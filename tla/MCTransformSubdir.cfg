CONSTANTS
  Names = {a, b, c}
  Files = {f, g}
  f = f
  g = g
  v = v
  w = w
  Values = {v, w}
  Absent = Absent
  None = None
  SubdirOf <- GIsF
  Upstream <- OneUpstream
  GitOptions <- SubdirCheckout
  MaxFetch = 2
  MaxSources = 2
  MaxSteps = 2
SPECIFICATION Spec
INVARIANT SubdirSourceStaysInSubdir
CHECK_DEADLOCK FALSE
