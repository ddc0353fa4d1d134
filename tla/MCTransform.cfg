CONSTANTS
  Names = {a, b, c}
  Files = {f, g}
  f = f
  g = g
  v = v
  w = w
  Values = {v}
  Absent = Absent
  None = None
  SubdirOf <- NoSubdir
  Upstream <- OneUpstream
  GitOptions <- WholeCheckout
  MaxFetch = 2
  MaxSources = 2
  MaxSteps = 3
SYMMETRY FullSymmetry
SPECIFICATION Spec
INVARIANTS
  TypeOK
  BytesMatchChecksums
  BackingIsPublished
PROPERTIES
  InputsArePreserved
  ImplementsLedger
CHECK_DEADLOCK FALSE
