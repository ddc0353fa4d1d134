CONSTANTS
  a = a
  b = b
  x = x
  p = p
  q = q
  r = r
  None = None
  Names = {a, b, x}
  Versions = {1, 2}
  any = any
  old = old
  new = new
  Ranges = {any, old, new}
  Packages = {p, q, r}
  Locators = {a, b, x}
  Locks <- SmallLocks
SPECIFICATION Spec
INVARIANTS
  TypeOK
  ProductionIsExact
  ErrorsAreReal
PROPERTY Termination
CHECK_DEADLOCK FALSE
