CONSTANTS
  Word = Word
  None = None
  foo = foo
  bar = bar
  alias = alias
  m1 = m1
  m2 = m2
  Modules = {m1}
  Packages = {foo, bar}
  Ecosystems = {"npm"}
  Obedient = TRUE
  MaxSteps = 1
  Constraints <- BothConstraints
  Declarations <- PinDeclarations
  Locks <- AliasLocks
  Trees <- Sources
SPECIFICATION Spec
INVARIANT NoStalePin
CHECK_DEADLOCK FALSE
