CONSTANTS
  Word = Word
  None = None
  foo = foo
  bar = bar
  alias = alias
  m1 = m1
  m2 = m2
  Modules = {m1, m2}
  Packages = {foo, bar}
  Ecosystems = {"go", "npm", "pnpm", "yarn", "cargo", "maven"}
  Obedient = TRUE
  MaxSteps = 2
  Constraints <- BothConstraints
  Declarations <- PinDeclarations
  Locks <- PlainLocks
  Trees <- Sources
SPECIFICATION Spec
INVARIANTS
  TypeOK
  UpdateTakesEffect
  UnrelatedPinsStay
PROPERTIES
  PublishedMeetsPins
  OnlyDeclaredIsPublished
  PinsThatHoldChangeNothing
CHECK_DEADLOCK FALSE
