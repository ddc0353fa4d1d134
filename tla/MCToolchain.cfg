CONSTANTS
  Word = Word
  Malformed = Malformed
  None = None
  Declarations <- SmallDeclarations
  Machines <- SmallMachines
SPECIFICATION Spec
INVARIANTS
  TypeOK
  StagesSeeDeclared
  RefusalIsJustified
  PathIsSafe
CHECK_DEADLOCK FALSE
