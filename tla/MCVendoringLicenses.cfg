SPECIFICATION Spec
CONSTANTS
  Word = Word
  Ecosystems = {"npm", "pnpm", "cargo", "go"}
  app = app
  lib = lib
  Modules = {app, lib}
  Copies <- MCCopies
  Disallowed <- MCDisallowed
  Policies <- MCPolicies
  MaxSteps = 2
  MaxPart = 2
  MaxParts = 3
INVARIANT DisallowedIsFlagged
SYMMETRY MCSymmetry
CHECK_DEADLOCK FALSE
