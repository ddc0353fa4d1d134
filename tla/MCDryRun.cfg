SPECIFICATION DrySpec
CONSTANTS
  a = a
  b = b
  c = c
  None = None
  Names = {a, b, c}
  ArchiveOf <- MCArchiveOf
  MaxPlans = 3
  MaxSteps = 4
INVARIANTS DryTypeOK FoundIsSolution GivesUpRightly AcceptedCanPublish RejectionIsJustified
PROPERTY DryRunEnds
CHECK_DEADLOCK FALSE
