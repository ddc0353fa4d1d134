CONSTANTS
  Names = {a, b}
  Bytes = {x, y}
  None = None
  Jobs <- AllJobs
  MaxRuns = 1
  MaxChecks = 2
  MaxPosts = 1
SYMMETRY AnySymmetry
SPECIFICATION Spec
INVARIANTS
  TypeOK
  ManifestMatchesBytes
  ReportTellsTheTruth
PROPERTIES
  FailClosed
  NoSilentRepublication
  PackageChangesAfterChecks
CHECK_DEADLOCK FALSE
