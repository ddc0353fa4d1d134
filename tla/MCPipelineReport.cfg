CONSTANTS
  Names = {a, b}
  Bytes = {x, y}
  None = None
  Jobs <- OddJobs
  MaxRuns = 1
  MaxChecks = 2
  MaxPosts = 1
SPECIFICATION Spec
INVARIANT ReportIsWrittenOnFailure
CHECK_DEADLOCK FALSE
