SPECIFICATION Spec
CONSTANTS
  None = None
  Releases <- MCReleases
  WithFlags <- MCWithFlags
  WithCache = {"12.0"}
  Platforms = {x64, arm64}
  Packages = {"plain", "scoped", "bad"}
  Malformed = {"bad"}
  ScopeOf <- MCScopeOf
  x64 = x64
  arm64 = arm64
  root = root
  nested = nested
  Dirs = {root, nested}
  Jobs <- MCJobs
INVARIANTS TypeOK ArchiveIsComplete UpstreamModulesSurvive
PROPERTY Termination
CHECK_DEADLOCK FALSE
