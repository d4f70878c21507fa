CONSTANTS
  GangSize = 2
  Configs = {h1, h2}
  PatientRetry = TRUE
  MaxJobs = 3
  MaxCrashes = 2
  NoJob = NoJob
SPECIFICATION FairSpec
INVARIANT UnmarkedIsGone
INVARIANT OneGang
PROPERTY ActiveHasGang
PROPERTY CallsEnd
PROPERTY KeepsPromise
CHECK_DEADLOCK FALSE
