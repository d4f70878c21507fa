CONSTANTS
  GangSize = 2
  Configs = {h1, h2}
  PatientRetry = FALSE
  MaxJobs = 3
  MaxCrashes = 2
  NoJob = NoJob
SPECIFICATION Spec
CHECK_DEADLOCK FALSE
PROPERTY ActiveHasGang
