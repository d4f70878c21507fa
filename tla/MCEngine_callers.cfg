CONSTANTS
  RunIDs = {r1, r2}
  Callers = {c1, c2}
  NSteps = 3
  BundleStep = 0
  ApplyStep = 1
  Gates = {1}
  Faults = {"start", "retry", "decide", "checkpoint", "terminal", "delete", "list", "absent", "uninstall", "step"}
  Clients = "polling"
  MaxEpoch = 2
  MaxCrashes = 0
  NoID = NoID
  NoRun = NoRun
SPECIFICATION Spec
SYMMETRY Symmetry
CHECK_DEADLOCK FALSE
INVARIANT DoneMeansGone
INVARIANT DrainedIsQuiet
INVARIANT WorkloadTracked
