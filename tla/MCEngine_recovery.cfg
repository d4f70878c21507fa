CONSTANTS
  RunIDs = {r1}
  Callers = {c1}
  NSteps = 4
  BundleStep = 1
  ApplyStep = 2
  Gates = {0, 2}
  Faults = {"start", "retry", "decide", "checkpoint", "terminal", "delete", "list", "absent", "uninstall", "step"}
  Clients = "patient"
  MaxEpoch = 3
  MaxCrashes = 1
  NoID = NoID
  NoRun = NoRun
SPECIFICATION Spec
CHECK_DEADLOCK FALSE
INVARIANT RefusalHasRemedy
INVARIANT HalfRemovedIsGuarded
INVARIANT AckedDecisionDurable
INVARIANT LiveRunHasRecord
INVARIANT ApplyHasBundle
