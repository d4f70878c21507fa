CONSTANTS
  RunIDs = {r1}
  Callers = {c1}
  NSteps = 3
  BundleStep = 0
  ApplyStep = 1
  Gates = {1}
  Faults = {"start", "retry", "reset", "decide", "checkpoint", "terminal", "delete", "load", "step"}
  Clients = "polling"
  MaxEpoch = 2
  MaxCrashes = 1
  NoID = NoID
  NoRun = NoRun
SPECIFICATION FairSpec
CHECK_DEADLOCK FALSE
INVARIANT OneDriver
PROPERTY LiveRunSettles
PROPERTY DrainCompletes
