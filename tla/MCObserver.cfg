CONSTANTS
  Pods = {p}
  Troubles = {pull, crash}
  Owner = Owner
  Warning = Warning
  MaxRuns = 1
  MaxAttempts = 2
  MaxChanges = 3
  MaxReleased = 1
  Patient = TRUE
  None = None
SPECIFICATION FairSpec
CHECK_DEADLOCK FALSE
INVARIANT DeadIsForgotten
INVARIANT NoRedOnHealthy
INVARIANT RedIsRemembered
INVARIANT NoHiddenFailure
PROPERTY ScopeFollowed
