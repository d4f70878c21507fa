CONSTANTS
  Node = Node
  GPU = GPU
  Deployment = Deployment
  Rollout = Rollout
  NActions = 2
  MaxRuns = 2
  MaxEpochs = 2
  MaxChanges = 2
  MaxReleased = 1
SPECIFICATION Spec
CHECK_DEADLOCK FALSE
INVARIANT HeaderFirst
INVARIANT CursorFollowsDriver
INVARIANT ScopeIsRecipe
INVARIANT RowsAreCurrent
