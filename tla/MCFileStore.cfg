CONSTANTS
  RunIDs = {r1, r2}
  Vers = {1, 2}
  Callers = {c1, c2, c3}
  NoID = NoID
  NoRun = NoRun
  Missing = Missing
  MaxOps = 6
SPECIFICATION Spec
SYMMETRY Symmetry
CHECK_DEADLOCK FALSE
PROPERTY ImplementsRunStore
