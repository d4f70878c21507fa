CONSTANTS
  NComponents = 2
  Namespaces = {"n1", "n2"}
  NamespaceOf <- Namespace2
  Hazards = {2}
  Objects = {o1, o2}
  RunIDs = {r1, r2}
  Foreign <- Foreign2
  ByHand = FALSE
  MaxCrashes = 0
  Other = Other
  Nobody = Nobody
  NoObject = NoObject
  NoRun = NoRun
SPECIFICATION Spec
SYMMETRY Symmetry
CHECK_DEADLOCK FALSE
PROPERTY RefusalStands
