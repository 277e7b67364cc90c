SPECIFICATION Spec
CONSTANTS
  Class = {1, 2, 3, 4}
  Hierarchies <- AllHierarchies
  MaxBases = 2
  MayDiamond = FALSE
  Phantoms <- AllPhantoms
  MaxPhantom = 0
INVARIANT NoFalseReport
CHECK_DEADLOCK FALSE
