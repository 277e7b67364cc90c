SPECIFICATION Spec
CONSTANTS
  Class = {1, 2, 3, 4, 5}
  Hierarchies <- AllHierarchies
  MaxBases = 2
  MayDiamond = TRUE
  Phantoms <- AllPhantoms
  MaxPhantom = 4
INVARIANTS
  TypeOK
  AssertionsHold
  ObjectsTraced
  NumbersDistinct
  RangeIsSubtree
  SafeInOwnTree
  BadTreeCastReported
CHECK_DEADLOCK FALSE
