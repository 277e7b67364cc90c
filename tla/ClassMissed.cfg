SPECIFICATION Spec
CONSTANTS
  Class = {1, 2, 3, 4, 5}
  Hierarchies <- AllHierarchies
  MaxBases = 2
  MayDiamond = TRUE
  Phantoms <- AllPhantoms
  MaxPhantom = 0
INVARIANT BadCastReported
CHECK_DEADLOCK FALSE
