SPECIFICATION Spec
CONSTANTS
  Word64 = 1024
  TreeSize = 4
  DiamondSize = 5
  MaxNeg = 3
  MaxPos = 2
  MaxMissing = 2
  Clouds <- AllClouds
INVARIANTS
  TypeOK
  RangesVerified
  
  VcallRejectsOthers
  CastExact
  CallsReachEntry
CHECK_DEADLOCK FALSE
