SPECIFICATION Spec
CONSTANTS
  Word64 = 1024
  TreeSize = 4
  DiamondSize = 5
  MaxNeg = 3
  MaxPos = 2
  MaxMissing = 0
  Clouds <- SharedPrimaryClouds
INVARIANT OffsetsAgree
CHECK_DEADLOCK FALSE
