SPECIFICATION FairSpec
CONSTANTS
  TypesAt <- MCTypesAt
  UseRaced = FALSE
  Thread = {t1, t2}
  Addr = {1, 2, 3}
  Heap = {1, 2}
  NumSlots = 2
  Word32 = 3
  FakeVPtr = {0, 1}
  ArraySizes = {1, 2}
  None = None
INVARIANTS
  TypeOK
  LiveFound
  CastFinds
  DeadForgotten
PROPERTY CallsReturn
CHECK_DEADLOCK FALSE
