SPECIFICATION Spec
CONSTANTS
  Align = 2
  NumSlots = 2
  Word32 = 16
  Word64 = 64
  Addr = {2, 6, 7, 10, 11}
  FakeVPtr = {0}
  Ranges = {}
  TypeSizes = {1}
  ArraySizes = {0, 1, 2}
  MayRealias = FALSE
  MayUnwind = FALSE
  None = None
INVARIANTS
  LiveLookup
