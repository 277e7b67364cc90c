SPECIFICATION Spec
CONSTANTS
  Align = 2
  NumSlots = 2
  Word32 = 8
  Word64 = 64
  Addr = {2, 6, 7}
  FakeVPtr = {0, 1}
  Ranges = {}
  TypeSizes = {1, 4}
  ArraySizes = {1, 2}
  MayRealias = TRUE
  MayUnwind = TRUE
  None = None
INVARIANTS
  LiveLookup
  OwnEntry
