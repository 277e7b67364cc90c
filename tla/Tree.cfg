SPECIFICATION Spec
CONSTANTS
  Node = {n1, n2, n3, n4, n5, n6, n7, n8}
  NULL = NULL
  Addr = {1, 2, 3, 4, 5, 6, 7, 9, 17}
  FakeVPtr = {0}
  Word32 = 16
  None = None
VIEW MCView
INVARIANTS
  TypeOK
  ParentLinks
  Balanced
  AssertionsHold
  SearchFinds
PROPERTIES
  ImplementsEntryTree
