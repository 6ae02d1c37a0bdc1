SPECIFICATION Spec
CONSTANTS
  PageWords = 6
  NumPages = 3
  Requests = {2, 3, 9, 13, 14}
  MaxAlloc = 15
  WordMod = 64
  Garbage <- FreeLooking
INVARIANTS
  BlocksTile
  NoFreeNeighbours
  HeapOwnsItsPages
PROPERTIES
  PayloadsKept
  ImplementsBlockPool
