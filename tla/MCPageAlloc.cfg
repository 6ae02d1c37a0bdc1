SPECIFICATION Spec
CONSTANTS
  NumPages = 6
  NumDesc = 7
  WordSize = 16
  Requests <- ServableSizes
INVARIANTS
  BlocksDisjoint
  FlagsDescribeBlocks
PROPERTIES
  ImplementsBlockPool
