SPECIFICATION MCSpec
CONSTANTS
  nodeSize = 4
  Node = {1, 2, 3, 4, 5, 6, 7, 8, 9, 10, 11, 12}
  NULL = NULL
  Value = {1, 2, 3, 4, 5, 6, 7, 8, 9, 10, 11, 12, 13, 14, 15, 16, 17, 18}
  Time = {1}
INVARIANTS
  LeafChain
  NeighbourExists
  Balanced
PROPERTIES
  ImplementsTimeIndex
  CallsReturn
CHECK_DEADLOCK FALSE
