SPECIFICATION MCSpec
CONSTANTS
  nodeSize = 3
  Node = {1, 2, 3, 4, 5, 6, 7, 8, 9, 10, 11, 12}
  NULL = NULL
  Value = {1, 2, 3, 4, 5, 6, 7, 8, 9, 10}
  Time = {1}
  MaxTimes = 1
INVARIANTS
  TypeOK
  EveryKeyIsFound
  ParentPointers
  PendingCallFindsItsEntry
  NothingLeaks
  Occupancy
