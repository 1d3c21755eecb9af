SPECIFICATION MCSpec
CONSTANTS
  Size = 5
  Value = {1, 2, 3, 4, 5}
  TIMESTAMP_DIFF = 1
  IntModulus = 10
  LongModulus = 10
  Garbage <- MCGarbage
  nodeSize = 3
  Node = {1, 2, 3, 4, 5, 6}
  NULL = NULL
INVARIANTS
  DeleteFindsTheRecord
PROPERTIES
  ImplementsSeriesWindow
  ShiftsReturn
CHECK_DEADLOCK FALSE
