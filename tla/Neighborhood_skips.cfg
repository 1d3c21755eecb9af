SPECIFICATION QuerySpec
CONSTANTS
  Tree <- SingleTrees
  patternLength = 2
  Cell = {1, 2}
  TIMESTAMP_DIFF = 1
  Unit = 2
  NULL = NULL
  Series = 4
  MCValue = {2, 4, 6, 8}
INVARIANTS
  FalseMeansNoneLeft
CHECK_DEADLOCK FALSE
