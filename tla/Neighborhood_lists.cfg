SPECIFICATION QuerySpec
CONSTANTS
  Tree <- AllTrees
  patternLength = 2
  Cell = {1}
  TIMESTAMP_DIFF = 1
  Unit = 2
  NULL = NULL
  Series = 4
  MCValue = {2, 4, 6}
INVARIANTS
  FalseMeansNoneLeft
CHECK_DEADLOCK FALSE
