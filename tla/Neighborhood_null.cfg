SPECIFICATION QuerySpec
CONSTANTS
  Tree <- SingleTrees
  patternLength = 2
  Cell = {1, 2}
  TIMESTAMP_DIFF = 1
  Unit = 2
  NULL = NULL
  Series = 3
  MCValue = {2, 4, 6}
INVARIANTS
  NullIsNotRead
CHECK_DEADLOCK FALSE
