SPECIFICATION QuerySpec
CONSTANTS
  Tree <- AllTrees
  patternLength = 2
  Cell = {1, 2}
  TIMESTAMP_DIFF = 1
  Unit = 2
  NULL = NULL
  Series = 4
  MCValue = {2, 5, 6, 7}
INVARIANTS
  QueryTypeOK
  StartsAtTheMeasurement
  AloneItFindsAll
PROPERTIES
  AnswersAreNew
  NearestFirst
CHECK_DEADLOCK FALSE
