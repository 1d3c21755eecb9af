SPECIFICATION TimeSetSpec
CONSTANTS
  Key = {0, 1, 3, 4, 9}
  HashFunction <- MCHashFunction
  InitialBuckets = 1
  Threshold = 1
  Error <- MCError
  Tolerance = 1
  LongModulus = 16
  IntModulus = 8
  NULL = NULL
INVARIANTS
  HashIntegrity
  AnswersAreExact
  ChainsAreBounded
  IterationIsSafe
  NothingLeaks
PROPERTIES
  ImplementsSeenTimes
  NeighboursAreInOrder
  SortsByTime
CHECK_DEADLOCK FALSE
