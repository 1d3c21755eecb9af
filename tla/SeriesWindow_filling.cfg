SPECIFICATION MCSpec
CONSTANTS
  Size = 5
  Value = {a, b}
  TIMESTAMP_DIFF = 4
  IntModulus = 32
  LongModulus = 64
  FirstTimes = {0, 4, 5}
  Garbage <- MCGarbage
INVARIANTS
  LookupFindsOnlyMeasurements
CHECK_DEADLOCK FALSE
