SPECIFICATION FairSpec
CONSTANTS
  Value = {1, 12}
  RECORDS = 5
  TIMESTAMP_DIFF = 300
  FirstSize = 2
  LastSize = 4
  SizeStep = 1
  Uninitialised <- MCUninitialised
INVARIANTS
  IndexMatchesWindow
  EveryRoundReplaysTheFile
  SeriesIsRegular
PROPERTIES
  BenchmarkEnds
CHECK_DEADLOCK FALSE
