SPECIFICATION FairSpec
CONSTANTS
  NumItems = 7
  K = 3
  NumBuckets = 5
  D = 2
  MaxAttempts = 3
  HashTables <- MCHashTables
INVARIANTS
  TypeOK
  KeysInPlace
  ScheduleWhole
  IndicesRight
PROPERTY
  ScheduleEnds
CHECK_DEADLOCK FALSE
