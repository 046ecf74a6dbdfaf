SPECIFICATION QuerySpec
CONSTANTS
  N = 8
  LogN = 3
  LogT = 3
  EleSize = 1
  Byte <- MCByte
  Counts = {1, 3, 5, 8, 13, 24, 30, 40, 98, 113}
  ThreadCounts = {1, 3}
INVARIANTS
  QueryTypeOK
  ExpandedIsUnit
  RetrievalRight
  ThrowsOnlyWhenFull
CHECK_DEADLOCK FALSE
