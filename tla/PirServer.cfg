SPECIFICATION FairSpec
CONSTANTS
  NumThreads = 3
  N1 = 4
  Ratio = 2
INVARIANTS
  TypeOK
  WorkOnlyWhenReady
  BarriersSeparate
  ReplyWhole
PROPERTY
  OnlyMissedBroadcastHangs
CHECK_DEADLOCK FALSE
