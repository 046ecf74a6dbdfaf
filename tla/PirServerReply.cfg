SPECIFICATION Spec
CONSTANTS
  NumThreads = 2
  N1 = 2
  Ratio = 3
INVARIANTS
  ReplyCorrect
CHECK_DEADLOCK FALSE
