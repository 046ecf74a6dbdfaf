SPECIFICATION FairSpec
CONSTANTS
  Workers = {w1, w2}
  Schedules = {TRUE}
  MaxEarly = 0
PROPERTY SessionEnds
CHECK_DEADLOCK FALSE
