SPECIFICATION FairSpec
CONSTANTS
  Workers = {w1, w2}
  Schedules = {TRUE, FALSE}
  MaxEarly = 2
INVARIANTS
  TypeOK
  QueryNeedsArmedWorkers
  NoTornQuery
  ReportNeedsAllAnswers
PROPERTIES
  ResetLosesNothing
  OnlyMissedWakeupsHang
  ImplementsRounds
CHECK_DEADLOCK FALSE
