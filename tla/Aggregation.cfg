SPECIFICATION FairSpec
CONSTANTS
  Shapes <- OneOrTwoGroups
  ClientRows = 4
  Programs = {"merge","split"}
INVARIANTS
  TypeOK
  SlicesFit
  SumsRight
  ReportWhole
PROPERTY ExchangeEnds
CHECK_DEADLOCK FALSE
