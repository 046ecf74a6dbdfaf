SPECIFICATION FairSessionSpec
CONSTANTS
  Shapes <- SmallShapes
  ClientRows = 6
  Programs = {"merge"}
  Scale = 2
  MaxEarly = 1
INVARIANTS
  SessionTypeOK
  QueryInOrder
PROPERTIES
  ImplementsExchange
  OnlyMissedWakeupsHang
CHECK_DEADLOCK FALSE
