SPECIFICATION Spec
CONSTANTS
  Shapes <- TwoInOneGroup
  ClientRows = 2
  Programs = {"split"}
INVARIANT RowsRight
CHECK_DEADLOCK FALSE
