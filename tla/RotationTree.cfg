SPECIFICATION Spec
CONSTANTS
  HalfN = 32
  Rows = 2
  Queries = 2
  Shapes <- AllShapes
INVARIANTS
  TypeOK
  RotationRight
  ProductByDiagonals
CHECK_DEADLOCK FALSE
