SPECIFICATION Spec
CONSTANTS
  HalfN = 8
  Rows = 3
  Shapes <- SmallShapes
INVARIANTS
  TypeOK
  PlaintextFits
  ProductWhole
CHECK_DEADLOCK FALSE
