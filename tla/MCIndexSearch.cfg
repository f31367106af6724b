SPECIFICATION Spec
CONSTANTS
  MaxPort = 3
  None = None
INVARIANTS
  TypeOK
  ReturnsInnermost
  ReturnsClosedForm
  IInv
CHECK_DEADLOCK FALSE
