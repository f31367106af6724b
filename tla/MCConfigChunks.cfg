SPECIFICATION Spec
CONSTANT MaxValues = 43
CHECK_DEADLOCK FALSE
INVARIANTS
  TypeOK
  InOrderOnce
  OkMeansAll
  RouteFits
  IInv
