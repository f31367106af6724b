SPECIFICATION Spec
CONSTANTS
  p1 = p1
  p2 = p2
  i1 = i1
  i2 = i2
  Paths <- MCPaths
  Items <- MCItems
  Lists <- MCLists
  Readers = {r1}
  BuildIndex = TRUE
  Absent = Absent
  Zero = Zero
  Torn = Torn
SYMMETRY Symmetry
INVARIANTS
  TypeOK
  IndexIsInverse
  IInv
  AnswersOnceHeld
  UntouchedUnlessMoved
