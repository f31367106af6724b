SPECIFICATION FairSpec
CONSTANTS
  a = a
  semi = semi
  Paths = {p1, p2}
  Lists <- MCLists
  ReadBack <- MCReadBack
  Pieces <- MCPieces
  Blank = Blank
  RestoreFirst = TRUE
  Absent = Absent
  NoFile = NoFile
INVARIANTS
  TypeOK
  SavedWhenClean
  IInv
PROPERTIES
  StoredStays
  PutsReachDisk
