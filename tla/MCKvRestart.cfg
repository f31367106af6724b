SPECIFICATION FairSpec
CONSTANTS
  a = a
  semi = semi
  Paths = {p1, p2}
  Lists <- MCLists
  ReadBack <- MCReadBack
  Pieces <- MCPieces
  Blank = Blank
  RestoreFirst = FALSE
  Absent = Absent
  NoFile = NoFile
PROPERTY
  StoredStays
