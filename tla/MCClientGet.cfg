\* Blocks of four bytes: headers that fill less than one, one, or more than one;
\* bodies that end in the first, second or third block.
SPECIFICATION FairSpec
CONSTANTS
  Block = 4
  MaxHeader = 6
  MaxBody = 6
  SizeMod = 16
INVARIANTS
  StoredIsExact
  CutShortIsNoticed
  WholeIsStored
PROPERTIES
  ClientEnds
\* The client ends; a server may keep a connection open and silent.
CHECK_DEADLOCK FALSE
