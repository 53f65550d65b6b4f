\* A body of two lines that comes with the header.
SPECIFICATION Spec
CONSTANTS
  Putters = {p1}
  Getters = {}
  Buf = 4
  MaxBody = 4
  SizeMod = 16
  OldSize = 0
INVARIANTS
  BadRequestIsShort
\* Workers end; clients may leave their connections idle.
CHECK_DEADLOCK FALSE
