\* Bodies of up to four bytes, read two at a time, so that the first CRLF may lie
\* before, in or behind the bytes that come with the header; against a GET that may
\* run before, under or after the PUT, or (bodies of two bytes) against another PUT.
SPECIFICATION MCSpec
CONSTANTS
  p1 = p1
  p2 = p2
  g1 = g1
  Putters <- BothPutters
  Getters <- OneGetter
  Buf = 2
  MaxBody = 4
  SizeMod = 16
  OldSize = 2
INVARIANTS
  CreatedIsComplete
  CreatedIsTheBody
  GetIsFaithful
PROPERTIES
  GetEnds
  PutEnds
\* Workers end; clients may leave their connections idle.
CHECK_DEADLOCK FALSE
