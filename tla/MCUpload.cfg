\* Files of up to four bytes, sent two at a time through a connection that holds
\* two: a full connection, a cut buffer, a file that grows or shrinks under it.
SPECIFICATION FairUpload
CONSTANTS
  c = c
  Putters <- OneClient
  Getters = {}
  Buf = 2
  MaxBody = 5
  SizeMod = 16
  OldSize = 1
  Block = 2
  Window = 2
INVARIANTS
  StoredIsSource
  ConfirmedSucceeds
  RefusalIsExplained
PROPERTIES
  UploadEnds
\* Both ends stop.
CHECK_DEADLOCK FALSE
