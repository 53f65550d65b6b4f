\* Every source of up to seven bytes: enough for a blank line, a payload and a CRLF
\* in it, and for a zero byte in any of their places.  URLs of all their parts, present
\* or not, holding every delimiter that does not end them.  Two numbers behind the
\* standard streams; three addresses, so that the first, one between and the last may
\* be what fails; buffers of up to four bytes, taken in any pieces, with three signals
\* between any of them.
SPECIFICATION MCSpec
CONSTANTS
  Char = {"x", "cr", "lf", "zero"}
  Zero = "zero"
  Delimiter <- CrLf
  MaxSize = 7
  Words <- SomeWords
  Paths <- SomePaths
  Tails <- SomeTails
  MaxFd = 4
  MaxAddresses = 3
  MaxCount = 4
  MaxInterrupts = 3
INVARIANTS
  SplitIsExact
  PayloadIsLead
  FieldsAreParts
  ParsersAgree
  LogStaysOut
  DaemonIsDetached
  NothingLeaks
  OutIsPrefix
  LineIsWhole
\* They return.
CHECK_DEADLOCK FALSE
