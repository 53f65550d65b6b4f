\* No SIGINT or SIGTERM at all: only clients act.
SPECIFICATION Spec
CONSTANTS
  Conns = {c1, c2}
  MaxRetries = 3
  MaxFds = 2
  MaxSignals = 0
PROPERTIES
  StopsOnlyOnRequest
\* The process exits, and a server nobody connects to waits for ever.
CHECK_DEADLOCK FALSE
