\* Three clients: one served or dropped, one late, one that must not be.  Two
\* descriptors, so that they run out; two signals.  No symmetry, for some of the
\* properties are temporal.
SPECIFICATION FairSpec
CONSTANTS
  Conns = {c1, c2, c3}
  MaxRetries = 3
  MaxFds = 2
  MaxSignals = 2
INVARIANTS
  ListenerInv
PROPERTIES
  ImplementsService
  SignalEndsService
  QueuedIsAccepted
\* The process exits, and a server nobody connects to waits for ever.
CHECK_DEADLOCK FALSE
