\* Three attempts each, as in the code, and two signals.
SPECIFICATION FairSpec
CONSTANTS
  MaxRetries = 3
  MaxSignals = 2
INVARIANTS
  ClaimsAreTrue
  NoGhost
PROPERTIES
  LoopsOfListener
  RegistrationEnds
\* The process exits; a server no signal reaches serves for ever.
CHECK_DEADLOCK FALSE
