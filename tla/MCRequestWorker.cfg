\* Every request, every failure and every turn of the client.
SPECIFICATION FairSpec
CONSTANTS
  MaxChunks = 3
INVARIANTS
  RepliesAreTrue
  
  FileIsSentWhole
  AllGivenBack
PROPERTIES
  ImplementsExchange
  WorkerEnds
\* A worker ends; a client may never say a word.
CHECK_DEADLOCK FALSE
