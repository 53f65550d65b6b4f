\* One query, good, malformed or empty, every failure of the worker, every moment
\* for its one read.
SPECIFICATION FairQuery
CONSTANT MaxChunks = 1
 
PROPERTY QueryEnds
\* Both ends stop.
CHECK_DEADLOCK FALSE
