\* Three workers and half the numbers they could use, so that every number is
\* reused and accept runs out of them, and signals that interrupt close.
SPECIFICATION Spec
CONSTANTS
  Workers = {w1, w2, w3}
  MaxFds = 3
SYMMETRY Symmetry
INVARIANTS
  NumbersAreOwn
  LostIsRefused
