SPECIFICATION Spec
CONSTANTS
  MaxN = 2
  Entries = {0, 1, 2}
  Offs = {1}
INVARIANT
  StrictlyLess
CHECK_DEADLOCK FALSE
