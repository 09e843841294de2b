SPECIFICATION Spec
CONSTANTS
  MaxN = 4
  Entries = {0, 1, 2}
  Offs = {0, 1, 2}
INVARIANTS
  TypeOK
  NeverDividesByZero
  LeadingMinors
  ExactBetween
  EvenAtEigenvalues
  AllBetweenEnds
  GrowsWithU
CHECK_DEADLOCK FALSE
