SPECIFICATION Spec
CONSTANTS
  Calls <- GetrfCalls
  NarrowMax = 7
  WideMin <- MostNegative
  Span = 5
  Longest = 4
  Exact = 2
  Statuses = {0, 1}
  MaxCount = 2
INVARIANT
  InBounds
CHECK_DEADLOCK FALSE
