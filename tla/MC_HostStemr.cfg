SPECIFICATION Spec
CONSTANTS
  Calls <- StemrCalls
  NarrowMax = 7
  WideMin <- MostNegative
  Span = 5
  Longest = 4
  Exact = 2
  Statuses = {0, 1}
  MaxCount = 2
INVARIANT
  Delivered
CHECK_DEADLOCK FALSE
