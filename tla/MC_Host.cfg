SPECIFICATION Spec
CONSTANTS
  Calls <- Documented
  NarrowMax = 7
  WideMin <- MostNegative
  Span = 5
  Longest = 4
  Exact = 2
  Statuses = {0, 1}
  MaxCount = 2
INVARIANTS
  TypeOK
  Sound
  NoTruncation
  InBounds
  Delivered
  ThrowsClean
  LocalsSuffice
  QuerySuffices
  TakesLegalCalls
  ErrorExit
PROPERTIES
  KeepsPromise
  Terminates
CHECK_DEADLOCK FALSE
