SPECIFICATION Spec
CONSTANTS
  Builds <- EveryBuild
  Enumerations <- AllButJobCond
  MaxCalls = 3
INVARIANTS
  TypeOK
  ParsesExactly
  SaysWhatIsMeant
  SolvesAsFactored
CHECK_DEADLOCK FALSE
