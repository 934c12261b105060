CONSTANTS
  NumOps = 2
  Requests = 2
  MaxFaults = 1
SPECIFICATION FairSpec
INVARIANTS CompletedMeansAllRan NothingLeftOpen DoneIsDurable CancelIsHonoured
PROPERTIES RunEnds ImplementsLife
CHECK_DEADLOCK FALSE
