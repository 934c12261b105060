CONSTANTS
  s1 = s1
  a1 = a1
  s2 = s2
  Schedule = {s1}
  Account = {a1}
  Uses <- OneAccount
  Plans <- CountedOrDated
  Starts <- SoonPastOrFar
  NativeHorizon = 6
  Margin = 1
  MaxSleep = 3
  ErrorWake = 2
  MaxTracked = 1
  OpTime = 2
  MaxTime = 4
  MaxPending = 1
  MaxLost = 1
SPECIFICATION FairSpec
INVARIANTS CompletesOnlyWhenOver CountKept SleepsInTime
PROPERTIES NoReplayAfterResume DeletedStaysDeleted EverySlotIsServed
