CONSTANTS
  Schedule = {s1}
  Target = {c1}
  Request = {d1, d2}
  NumFires = 2
  Limit = 2
  MaxTime = 1
  MaxId = 9
  MaxLost = 1
  Faults = {"warm", "list", "create", "delete", "crash"}
  ResumeDeleting = FALSE
  Clears = TRUE
SPECIFICATION FairSpec
INVARIANTS NothingUntracked OnePendingPerFire DeletedLeavesNothing
PROPERTIES TrackedNeverDropped RequestsAnswered
