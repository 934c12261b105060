---------------------------- MODULE QueueRunProofs ----------------------------
(* Proofs about QueueRun, for every number of operations, requests and       *)
(* failing writes, and however the threads are switched.                     *)
EXTENDS QueueRun, TLAPS

(* The parts of the loop: before the operation is begun, and under it.       *)
Before == {"start", "lock", "top", "gate", "park", "parked", "unpark", "unparked",
           "recheck", "delay", "begin"}
Under == {"condition", "call", "wait", "unflood", "retry"}
Deciding == {"final", "finalCancel", "finalPlain", "canceled", "completed", "save"}
Past == {"release", "finish", "done"}

AllRan == \A i \in Op : ops[i] = "done"
NoneOpen == \A i \in Op : ops[i] \notin {"pending", "running"}

(* An operation takes one call, and a second one after a flood wait.         *)
Tried ==
  /\ pc \in Before \cup {"new", "condition"} => tries = 0
  /\ pc \in {"call", "wait", "unflood"} => tries = 1
(* The operations have their turn in order.                                  *)
InOrder ==
  pc \in Before \cup Under \cup {"new"} =>
    /\ \A i \in Op : i < index => ops[i] = "done"
    /\ \A i \in Op : i > index => ops[i] = "pending"
    /\ ops[index] = IF pc \in Under THEN "running" ELSE "pending"
(* A worker that leaves the loop by itself has closed every operation; only  *)
(* a failed write makes it raise.                                            *)
ClosedAtEnd ==
  /\ pc \in Deciding => NoneOpen
  /\ pc = "error" => faults > 0
  /\ pc \in Past /\ faults = 0 => NoneOpen
Structure ==
  /\ Tried /\ InOrder /\ ClosedAtEnd
  /\ pc \in {"new", "dead", "gone"} => saving = "no"

(* A final status means that the worker has left its loop.                   *)
QuietAfterEnd ==
  /\ status \in Terminal => pc \notin Working \cup {"new"}
  /\ disk.status \in Terminal => pc \notin Working \cup {"new"}

(* How the verdict comes about, and what a control can make of it.           *)
Overruled == FloodStopped /\ late
Stopped == AllRan \/ (FloodStopped /\ (status = "flood_wait" \/ late))
VerdictIsSound ==
  /\ status = "flood_wait" /\ pc # "gone" => FloodStopped
  /\ pc \in {"final", "finalCancel"} => Stopped \/ cancelReq
  /\ pc = "finalPlain" => Stopped
  /\ pc = "completed" => AllRan \/ Overruled
  /\ status = "completed" => AllRan \/ Overruled

(* What the file holds came from a record that was right.                    *)
DiskIsSound ==
  disk.status = "completed" =>
    \/ \A i \in Op : disk.ops[i] = "done"
    \/ late /\ \E i \in Op :
         /\ disk.ops[i] = "done"
         /\ \A j \in Op : j < i => disk.ops[j] = "done"
         /\ \A j \in Op : j > i => disk.ops[j] = "skipped_canceled"

(* A cancel that was asked for in time cannot lead to "completed".           *)
CancelInTime ==
  /\ heard => cancelReq
  /\ heard /\ pc = "finalPlain" => status = "flood_wait" \/ late
  /\ heard /\ pc = "completed" => late
  /\ heard /\ status = "completed" => late
  /\ heard /\ disk.status = "completed" => late
  /\ CancelIsHonoured

(* No save is on its way: the file says what memory says.                    *)
Settled == saving = "no" /\ \A h \in Handler : hpc[h] \notin {"asked"} \cup Picked
Durable ==
  /\ pc = "done" => closed
  /\ pc = "done" /\ faults = 0 /\ Settled => disk \in {Absent, Entry(status, ops, closed)}
  /\ ~crossed =>
       /\ saving \in Picked => saving = Pick
       /\ \A h \in Handler : hpc[h] \in Picked => hpc[h] = Pick
       /\ faults = 0 /\ Settled => (disk # Absent <=> present)

IInv == /\ TypeOK /\ Structure /\ QuietAfterEnd /\ VerdictIsSound /\ DiskIsSound
        /\ CancelInTime /\ Durable

-----------------------------------------------------------------------------
(* What the steps do.                                                        *)
Status == Terminal \cup Active
Entries == [status : Status, ops : [Op -> OpStatus], closed : BOOLEAN]
Routes == [Handler -> Route]
history == <<heard, late, crossed>>

LEMMA Places ==
  /\ Working = Before \cup Under /\ Before \cap Under = {}
  /\ \A p \in Before \cup Under : p \notin Deciding \cup Past \cup {"error", "new", "dead", "gone"}
  /\ \A p \in Deciding : p \notin Past \cup {"error", "new", "dead", "gone"}
  /\ \A p \in Past : p \notin {"error", "new", "dead", "gone"}
BY DEF Working, Before, Under, Deciding, Past

(* A status is final or active, and none is that of an absent entry.         *)
LEMMA Words == Terminal \cap Active = {} /\ Absent.status \notin Status
BY DEF Terminal, Active, Absent, Status

Acts == saving = "no" /\ UNCHANGED <<flags, hpc, present, disk, faults, history>>
Saves == saving' \in {"no", "asked"}
MovesOn ==
  /\ pc \in Before
  /\ pc' \in Before \cup {"dead"}
  /\ UNCHANGED <<record, index, long, tries>>
  /\ status' \in {status, "running", "paused"}
  /\ Saves
  /\ pc' = "dead" => UNCHANGED <<status, saving>>
Cancels == pc \in Before /\ cancelReq /\ CancelNow
Begins ==
  /\ pc = "begin" /\ pc' = "condition"
  /\ ops' = [ops EXCEPT ![index] = "running"]
  /\ UNCHANGED <<status, closed, index, long, tries>>
  /\ Saves
Calls ==
  /\ pc \in Under /\ pc' \in Under
  /\ UNCHANGED <<record, index>>
  /\ status' \in {status, "running", "flood_waiting"}
  /\ long' \in BOOLEAN
  /\ \/ {pc, pc'} \subseteq {"call", "wait", "unflood"} /\ tries' = tries
     \/ pc = "condition" /\ pc' = "call" /\ tries' = tries + 1
     \/ pc = "unflood" /\ pc' = "retry" /\ tries' = tries + 1
  /\ Saves
Finishes ==
  /\ pc \in Under
  /\ ops' = [ops EXCEPT ![index] = "done"]
  /\ tries' = 0 /\ long' = FALSE
  /\ UNCHANGED <<status, closed>>
  /\ index' = NextIndex
  /\ pc' = IF index < NumOps THEN "top" ELSE "final"
  /\ Saves
Stops == pc = "call" /\ FloodStop
Aborts == pc = "wait" /\ cancelReq /\ WaitAborts
Decides ==
  \/ ReadFlag \/ ReadStatusCanceled \/ ReadStatus \/ WriteVerdict \/ SaveVerdict
  \/ Raised \/ ReleaseClients \/ FinishRun

(* The kinds of steps a worker takes.                                        *)
LEMMA WorkerKinds ==
  ASSUME TypeOK, Worker
  PROVE  \/ WorkerPicks \/ WorkerWrites \/ Create
         \/ Acts /\ (\/ MovesOn \/ Cancels \/ Begins \/ Calls \/ Finishes \/ Stops
                     \/ Aborts \/ Decides)
<1>1. ASSUME NEW at, At(at) PROVE Acts /\ pc = at
  BY <1>1 DEF At, Acts, flags, history
<1>2. CASE Begin \/ Park \/ Unparked
  BY <1>1, <1>2 DEF Begin, Park, Unparked, SaveThen, MovesOn, Before, Saves, Acts
<1>3. CASE EnterGuard \/ Gate \/ Poll \/ Unpark \/ DelayElapses
  BY <1>1, <1>3
  DEF EnterGuard, Gate, Poll, Unpark, DelayElapses, Goto, MovesOn, Before, Saves, Acts
<1>4. CASE TopCheck \/ Recheck \/ DelayAborts
  BY <1>1, <1>4
  DEF TopCheck, Recheck, DelayAborts, Goto, MovesOn, Cancels, Before, Saves, Acts
<1>5. CASE BeginOp
  BY <1>1, <1>5 DEF BeginOp, ThrottledSave, SaveThen, Begins, Saves, Acts
<1>6. CASE ConditionHolds \/ ShortFlood \/ LongFlood \/ WaitElapses \/ RetryOnce
  BY <1>1, <1>6
  DEF TypeOK, ConditionHolds, ShortFlood, LongFlood, WaitElapses, RetryOnce, SaveThen, Goto,
      Calls, Under, Saves, Acts
<1>7. CASE ConditionFails \/ CallReturns("call") \/ CallReturns("retry")
  BY <1>1, <1>7
  DEF ConditionFails, CallReturns, Finish, ThrottledSave, SaveThen, Finishes, Under, Saves,
      Acts
<1>8. CASE FloodStop \/ WaitAborts
  BY <1>1, <1>8 DEF FloodStop, WaitAborts, Stops, Aborts
<1>9. CASE Decides
  BY <1>1, <1>9
  DEF Decides, ReadFlag, ReadStatusCanceled, ReadStatus, WriteVerdict, SaveVerdict, Raised,
      ReleaseClients, FinishRun
<1>. QED
  BY <1>2, <1>3, <1>4, <1>5, <1>6, <1>7, <1>8, <1>9 DEF Worker, Decides

(* The kinds of steps a request takes.                                       *)
Looks(h) ==
  /\ hpc[h] = "idle"
  /\ hpc'[h] \in Controls \cup {"deletePop", "asked"}
  /\ hpc'[h] \in Controls => present /\ status \notin Terminal
  /\ hpc'[h] = "deletePop" => (present => status \notin Active)
  /\ UNCHANGED <<status, flags, present, disk, faults, history>>
Flagged(h) ==
  /\ hpc[h] \in Controls /\ hpc'[h] \in Controls \cup {"asked"}
  /\ cancelReq' \in BOOLEAN /\ pauseReq' \in BOOLEAN
  /\ cancelReq => cancelReq'
  /\ heard' \in BOOLEAN
  /\ heard => heard'
  /\ heard' /\ ~heard => cancelReq' /\ pc \in Working
  /\ UNCHANGED <<status, present, disk, faults, late, crossed>>
Shown(h) ==
  /\ hpc[h] \in Controls /\ hpc'[h] = "asked"
  /\ status' \in {"canceling", "pausing", "running"}
  /\ late' = (late \/ status \in Terminal)
  /\ UNCHANGED <<flags, present, disk, faults, heard, crossed>>

LEMMA RouteKinds ==
  ASSUME TypeOK, NEW h \in Handler, Request(h) \/ RouteStep(h)
  PROVE  /\ UNCHANGED <<record, work, saving>>
         /\ hpc' = [hpc EXCEPT ![h] = hpc'[h]]
         /\ Looks(h) \/ Flagged(h) \/ Shown(h) \/ DeletePop(h) \/ RoutePicks(h) \/ RouteWrites(h)
<1>1. hpc \in Routes
  BY DEF TypeOK, Routes
<1>2. CASE Request(h)
  <2>1. PICK at \in Controls \cup {"deletePop", "asked"} : Enters(h, at)
    BY <1>2 DEF Request, Cancel, Pause, Resume, Delete, Clear, Elsewhere, Controls
  <2>2. hpc' = [hpc EXCEPT ![h] = at] /\ hpc'[h] = at
    BY <1>1, <2>1 DEF Enters, Routes
  <2>3. /\ at \in Controls => present /\ status \notin Terminal
        /\ at = "deletePop" => (present => status \notin Active)
    BY <1>1, <1>2, <2>2
    DEF Request, Cancel, Pause, Resume, Delete, Clear, Elsewhere, Accepts, Enters, Controls,
        Routes
  <2>. QED  BY <2>1, <2>2, <2>3 DEF Enters, Looks, flags, history
<1>3. ASSUME NEW at, NEW next, Steps(h, at, next)
      PROVE  /\ hpc[h] = at /\ hpc'[h] = next /\ hpc' = [hpc EXCEPT ![h] = hpc'[h]]
             /\ UNCHANGED <<record, work, saving>>
  BY <1>1, <1>3 DEF Steps, Routes
<1>4. CASE CancelFlag(h) \/ CancelPause(h) \/ PauseFlag(h) \/ ResumeFlag(h)
  <2>1. \E at, next \in Controls : Steps(h, at, next)
    BY <1>4 DEF CancelFlag, CancelPause, PauseFlag, ResumeFlag, Flags, Controls
  <2>2. UNCHANGED <<status, present, disk, faults, late, crossed>>
    BY <1>4 DEF CancelFlag, CancelPause, PauseFlag, ResumeFlag, Flags
  <2>3. \/ cancelReq' = TRUE /\ UNCHANGED pauseReq
        \/ UNCHANGED cancelReq /\ pauseReq' \in BOOLEAN
    BY <1>4, Zenon DEF CancelFlag, CancelPause, PauseFlag, ResumeFlag
  <2>4. heard' = heard \/ (cancelReq' = TRUE /\ heard' = (heard \/ pc \in Working))
    BY <1>4, Zenon DEF CancelFlag, CancelPause, PauseFlag, ResumeFlag
  <2>5. /\ cancelReq' \in BOOLEAN /\ pauseReq' \in BOOLEAN
        /\ cancelReq => cancelReq'
    BY <2>3, Zenon DEF TypeOK
  <2>6. /\ heard' \in BOOLEAN
        /\ heard => heard'
        /\ heard' /\ ~heard => cancelReq' /\ pc \in Working
    <3>1. heard \in BOOLEAN
      BY DEF TypeOK
    <3>2. CASE heard' = heard
      BY <3>1, <3>2
    <3>3. CASE cancelReq' = TRUE /\ heard' = (heard \/ pc \in Working)
      BY <3>1, <3>3
    <3>. QED  BY <2>4, <3>2, <3>3
  <2>7. Flagged(h)
    BY <1>3, <2>1, <2>2, <2>5, <2>6 DEF Flagged
  <2>. QED  BY <1>3, <2>1, <2>7
<1>5. CASE PauseRead(h) \/ ResumeRead(h)
  BY <1>3, <1>5
  DEF TypeOK, PauseRead, ResumeRead, Reads, Flags, Flagged, Controls, flags
<1>6. CASE CancelStatus(h) \/ PauseStatus(h) \/ ResumeStatus(h)
  BY <1>3, <1>6 DEF CancelStatus, PauseStatus, ResumeStatus, Shows, Shown, Controls
<1>7. CASE DeletePop(h) \/ RoutePicks(h) \/ RouteWrites(h)
  BY <1>3, <1>7 DEF DeletePop, RoutePicks, RouteWrites, Reads, Flags
<1>. QED  BY <1>2, <1>4, <1>5, <1>6, <1>7 DEF RouteStep

-----------------------------------------------------------------------------
(* Types.                                                                    *)
LEMMA OpTyped == NumOps \in Nat /\ \A i \in Op : i \in Nat /\ i >= 1 /\ i <= NumOps
BY QueueAssumption DEF Op

LEMMA MarkedTyped == ASSUME NEW n, NEW o \in [Op -> OpStatus] PROVE Marked(n, o) \in [Op -> OpStatus]
BY DEF Marked, OpStatus

RecordTyped == status \in Status /\ ops \in [Op -> OpStatus] /\ closed \in BOOLEAN
DiskTyped == disk = Absent \/ disk \in Entries
PCs == Working \cup Ending \cup {"new", "done", "dead", "gone"}
WorkTyped == pc \in PCs /\ index \in Op /\ long \in BOOLEAN /\ tries \in 0..2
RouteTyped == hpc \in Routes /\ saving \in Saving
FlagsTyped == /\ cancelReq \in BOOLEAN /\ pauseReq \in BOOLEAN /\ present \in BOOLEAN
              /\ heard \in BOOLEAN /\ late \in BOOLEAN /\ crossed \in BOOLEAN

LEMMA TypeParts ==
  TypeOK <=> /\ RecordTyped /\ DiskTyped /\ WorkTyped /\ RouteTyped /\ FlagsTyped
             /\ faults \in 0..MaxFaults
BY DEF TypeOK, RecordTyped, DiskTyped, WorkTyped, RouteTyped, FlagsTyped, PCs, Routes, Status,
       Entries

LEMMA PartsSuffice ==
  ASSUME RecordTyped', DiskTyped', WorkTyped', RouteTyped', FlagsTyped',
         faults' \in 0..MaxFaults
  PROVE  TypeOK'
BY DEF TypeOK, RecordTyped, DiskTyped, WorkTyped, RouteTyped, FlagsTyped, PCs, Routes, Status,
       Entries

LEMMA WriteTyped == ASSUME RecordTyped, NEW picked, Write(picked) PROVE DiskTyped'
BY DEF RecordTyped, Write, Entry, Entries, DiskTyped
LEMMA FailTyped == ASSUME faults \in 0..MaxFaults, WriteFails
                   PROVE  faults' \in 0..MaxFaults /\ faults' > 0
BY QueueAssumption DEF WriteFails

LEMMA TypeStep == TypeOK /\ Tried /\ [Next]_vars => TypeOK'
<1>1. SUFFICES ASSUME TypeOK, Tried, [Next]_vars PROVE TypeOK'
  OBVIOUS
<1>2. /\ RecordTyped /\ DiskTyped /\ WorkTyped /\ RouteTyped /\ FlagsTyped
      /\ faults \in 0..MaxFaults
  BY <1>1, TypeParts
<1>3. CASE Worker
  <2>1. CASE WorkerPicks
    BY <1>2, <2>1, PartsSuffice
    DEF WorkerPicks, Pick, Saving, Picked, RecordTyped, DiskTyped, WorkTyped, RouteTyped,
        FlagsTyped, flags, record, work
  <2>2. CASE WorkerWrites
    <3>1. DiskTyped' /\ faults' \in 0..MaxFaults
      BY <1>2, <2>2, WriteTyped, FailTyped DEF WorkerWrites, WriteFails, DiskTyped
    <3>2. pc' \in PCs
      BY <1>2, <2>2 DEF WorkerWrites, Raises, WorkTyped, PCs, Ending
    <3>. QED
      BY <1>2, <2>2, <3>1, <3>2, PartsSuffice
      DEF WorkerWrites, Saving, RecordTyped, WorkTyped, RouteTyped, FlagsTyped, flags, record
  <2>3. CASE Create
    <3>1. crossed' \in BOOLEAN /\ present' = TRUE
      BY <2>3, Zenon DEF Create
    <3>. QED
      BY <1>2, <2>3, <3>1, PartsSuffice
      DEF Create, SaveThen, Saving, RecordTyped, DiskTyped, WorkTyped, RouteTyped, FlagsTyped,
          flags, record, PCs, Working
  <2>4. CASE Acts /\ (\/ MovesOn \/ Cancels \/ Begins \/ Calls \/ Finishes \/ Stops
                      \/ Aborts \/ Decides)
    <3>1. DiskTyped' /\ FlagsTyped' /\ faults' \in 0..MaxFaults
      BY <1>2, <2>4 DEF Acts, DiskTyped, FlagsTyped, flags, history
    <3>2. RouteTyped'
      BY <1>2, <2>4
      DEF Acts, RouteTyped, Saving, MovesOn, Cancels, CancelNow, Begins, Calls, Finishes, Stops,
          FloodStop, Aborts, WaitAborts, Decides, ReadFlag, ReadStatusCanceled, ReadStatus,
          WriteVerdict, SaveVerdict, Raised, ReleaseClients, FinishRun, SaveThen, Goto, Saves
    <3>3. CASE MovesOn
      BY <1>2, <3>1, <3>2, <3>3, PartsSuffice
      DEF MovesOn, RecordTyped, WorkTyped, PCs, Working, Before, record, Status, Active
    <3>4. CASE Cancels
      BY <1>2, <3>1, <3>2, <3>4, PartsSuffice, MarkedTyped
      DEF Cancels, CancelNow, RecordTyped, WorkTyped, PCs, Ending, Status, Terminal
    <3>5. CASE Begins
      BY <1>2, <3>1, <3>2, <3>5, PartsSuffice
      DEF Begins, RecordTyped, WorkTyped, PCs, Working, OpStatus
    <3>6. CASE Calls
      <4>1. tries' \in 0..2
        BY <1>1, <1>2, <3>6 DEF Calls, Tried, WorkTyped
      <4>. QED
        BY <1>2, <3>1, <3>2, <3>6, <4>1, PartsSuffice
        DEF Calls, RecordTyped, WorkTyped, PCs, Working, Under, record, Status, Active
    <3>7. CASE Finishes
      <4>1. index' \in Op
        BY <1>2, <3>7, OpTyped DEF Finishes, NextIndex, WorkTyped, Op
      <4>2. WorkTyped'
        <5>1. long' \in BOOLEAN
          BY <3>7, Zenon DEF Finishes
        <5>2. tries' \in 0..2 /\ pc' \in PCs
          BY <3>7 DEF Finishes, PCs, Working, Ending
        <5>. QED  BY <4>1, <5>1, <5>2 DEF WorkTyped
      <4>3. RecordTyped'
        BY <1>2, <3>7 DEF Finishes, RecordTyped, OpStatus
      <4>. QED  BY <3>1, <3>2, <4>2, <4>3, PartsSuffice
    <3>8. CASE Stops \/ Aborts
      <4>1. PICK s \in OpStatus : ops' = Marked(index, [ops EXCEPT ![index] = s])
        BY <3>8 DEF Stops, Aborts, FloodStop, WaitAborts, OpStatus
      <4>2. [ops EXCEPT ![index] = s] \in [Op -> OpStatus]
        BY <1>2 DEF RecordTyped
      <4>3. ops' \in [Op -> OpStatus]
        BY <4>1, <4>2, MarkedTyped
      <4>4. RecordTyped'
        BY <1>2, <3>8, <4>3
        DEF Stops, Aborts, FloodStop, WaitAborts, RecordTyped, Status, Terminal
      <4>5. WorkTyped'
        <5>1. long' \in BOOLEAN
          BY <3>8, Zenon DEF Stops, Aborts, FloodStop, WaitAborts
        <5>2. index' = index /\ tries' \in 0..2 /\ pc' \in PCs
          BY <3>8 DEF Stops, Aborts, FloodStop, WaitAborts, PCs, Ending
        <5>. QED  BY <1>2, <5>1, <5>2 DEF WorkTyped
      <4>. QED  BY <3>1, <3>2, <4>4, <4>5, PartsSuffice
    <3>9. CASE Decides
      BY <1>2, <3>1, <3>2, <3>9, PartsSuffice
      DEF Decides, ReadFlag, ReadStatusCanceled, ReadStatus, WriteVerdict, SaveVerdict, Raised,
          ReleaseClients, FinishRun, SaveThen, Goto, RecordTyped, WorkTyped, PCs, Ending,
          Status, Terminal, record
    <3>. QED  BY <2>4, <3>3, <3>4, <3>5, <3>6, <3>7, <3>8, <3>9
  <2>. QED  BY <1>1, <1>3, <2>1, <2>2, <2>3, <2>4, WorkerKinds
<1>4. ASSUME NEW h \in Handler, Request(h) \/ RouteStep(h) PROVE TypeOK'
  <2>1. /\ UNCHANGED <<record, work, saving>>
        /\ hpc' = [hpc EXCEPT ![h] = hpc'[h]]
        /\ \/ Looks(h) \/ Flagged(h) \/ Shown(h) \/ DeletePop(h) \/ RoutePicks(h)
           \/ RouteWrites(h)
    BY <1>1, <1>4, RouteKinds
  <2>2. WorkTyped'
    BY <1>2, <2>1 DEF WorkTyped, work
  <2>3. hpc'[h] \in Route
    BY <1>2, <2>1
    DEF Looks, Flagged, Shown, DeletePop, RoutePicks, RouteWrites, Reads, Flags, Steps,
        RouteTyped, Routes, Route, Pick, Picked
  <2>4. RouteTyped'
    BY <1>2, <2>1, <2>3 DEF RouteTyped, Routes
  <2>5. RecordTyped'
    BY <1>2, <2>1
    DEF Looks, Flagged, Shown, DeletePop, RoutePicks, RouteWrites, Reads, Flags, RecordTyped,
        record, Status, Active
  <2>6. FlagsTyped'
    <3>1. CASE Looks(h) \/ RoutePicks(h) \/ RouteWrites(h)
      <4>1. UNCHANGED <<flags, present, history>>
        BY <3>1 DEF Looks, RoutePicks, RouteWrites, Reads, Flags, history
      <4>. QED  BY <1>2, <4>1 DEF FlagsTyped, flags, history
    <3>4. CASE Flagged(h)
      <4>1. UNCHANGED <<present, late, crossed>>
        BY <3>4 DEF Flagged
      <4>2. cancelReq' \in BOOLEAN /\ pauseReq' \in BOOLEAN /\ heard' \in BOOLEAN
        BY <3>4 DEF Flagged
      <4>. QED  BY <1>2, <4>1, <4>2 DEF FlagsTyped
    <3>2. CASE Shown(h)
      <4>1. late' \in BOOLEAN
        BY <3>2, Zenon DEF Shown
      <4>. QED  BY <1>2, <3>2, <4>1 DEF Shown, FlagsTyped, flags
    <3>3. CASE DeletePop(h)
      <4>1. crossed' \in BOOLEAN /\ present' = FALSE
        BY <3>3, Zenon DEF DeletePop
      <4>. QED  BY <1>2, <3>3, <4>1 DEF DeletePop, FlagsTyped, flags
    <3>. QED  BY <2>1, <3>1, <3>2, <3>3, <3>4
  <2>7. DiskTyped' /\ faults' \in 0..MaxFaults
    <3>1. CASE Looks(h) \/ Flagged(h) \/ Shown(h) \/ DeletePop(h) \/ RoutePicks(h)
      BY <1>2, <3>1
      DEF Looks, Flagged, Shown, DeletePop, RoutePicks, Reads, Flags, DiskTyped
    <3>2. CASE RouteWrites(h)
      BY <1>2, <3>2, WriteTyped, FailTyped DEF RouteWrites, WriteFails, DiskTyped
    <3>. QED  BY <2>1, <3>1, <3>2
  <2>. QED  BY <2>2, <2>4, <2>5, <2>6, <2>7, PartsSuffice
<1>5. CASE Restart
  <2>1. RecordTyped' /\ DiskTyped' /\ present' \in BOOLEAN
    BY <1>2, <1>5
    DEF Restart, RecordTyped, DiskTyped, Entry, Entries, Status, Terminal
  <2>2. hpc' \in Routes
    BY <1>2, <1>5 DEF Restart, RouteTyped, Routes, Route
  <2>3. 1 \in Op
    BY QueueAssumption DEF Op
  <2>4. WorkTyped' /\ RouteTyped'
    <3>1. long' \in BOOLEAN
      BY <1>5, Zenon DEF Restart
    <3>2. index' \in Op /\ tries' \in 0..2 /\ pc' \in PCs /\ saving' \in Saving
      BY <1>5, <2>3 DEF Restart, PCs, Saving
    <3>. QED  BY <2>2, <3>1, <3>2 DEF WorkTyped, RouteTyped
  <2>5. FlagsTyped' /\ faults' \in 0..MaxFaults
    BY <1>2, <1>5, <2>1 DEF Restart, FlagsTyped, flags
  <2>. QED  BY <2>1, <2>4, <2>5, PartsSuffice
<1>6. CASE UNCHANGED vars
  BY <1>1, <1>6 DEF TypeOK, vars
<1>. QED  BY <1>1, <1>3, <1>4, <1>5, <1>6 DEF Next

-----------------------------------------------------------------------------
(* The order of the operations.                                              *)

(* What is marked from the first pending operation on closes the rest.       *)
LEMMA MarkingCloses ==
  ASSUME index \in Op, NEW o \in [Op -> OpStatus], o[index] # "running",
         \A i \in Op : i < index => o[i] = "done",
         \A i \in Op : i > index => o[i] = "pending"
  PROVE  \A i \in Op : Marked(index, o)[i] \notin {"pending", "running"}
<1>1. SUFFICES ASSUME NEW i \in Op PROVE Marked(index, o)[i] \notin {"pending", "running"}
  OBVIOUS
<1>2. i \in Int /\ index \in Int
  BY OpTyped
<1>3. CASE i < index
  BY <1>2, <1>3 DEF Marked
<1>4. CASE i > index
  BY <1>2, <1>4 DEF Marked
<1>5. CASE i = index
  BY <1>2, <1>5 DEF Marked
<1>. QED  BY <1>2, <1>3, <1>4, <1>5

(* After a flood stop the operations before it are done, those after it are  *)
(* skipped.                                                                  *)
LEMMA StoppingMarks ==
  ASSUME TypeOK, InOrder, pc \in Under, ops' = Marked(index, [ops EXCEPT ![index] = "done"])
  PROVE  FloodStopped' /\ NoneOpen'
<1>1. index \in Op /\ ops \in [Op -> OpStatus]
  BY DEF TypeOK
<1>2. \A i \in Op : i \in Int
  BY OpTyped
<1>3. /\ \A i \in Op : i < index => ops[i] = "done"
      /\ \A i \in Op : i > index => ops[i] = "pending"
  BY DEF InOrder
<1>4. ops'[index] = "done"
  BY <1>1, <1>2 DEF Marked
<1>5. \A j \in Op : j < index => ops'[j] = "done"
  BY <1>1, <1>2, <1>3 DEF Marked
<1>6. \A j \in Op : j > index => ops'[j] = "skipped_canceled"
  BY <1>1, <1>2, <1>3 DEF Marked
<1>7. FloodStopped'
  BY <1>1, <1>4, <1>5, <1>6 DEF FloodStopped
<1>8. \A i \in Op : i < index \/ i = index \/ i > index
  BY <1>1, <1>2
<1>. QED  BY <1>4, <1>5, <1>6, <1>7, <1>8 DEF NoneOpen

LEMMA StructureStep == TypeOK /\ Structure /\ [Next]_vars => Structure'
<1>1. SUFFICES ASSUME TypeOK, Structure, [Next]_vars PROVE Structure'
  OBVIOUS
<1>2. /\ ops \in [Op -> OpStatus] /\ index \in Op /\ tries \in 0..2 /\ faults \in Nat
      /\ saving \in Saving
  BY <1>1 DEF TypeOK
<1>3. ASSUME UNCHANGED <<record, work, saving>>, faults' >= faults, faults' \in Nat
      PROVE  Structure'
  <2>1. faults' = 0 => faults = 0
    BY <1>2, <1>3
  <2>2. faults > 0 => faults' > 0
    BY <1>2, <1>3
  <2>. QED
    BY <1>1, <1>3, <2>1, <2>2
    DEF Structure, Tried, InOrder, ClosedAtEnd, NoneOpen, record, work
<1>4. CASE WorkerPicks
  BY <1>1, <1>4
  DEF WorkerPicks, Structure, Tried, InOrder, ClosedAtEnd, NoneOpen, record, work
<1>5. CASE WorkerWrites
  <2>1. CASE pc' = pc /\ faults' = faults
    BY <1>1, <1>5, <2>1
    DEF WorkerWrites, Structure, Tried, InOrder, ClosedAtEnd, NoneOpen, record
  <2>2. CASE pc' = Raises(pc) /\ WriteFails
    <3>1. faults' > 0 /\ pc' \in {"dead", "done", "error"} /\ saving' = "no"
      BY <1>1, <1>5, <2>2, FailTyped DEF WorkerWrites, Raises, TypeOK
    <3>. QED
      BY <3>1 DEF Structure, Tried, InOrder, ClosedAtEnd, Deciding, Before, Under
  <2>. QED  BY <1>5, <2>1, <2>2 DEF WorkerWrites
<1>6. CASE Create
  BY <1>1, <1>6
  DEF Create, SaveThen, Structure, Tried, InOrder, ClosedAtEnd, Before, Under, Deciding, Past,
      record
<1>7. CASE Acts /\ (\/ MovesOn \/ Cancels \/ Begins \/ Calls \/ Finishes \/ Stops
                    \/ Aborts \/ Decides)
  <2>1. CASE MovesOn
    BY <1>1, <1>7, <2>1
    DEF Acts, MovesOn, Structure, Tried, InOrder, ClosedAtEnd, Before, Under, Deciding, Past,
        record
  <2>2. CASE Cancels
    <3>1. NoneOpen'
      BY <1>1, <1>2, <2>2, Places, MarkingCloses
      DEF Cancels, CancelNow, NoneOpen, Structure, InOrder
    <3>. QED
      BY <2>2, <3>1
      DEF Cancels, CancelNow, Structure, Tried, InOrder, ClosedAtEnd, Before, Under, Past
  <2>3. CASE Begins
    <3>1. ops[index] = "pending" /\ tries = 0
      BY <1>1, <2>3 DEF Begins, Structure, InOrder, Tried, Before, Under
    <3>2. /\ \A i \in Op : i < index => ops[i] = "done"
          /\ \A i \in Op : i > index => ops[i] = "pending"
      BY <1>1, <2>3 DEF Begins, Structure, InOrder, Before
    <3>3. InOrder'
      BY <1>2, <2>3, <3>2, OpTyped DEF Begins, InOrder, Under
    <3>. QED
      BY <2>3, <3>1, <3>3
      DEF Begins, Structure, Tried, ClosedAtEnd, Deciding, Past
  <2>4. CASE Calls
    <3>1. Tried'
      BY <1>1, <1>2, <2>4 DEF Calls, Structure, Tried, Before, Under
    <3>2. InOrder'
      BY <1>1, <2>4 DEF Calls, Structure, InOrder, record
    <3>. QED
      BY <2>4, <3>1, <3>2, Places DEF Calls, Structure, ClosedAtEnd
  <2>5. CASE Finishes
    <3>1. /\ \A i \in Op : i < index => ops[i] = "done"
          /\ \A i \in Op : i > index => ops[i] = "pending"
      BY <1>1, <2>5 DEF Finishes, Structure, InOrder
    <3>2. /\ \A i \in Op : i <= index => ops'[i] = "done"
          /\ \A i \in Op : i > index => ops'[i] = "pending"
      BY <1>2, <2>5, <3>1, OpTyped DEF Finishes
    <3>3. CASE index < NumOps
      <4>1. index' = index + 1 /\ index' \in Op
        BY <1>2, <2>5, <3>3, QueueAssumption DEF Finishes, NextIndex, Op
      <4>2. \A i \in Op : (i < index' => i <= index) /\ (i > index' => i > index)
        BY <1>2, <4>1, OpTyped
      <4>3. index' > index
        BY <1>2, <4>1, OpTyped
      <4>4. InOrder'
        BY <2>5, <3>2, <3>3, <4>1, <4>2, <4>3 DEF Finishes, InOrder, Under
      <4>. QED
        BY <2>5, <3>3, <4>4
        DEF Finishes, Structure, Tried, ClosedAtEnd, Deciding, Past
    <3>4. CASE ~(index < NumOps)
      <4>1. \A i \in Op : i <= index
        BY <1>2, <3>4, OpTyped
      <4>2. NoneOpen'
        BY <3>2, <4>1 DEF NoneOpen
      <4>. QED
        BY <2>5, <3>4, <4>2
        DEF Finishes, Structure, Tried, InOrder, ClosedAtEnd, Before, Under, Past
    <3>. QED  BY <3>3, <3>4
  <2>6. CASE Stops
    <3>1. pc \in Under
      BY <2>6 DEF Stops, Under
    <3>2. NoneOpen'
      BY <1>1, <2>6, <3>1, StoppingMarks DEF Stops, FloodStop, Structure
    <3>. QED
      BY <2>6, <3>2
      DEF Stops, FloodStop, Structure, Tried, InOrder, ClosedAtEnd, Before, Under, Past
  <2>7. CASE Aborts
    <3>1. /\ \A i \in Op : i < index => ops[i] = "done"
          /\ \A i \in Op : i > index => ops[i] = "pending"
      BY <1>1, <2>7 DEF Aborts, Structure, InOrder, Under
    <3>2. NoneOpen'
      <4>. DEFINE o == [ops EXCEPT ![index] = "skipped_canceled"]
      <4>1. /\ o \in [Op -> OpStatus] /\ o[index] # "running"
            /\ \A i \in Op : i < index => o[i] = "done"
            /\ \A i \in Op : i > index => o[i] = "pending"
        BY <1>2, <3>1, OpTyped DEF OpStatus
      <4>2. ops' = Marked(index, o)
        BY <2>7 DEF Aborts, WaitAborts
      <4>. HIDE DEF o
      <4>. QED  BY <1>2, <4>1, <4>2, MarkingCloses DEF NoneOpen
    <3>. QED
      BY <2>7, <3>2
      DEF Aborts, WaitAborts, Structure, Tried, InOrder, ClosedAtEnd, Before, Under, Past
  <2>8. CASE Decides
    <3>1. /\ pc \in Deciding \cup Past \cup {"error"} /\ pc' \in Deciding \cup Past
          /\ pc \in Deciding \/ pc' \in Past
          /\ pc' \in Past => pc \in Past \cup {"save", "error"}
          /\ UNCHANGED <<ops, tries>>
      BY <2>8
      DEF Decides, ReadFlag, ReadStatusCanceled, ReadStatus, WriteVerdict, SaveVerdict, Raised,
          ReleaseClients, FinishRun, At, Goto, SaveThen, Deciding, Past, record
    <3>2. pc \in {"error"} => faults > 0
      BY <1>1 DEF Structure, ClosedAtEnd
    <3>3. faults' = faults
      BY <1>7 DEF Acts
    <3>4. ClosedAtEnd'
      BY <1>1, <1>2, <3>1, <3>2, <3>3, Places DEF Structure, ClosedAtEnd, NoneOpen, Deciding
    <3>. QED  BY <3>1, <3>4, Places DEF Structure, Tried, InOrder, Under
  <2>. QED  BY <1>7, <2>1, <2>2, <2>3, <2>4, <2>5, <2>6, <2>7, <2>8
<1>8. CASE Worker
  BY <1>1, <1>4, <1>5, <1>6, <1>7, <1>8, WorkerKinds
<1>9. ASSUME NEW h \in Handler, Request(h) \/ RouteStep(h) PROVE Structure'
  <2>1. UNCHANGED <<record, work, saving>>
    BY <1>1, <1>9, RouteKinds
  <2>2. faults' = faults \/ WriteFails
    BY <1>1, <1>9, RouteKinds
    DEF Looks, Flagged, Shown, DeletePop, RoutePicks, RouteWrites, Reads, Flags
  <2>3. faults' >= faults /\ faults' \in Nat
    BY <1>2, <2>2 DEF WriteFails
  <2>. QED  BY <1>3, <2>1, <2>3
<1>10. CASE Restart
  BY <1>10 DEF Restart, Structure, Tried, InOrder, ClosedAtEnd, Before, Under, Deciding, Past
<1>11. CASE UNCHANGED vars
  BY <1>2, <1>3, <1>11 DEF vars, record, work
<1>. QED  BY <1>1, <1>8, <1>9, <1>10, <1>11 DEF Next

-----------------------------------------------------------------------------
(* The verdict.                                                              *)

(* The file keeps what it says, or gets the record.                          *)
Filed == disk' = Absent \/ disk' = Entry(status, ops, closed)
LEMMA WritesFile == ASSUME NEW picked, Write(picked) PROVE Filed
BY DEF Write, Filed
LEMMA FiledRecord ==
  Filed => /\ disk'.status \in {"absent", status}
           /\ disk'.status \in Status => disk'.status = status /\ disk'.ops = ops
BY Words DEF Filed, Entry, Absent

(* What the threads do to the status, to the flags and to the file.          *)
LEMMA RoutesMove ==
  ASSUME TypeOK, NEW h \in Handler, Request(h) \/ RouteStep(h)
  PROVE  /\ UNCHANGED <<record, work, saving>>
         /\ \/ UNCHANGED <<status, late>>
            \/ /\ status' \in {"canceling", "pausing", "running"}
               /\ status \in Terminal => late'
         /\ cancelReq => cancelReq'
         /\ heard => heard'
         /\ late => late'
         /\ heard' /\ ~heard => cancelReq' /\ pc \in Working
         /\ disk' = disk \/ (Filed /\ status' = status)
         /\ present' = present \/ present' = FALSE
<1>1. late \in BOOLEAN /\ heard \in BOOLEAN /\ cancelReq \in BOOLEAN
  BY DEF TypeOK
<1>2. UNCHANGED <<record, work, saving>>
  BY RouteKinds
<1>3. CASE Looks(h) \/ DeletePop(h) \/ RoutePicks(h)
  BY <1>1, <1>2, <1>3 DEF Looks, DeletePop, RoutePicks, Reads, Flags, flags, history
<1>4. CASE Flagged(h)
  <2>1. UNCHANGED <<status, present, disk, late>>
    BY <1>4 DEF Flagged
  <2>2. cancelReq => cancelReq'
    BY <1>4 DEF Flagged
  <2>3. heard => heard'
    BY <1>4 DEF Flagged
  <2>4. heard' /\ ~heard => cancelReq' /\ pc \in Working
    BY <1>4 DEF Flagged
  <2>. QED  BY <1>2, <2>1, <2>2, <2>3, <2>4
<1>5. CASE Shown(h)
  <2>1. (status \in Terminal => late') /\ (late => late')
    BY <1>1, <1>5, Zenon DEF Shown
  <2>. QED  BY <1>1, <1>2, <1>5, <2>1 DEF Shown, flags
<1>6. CASE RouteWrites(h)
  BY <1>1, <1>2, <1>6, WritesFile DEF RouteWrites, WriteFails, flags
<1>. QED  BY <1>3, <1>4, <1>5, <1>6, RouteKinds

LEMMA QuietStep == TypeOK /\ Structure /\ QuietAfterEnd /\ [Next]_vars => QuietAfterEnd'
<1>1. SUFFICES ASSUME TypeOK, Structure, QuietAfterEnd, [Next]_vars PROVE QuietAfterEnd'
  OBVIOUS
<1>2. CASE WorkerPicks \/ Create
  BY <1>1, <1>2 DEF WorkerPicks, Create, SaveThen, QuietAfterEnd, Working, work
<1>3. CASE WorkerWrites
  <2>1. UNCHANGED status /\ (disk' = disk \/ Filed)
    BY <1>3, WritesFile DEF WorkerWrites, WriteFails
  <2>2. pc' = pc \/ pc' \notin Working \cup {"new"}
    BY <1>3 DEF WorkerWrites, Raises, Working
  <2>3. "absent" \notin Terminal
    BY DEF Terminal
  <2>. QED  BY <1>1, <2>1, <2>2, <2>3, FiledRecord DEF QuietAfterEnd
<1>4. CASE Acts /\ (\/ MovesOn \/ Cancels \/ Begins \/ Calls \/ Finishes \/ Stops
                    \/ Aborts \/ Decides)
  <2>1. disk' = disk
    BY <1>4 DEF Acts
  <2>2. CASE MovesOn \/ Begins \/ Calls \/ Finishes
    <3>1. pc \in Working /\ status' \in {status, "running", "paused", "flood_waiting"}
      BY <2>2, Places DEF MovesOn, Begins, Calls, Finishes, Before
    <3>. QED  BY <1>1, <2>1, <3>1 DEF QuietAfterEnd, Terminal
  <2>3. CASE Cancels \/ Stops \/ Aborts \/ Decides
    <3>1. pc' \notin Working \cup {"new"}
      BY <2>3
      DEF Cancels, CancelNow, Stops, FloodStop, Aborts, WaitAborts, Decides, ReadFlag,
          ReadStatusCanceled, ReadStatus, WriteVerdict, SaveVerdict, Raised, ReleaseClients,
          FinishRun, Goto, SaveThen, Working
    <3>. QED  BY <3>1 DEF QuietAfterEnd
  <2>. QED  BY <1>4, <2>2, <2>3
<1>5. CASE Worker
  BY <1>1, <1>2, <1>3, <1>4, <1>5, WorkerKinds
<1>6. ASSUME NEW h \in Handler, Request(h) \/ RouteStep(h) PROVE QuietAfterEnd'
  <2>1. /\ pc' = pc
        /\ status' = status \/ status' \in {"canceling", "pausing", "running"}
        /\ disk' = disk \/ Filed
    BY <1>1, <1>6, RoutesMove DEF work
  <2>2. "absent" \notin Terminal
    BY DEF Terminal
  <2>. QED  BY <1>1, <2>1, <2>2, FiledRecord DEF QuietAfterEnd, Terminal
<1>7. CASE Restart
  BY <1>7 DEF Restart, QuietAfterEnd, Working
<1>8. CASE UNCHANGED vars
  BY <1>1, <1>8 DEF vars, QuietAfterEnd
<1>. QED  BY <1>1, <1>5, <1>6, <1>7, <1>8 DEF Next

(* The operation that ends the loop by its result was the last one.          *)
LEMMA LastFinishRan ==
  ASSUME TypeOK, InOrder, Finishes, ~(index < NumOps) PROVE AllRan'
<1>1. index \in Op /\ ops \in [Op -> OpStatus]
  BY DEF TypeOK
<1>2. \A i \in Op : i = index \/ i < index
  BY <1>1, OpTyped
<1>3. \A i \in Op : i < index => ops[i] = "done"
  BY DEF InOrder, Finishes
<1>. QED  BY <1>1, <1>2, <1>3 DEF Finishes, AllRan

LEMMA VerdictStep ==
  TypeOK /\ Structure /\ QuietAfterEnd /\ VerdictIsSound /\ [Next]_vars /\ ~Restart
    => VerdictIsSound'
<1>1. SUFFICES ASSUME TypeOK, Structure, QuietAfterEnd, VerdictIsSound, [Next]_vars, ~Restart
               PROVE  VerdictIsSound'
  OBVIOUS
<1>2. ASSUME ops' = ops PROVE (AllRan' <=> AllRan) /\ (FloodStopped' <=> FloodStopped)
  BY <1>2 DEF AllRan, FloodStopped
<1>3. ASSUME UNCHANGED <<record, pc>>, late => late',
             \/ UNCHANGED <<status, late>>
             \/ /\ status' \in {"canceling", "pausing", "running"}
                /\ status \in Terminal => late',
             cancelReq => cancelReq'
      PROVE  VerdictIsSound'
  BY <1>1, <1>2, <1>3 DEF VerdictIsSound, Stopped, Overruled, record, Terminal
<1>4. CASE WorkerPicks
  BY <1>1, <1>3, <1>4 DEF WorkerPicks, work, flags
<1>5. CASE WorkerWrites
  <2>1. CASE pc' = pc
    BY <1>1, <1>3, <1>5, <2>1 DEF WorkerWrites, flags
  <2>2. CASE pc' = Raises(pc)
    <3>1. pc # "gone" /\ pc' \in {"dead", "done", "error"}
      BY <1>1, <1>5, <2>2 DEF WorkerWrites, Picked, Structure, Raises
    <3>2. UNCHANGED <<status, ops, late>>
      BY <1>5 DEF WorkerWrites, record
    <3>. QED  BY <1>1, <1>2, <3>1, <3>2 DEF VerdictIsSound, Overruled
  <2>. QED  BY <1>5, <2>1, <2>2 DEF WorkerWrites
<1>6. CASE Create
  BY <1>1, <1>2, <1>6
  DEF Create, SaveThen, VerdictIsSound, Stopped, Overruled, record
<1>7. CASE Acts /\ (\/ MovesOn \/ Cancels \/ Begins \/ Calls \/ Finishes \/ Stops
                    \/ Aborts \/ Decides)
  <2>1. late' = late /\ cancelReq' = cancelReq
    BY <1>7 DEF Acts, history, flags
  <2>2. CASE MovesOn \/ Begins \/ Calls
    <3>1. /\ pc \in Working /\ pc' \notin Deciding
          /\ status' \in {status, "running", "paused", "flood_waiting"}
      BY <2>2, Places DEF MovesOn, Begins, Calls, Before, Under, Deciding
    <3>2. status \notin Terminal
      BY <1>1, <3>1 DEF QuietAfterEnd
    <3>. QED  BY <3>1, <3>2 DEF VerdictIsSound, Terminal, Deciding
  <2>3. CASE Cancels \/ Aborts
    BY <2>1, <2>3
    DEF Cancels, Aborts, CancelNow, WaitAborts, VerdictIsSound, Stopped
  <2>4. CASE Finishes
    <3>1. pc \in Working /\ status' = status
      BY <2>4, Places DEF Finishes
    <3>2. status \notin Terminal
      BY <1>1, <3>1 DEF QuietAfterEnd
    <3>3. pc' = "top" \/ (pc' = "final" /\ AllRan')
      BY <1>1, <2>4, LastFinishRan DEF Finishes, Structure
    <3>. QED  BY <3>1, <3>2, <3>3 DEF VerdictIsSound, Stopped, Terminal
  <2>5. CASE Stops
    <3>1. FloodStopped'
      BY <1>1, <2>5, StoppingMarks DEF Stops, FloodStop, Structure, Under
    <3>. QED  BY <2>5, <3>1 DEF Stops, FloodStop, VerdictIsSound, Stopped
  <2>6. CASE ReadFlag \/ ReadStatusCanceled \/ ReadStatus
    BY <1>1, <1>2, <2>1, <2>6
    DEF ReadFlag, CancelSeen, ReadStatusCanceled, ReadStatus, Unsettled, At, Goto,
        VerdictIsSound, Stopped, Overruled, record
  <2>7. CASE WriteVerdict \/ SaveVerdict \/ Raised \/ ReleaseClients \/ FinishRun
    BY <1>1, <1>2, <2>1, <2>7
    DEF WriteVerdict, SaveVerdict, Raised, ReleaseClients, FinishRun, At, Goto, SaveThen,
        VerdictIsSound, Stopped, Overruled, record
  <2>. QED  BY <1>7, <2>2, <2>3, <2>4, <2>5, <2>6, <2>7 DEF Decides
<1>8. CASE Worker
  BY <1>1, <1>4, <1>5, <1>6, <1>7, <1>8, WorkerKinds
<1>9. ASSUME NEW h \in Handler, Request(h) \/ RouteStep(h) PROVE VerdictIsSound'
  BY <1>1, <1>3, <1>9, RoutesMove DEF work
<1>10. CASE UNCHANGED vars
  BY <1>1, <1>3, <1>10 DEF vars, record
<1>. QED  BY <1>1, <1>8, <1>9, <1>10 DEF Next

(* What happens to the file, as far as its verdict goes.                     *)
DiskRan == \A i \in Op : disk.ops[i] = "done"
DiskStopped == \E i \in Op :
                 /\ disk.ops[i] = "done"
                 /\ \A j \in Op : j < i => disk.ops[j] = "done"
                 /\ \A j \in Op : j > i => disk.ops[j] = "skipped_canceled"
LEMMA FileMoves ==
  ASSUME TypeOK, [Next]_vars, ~Restart
  PROVE  /\ disk' = disk \/ Filed
         /\ late => late'
<1>1. late \in BOOLEAN
  BY DEF TypeOK
<1>2. CASE WorkerPicks \/ WorkerWrites \/ Create \/ Acts
  BY <1>1, <1>2, WritesFile
  DEF WorkerPicks, WorkerWrites, WriteFails, Create, Acts, history
<1>3. CASE Worker
  BY <1>2, <1>3, WorkerKinds
<1>4. ASSUME NEW h \in Handler, Request(h) \/ RouteStep(h)
      PROVE  (disk' = disk \/ Filed) /\ (late => late')
  BY <1>4, RoutesMove
<1>. QED  BY <1>1, <1>3, <1>4 DEF Next, vars

LEMMA DiskStep ==
  TypeOK /\ VerdictIsSound /\ DiskIsSound /\ [Next]_vars /\ ~Restart => DiskIsSound'
<1>1. SUFFICES ASSUME TypeOK, VerdictIsSound, DiskIsSound, [Next]_vars, ~Restart
               PROVE  DiskIsSound'
  OBVIOUS
<1>2. late => late'
  BY <1>1, FileMoves
<1>3. CASE disk' = disk
  BY <1>1, <1>2, <1>3 DEF DiskIsSound
<1>4. CASE Filed
  <2>1. SUFFICES ASSUME disk'.status = "completed" PROVE DiskIsSound'
    BY DEF DiskIsSound
  <2>2. status = "completed" /\ disk'.ops = ops
    BY <1>4, <2>1, FiledRecord DEF Status, Terminal
  <2>3. AllRan \/ (FloodStopped /\ late)
    BY <1>1, <2>2 DEF VerdictIsSound, Overruled
  <2>. QED  BY <1>2, <2>2, <2>3 DEF DiskIsSound, AllRan, FloodStopped
<1>. QED  BY <1>1, <1>3, <1>4, FileMoves

(* A restart takes what the file says.                                       *)
LEMMA RestartVerdict ==
  ASSUME TypeOK, VerdictIsSound, DiskIsSound, Restart
  PROVE  VerdictIsSound' /\ DiskIsSound'
<1>1. late' = late /\ pc' = "gone"
  BY DEF Restart
<1>2. CASE disk = Absent
  <2>1. UNCHANGED <<status, ops, disk>>
    BY <1>2 DEF Restart
  <2>. QED
    BY <1>1, <2>1
    DEF VerdictIsSound, DiskIsSound, AllRan, FloodStopped, Overruled
<1>3. CASE disk # Absent
  <2>1. /\ status' = "completed" => disk.status = "completed"
        /\ ops' = disk.ops /\ disk'.status = status' /\ disk'.ops = ops'
    BY <1>3 DEF Restart, Entry
  <2>2. disk.status = "completed" => DiskRan \/ (late /\ DiskStopped)
    BY DEF DiskIsSound, DiskRan, DiskStopped
  <2>3. status' = "completed" => AllRan' \/ Overruled'
    BY <1>1, <2>1, <2>2 DEF DiskRan, DiskStopped, AllRan, FloodStopped, Overruled
  <2>. QED
    BY <1>1, <2>1, <2>3 DEF VerdictIsSound, DiskIsSound, AllRan, FloodStopped, Overruled
<1>. QED  BY <1>2, <1>3

-----------------------------------------------------------------------------
(* Cancels.                                                                  *)
LEMMA CancelStep ==
  TypeOK /\ Structure /\ QuietAfterEnd /\ CancelInTime /\ [Next]_vars => CancelInTime'
<1>1. SUFFICES ASSUME TypeOK, Structure, QuietAfterEnd, CancelInTime, [Next]_vars
               PROVE  CancelInTime'
  OBVIOUS
<1>2. ASSUME disk' = disk \/ Filed, heard' = heard, late => late'
      PROVE  heard' /\ disk'.status = "completed" => late'
  BY <1>1, <1>2, FiledRecord DEF CancelInTime, Status, Terminal
<1>3. heard => cancelReq
  BY <1>1 DEF CancelInTime
<1>4. CASE WorkerPicks \/ Create
  BY <1>1, <1>4
  DEF WorkerPicks, Create, SaveThen, CancelInTime, CancelIsHonoured, work, flags
<1>5. CASE WorkerWrites
  <2>1. UNCHANGED <<status, cancelReq, heard, late>> /\ (disk' = disk \/ Filed)
    BY <1>5, WritesFile DEF WorkerWrites, WriteFails, flags
  <2>2. heard' /\ disk'.status = "completed" => late'
    BY <1>2, <2>1
  <2>3. CASE pc' = pc
    BY <1>1, <1>5, <2>1, <2>2, <2>3 DEF WorkerWrites, CancelInTime, CancelIsHonoured
  <2>4. CASE pc' = Raises(pc)
    <3>1. pc' \in {"dead", "error"} \/ pc' = pc
      BY <2>4 DEF Raises
    <3>. QED  BY <1>1, <2>1, <2>2, <2>3, <3>1 DEF CancelInTime, CancelIsHonoured
  <2>. QED  BY <1>5, <2>3, <2>4 DEF WorkerWrites
<1>6. CASE Acts /\ (\/ MovesOn \/ Cancels \/ Begins \/ Calls \/ Finishes \/ Stops
                    \/ Aborts \/ Decides)
  <2>1. UNCHANGED <<disk, cancelReq, heard, late>>
    BY <1>6 DEF Acts, history, flags
  <2>2. CASE MovesOn \/ Begins \/ Calls \/ Finishes
    <3>1. /\ pc \in Working
          /\ pc' \notin {"finalPlain", "completed", "save", "release", "finish", "done", "gone"}
          /\ status' \in {status, "running", "paused", "flood_waiting"}
      BY <2>2, Places DEF MovesOn, Begins, Calls, Finishes, Before, Under
    <3>2. status # "completed"
      BY <1>1, <3>1 DEF QuietAfterEnd, Terminal
    <3>. QED  BY <1>1, <2>1, <3>1, <3>2 DEF CancelInTime, CancelIsHonoured
  <2>3. CASE Cancels \/ Stops \/ Aborts
    <3>1. pc' = "final" /\ status' \in {"canceled", "flood_wait"}
      BY <2>3 DEF Cancels, CancelNow, Stops, FloodStop, Aborts, WaitAborts
    <3>. QED  BY <1>1, <2>1, <3>1 DEF CancelInTime, CancelIsHonoured
  <2>4. CASE ReadFlag \/ ReadStatusCanceled \/ ReadStatus
    BY <1>1, <2>1, <2>4
    DEF ReadFlag, CancelSeen, ReadStatusCanceled, ReadStatus, Unsettled, At, Goto,
        CancelInTime, CancelIsHonoured, record
  <2>5. CASE WriteVerdict \/ SaveVerdict \/ Raised \/ ReleaseClients \/ FinishRun
    BY <1>1, <2>1, <2>5
    DEF WriteVerdict, SaveVerdict, Raised, ReleaseClients, FinishRun, At, Goto, SaveThen,
        CancelInTime, CancelIsHonoured, record
  <2>. QED  BY <1>6, <2>2, <2>3, <2>4, <2>5 DEF Decides
<1>7. CASE Worker
  BY <1>1, <1>4, <1>5, <1>6, <1>7, WorkerKinds
<1>8. ASSUME NEW h \in Handler, Request(h) \/ RouteStep(h) PROVE CancelInTime'
  <2>1. /\ pc' = pc
        /\ \/ UNCHANGED <<status, late>>
           \/ /\ status' \in {"canceling", "pausing", "running"}
              /\ status \in Terminal => late'
        /\ cancelReq => cancelReq'
        /\ late => late'
        /\ heard' /\ ~heard => cancelReq' /\ pc \in Working
        /\ disk' = disk \/ (Filed /\ status' = status)
        /\ present' => present
    <3>1. present \in BOOLEAN
      BY <1>1 DEF TypeOK
    <3>. QED  BY <1>1, <1>8, <3>1, RoutesMove DEF work
  <2>2. heard' => cancelReq'
    BY <1>3, <2>1
  <2>3. CASE heard
    <3>1. heard' /\ disk'.status = "completed" => late'
      BY <1>1, <2>1, <2>3, FiledRecord DEF CancelInTime, Status, Terminal
    <3>. QED
      BY <1>1, <2>1, <2>2, <2>3, <3>1
      DEF CancelInTime, CancelIsHonoured, Terminal
  <2>4. CASE ~heard
    <3>1. CASE heard'
      <4>1. pc \in Working
        BY <2>1, <2>4, <3>1
      <4>2. pc' \notin {"finalPlain", "completed", "save", "release", "finish", "done", "gone"}
        BY <2>1, <4>1 DEF Working
      <4>3. status' # "completed" /\ disk'.status # "completed"
        <5>1. status # "completed" /\ disk.status # "completed"
          BY <1>1, <4>1 DEF QuietAfterEnd, Terminal
        <5>. QED  BY <2>1, <5>1, FiledRecord DEF Status, Terminal
      <4>. QED  BY <2>2, <4>2, <4>3 DEF CancelInTime, CancelIsHonoured
    <3>2. CASE ~heard'
      BY <3>2 DEF CancelInTime, CancelIsHonoured
    <3>. QED  BY <3>1, <3>2
  <2>. QED  BY <2>3, <2>4
<1>9. CASE Restart
  <2>1. /\ UNCHANGED <<cancelReq, heard, late>> /\ pc' = "gone"
        /\ present' => disk # Absent
    BY <1>9 DEF Restart, flags
  <2>2. CASE disk = Absent
    <3>1. UNCHANGED <<status, disk>> /\ ~present'
      BY <1>9, <2>2 DEF Restart
    <3>. QED  BY <1>1, <2>1, <3>1 DEF CancelInTime, CancelIsHonoured
  <2>3. CASE disk # Absent
    <3>1. /\ status' = IF disk.status \in Terminal THEN disk.status ELSE "interrupted"
          /\ disk'.status = status'
      BY <1>9, <2>3 DEF Restart, Entry
    <3>. QED
      BY <1>1, <2>1, <3>1 DEF CancelInTime, CancelIsHonoured, Terminal
  <2>. QED  BY <2>2, <2>3
<1>10. CASE UNCHANGED vars
  BY <1>1, <1>10 DEF vars, CancelInTime, CancelIsHonoured
<1>. QED  BY <1>1, <1>7, <1>8, <1>9, <1>10 DEF Next

-----------------------------------------------------------------------------
(* The runs file.                                                            *)
Agrees == disk # Absent <=> present
Faithful == disk \in {Absent, Entry(status, ops, closed)}

LEMMA WritesPicked ==
  ASSUME TypeOK, NEW picked \in Picked, Write(picked)
  PROVE  Filed /\ (disk' # Absent <=> picked = "listed")
<1>1. Entry(status, ops, closed) # Absent
  <2>1. Entry(status, ops, closed).status = status /\ status \in Status
    BY DEF TypeOK, Entry, Status
  <2>. QED  BY <2>1, Words
<1>2. CASE picked = "listed"
  BY <1>1, <1>2 DEF Write, Filed
<1>3. CASE picked = "unlisted"
  BY <1>3 DEF Write, Filed
<1>. QED  BY <1>2, <1>3 DEF Picked

LEMMA DurableStep == TypeOK /\ Durable /\ [Next]_vars => Durable'
<1>1. SUFFICES ASSUME TypeOK, Durable, [Next]_vars PROVE Durable'
  OBVIOUS
<1>2. /\ present \in BOOLEAN /\ closed \in BOOLEAN /\ crossed \in BOOLEAN
      /\ saving \in Saving /\ hpc \in Routes /\ faults \in Nat
  BY <1>1 DEF TypeOK, Routes
<1>3. "asked" \notin Picked /\ "no" \notin Picked /\ "served" \notin Picked
  BY DEF Picked
<1>4. CASE WorkerPicks
  <2>1. ~Settled' /\ UNCHANGED <<pc, closed, present, hpc, crossed>> /\ saving' = Pick /\ Pick' = Pick
    BY <1>3, <1>4 DEF WorkerPicks, Settled, Pick, work, record
  <2>. QED  BY <1>1, <2>1 DEF Durable
<1>5. CASE WorkerWrites
  <2>1. /\ saving \in Picked /\ saving' = "no"
        /\ UNCHANGED <<status, record, present, hpc, crossed>> /\ Pick' = Pick
        /\ pc' = "done" => pc = "done"
    BY <1>5 DEF WorkerWrites, Raises, Pick
  <2>2. CASE Write(saving) /\ UNCHANGED faults
    <3>1. Filed /\ (disk' # Absent <=> saving = "listed")
      BY <1>1, <2>1, <2>2, WritesPicked
    <3>2. Faithful'
      BY <2>1, <3>1 DEF Filed, Faithful, record
    <3>3. ~crossed => Agrees'
      BY <1>1, <1>2, <2>1, <3>1 DEF Durable, Pick, Agrees
    <3>. QED
      BY <1>1, <1>3, <2>1, <3>2, <3>3 DEF Durable, Faithful, Agrees, record
  <2>3. CASE WriteFails
    <3>1. faults' # 0
      BY <1>2, <2>3 DEF WriteFails
    <3>. QED  BY <1>1, <1>3, <2>1, <3>1 DEF Durable, record
  <2>. QED  BY <1>5, <2>2, <2>3 DEF WorkerWrites
<1>6. CASE Create
  <2>1. pc' = "start" /\ saving' = "asked" /\ UNCHANGED hpc
    BY <1>6 DEF Create, SaveThen
  <2>2. ~Settled'
    BY <2>1 DEF Settled
  <2>3. ~crossed' => \A h \in Handler : hpc[h] \notin Picked
    BY <1>6, Zenon DEF Create, SaveUnderWay
  <2>. QED  BY <1>3, <2>1, <2>2, <2>3 DEF Durable
<1>7. CASE Acts /\ (\/ MovesOn \/ Cancels \/ Begins \/ Calls \/ Finishes \/ Stops
                    \/ Aborts \/ Decides)
  <2>1. saving = "no" /\ UNCHANGED <<hpc, present, disk, faults, crossed>> /\ Pick' = Pick
    BY <1>7 DEF Acts, history, Pick
  <2>2. Settled' => Settled
    BY <2>1 DEF Settled
  <2>3. saving' \in {"no", "asked"}
    BY <1>7, <2>1
    DEF MovesOn, Cancels, CancelNow, Begins, Calls, Finishes, Stops, FloodStop, Aborts,
        WaitAborts, Decides, ReadFlag, ReadStatusCanceled, ReadStatus, WriteVerdict,
        SaveVerdict, Raised, ReleaseClients, FinishRun, SaveThen, Goto, Saves
  <2>4. pc' = "done" => closed' = TRUE /\ saving' = "asked"
    BY <1>7
    DEF MovesOn, Before, Cancels, CancelNow, Begins, Calls, Under, Finishes, Stops, FloodStop,
        Aborts, WaitAborts, Decides, ReadFlag, ReadStatusCanceled, ReadStatus, WriteVerdict,
        SaveVerdict, Raised, ReleaseClients, FinishRun, SaveThen, Goto
  <2>5. pc' = "done" => ~Settled'
    BY <2>4 DEF Settled
  <2>. QED  BY <1>1, <1>3, <2>1, <2>2, <2>3, <2>4, <2>5 DEF Durable
<1>8. CASE Worker
  BY <1>1, <1>4, <1>5, <1>6, <1>7, <1>8, WorkerKinds
<1>9. ASSUME NEW h \in Handler, Request(h) \/ RouteStep(h) PROVE Durable'
  <2>1. /\ UNCHANGED <<record, work, saving>>
        /\ \A g \in Handler : g # h => hpc'[g] = hpc[g]
        /\ \/ Looks(h) \/ Flagged(h) \/ Shown(h) \/ DeletePop(h) \/ RoutePicks(h)
           \/ RouteWrites(h)
    <3>1. /\ UNCHANGED <<record, work, saving>>
          /\ hpc' = [hpc EXCEPT ![h] = hpc'[h]]
          /\ \/ Looks(h) \/ Flagged(h) \/ Shown(h) \/ DeletePop(h) \/ RoutePicks(h)
             \/ RouteWrites(h)
      BY <1>1, <1>9, RouteKinds
    <3>. QED  BY <1>2, <3>1 DEF Routes
  <2>2. CASE Looks(h) \/ Flagged(h)
    <3>1. /\ UNCHANGED <<status, present, disk, faults, crossed>> /\ Pick' = Pick
          /\ hpc[h] \in Controls \cup {"idle"}
          /\ hpc'[h] \in Controls \cup {"deletePop", "asked"}
      BY <2>2 DEF Looks, Flagged, history, Pick
    <3>2. hpc[h] \notin {"asked"} \cup Picked /\ hpc'[h] \notin Picked
      BY <3>1 DEF Controls, Picked
    <3>3. Settled' => Settled
      BY <2>1, <3>2 DEF Settled
    <3>. QED  BY <1>1, <2>1, <3>1, <3>2, <3>3 DEF Durable, record, work
  <2>3. CASE Shown(h)
    <3>1. /\ UNCHANGED <<present, disk, faults, crossed>> /\ Pick' = Pick /\ hpc'[h] = "asked"
      BY <2>3 DEF Shown, Pick
    <3>2. ~Settled'
      BY <3>1 DEF Settled
    <3>. QED  BY <1>1, <1>3, <2>1, <3>1, <3>2 DEF Durable, record, work
  <2>4. CASE DeletePop(h)
    <3>1. /\ hpc'[h] = "asked" /\ present' = FALSE
          /\ crossed' = (crossed \/ (present /\ SaveUnderWay))
      BY <1>2, <2>4 DEF DeletePop, Steps, Routes
    <3>2. ~Settled'
      BY <3>1 DEF Settled
    <3>3. ~crossed' => ~crossed /\ (present => ~SaveUnderWay)
      BY <1>2, <3>1
    <3>4. ~crossed' =>
            /\ saving' \in Picked => saving' = Pick'
            /\ \A g \in Handler : hpc'[g] \in Picked => hpc'[g] = Pick'
      <4>1. CASE present
        BY <1>3, <2>1, <3>1, <3>3, <4>1 DEF SaveUnderWay
      <4>2. CASE ~present
        <5>1. Pick' = Pick
          BY <3>1, <4>2 DEF Pick
        <5>. QED  BY <1>1, <1>3, <2>1, <3>1, <3>3, <5>1 DEF Durable
      <4>. QED  BY <4>1, <4>2
    <3>. QED  BY <1>1, <2>1, <3>2, <3>4 DEF Durable, record, work
  <2>5. CASE RoutePicks(h)
    <3>1. /\ UNCHANGED <<present, crossed>> /\ Pick' = Pick
          /\ hpc'[h] = Pick /\ hpc'[h] \in Picked
      BY <1>2, <2>5 DEF RoutePicks, Reads, Flags, Steps, Routes, Pick, Picked
    <3>2. ~Settled'
      BY <3>1 DEF Settled
    <3>. QED  BY <1>1, <2>1, <3>1, <3>2 DEF Durable, record, work
  <2>6. CASE RouteWrites(h)
    <3>1. PICK picked \in Picked :
            /\ Steps(h, picked, "served")
            /\ UNCHANGED <<status, present, crossed>>
            /\ (Write(picked) /\ UNCHANGED faults) \/ WriteFails
      BY <2>6 DEF RouteWrites
    <3>2. hpc[h] = picked /\ hpc'[h] = "served" /\ Pick' = Pick
      BY <1>2, <3>1 DEF Steps, Routes, Pick
    <3>3. CASE Write(picked) /\ UNCHANGED faults
      <4>1. Filed /\ (disk' # Absent <=> picked = "listed")
        BY <1>1, <3>3, WritesPicked
      <4>2. Faithful'
        BY <2>1, <3>1, <4>1 DEF Filed, Faithful, record
      <4>3. ~crossed => Agrees'
        BY <1>1, <1>2, <3>1, <3>2, <4>1 DEF Durable, Pick, Agrees
      <4>. QED
        BY <1>1, <1>3, <2>1, <3>1, <3>2, <4>2, <4>3 DEF Durable, Faithful, Agrees, record, work
    <3>4. CASE WriteFails
      <4>1. faults' # 0
        BY <1>2, <3>4 DEF WriteFails
      <4>. QED
        BY <1>1, <1>3, <2>1, <3>1, <3>2, <4>1 DEF Durable, record, work
    <3>. QED  BY <3>1, <3>3, <3>4
  <2>. QED  BY <2>1, <2>2, <2>3, <2>4, <2>5, <2>6
<1>10. CASE Restart
  <2>1. /\ pc' = "gone" /\ saving' = "no" /\ present' = (disk # Absent)
        /\ \A h \in Handler : hpc'[h] \in {"idle", "served"}
    BY <1>10 DEF Restart
  <2>2. disk' # Absent <=> disk # Absent
    <3>1. CASE disk = Absent
      BY <1>10, <3>1 DEF Restart
    <3>2. CASE disk # Absent
      <4>1. /\ disk'.status = status'
            /\ status' = IF disk.status \in Terminal THEN disk.status ELSE "interrupted"
        BY <1>10, <3>2 DEF Restart, Entry
      <4>2. disk'.status \in Status
        BY <4>1 DEF Status, Terminal
      <4>. QED  BY <3>2, <4>2, Words
    <3>. QED  BY <3>1, <3>2
  <2>. QED  BY <1>3, <2>1, <2>2 DEF Durable, Picked
<1>11. CASE UNCHANGED vars
  BY <1>1, <1>11 DEF vars, Durable, Settled, Pick
<1>. QED  BY <1>1, <1>8, <1>9, <1>10, <1>11 DEF Next

-----------------------------------------------------------------------------
(* The invariant.                                                            *)
LEMMA InitIInv == Init => IInv
<1>1. SUFFICES ASSUME Init PROVE IInv
  OBVIOUS
<1>2. 1 \in Op
  BY QueueAssumption, OpTyped DEF Op
<1>3. status = "queued" /\ pc = "new" /\ disk = Absent /\ index = 1 /\ faults = 0
  BY <1>1 DEF Init
<1>4. disk.status = "absent"
  BY <1>3 DEF Absent
<1>5. TypeOK
  <2>1. status \in Terminal \cup Active /\ ops \in [Op -> OpStatus] /\ closed \in BOOLEAN
    BY <1>1 DEF Init, Active, OpStatus
  <2>2. cancelReq \in BOOLEAN /\ pauseReq \in BOOLEAN /\ present \in BOOLEAN
    BY <1>1 DEF Init
  <2>3. heard \in BOOLEAN /\ late \in BOOLEAN /\ crossed \in BOOLEAN /\ long \in BOOLEAN
    BY <1>1 DEF Init
  <2>4. index \in Op /\ tries \in 0..2 /\ faults \in 0..MaxFaults
    BY <1>1, <1>2, QueueAssumption DEF Init
  <2>5. hpc \in [Handler -> Route] /\ saving \in Saving
    BY <1>1 DEF Init, Route, Saving
  <2>. QED  BY <1>3, <2>1, <2>2, <2>3, <2>4, <2>5 DEF TypeOK
<1>6. Structure
  <2>1. tries = 0 /\ saving = "no"
    BY <1>1 DEF Init
  <2>2. pc \notin Under \cup Deciding \cup Past \cup {"error"}
    BY <1>3 DEF Under, Deciding, Past
  <2>3. \A i \in Op : ops[i] = "pending" /\ ~(i < 1)
    BY <1>1, OpTyped DEF Init
  <2>4. Tried /\ ClosedAtEnd
    BY <1>3, <2>1, <2>2 DEF Tried, ClosedAtEnd
  <2>5. InOrder
    BY <1>2, <1>3, <2>2, <2>3 DEF InOrder
  <2>. QED  BY <2>1, <2>4, <2>5 DEF Structure
<1>7. QuietAfterEnd /\ VerdictIsSound /\ DiskIsSound /\ CancelInTime
  BY <1>1, <1>3, <1>4
  DEF Init, QuietAfterEnd, VerdictIsSound, DiskIsSound, CancelInTime, CancelIsHonoured,
      Terminal
<1>8. Durable
  BY <1>1, <1>3 DEF Init, Durable, Picked
<1>. QED  BY <1>5, <1>6, <1>7, <1>8 DEF IInv

LEMMA StepIInv == IInv /\ [Next]_vars => IInv'
<1>1. SUFFICES ASSUME IInv, [Next]_vars PROVE IInv'
  OBVIOUS
<1>2. TypeOK' /\ Structure' /\ QuietAfterEnd' /\ CancelInTime' /\ Durable'
  BY <1>1, TypeStep, StructureStep, QuietStep, CancelStep, DurableStep DEF IInv, Structure
<1>3. VerdictIsSound' /\ DiskIsSound'
  BY <1>1, VerdictStep, DiskStep, RestartVerdict DEF IInv
<1>. QED  BY <1>2, <1>3 DEF IInv

LEMMA Inductive == Spec => []IInv
BY InitIInv, StepIInv, PTL DEF Spec

(* The variables keep their types.                                           *)
THEOREM TypeCorrect == Spec => []TypeOK
BY Inductive, PTL DEF IInv

(* A worker that ends without an error leaves no operation pending or        *)
(* running, wherever it was stopped, cancelled or held up.                   *)
THEOREM NothingIsLeftOpen == Spec => []NothingLeftOpen
<1>1. IInv => NothingLeftOpen
  BY DEF IInv, Structure, ClosedAtEnd, NoneOpen, NothingLeftOpen, Past
<1>. QED  BY <1>1, Inductive, PTL

(* A run that is shown as completed has run every operation; the exception   *)
(* is the one the property names, a control that wrote over a flood stop.    *)
THEOREM CompletedRunsRan == Spec => []CompletedMeansAllRan
<1>1. IInv => CompletedMeansAllRan
  BY DEF IInv, VerdictIsSound, Overruled, AllRan, CompletedMeansAllRan
<1>. QED  BY <1>1, Inductive, PTL

(* A cancel asked for while the worker is in its loop is honoured, whenever  *)
(* the threads are switched, unless a control wrote over the final status.   *)
THEOREM CancelsAreHonoured == Spec => []CancelIsHonoured
<1>1. IInv => CancelIsHonoured
  BY DEF IInv, CancelInTime
<1>. QED  BY <1>1, Inductive, PTL

(* When no save is under way after the end the file agrees with memory,      *)
(* whichever of the overlapping saves wrote last.                            *)
THEOREM TheEndIsDurable == Spec => []DoneIsDurable
<1>1. ASSUME IInv, pc = "done", saving = "no", Quiet, faults = 0
      PROVE  /\ disk \in {Absent, Entry(status, ops, TRUE)}
             /\ ~crossed => (disk # Absent <=> present)
  <2>1. Settled
    BY <1>1 DEF Settled, Quiet, Picked
  <2>2. closed = TRUE
    BY <1>1 DEF IInv, Durable, TypeOK
  <2>. QED  BY <1>1, <2>1, <2>2 DEF IInv, Durable
<1>2. IInv => DoneIsDurable
  BY <1>1 DEF DoneIsDurable
<1>. QED  BY <1>2, Inductive, PTL

-----------------------------------------------------------------------------
(* The refinement.                                                           *)
phase == PhaseOf(pc)
shown == ShownAs(status)
filed == FiledAs(disk)
seen == {h \in Handler : hpc[h] \in Controls}
doomed == {h \in Handler : hpc[h] = "deletePop"}
Rest == UNCHANGED <<present, filed, seen, doomed>>

LEMMA WordsShow ==
  \A s \in Status :
    /\ ShownAs(s) = "active" <=> s \in Active
    /\ ShownAs(s) = "final" <=> s \in Terminal
    /\ FiledAs(Absent) = "none"
    /\ \A o, c : Entry(s, o, c) # Absent /\ FiledAs(Entry(s, o, c)) = ShownAs(s)
<1>1. ASSUME NEW s \in Status, NEW o, NEW c
      PROVE  Entry(s, o, c) # Absent /\ Entry(s, o, c).status = s
  BY Words DEF Entry, Absent
<1>. QED  BY <1>1, Words DEF ShownAs, FiledAs, Status

LEMMA Phases == /\ phase = "new" <=> pc = "new"
                /\ phase = "working" <=> pc \in Working
                /\ phase = "ended" <=> pc \notin Working \cup {"new"}
BY DEF phase, PhaseOf, Working

LEMMA Files ==
  ASSUME TypeOK, NEW picked, Write(picked) PROVE filed' \in {"none", shown}
BY WordsShow DEF Write, filed, shown, TypeOK, Status

LEMMA ThreadsMove ==
  ASSUME hpc \in Routes, NEW h \in Handler, hpc' = [hpc EXCEPT ![h] = hpc'[h]]
  PROVE  /\ seen' = IF hpc'[h] \in Controls THEN seen \cup {h} ELSE seen \ {h}
         /\ doomed' = IF hpc'[h] = "deletePop" THEN doomed \cup {h} ELSE doomed \ {h}
         /\ h \in seen <=> hpc[h] \in Controls
         /\ h \in doomed <=> hpc[h] = "deletePop"
<1>1. \A g \in Handler : g # h => hpc'[g] = hpc[g]
  BY DEF Routes
<1>. QED  BY <1>1 DEF seen, doomed

lives == <<phase, shown, present, filed, <<seen, doomed>>, tries>>

LEMMA LifeStarts == Init => Life!Init
<1>1. SUFFICES ASSUME Init PROVE Life!Init
  OBVIOUS
<1>2. status = "queued" /\ pc = "new" /\ disk = Absent /\ tries = 0 /\ present = FALSE
  BY <1>1 DEF Init
<1>3. phase = "new" /\ shown = "active" /\ filed = "none"
  BY <1>2, WordsShow DEF phase, PhaseOf, shown, ShownAs, Active, filed, FiledAs
<1>4. seen = {} /\ doomed = {}
  BY <1>1 DEF Init, seen, doomed, Controls
<1>. QED  BY <1>2, <1>3, <1>4 DEF Life!Init, phase, shown, filed, seen, doomed

(* The worker's steps.                                                       *)
LEMMA WorkerLives ==
  ASSUME TypeOK, TypeOK', Structure, QuietAfterEnd, QuietAfterEnd', Worker
  PROVE  Life!Next \/ UNCHANGED lives
<1>1. status \in Status /\ status' \in Status /\ tries \in 0..2
  BY DEF TypeOK, Status
<1>2. pc \in Working \cup {"new"} => shown = "active"
  BY <1>1, WordsShow DEF QuietAfterEnd, shown, Status
<1>3. pc' \in Working \cup {"new"} => shown' = "active"
  BY <1>1, WordsShow DEF QuietAfterEnd, shown, Status
<1>4. CASE WorkerPicks
  BY <1>4 DEF WorkerPicks, lives, phase, shown, filed, seen, doomed, work
<1>5. CASE Create
  <2>1. phase = "new" /\ phase' = "working" /\ present' = TRUE
        /\ UNCHANGED <<shown, filed, seen, doomed, tries>>
    BY <1>5 DEF Create, SaveThen, phase, PhaseOf, shown, filed, seen, doomed, Working
  <2>. QED
    BY <2>1 DEF Life!Next, Life!List, Life!threads, phase, shown, filed, seen, doomed
<1>6. CASE WorkerWrites
  <2>1. UNCHANGED <<shown, present, seen, doomed, tries>>
    BY <1>6 DEF WorkerWrites, shown, seen, doomed
  <2>2. CASE Write(saving) /\ pc' = pc
    <3>1. filed' \in {"none", shown} /\ phase' = phase
      BY <2>2, Files DEF phase
    <3>. QED
      BY <2>1, <3>1
      DEF Life!Next, Life!File, Life!threads, phase, shown, filed, seen, doomed
  <2>3. CASE disk' = disk /\ pc' = Raises(pc)
    <3>1. saving # "no"
      BY <1>6 DEF WorkerWrites, Picked
    <3>2. pc # "new"
      BY <3>1 DEF Structure
    <3>3. phase # "new" /\ filed' = filed /\ (phase' = "ended" \/ phase' = phase)
      BY <2>3, <3>2, Phases DEF phase, PhaseOf, filed, Raises, Working
    <3>4. phase' = "ended"
      BY <2>3 DEF Raises, phase, PhaseOf, Working
    <3>. QED
      BY <2>1, <3>3, <3>4
      DEF Life!Next, Life!End, Life!threads, phase, shown, filed, seen, doomed
  <2>. QED  BY <1>6, <2>2, <2>3 DEF WorkerWrites, WriteFails
<1>7. ASSUME Acts PROVE Rest
  BY <1>7 DEF Acts, Rest, filed, seen, doomed
<1>8. ASSUME Rest, phase # "new", phase' = "ended", shown' \in {shown, "final"},
             tries' \in {tries, 0}
      PROVE  Life!Next
  BY <1>8 DEF Rest, Life!Next, Life!End, Life!threads, phase, shown, filed, seen, doomed
<1>9. ASSUME status' \in {"canceled", "completed", "failed", "flood_wait"}
      PROVE  shown' = "final"
  BY <1>1, <1>9, WordsShow DEF shown, Terminal
<1>10. CASE Acts /\ (MovesOn \/ Begins)
  <2>1. pc \in Working /\ UNCHANGED tries /\ Rest
    BY <1>7, <1>10, Places DEF MovesOn, Begins, Before
  <2>2. CASE pc' \in Working
    <3>1. UNCHANGED <<phase, shown>>
      BY <1>2, <1>3, <2>1, <2>2 DEF phase, PhaseOf, Working
    <3>. QED  BY <2>1, <3>1 DEF Rest, lives
  <2>3. CASE pc' = "dead" /\ status' = status
    <3>1. phase # "new" /\ phase' = "ended" /\ shown' = shown
      BY <2>1, <2>3 DEF phase, PhaseOf, shown, Working
    <3>. QED  BY <1>8, <2>1, <3>1
  <2>4. pc' \in Working \/ (pc' = "dead" /\ status' = status)
    BY <1>10, Places DEF MovesOn, Begins, Under
  <2>. QED  BY <2>2, <2>3, <2>4
<1>11. CASE Acts /\ Calls
  <2>1. pc \in Working /\ pc' \in Working /\ Rest
    BY <1>7, <1>11, Places DEF Calls
  <2>2. phase = "working" /\ UNCHANGED <<phase, shown>>
    BY <1>2, <1>3, <2>1 DEF phase, PhaseOf, Working
  <2>3. tries' = tries \/ (tries < 2 /\ tries' = tries + 1)
    BY <1>1, <1>11 DEF Calls, Structure, Tried
  <2>. QED
    BY <2>1, <2>2, <2>3
    DEF Rest, lives, Life!Next, Life!Call, Life!threads, phase, shown, filed, seen, doomed
<1>12. CASE Acts /\ Finishes
  <2>1. pc \in Working /\ status' = status /\ tries' = 0 /\ Rest
    BY <1>7, <1>12, Places DEF Finishes
  <2>2. phase = "working" /\ shown' = shown
    BY <2>1, Phases DEF shown
  <2>3. pc' = "top" \/ pc' = "final"
    BY <1>12 DEF Finishes
  <2>4. CASE pc' = "top"
    <3>1. phase' = phase
      BY <2>2, <2>4 DEF phase, PhaseOf, Working
    <3>. QED
      BY <2>1, <2>2, <3>1
      DEF Rest, Life!Next, Life!Answer, Life!threads, phase, shown, filed, seen, doomed
  <2>5. CASE pc' = "final"
    <3>1. phase' = "ended"
      BY <2>5 DEF phase, PhaseOf, Working
    <3>. QED  BY <1>8, <2>1, <2>2, <3>1
  <2>. QED  BY <2>3, <2>4, <2>5
<1>13. CASE Acts /\ (Cancels \/ Stops \/ Aborts)
  <2>1. /\ pc \in Working /\ pc' = "final" /\ Rest
        /\ status' \in {"canceled", "flood_wait"} /\ tries' \in {tries, 0}
    BY <1>7, <1>13, Places
    DEF Cancels, CancelNow, Stops, FloodStop, Aborts, WaitAborts, Under
  <2>2. phase # "new" /\ phase' = "ended"
    BY <2>1 DEF phase, PhaseOf, Working
  <2>. QED  BY <1>8, <1>9, <2>1, <2>2
<1>14. CASE Acts /\ Decides
  <2>1. /\ pc \notin Working \cup {"new"} /\ pc' \notin Working \cup {"new"}
        /\ status' \in {status, "canceled", "completed", "failed"} /\ tries' = tries
    BY <1>14
    DEF Decides, ReadFlag, ReadStatusCanceled, ReadStatus, WriteVerdict, SaveVerdict, Raised,
        ReleaseClients, FinishRun, At, Goto, SaveThen, Working
  <2>2. phase = "ended" /\ phase' = "ended"
    BY <2>1 DEF phase, PhaseOf
  <2>3. shown' \in {shown, "final"}
    BY <1>9, <2>1 DEF shown
  <2>. QED  BY <1>7, <1>8, <1>14, <2>1, <2>2, <2>3
<1>. QED
  BY <1>4, <1>5, <1>6, <1>10, <1>11, <1>12, <1>13, <1>14, WorkerKinds

(* The routes' steps.                                                        *)
LEMMA RoutesLive ==
  ASSUME TypeOK, TypeOK', NEW h \in Handler, Request(h) \/ RouteStep(h)
  PROVE  Life!Next \/ UNCHANGED lives
<1>1. /\ UNCHANGED <<record, work, saving>>
      /\ hpc' = [hpc EXCEPT ![h] = hpc'[h]]
      /\ Looks(h) \/ Flagged(h) \/ Shown(h) \/ DeletePop(h) \/ RoutePicks(h) \/ RouteWrites(h)
  BY RouteKinds
<1>2. hpc \in Routes /\ status \in Status /\ status' \in Status
  BY DEF TypeOK, Routes, Status
<1>3. /\ seen' = IF hpc'[h] \in Controls THEN seen \cup {h} ELSE seen \ {h}
      /\ doomed' = IF hpc'[h] = "deletePop" THEN doomed \cup {h} ELSE doomed \ {h}
      /\ h \in seen <=> hpc[h] \in Controls
      /\ h \in doomed <=> hpc[h] = "deletePop"
  BY <1>1, <1>2, ThreadsMove
<1>4. UNCHANGED <<phase, tries>>
  BY <1>1 DEF phase, work
<1>5. ASSUME UNCHANGED <<status, present, disk, seen, doomed>> PROVE UNCHANGED lives
  BY <1>4, <1>5 DEF lives, shown, filed
<1>6. "deletePop" \notin Controls /\ "asked" \notin Controls /\ "served" \notin Controls
      /\ Picked \cap Controls = {} /\ "idle" \notin Controls /\ "deletePop" \notin Picked
  BY DEF Controls, Picked
<1>7. CASE Looks(h)
  <2>1. UNCHANGED <<status, present, disk, shown, filed>>
    BY <1>7 DEF Looks, shown, filed
  <2>2. CASE hpc'[h] \in Controls
    <3>1. shown = "active" /\ present
      BY <1>2, <1>7, <2>2, WordsShow DEF Looks, shown, Status
    <3>2. seen' = seen \cup {h} /\ doomed' = doomed
      BY <1>3, <1>6, <1>7, <2>2 DEF Looks
    <3>. QED
      BY <1>4, <2>1, <3>1, <3>2
      DEF Life!Next, Life!Look, phase, shown, filed, seen, doomed
  <2>3. CASE hpc'[h] = "deletePop"
    <3>1. present => shown = "final"
      BY <1>2, <1>7, <2>3, WordsShow DEF Looks, shown, Status
    <3>2. seen' = seen /\ doomed' = doomed \cup {h}
      BY <1>3, <1>6, <1>7, <2>3 DEF Looks
    <3>. QED
      BY <1>4, <2>1, <3>1, <3>2
      DEF Life!Next, Life!Doom, phase, shown, filed, seen, doomed
  <2>4. CASE hpc'[h] = "asked"
    <3>1. seen' = seen /\ doomed' = doomed
      BY <1>3, <1>6, <1>7, <2>4 DEF Looks
    <3>. QED  BY <1>5, <2>1, <3>1
  <2>. QED  BY <1>7, <2>2, <2>3, <2>4 DEF Looks
<1>8. CASE Flagged(h) \/ Shown(h)
  <2>1. h \in seen /\ doomed' = doomed /\ hpc'[h] \in Controls \cup {"asked"}
    BY <1>3, <1>6, <1>8 DEF Flagged, Shown
  <2>2. UNCHANGED <<present, filed>>
    BY <1>8 DEF Flagged, Shown, filed
  <2>3. shown' \in {shown, "active"}
    BY <1>2, <1>8, WordsShow DEF Flagged, Shown, shown, Active
  <2>4. CASE hpc'[h] \in Controls
    <3>1. status' = status /\ present' = present /\ disk' = disk
      BY <1>6, <1>8, <2>4 DEF Flagged, Shown
    <3>2. seen' = seen
      BY <1>3, <2>1, <2>4
    <3>. QED  BY <1>5, <2>1, <3>1, <3>2
  <2>5. CASE hpc'[h] = "asked"
    <3>1. seen' = seen \ {h}
      BY <1>3, <1>6, <2>5
    <3>. QED
      BY <1>4, <2>1, <2>2, <2>3, <3>1
      DEF Life!Next, Life!Steer, phase, shown, filed, seen, doomed
  <2>. QED  BY <2>1, <2>4, <2>5
<1>9. CASE DeletePop(h)
  <2>1. /\ hpc[h] = "deletePop" /\ hpc'[h] = "asked" /\ present' = FALSE
        /\ UNCHANGED <<shown, filed>>
    BY <1>2, <1>9 DEF DeletePop, Steps, Routes, shown, filed
  <2>2. h \in doomed /\ seen' = seen /\ doomed' = doomed \ {h}
    BY <1>3, <1>6, <2>1
  <2>. QED
    BY <1>4, <2>1, <2>2
    DEF Life!Next, Life!Remove, phase, shown, filed, seen, doomed
<1>10. CASE RoutePicks(h) \/ RouteWrites(h)
  <2>1. /\ hpc[h] \in {"asked"} \cup Picked /\ hpc'[h] \in {"served"} \cup Picked
        /\ UNCHANGED <<status, present>>
    BY <1>2, <1>10
    DEF RoutePicks, RouteWrites, Reads, Flags, Steps, Routes, Pick, Picked
  <2>2. seen' = seen /\ doomed' = doomed
    BY <1>3, <1>6, <2>1
  <2>3. CASE disk' = disk
    BY <1>5, <2>1, <2>2, <2>3
  <2>4. CASE \E picked \in Picked : Write(picked)
    <3>1. filed' \in {"none", shown} /\ UNCHANGED shown
      BY <2>1, <2>4, Files DEF shown
    <3>. QED
      BY <1>4, <2>1, <2>2, <3>1
      DEF Life!Next, Life!File, Life!threads, phase, shown, filed, seen, doomed
  <2>. QED  BY <1>10, <2>3, <2>4 DEF RoutePicks, Reads, Flags, RouteWrites, WriteFails
<1>. QED  BY <1>1, <1>7, <1>8, <1>9, <1>10

LEMMA RestartLives == ASSUME TypeOK, Restart PROVE Life!Next
<1>1. phase' = "ended" /\ tries' = 0
  BY DEF Restart, phase, PhaseOf, Working
<1>2. seen' = {} /\ doomed' = {}
  BY DEF Restart, seen, doomed, Controls
<1>3. CASE disk = Absent
  <2>1. filed = "none" /\ present' = FALSE /\ UNCHANGED <<shown, filed>>
    BY <1>3 DEF Restart, shown, filed, FiledAs
  <2>. QED
    BY <1>1, <1>2, <2>1 DEF Life!Next, Life!Restart, phase, shown, filed, seen, doomed
<1>4. CASE disk # Absent
  <2>1. disk.status \in Status
    BY <1>4 DEF TypeOK, Status
  <2>2. status' \in Terminal /\ status' \in Status /\ present' = TRUE
    BY <1>4, <2>1 DEF Restart, Terminal, Status
  <2>3. disk' = Entry(status', ops', closed')
    BY <1>4 DEF Restart
  <2>4. shown' = "final" /\ filed' = "final" /\ filed # "none"
    BY <1>4, <2>1, <2>2, <2>3, WordsShow DEF shown, filed, FiledAs, ShownAs
  <2>. QED
    BY <1>1, <1>2, <2>2, <2>4 DEF Life!Next, Life!Restart, phase, shown, filed, seen, doomed
<1>. QED  BY <1>3, <1>4

LEMMA LifeSteps == IInv /\ IInv' /\ [Next]_vars => [Life!Next]_lives
<1>1. SUFFICES ASSUME IInv, IInv', [Next]_vars PROVE Life!Next \/ UNCHANGED lives
  OBVIOUS
<1>2. /\ TypeOK /\ TypeOK' /\ Structure /\ QuietAfterEnd /\ QuietAfterEnd'
  BY <1>1 DEF IInv
<1>3. CASE Worker
  BY <1>2, <1>3, WorkerLives
<1>4. ASSUME NEW h \in Handler, Request(h) \/ RouteStep(h)
      PROVE  Life!Next \/ UNCHANGED lives
  BY <1>2, <1>4, RoutesLive
<1>5. CASE Restart
  BY <1>2, <1>5, RestartLives
<1>6. CASE UNCHANGED vars
  BY <1>6 DEF vars, lives, phase, shown, filed, seen, doomed
<1>. QED  BY <1>1, <1>3, <1>4, <1>5, <1>6 DEF Next

(* The worker, the routes and the file implement RunLife, for any number of  *)
(* operations, requests and failing writes, however threads are switched.    *)
THEOREM LifeIsImplemented == Spec => ImplementsLife
<1>1. IInv /\ [Next]_vars => IInv' /\ [Life!Next]_lives
  BY StepIInv, LifeSteps
<1>. QED
  BY <1>1, InitIInv, LifeStarts, PTL
  DEF Spec, ImplementsLife, Life!Spec, Life!vars, Life!threads, lives, phase, shown, filed,
      seen, doomed
=============================================================================
