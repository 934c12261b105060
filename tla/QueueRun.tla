------------------------------ MODULE QueueRun ------------------------------
(***************************************************************************)
(* One action-queue run: the request that starts it and the worker task    *)
(* that executes its operations (action_queue_service.py), the HTTP routes *)
(* that cancel, pause, resume, delete and clear runs (routes/actions.py)   *)
(* and its entry in the runs file (action_runs_service.py).                *)
(*                                                                         *)
(* The worker runs on the event loop.  Cancel, pause, resume, delete and   *)
(* clear are plain `def` routes: FastAPI runs them in a thread pool, so    *)
(* their steps interleave with the worker's and with one another's in any  *)
(* order.  Each action reads or writes the run's shared fields (status,    *)
(* cancel_requested, pause_requested) once; only a step that has seen the  *)
(* cancel flag, which nothing clears, also writes the status.              *)
(*                                                                         *)
(* A save is two steps: it picks the runs to write, then it writes them,   *)
(* with what they hold by then, under the lock of the document.  The run   *)
(* is one of the newest hundred, which is all the file keeps.              *)
(***************************************************************************)
EXTENDS Integers, FiniteSets

CONSTANTS NumOps,      \* operations of the run
          Requests,    \* bound: how many requests arrive while the run is there
          MaxFaults    \* bound: how often writing the runs file may fail

ASSUME QueueAssumption == NumOps \in Nat \ {0} /\ Requests \in Nat /\ MaxFaults \in Nat

Terminal == {"completed", "failed", "interrupted", "canceled", "flood_wait"}
\* Mutation: the set as it was before flood waits could be resumed.
ActiveBeforeAutoResume == {"queued", "running", "canceling", "pausing", "paused"}
Active == {"queued", "running", "canceling", "pausing", "paused", "flood_waiting"}

Op == 1..NumOps
(* "done" is "ok", "failed" or "skipped_condition": the operation had its  *)
(* turn, and no step tells how it ended.  Its result and the run's         *)
(* counters are set with it (_update_run_counts).                          *)
OpStatus == {"pending", "running", "done", "skipped_canceled"}

(* The requests about this run, in the order they arrive; each has a       *)
(* thread of the pool.                                                     *)
Handler == 1..Requests

VARIABLES status,     \* run["status"]
          cancelReq,  \* run["cancel_requested"]
          pauseReq,   \* run["pause_requested"]
          ops,        \* the status of each operation
          closed,     \* is run["completed_at"] set?
          pc,         \* where the worker is
          index,      \* the operation the worker is at
          long,       \* is the flood wait a long one (more than 60s)?
          tries,      \* Telegram tries begun for this operation
          hpc,        \* where each request is in its route
          present,    \* is the run in queue_runs?
          disk,       \* what the runs file says of the run
          faults,     \* failed writes so far
          saving,     \* how far the worker's save is; see Saving
          heard,      \* history: was a cancel asked for while it worked?
          late,       \* history: has a control overwritten a final status?
          crossed     \* history: was a run listed or removed under a save?

work  == <<pc, index, long, tries>>
flags == <<cancelReq, pauseReq>>
record == <<ops, closed>>
vars == <<status, cancelReq, pauseReq, ops, closed, pc, index, long, tries,
          hpc, present, disk, faults, saving, heard, late, crossed>>

(* Where the worker may still begin a call.                                *)
Working == {"start", "lock", "top", "gate", "park", "parked", "unpark", "unparked",
            "recheck", "delay", "begin", "condition", "call", "wait", "unflood", "retry"}
Ending == {"final", "finalCancel", "finalPlain", "canceled", "completed",
           "save", "error", "release", "finish"}
(* A route that has looked at the run and not yet written what it wants.   *)
Controls == {"cancelFlag", "cancelPause", "cancelStatus",
             "pauseFlag", "pauseRead", "pauseStatus",
             "resumeFlag", "resumeRead", "resumeStatus"}
(* A save is asked for, or has picked the runs, with or without this one.  *)
Picked == {"listed", "unlisted"}
Saving == {"no", "asked"} \cup Picked
Route == Controls \cup {"idle", "deletePop", "asked", "served"} \cup Picked

Absent == [status |-> "absent", ops |-> <<>>, closed |-> FALSE]
Entry(s, o, c) == [status |-> s, ops |-> o, closed |-> c]

TypeOK ==
  /\ status \in Terminal \cup Active
  /\ cancelReq \in BOOLEAN /\ pauseReq \in BOOLEAN
  /\ ops \in [Op -> OpStatus]
  /\ pc \in Working \cup Ending \cup {"new", "done", "dead", "gone"}
  /\ index \in Op /\ long \in BOOLEAN
  /\ tries \in 0..2
  /\ hpc \in [Handler -> Route] /\ saving \in Saving
  /\ present \in BOOLEAN /\ closed \in BOOLEAN
  /\ heard \in BOOLEAN /\ late \in BOOLEAN /\ crossed \in BOOLEAN
  /\ disk = Absent \/ disk \in [status : Terminal \cup Active, ops : [Op -> OpStatus],
                               closed : BOOLEAN]
  /\ faults \in 0..MaxFaults

(* start_action_queue, with at least one operation ready, before the run   *)
(* is entered in queue_runs.                                               *)
Init ==
  /\ status = "queued"
  /\ cancelReq = FALSE /\ pauseReq = FALSE
  /\ ops = [i \in Op |-> "pending"]
  /\ closed = FALSE
  /\ pc = "new" /\ index = 1 /\ long = FALSE /\ tries = 0
  /\ hpc = [h \in Handler |-> "idle"]
  /\ present = FALSE /\ disk = Absent
  /\ faults = 0 /\ saving = "no"
  /\ heard = FALSE /\ late = FALSE /\ crossed = FALSE

-----------------------------------------------------------------------------
(* save_action_runs, first half: the sorted copy holds the run or not.     *)
Pick == IF present THEN "listed" ELSE "unlisted"

(* Second half: the copy is written under the lock of runs_doc.  It holds  *)
(* the record itself, so the file gets what the record holds by then.      *)
Write(picked) ==
  disk' = IF picked = "listed" THEN Entry(status, ops, closed) ELSE Absent

WriteFails == faults < MaxFaults /\ faults' = faults + 1 /\ UNCHANGED disk

(* The runs another thread has picked and not yet written.                 *)
SaveUnderWay == saving \in Picked \/ \E h \in Handler : hpc[h] \in Picked

(* The worker goes on to `next` with a save on its way.                    *)
SaveThen(next) == pc' = next /\ saving' = "asked"

(* throttled_save skips the write when the last one is recent.             *)
ThrottledSave(next) == SaveThen(next) \/ (pc' = next /\ UNCHANGED saving)

(* Where an error of the save takes a worker that was to go on at `at`:    *)
(* out of the request or the task before the try block, into its except    *)
(* clause, or, in the finally clause, to the end.                          *)
Raises(at) == IF at \in {"start", "lock"} THEN "dead"
              ELSE IF at = "done" THEN "done" ELSE "error"

WorkerPicks ==
  /\ saving = "asked"
  /\ saving' = Pick
  /\ UNCHANGED <<status, flags, record, work, hpc, present, disk, faults, heard, late, crossed>>

WorkerWrites ==
  /\ saving \in Picked
  /\ saving' = "no"
  /\ UNCHANGED <<status, flags, record, index, long, tries, hpc, present, heard, late, crossed>>
  /\ \/ Write(saving) /\ UNCHANGED <<pc, faults>>
     \/ WriteFails /\ pc' = Raises(pc)

(* mark_remaining_operations(expanded[first:]).                            *)
\* Mutation: the slice starts one operation late.
MarkedOneLate(first, before) ==
  [i \in Op |-> IF i > first /\ before[i] = "pending"
                THEN "skipped_canceled" ELSE before[i]]
Marked(first, before) ==
  [i \in Op |-> IF i >= first /\ before[i] = "pending"
                THEN "skipped_canceled" ELSE before[i]]

(* cancel_now(expanded[index:]) and break.                                 *)
CancelNow ==
  /\ ops' = Marked(index, ops)
  /\ status' = "canceled"
  /\ pc' = "final"
  /\ UNCHANGED <<closed, index, long, tries, saving>>

(* The worker is at `at`, its save is over, and its step leaves the flags, *)
(* the routes, queue_runs and the file alone.                              *)
At(at) ==
  /\ pc = at
  /\ saving = "no"
  /\ UNCHANGED <<cancelReq, pauseReq, hpc, present, disk, faults, heard, late, crossed>>

Goto(next) == pc' = next /\ UNCHANGED <<status, record, index, long, tries, saving>>

-----------------------------------------------------------------------------
(* start_action_queue enters the run, saves and creates the task.          *)
Create ==
  /\ pc = "new"
  /\ present' = TRUE
  /\ crossed' = (crossed \/ SaveUnderWay)
  /\ SaveThen("start")
  /\ UNCHANGED <<status, flags, record, index, long, tries, hpc, disk, faults, heard, late>>

(* process_action_queue up to the session guard.  A run that was cleared   *)
(* away before the task began ends it with a KeyError; so does a failed    *)
(* save, before the try: nobody touches the run again.                     *)
Begin ==
  /\ At("start")
  /\ UNCHANGED <<record, index, long, tries>>
  /\ IF present THEN status' = "running" /\ SaveThen("lock")
     ELSE pc' = "dead" /\ UNCHANGED <<status, saving>>

(* session_guard has been entered (module SessionLocks).                   *)
EnterGuard == At("lock") /\ Goto("top")

(* Line 228.                                                               *)
TopCheck ==
  /\ At("top")
  /\ IF cancelReq THEN CancelNow ELSE Goto("gate")

(* _wait_while_paused: no pause asked for, or park.                        *)
Gate == At("gate") /\ Goto(IF pauseReq THEN "park" ELSE "recheck")

Park ==
  /\ At("park")
  /\ status' = "paused"
  /\ UNCHANGED <<record, index, long, tries>>
  /\ SaveThen("parked")

(* The condition of its polling loop, read once a second.                  *)
\* Mutation: the loop does not look at the cancel flag.
DeafStaysParked == pauseReq
StaysParked == pauseReq /\ ~cancelReq

Poll == At("parked") /\ ~StaysParked /\ Goto("unpark")

Unpark == At("unpark") /\ Goto(IF cancelReq THEN "recheck" ELSE "unparked")

Unparked ==
  /\ At("unparked")
  /\ status' = "running"
  /\ UNCHANGED <<record, index, long, tries>>
  /\ SaveThen("recheck")

(* Line 235, then the inter-operation delay before every operation but the *)
(* first.                                                                  *)
Recheck ==
  /\ At("recheck")
  /\ IF cancelReq THEN CancelNow ELSE Goto(IF index > 1 THEN "delay" ELSE "begin")

(* _cancellable_sleep ends the moment it sees the cancel flag, which it    *)
(* reads once more when the time is over.                                  *)
SleepOver == ~cancelReq

DelayAborts == At("delay") /\ cancelReq /\ CancelNow
DelayElapses == At("delay") /\ SleepOver /\ Goto("begin")

(* The operation is marked running.                                        *)
BeginOp ==
  /\ At("begin")
  /\ ops' = [ops EXCEPT ![index] = "running"]
  /\ UNCHANGED <<status, closed, index, long, tries>>
  /\ ThrottledSave("condition")

NextIndex == IF index < NumOps THEN index + 1 ELSE index

(* The operation has its result; go on with the next one, or end the loop. *)
Finish ==
  /\ ops' = [ops EXCEPT ![index] = "done"]
  /\ index' = NextIndex
  /\ tries' = 0 /\ long' = FALSE
  /\ UNCHANGED <<status, closed>>
  /\ ThrottledSave(IF index < NumOps THEN "top" ELSE "final")

(* A step may carry a condition (_condition_passes); an error of its check *)
(* counts as "not met".                                                    *)
ConditionHolds ==
  /\ At("condition")
  /\ tries' = tries + 1
  /\ pc' = "call"
  /\ UNCHANGED <<status, record, index, long, saving>>
ConditionFails == At("condition") /\ Finish

(* run_warm_action answers: done, failed (every classified error and the   *)
(* 180s timeout), or FloodWaitError.                                       *)
CallReturns(at) == At(at) /\ Finish

(* A flood wait up to 60s is slept in silence; one within the resume cap   *)
(* shows as flood_waiting.                                                 *)
ShortFlood ==
  /\ At("call")
  /\ long' = FALSE
  /\ pc' = "wait"
  /\ UNCHANGED <<status, record, index, tries, saving>>
LongFlood ==
  /\ At("call")
  /\ long' = TRUE
  /\ status' = "flood_waiting"
  /\ UNCHANGED <<record, index, tries>>
  /\ SaveThen("wait")

(* handle_queue_flood_wait: beyond the cap the whole run stops.            *)
FloodStop ==
  /\ At("call")
  /\ ops' = Marked(index, [ops EXCEPT ![index] = "done"])
  /\ status' = "flood_wait"
  /\ pc' = "final"
  /\ tries' = 0 /\ long' = FALSE
  /\ UNCHANGED <<closed, index, saving>>

(* _QueueAborted: the waiting operation and the rest are skipped.          *)
WaitAborts ==
  /\ At("wait")
  /\ cancelReq
  /\ ops' = Marked(index, [ops EXCEPT ![index] = "skipped_canceled"])
  /\ status' = "canceled"
  /\ pc' = "final"
  /\ tries' = 0 /\ long' = FALSE
  /\ UNCHANGED <<closed, index, saving>>

(* The wait is over: the operation is retried once, and a long flood shows *)
(* as running again.                                                       *)
WaitElapses == At("wait") /\ SleepOver /\ Goto("unflood")
RetryOnce ==
  /\ At("unflood")
  /\ status' = IF long THEN "running" ELSE status
  /\ tries' = tries + 1
  /\ pc' = "retry"
  /\ UNCHANGED <<record, index, long, saving>>

-----------------------------------------------------------------------------
(* Lines 298-302.  The flag and the status are read before the verdict is  *)
(* written.                                                                *)
\* Mutation: the loop's own checks are thought to be enough.
LateCancelSeen == FALSE
CancelSeen == cancelReq

\* Mutation: a flood-stopped run is taken for one that ran to its end.
AlsoUnsettled == status # "canceled"
Unsettled == status \notin {"canceled", "flood_wait"}

ReadFlag == At("final") /\ Goto(IF CancelSeen THEN "finalCancel" ELSE "finalPlain")
ReadStatusCanceled ==
  At("finalCancel") /\ Goto(IF status # "flood_wait" THEN "canceled" ELSE "finalPlain")
ReadStatus ==
  At("finalPlain") /\ Goto(IF Unsettled THEN "completed" ELSE "save")
WriteVerdict ==
  \E verdict \in {"canceled", "completed"} :
    /\ At(verdict)
    /\ status' = verdict
    /\ pc' = "save"
    /\ UNCHANGED <<record, index, long, tries, saving>>
SaveVerdict ==
  /\ At("save")
  /\ UNCHANGED <<status, record, index, long, tries>>
  /\ SaveThen("release")

(* except Exception: nothing is marked, the operation stays as it was.     *)
Raised ==
  /\ At("error")
  /\ status' = "failed"
  /\ pc' = "release"
  /\ UNCHANGED <<record, index, long, tries, saving>>

(* finally: disconnect the warm clients, write the record, leave the       *)
(* session guard.                                                          *)
ReleaseClients == At("release") /\ Goto("finish")

\* Mutation: the last record is left to the next save.
UnsavedFinishRun ==
  /\ At("finish")
  /\ closed' = TRUE
  /\ pc' = "done"
  /\ UNCHANGED <<status, ops, index, long, tries, saving>>
FinishRun ==
  /\ At("finish")
  /\ closed' = TRUE
  /\ UNCHANGED <<status, ops, index, long, tries>>
  /\ SaveThen("done")

Worker ==
  \/ WorkerPicks \/ WorkerWrites \/ Create \/ Begin \/ EnterGuard \/ TopCheck \/ Gate
  \/ Park \/ Poll \/ Unpark \/ Unparked \/ Recheck \/ DelayAborts \/ DelayElapses \/ BeginOp
  \/ ConditionHolds \/ ConditionFails
  \/ CallReturns("call") \/ CallReturns("retry")
  \/ ShortFlood \/ LongFlood \/ FloodStop \/ WaitAborts \/ WaitElapses \/ RetryOnce
  \/ ReadFlag \/ ReadStatusCanceled \/ ReadStatus \/ WriteVerdict \/ SaveVerdict
  \/ Raised \/ ReleaseClients \/ FinishRun

-----------------------------------------------------------------------------
(* A handler thread takes one step of its route.                           *)
Enters(h, at) ==
  /\ hpc[h] = "idle" /\ \A g \in Handler : g < h => hpc[g] # "idle"
  /\ hpc' = [hpc EXCEPT ![h] = at]
  /\ UNCHANGED <<status, flags, record, work, present, disk, faults, saving, heard, late, crossed>>

Steps(h, at, next) ==
  /\ hpc[h] = at
  /\ hpc' = [hpc EXCEPT ![h] = next]
  /\ UNCHANGED <<record, work, saving>>

(* Cancel, pause and resume turn a finished run away: 400, or no change.   *)
\* Mutation: a run can still be controlled as long as it is listed.
AcceptsWhileListed == present
Accepts == present /\ status \notin Terminal

(* A control sets a flag, reads the status, or writes it: by then the run  *)
(* it looked at may be over.                                               *)
Flags(h, at, next) ==
  Steps(h, at, next) /\ UNCHANGED <<status, present, disk, faults, late, crossed>>
Reads(h, at, next) == Flags(h, at, next) /\ UNCHANGED <<flags, heard>>
Shows(h, at, word) ==
  /\ Steps(h, at, "asked")
  /\ status' = word
  /\ late' = (late \/ status \in Terminal)
  /\ UNCHANGED <<flags, present, disk, faults, heard, crossed>>

Cancel(h) == Accepts /\ Enters(h, "cancelFlag")
CancelFlag(h) ==
  /\ Flags(h, "cancelFlag", "cancelPause")
  /\ cancelReq' = TRUE
  /\ heard' = (heard \/ pc \in Working)
  /\ UNCHANGED pauseReq
CancelPause(h) ==
  /\ Flags(h, "cancelPause", "cancelStatus")
  /\ pauseReq' = FALSE
  /\ UNCHANGED <<cancelReq, heard>>
CancelStatus(h) == Shows(h, "cancelStatus", "canceling")

Pause(h) == Accepts /\ Enters(h, "pauseFlag")
PauseFlag(h) ==
  /\ Flags(h, "pauseFlag", "pauseRead")
  /\ pauseReq' = TRUE
  /\ UNCHANGED <<cancelReq, heard>>
PauseRead(h) ==
  Reads(h, "pauseRead",
        IF status \in {"paused", "flood_waiting"} THEN "asked" ELSE "pauseStatus")
PauseStatus(h) == Shows(h, "pauseStatus", "pausing")

Resume(h) == Accepts /\ Enters(h, "resumeFlag")
ResumeFlag(h) ==
  /\ Flags(h, "resumeFlag", "resumeRead")
  /\ pauseReq' = FALSE
  /\ UNCHANGED <<cancelReq, heard>>
ResumeRead(h) ==
  Reads(h, "resumeRead",
        IF status \in {"pausing", "paused"} THEN "resumeStatus" ELSE "asked")
ResumeStatus(h) == Shows(h, "resumeStatus", "running")

(* Delete the run, or clear the history: the clear looks at the runs there *)
(* are, this one perhaps not yet among them, and then empties queue_runs.  *)
Delete(h) == present /\ status \notin Active /\ Enters(h, "deletePop")
Clear(h) == (present => status \notin Active) /\ Enters(h, "deletePop")
DeletePop(h) ==
  /\ Steps(h, "deletePop", "asked")
  /\ present' = FALSE
  /\ crossed' = (crossed \/ (present /\ SaveUnderWay))
  /\ UNCHANGED <<status, flags, disk, faults, heard, late>>

(* A route about another run ends with the same save.                      *)
Elsewhere(h) == Enters(h, "asked")

(* The save a route ends with; its failure is the request's.               *)
RoutePicks(h) == Reads(h, "asked", Pick)
RouteWrites(h) ==
  \E picked \in Picked :
    /\ Steps(h, picked, "served")
    /\ UNCHANGED <<status, flags, present, heard, late, crossed>>
    /\ (Write(picked) /\ UNCHANGED faults) \/ WriteFails

(* What a thread inside a route does next.                                 *)
RouteStep(h) ==
  \/ CancelFlag(h) \/ CancelPause(h) \/ CancelStatus(h)
  \/ PauseFlag(h) \/ PauseRead(h) \/ PauseStatus(h)
  \/ ResumeFlag(h) \/ ResumeRead(h) \/ ResumeStatus(h)
  \/ DeletePop(h) \/ RoutePicks(h) \/ RouteWrites(h)

Request(h) ==
  Cancel(h) \/ Pause(h) \/ Resume(h) \/ Delete(h) \/ Clear(h) \/ Elsewhere(h)

-----------------------------------------------------------------------------
(* The process ends at any point and starts again: load_action_runs takes  *)
(* the file's entry, turns a run that had not finished into an interrupted *)
(* one and writes the file, before there is any other thread.  No worker   *)
(* is started for it.                                                      *)
Restart ==
  /\ pc # "gone"
  /\ pc' = "gone"
  /\ present' = (disk # Absent)
  /\ IF disk = Absent
     THEN UNCHANGED <<status, ops, closed, disk>>
     ELSE /\ status' = IF disk.status \in Terminal THEN disk.status ELSE "interrupted"
          /\ ops' = disk.ops
          /\ closed' = disk.closed
          /\ disk' = Entry(status', ops', closed')
  /\ hpc' = [h \in Handler |-> IF hpc[h] = "idle" THEN "idle" ELSE "served"]
  /\ saving' = "no"
  /\ index' = 1 /\ long' = FALSE /\ tries' = 0 /\ crossed' = FALSE
  /\ UNCHANGED <<flags, faults, heard, late>>

Next == \/ Worker
        \/ \E h \in Handler : Request(h) \/ RouteStep(h)
        \/ Restart

Spec == Init /\ [][Next]_vars

(* The loop keeps running the worker, and a route once entered goes on.    *)
(* That session_guard is entered at last is SessionLocks!EveryWaiterEnters.*)
(* Nobody is obliged to send a request, and the process need not crash.    *)
FairSpec == /\ Spec
            /\ WF_vars(Worker)
            /\ \A h \in Handler : WF_vars(RouteStep(h))

-----------------------------------------------------------------------------
Quiet == \A h \in Handler : hpc[h] \in {"idle", "served"}

(* What may leave a run without a last word until a restart: its worker    *)
(* died before the try block (action_queue_service.py:200-203), or a       *)
(* control that looked before the end wrote its own status after it        *)
(* (routes/actions.py:137-143).  A run nobody lists has no word at all.    *)
NoLastWord ==
  pc = "dead" \/ (late /\ pc # "gone") \/ (~present /\ pc = "gone")

(* A run that is not left paused comes to an end, with a terminal status,  *)
(* whatever pauses and resumes it has seen; a cancelled one ends even when *)
(* it is paused again afterwards (routes/actions.py:140-142).  Failing     *)
(* saves end it as well.  The exceptions are those of NoLastWord.          *)
RunEnds ==
  <>[](~pauseReq \/ cancelReq) =>
    <>[](pc \notin Working /\ (status \in Terminal \/ NoLastWord))

(* A cancel that is asked for while the run works is honoured: when the    *)
(* worker has passed its verdict, and after a restart, the run is shown as *)
(* cancelled, or as failed, interrupted or flood-stopped if that came      *)
(* first (action_queue_service.py:295-301).  The exception is a control    *)
(* that looked before the end and wrote its own status over it.            *)
CancelIsHonoured ==
  /\ (heard /\ pc \in {"save", "release", "finish", "done"}) =>
       status \in {"canceled", "flood_wait", "failed"} \/ late
  /\ (heard /\ pc = "gone" /\ present) =>
       status \in {"canceled", "flood_wait", "failed", "interrupted"} \/ late

(* "completed" is only said of a run whose operations all had their turn   *)
(* and have a result (action_queue_service.py:298-301).  The one exception *)
(* is a run a long flood wait stopped, when a control that had looked      *)
(* before the stop wrote its status over "flood_wait" before the verdict   *)
(* (routes/actions.py:154-160).                                            *)
FloodStopped ==
  \E i \in Op : /\ ops[i] = "done"
                /\ \A j \in Op : j < i => ops[j] = "done"
                /\ \A j \in Op : j > i => ops[j] = "skipped_canceled"
CompletedMeansAllRan ==
  status = "completed" => (\A i \in Op : ops[i] = "done") \/ (late /\ FloodStopped)

(* No operation is left pending or running by a worker that ended without  *)
(* an error (cancel_now, handle_queue_flood_wait, _QueueAborted).          *)
NothingLeftOpen ==
  (pc \in {"release", "finish", "done"} /\ faults = 0) =>
    \A i \in Op : ops[i] \notin {"pending", "running"}

(* Once the worker is done, no route is under way and no write has failed, *)
(* the runs file says of the run what memory says, whoever wrote last, so  *)
(* that a restart shows what the operator saw; and it lists the run just   *)
(* when memory does, unless a run was listed or removed between the two    *)
(* halves of somebody's save (action_runs_service.py:28-30).               *)
DoneIsDurable ==
  (pc = "done" /\ saving = "no" /\ Quiet /\ faults = 0) =>
    /\ disk \in {Absent, Entry(status, ops, TRUE)}
    /\ ~crossed => (disk # Absent <=> present)

-----------------------------------------------------------------------------
(* What the operator is told of the run, what a restart will tell, and     *)
(* which threads act on what they saw.                                     *)
PhaseOf(at) == IF at = "new" THEN "new" ELSE IF at \in Working THEN "working" ELSE "ended"
ShownAs(s) == IF s \in Active THEN "active" ELSE "final"
FiledAs(d) == IF d = Absent THEN "none" ELSE ShownAs(d.status)

Life == INSTANCE RunLife WITH
          phase <- PhaseOf(pc),
          shown <- ShownAs(status),
          listed <- present,
          filed <- FiledAs(disk),
          seen <- {h \in Handler : hpc[h] \in Controls},
          doomed <- {h \in Handler : hpc[h] = "deletePop"},
          Thread <- Handler,
          MaxTries <- 2

(* The worker, the routes and the file implement RunLife, however their    *)
(* threads are switched: a run that is over is shown as alive again only   *)
(* by a control that saw it alive, its worker does not call Telegram then, *)
(* a run is removed only by a thread that found it over or not there, and  *)
(* a restart revives none (action_queue_service.py:45-47,                  *)
(* routes/actions.py:82-180, action_runs_service.py:10-25).                *)
ImplementsLife == Life!Spec
=============================================================================
