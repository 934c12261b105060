---------------------------- MODULE RunnerSchedule ----------------------------
(***************************************************************************)
(* The runner engine of schedules_service.py: schedules that start a queue *)
(* run at each slot while the application is open.  The scheduler task     *)
(* with its sleep and its wake-up event, the tick over all schedules, the  *)
(* endpoints beside it (create, update, delete, run_now), schedules.json,  *)
(* the runs that were started and the accounts they occupy, the clock, and *)
(* the end of the process at any point.                                    *)
(*                                                                         *)
(* The scheduler's asyncio lock is held across an await by the tick only,  *)
(* so an endpoint's critical section is one action that needs the loop not *)
(* to be in a tick.  Between two runner schedules a tick suspends when the *)
(* mapping has a native schedule there, so each schedule is a step.        *)
(*                                                                         *)
(* Abstractions.  A schedule uses one account; a run holds the account's   *)
(* session as SessionMutex specifies.  One unit of time is at least the 60 *)
(* seconds after which a failed tick is repeated.                          *)
(***************************************************************************)
EXTENDS Recurrence

CONSTANTS
    Schedule,    \* uuids of the schedules that may be created
    Account,     \* accounts
    Uses,        \* [Schedule -> Account], the account a schedule sends from
    Plans,       \* the recurrences an operator may ask for
    Starts,      \* the values of start_at an operator may ask for
    MaxSleep,    \* MAX_SLEEP_SECONDS
    MaxTracked,  \* MAX_TRACKED_RUN_IDS
    ErrorWake,   \* the five minutes after which a schedule in error is looked at
    OpTime,      \* bound: operators act up to this time
    MaxTime,     \* bound: the clock stops here
    MaxPending,  \* bound: runs of one schedule that wait for their account
    MaxLost      \* bound: ticks whose result is not saved

ASSUME RunnerAssumption ==
    /\ Uses \in [Schedule -> Account]
    /\ Plans \subseteq Plan
    /\ Starts \subseteq Nat \cup {Never}
    /\ {MaxSleep, ErrorWake, MaxTracked, MaxPending} \subseteq Nat \ {0}
    /\ {OpTime, MaxTime, MaxLost} \subseteq Nat

Record == [status : {"active", "paused", "error", "completed"}, plan : Plans,
           anchor : Nat, next : Nat \cup {Never}, done : Nat,
           runs : 0..MaxTracked]   \* how many run_ids are kept

VARIABLES
    disk,       \* schedules.json: a function on the ids of the stored schedules
    unborn,     \* uuids not handed out yet
    now,        \* the clock
    loop,       \* SchedulerService._run: "off", "ready", "tick", "sleep"
    tick,       \* locals of _tick_locked
    wakeAt,     \* the time at which the sleep ends
    wake,       \* the _wake event
    pending,    \* runs of each schedule that wait for their account
    running,    \* schedules of which a run holds its account
    others,     \* accounts held by manual runs and ad-hoc calls
    history     \* what has happened to each schedule (observation only)

vars == <<disk, unborn, now, loop, tick, wakeAt, wake, pending, running, others, history>>
runs == <<pending, running, others>>

EmptyDict == [s \in {} |-> {}]
NoTick == [now |-> 0, mem |-> EmptyDict, todo |-> {}, soonest |-> 0]

(* history: how often a schedule was fired by the clock, the last slot it  *)
(* was fired for, when it was last resumed, whether its last fire was lost *)
(* before it was saved, how often that happened, and whether run_now said  *)
(* that nothing was started when something was.                            *)
History == [fires : Nat, slot : Nat \cup {Never}, resumed : Nat \cup {Never}, redo : BOOLEAN,
            lost : 0..MaxLost, misled : BOOLEAN]
NoHistory == [fires |-> 0, slot |-> Never, resumed |-> Never, redo |-> FALSE, lost |-> 0,
              misled |-> FALSE]

WithFire(h, slot) == [h EXCEPT !.fires = @ + 1, !.redo = FALSE, !.slot = slot]

(* The scheduler's lock is not held.                                       *)
LockFree == loop \in {"ready", "sleep"}

Init ==
    /\ disk = EmptyDict
    /\ unborn = Schedule
    /\ now = 0
    /\ loop = "off"
    /\ tick = NoTick
    /\ wakeAt = 0
    /\ wake = FALSE
    /\ pending = [s \in Schedule |-> 0]
    /\ running = {}
    /\ others = {}
    /\ history = [s \in Schedule |-> NoHistory]

-----------------------------------------------------------------------------
(* The accounts.  A run of a schedule takes its account when it is free.   *)

Busy(a) == a \in others \/ \E s \in running : Uses[s] = a

RunEnters(s) ==
    /\ pending[s] > 0
    /\ ~Busy(Uses[s])
    /\ pending' = [pending EXCEPT ![s] = @ - 1]
    /\ running' = running \cup {s}
    /\ UNCHANGED <<disk, unborn, now, loop, tick, wakeAt, wake, others, history>>

RunEnds(s) ==
    /\ s \in running
    /\ running' = running \ {s}
    /\ UNCHANGED <<disk, unborn, now, loop, tick, wakeAt, wake, pending, others, history>>

OtherTakes(a) ==
    /\ loop # "off"
    /\ ~Busy(a)
    /\ others' = others \cup {a}
    /\ UNCHANGED <<disk, unborn, now, loop, tick, wakeAt, wake, pending, running, history>>

OtherLeaves(a) ==
    /\ a \in others
    /\ others' = others \ {a}
    /\ UNCHANGED <<disk, unborn, now, loop, tick, wakeAt, wake, pending, running, history>>

(* _fire_runner.  A busy account or a request that is refused (no account  *)
(* is authorised) skips the fire and records why; a runs file that cannot  *)
(* be written raises.                                                      *)
FireRunner(s, outcome) ==
    IF Busy(Uses[s])
    THEN outcome = "skipped" /\ UNCHANGED pending
    ELSE \/ outcome \in {"refused", "raised"} /\ UNCHANGED pending
         \/ /\ outcome = "started"
            /\ pending[s] < MaxPending
            /\ pending' = [pending EXCEPT ![s] = @ + 1]

(* run_ids after a fire: the newest MaxTracked of them (_trim_runs).       *)
WithRun(rec, outcome) ==
    IF outcome = "started" /\ rec.runs < MaxTracked THEN [rec EXCEPT !.runs = @ + 1] ELSE rec

-----------------------------------------------------------------------------
(* Moving a slot on.                                                       *)

(* The first slot of next, next + delta, ... that is later than `time`.    *)
SlotAfter(next, delta, time) ==
    IF next > time THEN next ELSE next + ((time - next) \div delta + 1) * delta

(* _complete                                                               *)
Completed(rec) == [rec EXCEPT !.status = "completed", !.next = Never]

(* _runner_complete.                                                       *)
\* Mutations: a slot at the end date is not fired any more; one fire too many.
ExclusiveRunnerComplete(rec, next) ==
    IF rec.plan.count # Never THEN rec.done >= rec.plan.count
    ELSE rec.plan.until # Never /\ next >= rec.plan.until
OneMoreRunnerComplete(rec, next) ==
    IF rec.plan.count # Never THEN rec.done > rec.plan.count
    ELSE rec.plan.until # Never /\ next > rec.plan.until
RunnerComplete(rec, next) ==
    IF rec.plan.count # Never THEN rec.done >= rec.plan.count
    ELSE rec.plan.until # Never /\ next > rec.plan.until

(* _advance_past_now on a schedule that is resumed.                        *)
\* Mutation: the missed slot is kept.
KeepsMissedSlot(rec, time) == rec
AdvancePastNow(rec, time) ==
    LET next == SlotAfter(rec.next, rec.plan.delta, time)
    IN  IF rec.next = Never THEN rec
        ELSE IF rec.plan.until # Never /\ next > rec.plan.until THEN Completed(rec)
        ELSE [rec EXCEPT !.next = next]

(* What _tick_runner leaves of a schedule that was fired at `time`.        *)
Fired(rec, time, outcome) ==
    LET fired == [WithRun(rec, outcome) EXCEPT !.done = @ + 1]
        next  == SlotAfter(rec.next + rec.plan.delta, rec.plan.delta, time)
    IN  IF outcome = "raised" THEN [rec EXCEPT !.status = "error"]
        ELSE IF RunnerComplete(fired, next) THEN Completed(fired)
        ELSE [fired EXCEPT !.next = next]

-----------------------------------------------------------------------------
(* The scheduler task.                                                     *)

(* start(): the loop begins with a tick.                                   *)
Start ==
    /\ loop = "off"
    /\ loop' = "ready"
    /\ UNCHANGED <<disk, unborn, now, tick, wakeAt, wake, history>> /\ UNCHANGED runs

TickBegin ==
    /\ loop = "ready"
    /\ loop' = "tick"
    /\ tick' = [now |-> now, mem |-> disk, soonest |-> now + MaxSleep,
                todo |-> {s \in DOMAIN disk : disk[s].status = "active"}]
    /\ UNCHANGED <<disk, unborn, now, wakeAt, wake, history>> /\ UNCHANGED runs

(* The tick is done with s: its record is rec and it asks for a wake-up.   *)
TickDone(s, rec, soonest) ==
    tick' = [tick EXCEPT !.mem[s] = rec, !.todo = @ \ {s},
                         !.soonest = IF soonest # Never /\ soonest < @ THEN soonest ELSE @]

TickNothingNext(s) ==
    /\ loop = "tick" /\ s \in tick.todo
    /\ tick.mem[s].next = Never
    /\ TickDone(s, Completed(tick.mem[s]), Never)
    /\ UNCHANGED <<disk, unborn, now, loop, wakeAt, wake, history>> /\ UNCHANGED runs

TickNotDue(s) ==
    /\ loop = "tick" /\ s \in tick.todo
    /\ tick.now < tick.mem[s].next
    /\ TickDone(s, tick.mem[s], tick.mem[s].next)
    /\ UNCHANGED <<disk, unborn, now, loop, wakeAt, wake, history>> /\ UNCHANGED runs

TickFire(s) ==
    /\ loop = "tick" /\ s \in tick.todo
    /\ tick.mem[s].next # Never /\ tick.mem[s].next <= tick.now
    /\ \E outcome \in {"started", "skipped", "refused", "raised"} :
         LET rec == Fired(tick.mem[s], tick.now, outcome)
         IN  /\ FireRunner(s, outcome)
             /\ TickDone(s, rec, IF outcome = "raised" THEN tick.now + ErrorWake ELSE rec.next)
             /\ history' = IF outcome = "raised" THEN history
                           ELSE [history EXCEPT ![s] = WithFire(@, tick.mem[s].next)]
    /\ UNCHANGED <<disk, unborn, now, loop, wakeAt, wake, running, others>>

(* save_schedules when something changed, and the sleep of _run.           *)
TickSave ==
    /\ loop = "tick" /\ tick.todo = {}
    /\ disk' = tick.mem
    /\ loop' = "sleep"
    /\ wakeAt' = tick.soonest
    /\ tick' = NoTick
    /\ UNCHANGED <<unborn, now, wake, history>> /\ UNCHANGED runs

(* What a tick did is forgotten; what it fired it will fire again.         *)
Lose ==
    LET changed == {s \in DOMAIN tick.mem \cap DOMAIN disk : tick.mem[s] # disk[s]}
        refire(s) == tick.mem[s].done # disk[s].done
    IN  /\ \A s \in changed : history[s].lost < MaxLost
        /\ history' = [s \in Schedule |->
             IF s \in changed
             THEN [history[s] EXCEPT !.redo = @ \/ refire(s), !.lost = @ + 1]
             ELSE history[s]]

(* The write fails: _run logs it and repeats the tick 60 seconds later.    *)
\* Mutation: the exception ends the task.
DyingTickSaveFails ==
    /\ loop = "tick" /\ tick.todo = {}
    /\ tick.mem # disk
    /\ now < MaxTime
    /\ Lose
    /\ loop' = "dead"
    /\ tick' = NoTick
    /\ UNCHANGED <<disk, unborn, now, wakeAt, wake>> /\ UNCHANGED runs
TickSaveFails ==
    /\ loop = "tick" /\ tick.todo = {}
    /\ tick.mem # disk
    /\ now < MaxTime
    /\ Lose
    /\ loop' = "sleep"
    /\ wakeAt' = now + 1
    /\ tick' = NoTick
    /\ UNCHANGED <<disk, unborn, now, wake>> /\ UNCHANGED runs

(* wait_for(self._wake.wait(), timeout) ends; the event is cleared.        *)
WakeUp ==
    /\ loop = "sleep"
    /\ wake \/ now >= wakeAt
    /\ loop' = "ready"
    /\ wake' = FALSE
    /\ UNCHANGED <<disk, unborn, now, tick, wakeAt, history>> /\ UNCHANGED runs

TickStep(s) == TickNothingNext(s) \/ TickNotDue(s) \/ TickFire(s)
LoopStep == TickBegin \/ TickSave \/ TickSaveFails \/ WakeUp \/ \E s \in Schedule : TickStep(s)

-----------------------------------------------------------------------------
(* The endpoints.  notify() sets the wake-up event.                        *)

(* build_schedule computes the record before the lock is awaited, that is  *)
(* some time before, when a tick is under way.                             *)
Create(s, r, start) ==
    /\ LockFree /\ now <= OpTime
    /\ s \in unborn
    /\ unborn' = unborn \ {s}
    /\ \E at \in 0..now :
         LET anchor == ComputeAnchor(start, r, at)
             rec == [status |-> "active", plan |-> r, anchor |-> anchor, done |-> 0, runs |-> 0,
                     next |-> NextFutureSlot(anchor, r, at)]
         IN  disk' = [x \in DOMAIN disk \cup {s} |-> IF x = s THEN rec ELSE disk[x]]
    /\ wake' = TRUE
    /\ UNCHANGED <<now, loop, tick, wakeAt, history>> /\ UNCHANGED runs

Pause(s) ==
    /\ LockFree /\ now <= OpTime
    /\ s \in DOMAIN disk
    /\ disk[s].status # "completed"
    /\ disk' = [disk EXCEPT ![s].status = "paused"]
    /\ wake' = TRUE
    /\ UNCHANGED <<unborn, now, loop, tick, wakeAt, history>> /\ UNCHANGED runs

\* Mutation: nobody wakes the loop.
SilentResume(s) ==
    /\ LockFree /\ now <= OpTime
    /\ s \in DOMAIN disk
    /\ disk[s].status # "completed"
    /\ disk' = [disk EXCEPT ![s] = AdvancePastNow([@ EXCEPT !.status = "active"], now)]
    /\ history' = [history EXCEPT ![s].resumed = now]
    /\ UNCHANGED <<unborn, now, loop, tick, wakeAt, wake>> /\ UNCHANGED runs
Resume(s) ==
    /\ LockFree /\ now <= OpTime
    /\ s \in DOMAIN disk
    /\ disk[s].status # "completed"
    /\ disk' = [disk EXCEPT ![s] = AdvancePastNow([@ EXCEPT !.status = "active"], now)]
    /\ history' = [history EXCEPT ![s].resumed = now]
    /\ wake' = TRUE
    /\ UNCHANGED <<unborn, now, loop, tick, wakeAt>> /\ UNCHANGED runs

\* Mutation: delete does not wait for the tick.
UnlockedDelete(s) ==
    /\ loop # "off" /\ now <= OpTime
    /\ s \in DOMAIN disk
    /\ disk' = [x \in DOMAIN disk \ {s} |-> disk[x]]
    /\ history' = [history EXCEPT ![s] = NoHistory]
    /\ wake' = TRUE
    /\ UNCHANGED <<unborn, now, loop, tick, wakeAt>> /\ UNCHANGED runs
Delete(s) ==
    /\ LockFree /\ now <= OpTime
    /\ s \in DOMAIN disk
    /\ disk' = [x \in DOMAIN disk \ {s} |-> disk[x]]
    /\ history' = [history EXCEPT ![s] = NoHistory]
    /\ wake' = TRUE
    /\ UNCHANGED <<unborn, now, loop, tick, wakeAt>> /\ UNCHANGED runs

(* run_now fires a schedule of any status and leaves its plan alone.  It   *)
(* tells from the number of run_ids whether a run was started, and answers *)
(* with an error otherwise.                                                *)
RunNow(s) ==
    /\ LockFree /\ now <= OpTime
    /\ s \in DOMAIN disk
    /\ \E outcome \in {"started", "skipped", "refused"} :
         LET rec    == WithRun(disk[s], outcome)
             answer == IF rec.runs = disk[s].runs THEN "error" ELSE "ok"
         IN  /\ FireRunner(s, outcome)
             /\ disk' = [disk EXCEPT ![s] = rec]
             /\ wake' = (wake \/ answer = "ok")
             /\ history' = [history EXCEPT ![s].misled =
                              @ \/ (answer = "error" /\ outcome = "started")]
    /\ UNCHANGED <<unborn, now, loop, tick, wakeAt, running, others>>

-----------------------------------------------------------------------------
(* The environment.                                                        *)

Clock ==
    /\ now < MaxTime
    /\ now' = now + 1
    /\ UNCHANGED <<disk, unborn, loop, tick, wakeAt, wake, history>> /\ UNCHANGED runs

(* The process ends, by a crash or by stop(), which cancels the tick; the  *)
(* runs and the event go with it.                                          *)
Crash ==
    /\ loop # "off"
    /\ IF loop = "tick" THEN Lose ELSE UNCHANGED history
    /\ loop' = "off"
    /\ tick' = NoTick
    /\ wakeAt' = 0
    /\ wake' = FALSE
    /\ pending' = [s \in Schedule |-> 0]
    /\ running' = {}
    /\ others' = {}
    /\ UNCHANGED <<disk, unborn, now>>

Operator(s) ==
    \/ \E r \in Plans, start \in Starts : Create(s, r, start)
    \/ Pause(s) \/ Resume(s) \/ Delete(s) \/ RunNow(s)

Next ==
    \/ Start \/ LoopStep \/ Clock \/ Crash
    \/ \E s \in Schedule : Operator(s) \/ RunEnters(s) \/ RunEnds(s)
    \/ \E a \in Account : OtherTakes(a) \/ OtherLeaves(a)

Spec == Init /\ [][Next]_vars

(* Time passes and the loop's task is run when it is ready; nothing is     *)
(* assumed of operators, runs and accounts.                                *)
FairSpec == Spec /\ WF_vars(Clock) /\ WF_vars(LoopStep)

-----------------------------------------------------------------------------
(* A mapping of schedules as schedules.json holds it.                      *)
Stored(m) == DOMAIN m \subseteq Schedule /\ m \in [DOMAIN m -> Record]

(* The types of all variables.                                             *)
TypeOK ==
    /\ Stored(disk) /\ unborn \subseteq Schedule \ DOMAIN disk
    /\ now \in 0..MaxTime /\ wakeAt \in Nat /\ wake \in BOOLEAN
    /\ loop \in {"off", "ready", "tick", "sleep"}
    /\ tick = [now |-> tick.now, mem |-> tick.mem, todo |-> tick.todo, soonest |-> tick.soonest]
    /\ tick.now \in Nat /\ tick.soonest \in Nat /\ Stored(tick.mem)
    /\ tick.todo \subseteq DOMAIN tick.mem
    /\ pending \in [Schedule -> 0..MaxPending]
    /\ running \subseteq Schedule /\ others \subseteq Account
    /\ history \in [Schedule -> History]

FiresNow(s) == history'[s].fires > history[s].fires

(* The indices of all slots that NextFutureSlot may see before MaxTime.    *)
Indices == 0..(MaxTime + NativeHorizon + Margin)

(* No slot is due yet and, when the schedule was asked for, the next one   *)
(* was farther away than next_future_slot looks (recurrence.py:74-77),     *)
(* which answers None for that as it does for a plan that is over.         *)
OutOfReach(rec) ==
    /\ rec.done = 0
    /\ \E at \in 0..now : \A k \in Indices :
         InPlan(rec.anchor, rec.plan, k) =>
           \/ Slot(rec.anchor, rec.plan, k) <= at
           \/ Slot(rec.anchor, rec.plan, k) > at + NativeHorizon + Margin

(* The plan of a schedule has nothing left: its count is used up, or none  *)
(* of its slots is still to come.                                          *)
Over(rec) ==
    \/ rec.plan.count # Never /\ rec.done >= rec.plan.count
    \/ \A k \in Indices :
         InPlan(rec.anchor, rec.plan, k) => Slot(rec.anchor, rec.plan, k) <= now

(* "Schedules complete automatically when a count or end date is reached"  *)
(* (docs/ARCHITECTURE.md:118), and not before (schedules_service.py:667-   *)
(* 698): no pause, restart, failed save or late tick makes a plan end      *)
(* early, and neither does the look-ahead once a slot has been fired.  The *)
(* one plan that ends too early is one that never began: it was out of     *)
(* reach when it was asked for.                                            *)
CompletesOnlyWhenOver ==
    \A s \in DOMAIN disk :
        disk[s].status = "completed" => Over(disk[s]) \/ OutOfReach(disk[s])

(* No schedule is fired more often than its count, except that a tick that *)
(* was lost before it was saved may repeat a fire (lines 663, 683).        *)
CountKept ==
    \A s \in DOMAIN disk : disk[s].plan.count # Never =>
        history[s].fires <= disk[s].plan.count + history[s].lost

(* A slot is fired once, and older slots are never fired after it: missed  *)
(* slots are skipped, not replayed as a burst (docs/ARCHITECTURE.md:116),  *)
(* and a fire skipped for a busy account is not stacked                    *)
(* (schedules_service.py:704-706).  Only a lost tick repeats its own slot. *)
SlotsInOrder ==
    [][\A s \in Schedule : FiresNow(s) =>
         \/ history'[s].slot > history[s].slot
         \/ history[s].redo /\ history'[s].slot = history[s].slot]_vars

(* A resumed schedule "does not replay a backlog accumulated while it was  *)
(* paused" (schedules_service.py:588-590): every later fire is for a slot  *)
(* after the resume.                                                       *)
NoReplayAfterResume ==
    [][\A s \in Schedule : FiresNow(s) => history'[s].slot > history[s].resumed]_vars

(* Once a pause or a deletion has been answered the clock fires nothing    *)
(* until a resume: the tick works on a copy, but under the lock.           *)
QuietUnlessActive ==
    [][\A s \in Schedule : FiresNow(s) =>
         s \in DOMAIN disk /\ disk[s].status = "active"]_vars

(* A schedule that was deleted is not written back by a tick that had      *)
(* loaded it (lines 640-664).                                              *)
DeletedStaysDeleted ==
    [][\A s \in Schedule : s \notin unborn /\ s \notin DOMAIN disk => s \notin DOMAIN disk']_vars

(* The loop does not sleep past a slot: whatever operators do, and         *)
(* whenever they do it, the sleep ends by the next slot of every active    *)
(* schedule, or a wake-up is pending (lines 395-397, 621-634).             *)
SleepsInTime ==
    loop = "sleep" /\ ~wake =>
        \A s \in DOMAIN disk : disk[s].status = "active" /\ disk[s].next # Never =>
            wakeAt <= disk[s].next \/ wakeAt <= now + 1

(* "Could not start an immediate run." (schedules_service.py:513) is only  *)
(* said when none was started.                                             *)
ErrorMeansNotStarted == \A s \in Schedule : ~history[s].misled

Due(s) ==
    /\ s \in DOMAIN disk
    /\ disk[s].status = "active"
    /\ disk[s].next = Never \/ disk[s].next <= now

(* While the application stays open, every slot that has come is fired or  *)
(* skipped and every plan that is exhausted is completed, however busy the *)
(* account is and although a tick could not be saved: the loop neither     *)
(* dies (lines 625-627) nor misses a wake-up.                              *)
EverySlotIsServed ==
    <>[](loop # "off") => \A s \in Schedule : Due(s) ~> ~Due(s)
=============================================================================
