------------------------------ MODULE RunConsole ------------------------------
(* The web client's handling of queue runs: the poller of the active run       *)
(* (use-run-polling), the single-flight guards of the interface (guarded in    *)
(* App, runAction on the Actions screen, the running flag of the quick action  *)
(* prompt), the confirmation dialog, and every control that starts, steers,    *)
(* retries or removes a run.  The server is abstracted to the status of each   *)
(* run and the session its worker reserves.                                    *)
EXTENDS Naturals, FiniteSets, FiniteSetsExt

CONSTANTS
    Runs,        \* ids of the runs the server may create, taken in order
    NoRun,       \* null
    Accounts,    \* a run reserves the session of one account
    Verdicts,    \* the terminal statuses a worker reaches by itself; the client
                 \* treats them alike, so an instance may give one
    MaxJobs,     \* handlers in flight at one time
    MaxFaults    \* failed requests and server restarts in a behaviour

ASSUME RunsAssumption == Runs \subseteq Nat /\ NoRun \notin Runs
ASSUME BoundsAssumption == MaxJobs \in Nat /\ MaxFaults \in Nat

VARIABLES
    status,     \* the server's runs: status of each, "absent" before and after
    created,    \* the runs that were ever created: ids are not used twice
    holds,      \* the worker of the run is inside session_guard
    account,    \* whose session the run needs
    active,     \* activeRunId
    settled,    \* settledRef.current
    seen,       \* the phase in the polled data of the active run
    job,        \* the handler in flight in each single-flight slot
    announced,  \* how often the end of a run was flashed (history)
    faults      \* faults so far (bound)

server == <<status, created, holds, account>>
poller == <<active, settled, seen, announced>>
vars == <<server, poller, job, faults>>

TERMINAL_RUN_STATUSES ==
    {"completed", "failed", "canceled", "interrupted", "flood_wait"}
ASSUME VerdictsAssumption == Verdicts \subseteq TERMINAL_RUN_STATUSES
\* "flood_pausing" is flood_waiting with pause_requested: the one status the
\* server leaves alone when it sets the flag.
ACTIVE_RUN_STATUSES ==
    {"queued", "running", "canceling", "pausing", "paused", "flood_waiting",
     "flood_pausing"}
Statuses == ACTIVE_RUN_STATUSES \cup TERMINAL_RUN_STATUSES \cup {"absent"}

\* What the interface keeps of a status: the control it offers, or that it is over.
CanPause(st) == st \in {"queued", "running", "flood_waiting"}
CanResume(st) == st \in {"pausing", "paused", "flood_pausing"}
Phases == {"none", "pausable", "resumable", "canceling", "over"}
\* Mutant: a flood wait that resumes by itself is taken for the flood-wait stop.
PhaseFloodIsOver(st) ==
    CASE st \in TERMINAL_RUN_STATUSES \cup {"flood_waiting"} -> "over"
      [] CanResume(st) -> "resumable"
      [] CanPause(st) -> "pausable"
      [] OTHER -> "canceling"
Phase(st) ==
    CASE st \in TERMINAL_RUN_STATUSES -> "over"
      [] CanResume(st) -> "resumable"
      [] CanPause(st) -> "pausable"
      [] OTHER -> "canceling"
Slots == {"guarded", "action", "runner"}
Starts == {"run", "sync", "quick"}
Controls == {"pause", "resume", "cancel"}
RowOps == {"rowCancel", "delete", "retry", "clear", "refresh"}
Stages == {"idle", "ask", "sent", "await", "reload"}
Jobs == [op : Starts \cup Controls \cup RowOps \cup {"none"},
         run : Runs \cup {NoRun}, at : Stages]
Idle == [op |-> "none", run |-> NoRun, at |-> "idle"]

Free(s) == job[s].at = "idle"
\* A modal dialog covers the page: no control is reachable beneath it.
DialogOpen == \E s \in Slots : job[s].at = "ask"
Alive(r) == status[r] \in ACTIVE_RUN_STATUSES
Over(r) == status[r] \in TERMINAL_RUN_STATUSES
Unused == Runs \ created

Init ==
    /\ status = [r \in Runs |-> "absent"]
    /\ created = {}
    /\ holds = [r \in Runs |-> FALSE]
    /\ account \in [Runs -> Accounts]
    /\ active = NoRun /\ settled = FALSE /\ seen = "none"
    /\ job = [s \in Slots |-> Idle]
    /\ announced = [r \in Runs |-> 0]
    /\ faults = 0

-------------------------------------------------------------------------------
(* The server's workers, as far as the client can tell.                        *)

\* A run is marked running just before it waits for its session: "queued" and
\* "running" are alike to the client, so one step does both.
WorkerEnters(r) ==
    /\ Alive(r) /\ ~holds[r]
    /\ \A q \in Runs : holds[q] => account[q] # account[r]
    /\ holds' = [holds EXCEPT ![r] = TRUE]
    /\ status' = [status EXCEPT ![r] = IF @ = "queued" THEN "running" ELSE @]
    /\ UNCHANGED <<created, account, poller, job, faults>>

WorkerMoves(r, from, to) ==
    /\ holds[r] /\ status[r] = from
    /\ status' = [status EXCEPT ![r] = to]
    /\ UNCHANGED <<created, holds, account, poller, job, faults>>

\* A long flood wait is shown whatever the operator has asked for meanwhile.
WorkerFloods(r) ==
    \/ \E from \in {"running", "canceling"} : WorkerMoves(r, from, "flood_waiting")
    \/ WorkerMoves(r, "pausing", "flood_pausing")
WorkerProceeds(r) ==
    \/ WorkerMoves(r, "pausing", "paused")
    \/ WorkerMoves(r, "flood_waiting", "running")
    \/ WorkerMoves(r, "flood_pausing", "pausing")

WorkerEnds(r) ==
    /\ holds[r]
    /\ \/ /\ status[r] \in {"running", "pausing", "canceling"}
          /\ \E v \in Verdicts : status' = [status EXCEPT ![r] = v]
       \/ /\ status[r] = "canceling"
          /\ status' = [status EXCEPT ![r] = "canceled"]
    /\ holds' = [holds EXCEPT ![r] = FALSE]
    /\ UNCHANGED <<created, account, poller, job, faults>>

ServerRestarts ==
    /\ faults < MaxFaults /\ \E r \in Runs : Alive(r)
    /\ faults' = faults + 1
    /\ status' = [r \in Runs |-> IF Alive(r) THEN "interrupted" ELSE status[r]]
    /\ holds' = [r \in Runs |-> FALSE]
    /\ UNCHANGED <<created, account, poller, job>>

-------------------------------------------------------------------------------
(* Clicks.  A click on a busy guard is dropped, so it is no step.              *)

StartJob(s, op, r, at) ==
    /\ Free(s) /\ ~DialogOpen
    /\ Cardinality({t \in Slots : ~Free(t)}) < MaxJobs
    /\ job' = [job EXCEPT ![s] = [op |-> op, run |-> r, at |-> at]]
    /\ UNCHANGED <<server, poller, faults>>

\* RunPanel.runNow: off while an action is busy or a run is tracked; the
\* confirmation is always asked.
ClickRun == active = NoRun /\ StartJob("action", "run", NoRun, "ask")

\* RunControls: Resume or else Pause, as the last poll shows the run; Cancel.
Offered(op) ==
    /\ active # NoRun
    /\ \/ op = "resume" /\ seen = "resumable"
       \/ op = "pause" /\ seen = "pausable"
       \/ op = "cancel"
ClickControl(op) == Offered(op) /\ StartJob("guarded", op, active, "sent")

\* RunHistoryRow: the row may show an older status, so Cancel may be offered for
\* any run; Retry and Delete only for one that was already over.
ClickRow(op, r) ==
    /\ status[r] # "absent"
    /\ \/ op = "rowCancel" /\ StartJob("guarded", op, r, "sent")
       \/ op \in {"retry", "delete"} /\ Over(r) /\ StartJob("guarded", op, r, "ask")
ClickClear == StartJob("guarded", "clear", NoRun, "ask")
\* SyncPanel.run does not look at the active run.
ClickSync == StartJob("guarded", "sync", NoRun, "sent")
\* guarded(loadRuns), guarded(refresh)
ClickRefresh == StartJob("guarded", "refresh", NoRun, "reload")

\* runRowQuickAction and bulkQuickAction stay in guarded for the whole run; those
\* that destroy or leave ask first.
ClickQuick == \E at \in {"ask", "sent"} : StartJob("guarded", "quick", NoRun, at)
\* QuickActionRunner.run
ClickRunner == StartJob("runner", "quick", NoRun, "sent")

\* useAppDialog: onConfirm resolves true, onCancel null.
Done(s) == job' = [job EXCEPT ![s] = Idle]
AnswerDialog(s) ==
    /\ job[s].at = "ask"
    /\ job' = [job EXCEPT ![s].at = "sent"] \/ Done(s)
    /\ UNCHANGED <<server, poller, faults>>

-------------------------------------------------------------------------------
(* The server handles a request and the handler goes on with its answer.  A     *)
(* request that fails frees the slot: the catch and finally of guarded,         *)
(* runAction and the quick action prompt.                                       *)

\* Mutant: settledRef is not reset for the next run.
PollSettledRun(r) ==
    /\ active' = r /\ seen' = "none"
    /\ UNCHANGED <<settled, announced>>
\* pollQueueRun
pollQueueRun(r) ==
    /\ active' = r /\ settled' = FALSE /\ seen' = "none"
    /\ UNCHANGED announced

Create ==
    /\ status' = [status EXCEPT ![Min(Unused)] = "queued"]
    /\ created' = created \cup {Min(Unused)}
    /\ UNCHANGED <<holds, account>>
Refuse(s) == Done(s) /\ UNCHANGED <<server, poller>>
Goes(s, at) == job' = [job EXCEPT ![s].at = at]

\* A payload may be refused; Runs bounds how many are accepted.
ServeStart(s) ==
    \/ Refuse(s)
    \/ /\ Unused # {} /\ Create
       /\ \/ job[s].op \in {"run", "sync"} /\ pollQueueRun(Min(Unused)) /\ Done(s)
          \/ /\ job[s].op = "quick" /\ UNCHANGED poller
             /\ job' = [job EXCEPT ![s].at = "await", ![s].run = Min(Unused)]

Steered(op, st) ==
    CASE op \in {"cancel", "rowCancel"} -> "canceling"
      [] op = "pause" -> IF st \in {"flood_waiting", "flood_pausing"} THEN "flood_pausing"
                         ELSE IF st = "paused" THEN st ELSE "pausing"
      [] op = "resume" -> IF st = "flood_pausing" THEN "flood_waiting"
                          ELSE IF st \in {"pausing", "paused"} THEN "running" ELSE st
ServeControl(s) ==
    LET op == job[s].op
        r == job[s].run IN
    /\ op \in Controls \cup {"rowCancel"}
    /\ IF Alive(r)
       THEN /\ status' = [status EXCEPT ![r] = Steered(op, @)]
            /\ UNCHANGED <<created, holds, account, poller>>
            /\ IF op \in {"pause", "resume"} THEN Done(s) ELSE Goes(s, "reload")
       ELSE IF Over(r) /\ op \in {"cancel", "rowCancel"}
       THEN Goes(s, "reload") /\ UNCHANGED <<server, poller>>
       ELSE Refuse(s)

Busy == \E q \in Runs : Alive(q)
Removable(op, r) == IF op = "clear" THEN ~Busy ELSE op = "delete" /\ Over(r)
Retriable(op, r) == op = "retry" /\ Over(r) /\ ~Busy /\ Unused # {}
ServeHistory(s) ==
    LET op == job[s].op
        r == job[s].run IN
    /\ op \in {"delete", "clear", "retry"}
    /\ UNCHANGED poller
    /\ \/ /\ Removable(op, r)
          /\ status' = [q \in Runs |-> IF op = "clear" \/ q = r THEN "absent" ELSE status[q]]
          /\ UNCHANGED <<created, holds, account>>
          /\ Goes(s, "reload")
       \/ /\ Retriable(op, r) /\ Create
          /\ job' = [job EXCEPT ![s].at = "reload", ![s].run = Min(Unused)]
       \/ /\ ~Removable(op, r) /\ ~Retriable(op, r)
          /\ Refuse(s)

Serve(s) ==
    /\ job[s].at = "sent"
    /\ \/ job[s].op \in Starts /\ ServeStart(s)
       \/ ServeControl(s)
       \/ ServeHistory(s)
    /\ UNCHANGED faults

\* The request never arrives, or a later poll or reload of the handler fails; a
\* retry whose reload fails is not polled.
LoseRequest(s) ==
    /\ job[s].at \in {"sent", "await", "reload"} /\ faults < MaxFaults
    /\ faults' = faults + 1
    /\ Done(s) /\ UNCHANGED <<server, poller>>

\* Mutant: the loop swallows the error of a run that is gone.
AwaitRunWhatever(s) ==
    /\ job[s].at = "await" /\ Over(job[s].run)
    /\ Goes(s, "reload")
    /\ UNCHANGED <<server, poller, faults>>
\* awaitQueueRun: loops until the run is over; a run that is gone answers 404.
AwaitRun(s) ==
    /\ job[s].at = "await"
    /\ ~Alive(job[s].run)
    /\ IF Over(job[s].run) THEN Goes(s, "reload") ELSE Done(s)
    /\ UNCHANGED <<server, poller, faults>>

\* loadRuns or refresh was awaited; only then does a retry start polling.
HandleReload(s) ==
    /\ job[s].at = "reload"
    /\ IF job[s].op = "retry" THEN pollQueueRun(job[s].run) ELSE UNCHANGED poller
    /\ Done(s)
    /\ UNCHANGED <<server, faults>>

-------------------------------------------------------------------------------
(* useRunPolling                                                               *)

\* A poll every 1.2 s until the run is over.  The data reaches the query and the
\* effects run in the same commit: a terminal run is announced and cleared, once.
\* Mutant: a run that is being canceled counts as finished.
SettlesEarly(ph) == ph \in {"over", "canceling"} /\ ~settled
Settles(ph) == ph = "over" /\ ~settled
PollAnswered ==
    /\ active # NoRun /\ seen # "over" /\ status[active] # "absent"
    /\ seen' = Phase(status[active])
    /\ IF Settles(seen')
       THEN /\ settled' = TRUE
            /\ announced' = [announced EXCEPT ![active] = @ + 1]
            /\ active' = NoRun
       ELSE UNCHANGED <<settled, announced, active>>
    /\ UNCHANGED <<server, job, faults>>

\* The request and its retries fail, or the run is no longer in the history.
PollIsError ==
    /\ active # NoRun /\ ~settled
    /\ \/ status[active] = "absent" /\ UNCHANGED faults
       \/ faults < MaxFaults /\ faults' = faults + 1
    /\ settled' = TRUE /\ active' = NoRun
    /\ UNCHANGED <<server, seen, announced, job>>

-------------------------------------------------------------------------------
Worker(r) == WorkerEnters(r) \/ WorkerProceeds(r) \/ WorkerEnds(r)
Handler(s) == Serve(s) \/ AwaitRun(s) \/ HandleReload(s)
Poller == PollAnswered \/ PollIsError
Click ==
    \/ ClickRun \/ ClickClear \/ ClickRefresh \/ ClickSync \/ ClickQuick \/ ClickRunner
    \/ \E op \in Controls : ClickControl(op)
    \/ \E op \in RowOps, r \in Runs : ClickRow(op, r)

Next ==
    \/ \E r \in Runs : Worker(r) \/ WorkerFloods(r)
    \/ ServerRestarts
    \/ Click
    \/ \E s \in Slots : AnswerDialog(s) \/ Handler(s) \/ LoseRequest(s)
    \/ Poller

\* The server works, the network answers, timers fire and the operator answers
\* an open dialog; nobody is obliged to press a button.  A run enters and ends
\* once, so fairness to some run is fairness to each.
Fairness ==
    /\ WF_vars(\E r \in Runs : WorkerEnters(r)) /\ SF_vars(\E r \in Runs : WorkerEnds(r))
    /\ \A r \in Runs : WF_vars(WorkerProceeds(r))
    /\ \A s \in Slots : WF_vars(Handler(s) \/ AnswerDialog(s))
    /\ WF_vars(Poller)
Spec == Init /\ [][Next]_vars /\ Fairness

-------------------------------------------------------------------------------
(* Properties                                                                  *)

TypeOK ==
    /\ status \in [Runs -> Statuses] /\ created \subseteq Runs
    /\ holds \in [Runs -> BOOLEAN] /\ account \in [Runs -> Accounts]
    /\ active \in Runs \cup {NoRun} /\ settled \in BOOLEAN /\ seen \in Phases
    /\ job \in [Slots -> Jobs]
    /\ announced \in [Runs -> Nat] /\ faults \in 0..MaxFaults

\* The end of a run is flashed at most once, and only when the run is over at
\* the server (or was over and has been removed from the history since).
AnnouncedOnceWhenOver ==
    \A r \in Runs : /\ announced[r] <= 1
                    /\ announced[r] = 1 => ~Alive(r) /\ active # r

\* A live run leaves the banner only for a newer run, or when polling failed:
\* no status short of terminal ends the tracking, so its controls stay in reach.
TrackedUntilOver ==
    [][\A r \in Runs : (active = r /\ active' # r /\ Alive(r))
            => (active' \in Runs \/ faults' > faults)]_vars

\* Some run is parked: it keeps its session until somebody resumes or cancels it.
Parked == \E r \in Runs : status[r] = "paused"

\* Tracking ends: unless a parked run holds everything up, the banner is
\* eventually cleared, and the Run button is enabled again.
TrackingEnds == active # NoRun ~> (active = NoRun \/ Parked)

\* Every handler lets go of its single-flight guard, also when its requests are
\* lost, its run disappears or the server restarts, unless a run is parked.
EveryGuardIsReleased == \A s \in Slots : ~Free(s) ~> (Free(s) \/ Parked)

\* An operator who keeps pressing Resume and Cancel.
InsistentOperator == \A op \in {"resume", "cancel"} : SF_vars(ClickControl(op))
InsistentSpec == Spec /\ InsistentOperator
\* What the banner says of a paused run: "Sessions stay reserved until you
\* resume or cancel" - so pressing the buttons must free it.
ParkedRunCanBeFreed ==
    \A r \in Runs : (status[r] = "paused" /\ active = r)
                        ~> (status[r] # "paused" \/ active # r)
===============================================================================
