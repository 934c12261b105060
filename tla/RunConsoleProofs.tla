----------------------------- MODULE RunConsoleProofs -----------------------------
(* Proofs about RunConsole, for every number of runs and accounts.              *)
EXTENDS RunConsole, WellFoundedInduction, TLAPS

-------------------------------------------------------------------------------
(* Types.                                                                      *)

\* The id of the next run is one that was not used.
LEMMA NextIdIsUnused == ASSUME Unused # {} PROVE Min(Unused) \in Unused
<1>1. Unused \subseteq Nat
  BY RunsAssumption DEF Unused
<1>2. PICK n \in Unused : \A y \in Unused : ~ (<<y, n>> \in OpToRel(<, Nat))
  BY <1>1, NatLessThanWellFounded, WFMin, Zenon
<1>3. \A y \in Unused : ~ (y < n)
  BY <1>1, <1>2 DEF OpToRel
<1>4. \A y \in Unused : n <= y
  BY <1>1, <1>3
<1>. QED  BY <1>4 DEF Min

LEMMA RunIsAbsent == NoRun \notin Runs /\ TERMINAL_RUN_STATUSES \subseteq Statuses
  BY RunsAssumption DEF Statuses

LEMMA NewJob ==
    ASSUME job \in [Slots -> Jobs], NEW s \in Slots,
           NEW op \in Starts \cup Controls \cup RowOps \cup {"none"},
           NEW r \in Runs \cup {NoRun}, NEW at \in Stages
    PROVE  [job EXCEPT ![s] = [op |-> op, run |-> r, at |-> at]] \in [Slots -> Jobs]
<1>1. [op |-> op, run |-> r, at |-> at] \in Jobs
  BY DEF Jobs
<1>. QED  BY <1>1

LEMMA IdleJob ==
    ASSUME job \in [Slots -> Jobs], NEW s \in Slots
    PROVE  [job EXCEPT ![s] = Idle] \in [Slots -> Jobs]
  BY NewJob DEF Idle, Stages

LEMMA StagedJob ==
    ASSUME job \in [Slots -> Jobs], NEW s \in Slots, NEW at \in Stages
    PROVE  [job EXCEPT ![s].at = at] \in [Slots -> Jobs]
<1>1. job[s] \in Jobs
  OBVIOUS
<1>2. [job[s] EXCEPT !.at = at] \in Jobs
  BY <1>1 DEF Jobs
<1>. QED  BY <1>2

LEMMA NamedJob ==
    ASSUME job \in [Slots -> Jobs], NEW s \in Slots, NEW at \in Stages, NEW r \in Runs
    PROVE  [job EXCEPT ![s].at = at, ![s].run = r] \in [Slots -> Jobs]
<1>1. job[s] \in Jobs
  OBVIOUS
<1>2. [[job[s] EXCEPT !.at = at] EXCEPT !.run = r] \in Jobs
  BY <1>1 DEF Jobs
<1>3. [job EXCEPT ![s].at = at, ![s].run = r]
        = [job EXCEPT ![s] = [[job[s] EXCEPT !.at = at] EXCEPT !.run = r]]
  OBVIOUS
<1>. QED  BY <1>2, <1>3

ServerTypes ==
    /\ status \in [Runs -> Statuses] /\ created \subseteq Runs
    /\ holds \in [Runs -> BOOLEAN] /\ account \in [Runs -> Accounts]
PollerTypes ==
    /\ active \in Runs \cup {NoRun} /\ settled \in BOOLEAN /\ seen \in Phases
    /\ announced \in [Runs -> Nat]
JobTypes == job \in [Slots -> Jobs]
FaultTypes == faults \in 0..MaxFaults

LEMMA TypeParts == TypeOK <=> ServerTypes /\ PollerTypes /\ JobTypes /\ FaultTypes
  BY DEF TypeOK, ServerTypes, PollerTypes, JobTypes, FaultTypes

LEMMA PollerKept == PollerTypes /\ UNCHANGED poller => PollerTypes'
  BY DEF PollerTypes, poller
LEMMA ServerKept == ServerTypes /\ UNCHANGED server => ServerTypes'
  BY DEF ServerTypes, server

\* A step of the server's workers, or a restart.
LEMMA WorkerTypes ==
    ASSUME ServerTypes, NEW r \in Runs, Worker(r) \/ WorkerFloods(r)
    PROVE  ServerTypes' /\ UNCHANGED <<created, account, poller, job, faults>>
<1>1. status \in [Runs -> Statuses] /\ created \subseteq Runs
      /\ holds \in [Runs -> BOOLEAN] /\ account \in [Runs -> Accounts]
  BY DEF ServerTypes
<1>2. CASE WorkerEnters(r)
  <2>1. status' \in [Runs -> Statuses]
    BY <1>1, <1>2 DEF WorkerEnters, Statuses, ACTIVE_RUN_STATUSES
  <2>. QED  BY <1>1, <1>2, <2>1 DEF WorkerEnters, ServerTypes
<1>3. CASE WorkerEnds(r)
  <2>1. status' \in [Runs -> Statuses]
    BY <1>1, <1>3, VerdictsAssumption DEF WorkerEnds, Statuses, TERMINAL_RUN_STATUSES
  <2>. QED  BY <1>1, <1>3, <2>1 DEF WorkerEnds, ServerTypes
<1>4. CASE WorkerProceeds(r) \/ WorkerFloods(r)
  <2>1. \E from, to \in Statuses : WorkerMoves(r, from, to)
    BY <1>4 DEF WorkerProceeds, WorkerFloods, Statuses, ACTIVE_RUN_STATUSES
  <2>2. PICK from \in Statuses, to \in Statuses : WorkerMoves(r, from, to)
    BY <2>1
  <2>3. status' \in [Runs -> Statuses]
    BY <1>1, <2>2 DEF WorkerMoves
  <2>. QED  BY <1>1, <2>2, <2>3 DEF WorkerMoves, ServerTypes
<1>. QED  BY <1>2, <1>3, <1>4 DEF Worker

LEMMA RestartTypes == ASSUME ServerTypes, FaultTypes, ServerRestarts
                      PROVE  ServerTypes' /\ FaultTypes'
<1>1. status' \in [Runs -> Statuses]
  BY DEF ServerRestarts, ServerTypes, Statuses, TERMINAL_RUN_STATUSES
<1>2. FaultTypes'
  BY BoundsAssumption DEF ServerRestarts, FaultTypes
<1>. QED  BY <1>1, <1>2 DEF ServerRestarts, ServerTypes

\* What a click does: one free slot gets a job; nothing else changes.
Clicked ==
    \E s \in Slots, op \in Starts \cup Controls \cup RowOps, r \in Runs \cup {NoRun},
       at \in Stages \ {"idle"} :
        /\ StartJob(s, op, r, at)
        /\ op = "retry" => s = "guarded" /\ at \notin {"await", "reload"}
LEMMA ClicksStart == ASSUME PollerTypes, Click PROVE Clicked
<1>1. active \in Runs \cup {NoRun}
  BY DEF PollerTypes
<1>. USE DEF Slots, Starts, Controls, RowOps, Stages
<1>2. CASE ClickRun \/ ClickSync \/ ClickQuick \/ ClickRunner
  BY <1>2 DEF ClickRun, ClickSync, ClickQuick, ClickRunner, Clicked
<1>3. CASE ClickClear \/ ClickRefresh
  BY <1>3 DEF ClickClear, ClickRefresh, Clicked
<1>4. CASE \E op \in Controls : ClickControl(op)
  BY <1>1, <1>4 DEF ClickControl, Clicked
<1>5. CASE \E op \in RowOps, r \in Runs : ClickRow(op, r)
  BY <1>5 DEF ClickRow, Clicked
<1>. QED  BY <1>2, <1>3, <1>4, <1>5 DEF Click

LEMMA ClickTypes == ASSUME JobTypes, Clicked PROVE JobTypes' /\ UNCHANGED <<server, poller, faults>>
<1>1. PICK s \in Slots, op \in Starts \cup Controls \cup RowOps, r \in Runs \cup {NoRun},
           at \in Stages : StartJob(s, op, r, at)
  BY DEF Clicked
<1>. QED  BY <1>1, NewJob DEF StartJob, JobTypes

\* The created run and the tracked run have their types.
LEMMA CreateTypes == ASSUME ServerTypes, Unused # {}, Create
                     PROVE  ServerTypes' /\ Min(Unused) \in Runs \ created
<1>1. Min(Unused) \in Runs \ created
  BY NextIdIsUnused DEF Unused
<1>2. status' \in [Runs -> Statuses]
  BY <1>1 DEF Create, ServerTypes, Statuses, ACTIVE_RUN_STATUSES
<1>. QED  BY <1>1, <1>2 DEF Create, ServerTypes

LEMMA PollTypes == ASSUME PollerTypes, NEW r \in Runs, pollQueueRun(r) PROVE PollerTypes'
  BY DEF PollerTypes, pollQueueRun, Phases

LEMMA DoneTypes == ASSUME JobTypes, NEW s \in Slots, Done(s) PROVE JobTypes'
  BY IdleJob DEF JobTypes, Done
LEMMA GoesTypes == ASSUME JobTypes, NEW s \in Slots, NEW at \in Stages, Goes(s, at) PROVE JobTypes'
  BY StagedJob DEF JobTypes, Goes

LEMMA StartTypes ==
    ASSUME ServerTypes, PollerTypes, JobTypes, NEW s \in Slots, ServeStart(s)
    PROVE  ServerTypes' /\ PollerTypes' /\ JobTypes'
<1>1. CASE Refuse(s)
  BY <1>1, ServerKept, PollerKept, DoneTypes DEF Refuse
<1>2. CASE Unused # {} /\ Create /\ pollQueueRun(Min(Unused)) /\ Done(s)
  BY <1>2, CreateTypes, PollTypes, DoneTypes
<1>3. CASE /\ Unused # {} /\ Create /\ UNCHANGED poller
           /\ job' = [job EXCEPT ![s].at = "await", ![s].run = Min(Unused)]
  <2>1. ServerTypes' /\ Min(Unused) \in Runs
    BY <1>3, CreateTypes
  <2>2. JobTypes'
    BY <1>3, <2>1, NamedJob DEF JobTypes, Stages
  <2>. QED  BY <1>3, <2>1, <2>2, PollerKept
<1>. QED  BY <1>1, <1>2, <1>3 DEF ServeStart

LEMMA SteeredTypes ==
    ASSUME NEW op \in Controls \cup {"rowCancel"}, NEW st \in ACTIVE_RUN_STATUSES
    PROVE  Steered(op, st) \in ACTIVE_RUN_STATUSES
  BY DEF Steered, Controls, ACTIVE_RUN_STATUSES

LEMMA ControlTypes ==
    ASSUME ServerTypes, PollerTypes, JobTypes, NEW s \in Slots, ServeControl(s)
    PROVE  ServerTypes' /\ PollerTypes' /\ JobTypes'
<1>. DEFINE op == job[s].op
            r == job[s].run
<1>1. op \in Controls \cup {"rowCancel"}
  BY DEF ServeControl
<1>2. CASE Alive(r)
  <2>1. /\ status' = [status EXCEPT ![r] = Steered(op, @)]
        /\ UNCHANGED <<created, holds, account, poller>>
        /\ Done(s) \/ Goes(s, "reload")
    BY <1>2 DEF ServeControl
  <2>2. status' \in [Runs -> Statuses]
    BY <1>1, <1>2, <2>1, SteeredTypes DEF Alive, ServerTypes, Statuses
  <2>3. JobTypes'
    BY <2>1, DoneTypes, GoesTypes DEF Stages
  <2>. QED  BY <2>1, <2>2, <2>3, PollerKept DEF ServerTypes
<1>3. CASE ~Alive(r)
  <2>1. UNCHANGED <<server, poller>> /\ (Done(s) \/ Goes(s, "reload"))
    BY <1>3 DEF ServeControl, Refuse
  <2>2. JobTypes'
    BY <2>1, DoneTypes, GoesTypes DEF Stages
  <2>. QED  BY <2>1, <2>2, PollerKept, ServerKept
<1>. QED  BY <1>2, <1>3

LEMMA HistoryTypes ==
    ASSUME ServerTypes, PollerTypes, JobTypes, NEW s \in Slots, ServeHistory(s)
    PROVE  ServerTypes' /\ PollerTypes' /\ JobTypes'
<1>. DEFINE op == job[s].op
            r == job[s].run
<1>1. PollerTypes'
  BY PollerKept DEF ServeHistory
<1>2. CASE Removable(op, r) /\ Goes(s, "reload") /\ UNCHANGED <<created, holds, account>>
           /\ status' = [q \in Runs |-> IF op = "clear" \/ q = r THEN "absent" ELSE status[q]]
  <2>1. status' \in [Runs -> Statuses]
    BY <1>2 DEF ServerTypes, Statuses
  <2>. QED  BY <1>1, <1>2, <2>1, GoesTypes DEF ServerTypes, Stages
<1>3. CASE Retriable(op, r) /\ Create
           /\ job' = [job EXCEPT ![s].at = "reload", ![s].run = Min(Unused)]
  <2>1. ServerTypes' /\ Min(Unused) \in Runs
    BY <1>3, CreateTypes DEF Retriable
  <2>2. JobTypes'
    BY <1>3, <2>1, NamedJob DEF JobTypes, Stages
  <2>. QED  BY <1>1, <2>1, <2>2
<1>4. CASE Refuse(s)
  BY <1>1, <1>4, ServerKept, DoneTypes DEF Refuse
<1>. QED  BY <1>2, <1>3, <1>4 DEF ServeHistory

-------------------------------------------------------------------------------
(* The invariant.  A run that a retry has created is polled only when the       *)
(* reload of the history has been awaited; until then nobody has announced it.  *)

NewIsUnannounced ==
    /\ active \in created \cup {NoRun}
    /\ \A r \in Runs \ created : announced[r] = 0
RetryPending ==
    \A s \in Slots : job[s].op = "retry" =>
        /\ s = "guarded" /\ job[s].at # "await"
        /\ job[s].at = "reload" => /\ job[s].run \in created
                                   /\ announced[job[s].run] = 0
                                   /\ active # job[s].run
Books == AnnouncedOnceWhenOver /\ NewIsUnannounced /\ RetryPending
IInv == TypeOK /\ Books

\* A step of the server that revives no run keeps the books.
LEMMA QuietServer ==
    ASSUME Books, UNCHANGED <<created, poller, job>>,
           \A r \in Runs : Alive(r)' => Alive(r)
    PROVE  Books'
<1>1. UNCHANGED <<active, announced>>
  BY DEF poller
<1>2. AnnouncedOnceWhenOver'
  BY <1>1 DEF Books, AnnouncedOnceWhenOver
<1>3. NewIsUnannounced' /\ RetryPending'
  BY <1>1 DEF Books, NewIsUnannounced, RetryPending
<1>. QED  BY <1>2, <1>3 DEF Books

\* A step of a handler alone keeps them when it brings no retry to its reload.
LEMMA QuietHandler ==
    ASSUME Books, JobTypes, UNCHANGED <<server, poller>>, NEW s \in Slots, NEW j,
           job' = [job EXCEPT ![s] = j],
           j.op = "retry" => s = "guarded" /\ j.at \notin {"await", "reload"}
    PROVE  Books'
<1>1. UNCHANGED <<active, announced, created, status>>
  BY DEF poller, server
<1>2. AnnouncedOnceWhenOver' /\ NewIsUnannounced'
  BY <1>1 DEF Books, AnnouncedOnceWhenOver, NewIsUnannounced, Alive
<1>3. \A t \in Slots : job'[t] = IF t = s THEN j ELSE job[t]
  BY DEF JobTypes
<1>4. RetryPending'
  BY <1>1, <1>3 DEF Books, RetryPending
<1>. QED  BY <1>2, <1>4 DEF Books

LEMMA DoneKeepsBooks ==
    ASSUME Books, JobTypes, UNCHANGED <<server, poller>>, NEW s \in Slots, Done(s)
    PROVE  Books'
  BY QuietHandler DEF Done, Idle

\* A handler other than a retry goes on, or a dialog is answered.
LEMMA GoesKeepsBooks ==
    ASSUME Books, JobTypes, UNCHANGED <<server, poller>>, NEW s \in Slots, NEW at \in Stages,
           Goes(s, at), job[s].op = "retry" => at \notin {"await", "reload"}
    PROVE  Books'
<1>. DEFINE j == [job[s] EXCEPT !.at = at]
<1>1. job[s] \in Jobs
  BY DEF JobTypes
<1>2. job' = [job EXCEPT ![s] = j] /\ j.op = job[s].op /\ j.at = at
  BY <1>1 DEF Goes, Jobs
<1>3. j.op = "retry" => s = "guarded" /\ j.at \notin {"await", "reload"}
  BY <1>2 DEF Books, RetryPending
<1>. HIDE DEF j
<1>. QED  BY <1>2, <1>3, QuietHandler

\* A new run is tracked by a handler that ends, or awaited by one that goes on.
LEMMA NewRunKeepsBooks ==
    ASSUME Books, ServerTypes, PollerTypes, JobTypes, Unused # {}, Create, NEW s \in Slots,
           NEW j \in Jobs, job' = [job EXCEPT ![s] = j],
           j.op = "retry" => s = "guarded" /\ j.at # "await" /\ j.run = Min(Unused),
           \/ j.op # "retry" /\ pollQueueRun(Min(Unused))
           \/ UNCHANGED poller
    PROVE  Books'
<1>. DEFINE n == Min(Unused)
<1>1. n \in Runs \ created
  BY CreateTypes
<1>2. created' = created \cup {n} /\ \A r \in Runs : r # n => status'[r] = status[r]
  BY <1>1 DEF Create, ServerTypes
<1>3. announced' = announced /\ active' \in {active, n} /\ (j.op = "retry" => active' = active)
  BY DEF pollQueueRun, poller
<1>4. announced[n] = 0 /\ active # n
  BY <1>1, RunIsAbsent DEF Books, NewIsUnannounced
<1>5. AnnouncedOnceWhenOver'
  BY <1>1, <1>2, <1>3, <1>4 DEF Books, AnnouncedOnceWhenOver, Alive
<1>6. NewIsUnannounced'
  BY <1>1, <1>2, <1>3 DEF Books, NewIsUnannounced
<1>7. RetryPending'
  <2>1. SUFFICES ASSUME NEW t \in Slots, job'[t].op = "retry"
                 PROVE  /\ t = "guarded" /\ job'[t].at # "await"
                        /\ job'[t].at = "reload" => /\ job'[t].run \in created'
                                                    /\ announced'[job'[t].run] = 0
                                                    /\ active' # job'[t].run
    BY DEF RetryPending
  <2>2. CASE t = s
    <3>1. job'[t] = j
      BY <2>2 DEF JobTypes
    <3>. QED  BY <1>2, <1>3, <1>4, <2>1, <2>2, <3>1
  <2>3. CASE t # s
    <3>1. job'[t] = job[t]
      BY <2>3 DEF JobTypes
    <3>2. job[t].at = "reload" => job[t].run # n
      BY <1>1, <2>1, <3>1 DEF Books, RetryPending
    <3>. QED  BY <1>2, <1>3, <2>1, <3>1, <3>2 DEF Books, RetryPending
  <2>. QED  BY <2>2, <2>3
<1>. QED  BY <1>5, <1>6, <1>7 DEF Books

LEMMA WorkerKeepsBooks ==
    ASSUME Books, ServerTypes, NEW r \in Runs, Worker(r) \/ WorkerFloods(r)
    PROVE  Books'
<1>1. UNCHANGED <<created, poller, job>>
  BY WorkerTypes
<1>2. Alive(r)
  BY DEF Worker, WorkerFloods, WorkerEnters, WorkerProceeds, WorkerMoves, WorkerEnds, Alive,
         ACTIVE_RUN_STATUSES
<1>3. \A q \in Runs : q # r => status'[q] = status[q]
  BY DEF Worker, WorkerFloods, WorkerEnters, WorkerProceeds, WorkerMoves, WorkerEnds, ServerTypes
<1>. QED  BY <1>1, <1>2, <1>3, QuietServer DEF Alive

LEMMA RestartKeepsBooks == ASSUME Books, ServerRestarts PROVE Books'
<1>1. \A r \in Runs : Alive(r)' => Alive(r)
  BY DEF ServerRestarts, Alive
<1>. QED  BY <1>1, QuietServer DEF ServerRestarts

LEMMA ClickKeepsBooks == ASSUME Books, JobTypes, Clicked PROVE Books'
<1>1. PICK s \in Slots, op \in Starts \cup Controls \cup RowOps, r \in Runs \cup {NoRun},
           at \in Stages \ {"idle"} :
        StartJob(s, op, r, at) /\ (op = "retry" => s = "guarded" /\ at \notin {"await", "reload"})
  BY DEF Clicked
<1>. DEFINE j == [op |-> op, run |-> r, at |-> at]
<1>2. job' = [job EXCEPT ![s] = j] /\ UNCHANGED <<server, poller>>
  BY <1>1 DEF StartJob
<1>3. j.op = "retry" => s = "guarded" /\ j.at \notin {"await", "reload"}
  BY <1>1
<1>. HIDE DEF j
<1>. QED  BY <1>2, <1>3, QuietHandler

LEMMA StartKeepsBooks ==
    ASSUME Books, ServerTypes, PollerTypes, JobTypes, NEW s \in Slots,
           job[s].op \in Starts, ServeStart(s)
    PROVE  Books'
<1>1. job[s] \in Jobs
  BY DEF JobTypes
<1>2. CASE Refuse(s)
  BY <1>2, DoneKeepsBooks DEF Refuse
<1>3. CASE Unused # {} /\ Create /\ pollQueueRun(Min(Unused)) /\ Done(s)
  <2>1. Idle \in Jobs /\ Idle.op # "retry"
    BY DEF Idle, Jobs, Stages
  <2>. QED  BY <1>3, <2>1, NewRunKeepsBooks DEF Done
<1>4. CASE /\ Unused # {} /\ Create /\ UNCHANGED poller
           /\ job' = [job EXCEPT ![s].at = "await", ![s].run = Min(Unused)]
  <2>. DEFINE j == [[job[s] EXCEPT !.at = "await"] EXCEPT !.run = Min(Unused)]
  <2>1. Min(Unused) \in Runs
    BY <1>4, CreateTypes
  <2>2. j \in Jobs /\ j.op = job[s].op /\ j.op # "retry"
    BY <1>1, <2>1 DEF Jobs, Stages, Starts
  <2>3. job' = [job EXCEPT ![s] = j]
    BY <1>4 DEF JobTypes
  <2>. HIDE DEF j
  <2>. QED  BY <1>4, <2>2, <2>3, NewRunKeepsBooks
<1>. QED  BY <1>2, <1>3, <1>4 DEF ServeStart

LEMMA ControlKeepsBooks ==
    ASSUME Books, ServerTypes, JobTypes, NEW s \in Slots, ServeControl(s)
    PROVE  Books'
<1>. DEFINE r == job[s].run
<1>1. job[s].op \in Controls \cup {"rowCancel"}
  BY DEF ServeControl
<1>2. job[s].op # "retry"
  BY <1>1 DEF Controls
<1>3. CASE Alive(r)
  <2>1. /\ status' = [status EXCEPT ![r] = Steered(job[s].op, @)]
        /\ UNCHANGED <<created, poller>>
        /\ Done(s) \/ Goes(s, "reload")
    BY <1>3 DEF ServeControl
  <2>2. \A q \in Runs : Alive(q)' => Alive(q)
    BY <1>3, <2>1 DEF ServerTypes, Alive
  <2>3. UNCHANGED <<active, announced>>
    BY <2>1 DEF poller
  <2>4. AnnouncedOnceWhenOver' /\ NewIsUnannounced'
    BY <2>1, <2>2, <2>3 DEF Books, AnnouncedOnceWhenOver, NewIsUnannounced
  <2>5. \A t \in Slots : t # s => job'[t] = job[t]
    BY <2>1 DEF Done, Goes, JobTypes
  <2>6. job'[s].op # "retry"
    BY <1>2, <2>1 DEF Done, Goes, Idle, JobTypes, Jobs
  <2>7. RetryPending'
    BY <2>1, <2>3, <2>5, <2>6 DEF Books, RetryPending
  <2>. QED  BY <2>4, <2>7 DEF Books
<1>4. CASE ~Alive(r)
  <2>1. UNCHANGED <<server, poller>> /\ (Done(s) \/ Goes(s, "reload"))
    BY <1>4 DEF ServeControl, Refuse
  <2>. QED  BY <1>2, <2>1, DoneKeepsBooks, GoesKeepsBooks DEF Stages
<1>. QED  BY <1>3, <1>4

LEMMA HistoryKeepsBooks ==
    ASSUME Books, ServerTypes, PollerTypes, JobTypes, NEW s \in Slots, ServeHistory(s)
    PROVE  Books'
<1>. DEFINE op == job[s].op
            r == job[s].run
<1>1. job[s] \in Jobs
  BY DEF JobTypes
<1>2. CASE Removable(op, r) /\ Goes(s, "reload") /\ UNCHANGED <<created, poller>>
           /\ status' = [q \in Runs |-> IF op = "clear" \/ q = r THEN "absent" ELSE status[q]]
  <2>1. op # "retry"
    BY <1>2 DEF Removable
  <2>2. \A q \in Runs : Alive(q)' => Alive(q)
    BY <1>2 DEF Alive, ACTIVE_RUN_STATUSES
  <2>3. UNCHANGED <<active, announced>>
    BY <1>2 DEF poller
  <2>4. AnnouncedOnceWhenOver' /\ NewIsUnannounced'
    BY <1>2, <2>2, <2>3 DEF Books, AnnouncedOnceWhenOver, NewIsUnannounced
  <2>5. \A t \in Slots : t # s => job'[t] = job[t]
    BY <1>2 DEF Goes, JobTypes
  <2>6. job'[s].op # "retry"
    BY <1>2, <2>1 DEF Goes, JobTypes, Jobs
  <2>7. RetryPending'
    BY <1>2, <2>3, <2>5, <2>6 DEF Books, RetryPending
  <2>. QED  BY <2>4, <2>7 DEF Books
<1>3. CASE Retriable(op, r) /\ Create /\ UNCHANGED poller
           /\ job' = [job EXCEPT ![s].at = "reload", ![s].run = Min(Unused)]
  <2>. DEFINE j == [[job[s] EXCEPT !.at = "reload"] EXCEPT !.run = Min(Unused)]
  <2>1. Min(Unused) \in Runs /\ op = "retry" /\ Unused # {}
    BY <1>3, CreateTypes DEF Retriable
  <2>2. j \in Jobs /\ j.run = Min(Unused) /\ j.at # "await"
    BY <1>1, <2>1 DEF Jobs, Stages
  <2>3. job' = [job EXCEPT ![s] = j]
    BY <1>3 DEF JobTypes
  <2>4. s = "guarded"
    BY <2>1 DEF Books, RetryPending
  <2>. HIDE DEF j
  <2>. QED  BY <1>3, <2>1, <2>2, <2>3, <2>4, NewRunKeepsBooks
<1>4. CASE Refuse(s)
  BY <1>4, DoneKeepsBooks DEF Refuse
<1>. QED  BY <1>2, <1>3, <1>4 DEF ServeHistory

\* The reload of the history is over: a retry starts to poll its run.
LEMMA ReloadStep ==
    ASSUME Books, ServerTypes, PollerTypes, JobTypes, NEW s \in Slots, HandleReload(s)
    PROVE  PollerTypes' /\ Books'
<1>. DEFINE r == job[s].run
<1>1. UNCHANGED <<server, faults>> /\ Done(s) /\ job[s].at = "reload"
  BY DEF HandleReload
<1>2. CASE job[s].op # "retry"
  <2>1. UNCHANGED poller
    BY <1>2 DEF HandleReload
  <2>. QED  BY <1>1, <2>1, PollerKept, DoneKeepsBooks
<1>3. CASE job[s].op = "retry"
  <2>1. pollQueueRun(r)
    BY <1>3 DEF HandleReload
  <2>2. r \in Runs /\ r \in created /\ announced[r] = 0 /\ s = "guarded"
    BY <1>1, <1>3 DEF Books, RetryPending, ServerTypes
  <2>3. active' = r /\ UNCHANGED <<announced, created, status>>
    BY <1>1, <2>1 DEF pollQueueRun, server
  <2>4. AnnouncedOnceWhenOver' /\ NewIsUnannounced'
    BY <2>2, <2>3 DEF Books, AnnouncedOnceWhenOver, NewIsUnannounced, Alive
  <2>5. \A t \in Slots : t # s => job'[t] = job[t]
    BY <1>1 DEF Done, JobTypes
  <2>6. job'[s].op # "retry"
    BY <1>1 DEF Done, Idle, JobTypes
  <2>7. RetryPending'
    BY <2>2, <2>5, <2>6 DEF Books, RetryPending
  <2>. QED  BY <2>1, <2>2, <2>4, <2>7, PollTypes DEF Books
<1>. QED  BY <1>2, <1>3

\* The run whose end is announced was tracked until now, so it is announced for
\* the first time; and it is over at the server.
LEMMA PollStep ==
    ASSUME Books, ServerTypes, PollerTypes, PollAnswered
    PROVE  PollerTypes' /\ Books'
<1>1. /\ active \in Runs /\ settled \in BOOLEAN
      /\ announced \in [Runs -> Nat]
      /\ UNCHANGED <<server, job, faults>> /\ seen' = Phase(status[active])
  BY DEF PollAnswered, PollerTypes
<1>2. seen' \in Phases
  BY <1>1 DEF Phase, Phases
<1>3. UNCHANGED <<status, created, job>>
  BY <1>1 DEF server
<1>4. CASE Settles(seen')
  <2>1. /\ settled' = TRUE /\ active' = NoRun
        /\ announced' = [announced EXCEPT ![active] = @ + 1]
    BY <1>4 DEF PollAnswered
  <2>2. announced[active] = 0
    BY <1>1 DEF Books, AnnouncedOnceWhenOver
  <2>3. ~Alive(active)
    BY <1>1, <1>4
    DEF Settles, Phase, Alive, TERMINAL_RUN_STATUSES, ACTIVE_RUN_STATUSES
  <2>4. AnnouncedOnceWhenOver'
    BY <1>1, <1>3, <2>1, <2>2, <2>3, RunIsAbsent DEF Books, AnnouncedOnceWhenOver, Alive
  <2>5. active \in created
    BY <1>1, RunIsAbsent DEF Books, NewIsUnannounced
  <2>6. NewIsUnannounced'
    BY <1>1, <1>3, <2>1, <2>5 DEF Books, NewIsUnannounced
  <2>7. RetryPending'
    <3>1. SUFFICES ASSUME NEW t \in Slots, job[t].op = "retry"
                   PROVE  /\ t = "guarded" /\ job[t].at # "await"
                          /\ job[t].at = "reload" => /\ job[t].run \in created
                                                     /\ announced'[job[t].run] = 0
                                                     /\ active' # job[t].run
      BY <1>3 DEF RetryPending
    <3>2. t = "guarded" /\ job[t].at # "await"
      BY <3>1 DEF Books, RetryPending
    <3>3. ASSUME job[t].at = "reload"
          PROVE  job[t].run \in created /\ announced'[job[t].run] = 0 /\ active' # job[t].run
      <4>1. /\ job[t].run \in created /\ announced[job[t].run] = 0
            /\ active # job[t].run /\ job[t].run \in Runs
        BY <3>1, <3>3 DEF Books, RetryPending, ServerTypes
      <4>. QED  BY <1>1, <2>1, <4>1, RunIsAbsent
    <3>. QED  BY <3>2, <3>3
  <2>8. PollerTypes'
    BY <1>1, <1>2, <2>1 DEF PollerTypes
  <2>. QED  BY <2>4, <2>6, <2>7, <2>8 DEF Books
<1>5. CASE ~Settles(seen')
  <2>1. UNCHANGED <<settled, announced, active>>
    BY <1>5 DEF PollAnswered
  <2>2. Books'
    BY <1>3, <2>1 DEF Books, AnnouncedOnceWhenOver, NewIsUnannounced, RetryPending, Alive
  <2>. QED  BY <1>1, <1>2, <2>1, <2>2 DEF PollerTypes
<1>. QED  BY <1>4, <1>5

LEMMA PollErrorStep ==
    ASSUME Books, ServerTypes, PollerTypes, FaultTypes, PollIsError
    PROVE  PollerTypes' /\ FaultTypes' /\ Books'
<1>1. /\ active' = NoRun /\ settled' = TRUE
      /\ UNCHANGED <<status, created, seen, announced, job>>
  BY DEF PollIsError, server
<1>2. PollerTypes'
  BY <1>1 DEF PollerTypes
<1>3. FaultTypes'
  BY BoundsAssumption DEF PollIsError, FaultTypes
<1>4. AnnouncedOnceWhenOver' /\ NewIsUnannounced'
  BY <1>1, RunIsAbsent DEF Books, AnnouncedOnceWhenOver, NewIsUnannounced, Alive
<1>5. RetryPending'
  BY <1>1, RunIsAbsent DEF Books, RetryPending, ServerTypes
<1>. QED  BY <1>2, <1>3, <1>4, <1>5 DEF Books

LEMMA LoseStep ==
    ASSUME Books, JobTypes, FaultTypes, NEW s \in Slots, LoseRequest(s)
    PROVE  JobTypes' /\ FaultTypes' /\ Books'
<1>1. FaultTypes'
  BY BoundsAssumption DEF LoseRequest, FaultTypes
<1>. QED  BY <1>1, DoneTypes, DoneKeepsBooks DEF LoseRequest

LEMMA DialogStep ==
    ASSUME Books, JobTypes, NEW s \in Slots, AnswerDialog(s)
    PROVE  JobTypes' /\ Books'
<1>1. UNCHANGED <<server, poller>> /\ (Done(s) \/ Goes(s, "sent"))
  BY DEF AnswerDialog, Goes
<1>. QED  BY <1>1, DoneTypes, GoesTypes, DoneKeepsBooks, GoesKeepsBooks DEF Stages

\* A retry never waits for its run inside the handler.
LEMMA AwaitStep ==
    ASSUME Books, JobTypes, NEW s \in Slots, AwaitRun(s)
    PROVE  JobTypes' /\ Books'
<1>1. UNCHANGED <<server, poller>> /\ (Done(s) \/ Goes(s, "reload"))
  BY DEF AwaitRun
<1>2. job[s].op # "retry"
  BY DEF AwaitRun, Books, RetryPending
<1>. QED  BY <1>1, <1>2, DoneTypes, GoesTypes, DoneKeepsBooks, GoesKeepsBooks DEF Stages

LEMMA InitIInv == Init => IInv
<1>1. SUFFICES ASSUME Init PROVE IInv
  OBVIOUS
<1>2. /\ status = [r \in Runs |-> "absent"] /\ created = {} /\ holds = [r \in Runs |-> FALSE]
      /\ account \in [Runs -> Accounts] /\ active = NoRun /\ settled = FALSE /\ seen = "none"
      /\ job = [s \in Slots |-> Idle] /\ announced = [r \in Runs |-> 0] /\ faults = 0
  BY <1>1 DEF Init
<1>3. ServerTypes
  BY <1>2 DEF ServerTypes, Statuses
<1>4. PollerTypes
  BY <1>2 DEF PollerTypes, Phases
<1>5. JobTypes
  BY <1>2 DEF JobTypes, Idle, Jobs, Stages
<1>6. FaultTypes
  BY <1>2, BoundsAssumption DEF FaultTypes
<1>7. Books
  BY <1>2 DEF Books, AnnouncedOnceWhenOver, NewIsUnannounced, RetryPending, Idle
<1>. QED  BY <1>3, <1>4, <1>5, <1>6, <1>7, TypeParts DEF IInv

\* The server carries out a request.
LEMMA ServeStep ==
    ASSUME Books, ServerTypes, PollerTypes, JobTypes, NEW s \in Slots, Serve(s)
    PROVE  ServerTypes' /\ PollerTypes' /\ JobTypes' /\ Books'
<1>1. CASE job[s].op \in Starts /\ ServeStart(s)
  BY <1>1, StartTypes, StartKeepsBooks
<1>2. CASE ServeControl(s)
  BY <1>2, ControlTypes, ControlKeepsBooks
<1>3. CASE ServeHistory(s)
  BY <1>3, HistoryTypes, HistoryKeepsBooks
<1>. QED  BY <1>1, <1>2, <1>3 DEF Serve

AllKept == ServerTypes /\ PollerTypes /\ JobTypes /\ FaultTypes /\ Books
LEMMA NextStep == IInv /\ [Next]_vars => IInv'
<1>1. SUFFICES ASSUME IInv, [Next]_vars PROVE IInv'
  OBVIOUS
<1>2. ServerTypes /\ PollerTypes /\ JobTypes /\ FaultTypes /\ Books
  BY <1>1, TypeParts DEF IInv
<1>3. SUFFICES AllKept'
  BY DEF AllKept, IInv, TypeOK, ServerTypes, PollerTypes, JobTypes, FaultTypes
<1>. USE DEF AllKept
<1>a. ASSUME NEW r \in Runs, Worker(r) \/ WorkerFloods(r) PROVE AllKept'
  <2>1. ServerTypes' /\ UNCHANGED <<created, account, poller, job, faults>>
    BY <1>2, <1>a, WorkerTypes
  <2>. QED  BY <1>2, <1>a, <2>1, WorkerKeepsBooks, PollerKept DEF JobTypes, FaultTypes
<1>b. CASE ServerRestarts
  <2>1. UNCHANGED <<poller, job>>
    BY <1>b DEF ServerRestarts
  <2>. QED  BY <1>2, <1>b, <2>1, RestartTypes, RestartKeepsBooks, PollerKept DEF JobTypes
<1>c. CASE Click
  <2>1. Clicked
    BY <1>2, <1>c, ClicksStart
  <2>. QED  BY <1>2, <2>1, ClickTypes, ClickKeepsBooks, ServerKept, PollerKept DEF FaultTypes
<1>d. ASSUME NEW s \in Slots, AnswerDialog(s) PROVE AllKept'
  <2>1. UNCHANGED <<server, poller, faults>>
    BY <1>d DEF AnswerDialog
  <2>. QED  BY <1>2, <1>d, <2>1, DialogStep, ServerKept, PollerKept DEF FaultTypes
<1>e. ASSUME NEW s \in Slots, Serve(s) PROVE AllKept'
  <2>1. UNCHANGED faults
    BY <1>e DEF Serve
  <2>. QED  BY <1>2, <1>e, <2>1, ServeStep DEF FaultTypes
<1>f. ASSUME NEW s \in Slots, AwaitRun(s) PROVE AllKept'
  <2>1. UNCHANGED <<server, poller, faults>>
    BY <1>f DEF AwaitRun
  <2>. QED  BY <1>2, <1>f, <2>1, AwaitStep, ServerKept, PollerKept DEF FaultTypes
<1>g. ASSUME NEW s \in Slots, HandleReload(s) PROVE AllKept'
  <2>1. UNCHANGED <<server, faults>> /\ Done(s)
    BY <1>g DEF HandleReload
  <2>. QED  BY <1>2, <1>g, <2>1, ReloadStep, DoneTypes, ServerKept DEF FaultTypes
<1>h. ASSUME NEW s \in Slots, LoseRequest(s) PROVE AllKept'
  <2>1. UNCHANGED <<server, poller>>
    BY <1>h DEF LoseRequest
  <2>. QED  BY <1>2, <1>h, <2>1, LoseStep, ServerKept, PollerKept
<1>i. CASE PollAnswered
  <2>1. UNCHANGED <<server, job, faults>>
    BY <1>i DEF PollAnswered
  <2>. QED  BY <1>2, <1>i, <2>1, PollStep, ServerKept DEF JobTypes, FaultTypes
<1>j. CASE PollIsError
  <2>1. UNCHANGED <<server, job>>
    BY <1>j DEF PollIsError
  <2>. QED  BY <1>2, <1>j, <2>1, PollErrorStep, ServerKept DEF JobTypes
<1>k. CASE UNCHANGED vars
  <2>1. UNCHANGED <<server, poller, job, faults>>
    BY <1>k DEF vars
  <2>2. Books'
    BY <1>2, <2>1, QuietServer DEF server, Alive
  <2>. QED  BY <1>2, <2>1, <2>2, ServerKept, PollerKept DEF JobTypes, FaultTypes
<1>l. ASSUME NEW s \in Slots, AnswerDialog(s) \/ Handler(s) \/ LoseRequest(s) PROVE AllKept'
  BY <1>d, <1>e, <1>f, <1>g, <1>h, <1>l DEF Handler
<1>. HIDE DEF AllKept
<1>. QED  BY <1>1, <1>a, <1>b, <1>c, <1>i, <1>j, <1>k, <1>l DEF Next, Poller

LEMMA Inductive == Spec => []IInv
  BY InitIInv, NextStep, PTL DEF Spec

\* Every variable has its type, for any number of runs, accounts and faults.
THEOREM TypeCorrect == Spec => []TypeOK
<1>1. IInv => TypeOK
  BY DEF IInv
<1>. QED  BY <1>1, Inductive, PTL

\* The end of a run is announced at most once and only when the run is over at
\* the server, whatever requests are lost, runs removed or servers restarted.
THEOREM AnnouncementsAreTrue == Spec => []AnnouncedOnceWhenOver
<1>1. IInv => AnnouncedOnceWhenOver
  BY DEF IInv, Books
<1>. QED  BY <1>1, Inductive, PTL

-------------------------------------------------------------------------------
(* Who takes a live run out of the banner.                                     *)

LeavesFor(r) == active = r /\ active' # r /\ Alive(r) => active' \in Runs \/ faults' > faults

\* Only a newer run takes the banner, in every step of a handler.
LEMMA HandlerTracks ==
    ASSUME IInv, NEW s \in Slots, Handler(s), active' # active
    PROVE  active' \in Runs
<1>1. ServerTypes /\ PollerTypes /\ JobTypes /\ Books
  BY TypeParts DEF IInv
<1>2. CASE Serve(s)
  <2>1. job[s].op \in Starts /\ ServeStart(s)
    BY <1>2 DEF Serve, ServeControl, ServeHistory, Refuse, poller
  <2>2. Unused # {} /\ Create /\ pollQueueRun(Min(Unused))
    BY <2>1 DEF ServeStart, Refuse, poller
  <2>. QED  BY <1>1, <2>2, CreateTypes DEF pollQueueRun
<1>3. CASE AwaitRun(s)
  BY <1>3 DEF AwaitRun, poller
<1>4. CASE HandleReload(s)
  <2>1. job[s].op = "retry" /\ job[s].at = "reload" /\ pollQueueRun(job[s].run)
    BY <1>4 DEF HandleReload, poller
  <2>2. job[s].run \in Runs
    BY <1>1, <2>1 DEF Books, RetryPending, ServerTypes
  <2>. QED  BY <2>1, <2>2 DEF pollQueueRun
<1>. QED  BY <1>2, <1>3, <1>4 DEF Handler

\* Without a newer run the poller lets go of a run that is over or gone, or after
\* a request that failed.
LEMMA PollerTracks ==
    ASSUME IInv, Poller, NEW r \in Runs, active = r, Alive(r), active' # active
    PROVE  faults' > faults
<1>1. CASE PollAnswered
  <2>1. Settles(Phase(status[active]))
    BY <1>1 DEF PollAnswered
  <2>. QED  BY <2>1 DEF Settles, Phase, Alive, ACTIVE_RUN_STATUSES, TERMINAL_RUN_STATUSES
<1>2. CASE PollIsError
  <2>1. status[active] # "absent" /\ faults \in 0..MaxFaults
    BY DEF Alive, ACTIVE_RUN_STATUSES, IInv, TypeOK
  <2>. QED  BY <1>2, <2>1, BoundsAssumption DEF PollIsError
<1>. QED  BY <1>1, <1>2 DEF Poller

LEMMA TrackingStep == IInv /\ [Next]_vars => \A r \in Runs : LeavesFor(r)
<1>1. SUFFICES ASSUME IInv, [Next]_vars, NEW r \in Runs, active = r, Alive(r), active' # active
               PROVE  active' \in Runs \/ faults' > faults
  BY DEF LeavesFor
<1>2. CASE Poller
  BY <1>1, <1>2, PollerTracks
<1>3. ASSUME NEW s \in Slots, Handler(s) PROVE active' \in Runs
  BY <1>1, <1>3, HandlerTracks
<1>4. ASSUME NEW s \in Slots, AnswerDialog(s) \/ LoseRequest(s) PROVE FALSE
  BY <1>1, <1>4 DEF AnswerDialog, LoseRequest, poller
<1>5. ASSUME NEW q \in Runs, Worker(q) \/ WorkerFloods(q) PROVE FALSE
  <2>1. ServerTypes
    BY <1>1, TypeParts DEF IInv
  <2>. QED  BY <1>1, <1>5, <2>1, WorkerTypes DEF poller
<1>6. CASE ServerRestarts \/ UNCHANGED vars
  BY <1>1, <1>6 DEF ServerRestarts, vars, poller
<1>7. CASE Click
  <2>1. Clicked
    BY <1>1, <1>7, ClicksStart, TypeParts DEF IInv
  <2>. QED  BY <1>1, <2>1 DEF Clicked, StartJob, poller
<1>. QED  BY <1>1, <1>2, <1>3, <1>4, <1>5, <1>6, <1>7 DEF Next

\* While a run is alive at the server only a newer run, or a poll that failed,
\* takes it out of the banner: its controls stay in reach.
THEOREM TracksLiveRuns == Spec => TrackedUntilOver
<1>1. IInv /\ [Next]_vars => [\A r \in Runs : LeavesFor(r)]_vars
  BY TrackingStep
<1>2. [][\A r \in Runs : LeavesFor(r)]_vars => TrackedUntilOver
  BY DEF LeavesFor, TrackedUntilOver
<1>. QED  BY <1>1, <1>2, Inductive, PTL DEF Spec
===============================================================================
