---------------------------- MODULE SessionLocks ----------------------------
(***************************************************************************)
(* The per-account session locks of AccountManager (accounts.py:302-384).  *)
(*                                                                         *)
(* A Telegram `.session` file is a SQLite database that only one client    *)
(* may have open.  The manager keeps one asyncio.Lock per account and a    *)
(* set of busy accounts beside it.  Two kinds of task take the locks:      *)
(*                                                                         *)
(*   "guard"      a queue run or the teardown of a native schedule, which  *)
(*                waits its turn for every account (session_guard);        *)
(*   "exclusive"  an ad-hoc operation or a scheduler reconcile, which is   *)
(*                meant to give up at once instead (try_begin_exclusive).  *)
(*                                                                         *)
(* The event loop runs one task at a time and switches only where a task   *)
(* suspends, so one action is all a task does between two suspensions.     *)
(* A released lock does not pass to its first waiter: release() clears the *)
(* lock and schedules the waiter, and other ready tasks may run before it. *)
(***************************************************************************)
EXTENDS Integers, Sequences

CONSTANTS Account,   \* account ids; sorted() orders them, so they are numbers
          Task       \* asyncio tasks

(* Any set of account ids has a least one, as sorted() needs; there are    *)
(* finitely many.                                                          *)
ASSUME AccountAssumption ==
  /\ Account \subseteq Int
  /\ \A S \in (SUBSET Account) \ {{}} : \E a \in S : \A b \in S : a <= b

VARIABLES locked,    \* accounts whose asyncio.Lock has _locked set
          waiters,   \* each lock's queue of suspended acquirers
          busy,      \* AccountManager._busy_accounts
          pc,        \* where a task is: "idle", "waiting" on a lock, "inside"
          kind,      \* which of the two protocols it follows
          want,      \* the accounts it asked for
          held       \* the locks it has taken so far (`acquired`)

vars == <<locked, waiters, busy, pc, kind, want, held>>

Request == (SUBSET Account) \ {{}}

TypeOK ==
  /\ locked \subseteq Account
  /\ waiters \in [Account -> Seq(Task)]
  /\ busy \subseteq Account
  /\ pc \in [Task -> {"idle", "waiting", "inside"}]
  /\ kind \in [Task -> {"guard", "exclusive"}]
  /\ want \in [Task -> SUBSET Account]
  /\ held \in [Task -> SUBSET Account]

Init ==
  /\ locked = {}
  /\ waiters = [a \in Account |-> <<>>]
  /\ busy = {}
  /\ pc = [t \in Task |-> "idle"]
  /\ kind = [t \in Task |-> "guard"]
  /\ want = [t \in Task |-> {}]
  /\ held = [t \in Task |-> {}]

-----------------------------------------------------------------------------
(* asyncio.Lock.acquire() returns without suspending only when the lock is *)
(* free and nobody is queued on it, a waiter that was already woken        *)
(* included.                                                               *)
\* Mutations: a lock that may be taken past its waiters; one that is taken
\* although it is held.
BargingTakesAtOnce(a, queue) == a \notin locked
BlindTakesAtOnce(a, queue) == queue[a] = <<>>
TakesAtOnce(a, queue) == a \notin locked /\ queue[a] = <<>>

(* sorted(set(account_ids)): the order in which task t takes its locks.    *)
Precedes(t, a, b) == a < b

(* Task t holds `got` and goes on acquiring the rest of S in order, until  *)
(* the first lock on which acquire() suspends.  Each lock taken is marked  *)
(* busy in the same breath.                                                *)
Acquire(t, S, k, got, queue) ==
  LET rest  == S \ got
      taken == {a \in rest : \A b \in rest :
                   (b = a \/ Precedes(t, b, a)) => TakesAtOnce(b, queue)}
      left  == rest \ taken
      next  == CHOOSE a \in left : \A b \in left : b = a \/ Precedes(t, a, b)
  IN  /\ want' = [want EXCEPT ![t] = S]
      /\ kind' = [kind EXCEPT ![t] = k]
      /\ held' = [held EXCEPT ![t] = got \cup taken]
      /\ locked' = locked \cup got \cup taken
      /\ busy' = busy \cup got \cup taken
      /\ pc' = [pc EXCEPT ![t] = IF left = {} THEN "inside" ELSE "waiting"]
      /\ waiters' = IF left = {} THEN queue
                    ELSE [queue EXCEPT ![next] = Append(@, t)]

(* Give back the locks A and go idle; what t keeps beyond A is leaked.     *)
\* Mutation: the busy mark stays.
ReleaseKeepingBusy(t, A) ==
  /\ locked' = locked \ A
  /\ held' = [held EXCEPT ![t] = @ \ A]
  /\ want' = [want EXCEPT ![t] = {}]
  /\ pc' = [pc EXCEPT ![t] = "idle"]
  /\ UNCHANGED <<waiters, kind, busy>>
Release(t, A) ==
  /\ locked' = locked \ A
  /\ busy' = busy \ A
  /\ held' = [held EXCEPT ![t] = @ \ A]
  /\ want' = [want EXCEPT ![t] = {}]
  /\ pc' = [pc EXCEPT ![t] = "idle"]
  /\ UNCHANGED <<waiters, kind>>

-----------------------------------------------------------------------------
(* async with session_guard(S): entered without any test.                  *)
SessionGuard(t) ==
  \E S \in Request :
    /\ pc[t] = "idle"
    /\ Acquire(t, S, "guard", {}, waiters)

(* try_begin_exclusive(S) that finds every account free.  When one is busy *)
(* or locked it returns False and changes nothing: a stuttering step.      *)
TryBeginExclusive(t) ==
  \E S \in Request :
    /\ pc[t] = "idle"
    /\ S \cap (busy \cup locked) = {}
    /\ Acquire(t, S, "exclusive", {}, waiters)

(* The first waiter of a free lock runs: it takes the lock and goes on.    *)
Resume(t) ==
  \E a \in Account :
    /\ pc[t] = "waiting"
    /\ a \notin locked
    /\ waiters[a] # <<>>
    /\ Head(waiters[a]) = t
    /\ Acquire(t, want[t], kind[t], held[t] \cup {a},
               [waiters EXCEPT ![a] = Tail(@)])

(* The finally of session_guard releases what was acquired.                *)
ExitGuard(t) ==
  /\ pc[t] = "inside"
  /\ kind[t] = "guard"
  /\ Release(t, held[t])

(* end_exclusive releases an account only while it is marked busy.         *)
EndExclusive(t) ==
  /\ pc[t] = "inside"
  /\ kind[t] = "exclusive"
  /\ Release(t, want[t] \cap busy)

Next == \E t \in Task : \/ SessionGuard(t)
                        \/ TryBeginExclusive(t)
                        \/ Resume(t)
                        \/ ExitGuard(t)
                        \/ EndExclusive(t)

Spec == Init /\ [][Next]_vars

(* The event loop runs every ready task sooner or later.  Nothing is       *)
(* assumed of the bodies: a paused run keeps its accounts as long as it    *)
(* likes.                                                                  *)
FairSpec == Spec /\ \A t \in Task : WF_vars(Resume(t))

-----------------------------------------------------------------------------
(* A session file is used by at most one task at a time                    *)
(* (accounts.py:319-327 and 387-395).                                      *)
MutualExclusion ==
  \A t, u \in Task :
    (t # u /\ pc[t] = "inside" /\ pc[u] = "inside") => want[t] \cap want[u] = {}

MarksExact == busy = locked /\ locked = UNION {held[t] : t \in Task}

HoldingsExact ==
  /\ \A t, u \in Task : t # u => held[t] \cap held[u] = {}
  /\ \A t \in Task : /\ pc[t] = "idle" => held[t] = {}
                     /\ pc[t] = "inside" => held[t] = want[t]

(* Every locked account has exactly one holder and is marked busy, and     *)
(* nothing else is: an account can neither leak as busy for ever nor look  *)
(* free to is_account_busy while a run uses it (accounts.py:312-317,       *)
(* 334-339, 360-365).                                                      *)
LockLedger == MarksExact /\ HoldingsExact

(* Nobody takes a lock ahead of the task that has waited longest for it,   *)
(* not even in the gap between release() and the waiter's turn.            *)
NoOvertaking ==
  [][\A t \in Task, a \in Account :
        (a \in held'[t] \ held[t] /\ waiters[a] # <<>>)
           => Head(waiters[a]) = t]_vars

(* If every body ends, every run that waits for its accounts gets them,    *)
(* however many ad-hoc operations and other runs come and go.              *)
EveryWaiterEnters ==
  (\A t \in Task : []<>(pc[t] # "inside"))
     => \A t \in Task : pc[t] = "waiting" ~> pc[t] = "inside"

(* try_begin_exclusive is documented as "Non-blocking": the caller is      *)
(* refused at once or holds the locks, and never queues behind a run       *)
(* (accounts.py:342-350).                                                  *)
FailFastNeverWaits ==
  \A t \in Task : kind[t] = "exclusive" => pc[t] # "waiting"

Mutex == INSTANCE SessionMutex WITH
           using <- [t \in Task |-> IF pc[t] = "inside" THEN want[t] ELSE {}]

(* The locks implement the promise of SessionMutex.                        *)
ImplementsMutex == Mutex!Spec
=============================================================================
