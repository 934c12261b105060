------------------------- MODULE SessionLocksProofs -------------------------
(***************************************************************************)
(* Theorems about SessionLocks for any set of tasks and any set of         *)
(* accounts: the lock ledger is exact, no two tasks are inside on a common *)
(* account, and the locks implement SessionMutex.                          *)
(***************************************************************************)
EXTENDS SessionLocks, TLAPS

(* A suspended acquirer waits for an account it asked for, and stands in   *)
(* one place of one queue.                                                 *)
QueueLedger ==
  \A a \in Account : \A i \in 1..Len(waiters[a]) :
    /\ pc[waiters[a][i]] = "waiting"
    /\ a \in want[waiters[a][i]]
    /\ \A b \in Account : \A j \in 1..Len(waiters[b]) :
         waiters[a][i] = waiters[b][j] => a = b /\ i = j

(* What a task holds is part of what it asked for.                         *)
HoldsWanted ==
  \A t \in Task : /\ held[t] \subseteq want[t]
                  /\ pc[t] # "idle" => want[t] # {}

(* The inductive invariant.                                                *)
IInv == TypeOK /\ LockLedger /\ QueueLedger /\ HoldsWanted

-----------------------------------------------------------------------------
(* What Acquire needs of the queues it continues with: they are the old    *)
(* ones without any entry of t.                                            *)
QueuesWithout(t, queue) ==
  /\ queue \in [Account -> Seq(Task)]
  /\ \A a \in Account : \A i \in 1..Len(queue[a]) :
       /\ queue[a][i] # t
       /\ pc[queue[a][i]] = "waiting"
       /\ a \in want[queue[a][i]]
       /\ \A b \in Account : \A j \in 1..Len(queue[b]) :
            queue[a][i] = queue[b][j] => a = b /\ i = j

(* Acquiring on from a set of locks nobody else holds keeps the invariant. *)
LEMMA AcquireKeepsInv ==
  ASSUME IInv,
         NEW t \in Task, NEW S \in SUBSET Account, S # {},
         NEW k \in {"guard", "exclusive"},
         NEW got \in SUBSET S, held[t] \subseteq got,
         \A u \in Task : u # t => got \cap held[u] = {},
         NEW queue, QueuesWithout(t, queue),
         Acquire(t, S, k, got, queue)
  PROVE  IInv'
PROOF
  <1> DEFINE rest  == S \ got
             taken == {a \in rest : \A b \in rest :
                         (b = a \/ Precedes(t, b, a)) => TakesAtOnce(b, queue)}
             left  == rest \ taken
             next  == CHOOSE a \in left :
                        \A b \in left : b = a \/ Precedes(t, a, b)
  <1>1. /\ want' = [want EXCEPT ![t] = S]
        /\ kind' = [kind EXCEPT ![t] = k]
        /\ held' = [held EXCEPT ![t] = got \cup taken]
        /\ locked' = locked \cup got \cup taken
        /\ busy' = busy \cup got \cup taken
        /\ pc' = [pc EXCEPT ![t] = IF left = {} THEN "inside" ELSE "waiting"]
        /\ waiters' = IF left = {} THEN queue
                      ELSE [queue EXCEPT ![next] = Append(@, t)]
    BY DEF Acquire
  <1>2. taken \subseteq S /\ taken \cap locked = {} /\ left \subseteq S
    BY DEF TakesAtOnce
  <1>3. left # {} => next \in left
    <2>1. left # {} => \E a \in left : \A b \in left : a <= b
      BY <1>2, AccountAssumption
    <2>2. \A a, b \in left : a <= b => b = a \/ Precedes(t, a, b)
      BY <1>2, AccountAssumption DEF Precedes
    <2> QED BY <2>1, <2>2
  <1> HIDE DEF taken, left, next
  <1>4. TypeOK'
    <2>1. waiters' \in [Account -> Seq(Task)]
      BY <1>1, <1>2, <1>3 DEF QueuesWithout
    <2> QED BY <1>1, <1>2, <2>1 DEF IInv, TypeOK
  <1>5. LockLedger'
    <2>1. busy' = locked'
      BY <1>1 DEF IInv, LockLedger, MarksExact, HoldingsExact
    <2>2. locked' = UNION {held'[u] : u \in Task}
      <3>1. \A u \in Task : held'[u] = IF u = t THEN got \cup taken ELSE held[u]
        BY <1>1 DEF IInv, TypeOK
      <3>2. locked = UNION {held[u] : u \in Task}
        BY DEF IInv, LockLedger, MarksExact, HoldingsExact
      <3>3. \A a \in locked' : \E u \in Task : a \in held'[u]
        BY <1>1, <3>1, <3>2
      <3>4. \A u \in Task : held'[u] \subseteq locked'
        BY <1>1, <3>1, <3>2
      <3> QED BY <3>3, <3>4
    <2>3. \A u, v \in Task : u # v => held'[u] \cap held'[v] = {}
      <3>1. \A u \in Task : u # t => (got \cup taken) \cap held[u] = {}
        BY <1>2 DEF IInv, LockLedger, MarksExact, HoldingsExact
      <3> QED BY <1>1, <3>1 DEF IInv, LockLedger, MarksExact, HoldingsExact, TypeOK
    <2>4. \A u \in Task : /\ pc'[u] = "idle" => held'[u] = {}
                          /\ pc'[u] = "inside" => held'[u] = want'[u]
      <3>1. left = {} => got \cup taken = S
        BY <1>2 DEF left
      <3>2. /\ held'[t] = got \cup taken /\ want'[t] = S
            /\ pc'[t] = IF left = {} THEN "inside" ELSE "waiting"
        BY <1>1 DEF IInv, TypeOK
      <3>3. \A u \in Task : u # t =>
              held'[u] = held[u] /\ want'[u] = want[u] /\ pc'[u] = pc[u]
        BY <1>1 DEF IInv, TypeOK
      <3>4. \A u \in Task : /\ pc[u] = "idle" => held[u] = {}
                            /\ pc[u] = "inside" => held[u] = want[u]
        BY DEF IInv, LockLedger, HoldingsExact
      <3>5. /\ pc'[t] # "idle"
            /\ pc'[t] = "inside" => held'[t] = want'[t]
        <4>1. CASE left = {}
          BY <3>1, <3>2, <4>1
        <4>2. CASE left # {}
          BY <3>2, <4>2
        <4> QED BY <4>1, <4>2
      <3> QED BY <3>3, <3>4, <3>5
    <2> QED BY <2>1, <2>2, <2>3, <2>4 DEF LockLedger, MarksExact, HoldingsExact
  <1>6. QueueLedger'
    <2>1. \A u \in Task : u # t => pc'[u] = pc[u] /\ want'[u] = want[u]
      BY <1>1 DEF IInv, TypeOK
    <2>2. CASE left = {}
      <3>1. waiters' = queue
        BY <1>1, <2>2
      <3>2. \A a \in Account : \A i \in 1..Len(queue[a]) : queue[a][i] \in Task
        BY DEF QueuesWithout
      <3> QED BY <2>1, <3>1, <3>2 DEF QueueLedger, QueuesWithout
    <2>3. CASE left # {}
      <3>1. next \in Account /\ next \in S
        BY <1>2, <1>3, <2>3
      <3>2. waiters' = [queue EXCEPT ![next] = Append(@, t)]
        BY <1>1, <2>3
      <3>3. \A a \in Account : \A i \in 1..Len(waiters'[a]) :
              \/ i \in 1..Len(queue[a]) /\ waiters'[a][i] = queue[a][i]
              \/ a = next /\ i = Len(queue[a]) + 1 /\ waiters'[a][i] = t
        BY <3>2 DEF QueuesWithout
      <3>4. pc'[t] = "waiting" /\ next \in want'[t]
        BY <1>1, <2>3, <3>1 DEF IInv, TypeOK
      <3>5. \A a \in Account : \A i \in 1..Len(queue[a]) :
              queue[a][i] \in Task /\ queue[a][i] # t
        BY DEF QueuesWithout
      <3> SUFFICES ASSUME NEW a \in Account, NEW i \in 1..Len(waiters'[a])
                   PROVE  /\ pc'[waiters'[a][i]] = "waiting"
                          /\ a \in want'[waiters'[a][i]]
                          /\ \A b \in Account : \A j \in 1..Len(waiters'[b]) :
                               waiters'[a][i] = waiters'[b][j] => a = b /\ i = j
        BY DEF QueueLedger
      <3>6. CASE i \in 1..Len(queue[a]) /\ waiters'[a][i] = queue[a][i]
        <4>1. pc'[queue[a][i]] = "waiting" /\ a \in want'[queue[a][i]]
          BY <2>1, <3>5, <3>6 DEF QueuesWithout
        <4>2. ASSUME NEW b \in Account, NEW j \in 1..Len(waiters'[b]),
                     queue[a][i] = waiters'[b][j]
              PROVE  a = b /\ i = j
          <5>1. j \in 1..Len(queue[b]) /\ waiters'[b][j] = queue[b][j]
            BY <3>3, <3>5, <3>6, <4>2
          <5> QED BY <3>6, <4>2, <5>1 DEF QueuesWithout
        <4> QED BY <3>6, <4>1, <4>2
      <3>7. CASE a = next /\ i = Len(queue[a]) + 1 /\ waiters'[a][i] = t
        <4>1. ASSUME NEW b \in Account, NEW j \in 1..Len(waiters'[b]),
                     t = waiters'[b][j]
              PROVE  a = b /\ i = j
          BY <3>3, <3>5, <3>7, <4>1
        <4> QED BY <3>4, <3>7, <4>1
      <3> QED BY <3>3, <3>6, <3>7
    <2> QED BY <2>2, <2>3
  <1>7. HoldsWanted'
    BY <1>1, <1>2 DEF IInv, HoldsWanted, TypeOK
  <1> QED BY <1>4, <1>5, <1>6, <1>7 DEF IInv

(* Giving back everything a task holds keeps the invariant.                *)
LEMMA ReleaseKeepsInv ==
  ASSUME IInv, NEW t \in Task, pc[t] = "inside", Release(t, held[t])
  PROVE  IInv'
PROOF
  <1>1. TypeOK'
    BY DEF IInv, TypeOK, Release
  <1>2. \A u \in Task : /\ u # t => /\ held'[u] = held[u]
                                    /\ want'[u] = want[u]
                                    /\ pc'[u] = pc[u]
                        /\ u = t => held'[u] = {} /\ pc'[u] = "idle"
    BY DEF IInv, TypeOK, Release
  <1>3. LockLedger'
    <2>1. locked' = UNION {held'[u] : u \in Task}
      <3>1. \A a \in locked' : \E u \in Task : a \in held'[u]
        BY <1>2 DEF IInv, LockLedger, MarksExact, HoldingsExact, Release
      <3>2. \A u \in Task : held'[u] \subseteq locked'
        BY <1>2 DEF IInv, LockLedger, MarksExact, HoldingsExact, Release
      <3> QED BY <3>1, <3>2
    <2> QED BY <1>2, <2>1 DEF IInv, LockLedger, MarksExact, HoldingsExact, Release
  <1>4. QueueLedger'
    <2>1. \A a \in Account : \A i \in 1..Len(waiters[a]) :
            waiters[a][i] \in Task /\ waiters[a][i] # t
      BY DEF IInv, QueueLedger, TypeOK
    <2> QED BY <1>2, <2>1 DEF IInv, QueueLedger, Release
  <1>5. HoldsWanted'
    BY <1>2 DEF IInv, HoldsWanted
  <1> QED BY <1>1, <1>3, <1>4, <1>5 DEF IInv

-----------------------------------------------------------------------------
LEMMA InitInv == Init => IInv
PROOF
  <1> SUFFICES ASSUME Init PROVE IInv
    OBVIOUS
  <1>1. TypeOK
    BY DEF Init, TypeOK
  <1>2. LockLedger
    BY DEF Init, LockLedger, MarksExact, HoldingsExact
  <1>3. QueueLedger
    BY DEF Init, QueueLedger
  <1>4. HoldsWanted
    BY DEF Init, HoldsWanted
  <1> QED BY <1>1, <1>2, <1>3, <1>4 DEF IInv

(* A task that is not suspended stands in no queue.                        *)
LEMMA NotQueued ==
  ASSUME IInv, NEW t \in Task, pc[t] # "waiting"
  PROVE  QueuesWithout(t, waiters)
PROOF BY DEF IInv, TypeOK, QueueLedger, QueuesWithout

(* The first waiter of a queue leaves it and then stands in none.          *)
LEMMA HeadLeaves ==
  ASSUME IInv, NEW t \in Task, NEW a \in Account,
         waiters[a] # <<>>, Head(waiters[a]) = t
  PROVE  QueuesWithout(t, [waiters EXCEPT ![a] = Tail(@)])
PROOF
  <1> DEFINE queue == [waiters EXCEPT ![a] = Tail(@)]
             shift(b) == IF b = a THEN 1 ELSE 0
  <1>1. queue \in [Account -> Seq(Task)]
    BY DEF IInv, TypeOK
  <1>2. \A b \in Account : \A i \in 1..Len(queue[b]) :
          /\ i + shift(b) \in 1..Len(waiters[b])
          /\ queue[b][i] = waiters[b][i + shift(b)]
    BY DEF IInv, TypeOK
  <1>3. 1 \in 1..Len(waiters[a]) /\ waiters[a][1] = t
    BY DEF IInv, TypeOK
  <1>4. \A b \in Account : \A i \in 1..Len(queue[b]) : queue[b][i] # t
    <2> SUFFICES ASSUME NEW b \in Account, NEW i \in 1..Len(queue[b]),
                        queue[b][i] = t
                 PROVE  FALSE
      OBVIOUS
    <2>1. b = a /\ i + shift(b) = 1
      BY <1>2, <1>3 DEF IInv, QueueLedger
    <2> QED BY <2>1
  <1>5. \A b, c \in Account :
          \A i \in 1..Len(queue[b]), j \in 1..Len(queue[c]) :
            queue[b][i] = queue[c][j] => b = c /\ i = j
    <2> SUFFICES ASSUME NEW b \in Account, NEW c \in Account,
                        NEW i \in 1..Len(queue[b]), NEW j \in 1..Len(queue[c]),
                        queue[b][i] = queue[c][j]
                 PROVE  b = c /\ i = j
      OBVIOUS
    <2>1. b = c /\ i + shift(b) = j + shift(c)
      BY <1>2 DEF IInv, QueueLedger
    <2> QED BY <2>1
  <1>6. \A b \in Account : \A i \in 1..Len(queue[b]) :
          pc[queue[b][i]] = "waiting" /\ b \in want[queue[b][i]]
    BY <1>2 DEF IInv, QueueLedger
  <1> HIDE DEF queue
  <1>7. QueuesWithout(t, queue)
    BY <1>1, <1>4, <1>5, <1>6 DEF QueuesWithout
  <1> QED BY <1>7 DEF queue

LEMMA StepInv == IInv /\ [Next]_vars => IInv'
PROOF
  <1> SUFFICES ASSUME IInv, [Next]_vars PROVE IInv'
    OBVIOUS
  <1>1. ASSUME NEW t \in Task, SessionGuard(t) PROVE IInv'
    <2>1. PICK S \in Request : pc[t] = "idle" /\ Acquire(t, S, "guard", {}, waiters)
      BY <1>1 DEF SessionGuard
    <2>2. held[t] \subseteq {} /\ QueuesWithout(t, waiters)
      <3>1. held[t] = {}
        BY <2>1 DEF IInv, LockLedger, HoldingsExact
      <3>2. pc[t] # "waiting"
        BY <2>1
      <3> QED BY <3>1, <3>2, NotQueued
    <2>3. S \in SUBSET Account /\ S # {}
      BY DEF Request
    <2>4. PICK queue : queue = waiters
      OBVIOUS
    <2> QED BY <2>1, <2>2, <2>3, <2>4, AcquireKeepsInv
  <1>2. ASSUME NEW t \in Task, TryBeginExclusive(t) PROVE IInv'
    <2>1. PICK S \in Request :
            pc[t] = "idle" /\ Acquire(t, S, "exclusive", {}, waiters)
      BY <1>2 DEF TryBeginExclusive
    <2>2. held[t] \subseteq {} /\ QueuesWithout(t, waiters)
      <3>1. held[t] = {}
        BY <2>1 DEF IInv, LockLedger, HoldingsExact
      <3>2. pc[t] # "waiting"
        BY <2>1
      <3> QED BY <3>1, <3>2, NotQueued
    <2>3. S \in SUBSET Account /\ S # {}
      BY DEF Request
    <2>4. PICK queue : queue = waiters
      OBVIOUS
    <2> QED BY <2>1, <2>2, <2>3, <2>4, AcquireKeepsInv
  <1>3. ASSUME NEW t \in Task, Resume(t) PROVE IInv'
    <2>1. PICK a \in Account :
            /\ pc[t] = "waiting"
            /\ a \notin locked
            /\ waiters[a] # <<>>
            /\ Head(waiters[a]) = t
            /\ Acquire(t, want[t], kind[t], held[t] \cup {a},
                       [waiters EXCEPT ![a] = Tail(@)])
      BY <1>3 DEF Resume
    <2>2. a \in want[t]
      <3>1. 1 \in 1..Len(waiters[a]) /\ waiters[a][1] = t
        BY <2>1 DEF IInv, TypeOK
      <3> QED BY <3>1 DEF IInv, QueueLedger
    <2>3. held[t] \cup {a} \subseteq want[t] /\ want[t] \in SUBSET Account
      BY <2>2 DEF IInv, HoldsWanted, TypeOK
    <2>4. \A u \in Task : u # t => (held[t] \cup {a}) \cap held[u] = {}
      BY <2>1 DEF IInv, LockLedger, MarksExact, HoldingsExact
    <2>5. QueuesWithout(t, [waiters EXCEPT ![a] = Tail(@)])
      BY <2>1, HeadLeaves
    <2>6. kind[t] \in {"guard", "exclusive"} /\ want[t] # {}
      BY <2>2 DEF IInv, TypeOK
    <2>7. PICK S, k, got, queue :
            /\ S = want[t] /\ k = kind[t] /\ got = held[t] \cup {a}
            /\ queue = [waiters EXCEPT ![a] = Tail(@)]
      OBVIOUS
    <2>8. /\ S \in SUBSET Account /\ S # {} /\ k \in {"guard", "exclusive"}
          /\ got \in SUBSET S /\ held[t] \subseteq got
          /\ \A u \in Task : u # t => got \cap held[u] = {}
          /\ QueuesWithout(t, queue) /\ Acquire(t, S, k, got, queue)
      BY <2>1, <2>3, <2>4, <2>5, <2>6, <2>7
    <2> QED BY <2>8, AcquireKeepsInv
  <1>4. ASSUME NEW t \in Task, ExitGuard(t) PROVE IInv'
    BY <1>4, ReleaseKeepsInv DEF ExitGuard
  <1>5. ASSUME NEW t \in Task, EndExclusive(t) PROVE IInv'
    <2>1. want[t] \cap busy = held[t]
      BY <1>5 DEF EndExclusive, IInv, LockLedger, MarksExact, HoldingsExact
    <2> QED BY <1>5, <2>1, ReleaseKeepsInv DEF EndExclusive
  <1>6. CASE UNCHANGED vars
    BY <1>6 DEF vars, IInv, TypeOK, LockLedger, MarksExact, HoldingsExact, QueueLedger, HoldsWanted
  <1> QED BY <1>1, <1>2, <1>3, <1>4, <1>5, <1>6 DEF Next

THEOREM Invariance == Spec => []IInv
PROOF BY InitInv, StepInv, PTL DEF Spec

(* The variables keep their types.                                         *)
THEOREM TypeCorrect == Spec => []TypeOK
PROOF BY Invariance, PTL DEF IInv

(* For any tasks and accounts the busy set, the locks and the tasks'       *)
(* holdings agree (accounts.py:334-339, 360-365).                          *)
THEOREM LedgerExact == Spec => []LockLedger
PROOF BY Invariance, PTL DEF IInv

LEMMA InvImpliesExclusion == IInv => MutualExclusion
PROOF BY DEF IInv, LockLedger, MarksExact, HoldingsExact, MutualExclusion

(* No two tasks are ever inside on a common account (accounts.py:319-395). *)
THEOREM Exclusion == Spec => []MutualExclusion
PROOF BY Invariance, InvImpliesExclusion, PTL

-----------------------------------------------------------------------------
using == [t \in Task |-> IF pc[t] = "inside" THEN want[t] ELSE {}]

LEMMA InitMaps == Init => Mutex!Init
PROOF BY DEF Init, Mutex!Init

(* Every step of the locks is a step of the abstract mutex or a stutter.   *)
LEMMA StepMaps ==
  IInv /\ IInv' /\ [Next]_vars => [Mutex!Next]_using
PROOF
  <1> SUFFICES ASSUME IInv, IInv', [Next]_vars
               PROVE  Mutex!Next \/ using' = using
    BY DEF using
  <1> DEFINE enters(t, S) == /\ pc[t] # "inside"
                             /\ S \in (SUBSET Account) \ {{}}
                             /\ \/ pc' = [pc EXCEPT ![t] = "inside"]
                                \/ pc' = [pc EXCEPT ![t] = "waiting"]
                             /\ want' = [want EXCEPT ![t] = S]
  <1>1. ASSUME NEW t \in Task, NEW S, enters(t, S)
        PROVE  Mutex!Next \/ using' = using
    <2>1. CASE pc' = [pc EXCEPT ![t] = "inside"]
      <3>1. using[t] = {} /\ S \in (SUBSET Account) \ {{}}
        BY <1>1 DEF using
      <3>2. \A u \in Task : using[u] \cap S = {}
        <4>1. MutualExclusion'
          BY InvImpliesExclusion DEF IInv, LockLedger, MarksExact, HoldingsExact, MutualExclusion
        <4>2. pc'[t] = "inside" /\ want'[t] = S
          BY <1>1, <2>1 DEF IInv, TypeOK
        <4>3. \A u \in Task : u # t /\ pc[u] = "inside" =>
                pc'[u] = "inside" /\ want'[u] = want[u]
          BY <1>1, <2>1 DEF IInv, TypeOK
        <4> QED BY <3>1, <4>1, <4>2, <4>3 DEF MutualExclusion, using
      <3>3. using' = [using EXCEPT ![t] = S]
        BY <1>1, <2>1 DEF using, IInv, TypeOK
      <3> QED BY <3>1, <3>2, <3>3 DEF Mutex!Next, Mutex!Enter, using
    <2>2. CASE pc' = [pc EXCEPT ![t] = "waiting"]
      BY <1>1, <2>2 DEF using, IInv, TypeOK
    <2> QED BY <1>1, <2>1, <2>2
  <1>2. ASSUME NEW t \in Task, SessionGuard(t)
        PROVE  \E S : enters(t, S)
    <2>1. PICK S \in Request : pc[t] = "idle" /\ Acquire(t, S, "guard", {}, waiters)
      BY <1>2 DEF SessionGuard
    <2>2. S \in (SUBSET Account) \ {{}} /\ pc[t] # "inside"
      BY <2>1 DEF Request
    <2> QED BY <2>1, <2>2 DEF Acquire
  <1>3. ASSUME NEW t \in Task, TryBeginExclusive(t)
        PROVE  \E S : enters(t, S)
    <2>1. PICK S \in Request :
            pc[t] = "idle" /\ Acquire(t, S, "exclusive", {}, waiters)
      BY <1>3 DEF TryBeginExclusive
    <2>2. S \in (SUBSET Account) \ {{}} /\ pc[t] # "inside"
      BY <2>1 DEF Request
    <2> QED BY <2>1, <2>2 DEF Acquire
  <1>4. ASSUME NEW t \in Task, Resume(t)
        PROVE  \E S : enters(t, S)
    <2>1. pc[t] = "waiting" /\ want[t] \in (SUBSET Account) \ {{}}
      BY <1>4 DEF Resume, IInv, TypeOK, HoldsWanted
    <2> QED BY <1>4, <2>1 DEF Resume, Acquire
  <1>5. ASSUME NEW t \in Task, ExitGuard(t) \/ EndExclusive(t)
        PROVE  Mutex!Next
    <2>1. /\ pc[t] = "inside" /\ want[t] # {}
          /\ pc' = [pc EXCEPT ![t] = "idle"]
          /\ want' = [want EXCEPT ![t] = {}]
      BY <1>5 DEF ExitGuard, EndExclusive, Release, IInv, HoldsWanted
    <2>2. using[t] # {} /\ using' = [using EXCEPT ![t] = {}]
      BY <2>1 DEF using, IInv, TypeOK
    <2> QED BY <2>2 DEF Mutex!Next, Mutex!Leave, using
  <1>6. CASE UNCHANGED vars
    BY <1>6 DEF vars, using
  <1> QED BY <1>1, <1>2, <1>3, <1>4, <1>5, <1>6 DEF Next

(* The session locks implement the abstract mutex, whatever the number of  *)
(* tasks and accounts.                                                     *)
THEOREM Refinement == Spec => ImplementsMutex
PROOF
  <1> QED BY Invariance, InitMaps, StepMaps, PTL DEF Spec, ImplementsMutex, Mutex!Spec, using

-----------------------------------------------------------------------------
(* A lock that is taken at once has nobody queued on it.                   *)
LEMMA AcquireTakesInTurn ==
  ASSUME TypeOK, NEW t \in Task, NEW S, NEW k, NEW got, NEW queue,
         Acquire(t, S, k, got, queue), NEW u \in Task, NEW a \in held'[u] \ held[u]
  PROVE  u = t /\ (a \in got \/ (a \in S \ got /\ queue[a] = <<>>))
PROOF
  <1>1. PICK taken \in SUBSET (S \ got) :
          /\ \A b \in taken : queue[b] = <<>>
          /\ held' = [held EXCEPT ![t] = got \cup taken]
    <2> DEFINE rest  == S \ got
               first == {b \in rest : \A c \in rest :
                           (c = b \/ Precedes(t, c, b)) => TakesAtOnce(c, queue)}
    <2>1. held' = [held EXCEPT ![t] = got \cup first]
      BY DEF Acquire
    <2>2. \A b \in first : queue[b] = <<>>
      BY DEF TakesAtOnce
    <2>3. first \in SUBSET (S \ got)
      OBVIOUS
    <2>. QED  BY <2>1, <2>2, <2>3
  <1>. QED  BY <1>1 DEF TypeOK

(* The queue of a lock is served from its head.                            *)
LEMMA InTurn ==
  TypeOK /\ [Next]_vars =>
    \A t \in Task, a \in Account :
      (a \in held'[t] \ held[t] /\ waiters[a] # <<>>) => Head(waiters[a]) = t
PROOF
  <1>1. SUFFICES ASSUME TypeOK, [Next]_vars,
                        NEW u \in Task, NEW b \in Account,
                        b \in held'[u] \ held[u], waiters[b] # <<>>
                 PROVE  Head(waiters[b]) = u
    OBVIOUS
  <1>2. PICK t \in Task : SessionGuard(t) \/ TryBeginExclusive(t) \/ Resume(t)
                          \/ ExitGuard(t) \/ EndExclusive(t)
    BY <1>1 DEF Next, vars
  <1>3. CASE SessionGuard(t) \/ TryBeginExclusive(t)
    <2>1. PICK S, k : Acquire(t, S, k, {}, waiters)
      BY <1>3 DEF SessionGuard, TryBeginExclusive
    <2>. QED  BY <1>1, <2>1, AcquireTakesInTurn
  <1>4. CASE Resume(t)
    <2>1. PICK a \in Account :
            /\ waiters[a] # <<>> /\ Head(waiters[a]) = t
            /\ Acquire(t, want[t], kind[t], held[t] \cup {a}, [waiters EXCEPT ![a] = Tail(@)])
      BY <1>4 DEF Resume
    <2> DEFINE got   == held[t] \cup {a}
               queue == [waiters EXCEPT ![a] = Tail(@)]
    <2>2. Acquire(t, want[t], kind[t], got, queue)
      BY <2>1
    <2>3. b # a => queue[b] = waiters[b]
      BY <1>1 DEF TypeOK
    <2>4. u = t /\ (b \in got \/ (b \in want[t] \ got /\ queue[b] = <<>>))
      <3> HIDE DEF got, queue
      <3>. QED  BY <1>1, <2>2, AcquireTakesInTurn
    <2>. QED  BY <1>1, <2>1, <2>3, <2>4
  <1>5. CASE ExitGuard(t) \/ EndExclusive(t)
    BY <1>1, <1>5 DEF ExitGuard, EndExclusive, Release, TypeOK
  <1>. QED  BY <1>2, <1>3, <1>4, <1>5

(* No task takes a lock that another one is first in line for, for any     *)
(* tasks and accounts.                                                     *)
THEOREM NobodyIsOvertaken == Spec => NoOvertaking
PROOF BY InTurn, TypeCorrect, PTL DEF Spec, NoOvertaking
=============================================================================
