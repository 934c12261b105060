------------------------- MODULE RunnerScheduleProofs -------------------------
(***************************************************************************)
(* Theorems about Recurrence, and about RunnerSchedule for any schedules,  *)
(* accounts, plans and bounds: what upcoming_fire_times and its kin give,  *)
(* the types, and what the clock may fire.  The invariant compares         *)
(* each record with what has happened to its schedule, both the record the *)
(* tick is working on and the one a lost tick would fall back to.          *)
(***************************************************************************)
EXTENDS RunnerSchedule, SequenceTheorems, WellFoundedInduction, TLAPS

(***************************************************************************)
(* The functions of Recurrence, for every plan, time and limit.            *)
(***************************************************************************)

LEMMA SlotMultiples ==
  ASSUME NEW x \in Nat, NEW d \in Nat \ {0}
  PROVE  /\ (x \div d + 1) * d \in Nat
         /\ (x \div d + 1) * d > x
         /\ (x \div d) * d <= x
         /\ x \div d \in Nat
PROOF
  <1> DEFINE q == x \div d
  <1>1. q \in Nat /\ x = d * q + (x % d) /\ x % d \in Nat /\ x % d < d
    BY SMT
  <1> HIDE DEF q
  <1>2. (q + 1) * d = d * q + d
    BY <1>1, SMT
  <1>3. d * q \in Nat
    BY <1>1, SMT
  <1>4. q * d = d * q
    BY <1>1, SMT
  <1>5. (q + 1) * d \in Nat /\ (q + 1) * d > x /\ q * d <= x
    BY <1>1, <1>2, <1>3, <1>4, SMT
  <1> QED BY <1>1, <1>5 DEF q

(* The bound that upcoming_fire_times computes is the index of the first   *)
(* slot later than `after` (recurrence.py:54-57).                          *)
THEOREM FirstAfterIsFirst ==
  ASSUME NEW r \in Plan, NEW anchor \in Nat, NEW after \in Nat
  PROVE  /\ FirstAfter(anchor, r, after) \in Nat
         /\ \A k \in Nat : Slot(anchor, r, k) > after <=> k >= FirstAfter(anchor, r, after)
PROOF
  <1> DEFINE d == r.delta
  <1>0. d \in Nat \ {0}
    BY DEF Plan
  <1> HIDE DEF d
  <1>1. CASE after < anchor
    <2>1. FirstAfter(anchor, r, after) = 0
      BY <1>1 DEF FirstAfter
    <2>2. ASSUME NEW k \in Nat PROVE anchor + k * d > after
      <3>1. k * d \in Nat
        BY <1>0
      <3> QED BY <1>1, <3>1
    <2> QED BY <2>1, <2>2 DEF Slot, d
  <1>2. CASE ~(after < anchor)
    <2> DEFINE x == after - anchor
               q == x \div d
    <2>1. x \in Nat
      BY <1>2
    <2>2. FirstAfter(anchor, r, after) = q + 1
      BY <1>2 DEF FirstAfter, d
    <2>3. q \in Nat /\ (q + 1) * d > x /\ q * d <= x
      BY <2>1, <1>0, SlotMultiples
    <2> HIDE DEF q
    <2>4. ASSUME NEW k \in Nat PROVE k * d > x <=> k >= q + 1
      <3>1. CASE k >= q + 1
        <4>1. PICK e \in Nat : k = q + 1 + e
          <5>1. k - (q + 1) \in Nat /\ k = q + 1 + (k - (q + 1))
            BY <2>3, <3>1
          <5> QED BY <5>1
        <4>2. k * d = (q + 1) * d + e * d
          BY <4>1, <2>3, <1>0, SMT
        <4>3. e * d \in Nat /\ (q + 1) * d \in Nat
          BY <4>1, <1>0, <2>3
        <4>4. k * d > x
          BY <4>2, <4>3, <2>3, <2>1
        <4> QED BY <3>1, <4>4
      <3>2. CASE ~(k >= q + 1)
        <4>1. PICK e \in Nat : q = k + e
          <5>1. q - k \in Nat /\ q = k + (q - k)
            BY <2>3, <3>2
          <5> QED BY <5>1
        <4>2. q * d = k * d + e * d
          BY <4>1, <2>3, <1>0, SMT
        <4>3. e * d \in Nat /\ k * d \in Nat
          BY <4>1, <1>0
        <4>4. ~(k * d > x)
          BY <4>2, <4>3, <2>3, <2>1
        <4> QED BY <3>2, <4>4
      <3> QED BY <3>1, <3>2
    <2>5. \A k \in Nat : anchor + k * d > after <=> k * d > x
      <3> TAKE k \in Nat
      <3>1. k * d \in Nat
        BY <1>0
      <3> QED BY <3>1, <1>2 DEF x
    <2> QED BY <2>2, <2>3, <2>4, <2>5 DEF Slot, d
  <1> QED BY <1>1, <1>2

(* A set of natural numbers that is not empty has a least element.         *)
LEMMA LeastNatural ==
  ASSUME NEW T \in SUBSET Nat, T # {}
  PROVE  \E m \in T : \A k \in T : m <= k
PROOF
  <1> DEFINE R == {ss \in Nat \X Nat : ss[1] < ss[2]}
  <1>1. IsWellFoundedOn(R, Nat)
    BY NatLessThanWellFounded DEF OpToRel
  <1> HIDE DEF R
  <1>2. PICK m \in T : \A k \in T : <<k, m>> \notin R
    BY <1>1, WFMin
  <1>3. ASSUME NEW k \in T PROVE m <= k
    <2>1. m \in Nat /\ k \in Nat
      OBVIOUS
    <2>2. k < m => <<k, m>> \in R
      BY <2>1 DEF R
    <2> QED BY <1>2, <2>1, <2>2
  <1> QED BY <1>3

LEMMA SlotsAscend ==
  ASSUME NEW r \in Plan, NEW anchor \in Nat, NEW j \in Nat, NEW k \in Nat
  PROVE  /\ Slot(anchor, r, j) \in Nat
         /\ j < k => Slot(anchor, r, j) < Slot(anchor, r, k)
PROOF
  <1> DEFINE d == r.delta
  <1>0. d \in Nat \ {0}
    BY DEF Plan
  <1> HIDE DEF d
  <1>1. j * d \in Nat
    BY <1>0
  <1>2. ASSUME j < k PROVE j * d < k * d
    <2>1. PICK e \in Nat : k = j + e + 1
      <3>1. k - j - 1 \in Nat /\ k = j + (k - j - 1) + 1
        BY <1>2
      <3> QED BY <3>1
    <2>2. k * d = j * d + e * d + d
      BY <2>1, <1>0, SMT
    <2>3. e * d \in Nat
      BY <2>1, <1>0
    <2> QED BY <2>2, <2>3, <1>0, <1>1
  <1>3. k * d \in Nat
    BY <1>0
  <1> QED BY <1>1, <1>2, <1>3 DEF Slot, d

(* Whatever stops the loop at one slot stops it at every later one.        *)
LEMMA BeyondStays ==
  ASSUME NEW r \in Plan, NEW anchor \in Nat, NEW horizon \in Nat,
         NEW j \in Nat, NEW k \in Nat, j <= k, Beyond(anchor, r, horizon, j)
  PROVE  Beyond(anchor, r, horizon, k)
PROOF
  <1>1. /\ Slot(anchor, r, j) \in Nat /\ Slot(anchor, r, k) \in Nat
        /\ Slot(anchor, r, j) <= Slot(anchor, r, k)
    <2>1. Slot(anchor, r, j) \in Nat /\ Slot(anchor, r, k) \in Nat
      BY SlotsAscend
    <2>2. j < k => Slot(anchor, r, j) < Slot(anchor, r, k)
      BY SlotsAscend
    <2> QED BY <2>1, <2>2
  <1>2. r.count \in Int /\ r.until \in Int
    BY DEF Plan, Never
  <1> QED BY <1>1, <1>2 DEF Beyond

(* What upcoming_fire_times computes is a run of consecutive slots from    *)
(* the first one after `after`, as long as the limit and the plan allow.   *)
LEMMA UpcomingShape ==
  ASSUME NEW r \in Plan, NEW anchor \in Nat, NEW after \in Nat,
         NEW horizon \in Nat, NEW limit \in Nat
  PROVE  LET first == FirstAfter(anchor, r, after)
         IN  \E n \in 0..limit :
               /\ UpcomingFireTimes(anchor, r, after, horizon, limit)
                    = [i \in 1..n |-> Slot(anchor, r, first + i - 1)]
               /\ n = limit \/ Beyond(anchor, r, horizon, first + n)
               /\ \A m \in 0..(n - 1) : ~Beyond(anchor, r, horizon, first + m)
PROOF
  <1> DEFINE first == FirstAfter(anchor, r, after)
             C(n) == /\ n = limit \/ Beyond(anchor, r, horizon, first + n)
                     /\ \A m \in 0..(n - 1) : ~Beyond(anchor, r, horizon, first + m)
             stops == {n \in 0..limit : n = limit \/ Beyond(anchor, r, horizon, first + n)}
  <1> HIDE DEF first
  <1>1. PICK n \in stops : \A m \in stops : n <= m
    <2>1. stops \in SUBSET Nat /\ limit \in stops
      OBVIOUS
    <2> QED BY <2>1, LeastNatural
  <1>2. n \in 0..limit /\ C(n)
    <2>1. ASSUME NEW m \in 0..(n - 1) PROVE ~Beyond(anchor, r, horizon, first + m)
      <3>1. m \in 0..limit /\ ~(n <= m)
        BY <1>1
      <3> QED BY <1>1, <3>1
    <2> QED BY <1>1, <2>1
  <1> HIDE DEF stops
  <1>3. /\ (CHOOSE x \in 0..limit : C(x)) \in 0..limit
        /\ C(CHOOSE x \in 0..limit : C(x))
    BY <1>2
  <1> QED BY <1>3, Zenon DEF UpcomingFireTimes, first

(* The k-th slot belongs to the plan and lies in (after, horizon].         *)
Wanted(anchor, r, after, horizon, k) ==
  /\ InPlan(anchor, r, k)
  /\ after < Slot(anchor, r, k) /\ Slot(anchor, r, k) <= horizon

(* `times` are the first `limit` slots of the plan that are later than     *)
(* `after` and not later than `horizon`, in order and without a gap.       *)
FirstWanted(times, anchor, r, after, horizon, limit) ==
  /\ times \in Seq(Nat) /\ Len(times) <= limit
  /\ \A i \in 1..Len(times) : \E k \in Nat :
       Wanted(anchor, r, after, horizon, k) /\ times[i] = Slot(anchor, r, k)
  /\ \A i, j \in 1..Len(times) : i < j => times[i] < times[j]
  /\ \A k \in Nat : Wanted(anchor, r, after, horizon, k) =>
       \/ \E i \in 1..Len(times) : times[i] = Slot(anchor, r, k)
       \/ /\ Len(times) = limit
          /\ \A i \in 1..Len(times) : times[i] < Slot(anchor, r, k)

(* That is what upcoming_fire_times returns (recurrence.py:42-71).         *)
THEOREM UpcomingAreTheNextSlots ==
  ASSUME NEW r \in Plan, NEW anchor \in Nat, NEW after \in Nat,
         NEW horizon \in Nat, NEW limit \in Nat
  PROVE  FirstWanted(UpcomingFireTimes(anchor, r, after, horizon, limit),
                     anchor, r, after, horizon, limit)
PROOF
  <1> DEFINE first == FirstAfter(anchor, r, after)
             times == UpcomingFireTimes(anchor, r, after, horizon, limit)
             S(k)  == Slot(anchor, r, k)
             W(k)  == Wanted(anchor, r, after, horizon, k)
             B(k)  == Beyond(anchor, r, horizon, k)
  <1> HIDE DEF first, times
  <1>1. first \in Nat /\ \A k \in Nat : S(k) > after <=> k >= first
    BY FirstAfterIsFirst DEF first
  <1>2. PICK n \in 0..limit : /\ times = [i \in 1..n |-> S(first + i - 1)]
                              /\ n = limit \/ B(first + n)
                              /\ \A m \in 0..(n - 1) : ~B(first + m)
    BY UpcomingShape DEF first, times
  <1>3. \A k \in Nat : W(k) <=> k >= first /\ ~B(k)
    <2> TAKE k \in Nat
    <2>1. S(k) \in Nat
      BY SlotsAscend
    <2>2. r.count \in Int /\ r.until \in Int
      BY DEF Plan, Never
    <2> QED BY <1>1, <2>1, <2>2 DEF Wanted, InPlan, Beyond
  <1>4. \A j, k \in Nat : S(j) \in Nat /\ (j < k => S(j) < S(k))
    BY SlotsAscend
  <1>5. \A j, k \in Nat : j <= k /\ B(j) => B(k)
    BY BeyondStays
  <1> HIDE DEF S, W, B
  <1>6. \A i \in 1..n : /\ first + i - 1 \in Nat /\ first + i - 1 >= first
                        /\ ~B(first + i - 1) /\ times[i] = S(first + i - 1)
    <2> TAKE i \in 1..n
    <2>1. i - 1 \in 0..(n - 1) /\ first + (i - 1) = first + i - 1
      BY <1>1
    <2> QED BY <1>1, <1>2, <2>1
  <1>7. times \in Seq(Nat) /\ Len(times) = n
    <2>1. times \in [1..n -> Nat]
      BY <1>2, <1>4, <1>6
    <2>2. times \in Seq(Nat)
      BY <2>1, SeqDef
    <2> QED BY <2>1, <2>2, LenProperties
  <1>8. \A i \in 1..n : \E k \in Nat : W(k) /\ times[i] = S(k)
    BY <1>3, <1>6
  <1>9. \A i, j \in 1..n : i < j => times[i] < times[j]
    BY <1>1, <1>4, <1>6
  <1>10. ASSUME NEW k \in Nat, W(k)
         PROVE  \/ \E i \in 1..n : times[i] = S(k)
                \/ n = limit /\ \A i \in 1..n : times[i] < S(k)
    <2>1. k >= first /\ ~B(k)
      BY <1>3, <1>10
    <2>2. CASE k < first + n
      <3>1. k - first + 1 \in 1..n /\ first + (k - first + 1) - 1 = k
        BY <1>1, <2>1, <2>2
      <3> QED BY <1>6, <3>1
    <2>3. CASE ~(k < first + n)
      <3>1. ~B(first + n)
        BY <1>1, <1>5, <2>1, <2>3
      <3>2. \A i \in 1..n : first + i - 1 < k
        BY <1>1, <2>3
      <3> QED BY <1>2, <1>4, <1>6, <3>1, <3>2
    <2> QED BY <2>2, <2>3
  <1>11. n <= limit
    OBVIOUS
  <1> QED BY <1>7, <1>8, <1>9, <1>10, <1>11 DEF S, W, times, FirstWanted

(* next_future_slot is the next slot of the plan, and None only if the     *)
(* plan has no slot within the time it looks ahead (recurrence.py:74-77).  *)
THEOREM NextFutureSlotIsNext ==
  ASSUME NEW r \in Plan, NEW anchor \in Nat, NEW after \in Nat
  PROVE  LET next    == NextFutureSlot(anchor, r, after)
             W(k)    == Wanted(anchor, r, after, after + NativeHorizon + Margin, k)
         IN  /\ next \in Nat \cup {Never}
             /\ next # Never =>
                  /\ after < next
                  /\ \E k \in Nat : W(k) /\ next = Slot(anchor, r, k)
                  /\ \A k \in Nat : W(k) => next <= Slot(anchor, r, k)
             /\ next = Never => \A k \in Nat : ~W(k)
PROOF
  <1> DEFINE horizon == after + NativeHorizon + Margin
             times == UpcomingFireTimes(anchor, r, after, horizon, 1)
             next == NextFutureSlot(anchor, r, after)
             W(k) == Wanted(anchor, r, after, horizon, k)
             S(k) == Slot(anchor, r, k)
  <1>0. next = IF times = <<>> THEN Never ELSE times[1]
    BY DEF NextFutureSlot
  <1>1. horizon \in Nat
    BY HorizonAssumption
  <1> HIDE DEF horizon, times, next
  <1>2. /\ times \in Seq(Nat) /\ Len(times) <= 1
        /\ \A i \in 1..Len(times) : \E k \in Nat : W(k) /\ times[i] = S(k)
        /\ \A k \in Nat : W(k) =>
             \/ \E i \in 1..Len(times) : times[i] = S(k)
             \/ Len(times) = 1 /\ \A i \in 1..Len(times) : times[i] < S(k)
    <2>1. FirstWanted(times, anchor, r, after, horizon, 1)
      BY <1>1, UpcomingAreTheNextSlots DEF times
    <2> QED BY <2>1 DEF FirstWanted
  <1>3. \A k \in Nat : S(k) \in Nat /\ (W(k) => after < S(k))
    BY SlotsAscend DEF Wanted
  <1> HIDE DEF W, S
  <1>4. CASE times = <<>>
    <2>1. Len(times) = 0 /\ next = Never
      BY <1>0, <1>4, EmptySeq
    <2>2. \A k \in Nat : ~W(k)
      BY <1>2, <2>1
    <2> QED BY <2>1, <2>2 DEF next, W, S, horizon
  <1>5. CASE times # <<>>
    <2>1. Len(times) = 1 /\ next = times[1]
      <3>1. Len(times) \in Nat \ {0}
        BY <1>2, <1>5, EmptySeq
      <3> QED BY <1>0, <1>2, <1>5, <3>1
    <2>2. PICK k \in Nat : W(k) /\ next = S(k)
      BY <1>2, <2>1
    <2>3. next \in Nat /\ after < next /\ next # Never
      BY <1>3, <2>2 DEF Never
    <2>4. ASSUME NEW j \in Nat, W(j) PROVE next <= S(j)
      <3>1. \/ \E i \in 1..1 : times[i] = S(j)
            \/ \A i \in 1..1 : times[i] < S(j)
        BY <1>2, <2>1, <2>4
      <3>2. S(j) \in Nat /\ (S(j) = next \/ next < S(j))
        BY <1>3, <2>1, <3>1
      <3> QED BY <2>3, <3>2
    <2> QED BY <2>2, <2>3, <2>4 DEF next, W, S, horizon
  <1> QED BY <1>4, <1>5

(* fires_elapsed splits the plan: its slots up to and including `instant`  *)
(* are those with a smaller index (recurrence.py:80-89).                   *)
THEOREM ElapsedSplitsThePlan ==
  ASSUME NEW r \in Plan, NEW anchor \in Nat, NEW instant \in Nat
  PROVE  /\ FiresElapsed(anchor, r, instant) \in Nat
         /\ \A k \in Nat : InPlan(anchor, r, k) /\ Slot(anchor, r, k) <= instant
                             <=> k < FiresElapsed(anchor, r, instant)
PROOF
  <1> DEFINE effective == IF r.until # Never /\ r.until < instant THEN r.until ELSE instant
             elapsed   == (effective - anchor) \div r.delta + 1
             S(k)      == Slot(anchor, r, k)
  <1>1. /\ r.until \in Nat \cup {Never} /\ r.count \in Nat \cup {Never}
        /\ Never \notin Nat
    BY DEF Plan, Never
  <1>2. effective \in Nat
    BY <1>1
  <1>3. FiresElapsed(anchor, r, instant)
          = IF effective < anchor THEN 0
            ELSE IF r.count # Never /\ r.count < elapsed THEN r.count ELSE elapsed
    BY DEF FiresElapsed
  <1>4. /\ FirstAfter(anchor, r, effective) \in Nat
        /\ \A k \in Nat : S(k) > effective <=> k >= FirstAfter(anchor, r, effective)
    BY <1>2, FirstAfterIsFirst
  <1>5. FirstAfter(anchor, r, effective) = IF effective < anchor THEN 0 ELSE elapsed
    BY DEF FirstAfter
  <1>6. \A k \in Nat : S(k) \in Nat
    BY SlotsAscend
  <1>7. \A k \in Nat : InPlan(anchor, r, k) /\ S(k) <= instant
                         <=> S(k) <= effective /\ (r.count # Never => k < r.count)
    BY <1>1, <1>6 DEF InPlan
  <1> HIDE DEF effective, elapsed, S
  <1>8. CASE effective < anchor
    <2>1. \A k \in Nat : ~(S(k) <= effective)
      BY <1>2, <1>4, <1>5, <1>6, <1>8
    <2> QED BY <1>3, <1>7, <1>8, <2>1 DEF S
  <1>9. CASE ~(effective < anchor)
    <2>1. elapsed \in Nat /\ \A k \in Nat : S(k) <= effective <=> k < elapsed
      BY <1>2, <1>4, <1>5, <1>6, <1>9
    <2>2. FiresElapsed(anchor, r, instant) \in Nat
      BY <1>1, <1>3, <1>9, <2>1
    <2>3. \A k \in Nat : k < FiresElapsed(anchor, r, instant)
                           <=> k < elapsed /\ (r.count # Never => k < r.count)
      BY <1>1, <1>3, <1>9, <2>1
    <2> QED BY <1>7, <2>1, <2>2, <2>3 DEF S
  <1> QED BY <1>8, <1>9

(***************************************************************************)
(* The schedule engine.                                                    *)
(***************************************************************************)

LEMMA SlotAfterIsLater ==
  ASSUME NEW next \in Nat, NEW delta \in Nat \ {0}, NEW time \in Nat
  PROVE  /\ SlotAfter(next, delta, time) \in Nat
         /\ SlotAfter(next, delta, time) >= next
         /\ SlotAfter(next, delta, time) > time
PROOF
  <1>1. CASE next > time
    BY <1>1 DEF SlotAfter
  <1>2. CASE ~(next > time)
    <2> DEFINE m == ((time - next) \div delta + 1) * delta
    <2>1. time - next \in Nat
      BY <1>2
    <2>2. m \in Nat /\ m > time - next
      BY <2>1, SlotMultiples
    <2> HIDE DEF m
    <2>3. next + m \in Nat /\ next + m >= next /\ next + m > time
      BY <2>1, <2>2
    <2>4. SlotAfter(next, delta, time) = next + m
      BY <1>2 DEF SlotAfter, m
    <2> QED BY <2>3, <2>4
  <1> QED BY <1>1, <1>2

-----------------------------------------------------------------------------
(* Types.                                                                  *)

LEMMA RecordFields ==
  ASSUME NEW rec \in Record
  PROVE  /\ rec.plan \in Plan /\ rec.plan \in Plans
         /\ rec.plan.delta \in Nat \ {0}
         /\ rec.plan.count \in Nat \cup {Never} /\ rec.plan.until \in Nat \cup {Never}
         /\ rec.anchor \in Nat /\ rec.next \in Nat \cup {Never} /\ rec.done \in Nat
         /\ rec.runs \in 0..MaxTracked /\ MaxTracked \in Nat
PROOF
  BY RunnerAssumption DEF Record, Plan

LEMMA CompletedType ==
  ASSUME NEW rec \in Record
  PROVE  Completed(rec) \in Record
PROOF
  BY DEF Completed, Record

LEMMA WithRunType ==
  ASSUME NEW rec \in Record, NEW outcome
  PROVE  /\ WithRun(rec, outcome) \in Record
         /\ WithRun(rec, outcome) = [rec EXCEPT !.runs = WithRun(rec, outcome).runs]
PROOF
  BY RecordFields DEF WithRun, Record

LEMMA AdvanceType ==
  ASSUME NEW rec \in Record, NEW time \in Nat
  PROVE  AdvancePastNow(rec, time) \in Record
PROOF
  <1> DEFINE next == SlotAfter(rec.next, rec.plan.delta, time)
  <1>1. CASE rec.next = Never
    BY <1>1 DEF AdvancePastNow
  <1>2. CASE rec.next # Never
    <2>1. next \in Nat
      BY <1>2, RecordFields, SlotAfterIsLater
    <2> HIDE DEF next
    <2>2. [rec EXCEPT !.next = next] \in Record
      BY <2>1 DEF Record
    <2>3. AdvancePastNow(rec, time) \in {Completed(rec), [rec EXCEPT !.next = next]}
      BY <1>2 DEF AdvancePastNow, next
    <2> QED BY <2>2, <2>3, CompletedType
  <1> QED BY <1>1, <1>2

(* What a fire that does not raise makes of a record: one more is done,    *)
(* and the plan is over or goes on with a slot later than rec.next.        *)
Moves(rec, time, new) ==
  \E kept \in 0..MaxTracked, next \in Nat :
    LET fired == [rec EXCEPT !.runs = kept, !.done = @ + 1]
    IN  /\ fired \in Record /\ next > rec.next /\ next > time
        /\ new = IF RunnerComplete(fired, next) THEN Completed(fired)
                 ELSE [fired EXCEPT !.next = next]

LEMMA FiredType ==
  ASSUME NEW rec \in Record, rec.next # Never, NEW time \in Nat, NEW outcome
  PROVE  /\ Fired(rec, time, outcome) \in Record
         /\ outcome = "raised" =>
              Fired(rec, time, outcome) = [rec EXCEPT !.status = "error"]
         /\ outcome # "raised" => Moves(rec, time, Fired(rec, time, outcome))
PROOF
  <1> DEFINE with  == WithRun(rec, outcome)
             fired == [with EXCEPT !.done = @ + 1]
             next  == SlotAfter(rec.next + rec.plan.delta, rec.plan.delta, time)
  <1>1. next \in Nat /\ next > rec.next /\ next > time
    <2>1. rec.next + rec.plan.delta \in Nat /\ rec.next + rec.plan.delta > rec.next
      BY RecordFields
    <2>2. /\ next \in Nat /\ next >= rec.next + rec.plan.delta /\ next > time
      BY <2>1, RecordFields, SlotAfterIsLater
    <2> QED BY <2>1, <2>2, RecordFields
  <1>2. with \in Record /\ with = [rec EXCEPT !.runs = with.runs]
    BY WithRunType
  <1>3. Fired(rec, time, outcome)
          = IF outcome = "raised" THEN [rec EXCEPT !.status = "error"]
            ELSE IF RunnerComplete(fired, next) THEN Completed(fired)
            ELSE [fired EXCEPT !.next = next]
    BY DEF Fired
  <1> HIDE DEF with, next
  <1>4. fired \in Record /\ fired = [rec EXCEPT !.runs = with.runs, !.done = @ + 1]
    <2>1. PICK kept : kept = with.runs
      OBVIOUS
    <2>2. with = [rec EXCEPT !.runs = kept] /\ with \in Record
      BY <1>2, <2>1
    <2>3. fired = [rec EXCEPT !.runs = kept, !.done = @ + 1]
      BY <2>2 DEF Record
    <2>4. with \in Record
      BY <2>2
    <2>5. fired \in Record
      BY <2>4 DEF Record
    <2> QED BY <2>1, <2>3, <2>5
  <1>5. /\ [rec EXCEPT !.status = "error"] \in Record
        /\ [fired EXCEPT !.next = next] \in Record
    BY <1>1, <1>4 DEF Record
  <1>6. with.runs \in 0..MaxTracked
    BY <1>2 DEF Record
  <1> HIDE DEF fired
  <1>7. Fired(rec, time, outcome) \in Record
    BY <1>3, <1>4, <1>5, CompletedType
  <1>8. outcome # "raised" => Moves(rec, time, Fired(rec, time, outcome))
    BY <1>1, <1>3, <1>4, <1>6 DEF Moves
  <1> QED BY <1>3, <1>7, <1>8

(* A fire leaves the plan alone.                                           *)
LEMMA FiredPlan ==
  ASSUME NEW rec \in Record, rec.next # Never, NEW time \in Nat, NEW outcome
  PROVE  Fired(rec, time, outcome).plan = rec.plan
PROOF
  <1>1. CASE outcome = "raised"
    <2>1. Fired(rec, time, outcome) = [rec EXCEPT !.status = "error"]
      BY <1>1, FiredType
    <2> QED BY <2>1 DEF Record
  <1>2. CASE outcome # "raised"
    <2>1. Moves(rec, time, Fired(rec, time, outcome))
      BY <1>2, FiredType
    <2>2. ASSUME NEW new, Moves(rec, time, new) PROVE new.plan = rec.plan
      <3>1. PICK kept \in 0..MaxTracked, next \in Nat :
              LET fired == [rec EXCEPT !.runs = kept, !.done = @ + 1]
              IN  /\ fired \in Record
                  /\ new = IF RunnerComplete(fired, next) THEN Completed(fired)
                           ELSE [fired EXCEPT !.next = next]
        BY <2>2, Zenon DEF Moves
      <3> DEFINE fired == [rec EXCEPT !.runs = kept, !.done = @ + 1]
      <3>2. fired \in Record /\ fired.plan = rec.plan
        <4>1. fired \in Record
          BY <3>1
        <4>2. fired.plan = rec.plan
          BY DEF Record
        <4> QED BY <4>1, <4>2
      <3>3. new \in {Completed(fired), [fired EXCEPT !.next = next]}
        BY <3>1
      <3> HIDE DEF fired
      <3>4. Completed(fired).plan = rec.plan /\ [fired EXCEPT !.next = next].plan = rec.plan
        BY <3>2 DEF Completed, Record
      <3> QED BY <3>3, <3>4
    <2> QED BY <2>1, <2>2
  <1> QED BY <1>1, <1>2

LEMMA TypeInit == Init => TypeOK
PROOF
  <1> SUFFICES ASSUME Init PROVE TypeOK
    OBVIOUS
  <1>1. Stored(EmptyDict) /\ DOMAIN EmptyDict = {}
    BY DEF Stored, EmptyDict
  <1>2. NoHistory \in History
    BY RunnerAssumption DEF NoHistory, History, Never
  <1>3. /\ NoTick.now = 0 /\ NoTick.soonest = 0 /\ NoTick.todo = {}
        /\ NoTick.mem = EmptyDict
        /\ NoTick = [now |-> NoTick.now, mem |-> NoTick.mem, todo |-> NoTick.todo,
                     soonest |-> NoTick.soonest]
    BY DEF NoTick
  <1>4. 0 \in 0..MaxTime /\ 0 \in 0..MaxPending
    BY RunnerAssumption
  <1>5. Stored(disk) /\ unborn \subseteq Schedule \ DOMAIN disk
    BY <1>1, Zenon DEF Init
  <1>6. /\ tick = [now |-> tick.now, mem |-> tick.mem, todo |-> tick.todo,
                   soonest |-> tick.soonest]
        /\ tick.now \in Nat /\ tick.soonest \in Nat /\ Stored(tick.mem)
        /\ tick.todo \subseteq DOMAIN tick.mem
    <2>1. tick = NoTick
      BY DEF Init
    <2> QED BY <1>1, <1>3, <2>1
  <1>7. pending \in [Schedule -> 0..MaxPending] /\ history \in [Schedule -> History]
    BY <1>2, <1>4 DEF Init
  <1> QED BY <1>4, <1>5, <1>6, <1>7 DEF Init, TypeOK

(* Replacing a record.                                                     *)
LEMMA StoredUpdates ==
  ASSUME NEW m, Stored(m), NEW s \in DOMAIN m, NEW rec \in Record
  PROVE  Stored([m EXCEPT ![s] = rec]) /\ DOMAIN [m EXCEPT ![s] = rec] = DOMAIN m
PROOF
  BY DEF Stored

(* The types of what the tick leaves behind.                               *)
LEMMA TickDoneType ==
  ASSUME TypeOK, NEW s \in DOMAIN tick.mem, NEW rec \in Record,
         NEW soonest \in Nat \cup {Never}, TickDone(s, rec, soonest)
  PROVE  /\ tick' = [now |-> tick'.now, mem |-> tick'.mem, todo |-> tick'.todo,
                     soonest |-> tick'.soonest]
         /\ tick'.now = tick.now /\ tick'.mem = [tick.mem EXCEPT ![s] = rec]
         /\ tick'.todo = tick.todo \ {s}
         /\ tick'.soonest
              = IF soonest # Never /\ soonest < tick.soonest THEN soonest ELSE tick.soonest
         /\ tick'.soonest \in Nat /\ Stored(tick'.mem) /\ tick'.todo \subseteq DOMAIN tick'.mem
PROOF
  <1>1. /\ tick = [now |-> tick.now, mem |-> tick.mem, todo |-> tick.todo,
                   soonest |-> tick.soonest]
        /\ tick.now \in Nat /\ tick.soonest \in Nat /\ Stored(tick.mem)
        /\ tick.todo \subseteq DOMAIN tick.mem
    BY DEF TypeOK
  <1>2. PICK n, m, d, w : tick = [now |-> n, mem |-> m, todo |-> d, soonest |-> w]
    BY <1>1
  <1>3. tick.now = n /\ tick.mem = m /\ tick.todo = d /\ tick.soonest = w
    BY <1>2
  <1>4. tick' = [now |-> n, mem |-> [m EXCEPT ![s] = rec], todo |-> d \ {s},
                 soonest |-> IF soonest # Never /\ soonest < w THEN soonest ELSE w]
    BY <1>2, <1>3 DEF TickDone
  <1>5. s \in Schedule /\ Stored([tick.mem EXCEPT ![s] = rec])
    BY <1>1, StoredUpdates DEF Stored
  <1> QED BY <1>1, <1>3, <1>4, <1>5

(* The types of what an action of the tick may change.                     *)
TickType == /\ tick = [now |-> tick.now, mem |-> tick.mem, todo |-> tick.todo,
                       soonest |-> tick.soonest]
            /\ tick.now \in Nat /\ tick.soonest \in Nat /\ Stored(tick.mem)
            /\ tick.todo \subseteq DOMAIN tick.mem

LEMMA NoTickType == tick' = NoTick => TickType'
PROOF
  <1>1. Stored(EmptyDict) /\ DOMAIN EmptyDict = {}
    BY DEF Stored, EmptyDict
  <1>2. /\ NoTick.now = 0 /\ NoTick.soonest = 0 /\ NoTick.todo = {} /\ NoTick.mem = EmptyDict
        /\ NoTick = [now |-> NoTick.now, mem |-> NoTick.mem, todo |-> NoTick.todo,
                     soonest |-> NoTick.soonest]
    BY DEF NoTick
  <1> QED BY <1>1, <1>2 DEF TickType

LEMMA FireRunnerType ==
  ASSUME TypeOK, NEW s \in Schedule, NEW outcome, FireRunner(s, outcome)
  PROVE  pending' \in [Schedule -> 0..MaxPending]
PROOF
  BY RunnerAssumption DEF TypeOK, FireRunner

LEMMA WithFireType ==
  ASSUME NEW h \in History, NEW slot \in Nat \cup {Never}
  PROVE  WithFire(h, slot) \in History
PROOF
  <1>1. PICK f \in Nat : f = h.fires + 1
    BY DEF History
  <1>2. [h EXCEPT !.fires = f, !.redo = FALSE, !.slot = slot] \in History
    BY DEF History
  <1> QED BY <1>1, <1>2 DEF WithFire

LEMMA LoseType ==
  ASSUME TypeOK, Lose
  PROVE  /\ history' \in [Schedule -> History]
         /\ \A s \in Schedule :
              history'[s] = IF s \in DOMAIN tick.mem /\ s \in DOMAIN disk /\ tick.mem[s] # disk[s]
                            THEN [history[s] EXCEPT !.redo = @ \/ tick.mem[s].done # disk[s].done,
                                                    !.lost = @ + 1]
                            ELSE history[s]
PROOF
  <1> DEFINE changed == {s \in DOMAIN tick.mem \cap DOMAIN disk : tick.mem[s] # disk[s]}
             h(s) == [history[s] EXCEPT !.redo = @ \/ tick.mem[s].done # disk[s].done,
                                        !.lost = @ + 1]
  <1>1. /\ \A s \in changed : history[s].lost < MaxLost
        /\ history' = [s \in Schedule |-> IF s \in changed THEN h(s) ELSE history[s]]
    BY Zenon DEF Lose
  <1>2. history \in [Schedule -> History] /\ MaxLost \in Nat
    BY RunnerAssumption DEF TypeOK
  <1>3. ASSUME NEW s \in Schedule, history[s].lost < MaxLost
        PROVE  h(s) \in History
    <2>1. history[s] \in History
      BY <1>2
    <2>2. PICK b \in BOOLEAN : b = (history[s].redo \/ tick.mem[s].done # disk[s].done)
      OBVIOUS
    <2>3. PICK n \in 0..MaxLost : n = history[s].lost + 1
      BY <1>2, <1>3, <2>1 DEF History
    <2>4. [history[s] EXCEPT !.redo = b, !.lost = n] \in History
      BY <2>1 DEF History
    <2> QED BY <2>2, <2>3, <2>4
  <1>4. \A s \in Schedule : s \in changed <=>
          s \in DOMAIN tick.mem /\ s \in DOMAIN disk /\ tick.mem[s] # disk[s]
    OBVIOUS
  <1> HIDE DEF changed, h
  <1>5. history' \in [Schedule -> History]
    BY <1>1, <1>2, <1>3
  <1>6. \A s \in Schedule : history'[s] = IF s \in changed THEN h(s) ELSE history[s]
    BY <1>1
  <1> QED BY <1>4, <1>5, <1>6 DEF h

(* A record the operator asks for.                                         *)
LEMMA CreatedType ==
  ASSUME NEW r \in Plans, NEW start \in Starts, NEW at \in Nat
  PROVE  LET anchor == ComputeAnchor(start, r, at)
             next   == NextFutureSlot(anchor, r, at)
         IN  /\ [status |-> "active", plan |-> r, anchor |-> anchor, done |-> 0, runs |-> 0,
                 next |-> next] \in Record
             /\ next \in Nat \cup {Never}
PROOF
  <1> DEFINE anchor == ComputeAnchor(start, r, at)
             next   == NextFutureSlot(anchor, r, at)
  <1>1. r \in Plan /\ start \in Nat \cup {Never} /\ MaxTracked \in Nat
    BY RunnerAssumption
  <1>2. anchor \in Nat
    BY <1>1 DEF ComputeAnchor, Plan
  <1> HIDE DEF anchor
  <1>3. next \in Nat \cup {Never}
    BY <1>1, <1>2, NextFutureSlotIsNext
  <1> HIDE DEF next
  <1>4. [status |-> "active", plan |-> r, anchor |-> anchor, done |-> 0, runs |-> 0,
         next |-> next] \in Record
    BY <1>1, <1>2, <1>3 DEF Record
  <1> QED BY <1>3, <1>4 DEF next, anchor

(* During a tick the mapping it works on has the stored schedules, and     *)
(* those it has not come to are as they are stored, and active.            *)
TickSound == loop = "tick" =>
  /\ DOMAIN tick.mem = DOMAIN disk
  /\ \A s \in tick.todo : tick.mem[s] = disk[s] /\ disk[s].status = "active"
  /\ \A s \in DOMAIN disk : tick.mem[s].plan = disk[s].plan

LEMMA TypeStep == TypeOK /\ TickSound /\ [Next]_vars => TypeOK'
PROOF
  <1> SUFFICES ASSUME TypeOK, TickSound, [Next]_vars PROVE TypeOK'
    OBVIOUS
  <1>0. TickType
    BY DEF TypeOK, TickType
  <1>1. CASE UNCHANGED vars
    BY <1>1 DEF TypeOK, vars, Stored
  <1>2. ASSUME NEW s \in Schedule, RunEnters(s) \/ RunEnds(s) PROVE TypeOK'
    <2>1. pending' \in [Schedule -> 0..MaxPending] /\ running' \subseteq Schedule
      BY <1>2, RunnerAssumption DEF TypeOK, RunEnters, RunEnds
    <2> QED BY <1>2, <2>1 DEF TypeOK, Stored, RunEnters, RunEnds
  <1>3. ASSUME NEW a \in Account, OtherTakes(a) \/ OtherLeaves(a) PROVE TypeOK'
    <2>1. others' \subseteq Account
      BY <1>3 DEF TypeOK, OtherTakes, OtherLeaves
    <2> QED BY <1>3, <2>1 DEF TypeOK, Stored, OtherTakes, OtherLeaves
  <1>4. CASE Start
    BY <1>4 DEF TypeOK, Stored, Start, runs
  <1>5. CASE Clock
    BY <1>5, RunnerAssumption DEF TypeOK, Stored, Clock, runs
  <1>6. CASE TickBegin
    <2>1. Stored(disk) /\ now \in Nat /\ MaxSleep \in Nat
      BY RunnerAssumption DEF TypeOK
    <2>2. /\ tick'.now = now /\ tick'.mem = disk /\ tick'.soonest = now + MaxSleep
          /\ tick'.todo = {s \in DOMAIN disk : disk[s].status = "active"}
          /\ tick' = [now |-> tick'.now, mem |-> tick'.mem, todo |-> tick'.todo,
                      soonest |-> tick'.soonest]
      BY <1>6 DEF TickBegin
    <2>3. TickType'
      BY <2>1, <2>2 DEF TickType
    <2> QED BY <1>6, <2>3 DEF TypeOK, Stored, TickType, TickBegin, runs
  <1>7. ASSUME NEW s \in Schedule, TickNothingNext(s) PROVE TypeOK'
    <2>1. s \in DOMAIN tick.mem /\ Completed(tick.mem[s]) \in Record
      BY <1>7, CompletedType DEF TickNothingNext, TypeOK, Stored
    <2>2. TickType'
      <3>1. TickDone(s, Completed(tick.mem[s]), Never)
        BY <1>7 DEF TickNothingNext
      <3> QED BY <1>0, <2>1, <3>1, TickDoneType DEF TickType
    <2> QED BY <1>7, <2>2 DEF TypeOK, Stored, TickType, TickNothingNext, runs
  <1>8. ASSUME NEW s \in Schedule, TickNotDue(s) PROVE TypeOK'
    <2>1. s \in DOMAIN tick.mem /\ tick.mem[s] \in Record
      BY <1>8 DEF TickNotDue, TypeOK, Stored
    <2>2. tick.mem[s].next \in Nat \cup {Never}
      BY <2>1, RecordFields
    <2>3. TickType'
      <3>1. TickDone(s, tick.mem[s], tick.mem[s].next)
        BY <1>8 DEF TickNotDue
      <3> QED BY <1>0, <2>1, <2>2, <3>1, TickDoneType DEF TickType
    <2> QED BY <1>8, <2>3 DEF TypeOK, Stored, TickType, TickNotDue, runs
  <1>9. ASSUME NEW s \in Schedule, TickFire(s) PROVE TypeOK'
    <2>1. PICK outcome \in {"started", "skipped", "refused", "raised"} :
            LET rec == Fired(tick.mem[s], tick.now, outcome)
            IN  /\ FireRunner(s, outcome)
                /\ TickDone(s, rec, IF outcome = "raised" THEN tick.now + ErrorWake ELSE rec.next)
                /\ history' = IF outcome = "raised" THEN history
                              ELSE [history EXCEPT ![s] = WithFire(history[s], tick.mem[s].next)]
      BY <1>9, Zenon DEF TickFire
    <2>2. /\ s \in DOMAIN tick.mem /\ tick.mem[s] \in Record /\ tick.mem[s].next # Never
          /\ tick.now \in Nat
      BY <1>9 DEF TickFire, TypeOK, Stored
    <2>3. Fired(tick.mem[s], tick.now, outcome) \in Record
      BY <2>2, FiredType
    <2>4. (IF outcome = "raised" THEN tick.now + ErrorWake
           ELSE Fired(tick.mem[s], tick.now, outcome).next) \in Nat \cup {Never}
      BY <2>2, <2>3, RecordFields, RunnerAssumption
    <2>5. TickType'
      BY <2>1, <2>2, <2>3, <2>4, TickDoneType DEF TickType
    <2>6. history' \in [Schedule -> History]
      <3>1. tick.mem[s].next \in Nat \cup {Never} /\ history \in [Schedule -> History]
        BY <2>2, RecordFields DEF TypeOK
      <3>2. WithFire(history[s], tick.mem[s].next) \in History
        BY <3>1, WithFireType
      <3> QED BY <2>1, <3>1, <3>2
    <2>7. pending' \in [Schedule -> 0..MaxPending]
      BY <2>1, FireRunnerType
    <2> QED BY <1>9, <2>5, <2>6, <2>7 DEF TypeOK, Stored, TickType, TickFire
  <1>10. CASE TickSave
    <2>1. TickType'
      BY <1>10, NoTickType DEF TickSave
    <2>2. Stored(disk') /\ unborn' \subseteq Schedule \ DOMAIN disk'
      BY <1>10 DEF TickSave, TypeOK, TickSound
    <2> QED BY <1>10, <2>1, <2>2 DEF TypeOK, TickType, TickSave, runs
  <1>11. CASE TickSaveFails
    <2>1. Lose /\ tick' = NoTick /\ wakeAt' = now + 1
      BY <1>11 DEF TickSaveFails
    <2>2. TickType' /\ history' \in [Schedule -> History] /\ wakeAt' \in Nat
      <3>1. history' \in [Schedule -> History]
        BY <2>1, LoseType
      <3>2. wakeAt' \in Nat
        BY <2>1 DEF TypeOK
      <3> QED BY <2>1, <3>1, <3>2, NoTickType
    <2> QED BY <1>11, <2>2 DEF TypeOK, Stored, TickType, TickSaveFails, runs
  <1>12. CASE WakeUp
    BY <1>12 DEF TypeOK, Stored, WakeUp, runs
  <1>13. ASSUME NEW s \in Schedule, NEW r \in Plans, NEW start \in Starts, Create(s, r, start)
         PROVE  TypeOK'
    <2>1. PICK at \in 0..now :
            LET anchor == ComputeAnchor(start, r, at)
                rec == [status |-> "active", plan |-> r, anchor |-> anchor, done |-> 0,
                        runs |-> 0, next |-> NextFutureSlot(anchor, r, at)]
            IN  disk' = [x \in DOMAIN disk \cup {s} |-> IF x = s THEN rec ELSE disk[x]]
      BY <1>13, Zenon DEF Create
    <2>2. at \in Nat
      BY DEF TypeOK
    <2>3. PICK rec \in Record :
            disk' = [x \in DOMAIN disk \cup {s} |-> IF x = s THEN rec ELSE disk[x]]
      BY <2>1, <2>2, CreatedType
    <2>4. Stored(disk') /\ DOMAIN disk' = DOMAIN disk \cup {s}
      <3>1. Stored(disk)
        BY DEF TypeOK
      <3>2. Stored([x \in DOMAIN disk \cup {s} |-> IF x = s THEN rec ELSE disk[x]])
        BY <3>1 DEF Stored
      <3> QED BY <2>3, <3>2
    <2>5. unborn' \subseteq Schedule \ DOMAIN disk'
      BY <1>13, <2>4 DEF TypeOK, Create
    <2> QED BY <1>13, <2>4, <2>5 DEF TypeOK, Stored, Create, runs
  <1>14. ASSUME NEW s \in Schedule, Pause(s) PROVE TypeOK'
    <2>1. [disk[s] EXCEPT !.status = "paused"] \in Record
      BY <1>14 DEF Pause, TypeOK, Stored, Record
    <2>2. Stored(disk') /\ DOMAIN disk' = DOMAIN disk
      BY <1>14, <2>1, StoredUpdates DEF Pause, TypeOK
    <2> QED BY <1>14, <2>2 DEF TypeOK, Stored, Pause, runs
  <1>15. ASSUME NEW s \in Schedule, Resume(s) PROVE TypeOK'
    <2>1. [disk[s] EXCEPT !.status = "active"] \in Record /\ now \in Nat
      BY <1>15 DEF Resume, TypeOK, Stored, Record
    <2>2. AdvancePastNow([disk[s] EXCEPT !.status = "active"], now) \in Record
      BY <2>1, AdvanceType
    <2>3. Stored(disk') /\ DOMAIN disk' = DOMAIN disk
      BY <1>15, <2>2, StoredUpdates DEF Resume, TypeOK
    <2>4. history' \in [Schedule -> History]
      BY <1>15, <2>1 DEF Resume, TypeOK, History
    <2> QED BY <1>15, <2>3, <2>4 DEF TypeOK, Stored, Resume, runs
  <1>16. ASSUME NEW s \in Schedule, Delete(s) PROVE TypeOK'
    <2>1. Stored(disk') /\ DOMAIN disk' = DOMAIN disk \ {s}
      BY <1>16 DEF Delete, TypeOK, Stored
    <2>2. NoHistory \in History
      BY RunnerAssumption DEF NoHistory, History, Never
    <2>3. history' \in [Schedule -> History]
      BY <1>16, <2>2 DEF Delete, TypeOK
    <2> QED BY <1>16, <2>1, <2>3 DEF TypeOK, Stored, Delete, runs
  <1>17. ASSUME NEW s \in Schedule, RunNow(s) PROVE TypeOK'
    <2>1. PICK outcome \in {"started", "skipped", "refused"} :
            /\ FireRunner(s, outcome)
            /\ disk' = [disk EXCEPT ![s] = WithRun(disk[s], outcome)]
            /\ \E error \in BOOLEAN :
                 /\ wake' = (wake \/ ~error)
                 /\ history' = [history EXCEPT ![s].misled = @ \/ (error /\ outcome = "started")]
      BY <1>17, Zenon DEF RunNow
    <2>2. Stored(disk') /\ DOMAIN disk' = DOMAIN disk
      BY <1>17, <2>1, StoredUpdates, WithRunType DEF RunNow, TypeOK, Stored
    <2>3. history' \in [Schedule -> History]
      BY <2>1 DEF TypeOK, History
    <2>4. pending' \in [Schedule -> 0..MaxPending] /\ wake' \in BOOLEAN
      BY <2>1, FireRunnerType DEF TypeOK
    <2> QED BY <1>17, <2>2, <2>3, <2>4 DEF TypeOK, Stored, RunNow
  <1>18. CASE Crash
    <2>1. TickType' /\ history' \in [Schedule -> History]
      BY <1>18, NoTickType, LoseType DEF Crash, TypeOK
    <2>2. pending' \in [Schedule -> 0..MaxPending]
      BY <1>18, RunnerAssumption DEF Crash
    <2> QED BY <1>18, <2>1, <2>2 DEF TypeOK, Stored, TickType, Crash
  <1> QED BY <1>1, <1>2, <1>3, <1>4, <1>5, <1>6, <1>7, <1>8, <1>9, <1>10, <1>11, <1>12,
             <1>13, <1>14, <1>15, <1>16, <1>17, <1>18
          DEF Next, LoopStep, TickStep, Operator

-----------------------------------------------------------------------------
(* Records and what has happened to their schedules.                       *)

(* The next slot is later than the last resume, and later than the last    *)
(* fire unless that fire is to be repeated; every fire is counted unless   *)
(* it was lost; a plan that is not completed has fires left.               *)
Agrees(rec, h) ==
  /\ rec.next # Never => /\ rec.next > h.resumed
                         /\ rec.next > h.slot \/ (h.redo /\ rec.next = h.slot)
  /\ h.fires <= rec.done + h.lost
  /\ rec.plan.count # Never => /\ rec.done <= rec.plan.count
                               /\ rec.status # "completed" => rec.done < rec.plan.count

(* What Lose leaves of h when the tick's record rec differs from saved.    *)
Forgotten(rec, saved, h) == [h EXCEPT !.redo = @ \/ rec.done # saved.done, !.lost = @ + 1]

LEMMA HistoryFields ==
  ASSUME NEW h \in History
  PROVE  /\ h.fires \in Nat /\ h.slot \in Nat \cup {Never} /\ h.resumed \in Nat \cup {Never}
         /\ h.redo \in BOOLEAN /\ h.lost \in Nat
PROOF
  BY DEF History

LEMMA AgreesCompleted ==
  ASSUME NEW rec \in Record, NEW h \in History, Agrees(rec, h)
  PROVE  Agrees(Completed(rec), h)
PROOF
  <1>1. /\ Completed(rec).next = Never /\ Completed(rec).done = rec.done
        /\ Completed(rec).plan = rec.plan /\ Completed(rec).status = "completed"
    BY DEF Completed, Record
  <1> QED BY <1>1 DEF Agrees

LEMMA AgreesStatus ==
  ASSUME NEW rec \in Record, NEW h \in History, Agrees(rec, h), rec.status # "completed",
         NEW status \in {"active", "paused", "error"}
  PROVE  /\ [rec EXCEPT !.status = status] \in Record
         /\ Agrees([rec EXCEPT !.status = status], h)
PROOF
  <1> DEFINE new == [rec EXCEPT !.status = status]
  <1>1. /\ new \in Record /\ new.next = rec.next /\ new.done = rec.done /\ new.plan = rec.plan
    BY DEF Record
  <1> HIDE DEF new
  <1>2. Agrees(new, h)
    BY <1>1 DEF Agrees
  <1> QED BY <1>1, <1>2 DEF new

LEMMA AgreesWithRun ==
  ASSUME NEW rec \in Record, NEW h \in History, Agrees(rec, h), NEW outcome
  PROVE  Agrees(WithRun(rec, outcome), h)
PROOF
  <1> DEFINE new == WithRun(rec, outcome)
  <1>1. /\ new.next = rec.next /\ new.done = rec.done /\ new.plan = rec.plan
        /\ new.status = rec.status
    BY DEF Record, WithRun
  <1> HIDE DEF new
  <1>2. Agrees(new, h)
    BY <1>1 DEF Agrees
  <1> QED BY <1>2 DEF new

(* A resume moves the record past the time of the resume.                  *)
LEMMA AgreesAdvance ==
  ASSUME NEW rec \in Record, NEW h \in History, Agrees(rec, h), rec.status # "completed",
         NEW time \in Nat
  PROVE  Agrees(AdvancePastNow(rec, time), [h EXCEPT !.resumed = time])
PROOF
  <1> DEFINE new  == [h EXCEPT !.resumed = time]
             next == SlotAfter(rec.next, rec.plan.delta, time)
  <1>1. /\ new \in History /\ new.resumed = time
        /\ new.slot = h.slot /\ new.redo = h.redo /\ new.fires = h.fires /\ new.lost = h.lost
    BY DEF History
  <1> HIDE DEF new
  <1>2. CASE rec.next = Never
    <2>1. AdvancePastNow(rec, time) = rec
      BY <1>2 DEF AdvancePastNow
    <2>2. Agrees(rec, new)
      BY <1>1, <1>2 DEF Agrees
    <2> QED BY <2>1, <2>2 DEF new
  <1>3. CASE rec.next # Never
    <2>1. next \in Nat /\ next > time /\ next >= rec.next /\ rec.next \in Nat
      BY <1>3, RecordFields, SlotAfterIsLater
    <2> HIDE DEF next
    <2>2. AdvancePastNow(rec, time) \in {Completed(rec), [rec EXCEPT !.next = next]}
      BY <1>3 DEF AdvancePastNow, next
    <2>3. PICK moved : moved = [rec EXCEPT !.next = next]
      OBVIOUS
    <2>4. /\ moved.next = next /\ moved.done = rec.done /\ moved.plan = rec.plan
          /\ moved.status = rec.status
      BY <2>3 DEF Record
    <2>5. Agrees(moved, new)
      <3>1. next > h.slot \/ (h.redo /\ next = h.slot)
        <4>1. rec.next > h.slot \/ (h.redo /\ rec.next = h.slot)
          BY <1>3 DEF Agrees
        <4>2. h.slot \in Int
          BY HistoryFields DEF Never
        <4>3. next > h.slot \/ next = rec.next
          BY <2>1, <4>1, <4>2
        <4> QED BY <4>1, <4>3
      <3>2. /\ h.fires <= rec.done + h.lost
            /\ rec.plan.count # Never => /\ rec.done <= rec.plan.count
                                         /\ rec.status # "completed" => rec.done < rec.plan.count
        BY DEF Agrees
      <3> QED BY <1>1, <2>1, <2>4, <3>1, <3>2 DEF Agrees
    <2>6. /\ Completed(rec).next = Never /\ Completed(rec).done = rec.done
          /\ Completed(rec).plan = rec.plan /\ Completed(rec).status = "completed"
      BY DEF Completed, Record
    <2>7. Agrees(Completed(rec), new)
      BY <1>1, <2>6 DEF Agrees
    <2> QED BY <2>2, <2>3, <2>5, <2>7 DEF new
  <1> QED BY <1>2, <1>3

(* Falling back to a record that agreed before.                            *)
LEMMA AgreesForgotten ==
  ASSUME NEW saved \in Record, NEW h \in History, Agrees(saved, h), NEW rec
  PROVE  Agrees(saved, Forgotten(rec, saved, h))
PROOF
  <1> DEFINE new == Forgotten(rec, saved, h)
  <1>1. /\ new.slot = h.slot /\ new.fires = h.fires /\ new.lost = h.lost + 1
        /\ new.resumed = h.resumed /\ (h.redo => new.redo)
    BY Zenon DEF Forgotten, History
  <1> HIDE DEF new
  <1>2. Agrees(saved, new)
    BY <1>1, HistoryFields, RecordFields DEF Agrees
  <1> QED BY <1>2 DEF new

(* A fire: the new record agrees, and the stored one would if the tick     *)
(* were lost.                                                              *)
LEMMA AgreesFired ==
  ASSUME NEW rec \in Record, NEW h \in History, Agrees(rec, h), rec.status = "active",
         rec.next # Never, NEW time \in Nat, rec.next <= time,
         NEW outcome, outcome # "raised"
  PROVE  /\ Agrees(Fired(rec, time, outcome), WithFire(h, rec.next))
         /\ Agrees(rec, Forgotten(Fired(rec, time, outcome), rec, WithFire(h, rec.next)))
PROOF
  <1> DEFINE new  == Fired(rec, time, outcome)
             once == WithFire(h, rec.next)
             lost == Forgotten(new, rec, once)
  <1>0. /\ rec.next \in Nat /\ rec.done \in Nat /\ rec.plan.count \in Nat \cup {Never}
        /\ h.fires \in Nat /\ h.lost \in Nat /\ h.slot \in Int /\ h.resumed \in Int
    BY RecordFields, HistoryFields DEF Never
  <1>1. /\ once.fires = h.fires + 1 /\ once.redo = FALSE /\ once.slot = rec.next
        /\ once.lost = h.lost /\ once.resumed = h.resumed
    BY DEF WithFire, History
  <1>2. PICK kept \in 0..MaxTracked, next \in Nat :
          LET fired == [rec EXCEPT !.runs = kept, !.done = @ + 1]
          IN  /\ fired \in Record /\ next > rec.next /\ next > time
              /\ new = IF RunnerComplete(fired, next) THEN Completed(fired)
                       ELSE [fired EXCEPT !.next = next]
    <2>1. Moves(rec, time, new)
      BY FiredType
    <2> QED BY <2>1, Zenon DEF Moves
  <1> DEFINE fired == [rec EXCEPT !.runs = kept, !.done = @ + 1]
  <1>3. /\ fired.done = rec.done + 1 /\ fired.plan = rec.plan /\ fired.status = "active"
        /\ fired \in Record
    <2>1. fired \in Record
      BY <1>2
    <2>2. fired.done = rec.done + 1 /\ fired.plan = rec.plan /\ fired.status = "active"
      BY DEF Record
    <2> QED BY <2>1, <2>2
  <1>4. /\ next > rec.next
        /\ new = IF RunnerComplete(fired, next) THEN Completed(fired)
                 ELSE [fired EXCEPT !.next = next]
    BY <1>2
  <1> HIDE DEF fired, new, once
  <1>5. /\ new.done = rec.done + 1 /\ new.plan = rec.plan
        /\ new.next = Never \/ new.next = next
        /\ \/ new.status = "completed"
           \/ new.status = "active" /\ ~RunnerComplete(fired, next)
    <2>1. CASE RunnerComplete(fired, next)
      <3>1. new = Completed(fired)
        BY <1>4, <2>1
      <3> QED BY <1>3, <3>1 DEF Completed, Record
    <2>2. CASE ~RunnerComplete(fired, next)
      <3>1. new = [fired EXCEPT !.next = next]
        BY <1>4, <2>2
      <3> QED BY <1>3, <2>2, <3>1 DEF Record
    <2> QED BY <2>1, <2>2
  <1>6. Agrees(new, once)
    <2>1. rec.plan.count # Never => rec.done < rec.plan.count
      BY DEF Agrees
    <2>2. ~RunnerComplete(fired, next) =>
            (rec.plan.count # Never => ~(rec.done + 1 >= rec.plan.count))
      BY <1>3 DEF RunnerComplete
    <2>3. next > h.resumed
      BY <1>0, <1>4 DEF Agrees
    <2>4. once.fires <= new.done + once.lost
      BY <1>0, <1>1, <1>5 DEF Agrees
    <2>5. new.plan.count # Never =>
            /\ new.done <= new.plan.count
            /\ new.status # "completed" => new.done < new.plan.count
      BY <1>0, <1>5, <2>1, <2>2
    <2>6. new.next # Never => new.next > once.resumed /\ new.next > once.slot
      BY <1>1, <1>4, <1>5, <2>3
    <2> QED BY <2>4, <2>5, <2>6 DEF Agrees
  <1>7. Agrees(rec, lost)
    <2>1. new.done # rec.done
      BY <1>0, <1>5
    <2>2. once \in History
      BY <1>0, RecordFields, WithFireType DEF once
    <2>3. /\ lost.redo /\ lost.slot = once.slot /\ lost.fires = once.fires
          /\ lost.lost = once.lost + 1 /\ lost.resumed = once.resumed
      BY <2>1, <2>2, Zenon DEF Forgotten, History
    <2> HIDE DEF lost
    <2>4. lost.fires <= rec.done + lost.lost
      BY <1>0, <1>1, <2>3 DEF Agrees
    <2>5. rec.next > lost.resumed /\ rec.next = lost.slot
      BY <1>1, <2>3 DEF Agrees
    <2> QED BY <2>3, <2>4, <2>5 DEF Agrees
  <1> QED BY <1>6, <1>7 DEF new, once

-----------------------------------------------------------------------------
(* The inductive invariant.                                                *)

Books ==
  \A s \in DOMAIN disk :
    IF loop = "tick"
    THEN /\ Agrees(tick.mem[s], history[s])
         /\ tick.mem[s] # disk[s] =>
              Agrees(disk[s], Forgotten(tick.mem[s], disk[s], history[s]))
    ELSE Agrees(disk[s], history[s])

Fresh == \A s \in unborn : history[s] = NoHistory

(* The tick will sleep no longer than to the slots it has seen.            *)
TickInTime ==
  loop = "tick" => \A s \in DOMAIN tick.mem \ tick.todo :
    tick.mem[s].status = "active" /\ tick.mem[s].next # Never => tick.soonest <= tick.mem[s].next

IInv == TypeOK /\ TickSound /\ Books /\ Fresh /\ TickInTime /\ SleepsInTime

LEMMA InvInit == Init => IInv
PROOF
  <1> SUFFICES ASSUME Init PROVE IInv
    OBVIOUS
  <1>1. DOMAIN disk = {} /\ loop = "off" /\ \A s \in Schedule : history[s] = NoHistory
    BY DEF Init, EmptyDict
  <1>2. unborn = Schedule
    BY DEF Init
  <1> QED BY <1>1, <1>2, TypeInit
          DEF IInv, TickSound, Books, Fresh, TickInTime, SleepsInTime

(* What the tick has to show for a schedule it is done with.               *)
LEMMA TickDoneKeeps ==
  ASSUME IInv, loop = "tick", loop' = "tick", NEW s \in tick.todo,
         NEW rec \in Record, NEW soonest \in Nat \cup {Never}, TickDone(s, rec, soonest),
         UNCHANGED <<disk, unborn, now, wakeAt, wake>>,
         history' \in [Schedule -> History],
         \A x \in Schedule : x # s => history'[x] = history[x],
         Agrees(rec, history'[s]), rec.plan = disk[s].plan,
         rec # disk[s] => Agrees(disk[s], Forgotten(rec, disk[s], history'[s])),
         rec.status = "active" /\ rec.next # Never => soonest = rec.next
  PROVE  (TickSound /\ Books /\ Fresh /\ TickInTime /\ SleepsInTime)'
PROOF
  <1>1. /\ s \in DOMAIN tick.mem /\ DOMAIN tick.mem = DOMAIN disk /\ TypeOK
        /\ tick.todo \subseteq DOMAIN tick.mem /\ s \in Schedule
        /\ tick.soonest \in Nat
        /\ \A x \in tick.todo : tick.mem[x] = disk[x] /\ disk[x].status = "active"
    BY DEF IInv, TypeOK, TickSound, Stored
  <1>2. /\ tick'.mem = [tick.mem EXCEPT ![s] = rec] /\ tick'.todo = tick.todo \ {s}
        /\ tick'.soonest
             = IF soonest # Never /\ soonest < tick.soonest THEN soonest ELSE tick.soonest
    BY <1>1, TickDoneType
  <1>3. /\ DOMAIN tick'.mem = DOMAIN disk /\ tick'.mem[s] = rec
        /\ \A x \in DOMAIN disk : x # s => tick'.mem[x] = tick.mem[x]
    BY <1>1, <1>2 DEF TypeOK, Stored
  <1>4. TickSound'
    <2>1. \A x \in DOMAIN disk : tick'.mem[x].plan = disk[x].plan
      BY <1>3 DEF IInv, TickSound
    <2> QED BY <1>1, <1>2, <1>3, <2>1 DEF TickSound
  <1>5. Books'
    <2>1. \A x \in DOMAIN disk : x \in Schedule
      BY <1>1 DEF TypeOK, Stored
    <2>2. \A x \in DOMAIN disk :
            /\ Agrees(tick.mem[x], history[x])
            /\ tick.mem[x] # disk[x] =>
                 Agrees(disk[x], Forgotten(tick.mem[x], disk[x], history[x]))
      BY DEF IInv, Books
    <2>3. \A x \in DOMAIN disk :
            /\ Agrees(tick'.mem[x], history'[x])
            /\ tick'.mem[x] # disk[x] =>
                 Agrees(disk[x], Forgotten(tick'.mem[x], disk[x], history'[x]))
      <3> TAKE x \in DOMAIN disk
      <3>1. CASE x = s
        BY <1>3, <3>1
      <3>2. CASE x # s
        <4>1. tick'.mem[x] = tick.mem[x] /\ history'[x] = history[x]
          BY <1>3, <2>1, <3>2
        <4> QED BY <2>2, <4>1
      <3> QED BY <3>1, <3>2
    <2> QED BY <2>3 DEF Books
  <1>6. Fresh'
    <2>1. s \notin unborn
      BY <1>1 DEF TypeOK
    <2> QED BY <1>1, <2>1 DEF IInv, Fresh, TypeOK
  <1>7. TickInTime'
    <2>1. tick'.soonest <= tick.soonest /\ tick'.soonest \in Nat
      BY <1>1, <1>2
    <2>2. rec.status = "active" /\ rec.next # Never => tick'.soonest <= rec.next
      BY <1>1, <1>2, RecordFields
    <2>3. ASSUME NEW x \in DOMAIN tick'.mem \ tick'.todo, x # s,
                 tick'.mem[x].status = "active", tick'.mem[x].next # Never
          PROVE  tick'.soonest <= tick'.mem[x].next
      <3>1. x \in DOMAIN tick.mem \ tick.todo /\ tick'.mem[x] = tick.mem[x]
        BY <1>1, <1>2, <1>3, <2>3
      <3>2. tick.soonest <= tick.mem[x].next
        BY <2>3, <3>1 DEF IInv, TickInTime
      <3>3. tick.mem[x] \in Record
        BY <1>1, <3>1 DEF TypeOK, Stored
      <3>4. tick.mem[x].next \in Nat
        BY <2>3, <3>1, <3>3, RecordFields
      <3> QED BY <1>1, <2>1, <3>1, <3>2, <3>4
    <2> QED BY <1>3, <2>2, <2>3 DEF TickInTime
  <1>8. SleepsInTime'
    BY DEF SleepsInTime
  <1> QED BY <1>4, <1>5, <1>6, <1>7, <1>8

(* What an endpoint has to show for the schedule it works on.              *)
LEMMA EndpointKeeps ==
  ASSUME IInv, LockFree, UNCHANGED <<loop, tick, now, wakeAt>>, NEW s \in Schedule,
         \A x \in DOMAIN disk' : x # s => x \in DOMAIN disk /\ disk'[x] = disk[x],
         \A x \in Schedule : x # s => history'[x] = history[x],
         unborn' \subseteq unborn, s \notin unborn',
         s \in DOMAIN disk' => Agrees(disk'[s], history'[s]),
         \/ wake'
         \/ /\ wake' = wake
            /\ s \in DOMAIN disk' => /\ s \in DOMAIN disk
                                     /\ disk'[s].status = disk[s].status
                                     /\ disk'[s].next = disk[s].next
  PROVE  (TickSound /\ Books /\ Fresh /\ TickInTime /\ SleepsInTime)'
PROOF
  <1>1. loop # "tick" /\ loop' # "tick"
    BY DEF LockFree
  <1>2. DOMAIN disk \subseteq Schedule /\ unborn \subseteq Schedule
    BY DEF IInv, TypeOK, Stored
  <1>3. TickSound' /\ TickInTime'
    BY <1>1 DEF TickSound, TickInTime
  <1>4. Books'
    <2>1. \A x \in DOMAIN disk : Agrees(disk[x], history[x])
      BY <1>1 DEF IInv, Books
    <2>2. \A x \in DOMAIN disk' : Agrees(disk'[x], history'[x])
      <3> TAKE x \in DOMAIN disk'
      <3>1. CASE x = s
        BY <3>1
      <3>2. CASE x # s
        <4>1. x \in DOMAIN disk /\ disk'[x] = disk[x] /\ history'[x] = history[x]
          BY <1>2, <3>2
        <4> QED BY <2>1, <4>1
      <3> QED BY <3>1, <3>2
    <2> QED BY <1>1, <2>2 DEF Books
  <1>5. Fresh'
    BY <1>2 DEF IInv, Fresh
  <1>6. SleepsInTime'
    <2>1. CASE wake'
      BY <2>1 DEF SleepsInTime
    <2>2. CASE /\ wake' = wake
               /\ s \in DOMAIN disk' => /\ s \in DOMAIN disk
                                        /\ disk'[s].status = disk[s].status
                                        /\ disk'[s].next = disk[s].next
      <3>1. \A x \in DOMAIN disk' : /\ x \in DOMAIN disk
                                    /\ disk'[x].status = disk[x].status
                                    /\ disk'[x].next = disk[x].next
        BY <2>2
      <3> QED BY <2>2, <3>1 DEF IInv, SleepsInTime
    <2> QED BY <2>1, <2>2
  <1> QED BY <1>3, <1>4, <1>5, <1>6

(* A tick that is lost leaves every stored schedule in agreement.          *)
LEMMA LoseAgrees ==
  ASSUME IInv, loop = "tick", Lose, NEW s \in DOMAIN disk
  PROVE  Agrees(disk[s], history'[s])
PROOF
  <1>1. s \in Schedule /\ s \in DOMAIN tick.mem
    BY DEF IInv, TypeOK, Stored, TickSound
  <1>2. /\ Agrees(tick.mem[s], history[s])
        /\ tick.mem[s] # disk[s] =>
             Agrees(disk[s], Forgotten(tick.mem[s], disk[s], history[s]))
    BY DEF IInv, Books
  <1>3. history'[s] = IF tick.mem[s] # disk[s] THEN Forgotten(tick.mem[s], disk[s], history[s])
                      ELSE history[s]
    BY <1>1, LoseType DEF IInv, Forgotten
  <1> QED BY <1>2, <1>3

LEMMA LoseFresh ==
  ASSUME IInv, Lose
  PROVE  \A s \in unborn : history'[s] = NoHistory
PROOF
  <1>1. \A s \in unborn : s \in Schedule /\ s \notin DOMAIN disk
    BY DEF IInv, TypeOK
  <1> QED BY <1>1, LoseType DEF IInv, Fresh

LEMMA InvStep == IInv /\ [Next]_vars => IInv'
PROOF
  <1> SUFFICES ASSUME IInv, [Next]_vars PROVE IInv'
    OBVIOUS
  <1> DEFINE Rest == TickSound /\ Books /\ Fresh /\ TickInTime /\ SleepsInTime
  <1>0. TypeOK'
    BY TypeStep DEF IInv
  <1> SUFFICES Rest'
    BY <1>0 DEF IInv
  <1>1. CASE UNCHANGED <<disk, unborn, now, loop, tick, wakeAt, wake, history>>
    BY <1>1 DEF IInv, TickSound, Books, Fresh, TickInTime, SleepsInTime
  <1>2. CASE Start
    BY <1>2 DEF Start, IInv, TickSound, Books, Fresh, TickInTime, SleepsInTime
  <1>3. CASE Clock
    <2>1. SleepsInTime'
      <3>1. \A n \in Nat : n <= now + 1 => n <= now'+ 1
        BY <1>3 DEF Clock, IInv, TypeOK
      <3> QED BY <1>3, <3>1 DEF Clock, IInv, SleepsInTime, TypeOK
    <2> QED BY <1>3, <2>1 DEF Clock, IInv, TickSound, Books, Fresh, TickInTime
  <1>4. CASE TickBegin
    <2>1. /\ loop = "ready" /\ loop' = "tick" /\ tick'.mem = disk
          /\ tick'.soonest = now + MaxSleep
          /\ tick'.todo = {s \in DOMAIN disk : disk[s].status = "active"}
          /\ UNCHANGED <<disk, unborn, now, wakeAt, wake, history>>
      BY <1>4 DEF TickBegin
    <2>2. TickSound'
      BY <2>1 DEF TickSound
    <2>3. Books'
      BY <2>1 DEF IInv, Books
    <2>4. Fresh' /\ TickInTime' /\ SleepsInTime'
      BY <2>1 DEF IInv, Fresh, TickInTime, SleepsInTime
    <2> QED BY <2>2, <2>3, <2>4
  <1>5. ASSUME NEW s \in Schedule, TickNothingNext(s) PROVE Rest'
    <2>1. /\ loop = "tick" /\ loop' = "tick" /\ s \in tick.todo /\ history' = history
          /\ TickDone(s, Completed(tick.mem[s]), Never)
          /\ UNCHANGED <<disk, unborn, now, wakeAt, wake>>
      BY <1>5 DEF TickNothingNext
    <2>2. s \in DOMAIN disk /\ tick.mem[s] = disk[s] /\ disk[s] \in Record
          /\ history[s] \in History /\ history' \in [Schedule -> History]
      BY <2>1 DEF IInv, TypeOK, TickSound, Stored
    <2>3. Agrees(disk[s], history[s])
      BY <2>1, <2>2 DEF IInv, Books
    <2>4. /\ Completed(disk[s]) \in Record /\ Completed(disk[s]).next = Never
          /\ Completed(disk[s]).plan = disk[s].plan
      BY <2>2, CompletedType DEF Completed, Record
    <2>5. Agrees(Completed(disk[s]), history[s])
      BY <2>2, <2>3, AgreesCompleted
    <2>6. Agrees(disk[s], Forgotten(Completed(disk[s]), disk[s], history[s]))
      BY <2>2, <2>3, AgreesForgotten
    <2> QED BY <2>1, <2>2, <2>4, <2>5, <2>6, TickDoneKeeps
  <1>6. ASSUME NEW s \in Schedule, TickNotDue(s) PROVE Rest'
    <2>1. /\ loop = "tick" /\ loop' = "tick" /\ s \in tick.todo /\ history' = history
          /\ TickDone(s, tick.mem[s], tick.mem[s].next)
          /\ UNCHANGED <<disk, unborn, now, wakeAt, wake>>
      BY <1>6 DEF TickNotDue
    <2>2. s \in DOMAIN disk /\ tick.mem[s] = disk[s] /\ disk[s] \in Record
          /\ history[s] \in History /\ history' \in [Schedule -> History]
      BY <2>1 DEF IInv, TypeOK, TickSound, Stored
    <2>3. Agrees(disk[s], history[s])
      BY <2>1, <2>2 DEF IInv, Books
    <2>4. disk[s].next \in Nat \cup {Never}
      BY <2>2, RecordFields
    <2> QED BY <2>1, <2>2, <2>3, <2>4, TickDoneKeeps
  <1>7. ASSUME NEW s \in Schedule, TickFire(s) PROVE Rest'
    <2>1. PICK outcome \in {"started", "skipped", "refused", "raised"} :
            LET rec == Fired(tick.mem[s], tick.now, outcome)
            IN  /\ FireRunner(s, outcome)
                /\ TickDone(s, rec, IF outcome = "raised" THEN tick.now + ErrorWake ELSE rec.next)
                /\ history' = IF outcome = "raised" THEN history
                              ELSE [history EXCEPT ![s] = WithFire(history[s], tick.mem[s].next)]
      BY <1>7, Zenon DEF TickFire
    <2> DEFINE rec     == Fired(disk[s], tick.now, outcome)
               soonest == IF outcome = "raised" THEN tick.now + ErrorWake ELSE rec.next
    <2>2. /\ loop = "tick" /\ loop' = "tick" /\ s \in tick.todo
          /\ tick.mem[s].next # Never /\ tick.mem[s].next <= tick.now
          /\ UNCHANGED <<disk, unborn, now, wakeAt, wake>>
      BY <1>7 DEF TickFire
    <2>3. /\ s \in DOMAIN disk /\ tick.mem[s] = disk[s] /\ disk[s] \in Record
          /\ disk[s].status = "active" /\ history \in [Schedule -> History] /\ tick.now \in Nat
      BY <2>2 DEF IInv, TypeOK, TickSound, Stored
    <2>4. Agrees(disk[s], history[s]) /\ history[s] \in History
      BY <2>2, <2>3 DEF IInv, Books
    <2>5. rec \in Record /\ rec.plan = disk[s].plan
      BY <2>2, <2>3, FiredType, FiredPlan
    <2>6. TickDone(s, rec, soonest)
      BY <2>1, <2>3
    <2>7. CASE outcome = "raised"
      <3>1. rec = [disk[s] EXCEPT !.status = "error"]
        BY <2>2, <2>3, <2>7, FiredType
      <3>2. Agrees(rec, history[s])
        BY <2>3, <2>4, <3>1, AgreesStatus
      <3>3. Agrees(disk[s], Forgotten(rec, disk[s], history[s]))
        BY <2>3, <2>4, AgreesForgotten
      <3>4. rec.status = "error"
        BY <2>3, <3>1 DEF Record
      <3>5. soonest \in Nat \cup {Never}
        BY <2>3, <2>7, RunnerAssumption
      <3>6. history' = history
        BY <2>1, <2>7
      <3> HIDE DEF rec, soonest
      <3> QED BY <2>2, <2>3, <2>5, <2>6, <3>2, <3>3, <3>4, <3>5, <3>6, TickDoneKeeps
    <2>8. CASE outcome # "raised"
      <3>1. history' = [history EXCEPT ![s] = WithFire(history[s], disk[s].next)]
        BY <2>1, <2>3, <2>8
      <3>2. /\ Agrees(rec, WithFire(history[s], disk[s].next))
            /\ Agrees(disk[s], Forgotten(rec, disk[s], WithFire(history[s], disk[s].next)))
        BY <2>2, <2>3, <2>4, <2>8, AgreesFired
      <3>3. history'[s] = WithFire(history[s], disk[s].next)
        BY <2>3, <3>1
      <3>4. \A x \in Schedule : x # s => history'[x] = history[x]
        BY <2>3, <3>1
      <3>5. soonest = rec.next /\ soonest \in Nat \cup {Never}
        BY <2>5, <2>8, RecordFields
      <3>6. history' \in [Schedule -> History]
        BY <1>0 DEF TypeOK
      <3> HIDE DEF rec, soonest
      <3> QED BY <2>2, <2>3, <2>5, <2>6, <3>2, <3>3, <3>4, <3>5, <3>6, TickDoneKeeps
    <2> QED BY <2>7, <2>8
  <1>8. CASE TickSave
    <2>1. /\ loop = "tick" /\ loop' = "sleep" /\ tick.todo = {} /\ disk' = tick.mem
          /\ wakeAt' = tick.soonest /\ UNCHANGED <<unborn, now, wake, history>>
      BY <1>8 DEF TickSave
    <2>2. DOMAIN disk' = DOMAIN disk
      BY <2>1 DEF IInv, TickSound
    <2>3. Books'
      BY <2>1, <2>2 DEF IInv, Books
    <2>4. SleepsInTime'
      BY <2>1 DEF IInv, TickInTime, SleepsInTime
    <2> QED BY <2>1, <2>3, <2>4 DEF IInv, TickSound, Fresh, TickInTime
  <1>9. CASE TickSaveFails
    <2>1. /\ loop = "tick" /\ loop' = "sleep" /\ Lose /\ wakeAt' = now + 1
          /\ UNCHANGED <<disk, unborn, now>>
      BY <1>9 DEF TickSaveFails
    <2>2. Books'
      BY <2>1, LoseAgrees DEF Books
    <2>3. Fresh'
      BY <2>1, LoseFresh DEF Fresh
    <2>4. SleepsInTime'
      BY <2>1 DEF IInv, TypeOK, SleepsInTime
    <2> QED BY <2>1, <2>2, <2>3, <2>4 DEF TickSound, TickInTime
  <1>10. CASE WakeUp
    BY <1>10 DEF WakeUp, IInv, TickSound, Books, Fresh, TickInTime, SleepsInTime
  <1>11. CASE Crash
    <2>1. /\ loop' = "off" /\ UNCHANGED <<disk, unborn, now>>
          /\ IF loop = "tick" THEN Lose ELSE UNCHANGED history
      BY <1>11 DEF Crash
    <2>2. Books'
      BY <2>1, LoseAgrees DEF IInv, Books
    <2>3. Fresh'
      BY <2>1, LoseFresh DEF IInv, Fresh
    <2> QED BY <2>1, <2>2, <2>3 DEF TickSound, TickInTime, SleepsInTime
  <1>12. ASSUME NEW s \in Schedule, NEW r \in Plans, NEW start \in Starts, Create(s, r, start)
         PROVE  Rest'
    <2>1. PICK at \in 0..now :
            LET anchor == ComputeAnchor(start, r, at)
                rec == [status |-> "active", plan |-> r, anchor |-> anchor, done |-> 0,
                        runs |-> 0, next |-> NextFutureSlot(anchor, r, at)]
            IN  disk' = [x \in DOMAIN disk \cup {s} |-> IF x = s THEN rec ELSE disk[x]]
      BY <1>12, Zenon DEF Create
    <2>2. /\ LockFree /\ s \in unborn /\ unborn' = unborn \ {s} /\ wake' = TRUE
          /\ UNCHANGED <<now, loop, tick, wakeAt, history>>
      BY <1>12 DEF Create
    <2> DEFINE anchor == ComputeAnchor(start, r, at)
               next == NextFutureSlot(anchor, r, at)
    <2>3. next \in Nat \cup {Never} /\ r \in Plan
      <3>1. at \in Nat
        BY DEF IInv, TypeOK
      <3> QED BY <3>1, CreatedType, RunnerAssumption
    <2> HIDE DEF next
    <2>4. PICK rec : rec = [status |-> "active", plan |-> r, anchor |-> anchor, done |-> 0,
                            runs |-> 0, next |-> next]
      OBVIOUS
    <2>5. disk' = [x \in DOMAIN disk \cup {s} |-> IF x = s THEN rec ELSE disk[x]]
      BY <2>1, <2>4 DEF next
    <2>6. history[s] = NoHistory
      BY <2>2 DEF IInv, Fresh
    <2>7. Agrees(rec, NoHistory)
      <3>1. rec.next = next /\ rec.plan = r /\ rec.done = 0
        BY <2>4
      <3>2. /\ NoHistory.resumed = -1 /\ NoHistory.slot = -1 /\ NoHistory.fires = 0
            /\ NoHistory.lost = 0
        BY DEF NoHistory, Never
      <3>3. r.count # Never => r.count \in Nat \ {0}
        BY <2>3 DEF Plan
      <3> QED BY <2>3, <3>1, <3>2, <3>3 DEF Agrees
    <2>8. DOMAIN disk' = DOMAIN disk \cup {s} /\ disk'[s] = rec
          /\ \A x \in DOMAIN disk' : x # s => x \in DOMAIN disk /\ disk'[x] = disk[x]
      BY <2>5
    <2>9. Agrees(disk'[s], history'[s])
      BY <2>2, <2>6, <2>7, <2>8
    <2> QED BY <2>2, <2>8, <2>9, EndpointKeeps
  <1>13. ASSUME NEW s \in Schedule, Pause(s) PROVE Rest'
    <2>1. /\ LockFree /\ s \in DOMAIN disk /\ disk[s].status # "completed" /\ wake' = TRUE
          /\ disk' = [disk EXCEPT ![s].status = "paused"]
          /\ UNCHANGED <<unborn, now, loop, tick, wakeAt, history>>
      BY <1>13 DEF Pause
    <2>2. disk[s] \in Record /\ history[s] \in History /\ s \notin unborn
      BY <2>1 DEF IInv, TypeOK, Stored
    <2>3. Agrees(disk[s], history[s])
      BY <2>1 DEF IInv, Books, LockFree
    <2>4. Agrees([disk[s] EXCEPT !.status = "paused"], history[s])
      BY <2>1, <2>2, <2>3, AgreesStatus
    <2>5. /\ DOMAIN disk' = DOMAIN disk /\ disk'[s] = [disk[s] EXCEPT !.status = "paused"]
          /\ \A x \in DOMAIN disk : x # s => disk'[x] = disk[x]
      BY <2>1
    <2> QED BY <2>1, <2>2, <2>4, <2>5, EndpointKeeps
  <1>14. ASSUME NEW s \in Schedule, Resume(s) PROVE Rest'
    <2> DEFINE active == [disk[s] EXCEPT !.status = "active"]
    <2>1. /\ LockFree /\ s \in DOMAIN disk /\ disk[s].status # "completed" /\ wake' = TRUE
          /\ disk' = [disk EXCEPT ![s] = AdvancePastNow(active, now)]
          /\ history' = [history EXCEPT ![s].resumed = now]
          /\ UNCHANGED <<unborn, now, loop, tick, wakeAt>>
      BY <1>14 DEF Resume
    <2>2. disk[s] \in Record /\ history \in [Schedule -> History] /\ s \notin unborn /\ now \in Nat
      BY <2>1 DEF IInv, TypeOK, Stored
    <2>3. Agrees(disk[s], history[s])
      BY <2>1 DEF IInv, Books, LockFree
    <2>4. active \in Record /\ active.status = "active" /\ Agrees(active, history[s])
      BY <2>1, <2>2, <2>3, AgreesStatus DEF Record
    <2> HIDE DEF active
    <2>5. Agrees(AdvancePastNow(active, now), [history[s] EXCEPT !.resumed = now])
      BY <2>2, <2>4, AgreesAdvance
    <2>6. /\ DOMAIN disk' = DOMAIN disk /\ disk'[s] = AdvancePastNow(active, now)
          /\ \A x \in DOMAIN disk : x # s => disk'[x] = disk[x]
      BY <2>1
    <2>7. /\ history'[s] = [history[s] EXCEPT !.resumed = now]
          /\ \A x \in Schedule : x # s => history'[x] = history[x]
      BY <2>1, <2>2
    <2> QED BY <2>1, <2>2, <2>5, <2>6, <2>7, EndpointKeeps
  <1>15. ASSUME NEW s \in Schedule, Delete(s) PROVE Rest'
    <2>1. /\ LockFree /\ s \in DOMAIN disk /\ wake' = TRUE
          /\ disk' = [x \in DOMAIN disk \ {s} |-> disk[x]]
          /\ history' = [history EXCEPT ![s] = NoHistory]
          /\ UNCHANGED <<unborn, now, loop, tick, wakeAt>>
      BY <1>15 DEF Delete
    <2>2. history \in [Schedule -> History] /\ s \notin unborn
      BY <2>1 DEF IInv, TypeOK
    <2> QED BY <2>1, <2>2, EndpointKeeps
  <1>16. ASSUME NEW s \in Schedule, RunNow(s) PROVE Rest'
    <2>1. PICK outcome \in {"started", "skipped", "refused"} :
            /\ disk' = [disk EXCEPT ![s] = WithRun(disk[s], outcome)]
            /\ \E error \in BOOLEAN :
                 /\ wake' = (wake \/ ~error)
                 /\ history' = [history EXCEPT ![s].misled = @ \/ (error /\ outcome = "started")]
      BY <1>16, Zenon DEF RunNow
    <2>2. /\ LockFree /\ s \in DOMAIN disk /\ UNCHANGED <<unborn, now, loop, tick, wakeAt>>
      BY <1>16 DEF RunNow
    <2>3. /\ disk[s] \in Record /\ history \in [Schedule -> History] /\ s \notin unborn
          /\ wake \in BOOLEAN
      BY <2>2 DEF IInv, TypeOK, Stored
    <2>4. Agrees(WithRun(disk[s], outcome), history[s])
      <3>1. Agrees(disk[s], history[s])
        BY <2>2 DEF IInv, Books, LockFree
      <3> QED BY <2>3, <3>1, AgreesWithRun
    <2>5. PICK m \in BOOLEAN : history' = [history EXCEPT ![s].misled = m]
      BY <2>1, Zenon
    <2>6. /\ history'[s] = [history[s] EXCEPT !.misled = m]
          /\ \A x \in Schedule : x # s => history'[x] = history[x]
      BY <2>3, <2>5
    <2>7. Agrees(WithRun(disk[s], outcome), history'[s])
      <3>1. /\ history'[s].fires = history[s].fires /\ history'[s].slot = history[s].slot
            /\ history'[s].resumed = history[s].resumed /\ history'[s].redo = history[s].redo
            /\ history'[s].lost = history[s].lost
        BY <2>3, <2>6 DEF History
      <3> QED BY <2>4, <3>1 DEF Agrees
    <2>8. /\ DOMAIN disk' = DOMAIN disk /\ disk'[s] = WithRun(disk[s], outcome)
          /\ \A x \in DOMAIN disk : x # s => disk'[x] = disk[x]
      BY <2>1, <2>2
    <2>9. disk'[s].status = disk[s].status /\ disk'[s].next = disk[s].next
      BY <2>3, <2>8 DEF WithRun, Record
    <2>10. wake' \/ wake' = wake
      <3>1. PICK error \in BOOLEAN : wake' = (wake \/ ~error)
        BY <2>1, Zenon
      <3>2. CASE error
        BY <2>3, <3>1, <3>2, Zenon
      <3>3. CASE ~error
        BY <3>1, <3>3, Zenon
      <3> QED BY <3>2, <3>3
    <2> QED BY <2>2, <2>3, <2>6, <2>7, <2>8, <2>9, <2>10, EndpointKeeps
  <1>17. ASSUME NEW s \in Schedule, RunEnters(s) \/ RunEnds(s) PROVE Rest'
    BY <1>1, <1>17 DEF RunEnters, RunEnds
  <1>18. ASSUME NEW a \in Account, OtherTakes(a) \/ OtherLeaves(a) PROVE Rest'
    BY <1>1, <1>18 DEF OtherTakes, OtherLeaves
  <1>19. CASE UNCHANGED vars
    BY <1>1, <1>19 DEF vars
  <1> HIDE DEF Rest
  <1> QED BY <1>2, <1>3, <1>4, <1>5, <1>6, <1>7, <1>8, <1>9, <1>10, <1>11, <1>12,
             <1>13, <1>14, <1>15, <1>16, <1>17, <1>18, <1>19
          DEF Next, LoopStep, TickStep, Operator

-----------------------------------------------------------------------------
(* The theorems.                                                           *)

THEOREM InvHolds == Spec => []IInv
PROOF
  BY InvInit, InvStep, PTL DEF Spec

(* The state of the runner engine stays within its types.                  *)
THEOREM TypeCorrect == Spec => []TypeOK
PROOF
  <1>1. IInv => TypeOK
    BY DEF IInv
  <1> QED BY <1>1, InvHolds, PTL

(* The loop never sleeps past a slot, whatever operators do and whenever   *)
(* they do it (schedules_service.py:395-397, 621-634).                     *)
THEOREM NeverSleepsThroughASlot == Spec => []SleepsInTime
PROOF
  <1>1. IInv => SleepsInTime
    BY DEF IInv
  <1> QED BY <1>1, InvHolds, PTL

(* A schedule is fired at most as often as its plan says, plus once for    *)
(* every tick that was lost (schedules_service.py:663, 683).               *)
THEOREM CountIsKept == Spec => []CountKept
PROOF
  <1>1. ASSUME IInv, NEW s \in DOMAIN disk, disk[s].plan.count # Never
        PROVE  history[s].fires <= disk[s].plan.count + history[s].lost
    <2>1. disk[s] \in Record /\ history[s] \in History
      BY <1>1 DEF IInv, TypeOK, Stored
    <2>2. CASE loop = "tick" /\ tick.mem[s] # disk[s]
      <3>1. Agrees(tick.mem[s], history[s]) /\ tick.mem[s].plan = disk[s].plan
        BY <1>1, <2>2 DEF IInv, Books, TickSound
      <3>2. tick.mem[s] \in Record
        BY <1>1, <2>2 DEF IInv, TypeOK, TickSound, Stored
      <3> QED BY <1>1, <2>1, <3>1, <3>2, RecordFields, HistoryFields DEF Agrees
    <2>3. CASE ~(loop = "tick" /\ tick.mem[s] # disk[s])
      <3>1. Agrees(disk[s], history[s])
        BY <1>1, <2>3 DEF IInv, Books
      <3> QED BY <1>1, <2>1, <3>1, RecordFields, HistoryFields DEF Agrees
    <2> QED BY <2>2, <2>3
  <1>2. IInv => CountKept
    BY <1>1 DEF CountKept
  <1> QED BY <1>2, InvHolds, PTL

(* Only the tick fires by the clock, and only what is stored as active and *)
(* agrees with its history.                                                *)
LEMMA FiringStep ==
  ASSUME IInv, [Next]_vars, NEW s \in Schedule, FiresNow(s)
  PROVE  /\ s \in DOMAIN disk /\ disk[s].status = "active"
         /\ disk[s].next \in Nat /\ history'[s].slot = disk[s].next
         /\ Agrees(disk[s], history[s])
PROOF
  <1>1. /\ history \in [Schedule -> History] /\ history[s].fires \in Nat
        /\ ~(history'[s].fires <= history[s].fires)
    <2>1. TypeOK' /\ history \in [Schedule -> History]
      BY TypeStep DEF IInv, TypeOK
    <2>2. history[s] \in History /\ history'[s] \in History
      BY <2>1 DEF TypeOK
    <2> QED BY <2>1, <2>2, HistoryFields DEF FiresNow
  <1>2. CASE history' = history
    BY <1>1, <1>2
  <1>3. CASE Lose
    <2>1. history'[s].fires = history[s].fires
      BY <1>1, <1>3, LoseType DEF IInv, History
    <2> QED BY <1>1, <2>1
  <1>4. ASSUME NEW x \in Schedule, Resume(x) \/ Delete(x) \/ RunNow(x) PROVE FALSE
    <2>1. CASE Resume(x)
      <3>1. history' = [history EXCEPT ![x].resumed = now]
        BY <2>1 DEF Resume
      <3>2. history'[s].fires = history[s].fires
        BY <1>1, <3>1 DEF History
      <3> QED BY <1>1, <3>2
    <2>2. CASE Delete(x)
      <3>1. history' = [history EXCEPT ![x] = NoHistory] /\ NoHistory.fires = 0
        BY <2>2 DEF Delete, NoHistory
      <3>2. history'[s].fires = history[s].fires \/ history'[s].fires = 0
        BY <1>1, <3>1
      <3> QED BY <1>1, <3>2
    <2>3. CASE RunNow(x)
      <3>1. PICK m : history' = [history EXCEPT ![x].misled = m]
        BY <2>3, Zenon DEF RunNow
      <3>2. history'[s].fires = history[s].fires
        BY <1>1, <3>1 DEF History
      <3> QED BY <1>1, <3>2
    <2> QED BY <1>4, <2>1, <2>2, <2>3
  <1>5. ASSUME NEW x \in Schedule, TickFire(x)
        PROVE  /\ s \in DOMAIN disk /\ disk[s].status = "active"
               /\ disk[s].next \in Nat /\ history'[s].slot = disk[s].next
               /\ Agrees(disk[s], history[s])
    <2>1. \/ history' = history
          \/ history' = [history EXCEPT ![x] = WithFire(history[x], tick.mem[x].next)]
      BY <1>5, Zenon DEF TickFire
    <2>2. x = s /\ history'[s] = WithFire(history[s], tick.mem[s].next)
      BY <1>1, <2>1
    <2>3. /\ loop = "tick" /\ s \in tick.todo /\ tick.mem[s].next # Never
      BY <1>5, <2>2 DEF TickFire
    <2>4. /\ s \in DOMAIN disk /\ tick.mem[s] = disk[s] /\ disk[s].status = "active"
          /\ disk[s] \in Record /\ history[s] \in History
      BY <2>3 DEF IInv, TypeOK, TickSound, Stored
    <2>5. Agrees(disk[s], history[s])
      BY <2>3, <2>4 DEF IInv, Books
    <2>6. history'[s].slot = disk[s].next /\ disk[s].next \in Nat
      BY <2>2, <2>3, <2>4, RecordFields DEF WithFire, History
    <2> QED BY <2>4, <2>5, <2>6
  <1>6. CASE \/ UNCHANGED vars \/ Start \/ Clock
             \/ TickBegin \/ TickSave \/ WakeUp
             \/ \E x \in Schedule : TickNothingNext(x) \/ TickNotDue(x)
             \/ \E x \in Schedule : Pause(x) \/ RunEnters(x) \/ RunEnds(x)
             \/ \E x \in Schedule : \E r \in Plans, start \in Starts : Create(x, r, start)
             \/ \E a \in Account : OtherTakes(a) \/ OtherLeaves(a)
    <2>1. history' = history
      BY <1>6 DEF vars, Start, Clock, TickBegin, TickSave, WakeUp, TickNothingNext, TickNotDue,
                  Pause, RunEnters, RunEnds, Create, OtherTakes, OtherLeaves
    <2> QED BY <1>2, <2>1
  <1>7. CASE TickSaveFails \/ Crash
    <2>1. Lose \/ history' = history
      BY <1>7, Zenon DEF TickSaveFails, Crash
    <2> QED BY <1>2, <1>3, <2>1
  <1> QED BY <1>4, <1>5, <1>6, <1>7 DEF Next, LoopStep, TickStep, Operator

(* Missed slots are skipped and no slot is fired twice; only a tick that   *)
(* was lost before it was saved repeats its own slot                       *)
(* (schedules_service.py:674-688, docs/ARCHITECTURE.md:116).               *)
THEOREM SlotsStayInOrder == Spec => SlotsInOrder
PROOF
  <1>1. ASSUME IInv, [Next]_vars, NEW s \in Schedule, FiresNow(s)
        PROVE  \/ history'[s].slot > history[s].slot
               \/ history[s].redo /\ history'[s].slot = history[s].slot
    BY <1>1, FiringStep DEF Agrees, Never
  <1>2. IInv /\ [Next]_vars =>
          [\A s \in Schedule : FiresNow(s) =>
             \/ history'[s].slot > history[s].slot
             \/ history[s].redo /\ history'[s].slot = history[s].slot]_vars
    BY <1>1
  <1> QED BY <1>2, InvHolds, PTL DEF Spec, SlotsInOrder

(* A resume does not replay what came due while the schedule was paused    *)
(* (schedules_service.py:588-603).                                         *)
THEOREM ResumeReplaysNothing == Spec => NoReplayAfterResume
PROOF
  <1>1. ASSUME IInv, [Next]_vars, NEW s \in Schedule, FiresNow(s)
        PROVE  history'[s].slot > history[s].resumed
    BY <1>1, FiringStep DEF Agrees, Never
  <1>2. IInv /\ [Next]_vars =>
          [\A s \in Schedule : FiresNow(s) => history'[s].slot > history[s].resumed]_vars
    BY <1>1
  <1> QED BY <1>2, InvHolds, PTL DEF Spec, NoReplayAfterResume

(* The clock fires nothing that is stored as paused, completed or deleted  *)
(* although the tick works on a copy (schedules_service.py:636-665).       *)
THEOREM PausedStaysQuiet == Spec => QuietUnlessActive
PROOF
  <1>1. ASSUME IInv, [Next]_vars, NEW s \in Schedule, FiresNow(s)
        PROVE  s \in DOMAIN disk /\ disk[s].status = "active"
    BY <1>1, FiringStep
  <1>2. IInv /\ [Next]_vars =>
          [\A s \in Schedule : FiresNow(s) =>
             s \in DOMAIN disk /\ disk[s].status = "active"]_vars
    BY <1>1
  <1> QED BY <1>2, InvHolds, PTL DEF Spec, QuietUnlessActive

(* The copy a tick writes back does not revive a schedule that was deleted *)
(* (schedules_service.py:640-664).                                         *)
THEOREM NothingIsRevived == Spec => DeletedStaysDeleted
PROOF
  <1>1. ASSUME IInv, [Next]_vars, NEW s \in Schedule, s \notin unborn, s \notin DOMAIN disk
        PROVE  s \notin DOMAIN disk'
    <2>1. CASE disk' = disk
      BY <1>1, <2>1
    <2>2. CASE TickSave
      <3>1. loop = "tick" /\ disk' = tick.mem
        BY <2>2 DEF TickSave
      <3> QED BY <1>1, <3>1 DEF IInv, TickSound
    <2>3. ASSUME NEW x \in Schedule, NEW r \in Plans, NEW start \in Starts, Create(x, r, start)
          PROVE  s \notin DOMAIN disk'
      <3>1. x \in unborn /\ DOMAIN disk' = DOMAIN disk \cup {x}
        BY <2>3 DEF Create
      <3> QED BY <1>1, <3>1
    <2>4. ASSUME NEW x \in Schedule, Pause(x) \/ Resume(x) \/ Delete(x) \/ RunNow(x)
          PROVE  s \notin DOMAIN disk'
      <3>1. DOMAIN disk' \subseteq DOMAIN disk
        BY <2>4 DEF Pause, Resume, Delete, RunNow
      <3> QED BY <1>1, <3>1
    <2>5. CASE \/ UNCHANGED vars \/ Start \/ Clock \/ Crash
               \/ TickBegin \/ TickSaveFails \/ WakeUp
               \/ \E x \in Schedule : TickStep(x) \/ RunEnters(x) \/ RunEnds(x)
               \/ \E a \in Account : OtherTakes(a) \/ OtherLeaves(a)
      <3>1. disk' = disk
        BY <2>5 DEF vars, Start, Clock, Crash, TickBegin, TickSaveFails, WakeUp, TickStep,
                    TickNothingNext, TickNotDue, TickFire, RunEnters, RunEnds, OtherTakes,
                    OtherLeaves
      <3> QED BY <2>1, <3>1
    <2> QED BY <1>1, <2>2, <2>3, <2>4, <2>5 DEF Next, LoopStep, Operator
  <1>2. IInv /\ [Next]_vars =>
          [\A s \in Schedule : s \notin unborn /\ s \notin DOMAIN disk => s \notin DOMAIN disk']_vars
    BY <1>1
  <1> QED BY <1>2, InvHolds, PTL DEF Spec, DeletedStaysDeleted

(***************************************************************************)
(* The end of a plan.                                                      *)
(***************************************************************************)

(* No slot of the plan is later than t and earlier than `next`.            *)
NoneBetween(rec, t, next) ==
  \A k \in Nat : InPlan(rec.anchor, rec.plan, k) =>
    Slot(rec.anchor, rec.plan, k) <= t \/ next <= Slot(rec.anchor, rec.plan, k)

IsSlot(rec, next) == \E j \in Nat : next = Slot(rec.anchor, rec.plan, j)

(* No slot is in reach of next_future_slot at a time.                      *)
Unseen(rec, at) ==
  \A k \in Nat : InPlan(rec.anchor, rec.plan, k) =>
    \/ Slot(rec.anchor, rec.plan, k) <= at
    \/ Slot(rec.anchor, rec.plan, k) > at + NativeHorizon + Margin

(* The plan has nothing left after t, or it never began and was out of     *)
(* reach when it was asked for.                                            *)
Spent(rec, t) ==
  \/ rec.plan.count # Never /\ rec.done >= rec.plan.count
  \/ \A k \in Nat : InPlan(rec.anchor, rec.plan, k) => Slot(rec.anchor, rec.plan, k) <= t
  \/ rec.done = 0 /\ \E at \in 0..t : Unseen(rec, at)

(* What a record knows of its plan: no next slot is stored only if nothing *)
(* is left, and the next slot that is stored leaves none out.              *)
Follows(rec, t) ==
  /\ rec.status = "completed" => rec.next = Never
  /\ rec.next = Never => Spent(rec, t)
  /\ rec.next # Never => IsSlot(rec, rec.next) /\ NoneBetween(rec, t, rec.next)

PlansFollowed ==
  /\ \A s \in DOMAIN disk : Follows(disk[s], now)
  /\ loop = "tick" =>
       /\ tick.now <= now
       /\ \A s \in DOMAIN tick.mem : Follows(tick.mem[s], now)

(* Time does no harm.                                                      *)
LEMMA FollowsLater ==
  ASSUME NEW rec \in Record, NEW t \in Nat, NEW u \in Nat, t <= u, Follows(rec, t)
  PROVE  Follows(rec, u)
PROOF
  <1>1. \A k \in Nat : Slot(rec.anchor, rec.plan, k) \in Nat
    BY RecordFields, SlotsAscend
  <1>2. Spent(rec, t) => Spent(rec, u)
    <2>1. \A at \in 0..t : at \in 0..u
      OBVIOUS
    <2> QED BY <1>1, <2>1 DEF Spent
  <1>3. NoneBetween(rec, t, rec.next) => NoneBetween(rec, u, rec.next)
    BY <1>1 DEF NoneBetween
  <1> QED BY <1>2, <1>3 DEF Follows

(* What is not looked at: how far the plan is followed depends on its      *)
(* slots and on the count that is done.                                    *)
LEMMA FollowsAlike ==
  ASSUME NEW rec, NEW new, NEW t \in Nat, Follows(rec, t),
         new.plan = rec.plan, new.anchor = rec.anchor, new.next = rec.next,
         new.done = rec.done, new.status = "completed" => rec.status = "completed"
  PROVE  Follows(new, t)
PROOF
  BY DEF Follows, Spent, Unseen, IsSlot, NoneBetween

(* SlotAfter gives the first slot after a time, from a given slot on.      *)
LEMMA SlotAfterIsFirst ==
  ASSUME NEW r \in Plan, NEW anchor \in Nat, NEW j \in Nat, NEW time \in Nat
  PROVE  LET next == SlotAfter(Slot(anchor, r, j), r.delta, time)
         IN  /\ \E i \in Nat : next = Slot(anchor, r, i)
             /\ \A k \in Nat : Slot(anchor, r, k) > time /\ Slot(anchor, r, k) >= Slot(anchor, r, j)
                                 => next <= Slot(anchor, r, k)
PROOF
  <1> DEFINE from == Slot(anchor, r, j)
             next == SlotAfter(from, r.delta, time)
  <1>1. from \in Nat /\ r.delta \in Nat \ {0}
    BY SlotsAscend DEF Plan
  <1>2. CASE from > time
    <2>1. next = from
      BY <1>2 DEF SlotAfter
    <2> QED BY <2>1
  <1>3. CASE ~(from > time)
    <2> DEFINE q == (time - from) \div r.delta
               i == j + q + 1
    <2>1. time - from \in Nat
      BY <1>1, <1>3
    <2>2. q \in Nat /\ q * r.delta <= time - from
      BY <1>1, <2>1, SlotMultiples
    <2>3. next = from + (q + 1) * r.delta
      BY <1>3 DEF SlotAfter
    <2> HIDE DEF q
    <2>4. /\ (j + q) * r.delta = j * r.delta + q * r.delta
          /\ (j + q + 1) * r.delta = j * r.delta + (q + 1) * r.delta
      BY <1>1, <2>2, SMT
    <2>5. j * r.delta \in Nat /\ q * r.delta \in Nat /\ (q + 1) * r.delta \in Nat
      BY <1>1, <2>2
    <2>6. next = Slot(anchor, r, i) /\ Slot(anchor, r, j + q) = from + q * r.delta
      BY <2>3, <2>4, <2>5 DEF Slot
    <2>7. Slot(anchor, r, j + q) <= time
      BY <1>1, <2>1, <2>2, <2>5, <2>6
    <2>8. i \in Nat /\ j + q \in Nat
      BY <2>2
    <2>9. ASSUME NEW k \in Nat, Slot(anchor, r, k) > time
          PROVE  next <= Slot(anchor, r, k)
      <3>1. /\ Slot(anchor, r, k) \in Nat /\ Slot(anchor, r, j + q) \in Nat
            /\ Slot(anchor, r, i) \in Nat
            /\ k < j + q => Slot(anchor, r, k) < Slot(anchor, r, j + q)
            /\ i < k => Slot(anchor, r, i) < Slot(anchor, r, k)
        BY <2>8, SlotsAscend
      <3>2. ~(k < j + q) /\ k # j + q
        BY <2>7, <2>9, <3>1
      <3>3. i = k \/ i < k
        BY <2>2, <3>2
      <3> QED BY <2>6, <3>1, <3>3
    <2> HIDE DEF i
    <2>10. \E m \in Nat : next = Slot(anchor, r, m)
      BY <2>6, <2>8
    <2> QED BY <2>9, <2>10
  <1> QED BY <1>2, <1>3

(* The same of a record: from its next slot on, or from one slot later if  *)
(* that has come, SlotAfter leaves none out, and if it is past the end     *)
(* then nothing is left.                                                   *)
LEMMA MovingOn ==
  ASSUME NEW rec \in Record, NEW t \in Nat, NEW time \in Nat, NEW from \in Nat, time <= t,
         IsSlot(rec, from), NoneBetween(rec, t, from)
  PROVE  LET next == SlotAfter(from, rec.plan.delta, time)
         IN  /\ next \in Nat
             /\ IsSlot(rec, next) /\ NoneBetween(rec, t, next)
             /\ rec.plan.until # Never /\ next > rec.plan.until =>
                  \A k \in Nat : InPlan(rec.anchor, rec.plan, k)
                                   => Slot(rec.anchor, rec.plan, k) <= t
PROOF
  <1> DEFINE next == SlotAfter(from, rec.plan.delta, time)
             S(k) == Slot(rec.anchor, rec.plan, k)
  <1>1. /\ rec.plan \in Plan /\ rec.anchor \in Nat /\ rec.plan.delta \in Nat \ {0}
        /\ rec.plan.until \in Nat \cup {Never}
    BY RecordFields
  <1>2. PICK j \in Nat : from = S(j)
    BY DEF IsSlot
  <1>3. /\ \E i \in Nat : next = S(i)
        /\ \A k \in Nat : S(k) > time /\ S(k) >= from => next <= S(k)
    <2>1. LET n == SlotAfter(S(j), rec.plan.delta, time)
          IN  /\ \E i \in Nat : n = S(i)
              /\ \A k \in Nat : S(k) > time /\ S(k) >= S(j) => n <= S(k)
      BY <1>1, SlotAfterIsFirst
    <2> QED BY <1>2, <2>1, Zenon
  <1>4. next \in Nat
    BY <1>1, SlotAfterIsLater
  <1>5. \A k \in Nat : S(k) \in Nat
    BY <1>1, SlotsAscend
  <1>6. \A k \in Nat : InPlan(rec.anchor, rec.plan, k) => S(k) <= t \/ from <= S(k)
    BY DEF NoneBetween
  <1>7. \A k \in Nat : InPlan(rec.anchor, rec.plan, k) /\ rec.plan.until # Never
                          => S(k) <= rec.plan.until
    BY DEF InPlan
  <1> HIDE DEF next, S
  <1>8. \A k \in Nat : InPlan(rec.anchor, rec.plan, k) => S(k) <= t \/ next <= S(k)
    <2> SUFFICES ASSUME NEW k \in Nat, InPlan(rec.anchor, rec.plan, k), ~(S(k) <= t)
                 PROVE  next <= S(k)
      OBVIOUS
    <2>1. S(k) > time /\ S(k) >= from
      BY <1>5, <1>6
    <2> QED BY <1>3, <2>1
  <1>9. ASSUME rec.plan.until # Never, next > rec.plan.until,
               NEW k \in Nat, InPlan(rec.anchor, rec.plan, k)
        PROVE  S(k) <= t
    BY <1>1, <1>4, <1>5, <1>7, <1>8, <1>9
  <1>10. IsSlot(rec, next) /\ NoneBetween(rec, t, next)
    BY <1>3, <1>8 DEF IsSlot, NoneBetween, S
  <1> QED BY <1>4, <1>9, <1>10 DEF next, S

(* _complete, when nothing is left.                                        *)
LEMMA FollowsCompleted ==
  ASSUME NEW rec \in Record, NEW t \in Nat, Spent(rec, t)
  PROVE  Follows(Completed(rec), t)
PROOF
  <1>1. /\ Completed(rec).plan = rec.plan /\ Completed(rec).anchor = rec.anchor
        /\ Completed(rec).done = rec.done /\ Completed(rec).next = Never
    BY DEF Completed, Record
  <1> QED BY <1>1 DEF Follows, Spent, Unseen

(* _advance_past_now.                                                      *)
LEMMA FollowsAdvance ==
  ASSUME NEW rec \in Record, NEW t \in Nat, Follows(rec, t), rec.status # "completed"
  PROVE  Follows(AdvancePastNow(rec, t), t)
PROOF
  <1> DEFINE next == SlotAfter(rec.next, rec.plan.delta, t)
  <1>1. CASE rec.next = Never
    BY <1>1 DEF AdvancePastNow
  <1>2. CASE rec.next # Never
    <2>1. rec.next \in Nat /\ IsSlot(rec, rec.next) /\ NoneBetween(rec, t, rec.next)
      BY <1>2, RecordFields DEF Follows
    <2>2. /\ next \in Nat /\ IsSlot(rec, next) /\ NoneBetween(rec, t, next)
          /\ rec.plan.until # Never /\ next > rec.plan.until => Spent(rec, t)
      <3>1. /\ next \in Nat /\ IsSlot(rec, next) /\ NoneBetween(rec, t, next)
            /\ rec.plan.until # Never /\ next > rec.plan.until =>
                 \A k \in Nat : InPlan(rec.anchor, rec.plan, k)
                                  => Slot(rec.anchor, rec.plan, k) <= t
        BY <2>1, MovingOn
      <3> QED BY <3>1 DEF Spent
    <2> HIDE DEF next
    <2>3. AdvancePastNow(rec, t)
            = IF rec.plan.until # Never /\ next > rec.plan.until THEN Completed(rec)
              ELSE [rec EXCEPT !.next = next]
      BY <1>2 DEF AdvancePastNow, next
    <2>4. Follows([rec EXCEPT !.next = next], t)
      <3> DEFINE new == [rec EXCEPT !.next = next]
      <3>1. /\ new.plan = rec.plan /\ new.anchor = rec.anchor /\ new.next = next
            /\ new.status = rec.status
        BY DEF Record
      <3> HIDE DEF new
      <3>2. next # Never
        BY <2>2 DEF Never
      <3>3. IsSlot(new, next) /\ NoneBetween(new, t, next)
        BY <2>2, <3>1 DEF IsSlot, NoneBetween
      <3>4. Follows(new, t)
        BY <3>1, <3>2, <3>3 DEF Follows
      <3> QED BY <3>4 DEF new
    <2> QED BY <2>2, <2>3, <2>4, FollowsCompleted
  <1> QED BY <1>1, <1>2

(* What _tick_runner leaves of a schedule whose slot has come.             *)
LEMMA FollowsFired ==
  ASSUME NEW rec \in Record, NEW t \in Nat, NEW time \in Nat, NEW outcome, time <= t,
         rec.next # Never, rec.next <= time, Follows(rec, t), rec.status # "completed"
  PROVE  Follows(Fired(rec, time, outcome), t)
PROOF
  <1> DEFINE with  == WithRun(rec, outcome)
             fired == [with EXCEPT !.done = @ + 1]
             from  == rec.next + rec.plan.delta
             next  == SlotAfter(from, rec.plan.delta, time)
  <1>1. /\ rec.plan \in Plan /\ rec.anchor \in Nat /\ rec.plan.delta \in Nat \ {0}
        /\ rec.next \in Nat
    BY RecordFields
  <1>2. IsSlot(rec, rec.next) /\ NoneBetween(rec, t, rec.next)
    BY DEF Follows
  <1>3. from \in Nat /\ IsSlot(rec, from) /\ NoneBetween(rec, t, from)
    <2>1. PICK j \in Nat : rec.next = Slot(rec.anchor, rec.plan, j)
      BY <1>2 DEF IsSlot
    <2>2. (j + 1) * rec.plan.delta = j * rec.plan.delta + rec.plan.delta /\ j * rec.plan.delta \in Nat
      BY <1>1, SMT
    <2>3. from = Slot(rec.anchor, rec.plan, j + 1) /\ j + 1 \in Nat
      BY <1>1, <2>1, <2>2 DEF Slot
    <2>4. ASSUME NEW k \in Nat, InPlan(rec.anchor, rec.plan, k)
          PROVE  Slot(rec.anchor, rec.plan, k) <= t \/ from <= Slot(rec.anchor, rec.plan, k)
      <3>1. CASE k <= j
        <4>1. k = j \/ k < j
          BY <3>1
        <4>2. /\ Slot(rec.anchor, rec.plan, k) \in Nat
              /\ k < j => Slot(rec.anchor, rec.plan, k) < Slot(rec.anchor, rec.plan, j)
          BY <1>1, SlotsAscend
        <4> QED BY <1>1, <2>1, <4>1, <4>2
      <3>2. CASE ~(k <= j)
        <4>1. k = j + 1 \/ j + 1 < k
          BY <3>2
        <4>2. /\ Slot(rec.anchor, rec.plan, k) \in Nat /\ Slot(rec.anchor, rec.plan, j + 1) \in Nat
              /\ j + 1 < k => Slot(rec.anchor, rec.plan, j + 1) < Slot(rec.anchor, rec.plan, k)
          BY <1>1, <2>3, SlotsAscend
        <4> QED BY <2>3, <4>1, <4>2
      <3> QED BY <3>1, <3>2
    <2>5. NoneBetween(rec, t, from)
      BY <2>4 DEF NoneBetween
    <2>6. IsSlot(rec, from)
      BY <2>3 DEF IsSlot
    <2>7. from \in Nat
      BY <1>1
    <2> QED BY <2>5, <2>6, <2>7
  <1> HIDE DEF from
  <1>4. /\ next \in Nat /\ IsSlot(rec, next) /\ NoneBetween(rec, t, next)
        /\ rec.plan.until # Never /\ next > rec.plan.until =>
             \A k \in Nat : InPlan(rec.anchor, rec.plan, k)
                              => Slot(rec.anchor, rec.plan, k) <= t
    BY <1>3, MovingOn
  <1>5. with \in Record /\ with = [rec EXCEPT !.runs = with.runs]
    BY WithRunType
  <1>6. Fired(rec, time, outcome)
          = IF outcome = "raised" THEN [rec EXCEPT !.status = "error"]
            ELSE IF RunnerComplete(fired, next) THEN Completed(fired)
            ELSE [fired EXCEPT !.next = next]
    BY DEF Fired, from
  <1> HIDE DEF with, next
  <1>7. /\ with.plan = rec.plan /\ with.anchor = rec.anchor /\ with.status = rec.status
    <2>1. PICK kept : kept = with.runs
      OBVIOUS
    <2>2. with = [rec EXCEPT !.runs = kept]
      BY <1>5, <2>1
    <2> QED BY <2>2 DEF Record
  <1>8. /\ fired \in Record /\ fired.plan = rec.plan /\ fired.anchor = rec.anchor
        /\ fired.status = rec.status
    BY <1>5, <1>7 DEF Record
  <1> HIDE DEF fired
  <1>9. CASE outcome = "raised"
    <2>1. Fired(rec, time, outcome) = [rec EXCEPT !.status = "error"]
      BY <1>6, <1>9
    <2> DEFINE new == [rec EXCEPT !.status = "error"]
    <2>2. /\ new.plan = rec.plan /\ new.anchor = rec.anchor /\ new.next = rec.next
          /\ new.done = rec.done /\ new.status = "error"
      BY DEF Record
    <2> HIDE DEF new
    <2>3. Follows(new, t)
      BY <2>2, FollowsAlike
    <2> QED BY <2>1, <2>3 DEF new
  <1>10. CASE outcome # "raised" /\ RunnerComplete(fired, next)
    <2>1. Spent(fired, t)
      BY <1>4, <1>8, <1>10 DEF RunnerComplete, Spent
    <2> QED BY <1>6, <1>8, <1>10, <2>1, FollowsCompleted
  <1>11. CASE outcome # "raised" /\ ~RunnerComplete(fired, next)
    <2> DEFINE new == [fired EXCEPT !.next = next]
    <2>1. /\ new.plan = rec.plan /\ new.anchor = rec.anchor /\ new.next = next
          /\ new.status = rec.status
      BY <1>8 DEF Record
    <2>2. Fired(rec, time, outcome) = new
      BY <1>6, <1>11
    <2> HIDE DEF new
    <2>3. IsSlot(new, next) /\ NoneBetween(new, t, next) /\ next # Never
      BY <1>4, <2>1 DEF IsSlot, NoneBetween, Never
    <2>4. Follows(new, t)
      BY <2>1, <2>3 DEF Follows
    <2> QED BY <2>2, <2>4
  <1> QED BY <1>9, <1>10, <1>11

(* build_schedule: a new schedule has the next slot of its plan, or there  *)
(* was none in reach when it was asked for.                                *)
LEMMA FollowsCreated ==
  ASSUME NEW r \in Plans, NEW start \in Starts, NEW at \in Nat, NEW t \in Nat, at <= t
  PROVE  LET anchor == ComputeAnchor(start, r, at)
             rec == [status |-> "active", plan |-> r, anchor |-> anchor, done |-> 0, runs |-> 0,
                     next |-> NextFutureSlot(anchor, r, at)]
         IN  Follows(rec, t)
PROOF
  <1> DEFINE anchor  == ComputeAnchor(start, r, at)
             next    == NextFutureSlot(anchor, r, at)
             horizon == at + NativeHorizon + Margin
             S(k)    == Slot(anchor, r, k)
             rec == [status |-> "active", plan |-> r, anchor |-> anchor, done |-> 0, runs |-> 0,
                     next |-> next]
  <1>1. /\ r \in Plan /\ r.delta \in Nat \ {0} /\ r.count \in Nat \cup {Never}
        /\ r.until \in Nat \cup {Never} /\ start \in Nat \cup {Never}
    BY RunnerAssumption DEF Plan
  <1>2. NativeHorizon \in Nat /\ Margin \in Nat
    BY HorizonAssumption
  <1>3. anchor \in Nat
    BY <1>1 DEF ComputeAnchor
  <1> HIDE DEF anchor
  <1>4. /\ next \in Nat \cup {Never}
        /\ next # Never =>
             /\ at < next
             /\ \E k \in Nat : Wanted(anchor, r, at, horizon, k) /\ next = S(k)
             /\ \A k \in Nat : Wanted(anchor, r, at, horizon, k) => next <= S(k)
        /\ next = Never => \A k \in Nat : ~Wanted(anchor, r, at, horizon, k)
    BY <1>1, <1>3, NextFutureSlotIsNext
  <1> HIDE DEF next
  <1>5. \A k \in Nat : S(k) \in Nat
    BY <1>1, <1>3, SlotsAscend
  <1>6. CASE next # Never
    <2>1. IsSlot(rec, next)
      BY <1>4, <1>6 DEF IsSlot
    <2>2. next <= horizon
      BY <1>4, <1>6 DEF Wanted
    <2>3. ASSUME NEW k \in Nat, InPlan(anchor, r, k), ~(S(k) <= t) PROVE next <= S(k)
      <3>1. at < S(k)
        BY <1>5, <2>3
      <3>2. CASE S(k) <= horizon
        <4>1. Wanted(anchor, r, at, horizon, k)
          BY <2>3, <3>1, <3>2 DEF Wanted
        <4> QED BY <1>4, <1>6, <4>1
      <3>3. CASE ~(S(k) <= horizon)
        BY <1>2, <1>4, <1>5, <1>6, <2>2, <3>3
      <3> QED BY <3>2, <3>3
    <2>4. NoneBetween(rec, t, next)
      BY <2>3 DEF NoneBetween
    <2> QED BY <1>6, <2>1, <2>4 DEF Follows, next, anchor
  <1>7. CASE next = Never
    <2>1. ASSUME NEW k \in Nat, InPlan(anchor, r, k)
          PROVE  S(k) <= at \/ S(k) > horizon
      <3>1. CASE at < S(k) /\ S(k) <= horizon
        <4>1. Wanted(anchor, r, at, horizon, k)
          BY <2>1, <3>1 DEF Wanted
        <4> QED BY <1>4, <1>7, <4>1
      <3>2. CASE ~(at < S(k) /\ S(k) <= horizon)
        BY <1>2, <1>5, <3>2
      <3> QED BY <3>1, <3>2
    <2>2. Unseen(rec, at) /\ rec.done = 0
      BY <2>1 DEF Unseen
    <2>3. at \in 0..t
      OBVIOUS
    <2>4. Spent(rec, t)
      BY <2>2, <2>3 DEF Spent
    <2> QED BY <1>7, <2>4 DEF Follows, next, anchor
  <1> QED BY <1>6, <1>7

(* The step of a tick: only one record of its copy changes.                *)
LEMMA TickFollows ==
  ASSUME TypeOK, PlansFollowed, loop = "tick", NEW s \in tick.todo, NEW rec \in Record,
         NEW soonest \in Nat \cup {Never}, TickDone(s, rec, soonest),
         UNCHANGED <<disk, now, loop>>, Follows(rec, now)
  PROVE  PlansFollowed'
PROOF
  <1>1. s \in DOMAIN tick.mem /\ Stored(tick.mem)
    BY DEF TypeOK
  <1>2. tick'.now = tick.now /\ tick'.mem = [tick.mem EXCEPT ![s] = rec]
    BY <1>1, TickDoneType
  <1>3. /\ DOMAIN tick'.mem = DOMAIN tick.mem /\ tick'.mem[s] = rec
        /\ \A x \in DOMAIN tick.mem : x # s => tick'.mem[x] = tick.mem[x]
    BY <1>1, <1>2 DEF Stored
  <1>4. \A x \in DOMAIN tick'.mem : Follows(tick'.mem[x], now)
    <2> TAKE x \in DOMAIN tick'.mem
    <2>1. x # s => Follows(tick'.mem[x], now)
      BY <1>3 DEF PlansFollowed
    <2> QED BY <1>3, <2>1
  <1> QED BY <1>2, <1>4 DEF PlansFollowed

(* An endpoint changes one record of the file, while no tick is under way. *)
LEMMA EndpointFollows ==
  ASSUME PlansFollowed, LockFree, UNCHANGED <<now, loop>>, NEW s,
         \A x \in DOMAIN disk' : x # s => x \in DOMAIN disk /\ disk'[x] = disk[x],
         s \in DOMAIN disk' => Follows(disk'[s], now)
  PROVE  PlansFollowed'
PROOF
  <1>1. loop' # "tick"
    BY DEF LockFree
  <1>2. \A x \in DOMAIN disk' : Follows(disk'[x], now)
    BY DEF PlansFollowed
  <1> QED BY <1>1, <1>2 DEF PlansFollowed

LEMMA FollowedStep ==
  ASSUME IInv, PlansFollowed, [Next]_vars
  PROVE  PlansFollowed'
PROOF
  <1>1. /\ TypeOK /\ Stored(disk) /\ Stored(tick.mem) /\ now \in Nat
        /\ \A s \in DOMAIN disk : disk[s] \in Record /\ s \in Schedule
        /\ \A s \in DOMAIN tick.mem : tick.mem[s] \in Record /\ s \in Schedule
        /\ tick.todo \subseteq DOMAIN tick.mem /\ tick.now \in Nat
    BY DEF IInv, TypeOK, Stored
  <1>2. CASE Clock
    <2>1. now' \in Nat /\ now <= now' /\ UNCHANGED <<disk, loop, tick>>
      BY <1>1, <1>2 DEF Clock
    <2>2. \A s \in DOMAIN disk : Follows(disk[s], now')
      BY <1>1, <2>1, FollowsLater DEF PlansFollowed
    <2>3. loop = "tick" => \A s \in DOMAIN tick.mem : Follows(tick.mem[s], now')
      BY <1>1, <2>1, FollowsLater DEF PlansFollowed
    <2>4. loop = "tick" => tick.now <= now'
      BY <1>1, <2>1 DEF PlansFollowed
    <2> QED BY <2>1, <2>2, <2>3, <2>4 DEF PlansFollowed
  <1>3. CASE TickBegin
    <2>1. /\ loop' = "tick" /\ tick'.now = now /\ tick'.mem = disk /\ UNCHANGED <<disk, now>>
      BY <1>3 DEF TickBegin
    <2> QED BY <1>1, <2>1 DEF PlansFollowed
  <1>4. CASE TickSave
    <2>1. loop = "tick" /\ disk' = tick.mem /\ loop' = "sleep" /\ now' = now
      BY <1>4 DEF TickSave
    <2> QED BY <2>1 DEF PlansFollowed
  <1>5. ASSUME NEW s \in Schedule, TickStep(s) PROVE PlansFollowed'
    <2>1. /\ loop = "tick" /\ s \in tick.todo /\ UNCHANGED <<disk, now, loop>>
          /\ s \in DOMAIN tick.mem /\ tick.mem[s] \in Record
          /\ Follows(tick.mem[s], now) /\ tick.now <= now
          /\ tick.mem[s].status = "active"
      <3>1. loop = "tick" /\ s \in tick.todo /\ UNCHANGED <<disk, now, loop>>
        BY <1>5 DEF TickStep, TickNothingNext, TickNotDue, TickFire
      <3>2. tick.mem[s] = disk[s] /\ disk[s].status = "active"
        BY <3>1 DEF IInv, TickSound
      <3> QED BY <1>1, <3>1, <3>2 DEF PlansFollowed
    <2>2. CASE TickNothingNext(s)
      <3>1. TickDone(s, Completed(tick.mem[s]), Never) /\ tick.mem[s].next = Never
        BY <2>2 DEF TickNothingNext
      <3>2. Follows(Completed(tick.mem[s]), now)
        BY <1>1, <2>1, <3>1, FollowsCompleted DEF Follows
      <3>3. Completed(tick.mem[s]) \in Record
        BY <2>1, CompletedType
      <3> QED BY <1>1, <2>1, <3>1, <3>2, <3>3, TickFollows
    <2>3. CASE TickNotDue(s)
      <3>1. TickDone(s, tick.mem[s], tick.mem[s].next)
        BY <2>3 DEF TickNotDue
      <3>2. tick.mem[s].next \in Nat \cup {Never}
        BY <2>1, RecordFields
      <3> QED BY <1>1, <2>1, <3>1, <3>2, TickFollows
    <2>4. CASE TickFire(s)
      <3>1. PICK outcome \in {"started", "skipped", "refused", "raised"} :
              TickDone(s, Fired(tick.mem[s], tick.now, outcome),
                       IF outcome = "raised" THEN tick.now + ErrorWake
                       ELSE Fired(tick.mem[s], tick.now, outcome).next)
        BY <2>4, Zenon DEF TickFire
      <3>2. tick.mem[s].next # Never /\ tick.mem[s].next <= tick.now
        BY <2>4 DEF TickFire
      <3> DEFINE rec == Fired(tick.mem[s], tick.now, outcome)
                 soonest == IF outcome = "raised" THEN tick.now + ErrorWake ELSE rec.next
      <3>3. rec \in Record
        BY <1>1, <2>1, <3>2, FiredType
      <3>4. Follows(rec, now)
        BY <1>1, <2>1, <3>2, FollowsFired
      <3> HIDE DEF rec
      <3>5. soonest \in Nat \cup {Never}
        BY <1>1, <3>3, RecordFields, RunnerAssumption
      <3>6. TickDone(s, rec, soonest)
        BY <3>1 DEF rec
      <3> HIDE DEF soonest
      <3> QED BY <1>1, <2>1, <3>3, <3>4, <3>5, <3>6, TickFollows
    <2> QED BY <1>5, <2>2, <2>3, <2>4 DEF TickStep
  <1>6. ASSUME NEW s \in Schedule, NEW r \in Plans, NEW start \in Starts, Create(s, r, start)
        PROVE  PlansFollowed'
    <2>1. LockFree /\ UNCHANGED <<now, loop>>
      BY <1>6 DEF Create
    <2>2. PICK at \in 0..now :
            LET anchor == ComputeAnchor(start, r, at)
                rec == [status |-> "active", plan |-> r, anchor |-> anchor, done |-> 0, runs |-> 0,
                        next |-> NextFutureSlot(anchor, r, at)]
            IN  disk' = [x \in DOMAIN disk \cup {s} |-> IF x = s THEN rec ELSE disk[x]]
      BY <1>6, Zenon DEF Create
    <2> DEFINE anchor == ComputeAnchor(start, r, at)
               rec == [status |-> "active", plan |-> r, anchor |-> anchor, done |-> 0, runs |-> 0,
                       next |-> NextFutureSlot(anchor, r, at)]
    <2>3. Follows(rec, now)
      <3>1. at \in Nat /\ at <= now
        BY <1>1
      <3> QED BY <1>1, <3>1, FollowsCreated
    <2>4. disk' = [x \in DOMAIN disk \cup {s} |-> IF x = s THEN rec ELSE disk[x]]
      BY <2>2
    <2> HIDE DEF rec
    <2>5. /\ \A x \in DOMAIN disk' : x # s => x \in DOMAIN disk /\ disk'[x] = disk[x]
          /\ disk'[s] = rec
      BY <2>4
    <2> QED BY <2>1, <2>3, <2>5, EndpointFollows
  <1>7. ASSUME NEW s \in Schedule, Pause(s) PROVE PlansFollowed'
    <2>1. /\ LockFree /\ UNCHANGED <<now, loop>> /\ s \in DOMAIN disk
          /\ disk' = [disk EXCEPT ![s].status = "paused"]
      BY <1>7 DEF Pause
    <2> DEFINE new == [disk[s] EXCEPT !.status = "paused"]
    <2>2. disk' = [disk EXCEPT ![s] = new]
      BY <2>1
    <2>3. /\ new.plan = disk[s].plan /\ new.anchor = disk[s].anchor /\ new.next = disk[s].next
          /\ new.done = disk[s].done /\ new.status = "paused"
      BY <1>1, <2>1 DEF Record
    <2> HIDE DEF new
    <2>4. Follows(new, now)
      BY <1>1, <2>1, <2>3, FollowsAlike DEF PlansFollowed
    <2>5. /\ \A x \in DOMAIN disk' : x # s => x \in DOMAIN disk /\ disk'[x] = disk[x]
          /\ disk'[s] = new
      BY <1>1, <2>1, <2>2 DEF Stored
    <2> QED BY <2>1, <2>4, <2>5, EndpointFollows
  <1>8. ASSUME NEW s \in Schedule, Resume(s) PROVE PlansFollowed'
    <2> DEFINE active == [disk[s] EXCEPT !.status = "active"]
               new == AdvancePastNow(active, now)
    <2>1. /\ LockFree /\ UNCHANGED <<now, loop>> /\ s \in DOMAIN disk
          /\ disk' = [disk EXCEPT ![s] = new]
      BY <1>8 DEF Resume
    <2>2. /\ active.plan = disk[s].plan /\ active.anchor = disk[s].anchor
          /\ active.next = disk[s].next /\ active.done = disk[s].done
          /\ active.status = "active" /\ active \in Record
      BY <1>1, <2>1 DEF Record
    <2> HIDE DEF active
    <2>3. Follows(active, now)
      BY <1>1, <2>1, <2>2, FollowsAlike DEF PlansFollowed
    <2>4. Follows(new, now)
      BY <1>1, <2>2, <2>3, FollowsAdvance
    <2> HIDE DEF new
    <2>5. /\ \A x \in DOMAIN disk' : x # s => x \in DOMAIN disk /\ disk'[x] = disk[x]
          /\ disk'[s] = new
      BY <1>1, <2>1 DEF Stored
    <2> QED BY <2>1, <2>4, <2>5, EndpointFollows
  <1>9. ASSUME NEW s \in Schedule, Delete(s) PROVE PlansFollowed'
    <2>1. /\ LockFree /\ UNCHANGED <<now, loop>>
          /\ disk' = [x \in DOMAIN disk \ {s} |-> disk[x]]
      BY <1>9 DEF Delete
    <2>2. /\ \A x \in DOMAIN disk' : x # s => x \in DOMAIN disk /\ disk'[x] = disk[x]
          /\ s \notin DOMAIN disk'
      BY <2>1
    <2> QED BY <2>1, <2>2, EndpointFollows
  <1>10. ASSUME NEW s \in Schedule, RunNow(s) PROVE PlansFollowed'
    <2>1. LockFree /\ UNCHANGED <<now, loop>> /\ s \in DOMAIN disk
      BY <1>10 DEF RunNow
    <2>2. PICK outcome : disk' = [disk EXCEPT ![s] = WithRun(disk[s], outcome)]
      BY <1>10, Zenon DEF RunNow
    <2> DEFINE new == WithRun(disk[s], outcome)
    <2>3. new = [disk[s] EXCEPT !.runs = new.runs]
      BY <1>1, <2>1, WithRunType
    <2>4. disk' = [disk EXCEPT ![s] = new]
      BY <2>2
    <2> HIDE DEF new
    <2>5. /\ new.plan = disk[s].plan /\ new.anchor = disk[s].anchor /\ new.next = disk[s].next
          /\ new.done = disk[s].done /\ new.status = disk[s].status
      <3>1. PICK kept : kept = new.runs
        OBVIOUS
      <3>2. new = [disk[s] EXCEPT !.runs = kept]
        BY <2>3, <3>1
      <3> QED BY <1>1, <2>1, <3>2 DEF Record
    <2>6. Follows(new, now)
      BY <1>1, <2>1, <2>5, FollowsAlike DEF PlansFollowed
    <2>7. /\ \A x \in DOMAIN disk' : x # s => x \in DOMAIN disk /\ disk'[x] = disk[x]
          /\ disk'[s] = new
      BY <1>1, <2>1, <2>4 DEF Stored
    <2> QED BY <2>1, <2>6, <2>7, EndpointFollows
  <1>11. CASE \/ UNCHANGED vars
              \/ \E s \in Schedule : RunEnters(s) \/ RunEnds(s)
              \/ \E a \in Account : OtherTakes(a) \/ OtherLeaves(a)
    <2>1. UNCHANGED <<disk, now, loop, tick>>
      BY <1>11 DEF vars, RunEnters, RunEnds, OtherTakes, OtherLeaves
    <2> QED BY <2>1 DEF PlansFollowed
  <1>12. CASE Start \/ TickSaveFails \/ WakeUp \/ Crash
    <2>1. UNCHANGED <<disk, now>> /\ loop' # "tick"
      BY <1>12 DEF Start, TickSaveFails, WakeUp, Crash
    <2> QED BY <2>1 DEF PlansFollowed
  <1> QED BY <1>2, <1>3, <1>4, <1>5, <1>6, <1>7, <1>8, <1>9, <1>10, <1>11, <1>12
          DEF Next, LoopStep, Operator

(* A schedule is completed only when its count is used up or none of its   *)
(* slots is still to come: no pause, restart, failed save or late tick     *)
(* ends a plan early, nor does the bounded look-ahead, except for a plan   *)
(* that was out of its reach when it was asked for and never began         *)
(* (schedules_service.py:667-698, recurrence.py:74-77).                    *)
THEOREM PlansEndInTime == Spec => []CompletesOnlyWhenOver
PROOF
  <1>1. Init => PlansFollowed
    BY DEF Init, EmptyDict, PlansFollowed
  <1>2. IInv /\ PlansFollowed /\ [Next]_vars => PlansFollowed'
    BY FollowedStep
  <1>3. PlansFollowed => CompletesOnlyWhenOver
    <2>1. \A k \in Indices : k \in Nat
      BY RunnerAssumption, HorizonAssumption DEF Indices
    <2>2. \A rec : Spent(rec, now) => Over(rec) \/ OutOfReach(rec)
      BY <2>1 DEF Spent, Unseen, Over, OutOfReach
    <2> QED BY <2>2 DEF PlansFollowed, Follows, CompletesOnlyWhenOver
  <1> QED BY <1>1, <1>2, <1>3, InvHolds, PTL DEF Spec
=============================================================================
