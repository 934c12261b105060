------------------------------ MODULE Recurrence ------------------------------
(***************************************************************************)
(* The recurrence arithmetic of recurrence.py: which slots a plan has,     *)
(* which of them come next and how many have passed.  A plan has a slot    *)
(* every `delta` from its anchor on, at most `count` of them and none      *)
(* after `until`; either limit may be missing (Never).  Times are numbers; *)
(* the code computes with whole intervals, so the unit is immaterial.      *)
(***************************************************************************)
EXTENDS Integers, Sequences, FiniteSets

CONSTANTS NativeHorizon,  \* NATIVE_HORIZON, 364 days
          Margin          \* the 2 days next_future_slot looks further

ASSUME HorizonAssumption == NativeHorizon \in Nat /\ Margin \in Nat

Never == -1

Plan == [delta : Nat \ {0}, count : (Nat \ {0}) \cup {Never},
         until : Nat \cup {Never}]

(* compute_anchor: the start asked for, or one interval after creation.    *)
ComputeAnchor(start, r, created) ==
  IF start # Never THEN start ELSE created + r.delta

Slot(anchor, r, k) == anchor + k * r.delta

(* The index of the first slot later than `after`.                         *)
FirstAfter(anchor, r, after) ==
  IF after < anchor THEN 0 ELSE (after - anchor) \div r.delta + 1

(* The conditions under which the loop of upcoming_fire_times stops at k.  *)
Beyond(anchor, r, horizon, k) ==
  \/ r.count # Never /\ k >= r.count
  \/ Slot(anchor, r, k) > horizon
  \/ r.until # Never /\ Slot(anchor, r, k) > r.until

(* upcoming_fire_times.  The loop also drops slots that are not later than *)
(* `after`; from FirstAfter on there are none (FirstAfterIsFirst).         *)
UpcomingFireTimes(anchor, r, after, horizon, limit) ==
  LET first == FirstAfter(anchor, r, after)
      n == CHOOSE n \in 0..limit :
             /\ n = limit \/ Beyond(anchor, r, horizon, first + n)
             /\ \A m \in 0..(n - 1) : ~Beyond(anchor, r, horizon, first + m)
  IN  [i \in 1..n |-> Slot(anchor, r, first + i - 1)]

(* next_future_slot looks a bounded time ahead; Never stands for None.     *)
NextFutureSlot(anchor, r, after) ==
  LET times == UpcomingFireTimes(anchor, r, after,
                                 after + NativeHorizon + Margin, 1)
  IN  IF times = <<>> THEN Never ELSE times[1]

(* fires_elapsed: how many slots have passed at `instant`.                 *)
FiresElapsed(anchor, r, instant) ==
  LET effective == IF r.until # Never /\ r.until < instant THEN r.until ELSE instant
      elapsed   == (effective - anchor) \div r.delta + 1
  IN  IF effective < anchor THEN 0
      ELSE IF r.count # Never /\ r.count < elapsed THEN r.count ELSE elapsed

(* native_horizon                                                          *)
HorizonOf(r, now) ==
  IF r.until # Never /\ r.until < now + NativeHorizon THEN r.until
  ELSE now + NativeHorizon

-----------------------------------------------------------------------------
(* What the plan means, independently of how the code computes it.         *)
InPlan(anchor, r, k) ==
  /\ r.count # Never => k < r.count
  /\ r.until # Never => Slot(anchor, r, k) <= r.until

(* The slots of the plan in the interval (after, to], with indices up to N.*)
PlannedSlots(anchor, r, after, to, N) ==
  {t \in {Slot(anchor, r, k) : k \in {j \in 0..N : InPlan(anchor, r, j)}} :
     after < t /\ t <= to}

(* upcoming_fire_times returns the first `limit` slots of the plan in      *)
(* (after, horizon], in order, wherever `after` falls: before the anchor,  *)
(* between slots, on a slot, behind the end (recurrence.py:42-71).         *)
UpcomingIsExact(R, T) ==
  \A r \in R, anchor, after, horizon \in T, limit \in 0..3 :
    LET times   == UpcomingFireTimes(anchor, r, after, horizon, limit)
        planned == PlannedSlots(anchor, r, after, horizon, Cardinality(T))
    IN  /\ {times[i] : i \in DOMAIN times} \subseteq planned
        /\ \A i \in 2..Len(times) : times[i - 1] < times[i]
        /\ Len(times) = limit \/ Len(times) = Cardinality(planned)
        /\ \A t \in planned : \/ \E i \in DOMAIN times : times[i] = t
                              \/ \A j \in DOMAIN times : times[j] < t

(* fires_elapsed counts the slots of the plan up to and including the      *)
(* instant, so a slot has either elapsed or is upcoming, never both        *)
(* (recurrence.py:79-89).                                                  *)
ElapsedIsExact(R, T) ==
  \A r \in R, anchor, instant \in T :
    FiresElapsed(anchor, r, instant)
      = Cardinality(PlannedSlots(anchor, r, -1, instant, Cardinality(T)))
=============================================================================
