--------------------------- MODULE MCRunnerSchedule ---------------------------
(* Small instances of RunnerSchedule for TLC.                              *)
EXTENDS RunnerSchedule

CONSTANTS s1, s2, a1

OneAccount == [s \in Schedule |-> a1]
CountedOrDated == {[delta |-> 1, count |-> 2, until |-> Never],
                   [delta |-> 2, count |-> Never, until |-> 4]}
SoonPastOrFar == {Never, 0, 8}

(* The recurrence arithmetic over all small plans, evaluated once.  The    *)
(* slots that are upcoming are exactly those of the plan that are later    *)
(* than the given time (recurrence.py:42-71), and fires_elapsed counts the *)
(* others (lines 80-89).                                                   *)
SmallPlans == [delta : 1..3, count : {Never, 1, 2}, until : {Never, 0, 3, 4}]
ASSUME UpcomingExact == UpcomingIsExact(SmallPlans, 0..6)
ASSUME ElapsedExact == ElapsedIsExact(SmallPlans, 0..6)
=============================================================================
