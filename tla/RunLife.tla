------------------------------ MODULE RunLife ------------------------------
(***************************************************************************)
(* What an operator may rely on about a run, whatever cancels, pauses,     *)
(* deletions and crashes it sees and however the threads that serve them   *)
(* are switched (action_queue_service.py:44-47, routes/actions.py:82-180,  *)
(* action_runs_service.py:10-30).  A run is shown as final only when its   *)
(* worker has ended, and then it calls Telegram no more.  What brings an   *)
(* active status back is a control that saw the run alive, once.  Only a   *)
(* thread that found the run final, or not there yet, removes it.  The     *)
(* file gets what memory says or loses the run, and a restart leaves no    *)
(* run that is shown as active.  How this comes about is module QueueRun.  *)
(***************************************************************************)
EXTENDS Naturals

CONSTANTS Thread,    \* threads that serve requests
          MaxTries   \* how many Telegram tries an operation may take

VARIABLES phase,     \* "new", "working" or "ended"
          shown,     \* "active" or "final": what its status tells
          listed,    \* is it among the runs?
          filed,     \* "none", "active" or "final": what the file tells
          seen,      \* threads about to control the run they saw alive
          doomed,    \* threads about to remove the runs they looked at
          tries      \* Telegram tries begun for the operation under way

threads == <<seen, doomed>>
vars == <<phase, shown, listed, filed, threads, tries>>

Init ==
  /\ phase = "new" /\ shown = "active" /\ tries = 0
  /\ ~listed /\ filed = "none"
  /\ seen = {} /\ doomed = {}

List ==
  /\ phase = "new"
  /\ phase' = "working" /\ listed' = TRUE
  /\ UNCHANGED <<shown, filed, threads, tries>>

Call ==
  /\ phase = "working"
  /\ tries < MaxTries
  /\ tries' = tries + 1
  /\ UNCHANGED <<phase, shown, listed, filed, threads>>

(* The operation is over.                                                  *)
Answer ==
  /\ phase = "working"
  /\ tries' = 0
  /\ UNCHANGED <<phase, shown, listed, filed, threads>>

(* The worker stops calling; it says so then or later.                     *)
End ==
  /\ phase # "new"
  /\ phase' = "ended"
  /\ shown' \in {shown, "final"}
  /\ tries' \in {tries, 0}
  /\ UNCHANGED <<listed, filed, threads>>

(* A thread looks at the run and means to control or to remove it.         *)
Look(h) ==
  /\ listed /\ shown = "active"
  /\ seen' = seen \cup {h}
  /\ UNCHANGED <<phase, shown, listed, filed, doomed, tries>>
Doom(h) ==
  /\ listed => shown = "final"
  /\ doomed' = doomed \cup {h}
  /\ UNCHANGED <<phase, shown, listed, filed, seen, tries>>

(* It does so, whatever has become of the run.                             *)
Steer(h) ==
  /\ h \in seen
  /\ seen' = seen \ {h}
  /\ shown' \in {shown, "active"}
  /\ UNCHANGED <<phase, listed, filed, doomed, tries>>
Remove(h) ==
  /\ h \in doomed
  /\ doomed' = doomed \ {h}
  /\ listed' = FALSE
  /\ UNCHANGED <<phase, shown, filed, seen, tries>>

File == filed' \in {"none", shown} /\ UNCHANGED <<phase, shown, listed, threads, tries>>

(* The process ends and starts again with what the file says.              *)
Restart ==
  /\ phase' = "ended"
  /\ listed' = (filed # "none")
  /\ filed # "none" => shown' = "final" /\ filed' = "final"
  /\ filed = "none" => UNCHANGED <<shown, filed>>
  /\ seen' = {} /\ doomed' = {} /\ tries' = 0

Next ==
  \/ List \/ Call \/ Answer \/ End \/ File \/ Restart
  \/ \E h \in Thread : Look(h) \/ Doom(h) \/ Steer(h) \/ Remove(h)

Spec == Init /\ [][Next]_vars
=============================================================================
