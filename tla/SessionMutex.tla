---------------------------- MODULE SessionMutex ----------------------------
(***************************************************************************)
(* What the account manager promises about `.session` files: a task owns   *)
(* all the session files it asked for at once, or none of them, and no two *)
(* tasks ever own the same file (accounts.py:319-384, docstrings).  How    *)
(* the files are obtained -- locks, order, queues -- is left out; module   *)
(* SessionLocks shows that the code's locks implement this.                *)
(***************************************************************************)
CONSTANTS Account, Task

VARIABLE using      \* [Task -> SUBSET Account]: the session files a task owns

Init == using = [t \in Task |-> {}]

Enter(t) ==
  \E S \in (SUBSET Account) \ {{}} :
    /\ using[t] = {}
    /\ \A u \in Task : using[u] \cap S = {}
    /\ using' = [using EXCEPT ![t] = S]

Leave(t) ==
  /\ using[t] # {}
  /\ using' = [using EXCEPT ![t] = {}]

Next == \E t \in Task : Enter(t) \/ Leave(t)

Spec == Init /\ [][Next]_using
=============================================================================
