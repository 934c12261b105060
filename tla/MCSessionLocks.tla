--------------------------- MODULE MCSessionLocks ---------------------------
(* Instances of SessionLocks for TLC.                                       *)
EXTENDS SessionLocks

TwoAccounts == 1..2
ThreeAccounts == 1..3
=============================================================================
