------------------------------ MODULE MCRunConsole ------------------------------
(* Instances of RunConsole for TLC.                                             *)
EXTENDS RunConsole

TwoRuns == 1..2
===============================================================================
