----------------------------- MODULE MCQueueRun -----------------------------
(* The instance of QueueRun for TLC: QueueRun.cfg gives the constants.      *)
EXTENDS QueueRun
=============================================================================
