-------------------------- MODULE MCNativeSchedule --------------------------
(* The instance of NativeSchedule for TLC: NativeSchedule.cfg gives the     *)
(* constants.                                                               *)
EXTENDS NativeSchedule
=============================================================================
