--------------------------- MODULE MCResourceCache ---------------------------
(* Instances of ResourceCache for TLC.                                        *)
EXTENDS ResourceCache

AllKinds == {"polled", "loaded", "toggle", "form"}
==============================================================================
