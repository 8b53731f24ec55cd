---------------------------- MODULE EventReplayMC ----------------------------
(* Instances of EventReplay for TLC. *)
EXTENDS EventReplay
==============================================================================
