---------------------------- MODULE MCReplayStats ----------------------------
(* Model-checking instance of ReplayStats, with the constants of MCReplay. *)
EXTENDS ReplayStats, MCReplay

=============================================================================
