---------------------------- MODULE RunConsumersMC ---------------------------
(* RunConsumers for TLC: one Run that can be executed and one that cannot. *)
EXTENDS RunConsumers

CONSTANTS r1, r2, x, t1, t2

WholeGraph == [r \in Runs |-> Nodes]
==============================================================================
