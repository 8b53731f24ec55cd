------------------------- MODULE AttemptExecutionMC --------------------------
(***************************************************************************)
(* AttemptExecution for TLC: one Run whose Graph is all of Nodes.          *)
(***************************************************************************)
EXTENDS AttemptExecution

CONSTANTS r1, x, y, t1, t2

WholeGraph == [r \in Runs |-> Nodes]
==============================================================================
