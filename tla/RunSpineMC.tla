----------------------------- MODULE RunSpineMC ------------------------------
(***************************************************************************)
(* RunSpine for TLC: one Run over a Graph without the node z.              *)
(***************************************************************************)
EXTENDS RunSpine

CONSTANTS r1, x, y, z

GraphWithoutZ == [r \in Runs |-> Nodes \ {z}]
==============================================================================
