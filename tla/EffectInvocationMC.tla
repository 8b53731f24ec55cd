------------------------- MODULE EffectInvocationMC --------------------------
(***************************************************************************)
(* EffectInvocation for TLC: two workers with a caller each, one of which  *)
(* is also where ambiguous effects are reconciled.                         *)
(***************************************************************************)
EXTENDS EffectInvocation

CONSTANTS w1, w2, c1, c2, l1

Home == [p \in Calls \union Lookers |-> IF p = c2 THEN w2 ELSE w1]
==============================================================================
