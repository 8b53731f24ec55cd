------------------------------ MODULE EffectOnce ------------------------------
(***************************************************************************)
(* What every part of the system that calls somebody else promises about   *)
(* one external effect, however often it is tried: it is applied at most   *)
(* once, whoever says that it happened is right, and nothing happens while *)
(* it is said to be absent.  A new try takes the statement of absence      *)
(* back before it may be applied.                                          *)
(*                                                                         *)
(* EffectInvocation (provider calls of a Run) and EventDelivery (events    *)
(* sent to handlers) implement it.                                         *)
(***************************************************************************)
CONSTANT Tries

VARIABLES
    applied,   \* the tries that the other side has applied
    said       \* what the records say: "open", "done" or "absent"

Init == applied = {} /\ said = "open"

Apply(t) ==
    /\ applied = {}
    /\ said # "absent"
    /\ applied' = {t}
    /\ UNCHANGED said

Confirm ==
    /\ said = "open"
    /\ applied # {}
    /\ said' = "done"
    /\ UNCHANGED applied

Deny ==
    /\ said = "open"
    /\ applied = {}
    /\ said' = "absent"
    /\ UNCHANGED applied

TryAgain ==
    /\ said = "absent"
    /\ said' = "open"
    /\ UNCHANGED applied

Next == (\E t \in Tries : Apply(t)) \/ Confirm \/ Deny \/ TryAgain

Spec == Init /\ [][Next]_<<applied, said>>
==============================================================================
