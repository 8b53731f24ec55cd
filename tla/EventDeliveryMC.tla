--------------------------- MODULE EventDeliveryMC ---------------------------
(* Instances of EventDelivery for TLC. *)
EXTENDS EventDelivery

\* "plain" is an unproven recipient, "keyed" an enrolled one, "broken" has a
\* URL that cannot be parsed.
MCIdentities == {"plain", "keyed", "broken"}
MCSafe == {"keyed"}
MCUnsendable == {"broken"}
==============================================================================
