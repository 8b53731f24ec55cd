---- MODULE EventOutboxMC ----
(* Model values for the runs of EventOutbox. *)
EXTENDS EventOutbox

CONSTANTS s1, s2

\* Rows of one stream around the second, which is of another.
TwoStreams == [r \in Rows |-> IF r = 2 THEN s2 ELSE s1]

====
