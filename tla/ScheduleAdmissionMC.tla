------------------------ MODULE ScheduleAdmissionMC ------------------------
(* Model values for the runs of ScheduleAdmission. *)
EXTENDS ScheduleAdmission, TLC

CONSTANTS k1, k2, m1, m2, a

FourDefinitions == {[overlap |-> "skip", window |-> 1], [overlap |-> "buffer_one", window |-> 2],
                    [overlap |-> "allow", window |-> 1], [overlap |-> "cancel_other", window |-> 2]}

TheDefault == {[overlap |-> "skip", window |-> 2]}

\* The tickers alone, or one of them and the callers.
AllTickers == {Tickers}
TickerAndCallers == {Tickers} \union {{k} \union Callers : k \in Tickers}

Symmetry == Permutations(Tickers) \union Permutations(Callers)

============================================================================
