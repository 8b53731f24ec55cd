--------------------------- MODULE EffectInvocation ---------------------------
(***************************************************************************)
(* One logical effect of a Run and the provider calls that try to bring it *)
(* about (capabilities/invocation.py): InvocationExecutionService.invoke   *)
(* admits at most one call at a time, records it before it is dispatched,  *)
(* and blocks a repetition until somebody proves that the effect did not   *)
(* happen; reconcile and reconcile_with_provider settle what was left      *)
(* ambiguous.                                                              *)
(*                                                                         *)
(* Several workers share a durable store.  Inside a worker the effect lock *)
(* of its service serialises the calls up to their dispatch; between       *)
(* workers only the store does, by a unique index over the rows that have  *)
(* not failed and a compare-and-swap on the revision of a row.  Each store *)
(* operation is atomic, and anything may happen between two of them.       *)
(*                                                                         *)
(* Rows are listed by created_at, which a candidate is given before it is  *)
(* admitted: ids are handed out in that order.                             *)
(***************************************************************************)
EXTENDS Naturals

CONSTANTS
    Ids,         \* the pool of Invocation ids, in the order of created_at
    Workers,     \* the processes that share the store
    Calls,       \* the callers of invoke
    Lookers,     \* the callers of reconcile and reconcile_with_provider
    WorkerOf,    \* where each of them runs
    RevLimit,    \* how often one row may be written
    LiveStale    \* whether a caller's cutoff may be late enough for a dispatch
                 \* that another worker is still executing

ASSUME InvocationIdAssumption == Ids \subseteq Nat \ {0}
ASSUME WorkerAssumption == WorkerOf \in [Calls \union Lookers -> Workers]
ASSUME ReconcileAssumption == RevLimit \in Nat /\ LiveStale \in BOOLEAN

VARIABLES
    rows,     \* the Invocation rows of the effect
    minted,   \* the ids given to candidates so far
    remote,   \* what has become of each request at the provider
    call,     \* the local state of each call of invoke
    look      \* the local state of each reconciliation with a provider

vars == <<rows, minted, remote, call, look>>

OpenStatus == {"created", "running", "completed", "unknown"}

InvocationStatus == OpenStatus \union {"failed"}

Row == [status : InvocationStatus \union {"absent"}, rev : Nat, active : BOOLEAN]

AbsentRow == [status |-> "absent", rev |-> 0, active |-> FALSE]

\* id, rev: the row the call drives, as it last saw it; end: how it ended.
IdleCall == [pc |-> "idle", id |-> 0, rev |-> 0, end |-> "none"]

IdleLook == [pc |-> "idle", id |-> 0, rev |-> 0, found |-> "none"]

Init ==
    /\ rows = [k \in Ids |-> AbsentRow]
    /\ minted = {}
    /\ remote = [k \in Ids |-> "none"]
    /\ call = [c \in Calls |-> IdleCall]
    /\ look = [l \in Lookers |-> IdleLook]

------------------------------------------------------------------------------
\* The store and the locks

Admitted == {k \in Ids : rows[k].status # "absent"}

\* history[-1] is a row with this status.
LatestIs(status) ==
    \E k \in Admitted : rows[k].status = status /\ \A j \in Admitted : j <= k

\* Mutant: a call whose outcome is unknown does not stop the next one.
NoneRuns == \A k \in Ids : rows[k].status \notin OpenStatus \ {"unknown"}

\* uq_capability_invocation_active_effect would let a row in.
EffectIsFree == \A k \in Ids : rows[k].status \notin OpenStatus

\* Mutant: the row is written whatever its revision.
SaveBlindly(k, rev, status, active) ==
    rows' = [rows EXCEPT ![k] = [status |-> status, rev |-> rev + 1, active |-> active]]

\* save: the revision the writer has seen is still the current one.
Save(k, rev, status, active) ==
    /\ rows[k].rev = rev
    /\ rows' = [rows EXCEPT ![k] = [status |-> status, rev |-> rev + 1, active |-> active]]

\* The places of invoke inside the effect lock, and those around the executor.
LockedPlaces == {"read", "mint", "admit", "reread", "reserve", "mark", "undo"}

DispatchPlaces == {"dispatch", "await", "settle"}

Locked(w) == \E c \in Calls : WorkerOf[c] = w /\ call[c].pc \in LockedPlaces

\* _PROCESS_ACTIVE_DISPATCHES
ActiveDispatches(w) ==
    {call[c].id : c \in {d \in Calls : WorkerOf[d] = w /\ call[d].pc \in DispatchPlaces}}

IsDriven(k) ==
    \E c \in Calls : call[c].id = k /\ call[c].pc \in DispatchPlaces

Step(c, pc) == call' = [call EXCEPT ![c].pc = pc]

Ends(c, end) == call' = [call EXCEPT ![c] = [IdleCall EXCEPT !.end = end]]

------------------------------------------------------------------------------
\* invoke, up to the dispatch

Invoke(c) ==
    /\ call[c].pc = "idle"
    /\ ~Locked(WorkerOf[c])
    /\ call' = [call EXCEPT ![c] = [IdleCall EXCEPT !.pc = "read"]]
    /\ UNCHANGED <<rows, minted, remote, look>>

\* _prior_effect: replay what completed, refuse what is open, go on otherwise.
ReadHistory(c) ==
    /\ call[c].pc = "read"
    /\ \/ LatestIs("completed") /\ Ends(c, "replayed")
       \/ /\ \E status \in {"created", "running", "unknown"} : LatestIs(status)
          /\ Ends(c, "refused")
       \/ /\ LatestIs("failed") \/ Admitted = {}
          /\ Step(c, "mint")
    /\ UNCHANGED <<rows, minted, remote, look>>

\* Mutant: the id is the next one of the store, not one of the candidate's own.
MintFromStore(c) ==
    /\ call[c].pc = "mint"
    /\ \E k \in Ids \ Admitted :
        /\ \A j \in Ids : j < k => j \in Admitted
        /\ minted' = minted \union {k}
        /\ call' = [call EXCEPT ![c].pc = "admit", ![c].id = k]
    /\ UNCHANGED <<rows, remote, look>>

\* _resolve_provider, then the candidate.
Mint(c) ==
    /\ call[c].pc = "mint"
    /\ \/ Ends(c, "unavailable") /\ UNCHANGED minted
       \/ \E k \in Ids \ minted :
            /\ \A j \in Ids : j < k => j \in minted
            /\ minted' = minted \union {k}
            /\ call' = [call EXCEPT ![c].pc = "admit", ![c].id = k]
    /\ UNCHANGED <<rows, remote, look>>

\* _admit_effect: claim or create.  What is not admitted is read again.
Admit(c) ==
    /\ call[c].pc = "admit"
    /\ \/ /\ EffectIsFree
          /\ rows' = [rows EXCEPT ![call[c].id].status = "created"]
          /\ Step(c, "reserve")
       \/ ~EffectIsFree /\ Step(c, "reread") /\ UNCHANGED rows
    /\ UNCHANGED <<minted, remote, look>>

\* _completed_replay_after_admission_race
RereadHistory(c) ==
    /\ call[c].pc = "reread"
    /\ Ends(c, IF LatestIs("completed") THEN "replayed" ELSE "refused")
    /\ UNCHANGED <<rows, minted, remote, look>>

\* quota.reserve, which may deny the call.
Reserve(c) ==
    /\ call[c].pc = "reserve"
    /\ Step(c, "mark") \/ Step(c, "undo")
    /\ UNCHANGED <<rows, minted, remote, look>>

\* The row becomes running before the executor is entered.  A call that loses
\* its row, or is cancelled after the write, does not enter it.
MarkRunning(c) ==
    LET k == call[c].id IN
    /\ call[c].pc = "mark"
    /\ \/ /\ Save(k, call[c].rev, "running", TRUE)
          /\ call' = [call EXCEPT ![c].pc = "dispatch", ![c].rev = @ + 1]
       \/ Save(k, call[c].rev, "running", TRUE) /\ Step(c, "undo")
       \/ Step(c, "undo") /\ UNCHANGED rows
    /\ UNCHANGED <<minted, remote, look>>

\* _terminalize as failed, when the executor was not entered.
UndoAdmission(c) ==
    LET k == call[c].id IN
    /\ call[c].pc = "undo"
    /\ \/ Save(k, call[c].rev, "failed", FALSE)
       \/ rows[k].rev # call[c].rev /\ UNCHANGED rows
    /\ Ends(c, "denied")
    /\ UNCHANGED <<minted, remote, look>>

------------------------------------------------------------------------------
\* The dispatch

\* The executor sends the request.
Send(c) ==
    /\ call[c].pc = "dispatch"
    /\ remote' = [remote EXCEPT ![call[c].id] = "sent"]
    /\ Step(c, "await")
    /\ UNCHANGED <<rows, minted, look>>

\* The provider applies it or drops it, whoever still waits for the answer.
RemoteEnds(k) ==
    /\ remote[k] = "sent"
    /\ \E fate \in {"applied", "dropped"} : remote' = [remote EXCEPT ![k] = fate]
    /\ UNCHANGED <<rows, minted, call, look>>

\* Mutant: any exception of the executor is taken for a proof of absence.
ReturnsAsFailed(c) ==
    /\ call[c].pc \in {"dispatch", "await"}
    /\ \E end \in {"completed", "failed"} :
        /\ end = "completed" => remote[call[c].id] = "applied"
        /\ call' = [call EXCEPT ![c].pc = "settle", ![c].end = end]
    /\ UNCHANGED <<rows, minted, remote, look>>

\* The executor returns a result, proves by EffectNotApplied that nothing
\* happened, or raises anything else, cancellation included.
ExecutorReturns(c) ==
    /\ call[c].pc \in {"dispatch", "await"}
    /\ \E end \in {"completed", "failed", "unknown"} :
        /\ end = "completed" => remote[call[c].id] = "applied"
        /\ end = "failed" => remote[call[c].id] \in {"none", "dropped"}
        /\ call' = [call EXCEPT ![c].pc = "settle", ![c].end = end]
    /\ UNCHANGED <<rows, minted, remote, look>>

\* _terminalize; a row somebody else has written since is left as it is.
Terminalize(c) ==
    LET k == call[c].id IN
    /\ call[c].pc = "settle"
    /\ \/ Save(k, call[c].rev, call[c].end, FALSE)
       \/ rows[k].rev # call[c].rev /\ UNCHANGED rows
    /\ Ends(c, "settled")
    /\ UNCHANGED <<minted, remote, look>>

------------------------------------------------------------------------------
\* Reconciliation

\* Evidence is true when it is gathered.
Evidence(k) ==
    {"indeterminate"}
        \union (IF remote[k] = "applied" THEN {"applied"} ELSE {})
        \union (IF remote[k] \in {"none", "dropped"} THEN {"not_applied"} ELSE {})

\* _require_reconcilable, and the early return for what is settled.
Reconcilable(k, w) ==
    /\ rows[k].status \in {"created", "running", "unknown"}
    /\ k \notin ActiveDispatches(w)
    /\ rows[k].active \/ rows[k].status = "running" => LiveStale \/ ~IsDriven(k)

\* Mutant: no proof that it was applied is a proof that it was not.
SettledWithoutProof(status, disposition) ==
    IF disposition = "applied" THEN "completed" ELSE "failed"

\* _settlement_fields
SettledStatus(status, disposition) ==
    IF disposition = "applied" THEN "completed"
    ELSE IF disposition = "not_applied" THEN "failed"
    ELSE status

\* _reconcile_values_locked
Settle(k, rev, disposition) ==
    /\ rev < RevLimit
    /\ Save(k, rev, SettledStatus(rows[k].status, disposition), FALSE)

\* reconcile: an operator's evidence, applied to the row as it is now.
Reconcile(l, k) ==
    /\ look[l].pc = "idle"
    /\ ~Locked(WorkerOf[l])
    /\ Reconcilable(k, WorkerOf[l])
    /\ \E disposition \in Evidence(k) : Settle(k, rows[k].rev, disposition)
    /\ UNCHANGED <<minted, remote, call, look>>

\* reconcile_with_provider: a snapshot under the lock,
TakeSnapshot(l, k) ==
    /\ look[l].pc = "idle"
    /\ ~Locked(WorkerOf[l])
    /\ Reconcilable(k, WorkerOf[l])
    /\ look' = [look EXCEPT ![l] = [pc |-> "ask", id |-> k, rev |-> rows[k].rev, found |-> "none"]]
    /\ UNCHANGED <<rows, minted, remote, call>>

\* the provider's evidence outside it,
AskProvider(l) ==
    /\ look[l].pc = "ask"
    /\ \E disposition \in Evidence(look[l].id) :
            look' = [look EXCEPT ![l].pc = "apply", ![l].found = disposition]
    /\ UNCHANGED <<rows, minted, remote, call>>

\* and its application, unless the row has moved meanwhile.
ApplyEvidence(l) ==
    LET k == look[l].id IN
    /\ look[l].pc = "apply"
    /\ ~Locked(WorkerOf[l])
    /\ \/ /\ rows[k].status \in {"created", "running", "unknown"}
          /\ Settle(k, look[l].rev, look[l].found)
       \/ /\ \/ rows[k].status \in {"completed", "failed"}
             \/ rows[k].rev # look[l].rev
             \/ look[l].rev >= RevLimit
          /\ UNCHANGED rows
    /\ look' = [look EXCEPT ![l] = IdleLook]
    /\ UNCHANGED <<minted, remote, call>>

------------------------------------------------------------------------------
\* A worker dies with everything it runs.
Crash(w) ==
    /\ call' = [c \in Calls |-> IF WorkerOf[c] = w THEN IdleCall ELSE call[c]]
    /\ look' = [l \in Lookers |-> IF WorkerOf[l] = w THEN IdleLook ELSE look[l]]
    /\ UNCHANGED <<rows, minted, remote>>

Next ==
    \/ \E c \in Calls :
        \/ Invoke(c) \/ ReadHistory(c) \/ Mint(c) \/ Admit(c) \/ RereadHistory(c)
        \/ Reserve(c) \/ MarkRunning(c) \/ UndoAdmission(c)
        \/ Send(c) \/ ExecutorReturns(c) \/ Terminalize(c)
    \/ \E k \in Ids : RemoteEnds(k)
    \/ \E l \in Lookers :
        \/ \E k \in Ids : Reconcile(l, k) \/ TakeSnapshot(l, k)
        \/ AskProvider(l) \/ ApplyEvidence(l)
    \/ \E w \in Workers : Crash(w)

Spec == Init /\ [][Next]_vars
------------------------------------------------------------------------------
\* Properties

CallRecord ==
    [pc : LockedPlaces \union DispatchPlaces \union {"idle"},
     id : Ids \union {0}, rev : Nat,
     end : {"none", "replayed", "refused", "unavailable", "denied", "settled",
            "completed", "failed", "unknown"}]

LookRecord ==
    [pc : {"idle", "ask", "apply"}, id : Ids \union {0}, rev : Nat,
     found : {"none", "applied", "not_applied", "indeterminate"}]

\* Every record has its shape, and a call that has a candidate, or drives a
\* row, has one of its own.
InvocationTypeOK ==
    /\ rows \in [Ids -> Row]
    /\ minted \subseteq Ids
    /\ Admitted \subseteq minted
    /\ remote \in [Ids -> {"none", "sent", "applied", "dropped"}]
    /\ call \in [Calls -> CallRecord]
    /\ look \in [Lookers -> LookRecord]
    /\ \A c \in Calls : call[c].id # 0 =>
            /\ call[c].id \in minted
            /\ \A d \in Calls : call[d].id = call[c].id => c = d
    /\ \A c \in Calls : call[c].pc \in DispatchPlaces \union (LockedPlaces \ {"read", "mint"}) =>
            call[c].id # 0

\* Whatever is retried, crashes or is reconciled, from whichever worker: the
\* provider applies the effect at most once.
EffectAppliedOnce ==
    \A j, k \in Ids : remote[j] = "applied" /\ remote[k] = "applied" => j = k

\* What a settled row says is true and stays true: the provider did apply the
\* effect of a completed row, and will never apply that of a failed one.
OutcomeIsTrue ==
    \A k \in Ids :
        /\ rows[k].status = "completed" => remote[k] = "applied"
        /\ rows[k].status = "failed" =>
                /\ remote[k] \in {"none", "dropped"}
                /\ \A c \in Calls : call[c].id = k => call[c].pc # "dispatch"

\* A completed or failed row keeps its outcome: a late answer never overwrites
\* an operator's settlement, nor the other way round.
KeepsOutcomes ==
    \A k \in Ids : rows[k].status \in {"completed", "failed"} => rows'[k].status = rows[k].status

OutcomeIsFinal == [][KeepsOutcomes]_vars

\* What the rows of the effect, taken together, say about it.
Verdict ==
    IF \E k \in Ids : rows[k].status = "completed" THEN "done"
    ELSE IF Admitted # {} /\ EffectIsFree THEN "absent" ELSE "open"

\* The promise of EffectOnce: calls, losers of races, late answers and
\* operators are one attempt after the other at a single effect.
Effect == INSTANCE EffectOnce WITH
    Tries <- Ids, applied <- {k \in Ids : remote[k] = "applied"}, said <- Verdict

InvokesOnce == Effect!Spec

\* A call on an effect that has a completed row replays it; it is not refused
\* as unsafe to retry.
RefusesNoCompleted ==
    \A c \in Calls :
        /\ call[c].pc = "reread"
        /\ call'[c].end = "refused"
        => \A k \in Ids : rows[k].status # "completed"

CompletedEffectIsReplayed == [][RefusesNoCompleted]_vars
==============================================================================
