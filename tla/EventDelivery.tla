---------------------------- MODULE EventDelivery ----------------------------
(***************************************************************************)
(* The delivery of one durable event to the handler of one trigger         *)
(* (events/processing.py) under the receipt of the pair                    *)
(* (events/invocations.py).  Any number of workers may process the event   *)
(* at once.  The receipt is leased to the worker that claims it, marks a   *)
(* dispatch before it is sent, counts the sends, and remembers whether an  *)
(* earlier send may have been applied.                                     *)
(*                                                                         *)
(* A claim rotates the token and every write the revision, so a claim is   *)
(* current exactly while no other claim or settlement has followed it:     *)
(* owner stands for both.  A settlement clears the marker, so at a claim   *)
(* the marker alone says whether a send was left without evidence.         *)
(***************************************************************************)
EXTENDS Naturals

CONSTANTS
    Workers,      \* the tasks that may process the event
    MaxAttempts,  \* MAX_ATTEMPTS
    Identities,   \* destinations a trigger may declare
    Safe,         \* those enrolled as idempotent or read-only
    Unsendable,   \* those whose URL is missing or malformed
    CrashLimit    \* how many workers die or are cancelled

ASSUME DeliveryAssumption ==
    /\ MaxAttempts \in Nat \ {0}
    /\ Safe \subseteq Identities /\ Unsendable \subseteq Identities
    /\ "none" \notin Identities /\ "none" \notin Workers
    /\ CrashLimit \in Nat

VARIABLES
    declared,   \* what the trigger store says now
    receipt,    \* the receipt of the pair
    work,       \* the local state of each worker's dispatch
    remote,     \* what became of each physical send, by its number
    announced,  \* whether a handler.failed event was appended
    crashes

vars == <<declared, receipt, work, remote, announced, crashes>>

Sends == 1..MaxAttempts

Settled == {"success", "failed", "unknown"}

NoReceipt ==
    [status |-> "absent", attempts |-> 0, identity |-> "none", owner |-> "none",
     leased |-> FALSE, marker |-> FALSE, uncertain |-> FALSE]

\* delivery: the identity read from the trigger; send: the attempt begun;
\* uncertain: as the claim returned it; goal, proof: the settlement to write.
IdleWork ==
    [pc |-> "idle", delivery |-> "none", send |-> 0, uncertain |-> FALSE,
     goal |-> "none", proof |-> "none", report |-> "none"]

Init ==
    /\ declared \in Identities
    /\ receipt = NoReceipt
    /\ work = [w \in Workers |-> IdleWork]
    /\ remote = [n \in Sends |-> "none"]
    /\ announced = FALSE
    /\ crashes = 0

------------------------------------------------------------------------------
\* The receipt store

IsSettled == receipt.status \in Settled

\* Mutant: the marker of a lapsed claim is forgotten.
ClaimedForgetful(w, delivery) ==
    [receipt EXCEPT
        !.status = IF @ = "absent" THEN "pending" ELSE @,
        !.identity = IF @ = "none" THEN delivery ELSE @,
        !.owner = w, !.leased = TRUE, !.marker = FALSE]

\* claim: an identity is frozen once, a marker without evidence is folded.
Claimed(w, delivery) ==
    [receipt EXCEPT
        !.status = IF @ = "absent" THEN "pending" ELSE @,
        !.identity = IF @ = "none" THEN delivery ELSE @,
        !.owner = w, !.leased = TRUE, !.marker = FALSE,
        !.uncertain = @ \/ receipt.marker]

\* Mutant: the budget is not looked at.
BeginsUnlimited(w) == receipt.owner = w /\ receipt.leased

\* begin_dispatch would write.
Begins(w) == receipt.owner = w /\ receipt.attempts < MaxAttempts /\ receipt.leased

\* validate_settle
Supported(goal, proof) ==
    LET unproven == receipt.uncertain \/ proof = "indeterminate" IN
    \/ goal = "success" /\ proof = "acknowledged" /\ receipt.marker
    \/ goal = "failed" /\ proof = "not_applied" /\ ~unproven
    \/ /\ goal = "retrying" /\ proof # "acknowledged"
       /\ receipt.attempts < MaxAttempts
       /\ unproven => receipt.identity \in Safe
    \/ goal = "unknown" /\ proof # "acknowledged"

\* settle_fields
SettledAs(goal, proof) ==
    [receipt EXCEPT
        !.status = goal, !.owner = "none", !.leased = FALSE, !.marker = FALSE,
        !.uncertain = @ \/ proof = "indeterminate"]

\* Mutant: whoever comes last writes.
SettlesUnfenced(w, goal, proof) ==
    /\ ~IsSettled \/ receipt.owner # w
    /\ receipt' = SettledAs(goal, proof)

\* settle, by the current owner, whose evidence supports the status
Settles(w, goal, proof) ==
    /\ receipt.owner = w
    /\ Supported(goal, proof)
    /\ receipt' = SettledAs(goal, proof)

------------------------------------------------------------------------------
\* _dispatch

At(w, pc) == work[w].pc = pc

Goes(w, pc) == work' = [work EXCEPT ![w].pc = pc]

\* It will settle as goal, on this evidence.
Concludes(w, pc, goal, proof) ==
    work' = [work EXCEPT ![w].pc = pc, ![w].goal = goal, ![w].proof = proof]

\* The dispatch returns what the receipt says.
Reports(w) ==
    work' = [work EXCEPT ![w] =
                [IdleWork EXCEPT !.report = IF receipt'.status \in Settled THEN "settled" ELSE "open"]]

\* The operator edits the trigger.
Declare(i) ==
    /\ declared # i
    /\ declared' = i
    /\ UNCHANGED <<receipt, work, remote, announced, crashes>>

\* get_matching: the trigger is read before the dispatch.
ReadTrigger(w) ==
    /\ At(w, "idle")
    /\ work' = [work EXCEPT ![w] = [IdleWork EXCEPT !.pc = "claim", !.delivery = declared]]
    /\ UNCHANGED <<declared, receipt, remote, announced, crashes>>

\* A settled or leased receipt is reread, not sent.
ClaimRefused(w) ==
    /\ At(w, "claim")
    /\ IsSettled \/ receipt.leased
    /\ UNCHANGED receipt
    /\ Reports(w)
    /\ UNCHANGED <<declared, remote, announced, crashes>>

\* Mutant: a changed declaration is not noticed.
RefusedUnread(claimed, delivery) == delivery \in Unsendable

\* The frozen identity is not the one declared, or cannot be sent to.
Refused(claimed, delivery) ==
    claimed.identity # delivery \/ delivery \in Unsendable

\* Mutant: an uncertain send is repeated, whoever the recipient is.
NeverRisky(claimed, delivery) == FALSE

\* An earlier send may have been applied and the recipient cannot tell.
Risky(claimed, delivery) == claimed.uncertain /\ delivery \notin Safe

\* claim, and _settle_pre_send_refusal on the receipt it returned
Claim(w) ==
    LET delivery == work[w].delivery
        claimed == Claimed(w, delivery)
        Checked(pc, goal, proof) ==
            work' = [work EXCEPT ![w].pc = pc, ![w].uncertain = claimed.uncertain,
                                 ![w].goal = goal, ![w].proof = proof]
    IN
    /\ At(w, "claim")
    /\ ~IsSettled /\ ~receipt.leased
    /\ receipt' = claimed
    /\ \/ /\ Refused(claimed, delivery)
          /\ Checked("settle", IF claimed.uncertain THEN "unknown" ELSE "failed", "not_applied")
       \/ /\ ~Refused(claimed, delivery) /\ Risky(claimed, delivery)
          /\ Checked("settle", "unknown", "indeterminate")
       \/ /\ ~Refused(claimed, delivery) /\ ~Risky(claimed, delivery)
          /\ Checked("begin", "none", "none")
    /\ UNCHANGED <<declared, remote, announced, crashes>>

Begin(w) ==
    /\ At(w, "begin")
    /\ Begins(w)
    /\ receipt' = [receipt EXCEPT !.attempts = @ + 1, !.status = "pending", !.marker = TRUE]
    /\ work' = [work EXCEPT ![w].pc = "call", ![w].send = receipt'.attempts]
    /\ UNCHANGED <<declared, remote, announced, crashes>>

\* Mutant: at the cap the event is handed back for another try.
CapRetries(w) == Concludes(w, "settle", "retrying", "not_applied")

\* _settle_attempt_limit
CapConcludes(w) ==
    IF work[w].uncertain THEN Concludes(w, "settle", "unknown", "indeterminate")
    ELSE Concludes(w, "announce", "failed", "not_applied")

ReachCap(w) ==
    /\ At(w, "begin")
    /\ receipt.owner = w /\ receipt.attempts >= MaxAttempts
    /\ CapConcludes(w)
    /\ UNCHANGED <<declared, receipt, remote, announced, crashes>>

\* The claim was lost, or its lease ran out: the receipt is reread.
BeginRefused(w) ==
    /\ At(w, "begin")
    /\ \/ receipt.owner # w
       \/ receipt.attempts < MaxAttempts /\ ~receipt.leased
    /\ UNCHANGED receipt
    /\ Reports(w)
    /\ UNCHANGED <<declared, remote, announced, crashes>>

------------------------------------------------------------------------------
\* The call

\* HTTPHandlerCaller: it rereads the receipt for a marker, then posts.
Send(w) ==
    /\ At(w, "call")
    /\ receipt.marker
    /\ remote' = [remote EXCEPT ![work[w].send] = "sent"]
    /\ Goes(w, "await")
    /\ UNCHANGED <<declared, receipt, announced, crashes>>

AppliedSends == {n \in Sends : remote[n] = "applied"}

\* The recipient applies the request, drops it, or knows its delivery key.
Arrive(n) ==
    /\ remote[n] = "sent"
    /\ \/ remote' = [remote EXCEPT ![n] = "dropped"]
       \/ /\ receipt.identity \in Safe => AppliedSends = {}
          /\ remote' = [remote EXCEPT ![n] = "applied"]
       \/ /\ receipt.identity \in Safe /\ AppliedSends # {}
          /\ remote' = [remote EXCEPT ![n] = "repeated"]
    /\ UNCHANGED <<declared, receipt, work, announced, crashes>>

\* What the call may prove about its own send.
Proofs(n) ==
    {"indeterminate"}
        \union (IF remote[n] \in {"applied", "repeated"} THEN {"acknowledged"} ELSE {})
        \union (IF remote[n] \in {"none", "dropped"} THEN {"not_applied"} ELSE {})

\* Mutant: a refusal proves that no send was applied, whatever came before.
ClassifyAlone(w, proof) ==
    LET budget == work[w].send < MaxAttempts IN
    IF proof = "acknowledged" THEN "success"
    ELSE IF proof = "not_applied" THEN (IF budget THEN "retrying" ELSE "failed")
    ELSE IF work[w].delivery \in Safe /\ budget THEN "retrying" ELSE "unknown"

\* _classify_outcome
Classify(w, proof) ==
    LET budget == work[w].send < MaxAttempts IN
    IF proof = "acknowledged" THEN "success"
    ELSE IF proof = "not_applied" /\ ~work[w].uncertain
         THEN (IF budget THEN "retrying" ELSE "failed")
    ELSE IF work[w].delivery \in Safe /\ budget THEN "retrying" ELSE "unknown"

\* The call returns, or raises something: evidence of one of three kinds.
Return(w) ==
    /\ work[w].pc \in {"call", "await"}
    /\ \E proof \in Proofs(work[w].send) :
        LET goal == Classify(w, proof) IN
        Concludes(w, IF goal = "failed" THEN "announce" ELSE "settle", goal, proof)
    /\ UNCHANGED <<declared, receipt, remote, announced, crashes>>

\* _append_handler_failed, before the settlement
Announce(w) ==
    /\ At(w, "announce")
    /\ announced' = TRUE
    /\ Goes(w, "settle")
    /\ UNCHANGED <<declared, receipt, remote, crashes>>

\* _settle_and_report
Settle(w) ==
    /\ At(w, "settle")
    /\ Settles(w, work[w].goal, work[w].proof)
    /\ Reports(w)
    /\ UNCHANGED <<declared, remote, announced, crashes>>

\* The claim was lost: the receipt is reread.
SettleRefused(w) ==
    /\ At(w, "settle")
    /\ receipt.owner # w
    /\ UNCHANGED receipt
    /\ Reports(w)
    /\ UNCHANGED <<declared, remote, announced, crashes>>

\* The task is cancelled during the call: a last attempt to settle, which may
\* come too late or not finish in time.
Cancel(w) ==
    /\ work[w].pc \in {"call", "await"}
    /\ crashes < CrashLimit
    /\ crashes' = crashes + 1
    /\ Settles(w, Classify(w, "indeterminate"), "indeterminate") \/ UNCHANGED receipt
    /\ work' = [work EXCEPT ![w] = IdleWork]
    /\ UNCHANGED <<declared, remote, announced>>

\* Or it dies at any other await.
Crash(w) ==
    /\ ~At(w, "idle")
    /\ crashes < CrashLimit
    /\ crashes' = crashes + 1
    /\ work' = [work EXCEPT ![w] = IdleWork]
    /\ UNCHANGED <<declared, receipt, remote, announced>>

\* The lease runs out, whatever its owner is doing.
Lapse ==
    /\ receipt.leased
    /\ receipt' = [receipt EXCEPT !.leased = FALSE]
    /\ UNCHANGED <<declared, work, remote, announced, crashes>>

Dispatch(w) ==
    \/ ReadTrigger(w) \/ Claim(w) \/ ClaimRefused(w)
    \/ Begin(w) \/ ReachCap(w) \/ BeginRefused(w) \/ Send(w) \/ Return(w)
    \/ Announce(w) \/ Settle(w) \/ SettleRefused(w)

Next ==
    \/ \E w \in Workers : Dispatch(w) \/ Cancel(w) \/ Crash(w)
    \/ \E n \in Sends : Arrive(n)
    \/ \E i \in Identities : Declare(i)
    \/ Lapse

Spec == Init /\ [][Next]_vars

\* A task goes on unless it is cancelled, the HTTP timeout bounds the call,
\* and leases end; one of five minutes is not each time over before the next
\* write of its owner.  The recipient need not answer, nor the operator edit.
FairSpec ==
    /\ Spec
    /\ WF_vars(Lapse)
    /\ \A w \in Workers :
        WF_vars(Dispatch(w)) /\ SF_vars(Begin(w) \/ ReachCap(w)) /\ SF_vars(Settle(w))
------------------------------------------------------------------------------
\* Properties

ReceiptRecord ==
    [status : {"absent", "pending", "retrying"} \union Settled,
     attempts : 0..MaxAttempts, identity : Identities \union {"none"},
     owner : Workers \union {"none"}, leased : BOOLEAN, marker : BOOLEAN, uncertain : BOOLEAN]

WorkRecord ==
    [pc : {"idle", "claim", "begin", "call", "await", "announce", "settle"},
     delivery : Identities \union {"none"}, send : Sends \union {0}, uncertain : BOOLEAN,
     goal : {"none", "retrying"} \union Settled,
     proof : {"none", "acknowledged", "not_applied", "indeterminate"},
     report : {"none", "settled", "open"}]

\* Every record has its shape, no more than MAX_ATTEMPTS sends are counted,
\* and a dispatch under way has a send of its own to speak of.
DeliveryTypeOK ==
    /\ declared \in Identities
    /\ receipt \in ReceiptRecord
    /\ work \in [Workers -> WorkRecord]
    /\ remote \in [Sends -> {"none", "sent", "applied", "dropped", "repeated"}]
    /\ announced \in BOOLEAN
    /\ \A w \in Workers : work[w].pc \in {"call", "await"} => work[w].send \in Sends

\* A handler that cannot deduplicate is given the event at most once,
\* whichever workers die, lapse or overtake each other: _dispatch never
\* repeats a send that may have been applied.
HandledAtMostOnce ==
    \A m, n \in Sends : remote[m] = "applied" /\ remote[n] = "applied" => m = n

\* A receipt says success only of an event the handler took, and failed only
\* of one it neither took nor will; the cap alone turns none into a failure.
\* Nothing that handler.failed announced as a permanent failure is delivered
\* afterwards, and all sends used up without success are announced.
ReceiptIsTrue ==
    /\ receipt.status = "success" => AppliedSends # {} /\ ~announced
    /\ receipt.status = "failed" => \A n \in Sends : remote[n] \in {"none", "dropped"}
    /\ receipt.status = "failed" /\ receipt.attempts = MaxAttempts => announced
    /\ receipt.attempts = MaxAttempts /\ ~IsSettled /\ ~receipt.marker => receipt.uncertain

\* The processor never asks for a settlement the store refuses with an
\* error, which would hold every later event: _classify_outcome and
\* validate_settle agree whenever the claim is still current.
ClassifierAgrees ==
    \A w \in Workers :
        At(w, "settle") /\ receipt.owner = w => Supported(work[w].goal, work[w].proof)

\* A settled receipt is never written again, and no dispatch reports an event
\* settled that is not: the cursor may rely on it.
KeepsVerdict ==
    /\ IsSettled => receipt' = receipt
    /\ \A w \in Workers : work'[w].report = "settled" => receipt'.status \in Settled

VerdictIsFinal == [][KeepsVerdict]_vars

\* Every event taken up by a dispatch is settled in the end, whatever its
\* handler does.
EveryEventSettles == receipt.status # "absent" ~> IsSettled

\* What the receipt says of the effect.
Verdict ==
    IF receipt.status = "success" THEN "done"
    ELSE IF receipt.status = "failed" THEN "absent" ELSE "open"

\* The promise of EffectOnce, for the sends of one delivery.
Effect == INSTANCE EffectOnce WITH Tries <- Sends, applied <- AppliedSends, said <- Verdict

DeliversOnce == Effect!Spec
==============================================================================
