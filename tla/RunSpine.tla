------------------------------- MODULE RunSpine -------------------------------
(***************************************************************************)
(* The canonical execution spine of maistro.runs: Run -> NodeRun ->        *)
(* Attempt, as a RunStore keeps it.  Each operation of the store is one    *)
(* action, because every backend gives each of them one lock or one        *)
(* transaction (runs/store.py: no await between its reads and its writes). *)
(* Who calls the operations, and in which order, is left open here: any    *)
(* caller may call any of them at any time.  AttemptExecution adds the     *)
(* callers.                                                                *)
(*                                                                         *)
(* Records are abstracted to what the lifecycle rules tell apart.  Ids are *)
(* numbers handed out in creation order, so the order of two ids under one *)
(* parent is the order of their ordinals.                                  *)
(***************************************************************************)
EXTENDS Lifecycle

CONSTANTS
    Runs,        \* the Run ids
    Nodes,       \* the node ids of the Graph snapshots
    GraphOf,     \* the node ids of each Run's Graph snapshot
    NodeRuns,    \* the pool of NodeRun ids
    Attempts,    \* the pool of Attempt ids
    Evidence,    \* what a physical Attempt may record as its result
    Ttl,         \* lease time-to-live, in ticks
    ReclaimLimit \* how many lapsed Attempts one sweep may settle

ASSUME GraphAssumption == GraphOf \in [Runs -> SUBSET Nodes]
ASSUME IdAssumption == NodeRuns \subseteq Nat \ {0} /\ Attempts \subseteq Nat \ {0}
ASSUME EvidenceAssumption == "none" \notin Evidence
ASSUME LeaseAssumption == Ttl \in Nat \ {0} /\ ReclaimLimit \in Nat \ {0}

VARIABLES
    runStatus,   \* status of each Run, "absent" before it is admitted
    nodeRuns,    \* the NodeRun records
    attempts     \* the Attempt records

vars == <<runStatus, nodeRuns, attempts>>

Result == Evidence \union {"none"}

\* An accepted outcome embeds a copy of the evidence of the Attempt it names.
Outcomes == [attempt : Attempts, logical : AcceptedStatus, evidence : Result]

NoOutcome == [attempt |-> 0, logical |-> "none", evidence |-> "none"]

NodeRunRecord ==
    [status   : RunStatus \union {"absent"},
     run      : Runs \union {"none"},
     node     : Nodes \union {"none"},
     accepted : Outcomes \union {NoOutcome},
     cascaded : BOOLEAN]   \* its error says its Run ended, not the node

\* lease: "none" without a holder, "open" without an expiry, "ttl" with one.
AttemptRecord ==
    [status    : AttemptStatus \union {"absent"},
     nodeRun   : NodeRuns \union {0},
     lease     : {"none", "open", "ttl"},
     left      : 0 .. Ttl,   \* the ticks until expires_at, 0 once it is past
     result    : Result,
     reclaimed : BOOLEAN]  \* its error says its lease expired

AbsentNodeRun ==
    [status |-> "absent", run |-> "none", node |-> "none", accepted |-> NoOutcome, cascaded |-> FALSE]

AbsentAttempt ==
    [status |-> "absent", nodeRun |-> 0, lease |-> "none", left |-> 0,
     result |-> "none", reclaimed |-> FALSE]

NewNodeRun(r, node, status) ==
    [status |-> status, run |-> r, node |-> node, accepted |-> NoOutcome, cascaded |-> FALSE]

NewAttempt(n, status, lease) ==
    [status |-> status, nodeRun |-> n, lease |-> lease,
     left |-> IF lease = "ttl" THEN Ttl ELSE 0, result |-> "none", reclaimed |-> FALSE]

Init ==
    /\ runStatus = [r \in Runs |-> "absent"]
    /\ nodeRuns = [n \in NodeRuns |-> AbsentNodeRun]
    /\ attempts = [a \in Attempts |-> AbsentAttempt]

------------------------------------------------------------------------------
\* Reading the records

Created(records) == {id \in DOMAIN records : records[id].status # "absent"}

\* The next id of a pool: no smaller one is unused.
NextId(records, id) ==
    /\ records[id].status = "absent"
    /\ \A other \in DOMAIN records : other < id => records[other].status # "absent"

NodeRunsOf(r) == {n \in Created(nodeRuns) : nodeRuns[n].run = r}

AttemptsOf(n) == {a \in Created(attempts) : attempts[a].nodeRun = n}

\* latest_node_runs: of the NodeRuns of each node, the newest.
LatestNodeRuns(r) ==
    {n \in NodeRunsOf(r) :
        \A m \in NodeRunsOf(r) : nodeRuns[m].node = nodeRuns[n].node => m <= n}

\* Mutant: an Attempt that has not started yet is overlooked.
OnlyRunningAttemptCounts(n) == \E a \in AttemptsOf(n) : attempts[a].status = "running"

HasActiveAttempt(n) == \E a \in AttemptsOf(n) : attempts[a].status \in ActiveAttemptStatus

RunIsTerminal(r) == runStatus[r] \in TerminalRunStatus

\* Mutant: a terminal Attempt can lapse too.
LeaseIsExpiredWhateverTheStatus(a) ==
    /\ attempts[a].status # "absent"
    /\ attempts[a].lease = "ttl"
    /\ attempts[a].left = 0

\* Mutant: only an Attempt that has started can lapse.
StartedLeaseIsExpired(a) ==
    /\ attempts[a].status = "running"
    /\ attempts[a].lease = "ttl"
    /\ attempts[a].left = 0

\* lease_is_expired
LeaseIsExpired(a) ==
    /\ attempts[a].status \in ActiveAttemptStatus
    /\ attempts[a].lease = "ttl"
    /\ attempts[a].left = 0

\* Mutant: an older success of the same node makes up for a newer failure.
CompletionIsEarnedOnce(r) ==
    \A n \in LatestNodeRuns(r) :
        \/ nodeRuns[n].status \notin (TerminalRunStatus \ {"completed"}) \union {"paused"}
        \/ \E m \in NodeRunsOf(r) :
                nodeRuns[m].node = nodeRuns[n].node /\ nodeRuns[m].status = "completed"

\* check_completion_is_earned: no latest NodeRun failed, was cancelled, timed
\* out or still waits for a person.
CompletionIsEarned(r) ==
    \A n \in LatestNodeRuns(r) :
        nodeRuns[n].status \notin (TerminalRunStatus \ {"completed"}) \union {"paused"}

------------------------------------------------------------------------------
\* Writing the records

\* transition_node_run: the accepted outcome of a parked NodeRun is dropped by
\* a move that supersedes it, and a new one is installed when given.
MovedNodeRun(record, target, outcome) ==
    [record EXCEPT
        !.status = target,
        !.accepted =
            IF outcome # NoOutcome THEN outcome
            ELSE IF record.status \in {"waiting", "paused"} /\ target \in SupersedingStatus
                 THEN NoOutcome
            ELSE @]

\* The NodeRun validator: an accepted outcome states the current disposition.
ProjectsItsOutcome(record) ==
    record.accepted # NoOutcome => record.accepted.logical = record.status

\* Mutant: the cascade settles the nodes that run and forgets the parked ones.
RunningSettledUnder(r) ==
    [n \in NodeRuns |->
        IF nodeRuns[n].run = r /\ nodeRuns[n].status = "running"
        THEN [MovedNodeRun(nodeRuns[n], "cancelled", NoOutcome) EXCEPT !.cascaded = TRUE]
        ELSE nodeRuns[n]]

\* The cascade of a terminalizing Run: every open NodeRun under it is cancelled.
SettledUnder(r) ==
    [n \in NodeRuns |->
        IF nodeRuns[n].run = r /\ nodeRuns[n].status \in OpenRunStatus
        THEN [MovedNodeRun(nodeRuns[n], "cancelled", NoOutcome) EXCEPT !.cascaded = TRUE]
        ELSE nodeRuns[n]]

\* reclaim_attempt
Reclaimed(record) == [record EXCEPT !.status = "cancelled", !.result = "none", !.reclaimed = TRUE]

\* The AcceptedNodeOutcome a domain builds from a persisted Attempt.
OutcomeOf(a, logical) ==
    [attempt |-> a, logical |-> logical, evidence |-> attempts[a].result]

\* validate_accepted_outcome_against_attempt: the outcome is that of a
\* completed Attempt of this NodeRun, exactly as it is persisted.
OutcomeIsEvidenced(n, outcome) ==
    /\ outcome.attempt \in AttemptsOf(n)
    /\ attempts[outcome.attempt].status = "completed"
    /\ outcome.evidence = attempts[outcome.attempt].result

------------------------------------------------------------------------------
\* The operations of the store

\* create_run: a Run is admitted as created, or as queued in the same write.
CreateRun(r, initial) ==
    /\ runStatus[r] = "absent"
    /\ initial \in {"created", "queued"}
    /\ runStatus' = [runStatus EXCEPT ![r] = initial]
    /\ UNCHANGED <<nodeRuns, attempts>>

\* transition_run: the move is legal, a success is earned, and a terminal
\* move settles every open NodeRun in the same write.
MayTransitionRun(r, target) ==
    /\ runStatus[r] \in RunStatus
    /\ target \in RunTransitions[runStatus[r]]
    /\ target = "completed" => CompletionIsEarned(r)

TransitionRun(r, target) ==
    /\ MayTransitionRun(r, target)
    /\ runStatus' = [runStatus EXCEPT ![r] = target]
    /\ nodeRuns' = IF target \in TerminalRunStatus THEN SettledUnder(r) ELSE nodeRuns
    /\ UNCHANGED attempts

\* Mutant: the node id is not looked up in the Graph snapshot.
CreateNodeRunAnywhere(n, r, node) ==
    /\ NextId(nodeRuns, n)
    /\ runStatus[r] \in OpenRunStatus
    /\ nodeRuns' = [nodeRuns EXCEPT ![n] = NewNodeRun(r, node, "created")]
    /\ UNCHANGED <<runStatus, attempts>>

\* create_node_run
CreateNodeRun(n, r, node) ==
    /\ NextId(nodeRuns, n)
    /\ runStatus[r] \in OpenRunStatus
    /\ node \in GraphOf[r]
    /\ nodeRuns' = [nodeRuns EXCEPT ![n] = NewNodeRun(r, node, "created")]
    /\ UNCHANGED <<runStatus, attempts>>

\* transition_node_run: refused under a terminal Run, a completion needs an
\* outcome, and an outcome needs the evidence it names.
MayTransitionNodeRun(n, target, outcome) ==
    /\ nodeRuns[n].status \in RunStatus
    /\ ~RunIsTerminal(nodeRuns[n].run)
    /\ outcome # NoOutcome => OutcomeIsEvidenced(n, outcome)
    /\ target = "completed" => outcome # NoOutcome
    /\ target \in RunTransitions[nodeRuns[n].status]
    /\ ProjectsItsOutcome(MovedNodeRun(nodeRuns[n], target, outcome))

TransitionNodeRun(n, target, outcome) ==
    /\ MayTransitionNodeRun(n, target, outcome)
    /\ nodeRuns' = [nodeRuns EXCEPT ![n] = MovedNodeRun(@, target, outcome)]
    /\ UNCHANGED <<runStatus, attempts>>

\* create_attempt: one active Attempt per NodeRun, never under a terminal one.
MayCreateAttempt(n) ==
    /\ nodeRuns[n].status \in OpenRunStatus
    /\ ~HasActiveAttempt(n)

CreateAttempt(a, n, lease) ==
    /\ NextId(attempts, a)
    /\ MayCreateAttempt(n)
    /\ attempts' = [attempts EXCEPT ![a] = NewAttempt(n, "created", lease)]
    /\ UNCHANGED <<runStatus, nodeRuns>>

\* Mutant: the Attempt is completed without looking at its Run (before #1335).
MayTransitionAttemptAlone(a, target, token) ==
    /\ attempts[a].status \in AttemptStatus
    /\ attempts[a].lease # "none" => token = a
    /\ target \in AttemptTransitions[attempts[a].status]

\* transition_attempt: under a lease only its token moves the Attempt, and a
\* completion is refused once the Run is terminal.
MayTransitionAttempt(a, target, token) ==
    /\ attempts[a].status \in AttemptStatus
    /\ attempts[a].lease # "none" => token = a
    /\ target \in AttemptTransitions[attempts[a].status]
    /\ target = "completed" => ~RunIsTerminal(nodeRuns[attempts[a].nodeRun].run)

TransitionAttempt(a, target, token, result) ==
    /\ MayTransitionAttempt(a, target, token)
    /\ attempts' = [attempts EXCEPT ![a].status = target, ![a].result = result]
    /\ UNCHANGED <<runStatus, nodeRuns>>

\* Mutant: the holder of a lapsed lease may renew it.
RenewLapsedLease(a, token) ==
    /\ attempts[a].status \in ActiveAttemptStatus
    /\ attempts[a].lease # "none"
    /\ token = a
    /\ attempts' = [attempts EXCEPT ![a].lease = "ttl", ![a].left = Ttl]
    /\ UNCHANGED <<runStatus, nodeRuns>>

\* renew_lease: by its own token, while active and not yet lapsed.
RenewLease(a, token) ==
    /\ attempts[a].status \in ActiveAttemptStatus
    /\ attempts[a].lease # "none"
    /\ token = a
    /\ ~LeaseIsExpired(a)
    /\ attempts' = [attempts EXCEPT ![a].lease = "ttl", ![a].left = Ttl]
    /\ UNCHANGED <<runStatus, nodeRuns>>

\* reclaim_expired_attempts: settles every lapsed Attempt, or as many as the
\* limit allows.  (The code takes those that lapsed first; how long ago a
\* lease lapsed is abstracted, so here any of them may be taken.)
ReclaimExpiredAttempts(batch) ==
    LET doomed == {a \in Attempts : LeaseIsExpired(a)} IN
    /\ batch \subseteq doomed
    /\ batch = doomed \/ Cardinality(batch) = ReclaimLimit
    /\ Cardinality(batch) <= ReclaimLimit
    /\ attempts' = [a \in Attempts |-> IF a \in batch THEN Reclaimed(attempts[a]) ELSE attempts[a]]
    /\ UNCHANGED <<runStatus, nodeRuns>>

\* claim_consumer_run: a queued Run becomes running, backed by one running
\* NodeRun and one running Attempt under a lease, in one write.
ClaimConsumerRun(r, node, n, a) ==
    /\ runStatus[r] = "queued"
    /\ node \in GraphOf[r]
    /\ NextId(nodeRuns, n)
    /\ NextId(attempts, a)
    /\ runStatus' = [runStatus EXCEPT ![r] = "running"]
    /\ nodeRuns' = [nodeRuns EXCEPT ![n] = NewNodeRun(r, node, "running")]
    /\ attempts' = [attempts EXCEPT ![a] = NewAttempt(n, "running", "ttl")]

\* Mutant: the accepted copy is left behind.
RepairAttemptOnly(a, result) ==
    /\ attempts[a].status \in TerminalAttemptStatus
    /\ attempts' = [attempts EXCEPT ![a].result = result]
    /\ UNCHANGED <<runStatus, nodeRuns>>

\* repair_attempt_result: rewrites the result of a terminal Attempt together
\* with the copy its NodeRun accepted.
RepairAttemptResult(a, result) ==
    LET n == attempts[a].nodeRun IN
    /\ attempts[a].status \in TerminalAttemptStatus
    /\ attempts' = [attempts EXCEPT ![a].result = result]
    /\ nodeRuns' = [nodeRuns EXCEPT
                        ![n].accepted = IF @.attempt = a THEN [@ EXCEPT !.evidence = result] ELSE @]
    /\ UNCHANGED runStatus

\* Wall-clock time, as the store's lease checks see it.
Tick ==
    /\ \E a \in Attempts : attempts[a].left > 0
    /\ attempts' = [a \in Attempts |->
                        IF attempts[a].left > 0
                        THEN [attempts[a] EXCEPT !.left = @ - 1] ELSE attempts[a]]
    /\ UNCHANGED <<runStatus, nodeRuns>>

Next ==
    \/ \E r \in Runs, initial \in {"created", "queued"} : CreateRun(r, initial)
    \/ \E r \in Runs, target \in RunStatus : TransitionRun(r, target)
    \/ \E n \in NodeRuns, r \in Runs, node \in Nodes : CreateNodeRun(n, r, node)
    \/ \E n \in NodeRuns, target \in RunStatus : TransitionNodeRun(n, target, NoOutcome)
    \/ \E n \in NodeRuns, a \in Attempts, logical \in AcceptedStatus :
            TransitionNodeRun(n, logical, OutcomeOf(a, logical))
    \/ \E a \in Attempts, n \in NodeRuns, lease \in {"none", "open", "ttl"} : CreateAttempt(a, n, lease)
    \/ \E a \in Attempts, target \in AttemptStatus, token \in Attempts, result \in Result :
            TransitionAttempt(a, target, token, result)
    \/ \E a \in Attempts, token \in Attempts : RenewLease(a, token)
    \/ \E batch \in SUBSET Attempts : batch # {} /\ ReclaimExpiredAttempts(batch)
    \/ \E r \in Runs, node \in Nodes, n \in NodeRuns, a \in Attempts : ClaimConsumerRun(r, node, n, a)
    \/ \E a \in Attempts, result \in Result : RepairAttemptResult(a, result)
    \/ Tick

Spec == Init /\ [][Next]_vars
------------------------------------------------------------------------------
\* Properties

\* Every record has its shape, and a record names the parent it was made under.
TypeOK ==
    /\ runStatus \in [Runs -> RunStatus \union {"absent"}]
    /\ nodeRuns \in [NodeRuns -> NodeRunRecord]
    /\ attempts \in [Attempts -> AttemptRecord]
    /\ \A n \in Created(nodeRuns) :
            nodeRuns[n].run \in Runs /\ nodeRuns[n].node \in GraphOf[nodeRuns[n].run]
    /\ \A a \in Created(attempts) : attempts[a].nodeRun \in Created(nodeRuns)

\* A Run that has ended has no open NodeRun: the cascade settles those that
\* exist, and nothing opens or reopens one afterwards (transition_run,
\* create_node_run and transition_node_run each hold a part of this).
ClosedRunIsSettled ==
    \A n \in Created(nodeRuns) :
        RunIsTerminal(nodeRuns[n].run) => nodeRuns[n].status \in TerminalRunStatus

\* A completed Run never contradicts its nodes: the newest NodeRun of each node
\* completed, or was still open and not a human wait when the Run ended and
\* was cancelled by that end (check_completion_is_earned).
SuccessIsEarned ==
    \A r \in Runs : runStatus[r] = "completed" =>
        \A n \in LatestNodeRuns(r) :
            \/ nodeRuns[n].status = "completed"
            \/ nodeRuns[n].status = "cancelled" /\ nodeRuns[n].cascaded

\* What a NodeRun accepted is, at all times, exactly what one completed Attempt
\* of that NodeRun has on record, and a completed NodeRun accepted something:
\* no lifecycle move and no repair lets the two copies drift apart.
AcceptanceIsEvidenced ==
    \A n \in Created(nodeRuns) :
        /\ nodeRuns[n].status = "completed" => nodeRuns[n].accepted # NoOutcome
        /\ nodeRuns[n].accepted # NoOutcome => OutcomeIsEvidenced(n, nodeRuns[n].accepted)

\* A NodeRun never has two Attempts that may both still run.
OneActiveAttempt ==
    \A n \in NodeRuns : \A a, b \in AttemptsOf(n) :
        {attempts[a].status, attempts[b].status} \subseteq ActiveAttemptStatus => a = b

\* A Run that has ended gets no new physical work and no late success: no
\* Attempt is created under it and none of its Attempts becomes completed.
StartsNoWorkUnderClosedRun ==
    \A a \in Attempts :
        \/ attempts'[a].status = attempts[a].status
        \/ attempts'[a].status \notin {"created", "completed"}
        \/ ~RunIsTerminal(nodeRuns[attempts'[a].nodeRun].run)

NoWorkUnderClosedRun == [][StartsNoWorkUnderClosedRun]_vars

\* An ended Run, NodeRun or Attempt keeps the status it ended with, whatever is
\* cancelled, reclaimed, reconciled or repaired later.
KeepsEnds ==
    /\ \A r \in Runs : RunIsTerminal(r) => runStatus'[r] = runStatus[r]
    /\ \A n \in NodeRuns : nodeRuns[n].status \in TerminalRunStatus =>
            nodeRuns'[n].status = nodeRuns[n].status
    /\ \A a \in Attempts : attempts[a].status \in TerminalAttemptStatus =>
            attempts'[a].status = attempts[a].status

EndIsFinal == [][KeepsEnds]_vars

\* Once a lease has lapsed its holder never gets it back: the Attempt can only
\* be settled, so recovery and the old holder cannot both own it.
KeepsLapsedLeasesLost ==
    \A a \in Attempts :
        LeaseIsExpired(a) => LeaseIsExpired(a)' \/ attempts'[a].status \in TerminalAttemptStatus

LapsedLeaseIsLost == [][KeepsLapsedLeasesLost]_vars
==============================================================================
