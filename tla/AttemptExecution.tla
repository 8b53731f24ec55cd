--------------------------- MODULE AttemptExecution ---------------------------
(***************************************************************************)
(* The callers of the spine: the calls of RunExecutionService that create, *)
(* launch, settle and reconcile one Attempt each (runs/service.py,         *)
(* runs/execution.py, runs/reconciliation.py), and the recovery sweep of   *)
(* the Container (container.py).  A call is a process that runs from one   *)
(* await of the store to the next; every store operation is one of the     *)
(* actions of RunSpine, and other processes may run between any two.       *)
(*                                                                         *)
(* Consecutive reads are one step, and so are a read and the write it      *)
(* guards when the write checks the same thing again.  What a call does    *)
(* after a raise is to unwind, so a raise ends it.                         *)
(***************************************************************************)
EXTENDS RunSpine

CONSTANTS
    Tasks,         \* the calls that may be in flight at once
    Sweeper,       \* the recovery tick
    Kinds,         \* how a call starts: "execute", "retry", "claim"
    Revisits,      \* whether a node may be executed again under a new NodeRun
    LeaseKind,     \* "ttl" with a lease_ttl configured, "open" without
    ProviderEnds,  \* how the provider's work may end
    Deferred,      \* reconcile_logical = FALSE: the domain accepts completions
    Dispositions,  \* what the domain may accept them as
    RunEnds,       \* how others may end a Run meanwhile
    Crashers       \* the processes that may die between two awaits

ASSUME CallAssumption ==
    /\ Sweeper \notin Tasks
    /\ Kinds \subseteq {"execute", "retry", "claim"}
    /\ Revisits \in BOOLEAN /\ Deferred \in BOOLEAN
    /\ LeaseKind \in {"ttl", "open"}
    /\ ProviderEnds \subseteq {"success", "yielded", "human", "failed", "timed_out", "cancelled"}
    /\ Dispositions \subseteq AcceptedStatus
    /\ RunEnds \subseteq TerminalRunStatus
    /\ Crashers \subseteq Tasks \union {Sweeper}
    /\ "human" \in Evidence

VARIABLES
    proc,     \* the local state of each process
    sweep     \* the phase of the tick and what it has left to reconcile:
              \* reclaimed Attempts, then NodeRuns to look at for a replay

execVars == <<runStatus, nodeRuns, attempts, proc, sweep>>

Procs == Tasks \union {Sweeper}

\* n, a: the NodeRun and Attempt worked on; goal: the status to be written
\* next; run, node: the statuses prepare_execution has read.
Idle == [pc |-> "idle", n |-> 0, a |-> 0, goal |-> "none", run |-> "none", node |-> "none"]

NoSweep == [phase |-> "replay", left |-> {}]

ExecInit ==
    /\ Init
    /\ proc = [p \in Procs |-> Idle]
    /\ sweep = NoSweep

------------------------------------------------------------------------------
\* Control

RunOf(p) == nodeRuns[proc[p].n].run

Becomes(p, state) == proc' = [proc EXCEPT ![p] = state] /\ UNCHANGED sweep

Go(p, pc) == Becomes(p, [proc[p] EXCEPT !.pc = pc])

Aim(p, pc, goal) == Becomes(p, [proc[p] EXCEPT !.pc = pc, !.goal = goal])

\* The call returns, or raises what its caller swallows: the sweep goes on.
Finish(p) == Becomes(p, Idle)

\* An InvalidLifecycleTransition escapes: it also aborts the sweep's tick.
Abort(p) ==
    /\ proc' = [proc EXCEPT ![p] = Idle]
    /\ sweep' = IF p = Sweeper THEN NoSweep ELSE sweep

------------------------------------------------------------------------------
\* Starting a call

\* create_run, by whatever admits work.
AdmitRun(r) == CreateRun(r, "queued") /\ UNCHANGED <<proc, sweep>>

\* execute_node: a NodeRun first.
ExecuteNode(p, r, node, n) ==
    /\ "execute" \in Kinds
    /\ proc[p].pc = "idle"
    /\ Revisits \/ \A m \in NodeRunsOf(r) : nodeRuns[m].node # node
    /\ CreateNodeRun(n, r, node)
    /\ Becomes(p, [Idle EXCEPT !.pc = "check", !.n = n])

\* retry_node: another Attempt under an existing NodeRun.
RetryNode(p, n) ==
    /\ "retry" \in Kinds
    /\ proc[p].pc = "idle"
    /\ n \in Created(nodeRuns)
    /\ Becomes(p, [Idle EXCEPT !.pc = "check", !.n = n])
    /\ UNCHANGED vars

\* The consumer tick: claim_consumer_run, then execute_claimed.
ClaimRun(p, r, node, n, a) ==
    /\ "claim" \in Kinds
    /\ proc[p].pc = "idle"
    /\ ClaimConsumerRun(r, node, n, a)
    /\ Becomes(p, [Idle EXCEPT !.pc = "launch", !.n = n, !.a = a])

------------------------------------------------------------------------------
\* From the NodeRun to running work

\* A completed Attempt that nobody accepted.
AwaitsAcceptance(n) ==
    /\ nodeRuns[n].accepted = NoOutcome
    /\ \E a \in AttemptsOf(n) : attempts[a].status = "completed"

\* Mutant: an Attempt is dispatched whatever the earlier ones left behind.
RedispatchUnchecked(p) ==
    /\ proc[p].pc = "check"
    /\ Go(p, "create")
    /\ UNCHANGED vars

\* _reject_unaccepted_completion
RejectUnacceptedCompletion(p) ==
    /\ proc[p].pc = "check"
    /\ IF AwaitsAcceptance(proc[p].n) THEN Finish(p) ELSE Go(p, "create")
    /\ UNCHANGED vars

\* Mutant: the call goes on with the Attempt it remembers from before.
StartAttemptUnseen(p) ==
    /\ proc[p].pc = "create"
    /\ \/ \E a \in Attempts : CreateAttempt(a, proc[p].n, LeaseKind) /\ Go(p, "prepare")
       \/ /\ ~MayCreateAttempt(proc[p].n) \/ Created(attempts) = Attempts
          /\ Finish(p)
          /\ UNCHANGED vars

\* create_attempt, or its refusal.  (Running out of ids counts as a refusal.)
StartAttempt(p) ==
    /\ proc[p].pc = "create"
    /\ \/ \E a \in Attempts :
            /\ CreateAttempt(a, proc[p].n, LeaseKind)
            /\ Becomes(p, [proc[p] EXCEPT !.pc = "prepare", !.a = a])
       \/ /\ ~MayCreateAttempt(proc[p].n) \/ Created(attempts) = Attempts
          /\ Finish(p)
          /\ UNCHANGED vars

\* prepare_execution reads the NodeRun and the Run.
PrepareExecution(p) ==
    /\ proc[p].pc = "prepare"
    /\ IF RunIsTerminal(RunOf(p)) THEN Finish(p)
       ELSE Becomes(p, [proc[p] EXCEPT !.pc = "run", !.run = runStatus[RunOf(p)],
                                       !.node = nodeRuns[proc[p].n].status])
    /\ UNCHANGED vars

\* The next status on the way to running.
Towards(status) == IF status \in {"created", "paused"} THEN "queued" ELSE "running"

\* _ensure_run_running moves the Run on from the status last read or written.
EnsureRunRunning(p) ==
    LET target == Towards(proc[p].run) IN
    /\ proc[p].pc = "run"
    /\ \/ proc[p].run = "running" /\ Go(p, "node") /\ UNCHANGED vars
       \/ /\ proc[p].run # "running"
          /\ TransitionRun(RunOf(p), target)
          /\ Becomes(p, [proc[p] EXCEPT !.run = target])
       \/ /\ proc[p].run # "running"
          /\ ~MayTransitionRun(RunOf(p), target)
          /\ Finish(p)
          /\ UNCHANGED vars

\* _ensure_node_run_running does the same for the NodeRun.
EnsureNodeRunRunning(p) ==
    LET target == Towards(proc[p].node) IN
    /\ proc[p].pc = "node"
    /\ \/ /\ proc[p].node = "running"
          /\ Becomes(p, [proc[p] EXCEPT !.pc = "launch", !.run = "none", !.node = "none"])
          /\ UNCHANGED vars
       \/ /\ proc[p].node \in OpenRunStatus \ {"running"}
          /\ TransitionNodeRun(proc[p].n, target, NoOutcome)
          /\ Becomes(p, [proc[p] EXCEPT !.node = target])
       \/ /\ \/ proc[p].node \in TerminalRunStatus
             \/ proc[p].node # "running" /\ ~MayTransitionNodeRun(proc[p].n, target, NoOutcome)
          /\ Finish(p)
          /\ UNCHANGED vars

\* _claim_active_attempt: a created Attempt starts running; one that another
\* authority settled meanwhile is left as it is.
Launch(p) ==
    LET a == proc[p].a IN
    /\ proc[p].pc = "launch"
    /\ \/ attempts[a].status = "created" /\ TransitionAttempt(a, "running", a, "none") /\ Go(p, "fence")
       \/ attempts[a].status = "running" /\ Go(p, "fence") /\ UNCHANGED vars
       \/ attempts[a].status \in TerminalAttemptStatus /\ Finish(p) /\ UNCHANGED vars

\* _require_active_run_for_launch
FenceLaunch(p) ==
    /\ proc[p].pc = "fence"
    /\ IF RunIsTerminal(RunOf(p)) THEN Aim(p, "settle", "cancelled") ELSE Go(p, "provider")
    /\ UNCHANGED vars

\* The call is cancelled between its claim and its launch.
CancelLaunch(p) ==
    /\ "cancelled" \in ProviderEnds
    /\ proc[p].pc \in {"launch", "fence"}
    /\ Aim(p, "settle", "cancelled")
    /\ UNCHANGED vars

\* The heartbeat proves the process alive from the launch to the settlement.
Heartbeat(p) ==
    /\ proc[p].pc \in {"provider", "publish", "settle"}
    /\ attempts[proc[p].a].lease = "ttl"
    /\ RenewLease(proc[p].a, proc[p].a)
    /\ UNCHANGED <<proc, sweep>>

\* The runtime task ends: with a result, a yield, an error, its deadline or a
\* cancellation somebody signalled.
ProviderReturns(p, end) ==
    /\ proc[p].pc = "provider"
    /\ IF end = "success" THEN Go(p, "publish") ELSE Aim(p, "settle", end)
    /\ UNCHANGED vars

------------------------------------------------------------------------------
\* From the end of the work to the logical records

\* _settle_provider_success: a cancelled Run turns a success into a cancellation.
SettleProviderSuccess(p) ==
    /\ proc[p].pc = "publish"
    /\ Aim(p, "settle", IF runStatus[RunOf(p)] = "cancelled" THEN "cancelled" ELSE "completed")
    /\ UNCHANGED vars

\* The status an Attempt is settled with: one that never launched can only have
\* been cancelled.
SettledAs(a, goal) ==
    IF attempts[a].status = "created" THEN "cancelled"
    ELSE IF goal = "human" THEN "yielded" ELSE goal

\* Mutant: the call goes on to reconcile what another authority settled.
TerminalizeAndReconcileAnyway(p) ==
    LET a == proc[p].a
        target == SettledAs(a, proc[p].goal)
    IN
    /\ proc[p].pc = "settle"
    /\ \/ attempts[a].status \in TerminalAttemptStatus /\ Go(p, "reconcile") /\ UNCHANGED vars
       \/ /\ TransitionAttempt(a, target, a, IF proc[p].goal = "human" THEN "human" ELSE "none")
          /\ Go(p, IF target = "completed" /\ Deferred THEN "accept" ELSE "reconcile")

\* _terminalize_if_open: the Attempt is settled by this call, or was settled by
\* another authority that has applied its own disposition, or the store
\* refuses to complete it under a Run that has ended.
TerminalizeIfOpen(p) ==
    LET a == proc[p].a
        target == SettledAs(a, proc[p].goal)
    IN
    /\ proc[p].pc = "settle"
    /\ \/ attempts[a].status \in TerminalAttemptStatus /\ Finish(p) /\ UNCHANGED vars
       \/ /\ TransitionAttempt(a, target, a, IF proc[p].goal = "human" THEN "human" ELSE "none")
          /\ Go(p, IF target = "completed" /\ Deferred THEN "accept" ELSE "reconcile")
       \/ /\ attempts[a].status \in ActiveAttemptStatus
          /\ ~MayTransitionAttempt(a, target, a)
          /\ Finish(p)
          /\ UNCHANGED vars

\* Mutant: an outcome accepted before leaves nothing to do.
AcceptCompletedOnce(p) ==
    LET node == nodeRuns[proc[p].n] IN
    /\ proc[p].pc = "reconcile"
    /\ attempts[proc[p].a].status = "completed"
    /\ IF node.accepted = NoOutcome /\ node.status = "running"
       THEN Aim(p, "write", "completed") ELSE Finish(p)
    /\ UNCHANGED vars

\* reconcile, for a completed Attempt: accept it as it is, or go on to settle
\* the Run when that was done before.
ReconcileCompleted(p) ==
    LET node == nodeRuns[proc[p].n] IN
    /\ proc[p].pc = "reconcile"
    /\ attempts[proc[p].a].status = "completed"
    /\ \/ node.accepted = NoOutcome /\ node.status = "running" /\ Aim(p, "write", "completed")
       \/ node.accepted = NoOutcome /\ node.status # "running" /\ Finish(p)
       \/ node.accepted # NoOutcome /\ node.accepted.attempt = proc[p].a /\ Aim(p, "observe", "none")
       \/ node.accepted # NoOutcome /\ node.accepted.attempt # proc[p].a /\ Finish(p)
    /\ UNCHANGED vars

\* reconcile, for a cancellation that was asked for.  The sweep's own
\* cancellations are RECOVERED ones.
ReconcileRequested(p) ==
    /\ proc[p].pc = "reconcile"
    /\ p # Sweeper
    /\ attempts[proc[p].a].status = "cancelled"
    /\ IF nodeRuns[proc[p].n].status \in TerminalRunStatus THEN Finish(p) ELSE Aim(p, "write", "cancelled")
    /\ UNCHANGED vars

\* Who a parked NodeRun waits for.
ParkedAs(a) == IF attempts[a].result = "human" THEN "paused" ELSE "waiting"

\* reconcile, for everything else: park the NodeRun, then the Run.
ReconcileParked(p) ==
    LET node == nodeRuns[proc[p].n]
        status == attempts[proc[p].a].status
    IN
    /\ proc[p].pc = "reconcile"
    /\ status \in {"yielded", "failed", "timed_out"} \/ (status = "cancelled" /\ p = Sweeper)
    /\ \/ node.status = "running" /\ Aim(p, "write", ParkedAs(proc[p].a))
       \/ /\ node.status \in TerminalRunStatus \union {"waiting", "paused"}
          /\ Aim(p, "observe", IF status = "yielded" /\ node.status = "paused" THEN "paused" ELSE "waiting")
       \/ node.status \in {"created", "queued"} /\ Finish(p)
    /\ UNCHANGED vars

\* accept_outcome: the domain's disposition, for the newest Attempt only.
AcceptOutcome(p, logical) ==
    LET node == nodeRuns[proc[p].n] IN
    /\ proc[p].pc = "accept"
    /\ IF \E b \in AttemptsOf(proc[p].n) : b > proc[p].a THEN Finish(p)
       ELSE IF node.accepted # NoOutcome
            THEN IF node.accepted = OutcomeOf(proc[p].a, logical) THEN Aim(p, "observe", "none") ELSE Finish(p)
       ELSE IF node.status = "running" THEN Aim(p, "write", logical) ELSE Finish(p)
    /\ UNCHANGED vars

\* The write of the disposition, validated again by the store.
WriteNodeRun(p) ==
    LET n == proc[p].n
        a == proc[p].a
        outcome == IF attempts[a].status = "completed" THEN OutcomeOf(a, proc[p].goal) ELSE NoOutcome
    IN
    /\ proc[p].pc = "write"
    /\ \/ TransitionNodeRun(n, proc[p].goal, outcome) /\ Go(p, "observe")
       \/ /\ ~MayTransitionNodeRun(n, proc[p].goal, outcome)
          /\ IF RunIsTerminal(RunOf(p)) THEN Finish(p) ELSE Abort(p)
          /\ UNCHANGED vars

\* Mutant: a node that has not been visited yet is not waited for.
SettlementOfTheObserved(r) ==
    DeriveRunTerminalStatus({nodeRuns[n].status : n \in LatestNodeRuns(r)}, FALSE)

\* _settle_run_if_fully_observed, on a Graph without cycles: what the Run ends
\* as once every node of its Graph has been visited, or "none".
Settlement(r) ==
    IF GraphOf[r] \subseteq {nodeRuns[n].node : n \in NodeRunsOf(r)}
    THEN DeriveRunTerminalStatus({nodeRuns[n].status : n \in LatestNodeRuns(r)}, FALSE)
    ELSE "none"

\* _has_active_node_run
HasActiveNodeRun(r) == \E n \in NodeRunsOf(r) : nodeRuns[n].status \in {"created", "queued", "running"}

\* The reads before the Run is settled (after a completion), cancelled or
\* parked: it must be running, and have nothing else that is active.
ObserveRun(p) ==
    LET r == RunOf(p)
        target == IF attempts[proc[p].a].status = "completed" THEN Settlement(r)
                  ELSE IF HasActiveNodeRun(r) THEN "none"
                  ELSE proc[p].goal
    IN
    /\ proc[p].pc = "observe"
    /\ IF runStatus[r] = "running" /\ target # "none" THEN Aim(p, "conclude", target) ELSE Finish(p)
    /\ UNCHANGED vars

\* The write.  A settlement that finds the Run ended meanwhile takes that for
\* its answer.
ConcludeRun(p) ==
    LET r == RunOf(p) IN
    /\ proc[p].pc = "conclude"
    /\ \/ TransitionRun(r, proc[p].goal) /\ Finish(p)
       \/ /\ ~MayTransitionRun(r, proc[p].goal)
          /\ IF attempts[proc[p].a].status = "completed" /\ RunIsTerminal(r) THEN Finish(p) ELSE Abort(p)
          /\ UNCHANGED vars

------------------------------------------------------------------------------
\* The recovery tick: recover_abandoned_attempts

\* has_live_execution_lease
HasLiveExecutionLease(n) ==
    \E a \in AttemptsOf(n) :
        /\ attempts[a].status \in ActiveAttemptStatus
        /\ attempts[a].lease # "none"
        /\ ~LeaseIsExpired(a)

\* _latest_reconcilable_completed_attempt
Replayable(n) ==
    IF HasLiveExecutionLease(n) THEN {}
    ELSE {a \in AttemptsOf(n) :
            /\ attempts[a].status = "completed"
            /\ \A b \in AttemptsOf(n) : attempts[b].status = "completed" => b <= a}

Sweeping(phase) == proc[Sweeper].pc = "idle" /\ sweep.phase = phase

SweepNext(n, a) ==
    proc' = [proc EXCEPT ![Sweeper] = [Idle EXCEPT !.pc = "reconcile", !.n = n, !.a = a]]

\* A tick starts when it would find something.  First it reclaims.
SweepReclaim(batch) ==
    /\ Sweeping("replay") /\ sweep.left = {}
    /\ batch # {} \/ \E n \in Created(nodeRuns) :
                        runStatus[nodeRuns[n].run] = "running" /\ Replayable(n) # {}
    /\ ReclaimExpiredAttempts(batch)
    /\ sweep' = [phase |-> "reclaimed", left |-> batch]
    /\ UNCHANGED proc

\* Then it reconciles each Attempt it reclaimed.
SweepReclaimed(a) ==
    /\ Sweeping("reclaimed")
    /\ a \in sweep.left /\ \A b \in sweep.left : a <= b
    /\ SweepNext(attempts[a].nodeRun, a)
    /\ sweep' = [sweep EXCEPT !.left = @ \ {a}]
    /\ UNCHANGED vars

\* Then it lists the NodeRuns of the running Runs.
SweepList ==
    /\ Sweeping("reclaimed") /\ sweep.left = {}
    /\ sweep' = [phase |-> "replay",
                 left |-> {n \in Created(nodeRuns) : runStatus[nodeRuns[n].run] = "running"}]
    /\ UNCHANGED <<runStatus, nodeRuns, attempts, proc>>

\* And reconciles, for each of them, the latest completed Attempt once more.
SweepReplay(n) ==
    /\ Sweeping("replay")
    /\ n \in sweep.left /\ \A m \in sweep.left : n <= m
    /\ \/ \E a \in Replayable(n) : SweepNext(n, a)
       \/ Replayable(n) = {} /\ UNCHANGED proc
    /\ sweep' = [sweep EXCEPT !.left = @ \ {n}]
    /\ UNCHANGED vars

------------------------------------------------------------------------------
\* The others

\* Somebody ends the Run: cancel_run, a deadline, a domain's own conclusion.
\* (cancel_run goes on to signal the runtime owner, which may or may not arrive
\* in time: ProviderReturns and CancelLaunch.  The NodeRuns it would cancel
\* afterwards are settled by the cascade already.)
EndRun(r, target) ==
    /\ target \in RunEnds
    /\ TransitionRun(r, target)
    /\ UNCHANGED <<proc, sweep>>

\* The process dies between two awaits.
Crash(p) ==
    /\ p \in Crashers
    /\ IF p = Sweeper THEN sweep # NoSweep ELSE proc[p] # Idle
    /\ Abort(p)
    /\ UNCHANGED vars

TimePasses == Tick /\ UNCHANGED <<proc, sweep>>

\* What a call does next, whichever kind it is.
CallStep(p) ==
    \/ RejectUnacceptedCompletion(p)
    \/ StartAttempt(p)
    \/ PrepareExecution(p)
    \/ EnsureRunRunning(p)
    \/ EnsureNodeRunRunning(p)
    \/ Launch(p)
    \/ FenceLaunch(p)
    \/ \E end \in ProviderEnds : ProviderReturns(p, end)
    \/ SettleProviderSuccess(p)
    \/ TerminalizeIfOpen(p)
    \/ \E logical \in Dispositions : AcceptOutcome(p, logical)

\* What a reconciliation does next, a call's or the sweep's.
ReconcileStep(p) ==
    \/ ReconcileCompleted(p)
    \/ ReconcileRequested(p)
    \/ ReconcileParked(p)
    \/ WriteNodeRun(p)
    \/ ObserveRun(p)
    \/ ConcludeRun(p)

SweepStep ==
    \/ \E batch \in SUBSET Attempts : SweepReclaim(batch)
    \/ \E a \in Attempts : SweepReclaimed(a)
    \/ SweepList
    \/ \E n \in NodeRuns : SweepReplay(n)

ExecNext ==
    \/ \E r \in Runs : AdmitRun(r)
    \/ \E p \in Tasks, r \in Runs, node \in Nodes, n \in NodeRuns : ExecuteNode(p, r, node, n)
    \/ \E p \in Tasks, n \in NodeRuns : RetryNode(p, n)
    \/ \E p \in Tasks, r \in Runs, node \in Nodes, n \in NodeRuns, a \in Attempts :
            ClaimRun(p, r, node, n, a)
    \/ \E p \in Tasks : CallStep(p) \/ CancelLaunch(p) \/ Heartbeat(p)
    \/ \E p \in Procs : ReconcileStep(p) \/ Crash(p)
    \/ SweepStep
    \/ \E r \in Runs, target \in RunEnds : EndRun(r, target)
    \/ TimePasses

\* A process that is alive goes on, the provider's work ends, time passes and
\* the operator keeps scheduling the tick.  Nothing is assumed of the starting
\* of calls, of heartbeats, of those who end Runs, nor of crashes.
Fairness ==
    /\ \A p \in Tasks : WF_execVars(CallStep(p))
    /\ \A p \in Procs : WF_execVars(ReconcileStep(p))
    /\ WF_execVars(SweepStep)
    /\ WF_execVars(TimePasses)

ExecSpec == ExecInit /\ [][ExecNext]_execVars

FairExecSpec == ExecSpec /\ Fairness
------------------------------------------------------------------------------
\* Properties

Places ==
    {"idle", "check", "create", "prepare", "run", "node", "launch", "fence", "provider",
     "publish", "settle", "accept", "reconcile", "write", "observe", "conclude"}

Goals == RunStatus \union AttemptStatus \union {"none", "human"}

ProcRecord ==
    [pc : Places, n : NodeRuns \union {0}, a : Attempts \union {0}, goal : Goals,
     run : RunStatus \union {"none", "absent"}, node : RunStatus \union {"none", "absent"}]

\* A process works on a NodeRun that exists and on an Attempt of that NodeRun,
\* and writes a disposition that goes with how the Attempt ended.
Placed(state, records, bodies) ==
    /\ state.pc # "idle" => state.n \in NodeRuns /\ records[state.n].status # "absent"
    /\ state.pc \notin {"idle", "check", "create"} =>
            /\ state.a \in Attempts
            /\ bodies[state.a].status # "absent"
            /\ bodies[state.a].nodeRun = state.n
    /\ state.pc = "write" =>
            state.goal \in AcceptedStatus \/ bodies[state.a].status = "cancelled"

\* Every process and the tick hold records that exist and belong together.
ExecTypeOK ==
    /\ proc \in [Procs -> ProcRecord]
    /\ \A p \in Procs : Placed(proc[p], nodeRuns, attempts)
    /\ sweep \in [phase : {"reclaimed", "replay"}, left : SUBSET (Attempts \union NodeRuns)]
    /\ \A id \in sweep.left :
            id \in (IF sweep.phase = "reclaimed" THEN Created(attempts) ELSE Created(nodeRuns))

\* No Attempt is started while a completed one of the same NodeRun has been
\* neither accepted nor superseded: a durable side effect is not repeated.
RedispatchesNothing ==
    \A a \in Attempts :
        /\ attempts[a].status = "absent"
        /\ attempts'[a].status # "absent"
        => ~AwaitsAcceptance(attempts'[a].nodeRun)

CompletionIsNeverRedispatched == [][RedispatchesNothing]_execVars

\* A NodeRun whose newest Attempt was reclaimed by recovery stays open for the
\* retry, until its Run ends: neither the worker that lost its lease nor the
\* sweep concludes it (where one call at a time works on the NodeRun).
ReclaimedWorkStaysOpen ==
    \A n \in Created(nodeRuns) :
        nodeRuns[n].status \in TerminalRunStatus /\ ~nodeRuns[n].cascaded =>
            \A a \in AttemptsOf(n) :
                attempts[a].reclaimed => \E b \in AttemptsOf(n) : b > a

\* What a NodeRun accepts is the completion of its newest Attempt.
AcceptsTheCurrent ==
    \A n \in NodeRuns :
        LET a == nodeRuns'[n].accepted.attempt IN
        a \notin {0, nodeRuns[n].accepted.attempt} => \A b \in AttemptsOf(n) : b <= a

AcceptedAttemptIsCurrent == [][AcceptsTheCurrent]_execVars

\* When the completion of a node settles its Run, nothing was still open: the
\* cascade of that settlement cancels no NodeRun.
SettlesWithoutLoss ==
    \A p \in Procs :
        /\ proc[p].pc = "conclude" /\ attempts[proc[p].a].status = "completed"
        /\ proc'[p] # proc[p]
        => \A n \in NodeRuns : nodeRuns'[n].cascaded = nodeRuns[n].cascaded

SettlementLosesNothing == [][SettlesWithoutLoss]_execVars

\* While no process dies, a running Attempt has a call that drives it: one
\* whose Run is cancelled as its provider returns is settled as cancelled and
\* is not left behind.
RunningAttemptIsDriven ==
    \A a \in Attempts : attempts[a].status = "running" => \E p \in Tasks : proc[p].a = a

\* Whatever dies and whenever, every Attempt with an expiring lease is settled
\* in the end.
EveryAttemptSettles ==
    \A a \in Attempts :
        attempts[a].status \in ActiveAttemptStatus ~> attempts[a].status \in TerminalAttemptStatus

\* A Run does not stay running when none of its Attempts runs any more: it is
\* settled, or parked for whoever decides about a retry.
NoRunStrands ==
    \A r \in Runs : runStatus[r] = "running" ~> runStatus[r] # "running"
==============================================================================
