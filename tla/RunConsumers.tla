----------------------------- MODULE RunConsumers -----------------------------
(***************************************************************************)
(* The consumers of admitted Runs (container.py, runs/consumption.py): the *)
(* tick that executes queued Runs and the tick that resumes parked ones    *)
(* when the time they wait for has come, beside the recovery tick of       *)
(* AttemptExecution.  A Run has one node, so one NodeRun.                  *)
(*                                                                         *)
(* A first reach is backed by a leased Attempt in the write that claims    *)
(* the Run.  A resume claims the Run first and creates its Attempt later;  *)
(* when it raises, the Run is parked again.                                *)
(***************************************************************************)
EXTENDS AttemptExecution

CONSTANTS
    Unresolvable,  \* the Runs whose kind of node is not registered here
    CrashPlaces,   \* where a consumer may die: "backed" by an Attempt, "unbacked"
    Prompt,        \* a call starts its heartbeat before the lease of its Attempt lapses
    Overlap        \* a recovery tick may be under way while a resume holds a Run

ASSUME ConsumerAssumption ==
    /\ Unresolvable \subseteq Runs
    /\ CrashPlaces \subseteq {"backed", "unbacked"}
    /\ Prompt \in BOOLEAN /\ Overlap \in BOOLEAN
    /\ ~Deferred

VARIABLES
    drive,   \* what each consumer does around its call of retry_node
    due      \* the yielded Attempts whose resume_at has passed

consumerVars == <<runStatus, nodeRuns, attempts, proc, sweep, drive, due>>

NoDrive == [pc |-> "none", r |-> "none", n |-> 0]

ConsumerInit ==
    /\ ExecInit
    /\ drive = [p \in Tasks |-> NoDrive]
    /\ due = {}

Drives(p, state) == drive' = [drive EXCEPT ![p] = state]

Free(p) == proc[p].pc = "idle" /\ drive[p].pc = "none"

\* A resume holds its Run from the claim to the end of what it does about it.
Resuming(p) == drive[p].pc \in {"claimed", "call", "repark", "parkNode", "parkRun"}

\* A recovery tick is between its start and its end.
Recovering == proc[Sweeper].pc # "idle" \/ sweep # NoSweep

------------------------------------------------------------------------------
\* execute_admitted_runs

ExecuteAdmitted(p, r, node, n, a) ==
    /\ r \notin Unresolvable
    /\ Free(p)
    /\ ClaimRun(p, r, node, n, a)
    /\ UNCHANGED <<drive, due>>

\* _fail_unresolvable_run: the claim ...
ClaimUnresolvable(p, r) ==
    /\ r \in Unresolvable
    /\ Free(p)
    /\ runStatus[r] = "queued"
    /\ TransitionRun(r, "running")
    /\ Drives(p, [NoDrive EXCEPT !.pc = "dispose", !.r = r])
    /\ UNCHANGED <<proc, sweep, due>>

\* ... and the verdict, unless somebody ended the Run in between.
FailUnresolvable(p) ==
    LET r == drive[p].r IN
    /\ drive[p].pc = "dispose"
    /\ \/ TransitionRun(r, "failed")
       \/ ~MayTransitionRun(r, "failed") /\ UNCHANGED vars
    /\ Drives(p, NoDrive)
    /\ UNCHANGED <<proc, sweep, due>>

------------------------------------------------------------------------------
\* resume_parked_runs

\* _pause_behind_recovery: the newest Attempt that recovery did not reclaim.
BehindRecovery(n) ==
    {a \in AttemptsOf(n) :
        /\ ~attempts[a].reclaimed
        /\ \A b \in AttemptsOf(n) : b > a => attempts[b].reclaimed}

\* resumable_pause: a parked NodeRun, a yield that no person has to answer,
\* and a time that has come.
Resumable(n) ==
    /\ nodeRuns[n].status \in {"waiting", "paused"}
    /\ \E a \in BehindRecovery(n) :
        attempts[a].status = "yielded" /\ attempts[a].result # "human" /\ a \in due

\* The first look at a parked Run.
FindParked(p, n) ==
    /\ Free(p)
    /\ n \in Created(nodeRuns)
    /\ runStatus[nodeRuns[n].run] \in {"waiting", "paused"}
    /\ Resumable(n)
    /\ Drives(p, [pc |-> "found", r |-> nodeRuns[n].run, n |-> n])
    /\ UNCHANGED <<vars, proc, sweep, due>>

\* The claim of the Run, which another tick may have won.
ClaimParked(p) ==
    LET r == drive[p].r IN
    /\ drive[p].pc = "found"
    /\ Overlap \/ ~Recovering
    /\ \/ TransitionRun(r, "running") /\ Drives(p, [drive[p] EXCEPT !.pc = "claimed"])
       \/ ~MayTransitionRun(r, "running") /\ Drives(p, NoDrive) /\ UNCHANGED vars
    /\ UNCHANGED <<proc, sweep, due>>

\* Mutant: the pause read before the claim is used.
ResumeAsFound(p) ==
    /\ drive[p].pc = "claimed"
    /\ proc' = [proc EXCEPT ![p] = [Idle EXCEPT !.pc = "check", !.n = drive[p].n]]
    /\ Drives(p, [drive[p] EXCEPT !.pc = "call"])
    /\ UNCHANGED <<vars, sweep, due>>

\* Mutant: a pause that is no longer there ends the resume.
SkipWithoutRepark(p) ==
    /\ drive[p].pc = "claimed"
    /\ IF Resumable(drive[p].n)
       THEN /\ proc' = [proc EXCEPT ![p] = [Idle EXCEPT !.pc = "check", !.n = drive[p].n]]
            /\ Drives(p, [drive[p] EXCEPT !.pc = "call"])
       ELSE Drives(p, NoDrive) /\ UNCHANGED proc
    /\ UNCHANGED <<vars, sweep, due>>

\* The pause is read again under the claim; then retry_node, under the NodeRun
\* that is parked.
Resume(p) ==
    /\ drive[p].pc = "claimed"
    /\ IF Resumable(drive[p].n)
       THEN /\ proc' = [proc EXCEPT ![p] = [Idle EXCEPT !.pc = "check", !.n = drive[p].n]]
            /\ Drives(p, [drive[p] EXCEPT !.pc = "call"])
       ELSE Drives(p, [drive[p] EXCEPT !.pc = "repark"]) /\ UNCHANGED proc
    /\ UNCHANGED <<vars, sweep, due>>

\* The places of a call that it leaves only by going on or by raising.
RaisingPlaces == {"check", "create", "prepare", "run", "node"}

\* Whether the step that ends the call of p raises an Exception: refusals and
\* a deadline do, a yield, a success and the failure of the node do not, and
\* the CancelledError of a cancelled call passes by the handler.
EndRaises(p) ==
    LET status == attempts[proc[p].a].status IN
    \/ proc[p].pc \in RaisingPlaces
    \/ proc[p].pc = "settle" /\ status \in ActiveAttemptStatus
    \/ proc[p].pc = "settle" /\ proc[p].goal = "timed_out"
    \/ proc[p].pc = "reconcile" /\ status # "cancelled"
    \/ proc[p].pc = "write"
    \/ proc[p].pc = "observe" /\ status = "timed_out"
    \/ proc[p].pc = "conclude" /\ (status = "timed_out" \/ ~MayTransitionRun(RunOf(p), proc[p].goal))

\* A step of the call a consumer drives; its end decides what comes next.
Call(p) ==
    /\ CallStep(p) \/ ReconcileStep(p)
    /\ drive' = IF drive[p].pc # "call" \/ proc'[p].pc # "idle" THEN drive
                ELSE [drive EXCEPT ![p] = IF EndRaises(p) THEN [@ EXCEPT !.pc = "repark"] ELSE NoDrive]
    /\ UNCHANGED due

\* Mutant: the raise is swallowed, and the claim is left as it is.
StoreFailsUnseen(p) ==
    /\ drive[p].pc = "call"
    /\ proc[p].pc \in RaisingPlaces
    /\ proc' = [proc EXCEPT ![p] = Idle]
    /\ UNCHANGED <<vars, sweep, drive, due>>

\* A write of the store fails before the work is launched: the call raises.
StoreFails(p) ==
    /\ drive[p].pc = "call"
    /\ proc[p].pc \in RaisingPlaces
    /\ proc' = [proc EXCEPT ![p] = Idle]
    /\ Drives(p, [drive[p] EXCEPT !.pc = "repark"])
    /\ UNCHANGED <<vars, sweep, due>>

------------------------------------------------------------------------------
\* _repark_after_failed_resume

\* What has to be parked: nothing under an ended NodeRun or a running Attempt.
Repark(p) ==
    LET n == drive[p].n IN
    /\ drive[p].pc = "repark"
    /\ Drives(p,
        IF nodeRuns[n].status \in TerminalRunStatus THEN NoDrive
        ELSE IF nodeRuns[n].status # "running" THEN [drive[p] EXCEPT !.pc = "parkRun"]
        ELSE IF \E a \in AttemptsOf(n) : attempts[a].status = "running" THEN NoDrive
        ELSE [drive[p] EXCEPT !.pc = "parkNode"])
    /\ UNCHANGED <<vars, proc, sweep, due>>

\* A refusal of either write is logged, and ends it.
ParkNode(p) ==
    LET n == drive[p].n IN
    /\ drive[p].pc = "parkNode"
    /\ \/ TransitionNodeRun(n, "waiting", NoOutcome) /\ Drives(p, [drive[p] EXCEPT !.pc = "parkRun"])
       \/ ~MayTransitionNodeRun(n, "waiting", NoOutcome) /\ Drives(p, NoDrive) /\ UNCHANGED vars
    /\ UNCHANGED <<proc, sweep, due>>

ParkRun(p) ==
    LET r == drive[p].r IN
    /\ drive[p].pc = "parkRun"
    /\ \/ TransitionRun(r, "waiting")
       \/ ~MayTransitionRun(r, "waiting") /\ UNCHANGED vars
    /\ Drives(p, NoDrive)
    /\ UNCHANGED <<proc, sweep, due>>

------------------------------------------------------------------------------
\* The others

\* The resume_at of a pause passes.
Elapses(a) ==
    /\ attempts[a].status = "yielded" /\ attempts[a].result # "human"
    /\ a \notin due
    /\ due' = due \union {a}
    /\ UNCHANGED <<vars, proc, sweep, drive>>

\* What a consumer would leave behind if it died now.
Leaves(p) ==
    IF proc[p].a # 0
    THEN IF attempts[proc[p].a].status \in ActiveAttemptStatus \union {"completed"}
         THEN "backed" ELSE "settled"
    ELSE IF drive[p].pc \in {"none", "found"} THEN "nothing" ELSE "unbacked"

\* The container of a consumer dies.
ConsumerDies(p) ==
    /\ Leaves(p) \in CrashPlaces
    /\ proc' = [proc EXCEPT ![p] = Idle]
    /\ Drives(p, NoDrive)
    /\ UNCHANGED <<vars, sweep, due>>

\* Leases lapse, but for Prompt calls not before the heartbeat is there.
LeasesLapse ==
    /\ Prompt => \A p \in Tasks : proc[p].a # 0 => proc[p].pc \notin RaisingPlaces \union {"launch", "fence"}
    /\ TimePasses

\* The cadence of one Hive takes its halves in turn; those of several overlap.
RecoveryTick ==
    /\ Overlap \/ \A p \in Tasks : ~Resuming(p)
    /\ SweepStep

\* Steps of AttemptExecution that no consumer takes.
Elsewhere ==
    /\ \/ \E r \in Runs : AdmitRun(r)
       \/ \E p \in Tasks : CancelLaunch(p) \/ Heartbeat(p)
       \/ ReconcileStep(Sweeper) \/ RecoveryTick
       \/ \E r \in Runs, target \in RunEnds : EndRun(r, target)
       \/ LeasesLapse
    /\ UNCHANGED <<drive, due>>

Consume(p) ==
    \/ FailUnresolvable(p)
    \/ ClaimParked(p) \/ Resume(p) \/ Call(p)
    \/ Repark(p) \/ ParkNode(p) \/ ParkRun(p)

ConsumerNext ==
    \/ \E p \in Tasks :
        \/ \E r \in Runs, node \in Nodes, n \in NodeRuns, a \in Attempts : ExecuteAdmitted(p, r, node, n, a)
        \/ \E r \in Runs : ClaimUnresolvable(p, r)
        \/ \E n \in NodeRuns : FindParked(p, n)
        \/ Consume(p) \/ StoreFails(p) \/ ConsumerDies(p)
    \/ \E a \in Attempts : Elapses(a)
    \/ Elsewhere

ConsumerSpec == ConsumerInit /\ [][ConsumerNext]_consumerVars

\* As in AttemptExecution: who is alive goes on.  The ticks need not be called.
FairConsumerSpec ==
    /\ ConsumerSpec
    /\ \A p \in Tasks : WF_consumerVars(Consume(p))
    /\ WF_consumerVars(ReconcileStep(Sweeper) /\ UNCHANGED <<drive, due>>)
    /\ WF_consumerVars(RecoveryTick /\ UNCHANGED <<drive, due>>)
    /\ WF_consumerVars(LeasesLapse /\ UNCHANGED <<drive, due>>)
------------------------------------------------------------------------------
\* Properties

\* A consumer that drives a resume holds the NodeRun of the Run it claimed, and
\* a claim is never left behind by a call that is over; only yields fall due.
ConsumerTypeOK ==
    /\ drive \in [Tasks ->
            [pc : {"none", "dispose", "found", "claimed", "call", "repark", "parkNode", "parkRun"},
             r : Runs \union {"none"}, n : NodeRuns \union {0}]]
    /\ \A p \in Tasks :
        /\ drive[p].n # 0 => nodeRuns[drive[p].n].run = drive[p].r
        /\ drive[p].pc = "call" => proc[p].n = drive[p].n
        /\ drive[p].pc \notin {"none", "call"} => proc[p] = Idle
    /\ \A a \in due : attempts[a].status = "yielded" /\ attempts[a].result # "human"

\* Every Attempt after the first of a NodeRun re-enters a pause a timer may
\* re-enter, after its time, although the pause was found before the claim: two ticks do
\* not collapse the interval of a poll, and no answer-gated wait is re-entered.
ResumesElapsedPauses ==
    [][\A a \in Attempts :
        LET n == attempts'[a].nodeRun IN
        attempts[a].status = "absent" /\ attempts'[a].status = "created" =>
            \E b \in BehindRecovery(n) : attempts[b].status = "yielded" /\ b \in due]_consumerVars

==============================================================================
