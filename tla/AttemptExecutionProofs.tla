------------------------ MODULE AttemptExecutionProofs ------------------------
(***************************************************************************)
(* The calls and the recovery tick implement the spine: whatever they do,  *)
(* in whichever order they interleave and wherever they die, the records   *)
(* only ever change by operations of the store.  So everything proved of   *)
(* RunSpine holds of them, for any number of calls.                        *)
(* What the calls themselves promise is proved below from what each        *)
(* process, each Attempt and each NodeRun may do in one step.              *)
(***************************************************************************)
EXTENDS AttemptExecution, RunSpineProofs

------------------------------------------------------------------------------
(***************************************************************************)
(* What a process relies on between two of its steps: no step of anybody   *)
(* takes a record away, moves it under another parent, or reopens it.      *)
(***************************************************************************)
Grows ==
    /\ \A n \in NodeRuns : nodeRuns[n].status # "absent" =>
            nodeRuns'[n].status # "absent" /\ nodeRuns'[n].run = nodeRuns[n].run
    /\ \A a \in Attempts : attempts[a].status # "absent" =>
            /\ attempts'[a].status # "absent"
            /\ attempts'[a].nodeRun = attempts[a].nodeRun
            /\ attempts[a].status = "cancelled" => attempts'[a].status = "cancelled"

\* A step that changes no record.
LEMMA NothingGrows == UNCHANGED vars => Grows
BY DEF vars, Grows

\* Every operation of the store only adds to what there is.
LEMMA NextGrows == IInv /\ [Next]_vars => Grows
<1> SUFFICES ASSUME IInv, [Next]_vars PROVE Grows
  OBVIOUS
<1>0. /\ Shapes /\ Parents /\ "cancelled" \in TerminalAttemptStatus
      /\ "absent" \notin RunStatus /\ "absent" \notin AttemptStatus
  BY StatusFacts DEF IInv, TerminalAttemptStatus, AttemptStatus, ActiveAttemptStatus
<1>1. [KeepsEnds]_vars
  BY NextKeepsEnds
<1>2. \A a \in Attempts : attempts[a].status = "cancelled" => attempts'[a].status = "cancelled"
  BY <1>0, <1>1 DEF KeepsEnds, vars
<1>3. ASSUME nodeRuns' = nodeRuns, attempts' = attempts PROVE Grows
  BY <1>3 DEF Grows
<1>4. ASSUME NEW r \in Runs, NEW initial \in {"created", "queued"}, CreateRun(r, initial)
      PROVE  Grows
  BY <1>3, <1>4 DEF CreateRun
<1>5. ASSUME NEW r \in Runs, NEW target \in RunStatus, TransitionRun(r, target)
      PROVE  Grows
  <2>1. attempts' = attempts /\ (nodeRuns' = nodeRuns \/ nodeRuns' = SettledUnder(r))
    BY <1>0, <1>5, TransitionRunEffect
  <2>2. \A n \in NodeRuns : /\ SettledUnder(r)[n].run = nodeRuns[n].run
                            /\ SettledUnder(r)[n].status = "absent" <=> nodeRuns[n].status = "absent"
    BY <1>0, CascadeRecord DEF Shapes
  <2> QED BY <2>1, <2>2 DEF Grows
<1>6. ASSUME NEW n \in NodeRuns, NEW r \in Runs, NEW node \in Nodes, CreateNodeRun(n, r, node)
      PROVE  Grows
  BY <1>0, <1>6, CreateNodeRunEffect DEF Grows, Kept
<1>7. ASSUME NEW n \in NodeRuns, NEW target \in RunStatus,
             NEW outcome \in Outcomes \union {NoOutcome}, TransitionNodeRun(n, target, outcome)
      PROVE  Grows
  <2>1. /\ nodeRuns'[n].status = target /\ nodeRuns'[n].run = nodeRuns[n].run
        /\ \A m \in NodeRuns : m # n => nodeRuns'[m] = nodeRuns[m]
        /\ attempts' = attempts
    BY <1>0, <1>7, TransitionNodeRunEffect DEF Kept
  <2> QED BY <1>0, <2>1 DEF Grows
<1>8. ASSUME NEW n \in NodeRuns, NEW a \in Attempts, NEW logical \in AcceptedStatus,
             TransitionNodeRun(n, logical, OutcomeOf(a, logical))
      PROVE  Grows
  BY <1>0, <1>7, <1>8, OutcomeType, StatusFacts
<1>9. ASSUME NEW a \in Attempts, NEW n \in NodeRuns, NEW lease \in {"none", "open", "ttl"},
             CreateAttempt(a, n, lease)
      PROVE  Grows
  BY <1>0, <1>2, <1>9, CreateAttemptEffect DEF Grows, KeptAttempt
<1>10. ASSUME NEW a \in Attempts, NEW target \in AttemptStatus, NEW token \in Attempts,
              NEW result \in Result, TransitionAttempt(a, target, token, result)
       PROVE  Grows
  <2>1. /\ attempts'[a].status = target /\ attempts'[a].nodeRun = attempts[a].nodeRun
        /\ \A b \in Attempts : b # a => attempts'[b] = attempts[b]
        /\ nodeRuns' = nodeRuns
    BY <1>0, <1>10, TransitionAttemptEffect DEF KeptAttempt
  <2> QED BY <1>0, <1>2, <2>1 DEF Grows
<1>11. ASSUME NEW a \in Attempts, NEW token \in Attempts, RenewLease(a, token)
       PROVE  Grows
  BY <1>0, <1>11, RenewLeaseEffect DEF Grows
<1>12. ASSUME NEW batch \in SUBSET Attempts, ReclaimExpiredAttempts(batch)
       PROVE  Grows
  <2>1. /\ \A a \in batch : attempts'[a].status = "cancelled" /\ attempts'[a].nodeRun = attempts[a].nodeRun
        /\ \A a \in Attempts \ batch : attempts'[a] = attempts[a]
        /\ nodeRuns' = nodeRuns
    BY <1>0, <1>12, ReclaimEffect DEF KeptAttempt
  <2> QED BY <1>2, <2>1 DEF Grows
<1>13. ASSUME NEW r \in Runs, NEW node \in Nodes, NEW n \in NodeRuns, NEW a \in Attempts,
              ClaimConsumerRun(r, node, n, a)
       PROVE  Grows
  BY <1>0, <1>2, <1>13, ClaimEffect DEF Grows, Kept, KeptAttempt
<1>14. ASSUME NEW a \in Attempts, NEW result \in Result, RepairAttemptResult(a, result)
       PROVE  Grows
  <2>1. /\ attempts'[a].nodeRun = attempts[a].nodeRun /\ attempts'[a].status = attempts[a].status
        /\ \A b \in Attempts : b # a => attempts'[b] = attempts[b]
    BY <1>0, <1>14, RepairEffect DEF KeptAttempt
  <2>2. \A n \in NodeRuns :
            nodeRuns'[n].status = nodeRuns[n].status /\ nodeRuns'[n].run = nodeRuns[n].run
    BY <1>0, <1>14, RepairEffect DEF Kept
  <2> QED BY <1>2, <2>1, <2>2 DEF Grows
<1>15. CASE Tick
  BY <1>0, <1>2, <1>15, TickEffect DEF Grows
<1>16. CASE UNCHANGED vars
  BY <1>3, <1>16 DEF vars
<1>17. NoOutcome \in Outcomes \union {NoOutcome}
  OBVIOUS
<1> QED BY <1>4, <1>5, <1>6, <1>7, <1>8, <1>9, <1>10, <1>11, <1>12, <1>13, <1>14, <1>15, <1>16, <1>17 DEF Next

------------------------------------------------------------------------------
(***************************************************************************)
(* A step of one process gives it a new local state; the type invariant    *)
(* holds again if that state is placed on records that exist after it.     *)
(***************************************************************************)
SweepShrinks ==
    \/ sweep' = sweep
    \/ sweep' = NoSweep
    \/ \E gone : sweep' = [sweep EXCEPT !.left = @ \ gone]

Moves(p) ==
    \E s \in ProcRecord :
        /\ Placed(s, nodeRuns', attempts')
        /\ proc' = [proc EXCEPT ![p] = s]
        /\ SweepShrinks

\* What a local state stands on is still there after a step.
LEMMA PlacedStays ==
    ASSUME Grows, NEW s, Placed(s, nodeRuns, attempts)
    PROVE  Placed(s, nodeRuns', attempts')
BY DEF Grows, Placed

\* What the tick still has to look at is still there after a step.
LEMMA LeftStays ==
    ASSUME Shapes, Shapes', Grows, ExecTypeOK
    PROVE  \A id \in sweep.left :
             id \in (IF sweep.phase = "reclaimed" THEN Created(attempts)' ELSE Created(nodeRuns)')
<1>1. \A id : id \in Created(attempts) <=> id \in Attempts /\ attempts[id].status # "absent"
  BY CreatedFacts DEF Shapes
<1>2. \A id : id \in Created(attempts)' <=> id \in Attempts /\ attempts'[id].status # "absent"
  BY CreatedFacts DEF Shapes, Created
<1>3. \A id : id \in Created(nodeRuns) <=> id \in NodeRuns /\ nodeRuns[id].status # "absent"
  BY CreatedFacts DEF Shapes
<1>4. \A id : id \in Created(nodeRuns)' <=> id \in NodeRuns /\ nodeRuns'[id].status # "absent"
  BY CreatedFacts DEF Shapes, Created
<1> QED BY <1>1, <1>2, <1>3, <1>4 DEF Grows, ExecTypeOK

\* The processes that do not move stay placed, and the one that moves is.
LEMMA MoveKeeps ==
    ASSUME Shapes, Shapes', Grows, ExecTypeOK, NEW p \in Procs, Moves(p)
    PROVE  ExecTypeOK'
<1>1. PICK s \in ProcRecord : /\ Placed(s, nodeRuns', attempts')
                              /\ proc' = [proc EXCEPT ![p] = s]
                              /\ SweepShrinks
  BY DEF Moves
<1>2. proc \in [Procs -> ProcRecord]
  BY DEF ExecTypeOK
<1>3. proc' \in [Procs -> ProcRecord] /\ proc'[p] = s /\ \A q \in Procs : q # p => proc'[q] = proc[q]
  BY <1>1, <1>2
<1>4. ASSUME NEW q \in Procs PROVE Placed(proc'[q], nodeRuns', attempts')
  <2>1. CASE q = p
    BY <1>1, <1>3, <2>1
  <2>2. CASE q # p
    <3>1. Placed(proc[q], nodeRuns', attempts')
      BY PlacedStays DEF ExecTypeOK
    <3> QED BY <1>3, <2>2, <3>1
  <2> QED BY <2>1, <2>2
<1>5. CASE sweep' = sweep
  BY <1>3, <1>4, <1>5, LeftStays DEF ExecTypeOK
<1>6. CASE sweep' = NoSweep
  <2>1. /\ sweep' \in [phase : {"reclaimed", "replay"}, left : SUBSET (Attempts \union NodeRuns)]
        /\ sweep'.left = {}
    BY <1>6 DEF NoSweep
  <2> QED BY <1>3, <1>4, <2>1 DEF ExecTypeOK
<1>7. CASE \E gone : sweep' = [sweep EXCEPT !.left = @ \ gone]
  <2>1. PICK gone : sweep' = [sweep EXCEPT !.left = @ \ gone]
    BY <1>7
  <2>2. sweep \in [phase : {"reclaimed", "replay"}, left : SUBSET (Attempts \union NodeRuns)]
    BY DEF ExecTypeOK
  <2>3. /\ sweep' \in [phase : {"reclaimed", "replay"}, left : SUBSET (Attempts \union NodeRuns)]
        /\ sweep'.phase = sweep.phase /\ sweep'.left \subseteq sweep.left
    BY <2>1, <2>2
  <2> QED BY <1>3, <1>4, <2>3, LeftStays DEF ExecTypeOK
<1> QED BY <1>1, <1>5, <1>6, <1>7 DEF SweepShrinks

\* An idle process stands on nothing.
LEMMA IdleIsPlaced ==
    ASSUME NEW records, NEW bodies
    PROVE  Idle \in ProcRecord /\ Placed(Idle, records, bodies)
BY DEF Idle, ProcRecord, Placed, Places, Goals

\* A call that ends.
LEMMA FinishMoves ==
    ASSUME NEW p \in Procs, Finish(p) \/ Abort(p)
    PROVE  Moves(p)
BY IdleIsPlaced DEF Finish, Abort, Becomes, Moves, SweepShrinks

\* A process that goes on with the NodeRun and the Attempt it has.
LEMMA AimMoves ==
    ASSUME ExecTypeOK, Grows, NEW p \in Procs, NEW pc \in Places, NEW goal \in Goals,
           Aim(p, pc, goal),
           proc[p].pc # "idle",
           proc[p].pc \in {"check", "create"} => pc \in {"check", "create"},
           pc = "write" => goal \in AcceptedStatus \/ attempts[proc[p].a].status = "cancelled"
    PROVE  Moves(p)
<1> DEFINE s == [proc[p] EXCEPT !.pc = pc, !.goal = goal]
<1>1. proc[p] \in ProcRecord /\ Placed(proc[p], nodeRuns, attempts)
  BY DEF ExecTypeOK
<1>2. /\ s \in ProcRecord
      /\ s.pc = pc /\ s.goal = goal /\ s.n = proc[p].n /\ s.a = proc[p].a
  BY <1>1 DEF ProcRecord
<1>3. proc' = [proc EXCEPT ![p] = s] /\ sweep' = sweep
  BY DEF Aim, Becomes
<1> HIDE DEF s
<1>4. Placed(s, nodeRuns, attempts)
  BY <1>1, <1>2 DEF Placed
<1>5. Placed(s, nodeRuns', attempts')
  BY <1>4, PlacedStays
<1> QED BY <1>2, <1>3, <1>5 DEF Moves, SweepShrinks

\* The same without a new goal.
LEMMA GoMoves ==
    ASSUME ExecTypeOK, Grows, NEW p \in Procs, NEW pc \in Places, Go(p, pc),
           proc[p].pc # "idle", pc # "write",
           proc[p].pc \in {"check", "create"} => pc \in {"check", "create"}
    PROVE  Moves(p)
<1>1. proc[p] \in ProcRecord
  BY DEF ExecTypeOK
<1>2. proc[p].goal \in Goals /\ [proc[p] EXCEPT !.pc = pc] = [proc[p] EXCEPT !.pc = pc, !.goal = proc[p].goal]
  BY <1>1 DEF ProcRecord
<1>3. Aim(p, pc, proc[p].goal)
  BY <1>2 DEF Go, Aim, Becomes
<1> QED BY <1>2, <1>3, AimMoves

------------------------------------------------------------------------------
(***************************************************************************)
(* What the calls write are operations of the store.                       *)
(***************************************************************************)
\* The records a busy process works on.
LEMMA WorkedOn ==
    ASSUME Shapes, Parents, ExecTypeOK, NEW p \in Procs, proc[p].pc # "idle"
    PROVE  /\ proc[p] \in ProcRecord
           /\ proc[p].n \in NodeRuns /\ nodeRuns[proc[p].n].status \in RunStatus
           /\ RunOf(p) \in Runs
           /\ proc[p].pc \notin {"check", "create"} =>
                    proc[p].a \in Attempts /\ attempts[proc[p].a].status \in AttemptStatus
<1>1. proc[p] \in ProcRecord /\ Placed(proc[p], nodeRuns, attempts)
  BY DEF ExecTypeOK
<1>2. proc[p].n \in NodeRuns /\ nodeRuns[proc[p].n].status # "absent"
  BY <1>1 DEF Placed
<1>3. nodeRuns[proc[p].n] \in NodeRunRecord
  BY <1>2 DEF Shapes
<1>4. proc[p].pc \notin {"check", "create"} =>
            proc[p].a \in Attempts /\ attempts[proc[p].a].status # "absent"
  BY <1>1 DEF Placed
<1>5. \A a \in Attempts : attempts[a] \in AttemptRecord
  BY DEF Shapes
<1>6. RunOf(p) \in Runs
  BY <1>2 DEF Parents, RunOf
<1> QED BY <1>1, <1>2, <1>3, <1>4, <1>5, <1>6 DEF NodeRunRecord, AttemptRecord

\* The statuses the transition tables lead to are statuses.
LEMMA TransitionsAreNext ==
    ASSUME Shapes
    PROVE  /\ \A r \in Runs : \A target : TransitionRun(r, target) => Next /\ target \in RunStatus
           /\ \A n \in NodeRuns : \A target : TransitionNodeRun(n, target, NoOutcome) =>
                    Next /\ target \in RunStatus
           /\ \A a \in Attempts : \A target : \A result \in Result :
                    TransitionAttempt(a, target, a, result) => Next /\ target \in AttemptStatus
<1>1. ASSUME NEW r \in Runs, NEW target, TransitionRun(r, target)
      PROVE  Next /\ target \in RunStatus
  <2>1. target \in RunStatus
    BY <1>1, RunTransitionFacts DEF TransitionRun, MayTransitionRun
  <2> QED BY <1>1, <2>1 DEF Next
<1>2. ASSUME NEW n \in NodeRuns, NEW target, TransitionNodeRun(n, target, NoOutcome)
      PROVE  Next /\ target \in RunStatus
  <2>1. target \in RunStatus
    BY <1>2, RunTransitionFacts DEF TransitionNodeRun, MayTransitionNodeRun
  <2> QED BY <1>2, <2>1 DEF Next
<1>3. ASSUME NEW a \in Attempts, NEW target, NEW result \in Result,
             TransitionAttempt(a, target, a, result)
      PROVE  Next /\ target \in AttemptStatus
  <2>1. target \in AttemptStatus
    BY <1>3, AttemptTransitionFacts DEF TransitionAttempt, MayTransitionAttempt
  <2> QED BY <1>3, <2>1 DEF Next
<1> QED BY <1>1, <1>2, <1>3

\* The steps of a call.
LEMMA CallImplements ==
    ASSUME Shapes, Parents, ExecTypeOK, NEW p \in Tasks, CallStep(p) \/ CancelLaunch(p) \/ Heartbeat(p)
    PROVE  [Next]_vars
<1>0. p \in Procs /\ "none" \in Result /\ "human" \in Result
  BY CallAssumption DEF Procs, Result
<1>1. proc[p].pc # "idle" =>
        /\ proc[p].n \in NodeRuns /\ RunOf(p) \in Runs
        /\ proc[p].pc \notin {"check", "create"} => proc[p].a \in Attempts
  BY <1>0, WorkedOn
<1>2. CASE StartAttempt(p)
  <2>1. proc[p].n \in NodeRuns /\ LeaseKind \in {"none", "open", "ttl"}
    BY <1>1, <1>2, CallAssumption DEF StartAttempt
  <2> QED BY <1>2, <2>1 DEF StartAttempt, Next
<1>3. CASE EnsureRunRunning(p)
  <2>1. RunOf(p) \in Runs
    BY <1>1, <1>3 DEF EnsureRunRunning
  <2> QED BY <1>3, <2>1, TransitionsAreNext DEF EnsureRunRunning
<1>4. CASE EnsureNodeRunRunning(p)
  <2>1. proc[p].n \in NodeRuns
    BY <1>1, <1>4 DEF EnsureNodeRunRunning
  <2> QED BY <1>4, <2>1, TransitionsAreNext DEF EnsureNodeRunRunning
<1>5. CASE Launch(p)
  <2>1. proc[p].a \in Attempts
    BY <1>1, <1>5 DEF Launch
  <2> QED BY <1>0, <1>5, <2>1, TransitionsAreNext DEF Launch
<1>6. CASE TerminalizeIfOpen(p)
  <2>1. proc[p].a \in Attempts
    BY <1>1, <1>6 DEF TerminalizeIfOpen
  <2>2. (IF proc[p].goal = "human" THEN "human" ELSE "none") \in Result
    BY <1>0
  <2> QED BY <1>6, <2>1, <2>2, TransitionsAreNext DEF TerminalizeIfOpen
<1>7. CASE Heartbeat(p)
  <2>1. proc[p].a \in Attempts
    BY <1>1, <1>7 DEF Heartbeat
  <2> QED BY <1>7, <2>1 DEF Heartbeat, Next
<1>8. CASE \/ RejectUnacceptedCompletion(p) \/ PrepareExecution(p) \/ FenceLaunch(p)
           \/ (\E end \in ProviderEnds : ProviderReturns(p, end)) \/ SettleProviderSuccess(p)
           \/ (\E logical \in Dispositions : AcceptOutcome(p, logical)) \/ CancelLaunch(p)
  BY <1>8 DEF RejectUnacceptedCompletion, PrepareExecution, FenceLaunch, ProviderReturns,
              SettleProviderSuccess, AcceptOutcome, CancelLaunch
<1> QED BY <1>2, <1>3, <1>4, <1>5, <1>6, <1>7, <1>8 DEF CallStep

\* The steps of a reconciliation.
LEMMA ReconcileImplements ==
    ASSUME Shapes, Parents, ExecTypeOK, NEW p \in Procs, ReconcileStep(p) \/ Crash(p)
    PROVE  [Next]_vars
<1>1. proc[p].pc # "idle" => proc[p].n \in NodeRuns /\ RunOf(p) \in Runs
  BY WorkedOn
<1>2. CASE WriteNodeRun(p)
  <2>1. proc[p].n \in NodeRuns
    BY <1>1, <1>2 DEF WriteNodeRun
  <2>2. CASE attempts[proc[p].a].status # "completed"
    BY <1>2, <2>1, <2>2, TransitionsAreNext DEF WriteNodeRun
  <2>3. CASE attempts[proc[p].a].status = "completed"
    <3>1. Placed(proc[p], nodeRuns, attempts)
      BY DEF ExecTypeOK
    <3>2. proc[p].a \in Attempts /\ proc[p].goal \in AcceptedStatus
      BY <1>2, <2>3, <3>1 DEF Placed, WriteNodeRun
    <3> QED BY <1>2, <2>1, <2>3, <3>2 DEF WriteNodeRun, Next
  <2> QED BY <2>2, <2>3
<1>3. CASE ConcludeRun(p)
  <2>1. RunOf(p) \in Runs
    BY <1>1, <1>3 DEF ConcludeRun
  <2> QED BY <1>3, <2>1, TransitionsAreNext DEF ConcludeRun
<1>4. CASE \/ ReconcileCompleted(p) \/ ReconcileRequested(p) \/ ReconcileParked(p)
           \/ ObserveRun(p) \/ Crash(p)
  BY <1>4 DEF ReconcileCompleted, ReconcileRequested, ReconcileParked, ObserveRun, Crash
<1> QED BY <1>2, <1>3, <1>4 DEF ReconcileStep

\* The steps of the tick, and those of the others.
LEMMA SweepImplements ==
    ASSUME Shapes, SweepStep PROVE [Next]_vars
<1>1. ASSUME NEW batch \in SUBSET Attempts, SweepReclaim(batch) PROVE [Next]_vars
  <2>1. ReclaimExpiredAttempts(batch)
    BY <1>1 DEF SweepReclaim
  <2>2. CASE batch = {}
    <3>1. attempts' = [a \in Attempts |-> attempts[a]] /\ runStatus' = runStatus /\ nodeRuns' = nodeRuns
      BY <2>1, <2>2 DEF ReclaimExpiredAttempts
    <3> QED BY <3>1 DEF Shapes, vars
  <2>3. CASE batch # {}
    BY <2>1, <2>3 DEF Next
  <2> QED BY <2>2, <2>3
<1>2. CASE SweepList
  BY <1>2 DEF SweepList, vars
<1>3. ASSUME NEW a, SweepReclaimed(a) PROVE [Next]_vars
  BY <1>3 DEF SweepReclaimed
<1>4. ASSUME NEW n, SweepReplay(n) PROVE [Next]_vars
  BY <1>4 DEF SweepReplay
<1> QED BY <1>1, <1>2, <1>3, <1>4 DEF SweepStep

\* Every step of every process is a step of the spine, or changes no record.
LEMMA ExecStepImplements ==
    IInv /\ ExecTypeOK /\ [ExecNext]_execVars => [Next]_vars
<1> SUFFICES ASSUME IInv, ExecTypeOK, [ExecNext]_execVars PROVE [Next]_vars
  OBVIOUS
<1>1. Shapes /\ Parents
  BY DEF IInv
<1>2. CASE UNCHANGED execVars
  BY <1>2 DEF execVars, vars
<1>3. ASSUME NEW r \in Runs, AdmitRun(r) PROVE [Next]_vars
  BY <1>3 DEF AdmitRun, Next
<1>4. ASSUME NEW p \in Tasks, NEW r \in Runs, NEW node \in Nodes, NEW n \in NodeRuns,
             ExecuteNode(p, r, node, n)
      PROVE  [Next]_vars
  BY <1>4 DEF ExecuteNode, Next
<1>5. ASSUME NEW p \in Tasks, NEW n \in NodeRuns, RetryNode(p, n) PROVE [Next]_vars
  BY <1>5 DEF RetryNode
<1>6. ASSUME NEW p \in Tasks, NEW r \in Runs, NEW node \in Nodes, NEW n \in NodeRuns,
             NEW a \in Attempts, ClaimRun(p, r, node, n, a)
      PROVE  [Next]_vars
  BY <1>6 DEF ClaimRun, Next
<1>7. ASSUME NEW p \in Tasks, CallStep(p) \/ CancelLaunch(p) \/ Heartbeat(p) PROVE [Next]_vars
  BY <1>1, <1>7, CallImplements
<1>8. ASSUME NEW p \in Procs, ReconcileStep(p) \/ Crash(p) PROVE [Next]_vars
  BY <1>1, <1>8, ReconcileImplements
<1>9. CASE SweepStep
  BY <1>1, <1>9, SweepImplements
<1>10. ASSUME NEW r \in Runs, NEW target \in RunEnds, EndRun(r, target) PROVE [Next]_vars
  BY <1>1, <1>10, TransitionsAreNext DEF EndRun
<1>11. CASE TimePasses
  BY <1>11 DEF TimePasses, Next
<1> QED BY <1>2, <1>3, <1>4, <1>5, <1>6, <1>7, <1>8, <1>9, <1>10, <1>11 DEF ExecNext

------------------------------------------------------------------------------
(***************************************************************************)
(* Every step of a process leaves it placed.                               *)
(***************************************************************************)
\* A call starts on a NodeRun that exists.
LEMMA CheckMoves ==
    ASSUME NEW p \in Procs, NEW n \in NodeRuns, nodeRuns'[n].status # "absent",
           Becomes(p, [Idle EXCEPT !.pc = "check", !.n = n])
    PROVE  Moves(p)
<1> DEFINE s == [Idle EXCEPT !.pc = "check", !.n = n]
<1>1. s \in ProcRecord /\ s.pc = "check" /\ s.n = n
  BY DEF Idle, ProcRecord, Places, Goals
<1>2. proc' = [proc EXCEPT ![p] = s] /\ sweep' = sweep
  BY DEF Becomes
<1> HIDE DEF s
<1> QED BY <1>1, <1>2 DEF Placed, Moves, SweepShrinks

\* A claim starts on the NodeRun and the Attempt it created.
LEMMA ClaimMoves ==
    ASSUME Shapes, NEW p \in Procs, NEW r \in Runs, NEW node \in Nodes, NEW n \in NodeRuns,
           NEW a \in Attempts, ClaimRun(p, r, node, n, a)
    PROVE  Moves(p)
<1> DEFINE s == [Idle EXCEPT !.pc = "launch", !.n = n, !.a = a]
<1>1. s \in ProcRecord /\ s.pc = "launch" /\ s.n = n /\ s.a = a
  BY DEF Idle, ProcRecord, Places, Goals
<1>2. proc' = [proc EXCEPT ![p] = s] /\ sweep' = sweep
  BY DEF ClaimRun, Becomes
<1>3. /\ nodeRuns'[n].status = "running"
      /\ attempts'[a].status = "running" /\ attempts'[a].nodeRun = n
  BY ClaimEffect DEF ClaimRun
<1> HIDE DEF s
<1> QED BY <1>1, <1>2, <1>3 DEF Placed, Moves, SweepShrinks

\* From the NodeRun to the launch of the work.
LEMMA LaunchMoves ==
    ASSUME Shapes, Parents, ExecTypeOK, Grows, NEW p \in Tasks,
           \/ RejectUnacceptedCompletion(p) \/ StartAttempt(p) \/ PrepareExecution(p)
           \/ EnsureRunRunning(p) \/ EnsureNodeRunRunning(p)
    PROVE  Moves(p)
<1>0. p \in Procs
  BY DEF Procs
<1>1. /\ proc[p] \in ProcRecord /\ Placed(proc[p], nodeRuns, attempts)
      /\ Placed(proc[p], nodeRuns', attempts')
  BY <1>0, PlacedStays DEF ExecTypeOK
<1>2. ASSUME NEW status \in RunStatus \union {"none", "absent"},
             NEW other \in RunStatus \union {"none", "absent"}, NEW pc \in {"run", "node", "launch"},
             proc[p].pc \in {"prepare", "run", "node"},
             Becomes(p, [proc[p] EXCEPT !.pc = pc, !.run = status, !.node = other])
      PROVE  Moves(p)
  <2> DEFINE s == [proc[p] EXCEPT !.pc = pc, !.run = status, !.node = other]
  <2>1. s \in ProcRecord /\ s.pc = pc /\ s.n = proc[p].n /\ s.a = proc[p].a
    <3>1. proc[p] \in ProcRecord /\ pc \in Places
      BY <1>1 DEF Places
    <3> QED
      BY <3>1 DEF ProcRecord
  <2>2. proc' = [proc EXCEPT ![p] = s] /\ sweep' = sweep
    BY <1>2 DEF Becomes
  <2> HIDE DEF s
  <2>3. Placed(s, nodeRuns', attempts')
    BY <1>1, <1>2, <2>1 DEF Placed
  <2> QED BY <2>1, <2>2, <2>3 DEF Moves, SweepShrinks
<1>3. CASE RejectUnacceptedCompletion(p)
  BY <1>0, <1>3, FinishMoves, GoMoves DEF RejectUnacceptedCompletion, Places
<1>4. CASE StartAttempt(p)
  <2>1. CASE Finish(p)
    BY <1>0, <2>1, FinishMoves
  <2>2. ASSUME NEW a \in Attempts, CreateAttempt(a, proc[p].n, LeaseKind),
               Becomes(p, [proc[p] EXCEPT !.pc = "prepare", !.a = a])
        PROVE  Moves(p)
    <3> DEFINE s == [proc[p] EXCEPT !.pc = "prepare", !.a = a]
    <3>1. s \in ProcRecord /\ s.pc = "prepare" /\ s.n = proc[p].n /\ s.a = a
      BY <1>1 DEF ProcRecord, Places
    <3>2. proc' = [proc EXCEPT ![p] = s] /\ sweep' = sweep
      BY <2>2 DEF Becomes
    <3>3. proc[p].n \in NodeRuns /\ nodeRuns'[proc[p].n].status # "absent"
      BY <1>1, <1>4 DEF StartAttempt, Placed
    <3>4. attempts'[a].status = "created" /\ attempts'[a].nodeRun = proc[p].n
      BY <2>2, <3>3, CreateAttemptEffect, CallAssumption
    <3> HIDE DEF s
    <3>5. Placed(s, nodeRuns', attempts')
      BY <3>1, <3>3, <3>4 DEF Placed
    <3> QED BY <3>1, <3>2, <3>5 DEF Moves, SweepShrinks
  <2> QED BY <1>4, <2>1, <2>2 DEF StartAttempt
<1>5. CASE PrepareExecution(p)
  <2>1. CASE Finish(p)
    BY <1>0, <2>1, FinishMoves
  <2>2. proc[p].pc = "prepare" /\ proc[p].n \in NodeRuns /\ RunOf(p) \in Runs
    BY <1>0, <1>5, WorkedOn DEF PrepareExecution
  <2>3. /\ runStatus[RunOf(p)] \in RunStatus \union {"none", "absent"}
        /\ nodeRuns[proc[p].n].status \in RunStatus \union {"none", "absent"}
    BY <2>2 DEF Shapes, NodeRunRecord
  <2> QED BY <1>2, <1>5, <2>1, <2>2, <2>3 DEF PrepareExecution
<1>6. CASE EnsureRunRunning(p)
  <2>1. proc[p].pc = "run" /\ proc[p].run \in RunStatus \union {"none", "absent"}
        /\ proc[p].node \in RunStatus \union {"none", "absent"}
    BY <1>1, <1>6 DEF EnsureRunRunning, ProcRecord
  <2>2. CASE Finish(p) \/ Go(p, "node")
    BY <1>0, <2>1, <2>2, FinishMoves, GoMoves DEF Places
  <2>3. CASE Becomes(p, [proc[p] EXCEPT !.run = Towards(proc[p].run)])
    <3>1. Towards(proc[p].run) \in RunStatus \union {"none", "absent"}
      BY DEF Towards, RunStatus
    <3>2. [proc[p] EXCEPT !.run = Towards(proc[p].run)]
            = [proc[p] EXCEPT !.pc = "run", !.run = Towards(proc[p].run), !.node = proc[p].node]
      BY <1>1, <2>1 DEF ProcRecord
    <3> QED BY <1>2, <2>1, <2>3, <3>1, <3>2
  <2> QED BY <1>6, <2>2, <2>3 DEF EnsureRunRunning
<1>7. CASE EnsureNodeRunRunning(p)
  <2>1. proc[p].pc = "node" /\ proc[p].run \in RunStatus \union {"none", "absent"}
        /\ proc[p].node \in RunStatus \union {"none", "absent"}
    BY <1>1, <1>7 DEF EnsureNodeRunRunning, ProcRecord
  <2>2. CASE Finish(p)
    BY <1>0, <2>2, FinishMoves
  <2>3. CASE Becomes(p, [proc[p] EXCEPT !.pc = "launch", !.run = "none", !.node = "none"])
    BY <1>2, <2>1, <2>3
  <2>4. CASE Becomes(p, [proc[p] EXCEPT !.node = Towards(proc[p].node)])
    <3>1. Towards(proc[p].node) \in RunStatus \union {"none", "absent"}
      BY DEF Towards, RunStatus
    <3>2. [proc[p] EXCEPT !.node = Towards(proc[p].node)]
            = [proc[p] EXCEPT !.pc = "node", !.run = proc[p].run, !.node = Towards(proc[p].node)]
      BY <1>1, <2>1 DEF ProcRecord
    <3> QED BY <1>2, <2>1, <2>4, <3>1, <3>2
  <2> QED BY <1>7, <2>2, <2>3, <2>4 DEF EnsureNodeRunRunning
<1> QED BY <1>3, <1>4, <1>5, <1>6, <1>7

\* From the launch of the work to its settlement.
LEMMA WorkMoves ==
    ASSUME ExecTypeOK, Grows, NEW p \in Tasks,
           \/ Launch(p) \/ FenceLaunch(p) \/ CancelLaunch(p)
           \/ (\E end \in ProviderEnds : ProviderReturns(p, end)) \/ SettleProviderSuccess(p)
           \/ TerminalizeIfOpen(p) \/ (\E logical \in Dispositions : AcceptOutcome(p, logical))
    PROVE  Moves(p)
<1>0. /\ p \in Procs
      /\ {"fence", "provider", "settle", "publish", "accept", "reconcile", "write", "observe"} \subseteq Places
      /\ {"cancelled", "completed", "none"} \subseteq Goals
      /\ ProviderEnds \ {"success"} \subseteq Goals /\ Dispositions \subseteq Goals
  BY CallAssumption DEF Procs, Places, Goals, AttemptStatus, RunStatus, AcceptedStatus
<1>1. CASE Launch(p)
  BY <1>0, <1>1, FinishMoves, GoMoves DEF Launch
<1>2. CASE FenceLaunch(p)
  BY <1>0, <1>2, AimMoves, GoMoves DEF FenceLaunch
<1>3. CASE CancelLaunch(p)
  BY <1>0, <1>3, AimMoves DEF CancelLaunch
<1>4. ASSUME NEW end \in ProviderEnds, ProviderReturns(p, end) PROVE Moves(p)
  BY <1>0, <1>4, AimMoves, GoMoves DEF ProviderReturns
<1>5. CASE SettleProviderSuccess(p)
  <2>1. (IF runStatus[RunOf(p)] = "cancelled" THEN "cancelled" ELSE "completed") \in Goals
    BY <1>0
  <2> QED BY <1>0, <1>5, <2>1, AimMoves DEF SettleProviderSuccess
<1>6. CASE TerminalizeIfOpen(p)
  <2>1. proc[p].pc = "settle" /\ (Finish(p) \/ Go(p, "accept") \/ Go(p, "reconcile"))
    BY <1>6 DEF TerminalizeIfOpen
  <2> QED BY <1>0, <2>1, FinishMoves, GoMoves
<1>7. ASSUME NEW logical \in Dispositions, AcceptOutcome(p, logical) PROVE Moves(p)
  <2>1. proc[p].pc = "accept" /\ (Finish(p) \/ Aim(p, "observe", "none") \/ Aim(p, "write", logical))
    BY <1>7 DEF AcceptOutcome
  <2>2. logical \in AcceptedStatus /\ logical \in Goals
    BY <1>0, CallAssumption
  <2> QED BY <1>0, <2>1, <2>2, FinishMoves, AimMoves
<1> QED BY <1>1, <1>2, <1>3, <1>4, <1>5, <1>6, <1>7

\* What a settled Run may end as.
LEMMA SettlementIsAStatus == ASSUME NEW r PROVE Settlement(r) \in Goals
BY DEF Settlement, DeriveRunTerminalStatus, FirstMatch, Goals, RunStatus

\* From the end of the Attempt to that of the Run.
LEMMA ReconcileMoves ==
    ASSUME ExecTypeOK, Grows, NEW p \in Procs, ReconcileStep(p) \/ Crash(p)
    PROVE  Moves(p)
<1>0. /\ {"write", "observe", "conclude"} \subseteq Places
      /\ {"completed", "cancelled", "waiting", "paused", "none"} \subseteq Goals
      /\ {"completed", "waiting", "paused"} \subseteq AcceptedStatus
  BY DEF Places, Goals, RunStatus, AcceptedStatus
<1>1. CASE ReconcileCompleted(p)
  BY <1>0, <1>1, FinishMoves, AimMoves DEF ReconcileCompleted
<1>2. CASE ReconcileRequested(p)
  BY <1>0, <1>2, FinishMoves, AimMoves DEF ReconcileRequested
<1>3. CASE ReconcileParked(p)
  <2>1. ParkedAs(proc[p].a) \in {"paused", "waiting"}
    BY DEF ParkedAs
  <2>2. /\ proc[p].pc = "reconcile"
        /\ \/ Finish(p) \/ Aim(p, "write", ParkedAs(proc[p].a))
           \/ Aim(p, "observe", "paused") \/ Aim(p, "observe", "waiting")
    BY <1>3 DEF ReconcileParked
  <2> QED BY <1>0, <2>1, <2>2, FinishMoves, AimMoves
<1>4. CASE WriteNodeRun(p)
  <2>1. proc[p].pc = "write" /\ (Finish(p) \/ Abort(p) \/ Go(p, "observe"))
    BY <1>4 DEF WriteNodeRun
  <2> QED BY <1>0, <2>1, FinishMoves, GoMoves
<1>5. CASE ObserveRun(p)
  <2>1. proc[p].goal \in Goals
    BY DEF ExecTypeOK, ProcRecord
  <2>2. PICK target \in {Settlement(RunOf(p)), "none", proc[p].goal} :
            proc[p].pc = "observe" /\ (Finish(p) \/ Aim(p, "conclude", target))
    BY <1>5 DEF ObserveRun
  <2>3. target \in Goals
    BY <1>0, <2>1, SettlementIsAStatus
  <2> QED BY <1>0, <2>2, <2>3, FinishMoves, AimMoves
<1>6. CASE ConcludeRun(p)
  BY <1>6, FinishMoves DEF ConcludeRun
<1>7. CASE Crash(p)
  BY <1>7, FinishMoves DEF Crash
<1> QED BY <1>1, <1>2, <1>3, <1>4, <1>5, <1>6, <1>7 DEF ReconcileStep

\* A step that moves no process and leaves the tick alone.
LEMMA BystandersKeep ==
    ASSUME Shapes, Shapes', Grows, ExecTypeOK, UNCHANGED <<proc, sweep>>
    PROVE  ExecTypeOK'
<1>1. \A p \in Procs : Placed(proc[p], nodeRuns', attempts')
  BY PlacedStays DEF ExecTypeOK
<1> QED BY <1>1, LeftStays DEF ExecTypeOK

\* The tick collects what exists and hands it on one by one.
LEMMA SweepKeeps ==
    ASSUME Shapes, Parents, Shapes', Grows, ExecTypeOK, SweepStep
    PROVE  ExecTypeOK'
<1>0. /\ Sweeper \in Procs
      /\ sweep \in [phase : {"reclaimed", "replay"}, left : SUBSET (Attempts \union NodeRuns)]
  BY DEF Procs, ExecTypeOK
<1>1. ASSUME NEW phase \in {"reclaimed", "replay"}, NEW left \in SUBSET (Attempts \union NodeRuns),
             proc' = proc, sweep' = [phase |-> phase, left |-> left],
             \A id \in left : IF phase = "reclaimed" THEN id \in Attempts /\ attempts'[id].status # "absent"
                              ELSE id \in NodeRuns /\ nodeRuns'[id].status # "absent"
      PROVE  ExecTypeOK'
  <2>1. \A p \in Procs : Placed(proc[p], nodeRuns', attempts')
    BY PlacedStays DEF ExecTypeOK
  <2>2. \A id : /\ id \in Created(attempts)' <=> id \in Attempts /\ attempts'[id].status # "absent"
                /\ id \in Created(nodeRuns)' <=> id \in NodeRuns /\ nodeRuns'[id].status # "absent"
    BY CreatedFacts DEF Shapes, Created
  <2> QED BY <1>1, <2>1, <2>2 DEF ExecTypeOK
<1>2. ASSUME NEW n \in NodeRuns, NEW a \in Attempts, NEW gone,
             nodeRuns[n].status # "absent", attempts[a].status # "absent", attempts[a].nodeRun = n,
             SweepNext(n, a), sweep' = [sweep EXCEPT !.left = @ \ gone]
      PROVE  ExecTypeOK'
  <2> DEFINE s == [Idle EXCEPT !.pc = "reconcile", !.n = n, !.a = a]
  <2>1. s \in ProcRecord /\ s.pc = "reconcile" /\ s.n = n /\ s.a = a
    BY DEF Idle, ProcRecord, Places, Goals
  <2>2. proc' = [proc EXCEPT ![Sweeper] = s] /\ SweepShrinks
    BY <1>2 DEF SweepNext, SweepShrinks
  <2> HIDE DEF s
  <2>3. Placed(s, nodeRuns', attempts')
    BY <1>2, <2>1 DEF Placed, Grows
  <2>4. Moves(Sweeper)
    BY <2>1, <2>2, <2>3 DEF Moves
  <2> QED BY <1>0, <2>4, MoveKeeps
<1>3. /\ \A id : id \in Created(attempts) <=> id \in Attempts /\ attempts[id].status # "absent"
      /\ \A id : id \in Created(nodeRuns) <=> id \in NodeRuns /\ nodeRuns[id].status # "absent"
  BY CreatedFacts DEF Shapes
<1>4. ASSUME NEW batch \in SUBSET Attempts, SweepReclaim(batch) PROVE ExecTypeOK'
  <2>1. ReclaimExpiredAttempts(batch) /\ proc' = proc /\ sweep' = [phase |-> "reclaimed", left |-> batch]
    BY <1>4 DEF SweepReclaim
  <2>2. \A a \in batch : attempts'[a].status = "cancelled"
    BY <2>1, ReclaimEffect
  <2> QED BY <1>1, <2>1, <2>2
<1>5. ASSUME NEW a \in Attempts, SweepReclaimed(a) PROVE ExecTypeOK'
  <2>1. a \in sweep.left /\ sweep.phase = "reclaimed"
    BY <1>5 DEF SweepReclaimed, Sweeping
  <2>2. attempts[a].status # "absent"
    BY <1>3, <2>1 DEF ExecTypeOK
  <2>3. attempts[a].nodeRun \in NodeRuns /\ nodeRuns[attempts[a].nodeRun].status # "absent"
    BY <2>2 DEF Parents
  <2> QED BY <1>2, <1>5, <2>2, <2>3 DEF SweepReclaimed
<1>6. CASE SweepList
  <2> DEFINE listed == {n \in Created(nodeRuns) : runStatus[nodeRuns[n].run] = "running"}
  <2>1. proc' = proc /\ nodeRuns' = nodeRuns /\ sweep' = [phase |-> "replay", left |-> listed]
    BY <1>6 DEF SweepList
  <2>2. \A n \in listed : n \in NodeRuns /\ nodeRuns[n].status # "absent"
    BY <1>3
  <2> HIDE DEF listed
  <2> QED BY <1>1, <2>1, <2>2
<1>7. ASSUME NEW n \in NodeRuns, SweepReplay(n) PROVE ExecTypeOK'
  <2>1. n \in sweep.left /\ sweep.phase = "replay" /\ sweep' = [sweep EXCEPT !.left = @ \ {n}]
    BY <1>7 DEF SweepReplay, Sweeping
  <2>2. nodeRuns[n].status # "absent"
    BY <1>3, <2>1 DEF ExecTypeOK
  <2>3. ASSUME NEW a \in Replayable(n), SweepNext(n, a) PROVE ExecTypeOK'
    <3>1. a \in Attempts /\ attempts[a].status # "absent" /\ attempts[a].nodeRun = n
      BY <2>3, AttemptsOfFacts DEF Replayable
    <3> QED BY <1>2, <2>1, <2>2, <2>3, <3>1
  <2>4. CASE UNCHANGED proc
    <3>1. /\ sweep' = [phase |-> "replay", left |-> sweep.left \ {n}]
          /\ sweep.left \ {n} \in SUBSET (Attempts \union NodeRuns)
      BY <1>0, <2>1
    <3>2. \A m \in sweep.left \ {n} : m \in NodeRuns /\ nodeRuns'[m].status # "absent"
      BY <1>3, <2>1 DEF ExecTypeOK, Grows
    <3> QED BY <1>1, <2>4, <3>1, <3>2
  <2> QED BY <1>7, <2>3, <2>4 DEF SweepReplay
<1> QED BY <1>4, <1>5, <1>6, <1>7 DEF SweepStep

\* Every step of every process keeps them all placed.
LEMMA ExecStepKeeps ==
    ASSUME IInv, IInv', ExecTypeOK, [Next]_vars, [ExecNext]_execVars
    PROVE  ExecTypeOK'
<1>1. Shapes /\ Parents /\ Shapes' /\ Grows
  BY NextGrows DEF IInv
<1>2. Tasks \subseteq Procs
  BY DEF Procs
<1>3. ASSUME NEW p \in Procs, Moves(p) PROVE ExecTypeOK'
  BY <1>1, <1>3, MoveKeeps
<1>4. CASE UNCHANGED <<proc, sweep>>
  BY <1>1, <1>4, BystandersKeep
<1>5. CASE UNCHANGED execVars
  BY <1>4, <1>5 DEF execVars
<1>6. ASSUME NEW r \in Runs, AdmitRun(r) PROVE ExecTypeOK'
  BY <1>4, <1>6 DEF AdmitRun
<1>7. ASSUME NEW p \in Tasks, NEW r \in Runs, NEW node \in Nodes, NEW n \in NodeRuns,
             ExecuteNode(p, r, node, n)
      PROVE  ExecTypeOK'
  <2> DEFINE s == [Idle EXCEPT !.pc = "check", !.n = n]
  <2>1. nodeRuns'[n].status = "created" /\ Becomes(p, s)
    BY <1>1, <1>7, CreateNodeRunEffect DEF ExecuteNode
  <2> QED BY <1>2, <1>3, <2>1, CheckMoves
<1>8. ASSUME NEW p \in Tasks, NEW n \in NodeRuns, RetryNode(p, n) PROVE ExecTypeOK'
  <2> DEFINE s == [Idle EXCEPT !.pc = "check", !.n = n]
  <2>1. nodeRuns[n].status # "absent" /\ Becomes(p, s)
    BY <1>1, <1>8, CreatedFacts DEF RetryNode, Shapes, Created
  <2>2. nodeRuns'[n].status # "absent"
    BY <1>1, <2>1 DEF Grows
  <2> QED BY <1>2, <1>3, <2>1, <2>2, CheckMoves
<1>9. ASSUME NEW p \in Tasks, NEW r \in Runs, NEW node \in Nodes, NEW n \in NodeRuns,
             NEW a \in Attempts, ClaimRun(p, r, node, n, a)
      PROVE  ExecTypeOK'
  BY <1>1, <1>2, <1>3, <1>9, ClaimMoves
<1>10. ASSUME NEW p \in Tasks, CallStep(p) \/ CancelLaunch(p) PROVE ExecTypeOK'
  BY <1>1, <1>2, <1>3, <1>10, LaunchMoves, WorkMoves DEF CallStep
<1>11. ASSUME NEW p \in Tasks, Heartbeat(p) PROVE ExecTypeOK'
  BY <1>4, <1>11 DEF Heartbeat
<1>12. ASSUME NEW p \in Procs, ReconcileStep(p) \/ Crash(p) PROVE ExecTypeOK'
  BY <1>1, <1>3, <1>12, ReconcileMoves
<1>13. CASE SweepStep
  BY <1>1, <1>13, SweepKeeps
<1>14. ASSUME NEW r \in Runs, NEW target \in RunEnds, EndRun(r, target) PROVE ExecTypeOK'
  BY <1>4, <1>14 DEF EndRun
<1>15. CASE TimePasses
  BY <1>4, <1>15 DEF TimePasses
<1> QED BY <1>5, <1>6, <1>7, <1>8, <1>9, <1>10, <1>11, <1>12, <1>13, <1>14, <1>15 DEF ExecNext

\* Nobody has started.
LEMMA ExecInitType == ExecInit => ExecTypeOK
BY IdleIsPlaced DEF ExecInit, NoSweep, ExecTypeOK

------------------------------------------------------------------------------
\* The invariant of the spine and the placement of the processes carry each
\* other: the calls write only what the store allows because they stand on
\* records of the right shape, and those records stay because of the store.
THEOREM ExecInvariance == ExecSpec => [](IInv /\ ExecTypeOK)
<1>1. ExecInit => IInv /\ ExecTypeOK
  BY InitInvariant, ExecInitType DEF ExecInit
<1>2. IInv /\ ExecTypeOK /\ [ExecNext]_execVars => IInv' /\ ExecTypeOK'
  BY ExecStepImplements, NextKeeps, ExecStepKeeps
<1> QED BY <1>1, <1>2, PTL DEF ExecSpec

\* Every process holds records that exist and belong together, however many
\* calls there are and wherever they die.
THEOREM CallsHoldTheirRecords == ExecSpec => []ExecTypeOK
BY ExecInvariance, PTL

\* Whatever the calls and the tick do is a behaviour of the spine.
THEOREM ExecutionImplementsSpine == ExecSpec => Spec
<1>1. ExecInit => Init
  BY DEF ExecInit
<1> QED BY <1>1, ExecInvariance, ExecStepImplements, PTL DEF ExecSpec, Spec

\* So a Run that calls and recovery end leaves no open NodeRun behind.
THEOREM ExecutionSettlesEndedRuns == ExecSpec => []ClosedRunIsSettled
BY ExecutionImplementsSpine, RunsEndSettled, PTL

\* No call and no recovery publishes a success under a Run that has ended.
THEOREM ExecutionStartsNoLateWork == ExecSpec => NoWorkUnderClosedRun
BY ExecutionImplementsSpine, ClosedRunsGetNoWork, PTL

\* Recovery and the worker it overtook never both own an Attempt.
THEOREM ExecutionFencesLostLeases == ExecSpec => LapsedLeaseIsLost
BY ExecutionImplementsSpine, LapsedLeasesAreLost, PTL

------------------------------------------------------------------------------
(***************************************************************************)
(* What a process does in one step, as far as others rely on it.           *)
(***************************************************************************)
\* The places of a call before its Attempt is settled.
Working == {"prepare", "run", "node", "launch", "fence", "provider", "publish", "settle"}

\* The places after it.
Settling == {"accept", "reconcile", "write", "observe", "conclude"}

\* The process goes on with its NodeRun and its Attempt.
SameWork(p) == proc'[p].n = proc[p].n /\ proc'[p].a = proc[p].a

\* The disposition a process goes on to write.
GoalFits(p, goal) ==
    IF attempts[proc[p].a].status = "completed" THEN goal \in Dispositions \union {"completed"}
    ELSE goal \in {"waiting", "paused"} \/ (goal = "cancelled" /\ p # Sweeper)

Checked(p) ==
    /\ p \in Tasks /\ proc[p].pc = "check" /\ proc'[p].pc = "create" /\ proc'[p].n = proc[p].n
    /\ ~AwaitsAcceptance(proc[p].n)
    /\ UNCHANGED vars

Starts(p) ==
    /\ p \in Tasks /\ proc[p].pc = "create" /\ proc'[p].pc = "prepare" /\ proc'[p].n = proc[p].n
    /\ proc'[p].a \in Attempts /\ CreateAttempt(proc'[p].a, proc[p].n, LeaseKind)

Claims(p) ==
    /\ p \in Tasks /\ proc[p].pc = "idle" /\ proc'[p].pc = "launch"
    /\ \E r \in Runs, node \in Nodes, n \in NodeRuns, a \in Attempts :
            proc'[p].n = n /\ proc'[p].a = a /\ ClaimConsumerRun(r, node, n, a)

Works(p) == p \in Tasks /\ {proc[p].pc, proc'[p].pc} \subseteq Working /\ SameWork(p)

Settles(p) ==
    /\ p \in Tasks /\ proc[p].pc = "settle" /\ proc'[p].pc \in {"accept", "reconcile"} /\ SameWork(p)
    /\ attempts[proc[p].a].status \in ActiveAttemptStatus
    /\ attempts'[proc[p].a].status \in TerminalAttemptStatus
    /\ attempts'[proc[p].a].reclaimed = attempts[proc[p].a].reclaimed
    /\ proc'[p].pc = "accept" => attempts'[proc[p].a].status = "completed"

Decides(p) ==
    /\ proc[p].pc \in {"accept", "reconcile"} /\ proc'[p].pc = "write" /\ SameWork(p)
    /\ GoalFits(p, proc'[p].goal)
    /\ UNCHANGED vars

Turns(p) == proc[p].pc \in {"accept", "reconcile", "write"} /\ proc'[p].pc = "observe" /\ SameWork(p)

Observes(p) ==
    /\ proc[p].pc = "observe" /\ proc'[p].pc = "conclude" /\ SameWork(p)
    /\ proc'[p].goal # "none"
    /\ attempts[proc[p].a].status = "completed" => proc'[p].goal = Settlement(RunOf(p))
    /\ UNCHANGED vars

Recovers(p) ==
    /\ p = Sweeper /\ proc'[p].pc = "reconcile" /\ proc'[p].a \in Attempts
    /\ attempts[proc'[p].a].status \in {"cancelled", "completed"}
    /\ UNCHANGED vars

ProcStep(p) ==
    \/ proc'[p] = proc[p] \/ proc'[p] = Idle \/ (p \in Tasks /\ proc'[p].pc = "check")
    \/ Checked(p) \/ Starts(p) \/ Claims(p) \/ Works(p) \/ Settles(p)
    \/ Decides(p) \/ Turns(p) \/ Observes(p) \/ Recovers(p)

\* What every process is about to do goes with how its Attempt ended.
Planned(p, s, bodies) ==
    /\ s.pc \in Settling => bodies[s.a].status \in TerminalAttemptStatus
    /\ s.pc = "accept" => bodies[s.a].status = "completed"
    /\ s.pc = "write" =>
        IF bodies[s.a].status = "completed" THEN s.goal \in Dispositions \union {"completed"}
        ELSE s.goal \in {"waiting", "paused"} \/ (s.goal = "cancelled" /\ p # Sweeper)

PlansOK ==
    /\ \A p \in Procs : Planned(p, proc[p], attempts)
    /\ sweep.phase = "reclaimed" => \A a \in sweep.left : attempts[a].status = "cancelled"

Others(p) == \A q \in Procs \ {p} : proc'[q] = proc[q]

\* One process takes the given state, and no other moves.
LEMMA BecomesEffect ==
    ASSUME ExecTypeOK, NEW p \in Procs, NEW s, Becomes(p, s)
    PROVE  proc'[p] = s /\ Others(p) /\ sweep' = sweep
BY DEF ExecTypeOK, Becomes, Others

\* A process that goes on keeps its NodeRun and its Attempt.
LEMMA AimEffect ==
    ASSUME ExecTypeOK, NEW p \in Procs, NEW pc, NEW goal, Aim(p, pc, goal)
    PROVE  proc'[p].pc = pc /\ proc'[p].goal = goal /\ SameWork(p) /\ Others(p) /\ sweep' = sweep
<1>1. proc[p] \in ProcRecord
  BY DEF ExecTypeOK
<1>2. proc'[p] = [proc[p] EXCEPT !.pc = pc, !.goal = goal] /\ Others(p) /\ sweep' = sweep
  BY BecomesEffect DEF Aim
<1> QED
  BY <1>1, <1>2 DEF ProcRecord, SameWork

\* The same for one that keeps its goal.
LEMMA GoEffect ==
    ASSUME ExecTypeOK, NEW p \in Procs, NEW pc, Go(p, pc)
    PROVE  proc'[p].pc = pc /\ proc'[p].goal = proc[p].goal /\ SameWork(p) /\ Others(p) /\ sweep' = sweep
<1>1. proc[p] \in ProcRecord
  BY DEF ExecTypeOK
<1>2. proc'[p] = [proc[p] EXCEPT !.pc = pc] /\ Others(p) /\ sweep' = sweep
  BY BecomesEffect DEF Go
<1> QED
  BY <1>1, <1>2 DEF ProcRecord, SameWork

\* A process that ends is idle.
LEMMA EndEffect ==
    ASSUME ExecTypeOK, NEW p \in Procs, Finish(p) \/ Abort(p)
    PROVE  proc'[p] = Idle /\ Others(p) /\ (sweep' = sweep \/ sweep' = NoSweep)
BY DEF ExecTypeOK, Finish, Abort, Becomes, Others

\* One process moves, or none, and the sweep's own list only shrinks.
Step(p) == ProcStep(p) /\ Others(p) /\ SweepShrinks

\* So ending is one of the steps above.
LEMMA EndIsStep ==
    ASSUME ExecTypeOK, NEW p \in Procs, Finish(p) \/ Abort(p) PROVE Step(p)
BY EndEffect DEF Step, ProcStep, SweepShrinks

\* A call takes one of these steps.
LEMMA CallProcStep ==
    ASSUME IInv, ExecTypeOK, PlansOK, NEW p \in Tasks, CallStep(p) \/ CancelLaunch(p) \/ Heartbeat(p)
    PROVE  Step(p)
<1>0. p \in Procs /\ p # Sweeper /\ proc[p] \in ProcRecord
  BY CallAssumption DEF Procs, ExecTypeOK
<1>1. CASE RejectUnacceptedCompletion(p)
  <2>1. CASE Finish(p)
    BY <1>0, <2>1, EndIsStep
  <2>2. CASE Go(p, "create") /\ ~AwaitsAcceptance(proc[p].n)
    BY <1>0, <1>1, <2>2, GoEffect DEF RejectUnacceptedCompletion, Step, ProcStep, Checked, SameWork, SweepShrinks
  <2> QED
    BY <1>1, <2>1, <2>2 DEF RejectUnacceptedCompletion
<1>2. CASE StartAttempt(p)
  <2>1. CASE Finish(p)
    BY <1>0, <2>1, EndIsStep
  <2>2. ASSUME NEW a \in Attempts, CreateAttempt(a, proc[p].n, LeaseKind),
               Becomes(p, [proc[p] EXCEPT !.pc = "prepare", !.a = a])
        PROVE  Step(p)
    <3>1. proc'[p] = [proc[p] EXCEPT !.pc = "prepare", !.a = a] /\ Others(p) /\ sweep' = sweep
      BY <1>0, <2>2, BecomesEffect
    <3>2. proc'[p].pc = "prepare" /\ proc'[p].a = a /\ proc'[p].n = proc[p].n
      BY <1>0, <3>1 DEF ProcRecord
    <3> QED
      BY <1>2, <2>2, <3>1, <3>2 DEF StartAttempt, Step, ProcStep, Starts, SweepShrinks
  <2> QED
    BY <1>2, <2>1, <2>2 DEF StartAttempt
<1>3. ASSUME NEW s, s.pc \in Working, s.n = proc[p].n, s.a = proc[p].a, proc[p].pc \in Working, Becomes(p, s)
      PROVE  Step(p)
  BY <1>0, <1>3, BecomesEffect DEF Step, ProcStep, Works, SameWork, SweepShrinks
<1>4. ASSUME NEW pc \in Working, proc[p].pc \in Working, Go(p, pc) PROVE Step(p)
  BY <1>0, <1>4, GoEffect DEF Step, ProcStep, Works, SweepShrinks
<1>5. ASSUME NEW pc \in Working, NEW goal, proc[p].pc \in Working, Aim(p, pc, goal) PROVE Step(p)
  BY <1>0, <1>5, AimEffect DEF Step, ProcStep, Works, SweepShrinks
<1>6. CASE PrepareExecution(p)
  <2> DEFINE s == [proc[p] EXCEPT !.pc = "run", !.run = runStatus[RunOf(p)], !.node = nodeRuns[proc[p].n].status]
  <2>1. s.pc = "run" /\ s.n = proc[p].n /\ s.a = proc[p].a
    BY <1>0 DEF ProcRecord
  <2>2. proc[p].pc = "prepare" /\ (Finish(p) \/ Becomes(p, s))
    BY <1>6 DEF PrepareExecution
  <2> HIDE DEF s
  <2> QED
    BY <1>0, <1>3, <2>1, <2>2, EndIsStep DEF Working
<1>7. CASE EnsureRunRunning(p)
  <2> DEFINE s == [proc[p] EXCEPT !.run = Towards(proc[p].run)]
  <2>1. s.pc = proc[p].pc /\ s.n = proc[p].n /\ s.a = proc[p].a
    BY <1>0 DEF ProcRecord
  <2>2. proc[p].pc = "run" /\ (Finish(p) \/ Go(p, "node") \/ Becomes(p, s))
    BY <1>7 DEF EnsureRunRunning
  <2> HIDE DEF s
  <2> QED
    BY <1>0, <1>3, <1>4, <2>1, <2>2, EndIsStep DEF Working
<1>8. CASE EnsureNodeRunRunning(p)
  <2> DEFINE s == [proc[p] EXCEPT !.pc = "launch", !.run = "none", !.node = "none"]
             t == [proc[p] EXCEPT !.node = Towards(proc[p].node)]
  <2>1. s.pc = "launch" /\ s.n = proc[p].n /\ s.a = proc[p].a
    BY <1>0 DEF ProcRecord
  <2>2. t.pc = proc[p].pc /\ t.n = proc[p].n /\ t.a = proc[p].a
    BY <1>0 DEF ProcRecord
  <2>3. proc[p].pc = "node" /\ (Finish(p) \/ Becomes(p, s) \/ Becomes(p, t))
    BY <1>8 DEF EnsureNodeRunRunning
  <2> HIDE DEF s, t
  <2> QED
    BY <1>0, <1>3, <2>1, <2>2, <2>3, EndIsStep DEF Working
<1>9. CASE Launch(p) \/ FenceLaunch(p) \/ CancelLaunch(p) \/ SettleProviderSuccess(p)
           \/ \E end \in ProviderEnds : ProviderReturns(p, end)
  <2>1. /\ proc[p].pc \in Working
        /\ \/ Finish(p) \/ (\E pc \in Working : Go(p, pc)) \/ (\E pc \in Working : \E goal : Aim(p, pc, goal))
    BY <1>9 DEF Launch, FenceLaunch, CancelLaunch, SettleProviderSuccess, ProviderReturns, Working
  <2> QED
    BY <1>0, <1>4, <1>5, <2>1, EndIsStep
<1>10. CASE Heartbeat(p)
  BY <1>0, <1>10 DEF Heartbeat, Step, ProcStep, Others, SweepShrinks
<1>11. CASE TerminalizeIfOpen(p)
  <2> DEFINE a == proc[p].a
             target == SettledAs(a, proc[p].goal)
             result == IF proc[p].goal = "human" THEN "human" ELSE "none"
  <2>1. CASE Finish(p)
    BY <1>0, <2>1, EndIsStep
  <2>2. CASE TransitionAttempt(a, target, a, result)
             /\ Go(p, IF target = "completed" /\ Deferred THEN "accept" ELSE "reconcile")
    <3>1. proc[p].pc = "settle" /\ a \in Attempts /\ Shapes /\ Parents
      BY <1>0, <1>11, WorkedOn DEF TerminalizeIfOpen, IInv
    <3>2. result \in Result
      BY CallAssumption DEF Result
    <3>3. target \in AttemptStatus
      BY <2>2, <3>1, <3>2, TransitionsAreNext
    <3>4. attempts[a].status \in ActiveAttemptStatus /\ attempts'[a].status = target
      BY <2>2, <3>1, <3>2, <3>3, TransitionAttemptEffect
    <3>5. attempts'[a].reclaimed = attempts[a].reclaimed
      <4>1. attempts[a] \in AttemptRecord /\ attempts' = [attempts EXCEPT ![a].status = target, ![a].result = result]
        BY <2>2, <3>1 DEF TransitionAttempt, Shapes
      <4> HIDE DEF target, result
      <4> QED
        BY <3>1, <4>1 DEF AttemptRecord, Shapes
    <3>6. target \in TerminalAttemptStatus
      <4>1. target \in AttemptTransitions[attempts[a].status]
        BY <2>2 DEF TransitionAttempt, MayTransitionAttempt
      <4>2. CASE attempts[a].status = "created"
        BY <4>2 DEF SettledAs, TerminalAttemptStatus, AttemptStatus, ActiveAttemptStatus
      <4>3. CASE attempts[a].status = "running"
        <5>1. AttemptTransitions["running"] = TerminalAttemptStatus
          BY DEF AttemptTransitions, AttemptStatus
        <5> QED
          BY <4>1, <4>3, <5>1
      <4> QED
        BY <3>4, <4>2, <4>3 DEF ActiveAttemptStatus
    <3> HIDE DEF a, target, result
    <3>7. PICK pc \in {"accept", "reconcile"} : Go(p, pc) /\ (pc = "accept" => target = "completed")
      BY <2>2
    <3>8. /\ proc'[p].pc \in {"accept", "reconcile"} /\ SameWork(p) /\ Others(p) /\ sweep' = sweep
          /\ proc'[p].pc = "accept" => target = "completed"
      BY <1>0, <3>7, GoEffect
    <3> QED
      BY <3>1, <3>4, <3>5, <3>6, <3>8 DEF Step, ProcStep, Settles, SweepShrinks, a
  <2> QED
    BY <1>11, <2>1, <2>2 DEF TerminalizeIfOpen
<1>12. ASSUME NEW logical \in Dispositions, AcceptOutcome(p, logical) PROVE Step(p)
  <2>1. CASE Finish(p)
    BY <1>0, <2>1, EndIsStep
  <2>2. CASE Aim(p, "observe", "none")
    BY <1>0, <1>12, <2>2, AimEffect DEF AcceptOutcome, Step, ProcStep, Turns, SweepShrinks
  <2>3. CASE Aim(p, "write", logical)
    <3>1. attempts[proc[p].a].status = "completed"
      BY <1>0, <1>12 DEF AcceptOutcome, PlansOK, Planned
    <3> QED
      BY <1>0, <1>12, <2>3, <3>1, AimEffect DEF AcceptOutcome, Step, ProcStep, Decides, GoalFits, SweepShrinks
  <2> QED
    BY <1>12, <2>1, <2>2, <2>3 DEF AcceptOutcome
<1> QED
  BY <1>1, <1>2, <1>6, <1>7, <1>8, <1>9, <1>10, <1>11, <1>12 DEF CallStep

\* So does a reconciliation, and a process that dies.
LEMMA ReconcileProcStep ==
    ASSUME IInv, ExecTypeOK, PlansOK, NEW p \in Procs, ReconcileStep(p) \/ Crash(p)
    PROVE  Step(p)
<1> DEFINE status == attempts[proc[p].a].status
<1>1. ASSUME NEW goal, Aim(p, "write", goal), proc[p].pc = "reconcile", GoalFits(p, goal), UNCHANGED vars
      PROVE  Step(p)
  BY <1>1, AimEffect DEF Step, ProcStep, Decides, SweepShrinks
<1>2. ASSUME NEW goal, Aim(p, "observe", goal), proc[p].pc = "reconcile" PROVE Step(p)
  BY <1>2, AimEffect DEF Step, ProcStep, Turns, SweepShrinks
<1>3. CASE ReconcileCompleted(p)
  <2>1. GoalFits(p, "completed")
    BY <1>3 DEF ReconcileCompleted, GoalFits
  <2> QED
    BY <1>1, <1>2, <1>3, <2>1, EndIsStep DEF ReconcileCompleted
<1>4. CASE ReconcileRequested(p)
  <2>1. GoalFits(p, "cancelled")
    BY <1>4 DEF ReconcileRequested, GoalFits
  <2> QED
    BY <1>1, <1>4, <2>1, EndIsStep DEF ReconcileRequested
<1>5. CASE ReconcileParked(p)
  <2>1. GoalFits(p, ParkedAs(proc[p].a))
    BY <1>5 DEF ReconcileParked, GoalFits, ParkedAs
  <2>2. /\ proc[p].pc = "reconcile" /\ UNCHANGED vars
        /\ Finish(p) \/ Aim(p, "write", ParkedAs(proc[p].a)) \/ \E goal : Aim(p, "observe", goal)
    BY <1>5 DEF ReconcileParked
  <2> QED
    BY <1>1, <1>2, <2>1, <2>2, EndIsStep
<1>6. CASE WriteNodeRun(p)
  <2>1. proc[p].pc = "write" /\ (Finish(p) \/ Abort(p) \/ Go(p, "observe"))
    BY <1>6 DEF WriteNodeRun
  <2> QED
    BY <2>1, EndIsStep, GoEffect DEF Step, ProcStep, Turns, SweepShrinks
<1>7. CASE ObserveRun(p)
  <2> DEFINE target == IF status = "completed" THEN Settlement(RunOf(p))
                       ELSE IF HasActiveNodeRun(RunOf(p)) THEN "none"
                       ELSE proc[p].goal
  <2>1. /\ proc[p].pc = "observe" /\ UNCHANGED vars
        /\ Finish(p) \/ (target # "none" /\ Aim(p, "conclude", target))
    BY <1>7 DEF ObserveRun
  <2>2. status = "completed" => target = Settlement(RunOf(p))
    OBVIOUS
  <2> HIDE DEF target
  <2> QED
    BY <2>1, <2>2, EndIsStep, AimEffect DEF Step, ProcStep, Observes, SweepShrinks
<1>8. CASE ConcludeRun(p)
  BY <1>8, EndIsStep DEF ConcludeRun
<1>9. CASE Crash(p)
  BY <1>9, EndIsStep DEF Crash
<1> QED
  BY <1>3, <1>4, <1>5, <1>6, <1>7, <1>8, <1>9 DEF ReconcileStep

\* So does the tick.
LEMMA SweepProcStep ==
    ASSUME IInv, ExecTypeOK, PlansOK, SweepStep
    PROVE  \A p \in Procs : ProcStep(p)
<1>0. Sweeper \in Procs
  BY DEF Procs
<1>1. CASE proc' = proc
  BY <1>1 DEF ProcStep
<1>2. ASSUME NEW n, NEW a \in Attempts, attempts[a].status \in {"cancelled", "completed"},
             SweepNext(n, a), UNCHANGED vars
      PROVE  \A p \in Procs : ProcStep(p)
  <2> DEFINE s == [Idle EXCEPT !.pc = "reconcile", !.n = n, !.a = a]
  <2>1. s.pc = "reconcile" /\ s.a = a
    BY DEF Idle
  <2>2. proc' = [proc EXCEPT ![Sweeper] = s]
    BY <1>2 DEF SweepNext
  <2> HIDE DEF s
  <2>3. proc'[Sweeper] = s /\ \A q \in Procs \ {Sweeper} : proc'[q] = proc[q]
    BY <1>0, <2>2 DEF ExecTypeOK
  <2> QED
    BY <1>2, <2>1, <2>3 DEF ProcStep, Recovers
<1>3. ASSUME NEW a \in Attempts, SweepReclaimed(a) PROVE \A p \in Procs : ProcStep(p)
  <2>1. attempts[a].status = "cancelled"
    BY <1>3 DEF SweepReclaimed, Sweeping, PlansOK
  <2> QED
    BY <1>2, <1>3, <2>1 DEF SweepReclaimed
<1>4. ASSUME NEW n \in NodeRuns, SweepReplay(n) PROVE \A p \in Procs : ProcStep(p)
  <2>1. ASSUME NEW a \in Replayable(n) PROVE a \in Attempts /\ attempts[a].status = "completed"
    BY AttemptsOfFacts DEF Replayable, IInv
  <2> QED
    BY <1>1, <1>2, <1>4, <2>1 DEF SweepReplay
<1> QED
  BY <1>1, <1>3, <1>4 DEF SweepStep, SweepReclaim, SweepList

\* Every process takes one of these steps, or none.
LEMMA EveryProcStep ==
    ASSUME IInv, ExecTypeOK, PlansOK, [ExecNext]_execVars
    PROVE  \A p \in Procs : ProcStep(p)
<1>1. ASSUME NEW p \in Procs, Step(p) PROVE \A q \in Procs : ProcStep(q)
  BY <1>1 DEF Step, Others, ProcStep
<1>2. Tasks \subseteq Procs
  BY DEF Procs
<1>3. CASE proc' = proc
  BY <1>3 DEF ProcStep
<1>4. ASSUME NEW p \in Tasks, NEW n, Becomes(p, [Idle EXCEPT !.pc = "check", !.n = n])
      PROVE  \A q \in Procs : ProcStep(q)
  <2>1. [Idle EXCEPT !.pc = "check", !.n = n].pc = "check"
    BY DEF Idle
  <2>2. proc'[p] = [Idle EXCEPT !.pc = "check", !.n = n] /\ Others(p) /\ sweep' = sweep
    BY <1>2, <1>4, BecomesEffect
  <2> QED
    BY <1>1, <1>2, <2>1, <2>2 DEF Step, ProcStep, SweepShrinks
<1>5. ASSUME NEW p \in Tasks, NEW r \in Runs, NEW node \in Nodes, NEW n \in NodeRuns, NEW a \in Attempts,
             ClaimRun(p, r, node, n, a)
      PROVE  \A q \in Procs : ProcStep(q)
  <2> DEFINE s == [Idle EXCEPT !.pc = "launch", !.n = n, !.a = a]
  <2>1. s.pc = "launch" /\ s.n = n /\ s.a = a
    BY DEF Idle
  <2>2. proc'[p] = s /\ Others(p) /\ sweep' = sweep
    BY <1>2, <1>5, BecomesEffect DEF ClaimRun
  <2> HIDE DEF s
  <2>3. Claims(p)
    BY <1>5, <2>1, <2>2 DEF ClaimRun, Claims
  <2> QED
    BY <1>1, <1>2, <2>2, <2>3 DEF Step, ProcStep, SweepShrinks
<1> QED
  BY <1>1, <1>2, <1>3, <1>4, <1>5, CallProcStep, ReconcileProcStep, SweepProcStep
     DEF ExecNext, execVars, AdmitRun, ExecuteNode, RetryNode, EndRun, TimePasses

\* What every step of a call or the tick keeps, taken together.
LEMMA EndsStay ==
    ASSUME IInv, ExecTypeOK, [ExecNext]_execVars
    PROVE  /\ KeepsEnds /\ Grows /\ IInv' /\ ExecTypeOK'
<1>1. [Next]_vars
  BY ExecStepImplements
<1>2. [KeepsEnds]_vars /\ Grows /\ IInv'
  BY <1>1, NextKeepsEnds, NextGrows, NextKeeps
<1>3. UNCHANGED vars => KeepsEnds
  BY DEF vars, KeepsEnds
<1> QED
  BY <1>1, <1>2, <1>3, ExecStepKeeps

\* A plan goes on fitting the Attempt it was made for.
LEMMA PlannedStays ==
    ASSUME NEW p \in Procs, NEW s, Planned(p, s, attempts), KeepsEnds,
           s.pc \in Settling => s.a \in Attempts
    PROVE  Planned(p, s, attempts')
BY DEF Planned, Settling, KeepsEnds, TerminalAttemptStatus, AttemptStatus, ActiveAttemptStatus

\* No process is surprised in what it is about to do: a settled Attempt stays
\* as it is.
LEMMA StepKeepsPlans ==
    ASSUME IInv, ExecTypeOK, PlansOK, [ExecNext]_execVars
    PROVE  PlansOK'
<1>0. KeepsEnds /\ Grows /\ ExecTypeOK' /\ Shapes /\ Parents
  BY EndsStay DEF IInv
<1>1. ASSUME NEW p \in Procs PROVE Planned(p, proc'[p], attempts')
  <2>1. /\ proc[p] \in ProcRecord /\ Planned(p, proc[p], attempts)
        /\ proc[p].pc \notin {"idle", "check", "create"} =>
                proc[p].a \in Attempts /\ attempts[proc[p].a].status \in AttemptStatus
    BY <1>0, WorkedOn DEF ExecTypeOK, PlansOK
  <2>2. CASE proc'[p] = proc[p]
    BY <1>0, <2>1, <2>2, PlannedStays DEF Settling
  <2>3. CASE proc'[p] = Idle \/ proc'[p].pc \in {"check", "create"} \union Working \/ Claims(p)
    BY <2>3 DEF Planned, Settling, Idle, Working, Claims
  <2>4. CASE Settles(p)
    BY <2>4 DEF Planned, Settles, SameWork
  <2>5. CASE Decides(p)
    <3>1. attempts[proc[p].a].status \in TerminalAttemptStatus
      BY <2>1, <2>5 DEF Decides, Planned, Settling
    <3> QED
      BY <2>5, <3>1 DEF Decides, Planned, GoalFits, SameWork, vars
  <2>6. CASE Turns(p) \/ Observes(p)
    <3>1. /\ proc[p].pc \in Settling /\ proc'[p].pc \in {"observe", "conclude"} /\ proc'[p].a = proc[p].a
      BY <2>6 DEF Turns, Observes, SameWork, Settling
    <3>2. proc[p].a \in Attempts /\ attempts[proc[p].a].status \in TerminalAttemptStatus
      BY <2>1, <3>1 DEF Planned, Settling
    <3>3. attempts'[proc[p].a].status = attempts[proc[p].a].status
      BY <1>0, <3>2 DEF KeepsEnds
    <3> QED
      BY <3>1, <3>2, <3>3 DEF Planned
  <2>7. CASE Recovers(p)
    BY <2>7 DEF Recovers, Planned, vars, TerminalAttemptStatus, AttemptStatus, ActiveAttemptStatus
  <2>8. ProcStep(p)
    BY EveryProcStep
  <2> QED
    BY <2>2, <2>3, <2>4, <2>5, <2>6, <2>7, <2>8 DEF ProcStep, Checked, Starts, Works, Working
<1>2. sweep'.phase = "reclaimed" => \A a \in sweep'.left : attempts'[a].status = "cancelled"
  <2>0. sweep \in [phase : {"reclaimed", "replay"}, left : SUBSET (Attempts \union NodeRuns)]
    BY DEF ExecTypeOK
  <2>1. \A a \in sweep.left : sweep.phase = "reclaimed" => a \in Attempts /\ attempts'[a].status = "cancelled"
    <3>1. \A a \in sweep.left : sweep.phase = "reclaimed" => a \in Attempts
      BY <1>0, CreatedFacts DEF ExecTypeOK, Shapes
    <3> QED
      BY <1>0, <3>1 DEF PlansOK, Grows, TerminalAttemptStatus, AttemptStatus, ActiveAttemptStatus
  <2>2. CASE sweep' = sweep
    BY <2>1, <2>2
  <2>3. CASE \E gone : sweep' = [sweep EXCEPT !.left = @ \ gone]
    <3>1. sweep'.phase = sweep.phase /\ sweep'.left \subseteq sweep.left
      BY <2>0, <2>3
    <3> QED
      BY <2>1, <3>1
  <2>4. CASE sweep' = NoSweep \/ SweepList
    BY <2>4 DEF NoSweep, SweepList
  <2>5. ASSUME NEW batch \in SUBSET Attempts, SweepReclaim(batch)
        PROVE  sweep'.phase = "reclaimed" => \A a \in sweep'.left : attempts'[a].status = "cancelled"
    BY <1>0, <2>5, ReclaimEffect DEF SweepReclaim
  <2>6. CASE SweepStep
    BY <2>2, <2>3, <2>4, <2>5, <2>6 DEF SweepStep, SweepReclaimed, SweepReplay
  <2>7. Tasks \subseteq Procs
    BY DEF Procs
  <2>8. ASSUME NEW p \in Procs, CallStep(p) \/ CancelLaunch(p) \/ Heartbeat(p) \/ ReconcileStep(p) \/ Crash(p),
               p \in Tasks \/ ReconcileStep(p) \/ Crash(p)
        PROVE  SweepShrinks
    BY <2>8, CallProcStep, ReconcileProcStep DEF Step
  <2> QED
    BY <2>2, <2>3, <2>4, <2>6, <2>7, <2>8
       DEF ExecNext, execVars, AdmitRun, ExecuteNode, RetryNode, ClaimRun, Becomes, EndRun, TimePasses, SweepShrinks
<1> QED
  BY <1>1, <1>2 DEF PlansOK

------------------------------------------------------------------------------
(***************************************************************************)
(* What a step does to one Attempt, and who does it.                       *)
(***************************************************************************)
AttemptSame(a) ==
    /\ attempts'[a].status = attempts[a].status /\ attempts'[a].nodeRun = attempts[a].nodeRun
    /\ attempts'[a].reclaimed = attempts[a].reclaimed

AttemptBorn(a) ==
    LET n == attempts'[a].nodeRun IN
    /\ NextId(attempts, a)
    /\ attempts'[a].status \in ActiveAttemptStatus /\ attempts'[a].reclaimed = FALSE
    /\ n \in NodeRuns
    /\ \/ nodeRuns[n].status = "absent"
       \/ MayCreateAttempt(n) /\ \E p \in Tasks : proc[p].pc = "create" /\ proc[p].n = n

AttemptDriven(a) ==
    /\ \E p \in Tasks : /\ proc[p].pc \in {"launch", "settle"} /\ proc[p].a = a
                        /\ proc[p].pc = "launch" => attempts'[a].status = "running"
    /\ attempts[a].status \in ActiveAttemptStatus
    /\ attempts'[a].status \in AttemptStatus
    /\ attempts'[a].nodeRun = attempts[a].nodeRun /\ attempts'[a].reclaimed = attempts[a].reclaimed

AttemptLapsed(a) ==
    /\ attempts[a].status \in ActiveAttemptStatus
    /\ attempts'[a].status = "cancelled" /\ attempts'[a].nodeRun = attempts[a].nodeRun

AttemptStep(a) == AttemptSame(a) \/ AttemptBorn(a) \/ AttemptDriven(a) \/ AttemptLapsed(a)

\* Only the call at its launch or its settlement, recovery and new calls
\* write Attempts.
LEMMA EveryAttemptStep ==
    ASSUME IInv, ExecTypeOK, [ExecNext]_execVars
    PROVE  \A a \in Attempts : AttemptStep(a)
<1>0. Shapes /\ Parents /\ Tasks \subseteq Procs /\ \A a \in Attempts : attempts[a] \in AttemptRecord
  BY DEF IInv, Procs, Shapes
<1>1. CASE attempts' = attempts
  BY <1>1 DEF AttemptStep, AttemptSame
<1>2. ASSUME NEW p \in Tasks, NEW b \in Attempts, CreateAttempt(b, proc[p].n, LeaseKind), proc[p].pc = "create"
      PROVE  \A a \in Attempts : AttemptStep(a)
  <2>1. proc[p].n \in NodeRuns /\ LeaseKind \in {"none", "open", "ttl"}
    BY <1>0, <1>2, WorkedOn, CallAssumption
  <2>2. /\ attempts'[b].status = "created" /\ attempts'[b].nodeRun = proc[p].n
        /\ \A a \in Attempts : a # b => attempts'[a] = attempts[a]
    BY <1>0, <1>2, <2>1, CreateAttemptEffect DEF KeptAttempt
  <2>3. attempts'[b].reclaimed = FALSE
    BY <1>0, <1>2 DEF CreateAttempt, NewAttempt, Shapes
  <2>4. AttemptBorn(b)
    BY <1>2, <2>1, <2>2, <2>3 DEF AttemptBorn, CreateAttempt, ActiveAttemptStatus
  <2> QED
    BY <2>2, <2>4 DEF AttemptStep, AttemptSame
<1>3. ASSUME NEW p \in Tasks, NEW target, proc[p].pc = "settle" \/ (proc[p].pc = "launch" /\ target = "running"), NEW result \in Result,
             TransitionAttempt(proc[p].a, target, proc[p].a, result)
      PROVE  \A a \in Attempts : AttemptStep(a)
  <2> DEFINE b == proc[p].a
  <2>1. b \in Attempts
    BY <1>0, <1>3, WorkedOn
  <2>2. target \in AttemptStatus
    BY <1>0, <1>3, <2>1, TransitionsAreNext
  <2>3. /\ attempts[b].status \in ActiveAttemptStatus /\ attempts'[b].status = target
        /\ attempts'[b].nodeRun = attempts[b].nodeRun
        /\ \A a \in Attempts : a # b => attempts'[a] = attempts[a]
    BY <1>0, <1>3, <2>1, <2>2, TransitionAttemptEffect DEF KeptAttempt
  <2>4. attempts'[b].reclaimed = attempts[b].reclaimed
    <3>1. attempts' = [attempts EXCEPT ![b].status = target, ![b].result = result]
      BY <1>3 DEF TransitionAttempt
    <3> QED
      BY <1>0, <2>1, <3>1 DEF AttemptRecord, Shapes
  <2>5. AttemptDriven(b)
    BY <1>3, <2>2, <2>3, <2>4 DEF AttemptDriven
  <2> QED
    BY <2>3, <2>5 DEF AttemptStep, AttemptSame
<1>4. ASSUME NEW b \in Attempts, RenewLease(b, b) PROVE \A a \in Attempts : AttemptStep(a)
  <2>1. attempts' = [attempts EXCEPT ![b].lease = "ttl", ![b].left = Ttl]
    BY <1>4 DEF RenewLease
  <2>2. \A a \in Attempts : AttemptSame(a)
    BY <1>0, <2>1 DEF AttemptSame, AttemptRecord, Shapes
  <2> QED
    BY <2>2 DEF AttemptStep
<1>5. CASE Tick
  <2>1. attempts' = [a \in Attempts |-> IF attempts[a].left > 0
                                       THEN [attempts[a] EXCEPT !.left = @ - 1] ELSE attempts[a]]
    BY <1>5 DEF Tick
  <2>2. \A a \in Attempts : AttemptSame(a)
    BY <1>0, <2>1 DEF AttemptSame, AttemptRecord
  <2> QED
    BY <2>2 DEF AttemptStep
<1>6. ASSUME NEW batch \in SUBSET Attempts, ReclaimExpiredAttempts(batch) PROVE \A a \in Attempts : AttemptStep(a)
  <2>1. /\ \A a \in batch : AttemptLapsed(a)
        /\ \A a \in Attempts \ batch : attempts'[a] = attempts[a]
    BY <1>0, <1>6, ReclaimEffect DEF KeptAttempt, AttemptLapsed
  <2> QED
    BY <2>1 DEF AttemptStep, AttemptSame
<1>7. ASSUME NEW r \in Runs, NEW node \in Nodes, NEW n \in NodeRuns, NEW b \in Attempts,
             ClaimConsumerRun(r, node, n, b)
      PROVE  \A a \in Attempts : AttemptStep(a)
  <2>1. /\ attempts'[b].status = "running" /\ attempts'[b].nodeRun = n /\ nodeRuns[n].status = "absent"
        /\ \A a \in Attempts : a # b => attempts'[a] = attempts[a]
    BY <1>0, <1>7, ClaimEffect DEF KeptAttempt
  <2>2. attempts'[b].reclaimed = FALSE /\ NextId(attempts, b)
    BY <1>0, <1>7 DEF ClaimConsumerRun, NewAttempt, Shapes
  <2>3. AttemptBorn(b)
    BY <2>1, <2>2 DEF AttemptBorn, ActiveAttemptStatus
  <2> QED
    BY <2>1, <2>3 DEF AttemptStep, AttemptSame
<1>8. ASSUME NEW p \in Tasks, CallStep(p) \/ CancelLaunch(p) PROVE \A a \in Attempts : AttemptStep(a)
  <2>0. "none" \in Result /\ "human" \in Result
    BY CallAssumption DEF Result
  <2>1. CASE StartAttempt(p)
    BY <1>1, <1>2, <2>1 DEF StartAttempt, vars
  <2>2. CASE Launch(p)
    BY <1>1, <1>3, <2>0, <2>2 DEF Launch, vars
  <2>3. CASE TerminalizeIfOpen(p)
    <3>1. proc[p].pc = "settle" /\ (IF proc[p].goal = "human" THEN "human" ELSE "none") \in Result
      BY <2>0, <2>3 DEF TerminalizeIfOpen
    <3> QED
      BY <1>1, <1>3, <2>3, <3>1 DEF TerminalizeIfOpen, vars
  <2>4. CASE EnsureRunRunning(p) \/ EnsureNodeRunRunning(p)
    BY <1>1, <2>4 DEF EnsureRunRunning, EnsureNodeRunRunning, TransitionRun, TransitionNodeRun, vars
  <2> QED
    BY <1>1, <1>8, <2>1, <2>2, <2>3, <2>4
       DEF CallStep, RejectUnacceptedCompletion, PrepareExecution, FenceLaunch, CancelLaunch, ProviderReturns,
           SettleProviderSuccess, AcceptOutcome, vars
<1>9. ASSUME NEW p \in Tasks, Heartbeat(p) PROVE \A a \in Attempts : AttemptStep(a)
  <2>1. proc[p].a \in Attempts
    BY <1>0, <1>9, WorkedOn DEF Heartbeat
  <2> QED
    BY <1>4, <1>9, <2>1 DEF Heartbeat
<1>10. ASSUME NEW p, ReconcileStep(p) \/ Crash(p) PROVE attempts' = attempts
  BY <1>10 DEF ReconcileStep, ReconcileCompleted, ReconcileRequested, ReconcileParked, WriteNodeRun, ObserveRun,
                ConcludeRun, Crash, TransitionNodeRun, TransitionRun, vars
<1>11. CASE SweepStep
  BY <1>1, <1>6, <1>11 DEF SweepStep, SweepReclaim, SweepReclaimed, SweepList, SweepReplay, vars
<1> QED
  BY <1>1, <1>5, <1>7, <1>8, <1>9, <1>10, <1>11
     DEF ExecNext, execVars, AdmitRun, CreateRun, ExecuteNode, CreateNodeRun, RetryNode, ClaimRun, EndRun, TransitionRun,
         TimePasses, vars

------------------------------------------------------------------------------
(***************************************************************************)
(* What a step does to one NodeRun, and who does it.                       *)
(***************************************************************************)
\* Only its status and what it accepted have changed.
SameNodeRun(n) ==
    /\ nodeRuns'[n].run = nodeRuns[n].run /\ nodeRuns'[n].node = nodeRuns[n].node
    /\ nodeRuns'[n].cascaded = nodeRuns[n].cascaded

NodeBorn(n) ==
    /\ NextId(nodeRuns, n)
    /\ nodeRuns'[n].status \in {"created", "running"}
    /\ nodeRuns'[n].accepted = NoOutcome /\ nodeRuns'[n].cascaded = FALSE
    /\ \/ "claim" \in Kinds \/ Revisits
       \/ \A m \in NodeRunsOf(nodeRuns'[n].run) : nodeRuns[m].node # nodeRuns'[n].node

NodeReadied(n) ==
    /\ \E p \in Tasks : proc[p].pc = "node" /\ proc[p].n = n
    /\ nodeRuns[n].status \in OpenRunStatus /\ nodeRuns'[n].status \in {"queued", "running"}
    /\ nodeRuns'[n].accepted \in {nodeRuns[n].accepted, NoOutcome}
    /\ SameNodeRun(n) /\ UNCHANGED attempts

\* The write of a disposition: of a completion, or of an end that parks or
\* cancels the NodeRun.
NodeWrittenBy(p, n) ==
    /\ proc[p].pc = "write" /\ proc[p].n = n
    /\ nodeRuns[n].status \in OpenRunStatus /\ nodeRuns'[n].status = proc[p].goal
    /\ IF attempts[proc[p].a].status = "completed"
       THEN nodeRuns'[n].accepted = OutcomeOf(proc[p].a, proc[p].goal)
       ELSE \/ nodeRuns'[n].accepted = nodeRuns[n].accepted
            \/ nodeRuns'[n].accepted = NoOutcome /\ proc[p].goal \in SupersedingStatus
    /\ SameNodeRun(n) /\ UNCHANGED attempts

NodeCascaded(n) ==
    /\ nodeRuns[n].status \in OpenRunStatus /\ nodeRuns'[n].status = "cancelled"
    /\ nodeRuns'[n].cascaded
    /\ nodeRuns'[n].accepted \in {nodeRuns[n].accepted, NoOutcome}
    /\ nodeRuns'[n].run = nodeRuns[n].run /\ nodeRuns'[n].node = nodeRuns[n].node
    /\ UNCHANGED attempts

NodeRunStep(n) ==
    \/ nodeRuns'[n] = nodeRuns[n] \/ NodeBorn(n) \/ NodeReadied(n)
    \/ (\E p \in Procs : NodeWrittenBy(p, n)) \/ NodeCascaded(n)

\* The write of a Run cancels the NodeRuns that are open under it, or touches none.
LEMMA RunWriteMovesNodeRuns ==
    ASSUME Shapes, Parents, NEW r \in Runs, NEW target, TransitionRun(r, target)
    PROVE  \A n \in NodeRuns : NodeRunStep(n)
<1>1. target \in RunStatus
  BY TransitionsAreNext
<1>2. attempts' = attempts /\ (nodeRuns' = nodeRuns \/ nodeRuns' = SettledUnder(r))
  BY <1>1, TransitionRunEffect
<1>3. ASSUME NEW n \in NodeRuns, nodeRuns' = SettledUnder(r) PROVE NodeRunStep(n)
  <2>1. CASE nodeRuns[n].run = r /\ nodeRuns[n].status \in OpenRunStatus
    <3>1. NodeCascaded(n)
      BY <1>2, <1>3, <2>1, CascadeRecord DEF Shapes, NodeCascaded
    <3> QED
      BY <3>1 DEF NodeRunStep
  <2>2. CASE ~(nodeRuns[n].run = r /\ nodeRuns[n].status \in OpenRunStatus)
    BY <1>3, <2>2, CascadeRecord DEF Shapes, NodeRunStep
  <2> QED
    BY <2>1, <2>2
<1> QED
  BY <1>2, <1>3 DEF NodeRunStep

\* Only a call on its way to running, whoever writes a disposition, the end of
\* a Run and new calls write NodeRuns.
LEMMA EveryNodeRunStep ==
    ASSUME IInv, ExecTypeOK, [ExecNext]_execVars
    PROVE  \A n \in NodeRuns : NodeRunStep(n)
<1>0. Shapes /\ Parents /\ Tasks \subseteq Procs /\ \A n \in NodeRuns : nodeRuns[n] \in NodeRunRecord
  BY DEF IInv, Procs, Shapes
<1>1. CASE nodeRuns' = nodeRuns
  BY <1>1 DEF NodeRunStep
<1>2. ASSUME NEW r \in Runs, NEW target, TransitionRun(r, target) PROVE \A n \in NodeRuns : NodeRunStep(n)
  BY <1>0, <1>2, RunWriteMovesNodeRuns
<1>3. ASSUME NEW p \in Tasks, EnsureNodeRunRunning(p), nodeRuns' # nodeRuns
      PROVE  \A n \in NodeRuns : NodeRunStep(n)
  <2>1. proc[p].pc = "node" /\ TransitionNodeRun(proc[p].n, Towards(proc[p].node), NoOutcome)
    BY <1>3 DEF EnsureNodeRunRunning, vars
  <2>2. proc[p].n \in NodeRuns
    BY <1>0, <2>1, WorkedOn
  <2>3. PICK m \in NodeRuns : m = proc[p].n
    BY <2>2
  <2>4. PICK target \in {"queued", "running"} : target = Towards(proc[p].node)
    BY DEF Towards
  <2>5. target \in RunStatus
    BY <2>4 DEF RunStatus
  <2>6. /\ nodeRuns'[m] = MovedNodeRun(nodeRuns[m], target, NoOutcome)
        /\ nodeRuns[m].status \in OpenRunStatus
        /\ \A n \in NodeRuns : n # m => nodeRuns'[n] = nodeRuns[n]
        /\ attempts' = attempts
    BY <1>0, <2>1, <2>3, <2>4, <2>5, TransitionNodeRunEffect DEF Kept
  <2>7. NodeReadied(m)
    BY <1>0, <2>1, <2>3, <2>4, <2>5, <2>6, MovedRecord DEF NodeReadied, SameNodeRun
  <2> QED
    BY <2>6, <2>7 DEF NodeRunStep
<1>4. ASSUME NEW p \in Procs, WriteNodeRun(p), nodeRuns' # nodeRuns PROVE \A n \in NodeRuns : NodeRunStep(n)
  <2>1. PICK outcome : /\ outcome = (IF attempts[proc[p].a].status = "completed"
                                     THEN OutcomeOf(proc[p].a, proc[p].goal) ELSE NoOutcome)
    OBVIOUS
  <2>2. proc[p].pc = "write" /\ TransitionNodeRun(proc[p].n, proc[p].goal, outcome)
    BY <1>4, <2>1 DEF WriteNodeRun, vars
  <2>3. proc[p].n \in NodeRuns /\ proc[p].a \in Attempts /\ Placed(proc[p], nodeRuns, attempts)
    BY <1>0, <2>2, WorkedOn DEF ExecTypeOK
  <2>4. PICK m \in NodeRuns : m = proc[p].n
    BY <2>3
  <2>5. PICK goal : goal = proc[p].goal
    OBVIOUS
  <2>6. goal \in RunStatus
    <3>1. nodeRuns[m].status \in RunStatus /\ goal \in RunTransitions[nodeRuns[m].status]
      BY <2>2, <2>4, <2>5 DEF TransitionNodeRun, MayTransitionNodeRun
    <3> QED
      BY <3>1, RunTransitionFacts
  <2>7. outcome \in Outcomes \union {NoOutcome}
    <3>1. ASSUME attempts[proc[p].a].status = "completed" PROVE goal \in AcceptedStatus
      BY <2>2, <2>3, <2>5, <3>1 DEF Placed
    <3> QED
      BY <1>0, <2>1, <2>3, <2>5, <3>1, OutcomeType
  <2>8. /\ nodeRuns'[m] = MovedNodeRun(nodeRuns[m], goal, outcome)
        /\ nodeRuns[m].status \in OpenRunStatus
        /\ \A n \in NodeRuns : n # m => nodeRuns'[n] = nodeRuns[n]
        /\ attempts' = attempts
    BY <1>0, <2>2, <2>4, <2>5, <2>6, <2>7, TransitionNodeRunEffect DEF Kept
  <2>9. nodeRuns'[m].status = goal /\ SameNodeRun(m)
    BY <1>0, <2>6, <2>7, <2>8, MovedRecord DEF SameNodeRun
  <2>10. CASE attempts[proc[p].a].status = "completed"
    <3>1. outcome # NoOutcome
      BY <2>1, <2>3, <2>10, IdAssumption DEF OutcomeOf, NoOutcome
    <3>2. nodeRuns'[m].accepted = outcome
      BY <1>0, <2>6, <2>7, <2>8, <3>1, MovedRecord
    <3>3. NodeWrittenBy(p, m)
      BY <2>1, <2>2, <2>4, <2>5, <2>8, <2>9, <2>10, <3>2 DEF NodeWrittenBy
    <3> QED
      BY <2>8, <3>3 DEF NodeRunStep
  <2>11. CASE attempts[proc[p].a].status # "completed"
    <3>1. nodeRuns'[m].accepted = IF nodeRuns[m].status \in {"waiting", "paused"} /\ goal \in SupersedingStatus
                                  THEN NoOutcome ELSE nodeRuns[m].accepted
      BY <1>0, <2>1, <2>8, <2>11 DEF MovedNodeRun, NodeRunRecord
    <3>2. NodeWrittenBy(p, m)
      BY <2>2, <2>4, <2>5, <2>8, <2>9, <2>11, <3>1 DEF NodeWrittenBy
    <3> QED
      BY <2>8, <3>2 DEF NodeRunStep
  <2> QED
    BY <2>10, <2>11
<1>5. ASSUME NEW p \in Tasks, NEW r \in Runs, NEW node \in Nodes, NEW n \in NodeRuns, ExecuteNode(p, r, node, n)
      PROVE  \A m \in NodeRuns : NodeRunStep(m)
  <2>1. /\ nodeRuns'[n].status = "created" /\ nodeRuns'[n].accepted = NoOutcome
        /\ nodeRuns'[n].run = r /\ nodeRuns'[n].node = node
        /\ \A m \in NodeRuns : m # n => nodeRuns'[m] = nodeRuns[m]
    BY <1>0, <1>5, CreateNodeRunEffect DEF ExecuteNode, Kept
  <2>2. nodeRuns'[n].cascaded = FALSE /\ NextId(nodeRuns, n)
    BY <1>0, <1>5 DEF ExecuteNode, CreateNodeRun, NewNodeRun, Shapes
  <2>3. NodeBorn(n)
    BY <1>5, <2>1, <2>2 DEF ExecuteNode, NodeBorn
  <2> QED
    BY <2>1, <2>3 DEF NodeRunStep
<1>6. ASSUME NEW p \in Tasks, NEW r \in Runs, NEW node \in Nodes, NEW n \in NodeRuns, NEW a \in Attempts,
             ClaimRun(p, r, node, n, a)
      PROVE  \A m \in NodeRuns : NodeRunStep(m)
  <2>1. /\ nodeRuns'[n].status = "running" /\ nodeRuns'[n].accepted = NoOutcome
        /\ \A m \in NodeRuns : m # n => nodeRuns'[m] = nodeRuns[m]
    BY <1>0, <1>6, ClaimEffect DEF ClaimRun, Kept
  <2>2. nodeRuns'[n].cascaded = FALSE /\ NextId(nodeRuns, n)
    BY <1>0, <1>6 DEF ClaimRun, ClaimConsumerRun, NewNodeRun, Shapes
  <2>3. NodeBorn(n)
    BY <1>6, <2>1, <2>2 DEF ClaimRun, NodeBorn
  <2> QED
    BY <2>1, <2>3 DEF NodeRunStep
<1>7. ASSUME NEW p \in Tasks, CallStep(p) \/ CancelLaunch(p) \/ Heartbeat(p)
      PROVE  \A n \in NodeRuns : NodeRunStep(n)
  <2>1. CASE EnsureRunRunning(p)
    <3>1. RunOf(p) \in Runs
      BY <1>0, <2>1, WorkedOn DEF EnsureRunRunning
    <3> QED
      BY <1>1, <1>2, <2>1, <3>1 DEF EnsureRunRunning, vars
  <2>2. CASE StartAttempt(p) \/ Launch(p) \/ TerminalizeIfOpen(p) \/ Heartbeat(p)
    BY <1>1, <2>2 DEF StartAttempt, CreateAttempt, Launch, TerminalizeIfOpen, Heartbeat, TransitionAttempt, RenewLease, vars
  <2> QED
    BY <1>1, <1>3, <1>7, <2>1, <2>2
       DEF CallStep, RejectUnacceptedCompletion, PrepareExecution, FenceLaunch, CancelLaunch, ProviderReturns,
           SettleProviderSuccess, AcceptOutcome, vars
<1>8. ASSUME NEW p \in Procs, ReconcileStep(p) \/ Crash(p) PROVE \A n \in NodeRuns : NodeRunStep(n)
  <2>1. CASE ConcludeRun(p)
    <3>1. RunOf(p) \in Runs
      BY <1>0, <2>1, WorkedOn DEF ConcludeRun
    <3> QED
      BY <1>1, <1>2, <2>1, <3>1 DEF ConcludeRun, vars
  <2> QED
    BY <1>1, <1>4, <1>8, <2>1
       DEF ReconcileStep, ReconcileCompleted, ReconcileRequested, ReconcileParked, ObserveRun, Crash, vars
<1>9. CASE SweepStep
  BY <1>1, <1>9 DEF SweepStep, SweepReclaim, SweepReclaimed, SweepList, SweepReplay, ReclaimExpiredAttempts, vars
<1>10. ASSUME NEW r \in Runs, NEW target \in RunEnds, EndRun(r, target) PROVE \A n \in NodeRuns : NodeRunStep(n)
  BY <1>2, <1>10 DEF EndRun
<1> QED
  BY <1>1, <1>5, <1>6, <1>7, <1>8, <1>9, <1>10
     DEF ExecNext, execVars, AdmitRun, CreateRun, RetryNode, TimePasses, Tick, vars

------------------------------------------------------------------------------
\* AwaitsAcceptance, spelled out.
Unaccepted(n) ==
    /\ nodeRuns[n].accepted = NoOutcome
    /\ \E a \in Attempts : attempts[a].status = "completed" /\ attempts[a].nodeRun = n

\* The two say the same.
LEMMA AwaitsFacts ==
    ASSUME Shapes, NEW n PROVE AwaitsAcceptance(n) <=> Unaccepted(n)
BY AttemptsOfFacts DEF AwaitsAcceptance, Unaccepted

\* A call that may settle its Attempt next, or move its NodeRun on again, which
\* takes back what the NodeRun had accepted.
Disturbs(q, n) == proc[q].pc \in {"settle", "node"} /\ proc[q].n = n

------------------------------------------------------------------------------
\* What _reject_unaccepted_completion has seen is still so when the Attempt is
\* created, or the NodeRun has ended.
FreshFor(p) ==
    proc[p].pc = "create" =>
        ~Unaccepted(proc[p].n) \/ nodeRuns[proc[p].n].status \in TerminalRunStatus

FreshOK == \A p \in Tasks : FreshFor(p)

\* While a call is about to create its Attempt, nobody but such a call completes
\* another one of its NodeRun, or takes an acceptance back without ending it.
LEMMA NothingAwaits ==
    ASSUME IInv, ExecTypeOK, PlansOK, [ExecNext]_execVars, NEW n \in NodeRuns,
           \A q \in Tasks : ~Disturbs(q, n), nodeRuns[n].status # "absent",
           ~Unaccepted(n), nodeRuns'[n].status \notin TerminalRunStatus
    PROVE  ~Unaccepted(n)'
<1>0. Shapes /\ Shapes' /\ Parents /\ PlansOK' /\ Tasks \subseteq Procs
  BY EndsStay, StepKeepsPlans DEF IInv, Procs
<1>2. ASSUME NEW a \in Attempts, attempts'[a].status = "completed", attempts'[a].nodeRun = n
      PROVE  attempts[a].status = "completed" /\ attempts[a].nodeRun = n
  <2>1. AttemptStep(a)
    BY EveryAttemptStep
  <2>2. CASE AttemptSame(a)
    BY <1>2, <2>2 DEF AttemptSame
  <2>3. CASE AttemptBorn(a) \/ AttemptLapsed(a)
    BY <1>2, <2>3 DEF AttemptBorn, AttemptLapsed, ActiveAttemptStatus
  <2>4. CASE AttemptDriven(a)
    <3>1. PICK q \in Tasks : proc[q].pc = "settle" /\ proc[q].a = a
      BY <1>2, <2>4 DEF AttemptDriven
    <3>2. attempts[a].nodeRun = proc[q].n
      BY <1>0, <3>1 DEF ExecTypeOK, Placed
    <3>3. attempts[a].nodeRun # n
      BY <3>1, <3>2 DEF Disturbs
    <3> QED
      BY <1>2, <2>4, <3>3 DEF AttemptDriven
  <2> QED
    BY <2>1, <2>2, <2>3, <2>4 DEF AttemptStep
<1>3. ASSUME nodeRuns'[n].accepted = NoOutcome, nodeRuns[n].accepted # NoOutcome PROVE FALSE
  <2>1. NodeRunStep(n)
    BY EveryNodeRunStep
  <2>2. CASE nodeRuns'[n] = nodeRuns[n]
    BY <1>3, <2>2
  <2>3. CASE NodeBorn(n)
    BY <2>3 DEF NodeBorn, NextId
  <2>4. CASE NodeReadied(n)
    BY <2>4 DEF NodeReadied, Disturbs
  <2>5. ASSUME NEW q \in Procs, NodeWrittenBy(q, n) PROVE FALSE
    <3>1. Planned(q, proc[q], attempts) /\ proc[q].pc = "write"
      BY <2>5 DEF PlansOK, NodeWrittenBy
    <3>2. CASE attempts[proc[q].a].status = "completed"
      <4>1. proc[q].a \in Attempts
        BY <1>0, <3>1, WorkedOn
      <4>2. nodeRuns'[n].accepted = OutcomeOf(proc[q].a, proc[q].goal)
        BY <2>5, <3>2 DEF NodeWrittenBy
      <4> QED
        BY <1>3, <4>1, <4>2, IdAssumption DEF OutcomeOf, NoOutcome
    <3>3. CASE attempts[proc[q].a].status # "completed"
      <4>1. proc[q].goal \in SupersedingStatus /\ nodeRuns'[n].status = proc[q].goal
        BY <1>3, <2>5, <3>3 DEF NodeWrittenBy
      <4>2. proc[q].goal \in {"waiting", "paused", "cancelled"}
        BY <3>1, <3>3 DEF Planned
      <4> QED
        BY <4>1, <4>2 DEF SupersedingStatus, TerminalRunStatus
    <3> QED
      BY <3>2, <3>3
  <2>6. CASE NodeCascaded(n)
    BY <2>6 DEF NodeCascaded, TerminalRunStatus
  <2> QED
    BY <2>1, <2>2, <2>3, <2>4, <2>5, <2>6 DEF NodeRunStep
<1> QED
  BY <1>2, <1>3 DEF Unaccepted

\* So the check of _reject_unaccepted_completion keeps its worth, unless another
\* call disturbs it.
LEMMA StaysFresh ==
    ASSUME IInv, ExecTypeOK, PlansOK, [ExecNext]_execVars, NEW p \in Tasks, FreshFor(p),
           proc[p].pc = "create" => \A q \in Tasks : ~Disturbs(q, proc[p].n)
    PROVE  FreshFor(p)'
<1> SUFFICES ASSUME proc'[p].pc = "create"
             PROVE  ~Unaccepted(proc[p].n)' \/ nodeRuns'[proc'[p].n].status \in TerminalRunStatus
  BY DEF FreshFor
<1>0. p \in Procs /\ Shapes /\ Parents /\ KeepsEnds
  BY EndsStay DEF IInv, Procs
<1>1. \/ proc'[p] = proc[p]
      \/ Checked(p)
  <2>1. ProcStep(p)
    BY <1>0, EveryProcStep
  <2> QED
    BY <2>1 DEF ProcStep, Idle, Starts, Claims, Works, Working, Settles, Decides, Turns, Observes, Recovers
<1>2. CASE Checked(p)
  <2>1. ~Unaccepted(proc[p].n) /\ proc'[p].n = proc[p].n /\ UNCHANGED vars
    BY <1>0, <1>2, AwaitsFacts DEF Checked
  <2> QED
    BY <2>1 DEF Unaccepted, vars
<1>3. CASE proc'[p] = proc[p]
  <2>1. proc[p].n \in NodeRuns /\ nodeRuns[proc[p].n].status # "absent"
    BY <1>0, <1>3, WorkedOn DEF ExecTypeOK, Placed
  <2>2. PICK n \in NodeRuns : n = proc[p].n
    BY <2>1
  <2>3. CASE nodeRuns[n].status \in TerminalRunStatus
    BY <1>0, <1>3, <2>2, <2>3 DEF KeepsEnds
  <2>4. CASE ~Unaccepted(n)
    <3>1. ~Unaccepted(n)' \/ nodeRuns'[n].status \in TerminalRunStatus
      BY <1>3, <2>1, <2>2, <2>4, NothingAwaits
    <3> QED
      BY <1>3, <2>2, <3>1 DEF Unaccepted
  <2> QED
    BY <1>3, <2>2, <2>3, <2>4 DEF FreshFor
<1> QED
  BY <1>1, <1>2, <1>3

\* An Attempt is created only where nothing waits to be accepted.
LEMMA BornOnAccepted ==
    ASSUME IInv, ExecTypeOK, FreshOK, NEW a \in Attempts, AttemptBorn(a)
    PROVE  ~Unaccepted(attempts'[a].nodeRun)
<1>0. Shapes /\ Parents
  BY DEF IInv
<1>1. PICK n \in NodeRuns : n = attempts'[a].nodeRun
  BY DEF AttemptBorn
<1>2. CASE nodeRuns[n].status = "absent"
  BY <1>0, <1>1, <1>2 DEF Unaccepted, Parents
<1>3. CASE MayCreateAttempt(n) /\ \E p \in Tasks : proc[p].pc = "create" /\ proc[p].n = n
  BY <1>1, <1>3 DEF MayCreateAttempt, FreshOK, FreshFor, OpenRunStatus
<1> QED
  BY <1>1, <1>2, <1>3 DEF AttemptBorn

\* Nothing is planned and nothing has started.
LEMMA ExecInitPlans == ExecInit => PlansOK /\ FreshOK
BY DEF ExecInit, PlansOK, FreshOK, FreshFor, Planned, Settling, Idle, NoSweep, Procs

\* What a call's check has seen stays so until it creates its Attempt, whatever
\* the sweep, the ends of Runs and crashes do in between: only another call of
\* the same NodeRun spoils it, which settles its own Attempt or moves the
\* NodeRun on just then.
THEOREM OnlyCallsSpoilChecks ==
    ExecSpec => [][\A p \in Tasks : FreshFor(p) /\ ~FreshFor(p)' =>
                        /\ proc[p].pc = "create"
                        /\ \E q \in Tasks : Disturbs(q, proc[p].n)]_execVars
<1> DEFINE A == \A p \in Tasks : FreshFor(p) /\ ~FreshFor(p)' =>
                        /\ proc[p].pc = "create"
                        /\ \E q \in Tasks : Disturbs(q, proc[p].n)
<1>1. IInv /\ ExecTypeOK /\ PlansOK /\ [ExecNext]_execVars => A
  BY StaysFresh
<1>2. IInv /\ ExecTypeOK /\ PlansOK /\ [ExecNext]_execVars => PlansOK'
  BY StepKeepsPlans
<1>3. ExecInit => PlansOK
  BY ExecInitPlans
<1> QED
  BY <1>1, <1>2, <1>3, ExecInvariance, PTL DEF ExecSpec

\* The callers keep such a call away from one that has made its check.
ChecksHold ==
    \A p, q \in Tasks : proc[p].pc = "create" => ~Disturbs(q, proc[p].n)

\* No Attempt is started while a completed one of the same NodeRun has been
\* neither accepted nor superseded, as long as no call settles an Attempt of a
\* NodeRun, or moves the NodeRun on, between another one's check of it and the
\* Attempt that one creates.  (A settlement just then breaks it: the store
\* looks at active Attempts only.)
THEOREM CompletionsAreNotRedispatched ==
    ExecSpec /\ []ChecksHold => CompletionIsNeverRedispatched
<1>1. ExecInit => PlansOK /\ FreshOK
  BY ExecInitPlans
<1>2. IInv /\ ExecTypeOK /\ PlansOK /\ FreshOK /\ ChecksHold /\ [ExecNext]_execVars
      => PlansOK' /\ FreshOK'
  BY StepKeepsPlans, StaysFresh DEF FreshOK, ChecksHold
<1>3. IInv /\ ExecTypeOK /\ FreshOK /\ [ExecNext]_execVars => [RedispatchesNothing]_execVars
  <2> SUFFICES ASSUME IInv, ExecTypeOK, FreshOK, [ExecNext]_execVars,
                      NEW a \in Attempts, attempts[a].status = "absent", attempts'[a].status # "absent"
               PROVE  ~AwaitsAcceptance(attempts'[a].nodeRun)
    BY DEF RedispatchesNothing
  <2>1. AttemptStep(a)
    BY EveryAttemptStep
  <2>2. AttemptBorn(a)
    BY <2>1, StatusFacts DEF AttemptStep, AttemptSame, AttemptDriven, AttemptLapsed
  <2> QED
    BY <2>2, BornOnAccepted, AwaitsFacts DEF IInv
<1> QED
  BY <1>1, <1>2, <1>3, ExecInvariance, PTL DEF ExecSpec, CompletionIsNeverRedispatched

------------------------------------------------------------------------------
(***************************************************************************)
(* The Attempts of a NodeRun, in the order they were made: the one that    *)
(* may still run, or has completed, is the newest.                         *)
(***************************************************************************)
Exist(a) == attempts[a].status # "absent"

NewestAttempt(a) ==
    \A b \in Attempts : Exist(b) /\ attempts[b].nodeRun = attempts[a].nodeRun => b <= a

\* Ids are used in order.
NoGaps == \A a, b \in Attempts : Exist(a) /\ b < a => Exist(b)

LiveIsNewest ==
    \A a \in Attempts : attempts[a].status \in ActiveAttemptStatus \union {"completed"} => NewestAttempt(a)

\* Accepting a completion ends the NodeRun.
AcceptedEnds ==
    \A n \in NodeRuns : nodeRuns[n].accepted # NoOutcome => nodeRuns[n].status \in TerminalRunStatus

ReclaimedEnds == \A a \in Attempts : attempts[a].reclaimed => attempts[a].status = "cancelled"

\* Nothing runs under a NodeRun that a call has ended, and its newest Attempt
\* was not reclaimed.
Quiet(a) ==
    /\ attempts[a].status \in TerminalAttemptStatus
    /\ attempts[a].reclaimed => ~NewestAttempt(a)

EndedIsQuiet ==
    \A n \in NodeRuns : nodeRuns[n].status \in TerminalRunStatus /\ ~nodeRuns[n].cascaded =>
        \A a \in Attempts : Exist(a) /\ attempts[a].nodeRun = n => Quiet(a)

\* A call works on the newest Attempt, and writes no disposition of one that
\* was reclaimed.
OwnOK ==
    \A p \in Tasks :
        /\ proc[p].pc \in Working \union Settling => NewestAttempt(proc[p].a)
        /\ proc[p].pc \in {"accept", "reconcile", "write"} => ~attempts[proc[p].a].reclaimed

SerialOK ==
    /\ NoGaps
    /\ LiveIsNewest
    /\ AcceptedEnds
    /\ ReclaimedEnds
    /\ EndedIsQuiet
    /\ OwnOK

\* Everything the proof below carries along.
CallInv == IInv /\ ExecTypeOK /\ PlansOK /\ FreshOK /\ SerialOK

\* Whatever changes an Attempt, its parent stays, and so does an end.
LEMMA AttemptKeepsPlace ==
    ASSUME IInv, ExecTypeOK, [ExecNext]_execVars, NEW a \in Attempts, Exist(a)
    PROVE  /\ Exist(a)' /\ attempts'[a].nodeRun = attempts[a].nodeRun
           /\ AttemptSame(a) \/ AttemptDriven(a) \/ AttemptLapsed(a)
           /\ attempts[a].status \in TerminalAttemptStatus => AttemptSame(a)
<1>1. AttemptStep(a) /\ Grows
  BY EveryAttemptStep, EndsStay
<1>2. ~AttemptBorn(a)
  BY DEF AttemptBorn, NextId, Exist
<1> QED
  BY <1>1, <1>2, StatusFacts DEF AttemptStep, AttemptDriven, AttemptLapsed, Grows, Exist

\* An id is handed out once all smaller ones are, so a new Attempt is newer
\* than all others.
LEMMA BornIsNewest ==
    ASSUME NoGaps, NEW a \in Attempts, NEW b \in Attempts, NextId(attempts, a), Shapes, Exist(b)
    PROVE  b < a
BY IdAssumption DEF NoGaps, NextId, Exist, Shapes

\* Two Attempts are never born at once.
LEMMA OneIsBorn ==
    ASSUME Shapes, NEW a \in Attempts, NEW b \in Attempts, NextId(attempts, a), NextId(attempts, b)
    PROVE  a = b
BY IdAssumption DEF NextId, Shapes

\* Ids go on being used in order.
LEMMA StepKeepsGaps ==
    ASSUME IInv, ExecTypeOK, NoGaps, [ExecNext]_execVars
    PROVE  NoGaps'
<1> SUFFICES ASSUME NEW a \in Attempts, NEW b \in Attempts, Exist(a)', b < a PROVE Exist(b)'
  BY DEF NoGaps
<1>1. AttemptStep(a) /\ Grows /\ Shapes
  BY EveryAttemptStep, EndsStay DEF IInv
<1>2. Exist(b)
  BY <1>1, StatusFacts DEF AttemptStep, AttemptSame, AttemptBorn, AttemptDriven, AttemptLapsed, NextId, Exist, NoGaps, Shapes
<1> QED
  BY <1>1, <1>2 DEF Grows, Exist

\* What was the newest stays the newest until another one is born.
LEMMA NewestStays ==
    ASSUME IInv, ExecTypeOK, [ExecNext]_execVars, NEW a \in Attempts, Exist(a), NewestAttempt(a)
    PROVE  \/ NewestAttempt(a)'
           \/ \E b \in Attempts : AttemptBorn(b) /\ attempts'[b].nodeRun = attempts[a].nodeRun
<1> SUFFICES ASSUME NEW b \in Attempts, Exist(b)', attempts'[b].nodeRun = attempts'[a].nodeRun, ~(b <= a)
             PROVE  AttemptBorn(b) /\ attempts'[b].nodeRun = attempts[a].nodeRun
  BY DEF NewestAttempt
<1>1. attempts'[a].nodeRun = attempts[a].nodeRun
  BY AttemptKeepsPlace
<1>2. ~Exist(b)
  BY <1>1, AttemptKeepsPlace DEF NewestAttempt
<1>3. AttemptStep(b)
  BY EveryAttemptStep
<1> QED
  BY <1>1, <1>2, <1>3, StatusFacts DEF AttemptStep, AttemptSame, AttemptDriven, AttemptLapsed, Exist

\* Where an Attempt is born nothing runs and nothing has completed.
LEMMA BornAlone ==
    ASSUME CallInv, NEW a \in Attempts, AttemptBorn(a), NEW b \in Attempts, Exist(b),
           attempts[b].nodeRun = attempts'[a].nodeRun
    PROVE  attempts[b].status \notin ActiveAttemptStatus \union {"completed"}
<1>0. Shapes /\ Parents
  BY DEF CallInv, IInv
<1>1. PICK n \in NodeRuns : n = attempts'[a].nodeRun
  BY DEF AttemptBorn
<1>2. nodeRuns[n].status # "absent"
  BY <1>0, <1>1 DEF Parents, Exist
<1>3. MayCreateAttempt(n)
  BY <1>1, <1>2 DEF AttemptBorn
<1>4. attempts[b].status \notin ActiveAttemptStatus
  BY <1>0, <1>1, <1>3, AttemptsOfFacts DEF MayCreateAttempt, HasActiveAttempt, Exist
<1>5. nodeRuns[n].accepted = NoOutcome
  BY <1>3 DEF CallInv, SerialOK, AcceptedEnds, MayCreateAttempt, OpenRunStatus
<1>6. ~Unaccepted(n)
  BY <1>1, BornOnAccepted DEF CallInv
<1> QED
  BY <1>1, <1>4, <1>5, <1>6 DEF Unaccepted

\* A live or completed Attempt goes on being the newest.
LEMMA StepKeepsLive ==
    ASSUME CallInv, [ExecNext]_execVars
    PROVE  LiveIsNewest'
<1> SUFFICES ASSUME NEW a \in Attempts, attempts'[a].status \in ActiveAttemptStatus \union {"completed"}
             PROVE  NewestAttempt(a)'
  BY DEF LiveIsNewest
<1>0. IInv /\ ExecTypeOK /\ Shapes /\ NoGaps /\ LiveIsNewest /\ AttemptStep(a)
  BY EveryAttemptStep DEF CallInv, IInv, SerialOK
<1>1. CASE Exist(a)
  <2>1. attempts[a].status \in ActiveAttemptStatus \union {"completed"}
    BY <1>0, <1>1, AttemptKeepsPlace DEF AttemptSame, AttemptDriven, AttemptLapsed, ActiveAttemptStatus
  <2>2. NewestAttempt(a)
    BY <1>0, <2>1 DEF LiveIsNewest
  <2> QED
    BY <1>0, <1>1, <2>1, <2>2, NewestStays, BornAlone
<1>2. CASE ~Exist(a)
  <2>1. AttemptBorn(a)
    BY <1>0, <1>2, StatusFacts DEF AttemptStep, AttemptSame, AttemptDriven, AttemptLapsed, Exist, ActiveAttemptStatus
  <2>2. ASSUME NEW b \in Attempts, Exist(b)' PROVE b <= a
    <3>1. CASE Exist(b)
      BY <1>0, <2>1, <3>1, BornIsNewest, IdAssumption DEF AttemptBorn
    <3>2. CASE ~Exist(b)
      <4>1. AttemptBorn(b)
        BY <2>2, <3>2, EveryAttemptStep, <1>0, StatusFacts
           DEF AttemptStep, AttemptSame, AttemptDriven, AttemptLapsed, Exist
      <4>2. b = a
        BY <1>0, <2>1, <4>1, OneIsBorn DEF AttemptBorn
      <4> QED
        BY <4>2, IdAssumption
    <3> QED
      BY <3>1, <3>2
  <2> QED
    BY <2>2 DEF NewestAttempt
<1> QED
  BY <1>1, <1>2

\* An acceptance goes on being an end, if the domain never parks what it accepts.
LEMMA StepKeepsAcceptedEnds ==
    ASSUME Dispositions \subseteq {"completed", "failed"}, CallInv, [ExecNext]_execVars
    PROVE  AcceptedEnds'
<1> SUFFICES ASSUME NEW n \in NodeRuns, nodeRuns'[n].accepted # NoOutcome
             PROVE  nodeRuns'[n].status \in TerminalRunStatus
  BY DEF AcceptedEnds
<1>0. IInv /\ ExecTypeOK /\ PlansOK /\ NodeRunStep(n) /\ KeepsEnds
  BY EveryNodeRunStep, EndsStay DEF CallInv
<1>1. ASSUME nodeRuns[n].accepted # NoOutcome PROVE nodeRuns'[n].status \in TerminalRunStatus
  BY <1>0, <1>1 DEF CallInv, SerialOK, AcceptedEnds, KeepsEnds
<1>2. CASE nodeRuns'[n] = nodeRuns[n] \/ NodeBorn(n) \/ NodeReadied(n) \/ NodeCascaded(n)
  BY <1>1, <1>2 DEF NodeBorn, NodeReadied, NodeCascaded
<1>3. ASSUME NEW p \in Procs, NodeWrittenBy(p, n) PROVE nodeRuns'[n].status \in TerminalRunStatus
  <2>1. Planned(p, proc[p], attempts) /\ nodeRuns'[n].status = proc[p].goal
    BY <1>0, <1>3 DEF PlansOK, NodeWrittenBy
  <2>2. CASE attempts[proc[p].a].status = "completed"
    BY <1>3, <2>1, <2>2 DEF NodeWrittenBy, Planned, TerminalRunStatus
  <2>3. CASE attempts[proc[p].a].status # "completed"
    BY <1>1, <1>3, <2>3 DEF NodeWrittenBy
  <2> QED
    BY <2>2, <2>3
<1> QED
  BY <1>0, <1>2, <1>3 DEF NodeRunStep

\* Recovery reclaims only what it cancels.
LEMMA StepKeepsReclaimed ==
    ASSUME CallInv, [ExecNext]_execVars
    PROVE  ReclaimedEnds'
<1> SUFFICES ASSUME NEW a \in Attempts, attempts'[a].reclaimed PROVE attempts'[a].status = "cancelled"
  BY DEF ReclaimedEnds
<1>1. AttemptStep(a) /\ ReclaimedEnds
  BY EveryAttemptStep DEF CallInv, SerialOK
<1> QED
  BY <1>1 DEF AttemptStep, AttemptSame, AttemptBorn, AttemptDriven, AttemptLapsed, ReclaimedEnds, ActiveAttemptStatus

\* A call that ends a NodeRun leaves nothing running under it: the Attempt it
\* concludes from is the newest one and has ended.
LEMMA WrittenIsQuiet ==
    ASSUME IInv, ExecTypeOK, PlansOK, LiveIsNewest, ReclaimedEnds, OwnOK, NEW p \in Procs, NEW n \in NodeRuns, NodeWrittenBy(p, n),
           nodeRuns'[n].status \in TerminalRunStatus,
           NEW a \in Attempts, Exist(a), attempts[a].nodeRun = n
    PROVE  Quiet(a)
<1>0. ExecTypeOK /\ Shapes /\ Parents /\ PlansOK /\ LiveIsNewest /\ ReclaimedEnds /\ OwnOK
  BY DEF IInv
<1>1. /\ proc[p].pc = "write" /\ proc[p].n = n /\ Planned(p, proc[p], attempts)
      /\ nodeRuns'[n].status = proc[p].goal
  BY <1>0 DEF NodeWrittenBy, PlansOK
<1>2. /\ proc[p].a \in Attempts /\ Exist(proc[p].a) /\ attempts[proc[p].a].nodeRun = n
      /\ attempts[proc[p].a].status \in TerminalAttemptStatus
  BY <1>0, <1>1 DEF ExecTypeOK, Placed, Exist, Planned, Settling
<1>3. PICK b \in Attempts : b = proc[p].a
  BY <1>2
<1>4. NewestAttempt(b) /\ ~attempts[b].reclaimed
  <2>1. CASE attempts[b].status = "completed"
    BY <1>0, <2>1 DEF LiveIsNewest, ReclaimedEnds
  <2>2. CASE attempts[b].status # "completed"
    <3>1. proc[p].goal = "cancelled" /\ p # Sweeper
      BY <1>1, <1>3, <2>2 DEF Planned, TerminalRunStatus
    <3>2. p \in Tasks
      BY <3>1 DEF Procs
    <3> QED
      BY <1>0, <1>1, <1>3, <3>2 DEF OwnOK, Settling
  <2> QED
    BY <2>1, <2>2
<1>5. NewestAttempt(a) => a = b
  BY <1>2, <1>3, <1>4, IdAssumption DEF NewestAttempt
<1>6. attempts[a].status \in TerminalAttemptStatus
  <2>1. attempts[a].status \in AttemptStatus
    BY <1>0 DEF Shapes, AttemptRecord, Exist
  <2>2. attempts[a].status \in ActiveAttemptStatus => NewestAttempt(a)
    BY <1>0 DEF LiveIsNewest
  <2> QED
    BY <1>2, <1>3, <1>5, <2>1, <2>2 DEF TerminalAttemptStatus
<1> QED
  BY <1>4, <1>5, <1>6 DEF Quiet

\* Nothing happens any more to what is quiet.
LEMMA QuietStays ==
    ASSUME IInv, ExecTypeOK, [ExecNext]_execVars, NEW a \in Attempts, Exist(a), Quiet(a)
    PROVE  Quiet(a)'
<1>1. AttemptSame(a)
  BY AttemptKeepsPlace DEF Quiet
<1>2. ASSUME ~NewestAttempt(a) PROVE ~NewestAttempt(a)'
  <2>1. PICK b \in Attempts : Exist(b) /\ attempts[b].nodeRun = attempts[a].nodeRun /\ ~(b <= a)
    BY <1>2 DEF NewestAttempt
  <2>2. Exist(b)' /\ attempts'[b].nodeRun = attempts'[a].nodeRun
    BY <1>1, <2>1, AttemptKeepsPlace DEF AttemptSame
  <2> QED
    BY <2>1, <2>2 DEF NewestAttempt
<1> QED
  BY <1>1, <1>2 DEF Quiet, AttemptSame

\* What has been ended goes on being quiet.
LEMMA StepKeepsQuiet ==
    ASSUME CallInv, [ExecNext]_execVars
    PROVE  EndedIsQuiet'
<1> SUFFICES ASSUME NEW n \in NodeRuns, nodeRuns'[n].status \in TerminalRunStatus, ~nodeRuns'[n].cascaded,
                    NEW a \in Attempts, Exist(a)', attempts'[a].nodeRun = n
             PROVE  Quiet(a)'
  BY DEF EndedIsQuiet
<1>0. IInv /\ ExecTypeOK /\ Shapes /\ Parents /\ SerialOK /\ NodeRunStep(n) /\ AttemptStep(a) /\ KeepsEnds
  BY EveryNodeRunStep, EveryAttemptStep, EndsStay DEF CallInv, IInv
<1>1. CASE \E p \in Procs : NodeWrittenBy(p, n)
  <2>1. PICK p \in Procs : NodeWrittenBy(p, n)
    BY <1>1
  <2>2. attempts' = attempts
    BY <2>1 DEF NodeWrittenBy
  <2>3. Exist(a) /\ attempts[a].nodeRun = n
    BY <2>2 DEF Exist
  <2>4. Quiet(a)
    BY <1>0, <2>1, <2>3, WrittenIsQuiet DEF CallInv, SerialOK
  <2> QED
    BY <1>0, <2>3, <2>4, QuietStays
<1>2. CASE nodeRuns'[n] = nodeRuns[n]
  <2>1. Exist(a)
    <3>1. ~AttemptBorn(a)
      BY <1>2, StatusFacts DEF AttemptBorn, MayCreateAttempt
    <3> QED
      BY <1>0, <3>1, StatusFacts DEF AttemptStep, AttemptSame, AttemptDriven, AttemptLapsed, Exist
  <2>2. attempts[a].nodeRun = n
    BY <1>0, <2>1, AttemptKeepsPlace
  <2>3. Quiet(a)
    BY <1>0, <1>2, <2>1, <2>2 DEF SerialOK, EndedIsQuiet
  <2> QED
    BY <1>0, <2>1, <2>3, QuietStays
<1>3. CASE NodeBorn(n) \/ NodeReadied(n) \/ NodeCascaded(n)
  BY <1>3 DEF NodeBorn, NodeReadied, NodeCascaded, TerminalRunStatus
<1> QED
  BY <1>0, <1>1, <1>2, <1>3 DEF NodeRunStep

\* One call at a time on a NodeRun.  The callers see to that (a scheduled worker
\* holds the Run, a consumer tick has claimed it), the calls themselves do not:
\* it is a hypothesis here.
OneWalker ==
    \A p, q \in Tasks :
        proc[p].pc # "idle" /\ proc[q].pc # "idle" /\ proc[p].n = proc[q].n => p = q

\* A call keeps the newest Attempt: only itself could make a newer one.
LEMMA OwnStaysNewest ==
    ASSUME CallInv, OneWalker, [ExecNext]_execVars, NEW p \in Tasks, NEW a \in Attempts,
           proc[p].pc \in Working \union Settling, a = proc[p].a
    PROVE  NewestAttempt(a)'
<1>0. /\ IInv /\ ExecTypeOK /\ Shapes /\ Parents /\ SerialOK /\ p \in Procs
      /\ proc[p].pc \notin {"idle", "check", "create"}
  BY DEF CallInv, IInv, Procs, Working, Settling
<1>1. /\ Exist(a) /\ attempts[a].nodeRun = proc[p].n /\ nodeRuns[proc[p].n].status # "absent"
      /\ NewestAttempt(a)
  BY <1>0 DEF ExecTypeOK, Placed, Exist, SerialOK, OwnOK
<1>2. ASSUME NEW b \in Attempts, AttemptBorn(b), attempts'[b].nodeRun = attempts[a].nodeRun
      PROVE  FALSE
  <2>1. PICK q \in Tasks : proc[q].pc = "create" /\ proc[q].n = proc[p].n
    BY <1>1, <1>2 DEF AttemptBorn
  <2> QED
    BY <1>0, <2>1 DEF OneWalker
<1> QED
  BY <1>0, <1>1, <1>2, NewestStays

\* The Attempt just born is the newest.
LEMMA BornIsNewestNow ==
    ASSUME IInv, ExecTypeOK, NoGaps, [ExecNext]_execVars, NEW a \in Attempts, NextId(attempts, a), Exist(a)'
    PROVE  NewestAttempt(a)'
<1>0. Shapes
  BY DEF IInv
<1> SUFFICES ASSUME NEW b \in Attempts, Exist(b)' PROVE b <= a
  BY DEF NewestAttempt
<1>1. CASE Exist(b)
  BY <1>0, <1>1, BornIsNewest, IdAssumption
<1>2. CASE ~Exist(b)
  <2>1. AttemptBorn(b)
    BY <1>2, EveryAttemptStep, StatusFacts DEF AttemptStep, AttemptSame, AttemptDriven, AttemptLapsed, Exist
  <2>2. b = a
    BY <1>0, <2>1, OneIsBorn DEF AttemptBorn
  <2> QED
    BY <2>2, IdAssumption
<1> QED
  BY <1>1, <1>2

\* A call goes on owning the newest Attempt.
LEMMA StepKeepsOwn ==
    ASSUME CallInv, OneWalker, [ExecNext]_execVars
    PROVE  OwnOK'
<1> SUFFICES ASSUME NEW p \in Tasks, proc'[p].pc \in Working \union Settling
             PROVE  /\ NewestAttempt(proc[p].a)'
                    /\ proc'[p].pc \in {"accept", "reconcile", "write"} => ~attempts'[proc'[p].a].reclaimed
  BY DEF OwnOK, Settling
<1>0. /\ IInv /\ ExecTypeOK /\ Shapes /\ Parents /\ PlansOK /\ SerialOK /\ p \in Procs /\ p # Sweeper
      /\ ProcStep(p) /\ IInv' /\ ExecTypeOK'
  BY EveryProcStep, EndsStay, CallAssumption DEF CallInv, IInv, Procs
<1>1. PICK a \in Attempts : a = proc'[p].a /\ Exist(a)'
  BY <1>0 DEF ExecTypeOK, Placed, Exist, Working, Settling
<1>2. CASE Starts(p) \/ Claims(p)
  <2>1. NextId(attempts, a)
    BY <1>1, <1>2 DEF Starts, Claims, CreateAttempt, ClaimConsumerRun
  <2>2. NewestAttempt(a)'
    BY <1>0, <1>1, <2>1, BornIsNewestNow DEF SerialOK
  <2>3. proc'[p].pc \notin {"accept", "reconcile", "write"}
    BY <1>2 DEF Starts, Claims
  <2> QED
    BY <1>1, <2>2, <2>3 DEF NewestAttempt
<1>3. CASE proc'[p] = proc[p] \/ Works(p) \/ Settles(p) \/ Decides(p) \/ Turns(p) \/ Observes(p)
  <2>1. proc[p].pc \in Working \union Settling /\ proc[p].a = a
    BY <1>1, <1>3 DEF Works, Settles, Decides, Turns, Observes, SameWork, Working, Settling
  <2>2. NewestAttempt(a)'
    BY <2>1, OwnStaysNewest
  <2>3. ASSUME proc'[p].pc \in {"accept", "reconcile", "write"} PROVE ~attempts'[a].reclaimed
    <3>1. CASE Settles(p)
      BY <1>0, <2>1, <3>1 DEF Settles, SerialOK, ReclaimedEnds, ActiveAttemptStatus
    <3>2. CASE Works(p) \/ Turns(p) \/ Observes(p)
      BY <2>3, <3>2 DEF Works, Working, Turns, Observes
    <3>3. CASE Decides(p) \/ proc'[p] = proc[p]
      <4>1. proc[p].pc \in {"accept", "reconcile", "write"}
        BY <2>3, <3>3 DEF Decides
      <4>2. ~attempts[a].reclaimed /\ attempts[a].status \in TerminalAttemptStatus
        BY <1>0, <2>1, <4>1 DEF SerialOK, OwnOK, PlansOK, Planned, Settling
      <4>3. Exist(a)
        BY <4>2, StatusFacts DEF Exist
      <4> QED
        BY <1>0, <4>2, <4>3, AttemptKeepsPlace DEF AttemptSame
    <3> QED
      BY <1>3, <3>1, <3>2, <3>3
  <2> QED
    BY <1>1, <2>2, <2>3 DEF NewestAttempt
<1>4. ~(proc'[p] = Idle \/ proc'[p].pc = "check" \/ Checked(p) \/ Recovers(p))
  BY <1>0 DEF Idle, Checked, Recovers, Working, Settling
<1> QED
  BY <1>0, <1>2, <1>3, <1>4 DEF ProcStep

\* Every part of it is kept.
LEMMA StepKeepsSerial ==
    ASSUME Dispositions \subseteq {"completed", "failed"}, CallInv, OneWalker, [ExecNext]_execVars
    PROVE  SerialOK'
BY StepKeepsGaps, StepKeepsLive, StepKeepsAcceptedEnds, StepKeepsReclaimed, StepKeepsQuiet, StepKeepsOwn
   DEF CallInv, SerialOK

\* Nothing exists yet.
LEMMA ExecInitSerial == ExecInit => SerialOK
<1> SUFFICES ASSUME ExecInit PROVE SerialOK
  OBVIOUS
<1>1. /\ \A a \in Attempts : attempts[a] = AbsentAttempt
      /\ \A n \in NodeRuns : nodeRuns[n] = AbsentNodeRun
      /\ \A p \in Tasks : proc[p] = Idle
  BY DEF ExecInit, Init, Procs
<1> QED
  BY <1>1 DEF SerialOK, NoGaps, LiveIsNewest, AcceptedEnds, ReclaimedEnds, EndedIsQuiet, OwnOK, Exist,
              AbsentAttempt, AbsentNodeRun, Idle, Working, Settling, ActiveAttemptStatus, TerminalRunStatus

\* The invariant holds wherever one call at a time works on a NodeRun.
LEMMA SerialInvariance ==
    ASSUME Dispositions \subseteq {"completed", "failed"}
    PROVE  ExecSpec /\ []OneWalker => []CallInv
<1>1. ExecInit => CallInv
  BY InitInvariant, ExecInitType, ExecInitPlans, ExecInitSerial DEF ExecInit, CallInv
<1>2. CallInv /\ OneWalker /\ [ExecNext]_execVars => CallInv'
  <2> SUFFICES ASSUME CallInv, OneWalker, [ExecNext]_execVars PROVE CallInv'
    OBVIOUS
  <2>1. \A p, q \in Tasks : proc[p].pc = "create" => ~Disturbs(q, proc[p].n)
    BY DEF OneWalker, Disturbs
  <2>2. FreshOK'
    BY <2>1, StaysFresh DEF CallInv, FreshOK
  <2> QED
    BY <2>2, EndsStay, StepKeepsPlans, StepKeepsSerial DEF CallInv
<1> QED
  BY <1>1, <1>2, PTL DEF ExecSpec

\* A NodeRun whose newest Attempt was reclaimed stays open for its retry until
\* its Run ends: neither the worker that lost its lease nor the sweep concludes
\* it, where one call at a time works on a NodeRun and a domain accepts work as
\* completed or failed.
THEOREM ReclaimedWorkIsNotConcluded ==
    ASSUME Dispositions \subseteq {"completed", "failed"}
    PROVE  ExecSpec /\ []OneWalker => []ReclaimedWorkStaysOpen
<1>1. CallInv => ReclaimedWorkStaysOpen
  <2> SUFFICES ASSUME CallInv, NEW n \in Created(nodeRuns), nodeRuns[n].status \in TerminalRunStatus,
                      ~nodeRuns[n].cascaded, NEW a \in AttemptsOf(n), attempts[a].reclaimed
               PROVE  \E b \in AttemptsOf(n) : b > a
    BY DEF ReclaimedWorkStaysOpen
  <2>0. Shapes /\ SerialOK
    BY DEF CallInv, IInv
  <2>1. n \in NodeRuns /\ a \in Attempts /\ Exist(a) /\ attempts[a].nodeRun = n
    BY <2>0, CreatedFacts, AttemptsOfFacts DEF Shapes, Exist
  <2>2. ~NewestAttempt(a)
    BY <2>0, <2>1 DEF SerialOK, EndedIsQuiet, Quiet
  <2>3. PICK b \in Attempts : Exist(b) /\ attempts[b].nodeRun = n /\ ~(b <= a)
    BY <2>1, <2>2 DEF NewestAttempt
  <2>4. b \in AttemptsOf(n)
    BY <2>0, <2>3, AttemptsOfFacts DEF Exist
  <2>5. b > a
    BY <2>1, <2>3, IdAssumption
  <2> QED
    BY <2>4, <2>5
<1> QED
  BY <1>1, SerialInvariance, PTL

\* What a NodeRun accepts is the completion of its newest Attempt: recovery,
\* which replays completions nobody accepted, never brings back an older one.
THEOREM AcceptancesAreCurrent ==
    ASSUME Dispositions \subseteq {"completed", "failed"}
    PROVE  ExecSpec /\ []OneWalker => AcceptedAttemptIsCurrent
<1>1. CallInv /\ [ExecNext]_execVars => [AcceptsTheCurrent]_execVars
  <2> SUFFICES ASSUME CallInv, [ExecNext]_execVars, NEW n \in NodeRuns,
                      nodeRuns'[n].accepted.attempt \notin {0, nodeRuns[n].accepted.attempt},
                      NEW b \in AttemptsOf(n)
               PROVE  b <= nodeRuns'[n].accepted.attempt
    BY DEF AcceptsTheCurrent
  <2>0. IInv /\ ExecTypeOK /\ Shapes /\ Parents /\ SerialOK /\ NodeRunStep(n)
    BY EveryNodeRunStep DEF CallInv, IInv
  <2>1. PICK p \in Procs : NodeWrittenBy(p, n) /\ attempts[proc[p].a].status = "completed"
    BY <2>0 DEF NodeRunStep, NodeBorn, NodeReadied, NodeWrittenBy, NodeCascaded, NoOutcome
  <2>2. proc[p].a \in Attempts /\ attempts[proc[p].a].nodeRun = n
    BY <2>0, <2>1 DEF NodeWrittenBy, ExecTypeOK, Placed
  <2>3. PICK a \in Attempts : a = proc[p].a
    BY <2>2
  <2>4. NewestAttempt(a)
    BY <2>0, <2>1, <2>3 DEF SerialOK, LiveIsNewest
  <2>5. b \in Attempts /\ Exist(b) /\ attempts[b].nodeRun = n
    BY <2>0, AttemptsOfFacts DEF Exist
  <2>6. nodeRuns'[n].accepted.attempt = a
    BY <2>1, <2>3 DEF NodeWrittenBy, OutcomeOf
  <2> QED
    BY <2>2, <2>3, <2>4, <2>5, <2>6 DEF NewestAttempt
<1> QED
  BY <1>1, SerialInvariance, PTL DEF CallInv, ExecSpec, AcceptedAttemptIsCurrent

------------------------------------------------------------------------------
(***************************************************************************)
(* The settlement of a Run, on a Graph whose nodes are executed once each. *)
(***************************************************************************)
NodesOnce ==
    \A n, m \in NodeRuns :
        /\ nodeRuns[n].status # "absent" /\ nodeRuns[m].status # "absent"
        /\ nodeRuns[n].run = nodeRuns[m].run /\ nodeRuns[n].node = nodeRuns[m].node
        => n = m

\* Every node of the Graph has its NodeRun, and all of them have ended.
AllEnded(r) ==
    /\ \A n \in NodeRuns : nodeRuns[n].status # "absent" /\ nodeRuns[n].run = r =>
            nodeRuns[n].status \in TerminalRunStatus
    /\ \A node \in GraphOf[r] : \E n \in NodeRuns :
            nodeRuns[n].status # "absent" /\ nodeRuns[n].run = r /\ nodeRuns[n].node = node

\* What _settle_run_if_fully_observed has seen stays so until the Run is settled.
ObservedOK ==
    \A p \in Procs : proc[p].pc = "conclude" /\ attempts[proc[p].a].status = "completed" =>
        AllEnded(nodeRuns[proc[p].n].run)

\* The NodeRuns of a Run, spelled out.
LEMMA NodeRunsOfFacts ==
    ASSUME Shapes, NEW r
    PROVE  \A n : n \in NodeRunsOf(r) <=>
                n \in NodeRuns /\ nodeRuns[n].status # "absent" /\ nodeRuns[n].run = r
BY CreatedFacts DEF NodeRunsOf, Shapes

\* A settlement is derived only when every node has been visited and has ended.
LEMMA SettlementObserves ==
    ASSUME Shapes, NodesOnce, NEW r, Settlement(r) # "none"
    PROVE  AllEnded(r)
<1>1. GraphOf[r] \subseteq {nodeRuns[n].node : n \in NodeRunsOf(r)}
  BY DEF Settlement
<1>2. {nodeRuns[n].status : n \in LatestNodeRuns(r)} \subseteq TerminalRunStatus
  BY <1>1 DEF Settlement, DeriveRunTerminalStatus
<1>3. ASSUME NEW n \in NodeRuns, nodeRuns[n].status # "absent", nodeRuns[n].run = r
      PROVE  nodeRuns[n].status \in TerminalRunStatus
  <2>1. ASSUME NEW m \in NodeRuns, nodeRuns[m].status # "absent", nodeRuns[m].run = r,
               nodeRuns[m].node = nodeRuns[n].node
        PROVE  m <= n
    <3>1. m = n
      BY <1>3, <2>1 DEF NodesOnce
    <3> QED
      BY <3>1, IdAssumption
  <2>2. n \in LatestNodeRuns(r)
    BY <1>3, <2>1, LatestFacts
  <2> QED
    BY <1>2, <2>2
<1>4. ASSUME NEW node \in GraphOf[r]
      PROVE  \E n \in NodeRuns : nodeRuns[n].status # "absent" /\ nodeRuns[n].run = r /\ nodeRuns[n].node = node
  BY <1>1, NodeRunsOfFacts
<1> QED
  BY <1>3, <1>4 DEF AllEnded

\* A NodeRun keeps its place, and a new one visits a node for the first time.
LEMMA NodeRunKeepsPlace ==
    ASSUME Revisits = FALSE, "claim" \notin Kinds, IInv, ExecTypeOK, [ExecNext]_execVars, NEW n \in NodeRuns
    PROVE  /\ nodeRuns[n].status # "absent" =>
                /\ nodeRuns'[n].status # "absent"
                /\ nodeRuns'[n].run = nodeRuns[n].run /\ nodeRuns'[n].node = nodeRuns[n].node
           /\ nodeRuns[n].status = "absent" /\ nodeRuns'[n].status # "absent" =>
                /\ NextId(nodeRuns, n)
                /\ \A m \in NodeRuns : nodeRuns[m].status # "absent" /\ nodeRuns[m].run = nodeRuns'[n].run =>
                        nodeRuns[m].node # nodeRuns'[n].node
<1>0. NodeRunStep(n) /\ Grows /\ Shapes /\ OpenRunStatus \subseteq RunStatus /\ "absent" \notin RunStatus
  BY EveryNodeRunStep, EndsStay, StatusFacts DEF IInv
<1>1. CASE nodeRuns'[n] = nodeRuns[n]
  BY <1>1
<1>2. CASE NodeBorn(n)
  <2>1. nodeRuns[n].status = "absent" /\ NextId(nodeRuns, n)
    BY <1>2 DEF NodeBorn, NextId
  <2>2. \A m \in NodeRunsOf(nodeRuns'[n].run) : nodeRuns[m].node # nodeRuns'[n].node
    BY <1>2 DEF NodeBorn
  <2> QED
    BY <1>0, <2>1, <2>2, NodeRunsOfFacts
<1>3. CASE NodeReadied(n) \/ NodeCascaded(n) \/ \E p \in Procs : NodeWrittenBy(p, n)
  <2>1. nodeRuns[n].status # "absent" /\ nodeRuns'[n].run = nodeRuns[n].run /\ nodeRuns'[n].node = nodeRuns[n].node
    BY <1>0, <1>3 DEF NodeReadied, NodeCascaded, NodeWrittenBy, SameNodeRun
  <2> QED
    BY <1>0, <2>1 DEF Grows
<1> QED
  BY <1>0, <1>1, <1>2, <1>3 DEF NodeRunStep

\* So no node gets a second NodeRun.
LEMMA StepKeepsNodesOnce ==
    ASSUME Revisits = FALSE, "claim" \notin Kinds, IInv, ExecTypeOK, NodesOnce, [ExecNext]_execVars
    PROVE  NodesOnce'
<1> SUFFICES ASSUME NEW n \in NodeRuns, NEW m \in NodeRuns,
                    nodeRuns'[n].status # "absent", nodeRuns'[m].status # "absent",
                    nodeRuns'[n].run = nodeRuns'[m].run, nodeRuns'[n].node = nodeRuns'[m].node
             PROVE  n = m
  BY DEF NodesOnce
<1>1. CASE nodeRuns[n].status # "absent" /\ nodeRuns[m].status # "absent"
  BY <1>1, NodeRunKeepsPlace DEF NodesOnce
<1>2. CASE nodeRuns[n].status = "absent" /\ nodeRuns[m].status = "absent"
  <2>1. NextId(nodeRuns, n) /\ NextId(nodeRuns, m) /\ Shapes
    BY <1>2, NodeRunKeepsPlace DEF IInv
  <2> QED
    BY <2>1, IdAssumption DEF NextId, Shapes
<1>3. CASE nodeRuns[n].status = "absent" /\ nodeRuns[m].status # "absent"
  BY <1>3, NodeRunKeepsPlace
<1>4. CASE nodeRuns[n].status # "absent" /\ nodeRuns[m].status = "absent"
  BY <1>4, NodeRunKeepsPlace
<1> QED
  BY <1>1, <1>2, <1>3, <1>4

\* A Run whose nodes have all ended gets no other NodeRun.
LEMMA StepKeepsAllEnded ==
    ASSUME Revisits = FALSE, "claim" \notin Kinds, IInv, ExecTypeOK, [ExecNext]_execVars,
           NEW r \in Runs, AllEnded(r)
    PROVE  AllEnded(r)'
<1>0. Parents' /\ Shapes' /\ KeepsEnds
  BY EndsStay DEF IInv
<1>1. ASSUME NEW node \in GraphOf[r]
      PROVE  \E n \in NodeRuns : nodeRuns'[n].status # "absent" /\ nodeRuns'[n].run = r /\ nodeRuns'[n].node = node
  <2>1. PICK n \in NodeRuns : nodeRuns[n].status # "absent" /\ nodeRuns[n].run = r /\ nodeRuns[n].node = node
    BY DEF AllEnded
  <2> QED
    BY <2>1, NodeRunKeepsPlace
<1>2. ASSUME NEW n \in NodeRuns, nodeRuns'[n].status # "absent", nodeRuns'[n].run = r
      PROVE  nodeRuns'[n].status \in TerminalRunStatus
  <2>1. CASE nodeRuns[n].status # "absent"
    BY <1>0, <1>2, <2>1, NodeRunKeepsPlace DEF AllEnded, KeepsEnds
  <2>2. CASE nodeRuns[n].status = "absent"
    <3>1. nodeRuns'[n].node \in GraphOf[r]
      BY <1>0, <1>2 DEF Parents
    <3>2. PICK m \in NodeRuns : /\ nodeRuns[m].status # "absent" /\ nodeRuns[m].run = r
                                /\ nodeRuns[m].node = nodeRuns'[n].node
      BY <3>1 DEF AllEnded
    <3> QED
      BY <1>2, <2>2, <3>2, NodeRunKeepsPlace
  <2> QED
    BY <2>1, <2>2
<1> QED
  BY <1>1, <1>2 DEF AllEnded

\* What was observed before a settlement still holds at its write.
LEMMA StepKeepsObserved ==
    ASSUME Revisits = FALSE, "claim" \notin Kinds, IInv, ExecTypeOK, PlansOK, NodesOnce, ObservedOK,
           [ExecNext]_execVars
    PROVE  ObservedOK'
<1> SUFFICES ASSUME NEW p \in Procs, proc'[p].pc = "conclude", attempts'[proc'[p].a].status = "completed"
             PROVE  AllEnded(nodeRuns[proc[p].n].run)'
  BY DEF ObservedOK
<1>0. Shapes /\ Parents /\ KeepsEnds /\ Grows /\ ProcStep(p)
  BY EveryProcStep, EndsStay DEF IInv
<1>1. proc'[p] = proc[p] \/ Observes(p)
  BY <1>0 DEF ProcStep, Idle, Checked, Starts, Claims, Works, Working, Settles, Decides, Turns, Recovers
<1>2. proc[p].pc \in {"observe", "conclude"} /\ proc'[p].n = proc[p].n /\ proc'[p].a = proc[p].a
  BY <1>1 DEF Observes, SameWork
<1>3. /\ proc[p].n \in NodeRuns /\ nodeRuns[proc[p].n].status \in RunStatus /\ nodeRuns[proc[p].n].run \in Runs
      /\ proc[p].a \in Attempts /\ attempts[proc[p].a].status \in TerminalAttemptStatus
  BY <1>0, <1>2, WorkedOn DEF RunOf, PlansOK, Planned, Settling
<1>4. attempts[proc[p].a].status = "completed"
  BY <1>0, <1>2, <1>3 DEF KeepsEnds
<1>5. PICK r \in Runs : r = nodeRuns[proc[p].n].run
  BY <1>3
<1>6. nodeRuns'[proc'[p].n].run = r
  BY <1>0, <1>2, <1>3, <1>5, StatusFacts DEF Grows
<1>7. AllEnded(r)
  <2>1. CASE proc'[p] = proc[p]
    BY <1>4, <1>5, <2>1 DEF ObservedOK
  <2>2. CASE Observes(p)
    <3>1. Settlement(r) # "none"
      BY <1>4, <1>5, <2>2 DEF Observes, RunOf
    <3> QED
      BY <1>0, <3>1, SettlementObserves
  <2> QED
    BY <1>1, <2>1, <2>2
<1>8. AllEnded(r)'
  BY <1>7, StepKeepsAllEnded
<1> QED
  BY <1>6, <1>8 DEF AllEnded

\* Only the process itself leaves the place where it writes the end of its Run.
LEMMA OnlyItselfConcludes ==
    ASSUME ExecTypeOK, [ExecNext]_execVars, NEW p \in Procs, proc[p].pc = "conclude", proc'[p] # proc[p]
    PROVE  ConcludeRun(p) \/ nodeRuns' = nodeRuns
<1>0. Tasks \subseteq Procs
  BY DEF Procs
<1>1. ASSUME NEW q \in Procs, q # p, NEW s, Becomes(q, s) PROVE FALSE
  BY <1>1, BecomesEffect DEF Others
<1>2. ASSUME NEW q \in Procs, q # p, Finish(q) \/ Abort(q) PROVE FALSE
  BY <1>2, EndEffect DEF Others
<1>3. ASSUME NEW q \in Tasks, NEW r, NEW node, NEW n, ExecuteNode(q, r, node, n) PROVE FALSE
  BY <1>0, <1>1, <1>3 DEF ExecuteNode
<1>4. ASSUME NEW q \in Tasks, NEW r, NEW node, NEW n, NEW a, ClaimRun(q, r, node, n, a) PROVE FALSE
  BY <1>0, <1>1, <1>4 DEF ClaimRun
<1>5. ASSUME NEW q \in Tasks, CallStep(q) \/ CancelLaunch(q) \/ Heartbeat(q) PROVE nodeRuns' = nodeRuns
  <2>1. CASE EnsureRunRunning(q)
    BY <1>0, <1>1, <2>1 DEF EnsureRunRunning, Go, Finish
  <2>2. CASE EnsureNodeRunRunning(q)
    BY <1>0, <1>1, <2>2 DEF EnsureNodeRunRunning, Go, Finish
  <2> QED
    BY <1>5, <2>1, <2>2
       DEF CallStep, RejectUnacceptedCompletion, StartAttempt, CreateAttempt, PrepareExecution, Launch, FenceLaunch,
           CancelLaunch, Heartbeat, RenewLease, ProviderReturns, SettleProviderSuccess, TerminalizeIfOpen,
           TransitionAttempt, AcceptOutcome, vars
<1>6. ASSUME NEW q \in Procs, ReconcileStep(q) \/ Crash(q) PROVE ConcludeRun(p) \/ nodeRuns' = nodeRuns
  <2>1. CASE WriteNodeRun(q)
    <3>1. q # p
      BY <2>1 DEF WriteNodeRun
    <3> QED
      BY <1>1, <1>2, <2>1, <3>1 DEF WriteNodeRun, Go
  <2>2. CASE ConcludeRun(q)
    BY <1>2, <2>2 DEF ConcludeRun
  <2> QED
    BY <1>6, <2>1, <2>2
       DEF ReconcileStep, ReconcileCompleted, ReconcileRequested, ReconcileParked, ObserveRun, Crash, vars
<1>7. CASE SweepStep
  BY <1>7 DEF SweepStep, SweepReclaim, SweepReclaimed, SweepList, SweepReplay, ReclaimExpiredAttempts, vars
<1> QED
  BY <1>3, <1>4, <1>5, <1>6, <1>7
     DEF ExecNext, execVars, AdmitRun, RetryNode, EndRun, TimePasses, Tick, vars

\* The settlement of a Run by the completion of its last node cancels nothing:
\* a node that starts after the Run was observed cannot have been overlooked,
\* for any number of calls side by side, where each node of the Graph is
\* executed once.
THEOREM SettlementsLoseNothing ==
    ASSUME Revisits = FALSE, "claim" \notin Kinds
    PROVE  ExecSpec => SettlementLosesNothing
<1> DEFINE Inv == IInv /\ ExecTypeOK /\ PlansOK /\ NodesOnce /\ ObservedOK
<1>1. ExecInit => Inv
  <2>1. ExecInit => NodesOnce /\ ObservedOK
    BY DEF ExecInit, Init, AbsentNodeRun, Idle, NodesOnce, ObservedOK
  <2> QED
    BY <2>1, InitInvariant, ExecInitType, ExecInitPlans DEF ExecInit
<1>2. Inv /\ [ExecNext]_execVars => Inv'
  BY EndsStay, StepKeepsPlans, StepKeepsNodesOnce, StepKeepsObserved
<1>3. Inv /\ [ExecNext]_execVars => [SettlesWithoutLoss]_execVars
  <2> SUFFICES ASSUME Inv, [ExecNext]_execVars, NEW p \in Procs, proc[p].pc = "conclude",
                      attempts[proc[p].a].status = "completed", proc'[p] # proc[p], NEW n \in NodeRuns
               PROVE  nodeRuns'[n].cascaded = nodeRuns[n].cascaded
    BY DEF SettlesWithoutLoss
  <2>0. Shapes /\ Parents
    BY DEF IInv
  <2>1. CASE nodeRuns' = nodeRuns
    BY <2>1
  <2>2. CASE ConcludeRun(p)
    <3>1. PICK r \in Runs : r = RunOf(p)
      BY <2>0, <2>2, WorkedOn DEF ConcludeRun
    <3>2. nodeRuns' = nodeRuns \/ nodeRuns' = SettledUnder(r)
      BY <2>2, <3>1 DEF ConcludeRun, TransitionRun, vars
    <3>3. AllEnded(r)
      BY <3>1 DEF ObservedOK, RunOf
    <3>4. ~(nodeRuns[n].run = r /\ nodeRuns[n].status \in OpenRunStatus)
      BY <3>3, StatusFacts DEF AllEnded
    <3> QED
      BY <2>0, <3>2, <3>4, CascadeRecord DEF Shapes
  <2> QED
    BY <2>1, <2>2, OnlyItselfConcludes
<1> QED
  BY <1>1, <1>2, <1>3, PTL DEF ExecSpec, SettlementLosesNothing
==============================================================================
