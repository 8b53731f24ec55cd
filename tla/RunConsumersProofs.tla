-------------------------- MODULE RunConsumersProofs --------------------------
(***************************************************************************)
(* The consumers implement the spine as well: what they add to the calls   *)
(* of AttemptExecution are a few more operations of the same store.  And   *)
(* the claim of a parked Run is a lock, which is why a pause is resumed    *)
(* once, as long as the recovery tick and the resumes take turns.          *)
(***************************************************************************)
EXTENDS RunConsumers, AttemptExecutionProofs

------------------------------------------------------------------------------
(***************************************************************************)
(* What a consumer holds while it drives a Run.                            *)
(***************************************************************************)
DriveRecord ==
    [pc : {"none", "dispose", "found", "claimed", "call", "repark", "parkNode", "parkRun"},
     r : Runs \union {"none"}, n : NodeRuns \union {0}]

\* The places of a resume that holds its Run.
Holding == {"claimed", "call", "repark", "parkNode", "parkRun"}

\* What a consumer drives goes with where its call stands: the NodeRun exists
\* and is one of the Run, and only a call under way has a process of its own.
Fits(d, s, records) ==
    /\ d.pc = "none" => d = NoDrive
    /\ d.pc = "dispose" => d.r \in Runs /\ d.n = 0
    /\ d.pc \in Holding \union {"found"} =>
            d.n \in NodeRuns /\ records[d.n].status # "absent" /\ records[d.n].run = d.r
    /\ d.pc = "call" => s.n = d.n /\ s.pc # "idle"
    /\ d.pc \notin {"none", "call"} => s = Idle
    /\ s.pc = "idle" => s = Idle

DriveOK ==
    /\ drive \in [Tasks -> DriveRecord]
    /\ \A p \in Tasks : Fits(drive[p], proc[p], nodeRuns)

\* A yield that a timer may wake.
TimedPause(a) == attempts[a].status = "yielded" /\ attempts[a].result # "human"

DueOK == \A a \in due : a \in Attempts /\ TimedPause(a)

\* What holds of the consumers whether or not they overlap with recovery.
Base == IInv /\ ExecTypeOK /\ PlansOK /\ DriveOK /\ DueOK

\* The type invariant is one reading of it.
LEMMA BaseMeansType == Base => ConsumerTypeOK
<1> SUFFICES ASSUME Base PROVE ConsumerTypeOK
  OBVIOUS
<1>1. ASSUME NEW p \in Tasks
      PROVE  /\ drive[p].n # 0 => nodeRuns[drive[p].n].run = drive[p].r
             /\ drive[p].pc = "call" => proc[p].n = drive[p].n
             /\ drive[p].pc \notin {"none", "call"} => proc[p] = Idle
  <2>1. drive[p] \in DriveRecord /\ Fits(drive[p], proc[p], nodeRuns)
    BY DEF Base, DriveOK
  <2>2. NoDrive.n = 0
    BY DEF NoDrive
  <2> QED
    BY <2>1, <2>2 DEF Fits, DriveRecord, Holding
<1>2. drive \in [Tasks -> DriveRecord] /\ \A a \in due : attempts[a].status = "yielded" /\ attempts[a].result # "human"
  BY DEF Base, DriveOK, DueOK, TimedPause
<1> QED
  BY <1>1, <1>2 DEF ConsumerTypeOK, DriveRecord

------------------------------------------------------------------------------
(***************************************************************************)
(* The steps that the consumers add to those of AttemptExecution.          *)
(***************************************************************************)
OwnWrite ==
    \/ UNCHANGED vars
    \/ \E r \in Runs, target \in {"running", "failed", "waiting"} : TransitionRun(r, target)
    \/ \E n \in NodeRuns : TransitionNodeRun(n, "waiting", NoOutcome)

OwnMove(p) ==
    \/ proc' = proc
    \/ UNCHANGED vars /\ proc' = [proc EXCEPT ![p] = Idle]
    \/ /\ UNCHANGED vars
       /\ \E n \in NodeRuns :
            /\ nodeRuns[n].status # "absent"
            /\ proc' = [proc EXCEPT ![p] = [Idle EXCEPT !.pc = "check", !.n = n]]

OwnStep(p) == OwnWrite /\ OwnMove(p) /\ sweep' = sweep

\* The Run and the NodeRun a consumer drives.
LEMMA Driven ==
    ASSUME Base, NEW p \in Tasks
    PROVE  /\ drive[p] \in DriveRecord /\ Fits(drive[p], proc[p], nodeRuns)
           /\ drive[p].pc \in Holding \union {"found"} =>
                /\ drive[p].n \in NodeRuns /\ nodeRuns[drive[p].n].status # "absent"
                /\ nodeRuns[drive[p].n].run = drive[p].r /\ drive[p].r \in Runs
           /\ drive[p].pc = "dispose" => drive[p].r \in Runs
<1>1. drive[p] \in DriveRecord /\ Fits(drive[p], proc[p], nodeRuns)
  BY DEF Base, DriveOK
<1> QED
  BY <1>1 DEF Base, IInv, Parents, Fits

\* Every step of a consumer is one of AttemptExecution or one of these.
LEMMA StepSplit ==
    ASSUME Base, [ConsumerNext]_consumerVars
    PROVE  [ExecNext]_execVars \/ \E p \in Tasks : OwnStep(p)
<1>1. ASSUME NEW p \in Tasks, NEW r \in Runs, ClaimUnresolvable(p, r) PROVE OwnStep(p)
  BY <1>1 DEF ClaimUnresolvable, OwnStep, OwnWrite, OwnMove
<1>2. ASSUME NEW p \in Tasks, FailUnresolvable(p) PROVE OwnStep(p)
  BY <1>2, Driven DEF FailUnresolvable, OwnStep, OwnWrite, OwnMove
<1>3. ASSUME NEW p \in Tasks, NEW n \in NodeRuns, FindParked(p, n) PROVE OwnStep(p)
  BY <1>3 DEF FindParked, OwnStep, OwnWrite, OwnMove
<1>4. ASSUME NEW p \in Tasks, ClaimParked(p) PROVE OwnStep(p)
  BY <1>4, Driven DEF ClaimParked, OwnStep, OwnWrite, OwnMove
<1>5. ASSUME NEW p \in Tasks, Resume(p) PROVE OwnStep(p)
  <2>1. drive[p].n \in NodeRuns /\ nodeRuns[drive[p].n].status # "absent"
    BY <1>5, Driven DEF Resume, Holding
  <2> QED
    BY <1>5, <2>1 DEF Resume, OwnStep, OwnWrite, OwnMove
<1>6. ASSUME NEW p \in Tasks, StoreFails(p) \/ ConsumerDies(p) PROVE OwnStep(p)
  BY <1>6 DEF StoreFails, ConsumerDies, OwnStep, OwnWrite, OwnMove
<1>7. ASSUME NEW p \in Tasks, Repark(p) PROVE OwnStep(p)
  BY <1>7 DEF Repark, OwnStep, OwnWrite, OwnMove
<1>8. ASSUME NEW p \in Tasks, ParkNode(p) PROVE OwnStep(p)
  BY <1>8, Driven DEF ParkNode, OwnStep, OwnWrite, OwnMove, Holding
<1>9. ASSUME NEW p \in Tasks, ParkRun(p) PROVE OwnStep(p)
  BY <1>9, Driven DEF ParkRun, OwnStep, OwnWrite, OwnMove, Holding
<1>10. ASSUME NEW a, Elapses(a) PROVE UNCHANGED execVars
  BY <1>10 DEF Elapses, execVars, vars
<1>11. UNCHANGED consumerVars => UNCHANGED execVars
  BY DEF consumerVars, execVars
<1>12. ASSUME NEW p \in Tasks, Call(p) PROVE ExecNext
  BY <1>12 DEF Call, ExecNext, Procs
<1>13. CASE Elsewhere
  BY <1>13 DEF Elsewhere, RecoveryTick, LeasesLapse, ExecNext, Procs
<1>14. ASSUME NEW p \in Tasks, NEW r \in Runs, NEW node \in Nodes, NEW n \in NodeRuns, NEW a \in Attempts,
              ExecuteAdmitted(p, r, node, n, a)
       PROVE  ExecNext
  BY <1>14 DEF ExecuteAdmitted, ExecNext
<1> QED
  BY <1>1, <1>2, <1>3, <1>4, <1>5, <1>6, <1>7, <1>8, <1>9, <1>10, <1>11, <1>12, <1>13, <1>14 DEF ConsumerNext, Consume

\* An own step is one of the store, too, and touches no Attempt.
LEMMA OwnStepFacts ==
    ASSUME IInv, ExecTypeOK, PlansOK, NEW p \in Tasks, OwnStep(p)
    PROVE  [Next]_vars /\ attempts' = attempts /\ ExecTypeOK' /\ PlansOK'
<1>0. p \in Procs /\ Shapes
  BY DEF IInv, Procs
<1>1. [Next]_vars /\ attempts' = attempts
  BY <1>0, TransitionsAreNext DEF OwnStep, OwnWrite, TransitionRun, TransitionNodeRun, vars
<1>2. IInv' /\ Grows
  BY <1>1, NextKeeps, NextGrows
<1>3. Shapes' /\ Parents
  BY <1>2 DEF IInv
<1>4. ASSUME NEW s, s \in ProcRecord, Placed(s, nodeRuns', attempts'), \A bodies : Planned(p, s, bodies),
             proc' = [proc EXCEPT ![p] = s]
      PROVE  ExecTypeOK' /\ PlansOK'
  <2>1. Moves(p)
    BY <1>4 DEF OwnStep, Moves, SweepShrinks
  <2>2. ExecTypeOK'
    BY <1>0, <1>2, <1>3, <2>1, MoveKeeps
  <2>3. \A q \in Procs : Planned(q, proc'[q], attempts')
    BY <1>0, <1>1, <1>4 DEF ExecTypeOK, PlansOK
  <2> QED
    BY <1>1, <2>2, <2>3 DEF PlansOK, OwnStep
<1>5. CASE proc' = proc
  <2>1. ExecTypeOK'
    BY <1>0, <1>2, <1>3, <1>5, BystandersKeep DEF OwnStep
  <2> QED
    BY <1>1, <1>5, <2>1 DEF PlansOK, OwnStep
<1>6. CASE UNCHANGED vars /\ proc' = [proc EXCEPT ![p] = Idle]
  <2>1. \A bodies : Planned(p, Idle, bodies)
    BY DEF Planned, Idle, Settling
  <2>2. Idle \in ProcRecord /\ Placed(Idle, nodeRuns', attempts')
    BY IdleIsPlaced
  <2> QED
    BY <1>1, <1>4, <1>6, <2>1, <2>2
<1>7. ASSUME UNCHANGED vars, NEW n \in NodeRuns, nodeRuns[n].status # "absent",
             proc' = [proc EXCEPT ![p] = [Idle EXCEPT !.pc = "check", !.n = n]]
      PROVE  ExecTypeOK' /\ PlansOK'
  <2> DEFINE s == [Idle EXCEPT !.pc = "check", !.n = n]
  <2>1. s \in ProcRecord /\ s.pc = "check" /\ s.n = n
    BY DEF Idle, ProcRecord, Places, Goals
  <2>2. proc' = [proc EXCEPT ![p] = s]
    BY <1>7
  <2> HIDE DEF s
  <2>3. Placed(s, nodeRuns', attempts')
    BY <1>7, <2>1 DEF Placed, vars
  <2>4. \A bodies : Planned(p, s, bodies)
    BY <2>1 DEF Planned, Settling
  <2> QED
    BY <1>4, <2>1, <2>2, <2>3, <2>4
<1> QED
  BY <1>1, <1>5, <1>6, <1>7 DEF OwnStep, OwnMove

------------------------------------------------------------------------------
(***************************************************************************)
(* How the process of each consumer goes on.                               *)
(***************************************************************************)
\* A call under way goes on with its NodeRun, or ends.
GoesOn(p) == proc[p].pc # "idle" /\ (proc'[p] = Idle \/ (proc'[p].pc # "idle" /\ proc'[p].n = proc[p].n))

\* The places before the launch are passed in their order, none twice but the
\* two that write; nobody else enters them.
Ahead(p) ==
    /\ proc[p].pc # "idle" /\ proc'[p].pc # "check"
    /\ proc'[p].pc = "create" => proc[p].pc = "check"
    /\ proc'[p].pc = "prepare" => StartAttempt(p)
    /\ proc'[p].pc = "run" => PrepareExecution(p) \/ EnsureRunRunning(p)
    /\ proc'[p].pc = "node" => proc[p].pc \in {"run", "node"}

\* No step of a call goes back.
LEMMA CallGoesAhead ==
    ASSUME ExecTypeOK, NEW p \in Tasks, CallStep(p) \/ ReconcileStep(p) \/ CancelLaunch(p)
    PROVE  Ahead(p)
<1>0. p \in Procs /\ proc[p] \in ProcRecord
  BY DEF Procs, ExecTypeOK
<1>1. ASSUME NEW pc \in Places \ RaisingPlaces, Go(p, pc) \/ \E goal : Aim(p, pc, goal), proc[p].pc # "idle"
      PROVE  Ahead(p)
  BY <1>0, <1>1, GoEffect, AimEffect DEF Ahead, RaisingPlaces
<1>2. ASSUME Finish(p) \/ Abort(p), proc[p].pc # "idle" PROVE Ahead(p)
  BY <1>0, <1>2, EndEffect DEF Ahead, Idle
<1>3. CASE Launch(p) \/ FenceLaunch(p) \/ CancelLaunch(p) \/ SettleProviderSuccess(p)
  BY <1>1, <1>2, <1>3 DEF Launch, FenceLaunch, CancelLaunch, SettleProviderSuccess, Places, RaisingPlaces
<1>4. CASE RejectUnacceptedCompletion(p)
  BY <1>0, <1>2, <1>4, GoEffect DEF RejectUnacceptedCompletion, Ahead
<1>5. CASE StartAttempt(p)
  <2>1. \A a : [proc[p] EXCEPT !.pc = "prepare", !.a = a].pc = "prepare"
    BY <1>0 DEF ProcRecord
  <2>2. proc[p].pc = "create" /\ (proc'[p].pc = "prepare" \/ Finish(p))
    BY <1>0, <1>5, <2>1, BecomesEffect DEF StartAttempt
  <2> QED
    BY <1>2, <1>5, <2>2 DEF Ahead
<1>6. CASE PrepareExecution(p)
  <2>1. [proc[p] EXCEPT !.pc = "run", !.run = runStatus[RunOf(p)], !.node = nodeRuns[proc[p].n].status].pc = "run"
    BY <1>0 DEF ProcRecord
  <2>2. proc[p].pc = "prepare" /\ (proc'[p].pc = "run" \/ Finish(p))
    BY <1>0, <1>6, <2>1, BecomesEffect DEF PrepareExecution
  <2> QED
    BY <1>2, <1>6, <2>2 DEF Ahead
<1>7. CASE EnsureRunRunning(p)
  <2>1. [proc[p] EXCEPT !.run = Towards(proc[p].run)].pc = proc[p].pc
    BY <1>0 DEF ProcRecord
  <2>2. proc[p].pc = "run" /\ (proc'[p].pc \in {"run", "node"} \/ Finish(p))
    BY <1>0, <1>7, <2>1, BecomesEffect, GoEffect DEF EnsureRunRunning
  <2> QED
    BY <1>2, <1>7, <2>2 DEF Ahead
<1>8. CASE EnsureNodeRunRunning(p)
  <2>1. [proc[p] EXCEPT !.node = Towards(proc[p].node)].pc = proc[p].pc
    BY <1>0 DEF ProcRecord
  <2>2. [proc[p] EXCEPT !.pc = "launch", !.run = "none", !.node = "none"].pc = "launch"
    BY <1>0 DEF ProcRecord
  <2>3. proc[p].pc = "node" /\ (proc'[p].pc \in {"node", "launch"} \/ Finish(p))
    BY <1>0, <1>8, <2>1, <2>2, BecomesEffect DEF EnsureNodeRunRunning
  <2> QED
    BY <1>2, <2>3 DEF Ahead
<1>9. ASSUME NEW end \in ProviderEnds, ProviderReturns(p, end) PROVE Ahead(p)
  BY <1>1, <1>9 DEF ProviderReturns, Places, RaisingPlaces
<1>10. CASE TerminalizeIfOpen(p)
  BY <1>1, <1>2, <1>10 DEF TerminalizeIfOpen, Places, RaisingPlaces
<1>11. ASSUME NEW logical \in Dispositions, AcceptOutcome(p, logical) PROVE Ahead(p)
  BY <1>1, <1>2, <1>11 DEF AcceptOutcome, Places, RaisingPlaces
<1>12. CASE ReconcileCompleted(p) \/ ReconcileRequested(p) \/ ReconcileParked(p)
  BY <1>1, <1>2, <1>12 DEF ReconcileCompleted, ReconcileRequested, ReconcileParked, Places, RaisingPlaces
<1>13. CASE WriteNodeRun(p) \/ ObserveRun(p) \/ ConcludeRun(p)
  BY <1>1, <1>2, <1>13 DEF WriteNodeRun, ObserveRun, ConcludeRun, Places, RaisingPlaces
<1> QED
  BY <1>3, <1>4, <1>5, <1>6, <1>7, <1>8, <1>9, <1>10, <1>11, <1>12, <1>13 DEF CallStep, ReconcileStep

\* So it goes on with its NodeRun or ends, and moves nobody else.
LEMMA CallGoesOn ==
    ASSUME IInv, ExecTypeOK, PlansOK, NEW p \in Tasks, CallStep(p) \/ ReconcileStep(p) \/ CancelLaunch(p)
    PROVE  GoesOn(p) /\ Others(p) /\ ProcStep(p) /\ SweepShrinks
<1>0. p \in Procs /\ p # Sweeper
  BY CallAssumption DEF Procs
<1>1. Step(p)
  BY <1>0, CallProcStep, ReconcileProcStep
<1>2. proc[p].pc # "idle" /\ proc'[p].pc # "check"
  BY CallGoesAhead DEF Ahead
<1>3. ProcStep(p) /\ Others(p) /\ SweepShrinks
  BY <1>1 DEF Step
<1>4. proc'[p] = Idle \/ (proc'[p].pc # "idle" /\ proc'[p].n = proc[p].n)
  BY <1>0, <1>2, <1>3
     DEF ProcStep, Checked, Starts, Claims, Works, Working, Settles, Decides, Turns, Observes, Recovers, SameWork
<1> QED
  BY <1>2, <1>3, <1>4 DEF GoesOn

------------------------------------------------------------------------------
(***************************************************************************)
(* What holds of the consumers is kept.                                    *)
(***************************************************************************)
LEMMA ConsumerStepFacts ==
    ASSUME Base, [ConsumerNext]_consumerVars
    PROVE  [Next]_vars /\ IInv' /\ ExecTypeOK' /\ PlansOK' /\ Grows /\ KeepsEnds
<1>0. IInv /\ ExecTypeOK /\ PlansOK
  BY DEF Base
<1>1. [Next]_vars /\ ExecTypeOK' /\ PlansOK'
  <2>1. CASE [ExecNext]_execVars
    BY <1>0, <2>1, ExecStepImplements, EndsStay, StepKeepsPlans
  <2>2. CASE \E p \in Tasks : OwnStep(p)
    BY <1>0, <2>2, OwnStepFacts
  <2> QED
    BY <2>1, <2>2, StepSplit
<1>2. UNCHANGED vars => KeepsEnds
  BY DEF vars, KeepsEnds
<1> QED
  BY <1>0, <1>1, <1>2, NextKeeps, NextGrows, NextKeepsEnds

\* The tick moves no consumer.
LEMMA TickMovesNobody ==
    ASSUME IInv, ExecTypeOK, PlansOK, SweepStep \/ ReconcileStep(Sweeper)
    PROVE  \A q \in Tasks : proc'[q] = proc[q]
<1>0. Sweeper \in Procs /\ Sweeper \notin Tasks /\ Tasks \subseteq Procs
  BY CallAssumption DEF Procs
<1>1. CASE ReconcileStep(Sweeper)
  <2>1. Others(Sweeper)
    BY <1>0, <1>1, ReconcileProcStep DEF Step
  <2> QED
    BY <1>0, <2>1 DEF Others
<1>2. ASSUME NEW n, NEW a, SweepNext(n, a) PROVE \A q \in Tasks : proc'[q] = proc[q]
  BY <1>0, <1>2 DEF SweepNext, ExecTypeOK
<1>3. ASSUME proc' = proc PROVE \A q \in Tasks : proc'[q] = proc[q]
  BY <1>3
<1> QED
  BY <1>1, <1>2, <1>3 DEF SweepStep, SweepReclaim, SweepReclaimed, SweepList, SweepReplay

\* A consumer that does nothing of its own goes on with its call, or is left
\* as it is.
LEMMA FitsOn ==
    ASSUME Base, Grows, NEW p \in Tasks, proc'[p] = proc[p] \/ (GoesOn(p) /\ proc'[p].pc # "idle")
    PROVE  Fits(drive[p], proc'[p], nodeRuns')
<1>1. Fits(drive[p], proc[p], nodeRuns) /\ Idle.pc = "idle"
  BY Driven DEF Idle
<1>2. drive[p].n \in NodeRuns /\ nodeRuns[drive[p].n].status # "absent" =>
        nodeRuns'[drive[p].n].status # "absent" /\ nodeRuns'[drive[p].n].run = nodeRuns[drive[p].n].run
  BY DEF Grows
<1>3. CASE proc'[p] = proc[p]
  BY <1>1, <1>2, <1>3 DEF Fits
<1>4. CASE GoesOn(p) /\ proc'[p].pc # "idle"
  <2>1. proc[p] # Idle /\ proc'[p].n = proc[p].n
    BY <1>1, <1>4 DEF GoesOn
  <2> QED
    BY <1>1, <1>2, <1>4, <2>1 DEF Fits
<1> QED
  BY <1>3, <1>4

\* One consumer does something of its own, and the others are left alone.
LEMMA DrivesKeeps ==
    ASSUME Base, Grows, NEW p \in Tasks, NEW d \in DriveRecord, Drives(p, d),
           Fits(d, proc'[p], nodeRuns'), \A q \in Tasks : q # p => proc'[q] = proc[q]
    PROVE  DriveOK'
<1>1. drive \in [Tasks -> DriveRecord]
  BY DEF Base, DriveOK
<1>2. /\ drive' \in [Tasks -> DriveRecord] /\ drive'[p] = d
      /\ \A q \in Tasks : q # p => drive'[q] = drive[q]
  BY <1>1 DEF Drives
<1>3. ASSUME NEW q \in Tasks PROVE Fits(drive'[q], proc'[q], nodeRuns')
  <2>1. CASE q = p
    BY <1>2, <2>1
  <2>2. CASE q # p
    BY <1>2, <2>2, FitsOn
  <2> QED
    BY <2>1, <2>2
<1> QED
  BY <1>2, <1>3 DEF DriveOK

\* A call that is over leaves its consumer nothing to do, or a Run to park.
LEMMA CallKeepsDrive ==
    ASSUME Base, Grows, NEW p \in Tasks, Call(p)
    PROVE  DriveOK'
<1>0. drive[p] \in DriveRecord /\ Fits(drive[p], proc[p], nodeRuns) /\ Idle.pc = "idle" /\ drive \in [Tasks -> DriveRecord]
  BY Driven DEF Idle, Base, DriveOK
<1>1. GoesOn(p) /\ \A q \in Tasks : q # p => proc'[q] = proc[q]
  <2>1. GoesOn(p) /\ Others(p) /\ Tasks \subseteq Procs
    BY CallGoesOn DEF Call, Procs, Base
  <2> QED
    BY <2>1 DEF Others
<1>2. CASE drive' = drive /\ proc'[p].pc # "idle"
  <2>1. \A q \in Tasks : Fits(drive[q], proc'[q], nodeRuns')
    BY <1>1, <1>2, FitsOn
  <2> QED
    BY <1>0, <1>2, <2>1 DEF DriveOK
<1>3. CASE drive' = drive /\ drive[p].pc # "call"
  <2>1. drive[p].pc = "none"
    BY <1>0, <1>1, <1>3 DEF Fits, GoesOn
  <2>2. Fits(drive[p], proc'[p], nodeRuns')
    BY <1>0, <1>1, <2>1 DEF Fits, Holding, GoesOn
  <2>3. \A q \in Tasks : Fits(drive[q], proc'[q], nodeRuns')
    BY <1>1, <2>2, FitsOn
  <2> QED
    BY <1>0, <1>3, <2>3 DEF DriveOK
<1>4. ASSUME proc'[p].pc = "idle", drive[p].pc = "call", Drives(p, NoDrive) PROVE DriveOK'
  <2>1. NoDrive \in DriveRecord /\ Fits(NoDrive, proc'[p], nodeRuns')
    BY <1>1, <1>4 DEF NoDrive, DriveRecord, Fits, Holding, GoesOn
  <2> QED
    BY <1>1, <1>4, <2>1, DrivesKeeps
<1>5. ASSUME proc'[p].pc = "idle", drive[p].pc = "call", Drives(p, [drive[p] EXCEPT !.pc = "repark"]) PROVE DriveOK'
  <2> DEFINE d == [drive[p] EXCEPT !.pc = "repark"]
  <2>1. d \in DriveRecord /\ d.pc = "repark" /\ d.r = drive[p].r /\ d.n = drive[p].n
    BY <1>0 DEF DriveRecord
  <2>2. Drives(p, d)
    BY <1>5
  <2> HIDE DEF d
  <2>3. d.n \in NodeRuns /\ nodeRuns'[d.n].status # "absent" /\ nodeRuns'[d.n].run = d.r
    BY <1>0, <1>5, <2>1 DEF Fits, Holding, Grows
  <2>4. proc'[p] = Idle
    BY <1>1, <1>5 DEF GoesOn
  <2>5. Fits(d, proc'[p], nodeRuns')
    BY <2>1, <2>3, <2>4 DEF Fits
  <2> QED
    BY <1>1, <2>1, <2>2, <2>5, DrivesKeeps
<1> QED
  BY <1>0, <1>2, <1>3, <1>4, <1>5 DEF Call, Drives

\* A consumer takes up a Run, or goes on with the one it holds.
LEMMA OwnStepKeepsDrive ==
    ASSUME Base, Grows, NEW p \in Tasks,
           \/ \E r \in Runs : ClaimUnresolvable(p, r)
           \/ \E n \in NodeRuns : FindParked(p, n)
           \/ FailUnresolvable(p) \/ ClaimParked(p) \/ Resume(p) \/ StoreFails(p) \/ ConsumerDies(p)
           \/ Repark(p) \/ ParkNode(p) \/ ParkRun(p)
    PROVE  DriveOK'
<1>0. /\ drive[p] \in DriveRecord /\ Fits(drive[p], proc[p], nodeRuns)
      /\ NoDrive \in DriveRecord /\ Fits(NoDrive, Idle, nodeRuns')
      /\ proc \in [Procs -> ProcRecord] /\ Tasks \subseteq Procs /\ Idle.pc = "idle"
  BY Driven DEF NoDrive, DriveRecord, Fits, Holding, Base, ExecTypeOK, Procs, Idle
<1>1. \A s : proc' = [proc EXCEPT ![p] = s] => proc'[p] = s /\ \A q \in Tasks : q # p => proc'[q] = proc[q]
  BY <1>0
<1>2. ASSUME Drives(p, NoDrive), (proc' = proc /\ proc[p] = Idle) \/ proc' = [proc EXCEPT ![p] = Idle] PROVE DriveOK'
  BY <1>0, <1>1, <1>2, DrivesKeeps
<1>3. ASSUME NEW n \in NodeRuns, nodeRuns[n].status # "absent", NEW s, NEW d \in DriveRecord, Drives(p, d),
             d.n = n, d.r = nodeRuns[n].run, d.pc \in Holding \union {"found"},
             (proc' = proc /\ s = proc[p]) \/ proc' = [proc EXCEPT ![p] = s],
             d.pc = "call" => s.n = n /\ s.pc # "idle", d.pc # "call" => s = Idle
      PROVE  DriveOK'
  <2>1. nodeRuns'[n].status # "absent" /\ nodeRuns'[n].run = nodeRuns[n].run
    BY <1>3 DEF Grows
  <2>2. proc'[p] = s /\ \A q \in Tasks : q # p => proc'[q] = proc[q]
    BY <1>1, <1>3
  <2>3. Fits(d, s, nodeRuns')
    BY <1>0, <1>3, <2>1 DEF Fits, Holding
  <2> QED
    BY <1>3, <2>2, <2>3, DrivesKeeps
<1>4. ASSUME NEW pc \in Holding \ {"call"}, Drives(p, [drive[p] EXCEPT !.pc = pc]),
             drive[p].pc \in Holding \union {"found"},
             (proc' = proc /\ drive[p].pc # "call") \/ proc' = [proc EXCEPT ![p] = Idle]
      PROVE  DriveOK'
  <2> DEFINE d == [drive[p] EXCEPT !.pc = pc]
  <2>1. d \in DriveRecord /\ d.pc = pc /\ d.n = drive[p].n /\ d.r = drive[p].r
    BY <1>0, <1>4 DEF DriveRecord, Holding
  <2>2. drive[p].n \in NodeRuns /\ nodeRuns[drive[p].n].status # "absent" /\ nodeRuns[drive[p].n].run = drive[p].r
    BY <1>0, <1>4 DEF Fits
  <2>3. Drives(p, d)
    BY <1>4
  <2> HIDE DEF d
  <2>4. (proc' = proc /\ Idle = proc[p]) \/ proc' = [proc EXCEPT ![p] = Idle]
    BY <1>0, <1>4 DEF Fits, Holding
  <2> QED
    BY <1>3, <1>4, <2>1, <2>2, <2>3, <2>4
<1>5. ASSUME NEW r \in Runs, ClaimUnresolvable(p, r) PROVE DriveOK'
  <2> DEFINE d == [NoDrive EXCEPT !.pc = "dispose", !.r = r]
  <2>1. d \in DriveRecord /\ d.pc = "dispose" /\ d.r = r /\ d.n = 0
    BY DEF NoDrive, DriveRecord
  <2>2. Drives(p, d) /\ proc' = proc /\ proc[p] = Idle
    BY <1>0, <1>5 DEF ClaimUnresolvable, Free, Fits
  <2> HIDE DEF d
  <2>3. Fits(d, Idle, nodeRuns')
    BY <2>1 DEF Fits, Holding
  <2> QED
    BY <2>1, <2>2, <2>3, DrivesKeeps
<1>6. ASSUME NEW n \in NodeRuns, FindParked(p, n) PROVE DriveOK'
  <2> DEFINE d == [pc |-> "found", r |-> nodeRuns[n].run, n |-> n]
  <2>1. nodeRuns[n].status # "absent" /\ nodeRuns[n].run \in Runs
    <3>1. nodeRuns[n].status # "absent"
      BY <1>6, CreatedFacts DEF FindParked, Base, IInv, Shapes
    <3> QED
      BY <3>1 DEF Base, IInv, Parents
  <2>2. d \in DriveRecord /\ d.pc = "found" /\ d.n = n /\ d.r = nodeRuns[n].run
    BY <2>1 DEF DriveRecord
  <2>3. Drives(p, d) /\ proc' = proc /\ Idle = proc[p]
    BY <1>0, <1>6 DEF FindParked, Free, Fits
  <2> HIDE DEF d
  <2> QED
    BY <1>3, <2>1, <2>2, <2>3
<1>7. CASE FailUnresolvable(p)
  BY <1>0, <1>2, <1>7 DEF FailUnresolvable, Fits
<1>8. CASE ClaimParked(p)
  BY <1>0, <1>2, <1>4, <1>8 DEF ClaimParked, Fits, Holding
<1>9. CASE Resume(p)
  <2>1. CASE Drives(p, [drive[p] EXCEPT !.pc = "repark"]) /\ proc' = proc
    BY <1>4, <1>9, <2>1 DEF Resume, Holding
  <2>2. CASE /\ proc' = [proc EXCEPT ![p] = [Idle EXCEPT !.pc = "check", !.n = drive[p].n]]
             /\ Drives(p, [drive[p] EXCEPT !.pc = "call"])
    <3> DEFINE d == [drive[p] EXCEPT !.pc = "call"]
               s == [Idle EXCEPT !.pc = "check", !.n = drive[p].n]
    <3>1. d \in DriveRecord /\ d.pc = "call" /\ d.n = drive[p].n /\ d.r = drive[p].r
      BY <1>0 DEF DriveRecord
    <3>2. s.pc = "check" /\ s.n = drive[p].n
      BY DEF Idle
    <3>3. Drives(p, d) /\ proc' = [proc EXCEPT ![p] = s] /\ drive[p].pc = "claimed"
      BY <1>9, <2>2 DEF Resume
    <3> HIDE DEF d, s
    <3>4. drive[p].n \in NodeRuns /\ nodeRuns[drive[p].n].status # "absent" /\ nodeRuns[drive[p].n].run = drive[p].r
      BY <1>0, <3>3 DEF Fits, Holding
    <3> QED
      BY <1>3, <3>1, <3>2, <3>3, <3>4 DEF Holding
  <2> QED
    BY <1>9, <2>1, <2>2 DEF Resume
<1>10. CASE StoreFails(p)
  BY <1>4, <1>10 DEF StoreFails, Holding
<1>11. CASE ConsumerDies(p)
  BY <1>2, <1>11 DEF ConsumerDies
<1>12. CASE Repark(p) \/ ParkNode(p) \/ ParkRun(p)
  <2>1. proc[p] = Idle /\ proc' = proc /\ drive[p].pc \in Holding /\ drive[p].pc # "call"
    BY <1>0, <1>12 DEF Repark, ParkNode, ParkRun, Fits, Holding
  <2>2. \/ Drives(p, NoDrive) \/ Drives(p, [drive[p] EXCEPT !.pc = "parkRun"])
        \/ Drives(p, [drive[p] EXCEPT !.pc = "parkNode"])
    BY <1>12 DEF Repark, ParkNode, ParkRun
  <2>3. "parkRun" \in Holding \ {"call"} /\ "parkNode" \in Holding \ {"call"}
    BY DEF Holding
  <2> QED
    BY <1>2, <1>4, <2>1, <2>2, <2>3
<1> QED
  BY <1>5, <1>6, <1>7, <1>8, <1>9, <1>10, <1>11, <1>12

------------------------------------------------------------------------------
(***************************************************************************)
(* What a step does to the Attempts, taken together.                       *)
(***************************************************************************)
AsBefore(a) ==
    /\ attempts'[a].status = attempts[a].status /\ attempts'[a].nodeRun = attempts[a].nodeRun
    /\ attempts'[a].reclaimed = attempts[a].reclaimed /\ attempts'[a].result = attempts[a].result

AllBut(a) == \A b \in Attempts : b # a => AsBefore(b)

\* A call creates its Attempt.
Begins(p, a) ==
    /\ proc[p].pc = "create" /\ NextId(attempts, a) /\ MayCreateAttempt(proc[p].n)
    /\ attempts'[a].status = "created" /\ attempts'[a].nodeRun = proc[p].n /\ attempts'[a].reclaimed = FALSE
    /\ AllBut(a) /\ nodeRuns' = nodeRuns /\ runStatus' = runStatus
    /\ proc'[p].pc = "prepare" /\ proc'[p].a = a /\ proc'[p].n = proc[p].n

\* A call launches or settles its Attempt.
MovesOn(p) ==
    LET a == proc[p].a IN
    /\ proc[p].pc \in {"launch", "settle"} /\ a \in Attempts
    /\ Active(a) /\ attempts'[a].status \in AttemptStatus \ {"created"}
    /\ attempts'[a].nodeRun = attempts[a].nodeRun /\ attempts'[a].reclaimed = attempts[a].reclaimed
    /\ AllBut(a) /\ nodeRuns' = nodeRuns /\ runStatus' = runStatus

AttemptsMove ==
    \/ \A a \in Attempts : AsBefore(a)
    \/ \E p \in Tasks, a \in Attempts : StartAttempt(p) /\ Begins(p, a)
    \/ \E p \in Tasks : CallStep(p) /\ MovesOn(p)
    \/ \E p \in Tasks, r \in Runs, node \in Nodes, n \in NodeRuns, a \in Attempts : ClaimRun(p, r, node, n, a)
    \/ \E batch \in SUBSET Attempts : SweepReclaim(batch)

\* The creation of an Attempt.
LEMMA CreationBegins ==
    ASSUME IInv, ExecTypeOK, NEW p \in Tasks, NEW b \in Attempts, StartAttempt(p),
           CreateAttempt(b, proc[p].n, LeaseKind), Becomes(p, [proc[p] EXCEPT !.pc = "prepare", !.a = b])
    PROVE  Begins(p, b)
<1>0. Shapes /\ Parents /\ p \in Procs
  BY DEF IInv, Procs
<1>1. proc[p].n \in NodeRuns /\ LeaseKind \in {"none", "open", "ttl"} /\ proc[p].pc = "create" /\ proc[p] \in ProcRecord
  BY <1>0, WorkedOn, CallAssumption DEF StartAttempt
<1>2. /\ attempts'[b].status = "created" /\ attempts'[b].nodeRun = proc[p].n
      /\ \A a \in Attempts : a # b => attempts'[a] = attempts[a]
      /\ nodeRuns' = nodeRuns /\ runStatus' = runStatus
  BY <1>0, <1>1, CreateAttemptEffect DEF KeptAttempt
<1>3. attempts'[b].reclaimed = FALSE
  BY <1>0 DEF CreateAttempt, NewAttempt, Shapes
<1>4. proc'[p] = [proc[p] EXCEPT !.pc = "prepare", !.a = b]
  BY <1>0, BecomesEffect
<1>5. proc'[p].pc = "prepare" /\ proc'[p].a = b /\ proc'[p].n = proc[p].n
  BY <1>1, <1>4 DEF ProcRecord
<1>6. NextId(attempts, b) /\ MayCreateAttempt(proc[p].n)
  BY DEF CreateAttempt
<1> QED
  BY <1>1, <1>2, <1>3, <1>5, <1>6 DEF Begins, AllBut, AsBefore

LEMMA EveryStepMovesAttempts ==
    ASSUME IInv, ExecTypeOK, [ExecNext]_execVars
    PROVE  AttemptsMove
<1>0. /\ Shapes /\ Parents /\ Tasks \subseteq Procs /\ \A a \in Attempts : attempts[a] \in AttemptRecord
      /\ attempts \in [Attempts -> AttemptRecord]
  BY DEF IInv, Procs, Shapes
<1>1. CASE attempts' = attempts
  BY <1>1 DEF AttemptsMove, AsBefore
<1>2. ASSUME NEW p \in Tasks, NEW b \in Attempts, CreateAttempt(b, proc[p].n, LeaseKind), StartAttempt(p),
             Becomes(p, [proc[p] EXCEPT !.pc = "prepare", !.a = b])
      PROVE  AttemptsMove
  BY <1>2, CreationBegins DEF AttemptsMove
<1>3. ASSUME NEW p \in Tasks, CallStep(p), proc[p].pc \in {"launch", "settle"}, NEW target, NEW result \in Result,
             TransitionAttempt(proc[p].a, target, proc[p].a, result)
      PROVE  AttemptsMove
  <2> DEFINE b == proc[p].a
  <2>1. b \in Attempts
    BY <1>0, <1>3, WorkedOn
  <2>2. target \in AttemptStatus
    BY <1>0, <1>3, <2>1, TransitionsAreNext
  <2>3. /\ attempts[b].status \in ActiveAttemptStatus /\ attempts'[b].status = target /\ target # "created"
        /\ attempts'[b].nodeRun = attempts[b].nodeRun
        /\ \A a \in Attempts : a # b => attempts'[a] = attempts[a]
        /\ nodeRuns' = nodeRuns /\ runStatus' = runStatus
    BY <1>0, <1>3, <2>1, <2>2, TransitionAttemptEffect DEF KeptAttempt
  <2>4. attempts'[b].reclaimed = attempts[b].reclaimed
    <3>1. attempts' = [attempts EXCEPT ![b].status = target, ![b].result = result]
      BY <1>3 DEF TransitionAttempt
    <3> QED
      BY <1>0, <2>1, <3>1 DEF AttemptRecord
  <2>5. MovesOn(p)
    BY <1>3, <2>1, <2>2, <2>3, <2>4 DEF MovesOn, AllBut, AsBefore, Active
  <2> QED
    BY <1>3, <2>5 DEF AttemptsMove
<1>4. ASSUME NEW b \in Attempts, RenewLease(b, b) PROVE AttemptsMove
  <2>1. attempts' = [attempts EXCEPT ![b].lease = "ttl", ![b].left = Ttl]
    BY <1>4 DEF RenewLease
  <2>2. \A a \in Attempts : AsBefore(a)
    BY <1>0, <2>1 DEF AsBefore, AttemptRecord
  <2> QED
    BY <2>2 DEF AttemptsMove
<1>5. CASE Tick
  <2>1. attempts' = [a \in Attempts |-> IF attempts[a].left > 0
                                       THEN [attempts[a] EXCEPT !.left = @ - 1] ELSE attempts[a]]
    BY <1>5 DEF Tick
  <2>2. \A a \in Attempts : AsBefore(a)
    BY <1>0, <2>1 DEF AsBefore, AttemptRecord
  <2> QED
    BY <2>2 DEF AttemptsMove
<1>6. ASSUME NEW p \in Tasks, CallStep(p) PROVE AttemptsMove
  <2>0. "none" \in Result /\ "human" \in Result
    BY CallAssumption DEF Result
  <2>1. CASE StartAttempt(p)
    BY <1>1, <1>2, <2>1 DEF StartAttempt, vars
  <2>2. CASE Launch(p)
    BY <1>1, <1>3, <1>6, <2>0, <2>2 DEF Launch, vars
  <2>3. CASE TerminalizeIfOpen(p)
    <3>1. proc[p].pc = "settle" /\ (IF proc[p].goal = "human" THEN "human" ELSE "none") \in Result
      BY <2>0, <2>3 DEF TerminalizeIfOpen
    <3> QED
      BY <1>1, <1>3, <1>6, <2>3, <3>1 DEF TerminalizeIfOpen, vars
  <2>4. CASE EnsureRunRunning(p) \/ EnsureNodeRunRunning(p)
    BY <1>1, <2>4 DEF EnsureRunRunning, EnsureNodeRunRunning, TransitionRun, TransitionNodeRun, vars
  <2> QED
    BY <1>1, <1>6, <2>1, <2>2, <2>3, <2>4
       DEF CallStep, RejectUnacceptedCompletion, PrepareExecution, FenceLaunch, ProviderReturns,
           SettleProviderSuccess, AcceptOutcome, vars
<1>7. ASSUME NEW p \in Tasks, Heartbeat(p) PROVE AttemptsMove
  <2>1. proc[p].a \in Attempts
    BY <1>0, <1>7, WorkedOn DEF Heartbeat
  <2> QED
    BY <1>4, <1>7, <2>1 DEF Heartbeat
<1>8. ASSUME NEW p, ReconcileStep(p) \/ Crash(p) \/ CancelLaunch(p) PROVE attempts' = attempts
  BY <1>8 DEF ReconcileStep, ReconcileCompleted, ReconcileRequested, ReconcileParked, WriteNodeRun, ObserveRun,
               ConcludeRun, Crash, CancelLaunch, TransitionNodeRun, TransitionRun, vars
<1>9. CASE SweepStep
  BY <1>1, <1>9 DEF SweepStep, SweepReclaimed, SweepList, SweepReplay, AttemptsMove, vars
<1>10. ASSUME NEW p \in Tasks, NEW r \in Runs, NEW node \in Nodes, NEW n \in NodeRuns, NEW a \in Attempts,
              ClaimRun(p, r, node, n, a)
       PROVE  AttemptsMove
  BY <1>10 DEF AttemptsMove
<1> QED
  BY <1>1, <1>5, <1>6, <1>7, <1>8, <1>9, <1>10
     DEF ExecNext, execVars, AdmitRun, CreateRun, ExecuteNode, CreateNodeRun, RetryNode, EndRun, TransitionRun,
         TimePasses, vars

\* The consumers do the same to Attempts.
LEMMA ConsumersMoveAttempts ==
    ASSUME Base, [ConsumerNext]_consumerVars
    PROVE  AttemptsMove
<1>0. IInv /\ ExecTypeOK /\ PlansOK
  BY DEF Base
<1>1. CASE [ExecNext]_execVars
  BY <1>0, <1>1, EveryStepMovesAttempts
<1>2. CASE \E p \in Tasks : OwnStep(p)
  BY <1>0, <1>2, OwnStepFacts DEF AttemptsMove, AsBefore
<1> QED
  BY <1>1, <1>2, StepSplit

\* An Attempt that has ended stays exactly as it ended.
LEMMA EndedAttemptStays ==
    ASSUME IInv, ExecTypeOK, AttemptsMove, NEW a \in Attempts, attempts[a].status \in TerminalAttemptStatus
    PROVE  AsBefore(a)
<1>0. Shapes /\ "absent" \notin TerminalAttemptStatus /\ ~Active(a) /\ attempts[a].status # "absent"
  BY StatusFacts DEF IInv, Active
<1>1. ASSUME NEW p \in Tasks, NEW b \in Attempts, Begins(p, b) PROVE AsBefore(a)
  BY <1>0, <1>1 DEF Begins, AllBut, NextId
<1>2. ASSUME NEW p \in Tasks, MovesOn(p) PROVE AsBefore(a)
  BY <1>0, <1>2 DEF MovesOn, AllBut
<1>3. ASSUME NEW p \in Tasks, NEW r \in Runs, NEW node \in Nodes, NEW n \in NodeRuns, NEW b \in Attempts,
             ClaimRun(p, r, node, n, b)
      PROVE  AsBefore(a)
  <2>1. attempts[b].status = "absent" /\ \A c \in Attempts : c # b => attempts'[c] = attempts[c]
    BY <1>0, <1>3, ClaimEffect DEF ClaimRun, KeptAttempt
  <2> QED
    BY <1>0, <2>1 DEF AsBefore
<1>4. ASSUME NEW batch \in SUBSET Attempts, SweepReclaim(batch) PROVE AsBefore(a)
  <2>1. /\ \A c \in batch : Active(c)
        /\ \A c \in Attempts : c \notin batch => attempts'[c] = attempts[c]
    BY <1>0, <1>4, ReclaimEffect DEF SweepReclaim, KeptAttempt, Active
  <2> QED
    BY <1>0, <2>1 DEF AsBefore
<1> QED
  BY <1>1, <1>2, <1>3, <1>4 DEF AttemptsMove

\* What does not change drive leaves what the consumers hold in order.
LEMMA ElsewhereKeepsDrive ==
    ASSUME Base, Grows, drive' = drive, \A q \in Tasks : proc'[q] = proc[q] \/ (GoesOn(q) /\ proc'[q].pc # "idle")
    PROVE  DriveOK'
<1>1. \A q \in Tasks : Fits(drive[q], proc'[q], nodeRuns')
  BY FitsOn
<1> QED
  BY <1>1 DEF DriveOK, Base

LEMMA ConsumerStepKeepsDrive ==
    ASSUME Base, [ConsumerNext]_consumerVars
    PROVE  DriveOK'
<1>0. IInv /\ ExecTypeOK /\ PlansOK /\ Grows /\ Tasks \subseteq Procs /\ proc \in [Procs -> ProcRecord] /\ Idle.pc = "idle"
  BY ConsumerStepFacts DEF Base, Procs, ExecTypeOK, Idle
<1>1. ASSUME NEW p \in Tasks, NEW r \in Runs, NEW node \in Nodes, NEW n \in NodeRuns, NEW a \in Attempts,
             ExecuteAdmitted(p, r, node, n, a)
      PROVE  DriveOK'
  <2> DEFINE s == [Idle EXCEPT !.pc = "launch", !.n = n, !.a = a]
  <2>1. Becomes(p, s) /\ drive' = drive /\ drive[p].pc = "none" /\ s.pc = "launch"
    BY <1>1 DEF ExecuteAdmitted, ClaimRun, Free, Idle
  <2> HIDE DEF s
  <2>2. proc'[p] = s /\ \A q \in Tasks : q # p => proc'[q] = proc[q]
    BY <1>0, <2>1, BecomesEffect DEF Others
  <2>3. drive[p] = NoDrive /\ drive[p] \in DriveRecord
    BY <2>1, Driven DEF Fits
  <2>4. Drives(p, NoDrive)
    BY <2>1, <2>3 DEF Drives, Base, DriveOK
  <2>5. Fits(NoDrive, proc'[p], nodeRuns')
    BY <2>1, <2>2 DEF NoDrive, Fits, Holding
  <2> QED
    BY <1>0, <2>2, <2>3, <2>4, <2>5, DrivesKeeps
<1>2. ASSUME NEW p \in Tasks, CancelLaunch(p), drive' = drive PROVE DriveOK'
  <2>1. GoesOn(p) /\ Others(p) /\ p \in Procs
    BY <1>0, <1>2, CallGoesOn
  <2>2. proc'[p].pc = "settle"
    BY <1>0, <1>2, AimEffect DEF CancelLaunch
  <2> QED
    BY <1>0, <1>2, <2>1, <2>2, ElsewhereKeepsDrive DEF Others
<1>3. CASE (SweepStep \/ ReconcileStep(Sweeper)) /\ drive' = drive
  BY <1>0, <1>3, TickMovesNobody, ElsewhereKeepsDrive
<1>4. CASE proc' = proc /\ drive' = drive
  BY <1>0, <1>4, ElsewhereKeepsDrive
<1>5. CASE Elsewhere
  BY <1>2, <1>3, <1>4, <1>5 DEF Elsewhere, RecoveryTick, AdmitRun, Heartbeat, EndRun, LeasesLapse, TimePasses
<1>6. CASE (\E a \in Attempts : Elapses(a)) \/ UNCHANGED consumerVars
  BY <1>4, <1>6 DEF Elapses, consumerVars
<1>7. ASSUME NEW p \in Tasks, Call(p) PROVE DriveOK'
  BY <1>0, <1>7, CallKeepsDrive
<1> QED
  BY <1>0, <1>1, <1>5, <1>6, <1>7, OwnStepKeepsDrive DEF ConsumerNext, Consume

LEMMA ConsumerStepKeepsDue ==
    ASSUME Base, [ConsumerNext]_consumerVars
    PROVE  DueOK'
<1>0. IInv /\ ExecTypeOK /\ AttemptsMove /\ "yielded" \in TerminalAttemptStatus
  BY ConsumersMoveAttempts DEF Base, TerminalAttemptStatus, AttemptStatus, ActiveAttemptStatus
<1>1. \A a \in Attempts : TimedPause(a) => TimedPause(a)'
  <2> SUFFICES ASSUME NEW a \in Attempts, TimedPause(a) PROVE TimedPause(a)'
    OBVIOUS
  <2>1. AsBefore(a)
    BY <1>0, EndedAttemptStays DEF TimedPause
  <2> QED
    BY <2>1 DEF AsBefore, TimedPause
<1>2. due' = due \/ \E a \in Attempts : TimedPause(a) /\ due' = due \union {a}
  BY DEF ConsumerNext, ExecuteAdmitted, ClaimUnresolvable, FindParked, Consume, FailUnresolvable, ClaimParked, Resume,
         Call, Repark, ParkNode, ParkRun, StoreFails, ConsumerDies, Elapses, Elsewhere, consumerVars, TimedPause
<1> QED
  BY <1>1, <1>2 DEF DueOK, Base

------------------------------------------------------------------------------
LEMMA ConsumerInitBase == ConsumerInit => Base
<1> SUFFICES ASSUME ConsumerInit PROVE Base
  OBVIOUS
<1>1. IInv /\ ExecTypeOK /\ PlansOK
  BY InitInvariant, ExecInitType, ExecInitPlans DEF ConsumerInit, ExecInit
<1>2. NoDrive \in DriveRecord /\ Fits(NoDrive, Idle, nodeRuns)
  BY DEF NoDrive, DriveRecord, Fits, Holding
<1>3. \A p \in Tasks : proc[p] = Idle
  BY DEF ConsumerInit, ExecInit, Procs
<1> QED
  BY <1>1, <1>2, <1>3 DEF ConsumerInit, Base, DriveOK, DueOK

LEMMA ConsumerInvariance == ConsumerSpec => []Base
<1>1. Base /\ [ConsumerNext]_consumerVars => Base'
  BY ConsumerStepFacts, ConsumerStepKeepsDrive, ConsumerStepKeepsDue DEF Base
<1> QED
  BY <1>1, ConsumerInitBase, PTL DEF ConsumerSpec

\* A consumer that drives a resume holds a NodeRun of the Run it claimed, its
\* call works on that NodeRun, no claim outlives its call unattended, and only
\* yields that a timer may wake fall due: for any number of consumers, wherever
\* they die and whether or not they overlap with recovery.
THEOREM ConsumersHoldWhatTheyDrive == ConsumerSpec => []ConsumerTypeOK
BY ConsumerInvariance, BaseMeansType, PTL

\* The consumers, too, only ever use the store's operations: what they do is a
\* behaviour of the spine.
THEOREM ConsumersImplementSpine == ConsumerSpec => Spec
<1>1. ConsumerInit => Init
  BY DEF ConsumerInit, ExecInit
<1>2. Base /\ [ConsumerNext]_consumerVars => [Next]_vars
  BY ConsumerStepFacts
<1> QED
  BY <1>1, <1>2, ConsumerInvariance, PTL DEF ConsumerSpec, Spec

\* So a Run that was admitted and has ended leaves no open NodeRun behind.
THEOREM ConsumersSettleEndedRuns == ConsumerSpec => []ClosedRunIsSettled
BY ConsumersImplementSpine, RunsEndSettled, PTL

\* A resume of a Run that ended meanwhile neither starts work nor completes it.
THEOREM ConsumersStartNoLateWork == ConsumerSpec => NoWorkUnderClosedRun
BY ConsumersImplementSpine, ClosedRunsGetNoWork, PTL

\* The lease a consumer took when it claimed a Run is not renewed once lapsed.
THEOREM ConsumersFenceLostLeases == ConsumerSpec => LapsedLeaseIsLost
BY ConsumersImplementSpine, LapsedLeasesAreLost, PTL

------------------------------------------------------------------------------
(***************************************************************************)
(* A pause is resumed once.  Who drives a NodeRun whose newest Attempt, as *)
(* far as recovery left it, still runs or waits for its time, drives it    *)
(* alone: it has claimed the Run, nobody can claim a Run that is running,  *)
(* and only the one who drives it parks it again.  Recovery would park it, *)
(* too, which is why the tick and the resumes have to take turns.          *)
(***************************************************************************)
\* The Attempt a resume looks at: the newest one that was not reclaimed.
Last(b, n) ==
    /\ Exist(b) /\ attempts[b].nodeRun = n /\ ~attempts[b].reclaimed
    /\ \A c \in Attempts : Exist(c) /\ attempts[c].nodeRun = n /\ b < c => attempts[c].reclaimed

\* A pause whose time has come.
Elapsed(n) == \E b \in Attempts : Last(b, n) /\ TimedPause(b) /\ b \in due

\* An Attempt that runs or that a timer may wake.
Live(n) == \E b \in Attempts : Last(b, n) /\ (Active(b) \/ TimedPause(b))

\* The consumer holds the Run of n: by a resume, or by the call of a first reach.
Engaged(p, n) ==
    \/ Resuming(p) /\ drive[p].n = n
    \/ drive[p].pc = "none" /\ proc[p].pc # "idle" /\ proc[p].n = n

ActiveIsNewest == \A a \in Attempts : Active(a) => NewestAttempt(a)

\* A Run has one NodeRun, and is under way once it has it.
OneNode ==
    /\ \A n, m \in NodeRuns :
            nodeRuns[n].status # "absent" /\ nodeRuns[m].status # "absent" /\ nodeRuns[n].run = nodeRuns[m].run
            => n = m
    /\ \A n \in NodeRuns : nodeRuns[n].status # "absent" =>
            runStatus[nodeRuns[n].run] \notin {"absent", "created", "queued"}

\* What a disposition may be on its way to write.
SettledGoals == {"none", "waiting", "paused"} \union TerminalRunStatus

GoalsOK == \A p \in Procs : proc[p].pc \in {"write", "observe", "conclude"} => proc[p].goal \in SettledGoals

\* Where a call of a consumer stands before its launch.
BeforeLaunch ==
    \A p \in Tasks :
        /\ proc[p].pc \in RaisingPlaces => drive[p].pc = "call"
        /\ proc[p].pc \in {"check", "create"} => Elapsed(proc[p].n)
        /\ proc[p].pc \in {"prepare", "run", "node"} => attempts[proc[p].a].status = "created"
        /\ proc[p].pc = "run" => proc[p].run = "running"

\* Who has an Attempt has it alone, and it is the newest while the NodeRun is live;
\* the first reach has the only one.
OwnAttempts ==
    /\ \A p, q \in Tasks :
            proc[p].pc \in Working \union Settling /\ proc[q].pc \in Working \union Settling /\ proc[p].a = proc[q].a
            => p = q
    /\ \A p \in Tasks : proc[p].pc \in Working \union Settling /\ Live(proc[p].n) => NewestAttempt(proc[p].a)
    /\ \A p \in Tasks : drive[p].pc = "none" /\ proc[p].pc # "idle" /\ Live(proc[p].n) =>
            \A c \in Attempts : Exist(c) /\ attempts[c].nodeRun = proc[p].n => c = proc[p].a

\* The claim is a lock.
OneEngaged ==
    \A n \in NodeRuns : Live(n) =>
        /\ \A p, q \in Tasks : Engaged(p, n) /\ Engaged(q, n) => p = q
        /\ \A p \in Tasks : Engaged(p, n) => runStatus[nodeRuns[n].run] \notin {"waiting", "paused"}

TakesTurns == \A p \in Tasks : Resuming(p) => ~Recovering

\* The tick reconciles what it reclaimed and what had been completed.
TickSettles ==
    proc[Sweeper].pc # "idle" =>
        proc[Sweeper].pc \in Settling /\ attempts[proc[Sweeper].a].status \in {"cancelled", "completed"}

ResumeInv ==
    /\ Base /\ NoGaps /\ ReclaimedEnds
    /\ ActiveIsNewest /\ OneNode /\ GoalsOK /\ BeforeLaunch /\ OwnAttempts /\ OneEngaged /\ TakesTurns /\ TickSettles

------------------------------------------------------------------------------
\* The kinds of step.
CallMoves(p) ==
    \/ Call(p)
    \/ CancelLaunch(p) /\ UNCHANGED <<drive, due>>

DriveMoves(p) ==
    \/ \E r \in Runs : ClaimUnresolvable(p, r)
    \/ \E n \in NodeRuns : FindParked(p, n)
    \/ FailUnresolvable(p) \/ ClaimParked(p) \/ Resume(p) \/ StoreFails(p) \/ ConsumerDies(p)
    \/ Repark(p) \/ ParkNode(p) \/ ParkRun(p)

TickMoves == (RecoveryTick \/ ReconcileStep(Sweeper)) /\ UNCHANGED <<drive, due>>

StoreMoves ==
    /\ \/ UNCHANGED vars
       \/ \E r \in Runs : CreateRun(r, "queued")
       \/ \E a \in Attempts : RenewLease(a, a)
       \/ \E r \in Runs, target \in RunEnds : TransitionRun(r, target)
       \/ Tick
    /\ UNCHANGED <<proc, sweep, drive>>

LEMMA KindsOfStep ==
    ASSUME Base, [ConsumerNext]_consumerVars
    PROVE  \/ \E p \in Tasks, r \in Runs, node \in Nodes, n \in NodeRuns, a \in Attempts :
                ExecuteAdmitted(p, r, node, n, a)
           \/ \E p \in Tasks : CallMoves(p)
           \/ \E p \in Tasks : DriveMoves(p)
           \/ TickMoves
           \/ StoreMoves
<1>1. ASSUME NEW p \in Tasks, Heartbeat(p), UNCHANGED <<drive, due>> PROVE StoreMoves
  <2>1. Shapes /\ Parents /\ p \in Procs
    BY DEF Base, IInv, Procs
  <2>2. proc[p].a \in Attempts
    BY <1>1, <2>1, WorkedOn DEF Heartbeat, Base
  <2> QED
    BY <1>1, <2>2 DEF Heartbeat, StoreMoves
<1>2. CASE Elsewhere
  BY <1>1, <1>2 DEF Elsewhere, AdmitRun, EndRun, LeasesLapse, TimePasses, CallMoves, TickMoves, StoreMoves
<1>3. CASE (\E a \in Attempts : Elapses(a)) \/ UNCHANGED consumerVars
  BY <1>3 DEF Elapses, consumerVars, StoreMoves, vars
<1>4. ASSUME NEW p \in Tasks, Consume(p) \/ StoreFails(p) \/ ConsumerDies(p) PROVE CallMoves(p) \/ DriveMoves(p)
  BY <1>4 DEF Consume, CallMoves, DriveMoves
<1>5. ASSUME NEW p \in Tasks, NEW r \in Runs, ClaimUnresolvable(p, r) PROVE DriveMoves(p)
  BY <1>5 DEF DriveMoves
<1>6. ASSUME NEW p \in Tasks, NEW n \in NodeRuns, FindParked(p, n) PROVE DriveMoves(p)
  BY <1>6 DEF DriveMoves
<1> QED
  BY <1>2, <1>3, <1>4, <1>5, <1>6 DEF ConsumerNext

\* The claim of a queued Run.
Admits(p, r, n, a) ==
    /\ drive[p].pc = "none" /\ proc[p] = Idle
    /\ proc'[p].pc = "launch" /\ proc'[p].n = n /\ proc'[p].a = a /\ proc'[p].goal = "none"
    /\ drive' = drive /\ sweep' = sweep /\ Others(p)
    /\ nodeRuns[n].status = "absent" /\ attempts[a].status = "absent" /\ NextId(attempts, a)
    /\ runStatus[r] = "queued" /\ runStatus'[r] = "running" /\ nodeRuns'[n].run = r
    /\ attempts'[a].nodeRun = n /\ attempts'[a].status = "running" /\ attempts'[a].reclaimed = FALSE
    /\ \A q \in Runs : q # r => runStatus'[q] = runStatus[q]
    /\ \A m \in NodeRuns : m # n => nodeRuns'[m] = nodeRuns[m]
    /\ AllBut(a)

LEMMA AdmittedMoves ==
    ASSUME Base, NEW p \in Tasks, NEW r \in Runs, NEW node \in Nodes, NEW n \in NodeRuns, NEW a \in Attempts,
           ExecuteAdmitted(p, r, node, n, a)
    PROVE  Admits(p, r, n, a)
<1> DEFINE s == [Idle EXCEPT !.pc = "launch", !.n = n, !.a = a]
<1>0. Shapes /\ ExecTypeOK /\ p \in Procs
  BY DEF Base, IInv, Procs
<1>1. s.pc = "launch" /\ s.n = n /\ s.a = a /\ s.goal = "none"
  BY DEF Idle
<1>2. Becomes(p, s) /\ ClaimConsumerRun(r, node, n, a) /\ drive' = drive /\ drive[p].pc = "none" /\ proc[p].pc = "idle"
  BY DEF ExecuteAdmitted, ClaimRun, Free
<1> HIDE DEF s
<1>3. proc'[p] = s /\ Others(p) /\ sweep' = sweep
  BY <1>0, <1>2, BecomesEffect
<1>4. proc[p] = Idle
  BY <1>2, Driven DEF Fits
<1>5. /\ runStatus[r] = "queued" /\ runStatus'[r] = "running" /\ nodeRuns'[n].run = r
      /\ \A q \in Runs : q # r => runStatus'[q] = runStatus[q]
      /\ nodeRuns[n].status = "absent" /\ attempts[a].status = "absent"
      /\ attempts'[a].status = "running" /\ attempts'[a].nodeRun = n
      /\ \A m \in NodeRuns : m # n => nodeRuns'[m] = nodeRuns[m]
      /\ \A b \in Attempts : b # a => attempts'[b] = attempts[b]
  BY <1>0, <1>2, ClaimEffect DEF Kept, KeptAttempt
<1>6. attempts'[a].reclaimed = FALSE /\ NextId(attempts, a)
  BY <1>0, <1>2 DEF ClaimConsumerRun, NewAttempt, Shapes
<1> QED
  BY <1>1, <1>2, <1>3, <1>4, <1>5, <1>6 DEF Admits, AllBut, AsBefore

\* A step of a call: the consumer keeps what it holds until the call is over.
LEMMA CallMovesOne ==
    ASSUME Base, NEW p \in Tasks, CallMoves(p)
    PROVE  /\ GoesOn(p) /\ Ahead(p) /\ ProcStep(p) /\ Others(p) /\ SweepShrinks
           /\ \A q \in Tasks : q # p => drive'[q] = drive[q]
           /\ \/ drive'[p] = drive[p]
              \/ /\ proc'[p] = Idle /\ drive[p].pc = "call"
                 /\ drive'[p].pc \in {"none", "repark"} /\ (drive'[p].pc = "repark" => drive'[p].n = drive[p].n)
           /\ drive[p].pc = "call" /\ proc'[p] = Idle => drive'[p].pc \in {"none", "repark"}
<1>0. IInv /\ ExecTypeOK /\ PlansOK /\ drive \in [Tasks -> DriveRecord] /\ Idle.pc = "idle" /\ NoDrive.pc = "none"
  BY DEF Base, DriveOK, Idle, NoDrive
<1>1. GoesOn(p) /\ Ahead(p) /\ ProcStep(p) /\ Others(p) /\ SweepShrinks
  BY <1>0, CallGoesOn, CallGoesAhead DEF CallMoves, Call
<1>2. CASE drive' = drive /\ ~(drive[p].pc = "call" /\ proc'[p] = Idle)
  BY <1>1, <1>2
<1>3. CASE CancelLaunch(p) /\ drive' = drive
  <2>1. proc'[p].pc = "settle"
    BY <1>0, <1>3, AimEffect DEF CancelLaunch, Procs
  <2> QED
    BY <1>0, <1>2, <1>3, <2>1
<1>4. ASSUME NEW d, drive' = [drive EXCEPT ![p] = d], drive[p].pc = "call", proc'[p].pc = "idle",
             d = NoDrive \/ d = [drive[p] EXCEPT !.pc = "repark"]
      PROVE  /\ \A q \in Tasks : q # p => drive'[q] = drive[q]
             /\ drive'[p].pc \in {"none", "repark"} /\ (drive'[p].pc = "repark" => drive'[p].n = drive[p].n)
             /\ proc'[p] = Idle
  <2>1. drive'[p] = d /\ \A q \in Tasks : q # p => drive'[q] = drive[q]
    BY <1>0, <1>4
  <2>2. proc'[p] = Idle
    BY <1>1, <1>4 DEF GoesOn
  <2>3. [drive[p] EXCEPT !.pc = "repark"].pc = "repark" /\ [drive[p] EXCEPT !.pc = "repark"].n = drive[p].n
    BY <1>0 DEF DriveRecord
  <2> QED
    BY <1>0, <1>4, <2>1, <2>2, <2>3
<1>5. CASE Call(p) /\ drive[p].pc = "call" /\ proc'[p].pc = "idle"
  <2>1. drive' = [drive EXCEPT ![p] = NoDrive] \/ drive' = [drive EXCEPT ![p] = [drive[p] EXCEPT !.pc = "repark"]]
    BY <1>0, <1>5 DEF Call
  <2> QED
    BY <1>1, <1>4, <1>5, <2>1
<1> QED
  BY <1>0, <1>1, <1>2, <1>3, <1>5 DEF CallMoves, Call

\* A step around the call.
LEMMA DriveMovesOne ==
    ASSUME Base, NEW p \in Tasks, DriveMoves(p)
    PROVE  /\ Others(p) /\ sweep' = sweep /\ attempts' = attempts
           /\ \A q \in Tasks : q # p => drive'[q] = drive[q]
           /\ \/ proc'[p] = proc[p] /\ proc[p] = Idle
              \/ proc'[p] = Idle
              \/ Resume(p) /\ Resumable(drive[p].n) /\ proc'[p].pc = "check" /\ proc'[p].n = drive[p].n
                    /\ drive'[p].pc = "call"
           /\ \/ drive'[p].pc \in {"none", "dispose", "found"} /\ proc'[p] = Idle
              \/ drive[p].pc \in Holding /\ drive'[p].pc \in Holding /\ drive'[p].n = drive[p].n
              \/ /\ ClaimParked(p) /\ TransitionRun(drive[p].r, "running")
                 /\ drive[p].pc = "found" /\ drive'[p].pc = "claimed" /\ drive'[p].n = drive[p].n
<1>0. /\ drive \in [Tasks -> DriveRecord] /\ drive[p] \in DriveRecord /\ Fits(drive[p], proc[p], nodeRuns)
      /\ proc \in [Procs -> ProcRecord] /\ p \in Procs /\ NoDrive.pc = "none" /\ Idle.pc = "idle"
  BY Driven DEF Base, DriveOK, ExecTypeOK, Procs, NoDrive, Idle
<1>1. /\ \A d : Drives(p, d) => drive'[p] = d /\ \A q \in Tasks : q # p => drive'[q] = drive[q]
      /\ \A pc \in Holding : Drives(p, [drive[p] EXCEPT !.pc = pc]) =>
            drive'[p].pc = pc /\ drive'[p].n = drive[p].n /\ \A q \in Tasks : q # p => drive'[q] = drive[q]
  <2>1. ASSUME NEW d, Drives(p, d) PROVE drive'[p] = d /\ \A q \in Tasks : q # p => drive'[q] = drive[q]
    BY <1>0, <2>1 DEF Drives
  <2>2. ASSUME NEW pc \in Holding, Drives(p, [drive[p] EXCEPT !.pc = pc])
        PROVE  drive'[p].pc = pc /\ drive'[p].n = drive[p].n
    <3>1. drive'[p] = [drive[p] EXCEPT !.pc = pc]
      BY <2>1, <2>2
    <3> QED
      BY <1>0, <3>1 DEF DriveRecord
  <2> QED
    BY <2>1, <2>2
<1>2. \A s : proc' = [proc EXCEPT ![p] = s] => proc'[p] = s /\ Others(p)
  BY <1>0 DEF Others
<1>3. proc' = proc => proc'[p] = proc[p] /\ Others(p)
  BY DEF Others
<1>4. {"claimed", "call", "repark", "parkNode", "parkRun"} \subseteq Holding
  BY DEF Holding
<1>5. ASSUME NEW r \in Runs, ClaimUnresolvable(p, r)
      PROVE  proc[p] = Idle /\ drive'[p].pc = "dispose" /\ \A q \in Tasks : q # p => drive'[q] = drive[q]
  <2> DEFINE d == [NoDrive EXCEPT !.pc = "dispose", !.r = r]
  <2>1. d.pc = "dispose"
    BY DEF NoDrive
  <2>2. Drives(p, d) /\ proc[p] = Idle
    BY <1>0, <1>5 DEF ClaimUnresolvable, Free, Fits
  <2> HIDE DEF d
  <2> QED
    BY <1>1, <2>1, <2>2
<1>6. ASSUME NEW n \in NodeRuns, FindParked(p, n) PROVE proc[p] = Idle
  BY <1>0, <1>6 DEF FindParked, Free, Fits
<1>8. CASE \E r \in Runs : ClaimUnresolvable(p, r)
  BY <1>0, <1>3, <1>5, <1>8 DEF ClaimUnresolvable, TransitionRun
<1>9. CASE \E n \in NodeRuns : FindParked(p, n)
  BY <1>1, <1>3, <1>6, <1>9 DEF FindParked, vars
<1>10. CASE FailUnresolvable(p) \/ ClaimParked(p) \/ Repark(p) \/ ParkNode(p) \/ ParkRun(p)
  <2>1. proc[p] = Idle /\ proc' = proc /\ sweep' = sweep /\ attempts' = attempts
    BY <1>0, <1>10 DEF FailUnresolvable, ClaimParked, Repark, ParkNode, ParkRun, Fits, TransitionRun, TransitionNodeRun, vars
  <2>2. CASE FailUnresolvable(p) \/ ParkRun(p)
    BY <1>0, <1>1, <1>3, <2>1, <2>2 DEF FailUnresolvable, ParkRun
  <2>3. CASE Repark(p) \/ ParkNode(p)
    BY <1>0, <1>1, <1>3, <1>4, <2>1, <2>3 DEF Repark, ParkNode, Holding
  <2>4. CASE ClaimParked(p)
    BY <1>0, <1>1, <1>3, <1>4, <2>1, <2>4 DEF ClaimParked
  <2> QED
    BY <1>10, <2>2, <2>3, <2>4
<1>11. CASE StoreFails(p) \/ ConsumerDies(p)
  BY <1>0, <1>1, <1>2, <1>4, <1>11 DEF StoreFails, ConsumerDies, Holding, vars
<1>12. CASE Resume(p)
  <2>1. [Idle EXCEPT !.pc = "check", !.n = drive[p].n].pc = "check" /\ [Idle EXCEPT !.pc = "check", !.n = drive[p].n].n = drive[p].n
    BY DEF Idle
  <2>2. attempts' = attempts /\ sweep' = sweep /\ drive[p].pc = "claimed" /\ proc[p] = Idle
    BY <1>0, <1>12 DEF Resume, vars, Fits
  <2>3. CASE Resumable(drive[p].n)
    BY <1>0, <1>1, <1>2, <1>4, <1>12, <2>1, <2>2, <2>3 DEF Resume, Holding
  <2>4. CASE ~Resumable(drive[p].n)
    BY <1>0, <1>1, <1>3, <1>4, <1>12, <2>2, <2>4 DEF Resume, Holding
  <2> QED
    BY <2>3, <2>4
<1> QED
  BY <1>8, <1>9, <1>10, <1>11, <1>12 DEF DriveMoves

\* The tick and the store's other callers move no consumer.
LEMMA NobodyMoves ==
    ASSUME Base, TickMoves \/ StoreMoves
    PROVE  drive' = drive /\ \A q \in Tasks : proc'[q] = proc[q]
<1>1. CASE TickMoves
  BY <1>1, TickMovesNobody DEF TickMoves, RecoveryTick, Base
<1>2. CASE StoreMoves
  BY <1>2 DEF StoreMoves
<1> QED
  BY <1>1, <1>2

\* Whatever the step, it moves one consumer at most.
LEMMA OneMover ==
    ASSUME Base, [ConsumerNext]_consumerVars
    PROVE  \E m \in Procs : \A q \in Tasks : q # m => proc'[q] = proc[q] /\ drive'[q] = drive[q]
<1>0. Tasks \subseteq Procs /\ Sweeper \in Procs /\ Sweeper \notin Tasks
  BY CallAssumption DEF Procs
<1>1. ASSUME NEW p \in Tasks, NEW r \in Runs, NEW node \in Nodes, NEW n \in NodeRuns, NEW a \in Attempts,
             ExecuteAdmitted(p, r, node, n, a)
      PROVE  \A q \in Tasks : q # p => proc'[q] = proc[q] /\ drive'[q] = drive[q]
  <2>1. Admits(p, r, n, a)
    BY <1>1, AdmittedMoves
  <2> QED
    BY <1>0, <2>1 DEF Admits, Others
<1>2. ASSUME NEW p \in Tasks, CallMoves(p) PROVE \A q \in Tasks : q # p => proc'[q] = proc[q] /\ drive'[q] = drive[q]
  BY <1>0, <1>2, CallMovesOne DEF Others
<1>3. ASSUME NEW p \in Tasks, DriveMoves(p) PROVE \A q \in Tasks : q # p => proc'[q] = proc[q] /\ drive'[q] = drive[q]
  BY <1>0, <1>3, DriveMovesOne DEF Others
<1> QED
  BY <1>0, <1>1, <1>2, <1>3, KindsOfStep, NobodyMoves

\* No transition makes a NodeRun.
LEMMA TransitionsMakeNone ==
    ASSUME Shapes, NEW n \in NodeRuns, nodeRuns[n].status = "absent",
           \/ nodeRuns' = nodeRuns
           \/ \E r, target : TransitionRun(r, target)
           \/ \E m \in NodeRuns : \E target, outcome : TransitionNodeRun(m, target, outcome)
    PROVE  nodeRuns'[n].status = "absent"
<1>0. "absent" \notin OpenRunStatus /\ "absent" \notin RunStatus /\ nodeRuns \in [NodeRuns -> NodeRunRecord]
  BY StatusFacts DEF OpenRunStatus, Shapes
<1>1. ASSUME NEW r, NEW target, TransitionRun(r, target) PROVE nodeRuns'[n].status = "absent"
  <2>1. SettledUnder(r)[n] = nodeRuns[n]
    BY <1>0 DEF SettledUnder
  <2> QED
    BY <1>1, <2>1 DEF TransitionRun
<1>2. ASSUME NEW m \in NodeRuns, NEW target, NEW outcome, TransitionNodeRun(m, target, outcome)
      PROVE  nodeRuns'[n].status = "absent"
  <2>1. m # n
    BY <1>0, <1>2 DEF TransitionNodeRun, MayTransitionNodeRun
  <2> QED
    BY <1>0, <1>2, <2>1 DEF TransitionNodeRun
<1> QED
  BY <1>1, <1>2

\* Only the claim of a queued Run makes one.
LEMMA NodesBorn ==
    ASSUME Base, [ConsumerNext]_consumerVars, NEW n \in NodeRuns,
           nodeRuns[n].status = "absent", nodeRuns'[n].status # "absent"
    PROVE  \E p \in Tasks, r \in Runs, node \in Nodes, a \in Attempts : ExecuteAdmitted(p, r, node, n, a)
<1>0. Shapes /\ Parents /\ ExecTypeOK /\ Tasks \subseteq Procs
  BY DEF Base, IInv, Procs
<1>1. ASSUME NEW p \in Tasks, NEW r \in Runs, NEW node \in Nodes, NEW m \in NodeRuns, NEW a \in Attempts,
             ExecuteAdmitted(p, r, node, m, a)
      PROVE  m = n
  <2>1. Admits(p, r, m, a)
    BY <1>1, AdmittedMoves
  <2> QED
    BY <2>1 DEF Admits
<1>2. ASSUME NEW p \in Procs, CallStep(p) \/ ReconcileStep(p) \/ CancelLaunch(p)
      PROVE  nodeRuns'[n].status = "absent"
  <2>1. proc[p].pc # "idle" => proc[p].n \in NodeRuns
    BY <1>0, WorkedOn
  <2>2. CASE WriteNodeRun(p) \/ ConcludeRun(p)
    BY <1>0, <2>1, <2>2, TransitionsMakeNone DEF WriteNodeRun, ConcludeRun, vars
  <2>3. CASE EnsureRunRunning(p) \/ EnsureNodeRunRunning(p)
    BY <1>0, <2>1, <2>3, TransitionsMakeNone DEF EnsureRunRunning, EnsureNodeRunRunning, vars
  <2>4. nodeRuns' = nodeRuns => nodeRuns'[n].status = "absent"
    OBVIOUS
  <2> QED
    BY <1>2, <2>2, <2>3, <2>4
       DEF CallStep, ReconcileStep, RejectUnacceptedCompletion, StartAttempt, CreateAttempt, PrepareExecution, Launch,
           FenceLaunch, CancelLaunch, ProviderReturns, SettleProviderSuccess, TerminalizeIfOpen, AcceptOutcome,
           ReconcileCompleted, ReconcileRequested, ReconcileParked, ObserveRun, TransitionAttempt, vars
<1>3. ASSUME NEW p \in Tasks, DriveMoves(p) PROVE nodeRuns'[n].status = "absent"
  <2>1. drive[p].pc = "parkNode" => drive[p].n \in NodeRuns
    BY Driven DEF Holding
  <2> QED
    BY <1>0, <1>3, <2>1, TransitionsMakeNone
       DEF DriveMoves, ClaimUnresolvable, FindParked, FailUnresolvable, ClaimParked, Resume, StoreFails, ConsumerDies,
           Repark, ParkNode, ParkRun, vars
<1>4. CASE TickMoves
  <2>1. CASE ReconcileStep(Sweeper)
    BY <1>2, <2>1 DEF Procs
  <2>2. CASE RecoveryTick
    BY <2>2 DEF RecoveryTick, SweepStep, SweepReclaim, SweepReclaimed, SweepList, SweepReplay, ReclaimExpiredAttempts, vars
  <2> QED
    BY <1>4, <2>1, <2>2 DEF TickMoves
<1>5. CASE StoreMoves
  BY <1>0, <1>5, TransitionsMakeNone DEF StoreMoves, CreateRun, RenewLease, Tick, vars
<1>6. ASSUME NEW p \in Tasks, CallMoves(p) PROVE nodeRuns'[n].status = "absent"
  BY <1>0, <1>2, <1>6 DEF CallMoves, Call
<1> QED
  BY <1>1, <1>3, <1>4, <1>5, <1>6, KindsOfStep

\* Who is engaged with a NodeRun.
LEMMA EngagedFacts ==
    ASSUME Base, NEW p \in Tasks
    PROVE  /\ proc[p].pc # "idle" => Engaged(p, proc[p].n) /\ drive[p].pc \in {"none", "call"}
           /\ \A n : Engaged(p, n) => n \in NodeRuns /\ nodeRuns[n].status # "absent"
           /\ \A n : Engaged(p, n) /\ proc[p].pc # "idle" => n = proc[p].n
<1>0. /\ Fits(drive[p], proc[p], nodeRuns) /\ drive[p] \in DriveRecord /\ p \in Procs
      /\ Placed(proc[p], nodeRuns, attempts) /\ Idle.pc = "idle"
  BY Driven DEF Base, ExecTypeOK, Procs, Idle
<1>1. proc[p].pc # "idle" => drive[p].pc \in {"none", "call"} /\ proc[p].n \in NodeRuns /\ nodeRuns[proc[p].n].status # "absent"
  BY <1>0 DEF Fits, Placed
<1> QED
  BY <1>0, <1>1 DEF Engaged, Resuming, Fits, Holding

\* Nobody becomes engaged with a NodeRun that exists but by claiming its Run.
LEMMA EngagedWas ==
    ASSUME Base, [ConsumerNext]_consumerVars, NEW p \in Tasks, NEW n \in NodeRuns,
           nodeRuns[n].status # "absent", Engaged(p, n)'
    PROVE  Engaged(p, n) \/ (ClaimParked(p) /\ drive[p].pc = "found" /\ drive[p].n = n /\ TransitionRun(drive[p].r, "running"))
<1>0. Fits(drive[p], proc[p], nodeRuns) /\ drive[p] \in DriveRecord /\ Idle.pc = "idle"
  BY Driven DEF Idle
<1>1. CASE proc'[p] = proc[p] /\ drive'[p] = drive[p]
  BY <1>1 DEF Engaged, Resuming
<1>2. ASSUME NEW r \in Runs, NEW node \in Nodes, NEW m \in NodeRuns, NEW a \in Attempts, ExecuteAdmitted(p, r, node, m, a)
      PROVE  Engaged(p, n)
  <2>1. m # n /\ drive'[p].pc = "none" /\ proc'[p].n = m
    <3>1. Admits(p, r, m, a)
      BY <1>2, AdmittedMoves
    <3> QED
      BY <3>1 DEF Admits
  <2> QED
    BY <2>1 DEF Engaged, Resuming
<1>3. CASE CallMoves(p)
  <2>1. proc[p].pc # "idle" /\ (proc'[p] = Idle \/ (proc'[p].pc # "idle" /\ proc'[p].n = proc[p].n))
    BY <1>3, CallMovesOne DEF GoesOn
  <2>2. CASE drive'[p] = drive[p]
    BY <1>0, <2>1, <2>2 DEF Engaged, Resuming
  <2>3. CASE /\ proc'[p] = Idle /\ drive[p].pc = "call"
             /\ drive'[p].pc \in {"none", "repark"} /\ (drive'[p].pc = "repark" => drive'[p].n = drive[p].n)
    BY <1>0, <2>3 DEF Engaged, Resuming
  <2> QED
    BY <1>3, <2>2, <2>3, CallMovesOne
<1>4. CASE DriveMoves(p)
  <2>1. CASE drive'[p].pc \in {"none", "dispose", "found"} /\ proc'[p] = Idle
    BY <1>0, <2>1 DEF Engaged, Resuming
  <2>2. CASE drive[p].pc \in Holding /\ drive'[p].pc \in Holding /\ drive'[p].n = drive[p].n
    BY <2>2 DEF Engaged, Resuming, Holding
  <2>3. CASE /\ ClaimParked(p) /\ TransitionRun(drive[p].r, "running")
             /\ drive[p].pc = "found" /\ drive'[p].pc = "claimed" /\ drive'[p].n = drive[p].n
    BY <2>3 DEF Engaged, Resuming
  <2> QED
    BY <1>4, <2>1, <2>2, <2>3, DriveMovesOne
<1>5. ASSUME NEW q \in Tasks, q # p, CallMoves(q) \/ DriveMoves(q)
      PROVE  proc'[p] = proc[p] /\ drive'[p] = drive[p]
  BY <1>5, CallMovesOne, DriveMovesOne DEF Others, Procs
<1>6. ASSUME NEW q \in Tasks, q # p, NEW r \in Runs, NEW node \in Nodes, NEW m \in NodeRuns, NEW a \in Attempts,
             ExecuteAdmitted(q, r, node, m, a)
      PROVE  proc'[p] = proc[p] /\ drive'[p] = drive[p]
  <2>1. Admits(q, r, m, a)
    BY <1>6, AdmittedMoves
  <2> QED
    BY <1>6, <2>1 DEF Admits, Others, Procs
<1> QED
  BY <1>1, <1>2, <1>3, <1>4, <1>5, <1>6, KindsOfStep, NobodyMoves

------------------------------------------------------------------------------
\* An Attempt under a NodeRun that exists is begun by a call at its creation.
LEMMA OnlyBegun ==
    ASSUME Base, [ConsumerNext]_consumerVars, NEW c \in Attempts, ~Exist(c), Exist(c)',
           NEW n \in NodeRuns, nodeRuns[n].status # "absent", attempts'[c].nodeRun = n
    PROVE  \E p \in Tasks : Begins(p, c) /\ proc[p].n = n
<1>0. IInv /\ Shapes /\ ExecTypeOK /\ AttemptsMove /\ "absent" \notin ActiveAttemptStatus
  BY ConsumersMoveAttempts, StatusFacts DEF Base, IInv, AttemptStatus
<1>1. ~AsBefore(c)
  BY DEF AsBefore, Exist
<1>2. ASSUME NEW p \in Tasks, NEW a \in Attempts, Begins(p, a) PROVE a = c /\ proc[p].n = n
  BY <1>1, <1>2 DEF Begins, AllBut
<1>3. ASSUME NEW p \in Tasks, MovesOn(p) PROVE FALSE
  BY <1>0, <1>1, <1>3 DEF MovesOn, AllBut, Active, Exist
<1>4. ASSUME NEW p \in Tasks, NEW r \in Runs, NEW node \in Nodes, NEW m \in NodeRuns, NEW a \in Attempts,
             ClaimRun(p, r, node, m, a)
      PROVE  FALSE
  <2>1. /\ attempts'[a].nodeRun = m /\ nodeRuns[m].status = "absent"
        /\ \A b \in Attempts : b # a => attempts'[b] = attempts[b]
    BY <1>0, <1>4, ClaimEffect DEF ClaimRun, KeptAttempt
  <2> QED
    BY <2>1 DEF Exist
<1>5. ASSUME NEW batch \in SUBSET Attempts, SweepReclaim(batch) PROVE FALSE
  <2>1. /\ \A a \in batch : attempts[a].status \in ActiveAttemptStatus
        /\ \A a \in Attempts : a \notin batch => attempts'[a] = attempts[a]
    BY <1>0, <1>5, ReclaimEffect DEF SweepReclaim, KeptAttempt
  <2> QED
    BY <1>0, <2>1 DEF Exist
<1> QED
  BY <1>0, <1>1, <1>2, <1>3, <1>4, <1>5 DEF AttemptsMove

\* A reclaimed Attempt has ended, so it stays reclaimed, and no other becomes it
\* but by recovery.
LEMMA StepKeepsReclaimedEnds ==
    ASSUME Base, ReclaimedEnds, [ConsumerNext]_consumerVars
    PROVE  ReclaimedEnds'
<1> SUFFICES ASSUME NEW a \in Attempts, attempts'[a].reclaimed PROVE attempts'[a].status = "cancelled"
  BY DEF ReclaimedEnds
<1>0. IInv /\ Shapes /\ ExecTypeOK /\ AttemptsMove /\ "cancelled" \notin ActiveAttemptStatus
  BY ConsumersMoveAttempts DEF Base, IInv, ActiveAttemptStatus
<1>1. CASE AsBefore(a)
  BY <1>1 DEF AsBefore, ReclaimedEnds
<1>2. ASSUME NEW p \in Tasks, NEW b \in Attempts, Begins(p, b) PROVE AsBefore(a)
  BY <1>2 DEF Begins, AllBut
<1>3. ASSUME NEW p \in Tasks, MovesOn(p) PROVE AsBefore(a)
  BY <1>0, <1>3 DEF MovesOn, AllBut, ReclaimedEnds, Active
<1>4. ASSUME NEW p \in Tasks, NEW r \in Runs, NEW node \in Nodes, NEW m \in NodeRuns, NEW b \in Attempts,
             ClaimRun(p, r, node, m, b)
      PROVE  AsBefore(a)
  <2>1. ClaimConsumerRun(r, node, m, b)
    BY <1>4 DEF ClaimRun
  <2>2. \A c \in Attempts : c # b => attempts'[c] = attempts[c]
    BY <1>0, <2>1, ClaimEffect DEF KeptAttempt
  <2>3. attempts'[b].reclaimed = FALSE
    BY <1>0, <2>1 DEF ClaimConsumerRun, NewAttempt, Shapes
  <2> QED
    BY <2>2, <2>3 DEF AsBefore
<1>5. ASSUME NEW batch \in SUBSET Attempts, SweepReclaim(batch), a \notin batch PROVE AsBefore(a)
  BY <1>0, <1>5, ReclaimEffect DEF SweepReclaim, KeptAttempt, AsBefore
<1>6. ASSUME NEW batch \in SUBSET Attempts, SweepReclaim(batch), a \in batch PROVE attempts'[a].status = "cancelled"
  BY <1>0, <1>6, ReclaimEffect DEF SweepReclaim
<1> QED
  BY <1>0, <1>1, <1>2, <1>3, <1>4, <1>5, <1>6 DEF AttemptsMove

\* The ids of Attempts are handed out in order, by the consumers as well.
LEMMA ConsumersKeepGaps ==
    ASSUME Base, NoGaps, [ConsumerNext]_consumerVars
    PROVE  NoGaps'
<1>0. IInv /\ ExecTypeOK /\ PlansOK
  BY DEF Base
<1>1. CASE \E p \in Tasks : OwnStep(p)
  BY <1>0, <1>1, OwnStepFacts DEF NoGaps, Exist
<1> QED
  BY <1>0, <1>1, StepSplit, StepKeepsGaps

\* The newest Attempt of a NodeRun stays so until another one is begun.
LEMMA NewestUntilBegun ==
    ASSUME Base, [ConsumerNext]_consumerVars, NEW a \in Attempts, Exist(a), NewestAttempt(a)
    PROVE  NewestAttempt(a)' \/ \E p \in Tasks, c \in Attempts : Begins(p, c) /\ proc[p].n = attempts[a].nodeRun
<1> SUFFICES ASSUME NEW c \in Attempts, Exist(c)', attempts'[c].nodeRun = attempts'[a].nodeRun, ~(c <= a)
             PROVE  \E p \in Tasks : Begins(p, c) /\ proc[p].n = attempts[a].nodeRun
  BY DEF NewestAttempt
<1>0. Grows /\ attempts[a].nodeRun \in NodeRuns /\ nodeRuns[attempts[a].nodeRun].status # "absent"
  BY ConsumerStepFacts DEF Base, IInv, Parents, Exist
<1>1. attempts'[a].nodeRun = attempts[a].nodeRun /\ (Exist(c) => attempts'[c].nodeRun = attempts[c].nodeRun)
  BY <1>0 DEF Grows, Exist
<1>2. ~Exist(c)
  BY <1>1 DEF NewestAttempt
<1> QED
  BY <1>0, <1>1, <1>2, OnlyBegun

\* A new Attempt is the newest.
LEMMA BegunIsNewest ==
    ASSUME Shapes, NoGaps, NEW a \in Attempts, NextId(attempts, a), AllBut(a)
    PROVE  NewestAttempt(a)'
<1>1. ASSUME NEW b \in Attempts, Exist(b)' PROVE b <= a
  <2>0. a \in Nat /\ b \in Nat
    BY IdAssumption
  <2>1. CASE b = a
    BY <2>0, <2>1
  <2>2. CASE b # a
    <3>1. Exist(b)
      BY <1>1, <2>2 DEF AllBut, AsBefore, Exist
    <3>2. b < a
      BY <3>1, BornIsNewest
    <3> QED
      BY <2>0, <3>2
  <2> QED
    BY <2>1, <2>2
<1> QED
  BY <1>1 DEF NewestAttempt

\* Only the newest Attempt of a NodeRun may still run.
LEMMA StepKeepsActiveIsNewest ==
    ASSUME Base, NoGaps, ActiveIsNewest, [ConsumerNext]_consumerVars
    PROVE  ActiveIsNewest'
<1> SUFFICES ASSUME NEW a \in Attempts, Active(a)' PROVE NewestAttempt(a)'
  BY DEF ActiveIsNewest
<1>0. IInv /\ Shapes /\ Parents /\ ExecTypeOK /\ AttemptsMove /\ "absent" \notin ActiveAttemptStatus /\ Grows
      /\ \A b \in Attempts : Exist(b) => b \in Attempts /\ attempts[b].status \in AttemptStatus
      /\ \A c \in Attempts : c \in Nat
  BY ConsumersMoveAttempts, ConsumerStepFacts, StatusFacts, IdAssumption
     DEF Base, IInv, Shapes, AttemptRecord, Exist, AttemptStatus
<1>1. CASE Exist(a)
  <2>1. Active(a)
    <3>1. CASE attempts[a].status \in TerminalAttemptStatus
      BY <1>0, <3>1, EndedAttemptStays DEF AsBefore, Active, TerminalAttemptStatus
    <3> QED
      BY <1>0, <1>1, <3>1 DEF TerminalAttemptStatus, Active
  <2>2. ASSUME NEW p \in Tasks, NEW c \in Attempts, Begins(p, c), proc[p].n = attempts[a].nodeRun PROVE FALSE
    <3>1. ~HasActiveAttempt(proc[p].n)
      BY <2>2 DEF Begins, MayCreateAttempt
    <3>2. a \in AttemptsOf(proc[p].n)
      BY <1>0, <1>1, <2>2, AttemptsOfFacts DEF Exist
    <3> QED
      BY <2>1, <3>1, <3>2 DEF HasActiveAttempt, Active
  <2> QED
    BY <1>1, <2>1, <2>2, NewestUntilBegun DEF ActiveIsNewest
<1>2. CASE ~Exist(a)
  <2>1. Exist(a)' /\ ~AsBefore(a) /\ attempts[a].status = "absent"
    BY <1>0, <1>2 DEF Exist, Active, AsBefore
  <2>2. NextId(attempts, a) /\ AllBut(a) => NewestAttempt(a)'
    BY <1>0, BegunIsNewest
  <2>3. ASSUME NEW p \in Tasks, NEW b \in Attempts, Begins(p, b) PROVE NewestAttempt(a)'
    BY <2>1, <2>2, <2>3 DEF Begins, AllBut
  <2>4. ASSUME NEW p \in Tasks, MovesOn(p) PROVE FALSE
    BY <1>0, <2>1, <2>4 DEF MovesOn, AllBut, Active, Exist
  <2>5. ASSUME NEW p \in Tasks, NEW r \in Runs, NEW node \in Nodes, NEW n \in NodeRuns, NEW b \in Attempts,
               ClaimRun(p, r, node, n, b)
        PROVE  NewestAttempt(a)'
    <3>1. /\ \A c \in Attempts : c # b => attempts'[c] = attempts[c]
          /\ NextId(attempts, b)
      BY <1>0, <2>5, ClaimEffect DEF ClaimRun, ClaimConsumerRun, KeptAttempt
    <3> QED
      BY <2>1, <2>2, <3>1 DEF AllBut, AsBefore
  <2>6. ASSUME NEW batch \in SUBSET Attempts, SweepReclaim(batch) PROVE FALSE
    <3>1. /\ \A c \in batch : attempts[c].status \in ActiveAttemptStatus
          /\ \A c \in Attempts : c \notin batch => attempts'[c] = attempts[c]
      BY <1>0, <2>6, ReclaimEffect DEF SweepReclaim, KeptAttempt
    <3> QED
      BY <1>0, <2>1, <3>1 DEF AsBefore
  <2> QED
    BY <1>0, <2>1, <2>3, <2>4, <2>5, <2>6 DEF AttemptsMove
<1> QED
  BY <1>1, <1>2

------------------------------------------------------------------------------
\* What runs is what a resume looks at.
LEMMA ActiveIsLast ==
    ASSUME IInv, ReclaimedEnds, ActiveIsNewest, NEW a \in Attempts, Active(a)
    PROVE  /\ Exist(a) /\ attempts[a].nodeRun \in NodeRuns /\ nodeRuns[attempts[a].nodeRun].status # "absent"
           /\ Last(a, attempts[a].nodeRun) /\ Live(attempts[a].nodeRun)
<1>1. Exist(a) /\ ~attempts[a].reclaimed
  BY StatusFacts DEF Active, Exist, ReclaimedEnds, ActiveAttemptStatus, AttemptStatus
<1>2. \A c \in Attempts : c \in Nat
  BY IdAssumption
<1>3. Last(a, attempts[a].nodeRun)
  BY <1>1, <1>2 DEF Last, ActiveIsNewest, NewestAttempt
<1> QED
  BY <1>1, <1>3 DEF Live, IInv, Parents, Exist

\* A NodeRun does not come alive by a step: a call begins another Attempt only
\* under a pause that has elapsed.
LEMMA LiveWas ==
    ASSUME Base, ReclaimedEnds, ActiveIsNewest, BeforeLaunch, [ConsumerNext]_consumerVars,
           NEW n \in NodeRuns, nodeRuns[n].status # "absent", Live(n)'
    PROVE  Live(n)
<1>0. IInv /\ Shapes /\ ExecTypeOK /\ AttemptsMove /\ Grows
  BY ConsumersMoveAttempts, ConsumerStepFacts DEF Base, IInv
<1>1. PICK b \in Attempts : Last(b, n)' /\ (Active(b)' \/ TimedPause(b)')
  BY DEF Live
<1>2. ASSUME NEW c \in Attempts, Exist(c) PROVE Active(c) \/ attempts[c].status \in TerminalAttemptStatus
  BY <1>0, <1>2 DEF Shapes, AttemptRecord, Exist, Active, TerminalAttemptStatus
<1>3. CASE ~Exist(b)
  <2>1. PICK p \in Tasks : Begins(p, b) /\ proc[p].n = n
    BY <1>1, <1>3, OnlyBegun DEF Last
  <2>2. Elapsed(n)
    BY <2>1 DEF Begins, BeforeLaunch
  <2> QED
    BY <2>2 DEF Elapsed, Live
<1>4. CASE Exist(b)
  <2>1. attempts[b].nodeRun = n
    BY <1>0, <1>1, <1>4 DEF Grows, Exist, Last
  <2>2. CASE Active(b)
    BY <1>0, <2>1, <2>2, ActiveIsLast
  <2>3. CASE attempts[b].status \in TerminalAttemptStatus
    <3>1. AsBefore(b)
      BY <1>0, <2>3, EndedAttemptStays
    <3>2. TimedPause(b) /\ ~attempts[b].reclaimed
      BY <1>1, <2>3, <3>1 DEF AsBefore, Active, TimedPause, Last, TerminalAttemptStatus
    <3>3. CASE \E c \in Attempts : Active(c) /\ attempts[c].nodeRun = n
      BY <1>0, <3>3, ActiveIsLast
    <3>4. CASE \A c \in Attempts : Active(c) => attempts[c].nodeRun # n
      <4>1. ASSUME NEW c \in Attempts, Exist(c), attempts[c].nodeRun = n, b < c PROVE attempts[c].reclaimed
        <5>1. AsBefore(c)
          BY <1>0, <1>2, <3>4, <4>1, EndedAttemptStays
        <5> QED
          BY <1>1, <4>1, <5>1 DEF AsBefore, Last, Exist
      <4>2. Last(b, n)
        BY <1>4, <2>1, <3>2, <4>1 DEF Last
      <4> QED
        BY <3>2, <4>2 DEF Live
    <3> QED
      BY <3>3, <3>4
  <2> QED
    BY <1>2, <1>4, <2>2, <2>3
<1> QED
  BY <1>3, <1>4

\* What has fallen due stays so.
LEMMA DueStays ==
    ASSUME Base, [ConsumerNext]_consumerVars
    PROVE  due \subseteq due'
BY DEF ConsumerNext, ExecuteAdmitted, ClaimUnresolvable, FindParked, Consume, FailUnresolvable, ClaimParked, Resume,
       Call, Repark, ParkNode, ParkRun, StoreFails, ConsumerDies, Elapses, Elsewhere, consumerVars

\* A pause that has elapsed is there until somebody begins an Attempt after it.
LEMMA ElapsedStays ==
    ASSUME Base, ReclaimedEnds, [ConsumerNext]_consumerVars, NEW n \in NodeRuns, Elapsed(n)
    PROVE  Elapsed(n)' \/ \E p \in Tasks, c \in Attempts : Begins(p, c) /\ proc[p].n = n
<1>0. IInv /\ ExecTypeOK /\ AttemptsMove /\ Grows /\ {"yielded", "cancelled"} \subseteq TerminalAttemptStatus
  BY ConsumersMoveAttempts, ConsumerStepFacts DEF Base, TerminalAttemptStatus, AttemptStatus, ActiveAttemptStatus
<1>1. PICK b \in Attempts : Last(b, n) /\ TimedPause(b) /\ b \in due
  BY DEF Elapsed
<1>2. AsBefore(b) /\ b \in due'
  BY <1>0, <1>1, DueStays, EndedAttemptStays DEF TimedPause
<1>3. Exist(b)' /\ attempts'[b].nodeRun = n /\ ~attempts'[b].reclaimed /\ TimedPause(b)'
  BY <1>1, <1>2 DEF AsBefore, Last, TimedPause, Exist
<1>4. ASSUME NEW c \in Attempts, Exist(c)', attempts'[c].nodeRun = n, b < c, ~attempts'[c].reclaimed
      PROVE  \E p \in Tasks : Begins(p, c) /\ proc[p].n = n
  <2>1. ASSUME Exist(c) PROVE FALSE
    <3>1. attempts[c].nodeRun = n
      BY <1>0, <1>4, <2>1 DEF Grows, Exist
    <3>2. attempts[c].reclaimed
      BY <1>1, <1>4, <2>1, <3>1 DEF Last
    <3>3. AsBefore(c)
      BY <1>0, <3>2, EndedAttemptStays DEF ReclaimedEnds
    <3> QED
      BY <1>4, <3>2, <3>3 DEF AsBefore
  <2>2. nodeRuns[n].status # "absent"
    BY <1>0, <1>1 DEF IInv, Parents, Last, Exist
  <2> QED
    BY <1>4, <2>1, <2>2, OnlyBegun
<1>5. CASE \A c \in Attempts : Exist(c)' /\ attempts'[c].nodeRun = n /\ b < c => attempts'[c].reclaimed
  <2>1. Last(b, n)'
    BY <1>3, <1>5 DEF Last
  <2> QED
    BY <1>2, <1>3, <2>1 DEF Elapsed
<1> QED
  BY <1>4, <1>5

------------------------------------------------------------------------------
\* Whatever Attempt a consumer has, it had, or has just begun, or was given
\* with the claim; and it drives what it drove.
WorkKept(p) ==
    /\ drive'[p] = drive[p]
    /\ \/ proc[p].pc \in Working \union Settling /\ SameWork(p)
       \/ \E c \in Attempts : Begins(p, c)
       \/ \E r \in Runs, n \in NodeRuns, a \in Attempts : Admits(p, r, n, a)

LEMMA WorkWas ==
    ASSUME Base, [ConsumerNext]_consumerVars, NEW p \in Tasks, proc'[p].pc \in Working \union Settling
    PROVE  WorkKept(p)
<1>0. IInv /\ ExecTypeOK /\ p \in Procs /\ p # Sweeper /\ Idle.pc = "idle" /\ Idle.pc \notin Working \union Settling
      /\ "check" \notin Working \union Settling
  BY CallAssumption DEF Base, Procs, Idle, Working, Settling
<1>1. CASE proc'[p] = proc[p] /\ drive'[p] = drive[p]
  BY <1>1 DEF WorkKept, SameWork
<1>2. CASE CallMoves(p)
  <2>1. ProcStep(p) /\ Ahead(p) /\ proc[p].pc # "idle" /\ drive'[p] = drive[p]
    BY <1>0, <1>2, CallMovesOne DEF Ahead
  <2>2. CASE Starts(p)
    <3>1. StartAttempt(p)
      BY <2>1, <2>2 DEF Starts, Ahead
    <3>2. PICK b \in Attempts : CreateAttempt(b, proc[p].n, LeaseKind) /\ Becomes(p, [proc[p] EXCEPT !.pc = "prepare", !.a = b])
      <4>1. \A q : Finish(p) => proc'[p] = Idle
        BY <1>0, EndEffect
      <4> QED
        BY <1>0, <3>1, <4>1 DEF StartAttempt
    <3> QED
      BY <1>0, <2>1, <3>1, <3>2, CreationBegins DEF WorkKept
  <2>3. CASE Works(p) \/ Settles(p) \/ Decides(p) \/ Turns(p) \/ Observes(p) \/ proc'[p] = proc[p]
    BY <2>1, <2>3 DEF Works, Settles, Decides, Turns, Observes, Working, Settling, WorkKept, SameWork
  <2>4. ~Checked(p) /\ ~Claims(p) /\ ~Recovers(p)
    BY <1>0, <2>1 DEF Checked, Claims, Recovers, Working, Settling
  <2> QED
    BY <1>0, <2>1, <2>2, <2>3, <2>4 DEF ProcStep
<1>3. CASE DriveMoves(p)
  BY <1>0, <1>3, DriveMovesOne
<1>4. ASSUME NEW r \in Runs, NEW node \in Nodes, NEW n \in NodeRuns, NEW a \in Attempts, ExecuteAdmitted(p, r, node, n, a)
      PROVE  WorkKept(p)
  <2>1. Admits(p, r, n, a)
    BY <1>4, AdmittedMoves
  <2> QED
    BY <2>1 DEF Admits, WorkKept
<1>5. ASSUME NEW q \in Tasks, q # p, CallMoves(q) \/ DriveMoves(q) PROVE proc'[p] = proc[p] /\ drive'[p] = drive[p]
  BY <1>0, <1>5, CallMovesOne, DriveMovesOne DEF Others
<1>6. ASSUME NEW q \in Tasks, q # p, NEW r \in Runs, NEW node \in Nodes, NEW m \in NodeRuns, NEW a \in Attempts,
             ExecuteAdmitted(q, r, node, m, a)
      PROVE  proc'[p] = proc[p] /\ drive'[p] = drive[p]
  <2>1. Admits(q, r, m, a)
    BY <1>6, AdmittedMoves
  <2> QED
    BY <1>0, <1>6, <2>1 DEF Admits, Others
<1> QED
  BY <1>1, <1>2, <1>3, <1>4, <1>5, <1>6, KindsOfStep, NobodyMoves

\* What becomes of a Run in one step: only a consumer that held it parks it, and
\* only a disposition, or the one who gives it back.
Concludes(p, r) ==
    ConcludeRun(p) /\ TransitionRun(r, proc[p].goal) /\ RunOf(p) = r /\ runStatus'[r] = proc[p].goal

RunMoves(r) ==
    \/ runStatus'[r] = runStatus[r]
    \/ runStatus[r] = "absent" /\ runStatus'[r] = "queued"
    \/ runStatus'[r] \in {"running"} \union TerminalRunStatus
    \/ \E p \in Tasks : ParkRun(p) /\ drive[p].r = r /\ runStatus'[r] = "waiting"
    \/ \E p \in Tasks : Call(p) /\ Concludes(p, r)
    \/ Concludes(Sweeper, r)

LEMMA TransitionMovesRun ==
    ASSUME Shapes, NEW s, NEW target, TransitionRun(s, target), NEW r \in Runs
    PROVE  runStatus'[r] = runStatus[r] \/ (r = s /\ runStatus'[r] = target)
BY DEF Shapes, TransitionRun

LEMMA EveryRunMoves ==
    ASSUME Base, BeforeLaunch, [ConsumerNext]_consumerVars, NEW r \in Runs
    PROVE  RunMoves(r)
<1>0. Shapes /\ Parents /\ ExecTypeOK /\ Tasks \subseteq Procs /\ "failed" \in TerminalRunStatus
  BY DEF Base, IInv, Procs, TerminalRunStatus
<1>1. ASSUME NEW s, NEW target \in {"running"} \union TerminalRunStatus, TransitionRun(s, target) PROVE RunMoves(r)
  BY <1>0, <1>1, TransitionMovesRun DEF RunMoves
<1>2. runStatus' = runStatus => RunMoves(r)
  BY DEF RunMoves
<1>3. ASSUME NEW p \in Procs, ReconcileStep(p), Call(p) \/ p = Sweeper PROVE RunMoves(r)
  <2>1. CASE ConcludeRun(p)
    <3>1. runStatus'[r] = runStatus[r] \/ Concludes(p, r)
      BY <1>0, <2>1, TransitionMovesRun DEF ConcludeRun, Concludes, vars
    <3> QED
      BY <1>3, <3>1 DEF RunMoves, Procs
  <2> QED
    BY <1>2, <1>3, <2>1
       DEF ReconcileStep, ReconcileCompleted, ReconcileRequested, ReconcileParked, WriteNodeRun, ObserveRun,
           TransitionNodeRun, vars
<1>4. ASSUME NEW p \in Tasks, CallStep(p) \/ CancelLaunch(p) PROVE RunMoves(r)
  <2>1. CASE EnsureRunRunning(p)
    BY <1>2, <2>1 DEF EnsureRunRunning, BeforeLaunch, vars
  <2> QED
    BY <1>2, <1>4, <2>1
       DEF CallStep, RejectUnacceptedCompletion, StartAttempt, CreateAttempt, PrepareExecution, EnsureNodeRunRunning, Launch,
           FenceLaunch, CancelLaunch, ProviderReturns, SettleProviderSuccess, TerminalizeIfOpen, AcceptOutcome,
           TransitionAttempt, TransitionNodeRun, vars
<1>5. ASSUME NEW p \in Tasks, CallMoves(p) PROVE RunMoves(r)
  <2>1. CallStep(p) \/ CancelLaunch(p) \/ (Call(p) /\ ReconcileStep(p))
    BY <1>5 DEF CallMoves, Call
  <2> QED
    BY <1>0, <1>3, <1>4, <2>1
<1>6. ASSUME NEW p \in Tasks, DriveMoves(p) PROVE RunMoves(r)
  <2>1. CASE ParkRun(p)
    BY <1>0, <1>2, <2>1, TransitionMovesRun DEF ParkRun, RunMoves, vars
  <2>2. CASE (\E s \in Runs : ClaimUnresolvable(p, s)) \/ FailUnresolvable(p) \/ ClaimParked(p)
    BY <1>0, <1>1, <1>2, <2>2 DEF ClaimUnresolvable, FailUnresolvable, ClaimParked, vars
  <2> QED
    BY <1>2, <1>6, <2>1, <2>2
       DEF DriveMoves, FindParked, Resume, StoreFails, ConsumerDies, Repark, ParkNode, TransitionNodeRun, vars
<1>7. ASSUME NEW p \in Tasks, NEW s \in Runs, NEW node \in Nodes, NEW n \in NodeRuns, NEW a \in Attempts,
             ExecuteAdmitted(p, s, node, n, a)
      PROVE  RunMoves(r)
  <2>1. Admits(p, s, n, a)
    BY <1>7, AdmittedMoves
  <2> QED
    BY <2>1 DEF Admits, RunMoves
<1>8. CASE TickMoves
  <2>1. CASE RecoveryTick
    BY <1>2, <2>1 DEF RecoveryTick, SweepStep, SweepReclaim, SweepReclaimed, SweepList, SweepReplay, ReclaimExpiredAttempts, vars
  <2>2. CASE ReconcileStep(Sweeper)
    BY <1>3, <2>2 DEF Procs
  <2> QED
    BY <1>8, <2>1, <2>2 DEF TickMoves
<1>9. CASE StoreMoves
  <2>1. ASSUME NEW s \in Runs, CreateRun(s, "queued") PROVE RunMoves(r)
    BY <1>0, <2>1 DEF CreateRun, RunMoves, Shapes
  <2>2. RunEnds \subseteq TerminalRunStatus
    BY CallAssumption
  <2> QED
    BY <1>1, <1>2, <1>9, <2>1, <2>2 DEF StoreMoves, RenewLease, Tick, vars
<1> QED
  BY <1>5, <1>6, <1>7, <1>8, <1>9, KindsOfStep

------------------------------------------------------------------------------
\* A disposition on its way to be written is one that settles or parks.
LEMMA StepKeepsGoals ==
    ASSUME Base, GoalsOK, [ConsumerNext]_consumerVars
    PROVE  GoalsOK'
<1> SUFFICES ASSUME NEW p \in Procs, proc'[p].pc \in {"write", "observe", "conclude"} PROVE proc'[p].goal \in SettledGoals
  BY DEF GoalsOK
<1>0. IInv /\ ExecTypeOK /\ PlansOK /\ Tasks \subseteq Procs /\ Sweeper \in Procs /\ Sweeper \notin Tasks
      /\ Idle.pc = "idle"
  BY CallAssumption DEF Base, Procs, Idle
<1>1. CASE proc'[p] = proc[p] \/ proc'[p] = Idle \/ proc'[p].pc = "check"
  BY <1>0, <1>1 DEF GoalsOK
<1>2. CASE ReconcileStep(p) \/ (p \in Tasks /\ (CallStep(p) \/ CancelLaunch(p)))
  <2>0. /\ {"completed", "cancelled", "waiting", "paused", "none"} \subseteq SettledGoals
        /\ Dispositions \subseteq SettledGoals /\ \A r : Settlement(r) \in SettledGoals
    BY CallAssumption DEF SettledGoals, TerminalRunStatus, AcceptedStatus, Settlement, DeriveRunTerminalStatus, FirstMatch
  <2>1. ASSUME NEW pc, NEW goal \in SettledGoals, Aim(p, pc, goal) PROVE proc'[p].goal \in SettledGoals
    BY <1>0, <2>1, AimEffect
  <2>2. ASSUME NEW pc, Go(p, pc), pc \notin {"write", "observe", "conclude"} \/ proc[p].pc = "write" PROVE proc'[p].goal \in SettledGoals
    BY <1>0, <2>2, GoEffect DEF GoalsOK
  <2>3. ASSUME Finish(p) \/ Abort(p) PROVE FALSE
    BY <1>0, <2>3, EndEffect
  <2>4. CASE ReconcileCompleted(p) \/ ReconcileRequested(p) \/ ReconcileParked(p) \/ WriteNodeRun(p) \/ ConcludeRun(p)
    BY <2>0, <2>1, <2>2, <2>3, <2>4
       DEF ReconcileCompleted, ReconcileRequested, ReconcileParked, ParkedAs, WriteNodeRun, ConcludeRun
  <2>5. CASE ObserveRun(p)
    <3>1. proc[p].goal \in SettledGoals
      BY <2>5 DEF ObserveRun, GoalsOK
    <3>2. PICK goal \in SettledGoals : Aim(p, "conclude", goal) \/ Finish(p)
      BY <2>0, <2>5, <3>1 DEF ObserveRun
    <3> QED
      BY <2>1, <2>3, <3>2
  <2>6. CASE \E logical \in Dispositions : AcceptOutcome(p, logical)
    BY <2>0, <2>1, <2>3, <2>6 DEF AcceptOutcome
  <2>7. CASE Launch(p) \/ FenceLaunch(p) \/ CancelLaunch(p) \/ SettleProviderSuccess(p) \/ TerminalizeIfOpen(p)
                \/ RejectUnacceptedCompletion(p) \/ (\E end \in ProviderEnds : ProviderReturns(p, end))
    <3>1. ASSUME NEW pc, NEW goal, Aim(p, pc, goal), pc \notin {"write", "observe", "conclude"} PROVE FALSE
      BY <1>0, <3>1, AimEffect
    <3> QED
      BY <2>2, <2>3, <2>7, <3>1
         DEF Launch, FenceLaunch, CancelLaunch, SettleProviderSuccess, TerminalizeIfOpen, RejectUnacceptedCompletion,
             ProviderReturns
  <2>8. CASE p \in Tasks /\ (StartAttempt(p) \/ PrepareExecution(p) \/ EnsureRunRunning(p) \/ EnsureNodeRunRunning(p))
    <3>1. ProcStep(p)
      BY <1>0, <2>8, CallProcStep DEF CallStep, Step
    <3>2. proc[p].pc \in {"create", "prepare", "run", "node"}
      BY <2>8 DEF StartAttempt, PrepareExecution, EnsureRunRunning, EnsureNodeRunRunning
    <3> QED
      BY <1>0, <2>8, <3>1, <3>2, <1>1
         DEF ProcStep, Checked, Starts, Claims, Works, Working, Settles, Decides, Turns, Observes, Recovers
  <2> QED
    BY <1>2, <2>4, <2>5, <2>6, <2>7, <2>8 DEF ReconcileStep, CallStep
<1>3. ASSUME NEW q \in Tasks, CallMoves(q) PROVE proc'[p].goal \in SettledGoals
  <2>1. CASE p = q
    BY <1>2, <1>3, <2>1 DEF CallMoves, Call
  <2>2. CASE p # q
    BY <1>1, <1>3, <2>2, CallMovesOne DEF Others
  <2> QED
    BY <2>1, <2>2
<1>4. ASSUME NEW q \in Tasks, DriveMoves(q) PROVE proc'[p].goal \in SettledGoals
  <2>1. p # q => proc'[p] = proc[p]
    BY <1>4, DriveMovesOne DEF Others
  <2>2. p = q => proc'[p] = Idle \/ proc'[p].pc = "check"
    BY <1>4, DriveMovesOne
  <2> QED
    BY <1>1, <2>1, <2>2
<1>5. ASSUME NEW q \in Tasks, NEW r \in Runs, NEW node \in Nodes, NEW n \in NodeRuns, NEW a \in Attempts,
             ExecuteAdmitted(q, r, node, n, a)
      PROVE  proc'[p].goal \in SettledGoals
  <2>1. Admits(q, r, n, a)
    BY <1>5, AdmittedMoves
  <2> QED
    BY <1>1, <2>1 DEF Admits, Others
<1>6. CASE TickMoves
  <2>1. CASE ReconcileStep(Sweeper)
    <3>1. p # Sweeper => proc'[p] = proc[p]
      BY <1>0, <2>1, ReconcileProcStep DEF Step, Others
    <3> QED
      BY <1>1, <1>2, <2>1, <3>1
  <2>2. CASE SweepStep
    <3>1. p \in Tasks => proc'[p] = proc[p]
      BY <1>0, <2>2, TickMovesNobody
    <3>2. ASSUME p = Sweeper, NEW n, NEW a, SweepNext(n, a) PROVE FALSE
      <4>1. [Idle EXCEPT !.pc = "reconcile", !.n = n, !.a = a].pc = "reconcile"
        BY DEF Idle
      <4> QED
        BY <1>0, <3>2, <4>1 DEF SweepNext, ExecTypeOK
    <3>3. proc' = proc => proc'[p] = proc[p]
      OBVIOUS
    <3> QED
      BY <1>1, <2>2, <3>1, <3>2, <3>3 DEF SweepStep, SweepReclaim, SweepReclaimed, SweepList, SweepReplay, Procs
  <2> QED
    BY <1>6, <2>1, <2>2 DEF TickMoves, RecoveryTick
<1>7. CASE StoreMoves
  BY <1>1, <1>7 DEF StoreMoves
<1> QED
  BY <1>3, <1>4, <1>5, <1>6, <1>7, KindsOfStep

\* A Run has one NodeRun, made when it was claimed.
LEMMA StepKeepsOneNode ==
    ASSUME Base, GoalsOK, OneNode, BeforeLaunch, [ConsumerNext]_consumerVars
    PROVE  OneNode'
<1>0. Grows /\ Parents
  BY ConsumerStepFacts DEF Base, IInv
<1>1. ASSUME NEW n \in NodeRuns, nodeRuns[n].status = "absent", nodeRuns'[n].status # "absent"
      PROVE  \E p \in Tasks, r \in Runs, a \in Attempts : Admits(p, r, n, a)
  BY <1>1, NodesBorn, AdmittedMoves
<1>2. ASSUME NEW n \in NodeRuns, NEW m \in NodeRuns, nodeRuns[n].status = "absent", nodeRuns'[n].status # "absent",
             nodeRuns'[m].status # "absent", nodeRuns'[n].run = nodeRuns'[m].run
      PROVE  n = m
  <2>1. PICK p \in Tasks, r \in Runs, a \in Attempts : Admits(p, r, n, a)
    BY <1>1, <1>2
  <2>2. m # n => nodeRuns[m].status # "absent" /\ nodeRuns[m].run = r /\ runStatus[r] = "queued"
    BY <1>2, <2>1 DEF Admits
  <2> QED
    BY <2>2 DEF OneNode
<1>3. ASSUME NEW n \in NodeRuns, NEW m \in NodeRuns, nodeRuns'[n].status # "absent", nodeRuns'[m].status # "absent",
             nodeRuns'[n].run = nodeRuns'[m].run
      PROVE  n = m
  <2>1. CASE nodeRuns[n].status # "absent" /\ nodeRuns[m].status # "absent"
    BY <1>0, <1>3, <2>1 DEF Grows, OneNode
  <2> QED
    BY <1>2, <1>3, <2>1
<1>4. ASSUME NEW n \in NodeRuns, nodeRuns'[n].status # "absent"
      PROVE  runStatus'[nodeRuns'[n].run] \notin {"absent", "created", "queued"}
  <2>1. CASE nodeRuns[n].status # "absent"
    <3> DEFINE r == nodeRuns[n].run
    <3>1. r \in Runs /\ nodeRuns'[n].run = r /\ runStatus[r] \notin {"absent", "created", "queued"}
      BY <1>0, <2>1 DEF Grows, Parents, OneNode
    <3>2. RunMoves(r)
      BY <3>1, EveryRunMoves
    <3>3. ASSUME NEW p \in Procs, Concludes(p, r) PROVE runStatus'[r] \notin {"absent", "created", "queued"}
      <4>0. TransitionRun(r, proc[p].goal) /\ proc[p].pc = "conclude" /\ runStatus'[r] = proc[p].goal
        BY <3>3 DEF Concludes, ConcludeRun
      <4>1. proc[p].goal \in SettledGoals
        BY <4>0 DEF GoalsOK
      <4>2. proc[p].goal # "none"
        BY <4>0, StatusFacts DEF TransitionRun, MayTransitionRun, RunStatus, RunTransitions, TerminalRunStatus
      <4> QED
        BY <4>0, <4>1, <4>2 DEF SettledGoals, TerminalRunStatus
    <3> HIDE DEF r
    <3> QED
      BY <3>1, <3>2, <3>3 DEF RunMoves, TerminalRunStatus, Procs
  <2>2. CASE nodeRuns[n].status = "absent"
    <3>1. PICK p \in Tasks, r \in Runs, a \in Attempts : Admits(p, r, n, a)
      BY <1>1, <1>4, <2>2
    <3> QED
      BY <3>1 DEF Admits
  <2> QED
    BY <2>1, <2>2
<1> QED
  BY <1>3, <1>4 DEF OneNode

------------------------------------------------------------------------------
\* What the tick reconciles has been settled, and stays so.
LEMMA StepKeepsTickSettles ==
    ASSUME Base, TickSettles, [ConsumerNext]_consumerVars
    PROVE  TickSettles'
<1> SUFFICES ASSUME proc'[Sweeper].pc # "idle"
             PROVE  proc'[Sweeper].pc \in Settling /\ attempts'[proc'[Sweeper].a].status \in {"cancelled", "completed"}
  BY DEF TickSettles
<1>0. IInv /\ ExecTypeOK /\ PlansOK /\ AttemptsMove /\ Sweeper \in Procs /\ Sweeper \notin Tasks /\ Idle.pc = "idle"
      /\ {"cancelled", "completed"} \subseteq TerminalAttemptStatus /\ Placed(proc[Sweeper], nodeRuns, attempts)
  BY CallAssumption, ConsumersMoveAttempts
     DEF Base, Procs, Idle, TerminalAttemptStatus, AttemptStatus, ActiveAttemptStatus, ExecTypeOK
<1>1. ASSUME proc[Sweeper].pc # "idle", proc'[Sweeper].pc \in Settling, proc'[Sweeper].a = proc[Sweeper].a
      PROVE  attempts'[proc'[Sweeper].a].status \in {"cancelled", "completed"}
  <2>1. proc[Sweeper].a \in Attempts /\ attempts[proc[Sweeper].a].status \in {"cancelled", "completed"}
    BY <1>0, <1>1 DEF TickSettles, Placed, Settling
  <2>2. AsBefore(proc[Sweeper].a)
    BY <1>0, <2>1, EndedAttemptStays
  <2> QED
    BY <1>1, <2>1, <2>2 DEF AsBefore
<1>2. CASE proc'[Sweeper] = proc[Sweeper]
  BY <1>1, <1>2 DEF TickSettles
<1>3. ASSUME ProcStep(Sweeper)
      PROVE  proc'[Sweeper].pc \in Settling /\ attempts'[proc'[Sweeper].a].status \in {"cancelled", "completed"}
  <2>1. CASE Decides(Sweeper) \/ Turns(Sweeper) \/ Observes(Sweeper)
    BY <1>1, <2>1 DEF Decides, Turns, Observes, SameWork, Settling
  <2>2. CASE Recovers(Sweeper)
    BY <2>2 DEF Recovers, Settling, vars
  <2>3. proc'[Sweeper] # Idle
    BY <1>0
  <2> QED
    BY <1>0, <1>2, <1>3, <2>1, <2>2, <2>3 DEF ProcStep, Checked, Starts, Claims, Works, Settles
<1>4. ASSUME NEW p \in Tasks, CallMoves(p) \/ DriveMoves(p) PROVE proc'[Sweeper] = proc[Sweeper]
  BY <1>0, <1>4, CallMovesOne, DriveMovesOne DEF Others
<1>5. ASSUME NEW p \in Tasks, NEW r \in Runs, NEW node \in Nodes, NEW n \in NodeRuns, NEW a \in Attempts,
             ExecuteAdmitted(p, r, node, n, a)
      PROVE  proc'[Sweeper] = proc[Sweeper]
  <2>1. Admits(p, r, n, a)
    BY <1>5, AdmittedMoves
  <2> QED
    BY <1>0, <2>1 DEF Admits, Others
<1>6. CASE TickMoves
  BY <1>0, <1>3, <1>6, ReconcileProcStep, SweepProcStep DEF TickMoves, RecoveryTick, Step
<1>7. CASE StoreMoves
  BY <1>2, <1>7 DEF StoreMoves
<1> QED
  BY <1>2, <1>4, <1>5, <1>6, <1>7, KindsOfStep

\* Who starts or goes on with a resume, and that the tick does not move then.
LEMMA StepKeepsTurns ==
    ASSUME Overlap = FALSE, Base, TakesTurns, [ConsumerNext]_consumerVars
    PROVE  TakesTurns'
<1> SUFFICES ASSUME NEW p \in Tasks, Resuming(p)'
             PROVE  proc'[Sweeper].pc = "idle" /\ sweep' = NoSweep
  BY DEF TakesTurns, Recovering
<1>0. IInv /\ ExecTypeOK /\ PlansOK /\ Sweeper \in Procs /\ Sweeper \notin Tasks
  BY CallAssumption DEF Base, Procs
<1>1. Resuming(p) \/ ClaimParked(p)
  <2>1. drive'[p] = drive[p] => Resuming(p)
    BY DEF Resuming
  <2>2. ASSUME NEW q \in Tasks, CallMoves(q) PROVE Resuming(p)
    <3>1. drive'[p] = drive[p] \/ drive[p].pc = "call"
      BY <2>2, CallMovesOne
    <3> QED
      BY <2>1, <3>1 DEF Resuming
  <2>3. ASSUME NEW q \in Tasks, DriveMoves(q) PROVE Resuming(p) \/ ClaimParked(p)
    BY <2>1, <2>3, DriveMovesOne DEF Resuming, Holding
  <2>4. ASSUME NEW q \in Tasks, NEW r \in Runs, NEW node \in Nodes, NEW n \in NodeRuns, NEW a \in Attempts,
               ExecuteAdmitted(q, r, node, n, a)
        PROVE  Resuming(p)
    BY <2>1, <2>4 DEF ExecuteAdmitted
  <2> QED
    BY <2>1, <2>2, <2>3, <2>4, KindsOfStep, NobodyMoves
<1>2. CASE ClaimParked(p)
  BY <1>2 DEF ClaimParked, Recovering
<1>3. CASE Resuming(p)
  <2>0. proc[Sweeper].pc = "idle" /\ sweep = NoSweep
    BY <1>3 DEF TakesTurns, Recovering
  <2>1. SweepShrinks => sweep' = NoSweep
    BY <2>0 DEF SweepShrinks, NoSweep
  <2>2. ASSUME NEW q \in Tasks, CallMoves(q) \/ DriveMoves(q)
        PROVE  proc'[Sweeper] = proc[Sweeper] /\ (sweep' = sweep \/ SweepShrinks)
    BY <1>0, <2>2, CallMovesOne, DriveMovesOne DEF Others
  <2>3. ASSUME NEW q \in Tasks, NEW r \in Runs, NEW node \in Nodes, NEW n \in NodeRuns, NEW a \in Attempts,
               ExecuteAdmitted(q, r, node, n, a)
        PROVE  proc'[Sweeper] = proc[Sweeper] /\ sweep' = sweep
    <3>1. Admits(q, r, n, a)
      BY <2>3, AdmittedMoves
    <3> QED
      BY <1>0, <3>1 DEF Admits, Others
  <2>4. ~TickMoves
    BY <1>3, <2>0
       DEF TickMoves, RecoveryTick, ReconcileStep, ReconcileCompleted, ReconcileRequested, ReconcileParked, WriteNodeRun,
           ObserveRun, ConcludeRun
  <2>5. StoreMoves => proc'[Sweeper] = proc[Sweeper] /\ sweep' = sweep
    BY DEF StoreMoves
  <2> QED
    BY <2>0, <2>1, <2>2, <2>3, <2>4, <2>5, KindsOfStep
<1> QED
  BY <1>1, <1>2, <1>3

\* Recovery reclaims when nobody holds a Run for a resume.
LEMMA ReclaimTakesTurns ==
    ASSUME Overlap = FALSE, Base, [ConsumerNext]_consumerVars, NEW batch \in SUBSET Attempts, SweepReclaim(batch)
    PROVE  \A p \in Tasks : ~Resuming(p)
<1>0. IInv /\ ExecTypeOK /\ PlansOK /\ Sweeper \in Procs
  BY DEF Base, Procs
<1>1. sweep'.phase = "reclaimed" /\ sweep.phase = "replay"
  BY DEF SweepReclaim, Sweeping
<1>2. ~SweepShrinks /\ sweep' # sweep
  <2>1. NoSweep.phase = "replay"
    BY DEF NoSweep
  <2>2. ASSUME NEW gone, sweep' = [sweep EXCEPT !.left = @ \ gone] PROVE FALSE
    <3>1. sweep'.phase = sweep.phase
      BY <1>0, <2>2 DEF ExecTypeOK
    <3> QED
      BY <1>1, <3>1
  <2> QED
    BY <1>1, <2>1, <2>2 DEF SweepShrinks
<1>3. ASSUME NEW q \in Tasks, CallMoves(q) \/ DriveMoves(q) PROVE FALSE
  BY <1>2, <1>3, CallMovesOne, DriveMovesOne
<1>4. ASSUME NEW q \in Tasks, NEW r \in Runs, NEW node \in Nodes, NEW n \in NodeRuns, NEW a \in Attempts,
             ExecuteAdmitted(q, r, node, n, a)
      PROVE  FALSE
  <2>1. Admits(q, r, n, a)
    BY <1>4, AdmittedMoves
  <2> QED
    BY <1>2, <2>1 DEF Admits
<1>5. ~ReconcileStep(Sweeper) /\ ~StoreMoves
  BY <1>0, <1>2, ReconcileProcStep DEF Step, StoreMoves
<1> QED
  BY <1>3, <1>4, <1>5, KindsOfStep DEF TickMoves, RecoveryTick

------------------------------------------------------------------------------
\* Who begins an Attempt is engaged with its NodeRun, whose pause has elapsed.
LEMMA BeginnerFacts ==
    ASSUME Base, BeforeLaunch, OneEngaged, NEW q \in Tasks, NEW c \in Attempts, Begins(q, c)
    PROVE  /\ proc[q].n \in NodeRuns /\ Elapsed(proc[q].n) /\ Live(proc[q].n)
           /\ drive[q].pc = "call" /\ ~Exist(c)
           /\ \A p \in Tasks : Engaged(p, proc[q].n) => p = q
<1>1. proc[q].pc = "create" /\ drive[q].pc = "call" /\ Elapsed(proc[q].n) /\ ~Exist(c)
  BY DEF Begins, BeforeLaunch, RaisingPlaces, NextId, Exist
<1>2. Engaged(q, proc[q].n) /\ proc[q].n \in NodeRuns /\ Live(proc[q].n)
  BY <1>1, EngagedFacts DEF Elapsed, Live
<1> QED
  BY <1>1, <1>2 DEF OneEngaged

\* A created Attempt waits for the call that created it.
LEMMA CreatedStays ==
    ASSUME Overlap = FALSE, Base, BeforeLaunch, OwnAttempts, [ConsumerNext]_consumerVars,
           NEW p \in Tasks, proc[p].pc \in {"prepare", "run", "node"}
    PROVE  attempts'[proc[p].a].status = "created"
<1> DEFINE a == proc[p].a
<1>0. IInv /\ Shapes /\ ExecTypeOK /\ AttemptsMove /\ p \in Procs
  BY ConsumersMoveAttempts DEF Base, IInv, Procs
<1>1. a \in Attempts /\ attempts[a].status = "created" /\ drive[p].pc = "call"
  BY <1>0 DEF ExecTypeOK, Placed, BeforeLaunch, RaisingPlaces
<1>2. AsBefore(a) => attempts'[a].status = "created"
  BY <1>1 DEF AsBefore
<1>3. ASSUME NEW q \in Tasks, NEW c \in Attempts, Begins(q, c) PROVE AsBefore(a)
  BY <1>1, <1>3 DEF Begins, NextId, AllBut
<1>4. ASSUME NEW q \in Tasks, MovesOn(q) PROVE AsBefore(a)
  <2>1. q # p /\ proc[q].pc \in Working /\ proc[p].pc \in Working
    BY <1>4 DEF MovesOn, Working
  <2>2. proc[q].a # a
    BY <2>1 DEF OwnAttempts
  <2> QED
    BY <1>1, <1>4, <2>2 DEF MovesOn, AllBut
<1>5. ASSUME NEW q \in Tasks, NEW r \in Runs, NEW node \in Nodes, NEW n \in NodeRuns, NEW c \in Attempts,
             ClaimRun(q, r, node, n, c)
      PROVE  AsBefore(a)
  <2>1. c # a /\ \A b \in Attempts : b # c => attempts'[b] = attempts[b]
    BY <1>0, <1>1, <1>5, ClaimEffect DEF ClaimRun, KeptAttempt
  <2> QED
    BY <1>1, <2>1 DEF AsBefore
<1>6. ASSUME NEW batch \in SUBSET Attempts, SweepReclaim(batch) PROVE FALSE
  <2>1. ~Resuming(p)
    BY <1>6, ReclaimTakesTurns
  <2> QED
    BY <1>1, <2>1 DEF Resuming
<1> HIDE DEF a
<1>7. AsBefore(a)
  BY <1>0, <1>1, <1>3, <1>4, <1>5, <1>6 DEF AttemptsMove
<1> QED
  BY <1>2, <1>7 DEF a

\* What a call finds that reads its Run before the launch.
LEMMA PreparedRun ==
    ASSUME Base, ReclaimedEnds, ActiveIsNewest, OneNode, BeforeLaunch, OneEngaged,
           NEW p \in Tasks, proc[p].pc = "prepare", ~RunIsTerminal(RunOf(p))
    PROVE  runStatus[RunOf(p)] = "running"
<1>0. IInv /\ Shapes /\ Parents /\ ExecTypeOK /\ p \in Procs
  BY DEF Base, IInv, Procs
<1>1. /\ proc[p].n \in NodeRuns /\ nodeRuns[proc[p].n].status # "absent"
      /\ proc[p].a \in Attempts /\ attempts[proc[p].a].nodeRun = proc[p].n /\ attempts[proc[p].a].status = "created"
  BY <1>0 DEF ExecTypeOK, Placed, BeforeLaunch
<1>2. Live(proc[p].n)
  <2>1. Active(proc[p].a)
    BY <1>1 DEF Active, ActiveAttemptStatus
  <2> QED
    BY <1>0, <1>1, <2>1, ActiveIsLast
<1>3. Engaged(p, proc[p].n)
  BY EngagedFacts
<1>4. runStatus[RunOf(p)] \notin {"waiting", "paused", "absent", "created", "queued"} /\ RunOf(p) \in Runs
  BY <1>0, <1>1, <1>2, <1>3 DEF OneEngaged, OneNode, RunOf, Parents
<1> QED
  BY <1>0, <1>4 DEF Shapes, RunIsTerminal, RunStatus, TerminalRunStatus

\* A consumer passes the places before its launch only inside a resume.
LEMMA StepKeepsBeforeLaunch ==
    ASSUME Overlap = FALSE, Base, ReclaimedEnds, ActiveIsNewest, OneNode, BeforeLaunch, OwnAttempts, OneEngaged,
           [ConsumerNext]_consumerVars
    PROVE  BeforeLaunch'
<1> SUFFICES ASSUME NEW p \in Tasks, proc'[p].pc \in RaisingPlaces
             PROVE  /\ drive'[p].pc = "call"
                    /\ proc'[p].pc \in {"check", "create"} => Elapsed(proc[p].n)'
                    /\ proc'[p].pc \in {"prepare", "run", "node"} => attempts'[proc'[p].a].status = "created"
                    /\ proc'[p].pc = "run" => proc'[p].run = "running"
  BY DEF BeforeLaunch, RaisingPlaces
<1>0. IInv /\ ExecTypeOK /\ p \in Procs /\ proc[p] \in ProcRecord /\ Idle.pc = "idle" /\ "idle" \notin RaisingPlaces
      /\ "launch" \notin RaisingPlaces
  BY DEF Base, Procs, ExecTypeOK, Idle, RaisingPlaces
<1>1. ASSUME proc[p].pc \in {"check", "create"}, proc'[p].pc \in {"check", "create"}, proc'[p].n = proc[p].n
      PROVE  Elapsed(proc[p].n)'
  <2>1. Elapsed(proc[p].n) /\ Live(proc[p].n) /\ Engaged(p, proc[p].n) /\ proc[p].n \in NodeRuns
    BY <1>1, EngagedFacts DEF BeforeLaunch, Elapsed, Live
  <2>2. ASSUME NEW q \in Tasks, NEW c \in Attempts, Begins(q, c), proc[q].n = proc[p].n PROVE FALSE
    <3>1. p = q
      BY <2>1, <2>2, BeginnerFacts
    <3> QED
      BY <1>1, <2>2, <3>1 DEF Begins
  <2>3. \A m \in NodeRuns : m = proc[p].n => Elapsed(m)'
    BY <2>1, <2>2, ElapsedStays
  <2> QED
    BY <1>1, <2>1, <2>3 DEF Elapsed, Last, TimedPause, Exist
<1>2. CASE proc'[p] = proc[p] /\ drive'[p] = drive[p]
  <2>1. proc[p].pc \in RaisingPlaces
    BY <1>2
  <2>2. proc'[p].pc \in {"prepare", "run", "node"} => attempts'[proc'[p].a].status = "created"
    BY <1>2, CreatedStays
  <2>3. drive'[p].pc = "call" /\ (proc'[p].pc = "run" => proc'[p].run = "running")
    BY <1>2, <2>1 DEF BeforeLaunch
  <2> QED
    BY <1>1, <1>2, <2>2, <2>3
<1>3. CASE CallMoves(p)
  <2>1. Ahead(p) /\ ProcStep(p) /\ drive'[p] = drive[p] /\ GoesOn(p)
    BY <1>0, <1>3, CallMovesOne
  <2>2. proc'[p].n = proc[p].n
    BY <1>0, <2>1 DEF GoesOn
  <2>3. proc[p].pc \in RaisingPlaces
    BY <2>1 DEF Ahead, RaisingPlaces, StartAttempt, PrepareExecution, EnsureRunRunning
  <2>4. drive'[p].pc = "call"
    BY <2>1, <2>3 DEF BeforeLaunch
  <2>5. proc'[p].pc \in {"check", "create"} => Elapsed(proc[p].n)'
    BY <1>1, <2>1, <2>2 DEF Ahead
  <2>6. proc'[p].pc \in {"prepare", "run", "node"} => attempts'[proc'[p].a].status = "created"
    <3>1. CASE \E c \in Attempts : Begins(p, c)
      BY <3>1 DEF Begins
    <3>2. CASE proc[p].pc \in Working \union Settling /\ SameWork(p)
      <4>1. proc[p].pc \in {"prepare", "run", "node"}
        BY <2>3, <3>2 DEF RaisingPlaces, Working, Settling
      <4> QED
        BY <3>2, <4>1, CreatedStays DEF SameWork
    <3>3. ASSUME NEW r \in Runs, NEW n \in NodeRuns, NEW a \in Attempts, Admits(p, r, n, a) PROVE FALSE
      BY <1>0, <3>3 DEF Admits
    <3> QED
      BY <3>1, <3>2, <3>3, WorkWas DEF WorkKept, Working
  <2>7. proc'[p].pc = "run" => proc'[p].run = "running"
    <3>1. CASE PrepareExecution(p) /\ proc'[p].pc = "run"
      <4>1. ~RunIsTerminal(RunOf(p)) /\ Becomes(p, [proc[p] EXCEPT !.pc = "run", !.run = runStatus[RunOf(p)],
                                                             !.node = nodeRuns[proc[p].n].status])
        BY <1>0, <3>1, EndEffect DEF PrepareExecution
      <4>2. runStatus[RunOf(p)] = "running"
        BY <3>1, <4>1, PreparedRun DEF PrepareExecution
      <4>3. proc'[p] = [proc[p] EXCEPT !.pc = "run", !.run = runStatus[RunOf(p)], !.node = nodeRuns[proc[p].n].status]
        BY <1>0, <4>1, BecomesEffect
      <4> QED
        BY <1>0, <4>2, <4>3 DEF ProcRecord
    <3>2. CASE EnsureRunRunning(p)
      <4>1. proc[p].run = "running"
        BY <3>2 DEF EnsureRunRunning, BeforeLaunch
      <4>2. Go(p, "node")
        BY <3>2, <4>1 DEF EnsureRunRunning
      <4> QED
        BY <1>0, <4>2, GoEffect
    <3> QED
      BY <2>1, <3>1, <3>2 DEF Ahead
  <2> QED
    BY <2>4, <2>5, <2>6, <2>7
<1>4. CASE DriveMoves(p)
  <2>1. CASE proc'[p] = proc[p] /\ proc[p] = Idle
    BY <1>0, <2>1
  <2>2. CASE Resume(p) /\ Resumable(drive[p].n) /\ proc'[p].pc = "check" /\ proc'[p].n = drive[p].n /\ drive'[p].pc = "call"
    <3>1. attempts' = attempts /\ due' = due /\ drive[p].n \in NodeRuns /\ Shapes
      BY <2>2, Driven DEF Resume, vars, Holding, Base, IInv
    <3>2. PICK b \in BehindRecovery(drive[p].n) : attempts[b].status = "yielded" /\ attempts[b].result # "human" /\ b \in due
      BY <2>2 DEF Resumable
    <3>3. Last(b, drive[p].n) /\ b \in Attempts
      BY <3>1, <3>2, AttemptsOfFacts DEF BehindRecovery, Last, Exist
    <3>4. Last(b, proc[p].n)' /\ TimedPause(b)' /\ b \in due'
      BY <2>2, <3>1, <3>2, <3>3 DEF Last, Exist, TimedPause
    <3> QED
      BY <2>2, <3>3, <3>4 DEF Elapsed
  <2> QED
    BY <1>0, <1>4, <2>1, <2>2, DriveMovesOne
<1>5. ASSUME NEW q \in Tasks, q # p, CallMoves(q) \/ DriveMoves(q)
      PROVE  proc'[p] = proc[p] /\ drive'[p] = drive[p]
  BY <1>0, <1>5, CallMovesOne, DriveMovesOne DEF Others
<1>6. ASSUME NEW q \in Tasks, NEW r \in Runs, NEW node \in Nodes, NEW m \in NodeRuns, NEW a \in Attempts,
             ExecuteAdmitted(q, r, node, m, a)
      PROVE  proc'[p] = proc[p] /\ drive'[p] = drive[p]
  <2>1. Admits(q, r, m, a)
    BY <1>6, AdmittedMoves
  <2> QED
    BY <1>0, <2>1 DEF Admits, Others
<1> QED
  BY <1>2, <1>3, <1>4, <1>5, <1>6, KindsOfStep, NobodyMoves

\* Each Attempt of a call stays its own, and the newest while its NodeRun lives.
LEMMA StepKeepsOwnAttempts ==
    ASSUME Overlap = FALSE, Base, NoGaps, ReclaimedEnds, ActiveIsNewest, OneNode, BeforeLaunch, OwnAttempts, OneEngaged,
           [ConsumerNext]_consumerVars
    PROVE  OwnAttempts'
<1>0. IInv /\ Shapes /\ Parents /\ ExecTypeOK /\ AttemptsMove /\ Grows /\ Tasks \subseteq Procs
  BY ConsumersMoveAttempts, ConsumerStepFacts DEF Base, IInv, Procs
<1>1. ASSUME NEW p \in Tasks, proc[p].pc \in Working \union Settling
      PROVE  /\ proc[p].a \in Attempts /\ Exist(proc[p].a) /\ attempts[proc[p].a].nodeRun = proc[p].n
             /\ proc[p].n \in NodeRuns /\ nodeRuns[proc[p].n].status # "absent" /\ Engaged(p, proc[p].n)
             /\ proc[p].pc \notin {"idle", "check", "create"}
  BY <1>0, <1>1, EngagedFacts DEF ExecTypeOK, Placed, Exist, Working, Settling
<1>2. ASSUME NEW p \in Tasks, NEW q \in Tasks, proc'[p].pc \in Working \union Settling,
             proc'[q].pc \in Working \union Settling, proc'[p].a = proc'[q].a, proc'[p] = proc[p], p # q
      PROVE  FALSE
  <2>1. Exist(proc[p].a)
    BY <1>1, <1>2
  <2>2. CASE proc[q].pc \in Working \union Settling /\ SameWork(q)
    BY <1>2, <2>2 DEF OwnAttempts, SameWork
  <2>3. CASE \E c \in Attempts : Begins(q, c)
    BY <1>2, <2>1, <2>3 DEF Begins, NextId, Exist
  <2>4. CASE \E r \in Runs, n \in NodeRuns, a \in Attempts : Admits(q, r, n, a)
    BY <1>2, <2>1, <2>4 DEF Admits, Exist
  <2> QED
    BY <1>2, <2>2, <2>3, <2>4, WorkWas DEF WorkKept
<1>3. ASSUME NEW p \in Tasks, NEW q \in Tasks, proc'[p].pc \in Working \union Settling,
             proc'[q].pc \in Working \union Settling, proc'[p].a = proc'[q].a
      PROVE  p = q
  <2>1. p = q \/ proc'[p] = proc[p] \/ proc'[q] = proc[q]
    BY OneMover
  <2> QED
    BY <1>2, <1>3, <2>1
<1>4. ASSUME NEW p \in Tasks, proc[p].pc \in Working \union Settling, Live(proc[p].n)
      PROVE  \A q \in Tasks, c \in Attempts : Begins(q, c) => proc[q].n # proc[p].n
  <2> SUFFICES ASSUME NEW q \in Tasks, NEW c \in Attempts, Begins(q, c), proc[q].n = proc[p].n PROVE FALSE
    OBVIOUS
  <2>1. p = q
    BY <1>1, <1>4, BeginnerFacts
  <2> QED
    BY <1>1, <1>4, <2>1 DEF Begins
<1>5. ASSUME NEW p \in Tasks, proc[p].pc \in Working \union Settling, SameWork(p), Live(proc[p].n)'
      PROVE  Live(proc[p].n) /\ attempts'[proc[p].a].nodeRun = proc[p].n
  <2>1. \A n \in NodeRuns : n = proc[p].n /\ Live(n)' => Live(n)
    BY <1>1, <1>5, LiveWas
  <2>2. Live(proc[p].n)
    <3>1. proc'[p].n = proc[p].n /\ proc[p].n \in NodeRuns
      BY <1>1, <1>5 DEF SameWork
    <3> QED
      BY <1>5, <2>1, <3>1 DEF Live, Last, TimedPause, Active, Exist
  <2> QED
    BY <1>0, <1>1, <1>5, <2>2 DEF Grows, Exist
<1>6. ASSUME NEW p \in Tasks, proc'[p].pc \in Working \union Settling, Live(proc[p].n)'
      PROVE  NewestAttempt(proc[p].a)'
  <2>1. CASE proc[p].pc \in Working \union Settling /\ SameWork(p)
    <3>1. NewestAttempt(proc[p].a) /\ Live(proc[p].n)
      BY <1>5, <1>6, <2>1 DEF OwnAttempts
    <3>2. \A a \in Attempts : a = proc[p].a => NewestAttempt(a)'
      BY <1>1, <1>4, <2>1, <3>1, NewestUntilBegun
    <3> QED
      BY <1>1, <2>1, <3>2 DEF SameWork, NewestAttempt, Exist
  <2>2. ASSUME NEW c \in Attempts, c = proc'[p].a, NextId(attempts, c), AllBut(c) PROVE NewestAttempt(proc[p].a)'
    <3>1. NewestAttempt(c)'
      BY <1>0, <2>2, BegunIsNewest
    <3> QED
      BY <2>2, <3>1 DEF NewestAttempt, Exist
  <2>3. CASE \E c \in Attempts : Begins(p, c)
    BY <2>2, <2>3 DEF Begins
  <2>4. CASE \E r \in Runs, n \in NodeRuns, a \in Attempts : Admits(p, r, n, a)
    BY <2>2, <2>4 DEF Admits
  <2> QED
    BY <1>6, <2>1, <2>3, <2>4, WorkWas DEF WorkKept
<1>7. ASSUME NEW p \in Tasks, drive'[p].pc = "none", proc'[p].pc # "idle", Live(proc[p].n)',
             NEW c \in Attempts, Exist(c)', attempts'[c].nodeRun = proc'[p].n
      PROVE  c = proc'[p].a
  <2>1. proc'[p].pc \in Working \union Settling
    <3>1. proc'[p].pc \notin RaisingPlaces /\ proc'[p].pc \in Places
      <4>1. BeforeLaunch' /\ ExecTypeOK'
        BY StepKeepsBeforeLaunch, ConsumerStepFacts
      <4> QED
        BY <1>0, <1>7, <4>1 DEF BeforeLaunch, ExecTypeOK, ProcRecord
    <3> QED
      BY <1>7, <3>1 DEF RaisingPlaces, Places, Working, Settling
  <2>2. WorkKept(p)
    BY <2>1, WorkWas
  <2>3. drive[p].pc = "none"
    BY <1>7, <2>2 DEF WorkKept
  <2>4. CASE proc[p].pc \in Working \union Settling /\ SameWork(p)
    <3>1. Live(proc[p].n) /\ proc[p].pc # "idle" /\ proc'[p].n = proc[p].n /\ proc'[p].a = proc[p].a
      BY <1>1, <1>5, <1>7, <2>4 DEF SameWork
    <3>2. CASE Exist(c)
      <4>1. attempts[c].nodeRun = proc[p].n
        BY <1>0, <1>7, <3>1, <3>2 DEF Grows, Exist
      <4> QED
        BY <2>3, <3>1, <3>2, <4>1 DEF OwnAttempts
    <3>3. CASE ~Exist(c)
      <4>1. \E q \in Tasks : Begins(q, c) /\ proc[q].n = proc[p].n
        <5>1. \A n \in NodeRuns : n = proc[p].n => \E q \in Tasks : Begins(q, c) /\ proc[q].n = n
          BY <1>1, <1>7, <2>4, <3>1, <3>3, OnlyBegun
        <5> QED
          BY <1>1, <2>4, <5>1
      <4> QED
        BY <1>4, <2>4, <3>1, <4>1
    <3> QED
      BY <3>2, <3>3
  <2>5. CASE \E b \in Attempts : Begins(p, b)
    BY <2>3, <2>5, BeginnerFacts
  <2>6. ASSUME NEW r \in Runs, NEW n \in NodeRuns, NEW a \in Attempts, Admits(p, r, n, a) PROVE c = proc'[p].a
    <3>1. proc'[p].n = n /\ proc'[p].a = a /\ nodeRuns[n].status = "absent"
      BY <2>6 DEF Admits
    <3>2. c # a => Exist(c) /\ attempts[c].nodeRun = n
      BY <1>7, <2>6, <3>1 DEF Admits, AllBut, AsBefore, Exist
    <3> QED
      BY <1>0, <3>1, <3>2 DEF Parents, Exist
  <2> QED
    BY <2>2, <2>4, <2>5, <2>6 DEF WorkKept
<1>8. \A p, q \in Tasks :
        proc'[p].pc \in Working \union Settling /\ proc'[q].pc \in Working \union Settling /\ proc'[p].a = proc'[q].a
        => p = q
  BY <1>3
<1>9. \A p \in Tasks : (proc[p].pc \in Working \union Settling /\ Live(proc[p].n) => NewestAttempt(proc[p].a))'
  BY <1>6
<1>10. \A p \in Tasks : (drive[p].pc = "none" /\ proc[p].pc # "idle" /\ Live(proc[p].n) =>
            \A c \in Attempts : Exist(c) /\ attempts[c].nodeRun = proc[p].n => c = proc[p].a)'
  BY <1>7
<1> QED
  BY <1>8, <1>9, <1>10 DEF OwnAttempts

------------------------------------------------------------------------------
\* A NodeRun whose latest Attempt has timed out, was cancelled or has completed
\* is not alive: its call may give the Run back.
LEMMA NotAliveAfter ==
    ASSUME Base, ReclaimedEnds, OwnAttempts, NEW p \in Tasks, proc[p].pc \in Settling,
           attempts[proc[p].a].status \in {"timed_out", "completed"}
    PROVE  ~Live(proc[p].n)
<1> SUFFICES ASSUME Live(proc[p].n) PROVE FALSE
  OBVIOUS
<1>0. /\ proc[p].a \in Attempts /\ Exist(proc[p].a) /\ attempts[proc[p].a].nodeRun = proc[p].n
      /\ NewestAttempt(proc[p].a) /\ ~attempts[proc[p].a].reclaimed
  BY DEF Base, ExecTypeOK, Procs, Placed, Exist, Settling, OwnAttempts, ReclaimedEnds
<1>1. PICK b \in Attempts : Last(b, proc[p].n) /\ (Active(b) \/ TimedPause(b))
  BY DEF Live
<1>2. b \in Nat /\ proc[p].a \in Nat
  BY <1>0, IdAssumption
<1>3. b <= proc[p].a /\ ~(b < proc[p].a)
  BY <1>0, <1>1 DEF NewestAttempt, Last
<1>4. b = proc[p].a
  BY <1>2, <1>3
<1> QED
  BY <1>1, <1>4 DEF Active, ActiveAttemptStatus, TimedPause

\* A call that parks the Run of a NodeRun still alive lets go of it.
LEMMA CallLetsGo ==
    ASSUME Base, ReclaimedEnds, OwnAttempts, NEW q \in Tasks, NEW r, Call(q), Concludes(q, r), Live(proc[q].n), NEW n
    PROVE  ~Engaged(q, n)'
<1>0. /\ ExecTypeOK /\ q \in Procs /\ proc[q].pc = "conclude" /\ Idle.pc = "idle" /\ NoDrive.pc = "none"
      /\ MayTransitionRun(RunOf(q), proc[q].goal) /\ drive \in [Tasks -> DriveRecord]
  BY DEF Base, Procs, Concludes, ConcludeRun, TransitionRun, Idle, NoDrive, DriveOK
<1>1. proc'[q] = Idle
  BY <1>0, EndEffect DEF Concludes, ConcludeRun
<1>2. drive[q].pc \in {"none", "call"}
  BY <1>0, EngagedFacts
<1>3. ~EndRaises(q)
  <2>1. attempts[proc[q].a].status # "timed_out"
    BY <1>0, NotAliveAfter DEF Settling
  <2> QED
    BY <1>0, <2>1 DEF EndRaises, RaisingPlaces
<1>4. drive'[q].pc = "none"
  <2>1. CASE drive[q].pc = "none"
    BY <2>1 DEF Call
  <2>2. CASE drive[q].pc = "call"
    <3>1. drive' = [drive EXCEPT ![q] = NoDrive]
      BY <1>0, <1>1, <1>3, <2>2 DEF Call
    <3> QED
      BY <1>0, <3>1
  <2> QED
    BY <1>2, <2>1, <2>2
<1> QED
  BY <1>0, <1>1, <1>4 DEF Engaged, Resuming

\* The tick does not park a Run that is alive in somebody's hands: it and the
\* resumes take turns, and the only Attempt of a first reach has been settled.
LEMMA TickParksNobodys ==
    ASSUME Base, OneNode, OwnAttempts, TakesTurns, TickSettles,
           NEW p \in Tasks, NEW n \in NodeRuns, Live(n), Engaged(p, n), Concludes(Sweeper, nodeRuns[n].run)
    PROVE  FALSE
<1>0. /\ IInv /\ Parents /\ ExecTypeOK /\ proc[Sweeper].pc = "conclude" /\ RunOf(Sweeper) = nodeRuns[n].run
      /\ nodeRuns[n].status # "absent" /\ Sweeper \in Procs
  BY EngagedFacts DEF Base, IInv, Concludes, ConcludeRun, Procs
<1>1. /\ proc[Sweeper].n \in NodeRuns /\ nodeRuns[proc[Sweeper].n].status # "absent"
      /\ proc[Sweeper].a \in Attempts /\ Exist(proc[Sweeper].a) /\ attempts[proc[Sweeper].a].nodeRun = proc[Sweeper].n
  BY <1>0 DEF ExecTypeOK, Placed, Exist
<1>2. proc[Sweeper].n = n
  BY <1>0, <1>1 DEF OneNode, RunOf
<1>3. ~Resuming(p)
  BY <1>0 DEF TakesTurns, Recovering
<1>4. drive[p].pc = "none" /\ proc[p].pc # "idle" /\ proc[p].n = n
  BY <1>3 DEF Engaged
<1>5. \A c \in Attempts : Exist(c) /\ attempts[c].nodeRun = n => c = proc[p].a
  BY <1>4 DEF OwnAttempts
<1>6. attempts[proc[Sweeper].a].status \in {"cancelled", "completed"} /\ proc[Sweeper].a = proc[p].a
  BY <1>0, <1>1, <1>2, <1>5 DEF TickSettles
<1>7. PICK b \in Attempts : Last(b, n) /\ (Active(b) \/ TimedPause(b))
  BY DEF Live
<1>8. b = proc[p].a
  BY <1>5, <1>7 DEF Last
<1> QED
  BY <1>6, <1>7, <1>8 DEF Active, ActiveAttemptStatus, TimedPause

\* A parked Run that is alive is in nobody's hands, and only one consumer takes
\* it into his.
LEMMA StepKeepsOneEngaged ==
    ASSUME Base, ReclaimedEnds, ActiveIsNewest, OneNode, GoalsOK, BeforeLaunch, OwnAttempts, OneEngaged, TakesTurns,
           TickSettles, [ConsumerNext]_consumerVars
    PROVE  OneEngaged'
<1>0. IInv /\ Shapes /\ Parents /\ ExecTypeOK /\ Grows /\ Tasks \subseteq Procs /\ Idle.pc = "idle"
  BY ConsumerStepFacts DEF Base, IInv, Procs, Idle
<1>1. ASSUME NEW n \in NodeRuns, nodeRuns[n].status = "absent", NEW p \in Tasks, Engaged(p, n)'
      PROVE  \E r \in Runs, a \in Attempts : Admits(p, r, n, a)
  <2>1. nodeRuns'[n].status # "absent"
    <3>1. Base'
      BY ConsumerStepFacts, ConsumerStepKeepsDrive, ConsumerStepKeepsDue DEF Base
    <3>2. /\ Fits(drive'[p], proc'[p], nodeRuns') /\ Placed(proc'[p], nodeRuns', attempts')
      BY <1>0, <3>1 DEF Base, DriveOK, ExecTypeOK
    <3> QED
      BY <1>1, <3>2 DEF Engaged, Resuming, Fits, Holding, Placed
  <2>2. PICK q \in Tasks, r \in Runs, a \in Attempts : Admits(q, r, n, a)
    BY <1>1, <2>1, NodesBorn, AdmittedMoves
  <2>3. CASE p # q
    <3>1. proc'[p] = proc[p] /\ drive'[p] = drive[p]
      BY <1>0, <2>2, <2>3 DEF Admits, Others
    <3>2. Engaged(p, n)
      BY <1>1, <3>1 DEF Engaged, Resuming
    <3> QED
      BY <1>1, <3>2, EngagedFacts
  <2> QED
    BY <2>2, <2>3
<1>2. ASSUME NEW n \in NodeRuns, nodeRuns[n].status # "absent", NEW p \in Tasks, ClaimParked(p), drive[p].n = n,
             drive[p].pc = "found", TransitionRun(drive[p].r, "running")
      PROVE  /\ runStatus[nodeRuns[n].run] \in {"waiting", "paused"}
             /\ runStatus'[nodeRuns[n].run] = "running"
             /\ drive'[p] # drive[p]
  <2>1. drive[p].r = nodeRuns[n].run /\ drive[p].r \in Runs /\ drive[p] \in DriveRecord
    BY <1>2, Driven
  <2>2. runStatus[nodeRuns[n].run] \notin {"absent", "created", "queued"}
    BY <1>2 DEF OneNode
  <2>3. runStatus[nodeRuns[n].run] \in {"queued", "waiting"}
    BY <1>2, <2>1 DEF TransitionRun, MayTransitionRun, RunTransitions, RunStatus, TerminalRunStatus
  <2>4. runStatus'[nodeRuns[n].run] = "running"
    BY <1>0, <1>2, <2>1 DEF TransitionRun, Shapes
  <2>5. drive'[p] # drive[p]
    <3>1. MayTransitionRun(drive[p].r, "running")
      BY <1>2 DEF TransitionRun
    <3>2. drive' = [drive EXCEPT ![p] = [drive[p] EXCEPT !.pc = "claimed"]]
      BY <1>2, <3>1 DEF ClaimParked, Drives
    <3>3. drive'[p] = [drive[p] EXCEPT !.pc = "claimed"]
      BY <3>2 DEF Base, DriveOK
    <3> QED
      BY <1>2, <2>1, <3>3 DEF DriveRecord
  <2> QED
    BY <2>2, <2>3, <2>4, <2>5
<1>3. ASSUME NEW n \in NodeRuns, nodeRuns[n].status # "absent", Live(n), NEW p \in Tasks, Engaged(p, n)'
      PROVE  \/ Engaged(p, n)
             \/ drive'[p] # drive[p] /\ runStatus'[nodeRuns[n].run] = "running" /\ \A q \in Tasks : ~Engaged(q, n)
  BY <1>2, <1>3, EngagedWas DEF OneEngaged
<1>4. ASSUME NEW n \in NodeRuns, Live(n)', NEW p \in Tasks, NEW q \in Tasks, Engaged(p, n)', Engaged(q, n)' PROVE p = q
  <2>1. CASE nodeRuns[n].status = "absent"
    <3>1. PICK r \in Runs, a \in Attempts : Admits(p, r, n, a)
      BY <1>1, <1>4, <2>1
    <3>2. PICK s \in Runs, b \in Attempts : Admits(q, s, n, b)
      BY <1>1, <1>4, <2>1
    <3> QED
      BY <1>0, <3>1, <3>2 DEF Admits, Others
  <2>2. CASE nodeRuns[n].status # "absent"
    <3>1. Live(n)
      BY <1>4, <2>2, LiveWas
    <3>2. CASE Engaged(p, n) /\ Engaged(q, n)
      BY <3>1, <3>2 DEF OneEngaged
    <3>3. CASE drive'[p] # drive[p] /\ drive'[q] # drive[q]
      BY <3>3, OneMover
    <3> QED
      BY <1>3, <1>4, <2>2, <3>1, <3>2, <3>3
  <2> QED
    BY <2>1, <2>2
<1>5. ASSUME NEW n \in NodeRuns, Live(n)', NEW p \in Tasks, Engaged(p, n)'
      PROVE  runStatus'[nodeRuns'[n].run] \notin {"waiting", "paused"}
  <2>1. CASE nodeRuns[n].status = "absent"
    <3>1. PICK r \in Runs, a \in Attempts : Admits(p, r, n, a)
      BY <1>1, <1>5, <2>1
    <3> QED
      BY <3>1 DEF Admits
  <2>2. CASE nodeRuns[n].status # "absent"
    <3> DEFINE r == nodeRuns[n].run
    <3>1. Live(n) /\ nodeRuns'[n].run = r /\ r \in Runs
      BY <1>0, <1>5, <2>2, LiveWas DEF Grows, Parents
    <3>2. CASE Engaged(p, n)
      <4>0. runStatus[r] \notin {"waiting", "paused"}
        BY <3>1, <3>2 DEF OneEngaged
      <4>1. ASSUME NEW q \in Tasks, ParkRun(q), drive[q].r = r PROVE FALSE
        <5>1. drive[q].pc = "parkRun" /\ Drives(q, NoDrive) /\ proc' = proc
          BY <4>1 DEF ParkRun
        <5>2. drive[q].n \in NodeRuns /\ nodeRuns[drive[q].n].status # "absent" /\ nodeRuns[drive[q].n].run = r
              /\ proc[q] = Idle
          BY <4>1, <5>1, Driven DEF Holding, Fits
        <5>3. drive[q].n = n
          BY <2>2, <5>2 DEF OneNode
        <5>4. Engaged(q, n)
          BY <5>1, <5>3 DEF Engaged, Resuming
        <5>5. p = q
          BY <3>1, <3>2, <5>4 DEF OneEngaged
        <5>6. drive'[q] = NoDrive /\ NoDrive.pc = "none"
          BY <5>1 DEF Drives, Base, DriveOK, NoDrive
        <5> QED
          BY <1>0, <1>5, <5>1, <5>2, <5>5, <5>6 DEF Engaged, Resuming
      <4>2. ASSUME NEW q \in Tasks, Call(q), Concludes(q, r) PROVE FALSE
        <5>1. proc[q].pc = "conclude" /\ RunOf(q) = r
          BY <4>2 DEF Concludes, ConcludeRun
        <5>2. Engaged(q, proc[q].n) /\ proc[q].n \in NodeRuns /\ nodeRuns[proc[q].n].status # "absent"
          BY <5>1, EngagedFacts
        <5>3. proc[q].n = n
          BY <2>2, <5>1, <5>2 DEF OneNode, RunOf
        <5>4. p = q
          BY <3>1, <3>2, <5>2, <5>3 DEF OneEngaged
        <5> QED
          BY <1>5, <3>1, <4>2, <5>3, <5>4, CallLetsGo
      <4>3. ~Concludes(Sweeper, r)
        BY <3>1, <3>2, TickParksNobodys
      <4>4. RunMoves(r)
        BY <3>1, EveryRunMoves
      <4> QED
        BY <3>1, <4>0, <4>1, <4>2, <4>3, <4>4 DEF RunMoves, TerminalRunStatus
    <3> QED
      BY <1>3, <1>5, <2>2, <3>1, <3>2
  <2> QED
    BY <2>1, <2>2
<1> QED
  BY <1>4, <1>5 DEF OneEngaged

------------------------------------------------------------------------------
LEMMA ConsumerInitResume == ConsumerInit => ResumeInv
<1> SUFFICES ASSUME ConsumerInit PROVE ResumeInv
  OBVIOUS
<1>1. /\ \A a \in Attempts : attempts[a] = AbsentAttempt
      /\ \A n \in NodeRuns : nodeRuns[n] = AbsentNodeRun
      /\ \A p \in Procs : proc[p] = Idle
      /\ \A p \in Tasks : drive[p] = NoDrive
      /\ Tasks \subseteq Procs /\ Sweeper \in Procs
  BY DEF ConsumerInit, ExecInit, Init, Procs
<1>2. AbsentAttempt.status = "absent" /\ AbsentAttempt.reclaimed = FALSE /\ AbsentNodeRun.status = "absent"
      /\ Idle.pc = "idle" /\ NoDrive.pc = "none" /\ "absent" \notin ActiveAttemptStatus
  BY DEF AbsentAttempt, AbsentNodeRun, Idle, NoDrive, ActiveAttemptStatus
<1>3. (\A a \in Attempts : ~Exist(a) /\ ~Active(a) /\ ~attempts[a].reclaimed) /\ \A n : ~Live(n)
  BY <1>1, <1>2 DEF Exist, Active, Live, Last
<1>4. NoGaps /\ ReclaimedEnds /\ ActiveIsNewest /\ OneNode
  BY <1>1, <1>2, <1>3 DEF NoGaps, ReclaimedEnds, ActiveIsNewest, OneNode
<1>5. GoalsOK /\ BeforeLaunch /\ TickSettles /\ TakesTurns
  BY <1>1, <1>2 DEF GoalsOK, BeforeLaunch, RaisingPlaces, TickSettles, TakesTurns, Resuming
<1>6. OwnAttempts /\ OneEngaged
  BY <1>1, <1>2, <1>3 DEF OwnAttempts, Working, Settling, OneEngaged
<1> QED
  BY <1>4, <1>5, <1>6, ConsumerInitBase DEF ResumeInv

LEMMA ResumeInvariance ==
    ASSUME Overlap = FALSE
    PROVE  ConsumerSpec => []ResumeInv
<1>1. ResumeInv /\ [ConsumerNext]_consumerVars => ResumeInv'
  <2> SUFFICES ASSUME ResumeInv, [ConsumerNext]_consumerVars PROVE ResumeInv'
    OBVIOUS
  <2>0. Base /\ NoGaps /\ ReclaimedEnds /\ ActiveIsNewest /\ OneNode /\ GoalsOK /\ BeforeLaunch /\ OwnAttempts
        /\ OneEngaged /\ TakesTurns /\ TickSettles
    BY DEF ResumeInv
  <2>1. Base'
    BY <2>0, ConsumerStepFacts, ConsumerStepKeepsDrive, ConsumerStepKeepsDue DEF Base
  <2>2. NoGaps' /\ ReclaimedEnds' /\ ActiveIsNewest'
    BY <2>0, ConsumersKeepGaps, StepKeepsReclaimedEnds, StepKeepsActiveIsNewest
  <2>3. OneNode' /\ GoalsOK' /\ TickSettles' /\ TakesTurns'
    BY <2>0, StepKeepsOneNode, StepKeepsGoals, StepKeepsTickSettles, StepKeepsTurns
  <2>4. BeforeLaunch' /\ OwnAttempts' /\ OneEngaged'
    BY <2>0, StepKeepsBeforeLaunch, StepKeepsOwnAttempts, StepKeepsOneEngaged
  <2> QED
    BY <2>1, <2>2, <2>3, <2>4 DEF ResumeInv
<1> QED
  BY <1>1, ConsumerInitResume, PTL DEF ConsumerSpec

\* An Attempt that a step creates follows a pause that has elapsed.
LEMMA CreatedAfterPause ==
    ASSUME ResumeInv, [ConsumerNext]_consumerVars, NEW a \in Attempts,
           attempts[a].status = "absent", attempts'[a].status = "created"
    PROVE  \E b \in BehindRecovery(attempts'[a].nodeRun) : attempts[b].status = "yielded" /\ b \in due
<1>0. /\ Base /\ IInv /\ Shapes /\ ExecTypeOK /\ AttemptsMove /\ BeforeLaunch /\ OneEngaged
      /\ "absent" \notin ActiveAttemptStatus /\ "absent" \notin AttemptStatus
  BY ConsumersMoveAttempts, StatusFacts DEF ResumeInv, Base, IInv, ActiveAttemptStatus
<1>1. ~AsBefore(a)
  BY DEF AsBefore
<1>2. ASSUME NEW p \in Tasks, NEW c \in Attempts, Begins(p, c)
      PROVE  \E b \in BehindRecovery(attempts'[a].nodeRun) : attempts[b].status = "yielded" /\ b \in due
  <2>1. c = a
    BY <1>1, <1>2 DEF Begins, AllBut
  <2>2. attempts'[a].nodeRun = proc[p].n /\ Elapsed(proc[p].n)
    BY <1>0, <1>2, <2>1, BeginnerFacts DEF Begins
  <2>3. PICK b \in Attempts : Last(b, proc[p].n) /\ TimedPause(b) /\ b \in due
    BY <2>2 DEF Elapsed
  <2>4. b \in BehindRecovery(proc[p].n)
    <3>1. \A d : d \in AttemptsOf(proc[p].n) <=> d \in Attempts /\ Exist(d) /\ attempts[d].nodeRun = proc[p].n
      BY <1>0, AttemptsOfFacts DEF Exist
    <3>2. \A d \in Attempts : d \in Nat
      BY IdAssumption
    <3> QED
      BY <2>3, <3>1, <3>2 DEF BehindRecovery, Last
  <2> QED
    BY <2>2, <2>3, <2>4 DEF TimedPause
<1>3. ASSUME NEW p \in Tasks, MovesOn(p) PROVE FALSE
  BY <1>0, <1>1, <1>3 DEF MovesOn, AllBut, Active
<1>4. ASSUME NEW p \in Tasks, NEW r \in Runs, NEW node \in Nodes, NEW m \in NodeRuns, NEW b \in Attempts,
             ClaimRun(p, r, node, m, b)
      PROVE  FALSE
  <2>1. /\ attempts'[b].status = "running"
        /\ \A c \in Attempts : c # b => attempts'[c] = attempts[c]
    BY <1>0, <1>4, ClaimEffect DEF ClaimRun, KeptAttempt
  <2> QED
    BY <2>1
<1>5. ASSUME NEW batch \in SUBSET Attempts, SweepReclaim(batch) PROVE FALSE
  <2>1. /\ \A c \in batch : attempts[c].status \in ActiveAttemptStatus
        /\ \A c \in Attempts : c \notin batch => attempts'[c] = attempts[c]
    BY <1>0, <1>5, ReclaimEffect DEF SweepReclaim, KeptAttempt
  <2> QED
    BY <1>0, <2>1
<1> QED
  BY <1>0, <1>1, <1>2, <1>3, <1>4, <1>5 DEF AttemptsMove

\* Every Attempt after the first of a NodeRun re-enters a pause whose timer has
\* run out, however many consumers there are, wherever they die and however
\* often recovery reclaims, as long as the recovery tick and the resumes take
\* turns: the claim of the Run is the lock.
THEOREM PausesAreResumedOnce ==
    ASSUME Overlap = FALSE
    PROVE  ConsumerSpec => ResumesElapsedPauses
<1>1. ResumeInv /\ [ConsumerNext]_consumerVars =>
        [\A a \in Attempts :
            LET n == attempts'[a].nodeRun IN
            attempts[a].status = "absent" /\ attempts'[a].status = "created" =>
                \E b \in BehindRecovery(n) : attempts[b].status = "yielded" /\ b \in due]_consumerVars
  BY CreatedAfterPause
<1> QED
  BY <1>1, ResumeInvariance, PTL DEF ConsumerSpec, ResumesElapsedPauses

------------------------------------------------------------------------------
(***************************************************************************)
(* Work is not repeated and not lost.  AttemptExecution shows it where a   *)
(* NodeRun has one call at a time; the consumers have to see to that, and  *)
(* do: an Attempt begins under a pause only, and then nobody else works    *)
(* on the NodeRun.                                                         *)
(***************************************************************************)
WorkInv == ResumeInv /\ LiveIsNewest /\ OwnOK /\ EndedIsQuiet

\* Under a NodeRun with a completion no Attempt begins: its newest Attempt
\* completed, and is not a pause.
LEMMA NothingBeginsAfterCompletion ==
    ASSUME Base, ReclaimedEnds, BeforeLaunch, OneEngaged, LiveIsNewest,
           NEW q \in Tasks, NEW c \in Attempts, Begins(q, c),
           NEW a \in Attempts, attempts[a].nodeRun = proc[q].n
    PROVE  attempts[a].status # "completed"
<1> SUFFICES ASSUME attempts[a].status = "completed" PROVE FALSE
  OBVIOUS
<1>1. PICK b \in Attempts : Last(b, proc[q].n) /\ TimedPause(b)
  BY BeginnerFacts DEF Elapsed
<1>2. NewestAttempt(a) /\ Exist(a) /\ ~attempts[a].reclaimed
  BY DEF LiveIsNewest, Exist, ReclaimedEnds
<1>3. a # b /\ b <= a
  BY <1>1, <1>2 DEF TimedPause, Last, NewestAttempt
<1>4. b < a
  BY <1>3, IdAssumption
<1> QED
  BY <1>1, <1>2, <1>4 DEF Last

LEMMA StepKeepsLiveIsNewest ==
    ASSUME Base, NoGaps, ReclaimedEnds, ActiveIsNewest, BeforeLaunch, OneEngaged, LiveIsNewest,
           [ConsumerNext]_consumerVars
    PROVE  LiveIsNewest'
<1>0. /\ IInv /\ Shapes /\ ExecTypeOK /\ AttemptsMove /\ "absent" \notin ActiveAttemptStatus
      /\ "completed" \in TerminalAttemptStatus /\ "completed" \notin ActiveAttemptStatus
  BY ConsumersMoveAttempts, StatusFacts DEF Base, IInv, TerminalAttemptStatus, AttemptStatus, ActiveAttemptStatus
<1>1. ASSUME NEW a \in Attempts, attempts'[a].status = "completed" PROVE NewestAttempt(a)'
  <2>1. CASE Active(a) \/ attempts[a].status = "completed"
    <3>1. Exist(a) /\ NewestAttempt(a)
      BY <1>0, <2>1 DEF Active, Exist, LiveIsNewest
    <3>2. ASSUME NEW p \in Tasks, NEW c \in Attempts, Begins(p, c), proc[p].n = attempts[a].nodeRun PROVE FALSE
      <4>1. a # c
        BY <1>1, <3>2 DEF Begins
      <4>2. attempts[a].status = "completed"
        BY <1>1, <3>2, <4>1 DEF Begins, AllBut, AsBefore
      <4> QED
        BY <3>2, <4>2, NothingBeginsAfterCompletion
    <3> QED
      BY <3>1, <3>2, NewestUntilBegun
  <2>2. CASE ~Active(a) /\ attempts[a].status # "completed"
    <3>1. ~AsBefore(a)
      BY <1>1, <2>2 DEF AsBefore
    <3>2. ASSUME NEW p \in Tasks, NEW c \in Attempts, Begins(p, c) PROVE FALSE
      BY <1>1, <3>1, <3>2 DEF Begins, AllBut
    <3>3. ASSUME NEW p \in Tasks, MovesOn(p) PROVE FALSE
      BY <2>2, <3>1, <3>3 DEF MovesOn, AllBut
    <3>4. ASSUME NEW p \in Tasks, NEW r \in Runs, NEW node \in Nodes, NEW m \in NodeRuns, NEW c \in Attempts,
                 ClaimRun(p, r, node, m, c)
          PROVE  FALSE
      <4>1. /\ attempts'[c].status = "running"
            /\ \A b \in Attempts : b # c => attempts'[b] = attempts[b]
        BY <1>0, <3>4, ClaimEffect DEF ClaimRun, KeptAttempt
      <4> QED
        BY <1>1, <2>2, <4>1
    <3>5. ASSUME NEW batch \in SUBSET Attempts, SweepReclaim(batch) PROVE FALSE
      <4>1. /\ \A c \in batch : Active(c)
            /\ \A c \in Attempts : c \notin batch => attempts'[c] = attempts[c]
        BY <1>0, <3>5, ReclaimEffect DEF SweepReclaim, KeptAttempt, Active
      <4> QED
        BY <1>1, <2>2, <4>1
    <3> QED
      BY <1>0, <3>1, <3>2, <3>3, <3>4, <3>5 DEF AttemptsMove
  <2> QED
    BY <2>1, <2>2
<1>2. ActiveIsNewest'
  BY StepKeepsActiveIsNewest
<1> QED
  BY <1>1, <1>2 DEF LiveIsNewest, ActiveIsNewest, Active

\* How a call comes to a place of its settlement: by going on from another.
LEMMA ConsumerProcStep ==
    ASSUME Base, [ConsumerNext]_consumerVars, NEW p \in Tasks, proc'[p].pc \in {"accept", "reconcile", "write"}
    PROVE  proc'[p] = proc[p] \/ Settles(p) \/ Decides(p)
<1>0. p \in Procs /\ p # Sweeper /\ Idle.pc = "idle"
  BY CallAssumption DEF Procs, Idle
<1>1. CASE CallMoves(p)
  <2>1. ProcStep(p)
    BY <1>1, CallMovesOne
  <2> QED
    BY <1>0, <2>1 DEF ProcStep, Checked, Starts, Claims, Works, Working, Turns, Observes, Recovers
<1>2. CASE DriveMoves(p)
  BY <1>0, <1>2, DriveMovesOne
<1>3. ASSUME NEW q \in Tasks, q # p, CallMoves(q) \/ DriveMoves(q) PROVE proc'[p] = proc[p]
  BY <1>0, <1>3, CallMovesOne, DriveMovesOne DEF Others
<1>4. ASSUME NEW q \in Tasks, NEW r \in Runs, NEW node \in Nodes, NEW n \in NodeRuns, NEW a \in Attempts,
             ExecuteAdmitted(q, r, node, n, a)
      PROVE  proc'[p] = proc[p]
  <2>1. Admits(q, r, n, a)
    BY <1>4, AdmittedMoves
  <2> QED
    BY <1>0, <2>1 DEF Admits, Others
<1> QED
  BY <1>1, <1>2, <1>3, <1>4, KindsOfStep, NobodyMoves

\* A call keeps the newest Attempt: whoever begins another one drives the
\* NodeRun alone.
LEMMA StepKeepsOwnWork ==
    ASSUME Base, NoGaps, ReclaimedEnds, BeforeLaunch, OneEngaged, OwnOK, [ConsumerNext]_consumerVars
    PROVE  OwnOK'
<1>0. IInv /\ Shapes /\ ExecTypeOK /\ PlansOK /\ AttemptsMove /\ Grows /\ "absent" \notin TerminalAttemptStatus
  BY ConsumersMoveAttempts, ConsumerStepFacts, StatusFacts DEF Base, IInv
<1>1. ASSUME NEW p \in Tasks, proc[p].pc \in Working \union Settling
      PROVE  /\ proc[p].a \in Attempts /\ Exist(proc[p].a) /\ attempts[proc[p].a].nodeRun = proc[p].n
             /\ Engaged(p, proc[p].n) /\ proc[p].pc # "create" /\ NewestAttempt(proc[p].a)
  BY <1>0, <1>1, EngagedFacts DEF ExecTypeOK, Placed, Exist, Working, Settling, OwnOK, Procs
<1>2. ASSUME NEW p \in Tasks, proc'[p].pc \in Working \union Settling PROVE NewestAttempt(proc[p].a)'
  <2>1. CASE proc[p].pc \in Working \union Settling /\ SameWork(p)
    <3>1. PICK a \in Attempts : a = proc[p].a /\ a = proc'[p].a
      BY <1>1, <2>1 DEF SameWork
    <3>2. ASSUME NEW q \in Tasks, NEW c \in Attempts, Begins(q, c), proc[q].n = attempts[a].nodeRun PROVE FALSE
      <4>1. proc[q].n = proc[p].n /\ Engaged(p, proc[p].n)
        BY <1>1, <2>1, <3>1, <3>2
      <4>2. \A m \in Tasks : Engaged(m, proc[q].n) => m = q
        BY <3>2, BeginnerFacts
      <4>3. p = q
        BY <4>1, <4>2
      <4> QED
        BY <1>1, <2>1, <3>2, <4>3 DEF Begins
    <3>3. NewestAttempt(a)'
      BY <1>1, <2>1, <3>1, <3>2, NewestUntilBegun
    <3> QED
      BY <3>1, <3>3 DEF NewestAttempt, Exist
  <2>2. ASSUME NEW c \in Attempts, c = proc'[p].a, NextId(attempts, c), AllBut(c) PROVE NewestAttempt(proc[p].a)'
    <3>1. NewestAttempt(c)'
      BY <1>0, <2>2, BegunIsNewest
    <3> QED
      BY <2>2, <3>1 DEF NewestAttempt, Exist
  <2>3. CASE \E c \in Attempts : Begins(p, c)
    BY <2>2, <2>3 DEF Begins
  <2>4. CASE \E r \in Runs, n \in NodeRuns, a \in Attempts : Admits(p, r, n, a)
    BY <2>2, <2>4 DEF Admits
  <2> QED
    BY <1>2, <2>1, <2>3, <2>4, WorkWas DEF WorkKept
<1>3. ASSUME NEW p \in Tasks, proc'[p].pc \in {"accept", "reconcile", "write"}
      PROVE  ~attempts'[proc'[p].a].reclaimed
  <2>1. CASE Settles(p)
    <3>1. proc[p].a \in Attempts
      BY <1>1, <2>1 DEF Settles, Working
    <3> QED
      BY <2>1, <3>1 DEF Settles, SameWork, ReclaimedEnds, ActiveAttemptStatus
  <2>2. CASE proc'[p] = proc[p] \/ Decides(p)
    <3>1. proc[p].pc \in {"accept", "reconcile", "write"} /\ proc'[p].a = proc[p].a
      BY <1>3, <2>2 DEF Decides, SameWork
    <3>2. PICK a \in Attempts : a = proc[p].a
      BY <1>1, <3>1 DEF Settling
    <3>3. ~attempts[a].reclaimed /\ attempts[a].status \in TerminalAttemptStatus
      BY <1>0, <3>1, <3>2 DEF OwnOK, PlansOK, Planned, Settling, Procs
    <3>4. AsBefore(a)
      BY <1>0, <3>3, EndedAttemptStays
    <3> QED
      BY <3>1, <3>2, <3>3, <3>4 DEF AsBefore
  <2> QED
    BY <1>3, <2>1, <2>2, ConsumerProcStep
<1>4. \A p \in Tasks : (proc[p].pc \in Working \union Settling => NewestAttempt(proc[p].a))'
  BY <1>2
<1>5. \A p \in Tasks : (proc[p].pc \in {"accept", "reconcile", "write"} => ~attempts[proc[p].a].reclaimed)'
  BY <1>3
<1> QED
  BY <1>4, <1>5 DEF OwnOK

------------------------------------------------------------------------------
\* What a step does to a NodeRun: what a step of a call does, or the park of a
\* resume that failed.
NodeParked(n) ==
    /\ nodeRuns'[n].status = "waiting"
    /\ nodeRuns'[n].accepted \in {nodeRuns[n].accepted, NoOutcome}

LEMMA ConsumersMoveNodeRuns ==
    ASSUME Base, [ConsumerNext]_consumerVars
    PROVE  \A n \in NodeRuns : NodeRunStep(n) \/ NodeParked(n)
<1>0. IInv /\ Shapes /\ Parents /\ ExecTypeOK /\ \A n \in NodeRuns : nodeRuns[n] \in NodeRunRecord
  BY DEF Base, IInv, Shapes
<1>1. CASE [ExecNext]_execVars
  BY <1>0, <1>1, EveryNodeRunStep
<1>2. CASE nodeRuns' = nodeRuns
  BY <1>2 DEF NodeRunStep
<1>3. ASSUME NEW r \in Runs, NEW target, TransitionRun(r, target) PROVE \A n \in NodeRuns : NodeRunStep(n)
  BY <1>0, <1>3, RunWriteMovesNodeRuns
<1>4. ASSUME NEW m \in NodeRuns, TransitionNodeRun(m, "waiting", NoOutcome), NEW n \in NodeRuns
      PROVE  NodeRunStep(n) \/ NodeParked(n)
  <2>1. nodeRuns' = [nodeRuns EXCEPT ![m] = MovedNodeRun(@, "waiting", NoOutcome)]
    BY <1>4 DEF TransitionNodeRun
  <2>2. CASE m = n
    <3>1. nodeRuns'[n] = MovedNodeRun(nodeRuns[n], "waiting", NoOutcome)
      BY <1>0, <2>1, <2>2 DEF Shapes
    <3>2. /\ MovedNodeRun(nodeRuns[n], "waiting", NoOutcome).status = "waiting"
          /\ MovedNodeRun(nodeRuns[n], "waiting", NoOutcome).accepted \in {nodeRuns[n].accepted, NoOutcome}
      BY <1>0 DEF MovedNodeRun, NodeRunRecord
    <3> QED
      BY <3>1, <3>2 DEF NodeParked
  <2>3. CASE m # n
    BY <1>0, <2>1, <2>3 DEF Shapes, NodeRunStep
  <2> QED
    BY <2>2, <2>3
<1> QED
  BY <1>1, <1>2, <1>3, <1>4, StepSplit DEF OwnStep, OwnWrite, vars

\* Nothing happens any more to what is quiet.
LEMMA ConsumersKeepQuiet ==
    ASSUME Base, [ConsumerNext]_consumerVars, NEW a \in Attempts, Exist(a), Quiet(a)
    PROVE  Quiet(a)'
<1>0. IInv /\ ExecTypeOK /\ AttemptsMove /\ Grows
  BY ConsumersMoveAttempts, ConsumerStepFacts DEF Base
<1>1. AsBefore(a)
  BY <1>0, EndedAttemptStays DEF Quiet
<1>2. ASSUME ~NewestAttempt(a) PROVE ~NewestAttempt(a)'
  <2>1. PICK b \in Attempts : Exist(b) /\ attempts[b].nodeRun = attempts[a].nodeRun /\ ~(b <= a)
    BY <1>2 DEF NewestAttempt
  <2>2. Exist(b)' /\ attempts'[b].nodeRun = attempts[b].nodeRun
    BY <1>0, <2>1 DEF Grows, Exist
  <2> QED
    BY <1>1, <2>1, <2>2 DEF AsBefore, NewestAttempt
<1> QED
  BY <1>1, <1>2 DEF Quiet, AsBefore

\* What a consumer or the tick has ended goes on being quiet.
LEMMA StepKeepsEndedIsQuiet ==
    ASSUME Base, ReclaimedEnds, LiveIsNewest, OwnOK, EndedIsQuiet, [ConsumerNext]_consumerVars
    PROVE  EndedIsQuiet'
<1> SUFFICES ASSUME NEW n \in NodeRuns, nodeRuns'[n].status \in TerminalRunStatus, ~nodeRuns'[n].cascaded,
                    NEW a \in Attempts, Exist(a)', attempts'[a].nodeRun = n
             PROVE  Quiet(a)'
  BY DEF EndedIsQuiet
<1>0. IInv /\ ExecTypeOK /\ PlansOK /\ Grows
  BY ConsumerStepFacts DEF Base
<1>1. Exist(a) => attempts[a].nodeRun = n
  BY <1>0 DEF Grows, Exist
<1>2. ASSUME NEW p \in Procs, NodeWrittenBy(p, n) PROVE Quiet(a)'
  <2>1. attempts' = attempts
    BY <1>2 DEF NodeWrittenBy
  <2>2. Exist(a)
    BY <2>1 DEF Exist
  <2>3. Quiet(a)
    BY <1>0, <1>1, <1>2, <2>2, WrittenIsQuiet
  <2> QED
    BY <2>2, <2>3, ConsumersKeepQuiet
<1>3. CASE nodeRuns'[n] = nodeRuns[n]
  <2>1. Exist(a)
    <3>1. ASSUME ~Exist(a) PROVE FALSE
      <4>1. nodeRuns[n].status # "absent"
        BY <1>3, StatusFacts
      <4>2. PICK p \in Tasks : Begins(p, a) /\ proc[p].n = n
        BY <3>1, <4>1, OnlyBegun
      <4> QED
        BY <1>3, <4>2, StatusFacts DEF Begins, MayCreateAttempt
    <3> QED
      BY <3>1
  <2>2. Quiet(a)
    BY <1>1, <1>3, <2>1 DEF EndedIsQuiet
  <2> QED
    BY <2>1, <2>2, ConsumersKeepQuiet
<1>4. CASE NodeBorn(n) \/ NodeReadied(n) \/ NodeCascaded(n) \/ NodeParked(n)
  BY <1>4 DEF NodeBorn, NodeReadied, NodeCascaded, NodeParked, TerminalRunStatus
<1> QED
  BY <1>2, <1>3, <1>4, ConsumersMoveNodeRuns DEF NodeRunStep

LEMMA ConsumerInitWork == ConsumerInit => WorkInv
<1> SUFFICES ASSUME ConsumerInit PROVE WorkInv
  OBVIOUS
<1>1. /\ \A a \in Attempts : attempts[a] = AbsentAttempt
      /\ \A n \in NodeRuns : nodeRuns[n] = AbsentNodeRun
      /\ \A p \in Procs : proc[p] = Idle
      /\ Tasks \subseteq Procs
  BY DEF ConsumerInit, ExecInit, Init, Procs
<1>2. /\ AbsentAttempt.status = "absent" /\ AbsentNodeRun.status = "absent" /\ Idle.pc = "idle"
      /\ "absent" \notin ActiveAttemptStatus \union {"completed"} /\ "absent" \notin TerminalRunStatus
  BY DEF AbsentAttempt, AbsentNodeRun, Idle, ActiveAttemptStatus, TerminalRunStatus
<1>3. LiveIsNewest /\ OwnOK /\ EndedIsQuiet
  BY <1>1, <1>2 DEF LiveIsNewest, OwnOK, EndedIsQuiet, Working, Settling
<1> QED
  BY <1>3, ConsumerInitResume DEF WorkInv

LEMMA WorkInvariance ==
    ASSUME Overlap = FALSE
    PROVE  ConsumerSpec => []WorkInv
<1>1. ResumeInv /\ WorkInv /\ [ConsumerNext]_consumerVars => (LiveIsNewest /\ OwnOK /\ EndedIsQuiet)'
  BY StepKeepsLiveIsNewest, StepKeepsOwnWork, StepKeepsEndedIsQuiet DEF WorkInv, ResumeInv
<1>2. ConsumerInit => LiveIsNewest /\ OwnOK /\ EndedIsQuiet
  BY ConsumerInitWork DEF WorkInv
<1>3. ResumeInv /\ LiveIsNewest /\ OwnOK /\ EndedIsQuiet <=> WorkInv
  BY DEF WorkInv
<1>4. WorkInv' <=> ResumeInv' /\ (LiveIsNewest /\ OwnOK /\ EndedIsQuiet)'
  BY DEF WorkInv
<1>5. WorkInv /\ ResumeInv' /\ [ConsumerNext]_consumerVars => WorkInv'
  BY <1>1, <1>3, <1>4
<1> QED
  BY <1>5, ConsumerInitWork, ResumeInvariance, PTL DEF ConsumerSpec

\* However often consumers execute and resume a NodeRun, wherever they and
\* their stores fail: a completed Attempt that nobody has accepted yet is not
\* repeated.  No caller has to be alone for it: the claims make it so.
THEOREM ConsumersRedispatchNothing ==
    ASSUME Overlap = FALSE
    PROVE  ConsumerSpec => CompletionIsNeverRedispatched
<1>1. WorkInv /\ [ConsumerNext]_consumerVars => [RedispatchesNothing]_execVars
  <2> SUFFICES ASSUME WorkInv, [ConsumerNext]_consumerVars, NEW a \in Attempts,
                      attempts[a].status = "absent", attempts'[a].status # "absent",
                      AwaitsAcceptance(attempts'[a].nodeRun)
               PROVE  FALSE
    BY DEF RedispatchesNothing
  <2>0. /\ Base /\ IInv /\ Shapes /\ Parents /\ ReclaimedEnds /\ BeforeLaunch /\ OneEngaged /\ LiveIsNewest
    BY DEF WorkInv, ResumeInv, Base, IInv
  <2>1. PICK c \in Attempts : /\ Exist(c) /\ attempts[c].nodeRun = attempts'[a].nodeRun
                              /\ attempts[c].status = "completed"
    BY <2>0, AttemptsOfFacts DEF AwaitsAcceptance, Exist
  <2>2. attempts'[a].nodeRun \in NodeRuns /\ nodeRuns[attempts'[a].nodeRun].status # "absent"
    BY <2>0, <2>1 DEF Parents, Exist
  <2>3. PICK p \in Tasks : Begins(p, a) /\ proc[p].n = attempts'[a].nodeRun
    BY <2>0, <2>2, OnlyBegun DEF Exist
  <2> QED
    BY <2>0, <2>1, <2>3, NothingBeginsAfterCompletion
<1> QED
  BY <1>1, WorkInvariance, PTL DEF ConsumerSpec, CompletionIsNeverRedispatched

\* What a consumer or the recovery tick accepts for a NodeRun is its newest
\* Attempt, although recovery replays what nobody accepted.
THEOREM ConsumersAcceptTheCurrent ==
    ASSUME Overlap = FALSE
    PROVE  ConsumerSpec => AcceptedAttemptIsCurrent
<1>1. WorkInv /\ [ConsumerNext]_consumerVars => [AcceptsTheCurrent]_execVars
  <2> SUFFICES ASSUME WorkInv, [ConsumerNext]_consumerVars, NEW n \in NodeRuns,
                      nodeRuns'[n].accepted.attempt \notin {0, nodeRuns[n].accepted.attempt},
                      NEW b \in AttemptsOf(n)
               PROVE  b <= nodeRuns'[n].accepted.attempt
    BY DEF AcceptsTheCurrent
  <2>0. Base /\ ExecTypeOK /\ Shapes /\ LiveIsNewest /\ (NodeRunStep(n) \/ NodeParked(n))
    BY ConsumersMoveNodeRuns DEF WorkInv, ResumeInv, Base, IInv
  <2>1. PICK p \in Procs : NodeWrittenBy(p, n) /\ attempts[proc[p].a].status = "completed"
    BY <2>0 DEF NodeRunStep, NodeBorn, NodeReadied, NodeWrittenBy, NodeCascaded, NodeParked, NoOutcome
  <2>2. proc[p].a \in Attempts /\ attempts[proc[p].a].nodeRun = n
    BY <2>0, <2>1 DEF NodeWrittenBy, ExecTypeOK, Placed
  <2>3. NewestAttempt(proc[p].a)
    BY <2>0, <2>1, <2>2 DEF LiveIsNewest
  <2>4. b \in Attempts /\ Exist(b) /\ attempts[b].nodeRun = n
    BY <2>0, AttemptsOfFacts DEF Exist
  <2>5. nodeRuns'[n].accepted.attempt = proc[p].a
    BY <2>1 DEF NodeWrittenBy, OutcomeOf
  <2> QED
    BY <2>2, <2>3, <2>4, <2>5 DEF NewestAttempt
<1> QED
  BY <1>1, WorkInvariance, PTL DEF ConsumerSpec, AcceptedAttemptIsCurrent

\* A consumer that lost its lease does not conclude the NodeRun: with its newest
\* Attempt reclaimed, it stays open until its Run ends.
THEOREM ConsumersKeepReclaimedWorkOpen ==
    ASSUME Overlap = FALSE
    PROVE  ConsumerSpec => []ReclaimedWorkStaysOpen
<1>1. WorkInv => ReclaimedWorkStaysOpen
  <2> SUFFICES ASSUME WorkInv, NEW n \in Created(nodeRuns), nodeRuns[n].status \in TerminalRunStatus,
                      ~nodeRuns[n].cascaded, NEW a \in AttemptsOf(n), attempts[a].reclaimed
               PROVE  \E b \in AttemptsOf(n) : b > a
    BY DEF ReclaimedWorkStaysOpen
  <2>0. Shapes /\ EndedIsQuiet
    BY DEF WorkInv, ResumeInv, Base, IInv
  <2>1. n \in NodeRuns /\ a \in Attempts /\ Exist(a) /\ attempts[a].nodeRun = n
    BY <2>0, CreatedFacts, AttemptsOfFacts DEF Shapes, Exist
  <2>2. PICK b \in Attempts : Exist(b) /\ attempts[b].nodeRun = n /\ ~(b <= a)
    BY <2>0, <2>1 DEF EndedIsQuiet, Quiet, NewestAttempt
  <2>3. b \in AttemptsOf(n) /\ b > a
    BY <2>0, <2>1, <2>2, AttemptsOfFacts, IdAssumption DEF Exist
  <2> QED
    BY <2>3
<1> QED
  BY <1>1, WorkInvariance, PTL
===============================================================================
