---------------------------- MODULE RunSpineProofs ----------------------------
(***************************************************************************)
(* What RunSpine guarantees for any number of Runs, nodes, NodeRuns and    *)
(* Attempts, whoever calls the operations of the store.                    *)
(***************************************************************************)
EXTENDS RunSpine, TLAPS

------------------------------------------------------------------------------
\* The transition tables: moves stay inside the statuses and terminal statuses
\* have none.
LEMMA RunTransitionFacts ==
    ASSUME NEW s \in RunStatus
    PROVE  /\ RunTransitions[s] \subseteq RunStatus
           /\ s \in TerminalRunStatus => RunTransitions[s] = {}
BY DEF RunTransitions, RunStatus, TerminalRunStatus

\* The same of Attempts, none of which is ever created a second time.
LEMMA AttemptTransitionFacts ==
    ASSUME NEW s \in AttemptStatus
    PROVE  /\ AttemptTransitions[s] \subseteq AttemptStatus
           /\ "created" \notin AttemptTransitions[s]
           /\ s \in TerminalAttemptStatus => AttemptTransitions[s] = {}
BY DEF AttemptTransitions, AttemptStatus, TerminalAttemptStatus, ActiveAttemptStatus

\* How the sets of statuses lie to each other.
LEMMA StatusFacts ==
    /\ "absent" \notin RunStatus /\ "absent" \notin AttemptStatus
    /\ TerminalRunStatus \subseteq RunStatus /\ OpenRunStatus \subseteq RunStatus
    /\ TerminalRunStatus \intersect OpenRunStatus = {}
    /\ AcceptedStatus \subseteq RunStatus
    /\ ActiveAttemptStatus \subseteq AttemptStatus
    /\ TerminalAttemptStatus \subseteq AttemptStatus
    /\ ActiveAttemptStatus \intersect TerminalAttemptStatus = {}
BY DEF RunStatus, TerminalRunStatus, OpenRunStatus, AcceptedStatus, AttemptStatus,
       ActiveAttemptStatus, TerminalAttemptStatus

\* A moved NodeRun record is still a record, with the status asked for, of the
\* same Run and node.
LEMMA MovedRecord ==
    ASSUME NEW record \in NodeRunRecord, NEW target \in RunStatus,
           NEW outcome \in Outcomes \union {NoOutcome}
    PROVE  /\ MovedNodeRun(record, target, outcome) \in NodeRunRecord
           /\ MovedNodeRun(record, target, outcome).status = target
           /\ MovedNodeRun(record, target, outcome).run = record.run
           /\ MovedNodeRun(record, target, outcome).node = record.node
           /\ MovedNodeRun(record, target, outcome).cascaded = record.cascaded
           /\ MovedNodeRun(record, target, outcome).accepted \in {outcome, record.accepted, NoOutcome}
           /\ outcome # NoOutcome =>
                MovedNodeRun(record, target, outcome).accepted = outcome
BY DEF MovedNodeRun, NodeRunRecord

\* The cascade keeps the records of a Run well formed and touches nothing of
\* them but the open ones' statuses and outcomes.
LEMMA CascadeRecord ==
    ASSUME nodeRuns \in [NodeRuns -> NodeRunRecord], NEW r \in Runs
    PROVE  /\ SettledUnder(r) \in [NodeRuns -> NodeRunRecord]
           /\ \A n \in NodeRuns :
                /\ SettledUnder(r)[n].run = nodeRuns[n].run
                /\ SettledUnder(r)[n].node = nodeRuns[n].node
                /\ SettledUnder(r)[n].status = "absent" <=> nodeRuns[n].status = "absent"
                /\ nodeRuns[n].run = r /\ nodeRuns[n].status \in OpenRunStatus =>
                        /\ SettledUnder(r)[n].status = "cancelled"
                        /\ SettledUnder(r)[n].cascaded
                        /\ SettledUnder(r)[n].accepted \in {nodeRuns[n].accepted, NoOutcome}
                /\ ~(nodeRuns[n].run = r /\ nodeRuns[n].status \in OpenRunStatus) =>
                        SettledUnder(r)[n] = nodeRuns[n]
<1> DEFINE settled(n) == [MovedNodeRun(nodeRuns[n], "cancelled", NoOutcome) EXCEPT !.cascaded = TRUE]
<1>1. ASSUME NEW n \in NodeRuns
      PROVE  /\ settled(n) \in NodeRunRecord
             /\ settled(n).run = nodeRuns[n].run
             /\ settled(n).node = nodeRuns[n].node
             /\ settled(n).status = "cancelled"
             /\ settled(n).cascaded
             /\ settled(n).accepted \in {nodeRuns[n].accepted, NoOutcome}
  <2> DEFINE moved == MovedNodeRun(nodeRuns[n], "cancelled", NoOutcome)
  <2>1. /\ nodeRuns[n] \in NodeRunRecord
        /\ "cancelled" \in RunStatus
        /\ NoOutcome \in Outcomes \union {NoOutcome}
    BY DEF RunStatus
  <2>2. /\ moved \in NodeRunRecord
        /\ moved.status = "cancelled" /\ moved.run = nodeRuns[n].run
        /\ moved.node = nodeRuns[n].node
        /\ moved.accepted \in {NoOutcome, nodeRuns[n].accepted}
    BY <2>1, MovedRecord
  <2> HIDE DEF moved
  <2>3. settled(n) = [moved EXCEPT !.cascaded = TRUE]
    BY DEF moved
  <2> QED BY <2>2, <2>3 DEF NodeRunRecord
<1> HIDE DEF settled
<1>2. \A n \in NodeRuns : SettledUnder(r)[n] =
            IF nodeRuns[n].run = r /\ nodeRuns[n].status \in OpenRunStatus
            THEN settled(n) ELSE nodeRuns[n]
  BY DEF SettledUnder, settled
<1>3. SettledUnder(r) \in [NodeRuns -> NodeRunRecord]
  <2>1. \A n \in NodeRuns : SettledUnder(r)[n] \in NodeRunRecord
    BY <1>1, <1>2
  <2>2. SettledUnder(r) = [n \in NodeRuns |-> SettledUnder(r)[n]]
    BY DEF SettledUnder
  <2> QED BY <2>1, <2>2
<1>4. "absent" # "cancelled" /\ "absent" \notin OpenRunStatus
  BY DEF OpenRunStatus, RunStatus
<1> QED BY <1>1, <1>2, <1>3, <1>4

------------------------------------------------------------------------------
(***************************************************************************)
(* Type correctness.  Kept apart from the parent links so that each action *)
(* disturbs one of two small formulas.                                     *)
(***************************************************************************)
Shapes ==
    /\ runStatus \in [Runs -> RunStatus \union {"absent"}]
    /\ nodeRuns \in [NodeRuns -> NodeRunRecord]
    /\ attempts \in [Attempts -> AttemptRecord]

Parents ==
    /\ \A n \in NodeRuns : nodeRuns[n].status # "absent" =>
            nodeRuns[n].run \in Runs /\ nodeRuns[n].node \in GraphOf[nodeRuns[n].run]
    /\ \A a \in Attempts : attempts[a].status # "absent" =>
            /\ attempts[a].nodeRun \in NodeRuns
            /\ nodeRuns[attempts[a].nodeRun].status # "absent"

\* The type invariant is the shapes and the parents together.
LEMMA TypeSplit == TypeOK <=> Shapes /\ Parents
<1>1. Shapes => Created(nodeRuns) = {n \in NodeRuns : nodeRuns[n].status # "absent"}
            /\ Created(attempts) = {a \in Attempts : attempts[a].status # "absent"}
  BY DEF Shapes, Created
<1> QED BY <1>1 DEF TypeOK, Shapes, Parents

\* A step that creates one NodeRun.
LEMMA NewNodeRunShape ==
    ASSUME NEW r \in Runs, NEW node \in Nodes, NEW status \in RunStatus
    PROVE  NewNodeRun(r, node, status) \in NodeRunRecord
BY DEF NewNodeRun, NodeRunRecord

\* A step that creates one Attempt.
LEMMA NewAttemptShape ==
    ASSUME NEW n \in NodeRuns, NEW status \in AttemptStatus, NEW lease \in {"none", "open", "ttl"}
    PROVE  NewAttempt(n, status, lease) \in AttemptRecord
<1>1. (IF lease = "ttl" THEN Ttl ELSE 0) \in 0 .. Ttl
  BY LeaseAssumption
<1> QED BY <1>1 DEF NewAttempt, AttemptRecord, Result

\* An empty store is well formed.
LEMMA InitType == Init => TypeOK
<1> SUFFICES ASSUME Init PROVE Shapes /\ Parents
  BY TypeSplit
<1>1. AbsentNodeRun \in NodeRunRecord /\ AbsentNodeRun.status = "absent"
  BY DEF AbsentNodeRun, NodeRunRecord
<1>2. AbsentAttempt \in AttemptRecord /\ AbsentAttempt.status = "absent"
  BY LeaseAssumption DEF AbsentAttempt, AttemptRecord, Result
<1> QED BY <1>1, <1>2 DEF Init, Shapes, Parents

------------------------------------------------------------------------------
(***************************************************************************)
(* What each operation does to the records, field by field.                *)
(***************************************************************************)
Kept(n) == nodeRuns'[n] = nodeRuns[n]
KeptAttempt(a) == attempts'[a] = attempts[a]

\* transition_run moves one open Run and, when that ends it, settles its NodeRuns.
LEMMA TransitionRunEffect ==
    ASSUME Shapes, NEW r \in Runs, NEW target \in RunStatus, TransitionRun(r, target)
    PROVE  /\ Shapes'
           /\ runStatus[r] \in RunStatus /\ runStatus[r] \notin TerminalRunStatus
           /\ runStatus'[r] = target
           /\ \A q \in Runs : q # r => runStatus'[q] = runStatus[q]
           /\ target \notin TerminalRunStatus => nodeRuns' = nodeRuns
           /\ target \in TerminalRunStatus => nodeRuns' = SettledUnder(r)
           /\ attempts' = attempts
<1>1. runStatus[r] \in RunStatus /\ target \in RunTransitions[runStatus[r]]
  BY DEF TransitionRun, MayTransitionRun
<1>2. runStatus[r] \notin TerminalRunStatus
  BY <1>1, RunTransitionFacts
<1>3. nodeRuns' \in [NodeRuns -> NodeRunRecord]
  BY CascadeRecord DEF Shapes, TransitionRun
<1> QED BY <1>1, <1>2, <1>3 DEF Shapes, TransitionRun

\* transition_node_run moves one open NodeRun under a Run that has not ended.
LEMMA TransitionNodeRunEffect ==
    ASSUME Shapes, Parents, NEW n \in NodeRuns, NEW target \in RunStatus,
           NEW outcome \in Outcomes \union {NoOutcome},
           TransitionNodeRun(n, target, outcome)
    PROVE  /\ Shapes'
           /\ nodeRuns'[n] = MovedNodeRun(nodeRuns[n], target, outcome)
           /\ nodeRuns[n].status \in OpenRunStatus
           /\ nodeRuns[n].run \in Runs /\ runStatus[nodeRuns[n].run] \notin TerminalRunStatus
           /\ nodeRuns'[n].status = target
           /\ nodeRuns'[n].run = nodeRuns[n].run /\ nodeRuns'[n].node = nodeRuns[n].node
           /\ \A m \in NodeRuns : m # n => Kept(m)
           /\ runStatus' = runStatus /\ attempts' = attempts
<1>1. nodeRuns[n].status \in RunStatus /\ target \in RunTransitions[nodeRuns[n].status]
  BY DEF TransitionNodeRun, MayTransitionNodeRun
<1>2. nodeRuns[n].status \in OpenRunStatus
  BY <1>1, RunTransitionFacts DEF OpenRunStatus
<1>3. nodeRuns[n] \in NodeRunRecord
  BY DEF Shapes
<1>4. nodeRuns' = [nodeRuns EXCEPT ![n] = MovedNodeRun(nodeRuns[n], target, outcome)]
  BY DEF TransitionNodeRun
<1>5. /\ MovedNodeRun(nodeRuns[n], target, outcome) \in NodeRunRecord
      /\ MovedNodeRun(nodeRuns[n], target, outcome).status = target
      /\ MovedNodeRun(nodeRuns[n], target, outcome).run = nodeRuns[n].run
      /\ MovedNodeRun(nodeRuns[n], target, outcome).node = nodeRuns[n].node
  BY <1>3, MovedRecord
<1>6. nodeRuns[n].run \in Runs /\ runStatus[nodeRuns[n].run] \notin TerminalRunStatus
  BY <1>1, StatusFacts DEF TransitionNodeRun, MayTransitionNodeRun, RunIsTerminal, Parents
<1>7. runStatus' = runStatus /\ attempts' = attempts
  BY DEF TransitionNodeRun
<1> QED BY <1>2, <1>4, <1>5, <1>6, <1>7 DEF Shapes, Kept

\* create_node_run adds one NodeRun, of a node of the Graph, to an open Run.
LEMMA CreateNodeRunEffect ==
    ASSUME Shapes, NEW n \in NodeRuns, NEW r \in Runs, NEW node \in Nodes,
           CreateNodeRun(n, r, node)
    PROVE  /\ Shapes'
           /\ nodeRuns[n].status = "absent"
           /\ nodeRuns'[n].status = "created" /\ nodeRuns'[n].run = r /\ nodeRuns'[n].node = node
           /\ nodeRuns'[n].accepted = NoOutcome
           /\ node \in GraphOf[r] /\ runStatus[r] \in OpenRunStatus
           /\ \A m \in NodeRuns : m # n => Kept(m)
           /\ runStatus' = runStatus /\ attempts' = attempts
<1>1. "created" \in RunStatus
  BY DEF RunStatus
<1>2. NewNodeRun(r, node, "created") \in NodeRunRecord
  BY <1>1, NewNodeRunShape
<1>3. nodeRuns' = [nodeRuns EXCEPT ![n] = NewNodeRun(r, node, "created")]
      /\ runStatus' = runStatus /\ attempts' = attempts
  BY DEF CreateNodeRun
<1>4. /\ nodeRuns'[n] = NewNodeRun(r, node, "created")
      /\ \A m \in NodeRuns : m # n => nodeRuns'[m] = nodeRuns[m]
      /\ nodeRuns' \in [NodeRuns -> NodeRunRecord]
  BY <1>2, <1>3 DEF Shapes
<1>5. nodeRuns[n].status = "absent" /\ node \in GraphOf[r] /\ runStatus[r] \in OpenRunStatus
  BY DEF CreateNodeRun, NextId
<1>6. /\ NewNodeRun(r, node, "created").status = "created"
      /\ NewNodeRun(r, node, "created").run = r
      /\ NewNodeRun(r, node, "created").node = node
      /\ NewNodeRun(r, node, "created").accepted = NoOutcome
  BY DEF NewNodeRun
<1> QED BY <1>3, <1>4, <1>5, <1>6 DEF Shapes, Kept

\* create_attempt adds one Attempt to an open NodeRun that has no active one.
LEMMA CreateAttemptEffect ==
    ASSUME Shapes, NEW a \in Attempts, NEW n \in NodeRuns, NEW lease \in {"none", "open", "ttl"},
           CreateAttempt(a, n, lease)
    PROVE  /\ Shapes'
           /\ attempts[a].status = "absent"
           /\ attempts'[a].status = "created" /\ attempts'[a].nodeRun = n
           /\ nodeRuns[n].status \in OpenRunStatus /\ ~HasActiveAttempt(n)
           /\ \A b \in Attempts : b # a => KeptAttempt(b)
           /\ runStatus' = runStatus /\ nodeRuns' = nodeRuns
<1>1. "created" \in AttemptStatus
  BY DEF AttemptStatus
<1>2. NewAttempt(n, "created", lease) \in AttemptRecord
  BY <1>1, NewAttemptShape
<1>3. attempts' = [attempts EXCEPT ![a] = NewAttempt(n, "created", lease)]
      /\ runStatus' = runStatus /\ nodeRuns' = nodeRuns
  BY DEF CreateAttempt
<1>4. /\ attempts'[a] = NewAttempt(n, "created", lease)
      /\ \A b \in Attempts : b # a => attempts'[b] = attempts[b]
      /\ attempts' \in [Attempts -> AttemptRecord]
  BY <1>2, <1>3 DEF Shapes
<1>5. attempts[a].status = "absent" /\ nodeRuns[n].status \in OpenRunStatus /\ ~HasActiveAttempt(n)
  BY DEF CreateAttempt, MayCreateAttempt, NextId
<1>6. NewAttempt(n, "created", lease).status = "created" /\ NewAttempt(n, "created", lease).nodeRun = n
  BY DEF NewAttempt
<1> QED BY <1>3, <1>4, <1>5, <1>6 DEF Shapes, KeptAttempt

\* transition_attempt moves one active Attempt, and completes it only under a Run
\* that has not ended.
LEMMA TransitionAttemptEffect ==
    ASSUME Shapes, Parents, NEW a \in Attempts, NEW target \in AttemptStatus,
           NEW token \in Attempts, NEW result \in Result,
           TransitionAttempt(a, target, token, result)
    PROVE  /\ Shapes'
           /\ attempts[a].status \in ActiveAttemptStatus
           /\ attempts'[a].status = target /\ target # "created"
           /\ attempts'[a].nodeRun = attempts[a].nodeRun
           /\ attempts'[a].lease = attempts[a].lease /\ attempts'[a].left = attempts[a].left
           /\ target = "completed" => ~RunIsTerminal(nodeRuns[attempts[a].nodeRun].run)
           /\ \A b \in Attempts : b # a => KeptAttempt(b)
           /\ runStatus' = runStatus /\ nodeRuns' = nodeRuns
<1>1. /\ attempts[a].status \in AttemptStatus
      /\ target \in AttemptTransitions[attempts[a].status]
      /\ target = "completed" => ~RunIsTerminal(nodeRuns[attempts[a].nodeRun].run)
      /\ attempts' = [attempts EXCEPT ![a].status = target, ![a].result = result]
      /\ runStatus' = runStatus /\ nodeRuns' = nodeRuns
  BY DEF TransitionAttempt, MayTransitionAttempt
<1>2. attempts[a].status \in ActiveAttemptStatus /\ target # "created"
  BY <1>1, AttemptTransitionFacts DEF TerminalAttemptStatus
<1>3. attempts[a] \in AttemptRecord
  BY DEF Shapes
<1>4. attempts'[a] = [attempts[a] EXCEPT !.status = target, !.result = result]
  BY <1>1 DEF Shapes
<1>5. attempts'[a] \in AttemptRecord
  BY <1>3, <1>4 DEF AttemptRecord
<1>6. attempts'[a].status = target /\ attempts'[a].nodeRun = attempts[a].nodeRun
      /\ attempts'[a].lease = attempts[a].lease /\ attempts'[a].left = attempts[a].left
  BY <1>3, <1>4 DEF AttemptRecord
<1>7. \A b \in Attempts : b # a => attempts'[b] = attempts[b]
  BY <1>1 DEF Shapes
<1>8. attempts' \in [Attempts -> AttemptRecord]
  BY <1>1, <1>5, <1>7 DEF Shapes
<1> QED BY <1>1, <1>2, <1>6, <1>7, <1>8 DEF Shapes, KeptAttempt

\* renew_lease changes nothing but one lease that has not lapsed.
LEMMA RenewLeaseEffect ==
    ASSUME Shapes, NEW a \in Attempts, NEW token \in Attempts, RenewLease(a, token)
    PROVE  /\ Shapes'
           /\ \A b \in Attempts : /\ attempts'[b].status = attempts[b].status
                                  /\ attempts'[b].nodeRun = attempts[b].nodeRun
                                  /\ attempts'[b].result = attempts[b].result
           /\ \A b \in Attempts : b # a => KeptAttempt(b)
           /\ ~LeaseIsExpired(a)
           /\ runStatus' = runStatus /\ nodeRuns' = nodeRuns
<1>1. /\ attempts' = [attempts EXCEPT ![a].lease = "ttl", ![a].left = Ttl]
      /\ ~LeaseIsExpired(a)
      /\ runStatus' = runStatus /\ nodeRuns' = nodeRuns
  BY DEF RenewLease
<1>2. attempts[a] \in AttemptRecord
  BY DEF Shapes
<1>3. attempts'[a] = [attempts[a] EXCEPT !.lease = "ttl", !.left = Ttl]
  BY <1>1 DEF Shapes
<1>4. /\ attempts'[a] \in AttemptRecord
      /\ attempts'[a].status = attempts[a].status
      /\ attempts'[a].nodeRun = attempts[a].nodeRun
      /\ attempts'[a].result = attempts[a].result
  <2>1. Ttl \in 0 .. Ttl
    BY LeaseAssumption
  <2> QED BY <1>2, <1>3, <2>1 DEF AttemptRecord
<1>5. \A b \in Attempts : b # a => attempts'[b] = attempts[b]
  BY <1>1 DEF Shapes
<1>6. attempts' \in [Attempts -> AttemptRecord]
  BY <1>1, <1>4, <1>5 DEF Shapes
<1> QED BY <1>1, <1>4, <1>5, <1>6 DEF Shapes, KeptAttempt

\* reclaim_expired_attempts cancels Attempts whose lease has lapsed, and nothing else.
LEMMA ReclaimEffect ==
    ASSUME Shapes, NEW batch \in SUBSET Attempts, ReclaimExpiredAttempts(batch)
    PROVE  /\ Shapes'
           /\ \A a \in batch : /\ LeaseIsExpired(a)
                               /\ attempts[a].status \in ActiveAttemptStatus
                               /\ attempts'[a].status = "cancelled"
                               /\ attempts'[a].nodeRun = attempts[a].nodeRun
           /\ \A a \in Attempts : a \notin batch => KeptAttempt(a)
           /\ runStatus' = runStatus /\ nodeRuns' = nodeRuns
<1>1. /\ \A a \in batch : LeaseIsExpired(a)
      /\ attempts' = [a \in Attempts |-> IF a \in batch THEN Reclaimed(attempts[a]) ELSE attempts[a]]
      /\ runStatus' = runStatus /\ nodeRuns' = nodeRuns
  BY DEF ReclaimExpiredAttempts
<1>2. ASSUME NEW a \in Attempts
      PROVE  /\ Reclaimed(attempts[a]) \in AttemptRecord
             /\ Reclaimed(attempts[a]).status = "cancelled"
             /\ Reclaimed(attempts[a]).nodeRun = attempts[a].nodeRun
  <2>1. attempts[a] \in AttemptRecord
    BY DEF Shapes
  <2>2. "cancelled" \in AttemptStatus /\ "none" \in Result
    BY DEF AttemptStatus, Result
  <2> QED BY <2>1, <2>2 DEF Reclaimed, AttemptRecord
<1>3. \A a \in Attempts : attempts'[a] \in AttemptRecord
  BY <1>1, <1>2 DEF Shapes
<1>4. attempts' \in [Attempts -> AttemptRecord]
  BY <1>1, <1>3
<1>5. \A a \in batch : /\ attempts'[a].status = "cancelled"
                       /\ attempts'[a].nodeRun = attempts[a].nodeRun
  BY <1>1, <1>2
<1>6. \A a \in Attempts : a \notin batch => attempts'[a] = attempts[a]
  BY <1>1
<1>7. \A a \in batch : attempts[a].status \in ActiveAttemptStatus
  BY <1>1 DEF LeaseIsExpired
<1> QED BY <1>1, <1>4, <1>5, <1>6, <1>7 DEF Shapes, KeptAttempt

\* claim_consumer_run adds a running NodeRun and a running Attempt to a queued Run.
LEMMA ClaimEffect ==
    ASSUME Shapes, NEW r \in Runs, NEW node \in Nodes, NEW n \in NodeRuns, NEW a \in Attempts,
           ClaimConsumerRun(r, node, n, a)
    PROVE  /\ Shapes'
           /\ runStatus[r] = "queued" /\ runStatus'[r] = "running"
           /\ \A q \in Runs : q # r => runStatus'[q] = runStatus[q]
           /\ nodeRuns[n].status = "absent" /\ attempts[a].status = "absent"
           /\ nodeRuns'[n].status = "running" /\ nodeRuns'[n].run = r /\ nodeRuns'[n].node = node
           /\ nodeRuns'[n].accepted = NoOutcome /\ node \in GraphOf[r]
           /\ attempts'[a].status = "running" /\ attempts'[a].nodeRun = n
           /\ \A m \in NodeRuns : m # n => Kept(m)
           /\ \A b \in Attempts : b # a => KeptAttempt(b)
<1>1. /\ runStatus[r] = "queued" /\ node \in GraphOf[r]
      /\ nodeRuns[n].status = "absent" /\ attempts[a].status = "absent"
      /\ runStatus' = [runStatus EXCEPT ![r] = "running"]
      /\ nodeRuns' = [nodeRuns EXCEPT ![n] = NewNodeRun(r, node, "running")]
      /\ attempts' = [attempts EXCEPT ![a] = NewAttempt(n, "running", "ttl")]
  BY DEF ClaimConsumerRun, NextId
<1>2. "running" \in RunStatus /\ "running" \in AttemptStatus
  BY DEF RunStatus, AttemptStatus
<1>3. NewNodeRun(r, node, "running") \in NodeRunRecord /\ NewAttempt(n, "running", "ttl") \in AttemptRecord
  BY <1>2, NewNodeRunShape, NewAttemptShape
<1>4. /\ nodeRuns'[n] = NewNodeRun(r, node, "running")
      /\ \A m \in NodeRuns : m # n => nodeRuns'[m] = nodeRuns[m]
      /\ nodeRuns' \in [NodeRuns -> NodeRunRecord]
  BY <1>1, <1>3 DEF Shapes
<1>5. /\ attempts'[a] = NewAttempt(n, "running", "ttl")
      /\ \A b \in Attempts : b # a => attempts'[b] = attempts[b]
      /\ attempts' \in [Attempts -> AttemptRecord]
  BY <1>1, <1>3 DEF Shapes
<1>6. /\ runStatus' \in [Runs -> RunStatus \union {"absent"}]
      /\ runStatus'[r] = "running"
      /\ \A q \in Runs : q # r => runStatus'[q] = runStatus[q]
  BY <1>1, <1>2 DEF Shapes
<1>7. /\ NewNodeRun(r, node, "running").status = "running"
      /\ NewNodeRun(r, node, "running").run = r
      /\ NewNodeRun(r, node, "running").node = node
      /\ NewNodeRun(r, node, "running").accepted = NoOutcome
      /\ NewAttempt(n, "running", "ttl").status = "running"
      /\ NewAttempt(n, "running", "ttl").nodeRun = n
  BY DEF NewNodeRun, NewAttempt
<1> QED BY <1>1, <1>4, <1>5, <1>6, <1>7 DEF Shapes, Kept, KeptAttempt

\* repair_attempt_result rewrites the result of one ended Attempt and, where its
\* NodeRun accepted it, the copy.
LEMMA RepairEffect ==
    ASSUME Shapes, Parents, NEW a \in Attempts, NEW result \in Result, RepairAttemptResult(a, result)
    PROVE  LET n == attempts[a].nodeRun IN
           /\ Shapes'
           /\ n \in NodeRuns
           /\ attempts[a].status \in TerminalAttemptStatus
           /\ attempts'[a].status = attempts[a].status
           /\ attempts'[a].nodeRun = attempts[a].nodeRun
           /\ attempts'[a].left = attempts[a].left
           /\ attempts'[a].result = result
           /\ \A b \in Attempts : b # a => KeptAttempt(b)
           /\ nodeRuns'[n].status = nodeRuns[n].status
           /\ nodeRuns'[n].run = nodeRuns[n].run
           /\ nodeRuns'[n].node = nodeRuns[n].node
           /\ nodeRuns'[n].cascaded = nodeRuns[n].cascaded
           /\ nodeRuns[n].accepted.attempt = a => nodeRuns'[n].accepted =
                    [nodeRuns[n].accepted EXCEPT !.evidence = result]
           /\ nodeRuns[n].accepted.attempt # a => nodeRuns'[n].accepted = nodeRuns[n].accepted
           /\ \A m \in NodeRuns : m # n => Kept(m)
           /\ runStatus' = runStatus
<1> DEFINE n == attempts[a].nodeRun
           repaired == IF nodeRuns[n].accepted.attempt = a
                       THEN [nodeRuns[n].accepted EXCEPT !.evidence = result]
                       ELSE nodeRuns[n].accepted
<1>1. /\ attempts[a].status \in TerminalAttemptStatus
      /\ attempts' = [attempts EXCEPT ![a].result = result]
      /\ nodeRuns' = [nodeRuns EXCEPT ![n].accepted = repaired]
      /\ runStatus' = runStatus
  BY DEF RepairAttemptResult
<1>2. n \in NodeRuns
  BY <1>1, StatusFacts DEF Parents
<1>3. nodeRuns[n] \in NodeRunRecord /\ attempts[a] \in AttemptRecord
  BY <1>2 DEF Shapes
<1>4. repaired \in Outcomes \union {NoOutcome}
  <2>1. a # 0
    BY IdAssumption
  <2>2. CASE nodeRuns[n].accepted.attempt = a
    <3>1. nodeRuns[n].accepted # NoOutcome
      BY <2>1, <2>2 DEF NoOutcome
    <3>2. nodeRuns[n].accepted \in Outcomes
      BY <1>3, <3>1 DEF NodeRunRecord
    <3> QED BY <2>2, <3>2 DEF Outcomes
  <2>3. CASE nodeRuns[n].accepted.attempt # a
    BY <1>3, <2>3 DEF NodeRunRecord
  <2> QED BY <2>2, <2>3
<1> HIDE DEF repaired
<1>5. nodeRuns'[n] = [nodeRuns[n] EXCEPT !.accepted = repaired]
      /\ \A m \in NodeRuns : m # n => nodeRuns'[m] = nodeRuns[m]
  BY <1>1, <1>2 DEF Shapes
<1>6. /\ nodeRuns'[n] \in NodeRunRecord
      /\ nodeRuns'[n].accepted = repaired
      /\ nodeRuns'[n].status = nodeRuns[n].status
      /\ nodeRuns'[n].run = nodeRuns[n].run
      /\ nodeRuns'[n].node = nodeRuns[n].node
      /\ nodeRuns'[n].cascaded = nodeRuns[n].cascaded
  BY <1>3, <1>4, <1>5 DEF NodeRunRecord
<1>7. nodeRuns' \in [NodeRuns -> NodeRunRecord]
  BY <1>1, <1>5, <1>6 DEF Shapes
<1>8. attempts'[a] = [attempts[a] EXCEPT !.result = result]
      /\ \A b \in Attempts : b # a => attempts'[b] = attempts[b]
  BY <1>1 DEF Shapes
<1>9. /\ attempts'[a] \in AttemptRecord
      /\ attempts'[a].status = attempts[a].status
      /\ attempts'[a].nodeRun = attempts[a].nodeRun
      /\ attempts'[a].left = attempts[a].left
      /\ attempts'[a].result = result
  BY <1>3, <1>8 DEF AttemptRecord
<1>10. attempts' \in [Attempts -> AttemptRecord]
  BY <1>1, <1>8, <1>9 DEF Shapes
<1>11. /\ nodeRuns[n].accepted.attempt = a => repaired = [nodeRuns[n].accepted EXCEPT !.evidence = result]
       /\ nodeRuns[n].accepted.attempt # a => repaired = nodeRuns[n].accepted
  BY DEF repaired
<1> QED BY <1>1, <1>2, <1>5, <1>6, <1>7, <1>8, <1>9, <1>10, <1>11 DEF Shapes, Kept, KeptAttempt

\* Time moves nothing but the leases.
LEMMA TickEffect ==
    ASSUME Shapes, Tick
    PROVE  /\ Shapes'
           /\ \A a \in Attempts : /\ attempts'[a].status = attempts[a].status
                                  /\ attempts'[a].nodeRun = attempts[a].nodeRun
                                  /\ attempts'[a].result = attempts[a].result
                                  /\ attempts'[a].lease = attempts[a].lease
                                  /\ attempts[a].left = 0 => attempts'[a].left = 0
           /\ runStatus' = runStatus /\ nodeRuns' = nodeRuns
<1>1. /\ attempts' = [a \in Attempts |->
                        IF attempts[a].left > 0
                        THEN [attempts[a] EXCEPT !.left = attempts[a].left - 1] ELSE attempts[a]]
      /\ runStatus' = runStatus /\ nodeRuns' = nodeRuns
  BY DEF Tick
<1>2. ASSUME NEW a \in Attempts
      PROVE  /\ attempts'[a] \in AttemptRecord
             /\ attempts'[a].status = attempts[a].status
             /\ attempts'[a].nodeRun = attempts[a].nodeRun
             /\ attempts'[a].result = attempts[a].result
             /\ attempts'[a].lease = attempts[a].lease
             /\ attempts[a].left = 0 => attempts'[a].left = 0
  <2>1. attempts[a] \in AttemptRecord
    BY DEF Shapes
  <2>2. attempts[a].left \in 0 .. Ttl
    BY <2>1 DEF AttemptRecord
  <2>3. CASE attempts[a].left > 0
    <3>1. attempts[a].left - 1 \in 0 .. Ttl
      BY <2>2, <2>3, LeaseAssumption
    <3>2. attempts'[a] = [attempts[a] EXCEPT !.left = attempts[a].left - 1]
      BY <1>1, <2>3
    <3>3. attempts[a].left # 0
      BY <2>2, <2>3
    <3> QED BY <2>1, <3>1, <3>2, <3>3 DEF AttemptRecord
  <2>4. CASE ~(attempts[a].left > 0)
    BY <1>1, <2>1, <2>4
  <2> QED BY <2>3, <2>4
<1>3. attempts' \in [Attempts -> AttemptRecord]
  BY <1>1, <1>2
<1> QED BY <1>1, <1>2, <1>3 DEF Shapes

------------------------------------------------------------------------------
\* Created, spelled out.
LEMMA CreatedFacts ==
    ASSUME NEW S, NEW f, DOMAIN f = S
    PROVE  \A id : id \in Created(f) <=> id \in S /\ f[id].status # "absent"
BY DEF Created

\* The newest NodeRuns of a Run, spelled out over the pool of ids.
LEMMA LatestFacts ==
    ASSUME Shapes, NEW r
    PROVE  \A n : n \in LatestNodeRuns(r) <=>
                /\ n \in NodeRuns /\ nodeRuns[n].status # "absent" /\ nodeRuns[n].run = r
                /\ \A m \in NodeRuns :
                        /\ nodeRuns[m].status # "absent" /\ nodeRuns[m].run = r
                        /\ nodeRuns[m].node = nodeRuns[n].node
                        => m <= n
<1>1. \A id : id \in Created(nodeRuns) <=> id \in NodeRuns /\ nodeRuns[id].status # "absent"
  BY CreatedFacts DEF Shapes
<1>2. \A n : n \in NodeRunsOf(r) <=>
            n \in NodeRuns /\ nodeRuns[n].status # "absent" /\ nodeRuns[n].run = r
  BY <1>1 DEF NodeRunsOf
<1> HIDE DEF NodeRunsOf
<1> QED BY <1>2 DEF LatestNodeRuns

\* The Attempts of a NodeRun, spelled out over the pool of ids.
LEMMA AttemptsOfFacts ==
    ASSUME Shapes, NEW n
    PROVE  \A a : a \in AttemptsOf(n) <=>
                a \in Attempts /\ attempts[a].status # "absent" /\ attempts[a].nodeRun = n
<1>1. \A id : id \in Created(attempts) <=> id \in Attempts /\ attempts[id].status # "absent"
  BY CreatedFacts DEF Shapes
<1> QED BY <1>1 DEF AttemptsOf

(***************************************************************************)
(* The four properties spelled out over the pools of ids.                  *)
(***************************************************************************)
Exists(n) == nodeRuns[n].status # "absent"

Closed ==
    \A n \in NodeRuns : Exists(n) /\ runStatus[nodeRuns[n].run] \in TerminalRunStatus =>
        nodeRuns[n].status \in TerminalRunStatus

Newest(n) ==
    /\ Exists(n)
    /\ \A m \in NodeRuns :
            Exists(m) /\ nodeRuns[m].run = nodeRuns[n].run /\ nodeRuns[m].node = nodeRuns[n].node
            => m <= n

Earned ==
    \A n \in NodeRuns :
        /\ Newest(n)
        /\ nodeRuns[n].run \in Runs
        /\ runStatus[nodeRuns[n].run] = "completed"
        =>
        \/ nodeRuns[n].status = "completed"
        \/ nodeRuns[n].status = "cancelled" /\ nodeRuns[n].cascaded

Evidenced(n) ==
    LET a == nodeRuns[n].accepted.attempt IN
    /\ a \in Attempts
    /\ attempts[a].status = "completed"
    /\ attempts[a].nodeRun = n
    /\ nodeRuns[n].accepted.evidence = attempts[a].result

Backed ==
    \A n \in NodeRuns : Exists(n) =>
        /\ nodeRuns[n].status = "completed" => nodeRuns[n].accepted # NoOutcome
        /\ nodeRuns[n].accepted # NoOutcome => Evidenced(n)

Active(a) == attempts[a].status \in ActiveAttemptStatus

Single ==
    \A a, b \in Attempts :
        Active(a) /\ Active(b) /\ attempts[a].nodeRun = attempts[b].nodeRun => a = b

\* They say the same as the properties of the specification.
LEMMA Spelled ==
    ASSUME Shapes, Parents
    PROVE  /\ ClosedRunIsSettled <=> Closed
           /\ SuccessIsEarned <=> Earned
           /\ AcceptanceIsEvidenced <=> Backed
           /\ OneActiveAttempt <=> Single
<1>1. \A n : n \in Created(nodeRuns) <=> n \in NodeRuns /\ Exists(n)
  BY CreatedFacts DEF Shapes, Exists
<1>2. ClosedRunIsSettled <=> Closed
  BY <1>1 DEF ClosedRunIsSettled, Closed, RunIsTerminal
<1>3. SuccessIsEarned <=> Earned
  <2>1. \A r, n : n \in LatestNodeRuns(r) <=> n \in NodeRuns /\ Newest(n) /\ nodeRuns[n].run = r
    BY LatestFacts DEF Newest, Exists
  <2> QED BY <2>1 DEF SuccessIsEarned, Earned
<1>4. AcceptanceIsEvidenced <=> Backed
  <2>1. \A n \in NodeRuns : OutcomeIsEvidenced(n, nodeRuns[n].accepted) <=> Evidenced(n)
    <3>1. "absent" # "completed"
      OBVIOUS
    <3> QED BY <3>1, AttemptsOfFacts DEF OutcomeIsEvidenced, Evidenced
  <2> QED BY <1>1, <2>1 DEF AcceptanceIsEvidenced, Backed
<1>5. OneActiveAttempt <=> Single
  <2>1. \A a : attempts[a].status \in ActiveAttemptStatus => attempts[a].status # "absent"
    BY DEF ActiveAttemptStatus
  <2>2. \A n \in NodeRuns, a \in Attempts :
            Active(a) /\ attempts[a].nodeRun = n <=> Active(a) /\ a \in AttemptsOf(n)
    BY <2>1, AttemptsOfFacts DEF Active
  <2>3. \A n, a : a \in AttemptsOf(n) => a \in Attempts
    BY AttemptsOfFacts
  <2>4. \A a \in Attempts : Active(a) => attempts[a].nodeRun \in NodeRuns
    BY <2>1 DEF Active, Parents
  <2>5. OneActiveAttempt <=> \A n \in NodeRuns : \A a, b \in AttemptsOf(n) :
                                Active(a) /\ Active(b) => a = b
    BY DEF OneActiveAttempt, Active
  <2> QED BY <2>2, <2>3, <2>4, <2>5 DEF Single
<1> QED BY <1>2, <1>3, <1>4, <1>5


(***************************************************************************)
(* The inductive invariant.  Closed is what makes Earned stable: once the  *)
(* Run has ended no NodeRun of it can move and none can be added, so the   *)
(* newest NodeRuns stay the ones the completion was judged by.  Parents is *)
(* what lets the store's lookups of a parent be read as lookups of a       *)
(* record that exists.                                                     *)
(***************************************************************************)
IInv ==
    /\ Shapes
    /\ Parents
    /\ Closed
    /\ Earned
    /\ Backed
    /\ Single

\* An empty store satisfies the invariant: there is nothing to contradict.
LEMMA InitInvariant == Init => IInv
<1> SUFFICES ASSUME Init PROVE IInv
  OBVIOUS
<1>1. Shapes /\ Parents
  BY InitType, TypeSplit
<1>2. \A n \in NodeRuns : ~Exists(n)
  BY DEF Init, AbsentNodeRun, Exists
<1>3. \A a \in Attempts : ~Active(a)
  BY DEF Init, AbsentAttempt, ActiveAttemptStatus, Active
<1> QED BY <1>1, <1>2, <1>3 DEF IInv, Closed, Earned, Newest, Backed, Single

\* create_run touches a Run that has no NodeRun yet.
LEMMA CreateRunKeeps ==
    ASSUME IInv, NEW r \in Runs, NEW initial \in {"created", "queued"}, CreateRun(r, initial)
    PROVE  IInv'
<1>1. /\ runStatus[r] = "absent" /\ runStatus' = [runStatus EXCEPT ![r] = initial]
      /\ nodeRuns' = nodeRuns /\ attempts' = attempts
  BY DEF CreateRun
<1>2. initial \in RunStatus /\ initial \notin TerminalRunStatus /\ initial # "completed"
  BY DEF RunStatus, TerminalRunStatus
<1>3. Shapes'
  BY <1>1, <1>2 DEF IInv, Shapes
<1>4. runStatus'[r] = initial /\ \A q \in Runs : q # r => runStatus'[q] = runStatus[q]
  BY <1>1 DEF IInv, Shapes
<1>5. Parents'
  BY <1>1 DEF IInv, Parents
<1>6. Closed'
  BY <1>1, <1>2, <1>4 DEF IInv, Closed, Parents, Exists
<1>7. Earned'
  BY <1>1, <1>2, <1>4 DEF IInv, Earned, Newest, Exists
<1>8. Backed' /\ Single'
  BY <1>1 DEF IInv, Backed, Single, Exists, Evidenced, Active
<1> QED BY <1>3, <1>5, <1>6, <1>7, <1>8 DEF IInv

\* transition_run: a terminal move settles the open NodeRuns in the same write
\* and a completion has looked at the newest of them.
LEMMA TransitionRunKeeps ==
    ASSUME IInv, NEW r \in Runs, NEW target \in RunStatus, TransitionRun(r, target)
    PROVE  IInv'
<1> DEFINE settled == target \in TerminalRunStatus
<1>1. /\ Shapes'
      /\ runStatus[r] \in RunStatus /\ runStatus[r] \notin TerminalRunStatus
      /\ runStatus'[r] = target
      /\ \A q \in Runs : q # r => runStatus'[q] = runStatus[q]
      /\ ~settled => nodeRuns' = nodeRuns
      /\ settled => nodeRuns' = SettledUnder(r)
      /\ attempts' = attempts
  BY TransitionRunEffect DEF IInv
<1>2. ASSUME NEW n \in NodeRuns
      PROVE  /\ nodeRuns'[n].run = nodeRuns[n].run
             /\ nodeRuns'[n].node = nodeRuns[n].node
             /\ nodeRuns'[n].status = "absent" <=> nodeRuns[n].status = "absent"
             /\ settled /\ nodeRuns[n].run = r /\ nodeRuns[n].status \in OpenRunStatus =>
                    /\ nodeRuns'[n].status = "cancelled"
                    /\ nodeRuns'[n].cascaded
                    /\ nodeRuns'[n].accepted \in {nodeRuns[n].accepted, NoOutcome}
             /\ ~(settled /\ nodeRuns[n].run = r /\ nodeRuns[n].status \in OpenRunStatus) =>
                    nodeRuns'[n] = nodeRuns[n]
  BY <1>1, CascadeRecord DEF IInv, Shapes
<1>3. \A n \in NodeRuns : Exists(n) => nodeRuns[n].status \in TerminalRunStatus \/ nodeRuns[n].status \in OpenRunStatus
  BY DEF IInv, Shapes, NodeRunRecord, Exists, OpenRunStatus
<1>4. \A n \in NodeRuns : Exists(n)' <=> Exists(n)
  BY <1>2 DEF Exists
<1>5. "cancelled" \in TerminalRunStatus /\ "cancelled" # "completed"
  BY DEF TerminalRunStatus
<1>6. Parents'
  BY <1>1, <1>2 DEF IInv, Parents
<1>7. Closed'
  <2> SUFFICES ASSUME NEW n \in NodeRuns, Exists(n), runStatus'[nodeRuns[n].run] \in TerminalRunStatus
               PROVE  nodeRuns'[n].status \in TerminalRunStatus
    BY <1>2, <1>4 DEF Closed, Exists
  <2>1. nodeRuns[n].run \in Runs
    BY DEF IInv, Parents, Exists
  <2>2. CASE nodeRuns[n].run = r
    BY <1>1, <1>2, <1>3, <1>5, <2>2
  <2>3. CASE nodeRuns[n].run # r
    BY <1>1, <1>2, <2>1, <2>3 DEF IInv, Closed, Exists
  <2> QED BY <2>2, <2>3
<1>8. Earned'
  <2> SUFFICES ASSUME NEW n \in NodeRuns, Newest(n)', nodeRuns[n].run \in Runs,
                      runStatus'[nodeRuns[n].run] = "completed"
               PROVE  \/ nodeRuns'[n].status = "completed"
                      \/ nodeRuns'[n].status = "cancelled" /\ nodeRuns'[n].cascaded
    BY <1>2 DEF Earned
  <2>1. Newest(n)
    BY <1>2, <1>4 DEF Newest
  <2>2. CASE nodeRuns[n].run = r
    <3>1. target = "completed" /\ settled /\ CompletionIsEarned(r)
      BY <1>1, <2>2 DEF TransitionRun, MayTransitionRun, TerminalRunStatus
    <3>2. n \in LatestNodeRuns(r)
      BY <2>1, <2>2, LatestFacts DEF Newest, Exists, IInv
    <3>3. nodeRuns[n].status \notin TerminalRunStatus \ {"completed"}
      BY <3>1, <3>2 DEF CompletionIsEarned
    <3> QED BY <1>2, <1>3, <2>1, <2>2, <3>1, <3>3 DEF Newest
  <2>3. CASE nodeRuns[n].run # r
    BY <1>1, <1>2, <2>1, <2>3 DEF IInv, Earned
  <2> QED BY <2>2, <2>3
<1>9. Backed'
  <2> SUFFICES ASSUME NEW n \in NodeRuns, Exists(n)
               PROVE  /\ nodeRuns'[n].status = "completed" => nodeRuns'[n].accepted # NoOutcome
                      /\ nodeRuns'[n].accepted # NoOutcome => Evidenced(n)'
    BY <1>4 DEF Backed
  <2>1. /\ nodeRuns[n].status = "completed" => nodeRuns[n].accepted # NoOutcome
        /\ nodeRuns[n].accepted # NoOutcome => Evidenced(n)
    BY DEF IInv, Backed
  <2>2. CASE nodeRuns'[n] = nodeRuns[n]
    BY <1>1, <2>1, <2>2 DEF Evidenced
  <2>3. CASE nodeRuns'[n] # nodeRuns[n]
    <3>1. nodeRuns'[n].status = "cancelled" /\ nodeRuns'[n].accepted \in {nodeRuns[n].accepted, NoOutcome}
      BY <1>2, <2>3
    <3> QED BY <1>1, <2>1, <3>1 DEF Evidenced
  <2> QED BY <2>2, <2>3
<1>10. Single'
  BY <1>1 DEF IInv, Single, Active
<1> QED BY <1>1, <1>6, <1>7, <1>8, <1>9, <1>10 DEF IInv

\* A step that leaves the Runs alone, and of every NodeRun its status, run,
\* node and cascade mark, keeps what is said of NodeRuns under ended Runs.
LEMMA NodeRunsKept ==
    ASSUME IInv, Shapes', runStatus' = runStatus,
           \A n \in NodeRuns : /\ nodeRuns'[n].status = nodeRuns[n].status
                               /\ nodeRuns'[n].run = nodeRuns[n].run
                               /\ nodeRuns'[n].node = nodeRuns[n].node
                               /\ nodeRuns'[n].cascaded = nodeRuns[n].cascaded
    PROVE  Closed' /\ Earned'
<1>1. Closed'
  BY DEF IInv, Closed, Exists
<1>2. \A n \in NodeRuns : Newest(n)' => Newest(n)
  BY DEF Newest, Exists
<1>3. Earned'
  BY <1>2 DEF IInv, Earned
<1> QED BY <1>1, <1>3

\* transition_node_run moves one NodeRun of a Run that has not ended, and
\* installs nothing but evidenced outcomes.
LEMMA TransitionNodeRunKeeps ==
    ASSUME IInv, NEW n \in NodeRuns, NEW target \in RunStatus,
           NEW outcome \in Outcomes \union {NoOutcome},
           TransitionNodeRun(n, target, outcome)
    PROVE  IInv'
<1>1. /\ Shapes'
      /\ nodeRuns'[n] = MovedNodeRun(nodeRuns[n], target, outcome)
      /\ nodeRuns[n].status \in OpenRunStatus
      /\ nodeRuns[n].run \in Runs /\ runStatus[nodeRuns[n].run] \notin TerminalRunStatus
      /\ nodeRuns'[n].status = target
      /\ nodeRuns'[n].run = nodeRuns[n].run /\ nodeRuns'[n].node = nodeRuns[n].node
      /\ \A m \in NodeRuns : m # n => nodeRuns'[m] = nodeRuns[m]
      /\ runStatus' = runStatus /\ attempts' = attempts
  BY TransitionNodeRunEffect DEF IInv, Kept
<1>2. Exists(n) /\ \A m \in NodeRuns : Exists(m)' <=> Exists(m)
  BY <1>1, StatusFacts DEF Exists
<1>3. Parents'
  BY <1>1, <1>2 DEF IInv, Parents, Exists
<1>4. Closed'
  BY <1>1, <1>2 DEF IInv, Closed
<1>5. Earned'
  <2>1. \A m \in NodeRuns : Newest(m)' => Newest(m)
    BY <1>1, <1>2 DEF Newest
  <2>2. "completed" \in TerminalRunStatus
    BY DEF TerminalRunStatus
  <2> QED BY <1>1, <2>1, <2>2 DEF IInv, Earned
<1>6. Backed'
  <2>1. /\ outcome # NoOutcome => OutcomeIsEvidenced(n, outcome)
        /\ target = "completed" => outcome # NoOutcome
    BY DEF TransitionNodeRun, MayTransitionNodeRun
  <2>2. /\ nodeRuns'[n].accepted \in {outcome, nodeRuns[n].accepted, NoOutcome}
        /\ outcome # NoOutcome => nodeRuns'[n].accepted = outcome
    <3>1. nodeRuns[n] \in NodeRunRecord
      BY DEF IInv, Shapes
    <3> QED BY <1>1, <3>1, MovedRecord
  <2>3. outcome # NoOutcome => Evidenced(n)'
    BY <1>1, <2>1, <2>2, AttemptsOfFacts DEF OutcomeIsEvidenced, Evidenced, IInv
  <2>4. nodeRuns'[n].accepted = nodeRuns[n].accepted /\ nodeRuns[n].accepted # NoOutcome => Evidenced(n)'
    BY <1>1, <1>2 DEF IInv, Backed, Evidenced
  <2>5. \A m \in NodeRuns : m # n /\ Evidenced(m) => Evidenced(m)'
    BY <1>1 DEF Evidenced
  <2> QED BY <1>1, <1>2, <2>1, <2>2, <2>3, <2>4, <2>5 DEF IInv, Backed
<1>7. Single'
  BY <1>1 DEF IInv, Single, Active
<1> QED BY <1>1, <1>3, <1>4, <1>5, <1>6, <1>7 DEF IInv

\* create_node_run adds a NodeRun to a Run that has not ended.
LEMMA CreateNodeRunKeeps ==
    ASSUME IInv, NEW n \in NodeRuns, NEW r \in Runs, NEW node \in Nodes, CreateNodeRun(n, r, node)
    PROVE  IInv'
<1>1. /\ Shapes'
      /\ nodeRuns[n].status = "absent"
      /\ nodeRuns'[n].status = "created" /\ nodeRuns'[n].run = r /\ nodeRuns'[n].node = node
      /\ nodeRuns'[n].accepted = NoOutcome
      /\ node \in GraphOf[r] /\ runStatus[r] \in OpenRunStatus
      /\ \A m \in NodeRuns : m # n => nodeRuns'[m] = nodeRuns[m]
      /\ runStatus' = runStatus /\ attempts' = attempts
  BY CreateNodeRunEffect DEF IInv, Kept
<1>2. runStatus[r] \notin TerminalRunStatus /\ runStatus[r] # "completed"
  BY <1>1 DEF OpenRunStatus, TerminalRunStatus
<1>3. ~Exists(n) /\ \A m \in NodeRuns : m # n => (Exists(m)' <=> Exists(m))
  BY <1>1 DEF Exists
<1>4. Parents'
  BY <1>1, <1>3 DEF IInv, Parents
<1>5. Closed'
  BY <1>1, <1>2, <1>3 DEF IInv, Closed
<1>6. Earned'
  <2>1. \A m \in NodeRuns : m # n /\ Newest(m)' => Newest(m)
    BY <1>1, <1>3 DEF Newest
  <2> QED BY <1>1, <1>2, <2>1 DEF IInv, Earned
<1>7. Backed'
  <2>1. \A m \in NodeRuns : m # n /\ Evidenced(m) => Evidenced(m)'
    BY <1>1 DEF Evidenced
  <2> QED BY <1>1, <1>3, <2>1 DEF IInv, Backed
<1>8. Single'
  BY <1>1 DEF IInv, Single, Active
<1> QED BY <1>1, <1>4, <1>5, <1>6, <1>7, <1>8 DEF IInv

\* create_attempt adds the only active Attempt of its NodeRun.
LEMMA CreateAttemptKeeps ==
    ASSUME IInv, NEW a \in Attempts, NEW n \in NodeRuns, NEW lease \in {"none", "open", "ttl"},
           CreateAttempt(a, n, lease)
    PROVE  IInv'
<1>1. /\ Shapes'
      /\ attempts[a].status = "absent"
      /\ attempts'[a].status = "created" /\ attempts'[a].nodeRun = n
      /\ nodeRuns[n].status \in OpenRunStatus /\ ~HasActiveAttempt(n)
      /\ \A b \in Attempts : b # a => attempts'[b] = attempts[b]
      /\ runStatus' = runStatus /\ nodeRuns' = nodeRuns
  BY CreateAttemptEffect DEF IInv, KeptAttempt
<1>2. Parents'
  BY <1>1, StatusFacts DEF IInv, Parents
<1>3. Closed' /\ Earned'
  BY <1>1, NodeRunsKept
<1>4. Backed'
  <2>1. \A m \in NodeRuns : Evidenced(m) => Evidenced(m)'
    BY <1>1 DEF Evidenced
  <2> QED BY <1>1, <2>1 DEF IInv, Backed, Exists
<1>5. Single'
  <2>1. \A b \in Attempts : attempts[b].nodeRun = n => ~Active(b)
    BY <1>1, AttemptsOfFacts, StatusFacts DEF HasActiveAttempt, Active, IInv
  <2>2. \A b \in Attempts : b # a => (Active(b)' <=> Active(b)) /\ attempts'[b].nodeRun = attempts[b].nodeRun
    BY <1>1 DEF Active
  <2> QED BY <1>1, <2>1, <2>2 DEF IInv, Single
<1> QED BY <1>1, <1>2, <1>3, <1>4, <1>5 DEF IInv

\* Steps that move some active Attempts and nothing else: what a NodeRun has
\* accepted names a completed Attempt, which is none of them.
LEMMA AttemptsMovedKeeps ==
    ASSUME IInv, Shapes', runStatus' = runStatus, nodeRuns' = nodeRuns,
           \A a \in Attempts : /\ attempts'[a].nodeRun = attempts[a].nodeRun
                               /\ attempts'[a].status = "absent" <=> attempts[a].status = "absent"
                               /\ Active(a)' => Active(a)
                               /\ ~Active(a) => /\ attempts'[a].status = attempts[a].status
                                                /\ attempts'[a].result = attempts[a].result
    PROVE  IInv'
<1>1. Parents'
  BY DEF IInv, Parents
<1>2. Closed' /\ Earned'
  BY NodeRunsKept
<1>3. Backed'
  <2>1. \A m \in NodeRuns : Evidenced(m) => Evidenced(m)'
    BY DEF Evidenced, Active, ActiveAttemptStatus
  <2> QED BY <2>1 DEF IInv, Backed, Exists
<1>4. Single'
  BY DEF IInv, Single
<1> QED BY <1>1, <1>2, <1>3, <1>4 DEF IInv

\* transition_attempt
LEMMA TransitionAttemptKeeps ==
    ASSUME IInv, NEW a \in Attempts, NEW target \in AttemptStatus,
           NEW token \in Attempts, NEW result \in Result,
           TransitionAttempt(a, target, token, result)
    PROVE  IInv'
<1>1. /\ Shapes'
      /\ attempts[a].status \in ActiveAttemptStatus
      /\ attempts'[a].status = target
      /\ attempts'[a].nodeRun = attempts[a].nodeRun
      /\ \A b \in Attempts : b # a => attempts'[b] = attempts[b]
      /\ runStatus' = runStatus /\ nodeRuns' = nodeRuns
  BY TransitionAttemptEffect DEF IInv, KeptAttempt
<1>2. \A b \in Attempts : b # a => (Active(b)' <=> Active(b))
  BY <1>1 DEF Active
<1> QED BY <1>1, <1>2, StatusFacts, AttemptsMovedKeeps DEF Active

\* renew_lease
LEMMA RenewLeaseKeeps ==
    ASSUME IInv, NEW a \in Attempts, NEW token \in Attempts, RenewLease(a, token)
    PROVE  IInv'
<1>1. /\ Shapes'
      /\ \A b \in Attempts : /\ attempts'[b].status = attempts[b].status
                             /\ attempts'[b].nodeRun = attempts[b].nodeRun
                             /\ attempts'[b].result = attempts[b].result
      /\ runStatus' = runStatus /\ nodeRuns' = nodeRuns
  BY RenewLeaseEffect DEF IInv
<1> QED BY <1>1, AttemptsMovedKeeps DEF Active

\* reclaim_expired_attempts
LEMMA ReclaimKeeps ==
    ASSUME IInv, NEW batch \in SUBSET Attempts, ReclaimExpiredAttempts(batch)
    PROVE  IInv'
<1>1. /\ Shapes'
      /\ \A a \in batch : /\ attempts[a].status \in ActiveAttemptStatus
                          /\ attempts'[a].status = "cancelled"
                          /\ attempts'[a].nodeRun = attempts[a].nodeRun
      /\ \A a \in Attempts : a \notin batch => attempts'[a] = attempts[a]
      /\ runStatus' = runStatus /\ nodeRuns' = nodeRuns
  BY ReclaimEffect DEF IInv, KeptAttempt
<1>2. "cancelled" \notin ActiveAttemptStatus /\ "cancelled" # "absent"
  BY DEF ActiveAttemptStatus
<1> QED BY <1>1, <1>2, StatusFacts, AttemptsMovedKeeps DEF Active

\* claim_consumer_run adds a NodeRun and its only Attempt to a queued Run.
LEMMA ClaimKeeps ==
    ASSUME IInv, NEW r \in Runs, NEW node \in Nodes, NEW n \in NodeRuns, NEW a \in Attempts,
           ClaimConsumerRun(r, node, n, a)
    PROVE  IInv'
<1>1. /\ Shapes'
      /\ runStatus[r] = "queued" /\ runStatus'[r] = "running"
      /\ \A q \in Runs : q # r => runStatus'[q] = runStatus[q]
      /\ nodeRuns[n].status = "absent" /\ attempts[a].status = "absent"
      /\ nodeRuns'[n].status = "running" /\ nodeRuns'[n].run = r /\ nodeRuns'[n].node = node
      /\ nodeRuns'[n].accepted = NoOutcome /\ node \in GraphOf[r]
      /\ attempts'[a].status = "running" /\ attempts'[a].nodeRun = n
      /\ \A m \in NodeRuns : m # n => nodeRuns'[m] = nodeRuns[m]
      /\ \A b \in Attempts : b # a => attempts'[b] = attempts[b]
  BY ClaimEffect DEF IInv, Kept, KeptAttempt
<1>2. "running" \notin TerminalRunStatus /\ "running" # "absent"
  BY DEF TerminalRunStatus
<1>3. ~Exists(n) /\ Exists(n)' /\ \A m \in NodeRuns : m # n => (Exists(m)' <=> Exists(m))
  BY <1>1, <1>2 DEF Exists
<1>4. \A b \in Attempts : attempts[b].status # "absent" => attempts[b].nodeRun \in NodeRuns \ {n}
  BY <1>3 DEF IInv, Parents, Exists
<1>5. Parents'
  BY <1>1, <1>3, <1>4 DEF IInv, Parents, Exists
<1>6. \A m \in NodeRuns : m # n /\ Exists(m) => nodeRuns[m].run \in Runs
  BY DEF IInv, Parents, Exists
<1>7. Closed'
  BY <1>1, <1>2, <1>3, <1>6 DEF IInv, Closed
<1>8. Earned'
  <2>1. \A m \in NodeRuns : m # n /\ Newest(m)' => Newest(m)
    BY <1>1, <1>3 DEF Newest
  <2>2. "running" # "completed"
    OBVIOUS
  <2> QED BY <1>1, <2>1, <2>2 DEF IInv, Earned
<1>9. Backed'
  <2>1. \A m \in NodeRuns : m # n /\ Evidenced(m) => Evidenced(m)'
    BY <1>1 DEF Evidenced
  <2> QED BY <1>1, <1>3, <2>1 DEF IInv, Backed
<1>10. Single'
  <2>1. \A b \in Attempts : b # a => (Active(b)' <=> Active(b)) /\ attempts'[b].nodeRun = attempts[b].nodeRun
    BY <1>1 DEF Active
  <2>2. \A b \in Attempts : Active(b) => attempts[b].nodeRun # n
    BY <1>4, StatusFacts DEF Active
  <2> QED BY <1>1, <2>1, <2>2 DEF IInv, Single
<1> QED BY <1>1, <1>5, <1>7, <1>8, <1>9, <1>10 DEF IInv

\* repair_attempt_result rewrites both copies of a result in one write; no
\* other NodeRun can have accepted the Attempt.
LEMMA RepairKeeps ==
    ASSUME IInv, NEW a \in Attempts, NEW result \in Result, RepairAttemptResult(a, result)
    PROVE  IInv'
<1> DEFINE n == attempts[a].nodeRun
<1>1. /\ Shapes'
      /\ n \in NodeRuns
      /\ attempts[a].status \in TerminalAttemptStatus
      /\ attempts'[a].status = attempts[a].status
      /\ attempts'[a].nodeRun = attempts[a].nodeRun
      /\ attempts'[a].result = result
      /\ \A b \in Attempts : b # a => attempts'[b] = attempts[b]
      /\ nodeRuns'[n].status = nodeRuns[n].status
      /\ nodeRuns'[n].run = nodeRuns[n].run
      /\ nodeRuns'[n].node = nodeRuns[n].node
      /\ nodeRuns'[n].cascaded = nodeRuns[n].cascaded
      /\ nodeRuns[n].accepted.attempt = a => nodeRuns'[n].accepted =
               [nodeRuns[n].accepted EXCEPT !.evidence = result]
      /\ nodeRuns[n].accepted.attempt # a => nodeRuns'[n].accepted = nodeRuns[n].accepted
      /\ \A m \in NodeRuns : m # n => nodeRuns'[m] = nodeRuns[m]
      /\ runStatus' = runStatus
  BY RepairEffect DEF IInv, Kept, KeptAttempt
<1>2. \A m \in NodeRuns : /\ nodeRuns'[m].status = nodeRuns[m].status
                          /\ nodeRuns'[m].run = nodeRuns[m].run
                          /\ nodeRuns'[m].node = nodeRuns[m].node
                          /\ nodeRuns'[m].cascaded = nodeRuns[m].cascaded
  BY <1>1
<1>3. \A b \in Attempts : attempts'[b].status = attempts[b].status /\ attempts'[b].nodeRun = attempts[b].nodeRun
  BY <1>1
<1>4. Parents'
  BY <1>1, <1>2, <1>3 DEF IInv, Parents
<1>5. Closed' /\ Earned'
  BY <1>1, <1>2, NodeRunsKept
<1>6. Backed'
  <2> SUFFICES ASSUME NEW m \in NodeRuns, Exists(m)
               PROVE  /\ nodeRuns'[m].status = "completed" => nodeRuns'[m].accepted # NoOutcome
                      /\ nodeRuns'[m].accepted # NoOutcome => Evidenced(m)'
    BY <1>2 DEF Backed, Exists
  <2>1. /\ nodeRuns[m].status = "completed" => nodeRuns[m].accepted # NoOutcome
        /\ nodeRuns[m].accepted # NoOutcome => Evidenced(m)
    BY DEF IInv, Backed
  <2>2. a # NoOutcome.attempt
    BY IdAssumption DEF NoOutcome
  <2>3. CASE m = n /\ nodeRuns[n].accepted.attempt = a
    <3>1. nodeRuns[n].accepted # NoOutcome
      BY <2>2, <2>3
    <3>2. nodeRuns[n].accepted \in Outcomes
      BY <1>1, <3>1 DEF IInv, Shapes, NodeRunRecord
    <3>3. nodeRuns'[n].accepted.attempt = a /\ nodeRuns'[n].accepted.evidence = result
      BY <1>1, <2>3, <3>2 DEF Outcomes
    <3> QED BY <1>1, <2>1, <2>2, <2>3, <3>1, <3>3 DEF Evidenced
  <2>4. CASE nodeRuns[m].accepted.attempt # a
    <3>1. nodeRuns'[m].accepted = nodeRuns[m].accepted
      BY <1>1, <2>4
    <3> QED BY <1>1, <1>2, <2>1, <2>4, <3>1 DEF Evidenced
  <2>5. CASE m # n /\ nodeRuns[m].accepted.attempt = a
    BY <2>1, <2>2, <2>5 DEF Evidenced
  <2> QED BY <2>3, <2>4, <2>5
<1>7. Single'
  BY <1>3 DEF IInv, Single, Active
<1> QED BY <1>1, <1>4, <1>5, <1>6, <1>7 DEF IInv

\* Time only shortens leases.
LEMMA TickKeeps == ASSUME IInv, Tick PROVE IInv'
BY TickEffect, AttemptsMovedKeeps DEF IInv, Active

------------------------------------------------------------------------------
\* An outcome built from a persisted Attempt is well formed.
LEMMA OutcomeType ==
    ASSUME Shapes, NEW a \in Attempts, NEW logical \in AcceptedStatus
    PROVE  OutcomeOf(a, logical) \in Outcomes
<1>1. attempts[a].result \in Result
  BY DEF Shapes, AttemptRecord
<1> QED BY <1>1 DEF OutcomeOf, Outcomes

\* Every operation of the store keeps the invariant.
LEMMA NextKeeps == IInv /\ [Next]_vars => IInv'
<1> SUFFICES ASSUME IInv, [Next]_vars PROVE IInv'
  OBVIOUS
<1>1. ASSUME NEW r \in Runs, NEW initial \in {"created", "queued"}, CreateRun(r, initial)
      PROVE  IInv'
  BY <1>1, CreateRunKeeps
<1>2. ASSUME NEW r \in Runs, NEW target \in RunStatus, TransitionRun(r, target)
      PROVE  IInv'
  BY <1>2, TransitionRunKeeps
<1>3. ASSUME NEW n \in NodeRuns, NEW r \in Runs, NEW node \in Nodes, CreateNodeRun(n, r, node)
      PROVE  IInv'
  BY <1>3, CreateNodeRunKeeps
<1>4. ASSUME NEW n \in NodeRuns, NEW target \in RunStatus, TransitionNodeRun(n, target, NoOutcome)
      PROVE  IInv'
  BY <1>4, TransitionNodeRunKeeps
<1>5. ASSUME NEW n \in NodeRuns, NEW a \in Attempts, NEW logical \in AcceptedStatus,
             TransitionNodeRun(n, logical, OutcomeOf(a, logical))
      PROVE  IInv'
  <2>1. OutcomeOf(a, logical) \in Outcomes \union {NoOutcome} /\ logical \in RunStatus
    BY OutcomeType, StatusFacts DEF IInv
  <2> QED BY <1>5, <2>1, TransitionNodeRunKeeps
<1>6. ASSUME NEW a \in Attempts, NEW n \in NodeRuns, NEW lease \in {"none", "open", "ttl"},
             CreateAttempt(a, n, lease)
      PROVE  IInv'
  BY <1>6, CreateAttemptKeeps
<1>7. ASSUME NEW a \in Attempts, NEW target \in AttemptStatus, NEW token \in Attempts,
             NEW result \in Result, TransitionAttempt(a, target, token, result)
      PROVE  IInv'
  BY <1>7, TransitionAttemptKeeps
<1>8. ASSUME NEW a \in Attempts, NEW token \in Attempts, RenewLease(a, token)
      PROVE  IInv'
  BY <1>8, RenewLeaseKeeps
<1>9. ASSUME NEW batch \in SUBSET Attempts, ReclaimExpiredAttempts(batch)
      PROVE  IInv'
  BY <1>9, ReclaimKeeps
<1>10. ASSUME NEW r \in Runs, NEW node \in Nodes, NEW n \in NodeRuns, NEW a \in Attempts,
              ClaimConsumerRun(r, node, n, a)
       PROVE  IInv'
  BY <1>10, ClaimKeeps
<1>11. ASSUME NEW a \in Attempts, NEW result \in Result, RepairAttemptResult(a, result)
       PROVE  IInv'
  BY <1>11, RepairKeeps
<1>12. CASE Tick
  BY <1>12, TickKeeps
<1>13. CASE UNCHANGED vars
  BY <1>13 DEF vars, IInv, Shapes, Parents, Closed, Earned, Newest, Backed, Single,
               Exists, Evidenced, Active
<1> QED BY <1>1, <1>2, <1>3, <1>4, <1>5, <1>6, <1>7, <1>8, <1>9, <1>10, <1>11, <1>12, <1>13 DEF Next

\* The invariant holds in every reachable state.
THEOREM Invariance == Spec => []IInv
BY InitInvariant, NextKeeps, PTL DEF Spec

\* What the invariant says in the words of the specification.
LEMMA InvariantMeaning ==
    IInv => /\ TypeOK /\ ClosedRunIsSettled /\ SuccessIsEarned
            /\ AcceptanceIsEvidenced /\ OneActiveAttempt
BY TypeSplit, Spelled DEF IInv

\* Records keep their shape and their parents, whoever calls the store.
THEOREM TypeCorrect == Spec => []TypeOK
BY Invariance, InvariantMeaning, PTL

\* transition_run, create_node_run and transition_node_run together never leave
\* an open NodeRun under a Run that has ended.
THEOREM RunsEndSettled == Spec => []ClosedRunIsSettled
BY Invariance, InvariantMeaning, PTL

\* A completed Run was earned by the newest NodeRun of each node.
THEOREM SuccessesAreEarned == Spec => []SuccessIsEarned
BY Invariance, InvariantMeaning, PTL

\* What a NodeRun accepted and what its Attempt recorded never drift apart.
THEOREM AcceptancesAreEvidenced == Spec => []AcceptanceIsEvidenced
BY Invariance, InvariantMeaning, PTL

\* A NodeRun never has two Attempts in flight.
THEOREM AttemptsAreSerial == Spec => []OneActiveAttempt
BY Invariance, InvariantMeaning, PTL

------------------------------------------------------------------------------
\* One step of the store never starts or completes an Attempt under a Run that
\* has ended.
LEMMA NextStartsNoWork == IInv /\ [Next]_vars => [StartsNoWorkUnderClosedRun]_vars
<1> SUFFICES ASSUME IInv, Next PROVE StartsNoWorkUnderClosedRun
  OBVIOUS
<1> USE DEF StartsNoWorkUnderClosedRun
<1>1. ASSUME attempts' = attempts PROVE StartsNoWorkUnderClosedRun
  BY <1>1
<1>2. ASSUME NEW a \in Attempts, NEW n \in NodeRuns, NEW lease \in {"none", "open", "ttl"},
             CreateAttempt(a, n, lease)
      PROVE  StartsNoWorkUnderClosedRun
  <2>1. /\ attempts'[a].nodeRun = n
        /\ nodeRuns[n].status \in OpenRunStatus
        /\ \A b \in Attempts : b # a => attempts'[b] = attempts[b]
    BY <1>2, CreateAttemptEffect DEF IInv, KeptAttempt
  <2>2. ~RunIsTerminal(nodeRuns[n].run)
    BY <2>1, StatusFacts DEF IInv, Closed, Exists, RunIsTerminal
  <2> QED BY <2>1, <2>2
<1>3. ASSUME NEW a \in Attempts, NEW target \in AttemptStatus, NEW token \in Attempts,
             NEW result \in Result, TransitionAttempt(a, target, token, result)
      PROVE  StartsNoWorkUnderClosedRun
  BY <1>3, TransitionAttemptEffect DEF IInv, KeptAttempt
<1>4. ASSUME NEW a \in Attempts, NEW token \in Attempts, RenewLease(a, token)
      PROVE  StartsNoWorkUnderClosedRun
  BY <1>4, RenewLeaseEffect DEF IInv
<1>5. ASSUME NEW batch \in SUBSET Attempts, ReclaimExpiredAttempts(batch)
      PROVE  StartsNoWorkUnderClosedRun
  BY <1>5, ReclaimEffect DEF IInv, KeptAttempt
<1>6. ASSUME NEW r \in Runs, NEW node \in Nodes, NEW n \in NodeRuns, NEW a \in Attempts,
             ClaimConsumerRun(r, node, n, a)
      PROVE  StartsNoWorkUnderClosedRun
  <2>1. attempts'[a].status = "running" /\ \A b \in Attempts : b # a => attempts'[b] = attempts[b]
    BY <1>6, ClaimEffect DEF IInv, KeptAttempt
  <2> QED BY <2>1
<1>7. ASSUME NEW a \in Attempts, NEW result \in Result, RepairAttemptResult(a, result)
      PROVE  StartsNoWorkUnderClosedRun
  <2>1. \A b \in Attempts : attempts'[b].status = attempts[b].status
    BY <1>7, RepairEffect DEF IInv, KeptAttempt
  <2> QED BY <2>1
<1>8. CASE Tick
  BY <1>8, TickEffect DEF IInv
<1> QED BY <1>1, <1>2, <1>3, <1>4, <1>5, <1>6, <1>7, <1>8
        DEF Next, CreateRun, TransitionRun, CreateNodeRun, TransitionNodeRun

\* A Run that has ended gets no new work and no late success.
THEOREM ClosedRunsGetNoWork == Spec => NoWorkUnderClosedRun
BY Invariance, NextStartsNoWork, PTL DEF Spec, NoWorkUnderClosedRun

\* One step of the store never moves what has ended.
LEMMA NextKeepsEnds == IInv /\ [Next]_vars => [KeepsEnds]_vars
<1> SUFFICES ASSUME IInv, Next PROVE KeepsEnds
  OBVIOUS
<1> DEFINE RunEnds == \A r \in Runs : RunIsTerminal(r) => runStatus'[r] = runStatus[r]
           NodeEnds == \A n \in NodeRuns : nodeRuns[n].status \in TerminalRunStatus =>
                            nodeRuns'[n].status = nodeRuns[n].status
           AttemptEnds == \A a \in Attempts : attempts[a].status \in TerminalAttemptStatus =>
                            attempts'[a].status = attempts[a].status
<1>1. runStatus' = runStatus => RunEnds
  OBVIOUS
<1>2. nodeRuns' = nodeRuns => NodeEnds
  OBVIOUS
<1>3. attempts' = attempts => AttemptEnds
  OBVIOUS
<1>4. ASSUME NEW r \in Runs, NEW initial \in {"created", "queued"}, CreateRun(r, initial)
      PROVE  RunEnds /\ NodeEnds /\ AttemptEnds
  <2>1. runStatus[r] \notin TerminalRunStatus
    BY <1>4 DEF CreateRun, TerminalRunStatus
  <2> QED BY <1>2, <1>3, <1>4, <2>1 DEF CreateRun, RunIsTerminal, IInv, Shapes
<1>5. ASSUME NEW r \in Runs, NEW target \in RunStatus, TransitionRun(r, target)
      PROVE  RunEnds /\ NodeEnds /\ AttemptEnds
  <2>1. /\ runStatus[r] \notin TerminalRunStatus
        /\ \A q \in Runs : q # r => runStatus'[q] = runStatus[q]
        /\ target \notin TerminalRunStatus => nodeRuns' = nodeRuns
        /\ target \in TerminalRunStatus => nodeRuns' = SettledUnder(r)
        /\ attempts' = attempts
    BY <1>5, TransitionRunEffect DEF IInv
  <2>2. NodeEnds
    <3>1. \A n \in NodeRuns : nodeRuns[n].status \in TerminalRunStatus =>
                SettledUnder(r)[n] = nodeRuns[n]
      BY CascadeRecord, StatusFacts DEF IInv, Shapes
    <3> QED BY <1>2, <2>1, <3>1
  <2> QED BY <1>3, <2>1, <2>2 DEF RunIsTerminal
<1>6. ASSUME NEW n \in NodeRuns, NEW r \in Runs, NEW node \in Nodes, CreateNodeRun(n, r, node)
      PROVE  RunEnds /\ NodeEnds /\ AttemptEnds
  <2>1. /\ nodeRuns[n].status = "absent"
        /\ \A m \in NodeRuns : m # n => nodeRuns'[m] = nodeRuns[m]
        /\ runStatus' = runStatus /\ attempts' = attempts
    BY <1>6, CreateNodeRunEffect DEF IInv, Kept
  <2> QED BY <1>1, <1>3, <2>1, StatusFacts
<1>7. ASSUME NEW n \in NodeRuns, NEW target \in RunStatus, NEW outcome \in Outcomes \union {NoOutcome},
             TransitionNodeRun(n, target, outcome)
      PROVE  RunEnds /\ NodeEnds /\ AttemptEnds
  <2>1. /\ nodeRuns[n].status \in OpenRunStatus
        /\ \A m \in NodeRuns : m # n => nodeRuns'[m] = nodeRuns[m]
        /\ runStatus' = runStatus /\ attempts' = attempts
    BY <1>7, TransitionNodeRunEffect DEF IInv, Kept
  <2> QED BY <1>1, <1>3, <2>1, StatusFacts
<1>8. ASSUME NEW n \in NodeRuns, NEW a \in Attempts, NEW logical \in AcceptedStatus,
             TransitionNodeRun(n, logical, OutcomeOf(a, logical))
      PROVE  RunEnds /\ NodeEnds /\ AttemptEnds
  <2>1. OutcomeOf(a, logical) \in Outcomes \union {NoOutcome} /\ logical \in RunStatus
    BY OutcomeType, StatusFacts DEF IInv
  <2> HIDE DEF RunEnds, NodeEnds, AttemptEnds
  <2> QED BY <1>7, <1>8, <2>1
<1>9. ASSUME NEW a \in Attempts, NEW n \in NodeRuns, NEW lease \in {"none", "open", "ttl"},
             CreateAttempt(a, n, lease)
      PROVE  RunEnds /\ NodeEnds /\ AttemptEnds
  <2>1. /\ attempts[a].status = "absent"
        /\ \A b \in Attempts : b # a => attempts'[b] = attempts[b]
        /\ runStatus' = runStatus /\ nodeRuns' = nodeRuns
    BY <1>9, CreateAttemptEffect DEF IInv, KeptAttempt
  <2> QED BY <1>1, <1>2, <2>1, StatusFacts
<1>10. ASSUME NEW a \in Attempts, NEW target \in AttemptStatus, NEW token \in Attempts,
              NEW result \in Result, TransitionAttempt(a, target, token, result)
       PROVE  RunEnds /\ NodeEnds /\ AttemptEnds
  <2>1. /\ attempts[a].status \in ActiveAttemptStatus
        /\ \A b \in Attempts : b # a => attempts'[b] = attempts[b]
        /\ runStatus' = runStatus /\ nodeRuns' = nodeRuns
    BY <1>10, TransitionAttemptEffect DEF IInv, KeptAttempt
  <2> QED BY <1>1, <1>2, <2>1, StatusFacts
<1>11. ASSUME NEW a \in Attempts, NEW token \in Attempts, RenewLease(a, token)
       PROVE  RunEnds /\ NodeEnds /\ AttemptEnds
  BY <1>1, <1>2, <1>11, RenewLeaseEffect DEF IInv
<1>12. ASSUME NEW batch \in SUBSET Attempts, ReclaimExpiredAttempts(batch)
       PROVE  RunEnds /\ NodeEnds /\ AttemptEnds
  <2>1. /\ \A a \in batch : attempts[a].status \in ActiveAttemptStatus
        /\ \A a \in Attempts : a \notin batch => attempts'[a] = attempts[a]
        /\ runStatus' = runStatus /\ nodeRuns' = nodeRuns
    BY <1>12, ReclaimEffect DEF IInv, KeptAttempt
  <2> QED BY <1>1, <1>2, <2>1, StatusFacts
<1>13. ASSUME NEW r \in Runs, NEW node \in Nodes, NEW n \in NodeRuns, NEW a \in Attempts,
              ClaimConsumerRun(r, node, n, a)
       PROVE  RunEnds /\ NodeEnds /\ AttemptEnds
  <2>1. /\ runStatus[r] = "queued"
        /\ \A q \in Runs : q # r => runStatus'[q] = runStatus[q]
        /\ nodeRuns[n].status = "absent" /\ attempts[a].status = "absent"
        /\ \A m \in NodeRuns : m # n => nodeRuns'[m] = nodeRuns[m]
        /\ \A b \in Attempts : b # a => attempts'[b] = attempts[b]
    BY <1>13, ClaimEffect DEF IInv, Kept, KeptAttempt
  <2>2. "queued" \notin TerminalRunStatus
    BY DEF TerminalRunStatus
  <2> QED BY <2>1, <2>2, StatusFacts DEF RunIsTerminal
<1>14. ASSUME NEW a \in Attempts, NEW result \in Result, RepairAttemptResult(a, result)
       PROVE  RunEnds /\ NodeEnds /\ AttemptEnds
  <2>1. /\ \A b \in Attempts : attempts'[b].status = attempts[b].status
        /\ \A m \in NodeRuns : nodeRuns'[m].status = nodeRuns[m].status
        /\ runStatus' = runStatus
    BY <1>14, RepairEffect DEF IInv, Kept, KeptAttempt
  <2> QED BY <1>1, <2>1
<1>15. ASSUME Tick PROVE RunEnds /\ NodeEnds /\ AttemptEnds
  BY <1>1, <1>2, <1>15, TickEffect DEF IInv
<1>16. NoOutcome \in Outcomes \union {NoOutcome}
  OBVIOUS
<1>17. KeepsEnds <=> RunEnds /\ NodeEnds /\ AttemptEnds
  BY DEF KeepsEnds
<1> HIDE DEF RunEnds, NodeEnds, AttemptEnds
<1> QED BY <1>4, <1>5, <1>6, <1>7, <1>8, <1>9, <1>10, <1>11, <1>12, <1>13, <1>14, <1>15,
           <1>16, <1>17 DEF Next

\* What has ended stays as it ended.
THEOREM EndsAreFinal == Spec => EndIsFinal
BY Invariance, NextKeepsEnds, PTL DEF Spec, EndIsFinal

\* One step of the store never gives a lapsed lease back: the only operation
\* that sets an expiry refuses a lapsed one.
LEMMA NextKeepsLapsedLeasesLost == IInv /\ [Next]_vars => [KeepsLapsedLeasesLost]_vars
<1> SUFFICES ASSUME IInv, Next PROVE KeepsLapsedLeasesLost
  OBVIOUS
<1> DEFINE Lost(a) == LeaseIsExpired(a) =>
                        LeaseIsExpired(a)' \/ attempts'[a].status \in TerminalAttemptStatus
<1>1. \A a \in Attempts : attempts'[a] = attempts[a] => Lost(a)
  BY DEF LeaseIsExpired
<1>2. \A a \in Attempts : attempts[a].status \notin ActiveAttemptStatus => Lost(a)
  BY DEF LeaseIsExpired
<1>3. ASSUME NEW a \in Attempts, NEW n \in NodeRuns, NEW lease \in {"none", "open", "ttl"},
             CreateAttempt(a, n, lease)
      PROVE  \A b \in Attempts : Lost(b)
  <2>1. /\ attempts[a].status = "absent"
        /\ \A b \in Attempts : b # a => attempts'[b] = attempts[b]
    BY <1>3, CreateAttemptEffect DEF IInv, KeptAttempt
  <2> HIDE DEF Lost
  <2> QED BY <1>1, <1>2, <2>1, StatusFacts
<1>4. ASSUME NEW a \in Attempts, NEW target \in AttemptStatus, NEW token \in Attempts,
             NEW result \in Result, TransitionAttempt(a, target, token, result)
      PROVE  \A b \in Attempts : Lost(b)
  <2>1. /\ attempts'[a].status = target
        /\ attempts'[a].lease = attempts[a].lease /\ attempts'[a].left = attempts[a].left
        /\ \A b \in Attempts : b # a => attempts'[b] = attempts[b]
    BY <1>4, TransitionAttemptEffect DEF IInv, KeptAttempt
  <2>2. Lost(a)
    BY <2>1 DEF LeaseIsExpired, TerminalAttemptStatus
  <2> HIDE DEF Lost
  <2> QED BY <1>1, <2>1, <2>2
<1>5. ASSUME NEW a \in Attempts, NEW token \in Attempts, RenewLease(a, token)
      PROVE  \A b \in Attempts : Lost(b)
  <2>1. ~LeaseIsExpired(a) /\ \A b \in Attempts : b # a => attempts'[b] = attempts[b]
    BY <1>5, RenewLeaseEffect DEF IInv, KeptAttempt
  <2>2. Lost(a)
    BY <2>1
  <2> HIDE DEF Lost
  <2> QED BY <1>1, <2>1, <2>2
<1>6. ASSUME NEW batch \in SUBSET Attempts, ReclaimExpiredAttempts(batch)
      PROVE  \A b \in Attempts : Lost(b)
  <2>1. /\ \A a \in batch : attempts'[a].status = "cancelled"
        /\ \A a \in Attempts : a \notin batch => attempts'[a] = attempts[a]
    BY <1>6, ReclaimEffect DEF IInv, KeptAttempt
  <2>2. \A a \in batch : Lost(a)
    BY <2>1 DEF TerminalAttemptStatus, AttemptStatus, ActiveAttemptStatus
  <2> HIDE DEF Lost
  <2> QED BY <1>1, <2>1, <2>2
<1>7. ASSUME NEW r \in Runs, NEW node \in Nodes, NEW n \in NodeRuns, NEW a \in Attempts,
             ClaimConsumerRun(r, node, n, a)
      PROVE  \A b \in Attempts : Lost(b)
  <2>1. /\ attempts[a].status = "absent"
        /\ \A b \in Attempts : b # a => attempts'[b] = attempts[b]
    BY <1>7, ClaimEffect DEF IInv, KeptAttempt
  <2> HIDE DEF Lost
  <2> QED BY <1>1, <1>2, <2>1, StatusFacts
<1>8. ASSUME NEW a \in Attempts, NEW result \in Result, RepairAttemptResult(a, result)
      PROVE  \A b \in Attempts : Lost(b)
  <2>1. /\ attempts[a].status \in TerminalAttemptStatus
        /\ \A b \in Attempts : b # a => attempts'[b] = attempts[b]
    BY <1>8, RepairEffect DEF IInv, KeptAttempt
  <2> HIDE DEF Lost
  <2> QED BY <1>1, <1>2, <2>1, StatusFacts
<1>9. ASSUME Tick PROVE \A b \in Attempts : Lost(b)
  BY <1>9, TickEffect DEF IInv, LeaseIsExpired
<1>10. ASSUME attempts' = attempts PROVE \A b \in Attempts : Lost(b)
  BY <1>10 DEF LeaseIsExpired
<1>11. KeepsLapsedLeasesLost <=> \A b \in Attempts : Lost(b)
  BY DEF KeepsLapsedLeasesLost
<1> HIDE DEF Lost
<1> QED BY <1>3, <1>4, <1>5, <1>6, <1>7, <1>8, <1>9, <1>10, <1>11
        DEF Next, CreateRun, TransitionRun, CreateNodeRun, TransitionNodeRun

\* A lapsed lease is lost for good.
THEOREM LapsedLeasesAreLost == Spec => LapsedLeaseIsLost
BY Invariance, NextKeepsLapsedLeasesLost, PTL DEF Spec, LapsedLeaseIsLost
==============================================================================
