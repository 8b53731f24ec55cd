# Maistro: a formal model of the execution core

Maistro runs agents and graphs of work. Whatever the product on top, work is
recorded the same way: a **Run** of a Graph, a **NodeRun** for each visit of one
of its nodes, an **Attempt** for each physical try, and an **Invocation** for
each provider call made under an Attempt. Schedules start Runs, and durable events
lead from one piece of work to the next. These modules model that core, from
`packages/maistro-core/src/maistro` (paths below are relative to it). TLC checks
them on small instances, TLAPS proves the theorems for all sizes.

## 1. Inventory

| part | state | operations | what is hard | what makes it correct |
|---|---|---|---|---|
| Lifecycle vocabulary (`runs/lifecycle.py`, `model.py`, `aggregation.py`) | none | legal moves, derivation of a Run's outcome | newest visit of each node against all visits | a success is earned; an end is final |
| Run store (`runs/store.py`, `sqlite_store.py`, `pg_store.py`, `consumer_claim.py`) | Runs, NodeRuns, Attempts with leases | create, move, renew, reclaim, claim, repair | a Run ends while others write below it; leases against late heartbeats | nothing open or new under an ended Run; one active Attempt per NodeRun; a lapsed lease is lost; accepted copies equal their evidence |
| Attempt execution (`runs/execution.py`, `reconciliation.py`, `service.py`) | the local state of a call | execute, retry, settle, accept, park, cancel | every read is followed by an await; workers die; two nodes finish together | no completed side effect is repeated; only the newest Attempt is accepted; a Run is settled without losing a node |
| Recovery tick and consumers (`container.py`, `runs/consumption.py`) | what the tick has left | reclaim, reconcile, replay, claim, resume | races with live owners; dies half way | every Attempt settles; no Run strands |
| Capability invocation (`capabilities/invocation.py` and its stores) | Invocation rows, active dispatches | invoke, reconcile, reconcile with provider | lost answers, several workers, evidence that becomes stale | the effect is applied at most once; a settled row tells the truth |
| Run retention (`runs/retention.py`, `archival.py`, `store.py` pruning) | terminal Runs | evict, purge, archive | eviction under live calls | only settled Runs vanish, as a whole |
| Tasks (`tasks/`) | queue, lanes, idempotency keys | admit, run, recover | duplicated submissions, generations | one Run per key |
| Scheduling (`scheduling/`) | schedules with two cursors, pending markers, counted Runs | tick, admit, recover, fire by hand | overlapping ticks and callers, dead ones, stale snapshots | no occurrence is lost or run twice; each Run is counted once |
| Event delivery (`events/processing.py`, `invocations.py`) | one receipt per event and trigger | claim, begin, send, classify, settle | lapsed claims, lost answers, a cap on attempts | the handler acts at most once; the receipt tells the truth; every event settles |
| Event log and its replay (`events/durable_log.py`, `consumer_cursor.py`, `container.py`) | log, leased cursor, remembered holes | append, claim, dispatch a batch, advance, purge | ids that commit late; holders that lost their lease | no event is skipped; every event is passed |
| Event outbox and canonical log (`events/outbox.py`, `envelope.py`) | outbox rows, sequences per stream | stage, publish, back off, dead-letter, read | lost answers of an append, retention | streams keep their order; readers miss nothing; every row settles |
| Quota (`quota/`) | holds and usage | reserve, observe, reconcile | unknown outcomes | budget is never exceeded; a hold is released once |
| Goals, approvals, A2A, orchestrator, memory, resilience, sessions | own rows | planning and call wrappers | mostly data around model calls | product rules |
| Server, front ends, other packages, migrations | - | HTTP, UI, tools | - | - |

How they interact: `RunExecutionService` and the consumers are the callers of
the store; each of their awaits lets any other task or process run. The store
gives each single operation one lock or one transaction and nothing more. The
recovery tick of the Container is one more caller. Inside an Attempt, node code
calls `InvocationExecutionService.invoke`, which has its own durable store and
shares only the ids with the Run store. A schedule's tick and a handler of an
event both end in admitted Runs, which the consumers pick up; the replay of the
log is what calls the delivery of an event. `PROJECT.json` lists the hazards at
their lines.

## 2. Modules

```
Lifecycle <- RunSpine <- AttemptExecution <- RunConsumers
                ^               ^                 ^
        RunSpineProofs <- AttemptExecutionProofs <- RunConsumersProofs

        EffectOnce                                    (instances)
         ^      ^
EffectInvocation  EventDelivery   EventReplay   EventOutbox   ScheduleAdmission
      ^               ^                ^             ^                ^
      |               |          EventReplay-   EventOutbox-  ScheduleAdmission-
EffectInvocation-  EventDelivery-  Proofs          Proofs          Proofs
    Proofs            Proofs
```

* `Lifecycle`: statuses, transition tables, `DeriveRunTerminalStatus`.
* `RunSpine`: the store. `runStatus`, `nodeRuns`, `attempts` are its three
  tables, one action is one operation, and any caller may call any of them in
  any order. It is the abstract specification: what the spine promises whatever
  its callers do. A NodeRun's `cascaded` is its "Run ended" error, an Attempt's
  `reclaimed` its "lease expired" error, `left` the ticks until `expires_at`.
  Fencing tokens are the Attempt's own id. Ids grow with creation, as ordinals do.
* `AttemptExecution`: the callers. `proc[p].pc` is the await a call stands at:
  `check` and `create` in `_execute_attempt`, `prepare`, `run`, `node` in
  `prepare_execution`, `launch` to `settle` in `execute_claimed`, `accept` in
  `accept_outcome`, `reconcile` to `conclude` in `AttemptLifecycleReconciler`.
  What a call has read and will act on is in its record (`run`, `node`, `goal`).
  `sweep` is the recovery tick, which reconciles with the same actions.
* `EffectInvocation`: one logical effect. `rows` is the store, `call` a call of
  `invoke`, `look` a reconciliation that asks the provider outside the lock,
  `remote` the truth at the provider, which no code can read, and `minted` the
  candidates in the order of their `created_at` stamp.
* `EffectOnce`: the abstract specification of an effect that is tried several
  times. `EffectInvocation` and `EventDelivery` implement it, the first with its
  rows as what is said of the effect, the second with its receipt.
* `RunConsumers`: `execute_admitted_runs` and `resume_parked_runs` around the calls
  of `AttemptExecution`. `drive[p]` is the place in the consumer: `found` (a pause
  is read), `claimed` (the Run is moved on), `call` (the Attempt runs), then the
  three writes of a repark. `due` are the pauses whose time has come. `RecoveryTick` is
  the tick of `AttemptExecution`; `Overlap` says whether it may run beside a resume.
  The cadence of one Hive takes the two in turn
  (`packages/hive-conductor/backend/services/canonical_recovery.py`).
* `EventDelivery`: `_dispatch` for one event and one trigger. `receipt` is the row,
  `work[w]` the task of a worker, `remote[n]` what became of the n-th physical
  send, whether or not anybody knows. `owner` stands for token and revision.
* `EventReplay`: `process_durable_events` of several containers. `cursor` is the
  leased and fenced position, `ack` the replay cursor in the log, `known` and
  `old` the holes a container remembers. A dispatch is a step; `EventDelivery`
  says what it does. `overtaken` is history: the events a tick may pass unread.
* `EventOutbox`: `OutboxPublisher` between the rows and the canonical log.
  `pass[p]` is a pass, `blocked` the streams it holds back, `mark` the last
  sequence of a stream, `cursor` and `seen` its reader.
* `ScheduleAdmission`: `ScheduleRunAdmitter` over one Schedule. `row` is the
  Schedule, `claims` the occurrences and tokens the Run store has a Run for,
  `proc[p]` a tick or a fire by hand with the snapshot it works from. `row.runs` is
  `runs_so_far`; `counted` is its history, by what it was counted for, and `late`
  and `unsure` say for which Runs the code cannot tell who counts them.
  `Crews` are the tickers and callers there may be.
* `*MC` modules and `.cfg` files: the instances below. `*Proofs`: the theorems.

Operators whose comment starts with "Mutant" are wrong versions of the operator
that follows them. No action uses them; each is there to show that a property
notices the mistake.

### Abstractions

Payloads, errors and timestamps are left out, except what decides a branch.
Consecutive reads are one step. A read and the write it guards are one step when
the write checks the same condition again, so that nothing is lost by it. A
raise ends the call; in the tick, `RunIntegrityError` ends one reconciliation and
anything else ends the tick (`Abort`). Graphs have no cycles here, so a Run is
settled when every node was visited and none is open. The reclaim limit takes
any lapsed Attempts, where the code takes the oldest.

## 3. Runs

| run | question | distinct states |
|---|---|---|
| `spine_nodes` | do the store's rules relate Runs, NodeRuns and accepted outcomes correctly? | 180 thousand |
| `execution_serial` | does recovery respect the work of a call, wherever either dies, and does every Attempt settle? | 171 thousand |
| `execution_nodes` | do two concurrent nodes settle their Run without losing one? | 1.7 million |
| `consumers_resume` | is a pause resumed once, after its time, and does every Run leave running? | 155 thousand |
| `invocation_shared` | is an effect applied at most once, and are its rows true? | 731 thousand |
| `delivery_shared` | is an event handled at most once, are its receipts true, and does it settle? | 192 thousand |
| `replay_shared` | do containers that share a cursor skip nothing and pass everything? | 405 thousand |
| `outbox_streams` | do streams keep their order, readers miss nothing and rows settle? | 98 thousand |
| `schedule_fires` | is no occurrence lost, and is every Run counted, once? | 5.0 million |

Three runs are expected to fail. Each shows a sentence of the repository that the
code does not keep; `PROJECT.json` quotes it.

| run | what TLC shows |
|---|---|
| `invocation_order` | with two workers, a completed effect can be refused as unsafe instead of replayed |
| `consumers_unbacked` | a container that dies between moving a parked Run on and creating its Attempt leaves a Run that no tick looks at |
| `schedule_skip` | a late tick runs one occurrence and skips the next, and the skipped one runs when it is enumerated again |

**Bounds.**

* *Runs and Attempts.* One Run: Runs share nothing but the tick (`consumers_resume`
  has a second one that cannot be executed). Two NodeRuns are two nodes, or two
  visits of one; two Attempts are a retry beside its predecessor, a third a retry
  after a reclaimed retry. A lease lasts one tick (`Ttl`), which separates "renewed
  in time" from "lapsed". The node `z` is outside the Graph, so that its refusal
  happens. Conflicts are between a pair: a third task or worker repeats them. The
  consumers have five Attempts, which lets a pause be resumed, paused again and
  lapse in between; the failure under `Overlap` needs four.
* *Effects and deliveries.* Three Invocation ids are a failed effect, its retry and
  one more; `RevLimit` bounds how often an indeterminate reconciliation may rewrite
  a row. `MaxAttempts = 2` has a first send, a last one and the cap. The identities
  of a trigger are one that deduplicates, one that does not, one that cannot be sent.
* *Replay.* Three ids and a batch of two make a gap, a neighbour behind it and a
  batch that ends before the log does. `FaultLimit = 1`: one overrun lease, raise
  or death. Only the first id is old enough to be purged, so that a gap never
  grows: that takes a fourth id, and is left to the theorem.
* *Outbox.* A stream of two rows around one of another stream; two attempts are a
  backoff and a dead letter; one pass dies.
* *Schedules.* Two occurrences, a window of one or two; two tickers, or one beside two
  callers of one token; one death; `max_runs = 2` is reached. Two tickers compete for
  occurrences and two callers for a token, while a ticker meets a caller in the row and in
  its markers, for which one of them does. `FourDefinitions` has every policy.

**What the passing runs assume**, because the property does not hold of the code without it. Each
is a constant or a choice of one, so that the other case is one edit of a configuration away.

| constant | assumption | what happens otherwise |
|---|---|---|
| `execution_serial`: one task | one walker owns a NodeRun | two calls: one redispatches what the other has just completed (`CompletionIsNeverRedispatched`) |
| `Dispositions` without `waiting` | a domain does not park an accepted completion | the tick accepts an Attempt that a retry has superseded (`AcceptedAttemptIsCurrent`) |
| `CrashPlaces = {"backed"}` | consumers die under an active or a completed Attempt | `consumers_unbacked`; and a failed Attempt whose worker dies before the park strands its Run |
| `Overlap = FALSE` | recovery ticks and resumes take turns, as in one Hive | with the cadences of two, a tick that read an ended Attempt parks the Run a resume has just claimed (`reconciliation.py:413` does not ask for the newest Attempt), and another resume enters the same pause (`ResumesElapsedPauses`, and `NoRunStrands` behind it) |
| `Prompt` | a call's first heartbeat comes before the lease lapses | the cancelled call raises `CancelledError`, which the repark does not catch |
| `LiveStale = FALSE` | whoever reconciles passes a cutoff before any live dispatch | a live request is declared absent (`OutcomeIsTrue`) |
| one publisher | passes do not overlap | `StreamsKeepOrder`: one publishes a row another has read as failing |

**What three properties except.** Ticks of any length, purges, double submissions and
frozen callers are all in the models. Some of them defeat the code, and the properties
name those cases by history variables, which decide nothing. Without the exception TLC
violates each property.

| variable | what is in it | what happens to it in the code |
|---|---|---|
| `overtaken` (`NoEventIsSkipped`, `EveryEventIsPassed`) | an event committed after a tick read the log, in a gap whose grace ends during that tick; an open id in a gap that purges have joined to an older one | the gap is judged old, and the position passes an event nobody has read; `container.py:1283-1284` says that it is dispatched on the next tick |
| `late` (`CountedOnce`, `ManualRunsAreCounted`) | an occurrence that leaves the window while a tick may still fire it; a token for which a slot is held after it has its Run | the occurrence is credited as a dead ticker's and counted by the live one; the second slot of the token, left by a dead caller, is confirmed on the Run the first one paid for. `scheduling/store.py:132` says exactly once |
| `unsure` (`ManualRunsAreCounted`) | a token with two slots at once, or with one while its settlement is under way; one whose marker lapses while its holder creates the Run; one whose creation raises or is cancelled after the Run is durable | slots are released by token, so that one release takes the other's; the frozen holder's settle finds no marker (`store.py:220-222`), although `admission.py:170-174` says that both Runs are counted; `admission.py:1140-1142` releases the slot whatever was raised. The Run stays and is never counted |

Known, and described under `hazards` in `PROJECT.json` without a run: in-window
occurrences of dead tickers are consumed and not counted, so `max_runs` can be
exceeded; the tick's death between reclaim and reconcile leaves a NodeRun running;
a success whose Run is cancelled between the check and the write leaves its
Attempt running until the lease lapses; the outbox has no production publisher yet.

**Deadlock** is not checked: pools of ids run out, logs and outboxes drain, calls end.

**Fairness.**

* `FairExecSpec`, `FairConsumerSpec`: weak fairness of the steps of each call, of
  each reconciliation, of the tick's steps and of time. A task of the event loop
  that is not cancelled goes on, the runtime bounds the provider's work by a
  deadline, clocks advance, and an operator schedules the tick, as its docstring
  says. Nothing is assumed of new calls, heartbeats, those who end Runs, or
  crashes; a process that dies is not restarted by fairness.
* `EventDelivery!FairSpec`: tasks go on and leases end; strong fairness of the
  write after a claim says that a lease of five minutes is not over every time
  before its owner's next write. The recipient need not answer.
* `EventReplay!FairSpec`: the loop of a container goes on, appends are resolved,
  the lease of a silent container ends; strong fairness of a settling dispatch is
  what `EveryEventSettles` shows of it, that of the grace says that time passes
  while a hole is remembered.
* `EventOutbox!FairSpec`: passes are made again and again and backoffs end. Appends
  may raise for ever.
* `ScheduleAdmission` states no liveness: whether an occurrence fires is up to the
  policy, and its safety says that none is lost.

## 4. Proofs

All theorems hold for any sets of Runs, nodes, NodeRuns, Attempts, tasks and
workers, under the `ASSUME`s the modules state.

**RunSpine.** `IInv` has six parts: the shapes of the records, `Parents` (a
record's parent exists), `Closed` (nothing open under an ended Run), `Earned`,
`Backed` (accepted copies equal their evidence), `Single` (one active Attempt).
They need each other: `Earned` is stable only because `Closed` and the refusals
freeze what lies under a completed Run, and because a new NodeRun, which
would be the newest of its node, cannot be created there; `Backed` needs that a completed Attempt stays completed.
From `IInv` follow `TypeOK`, `ClosedRunIsSettled`, `SuccessIsEarned`,
`AcceptanceIsEvidenced`, `OneActiveAttempt` and, with one step, the action
properties `NoWorkUnderClosedRun`, `EndIsFinal` and `LapsedLeaseIsLost`.

**AttemptExecution.** `ExecutionImplementsSpine` is the refinement
`ExecSpec => Spec`: the three tables are the abstract state themselves, so every
step has to be an operation of the store or leave the tables alone. The store's
theorems are inherited through it. `ExecTypeOK` is inductive given that records
only grow: ids never disappear, an Attempt keeps its NodeRun, and a terminal
Attempt keeps its status (`Grows`, `Placed`).

Four more theorems are about what the callers do to each other. Their proofs cut
the next-state relation three ways: what a process may become in one step
(`ProcStep`), what may happen to one Attempt (`AttemptStep`: same, born, driven by
its call, lapsed) and to one NodeRun (`NodeRunStep`). Each invariant below is then a
case split over a few shapes and not over every action. `PlansOK` says that what a
call has decided still fits its Attempt: it settles only ended ones, accepts only
completed ones, and what it writes to the NodeRun is a success or the domain's
disposition exactly when the Attempt completed.

The check before a dispatch and the dispatch are two awaits. `OnlyCallsSpoilChecks`
says, of all behaviours, what can come between them: what `_reject_unaccepted_completion`
saw is spoilt by nothing the tick does, by no end of a Run and by no death, only by
another call of the same NodeRun that settles its Attempt or moves the NodeRun on. So
`CompletionIsNeverRedispatched` is proved of behaviours without such a call in
that window (`ChecksHold`). This hypothesis cannot go: `create_attempt` refuses beside
an active Attempt and not beside a completed one, and with two tasks TLC
finds the completion that is redispatched.

`ReclaimedWorkStaysOpen` and `AcceptedAttemptIsCurrent` are proved of behaviours in
which a NodeRun has at most one call at work (`OneWalker`), for any number of calls beside
the tick, all of which may die anywhere. `SerialOK` has six parts. `NoGaps`: ids are used
in order, so a new Attempt is the newest. `LiveIsNewest`: an Attempt that is active or
completed is the newest of its NodeRun. `AcceptedEnds`: an acceptance ends the NodeRun.
`ReclaimedEnds`: a reclaimed Attempt is cancelled. `EndedIsQuiet`: under a NodeRun
that a call ended nothing is active, and its newest Attempt was not reclaimed.
`OwnOK`: a call works on the newest Attempt, and never writes the disposition of a
reclaimed one. They hold each other up: a retry keeps `LiveIsNewest` because the
check found no completion and the store allows one active Attempt, a settling call
keeps `EndedIsQuiet` because of `OwnOK`, and the steps of others keep `OwnOK`
because of `OneWalker`. These two also take
`Dispositions \subseteq {"completed", "failed"}`: a completion accepted as "waiting"
leaves its NodeRun open, and the retry that follows makes it an older one.

`SettlementLosesNothing` needs no such hypothesis, only that a node has one NodeRun
in a Run (`Revisits = FALSE`, and no claim, which opens a NodeRun of its own).
`_settle_run_if_fully_observed` looks, and the Run is concluded later: `ObservedOK`
says that by then every node still has its NodeRun and all have ended, because an
ended NodeRun stays ended and, by `NodesOnce`, a node that has one gets no other.

**RunConsumers.** `Base` holds with or without `Overlap`: it adds to what the calls
keep that a consumer and its call fit together (`DriveOK`) and that only timed
pauses fall due (`DueOK`). With it `ConsumersImplementSpine`: the consumers refine
the store too, by the steps of `AttemptExecution` and by the writes of the claims
and of the repark, and inherit its theorems.

The rest is proved for `Overlap = FALSE`. `PausesAreResumedOnce` needs `ResumeInv`. A
NodeRun is `Live` when its newest Attempt, not counting what recovery reclaimed, runs
or is a timed pause. `OneEngaged`: a live NodeRun has at most one consumer, whose Run
is neither waiting nor paused, so that nobody else can claim it. `BeforeLaunch`:
between the claim and the creation the pause that was found is still the last and still due.
`OwnAttempts` with `ActiveIsNewest`: a call that timed out gives the Run
back only when the Attempt it gives up is its own and the newest. `TakesTurns` and
`TickSettles` keep recovery from parking a live Run; they are what `Overlap` breaks.

`WorkInv` adds `LiveIsNewest`, `OwnOK` and `EndedIsQuiet` of the calls. A resume begins an
Attempt under a pause only, and a NodeRun with a completed newest Attempt has none.
So `ConsumersRedispatchNothing`, `ConsumersAcceptTheCurrent` and
`ConsumersKeepReclaimedWorkOpen` state three properties of `AttemptExecution` again,
here without `ChecksHold` and `OneWalker`, which the claims provide, and without a condition on
`Dispositions`: a NodeRun whose Attempt completed is not resumed, so
that no newer Attempt can come before its acceptance.

**EffectInvocation.** The invariant relates three sides: `CallOK` (what a call
may rely on at each place: its row is still its own or its revision moved on),
`RowOK` (what a status implies at the provider), `LookOK` (evidence is true while
the revision it was read at is current), and `OneOpen` (one row that has not
failed). `OutcomeIsTrue`, `EffectAppliedOnce` and `OutcomeIsFinal` follow, and the
refinement `InvocationImplementsOnce`: with the rows mapped to what they say of the
effect, every step is one of `EffectOnce` or a stutter. The assumption
`LiveStale = FALSE` is stated in each theorem that needs it.

**EventDelivery.** All safety properties and the refinement of `EffectOnce`, for
any number of workers, sends and identities. Two workers may both believe they
hold the receipt. `StaleOK`: a call that lost its claim has left the receipt
uncertain. `TraceOK`: a send that may have been applied is the marked one, or the
receipt is uncertain, or settled as a success. `CurrentOK`: what the current claim
knows is what the receipt says, so that its verdict rests on the send it began.
`DoomedOK`: once a permanent failure is announced, nobody can succeed. None is
inductive without the others: a verdict is true because no stale worker may write
one, and a stale worker may not because its takeover rotated the claim. The
proof also shows that `ReachCap` never has a failure to announce: a receipt whose
sends are used up is uncertain.

**EventReplay.** `NothingIsSkipped` and `ReplayIsTyped`, for any number of
containers, ids, faults and batches, ticks of any length and any purges. Positions are
written by containers that lost their lease too (the cursor refuses
them, the log does not), so the invariant says of each tick why its own position is
safe: what its batch passed over lies behind a hole (`GapsHaveHoles`), everything that had
been handed out when an old hole was first seen is resolved (`OldAreResolved`), and what
the batch lacks of it is void, purged, settled or overtaken (`OldGapsAreDone`); what
lies in the same gap and was handed out later is overtaken too (`OutgrownAreDone`).
The two exceptions are thus the only ones: any other skipped event would violate
the property. `GapsGrowByPurges` shows that the second needs a purge: as long as nothing
is purged, a remembered hole has an event behind it that the batch cannot have jumped
(`HolesEnd`), and only the end of a grace period during a tick overtakes anything.

**EventOutbox.** `OutboxTypeOK` and `ReadersMissNothing` for any publishers,
dying anywhere. A reader cannot miss an event because the next sequence is taken
from the mark of the stream and not from the rows that are left of it: no
sequence and no cursor is beyond the mark (`MarksOK`). `StreamsKeepOrder` is proved
for one publisher. A pass that holds a row holds every row before it in the
stream that is pending (`HeadsOK`), which is what `blocked` is for, and while a row is
pending nothing after it is in the log (`OrderOK`). `OrderOK` says of a pass that
what it holds is still pending, and a second publisher breaks that.

**ScheduleAdmission.** `ScheduleTypeOK` and `NoOccurrenceIsLost` need no assumption: any
policies and windows, any number of tickers and callers, snapshots as old as
one likes, deaths anywhere. The row alone is not inductive, since a tick writes a
cursor it chose from a row that others have written since. So each tick carries
its reason (`PlanOK`): until it decides, its snapshot passes no occurrence that is
not gone, which stays true because what is gone stays gone; from then on, every
occurrence before one it has linked is gone or among those it drops itself,
every occurrence before one it will fire is among its fires or gone (but for
`cancel_other`, which links the newest), and its next cursor is beyond no other.
`InOrder`, that Runs are admitted in the order of their occurrences, is what a
tick needs when it meets the claim of another.

`CountedOnce` adds `CountOK` and `TokenOK`, and needs no assumption either. Of an
occurrence, three may count the Run: the tick that admitted it, one that finds its claim,
one that recovers it. They are kept apart by the window: what is being admitted lies in
it, what is recovered has left it, unless it is `late`, and between recoveries `credited`
decides. Of a fire by hand the marker decides. A token that is not `late` is counted once
at most, because every slot of it was held before it had its Run and the first confirmation
takes them all. A token that is neither `late` nor `unsure` has one submission past its
reservation (`CallerHolds`), whose marker is in the row and in nobody's list while the Run
may be created; so a token with a Run is counted or has a marker at every moment, which is
`ManualRunsAreCounted`.

**Only model-checked**: the liveness properties (liveness under fairness and
`ENABLED` are outside the prover), and the three properties that are expected to
fail, which are no theorems. Every other property of a passing run has one.

## 5. Not modelled

The SQL of the durable stores (each operation is taken as atomic, which their
transactions claim), eviction and purge of Runs, cyclic Graphs and legacy completed
NodeRuns without an outcome, the `prior_completion_accepted` escape, consumers of
Runs with several nodes, quota hooks and the expected-effect observation of
Invocations, services that share one in-memory Invocation store, edits of a
Schedule, truncated enumerations and cron arithmetic, correlation and upgrades of
the event tables, and the parts of the inventory without a module.

Most of the repository is outside: products, front ends, tools, migrations and model
calls whose outcomes are data. The modules are about the durable core that the
rest stands on.

## 6. Plan

1. `OneWalker` of the remaining callers: consumers of Runs with several nodes, and
   `execute` and `retry_node` called from outside the consumers.
2. `TaskAdmission`: lanes, generations and idempotency keys of `tasks/`.
   Property: one Run per key under duplicated and concurrent submissions.
3. `QuotaHolds`: reservations and unknown outcomes, joined with `EffectInvocation`.
4. `RunRetention`: eviction and purge as extra operations of `RunSpine`.

Runs are kept few. Those that make room first are `spine_nodes`, whose properties
are all proved, and the violations whose finding is settled.
