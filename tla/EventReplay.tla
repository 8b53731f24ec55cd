----------------------------- MODULE EventReplay -----------------------------
(***************************************************************************)
(* The tick that replays the durable event log to the trigger handlers     *)
(* (container.py, process_durable_events): several containers share one    *)
(* cursor, take turns by a lease, dispatch a batch of events in id order   *)
(* and persist how far every event is settled.                             *)
(*                                                                         *)
(* PostgreSQL hands out an id before the append commits, so a log may have *)
(* holes that fill later.  The position stays below a hole until its       *)
(* holder has known it for longer than a grace period.  An append resolves *)
(* before the grace of its id is over: that is what the period is for.     *)
(*                                                                         *)
(* A dispatch is what EventDelivery says of it: it reports an event      *)
(* settled only when it is, and a settled event stays settled.             *)
(***************************************************************************)
EXTENDS Naturals, FiniteSetsExt

CONSTANTS
    Holders,     \* the containers
    MaxId,       \* the last id of the log
    Limit,       \* events per tick
    Expiring,    \* the ids that grow older than the retention of the log
    FaultLimit   \* how many ticks overrun their lease, raise, or die with their container

ASSUME ReplayAssumption ==
    /\ MaxId \in Nat /\ Limit \in Nat \ {0} /\ FaultLimit \in Nat
    /\ Expiring \subseteq 1..MaxId
    /\ "none" \notin Holders

VARIABLES
    log,       \* what has become of each id
    settled,   \* the events all of whose receipts are settled
    cursor,    \* the durable position, and whose token it accepts
    ack,       \* the replay cursor kept in the log
    tick,      \* the tick each container is in
    known,     \* the holes each container remembers, by the last id that was
               \* handed out when it first saw them (0: not known)
    old,       \* those it has known for longer than the grace
    overtaken, \* history: see Query and GraceEnds
    faults

vars == <<log, settled, cursor, ack, tick, known, old, overtaken, faults>>

Ids == 1..MaxId

IdleTick == [pc |-> "idle", from |-> 0, batch |-> {}, at |-> 0, holes |-> {}]

Init ==
    /\ log = [i \in Ids |-> "none"]
    /\ settled = {}
    /\ cursor = [pos |-> 0, owner |-> "none", leased |-> FALSE]
    /\ ack = 0
    /\ tick = [h \in Holders |-> IdleTick]
    /\ known = [h \in Holders |-> [i \in Ids |-> 0]]
    /\ old = [h \in Holders |-> {}]
    /\ overtaken = {}
    /\ faults = 0

------------------------------------------------------------------------------
\* The log

LastId == Max({0} \union {i \in Ids : log[i] # "none"})

\* append takes the next id ...
Append(i) ==
    /\ i = LastId + 1
    /\ log' = [log EXCEPT ![i] = "open"]
    /\ UNCHANGED <<settled, cursor, ack, tick, known, old, overtaken, faults>>

\* ... and commits, or is rolled back.
Resolve(i) ==
    /\ log[i] = "open"
    /\ \E fate \in {"there", "void"} : log' = [log EXCEPT ![i] = fate]
    /\ UNCHANGED <<settled, cursor, ack, tick, known, old, overtaken, faults>>

\* purge_expired asks for nothing but the age of a row.
Purge(i) ==
    /\ i \in Expiring /\ log[i] = "there"
    /\ log' = [log EXCEPT ![i] = "purged"]
    /\ UNCHANGED <<settled, cursor, ack, tick, known, old, overtaken, faults>>

------------------------------------------------------------------------------
\* process_durable_events

MayClaim(h) == cursor.leased => cursor.owner = h

\* The cursor store's claim: a new holder invalidates the token of the last.
Claim(h) ==
    /\ tick[h].pc = "idle"
    /\ MayClaim(h)
    /\ cursor' = [cursor EXCEPT !.owner = h, !.leased = TRUE]
    /\ tick' = [tick EXCEPT ![h] =
                    [IdleTick EXCEPT !.pc = "query", !.from = cursor.pos, !.at = cursor.pos]]
    /\ UNCHANGED <<log, settled, ack, known, old, overtaken, faults>>

\* The first Limit events after the position that can be seen.
BatchAfter(from) ==
    LET visible == {i \in Ids : i > from /\ log[i] = "there"} IN
    {i \in visible : Cardinality({j \in visible : j < i}) < Limit}

\* A gap is remembered by its first id alone.  This one holds i, although it was
\* remembered before i was handed out: what lay between is gone.
Outgrown(h, i, batch) ==
    /\ \E b \in batch : b > i
    /\ \E g \in 1..i : /\ g - 1 \in batch \union {tick[h].from}
                       /\ known[h][g] \in 1..(i - 1)
                       /\ \A b \in batch : ~(g <= b /\ b <= i)

Query(h) ==
    LET batch == BatchAfter(tick[h].from) IN
    /\ tick[h].pc = "query"
    /\ tick' = [tick EXCEPT ![h].pc = "dispatch", ![h].batch = batch]
    /\ overtaken' = overtaken \union {i \in Ids : log[i] = "open" /\ Outgrown(h, i, batch)}
    /\ UNCHANGED <<log, settled, cursor, ack, known, old, faults>>

\* What is left of the batch.
Left(h) == {i \in tick[h].batch : i > tick[h].at}

\* Mutant: a dispatch that is handed back is passed like a settled one.
HeldAt(h, i) ==
    tick' = [tick EXCEPT ![h].at = i,
                         ![h].holes = @ \union ({tick[h].at + 1} \ {i})]

\* The first event that is not settled ends the batch.
HeldBelow(h, i) == tick' = [tick EXCEPT ![h].pc = "advance"]

\* All triggers of the next event are dispatched.  When each reports a
\* settled receipt the event is passed, and a gap below it remembered.
Dispatch(h) ==
    /\ tick[h].pc = "dispatch"
    /\ Left(h) # {}
    /\ LET i == Min(Left(h)) IN
        \/ /\ settled' = settled \union {i}
           /\ tick' = [tick EXCEPT ![h].at = i,
                                   ![h].holes = @ \union ({tick[h].at + 1} \ {i})]
        \/ i \notin settled /\ HeldBelow(h, i) /\ UNCHANGED settled
    /\ UNCHANGED <<log, cursor, ack, known, old, overtaken, faults>>

EndBatch(h) ==
    /\ tick[h].pc = "dispatch"
    /\ Left(h) = {}
    /\ tick' = [tick EXCEPT ![h].pc = "advance"]
    /\ UNCHANGED <<log, settled, cursor, ack, known, old, overtaken, faults>>

\* Mutant: a hole holds the position as long as it is there.
NeverPastHoles(h) ==
    IF tick[h].holes = {} THEN tick[h].at ELSE Min(tick[h].holes) - 1

\* _gap_safe_position
GapSafePosition(h) ==
    LET young == tick[h].holes \ old[h] IN
    IF young = {} THEN tick[h].at ELSE Min(young) - 1

\* The cursor store's advance
AdvanceTo(h, position) ==
    IF cursor.owner = h
    THEN cursor' = [cursor EXCEPT !.pos = Max({@, position})]
    ELSE UNCHANGED cursor

\* Mutant: what was old once is never forgotten.
OldForEver(h) == old[h]

StillOld(h) == old[h] \intersect tick[h].holes

\* The holes of this batch are remembered, older ones forgotten.
Advance(h) ==
    LET position == GapSafePosition(h) IN
    /\ tick[h].pc = "advance"
    /\ known' = [known EXCEPT ![h] = [i \in Ids |->
                    IF i \notin tick[h].holes THEN 0
                    ELSE IF known[h][i] = 0 THEN LastId ELSE known[h][i]]]
    /\ old' = [old EXCEPT ![h] = StillOld(h)]
    /\ IF position > tick[h].from
       THEN /\ AdvanceTo(h, position)
            /\ tick' = [tick EXCEPT ![h] = [IdleTick EXCEPT !.pc = "ack", !.at = position]]
       ELSE UNCHANGED cursor /\ tick' = [tick EXCEPT ![h] = IdleTick]
    /\ UNCHANGED <<log, settled, ack, overtaken, faults>>

\* acknowledge_replay, whether or not the cursor accepted the position.
Acknowledge(h) ==
    /\ tick[h].pc = "ack"
    /\ ack' = Max({ack, tick[h].at})
    /\ tick' = [tick EXCEPT ![h] = IdleTick]
    /\ UNCHANGED <<log, settled, cursor, known, old, overtaken, faults>>

------------------------------------------------------------------------------
\* Time and failure

\* The lease of a container that is not ticking runs out.
Lapse ==
    /\ cursor.leased
    /\ \A h \in Holders : cursor.owner = h => tick[h].pc = "idle"
    /\ cursor' = [cursor EXCEPT !.leased = FALSE]
    /\ UNCHANGED <<log, settled, ack, tick, known, old, overtaken, faults>>

\* Or that of one whose tick takes more than five minutes.
Overrun(h) ==
    /\ cursor.leased /\ cursor.owner = h /\ tick[h].pc # "idle"
    /\ faults < FaultLimit
    /\ faults' = faults + 1
    /\ cursor' = [cursor EXCEPT !.leased = FALSE]
    /\ UNCHANGED <<log, settled, ack, tick, known, old, overtaken>>

\* The tick of h has read the log past i when i was not there yet, and nobody has
\* settled it.
Missed(h, i) ==
    /\ log[i] = "there" /\ i \notin settled /\ i > tick[h].from
    /\ i \notin tick[h].batch /\ \E j \in tick[h].batch : j > i

\* Whatever was handed out when the hole was seen has been resolved; a tick that
\* goes on by then may have read the log before.
GraceEnds(h, i) ==
    /\ known[h][i] > 0 /\ i \notin old[h]
    /\ \A j \in 1..known[h][i] : log[j] # "open"
    /\ old' = [old EXCEPT ![h] = @ \union {i}]
    /\ overtaken' = overtaken \union {j \in 1..known[h][i] : Missed(h, j)}
    /\ UNCHANGED <<log, settled, cursor, ack, tick, known, faults>>

\* A dispatch or a store raises: the tick ends where it is.
Abort(h) ==
    /\ tick[h].pc # "idle"
    /\ faults < FaultLimit
    /\ faults' = faults + 1
    /\ tick' = [tick EXCEPT ![h] = IdleTick]
    /\ UNCHANGED <<log, settled, cursor, ack, known, old, overtaken>>

\* A container is replaced by one with a holder id of its own.
Crash(h) ==
    /\ faults < FaultLimit
    /\ faults' = faults + 1
    /\ tick' = [tick EXCEPT ![h] = IdleTick]
    /\ known' = [known EXCEPT ![h] = [i \in Ids |-> 0]]
    /\ old' = [old EXCEPT ![h] = {}]
    /\ cursor' = [cursor EXCEPT !.owner = IF @ = h THEN "none" ELSE @]
    /\ UNCHANGED <<log, settled, ack, overtaken>>

Tick(h) ==
    Claim(h) \/ Query(h) \/ Dispatch(h) \/ EndBatch(h) \/ Advance(h) \/ Acknowledge(h)

Next ==
    \/ \E h \in Holders :
        \/ Tick(h) \/ Overrun(h) \/ Abort(h) \/ Crash(h)
        \/ \E i \in Ids : GraceEnds(h, i)
    \/ \E i \in Ids : Append(i) \/ Resolve(i) \/ Purge(i)
    \/ Lapse

Spec == Init /\ [][Next]_vars

\* The loop of a container goes on, appends resolve and time passes.  Events
\* are settled in the end: EventDelivery!EveryEventSettles.
FairSpec ==
    /\ Spec
    /\ WF_vars(Lapse)
    /\ WF_vars(\E i \in Ids : Resolve(i))
    /\ \A h \in Holders :
        /\ WF_vars(Tick(h))
        /\ SF_vars(Dispatch(h) /\ settled' # settled)
        /\ SF_vars(\E i \in Ids : GraceEnds(h, i))
------------------------------------------------------------------------------
\* Properties

ReplayTypeOK ==
    /\ log \in [Ids -> {"none", "open", "there", "void", "purged"}]
    /\ settled \subseteq Ids
    /\ cursor \in [pos : 0..MaxId, owner : Holders \union {"none"}, leased : BOOLEAN]
    /\ ack \in 0..MaxId
    /\ tick \in [Holders -> [pc : {"idle", "query", "dispatch", "advance", "ack"},
                             from : 0..MaxId, batch : SUBSET Ids, at : 0..MaxId,
                             holes : SUBSET Ids]]
    /\ known \in [Holders -> [Ids -> 0..MaxId]]
    /\ old \in [Holders -> SUBSET Ids]
    /\ \A h \in Holders : \A i \in old[h] : known[h][i] > 0
    /\ overtaken \subseteq Ids

\* The log can still deliver, or already has, an event at i that nobody settled.
Owed(i) == log[i] \in {"open", "there"} /\ i \notin settled

\* The durable position is below every event that still has to be delivered,
\* those the log has handed out an id for and not committed included, and so
\* is the log's own replay cursor, although a tick that has lost its lease
\* still writes it.  A tick may overtake two kinds of events, and only those:
\* one that was committed after it read the log, in a gap whose grace it outlasts,
\* and one still open in a gap that purges have joined to an older one.
NoEventIsSkipped == \A i \in Ids \ overtaken : Owed(i) => cursor.pos < i /\ ack < i

\* Every event that stays in the log is passed in the end, and delivered unless
\* it was overtaken: aborted appends, unsettled neighbours and lost leases only
\* delay it.
EveryEventIsPassed ==
    \A i \in Ids \ Expiring :
        log[i] = "there" ~> i \in settled \union overtaken /\ cursor.pos >= i
==============================================================================
