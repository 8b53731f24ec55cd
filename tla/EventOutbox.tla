----------------------------- MODULE EventOutbox -----------------------------
(***************************************************************************)
(* The transactional outbox (events/outbox.py) and the canonical event log *)
(* it is drained into (events/envelope.py, events/pg_envelope.py).         *)
(*                                                                         *)
(* A producer stages an event in the transaction of its own change.  A     *)
(* publisher, on a connection of its own, appends the committed rows to    *)
(* the log in passes; what an append raises is recorded on the row, which  *)
(* is tried again later and dead-lettered in the end.  A failing row holds *)
(* back its own stream and no other.  Readers of a stream resume after the *)
(* last sequence they have seen, and retention removes old events.         *)
(***************************************************************************)
EXTENDS Naturals, FiniteSetsExt

CONSTANTS
    MaxRow,       \* the last outbox_id
    Streams,
    StreamOf,     \* the stream of each row
    MaxAttempts,
    Limit,        \* rows per pass
    Publishers,
    Expiring,     \* the rows whose events grow older than the retention
    CrashLimit    \* how many passes die

Rows == 1..MaxRow

ASSUME OutboxAssumption ==
    /\ MaxRow \in Nat /\ MaxAttempts \in Nat \ {0} /\ Limit \in Nat \ {0} /\ CrashLimit \in Nat
    /\ StreamOf \in [Rows -> Streams]
    /\ Expiring \subseteq Rows

VARIABLES
    staged,      \* the transaction each row was staged in
    attempts, waits, published, dead,   \* the columns of the outbox; waits: before next_attempt_at
    sequence,    \* the log: the sequence of each event, 0 if it is not there
    mark,        \* the last sequence handed out in each stream
    pass,        \* the pass each publisher is in
    cursor,      \* the last sequence the reader of each stream has seen
    seen,        \* the events read
    crashes

vars == <<staged, attempts, waits, published, dead, sequence, mark, pass, cursor, seen, crashes>>
outboxVars == <<attempts, waits, published, dead>>
logVars == <<sequence, mark>>
readVars == <<cursor, seen>>

NoPass == [pc |-> "idle", left |-> {}, blocked |-> {}, attempts |-> [r \in Rows |-> 0]]

Init ==
    /\ staged = [r \in Rows |-> "none"]
    /\ attempts = [r \in Rows |-> 0]
    /\ waits = {} /\ published = {} /\ dead = {}
    /\ sequence = [r \in Rows |-> 0]
    /\ mark = [s \in Streams |-> 0]
    /\ pass = [p \in Publishers |-> NoPass]
    /\ cursor = [s \in Streams |-> 0]
    /\ seen = {}
    /\ crashes = 0

------------------------------------------------------------------------------
\* Producers

\* stage, in the one transaction that may write
Stage(r) ==
    /\ staged[r] = "none"
    /\ \A q \in Rows : q < r => staged[q] \in {"committed", "void"}
    /\ staged' = [staged EXCEPT ![r] = "open"]
    /\ UNCHANGED <<outboxVars, logVars, pass, readVars, crashes>>

\* The producer commits its change and its event, or neither.
Conclude(r) ==
    /\ staged[r] = "open"
    /\ \E end \in {"committed", "void"} : staged' = [staged EXCEPT ![r] = end]
    /\ UNCHANGED <<outboxVars, logVars, pass, readVars, crashes>>

------------------------------------------------------------------------------
\* publish_pending

Pending == {r \in Rows : staged[r] = "committed" /\ r \notin published \union dead}

Before(r) == {q \in Rows : q < r /\ StreamOf[q] = StreamOf[r]}

\* Mutant: a row whose head is in its backoff is selected.
DueAlone == Pending \ waits

\* The rows that are due and have no earlier row of their stream in its backoff.
Due == {r \in Pending \ waits : Before(r) \intersect Pending \intersect waits = {}}

Select(p) ==
    /\ pass[p].pc = "idle"
    /\ Due # {}
    /\ pass' = [pass EXCEPT ![p] =
                    [NoPass EXCEPT !.pc = "drain", !.attempts = attempts,
                                   !.left = {r \in Due : Cardinality({q \in Due : q < r}) < Limit}]]
    /\ UNCHANGED <<staged, outboxVars, logVars, readVars, crashes>>

\* What is left of the pass, but for the streams a failure has blocked.
Left(p) == {r \in pass[p].left : StreamOf[r] \notin pass[p].blocked}

Row(p) == Min(Left(p))

Goes(p, pc) == pass' = [pass EXCEPT ![p].pc = pc]

\* Mutant: the sequence follows the events that are still there.
SequenceOfSurvivors(s) == Max({0} \union {sequence[q] : q \in {q \in Rows : StreamOf[q] = s}}) + 1

\* The durable mark, not the surviving rows, is the floor.
NextSequence(s) == Max({mark[s]} \union {sequence[q] : q \in {q \in Rows : StreamOf[q] = s}}) + 1

\* append_with_disposition: an event that is there is left as it is.
Inserted(r) ==
    IF sequence[r] # 0 THEN UNCHANGED logVars
    ELSE LET s == StreamOf[r] IN
         /\ sequence' = [sequence EXCEPT ![r] = NextSequence(s)]
         /\ mark' = [mark EXCEPT ![s] = NextSequence(s)]

\* The append returns; or raises, with or without the event in the log.
Append(p) ==
    /\ pass[p].pc = "drain"
    /\ Left(p) # {}
    /\ \/ Inserted(Row(p)) /\ Goes(p, "mark")
       \/ Inserted(Row(p)) /\ Goes(p, "record")
       \/ UNCHANGED logVars /\ Goes(p, "record")
    /\ UNCHANGED <<staged, outboxVars, readVars, crashes>>

MarkPublished(p) ==
    /\ pass[p].pc = "mark"
    /\ published' = published \union {Row(p)}
    /\ pass' = [pass EXCEPT ![p].pc = "drain", ![p].left = @ \ {Row(p)}]
    /\ UNCHANGED <<staged, attempts, waits, dead, logVars, readVars, crashes>>

\* Mutant: a failed row holds nothing back in the pass it fails in.
BlocksNothing(p) == pass[p].blocked

Blocks(p) == pass[p].blocked \union {StreamOf[Row(p)]}

\* Mutant: one attempt too many.
ExhaustedLate(tried) == tried > MaxAttempts

Exhausted(tried) == tried >= MaxAttempts

\* Mutant: the attempt that fails is not counted.
TriedBefore(p) == pass[p].attempts[Row(p)]

\* _record_failure counts from what the pass has read.
Tried(p) == pass[p].attempts[Row(p)] + 1

RecordFailure(p) ==
    LET r == Row(p)
        tried == Tried(p)
        open == r \notin published \union dead
    IN
    /\ pass[p].pc = "record"
    /\ attempts' = IF open THEN [attempts EXCEPT ![r] = tried] ELSE attempts
    /\ IF Exhausted(tried)
       THEN /\ dead' = IF open THEN dead \union {r} ELSE dead
            /\ pass' = [pass EXCEPT ![p].pc = "drain", ![p].left = @ \ {r}]
            /\ UNCHANGED waits
       ELSE /\ waits' = IF open THEN waits \union {r} ELSE waits
            /\ pass' = [pass EXCEPT ![p].pc = "drain", ![p].left = @ \ {r},
                                    ![p].blocked = Blocks(p)]
            /\ UNCHANGED dead
    /\ UNCHANGED <<staged, published, logVars, readVars, crashes>>

EndPass(p) ==
    /\ pass[p].pc = "drain"
    /\ Left(p) = {}
    /\ pass' = [pass EXCEPT ![p] = NoPass]
    /\ UNCHANGED <<staged, outboxVars, logVars, readVars, crashes>>

\* The publisher dies, or a write of the outbox itself raises.
Crash(p) ==
    /\ pass[p].pc # "idle"
    /\ crashes < CrashLimit
    /\ crashes' = crashes + 1
    /\ pass' = [pass EXCEPT ![p] = NoPass]
    /\ UNCHANGED <<staged, outboxVars, logVars, readVars>>

------------------------------------------------------------------------------
\* Time, retention and readers

\* next_attempt_at passes.
BackoffEnds(r) ==
    /\ r \in waits
    /\ waits' = waits \ {r}
    /\ UNCHANGED <<staged, attempts, published, dead, logVars, pass, readVars, crashes>>

\* purge_expired, in any order: timestamps need not follow the sequence.
Purge(r) ==
    /\ r \in Expiring /\ sequence[r] # 0
    /\ sequence' = [sequence EXCEPT ![r] = 0]
    /\ UNCHANGED <<staged, outboxVars, mark, pass, readVars, crashes>>

\* list_stream, one event after another
Read(r) ==
    LET s == StreamOf[r] IN
    /\ sequence[r] > cursor[s]
    /\ \A q \in Rows : StreamOf[q] = s /\ sequence[q] > cursor[s] => sequence[q] >= sequence[r]
    /\ cursor' = [cursor EXCEPT ![s] = sequence[r]]
    /\ seen' = seen \union {r}
    /\ UNCHANGED <<staged, outboxVars, logVars, pass, crashes>>

Publish(p) ==
    Select(p) \/ Append(p) \/ MarkPublished(p) \/ RecordFailure(p) \/ EndPass(p)

Next ==
    \/ \E r \in Rows : Stage(r) \/ Conclude(r) \/ BackoffEnds(r) \/ Purge(r) \/ Read(r)
    \/ \E p \in Publishers : Publish(p) \/ Crash(p)

Spec == Init /\ [][Next]_vars

\* Passes are made again and again and backoffs end.  Nothing is assumed of
\* appends, which may raise for ever, nor of producers and readers.
FairSpec ==
    /\ Spec
    /\ \A p \in Publishers : WF_vars(Publish(p))
    /\ WF_vars(\E r \in Rows : BackoffEnds(r))

------------------------------------------------------------------------------
\* Properties

\* The columns have their types; a row is dead-lettered by its last attempt and
\* no earlier one, and one that is marked as published was appended.
OutboxTypeOK ==
    /\ staged \in [Rows -> {"none", "open", "committed", "void"}]
    /\ attempts \in [Rows -> 0..MaxAttempts]
    /\ waits \subseteq Rows /\ published \subseteq Rows
    /\ dead \subseteq {r \in Rows : attempts[r] = MaxAttempts}
    /\ sequence \in [Rows -> Nat] /\ mark \in [Streams -> Nat] /\ cursor \in [Streams -> Nat]
    /\ pass \in [Publishers ->
            [pc : {"idle", "drain", "mark", "record"}, left : SUBSET Rows,
             blocked : SUBSET Streams, attempts : [Rows -> 0..MaxAttempts]]]
    /\ seen \subseteq Rows
    /\ published \ Expiring \subseteq {r \in Rows : sequence[r] # 0}
    /\ \A p \in Publishers : pass[p].pc \in {"mark", "record"} => Left(p) # {}

\* Events of a stream are appended in the order they were staged, although the
\* head fails, waits, loses the answer of its append or ends as a dead letter.
StreamsKeepOrder ==
    [][\A r \in Rows : sequence[r] = 0 /\ sequence'[r] # 0 =>
            /\ Before(r) \intersect Pending = {}
            /\ \A q \in Rows : r \in Before(q) => sequence[q] = 0]_vars

\* Nothing is appended behind the back of a reader: whatever the log holds at
\* or below its cursor it has read, although retention removes the last events of a stream.
ReadersMissNothing ==
    \A r \in Rows : 0 < sequence[r] /\ sequence[r] <= cursor[StreamOf[r]] => r \in seen

\* Every committed row is published or dead-lettered, however its neighbours
\* fail and whatever passes die.
EveryRowSettles == \A r \in Rows : staged[r] = "committed" ~> r \in published \union dead
==============================================================================
