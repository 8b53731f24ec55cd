-------------------------- MODULE EventReplayProofs --------------------------
(***************************************************************************)
(* Proofs about EventReplay, for any number of containers, ids, purges and  *)
(* faults.                                                                 *)
(*                                                                         *)
(* A position is safe when every id up to it is done: void, purged,        *)
(* settled, or overtaken.  Positions are written by containers that may    *)
(* have lost their lease, so safety is not a matter of who holds it: each  *)
(* tick carries what makes its own position safe.  The ids its batch       *)
(* passed over belong to gaps, each of which starts with a hole            *)
(* (GapsHaveHoles).  Of a gap whose hole the container knew when it read   *)
(* the log, what had not been handed out when it first met the hole is     *)
(* done (OutgrownAreDone); and once the hole is old, the rest is resolved  *)
(* (OldAreResolved), and what the batch passed over of it is done          *)
(* (OldGapsAreDone).                                                       *)
(***************************************************************************)
EXTENDS EventReplay, Integers, FiniteSetTheorems, TLAPS

------------------------------------------------------------------------------
\* Facts about sets of numbers.

\* A set of naturals that is not empty has a least element: of the segments below
\* its elements one is contained in no other properly.
LEMMA MinIsLeast ==
    ASSUME NEW S \in SUBSET Nat, S # {}
    PROVE  Min(S) \in S /\ \A y \in S : Min(S) <= y
<1> DEFINE Segments == {0..y : y \in S}
<1>1. Segments \subseteq FiniteSubsetsOf(Nat) /\ Segments # {}
  <2>1. \A y \in S : IsFiniteSet(0..y) /\ 0..y \subseteq Nat
    BY FS_Interval
  <2> QED
    BY <2>1 DEF FiniteSubsetsOf
<1>2. PICK s \in Segments : \A t \in Segments : <<t, s>> \notin StrictSubsetOrdering(Nat)
  BY <1>1, FS_StrictSubsetOrderingWellFounded, WFMin, Zenon
<1>3. PICK x \in S : s = 0..x
  OBVIOUS
<1>4. ASSUME NEW y \in S, y < x PROVE FALSE
  <2>1. 0..y \in SUBSET Nat /\ 0..x \in SUBSET Nat /\ 0..y \subseteq 0..x
    BY <1>4
  <2>2. x \in 0..x /\ x \notin 0..y
    BY <1>4
  <2>3. <<0..y, 0..x>> \in StrictSubsetOrdering(Nat)
    BY <2>1, <2>2 DEF StrictSubsetOrdering
  <2> QED
    BY <1>2, <1>3, <2>3
<1>5. \A y \in S : x <= y
  BY <1>4
<1> QED
  BY <1>5 DEF Min

\* A bounded one has a greatest: the least of its upper bounds.
LEMMA MaxIsGreatest ==
    ASSUME NEW n \in Nat, NEW S \in SUBSET (0..n), S # {}
    PROVE  Max(S) \in S /\ \A y \in S : y <= Max(S)
<1> DEFINE Above == {m \in Nat : \A y \in S : y <= m}
           top == Min(Above)
<1>1. n \in Above /\ Above \subseteq Nat
  OBVIOUS
<1>2. top \in Above /\ \A m \in Above : top <= m
  BY <1>1, MinIsLeast
<1>3. top \in S
  <2> SUFFICES ASSUME top \notin S PROVE FALSE
    OBVIOUS
  <2>1. \A y \in S : y \in Nat /\ y < top
    BY <1>2
  <2>2. top \in Nat
    BY <1>2
  <2>3. top # 0
    <3> HIDE DEF top, Above
    <3>1. PICK y \in S : y \in Nat /\ y < top
      BY <2>1
    <3> QED
      BY <3>1
  <2>4. top - 1 \in Above
    BY <2>1, <2>2, <2>3
  <2> HIDE DEF top
  <2> QED
    BY <1>2, <2>2, <2>4
<1>4. \A y \in S : y <= top
  BY <1>2
<1> HIDE DEF top, Above
<1> QED
  BY <1>3, <1>4 DEF Max

\* The first n elements of a finite set of numbers are closed under smaller ones.
LEMMA FirstAreClosed ==
    ASSUME NEW S \in SUBSET Int, IsFiniteSet(S), NEW n \in Nat,
           NEW x \in S, NEW y \in S, y < x,
           Cardinality({z \in S : z < x}) < n
    PROVE  Cardinality({z \in S : z < y}) < n
<1>1. {z \in S : z < y} \subseteq {z \in S : z < x}
  <2>1. \A z \in S : z < y => z < x
    OBVIOUS
  <2> QED
    BY <2>1
<1>2. IsFiniteSet({z \in S : z < x})
  BY FS_Subset
<1>3. /\ IsFiniteSet({z \in S : z < y})
      /\ Cardinality({z \in S : z < y}) <= Cardinality({z \in S : z < x})
  BY <1>1, <1>2, FS_Subset
<1>4. Cardinality({z \in S : z < y}) \in Nat /\ Cardinality({z \in S : z < x}) \in Nat
  BY <1>2, <1>3, FS_CardinalityType
<1> QED
  BY <1>3, <1>4

------------------------------------------------------------------------------

Done(i) == log[i] \in {"void", "purged"} \/ i \in settled \union overtaken

DoneUpTo(n) == \A i \in Ids : i <= n => Done(i)

\* The tick has its batch.
Reading(h) == tick[h].pc \in {"dispatch", "advance"}

\* The batch has an event above i.
Passes(h, i) == \E j \in tick[h].batch : i < j

\* Ids are handed out one after the other.
LogOK == \A i, j \in Ids : log[j] # "none" /\ i < j => log[i] # "none"

PositionsOK ==
    /\ DoneUpTo(cursor.pos)
    /\ DoneUpTo(ack)
    /\ \A h \in Holders : tick[h].pc # "idle" => DoneUpTo(tick[h].from)
    /\ \A h \in Holders : tick[h].pc = "ack" => DoneUpTo(tick[h].at)

\* The batch: what of it is passed is settled.
BatchOK(h) ==
    /\ tick[h].pc = "query" => tick[h].at = tick[h].from
    /\ ~Reading(h) => tick[h].batch = {}
    /\ Reading(h) =>
        /\ tick[h].at = tick[h].from \/ tick[h].at \in tick[h].batch
        /\ \A i \in tick[h].batch :
                /\ log[i] \in {"there", "purged"}
                /\ tick[h].from < i /\ (i <= tick[h].at => i \in settled)

\* What the position of the tick passed and the batch lacks is behind a hole.
GapsHaveHoles(h) ==
    tick[h].pc # "idle" /\ tick[h].pc # "ack" =>
        /\ \A g \in tick[h].holes :
                /\ Reading(h) /\ tick[h].from < g /\ g < tick[h].at
                /\ g - 1 \in tick[h].batch \union {tick[h].from}
        /\ \A i \in Ids \ tick[h].batch : tick[h].from < i /\ i <= tick[h].at =>
                \E g \in tick[h].holes : g <= i /\ \A j \in tick[h].batch : ~(g <= j /\ j <= i)

OutgrownAreDone(h) ==
    Reading(h) => \A i \in Ids \ tick[h].batch : Outgrown(h, i, tick[h].batch) => Done(i)

\* What had been handed out when a hole was first seen.
KnownAreThere(h) ==
    \A g \in Ids : \A j \in Ids : j <= known[h][g] => log[j] # "none"

OldAreResolved(h) ==
    \A g \in old[h] : \A j \in Ids : j <= known[h][g] => log[j] \in {"void", "there", "purged"}

OldGapsAreDone(h) ==
    Reading(h) =>
        \A g \in old[h] : \A i \in Ids \ tick[h].batch :
            i <= known[h][g] /\ tick[h].from < i /\ Passes(h, i) => Done(i)

\* As long as nothing is purged, behind a hole that is known there is an event.
Unpurged == \A i \in Ids : log[i] # "purged"

HolesEnd(h) ==
    Unpurged => \A g \in Ids : known[h][g] > 0 =>
        \E e \in Ids : g < e /\ e <= known[h][g] /\ log[e] = "there"

HolderOK(h) ==
    /\ BatchOK(h)
    /\ GapsHaveHoles(h)
    /\ OutgrownAreDone(h)
    /\ KnownAreThere(h)
    /\ OldAreResolved(h)
    /\ OldGapsAreDone(h)
    /\ HolesEnd(h)

IInv ==
    /\ ReplayTypeOK
    /\ LogOK
    /\ PositionsOK
    /\ \A h \in Holders : HolderOK(h)

TickRecord ==
    [pc : {"idle", "query", "dispatch", "advance", "ack"},
     from : 0..MaxId, batch : SUBSET Ids, at : 0..MaxId, holes : SUBSET Ids]
------------------------------------------------------------------------------
\* Nothing is handed out, known or read.
LEMMA InitHolds == Init => IInv
<1> SUFFICES ASSUME Init PROVE IInv
  OBVIOUS
<1> USE DEF Init, IdleTick, Ids
<1>1. ReplayTypeOK
  BY ReplayAssumption DEF ReplayTypeOK
<1>2. LogOK /\ PositionsOK
  BY DEF LogOK, PositionsOK, DoneUpTo
<1>3. \A h \in Holders : HolderOK(h)
  BY DEF HolderOK, BatchOK, GapsHaveHoles, OutgrownAreDone, KnownAreThere, OldAreResolved,
         OldGapsAreDone, HolesEnd, Reading
<1> QED
  BY <1>1, <1>2, <1>3 DEF IInv

\* What is known of the log.
LEMMA LastIdIsLast ==
    ASSUME ReplayTypeOK, LogOK
    PROVE  /\ LastId \in 0..MaxId
           /\ \A i \in Ids : log[i] # "none" <=> i <= LastId
<1> DEFINE S == {0} \union {i \in Ids : log[i] # "none"}
<1>1. S \in SUBSET (0..MaxId) /\ S # {} /\ MaxId \in Nat
  BY ReplayAssumption DEF Ids
<1>2. Max(S) \in S /\ \A y \in S : y <= Max(S)
  BY <1>1, MaxIsGreatest
<1>3. LastId = Max(S)
  BY DEF LastId
<1>4. LastId \in S /\ \A y \in S : y <= LastId
  BY <1>2, <1>3
<1>5. \A i \in Ids : i <= LastId => log[i] # "none"
  BY <1>1, <1>4 DEF LogOK, Ids
<1> QED
  BY <1>1, <1>4, <1>5

\* A batch leaves out nothing that can be seen below its last event.
LEMMA BatchIsClosed ==
    ASSUME NEW from \in Nat
    PROVE  /\ BatchAfter(from) \subseteq {i \in Ids : from < i /\ log[i] = "there"}
           /\ \A i \in BatchAfter(from) : \A j \in Ids :
                from < j /\ j < i /\ log[j] = "there" => j \in BatchAfter(from)
<1> DEFINE S == {i \in Ids : i > from /\ log[i] = "there"}
<1>1. S \subseteq Int /\ IsFiniteSet(S) /\ Limit \in Nat
  <2>1. IsFiniteSet(Ids) /\ Ids \subseteq Int
    BY FS_Interval, ReplayAssumption DEF Ids
  <2> QED
    BY <2>1, FS_Subset, ReplayAssumption
<1>2. BatchAfter(from) = {i \in S : Cardinality({j \in S : j < i}) < Limit}
  BY DEF BatchAfter
<1> HIDE DEF S
<1>3. \A i \in BatchAfter(from) : \A j \in S : j < i => j \in BatchAfter(from)
  <2> SUFFICES ASSUME NEW i \in BatchAfter(from), NEW j \in S, j < i
               PROVE  j \in BatchAfter(from)
    OBVIOUS
  <2>1. i \in S /\ Cardinality({z \in S : z < i}) < Limit
    BY <1>2
  <2>2. Cardinality({z \in S : z < j}) < Limit
    BY <1>1, <2>1, FirstAreClosed
  <2> QED
    BY <1>2, <2>2
<1>4. BatchAfter(from) \subseteq S
  BY <1>2
<1> QED
  BY <1>3, <1>4 DEF S, Ids

------------------------------------------------------------------------------
\* The log goes on: what is done, resolved or handed out stays so.
LEMMA LogStep ==
    ASSUME IInv, UNCHANGED <<settled, cursor, ack, tick, known, old, overtaken>>,
           log' \in [Ids -> {"none", "open", "there", "void", "purged"}], LogOK',
           \A i \in Ids : log[i] = "there" => log'[i] \in {"there", "purged"},
           \A i \in Ids : log[i] \in {"void", "purged"} => log'[i] = log[i],
           \A i \in Ids : log[i] # "none" => log'[i] # "none"
    PROVE  IInv'
<1>1. ReplayTypeOK'
  BY DEF IInv, ReplayTypeOK
<1>2. \A i \in Ids : Done(i) => Done(i)'
  BY DEF Done
<1>3. PositionsOK'
  BY <1>2 DEF IInv, PositionsOK, DoneUpTo
<1>4. ASSUME NEW h \in Holders PROVE HolderOK(h)'
  <2>1. BatchOK(h)' /\ GapsHaveHoles(h)'
    BY DEF IInv, ReplayTypeOK, HolderOK, BatchOK, GapsHaveHoles, Reading
  <2>2. OutgrownAreDone(h)'
    BY <1>2 DEF IInv, HolderOK, OutgrownAreDone, Outgrown, Reading
  <2>3. old[h] \subseteq Ids
    BY DEF IInv, ReplayTypeOK
  <2>4. KnownAreThere(h)'
    BY DEF IInv, HolderOK, KnownAreThere
  <2>5. OldAreResolved(h)'
    BY <2>3 DEF IInv, HolderOK, OldAreResolved
  <2>6. OldGapsAreDone(h)'
    BY <1>2, <2>3 DEF IInv, HolderOK, OldGapsAreDone, Passes, Reading
  <2>7. HolesEnd(h)'
    BY DEF IInv, HolderOK, HolesEnd, Unpurged
  <2> QED
    BY <2>1, <2>2, <2>4, <2>5, <2>6, <2>7 DEF HolderOK
<1> QED
  BY <1>1, <1>3, <1>4 DEF IInv

\* Append
LEMMA AppendStep == ASSUME IInv, NEW i \in Ids, Append(i) PROVE IInv'
<1>1. /\ i = LastId + 1 /\ log' = [log EXCEPT ![i] = "open"]
      /\ UNCHANGED <<settled, cursor, ack, tick, known, old, overtaken>>
  BY DEF Append
<1>2. LastId \in Nat /\ log[i] = "none" /\ \A j \in Ids : log[j] # "none" <=> j < i
  BY <1>1, LastIdIsLast DEF IInv, Ids
<1>3. log' \in [Ids -> {"none", "open", "there", "void", "purged"}]
  BY <1>1 DEF IInv, ReplayTypeOK
<1>4. LogOK'
  BY <1>1, <1>2 DEF IInv, ReplayTypeOK, LogOK, Ids
<1> QED
  BY <1>1, <1>2, <1>3, <1>4, LogStep DEF IInv, ReplayTypeOK

\* Resolve and Purge
LEMMA FateStep ==
    ASSUME IInv, NEW i \in Ids, NEW fate \in {"there", "void", "purged"},
           log[i] = "open" \/ (log[i] = "there" /\ fate = "purged"),
           log' = [log EXCEPT ![i] = fate],
           UNCHANGED <<settled, cursor, ack, tick, known, old, overtaken>>
    PROVE  IInv'
<1>1. log' \in [Ids -> {"none", "open", "there", "void", "purged"}] /\ LogOK'
  BY DEF IInv, ReplayTypeOK, LogOK
<1> QED
  BY <1>1, LogStep DEF IInv, ReplayTypeOK

LEMMA ResolveStep == ASSUME IInv, NEW i \in Ids, Resolve(i) PROVE IInv'
  BY FateStep DEF Resolve

LEMMA PurgeStep == ASSUME IInv, NEW i \in Ids, Purge(i) PROVE IInv'
  BY FateStep DEF Purge

\* A container is not touched by what another one does.
LEMMA OthersKeep ==
    ASSUME IInv, NEW h \in Holders, UNCHANGED log,
           settled \subseteq settled', overtaken \subseteq overtaken',
           tick'[h] = tick[h], known'[h] = known[h], old'[h] = old[h]
    PROVE  HolderOK(h)'
<1>1. \A i \in Ids : Done(i) => Done(i)'
  BY DEF Done
<1>2. BatchOK(h)' /\ GapsHaveHoles(h)' /\ KnownAreThere(h)' /\ OldAreResolved(h)' /\ HolesEnd(h)'
  BY DEF IInv, HolderOK, BatchOK, GapsHaveHoles, KnownAreThere, OldAreResolved, HolesEnd, Unpurged, Reading
<1>3. OutgrownAreDone(h)' /\ OldGapsAreDone(h)'
  BY <1>1 DEF IInv, HolderOK, OutgrownAreDone, Outgrown, OldGapsAreDone, Passes, Reading
<1> QED
  BY <1>2, <1>3 DEF HolderOK

\* Lapse and Overrun
LEMMA LeaseStep ==
    ASSUME IInv, cursor' = [cursor EXCEPT !.leased = FALSE],
           UNCHANGED <<log, settled, ack, tick, known, old, overtaken>>
    PROVE  IInv'
<1>1. ReplayTypeOK' /\ LogOK'
  BY DEF IInv, ReplayTypeOK, LogOK
<1>2. PositionsOK'
  BY DEF IInv, ReplayTypeOK, PositionsOK, DoneUpTo, Done
<1> QED
  BY <1>1, <1>2, OthersKeep DEF IInv

------------------------------------------------------------------------------
\* The tick of one container.  A step of it that writes nothing but its tick,
\* and the cursor to a position that is safe.
LEMMA TickStep ==
    ASSUME IInv, NEW h \in Holders, NEW state \in TickRecord,
           tick' = [tick EXCEPT ![h] = state], UNCHANGED <<log, known, old>>,
           settled \subseteq settled', settled' \subseteq Ids,
           overtaken \subseteq overtaken', overtaken' \subseteq Ids,
           cursor' \in [pos : 0..MaxId, owner : Holders \union {"none"}, leased : BOOLEAN],
           ack' \in 0..MaxId,
           DoneUpTo(cursor.pos) => DoneUpTo(cursor'.pos),
           DoneUpTo(ack) => DoneUpTo(ack'),
           state.pc # "idle" => DoneUpTo(state.from),
           state.pc # "ack",
           HolderOK(h)'
    PROVE  IInv'
<1>1. tick'[h] = state /\ \A k \in Holders \ {h} : tick'[k] = tick[k]
  BY DEF IInv, ReplayTypeOK
<1>2. ReplayTypeOK' /\ LogOK'
  BY DEF IInv, ReplayTypeOK, LogOK, TickRecord
<1>3. PositionsOK'
  <2>1. \A n : DoneUpTo(n) => \A i \in Ids : i <= n => Done(i)'
    BY DEF DoneUpTo, Done
  <2>2. \A k \in Holders : tick'[k].pc # "idle" => \A i \in Ids : i <= tick'[k].from => Done(i)'
    BY <1>1, <2>1 DEF IInv, PositionsOK
  <2>3. \A k \in Holders : tick'[k].pc = "ack" => \A i \in Ids : i <= tick'[k].at => Done(i)'
    BY <1>1, <2>1 DEF IInv, PositionsOK
  <2> QED
    BY <2>1, <2>2, <2>3 DEF IInv, PositionsOK, DoneUpTo
<1>4. \A k \in Holders : HolderOK(k)'
  <2>1. \A k \in Holders \ {h} : HolderOK(k)'
    BY <1>1, OthersKeep
  <2> QED
    BY <2>1
<1> QED
  BY <1>2, <1>3, <1>4 DEF IInv

\* A tick that ends, wherever it is.
LEMMA IdleStep ==
    ASSUME IInv, NEW h \in Holders, tick' = [tick EXCEPT ![h] = IdleTick],
           UNCHANGED <<log, settled, known, old, cursor, overtaken>>,
           ack' \in 0..MaxId, DoneUpTo(ack) => DoneUpTo(ack')
    PROVE  IInv'
<1>1. IdleTick \in TickRecord /\ IdleTick.pc = "idle" /\ IdleTick.holes = {} /\ IdleTick.batch = {}
  BY ReplayAssumption DEF IdleTick, TickRecord
<1>2. tick'[h] = IdleTick
  BY DEF IInv, ReplayTypeOK
<1>3. HolderOK(h)'
  BY <1>1, <1>2 DEF IInv, HolderOK, BatchOK, GapsHaveHoles, OutgrownAreDone, KnownAreThere,
         OldAreResolved, OldGapsAreDone, HolesEnd, Unpurged, Reading
<1>4. cursor' \in [pos : 0..MaxId, owner : Holders \union {"none"}, leased : BOOLEAN]
      /\ settled' \subseteq Ids /\ overtaken' \subseteq Ids
  BY DEF IInv, ReplayTypeOK
<1> QED
  BY <1>1, <1>3, <1>4, TickStep

\* Abort
LEMMA AbortStep == ASSUME IInv, NEW h \in Holders, Abort(h) PROVE IInv'
  BY IdleStep DEF Abort, IInv, ReplayTypeOK

\* The greater of two safe positions is safe.
LEMMA MaxIsSafe ==
    ASSUME NEW m \in 0..MaxId, NEW n \in 0..MaxId
    PROVE  Max({m, n}) \in 0..MaxId /\ (DoneUpTo(m) /\ DoneUpTo(n) => DoneUpTo(Max({m, n})))
<1>1. {m, n} \in SUBSET (0..MaxId) /\ {m, n} # {} /\ MaxId \in Nat
  BY ReplayAssumption
<1>2. Max({m, n}) \in {m, n}
  BY <1>1, MaxIsGreatest
<1> QED
  BY <1>2

\* Acknowledge: the position of this tick was safe when it was computed.
LEMMA AcknowledgeStep == ASSUME IInv, NEW h \in Holders, Acknowledge(h) PROVE IInv'
<1>1. /\ tick[h].pc = "ack" /\ ack' = Max({ack, tick[h].at}) /\ tick' = [tick EXCEPT ![h] = IdleTick]
      /\ UNCHANGED <<log, settled, cursor, known, old, overtaken>>
  BY DEF Acknowledge
<1>2. DoneUpTo(tick[h].at) /\ tick[h].at \in 0..MaxId /\ ack \in 0..MaxId
  BY <1>1 DEF IInv, PositionsOK, ReplayTypeOK
<1>3. ack' \in 0..MaxId /\ (DoneUpTo(ack) => DoneUpTo(ack'))
  BY <1>1, <1>2, MaxIsSafe
<1> QED
  BY <1>1, <1>3, IdleStep

\* Claim starts at the durable position.
LEMMA ClaimStep == ASSUME IInv, NEW h \in Holders, Claim(h) PROVE IInv'
<1> DEFINE state == [IdleTick EXCEPT !.pc = "query", !.from = cursor.pos, !.at = cursor.pos]
<1>1. /\ state \in TickRecord /\ state.pc = "query" /\ state.from = cursor.pos /\ state.at = cursor.pos
      /\ state.batch = {} /\ state.holes = {}
  BY DEF IInv, ReplayTypeOK, IdleTick, TickRecord
<1>2. tick' = [tick EXCEPT ![h] = state] /\ UNCHANGED <<log, settled, ack, known, old, overtaken>>
  BY DEF Claim
<1>3. /\ cursor' \in [pos : 0..MaxId, owner : Holders \union {"none"}, leased : BOOLEAN]
      /\ cursor'.pos = cursor.pos
  BY DEF Claim, IInv, ReplayTypeOK
<1> HIDE DEF state
<1>4. tick'[h] = state /\ cursor.pos \in Nat
  BY <1>2 DEF IInv, ReplayTypeOK
<1>5. HolderOK(h)'
  BY <1>1, <1>2, <1>4 DEF IInv, HolderOK, BatchOK, GapsHaveHoles, OutgrownAreDone, KnownAreThere,
         OldAreResolved, OldGapsAreDone, HolesEnd, Unpurged, Reading, Ids
<1> QED
  BY <1>1, <1>2, <1>3, <1>5, TickStep DEF IInv, ReplayTypeOK, PositionsOK

\* Query: what is known of the log then holds for the batch.
LEMMA QueryStep == ASSUME IInv, NEW h \in Holders, Query(h) PROVE IInv'
<1> DEFINE B == BatchAfter(tick[h].from)
           state == [tick[h] EXCEPT !.pc = "dispatch", !.batch = B]
<1>1. /\ tick[h].pc = "query" /\ tick[h] \in TickRecord /\ tick[h].from \in Nat /\ tick[h].at = tick[h].from
      /\ UNCHANGED <<log, settled, cursor, ack, known, old>>
      /\ overtaken' = overtaken \union {i \in Ids : log[i] = "open" /\ Outgrown(h, i, B)}
  BY DEF Query, IInv, ReplayTypeOK, TickRecord, HolderOK, BatchOK
<1>2. /\ B \subseteq Ids
      /\ \A i \in B : tick[h].from < i /\ log[i] = "there"
      /\ \A i \in B : \A j \in Ids : tick[h].from < j /\ j < i /\ log[j] = "there" => j \in B
  BY <1>1, BatchIsClosed
<1> HIDE DEF B
<1>3. /\ state \in TickRecord /\ state.pc = "dispatch" /\ state.from = tick[h].from
      /\ state.at = tick[h].at /\ state.batch = B /\ state.holes = tick[h].holes
  BY <1>1, <1>2 DEF TickRecord
<1>4. tick' = [tick EXCEPT ![h] = state] /\ tick'[h] = state
  BY DEF Query, IInv, ReplayTypeOK, B
<1> HIDE DEF state
<1>o. overtaken \subseteq overtaken' /\ overtaken' \subseteq Ids
  BY <1>1 DEF IInv, ReplayTypeOK
<1>p. \A i \in Ids : tick[h].from < i /\ i \notin B /\ (\E j \in B : i < j) =>
            log[i] \in {"open", "void", "purged"}
  <2> SUFFICES ASSUME NEW i \in Ids, tick[h].from < i, i \notin B, NEW j \in B, i < j
               PROVE  log[i] \in {"open", "void", "purged"}
    OBVIOUS
  <2>1. log[i] # "there" /\ log[j] # "none" /\ j \in Ids
    BY <1>2
  <2> QED
    BY <2>1 DEF IInv, LogOK, ReplayTypeOK
<1>b. BatchOK(h)'
  <2>1. ASSUME NEW i \in B, i <= tick[h].from PROVE FALSE
    <3>1. i \in Nat /\ tick[h].from < i
      BY <1>2 DEF Ids
    <3> QED
      BY <1>1, <2>1, <3>1
  <2> QED
    BY <1>1, <1>2, <1>3, <1>4, <2>1 DEF BatchOK, Reading
<1>g. GapsHaveHoles(h)'
  BY <1>1, <1>3, <1>4 DEF IInv, HolderOK, GapsHaveHoles, Reading, Ids
<1>w. OutgrownAreDone(h)'
  <2> SUFFICES ASSUME NEW i \in Ids \ B, Outgrown(h, i, B) PROVE Done(i)'
    BY <1>1, <1>3, <1>4 DEF OutgrownAreDone, Outgrown
  <2>1. (\E j \in B : i < j) /\ \E g \in 1..i : g - 1 \in B \union {tick[h].from}
    BY <1>2, ReplayAssumption DEF Outgrown, Ids
  <2>2. tick[h].from < i
    BY <1>1, <1>2, <2>1 DEF Ids
  <2>3. log[i] \in {"open", "void", "purged"}
    BY <1>p, <2>1, <2>2
  <2> QED
    BY <1>1, <2>3 DEF Done
<1>k. KnownAreThere(h)' /\ OldAreResolved(h)' /\ HolesEnd(h)'
  BY <1>1 DEF IInv, HolderOK, KnownAreThere, OldAreResolved, HolesEnd, Unpurged
<1>v. OldGapsAreDone(h)'
  <2> SUFFICES ASSUME NEW g \in old[h], NEW i \in Ids \ B, i <= known[h][g], tick[h].from < i,
                      \E j \in B : i < j
               PROVE  Done(i)'
    BY <1>1, <1>3, <1>4 DEF OldGapsAreDone, Passes
  <2>1. log[i] \in {"void", "there", "purged"} /\ log[i] \in {"open", "void", "purged"}
    BY <1>p DEF IInv, HolderOK, OldAreResolved
  <2> QED
    BY <1>1, <2>1 DEF Done
<1>5. HolderOK(h)'
  BY <1>b, <1>g, <1>w, <1>k, <1>v DEF HolderOK
<1> QED
  BY <1>1, <1>3, <1>4, <1>5, <1>o, TickStep DEF IInv, ReplayTypeOK, PositionsOK

\* EndBatch, and a dispatch that holds the batch.
LEMMA StopsReading ==
    ASSUME IInv, NEW h \in Holders, tick[h].pc = "dispatch",
           tick' = [tick EXCEPT ![h].pc = "advance"],
           UNCHANGED <<log, settled, cursor, ack, known, old, overtaken>>
    PROVE  IInv'
<1> DEFINE state == [tick[h] EXCEPT !.pc = "advance"]
<1>1. /\ state \in TickRecord /\ state.pc = "advance" /\ state.from = tick[h].from
      /\ state.at = tick[h].at /\ state.batch = tick[h].batch /\ state.holes = tick[h].holes
  BY DEF IInv, ReplayTypeOK, TickRecord
<1>2. tick' = [tick EXCEPT ![h] = state] /\ tick'[h] = state
  BY DEF IInv, ReplayTypeOK
<1> HIDE DEF state
<1>3. HolderOK(h)'
  BY <1>1, <1>2 DEF IInv, HolderOK, BatchOK, GapsHaveHoles, OutgrownAreDone, Outgrown, KnownAreThere,
         OldAreResolved, OldGapsAreDone, HolesEnd, Unpurged, Done, Passes, Reading
<1> QED
  BY <1>1, <1>2, <1>3, TickStep DEF IInv, ReplayTypeOK, PositionsOK

\* A dispatch that settles its event: what it jumps over is the gap behind the
\* hole it remembers.
LEMMA PassesEvent ==
    ASSUME IInv, NEW h \in Holders, tick[h].pc = "dispatch",
           NEW i \in Left(h), \A j \in Left(h) : i <= j,
           settled' = settled \union {i},
           tick' = [tick EXCEPT ![h].at = i, ![h].holes = @ \union ({tick[h].at + 1} \ {i})],
           UNCHANGED <<log, cursor, ack, known, old, overtaken>>
    PROVE  IInv'
<1> DEFINE state == [tick[h] EXCEPT !.at = i, !.holes = @ \union ({tick[h].at + 1} \ {i})]
<1>1. /\ tick[h] \in TickRecord /\ tick[h].at \in Nat /\ tick[h].from \in Nat /\ MaxId \in Nat
      /\ tick[h].from <= tick[h].at
      /\ i \in tick[h].batch /\ i \in Ids /\ tick[h].at < i
      /\ \A j \in tick[h].batch : j \in Nat /\ (j <= tick[h].at \/ i <= j)
  <2>1. /\ tick[h] \in TickRecord /\ tick[h].at \in Nat /\ tick[h].from \in Nat /\ MaxId \in Nat
        /\ tick[h].batch \subseteq Ids /\ Ids \subseteq Nat
    BY ReplayAssumption DEF IInv, ReplayTypeOK, TickRecord, Ids
  <2>2. tick[h].from <= tick[h].at
    BY <2>1 DEF IInv, HolderOK, BatchOK, Reading
  <2>3. i \in tick[h].batch /\ tick[h].at < i
    BY <2>1 DEF Left
  <2>4. \A j \in tick[h].batch : j \in Nat /\ (j <= tick[h].at \/ i <= j)
    BY <2>1 DEF Left
  <2> QED
    BY <2>1, <2>2, <2>3, <2>4
<1>2. /\ state \in TickRecord /\ state.pc = "dispatch" /\ state.from = tick[h].from
      /\ state.at = i /\ state.batch = tick[h].batch
      /\ state.holes = tick[h].holes \union ({tick[h].at + 1} \ {i})
  <2> DEFINE holes == tick[h].holes \union ({tick[h].at + 1} \ {i})
  <2>1. {tick[h].at + 1} \ {i} \subseteq Ids
    BY <1>1 DEF Ids
  <2>2. holes \in SUBSET Ids /\ i \in 0..MaxId
    BY <1>1, <2>1 DEF TickRecord, Ids
  <2>3. state = [tick[h] EXCEPT !.at = i, !.holes = holes]
    OBVIOUS
  <2> HIDE DEF state, holes
  <2>4. /\ state \in TickRecord /\ state.pc = "dispatch" /\ state.from = tick[h].from
        /\ state.at = i /\ state.batch = tick[h].batch /\ state.holes = holes
    BY <1>1, <2>2, <2>3 DEF TickRecord
  <2> QED
    BY <2>4 DEF holes
<1>3. tick' = [tick EXCEPT ![h] = state] /\ tick'[h] = state
  BY DEF IInv, ReplayTypeOK
<1> HIDE DEF state
<1>b. BatchOK(h)'
  <2>1. \A j \in tick[h].batch : /\ log[j] \in {"there", "purged"} /\ tick[h].from < j
                                  /\ (j <= tick[h].at => j \in settled)
    BY DEF IInv, HolderOK, BatchOK, Reading
  <2>2. ASSUME NEW j \in tick[h].batch, j <= i PROVE j \in settled'
    <3>1. CASE j <= tick[h].at
      BY <2>1, <3>1
    <3>2. CASE i <= j
      BY <1>1, <2>2, <3>2 DEF Ids
    <3> QED
      BY <1>1, <3>1, <3>2
  <2> QED
    BY <1>1, <1>2, <1>3, <2>1, <2>2 DEF BatchOK, Reading
<1>g. GapsHaveHoles(h)'
  <2>1. \A g \in state.holes : /\ tick[h].from < g /\ g < i
                               /\ g - 1 \in tick[h].batch \union {tick[h].from}
    <3>1. \A g \in tick[h].holes : /\ tick[h].from < g /\ g < tick[h].at
                                   /\ g - 1 \in tick[h].batch \union {tick[h].from}
      BY DEF IInv, HolderOK, GapsHaveHoles
    <3>2. tick[h].at \in tick[h].batch \union {tick[h].from} /\ (tick[h].at + 1) - 1 = tick[h].at
      BY <1>1 DEF IInv, HolderOK, BatchOK, Reading
    <3>3. \A g \in tick[h].holes : g \in Nat
      BY <1>1 DEF TickRecord, Ids
    <3> QED
      BY <1>1, <1>2, <3>1, <3>2, <3>3
  <2>2. ASSUME NEW k \in Ids \ tick[h].batch, tick[h].from < k, k <= i
        PROVE  \E g \in state.holes : g <= k /\ \A j \in tick[h].batch : ~(g <= j /\ j <= k)
    <3>1. CASE k <= tick[h].at
      BY <1>1, <1>2, <2>2, <3>1 DEF IInv, HolderOK, GapsHaveHoles
    <3>2. CASE tick[h].at < k
      <4>1. k \in Nat /\ tick[h].at + 1 <= k /\ k < i /\ tick[h].at + 1 # i
        BY <1>1, <2>2, <3>2 DEF Ids
      <4>2. tick[h].at + 1 \in state.holes
        BY <1>2, <4>1
      <4>3. \A j \in tick[h].batch : ~(tick[h].at + 1 <= j /\ j <= k)
        BY <1>1, <4>1
      <4> QED
        BY <4>1, <4>2, <4>3
    <3> QED
      BY <1>1, <2>2, <3>1, <3>2 DEF Ids
  <2> QED
    BY <1>2, <1>3, <2>1, <2>2 DEF GapsHaveHoles, Reading
<1>k. KnownAreThere(h)' /\ OldAreResolved(h)' /\ HolesEnd(h)'
  BY DEF IInv, HolderOK, KnownAreThere, OldAreResolved, HolesEnd, Unpurged
<1>v. OutgrownAreDone(h)' /\ OldGapsAreDone(h)'
  BY <1>2, <1>3 DEF IInv, HolderOK, OutgrownAreDone, Outgrown, OldGapsAreDone, Done, Passes, Reading
<1>4. HolderOK(h)'
  BY <1>b, <1>g, <1>k, <1>v DEF HolderOK
<1> QED
  BY <1>1, <1>2, <1>3, <1>4, TickStep DEF IInv, ReplayTypeOK, PositionsOK

\* Dispatch
LEMMA DispatchStep == ASSUME IInv, NEW h \in Holders, Dispatch(h) PROVE IInv'
<1> DEFINE i == Min(Left(h))
<1>1. /\ tick[h].pc = "dispatch" /\ Left(h) # {}
      /\ UNCHANGED <<log, cursor, ack, known, old, overtaken>>
  BY DEF Dispatch
<1>2. Left(h) \in SUBSET Nat
  BY ReplayAssumption DEF Left, IInv, ReplayTypeOK, Ids
<1>3. i \in Left(h) /\ \A j \in Left(h) : i <= j
  BY <1>1, <1>2, MinIsLeast
<1>4. \/ /\ settled' = settled \union {i}
         /\ tick' = [tick EXCEPT ![h].at = i, ![h].holes = @ \union ({tick[h].at + 1} \ {i})]
      \/ tick' = [tick EXCEPT ![h].pc = "advance"] /\ UNCHANGED settled
  BY DEF Dispatch, HeldBelow
<1> HIDE DEF i
<1> QED
  BY <1>1, <1>3, <1>4, PassesEvent, StopsReading

\* EndBatch
LEMMA EndBatchStep == ASSUME IInv, NEW h \in Holders, EndBatch(h) PROVE IInv'
  BY StopsReading DEF EndBatch

------------------------------------------------------------------------------
\* The position a tick persists is safe: below it are no holes but old ones,
\* and the gaps behind those are done.
LEMMA PositionIsSafe ==
    ASSUME IInv, NEW h \in Holders, tick[h].pc = "advance"
    PROVE  GapSafePosition(h) \in 0..MaxId /\ DoneUpTo(GapSafePosition(h))
<1> DEFINE young == tick[h].holes \ old[h]
           position == GapSafePosition(h)
<1>1. /\ tick[h].at \in 0..MaxId /\ tick[h].from \in 0..MaxId /\ MaxId \in Nat
      /\ young \subseteq Ids /\ young \in SUBSET Nat /\ Reading(h)
      /\ tick[h].batch \subseteq Ids
      /\ \A g \in tick[h].holes : tick[h].from < g /\ g < tick[h].at
  <2>1. tick[h] \in TickRecord /\ Reading(h) /\ MaxId \in Nat
    BY ReplayAssumption DEF IInv, ReplayTypeOK, TickRecord, Reading
  <2>2. /\ tick[h].at \in 0..MaxId /\ tick[h].from \in 0..MaxId /\ tick[h].batch \subseteq Ids
        /\ tick[h].holes \subseteq Ids
    BY <2>1 DEF TickRecord
  <2>3. \A g \in tick[h].holes : tick[h].from < g /\ g < tick[h].at
    BY DEF IInv, HolderOK, GapsHaveHoles
  <2>4. Ids \in SUBSET Nat
    BY <2>1 DEF Ids
  <2> QED
    BY <2>1, <2>2, <2>3, <2>4
<1>2. /\ position \in 0..MaxId /\ position <= tick[h].at
      /\ \A g \in young : position < g
  <2>1. CASE young = {}
    BY <1>1, <2>1 DEF GapSafePosition
  <2>2. CASE young # {}
    <3>1. Min(young) \in young /\ \A g \in young : Min(young) <= g
      BY <1>1, <2>2, MinIsLeast
    <3>2. position = Min(young) - 1
      BY <2>2 DEF GapSafePosition
    <3>3. Min(young) \in Nat /\ 0 < Min(young) /\ Min(young) < tick[h].at
      BY <1>1, <3>1 DEF Ids
    <3> HIDE DEF young, position
    <3> QED
      BY <1>1, <3>1, <3>2, <3>3
  <2> QED
    BY <2>1, <2>2
<1> HIDE DEF position
<1>3. ASSUME NEW i \in Ids, i <= position, tick[h].from < i, i \notin tick[h].batch
      PROVE  Done(i)
  <2>1. i \in Nat /\ i <= tick[h].at /\ position \in Nat /\ tick[h].at \in Nat
    BY <1>1, <1>2, <1>3 DEF Ids
  <2>2. PICK g \in tick[h].holes : g <= i /\ \A j \in tick[h].batch : ~(g <= j /\ j <= i)
    BY <1>1, <1>3, <2>1 DEF IInv, HolderOK, GapsHaveHoles, Reading
  <2>3. g \in old[h] /\ g \in Ids /\ g \in Nat /\ tick[h].from < g
    <3>1. g \in Ids /\ tick[h].from < g
      BY <1>1 DEF IInv, ReplayTypeOK
    <3>2. g \in Nat /\ ~(position < g)
      BY <1>3, <2>1, <2>2, <3>1 DEF Ids
    <3>3. g \notin young
      BY <1>2, <3>2
    <3> QED
      BY <3>1, <3>2, <3>3
  <2>4. tick[h].at \in tick[h].batch /\ i < tick[h].at
    BY <1>1, <1>3, <2>1 DEF IInv, HolderOK, BatchOK
  <2>5. known[h][g] > 0 /\ known[h][g] \in Nat
    BY <2>3, ReplayAssumption DEF IInv, ReplayTypeOK, Ids
  <2>6. CASE i <= known[h][g]
    BY <1>1, <1>3, <2>3, <2>4, <2>6 DEF IInv, HolderOK, OldGapsAreDone, Passes
  <2>7. CASE ~(i <= known[h][g])
    <3>1. known[h][g] \in 1..(i - 1) /\ g \in 1..i
      BY <2>1, <2>2, <2>3, <2>5, <2>7 DEF Ids
    <3>2. g - 1 \in tick[h].batch \union {tick[h].from}
      BY <1>1 DEF IInv, HolderOK, GapsHaveHoles, Reading
    <3>3. Outgrown(h, i, tick[h].batch)
      BY <1>1, <2>1, <2>2, <2>4, <3>1, <3>2 DEF Outgrown
    <3> QED
      BY <1>1, <1>3, <3>3 DEF IInv, HolderOK, OutgrownAreDone
  <2> QED
    BY <2>6, <2>7
<1>4. ASSUME NEW i \in Ids, i <= position PROVE Done(i)
  <2>1. CASE i <= tick[h].from
    BY <1>1, <2>1 DEF IInv, PositionsOK, DoneUpTo, Reading
  <2>2. CASE tick[h].from < i /\ i \in tick[h].batch
    BY <1>1, <1>2, <1>4, <2>2 DEF IInv, HolderOK, BatchOK, Done, Ids
  <2>3. CASE tick[h].from < i /\ i \notin tick[h].batch
    BY <1>3, <1>4, <2>3
  <2> QED
    BY <1>1, <2>1, <2>2, <2>3 DEF Ids
<1> QED
  BY <1>2, <1>4 DEF DoneUpTo, position

\* What a step changes of what one container remembers.
LEMMA MemoryStep ==
    ASSUME IInv, NEW h \in Holders, NEW state \in TickRecord,
           tick' = [tick EXCEPT ![h] = state], UNCHANGED <<log, settled, ack>>,
           overtaken \subseteq overtaken', overtaken' \subseteq Ids,
           NEW memory \in [Ids -> 0..MaxId], NEW aged \in SUBSET {i \in Ids : memory[i] > 0},
           known' = [known EXCEPT ![h] = memory], old' = [old EXCEPT ![h] = aged],
           cursor' \in [pos : 0..MaxId, owner : Holders \union {"none"}, leased : BOOLEAN],
           DoneUpTo(cursor.pos) => DoneUpTo(cursor'.pos),
           state.pc # "idle" => DoneUpTo(state.from),
           state.pc = "ack" => DoneUpTo(state.at),
           HolderOK(h)'
    PROVE  IInv'
<1>1. /\ tick'[h] = state /\ known'[h] = memory /\ old'[h] = aged
      /\ \A k \in Holders \ {h} : tick'[k] = tick[k] /\ known'[k] = known[k] /\ old'[k] = old[k]
  BY DEF IInv, ReplayTypeOK
<1>2. ReplayTypeOK'
  <2>1. /\ known' \in [Holders -> [Ids -> 0..MaxId]] /\ old' \in [Holders -> SUBSET Ids]
        /\ \A k \in Holders : \A i \in old'[k] : known'[k][i] > 0
    BY <1>1 DEF IInv, ReplayTypeOK
  <2>2. tick' \in [Holders -> TickRecord]
    BY DEF IInv, ReplayTypeOK, TickRecord
  <2> QED
    BY <2>1, <2>2 DEF IInv, ReplayTypeOK, TickRecord
<1>3. LogOK'
  BY DEF IInv, LogOK
<1>4. PositionsOK'
  <2>1. \A n : DoneUpTo(n) => DoneUpTo(n)'
    BY DEF DoneUpTo, Done
  <2>2. \A k \in Holders : /\ tick'[k].pc # "idle" => DoneUpTo(tick'[k].from)
                           /\ tick'[k].pc = "ack" => DoneUpTo(tick'[k].at)
    BY <1>1 DEF IInv, PositionsOK
  <2>3. DoneUpTo(cursor'.pos) /\ DoneUpTo(ack')
    BY DEF IInv, PositionsOK
  <2> QED
    BY <2>2, <2>3 DEF PositionsOK, DoneUpTo, Done
<1>5. \A k \in Holders : HolderOK(k)'
  <2>1. \A k \in Holders \ {h} : HolderOK(k)'
    BY <1>1, OthersKeep
  <2> QED
    BY <2>1
<1> QED
  BY <1>2, <1>3, <1>4, <1>5 DEF IInv

\* The last thing a tick has to do.
LEMMA AckTick ==
    ASSUME NEW n \in 0..MaxId, NEW state, state = [IdleTick EXCEPT !.pc = "ack", !.at = n]
    PROVE  state \in TickRecord /\ state.pc = "ack" /\ state.from = 0 /\ state.at = n /\ state.batch = {}
<1>1. IdleTick \in TickRecord /\ IdleTick.from = 0 /\ IdleTick.batch = {}
  BY ReplayAssumption DEF IdleTick, TickRecord
<1> QED
  BY <1>1 DEF TickRecord

\* Advance: a hole that is met for the first time has the end of the batch
\* behind it.
LEMMA AdvanceStep == ASSUME IInv, NEW h \in Holders, Advance(h) PROVE IInv'
<1> DEFINE position == GapSafePosition(h)
           memory == [i \in Ids |-> IF i \notin tick[h].holes THEN 0
                                    ELSE IF known[h][i] = 0 THEN LastId ELSE known[h][i]]
           aged == old[h] \intersect tick[h].holes
           ends == [IdleTick EXCEPT !.pc = "ack", !.at = position]
<1>1. /\ tick[h].pc = "advance" /\ UNCHANGED <<log, settled, ack, overtaken>>
      /\ known' = [known EXCEPT ![h] = memory] /\ old' = [old EXCEPT ![h] = aged]
      /\ \/ tick' = [tick EXCEPT ![h] = ends] /\ AdvanceTo(h, position)
         \/ tick' = [tick EXCEPT ![h] = IdleTick] /\ UNCHANGED cursor
  BY DEF Advance, StillOld
<1>2. position \in 0..MaxId /\ DoneUpTo(position) /\ 0 \in 0..MaxId
  BY <1>1, PositionIsSafe, ReplayAssumption
<1> HIDE DEF position
<1>3. LastId \in 0..MaxId /\ \A i \in Ids : log[i] # "none" <=> i <= LastId
  BY LastIdIsLast DEF IInv
<1>4. /\ memory \in [Ids -> 0..MaxId]
      /\ \A i \in Ids : memory[i] = IF i \notin tick[h].holes THEN 0
                                    ELSE IF known[h][i] = 0 THEN LastId ELSE known[h][i]
  BY <1>2, <1>3 DEF IInv, ReplayTypeOK
<1>5. aged \in SUBSET {i \in Ids : memory[i] > 0} /\ \A g \in aged : g \in old[h] /\ memory[g] = known[h][g]
  BY <1>4, <1>3 DEF IInv, ReplayTypeOK
<1> HIDE DEF memory, aged
<1>6. /\ ends \in TickRecord /\ ends.pc = "ack" /\ ends.from = 0 /\ ends.at = position
      /\ IdleTick \in TickRecord /\ IdleTick.pc = "idle" /\ DoneUpTo(0)
      /\ ends.batch = {} /\ IdleTick.batch = {}
  <2>2. ends \in TickRecord /\ ends.pc = "ack" /\ ends.from = 0 /\ ends.at = position /\ ends.batch = {}
    BY <1>2, AckTick
  <2>3. IdleTick \in TickRecord /\ IdleTick.pc = "idle" /\ IdleTick.batch = {}
    BY <1>2 DEF IdleTick, TickRecord
  <2>4. DoneUpTo(0)
    BY ReplayAssumption DEF DoneUpTo, Ids
  <2> QED
    BY <2>2, <2>3, <2>4
<1> HIDE DEF ends
<1>7. known'[h] = memory /\ old'[h] = aged
  BY <1>1 DEF IInv, ReplayTypeOK
<1>8. PICK state \in {ends, IdleTick} : tick' = [tick EXCEPT ![h] = state] /\ tick'[h] = state
  BY <1>1 DEF IInv, ReplayTypeOK
<1>e. HolesEnd(h)'
  <2> SUFFICES ASSUME Unpurged, NEW g \in Ids, memory[g] > 0
               PROVE  \E e \in Ids : g < e /\ e <= memory[g] /\ log[e] = "there"
    BY <1>1, <1>7 DEF HolesEnd, Unpurged
  <2>1. g \in tick[h].holes
    BY <1>4
  <2>2. CASE known[h][g] = 0
    <3>1. tick[h].from < g /\ g < tick[h].at /\ g \in Nat
      BY <1>1, <2>1 DEF IInv, HolderOK, GapsHaveHoles, Ids
    <3>2. tick[h].from \in Nat /\ tick[h].at \in Nat /\ tick[h].batch \subseteq Ids
      BY ReplayAssumption DEF IInv, ReplayTypeOK
    <3>3. tick[h].at \in tick[h].batch /\ log[tick[h].at] = "there"
      BY <1>1, <3>1, <3>2 DEF IInv, HolderOK, BatchOK, Reading, Unpurged
    <3> QED
      BY <1>3, <1>4, <2>1, <2>2, <3>1, <3>2, <3>3
  <2>3. CASE known[h][g] # 0
    <3>1. known[h][g] > 0 /\ memory[g] = known[h][g]
      BY <1>4, <2>1, <2>3 DEF IInv, ReplayTypeOK
    <3> QED
      BY <3>1 DEF IInv, HolderOK, HolesEnd
  <2> QED
    BY <2>2, <2>3
<1>k. KnownAreThere(h)'
  <2> SUFFICES ASSUME NEW g \in Ids, NEW j \in Ids, j <= memory[g] PROVE log[j] # "none"
    BY <1>1, <1>7 DEF KnownAreThere
  <2>1. j \in Nat /\ 0 < j
    BY DEF Ids
  <2> QED
    BY <1>3, <1>4, <2>1 DEF IInv, HolderOK, KnownAreThere
<1>o. OldAreResolved(h)'
  BY <1>1, <1>5, <1>7 DEF IInv, HolderOK, OldAreResolved
<1>9. HolderOK(h)'
  BY <1>6, <1>8, <1>e, <1>k, <1>o DEF HolderOK, BatchOK, GapsHaveHoles, OutgrownAreDone, OldGapsAreDone, Reading
<1>10. /\ cursor' \in [pos : 0..MaxId, owner : Holders \union {"none"}, leased : BOOLEAN]
       /\ DoneUpTo(cursor.pos) => DoneUpTo(cursor'.pos)
  <2>1. CASE UNCHANGED cursor
    BY <2>1 DEF IInv, ReplayTypeOK
  <2>2. CASE cursor' = [cursor EXCEPT !.pos = Max({@, position})]
    <3>1. cursor.pos \in 0..MaxId
      BY DEF IInv, ReplayTypeOK
    <3>2. /\ Max({cursor.pos, position}) \in 0..MaxId
          /\ DoneUpTo(cursor.pos) => DoneUpTo(Max({cursor.pos, position}))
      BY <1>2, <3>1, MaxIsSafe
    <3>3. cursor'.pos = Max({cursor.pos, position})
      BY <2>2 DEF IInv, ReplayTypeOK
    <3> QED
      BY <2>2, <3>2, <3>3 DEF IInv, ReplayTypeOK
  <2> QED
    BY <1>1, <2>1, <2>2 DEF AdvanceTo
<1>11. state \in TickRecord /\ (state.pc # "idle" => DoneUpTo(state.from)) /\ (state.pc = "ack" => DoneUpTo(state.at))
  BY <1>2, <1>6, <1>8
<1> QED
  BY <1>1, <1>4, <1>5, <1>8, <1>9, <1>10, <1>11, MemoryStep DEF IInv, ReplayTypeOK

------------------------------------------------------------------------------
\* GraceEnds: the ids behind the hole are resolved, and what the tick did not
\* read of them was not there, or is overtaken.
LEMMA GraceEndsStep ==
    ASSUME IInv, NEW h \in Holders, NEW g \in Ids, GraceEnds(h, g)
    PROVE  IInv'
<1>1. /\ known[h][g] > 0
      /\ \A j \in 1..known[h][g] : log[j] # "open"
      /\ old' = [old EXCEPT ![h] = @ \union {g}]
      /\ overtaken' = overtaken \union {j \in 1..known[h][g] : Missed(h, j)}
      /\ UNCHANGED <<log, settled, cursor, ack, tick, known, faults>>
  BY DEF GraceEnds
<1>2. /\ old[h] \union {g} \in SUBSET {i \in Ids : known[h][i] > 0}
      /\ known[h] \in [Ids -> 0..MaxId] /\ tick[h] \in TickRecord
      /\ old' = [old EXCEPT ![h] = old[h] \union {g}]
      /\ tick' = [tick EXCEPT ![h] = tick[h]] /\ known' = [known EXCEPT ![h] = known[h]]
  BY <1>1 DEF IInv, ReplayTypeOK, TickRecord
<1>3. old'[h] = old[h] \union {g}
  BY <1>1 DEF IInv, ReplayTypeOK
<1>o. overtaken \subseteq overtaken' /\ overtaken' \subseteq Ids
  <2>1. 1..known[h][g] \subseteq Ids
    BY <1>2, ReplayAssumption DEF Ids
  <2> QED
    BY <1>1, <2>1 DEF IInv, ReplayTypeOK
<1>p. \A i \in Ids : Done(i) => Done(i)'
  BY <1>1, <1>o DEF Done
<1>4. \A j \in Ids : j <= known[h][g] => log[j] \in {"void", "there", "purged"} /\ (Missed(h, j) => Done(j)')
  <2> SUFFICES ASSUME NEW j \in Ids, j <= known[h][g]
               PROVE  log[j] \in {"void", "there", "purged"} /\ (Missed(h, j) => Done(j)')
    OBVIOUS
  <2>1. j \in 1..known[h][g]
    BY <1>2, ReplayAssumption DEF Ids
  <2>2. log[j] # "none" /\ log[j] \in {"none", "open", "there", "void", "purged"}
    BY DEF IInv, ReplayTypeOK, HolderOK, KnownAreThere
  <2> QED
    BY <1>1, <2>1, <2>2 DEF Done
<1>5. OldAreResolved(h)'
  BY <1>1, <1>3, <1>4 DEF IInv, HolderOK, OldAreResolved
<1>6. OldGapsAreDone(h)'
  <2> SUFFICES ASSUME Reading(h), NEW f \in old[h] \union {g}, NEW i \in Ids \ tick[h].batch,
                      i <= known[h][f], tick[h].from < i, Passes(h, i)
               PROVE  Done(i)'
    BY <1>1, <1>3 DEF OldGapsAreDone, Passes, Reading
  <2>1. CASE f \in old[h]
    BY <1>p, <2>1 DEF IInv, HolderOK, OldGapsAreDone
  <2>2. CASE f = g
    <3>1. i \in Nat /\ tick[h].from \in Nat /\ tick[h].batch \subseteq Nat
      BY <1>2, ReplayAssumption DEF TickRecord, Ids
    <3>2. log[i] = "there" /\ i \notin settled => Missed(h, i)
      BY <3>1 DEF Missed, Passes
    <3>3. log[i] \in {"void", "there", "purged"} /\ (Missed(h, i) => Done(i)')
      BY <1>4, <2>2
    <3> QED
      BY <1>1, <3>2, <3>3 DEF Done
  <2> QED
    BY <2>1, <2>2
<1>7. BatchOK(h)' /\ GapsHaveHoles(h)' /\ OutgrownAreDone(h)' /\ KnownAreThere(h)' /\ HolesEnd(h)'
  BY <1>1, <1>p DEF IInv, HolderOK, BatchOK, GapsHaveHoles, OutgrownAreDone, Outgrown, KnownAreThere,
                    HolesEnd, Unpurged, Reading
<1>8. HolderOK(h)'
  BY <1>5, <1>6, <1>7 DEF HolderOK
<1>9. /\ cursor' \in [pos : 0..MaxId, owner : Holders \union {"none"}, leased : BOOLEAN]
      /\ DoneUpTo(cursor.pos) => DoneUpTo(cursor'.pos)
      /\ tick[h].pc # "idle" => DoneUpTo(tick[h].from)
      /\ tick[h].pc = "ack" => DoneUpTo(tick[h].at)
  BY <1>1 DEF IInv, ReplayTypeOK, PositionsOK
<1> DEFINE state == tick[h]
           memory == known[h]
           aged == old[h] \union {g}
<1>10. /\ state \in TickRecord /\ memory \in [Ids -> 0..MaxId] /\ aged \in SUBSET {i \in Ids : memory[i] > 0}
       /\ tick' = [tick EXCEPT ![h] = state] /\ known' = [known EXCEPT ![h] = memory]
       /\ old' = [old EXCEPT ![h] = aged] /\ UNCHANGED <<log, settled, ack>>
       /\ state.pc # "idle" => DoneUpTo(state.from)
       /\ state.pc = "ack" => DoneUpTo(state.at)
  BY <1>1, <1>2, <1>9
<1> HIDE DEF state, memory, aged
<1> QED
  BY <1>8, <1>9, <1>10, <1>o, MemoryStep

\* Crash: a container that knows of no hole takes over.
LEMMA CrashStep == ASSUME IInv, NEW h \in Holders, Crash(h) PROVE IInv'
<1> DEFINE memory == [i \in Ids |-> 0]
<1>1. /\ IdleTick \in TickRecord /\ IdleTick.pc = "idle" /\ IdleTick.batch = {}
      /\ memory \in [Ids -> 0..MaxId] /\ {} \in SUBSET {i \in Ids : memory[i] > 0}
      /\ \A i \in Ids : memory[i] = 0
  BY ReplayAssumption DEF IdleTick, TickRecord
<1>2. /\ tick' = [tick EXCEPT ![h] = IdleTick] /\ known' = [known EXCEPT ![h] = memory]
      /\ old' = [old EXCEPT ![h] = {}] /\ UNCHANGED <<log, settled, ack, overtaken>>
  BY DEF Crash
<1>3. /\ cursor' \in [pos : 0..MaxId, owner : Holders \union {"none"}, leased : BOOLEAN]
      /\ cursor'.pos = cursor.pos
  BY DEF Crash, IInv, ReplayTypeOK
<1> HIDE DEF memory
<1>4. tick'[h] = IdleTick /\ known'[h] = memory /\ old'[h] = {}
  BY <1>2 DEF IInv, ReplayTypeOK
<1>5. \A j \in Ids : ~(j <= 0)
  BY DEF Ids
<1>6. HolderOK(h)'
  BY <1>1, <1>4, <1>5 DEF HolderOK, BatchOK, GapsHaveHoles, OutgrownAreDone, KnownAreThere,
                          OldAreResolved, OldGapsAreDone, HolesEnd, Reading
<1> QED
  BY <1>1, <1>2, <1>3, <1>6, MemoryStep DEF IInv, ReplayTypeOK

\* Every step keeps the invariant.
LEMMA NextHolds == ASSUME IInv, [Next]_vars PROVE IInv'
<1>1. ASSUME NEW h \in Holders, Tick(h) PROVE IInv'
  BY <1>1, ClaimStep, QueryStep, DispatchStep, EndBatchStep, AdvanceStep, AcknowledgeStep DEF Tick
<1>2. ASSUME NEW h \in Holders, Overrun(h) PROVE IInv'
  BY <1>2, LeaseStep DEF Overrun
<1>3. ASSUME NEW h \in Holders, Abort(h) PROVE IInv'
  BY <1>3, AbortStep
<1>4. ASSUME NEW h \in Holders, Crash(h) PROVE IInv'
  BY <1>4, CrashStep
<1>5. ASSUME NEW h \in Holders, NEW i \in Ids, GraceEnds(h, i) PROVE IInv'
  BY <1>5, GraceEndsStep
<1>6. ASSUME NEW i \in Ids, Append(i) \/ Resolve(i) PROVE IInv'
  BY <1>6, AppendStep, ResolveStep
<1>7. ASSUME NEW i \in Ids, Purge(i) PROVE IInv'
  BY <1>7, PurgeStep
<1>8. CASE Lapse
  BY <1>8, LeaseStep DEF Lapse
<1>9. CASE UNCHANGED vars
  <2>1. ReplayTypeOK' /\ LogOK' /\ PositionsOK'
    BY <1>9 DEF vars, IInv, ReplayTypeOK, LogOK, PositionsOK, DoneUpTo, Done
  <2>2. \A h \in Holders : HolderOK(h)'
    BY <1>9, OthersKeep DEF vars
  <2> QED
    BY <2>1, <2>2 DEF IInv
<1> QED
  BY <1>1, <1>2, <1>3, <1>4, <1>5, <1>6, <1>7, <1>8, <1>9 DEF Next

------------------------------------------------------------------------------
\* What each container remembers of the holes makes its own position safe, in
\* every reachable state, whatever is purged and however long its ticks last.
THEOREM ReplayInvariance == Spec => []IInv
<1>1. Init => IInv
  BY InitHolds
<1>2. IInv /\ [Next]_vars => IInv'
  BY NextHolds
<1> QED
  BY <1>1, <1>2, PTL DEF Spec

\* The state of the replay keeps its types.
THEOREM ReplayIsTyped == Spec => []ReplayTypeOK
<1>1. IInv => ReplayTypeOK
  BY DEF IInv
<1> QED
  BY <1>1, ReplayInvariance, PTL

\* Neither the durable position nor the log's own replay cursor is ever at or
\* above an event that still has to be delivered, or an id whose append has
\* not been resolved, however many containers share the cursor and whichever
\* of them write after they have lost their lease, but for an event a tick has
\* overtaken: one committed after that tick read the log, in a gap whose grace
\* it outlasts, or one in a gap that has outgrown what its hole stands for.
THEOREM NothingIsSkipped == Spec => []NoEventIsSkipped
<1>1. ASSUME IInv PROVE NoEventIsSkipped
  <2> SUFFICES ASSUME NEW i \in Ids \ overtaken, Owed(i) PROVE cursor.pos < i /\ ack < i
    BY DEF NoEventIsSkipped
  <2>1. cursor.pos \in Nat /\ ack \in Nat /\ i \in Nat
    BY <1>1, ReplayAssumption DEF IInv, ReplayTypeOK, Ids
  <2>2. ~Done(i)
    BY DEF Owed, Done
  <2>3. ~(i <= cursor.pos) /\ ~(i <= ack)
    BY <1>1, <2>2 DEF IInv, PositionsOK, DoneUpTo
  <2> QED
    BY <2>1, <2>3
<1> QED
  BY <1>1, ReplayInvariance, PTL

\* A tick that reads the log with nothing purged.
LEMMA UnpurgedQuery ==
    ASSUME IInv, Unpurged, NEW h \in Holders, Query(h) PROVE overtaken' = overtaken
<1> DEFINE B == BatchAfter(tick[h].from)
<1>1. /\ tick[h].from \in Nat
      /\ overtaken' = overtaken \union {i \in Ids : log[i] = "open" /\ Outgrown(h, i, B)}
  BY DEF Query, IInv, ReplayTypeOK
<1>2. /\ B \subseteq Ids
      /\ \A i \in B : tick[h].from < i /\ log[i] = "there"
      /\ \A i \in B : \A j \in Ids : tick[h].from < j /\ j < i /\ log[j] = "there" => j \in B
  BY <1>1, BatchIsClosed
<1> HIDE DEF B
<1>3. ASSUME NEW i \in Ids, Outgrown(h, i, B) PROVE FALSE
  <2>1. PICK g \in 1..i, b \in B :
            /\ i < b /\ g - 1 \in B \union {tick[h].from}
            /\ known[h][g] \in 1..(i - 1)
            /\ \A c \in B : ~(g <= c /\ c <= i)
    BY <1>2, <1>3, ReplayAssumption DEF Outgrown, Ids
  <2>2. g \in Ids /\ i \in Nat /\ b \in Nat /\ g \in Nat
    BY <1>2, ReplayAssumption DEF Ids
  <2>3. PICK e \in Ids : g < e /\ e <= known[h][g] /\ log[e] = "there"
    BY <2>1, <2>2 DEF IInv, HolderOK, HolesEnd
  <2>4. tick[h].from < g
    BY <1>1, <1>2, <2>1, <2>2 DEF Ids
  <2>5. e \in Nat /\ tick[h].from < e /\ e < b /\ g <= e /\ e <= i
    BY <1>1, <2>1, <2>2, <2>3, <2>4 DEF Ids
  <2>6. e \in B
    BY <1>2, <2>3, <2>5
  <2> QED
    BY <2>1, <2>5, <2>6
<1> QED
  BY <1>1, <1>3

\* A gap outgrows what its hole stands for through purges alone: while nothing
\* has been purged, an event is overtaken only when a grace period ends during
\* a tick.
THEOREM GapsGrowByPurges ==
    Spec => [][overtaken' # overtaken =>
                  \/ \E i \in Ids : log[i] = "purged"
                  \/ \E h \in Holders, i \in Ids : GraceEnds(h, i) /\ Reading(h)]_vars
<1> DEFINE A == overtaken' # overtaken =>
                  \/ \E i \in Ids : log[i] = "purged"
                  \/ \E h \in Holders, i \in Ids : GraceEnds(h, i) /\ Reading(h)
<1>1. ASSUME IInv, [Next]_vars PROVE A \/ UNCHANGED vars
  <2> SUFFICES ASSUME Next, overtaken' # overtaken, Unpurged
               PROVE  \E h \in Holders, i \in Ids : GraceEnds(h, i) /\ Reading(h)
    BY <1>1 DEF Unpurged
  <2>1. ASSUME NEW h \in Holders, Tick(h) PROVE FALSE
    BY <1>1, <2>1, UnpurgedQuery DEF Tick, Claim, Dispatch, EndBatch, Advance, Acknowledge
  <2>2. ASSUME NEW h \in Holders, Overrun(h) \/ Abort(h) \/ Crash(h) PROVE FALSE
    BY <2>2 DEF Overrun, Abort, Crash
  <2>3. ASSUME NEW i \in Ids, Append(i) \/ Resolve(i) \/ Purge(i) PROVE FALSE
    BY <2>3 DEF Append, Resolve, Purge
  <2>4. CASE Lapse
    BY <2>4 DEF Lapse
  <2>5. PICK h \in Holders, i \in Ids : GraceEnds(h, i)
    BY <2>1, <2>2, <2>3, <2>4 DEF Next
  <2>6. PICK j \in 1..known[h][i] : Missed(h, j)
    BY <2>5 DEF GraceEnds
  <2>7. tick[h].batch # {}
    BY <2>6 DEF Missed
  <2>8. Reading(h)
    BY <1>1, <2>7 DEF IInv, HolderOK, BatchOK
  <2> QED
    BY <2>5, <2>8
<1> QED
  BY <1>1, ReplayInvariance, PTL DEF Spec
==============================================================================
