----------------------- MODULE ScheduleAdmissionProofs -----------------------
(***************************************************************************)
(* Proofs about ScheduleAdmission, for any number of tickers, callers,     *)
(* occurrences, overlap policies, windows and deaths.                      *)
(*                                                                         *)
(* No occurrence is lost: every tick carries the reason why its cursor may *)
(* pass what it passes (PlanOK), although it was decided from a row that   *)
(* others have written since.  A Run is counted once: an occurrence by     *)
(* when it leaves the window (CountOK), a fire by hand by who else may be  *)
(* at work on its token (TokenOK); late and unsure are what is not so.     *)
(***************************************************************************)
EXTENDS ScheduleAdmission, Integers, FiniteSetTheorems, TLAPS

------------------------------------------------------------------------------
\* Facts about sets of numbers.

\* A set of naturals that is not empty has a least element: of the segments below
\* its elements one is contained in no other properly.
LEMMA MinIsLeast ==
    ASSUME NEW S \in SUBSET Nat, S # {}
    PROVE  Min(S) \in S /\ \A y \in S : Min(S) <= y
<1> DEFINE Segments == {0..y : y \in S}
<1>1. Segments \subseteq FiniteSubsetsOf(Nat) /\ Segments # {}
  <2>1. \A y \in S : IsFiniteSet(0..y) /\ 0..y \subseteq Nat
    BY FS_Interval
  <2> QED
    BY <2>1 DEF FiniteSubsetsOf
<1>2. PICK s \in Segments : \A t \in Segments : <<t, s>> \notin StrictSubsetOrdering(Nat)
  BY <1>1, FS_StrictSubsetOrderingWellFounded, WFMin, Zenon
<1>3. PICK x \in S : s = 0..x
  OBVIOUS
<1>4. ASSUME NEW y \in S, y < x PROVE FALSE
  <2>1. 0..y \in SUBSET Nat /\ 0..x \in SUBSET Nat /\ 0..y \subseteq 0..x
    BY <1>4
  <2>2. x \in 0..x /\ x \notin 0..y
    BY <1>4
  <2>3. <<0..y, 0..x>> \in StrictSubsetOrdering(Nat)
    BY <2>1, <2>2 DEF StrictSubsetOrdering
  <2> QED
    BY <1>2, <1>3, <2>3
<1>5. \A y \in S : x <= y
  BY <1>4
<1> QED
  BY <1>5 DEF Min

\* A bounded one has a greatest: the least of its upper bounds.
LEMMA MaxIsGreatest ==
    ASSUME NEW n \in Nat, NEW S \in SUBSET (0..n), S # {}
    PROVE  Max(S) \in S /\ \A y \in S : y <= Max(S)
<1> DEFINE Above == {m \in Nat : \A y \in S : y <= m}
           top == Min(Above)
<1>1. n \in Above /\ Above \subseteq Nat
  OBVIOUS
<1>2. top \in Above /\ \A m \in Above : top <= m
  BY <1>1, MinIsLeast
<1>3. top \in S
  <2> SUFFICES ASSUME top \notin S PROVE FALSE
    OBVIOUS
  <2>1. \A y \in S : y \in Nat /\ y < top
    BY <1>2
  <2>2. top \in Nat
    BY <1>2
  <2>3. top # 0
    <3> HIDE DEF top, Above
    <3>1. PICK y \in S : y \in Nat /\ y < top
      BY <2>1
    <3> QED
      BY <3>1
  <2>4. top - 1 \in Above
    BY <2>1, <2>2, <2>3
  <2> HIDE DEF top
  <2> QED
    BY <1>2, <2>2, <2>4
<1>4. \A y \in S : y <= top
  BY <1>2
<1> HIDE DEF top, Above
<1> QED
  BY <1>3, <1>4 DEF Max

\* The first n elements of a finite set of numbers are closed under smaller ones.
LEMMA FirstAreClosed ==
    ASSUME NEW S \in SUBSET Int, IsFiniteSet(S), NEW n \in Nat,
           NEW x \in S, NEW y \in S, y < x,
           Cardinality({z \in S : z < x}) < n
    PROVE  Cardinality({z \in S : z < y}) < n
<1>1. {z \in S : z < y} \subseteq {z \in S : z < x}
  <2>1. \A z \in S : z < y => z < x
    OBVIOUS
  <2> QED
    BY <2>1
<1>2. IsFiniteSet({z \in S : z < x})
  BY FS_Subset
<1>3. /\ IsFiniteSet({z \in S : z < y})
      /\ Cardinality({z \in S : z < y}) <= Cardinality({z \in S : z < x})
  BY <1>1, <1>2, FS_Subset
<1>4. Cardinality({z \in S : z < y}) \in Nat /\ Cardinality({z \in S : z < x}) \in Nat
  BY <1>2, <1>3, FS_CardinalityType
<1> QED
  BY <1>3, <1>4

------------------------------------------------------------------------------

Marker == [fire : Tokens, by : Callers, old : BOOLEAN]

RowRecord ==
    [enabled : BOOLEAN, last : 0..MaxOcc, pointer : Occ \union Tokens \union {0}, nextDue : Nat,
     runs : Nat, pending : SUBSET Marker, credited : SUBSET Occ]

SnapRecord == [enabled : BOOLEAN, last : 0..MaxOcc, nextDue : Nat, held : Nat, spent : Nat]

TickerPc == {"idle", "probe", "settle", "decide", "batch", "record"}
CallerPc == {"idle", "probe", "settle", "lookup", "reserve", "create", "confirm", "release"}

ProcRecord ==
    [pc : TickerPc \union CallerPc, todo : SUBSET Tokens, token : Tokens \union {0}, found : BOOLEAN,
     snap : SnapRecord, at : (0..MaxOcc) \union Tokens, active : BOOLEAN, fires : SUBSET Occ,
     admitted : SUBSET Occ, links : SUBSET Occ, drops : SUBSET Occ, recovered : SUBSET Occ,
     nextDue : Nat, owedDue : Nat]

VarsOK ==
    /\ definition \in Definitions /\ now \in 0..MaxOcc /\ row \in RowRecord
    /\ counted \in [Occ \union Tokens -> Nat]
    /\ claims \subseteq Occ \union Tokens /\ live \subseteq claims /\ skipped \subseteq Occ
    /\ used \subseteq Callers \X Tokens
    /\ proc \in [Procs -> ProcRecord]

\* What the row names exists, and nothing of it lies in the future.
RowOK ==
    /\ IsFiniteSet(row.pending)
    /\ row.last <= now /\ row.nextDue <= now + 1
    /\ row.pointer \in claims \union {0} /\ row.credited \subseteq claims
    /\ \A marker \in row.pending : <<marker.by, marker.fire>> \in used

\* A ticker is at an occurrence and a caller at a token.
ProcOK(p) ==
    /\ p \in Tickers => proc[p].pc \in TickerPc /\ proc[p].at \in 0..now
    /\ p \in Callers =>
        /\ proc[p].pc \in CallerPc
        /\ proc[p].pc # "idle" => proc[p].at \in Tokens /\ <<p, proc[p].at>> \in used
    /\ proc[p].pc = "settle" =>
        proc[p].token \in proc[p].todo /\ (proc[p].found => proc[p].token \in claims)
    /\ proc[p].pc = "confirm" => proc[p].at \in claims
    /\ proc[p].snap.nextDue <= now + 1 /\ proc[p].nextDue <= now + 1 /\ proc[p].owedDue <= now + 1
    /\ \A o \in proc[p].fires \union proc[p].links \union proc[p].drops : o <= now
    /\ proc[p].admitted \subseteq proc[p].links /\ proc[p].recovered \subseteq proc[p].links
    /\ proc[p].links \subseteq claims
    /\ proc[p].pc \notin {"batch", "record"} =>
        proc[p].fires = {} /\ proc[p].links = {} /\ proc[p].drops = {}
    /\ proc[p].pc = "record" => proc[p].fires = {}

\* The occurrences that have a Run or are decided not to have one.
Gone == claims \union skipped

\* Neither cursor of a row passes an occurrence that is not gone.
Owes(enabled, last, nextDue) ==
    \A o \in Occ \ Gone : last < o /\ (enabled => nextDue <= o)

\* But for cancel_other, Runs are admitted in the order of their occurrences.
InOrder ==
    definition.overlap # "cancel_other" =>
        \A c \in claims \intersect Occ : \A o \in Occ : o < c => o \in Gone

\* What a tick passes when it consumes an occurrence: gone, or its own to skip.
PlanOK(k) ==
    LET me == proc[k]
        mine == Gone \union me.drops
    IN
    /\ me.pc \in {"probe", "settle", "decide"} => Owes(me.snap.enabled, me.snap.last, me.snap.nextDue)
    /\ me.pc \in {"batch", "record"} =>
        /\ \A l \in me.links : \A o \in Occ : o < l => o \in mine
        /\ \A f \in me.fires : \A o \in Occ : o < f =>
                o \in me.fires \union (IF definition.overlap = "cancel_other" THEN mine ELSE Gone)
        /\ \A o \in Occ \ (mine \union me.fires) : me.nextDue <= o
        /\ me.pc = "batch" => \A o \in Occ \ Gone : me.owedDue <= o
        /\ me.pc = "record" => \A d \in me.drops : \A o \in Occ : o < d => o \in mine

IInv ==
    /\ VarsOK
    /\ RowOK
    /\ \A p \in Procs : ProcOK(p)
    /\ Owes(row.enabled, row.last, row.nextDue)
    /\ InOrder
    /\ \A k \in Tickers : PlanOK(k)

InWindow(o) == o + definition.window > now

\* What a tick will count is not counted yet, and nobody else will count it:
\* what it found behind the window no ticker is at work on, but for what is late.
OccurrenceCounts(k, o) ==
    /\ proc[k].pc \in {"probe", "settle", "decide"} /\ proc[k].snap.last < o /\ o <= proc[k].at =>
        /\ counted[o] = 1 /\ o \notin row.credited => o + definition.window > proc[k].at
        /\ o + definition.window > proc[k].at => InWindow(o)
    /\ o \in proc[k].fires \union proc[k].admitted => InWindow(o)
    /\ o \in proc[k].admitted => counted[o] = 0
    /\ o \in proc[k].recovered => ~InWindow(o) /\ (counted[o] = 0 \/ o \in row.credited)

TickCounts(k) ==
    /\ proc[k].pc \in {"probe", "settle", "decide"} => proc[k].snap.last <= row.last
    /\ \A o \in Occ \ late : OccurrenceCounts(k, o)

CountOK ==
    /\ \A o \in Occ : counted[o] > 0 => o \in claims /\ o <= row.last /\ (o \in late \/ counted[o] = 1)
    /\ \A k \in Tickers : TickCounts(k)
    /\ \A k \in Tickers : \A j \in Tickers \ {k} : proc[j].admitted \intersect proc[k].admitted = {}

Holds(t) == \E marker \in row.pending : marker.fire = t

Astray == late \union unsure

Working == {"create", "confirm", "release"}

\* Of a token that is not astray one submission at a time is past its
\* reservation.  While its Run may be created its slot is held by the marker of
\* the caller, fresh and in nobody's list.
CallerHolds(m) ==
    proc[m].pc \in Working /\ proc[m].at \notin Astray =>
        /\ \A n \in Callers \ {m} : ~(proc[n].pc \in Working /\ proc[n].at = proc[m].at)
        /\ proc[m].pc = "create" =>
            /\ Holds(proc[m].at)
            /\ \A marker \in row.pending : marker.fire = proc[m].at => marker.by = m /\ ~marker.old
            /\ \A p \in Procs : proc[m].at \notin proc[p].todo
        /\ proc[m].pc \in {"create", "release"} => proc[m].at \notin claims

\* A token is counted when it has its Run, and then has no marker; while it is
\* not counted a marker says so.
TokenCounted(t) ==
    /\ counted[t] > 0 => t \in claims
    /\ t \notin late => counted[t] <= 1 /\ (counted[t] = 1 => ~Holds(t))
    /\ t \in claims \ Astray => counted[t] = 1 \/ Holds(t)

TokenOK ==
    /\ \A t \in Tokens : TokenCounted(t)
    /\ \A m \in Callers : CallerHolds(m)
    /\ \A p \in Procs : proc[p].pc = "settle" /\ proc[p].token \notin Astray =>
            (proc[p].found <=> proc[p].token \in claims)

------------------------------------------------------------------------------
\* Idle, the row and the snapshots have their fields.
LEMMA IdleIsProc ==
    /\ Idle \in ProcRecord /\ Idle.pc = "idle" /\ Idle.at = 0
    /\ Idle.todo = {} /\ Idle.fires = {} /\ Idle.admitted = {} /\ Idle.links = {} /\ Idle.drops = {}
    /\ Idle.recovered = {} /\ Idle.nextDue = 0 /\ Idle.owedDue = 0 /\ Idle.snap.nextDue = 0
<1>1. NoSnap \in SnapRecord /\ NoSnap.nextDue = 0
  BY ScheduleAssumption DEF NoSnap, SnapRecord
<1>2. 0 \in 0..MaxOcc
  BY ScheduleAssumption
<1> QED
  BY <1>1, <1>2 DEF Idle, ProcRecord, TickerPc

LEMMA SnapIsSnap ==
    ASSUME VarsOK, RowOK
    PROVE  /\ Snap \in SnapRecord
           /\ Snap.enabled = row.enabled /\ Snap.last = row.last /\ Snap.nextDue = row.nextDue
<1>1. Cardinality(row.pending) \in Nat
  BY FS_CardinalityType DEF RowOK
<1>2. row.enabled \in BOOLEAN /\ row.last \in 0..MaxOcc /\ row.nextDue \in Nat /\ row.runs \in Nat
  BY DEF VarsOK, RowRecord
<1> QED
  BY <1>1, <1>2 DEF Snap, SnapRecord

\* Nothing is due, and nobody is at work.
LEMMA InitHolds == Init => IInv /\ CountOK /\ TokenOK
<1> SUFFICES ASSUME Init PROVE IInv /\ CountOK /\ TokenOK
  OBVIOUS
<1> USE DEF Init
<1>1. proc \in [Procs -> ProcRecord] /\ \A p \in Procs : proc[p] = Idle
  BY IdleIsProc
<1>2. NewRow \in RowRecord /\ NewRow.pending = {} /\ NewRow.last = 0 /\ NewRow.nextDue = 0
      /\ NewRow.pointer = 0 /\ NewRow.credited = {}
  BY ScheduleAssumption DEF NewRow, RowRecord
<1>3. VarsOK
  BY <1>1, <1>2, ScheduleAssumption DEF VarsOK
<1>4. RowOK
  BY <1>2, FS_EmptySet DEF RowOK
<1>5. \A p \in Procs : ProcOK(p)
  BY <1>1, IdleIsProc, ScheduleAssumption DEF ProcOK, TickerPc, CallerPc
<1>6. Owes(row.enabled, row.last, row.nextDue) /\ InOrder
  BY <1>2 DEF Owes, InOrder, Occ
<1>7. \A k \in Tickers : PlanOK(k)
  BY <1>1, IdleIsProc DEF PlanOK, Procs
<1>8. CountOK
  BY <1>1, IdleIsProc DEF CountOK, TickCounts, OccurrenceCounts, Procs
<1>9. TokenOK
  BY <1>1, <1>2, IdleIsProc DEF TokenOK, TokenCounted, CallerHolds, Working, Procs, Holds
<1> QED
  BY <1>3, <1>4, <1>5, <1>6, <1>7, <1>8, <1>9 DEF IInv

------------------------------------------------------------------------------
\* The writes of the row

\* _settle_pending
LEMMA SettleRow ==
    ASSUME VarsOK, RowOK, NEW t \in Tokens, NEW found \in BOOLEAN, found => t \in claims,
           SettlePending(t, found), UNCHANGED <<now, claims, used>>
    PROVE  /\ row' \in RowRecord /\ counted' \in [Occ \union Tokens -> Nat] /\ RowOK'
           /\ row'.last = row.last /\ row'.credited = row.credited
           /\ row'.enabled => row.enabled /\ row'.nextDue = row.nextDue
           /\ row'.pending = {marker \in row.pending : marker.fire # t}
           /\ \A c \in Occ \union Tokens : c # t => counted'[c] = counted[c]
           /\ counted'[t] = IF found /\ Holds(t) THEN counted[t] + 1 ELSE counted[t]
<1>1. row \in RowRecord /\ counted \in [Occ \union Tokens -> Nat]
  BY DEF VarsOK
<1>2. IsFiniteSet(row.pending) /\ row.nextDue \in Nat
  BY <1>1 DEF RowOK, RowRecord
<1>3. CASE \A marker \in row.pending : marker.fire # t
  <2>1. row' = row /\ counted' = counted
    BY <1>3 DEF SettlePending
  <2>2. ~Holds(t) /\ row.pending = {marker \in row.pending : marker.fire # t}
    BY <1>3 DEF Holds
  <2>3. RowOK'
    BY <2>1 DEF RowOK
  <2> QED
    BY <1>1, <2>1, <2>2, <2>3
<1>4. CASE ~(\A marker \in row.pending : marker.fire # t)
  <2> DEFINE kept == {marker \in row.pending : marker.fire # t}
             ends == found /\ Spent(row.runs + 1)
  <2>1. row' = [row EXCEPT !.pending = kept,
                           !.pointer = IF found THEN t ELSE @,
                           !.runs = IF found THEN @ + 1 ELSE @,
                           !.enabled = @ /\ ~ends,
                           !.nextDue = IF ends THEN 0 ELSE @]
        /\ counted' = IF found THEN [counted EXCEPT ![t] = @ + 1] ELSE counted
    BY <1>4 DEF SettlePending
  <2>2. kept \subseteq row.pending /\ IsFiniteSet(kept)
    BY <1>2, FS_Subset
  <2>3. ends \in BOOLEAN
    BY DEF Spent
  <2> HIDE DEF kept, ends
  <2>4. row' \in RowRecord
    <3>1. kept \in SUBSET Marker /\ (row.enabled /\ ~ends) \in BOOLEAN
          /\ (IF found THEN t ELSE row.pointer) \in Occ \union Tokens \union {0}
          /\ (IF found THEN row.runs + 1 ELSE row.runs) \in Nat
          /\ (IF ends THEN 0 ELSE row.nextDue) \in Nat
      BY <1>1, <2>2, <2>3 DEF RowRecord
    <3>2. row' = [row EXCEPT !.pending = kept,
                             !.pointer = IF found THEN t ELSE row.pointer,
                             !.runs = IF found THEN row.runs + 1 ELSE row.runs,
                             !.enabled = row.enabled /\ ~ends,
                             !.nextDue = IF ends THEN 0 ELSE row.nextDue]
      BY <1>1, <2>1 DEF RowRecord
    <3> QED
      BY <1>1, <3>1, <3>2 DEF RowRecord
  <2>5. /\ row'.last = row.last /\ row'.credited = row.credited /\ row'.pending = kept
        /\ row'.enabled = (row.enabled /\ ~ends) /\ row'.nextDue = (IF ends THEN 0 ELSE row.nextDue)
        /\ row'.pointer = (IF found THEN t ELSE row.pointer)
    BY <1>1, <2>1 DEF RowRecord
  <2>6. RowOK'
    <3>1. 0 <= now + 1
      BY DEF VarsOK
    <3> QED
      BY <2>2, <2>5, <3>1 DEF RowOK
  <2>7. counted' \in [Occ \union Tokens -> Nat]
        /\ (\A c \in Occ \union Tokens : c # t => counted'[c] = counted[c])
        /\ counted'[t] = IF found THEN counted[t] + 1 ELSE counted[t]
    BY <1>1, <2>1
  <2>8. Holds(t)
    BY <1>4 DEF Holds
  <2> QED
    BY <2>3, <2>4, <2>5, <2>6, <2>7, <2>8 DEF kept
<1> QED
  BY <1>3, <1>4

\* _advance
\* What the row becomes, and how often each fire is counted.
Advanced(firedAt, nextDue, admitted, recovered) ==
    /\ row' \in RowRecord /\ counted' \in [Occ \union Tokens -> Nat] /\ RowOK'
    /\ row'.last = (IF firedAt # 0 /\ firedAt >= row.last THEN firedAt ELSE row.last)
    /\ row'.credited = row.credited \union recovered /\ row'.pending = row.pending
    /\ row'.enabled =>
         /\ row.enabled
         /\ row'.nextDue = IF firedAt = 0 \/ firedAt >= row.last THEN nextDue ELSE row.nextDue
    /\ \A c \in Occ \union Tokens :
         counted'[c] = counted[c] + (IF c \in admitted THEN 1 ELSE 0)
                                  + (IF c \in recovered \ row.credited THEN 1 ELSE 0)

LEMMA AdvanceRow ==
    ASSUME VarsOK, RowOK, NEW firedAt \in 0..now, NEW pointer \in claims \union {0},
           NEW nextDue \in 0..(now + 1), NEW admitted \in SUBSET Occ, NEW recovered \in SUBSET Occ,
           recovered \subseteq claims,
           Advance(firedAt, pointer, nextDue, admitted, recovered), UNCHANGED <<now, claims, used>>
    PROVE  Advanced(firedAt, nextDue, admitted, recovered)
<1> DEFINE new == recovered \ row.credited
           runs == row.runs + Cardinality(admitted) + Cardinality(new)
           disabled == Spent(runs)
           newest == firedAt # 0 /\ firedAt >= row.last
<1>1. row \in RowRecord /\ counted \in [Occ \union Tokens -> Nat] /\ now \in 0..MaxOcc
  BY DEF VarsOK
<1>2. runs \in Nat
  <2>1. IsFiniteSet(Occ)
    BY FS_Interval, ScheduleAssumption DEF Occ
  <2>2. IsFiniteSet(admitted) /\ IsFiniteSet(new)
    BY <2>1, FS_Subset
  <2>3. Cardinality(admitted) \in Nat /\ Cardinality(new) \in Nat
    BY <2>2, FS_CardinalityType
  <2> QED
    BY <1>1, <2>3 DEF RowRecord
<1>3. row' = [row EXCEPT !.last = IF newest THEN firedAt ELSE @,
                         !.pointer = IF newest /\ pointer # 0 THEN pointer ELSE @,
                         !.nextDue = IF disabled THEN 0 ELSE IF newest \/ firedAt = 0 THEN nextDue ELSE @,
                         !.enabled = @ /\ ~disabled,
                         !.runs = runs,
                         !.credited = @ \union recovered]
      /\ counted' = [c \in DOMAIN counted |-> counted[c]
                        + (IF c \in admitted THEN 1 ELSE 0) + (IF c \in new THEN 1 ELSE 0)]
  BY DEF Advance
<1>4. disabled \in BOOLEAN
  BY DEF Spent
<1> HIDE DEF runs, disabled
<1>5. counted' \in [Occ \union Tokens -> Nat]
      /\ \A c \in Occ \union Tokens :
            counted'[c] = counted[c] + (IF c \in admitted THEN 1 ELSE 0) + (IF c \in new THEN 1 ELSE 0)
  BY <1>1, <1>3
<1> HIDE DEF new
<1>6. firedAt \in 0..MaxOcc /\ nextDue \in Nat
  BY <1>1, ScheduleAssumption
<1>7. pointer \in Occ \union Tokens \union {0}
  BY DEF VarsOK
<1> HIDE DEF newest
<1>8. /\ row'.last = (IF newest THEN firedAt ELSE row.last)
      /\ row'.pointer = (IF newest /\ pointer # 0 THEN pointer ELSE row.pointer)
      /\ row'.nextDue = (IF disabled THEN 0 ELSE IF newest \/ firedAt = 0 THEN nextDue ELSE row.nextDue)
      /\ row'.enabled = (row.enabled /\ ~disabled) /\ row'.runs = runs
      /\ row'.credited = row.credited \union recovered /\ row'.pending = row.pending
  BY <1>1, <1>3 DEF RowRecord
<1>9. row' \in RowRecord
  BY <1>1, <1>2, <1>3, <1>4, <1>6, <1>7 DEF RowRecord
<1>10. RowOK'
  <2>1. row'.last <= now
    BY <1>1, <1>8 DEF RowOK
  <2>2. row'.nextDue <= now + 1
    BY <1>1, <1>8 DEF RowOK
  <2>3. row'.pointer \in claims \union {0} /\ row'.credited \subseteq claims
    BY <1>8 DEF RowOK
  <2> QED
    BY <1>8, <2>1, <2>2, <2>3 DEF RowOK
<1>11. row'.last = IF firedAt # 0 /\ firedAt >= row.last THEN firedAt ELSE row.last
  BY <1>8 DEF newest
<1>12. row'.enabled =>
          /\ row.enabled
          /\ row'.nextDue = IF firedAt = 0 \/ firedAt >= row.last THEN nextDue ELSE row.nextDue
  BY <1>4, <1>8 DEF newest
<1> QED
  BY <1>5, <1>8, <1>9, <1>10, <1>11, <1>12 DEF new, Advanced

------------------------------------------------------------------------------
\* What others do leaves a process its reasons: what is gone stays gone.
LEMMA OthersKeep ==
    ASSUME NEW p \in Procs, ProcOK(p), p \in Tickers => PlanOK(p), proc'[p] = proc[p],
           UNCHANGED definition, now <= now', now \in Nat, now' \in Nat, proc[p] \in ProcRecord,
           claims \subseteq claims', skipped \subseteq skipped', used \subseteq used'
    PROVE  ProcOK(p)' /\ (p \in Tickers => PlanOK(p)')
<1>1. ProcOK(p)'
  <2>1. proc[p].at \in 0..now => proc[p].at \in 0..now'
    OBVIOUS
  <2>2. proc[p].snap.nextDue <= now' + 1 /\ proc[p].nextDue <= now' + 1 /\ proc[p].owedDue <= now' + 1
    BY DEF ProcOK, ProcRecord, SnapRecord
  <2>3. \A o \in proc[p].fires \union proc[p].links \union proc[p].drops : o <= now'
    BY DEF ProcOK, ProcRecord, Occ
  <2> QED
    BY <2>1, <2>2, <2>3 DEF ProcOK
<1>2. Gone \subseteq Gone'
  BY DEF Gone
<1>3. ASSUME p \in Tickers PROVE PlanOK(p)'
  BY <1>2, <1>3 DEF PlanOK, Owes
<1> QED
  BY <1>1, <1>3

\* A step of one process.
LEMMA ProcessStep ==
    ASSUME IInv, NEW p \in Procs, UNCHANGED <<definition, now>>,
           proc' \in [Procs -> ProcRecord], \A q \in Procs \ {p} : proc'[q] = proc[q],
           row' \in RowRecord, counted' \in [Occ \union Tokens -> Nat],
           claims \subseteq claims', claims' \subseteq Occ \union Tokens, live' \subseteq claims',
           skipped \subseteq skipped', skipped' \subseteq Occ,
           used \subseteq used', used' \subseteq Callers \X Tokens,
           RowOK', Owes(row.enabled, row.last, row.nextDue)', InOrder',
           ProcOK(p)', p \in Tickers => PlanOK(p)'
    PROVE  IInv'
<1>1. VarsOK'
  BY DEF IInv, VarsOK
<1>2. ASSUME NEW q \in Procs \ {p} PROVE ProcOK(q)' /\ (q \in Tickers => PlanOK(q)')
  <2>1. now \in Nat /\ now' \in Nat /\ now <= now' /\ proc[q] \in ProcRecord
    BY DEF IInv, VarsOK
  <2>2. ProcOK(q) /\ (q \in Tickers => PlanOK(q)) /\ proc'[q] = proc[q]
    BY DEF IInv
  <2> QED
    BY <2>1, <2>2, OthersKeep
<1>3. \A q \in Procs : ProcOK(q)' /\ (q \in Tickers => PlanOK(q)')
  BY <1>2
<1> QED
  BY <1>1, <1>3 DEF IInv, Procs

\* A step that only changes where a process is.
LEMMA OwnStep ==
    ASSUME IInv, NEW p \in Procs, UNCHANGED <<definition, now, row, counted, claims, live, skipped>>,
           proc' \in [Procs -> ProcRecord], \A q \in Procs \ {p} : proc'[q] = proc[q],
           used \subseteq used', used' \subseteq Callers \X Tokens,
           ProcOK(p)', p \in Tickers => PlanOK(p)'
    PROVE  IInv'
<1>1. row' \in RowRecord /\ counted' \in [Occ \union Tokens -> Nat]
      /\ claims' \subseteq Occ \union Tokens /\ live' \subseteq claims' /\ skipped' \subseteq Occ
  BY DEF IInv, VarsOK
<1>2. RowOK'
  BY DEF IInv, RowOK
<1>3. Owes(row.enabled, row.last, row.nextDue)' /\ InOrder'
  BY DEF IInv, Owes, InOrder, Gone
<1> QED
  BY <1>1, <1>2, <1>3, ProcessStep

------------------------------------------------------------------------------
\* A step that writes the row and does not move its cursors on.
LEMMA RowWritten ==
    ASSUME IInv, NEW p \in Procs, UNCHANGED <<definition, now, claims, live, skipped, used>>,
           proc' \in [Procs -> ProcRecord], \A q \in Procs \ {p} : proc'[q] = proc[q],
           row' \in RowRecord, counted' \in [Occ \union Tokens -> Nat], RowOK',
           row'.last = row.last, row'.enabled => row.enabled /\ row'.nextDue = row.nextDue,
           ProcOK(p)', p \in Tickers => PlanOK(p)'
    PROVE  IInv'
<1>1. claims' \subseteq Occ \union Tokens /\ live' \subseteq claims' /\ skipped' \subseteq Occ
      /\ used' \subseteq Callers \X Tokens
  BY DEF IInv, VarsOK
<1>2. Owes(row.enabled, row.last, row.nextDue)' /\ InOrder'
  BY DEF IInv, Owes, InOrder, Gone
<1> QED
  BY <1>1, <1>2, ProcessStep

------------------------------------------------------------------------------
\* What the steps of a process change of it

Others(p) == proc' \in [Procs -> ProcRecord] /\ \A q \in Procs \ {p} : proc'[q] = proc[q]

\* Its plan, and the row it has read.
KeepsPlan(p) ==
    /\ proc'[p].snap = proc[p].snap /\ proc'[p].at = proc[p].at
    /\ proc'[p].fires = proc[p].fires /\ proc'[p].admitted = proc[p].admitted
    /\ proc'[p].links = proc[p].links /\ proc'[p].drops = proc[p].drops
    /\ proc'[p].recovered = proc[p].recovered
    /\ proc'[p].nextDue = proc[p].nextDue /\ proc'[p].owedDue = proc[p].owedDue

LEMMA FoundIsProc ==
    ASSUME NEW q \in ProcRecord, NEW t \in Tokens, NEW b \in BOOLEAN
    PROVE  [q EXCEPT !.pc = "settle", !.token = t, !.found = b] \in ProcRecord
BY DEF ProcRecord, CallerPc

LEMMA ProbeEffect ==
    ASSUME VarsOK, NEW p \in Procs, Probe(p)
    PROVE  /\ Others(p) /\ KeepsPlan(p) /\ proc[p].pc = "probe" /\ proc'[p].pc = "settle"
           /\ proc'[p].todo = proc[p].todo /\ proc'[p].token \in proc[p].todo
           /\ proc'[p].found = (proc'[p].token \in claims)
<1>1. proc \in [Procs -> ProcRecord]
  BY DEF VarsOK
<1>2. PICK t \in proc[p].todo :
          proc' = [proc EXCEPT ![p].pc = "settle", ![p].token = t, ![p].found = t \in claims]
  BY DEF Probe
<1>3. t \in Tokens
  BY <1>1 DEF ProcRecord
<1> DEFINE new == [proc[p] EXCEPT !.pc = "settle", !.token = t, !.found = t \in claims]
<1>4. Others(p)
  <2>1. new \in ProcRecord
    <3>1. PICK b \in BOOLEAN : b <=> t \in claims
      OBVIOUS
    <3>2. new = [proc[p] EXCEPT !.pc = "settle", !.token = t, !.found = b]
      BY <3>1
    <3>3. proc[p] \in ProcRecord
      BY <1>1
    <3> HIDE DEF new
    <3> QED
      BY <1>3, <3>2, <3>3, FoundIsProc
  <2>2. proc' = [proc EXCEPT ![p] = new]
    BY <1>1, <1>2
  <2> HIDE DEF new
  <2> QED
    BY <1>1, <2>1, <2>2 DEF Others
<1>5. KeepsPlan(p) /\ proc'[p].pc = "settle" /\ proc'[p].todo = proc[p].todo
      /\ proc'[p].token = t /\ proc'[p].found = (t \in claims)
  BY <1>1, <1>2 DEF KeepsPlan, ProcRecord
<1> QED
  BY <1>4, <1>5 DEF Probe

LEMMA ProbeFailsEffect ==
    ASSUME VarsOK, NEW p \in Procs, ProbeFails(p)
    PROVE  /\ Others(p) /\ KeepsPlan(p) /\ proc[p].pc = "probe" /\ proc'[p].pc = "probe"
           /\ proc'[p].todo \subseteq proc[p].todo
<1>1. proc \in [Procs -> ProcRecord]
  BY DEF VarsOK
<1>2. PICK t \in proc[p].todo : proc' = [proc EXCEPT ![p].todo = @ \ {t}]
  BY DEF ProbeFails
<1>3. Others(p)
  BY <1>1, <1>2 DEF Others, ProcRecord
<1>4. KeepsPlan(p) /\ proc'[p].pc = proc[p].pc /\ proc'[p].todo = proc[p].todo \ {t}
  BY <1>1, <1>2 DEF KeepsPlan, ProcRecord
<1> QED
  BY <1>3, <1>4 DEF ProbeFails

LEMMA SettleOldEffect ==
    ASSUME VarsOK, NEW p \in Procs, SettleOld(p)
    PROVE  /\ Others(p) /\ KeepsPlan(p) /\ proc[p].pc = "settle" /\ proc'[p].pc = "probe"
           /\ proc'[p].todo = proc[p].todo \ {proc[p].token}
<1>1. proc \in [Procs -> ProcRecord]
  BY DEF VarsOK
<1>2. proc' = [proc EXCEPT ![p].pc = "probe", ![p].todo = @ \ {proc[p].token},
                           ![p].token = 0, ![p].found = FALSE]
  BY DEF SettleOld
<1> DEFINE new == [proc[p] EXCEPT !.pc = "probe", !.todo = @ \ {proc[p].token},
                                  !.token = 0, !.found = FALSE]
<1>3. Others(p)
  <2>1. new \in ProcRecord
    <3>1. proc[p] \in ProcRecord /\ "probe" \in CallerPc
      BY <1>1 DEF CallerPc
    <3> QED
      BY <3>1 DEF ProcRecord
  <2>2. proc' = [proc EXCEPT ![p] = new]
    BY <1>1, <1>2
  <2> HIDE DEF new
  <2> QED
    BY <1>1, <2>1, <2>2 DEF Others
<1>4. KeepsPlan(p) /\ proc'[p].pc = "probe" /\ proc'[p].todo = proc[p].todo \ {proc[p].token}
  BY <1>1, <1>2 DEF KeepsPlan, ProcRecord
<1> QED
  BY <1>3, <1>4 DEF SettleOld

LEMMA RereadEffect ==
    ASSUME VarsOK, RowOK, NEW p \in Procs, Reread(p)
    PROVE  /\ Others(p) /\ proc[p].pc = "probe"
           /\ proc'[p].pc = IF p \in Tickers THEN "decide" ELSE "lookup"
           /\ proc'[p].snap = Snap /\ proc'[p].todo = proc[p].todo /\ proc'[p].at = proc[p].at
           /\ proc'[p].fires = proc[p].fires /\ proc'[p].admitted = proc[p].admitted
           /\ proc'[p].links = proc[p].links /\ proc'[p].drops = proc[p].drops
           /\ proc'[p].recovered = proc[p].recovered
           /\ proc'[p].nextDue = proc[p].nextDue /\ proc'[p].owedDue = proc[p].owedDue
<1>1. proc \in [Procs -> ProcRecord] /\ Snap \in SnapRecord
  BY SnapIsSnap DEF VarsOK
<1>2. proc' = [proc EXCEPT ![p].pc = IF p \in Tickers THEN "decide" ELSE "lookup", ![p].snap = Snap]
  BY DEF Reread
<1> DEFINE next == IF p \in Tickers THEN "decide" ELSE "lookup"
           new == [proc[p] EXCEPT !.pc = next, !.snap = Snap]
<1>3. Others(p)
  <2>1. new \in ProcRecord
    <3>1. next \in TickerPc \union CallerPc
      BY DEF CallerPc, TickerPc
    <3>2. proc[p] \in ProcRecord /\ Snap \in SnapRecord
      BY <1>1
    <3> HIDE DEF next
    <3> QED
      BY <3>1, <3>2 DEF ProcRecord
  <2>2. proc' = [proc EXCEPT ![p] = new]
    BY <1>1, <1>2
  <2> HIDE DEF new
  <2> QED
    BY <1>1, <2>1, <2>2 DEF Others
<1> QED
  BY <1>1, <1>2, <1>3 DEF Reread, ProcRecord

LEMMA GoesEffect ==
    ASSUME VarsOK, NEW p \in Procs, NEW pc \in TickerPc \union CallerPc, Goes(p, pc)
    PROVE  /\ Others(p) /\ KeepsPlan(p) /\ proc'[p].pc = pc
           /\ proc'[p].todo = proc[p].todo /\ proc'[p].token = proc[p].token
<1>1. proc \in [Procs -> ProcRecord]
  BY DEF VarsOK
<1>2. Others(p)
  BY <1>1 DEF Goes, Others, ProcRecord
<1>3. KeepsPlan(p) /\ proc'[p].pc = pc /\ proc'[p].todo = proc[p].todo /\ proc'[p].token = proc[p].token
  BY <1>1 DEF Goes, KeepsPlan, ProcRecord
<1> QED
  BY <1>2, <1>3

LEMMA EndsEffect ==
    ASSUME VarsOK, NEW p \in Procs, Ends(p)
    PROVE  Others(p) /\ proc'[p] = Idle
  BY IdleIsProc DEF VarsOK, Ends, Others

\* An admission starts: what it has read, and the old markers it is to settle.
LEMMA StartEffect ==
    ASSUME VarsOK, RowOK, NEW p \in Procs, NEW pc \in TickerPc \union CallerPc,
           NEW at \in (0..MaxOcc) \union Tokens, NEW active \in BOOLEAN,
           proc' = [proc EXCEPT ![p] = [Idle EXCEPT !.pc = pc, !.todo = OldMarkers, !.snap = Snap,
                                                    !.at = at, !.active = active]]
    PROVE  /\ Others(p) /\ proc'[p].pc = pc /\ proc'[p].todo = OldMarkers
           /\ proc'[p].snap = Snap /\ proc'[p].at = at
           /\ proc'[p].fires = {} /\ proc'[p].admitted = {} /\ proc'[p].links = {}
           /\ proc'[p].drops = {} /\ proc'[p].recovered = {}
           /\ proc'[p].nextDue = 0 /\ proc'[p].owedDue = 0
<1> DEFINE new == [Idle EXCEPT !.pc = pc, !.todo = OldMarkers, !.snap = Snap, !.at = at, !.active = active]
<1>1. proc \in [Procs -> ProcRecord] /\ Snap \in SnapRecord /\ row \in RowRecord
  BY SnapIsSnap DEF VarsOK
<1>2. OldMarkers \subseteq Tokens
  BY <1>1 DEF OldMarkers, RowRecord, Marker
<1>3. new \in ProcRecord
  BY <1>1, <1>2, IdleIsProc DEF ProcRecord
<1>4. /\ new.pc = pc /\ new.todo = OldMarkers /\ new.snap = Snap /\ new.at = at
      /\ new.fires = {} /\ new.admitted = {} /\ new.links = {} /\ new.drops = {} /\ new.recovered = {}
      /\ new.nextDue = 0 /\ new.owedDue = 0
  BY IdleIsProc DEF ProcRecord
<1> HIDE DEF new
<1>5. proc' = [proc EXCEPT ![p] = new]
  BY DEF new
<1>6. Others(p) /\ proc'[p] = new
  BY <1>1, <1>3, <1>5 DEF Others
<1> QED
  BY <1>4, <1>6

\* A plan that is kept stands.
LEMMA KeptPlan ==
    ASSUME IInv, NEW p \in Procs, KeepsPlan(p), UNCHANGED <<definition, now>>,
           claims \subseteq claims', skipped \subseteq skipped', used \subseteq used',
           proc[p].pc \notin {"idle", "batch", "record"}, proc'[p].pc \notin {"idle", "batch", "record"},
           p \in Tickers => proc[p].pc \in {"probe", "settle", "decide"} /\ proc'[p].pc \in TickerPc,
           p \in Callers => proc'[p].pc \in CallerPc,
           proc'[p].pc = "settle" =>
                proc'[p].token \in proc'[p].todo /\ (proc'[p].found => proc'[p].token \in claims'),
           proc'[p].pc = "confirm" => proc[p].at \in claims'
    PROVE  ProcOK(p)' /\ (p \in Tickers => PlanOK(p)')
<1>1. ProcOK(p)'
  BY DEF IInv, ProcOK, KeepsPlan
<1>2. Gone \subseteq Gone'
  BY DEF Gone
<1>3. ASSUME p \in Tickers PROVE PlanOK(p)'
  BY <1>2, <1>3 DEF IInv, PlanOK, Owes, KeepsPlan
<1> QED
  BY <1>1, <1>3

\* A process that has ended owes nothing.
LEMMA IdleOK ==
    ASSUME IInv, NEW p \in Procs, UNCHANGED now, proc'[p] = Idle
    PROVE  ProcOK(p)' /\ (p \in Tickers => PlanOK(p)')
<1>1. now \in 0..MaxOcc
  BY DEF IInv, VarsOK
<1>2. ProcOK(p)'
  BY <1>1, IdleIsProc DEF ProcOK, TickerPc, CallerPc
<1>3. PlanOK(p)'
  BY IdleIsProc DEF PlanOK
<1> QED
  BY <1>2, <1>3

------------------------------------------------------------------------------
\* _reconcile_pending_fires
LEMMA ReconcileStep == ASSUME IInv, NEW p \in Procs, Reconcile(p) PROVE IInv'
<1>1. VarsOK /\ RowOK /\ ProcOK(p)
  BY DEF IInv
<1>2. used \subseteq Callers \X Tokens
  BY <1>1 DEF VarsOK
<1>3. CASE Probe(p)
  <2>1. UNCHANGED <<definition, now, row, counted, claims, live, skipped, used>>
    BY <1>3 DEF Probe, keptVars, runVars
  <2>2. ProcOK(p)' /\ (p \in Tickers => PlanOK(p)')
    BY <1>1, <1>3, <2>1, ProbeEffect, KeptPlan DEF TickerPc, CallerPc
  <2> QED
    BY <1>1, <1>2, <1>3, <2>1, <2>2, ProbeEffect, OwnStep DEF Others
<1>4. CASE ProbeFails(p)
  <2>1. UNCHANGED <<definition, now, row, counted, claims, live, skipped, used>>
    BY <1>4 DEF ProbeFails, keptVars, runVars
  <2>2. ProcOK(p)' /\ (p \in Tickers => PlanOK(p)')
    BY <1>1, <1>4, <2>1, ProbeFailsEffect, KeptPlan DEF TickerPc, CallerPc
  <2> QED
    BY <1>1, <1>2, <1>4, <2>1, <2>2, ProbeFailsEffect, OwnStep DEF Others
<1>5. CASE SettleOld(p)
  <2>1. UNCHANGED <<definition, now, claims, live, skipped, used>>
        /\ SettlePending(proc[p].token, proc[p].found)
    BY <1>5 DEF SettleOld, keptVars, runVars
  <2>2. Others(p) /\ KeepsPlan(p) /\ proc[p].pc = "settle" /\ proc'[p].pc = "probe"
    BY <1>1, <1>5, SettleOldEffect
  <2>3. ProcOK(p)' /\ (p \in Tickers => PlanOK(p)')
    BY <2>1, <2>2, KeptPlan DEF TickerPc, CallerPc
  <2>4. proc[p].token \in Tokens /\ proc[p].found \in BOOLEAN
        /\ (proc[p].found => proc[p].token \in claims)
    BY <1>1, <2>2 DEF VarsOK, ProcRecord, ProcOK
  <2>5. /\ row' \in RowRecord /\ counted' \in [Occ \union Tokens -> Nat] /\ RowOK'
        /\ row'.last = row.last /\ (row'.enabled => row.enabled /\ row'.nextDue = row.nextDue)
    BY <1>1, <2>1, <2>4, SettleRow
  <2> QED
    BY <1>1, <2>1, <2>2, <2>3, <2>5, RowWritten DEF Others
<1>6. CASE Reread(p)
  <2>1. UNCHANGED <<definition, now, row, counted, claims, live, skipped, used>>
    BY <1>6 DEF Reread, keptVars, runVars
  <2>2. ProcOK(p)'
    <3>1. proc[p].fires = {} /\ proc[p].links = {} /\ proc[p].drops = {}
      BY <1>1, <1>6 DEF Reread, ProcOK
    <3>2. Snap.nextDue <= now + 1
      BY <1>1, SnapIsSnap DEF RowOK
    <3> QED
      BY <1>1, <1>6, <2>1, <3>1, <3>2, RereadEffect, ScheduleAssumption
         DEF ProcOK, TickerPc, CallerPc, Procs
  <2>3. ASSUME p \in Tickers PROVE PlanOK(p)'
    <3>1. proc'[p].pc = "decide" /\ proc'[p].snap = Snap
      BY <1>1, <1>6, <2>3, RereadEffect
    <3>2. Snap.enabled = row.enabled /\ Snap.last = row.last /\ Snap.nextDue = row.nextDue
      BY <1>1, SnapIsSnap
    <3> QED
      BY <2>1, <3>1, <3>2 DEF IInv, PlanOK, Owes, Gone
  <2> QED
    BY <1>1, <1>2, <1>6, <2>1, <2>2, <2>3, RereadEffect, OwnStep DEF Others
<1> QED
  BY <1>3, <1>4, <1>5, <1>6 DEF Reconcile

------------------------------------------------------------------------------
\* The evaluation

\* The policy: it fires occurrences that are due, the oldest first or, for
\* cancel_other, the last; what it holds back is the last that is due.
LEMMA PolicyChooses ==
    ASSUME VarsOK, NEW due \in SUBSET Occ, NEW active \in BOOLEAN
    PROVE  /\ ToFire(due, active) \subseteq due
           /\ Held(due \ ToFire(due, active)) \subseteq due
           /\ definition.overlap = "cancel_other" => Held(due \ ToFire(due, active)) = {}
           /\ \A o \in Held(due \ ToFire(due, active)) : \A d \in due : d <= o
           /\ \A o \in ToFire(due, active) : \A d \in due :
                IF definition.overlap = "cancel_other" THEN d <= o
                ELSE d < o => d \in ToFire(due, active)
<1> DEFINE chosen == ToFire(due, active)
           waiting == due \ chosen
<1>1. MaxOcc \in Nat /\ due \in SUBSET Nat /\ due \in SUBSET (0..MaxOcc) /\ waiting \in SUBSET (0..MaxOcc)
  <2>1. waiting \subseteq due
    OBVIOUS
  <2> HIDE DEF waiting
  <2> QED
    BY <2>1, ScheduleAssumption DEF Occ
<1>2. definition.overlap \in OverlapPolicy
  BY ScheduleAssumption DEF VarsOK
<1>3. due # {} => /\ Min(due) \in due /\ \A d \in due : Min(due) <= d
                  /\ Max(due) \in due /\ \A d \in due : d <= Max(due)
  BY <1>1, MinIsLeast, MaxIsGreatest
<1>4. waiting # {} => Max(waiting) \in waiting /\ \A d \in waiting : d <= Max(waiting)
  <2> HIDE DEF waiting
  <2> QED
    BY <1>1, MaxIsGreatest
<1>5. CASE due = {}
  <2>1. chosen = {}
    BY <1>5 DEF ToFire
  <2>2. waiting = {}
    BY <1>5
  <2> HIDE DEF waiting, chosen
  <2>3. Held(waiting) = {}
    BY <2>2 DEF Held
  <2> QED
    BY <1>5, <2>1, <2>3 DEF waiting, chosen
<1>6. CASE due # {} /\ definition.overlap = "allow"
  <2>1. chosen = due
    BY <1>6 DEF ToFire
  <2>2. Held(waiting) = {}
    BY <1>6 DEF Held
  <2> QED
    BY <1>6, <2>1, <2>2
<1>7. CASE due # {} /\ definition.overlap = "cancel_other"
  <2>1. chosen = {Max(due)}
    BY <1>7 DEF ToFire
  <2>2. Held(waiting) = {}
    BY <1>7 DEF Held
  <2> QED
    BY <1>3, <1>7, <2>1, <2>2
<1>8. CASE due # {} /\ definition.overlap \notin {"allow", "cancel_other"}
  <2>1. chosen = IF active THEN {} ELSE {Min(due)}
    BY <1>8 DEF ToFire
  <2>2. Held(waiting) \subseteq {Max(waiting)} /\ (waiting = {} => Held(waiting) = {})
    BY DEF Held
  <2>3. \A o \in chosen : o = Min(due)
    BY <2>1
  <2>4. chosen \subseteq due
    BY <1>3, <1>8, <2>3
  <2>5. \A o \in Held(waiting) : o \in waiting /\ \A d \in waiting : d <= o
    BY <1>4, <2>2
  <2> HIDE DEF chosen, waiting
  <2>6. \A o \in chosen : \A d \in due : ~(d < o)
    <3> SUFFICES ASSUME NEW o \in chosen, NEW d \in due PROVE ~(d < o)
      OBVIOUS
    <3>1. o \in Nat /\ d \in Nat /\ o <= d
      BY <1>1, <1>3, <1>8, <2>3
    <3> QED
      BY <3>1
  <2>7. \A o \in Held(waiting) : o \in due /\ \A d \in due : d <= o
    <3> SUFFICES ASSUME NEW o \in Held(waiting), NEW d \in due PROVE o \in due /\ d <= o
      BY <2>5 DEF waiting
    <3>1. o \in due
      BY <2>5 DEF waiting
    <3>2. d \in chosen \/ d \in waiting
      BY DEF waiting
    <3> QED
      BY <1>3, <1>8, <2>3, <2>5, <3>1, <3>2
  <2> QED
    BY <1>8, <2>4, <2>6, <2>7 DEF chosen, waiting
<1> QED
  BY <1>2, <1>5, <1>6, <1>7, <1>8 DEF OverlapPolicy

\* The oldest of a set leave out nothing that is older than they are.
LEMMA OldestAreClosed ==
    ASSUME NEW set \in SUBSET Occ, NEW n \in Nat
    PROVE  /\ Oldest(set, n) \subseteq set
           /\ \A o \in Oldest(set, n) : \A d \in set : d < o => d \in Oldest(set, n)
<1>1. IsFiniteSet(Occ) /\ Occ \subseteq Int
  <2>1. MaxOcc \in Int /\ 1 \in Int
    BY ScheduleAssumption
  <2>2. IsFiniteSet(1..MaxOcc)
    BY <2>1, FS_Interval
  <2>3. 1..MaxOcc \subseteq Int
    BY <2>1
  <2> QED
    BY <2>2, <2>3 DEF Occ
<1>2. IsFiniteSet(set) /\ set \in SUBSET Int
  BY <1>1, FS_Subset
<1>3. ASSUME NEW o \in Oldest(set, n), NEW d \in set, d < o PROVE d \in Oldest(set, n)
  <2>1. o \in set /\ Cardinality({q \in set : q < o}) < n
    BY DEF Oldest
  <2>2. Cardinality({q \in set : q < d}) < n
    BY <1>2, <1>3, <2>1, FirstAreClosed
  <2> QED
    BY <2>2 DEF Oldest
<1> QED
  BY <1>3 DEF Oldest

\* Where an evaluation starts: what is between the cursor and there has left the window.
LEMMA WindowStarts ==
    ASSUME VarsOK, NEW last \in 0..MaxOcc, NEW at \in 0..MaxOcc, NEW since,
           since = Max({last} \union {o \in 0..at : o + definition.window <= at})
    PROVE  /\ since \in 0..MaxOcc /\ last <= since
           /\ \A o \in Occ : last < o /\ o <= since => o <= at /\ o + definition.window <= at
           /\ \A o \in Occ : since < o /\ o <= at => o + definition.window > at
<1> DEFINE S == {last} \union {o \in 0..at : o + definition.window <= at}
<1>1. MaxOcc \in Nat /\ S \in SUBSET (0..MaxOcc) /\ S # {} /\ last \in S /\ definition.window \in Nat
  BY ScheduleAssumption DEF VarsOK
<1>2. since \in S /\ \A o \in S : o <= since
  BY <1>1, MaxIsGreatest
<1>3. \A o \in Occ : last < o /\ o <= since => o <= at /\ o + definition.window <= at
  BY <1>1, <1>2 DEF Occ
<1>4. \A o \in Occ : since < o /\ o <= at => o + definition.window > at
  BY <1>1, <1>2 DEF Occ
<1> QED
  BY <1>1, <1>2, <1>3, <1>4

\* What Decide makes of the row it has read: the occurrences that are due, the
\* Runs that were seen, what fires and what is held back.
Decided(k, since, due, seen, fires, held) ==
    LET last == proc[k].snap.last
        at == proc[k].at
        new == proc'[k]
    IN
    /\ last <= since
    /\ \A o \in Occ : last < o /\ o <= since => o <= at /\ o + definition.window <= at
    /\ \A o \in due : since < o /\ o <= at /\ o + definition.window > at
    /\ due # {} => proc[k].snap.enabled /\ \A o \in Occ : since < o /\ o <= at => o \in due
    /\ seen \subseteq claims /\ \A o \in seen : o \in due \/ (last < o /\ o <= since)
    /\ skipped' = skipped \union {o \in Occ \ claims : last < o /\ o <= since}
    /\ fires \subseteq due
    /\ \A o \in fires : \A d \in due :
          IF definition.overlap = "cancel_other" THEN d <= o ELSE d < o => d \in fires
    /\ held \subseteq due \ seen
    /\ definition.overlap = "cancel_other" => held = {}
    /\ \A o \in held : \A d \in due : d <= o
    /\ Others(k)
    /\ \/ new = Idle
       \/ /\ new.pc = (IF fires = {} THEN "record" ELSE "batch")
          /\ new.fires = fires /\ new.links = seen \ fires
          /\ new.drops = (due \ fires) \ (held \union seen)
          /\ new.recovered = {o \in seen : o <= since}
          /\ new.admitted = {} /\ new.todo = {} /\ new.at = 0
          /\ new.snap.nextDue = 0
          /\ new.owedDue = proc[k].snap.nextDue
          /\ IF held # {} THEN new.nextDue = proc[k].snap.nextDue
             ELSE \/ new.nextDue = 0
                  \/ new.nextDue = at + 1 /\ \A o \in Occ : since < o /\ o <= at => o \in due

LEMMA DecideEffect ==
    ASSUME VarsOK, RowOK, NEW k \in Tickers, ProcOK(k), Decide(k)
    PROVE  \E since \in 0..MaxOcc : \E due, seen, fires, held \in SUBSET Occ :
                Decided(k, since, due, seen, fires, held)
<1> DEFINE me == proc[k]
           since == Max({me.snap.last} \union {o \in 0..me.at : o + definition.window <= me.at})
           open == me.snap.enabled /\ ~(MaxRuns # 0 /\ Remaining(me.snap) = 0)
           due == IF open THEN (since + 1)..me.at ELSE {}
           before == (me.snap.last + 1)..since
<1>1. PICK seen \in SUBSET ((due \union before) \intersect claims) :
        LET walk == seen \intersect before
            chosen == ToFire(due, me.active \/ seen \intersect live # {})
            allowed == IF MaxRuns = 0 THEN chosen ELSE Oldest(chosen, Remaining(me.snap))
            fires == IF MaxRuns = 0 \/ walk = {} THEN allowed
                     ELSE LET spent == me.snap.spent + Cardinality(walk) IN
                          Oldest(allowed, IF spent >= MaxRuns THEN 0 ELSE MaxRuns - spent)
            held == Held(due \ chosen) \ seen
            drops == (due \ fires) \ (held \union seen)
        IN
        /\ skipped' = skipped \union (before \ claims)
        /\ \/ proc' = [proc EXCEPT ![k] = [Idle EXCEPT
                    !.pc = IF fires = {} THEN "record" ELSE "batch",
                    !.fires = fires, !.links = seen \ fires,
                    !.drops = drops, !.recovered = walk,
                    !.nextDue = IF held # {} THEN me.snap.nextDue ELSE IF open THEN me.at + 1 ELSE 0,
                    !.owedDue = me.snap.nextDue]]
           \/ fires # {} /\ Ends(k)
  BY DEF Decide
<1> DEFINE walk == seen \intersect before
           active == me.active \/ seen \intersect live # {}
           chosen == ToFire(due, active)
           allowed == IF MaxRuns = 0 THEN chosen ELSE Oldest(chosen, Remaining(me.snap))
           spent == me.snap.spent + Cardinality(walk)
           fires == IF MaxRuns = 0 \/ walk = {} THEN allowed
                    ELSE Oldest(allowed, IF spent >= MaxRuns THEN 0 ELSE MaxRuns - spent)
           held == Held(due \ chosen) \ seen
           drops == (due \ fires) \ (held \union seen)
           nextDue == IF held # {} THEN me.snap.nextDue ELSE IF open THEN me.at + 1 ELSE 0
           pc == IF fires = {} THEN "record" ELSE "batch"
           new == [Idle EXCEPT !.pc = pc, !.fires = fires, !.links = seen \ fires, !.drops = drops,
                               !.recovered = walk, !.nextDue = nextDue, !.owedDue = me.snap.nextDue]
<1>2. skipped' = skipped \union (before \ claims) /\ (proc' = [proc EXCEPT ![k] = new] \/ Ends(k))
  BY <1>1
<1>3. MaxOcc \in Nat /\ MaxRuns \in Nat /\ definition.overlap \in OverlapPolicy /\ now \in 0..MaxOcc
      /\ me \in ProcRecord /\ me.snap \in SnapRecord /\ me.at \in 0..now /\ me.snap.last \in 0..MaxOcc
      /\ me.snap.nextDue \in Nat /\ me.snap.spent \in Nat /\ me.snap.held \in Nat
  <2>1. MaxOcc \in Nat /\ MaxRuns \in Nat /\ definition.overlap \in OverlapPolicy /\ now \in 0..MaxOcc
    BY ScheduleAssumption DEF VarsOK
  <2>2. me \in ProcRecord /\ me.at \in 0..now
    BY DEF VarsOK, ProcOK, Procs
  <2> HIDE DEF me
  <2>3. me.snap \in SnapRecord
    BY <2>2 DEF ProcRecord
  <2>4. /\ me.snap.last \in 0..MaxOcc /\ me.snap.nextDue \in Nat /\ me.snap.spent \in Nat
        /\ me.snap.held \in Nat
    BY <2>3 DEF SnapRecord
  <2> QED
    BY <2>1, <2>2, <2>3, <2>4
<1>4. me.at \in 0..MaxOcc /\ me.at \in Nat
  BY <1>3
<1>5. /\ since \in 0..MaxOcc /\ me.snap.last <= since
      /\ \A o \in Occ : me.snap.last < o /\ o <= since => o <= me.at /\ o + definition.window <= me.at
      /\ \A o \in Occ : since < o /\ o <= me.at => o + definition.window > me.at
  <2> DEFINE last == me.snap.last
             at == me.at
  <2>1. VarsOK /\ last \in 0..MaxOcc /\ at \in 0..MaxOcc
    BY <1>3, <1>4
  <2>2. since = Max({last} \union {o \in 0..at : o + definition.window <= at})
    OBVIOUS
  <2> HIDE DEF since, last, at
  <2>3. /\ since \in 0..MaxOcc /\ last <= since
        /\ \A o \in Occ : last < o /\ o <= since => o <= at /\ o + definition.window <= at
        /\ \A o \in Occ : since < o /\ o <= at => o + definition.window > at
    BY <2>1, <2>2, WindowStarts
  <2> QED
    BY <2>3 DEF last, at
<1>6. open \in BOOLEAN /\ (open => me.snap.enabled)
  BY <1>3 DEF SnapRecord
<1>7. Remaining(me.snap) \in Nat
  BY <1>3 DEF Remaining
<1> HIDE DEF me, since, open
<1>8. due \in SUBSET Occ /\ before \in SUBSET Occ
      /\ (\A o \in due : since < o /\ o <= me.at)
      /\ (open => \A o \in Occ : since < o /\ o <= me.at => o \in due) /\ (due # {} => open)
      /\ (\A o \in Occ : o \in before <=> me.snap.last < o /\ o <= since)
  BY <1>3, <1>4, <1>5 DEF Occ
<1> HIDE DEF due, before
<1>9. seen \subseteq claims /\ seen \subseteq Occ
      /\ (\A o \in seen : o \in due \/ (me.snap.last < o /\ o <= since))
      /\ walk = {o \in seen : o <= since} /\ walk \subseteq Occ
  <2>1. \A o \in due : ~(o <= since)
    BY <1>3, <1>5, <1>8 DEF Occ
  <2> QED
    BY <1>8, <2>1
<1>10. skipped' = skipped \union {o \in Occ \ claims : me.snap.last < o /\ o <= since}
  BY <1>2, <1>8
<1>11. me.active \in BOOLEAN
  BY <1>3 DEF ProcRecord
<1>12. /\ chosen \subseteq due /\ Held(due \ chosen) \subseteq due
       /\ definition.overlap = "cancel_other" => Held(due \ chosen) = {}
       /\ \A o \in Held(due \ chosen) : \A d \in due : d <= o
       /\ \A o \in chosen : \A d \in due :
            IF definition.overlap = "cancel_other" THEN d <= o ELSE d < o => d \in chosen
  <2>1. active \in BOOLEAN
    BY <1>11
  <2> HIDE DEF active
  <2> QED
    BY <1>8, <2>1, PolicyChooses
<1> HIDE DEF chosen
<1>13. allowed \subseteq chosen /\ \A o \in allowed : \A d \in chosen : d < o => d \in allowed
  BY <1>7, <1>8, <1>12, OldestAreClosed
<1> HIDE DEF allowed
<1>14. fires \subseteq allowed /\ \A o \in fires : \A d \in allowed : d < o => d \in fires
  <2>1. CASE MaxRuns = 0 \/ walk = {}
    BY <2>1
  <2>2. CASE ~(MaxRuns = 0 \/ walk = {})
    <3>1. (IF spent >= MaxRuns THEN 0 ELSE MaxRuns - spent) \in Nat
      <4>1. IsFiniteSet(Occ)
        BY ScheduleAssumption, FS_Interval DEF Occ
      <4>2. Cardinality(walk) \in Nat
        BY <1>9, <4>1, FS_Subset, FS_CardinalityType
      <4>3. spent \in Nat
        BY <1>3, <4>2
      <4> HIDE DEF spent
      <4> QED
        BY <1>3, <4>3
    <3>2. allowed \in SUBSET Occ
      BY <1>8, <1>12, <1>13
    <3> HIDE DEF spent
    <3> QED
      BY <2>2, <3>1, <3>2, OldestAreClosed
  <2> QED
    BY <2>1, <2>2
<1> HIDE DEF fires, walk, held
<1>15. fires \subseteq due /\ \A o \in fires : \A d \in due :
          IF definition.overlap = "cancel_other" THEN d <= o ELSE d < o => d \in fires
  BY <1>12, <1>13, <1>14
<1>16. held \subseteq due \ seen /\ (definition.overlap = "cancel_other" => held = {})
       /\ \A o \in held : \A d \in due : d <= o
  BY <1>12 DEF held
<1>17. drops \subseteq Occ /\ fires \subseteq Occ /\ (seen \ fires) \subseteq Occ /\ nextDue \in Nat
       /\ pc \in TickerPc
  BY <1>3, <1>4, <1>8, <1>9, <1>15 DEF TickerPc
<1>18. nextDue = IF held # {} THEN me.snap.nextDue ELSE IF open THEN me.at + 1 ELSE 0
  OBVIOUS
<1>19. drops = (due \ fires) \ (held \union seen) /\ pc = (IF fires = {} THEN "record" ELSE "batch")
  OBVIOUS
<1> HIDE DEF drops, nextDue, pc
<1>20. new \in ProcRecord
  <2>1. me.snap.nextDue \in Nat /\ walk \in SUBSET Occ
    BY <1>3, <1>9
  <2> QED
    BY <1>17, <2>1, IdleIsProc DEF ProcRecord
<1>21. /\ new.pc = pc /\ new.fires = fires /\ new.links = seen \ fires /\ new.drops = drops
       /\ new.recovered = walk /\ new.nextDue = nextDue /\ new.owedDue = me.snap.nextDue
       /\ new.admitted = {} /\ new.todo = {} /\ new.at = 0 /\ new.snap.nextDue = 0
  BY IdleIsProc DEF ProcRecord
<1> HIDE DEF new
<1>22. Others(k) /\ (proc'[k] = new \/ proc'[k] = Idle)
  <2>1. k \in Procs /\ proc \in [Procs -> ProcRecord]
    BY DEF Procs, VarsOK
  <2> QED
    BY <1>2, <1>20, <2>1, EndsEffect DEF Others
<1>23. due # {} => me.snap.enabled /\ \A o \in Occ : since < o /\ o <= me.at => o \in due
  BY <1>6, <1>8
<1>24. \A o \in due : since < o /\ o <= me.at /\ o + definition.window > me.at
  BY <1>5, <1>8
<1>25. IF held # {} THEN nextDue = me.snap.nextDue
       ELSE \/ nextDue = 0
            \/ nextDue = me.at + 1 /\ \A o \in Occ : since < o /\ o <= me.at => o \in due
  BY <1>6, <1>8, <1>18
<1> QED
  <2>1. since \in 0..MaxOcc /\ due \in SUBSET Occ /\ seen \in SUBSET Occ /\ fires \in SUBSET Occ
        /\ held \in SUBSET Occ
    BY <1>5, <1>8, <1>9, <1>15, <1>16
  <2> USE <2>1
  <2> WITNESS since \in 0..MaxOcc
  <2> WITNESS due \in SUBSET Occ, seen \in SUBSET Occ, fires \in SUBSET Occ, held \in SUBSET Occ
  <2> QED
    BY <1>5, <1>9, <1>10, <1>15, <1>16, <1>19, <1>21, <1>22, <1>23, <1>24, <1>25 DEF me, Decided

\* The first of what is to fire has its Run now.
LEMMA AdmitEffect ==
    ASSUME VarsOK, NEW k \in Tickers, Admit(k)
    PROVE  \E o \in proc[k].fires :
              /\ \A f \in proc[k].fires : o <= f
              /\ Others(k) /\ proc[k].pc = "batch" /\ proc'[k].pc = "batch"
              /\ proc'[k].fires = proc[k].fires \ {o} /\ proc'[k].links = proc[k].links \union {o}
              /\ proc'[k].admitted = IF o \in claims THEN proc[k].admitted ELSE proc[k].admitted \union {o}
              /\ proc'[k].drops = proc[k].drops /\ proc'[k].recovered = proc[k].recovered
              /\ proc'[k].nextDue = proc[k].nextDue /\ proc'[k].owedDue = proc[k].owedDue
              /\ proc'[k].snap = proc[k].snap /\ proc'[k].at = proc[k].at /\ proc'[k].todo = proc[k].todo
              /\ claims' = claims \union {o}
              /\ live' = (IF o \in claims THEN live ELSE live \union {o})
<1> DEFINE o == Min(proc[k].fires)
<1>1. proc \in [Procs -> ProcRecord] /\ k \in Procs /\ proc[k].fires \in SUBSET Occ
      /\ proc[k].fires # {} /\ proc[k].pc = "batch"
  BY DEF VarsOK, Procs, ProcRecord, Admit
<1>2. o \in proc[k].fires /\ o \in Occ /\ \A f \in proc[k].fires : o <= f
  <2>1. proc[k].fires \in SUBSET Nat
    BY <1>1 DEF Occ
  <2> QED
    BY <1>1, <2>1, MinIsLeast
<1>3. claims' = claims \union {o} /\ live' = (IF o \in claims THEN live ELSE live \union {o})
  BY DEF Admit, CreatesRun, runVars
<1> DEFINE admitted == IF o \in claims THEN proc[k].admitted ELSE proc[k].admitted \union {o}
           new == [proc[k] EXCEPT !.fires = @ \ {o}, !.links = @ \union {o}, !.admitted = admitted]
<1>4. proc' = [proc EXCEPT ![k] = new]
  <2>1. CASE o \in claims
    <3>1. proc' = [proc EXCEPT ![k].fires = @ \ {o}, ![k].links = @ \union {o}]
      BY <2>1 DEF Admit, Duplicate
    <3> QED
      BY <1>1, <2>1, <3>1 DEF ProcRecord
  <2>2. CASE o \notin claims
    <3>1. proc' = [proc EXCEPT ![k].fires = @ \ {o}, ![k].links = @ \union {o}, ![k].admitted = @ \union {o}]
      BY <2>2 DEF Admit
    <3> QED
      BY <1>1, <2>2, <3>1 DEF ProcRecord
  <2> QED
    BY <2>1, <2>2
<1>5. admitted \in SUBSET Occ /\ admitted = IF o \in claims THEN proc[k].admitted ELSE proc[k].admitted \union {o}
  BY <1>1, <1>2 DEF ProcRecord
<1> HIDE DEF admitted, o
<1>6. new \in ProcRecord
  <2>1. proc[k] \in ProcRecord /\ o \in Occ /\ admitted \in SUBSET Occ
    BY <1>1, <1>2, <1>5
  <2> QED
    BY <2>1 DEF ProcRecord
<1>7. /\ new.pc = "batch" /\ new.fires = proc[k].fires \ {o} /\ new.links = proc[k].links \union {o}
      /\ new.admitted = admitted /\ new.drops = proc[k].drops /\ new.recovered = proc[k].recovered
      /\ new.nextDue = proc[k].nextDue /\ new.owedDue = proc[k].owedDue
      /\ new.snap = proc[k].snap /\ new.at = proc[k].at /\ new.todo = proc[k].todo
  BY <1>1 DEF ProcRecord
<1> HIDE DEF new
<1>8. Others(k) /\ proc'[k] = new
  BY <1>1, <1>4, <1>6 DEF Others
<1> QED
  BY <1>1, <1>2, <1>3, <1>5, <1>7, <1>8

LEMMA AdmitFailsEffect ==
    ASSUME VarsOK, NEW k \in Tickers, AdmitFails(k)
    PROVE  /\ Others(k) /\ proc[k].pc = "batch" /\ proc'[k].pc = "batch"
           /\ proc'[k].fires = {} /\ proc'[k].links = proc[k].links
           /\ proc'[k].admitted = proc[k].admitted
           /\ proc'[k].drops = {d \in proc[k].drops : \E l \in proc[k].links : d < l}
           /\ proc'[k].recovered = proc[k].recovered
           /\ proc'[k].nextDue = proc[k].owedDue /\ proc'[k].owedDue = proc[k].owedDue
           /\ proc'[k].snap = proc[k].snap /\ proc'[k].at = proc[k].at /\ proc'[k].todo = proc[k].todo
           /\ \E o \in proc[k].fires :
                /\ \A f \in proc[k].fires : o <= f
                /\ \/ UNCHANGED <<claims, live>>
                   \/ o \notin claims /\ claims' = claims \union {o} /\ live' = live \union {o}
<1> DEFINE drops == {d \in proc[k].drops : \E l \in proc[k].links : d < l}
           new == [proc[k] EXCEPT !.fires = {}, !.nextDue = proc[k].owedDue, !.drops = drops]
<1>1. proc \in [Procs -> ProcRecord] /\ k \in Procs /\ proc[k].pc = "batch"
  BY DEF VarsOK, Procs, AdmitFails
<1>2. proc' = [proc EXCEPT ![k] = new]
  BY <1>1 DEF AdmitFails, Stops
<1>3. drops \in SUBSET Occ
  BY <1>1 DEF ProcRecord
<1> HIDE DEF drops
<1>4. new \in ProcRecord
  <2>1. proc[k] \in ProcRecord /\ drops \in SUBSET Occ
    BY <1>1, <1>3
  <2> QED
    BY <2>1 DEF ProcRecord
<1>5. /\ new.pc = "batch" /\ new.fires = {} /\ new.links = proc[k].links
      /\ new.admitted = proc[k].admitted /\ new.drops = drops /\ new.recovered = proc[k].recovered
      /\ new.nextDue = proc[k].owedDue /\ new.owedDue = proc[k].owedDue
      /\ new.snap = proc[k].snap /\ new.at = proc[k].at /\ new.todo = proc[k].todo
  BY <1>1 DEF ProcRecord
<1> HIDE DEF new
<1>6. Others(k) /\ proc'[k] = new
  BY <1>1, <1>2, <1>4 DEF Others
<1> DEFINE o == Min(proc[k].fires)
<1>7. o \in proc[k].fires /\ \A f \in proc[k].fires : o <= f
  <2>1. proc[k].fires \in SUBSET Nat
    BY <1>1 DEF ProcRecord, Occ
  <2> QED
    BY <2>1, MinIsLeast DEF AdmitFails
<1>8. \/ UNCHANGED <<claims, live>>
      \/ o \notin claims /\ claims' = claims \union {o} /\ live' = live \union {o}
  BY DEF AdmitFails, CreatesRun, runVars
<1> HIDE DEF o
<1> QED
  BY <1>1, <1>5, <1>6, <1>7, <1>8 DEF drops

------------------------------------------------------------------------------
\* admit_due starts.
LEMMA TickReadsEffect ==
    ASSUME VarsOK, RowOK, NEW k \in Tickers, TickReads(k)
    PROVE  /\ Others(k) /\ proc'[k].pc \in {"probe", "decide"}
           /\ proc'[k].todo = OldMarkers /\ proc'[k].snap = Snap /\ proc'[k].at = now
           /\ proc'[k].fires = {} /\ proc'[k].admitted = {} /\ proc'[k].links = {}
           /\ proc'[k].drops = {} /\ proc'[k].recovered = {}
           /\ proc'[k].nextDue = 0 /\ proc'[k].owedDue = 0
<1>1. k \in Procs /\ now \in (0..MaxOcc) \union Tokens
  BY DEF Procs, VarsOK
<1>2. PICK b \in BOOLEAN : b <=> row.pointer \in live
  OBVIOUS
<1>3. PICK pc \in {"probe", "decide"} : pc = IF OldMarkers = {} THEN "decide" ELSE "probe"
  OBVIOUS
<1>4. proc' = [proc EXCEPT ![k] = [Idle EXCEPT !.pc = pc, !.todo = OldMarkers, !.snap = Snap,
                                               !.at = now, !.active = b]]
  BY <1>2, <1>3 DEF TickReads
<1>5. pc \in TickerPc \union CallerPc
  BY <1>3 DEF TickerPc
<1>6. /\ Others(k) /\ proc'[k].pc = pc /\ proc'[k].todo = OldMarkers
      /\ proc'[k].snap = Snap /\ proc'[k].at = now
      /\ proc'[k].fires = {} /\ proc'[k].admitted = {} /\ proc'[k].links = {}
      /\ proc'[k].drops = {} /\ proc'[k].recovered = {}
      /\ proc'[k].nextDue = 0 /\ proc'[k].owedDue = 0
  BY <1>1, <1>4, <1>5, StartEffect
<1> QED
  BY <1>3, <1>6

LEMMA TickReadsStep == ASSUME IInv, NEW k \in Tickers, TickReads(k) PROVE IInv'
<1>1. VarsOK /\ RowOK /\ k \in Procs /\ k \notin Callers /\ now \in 0..now
  BY ScheduleAssumption DEF IInv, VarsOK, Procs
<1>2. UNCHANGED <<definition, now, row, counted, claims, live, skipped, used>>
  BY DEF TickReads, keptVars, runVars
<1>3. Snap.enabled = row.enabled /\ Snap.last = row.last /\ Snap.nextDue = row.nextDue
  BY <1>1, SnapIsSnap
<1>4. ProcOK(k)'
  BY <1>1, <1>2, <1>3, TickReadsEffect DEF RowOK, ProcOK, TickerPc, VarsOK
<1>5. PlanOK(k)'
  BY <1>1, <1>2, <1>3, TickReadsEffect DEF IInv, PlanOK, Owes, Gone
<1> QED
  BY <1>1, <1>2, <1>4, <1>5, TickReadsEffect, OwnStep DEF Others, VarsOK

\* Decide: what the plan would pass is gone, or it is the plan's own to skip.
LEMMA DecideStep == ASSUME IInv, NEW k \in Tickers, Decide(k) PROVE IInv'
<1>1. VarsOK /\ RowOK /\ ProcOK(k) /\ k \in Procs /\ k \notin Callers
  BY ScheduleAssumption DEF IInv, Procs
<1>2. UNCHANGED <<definition, now, used, row, counted, claims, live>>
  BY DEF Decide, keptVars, runVars
<1>3. Owes(proc[k].snap.enabled, proc[k].snap.last, proc[k].snap.nextDue)
  BY DEF IInv, PlanOK, Decide
<1> DEFINE last == proc[k].snap.last
           at == proc[k].at
           new == proc'[k]
<1>4. PICK since \in 0..MaxOcc, due \in SUBSET Occ, seen \in SUBSET Occ, fires \in SUBSET Occ,
           held \in SUBSET Occ :
              /\ last <= since
              /\ \A o \in Occ : last < o /\ o <= since => o <= at /\ o + definition.window <= at
              /\ \A o \in due : since < o /\ o <= at /\ o + definition.window > at
              /\ due # {} => proc[k].snap.enabled /\ \A o \in Occ : since < o /\ o <= at => o \in due
              /\ seen \subseteq claims /\ \A o \in seen : o \in due \/ (last < o /\ o <= since)
              /\ skipped' = skipped \union {o \in Occ \ claims : last < o /\ o <= since}
              /\ fires \subseteq due
              /\ \A o \in fires : \A d \in due :
                    IF definition.overlap = "cancel_other" THEN d <= o ELSE d < o => d \in fires
              /\ held \subseteq due \ seen
              /\ definition.overlap = "cancel_other" => held = {}
              /\ \A o \in held : \A d \in due : d <= o
              /\ Others(k)
              /\ \/ new = Idle
                 \/ /\ new.pc = (IF fires = {} THEN "record" ELSE "batch")
                    /\ new.fires = fires /\ new.links = seen \ fires
                    /\ new.drops = (due \ fires) \ (held \union seen)
                    /\ new.recovered = {o \in seen : o <= since}
                    /\ new.admitted = {} /\ new.todo = {} /\ new.at = 0
                    /\ new.snap.nextDue = 0
                    /\ new.owedDue = proc[k].snap.nextDue
                    /\ IF held # {} THEN new.nextDue = proc[k].snap.nextDue
                       ELSE \/ new.nextDue = 0
                            \/ new.nextDue = at + 1 /\ \A o \in Occ : since < o /\ o <= at => o \in due
  BY <1>1, DecideEffect DEF Decided
<1>5. skipped \subseteq skipped' /\ skipped' \subseteq Occ
  BY <1>1, <1>4 DEF VarsOK
<1>6. Gone \subseteq Gone' /\ claims \subseteq Gone'
  BY <1>2, <1>5 DEF Gone
<1>7. last \in Nat /\ at \in Nat /\ since \in Nat /\ now \in Nat /\ at <= now /\ Occ \subseteq Nat
  BY <1>1, ScheduleAssumption DEF VarsOK, ProcOK, ProcRecord, SnapRecord, Occ
<1>8. \A o \in Occ : o <= since => o \in Gone'
  <2> SUFFICES ASSUME NEW o \in Occ, o <= since PROVE o \in Gone'
    OBVIOUS
  <2>1. CASE last < o
    BY <1>2, <1>4, <2>1 DEF Gone
  <2>2. CASE ~(last < o)
    BY <1>3, <1>6, <2>2 DEF Owes
  <2> QED
    BY <2>1, <2>2
<1>9. ProcOK(k)' /\ PlanOK(k)'
  <2>1. CASE new = Idle
    BY <1>1, <1>2, <2>1, IdleOK
  <2>2. CASE new # Idle
    <3>1. /\ new.pc = (IF fires = {} THEN "record" ELSE "batch")
          /\ new.fires = fires /\ new.links = seen \ fires
          /\ new.drops = (due \ fires) \ (held \union seen)
          /\ new.recovered = {o \in seen : o <= since}
          /\ new.admitted = {} /\ new.at = 0 /\ new.snap.nextDue = 0
          /\ new.owedDue = proc[k].snap.nextDue
          /\ IF held # {} THEN new.nextDue = proc[k].snap.nextDue
             ELSE \/ new.nextDue = 0
                  \/ new.nextDue = at + 1 /\ \A o \in Occ : since < o /\ o <= at => o \in due
      BY <1>4, <2>2
    <3>2. \A o \in due \union seen : o <= at
      BY <1>4
    <3>3. proc[k].snap.nextDue \in Nat /\ proc[k].snap.nextDue <= now + 1
      BY <1>1 DEF VarsOK, ProcOK, ProcRecord, SnapRecord
    <3>4. new.nextDue <= now + 1
      BY <1>7, <3>1, <3>3
    <3> HIDE DEF new, last, at
    <3>5. ProcOK(k)'
      <4>1. \A o \in new.fires \union new.links \union new.drops : o <= now
        <5>1. new.fires \union new.links \union new.drops \subseteq due \union seen
          BY <1>4, <3>1
        <5>2. \A o \in due \union seen : o \in Nat /\ o <= at
          BY <1>7, <3>2
        <5>3. \A o \in due \union seen : o <= now
          BY <1>7, <5>2
        <5> QED
          BY <5>1, <5>3
      <4>2. new.recovered \subseteq new.links
        <5>1. \A o \in fires : ~(o <= since)
          BY <1>4, <1>7
        <5> QED
          BY <3>1, <5>1
      <4>3. new.links \subseteq claims /\ new.pc \in TickerPc /\ new.pc \in {"batch", "record"}
            /\ (new.pc = "record" => new.fires = {})
        BY <1>4, <3>1 DEF TickerPc
      <4> QED
        BY <1>1, <1>2, <1>7, <3>1, <3>3, <3>4, <4>1, <4>2, <4>3 DEF ProcOK, new
    <3>6. PlanOK(k)'
      <4> DEFINE mine == Gone' \union new.drops
      <4>1. ASSUME NEW o \in Occ, o <= at, o \notin mine, due # {} \/ o <= since
            PROVE  o \in due /\ o \notin seen /\ o \in fires \union held
        <5>1. ~(o <= since)
          BY <1>8, <4>1
        <5>2. o \in due
          BY <1>4, <1>7, <4>1, <5>1
        <5>3. o \notin seen
          BY <1>4, <1>6, <4>1
        <5> QED
          BY <3>1, <4>1, <5>2, <5>3
      <4>2. ASSUME NEW l \in new.links, NEW o \in Occ, o < l PROVE o \in mine
        <5> SUFFICES ASSUME o \notin mine PROVE FALSE
          OBVIOUS
        <5>1. l \in seen /\ l \in claims /\ l <= at /\ l \in Occ
          BY <1>4, <3>1, <3>2
        <5>2. l \in due
          BY <1>4, <1>7, <1>8, <4>2, <5>1
        <5>3. o \in due /\ o \in fires \union held
          BY <1>7, <4>1, <4>2, <5>1, <5>2
        <5>4. CASE definition.overlap = "cancel_other"
          BY <1>4, <1>7, <4>2, <5>2, <5>3, <5>4
        <5>5. CASE definition.overlap # "cancel_other"
          BY <1>6, <4>2, <5>1, <5>5 DEF IInv, InOrder
        <5> QED
          BY <5>4, <5>5
      <4>3. ASSUME NEW f \in new.fires, NEW o \in Occ, o < f, o \notin fires
            PROVE  o \in IF definition.overlap = "cancel_other" THEN mine ELSE Gone'
        <5>1. f \in due /\ f <= at
          BY <1>4, <3>1
        <5>2. CASE definition.overlap = "cancel_other"
          <6>1. held = {}
            BY <1>4, <5>2
          <6> QED
            BY <1>7, <4>1, <4>3, <5>1, <5>2, <6>1
        <5>3. CASE definition.overlap # "cancel_other"
          <6>1. o \notin due
            BY <1>4, <3>1, <4>3, <5>1, <5>3
          <6>2. o <= since
            <7>1. o \in Nat /\ f \in Nat /\ o <= at /\ due # {}
              BY <1>7, <4>3, <5>1
            <7>2. \A q \in Occ : since < q /\ q <= at => q \in due
              BY <1>4, <7>1
            <7>3. ~(since < o)
              BY <6>1, <7>1, <7>2
            <7> QED
              BY <1>7, <7>1, <7>3
          <6> QED
            BY <1>8, <5>3, <6>2
        <5> QED
          BY <5>2, <5>3
      <4>4. ASSUME NEW o \in Occ, o \notin mine, o \notin fires PROVE new.nextDue <= o
        <5>1. o \notin Gone
          BY <1>6, <4>4
        <5>2. CASE held # {}
          <6>1. due # {}
            BY <1>4, <5>2
          <6> QED
            BY <1>3, <1>4, <3>1, <5>1, <5>2, <6>1 DEF Owes
        <5>3. CASE held = {} /\ new.nextDue = 0
          BY <1>7, <5>3
        <5>4. CASE held = {} /\ new.nextDue = at + 1 /\ \A q \in Occ : since < q /\ q <= at => q \in due
          <6>1. ~(o <= at)
            <7> SUFFICES ASSUME o <= at PROVE FALSE
              OBVIOUS
            <7>1. ~(o <= since)
              BY <1>8, <4>4
            <7>2. o \in due
              BY <1>7, <5>4, <7>1
            <7> QED
              BY <4>1, <4>4, <5>4, <7>2
          <6> QED
            BY <1>7, <5>4, <6>1
        <5> QED
          BY <3>1, <5>2, <5>3, <5>4
      <4>5. ASSUME NEW o \in Occ, o \notin Gone', new.pc = "batch" PROVE new.owedDue <= o
        <5>1. o \notin Gone /\ due # {}
          BY <1>4, <1>6, <3>1, <4>5
        <5> QED
          BY <1>3, <1>4, <3>1, <5>1 DEF Owes
      <4>6. ASSUME NEW d \in new.drops, NEW o \in Occ, o < d, new.pc = "record" PROVE o \in mine
        <5> SUFFICES ASSUME o \notin mine PROVE FALSE
          OBVIOUS
        <5>1. d \in due /\ d <= at /\ d \in Nat /\ fires = {}
          BY <1>4, <1>7, <3>1, <4>6
        <5>2. o \in held
          BY <1>7, <4>1, <4>6, <5>1
        <5> QED
          BY <1>4, <1>7, <4>6, <5>1, <5>2
      <4>7. new.pc \in {"batch", "record"}
        BY <3>1
      <4> QED
        BY <1>2, <3>1, <4>2, <4>3, <4>4, <4>5, <4>6, <4>7 DEF PlanOK, new
    <3> QED
      BY <3>5, <3>6
  <2> QED
    BY <2>1, <2>2
<1>10. RowOK'
  BY <1>1, <1>2 DEF RowOK
<1>11. Owes(row.enabled, row.last, row.nextDue)' /\ InOrder'
  BY <1>2, <1>6 DEF IInv, Owes, InOrder
<1> QED
  BY <1>1, <1>2, <1>4, <1>5, <1>9, <1>10, <1>11, ProcessStep DEF VarsOK, Others

\* _admit_batch: an occurrence that gets its Run has nothing owed before it.
LEMMA AdmitStep == ASSUME IInv, NEW k \in Tickers, Admit(k) PROVE IInv'
<1>1. VarsOK /\ RowOK /\ ProcOK(k) /\ PlanOK(k) /\ k \in Procs /\ k \notin Callers
  BY ScheduleAssumption DEF IInv, Procs
<1>2. UNCHANGED <<definition, now, used, row, counted, skipped>>
  BY DEF Admit, keptVars
<1> DEFINE me == proc[k]
           new == proc'[k]
<1>3. PICK o \in me.fires :
          /\ \A f \in me.fires : o <= f
          /\ Others(k) /\ me.pc = "batch" /\ new.pc = "batch"
          /\ new.fires = me.fires \ {o} /\ new.links = me.links \union {o}
          /\ new.admitted = (IF o \in claims THEN me.admitted ELSE me.admitted \union {o})
          /\ new.drops = me.drops /\ new.recovered = me.recovered
          /\ new.nextDue = me.nextDue /\ new.owedDue = me.owedDue
          /\ new.snap = me.snap /\ new.at = me.at /\ new.todo = me.todo
          /\ claims' = claims \union {o}
          /\ live' = (IF o \in claims THEN live ELSE live \union {o})
  BY <1>1, AdmitEffect
<1>4. me.fires \subseteq Occ /\ o \in Occ /\ Occ \subseteq Nat
  BY <1>1 DEF VarsOK, ProcRecord, Occ
<1>5. claims' \subseteq Occ \union Tokens /\ live' \subseteq claims' /\ claims \subseteq claims'
  BY <1>1, <1>3, <1>4 DEF VarsOK
<1>6. Gone' = Gone \union {o}
  BY <1>2, <1>3 DEF Gone
<1>7. \A q \in Occ : q < o =>
          q \in IF definition.overlap = "cancel_other" THEN Gone \union me.drops ELSE Gone
  <2> SUFFICES ASSUME NEW q \in Occ, q < o
               PROVE  q \in IF definition.overlap = "cancel_other" THEN Gone \union me.drops ELSE Gone
    OBVIOUS
  <2>1. q \notin me.fires
    <3>1. q \in Nat /\ o \in Nat /\ ~(o <= q)
      BY <1>4
    <3> QED
      BY <1>3, <3>1
  <2> QED
    BY <1>1, <1>3, <2>1 DEF PlanOK
<1> HIDE DEF me, new
<1>8. ProcOK(k)'
  <2>1. new.admitted \subseteq new.links /\ new.recovered \subseteq new.links /\ new.links \subseteq claims'
    BY <1>1, <1>3 DEF ProcOK, me
  <2>2. \A q \in new.fires \union new.links \union new.drops : q <= now
    BY <1>1, <1>3 DEF ProcOK, me
  <2>3. new.snap.nextDue <= now + 1 /\ new.nextDue <= now + 1 /\ new.owedDue <= now + 1 /\ new.at \in 0..now
    BY <1>1, <1>3 DEF ProcOK, me
  <2> QED
    BY <1>1, <1>2, <1>3, <2>1, <2>2, <2>3 DEF ProcOK, TickerPc, new
<1>9. PlanOK(k)'
  <2>1. \A l \in new.links : \A q \in Occ : q < l => q \in Gone' \union new.drops
    BY <1>1, <1>3, <1>6, <1>7 DEF PlanOK, me
  <2>2. \A f \in new.fires : \A q \in Occ : q < f =>
            q \in new.fires \union (IF definition.overlap = "cancel_other" THEN Gone' \union new.drops
                                                                           ELSE Gone')
    BY <1>1, <1>3, <1>6 DEF PlanOK, me
  <2>3. \A q \in Occ \ (Gone' \union new.drops \union new.fires) : new.nextDue <= q
    BY <1>1, <1>3, <1>6 DEF PlanOK, me
  <2>4. \A q \in Occ \ Gone' : new.owedDue <= q
    BY <1>1, <1>3, <1>6 DEF PlanOK, me
  <2> QED
    BY <1>2, <1>3, <2>1, <2>2, <2>3, <2>4 DEF PlanOK, new
<1>10. RowOK'
  BY <1>1, <1>2, <1>5 DEF RowOK
<1>11. Owes(row.enabled, row.last, row.nextDue)'
  BY <1>2, <1>6 DEF IInv, Owes
<1>12. InOrder'
  BY <1>2, <1>3, <1>6, <1>7 DEF IInv, InOrder
<1> QED
  BY <1>1, <1>2, <1>3, <1>5, <1>8, <1>9, <1>10, <1>11, <1>12, ProcessStep DEF VarsOK, Others

\* The batch ends: the tick skips what it has passed already, and no more.  If
\* the occurrence that failed has its Run, nothing is owed before that.
LEMMA AdmitFailsStep == ASSUME IInv, NEW k \in Tickers, AdmitFails(k) PROVE IInv'
<1>1. VarsOK /\ RowOK /\ ProcOK(k) /\ PlanOK(k) /\ k \in Procs /\ k \notin Callers
  BY ScheduleAssumption DEF IInv, Procs
<1>2. UNCHANGED <<definition, now, used, row, counted, skipped>>
  BY DEF AdmitFails, keptVars
<1> DEFINE me == proc[k]
           new == proc'[k]
<1>3. /\ Others(k) /\ me.pc = "batch" /\ new.pc = "batch"
      /\ new.fires = {} /\ new.links = me.links /\ new.admitted = me.admitted
      /\ new.drops = {d \in me.drops : \E l \in me.links : d < l}
      /\ new.recovered = me.recovered
      /\ new.nextDue = me.owedDue /\ new.owedDue = me.owedDue
      /\ new.snap = me.snap /\ new.at = me.at /\ new.todo = me.todo
  BY <1>1, AdmitFailsEffect
<1>4. PICK o \in me.fires :
        /\ \A f \in me.fires : o <= f
        /\ \/ UNCHANGED <<claims, live>>
           \/ o \notin claims /\ claims' = claims \union {o} /\ live' = live \union {o}
  BY <1>1, AdmitFailsEffect
<1>5. me.fires \subseteq Occ /\ o \in Occ /\ Occ \subseteq Nat
  BY <1>1 DEF VarsOK, ProcRecord, Occ
<1>6. claims' \subseteq Occ \union Tokens /\ live' \subseteq claims' /\ claims \subseteq claims'
      /\ claims' \subseteq claims \union {o}
  BY <1>1, <1>4, <1>5 DEF VarsOK
<1>7. Gone \subseteq Gone'
  BY <1>2, <1>6 DEF Gone
<1>8. definition.overlap # "cancel_other" => \A q \in Occ : q < o => q \in Gone
  <2> SUFFICES ASSUME definition.overlap # "cancel_other", NEW q \in Occ, q < o PROVE q \in Gone
    OBVIOUS
  <2>1. q \notin me.fires
    <3>1. q \in Nat /\ o \in Nat /\ ~(o <= q)
      BY <1>5
    <3> QED
      BY <1>4, <3>1
  <2> QED
    BY <1>1, <1>3, <1>4, <2>1 DEF PlanOK
<1> HIDE DEF me, new
<1>9. ProcOK(k)'
  <2>1. new.admitted \subseteq new.links /\ new.recovered \subseteq new.links /\ new.links \subseteq claims'
    BY <1>1, <1>3, <1>6 DEF ProcOK, me
  <2>2. \A q \in new.fires \union new.links \union new.drops : q <= now
    BY <1>1, <1>3 DEF ProcOK, me
  <2>3. new.snap.nextDue <= now + 1 /\ new.nextDue <= now + 1 /\ new.owedDue <= now + 1 /\ new.at \in 0..now
    BY <1>1, <1>3 DEF ProcOK, me
  <2> QED
    BY <1>1, <1>2, <1>3, <2>1, <2>2, <2>3 DEF ProcOK, TickerPc, new
<1>10. PlanOK(k)'
  <2>1. \A l \in new.links : \A q \in Occ : q < l => q \in Gone' \union new.drops
    BY <1>1, <1>3, <1>7 DEF PlanOK, me
  <2>2. \A q \in Occ \ Gone' : new.owedDue <= q
    BY <1>1, <1>3, <1>7 DEF PlanOK, me
  <2> QED
    BY <1>2, <1>3, <2>1, <2>2 DEF PlanOK, new
<1>11. RowOK'
  BY <1>1, <1>2, <1>6 DEF RowOK
<1>12. Owes(row.enabled, row.last, row.nextDue)'
  BY <1>2, <1>7 DEF IInv, Owes
<1>13. InOrder'
  BY <1>2, <1>6, <1>7, <1>8 DEF IInv, InOrder
<1> QED
  BY <1>1, <1>2, <1>3, <1>6, <1>7, <1>9, <1>10, <1>11, <1>12, <1>13, ProcessStep DEF VarsOK, Others

\* record_fire: the row takes over what the tick has consumed.
LEMMA RecordEffect ==
    ASSUME IInv, NEW k \in Tickers, Record(k)
    PROVE  /\ Others(k) /\ proc'[k] = Idle /\ proc[k].pc \in {"record", "batch"} /\ proc[k].fires = {}
           /\ UNCHANGED <<definition, now, used, claims, live>> /\ skipped' = skipped \union proc[k].drops
           /\ row' \in RowRecord /\ counted' \in [Occ \union Tokens -> Nat] /\ RowOK'
           /\ row'.pending = row.pending /\ row'.credited = row.credited \union proc[k].recovered
           /\ row.last <= row'.last /\ \A l \in proc[k].links : l <= row'.last
           /\ \A c \in Occ \union Tokens :
                counted'[c] = counted[c] + (IF c \in proc[k].admitted THEN 1 ELSE 0)
                                         + (IF c \in proc[k].recovered \ row.credited THEN 1 ELSE 0)
           /\ Owes(row.enabled, row.last, row.nextDue)'
<1> DEFINE me == proc[k]
           consumed == me.links \union (IF me.pc = "record" THEN me.drops ELSE {})
<1>1. VarsOK /\ RowOK /\ ProcOK(k) /\ PlanOK(k) /\ k \in Procs /\ me \in ProcRecord
      /\ Owes(row.enabled, row.last, row.nextDue)
  BY DEF IInv, VarsOK, Procs
<1>2. /\ me.pc \in {"record", "batch"} /\ me.fires = {} /\ Ends(k)
      /\ UNCHANGED <<definition, now, used, claims, live>> /\ skipped' = skipped \union me.drops
  BY DEF Record, keptVars, runVars
<1>3. Others(k) /\ proc'[k] = Idle
  BY <1>1, <1>2, EndsEffect
<1>4. /\ me.links \in SUBSET Occ /\ me.drops \in SUBSET Occ /\ me.admitted \in SUBSET Occ
      /\ me.recovered \in SUBSET Occ /\ me.nextDue \in 0..(now + 1) /\ me.links \subseteq claims
      /\ me.admitted \subseteq me.links /\ me.recovered \subseteq me.links
      /\ row \in RowRecord /\ now \in Nat /\ MaxOcc \in Nat /\ now <= MaxOcc
      /\ \A o \in me.links \union me.drops : o <= now
  <2>1. me.nextDue \in Nat /\ me.nextDue <= now + 1 /\ now \in 0..MaxOcc
    BY <1>1 DEF VarsOK, ProcOK, ProcRecord
  <2> QED
    BY <1>1, <2>1, ScheduleAssumption DEF VarsOK, ProcOK, ProcRecord
<1>5. consumed \in SUBSET Occ /\ consumed \subseteq me.links \union me.drops /\ me.links \subseteq consumed
  BY <1>4
<1>6. Gone' = Gone \union me.drops /\ consumed \subseteq Gone'
  BY <1>2, <1>4 DEF Gone
<1>7. \A c \in consumed : \A o \in Occ : o < c => o \in Gone'
  BY <1>1, <1>2, <1>6 DEF PlanOK
<1>8. \A o \in Occ \ Gone' : me.nextDue <= o
  BY <1>1, <1>2, <1>6 DEF PlanOK
<1>9. \A o \in Occ \ Gone' : row.last < o /\ (row.enabled => row.nextDue <= o)
  BY <1>1, <1>6 DEF Owes
<1>10. Occ \subseteq Nat /\ row.last \in Nat
  BY <1>4 DEF Occ, RowRecord
<1> HIDE DEF me, consumed
<1>11. CASE consumed # {}
  <2> DEFINE firedAt == Max(consumed)
             pointer == Max(me.links \union {0})
  <2>1. Advance(firedAt, pointer, me.nextDue, me.admitted, me.recovered)
    BY <1>11 DEF Record, me, consumed
  <2>2. firedAt \in consumed /\ \A c \in consumed : c <= firedAt
    <3>1. consumed \in SUBSET (0..MaxOcc)
      BY <1>4, <1>5 DEF Occ
    <3> QED
      BY <1>4, <1>11, <3>1, MaxIsGreatest
  <2>3. pointer \in me.links \union {0}
    <3>1. me.links \union {0} \in SUBSET (0..MaxOcc) /\ me.links \union {0} # {}
      BY <1>4 DEF Occ
    <3> QED
      BY <1>4, <3>1, MaxIsGreatest
  <2> HIDE DEF firedAt, pointer
  <2>4. firedAt \in Occ /\ firedAt \in Nat /\ firedAt <= now
    BY <1>4, <1>5, <1>10, <2>2
  <2>5. firedAt \in 0..now /\ firedAt # 0 /\ pointer \in claims \union {0}
    BY <1>4, <2>3, <2>4 DEF Occ
  <2>6. me.recovered \subseteq claims
    BY <1>4
  <2>7. /\ row' \in RowRecord /\ counted' \in [Occ \union Tokens -> Nat] /\ RowOK'
        /\ row'.last = (IF firedAt # 0 /\ firedAt >= row.last THEN firedAt ELSE row.last)
        /\ row'.credited = row.credited \union me.recovered /\ row'.pending = row.pending
        /\ row'.enabled =>
             /\ row.enabled
             /\ row'.nextDue = IF firedAt = 0 \/ firedAt >= row.last THEN me.nextDue ELSE row.nextDue
        /\ \A c \in Occ \union Tokens :
             counted'[c] = counted[c] + (IF c \in me.admitted THEN 1 ELSE 0)
                                      + (IF c \in me.recovered \ row.credited THEN 1 ELSE 0)
    <3>1. /\ VarsOK /\ RowOK /\ UNCHANGED <<now, claims, used>> /\ me.nextDue \in 0..(now + 1)
          /\ me.admitted \in SUBSET Occ /\ me.recovered \in SUBSET Occ
          /\ firedAt \in 0..now /\ pointer \in claims \union {0}
      BY <1>1, <1>2, <1>4, <2>5
    <3>2. Advanced(firedAt, me.nextDue, me.admitted, me.recovered)
      BY <2>1, <2>6, <3>1, AdvanceRow
    <3> QED
      BY <3>2 DEF Advanced
  <2>8. row.last <= row'.last /\ firedAt <= row'.last
    BY <1>10, <2>4, <2>5, <2>7
  <2>9. \A l \in me.links : l <= row'.last
    <3> SUFFICES ASSUME NEW l \in me.links PROVE l <= row'.last
      OBVIOUS
    <3>1. l \in Nat /\ l <= firedAt /\ row'.last \in Nat
      BY <1>4, <1>5, <1>10, <2>2, <2>7 DEF RowRecord
    <3> QED
      BY <2>4, <2>8, <3>1
  <2>10. ASSUME NEW o \in Occ, o \notin Gone' PROVE row'.last < o
    <3>1. firedAt < o
      <4>1. ~(o < firedAt) /\ o # firedAt /\ o \in Nat
        BY <1>6, <1>7, <1>10, <2>2, <2>10
      <4> QED
        BY <2>4, <4>1
    <3> QED
      BY <1>9, <2>7, <2>10, <3>1
  <2>11. ASSUME NEW o \in Occ, o \notin Gone', row'.enabled PROVE row'.nextDue <= o
    BY <1>8, <1>9, <2>7, <2>11
  <2>12. Owes(row.enabled, row.last, row.nextDue)'
    BY <2>10, <2>11 DEF Owes
  <2> QED
    BY <1>2, <1>3, <2>7, <2>8, <2>9, <2>12 DEF me
<1>12. CASE consumed = {}
  <2>1. me.links = {} /\ me.admitted = {} /\ me.recovered = {}
    BY <1>4, <1>5, <1>12
  <2>2. CASE me.pc = "record" /\ me.nextDue \notin {0, me.owedDue}
    <3>1. Advance(0, 0, me.nextDue, {}, {})
      BY <1>12, <2>2 DEF Record, me, consumed
    <3>2. 0 \in 0..now /\ 0 \in claims \union {0} /\ {} \in SUBSET Occ /\ {} \subseteq claims
      BY <1>4
    <3>3. /\ row' \in RowRecord /\ counted' \in [Occ \union Tokens -> Nat] /\ RowOK'
          /\ row'.last = row.last
          /\ row'.credited = row.credited \union {} /\ row'.pending = row.pending
          /\ row'.enabled => row.enabled /\ row'.nextDue = me.nextDue
          /\ \A c \in Occ \union Tokens :
               counted'[c] = counted[c] + (IF c \in {} THEN 1 ELSE 0)
                                        + (IF c \in {} \ row.credited THEN 1 ELSE 0)
      <4>1. VarsOK /\ RowOK /\ UNCHANGED <<now, claims, used>> /\ me.nextDue \in 0..(now + 1)
        BY <1>1, <1>2, <1>4
      <4>2. Advanced(0, me.nextDue, {}, {})
        BY <3>1, <3>2, <4>1, AdvanceRow
      <4> QED
        BY <4>2 DEF Advanced
    <3>4. Owes(row.enabled, row.last, row.nextDue)'
      BY <1>8, <1>9, <3>3 DEF Owes
    <3>5. row.last <= row'.last
      BY <1>10, <3>3
    <3> QED
      BY <1>2, <1>3, <2>1, <3>3, <3>4, <3>5 DEF me
  <2>3. CASE ~(me.pc = "record" /\ me.nextDue \notin {0, me.owedDue})
    <3>1. row' = row /\ counted' = counted
      BY <1>12, <2>3 DEF Record, me, consumed
    <3>2. Owes(row.enabled, row.last, row.nextDue)'
      BY <1>9, <3>1 DEF Owes
    <3>3. RowOK'
      BY <1>1, <1>2, <3>1 DEF RowOK
    <3>4. \A c \in Occ \union Tokens : counted[c] \in Nat
      BY <1>1 DEF VarsOK
    <3> QED
      BY <1>1, <1>2, <1>3, <1>4, <1>10, <2>1, <3>1, <3>2, <3>3, <3>4 DEF me, VarsOK
  <2> QED
    BY <2>2, <2>3
<1> QED
  BY <1>11, <1>12

LEMMA RecordStep == ASSUME IInv, NEW k \in Tickers, Record(k) PROVE IInv'
<1>1. VarsOK /\ k \in Procs /\ proc \in [Procs -> ProcRecord]
  BY DEF IInv, VarsOK, Procs
<1>2. /\ Others(k) /\ proc'[k] = Idle
      /\ UNCHANGED <<definition, now, used, claims, live>> /\ skipped' = skipped \union proc[k].drops
      /\ row' \in RowRecord /\ counted' \in [Occ \union Tokens -> Nat] /\ RowOK'
      /\ Owes(row.enabled, row.last, row.nextDue)'
  BY RecordEffect
<1>3. skipped' \subseteq Occ /\ skipped \subseteq skipped'
  BY <1>1, <1>2 DEF VarsOK, ProcRecord
<1>4. InOrder'
  BY <1>2, <1>3 DEF IInv, InOrder, Gone
<1>5. ProcOK(k)' /\ (k \in Tickers => PlanOK(k)')
  BY <1>1, <1>2, IdleOK
<1> QED
  BY <1>1, <1>2, <1>3, <1>4, <1>5, ProcessStep DEF VarsOK, Others

------------------------------------------------------------------------------
\* A fire by hand

LEMMA FireEffect ==
    ASSUME VarsOK, RowOK, NEW m \in Callers, NEW t \in Tokens, Fire(m, t)
    PROVE  /\ Others(m) /\ proc[m].pc = "idle" /\ proc'[m].pc \in {"probe", "lookup"}
           /\ proc'[m].todo = OldMarkers /\ proc'[m].snap = Snap /\ proc'[m].at = t
           /\ proc'[m].fires = {} /\ proc'[m].admitted = {} /\ proc'[m].links = {}
           /\ proc'[m].drops = {} /\ proc'[m].recovered = {}
           /\ proc'[m].nextDue = 0 /\ proc'[m].owedDue = 0
<1>1. m \in Procs /\ t \in (0..MaxOcc) \union Tokens
  BY DEF Procs
<1>2. PICK pc \in {"probe", "lookup"} : pc = IF OldMarkers = {} THEN "lookup" ELSE "probe"
  OBVIOUS
<1>3. proc' = [proc EXCEPT ![m] = [Idle EXCEPT !.pc = pc, !.todo = OldMarkers, !.snap = Snap,
                                               !.at = t, !.active = FALSE]]
  <2>1. proc' = [proc EXCEPT ![m] = [Idle EXCEPT !.pc = pc, !.todo = OldMarkers, !.snap = Snap, !.at = t]]
    BY <1>2 DEF Fire
  <2>2. [Idle EXCEPT !.pc = pc, !.todo = OldMarkers, !.snap = Snap, !.at = t]
        = [Idle EXCEPT !.pc = pc, !.todo = OldMarkers, !.snap = Snap, !.at = t, !.active = FALSE]
    <3>1. Idle \in ProcRecord /\ Idle.active = FALSE
      BY IdleIsProc DEF Idle
    <3> QED
      BY <3>1 DEF ProcRecord
  <2> QED
    BY <2>1, <2>2
<1>4. pc \in TickerPc \union CallerPc
  BY <1>2 DEF CallerPc
<1>5. /\ Others(m) /\ proc'[m].pc = pc /\ proc'[m].todo = OldMarkers
      /\ proc'[m].snap = Snap /\ proc'[m].at = t
      /\ proc'[m].fires = {} /\ proc'[m].admitted = {} /\ proc'[m].links = {}
      /\ proc'[m].drops = {} /\ proc'[m].recovered = {}
      /\ proc'[m].nextDue = 0 /\ proc'[m].owedDue = 0
  BY <1>1, <1>3, <1>4, StartEffect
<1> QED
  BY <1>2, <1>5 DEF Fire

LEMMA FireStep == ASSUME IInv, NEW m \in Callers, NEW t \in Tokens, Fire(m, t) PROVE IInv'
<1>1. VarsOK /\ RowOK /\ m \in Procs /\ m \notin Tickers /\ now \in Nat
  BY ScheduleAssumption DEF IInv, VarsOK, Procs
<1>2. UNCHANGED <<definition, now, row, counted, claims, live, skipped>>
      /\ used' = used \union {<<m, t>>}
  BY DEF Fire, runVars
<1>3. Snap.nextDue = row.nextDue
  BY <1>1, SnapIsSnap
<1>4. ProcOK(m)'
  <2>1. <<m, t>> \in used' /\ row.nextDue <= now + 1
    BY <1>1, <1>2 DEF RowOK
  <2> QED
    BY <1>1, <1>2, <1>3, <2>1, FireEffect DEF ProcOK, CallerPc
<1>5. used \subseteq used' /\ used' \subseteq Callers \X Tokens
  BY <1>1, <1>2 DEF VarsOK
<1> QED
  BY <1>1, <1>2, <1>4, <1>5, FireEffect, OwnStep DEF Others

LEMMA LookupEffect ==
    ASSUME VarsOK, NEW m \in Callers, Lookup(m)
    PROVE  /\ Others(m) /\ proc[m].pc = "lookup"
           /\ \/ proc'[m] = Idle
              \/ /\ proc[m].at \notin claims
                 /\ proc'[m].pc = "reserve" /\ proc'[m].snap = NoSnap
                 /\ proc'[m].at = proc[m].at /\ proc'[m].todo = proc[m].todo
                 /\ proc'[m].fires = proc[m].fires /\ proc'[m].admitted = proc[m].admitted
                 /\ proc'[m].links = proc[m].links /\ proc'[m].drops = proc[m].drops
                 /\ proc'[m].recovered = proc[m].recovered
                 /\ proc'[m].nextDue = proc[m].nextDue /\ proc'[m].owedDue = proc[m].owedDue
<1>1. proc \in [Procs -> ProcRecord] /\ m \in Procs /\ NoSnap \in SnapRecord
  BY ScheduleAssumption DEF VarsOK, Procs, NoSnap, SnapRecord
<1>2. CASE Ends(m)
  BY <1>1, <1>2, EndsEffect DEF Lookup
<1>3. CASE /\ proc[m].at \notin claims
           /\ proc' = [proc EXCEPT ![m].pc = "reserve", ![m].snap = NoSnap]
  <2> DEFINE new == [proc[m] EXCEPT !.pc = "reserve", !.snap = NoSnap]
  <2>1. new \in ProcRecord /\ proc' = [proc EXCEPT ![m] = new]
    <3>1. proc[m] \in ProcRecord /\ "reserve" \in CallerPc /\ NoSnap \in SnapRecord
      BY <1>1 DEF CallerPc
    <3>2. new \in ProcRecord
      BY <3>1 DEF ProcRecord
    <3> QED
      BY <1>1, <1>3, <3>2
  <2>2. /\ new.pc = "reserve" /\ new.snap = NoSnap /\ new.at = proc[m].at /\ new.todo = proc[m].todo
        /\ new.fires = proc[m].fires /\ new.admitted = proc[m].admitted
        /\ new.links = proc[m].links /\ new.drops = proc[m].drops
        /\ new.recovered = proc[m].recovered
        /\ new.nextDue = proc[m].nextDue /\ new.owedDue = proc[m].owedDue
    BY <1>1 DEF ProcRecord
  <2> HIDE DEF new
  <2>3. Others(m) /\ proc'[m] = new
    BY <1>1, <2>1 DEF Others
  <2> QED
    BY <1>3, <2>2, <2>3 DEF Lookup
<1> QED
  BY <1>2, <1>3 DEF Lookup

LEMMA LookupStep == ASSUME IInv, NEW m \in Callers, Lookup(m) PROVE IInv'
<1>1. VarsOK /\ ProcOK(m) /\ m \in Procs /\ m \notin Tickers /\ now \in Nat
  BY ScheduleAssumption DEF IInv, VarsOK, Procs
<1>2. UNCHANGED <<definition, now, row, counted, claims, live, skipped, used>>
  BY DEF Lookup, keptVars, runVars
<1>3. ProcOK(m)'
  <2>1. CASE proc'[m] = Idle
    BY <1>1, <1>2, <2>1, IdleOK
  <2>2. CASE proc'[m] # Idle
    <3>1. proc'[m].snap.nextDue <= now + 1
      BY <1>1, <2>2, LookupEffect, IdleIsProc DEF NoSnap
    <3> QED
      BY <1>1, <1>2, <2>2, <3>1, LookupEffect DEF ProcOK, CallerPc
  <2> QED
    BY <2>1, <2>2
<1> QED
  BY <1>1, <1>2, <1>3, LookupEffect, OwnStep DEF Others, VarsOK

\* reserve_fire writes a marker of the caller's, or the fire is refused.
LEMMA ReserveEffect ==
    ASSUME VarsOK, RowOK, NEW m \in Callers, ProcOK(m), Reserve(m)
    PROVE  /\ Others(m) /\ proc[m].pc = "reserve" /\ UNCHANGED counted
           /\ row' \in RowRecord /\ RowOK' /\ row'.last = row.last /\ row'.enabled = row.enabled
           /\ row'.nextDue = row.nextDue /\ row'.credited = row.credited
           /\ late \subseteq late' /\ unsure \subseteq unsure'
           /\ \/ proc'[m] = Idle /\ row' = row
              \/ /\ proc[m].at \in claims => proc[m].at \in late'
                 /\ Shared(proc[m].at) => proc[m].at \in unsure'
                 /\ row'.pending = row.pending \union {[fire |-> proc[m].at, by |-> m, old |-> FALSE]}
                 /\ KeepsPlan(m) /\ proc'[m].pc = "create" /\ proc'[m].todo = proc[m].todo
<1>1. proc \in [Procs -> ProcRecord] /\ m \in Procs /\ row \in RowRecord
  BY DEF VarsOK, Procs
<1>2. UNCHANGED <<now, counted, claims, used>> /\ proc[m].pc = "reserve"
  BY DEF Reserve, runVars
<1>3. CASE Ends(m) /\ UNCHANGED <<row, historyVars>>
  <2>1. RowOK'
    BY <1>2, <1>3 DEF RowOK
  <2> QED
    BY <1>1, <1>2, <1>3, <2>1, EndsEffect DEF historyVars
<1>4. CASE /\ late' = IF proc[m].at \in claims THEN late \union {proc[m].at} ELSE late
           /\ unsure' = IF Shared(proc[m].at) THEN unsure \union {proc[m].at} ELSE unsure
           /\ row' = [row EXCEPT !.pending = @ \union {[fire |-> proc[m].at, by |-> m, old |-> FALSE]}]
           /\ Goes(m, "create")
  <2> DEFINE mine == [fire |-> proc[m].at, by |-> m, old |-> FALSE]
  <2>1. proc[m].at \in Tokens /\ <<m, proc[m].at>> \in used
    BY <1>2 DEF ProcOK
  <2>2. mine \in Marker /\ mine.by = m /\ mine.fire = proc[m].at
    BY <2>1 DEF Marker
  <2> HIDE DEF mine
  <2>3. row' = [row EXCEPT !.pending = row.pending \union {mine}]
    BY <1>4 DEF mine
  <2>4. row' \in RowRecord
    BY <1>1, <2>2, <2>3 DEF RowRecord
  <2>5. /\ row'.pending = row.pending \union {mine} /\ row'.last = row.last /\ row'.enabled = row.enabled
        /\ row'.nextDue = row.nextDue /\ row'.pointer = row.pointer /\ row'.credited = row.credited
    BY <1>1, <2>3 DEF RowRecord
  <2>6. RowOK'
    <3>1. IsFiniteSet(row'.pending)
      BY <2>5, FS_AddElement DEF RowOK
    <3>2. \A marker \in row'.pending : <<marker.by, marker.fire>> \in used
      BY <2>1, <2>2, <2>5 DEF RowOK
    <3> QED
      BY <1>2, <2>5, <3>1, <3>2 DEF RowOK
  <2>7. Others(m) /\ KeepsPlan(m) /\ proc'[m].pc = "create" /\ proc'[m].todo = proc[m].todo
    <3>1. "create" \in TickerPc \union CallerPc
      BY DEF CallerPc
    <3> QED
      BY <1>1, <1>4, <3>1, GoesEffect
  <2> QED
    BY <1>2, <1>4, <2>4, <2>5, <2>6, <2>7 DEF mine
<1> QED
  BY <1>3, <1>4 DEF Reserve

LEMMA ReserveStep == ASSUME IInv, NEW m \in Callers, Reserve(m) PROVE IInv'
<1>1. VarsOK /\ RowOK /\ ProcOK(m) /\ m \in Procs /\ m \notin Tickers
  BY ScheduleAssumption DEF IInv, Procs
<1>2. UNCHANGED <<definition, now, claims, live, skipped, used>>
  BY DEF Reserve, keptVars, runVars
<1>3. counted' \in [Occ \union Tokens -> Nat]
  BY <1>1, ReserveEffect DEF VarsOK
<1>4. ProcOK(m)'
  <2>1. CASE proc'[m] = Idle
    BY <1>1, <1>2, <2>1, IdleOK
  <2>2. CASE proc'[m] # Idle
    <3>1. KeepsPlan(m) /\ proc'[m].pc = "create" /\ proc[m].pc = "reserve"
      BY <1>1, <2>2, ReserveEffect
    <3> QED
      BY <1>1, <1>2, <3>1, KeptPlan DEF CallerPc
  <2> QED
    BY <2>1, <2>2
<1> QED
  BY <1>1, <1>2, <1>3, <1>4, ReserveEffect, RowWritten DEF Others

LEMMA CreateEffect ==
    ASSUME VarsOK, NEW m \in Callers, ProcOK(m), Create(m)
    PROVE  /\ Others(m) /\ KeepsPlan(m) /\ proc[m].pc = "create" /\ proc'[m].todo = proc[m].todo
           /\ proc[m].at \in Tokens
           /\ \/ /\ proc'[m].pc = "confirm" /\ proc[m].at \notin claims
                 /\ claims' = claims \union {proc[m].at} /\ live' = live \union {proc[m].at}
              \/ proc'[m].pc = "release" /\ UNCHANGED <<claims, live>>
              \/ /\ proc'[m].pc = "release" /\ unsure' = unsure \union {proc[m].at}
                 /\ claims' = claims \union {proc[m].at} /\ live' = live \union {proc[m].at}
           /\ late' = late /\ unsure \subseteq unsure' /\ unsure' \subseteq unsure \union {proc[m].at}
<1>1. "confirm" \in TickerPc \union CallerPc /\ "release" \in TickerPc \union CallerPc /\ m \in Procs
  BY DEF CallerPc, Procs
<1>2. proc[m].pc = "create" /\ proc[m].at \in Tokens /\ UNCHANGED late
  BY DEF Create, ProcOK
<1>3. CASE CreatesRun(proc[m].at) /\ Goes(m, "confirm") /\ UNCHANGED unsure
  BY <1>1, <1>2, <1>3, GoesEffect DEF CreatesRun
<1>4. CASE Goes(m, "release") /\ UNCHANGED <<runVars, unsure>>
  BY <1>1, <1>2, <1>4, GoesEffect DEF runVars
<1>5. CASE CreatesRun(proc[m].at) /\ Goes(m, "release") /\ unsure' = unsure \union {proc[m].at}
  BY <1>1, <1>2, <1>5, GoesEffect DEF CreatesRun
<1> QED
  BY <1>3, <1>4, <1>5 DEF Create

LEMMA CreateStep == ASSUME IInv, NEW m \in Callers, Create(m) PROVE IInv'
<1>1. VarsOK /\ RowOK /\ ProcOK(m) /\ m \in Procs /\ m \notin Tickers /\ Occ \intersect Tokens = {}
  BY ScheduleAssumption DEF IInv, Procs
<1>2. UNCHANGED <<definition, now, row, counted, skipped, used>>
  BY DEF Create, keptVars
<1>3. claims \subseteq claims' /\ claims' \subseteq Occ \union Tokens /\ live' \subseteq claims'
      /\ claims' \intersect Occ = claims \intersect Occ
  BY <1>1, CreateEffect DEF VarsOK
<1>4. ProcOK(m)'
  <2>1. /\ KeepsPlan(m) /\ proc[m].pc = "create" /\ proc'[m].pc \in {"confirm", "release"}
        /\ (proc'[m].pc = "confirm" => proc[m].at \in claims')
    BY <1>1, CreateEffect
  <2> QED
    BY <1>1, <1>2, <1>3, <2>1, KeptPlan DEF CallerPc
<1>5. RowOK'
  BY <1>1, <1>2, <1>3 DEF RowOK
<1>6. Owes(row.enabled, row.last, row.nextDue)' /\ InOrder'
  BY <1>2, <1>3 DEF IInv, Owes, InOrder, Gone
<1> QED
  BY <1>1, <1>2, <1>3, <1>4, <1>5, <1>6, CreateEffect, ProcessStep DEF VarsOK, Others

\* confirm_fire or release_fire, on the caller's own marker
LEMMA CloseEffect ==
    ASSUME VarsOK, RowOK, NEW m \in Callers, ProcOK(m), Close(m)
    PROVE  LET t == proc[m].at
               found == proc[m].pc = "confirm"
           IN
           /\ Others(m) /\ proc'[m] = Idle /\ proc[m].pc \in {"confirm", "release"} /\ t \in Tokens
           /\ row' \in RowRecord /\ counted' \in [Occ \union Tokens -> Nat] /\ RowOK'
           /\ row'.last = row.last /\ row'.credited = row.credited
           /\ (row'.enabled => row.enabled /\ row'.nextDue = row.nextDue)
           /\ row'.pending = {marker \in row.pending : marker.fire # t}
           /\ (\A c \in Occ \union Tokens : c # t => counted'[c] = counted[c])
           /\ counted'[t] = IF found /\ Holds(t) THEN counted[t] + 1 ELSE counted[t]
<1>1. m \in Procs /\ Ends(m) /\ proc[m].pc \in {"confirm", "release"} /\ proc[m].at \in Tokens
      /\ UNCHANGED <<now, claims, used>>
  BY DEF Procs, Close, keptVars, runVars, ProcOK
<1>2. PICK t \in Tokens, found \in BOOLEAN : t = proc[m].at /\ (found <=> proc[m].pc = "confirm")
  BY <1>1
<1>3. SettlePending(t, found)
  <2>1. found = (proc[m].pc = "confirm")
    BY <1>2
  <2> QED
    BY <1>2, <2>1 DEF Close, Confirms
<1>4. found => t \in claims
  BY <1>2 DEF ProcOK
<1>5. /\ row' \in RowRecord /\ counted' \in [Occ \union Tokens -> Nat] /\ RowOK'
      /\ row'.last = row.last /\ row'.credited = row.credited
      /\ (row'.enabled => row.enabled /\ row'.nextDue = row.nextDue)
      /\ row'.pending = {marker \in row.pending : marker.fire # t}
      /\ (\A c \in Occ \union Tokens : c # t => counted'[c] = counted[c])
      /\ counted'[t] = IF found /\ Holds(t) THEN counted[t] + 1 ELSE counted[t]
  BY <1>1, <1>3, <1>4, SettleRow
<1> QED
  BY <1>1, <1>2, <1>5, EndsEffect

LEMMA CloseStep == ASSUME IInv, NEW m \in Callers, Close(m) PROVE IInv'
<1>1. VarsOK /\ RowOK /\ ProcOK(m) /\ m \in Procs /\ m \notin Tickers
  BY ScheduleAssumption DEF IInv, Procs
<1>2. UNCHANGED <<definition, now, claims, live, skipped, used>>
  BY DEF Close, keptVars, runVars
<1>3. /\ Others(m) /\ proc'[m] = Idle /\ row' \in RowRecord /\ counted' \in [Occ \union Tokens -> Nat]
      /\ RowOK' /\ row'.last = row.last /\ (row'.enabled => row.enabled /\ row'.nextDue = row.nextDue)
  BY <1>1, CloseEffect
<1>4. ProcOK(m)'
  BY <1>1, <1>2, <1>3, IdleOK
<1> QED
  BY <1>1, <1>2, <1>3, <1>4, RowWritten DEF Others

------------------------------------------------------------------------------
\* A step of nobody: time, an old marker, the end of a Run.
LEMMA NobodysStep ==
    ASSUME IInv, UNCHANGED <<definition, claims, skipped, used, proc>>, now <= now', VarsOK', RowOK',
           row'.last = row.last, row'.enabled = row.enabled, row'.nextDue = row.nextDue
    PROVE  IInv'
<1>1. now \in Nat /\ now' \in Nat
  BY DEF IInv, VarsOK
<1>2. \A p \in Procs : ProcOK(p)' /\ (p \in Tickers => PlanOK(p)')
  <2> SUFFICES ASSUME NEW p \in Procs PROVE ProcOK(p)' /\ (p \in Tickers => PlanOK(p)')
    OBVIOUS
  <2>1. ProcOK(p) /\ (p \in Tickers => PlanOK(p)) /\ proc'[p] = proc[p] /\ proc[p] \in ProcRecord
    BY DEF IInv, VarsOK
  <2> QED
    BY <1>1, <2>1, OthersKeep
<1>3. Owes(row.enabled, row.last, row.nextDue)' /\ InOrder'
  BY DEF IInv, Owes, InOrder, Gone
<1> QED
  BY <1>2, <1>3 DEF IInv, Procs

LEMMA ClockStep == ASSUME IInv, Clock PROVE IInv'
<1>1. now' = now + 1 /\ now < MaxOcc
      /\ UNCHANGED <<definition, row, counted, claims, live, skipped, used, proc>>
  BY DEF Clock, runVars
<1>2. now \in 0..MaxOcc /\ MaxOcc \in Nat /\ row \in RowRecord
  BY ScheduleAssumption DEF IInv, VarsOK
<1>3. VarsOK' /\ now <= now'
  BY <1>1, <1>2 DEF IInv, VarsOK
<1>4. RowOK'
  BY <1>1, <1>2 DEF IInv, RowOK, RowRecord
<1> QED
  BY <1>1, <1>3, <1>4, NobodysStep

LEMMA AgesEffect ==
    ASSUME VarsOK, RowOK, MarkerAges
    PROVE  \E marker \in row.pending : \E aged \in Marker :
              /\ ~marker.old /\ aged.old /\ aged.fire = marker.fire /\ aged.by = marker.by
              /\ unsure \subseteq unsure' /\ unsure' \subseteq unsure \union {marker.fire}
              /\ (Holding(marker.by, marker.fire) /\ proc[marker.by].pc = "create" => marker.fire \in unsure')
              /\ row' \in RowRecord /\ RowOK' /\ row'.last = row.last /\ row'.enabled = row.enabled
              /\ row'.nextDue = row.nextDue /\ row'.credited = row.credited
              /\ row'.pending = (row.pending \ {marker}) \union {aged}
<1>1. PICK marker \in row.pending :
        /\ ~marker.old
        /\ unsure' = IF Holding(marker.by, marker.fire) /\ proc[marker.by].pc = "create"
                     THEN unsure \union {marker.fire} ELSE unsure
        /\ row' = [row EXCEPT !.pending = (@ \ {marker}) \union {[marker EXCEPT !.old = TRUE]}]
  BY DEF MarkerAges
<1>2. row \in RowRecord /\ row.pending \subseteq Marker /\ UNCHANGED <<now, claims, used>>
  BY DEF VarsOK, RowRecord, MarkerAges, runVars
<1>3. PICK aged \in Marker : aged = [marker EXCEPT !.old = TRUE]
  BY <1>2 DEF Marker
<1>4. aged.old /\ aged.fire = marker.fire /\ aged.by = marker.by
  BY <1>2, <1>3 DEF Marker
<1>5. row' = [row EXCEPT !.pending = (row.pending \ {marker}) \union {aged}]
  BY <1>1, <1>3
<1>6. row' \in RowRecord
  BY <1>2, <1>5 DEF RowRecord
<1>7. /\ row'.pending = (row.pending \ {marker}) \union {aged} /\ row'.last = row.last
      /\ row'.enabled = row.enabled /\ row'.nextDue = row.nextDue /\ row'.pointer = row.pointer
      /\ row'.credited = row.credited
  BY <1>2, <1>5 DEF RowRecord
<1>8. RowOK'
  <2>1. IsFiniteSet(row'.pending)
    <3>1. IsFiniteSet(row.pending \ {marker})
      BY FS_RemoveElement DEF RowOK
    <3> QED
      BY <1>7, <3>1, FS_AddElement
  <2>2. \A other \in row'.pending : <<other.by, other.fire>> \in used
    BY <1>4, <1>7 DEF RowOK
  <2> QED
    BY <1>2, <1>7, <2>1, <2>2 DEF RowOK
<1> QED
  BY <1>1, <1>4, <1>6, <1>7, <1>8

LEMMA AgesStep == ASSUME IInv, MarkerAges PROVE IInv'
<1>1. VarsOK /\ RowOK /\ now \in Nat
  BY DEF IInv, VarsOK
<1>2. UNCHANGED <<definition, now, counted, claims, live, skipped, used, proc>>
  BY DEF MarkerAges, runVars
<1>3. row' \in RowRecord /\ RowOK' /\ row'.last = row.last /\ row'.enabled = row.enabled
      /\ row'.nextDue = row.nextDue
  BY <1>1, AgesEffect
<1>4. VarsOK' /\ now <= now'
  BY <1>1, <1>2, <1>3 DEF VarsOK
<1> QED
  BY <1>2, <1>3, <1>4, NobodysStep

LEMMA RunEndsStep == ASSUME IInv, RunEnds PROVE IInv'
<1>1. UNCHANGED <<definition, now, row, counted, claims, skipped, used, proc>> /\ live' \subseteq live
  BY DEF RunEnds
<1>2. VarsOK' /\ now <= now' /\ RowOK'
  BY <1>1 DEF IInv, VarsOK, RowOK
<1> QED
  BY <1>1, <1>2, NobodysStep

LEMMA CrashStep == ASSUME IInv, NEW p \in Procs, Crash(p) PROVE IInv'
<1>1. Ends(p) /\ UNCHANGED <<definition, now, row, counted, claims, live, skipped, used>>
  BY DEF Crash, runVars
<1>2. Others(p) /\ proc'[p] = Idle
  BY <1>1, EndsEffect DEF IInv
<1>3. ProcOK(p)' /\ (p \in Tickers => PlanOK(p)')
  BY <1>1, <1>2, IdleOK
<1> QED
  BY <1>1, <1>2, <1>3, OwnStep DEF IInv, VarsOK, Others

------------------------------------------------------------------------------
LEMMA StepKeepsIInv == IInv /\ [Next]_vars => IInv'
<1> SUFFICES ASSUME IInv, [Next]_vars PROVE IInv'
  OBVIOUS
<1>1. ASSUME NEW k \in Tickers, Tick(k) PROVE IInv'
  <2>1. k \in Procs
    BY DEF Procs
  <2> QED
    BY <1>1, <2>1, TickReadsStep, ReconcileStep, DecideStep, AdmitStep, AdmitFailsStep, RecordStep DEF Tick
<1>2. ASSUME NEW m \in Callers, Call(m) PROVE IInv'
  <2>1. m \in Procs
    BY DEF Procs
  <2> QED
    BY <1>2, <2>1, ReconcileStep, LookupStep, ReserveStep, CreateStep, CloseStep DEF Call
<1>3. ASSUME NEW m \in Callers, NEW t \in Tokens, Fire(m, t) PROVE IInv'
  BY <1>3, FireStep
<1>4. ASSUME NEW p \in Procs, Crash(p) PROVE IInv'
  BY <1>4, CrashStep
<1>5. CASE Clock \/ MarkerAges \/ RunEnds
  BY <1>5, ClockStep, AgesStep, RunEndsStep
<1>6. CASE UNCHANGED vars
  <2>1. UNCHANGED <<definition, now, row, counted, claims, live, skipped, used, proc>>
    BY <1>6 DEF vars
  <2>2. VarsOK' /\ RowOK' /\ now <= now'
    BY <2>1 DEF IInv, VarsOK, RowOK
  <2> QED
    BY <2>1, <2>2, NobodysStep
<1> QED
  BY <1>1, <1>2, <1>3, <1>4, <1>5, <1>6 DEF Next

THEOREM ScheduleInvariance == Spec => []IInv
<1>1. Init => IInv
  BY InitHolds
<1> QED
  BY <1>1, StepKeepsIInv, PTL DEF Spec

\* Every step of every ticker, caller and dead process leaves the row naming
\* only Runs that exist and markers of fires that were submitted, with no
\* cursor in the future (store.py, admission.py).
THEOREM ScheduleTypeCorrect == Spec => []ScheduleTypeOK
<1>1. IInv => ScheduleTypeOK
  <2> SUFFICES ASSUME IInv PROVE ScheduleTypeOK
    OBVIOUS
  <2>1. VarsOK /\ RowOK /\ \A p \in Procs : ProcOK(p)
    BY DEF IInv
  <2>2. now \in 0..MaxOcc /\ row.last \in 0..MaxOcc /\ row.nextDue \in Nat /\ row.pending \subseteq Marker
    BY <2>1 DEF VarsOK, RowRecord
  <2>3. row.last \in 0..now /\ row.nextDue \in 0..(now + 1)
    BY <2>1, <2>2 DEF RowOK
  <2>4. \A marker \in row.pending : <<marker.by, marker.fire>> \in used /\ marker.old \in BOOLEAN
    BY <2>1, <2>2 DEF RowOK, Marker
  <2>5. \A p \in Procs : proc[p].admitted \subseteq claims /\ proc[p].links \subseteq claims
    BY <2>1 DEF ProcOK
  <2> QED
    BY <2>1, <2>3, <2>4, <2>5 DEF ScheduleTypeOK, VarsOK, RowOK
<1> QED
  BY <1>1, ScheduleInvariance, PTL

\* No cursor of the row passes an occurrence that has no Run and that nobody
\* decided not to run: for any policy and window, any number of tickers with
\* any reads of the row as old as they like, and any deaths (admit_due,
\* _admit_batch, _advance).
THEOREM NothingIsLost == Spec => []NoOccurrenceIsLost
<1>1. IInv => NoOccurrenceIsLost
  <2> SUFFICES ASSUME IInv, NEW o \in Occ, o \notin claims \union skipped
               PROVE  row.last < o /\ (o <= now /\ row.enabled => row.nextDue <= o)
    BY DEF NoOccurrenceIsLost
  <2> QED
    BY DEF IInv, Owes, Gone
<1> QED
  BY <1>1, ScheduleInvariance, PTL

------------------------------------------------------------------------------
\* Occurrences are counted once.

\* What others do leaves a tick its occurrences.
LEMMA CountsKept ==
    ASSUME NEW k \in Tickers, TickCounts(k), proc'[k] = proc[k], UNCHANGED <<definition, now>>,
           row \in RowRecord, row' \in RowRecord, proc[k] \in ProcRecord,
           row.last <= row'.last, row.credited \subseteq row'.credited, late \subseteq late',
           \A o \in Occ : counted'[o] = counted[o]
    PROVE  TickCounts(k)'
<1>1. proc[k].admitted \subseteq Occ /\ proc[k].recovered \subseteq Occ
      /\ proc[k].snap.last \in Nat /\ row.last \in Nat /\ row'.last \in Nat
  <2>1. MaxOcc \in Nat
    BY ScheduleAssumption
  <2> QED
    BY <2>1 DEF ProcRecord, SnapRecord, RowRecord
<1>2. \A o \in Occ : InWindow(o)' <=> InWindow(o)
  BY DEF InWindow
<1>3. proc[k].fires \subseteq Occ
  BY DEF ProcRecord
<1>4. proc[k].snap.last <= row.last => proc[k].snap.last <= row'.last
  BY <1>1
<1>5. ASSUME NEW o \in Occ \ late' PROVE OccurrenceCounts(k, o)'
  <2>1. OccurrenceCounts(k, o)
    BY DEF TickCounts
  <2> QED
    BY <1>2, <2>1 DEF OccurrenceCounts
<1> QED
  BY <1>1, <1>4, <1>5 DEF TickCounts

\* A step that counts no occurrence.
LEMMA CountFrame ==
    ASSUME IInv, IInv', CountOK, NEW p \in Procs, Others(p), UNCHANGED <<definition, now>>,
           row.last <= row'.last, row.credited \subseteq row'.credited, claims \subseteq claims',
           late \subseteq late', \A o \in Occ : counted'[o] = counted[o],
           p \in Tickers => /\ TickCounts(p)'
                            /\ \A j \in Tickers \ {p} : proc[j].admitted \intersect proc'[p].admitted = {}
    PROVE  CountOK'
<1>1. row \in RowRecord /\ row' \in RowRecord /\ \A q \in Procs : proc[q] \in ProcRecord
  BY DEF IInv, VarsOK
<1>2. \A q \in Procs \ {p} : proc'[q] = proc[q]
  BY DEF Others
<1>3. \A o \in Occ : counted'[o] > 0 => o \in claims' /\ o <= row'.last /\ (o \in late' \/ counted'[o] = 1)
  <2> SUFFICES ASSUME NEW o \in Occ, counted[o] > 0 PROVE o <= row'.last
    BY DEF CountOK
  <2>1. o \in Nat /\ row.last \in Nat /\ row'.last \in Nat /\ o <= row.last
    BY <1>1, ScheduleAssumption DEF CountOK, Occ, RowRecord
  <2> QED
    BY <2>1
<1>4. \A k \in Tickers : TickCounts(k)'
  <2> SUFFICES ASSUME NEW k \in Tickers, k # p PROVE TickCounts(k)'
    OBVIOUS
  <2>1. TickCounts(k) /\ proc'[k] = proc[k] /\ proc[k] \in ProcRecord
    BY <1>1, <1>2 DEF CountOK, Procs
  <2> QED
    BY <1>1, <2>1, CountsKept
<1>5. ASSUME NEW k \in Tickers, NEW j \in Tickers \ {k} PROVE proc'[j].admitted \intersect proc'[k].admitted = {}
  <2>1. CASE k # p /\ j # p
    BY <1>2, <2>1 DEF CountOK, Procs
  <2>2. CASE k = p
    BY <1>2, <2>2 DEF Procs
  <2>3. CASE j = p
    BY <1>2, <2>3 DEF Procs
  <2> QED
    BY <2>1, <2>2, <2>3
<1> QED
  BY <1>3, <1>4, <1>5 DEF CountOK

\* A process that has ended counts nothing.
LEMMA IdleCounts == ASSUME NEW p, proc'[p] = Idle PROVE TickCounts(p)' /\ proc'[p].admitted = {}
BY IdleIsProc DEF TickCounts, OccurrenceCounts

LEMMA ReconcileCounts == ASSUME IInv, IInv', CountOK, NEW p \in Procs, Reconcile(p) PROVE CountOK'
<1>1. VarsOK /\ RowOK /\ ProcOK(p) /\ UNCHANGED <<definition, now, claims, late>>
  BY DEF IInv, Reconcile, Probe, ProbeFails, SettleOld, Reread, keptVars, historyVars, runVars
<1>2. row \in RowRecord /\ row.last \in Nat
  BY <1>1, ScheduleAssumption DEF VarsOK, RowRecord
<1>3. ASSUME row'.last = row.last, row'.credited = row.credited, \A o \in Occ : counted'[o] = counted[o],
             Others(p), KeepsPlan(p), proc[p].pc \in {"probe", "settle"}
      PROVE  CountOK'
  <2>1. ASSUME p \in Tickers PROVE TickCounts(p)'
    <3>1. TickCounts(p) /\ proc[p].admitted \subseteq Occ /\ proc[p].recovered \subseteq Occ
          /\ proc[p].fires \subseteq Occ
      BY <1>1, <2>1 DEF CountOK, VarsOK, ProcRecord
    <3>2. \A o \in Occ : InWindow(o)' <=> InWindow(o)
      BY <1>1 DEF InWindow
    <3>3. ASSUME NEW o \in Occ \ late PROVE OccurrenceCounts(p, o)'
      <4>1. OccurrenceCounts(p, o)
        BY <3>1 DEF TickCounts
      <4> QED
        BY <1>1, <1>3, <3>2, <4>1 DEF OccurrenceCounts, KeepsPlan
    <3> QED
      BY <1>1, <1>3, <3>1, <3>3 DEF TickCounts, KeepsPlan
  <2>2. ASSUME p \in Tickers, NEW j \in Tickers \ {p} PROVE proc[j].admitted \intersect proc'[p].admitted = {}
    BY <1>3, <2>2 DEF CountOK, KeepsPlan
  <2>3. row.last <= row'.last /\ row.credited \subseteq row'.credited
    BY <1>2, <1>3
  <2> QED
    BY <1>1, <1>3, <2>1, <2>2, <2>3, CountFrame
<1>4. CASE Probe(p)
  BY <1>1, <1>3, <1>4, ProbeEffect DEF Probe
<1>5. CASE ProbeFails(p)
  BY <1>1, <1>3, <1>5, ProbeFailsEffect DEF ProbeFails
<1>6. CASE SettleOld(p)
  <2>1. SettlePending(proc[p].token, proc[p].found) /\ UNCHANGED <<now, claims, used>>
        /\ proc[p].pc = "settle"
    BY <1>6 DEF SettleOld, keptVars, runVars
  <2>2. proc[p].token \in Tokens /\ proc[p].found \in BOOLEAN
        /\ (proc[p].found => proc[p].token \in claims)
    BY <1>1, <2>1 DEF VarsOK, ProcRecord, ProcOK
  <2>3. /\ row'.last = row.last /\ row'.credited = row.credited
        /\ \A c \in Occ \union Tokens : c # proc[p].token => counted'[c] = counted[c]
    BY <1>1, <2>1, <2>2, SettleRow
  <2>4. \A o \in Occ : counted'[o] = counted[o]
    BY <2>2, <2>3, ScheduleAssumption
  <2> QED
    BY <1>1, <1>3, <1>6, <2>3, <2>4, SettleOldEffect
<1>7. CASE Reread(p)
  <2>1. row' = row /\ counted' = counted
    BY <1>7 DEF Reread
  <2>2. /\ Others(p) /\ proc[p].pc = "probe" /\ proc'[p].snap = Snap /\ proc'[p].at = proc[p].at
        /\ proc'[p].fires = proc[p].fires /\ proc'[p].admitted = proc[p].admitted
        /\ proc'[p].recovered = proc[p].recovered
    BY <1>1, <1>7, RereadEffect
  <2>3. ASSUME p \in Tickers PROVE TickCounts(p)'
    <3>1. TickCounts(p) /\ proc[p].snap.last \in Nat /\ \A o \in Occ : o \in Nat
      <4>1. proc[p].snap \in SnapRecord /\ MaxOcc \in Nat
        BY <1>1, ScheduleAssumption DEF VarsOK, ProcRecord
      <4> QED
        BY <2>3, <4>1 DEF CountOK, SnapRecord, Occ
    <3>2. Snap.last = row.last
      BY <1>1, SnapIsSnap
    <3>3. proc[p].snap.last <= row.last
      BY <2>2, <3>1 DEF TickCounts
    <3>4. ASSUME NEW o \in Occ \ late, row.last < o, o <= proc[p].at
          PROVE  counted[o] # 1 /\ (o + definition.window > proc[p].at => InWindow(o))
      <4>1. proc[p].snap.last < o /\ ~(o <= row.last)
        BY <1>2, <3>1, <3>3, <3>4
      <4> QED
        BY <2>2, <3>1, <3>4, <4>1 DEF TickCounts, OccurrenceCounts, CountOK
    <3>5. \A o \in Occ : InWindow(o)' <=> InWindow(o)
      BY <1>1 DEF InWindow
    <3>6. proc[p].admitted \subseteq Occ /\ proc[p].recovered \subseteq Occ /\ proc[p].fires \subseteq Occ
      BY <1>1 DEF VarsOK, ProcRecord
    <3>7. ASSUME NEW o \in Occ \ late PROVE OccurrenceCounts(p, o)'
      <4>1. OccurrenceCounts(p, o)
        BY <3>1 DEF TickCounts
      <4> QED
        BY <1>1, <2>1, <2>2, <3>2, <3>4, <3>5, <4>1 DEF OccurrenceCounts
    <3> QED
      BY <1>1, <1>2, <2>1, <2>2, <3>2, <3>7 DEF TickCounts
  <2>4. ASSUME p \in Tickers, NEW j \in Tickers \ {p} PROVE proc[j].admitted \intersect proc'[p].admitted = {}
    BY <2>2, <2>4 DEF CountOK
  <2>5. row.last <= row'.last /\ row.credited \subseteq row'.credited
    BY <1>2, <2>1
  <2> QED
    BY <1>1, <2>1, <2>2, <2>3, <2>4, <2>5, CountFrame
<1> QED
  BY <1>4, <1>5, <1>6, <1>7 DEF Reconcile

LEMMA TickReadsCounts == ASSUME IInv, IInv', CountOK, NEW k \in Tickers, TickReads(k) PROVE CountOK'
<1>1. VarsOK /\ RowOK /\ k \in Procs /\ UNCHANGED <<definition, now, row, counted, claims, late>>
  BY DEF IInv, Procs, TickReads, keptVars, historyVars, runVars
<1>2. row.last \in Nat /\ now \in Nat /\ Snap.last = row.last
  BY <1>1, SnapIsSnap, ScheduleAssumption DEF VarsOK, RowRecord
<1>3. /\ Others(k) /\ proc'[k].snap = Snap /\ proc'[k].at = now
      /\ proc'[k].fires = {} /\ proc'[k].admitted = {} /\ proc'[k].recovered = {}
  BY <1>1, TickReadsEffect
<1>4. \A o \in Occ : row.last < o => counted[o] # 1
  <2> SUFFICES ASSUME NEW o \in Occ, row.last < o, o <= row.last PROVE FALSE
    BY DEF CountOK
  <2>1. o \in Nat
    BY ScheduleAssumption DEF Occ
  <2> QED
    BY <1>2, <2>1
<1>5. TickCounts(k)'
  <2>1. \A o \in Occ : o + definition.window > now => InWindow(o)'
    BY <1>1 DEF InWindow
  <2> QED
    BY <1>1, <1>2, <1>3, <1>4, <2>1 DEF TickCounts, OccurrenceCounts
<1>6. row.last <= row'.last
  BY <1>1, <1>2
<1> QED
  BY <1>1, <1>3, <1>5, <1>6, CountFrame

LEMMA DecideCounts == ASSUME IInv, IInv', CountOK, NEW k \in Tickers, Decide(k) PROVE CountOK'
<1>1. /\ VarsOK /\ RowOK /\ ProcOK(k) /\ k \in Procs
      /\ UNCHANGED <<definition, now, row, counted, claims, late>>
  BY DEF IInv, Procs, Decide, keptVars, historyVars, runVars
<1> DEFINE last == proc[k].snap.last
           at == proc[k].at
           new == proc'[k]
<1>2. PICK since \in 0..MaxOcc, due \in SUBSET Occ, seen \in SUBSET Occ, fires \in SUBSET Occ,
           held \in SUBSET Occ : Decided(k, since, due, seen, fires, held)
  BY <1>1, DecideEffect
<1>3. /\ last <= since
      /\ \A o \in Occ : last < o /\ o <= since => o <= at /\ o + definition.window <= at
      /\ \A o \in due : since < o /\ o <= at /\ o + definition.window > at
      /\ \A o \in seen : o \in due \/ (last < o /\ o <= since)
      /\ fires \subseteq due
      /\ Others(k)
      /\ \/ new = Idle
         \/ /\ new.pc = (IF fires = {} THEN "record" ELSE "batch")
            /\ new.fires = fires /\ new.recovered = {o \in seen : o <= since} /\ new.admitted = {}
  BY <1>2 DEF Decided
<1>4. /\ last \in Nat /\ at \in Nat /\ since \in Nat /\ now \in Nat /\ at <= now /\ Occ \subseteq Nat
      /\ row.last \in Nat /\ definition.window \in Nat
  BY <1>1, ScheduleAssumption DEF VarsOK, ProcOK, ProcRecord, SnapRecord, RowRecord, Occ
<1>5. TickCounts(k) /\ proc[k].pc = "decide"
  BY DEF CountOK, Decide
<1>6. TickCounts(k)' /\ new.admitted = {}
  <2>1. CASE new = Idle
    BY <2>1, IdleCounts
  <2>2. CASE new # Idle
    <3>1. /\ new.pc \in {"record", "batch"}
          /\ new.fires = fires /\ new.recovered = {o \in seen : o <= since} /\ new.admitted = {}
      BY <1>3, <2>2
    <3> HIDE DEF new, last, at
    <3>2. ASSUME NEW o \in fires \ late PROVE InWindow(o)
      <4>1. o \in Occ /\ o \in due /\ o \in Nat /\ since < o /\ o <= at /\ o + definition.window > at
        BY <1>3, <1>4
      <4>2. last < o
        BY <1>3, <1>4, <4>1
      <4> QED
        BY <1>5, <4>1, <4>2 DEF TickCounts, OccurrenceCounts, last, at
    <3>3. ASSUME NEW o \in seen \ late, o <= since PROVE ~InWindow(o) /\ (counted[o] = 0 \/ o \in row.credited)
      <4>1. o \in Nat /\ o \notin due
        BY <1>3, <1>4, <3>3
      <4>2. last < o /\ o <= at /\ o + definition.window <= at
        BY <1>3, <3>3, <4>1
      <4>3. ~(o + definition.window > at) /\ ~(o + definition.window > now)
        BY <1>4, <4>1, <4>2
      <4>4. counted[o] = 1 => o \in row.credited
        BY <1>5, <4>2, <4>3 DEF TickCounts, OccurrenceCounts, last, at
      <4>5. counted[o] \in Nat /\ (counted[o] > 0 => counted[o] = 1)
        BY <1>1, <3>3 DEF VarsOK, CountOK
      <4> QED
        BY <4>3, <4>4, <4>5 DEF InWindow
    <3>4. \A o \in Occ : InWindow(o)' <=> InWindow(o)
      BY <1>1 DEF InWindow
    <3>5. ASSUME NEW o \in Occ \ late
          PROVE  /\ o \in new.fires \union new.admitted => InWindow(o)'
                 /\ o \in new.admitted => counted'[o] = 0
                 /\ o \in new.recovered => ~InWindow(o)' /\ (counted'[o] = 0 \/ o \in row'.credited)
      BY <1>1, <3>1, <3>2, <3>3, <3>4
    <3> QED
      BY <1>1, <3>1, <3>5 DEF TickCounts, OccurrenceCounts, new
  <2> QED
    BY <2>1, <2>2
<1>7. row.last <= row'.last
  BY <1>1, <1>4
<1> QED
  BY <1>1, <1>3, <1>6, <1>7, CountFrame

LEMMA AdmitCounts == ASSUME IInv, IInv', CountOK, NEW k \in Tickers, Admit(k) PROVE CountOK'
<1>1. VarsOK /\ RowOK /\ ProcOK(k) /\ k \in Procs /\ UNCHANGED <<definition, now, row, counted, late>>
  BY DEF IInv, Procs, Admit, keptVars, historyVars
<1>2. PICK o \in proc[k].fires :
          /\ Others(k) /\ proc'[k].pc = "batch" /\ proc'[k].fires = proc[k].fires \ {o}
          /\ proc'[k].admitted = (IF o \in claims THEN proc[k].admitted ELSE proc[k].admitted \union {o})
          /\ proc'[k].recovered = proc[k].recovered /\ claims' = claims \union {o}
  BY <1>1, AdmitEffect
<1>3. TickCounts(k) /\ o \in Occ /\ row.last \in Nat
  BY <1>1, ScheduleAssumption DEF CountOK, VarsOK, ProcRecord, RowRecord
<1>4. o \notin claims => counted[o] = 0
  BY <1>1, <1>3 DEF CountOK, VarsOK
<1>5. TickCounts(k)'
  <2>1. \A q \in proc[k].fires \union proc[k].admitted \union proc[k].recovered : InWindow(q)' <=> InWindow(q)
    BY <1>1 DEF InWindow
  <2> QED
    BY <1>1, <1>2, <1>3, <1>4, <2>1 DEF TickCounts, OccurrenceCounts
<1>6. ASSUME NEW j \in Tickers \ {k} PROVE proc[j].admitted \intersect proc'[k].admitted = {}
  <2>1. proc[j].admitted \subseteq claims
    BY DEF IInv, ProcOK, Procs
  <2> QED
    BY <1>2, <2>1 DEF CountOK
<1>7. row.last <= row'.last /\ claims \subseteq claims'
  BY <1>1, <1>2, <1>3
<1> QED
  BY <1>1, <1>2, <1>5, <1>6, <1>7, CountFrame

LEMMA AdmitFailsCounts == ASSUME IInv, IInv', CountOK, NEW k \in Tickers, AdmitFails(k) PROVE CountOK'
<1>1. VarsOK /\ k \in Procs /\ UNCHANGED <<definition, now, row, counted, late>> /\ row.last \in Nat
  BY ScheduleAssumption DEF IInv, Procs, AdmitFails, keptVars, historyVars, VarsOK, RowRecord
<1>2. /\ Others(k) /\ proc'[k].pc = "batch" /\ proc'[k].fires = {}
      /\ proc'[k].admitted = proc[k].admitted /\ proc'[k].recovered = proc[k].recovered
      /\ claims \subseteq claims'
  BY <1>1, AdmitFailsEffect
<1>3. TickCounts(k)'
  <2>1. \A q \in proc[k].admitted \union proc[k].recovered : InWindow(q)' <=> InWindow(q)
    BY <1>1 DEF InWindow
  <2> QED
    BY <1>1, <1>2, <2>1 DEF CountOK, TickCounts, OccurrenceCounts
<1>4. \A j \in Tickers \ {k} : proc[j].admitted \intersect proc'[k].admitted = {}
  BY <1>2 DEF CountOK
<1>5. row.last <= row'.last
  BY <1>1
<1> QED
  BY <1>1, <1>2, <1>3, <1>4, <1>5, CountFrame

\* record_fire counts what it admitted, which nobody else has, and what it
\* recovered, which nobody can admit any more.
LEMMA RecordCounts == ASSUME IInv, IInv', CountOK, NEW k \in Tickers, Record(k) PROVE CountOK'
<1> DEFINE me == proc[k]
<1>1. /\ VarsOK /\ RowOK /\ ProcOK(k) /\ k \in Procs /\ TickCounts(k)
      /\ me.admitted \subseteq Occ /\ me.recovered \subseteq Occ
      /\ me.admitted \subseteq me.links /\ me.recovered \subseteq me.links /\ me.links \subseteq claims
  BY DEF IInv, Procs, VarsOK, ProcRecord, ProcOK, CountOK
<1>2. /\ Others(k) /\ proc'[k] = Idle /\ UNCHANGED <<definition, now, claims, late>>
      /\ row' \in RowRecord /\ row'.credited = row.credited \union me.recovered
      /\ row.last <= row'.last /\ \A l \in me.links : l <= row'.last
      /\ \A c \in Occ \union Tokens :
           counted'[c] = counted[c] + (IF c \in me.admitted THEN 1 ELSE 0)
                                    + (IF c \in me.recovered \ row.credited THEN 1 ELSE 0)
  BY RecordEffect DEF Record, keptVars, historyVars
<1>3. \A o \in Occ : counted[o] \in Nat /\ o \in Nat
  BY <1>1, ScheduleAssumption DEF VarsOK, Occ
<1>4. row.last \in Nat /\ row'.last \in Nat
  BY <1>1, <1>2, ScheduleAssumption DEF VarsOK, RowRecord
<1>5. \A o \in me.admitted \ late : o \notin me.recovered /\ counted[o] = 0 /\ InWindow(o)
  BY <1>1 DEF TickCounts, OccurrenceCounts
<1>6. \A o \in me.recovered \ late : ~InWindow(o) /\ (counted[o] = 0 \/ o \in row.credited)
  BY <1>1 DEF TickCounts, OccurrenceCounts
<1> HIDE DEF me
<1>7. \A o \in Occ : IF o \in me.admitted \/ o \in me.recovered \ row.credited
                     THEN o \notin late => counted[o] = 0 /\ counted'[o] = 1 ELSE counted'[o] = counted[o]
  <2> SUFFICES ASSUME NEW o \in Occ
               PROVE  IF o \in me.admitted \/ o \in me.recovered \ row.credited
                      THEN o \notin late => counted[o] = 0 /\ counted'[o] = 1
                      ELSE counted'[o] = counted[o]
    OBVIOUS
  <2>1. counted'[o] = counted[o] + (IF o \in me.admitted THEN 1 ELSE 0)
                                 + (IF o \in me.recovered \ row.credited THEN 1 ELSE 0)
    BY <1>2
  <2> QED
    BY <1>3, <1>5, <1>6, <2>1
<1>8. ASSUME NEW o \in Occ, counted'[o] > 0
      PROVE  o \in claims' /\ o <= row'.last /\ (o \in late' \/ counted'[o] = 1)
  <2>1. CASE o \in me.admitted \/ o \in me.recovered \ row.credited
    BY <1>1, <1>2, <1>7, <2>1 DEF me
  <2>2. CASE ~(o \in me.admitted \/ o \in me.recovered \ row.credited)
    <3>1. o \in claims /\ o <= row.last /\ (o \in late \/ counted[o] = 1)
      BY <1>7, <1>8, <2>2 DEF CountOK
    <3>2. o <= row.last => o <= row'.last
      BY <1>2, <1>3, <1>4
    <3> QED
      BY <1>2, <1>7, <2>2, <3>1, <3>2
  <2> QED
    BY <2>1, <2>2
<1>9. ASSUME NEW j \in Tickers, j # k PROVE TickCounts(j)'
  <2>1. /\ TickCounts(j) /\ proc'[j] = proc[j] /\ ProcOK(j) /\ proc[j] \in ProcRecord
        /\ proc[j].admitted \intersect me.admitted = {}
    BY <1>1, <1>2, <1>9 DEF CountOK, IInv, Others, Procs, VarsOK, me
  <2>2. \A o \in Occ : InWindow(o)' <=> InWindow(o)
    BY <1>2 DEF InWindow
  <2>3. proc[j].admitted \subseteq Occ /\ proc[j].recovered \subseteq Occ /\ proc[j].fires \subseteq Occ
    BY <2>1 DEF ProcRecord
  <2>4. ASSUME proc[j].pc \in {"probe", "settle", "decide"} PROVE proc[j].snap.last <= row'.last
    <3>1. proc[j].snap.last \in Nat
      BY <2>1, ScheduleAssumption DEF ProcRecord, SnapRecord
    <3>2. proc[j].snap.last <= row.last
      BY <2>1, <2>4 DEF TickCounts
    <3> QED
      BY <1>2, <1>4, <3>1, <3>2
  <2>5. ASSUME NEW o \in Occ \ late PROVE OccurrenceCounts(j, o)'
    <3>1. OccurrenceCounts(j, o)
      BY <2>1 DEF TickCounts
    <3>2. o \in proc[j].admitted => counted'[o] = 0
      BY <1>6, <1>7, <2>1, <3>1 DEF OccurrenceCounts
    <3>3. o \in proc[j].recovered => counted'[o] = 0 \/ o \in row'.credited
      BY <1>2, <1>5, <1>7, <3>1 DEF OccurrenceCounts
    <3>4. ASSUME proc[j].pc \in {"probe", "settle", "decide"}, proc[j].snap.last < o, o <= proc[j].at,
                 counted'[o] = 1, o \notin row'.credited
          PROVE  o + definition.window > proc[j].at
      <4>1. CASE o \in me.admitted
        <5>1. proc[j].at \in 0..now /\ now \in Nat /\ definition.window \in Nat
          BY <1>1, <2>1, ScheduleAssumption DEF ProcOK, VarsOK
        <5> QED
          BY <1>3, <1>5, <4>1, <5>1 DEF InWindow
      <4>2. CASE o \notin me.admitted
        <5>1. counted[o] = 1 /\ o \notin row.credited
          BY <1>2, <1>7, <3>4, <4>2
        <5> QED
          BY <3>1, <3>4, <5>1 DEF OccurrenceCounts
      <4> QED
        BY <4>1, <4>2
    <3> QED
      BY <1>2, <2>1, <2>2, <3>1, <3>2, <3>3, <3>4 DEF OccurrenceCounts
  <2> QED
    BY <1>2, <2>1, <2>4, <2>5 DEF TickCounts
<1>10. TickCounts(k)' /\ proc'[k].admitted = {}
  BY <1>2, IdleCounts
<1>11. ASSUME NEW i \in Tickers, NEW j \in Tickers \ {i} PROVE proc'[j].admitted \intersect proc'[i].admitted = {}
  BY <1>2, <1>10 DEF Others, CountOK, Procs
<1> QED
  BY <1>8, <1>9, <1>10, <1>11 DEF CountOK

\* What callers do, and the death of a process, counts no occurrence.
LEMMA CallerCounts ==
    ASSUME IInv, IInv', CountOK, NEW m \in Callers,
           Lookup(m) \/ Reserve(m) \/ Create(m) \/ Close(m) \/ \E t \in Tokens : Fire(m, t)
    PROVE  CountOK'
<1>1. VarsOK /\ RowOK /\ ProcOK(m) /\ m \in Procs /\ m \notin Tickers /\ row.last \in Nat
      /\ UNCHANGED <<definition, now>> /\ late \subseteq late'
  <2>1. VarsOK /\ RowOK /\ ProcOK(m) /\ m \in Procs /\ m \notin Tickers
    BY ScheduleAssumption DEF IInv, Procs
  <2>2. row.last \in Nat
    BY <2>1, ScheduleAssumption DEF VarsOK, RowRecord
  <2>3. UNCHANGED <<definition, now>> /\ late \subseteq late'
    BY DEF Lookup, Reserve, Create, Close, Fire, keptVars, historyVars
  <2> QED
    BY <2>1, <2>2, <2>3
<1>2. ASSUME Others(m), row'.last = row.last, row'.credited = row.credited, claims \subseteq claims',
             \A o \in Occ : counted'[o] = counted[o]
      PROVE  CountOK'
  <2>1. row.last <= row'.last /\ row.credited \subseteq row'.credited
    BY <1>1, <1>2
  <2> QED
    BY <1>1, <1>2, <2>1, CountFrame
<1>3. CASE Lookup(m)
  BY <1>1, <1>2, <1>3, LookupEffect DEF Lookup, runVars
<1>4. CASE Reserve(m)
  BY <1>1, <1>2, <1>4, ReserveEffect DEF Reserve, runVars
<1>5. CASE Create(m)
  BY <1>1, <1>2, <1>5, CreateEffect DEF Create
<1>6. CASE Close(m)
  <2>1. \A o \in Occ : o \notin Tokens
    BY ScheduleAssumption
  <2> QED
    BY <1>1, <1>2, <1>6, <2>1, CloseEffect DEF Close, runVars
<1>7. CASE \E t \in Tokens : Fire(m, t)
  BY <1>1, <1>2, <1>7, FireEffect DEF Fire, runVars
<1> QED
  BY <1>3, <1>4, <1>5, <1>6, <1>7

LEMMA CrashCounts == ASSUME IInv, IInv', CountOK, NEW p \in Procs, Crash(p) PROVE CountOK'
<1>1. Ends(p) /\ UNCHANGED <<definition, now, row, counted, claims, late>>
  BY DEF Crash, runVars, historyVars
<1>2. Others(p) /\ proc'[p] = Idle
  BY <1>1, EndsEffect DEF IInv
<1>3. row.last <= row'.last
  BY <1>1, ScheduleAssumption DEF IInv, VarsOK, RowRecord
<1> QED
  BY <1>1, <1>2, <1>3, IdleCounts, CountFrame

\* An occurrence comes due: what leaves the window while a tick can still fire
\* it is late.
LEMMA ClockCounts == ASSUME IInv, CountOK, Clock PROVE CountOK'
<1>1. /\ now' = now + 1 /\ UNCHANGED <<definition, row, counted, claims, proc>> /\ late \subseteq late'
      /\ \A k \in Tickers : \A o \in Reach(k) : o + definition.window <= now + 1 => o \in late'
  BY DEF Clock, runVars
<1>2. now \in Nat /\ definition.window \in Nat /\ \A o \in Occ : o \in Nat
  BY ScheduleAssumption DEF IInv, VarsOK, Occ
<1>3. ASSUME NEW k \in Tickers PROVE TickCounts(k)'
  <2>1. /\ TickCounts(k) /\ proc[k] \in ProcRecord /\ ProcOK(k)
    BY DEF CountOK, IInv, VarsOK, Procs
  <2>2. proc[k].snap.last \in Nat /\ proc[k].at \in Nat
    BY <1>2, <2>1, ScheduleAssumption DEF ProcRecord, SnapRecord, ProcOK
  <2>3. ASSUME NEW o \in Occ \ late' PROVE OccurrenceCounts(k, o)'
    <3>1. OccurrenceCounts(k, o)
      BY <1>1, <2>1 DEF TickCounts
    <3>2. o \in Reach(k) => InWindow(o)'
      BY <1>1, <1>2 DEF InWindow
    <3>3. proc[k].pc \in {"probe", "settle", "decide"} /\ proc[k].snap.last < o /\ o <= proc[k].at
          => InWindow(o)'
      BY <1>2, <2>2, <3>2 DEF Reach
    <3>4. o \in proc[k].fires \union proc[k].admitted => InWindow(o)'
      <4>1. o \in proc[k].fires \union proc[k].admitted => proc[k].pc \notin {"probe", "settle", "decide"}
        BY <2>1 DEF ProcOK
      <4> QED
        BY <3>2, <4>1 DEF Reach
    <3>5. ~InWindow(o) => ~InWindow(o)'
      BY <1>1, <1>2 DEF InWindow
    <3> QED
      BY <1>1, <3>1, <3>3, <3>4, <3>5 DEF OccurrenceCounts
  <2> QED
    BY <1>1, <2>1, <2>3 DEF TickCounts
<1> QED
  BY <1>1, <1>3 DEF CountOK

\* A step of nobody that leaves the time.
LEMMA NobodyCounts ==
    ASSUME IInv, IInv', CountOK, UNCHANGED <<definition, now, counted, claims, late, proc>>,
           row'.last = row.last, row'.credited = row.credited
    PROVE  CountOK'
<1>1. \A k \in Tickers : TickCounts(k)'
  BY DEF CountOK, TickCounts, OccurrenceCounts, InWindow
<1> QED
  BY <1>1 DEF CountOK

LEMMA StepKeepsCount == IInv /\ CountOK /\ [Next]_vars => CountOK'
<1> SUFFICES ASSUME IInv, CountOK, [Next]_vars PROVE CountOK'
  OBVIOUS
<1>1. IInv' /\ VarsOK /\ RowOK
  BY StepKeepsIInv DEF IInv
<1>2. ASSUME NEW k \in Tickers, Tick(k) PROVE CountOK'
  BY <1>1, <1>2, TickReadsCounts, ReconcileCounts, DecideCounts, AdmitCounts, AdmitFailsCounts, RecordCounts
     DEF Tick, Procs
<1>3. ASSUME NEW m \in Callers, Call(m) \/ \E t \in Tokens : Fire(m, t) PROVE CountOK'
  BY <1>1, <1>3, ReconcileCounts, CallerCounts DEF Call, Procs
<1>4. ASSUME NEW p \in Procs, Crash(p) PROVE CountOK'
  BY <1>1, <1>4, CrashCounts
<1>5. CASE Clock
  BY <1>5, ClockCounts
<1>6. CASE MarkerAges
  <2>1. row'.last = row.last /\ row'.credited = row.credited
    BY <1>1, <1>6, AgesEffect
  <2> QED
    BY <1>1, <1>6, <2>1, NobodyCounts DEF MarkerAges, runVars
<1>7. CASE RunEnds
  BY <1>1, <1>7, NobodyCounts DEF RunEnds, historyVars
<1>8. CASE UNCHANGED vars
  BY <1>1, <1>8, NobodyCounts DEF vars
<1> QED
  BY <1>2, <1>3, <1>4, <1>5, <1>6, <1>7, <1>8 DEF Next

------------------------------------------------------------------------------
\* Fires by hand are counted once.


\* A step of a process that touches neither markers nor Runs of tokens.
LEMMA TokenFrame ==
    ASSUME IInv, TokenOK, NEW p \in Procs, Others(p), row'.pending = row.pending,
           late \subseteq late', unsure \subseteq unsure',
           \A t \in Tokens : counted'[t] = counted[t] /\ (t \in claims' <=> t \in claims),
           proc'[p].todo \subseteq proc[p].todo \union OldMarkers,
           proc'[p].pc = "settle" => /\ proc'[p].token \in Tokens
                                     /\ (proc'[p].found <=> proc'[p].token \in claims),
           p \in Callers => proc'[p].pc \notin Working
    PROVE  TokenOK'
<1>1. (\A q \in Procs \ {p} : proc'[q] = proc[q]) /\ Astray \subseteq Astray'
  BY DEF Others, Astray
<1>2. \A t \in Tokens : Holds(t)' <=> Holds(t)
  BY DEF Holds
<1>3. \A t \in Tokens : TokenCounted(t)'
  BY <1>1, <1>2 DEF TokenOK, TokenCounted
<1>4. \A q \in Procs : proc[q].pc = "settle" => proc[q].token \in Tokens
  BY DEF IInv, VarsOK, ProcOK, ProcRecord
<1>5. ASSUME NEW m \in Callers, proc'[m].pc \in Working, proc'[m].at \notin Astray' PROVE CallerHolds(m)'
  <2>1. /\ m # p /\ proc'[m] = proc[m] /\ CallerHolds(m) /\ proc[m].at \notin Astray
        /\ proc[m].pc \in Working /\ proc[m].at \in Tokens
    BY <1>1, <1>5 DEF TokenOK, IInv, ProcOK, Procs, Working
  <2>2. \A n \in Callers \ {m} : ~(proc'[n].pc \in Working /\ proc'[n].at = proc[m].at)
    BY <1>1, <2>1 DEF CallerHolds, Procs
  <2>3. ASSUME proc[m].pc = "create", NEW q \in Procs PROVE proc[m].at \notin proc'[q].todo
    <3>1. proc[m].at \notin OldMarkers /\ proc[m].at \notin proc[q].todo
      BY <2>1, <2>3 DEF CallerHolds, OldMarkers
    <3> QED
      BY <1>1, <3>1
  <2> QED
    BY <1>2, <2>1, <2>2, <2>3 DEF CallerHolds
<1>6. \A m \in Callers : CallerHolds(m)'
  BY <1>5 DEF CallerHolds
<1>7. ASSUME NEW q \in Procs, proc'[q].pc = "settle", proc'[q].token \notin Astray'
      PROVE  proc'[q].found <=> proc'[q].token \in claims'
  BY <1>1, <1>4, <1>7 DEF TokenOK
<1> QED
  BY <1>3, <1>6, <1>7 DEF TokenOK

\* A marker is settled: if the token is not astray, whether it has its Run is
\* known, and no Run is being created.
LEMMA SettleOldTokens == ASSUME IInv, TokenOK, NEW p \in Procs, SettleOld(p) PROVE TokenOK'
<1>1. VarsOK /\ RowOK /\ ProcOK(p) /\ UNCHANGED <<now, claims, used, late, unsure>>
      /\ SettlePending(proc[p].token, proc[p].found)
  BY DEF IInv, SettleOld, keptVars, historyVars, runVars
<1>2. /\ Others(p) /\ KeepsPlan(p) /\ proc[p].pc = "settle" /\ proc'[p].pc = "probe"
      /\ proc'[p].todo = proc[p].todo \ {proc[p].token}
  BY <1>1, SettleOldEffect
<1>3. PICK t \in Tokens, found \in BOOLEAN : t = proc[p].token /\ found = proc[p].found
  BY <1>1, <1>2 DEF ProcOK, VarsOK, ProcRecord
<1>4. (found => t \in claims) /\ (t \notin Astray => (found <=> t \in claims)) /\ t \in proc[p].todo
  BY <1>1, <1>2, <1>3 DEF TokenOK, ProcOK
<1>5. SettlePending(t, found)
  BY <1>1, <1>3
<1>6. /\ row'.pending = {marker \in row.pending : marker.fire # t}
      /\ \A c \in Occ \union Tokens : c # t => counted'[c] = counted[c]
      /\ counted'[t] = IF found /\ Holds(t) THEN counted[t] + 1 ELSE counted[t]
  BY <1>1, <1>4, <1>5, SettleRow
<1>7. (\A u \in Tokens : Holds(u)' <=> (u # t /\ Holds(u))) /\ Astray' = Astray
  BY <1>1, <1>6 DEF Holds, Astray
<1>8. ASSUME NEW u \in Tokens PROVE TokenCounted(u)'
  <2>1. TokenCounted(u) /\ counted[u] \in Nat
    BY <1>1 DEF TokenOK, VarsOK
  <2>2. CASE u # t
    <3>1. counted'[u] = counted[u]
      BY <1>6, <2>2
    <3> QED
      BY <1>1, <1>7, <2>1, <2>2, <3>1 DEF TokenCounted
  <2>3. CASE u = t
    <3>1. ~Holds(u)' /\ (counted'[u] = IF found /\ Holds(u) THEN counted[u] + 1 ELSE counted[u])
      BY <1>6, <1>7, <2>3
    <3>2. u \notin late /\ Holds(u) => counted[u] = 0
      BY <2>1 DEF TokenCounted
    <3>3. counted'[u] > 0 => u \in claims
      BY <1>4, <2>1, <2>3, <3>1 DEF TokenCounted
    <3>4. u \notin late => counted'[u] <= 1
      BY <2>1, <3>1, <3>2 DEF TokenCounted
    <3>5. u \in claims \ Astray => counted'[u] = 1
      BY <1>4, <2>1, <2>3, <3>1, <3>2 DEF TokenCounted, Astray
    <3> QED
      BY <1>1, <1>7, <3>1, <3>3, <3>4, <3>5 DEF TokenCounted
  <2> QED
    BY <2>2, <2>3
<1>9. ASSUME NEW m \in Callers, proc'[m].pc \in Working, proc'[m].at \notin Astray' PROVE CallerHolds(m)'
  <2>1. /\ proc'[m] = proc[m] /\ CallerHolds(m) /\ proc[m].at \notin Astray
        /\ proc[m].pc \in Working /\ proc[m].at \in Tokens
    BY <1>2, <1>7, <1>9 DEF TokenOK, IInv, ProcOK, Procs, Working, Others
  <2>2. \A n \in Callers \ {m} : ~(proc'[n].pc \in Working /\ proc'[n].at = proc[m].at)
    BY <1>2, <2>1 DEF CallerHolds, Procs, Others, Working
  <2>3. \A q \in Procs : proc'[q].todo \subseteq proc[q].todo
    BY <1>2 DEF Others
  <2>4. proc[m].pc = "create" => proc[m].at # t
    BY <1>4, <2>1 DEF CallerHolds
  <2> QED
    BY <1>1, <1>6, <1>7, <2>1, <2>2, <2>3, <2>4 DEF CallerHolds
<1>10. \A m \in Callers : CallerHolds(m)'
  BY <1>9 DEF CallerHolds
<1>11. \A q \in Procs : proc'[q].pc = "settle" /\ proc'[q].token \notin Astray' =>
            (proc'[q].found <=> proc'[q].token \in claims')
  BY <1>1, <1>2, <1>7 DEF Others, TokenOK
<1> QED
  BY <1>8, <1>10, <1>11 DEF TokenOK

LEMMA ReconcileTokens == ASSUME IInv, TokenOK, NEW p \in Procs, Reconcile(p) PROVE TokenOK'
<1>1. VarsOK /\ RowOK /\ ProcOK(p) /\ proc[p] \in ProcRecord
  BY DEF IInv, VarsOK
<1>2. p \in Callers => p \notin Tickers
  BY ScheduleAssumption
<1>3. CASE Probe(p)
  <2>1. UNCHANGED <<row, counted, claims, late, unsure>>
    BY <1>3 DEF Probe, keptVars, historyVars, runVars
  <2>2. proc'[p].token \in Tokens /\ proc'[p].found = (proc'[p].token \in claims)
    BY <1>1, <1>3, ProbeEffect DEF ProcRecord
  <2> QED
    BY <1>1, <1>3, <2>1, <2>2, ProbeEffect, TokenFrame DEF Working
<1>4. CASE ProbeFails(p)
  <2>1. UNCHANGED <<row, counted, claims, late, unsure>>
    BY <1>4 DEF ProbeFails, keptVars, historyVars, runVars
  <2> QED
    BY <1>1, <1>4, <2>1, ProbeFailsEffect, TokenFrame DEF Working
<1>5. CASE SettleOld(p)
  BY <1>5, SettleOldTokens
<1>6. CASE Reread(p)
  <2>1. UNCHANGED <<row, counted, claims, late, unsure>>
    BY <1>6 DEF Reread, keptVars, historyVars, runVars
  <2> QED
    BY <1>1, <1>2, <1>6, <2>1, RereadEffect, TokenFrame DEF Working
<1> QED
  BY <1>3, <1>4, <1>5, <1>6 DEF Reconcile

LEMMA TickTokens == ASSUME IInv, TokenOK, NEW k \in Tickers, Tick(k) PROVE TokenOK'
<1>1. VarsOK /\ RowOK /\ ProcOK(k) /\ k \in Procs /\ k \notin Callers /\ Occ \intersect Tokens = {}
      /\ proc[k] \in ProcRecord
  BY ScheduleAssumption DEF IInv, VarsOK, Procs
<1>2. CASE TickReads(k)
  <2>1. UNCHANGED <<row, counted, claims, late, unsure>>
    BY <1>2 DEF TickReads, keptVars, historyVars, runVars
  <2> QED
    BY <1>1, <1>2, <2>1, TickReadsEffect, TokenFrame
<1>3. CASE Decide(k)
  <2>1. UNCHANGED <<row, counted, claims, late, unsure>>
    BY <1>3 DEF Decide, keptVars, historyVars, runVars
  <2>2. Others(k) /\ proc'[k].todo = {} /\ proc'[k].pc # "settle"
    BY <1>1, <1>3, DecideEffect, IdleIsProc DEF Decided
  <2> QED
    BY <1>1, <2>1, <2>2, TokenFrame
<1>4. CASE Admit(k)
  <2>1. UNCHANGED <<row, counted, late, unsure>>
    BY <1>4 DEF Admit, keptVars, historyVars
  <2>2. /\ Others(k) /\ proc'[k].pc = "batch" /\ proc'[k].todo = proc[k].todo
        /\ \E o \in Occ : claims' = claims \union {o}
    BY <1>1, <1>4, AdmitEffect DEF ProcRecord
  <2>3. \A t \in Tokens : t \in claims' <=> t \in claims
    BY <1>1, <2>2
  <2> QED
    BY <1>1, <2>1, <2>2, <2>3, TokenFrame
<1>5. CASE AdmitFails(k)
  <2>1. UNCHANGED <<row, counted, late, unsure>>
    BY <1>5 DEF AdmitFails, keptVars, historyVars
  <2>2. /\ Others(k) /\ proc'[k].pc = "batch" /\ proc'[k].todo = proc[k].todo
        /\ \E o \in Occ : claims' = claims \/ claims' = claims \union {o}
    BY <1>1, <1>5, AdmitFailsEffect DEF ProcRecord
  <2>3. \A t \in Tokens : t \in claims' <=> t \in claims
    BY <1>1, <2>2
  <2> QED
    BY <1>1, <2>1, <2>2, <2>3, TokenFrame
<1>6. CASE Record(k)
  <2>1. /\ Others(k) /\ proc'[k] = Idle /\ UNCHANGED <<claims, late, unsure>> /\ row'.pending = row.pending
        /\ \A c \in Occ \union Tokens :
             counted'[c] = counted[c] + (IF c \in proc[k].admitted THEN 1 ELSE 0)
                                      + (IF c \in proc[k].recovered \ row.credited THEN 1 ELSE 0)
    BY <1>6, RecordEffect DEF Record, keptVars, historyVars
  <2>2. ASSUME NEW t \in Tokens PROVE counted'[t] = counted[t]
    <3>1. t \notin proc[k].admitted /\ t \notin proc[k].recovered \ row.credited
      BY <1>1 DEF ProcRecord
    <3>2. counted[t] \in Nat
      BY <1>1 DEF VarsOK
    <3>3. counted'[t] = counted[t] + 0 + 0
      BY <2>1, <3>1
    <3> QED
      BY <3>2, <3>3
  <2> QED
    BY <1>1, <2>1, <2>2, IdleIsProc, TokenFrame
<1> QED
  BY <1>1, <1>2, <1>3, <1>4, <1>5, <1>6, ReconcileTokens DEF Tick

LEMMA LookupTokens == ASSUME IInv, TokenOK, NEW m \in Callers, Lookup(m) PROVE TokenOK'
<1>1. VarsOK /\ m \in Procs /\ UNCHANGED <<row, counted, claims, late, unsure>>
  BY DEF IInv, Procs, Lookup, keptVars, historyVars, runVars
<1> QED
  BY <1>1, LookupEffect, IdleIsProc, TokenFrame DEF Working

LEMMA FireTokens ==
    ASSUME IInv, TokenOK, NEW m \in Callers, NEW t \in Tokens, Fire(m, t) PROVE TokenOK'
<1>1. VarsOK /\ RowOK /\ m \in Procs /\ UNCHANGED <<row, counted, claims, late, unsure>>
  BY DEF IInv, Procs, Fire, historyVars, runVars
<1>2. Others(m) /\ proc'[m].pc \in {"probe", "lookup"} /\ proc'[m].todo = OldMarkers
  BY <1>1, FireEffect
<1> QED
  BY <1>1, <1>2, TokenFrame DEF Working

\* A caller changes markers and Runs of its own token only; if that is not
\* astray then, no other submission of it is past its reservation, and whoever
\* is to settle it still knows whether it has its Run.
LEMMA OwnToken ==
    ASSUME IInv, TokenOK, NEW m \in Callers, NEW t \in Tokens, t = proc[m].at, Others(m),
           late \subseteq late', unsure \subseteq unsure',
           proc'[m].todo \subseteq proc[m].todo, proc'[m].pc # "settle",
           proc'[m].pc \in Working => proc'[m].at = t,
           \A u \in Tokens \ {t} : counted'[u] = counted[u] /\ (u \in claims' <=> u \in claims),
           \A marker \in row.pending : marker.fire # t => marker \in row'.pending,
           \A marker \in row'.pending : marker.fire # t => marker \in row.pending,
           t \notin Astray' => /\ \A n \in Callers \ {m} : ~(proc[n].pc \in Working /\ proc[n].at = t)
                               /\ \/ t \in claims' <=> t \in claims
                                  \/ \A q \in Procs : t \notin proc[q].todo,
           TokenCounted(t)', CallerHolds(m)'
    PROVE  TokenOK'
<1>1. (\A u \in Tokens \ {t} : Holds(u)' <=> Holds(u)) /\ Astray \subseteq Astray'
  BY DEF Holds, Astray
<1>2. \A u \in Tokens : TokenCounted(u)'
  BY <1>1 DEF TokenOK, TokenCounted
<1>3. ASSUME NEW n \in Callers, n # m, proc'[n].pc \in Working, proc'[n].at \notin Astray'
      PROVE  CallerHolds(n)'
  <2>1. /\ proc'[n] = proc[n] /\ CallerHolds(n) /\ proc[n].at \notin Astray
        /\ proc[n].pc \in Working /\ proc[n].at \in Tokens
    BY <1>1, <1>3 DEF TokenOK, IInv, ProcOK, Others, Procs, Working
  <2>2. proc[n].at # t
    BY <1>3, <2>1
  <2>3. \A q \in Callers \ {n} : ~(proc'[q].pc \in Working /\ proc'[q].at = proc[n].at)
    BY <2>1, <2>2 DEF CallerHolds, Others, Procs
  <2>4. \A q \in Procs : proc'[q].todo \subseteq proc[q].todo
    BY DEF Others
  <2> QED
    BY <1>1, <2>1, <2>2, <2>3, <2>4 DEF CallerHolds
<1>4. \A n \in Callers : CallerHolds(n)'
  BY <1>3 DEF CallerHolds
<1>5. ASSUME NEW q \in Procs, proc'[q].pc = "settle", proc'[q].token \notin Astray'
      PROVE  proc'[q].found <=> proc'[q].token \in claims'
  <2>1. /\ proc'[q] = proc[q] /\ proc[q].pc = "settle" /\ proc[q].token \in proc[q].todo
        /\ proc[q].token \in Tokens /\ proc[q].token \notin Astray
    BY <1>1, <1>5 DEF Others, IInv, ProcOK, VarsOK, ProcRecord
  <2>2. proc[q].token \in claims' <=> proc[q].token \in claims
    BY <1>5, <2>1
  <2> QED
    BY <2>1, <2>2 DEF TokenOK
<1> QED
  BY <1>2, <1>4, <1>5 DEF TokenOK

LEMMA ReserveTokens == ASSUME IInv, TokenOK, NEW m \in Callers, Reserve(m) PROVE TokenOK'
<1>1. VarsOK /\ RowOK /\ ProcOK(m) /\ m \in Procs /\ UNCHANGED <<counted, claims>>
      /\ proc[m].pc = "reserve" /\ late \subseteq late' /\ unsure \subseteq unsure'
  BY ReserveEffect DEF IInv, Procs, Reserve, runVars
<1> PICK t \in Tokens : t = proc[m].at
  BY <1>1 DEF ProcOK
<1> DEFINE mine == [fire |-> t, by |-> m, old |-> FALSE]
<1>2. TokenCounted(t) /\ counted[t] \in Nat
  BY <1>1 DEF TokenOK, VarsOK
<1>3. CASE proc'[m] = Idle /\ row' = row
  BY <1>1, <1>3, ReserveEffect, IdleIsProc, TokenFrame DEF Working
<1>4. CASE ~(proc'[m] = Idle /\ row' = row)
  <2>1. /\ Others(m) /\ KeepsPlan(m) /\ proc'[m].pc = "create" /\ proc'[m].todo = proc[m].todo
        /\ row'.pending = row.pending \union {mine}
        /\ (t \in claims => t \in late') /\ (Shared(t) => t \in unsure')
    BY <1>1, <1>4, ReserveEffect
  <2>2. mine.fire = t /\ mine.by = m /\ ~mine.old
    OBVIOUS
  <2> HIDE DEF mine
  <2>3. proc'[m].at = t /\ \A p \in Procs : proc'[p].todo = proc[p].todo
    BY <2>1 DEF KeepsPlan, Others
  <2>4. Holds(t)'
    BY <2>1, <2>2 DEF Holds
  <2>5. t \notin Astray' =>
           /\ t \notin claims /\ \A marker \in row.pending : marker.fire # t
           /\ \A p \in Procs : t \notin proc[p].todo /\ ~(proc[p].pc \in Working /\ proc[p].at = t)
    BY <2>1 DEF Astray, Shared, Holding, Working
  <2>6. TokenCounted(t)'
    BY <1>1, <1>2, <2>1, <2>4 DEF TokenCounted, Astray
  <2>7. CallerHolds(m)'
    <3>1. \A n \in Callers \ {m} : proc'[n] = proc[n]
      BY <2>1 DEF Others, Procs
    <3>2. \A n \in Callers : n \in Procs
      BY DEF Procs
    <3> QED
      BY <1>1, <2>1, <2>2, <2>3, <2>4, <2>5, <3>1, <3>2 DEF CallerHolds
  <2>8. t \notin Astray' => \A n \in Callers \ {m} : ~(proc[n].pc \in Working /\ proc[n].at = t)
    BY <2>5 DEF Procs
  <2> QED
    BY <1>1, <2>1, <2>2, <2>3, <2>6, <2>7, <2>8, OwnToken
<1> QED
  BY <1>3, <1>4

LEMMA CreateTokens == ASSUME IInv, TokenOK, NEW m \in Callers, Create(m) PROVE TokenOK'
<1>1. VarsOK /\ RowOK /\ ProcOK(m) /\ m \in Procs /\ UNCHANGED <<counted, row, late>> /\ proc[m].pc = "create"
  BY DEF IInv, Procs, Create
<1> PICK t \in Tokens : t = proc[m].at
  BY <1>1 DEF ProcOK
<1>2. CallerHolds(m) /\ TokenCounted(t)
  BY DEF TokenOK
<1>3. /\ Others(m) /\ KeepsPlan(m) /\ proc'[m].todo = proc[m].todo
      /\ proc'[m].pc \in {"confirm", "release"} /\ unsure \subseteq unsure' /\ claims \subseteq claims'
      /\ \A u \in Tokens \ {t} : u \in claims' <=> u \in claims
      /\ proc'[m].pc = "release" => t \in unsure' \/ claims' = claims
  BY <1>1, CreateEffect
<1>4. proc'[m].at = t /\ \A n \in Callers \ {m} : proc'[n] = proc[n]
  BY <1>3 DEF KeepsPlan, Others, Procs
<1>5. Astray \subseteq Astray' /\ (t \in unsure' => t \in Astray')
  BY <1>1, <1>3 DEF Astray
<1>6. t \notin Astray' =>
        /\ \A n \in Callers \ {m} : ~(proc[n].pc \in Working /\ proc[n].at = t)
        /\ Holds(t) /\ t \notin claims /\ \A p \in Procs : t \notin proc[p].todo
  BY <1>1, <1>2, <1>5 DEF CallerHolds, Working
<1>7. TokenCounted(t)'
  BY <1>1, <1>2, <1>3, <1>6 DEF TokenCounted, Holds
<1>8. CallerHolds(m)'
  BY <1>3, <1>4, <1>5, <1>6 DEF CallerHolds
<1> QED
  BY <1>1, <1>3, <1>4, <1>6, <1>7, <1>8, OwnToken

LEMMA CloseTokens == ASSUME IInv, TokenOK, NEW m \in Callers, Close(m) PROVE TokenOK'
<1>1. VarsOK /\ RowOK /\ ProcOK(m) /\ m \in Procs /\ UNCHANGED <<claims, late, unsure>>
      /\ proc[m].pc \in {"confirm", "release"}
  BY DEF IInv, Procs, Close, keptVars, historyVars, runVars
<1> PICK t \in Tokens : t = proc[m].at
  BY <1>1 DEF ProcOK
<1>2. /\ CallerHolds(m) /\ TokenCounted(t) /\ (proc[m].pc = "confirm" => t \in claims)
      /\ counted[t] \in Nat /\ Astray' = Astray
  BY <1>1 DEF TokenOK, ProcOK, VarsOK, Astray
<1>3. /\ Others(m) /\ proc'[m] = Idle
      /\ row'.pending = {marker \in row.pending : marker.fire # t}
      /\ \A c \in Occ \union Tokens : c # t => counted'[c] = counted[c]
      /\ counted'[t] = IF proc[m].pc = "confirm" /\ Holds(t) THEN counted[t] + 1 ELSE counted[t]
  BY <1>1, CloseEffect
<1>4. ~Holds(t)'
  BY <1>3 DEF Holds
<1>5. t \notin Astray =>
        /\ \A n \in Callers \ {m} : ~(proc[n].pc \in Working /\ proc[n].at = t)
        /\ proc[m].pc = "release" => t \notin claims
  BY <1>1, <1>2 DEF CallerHolds, Working
<1>6. TokenCounted(t)'
  <2>1. t \notin late /\ Holds(t) => counted[t] = 0
    BY <1>2 DEF TokenCounted
  <2>2. counted'[t] > 0 => t \in claims
    BY <1>2, <1>3 DEF TokenCounted
  <2>3. t \notin late => counted'[t] <= 1
    BY <1>2, <1>3, <2>1 DEF TokenCounted
  <2>4. t \in claims \ Astray => counted'[t] = 1
    BY <1>1, <1>2, <1>3, <1>5, <2>1 DEF TokenCounted, Astray
  <2> QED
    BY <1>1, <1>2, <1>4, <2>2, <2>3, <2>4 DEF TokenCounted
<1>7. CallerHolds(m)' /\ proc'[m].pc \notin Working
  BY <1>3, IdleIsProc DEF CallerHolds, Working
<1> QED
  BY <1>1, <1>2, <1>3, <1>5, <1>6, <1>7, IdleIsProc, OwnToken

\* A marker gets old; if a Run was being created under it, its token is unsure.
LEMMA AgesTokens == ASSUME IInv, TokenOK, MarkerAges PROVE TokenOK'
<1>1. VarsOK /\ RowOK /\ UNCHANGED <<counted, claims, proc, late>>
  BY DEF IInv, MarkerAges, runVars
<1>2. PICK marker \in row.pending, aged \in Marker :
          /\ aged.fire = marker.fire /\ aged.by = marker.by /\ unsure \subseteq unsure'
          /\ (Holding(marker.by, marker.fire) /\ proc[marker.by].pc = "create" => marker.fire \in unsure')
          /\ row'.pending = (row.pending \ {marker}) \union {aged}
  BY <1>1, AgesEffect
<1>3. (\A t \in Tokens : Holds(t)' <=> Holds(t)) /\ Astray \subseteq Astray'
  BY <1>1, <1>2 DEF Holds, Astray
<1>4. \A t \in Tokens : TokenCounted(t)'
  BY <1>1, <1>3 DEF TokenOK, TokenCounted
<1>5. ASSUME NEW m \in Callers, proc[m].pc \in Working, proc[m].at \notin Astray' PROVE CallerHolds(m)'
  <2>1. CallerHolds(m) /\ proc[m].at \in Tokens /\ proc[m].at \notin Astray
    BY <1>3, <1>5 DEF TokenOK, IInv, ProcOK, Procs, Working
  <2>2. ASSUME proc[m].pc = "create"
        PROVE  \A other \in row'.pending : other.fire = proc[m].at => other \in row.pending
    <3>1. marker.fire # proc[m].at
      BY <1>2, <1>5, <2>1, <2>2 DEF CallerHolds, Holding, Astray
    <3> QED
      BY <1>2, <3>1
  <2> QED
    BY <1>1, <1>3, <1>5, <2>1, <2>2 DEF CallerHolds
<1>6. \A m \in Callers : CallerHolds(m)'
  BY <1>1, <1>5 DEF CallerHolds
<1>7. \A p \in Procs : proc'[p].pc = "settle" /\ proc'[p].token \notin Astray' =>
            (proc'[p].found <=> proc'[p].token \in claims')
  BY <1>1, <1>3 DEF TokenOK
<1> QED
  BY <1>4, <1>6, <1>7 DEF TokenOK

LEMMA StepKeepsTokens == IInv /\ TokenOK /\ [Next]_vars => TokenOK'
<1> SUFFICES ASSUME IInv, TokenOK, [Next]_vars PROVE TokenOK'
  OBVIOUS
<1>1. ASSUME NEW k \in Tickers, Tick(k) PROVE TokenOK'
  BY <1>1, TickTokens
<1>2. ASSUME NEW m \in Callers, Call(m) PROVE TokenOK'
  BY <1>2, ReconcileTokens, LookupTokens, ReserveTokens, CreateTokens, CloseTokens DEF Call, Procs
<1>3. ASSUME NEW m \in Callers, NEW t \in Tokens, Fire(m, t) PROVE TokenOK'
  BY <1>3, FireTokens
<1>4. ASSUME NEW p \in Procs, Crash(p) PROVE TokenOK'
  <2>1. Ends(p) /\ UNCHANGED <<row, counted, claims, late, unsure>> /\ VarsOK
    BY <1>4 DEF Crash, runVars, historyVars, IInv
  <2>2. Others(p) /\ proc'[p] = Idle
    BY <2>1, EndsEffect
  <2> QED
    BY <2>1, <2>2, IdleIsProc, TokenFrame DEF Working
<1>5. CASE MarkerAges
  BY <1>5, AgesTokens
<1>6. ASSUME UNCHANGED <<row, counted, claims, proc, unsure>>, late \subseteq late' PROVE TokenOK'
  <2>1. Astray \subseteq Astray' /\ \A t \in Tokens : Holds(t)' <=> Holds(t)
    BY <1>6 DEF Astray, Holds
  <2>2. \A t \in Tokens : TokenCounted(t)'
    BY <1>6, <2>1 DEF TokenOK, TokenCounted
  <2>3. \A m \in Callers : CallerHolds(m)'
    BY <1>6, <2>1 DEF TokenOK, CallerHolds, Holds
  <2> QED
    BY <1>6, <2>1, <2>2, <2>3 DEF TokenOK
<1>7. CASE Clock \/ RunEnds \/ UNCHANGED vars
  BY <1>6, <1>7 DEF Clock, RunEnds, vars, runVars, historyVars
<1> QED
  BY <1>1, <1>2, <1>3, <1>4, <1>5, <1>7 DEF Next

------------------------------------------------------------------------------
\* Only a Run that exists is counted, and at most once, whoever finds it, but
\* for occurrences that left the window under a tick and tokens for which a slot
\* was held after they had their Run (record_fire, _settle_pending,
\* _reconcile_claims, _admit_manual).
THEOREM RunsAreCountedOnce == Spec => []CountedOnce
<1>1. Init => IInv /\ CountOK /\ TokenOK
  BY InitHolds
<1>2. IInv /\ CountOK /\ TokenOK /\ [Next]_vars => (IInv /\ CountOK /\ TokenOK)'
  BY StepKeepsIInv, StepKeepsCount, StepKeepsTokens
<1>3. IInv /\ CountOK /\ TokenOK => CountedOnce
  <2> SUFFICES ASSUME IInv, CountOK, TokenOK, NEW c \in DOMAIN counted, counted[c] > 0
               PROVE  c \in claims /\ (c \in late \/ counted[c] = 1)
    BY DEF CountedOnce
  <2>1. (c \in Occ \/ c \in Tokens) /\ counted[c] \in Nat
    BY DEF IInv, VarsOK
  <2>2. CASE c \in Occ
    BY <2>2 DEF CountOK
  <2>3. CASE c \in Tokens
    BY <2>1, <2>3 DEF TokenOK, TokenCounted
  <2> QED
    BY <2>1, <2>2, <2>3
<1> QED
  BY <1>1, <1>2, <1>3, PTL DEF Spec

\* At every moment a fire by hand that has its Run is counted, or has a marker
\* from which it will be, but for the tokens that had two slots at once, or whose
\* creation outlived its lease or was answered by an error although the Run exists
\* (reserve_fire, settle_pending_fire, _admit_manual, _reconcile_pending_fires).
THEOREM HandFiresAreCounted == Spec => []ManualRunsAreCounted
<1>1. Init => IInv /\ TokenOK
  BY InitHolds
<1>2. IInv /\ TokenOK /\ [Next]_vars => (IInv /\ TokenOK)'
  BY StepKeepsIInv, StepKeepsTokens
<1>3. IInv /\ TokenOK => ManualRunsAreCounted
  <2> SUFFICES ASSUME IInv, TokenOK, NEW t \in (claims \intersect Tokens) \ (late \union unsure)
               PROVE  counted[t] = IF \E marker \in row.pending : marker.fire = t THEN 0 ELSE 1
    BY DEF ManualRunsAreCounted
  <2>1. TokenCounted(t) /\ t \notin Astray /\ counted[t] \in Nat
    BY DEF TokenOK, Astray, IInv, VarsOK
  <2> QED
    BY <2>1 DEF TokenCounted, Holds, Astray
<1> QED
  BY <1>1, <1>2, <1>3, PTL DEF Spec
==============================================================================
