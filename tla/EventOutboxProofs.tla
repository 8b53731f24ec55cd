-------------------------- MODULE EventOutboxProofs --------------------------
(***************************************************************************)
(* Proofs about EventOutbox, for any number of rows, streams, attempts and *)
(* readers.  The types and what readers see hold for any publishers, which *)
(* may die anywhere; that streams keep their order holds for one.          *)
(*                                                                         *)
(* The mark of a stream is at or above every sequence that was handed out  *)
(* in it and every cursor (MarksOK), so the next sequence is new and not   *)
(* behind a reader.  The order rests on two sides: a pass that holds a row *)
(* holds every earlier row of its stream that is pending (HeadsOK), from   *)
(* Select on; and as long as a row is pending nothing after it in its      *)
(* stream is in the log (OrderOK).                                         *)
(***************************************************************************)
EXTENDS EventOutbox, Integers, FiniteSetTheorems, TLAPS

------------------------------------------------------------------------------
\* Facts about sets of numbers.

\* A set of naturals that is not empty has a least element: of the segments below
\* its elements one is contained in no other properly.
LEMMA MinIsLeast ==
    ASSUME NEW S \in SUBSET Nat, S # {}
    PROVE  Min(S) \in S /\ \A y \in S : Min(S) <= y
<1> DEFINE Segments == {0..y : y \in S}
<1>1. Segments \subseteq FiniteSubsetsOf(Nat) /\ Segments # {}
  <2>1. \A y \in S : IsFiniteSet(0..y) /\ 0..y \subseteq Nat
    BY FS_Interval
  <2> QED
    BY <2>1 DEF FiniteSubsetsOf
<1>2. PICK s \in Segments : \A t \in Segments : <<t, s>> \notin StrictSubsetOrdering(Nat)
  BY <1>1, FS_StrictSubsetOrderingWellFounded, WFMin, Zenon
<1>3. PICK x \in S : s = 0..x
  OBVIOUS
<1>4. ASSUME NEW y \in S, y < x PROVE FALSE
  <2>1. 0..y \in SUBSET Nat /\ 0..x \in SUBSET Nat /\ 0..y \subseteq 0..x
    BY <1>4
  <2>2. x \in 0..x /\ x \notin 0..y
    BY <1>4
  <2>3. <<0..y, 0..x>> \in StrictSubsetOrdering(Nat)
    BY <2>1, <2>2 DEF StrictSubsetOrdering
  <2> QED
    BY <1>2, <1>3, <2>3
<1>5. \A y \in S : x <= y
  BY <1>4
<1> QED
  BY <1>5 DEF Min

\* A bounded one has a greatest: the least of its upper bounds.
LEMMA MaxIsGreatest ==
    ASSUME NEW n \in Nat, NEW S \in SUBSET (0..n), S # {}
    PROVE  Max(S) \in S /\ \A y \in S : y <= Max(S)
<1> DEFINE Above == {m \in Nat : \A y \in S : y <= m}
           top == Min(Above)
<1>1. n \in Above /\ Above \subseteq Nat
  OBVIOUS
<1>2. top \in Above /\ \A m \in Above : top <= m
  BY <1>1, MinIsLeast
<1>3. top \in S
  <2> SUFFICES ASSUME top \notin S PROVE FALSE
    OBVIOUS
  <2>1. \A y \in S : y \in Nat /\ y < top
    BY <1>2
  <2>2. top \in Nat
    BY <1>2
  <2>3. top # 0
    <3> HIDE DEF top, Above
    <3>1. PICK y \in S : y \in Nat /\ y < top
      BY <2>1
    <3> QED
      BY <3>1
  <2>4. top - 1 \in Above
    BY <2>1, <2>2, <2>3
  <2> HIDE DEF top
  <2> QED
    BY <1>2, <2>2, <2>4
<1>4. \A y \in S : y <= top
  BY <1>2
<1> HIDE DEF top, Above
<1> QED
  BY <1>3, <1>4 DEF Max

\* The first n elements of a finite set of numbers are closed under smaller ones.
LEMMA FirstAreClosed ==
    ASSUME NEW S \in SUBSET Int, IsFiniteSet(S), NEW n \in Nat,
           NEW x \in S, NEW y \in S, y < x,
           Cardinality({z \in S : z < x}) < n
    PROVE  Cardinality({z \in S : z < y}) < n
<1>1. {z \in S : z < y} \subseteq {z \in S : z < x}
  <2>1. \A z \in S : z < y => z < x
    OBVIOUS
  <2> QED
    BY <2>1
<1>2. IsFiniteSet({z \in S : z < x})
  BY FS_Subset
<1>3. /\ IsFiniteSet({z \in S : z < y})
      /\ Cardinality({z \in S : z < y}) <= Cardinality({z \in S : z < x})
  BY <1>1, <1>2, FS_Subset
<1>4. Cardinality({z \in S : z < y}) \in Nat /\ Cardinality({z \in S : z < x}) \in Nat
  BY <1>2, <1>3, FS_CardinalityType
<1> QED
  BY <1>3, <1>4

------------------------------------------------------------------------------

PassRecord ==
    [pc : {"idle", "drain", "mark", "record"}, left : SUBSET Rows,
     blocked : SUBSET Streams, attempts : [Rows -> 0..MaxAttempts]]

\* Rows are staged one after the other, and only a committed one is appended.
StagedOK ==
    /\ \A q, r \in Rows : q < r /\ staged[r] # "none" => staged[q] \in {"committed", "void"}
    /\ \A r \in Rows : sequence[r] # 0 => staged[r] = "committed"
    /\ \A p \in Publishers : \A r \in pass[p].left : staged[r] = "committed"

\* A row has attempts left until it is settled, and a pass takes no other.
AttemptsOK ==
    /\ \A r \in Rows : attempts[r] = MaxAttempts => r \in published \union dead
    /\ \A p \in Publishers : \A r \in pass[p].left : pass[p].attempts[r] < MaxAttempts

\* What a pass is about to mark was appended.
AppendedOK ==
    \A p \in Publishers : pass[p].pc = "mark" => Row(p) \in Expiring \/ sequence[Row(p)] # 0

\* The sequences of a stream.
MarksOK ==
    /\ \A r \in Rows : sequence[r] <= mark[StreamOf[r]]
    /\ \A s \in Streams : cursor[s] <= mark[s]
    /\ \A q, r \in Rows : StreamOf[q] = StreamOf[r] /\ sequence[q] = sequence[r] /\ q # r => sequence[r] = 0

\* A pass holds back what is behind an earlier row that is pending.
HeadsOK ==
    \A p \in Publishers : \A r \in Left(p) : Before(r) \intersect Pending \subseteq Left(p)

IInv ==
    /\ OutboxTypeOK
    /\ StagedOK
    /\ AttemptsOK
    /\ AppendedOK
    /\ MarksOK
    /\ HeadsOK
    /\ ReadersMissNothing

\* One publisher: what its pass holds is pending, and so everything after it is not in the log.
OrderOK ==
    /\ \A p \in Publishers : pass[p].left \subseteq Pending
    /\ \A q, r \in Rows : r \in Before(q) /\ r \in Pending => sequence[q] = 0
------------------------------------------------------------------------------
\* Nothing is staged.
LEMMA InitHolds == Init => IInv /\ OrderOK
<1> SUFFICES ASSUME Init PROVE IInv /\ OrderOK
  OBVIOUS
<1> USE DEF Init
<1>1. NoPass \in PassRecord /\ NoPass.pc = "idle" /\ NoPass.left = {}
  BY OutboxAssumption DEF NoPass, PassRecord
<1>2. \A p \in Publishers : pass[p] = NoPass /\ Left(p) = {}
  BY <1>1 DEF Left
<1>3. OutboxTypeOK
  BY <1>1, <1>2, OutboxAssumption DEF OutboxTypeOK, PassRecord
<1>4. StagedOK /\ AttemptsOK /\ AppendedOK /\ HeadsOK
  BY <1>1, <1>2, OutboxAssumption DEF StagedOK, AttemptsOK, AppendedOK, HeadsOK
<1>5. MarksOK /\ ReadersMissNothing
  BY OutboxAssumption DEF MarksOK, ReadersMissNothing
<1>6. OrderOK
  BY <1>1, <1>2 DEF OrderOK
<1> QED
  BY <1>3, <1>4, <1>5, <1>6 DEF IInv

\* There are as many rows as MaxRow.
LEMMA RowsAreFinite == IsFiniteSet(Rows) /\ Rows \subseteq Int
<1>1. MaxRow \in Int /\ 1 \in Int
  BY OutboxAssumption
<1>2. IsFiniteSet(1..MaxRow)
  BY <1>1, FS_Interval
<1>3. 1..MaxRow \subseteq Int
  BY <1>1
<1> QED
  BY <1>2, <1>3 DEF Rows

\* The row a pass is at is the first of what is left.
LEMMA RowIsFirst ==
    ASSUME OutboxTypeOK, NEW p \in Publishers, Left(p) # {}
    PROVE  /\ Row(p) \in Left(p) /\ Row(p) \in pass[p].left /\ Row(p) \in Rows
           /\ \A r \in Left(p) : Row(p) <= r
<1>1. Left(p) \subseteq pass[p].left /\ pass[p].left \subseteq Rows
  BY DEF Left, OutboxTypeOK
<1>2. Left(p) \in SUBSET Nat
  BY <1>1 DEF Rows
<1> QED
  BY <1>1, <1>2, MinIsLeast DEF Row

\* The next sequence of a stream is the one after its mark.
LEMMA NextFollowsMark ==
    ASSUME OutboxTypeOK, MarksOK, NEW s \in Streams
    PROVE  NextSequence(s) = mark[s] + 1 /\ mark[s] \in Nat
<1> DEFINE S == {mark[s]} \union {sequence[q] : q \in {q \in Rows : StreamOf[q] = s}}
<1>1. mark[s] \in Nat /\ S \in SUBSET (0..mark[s]) /\ S # {} /\ mark[s] \in S
  BY DEF OutboxTypeOK, MarksOK
<1>2. Max(S) \in S /\ \A y \in S : y <= Max(S)
  BY <1>1, MaxIsGreatest
<1>3. NextSequence(s) = Max(S) + 1
  BY DEF NextSequence
<1>4. \A y \in S : y \in Nat /\ y <= mark[s]
  BY <1>1
<1> HIDE DEF S
<1>5. Max(S) \in Nat /\ Max(S) <= mark[s] /\ mark[s] <= Max(S)
  BY <1>1, <1>2, <1>4
<1>6. \A m, n \in Nat : m <= n /\ n <= m => m = n
  OBVIOUS
<1> QED
  BY <1>1, <1>3, <1>5, <1>6

\* A pass that is not changed has the same rows left.
LEMMA LeftStays ==
    ASSUME NEW p, pass'[p] = pass[p]
    PROVE  Left(p)' = Left(p) /\ Row(p)' = Row(p)
  BY DEF Left, Row

------------------------------------------------------------------------------
\* stage
LEMMA StageStep == ASSUME IInv, NEW r \in Rows, Stage(r) PROVE IInv'
<1> USE DEF Stage, outboxVars, logVars, readVars
<1>1. \A p \in Publishers : Left(p)' = Left(p) /\ Row(p)' = Row(p)
  BY LeftStays
<1>2. staged' \in [Rows -> {"none", "open", "committed", "void"}]
  BY DEF IInv, OutboxTypeOK
<1>3. OutboxTypeOK'
  BY <1>1, <1>2 DEF IInv, OutboxTypeOK
<1>4. StagedOK'
  <2>1. \A q \in Rows : q # r => staged'[q] = staged[q]
    BY DEF IInv, OutboxTypeOK
  <2>2. staged'[r] = "open" /\ staged[r] = "none"
    BY DEF IInv, OutboxTypeOK
  <2>3. \A q \in Rows : staged[q] = "none" => \A o \in Rows : q < o => staged[o] = "none"
    BY DEF IInv, StagedOK
  <2>4. ASSUME NEW q \in Rows, NEW o \in Rows, q < o, staged'[o] # "none"
        PROVE  staged'[q] \in {"committed", "void"}
    <3>1. q # r \/ o = r
      BY <2>1, <2>2, <2>3, <2>4
    <3>2. o # r => q # r /\ staged[o] # "none" /\ staged'[q] = staged[q]
      BY <2>1, <2>4, <3>1
    <3>3. o = r => q # r /\ staged[q] \in {"committed", "void"}
      BY <2>4 DEF Rows
    <3> QED
      BY <2>1, <2>4, <3>2, <3>3 DEF IInv, StagedOK
  <2> QED
    BY <2>1, <2>2, <2>4 DEF IInv, OutboxTypeOK, StagedOK
<1>5. Pending' = Pending
  BY DEF Pending, IInv, OutboxTypeOK
<1>6. AttemptsOK' /\ AppendedOK' /\ MarksOK' /\ HeadsOK' /\ ReadersMissNothing'
  BY <1>1, <1>5 DEF IInv, AttemptsOK, AppendedOK, MarksOK, HeadsOK, ReadersMissNothing, Before
<1> QED
  BY <1>3, <1>4, <1>6 DEF IInv

\* The end of the transaction: what becomes pending is the last row that was staged.
LEMMA ConcludeStep ==
    ASSUME IInv, NEW r \in Rows, Conclude(r)
    PROVE  /\ IInv'
           /\ Pending \subseteq Pending' /\ Pending' \subseteq Pending \union {r}
           /\ \A q \in Rows : r \in Before(q) => sequence[q] = 0
<1> USE DEF Conclude, outboxVars, logVars, readVars
<1>1. \A p \in Publishers : Left(p)' = Left(p) /\ Row(p)' = Row(p)
  BY LeftStays
<1>2. staged[r] = "open" /\ staged' \in [Rows -> {"none", "open", "committed", "void"}]
  BY DEF IInv, OutboxTypeOK
<1>3. staged'[r] \in {"committed", "void"} /\ \A q \in Rows : q # r => staged'[q] = staged[q]
  BY DEF IInv, OutboxTypeOK
<1>4. OutboxTypeOK'
  BY <1>1, <1>2 DEF IInv, OutboxTypeOK
<1>5. StagedOK'
  BY <1>2, <1>3 DEF IInv, StagedOK, OutboxTypeOK
<1>6. \A q \in Rows : r < q => staged[q] = "none"
  BY <1>2 DEF IInv, StagedOK
<1>7. Pending \subseteq Pending' /\ Pending' \subseteq Pending \union {r}
  BY <1>2, <1>3 DEF Pending
<1>8. HeadsOK'
  <2> SUFFICES ASSUME NEW p \in Publishers, NEW q \in Left(p)
               PROVE  Before(q) \intersect Pending' \subseteq Left(p)
    BY <1>1 DEF HeadsOK, Before
  <2>1. q \in Rows /\ staged[q] = "committed"
    BY DEF Left, IInv, OutboxTypeOK, StagedOK
  <2>2. r \notin Before(q)
    BY <1>6, <2>1 DEF Before
  <2> QED
    BY <1>7, <2>2 DEF IInv, HeadsOK
<1>9. AttemptsOK' /\ AppendedOK' /\ MarksOK' /\ ReadersMissNothing'
  BY <1>1 DEF IInv, AttemptsOK, AppendedOK, MarksOK, ReadersMissNothing
<1>10. \A q \in Rows : r \in Before(q) => sequence[q] = 0
  BY <1>6 DEF IInv, StagedOK, Before
<1> QED
  BY <1>4, <1>5, <1>7, <1>8, <1>9, <1>10 DEF IInv

\* A backoff ends.
LEMMA BackoffStep == ASSUME IInv, NEW r \in Rows, BackoffEnds(r) PROVE IInv'
<1> USE DEF BackoffEnds, logVars, readVars
<1>1. \A p \in Publishers : Left(p)' = Left(p) /\ Row(p)' = Row(p)
  BY LeftStays
<1>2. OutboxTypeOK'
  BY <1>1 DEF IInv, OutboxTypeOK
<1>3. StagedOK' /\ AttemptsOK' /\ AppendedOK' /\ MarksOK' /\ HeadsOK' /\ ReadersMissNothing'
  BY <1>1 DEF IInv, StagedOK, AttemptsOK, AppendedOK, MarksOK, HeadsOK, ReadersMissNothing,
              Before, Pending
<1> QED
  BY <1>2, <1>3 DEF IInv

\* purge_expired: the mark stays.
LEMMA PurgeStep == ASSUME IInv, NEW r \in Rows, Purge(r) PROVE IInv'
<1> USE DEF Purge, outboxVars, readVars
<1>1. \A p \in Publishers : Left(p)' = Left(p) /\ Row(p)' = Row(p)
  BY LeftStays
<1>2. r \in Expiring /\ sequence \in [Rows -> Nat] /\ sequence' \in [Rows -> Nat]
  BY DEF IInv, OutboxTypeOK
<1>3. sequence'[r] = 0 /\ \A q \in Rows : q # r => sequence'[q] = sequence[q]
  BY <1>2
<1>4. OutboxTypeOK'
  <2>1. \A q \in published \ Expiring : q \in Rows /\ sequence'[q] # 0
    BY <1>2, <1>3 DEF IInv, OutboxTypeOK
  <2> QED
    BY <1>1, <1>2, <2>1 DEF IInv, OutboxTypeOK
<1>5. StagedOK' /\ AttemptsOK'
  BY <1>3 DEF IInv, StagedOK, AttemptsOK
<1>6. AppendedOK'
  <2> SUFFICES ASSUME NEW p \in Publishers, pass[p].pc = "mark"
               PROVE  Row(p) \in Expiring \/ sequence'[Row(p)] # 0
    BY <1>1 DEF AppendedOK
  <2>1. Row(p) \in Rows
    BY RowIsFirst DEF IInv, OutboxTypeOK
  <2> QED
    BY <1>2, <1>3, <2>1 DEF IInv, AppendedOK
<1>7. MarksOK'
  <2>1. mark \in [Streams -> Nat] /\ StreamOf \in [Rows -> Streams]
    BY OutboxAssumption DEF IInv, OutboxTypeOK
  <2> QED
    BY <1>2, <1>3, <2>1 DEF IInv, MarksOK
<1>8. ReadersMissNothing'
  BY <1>3 DEF IInv, ReadersMissNothing
<1>9. HeadsOK'
  BY <1>1 DEF IInv, HeadsOK, Before, Pending
<1> QED
  BY <1>4, <1>5, <1>6, <1>7, <1>8, <1>9 DEF IInv

\* list_stream: what the cursor passes is the event that is read.
LEMMA ReadStep == ASSUME IInv, NEW r \in Rows, Read(r) PROVE IInv'
<1> USE DEF Read, outboxVars, logVars
<1> DEFINE s == StreamOf[r]
<1>1. \A p \in Publishers : Left(p)' = Left(p) /\ Row(p)' = Row(p)
  BY LeftStays
<1>2. s \in Streams /\ StreamOf \in [Rows -> Streams] /\ sequence \in [Rows -> Nat]
      /\ cursor \in [Streams -> Nat] /\ mark \in [Streams -> Nat]
  BY OutboxAssumption DEF IInv, OutboxTypeOK
<1>3. cursor' \in [Streams -> Nat] /\ cursor'[s] = sequence[r]
      /\ \A o \in Streams : o # s => cursor'[o] = cursor[o]
  BY <1>2
<1>4. OutboxTypeOK'
  BY <1>1, <1>3 DEF IInv, OutboxTypeOK
<1>5. StagedOK' /\ AttemptsOK' /\ AppendedOK' /\ HeadsOK'
  BY <1>1 DEF IInv, StagedOK, AttemptsOK, AppendedOK, HeadsOK, Before, Pending
<1>6. MarksOK'
  BY <1>2, <1>3 DEF IInv, MarksOK
<1>7. ReadersMissNothing'
  <2> SUFFICES ASSUME NEW q \in Rows, 0 < sequence[q], sequence[q] <= cursor'[StreamOf[q]]
               PROVE  q \in seen'
    BY DEF ReadersMissNothing
  <2>1. CASE StreamOf[q] # s
    BY <1>2, <1>3, <2>1 DEF IInv, ReadersMissNothing
  <2>2. CASE StreamOf[q] = s /\ sequence[q] <= cursor[s]
    BY <2>2 DEF IInv, ReadersMissNothing
  <2>3. CASE StreamOf[q] = s /\ ~(sequence[q] <= cursor[s])
    <3>1. sequence[q] > cursor[s]
      BY <1>2, <2>3
    <3>2. sequence[q] = sequence[r]
      BY <1>2, <1>3, <2>3, <3>1
    <3>3. q = r
      BY <2>3, <3>2 DEF IInv, MarksOK
    <3> QED
      BY <3>3
  <2> QED
    BY <2>1, <2>2, <2>3
<1> QED
  BY <1>4, <1>5, <1>6, <1>7 DEF IInv

------------------------------------------------------------------------------
\* A step of one pass that leaves the log and the readers alone and makes no row pending.
LEMMA PassStep ==
    ASSUME IInv, NEW p \in Publishers,
           UNCHANGED <<staged, sequence, mark, cursor, seen>>,
           pass' \in [Publishers -> PassRecord],
           \A o \in Publishers \ {p} : pass'[o] = pass[o],
           attempts' \in [Rows -> 0..MaxAttempts],
           waits' \subseteq Rows,
           dead' \subseteq {r \in Rows : attempts'[r] = MaxAttempts},
           published' \subseteq Rows,
           published' \ Expiring \subseteq {r \in Rows : sequence[r] # 0},
           Pending' \subseteq Pending,
           \A r \in Rows : attempts'[r] = MaxAttempts => r \in published' \union dead',
           \A r \in pass'[p].left : staged[r] = "committed" /\ pass'[p].attempts[r] < MaxAttempts,
           pass'[p].pc \in {"mark", "record"} => Left(p)' # {},
           pass'[p].pc = "mark" => Row(p)' \in Expiring \/ sequence[Row(p)'] # 0,
           \A r \in Left(p)' : Before(r) \intersect Pending' \subseteq Left(p)'
    PROVE  IInv'
<1>1. \A o \in Publishers \ {p} : Left(o)' = Left(o) /\ Row(o)' = Row(o)
  BY LeftStays
<1>2. OutboxTypeOK'
  <2>1. \A o \in Publishers : pass'[o].pc \in {"mark", "record"} => Left(o)' # {}
    BY <1>1 DEF IInv, OutboxTypeOK
  <2> QED
    BY <2>1 DEF IInv, OutboxTypeOK, PassRecord
<1>3. StagedOK' /\ AttemptsOK'
  BY DEF IInv, StagedOK, AttemptsOK
<1>4. AppendedOK'
  BY <1>1 DEF IInv, AppendedOK
<1>5. HeadsOK'
  <2>1. \A r : Before(r)' = Before(r)
    BY DEF Before
  <2>2. ASSUME NEW o \in Publishers, NEW r \in Left(o)'
        PROVE  Before(r) \intersect Pending' \subseteq Left(o)'
    BY <1>1, <2>2 DEF IInv, HeadsOK
  <2> QED
    BY <2>1, <2>2 DEF HeadsOK
<1>6. MarksOK' /\ ReadersMissNothing'
  BY DEF IInv, MarksOK, ReadersMissNothing
<1> QED
  BY <1>2, <1>3, <1>4, <1>5, <1>6 DEF IInv

\* publish_pending selects the first of the rows that are due.
LEMMA SelectStep ==
    ASSUME IInv, NEW p \in Publishers, Select(p)
    PROVE  IInv' /\ pass'[p].left \subseteq Pending
<1> DEFINE first == {r \in Due : Cardinality({q \in Due : q < r}) < Limit}
<1> USE DEF Select, outboxVars, logVars, readVars
<1>1. Due \subseteq Pending /\ Pending \subseteq Rows
  BY DEF Due, Pending
<1>2. IsFiniteSet(Due) /\ Due \in SUBSET Int /\ Limit \in Nat
  <2>1. IsFiniteSet(Rows) /\ Rows \subseteq Int /\ Limit \in Nat
    BY RowsAreFinite, OutboxAssumption
  <2>2. Due \subseteq Rows
    BY <1>1
  <2>3. IsFiniteSet(Due)
    BY <2>1, <2>2, FS_Subset
  <2> QED
    BY <2>1, <2>2, <2>3
<1>3. \A x, y \in Due : y < x /\ x \in first => y \in first
  BY <1>2, FirstAreClosed
<1>4. first \subseteq Due
  OBVIOUS
<1>5. NoPass \in PassRecord /\ NoPass.blocked = {} /\ attempts \in [Rows -> 0..MaxAttempts]
  BY OutboxAssumption DEF NoPass, PassRecord, IInv, OutboxTypeOK
<1> DEFINE new == [NoPass EXCEPT !.pc = "drain", !.attempts = attempts, !.left = first]
<1>6. pass' = [pass EXCEPT ![p] = new]
  OBVIOUS
<1> HIDE DEF first
<1>7. new \in PassRecord /\ new.pc = "drain" /\ new.left = first /\ new.blocked = {}
      /\ new.attempts = attempts
  <2>1. first \in SUBSET Rows
    BY <1>1, <1>4
  <2>2. NoPass \in PassRecord /\ NoPass.blocked = {} /\ attempts \in [Rows -> 0..MaxAttempts]
    BY <1>5
  <2>3. new \in PassRecord
    BY <2>1, <2>2 DEF PassRecord
  <2>4. new.blocked = {} /\ new.left = first /\ new.attempts = attempts /\ new.pc = "drain"
    <3> HIDE DEF NoPass
    <3> QED
      BY <2>2 DEF PassRecord
  <2> QED
    BY <2>3, <2>4
<1> HIDE DEF new
<1>8. pass' \in [Publishers -> PassRecord] /\ pass'[p] = new /\ \A o \in Publishers \ {p} : pass'[o] = pass[o]
  <2>1. pass \in [Publishers -> PassRecord]
    BY DEF IInv, OutboxTypeOK, PassRecord
  <2> QED
    BY <1>6, <1>7, <2>1
<1>9. Left(p)' = first
  BY <1>7, <1>8 DEF Left
<1>10. Pending' = Pending
  BY DEF Pending
<1>11. \A r \in first : Before(r) \intersect Pending \subseteq first
  <2> SUFFICES ASSUME NEW r \in first, NEW q \in Before(r) \intersect Pending PROVE q \in first
    OBVIOUS
  <2>1. r \in Due /\ q < r /\ StreamOf[q] = StreamOf[r]
    BY <1>4 DEF Before
  <2>2. q \notin waits
    BY <2>1 DEF Due
  <2>3. Before(q) \subseteq Before(r)
    BY <1>1, <2>1 DEF Before, Rows
  <2>4. q \in Due
    BY <2>1, <2>2, <2>3 DEF Due
  <2> QED
    BY <1>3, <2>1, <2>4
<1>12. \A r \in first : staged[r] = "committed" /\ attempts[r] < MaxAttempts
  <2> SUFFICES ASSUME NEW r \in first PROVE staged[r] = "committed" /\ attempts[r] < MaxAttempts
    OBVIOUS
  <2>1. r \in Rows /\ staged[r] = "committed" /\ r \notin published \union dead
    BY <1>1, <1>4 DEF Pending
  <2>2. attempts[r] \in 0..MaxAttempts /\ attempts[r] # MaxAttempts
    BY <1>5, <2>1 DEF IInv, AttemptsOK
  <2> QED
    BY <2>1, <2>2, OutboxAssumption
<1>13. pass'[p].left = first /\ pass'[p].attempts = attempts /\ pass'[p].pc = "drain"
  BY <1>7, <1>8
<1>14. IInv'
  <2>1. AttemptsOK /\ OutboxTypeOK
    BY DEF IInv
  <2> QED
    BY <1>5, <1>8, <1>9, <1>10, <1>11, <1>12, <1>13, <2>1, PassStep
       DEF OutboxTypeOK, AttemptsOK
<1> QED
  BY <1>1, <1>4, <1>13, <1>14

\* A pass that is over, or lost.
LEMMA EndStep ==
    ASSUME IInv, NEW p \in Publishers, EndPass(p) \/ Crash(p)
    PROVE  IInv' /\ pass'[p].left = {}
<1> USE DEF EndPass, Crash, outboxVars, logVars, readVars
<1>1. NoPass \in PassRecord /\ NoPass.left = {} /\ NoPass.pc = "idle"
  BY OutboxAssumption DEF NoPass, PassRecord
<1>2. pass' = [pass EXCEPT ![p] = NoPass]
      /\ UNCHANGED <<staged, attempts, waits, published, dead, sequence, mark, cursor, seen>>
  OBVIOUS
<1> HIDE DEF EndPass, Crash
<1>3. pass' \in [Publishers -> PassRecord] /\ pass'[p] = NoPass /\ \A o \in Publishers \ {p} : pass'[o] = pass[o]
  BY <1>1, <1>2 DEF IInv, OutboxTypeOK, PassRecord
<1>4. Left(p)' = {} /\ Pending' = Pending
  BY <1>1, <1>2, <1>3 DEF Left, Pending
<1>5. IInv'
  <2>1. AttemptsOK /\ OutboxTypeOK
    BY DEF IInv
  <2> QED
    BY <1>1, <1>2, <1>3, <1>4, <2>1, PassStep DEF OutboxTypeOK, AttemptsOK
<1> QED
  BY <1>1, <1>3, <1>5

\* A pass drops the row it is at.
LEMMA DropRow ==
    ASSUME IInv, NEW p \in Publishers, Left(p) # {}, NEW blocked \in SUBSET Streams,
           pass[p].blocked \subseteq blocked,
           pass' = [pass EXCEPT ![p].pc = "drain", ![p].left = @ \ {Row(p)}, ![p].blocked = blocked]
    PROVE  /\ pass' \in [Publishers -> PassRecord] /\ \A o \in Publishers \ {p} : pass'[o] = pass[o]
           /\ pass'[p].pc = "drain" /\ pass'[p].left = pass[p].left \ {Row(p)}
           /\ pass'[p].blocked = blocked /\ pass'[p].attempts = pass[p].attempts
           /\ Left(p)' = {r \in Left(p) : StreamOf[r] \notin blocked} \ {Row(p)}
           /\ \A r \in pass'[p].left : staged[r] = "committed" /\ pass'[p].attempts[r] < MaxAttempts
<1>1. pass \in [Publishers -> PassRecord]
  BY DEF IInv, OutboxTypeOK, PassRecord
<1>2. pass' \in [Publishers -> PassRecord] /\ \A o \in Publishers \ {p} : pass'[o] = pass[o]
  <2> DEFINE new == [pass[p] EXCEPT !.pc = "drain", !.left = @ \ {Row(p)}, !.blocked = blocked]
  <2>1. pass' = [pass EXCEPT ![p] = new]
    BY <1>1
  <2>2. new \in PassRecord
    <3>1. pass[p] \in PassRecord
      BY <1>1
    <3> QED
      BY <3>1 DEF PassRecord
  <2> HIDE DEF new
  <2> QED
    BY <1>1, <2>1, <2>2
<1>3. pass'[p].pc = "drain" /\ pass'[p].left = pass[p].left \ {Row(p)}
      /\ pass'[p].blocked = blocked /\ pass'[p].attempts = pass[p].attempts
  BY <1>1 DEF PassRecord
<1>4. Left(p)' = {r \in Left(p) : StreamOf[r] \notin blocked} \ {Row(p)}
  BY <1>3 DEF Left
<1>5. \A r \in pass[p].left : staged[r] = "committed" /\ pass[p].attempts[r] < MaxAttempts
  BY DEF IInv, StagedOK, AttemptsOK
<1> QED
  BY <1>2, <1>3, <1>4, <1>5

\* The row was appended and is not pending any more.
LEMMA MarkPublishedStep ==
    ASSUME IInv, NEW p \in Publishers, MarkPublished(p)
    PROVE  IInv' /\ pass'[p].left = pass[p].left \ {Row(p)} /\ Pending \ {Row(p)} \subseteq Pending'
<1> USE DEF MarkPublished, logVars, readVars
<1>1. Left(p) # {} /\ Row(p) \in Rows
  BY RowIsFirst DEF IInv, OutboxTypeOK
<1>2. pass \in [Publishers -> PassRecord] /\ pass[p].blocked \in SUBSET Streams
  BY DEF IInv, OutboxTypeOK, PassRecord
<1>3. pass' = [pass EXCEPT ![p].pc = "drain", ![p].left = @ \ {Row(p)}, ![p].blocked = pass[p].blocked]
  BY <1>2 DEF PassRecord
<1>4. /\ pass' \in [Publishers -> PassRecord] /\ \A o \in Publishers \ {p} : pass'[o] = pass[o]
      /\ pass'[p].pc = "drain" /\ pass'[p].left = pass[p].left \ {Row(p)}
      /\ Left(p)' = {r \in Left(p) : StreamOf[r] \notin pass[p].blocked} \ {Row(p)}
      /\ \A r \in pass'[p].left : staged[r] = "committed" /\ pass'[p].attempts[r] < MaxAttempts
  BY <1>1, <1>2, <1>3, DropRow
<1>5. Left(p)' = Left(p) \ {Row(p)}
  BY <1>4 DEF Left
<1>6. Pending' = Pending \ {Row(p)}
  BY DEF Pending
<1>7. published' \ Expiring \subseteq {r \in Rows : sequence[r] # 0}
  BY <1>1 DEF IInv, OutboxTypeOK, AppendedOK
<1>8. \A r \in Left(p)' : Before(r) \intersect Pending' \subseteq Left(p)'
  BY <1>5, <1>6 DEF IInv, HeadsOK
<1>9. IInv'
  <2>1. AttemptsOK /\ OutboxTypeOK
    BY DEF IInv
  <2>2. published' = published \union {Row(p)} /\ published \subseteq Rows /\ Pending' \subseteq Pending
    BY <1>6, <2>1 DEF OutboxTypeOK
  <2>3. UNCHANGED <<staged, attempts, waits, dead, sequence, mark, cursor, seen>>
    OBVIOUS
  <2> HIDE DEF MarkPublished
  <2> QED
    BY <1>1, <1>4, <1>7, <1>8, <2>1, <2>2, <2>3, PassStep DEF OutboxTypeOK, AttemptsOK
<1> QED
  BY <1>4, <1>6, <1>9

\* _record_failure: the row is settled, or its stream is held back.
LEMMA RecordFailureStep ==
    ASSUME IInv, NEW p \in Publishers, RecordFailure(p)
    PROVE  IInv' /\ pass'[p].left = pass[p].left \ {Row(p)} /\ Pending \ {Row(p)} \subseteq Pending'
<1> DEFINE r == Row(p)
           open == r \notin published \union dead
           blocked == IF Exhausted(Tried(p)) THEN pass[p].blocked ELSE Blocks(p)
<1> USE DEF RecordFailure, logVars, readVars
<1>1. Left(p) # {} /\ r \in Rows /\ r \in Left(p) /\ r \in pass[p].left
  BY RowIsFirst DEF IInv, OutboxTypeOK
<1>2. pass \in [Publishers -> PassRecord] /\ pass[p].blocked \in SUBSET Streams
      /\ pass[p].attempts[r] \in 0..MaxAttempts /\ pass[p].attempts[r] < MaxAttempts
      /\ MaxAttempts \in Nat
  BY <1>1, OutboxAssumption DEF IInv, OutboxTypeOK, PassRecord, AttemptsOK
<1>3. blocked \in SUBSET Streams /\ pass[p].blocked \subseteq blocked
  BY <1>1, <1>2, OutboxAssumption DEF Blocks
<1>4. pass' = [pass EXCEPT ![p].pc = "drain", ![p].left = @ \ {Row(p)}, ![p].blocked = blocked]
  BY <1>2 DEF PassRecord
<1>5. Tried(p) \in 0..MaxAttempts /\ (Exhausted(Tried(p)) <=> Tried(p) = MaxAttempts)
  BY <1>2 DEF Tried, Exhausted
<1>6. /\ attempts' = IF open THEN [attempts EXCEPT ![r] = Tried(p)] ELSE attempts
      /\ dead' = IF open /\ Exhausted(Tried(p)) THEN dead \union {r} ELSE dead
      /\ waits' \subseteq waits \union {r}
      /\ UNCHANGED <<staged, published, sequence, mark, cursor, seen>>
  OBVIOUS
<1>7. attempts \in [Rows -> 0..MaxAttempts] /\ waits \subseteq Rows
      /\ dead \subseteq {q \in Rows : attempts[q] = MaxAttempts}
      /\ published \subseteq Rows /\ published \ Expiring \subseteq {q \in Rows : sequence[q] # 0}
      /\ \A q \in Rows : attempts[q] = MaxAttempts => q \in published \union dead
  BY DEF IInv, OutboxTypeOK, AttemptsOK
<1> HIDE DEF RecordFailure, r, blocked
<1>8. /\ pass' \in [Publishers -> PassRecord] /\ \A o \in Publishers \ {p} : pass'[o] = pass[o]
      /\ pass'[p].pc = "drain" /\ pass'[p].left = pass[p].left \ {Row(p)}
      /\ Left(p)' = {q \in Left(p) : StreamOf[q] \notin blocked} \ {Row(p)}
      /\ \A q \in pass'[p].left : staged[q] = "committed" /\ pass'[p].attempts[q] < MaxAttempts
  BY <1>1, <1>3, <1>4, DropRow DEF r
<1>9. /\ attempts' \in [Rows -> 0..MaxAttempts]
      /\ dead' \subseteq {q \in Rows : attempts'[q] = MaxAttempts}
      /\ \A q \in Rows : attempts'[q] = MaxAttempts => q \in published' \union dead'
      /\ waits' \subseteq Rows
  BY <1>1, <1>5, <1>6, <1>7
<1>10. Pending' \subseteq Pending /\ Pending \ {r} \subseteq Pending'
  BY <1>6 DEF Pending
<1>11. \A q \in Left(p)' : Before(q) \intersect Pending' \subseteq Left(p)'
  <2> SUFFICES ASSUME NEW q \in Left(p)', NEW o \in Before(q) \intersect Pending'
               PROVE  o \in Left(p)'
    OBVIOUS
  <2>1. q \in Left(p) /\ StreamOf[q] \notin blocked /\ o \in Left(p) /\ StreamOf[o] = StreamOf[q]
    BY <1>8, <1>10 DEF IInv, HeadsOK, Before
  <2>2. o # r
    <3> SUFFICES ASSUME o = r PROVE FALSE
      OBVIOUS
    <3>1. Exhausted(Tried(p))
      BY <2>1 DEF blocked, Blocks, r
    <3>2. r \in published' \union dead'
      BY <1>6, <3>1
    <3> QED
      BY <3>2 DEF Pending
  <2> QED
    BY <1>8, <2>1, <2>2 DEF r
<1>12. IInv'
  BY <1>6, <1>7, <1>8, <1>9, <1>10, <1>11, PassStep
<1> QED
  BY <1>8, <1>10, <1>12 DEF r

\* append_with_disposition: the row it is about is the first of its stream that is pending,
\* and its event, if it is new, gets a sequence above the mark.
LEMMA AppendStep ==
    ASSUME IInv, NEW p \in Publishers, Append(p)
    PROVE  /\ IInv'
           /\ pass'[p].left = pass[p].left /\ Pending' = Pending
           /\ Row(p) \in pass[p].left /\ Before(Row(p)) \intersect Pending = {}
           /\ \A q \in Rows \ {Row(p)} : sequence'[q] = sequence[q]
<1> DEFINE r == Row(p)
           s == StreamOf[r]
<1>1. Left(p) # {} /\ r \in Left(p) /\ r \in pass[p].left /\ r \in Rows /\ \A q \in Left(p) : r <= q
  BY RowIsFirst DEF IInv, Append
<1>2. UNCHANGED <<staged, attempts, waits, published, dead, cursor, seen>>
  BY DEF Append, outboxVars, readVars
<1>3. PICK pc \in {"mark", "record"} : Goes(p, pc) /\ (Inserted(r) \/ (UNCHANGED logVars /\ pc = "record"))
  BY DEF Append
<1>4. pass \in [Publishers -> PassRecord] /\ sequence \in [Rows -> Nat] /\ mark \in [Streams -> Nat]
      /\ cursor \in [Streams -> Nat] /\ StreamOf \in [Rows -> Streams] /\ s \in Streams
  BY <1>1, OutboxAssumption DEF IInv, OutboxTypeOK, PassRecord
<1>5. pass' \in [Publishers -> PassRecord] /\ \A o \in Publishers \ {p} : pass'[o] = pass[o]
  BY <1>3, <1>4 DEF Goes, PassRecord
<1>6. pass'[p].pc = pc /\ pass'[p].left = pass[p].left /\ pass'[p].blocked = pass[p].blocked
      /\ pass'[p].attempts = pass[p].attempts
  BY <1>3, <1>4 DEF Goes, PassRecord
<1>7. \A o \in Publishers : Left(o)' = Left(o) /\ Row(o)' = Row(o)
  <2>1. Left(p)' = Left(p)
    BY <1>6 DEF Left
  <2>2. Row(p)' = Row(p)
    BY <2>1 DEF Row
  <2> QED
    BY <1>5, <2>1, <2>2, LeftStays
<1>8. NextSequence(s) = mark[s] + 1 /\ mark[s] \in Nat
  BY <1>4, NextFollowsMark DEF IInv
<1> HIDE DEF r, s
<1>9. \/ UNCHANGED <<sequence, mark>> /\ (pc = "mark" => sequence[r] # 0)
      \/ /\ sequence[r] = 0 
         /\ sequence' = [sequence EXCEPT ![r] = mark[s] + 1]
         /\ mark' = [mark EXCEPT ![s] = mark[s] + 1]
  BY <1>3, <1>8 DEF Inserted, logVars, s
<1>10. /\ sequence' \in [Rows -> Nat] /\ mark' \in [Streams -> Nat]
       /\ \A q \in Rows : q # r => sequence'[q] = sequence[q]
       /\ \A q \in Rows : sequence[q] # 0 => sequence'[q] = sequence[q]
       /\ pc = "mark" => sequence'[r] # 0
       /\ \A o \in Streams : mark[o] <= mark'[o]
       /\ sequence'[r] # sequence[r] => sequence'[r] = mark[s] + 1 /\ mark'[s] = mark[s] + 1
  BY <1>1, <1>4, <1>8, <1>9 DEF s
<1>11. OutboxTypeOK'
  <2>1. published' \ Expiring \subseteq {q \in Rows : sequence'[q] # 0}
    BY <1>2, <1>10 DEF IInv, OutboxTypeOK
  <2>2. \A o \in Publishers : pass'[o].pc \in {"mark", "record"} => Left(o)' # {}
    BY <1>1, <1>5, <1>7 DEF IInv, OutboxTypeOK
  <2> QED
    BY <1>2, <1>5, <1>10, <2>1, <2>2 DEF IInv, OutboxTypeOK, PassRecord
<1>12. StagedOK'
  <2>1. staged[r] = "committed"
    BY <1>1 DEF IInv, StagedOK
  <2>2. \A q \in Rows : sequence'[q] # 0 => staged'[q] = "committed"
    BY <1>2, <1>10, <2>1 DEF IInv, StagedOK
  <2>3. \A o \in Publishers : \A q \in pass'[o].left : staged'[q] = "committed"
    BY <1>2, <1>5, <1>6 DEF IInv, StagedOK
  <2> QED
    BY <1>2, <2>2, <2>3 DEF IInv, StagedOK
<1>13. AttemptsOK'
  BY <1>2, <1>5, <1>6 DEF IInv, AttemptsOK
<1>14. AppendedOK'
  <2> SUFFICES ASSUME NEW o \in Publishers, pass'[o].pc = "mark"
               PROVE  Row(o) \in Expiring \/ sequence'[Row(o)] # 0
    BY <1>7 DEF AppendedOK
  <2>1. CASE o = p
    BY <1>6, <1>10, <2>1 DEF r
  <2>2. CASE o # p
    <3>1. pass[o].pc = "mark" /\ Row(o) \in Rows
      BY <1>5, <2>2, RowIsFirst DEF IInv, OutboxTypeOK
    <3> QED
      BY <1>10, <3>1 DEF IInv, AppendedOK
  <2> QED
    BY <2>1, <2>2
<1>15. MarksOK'
  <2>1. \A q \in Rows : sequence[q] \in Nat /\ sequence[q] <= mark[StreamOf[q]] /\ StreamOf[q] \in Streams
    BY <1>4 DEF IInv, MarksOK
  <2>2. \A o \in Streams : mark[o] \in Nat /\ mark'[o] \in Nat /\ cursor[o] \in Nat /\ cursor[o] <= mark[o]
    BY <1>4, <1>10 DEF IInv, MarksOK
  <2>3. \A q \in Rows : sequence'[q] <= mark'[StreamOf[q]]
    BY <1>10, <2>1, <2>2 DEF s
  <2>4. \A o \in Streams : cursor'[o] <= mark'[o]
    BY <1>2, <1>10, <2>2
  <2>5. ASSUME NEW q \in Rows, NEW o \in Rows, StreamOf[q] = StreamOf[o], sequence'[q] = sequence'[o],
               q # o, sequence'[o] # 0
        PROVE  FALSE
    <3>1. \A x \in Rows : x # r => sequence'[x] <= mark[StreamOf[x]] /\ mark[StreamOf[x]] \in Nat
      BY <1>10, <2>1, <2>2
    <3>2. sequence'[r] = sequence[r] \/ sequence'[r] = mark[s] + 1
      BY <1>10
    <3>3. CASE sequence'[r] = sequence[r]
      BY <1>10, <2>5, <3>3 DEF IInv, MarksOK
    <3>4. CASE sequence'[r] = mark[s] + 1 /\ q = r
      BY <2>5, <3>1, <3>4 DEF s
    <3>5. CASE sequence'[r] = mark[s] + 1 /\ o = r
      BY <2>5, <3>1, <3>5 DEF s
    <3>6. CASE q # r /\ o # r
      BY <1>10, <2>5, <3>6 DEF IInv, MarksOK
    <3> QED
      BY <3>2, <3>3, <3>4, <3>5, <3>6
  <2> QED
    BY <2>3, <2>4, <2>5 DEF MarksOK
<1>16. HeadsOK' /\ Pending' = Pending
  BY <1>2, <1>7 DEF IInv, HeadsOK, Before, Pending
<1>17. ReadersMissNothing'
  <2> SUFFICES ASSUME NEW q \in Rows, 0 < sequence'[q], sequence'[q] <= cursor[StreamOf[q]]
               PROVE  q \in seen
    BY <1>2 DEF ReadersMissNothing
  <2>1. cursor[s] \in Nat /\ cursor[s] <= mark[s] /\ mark[s] \in Nat
    BY <1>4, <1>8 DEF IInv, MarksOK
  <2>2. sequence'[q] = sequence[q]
    BY <1>10, <2>1 DEF s
  <2> QED
    BY <2>2 DEF IInv, ReadersMissNothing
<1>18. Before(r) \intersect Pending = {}
  <2> SUFFICES ASSUME NEW q \in Before(r) \intersect Pending PROVE FALSE
    OBVIOUS
  <2>1. q \in Left(p) /\ q < r /\ q \in Nat /\ r \in Nat
    BY <1>1 DEF IInv, HeadsOK, Before, Rows
  <2> QED
    BY <1>1, <2>1
<1>19. IInv'
  BY <1>11, <1>12, <1>13, <1>14, <1>15, <1>16, <1>17 DEF IInv
<1> QED
  BY <1>1, <1>6, <1>10, <1>16, <1>18, <1>19 DEF r

\* The invariant is inductive.
LEMMA StepKeepsIInv == IInv /\ [Next]_vars => IInv'
<1> SUFFICES ASSUME IInv, [Next]_vars PROVE IInv'
  OBVIOUS
<1>1. ASSUME NEW r \in Rows, Stage(r) \/ Conclude(r) \/ BackoffEnds(r) \/ Purge(r) \/ Read(r) PROVE IInv'
  BY <1>1, StageStep, ConcludeStep, BackoffStep, PurgeStep, ReadStep
<1>2. ASSUME NEW p \in Publishers, Publish(p) \/ Crash(p) PROVE IInv'
  BY <1>2, SelectStep, AppendStep, MarkPublishedStep, RecordFailureStep, EndStep DEF Publish
<1>3. CASE UNCHANGED vars
  <2>1. \A p \in Publishers : Left(p)' = Left(p) /\ Row(p)' = Row(p)
    BY <1>3, LeftStays DEF vars
  <2> QED
    BY <1>3, <2>1 DEF vars, IInv, OutboxTypeOK, StagedOK, AttemptsOK, AppendedOK, MarksOK, HeadsOK,
                      ReadersMissNothing, Before, Pending
<1> QED
  BY <1>1, <1>2, <1>3 DEF Next

\* The invariant holds however many publishers there are and wherever they die.
THEOREM OutboxInvariance == Spec => []IInv
  BY InitHolds, StepKeepsIInv, PTL DEF Spec

\* The columns have their types: a row is dead-lettered by its last attempt, and no
\* row is marked as published that was not appended.
THEOREM OutboxTypeCorrect == Spec => []OutboxTypeOK
<1>1. IInv => OutboxTypeOK
  BY DEF IInv
<1> QED
  BY <1>1, OutboxInvariance, PTL

\* Nothing is appended at or below the cursor of a reader, although the events
\* that had the highest sequences are purged.
THEOREM ReadersMissNoEvent == Spec => []ReadersMissNothing
<1>1. IInv => ReadersMissNothing
  BY DEF IInv
<1> QED
  BY <1>1, OutboxInvariance, PTL

------------------------------------------------------------------------------
\* One publisher

\* While a row is pending, nothing after it in its stream reaches the log.
LEMMA StepKeepsOrderOK ==
    ASSUME \A p, q \in Publishers : p = q, IInv, OrderOK, Next
    PROVE  OrderOK'
<1>0. \A q : Before(q)' = Before(q)
  BY DEF Before
<1>1. ASSUME NEW r \in Rows, Stage(r) \/ BackoffEnds(r) \/ Read(r) PROVE OrderOK'
  <2>1. Pending' = Pending
    BY <1>1 DEF Stage, BackoffEnds, Read, outboxVars, Pending, IInv, OutboxTypeOK
  <2>2. UNCHANGED <<sequence, pass>>
    BY <1>1 DEF Stage, BackoffEnds, Read, logVars
  <2> QED
    BY <1>0, <2>1, <2>2 DEF OrderOK
<1>2. ASSUME NEW r \in Rows, Purge(r) PROVE OrderOK'
  <2>1. Pending' = Pending /\ pass' = pass
    BY <1>2 DEF Purge, outboxVars, Pending
  <2>2. \A q \in Rows : sequence[q] = 0 => sequence'[q] = 0
    BY <1>2 DEF Purge, IInv, OutboxTypeOK
  <2> QED
    BY <1>0, <2>1, <2>2 DEF OrderOK
<1>3. ASSUME NEW r \in Rows, Conclude(r) PROVE OrderOK'
  <2>1. Pending \subseteq Pending' /\ Pending' \subseteq Pending \union {r}
        /\ \A q \in Rows : r \in Before(q) => sequence[q] = 0
    BY <1>3, ConcludeStep
  <2>2. UNCHANGED <<sequence, pass>>
    BY <1>3 DEF Conclude, logVars
  <2> QED
    BY <1>0, <2>1, <2>2 DEF OrderOK
<1>4. ASSUME NEW p \in Publishers, Select(p) \/ EndPass(p) \/ Crash(p) PROVE OrderOK'
  <2>1. pass'[p].left \subseteq Pending
    BY <1>4, SelectStep, EndStep
  <2>2. Pending' = Pending /\ sequence' = sequence
    BY <1>4 DEF Select, EndPass, Crash, outboxVars, logVars, Pending
  <2> QED
    BY <1>0, <2>1, <2>2 DEF OrderOK
<1>5. ASSUME NEW p \in Publishers, MarkPublished(p) \/ RecordFailure(p) PROVE OrderOK'
  <2>1. pass'[p].left = pass[p].left \ {Row(p)} /\ Pending \ {Row(p)} \subseteq Pending'
    BY <1>5, MarkPublishedStep, RecordFailureStep
  <2>2. Pending' \subseteq Pending
    BY <1>5 DEF MarkPublished, RecordFailure, Pending
  <2>3. sequence' = sequence
    BY <1>5 DEF MarkPublished, RecordFailure, logVars
  <2>4. \A o \in Publishers : pass'[o].left \subseteq Pending'
    BY <2>1 DEF OrderOK
  <2> QED
    BY <1>0, <2>2, <2>3, <2>4 DEF OrderOK
<1>6. ASSUME NEW p \in Publishers, Append(p) PROVE OrderOK'
  <2>1. pass'[p].left = pass[p].left /\ Pending' = Pending /\ Before(Row(p)) \intersect Pending = {}
        /\ \A q \in Rows \ {Row(p)} : sequence'[q] = sequence[q]
    BY <1>6, AppendStep
  <2> QED
    BY <1>0, <2>1 DEF OrderOK
<1> QED
  BY <1>1, <1>2, <1>3, <1>4, <1>5, <1>6 DEF Next, Publish

\* Only Append gives a row a sequence.
LEMMA StepKeepsOrder ==
    ASSUME IInv, OrderOK, Next
    PROVE  \A r \in Rows : sequence[r] = 0 /\ sequence'[r] # 0 =>
               /\ Before(r) \intersect Pending = {}
               /\ \A q \in Rows : r \in Before(q) => sequence[q] = 0
<1> SUFFICES ASSUME NEW r \in Rows, sequence[r] = 0, sequence'[r] # 0
             PROVE  /\ Before(r) \intersect Pending = {}
                    /\ \A q \in Rows : r \in Before(q) => sequence[q] = 0
  OBVIOUS
<1>1. ~(\E q \in Rows : Stage(q) \/ Conclude(q) \/ BackoffEnds(q) \/ Read(q))
  BY DEF Stage, Conclude, BackoffEnds, Read, logVars
<1>2. ~(\E q \in Rows : Purge(q))
  BY DEF Purge, IInv, OutboxTypeOK
<1>3. ~(\E p \in Publishers : Select(p) \/ MarkPublished(p) \/ RecordFailure(p) \/ EndPass(p) \/ Crash(p))
  BY DEF Select, MarkPublished, RecordFailure, EndPass, Crash, logVars
<1>4. PICK p \in Publishers : Append(p)
  BY <1>1, <1>2, <1>3 DEF Next, Publish
<1>5. r = Row(p) /\ Row(p) \in pass[p].left /\ Before(Row(p)) \intersect Pending = {}
  BY <1>4, AppendStep
<1>6. r \in Pending
  BY <1>5 DEF OrderOK
<1> QED
  BY <1>5, <1>6 DEF OrderOK

\* With one publisher, whose passes do not overlap, the events of a stream are appended
\* in the order they were staged, whatever fails, waits or ends as a dead letter.
THEOREM StreamOrder ==
    ASSUME \A p, q \in Publishers : p = q
    PROVE  Spec => StreamsKeepOrder
<1> DEFINE Kept == \A r \in Rows : sequence[r] = 0 /\ sequence'[r] # 0 =>
                       /\ Before(r) \intersect Pending = {}
                       /\ \A q \in Rows : r \in Before(q) => sequence[q] = 0
<1>1. Init => OrderOK
  BY InitHolds
<1>2. IInv /\ OrderOK /\ [Next]_vars => OrderOK'
  <2>1. OrderOK /\ UNCHANGED vars => OrderOK'
    BY DEF OrderOK, vars, Before, Pending
  <2> QED
    BY <2>1, StepKeepsOrderOK
<1>3. IInv /\ OrderOK /\ [Next]_vars => [Kept]_vars
  BY StepKeepsOrder
<1>4. Spec => [][Kept]_vars
  BY <1>1, <1>2, <1>3, OutboxInvariance, PTL DEF Spec
<1> QED
  BY <1>4 DEF StreamsKeepOrder
==============================================================================
