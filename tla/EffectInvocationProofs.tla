------------------------ MODULE EffectInvocationProofs ------------------------
(***************************************************************************)
(* Proofs about EffectInvocation, for any number of workers, callers and   *)
(* reconciliations, as long as no cutoff reaches a dispatch that another   *)
(* worker is still executing.                                              *)
(*                                                                         *)
(* An effect is applied once because at most one of its rows has not       *)
(* failed (OneOpen) and a failed row never was and never will be applied.  *)
(* The second holds because a row that is being dispatched is touched by   *)
(* nobody but its caller (CallOK), and because evidence about a row counts *)
(* only while the row is at the revision at which it was gathered          *)
(* (LookOK).                                                               *)
(***************************************************************************)
EXTENDS EffectInvocation, TLAPS

\* What a call knows about the row it drives.
CallOK(c) ==
    LET k == call[c].id IN
    /\ call[c].pc \in {"read", "mint", "admit", "reread"} => call[c].rev = 0
    /\ call[c].pc \in {"admit", "reread"} => rows[k].status = "absent"
    /\ call[c].pc \in {"reserve", "mark", "undo"} =>
            /\ rows[k].status # "absent"
            /\ remote[k] = "none"
            /\ call[c].rev <= rows[k].rev
            /\ call[c].rev = rows[k].rev => rows[k].status = "created"
    /\ call[c].pc \in DispatchPlaces =>
            rows[k].status = "running" /\ rows[k].rev = call[c].rev
    /\ call[c].pc = "dispatch" => remote[k] = "none"
    /\ call[c].pc = "settle" =>
            /\ call[c].end \in {"completed", "failed", "unknown"}
            /\ call[c].end = "completed" => remote[k] = "applied"
            /\ call[c].end = "failed" => remote[k] \in {"none", "dropped"}

\* What a reconciliation knows about the row it looks at.
LookOK(l) ==
    LET k == look[l].id IN
    look[l].pc # "idle" =>
        /\ k \in Ids
        /\ rows[k].status # "absent"
        /\ look[l].rev <= rows[k].rev
        /\ look[l].rev = rows[k].rev =>
            /\ ~IsDriven(k)
            /\ look[l].pc = "apply" /\ look[l].found = "applied" => remote[k] = "applied"
            /\ look[l].pc = "apply" /\ look[l].found = "not_applied" => remote[k] \in {"none", "dropped"}

\* What a row says about its request.
RowOK(k) ==
    /\ rows[k].status \in {"absent", "created"} => remote[k] = "none"
    /\ rows[k].status = "completed" => remote[k] = "applied"
    /\ rows[k].status = "failed" => remote[k] \in {"none", "dropped"}

\* At most one row of the effect has not failed.
OneOpen ==
    \A j, k \in Ids : rows[j].status \in OpenStatus /\ rows[k].status \in OpenStatus => j = k

IInv ==
    /\ InvocationTypeOK
    /\ \A c \in Calls : CallOK(c)
    /\ \A l \in Lookers : LookOK(l)
    /\ \A k \in Ids : RowOK(k)
    /\ OneOpen

------------------------------------------------------------------------------
\* The initial state: no row, no request, nobody at work.
LEMMA InitHolds == Init => IInv
<1> SUFFICES ASSUME Init PROVE IInv
  OBVIOUS
<1> USE DEF Init, AbsentRow, IdleCall, IdleLook
<1>1. InvocationTypeOK
  BY DEF InvocationTypeOK, Admitted, Row, CallRecord, LookRecord, InvocationStatus, OpenStatus,
         DispatchPlaces, LockedPlaces
<1>2. \A c \in Calls : CallOK(c)
  BY DEF CallOK, DispatchPlaces
<1>3. \A l \in Lookers : LookOK(l)
  BY DEF LookOK
<1>4. \A k \in Ids : RowOK(k)
  BY DEF RowOK
<1>5. OneOpen
  BY DEF OneOpen, OpenStatus
<1> QED
  BY <1>1, <1>2, <1>3, <1>4, <1>5 DEF IInv

------------------------------------------------------------------------------
\* A call that only moves between places that say nothing about its row, or
\* ends, leaves the invariant alone (Invoke, ReadHistory, RereadHistory).
LEMMA EndStep ==
    ASSUME IInv, NEW c \in Calls, NEW state \in CallRecord,
           state.id = 0, state.rev = 0,
           state.pc \in {"idle", "read", "mint"},
           call' = [call EXCEPT ![c] = state],
           UNCHANGED <<rows, minted, remote, look>>
    PROVE  IInv'
<1>1. InvocationTypeOK'
  BY DEF IInv, InvocationTypeOK, Admitted, CallRecord, LockedPlaces, DispatchPlaces
<1>2. \A d \in Calls : CallOK(d)'
  BY DEF IInv, InvocationTypeOK, CallOK, CallRecord, DispatchPlaces
<1>3. \A l \in Lookers : LookOK(l)'
  BY DEF IInv, InvocationTypeOK, LookOK, IsDriven, CallRecord, DispatchPlaces
<1>4. \A k \in Ids : RowOK(k)'
  BY DEF IInv, RowOK
<1>5. OneOpen'
  BY DEF IInv, OneOpen
<1> QED
  BY <1>1, <1>2, <1>3, <1>4, <1>5 DEF IInv

\* Invoke starts a call.
LEMMA InvokeStep == ASSUME IInv, NEW c \in Calls, Invoke(c) PROVE IInv'
<1> DEFINE state == [IdleCall EXCEPT !.pc = "read"]
<1>1. state \in CallRecord /\ state.id = 0 /\ state.rev = 0 /\ state.pc = "read"
  BY DEF IdleCall, CallRecord, LockedPlaces
<1>2. call' = [call EXCEPT ![c] = state]
  BY DEF Invoke
<1> HIDE DEF state
<1> QED
  BY <1>1, <1>2, EndStep DEF Invoke

\* A call that ends keeps nothing.
LEMMA EndsStep ==
    ASSUME IInv, NEW c \in Calls,
           NEW end \in {"replayed", "refused", "unavailable", "denied", "settled"},
           Ends(c, end), UNCHANGED <<rows, minted, remote, look>>
    PROVE  IInv'
<1> DEFINE state == [IdleCall EXCEPT !.end = end]
<1>1. state \in CallRecord /\ state.id = 0 /\ state.rev = 0 /\ state.pc = "idle"
  BY DEF IdleCall, CallRecord
<1>2. call' = [call EXCEPT ![c] = state]
  BY DEF Ends
<1> HIDE DEF state
<1> QED
  BY <1>1, <1>2, EndStep

\* ReadHistory ends the call or lets it make a candidate.
LEMMA ReadHistoryStep == ASSUME IInv, NEW c \in Calls, ReadHistory(c) PROVE IInv'
<1>1. CASE \E end \in {"replayed", "refused"} : Ends(c, end)
  BY <1>1, EndsStep DEF ReadHistory
<1>2. CASE Step(c, "mint")
  <2>1. call[c].pc = "read" /\ call[c] \in CallRecord
    BY DEF ReadHistory, IInv, InvocationTypeOK
  <2>2. call'= [call EXCEPT ![c].pc = "mint"] /\ UNCHANGED <<rows, minted, remote, look>>
    BY <1>2 DEF Step, ReadHistory
  <2>3. InvocationTypeOK'
    BY <2>1, <2>2 DEF IInv, InvocationTypeOK, Admitted, CallRecord, LockedPlaces, DispatchPlaces
  <2>4. \A d \in Calls : CallOK(d)'
    BY <2>1, <2>2 DEF IInv, InvocationTypeOK, CallOK, CallRecord, DispatchPlaces
  <2>5. \A l \in Lookers : LookOK(l)'
    BY <2>1, <2>2 DEF IInv, InvocationTypeOK, LookOK, IsDriven, CallRecord, DispatchPlaces
  <2>6. (\A k \in Ids : RowOK(k)') /\ OneOpen'
    BY <2>2 DEF IInv, RowOK, OneOpen
  <2> QED
    BY <2>3, <2>4, <2>5, <2>6 DEF IInv
<1> QED
  BY <1>1, <1>2 DEF ReadHistory

\* RereadHistory ends the call.
LEMMA RereadHistoryStep == ASSUME IInv, NEW c \in Calls, RereadHistory(c) PROVE IInv'
  BY EndsStep DEF RereadHistory

\* Mint gives the call an id that nobody has had.
LEMMA MintStep == ASSUME IInv, NEW c \in Calls, Mint(c) PROVE IInv'
<1>1. CASE Ends(c, "unavailable") /\ UNCHANGED minted
  BY <1>1, EndsStep DEF Mint
<1>2. CASE ~(Ends(c, "unavailable") /\ UNCHANGED minted)
  <2>1. PICK k \in Ids \ minted :
            /\ minted' = minted \union {k}
            /\ call' = [call EXCEPT ![c].pc = "admit", ![c].id = k]
    BY <1>2 DEF Mint
  <2>2. call[c].pc = "mint" /\ UNCHANGED <<rows, remote, look>>
    BY DEF Mint
  <2>3. rows[k].status = "absent"
    BY DEF IInv, InvocationTypeOK, Admitted
  <2>4. k \in Ids /\ k # 0 /\ k \notin minted
    BY InvocationIdAssumption
  <2>5. call' \in [Calls -> CallRecord]
    BY <2>1, <2>4 DEF IInv, InvocationTypeOK, CallRecord, LockedPlaces
  <2>6. \A d \in Calls : call'[d].id # 0 =>
            /\ call'[d].id \in minted'
            /\ \A e \in Calls : call'[e].id = call'[d].id => d = e
    BY <2>1, <2>4 DEF IInv, InvocationTypeOK, CallRecord
  <2>7. \A d \in Calls :
            call'[d].pc \in DispatchPlaces \union (LockedPlaces \ {"read", "mint"}) => call'[d].id # 0
    BY <2>1, <2>4 DEF IInv, InvocationTypeOK, CallRecord
  <2>t. InvocationTypeOK'
    BY <2>1, <2>2, <2>4, <2>5, <2>6, <2>7 DEF IInv, InvocationTypeOK, Admitted
  <2>c. \A d \in Calls : CallOK(d)'
    BY <2>1, <2>2, <2>3 DEF IInv, InvocationTypeOK, CallOK, CallRecord, DispatchPlaces
  <2>l. \A l \in Lookers : LookOK(l)'
    BY <2>1, <2>2, <2>3 DEF IInv, InvocationTypeOK, LookOK, IsDriven, CallRecord, DispatchPlaces
  <2>r. \A j \in Ids : RowOK(j)'
    BY <2>1, <2>2, <2>3 DEF IInv, InvocationTypeOK, RowOK
  <2>o. OneOpen'
    BY <2>1, <2>2, <2>3 DEF IInv, InvocationTypeOK, OneOpen, OpenStatus
  <2> QED
    BY <2>t, <2>c, <2>l, <2>r, <2>o DEF IInv
<1> QED
  BY <1>1, <1>2

\* Admit lets the row in when no other one is open.
LEMMA AdmitStep == ASSUME IInv, NEW c \in Calls, Admit(c) PROVE IInv'
<1> DEFINE k == call[c].id
<1>1. /\ call[c].pc = "admit" /\ k \in Ids /\ k \in minted
      /\ rows[k].status = "absent" /\ call[c].rev = 0 /\ remote[k] = "none"
      /\ UNCHANGED <<minted, remote, look>>
  BY DEF Admit, IInv, InvocationTypeOK, CallOK, RowOK, CallRecord, LockedPlaces, DispatchPlaces
<1>2. CASE EffectIsFree /\ rows' = [rows EXCEPT ![k].status = "created"] /\ Step(c, "reserve")
  <2>1. call' = [call EXCEPT ![c].pc = "reserve"]
    BY <1>2 DEF Step
  <2>2. rows' \in [Ids -> Row] /\ Admitted' \subseteq minted'
    BY <1>1, <1>2 DEF IInv, InvocationTypeOK, Admitted, Row, InvocationStatus, OpenStatus
  <2>3. call' \in [Calls -> CallRecord]
    BY <2>1 DEF IInv, InvocationTypeOK, CallRecord, LockedPlaces
  <2>4. k # 0
    BY <1>1, InvocationIdAssumption
  <2>t. InvocationTypeOK'
    BY <1>1, <2>1, <2>2, <2>3, <2>4 DEF IInv, InvocationTypeOK, CallRecord
  <2>c. \A d \in Calls : CallOK(d)'
    BY <1>1, <1>2, <2>1 DEF IInv, InvocationTypeOK, CallOK, CallRecord, DispatchPlaces, Row
  <2>l. \A l \in Lookers : LookOK(l)'
    BY <1>1, <1>2, <2>1 DEF IInv, InvocationTypeOK, LookOK, IsDriven, CallRecord, DispatchPlaces, Row
  <2>r. \A j \in Ids : RowOK(j)'
    BY <1>1, <1>2, <2>1 DEF IInv, InvocationTypeOK, RowOK, Row
  <2>o. OneOpen'
    BY <1>1, <1>2, <2>1 DEF IInv, InvocationTypeOK, OneOpen, OpenStatus, EffectIsFree, Row
  <2> QED
    BY <2>t, <2>c, <2>l, <2>r, <2>o DEF IInv
<1>3. CASE Step(c, "reread") /\ UNCHANGED rows
  <2>1. call' = [call EXCEPT ![c].pc = "reread"]
    BY <1>3 DEF Step
  <2>t. InvocationTypeOK'
    BY <1>1, <1>3, <2>1 DEF IInv, InvocationTypeOK, Admitted, CallRecord, LockedPlaces, DispatchPlaces
  <2>c. \A d \in Calls : CallOK(d)'
    BY <1>1, <1>3, <2>1 DEF IInv, InvocationTypeOK, CallOK, CallRecord, DispatchPlaces
  <2>l. \A l \in Lookers : LookOK(l)'
    BY <1>1, <1>3, <2>1 DEF IInv, InvocationTypeOK, LookOK, IsDriven, CallRecord, DispatchPlaces
  <2>r. \A j \in Ids : RowOK(j)'
    BY <1>1, <1>3, <2>1 DEF IInv, InvocationTypeOK, RowOK
  <2>o. OneOpen'
    BY <1>1, <1>3, <2>1 DEF IInv, InvocationTypeOK, OneOpen, OpenStatus
  <2> QED
    BY <2>t, <2>c, <2>l, <2>r, <2>o DEF IInv
<1> QED
  BY <1>2, <1>3 DEF Admit

\* Reserve moves on or gives up.
LEMMA ReserveStep == ASSUME IInv, NEW c \in Calls, Reserve(c) PROVE IInv'
<1>1. /\ call[c].pc = "reserve" /\ UNCHANGED <<rows, minted, remote, look>>
  BY DEF Reserve
<1>2. PICK pc \in {"mark", "undo"} : call' = [call EXCEPT ![c].pc = pc]
  BY DEF Reserve, Step
<1>t. InvocationTypeOK'
  BY <1>1, <1>2 DEF IInv, InvocationTypeOK, Admitted, CallRecord, LockedPlaces, DispatchPlaces
<1>c. \A d \in Calls : CallOK(d)'
  BY <1>1, <1>2 DEF IInv, InvocationTypeOK, CallOK, CallRecord, DispatchPlaces
<1>l. \A l \in Lookers : LookOK(l)'
  BY <1>1, <1>2 DEF IInv, InvocationTypeOK, LookOK, IsDriven, CallRecord, DispatchPlaces
<1>r. \A k \in Ids : RowOK(k)'
  BY <1>1, <1>2 DEF IInv, InvocationTypeOK, RowOK
<1>o. OneOpen'
  BY <1>1, <1>2 DEF IInv, InvocationTypeOK, OneOpen, OpenStatus
<1> QED
  BY <1>t, <1>c, <1>l, <1>r, <1>o DEF IInv

------------------------------------------------------------------------------
\* The types survive a step that moves one call and writes admitted rows only.
LEMMA CallMove ==
    ASSUME InvocationTypeOK, NEW c \in Calls, NEW state \in CallRecord,
           call' = [call EXCEPT ![c] = state],
           state.id \in {call[c].id, 0},
           state.pc \in DispatchPlaces \union (LockedPlaces \ {"read", "mint"}) => state.id # 0,
           rows' \in [Ids -> Row], Admitted' \subseteq Admitted,
           remote' \in [Ids -> {"none", "sent", "applied", "dropped"}],
           UNCHANGED <<minted, look>>
    PROVE  InvocationTypeOK'
  BY DEF InvocationTypeOK, CallRecord

\* What it means that one admitted row is written.
LEMMA SaveWrites ==
    ASSUME InvocationTypeOK, NEW k \in Ids, NEW new \in Row,
           rows' = [rows EXCEPT ![k] = new], rows[k].status # "absent"
    PROVE  /\ rows'[k] = new
           /\ \A j \in Ids \ {k} : rows'[j] = rows[j]
           /\ rows' \in [Ids -> Row]
           /\ Admitted' \subseteq Admitted
<1>1. rows'[k] = new /\ rows' \in [Ids -> Row] /\ \A j \in Ids \ {k} : rows'[j] = rows[j]
  BY DEF InvocationTypeOK
<1>2. Admitted' \subseteq Admitted
  BY <1>1 DEF Admitted
<1> QED
  BY <1>1, <1>2

\* A reconciliation does not learn anything false from the write of a row: its
\* revision has moved on.
LEMMA LooksAway ==
    ASSUME IInv, NEW k \in Ids,
           rows'[k].status # "absent", rows'[k].rev = rows[k].rev + 1,
           \A j \in Ids \ {k} : rows'[j] = rows[j],
           \A j \in Ids \ {k} : IsDriven(j)' => IsDriven(j),
           \A l \in Lookers : look'[l] = look[l] \/ look'[l] = IdleLook,
           UNCHANGED remote
    PROVE  \A l \in Lookers : LookOK(l)'
<1> SUFFICES ASSUME NEW l \in Lookers, look'[l] = look[l], look[l].pc # "idle" PROVE LookOK(l)'
  BY DEF LookOK, IdleLook
<1>1. LookOK(l) /\ look[l].id \in Ids /\ look[l].rev \in Nat /\ rows[k].rev \in Nat
  BY DEF IInv, InvocationTypeOK, LookOK, LookRecord, Row
<1>2. CASE look[l].id = k
  <2>1. look[l].rev <= rows[k].rev /\ look[l].rev # rows'[k].rev /\ look[l].rev <= rows'[k].rev
    BY <1>1, <1>2 DEF LookOK
  <2> QED
    BY <1>1, <1>2, <2>1 DEF LookOK
<1>3. CASE look[l].id # k
  <2>1. rows'[look[l].id] = rows[look[l].id] /\ (IsDriven(look[l].id)' => IsDriven(look[l].id))
    BY <1>1, <1>3
  <2>2. look'[l] = look[l] /\ remote' = remote
    OBVIOUS
  <2> QED
    BY <1>1, <2>1, <2>2 DEF LookOK
<1> QED
  BY <1>2, <1>3

\* MarkRunning: the row becomes running and is driven from then on.
LEMMA MarkRunningStep == ASSUME IInv, NEW c \in Calls, MarkRunning(c) PROVE IInv'
<1> DEFINE k == call[c].id
<1>1. /\ call[c].pc = "mark" /\ k \in Ids /\ k # 0 /\ call[c] \in CallRecord /\ call[c].rev \in Nat
      /\ rows[k].status # "absent" /\ remote[k] = "none" /\ rows[k].rev \in Nat
      /\ call[c].rev = rows[k].rev => rows[k].status = "created"
      /\ UNCHANGED <<minted, remote, look>>
  BY DEF MarkRunning, IInv, InvocationTypeOK, CallOK, CallRecord, LockedPlaces, Row
<1>2. CASE /\ Save(k, call[c].rev, "running", TRUE)
           /\ call' = [call EXCEPT ![c].pc = "dispatch", ![c].rev = @ + 1]
  <2> DEFINE state == [call[c] EXCEPT !.pc = "dispatch", !.rev = @ + 1]
  <2>1. state \in CallRecord /\ state.id = k /\ state.pc = "dispatch" /\ state.rev = call[c].rev + 1
    <3>1. /\ state \in [pc : {"dispatch"}, id : {k}, rev : {call[c].rev + 1}, end : {call[c].end}]
          /\ call[c].end \in {"none", "replayed", "refused", "unavailable", "denied", "settled",
                              "completed", "failed", "unknown"}
      BY <1>1 DEF CallRecord
    <3> QED
      BY <1>1, <3>1 DEF CallRecord, DispatchPlaces
  <2>2. call' = [call EXCEPT ![c] = state]
    BY <1>2 DEF IInv, InvocationTypeOK
  <2> HIDE DEF state
  <2>3. /\ rows[k].rev = call[c].rev /\ rows[k].status = "created"
        /\ rows'[k].status = "running" /\ rows'[k].rev = call[c].rev + 1
        /\ \A j \in Ids \ {k} : rows'[j] = rows[j]
        /\ rows' \in [Ids -> Row] /\ Admitted' \subseteq Admitted
    <3> DEFINE new == [status |-> "running", rev |-> call[c].rev + 1, active |-> TRUE]
    <3>1. new \in Row /\ new.status = "running" /\ new.rev = call[c].rev + 1
      BY <1>1 DEF Row, InvocationStatus, OpenStatus
    <3>2. rows[k].rev = call[c].rev /\ rows' = [rows EXCEPT ![k] = new]
      BY <1>2 DEF Save
    <3> HIDE DEF new, k
    <3> QED
      BY <1>1, <3>1, <3>2, SaveWrites DEF IInv
  <2>t. InvocationTypeOK'
    BY <1>1, <2>1, <2>2, <2>3, CallMove DEF IInv, InvocationTypeOK
  <2>c. \A d \in Calls : CallOK(d)'
    BY <1>1, <2>1, <2>2, <2>3 DEF IInv, InvocationTypeOK, CallOK, CallRecord, DispatchPlaces, Row
  <2>4. \A j \in Ids \ {k} : IsDriven(j)' => IsDriven(j)
    BY <2>1, <2>2 DEF IsDriven, IInv, InvocationTypeOK
  <2>l. \A l \in Lookers : LookOK(l)'
    BY <1>1, <2>3, <2>4, LooksAway
  <2>r. \A j \in Ids : RowOK(j)'
    BY <1>1, <2>1, <2>2, <2>3 DEF IInv, InvocationTypeOK, RowOK, Row
  <2>o. OneOpen'
    BY <1>1, <2>1, <2>2, <2>3 DEF IInv, InvocationTypeOK, OneOpen, OpenStatus, Row
  <2> QED
    BY <2>t, <2>c, <2>l, <2>r, <2>o DEF IInv
<1>3. CASE Save(k, call[c].rev, "running", TRUE) /\ Step(c, "undo")
  <2>1. call' = [call EXCEPT ![c].pc = "undo"]
    BY <1>3 DEF Step
  <2>2. [call[c] EXCEPT !.pc = "undo"] \in CallRecord /\ call' = [call EXCEPT ![c] = [call[c] EXCEPT !.pc = "undo"]]
    BY <1>1, <2>1 DEF IInv, InvocationTypeOK, CallRecord, LockedPlaces
  <2>3. /\ rows[k].rev = call[c].rev /\ rows[k].status = "created"
        /\ rows'[k].status = "running" /\ rows'[k].rev = call[c].rev + 1
        /\ \A j \in Ids \ {k} : rows'[j] = rows[j]
        /\ rows' \in [Ids -> Row] /\ Admitted' \subseteq Admitted
    <3> DEFINE new == [status |-> "running", rev |-> call[c].rev + 1, active |-> TRUE]
    <3>1. new \in Row /\ new.status = "running" /\ new.rev = call[c].rev + 1
      BY <1>1 DEF Row, InvocationStatus, OpenStatus
    <3>2. rows[k].rev = call[c].rev /\ rows' = [rows EXCEPT ![k] = new]
      BY <1>3 DEF Save
    <3> HIDE DEF new, k
    <3> QED
      BY <1>1, <3>1, <3>2, SaveWrites DEF IInv
  <2>t. InvocationTypeOK'
    BY <1>1, <2>2, <2>3, CallMove DEF IInv, InvocationTypeOK, CallRecord
  <2>c. \A d \in Calls : CallOK(d)'
    BY <1>1, <2>1, <2>3 DEF IInv, InvocationTypeOK, CallOK, CallRecord, DispatchPlaces, Row
  <2>4. \A j \in Ids \ {k} : IsDriven(j)' => IsDriven(j)
    BY <1>1, <2>1 DEF IsDriven, IInv, InvocationTypeOK, DispatchPlaces
  <2>l. \A l \in Lookers : LookOK(l)'
    BY <1>1, <2>3, <2>4, LooksAway
  <2>r. \A j \in Ids : RowOK(j)'
    BY <1>1, <2>1, <2>3 DEF IInv, InvocationTypeOK, RowOK, Row
  <2>o. OneOpen'
    BY <1>1, <2>1, <2>3 DEF IInv, InvocationTypeOK, OneOpen, OpenStatus, Row
  <2> QED
    BY <2>t, <2>c, <2>l, <2>r, <2>o DEF IInv
<1>4. CASE Step(c, "undo") /\ UNCHANGED rows
  <2>1. call' = [call EXCEPT ![c].pc = "undo"] /\ UNCHANGED rows
    BY <1>4 DEF Step
  <2>t. InvocationTypeOK'
    BY <1>1, <2>1 DEF IInv, InvocationTypeOK, Admitted, CallRecord, LockedPlaces, DispatchPlaces
  <2>c. \A d \in Calls : CallOK(d)'
    BY <1>1, <2>1 DEF IInv, InvocationTypeOK, CallOK, CallRecord, DispatchPlaces, Row
  <2>l. \A l \in Lookers : LookOK(l)'
    BY <1>1, <2>1 DEF IInv, InvocationTypeOK, CallOK, LookOK, LookRecord, IsDriven, CallRecord, DispatchPlaces, Row
  <2>r. \A j \in Ids : RowOK(j)'
    BY <1>1, <2>1 DEF IInv, InvocationTypeOK, RowOK, Row
  <2>o. OneOpen'
    BY <1>1, <2>1 DEF IInv, InvocationTypeOK, OneOpen, OpenStatus, Row
  <2> QED
    BY <2>t, <2>c, <2>l, <2>r, <2>o DEF IInv
<1> QED
  BY <1>2, <1>3, <1>4 DEF MarkRunning

\* A call that settles its row, or finds it settled, and ends.
LEMMA SettlesAndEnds ==
    ASSUME IInv, NEW c \in Calls, NEW status \in {"completed", "failed", "unknown"},
           NEW end \in {"denied", "settled"},
           call[c].id \in Ids,
           rows[call[c].id].status \in {"created", "running"},
           status = "completed" => remote[call[c].id] = "applied",
           status = "failed" => remote[call[c].id] \in {"none", "dropped"},
           \A d \in Calls : call[d].id = call[c].id => d = c,
           Save(call[c].id, call[c].rev, status, FALSE),
           Ends(c, end), UNCHANGED <<minted, remote, look>>
    PROVE  IInv'
<1> DEFINE k == call[c].id
           state == [IdleCall EXCEPT !.end = end]
<1>1. state \in CallRecord /\ state.id = 0 /\ state.rev = 0 /\ state.pc = "idle"
  BY DEF IdleCall, CallRecord
<1>2. call' = [call EXCEPT ![c] = state]
  BY DEF Ends
<1> HIDE DEF state
<1>3. /\ rows[k].rev = call[c].rev
      /\ rows'[k].status = status /\ rows'[k].rev = call[c].rev + 1
      /\ \A j \in Ids \ {k} : rows'[j] = rows[j]
      /\ rows' \in [Ids -> Row] /\ Admitted' \subseteq Admitted
  <2> DEFINE new == [status |-> status, rev |-> call[c].rev + 1, active |-> FALSE]
  <2>1. new \in Row /\ new.status = status /\ new.rev = call[c].rev + 1
    BY DEF IInv, InvocationTypeOK, CallRecord, Row, InvocationStatus, OpenStatus
  <2>2. rows[k].rev = call[c].rev /\ rows' = [rows EXCEPT ![k] = new]
    BY DEF Save
  <2>3. k \in Ids /\ rows[k].status # "absent"
    OBVIOUS
  <2> HIDE DEF new, k
  <2> QED
    BY <2>1, <2>2, <2>3, SaveWrites DEF IInv
<1>t. InvocationTypeOK'
  BY <1>1, <1>2, <1>3, CallMove DEF IInv, InvocationTypeOK, DispatchPlaces, LockedPlaces
<1>c. \A d \in Calls : CallOK(d)'
  BY <1>1, <1>2, <1>3 DEF IInv, InvocationTypeOK, CallOK, CallRecord, DispatchPlaces, Row
<1>4. \A j \in Ids \ {k} : IsDriven(j)' => IsDriven(j)
  BY <1>1, <1>2 DEF IsDriven, IInv, InvocationTypeOK, DispatchPlaces
<1>l. \A l \in Lookers : LookOK(l)'
  BY <1>3, <1>4, LooksAway
<1>r. \A j \in Ids : RowOK(j)'
  BY <1>1, <1>2, <1>3 DEF IInv, InvocationTypeOK, RowOK, Row
<1>o. OneOpen'
  BY <1>1, <1>2, <1>3 DEF IInv, InvocationTypeOK, OneOpen, OpenStatus, Row
<1> QED
  BY <1>t, <1>c, <1>l, <1>r, <1>o DEF IInv

\* UndoAdmission fails a row that was never dispatched, or leaves it.
LEMMA UndoAdmissionStep == ASSUME IInv, NEW c \in Calls, UndoAdmission(c) PROVE IInv'
<1> DEFINE k == call[c].id
<1>1. /\ k \in Ids /\ remote[k] = "none"
      /\ call[c].rev = rows[k].rev => rows[k].status = "created"
      /\ \A d \in Calls : call[d].id = k => d = c
      /\ Ends(c, "denied") /\ UNCHANGED <<minted, remote, look>>
  BY DEF UndoAdmission, IInv, InvocationTypeOK, CallOK, CallRecord, LockedPlaces
<1>2. CASE Save(k, call[c].rev, "failed", FALSE)
  <2>1. rows[k].rev = call[c].rev
    BY <1>2 DEF Save
  <2> QED
    BY <1>1, <1>2, <2>1, SettlesAndEnds
<1>3. CASE UNCHANGED rows
  BY <1>1, <1>3, EndsStep
<1> QED
  BY <1>2, <1>3 DEF UndoAdmission

\* Terminalize writes what the executor ended with.
LEMMA TerminalizeStep == ASSUME IInv, NEW c \in Calls, Terminalize(c) PROVE IInv'
<1> DEFINE k == call[c].id
<1>1. /\ k \in Ids /\ rows[k].status = "running"
      /\ call[c].end \in {"completed", "failed", "unknown"}
      /\ call[c].end = "completed" => remote[k] = "applied"
      /\ call[c].end = "failed" => remote[k] \in {"none", "dropped"}
      /\ \A d \in Calls : call[d].id = k => d = c
      /\ Ends(c, "settled") /\ UNCHANGED <<minted, remote, look>>
  BY DEF Terminalize, IInv, InvocationTypeOK, CallOK, CallRecord, DispatchPlaces
<1>2. CASE Save(k, call[c].rev, call[c].end, FALSE)
  BY <1>1, <1>2, SettlesAndEnds
<1>3. CASE UNCHANGED rows
  BY <1>1, <1>3, EndsStep
<1> QED
  BY <1>2, <1>3 DEF Terminalize

\* Send: only the caller of a row sends its request, and nobody holds evidence
\* about a row that is driven.
LEMMA SendStep == ASSUME IInv, NEW c \in Calls, Send(c) PROVE IInv'
<1> DEFINE k == call[c].id
<1>1. /\ call[c].pc = "dispatch" /\ k \in Ids /\ k # 0 /\ rows[k].status = "running"
      /\ \A d \in Calls : call[d].id = k => d = c
      /\ remote' = [remote EXCEPT ![k] = "sent"] /\ call' = [call EXCEPT ![c].pc = "await"]
      /\ UNCHANGED <<rows, minted, look>>
  BY DEF Send, Step, IInv, InvocationTypeOK, CallOK, CallRecord, DispatchPlaces
<1>t. InvocationTypeOK'
  BY <1>1 DEF IInv, InvocationTypeOK, Admitted, CallRecord, LockedPlaces, DispatchPlaces
<1>c. \A d \in Calls : CallOK(d)'
  BY <1>1 DEF IInv, InvocationTypeOK, CallOK, CallRecord, DispatchPlaces, Row
<1>l. \A l \in Lookers : LookOK(l)'
  BY <1>1 DEF IInv, InvocationTypeOK, CallOK, LookOK, LookRecord, IsDriven, CallRecord, DispatchPlaces, Row
<1>r. \A j \in Ids : RowOK(j)'
  BY <1>1 DEF IInv, InvocationTypeOK, RowOK, Row
<1>o. OneOpen'
  BY <1>1 DEF IInv, InvocationTypeOK, OneOpen, OpenStatus, Row
<1> QED
  BY <1>t, <1>c, <1>l, <1>r, <1>o DEF IInv

\* RemoteEnds: a request that is on its way ends, applied or not.
LEMMA RemoteEndsStep == ASSUME IInv, NEW k \in Ids, RemoteEnds(k) PROVE IInv'
<1>1. /\ remote[k] = "sent" /\ UNCHANGED <<rows, minted, call, look>>
  BY DEF RemoteEnds
<1>2. PICK fate \in {"applied", "dropped"} : remote' = [remote EXCEPT ![k] = fate]
  BY DEF RemoteEnds
<1>t. InvocationTypeOK'
  BY <1>1, <1>2 DEF IInv, InvocationTypeOK, Admitted
<1>c. \A d \in Calls : CallOK(d)'
  BY <1>1, <1>2 DEF IInv, InvocationTypeOK, CallOK, CallRecord, DispatchPlaces, Row
<1>l. \A l \in Lookers : LookOK(l)'
  BY <1>1, <1>2 DEF IInv, InvocationTypeOK, CallOK, LookOK, LookRecord, IsDriven, CallRecord, DispatchPlaces, Row
<1>r. \A j \in Ids : RowOK(j)'
  BY <1>1, <1>2 DEF IInv, InvocationTypeOK, RowOK, Row
<1>o. OneOpen'
  BY <1>1, <1>2 DEF IInv, InvocationTypeOK, OneOpen, OpenStatus, Row
<1> QED
  BY <1>t, <1>c, <1>l, <1>r, <1>o DEF IInv

\* ExecutorReturns: the call keeps what the executor ended with.
LEMMA ExecutorReturnsStep == ASSUME IInv, NEW c \in Calls, ExecutorReturns(c) PROVE IInv'
<1>1. call[c].pc \in {"dispatch", "await"} /\ UNCHANGED <<rows, minted, remote, look>>
  BY DEF ExecutorReturns
<1>2. PICK end \in {"completed", "failed", "unknown"} :
        /\ end = "completed" => remote[call[c].id] = "applied"
        /\ end = "failed" => remote[call[c].id] \in {"none", "dropped"}
        /\ call' = [call EXCEPT ![c].pc = "settle", ![c].end = end]
  BY DEF ExecutorReturns
<1> DEFINE state == [call[c] EXCEPT !.pc = "settle", !.end = end]
<1>3. state \in CallRecord /\ state.id = call[c].id /\ state.id # 0
  <2>1. call[c] \in CallRecord /\ call[c].id # 0
    BY <1>1 DEF IInv, InvocationTypeOK, DispatchPlaces
  <2>2. state \in [pc : {"settle"}, id : {call[c].id}, rev : {call[c].rev}, end : {end}]
    BY <2>1 DEF CallRecord
  <2>3. call[c].id \in Ids \union {0} /\ call[c].rev \in Nat
    BY <2>1 DEF CallRecord
  <2> QED
    BY <2>1, <2>2, <2>3 DEF CallRecord, DispatchPlaces
<1>4. call' = [call EXCEPT ![c] = state]
  BY <1>2 DEF IInv, InvocationTypeOK
<1> HIDE DEF state
<1>5. /\ rows' \in [Ids -> Row] /\ Admitted' \subseteq Admitted
      /\ remote' \in [Ids -> {"none", "sent", "applied", "dropped"}]
  BY <1>1 DEF IInv, InvocationTypeOK, Admitted
<1>t. InvocationTypeOK'
  BY <1>1, <1>3, <1>4, <1>5, CallMove DEF IInv
<1>c. \A d \in Calls : CallOK(d)'
  BY <1>1, <1>2 DEF IInv, InvocationTypeOK, CallOK, CallRecord, DispatchPlaces, Row
<1>l. \A l \in Lookers : LookOK(l)'
  BY <1>1, <1>2 DEF IInv, InvocationTypeOK, CallOK, LookOK, LookRecord, IsDriven, CallRecord, DispatchPlaces, Row
<1>r. \A j \in Ids : RowOK(j)'
  BY <1>1, <1>2 DEF IInv, InvocationTypeOK, RowOK, Row
<1>o. OneOpen'
  BY <1>1, <1>2 DEF IInv, InvocationTypeOK, OneOpen, OpenStatus, Row
<1> QED
  BY <1>t, <1>c, <1>l, <1>r, <1>o DEF IInv

------------------------------------------------------------------------------
\* Settling a row that nobody drives, on evidence that is true of its request.
LEMMA SettleStep ==
    ASSUME IInv, NEW k \in Ids, NEW disposition \in {"applied", "not_applied", "indeterminate"},
           rows[k].status \in {"created", "running", "unknown"}, ~IsDriven(k),
           disposition = "applied" => remote[k] = "applied",
           disposition = "not_applied" => remote[k] \in {"none", "dropped"},
           Settle(k, rows[k].rev, disposition),
           look' \in [Lookers -> LookRecord],
           \A l \in Lookers : look'[l] = look[l] \/ look'[l] = IdleLook,
           UNCHANGED <<minted, remote, call>>
    PROVE  IInv'
<1> DEFINE status == SettledStatus(rows[k].status, disposition)
           new == [status |-> status, rev |-> rows[k].rev + 1, active |-> FALSE]
<1>1. /\ status \in {"created", "running", "unknown", "completed", "failed"}
      /\ status = "created" => rows[k].status = "created"
      /\ status = "completed" => remote[k] = "applied"
      /\ status = "failed" => remote[k] \in {"none", "dropped"}
  BY DEF SettledStatus
<1>2. rows' = [rows EXCEPT ![k] = new] /\ rows[k].rev \in Nat
  BY DEF Settle, Save, IInv, InvocationTypeOK, Row
<1> HIDE DEF status
<1>3. new \in Row /\ new.status = status /\ new.rev = rows[k].rev + 1
  BY <1>1, <1>2 DEF Row, InvocationStatus, OpenStatus
<1> HIDE DEF new
<1>4. /\ rows'[k] = new /\ rows' \in [Ids -> Row] /\ Admitted' \subseteq Admitted
      /\ \A j \in Ids \ {k} : rows'[j] = rows[j]
  BY <1>2, <1>3, SaveWrites DEF IInv
<1>t. InvocationTypeOK'
  BY <1>4 DEF IInv, InvocationTypeOK
<1>5. \A d \in Calls : call[d].pc \in DispatchPlaces => call[d].id # k
  BY DEF IsDriven
<1>c. \A d \in Calls : CallOK(d)'
  BY <1>1, <1>2, <1>3, <1>4, <1>5 DEF IInv, InvocationTypeOK, CallOK, CallRecord, DispatchPlaces, LockedPlaces
<1>l. \A l \in Lookers : LookOK(l)'
  BY <1>1, <1>3, <1>4, LooksAway DEF IsDriven
<1>r. \A j \in Ids : RowOK(j)'
  BY <1>1, <1>3, <1>4 DEF IInv, RowOK
<1>o. OneOpen'
  BY <1>1, <1>3, <1>4 DEF IInv, OneOpen, OpenStatus
<1> QED
  BY <1>t, <1>c, <1>l, <1>r, <1>o DEF IInv

\* A row that may be reconciled is driven by nobody.
LEMMA ReconcilableIsQuiet ==
    ASSUME IInv, LiveStale = FALSE, NEW k \in Ids, NEW w \in Workers, Reconcilable(k, w)
    PROVE  rows[k].status \in {"created", "running", "unknown"} /\ ~IsDriven(k)
  BY DEF Reconcilable, IsDriven, IInv, CallOK

\* The evidence somebody gathers is true of the request.
LEMMA EvidenceIsTrue ==
    ASSUME NEW k \in Ids, NEW disposition \in Evidence(k)
    PROVE  /\ disposition \in {"applied", "not_applied", "indeterminate"}
           /\ disposition = "applied" => remote[k] = "applied"
           /\ disposition = "not_applied" => remote[k] \in {"none", "dropped"}
  BY DEF Evidence

\* Reconcile settles the row as it is.
LEMMA ReconcileStep ==
    ASSUME IInv, LiveStale = FALSE, NEW l \in Lookers, NEW k \in Ids, Reconcile(l, k)
    PROVE  IInv'
<1>1. PICK disposition \in Evidence(k) : Settle(k, rows[k].rev, disposition)
  BY DEF Reconcile
<1>2. rows[k].status \in {"created", "running", "unknown"} /\ ~IsDriven(k)
  BY WorkerAssumption, ReconcilableIsQuiet DEF Reconcile
<1>3. look' \in [Lookers -> LookRecord] /\ UNCHANGED <<minted, remote, call, look>>
  BY DEF Reconcile, IInv, InvocationTypeOK
<1> QED
  BY <1>1, <1>2, <1>3, EvidenceIsTrue, SettleStep

\* TakeSnapshot looks at a row that is driven by nobody.
LEMMA TakeSnapshotStep ==
    ASSUME IInv, LiveStale = FALSE, NEW l \in Lookers, NEW k \in Ids, TakeSnapshot(l, k)
    PROVE  IInv'
<1>1. rows[k].status \in {"created", "running", "unknown"} /\ ~IsDriven(k) /\ rows[k].rev \in Nat
  BY WorkerAssumption, ReconcilableIsQuiet DEF TakeSnapshot, IInv, InvocationTypeOK, Row
<1>2. /\ look' = [look EXCEPT ![l] = [pc |-> "ask", id |-> k, rev |-> rows[k].rev, found |-> "none"]]
      /\ UNCHANGED <<rows, minted, remote, call>>
  BY DEF TakeSnapshot
<1>3. [pc |-> "ask", id |-> k, rev |-> rows[k].rev, found |-> "none"] \in LookRecord
  BY <1>1 DEF LookRecord
<1>4. look' \in [Lookers -> LookRecord]
  BY <1>2, <1>3 DEF IInv, InvocationTypeOK
<1>t. InvocationTypeOK'
  BY <1>2, <1>4 DEF IInv, InvocationTypeOK, Admitted
<1>c. \A d \in Calls : CallOK(d)'
  BY <1>1, <1>2 DEF IInv, InvocationTypeOK, CallOK, CallRecord, DispatchPlaces, Row
<1>l. \A m \in Lookers : LookOK(m)'
  BY <1>1, <1>2 DEF IInv, InvocationTypeOK, CallOK, LookOK, LookRecord, IsDriven, CallRecord, DispatchPlaces, Row
<1>r. \A j \in Ids : RowOK(j)'
  BY <1>1, <1>2 DEF IInv, InvocationTypeOK, RowOK, Row
<1>o. OneOpen'
  BY <1>1, <1>2 DEF IInv, InvocationTypeOK, OneOpen, OpenStatus, Row
<1> QED
  BY <1>t, <1>c, <1>l, <1>r, <1>o DEF IInv

\* AskProvider adds evidence that holds as long as the row does not move.
LEMMA AskProviderStep == ASSUME IInv, NEW l \in Lookers, AskProvider(l) PROVE IInv'
<1>1. PICK disposition \in Evidence(look[l].id) :
            look' = [look EXCEPT ![l].pc = "apply", ![l].found = disposition]
  BY DEF AskProvider
<1>2. look[l].pc = "ask" /\ look[l].id \in Ids /\ UNCHANGED <<rows, minted, remote, call>>
  BY DEF AskProvider, IInv, LookOK
<1>3. /\ disposition \in {"applied", "not_applied", "indeterminate"}
      /\ disposition = "applied" => remote[look[l].id] = "applied"
      /\ disposition = "not_applied" => remote[look[l].id] \in {"none", "dropped"}
  BY <1>2, EvidenceIsTrue
<1>4. look' \in [Lookers -> LookRecord]
  <2> DEFINE state == [look[l] EXCEPT !.pc = "apply", !.found = disposition]
  <2>1. look[l] \in LookRecord
    BY DEF IInv, InvocationTypeOK
  <2>2. state \in [pc : {"apply"}, id : {look[l].id}, rev : {look[l].rev}, found : {disposition}]
    BY <2>1 DEF LookRecord
  <2>3. state \in LookRecord
    BY <1>3, <2>1, <2>2 DEF LookRecord
  <2>4. look' = [look EXCEPT ![l] = state]
    BY <1>1 DEF IInv, InvocationTypeOK
  <2> HIDE DEF state
  <2> QED
    BY <2>3, <2>4 DEF IInv, InvocationTypeOK
<1>t. InvocationTypeOK'
  BY <1>2, <1>4 DEF IInv, InvocationTypeOK, Admitted
<1>c. \A d \in Calls : CallOK(d)'
  BY <1>1, <1>2, <1>3 DEF IInv, InvocationTypeOK, CallOK, CallRecord, DispatchPlaces, Row
<1>l. \A m \in Lookers : LookOK(m)'
  BY <1>1, <1>2, <1>3 DEF IInv, InvocationTypeOK, CallOK, LookOK, LookRecord, IsDriven, CallRecord, DispatchPlaces, Row
<1>r. \A j \in Ids : RowOK(j)'
  BY <1>1, <1>2, <1>3 DEF IInv, InvocationTypeOK, RowOK, Row
<1>o. OneOpen'
  BY <1>1, <1>2, <1>3 DEF IInv, InvocationTypeOK, OneOpen, OpenStatus, Row
<1> QED
  BY <1>t, <1>c, <1>l, <1>r, <1>o DEF IInv

\* ApplyEvidence: at an unchanged revision the evidence is still true.
LEMMA ApplyEvidenceStep == ASSUME IInv, NEW l \in Lookers, ApplyEvidence(l) PROVE IInv'
<1> DEFINE k == look[l].id
<1>1. /\ look[l].pc = "apply" /\ k \in Ids /\ look' = [look EXCEPT ![l] = IdleLook]
      /\ look[l].found \in {"none", "applied", "not_applied", "indeterminate"}
      /\ UNCHANGED <<minted, remote, call>>
  BY DEF ApplyEvidence, IInv, LookOK, InvocationTypeOK, LookRecord
<1>2. /\ look' \in [Lookers -> LookRecord]
      /\ \A m \in Lookers : look'[m] = look[m] \/ look'[m] = IdleLook
  BY <1>1 DEF IInv, InvocationTypeOK, LookRecord, IdleLook
<1>3. CASE /\ rows[k].status \in {"created", "running", "unknown"}
           /\ Settle(k, look[l].rev, look[l].found)
  <2>1. look[l].rev = rows[k].rev
    BY <1>3 DEF Settle, Save
  <2>2. /\ ~IsDriven(k)
        /\ look[l].found = "applied" => remote[k] = "applied"
        /\ look[l].found = "not_applied" => remote[k] \in {"none", "dropped"}
    BY <1>1, <2>1 DEF IInv, LookOK
  <2>3. CASE look[l].found = "none"
    <3>1. Settle(k, rows[k].rev, "indeterminate")
      BY <1>3, <2>1, <2>3 DEF Settle, SettledStatus
    <3> QED
      BY <1>1, <1>2, <1>3, <2>2, <3>1, SettleStep
  <2> QED
    BY <1>1, <1>2, <1>3, <2>1, <2>2, <2>3, SettleStep
<1>4. CASE UNCHANGED rows
  <2>t. InvocationTypeOK'
    BY <1>1, <1>2, <1>4 DEF IInv, InvocationTypeOK, Admitted
  <2>c. \A d \in Calls : CallOK(d)'
    BY <1>1, <1>4 DEF IInv, CallOK
  <2>l. \A m \in Lookers : LookOK(m)'
    BY <1>1, <1>2, <1>4 DEF IInv, LookOK, IsDriven, IdleLook
  <2>r. (\A j \in Ids : RowOK(j)') /\ OneOpen'
    BY <1>1, <1>4 DEF IInv, RowOK, OneOpen
  <2> QED
    BY <2>t, <2>c, <2>l, <2>r DEF IInv
<1> QED
  BY <1>3, <1>4 DEF ApplyEvidence

\* Crash: what dies only forgets.
LEMMA CrashStep == ASSUME IInv, NEW w \in Workers, Crash(w) PROVE IInv'
<1>1. /\ call' = [c \in Calls |-> IF WorkerOf[c] = w THEN IdleCall ELSE call[c]]
      /\ look' = [l \in Lookers |-> IF WorkerOf[l] = w THEN IdleLook ELSE look[l]]
      /\ UNCHANGED <<rows, minted, remote>>
  BY DEF Crash
<1>2. IdleCall \in CallRecord /\ IdleLook \in LookRecord
  BY DEF IdleCall, IdleLook, CallRecord, LookRecord
<1>3. /\ \A c \in Calls : call'[c] = call[c] \/ call'[c] = IdleCall
      /\ \A l \in Lookers : look'[l] = look[l] \/ look'[l] = IdleLook
  BY <1>1
<1>4. call' \in [Calls -> CallRecord] /\ look' \in [Lookers -> LookRecord]
  BY <1>1, <1>2 DEF IInv, InvocationTypeOK
<1>5. \A c \in Calls : call'[c].id # 0 => call'[c] = call[c]
  BY <1>3 DEF IdleCall
<1>t. InvocationTypeOK'
  BY <1>1, <1>3, <1>4, <1>5 DEF IInv, InvocationTypeOK, Admitted, IdleCall, LockedPlaces, DispatchPlaces
<1>c. \A c \in Calls : CallOK(c)'
  BY <1>1, <1>3 DEF IInv, CallOK, IdleCall, DispatchPlaces
<1>6. \A k \in Ids : IsDriven(k)' => IsDriven(k)
  BY <1>3 DEF IsDriven, IdleCall, DispatchPlaces
<1>l. \A l \in Lookers : LookOK(l)'
  BY <1>1, <1>3, <1>6 DEF IInv, LookOK, IdleLook
<1>r. (\A j \in Ids : RowOK(j)') /\ OneOpen'
  BY <1>1 DEF IInv, RowOK, OneOpen
<1> QED
  BY <1>t, <1>c, <1>l, <1>r DEF IInv

------------------------------------------------------------------------------
\* Every step keeps the invariant.
LEMMA NextHolds == ASSUME IInv, LiveStale = FALSE, [Next]_vars PROVE IInv'
<1>1. ASSUME NEW c \in Calls,
             \/ Invoke(c) \/ ReadHistory(c) \/ Mint(c) \/ Admit(c) \/ RereadHistory(c)
             \/ Reserve(c) \/ MarkRunning(c) \/ UndoAdmission(c)
             \/ Send(c) \/ ExecutorReturns(c) \/ Terminalize(c)
      PROVE  IInv'
  BY <1>1, InvokeStep, ReadHistoryStep, MintStep, AdmitStep, RereadHistoryStep, ReserveStep,
     MarkRunningStep, UndoAdmissionStep, SendStep, ExecutorReturnsStep, TerminalizeStep
<1>2. ASSUME NEW k \in Ids, RemoteEnds(k) PROVE IInv'
  BY <1>2, RemoteEndsStep
<1>3. ASSUME NEW l \in Lookers, NEW k \in Ids, Reconcile(l, k) \/ TakeSnapshot(l, k) PROVE IInv'
  BY <1>3, ReconcileStep, TakeSnapshotStep
<1>4. ASSUME NEW l \in Lookers, AskProvider(l) \/ ApplyEvidence(l) PROVE IInv'
  BY <1>4, AskProviderStep, ApplyEvidenceStep
<1>5. ASSUME NEW w \in Workers, Crash(w) PROVE IInv'
  BY <1>5, CrashStep
<1>6. ASSUME UNCHANGED vars PROVE IInv'
  BY <1>6 DEF vars, IInv, InvocationTypeOK, Admitted, CallOK, LookOK, IsDriven, RowOK, OneOpen
<1> QED
  BY <1>1, <1>2, <1>3, <1>4, <1>5, <1>6 DEF Next

\* The inductive invariant, as long as cutoffs spare live dispatches.
THEOREM InvocationInvariance == ASSUME LiveStale = FALSE PROVE Spec => []IInv
<1>1. Init => IInv
  BY InitHolds
<1>2. IInv /\ [Next]_vars => IInv'
  BY NextHolds
<1> QED
  BY <1>1, <1>2, PTL DEF Spec

\* The records have their shapes, and no two calls share a candidate.
THEOREM CallsHoldTheirCandidates == ASSUME LiveStale = FALSE PROVE Spec => []InvocationTypeOK
<1>1. IInv => InvocationTypeOK
  BY DEF IInv
<1> QED
  BY <1>1, InvocationInvariance, PTL

\* What settled rows say is true: the evidence and the revisions carry it.
THEOREM OutcomesAreTrue == ASSUME LiveStale = FALSE PROVE Spec => []OutcomeIsTrue
<1>1. IInv => OutcomeIsTrue
  BY DEF IInv, OutcomeIsTrue, RowOK, CallOK, DispatchPlaces
<1> QED
  BY <1>1, InvocationInvariance, PTL

\* An applied request has a row that has not failed, and there is one such
\* row at most.
LEMMA AppliedOnce == IInv => EffectAppliedOnce
<1> SUFFICES ASSUME IInv, NEW j \in Ids, NEW k \in Ids,
                    remote[j] = "applied", remote[k] = "applied"
             PROVE  j = k
  BY DEF EffectAppliedOnce
<1>1. rows[j].status \in OpenStatus /\ rows[k].status \in OpenStatus
  BY DEF IInv, InvocationTypeOK, Row, InvocationStatus, RowOK
<1> QED
  BY <1>1 DEF IInv, OneOpen

\* The provider applies the effect at most once.
THEOREM EffectsAreAppliedOnce == ASSUME LiveStale = FALSE PROVE Spec => []EffectAppliedOnce
<1> QED
  BY AppliedOnce, InvocationInvariance, PTL

\* Whoever writes a row has seen it open at the revision it still has.
LEMMA SettledRowsStay ==
    ASSUME IInv, [Next]_vars, NEW k \in Ids, rows[k].status \in {"completed", "failed"}
    PROVE  rows'[k].status = rows[k].status
<1>2. ASSUME NEW c \in Calls, Admit(c) PROVE rows'[k] = rows[k]
  BY <1>2 DEF Admit, IInv, InvocationTypeOK, CallOK, CallRecord
<1>3. ASSUME NEW c \in Calls, MarkRunning(c) PROVE rows'[k] = rows[k]
  BY <1>3 DEF MarkRunning, Save, IInv, InvocationTypeOK, CallOK, CallRecord
<1>4. ASSUME NEW c \in Calls, UndoAdmission(c) PROVE rows'[k] = rows[k]
  BY <1>4 DEF UndoAdmission, Save, IInv, InvocationTypeOK, CallOK, CallRecord
<1>5. ASSUME NEW c \in Calls, Terminalize(c) PROVE rows'[k] = rows[k]
  BY <1>5 DEF Terminalize, Save, IInv, InvocationTypeOK, CallOK, CallRecord, DispatchPlaces
<1>6. ASSUME NEW l \in Lookers, NEW j \in Ids, Reconcile(l, j) PROVE rows'[k] = rows[k]
  BY <1>6 DEF Reconcile, Reconcilable, Settle, Save, IInv, InvocationTypeOK
<1>7. ASSUME NEW l \in Lookers, ApplyEvidence(l) PROVE rows'[k] = rows[k]
  BY <1>7 DEF ApplyEvidence, Settle, Save, IInv, InvocationTypeOK
<1>8. UNCHANGED rows => rows'[k] = rows[k]
  OBVIOUS
<1> QED
  BY <1>2, <1>3, <1>4, <1>5, <1>6, <1>7, <1>8
  DEF Next, vars, Invoke, ReadHistory, Mint, RereadHistory, Reserve, Send, ExecutorReturns,
      RemoteEnds, TakeSnapshot, AskProvider, Crash

\* A completed or failed row keeps its outcome.
THEOREM OutcomesAreFinal == ASSUME LiveStale = FALSE PROVE Spec => OutcomeIsFinal
<1>1. IInv /\ [Next]_vars => [KeepsOutcomes]_vars
  BY SettledRowsStay DEF KeepsOutcomes
<1> QED
  BY <1>1, InvocationInvariance, PTL DEF Spec, OutcomeIsFinal

------------------------------------------------------------------------------
\* The effect as EffectOnce sees it

\* Rows that are absent or failed have no applied request.
LEMMA VerdictIsTrue ==
    ASSUME IInv
    PROVE  /\ Verdict = "absent" => \A k \in Ids : remote[k] # "applied"
           /\ Verdict = "done" => \E k \in Ids : remote[k] = "applied"
<1>1. \A k \in Ids : rows[k].status \in OpenStatus \union {"failed", "absent"}
  BY DEF IInv, InvocationTypeOK, Row, InvocationStatus
<1> QED
  BY <1>1 DEF IInv, RowOK, Verdict, EffectIsFree, OpenStatus

\* A step that only writes rows confirms, denies, or takes a denial back.
LEMMA RowsStepRefines ==
    ASSUME IInv, IInv', [Next]_vars, UNCHANGED remote
    PROVE  [Effect!Next]_<<{k \in Ids : remote[k] = "applied"}, Verdict>>
<1> DEFINE applied == {k \in Ids : remote[k] = "applied"}
<1>1. applied' = applied
  OBVIOUS
<1>2. Verdict \in {"open", "done", "absent"} /\ Verdict' \in {"open", "done", "absent"}
  BY DEF Verdict
<1>3. Verdict = "done" => Verdict' = "done"
  BY SettledRowsStay DEF Verdict
<1>4. /\ Verdict = "absent" => applied = {}
      /\ Verdict' = "absent" => applied = {}
      /\ Verdict' = "done" => applied # {}
  <2>1. /\ Verdict' = "absent" => \A k \in Ids : remote'[k] # "applied"
        /\ Verdict' = "done" => \E k \in Ids : remote'[k] = "applied"
    <3>1. \A k \in Ids : rows'[k].status \in OpenStatus \union {"failed", "absent"}
      BY DEF IInv, InvocationTypeOK, Row, InvocationStatus
    <3> QED
      BY <3>1 DEF IInv, RowOK, Verdict, EffectIsFree, OpenStatus
  <2> QED
    BY <2>1, VerdictIsTrue
<1> HIDE DEF applied
<1>5. [Effect!Next]_<<applied, Verdict>>
  BY <1>1, <1>2, <1>3, <1>4 DEF Effect!Next, Effect!Confirm, Effect!Deny, Effect!TryAgain, applied
<1> QED
  BY <1>5 DEF applied

\* A request that is applied is the first, and its row has not failed.
LEMMA RemoteEndsRefines ==
    ASSUME IInv, IInv', NEW k \in Ids, RemoteEnds(k)
    PROVE  [Effect!Next]_<<{j \in Ids : remote[j] = "applied"}, Verdict>>
<1> DEFINE applied == {j \in Ids : remote[j] = "applied"}
<1>1. Verdict' = Verdict
  BY DEF RemoteEnds, Verdict, EffectIsFree, Admitted
<1>2. CASE remote' = [remote EXCEPT ![k] = "dropped"]
  <2>1. applied' = applied
    BY <1>2 DEF RemoteEnds, IInv, InvocationTypeOK
  <2> QED
    BY <1>1, <2>1
<1>3. CASE remote' = [remote EXCEPT ![k] = "applied"]
  <2>1. remote'[k] = "applied" /\ k \notin applied
    BY <1>3 DEF RemoteEnds, IInv, InvocationTypeOK
  <2>2. applied' = applied \union {k}
    BY <1>3 DEF RemoteEnds, IInv, InvocationTypeOK
  <2>3. \A j, l \in Ids : remote'[j] = "applied" /\ remote'[l] = "applied" => j = l
    <3>1. \A j \in Ids : rows'[j].status \in OpenStatus \union {"failed", "absent"}
      BY DEF IInv, InvocationTypeOK, Row, InvocationStatus
    <3> QED
      BY <3>1 DEF IInv, RowOK, OneOpen
  <2>4. applied = {} /\ applied' = {k}
    BY <2>1, <2>2, <2>3
  <2>5. Verdict # "absent"
    <3>1. rows'[k].status \in OpenStatus
      BY <2>1 DEF IInv, InvocationTypeOK, Row, InvocationStatus, RowOK
    <3> QED
      BY <3>1 DEF RemoteEnds, Verdict, EffectIsFree
  <2> HIDE DEF applied
  <2>6. Effect!Apply(k)
    BY <1>1, <2>4, <2>5 DEF Effect!Apply, applied
  <2> QED
    BY <2>6 DEF Effect!Next
<1> QED
  BY <1>2, <1>3 DEF RemoteEnds

\* Sending applies nothing yet.
LEMMA SendRefines ==
    ASSUME IInv, NEW c \in Calls, Send(c)
    PROVE  UNCHANGED <<{j \in Ids : remote[j] = "applied"}, Verdict>>
<1>1. remote[call[c].id] = "none"
  BY DEF Send, IInv, CallOK
<1>2. {j \in Ids : remote[j] = "applied"}' = {j \in Ids : remote[j] = "applied"}
  BY <1>1 DEF Send, IInv, InvocationTypeOK
<1>3. Verdict' = Verdict
  BY DEF Send, Verdict, EffectIsFree, Admitted
<1> QED
  BY <1>2, <1>3

\* Refinement: callers, reconciliations and crashes are steps of one effect
\* that is applied at most once and spoken of truthfully.
THEOREM InvocationImplementsOnce == ASSUME LiveStale = FALSE PROVE Spec => InvokesOnce
<1>1. Init => Effect!Init
  BY DEF Init, AbsentRow, Effect!Init, Verdict, Admitted
<1>2. IInv /\ IInv' /\ [Next]_vars => [Effect!Next]_<<{k \in Ids : remote[k] = "applied"}, Verdict>>
  <2> SUFFICES ASSUME IInv, IInv', [Next]_vars
               PROVE  [Effect!Next]_<<{k \in Ids : remote[k] = "applied"}, Verdict>>
    OBVIOUS
  <2>1. CASE UNCHANGED remote
    BY <2>1, RowsStepRefines
  <2>2. CASE \E k \in Ids : RemoteEnds(k)
    BY <2>2, RemoteEndsRefines
  <2>3. CASE \E c \in Calls : Send(c)
    BY <2>3, SendRefines
  <2> QED
    BY <2>1, <2>2, <2>3
    DEF Next, vars, Invoke, ReadHistory, Mint, Admit, RereadHistory, Reserve, MarkRunning,
        UndoAdmission, ExecutorReturns, Terminalize, Reconcile, TakeSnapshot, AskProvider,
        ApplyEvidence, Crash
<1> QED
  BY <1>1, <1>2, InvocationInvariance, PTL DEF Spec, InvokesOnce, Effect!Spec
==============================================================================
