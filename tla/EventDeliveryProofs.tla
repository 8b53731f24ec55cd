------------------------- MODULE EventDeliveryProofs -------------------------
(***************************************************************************)
(* Proofs about EventDelivery, for any number of workers, any number of    *)
(* sends and any identities.                                               *)
(*                                                                         *)
(* Two workers may hold the same receipt: one that claimed it last, and    *)
(* others whose claim has lapsed and who do not know.  What the records    *)
(* say stays true because a claim that meets the marker of another worker  *)
(* makes the receipt uncertain for good (StaleOK, TraceOK); an uncertain   *)
(* receipt is marked again only for a recipient that can deduplicate       *)
(* (ReceiptOK); and nothing but the claim that is current may write a      *)
(* verdict, on evidence about the send it has begun itself (CurrentOK).    *)
(***************************************************************************)
EXTENDS EventDelivery, TLAPS

Applied(n) == remote[n] = "applied"

\* What the receipt says of itself.
ReceiptOK ==
    /\ receipt.identity = "none" => receipt.attempts = 0 /\ receipt.status = "absent"
    /\ receipt.status = "absent" => receipt.identity = "none"
    /\ IsSettled \/ receipt.status = "absent" => receipt.owner = "none" /\ ~receipt.leased
    /\ receipt.marker => receipt.owner # "none" /\ receipt.attempts # 0
    /\ receipt.marker /\ receipt.uncertain => receipt.identity \in Safe
    /\ receipt.status = "failed" => ~receipt.uncertain
    /\ receipt.status = "failed" /\ receipt.attempts = MaxAttempts => announced
    /\ receipt.attempts = MaxAttempts /\ ~IsSettled /\ ~receipt.marker => receipt.uncertain

\* What it says of the sends: one that may have been applied has left a trace,
\* and where the recipient cannot deduplicate there is only one.
TraceOK ==
    /\ \A n \in Sends : remote[n] # "none" => n <= receipt.attempts
    /\ \A n \in Sends : remote[n] \in {"sent", "applied", "repeated"} =>
            \/ receipt.marker /\ n = receipt.attempts
            \/ receipt.uncertain
            \/ receipt.status = "success"
    /\ \A n \in Sends : remote[n] = "repeated" => \E m \in Sends : Applied(m)
    /\ receipt.status = "success" => \E m \in Sends : Applied(m)
    /\ receipt.identity \notin Safe =>
            \A m, n \in Sends :
                remote[m] \in {"sent", "applied"} /\ remote[n] \in {"sent", "applied"} => m = n
    /\ HandledAtMostOnce

\* A call belongs to a send that was begun, and to one worker.
CallOK ==
    /\ \A w \in Workers : work[w].pc \in {"call", "await"} =>
            work[w].send \in Sends /\ work[w].send <= receipt.attempts
    /\ \A w \in Workers : At(w, "call") => remote[work[w].send] = "none"
    /\ \A v, w \in Workers :
            /\ work[v].pc \in {"call", "await"} /\ work[w].pc \in {"call", "await"}
            /\ work[v].send = work[w].send
            => v = w

\* A call whose worker has lost the claim left the receipt uncertain, and its
\* send is not the one that is marked or was acknowledged.
StaleOK(w) ==
    work[w].pc \in {"call", "await"} /\ receipt.owner # w =>
        /\ receipt.uncertain
        /\ receipt.marker \/ receipt.status = "success" => work[w].send < receipt.attempts

\* What the worker that holds the claim knows.
CurrentOK(w) ==
    receipt.owner = w =>
        /\ work[w].pc \in {"begin", "call", "await", "announce", "settle"} =>
                work[w].uncertain = receipt.uncertain
        /\ At(w, "begin") =>
                /\ ~receipt.marker
                /\ work[w].delivery = receipt.identity
                /\ receipt.uncertain => work[w].delivery \in Safe
        /\ work[w].pc \in {"call", "await"} =>
                /\ receipt.marker
                /\ work[w].send = receipt.attempts
                /\ work[w].delivery = receipt.identity
        /\ work[w].pc \in {"announce", "settle"} =>
                /\ Supported(work[w].goal, work[w].proof) /\ work[w].proof # "none"
                /\ work[w].proof = "not_applied" /\ receipt.marker =>
                        remote[receipt.attempts] \in {"none", "dropped"}
                /\ work[w].goal = "success" => remote[receipt.attempts] \in {"applied", "repeated"}
                /\ work[w].goal = "unknown" => work[w].proof = "indeterminate" \/ receipt.uncertain
        /\ At(w, "settle") /\ work[w].goal = "failed" /\ receipt.attempts = MaxAttempts => announced

\* Once a permanent failure is announced, or about to be, nobody can succeed.
DoomedOK ==
    announced \/ (\E w \in Workers : At(w, "announce")) =>
        /\ receipt.attempts = MaxAttempts
        /\ receipt.status # "success"
        /\ \A w \in Workers : receipt.owner = w =>
                /\ work[w].pc \notin {"call", "await"}
                /\ At(w, "settle") => work[w].goal # "success"

\* A dispatch has an identity, an announcement is of a failure, and a report that
\* an event is settled is true.
WordOK(w) ==
    /\ ~At(w, "idle") => work[w].delivery \in Identities
    /\ At(w, "announce") => work[w].goal = "failed"
    /\ work[w].report = "settled" => IsSettled

IInv ==
    /\ DeliveryTypeOK
    /\ ReceiptOK
    /\ TraceOK
    /\ CallOK
    /\ \A w \in Workers : StaleOK(w)
    /\ \A w \in Workers : CurrentOK(w)
    /\ DoomedOK
    /\ \A w \in Workers : WordOK(w)

------------------------------------------------------------------------------
\* In the initial state there is no receipt, no send and nobody at work.
LEMMA InitHolds == Init => IInv
<1> SUFFICES ASSUME Init PROVE IInv
  OBVIOUS
<1> USE DEF Init, NoReceipt, IdleWork, Settled, IsSettled, At
<1>1. DeliveryTypeOK
  <2>1. receipt \in ReceiptRecord
    BY DeliveryAssumption DEF ReceiptRecord
  <2>2. work \in [Workers -> WorkRecord] /\ remote \in [Sends -> {"none", "sent", "applied", "dropped", "repeated"}]
    BY DEF WorkRecord
  <2> QED
    BY <2>1, <2>2 DEF DeliveryTypeOK
<1>2. ReceiptOK
  BY DeliveryAssumption DEF ReceiptOK
<1>3. TraceOK
  BY DEF TraceOK, HandledAtMostOnce, Applied
<1>4. CallOK
  BY DEF CallOK
<1>5. \A w \in Workers : StaleOK(w) /\ CurrentOK(w) /\ WordOK(w)
  BY DEF StaleOK, CurrentOK, WordOK
<1>6. DoomedOK
  BY DEF DoomedOK
<1> QED
  BY <1>1, <1>2, <1>3, <1>4, <1>5, <1>6 DEF IInv

------------------------------------------------------------------------------
\* A worker that stops, with a true report or none, leaves the invariant alone.
LEMMA StopStep ==
    ASSUME IInv, NEW w \in Workers, NEW report \in {"none", "settled", "open"},
           work' = [work EXCEPT ![w] = [IdleWork EXCEPT !.report = report]],
           report = "settled" => IsSettled,
           UNCHANGED <<receipt, remote, announced>>, declared' \in Identities
    PROVE  IInv'
<1> DEFINE idle == [IdleWork EXCEPT !.report = report]
<1>1. idle \in WorkRecord /\ idle.pc = "idle" /\ idle.report = report
  BY DEF IdleWork, WorkRecord
<1>2. work' = [work EXCEPT ![w] = idle]
  OBVIOUS
<1> HIDE DEF idle
<1>t. DeliveryTypeOK'
  BY <1>1, <1>2 DEF IInv, DeliveryTypeOK, Sends
<1>3. \A v \in Workers \ {w} : work'[v] = work[v]
  BY <1>2 DEF IInv, DeliveryTypeOK
<1>4. work'[w].pc = "idle" /\ work'[w].report = report
  BY <1>1, <1>2 DEF IInv, DeliveryTypeOK
<1>r. ReceiptOK'
  BY DEF IInv, ReceiptOK, IsSettled
<1>s. TraceOK'
  BY DEF IInv, TraceOK, HandledAtMostOnce, Applied, Sends
<1>c. CallOK'
  BY <1>3, <1>4 DEF IInv, CallOK, At, Sends
<1>l. \A v \in Workers : StaleOK(v)'
  BY <1>3, <1>4 DEF IInv, StaleOK
<1>o. \A v \in Workers : CurrentOK(v)'
  BY <1>3, <1>4 DEF IInv, CurrentOK, At, Supported
<1>d. DoomedOK'
  BY <1>3, <1>4 DEF IInv, DoomedOK, At
<1>w. \A v \in Workers : WordOK(v)'
  BY <1>3, <1>4 DEF IInv, WordOK, At, IsSettled
<1> QED
  BY <1>t, <1>r, <1>s, <1>c, <1>l, <1>o, <1>d, <1>w DEF IInv

\* Declare changes nothing a dispatch has read.
LEMMA DeclareStep == ASSUME IInv, NEW i \in Identities, Declare(i) PROVE IInv'
<1>1. declared' = i /\ UNCHANGED <<receipt, work, remote, announced>>
  BY DEF Declare
<1> QED
  BY <1>1 DEF IInv, DeliveryTypeOK, Sends, ReceiptOK, TraceOK, HandledAtMostOnce, Applied, CallOK,
              StaleOK, CurrentOK, Supported, DoomedOK, WordOK, IsSettled, At

\* ClaimRefused, BeginRefused and SettleRefused report what the receipt says.
LEMMA ReportsStep ==
    ASSUME IInv, NEW w \in Workers, Reports(w), UNCHANGED <<declared, receipt, remote, announced>>
    PROVE  IInv'
<1>1. CASE receipt.status \in Settled
  BY <1>1, StopStep DEF Reports, IsSettled, IInv, DeliveryTypeOK
<1>2. CASE receipt.status \notin Settled
  BY <1>2, StopStep DEF Reports, IsSettled, IInv, DeliveryTypeOK
<1> QED
  BY <1>1, <1>2

\* Crash
LEMMA CrashStep == ASSUME IInv, NEW w \in Workers, Crash(w) PROVE IInv'
<1>1. IdleWork = [IdleWork EXCEPT !.report = "none"]
  BY DEF IdleWork
<1>2. declared' \in Identities /\ UNCHANGED <<receipt, remote, announced>>
  BY DEF Crash, IInv, DeliveryTypeOK
<1>3. work' = [work EXCEPT ![w] = [IdleWork EXCEPT !.report = "none"]]
  BY <1>1 DEF Crash
<1> QED
  BY <1>2, <1>3, StopStep

\* ReadTrigger starts a dispatch.
LEMMA ReadTriggerStep == ASSUME IInv, NEW w \in Workers, ReadTrigger(w) PROVE IInv'
<1> DEFINE state == [IdleWork EXCEPT !.pc = "claim", !.delivery = declared]
<1>1. /\ state \in WorkRecord /\ state.pc = "claim" /\ state.report = "none"
      /\ state.delivery \in Identities
  BY DEF IInv, DeliveryTypeOK, IdleWork, WorkRecord
<1>2. work' = [work EXCEPT ![w] = state] /\ UNCHANGED <<declared, receipt, remote, announced>>
  BY DEF ReadTrigger
<1> HIDE DEF state
<1>t. DeliveryTypeOK'
  BY <1>1, <1>2 DEF IInv, DeliveryTypeOK, ReceiptRecord, Sends
<1>3. \A v \in Workers \ {w} : work'[v] = work[v]
  BY <1>2 DEF IInv, DeliveryTypeOK
<1>4. work'[w].pc = "claim" /\ work'[w].report = "none" /\ work'[w].delivery \in Identities
  BY <1>1, <1>2 DEF IInv, DeliveryTypeOK
<1>r. ReceiptOK' /\ TraceOK'
  BY <1>2 DEF IInv, ReceiptOK, IsSettled, TraceOK, HandledAtMostOnce, Applied, Sends
<1>c. CallOK'
  BY <1>2, <1>3, <1>4 DEF IInv, CallOK, At, Sends
<1>l. \A v \in Workers : StaleOK(v)'
  BY <1>2, <1>3, <1>4 DEF IInv, StaleOK
<1>o. \A v \in Workers : CurrentOK(v)'
  BY <1>2, <1>3, <1>4 DEF IInv, CurrentOK, At, Supported
<1>d. DoomedOK'
  BY <1>2, <1>3, <1>4 DEF IInv, DoomedOK, At
<1>w. \A v \in Workers : WordOK(v)'
  BY <1>2, <1>3, <1>4 DEF IInv, WordOK, At, IsSettled
<1> QED
  BY <1>t, <1>r, <1>c, <1>l, <1>o, <1>d, <1>w DEF IInv

\* Claim: the marker of the claim before is folded, and the new claim is
\* checked against the receipt it returned.
LEMMA ClaimStep == ASSUME IInv, NEW w \in Workers, Claim(w) PROVE IInv'
<1> DEFINE delivery == work[w].delivery
           claimed == Claimed(w, delivery)
<1>1. /\ At(w, "claim") /\ ~IsSettled /\ receipt' = claimed
      /\ UNCHANGED <<declared, remote, announced>>
  BY DEF Claim
<1>2. PICK pc \in {"begin", "settle"}, goal \in {"none", "unknown", "failed"},
           proof \in {"none", "not_applied", "indeterminate"} :
        /\ work' = [work EXCEPT ![w].pc = pc, ![w].uncertain = claimed.uncertain,
                                ![w].goal = goal, ![w].proof = proof]
        /\ pc = "begin" => ~Refused(claimed, delivery) /\ ~Risky(claimed, delivery)
        /\ pc = "settle" =>
            \/ goal = "unknown" /\ proof \in {"not_applied", "indeterminate"}
                /\ (claimed.uncertain \/ proof = "indeterminate")
            \/ goal = "failed" /\ proof = "not_applied" /\ ~claimed.uncertain
  BY DEF Claim, Risky
<1>3. work[w] \in WorkRecord /\ receipt \in ReceiptRecord
  BY DEF IInv, DeliveryTypeOK
<1>4. delivery \in Identities
  BY <1>1, <1>3 DEF IInv, WordOK, At
<1>5. /\ receipt'.status = IF receipt.status = "absent" THEN "pending" ELSE receipt.status
      /\ receipt'.attempts = receipt.attempts
      /\ receipt'.identity = IF receipt.identity = "none" THEN delivery ELSE receipt.identity
      /\ receipt'.owner = w /\ receipt'.marker = FALSE
      /\ receipt'.uncertain = (receipt.uncertain \/ receipt.marker)
      /\ receipt' \in ReceiptRecord
  BY <1>1, <1>3, <1>4 DEF Claimed, ReceiptRecord
<1>6. /\ work'[w].pc = pc /\ work'[w].uncertain = receipt'.uncertain
      /\ work'[w].goal = goal /\ work'[w].proof = proof
      /\ work'[w].delivery = delivery /\ work'[w].report = work[w].report
      /\ work' \in [Workers -> WorkRecord]
      /\ \A v \in Workers \ {w} : work'[v] = work[v]
  <2>1. claimed.uncertain \in BOOLEAN /\ receipt'.uncertain = claimed.uncertain
    BY <1>1, <1>5 DEF ReceiptRecord
  <2> HIDE DEF claimed
  <2> DEFINE new == [work[w] EXCEPT !.pc = pc, !.uncertain = claimed.uncertain, !.goal = goal, !.proof = proof]
  <2>2. work \in [Workers -> WorkRecord] /\ work' = [work EXCEPT ![w] = new]
    BY <1>2 DEF IInv, DeliveryTypeOK
  <2>3. /\ new \in WorkRecord /\ new.pc = pc /\ new.uncertain = claimed.uncertain /\ new.goal = goal
        /\ new.proof = proof /\ new.delivery = work[w].delivery /\ new.report = work[w].report
    <3>1. /\ pc \in {"idle", "claim", "begin", "call", "await", "announce", "settle"}
          /\ goal \in {"none", "retrying"} \union Settled
          /\ proof \in {"none", "acknowledged", "not_applied", "indeterminate"}
          /\ claimed.uncertain \in BOOLEAN /\ work[w] \in WorkRecord
      BY <1>3, <2>1 DEF Settled
    <3>2. new \in WorkRecord
      BY <3>1 DEF WorkRecord
    <3> QED
      BY <3>1, <3>2 DEF WorkRecord
  <2> HIDE DEF new
  <2> QED
    BY <2>1, <2>2, <2>3
<1>7. /\ pc = "begin" => receipt'.identity = delivery /\ (receipt'.uncertain => delivery \in Safe)
      /\ pc = "settle" =>
            \/ goal = "unknown" /\ proof \in {"not_applied", "indeterminate"}
                /\ (receipt'.uncertain \/ proof = "indeterminate")
            \/ goal = "failed" /\ proof = "not_applied" /\ ~receipt'.uncertain
  BY <1>1, <1>2 DEF Refused, Risky
<1> HIDE DEF claimed
<1>8. receipt.attempts = MaxAttempts => receipt'.uncertain
  BY <1>1, <1>5 DEF IInv, ReceiptOK
<1>t. DeliveryTypeOK'
  BY <1>1, <1>5, <1>6 DEF IInv, DeliveryTypeOK, Sends
<1>r. ReceiptOK'
  BY <1>1, <1>4, <1>5, <1>8, DeliveryAssumption DEF IInv, ReceiptOK, IsSettled, Settled
<1>s. TraceOK'
  <2>1. \A n \in Sends : remote[n] \in {"sent", "applied", "repeated"} => receipt'.uncertain
    BY <1>1, <1>5 DEF IInv, TraceOK, IsSettled, Settled
  <2>2. receipt'.identity \notin Safe =>
            \A m, n \in Sends :
                remote[m] \in {"sent", "applied"} /\ remote[n] \in {"sent", "applied"} => m = n
    <3>1. CASE receipt.identity = "none"
      BY <1>1, <1>3, <3>1, DeliveryAssumption
         DEF IInv, DeliveryTypeOK, ReceiptOK, TraceOK, ReceiptRecord, Sends
    <3>2. CASE receipt.identity # "none"
      BY <1>5, <3>2 DEF IInv, TraceOK
    <3> QED
      BY <3>1, <3>2
  <2> QED
    BY <1>1, <1>5, <2>1, <2>2 DEF IInv, TraceOK, HandledAtMostOnce, Applied, IsSettled, Settled
<1>c. CallOK'
  <2>1. CallOK /\ w \in Workers
    BY DEF IInv
  <2>2. work'[w].pc \notin {"call", "await"}
    BY <1>1, <1>6
  <2>3. \A v \in Workers : work'[v].pc \in {"call", "await"} =>
            /\ v # w /\ work[v].pc = work'[v].pc /\ work[v].send = work'[v].send
    BY <1>6, <2>2
  <2>4. receipt'.attempts = receipt.attempts /\ remote' = remote
    BY <1>1, <1>5
  <2> QED
    BY <2>1, <2>2, <2>3, <2>4 DEF CallOK, At
<1>l. \A v \in Workers : StaleOK(v)'
  <2> SUFFICES ASSUME NEW v \in Workers, v # w PROVE StaleOK(v)'
    BY <1>6 DEF StaleOK
  <2>1. work'[v] = work[v] /\ StaleOK(v) /\ CurrentOK(v)
    BY <1>6 DEF IInv
  <2>2. ~IsSettled
    BY <1>1
  <2> QED
    BY <1>5, <2>1, <2>2 DEF StaleOK, CurrentOK, IsSettled, Settled
<1>o. \A v \in Workers : CurrentOK(v)'
  BY <1>1, <1>5, <1>6, <1>7, <1>8 DEF IInv, CurrentOK, At, Supported
<1>d. DoomedOK'
  BY <1>1, <1>5, <1>6, <1>7 DEF IInv, DoomedOK, At, IsSettled, Settled
<1>w. \A v \in Workers : WordOK(v)'
  BY <1>1, <1>4, <1>5, <1>6 DEF IInv, WordOK, At, IsSettled, Settled
<1> QED
  BY <1>t, <1>r, <1>s, <1>c, <1>l, <1>o, <1>d, <1>w DEF IInv

------------------------------------------------------------------------------
\* Begin: the send is counted and marked.
LEMMA BeginStep == ASSUME IInv, NEW w \in Workers, Begin(w) PROVE IInv'
<1>1. /\ At(w, "begin") /\ receipt.owner = w /\ receipt.attempts < MaxAttempts
      /\ UNCHANGED <<declared, remote, announced>>
      /\ receipt' = [receipt EXCEPT !.attempts = @ + 1, !.status = "pending", !.marker = TRUE]
      /\ work' = [work EXCEPT ![w].pc = "call", ![w].send = receipt'.attempts]
  BY DEF Begin, Begins
<1>2. receipt \in ReceiptRecord /\ work[w] \in WorkRecord /\ receipt.attempts \in Nat
  BY DEF IInv, DeliveryTypeOK, ReceiptRecord
<1>8. ~receipt.marker /\ ~IsSettled /\ receipt.status \notin {"absent", "success", "failed"}
  <2>1. w # "none"
    BY DeliveryAssumption
  <2> QED
    BY <1>1, <2>1 DEF IInv, ReceiptOK, CurrentOK, IsSettled, Settled, At
<1>3. /\ receipt' \in ReceiptRecord
      /\ receipt'.status = "pending" /\ receipt'.marker = TRUE
      /\ receipt'.attempts = receipt.attempts + 1
      /\ receipt'.identity = receipt.identity /\ receipt'.owner = w
      /\ receipt'.uncertain = receipt.uncertain
  <2>1. receipt.attempts + 1 \in 0..MaxAttempts
    BY <1>1, <1>2, DeliveryAssumption
  <2> QED
    BY <1>1, <1>2, <2>1 DEF ReceiptRecord
<1> DEFINE n == receipt.attempts + 1
<1>4. n \in Sends /\ n \in Nat /\ remote[n] = "none"
  BY <1>1, <1>2, DeliveryAssumption DEF Sends, IInv, TraceOK
<1>5. /\ work'[w].pc = "call" /\ work'[w].send = n
      /\ work'[w].uncertain = work[w].uncertain
      /\ work'[w].delivery = work[w].delivery /\ work'[w].report = work[w].report
      /\ work' \in [Workers -> WorkRecord]
      /\ \A v \in Workers \ {w} : work'[v] = work[v]
  <2> DEFINE new == [work[w] EXCEPT !.pc = "call", !.send = n]
  <2>1. work \in [Workers -> WorkRecord] /\ work' = [work EXCEPT ![w] = new]
    <3>1. work' = [work EXCEPT ![w].pc = "call", ![w].send = n]
      BY <1>1, <1>3
    <3>2. work \in [Workers -> WorkRecord]
      BY DEF IInv, DeliveryTypeOK
    <3> HIDE DEF n
    <3> QED
      BY <3>1, <3>2
  <2>2. n \in Sends
    BY <1>4
  <2> HIDE DEF n
  <2>3. /\ new \in WorkRecord /\ new.pc = "call" /\ new.send = n /\ new.uncertain = work[w].uncertain
        /\ new.delivery = work[w].delivery /\ new.report = work[w].report
    BY <1>2, <2>2 DEF WorkRecord
  <2> HIDE DEF new
  <2> QED
    BY <2>1, <2>3
<1>6. \A v \in Workers : work[v].pc \in {"call", "await"} =>
            work[v].send \in Sends /\ work[v].send \in Nat /\ work[v].send < n
  BY <1>2 DEF IInv, CallOK, Sends
<1>7. ~announced /\ \A v \in Workers : ~At(v, "announce")
  BY <1>1, <1>2 DEF IInv, DoomedOK
<1>t. DeliveryTypeOK'
  BY <1>1, <1>3, <1>4, <1>5 DEF IInv, DeliveryTypeOK, Sends
<1>r. ReceiptOK'
  <2>1. receipt.uncertain => receipt.identity \in Safe
    BY <1>1 DEF IInv, CurrentOK
  <2>2. w # "none"
    BY DeliveryAssumption
  <2> QED
    BY <1>2, <1>3, <1>8, <2>1, <2>2 DEF IInv, ReceiptOK, IsSettled, Settled
<1>s. TraceOK'
  BY <1>1, <1>2, <1>3, <1>8 DEF IInv, TraceOK, HandledAtMostOnce, Applied, Sends
<1>c. CallOK'
  BY <1>1, <1>2, <1>3, <1>4, <1>5, <1>6 DEF IInv, CallOK, At
<1>l. \A v \in Workers : StaleOK(v)'
  BY <1>1, <1>3, <1>5, <1>6, DeliveryAssumption DEF IInv, StaleOK, Sends
<1>o. \A v \in Workers : CurrentOK(v)'
  BY <1>1, <1>3, <1>4, <1>5 DEF IInv, CurrentOK, At, Supported
<1>d. DoomedOK'
  BY <1>1, <1>5, <1>7 DEF DoomedOK, At
<1>w. \A v \in Workers : WordOK(v)'
  BY <1>1, <1>5, <1>8 DEF IInv, WordOK, At
<1> QED
  BY <1>t, <1>r, <1>s, <1>c, <1>l, <1>o, <1>d, <1>w DEF IInv

\* A worker that holds the claim, or not, decides what to settle: it may
\* announce a failure only when all sends are used up and none can succeed.
LEMMA ConcludeStep ==
    ASSUME IInv, NEW w \in Workers, NEW pc \in {"announce", "settle"},
           NEW goal \in {"success", "failed", "retrying", "unknown"},
           NEW proof \in {"acknowledged", "not_applied", "indeterminate"},
           ~At(w, "idle"),
           Concludes(w, pc, goal, proof),
           UNCHANGED <<declared, receipt, remote, announced>>,
           receipt.owner = w =>
                /\ work[w].pc \in {"begin", "call", "await"}
                /\ Supported(goal, proof)
                /\ proof = "not_applied" /\ receipt.marker =>
                        remote[receipt.attempts] \in {"none", "dropped"}
                /\ goal = "success" => remote[receipt.attempts] \in {"applied", "repeated"}
                /\ goal = "unknown" => proof = "indeterminate" \/ receipt.uncertain
                /\ goal = "success" => receipt.marker /\ work[w].pc # "begin",
           pc = "settle" => goal # "failed",
           pc = "announce" =>
                /\ goal = "failed" /\ receipt.attempts = MaxAttempts
                /\ receipt.status # "success"
                /\ receipt.marker => receipt.owner = w
    PROVE  IInv'
<1>1. work' = [work EXCEPT ![w].pc = pc, ![w].goal = goal, ![w].proof = proof] /\ work[w] \in WorkRecord
  BY DEF Concludes, IInv, DeliveryTypeOK
<1>2. /\ work'[w].pc = pc /\ work'[w].goal = goal /\ work'[w].proof = proof
      /\ work'[w].uncertain = work[w].uncertain
      /\ work'[w].delivery = work[w].delivery /\ work'[w].report = work[w].report
      /\ work' \in [Workers -> WorkRecord]
      /\ \A v \in Workers \ {w} : work'[v] = work[v]
  <2> DEFINE new == [work[w] EXCEPT !.pc = pc, !.goal = goal, !.proof = proof]
  <2>1. work \in [Workers -> WorkRecord] /\ work' = [work EXCEPT ![w] = new]
    BY <1>1 DEF IInv, DeliveryTypeOK
  <2>2. /\ new \in WorkRecord /\ new.pc = pc /\ new.goal = goal /\ new.proof = proof
        /\ new.uncertain = work[w].uncertain /\ new.delivery = work[w].delivery
        /\ new.report = work[w].report
    <3>1. /\ pc \in {"idle", "claim", "begin", "call", "await", "announce", "settle"}
          /\ goal \in {"none", "retrying"} \union Settled
          /\ proof \in {"none", "acknowledged", "not_applied", "indeterminate"}
          /\ work[w] \in WorkRecord
      BY <1>1 DEF Settled
    <3>2. new \in WorkRecord
      BY <3>1 DEF WorkRecord
    <3> QED
      BY <3>1, <3>2 DEF WorkRecord
  <2> HIDE DEF new
  <2> QED
    BY <2>1, <2>2
<1>t. DeliveryTypeOK'
  BY <1>2 DEF IInv, DeliveryTypeOK, ReceiptRecord, Sends
<1>r. ReceiptOK' /\ TraceOK'
  BY DEF IInv, ReceiptOK, IsSettled, TraceOK, HandledAtMostOnce, Applied, Sends
<1>c. CallOK'
  BY <1>2 DEF IInv, CallOK, At, Sends
<1>l. \A v \in Workers : StaleOK(v)'
  BY <1>2 DEF IInv, StaleOK
<1>o. \A v \in Workers : CurrentOK(v)'
  BY <1>2 DEF IInv, CurrentOK, At, Supported
<1>d. DoomedOK'
  BY <1>2 DEF IInv, DoomedOK, CurrentOK, Supported, At
<1>w. \A v \in Workers : WordOK(v)'
  BY <1>2 DEF IInv, WordOK, At, IsSettled
<1> QED
  BY <1>t, <1>r, <1>c, <1>l, <1>o, <1>d, <1>w DEF IInv

\* ReachCap: a receipt whose sends are used up can only be uncertain.
LEMMA ReachCapStep == ASSUME IInv, NEW w \in Workers, ReachCap(w) PROVE IInv'
<1>1. /\ At(w, "begin") /\ receipt.owner = w /\ receipt.attempts >= MaxAttempts
      /\ UNCHANGED <<declared, receipt, remote, announced>>
  BY DEF ReachCap
<1>2. receipt.attempts = MaxAttempts /\ ~receipt.marker /\ ~IsSettled /\ work[w].uncertain = receipt.uncertain
  BY <1>1, DeliveryAssumption
     DEF IInv, DeliveryTypeOK, ReceiptRecord, ReceiptOK, CurrentOK, At
<1>3. work[w].uncertain /\ Concludes(w, "settle", "unknown", "indeterminate")
  BY <1>1, <1>2 DEF ReachCap, CapConcludes, IInv, ReceiptOK
<1> QED
  BY <1>1, <1>2, <1>3, ConcludeStep DEF Supported, At

\* Announce
LEMMA AnnounceStep == ASSUME IInv, NEW w \in Workers, Announce(w) PROVE IInv'
<1>1. /\ At(w, "announce") /\ announced' = TRUE /\ work[w] \in WorkRecord
      /\ work' = [work EXCEPT ![w].pc = "settle"]
      /\ UNCHANGED <<declared, receipt, remote>>
  BY DEF Announce, Goes, IInv, DeliveryTypeOK
<1>2. /\ work'[w].pc = "settle" /\ work'[w].goal = work[w].goal /\ work'[w].proof = work[w].proof
      /\ work'[w].uncertain = work[w].uncertain
      /\ work'[w].delivery = work[w].delivery /\ work'[w].report = work[w].report
      /\ work' \in [Workers -> WorkRecord]
      /\ \A v \in Workers \ {w} : work'[v] = work[v]
  BY <1>1 DEF IInv, DeliveryTypeOK, WorkRecord
<1>3. work[w].goal = "failed"
  BY <1>1 DEF IInv, WordOK
<1>t. DeliveryTypeOK'
  BY <1>1, <1>2 DEF IInv, DeliveryTypeOK, ReceiptRecord, Sends
<1>r. ReceiptOK' /\ TraceOK'
  BY <1>1 DEF IInv, ReceiptOK, IsSettled, TraceOK, HandledAtMostOnce, Applied, Sends
<1>c. CallOK'
  BY <1>1, <1>2 DEF IInv, CallOK, At, Sends
<1>l. \A v \in Workers : StaleOK(v)'
  BY <1>1, <1>2 DEF IInv, StaleOK
<1>o. \A v \in Workers : CurrentOK(v)'
  BY <1>1, <1>2, <1>3 DEF IInv, CurrentOK, At, Supported
<1>d. DoomedOK'
  BY <1>1, <1>2, <1>3 DEF IInv, DoomedOK, At
<1>w. \A v \in Workers : WordOK(v)'
  BY <1>1, <1>2 DEF IInv, WordOK, At, IsSettled
<1> QED
  BY <1>t, <1>r, <1>c, <1>l, <1>o, <1>d, <1>w DEF IInv

------------------------------------------------------------------------------
\* Send: a worker that has lost the claim sends only where that does no harm.
LEMMA SendStep == ASSUME IInv, NEW w \in Workers, Send(w) PROVE IInv'
<1> DEFINE n == work[w].send
<1>1. /\ At(w, "call") /\ receipt.marker /\ n \in Sends /\ n \in Nat /\ n <= receipt.attempts
      /\ remote[n] = "none" /\ work[w] \in WorkRecord
      /\ remote' = [remote EXCEPT ![n] = "sent"]
      /\ work' = [work EXCEPT ![w].pc = "await"]
      /\ UNCHANGED <<declared, receipt, announced>>
  BY DEF Send, Goes, IInv, DeliveryTypeOK, CallOK, At, Sends
<1>2. /\ work'[w].pc = "await" /\ work'[w].send = n /\ work'[w].uncertain = work[w].uncertain
      /\ work'[w].delivery = work[w].delivery /\ work'[w].report = work[w].report
      /\ work' \in [Workers -> WorkRecord]
      /\ \A v \in Workers \ {w} : work'[v] = work[v]
  BY <1>1 DEF IInv, DeliveryTypeOK, WorkRecord
<1>3. remote'[n] = "sent" /\ \A m \in Sends \ {n} : remote'[m] = remote[m]
  BY <1>1 DEF IInv, DeliveryTypeOK
<1>4. (receipt.owner = w /\ n = receipt.attempts) \/ (receipt.uncertain /\ n < receipt.attempts)
  BY <1>1 DEF IInv, CurrentOK, StaleOK, At
<1>5. ~IsSettled /\ receipt.status # "success" /\ receipt.attempts \in Sends
  BY <1>1 DEF IInv, ReceiptOK, IsSettled, Settled, DeliveryTypeOK, ReceiptRecord, Sends
<1>t. DeliveryTypeOK'
  BY <1>1, <1>2 DEF IInv, DeliveryTypeOK, ReceiptRecord, Sends
<1>r. ReceiptOK'
  BY <1>1 DEF IInv, ReceiptOK, IsSettled
<1>s. TraceOK'
  <2>1. \A m \in Sends : remote'[m] # "none" => m <= receipt.attempts
    BY <1>1, <1>3 DEF IInv, TraceOK
  <2>2. \A m \in Sends : remote'[m] \in {"sent", "applied", "repeated"} =>
            (receipt.marker /\ m = receipt.attempts) \/ receipt.uncertain
    BY <1>1, <1>3, <1>4, <1>5 DEF IInv, TraceOK
  <2>3. \A m \in Sends : Applied(m)' <=> Applied(m)
    BY <1>1, <1>3 DEF Applied
  <2>4. receipt.identity \notin Safe =>
            \A k, m \in Sends :
                remote'[k] \in {"sent", "applied"} /\ remote'[m] \in {"sent", "applied"} => k = m
    BY <1>1, <2>2 DEF IInv, ReceiptOK
  <2>5. \A m \in Sends : remote'[m] = "repeated" => \E k \in Sends : Applied(k)
    BY <1>1, <1>3 DEF IInv, TraceOK
  <2>6. HandledAtMostOnce'
    BY <2>3 DEF IInv, TraceOK, HandledAtMostOnce, Applied
  <2> QED
    BY <1>1, <1>5, <2>1, <2>2, <2>3, <2>4, <2>5, <2>6 DEF TraceOK
<1>c. CallOK'
  BY <1>1, <1>2, <1>3 DEF IInv, CallOK, At, Sends
<1>l. \A v \in Workers : StaleOK(v)'
  BY <1>1, <1>2 DEF IInv, StaleOK, At
<1>o. \A v \in Workers : CurrentOK(v)'
  <2> SUFFICES ASSUME NEW v \in Workers, receipt.owner = v PROVE CurrentOK(v)'
    BY <1>1 DEF CurrentOK
  <2>1. CASE v = w
    BY <1>1, <1>2, <1>4, <2>1 DEF IInv, CurrentOK, At
  <2>2. CASE v # w
    <3>1. n # receipt.attempts /\ remote'[receipt.attempts] = remote[receipt.attempts]
      BY <1>1, <1>3, <1>4, <1>5, <2>2
    <3> QED
      BY <1>1, <1>2, <2>2, <3>1 DEF IInv, CurrentOK, Supported, At
  <2> QED
    BY <2>1, <2>2
<1>d. DoomedOK'
  BY <1>1, <1>2 DEF IInv, DoomedOK, At
<1>w. \A v \in Workers : WordOK(v)'
  BY <1>1, <1>2 DEF IInv, WordOK, At, IsSettled
<1> QED
  BY <1>t, <1>r, <1>s, <1>c, <1>l, <1>o, <1>d, <1>w DEF IInv

\* Arrive: of what was sent, one is applied, and the others were sent to a
\* recipient that knows it.
LEMMA ArriveStep == ASSUME IInv, NEW n \in Sends, Arrive(n) PROVE IInv'
<1>1. /\ remote[n] = "sent" /\ UNCHANGED <<declared, receipt, work, announced>>
  BY DEF Arrive
<1>2. PICK fate \in {"dropped", "applied", "repeated"} :
        /\ remote' = [remote EXCEPT ![n] = fate]
        /\ fate = "applied" /\ receipt.identity \in Safe => AppliedSends = {}
        /\ fate = "repeated" => AppliedSends # {}
  BY DEF Arrive
<1>3. /\ remote'[n] = fate /\ \A m \in Sends \ {n} : remote'[m] = remote[m]
      /\ remote' \in [Sends -> {"none", "sent", "applied", "dropped", "repeated"}]
  BY <1>2 DEF IInv, DeliveryTypeOK
<1>4. fate = "applied" => \A m \in Sends : ~Applied(m)
  BY <1>1, <1>2 DEF IInv, TraceOK, AppliedSends, Applied
<1>5. fate = "repeated" => \E m \in Sends : Applied(m)
  BY <1>2 DEF AppliedSends, Applied
<1>6. \A m \in Sends : Applied(m) => Applied(m)'
  BY <1>1, <1>3 DEF Applied
<1>t. DeliveryTypeOK'
  BY <1>1, <1>3 DEF IInv, DeliveryTypeOK, ReceiptRecord, WorkRecord, Sends
<1>r. ReceiptOK'
  BY <1>1 DEF IInv, ReceiptOK, IsSettled
<1>s. TraceOK'
  BY <1>1, <1>3, <1>4, <1>5, <1>6 DEF IInv, TraceOK, HandledAtMostOnce, Applied
<1>c. CallOK'
  BY <1>1, <1>3 DEF IInv, CallOK, At
<1>l. \A v \in Workers : StaleOK(v)'
  BY <1>1 DEF IInv, StaleOK
<1>o. \A v \in Workers : CurrentOK(v)'
  BY <1>1, <1>2 DEF IInv, DeliveryTypeOK, CurrentOK, Supported, At
<1>d. DoomedOK'
  BY <1>1 DEF IInv, DoomedOK, At
<1>w. \A v \in Workers : WordOK(v)'
  BY <1>1 DEF IInv, WordOK, At, IsSettled
<1> QED
  BY <1>t, <1>r, <1>s, <1>c, <1>l, <1>o, <1>d, <1>w DEF IInv

\* Return: the call classifies what it can prove of its own send.
LEMMA ReturnStep == ASSUME IInv, NEW w \in Workers, Return(w) PROVE IInv'
<1> DEFINE n == work[w].send
<1>1. /\ work[w].pc \in {"call", "await"} /\ n \in Sends /\ n \in Nat /\ n <= receipt.attempts
      /\ receipt.attempts <= MaxAttempts /\ receipt.attempts \in Nat /\ MaxAttempts \in Nat
      /\ UNCHANGED <<declared, receipt, remote, announced>>
  BY DeliveryAssumption DEF Return, IInv, CallOK, DeliveryTypeOK, ReceiptRecord, Sends
<1>2. PICK proof \in Proofs(n) :
        Concludes(w, IF Classify(w, proof) = "failed" THEN "announce" ELSE "settle",
                  Classify(w, proof), proof)
  BY DEF Return
<1> DEFINE goal == Classify(w, proof)
           pc == IF goal = "failed" THEN "announce" ELSE "settle"
<1>3. /\ proof \in {"acknowledged", "not_applied", "indeterminate"}
      /\ proof = "acknowledged" => remote[n] \in {"applied", "repeated"}
      /\ proof = "not_applied" => remote[n] \in {"none", "dropped"}
  BY DEF Proofs
<1>4. goal \in {"success", "failed", "retrying", "unknown"} /\ pc \in {"announce", "settle"}
  BY DEF Classify
<1>5. goal = "success" => proof = "acknowledged"
  BY <1>3 DEF Classify
<1>6. goal = "failed" => n >= MaxAttempts /\ proof = "not_applied" /\ ~work[w].uncertain
  BY <1>1, <1>3 DEF Classify
<1>7. receipt.owner = w =>
        /\ receipt.marker /\ n = receipt.attempts
        /\ Supported(goal, proof)
        /\ goal = "unknown" => proof = "indeterminate" \/ receipt.uncertain
  BY <1>1, <1>3 DEF IInv, CurrentOK, Classify, Supported
<1>8. goal = "failed" =>
        /\ receipt.attempts = MaxAttempts
        /\ receipt.status # "success" /\ (receipt.marker => receipt.owner = w)
  <2>1. receipt.status = "success" => receipt.owner # w
    BY DeliveryAssumption DEF IInv, ReceiptOK, IsSettled, Settled
  <2> QED
    BY <1>1, <1>6, <2>1 DEF IInv, StaleOK
<1>9. ~At(w, "idle")
  BY <1>1 DEF At
<1> HIDE DEF goal, n
<1> QED
  BY <1>1, <1>2, <1>3, <1>4, <1>5, <1>7, <1>8, <1>9, ConcludeStep DEF goal, n

\* The worker that holds the claim writes a verdict on true evidence.
LEMMA SettlesStep ==
    ASSUME IInv, NEW w \in Workers, NEW goal \in {"success", "failed", "retrying", "unknown"},
           NEW proof \in {"acknowledged", "not_applied", "indeterminate"},
           NEW report \in {"none", "settled", "open"},
           Settles(w, goal, proof),
           work' = [work EXCEPT ![w] = [IdleWork EXCEPT !.report = report]],
           report = "settled" => goal \in Settled,
           UNCHANGED <<declared, remote, announced>>,
           proof = "not_applied" /\ receipt.marker => remote[receipt.attempts] \in {"none", "dropped"},
           goal = "success" =>
                /\ remote[receipt.attempts] \in {"applied", "repeated"}
                /\ ~announced /\ \A v \in Workers : ~At(v, "announce"),
           goal = "unknown" => proof = "indeterminate" \/ receipt.uncertain,
           goal = "failed" /\ receipt.attempts = MaxAttempts => announced
    PROVE  IInv'
<1> DEFINE idle == [IdleWork EXCEPT !.report = report]
<1>1. idle \in WorkRecord /\ idle.pc = "idle" /\ idle.report = report
  BY DEF IdleWork, WorkRecord
<1>2. work' = [work EXCEPT ![w] = idle]
  OBVIOUS
<1> HIDE DEF idle
<1>3. /\ work'[w].pc = "idle" /\ work'[w].report = report
      /\ work' \in [Workers -> WorkRecord]
      /\ \A v \in Workers \ {w} : work'[v] = work[v]
  BY <1>1, <1>2 DEF IInv, DeliveryTypeOK
<1>4. /\ receipt' \in ReceiptRecord
      /\ receipt'.status = goal /\ receipt'.owner = "none" /\ receipt'.marker = FALSE
      /\ receipt'.leased = FALSE
      /\ receipt'.uncertain = (receipt.uncertain \/ proof = "indeterminate")
      /\ receipt'.attempts = receipt.attempts /\ receipt'.identity = receipt.identity
  BY DEF Settles, SettledAs, IInv, DeliveryTypeOK, ReceiptRecord, Settled
<1>5. /\ receipt.owner = w /\ w # "none" /\ Supported(goal, proof)
      /\ ~IsSettled /\ receipt.status \notin {"absent", "success", "failed"}
  BY DeliveryAssumption DEF Settles, IInv, ReceiptOK, IsSettled, Settled
<1>6. receipt.marker => receipt.attempts \in Sends
  BY DEF IInv, ReceiptOK, DeliveryTypeOK, ReceiptRecord, Sends
<1>t. DeliveryTypeOK'
  BY <1>3, <1>4 DEF IInv, DeliveryTypeOK, Sends
<1>r. ReceiptOK'
  <2>1. receipt.identity # "none" /\ (goal = "failed" => ~receipt'.uncertain)
    BY <1>4, <1>5 DEF IInv, ReceiptOK, Supported, DeliveryTypeOK, ReceiptRecord
  <2>2. goal = "retrying" => receipt.attempts # MaxAttempts
    BY <1>5, DeliveryAssumption DEF Supported, IInv, DeliveryTypeOK, ReceiptRecord
  <2> QED
    BY <1>4, <2>1, <2>2 DEF ReceiptOK, IsSettled, Settled
<1>s. TraceOK'
  <2>1. \A n \in Sends : remote[n] \in {"sent", "applied", "repeated"} =>
            receipt'.uncertain \/ goal = "success"
    BY <1>4, <1>5 DEF IInv, TraceOK, Supported
  <2>2. goal = "success" => \E m \in Sends : Applied(m)
    BY <1>5, <1>6 DEF IInv, TraceOK, Supported, Applied
  <2> QED
    BY <1>4, <2>1, <2>2 DEF IInv, TraceOK, HandledAtMostOnce, Applied
<1>c. CallOK'
  BY <1>3, <1>4 DEF IInv, CallOK, At
<1>l. \A v \in Workers : StaleOK(v)'
  BY <1>3, <1>4, <1>5 DEF IInv, StaleOK, Supported
<1>o. \A v \in Workers : CurrentOK(v)'
  BY <1>4, DeliveryAssumption DEF CurrentOK
<1>d. DoomedOK'
  BY <1>3, <1>4, DeliveryAssumption DEF IInv, DoomedOK, At
<1>w. \A v \in Workers : WordOK(v)'
  BY <1>3, <1>4, <1>5 DEF IInv, WordOK, At, IsSettled
<1> QED
  BY <1>t, <1>r, <1>s, <1>c, <1>l, <1>o, <1>d, <1>w DEF IInv

\* Settle
LEMMA SettleStep == ASSUME IInv, NEW w \in Workers, Settle(w) PROVE IInv'
<1> DEFINE goal == work[w].goal
           proof == work[w].proof
           report == IF receipt'.status \in Settled THEN "settled" ELSE "open"
<1>1. /\ At(w, "settle") /\ Settles(w, goal, proof) /\ receipt.owner = w
      /\ UNCHANGED <<declared, remote, announced>>
      /\ work' = [work EXCEPT ![w] = [IdleWork EXCEPT !.report = report]]
  BY DEF Settle, Settles, Reports
<1>2. /\ Supported(goal, proof)
      /\ proof = "not_applied" /\ receipt.marker => remote[receipt.attempts] \in {"none", "dropped"}
      /\ goal = "success" => remote[receipt.attempts] \in {"applied", "repeated"}
      /\ goal = "unknown" => proof = "indeterminate" \/ receipt.uncertain
      /\ goal = "failed" /\ receipt.attempts = MaxAttempts => announced
  BY <1>1 DEF IInv, CurrentOK, At
<1>3. /\ goal \in {"success", "failed", "retrying", "unknown"}
      /\ proof \in {"none", "acknowledged", "not_applied", "indeterminate"}
  BY <1>2 DEF Supported, IInv, DeliveryTypeOK, WorkRecord
<1>4. goal = "success" => ~announced /\ \A v \in Workers : ~At(v, "announce")
  BY <1>1 DEF IInv, DoomedOK
<1>5. receipt'.status = goal
  BY <1>1 DEF Settles, SettledAs, IInv, DeliveryTypeOK, ReceiptRecord
<1>6. proof # "none"
  BY <1>1 DEF IInv, CurrentOK, At
<1> HIDE DEF goal, proof
<1> QED
  BY <1>1, <1>2, <1>3, <1>4, <1>5, <1>6, SettlesStep

\* Cancel settles that nothing is known of the send, or does not get that far.
LEMMA CancelStep == ASSUME IInv, NEW w \in Workers, Cancel(w) PROVE IInv'
<1>1. /\ work[w].pc \in {"call", "await"}
      /\ work' = [work EXCEPT ![w] = IdleWork]
      /\ UNCHANGED <<declared, remote, announced>>
  BY DEF Cancel
<1>2. IdleWork = [IdleWork EXCEPT !.report = "none"]
  BY DEF IdleWork
<1>3. CASE Settles(w, Classify(w, "indeterminate"), "indeterminate")
  <2>1. Classify(w, "indeterminate") \in {"retrying", "unknown"}
    BY DEF Classify
  <2> QED
    BY <1>1, <1>2, <1>3, <2>1, SettlesStep
<1>4. CASE UNCHANGED receipt
  BY <1>1, <1>2, <1>4, StopStep DEF IInv, DeliveryTypeOK
<1> QED
  BY <1>3, <1>4 DEF Cancel

\* Lapse
LEMMA LapseStep == ASSUME IInv, Lapse PROVE IInv'
<1>1. /\ receipt' = [receipt EXCEPT !.leased = FALSE] /\ receipt \in ReceiptRecord
      /\ UNCHANGED <<declared, work, remote, announced>>
  BY DEF Lapse, IInv, DeliveryTypeOK
<1>2. /\ receipt' \in ReceiptRecord
      /\ receipt'.status = receipt.status /\ receipt'.attempts = receipt.attempts
      /\ receipt'.identity = receipt.identity /\ receipt'.owner = receipt.owner
      /\ receipt'.marker = receipt.marker /\ receipt'.uncertain = receipt.uncertain
  BY <1>1 DEF ReceiptRecord
<1>t. DeliveryTypeOK'
  BY <1>1, <1>2 DEF IInv, DeliveryTypeOK, Sends
<1>r. ReceiptOK' /\ TraceOK' /\ CallOK'
  BY <1>1, <1>2 DEF IInv, ReceiptOK, TraceOK, HandledAtMostOnce, Applied, CallOK, IsSettled, At
<1>l. \A v \in Workers : StaleOK(v)' /\ CurrentOK(v)'
  BY <1>1, <1>2 DEF IInv, StaleOK, CurrentOK, Supported, At
<1>d. DoomedOK' /\ \A v \in Workers : WordOK(v)'
  BY <1>1, <1>2 DEF IInv, DoomedOK, WordOK, At, IsSettled
<1> QED
  BY <1>t, <1>r, <1>l, <1>d DEF IInv

------------------------------------------------------------------------------
\* Every step keeps the invariant.
LEMMA NextHolds == ASSUME IInv, [Next]_vars PROVE IInv'
<1>1. ASSUME NEW w \in Workers, ClaimRefused(w) \/ BeginRefused(w) \/ SettleRefused(w) PROVE IInv'
  BY <1>1, ReportsStep DEF ClaimRefused, BeginRefused, SettleRefused
<1>2. ASSUME NEW w \in Workers, Dispatch(w) PROVE IInv'
  BY <1>1, <1>2, ReadTriggerStep, ClaimStep, BeginStep, ReachCapStep, SendStep, ReturnStep,
     AnnounceStep, SettleStep DEF Dispatch
<1>3. ASSUME NEW w \in Workers, Cancel(w) \/ Crash(w) PROVE IInv'
  BY <1>3, CancelStep, CrashStep
<1>4. ASSUME UNCHANGED vars PROVE IInv'
  BY <1>4 DEF vars, IInv, DeliveryTypeOK, ReceiptOK, TraceOK, HandledAtMostOnce, Applied, CallOK,
              StaleOK, CurrentOK, Supported, DoomedOK, WordOK, IsSettled, At
<1> QED
  BY <1>2, <1>3, <1>4, ArriveStep, DeclareStep, LapseStep DEF Next

\* The inductive invariant.
THEOREM DeliveryInvariance == Spec => []IInv
<1>1. Init => IInv
  BY InitHolds
<1>2. IInv /\ [Next]_vars => IInv'
  BY NextHolds
<1> QED
  BY <1>1, <1>2, PTL DEF Spec

\* Records have their shapes, and no more than MaxAttempts sends are begun.
THEOREM DeliveryIsTyped == Spec => []DeliveryTypeOK
<1>1. IInv => DeliveryTypeOK
  BY DEF IInv
<1> QED
  BY <1>1, DeliveryInvariance, PTL

\* A recipient that cannot deduplicate is given the event at most once.
THEOREM DeliveredAtMostOnce == Spec => []HandledAtMostOnce
<1>1. IInv => HandledAtMostOnce
  BY DEF IInv, TraceOK
<1> QED
  BY <1>1, DeliveryInvariance, PTL

\* Verdicts and announcements agree with what became of the sends.
LEMMA ReceiptTells == IInv => ReceiptIsTrue
<1> SUFFICES ASSUME IInv PROVE ReceiptIsTrue
  OBVIOUS
<1>1. receipt.status = "success" => AppliedSends # {} /\ ~announced
  BY DEF IInv, TraceOK, DoomedOK, AppliedSends, Applied
<1>2. receipt.status = "failed" => \A n \in Sends : remote[n] \in {"none", "dropped"}
  BY DEF IInv, DeliveryTypeOK, ReceiptOK, TraceOK, IsSettled, Settled
<1> QED
  BY <1>1, <1>2 DEF IInv, ReceiptOK, ReceiptIsTrue

\* What a receipt says is true of its sends: an event is called handled only
\* when one of them was applied, and failed only when none was or will be.
THEOREM ReceiptsAreTrue == Spec => []ReceiptIsTrue
<1> QED
  BY ReceiptTells, DeliveryInvariance, PTL

\* The store never refuses what the processor asks of it while its claim is current.
THEOREM ClassifierIsSupported == Spec => []ClassifierAgrees
<1>1. IInv => ClassifierAgrees
  BY DEF IInv, CurrentOK, ClassifierAgrees, At
<1> QED
  BY <1>1, DeliveryInvariance, PTL

\* No step writes a receipt that is settled.
LEMMA SettledStays == ASSUME IInv, [Next]_vars, IsSettled PROVE receipt' = receipt
<1>1. receipt.owner = "none" /\ ~receipt.leased
  BY DEF IInv, ReceiptOK
<1>2. \A w \in Workers : receipt.owner # w
  BY <1>1, DeliveryAssumption
<1>3. ASSUME NEW w \in Workers, Dispatch(w) PROVE receipt' = receipt
  BY <1>2, <1>3 DEF Dispatch, ReadTrigger, Claim, ClaimRefused, Begin, Begins, ReachCap, BeginRefused,
                    Send, Return, Announce, Settle, Settles, SettleRefused
<1>4. ASSUME NEW w \in Workers, Cancel(w) \/ Crash(w) PROVE receipt' = receipt
  BY <1>2, <1>4 DEF Cancel, Crash, Settles
<1> QED
  BY <1>1, <1>3, <1>4 DEF Next, vars, Arrive, Declare, Lapse

\* A verdict is final, and the reports the cursor relies on are true.
THEOREM VerdictsAreFinal == Spec => VerdictIsFinal
<1>1. IInv /\ IInv' /\ [Next]_vars => [KeepsVerdict]_vars
  BY SettledStays DEF KeepsVerdict, IInv, WordOK, IsSettled
<1> QED
  BY <1>1, DeliveryInvariance, PTL DEF Spec, VerdictIsFinal

------------------------------------------------------------------------------
\* The delivery as EffectOnce sees it

\* No step but an arrival changes what was applied.
LEMMA OnlyArrivalsApply ==
    ASSUME IInv, [Next]_vars, \A n \in Sends : ~Arrive(n)
    PROVE  AppliedSends' = AppliedSends
<1>1. ASSUME NEW w \in Workers, Send(w) PROVE AppliedSends' = AppliedSends
  BY <1>1 DEF Send, AppliedSends, IInv, CallOK, DeliveryTypeOK, At
<1>2. ASSUME UNCHANGED remote PROVE AppliedSends' = AppliedSends
  BY <1>2 DEF AppliedSends
<1> QED
  BY <1>1, <1>2 DEF Next, vars, Dispatch, ReadTrigger, Claim, ClaimRefused, Begin, ReachCap,
                    BeginRefused, Return, Announce, Settle, SettleRefused, Cancel, Crash, Declare, Lapse

\* The verdict of a receipt changes at most once, to one that is true.
LEMMA VerdictRefines ==
    ASSUME IInv, ReceiptIsTrue', [Next]_vars, AppliedSends' = AppliedSends
    PROVE  [Effect!Next]_<<AppliedSends, Verdict>>
<1>1. IsSettled => receipt' = receipt
  BY SettledStays
<1>3. receipt'.status = "failed" => AppliedSends' = {}
  BY DEF ReceiptIsTrue, AppliedSends
<1>4. Verdict' \in {Verdict} \/ (Verdict = "open" /\ Verdict' \in {"done", "absent"})
  BY <1>1 DEF Verdict, IsSettled, Settled
<1>5. /\ Verdict' = "done" => AppliedSends # {}
      /\ Verdict' = "absent" => AppliedSends = {}
  BY <1>3 DEF Verdict, ReceiptIsTrue
<1> QED
  BY <1>4, <1>5 DEF Effect!Next, Effect!Confirm, Effect!Deny

\* An arrival applies the first send, or none.
LEMMA ArriveRefines ==
    ASSUME IInv, NEW n \in Sends, Arrive(n)
    PROVE  [Effect!Next]_<<AppliedSends, Verdict>>
<1>1. remote[n] = "sent" /\ UNCHANGED receipt /\ Verdict' = Verdict
  BY DEF Arrive, Verdict
<1>2. Verdict # "absent"
  BY <1>1, ReceiptTells DEF ReceiptIsTrue, Verdict
<1>3. CASE remote' = [remote EXCEPT ![n] = "applied"] /\ (receipt.identity \in Safe => AppliedSends = {})
  <2>1. AppliedSends = {}
    BY <1>1, <1>3 DEF IInv, TraceOK, AppliedSends
  <2>2. AppliedSends' = {n}
    BY <1>3, <2>1 DEF AppliedSends, IInv, DeliveryTypeOK
  <2> QED
    BY <1>1, <1>2, <2>1, <2>2 DEF Effect!Next, Effect!Apply
<1>4. CASE \E fate \in {"dropped", "repeated"} : remote' = [remote EXCEPT ![n] = fate]
  <2>1. AppliedSends' = AppliedSends
    BY <1>1, <1>4 DEF AppliedSends, IInv, DeliveryTypeOK
  <2> QED
    BY <1>1, <2>1
<1> QED
  BY <1>3, <1>4 DEF Arrive

\* Refinement: workers, lapsed claims and crashes are steps of one effect that
\* is applied at most once and spoken of truthfully.
THEOREM DeliveryImplementsOnce == Spec => DeliversOnce
<1>1. Init => Effect!Init
  BY DEF Init, NoReceipt, Effect!Init, Verdict, AppliedSends
<1>2. IInv /\ ReceiptIsTrue' /\ [Next]_vars => [Effect!Next]_<<AppliedSends, Verdict>>
  <2> SUFFICES ASSUME IInv, ReceiptIsTrue', [Next]_vars PROVE [Effect!Next]_<<AppliedSends, Verdict>>
    OBVIOUS
  <2>1. CASE \E n \in Sends : Arrive(n)
    BY <2>1, ArriveRefines
  <2>2. CASE \A n \in Sends : ~Arrive(n)
    BY <2>2, OnlyArrivalsApply, VerdictRefines
  <2> QED
    BY <2>1, <2>2
<1> QED
  BY <1>1, <1>2, DeliveryInvariance, ReceiptsAreTrue, PTL DEF Spec, DeliversOnce, Effect!Spec
==============================================================================
