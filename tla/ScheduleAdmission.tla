-------------------------- MODULE ScheduleAdmission --------------------------
(***************************************************************************)
(* How the occurrences of one Schedule become Runs                         *)
(* (scheduling/admission.py, engine.py, store.py).  Tickers evaluate the   *)
(* recurrence from the cursor of the row, admit what the policy lets fire  *)
(* and move the cursor; callers fire by hand, under a token, and hold one  *)
(* of the remaining runs by a marker on the row until their Run exists.    *)
(*                                                                         *)
(* An occurrence is an instant 1, 2, ... of the recurrence.  The store of  *)
(* Runs refuses a second Run for an occurrence or a token.  Every write of *)
(* the row reads it under the same lock.                                   *)
(***************************************************************************)
EXTENDS Naturals, FiniteSetsExt

CONSTANTS
    Tickers, Callers,
    Crews,        \* which of them there may be
    Tokens,       \* the fire ids of manual fires
    MaxOcc,       \* the last occurrence
    MaxRuns,      \* max_runs; 0 if the Schedule has none
    Definitions,  \* the overlap policies and catch-up windows it may have
    CrashLimit

Occ == 1..MaxOcc
Procs == Tickers \union Callers
OverlapPolicy == {"skip", "allow", "buffer_one", "cancel_other"}

ASSUME ScheduleAssumption ==
    /\ MaxOcc \in Nat /\ MaxRuns \in Nat /\ CrashLimit \in Nat
    /\ Definitions \subseteq [overlap : OverlapPolicy, window : Nat]
    /\ Crews \subseteq SUBSET Procs
    /\ Tokens \intersect (Occ \union {0}) = {} /\ Tickers \intersect Callers = {}

VARIABLES
    definition,
    crew,
    now,        \* the last occurrence that is due
    row,        \* the Schedule
    counted,    \* history: how often the Run of each occurrence and token was counted
    claims,     \* the occurrences and tokens that have a Run
    live,       \* those whose Run has not ended
    skipped,    \* the occurrences that left the window, or a tick decided not to run
    used,       \* who submitted which token
    late,       \* history: see Clock and Reserve
    unsure,     \* history: see Reserve, Create and MarkerAges
    proc,
    crashes

vars == <<definition, crew, now, row, counted, claims, live, skipped, used,
          late, unsure, proc, crashes>>

NewRow == [enabled |-> TRUE, last |-> 0, pointer |-> 0, nextDue |-> 0,
           runs |-> 0, pending |-> {}, credited |-> {}]

NoSnap == [enabled |-> TRUE, last |-> 0, nextDue |-> 0, held |-> 0, spent |-> 0]

Idle == [pc |-> "idle", todo |-> {}, token |-> 0, found |-> FALSE, snap |-> NoSnap, at |-> 0,
         active |-> FALSE, fires |-> {}, admitted |-> {}, links |-> {}, drops |-> {},
         recovered |-> {}, nextDue |-> 0, owedDue |-> 0]

Init ==
    /\ definition \in Definitions /\ crew \in Crews
    /\ now = 0
    /\ row = NewRow
    /\ counted = [c \in Occ \union Tokens |-> 0]
    /\ claims = {} /\ live = {} /\ skipped = {} /\ used = {}
    /\ late = {} /\ unsure = {}
    /\ proc = [p \in Procs |-> Idle]
    /\ crashes = 0

Goes(p, pc) == proc' = [proc EXCEPT ![p].pc = pc]
Ends(p) == proc' = [proc EXCEPT ![p] = Idle]
runVars == <<claims, live>>
historyVars == <<late, unsure>>
keptVars == <<definition, crew, now, used, crashes, historyVars>>

------------------------------------------------------------------------------
\* The row

Spent(runs) == MaxRuns # 0 /\ runs >= MaxRuns

\* What a caller keeps of the row it read.
Snap == [enabled |-> row.enabled, last |-> row.last, nextDue |-> row.nextDue,
         held |-> Cardinality(row.pending), spent |-> row.runs]

\* Held markers are no remaining runs.
Remaining(snap) ==
    IF snap.spent + snap.held >= MaxRuns THEN 0 ELSE MaxRuns - snap.spent - snap.held

\* _settle_pending: spend the slots of a token on its Run, or give them back.
SettlePending(t, found) ==
    LET exhausted == Spent(row.runs + 1) IN
    IF \A marker \in row.pending : marker.fire # t THEN UNCHANGED <<row, counted>>
    ELSE /\ row' = [row EXCEPT
                !.pending = {marker \in @ : marker.fire # t},
                !.pointer = IF found THEN t ELSE @,
                !.runs = IF found THEN @ + 1 ELSE @,
                !.enabled = @ /\ ~(found /\ exhausted),
                !.nextDue = IF found /\ exhausted THEN 0 ELSE @]
         /\ counted' = IF found THEN [counted EXCEPT ![t] = @ + 1] ELSE counted

\* _advance: a write for an older occurrence than the cursor leaves the cursors.
Advance(firedAt, pointer, nextDue, admitted, recovered) ==
    LET new == recovered \ row.credited
        runs == row.runs + Cardinality(admitted) + Cardinality(new)
        disabled == Spent(runs)
        newest == firedAt # 0 /\ firedAt >= row.last
    IN
    /\ counted' = [c \in DOMAIN counted |-> counted[c]
                    + (IF c \in admitted THEN 1 ELSE 0) + (IF c \in new THEN 1 ELSE 0)]
    /\ row' = [row EXCEPT
            !.last = IF newest THEN firedAt ELSE @,
            !.pointer = IF newest /\ pointer # 0 THEN pointer ELSE @,
            !.nextDue = IF disabled THEN 0 ELSE IF newest \/ firedAt = 0 THEN nextDue ELSE @,
            !.enabled = @ /\ ~disabled,
            !.runs = runs,
            !.credited = @ \union recovered]

------------------------------------------------------------------------------
\* Markers of fires whose holder is gone

OldMarkers == {marker.fire : marker \in {m \in row.pending : m.old}}

\* _reconcile_pending_fires asks for the Run of each old marker ...
Probe(p) ==
    /\ proc[p].pc = "probe"
    /\ \E t \in proc[p].todo :
        proc' = [proc EXCEPT ![p].pc = "settle", ![p].token = t, ![p].found = t \in claims]
    /\ UNCHANGED <<keptVars, row, counted, runVars, skipped>>

\* ... leaves the marker for the next admission if the store does not answer ...
ProbeFails(p) ==
    /\ proc[p].pc = "probe"
    /\ \E t \in proc[p].todo : proc' = [proc EXCEPT ![p].todo = @ \ {t}]
    /\ UNCHANGED <<keptVars, row, counted, runVars, skipped>>

\* ... settles it ...
SettleOld(p) ==
    /\ proc[p].pc = "settle"
    /\ SettlePending(proc[p].token, proc[p].found)
    /\ proc' = [proc EXCEPT ![p].pc = "probe", ![p].todo = @ \ {proc[p].token},
                            ![p].token = 0, ![p].found = FALSE]
    /\ UNCHANGED <<keptVars, runVars, skipped>>

\* ... and reads the row again.
Reread(p) ==
    /\ proc[p].pc = "probe"
    /\ proc[p].todo = {}
    /\ proc' = [proc EXCEPT ![p].pc = IF p \in Tickers THEN "decide" ELSE "lookup", ![p].snap = Snap]
    /\ UNCHANGED <<keptVars, row, counted, runVars, skipped>>

------------------------------------------------------------------------------
\* The tick: admit_due

\* The tick takes the Schedule as due() returned it; whether a Run is active
\* is asked of the Run the row points to.
TickReads(k) ==
    /\ k \in crew
    /\ proc[k].pc = "idle"
    /\ row.enabled
    /\ row.pending # {} \/ row.nextDue <= now
    /\ proc' = [proc EXCEPT ![k] = [Idle EXCEPT
                    !.pc = IF OldMarkers = {} THEN "decide" ELSE "probe",
                    !.todo = OldMarkers, !.snap = Snap, !.at = now, !.active = row.pointer \in live]]
    /\ UNCHANGED <<keptVars, row, counted, runVars, skipped>>

\* The policies that ask whether a Run is in flight.  (cancel_other reports it;
\* the caller cancels.)
Waits == definition.overlap \in {"skip", "buffer_one"}

\* What the overlap policy lets fire of the occurrences that are due, and
\* what it holds back for later.
ToFire(due, active) ==
    IF due = {} THEN {}
    ELSE CASE definition.overlap = "allow" -> due
           [] definition.overlap = "cancel_other" -> {Max(due)}
           [] OTHER -> IF active THEN {} ELSE {Min(due)}

Held(waiting) ==
    IF definition.overlap = "buffer_one" /\ waiting # {} THEN {Max(waiting)} ELSE {}

\* The oldest n of a set of occurrences.
Oldest(set, n) == {o \in set : Cardinality({q \in set : q < o}) < n}

\* evaluate and _reconcile_claims.  The Runs that exist are looked up before
\* the policy is applied, those before the horizon from the cursor on; a look
\* that fails sees none.  Without a template nothing fires and the cursor is
\* left alone.
Decide(k) ==
    LET me == proc[k]
        since == Max({me.snap.last} \union {o \in 0..me.at : o + definition.window <= me.at})
        open == me.snap.enabled /\ ~(MaxRuns # 0 /\ Remaining(me.snap) = 0)
        due == IF open THEN (since + 1)..me.at ELSE {}
        before == (me.snap.last + 1)..since
    IN
    /\ me.pc = "decide"
    /\ \E seen \in SUBSET ((due \union before) \intersect claims) :
        LET walk == seen \intersect before
            chosen == ToFire(due, me.active \/ seen \intersect live # {})
            allowed == IF MaxRuns = 0 THEN chosen ELSE Oldest(chosen, Remaining(me.snap))
            fires == IF MaxRuns = 0 \/ walk = {} THEN allowed
                     ELSE LET spent == me.snap.spent + Cardinality(walk) IN
                          Oldest(allowed, IF spent >= MaxRuns THEN 0 ELSE MaxRuns - spent)
            held == Held(due \ chosen) \ seen
            drops == (due \ fires) \ (held \union seen)
        IN
        /\ skipped' = skipped \union (before \ claims)
        /\ \/ proc' = [proc EXCEPT ![k] = [Idle EXCEPT
                    !.pc = IF fires = {} THEN "record" ELSE "batch",
                    !.fires = fires, !.links = seen \ fires,
                    !.drops = drops, !.recovered = walk,
                    !.nextDue = IF held # {} THEN me.snap.nextDue ELSE IF open THEN me.at + 1 ELSE 0,
                    !.owedDue = me.snap.nextDue]]
           \/ fires # {} /\ Ends(k)
    /\ UNCHANGED <<keptVars, row, counted, runVars>>

\* Mutant: the occurrence another ticker has admitted is counted again.
CountsDuplicates(k, o) ==
    proc' = [proc EXCEPT ![k].fires = @ \ {o}, ![k].links = @ \union {o}, ![k].admitted = @ \union {o}]

\* A duplicate claim is consumed and linked, and counted by who won it.
Duplicate(k, o) ==
    proc' = [proc EXCEPT ![k].fires = @ \ {o}, ![k].links = @ \union {o}]

\* Mutant: an occurrence that could not be admitted does not end the batch.
GoesOn(k, o) == proc' = [proc EXCEPT ![k].fires = @ \ {o}]

\* The first failure ends the batch; what is left is still owed, but for what
\* was skipped in favour of an occurrence that has its Run.
Stops(k, o) ==
    proc' = [proc EXCEPT ![k].fires = {}, ![k].nextDue = proc[k].owedDue,
                         ![k].drops = {d \in @ : \E l \in proc[k].links : d < l}]

\* The store of Runs takes the first Run of an occurrence or a token.
CreatesRun(c) == c \notin claims /\ claims' = claims \union {c} /\ live' = live \union {c}

\* _admit_batch, one occurrence after another
Admit(k) ==
    LET o == Min(proc[k].fires) IN
    /\ proc[k].pc = "batch"
    /\ proc[k].fires # {}
    /\ IF o \in claims THEN Duplicate(k, o) /\ UNCHANGED runVars
       ELSE /\ CreatesRun(o)
            /\ proc' = [proc EXCEPT ![k].fires = @ \ {o}, ![k].links = @ \union {o},
                                    ![k].admitted = @ \union {o}]
    /\ UNCHANGED <<keptVars, row, counted, skipped>>

\* The occurrence fails; its Run may exist if only the answer was lost.
AdmitFails(k) ==
    LET o == Min(proc[k].fires) IN
    /\ proc[k].pc = "batch"
    /\ proc[k].fires # {}
    /\ Stops(k, o)
    /\ UNCHANGED runVars \/ CreatesRun(o)
    /\ UNCHANGED <<keptVars, row, counted, skipped>>

\* record_fire, with the newest occurrence this tick consumed.  What the policy
\* skipped is consumed by a tick that fired nothing.
Record(k) ==
    LET me == proc[k]
        consumed == me.links \union (IF me.pc = "record" THEN me.drops ELSE {})
    IN
    /\ me.pc \in {"record", "batch"}
    /\ me.fires = {}
    /\ IF consumed # {}
       THEN Advance(Max(consumed), Max(me.links \union {0}), me.nextDue, me.admitted, me.recovered)
       ELSE IF me.pc = "record" /\ me.nextDue \notin {0, me.owedDue}
       THEN Advance(0, 0, me.nextDue, {}, {})
       ELSE UNCHANGED <<row, counted>>
    /\ skipped' = skipped \union me.drops
    /\ Ends(k)
    /\ UNCHANGED <<keptVars, runVars>>

------------------------------------------------------------------------------
\* A fire by hand: _admit_manual

Fire(m, t) ==
    /\ m \in crew
    /\ proc[m].pc = "idle"
    /\ <<m, t>> \notin used
    /\ used' = used \union {<<m, t>>}
    /\ proc' = [proc EXCEPT ![m] = [Idle EXCEPT
                    !.pc = IF OldMarkers = {} THEN "lookup" ELSE "probe",
                    !.todo = OldMarkers, !.snap = Snap, !.at = t]]
    /\ UNCHANGED <<definition, crew, now, row, counted, runVars, skipped, historyVars, crashes>>

\* A fire that has its Run is answered with it; one that finds no run left,
\* or no template, is refused.
Lookup(m) ==
    /\ proc[m].pc = "lookup"
    /\ \/ Ends(m)
       \/ /\ proc[m].at \notin claims
          /\ MaxRuns = 0 \/ Remaining(proc[m].snap) > 0
          /\ proc' = [proc EXCEPT ![m].pc = "reserve", ![m].snap = NoSnap]
    /\ UNCHANGED <<keptVars, row, counted, runVars, skipped>>

\* p has held a slot for t and not settled it yet.
Holding(p, t) == proc[p].at = t /\ proc[p].pc \in {"create", "confirm", "release"}

\* Another submission of the token holds a slot, or is settled or recovered yet.
Shared(t) ==
    \/ \E marker \in row.pending : marker.fire = t
    \/ \E p \in Procs : t \in proc[p].todo \/ Holding(p, t)

\* reserve_fire counts the markers that are held already.  Nothing was held
\* since the caller asked for a Run of the token: by now it may have one, or
\* another submission of it may be under way.
Reserve(m) ==
    LET t == proc[m].at IN
    /\ proc[m].pc = "reserve"
    /\ IF MaxRuns = 0 \/ Remaining(Snap) > 0
       THEN /\ row' = [row EXCEPT !.pending = @ \union {[fire |-> t, by |-> m, old |-> FALSE]}]
            /\ late' = IF t \in claims THEN late \union {t} ELSE late
            /\ unsure' = IF Shared(t) THEN unsure \union {t} ELSE unsure
            /\ Goes(m, "create")
       ELSE Ends(m) /\ UNCHANGED <<row, historyVars>>
    /\ UNCHANGED <<definition, crew, now, used, crashes, counted, runVars, skipped>>

\* The Run is created; or the creation is refused as a duplicate, or it fails
\* or is cancelled, which it may although the Run exists by then.
Create(m) ==
    LET t == proc[m].at IN
    /\ proc[m].pc = "create"
    /\ \/ CreatesRun(t) /\ Goes(m, "confirm") /\ UNCHANGED unsure
       \/ Goes(m, "release") /\ UNCHANGED <<runVars, unsure>>
       \/ CreatesRun(t) /\ Goes(m, "release") /\ unsure' = unsure \union {t}
    /\ UNCHANGED <<definition, crew, now, used, crashes, late, row, counted, skipped>>

\* Mutant: the slot is given back whatever the Run store did.
ReleaseAlways(m) == FALSE

\* Mutant: the slot is spent on a Run that was not created.
ConfirmsAlways(m) == TRUE

Confirms(m) == proc[m].pc = "confirm"

Close(m) ==
    /\ proc[m].pc \in {"confirm", "release"}
    /\ SettlePending(proc[m].at, Confirms(m))
    /\ Ends(m)
    /\ UNCHANGED <<keptVars, runVars, skipped>>

------------------------------------------------------------------------------
\* Time and failure

\* The occurrences a tick may still fire.
Reach(k) ==
    IF proc[k].pc \in {"probe", "settle", "decide"} THEN (proc[k].snap.last + 1)..proc[k].at
    ELSE proc[k].fires \union proc[k].admitted

\* An occurrence comes due, and others leave the window, though a tick may yet
\* fire them.
Clock ==
    /\ now < MaxOcc
    /\ now' = now + 1
    /\ late' = late \union {o \in UNION {Reach(k) : k \in Tickers} : o + definition.window <= now + 1}
    /\ UNCHANGED <<definition, crew, row, counted, runVars, skipped, used, unsure, proc, crashes>>

\* A marker outlives its lease, whatever its holder is at.
MarkerAges ==
    /\ \E marker \in row.pending :
        /\ ~marker.old
        /\ row' = [row EXCEPT !.pending = (@ \ {marker}) \union {[marker EXCEPT !.old = TRUE]}]
        /\ unsure' = IF Holding(marker.by, marker.fire) /\ proc[marker.by].pc = "create"
                      THEN unsure \union {marker.fire} ELSE unsure
    /\ UNCHANGED <<definition, crew, now, counted, runVars, skipped, used, late, proc, crashes>>

\* Nothing asks it of the Runs of other policies.
RunEnds ==
    /\ Waits
    /\ \E c \in live : live' = live \ {c}
    /\ UNCHANGED <<definition, crew, now, row, counted, claims, skipped, used, historyVars, proc, crashes>>

Crash(p) ==
    /\ proc[p].pc # "idle"
    /\ crashes < CrashLimit
    /\ crashes' = crashes + 1
    /\ Ends(p)
    /\ UNCHANGED <<definition, crew, now, row, counted, runVars, skipped, used, historyVars>>

Reconcile(p) == Probe(p) \/ ProbeFails(p) \/ SettleOld(p) \/ Reread(p)
Tick(k) == TickReads(k) \/ Reconcile(k) \/ Decide(k) \/ Admit(k) \/ AdmitFails(k) \/ Record(k)
Call(m) == Reconcile(m) \/ Lookup(m) \/ Reserve(m) \/ Create(m) \/ Close(m)

Next ==
    \/ \E k \in Tickers : Tick(k)
    \/ \E m \in Callers : Call(m) \/ \E t \in Tokens : Fire(m, t)
    \/ \E p \in Procs : Crash(p)
    \/ Clock \/ MarkerAges \/ RunEnds

Spec == Init /\ [][Next]_vars

------------------------------------------------------------------------------
\* Properties

ScheduleTypeOK ==
    /\ definition \in Definitions /\ now \in 0..MaxOcc
    /\ row.last \in 0..now /\ row.nextDue \in 0..(now + 1)
    /\ row.pointer \in claims \union {0}
    /\ \A marker \in row.pending : <<marker.by, marker.fire>> \in used /\ marker.old \in BOOLEAN
    /\ live \subseteq claims /\ claims \subseteq Occ \union Tokens
    /\ row.credited \subseteq claims
    /\ \A p \in Procs : proc[p].admitted \subseteq claims /\ proc[p].links \subseteq claims

\* Failures, dead ticks, policies and late writes of another ticker lose no
\* occurrence: neither cursor of the row passes one that has no Run and that
\* nobody decided not to run, and due() selects the Schedule for it.
NoOccurrenceIsLost ==
    \A o \in Occ : o \notin claims \union skipped =>
        row.last < o /\ (o <= now /\ row.enabled => row.nextDue <= o)

\* Only a Run that exists is counted against max_runs, and at most once, whoever
\* finds it: the tick that admitted it, one that met its claim, the recovery of
\* a dead one, the caller that created it, a second caller of its token.  Two
\* are late: an occurrence that left the window while a tick could still fire
\* it, and a token for which a slot was held after it had its Run.
CountedOnce ==
    \A c \in DOMAIN counted : counted[c] > 0 => c \in claims /\ (c \in late \/ counted[c] = 1)

\* A fire by hand that has its Run is counted, exactly once, or else still has
\* a marker, from which its caller or a recovery will count it: at no moment,
\* whoever dies then, is a Run neither.  Slots are told apart by their token
\* alone, so this is not promised of a token that had two of them at once, nor
\* of one whose creation outlived its lease or was answered by an error.
ManualRunsAreCounted ==
    \A t \in (claims \intersect Tokens) \ (late \union unsure) :
        counted[t] = IF \E marker \in row.pending : marker.fire = t THEN 0 ELSE 1

\* An occurrence that an evaluation decided not to run does not run later: a
\* skip drops the fire, it does not defer it.
SkippedStaysDropped == [][(claims' \ claims) \intersect skipped = {}]_vars

==============================================================================
