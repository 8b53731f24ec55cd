------------------------------ MODULE Lifecycle ------------------------------
(***************************************************************************)
(* The lifecycle vocabulary of maistro.runs: the statuses of a Run, of its *)
(* NodeRuns (which share the Run's statuses) and of their Attempts, the    *)
(* legal moves between them, and the fold that derives a Run's outcome     *)
(* from the outcomes of its nodes.  Everything here is a pure function of  *)
(* its arguments (runs/model.py, runs/lifecycle.py, runs/aggregation.py).  *)
(***************************************************************************)
EXTENDS Naturals, FiniteSets

RunStatus ==
    {"created", "queued", "running", "waiting", "paused",
     "completed", "failed", "cancelled", "timed_out"}

TerminalRunStatus == {"completed", "failed", "cancelled", "timed_out"}

OpenRunStatus == RunStatus \ TerminalRunStatus

AttemptStatus ==
    {"created", "running", "completed", "failed", "cancelled", "timed_out", "yielded"}

ActiveAttemptStatus == {"created", "running"}

TerminalAttemptStatus == AttemptStatus \ ActiveAttemptStatus

\* The dispositions a domain may give to a completed Attempt.
AcceptedStatus == {"waiting", "paused", "completed", "failed"}

------------------------------------------------------------------------------
RunTransitions ==
    [s \in RunStatus |->
        CASE s = "created" -> {"queued", "cancelled"}
          [] s = "queued"  -> {"running", "cancelled", "timed_out"}
          [] s = "running" -> {"waiting", "paused"} \union TerminalRunStatus
          [] s = "waiting" -> {"queued", "running", "paused", "cancelled", "timed_out"}
          [] s = "paused"  -> {"queued", "cancelled", "timed_out"}
          [] OTHER         -> {}]

AttemptTransitions ==
    [s \in AttemptStatus |->
        CASE s = "created" -> {"running", "cancelled"}
          [] s = "running" -> TerminalAttemptStatus
          [] OTHER         -> {}]

\* The moves that supersede what a parked NodeRun had accepted.
SupersedingStatus == {"queued", "running", "cancelled", "timed_out"}

------------------------------------------------------------------------------
\* derive_run_terminal_status: the outcome of a Run whose latest NodeRuns have
\* the given statuses, or "none" while some of them is still open.
FirstMatch(statuses) ==
    IF "failed" \in statuses THEN "failed"
    ELSE IF "timed_out" \in statuses THEN "timed_out"
    ELSE IF "cancelled" \in statuses THEN "cancelled"
    ELSE IF "completed" \in statuses THEN "completed"
    ELSE "none"

DeriveRunTerminalStatus(latest, workOwed) ==
    IF workOwed THEN "none"
    ELSE IF latest = {} THEN "completed"
    ELSE IF latest \subseteq TerminalRunStatus THEN FirstMatch(latest)
    ELSE "none"
==============================================================================
