\* Two nodes executed side by side; calls and the sweep may die anywhere.
SPECIFICATION ExecSpec
CONSTANTS
    r1 = r1
    x = x
    y = y
    t1 = t1
    t2 = t2
    Runs = {r1}
    Nodes = {x, y}
    GraphOf <- WholeGraph
    NodeRuns = {1, 2}
    Attempts = {1, 2}
    Evidence = {"human"}
    Ttl = 1
    ReclaimLimit = 2
    Tasks = {t1, t2}
    Sweeper = sweeper
    Kinds = {"execute", "retry"}
    Revisits = FALSE
    LeaseKind = "ttl"
    ProviderEnds = {"success", "failed", "cancelled"}
    Deferred = FALSE
    Dispositions = {}
    RunEnds = {}
    Crashers = {t1, sweeper}
INVARIANTS
    OneActiveAttempt
PROPERTIES
    SettlementLosesNothing
\* Calls end and the pools of ids run out.
CHECK_DEADLOCK FALSE
