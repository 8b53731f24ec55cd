\* One call at a time beside the sweep; both may die anywhere.
SPECIFICATION FairExecSpec
CONSTANTS
    r1 = r1
    x = x
    y = y
    t1 = t1
    t2 = t2
    Runs = {r1}
    Nodes = {x}
    GraphOf <- WholeGraph
    NodeRuns = {1}
    Attempts = {1, 2, 3}
    Evidence = {"human"}
    Ttl = 1
    ReclaimLimit = 2
    Tasks = {t1}
    Sweeper = sweeper
    Kinds = {"execute", "retry", "claim"}
    Revisits = FALSE
    LeaseKind = "ttl"
    ProviderEnds = {"success", "yielded", "human", "failed", "timed_out", "cancelled"}
    Deferred = TRUE
    Dispositions = {"completed", "failed"}
    RunEnds = {"cancelled", "failed"}
    Crashers = {t1, sweeper}
INVARIANTS
    ExecTypeOK
    ReclaimedWorkStaysOpen
PROPERTIES
    CompletionIsNeverRedispatched
    AcceptedAttemptIsCurrent
    NoWorkUnderClosedRun
    EndIsFinal
    LapsedLeaseIsLost
    EveryAttemptSettles
\* Calls end and the pools of ids run out.
CHECK_DEADLOCK FALSE
