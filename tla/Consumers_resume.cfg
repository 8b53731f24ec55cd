\* Two consumers, one Run that yields and one that cannot be executed, beside the recovery tick.
SPECIFICATION FairConsumerSpec
CONSTANTS
    r1 = r1
    r2 = r2
    x = x
    t1 = t1
    t2 = t2
    Runs = {r1, r2}
    Nodes = {x}
    GraphOf <- WholeGraph
    NodeRuns = {1}
    Attempts = {1, 2, 3, 4, 5}
    Evidence = {"human"}
    Ttl = 1
    ReclaimLimit = 3
    Tasks = {t1, t2}
    Sweeper = sweeper
    Kinds = {"claim"}
    Revisits = FALSE
    LeaseKind = "ttl"
    ProviderEnds = {"success", "yielded", "human", "failed", "timed_out"}
    Deferred = FALSE
    Dispositions = {}
    RunEnds = {"cancelled"}
    Crashers = {}
    Unresolvable = {r2}
    Prompt = TRUE
    Overlap = FALSE
    CrashPlaces = {"backed"}
INVARIANTS
    ConsumerTypeOK
PROPERTIES
    ResumesElapsedPauses
    NoRunStrands
\* Work ends and the pools of ids run out.
CHECK_DEADLOCK FALSE
