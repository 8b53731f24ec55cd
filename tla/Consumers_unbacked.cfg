\* The same consumers when one may die between its claim of a Run and its Attempt.
SPECIFICATION FairConsumerSpec
CONSTANTS
    r1 = r1
    r2 = r2
    x = x
    t1 = t1
    t2 = t2
    Runs = {r1}
    Nodes = {x}
    GraphOf <- WholeGraph
    NodeRuns = {1}
    Attempts = {1, 2, 3}
    Evidence = {"human"}
    Ttl = 1
    ReclaimLimit = 3
    Tasks = {t1, t2}
    Sweeper = sweeper
    Kinds = {"claim"}
    Revisits = FALSE
    LeaseKind = "ttl"
    ProviderEnds = {"success", "yielded"}
    Deferred = FALSE
    Dispositions = {}
    RunEnds = {}
    Crashers = {}
    Unresolvable = {}
    Prompt = TRUE
    Overlap = TRUE
    CrashPlaces = {"unbacked"}
PROPERTIES
    NoRunStrands
\* Work ends and the pools of ids run out.
CHECK_DEADLOCK FALSE
