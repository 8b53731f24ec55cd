\* The clocks of two workers, or their turns at the store, may disagree.
SPECIFICATION Spec
CONSTANTS
    w1 = w1
    w2 = w2
    c1 = c1
    c2 = c2
    l1 = l1
    Ids = {1, 2, 3}
    Workers = {w1, w2}
    Calls = {c1, c2}
    Lookers = {l1}
    WorkerOf <- Home
    RevLimit = 3
    LiveStale = FALSE
PROPERTIES
    CompletedEffectIsReplayed
\* The pool of ids runs out.
CHECK_DEADLOCK FALSE
