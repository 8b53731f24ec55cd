\* Two workers share the store; either may die anywhere.
SPECIFICATION Spec
CONSTANTS
    w1 = w1
    w2 = w2
    c1 = c1
    c2 = c2
    l1 = l1
    Ids = {1, 2, 3}
    Workers = {w1, w2}
    Calls = {c1, c2}
    Lookers = {l1}
    WorkerOf <- Home
    RevLimit = 3
    LiveStale = FALSE
INVARIANTS
    InvocationTypeOK
    EffectAppliedOnce
    OutcomeIsTrue
PROPERTIES
    OutcomeIsFinal
    InvokesOnce
\* The pool of ids runs out.
CHECK_DEADLOCK FALSE
