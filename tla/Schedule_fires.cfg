\* Two tickers, or one and two callers of one token; one of them may die.
SPECIFICATION Spec
CONSTANTS
    k1 = k1
    k2 = k2
    m1 = m1
    m2 = m2
    a = a
    Tickers = {k1, k2}
    Callers = {m1, m2}
    Tokens = {a}
    Crews <- TickerAndCallers
    MaxOcc = 2
    MaxRuns = 2
    Definitions <- FourDefinitions
    CrashLimit = 1
SYMMETRY Symmetry
INVARIANTS
    ScheduleTypeOK
    NoOccurrenceIsLost
    CountedOnce
    ManualRunsAreCounted
\* A Schedule that is spent stops.
CHECK_DEADLOCK FALSE
