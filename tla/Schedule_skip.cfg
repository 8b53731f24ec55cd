\* One ticker whose tick comes late: of the occurrences it finds due, it runs
\* the first and skips the next, which runs when it comes due again.
SPECIFICATION Spec
CONSTANTS
    k1 = k1
    k2 = k2
    m1 = m1
    m2 = m2
    a = a
    Tickers = {k1}
    Callers = {}
    Tokens = {}
    Crews <- AllTickers
    MaxOcc = 3
    MaxRuns = 0
    Definitions <- TheDefault
    CrashLimit = 0
PROPERTIES
    SkippedStaysDropped
CHECK_DEADLOCK FALSE
