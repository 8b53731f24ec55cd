\* Two rows of one stream around one of another, a publisher that may die once.
SPECIFICATION FairSpec
CONSTANTS
    s1 = s1
    s2 = s2
    p1 = p1
    MaxRow = 3
    Streams = {s1, s2}
    StreamOf <- TwoStreams
    MaxAttempts = 2
    Limit = 2
    Publishers = {p1}
    Expiring = {1}
    CrashLimit = 1
INVARIANTS
    OutboxTypeOK
    ReadersMissNothing
PROPERTIES
    StreamsKeepOrder
    EveryRowSettles
\* A drained outbox stops.
CHECK_DEADLOCK FALSE
