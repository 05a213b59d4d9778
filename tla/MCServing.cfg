CONSTANTS
    Limit = 2
    Second = 2
    Window = 4
    Threads = {t1, t2}
    MaxTime = 6
    Clients = {c1}
    QueueMax = 2
    HistoryMax = 3
    Replayed = 2
    MaxLines = 3
    MaxEvents = 5
    Requests = {r1, r2}
    Versions = 2
SPECIFICATION MCSpec
INVARIANTS
    WindowBound
    RetryAfterHonoured
    StreamExplained
    OverlapOnlyAbandoned
PROPERTIES
    RefusedOnlyIfStale
    EveryRequestEnds
CHECK_DEADLOCK FALSE
