CONSTANTS
    Stream <- MCStream
    Bad = {3}
    BatchSize = 2
    MaxDocs = 0
    FlushEvery = 2
    UpdateEvery = 7
    ExactOn = TRUE
    SimOn = TRUE
    K = 1
    SaveEvery = 5
    CanStop = FALSE
    CanRefuse = FALSE
    CanFail = FALSE
    MaxRuns = 3
SPECIFICATION Spec
CHECK_DEADLOCK FALSE
INVARIANTS
    Coverage
    LossBounded
    ReworkBounded
    TwiceOnlyIfForgotten
    ExactlyOnce
