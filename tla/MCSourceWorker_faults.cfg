CONSTANTS
    Stream <- MCShort
    Bad = {3}
    BatchSize = 2
    MaxDocs = 4
    FlushEvery = 2
    UpdateEvery = 3
    ExactOn = TRUE
    SimOn = TRUE
    K = 1
    SaveEvery = 2
    CanStop = TRUE
    CanRefuse = TRUE
    CanFail = TRUE
    MaxRuns = 2
SPECIFICATION FairSpec
CHECK_DEADLOCK FALSE
PROPERTIES
    Terminates
