SPECIFICATION Spec
CONSTANTS
    Docs <- MCDocs
    K = 1
    Bands = 2
    Rows = 2
    Alike = 3
    ExactOn = TRUE
    SimOn = TRUE
    MinhashOn = TRUE
    SaveEvery = 2
    CanFail = FALSE
    MaxRuns = 3
    MaxSeen = 4
INVARIANTS KeptApart IndexJustified KeptDissimilar
CHECK_DEADLOCK FALSE
