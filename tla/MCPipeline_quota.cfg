CONSTANTS
    wikipedia = wikipedia
    arxiv = arxiv
    gutenberg = gutenberg
    github = github
    rejected = rejected
    Part = "quota"
    Order <- MCOrder
    MaxConcurrent = 2
    CanStop = TRUE
    CanFail = TRUE
    Writers <- MCWriters
    MaxBytes <- MCMaxBytes
    DiskSizes <- MCDiskSizes
    GlobalMax = 5
    SafetyMargin = 1
    AssumedFree = 4
    MaxRecord = 2
    CanRestart = TRUE
    MaxTotal = 8
    Absent = Absent
    Torn = Torn
    ReuseRunIds = FALSE
    CanForce = TRUE
    MaxRuns = 3
    MaxStarts = 3
    MaxOffset = 2
SPECIFICATION MCSpec
INVARIANTS
    OvershootBounded
    AccountingAgrees
    GlobalPauseJustified
