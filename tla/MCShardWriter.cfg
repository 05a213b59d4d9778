CONSTANTS
    Absent = Absent
    Sizes = {250, 400}
    MaxBytes = 700
    MaxRecords = 3
    ReuseRunIds = FALSE
    CanFail = TRUE
    MaxRuns = 2
    MaxIdx = 3
    MaxDocs = 4
SPECIFICATION Spec
CHECK_DEADLOCK FALSE
INVARIANTS
    SidecarsTrue
PROPERTIES
    CompletedStable
    ImplementsLog
