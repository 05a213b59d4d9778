CONSTANTS
    Absent = Absent
    Sizes = {250, 400}
    MaxBytes = 800
    MaxRecords = 2
    ReuseRunIds = TRUE
    CanFail = TRUE
    MaxRuns = 1
    MaxIdx = 2
    MaxDocs = 5
SPECIFICATION Spec
CHECK_DEADLOCK FALSE
INVARIANTS
    ShardsBounded
    WellFormed
