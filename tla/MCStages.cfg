CONSTANTS
    RawFiles = 2
    Sizes = {1, 2}
    MaxRuns = 4
SPECIFICATION FairSpec
CHECK_DEADLOCK FALSE
INVARIANTS
    RepeatsExplained
    CleanedOnce
    PairMatches

    
