CONSTANTS
    Epochs = 4
    Batches = 4
    Accum = 2
    SaveEvery = 5
    Freq = 2
    MaxLoss = 2
    MaxRuns = 3
    FEpochs = 2
    FEntries = 4
    FBatchSize = 2
    FInitial = 3
    FInterval = 2
    FMaxRuns = 3
SPECIFICATION MCSpec
CHECK_DEADLOCK FALSE
INVARIANTS
    SkippedBounded
    SavedFinite
    WeightsNearPosition
    EveryEntryTrained
PROPERTIES
    ProgramCompletes
