CONSTANTS
    Records = 3
    Chunk = 2
    MaxAttempts = 2
    MaxRuns = 3
    Sources = {s1, s2}
    Raws = {r1, r2}
    Natures <- MCNatures
    Settings <- MCSettings
    ShardDocs = 2
    MaxDocs = 3
    MaxProcesses = 2
    MaxExports = 2
SYMMETRY RawsAlike
SPECIFICATION MCSpec
INVARIANTS
    LossExplained
    ExportExplained
CHECK_DEADLOCK FALSE
