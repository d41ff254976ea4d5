CONSTANTS
    t1 = t1
    t2 = t2
    Threads = {t1, t2}
    NumTiles = 3
    DesiredSamples = 2
    MaxTilesPerGroup = 4
    Settings <- MCBatchShare
    SamplesPerTile <- MCSamplesPerTile
    mLastCoarsePassIdx <- MCLastCoarse
    MaxFrames = 1
SPECIFICATION Spec
INVARIANTS
    CompleteIsEverySample
CHECK_DEADLOCK FALSE
