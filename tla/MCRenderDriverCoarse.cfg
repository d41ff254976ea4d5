CONSTANTS
    t1 = t1
    t2 = t2
    Threads = {t1, t2}
    NumTiles = 2
    DesiredSamples = 2
    MaxTilesPerGroup = 4
    Settings <- MCProgressive
    SamplesPerTile <- MCSamplesCoarse
    mLastCoarsePassIdx <- MCLastCoarse2
    MaxFrames = 1
SPECIFICATION Spec
INVARIANTS
    CoarseIsEveryPixel
CHECK_DEADLOCK FALSE
