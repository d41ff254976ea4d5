CONSTANTS
    t1 = t1
    t2 = t2
    Threads = {t1, t2}
    NumTiles = 3
    DesiredSamples = 2
    MaxTilesPerGroup = 4
    Settings <- MCSettings
    SamplesPerTile <- MCSamplesPerTile
    mLastCoarsePassIdx <- MCLastCoarse
    MaxFrames = 2
SPECIFICATION FairSpec
INVARIANTS
    TypeOK
    ClampHolds
PROPERTIES
    FrameEnds
    ImplementsFrame
CHECK_DEADLOCK FALSE
