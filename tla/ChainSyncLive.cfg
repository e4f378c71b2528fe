SPECIFICATION FairSpec
CONSTANTS
    Sapling = Sapling
    Ironwood = Ironwood
    Pools <- TwoPools
    Outputs <- AllOrOdd
    Owned <- OneNote
    OwnedHeight = 2
    Activation = 1
    Birthday = 1
    PruningDepth = 5
    SearchDepth = 3
    Top = 4
    FirstFork = 2
    MaxReorgs = 1
    MaxStops = 1
    MaxRescans = 0
    MaxRepairs = 1
    MidBatch = FALSE
PROPERTIES
    CatchesUp
    ImplementsScanLog
CHECK_DEADLOCK FALSE
