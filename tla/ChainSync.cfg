SPECIFICATION Spec
CONSTANTS
    Sapling = Sapling
    Ironwood = Ironwood
    Pools <- TwoPools
    Outputs <- AllOrOdd
    Owned <- OneNote
    OwnedHeight = 3
    Activation = 1
    Birthday = 2
    PruningDepth = 1
    SearchDepth = 3
    Top = 4
    FirstFork = 2
    MaxReorgs = 1
    MaxStops = 1
    MaxRescans = 1
    MaxRepairs = 1
    MidBatch = TRUE
INVARIANTS
    TreesOnChain
    ResumeSound
    CacheCoherent
    CursorBacked
CHECK_DEADLOCK FALSE
