SPECIFICATION Spec
CONSTANTS
    Sapling = Sapling
    Ironwood = Ironwood
    Pools <- TwoPools
    Outputs <- AllOrOdd
    Owned <- OneNote
    OwnedHeight = 2
    Activation = 1
    Birthday = 2
    PruningDepth = 1
    SearchDepth = 3
    Top = 4
    FirstFork = 2
    MaxReorgs = 0
    MaxStops = 1
    MaxRescans = 0
    MaxRepairs = 0
    MidBatch = TRUE
INVARIANT
    BatchAtomic
CHECK_DEADLOCK FALSE
