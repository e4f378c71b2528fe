SPECIFICATION Spec
CONSTANTS
    LastBlock = 8
    Size <- SparseAndDense
    HighBytes = 8
    LowBytes = 4
    SegmentBytes = 4
    Targets = {4}
    CachedTo = 0
    MaxTrouble = 0
PROPERTY
    NotHeldForEver
CHECK_DEADLOCK FALSE
