SPECIFICATION Spec
CONSTANTS
    LastBlock = 7
    Size <- OneOversized
    HighBytes = 12
    LowBytes = 6
    SegmentBytes = 6
    Targets = {3, 6}
    CachedTo = 2
    MaxTrouble = 1
INVARIANTS
    InOrder
    MemoryBounded
PROPERTY
    Drains
CHECK_DEADLOCK FALSE
