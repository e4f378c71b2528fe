CONSTANTS
    sapling = sapling
    ironwood = ironwood
    Pools <- MCPools
    Birthday = 1
    MinConf = 1
    PerBlockDepth = 1
    MaxTip = 3
    MaxGen = 2
    MaxDisturb = 2
SPECIFICATION Spec
SYMMETRY PoolSymmetry
INVARIANTS
    TypeOK
    ReplayGate
    KeyHistoryOwed
    SpendNeedsKeyHistory
    StoredSpendableSound
    RescanUninterrupted
    ValidationPlanSound
PROPERTIES
    InterruptionLatched
    ValidationIsEarned
