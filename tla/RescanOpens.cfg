CONSTANTS
    sapling = sapling
    ironwood = ironwood
    Pools <- MCPools
    Birthday = 1
    MinConf = 1
    PerBlockDepth = 1
    MaxTip = 4
    MaxGen = 2
    MaxDisturb = 1
SPECIFICATION Spec
PROPERTIES
    NotSpendableDuringRescan
