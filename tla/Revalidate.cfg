CONSTANTS
    sapling = sapling
    ironwood = ironwood
    Pools <- MCPools
    Birthday = 1
    MinConf = 1
    PerBlockDepth = 1
    MaxTip = 2
    MaxGen = 1
    MaxDisturb = 1
SPECIFICATION FairSpec
PROPERTIES
    RevalidatesAtTip
