SPECIFICATION Spec
CONSTANTS
    Old = Old
    New = New
    Wallets = {Old, New}
    Birthday <- BirthdayOf
    Tip = 3
    BatchBlocks = 2
    LegacyHeights <- Legacy
    MaxReorgs = 1
    MaxTrouble = 1
INVARIANTS
    CoverageBacked
    ScannedLinked
PROPERTY
    Converges
CHECK_DEADLOCK FALSE
