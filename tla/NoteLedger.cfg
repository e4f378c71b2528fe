SPECIFICATION LedgerSpec
CONSTANTS
    First = First
    Change = Change
    Receive = Receive
    Pay = Pay
    Sweep = Sweep
    Notes <- TwoNotes
    Txs <- ThreeTxs
    Creates <- Outs
    Spends <- Ins
    Own = {Sweep}
    Lifetime = 1
    ChainTop = 4
    MaxBatch = 2
    MaxReorgs = 1
    MaxRuns = 2
    MaxRepairs = 1
    MaxFaults = 1
    MaxEvents = 4
    SearchTop = 10
    ReorgDepth = 8
    SearchFloor = 1
    MaxForks = 1
INVARIANTS
    SpendsSeen
    NoOrphanLock
    AncestorBracketed
    ProbesLogarithmic
PROPERTY
    ConfirmedSpendKept
CHECK_DEADLOCK FALSE
