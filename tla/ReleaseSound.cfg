SPECIFICATION Spec
CONSTANTS
    First = First
    Change = Change
    Receive = Receive
    Pay = Pay
    Sweep = Sweep
    Notes <- TwoNotes
    Txs <- ThreeTxs
    Creates <- Outs
    Spends <- Ins
    Own = {Pay, Sweep}
    Lifetime = 1
    ChainTop = 5
    MaxBatch = 2
    MaxReorgs = 0
    MaxRuns = 2
    MaxRepairs = 0
    MaxFaults = 0
INVARIANT
    ReleaseSound
CHECK_DEADLOCK FALSE
