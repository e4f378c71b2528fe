SPECIFICATION ClientSpec
CONSTANTS
    Primary = Primary
    Mirror = Mirror
    Sources = {Primary, Mirror}
    RangeEnd = 7
    StripeBlocks = 2
    StableEnd = 6
    Permits = 1
    SegmentBlocks = 2
    MaxAttempts = 3
    SourceFailures = 2
    ForkAt = 3
    MaxSwitches = 1
    q1 = q1
    q2 = q2
    NoRequest = NoRequest
    Clients = {q1}
    Fetchers = {q2}
    Modes = {"Tor", "Direct"}
    MaxGeneration = 2
    MaxManagers = 2
    MaxBridges = 1
INVARIANTS
    DeliveredLinked
    StripesCovered
    StreamsOnSelection
PROPERTY
    Settles
CHECK_DEADLOCK FALSE
