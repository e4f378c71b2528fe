CONSTANTS
    c1 = c1
    c2 = c2
    c3 = c3
    Callers <- TwoCallers
    Ops = {"start", "stop", "switch", "rescan", "import", "background", "restart", "endpoint", "clear", "passphrase", "storage"}
    MaxCalls = 3
SPECIFICATION FairSpec
PROPERTIES
    CallsReturn
CHECK_DEADLOCK FALSE
