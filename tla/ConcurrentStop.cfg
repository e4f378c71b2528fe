CONSTANTS
    c1 = c1
    c2 = c2
    c3 = c3
    Callers <- ThreeCallers
    Ops = {"start", "stop", "restart"}
    MaxCalls = 3
SPECIFICATION Spec
INVARIANTS
    ConcurrentStopWins
CHECK_DEADLOCK FALSE
