CONSTANTS
    c1 = c1
    c2 = c2
    c3 = c3
    Callers <- TwoCallers
    Ops = {"start", "endpoint"}
    MaxCalls = 3
SPECIFICATION Spec
INVARIANTS
    TaskRegistered
CHECK_DEADLOCK FALSE
