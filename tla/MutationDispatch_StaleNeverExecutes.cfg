SPECIFICATION DispatchSpec
CONSTANTS
    Reconnectors = {r1}
    Callers = {c1}
    MaxConnections = 2
    MaxSequence = 1
INVARIANTS
    StaleNeverExecutes
CHECK_DEADLOCK FALSE
