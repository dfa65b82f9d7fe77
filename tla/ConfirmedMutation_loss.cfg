\* One control of every kind against loss, reconnect, shutdown and other
\* events, over two connections.  Nothing is explored after it has returned.
SPECIFICATION ControlSpec
CONSTANTS
    Reconnectors = {r1}
    Callers = {c1}
    MaxConnections = 2
    MaxSequence = 2
    Targets <- MCFewTargets
INVARIANTS
    OutcomeTellsExecution
    GuardedWriteIsFresh
CONSTRAINT
    SomeControlLeft
CHECK_DEADLOCK FALSE
