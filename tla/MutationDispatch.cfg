\* Two submitters, a thread that reconnects and one that stops, two
\* connections: every race between submission, handler, loss and shutdown.
SPECIFICATION DispatchFairSpec
CONSTANTS
    Reconnectors = {r1}
    Callers = {c1, c2}
    MaxConnections = 2
    MaxSequence = 2
INVARIANTS
    DispatchTypeOK
    NoLostDispatch
    NoOrphanedCaller
    TicketTellsExecution
    ExecutedInOrder
PROPERTIES
    CallersReturn
    LineSpec
CHECK_DEADLOCK FALSE
