\* A client next to a thread that captures snapshots of its own, within one
\* connection: a history of events of an object and of a parameter on a queue
\* of two, so that overflow, values that could not be copied, failed captures
\* and recovery all happen.
SPECIFICATION EventsSpec
CONSTANTS
    Reconnectors = {}
    Capturers = {k1}
    Objects = {o1, p1}
    MetadataObjects = {}
    Parameters = {p1}
    MaxVersion = 2
    MaxRest = 1
    Capacity = 2
    MaxConnections = 1
    MaxSequence = 5
INVARIANTS
    PositionDeterminesState
CHECK_DEADLOCK FALSE
