\* One client across a lost connection, a reconnect and shutdown, on a queue of
\* one, so that every second event overflows, also within one callback.
SPECIFICATION EventsFairSpec
CONSTANTS
    Reconnectors = {r1}
    Capturers = {}
    Objects = {m1}
    MetadataObjects = {m1}
    Parameters = {}
    MaxVersion = 1
    MaxRest = 1
    Capacity = 1
    MaxConnections = 2
    MaxSequence = 3
INVARIANTS
    EventsTypeOK
    BufferIsGapless
    CaughtUpIsCurrent
    ReaderIsWoken
    PositionDeterminesState
PROPERTIES
    StopReleasesReader
CHECK_DEADLOCK FALSE
