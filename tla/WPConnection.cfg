\* One thread that reconnects, one that stops; three connections, so that a
\* connection can be lost before, during and after an object manager installs.
SPECIFICATION FairSpec
CONSTANTS
    Reconnectors = {r1}
    MaxConnections = 3
    MaxSequence = 2
INVARIANTS
    TypeOK
    ReadyHasGeneration
PROPERTIES
    OneGenerationPerConnection
    ReconnectIsNew
    StopReturns
    ReconnectReturnsOrStop
CHECK_DEADLOCK FALSE
