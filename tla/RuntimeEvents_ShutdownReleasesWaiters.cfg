SPECIFICATION EventsFairSpec
CONSTANTS
    Reconnectors = {r1}
    Capturers = {}
    Objects = {o1}
    MetadataObjects = {}
    Parameters = {}
    MaxVersion = 1
    MaxRest = 0
    Capacity = 1
    MaxConnections = 2
    MaxSequence = 2
PROPERTIES
    ShutdownReleasesWaiters
CHECK_DEADLOCK FALSE
