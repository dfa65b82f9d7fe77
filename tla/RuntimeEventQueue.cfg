\* Two readers, with and without a timeout, on a queue of two: overflow, gaps,
\* a foreign generation, a producer that asks for a snapshot, resets to any
\* position, close.  No symmetry, because of the liveness properties.
SPECIFICATION FairSpec
CONSTANTS
    Consumers = {c1, c2}
    Capacity = 2
    Generations = {1, 2}
    SequenceNumbers = {0, 1, 2, 3}
INVARIANTS
    TypeOK
    QueueShape
    NoLostWakeup
PROPERTIES
    StreamSpec
    CloseReleases
    LossReleases
    Drains
