\* One control of every kind on one connection that may be lost and stopped,
\* with a target that changes while it is polled.
SPECIFICATION ControlFairSpec
CONSTANTS
    Reconnectors = {}
    Callers = {c1}
    MaxConnections = 1
    MaxSequence = 5
    Targets <- MCTargets
INVARIANTS
    ControlTypeOK
    ConfirmedTogether
PROPERTIES
    ControlsReturn
CHECK_DEADLOCK FALSE
