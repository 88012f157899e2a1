SPECIFICATION Spec
CONSTANTS
    Addresses = {a1, a2}
    Lives = 2
    Broadcasts = {b1}
    Timeout = 1
    MaxSkew = 3
    MaxOffset = 4
    Offsets <- MCOffsets
INVARIANTS
    BroadcastReach
    RefusedOnlyLate
PROPERTIES
    BroadcastEnds
CHECK_DEADLOCK FALSE
