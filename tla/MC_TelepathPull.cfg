CONSTANTS
    Nodes = {n1, n2}
    Pulls = {p1, p2}
    NShards = 3
    MaxPulls = 3
    MaxVersion = 2
    SizeOf <- MCSizeOf
    MaxCached = 2
    MaxBytes = 3

SPECIFICATION PullSpec

SYMMETRY MCSymmetry

INVARIANTS
    TargetSound
    CacheKeepsBounds
    MismatchOnlyAfterRepublish
CHECK_DEADLOCK FALSE
