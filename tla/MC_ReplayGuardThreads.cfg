\* Two handlers that overlap, with a TTL that is longer than any window.
SPECIFICATION Spec
CONSTANTS
    k1 = k1
    k2 = k2
    k3 = k3
    h1 = h1
    h2 = h2
    NoRequest = NoRequest
    Keys = {k1, k2, k3}
    Stamps = {2}
    Handlers = {h1, h2}
    MaxSkew = 1
    NonceTtl = 4
    MaxEntries = 2
    MaxLag = 1
    MaxClock = 4
    MaxBoots = 0
SYMMETRY Symmetry
INVARIANTS
    AcceptedAtMostOnce
