SPECIFICATION Spec
CONSTANTS
    p1 = p1
    p2 = p2
    p3 = p3
    m1 = m1
    m2 = m2
    Processes = {p1, p2, p3}
    w1 = w1
    w2 = w2
    Models = {m1, m2}
    Passphrases = {w1, w2}
    NShards = 2
    MaxAdds = 3
    MaxDamage = 1
    EmptyRoot = "no leaves"
    MaxSalts = 2
SYMMETRY MCSymmetry
INVARIANTS
    ReadableUnlessInitRaced
    VerifyTellsReadable
PROPERTIES
    ReplacedOnlyByOverlap
CHECK_DEADLOCK FALSE
