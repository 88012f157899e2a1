CONSTANTS
    c1 = c1
    c2 = c2
    none = none
    r1 = r1
    r2 = r2
    k1 = k1
    e1 = e1
    Handlers = {h1, h2, h3}
    Submissions <- MCSubmissions
    Claims = {c1, c2, none}
    NoClaim = none
    Criteria = {1, 2}
    Reviewers = {r1, r2}
    Registered = {r1}
    Checks = {k1}
    Evidence = {e1}
    Amounts <- MCAmounts
    MaxRequests = 4

SPECIFICATION Spec

SYMMETRY MCSymmetry

INVARIANTS
    IssuedOnce
    EventsMatch
    RefusalsJustified
    CertifiedAsDecided

PROPERTY
    ImplementsLedger

CHECK_DEADLOCK FALSE
