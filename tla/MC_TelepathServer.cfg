SPECIFICATION Spec
CONSTANTS
    p1 = p1
    p2 = p2
    m1 = m1
    NoSession = NoSession
    Peers = {p1, p2}
    Models = {m1}
    Vault = {m1}
    UsesAcl = TRUE
    MaxSids = 3
    n1 = n1
    n2 = n2
    n3 = n3
    Keys = {n1, n2, n3}
    InitialRules <- FirstRules
    MaxBudget = 2
    MaxTtl = 2
    Budgets = {2}
    Ttls = {1, 2, 3}
    Offsets = {1}
    MaxSessions = 2
    MaxUpsets = 1
    MaxSkew = 1
    NonceTtl = 2
    MaxEntries = 2
    MaxClock = 3
SYMMETRY NonceSymmetry
INVARIANTS
    BudgetKept
PROPERTIES
    ChargedAgainOnlyAtWindowEnd
    ServiceJustified
    SessionsEndProperly
CHECK_DEADLOCK FALSE
