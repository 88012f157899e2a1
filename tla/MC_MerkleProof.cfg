SPECIFICATION ProofSpec
CONSTANTS
    EmptyRoot = EmptyRoot
    Values = {x, y}
    MaxLeaves = 7
INVARIANTS
    ProofSound
    RootFixesLeaves
CHECK_DEADLOCK FALSE
