CONSTANTS
    w1 = w1
    w2 = w2
    f1 = f1
    f2 = f2
    Workers = {w1, w2}
    Tokens = {"old-token", "new-token", "development-token", "unknown-token", "no bearer token"}
    Configured <- MCConfigured
    Development = TRUE
    Names = {f1, f2}
    MaxListed = 2
    MaxUploads = 2
    MaxKeys = 3
    MaxMasters = 2
    RequireAttestation = TRUE
    EmptyRoot = "no leaves"

SPECIFICATION Spec

SYMMETRY MCSymmetry

INVARIANTS
    OneSigner
    ReturnedReadable
    OrphansOnlyByFailure
PROPERTIES
    RootTracksReceipts

CHECK_DEADLOCK FALSE
