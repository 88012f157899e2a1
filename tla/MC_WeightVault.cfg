SPECIFICATION Spec
CONSTANTS
    p1 = p1
    p2 = p2
    r1 = r1
    r2 = r2
    r3 = r3
    r4 = r4
    Processes = {p1, p2}
    Revisions = {r1, r2, r3, r4}
    License <- MCLicense
    Expected = {"mit", "apache-2.0"}
    Lower <- MCLower
    Sizes = {0, 1, 2}
    ManifestSize = 1
    Foreign <- MCForeign
    Disk = 8
    Quota = 3
    Reserve = 3
    MaxMirrors = 3
SYMMETRY MCSymmetry
INVARIANTS
    SlotsExclusive
    CompleteUnlessCut
PROPERTIES
    SnapshotsWholeAndFixed
    PublishKeepsLimits
    ReportsTrue
CHECK_DEADLOCK FALSE
