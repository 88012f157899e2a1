SPECIFICATION ServerSpec
CONSTANTS
    t1 = t1
    t2 = t2
    tool = tool
    server = server
    admin = admin
    cli = cli
    m1 = m1
    alice = alice
    bob = bob
    n1 = n1
    n2 = n2
    Star = Star
    NoFile = NoFile
    Blank = Blank
    Garbled = Garbled
    NoRequest = NoRequest
    Server = server
    Threads = {t1, t2}
    Tool = tool
    Emitters = {t1, t2, tool}
    Connections = {server, cli}
    ConnOf <- Connected
    Procs = {server, admin}
    Admins = {admin}
    Models = {m1}
    Senders = {alice, bob}
    Nonces = {n1, n2}
    SenderOf <- Signers
    Rules <- SomeRules
    Requests <- SomeRequests
    MaxRows = 2
    MaxInodes = 2
    MaxChanges = 1
    MaxEntries = 2
    MaxBoots = 2
INVARIANTS
    FileKeepsChanges
    OneWriter
    ForkOnlyByOverlap
    ReleasedReceipted
    ReleasedOnce
    ReleasedAllowed
CHECK_DEADLOCK FALSE
