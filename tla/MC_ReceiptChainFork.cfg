\* Two threads of the vault server emit at once.
SPECIFICATION Spec
CONSTANTS
    t1 = t1
    t2 = t2
    server = server
    Emitters = {t1, t2}
    Connections = {server}
    ConnOf <- TwoThreads
    MaxRows = 3
INVARIANTS
    ChainVerifies
CHECK_DEADLOCK FALSE
