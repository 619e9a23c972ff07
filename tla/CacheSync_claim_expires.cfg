SPECIFICATION CacheFairSpec

CONSTANTS
    p1 = p1
    t1 = t1
    i1 = i1
    Procs = {p1}
    NoProc = NoProc
    Tables = {t1}
    Ids = {i1}
    FullEvery = 2
    AwaitReady = TRUE
    MaxWrites = 2
    MaxLosses = 0

PROPERTIES
    OwnerKeepsUp

CHECK_DEADLOCK FALSE
