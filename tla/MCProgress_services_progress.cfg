SPECIFICATION ProgressSpec

CONSTANTS
    c1 = c1
    c2 = c2
    Clients = {c1, c2}
    NoClient = NoClient
    MaxThreads = 4
    MinConn = 1
    MaxConn = 2
    MaxRetries = 1
    NumStatements = 2
    MaxCalls = 2
    MaxFaults = 1
    g1 = g1
    p1 = p1
    t1 = t1
    i1 = i1
    NoProc = NoProc

INVARIANTS
    TransactionsAreLeased

PROPERTIES
    CallsSpec
    EveryCallEnds
    FirstSessionArrives
    CatchesUp
    Drains
    StartupEnds
    FinalEnds

CHECK_DEADLOCK FALSE
