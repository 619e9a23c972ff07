SPECIFICATION ProcessesSpec

CONSTANTS
    w1 = w1
    w2 = w2
    w3 = w3
    Workers = {w1, w2, w3}
    NoWorker = NoWorker
    NumTasks = 3
    ChatOf <- OneChat
    Commands = {3}
    Strategy = "worker_pool"
    MaxConcurrent = 1
    MaxStuckRetries = 2
    NumRows = 5
    StableIds = FALSE
    Punctual = TRUE
    Cancellable = {}
    MaxCrashes = 2
    MaxFaults = 0
    p1 = p1
    p2 = p2
    t1 = t1
    t2 = t2
    i1 = i1
    Procs = {p1, p2}
    NoProc = NoProc
    Tables = {t1, t2}
    Ids = {i1}
    FullEvery = 2
    AwaitReady = FALSE
    MaxWrites = 2
    MaxLosses = 1

INVARIANTS
    WorkIsExclusive
    AnswersAreKept
    WorkHasClaim
    FailedUsedUpRetries
    OneTurnPerWorkerChat
    CacheIsSound
