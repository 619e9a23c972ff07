SPECIFICATION Spec

CONSTANTS
    w1 = w1
    w2 = w2
    Workers = {w1, w2}
    NoWorker = NoWorker
    NumTasks = 1
    Commands = {}
    Strategy = "worker_pool"
    MaxConcurrent = 1
    MaxStuckRetries = 2
    NumRows = 2
    StableIds = FALSE
    Punctual = TRUE
    Cancellable = {}
    MaxCrashes = 0
    MaxFaults = 0
    ChatOf <- OneChat

SYMMETRY WorkerSymmetry

INVARIANTS
    AnsweredOnce
