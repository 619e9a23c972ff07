SPECIFICATION ProgressSpec

CONSTANTS
    w1 = w1
    w2 = w2
    Workers = {w1}
    NoWorker = NoWorker
    NumTasks = 2
    ChatOf <- OneChat
    Commands = {2}
    Strategy = "single"
    MaxConcurrent = 1
    MaxStuckRetries = 2
    NumRows = 4
    StableIds = TRUE
    Punctual = TRUE
    Cancellable = {}
    MaxCrashes = 2
    MaxFaults = 2

INVARIANTS
    TypeOK
    SlotAccounting

PROPERTIES
    QueueSpec
    FailedIsFinal
    TasksFinishUnlessFaulty
    PoolTasksFinish
