SPECIFICATION FairSpec

CONSTANTS
    w1 = w1
    Workers = {w1}
    NoWorker = NoWorker
    NumTasks = 2
    Commands = {}
    Strategy = "single"
    MaxConcurrent = 1
    MaxStuckRetries = 2
    NumRows = 2
    StableIds = TRUE
    Punctual = TRUE
    Cancellable = {}
    MaxCrashes = 0
    MaxFaults = 1
    ChatOf <- OneChat

PROPERTIES
    EveryTaskFinishes
