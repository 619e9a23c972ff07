SPECIFICATION PollingSpec

CONSTANTS
    w1 = w1
    Workers = {w1}
    NoWorker = NoWorker
    NumTasks = 2
    Commands = {2}
    Strategy = "worker_pool"
    MaxConcurrent = 1
    MaxStuckRetries = 2
    NumRows = 2
    StableIds = FALSE
    Punctual = TRUE
    Cancellable = {}
    MaxCrashes = 0
    MaxFaults = 0
    ChatOf <- OneChat

PROPERTIES
    CommandIsTaken
