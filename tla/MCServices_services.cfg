SPECIFICATION SafetySpec

CONSTANTS
    g1 = g1
    Gateways = {g1}
    NumKeys = 2
    MaxSaves = 3
    MaxFaults = 1
    MaxStops = 1
    NumRequests = 2
    MaxEvents = 2
    QueueSize = 2
    BatchSize = 2
    MaxFlushErrors = 1
    Ops = {plain, question}
    Questions = {question}
    NumChunks = 2
    MaxEdits = 0
    MaxKills = 1
    MaxRefusals = 2
    MaxRuns = 2
    MaxMishaps = 2
    NumMessages = 3
    MaxSizes = {1, 2}
    TrimTo = 1
    MaxSends = 2
    MaxBreaks = 1
    NumTurns = 2
    MaxChunks = 2
    MaxPieces = 2
    MaxHitches = 1
    NumRows = 2
    NumTexts = 2
    Long = {2}
    MaxChanges = 2
    MaxBuilds = 2
    MaxSlips = 1
    Searching = TRUE
    Modes = {"scripts", "indexes", "predefined", "generated", "vector"}
    Templates <- AllScripts
    GivenKinds = {"date", "word"}
    SnapshotContents <- Snapshots
    Indexes = {"a", "b", "c"}
    Declared = {"a", "c"}
    Replies = {"error", "no match", "unsafe", "wrong", "failing", "right"}
    MaxAttempts = 4
    MaxSnapshots = 2
    NumQuestions = 3
    Session <- TwoSessions
    Commands = {}
    Subagents = {p1}
    MaxTools = 2
    MaxFailed = 1
    plain = plain
    question = question
    p1 = p1
    p2 = p2
    t1 = t1
    t2 = t2
    i1 = i1
    NoProc = NoProc

INVARIANTS
    ServicesTypeOK
    RowsAgree
    LogIsSound
    CompletedIsWhole
    StartsAndStopsInOrder
    AnswersOwn
    AnswerHoldsItsTurn
    IndexIsSound
    TurnsKeepApart
    DocumentIsCovered
    ScreensAreFaithful
    FilesAreKept
    HistoryIsRead
    BenchmarkIsFair
    AssemblyIsSound
    AnswersAreSound
    ParametersArrive

PROPERTIES
    UpToDateRowKept
    FinishedStays
    RowStaysIndexed

CHECK_DEADLOCK FALSE
