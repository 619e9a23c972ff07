----------------------------- MODULE MCServices -----------------------------
(***************************************************************************)
(* The safety of the services beside the channel, the database pool and    *)
(* the cache.  They share no state, so every behaviour chooses one of      *)
(* them, and the others stay as they start.                                *)
(***************************************************************************)
EXTENDS SessionSync, DbLog, Summarizer, Lifecycle, RedisChannel, AnswerRow,
        VectorIndex, AuditAnalyzer, TurnHooks

CONSTANTS plain, question, p1, p2, t1, t2, i1, NoProc

VARIABLES
    active,
    document, stage, chunked, plan, batch, partials, parts, rounds, asks, misses,
    rendering, screen, prompted, done, response, renderer, inbound, answering,
    script, at, alive, outgoing, before, saved, reports, consumed, shown, again,
    crossed, timeouts, compactions,
    now, results, torn, attached, fileMeta, saving, returned, own, target, media, written,
    fileSaves, writes, cuts, together, overwritten,
    passage, chunkSize, overlap, segments, split,
    history, reader, read, first, page, inserts, pages, refused,
    modelFile, made, runDirs, ticks, runner, spoilt, troubles,
    chatRows, nextRow, browser, uploader, staged, picked, tally,
    options, makeStep, context, holding, kept, alarms, ownerRow, server, glitches,
    configFiles, osEnv, settingStage, profileName, mergedConfig, publishedProfile,
    agentKey, attempts,
    original, scanStage, readBlocks, proposals, outlineTree, docTitle, objections,
    skillSections, skillsIn, infraIn, trackedBy

cutting == <<document, stage, chunked, plan, batch, partials, parts, rounds, asks,
    misses>>
terminal == <<rendering, screen, prompted, done, response, renderer, inbound,
    answering, script, at, alive, outgoing, before, saved, reports, consumed, shown,
    again, crossed, timeouts, compactions>>
folder == <<now, results, torn, attached, fileMeta, saving, returned, own, target, media,
    written, fileSaves, writes, cuts, together, overwritten>>
splitting == <<passage, chunkSize, overlap, segments, split>>
paging == <<history, reader, read, first, page, inserts, pages, refused>>
bench == <<modelFile, made, runDirs, ticks, runner, spoilt, troubles>>
web == <<chatRows, nextRow, browser, uploader, staged, picked, tally>>
making == <<options, makeStep, context, holding, kept, alarms, ownerRow, server,
    glitches>>
config == <<configFiles, osEnv, settingStage, profileName, mergedConfig,
    publishedProfile, agentKey, attempts>>
heading == <<original, scanStage, readBlocks, proposals, outlineTree, docTitle,
    objections>>
registration == <<skillSections, skillsIn, infraIn, trackedBy>>
all == <<active, vars, logVars, summarizerVars, gatewayVars, redisVars, answerVars,
         vectorVars, hookVars, cutting, terminal, folder, splitting, paging, bench, web,
         making, config, heading, registration, analyzerVars>>

-----------------------------------------------------------------------------
\* The constants of the modules that are extended: two questions with two events and a
\* queue of two; two operations over one file at a time, one of which asks a question; a
\* gateway that fails twice and enters its channels twice; three messages, a crash, and a
\* map of reply_to with room for one chat or two; an analyzer with every mode over two
\* snapshots.

\* A file that is edited while its operation runs.
Edited == INSTANCE Summarizer WITH
    Ops <- {question}, Questions <- {question}, NumChunks <- 2,
    MaxEdits <- 1, MaxKills <- 2, MaxRefusals <- 2

\* A text and two pieces of reasoning of a turn with a failure; turns with one piece
\* each and none, and without reasoning if their streams share a buffer.
OneAnswer == AnswerNext /\ begun' \subseteq {1}
TwoAnswers == INSTANCE AnswerRow WITH MaxChunks <- 1, MaxPieces <- 1, MaxHitches <- 0
TwoTurns == TwoAnswers!AnswerNext /\ (named \/ \A t \in Turns : chunks'[t] = 0)

\* Two rows of a table are indexed twice; they are indexed once and searched, and the
\* second does not change.
Rebuilt == INSTANCE VectorIndex WITH Searching <- FALSE
OneBuild == INSTANCE VectorIndex WITH MaxChanges <- 1, MaxBuilds <- 1
Searched == OneBuild!VectorsNext /\ texts'[2] = texts[2]

\* Two questions of one session with tools and a failure; three questions of two
\* sessions, one of them a command, with a subagent.
TwoSessions == <<"a", "b", "a">>
OneSession == TurnsNext /\ asked' \subseteq {1, 3} /\ sub' = sub
Others == INSTANCE TurnHooks WITH Commands <- {3}, MaxTools <- 1, MaxFailed <- 0

\* Documents of four blocks: a short text and one longer than a chunk, a table, an
\* article, a paragraph of one, and two headings at one block.
Block(size, heads) == [size |-> size, table |-> FALSE, heads |-> heads]
Article == [rank |-> 1, major |-> TRUE]
Paragraph == [rank |-> 2, major |-> FALSE]
Blocks == {Block(1, <<>>), Block(7, <<>>),
           [size |-> 2, table |-> TRUE, heads |-> <<>>], Block(3, <<Article>>),
           Block(1, <<Paragraph>>), Block(1, <<Paragraph, Paragraph>>)}
Papers == INSTANCE Documents WITH
    chunks <- chunked, next <- batch, calls <- asks, failures <- misses,
    BlockKinds <- Blocks, NumBlocks <- 4, MaxChars <- 5, TargetChars <- 3,
    MaxSections <- 2, BatchTokens <- 6, DirectTokens <- 4, ManySections <- 2,
    GroupSize <- 2, MaxRounds <- 1, MaxFailures <- 1

\* Two questions, one wait that times out, one compaction, and what a turn may send.
Sent == {<<"delta", "end", "final">>, <<"progress", "final">>, <<"plain">>,
         <<"plain", "delta", "end", "final">>, <<>>}
Terminal == INSTANCE Repl WITH
    phase <- screen, asked <- prompted, turn <- answering, bus <- outgoing,
    NumTurns <- 2, Scripts <- Sent, MaxSuffix <- 2, MaxTimeouts <- 1,
    MaxCompactions <- 1

\* Results of tools in a directory for two of them, and the versions of a file.
Results == INSTANCE SessionFiles WITH
    meta <- fileMeta, op <- saving, answer <- returned, sent <- media,
    saves <- fileSaves, kills <- cuts, lost <- overwritten,
    NumContents <- 3, MaxFiles <- 2, MaxAge <- 1, MaxSuffix <- 1, MaxSaves <- 3,
    MaxAttachments <- 1, MaxWrites <- 0, MaxTime <- 2, MaxKills <- 1
Version == INSTANCE SessionFiles WITH
    meta <- fileMeta, op <- saving, answer <- returned, sent <- media,
    saves <- fileSaves, kills <- cuts, lost <- overwritten,
    NumContents <- 3, MaxFiles <- 2, MaxAge <- 1, MaxSuffix <- 1, MaxSaves <- 0,
    MaxAttachments <- 0, MaxWrites <- 4, MaxTime <- 0, MaxKills <- 1

\* Every text of up to seven characters with separators of two ranks.
Segments == INSTANCE TextSplitter WITH
    text <- passage, size <- chunkSize,
    Ranks <- {1, 5}, MaxLength <- 7,
    Sizes <- {<<3, 0>>, <<3, 1>>, <<4, 1>>, <<4, 2>>, <<5, 2>>}

\* Three events and pages of one or two, by count or by length.
History == INSTANCE HistorySearch WITH
    log <- history, seen <- read, failures <- refused,
    MaxTime <- 2, MaxRows <- 2, MaxChars <- 3, MaxInserts <- 3, MaxPages <- 3,
    MaxFailures <- 1

\* One item with every answer; three items with a step that fails; two runners, one
\* of which has its own model.
Step(weight, f, judge) == [weight |-> weight, file |-> f, judge |-> judge, limit |-> 4]
Single(step, cleanup) == [multi |-> FALSE, steps |-> <<step>>, cleanup |-> cleanup]
OneItem == <<Single(Step(1, t1, TRUE), {})>>
ThreeItems ==
    <<Single(Step(1, t1, FALSE), {}),
      [multi |-> TRUE, steps |-> <<Step(2, NoProc, FALSE), Step(1, t1, TRUE)>>,
       cleanup |-> {t2}],
      Single(Step(1, t2, FALSE), {})>>
NoFileItem == <<Single(Step(1, NoProc, FALSE), {})>>
Good(w) == [tools |-> TRUE, skills |-> TRUE, iterations |-> 1, include |-> TRUE,
            exclude |-> TRUE, judge |-> 50, writes |-> w, raises |-> FALSE]
AnyAnswer == [tools : BOOLEAN, skills : BOOLEAN, iterations : {0, 1, 4, 5, 12},
              include : BOOLEAN, exclude : BOOLEAN, judge : {0, 50, 100},
              writes : SUBSET {t1}, raises : {FALSE}]
FewAnswers ==
    UNION {{Good(w), [Good(w) EXCEPT !.raises = TRUE],
            [Good(w) EXCEPT !.iterations = 9, !.exclude = FALSE, !.skills = FALSE]}
           : w \in SUBSET {t1, t2}}
Scored == INSTANCE Benchmark WITH
    config <- modelFile, files <- made, dirs <- runDirs, clock <- ticks,
    faults <- troubles, Runners <- {p1}, Overriding <- {}, Items <- OneItem,
    Files <- {t1}, NoFile <- NoProc, Answers <- <<AnyAnswer>>, OldRuns <- 0,
    KeepRuns <- 1, MaxFaults <- 0
Suite == INSTANCE Benchmark WITH
    config <- modelFile, files <- made, dirs <- runDirs, clock <- ticks,
    faults <- troubles, Runners <- {p1}, Overriding <- {p1}, Items <- ThreeItems,
    Files <- {t1, t2}, NoFile <- NoProc,
    Answers <- <<FewAnswers, FewAnswers, FewAnswers>>, OldRuns <- 0,
    KeepRuns <- 1, MaxFaults <- 1
Runs == INSTANCE Benchmark WITH
    config <- modelFile, files <- made, dirs <- runDirs, clock <- ticks,
    faults <- troubles, Runners <- {p1, p2}, Overriding <- {p1}, Items <- NoFileItem,
    Files <- {t1}, NoFile <- NoProc, Answers <- <<{Good({})}>>, OldRuns <- 2,
    KeepRuns <- 2, MaxFaults <- 2

\* Two questions with a note, a failed attempt and a reload; two with files and an
\* insert that fails.
Page == INSTANCE WebChat WITH
    rows <- chatRows, fresh <- nextRow, page <- browser, widget <- uploader, pending <- staged,
    chosen <- picked, count <- tally,
    Files <- {}, ErrorWindow <- 1, MaxQuestions <- 2, MaxNotices <- 1, MaxErrors <- 1,
    MaxReloads <- 1, MaxBuffered <- 0, MaxFaults <- 0
Uploads == INSTANCE WebChat WITH
    rows <- chatRows, fresh <- nextRow, page <- browser, widget <- uploader, pending <- staged,
    chosen <- picked, count <- tally,
    Files <- {t1, t2}, ErrorWindow <- 0, MaxQuestions <- 2, MaxNotices <- 0,
    MaxErrors <- 0, MaxReloads <- 0, MaxBuffered <- 4, MaxFaults <- 1

\* Two tools of which one reads the cache, and two oddities; one call or two with
\* everything the files may say; two skills with tables of two names.
Assembled == INSTANCE Assembly WITH
    choices <- options, at <- makeStep, parts <- context, held <- holding, left <- kept,
    red <- alarms, row <- ownerRow, answers <- server, troubles <- glitches,
    Tools <- {t1, t2}, Readers <- {t2}, MaxOddities <- 2
Configured == INSTANCE Settings WITH
    files <- configFiles, environment <- osEnv, stage <- settingStage,
    profile <- profileName, merged <- mergedConfig, published <- publishedProfile,
    MaxAttempts <- 2
Skills == INSTANCE Registry WITH
    sections <- skillSections, registered <- skillsIn, infra <- infraIn,
    columns <- trackedBy, Tables <- {t1, t2}, Storage <- i1, MaxEntries <- 2

\* Files of up to three paragraphs, or of two pages and an outline of up to two
\* entries.
Marker(scheme, number) == [scheme |-> scheme, number |-> number]
Prose == Marker("prose", <<>>)
NoText == Marker("nothing", <<>>)
Line(marker, style) == [text |-> marker, table |-> FALSE, style |-> style]
Lines == {Line(Prose, 0), Line(Prose, 3), Line(Prose, -1), Line(Marker("part", <<>>), 9),
          Line(Marker("chapter", <<1>>), 0), Line(Marker("decimal", <<1>>), 0),
          Line(Marker("decimal", <<1, 1>>), 0),
          [text |-> Prose, table |-> TRUE, style |-> 0]}
Sheet(marker, number) == [text |-> marker, tables |-> number]
OutlineEntry(marker, depth, number) == [text |-> marker, depth |-> depth, page |-> number]
OutlineEntries ==
    {OutlineEntry(Prose, 1, 1), OutlineEntry(Marker("article", <<1>>), 2, 1),
     OutlineEntry(Prose, 2, 2), OutlineEntry(Marker("chapter", <<1>>), 1, 2),
     OutlineEntry(Prose, 3, 2), OutlineEntry(Prose, 1, 0)}
UpTo(n, S) == UNION {[1..m -> S] : m \in 0..n}
FilesOf(format, contents, outlines) ==
    {[format |-> format, named |-> FALSE, parts |-> p, outline |-> o] :
        p \in contents, o \in outlines}
Scans ==
    FilesOf("docx", UpTo(3, Lines), {<<>>})
    \cup FilesOf("pdf", {<<Sheet(Prose, 1), Sheet(Marker("article", <<1>>), 0)>>,
                        <<Sheet(Marker("decimal", <<1>>), 0), Sheet(NoText, 1)>>},
                UpTo(2, OutlineEntries))
    \cup FilesOf("PDF", {<<Sheet(Marker("paragraph", <<1>>), 0)>>}, UpTo(1, OutlineEntries))
    \cup FilesOf("txt", {<<Sheet(NoText, 0)>>, <<Sheet(Marker("section", <<1>>), 0)>>}, {<<>>})
Headings == INSTANCE Structure WITH
    file <- original, stage <- scanStage, blocks <- readBlocks, candidates <- proposals,
    tree <- outlineTree, title <- docTitle, issues <- objections, Files <- Scans

\* The scripts of the registry of the analyzer: with a period, a count, a text, a step
\* that occurs twice, a flag, and a limit of its own.  They are run with every
\* parameter; every mode of the analyzer is run with the first.
Param(type, required, default) ==
    [type |-> type, required |-> required, default |-> default, choices |-> {}]
Mark(guard, param) == [guard |-> guard, param |-> param, ilike |-> FALSE]
Script(params, body) == [params |-> params, body |-> body, rows |-> "rows"]
AllScripts ==
    [period |-> Script([from |-> Param("date", TRUE, ""), to |-> Param("date", TRUE, "")],
                       <<Mark("", "from"), Mark("", "to")>>),
     counts |-> Script([min |-> Param("number", FALSE, "")], <<Mark("min", "min")>>),
     search |-> Script([text |-> Param("like", FALSE, ""), limit |-> Param("limit", FALSE, "")],
                       <<[guard |-> "text", param |-> "text", ilike |-> TRUE]>>),
     dynamics |-> Script([step |-> [Param("enum", TRUE, "") EXCEPT !.choices = {"word", "number"}],
                          from |-> Param("date", FALSE, "date")],
                         <<Mark("", "step"), Mark("from", "from"), Mark("", "step")>>),
     flags |-> Script([all |-> Param("boolean", FALSE, "false"),
                       min |-> Param("number", FALSE, "number")],
                      <<Mark("all", "min"), Mark("min", "min")>>),
     exact |-> Script([key |-> Param("exact", TRUE, ""), limit |-> Param("limit", FALSE, "")],
                      <<Mark("", "key"), Mark("", "max_rows")>>)]
Snapshots == [scripts : {{}, {"period"}}, indexes : {{}, {"a"}, {"a", "b"}}]
Scripts == INSTANCE AuditAnalyzer WITH
    Modes <- {"predefined"},
    GivenKinds <- {"", "blank", "word", "date", "number", "zero", "zero text", "true",
                   "false", "list", "empty"},
    SnapshotContents <- {[scripts |-> DOMAIN AllScripts, indexes |-> {}]},
    Indexes <- {}, Declared <- {}, Replies <- {}, MaxAttempts <- 1, MaxSnapshots <- 1

\* The constants of these instances are ones that the components allow.
ASSUME ConstantsAreAllowed ==
    /\ Edited!SummarizerAssumption
    /\ Rebuilt!VectorsAssumption /\ OneBuild!VectorsAssumption
    /\ Scored!ConstantsAssumption /\ Suite!ConstantsAssumption
    /\ Runs!ConstantsAssumption
    /\ Page!ConstantsAssumption /\ Uploads!ConstantsAssumption
    /\ Assembled!ConstantsAssumption /\ Configured!ConstantsAssumption
    /\ Skills!ConstantsAssumption
    /\ RedisAssumption /\ AnswerAssumption /\ TwoAnswers!AnswerAssumption
    /\ AnalyzerAssumption /\ Scripts!AnalyzerAssumption
    /\ TurnsAssumption /\ Others!TurnsAssumption

-----------------------------------------------------------------------------
\* The steps of one service, the others unchanged.
Syncing(A) ==
    /\ active = "sessions" /\ A
    /\ UNCHANGED <<active, logVars, summarizerVars, gatewayVars, redisVars,
                   answerVars, vectorVars, hookVars, cutting, terminal, folder,
                   splitting, paging, bench, web, making, config, heading,
                   registration, analyzerVars>>
Logging(place, A) ==
    /\ active = place /\ A
    /\ UNCHANGED <<active, vars, summarizerVars, gatewayVars, redisVars, answerVars,
                   vectorVars, hookVars, cutting, terminal, folder, splitting, paging,
                   bench, web, making, config, heading, registration, analyzerVars>>
Summary(place, A) ==
    /\ active = place /\ A
    /\ UNCHANGED <<active, vars, logVars, gatewayVars, redisVars, answerVars,
                   vectorVars, hookVars, cutting, terminal, folder, splitting, paging,
                   bench, web, making, config, heading, registration, analyzerVars>>
Gateway(place, A) ==
    /\ active = place /\ A
    /\ UNCHANGED <<active, vars, logVars, summarizerVars, redisVars, answerVars,
                   vectorVars, hookVars, cutting, terminal, folder, splitting, paging,
                   bench, web, making, config, heading, registration, analyzerVars>>
RedisStep(place, A) ==
    /\ active = place /\ A
    /\ UNCHANGED <<active, vars, logVars, summarizerVars, gatewayVars, answerVars,
                   vectorVars, hookVars, cutting, terminal, folder, splitting, paging,
                   bench, web, making, config, heading, registration, analyzerVars>>
Writing(place, A) ==
    /\ active = place /\ A
    /\ UNCHANGED <<active, vars, logVars, summarizerVars, gatewayVars, redisVars,
                   vectorVars, hookVars, cutting, terminal, folder, splitting, paging,
                   bench, web, making, config, heading, registration, analyzerVars>>
Indexing(place, A) ==
    /\ active = place /\ A
    /\ UNCHANGED <<active, vars, logVars, summarizerVars, gatewayVars, redisVars,
                   answerVars, hookVars, cutting, terminal, folder, splitting, paging,
                   bench, web, making, config, heading, registration, analyzerVars>>
Turning(place, A) ==
    /\ active = place /\ A
    /\ UNCHANGED <<active, vars, logVars, summarizerVars, gatewayVars, redisVars,
                   answerVars, vectorVars, cutting, terminal, folder, splitting, paging,
                   bench, web, making, config, heading, registration, analyzerVars>>
Cutting(place, A) ==
    /\ active = place /\ A
    /\ UNCHANGED <<active, vars, logVars, summarizerVars, gatewayVars, redisVars,
                   answerVars, vectorVars, hookVars, terminal, folder, splitting, paging,
                   bench, web, making, config, heading, registration, analyzerVars>>
Typing(place, A) ==
    /\ active = place /\ A
    /\ UNCHANGED <<active, vars, logVars, summarizerVars, gatewayVars, redisVars,
                   answerVars, vectorVars, hookVars, cutting, folder, splitting, paging,
                   bench, web, making, config, heading, registration, analyzerVars>>
Filing(place, A) ==
    /\ active = place /\ A
    /\ UNCHANGED <<active, vars, logVars, summarizerVars, gatewayVars, redisVars,
                   answerVars, vectorVars, hookVars, cutting, terminal, splitting,
                   paging, bench, web, making, config, heading, registration,
                   analyzerVars>>
Splitting(place, A) ==
    /\ active = place /\ A
    /\ UNCHANGED <<active, vars, logVars, summarizerVars, gatewayVars, redisVars,
                   answerVars, vectorVars, hookVars, cutting, terminal, folder, paging,
                   bench, web, making, config, heading, registration, analyzerVars>>
Paging(place, A) ==
    /\ active = place /\ A
    /\ UNCHANGED <<active, vars, logVars, summarizerVars, gatewayVars, redisVars,
                   answerVars, vectorVars, hookVars, cutting, terminal, folder,
                   splitting, bench, web, making, config, heading, registration,
                   analyzerVars>>
Measuring(place, A) ==
    /\ active = place /\ A
    /\ UNCHANGED <<active, vars, logVars, summarizerVars, gatewayVars, redisVars,
                   answerVars, vectorVars, hookVars, cutting, terminal, folder, splitting,
                   paging, web, making, config, heading, registration, analyzerVars>>
Browsing(place, A) ==
    /\ active = place /\ A
    /\ UNCHANGED <<active, vars, logVars, summarizerVars, gatewayVars, redisVars,
                   answerVars, vectorVars, hookVars, cutting, terminal, folder, splitting,
                   paging, bench, making, config, heading, registration, analyzerVars>>
Making(place, A) ==
    /\ active = place /\ A
    /\ UNCHANGED <<active, vars, logVars, summarizerVars, gatewayVars, redisVars,
                   answerVars, vectorVars, hookVars, cutting, terminal, folder, splitting,
                   paging, bench, web, config, heading, registration, analyzerVars>>
Configuring(place, A) ==
    /\ active = place /\ A
    /\ UNCHANGED <<active, vars, logVars, summarizerVars, gatewayVars, redisVars,
                   answerVars, vectorVars, hookVars, cutting, terminal, folder, splitting,
                   paging, bench, web, making, heading, registration, analyzerVars>>
Scanning(place, A) ==
    /\ active = place /\ A
    /\ UNCHANGED <<active, vars, logVars, summarizerVars, gatewayVars, redisVars,
                   answerVars, vectorVars, hookVars, cutting, terminal, folder, splitting,
                   paging, bench, web, making, config, registration, analyzerVars>>
Registering(place, A) ==
    /\ active = place /\ A
    /\ UNCHANGED <<active, vars, logVars, summarizerVars, gatewayVars, redisVars,
                   answerVars, vectorVars, hookVars, cutting, terminal, folder, splitting,
                   paging, bench, web, making, config, heading, analyzerVars>>
Inquiring(place, A) ==
    /\ active = place /\ A
    /\ UNCHANGED <<active, vars, logVars, summarizerVars, gatewayVars, redisVars,
                   answerVars, vectorVars, hookVars, cutting, terminal, folder, splitting,
                   paging, bench, web, making, config, heading, registration>>

ServicesInit ==
    /\ Init /\ LogInit /\ LifecycleInit
    /\ active # "gateway" => policy = "warn" /\ ~reuse
    /\ IF active = "edited" THEN Edited!SummarizerInit ELSE SummarizerInit
    /\ RedisInit
    /\ active # "redis" => ~mixed /\ ~patient /\ maxSize = 1
    /\ AnswerInit
    /\ active # "answers" => ~apart
    /\ active # "answers" \/ apart => named
    /\ VectorsInit /\ (active # "vectors" => texts[2].text = 1)
    /\ active \notin {"vectors", "searches"} =>
         vectors = {} /\ texts = [r \in Rows |-> [text |-> 1, stamp |-> 0]]
    /\ TurnsInit
    /\ Papers!Init /\ (active # "documents" => document = <<Block(1, <<>>)>>)
    /\ Terminal!Init /\ (active # "terminal" => rendering)
    /\ Results!Init
    /\ IF active = "segments" THEN Segments!Init
       ELSE passage = <<>> /\ chunkSize = 3 /\ overlap = 0 /\ segments = <<>> /\ split = FALSE
    /\ History!Init
    /\ CASE active = "scores" -> Scored!Init
         [] active = "suite" -> Suite!Init
         [] OTHER -> Runs!Init
    /\ Page!Init
    /\ IF active = "assembly" THEN Assembled!Init
       ELSE options = Assembled!Usual /\ ownerRow = "free" /\ Assembled!Fresh
    /\ IF active = "settings" THEN Configured!Init
       ELSE /\ configFiles = Configured!NoFiles /\ osEnv = [table |-> "", key |-> ""]
            /\ Configured!Fresh
    /\ IF active = "registry" THEN Skills!Init
       ELSE skillSections = <<>> /\ Skills!Fresh
    /\ IF active = "structure" THEN Headings!Init
       ELSE original = <<>> /\ Headings!Fresh
    /\ CASE active = "analyzer" -> AnalyzerInit /\ request.script \in {Nothing, "period"}
         [] active = "scripts" -> Scripts!AnalyzerInit
         [] OTHER -> request = NoRequest /\ Fresh

SafetyServices ==
    {"sessions", "log", "parallel", "edited", "gateway", "redis",
     "answer", "answers", "vectors", "searches", "turns", "others", "documents",
     "terminal", "results", "files", "segments", "history", "scores", "suite",
     "runners", "page", "uploads", "assembly", "settings", "registry", "structure",
     "analyzer", "scripts"}

SafetyNext ==
    \/ Syncing(Next)
    \/ Logging("log", LogNext)
    \/ Summary("parallel", SummarizerNext)
    \/ Summary("edited", Edited!SummarizerNext)
    \/ Gateway("gateway", LifecycleNext)
    \/ RedisStep("redis", RedisNext)
    \/ Writing("answer", OneAnswer)
    \/ Writing("answers", TwoTurns)
    \/ Indexing("vectors", Rebuilt!VectorsNext)
    \/ Indexing("searches", Searched)
    \/ Turning("turns", OneSession)
    \/ Turning("others", Others!TurnsNext)
    \/ Cutting("documents", Papers!Next)
    \/ Typing("terminal", Terminal!Next)
    \/ Filing("results", Results!Next)
    \/ Filing("files", Version!Next)
    \/ Splitting("segments", Segments!Next)
    \/ Paging("history", History!Next)
    \/ Measuring("scores", Scored!Next)
    \/ Measuring("suite", Suite!Next)
    \/ Measuring("runners", Runs!Next)
    \/ Browsing("page", Page!Next)
    \/ Browsing("uploads", Uploads!Next)
    \/ Making("assembly", Assembled!Next)
    \/ Configuring("settings", Configured!Next)
    \/ Registering("registry", Skills!Next)
    \/ Scanning("structure", Headings!Next)
    \/ Inquiring("analyzer", AnalyzerNext)
    \/ Inquiring("scripts", Scripts!AnalyzerNext)

SafetyInit == active \in SafetyServices /\ ServicesInit

SafetySpec == SafetyInit /\ [][SafetyNext]_all

-----------------------------------------------------------------------------
\* The properties of the other modules; those of the modules that are extended have
\* their names.
\* What a service does not do holds of its initial state.
In(place, P) == active = place => P

\* Every variable of the service that runs has its type.
ServicesTypeOK ==
    CASE active = "sessions" -> TypeOK
      [] active = "log" -> LogTypeOK
      [] active = "parallel" -> SummarizerTypeOK
      [] active = "edited" -> Edited!SummarizerTypeOK
      [] active = "gateway" -> LifecycleTypeOK
      [] active = "redis" -> RedisTypeOK
      [] active = "answer" -> AnswerTypeOK
      [] active = "answers" -> TwoAnswers!AnswerTypeOK
      [] active = "vectors" -> Rebuilt!VectorsTypeOK
      [] active = "searches" -> OneBuild!VectorsTypeOK
      [] active = "turns" -> TurnsTypeOK
      [] active = "others" -> Others!TurnsTypeOK
      [] active = "documents" -> Papers!TypeOK
      [] active = "terminal" -> Terminal!TypeOK
      [] active = "results" -> Results!TypeOK
      [] active = "files" -> Version!TypeOK
      [] active = "segments" -> Segments!TypeOK
      [] active = "history" -> History!TypeOK
      [] active = "scores" -> Scored!TypeOK
      [] active = "suite" -> Suite!TypeOK
      [] active = "runners" -> Runs!TypeOK
      [] active = "page" -> Page!TypeOK
      [] active = "uploads" -> Uploads!TypeOK
      [] active = "assembly" -> Assembled!TypeOK
      [] active = "settings" -> Configured!TypeOK
      [] active = "registry" -> Skills!TypeOK
      [] active = "structure" -> Headings!TypeOK
      [] active = "analyzer" -> AnalyzerTypeOK
      [] active = "scripts" -> Scripts!AnalyzerTypeOK

\* The sections of a document form the tree its headings ask for, nothing of it gets
\* lost between its blocks and its summary, and that takes no more calls than its
\* estimate; the segments of a text for an index are short enough and leave out none
\* of its letters.
DocumentIsCovered ==
    /\ In("documents", Papers!DocumentIsCovered /\ Papers!CallsWithinEstimate)
    /\ In("structure", Headings!StructureIsSound)
    /\ In("segments", Segments!SegmentsFit /\ Segments!TextIsCovered)

\* The terminal shows what the agent says once, and a compaction reports no more than
\* it did; the page of a chat shows its rows and the answers to its questions, and a
\* question takes its files along.
ScreensAreFaithful ==
    /\ In("terminal", Terminal!AnswersAreShown /\ Terminal!ReportIsModest)
    /\ In("page", Page!PageShowsRows /\ Page!AnswerIsShown)
    /\ In("uploads", Uploads!PageShowsRows /\ Uploads!FilesAreSent)

\* An item passes by its own answers and files, config.json gets its model back, and
\* the reports of a run stay.
BenchmarkIsFair ==
    /\ In("scores", Scored!PassedMeansMet)
    /\ In("suite", /\ Suite!PassedMeansMet /\ Suite!FilesAreOwn
                   /\ Suite!ConfigIsRestored /\ Suite!ReportsStay)
    /\ In("runners", Runs!ConfigIsRestored /\ Runs!ReportsStay)

\* Recent results, their references and every version of a file stay; a message
\* finds its files.
FilesAreKept ==
    /\ In("results", Results!ResultsAreKept)
    /\ In("files", Version!VersionsAreKept /\ Version!MediaIsFound)

\* A reader that follows the pages of the history gets on and sees all of it.
HistoryIsRead == In("history", History!HistoryIsRead /\ History!PagesAdvance)

\* A process tells what it lacks, holds what its services need and lets go of it; its
\* tables are those of its profile, and each is mirrored by the column it declares.
AssemblyIsSound ==
    /\ In("assembly", /\ Assembled!BannersTellAll /\ Assembled!ReadyProcessServes
                      /\ Assembled!PoolOutlivesUsers /\ Assembled!NothingIsLeft)
    /\ In("settings", Configured!ProfileIsIsolated /\ Configured!KeyIsFound)
    /\ In("registry", Skills!TablesAreMirrored /\ Skills!ColumnsAreDeclared)

=============================================================================
