----------------------------- MODULE MCProgress -----------------------------
(***************************************************************************)
(* What must eventually happen in the services beside the channel.  They   *)
(* share no state, so every behaviour chooses one of them, and the others  *)
(* stay as they start.  The constants and the safety properties of the     *)
(* module are those of the database pool.                                  *)
(***************************************************************************)
EXTENDS DbPool

CONSTANTS c1, c2, g1, p1, t1, i1, NoProc

VARIABLES
    active,
    disk, meta, messages, cycle, mode, saves, failures, stops,
    source, newest, open, clock, owner, lock, snapshot, proc, cache, cursor, job,
    resync, doubtful, losses,
    records, buffer, index, current, finished, logRun, worker, row, stored, accepted,
    settled, events, errors,
    main, todo, up, registered, stuck, claimed, policy, reuse, loader, loaded, flag,
    bound, waiter, callback, phase, channels, exitCode, runs, mishaps,
    apart, named, turns, begun, answerRow, reasoning, stream, bridge, ioLock, send, flush,
    chunks, pieces, given, lost, hitches

sessions == <<disk, meta, messages, cycle, mode, saves, failures, stops>>
copy == <<source, newest, open, clock, owner, lock, snapshot, proc, cache, cursor,
          job, resync, doubtful, losses>>
log == <<records, buffer, index, current, finished, logRun, worker, row, stored,
         accepted, settled, events, errors>>
gateway == <<main, todo, up, registered, stuck, claimed, policy, reuse, loader,
    loaded, flag, bound, waiter, callback, phase, channels, exitCode, runs,
    mishaps>>
writer == <<apart, named, turns, begun, answerRow, reasoning, stream, bridge, ioLock,
    send, flush, chunks, pieces, given, lost, hitches>>
all == <<active, vars, sessions, copy, log, gateway, writer>>

\* Two sessions and three saves, a fault and a stop.
Sessions == INSTANCE SessionSync WITH
    faults <- failures,
    Gateways <- {g1}, NumKeys <- 2, MaxSaves <- 3, MaxFaults <- 1, MaxStops <- 1

\* A process with a table, two writes and a fault.
Copy == INSTANCE CacheSync WITH
    ownership <- owner, Procs <- {p1}, Tables <- {t1}, Ids <- {i1},
    MaxWrites <- 2, FullEvery <- 2, AwaitReady <- FALSE, MaxLosses <- 1

\* Two questions with two events and a queue of two.
Log == INSTANCE DbLog WITH
    queue <- records,
    NumRequests <- 2, MaxEvents <- 2, QueueSize <- 2, BatchSize <- 2,
    MaxFlushErrors <- 1

\* A gateway that fails twice and enters its channels twice.
Process == INSTANCE Lifecycle WITH MaxRuns <- 2, MaxMishaps <- 2

\* The row of one turn with a failure; one turn has no neighbour in its chat.
Answer == INSTANCE AnswerRow WITH
    NumTurns <- 1, MaxChunks <- 2, MaxPieces <- 1, MaxHitches <- 1

ASSUME ConstantsAreAllowed == ConstantsAssumption /\ Copy!CacheAssumption

-----------------------------------------------------------------------------
\* The steps of one service, the others unchanged.
OfSessions(A) == A /\ UNCHANGED <<active, vars, copy, log, gateway, writer>>
OfCopy(A) == A /\ UNCHANGED <<active, vars, sessions, log, gateway, writer>>
OfLog(A) == A /\ UNCHANGED <<active, vars, sessions, copy, gateway, writer>>
OfGateway(A) == A /\ UNCHANGED <<active, vars, sessions, copy, log, writer>>
OfWriter(A) == A /\ UNCHANGED <<active, vars, sessions, copy, log, gateway>>

In(service) == active = service

ProgressInit ==
    /\ active \in {"database", "sessions", "copy", "log", "gateway", "answer"}
    /\ Init /\ Sessions!Init /\ Copy!CacheInit
    /\ Log!LogInit /\ Process!LifecycleInit /\ Answer!AnswerInit
    /\ active # "gateway" => policy = "warn" /\ ~reuse
    /\ ~apart /\ named

ProgressNext ==
    \/ In("database") /\ Next /\ UNCHANGED <<active, sessions, copy, log, gateway, writer>>
    \/ In("sessions") /\ OfSessions(Sessions!Next)
    \/ In("copy") /\ OfCopy(Copy!CacheNext)
    \/ In("log") /\ OfLog(Log!LogNext)
    \/ In("gateway") /\ OfGateway(Process!LifecycleNext)
    \/ In("answer") /\ OfWriter(Answer!AnswerNext)

\* The fairness of the services: their threads and event loops run.
ProgressFairness ==
    /\ \A c \in Clients : WF_vars(In("database") /\ Caller(c))
    /\ \A t \in Threads : WF_vars(In("database") /\ Worker(t))
    /\ WF_sessions(In("sessions") /\ Sessions!Sync(g1))
    /\ WF_sessions(In("sessions") /\ Sessions!Start(g1))
    /\ WF_copy(In("copy") /\ Copy!Worker(p1))
    /\ WF_copy(In("copy") /\ Copy!Job(p1, t1))
    /\ WF_log(In("log") /\ Log!Work)
    /\ WF_gateway(In("gateway") /\ Process!Loader)
    /\ WF_gateway(In("gateway") /\ Process!Loop)
    /\ WF_writer(In("answer") /\ Answer!Sender)
    /\ WF_writer(In("answer") /\ Answer!Flusher)

ProgressSpec ==
    ProgressInit /\ [][ProgressNext]_all /\ ProgressFairness

-----------------------------------------------------------------------------
\* Progress; that of the database is EveryCallEnds.

\* A session that was saved is in the database some time, over stops of the process.
FirstSessionArrives == Sessions!FirstSessionArrives

\* A worker that runs on brings what is committed to the cache and publishes it.
Waits(v) == In("copy") /\ Copy!Waits(p1, t1, v)
CatchesUp ==
    <>[](In("copy") /\ proc[p1].running) =>
      \A v \in Copy!Versions : Waits(v) ~> ~Waits(v)

\* The log service writes what it accepted, and stops.
Drains == Log!Drains

\* While the synchronisation works, the wait of the gateway for the cache ends.
StartupEnds == Process!StartupEnds

\* The end of a turn is not held up by the flush of the reasoning.
FinalEnds == Answer!FinalEnds

=============================================================================
