------------------------------- MODULE DbLog -------------------------------
(***************************************************************************)
(* DbLoggingService (lib/services/db_logging_service.py): events and the   *)
(* contexts of questions go through one bounded queue to a thread that     *)
(* writes them.  The questions of a session come one after the other; an   *)
(* event of a question may be logged after the next one has begun.         *)
(***************************************************************************)
EXTENDS Integers, Sequences, SequencesExt

CONSTANTS
    NumRequests,         \* bound: questions of the session
    MaxEvents,           \* bound: events
    QueueSize, BatchSize,
    MaxFlushErrors       \* bound: writes that fail

ASSUME LogAssumption ==
    /\ NumRequests \in Nat /\ MaxEvents \in Nat /\ MaxFlushErrors \in Nat
    /\ QueueSize \in Nat \ {0} /\ BatchSize \in Nat \ {0}

Requests == 1..NumRequests
None == 0  \* no question, no user; the user of a question is its number

VARIABLES
    queue, buffer,
    index,    \* _request_index of the session
    current,  \* the last question that was registered
    finished, \* the questions whose run has ended
    logRun,   \* _running
    worker,   \* the thread: does it run
    row,      \* agent_question_runs: the status of every question
    stored,   \* agent_gateway_logs
    accepted, settled,  \* statistics: queued; written, failed and question_runs
    events, errors

logBounds == <<events, errors>>
logVars == <<queue, buffer, index, current, finished, logRun, worker, row, stored,
          accepted, settled, logBounds>>

Event == [kind : {"event"}, request : Requests, user : Requests \cup {None}]
Run == [kind : {"register", "finish"}, request : Requests]
Sentinel == [kind |-> "sentinel"]

LogTypeOK ==
    /\ queue \in Seq(Event \cup Run \cup {Sentinel}) /\ Len(queue) <= QueueSize
    /\ buffer \in Seq(Event) /\ Len(buffer) < BatchSize
    /\ index \in Requests \cup {None} /\ current \in Requests \cup {None}
    /\ finished \subseteq Requests
    /\ logRun \in BOOLEAN /\ worker \in BOOLEAN
    /\ row \in [Requests -> {"none", "running", "finished"}]
    /\ stored \in SUBSET Event
    /\ accepted \in Nat /\ settled \in Nat
    /\ events \in 0..MaxEvents /\ errors \in 0..MaxFlushErrors

-----------------------------------------------------------------------------
\* Callers.

\* _enqueue never waits: a record that finds the queue full is refused.
Enqueue(x) ==
    IF Len(queue) < QueueSize
    THEN queue' = Append(queue, x) /\ accepted' = accepted + 1
    ELSE UNCHANGED <<queue, accepted>>

Register(r) ==
    /\ r = current + 1
    /\ current' = r /\ index' = r
    /\ Enqueue([kind |-> "register", request |-> r])
    /\ UNCHANGED <<buffer, finished, logRun, worker, row, stored, settled, logBounds>>

\* finish_request, then clear_request, which forgets whatever question of the
\* session is current.
FinishRequest(r) ==
    /\ r <= current /\ r \notin finished
    /\ finished' = finished \cup {r}
    /\ index' = None
    /\ Enqueue([kind |-> "finish", request |-> r])
    /\ UNCHANGED <<buffer, current, logRun, worker, row, stored, settled, logBounds>>

\* Variant: the user of the session's question, whichever it is.
UserOfSession(r) == index
\* _resolve_event_user_id: the user, if the question of the event is current.
UserOf(r) == IF index = r THEN r ELSE None

LogEvent(r) ==
    /\ r <= current /\ events < MaxEvents
    /\ events' = events + 1
    /\ Enqueue([kind |-> "event", request |-> r, user |-> UserOf(r)])
    /\ UNCHANGED <<buffer, index, current, finished, logRun, worker, row, stored,
                   settled, errors>>

\* stop: a sentinel, if there is room, and a thread that is waited for in vain
\* dies with the process.
StopLog ==
    /\ logRun
    /\ logRun' = FALSE
    /\ queue' = IF Len(queue) < QueueSize THEN Append(queue, Sentinel) ELSE queue
    /\ UNCHANGED <<buffer, index, current, finished, worker, row, stored, accepted,
                   settled, logBounds>>

-----------------------------------------------------------------------------
\* The thread.

\* Variant: a batch that fails is forgotten, not counted.
SettledByForgetful(batch, ok) == IF ok THEN Len(batch) ELSE 0
SettledBy(batch, ok) == Len(batch)

\* _flush_batch: the batch is written, or fails as a whole and is not tried
\* again.  An error may come after the write.
Flush(batch) ==
    /\ buffer' = <<>>
    /\ \/ /\ stored' = stored \cup {batch[i] : i \in 1..Len(batch)}
          /\ settled' = settled + SettledBy(batch, TRUE)
          /\ UNCHANGED errors
       \/ /\ batch # <<>> /\ errors < MaxFlushErrors
          /\ errors' = errors + 1
          /\ settled' = settled + SettledBy(batch, FALSE)
          /\ stored' \in {stored, stored \cup {batch[i] : i \in 1..Len(batch)}}
    /\ UNCHANGED events

\* Variant: the thread takes the youngest record.
TakenLast == Len(queue)
Taken == IF queue = <<>> THEN 0 ELSE 1

TakeSentinel ==
    /\ worker /\ Taken > 0 /\ queue[Taken] = Sentinel
    /\ queue' = RemoveAt(queue, Taken)
    /\ Flush(buffer)
    /\ worker' = logRun
    /\ UNCHANGED <<index, current, finished, logRun, row, accepted>>

TakeEvent ==
    /\ worker /\ Taken > 0 /\ queue[Taken].kind = "event"
    /\ queue' = RemoveAt(queue, Taken)
    /\ LET batch == Append(buffer, queue[Taken]) IN
       IF Len(batch) >= BatchSize THEN Flush(batch)
       ELSE buffer' = batch /\ UNCHANGED <<stored, settled, logBounds>>
    /\ UNCHANGED <<index, current, finished, logRun, worker, row, accepted>>

\* _upsert_question_run; an error may come after it.
TakeRun ==
    /\ worker /\ Taken > 0 /\ queue[Taken].kind \in {"register", "finish"}
    /\ queue' = RemoveAt(queue, Taken)
    /\ settled' = settled + 1
    /\ LET status == IF queue[Taken].kind = "finish" THEN "finished" ELSE "running"
           new == [row EXCEPT ![queue[Taken].request] = status]
       IN \/ row' = new /\ UNCHANGED errors
          \/ /\ errors < MaxFlushErrors /\ errors' = errors + 1
             /\ row' \in {row, new}
    /\ UNCHANGED <<buffer, index, current, finished, logRun, worker, stored, accepted,
                   events>>

\* Variant: the thread looks at the interval when a record arrives.
LateWithNext == buffer # <<>> /\ queue # <<>>
\* The flush interval is over, also if no record arrives.
Late == buffer # <<>>

FlushLate ==
    /\ worker /\ Late
    /\ Flush(buffer)
    /\ UNCHANGED <<queue, index, current, finished, logRun, worker, row, accepted>>

-----------------------------------------------------------------------------
LogInit ==
    /\ queue = <<>> /\ buffer = <<>>
    /\ index = None /\ current = None /\ finished = {}
    /\ logRun = TRUE /\ worker = TRUE
    /\ row = [r \in Requests |-> "none"] /\ stored = {}
    /\ accepted = 0 /\ settled = 0
    /\ events = 0 /\ errors = 0

Work == TakeSentinel \/ TakeEvent \/ TakeRun \/ FlushLate

LogNext ==
    \/ \E r \in Requests : Register(r) \/ FinishRequest(r) \/ LogEvent(r)
    \/ StopLog \/ Work

LogSpec == LogInit /\ [][LogNext]_logVars

-----------------------------------------------------------------------------
\* Properties.

\* The records in the queue; stop() is called once, so there is one sentinel at most.
InQueue(x) == \E i \in 1..Len(queue) : queue[i] = x
Records == Len(queue) - (IF InQueue(Sentinel) THEN 1 ELSE 0)

\* No accepted record vanishes without being counted as written or failed,
\* unless it is behind the sentinel that ended the thread.
EveryRecordIsCounted ==
    /\ accepted = settled + Records + Len(buffer)
    /\ worker \/ buffer = <<>>

\* An event is stored with the user of its own question, or with none, however
\* late it is logged.
OwnUser == \A e \in stored : e.user \in {e.request, None}

\* No record is lost without being counted, and none is stored with another user.
LogIsSound == EveryRecordIsCounted /\ OwnUser

\* A finished question never shows as running again.
StaysFinished == \A r \in Requests : row[r] = "finished" => row'[r] = "finished"
FinishedStays == [][StaysFinished]_logVars

\* While the service runs, what it accepted is written or counted as lost
\* before long; and it stops if there was room for the sentinel.
Drains ==
    /\ accepted > settled ~> accepted = settled \/ ~logRun
    /\ InQueue(Sentinel) ~> ~worker

=============================================================================
