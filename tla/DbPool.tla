------------------------------- MODULE DbPool -------------------------------
(***************************************************************************)
(* The connection pool of a process (workspace/utils/db.py): callers put   *)
(* jobs in one queue, threads with a connection each take them, and a      *)
(* transaction has a thread to itself.                                     *)
(*                                                                         *)
(* A section under _cond is one step; so is what a thread does with a job. *)
(* A caller waits for its job, so it has one in the queue or in work, and  *)
(* a second one only if its coroutine was cancelled.  A lease is           *)
(* represented by the caller that holds it.                                *)
(***************************************************************************)
EXTENDS Integers, Sequences, FiniteSets

CONSTANTS
    Clients,     \* callers
    NoClient,    \* no caller: a free thread, no job
    MaxThreads,  \* bound: threads at one time, those leaving the pool included
    MinConn, MaxConn, MaxRetries,  \* min_conn, max_conn, job_max_retries
    NumStatements,  \* statements of a transaction
    MaxCalls,    \* bound: calls
    MaxFaults    \* bound: failures, cancelled coroutines and shutdowns

ConstantsAssumption ==
    /\ NoClient \notin Clients
    /\ MaxThreads \in Nat /\ MaxRetries \in Nat /\ NumStatements \in Nat \ {0}
    /\ MinConn \in Nat \ {0} /\ MaxConn \in Nat /\ MinConn <= MaxConn
    /\ MaxCalls \in Nat /\ MaxFaults \in Nat

Threads == 1..MaxThreads
Statements == 1..NumStatements

VARIABLES
    queue,    \* _queue
    running, started,  \* _running, _started
    pool,     \* _workers
    thread,   \* of every thread: is it alive, _lease_id, connection, job
    call,     \* of every caller: where its call is
    durable,  \* the statements of the call that the database keeps
    outcome,  \* how the last call ended
    calls, faults

bounds == <<calls, faults>>
vars == <<queue, running, started, pool, thread, call, durable, outcome, bounds>>

\* Jobs.  A plain job and the three kinds that a transaction needs.
Kinds == {"plain", "begin", "statement", "commit", "rollback"}
Jobs == [client : Clients, kind : Kinds, retries : 0..MaxRetries]
NoJob == [client |-> NoClient, kind |-> "none", retries |-> 0]
Leased(j) == j.kind # "plain"

\* "auto" and "tx" are connections with autocommit on and off; pending are the
\* statements that the open transaction of the connection has executed.
ThreadStates == [at : {"dead", "take", "work"}, lease : Clients \cup {NoClient},
                 conn : {"none", "auto", "tx"}, job : Jobs \cup {NoJob},
                 pending : SUBSET Statements]
DeadThread == [at |-> "dead", lease |-> NoClient, conn |-> "none",
               job |-> NoJob, pending |-> {}]
NewThread == [DeadThread EXCEPT !.at = "take"]

\* "gone" is a caller that was cancelled while its lease was being acquired.
Stages == {"idle", "acquire", "gone"} \cup Kinds
CallStates == [stage : Stages, reply : {"none", "ok", "error"},
               next : 1..(NumStatements + 1), cancelled : BOOLEAN]
NoCall == [stage |-> "idle", reply |-> "none", next |-> 1, cancelled |-> FALSE]

TypeOK ==
    /\ queue \in Seq(Jobs)
    /\ running \in BOOLEAN /\ started \in BOOLEAN
    /\ pool \in SUBSET Threads
    /\ thread \in [Threads -> ThreadStates]
    /\ call \in [Clients -> CallStates]
    /\ durable \in [Clients -> SUBSET Statements]
    /\ outcome \in [Clients -> {"idle", "returned", "raised", "undone"}]
    /\ calls \in 0..MaxCalls /\ faults \in 0..MaxFaults
    /\ \A t \in Threads :
         /\ thread[t].at = "work" <=> thread[t].job # NoJob
         /\ thread[t].pending # {} => thread[t].conn = "tx"

-----------------------------------------------------------------------------
\* Threads of the pool.

Free(P, T) == {t \in P : T[t].lease = NoClient}

\* _spawn_worker, n times: n threads start.
Unused(T) == {t \in Threads \ pool : T[t].at = "dead"}
Spawned(n, T) == {t \in Unused(T) : Cardinality({u \in Unused(T) : u <= t}) <= n}
Started(n, T) == [t \in Threads |-> IF t \in Spawned(n, T) THEN NewThread ELSE T[t]]

\* _submit puts a job behind the others and lets the pool grow while there are
\* more jobs than free threads.  _ensure_started: after a shutdown the pool
\* starts again.
Submit(j, T) ==
    LET base == IF started THEN T ELSE Started(MinConn, T)
        members == IF started THEN pool ELSE pool \cup Spawned(MinConn, T)
        missing == Len(queue) + 1 - Cardinality(Free(members, base))
        room == MaxConn - Cardinality(members)
        more == IF missing <= 0 \/ room <= 0 THEN 0
                ELSE IF missing < room THEN missing ELSE room
    IN /\ queue' = Append(queue, j)
       /\ thread' = Started(more, base)
       /\ pool' = members \cup Spawned(more, base)
       /\ started' = TRUE
       /\ running' = (running \/ ~started)

Job(c, kind) == [client |-> c, kind |-> kind, retries |-> 0]

\* _lease_id = 0 of the thread that c had.
Unleased(c) ==
    [t \in Threads |-> IF thread[t].lease = c
                       THEN [thread[t] EXCEPT !.lease = NoClient] ELSE thread[t]]

\* The bound on what goes wrong.
Fault == faults < MaxFaults /\ faults' = faults + 1

-----------------------------------------------------------------------------
\* Callers.

NewCall(c) ==
    /\ call[c].stage = "idle"
    /\ calls < MaxCalls
    /\ calls' = calls + 1
    /\ durable' = [durable EXCEPT ![c] = {}]
    /\ outcome' = [outcome EXCEPT ![c] = "idle"]
    /\ UNCHANGED faults

\* run, execute, fetch.
Plain(c) ==
    /\ NewCall(c)
    /\ Submit(Job(c, "plain"), thread)
    /\ call' = [call EXCEPT ![c].stage = "plain"]

\* transaction, async_transaction.
Transaction(c) ==
    /\ NewCall(c)
    /\ call' = [call EXCEPT ![c].stage = "acquire"]
    /\ running' = (running \/ ~started) /\ started' = TRUE
    /\ pool' = IF started THEN pool ELSE pool \cup Spawned(MinConn, thread)
    /\ thread' = IF started THEN thread ELSE Started(MinConn, thread)
    /\ UNCHANGED queue

\* _acquire_lease takes a free thread, which may be at work, or a new one.
Acquire(c) ==
    /\ call[c].stage = "acquire"
    /\ running
    /\ LET free == Free(pool, thread)
           new == IF free = {} /\ Cardinality(pool) < MaxConn
                  THEN Spawned(1, thread) ELSE {}
       IN \E t \in free \cup new :
            /\ pool' = pool \cup new
            /\ thread' = [(IF t \in new THEN Started(1, thread) ELSE thread)
                            EXCEPT ![t].lease = c]
    /\ call' = [call EXCEPT ![c].stage = "begin"]
    /\ queue' = Append(queue, Job(c, "begin"))
    /\ UNCHANGED <<running, started, durable, outcome, bounds>>

AcquireRefused(c) ==
    /\ call[c].stage = "acquire"
    /\ ~running
    /\ call' = [call EXCEPT ![c] = NoCall]
    /\ outcome' = [outcome EXCEPT ![c] = "raised"]
    /\ UNCHANGED <<queue, running, started, pool, thread, durable, bounds>>

\* The next job of the transaction.
Continue(c, kind) ==
    /\ Submit(Job(c, kind), thread)
    /\ call' = [call EXCEPT ![c].stage = kind, ![c].reply = "none"]
    /\ UNCHANGED <<durable, outcome, bounds>>

Began(c) ==
    /\ call[c].stage = "begin"
    /\ call[c].reply = "ok"
    /\ IF call[c].cancelled  \* nobody is left who would release the lease
       THEN /\ call' = [call EXCEPT ![c] = [NoCall EXCEPT !.stage = "gone"]]
            /\ UNCHANGED <<queue, running, started, pool, thread, durable,
                           outcome, bounds>>
       ELSE Continue(c, "statement")

Statement(c) ==
    /\ call[c].stage = "statement"
    /\ call[c].reply = "ok"
    /\ IF call[c].next > NumStatements THEN Continue(c, "commit")
       ELSE Continue(c, "statement")

\* The body of the transaction raises, because a statement did or by itself.
Abort(c) ==
    /\ call[c].stage = "statement"
    /\ call[c].reply # "none"
    /\ Continue(c, "rollback")

Finish(c, how) ==
    /\ call' = [call EXCEPT ![c] = NoCall]
    /\ outcome' = [outcome EXCEPT ![c] = how]
    /\ UNCHANGED <<queue, running, started, pool, durable, bounds>>

PlainEnds(c) ==
    /\ call[c].stage = "plain"
    /\ call[c].reply # "none"
    /\ Finish(c, IF call[c].reply = "ok" THEN "returned" ELSE "raised")
    /\ UNCHANGED thread

\* The lease is released whatever the last job did, and if begin fails.
TransactionEnds(c) ==
    /\ call[c].reply # "none"
    /\ \/ call[c].stage = "commit"
          /\ Finish(c, IF call[c].reply = "ok" THEN "returned" ELSE "raised")
       \/ call[c].stage = "rollback" /\ Finish(c, "undone")
       \/ /\ call[c].stage = "begin" /\ call[c].reply = "error"
          /\ Finish(c, "undone")
    /\ thread' = Unleased(c)

\* A coroutine is cancelled.  In the body this raises, while a statement may be
\* in the queue or in work; during the acquisition, its thread goes on.
Cancel(c) ==
    /\ Fault
    /\ \/ /\ call[c].stage \in {"acquire", "begin"} /\ ~call[c].cancelled
          /\ call' = [call EXCEPT ![c].cancelled = TRUE]
          /\ UNCHANGED <<queue, running, started, pool, thread>>
       \/ /\ call[c].stage = "statement"
          /\ Submit(Job(c, "rollback"), thread)
          /\ call' = [call EXCEPT ![c].stage = "rollback", ![c].reply = "none"]
    /\ UNCHANGED <<durable, outcome, calls>>

-----------------------------------------------------------------------------
\* Work of a thread.

\* Variant: a free thread takes any job.
MayTakeAny(t, j) == thread[t].lease \in {NoClient, j.client}

\* Variant: a free thread without connection takes no job.
MayTakeConnected(t, j) ==
    IF Leased(j) THEN thread[t].lease = j.client
    ELSE thread[t].lease = NoClient /\ thread[t].conn # "none"

\* A thread may take jobs of its lease, or plain jobs if it has none; without
\* connection it leaves plain jobs to a free thread that has one.
MayTake(t, j) ==
    IF Leased(j) THEN thread[t].lease = j.client
    ELSE /\ thread[t].lease = NoClient
         /\ \/ thread[t].conn # "none"
            \/ ~\E u \in pool \ {t} : /\ thread[u].lease = NoClient
                                      /\ thread[u].conn # "none"

Takeable(t) == {i \in 1..Len(queue) : MayTake(t, queue[i])}

\* _take_job
Take(t) ==
    /\ thread[t].at = "take"
    /\ \E i \in Takeable(t) :
         /\ \A k \in Takeable(t) : i <= k
         /\ queue' = SubSeq(queue, 1, i - 1) \o SubSeq(queue, i + 1, Len(queue))
         /\ thread' = [thread EXCEPT ![t].at = "work", ![t].job = queue[i]]
    /\ UNCHANGED <<running, started, pool, call, durable, outcome, bounds>>

\* _maybe_shrink, when it had no job for _idle_timeout.  One may have arrived
\* since _take_job gave up.
Shrink(t) ==
    /\ thread[t].at = "take"
    /\ thread[t].lease = NoClient
    /\ Cardinality(pool) > MinConn
    /\ pool' = pool \ {t}
    /\ thread' = [thread EXCEPT ![t] = DeadThread]
    /\ UNCHANGED <<queue, running, started, call, durable, outcome, bounds>>

\* The thread ends and closes its connection.
Exit(t) ==
    /\ thread[t].at = "take"
    /\ ~running /\ queue = <<>>
    /\ thread' = [thread EXCEPT ![t] = [DeadThread EXCEPT !.lease = thread[t].lease]]
    /\ UNCHANGED <<queue, running, started, pool, call, durable, outcome, bounds>>

\* set_result, set_error: a caller that was cancelled waits for another job.
Reply(j, how) ==
    call' = [call EXCEPT ![j.client].reply = IF call[j.client].stage = j.kind
                                             THEN how ELSE @,
                         ![j.client].next = IF j.kind = "statement" /\ how = "ok"
                                            THEN @ + 1 ELSE @]

Idle(t, conn, pending) ==
    [thread[t] EXCEPT !.at = "take", !.job = NoJob, !.conn = conn,
                      !.pending = pending]

\* _ensure_connected: a new connection commits by itself.
Connected(t) == IF thread[t].conn = "none" THEN "auto" ELSE thread[t].conn

\* What the statement of a job leaves in the database, and in the transaction.
KeptBy(t, j) ==
    CASE j.kind = "plain" /\ Connected(t) = "auto" -> Statements
      [] j.kind = "statement" /\ Connected(t) = "auto" -> {call[j.client].next}
      [] j.kind = "commit" -> thread[t].pending
      [] OTHER -> {}
OpenAfter(t, j) ==
    IF j.kind = "statement" /\ Connected(t) = "tx"
    THEN thread[t].pending \cup {call[j.client].next}
    ELSE IF j.kind \in {"commit", "rollback"} THEN {} ELSE thread[t].pending
ModeAfter(t, j) ==
    IF j.kind = "begin" THEN "tx"
    ELSE IF j.kind \in {"commit", "rollback"} THEN "auto" ELSE Connected(t)

Keep(t, j) == durable' = [durable EXCEPT ![j.client] = @ \cup KeptBy(t, j)]

\* The job succeeds.
Done(t) ==
    LET j == thread[t].job IN
    /\ thread[t].at = "work"
    /\ Keep(t, j)
    /\ Reply(j, "ok")
    /\ thread' = [thread EXCEPT ![t] = Idle(t, ModeAfter(t, j), OpenAfter(t, j))]
    /\ UNCHANGED <<queue, running, started, pool, outcome, bounds>>

\* The database refuses the statement; the connection stays.
Refused(t) ==
    LET j == thread[t].job IN
    /\ thread[t].at = "work"
    /\ j.kind \in {"plain", "statement"}
    /\ Fault
    /\ Reply(j, "error")
    /\ thread' = [thread EXCEPT ![t] = Idle(t, Connected(t), thread[t].pending)]
    /\ UNCHANGED <<queue, running, started, pool, durable, outcome, calls>>

\* There is no connection and none can be made.
NotConnected(t) ==
    /\ thread[t].at = "work"
    /\ thread[t].conn = "none"
    /\ Fault
    /\ Reply(thread[t].job, "error")
    /\ thread' = [thread EXCEPT ![t] = Idle(t, "none", {})]
    /\ UNCHANGED <<queue, running, started, pool, durable, outcome, calls>>

\* Variant: a job of a transaction is retried like any other.
RetriableAny(j) == j.retries < MaxRetries

\* A transaction is not repeated, it is broken.
Retriable(j) == ~Leased(j) /\ j.retries < MaxRetries

\* The connection is lost, before or after the statement took effect.
Lost(t) ==
    LET j == thread[t].job IN
    /\ thread[t].at = "work"
    /\ j.kind # "begin"
    /\ Fault
    /\ UNCHANGED durable \/ Keep(t, j)
    /\ thread' = [thread EXCEPT ![t] = Idle(t, "none", {})]
    /\ IF Retriable(j)
       THEN /\ queue' = <<[j EXCEPT !.retries = @ + 1]>> \o queue
            /\ UNCHANGED call
       ELSE Reply(j, "error") /\ UNCHANGED queue
    /\ UNCHANGED <<running, started, pool, outcome, calls>>

-----------------------------------------------------------------------------
\* shutdown: the threads are told and joined, each for two seconds.
Shutdown ==
    /\ running
    /\ Fault
    /\ running' = FALSE
    /\ UNCHANGED <<queue, started, pool, thread, call, durable, outcome, calls>>

Joined ==
    /\ started /\ ~running
    /\ started' = FALSE
    /\ pool' = {}
    /\ UNCHANGED <<queue, running, thread, call, durable, outcome, bounds>>

Init ==
    /\ queue = <<>>
    /\ running = FALSE /\ started = FALSE
    /\ pool = {} /\ thread = [t \in Threads |-> DeadThread]
    /\ call = [c \in Clients |-> NoCall]
    /\ durable = [c \in Clients |-> {}]
    /\ outcome = [c \in Clients |-> "idle"]
    /\ calls = 0 /\ faults = 0

Caller(c) ==
    \/ Acquire(c) \/ AcquireRefused(c) \/ Began(c) \/ Statement(c) \/ Abort(c)
    \/ PlainEnds(c) \/ TransactionEnds(c)

Worker(t) ==
    \/ Take(t) \/ Shrink(t) \/ Exit(t)
    \/ Done(t) \/ Refused(t) \/ NotConnected(t) \/ Lost(t)

Next ==
    \/ \E c \in Clients : Plain(c) \/ Transaction(c) \/ Caller(c) \/ Cancel(c)
    \/ \E t \in Threads : Worker(t)
    \/ Shutdown \/ Joined

Spec == Init /\ [][Next]_vars

\* Threads run, statements end, and the body of a transaction goes on.
FairSpec ==
    /\ Spec
    /\ \A c \in Clients : WF_vars(Caller(c))
    /\ \A t \in Threads : WF_vars(Worker(t))

-----------------------------------------------------------------------------
\* Properties.

\* A connection in the middle of a transaction belongs to a lease, so nobody
\* else's statement runs in it, however leases, retries and losses interleave;
\* and the job of a transaction runs on the thread of its lease only.
TransactionsAreLeased ==
    \A t \in Threads :
      /\ thread[t].conn = "tx" => thread[t].lease # NoClient
      /\ Leased(thread[t].job) /\ thread[t].at = "work" =>
           thread[t].lease = thread[t].job.client

\* A caller sees DbCalls.
Calls == INSTANCE DbCalls WITH
    phase <- [c \in Clients |-> IF call[c].stage = "idle" THEN outcome[c]
                                ELSE "calling"],
    effect <- [c \in Clients |-> IF durable[c] = {} THEN "none"
                                 ELSE IF durable[c] = Statements THEN "all"
                                 ELSE "some"]
CallsSpec == Calls!Spec

\* If the pool is never shut down, every call ends, except those that wait
\* for a thread that a cancelled acquisition has kept for good.
EveryCallEnds ==
    [](started => running) =>
      \A c \in Clients :
        call[c].stage # "idle" ~>
          call[c].stage = "idle" \/ \E d \in Clients : call[d].stage = "gone"

=============================================================================
