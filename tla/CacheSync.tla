----------------------------- MODULE CacheSync -----------------------------
(***************************************************************************)
(* The local cache of a gateway.  The process that holds the claim of      *)
(* agent_cache_ownership (lib/services/cache_ownership.py) copies tables   *)
(* of PostgreSQL into a database of its own (pg_duckdb_sync_service.py)    *)
(* and publishes it as a snapshot file (duckdb_cache_store.py), which the  *)
(* next owner may adopt (gateway.py).                                      *)
(*                                                                         *)
(* A process runs once: a restarted gateway is another one, because        *)
(* worker_id contains the pid.  A row is known by its key and the stamp    *)
(* of its last change, the tracking column; tables have a simple key.      *)
(***************************************************************************)
EXTENDS Integers, FiniteSets, FiniteSetsExt

CONSTANTS
    Procs, NoProc,  \* processes; none
    Tables, Ids,
    FullEvery,      \* full_resync_every; 0: never
    AwaitReady,     \* gateway.startup.vector_preload.await_ready
    MaxWrites,      \* bound: transactions and deletions
    MaxLosses       \* bound: failures and crashes

CacheAssumption ==
    /\ NoProc \notin Procs
    /\ FullEvery \in Nat /\ MaxWrites \in Nat /\ MaxLosses \in Nat
    /\ AwaitReady \in BOOLEAN

VARIABLES
    source,   \* of every table: its committed rows
    newest,   \* history: the newest stamp committed to the table
    open,     \* open transactions: each will change one row
    clock,
    ownership,\* the row of agent_cache_ownership
    lock,     \* the process that holds the advisory lock of the fence
    snapshot, \* the file: who wrote it, and what it holds
    proc,     \* of every process: its main thread, its worker, its store
    cache,    \* of every process and table: the rows in its store
    cursor,   \* _last_sync; 0: no entry
    job,      \* of every process and table: the job of its executor
    resync,   \* _resync_counter
    doubtful, \* history: tables whose cursor may have passed a row
    losses

world == <<source, newest, open, clock>>
coordination == <<ownership, lock>>
sync == <<cache, cursor, job, resync, doubtful>>
cacheVars == <<world, coordination, snapshot, proc, sync, losses>>

Stamps == 1..(MaxWrites + 1)
CacheRows == [id : Ids, stamp : Stamps, late : BOOLEAN]
Versions == [id : Ids, stamp : Stamps]
Version(r) == [id |-> r.id, stamp |-> r.stamp]
Empty == [t \in Tables |-> {}]

NoSnapshot == [by |-> NoProc, rows |-> Empty]
NoClaim == [owner |-> NoProc, gen |-> 0, valid |-> FALSE]
NoJob == [at |-> "none", kind |-> "delta", read |-> {}]
NewJobs == [t \in Tables |-> [NoJob EXCEPT !.at = "fetch"]]

\* main: the main thread; worker: the thread of the synchronisation, "fence"
\* before it tries to enter; first: the forced publication is still to come.
NewProc == [main |-> "new", worker |-> "none", gen |-> 0, running |-> FALSE,
            open |-> FALSE, dirty |-> FALSE, first |-> TRUE]
Proc == [main : {"new", "owner", "reader", "run", "join", "closed", "gone"},
         worker : {"none", "load", "publish", "fence", "poll", "done"},
         gen : Nat, running : BOOLEAN, open : BOOLEAN, dirty : BOOLEAN,
         first : BOOLEAN]
Jobs == [at : {"none", "fetch", "store", "done", "lost"},
         kind : {"delta", "all", "replace"}, read : SUBSET Versions]

CacheTypeOK ==
    /\ source \in [Tables -> SUBSET CacheRows]
    /\ newest \in [Tables -> Stamps \cup {0}]
    /\ open \in SUBSET [table : Tables, id : Ids, stamp : Stamps]
    /\ clock \in Stamps
    /\ ownership \in [owner : Procs \cup {NoProc}, gen : Nat, valid : BOOLEAN]
    /\ lock \in Procs \cup {NoProc}
    /\ snapshot \in [by : Procs \cup {NoProc}, rows : [Tables -> SUBSET Versions]]
    /\ proc \in [Procs -> Proc]
    /\ cache \in [Procs -> [Tables -> SUBSET Versions]]
    /\ cursor \in [Procs -> [Tables -> Stamps \cup {0}]]
    /\ job \in [Procs -> [Tables -> Jobs]]
    /\ resync \in [Procs -> Nat]
    /\ doubtful \in [Procs -> SUBSET Tables]
    /\ losses \in 0..MaxLosses
    /\ \A p \in Procs : proc[p].running => proc[p].worker \notin {"none", "done"}
    /\ \A t \in Tables : \A r, s \in source[t] : r.id = s.id => r = s

CacheFault == losses < MaxLosses /\ losses' = losses + 1

-----------------------------------------------------------------------------
\* Writers of the tables.  The tracking column gets the time at which the
\* transaction begins, so rows may become visible out of order.

Begin(t, i) ==
    /\ clock <= MaxWrites
    /\ ~\E x \in open : x.table = t /\ x.id = i
    /\ clock' = clock + 1
    /\ open' = open \cup {[table |-> t, id |-> i, stamp |-> clock + 1]}
    /\ UNCHANGED <<source, newest, coordination, snapshot, proc, sync, losses>>

Others(t, i) == {r \in source[t] : r.id # i}

Commit(x) ==
    /\ open' = open \ {x}
    /\ source' = [source EXCEPT ![x.table] = Others(x.table, x.id) \cup
                    {[id |-> x.id, stamp |-> x.stamp,
                      late |-> x.stamp < newest[x.table]]}]
    /\ newest' = [newest EXCEPT ![x.table] = IF @ < x.stamp THEN x.stamp ELSE @]
    /\ UNCHANGED <<clock, coordination, snapshot, proc, sync, losses>>

Delete(t, i) ==
    /\ clock <= MaxWrites
    /\ ~\E x \in open : x.table = t /\ x.id = i
    /\ Others(t, i) # source[t]
    /\ clock' = clock + 1
    /\ source' = [source EXCEPT ![t] = Others(t, i)]
    /\ UNCHANGED <<newest, open, coordination, snapshot, proc, sync, losses>>

-----------------------------------------------------------------------------
\* The claim.

\* Variant: the claim does not wait for the lock.
LockFreeAny(p) == p \in Procs
LockFree(p) == p \in Procs /\ lock = NoProc

\* try_claim.  A process that finds a valid claim stays a reader.
TryClaim(p) ==
    /\ proc[p].main = "new"
    /\ LockFree(p)
    /\ LET owns == ownership.owner = NoProc \/ ~ownership.valid
           gen == IF owns THEN ownership.gen + 1 ELSE ownership.gen
       IN /\ ownership' = IF owns THEN [owner |-> p, gen |-> gen, valid |-> TRUE]
                          ELSE ownership
          /\ proc' = [proc EXCEPT ![p].main = IF owns THEN "owner" ELSE "reader",
                                  ![p].gen = gen]
    /\ UNCHANGED <<world, lock, snapshot, sync, losses>>

\* ttl_seconds after the claim; nothing calls heartbeat().
Expire ==
    /\ ownership.valid
    /\ ownership' = [ownership EXCEPT !.valid = FALSE]
    /\ UNCHANGED <<world, lock, snapshot, proc, sync, losses>>

HoldsClaim(p) == ownership.owner = p /\ ownership.gen = proc[p].gen

-----------------------------------------------------------------------------
\* The store.  A store that was closed is opened again by the next change, empty.
Opened(s) == [s EXCEPT !.open = TRUE]
Changed(s) == [Opened(s) EXCEPT !.dirty = TRUE]
Closed(s) == [s EXCEPT !.open = FALSE]

\* The thread of the synchronisation begins with the load; it is told to end.
Started(s) == [s EXCEPT !.worker = "load", !.running = TRUE]
Told(s) == [s EXCEPT !.running = FALSE]

\* Variant: a publication that fails is not repeated.
PublishFailedClean(s) == [s EXCEPT !.dirty = FALSE]

\* The new file cannot be put in place: the store stays dirty.
PublishFailed(s) == s

\* publish replaces the file by the tables of the store, if there is something
\* new; s is the process after the call and force what the caller asks for.
NothingNew(p, force) == ~proc[p].open \/ ~(proc[p].dirty \/ force)

Published(p, s) ==
    /\ snapshot' = [by |-> p, rows |-> cache[p]]
    /\ proc' = [proc EXCEPT ![p] = [s EXCEPT !.dirty = FALSE]]

Publish(p, force, s) ==
    IF NothingNew(p, force)
    THEN proc' = [proc EXCEPT ![p] = s] /\ UNCHANGED <<snapshot, losses>>
    ELSE \/ Published(p, s) /\ UNCHANGED losses
         \/ /\ CacheFault
            /\ proc' = [proc EXCEPT ![p] = PublishFailed(s)]
            /\ UNCHANGED snapshot

\* The gateway starts.  It adopts a snapshot that is young enough, and then
\* synchronises nothing, or removes it and loads the tables.
Adopt(p) ==
    /\ proc[p].main = "owner"
    /\ snapshot # NoSnapshot
    /\ cache' = [cache EXCEPT ![p] = snapshot.rows]
    /\ proc' = [proc EXCEPT ![p] = [Opened(@) EXCEPT !.main = "run"]]
    /\ UNCHANGED <<world, coordination, snapshot, cursor, job, resync, doubtful,
                   losses>>

Start(p) ==
    /\ proc[p].main = "owner"
    /\ snapshot' = NoSnapshot
    /\ proc' = [proc EXCEPT ![p] = [Opened(Started(@)) EXCEPT !.main = "run"]]
    /\ job' = [job EXCEPT ![p] = NewJobs]
    /\ UNCHANGED <<world, coordination, cache, cursor, resync, doubtful, losses>>

-----------------------------------------------------------------------------
\* The worker: load or poll all tables, each in a thread, then publish.

\* _fetch_all and _fetch_incremental.
RowsToRead(p, t, all) == {r \in source[t] : all \/ r.stamp > cursor[p][t]}

\* _poll_table_initial and _poll_table up to the rows of the query.
Fetch(p, t) ==
    /\ job[p][t].at = "fetch"
    /\ LET full == proc[p].worker = "poll" /\ FullEvery > 0
                     /\ resync[p] + 1 >= FullEvery
           all == full \/ cursor[p][t] = 0
           rows == RowsToRead(p, t, all)
       IN /\ job' = [job EXCEPT ![p][t] =
                       [at |-> "store", read |-> {Version(r) : r \in rows},
                        kind |-> IF full THEN "replace"
                                 ELSE IF all THEN "all" ELSE "delta"]]
          /\ resync' = [resync EXCEPT ![p] =
                          IF proc[p].worker # "poll" \/ full THEN 0
                          ELSE IF FullEvery = 0 THEN @ ELSE @ + 1]
    /\ UNCHANGED <<world, coordination, snapshot, proc, cache, cursor, doubtful,
                   losses>>

\* The query fails.  If its connection was lost, the worker forgets all cursors
\* and looks at no other result of this cycle (_reconnect).
FetchFails(p, t) ==
    /\ job[p][t].at = "fetch"
    /\ CacheFault
    /\ \E at \in {"done", "lost"} :
         /\ job' = [job EXCEPT ![p][t].at = at]
         /\ cursor' = IF /\ at = "lost" /\ proc[p].running
                         /\ \A u \in Tables : job[p][u].at # "lost"
                      THEN [cursor EXCEPT ![p] = [u \in Tables |-> 0]] ELSE cursor
    /\ UNCHANGED <<world, coordination, snapshot, proc, cache, resync, doubtful>>

\* The newest of the rows that were read, 0 if there are none.
Last(j) == IF j.read = {} THEN 0 ELSE Max({v.stamp : v \in j.read})

\* The cursor never goes back; after the initial load of an empty table it is
\* the present time.
CursorAfter(p, t) ==
    LET last == Last(job[p][t]) IN
    IF proc[p].worker = "load" THEN IF last = 0 THEN clock ELSE last
    ELSE IF cursor[p][t] < last THEN last ELSE cursor[p][t]

\* Variant: a row that the cache has is not updated.
StoredIfNew(p, t) ==
    cache[p][t] \cup {v \in job[p][t].read : \A w \in cache[p][t] : w.id # v.id}

\* replace_records: what the source does not have goes.
Replaced(rows, read) == read
\* upsert_records
Upserted(rows, read) == {v \in rows : \A w \in read : w.id # v.id} \cup read

Stored(p, t) ==
    LET j == job[p][t] IN
    IF j.kind = "replace" THEN Replaced(cache[p][t], j.read)
    ELSE Upserted(cache[p][t], j.read)

\* History: rows below the cursor may be missing after a batch that failed and
\* after a cursor that no row gave; they are not after all rows were stored.
Doubts(p, t, stored) ==
    LET j == job[p][t] IN
    IF \/ ~stored /\ j.read # {}
       \/ Last(j) = 0 /\ CursorAfter(p, t) # cursor[p][t]
    THEN doubtful[p] \cup {t}
    ELSE IF stored /\ j.kind # "delta" /\ CursorAfter(p, t) = Last(j)
    THEN doubtful[p] \ {t} ELSE doubtful[p]

\* _dispatch and _dispatch_replace forget an error of the store, and the cursor
\* moves all the same.
Store(p, t) ==
    /\ job[p][t].at = "store"
    /\ LET changes == job[p][t].kind = "replace" \/ job[p][t].read # {} IN
       \E stored \in BOOLEAN :
         /\ IF stored THEN UNCHANGED losses ELSE changes /\ CacheFault
         /\ cache' = IF changes /\ stored
                     THEN [cache EXCEPT ![p][t] = Stored(p, t)] ELSE cache
         /\ proc' = IF changes /\ stored
                    THEN [proc EXCEPT ![p] = Changed(@)] ELSE proc
         /\ doubtful' = [doubtful EXCEPT ![p] = Doubts(p, t, stored)]
    /\ cursor' = [cursor EXCEPT ![p][t] = CursorAfter(p, t)]
    /\ job' = [job EXCEPT ![p][t] = [NoJob EXCEPT !.at = "done"]]
    /\ UNCHANGED <<world, coordination, snapshot, resync>>

JobsOver(p) == \A t \in Tables : job[p][t].at \in {"done", "lost"}

\* The load ends, with a publication even if stop() was called.
Loaded(p) ==
    /\ proc[p].worker = "load"
    /\ JobsOver(p)
    /\ proc' = [proc EXCEPT ![p].worker = "publish"]
    /\ UNCHANGED <<world, coordination, snapshot, sync, losses>>

\* The callback of the gateway: its first publication is forced.
Callback(p, s) == Publish(p, proc[p].first, [s EXCEPT !.first = FALSE])

\* _fire_sync_callback, outside the fence.
WorkerPublishes(p) ==
    /\ proc[p].worker = "publish"
    /\ Callback(p, [proc[p] EXCEPT !.worker = "fence"])
    /\ UNCHANGED <<world, coordination, sync>>

Stopped(p) == [proc EXCEPT ![p].worker = "done", ![p].running = FALSE]

\* acquire_write_fence: the worker polls if it still has a valid claim, and
\* otherwise ends for good.
EnterFence(p) ==
    /\ proc[p].worker = "fence"
    /\ proc[p].running
    /\ LockFree(p)
    /\ IF HoldsClaim(p) /\ ownership.valid
       THEN /\ lock' = p
            /\ proc' = [proc EXCEPT ![p].worker = "poll"]
            /\ job' = [job EXCEPT ![p] = NewJobs]
       ELSE proc' = Stopped(p) /\ UNCHANGED <<lock, job>>
    /\ UNCHANGED <<world, ownership, snapshot, cache, cursor, resync, doubtful, losses>>

LeaveFence(p) ==
    /\ proc[p].worker = "poll"
    /\ JobsOver(p)
    /\ lock' = NoProc
    /\ proc' = IF proc[p].running
               THEN [proc EXCEPT ![p].worker = "publish"] ELSE Stopped(p)
    /\ UNCHANGED <<world, ownership, snapshot, sync, losses>>

\* The transaction of the fence fails: the thread ends with the exception.
FenceFails(p) ==
    /\ proc[p].worker \in {"fence", "poll"}
    /\ proc[p].worker = "poll" => JobsOver(p)
    /\ CacheFault
    /\ lock' = IF lock = p THEN NoProc ELSE lock
    /\ proc' = Stopped(p)
    /\ UNCHANGED <<world, ownership, snapshot, sync>>

WorkerEnds(p) ==
    /\ proc[p].worker = "fence"
    /\ ~proc[p].running
    /\ proc' = Stopped(p)
    /\ UNCHANGED <<world, coordination, snapshot, sync, losses>>

-----------------------------------------------------------------------------
\* The main thread ends: a last publication, ctx.stop(), the exit.

\* stop() tells the worker.
FinalPublish(p) ==
    /\ proc[p].main = "run"
    /\ AwaitReady => ~(proc[p].first /\ proc[p].running)
    /\ Publish(p, FALSE, [Told(proc[p]) EXCEPT !.main = "join"])
    /\ UNCHANGED <<world, coordination, sync>>

\* join gives up after timeout_sec.  The store is closed, and release deletes
\* the claim of the process, without a lock.
Close(p) ==
    /\ proc[p].main = "join"
    /\ IF proc[p].worker \in {"none", "done"} THEN UNCHANGED losses ELSE CacheFault
    /\ proc' = [proc EXCEPT ![p] = [Closed(@) EXCEPT !.main = "closed"]]
    /\ cache' = [cache EXCEPT ![p] = Empty]
    /\ ownership' = IF HoldsClaim(p) THEN NoClaim ELSE ownership
    /\ UNCHANGED <<world, lock, snapshot, cursor, job, resync, doubtful>>

\* The process is gone, with the threads that it still has.
End(p) ==
    /\ proc' = [proc EXCEPT ![p] = [NewProc EXCEPT !.main = "gone"]]
    /\ lock' = IF lock = p THEN NoProc ELSE lock
    /\ cache' = [cache EXCEPT ![p] = Empty]
    /\ cursor' = [cursor EXCEPT ![p] = [t \in Tables |-> 0]]
    /\ job' = [job EXCEPT ![p] = [t \in Tables |-> NoJob]]
    /\ resync' = [resync EXCEPT ![p] = 0]
    /\ doubtful' = [doubtful EXCEPT ![p] = {}]
    /\ UNCHANGED <<world, ownership, snapshot>>

Exit(p) == proc[p].main = "closed" /\ End(p) /\ UNCHANGED losses

ProcessDies(p) == proc[p].main \notin {"new", "reader", "gone"} /\ End(p) /\ CacheFault

-----------------------------------------------------------------------------
CacheInit ==
    /\ source = Empty /\ newest = [t \in Tables |-> 0]
    /\ open = {} /\ clock = 1
    /\ ownership = NoClaim /\ lock = NoProc /\ snapshot = NoSnapshot
    /\ proc = [p \in Procs |-> NewProc]
    /\ cache = [p \in Procs |-> Empty]
    /\ cursor = [p \in Procs |-> [t \in Tables |-> 0]]
    /\ job = [p \in Procs |-> [t \in Tables |-> NoJob]]
    /\ resync = [p \in Procs |-> 0]
    /\ doubtful = [p \in Procs |-> {}]
    /\ losses = 0

Writer ==
    \/ \E t \in Tables, i \in Ids : Begin(t, i) \/ Delete(t, i)
    \/ \E x \in open : Commit(x)

Worker(p) ==
    Loaded(p) \/ WorkerPublishes(p) \/ EnterFence(p) \/ LeaveFence(p) \/ WorkerEnds(p)

Job(p, t) == Fetch(p, t) \/ Store(p, t)

Main(p) ==
    \/ TryClaim(p) \/ Adopt(p) \/ Start(p) \/ FinalPublish(p)
    \/ Close(p) \/ Exit(p)

CacheNext ==
    \/ Writer \/ Expire
    \/ \E p \in Procs : Main(p) \/ Worker(p) \/ FenceFails(p) \/ ProcessDies(p)
    \/ \E p \in Procs, t \in Tables : Job(p, t) \/ FetchFails(p, t)

CacheSpec == CacheInit /\ [][CacheNext]_cacheVars

\* The threads of a worker run.
CacheFairness ==
    /\ \A p \in Procs : WF_cacheVars(Worker(p))
    /\ \A p \in Procs, t \in Tables : WF_cacheVars(Job(p, t))

CacheFairSpec == CacheSpec /\ CacheFairness

-----------------------------------------------------------------------------
\* Properties.

\* While a process polls inside the fence nobody else owns the cache, although
\* its claim may expire or be released meanwhile.
FenceExcludes ==
    lock # NoProc =>
      /\ proc[lock].worker = "poll"
      /\ ownership.owner \in {lock, NoProc}
      /\ ownership.owner = lock => ownership.gen = proc[lock].gen

\* A version that is committed in the order of the stamps.
Timely(t) == {Version(r) : r \in {r \in source[t] : ~r.late}}

\* The cursor passes no row: what an incremental poll will not read again is in
\* the cache, unless the row was committed late or a batch was lost.
CursorCovers ==
    \A p \in Procs : \A t \in Tables \ doubtful[p] :
      proc[p].main = "run" =>
        \A v \in Timely(t) : v.stamp <= cursor[p][t] => v \in cache[p][t]

\* A store without unpublished changes is what its own snapshot shows.
CleanIsPublished ==
    \A p \in Procs :
      snapshot.by = p /\ proc[p].open /\ ~proc[p].dirty => snapshot.rows = cache[p]

\* What the cache of a gateway promises.
CacheIsSound == FenceExcludes /\ CursorCovers /\ CleanIsPublished

\* The version is not yet in the cache and published.
Waits(p, t, v) ==
    /\ v \in Timely(t) /\ t \notin doubtful[p]
    /\ v \notin cache[p][t] \/ proc[p].dirty

\* As long as the worker runs, what is committed in order reaches the cache
\* and is published.
CatchesUp ==
    \A p \in Procs :
      <>[](proc[p].running) =>
        \A t \in Tables, v \in Versions : Waits(p, t, v) ~> ~Waits(p, t, v)

\* So it does at a gateway that synchronises and is not stopped.
OwnerKeepsUp ==
    \A p \in Procs :
      <>[](proc[p].main = "run" /\ proc[p].worker # "none") =>
        \A t \in Tables, v \in Versions : Waits(p, t, v) ~> ~Waits(p, t, v)

=============================================================================
