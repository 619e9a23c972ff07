---------------------------- MODULE MCProcesses ----------------------------
(***************************************************************************)
(* Several processes at the tables they share: at the tasks of PgChannel   *)
(* with the strategy "worker_pool", in four settings, or at the claim of   *)
(* the cache, CacheSync.  Every behaviour chooses one of these.  The       *)
(* constants of the module are those of the setting "crash": three         *)
(* processes of which two may die or stop.                                 *)
(***************************************************************************)
EXTENDS PgChannel, CacheSync

CONSTANTS w1, w2, w3, p1, p2, t1, t2, i1

VARIABLE setting

all == <<setting, vars, cacheVars>>

\* All tasks are messages of one chat; the last of them is a priority command.
OneChat == [t \in Tasks |-> "chatA"]

\* Two processes, one of which may die or stop, and a call that fails or a heartbeat that
\* comes too late.
Failing == INSTANCE PgChannel WITH Punctual <- FALSE, MaxCrashes <- 1, MaxFaults <- 1

\* The same with up to three of them, and one message.
Late == INSTANCE PgChannel WITH Punctual <- FALSE, MaxCrashes <- 1, MaxFaults <- 3

\* One process that may be started again has two slots and gets a command, and a
\* message may be cancelled.
Commanded == INSTANCE PgChannel WITH
    MaxConcurrent <- 2, StableIds <- TRUE, Cancellable <- {1}, MaxCrashes <- 1

ASSUME CacheConstants == CacheAssumption

-----------------------------------------------------------------------------
In(s) == setting = s

\* The messages after the n-th are not sent; the last one is the command.
Sent(n) == \A t \in n+1..NumTasks : status'[t] = "new"

\* The processes W are the only ones there are.
Only(W) == \A v \in Workers \ W : loop'[v] = loop[v] /\ beat'[v] = beat[v]

\* Either two processes compete for the cache; then there is one write, to t1, and no
\* fault while both live.  Or one process meets all writes and faults.
Competing == proc[p2].main # "new"
Small ==
    Competing =>
      /\ clock <= 2 /\ newest[t2] = 0 /\ \A x \in open : x.table = t1
      /\ losses = 0 \/ \E p \in {p1, p2} : proc[p].main = "gone"

\* A process without the claim, or that is gone, does nothing more at the cache.
CacheRests ==
    /\ In("cache") /\ \A p \in {p1, p2} : proc[p].main \in {"new", "reader", "gone"}
    /\ UNCHANGED all

PoolNext ==
    \/ In("crash") /\ Next /\ Sent(2)
    \/ In("errors") /\ Failing!Next /\ Sent(2) /\ Only({w1, w2})
    \/ In("late") /\ Late!Next /\ Sent(1) /\ Only({w1, w2})
    \/ In("commands") /\ Commanded!Next /\ Only({w1})

ProcessesInit ==
    /\ \/ In("crash") /\ Init
       \/ In("errors") /\ Failing!Init
       \/ In("late") /\ Late!Init
       \/ In("commands") /\ Commanded!Init
       \/ In("cache") /\ Init
    /\ CacheInit

ProcessesNext ==
    \/ PoolNext /\ UNCHANGED <<setting, cacheVars>>
    \/ In("cache") /\ CacheNext /\ Small' /\ UNCHANGED <<setting, vars>>
    \/ CacheRests

ProcessesSpec == ProcessesInit /\ [][ProcessesNext]_all

=============================================================================
