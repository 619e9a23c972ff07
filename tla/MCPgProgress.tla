---------------------------- MODULE MCPgProgress ----------------------------
(***************************************************************************)
(* What must eventually happen to the messages of PgChannel, in two        *)
(* settings of which every behaviour chooses one.  The constants of the    *)
(* module are those of a gateway with the strategy "single", to which a    *)
(* failing call, a crash and a stop may happen, and whose safety is        *)
(* checked as well.  The other setting has variables of its own.           *)
(***************************************************************************)
EXTENDS PgChannel

CONSTANTS w1, w2

VARIABLES
    setting,
    poolStatus, poolRetry, poolAged, poolClaim, poolExpired, poolAnswer, poolLoop,
    poolLocal, poolBeat, poolTurns, poolDelivered, poolCrashes, poolFaults

pool == <<poolStatus, poolRetry, poolAged, poolClaim, poolExpired, poolAnswer,
          poolLoop, poolLocal, poolBeat, poolTurns, poolDelivered, poolCrashes,
          poolFaults>>
all == <<setting, vars, pool>>

\* All tasks are messages of one chat.
OneChat == [t \in Tasks |-> "chatA"]

\* Two processes, one of which may die, and a cancellation.
PoolChannel == INSTANCE PgChannel WITH
    status <- poolStatus, retry <- poolRetry, aged <- poolAged,
    claim <- poolClaim, expired <- poolExpired, answer <- poolAnswer,
    loop <- poolLoop, local <- poolLocal, beat <- poolBeat,
    turns <- poolTurns, delivered <- poolDelivered, crashes <- poolCrashes,
    faults <- poolFaults,
    Workers <- {w1, w2}, NumRows <- 2,
    Commands <- {}, Strategy <- "worker_pool", StableIds <- FALSE,
    Cancellable <- {1}, MaxCrashes <- 1, MaxFaults <- 0

-----------------------------------------------------------------------------
In(s) == setting = s

ProgressInit == setting \in {"single", "pool"} /\ Init /\ PoolChannel!Init

ProgressNext ==
    \/ In("single") /\ Next /\ UNCHANGED <<setting, pool>>
    \/ In("pool") /\ PoolChannel!Next /\ UNCHANGED <<setting, vars>>

\* The fairness of PgChannel in both settings.
ProgressFairness ==
    /\ \A w \in Workers :
         /\ WF_vars(In("single") /\ Poll(w)) /\ WF_vars(In("single") /\ Upkeep(w))
         /\ WF_vars(In("single") /\ ReleaseAllLeases(w))
         /\ WF_vars(In("single") /\ Restart(w))
    /\ \A u \in Turns : WF_vars(In("single") /\ u \in turns /\ Finish(u))
    /\ \A t \in Tasks : /\ WF_vars(In("single") /\ Age(t))
                        /\ WF_vars(In("single") /\ ExpireLease(t))
    /\ \A w \in {w1, w2} :
         /\ WF_pool(In("pool") /\ PoolChannel!Poll(w))
         /\ WF_pool(In("pool") /\ PoolChannel!Upkeep(w))
         /\ WF_pool(In("pool") /\ PoolChannel!ReleaseAllLeases(w))
         /\ WF_pool(In("pool") /\ PoolChannel!Restart(w))
    /\ \A u \in PoolChannel!Turns :
         WF_pool(In("pool") /\ u \in poolTurns /\ PoolChannel!Finish(u))
    /\ \A t \in Tasks : /\ WF_pool(In("pool") /\ PoolChannel!Age(t))
                        /\ WF_pool(In("pool") /\ PoolChannel!ExpireLease(t))

ProgressSpec == ProgressInit /\ [][ProgressNext]_all /\ ProgressFairness

\* Every message of the pool ends answered, failed or cancelled, although a process
\* may die and leases run out.
PoolTasksFinish == In("pool") => PoolChannel!EveryTaskFinishes

=============================================================================
