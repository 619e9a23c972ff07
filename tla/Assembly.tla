------------------------------ MODULE Assembly ------------------------------
(***************************************************************************)
(* How a process is put together (lib/core/application_context.py):        *)
(* create() builds the parts from the settings, reports in three banners   *)
(* what is missing, and start() and stop() take and release what the       *)
(* process holds.  The settings differ from the usual ones in a few        *)
(* places, and a few steps fail.                                           *)
(***************************************************************************)
EXTENDS Naturals, FiniteSets

CONSTANTS
    Tools,         \* the required project tools
    Readers,       \* those that get the cache provider
    MaxOddities    \* unusual settings and failures together

ConstantsAssumption ==
    /\ IsFiniteSet(Tools) /\ Readers \subseteq Tools
    /\ MaxOddities \in Nat

VARIABLES
    choices,    \* the settings
    at,         \* the step that comes next
    parts,      \* the ApplicationContext
    held,       \* what the process holds: services, pool, store, claim
    left,       \* of this, what could not be released
    red,        \* the banners that were red
    row,        \* of agent_cache_ownership
    answers,    \* Postgres answers
    troubles    \* failures so far

vars == <<choices, at, parts, held, left, red, row, answers, troubles>>

Services == {"subscriber", "log", "sync", "mirror"}
Resources == Services \cup {"pool", "store", "claim"}

Plugins == {"SessionFileRedirectHook", "RecentFilesHook"}
RequiredHooks == Plugins \cup {"ToolAuditHook", "TerminalToolPrintHook"}

RequiredPatches ==
    {"context_governor", "save_turn", "assemble_outbound", "subagent_logging"}
Patches ==
    RequiredPatches \cup
    {"exec_limits", "exec_timeout_cap", "tool_limits", "turn_delivery_fail", "async_save",
     "session_dir_watch", "document_text_threshold", "session_content_cleanup"}

-----------------------------------------------------------------------------
\* The settings.  Profile-owned table names are always there.
Usual ==
    [role |-> "gateway", storage |-> "auto", dsn |-> TRUE, logging |-> TRUE, audit |-> TRUE,
     tables |-> TRUE, local |-> TRUE, cron |-> TRUE, persist |-> TRUE, watch |-> FALSE,
     tools |-> Tools, gate |-> TRUE, schema |-> TRUE]
Choices ==
    [role : {"gateway", "cli"}, storage : {"auto", "postgres", "file"}, dsn : BOOLEAN,
     logging : BOOLEAN, audit : BOOLEAN, tables : BOOLEAN, local : BOOLEAN, cron : BOOLEAN,
     persist : BOOLEAN, watch : BOOLEAN, tools : SUBSET Tools, gate : BOOLEAN, schema : BOOLEAN]
Unusual(c) == Cardinality({f \in DOMAIN Usual : c[f] # Usual[f]})

CanFail == troubles + Unusual(choices) < MaxOddities
Fault == CanFail /\ troubles' = troubles + 1
NoFault == UNCHANGED troubles

Go(step) == at' = step
\* An exception of create() or start() ends the process without stop().
Raises == Fault /\ Go("failed")

TypeOK ==
    /\ choices \in Choices
    /\ at \in {"storage", "services", "claim", "open", "agent", "patches", "tools", "pool",
               "subscriber", "log", "sync", "mirror", "started", "close", "release", "drop",
               "stopped", "failed"}
    /\ parts.manager \in {"pg", "file", "none"} /\ parts.store \in {"none", "rw", "ro"}
    /\ {parts.log, parts.mirror, parts.cron, parts.factory} \subseteq BOOLEAN
    /\ parts.hooks \subseteq RequiredHooks /\ parts.tools \subseteq Tools
    /\ parts.given \subseteq Tools
    /\ parts.patches \in [Patches -> {"none", "applied", "skipped", "failed"}]
    /\ parts.phase \in {"pending", "cache_ready", "vectors_ready", "unavailable"}
    /\ left \subseteq Resources /\ held \subseteq Resources
    /\ red \subseteq {"hooks", "patches", "tools"} /\ row \in {"free", "mine", "other"}
    /\ answers \in BOOLEAN /\ troubles \in 0..MaxOddities

-----------------------------------------------------------------------------
\* create(): the session manager.  An exception means storage "file" without a manager.
Manager ==
    IF choices.storage = "postgres" \/ (choices.storage = "auto" /\ choices.dsn)
    THEN IF choices.dsn THEN "pg" ELSE "none"
    ELSE IF choices.cron THEN "none" ELSE "file"

StoreSessions ==
    /\ at = "storage" /\ Go("services")
    /\ \/ NoFault /\ parts' = [parts EXCEPT !.manager = Manager]
       \/ Fault /\ parts' = [parts EXCEPT !.manager = "none"]
    /\ UNCHANGED <<choices, held, left, red, row, answers>>

\* The log service and the mirror of the sessions.
MakeServices ==
    /\ at = "services" /\ Go("claim")
    /\ \E importable \in BOOLEAN :
        /\ IF importable THEN NoFault ELSE Fault
        /\ parts' = [parts EXCEPT
             !.log = choices.logging /\ choices.dsn /\ importable,
             !.mirror = parts.manager # "none" /\ choices.dsn]
    /\ UNCHANGED <<choices, held, left, red, row, answers>>

\* The claim of the cache, with the first job of the pool.
HasCache == choices.audit /\ choices.tables /\ choices.dsn

Claim ==
    /\ at = "claim"
    /\ \/ ~HasCache /\ Go("agent") /\ NoFault /\ UNCHANGED <<held, row>>
       \/ /\ HasCache /\ Go("open") /\ NoFault
          /\ row' = IF row = "free" THEN "mine" ELSE row
          /\ held' = held \cup {"pool"} \cup (IF row = "free" THEN {"claim"} ELSE {})
       \/ HasCache /\ Raises /\ held' = held \cup {"pool"} /\ UNCHANGED row
    /\ UNCHANGED <<choices, parts, left, red, answers>>

\* The owner works in memory, if the place of the snapshot is local; a reader opens
\* the snapshot, if there is one.
OpenStore ==
    /\ at = "open"
    /\ \/ /\ row = "mine" /\ choices.local /\ NoFault /\ Go("agent")
          /\ parts' = [parts EXCEPT !.store = "rw"] /\ held' = held \cup {"store"}
       \/ row = "mine" /\ ~choices.local /\ NoFault /\ Go("failed") /\ UNCHANGED <<parts, held>>
       \/ /\ row # "mine" /\ NoFault /\ Go("agent")
          /\ parts' = [parts EXCEPT !.store = "ro"] /\ held' = held \cup {"store"}
       \/ row # "mine" /\ Raises /\ UNCHANGED <<parts, held>>
    /\ UNCHANGED <<choices, left, red, row, answers>>

-----------------------------------------------------------------------------
\* The agent with its hooks.  A plugin that fails is left out, as are all of them with a
\* scan that fails; so are the hook of the terminal and the factory of the log.
HooksDrift(hooks, factory) == RequiredHooks \ hooks # {} \/ ~factory

MakeAgent ==
    /\ at = "agent" /\ Go("patches")
    /\ \E lost \in {{}, Plugins, {"TerminalToolPrintHook"}, {"DatabaseLoggingHook"}}
                   \cup {{h} : h \in Plugins} :
        /\ IF lost = {} THEN NoFault ELSE Fault
        /\ LET hooks == RequiredHooks \ lost
               factory == parts.log /\ "DatabaseLoggingHook" \notin lost
           IN  /\ parts' = [parts EXCEPT !.hooks = hooks, !.factory = factory,
                                !.cron = choices.cron /\ choices.role = "gateway"]
               /\ red' = red \cup (IF HooksDrift(hooks, factory) THEN {"hooks"} ELSE {})
    /\ UNCHANGED <<choices, held, left, row, answers>>

\* What a patch answers when nothing fails: an empty reason, or one of those that
\* count as skipped.
OffBySettings(p) ==
    \/ p \in {"context_governor", "save_turn"} /\ ~choices.persist
    \/ p = "subagent_logging" /\ ~parts.log
    \/ p = "session_dir_watch" /\ ~choices.watch
\* The modules that these patches look for count as skipped when they are not loaded.
Unloaded(p) == p \in {"exec_limits", "tool_limits"}

\* _classify_skip without a list of reasons.
RecordedAsSkip(p, broken) ==
    IF OffBySettings(p) THEN "skipped" ELSE IF p \in broken THEN "skipped" ELSE "applied"

Recorded(p, broken) ==
    IF OffBySettings(p) THEN "skipped"
    ELSE IF p \in broken THEN IF Unloaded(p) THEN "skipped" ELSE "failed"
    ELSE "applied"

ApplyPatches ==
    /\ at = "patches" /\ Go("tools")
    /\ \E broken \in {{}} \cup {{p} : p \in Patches} :
        /\ IF broken = {} THEN NoFault ELSE Fault
        /\ LET report == [p \in Patches |-> Recorded(p, broken)]
           IN  /\ parts' = [parts EXCEPT !.patches = report]
               /\ red' = red \cup
                    (IF \E p \in RequiredPatches : report[p] = "failed" THEN {"patches"} ELSE {})
    /\ UNCHANGED <<choices, held, left, row, answers>>

\* The project tools: one is not imported or a duplicate ("unseen"), one fails, or none
\* is found at all.
ToolsDrift(tools, failed) == (Tools \ tools) \cap choices.tools # {} \/ failed

RegisterTools ==
    /\ at = "tools" /\ Go("pool")
    /\ \E lost \in {{}, Tools} \cup {{t} : t \in Tools}, failed \in BOOLEAN :
        /\ failed => lost # {}
        /\ IF lost = {} THEN NoFault ELSE Fault
        /\ LET tools == choices.tools \ lost
           IN  /\ parts' = [parts EXCEPT !.tools = tools,
                    !.given = IF parts.store = "none" THEN {} ELSE tools \cap Readers]
               /\ red' = red \cup (IF ToolsDrift(tools, failed) THEN {"tools"} ELSE {})
    /\ UNCHANGED <<choices, held, left, row, answers>>

-----------------------------------------------------------------------------
\* start(): the pool, then the check of the schema, which needs Postgres and its tables.
StartPool ==
    /\ at = "pool" /\ held' = held \cup {"pool"}
    /\ \/ choices.schema /\ ~choices.dsn /\ NoFault /\ Go("failed")
       \/ (choices.schema => choices.dsn) /\ NoFault /\ Go("subscriber")
       \/ choices.schema /\ choices.dsn /\ Raises
    /\ UNCHANGED <<choices, parts, left, red, row, answers>>

Wanted(s) ==
    CASE s = "subscriber" -> TRUE
      [] s = "log" -> parts.log
      [] s = "sync" -> parts.store = "rw"
      [] s = "mirror" -> parts.mirror
NextService(s) ==
    CASE s = "subscriber" -> "log" [] s = "log" -> "sync" [] s = "sync" -> "mirror"
      [] s = "mirror" -> "started"

\* The start of the log is not guarded; the others go on without their service.
StartService(s) ==
    /\ at = s
    /\ \/ ~Wanted(s) /\ NoFault /\ Go(NextService(s)) /\ UNCHANGED held
       \/ Wanted(s) /\ NoFault /\ Go(NextService(s)) /\ held' = held \cup {s}
       \/ Wanted(s) /\ s # "log" /\ Fault /\ Go(NextService(s)) /\ UNCHANGED held
       \/ Wanted(s) /\ s = "log" /\ Raises /\ UNCHANGED held
    /\ UNCHANGED <<choices, parts, left, red, row, answers>>

\* The gate gets on, and Postgres stops answering or answers again.
Prepare ==
    /\ at = "started" /\ NoFault
    /\ \E next \in {"cache_ready", "vectors_ready", "unavailable"} :
        /\ next = "cache_ready" => parts.phase = "pending" /\ parts.store # "none"
        /\ next = "vectors_ready" => parts.phase = "cache_ready"
        /\ parts.phase \in {"pending", "cache_ready"}
        /\ parts' = [parts EXCEPT !.phase = next]
    /\ UNCHANGED <<choices, at, held, left, red, row, answers>>

ServerChanges ==
    /\ at = "started" /\ Fault /\ answers' = ~answers
    /\ UNCHANGED <<choices, at, parts, held, left, red, row>>

-----------------------------------------------------------------------------
\* stop(): each step is guarded, so what fails stays and the rest goes on.
Let(what, step) ==
    /\ Go(step)
    /\ \/ NoFault /\ held' = held \ what /\ UNCHANGED left
       \/ \E x \in what \cap held : Fault /\ held' = held \ (what \ {x}) /\ left' = left \cup {x}
    /\ UNCHANGED <<choices, parts, red, answers>>

StopServices == at = "started" /\ Let(Services, "close") /\ UNCHANGED row
CloseStore == at = "close" /\ Let({"store"}, "release") /\ UNCHANGED row

\* The row is deleted through the pool.
Release ==
    /\ at = "release"
    /\ \/ /\ "claim" \in held => answers
          /\ Let({"claim"}, "drop")
       \/ /\ "claim" \in held /\ ~answers /\ NoFault /\ Go("drop")
          /\ left' = left \cup {"claim"}
          /\ UNCHANGED <<choices, parts, red, answers, held>>
    /\ row' = IF row = "mine" /\ "claim" \notin held' THEN "free" ELSE row

StopPool == at = "drop" /\ Let({"pool"}, "stopped") /\ UNCHANGED row

-----------------------------------------------------------------------------
NoParts ==
    [manager |-> "none", log |-> FALSE, mirror |-> FALSE, store |-> "none", cron |-> FALSE,
     hooks |-> {}, factory |-> FALSE, patches |-> [p \in Patches |-> "none"], tools |-> {},
     given |-> {}, phase |-> "pending"]

Fresh ==
    /\ at = "storage" /\ parts = NoParts /\ held = {} /\ left = {} /\ red = {}
    /\ answers = TRUE /\ troubles = 0

Init ==
    /\ choices \in {c \in Choices : Unusual(c) <= MaxOddities}
    /\ row \in {"free", "other"} /\ Fresh

Next ==
    \/ StoreSessions \/ MakeServices \/ Claim \/ OpenStore
    \/ MakeAgent \/ ApplyPatches \/ RegisterTools
    \/ StartPool \/ \E s \in Services : StartService(s)
    \/ Prepare \/ ServerChanges
    \/ StopServices \/ CloseStore \/ Release \/ StopPool

Spec == Init /\ [][Next]_vars

-----------------------------------------------------------------------------
\* Without a red banner every required hook, patch and tool is in force, unless the
\* settings switch it off.
Created == {"pool", "subscriber", "log", "sync", "mirror", "started"}
BannersTellAll ==
    at \in Created /\ red = {} =>
      /\ RequiredHooks \subseteq parts.hooks /\ parts.factory
      /\ \A p \in RequiredPatches :
           \/ parts.patches[p] = "applied"
           \/ p \in {"context_governor", "save_turn"} /\ ~choices.persist
      /\ choices.tools \subseteq parts.tools

\* RuntimeReadiness.check with the checks of _register_readiness_checks.
PostgresUp == parts.manager = "pg" /\ answers
CacheUp == "store" \in held
VectorsUp ==
    parts.store # "none" /\ ~(choices.gate /\ parts.phase \in {"pending", "cache_ready"})
Status ==
    IF ~PostgresUp \/ ~CacheUp THEN "NOT_READY" ELSE IF ~VectorsUp THEN "DEGRADED" ELSE "READY"

\* A process that calls itself ready, without a red banner, mirrors its sessions and
\* gives its tools the cache.
ReadyProcessServes ==
    at = "started" /\ Status = "READY" /\ red = {} =>
      /\ parts.mirror /\ parts.log
      /\ choices.tools \cap Readers \subseteq parts.given

\* The synchronisation runs under the claim, with a store and a pool; the log has a pool.
PoolOutlivesUsers ==
    /\ "sync" \in held \ left => {"claim", "store", "pool"} \subseteq held /\ row = "mine"
    /\ (held \ left) \cap {"log", "mirror"} # {} => "pool" \in held

\* After stop() the process holds only what could not be released.
NothingIsLeft ==
    at = "stopped" => held \subseteq left /\ (row = "mine" => "claim" \in left)

=============================================================================
