# Verification of the nanobot audit gateway

TLA+ models of this repository, the TLC configurations that check them on small
instances, and TLAPS proofs of properties that hold for every instance. Paths
below are relative to `src/`.

## 1. The system

A *gateway* process (`gateway.py`, `lib/lifecycle/`) hosts the agent of the
external library `nanobot-ai`, the *channels* that bring it messages, and
background *services*. Several gateways may run against one Postgres database.
Everything in a gateway runs on one asyncio loop, except the threads of the
database pool, the cache synchronisation, the session synchronisation and the
database log. A web page and a terminal are the users' ends; command line tools
build the index of vectors, summarise documents and run benchmarks.

| Component | State | Interaction | Hard behaviour | Correct means | Modules |
|---|---|---|---|---|---|
| **PostgresChannel** `lib/channels/postgres_channel.py`, **MessageExchange** `lib/channels/message_exchange.py` | user and assistant rows, `agent_worker_claims`; leases, slots, busy chats in memory | web chat by the table; agent by the bus; other gateways by the claims | interleaved processes, cancellation, crash, late lease, failing queries | a message is worked on by one process at a time and its answer is kept; slots balance; every message ends; reasoning and text of a turn stay in its row | `PgChannel`, `TaskQueue`, `AnswerRow` |
| **RedisChannel** `lib/channels/redis_channel.py` | lists of Redis, `reply_to` per chat | shares MessageExchange | restart, trimmed map, several messages of one turn | an answer names the message it answers | `RedisChannel` |
| **Database pool** `workspace/utils/db.py` | job queue, threads, leases of connections | every database call | retries, lost connections, cancelled callers, shutdown | a statement of a transaction runs in that transaction; every call ends | `DbPool`, `DbCalls` |
| **Cache** `lib/services/cache_ownership.py`, `pg_duckdb_sync_service.py`, `duckdb_cache_store.py` | a row of ownership, the DuckDB file, a cursor per table | owner publishes, next owner adopts | expiry, takeover, commits out of order, failing fetches | one writer; no row missed for good; what is published is whole | `CacheSync` |
| **Session cold sync** `lib/services/session_cold_sync_service.py` | JSONL sessions, meta and message rows | agent saves during a cycle | two transactions per session, conditional cleanup | the two tables agree; cleanup removes nothing current | `SessionSync` |
| **Database log** `lib/services/db_logging_service.py` | bounded queue, batch, rows of questions | hooks and channels | full queue, stop while events arrive | every accepted record is written or counted; a finished question stays so | `DbLog` |
| **Hooks and patches** `lib/services/runtime_patcher.py`, `workspace/hooks/` | buckets per session and turn | agent library calls the hooks | overlapping turns, subagents | turns do not mix audits, files, users | `TurnHooks` |
| **Startup gate, lifecycle** `lib/services/startup_gate.py`, `lib/lifecycle/`, `gateway.py` | events, registered components, exit code | all services | failures while starting and stopping | nothing polls before the cache is loaded; what started is stopped, in order | `Lifecycle` |
| **Assembly, settings, registration** `lib/core/application_context.py`, `config.py`, `lib/services/table_registry.py` | parts of a process, merged configuration, registered tables | built once, in order | an option or a step that fails midway | banners tell what is missing; nothing is left behind; profiles do not mix | `Assembly`, `Settings`, `Registry` |
| **Vector index** `tools/build_vectors.py`, `duckdb_cache_store.py` | rows, vectors, index in memory | build runs beside the gateway | kill and failing embedding between two transactions | a row keeps its vectors; a hit belongs to its row | `VectorIndex`, `TextSplitter` |
| **Legal summarizer** `workspace/skills/legal_summarizer/` | document snapshots, parts, results, manifests | run as tools by the agent | runs that die, two runs on one document, failing calls | completed means whole; every block is read; the outline is a tree | `Summarizer`, `Documents`, `Structure` |
| **Audit analyzer** `workspace/skills/audit_analyzer/`, `lib/services/cache_provider_impl.py` | a request, the snapshot it opened, the attempts of the model | reads the published cache, asks a model | the gateway replaces the snapshot meanwhile, a model that must be corrected, named and positional parameters | an answer comes from one snapshot and from SQL that was checked; a parameter reaches its mark | `AuditAnalyzer` |
| **Terminal** `cli_agent.py`, `lib/cli/` | prompt, renderer, background compaction | the bus of the agent | timeouts, answers of an earlier turn | an answer is shown once | `Repl` |
| **Web chat** `streamlit_app.py` | page state, uploads | rows of the channel | reruns, reload, failed inserts | the page shows the rows; uploads are sent once | `WebChat` |
| **Session files** `workspace/utils/session_file_store.py`, `session_file_redirect_hook.py` | files and metadata of a session | tools and agent | kill in a write or between two, cleanup, versions | results are kept, whole and bounded; a version is not overwritten | `SessionFiles` |
| **History search** `workspace/tools/history_search_tool.py` | an offset held by the agent | rows of the log | inserts and purge between pages | no row is skipped | `HistorySearch` |
| **Benchmarks** `benchmarks/` | `config.json`, reports | runs the agent | a runner that dies, two runners | passed means met; the configuration is restored | `Benchmark` |

`hazards` in `PROJECT.json` lists what is hard to test in this code, at its line,
with the properties that cover it. Section 10 lists what is left out.

## 2. The project

* A component has a module with its state, one action per operation, its
  properties and, where an action could easily be written wrong, a variant
  of it (each marked *Variant*) that a property is known to reject.
* `MC…` modules give sizes. A run costs the same start for every component, so
  components without shared state are checked together: `MCServices`,
  `MCProgress` and `MCPgProgress` have a variable that chooses one component
  and keep the others at their start. Each of these modules EXTENDS the
  modules whose sizes are the constants of the configuration and instantiates
  the others, with the sizes in the module.
* `…Proofs` modules hold the theorems.
* Abstract specifications: `TaskQueue` (what the web chat may rely on),
  `DbCalls` (what a caller of the pool may rely on).

Code between two awaits is one step, an autocommit statement is one step, a
transaction takes effect at its commit unless another session can change
between read and write what it read. A thread's work under a lock is one step.
Messages, names, texts and payloads are numbers or members of small sets.

## 3. PgChannel: model and code

*State.* `status`, `retry`, `aged` are the columns `status`,
`metadata.retry_count` and `updated_at` (as "older than the delay that applies")
of a user row; `answer[t][r]` is the status of an assistant row whose `reply_to`
is `t`, `"absent"` if there is none; `claim`, `expired` are `worker_id` and
`lease_until < NOW()` of the row in `agent_worker_claims`. Of each process,
`loop` is the polling coroutine with its local variables, `beat` the lease or
unstick coroutine, `local` the sets the channel keeps in memory, and `turns` the
turns that its agent runs or that `_finalize_turn` is writing. Tasks are numbered by
`created_at`.

*Steps.* Code between two awaits is one step, an autocommit statement is one
step, a transaction takes effect at commit. Two transactions use rows that
another session may change between their SELECT and their write, and are two
steps each: the claim (`Select`, `Insert`) and `_unstick_processing`
(`UnstickRead`, `UnstickApply`).

| Code | Actions |
|---|---|
| `_poll_loop`, `poll_priority_inbound`, `poll_inbound` | `MayPoll`, `NextPoll`, `NothingClaimed`, `PollError` |
| `_claim_one` | `Select`, `Insert`, `ClaimLost` |
| `_claim_one_single` | `ClaimSingle` |
| `_poll_priority_once` | `Recheck`, `Undo`, `Deliver`, `Settle`, `MarkDispatch` |
| `_poll_once` | `Recheck`, `Undo`, `Defer`, `Place`, `Slot`, `MarkDispatch` |
| `_mark_failed` | `MarkFailed` in `MarkDispatch`, `FinalMark`, `FinalUnresolved` |
| `_finalize_turn` | `FinalCheck`, `FinalDrop`, `FinalWrite`, `FinalWriteFails`, `FinalMark` |
| `send` that raises, a turn without final marker | `FinalError` |
| `_cleanup_unresolvable_turn` | `FinalUnresolved` |
| `_lease_loop` | `Heartbeat`, then `Reclaim` (`_reclaim_and_heal`) |
| `_unstick_loop` | `UnstickRead`, `UnstickApply` |
| `stop`, death, `start` | `Stop`, `ReleaseAllLeases`, `Crash`, `Restart` |
| web chat, user, clock | `Submit`, `Cancel`, `Age`, `ExpireLease` |

*Abstractions.* Row ids are not reused while anything refers to them
(`FreeRows`). `retry` stops at `MaxStuckRetries`, beyond which no comparison
changes. `expired` is left as it is when a claim disappears and is reset by the
next `INSERT`. The chat of a task is fixed. Text, reasoning buffers and media are left
out; the calls that may raise on the way to the dispatch are `PollError`.

*Named bounds.* `NumTasks`, `NumRows`, `MaxCrashes`, `MaxFaults` (calls that
raise or come too late); `Punctual` says that a live holder renews its lease, and ends
its work, before the deadline (`lease_interval` 15 s against `processing_timeout`).
Without it a deadline can pass under live work; a lease that is renewed too late counts
as a failing call.

## 4. TaskQueue: what the web chat may rely on

`phase` is what the page shows of a message, `replies` the number of finished
answers. A message waits, is served while no other message of its chat is, and
ends answered (once, together with its reply), abandoned or withdrawn.
`PgChannel!QueueSpec` maps `pending`/`error` to waiting and the completed
assistant rows to `replies`. One process in `single` mode implements it over
crashes and failing calls, which section 9 proves. Several processes do not, see
section 8.

## 5. SessionSync: model and code

A gateway copies its JSONL sessions (`disk`) to two tables, `meta` and
`messages`. A session is the number of the save that wrote it: the code compares
`updated_at` only, and equal times mean equal content. `cycle` holds the place
and the local variables of `_do_sync_batch`: the keys to do, the keys listed, the
key and the snapshot in hand, the keys to remove. A step is one transaction of
`utils.db` or one read of the disk, because the agent of the gateway saves and
deletes sessions between any two of them.

| Code | Actions |
|---|---|
| `_worker`, `_do_sync_batch` | `TryLock`, `Unlock`, `List`, `Listed`, `Halted` |
| `_sync_session_with_detection` | `Take`, `Unreadable`, `ReadRow` |
| `_upsert_meta`, `_replace_messages` | `UpsertMeta`, `ReplaceMessages` |
| `_cleanup_missing` | `CleanupSelect`, `CleanupDelete` |
| `except` of `_worker` and `_cleanup_missing` | `CycleRaises` |
| `stop`, death, `start` | `Stop`, `Crash`, `Start` |
| agent and user | `Save`, `DeleteSession` |

*As the code has it.* The advisory lock is released with the transaction that
took it, before the first session is read (`Unlock`); it therefore orders nothing
after that. `ReadRow` ends the cycle if the session has a row (section 8). The
tolerance and lag comparisons behind that line are unreachable and not modelled.
`stop()` clears `_running` before its final cycle, whose loop then returns before
the first session (`Halted`): the final flush copies nothing, what the next start
makes up for. A session that the agent library leaves out of `list_sessions`
although its file exists is outside the model.

*Bounds.* `MaxSaves`, `MaxFaults` (calls that raise), `MaxStops` (stops and
deaths). Two keys show how a cycle that ends at one session affects the next.
One gateway: with two, `RowsAgree` and `UpToDateRowKept` fail within 15 steps,
because the cleanup of each removes what only the other has, also between the two
transactions of a session, and the lock does not exclude it.

## 6. The other modules

Names in brackets after a module are the property that a run checks and its parts.

**`DbPool`** (`TransactionsAreLeased`, `CallsSpec`, `EveryCallEnds`). `thread[t]`
is a worker thread with its connection and job, `call[c]` what a caller waits for.
Callers: `Plain`, `Transaction`, `Acquire`, the jobs `begin`, `statement`,
`commit`, `rollback`, `Cancel`; threads: `Take`, `Done`, `Refused`,
`NotConnected`, `Lost`, `Shrink`, `Exit`; the process: `Shutdown`, `Joined`. As the
code has it: a plain call is repeated after a lost connection, so it runs at
least once; a cancelled asynchronous acquisition leaks its lease (`gone`); a plain
call that arrives when the last thread has gone waits for ever, which is why its
run allows the system to stop.

**`DbCalls`** is what callers may rely on: between a call and its return its work
takes effect as a whole or not at all, a call that returns has taken effect, one
that rolls back has not; any other error says nothing about the effect.
`DbPool!CallsSpec` maps the stages of a caller to it.

**`CacheSync`** (`CacheIsSound` = `FenceExcludes`, `CursorCovers`,
`CleanIsPublished`; `CatchesUp`). `ownership` is the row of `agent_cache_ownership`
(owner, expired), `lock` the advisory lock of the write fence, `source` the
committed rows with their stamps, `proc` the threads of a process, `cache` its
tables, `cursor` the last polled stamp, `snapshot` the published file. Actions:
`TryClaim`, `Expire`, `Start`/`Adopt`, `Fetch`/`Store`, `EnterFence`,
`LeaveFence`, `FenceFails`, `Publish`, `FinalPublish`, `Close`, `Exit`, `ProcessDies`.
A process runs once, because its id contains its pid. The initial load is
outside the fence.

**`DbLog`** (`LogIsSound` = `EveryRecordIsCounted`, `OwnUser`; `FinishedStays`; `Drains`). `Register`,
`FinishRequest`, `LogEvent`, `StopLog` put into the queue, `TakeEvent`, `TakeRun`,
`TakeSentinel`, `Flush`, `FlushLate` take from it. A full queue refuses, a flush
that fails is counted.

**`AnswerRow`** (`AnswerHoldsItsTurn` = `ReasoningOnce`, `OwnWindow`,
`AnswerIsThere`, `TextIsOwn`; `FinalEnds`). The dispatcher (`Deliver`/`Merge`, `Final`,
`TakeLock`, `AppendRead`/`AppendWrite`/`AppendFails`,
`FinalRead`/`FinalWrite`/`FinalFails`) and
the flush of the reasoning (`Flush…`, with the context window, `Context…`) read one
row and write it back; the flush takes the full buffers in any order. `Stream` fills a
buffer that is found by the id of the stream or, without one, by the chat (`named`,
`KeyOf`); only the end of the stream takes it, and `_finalize_turn` never looks at it.
So `AnswerIsThere` promises a text only to the turns in `given`, to which a tool, a final
message or the end of a stream brought one: text that was streamed before an empty final
message is lost (section 8). `Reclaimed` is what `PgChannel!Reclaim` does to the row.

**`TurnHooks`** (`TurnsKeepApart` = `EventsAreOwn`, `AuditIsOwn`, `SubagentSettled`).
`Inbound`, `StartTurn`, `BeforeIteration`, `BeforeTools`, `BeforeTool`, `AfterTool` or,
for a tool that raises, `ToolRaises`, `AfterIteration`, `Answered`, `AfterRun`, `Assemble`, `Fail` are the turn of a session;
`SubTool`, `PublishEnd`, `Finalize`, `Unsubscribe` a subagent. A session whose question
was overtaken by another (`crowded`) is promised less, as section 8 explains.

**`RedisChannel`** (`AnswersOwn` = `NamedOnce`, `NamesItsOwn`): `Push`, `Poll`,
`Dispatch`, `Send`, `TurnEnds`, `Restart`. A `Dispatch` that raises may leave the entry of
its message in `_reply_to`; `maxSize` is chosen from `MaxSizes` at the start.
`NamesItsOwn` is about users who wait for an answer before they write again (`patient`).
A message that has a `reply_to` of its own (`redis_channel.py:324`; nothing in `src/` sets
it) goes past the map and is not in `outbox`.

**`Lifecycle`** (`StartsAndStopsInOrder` = `ChannelsWaitForCache`,
`UsersStopFirst`, `CleanExit`; `StartupEnds`). The main thread (`StartPool`,
`Validate`, `StartService`, `CheckPort`, `OpenChannels`, `AgentEnds`,
`CloseChannels`, `Backoff`, `StopService`, `Stopped`), the event loop with its
waiter (`CheckFlag`, `Sleep`, `Wake`) and the worker thread that gives the signal
(`Prepare`, `ReadLoop`, `CallLoop`, `SetEvent`).

**`Assembly`** (`BannersTellAll`, `ReadyProcessServes`, `PoolOutlivesUsers`,
`NothingIsLeft`), **`Settings`** (`ProfileIsIsolated`, `KeyIsFound`) and
**`Registry`** (`TablesAreMirrored`, `ColumnsAreDeclared`), together
`AssemblyIsSound`: what `create()`, `start()` and `stop()` take and give back when an
option is unusual or a step fails; the layers of configuration; the tables of the
skills.

**`VectorIndex`** (`RowStaysIndexed`; `IndexIsSound` = `IndexIsExact`,
`CheckIsSound`, `IndexIsCurrent`, `HitsAreTheirs`). `Edit`, the build (`BeginBuild`,
`ReadRows`, `ReadTrack`, `Clear`, `Drop`, `Insert`, `Replace`, `Finish`, `Kill`),
the copy (`UpsertRecords`, `ReplaceRecords`, `Preload`) and the search (`Search`,
`AnswerSearch`). What the build has to do is a set of chunks; it inserts those of new rows
before those of changed ones. **`TextSplitter`** (`SegmentsFit`, `TextIsCovered`)
computes the segments of a text with recursive operators.

**`Summarizer`** (`CompletedIsWhole`): `BeginRun`, the document (`Lookup`,
`ReadPhysical`, `ReadAnalysis`, `Parse`, `Identify`, `Check`, `Install`, `Evict`), the
operation (`Answer`, `Plan`, `Map`, `Persist`, `Reduce`, `WriteResult`,
`SaveManifest`), `Kill`, `Edit`. **`Documents`**: `Cut`, `Plan`, `RunDirect`,
`RunBatch`, `MapEnds`, `ReduceFlat`, `ReduceSections`, `ReduceRound`, `ReduceEnds`.
**`Structure`**: `Load`, `Detect`, `Build`, `Name`, `Repair`, `Validate`
(`StructureIsSound` = `ParentIsNearest`, `BlocksAreOwned`, `RepairKeeps`,
`ReportIsExact`). The last two and `TextSplitter` are checked as
`DocumentIsCovered`.

**`AuditAnalyzer`** (`AnswersAreSound` = `OneSnapshot`, `SqlIsChecked`,
`ModelIsCorrected`, `AnswersHaveReasons`; `ParametersArrive`). `Publish` is the gateway;
`Open`, then one of the modes: `ListScripts`; `ListIndexes`, which has a connection of
its own; `Predefined`, `RunScript` for a script of the registry and its parameters;
`Generated`, `Ask`, `Explain`, `Execute` for SQL by a model; `Vector`, `Embed`, `ShowHits`
for an index. Which statements `validate_sql` refuses is left open (`IsSafe`); what is checked
is that nothing goes past it.

**`Repl`** (`AnswersAreShown`, `ReportIsModest`) and **`WebChat`** (`PageShowsRows`,
`AnswerIsShown`, `FilesAreSent`), together `ScreensAreFaithful`, **`SessionFiles`** (`FilesAreKept` = `ResultsAreKept`,
`VersionsAreKept`, `MediaIsFound`; `ResultIsWhole` is refuted in section 8), in which
`Kill` comes between two writes or in one: of a result (`TornFile`), an attachment, the
metadata (`TornMeta`) or between the removals of a cleanup and its metadata
(`TornCleanup`), **`HistorySearch`** (`HistoryIsRead`, with
`PagesAdvance`), **`Benchmark`** (`BenchmarkIsFair` = `PassedMeansMet`,
`FilesAreOwn`, `ConfigIsRestored`, `ReportsStay`).

## 7. Runs

| Run | Question | Instance |
|---|---|---|
| `processes` | `worker_pool`: is work exclusive, are answers, claims, slots and retries right? And, for itself: can the cache be trusted? | 3 processes, 2 messages, 2 deaths or stops; 2 processes, 2 messages (1 message), a death, 1 (3) calls that fail or heartbeats that come too late; 1 process with 2 slots, a command, a cancellation. Cache: 2 processes, 2 tables, 2 writes, 1 fault |
| `progress` | Does `single` behave as `TaskQueue`, is failed final, does every message end, in both strategies? | `single`: 1 process, 2 messages, one a command, 2 deaths or stops, 2 failing calls; `worker_pool`: 2 processes, 2 messages, 1 death, a cancellation |
| `services` | Safety of the services beside channel, pool and cache | one of them at a time, sizes in the configuration and in `MCServices`; 1.5 million states, two minutes |
| `services_progress` | Do calls, sessions, rows, records, the start and the end of a turn get through; does the pool implement `DbCalls`? | pool: 4 threads, 2 callers, 2 calls of 2 statements, 1 fault; the others as in `MCProgress` |

The other eight runs show the disagreements of section 8.

*Bounds.* Two messages of one chat and two processes show every pairwise race; the third
process recovers what two dead ones held. `MaxStuckRetries` is 2, so that both outcomes
of every retry occur; `NumRows` is large enough that a placeholder can always be
inserted. In the services every queue, map, cache or directory with a limit has one that
the run exceeds, every loop runs at least twice, and every operation that can be killed
or can fail does so once at every place. `maxSize` of the Redis channel is one chat or
two, so that it trims and does not. `MCProcesses!Small` lets either two processes
compete with one write to one table, or one process meet all writes and faults; the
proofs of section 9 cover what it leaves out. The run looks for deadlocks, and
`CacheRests` lets the cache rest where its processes have ended or one has no more to
read. `SessionSync` has one gateway. The answer row is checked with one turn of two
texts and two pieces of reasoning that meets a failure (`answer`), and with two turns of
one each without (`answers`; without reasoning, two streams may share a buffer); the
hooks with two questions of one session, two tool calls and a failure (`turns`), and
with three of two sessions, one of them a command, with a subagent and one call
(`others`); the index with two rows that change twice and are built twice (`vectors`),
and with one change, one build and a search (`searches`); the analyzer in every mode
over two snapshots (`analyzer`), and with every parameter of six scripts (`scripts`).
`Others!…`, `TwoAnswers!…`, `Rebuilt!…`, `OneBuild!…` and the like are instances with
sizes smaller than those of the configuration, so the properties of the extended modules
say the same of them.

*Fairness.* Threads and coroutines that loop are weakly fair: in
`PgChannel!FairSpec` the polling and the lease coroutine of a live process
(`while self._running` with a sleep), the return of the leases, the restart of a
process whose id is configured, time, and the end of a turn, which is an
assumption on the agent library: it answers or its final outbound arrives. In
`MCProgress`: the callers and threads of the pool (a body of a transaction goes on),
the cycle and the restart of the session synchronisation, the worker and the jobs of
the cache, the thread of the log, worker and event loop of the gateway, dispatcher
and flush of the answer row. Nothing is assumed of users, deaths and faults.
`PollingSpec` assumes less than `FairSpec`, only the coroutines of the channel,
because a command must arrive although a turn does not end.

Under these, `TasksFinishUnlessFaulty` holds of `single` as long as no call fails
(section 8 shows that it fails with one), and `PoolTasksFinish` over a death and a
cancellation. With two slots a user who cancels the same message without end can
keep it from ending, since a deferral puts it back to `pending`; the run has
one slot. `CatchesUp` says that what is committed reaches the published
cache while one process stays the running owner; a former owner that waits for the lock is
not promised anything. `EveryCallEnds` leaves out the call of section 6.

## 8. Where the code and its documents disagree

Each of the first is a run that TLC refutes, listed under `findings` in
`PROJECT.json`.

- `single_error_blocks`: in `single` mode a row in `error` is offered by the
  subquery of the claim and refused by its outer `WHERE`. It is never retried, and as
  the oldest candidate it keeps the messages behind it from being claimed.
- `answered_twice`: a process that selected a candidate before another one
  claimed, answered and released it inserts its claim afterwards and answers
  again. The primary key protects a task only while its claim exists.
- `cancel_overwritten`: the `UPDATE` of the claim does not look at the status,
  so a cancellation between SELECT and UPDATE is lost before the re-check.
- `command_waits`: a priority command is not a candidate while a turn of its
  chat runs, the turn it is meant to stop.
- `reasoning_lost`: the last transaction of a turn reads the metadata and writes
  it back without the lock of the flush; reasoning stored in between is
  overwritten.
- `partial_result`: `save` writes a result under its last name, which ends with the
  hash of the content. A kill in that write leaves a part of it there; the next save of
  the same content finds the name, does not look into the file and returns it.
- `never_updated`: `_read_pg_updated_at` returns the datetime of the row, and its
  caller asks it for `.get("updated_at")`. For a session that has a row the cycle
  raises, so no session is ever updated, and neither the sessions after it nor the
  cleanup are reached. `FirstSessionArrives` is what remains of the promise.
- `claim_expires`: nothing calls `heartbeat`, so the claim of the cache expires a
  minute after it was taken and the synchronisation ends at its next poll.

Others, met while modelling, have no run of their own; the models have what the
code does:

- `PgChannel`: two processes can take two messages of one chat at once (both
  find it idle); a `failed` message can return to `processing` by a stale candidate;
  a delivered command stays in `processing` without claim until the heal step, and
  can be delivered again; a query that raises after the claim leaves a lease that its
  process renews and never reclaims; a turn without message id leaves its
  placeholder open; the failed dispatch of a command frees the chat of a running
  turn when `max_concurrent` exceeds 1.
- `AnswerRow`: text that was streamed is lost when the turn ends with a final message
  without text instead of the end of its stream (`postgres_channel.py:1863` takes what is
  in the row); without `stream_id` and `_stream_id` it stays under the chat (`:1943`) and
  comes out with the next stream of the chat. A call that fails while the rest of the reasoning
  is appended (`:1827-1839`) leaves the turn open and that reasoning lost.
- `RedisChannel`: `send` does not filter typed events, so a progress event may use
  up the `reply_to` of the answer; the slot is released at dispatch and bounds
  nothing.
- `Lifecycle`: an agent that crashes is not restarted (`gateway.py:481` swallows
  it, `gateway_runner.py:3` promises a restart); the drain of the bus
  (`application_context.py:688`) comes after the loop has ended; a
  synchronisation that fails to start leaves the gateway waiting for ever (`:566`).
- `Assembly`: with the gate on, the report of `start()` is never READY; `stop()`
  stops subscriber and log before the drain whose comment says otherwise; a
  `create()` that raises leaves pool, claim and store; `storage=postgres` without
  DSN silently falls back to files.
- `Settings`: a key in `.secrets` overrides the operator's environment although
  the comment gives the latter priority. `Registry`: `tracking_column_for`
  (`table_registry.py:296-314`) answers for any table from the first skill.
- `Summarizer`: a second process that installs the same snapshot meets an
  `OSError` of `os.replace` (`document_cache.py:250`), which
  `pipeline_structure.py:234` does not catch. `Documents`: chunks of the root are left
  out of the final hierarchical summary (`hierarchical.py:220-227`);
  `_is_root_chunk` asks for ids the root never has; two headings at one block
  give overlapping sections. `Structure`: the outline is read only if the
  name ends in lower case `.pdf`; equal destinations give two entries
  (`pdf_outline.py:31-34` promises one).
- `VectorIndex`: an index without `track_column` is asked for `MAX(None)`, because
  `read_vector_index_config` sets the key in any case (`cache_provider_impl.py:357`) and
  the default of `build_vectors.py:510` is never taken; `docs/VECTOR_INDEXES.md:90`
  promises `updated_at`. The store ignores `top_k` when a threshold is given; a
  replacement that leaves no vector does not mark the store dirty. `TextSplitter`:
  without overlap everything after the first window of a long word is lost, and an
  overlap as large as the size never ends. `HistorySearch`: a negative limit
  gives an empty page and `has_more` for ever.
- `AuditAnalyzer`: `list_runtime_vector_indexes` (`cache_provider_impl.py:178-186`)
  takes `gateway.cache.local_path`, the directory of the file, for the file, so that
  `--list-indexes` may answer with an empty list for a cache that has indexes
  (`cli.py:305-316` promises what the search will see). A comment says that a registry
  that is not available is no error (`generated_sql_mode.py:163-166`), but a skill that is
  not registered raises there, uncaught. The text by which a busy database ends the
  attempts (`:248`, `:254`) is written by nobody. A declared index without rows, and
  an embedding that fails, answer with success and no documents. The tables of the skill have
  their schema in the name (`project.json:177-180`) and the schema for the prompt is
  filtered by bare names, so the prompt has no columns and the whitelist names
  `"oarb"."oarb.audits"`. `project.json:203` says that `scripts/cli.py` was removed.
- `Repl`: after a timeout a late answer may be shown again or taken for the next
  one; without renderer streamed answers are not shown. `WebChat`: the query of
  the history leaves out failed rows, so a failed question disappears; a reload
  loses the wait; files are taken from the widget before the insert that may fail.
- `SessionFiles`: metadata that a killed write left broken make every later save
  fail after it wrote its file; after 999 versions the base file is overwritten.
  `Benchmark`: two runners with their own models, or a kill between write and
  restore, leave the override in `config.json`.
- `TurnHooks`: a second message of a session overwrites the entry of the first,
  whose row then stays `running`; a subagent may report its end twice.
- `CacheSync`: the generation restarts at 1 after a release, and the initial
  load goes round the write fence (`entrypoints/spec.md:480` forbids it).

## 9. Proofs

TLAPS proves these for every value of the constants that the assumptions of the
modules allow, and for any number of crashes and faults.

| Module | Theorem | States | Condition | Argument |
|---|---|---|---|---|
| `PgChannelProofs` | `TypeCorrect` | `TypeOK` | | inductive by itself; `HoldsTask` is the part that needs it (a coroutine past its poll holds a task) |
| | `FailuresAreCounted` | `FailedUsedUpRetries` | | every step that sets `failed` also counts, and counts never go back |
| | `SlotsAreBalanced` | `SlotAccounting` | no commands, or one slot | `SlotInv`: permits plus `_inflight` is `max_concurrent`, a task about to get its slot holds none yet |
| | `ChatsAreSerial` | `OneTurnPerWorkerChat` | same | the part of `SlotInv` that says that the chat of every task in `_inflight` is in `_chat_inflight` and in `_msg_chat` |
| | `WorkIsClaimed` | `WorkHasClaim` | nothing cancelled | `ClaimInv`: a task whose claim is about to be deleted by `Undo` or `Settle` must be known not to be in processing (`UndoInv`) or to be a command (`UrgentInv`) |
| | `WorkStaysExclusive` | `WorkIsExclusive` | `worker_pool`, nothing cancelled | `CalmInv`, as long as no call failed or came too late: a lease in memory is an own claim, not expired, of a task in processing, `_inflight` is part of the leases, a turn is the only one of its task |
| | `AnswersStay` | `AnswersAreKept` | same | the part of `CalmInv` about rows: an open placeholder belongs to a claimed task in processing, and if its holder still has the lease, then the coroutine or a turn of the holder is going to close it |
| | `QueueIsImplemented` | `QueueSpec` | `SingleAssumption` | refinement: `SingleInv` keeps what is in the coroutine's hand and in a turn in processing, with one holder and an open placeholder, and what the unstick loop has read stuck; each step is one of `TaskQueue` or a stutter |
| | `FailedStaysFailed` | `FailedIsFinal` | same | no step of `TaskQueue` leaves `abandoned` |
| `CacheSyncProofs` | `TypeCorrect` | types | | |
| | `FenceIsExclusive` | `FenceExcludes` | | `FenceInv`: who holds the lock polls, and a worker that polls was started |
| | `CacheCanBeTrusted` | `CacheIsSound` | | `CoverInv`: stamps grow with the commits, the cursor never passes what a fetch has not seen, a store brings all of its fetch, so nothing at or below the cursor is missing |
| `DbPoolProofs` | `TypeCorrect` | types | | |
| | `TransactionsBelong` | `TransactionsAreLeased` | | `ThreadsInv`: a job of a transaction is only on the thread of its lease |
| | `CallersSeeDbCalls` | `CallsSpec` | | refinement: `PoolInv` knows what is durable at each stage of a caller (`CallsInv`) and that every job is awaited and in order (`JobsInv`); each step is one of `DbCalls` or a stutter |
| `ServicesProofs` (`SessionSync`, `DbLog`, `Summarizer`, `Lifecycle`) | `SyncTypeCorrect` | `TypeOK` | | only the cleanup holds keys to remove, or a new listing could meet them |
| | `TablesAgree` | `RowsAgree` | one gateway | `SyncInv`/`InHand`: before the two transactions of a session there is no row, between them the row is the snapshot |
| | `CleanupIsSafe` | `UpToDateRowKept` | one gateway | `SyncInv`/`Behind`: a key that was not listed is gone from the disk or was saved later than any row of it |
| | `LogTypeCorrect` | types | | |
| | `LogStaysSound` | `LogIsSound` | | `CountInv`: what was accepted is written, counted, in the queue or in the batch, with one sentinel (`SentinelOnce`); `UsersInv`: in the queue, the batch and the table an event has the user of its question or none |
| | `FinishedQuestionsStay` | `FinishedStays` | | `OrderInv`: the end of a question is behind its beginning, and nothing queued begins a finished one |
| | `SummaryTypeCorrect` | types | | |
| | `ResultsAreWhole` | `CompletedIsWhole` | | `ManifestIsRight` and `RunIsRight`: every chunk is still to be written, has failed or has its file, and the result is written before the manifest |
| | `LifecycleTypeCorrect` | types | | |
| | `StartsAndStops` | `StartsAndStopsInOrder` | | `LifecycleInv`: the log is started before its users, the signal is given after the load and everything behind the wait has seen it |
| `VectorIndexProofs` | `TypeCorrect` | types | | the largest stamp of a set of rows is one of them (`Smallest`, from the well-founded order of finite sets) |
| | `RowsStayIndexed` | `RowStaysIndexed` | | `VectorsInv`: a vector of this build is in place before those of an earlier one are removed |
| | `IndexStaysSound` | `IndexIsSound` | | `VectorsInv`: of every row, what this build inserted, what it still has to insert and what failed are together one set of chunks, beside the whole set of an earlier build; `CheckInv`: a row that may differ from its vectors has a stamp later than theirs, unless the build is no longer sure of it |
| `AuditAnalyzerProofs` | `TypeCorrect` | types | | |
| | `AnswersStaySound` | `AnswersAreSound` | | `AnalyzerInv`: one snapshot is open and nothing else was read (`ReadsInv`), the failure to be told is that of the last answer (`DialogInv`), where the answer will come from (`SourceInv`) |
| `MessageProofs` (`RedisChannel`, `TurnHooks`) | `ChannelTypeCorrect` | types | | |
| | `AnswersStayOwn` | `AnswersOwn` | | `ChannelInv`: an id is in the list, in the map or written, at one of them (`IdsInv`), a message is at one place until its turn is over (`PlacesInv`), a patient chat has one message and the map no other id of it (`PatientInv`) |
| | `TurnsTypeCorrect` | `TurnsTypeOK` | | |
| | `TurnsStayApart` | `TurnsKeepApart` | | `TurnsInv`: the questions of a session wait in their order (`QueueInv`); registry and hook name a question of the session, the lone one if it is alone (`NamesInv`); what is in a bucket is of the turn or of turns that are over without an answer, a call with an outcome has its path unless its tool raised (`BucketInv`); a subagent is closed once (`SubsInv`) |
| `AnswerRowProofs` | `TypeCorrect` | types | | |
| | `RowsHoldTheirTurn` | `AnswerHoldsItsTurn` | | `RowInv`: a piece of reasoning is buffered, sent, flushed or stored, at one of them and once (`PlaceInv`, `OnceInv`); the bridge of a chat names its open turn (`WindowInv`); every text in a row, a buffer or a hand is of its turn (`SourceInv`); a turn in `given` has a text in its row or in the hand of the dispatcher (`TextInv`) |

The conditions are real: section 8 says which code breaks the property without
them, and the next two paragraphs what it is for the channel. The temporal steps use
`PTL` only.

*Why no call may have failed* (`WorkStaysExclusive`, `AnswersStay`). When the insert of
the placeholder fails, `Defer` sets the status back before `Undo` deletes the claim; in
between `Reclaim` of another process may heal the claim away and that process claim the
task, while the first still has a lease: a stop of the first then gives the task back
under the other's turn and deletes its placeholder. `FinalUnresolved` fails the task
and leaves its placeholder open. A lease renewed too late is reclaimed under the live
turn. And a cancelled task loses its claim to the heal step, after which a stale
candidate of another process claims it. TLC finds each of these with one failing call
or one cancellation of one message.

*What `SingleAssumption` says* (`QueueIsImplemented`, `FailedStaysFailed`): strategy
`single`, one process, `Punctual`, no priority commands, no cancellations; calls may
fail and the process may die, stop and return as often as it likes. With two processes,
one may unstick a message that the other has given back and claimed again since it read
the rows. Without `Punctual` the unstick loop takes live work back. A
cancellation between the check and the write of a final, or before a deferral, is
overwritten. A command whose dispatch failed stays in `_msg_chat`, and with three faults a
final without message id of its chat fails the command while it waits; run `progress`
covers a command with two. Each was found by TLC.

Model-checked only:

* liveness, and what depends on `ENABLED`, which are beyond TLAPS: the progress runs,
  and the fairness of section 7;
* what is computed from data of any length: the segments of a text, the sections and the
  packing of a document, the statement of a script (`DocumentIsCovered`,
  `ParametersArrive`). These are recursions, folds and selections over sequences, which
  need an induction over data; the provers here cannot instantiate the theorems for it;
* `ScreensAreFaithful`, `FilesAreKept`, `HistoryIsRead`, `BenchmarkIsFair` and
  `AssemblyIsSound`, whose components have no proofs. What they decide is computed from
  sequences as above, or over few values, of which the run has every one;
* of `ServicesTypeOK`, the types of those components; the types of the others are proved.

A theorem about a module holds for the constants its assumption allows. `MCServices`
evaluates the assumptions for the sizes of the run.
## 10. Not modelled

Within modelled components: media coding and the text of events; the length limit
of the queue of the pool and calls nested in a transaction; tables without key,
the Windows lock and the terminal's role as a reader of the cache; the scores and
evidence of headings (nothing uses them), truncation to input budgets, the brief
mode of the summarizer; `--dry-run`, `--status` and `--validate-only` of the build;
a tracking column that is no time of change (the indexes of `project.json` have
`updated_at`; another column may stay the same when its row changes, and `--check` would
not see it) and how times compare as texts; which statements `validate_sql` refuses;
loading, filtering and comparison of benchmarks; patches that change one call
of the agent library; the validation of single settings. Two processes in `single` mode:
the documents ask for `worker_pool` there. Two gateways in `SessionSync`: its
properties fail with them, see section 5.

Whole components: the facade of the cache provider apart from what the analyzer reads
through it (what else it adds to the store has no caller), the storage of sessions in
Postgres alone (`PGSessionManager`: one statement or transaction per call), the skill
that strengthens formulations of an audit (a sequential command line tool around model
calls), the stateless query tools, migrations.

The agent library, Postgres, Redis and DuckDB are not in this repository; what
the code needs of them is in the actions that call them: turns end, callbacks of
one session come in order, a transaction is atomic, a unique index refuses.
