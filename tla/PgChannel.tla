------------------------------ MODULE PgChannel ------------------------------
(***************************************************************************)
(* PostgresChannel (lib/channels/postgres_channel.py) and the polling and  *)
(* concurrency engine it shares with the other channels, MessageExchange   *)
(* (lib/channels/message_exchange.py).                                     *)
(*                                                                         *)
(* A set of gateway processes reads user messages ("tasks") from one       *)
(* table, hands them to its agent and writes the answers back.  The module *)
(* covers both values of gateway.parallel.claim_strategy: "single" and     *)
(* "worker_pool".                                                          *)
(*                                                                         *)
(* The grain of atomicity is that of asyncio and of the database: code     *)
(* between two awaits is one step, an autocommit statement is one step, a  *)
(* transaction takes effect at its commit.  Two transactions act on rows   *)
(* that another session may change after they read them; each is two       *)
(* steps: the claim of worker_pool mode (Select, Insert) and               *)
(* _unstick_processing (UnstickRead, UnstickApply).                        *)
(***************************************************************************)
EXTENDS Integers, FiniteSets

CONSTANTS
    Workers,          \* worker_id of every gateway process
    NoWorker,         \* "no row in agent_worker_claims"
    NumTasks,         \* user messages, numbered in the order of created_at
    ChatOf,           \* the chat_id of every task
    Commands,         \* tasks whose content is a priority command
    Strategy,         \* "single" or "worker_pool"
    MaxConcurrent,    \* max_concurrent
    MaxStuckRetries,  \* max_stuck_retries
    NumRows,          \* bound: assistant rows of one task at one time
    StableIds,        \* worker_id comes from the config and survives a restart
    Punctual,         \* a live holder never lets its deadline pass
    Cancellable,      \* tasks the web application may cancel
    MaxCrashes,       \* bound: processes that die or stop
    MaxFaults         \* bound: database and bus calls that raise or come too late

Tasks == 1..NumTasks
Rows == 1..NumRows
Chats == {ChatOf[t] : t \in Tasks}
Pool == Strategy = "worker_pool"

ASSUME ConstantsAssumption ==
    /\ NoWorker \notin Workers
    /\ NumTasks \in Nat /\ NumRows \in Nat \ {0}
    /\ DOMAIN ChatOf = Tasks
    /\ Commands \subseteq Tasks /\ Cancellable \subseteq Tasks
    /\ Strategy \in {"single", "worker_pool"}
    /\ MaxConcurrent \in Nat \ {0} /\ MaxStuckRetries \in Nat \ {0}
    /\ StableIds \in BOOLEAN /\ Punctual \in BOOLEAN
    /\ MaxCrashes \in Nat /\ MaxFaults \in Nat

VARIABLES
    \* The database.
    status,     \* status of the user row; "new" before the row is inserted
    retry,      \* metadata.retry_count, counted up to MaxStuckRetries
    aged,       \* updated_at is older than the delay that applies to status
    claim,      \* worker_id of the row in agent_worker_claims, or NoWorker
    expired,    \* lease_until < NOW() for that row
    answer,     \* status of every assistant row with reply_to = the task
    \* The processes.
    loop,       \* the polling coroutine: where it is, and its local variables
    local,      \* the sets the channel object keeps in memory
    beat,       \* the lease or unstick coroutine, with the rows it has read
    turns,      \* turns the agents run or the channel is finalising
    delivered,  \* how often a command reached an agent (0, 1, 2 = "again")
    \* Bounds on the environment.
    crashes, faults

db == <<status, retry, aged, claim, expired, answer>>
vars == <<status, retry, aged, claim, expired, answer,
          loop, local, beat, turns, delivered, crashes, faults>>

Statuses == {"new", "pending", "processing", "error",
             "completed", "failed", "cancelled"}
Terminal == {"completed", "failed", "cancelled"}
RowStatuses == {"absent", "processing", "completed", "failed"}

\* Where the polling coroutine can be; "priority" and "normal" are the two
\* polls of one iteration of _poll_loop.
Idle == {"priority", "normal"}
InTask == {"insert", "check", "deliver", "settle", "place", "slot",
           "defer", "undo", "drop", "mark"}
Running == Idle \cup InTask

Loops == [at : Running \cup {"stopping", "off"}, task : Tasks \cup {0},
          row : Rows \cup {0}, urgent : BOOLEAN]
Locals == [lease : SUBSET Tasks, ctx : SUBSET Tasks, inflight : SUBSET Tasks,
           busy : SUBSET Chats, msgChat : SUBSET Tasks, permits : Nat]
Stale == [task : Tasks, retry : 0..MaxStuckRetries]
Beats == [at : {"sleep", "apply"}, read : SUBSET Stale]
Turns == [worker : Workers, task : Tasks, row : Rows,
          at : {"running", "write", "drop", "mark"}]

\* A coroutine that is past its poll holds a task, and the id of the
\* placeholder from its INSERT to its dispatch.
HoldsTask(l) == /\ l.at \in InTask => l.task \in Tasks
                /\ l.at = "slot" => l.row \in Rows

\* The rows, the claims and the memory of every process are well formed: the
\* status column, a plain TEXT, only ever holds one of the seven values the
\* code and the web application agree on.
TypeOK ==
    /\ status \in [Tasks -> Statuses]
    /\ retry \in [Tasks -> 0..MaxStuckRetries]
    /\ aged \in [Tasks -> BOOLEAN]
    /\ claim \in [Tasks -> Workers \cup {NoWorker}]
    /\ expired \in [Tasks -> BOOLEAN]
    /\ answer \in [Tasks -> [Rows -> RowStatuses]]
    /\ loop \in [Workers -> Loops]
    /\ \A w \in Workers : HoldsTask(loop[w])
    /\ local \in [Workers -> Locals]
    /\ beat \in [Workers -> Beats]
    /\ turns \in SUBSET Turns
    /\ delivered \in [Tasks -> 0..2]
    /\ crashes \in 0..MaxCrashes
    /\ faults \in 0..MaxFaults

-----------------------------------------------------------------------------
\* What the actions share.

Up(w) == loop[w].at \in Running

AtTop(path) == [at |-> path, task |-> 0, row |-> 0, urgent |-> FALSE]
Asleep == [at |-> "sleep", read |-> {}]
FreshLocal == [lease |-> {}, ctx |-> {}, inflight |-> {}, busy |-> {},
               msgChat |-> {}, permits |-> MaxConcurrent]

\* retry_count only matters through "retry_count >= max_stuck_retries", so
\* the count is not followed beyond that limit.
Bumped(n) == IF n < MaxStuckRetries THEN n + 1 ELSE n
ExhaustedEarly(n) == n >= MaxStuckRetries - 1  \* variant: one attempt short
Exhausted(n) == n >= MaxStuckRetries

Fault == faults < MaxFaults /\ faults' = faults + 1

\* MessageExchange.is_slot_free.
IsSlotFree(w) == Cardinality(local[w].inflight) < MaxConcurrent

\* Variant with a mistake, to see that the properties notice it: the semaphore is
\* released in any case.
ReleaseSlotAlways(l, t) ==
    [l EXCEPT !.inflight = @ \ {t},
              !.permits = @ + 1,
              !.lease = @ \ {t},
              !.busy = IF t \in l.msgChat THEN @ \ {ChatOf[t]} ELSE @,
              !.msgChat = @ \ {t}]

\* _release_slot: idempotent for the semaphore, and it forgets the chat.
ReleaseSlot(l, t) ==
    [l EXCEPT !.inflight = @ \ {t},
              !.permits = IF t \in l.inflight THEN @ + 1 ELSE @,
              !.lease = @ \ {t},
              !.busy = IF t \in l.msgChat THEN @ \ {ChatOf[t]} ELSE @,
              !.msgChat = @ \ {t}]

\* What every end of a turn does: _msg_ctx.pop, _leases.discard, _release_slot.
Forget(l, t) == ReleaseSlot([l EXCEPT !.ctx = @ \ {t}], t)

\* Variant: the DELETE does not compare worker_id.
DeleteClaimsOfAnyone(w, T) ==
    [t \in Tasks |-> IF Pool /\ t \in T THEN NoWorker ELSE claim[t]]

\* _delete_claim: WHERE task_id = .. AND worker_id = self; a no-op in single.
DeleteClaims(w, T) ==
    [t \in Tasks |-> IF Pool /\ t \in T /\ claim[t] = w THEN NoWorker
                     ELSE claim[t]]

SetRow(t, r, s) ==
    [answer EXCEPT ![t][r] = IF @ = "absent" THEN "absent" ELSE s]

\* Ids of assistant rows that nothing refers to any more; the smallest of
\* them stands for the new UUID of an INSERT.
FreeRows(t) ==
    {r \in Rows : /\ answer[t][r] = "absent"
                  /\ \A u \in turns : ~(u.task = t /\ u.row = r)
                  /\ \A w \in Workers : ~(loop[w].task = t /\ loop[w].row = r)}

\* ORDER BY created_at ASC LIMIT 1: no element or one.
Oldest(S) == {t \in S : \A u \in S : t <= u}

\* Variant: the chat is not looked at.
ChatIdleAlways(c) == c \in Chats

\* The candidate query of _claim_one and _claim_one_single.
ChatIdle(c) == \A u \in Tasks : ChatOf[u] = c => status[u] # "processing"
Eligible(t) == status[t] = "pending" \/ (status[t] = "error" /\ aged[t])
Candidates(scope) ==
    {t \in scope : /\ Eligible(t)
                   /\ Pool => claim[t] = NoWorker
                   /\ ChatIdle(ChatOf[t])}

\* The rows a poll looks at, and whether it looks at all.
Scope(w) == IF loop[w].at = "priority" THEN Commands ELSE Tasks
MayPoll(w) == loop[w].at = "priority" \/ (loop[w].at = "normal" /\ IsSlotFree(w))
NextPoll(w) == IF loop[w].at = "priority" THEN AtTop("normal") ELSE AtTop("priority")

-----------------------------------------------------------------------------
\* The web application: it inserts user rows and may cancel them.

Submit(t) ==
    /\ status[t] = "new"
    /\ \A u \in Tasks : u < t => status[u] # "new"
    /\ status' = [status EXCEPT ![t] = "pending"]
    /\ UNCHANGED <<retry, aged, claim, expired, answer,
                   loop, local, beat, turns, delivered, crashes, faults>>

Cancel(t) ==
    /\ t \in Cancellable
    /\ status[t] \in {"pending", "processing", "error"}
    /\ status' = [status EXCEPT ![t] = "cancelled"]
    /\ aged' = [aged EXCEPT ![t] = FALSE]
    /\ UNCHANGED <<retry, claim, expired, answer,
                   loop, local, beat, turns, delivered, crashes, faults>>

-----------------------------------------------------------------------------
\* Time.  error_retry_delay and processing_timeout are measured on
\* updated_at, the lease on lease_until.

\* A live process still works on t.
InWork(t) == \/ \E u \in turns : u.task = t
             \/ \E w \in Workers : loop[w].at \in InTask /\ loop[w].task = t

Age(t) ==
    /\ ~aged[t]
    /\ \/ status[t] = "error"
       \/ ~Pool /\ status[t] = "processing" /\ (Punctual => ~InWork(t))
    /\ aged' = [aged EXCEPT ![t] = TRUE]
    /\ UNCHANGED <<status, retry, claim, expired, answer,
                   loop, local, beat, turns, delivered, crashes, faults>>

\* A process renews its claims while it holds any lease; one that is not
\* punctual may do so too late, which counts as a call that failed.
ExpireLease(t) ==
    LET renewed == loop[claim[t]].at # "off" /\ local[claim[t]].lease # {} IN
    /\ claim[t] # NoWorker
    /\ ~expired[t]
    /\ \/ ~renewed /\ UNCHANGED faults
       \/ renewed /\ ~Punctual /\ Fault
    /\ expired' = [expired EXCEPT ![t] = TRUE]
    /\ UNCHANGED <<status, retry, aged, claim, answer,
                   loop, local, beat, turns, delivered, crashes>>

-----------------------------------------------------------------------------
\* _claim_one in worker_pool mode: SELECT the candidate, then INSERT the
\* claim and set the status; the UPDATE does not look at the status again.

Select(w) ==
    /\ Pool /\ MayPoll(w)
    /\ \E t \in Oldest(Candidates(Scope(w))) :
         loop' = [loop EXCEPT ![w] = [at |-> "insert", task |-> t, row |-> 0,
                                      urgent |-> loop[w].at = "priority"]]
    /\ UNCHANGED <<db, local, beat, turns, delivered, crashes, faults>>

\* Variant: task_id is not unique.
InsertOverClaim(w) ==
    LET t == loop[w].task IN
    /\ loop[w].at = "insert"
    /\ claim' = [claim EXCEPT ![t] = w]
    /\ expired' = [expired EXCEPT ![t] = FALSE]
    /\ status' = [status EXCEPT ![t] = "processing"]
    /\ aged' = [aged EXCEPT ![t] = FALSE]
    /\ local' = [local EXCEPT ![w].lease = @ \cup {t}]
    /\ loop' = [loop EXCEPT ![w].at = "check"]
    /\ UNCHANGED <<retry, answer, beat, turns, delivered, crashes, faults>>

Insert(w) ==
    LET t == loop[w].task IN
    /\ loop[w].at = "insert"
    /\ claim[t] = NoWorker
    /\ claim' = [claim EXCEPT ![t] = w]
    /\ expired' = [expired EXCEPT ![t] = FALSE]
    /\ status' = [status EXCEPT ![t] = "processing"]
    /\ aged' = [aged EXCEPT ![t] = FALSE]
    /\ local' = [local EXCEPT ![w].lease = @ \cup {t}]
    /\ loop' = [loop EXCEPT ![w].at = "check"]
    /\ UNCHANGED <<retry, answer, beat, turns, delivered, crashes, faults>>

\* The unique index on task_id refuses the INSERT: roll back and select again.
ClaimLost(w) ==
    /\ loop[w].at = "insert"
    /\ claim[loop[w].task] # NoWorker
    /\ loop' = [loop EXCEPT ![w] =
                  AtTop(IF loop[w].urgent THEN "priority" ELSE "normal")]
    /\ UNCHANGED <<db, local, beat, turns, delivered, crashes, faults>>

\* _claim_one_single: the subquery finds pending and error rows, the outer
\* WHERE takes the one it found only if it is pending.
ClaimSingle(w) ==
    /\ ~Pool /\ MayPoll(w)
    /\ \E t \in Oldest(Candidates(Scope(w))) :
         /\ status[t] = "pending"
         /\ status' = [status EXCEPT ![t] = "processing"]
         /\ aged' = [aged EXCEPT ![t] = FALSE]
         /\ local' = [local EXCEPT ![w].lease = @ \cup {t}]
         /\ loop' = [loop EXCEPT ![w] =
                       [at |-> "check", task |-> t, row |-> 0,
                        urgent |-> loop[w].at = "priority"]]
    /\ UNCHANGED <<retry, claim, expired, answer,
                   beat, turns, delivered, crashes, faults>>

\* The poll has no slot, or its query returns no row.
NothingClaimed(w) ==
    /\ loop[w].at \in Idle
    /\ \/ ~MayPoll(w)
       \/ Oldest(Candidates(Scope(w))) = {}
       \/ ~Pool /\ \E t \in Oldest(Candidates(Scope(w))) : status[t] = "error"
    /\ loop' = [loop EXCEPT ![w] = NextPoll(w)]
    /\ UNCHANGED <<db, local, beat, turns, delivered, crashes, faults>>

-----------------------------------------------------------------------------
\* After the claim: read the status again, then dispatch.

\* Variant: _chat_inflight is not consulted.
RecheckWithoutChat(w) ==
    LET t == loop[w].task IN
    /\ loop[w].at = "check"
    /\ loop' = [loop EXCEPT ![w].at =
                  IF status[t] = "cancelled" THEN "drop"
                  ELSE IF loop[w].urgent THEN "deliver" ELSE "place"]
    /\ UNCHANGED <<db, local, beat, turns, delivered, crashes, faults>>

Recheck(w) ==
    LET t == loop[w].task IN
    /\ loop[w].at = "check"
    /\ loop' = [loop EXCEPT ![w].at =
                  IF status[t] = "cancelled" THEN "drop"
                  ELSE IF loop[w].urgent THEN "deliver"
                  ELSE IF ChatOf[t] \in local[w].busy THEN "defer"
                  ELSE "place"]
    /\ UNCHANGED <<db, local, beat, turns, delivered, crashes, faults>>

\* _poll_priority_once publishes the command: no slot, no placeholder.
Deliver(w) ==
    LET t == loop[w].task IN
    /\ loop[w].at = "deliver"
    /\ local' = [local EXCEPT ![w].msgChat = @ \cup {t}]
    /\ \/ /\ delivered' = [delivered EXCEPT ![t] = IF @ < 2 THEN @ + 1 ELSE @]
          /\ loop' = [loop EXCEPT ![w].at = "settle"]
          /\ UNCHANGED faults
       \/ /\ Fault
          /\ loop' = [loop EXCEPT ![w].at = "mark"]
          /\ UNCHANGED delivered
    /\ UNCHANGED <<db, beat, turns, crashes>>

\* After a delivered command: delete the claim, forget the task.
Settle(w) ==
    LET t == loop[w].task IN
    /\ loop[w].at = "settle"
    /\ claim' = DeleteClaims(w, {t})
    /\ local' = [local EXCEPT ![w].lease = @ \ {t}, ![w].ctx = @ \ {t},
                              ![w].msgChat = @ \ {t}]
    /\ loop' = [loop EXCEPT ![w] = AtTop("priority")]
    /\ UNCHANGED <<status, retry, aged, expired, answer,
                   beat, turns, delivered, crashes, faults>>

\* _insert_assistant_message, or its except branch.
Place(w) ==
    LET t == loop[w].task IN
    /\ loop[w].at = "place"
    /\ \/ /\ \E r \in Oldest(FreeRows(t)) :
               /\ answer' = [answer EXCEPT ![t][r] = "processing"]
               /\ loop' = [loop EXCEPT ![w].at = "slot", ![w].row = r]
          /\ local' = [local EXCEPT ![w].ctx = @ \cup {t}]
          /\ UNCHANGED faults
       \/ /\ Fault
          /\ loop' = [loop EXCEPT ![w].at = "defer"]
          /\ UNCHANGED <<answer, local>>
    /\ UNCHANGED <<status, retry, aged, claim, expired,
                   beat, turns, delivered, crashes>>

\* acquire_slot (it blocks while the semaphore is at zero), the in-memory
\* marks, and _handle_message.
Slot(w) ==
    LET t == loop[w].task IN
    /\ loop[w].at = "slot"
    /\ local[w].permits > 0
    /\ local' = [local EXCEPT ![w].permits = @ - 1,
                              ![w].inflight = @ \cup {t},
                              ![w].busy = @ \cup {ChatOf[t]},
                              ![w].msgChat = @ \cup {t}]
    /\ \/ /\ turns' = turns \cup {[worker |-> w, task |-> t,
                                   row |-> loop[w].row, at |-> "running"]}
          /\ loop' = [loop EXCEPT ![w] = AtTop("priority")]
          /\ UNCHANGED faults
       \/ /\ Fault
          /\ loop' = [loop EXCEPT ![w].at = "mark"]
          /\ UNCHANGED turns
    /\ UNCHANGED <<db, beat, delivered, crashes>>

\* Give a claimed task back: the status first ...
Defer(w) ==
    LET t == loop[w].task IN
    /\ loop[w].at = "defer"
    /\ status' = [status EXCEPT ![t] = "pending"]
    /\ aged' = [aged EXCEPT ![t] = FALSE]
    /\ loop' = [loop EXCEPT ![w].at = "undo"]
    /\ UNCHANGED <<retry, claim, expired, answer,
                   local, beat, turns, delivered, crashes, faults>>

\* ... then the claim and the lease.  A cancelled task comes here directly.
Undo(w) ==
    LET t == loop[w].task IN
    /\ loop[w].at \in {"undo", "drop"}
    /\ claim' = DeleteClaims(w, {t})
    /\ local' = [local EXCEPT ![w].lease = @ \ {t},
                              ![w].ctx = IF loop[w].at = "drop" THEN @ \ {t} ELSE @]
    /\ loop' = [loop EXCEPT ![w] =
                  AtTop(IF loop[w].urgent THEN "normal" ELSE "priority")]
    /\ UNCHANGED <<status, retry, aged, expired, answer,
                   beat, turns, delivered, crashes, faults>>

\* A database call of the polling coroutine raises: _poll_loop logs it and
\* starts over; nothing that was claimed or remembered is undone.  Deleting a
\* claim is a call in worker_pool mode only.
PollError(w) ==
    /\ \/ loop[w].at \in {"check", "defer", "mark"}
       \/ Pool /\ loop[w].at \in {"settle", "undo", "drop"}
    /\ Fault
    /\ loop' = [loop EXCEPT ![w] = AtTop("priority")]
    /\ UNCHANGED <<db, local, beat, turns, delivered, crashes>>

-----------------------------------------------------------------------------
\* _mark_failed for the tasks T, with the assistant rows row[t] (0: none
\* known).  One transaction per task; they touch disjoint rows.
MarkFailed(w, T, row) ==
    /\ retry' = [t \in Tasks |-> IF t \in T THEN Bumped(retry[t]) ELSE retry[t]]
    /\ status' = [t \in Tasks |-> IF t \notin T THEN status[t]
                                  ELSE IF Exhausted(retry'[t]) THEN "failed"
                                  ELSE "error"]
    /\ aged' = [t \in Tasks |-> t \notin T /\ aged[t]]
    /\ answer' = [t \in Tasks |-> [r \in Rows |->
                    IF t \in T /\ r = row /\ answer[t][r] # "absent"
                    THEN IF Exhausted(retry'[t]) THEN "failed" ELSE "absent"
                    ELSE answer[t][r]]]
    /\ claim' = DeleteClaims(w, T)
    /\ UNCHANGED expired

\* _handle_message raised.
MarkDispatch(w) ==
    LET t == loop[w].task IN
    /\ loop[w].at = "mark"
    /\ MarkFailed(w, {t}, loop[w].row)
    /\ local' = [local EXCEPT ![w] = Forget(@, t)]
    /\ loop' = [loop EXCEPT ![w] = AtTop("priority")]
    /\ UNCHANGED <<beat, turns, delivered, crashes, faults>>

-----------------------------------------------------------------------------
\* _finalize_turn: read the status, then write the answer.

Becomes(u, at) == turns' = (turns \ {u}) \cup {[u EXCEPT !.at = at]}

FinalCheck(u) ==
    /\ u.at = "running"
    /\ Becomes(u, IF status[u.task] = "cancelled" THEN "drop" ELSE "write")
    /\ UNCHANGED <<db, loop, local, beat, delivered, crashes, faults>>

FinalWrite(u) ==
    /\ u.at = "write"
    /\ answer' = SetRow(u.task, u.row, "completed")
    /\ status' = [status EXCEPT ![u.task] = "completed"]
    /\ aged' = [aged EXCEPT ![u.task] = FALSE]
    /\ claim' = DeleteClaims(u.worker, {u.task})
    /\ local' = [local EXCEPT ![u.worker] = Forget(@, u.task)]
    /\ turns' = turns \ {u}
    /\ UNCHANGED <<retry, expired, loop, beat, delivered, crashes, faults>>

\* The transaction raises: _mark_failed("write_error") in the next step.
FinalWriteFails(u) ==
    /\ u.at = "write"
    /\ Fault
    /\ Becomes(u, "mark")
    /\ UNCHANGED <<db, loop, local, beat, delivered, crashes>>

FinalMark(u) ==
    /\ u.at = "mark"
    /\ MarkFailed(u.worker, {u.task}, u.row)
    /\ local' = [local EXCEPT ![u.worker] = Forget(@, u.task)]
    /\ turns' = turns \ {u}
    /\ UNCHANGED <<loop, beat, delivered, crashes, faults>>

\* The status query, the DELETE of the claim or _mark_failed itself raises:
\* the exception leaves send(), the in-memory state stays.  The same comes of
\* a handler whose last outbound lacks the FINAL_TURN_KEY marker.
FinalError(u) ==
    /\ u.at \in {"running", "drop", "mark"}
    /\ Fault
    /\ turns' = turns \ {u}
    /\ UNCHANGED <<db, loop, local, beat, delivered, crashes>>

\* The user cancelled while the model was working: drop the answer.  The two
\* DELETEs are one step, no other code touches these rows of a cancelled task.
FinalDrop(u) ==
    /\ u.at = "drop"
    /\ answer' = SetRow(u.task, u.row, "absent")
    /\ claim' = DeleteClaims(u.worker, {u.task})
    /\ local' = [local EXCEPT ![u.worker] = Forget(@, u.task)]
    /\ turns' = turns \ {u}
    /\ UNCHANGED <<status, retry, aged, expired,
                   loop, beat, delivered, crashes, faults>>

\* The final outbound carries neither message_id nor answer_id:
\* _cleanup_unresolvable_turn fails every task of the chat in _msg_chat,
\* without an assistant id.
FinalUnresolved(u) ==
    LET w == u.worker
        T == {t \in local[w].msgChat : ChatOf[t] = ChatOf[u.task]} IN
    /\ u.at = "running"
    /\ Fault
    /\ MarkFailed(w, T, 0)
    /\ local' = [local EXCEPT
                   ![w].ctx = @ \ T, ![w].lease = @ \ T,
                   ![w].permits = @ + Cardinality(T \cap local[w].inflight),
                   ![w].inflight = @ \ T, ![w].msgChat = @ \ T,
                   ![w].busy = @ \ {ChatOf[u.task]}]
    /\ turns' = turns \ {u}
    /\ UNCHANGED <<loop, beat, delivered, crashes>>

-----------------------------------------------------------------------------
\* The lease loop of worker_pool mode: heartbeat first, then reclaim.

\* Every claim of this worker_id is renewed, if any lease is held in memory.
Heartbeat(w) ==
    /\ Pool /\ Up(w) /\ beat[w].at = "sleep"
    /\ expired' = [t \in Tasks |-> expired[t] /\ ~(claim[t] = w /\ local[w].lease # {})]
    /\ beat' = [beat EXCEPT ![w].at = "apply"]
    /\ UNCHANGED <<status, retry, aged, claim, answer,
                   loop, local, turns, delivered, crashes, faults>>

\* What a recovered task becomes after its retry count is n.
Recovered(n) == IF Exhausted(n) THEN "failed" ELSE "pending"
\* Variant: the placeholder is reset like the task.
RecoveredRowReset(n, s) ==
    IF Exhausted(n) THEN IF s = "processing" THEN "failed" ELSE s
    ELSE IF s \in {"processing", "failed"} THEN "pending" ELSE s
RecoveredRow(n, s) ==
    IF Exhausted(n) THEN IF s = "processing" THEN "failed" ELSE s
    ELSE IF s \in {"processing", "failed"} THEN "absent" ELSE s

\* Variants: lease_until is not compared; only the own claims are looked at.
OverdueAtOnce(w) ==
    {t \in Tasks : claim[t] # NoWorker /\ ~(t \in local[w].lease /\ claim[t] = w)}
OverdueOwn(w) ==
    {t \in Tasks : claim[t] = w /\ expired[t] /\ t \notin local[w].lease}

\* _reclaim_and_heal, one transaction.
Overdue(w) ==
    {t \in Tasks : /\ claim[t] # NoWorker /\ expired[t]
                   /\ ~(t \in local[w].lease /\ claim[t] = w)}

Reclaim(w) ==
    LET lost == Overdue(w)
        open == {t \in lost : status[t] = "processing"}
        claim1 == [t \in Tasks |-> IF t \in lost THEN NoWorker ELSE claim[t]]
        status1 == [t \in Tasks |-> IF t \in open THEN Recovered(Bumped(retry[t]))
                                    ELSE status[t]]
        status2 == [t \in Tasks |-> IF status1[t] = "processing" /\ claim1[t] = NoWorker
                                    THEN "error" ELSE status1[t]]
    IN
    /\ Pool /\ Up(w) /\ beat[w].at = "apply"
    /\ retry' = [t \in Tasks |-> IF t \in open THEN Bumped(retry[t]) ELSE retry[t]]
    /\ status' = status2
    /\ aged' = [t \in Tasks |-> aged[t] /\ status2[t] = status[t]]
    /\ answer' = [t \in Tasks |-> [r \in Rows |->
                    IF t \in lost THEN RecoveredRow(Bumped(retry[t]), answer[t][r])
                    ELSE answer[t][r]]]
    /\ claim' = [t \in Tasks |-> IF status2[t] = "processing" THEN claim1[t]
                                 ELSE NoWorker]
    /\ beat' = [beat EXCEPT ![w] = Asleep]
    /\ UNCHANGED <<expired, loop, local, turns, delivered, crashes, faults>>

-----------------------------------------------------------------------------
\* _unstick_loop of single mode.  The transaction reads the stuck rows and
\* then updates them by id without looking at the status again.

\* Variant: only the tasks this process remembers.
UnstickReadKnown(w) ==
    /\ ~Pool /\ Up(w) /\ beat[w].at = "sleep"
    /\ beat' = [beat EXCEPT ![w] =
                  [at |-> "apply",
                   read |-> {[task |-> t, retry |-> retry[t]] :
                               t \in {t \in local[w].lease : status[t] = "processing" /\ aged[t]}}]]
    /\ UNCHANGED <<db, loop, local, turns, delivered, crashes, faults>>

UnstickRead(w) ==
    /\ ~Pool /\ Up(w) /\ beat[w].at = "sleep"
    /\ beat' = [beat EXCEPT ![w] =
                  [at |-> "apply",
                   read |-> {[task |-> t, retry |-> retry[t]] :
                               t \in {t \in Tasks : status[t] = "processing" /\ aged[t]}}]]
    /\ UNCHANGED <<db, loop, local, turns, delivered, crashes, faults>>

\* A placeholder of a task that is not in processing; it has been open long
\* enough for the transaction to fail it, or not yet.
Orphans == {t \in Tasks : status[t] # "processing" /\ (Punctual => ~InWork(t))}

UnstickApply(w) ==
    LET read == beat[w].read
        T == {x.task : x \in read}
        Count(t) == Bumped(CHOOSE n \in 0..MaxStuckRetries :
                             [task |-> t, retry |-> n] \in read)
        known == {t \in T : t \in local[w].ctx \cup local[w].inflight}
    IN
    /\ ~Pool /\ Up(w) /\ beat[w].at = "apply"
    /\ retry' = [t \in Tasks |-> IF t \in T THEN Count(t) ELSE retry[t]]
    /\ status' = [t \in Tasks |-> IF t \in T THEN Recovered(Count(t)) ELSE status[t]]
    /\ aged' = [t \in Tasks |-> t \notin T /\ aged[t]]
    /\ \E old \in SUBSET (Orphans \ T) :
         answer' = [t \in Tasks |-> [r \in Rows |->
                      IF t \in T THEN RecoveredRow(Count(t), answer[t][r])
                      ELSE IF t \in old /\ answer[t][r] = "processing" THEN "failed"
                      ELSE answer[t][r]]]
    /\ local' = [local EXCEPT
                   ![w].ctx = @ \ known, ![w].lease = @ \ known,
                   ![w].permits = @ + Cardinality(known \cap local[w].inflight),
                   ![w].inflight = @ \ known,
                   ![w].busy = @ \ {ChatOf[t] : t \in known \cap local[w].msgChat},
                   ![w].msgChat = @ \ known]
    /\ beat' = [beat EXCEPT ![w] = Asleep]
    /\ UNCHANGED <<claim, expired, loop, turns, delivered, crashes, faults>>

-----------------------------------------------------------------------------
\* Processes stop, die and start again.

Halt(w, at) ==
    /\ crashes < MaxCrashes
    /\ crashes' = crashes + 1
    /\ loop' = [loop EXCEPT ![w] = AtTop(at)]
    /\ turns' = {u \in turns : u.worker # w}
    /\ beat' = [beat EXCEPT ![w] = Asleep]
    /\ UNCHANGED <<db, delivered, faults>>

Crash(w) ==
    /\ loop[w].at # "off"
    /\ Halt(w, "off")
    /\ local' = [local EXCEPT ![w] = FreshLocal]

\* stop(): the agent is closed before the channel, the polling and the lease
\* coroutines are cancelled ...
Stop(w) ==
    /\ Up(w)
    /\ Halt(w, "stopping")
    /\ UNCHANGED local

\* Variant: every task with a lease is given back, whatever its status.
ReleaseAllLeasesAnyStatus(w) ==
    LET back == local[w].lease IN
    /\ loop[w].at = "stopping"
    /\ status' = [t \in Tasks |-> IF t \in back THEN "pending" ELSE status[t]]
    /\ aged' = [t \in Tasks |-> t \notin back /\ aged[t]]
    /\ claim' = DeleteClaims(w, local[w].lease)
    /\ answer' = [t \in Tasks |-> [r \in Rows |->
                    IF t \in local[w].lease /\ answer[t][r] = "processing"
                    THEN "absent" ELSE answer[t][r]]]
    /\ local' = [local EXCEPT ![w] = FreshLocal]
    /\ loop' = [loop EXCEPT ![w] = AtTop("off")]
    /\ UNCHANGED <<retry, expired, beat, turns, delivered, crashes, faults>>

\* ... and _release_all_leases gives the tasks back.
ReleaseAllLeases(w) ==
    LET back == {t \in local[w].lease : status[t] = "processing"} IN
    /\ loop[w].at = "stopping"
    /\ status' = [t \in Tasks |-> IF t \in back THEN "pending" ELSE status[t]]
    /\ aged' = [t \in Tasks |-> t \notin back /\ aged[t]]
    /\ claim' = DeleteClaims(w, local[w].lease)
    /\ answer' = [t \in Tasks |-> [r \in Rows |->
                    IF t \in local[w].lease /\ answer[t][r] = "processing"
                    THEN "absent" ELSE answer[t][r]]]
    /\ local' = [local EXCEPT ![w] = FreshLocal]
    /\ loop' = [loop EXCEPT ![w] = AtTop("off")]
    /\ UNCHANGED <<retry, expired, beat, turns, delivered, crashes, faults>>

\* With generated ids a new process is a new element of Workers.
Restart(w) ==
    /\ StableIds
    /\ loop[w].at = "off"
    /\ loop' = [loop EXCEPT ![w] = AtTop("priority")]
    /\ UNCHANGED <<db, local, beat, turns, delivered, crashes, faults>>

-----------------------------------------------------------------------------
Init ==
    /\ status = [t \in Tasks |-> "new"]
    /\ retry = [t \in Tasks |-> 0]
    /\ aged = [t \in Tasks |-> FALSE]
    /\ claim = [t \in Tasks |-> NoWorker]
    /\ expired = [t \in Tasks |-> FALSE]
    /\ answer = [t \in Tasks |-> [r \in Rows |-> "absent"]]
    /\ loop = [w \in Workers |-> AtTop("priority")]
    /\ local = [w \in Workers |-> FreshLocal]
    /\ beat = [w \in Workers |-> Asleep]
    /\ turns = {}
    /\ delivered = [t \in Tasks |-> 0]
    /\ crashes = 0 /\ faults = 0

Claim(w) == Select(w) \/ Insert(w) \/ ClaimLost(w) \/ ClaimSingle(w)
Poll(w) == \/ Claim(w) \/ NothingClaimed(w) \/ Recheck(w)
           \/ Deliver(w) \/ Settle(w)
           \/ Place(w) \/ Slot(w) \/ Defer(w) \/ Undo(w) \/ MarkDispatch(w)
Finish(u) == FinalCheck(u) \/ FinalWrite(u) \/ FinalMark(u) \/ FinalDrop(u)
Upkeep(w) == Heartbeat(w) \/ Reclaim(w) \/ UnstickRead(w) \/ UnstickApply(w)

Environment ==
    \/ \E t \in Tasks : Submit(t) \/ Cancel(t) \/ Age(t) \/ ExpireLease(t)
    \/ \E w \in Workers : PollError(w) \/ Crash(w) \/ Stop(w) \/ Restart(w)
    \/ \E u \in turns : FinalWriteFails(u) \/ FinalError(u) \/ FinalUnresolved(u)

Next ==
    \/ \E w \in Workers : Poll(w) \/ Upkeep(w) \/ ReleaseAllLeases(w)
    \/ \E u \in turns : Finish(u)
    \/ Environment

Spec == Init /\ [][Next]_vars

Fairness ==
    /\ \A w \in Workers : /\ WF_vars(Poll(w)) /\ WF_vars(Upkeep(w))
                          /\ WF_vars(ReleaseAllLeases(w)) /\ WF_vars(Restart(w))
    /\ \A u \in Turns : WF_vars(u \in turns /\ Finish(u))
    /\ \A t \in Tasks : WF_vars(Age(t)) /\ WF_vars(ExpireLease(t))

FairSpec == Spec /\ Fairness

-----------------------------------------------------------------------------
\* Safety.

Holds(w, t) == t \in local[w].inflight

\* Every slot taken from the semaphore is accounted for by a task in
\* _inflight: neither a double release (max_concurrent exceeded) nor a slot
\* lost for good (acquire_slot, release_slot, _release_slot).
SlotAccounting ==
    \A w \in Workers :
      local[w].permits + Cardinality(local[w].inflight) = MaxConcurrent

\* Two processes never work on one task at the same time (the purpose of
\* agent_worker_claims): between the claim and the end of the turn.
ExclusiveTurn ==
    \A t \in Tasks : \A v, w \in Workers : Holds(v, t) /\ Holds(w, t) => v = w

\* A lease that a process believes to hold is really its row in
\* agent_worker_claims, as long as the task is in processing.
LeaseHasClaim ==
    Pool => \A w \in Workers : \A t \in local[w].lease :
              status[t] = "processing" => claim[t] = w

\* Half of the documented invariant "processing <=> claim": a task other
\* than a priority command is never in processing without a claim, so that
\* the heal step of _reclaim_and_heal never turns live work into an error.
WorkHasClaim ==
    Pool => \A t \in Tasks \ Commands :
              status[t] = "processing" => claim[t] # NoWorker

\* The answer is not lost: a task is completed only together with an
\* assistant row that carries the answer (_finalize_turn updates the row by
\* id, and reclaim may have deleted it).
CompletedHasAnswer ==
    \A t \in Tasks : status[t] = "completed" =>
      \E r \in Rows : answer[t][r] = "completed"

\* The web client never polls a placeholder that nobody will fill: a
\* completed or failed task has no assistant row in processing.
NoOpenRowOfFinished ==
    \A t \in Tasks : status[t] \in {"completed", "failed"} =>
      \A r \in Rows : answer[t][r] # "processing"

\* As long as no call fails or comes too late, live work is exclusive: no
\* two processes have a turn of one task, and a lease is the row of its process.
WorkIsExclusive == faults = 0 => ExclusiveTurn /\ LeaseHasClaim

\* So long the readers of the table can rely on it: what is completed has its
\* answer, and nothing that is finished has a placeholder that stays open.
AnswersAreKept == faults = 0 => CompletedHasAnswer /\ NoOpenRowOfFinished

\* failed is reached only after max_stuck_retries counted attempts, whichever
\* of _mark_failed, reclaim and unstick counted them.
FailedUsedUpRetries ==
    \A t \in Tasks : status[t] = "failed" => retry[t] >= MaxStuckRetries

\* One process runs at most one turn of a chat (_chat_inflight), also when
\* the database already shows the chat as idle because the user cancelled.
OneTurnPerWorkerChat ==
    \A w \in Workers : \A t, u \in Tasks :
      Holds(w, t) /\ Holds(w, u) /\ ChatOf[t] = ChatOf[u] => t = u

\* A task is answered at most once.
AnsweredOnce ==
    \A t \in Tasks : Cardinality({r \in Rows : answer[t][r] = "completed"}) <= 1

-----------------------------------------------------------------------------
\* What a step may never do.

\* failed is terminal: the row is never taken up again.
FailedIsFinal ==
    [][\A t \in Tasks : status[t] = "failed" => status'[t] = "failed"]_vars

\* A cancellation by the web application is not overwritten.
CancelIsFinal ==
    [][\A t \in Tasks : status[t] = "cancelled" => status'[t] = "cancelled"]_vars

-----------------------------------------------------------------------------
\* Progress.

\* Every message ends answered, failed or cancelled, over crashes, restarts
\* and leases that run out.
EveryTaskFinishes ==
    \A t \in Tasks : status[t] = "pending" ~> status[t] \in Terminal

\* As long as no call failed, every message ends so, with priority commands
\* between the ordinary ones.
TasksFinishUnlessFaulty ==
    \A t \in Tasks :
      status[t] = "pending" ~> (status[t] \in Terminal \/ faults > 0)

\* The coroutines of the channel make progress; the agent need not.
PollingSpec ==
    Spec /\ \A w \in Workers : WF_vars(Poll(w)) /\ WF_vars(Upkeep(w))

\* A priority command is taken up although a turn of its chat runs.
CommandIsTaken ==
    \A t \in Commands : status[t] = "pending" ~> status[t] # "pending"

-----------------------------------------------------------------------------
\* The queue that the users of the table see.

Phase(s) ==
    CASE s = "new" -> "absent"
      [] s \in {"pending", "error"} -> "waiting"
      [] s = "processing" -> "serving"
      [] s = "completed" -> "answered"
      [] s = "failed" -> "abandoned"
      [] s = "cancelled" -> "withdrawn"

Queue == INSTANCE TaskQueue WITH
    phase <- [t \in Tasks |-> Phase(status[t])],
    replies <- [t \in Tasks |-> Cardinality({r \in Rows : answer[t][r] = "completed"})]

\* The table as its readers see it is a queue in which a chat is served one
\* message at a time, an answer appears together with "completed" and only
\* once, and a finished message never comes back.
QueueSpec == Queue!Spec

=============================================================================
