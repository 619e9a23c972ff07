----------------------------- MODULE TurnHooks -----------------------------
(***************************************************************************)
(* What the turns of several sessions leave in the log and in the answers. *)
(* DatabaseLoggingHook finds the question of a turn by the session; the    *)
(* buckets of ToolAuditHook and RecentFilesHook are emptied when the       *)
(* answer is put together (lib/services/runtime_patcher.py), and subagents *)
(* have hooks of their own.  The agent library runs the turns of a session *)
(* one after the other and calls the hooks.                                *)
(***************************************************************************)
EXTENDS Integers, Sequences, FiniteSets, SequencesExt

CONSTANTS
    NumQuestions,
    Session,       \* the session of every question
    Commands,      \* questions that are answered without a turn
    Subagents,
    MaxTools,      \* bound: tool calls of a turn
    MaxFailed      \* bound: turns that fail or are cancelled, tools that raise

QuestionIds == 1..NumQuestions

TurnsAssumption ==
    /\ {NumQuestions, MaxTools, MaxFailed} \subseteq Nat
    /\ QuestionIds \subseteq DOMAIN Session /\ Commands \subseteq QuestionIds

SessionOf(q) == Session[q]
Sessions == {SessionOf(q) : q \in QuestionIds}
NoQuestion == 0

\* An id that the hook invents for a turn whose session has no question.
Own(q) == NumQuestions + q
RequestIds == 1..2 * NumQuestions
QuestionOf(r) == IF r > NumQuestions THEN r - NumQuestions ELSE r

VARIABLES
    asked,         \* the questions that were published
    queued,        \* of every session: the questions that wait for their turn
    registry,      \* _request_index: the current question of every session
    statuses,      \* agent_question_runs: the status of every request
    turn,          \* of every session: the turn that runs
    hook,          \* of every session: _request_id of the hook of the turn
    audit,         \* ToolAuditHook._entries
    pendingStart,  \* ToolAuditHook._pending_start
    paths,         \* RecentFilesHook._paths
    raised,        \* history: calls of tools that raised
    reply,         \* of every question: what was attached to its answer, or NoReply
    endings,       \* of every question: how its turn ended
    sub,           \* of every subagent: its hook
    subscribed,    \* RuntimeEventsSubscriber runs
    logged,        \* agent_gateway_logs: whose event, and under which request
    crowded,       \* history: questions that shared the session with another
    failed

busVars == <<asked, queued, registry, statuses>>
buckets == <<audit, pendingStart, paths, raised>>
outcomes == <<reply, endings, logged>>
hookVars == <<busVars, turn, hook, buckets, outcomes, sub, subscribed, crowded, failed>>

Calls == [of : QuestionIds, n : 1..MaxTools]
NoCall == [of |-> NoQuestion, n |-> 0]
Entries == [call : Calls, result : Calls \cup {NoCall}]
TurnRecords ==
    [of : QuestionIds \cup {NoQuestion},
     at : {"idle", "ready", "model", "tools", "tool", "done", "ran"},
     calls : 0..MaxTools, batch : Seq(Calls), next : 0..MaxTools+1]
IdleTurn == [of |-> NoQuestion, at |-> "idle", calls |-> 0, batch |-> <<>>, next |-> 0]
Attachments == [sent : BOOLEAN, audit : Seq(Entries), files : Seq(Calls)]
NoReply == [sent |-> FALSE, audit |-> <<>>, files |-> <<>>]
SubRecords ==
    [at : {"none", "run", "tool", "error", "finish", "again", "end"},
     of : QuestionIds \cup {NoQuestion},
     parent : RequestIds \cup {NoQuestion, -1}, error : BOOLEAN,
     finalized : BOOLEAN, row : {"none", "running", "finished", "error"},
     histories : Nat, events : Nat, indexed : BOOLEAN]
NoSub == [at |-> "none", of |-> NoQuestion, parent |-> NoQuestion, error |-> FALSE,
          finalized |-> FALSE, row |-> "none", histories |-> 0, events |-> 0,
          indexed |-> FALSE]

TurnsTypeOK ==
    /\ asked \subseteq QuestionIds
    /\ queued \in [Sessions -> Seq(QuestionIds)]
    /\ registry \in [Sessions -> RequestIds \cup {NoQuestion}]
    /\ statuses \in [RequestIds -> {"none", "running", "finished", "error"}]
    /\ turn \in [Sessions -> TurnRecords]
    /\ hook \in [Sessions -> RequestIds \cup {NoQuestion}]
    /\ audit \in [Sessions -> Seq(Entries)]
    /\ pendingStart \in [Sessions -> Nat]
    /\ paths \in [Sessions -> Seq(Calls)] /\ raised \subseteq Calls
    /\ reply \in [QuestionIds -> Attachments]
    /\ endings \in [QuestionIds -> {"no", "ran", "failed", "cut"}]
    /\ sub \in [Subagents -> SubRecords]
    /\ subscribed \in BOOLEAN
    /\ logged \subseteq QuestionIds \X (RequestIds \cup {NoQuestion})
    /\ crowded \subseteq QuestionIds
    /\ failed \in 0..MaxFailed

Failure == failed < MaxFailed /\ failed' = failed + 1

-----------------------------------------------------------------------------
\* Questions that wait or have their turn.
PendingIn(s) == ToSet(queued[s]) \cup ({turn[s].of} \ {NoQuestion})

\* register_request: r becomes the question of the session.
RegisterRequest(s, r) ==
    /\ registry' = [registry EXCEPT ![s] = r]
    /\ statuses' = [statuses EXCEPT ![r] = "running"]

\* publish_inbound: the logger of the bus registers the question of the session,
\* whatever the session is doing.
Inbound(q) ==
    LET s == SessionOf(q) IN
    /\ q \notin asked /\ \A p \in 1..q-1 : SessionOf(p) = s => p \in asked
    /\ asked' = asked \cup {q}
    /\ RegisterRequest(s, q)
    /\ queued' = IF q \in Commands THEN queued ELSE [queued EXCEPT ![s] = Append(@, q)]
    /\ crowded' = IF PendingIn(s) = {} THEN crowded
                  ELSE crowded \cup PendingIn(s) \cup {q}
    /\ UNCHANGED <<turn, hook, buckets, outcomes, sub, subscribed, failed>>

\* Variant: one hook for all sessions.
SharedHook(s) == CHOOSE x \in Sessions : TRUE
HookOf(s) == s

\* _capture_context
Captured(s) == [hook EXCEPT ![HookOf(s)] = registry[s]]

Log(q, r) == logged' = logged \cup {<<q, r>>}

\* make_db_logging_hook_factory: a session without a question gets one.
StartTurn(s) ==
    /\ turn[s].at = "idle" /\ queued[s] # <<>>
    /\ LET q == Head(queued[s])
           r == IF registry[s] = NoQuestion THEN Own(q) ELSE registry[s] IN
       /\ turn' = [turn EXCEPT ![s] = [IdleTurn EXCEPT !.of = q, !.at = "ready"]]
       /\ hook' = [hook EXCEPT ![HookOf(s)] = r]
       /\ IF registry[s] = NoQuestion THEN RegisterRequest(s, r)
          ELSE UNCHANGED <<registry, statuses>>
    /\ queued' = [queued EXCEPT ![s] = Tail(@)]
    /\ UNCHANGED <<asked, buckets, outcomes, sub, subscribed, crowded, failed>>

GoToPlace(s, place) == turn' = [turn EXCEPT ![s].at = place]

BeforeIteration(s) ==
    /\ turn[s].at = "ready"
    /\ GoToPlace(s, "model")
    /\ hook' = Captured(s)
    /\ UNCHANGED <<busVars, buckets, outcomes, sub, subscribed, crowded, failed>>

\* Variant: the statuses are counted from the begin of the bucket.
StartOfBucket(s) == 0
StartOf(s) == Len(audit[s])

\* before_execute_tools
BeforeTools(s, k) ==
    /\ turn[s].at = "model" /\ turn[s].calls + k <= MaxTools
    /\ LET batch == [i \in 1..k |-> [of |-> turn[s].of, n |-> turn[s].calls + i]] IN
       /\ turn' = [turn EXCEPT ![s].at = "tools", ![s].calls = @ + k,
                               ![s].batch = batch, ![s].next = 1]
       /\ pendingStart' = [pendingStart EXCEPT ![s] = StartOf(s)]
       /\ audit' = [audit EXCEPT ![s] =
                      @ \o [i \in 1..k |-> [call |-> batch[i], result |-> NoCall]]]
    /\ UNCHANGED <<busVars, hook, paths, raised, outcomes, sub, subscribed, crowded,
                   failed>>

\* before_execute_tool; the tool may start a subagent.
BeforeTool(s) ==
    /\ turn[s].at = "tools" /\ turn[s].next <= Len(turn[s].batch)
    /\ GoToPlace(s, "tool")
    /\ hook' = Captured(s)
    /\ Log(turn[s].of, registry[s])
    /\ \/ UNCHANGED sub
       \/ \E t \in Subagents :
            /\ sub[t].at = "none"
            /\ sub' = [sub EXCEPT ![t].at = "run", ![t].of = turn[s].of]
    /\ UNCHANGED <<busVars, buckets, reply, endings, subscribed, crowded, failed>>

\* RecentFilesHook.after_execute_tool
CallOf(s) == turn[s].batch[turn[s].next]
Written(s) == [paths EXCEPT ![s] = Append(@, CallOf(s))]

\* The tool is over; it is logged with the request that was found before it ran.
ToolEnds(s) ==
    /\ turn[s].at = "tool"
    /\ turn' = [turn EXCEPT ![s].at = "tools", ![s].next = @ + 1]
    /\ Log(turn[s].of, hook[HookOf(s)])
    /\ UNCHANGED <<busVars, hook, audit, pendingStart, reply, endings, sub, subscribed,
                   crowded>>

\* after_execute_tool; the tools of the model are those that write a file, whose
\* path is kept.
AfterTool(s) == ToolEnds(s) /\ paths' = Written(s) /\ UNCHANGED <<raised, failed>>

\* on_execute_tool_error; RecentFilesHook is not told.
ToolRaises(s) ==
    ToolEnds(s) /\ Failure /\ raised' = raised \cup {CallOf(s)} /\ UNCHANGED paths

\* after_iteration: the outcomes of the tools go to the entries from _pending_start.
AfterIteration(s) ==
    /\ turn[s].at = "tools" /\ turn[s].next > Len(turn[s].batch)
    /\ turn' = [turn EXCEPT ![s].at = "ready", ![s].batch = <<>>, ![s].next = 0]
    /\ audit' = [audit EXCEPT ![s] = [j \in DOMAIN @ |->
                   IF j - pendingStart[s] \in DOMAIN turn[s].batch
                   THEN [@[j] EXCEPT !.result = turn[s].batch[j - pendingStart[s]]]
                   ELSE @[j]]]
    /\ hook' = Captured(s)
    /\ Log(turn[s].of, registry[s])
    /\ UNCHANGED <<busVars, pendingStart, paths, raised, reply, endings, sub, subscribed,
                   crowded, failed>>

\* after_iteration without tools: the answer of the model.
Answered(s) ==
    /\ turn[s].at = "model"
    /\ GoToPlace(s, "done")
    /\ hook' = Captured(s)
    /\ Log(turn[s].of, registry[s])
    /\ UNCHANGED <<busVars, buckets, reply, endings, sub, subscribed, crowded, failed>>

\* after_run: the run is logged, its request finished, and whatever question the
\* session has is forgotten.
AfterRun(s, error) ==
    /\ turn[s].at \in (IF error THEN {"done", "model", "tools"} ELSE {"done"})
    /\ GoToPlace(s, "ran")
    /\ LET r == hook[HookOf(s)] IN
       /\ Log(turn[s].of, r)
       /\ statuses' = IF r = NoQuestion THEN statuses
                 ELSE [statuses EXCEPT ![r] = IF error THEN "error" ELSE "finished"]
    /\ registry' = [registry EXCEPT ![s] = NoQuestion]
    /\ hook' = [hook EXCEPT ![HookOf(s)] = NoQuestion]
    /\ endings' = [endings EXCEPT ![turn[s].of] = "ran"]
    /\ UNCHANGED <<asked, queued, buckets, reply, sub, subscribed, crowded, failed>>

\* _assemble_outbound: both buckets of the session are emptied; if the context
\* window is unknown the call raises afterwards.
Assemble(s) ==
    /\ turn[s].at = "ran"
    /\ audit' = [audit EXCEPT ![s] = <<>>]
    /\ paths' = [paths EXCEPT ![s] = <<>>]
    /\ \/ /\ reply' = [reply EXCEPT ![turn[s].of] =
                         [sent |-> TRUE, audit |-> audit[s], files |-> paths[s]]]
          /\ UNCHANGED <<endings, failed>>
       \/ /\ Failure
          /\ endings' = [endings EXCEPT ![turn[s].of] = "failed"]
          /\ UNCHANGED reply
    /\ turn' = [turn EXCEPT ![s] = IdleTurn]
    /\ UNCHANGED <<busVars, hook, pendingStart, raised, logged, sub, subscribed, crowded>>

\* TurnDelivery.fail, or a cancellation: the turn ends where it is.  The buckets
\* and the question of the session stay.
Fail(s) ==
    /\ turn[s].at # "idle"
    /\ Failure
    /\ endings' = [endings EXCEPT ![turn[s].of] = "cut"]
    /\ turn' = [turn EXCEPT ![s] = IdleTurn]
    /\ UNCHANGED <<busVars, hook, buckets, reply, logged, sub, subscribed, crowded>>

-----------------------------------------------------------------------------
\* Subagents.

\* _ensure_request: the parent is the question that the session has now; -1 is
\* the subagent itself.  The subagent is registered under a key of its own.
Ensured(t) ==
    LET s == SessionOf(sub[t].of) IN
    [sub[t] EXCEPT !.parent = IF @ # NoQuestion THEN @
                              ELSE IF registry[s] = NoQuestion THEN -1 ELSE registry[s],
                   !.row = "running", !.indexed = TRUE]

\* A tool of the subagent, before and after.
SubTool(t) ==
    /\ sub[t].at \in {"run", "tool"}
    /\ sub' = [sub EXCEPT ![t] =
                 [Ensured(t) EXCEPT !.at = IF sub[t].at = "run" THEN "tool" ELSE "run"]]
    /\ UNCHANGED <<busVars, turn, hook, buckets, outcomes, subscribed, crowded, failed>>

\* The subscriber logs one more end of a subagent.
Handled(events) == IF subscribed THEN events + 1 ELSE events

\* on_error or after_run publish the end of the subagent, which the subscriber
\* logs, and then finalize it; a run that failed may have both, one after the other.
PublishEnd(t) ==
    /\ \/ /\ sub[t].at \in {"run", "tool"}
          /\ \E e \in BOOLEAN :
               sub' = [sub EXCEPT ![t].at = "finish", ![t].error = e,
                                  ![t].events = Handled(@)]
       \/ /\ sub[t].at = "error"
          /\ sub' = [sub EXCEPT ![t].at = "again", ![t].events = Handled(@)]
    /\ UNCHANGED <<busVars, turn, hook, buckets, outcomes, subscribed, crowded, failed>>

\* Variant: no guard.
MayFinalizeAlways(t) == TRUE
MayFinalize(t) == ~sub[t].finalized

\* The history is saved and the request is closed; without a subscriber the end
\* is logged here.
Finalized(t) ==
    [Ensured(t) EXCEPT !.finalized = TRUE, !.histories = @ + 1, !.indexed = FALSE,
                       !.row = IF sub[t].error THEN "error" ELSE "finished",
                       !.events = IF subscribed THEN @ ELSE @ + 1]

Finalize(t) ==
    /\ sub[t].at \in {"finish", "again"}
    /\ \E next \in IF sub[t].at = "finish" /\ sub[t].error THEN {"error", "end"}
                   ELSE {"end"} :
         sub' = [sub EXCEPT ![t] = [(IF MayFinalize(t) THEN Finalized(t) ELSE sub[t])
                                     EXCEPT !.at = next]]
    /\ UNCHANGED <<busVars, turn, hook, buckets, outcomes, subscribed, crowded, failed>>

\* RuntimeEventsSubscriber.stop
Unsubscribe ==
    /\ subscribed /\ subscribed' = FALSE
    /\ UNCHANGED <<busVars, turn, hook, buckets, outcomes, sub, crowded, failed>>

-----------------------------------------------------------------------------
TurnsInit ==
    /\ asked = {} /\ queued = [s \in Sessions |-> <<>>]
    /\ registry = [s \in Sessions |-> NoQuestion]
    /\ statuses = [r \in RequestIds |-> "none"]
    /\ turn = [s \in Sessions |-> IdleTurn] /\ hook = [s \in Sessions |-> NoQuestion]
    /\ audit = [s \in Sessions |-> <<>>] /\ pendingStart = [s \in Sessions |-> 0]
    /\ paths = [s \in Sessions |-> <<>>] /\ raised = {}
    /\ reply = [q \in QuestionIds |-> NoReply] /\ endings = [q \in QuestionIds |-> "no"]
    /\ sub = [t \in Subagents |-> NoSub]
    /\ subscribed = TRUE
    /\ logged = {} /\ crowded = {} /\ failed = 0

TurnOf(s) ==
    \/ StartTurn(s) \/ BeforeIteration(s) \/ (\E k \in 1..2 : BeforeTools(s, k))
    \/ BeforeTool(s) \/ AfterTool(s) \/ ToolRaises(s) \/ AfterIteration(s) \/ Answered(s)
    \/ (\E error \in BOOLEAN : AfterRun(s, error)) \/ Assemble(s) \/ Fail(s)

TurnsNext ==
    \/ \E q \in QuestionIds : Inbound(q)
    \/ \E s \in Sessions : TurnOf(s)
    \/ \E t \in Subagents : SubTool(t) \/ PublishEnd(t) \/ Finalize(t)
    \/ Unsubscribe

TurnsSpec == TurnsInit /\ [][TurnsNext]_hookVars

-----------------------------------------------------------------------------
\* Properties.

\* A turn is logged under a question of its own session; if the session had no
\* other question meanwhile, under its own, which it closes at its end.
EventsAreOwn ==
    /\ \A e \in logged :
         e[2] # NoQuestion => SessionOf(QuestionOf(e[2])) = SessionOf(e[1])
    /\ \A e \in logged : e[1] \in crowded \/ e[2] = e[1]
    /\ \A q \in QuestionIds \ crowded :
         endings[q] = "ran" => statuses[q] \in {"finished", "error"}

\* An answer carries the tool calls of its turn, every call that has an outcome with
\* its own, and the file of every such call whose tool did not raise; what it carries
\* beyond that comes from earlier turns of its session that got no answer.
AuditIsOwn ==
    \A q \in QuestionIds : reply[q].sent =>
      LET entries == ToSet(reply[q].audit) IN
      /\ \A e \in entries : e.result \in {NoCall, e.call}
      /\ {e.call.of : e \in entries} \cup {c.of : c \in ToSet(reply[q].files)}
           \subseteq {q} \cup
                     {p \in 1..q-1 : SessionOf(p) = SessionOf(q) /\ ~reply[p].sent}
      /\ LET own == {c \in ToSet(reply[q].files) : c.of = q} IN
         /\ {e.result : e \in {x \in entries : x.call.of = q}} \ {NoCall}
              \subseteq own \cup raised
         /\ own \subseteq {e.call : e \in entries}

\* A subagent that ended has one history and one final status, and its end is
\* logged, whichever of its callbacks came.
SubagentSettled ==
    \A t \in Subagents : sub[t].at = "end" =>
      /\ sub[t].histories = 1 /\ sub[t].events >= 1
      /\ sub[t].row = (IF sub[t].error THEN "error" ELSE "finished")
      /\ ~sub[t].indexed

\* What the hooks of a turn leave is of that turn, or of turns of its session.
TurnsKeepApart == EventsAreOwn /\ AuditIsOwn /\ SubagentSettled

=============================================================================
