-------------------------------- MODULE Repl --------------------------------
(***************************************************************************)
(* The terminal (lib/cli/console_loop.py, run_repl): the coroutine that    *)
(* reads questions and waits for turn_done, the task _consume_outbound     *)
(* that shows what the agent sends, and /compact                           *)
(* (lib/services/context_compaction.py).  They share turn_done,            *)
(* turn_response and the renderer, and run on one loop.                    *)
(***************************************************************************)
EXTENDS Integers, Sequences, SequencesExt

CONSTANTS
    NumTurns,      \* bound: questions
    Scripts,       \* what the agent sends in a turn: sequences of Kinds
    MaxSuffix,     \* messages that a compaction leaves
    MaxTimeouts,   \* bound: waits that time out
    MaxCompactions \* bound

\* Deltas and the end of a stream, the event that ends a streamed turn, progress,
\* and messages without an event.
Kinds == {"delta", "end", "final", "progress", "plain"}
Turns == 1..NumTurns

VARIABLES
    rendering,  \* StreamRenderer can be imported
    phase,      \* of run_repl; "gather" in its finally, "left" when it is over
    asked,
    done,       \* turn_done
    response,   \* turn_response
    renderer,   \* the turn of the renderer, 0 if there is none; it was streamed to
    inbound, turn, script, at,  \* the agent: waiting turns, its turn, what is left
    alive,      \* agent.run() has not ended
    bus,
    before, saved, reports,  \* compaction: the measure, the messages of the session
    consumed, shown, again, crossed, timeouts, compactions

repl == <<phase, asked, response>>
agent == <<inbound, turn, script, at, alive>>
compaction == <<before, saved, reports, compactions>>
past == <<consumed, shown, again, crossed, timeouts>>
vars == <<rendering, repl, done, renderer, agent, bus, compaction, past>>

Messages == [turn : Turns, kind : Kinds, at : 1..4]

TypeOK ==
    /\ rendering \in BOOLEAN
    /\ phase \in {"prompt", "wait", "compact", "gather", "left"}
    /\ asked \in 0..NumTurns /\ done \in BOOLEAN
    /\ response \in Seq(Messages) /\ Len(response) <= 1
    /\ renderer \in [turn : {0} \cup Turns, streamed : BOOLEAN]
    /\ inbound \in Seq(Turns) /\ turn \in {0} \cup Turns /\ alive \in BOOLEAN
    /\ script \in Seq(Kinds) /\ at \in 0..4 /\ bus \in Seq(Messages)
    /\ before \in Nat /\ saved \in Nat /\ compactions \in 0..MaxCompactions
    /\ reports \subseteq [archived : Nat, reported : Nat]
    /\ again \in BOOLEAN /\ crossed \in BOOLEAN /\ timeouts \in 0..MaxTimeouts

\* The text of a message: deltas and the event that ends the stream have the same.
Text(m) == [turn |-> m.turn, at |-> IF m.kind = "plain" THEN m.at ELSE 0]
Show(m) == shown' = shown \cup {Text(m)} /\ again' = (again \/ Text(m) \in shown)
Hide == UNCHANGED <<shown, again>>

-----------------------------------------------------------------------------
\* The agent takes one message of the session after the other.

TurnBegins ==
    /\ alive /\ turn = 0 /\ inbound # <<>>
    /\ turn' = Head(inbound) /\ inbound' = Tail(inbound) /\ at' = 0
    /\ script' \in Scripts
    /\ UNCHANGED <<rendering, repl, done, renderer, alive, bus, compaction, past>>

Emit ==
    /\ alive /\ turn # 0 /\ script # <<>>
    /\ bus' = Append(bus, [turn |-> turn, kind |-> Head(script), at |-> at + 1])
    /\ script' = Tail(script) /\ at' = at + 1
    /\ UNCHANGED <<rendering, repl, done, renderer, inbound, turn, alive, compaction,
                   past>>

\* The question and the answer are in the session.
TurnEnds ==
    /\ alive /\ turn # 0 /\ script = <<>>
    /\ turn' = 0 /\ saved' = saved + 2
    /\ UNCHANGED <<rendering, repl, done, renderer, inbound, script, at, alive, bus,
                   before, reports, compactions, past>>

AgentFails ==
    /\ alive /\ alive' = FALSE
    /\ UNCHANGED <<rendering, repl, done, renderer, inbound, turn, script, at, bus,
                   compaction, past>>

-----------------------------------------------------------------------------
\* run_repl between two suspensions.

\* Variant: the answer of the last turn stays in turn_response.
CarriedOver == response
Cleared == <<>>

\* A question: the shared state is reset before the message is on the bus.
Ask ==
    /\ phase = "prompt" /\ asked < NumTurns
    /\ asked' = asked + 1 /\ phase' = "wait"
    /\ done' = FALSE /\ response' = Cleared
    /\ renderer' = [turn |-> IF rendering THEN asked + 1 ELSE 0, streamed |-> FALSE]
    /\ inbound' = Append(inbound, asked + 1)
    /\ crossed' = (crossed \/ turn # 0 \/ inbound # <<>> \/ bus # <<>>)
    /\ UNCHANGED <<rendering, turn, script, at, alive, bus, compaction, consumed,
                   shown, again, timeouts>>

\* turn_done is set: what was put in turn_response is printed.
Wake ==
    /\ phase = "wait" /\ done
    /\ phase' = "prompt"
    /\ IF response # <<>> THEN Show(response[1]) ELSE Hide
    /\ UNCHANGED <<rendering, asked, response, done, renderer, agent, bus, compaction,
                   consumed, crossed, timeouts>>

\* turn_wait_timeout_sec: the prompt comes back and turn_done stays clear.
TimeOut ==
    /\ phase = "wait" /\ ~done /\ timeouts < MaxTimeouts
    /\ phase' = "prompt" /\ timeouts' = timeouts + 1
    /\ UNCHANGED <<rendering, asked, response, done, renderer, agent, bus, compaction,
                   consumed, shown, again, crossed>>

\* compact up to its first await.
Compact ==
    /\ phase = "prompt" /\ compactions < MaxCompactions
    /\ phase' = "compact" /\ before' = saved /\ compactions' = compactions + 1
    /\ UNCHANGED <<rendering, asked, response, done, renderer, agent, bus, saved,
                   reports, past>>

\* archived_msgs
Reported(left) == IF before > left THEN before - left ELSE 0

\* compact_idle_session, or its exception, which is a report of a failure.
Compacted ==
    /\ phase = "compact" /\ phase' = "prompt"
    /\ \/ UNCHANGED <<saved, reports>>
       \/ LET left == IF saved > MaxSuffix THEN MaxSuffix ELSE saved IN
          /\ saved' = left
          /\ reports' = reports \cup
               {[archived |-> saved - left, reported |-> Reported(left)]}
    /\ UNCHANGED <<rendering, asked, response, done, renderer, agent, bus, before,
                   compactions, past>>

\* exit, the end of the input or an interrupt: the consumer is cancelled and
\* run_repl waits for agent.run(), which nobody has stopped.
Leave ==
    /\ phase \in {"prompt", "wait", "compact"}
    /\ phase' = "gather"
    /\ UNCHANGED <<rendering, asked, response, done, renderer, agent, bus, compaction,
                   past>>

\* The end of finally is reached only when agent.run() has failed.
Shutdown ==
    /\ phase = "gather" /\ ~alive
    /\ phase' = "left"
    /\ UNCHANGED <<rendering, asked, response, done, renderer, agent, bus, compaction,
                   past>>

-----------------------------------------------------------------------------
\* _consume_outbound: one message.  A message without an event is the answer if
\* the turn is not done, and printed at once otherwise.

Delta(m) ==
    /\ m.kind = "delta"
    /\ IF renderer.turn # 0
       THEN renderer' = [renderer EXCEPT !.streamed = TRUE] /\ Show(m)
       ELSE Hide /\ UNCHANGED renderer
    /\ UNCHANGED <<done, response>>

Final(m) ==
    /\ m.kind = "final"
    /\ IF renderer.turn # 0 /\ ~renderer.streamed THEN Show(m) ELSE Hide
    /\ done' = TRUE
    /\ UNCHANGED <<renderer, response>>

Plain(m) ==
    /\ m.kind = "plain"
    /\ IF done THEN Show(m) /\ UNCHANGED response
       ELSE response' = Append(response, m) /\ Hide
    /\ done' = TRUE
    /\ UNCHANGED renderer

Progress(m) ==
    /\ m.kind \in {"end", "progress"}
    /\ Hide /\ UNCHANGED <<done, response, renderer>>

Consume ==
    /\ phase \notin {"gather", "left"} /\ bus # <<>>
    /\ bus' = Tail(bus)
    /\ LET m == Head(bus) IN
       /\ Delta(m) \/ Final(m) \/ Plain(m) \/ Progress(m)
       /\ consumed' = IF m.kind \in {"end", "progress"} THEN consumed
                      ELSE consumed \cup {Text(m)}
    /\ UNCHANGED <<rendering, phase, asked, agent, compaction, crossed, timeouts>>

-----------------------------------------------------------------------------
Init ==
    /\ rendering \in BOOLEAN
    /\ phase = "prompt" /\ asked = 0 /\ done = TRUE /\ response = <<>>
    /\ renderer = [turn |-> 0, streamed |-> FALSE]
    /\ inbound = <<>> /\ turn = 0 /\ script = <<>> /\ at = 0 /\ alive = TRUE
    /\ bus = <<>>
    /\ before = 0 /\ saved = 0 /\ reports = {} /\ compactions = 0
    /\ consumed = {} /\ shown = {} /\ again = FALSE /\ crossed = FALSE /\ timeouts = 0

Next ==
    \/ TurnBegins \/ Emit \/ TurnEnds \/ AgentFails
    \/ Ask \/ Wake \/ TimeOut \/ Compact \/ Compacted \/ Leave \/ Shutdown
    \/ Consume

Spec == Init /\ [][Next]_vars

-----------------------------------------------------------------------------
\* Properties.

\* The answer that the next step of run_repl prints.
Waiting == IF phase = "wait" THEN {Text(response[i]) : i \in DOMAIN response} ELSE {}

\* Every text that was consumed is shown, or printed by the next step, and none is
\* shown twice, if no wait timed out and no question was asked while an earlier turn
\* was still on its way; a streamed answer is shown only if there is a renderer.
AnswersAreShown ==
    timeouts = 0 /\ ~crossed =>
      /\ ~again
      /\ phase \in {"prompt", "wait", "compact"} =>
           \A x \in consumed : rendering \/ x.at # 0 => x \in shown \cup Waiting

\* A compaction never reports more than was archived, although turns may be
\* saved between its two measures.
ReportIsModest == \A r \in reports : r.reported <= r.archived

=============================================================================
