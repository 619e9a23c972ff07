----------------------------- MODULE AnswerRow -----------------------------
(***************************************************************************)
(* What a turn writes into its assistant row before and with the final     *)
(* answer (lib/channels/postgres_channel.py): reasoning, the text of the   *)
(* tools and of a stream, the context window.  Two tasks of the event loop *)
(* read the row and write it back: the dispatcher of the agent's messages, *)
(* which sends one after the other, and _flush_reasoning_loop.  Claims and *)
(* statuses of the turn are those of PgChannel.                            *)
(***************************************************************************)
EXTENDS Integers, Sequences, SequencesExt

CONSTANTS
    NumTurns,
    MaxChunks,  \* bound: pieces of reasoning of a turn
    MaxPieces,  \* bound: pieces of text of a turn
    MaxHitches  \* bound: failing calls, rows that another process deletes

AnswerAssumption == {NumTurns, MaxChunks, MaxPieces, MaxHitches} \subseteq Nat

Turns == 1..NumTurns
NoTurn == 0

VARIABLES
    apart,           \* the turns are in different chats and may overlap
    named,           \* the streams of the agent have ids
    turns,           \* turns in _msg_ctx and _msg_chat
    begun,           \* the turns that were dispatched
    answerRow,       \* the assistant row of every turn
    reasoning,       \* _reasoning_buffers
    stream,          \* _stream_buffers, by the id of the stream or the chat
    bridge,          \* _CONTEXT_BRIDGE: the turn of which a chat has the usage
    ioLock,          \* _reasoning_io_lock
    send,            \* the dispatcher
    flush,           \* _flush_reasoning_loop
    chunks, pieces,  \* history: what was sent
    given,           \* history: turns with a text from a tool, a final or its stream
    lost,            \* history: turns of which a call failed or the row was deleted
    hitches

turnVars == <<apart, named, turns, begun, chunks, pieces, given>>
answerVars == <<turnVars, answerRow, reasoning, stream, bridge, ioLock, send, flush,
                lost, hitches>>

NoMeta == [reasoning |-> <<>>, window |-> NoTurn, final |-> FALSE]
NoRow == [status |-> "none", text |-> <<>>, meta |-> NoMeta]
NoSend == [at |-> "idle", turn |-> NoTurn, text |-> <<>>, delta |-> <<>>,
           seen |-> NoRow]
NoFlush == [at |-> "idle", todo |-> <<>>, window |-> NoTurn, seen |-> NoMeta]

TurnChats == Turns
ChatOfTurn(t) == IF apart THEN t ELSE 1
\* buf_key of send_delta; an id is a stream of one turn.
KeyOf(t) == IF named THEN t ELSE ChatOfTurn(t)

\* A piece of text is known by its turn.
Pieces == Turns \X (1..MaxPieces)
PieceSeqs == Seq(Pieces)
Deltas == Seq(1..MaxChunks)
Metas == [reasoning : Deltas, window : Turns \cup {NoTurn}, final : BOOLEAN]
AnswerRows == [status : {"none", "processing", "completed", "failed"}, text : PieceSeqs,
           meta : Metas]

AnswerTypeOK ==
    /\ {apart, named} \subseteq BOOLEAN
    /\ turns \subseteq begun /\ given \subseteq begun /\ begun \subseteq Turns
    /\ answerRow \in [Turns -> AnswerRows]
    /\ reasoning \in [Turns -> Deltas] /\ stream \in [Turns -> PieceSeqs]
    /\ bridge \in [TurnChats -> Turns \cup {NoTurn}]
    /\ ioLock \in {"free", "send", "flush"}
    /\ send \in [at : {"idle", "merge", "lock", "append", "appended", "final", "write"},
                 turn : Turns \cup {NoTurn}, text : PieceSeqs, delta : Deltas,
                 seen : AnswerRows]
    /\ flush \in [at : {"idle", "reasoning", "read", "write", "context", "wait",
                        "look", "store"},
                  todo : Seq(Turns \X Deltas), window : Turns \cup {NoTurn},
                  seen : Metas]
    /\ chunks \in [Turns -> 0..MaxChunks] /\ pieces \in [Turns -> 0..MaxPieces]
    /\ lost \subseteq Turns /\ hitches \in 0..MaxHitches
    /\ ioLock = "send" <=> send.at \in {"append", "appended"}
    /\ ioLock = "flush" <=> flush.at \in {"read", "write", "look", "store"}

Hitch(T) == hitches < MaxHitches /\ hitches' = hitches + 1 /\ lost' = lost \cup T
Update(t, r) == answerRow' = [answerRow EXCEPT ![t] = IF @.status = "none" THEN @ ELSE r]

-----------------------------------------------------------------------------
\* The turn and what it sends.

\* _insert_assistant_message and the dispatch; a chat has one turn at a time.
BeginTurn(t) ==
    /\ t \notin begun
    /\ \A u \in turns : ChatOfTurn(u) # ChatOfTurn(t)
    /\ begun' = begun \cup {t} /\ turns' = turns \cup {t}
    /\ answerRow' = [answerRow EXCEPT ![t] = [NoRow EXCEPT !.status = "processing"]]
    /\ UNCHANGED <<apart, named, chunks, pieces, given, reasoning, stream,
                   bridge, ioLock, send, flush, lost, hitches>>

\* send_reasoning_delta
Reason(t) ==
    /\ send.at = "idle" /\ t \in turns /\ chunks[t] < MaxChunks
    /\ chunks' = [chunks EXCEPT ![t] = @ + 1]
    /\ reasoning' = [reasoning EXCEPT ![t] = Append(@, chunks'[t])]
    /\ UNCHANGED <<apart, named, turns, begun, pieces, given, answerRow, stream,
                   bridge, ioLock, send, flush, lost, hitches>>

\* The usage of an iteration goes to the bridge of the chat.
Use(t) ==
    /\ t \in turns
    /\ bridge' = [bridge EXCEPT ![ChatOfTurn(t)] = t]
    /\ UNCHANGED <<turnVars, answerRow, reasoning, stream, ioLock, send, flush, lost,
                   hitches>>

NextPiece(t) == pieces[t] < MaxPieces /\ pieces' = [pieces EXCEPT ![t] = @ + 1]

\* send_delta before the end of the stream.
Stream(t) ==
    /\ send.at = "idle" /\ t \in turns /\ NextPiece(t)
    /\ stream' = [stream EXCEPT ![KeyOf(t)] = Append(@, <<t, pieces'[t]>>)]
    /\ UNCHANGED <<apart, named, turns, begun, chunks, given, answerRow,
                   reasoning, bridge, ioLock, send, flush, lost, hitches>>

\* _merge_tool_delivery reads the row and writes it, without the lock.
Deliver(t) ==
    /\ send.at = "idle" /\ t \in turns /\ NextPiece(t)
    /\ given' = given \cup {t}
    /\ send' = [NoSend EXCEPT !.at = "merge", !.turn = t,
                              !.text = <<<<t, pieces'[t]>>>>, !.seen = answerRow[t]]
    /\ UNCHANGED <<apart, named, turns, begun, chunks, answerRow, reasoning,
                   stream, bridge, ioLock, flush, lost, hitches>>

Merge ==
    /\ send.at = "merge"
    /\ \/ /\ Update(send.turn,
                    [answerRow[send.turn] EXCEPT !.text = send.seen.text \o send.text,
                                           !.meta = send.seen.meta])
          /\ UNCHANGED <<lost, hitches>>
       \/ Hitch({send.turn}) /\ UNCHANGED answerRow
    /\ send' = NoSend
    /\ UNCHANGED <<turnVars, reasoning, stream, bridge, ioLock, flush>>

-----------------------------------------------------------------------------
\* _finalize_turn.

\* The rest of the reasoning is taken from the buffer; it needs the lock.
FinishTurn(t, text) ==
    /\ send' = [NoSend EXCEPT !.turn = t, !.text = text, !.delta = reasoning[t],
                  !.at = IF reasoning[t] = <<>> THEN "final"
                         ELSE IF ioLock = "free" THEN "append" ELSE "lock"]
    /\ ioLock' = IF reasoning[t] # <<>> /\ ioLock = "free" THEN "send" ELSE ioLock
    /\ reasoning' = [reasoning EXCEPT ![t] = <<>>]
    /\ given' = IF text = <<>> THEN given ELSE given \cup {t}
    /\ UNCHANGED <<apart, named, turns, begun, chunks, answerRow, bridge, flush,
                   lost, hitches>>

\* A final message with a text of its own or without, which leaves the buffer of the
\* stream, and the end of a stream, which takes it.
Final(t) ==
    /\ send.at = "idle" /\ t \in turns
    /\ \/ NextPiece(t) /\ UNCHANGED stream /\ FinishTurn(t, <<<<t, pieces'[t]>>>>)
       \/ UNCHANGED <<pieces, stream>> /\ FinishTurn(t, <<>>)
       \/ /\ stream' = [stream EXCEPT ![KeyOf(t)] = <<>>]
          /\ UNCHANGED pieces /\ FinishTurn(t, stream[KeyOf(t)])

TakeLock ==
    /\ send.at = "lock" /\ ioLock = "free"
    /\ ioLock' = "send"
    /\ send' = [send EXCEPT !.at = "append"]
    /\ UNCHANGED <<turnVars, answerRow, reasoning, stream, bridge, flush, lost,
                   hitches>>

AppendRead ==
    /\ send.at = "append"
    /\ IF answerRow[send.turn].status = "none"
       THEN ioLock' = "free" /\ send' = [send EXCEPT !.at = "final"]
       ELSE UNCHANGED ioLock /\ send' = [send EXCEPT !.at = "appended",
                                                   !.seen = answerRow[send.turn]]
    /\ UNCHANGED <<turnVars, answerRow, reasoning, stream, bridge, flush, lost,
                   hitches>>

AppendWrite ==
    /\ send.at = "appended"
    /\ Update(send.turn, [answerRow[send.turn] EXCEPT
          !.meta = [send.seen.meta EXCEPT !.reasoning = @ \o send.delta]])
    /\ ioLock' = "free"
    /\ send' = [send EXCEPT !.at = "final"]
    /\ UNCHANGED <<turnVars, reasoning, stream, bridge, flush, lost, hitches>>

\* These calls are outside the try: the turn stays open, without the reasoning that
\* was taken, and the dispatcher goes on, perhaps with the same message.
AppendFails ==
    /\ send.at \in {"append", "appended"}
    /\ Hitch({send.turn})
    /\ ioLock' = "free" /\ send' = NoSend
    /\ UNCHANGED <<turnVars, answerRow, reasoning, stream, bridge, flush>>

\* The transaction: read, then write and commit, without the lock.
FinalRead ==
    /\ send.at = "final"
    /\ send' = [send EXCEPT !.at = "write", !.seen = answerRow[send.turn]]
    /\ UNCHANGED <<turnVars, answerRow, reasoning, stream, bridge, ioLock, flush,
                   lost, hitches>>

\* Variant: only the text of the final message counts.
FinalTextOnly(text, existing) == text
\* A final message without text leaves what the tools delivered.
FinalText(text, existing) == IF text = <<>> THEN existing ELSE text

\* Variant: the usage stays for the next turn of the chat.
LeftBridge(c) == bridge
\* _drop_context_bridge
DropBridge(c) == [bridge EXCEPT ![c] = NoTurn]

EndTurn(t) ==
    /\ turns' = turns \ {t}
    /\ bridge' = DropBridge(ChatOfTurn(t))
    /\ send' = NoSend
    /\ UNCHANGED <<apart, named, begun, chunks, pieces, given, ioLock, stream>>

FinalWrite ==
    /\ send.at = "write"
    /\ Update(send.turn,
         [status |-> "completed", text |-> FinalText(send.text, send.seen.text),
          meta |-> [send.seen.meta EXCEPT !.final = TRUE]])
    /\ EndTurn(send.turn)
    /\ UNCHANGED <<reasoning, flush, lost, hitches>>

\* _mark_failed: the row is deleted or shows the error.
FinalFails ==
    /\ send.at = "write"
    /\ Hitch({send.turn})
    /\ \E r \in {NoRow, [NoRow EXCEPT !.status = "failed"]} : Update(send.turn, r)
    /\ reasoning' = [reasoning EXCEPT ![send.turn] = <<>>]
    /\ EndTurn(send.turn)
    /\ UNCHANGED flush

-----------------------------------------------------------------------------
\* _flush_reasoning_loop.

FullBuffers == {t \in Turns : reasoning[t] # <<>>}

\* Variant: the buffers are emptied when all is written.
LeftBuffers == reasoning
\* The buffers are taken over before the first write.
TakenBuffers == [t \in Turns |-> <<>>]

\* The lock, when it is left with the value free, is taken at once if nobody holds
\* it or waits for it.
Waits(place, locked, free) ==
    IF free = "free" /\ send.at # "lock" THEN locked ELSE place
HoldsLock(place, free) == ioLock' = IF place \in {"read", "look"} THEN "flush" ELSE free

\* With the next buffer, or when there is none with the context windows.
GoOn(todo, free) ==
    LET place == IF todo = <<>> THEN "context"
                 ELSE Waits("reasoning", "read", free) IN
    flush' = [NoFlush EXCEPT !.at = place, !.todo = todo] /\ HoldsLock(place, free)

\* The order of the dictionary is that of the first delta of each turn.
FlushBegin ==
    /\ flush.at = "idle"
    /\ \E order \in SetToSeqs(FullBuffers) :
         GoOn([i \in DOMAIN order |-> <<order[i], reasoning[order[i]]>>], ioLock)
    /\ reasoning' = TakenBuffers
    /\ UNCHANGED <<turnVars, answerRow, stream, bridge, send, lost, hitches>>

Current == flush.todo[1][1]

FlushLock ==
    /\ flush.at \in {"reasoning", "wait"}
    /\ ioLock = "free" /\ send.at # "lock"
    /\ ioLock' = "flush"
    /\ flush' = [flush EXCEPT !.at = IF @ = "wait" THEN "look" ELSE "read"]
    /\ UNCHANGED <<turnVars, answerRow, reasoning, stream, bridge, send, lost, hitches>>

\* Variant: the lock is kept when the row is gone.
SkipHolding == GoOn(Tail(flush.todo), ioLock)
Skip == GoOn(Tail(flush.todo), "free")

FlushRead ==
    /\ flush.at = "read"
    /\ IF answerRow[Current].status = "none" THEN Skip
       ELSE /\ flush' = [flush EXCEPT !.at = "write", !.seen = answerRow[Current].meta]
            /\ UNCHANGED ioLock
    /\ UNCHANGED <<turnVars, answerRow, reasoning, stream, bridge, send, lost, hitches>>

FlushWrite ==
    /\ flush.at = "write"
    /\ Update(Current, [answerRow[Current] EXCEPT
          !.meta = [flush.seen EXCEPT !.reasoning = @ \o flush.todo[1][2]]])
    /\ GoOn(Tail(flush.todo), "free")
    /\ UNCHANGED <<turnVars, reasoning, stream, bridge, send, lost, hitches>>

\* What was taken over is lost with the first call that fails.
FlushFails ==
    /\ flush.at \in {"read", "write"}
    /\ Hitch({flush.todo[i][1] : i \in DOMAIN flush.todo})
    /\ GoOn(<<>>, "free")
    /\ UNCHANGED <<turnVars, answerRow, reasoning, stream, bridge, send>>

\* _flush_live_context: the turns that are open now, each with the usage of its
\* chat at its time.
ContextOf(t) ==
    /\ flush.at = "context" /\ t \in turns /\ bridge[ChatOfTurn(t)] # NoTurn
    /\ LET place == Waits("wait", "look", ioLock) IN
       /\ flush' = [flush EXCEPT !.at = place, !.todo = <<<<t, <<>>>>>>,
                                 !.window = bridge[ChatOfTurn(t)]]
       /\ HoldsLock(place, ioLock)
    /\ UNCHANGED <<turnVars, answerRow, reasoning, stream, bridge, send, lost, hitches>>

\* On with the next turn.
LeaveRow == ioLock' = "free" /\ flush' = [NoFlush EXCEPT !.at = "context"]

ContextRead ==
    /\ flush.at = "look"
    /\ IF \/ answerRow[Current].status = "none"
          \/ answerRow[Current].meta.window = flush.window
       THEN LeaveRow
       ELSE /\ flush' = [flush EXCEPT !.at = "store", !.seen = answerRow[Current].meta]
            /\ UNCHANGED ioLock
    /\ UNCHANGED <<turnVars, answerRow, reasoning, stream, bridge, send, lost, hitches>>

ContextWrite ==
    /\ flush.at = "store"
    /\ Update(Current, [answerRow[Current] EXCEPT
          !.meta = [flush.seen EXCEPT !.window = flush.window]])
    /\ LeaveRow
    /\ UNCHANGED <<turnVars, reasoning, stream, bridge, send, lost, hitches>>

ContextFails ==
    /\ flush.at \in {"look", "store"}
    /\ Hitch({})
    /\ ioLock' = "free" /\ flush' = NoFlush
    /\ UNCHANGED <<turnVars, answerRow, reasoning, stream, bridge, send>>

FlushEnd ==
    /\ flush.at = "context"
    /\ flush' = NoFlush
    /\ UNCHANGED <<turnVars, answerRow, reasoning, stream, bridge, ioLock, send, lost,
                   hitches>>

\* Another process takes the task back and deletes the row.
Reclaimed(t) ==
    /\ answerRow[t].status = "processing"
    /\ Hitch({t})
    /\ answerRow' = [answerRow EXCEPT ![t] = NoRow]
    /\ UNCHANGED <<turnVars, reasoning, stream, bridge, ioLock, send, flush>>

-----------------------------------------------------------------------------
AnswerInit ==
    /\ apart \in BOOLEAN /\ named \in BOOLEAN
    /\ turns = {} /\ begun = {} /\ given = {}
    /\ answerRow = [t \in Turns |-> NoRow]
    /\ reasoning = [t \in Turns |-> <<>>] /\ stream = [t \in Turns |-> <<>>]
    /\ bridge = [c \in TurnChats |-> NoTurn]
    /\ ioLock = "free" /\ send = NoSend /\ flush = NoFlush
    /\ chunks = [t \in Turns |-> 0] /\ pieces = [t \in Turns |-> 0]
    /\ lost = {} /\ hitches = 0

Sender == Merge \/ TakeLock \/ AppendRead \/ AppendWrite \/ FinalRead \/ FinalWrite
Flusher ==
    \/ FlushBegin \/ FlushLock \/ FlushRead \/ FlushWrite
    \/ (\E t \in Turns : ContextOf(t)) \/ ContextRead \/ ContextWrite
    \/ FlushEnd

AnswerNext ==
    \/ \E t \in Turns :
         BeginTurn(t) \/ Reason(t) \/ Use(t) \/ Stream(t) \/ Deliver(t) \/ Final(t)
         \/ Reclaimed(t)
    \/ Sender \/ AppendFails \/ FinalFails \/ Flusher \/ FlushFails \/ ContextFails

AnswerSpec == AnswerInit /\ [][AnswerNext]_answerVars
\* The event loop runs both tasks, and the database answers.
AnswerFairSpec == AnswerSpec /\ WF_answerVars(Sender) /\ WF_answerVars(Flusher)

-----------------------------------------------------------------------------
\* Properties.

\* Reasoning is stored at most once, and only with its own turn, whoever writes
\* it, the flush or the end of the turn.
Once(s) == \A i, j \in DOMAIN s : s[i] = s[j] => i = j
ReasoningOnce == \A t \in Turns :
    Once(answerRow[t].meta.reasoning) /\ \A i \in DOMAIN answerRow[t].meta.reasoning :
                                     answerRow[t].meta.reasoning[i] <= chunks[t]

\* A completed answer has a text if a tool delivered one, or its final message or the
\* end of its stream brought one, although a flush wrote to the row meanwhile.  Text
\* that was only streamed before an empty final message is not promised:
\* _finalize_turn does not look at _stream_buffers.
AnswerIsThere == \A t \in given \ lost :
    answerRow[t].status = "completed" => answerRow[t].text # <<>>

\* The text of a row is that of its turn; without ids of streams it may hold what
\* an earlier turn of its chat left in the buffer.
TextIsOwn == \A t \in Turns : \A i \in DOMAIN answerRow[t].text :
    LET u == answerRow[t].text[i][1] IN
    IF named THEN u = t ELSE ChatOfTurn(u) = ChatOfTurn(t)

\* The window of a row is that of its own turn, also if the next turn of the
\* chat begins while the flush is under way.
OwnWindow == \A t \in Turns : answerRow[t].meta.window \in {t, NoTurn}

\* The row of an answer holds what belongs to its turn.
AnswerHoldsItsTurn == ReasoningOnce /\ OwnWindow /\ AnswerIsThere /\ TextIsOwn

\* The end of a turn is not held up by the flush.
FinalEnds == send.at # "idle" ~> send.at = "idle"

\* All reasoning of a completed turn is in its row when nobody writes any more.
ReasoningIsKept ==
    \A t \in Turns \ lost :
      answerRow[t].status = "completed" /\ send.at = "idle" /\ flush.at = "idle"
        => Len(answerRow[t].meta.reasoning \o reasoning[t]) = chunks[t]

=============================================================================
