-------------------------- MODULE AnswerRowProofs --------------------------
(***************************************************************************)
(* Theorems about AnswerRow for any number of turns, pieces of reasoning   *)
(* and of text, failing calls and deleted rows.                            *)
(***************************************************************************)
EXTENDS AnswerRow, SequenceTheorems, FiniteSetTheorems, TLAPS

-----------------------------------------------------------------------------
\* The invariant.

Elements(s) == {s[i] : i \in DOMAIN s}

\* The turn that is being written is open; a chat has one open turn, and the usage
\* of a chat is that of its open turn.
TurnsInv ==
    /\ send.at # "idle" => send.turn \in turns
    /\ send.at = "idle" => send = NoSend
    /\ flush.at \in {"idle", "context"} => flush.todo = <<>> /\ flush.seen = NoMeta
    /\ flush.at \notin {"idle", "context"} => flush.todo # <<>>
    /\ \A t \in Turns \ begun : answerRow[t] = NoRow /\ chunks[t] = 0
    /\ \A t \in turns : answerRow[t].status # "completed"

\* Where the window of a row comes from.
WindowInv ==
    /\ \A t, u \in turns : ChatOfTurn(t) = ChatOfTurn(u) => t = u
    /\ \A c \in TurnChats : bridge[c] # NoTurn => bridge[c] \in turns /\ ChatOfTurn(bridge[c]) = c
    /\ OwnWindow
    /\ send.turn # NoTurn => send.seen.meta.window \in {send.turn, NoTurn}
    /\ flush.todo # <<>> => /\ flush.window \in {Current, NoTurn}
                            /\ flush.seen.window \in {Current, NoTurn}

\* A text is with its turn until it is in the row, and only the dispatcher writes
\* texts.
TextInv ==
    \A t \in Turns \ lost :
      /\ t \in begun => answerRow[t].status # "none"
      /\ send.turn = t /\ send.at \in {"merge", "write"} => send.seen.text = answerRow[t].text
      /\ t \in given /\ answerRow[t].text = <<>> => send.turn = t /\ send.text # <<>>

\* A piece of text is of the turn whose row it is in, or for, or, when streams have no
\* ids, of the chat of that turn.
OfKey(text, k) == \A i \in DOMAIN text : KeyOf(text[i][1]) = k
SourceInv ==
    /\ \A t \in Turns : OfKey(answerRow[t].text, KeyOf(t))
    /\ \A k \in Turns : OfKey(stream[k], k)
    /\ send.turn # NoTurn => /\ OfKey(send.text, KeyOf(send.turn))
                             /\ OfKey(send.seen.text, KeyOf(send.turn))

\* The places of the reasoning of a turn.
Buffered(t) == Elements(reasoning[t])
Sent(t) == IF send.turn = t /\ send.at \in {"lock", "append", "appended"}
           THEN Elements(send.delta) ELSE {}
Flushed(t) ==
    UNION {Elements(flush.todo[i][2]) : i \in {j \in DOMAIN flush.todo : flush.todo[j][1] = t}}
InRow(t) == Elements(answerRow[t].meta.reasoning)
Seen(t) == IF send.turn = t THEN Elements(send.seen.meta.reasoning) ELSE {}
FlushSeen(t) ==
    IF flush.todo # <<>> /\ Current = t THEN Elements(flush.seen.reasoning) ELSE {}
Stored(t) == InRow(t) \cup Seen(t) \cup FlushSeen(t)

\* A piece of reasoning is at one of them.
AtOnePlace(b, s, f, r, n) ==
    /\ b \cup s \cup f \cup r \subseteq 1..n
    /\ b \cap (s \cup f \cup r) = {} /\ s \cap (f \cup r) = {} /\ f \cap r = {}
PlaceInv ==
    \A t \in Turns : AtOnePlace(Buffered(t), Sent(t), Flushed(t), Stored(t), chunks[t])

\* It is there once.
OnceInv ==
    /\ \A t \in Turns : Once(reasoning[t]) /\ Once(answerRow[t].meta.reasoning)
    /\ Once(send.delta) /\ Once(send.seen.meta.reasoning) /\ Once(flush.seen.reasoning)
    /\ \A i \in DOMAIN flush.todo : Once(flush.todo[i][2])
    /\ \A i, j \in DOMAIN flush.todo : flush.todo[i][1] = flush.todo[j][1] => i = j

RowInv ==
    AnswerTypeOK /\ TurnsInv /\ WindowInv /\ TextInv /\ SourceInv /\ PlaceInv /\ OnceInv

-----------------------------------------------------------------------------
\* What the parts of the actions do.

LEMMA UpdateIs ==
    ASSUME AnswerTypeOK, NEW t \in Turns, NEW r \in AnswerRows, Update(t, r)
    PROVE  /\ answerRow' \in [Turns -> AnswerRows]
           /\ answerRow'[t] = IF answerRow[t].status = "none" THEN answerRow[t] ELSE r
           /\ \A u \in Turns : u # t => answerRow'[u] = answerRow[u]
BY DEF AnswerTypeOK, Update

LEMMA GoOnIs ==
    ASSUME NEW todo, NEW free, GoOn(todo, free)
    PROVE  /\ flush'.todo = todo /\ flush'.window = NoTurn /\ flush'.seen = NoMeta
           /\ DOMAIN flush' = DOMAIN NoFlush
           /\ flush' = [at |-> flush'.at, todo |-> todo, window |-> NoTurn, seen |-> NoMeta]
           /\ flush'.at \in {"context", "reasoning", "read"}
           /\ flush'.at = "context" <=> todo = <<>>
           /\ flush'.at = "read" => free = "free"
           /\ ioLock' = IF flush'.at = "read" THEN "flush" ELSE free
BY DEF GoOn, NoFlush, Waits, HoldsLock

LEMMA FinishIs ==
    ASSUME NEW t, NEW text, FinishTurn(t, text)
    PROVE  /\ send' = [at |-> send'.at, turn |-> t, text |-> text, delta |-> reasoning[t],
                       seen |-> NoRow]
           /\ send'.at \in {"final", "lock", "append"}
           /\ send'.at = "final" <=> reasoning[t] = <<>>
           /\ send'.at = "append" => ioLock = "free"
           /\ ioLock' = IF send'.at = "append" THEN "send" ELSE ioLock
           /\ reasoning' = [reasoning EXCEPT ![t] = <<>>]
           /\ given' = IF text = <<>> THEN given ELSE given \cup {t}
           /\ UNCHANGED <<apart, named, turns, begun, chunks, answerRow, bridge, flush, lost,
                          hitches>>
BY DEF FinishTurn, NoSend

LEMMA EndTurnIs ==
    ASSUME NEW t, EndTurn(t)
    PROVE  /\ turns' = turns \ {t} /\ bridge' = [bridge EXCEPT ![ChatOfTurn(t)] = NoTurn]
           /\ send' = NoSend /\ UNCHANGED <<apart, named, begun, chunks, pieces, given, ioLock,
                                            stream>>
BY DEF EndTurn, DropBridge

\* The constants of the records.
LEMMA EmptyIsTyped ==
    /\ NoMeta \in Metas /\ NoRow \in AnswerRows
    /\ <<>> \in Deltas /\ <<>> \in PieceSeqs
    /\ NoMeta.reasoning = <<>> /\ NoMeta.window = NoTurn
    /\ NoRow.meta = NoMeta /\ NoRow.text = <<>> /\ NoRow.status = "none"
    /\ NoSend = [at |-> "idle", turn |-> NoTurn, text |-> <<>>, delta |-> <<>>,
                 seen |-> NoRow]
    /\ NoFlush = [at |-> "idle", todo |-> <<>>, window |-> NoTurn, seen |-> NoMeta]
BY DEF NoMeta, NoRow, NoSend, NoFlush, Metas, AnswerRows, Deltas, PieceSeqs

LEMMA ChatIsOne ==
    ASSUME NEW t \in Turns, AnswerAssumption
    PROVE  ChatOfTurn(t) \in TurnChats
BY DEF ChatOfTurn, TurnChats, Turns, AnswerAssumption

LEMMA KeyIsTurn ==
    ASSUME NEW t \in Turns, AnswerAssumption
    PROVE  KeyOf(t) \in Turns
BY ChatIsOne DEF KeyOf, TurnChats

-----------------------------------------------------------------------------
\* The types.

SendRecords ==
    [at : {"idle", "merge", "lock", "append", "appended", "final", "write"},
     turn : Turns \cup {NoTurn}, text : PieceSeqs, delta : Deltas, seen : AnswerRows]
FlushRecords ==
    [at : {"idle", "reasoning", "read", "write", "context", "wait", "look", "store"},
     todo : Seq(Turns \X Deltas), window : Turns \cup {NoTurn}, seen : Metas]

LEMMA FaultIs ==
    ASSUME AnswerTypeOK, AnswerAssumption, NEW T \in SUBSET Turns, Hitch(T)
    PROVE  lost' = lost \cup T /\ lost' \subseteq Turns /\ hitches' \in 0..MaxHitches
BY DEF Hitch, AnswerTypeOK, AnswerAssumption

LEMMA PieceIs ==
    ASSUME AnswerTypeOK, AnswerAssumption, NEW t \in Turns, NextPiece(t)
    PROVE  /\ pieces' \in [Turns -> 0..MaxPieces] /\ pieces'[t] \in 1..MaxPieces
           /\ \A u \in Turns : u # t => pieces'[u] = pieces[u]
           /\ <<<<t, pieces'[t]>>>> \in PieceSeqs /\ <<t, pieces'[t]>> \in Pieces
<1>1. /\ pieces \in [Turns -> 0..MaxPieces] /\ MaxPieces \in Nat
      /\ pieces[t] < MaxPieces /\ pieces' = [pieces EXCEPT ![t] = @ + 1]
  BY DEF NextPiece, AnswerTypeOK, AnswerAssumption
<1>2. pieces' \in [Turns -> 0..MaxPieces] /\ pieces'[t] \in 1..MaxPieces
  BY <1>1
<1>3. <<<<t, pieces'[t]>>>> \in PieceSeqs /\ <<t, pieces'[t]>> \in Pieces
  BY <1>2 DEF PieceSeqs, Pieces
<1> QED
  BY <1>1, <1>2, <1>3

\* The turns and what they send.
LEMMA TurnTypes ==
    ASSUME AnswerTypeOK, AnswerAssumption, NEW t \in Turns,
           BeginTurn(t) \/ Reason(t) \/ Use(t) \/ Stream(t) \/ Deliver(t) \/ Reclaimed(t)
    PROVE  AnswerTypeOK'
<1>1. CASE BeginTurn(t)
  <2>1. [NoRow EXCEPT !.status = "processing"] \in AnswerRows
    BY EmptyIsTyped DEF NoRow, AnswerRows
  <2> QED
    BY <1>1, <2>1 DEF AnswerTypeOK, BeginTurn
<1>2. CASE Reason(t)
  <2>1. /\ chunks' \in [Turns -> 0..MaxChunks] /\ chunks'[t] \in 1..MaxChunks
        /\ reasoning' = [reasoning EXCEPT ![t] = Append(@, chunks'[t])]
        /\ UNCHANGED <<apart, named, turns, begun, pieces, given, answerRow, stream, bridge, ioLock,
                       send, flush, lost, hitches>>
    BY <1>2 DEF AnswerTypeOK, Reason, AnswerAssumption
  <2>2. Append(reasoning[t], chunks'[t]) \in Deltas
    BY <2>1 DEF AnswerTypeOK, Deltas
  <2>3. reasoning' \in [Turns -> Deltas]
    BY <2>1, <2>2 DEF AnswerTypeOK
  <2> QED
    BY <2>1, <2>3 DEF AnswerTypeOK
<1>3. CASE Use(t)
  BY <1>3 DEF AnswerTypeOK, Use, turnVars
<1>4. CASE Stream(t)
  <2> DEFINE p == <<t, pieces'[t]>>
  <2>1. /\ pieces' \in [Turns -> 0..MaxPieces] /\ p \in Pieces
        /\ stream' = [stream EXCEPT ![KeyOf(t)] = Append(@, p)]
        /\ UNCHANGED <<apart, named, turns, begun, chunks, given, answerRow, reasoning,
                       bridge, ioLock, send, flush, lost, hitches>>
    BY <1>4, PieceIs DEF Stream
  <2> HIDE DEF p
  <2>2. KeyOf(t) \in Turns
    BY KeyIsTurn
  <2>3. stream' \in [Turns -> PieceSeqs]
    <3>1. Append(stream[KeyOf(t)], p) \in PieceSeqs
      BY <2>1, <2>2 DEF AnswerTypeOK, PieceSeqs
    <3> QED
      BY <2>1, <2>2, <3>1 DEF AnswerTypeOK
  <2> QED
    BY <2>1, <2>3 DEF AnswerTypeOK
<1>5. CASE Deliver(t)
  <2> DEFINE p == <<<<t, pieces'[t]>>>>
  <2>1. /\ pieces' \in [Turns -> 0..MaxPieces] /\ p \in PieceSeqs
        /\ send' = [NoSend EXCEPT !.at = "merge", !.turn = t, !.text = p,
                                  !.seen = answerRow[t]]
        /\ send.at = "idle" /\ t \in turns /\ given' = given \cup {t}
        /\ UNCHANGED <<apart, named, turns, begun, chunks, answerRow, reasoning, stream,
                       bridge, ioLock, flush, lost, hitches>>
    BY <1>5, PieceIs DEF Deliver
  <2> HIDE DEF p
  <2>2. send' = [at |-> "merge", turn |-> t, text |-> p, delta |-> <<>>,
                 seen |-> answerRow[t]]
    BY <2>1 DEF NoSend
  <2>3. answerRow[t] \in AnswerRows /\ <<>> \in Deltas
    BY <2>1, EmptyIsTyped DEF AnswerTypeOK
  <2>6. p \in PieceSeqs /\ t \in Turns
    BY <2>1
  <2>4. send' \in SendRecords
    BY <1>1, <1>3, <2>2, <2>3, <2>6 DEF SendRecords
  <2>5. send'.at = "merge"
    BY <2>2
  <2> QED
    BY <2>1, <2>4, <2>5 DEF AnswerTypeOK, SendRecords
<1>6. CASE Reclaimed(t)
  <2>1. lost' \subseteq Turns /\ hitches' \in 0..MaxHitches
    BY <1>6, FaultIs DEF Reclaimed
  <2>2. answerRow' \in [Turns -> AnswerRows]
    BY <1>6, EmptyIsTyped DEF Reclaimed, AnswerTypeOK
  <2> QED
    BY <1>6, <2>1, <2>2 DEF Reclaimed, AnswerTypeOK, turnVars
<1> QED
  BY <1>1, <1>2, <1>3, <1>4, <1>5, <1>6

\* The end of a turn.
LEMMA FinalTypes ==
    ASSUME AnswerTypeOK, AnswerAssumption, NEW t \in Turns, Final(t)
    PROVE  AnswerTypeOK'
<1>1. PICK text \in PieceSeqs :
        /\ FinishTurn(t, text) /\ send.at = "idle" /\ t \in turns
        /\ pieces' \in [Turns -> 0..MaxPieces] /\ stream' \in [Turns -> PieceSeqs]
  <2>1. CASE NextPiece(t) /\ UNCHANGED stream /\ FinishTurn(t, <<<<t, pieces'[t]>>>>)
    <3>1. pieces' \in [Turns -> 0..MaxPieces] /\ <<<<t, pieces'[t]>>>> \in PieceSeqs
      BY <2>1, PieceIs
    <3> QED
      BY <2>1, <3>1 DEF Final, AnswerTypeOK
  <2>2. CASE UNCHANGED <<pieces, stream>> /\ FinishTurn(t, <<>>)
    BY <2>2, EmptyIsTyped DEF Final, AnswerTypeOK
  <2>3. CASE /\ stream' = [stream EXCEPT ![KeyOf(t)] = <<>>]
             /\ UNCHANGED pieces /\ FinishTurn(t, stream[KeyOf(t)])
    BY <2>3, EmptyIsTyped, KeyIsTurn DEF Final, AnswerTypeOK
  <2> QED
    BY <2>1, <2>2, <2>3 DEF Final
<1>2. /\ send' = [at |-> send'.at, turn |-> t, text |-> text, delta |-> reasoning[t],
                  seen |-> NoRow]
      /\ send'.at \in {"final", "lock", "append"}
      /\ send'.at = "append" => ioLock = "free"
      /\ ioLock' = IF send'.at = "append" THEN "send" ELSE ioLock
      /\ reasoning' = [reasoning EXCEPT ![t] = <<>>]
      /\ given' \subseteq given \cup {t}
      /\ UNCHANGED <<apart, named, turns, begun, chunks, answerRow, bridge, flush, lost,
                     hitches>>
  BY <1>1, FinishIs
<1>3. send' \in [at : {"idle", "merge", "lock", "append", "appended", "final", "write"},
                 turn : Turns \cup {NoTurn}, text : PieceSeqs, delta : Deltas,
                 seen : AnswerRows]
  BY <1>2, EmptyIsTyped DEF AnswerTypeOK
<1>4. reasoning' \in [Turns -> Deltas]
  BY <1>2, EmptyIsTyped DEF AnswerTypeOK
<1> QED
  BY <1>1, <1>2, <1>3, <1>4 DEF AnswerTypeOK

\* A text or a delta after another.
LEMMA JoinedIsTyped ==
    /\ \A x, y \in PieceSeqs : x \o y \in PieceSeqs
    /\ \A x, y \in Deltas : x \o y \in Deltas
BY DEF PieceSeqs, Deltas

\* The dispatcher, which has a turn when it is not idle.
LEMMA SenderTypes ==
    ASSUME AnswerTypeOK, TurnsInv, AnswerAssumption, Sender \/ AppendFails \/ FinalFails
    PROVE  AnswerTypeOK'
<1> DEFINE t == send.turn
<1>1. send.at # "idle" /\ t \in Turns
  BY DEF TurnsInv, AnswerTypeOK, Sender, Merge, TakeLock, AppendRead, AppendWrite, FinalRead,
         FinalWrite, AppendFails, FinalFails
<1>2. /\ send \in SendRecords /\ NoSend \in SendRecords /\ NoSend.at = "idle"
      /\ answerRow[t] \in AnswerRows /\ send.seen \in AnswerRows /\ send.text \in PieceSeqs
      /\ send.delta \in Deltas
  BY <1>1, EmptyIsTyped DEF AnswerTypeOK, SendRecords
<1> HIDE DEF t
<1>3. CASE Merge
  <2>1. CASE /\ Update(t, [answerRow[t] EXCEPT !.text = send.seen.text \o send.text,
                                          !.meta = send.seen.meta])
             /\ UNCHANGED <<lost, hitches>>
    <3> DEFINE r == [answerRow[t] EXCEPT !.text = send.seen.text \o send.text,
                                   !.meta = send.seen.meta]
    <3>1. send.seen.text \o send.text \in PieceSeqs /\ send.seen.meta \in Metas
      BY <1>2, JoinedIsTyped DEF AnswerRows
    <3>2. r \in AnswerRows
      BY <1>2, <3>1 DEF AnswerRows
    <3>3. answerRow' \in [Turns -> AnswerRows]
      <4> HIDE DEF r
      <4> QED
        BY <1>1, <2>1, <3>2, UpdateIs DEF r
    <3> QED
      BY <1>2, <1>3, <2>1, <3>3 DEF AnswerTypeOK, Merge, turnVars, SendRecords
  <2>2. CASE Hitch({t}) /\ UNCHANGED answerRow
    <3>1. lost' \subseteq Turns /\ hitches' \in 0..MaxHitches
      BY <1>1, <2>2, FaultIs
    <3> QED
      BY <1>2, <1>3, <2>2, <3>1 DEF AnswerTypeOK, Merge, turnVars, SendRecords
  <2> QED
    BY <1>3, <2>1, <2>2 DEF Merge, t
<1>4. CASE TakeLock
  <2>1. /\ send'.at = "append" /\ send' \in SendRecords
    BY <1>2, <1>4 DEF TakeLock, SendRecords
  <2> QED
    BY <1>4, <2>1 DEF AnswerTypeOK, TakeLock, turnVars, SendRecords
<1>5. CASE AppendRead
  <2>1. CASE answerRow[t].status = "none"
    <3>1. send'.at = "final" /\ send' \in SendRecords
      BY <1>2, <1>5, <2>1 DEF AppendRead, SendRecords, t
    <3> QED
      BY <1>5, <2>1, <3>1 DEF AnswerTypeOK, AppendRead, turnVars, SendRecords, t
  <2>2. CASE answerRow[t].status # "none"
    <3>1. send'.at = "appended" /\ send' \in SendRecords
      BY <1>2, <1>5, <2>2 DEF AppendRead, SendRecords, t
    <3> QED
      BY <1>5, <2>2, <3>1 DEF AnswerTypeOK, AppendRead, turnVars, SendRecords, t
  <2> QED
    BY <2>1, <2>2
<1>6. CASE AppendWrite
  <2> DEFINE r == [answerRow[t] EXCEPT
                     !.meta = [send.seen.meta EXCEPT !.reasoning = @ \o send.delta]]
  <2>1. send.seen.meta \in Metas
    BY <1>2 DEF AnswerRows
  <2>2. send.seen.meta.reasoning \o send.delta \in Deltas
    BY <1>2, <2>1, JoinedIsTyped DEF Metas
  <2>3. [send.seen.meta EXCEPT !.reasoning = @ \o send.delta] \in Metas
    BY <2>1, <2>2 DEF Metas
  <2>4. r \in AnswerRows
    BY <1>2, <2>3 DEF AnswerRows
  <2>5. answerRow' \in [Turns -> AnswerRows]
    <3>1. Update(t, r)
      BY <1>6 DEF AppendWrite, t
    <3> HIDE DEF r
    <3> QED
      BY <1>1, <2>4, <3>1, UpdateIs
  <2>6. send'.at = "final" /\ send' \in SendRecords
    BY <1>2, <1>6 DEF AppendWrite, SendRecords
  <2> QED
    BY <1>6, <2>5, <2>6 DEF AnswerTypeOK, AppendWrite, turnVars, SendRecords
<1>7. CASE FinalRead
  <2>1. send'.at = "write" /\ send' \in SendRecords
    BY <1>2, <1>7 DEF FinalRead, SendRecords, t
  <2> QED
    BY <1>7, <2>1 DEF AnswerTypeOK, FinalRead, turnVars, SendRecords
<1>8. ASSUME EndTurn(t)
      PROVE  /\ turns' \subseteq begun' /\ begun' \subseteq Turns
             /\ bridge' \in [TurnChats -> Turns \cup {NoTurn}]
             /\ given' \subseteq begun' /\ send' = NoSend
             /\ UNCHANGED <<apart, named, chunks, pieces, given, ioLock, stream>>
  BY <1>1, <1>8, EndTurnIs, ChatIsOne DEF AnswerTypeOK
<1>9. CASE FinalWrite
  <2> DEFINE r == [status |-> "completed", text |-> FinalText(send.text, send.seen.text),
                   meta |-> [send.seen.meta EXCEPT !.final = TRUE]]
  <2>1. send.seen.meta \in Metas /\ FinalText(send.text, send.seen.text) \in PieceSeqs
    BY <1>2 DEF AnswerRows, FinalText
  <2>2. [send.seen.meta EXCEPT !.final = TRUE] \in Metas
    BY <2>1 DEF Metas
  <2>3. r \in AnswerRows
    BY <2>1, <2>2 DEF AnswerRows
  <2>4. answerRow' \in [Turns -> AnswerRows]
    <3>1. Update(t, r)
      BY <1>9 DEF FinalWrite, t
    <3> HIDE DEF r
    <3> QED
      BY <1>1, <2>3, <3>1, UpdateIs
  <2>5. EndTurn(t) /\ UNCHANGED <<reasoning, flush, lost, hitches>> /\ send.at = "write"
    BY <1>9 DEF FinalWrite, t
  <2> QED
    BY <1>2, <1>8, <2>4, <2>5 DEF AnswerTypeOK, SendRecords
<1>10. CASE FinalFails
  <2>1. answerRow' \in [Turns -> AnswerRows]
    <3>1. PICK r \in {NoRow, [NoRow EXCEPT !.status = "failed"]} : Update(t, r)
      BY <1>10 DEF FinalFails, t
    <3>2. r \in AnswerRows
      BY EmptyIsTyped DEF AnswerRows
    <3> QED
      BY <1>1, <3>1, <3>2, UpdateIs
  <2>2. lost' \subseteq Turns /\ hitches' \in 0..MaxHitches
    BY <1>1, <1>10, FaultIs DEF FinalFails, t
  <2>3. reasoning' \in [Turns -> Deltas]
    BY <1>10, EmptyIsTyped DEF FinalFails, AnswerTypeOK
  <2>4. EndTurn(t) /\ UNCHANGED flush /\ send.at = "write"
    BY <1>10 DEF FinalFails, t
  <2> QED
    BY <1>2, <1>8, <2>1, <2>2, <2>3, <2>4 DEF AnswerTypeOK, SendRecords
<1>11. CASE AppendFails
  <2>1. lost' \subseteq Turns /\ hitches' \in 0..MaxHitches
    BY <1>1, <1>11, FaultIs DEF AppendFails, t
  <2> QED
    BY <1>2, <1>11, <2>1 DEF AnswerTypeOK, AppendFails, turnVars, SendRecords
<1> QED
  BY <1>3, <1>4, <1>5, <1>6, <1>7, <1>9, <1>10, <1>11 DEF Sender

\* The buffers that the flush takes over, in any order.
LEMMA TakenIs ==
    ASSUME AnswerTypeOK, AnswerAssumption, FlushBegin
    PROVE  \E todo \in Seq(Turns \X Deltas) :
             /\ GoOn(todo, ioLock)
             /\ \A i \in DOMAIN todo : todo[i][2] = reasoning[todo[i][1]]
             /\ \A i, j \in DOMAIN todo : todo[i][1] = todo[j][1] => i = j
<1>1. PICK order \in SetToSeqs(FullBuffers) :
        GoOn([i \in DOMAIN order |-> <<order[i], reasoning[order[i]]>>], ioLock)
  BY DEF FlushBegin
<1>2. Cardinality(FullBuffers) \in Nat
  <2>1. IsFiniteSet(Turns)
    BY FS_Interval DEF Turns, AnswerAssumption
  <2>2. FullBuffers \subseteq Turns
    BY DEF FullBuffers
  <2> QED
    BY <2>1, <2>2, FS_Subset, FS_CardinalityType
<1>3. /\ order \in [1..Cardinality(FullBuffers) -> FullBuffers]
      /\ \A i, j \in DOMAIN order : i # j => order[i] # order[j]
  BY <1>1 DEF SetToSeqs
<1> DEFINE todo == [i \in DOMAIN order |-> <<order[i], reasoning[order[i]]>>]
<1>4. \A i \in DOMAIN order : order[i] \in Turns /\ reasoning[order[i]] \in Deltas
  BY <1>3 DEF FullBuffers, AnswerTypeOK
<1>5. todo \in [1..Cardinality(FullBuffers) -> Turns \X Deltas]
  BY <1>3, <1>4
<1>6. todo \in Seq(Turns \X Deltas)
  BY <1>2, <1>5
<1> QED
  BY <1>1, <1>3, <1>6

\* On with the next buffer.
LEMMA GoOnTypes ==
    ASSUME AnswerTypeOK, NEW todo \in Seq(Turns \X Deltas), NEW free \in {"free", "send"},
           GoOn(todo, free)
    PROVE  /\ flush' \in FlushRecords /\ ioLock' \in {"free", "send", "flush"}
           /\ ioLock' = "send" <=> free = "send"
           /\ ioLock' = "flush" <=> flush'.at \in {"read", "write", "look", "store"}
<1>1. /\ flush' = [at |-> flush'.at, todo |-> todo, window |-> NoTurn, seen |-> NoMeta]
      /\ flush'.at \in {"context", "reasoning", "read"}
      /\ flush'.at = "read" => free = "free"
      /\ ioLock' = IF flush'.at = "read" THEN "flush" ELSE free
  BY GoOnIs
<1>2. flush' \in FlushRecords
  BY <1>1, EmptyIsTyped DEF FlushRecords
<1> QED
  BY <1>1, <1>2

\* What a step of the flush must leave for the types to hold.
LEMMA FlushTypes ==
    ASSUME AnswerTypeOK, flush' \in FlushRecords, ioLock' \in {"free", "send", "flush"},
           ioLock' = "send" <=> ioLock = "send",
           ioLock' = "flush" <=> flush'.at \in {"read", "write", "look", "store"},
           answerRow' \in [Turns -> AnswerRows], reasoning' \in [Turns -> Deltas],
           lost' \subseteq Turns, hitches' \in 0..MaxHitches,
           UNCHANGED <<turnVars, stream, bridge, send>>
    PROVE  AnswerTypeOK'
BY DEF AnswerTypeOK, FlushRecords, turnVars

\* The flush, which has the rest of the buffers when it is at one.
LEMMA FlusherTypes ==
    ASSUME AnswerTypeOK, TurnsInv, AnswerAssumption, Flusher \/ FlushFails \/ ContextFails
    PROVE  AnswerTypeOK'
<1>1. /\ flush \in FlushRecords /\ NoFlush \in FlushRecords /\ NoFlush.at = "idle"
      /\ flush.todo \in Seq(Turns \X Deltas) /\ flush.seen \in Metas
      /\ flush.window \in Turns \cup {NoTurn}
  BY EmptyIsTyped DEF AnswerTypeOK, FlushRecords
<1>2. /\ answerRow \in [Turns -> AnswerRows] /\ reasoning \in [Turns -> Deltas]
      /\ lost \subseteq Turns /\ hitches \in 0..MaxHitches
      /\ ioLock \in {"free", "send", "flush"}
      /\ ioLock = "flush" <=> flush.at \in {"read", "write", "look", "store"}
  BY DEF AnswerTypeOK
<1>3. flush.at \notin {"idle", "context"}
        => /\ flush.todo # <<>> /\ Current \in Turns /\ flush.todo[1][2] \in Deltas
           /\ Tail(flush.todo) \in Seq(Turns \X Deltas)
           /\ answerRow[Current] \in AnswerRows /\ answerRow[Current].meta \in Metas
  BY <1>1, <1>2 DEF TurnsInv, Current, AnswerRows
<1>4. CASE FlushBegin
  <2>1. PICK todo \in Seq(Turns \X Deltas) : GoOn(todo, ioLock)
    BY <1>4, TakenIs
  <2>2. ioLock \in {"free", "send"}
    BY <1>2, <1>4 DEF FlushBegin
  <2>3. reasoning' \in [Turns -> Deltas]
    BY <1>4, EmptyIsTyped DEF FlushBegin, TakenBuffers
  <2>4. UNCHANGED <<turnVars, answerRow, stream, bridge, send, lost, hitches>>
    BY <1>4 DEF FlushBegin
  <2> QED
    BY <1>2, <2>1, <2>2, <2>3, <2>4, GoOnTypes, FlushTypes
<1>5. CASE FlushLock
  <2>1. /\ flush' \in FlushRecords /\ flush'.at \in {"look", "read"}
        /\ ioLock = "free" /\ ioLock' = "flush"
        /\ UNCHANGED <<turnVars, answerRow, reasoning, stream, bridge, send, lost,
                       hitches>>
    BY <1>1, <1>5 DEF FlushLock, FlushRecords
  <2> QED
    BY <1>2, <2>1, FlushTypes
<1>6. CASE FlushRead
  <2>1. CASE answerRow[Current].status = "none"
    <3>1. /\ GoOn(Tail(flush.todo), "free") /\ ioLock = "flush"
          /\ Tail(flush.todo) \in Seq(Turns \X Deltas)
          /\ UNCHANGED <<turnVars, answerRow, reasoning, stream, bridge, send, lost,
                         hitches>>
      BY <1>2, <1>3, <1>6, <2>1 DEF FlushRead, Skip
    <3> QED
      BY <1>2, <3>1, GoOnTypes, FlushTypes
  <2>2. CASE answerRow[Current].status # "none"
    <3>1. /\ flush' = [flush EXCEPT !.at = "write", !.seen = answerRow[Current].meta]
          /\ ioLock' = ioLock /\ ioLock = "flush"
          /\ UNCHANGED <<turnVars, answerRow, reasoning, stream, bridge, send, lost,
                         hitches>>
          /\ answerRow[Current].meta \in Metas
      BY <1>2, <1>3, <1>6, <2>2 DEF FlushRead
    <3>2. flush' \in FlushRecords /\ flush'.at = "write"
      BY <1>1, <3>1 DEF FlushRecords
    <3> QED
      BY <1>2, <3>1, <3>2, FlushTypes
  <2> QED
    BY <2>1, <2>2
<1>7. ASSUME NEW m \in Metas, flush.at \notin {"idle", "context"},
             Update(Current, [answerRow[Current] EXCEPT !.meta = m])
      PROVE  answerRow' \in [Turns -> AnswerRows]
  <2> DEFINE r == [answerRow[Current] EXCEPT !.meta = m]
  <2>1. r \in AnswerRows
    BY <1>3, <1>7 DEF AnswerRows
  <2>2. Update(Current, r)
    BY <1>7
  <2> HIDE DEF r
  <2> QED
    BY <1>3, <1>7, <2>1, <2>2, UpdateIs
<1>8. CASE FlushWrite
  <2> DEFINE m == [flush.seen EXCEPT !.reasoning = @ \o flush.todo[1][2]]
  <2>1. flush.seen.reasoning \o flush.todo[1][2] \in Deltas
    BY <1>1, <1>3, <1>8, JoinedIsTyped DEF FlushWrite, Metas
  <2>2. m \in Metas
    BY <1>1, <2>1 DEF Metas
  <2>3. /\ GoOn(Tail(flush.todo), "free") /\ ioLock = "flush" /\ flush.at = "write"
        /\ Tail(flush.todo) \in Seq(Turns \X Deltas)
        /\ UNCHANGED <<turnVars, reasoning, stream, bridge, send, lost, hitches>>
        /\ Update(Current, [answerRow[Current] EXCEPT !.meta = m])
    BY <1>2, <1>3, <1>8 DEF FlushWrite
  <2> HIDE DEF m
  <2>4. answerRow' \in [Turns -> AnswerRows]
    BY <1>7, <2>2, <2>3
  <2> QED
    BY <1>2, <2>3, <2>4, GoOnTypes, FlushTypes
<1>9. CASE FlushFails
  <2>1. {flush.todo[i][1] : i \in DOMAIN flush.todo} \in SUBSET Turns
    BY <1>1
  <2>2. lost' \subseteq Turns /\ hitches' \in 0..MaxHitches
    BY <1>9, <2>1, FaultIs DEF FlushFails
  <2>3. /\ GoOn(<<>>, "free") /\ ioLock = "flush" /\ <<>> \in Seq(Turns \X Deltas)
        /\ UNCHANGED <<turnVars, answerRow, reasoning, stream, bridge, send>>
    BY <1>2, <1>9 DEF FlushFails
  <2> QED
    BY <1>2, <2>2, <2>3, GoOnTypes, FlushTypes
<1>10. ASSUME NEW t \in Turns, ContextOf(t)
       PROVE  AnswerTypeOK'
  <2>1. /\ flush' = [flush EXCEPT !.at = Waits("wait", "look", ioLock),
                                  !.todo = <<<<t, <<>>>>>>,
                                  !.window = bridge[ChatOfTurn(t)]]
        /\ ioLock' = IF Waits("wait", "look", ioLock) = "look" THEN "flush" ELSE ioLock
        /\ Waits("wait", "look", ioLock) = "look" => ioLock = "free"
        /\ Waits("wait", "look", ioLock) \in {"wait", "look"}
        /\ flush.at = "context"
        /\ UNCHANGED <<turnVars, answerRow, reasoning, stream, bridge, send, lost,
                       hitches>>
    BY <1>10 DEF ContextOf, Waits, HoldsLock
  <2>2. bridge[ChatOfTurn(t)] \in Turns \cup {NoTurn}
    BY ChatIsOne DEF AnswerTypeOK
  <2>3. <<<<t, <<>>>>>> \in Seq(Turns \X Deltas)
    BY EmptyIsTyped
  <2>4. flush' \in FlushRecords
    BY <1>1, <2>1, <2>2, <2>3 DEF FlushRecords
  <2>5. flush'.at = Waits("wait", "look", ioLock)
    BY <1>1, <2>1 DEF FlushRecords
  <2> QED
    BY <1>2, <2>1, <2>4, <2>5, FlushTypes
<1>11. CASE ContextRead
  <2>1. CASE answerRow[Current].status = "none" \/ answerRow[Current].meta.window = flush.window
    <3>1. /\ flush' \in FlushRecords /\ flush'.at = "context"
          /\ ioLock = "flush" /\ ioLock' = "free"
          /\ UNCHANGED <<turnVars, answerRow, reasoning, stream, bridge, send, lost,
                         hitches>>
      BY <1>1, <1>2, <1>11, <2>1 DEF ContextRead, LeaveRow, FlushRecords
    <3> QED
      BY <1>2, <3>1, FlushTypes
  <2>2. CASE ~(answerRow[Current].status = "none" \/ answerRow[Current].meta.window = flush.window)
    <3>1. /\ flush' = [flush EXCEPT !.at = "store", !.seen = answerRow[Current].meta]
          /\ ioLock' = ioLock /\ ioLock = "flush"
          /\ UNCHANGED <<turnVars, answerRow, reasoning, stream, bridge, send, lost,
                         hitches>>
          /\ answerRow[Current].meta \in Metas
      BY <1>2, <1>3, <1>11, <2>2 DEF ContextRead
    <3>2. flush' \in FlushRecords /\ flush'.at = "store"
      BY <1>1, <3>1 DEF FlushRecords
    <3> QED
      BY <1>2, <3>1, <3>2, FlushTypes
  <2> QED
    BY <2>1, <2>2
<1>12. CASE ContextWrite
  <2> DEFINE m == [flush.seen EXCEPT !.window = flush.window]
  <2>1. m \in Metas
    BY <1>1 DEF Metas
  <2>2. /\ flush' \in FlushRecords /\ flush'.at = "context"
        /\ ioLock = "flush" /\ ioLock' = "free" /\ flush.at = "store"
        /\ UNCHANGED <<turnVars, reasoning, stream, bridge, send, lost, hitches>>
        /\ Update(Current, [answerRow[Current] EXCEPT !.meta = m])
    BY <1>1, <1>2, <1>12 DEF ContextWrite, LeaveRow, FlushRecords
  <2> HIDE DEF m
  <2>3. answerRow' \in [Turns -> AnswerRows]
    BY <1>7, <2>1, <2>2
  <2> QED
    BY <1>2, <2>2, <2>3, FlushTypes
<1>13. CASE ContextFails
  <2>1. lost' \subseteq Turns /\ hitches' \in 0..MaxHitches
    BY <1>13, FaultIs DEF ContextFails
  <2> QED
    BY <1>1, <1>2, <1>13, <2>1, FlushTypes DEF ContextFails
<1>14. CASE FlushEnd
  BY <1>1, <1>2, <1>14, FlushTypes DEF FlushEnd
<1> QED
  BY <1>4, <1>5, <1>6, <1>8, <1>9, <1>10, <1>11, <1>12, <1>13, <1>14 DEF Flusher

-----------------------------------------------------------------------------
\* The turns.

\* A row that does not exist stays so, and no row but that of the turn changes.
LEMMA UpdateKeeps ==
    ASSUME AnswerTypeOK, NEW t \in Turns, NEW r, Update(t, r)
    PROVE  /\ answerRow'[t] = IF answerRow[t].status = "none" THEN answerRow[t] ELSE r
           /\ \A u \in Turns : u # t => answerRow'[u] = answerRow[u]
           /\ \A u \in Turns : answerRow[u].status = "none" => answerRow'[u] = answerRow[u]
BY DEF AnswerTypeOK, Update

\* The flush writes only to what is beside the text.
LEMMA MetaIs ==
    ASSUME AnswerTypeOK, NEW t \in Turns, NEW m, Update(t, [answerRow[t] EXCEPT !.meta = m])
    PROVE  /\ answerRow'[t].meta = IF answerRow[t].status = "none" THEN answerRow[t].meta ELSE m
           /\ \A u \in Turns : /\ u # t => answerRow'[u] = answerRow[u]
                               /\ answerRow[u].status = "none" => answerRow'[u] = answerRow[u]
                               /\ answerRow'[u].text = answerRow[u].text
                               /\ answerRow'[u].status = answerRow[u].status
<1>1. answerRow \in [Turns -> AnswerRows]
  BY DEF AnswerTypeOK
<1>2. answerRow' = [answerRow EXCEPT ![t] = IF answerRow[t].status = "none" THEN answerRow[t]
                                ELSE [answerRow[t] EXCEPT !.meta = m]]
  BY DEF Update
<1>3. [answerRow[t] EXCEPT !.meta = m] = [status |-> answerRow[t].status, text |-> answerRow[t].text,
                                    meta |-> m]
  BY <1>1 DEF AnswerRows
<1> QED
  BY <1>1, <1>2, <1>3

\* The flush leaves the turns and their texts.
LEMMA FlusherKeeps ==
    ASSUME AnswerTypeOK, TurnsInv, AnswerAssumption, Flusher \/ FlushFails \/ ContextFails
    PROVE  /\ UNCHANGED <<apart, named, turns, begun, chunks, pieces, given, stream, bridge, send>>
           /\ lost \subseteq lost'
           /\ \A u \in Turns : /\ answerRow'[u].text = answerRow[u].text
                               /\ answerRow'[u].status = answerRow[u].status
                               /\ answerRow[u].status = "none" => answerRow'[u] = answerRow[u]
           /\ flush'.at \in {"idle", "context"} <=> flush'.todo = <<>>
           /\ flush'.todo = <<>> => flush'.seen = NoMeta
<1>1. /\ flush \in FlushRecords /\ flush.todo \in Seq(Turns \X Deltas)
      /\ NoFlush = [at |-> "idle", todo |-> <<>>, window |-> NoTurn, seen |-> NoMeta]
  BY EmptyIsTyped DEF AnswerTypeOK, FlushRecords
<1>2. flush.at \notin {"idle", "context"} => flush.todo # <<>> /\ Current \in Turns
  BY <1>1 DEF TurnsInv, Current
<1>3. ASSUME UNCHANGED answerRow
      PROVE  \A u \in Turns : /\ answerRow'[u].text = answerRow[u].text
                              /\ answerRow'[u].status = answerRow[u].status
                              /\ answerRow[u].status = "none" => answerRow'[u] = answerRow[u]
  BY <1>3
<1>4. CASE FlushBegin
  <2>1. PICK todo : GoOn(todo, ioLock)
    BY <1>4 DEF FlushBegin
  <2>2. /\ flush'.at \in {"idle", "context"} <=> flush'.todo = <<>>
        /\ flush'.todo = <<>> => flush'.seen = NoMeta
    BY <2>1, GoOnIs
  <2> QED
    BY <1>3, <1>4, <2>2 DEF FlushBegin, turnVars
<1>5. CASE FlushLock
  <2>1. flush'.at \in {"look", "read"} /\ flush'.todo = flush.todo
        /\ flush.at \in {"reasoning", "wait"}
    BY <1>1, <1>5 DEF FlushLock, FlushRecords
  <2> QED
    BY <1>2, <1>3, <1>5, <2>1 DEF FlushLock, turnVars
<1>6. CASE FlushRead
  <2>1. /\ flush'.at \in {"idle", "context"} <=> flush'.todo = <<>>
        /\ flush'.todo = <<>> => flush'.seen = NoMeta
    <3>1. CASE answerRow[Current].status = "none"
      <4>1. GoOn(Tail(flush.todo), "free")
        BY <1>6, <3>1 DEF FlushRead, Skip
      <4> QED
        BY <4>1, GoOnIs
    <3>2. CASE answerRow[Current].status # "none"
      <4>1. flush'.at = "write" /\ flush'.todo = flush.todo /\ flush.at = "read"
        BY <1>1, <1>6, <3>2 DEF FlushRead, FlushRecords
      <4> QED
        BY <1>2, <4>1
    <3> QED
      BY <3>1, <3>2
  <2> QED
    BY <1>3, <1>6, <2>1 DEF FlushRead, turnVars
<1>7. CASE FlushWrite
  <2> DEFINE m == [flush.seen EXCEPT !.reasoning = @ \o flush.todo[1][2]]
  <2>1. /\ GoOn(Tail(flush.todo), "free") /\ flush.at = "write"
        /\ Update(Current, [answerRow[Current] EXCEPT !.meta = m])
        /\ UNCHANGED <<apart, named, turns, begun, chunks, pieces, given, stream, bridge, send, lost>>
    BY <1>7 DEF FlushWrite, turnVars
  <2> HIDE DEF m
  <2>2. \A u \in Turns : /\ answerRow'[u].text = answerRow[u].text
                         /\ answerRow'[u].status = answerRow[u].status
                         /\ answerRow[u].status = "none" => answerRow'[u] = answerRow[u]
    BY <1>2, <2>1, MetaIs
  <2>3. /\ flush'.at \in {"idle", "context"} <=> flush'.todo = <<>>
        /\ flush'.todo = <<>> => flush'.seen = NoMeta
    BY <2>1, GoOnIs
  <2> QED
    BY <2>1, <2>2, <2>3
<1>8. CASE FlushFails
  <2>1. GoOn(<<>>, "free") /\ lost \subseteq lost'
        /\ UNCHANGED <<apart, named, turns, begun, chunks, pieces, given, answerRow, stream, bridge,
                       send>>
    BY <1>8 DEF FlushFails, Hitch, turnVars
  <2>2. /\ flush'.at \in {"idle", "context"} <=> flush'.todo = <<>>
        /\ flush'.todo = <<>> => flush'.seen = NoMeta
    BY <2>1, GoOnIs
  <2> QED
    BY <1>3, <2>1, <2>2
<1>9. ASSUME NEW t \in Turns, ContextOf(t)
      PROVE  /\ UNCHANGED <<apart, named, turns, begun, chunks, pieces, given, stream, bridge, send>>
             /\ UNCHANGED <<answerRow, lost>>
             /\ flush'.at \in {"idle", "context"} <=> flush'.todo = <<>>
             /\ flush'.todo = <<>> => flush'.seen = NoMeta
  <2>1. flush'.at \in {"wait", "look"} /\ flush'.todo = <<<<t, <<>>>>>>
    BY <1>1, <1>9 DEF ContextOf, Waits, FlushRecords
  <2> QED
    BY <1>9, <2>1 DEF ContextOf, turnVars
<1>10. CASE ContextRead
  <2>1. /\ flush'.at \in {"idle", "context"} <=> flush'.todo = <<>>
        /\ flush'.todo = <<>> => flush'.seen = NoMeta
    <3>1. CASE answerRow[Current].status = "none" \/ answerRow[Current].meta.window = flush.window
      BY <1>1, <1>10, <3>1 DEF ContextRead, LeaveRow
    <3>2. CASE ~(answerRow[Current].status = "none" \/ answerRow[Current].meta.window = flush.window)
      <4>1. flush'.at = "store" /\ flush'.todo = flush.todo /\ flush.at = "look"
        BY <1>1, <1>10, <3>2 DEF ContextRead, FlushRecords
      <4> QED
        BY <1>2, <4>1
    <3> QED
      BY <3>1, <3>2
  <2> QED
    BY <1>3, <1>10, <2>1 DEF ContextRead, turnVars
<1>11. CASE ContextWrite
  <2> DEFINE m == [flush.seen EXCEPT !.window = flush.window]
  <2>1. /\ LeaveRow /\ flush.at = "store"
        /\ Update(Current, [answerRow[Current] EXCEPT !.meta = m])
        /\ UNCHANGED <<apart, named, turns, begun, chunks, pieces, given, stream, bridge, send, lost>>
    BY <1>11 DEF ContextWrite, turnVars
  <2>2. flush'.at = "context" /\ flush'.todo = <<>> /\ flush'.seen = NoMeta
    BY <1>1, <2>1 DEF LeaveRow
  <2> HIDE DEF m
  <2>3. \A u \in Turns : /\ answerRow'[u].text = answerRow[u].text
                         /\ answerRow'[u].status = answerRow[u].status
                         /\ answerRow[u].status = "none" => answerRow'[u] = answerRow[u]
    BY <1>2, <2>1, MetaIs
  <2> QED
    BY <2>1, <2>2, <2>3
<1>12. CASE ContextFails
  BY <1>1, <1>3, <1>12 DEF ContextFails, Hitch, turnVars
<1>13. CASE FlushEnd
  BY <1>1, <1>3, <1>13 DEF FlushEnd, turnVars
<1> QED
  BY <1>3, <1>4, <1>5, <1>6, <1>7, <1>8, <1>9, <1>10, <1>11, <1>12, <1>13 DEF Flusher

\* The dispatcher writes to the row of its turn, which is open until it ends.
LEMMA SenderKeeps ==
    ASSUME AnswerTypeOK, TurnsInv, AnswerAssumption, Sender \/ AppendFails \/ FinalFails
    PROVE  /\ UNCHANGED <<apart, named, begun, chunks, pieces, given, flush>>
           /\ send.turn \in turns /\ send.turn \in Turns
           /\ lost \subseteq lost'
           /\ \A u \in Turns : /\ u # send.turn => answerRow'[u] = answerRow[u]
                               /\ answerRow[u].status = "none" => answerRow'[u] = answerRow[u]
           /\ send.turn \in turns' => answerRow'[send.turn].status = answerRow[send.turn].status
           /\ \/ send' = NoSend /\ turns' \in {turns, turns \ {send.turn}}
              \/ send'.at # "idle" /\ send'.turn = send.turn /\ turns' = turns
<1> DEFINE t == send.turn
<1>1. send.at # "idle" /\ t \in turns /\ t \in Turns /\ send \in SendRecords
  BY DEF TurnsInv, AnswerTypeOK, SendRecords, Sender, Merge, TakeLock, AppendRead, AppendWrite,
         FinalRead, FinalWrite, AppendFails, FinalFails
<1> HIDE DEF t
<1>2. ASSUME UNCHANGED answerRow \/ \E r : Update(t, r)
      PROVE  \A u \in Turns : /\ u # t => answerRow'[u] = answerRow[u]
                              /\ answerRow[u].status = "none" => answerRow'[u] = answerRow[u]
  BY <1>1, <1>2, UpdateKeeps
<1>3. ASSUME NEW r, Update(t, r), r.status = answerRow[t].status
      PROVE  answerRow'[t].status = answerRow[t].status
  BY <1>1, <1>3, UpdateKeeps
<1>4. answerRow[t] \in AnswerRows
  BY <1>1 DEF AnswerTypeOK
<1>5. CASE Merge
  <2>1. (UNCHANGED answerRow \/ \E r : Update(t, r)) /\ answerRow'[t].status = answerRow[t].status
    <3>1. CASE Update(t, [answerRow[t] EXCEPT !.text = send.seen.text \o send.text,
                                        !.meta = send.seen.meta])
      <4> DEFINE r == [answerRow[t] EXCEPT !.text = send.seen.text \o send.text,
                                     !.meta = send.seen.meta]
      <4>1. r.status = answerRow[t].status /\ Update(t, r)
        BY <1>4, <3>1 DEF AnswerRows
      <4> HIDE DEF r
      <4> QED
        BY <1>3, <4>1
    <3>2. CASE UNCHANGED answerRow
      BY <3>2
    <3> QED
      BY <1>5, <3>1, <3>2 DEF Merge, t
  <2> QED
    BY <1>1, <1>2, <1>5, <2>1 DEF Merge, Hitch, turnVars, t
<1>6. CASE TakeLock
  BY <1>1, <1>2, <1>6 DEF TakeLock, turnVars, t, SendRecords
<1>7. CASE AppendRead
  BY <1>1, <1>2, <1>7 DEF AppendRead, turnVars, t, SendRecords
<1>8. CASE AppendWrite
  <2> DEFINE m == [send.seen.meta EXCEPT !.reasoning = @ \o send.delta]
  <2>1. Update(t, [answerRow[t] EXCEPT !.meta = m])
    BY <1>8 DEF AppendWrite, t
  <2> HIDE DEF m
  <2>2. answerRow'[t].status = answerRow[t].status
    BY <1>1, <2>1, MetaIs
  <2> QED
    BY <1>1, <1>2, <1>8, <2>1, <2>2 DEF AppendWrite, turnVars, t, SendRecords
<1>9. CASE FinalRead
  BY <1>1, <1>2, <1>9 DEF FinalRead, turnVars, t, SendRecords
<1>10. CASE FinalWrite
  <2>1. \E r : Update(t, r)
    BY <1>10 DEF FinalWrite, t
  <2> QED
    BY <1>1, <1>2, <1>10, <2>1 DEF FinalWrite, EndTurn, t
<1>11. CASE FinalFails
  <2>1. \E r : Update(t, r)
    BY <1>11 DEF FinalFails, t
  <2> QED
    BY <1>1, <1>2, <1>11, <2>1 DEF FinalFails, Hitch, EndTurn, t
<1>12. CASE AppendFails
  BY <1>1, <1>2, <1>12 DEF AppendFails, Hitch, turnVars, t
<1> QED
  BY <1>1, <1>5, <1>6, <1>7, <1>8, <1>9, <1>10, <1>11, <1>12 DEF Sender, t

Asks(t) == BeginTurn(t) \/ Reason(t) \/ Use(t) \/ Stream(t) \/ Deliver(t) \/ Final(t)
           \/ Reclaimed(t)

LEMMA TypesStep ==
    ASSUME AnswerTypeOK, TurnsInv, AnswerAssumption, AnswerNext
    PROVE  AnswerTypeOK'
BY TurnTypes, FinalTypes, SenderTypes, FlusherTypes DEF AnswerNext

LEMMA TurnsStep ==
    ASSUME AnswerTypeOK, TurnsInv, AnswerAssumption, AnswerNext
    PROVE  TurnsInv'
<1>1. /\ turns \subseteq begun /\ begun \subseteq Turns /\ answerRow \in [Turns -> AnswerRows]
      /\ chunks \in [Turns -> 0..MaxChunks]
      /\ NoSend.at = "idle" /\ NoRow.status = "none"
  BY EmptyIsTyped DEF AnswerTypeOK
<1>2. ASSUME NEW t \in Turns, Asks(t)
      PROVE  TurnsInv'
  <2>1. CASE BeginTurn(t)
    BY <1>1, <2>1 DEF TurnsInv, BeginTurn, NoRow
  <2>2. CASE Reason(t)
    BY <1>1, <2>2 DEF TurnsInv, Reason
  <2>3. CASE Use(t)
    BY <2>3 DEF TurnsInv, Use, turnVars
  <2>4. CASE Stream(t)
    BY <1>1, <2>4 DEF TurnsInv, Stream, NextPiece
  <2>5. CASE Deliver(t)
    <3>1. send'.at = "merge" /\ send'.turn = t
      BY <2>5 DEF Deliver, NoSend
    <3> QED
      BY <1>1, <2>5, <3>1 DEF TurnsInv, Deliver, NextPiece
  <2>6. CASE Final(t)
    <3>1. PICK text : FinishTurn(t, text)
      BY <2>6 DEF Final
    <3>2. send'.at \in {"final", "lock", "append"} /\ send'.turn = t
          /\ UNCHANGED <<apart, named, turns, begun, chunks, answerRow, bridge, flush, lost,
                         hitches>>
      BY <3>1, FinishIs
    <3>3. t \in turns
      BY <2>6 DEF Final
    <3> QED
      BY <1>1, <3>2, <3>3 DEF TurnsInv
  <2>7. CASE Reclaimed(t)
    <3>1. t \in begun
      BY <1>1, <2>7 DEF TurnsInv, Reclaimed
    <3> QED
      BY <1>1, <2>7, <3>1 DEF TurnsInv, Reclaimed, turnVars
  <2> QED
    BY <1>2, <2>1, <2>2, <2>3, <2>4, <2>5, <2>6, <2>7 DEF Asks
<1>3. CASE Sender \/ AppendFails \/ FinalFails
  <2>1. /\ UNCHANGED <<apart, named, begun, chunks, pieces, given, flush>>
        /\ \A u \in Turns : /\ answerRow[u].status = "none" => answerRow'[u] = answerRow[u]
                            /\ u # send.turn => answerRow'[u] = answerRow[u]
        /\ \/ send' = NoSend /\ turns' \in {turns, turns \ {send.turn}}
           \/ send'.at # "idle" /\ send'.turn = send.turn /\ turns' = turns
        /\ send.turn \in turns' => answerRow'[send.turn].status = answerRow[send.turn].status
        /\ send.turn \in turns
    BY <1>3, SenderKeeps
  <2> QED
    BY <1>1, <2>1 DEF TurnsInv
<1>4. CASE Flusher \/ FlushFails \/ ContextFails
  <2>1. /\ UNCHANGED <<turns, begun, chunks, pieces, send>>
        /\ \A u \in Turns : /\ answerRow[u].status = "none" => answerRow'[u] = answerRow[u]
                            /\ answerRow'[u].status = answerRow[u].status
        /\ flush'.at \in {"idle", "context"} <=> flush'.todo = <<>>
        /\ flush'.todo = <<>> => flush'.seen = NoMeta
    BY <1>4, FlusherKeeps
  <2> QED
    BY <1>1, <2>1 DEF TurnsInv
<1> QED
  BY <1>2, <1>3, <1>4 DEF AnswerNext, Asks

-----------------------------------------------------------------------------
\* The context window.

OneTurn == \A t, u \in turns : ChatOfTurn(t) = ChatOfTurn(u) => t = u
BridgeIsOpen ==
    \A c \in TurnChats : bridge[c] # NoTurn => bridge[c] \in turns /\ ChatOfTurn(bridge[c]) = c
OwnSeen == send.turn # NoTurn => send.seen.meta.window \in {send.turn, NoTurn}
OwnFlush == flush.todo # <<>> => /\ flush.window \in {Current, NoTurn}
                                 /\ flush.seen.window \in {Current, NoTurn}

LEMMA WindowParts ==
    WindowInv <=> OneTurn /\ BridgeIsOpen /\ OwnWindow /\ OwnSeen /\ OwnFlush
BY DEF WindowInv, OneTurn, BridgeIsOpen, OwnSeen, OwnFlush

LEMMA OwnMeta ==
    ASSUME AnswerTypeOK, OwnWindow, NEW t \in Turns, NEW m, m.window \in {t, NoTurn},
           Update(t, [answerRow[t] EXCEPT !.meta = m])
    PROVE  OwnWindow'
BY MetaIs DEF OwnWindow

\* The turns and what they send.
LEMMA WindowAsks ==
    ASSUME AnswerTypeOK, TurnsInv, WindowInv, AnswerAssumption, NEW t \in Turns, Asks(t)
    PROVE  WindowInv'
<1>1. /\ OneTurn /\ BridgeIsOpen /\ OwnWindow /\ OwnSeen /\ OwnFlush
      /\ turns \subseteq Turns /\ answerRow \in [Turns -> AnswerRows]
      /\ bridge \in [TurnChats -> Turns \cup {NoTurn}]
      /\ NoRow.meta.window = NoTurn
  BY WindowParts, EmptyIsTyped DEF AnswerTypeOK
<1>2. CASE BeginTurn(t)
  <2>1. OneTurn' /\ BridgeIsOpen'
    BY <1>1, <1>2 DEF BeginTurn, OneTurn, BridgeIsOpen, ChatOfTurn
  <2>2. answerRow'[t].meta.window = NoTurn /\ \A u \in Turns : u # t => answerRow'[u] = answerRow[u]
    BY <1>1, <1>2 DEF BeginTurn, NoRow
  <2>3. OwnWindow'
    BY <1>1, <2>2 DEF OwnWindow
  <2>4. OwnSeen' /\ OwnFlush'
    BY <1>1, <1>2 DEF BeginTurn, OwnSeen, OwnFlush, Current
  <2> QED
    BY <2>1, <2>3, <2>4 DEF WindowInv, OneTurn, BridgeIsOpen, OwnSeen, OwnFlush
<1>3. CASE Reason(t) \/ Stream(t)
  BY <1>3 DEF Reason, Stream, WindowInv, ChatOfTurn, OwnWindow, Current
<1>4. CASE Use(t)
  <2>1. BridgeIsOpen'
    BY <1>1, <1>4 DEF Use, BridgeIsOpen, ChatOfTurn, turnVars
  <2>2. UNCHANGED <<apart, named, turns, answerRow, send, flush>>
    BY <1>4 DEF Use, turnVars
  <2> QED
    BY <1>1, <2>1, <2>2 DEF WindowInv, OneTurn, BridgeIsOpen, OwnSeen, OwnFlush, OwnWindow,
                            Current, ChatOfTurn
<1>5. CASE Deliver(t)
  <2>1. send'.turn = t /\ send'.seen = answerRow[t]
        /\ UNCHANGED <<apart, named, turns, answerRow, bridge, flush>>
    BY <1>5 DEF Deliver, NoSend
  <2> QED
    BY <1>1, <2>1 DEF WindowInv, OneTurn, BridgeIsOpen, OwnFlush, OwnWindow, Current, ChatOfTurn
<1>6. CASE Final(t)
  <2>1. PICK text : FinishTurn(t, text)
    BY <1>6 DEF Final
  <2>2. send'.turn = t /\ send'.seen = NoRow
        /\ UNCHANGED <<apart, named, turns, answerRow, bridge, flush>>
    BY <2>1, FinishIs
  <2> QED
    BY <1>1, <2>2 DEF WindowInv, OneTurn, BridgeIsOpen, OwnFlush, OwnWindow, Current, ChatOfTurn
<1>7. CASE Reclaimed(t)
  <2>1. answerRow' = [answerRow EXCEPT ![t] = NoRow] /\ UNCHANGED <<apart, named, turns,
                                                                    send, bridge,
                                                                    flush>>
    BY <1>7 DEF Reclaimed, turnVars
  <2> QED
    BY <1>1, <2>1 DEF WindowInv, OneTurn, BridgeIsOpen, OwnSeen, OwnFlush, OwnWindow,
                      Current, ChatOfTurn
<1> QED
  BY <1>2, <1>3, <1>4, <1>5, <1>6, <1>7 DEF Asks

\* The dispatcher writes back the window that it read from the row.
LEMMA WindowSender ==
    ASSUME AnswerTypeOK, TurnsInv, WindowInv, AnswerAssumption, Sender \/ AppendFails \/ FinalFails
    PROVE  WindowInv'
<1> DEFINE t == send.turn
<1>1. /\ OneTurn /\ BridgeIsOpen /\ OwnWindow /\ OwnSeen /\ OwnFlush
      /\ turns \subseteq Turns /\ answerRow \in [Turns -> AnswerRows]
      /\ bridge \in [TurnChats -> Turns \cup {NoTurn}]
      /\ send \in SendRecords /\ send.seen \in AnswerRows
      /\ NoRow.meta.window = NoTurn /\ NoSend.turn = NoTurn
  BY WindowParts, EmptyIsTyped DEF AnswerTypeOK, SendRecords
<1>2. /\ t \in turns /\ t \in Turns /\ t # NoTurn /\ UNCHANGED <<apart, named, flush>>
      /\ \A u \in Turns : u # t => answerRow'[u] = answerRow[u]
  BY SenderKeeps DEF Turns, NoTurn
<1>3. send.seen.meta.window \in {t, NoTurn} /\ answerRow[t].meta.window \in {t, NoTurn}
  BY <1>1, <1>2 DEF OwnSeen, OwnWindow
<1>4. OwnFlush'
  BY <1>1, <1>2 DEF OwnFlush, Current
<1> HIDE DEF t
<1>5. ASSUME answerRow'[t].meta.window \in {t, NoTurn}
      PROVE  OwnWindow'
  BY <1>1, <1>2, <1>5 DEF OwnWindow
<1>6. ASSUME NEW r, r.meta.window \in {t, NoTurn}, Update(t, r)
      PROVE  OwnWindow'
  <2>1. answerRow'[t] \in {r, answerRow[t]}
    BY <1>2, <1>6, UpdateKeeps
  <2> QED
    BY <1>3, <1>5, <1>6, <2>1
<1>7. ASSUME EndTurn(t)
      PROVE  OneTurn' /\ BridgeIsOpen' /\ OwnSeen'
  <2>1. /\ turns' = turns \ {t} /\ bridge' = [bridge EXCEPT ![ChatOfTurn(t)] = NoTurn]
        /\ send' = NoSend /\ apart' = apart
    BY <1>7, EndTurnIs
  <2> QED
    BY <1>1, <2>1 DEF OneTurn, BridgeIsOpen, OwnSeen, ChatOfTurn
<1>8. ASSUME UNCHANGED <<turns, bridge>>
      PROVE  OneTurn' /\ BridgeIsOpen'
  BY <1>1, <1>2, <1>8 DEF OneTurn, BridgeIsOpen, ChatOfTurn
<1>9. CASE Merge
  <2>1. UNCHANGED <<turns, bridge>> /\ OwnSeen'
    BY <1>1, <1>9 DEF Merge, turnVars, OwnSeen
  <2>2. OwnWindow'
    <3>1. CASE UNCHANGED answerRow
      BY <1>1, <3>1 DEF OwnWindow
    <3>2. CASE Update(t, [answerRow[t] EXCEPT !.text = send.seen.text \o send.text,
                                        !.meta = send.seen.meta])
      <4> DEFINE r == [answerRow[t] EXCEPT !.text = send.seen.text \o send.text,
                                     !.meta = send.seen.meta]
      <4>1. answerRow[t] \in AnswerRows
        BY <1>1, <1>2
      <4>2. r.meta = send.seen.meta
        BY <4>1 DEF AnswerRows
      <4>3. Update(t, r)
        BY <3>2
      <4> HIDE DEF r
      <4> QED
        BY <1>3, <1>6, <4>2, <4>3
    <3> QED
      BY <1>9, <3>1, <3>2 DEF Merge, t
  <2> QED
    BY <1>4, <1>8, <2>1, <2>2 DEF WindowInv, OneTurn, BridgeIsOpen, OwnSeen, OwnFlush
<1>10. CASE TakeLock \/ AppendRead \/ FinalRead
  <2>1. UNCHANGED <<turns, bridge, answerRow>>
    BY <1>10 DEF TakeLock, AppendRead, FinalRead, turnVars
  <2>2. OwnSeen'
    BY <1>1, <1>3, <1>10 DEF TakeLock, AppendRead, FinalRead, OwnSeen, SendRecords, t
  <2>3. OwnWindow'
    BY <1>1, <2>1 DEF OwnWindow
  <2> QED
    BY <1>4, <1>8, <2>1, <2>2, <2>3 DEF WindowInv, OneTurn, BridgeIsOpen, OwnSeen, OwnFlush
<1>11. CASE AppendWrite
  <2> DEFINE m == [send.seen.meta EXCEPT !.reasoning = @ \o send.delta]
  <2>1. send.seen.meta \in Metas
    BY <1>1 DEF AnswerRows
  <2>2. m.window = send.seen.meta.window
    BY <2>1 DEF Metas
  <2>3. Update(t, [answerRow[t] EXCEPT !.meta = m])
    BY <1>11 DEF AppendWrite, t
  <2> HIDE DEF m
  <2>4. OwnWindow'
    BY <1>1, <1>2, <1>3, <2>2, <2>3, OwnMeta
  <2>5. UNCHANGED <<turns, bridge>> /\ OwnSeen'
    BY <1>1, <1>11 DEF AppendWrite, turnVars, OwnSeen, SendRecords
  <2> QED
    BY <1>4, <1>8, <2>4, <2>5 DEF WindowInv, OneTurn, BridgeIsOpen, OwnSeen, OwnFlush
<1>12. CASE FinalWrite
  <2> DEFINE m == [send.seen.meta EXCEPT !.final = TRUE]
  <2> DEFINE r == [status |-> "completed",
                   text |-> FinalText(send.text, send.seen.text), meta |-> m]
  <2>1. send.seen.meta \in Metas
    BY <1>1 DEF AnswerRows
  <2>2. m.window = send.seen.meta.window
    BY <2>1 DEF Metas
  <2>3. r.meta.window = send.seen.meta.window
    BY <2>2
  <2>4. Update(t, r) /\ EndTurn(t)
    BY <1>12 DEF FinalWrite, t
  <2> HIDE DEF r
  <2>5. OwnWindow'
    BY <1>3, <1>6, <2>3, <2>4
  <2> QED
    BY <1>4, <1>7, <2>4, <2>5 DEF WindowInv, OneTurn, BridgeIsOpen, OwnSeen, OwnFlush
<1>13. CASE FinalFails
  <2>1. PICK r \in {NoRow, [NoRow EXCEPT !.status = "failed"]} : Update(t, r)
    BY <1>13 DEF FinalFails, t
  <2>2. r.meta.window = NoTurn
    BY <1>1 DEF NoRow
  <2>3. OwnWindow'
    BY <1>6, <2>1, <2>2
  <2>4. EndTurn(t)
    BY <1>13 DEF FinalFails, t
  <2> QED
    BY <1>4, <1>7, <2>3, <2>4 DEF WindowInv, OneTurn, BridgeIsOpen, OwnSeen, OwnFlush
<1>14. CASE AppendFails
  <2>1. UNCHANGED <<turns, bridge, answerRow>> /\ send' = NoSend
    BY <1>14 DEF AppendFails, turnVars
  <2>2. OwnSeen' /\ OwnWindow'
    BY <1>1, <2>1 DEF OwnSeen, OwnWindow
  <2> QED
    BY <1>4, <1>8, <2>1, <2>2 DEF WindowInv, OneTurn, BridgeIsOpen, OwnSeen, OwnFlush
<1> QED
  BY <1>9, <1>10, <1>11, <1>12, <1>13, <1>14 DEF Sender

\* The usage of the chat is that of its open turn when the flush takes it.
LEMMA WindowFlusher ==
    ASSUME AnswerTypeOK, TurnsInv, WindowInv, AnswerAssumption,
           Flusher \/ FlushFails \/ ContextFails
    PROVE  WindowInv'
<1>1. /\ OneTurn /\ BridgeIsOpen /\ OwnWindow /\ OwnSeen /\ OwnFlush
      /\ answerRow \in [Turns -> AnswerRows] /\ bridge \in [TurnChats -> Turns \cup {NoTurn}]
      /\ flush \in FlushRecords /\ flush.seen \in Metas
      /\ NoMeta.window = NoTurn /\ NoFlush.todo = <<>>
  BY WindowParts, EmptyIsTyped DEF AnswerTypeOK, FlushRecords
<1>2. UNCHANGED <<apart, named, turns, bridge, send>>
  BY FlusherKeeps
<1>3. OneTurn' /\ BridgeIsOpen' /\ OwnSeen'
  BY <1>1, <1>2 DEF OneTurn, BridgeIsOpen, OwnSeen, ChatOfTurn
<1>4. flush.at \notin {"idle", "context"}
        => /\ flush.todo # <<>> /\ Current \in Turns
           /\ flush.window \in {Current, NoTurn}
           /\ flush.seen.window \in {Current, NoTurn}
           /\ answerRow[Current].meta.window \in {Current, NoTurn}
  BY <1>1 DEF TurnsInv, Current, OwnWindow, OwnFlush, FlushRecords
<1>5. ASSUME NEW todo, NEW free, GoOn(todo, free)
      PROVE  OwnFlush'
  BY <1>1, <1>5, GoOnIs DEF OwnFlush
<1>6. ASSUME UNCHANGED answerRow
      PROVE  OwnWindow'
  BY <1>1, <1>6 DEF OwnWindow
<1>7. OwnWindow' /\ OwnFlush'
  <2>1. CASE FlushBegin
    BY <1>5, <1>6, <2>1 DEF FlushBegin
  <2>2. CASE FlushLock
    <3>1. flush'.todo = flush.todo /\ flush'.window = flush.window
          /\ flush'.seen = flush.seen /\ UNCHANGED answerRow
      BY <1>1, <2>2 DEF FlushLock, FlushRecords
    <3> QED
      BY <1>1, <1>6, <3>1 DEF OwnFlush, Current
  <2>3. CASE FlushRead
    <3>1. CASE answerRow[Current].status = "none"
      BY <1>5, <1>6, <2>3, <3>1 DEF FlushRead, Skip
    <3>2. CASE answerRow[Current].status # "none"
      <4>1. flush'.todo = flush.todo /\ flush'.window = flush.window
            /\ flush'.seen = answerRow[Current].meta /\ UNCHANGED answerRow
            /\ flush.at = "read"
        BY <1>1, <2>3, <3>2 DEF FlushRead, FlushRecords
      <4> QED
        BY <1>4, <1>6, <4>1 DEF OwnFlush, Current
    <3> QED
      BY <3>1, <3>2
  <2>4. CASE FlushWrite
    <3> DEFINE m == [flush.seen EXCEPT !.reasoning = @ \o flush.todo[1][2]]
    <3>1. m.window = flush.seen.window
      BY <1>1 DEF Metas
    <3>2. /\ Update(Current, [answerRow[Current] EXCEPT !.meta = m])
          /\ GoOn(Tail(flush.todo), "free") /\ flush.at = "write"
      BY <2>4 DEF FlushWrite
    <3> HIDE DEF m
    <3> QED
      BY <1>1, <1>4, <1>5, <3>1, <3>2, OwnMeta
  <2>5. CASE FlushFails
    BY <1>5, <1>6, <2>5 DEF FlushFails
  <2>6. ASSUME NEW t \in Turns, ContextOf(t)
        PROVE  OwnWindow' /\ OwnFlush'
    <3>1. /\ flush'.todo = <<<<t, <<>>>>>> /\ flush'.window = bridge[ChatOfTurn(t)]
          /\ flush'.seen = flush.seen /\ flush.at = "context"
          /\ t \in turns /\ bridge[ChatOfTurn(t)] # NoTurn /\ UNCHANGED answerRow
      BY <1>1, <2>6 DEF ContextOf, FlushRecords
    <3>2. bridge[ChatOfTurn(t)] = t
      BY <1>1, <3>1, ChatIsOne DEF OneTurn, BridgeIsOpen
    <3>3. Current' = t /\ flush.seen = NoMeta
      BY <3>1 DEF Current, TurnsInv
    <3> QED
      BY <1>1, <1>6, <3>1, <3>2, <3>3 DEF OwnFlush
  <2>7. CASE ContextRead
    <3>1. CASE answerRow[Current].status = "none" \/ answerRow[Current].meta.window = flush.window
      <4>1. flush'.todo = <<>> /\ UNCHANGED answerRow
        BY <1>1, <2>7, <3>1 DEF ContextRead, LeaveRow, NoFlush
      <4> QED
        BY <1>6, <4>1 DEF OwnFlush
    <3>2. CASE ~(answerRow[Current].status = "none" \/ answerRow[Current].meta.window = flush.window)
      <4>1. flush'.todo = flush.todo /\ flush'.window = flush.window
            /\ flush'.seen = answerRow[Current].meta /\ UNCHANGED answerRow
            /\ flush.at = "look"
        BY <1>1, <2>7, <3>2 DEF ContextRead, FlushRecords
      <4> QED
        BY <1>4, <1>6, <4>1 DEF OwnFlush, Current
    <3> QED
      BY <3>1, <3>2
  <2>8. CASE ContextWrite
    <3> DEFINE m == [flush.seen EXCEPT !.window = flush.window]
    <3>1. m.window = flush.window
      BY <1>1 DEF Metas
    <3>2. /\ Update(Current, [answerRow[Current] EXCEPT !.meta = m])
          /\ flush' = [NoFlush EXCEPT !.at = "context"] /\ flush.at = "store"
      BY <2>8 DEF ContextWrite, LeaveRow
    <3>3. flush'.todo = <<>>
      BY <3>2 DEF NoFlush
    <3> HIDE DEF m
    <3>4. OwnWindow'
      BY <1>1, <1>4, <3>1, <3>2, OwnMeta
    <3> QED
      BY <3>3, <3>4 DEF OwnFlush
  <2>9. CASE ContextFails
    BY <1>1, <1>6, <2>9 DEF ContextFails, OwnFlush
  <2>10. CASE FlushEnd
    BY <1>1, <1>6, <2>10 DEF FlushEnd, OwnFlush
  <2> QED
    BY <2>1, <2>2, <2>3, <2>4, <2>5, <2>6, <2>7, <2>8, <2>9, <2>10 DEF Flusher
<1> QED
  BY <1>3, <1>7 DEF WindowInv, OneTurn, BridgeIsOpen, OwnSeen, OwnFlush

LEMMA WindowStep ==
    ASSUME AnswerTypeOK, TurnsInv, WindowInv, AnswerAssumption, AnswerNext
    PROVE  WindowInv'
BY WindowAsks, WindowSender, WindowFlusher DEF AnswerNext, Asks

-----------------------------------------------------------------------------
\* The text.

LEMMA JoinedIsEmpty ==
    ASSUME NEW x \in PieceSeqs, NEW y \in PieceSeqs
    PROVE  x \o y = <<>> <=> x = <<>> /\ y = <<>>
BY DEF PieceSeqs

TextOf(t) ==
    /\ t \in begun => answerRow[t].status # "none"
    /\ send.turn = t /\ send.at \in {"merge", "write"} => send.seen.text = answerRow[t].text
    /\ t \in given /\ answerRow[t].text = <<>> => send.turn = t /\ send.text # <<>>

LEMMA TextAsks ==
    ASSUME AnswerTypeOK, TurnsInv, TextInv, AnswerAssumption, NEW t \in Turns, Asks(t)
    PROVE  TextInv'
<1>1. /\ answerRow \in [Turns -> AnswerRows] /\ given \subseteq begun
      /\ NoTurn \notin Turns /\ NoSend.turn = NoTurn /\ turns \subseteq begun
      /\ turns \subseteq Turns
  BY EmptyIsTyped DEF AnswerTypeOK, Turns, NoTurn
<1>2. send.turn \in Turns => send.at # "idle" /\ send.turn \in turns
  BY <1>1 DEF TurnsInv
<1>3. \A u \in Turns \ lost : TextOf(u)
  BY DEF TextInv, TextOf
<1>4. SUFFICES ASSUME NEW u \in Turns, u \notin lost'
               PROVE  TextOf(u)'
  BY DEF TextInv, TextOf
<1>5. CASE BeginTurn(t)
  <2>1. /\ answerRow'[t].status = "processing" /\ answerRow'[t].text = <<>>
        /\ \A v \in Turns : v # t => answerRow'[v] = answerRow[v]
    BY <1>1, <1>5 DEF BeginTurn, NoRow
  <2>2. t \notin given /\ send.turn # t
    BY <1>1, <1>2, <1>5 DEF BeginTurn
  <2>3. begun' = begun \cup {t} /\ UNCHANGED <<given, send, lost>>
    BY <1>5 DEF BeginTurn
  <2> QED
    BY <1>1, <1>3, <1>4, <2>1, <2>2, <2>3 DEF TextOf
<1>6. CASE Reason(t) \/ Use(t) \/ Stream(t)
  BY <1>3, <1>4, <1>6 DEF Reason, Use, Stream, TextOf, turnVars
<1>8. CASE Deliver(t)
  <2>1. /\ send'.turn = t /\ send'.text # <<>> /\ send'.seen = answerRow[t]
        /\ send.turn = NoTurn /\ given' = given \cup {t}
        /\ UNCHANGED <<begun, answerRow, lost>>
    BY <1>1, <1>8 DEF Deliver, NoSend, TurnsInv
  <2> QED
    BY <1>1, <1>3, <1>4, <2>1 DEF TextOf
<1>9. CASE Final(t)
  <2>1. PICK text : FinishTurn(t, text)
    BY <1>9 DEF Final
  <2>2. /\ send'.turn = t /\ send'.text = text /\ send'.at \in {"final", "lock", "append"}
        /\ given' = IF text = <<>> THEN given ELSE given \cup {t}
        /\ UNCHANGED <<begun, answerRow, lost>>
    BY <2>1, FinishIs
  <2>3. send.turn = NoTurn
    BY <1>1, <1>9 DEF Final, TurnsInv
  <2> QED
    BY <1>1, <1>3, <1>4, <2>2, <2>3 DEF TextOf
<1>10. CASE Reclaimed(t)
  <2>1. /\ lost' = lost \cup {t} /\ answerRow' = [answerRow EXCEPT ![t] = NoRow]
        /\ UNCHANGED <<begun, given, send>>
    BY <1>10 DEF Reclaimed, Hitch, turnVars
  <2> QED
    BY <1>1, <1>3, <1>4, <2>1 DEF TextOf
<1> QED
  BY <1>5, <1>6, <1>8, <1>9, <1>10 DEF Asks

\* The dispatcher is the only writer of texts, and it sends one after the other.
LEMMA TextSender ==
    ASSUME AnswerTypeOK, TurnsInv, TextInv, AnswerAssumption, Sender \/ AppendFails \/ FinalFails
    PROVE  TextInv'
<1> DEFINE t == send.turn
<1>1. /\ answerRow \in [Turns -> AnswerRows] /\ send \in SendRecords /\ send.seen \in AnswerRows
      /\ send.text \in PieceSeqs /\ NoTurn \notin Turns /\ NoSend.turn = NoTurn
      /\ turns \subseteq begun
  BY EmptyIsTyped DEF AnswerTypeOK, Turns, NoTurn, SendRecords
<1>2. /\ t \in turns /\ t \in Turns /\ UNCHANGED <<begun, given>> /\ lost \subseteq lost'
      /\ \A u \in Turns : u # t => answerRow'[u] = answerRow[u]
      /\ send' = NoSend \/ send'.turn = t
  BY SenderKeeps
<1>3. \A u \in Turns \ lost : TextOf(u)
  BY DEF TextInv, TextOf
<1>5. answerRow[t] \in AnswerRows /\ answerRow[t].text \in PieceSeqs /\ send.seen.text \in PieceSeqs
  BY <1>1, <1>2 DEF AnswerRows
<1> HIDE DEF t
<1>6. ASSUME NEW u \in Turns \ lost, u # t
      PROVE  TextOf(u)'
  <2>1. TextOf(u) /\ answerRow'[u] = answerRow[u] /\ send'.turn # u
    BY <1>1, <1>2, <1>3, <1>6
  <2>2. send.turn # u
    BY <1>6 DEF t
  <2> QED
    BY <1>2, <2>1, <2>2 DEF TextOf
<1>7. ASSUME NEW u \in Turns, u = t, u \notin lost'
      PROVE  TextOf(u)'
  <2>1. TextOf(u) /\ answerRow[u].status # "none" /\ u = send.turn /\ given' = given
    BY <1>1, <1>2, <1>3, <1>7 DEF TextOf, t
  <2>2. CASE Merge
    <3> DEFINE r == [answerRow[u] EXCEPT !.text = send.seen.text \o send.text,
                                   !.meta = send.seen.meta]
    <3>1. Update(u, r) /\ send' = NoSend /\ send.at = "merge"
      BY <1>7, <2>2 DEF Merge, Hitch, t
    <3>2. r.text = send.seen.text \o send.text /\ r.status = answerRow[u].status
      BY <1>5, <1>7 DEF AnswerRows
    <3>3. answerRow'[u] = r
      <4> HIDE DEF r
      <4> QED
        BY <1>7, <2>1, <3>1, UpdateKeeps
    <3>4. send.seen.text = answerRow[u].text
      BY <2>1, <3>1 DEF TextOf
    <3>5. r.text = <<>> <=> answerRow[u].text = <<>> /\ send.text = <<>>
      BY <1>1, <1>5, <1>7, <3>2, <3>4, JoinedIsEmpty
    <3> HIDE DEF r
    <3> QED
      BY <1>1, <1>2, <1>7, <2>1, <3>1, <3>2, <3>3, <3>5 DEF TextOf
  <2>3. CASE TakeLock \/ AppendRead
    <3>1. /\ answerRow' = answerRow /\ send'.turn = send.turn /\ send'.text = send.text
          /\ send'.at \in {"append", "final", "appended"}
      BY <1>1, <2>3 DEF TakeLock, AppendRead, SendRecords
    <3> QED
      BY <1>2, <1>7, <2>1, <3>1 DEF TextOf
  <2>4. CASE AppendWrite
    <3> DEFINE m == [send.seen.meta EXCEPT !.reasoning = @ \o send.delta]
    <3>1. Update(u, [answerRow[u] EXCEPT !.meta = m])
      BY <1>7, <2>4 DEF AppendWrite, t
    <3>2. /\ send'.turn = send.turn /\ send'.text = send.text /\ send'.at = "final"
      BY <1>1, <2>4 DEF AppendWrite, SendRecords
    <3> HIDE DEF m
    <3>3. answerRow'[u].text = answerRow[u].text /\ answerRow'[u].status = answerRow[u].status
      BY <1>7, <3>1, MetaIs
    <3> QED
      BY <1>2, <1>7, <2>1, <3>2, <3>3 DEF TextOf
  <2>5. CASE FinalRead
    <3>1. /\ answerRow' = answerRow /\ send'.turn = send.turn /\ send'.text = send.text
          /\ send'.seen = answerRow[u]
      BY <1>1, <1>7, <2>5 DEF FinalRead, SendRecords, t
    <3> QED
      BY <1>2, <1>7, <2>1, <3>1 DEF TextOf
  <2>6. CASE FinalWrite
    <3> DEFINE r == [status |-> "completed",
                     text |-> FinalText(send.text, send.seen.text),
                     meta |-> [send.seen.meta EXCEPT !.final = TRUE]]
    <3>1. Update(u, r) /\ send' = NoSend /\ send.at = "write"
      BY <1>7, <2>6, EndTurnIs DEF FinalWrite, t
    <3>2. r.text = FinalText(send.text, send.seen.text) /\ r.status = "completed"
      OBVIOUS
    <3>3. answerRow'[u] = r
      <4> HIDE DEF r
      <4> QED
        BY <1>7, <2>1, <3>1, UpdateKeeps
    <3>4. send.seen.text = answerRow[u].text
      BY <2>1, <3>1 DEF TextOf
    <3>5. r.text = <<>> <=> answerRow[u].text = <<>> /\ send.text = <<>>
      BY <3>2, <3>4 DEF FinalText
    <3> HIDE DEF r
    <3> QED
      BY <1>1, <1>2, <1>7, <2>1, <3>1, <3>2, <3>3, <3>5 DEF TextOf
  <2>7. ~AppendFails /\ ~FinalFails
    BY <1>7 DEF AppendFails, FinalFails, Hitch, t
  <2> QED
    BY <2>2, <2>3, <2>4, <2>5, <2>6, <2>7 DEF Sender
<1>8. \A u \in Turns \ lost' : TextOf(u)'
  BY <1>2, <1>6, <1>7
<1> QED
  BY <1>8 DEF TextInv, TextOf

LEMMA TextStep ==
    ASSUME AnswerTypeOK, TurnsInv, TextInv, AnswerAssumption, AnswerNext
    PROVE  TextInv'
<1>1. CASE Flusher \/ FlushFails \/ ContextFails
  <2>1. /\ UNCHANGED <<begun, given, send>> /\ lost \subseteq lost'
        /\ \A u \in Turns : answerRow'[u].text = answerRow[u].text /\ answerRow'[u].status = answerRow[u].status
    BY <1>1, FlusherKeeps
  <2> QED
    BY <2>1 DEF TextInv
<1> QED
  BY <1>1, TextAsks, TextSender DEF AnswerNext, Asks

-----------------------------------------------------------------------------
\* Whose texts they are.

LEMMA OfKeyJoined ==
    ASSUME NEW x \in PieceSeqs, NEW y \in PieceSeqs, NEW k, OfKey(x, k), OfKey(y, k)
    PROVE  OfKey(x \o y, k)
<1>1. x \in Seq(Pieces) /\ y \in Seq(Pieces)
  BY DEF PieceSeqs
<1>2. SUFFICES ASSUME NEW i \in DOMAIN (x \o y)
               PROVE  KeyOf((x \o y)[i][1]) = k
  BY DEF OfKey
<1>3. CASE i \in 1..Len(x)
  <2>1. (x \o y)[i] = x[i] /\ i \in DOMAIN x
    BY <1>1, <1>2, <1>3
  <2> QED
    BY <2>1 DEF OfKey
<1>4. CASE i \notin 1..Len(x)
  <2>1. (x \o y)[i] = y[i - Len(x)] /\ i - Len(x) \in DOMAIN y
    BY <1>1, <1>2, <1>4
  <2> QED
    BY <2>1 DEF OfKey
<1> QED
  BY <1>3, <1>4

LEMMA OfKeyAppended ==
    ASSUME NEW x \in PieceSeqs, NEW p \in Pieces, NEW k, OfKey(x, k), KeyOf(p[1]) = k
    PROVE  OfKey(Append(x, p), k)
<1>1. x \in Seq(Pieces)
  BY DEF PieceSeqs
<1>2. SUFFICES ASSUME NEW i \in DOMAIN Append(x, p)
               PROVE  KeyOf(Append(x, p)[i][1]) = k
  BY DEF OfKey
<1>3. \/ Append(x, p)[i] = p
      \/ i \in DOMAIN x /\ Append(x, p)[i] = x[i]
  BY <1>1, <1>2
<1> QED
  BY <1>3 DEF OfKey

\* The keys stay, and with them what is said of a text that stays.
LEMMA KeysStay ==
    ASSUME UNCHANGED <<apart, named>>
    PROVE  /\ \A t : KeyOf(t)' = KeyOf(t)
           /\ \A text, k : OfKey(text, k)' <=> OfKey(text, k)
BY DEF KeyOf, ChatOfTurn, OfKey

LEMMA NoText == \A k : OfKey(<<>>, k)
BY DEF OfKey

\* The turns and what they send.
LEMMA SourceAsks ==
    ASSUME AnswerTypeOK, TurnsInv, SourceInv, AnswerAssumption, NEW t \in Turns, Asks(t)
    PROVE  SourceInv'
<1>1. /\ answerRow \in [Turns -> AnswerRows] /\ stream \in [Turns -> PieceSeqs]
      /\ KeyOf(t) \in Turns /\ NoRow.text = <<>> /\ NoTurn \notin Turns
  BY EmptyIsTyped, KeyIsTurn DEF AnswerTypeOK, Turns, NoTurn
<1>2. UNCHANGED <<apart, named>>
  <2>1. CASE Final(t)
    BY <2>1, FinishIs DEF Final
  <2> QED
    BY <2>1 DEF Asks, BeginTurn, Reason, Use, Stream, Deliver, Reclaimed, turnVars
<1>3. SUFFICES /\ \A u \in Turns : OfKey(answerRow'[u].text, KeyOf(u))
               /\ \A k \in Turns : OfKey(stream'[k], k)
               /\ send'.turn # NoTurn => /\ OfKey(send'.text, KeyOf(send'.turn))
                                         /\ OfKey(send'.seen.text, KeyOf(send'.turn))
  BY <1>2 DEF SourceInv, OfKey, KeyOf, ChatOfTurn
<1>4. CASE BeginTurn(t)
  <2>1. /\ answerRow'[t].text = <<>>
        /\ \A u \in Turns : u # t => answerRow'[u] = answerRow[u]
        /\ UNCHANGED <<stream, send>>
    BY <1>1, <1>4 DEF BeginTurn, NoRow
  <2> QED
    BY <2>1, NoText DEF SourceInv
<1>5. CASE Reason(t) \/ Use(t)
  BY <1>5 DEF Reason, Use, SourceInv
<1>6. CASE Stream(t)
  <2> DEFINE p == <<t, pieces'[t]>>
  <2>1. /\ p \in Pieces /\ KeyOf(p[1]) = KeyOf(t)
        /\ stream' = [stream EXCEPT ![KeyOf(t)] = Append(@, p)]
        /\ UNCHANGED <<answerRow, send>>
    BY <1>6, PieceIs DEF Stream
  <2> HIDE DEF p
  <2>2. OfKey(Append(stream[KeyOf(t)], p), KeyOf(t))
    BY <1>1, <2>1, OfKeyAppended DEF SourceInv
  <2>3. \A k \in Turns : OfKey(stream'[k], k)
    BY <1>1, <2>1, <2>2 DEF SourceInv
  <2> QED
    BY <2>1, <2>3 DEF SourceInv
<1>7. ASSUME NEW n
      PROVE  OfKey(<<<<t, n>>>>, KeyOf(t))
  BY DEF OfKey
<1>8. CASE Deliver(t)
  <2>1. /\ send'.turn = t /\ send'.text = <<<<t, pieces'[t]>>>> /\ send'.seen = answerRow[t]
        /\ UNCHANGED <<answerRow, stream>>
    BY <1>8 DEF Deliver, NoSend
  <2> QED
    BY <1>7, <2>1 DEF SourceInv
<1>9. CASE Final(t)
  <2>1. PICK text : FinishTurn(t, text) /\ OfKey(text, KeyOf(t))
                    /\ stream' \in {stream, [stream EXCEPT ![KeyOf(t)] = <<>>]}
    BY <1>1, <1>7, <1>9, NoText DEF Final, SourceInv
  <2>2. send'.turn = t /\ send'.text = text /\ send'.seen = NoRow /\ UNCHANGED answerRow
    BY <2>1, FinishIs
  <2>3. \A k \in Turns : OfKey(stream'[k], k)
    BY <1>1, <2>1, NoText DEF SourceInv
  <2> QED
    BY <1>1, <2>1, <2>2, <2>3, NoText DEF SourceInv
<1>10. CASE Reclaimed(t)
  <2>1. answerRow' = [answerRow EXCEPT ![t] = NoRow] /\ UNCHANGED <<stream, send>>
    BY <1>10 DEF Reclaimed
  <2> QED
    BY <1>1, <2>1, NoText DEF SourceInv
<1> QED
  BY <1>4, <1>5, <1>6, <1>8, <1>9, <1>10 DEF Asks

\* The dispatcher writes what it was sent for the turn and what it read from its row.
LEMMA SourceSender ==
    ASSUME AnswerTypeOK, TurnsInv, SourceInv, AnswerAssumption,
           Sender \/ AppendFails \/ FinalFails
    PROVE  SourceInv'
<1> DEFINE t == send.turn
<1>1. /\ answerRow \in [Turns -> AnswerRows] /\ send \in SendRecords /\ send.seen \in AnswerRows
      /\ send.text \in PieceSeqs /\ send.seen.text \in PieceSeqs
      /\ NoTurn \notin Turns /\ NoSend.turn = NoTurn /\ NoRow.text = <<>>
  BY EmptyIsTyped DEF AnswerTypeOK, Turns, NoTurn, SendRecords, AnswerRows
<1>2. /\ t \in Turns /\ UNCHANGED <<apart, named>>
      /\ \A u \in Turns : u # t => answerRow'[u] = answerRow[u]
      /\ send' = NoSend \/ send'.turn = t
  BY SenderKeeps
<1>3. /\ OfKey(send.text, KeyOf(t)) /\ OfKey(send.seen.text, KeyOf(t))
      /\ OfKey(answerRow[t].text, KeyOf(t)) /\ answerRow[t] \in AnswerRows
  BY <1>1, <1>2 DEF SourceInv
<1>4. UNCHANGED stream
  BY DEF Sender, Merge, TakeLock, AppendRead, AppendWrite, FinalRead, FinalWrite, AppendFails,
         FinalFails, EndTurn
<1> HIDE DEF t
<1>5. SUFFICES /\ OfKey(answerRow'[t].text, KeyOf(t))
               /\ send' # NoSend => /\ OfKey(send'.text, KeyOf(t))
                                    /\ OfKey(send'.seen.text, KeyOf(t))
  <2>1. \A u \in Turns : OfKey(answerRow'[u].text, KeyOf(u))
    BY <1>2, <1>5 DEF SourceInv
  <2>2. \A k \in Turns : OfKey(stream'[k], k)
    BY <1>4 DEF SourceInv
  <2>3. send'.turn # NoTurn => /\ OfKey(send'.text, KeyOf(send'.turn))
                               /\ OfKey(send'.seen.text, KeyOf(send'.turn))
    BY <1>1, <1>2, <1>5
  <2> QED
    BY <1>2, <2>1, <2>2, <2>3 DEF SourceInv, OfKey, KeyOf, ChatOfTurn
<1>6. ASSUME NEW r, Update(t, r), OfKey(r.text, KeyOf(t))
      PROVE  OfKey(answerRow'[t].text, KeyOf(t))
  BY <1>2, <1>3, <1>6, UpdateKeeps
<1>7. CASE Merge
  <2>1. send' = NoSend
    BY <1>7 DEF Merge
  <2>2. CASE UNCHANGED answerRow
    BY <1>3, <2>1, <2>2
  <2>3. CASE Update(t, [answerRow[t] EXCEPT !.text = send.seen.text \o send.text,
                                            !.meta = send.seen.meta])
    <3> DEFINE r == [answerRow[t] EXCEPT !.text = send.seen.text \o send.text,
                                         !.meta = send.seen.meta]
    <3>1. r.text = send.seen.text \o send.text /\ Update(t, r)
      BY <1>3, <2>3 DEF AnswerRows
    <3> HIDE DEF r
    <3> QED
      BY <1>1, <1>3, <1>6, <2>1, <3>1, OfKeyJoined
  <2> QED
    BY <1>7, <2>2, <2>3 DEF Merge, t
<1>8. CASE TakeLock \/ AppendRead \/ FinalRead
  <2>1. /\ send'.text = send.text /\ send'.seen \in {send.seen, answerRow[t]}
        /\ UNCHANGED answerRow
    BY <1>1, <1>8 DEF TakeLock, AppendRead, FinalRead, SendRecords, t
  <2> QED
    BY <1>3, <2>1
<1>9. CASE AppendWrite
  <2> DEFINE m == [send.seen.meta EXCEPT !.reasoning = @ \o send.delta]
  <2>1. /\ Update(t, [answerRow[t] EXCEPT !.meta = m])
        /\ send'.text = send.text /\ send'.seen = send.seen
    BY <1>1, <1>9 DEF AppendWrite, SendRecords, t
  <2> HIDE DEF m
  <2>2. answerRow'[t].text = answerRow[t].text
    BY <1>2, <2>1, MetaIs
  <2> QED
    BY <1>3, <2>1, <2>2
<1>10. CASE FinalWrite
  <2> DEFINE r == [status |-> "completed", text |-> FinalText(send.text, send.seen.text),
                   meta |-> [send.seen.meta EXCEPT !.final = TRUE]]
  <2>1. Update(t, r) /\ send' = NoSend
    BY <1>10, EndTurnIs DEF FinalWrite, t
  <2>2. r.text \in {send.text, send.seen.text}
    BY DEF FinalText
  <2> HIDE DEF r
  <2> QED
    BY <1>3, <1>6, <2>1, <2>2
<1>11. CASE FinalFails
  <2>1. PICK r \in {NoRow, [NoRow EXCEPT !.status = "failed"]} : Update(t, r)
    BY <1>11 DEF FinalFails, t
  <2>2. r.text = <<>> /\ send' = NoSend
    BY <1>1, <1>11, EndTurnIs DEF FinalFails, NoRow
  <2> QED
    BY <1>6, <2>1, <2>2, NoText
<1>12. CASE AppendFails
  BY <1>3, <1>12 DEF AppendFails
<1> QED
  BY <1>7, <1>8, <1>9, <1>10, <1>11, <1>12 DEF Sender

LEMMA SourceStep ==
    ASSUME AnswerTypeOK, TurnsInv, SourceInv, AnswerAssumption, AnswerNext
    PROVE  SourceInv'
<1>1. CASE Flusher \/ FlushFails \/ ContextFails
  <2>1. /\ UNCHANGED <<apart, named, stream, send>>
        /\ \A u \in Turns : answerRow'[u].text = answerRow[u].text
    BY <1>1, FlusherKeeps
  <2> QED
    BY <2>1 DEF SourceInv, OfKey, KeyOf, ChatOfTurn
<1> QED
  BY <1>1, SourceAsks, SourceSender DEF AnswerNext, Asks

-----------------------------------------------------------------------------
\* The places of the reasoning.

LEMMA JoinedHas ==
    ASSUME NEW x \in Deltas, NEW y \in Deltas
    PROVE  /\ Elements(x \o y) = Elements(x) \cup Elements(y)
           /\ Once(x) /\ Once(y) /\ Elements(x) \cap Elements(y) = {} => Once(x \o y)
<1> DEFINE z == x \o y
<1>1. /\ x \in Seq(1..MaxChunks) /\ y \in Seq(1..MaxChunks)
      /\ Len(x) \in Nat /\ DOMAIN x = 1..Len(x) /\ Len(y) \in Nat /\ DOMAIN y = 1..Len(y)
  BY DEF Deltas
<1>2. /\ DOMAIN z = 1..(Len(x) + Len(y))
      /\ \A i \in DOMAIN x : z[i] = x[i]
      /\ \A i \in DOMAIN y : z[Len(x) + i] = y[i]
  BY <1>1
<1>3. \A i \in DOMAIN z : \/ i \in DOMAIN x
                          \/ i - Len(x) \in DOMAIN y /\ Len(x) + (i - Len(x)) = i
  BY <1>1, <1>2
<1>4. \A i \in DOMAIN x : i \in DOMAIN z
  BY <1>1, <1>2
<1>5. \A i \in DOMAIN y : Len(x) + i \in DOMAIN z
  BY <1>1, <1>2
<1> HIDE DEF z
<1>6. Elements(z) = Elements(x) \cup Elements(y)
  <2>1. ASSUME NEW i \in DOMAIN z
        PROVE  z[i] \in Elements(x) \cup Elements(y)
    BY <1>2, <1>3 DEF Elements
  <2>2. \A i \in DOMAIN x : x[i] \in Elements(z)
    BY <1>2, <1>4 DEF Elements
  <2>3. \A i \in DOMAIN y : y[i] \in Elements(z)
    BY <1>2, <1>5 DEF Elements
  <2> QED
    BY <2>1, <2>2, <2>3 DEF Elements
<1>7. ASSUME Once(x), Once(y), Elements(x) \cap Elements(y) = {}
      PROVE  Once(z)
  <2>1. SUFFICES ASSUME NEW i \in DOMAIN z, NEW j \in DOMAIN z, z[i] = z[j]
                 PROVE  i = j
    BY DEF Once
  <2>2. ASSUME NEW a \in DOMAIN x, NEW b \in DOMAIN y
        PROVE  z[a] # z[Len(x) + b]
    BY <1>2, <1>7 DEF Elements
  <2>3. CASE i \in DOMAIN x /\ j \in DOMAIN x
    BY <1>2, <1>7, <2>1, <2>3 DEF Once
  <2>4. CASE i - Len(x) \in DOMAIN y /\ j - Len(x) \in DOMAIN y
    <3>1. y[i - Len(x)] = y[j - Len(x)]
      BY <1>1, <1>2, <1>3, <2>1, <2>4
    <3>2. i - Len(x) = j - Len(x)
      BY <1>7, <2>4, <3>1 DEF Once
    <3> QED
      BY <1>1, <1>2, <3>2
  <2> QED
    BY <1>3, <2>1, <2>2, <2>3, <2>4
<1> QED
  BY <1>6, <1>7 DEF z

LEMMA AppendHas ==
    ASSUME NEW x \in Deltas, NEW e
    PROVE  /\ Elements(Append(x, e)) = Elements(x) \cup {e}
           /\ Once(x) /\ e \notin Elements(x) => Once(Append(x, e))
<1> DEFINE z == Append(x, e)
<1>1. /\ Len(x) \in Nat /\ DOMAIN x = 1..Len(x)
      /\ DOMAIN z = 1..(Len(x) + 1)
      /\ z[Len(x) + 1] = e /\ \A i \in DOMAIN x : z[i] = x[i]
  BY DEF Deltas
<1>2. DOMAIN z = DOMAIN x \cup {Len(x) + 1}
  BY <1>1
<1> HIDE DEF z
<1>3. Elements(z) = Elements(x) \cup {e}
  BY <1>1, <1>2 DEF Elements
<1>4. Once(x) /\ e \notin Elements(x) => Once(z)
  BY <1>1, <1>2 DEF Once, Elements
<1> QED
  BY <1>3, <1>4 DEF z

LEMMA EmptyHas == Elements(<<>>) = {} /\ Once(<<>>)
BY DEF Elements, Once

LEMMA TailIs ==
    ASSUME NEW S, NEW s \in Seq(S), s # <<>>
    PROVE  /\ Tail(s) \in Seq(S) /\ 1 \in DOMAIN s
           /\ \A i \in DOMAIN Tail(s) : /\ i + 1 \in DOMAIN s /\ Tail(s)[i] = s[i + 1]
                                        /\ i + 1 # 1 /\ i \in Nat
OBVIOUS

PlaceOf(t) == AtOnePlace(Buffered(t), Sent(t), Flushed(t), Stored(t), chunks[t])

LEMMA SendStays ==
    ASSUME NEW u, UNCHANGED send
    PROVE  Sent(u)' = Sent(u) /\ Seen(u)' = Seen(u)
BY DEF Sent, Seen

LEMMA FlushStays ==
    ASSUME NEW u, UNCHANGED flush
    PROVE  Flushed(u)' = Flushed(u) /\ FlushSeen(u)' = FlushSeen(u)
BY DEF Flushed, FlushSeen, Current


\* The turns and what they send.
LEMMA PlaceAsks ==
    ASSUME AnswerTypeOK, TurnsInv, PlaceInv, AnswerAssumption, NEW t \in Turns, Asks(t)
    PROVE  PlaceInv'
<1>1. /\ answerRow \in [Turns -> AnswerRows] /\ reasoning \in [Turns -> Deltas]
      /\ chunks \in [Turns -> 0..MaxChunks] /\ MaxChunks \in Nat
      /\ NoTurn \notin Turns /\ NoSend.turn = NoTurn /\ NoRow.meta = NoMeta
      /\ NoMeta.reasoning = <<>>
  BY EmptyIsTyped DEF AnswerTypeOK, Turns, NoTurn, AnswerAssumption
<1>2. SUFFICES ASSUME NEW u \in Turns
               PROVE  PlaceOf(u)'
  BY DEF PlaceInv, PlaceOf
<1>3. PlaceOf(u) /\ PlaceOf(t)
  BY DEF PlaceInv, PlaceOf
<1>4. send.at = "idle" => Sent(u) = {} /\ Seen(u) = {}
  BY <1>1, <1>2 DEF TurnsInv, Sent, Seen
<1>5. CASE BeginTurn(t) \/ Use(t) \/ Stream(t)
  <2>1. InRow(u)' = InRow(u)
    <3>1. CASE BeginTurn(t)
      <4>1. answerRow[t] = NoRow /\ answerRow'[t].meta = NoMeta
            /\ \A v \in Turns : v # t => answerRow'[v] = answerRow[v]
        BY <1>1, <3>1 DEF BeginTurn, TurnsInv, NoRow
      <4> QED
        BY <1>1, <1>2, <4>1 DEF InRow
    <3>2. CASE Use(t) \/ Stream(t)
      BY <3>2 DEF Use, Stream, InRow
    <3> QED
      BY <1>5, <3>1, <3>2
  <2>2. UNCHANGED <<reasoning, send, flush, chunks>>
    BY <1>5 DEF BeginTurn, Use, Stream, turnVars
  <2>3. Buffered(u)' = Buffered(u)
    BY <2>2 DEF Buffered
  <2> QED
    BY <1>3, <2>1, <2>2, <2>3, SendStays, FlushStays DEF PlaceOf, Stored
<1>6. CASE Reason(t)
  <2>1. /\ chunks' = [chunks EXCEPT ![t] = @ + 1]
        /\ reasoning' = [reasoning EXCEPT ![t] = Append(@, chunks'[t])]
        /\ UNCHANGED <<answerRow, send, flush>>
    BY <1>6 DEF Reason
  <2>2. InRow(u)' = InRow(u)
    BY <2>1 DEF InRow
  <2>3. Stored(u)' = Stored(u) /\ Sent(u)' = Sent(u) /\ Flushed(u)' = Flushed(u)
    BY <2>1, <2>2, SendStays, FlushStays DEF Stored
  <2>4. CASE u # t
    <3>1. Buffered(u)' = Buffered(u) /\ chunks'[u] = chunks[u]
      BY <1>1, <1>2, <2>1, <2>4 DEF Buffered
    <3> QED
      BY <1>3, <2>3, <3>1 DEF PlaceOf
  <2>5. CASE u = t
    <3>1. chunks'[u] = chunks[u] + 1 /\ chunks[u] \in Nat
      BY <1>1, <2>1, <2>5
    <3>2. Buffered(u)' = Buffered(u) \cup {chunks[u] + 1}
      <4>1. reasoning'[u] = Append(reasoning[u], chunks[u] + 1) /\ reasoning[u] \in Deltas
        BY <1>1, <2>1, <2>5, <3>1
      <4> QED
        BY <4>1, AppendHas DEF Buffered
    <3> QED
      BY <1>3, <2>3, <3>1, <3>2 DEF PlaceOf, AtOnePlace
  <2> QED
    BY <2>4, <2>5
<1>7. CASE Deliver(t)
  <2>1. /\ send'.at = "merge" /\ send'.turn = t /\ send'.seen = answerRow[t]
        /\ send.at = "idle" /\ UNCHANGED <<answerRow, reasoning, flush, chunks>>
    BY <1>7 DEF Deliver, NoSend
  <2>2. Buffered(u)' = Buffered(u) /\ Sent(u)' = {} /\ InRow(u)' = InRow(u)
        /\ Seen(u)' \subseteq InRow(u)
    BY <2>1 DEF Buffered, Sent, InRow, Seen
  <2>3. Stored(u)' = Stored(u) /\ Flushed(u)' = Flushed(u) /\ Sent(u) = {}
    BY <1>4, <2>1, <2>2, FlushStays DEF Stored
  <2> QED
    BY <1>3, <2>1, <2>2, <2>3 DEF PlaceOf
<1>8. CASE Final(t)
  <2>1. PICK text : FinishTurn(t, text) /\ send.at = "idle"
    BY <1>8 DEF Final
  <2>2. /\ send'.turn = t /\ send'.delta = reasoning[t] /\ send'.seen = NoRow
        /\ reasoning' = [reasoning EXCEPT ![t] = <<>>]
        /\ UNCHANGED <<answerRow, flush, chunks>>
    BY <2>1, FinishIs
  <2>3. InRow(u)' = InRow(u) /\ Seen(u)' = {}
    BY <1>1, <2>2, EmptyHas DEF InRow, Seen
  <2>4. Stored(u)' = Stored(u) /\ Flushed(u)' = Flushed(u) /\ Sent(u) = {}
    BY <1>4, <2>1, <2>2, <2>3, FlushStays DEF Stored
  <2>5. CASE u # t
    <3>1. Buffered(u)' = Buffered(u) /\ Sent(u)' = {}
      BY <1>1, <1>2, <2>2, <2>5 DEF Buffered, Sent
    <3> QED
      BY <1>3, <2>2, <2>4, <3>1 DEF PlaceOf
  <2>6. CASE u = t
    <3>1. Buffered(u)' = {} /\ Sent(u)' \subseteq Buffered(u)
      BY <1>1, <2>2, <2>6, EmptyHas DEF Buffered, Sent
    <3> QED
      BY <1>3, <2>2, <2>4, <3>1 DEF PlaceOf, AtOnePlace
  <2> QED
    BY <2>5, <2>6
<1>9. CASE Reclaimed(t)
  <2>1. answerRow' = [answerRow EXCEPT ![t] = NoRow] /\ UNCHANGED <<reasoning, send,
                                                                    flush, chunks>>
    BY <1>9 DEF Reclaimed, turnVars
  <2>2. InRow(u)' \subseteq InRow(u) /\ Buffered(u)' = Buffered(u)
    BY <1>1, <1>2, <2>1, EmptyHas DEF InRow, Buffered
  <2>3. Stored(u)' \subseteq Stored(u) /\ Sent(u)' = Sent(u) /\ Flushed(u)' = Flushed(u)
    BY <2>1, <2>2, SendStays, FlushStays DEF Stored
  <2> QED
    BY <1>3, <2>1, <2>2, <2>3 DEF PlaceOf, AtOnePlace
<1> QED
  BY <1>5, <1>6, <1>7, <1>8, <1>9 DEF Asks

\* The dispatcher stores what it sent, with what it read before.
LEMMA PlaceSender ==
    ASSUME AnswerTypeOK, TurnsInv, PlaceInv, AnswerAssumption, Sender \/ AppendFails \/ FinalFails
    PROVE  PlaceInv'
<1> DEFINE t == send.turn
<1>1. /\ answerRow \in [Turns -> AnswerRows] /\ reasoning \in [Turns -> Deltas]
      /\ send \in SendRecords /\ send.seen \in AnswerRows /\ send.seen.meta \in Metas
      /\ send.seen.meta.reasoning \in Deltas /\ send.delta \in Deltas
      /\ NoTurn \notin Turns /\ NoSend.turn = NoTurn /\ NoRow.meta = NoMeta
      /\ NoMeta.reasoning = <<>>
  BY EmptyIsTyped DEF AnswerTypeOK, Turns, NoTurn, SendRecords, AnswerRows, Metas
<1>2. /\ t \in Turns /\ UNCHANGED <<chunks, flush>>
      /\ \A u \in Turns : u # t => answerRow'[u] = answerRow[u]
      /\ send' = NoSend \/ send'.turn = t
  BY SenderKeeps
<1>3. SUFFICES ASSUME NEW u \in Turns
               PROVE  PlaceOf(u)'
  BY DEF PlaceInv, PlaceOf
<1>4. PlaceOf(u)
  BY DEF PlaceInv, PlaceOf
<1>5. Flushed(u)' = Flushed(u) /\ FlushSeen(u)' = FlushSeen(u)
  BY <1>2, FlushStays
<1>6. answerRow[t] \in AnswerRows
  BY <1>1, <1>2
<1>7. UNCHANGED reasoning \/ FinalFails
  BY DEF Sender, Merge, TakeLock, AppendRead, AppendWrite, FinalRead, FinalWrite, AppendFails
<1> HIDE DEF t
<1>8. CASE u # t
  <2>1. Sent(u) = {} /\ Seen(u) = {} /\ Sent(u)' = {} /\ Seen(u)' = {}
    BY <1>1, <1>2, <1>3, <1>8 DEF Sent, Seen, t
  <2>2. answerRow'[u] = answerRow[u] /\ reasoning'[u] = reasoning[u]
    BY <1>1, <1>2, <1>3, <1>7, <1>8 DEF FinalFails, t
  <2>3. Buffered(u)' = Buffered(u) /\ InRow(u)' = InRow(u)
    BY <2>2 DEF Buffered, InRow
  <2> QED
    BY <1>2, <1>4, <1>5, <2>1, <2>3 DEF PlaceOf, Stored
<1>9. CASE u = t
  <2>1. u = send.turn /\ Seen(u) = Elements(send.seen.meta.reasoning)
        /\ Stored(u) = InRow(u) \cup Seen(u) \cup FlushSeen(u)
    BY <1>9 DEF t, Seen, Stored
  <2>2. ASSUME Buffered(u)' \subseteq Buffered(u), Sent(u)' \subseteq Sent(u),
               InRow(u)' \subseteq InRow(u) \cup Seen(u),
               Seen(u)' \subseteq InRow(u) \cup Seen(u)
        PROVE  PlaceOf(u)'
    BY <1>2, <1>4, <1>5, <2>1, <2>2 DEF PlaceOf, Stored, AtOnePlace
  <2>3. ASSUME UNCHANGED reasoning
        PROVE  Buffered(u)' = Buffered(u)
    BY <2>3 DEF Buffered
  <2>4. ASSUME send' = NoSend
        PROVE  Sent(u)' = {} /\ Seen(u)' = {}
    BY <1>1, <1>3, <2>4 DEF Sent, Seen
  <2>5. CASE Merge
    <3>1. send' = NoSend /\ UNCHANGED reasoning
      BY <2>5 DEF Merge
    <3>2. InRow(u)' \subseteq InRow(u) \cup Seen(u)
      <4>1. CASE UNCHANGED answerRow
        BY <4>1 DEF InRow
      <4>2. CASE Update(u, [answerRow[u] EXCEPT !.text = send.seen.text \o send.text,
                                          !.meta = send.seen.meta])
        <5> DEFINE r == [answerRow[u] EXCEPT !.text = send.seen.text \o send.text,
                                       !.meta = send.seen.meta]
        <5>1. r.meta = send.seen.meta /\ Update(u, r)
          BY <1>6, <1>9, <4>2 DEF AnswerRows
        <5> HIDE DEF r
        <5> QED
          BY <2>1, <5>1, UpdateKeeps DEF InRow
      <4> QED
        BY <2>1, <2>5, <4>1, <4>2 DEF Merge
    <3> QED
      BY <2>2, <2>3, <2>4, <3>1, <3>2
  <2>6. CASE TakeLock
    <3>1. UNCHANGED <<answerRow, reasoning>> /\ send'.turn = send.turn /\ send'.delta = send.delta
          /\ send'.seen = send.seen /\ send.at = "lock"
      BY <1>1, <2>6 DEF TakeLock, SendRecords
    <3>2. Sent(u)' \subseteq Sent(u) /\ Seen(u)' = Seen(u) /\ InRow(u)' = InRow(u)
      BY <3>1 DEF Sent, Seen, InRow
    <3> QED
      BY <2>2, <2>3, <3>1, <3>2
  <2>7. CASE AppendRead
    <3>1. UNCHANGED <<answerRow, reasoning>> /\ send'.turn = send.turn /\ send'.delta = send.delta
          /\ send'.seen \in {send.seen, answerRow[u]} /\ send.at = "append"
      BY <1>1, <2>1, <2>7 DEF AppendRead, SendRecords
    <3>2. Sent(u)' \subseteq Sent(u) /\ Seen(u)' \subseteq InRow(u) \cup Seen(u)
          /\ InRow(u)' = InRow(u)
      BY <3>1 DEF Sent, Seen, InRow
    <3> QED
      BY <2>2, <2>3, <3>1, <3>2
  <2>8. CASE AppendWrite
    <3> DEFINE m == [send.seen.meta EXCEPT !.reasoning = @ \o send.delta]
    <3>1. Update(u, [answerRow[u] EXCEPT !.meta = m]) /\ UNCHANGED reasoning
          /\ send.at = "appended"
          /\ send'.turn = send.turn /\ send'.seen = send.seen /\ send'.at = "final"
      BY <1>1, <2>1, <2>8 DEF AppendWrite, SendRecords
    <3>2. m.reasoning = send.seen.meta.reasoning \o send.delta
      BY <1>1 DEF Metas
    <3>3. Elements(m.reasoning) = Seen(u) \cup Sent(u)
      BY <1>1, <2>1, <3>1, <3>2, JoinedHas DEF Sent
    <3> HIDE DEF m
    <3>4. answerRow'[u].meta \in {answerRow[u].meta, m}
      BY <3>1, MetaIs
    <3>5. InRow(u)' \subseteq InRow(u) \cup Seen(u) \cup Sent(u)
      BY <3>3, <3>4 DEF InRow
    <3>6. Sent(u)' = {} /\ Seen(u)' = Seen(u) /\ Buffered(u)' = Buffered(u)
      BY <2>3, <3>1 DEF Sent, Seen
    <3> QED
      BY <1>2, <1>4, <1>5, <2>1, <3>5, <3>6 DEF PlaceOf, Stored, AtOnePlace
  <2>9. CASE FinalRead
    <3>1. UNCHANGED <<answerRow, reasoning>> /\ send'.turn = send.turn /\ send'.at = "write"
          /\ send'.seen = answerRow[u]
      BY <1>1, <2>1, <2>9 DEF FinalRead, SendRecords
    <3>2. Sent(u)' = {} /\ Seen(u)' \subseteq InRow(u) /\ InRow(u)' = InRow(u)
      BY <3>1 DEF Sent, Seen, InRow
    <3> QED
      BY <2>2, <2>3, <3>1, <3>2
  <2>10. CASE FinalWrite
    <3> DEFINE m == [send.seen.meta EXCEPT !.final = TRUE]
    <3> DEFINE r == [status |-> "completed",
                     text |-> FinalText(send.text, send.seen.text), meta |-> m]
    <3>1. Update(u, r) /\ send' = NoSend /\ UNCHANGED reasoning
      BY <2>1, <2>10, EndTurnIs DEF FinalWrite
    <3>2. r.meta.reasoning = send.seen.meta.reasoning
      BY <1>1 DEF Metas
    <3> HIDE DEF r
    <3>3. InRow(u)' \subseteq InRow(u) \cup Seen(u)
      BY <2>1, <3>1, <3>2, UpdateKeeps DEF InRow
    <3> QED
      BY <2>2, <2>3, <2>4, <3>1, <3>3
  <2>11. CASE FinalFails
    <3>1. PICK r \in {NoRow, [NoRow EXCEPT !.status = "failed"]} : Update(u, r)
      BY <2>1, <2>11 DEF FinalFails
    <3>2. r.meta.reasoning = <<>>
      BY <1>1 DEF NoRow
    <3>3. InRow(u)' \subseteq InRow(u)
      BY <3>1, <3>2, UpdateKeeps, EmptyHas DEF InRow
    <3>4. reasoning'[u] = <<>> /\ send' = NoSend
      BY <1>1, <2>1, <2>11, EndTurnIs DEF FinalFails
    <3>5. Buffered(u)' = {}
      BY <3>4, EmptyHas DEF Buffered
    <3> QED
      BY <2>2, <2>4, <3>3, <3>4, <3>5
  <2>12. CASE AppendFails
    <3>1. UNCHANGED <<answerRow, reasoning>> /\ send' = NoSend
      BY <2>12 DEF AppendFails
    <3>2. InRow(u)' = InRow(u)
      BY <3>1 DEF InRow
    <3> QED
      BY <2>2, <2>3, <2>4, <3>1, <3>2
  <2> QED
    BY <2>5, <2>6, <2>7, <2>8, <2>9, <2>10, <2>11, <2>12 DEF Sender
<1> QED
  BY <1>8, <1>9

LEMMA NothingTaken ==
    ASSUME NEW u, flush'.todo = <<>>
    PROVE  Flushed(u)' = {} /\ FlushSeen(u)' = {}
BY DEF Flushed, FlushSeen

LEMMA NothingSeen ==
    ASSUME NEW u, NEW todo, NEW free, GoOn(todo, free)
    PROVE  flush'.todo = todo /\ FlushSeen(u)' = {}
<1>1. flush'.todo = todo /\ flush'.seen = NoMeta
  BY GoOnIs
<1> QED
  BY <1>1, EmptyIsTyped, EmptyHas DEF FlushSeen

\* The first buffer leaves the flush, which has one of each turn.
LEMMA FirstLeaves ==
    ASSUME AnswerTypeOK, OnceInv, flush.todo # <<>>, flush'.todo = Tail(flush.todo), NEW u
    PROVE  /\ Flushed(u)' \subseteq Flushed(u)
           /\ Elements(flush.todo[1][2]) \subseteq Flushed(Current)
           /\ u = Current => Flushed(u)' = {}
<1>1. flush.todo \in Seq(Turns \X Deltas)
  BY DEF AnswerTypeOK
<1>2. /\ 1 \in DOMAIN flush.todo
      /\ \A i \in DOMAIN flush'.todo : /\ i + 1 \in DOMAIN flush.todo /\ i + 1 # 1
                                       /\ flush'.todo[i] = flush.todo[i + 1]
  BY <1>1, TailIs
<1>3. \A i, j \in DOMAIN flush.todo : flush.todo[i][1] = flush.todo[j][1] => i = j
  BY DEF OnceInv
<1>4. ASSUME NEW x \in Flushed(u)'
      PROVE  x \in Flushed(u) /\ u # Current
  <2>1. PICK i \in DOMAIN flush'.todo :
          flush'.todo[i][1] = u /\ x \in Elements(flush'.todo[i][2])
    BY <1>4 DEF Flushed
  <2>2. flush.todo[i + 1][1] = u /\ x \in Elements(flush.todo[i + 1][2])
        /\ i + 1 \in DOMAIN flush.todo /\ i + 1 # 1
    BY <1>2, <2>1
  <2>3. x \in Flushed(u)
    <3> DEFINE k == i + 1
    <3>1. k \in DOMAIN flush.todo /\ flush.todo[k][1] = u
          /\ x \in Elements(flush.todo[k][2])
      BY <2>2
    <3> HIDE DEF k
    <3> QED
      BY <3>1 DEF Flushed
  <2> QED
    BY <1>2, <1>3, <2>2, <2>3 DEF Current
<1>5. Elements(flush.todo[1][2]) \subseteq Flushed(Current)
  BY <1>2 DEF Flushed, Current
<1> QED
  BY <1>4, <1>5

\* The flush takes the buffers over, and stores one after the other.
LEMMA PlaceFlusher ==
    ASSUME AnswerTypeOK, TurnsInv, PlaceInv, OnceInv, AnswerAssumption,
           Flusher \/ FlushFails \/ ContextFails
    PROVE  PlaceInv'
<1>1. /\ answerRow \in [Turns -> AnswerRows] /\ reasoning \in [Turns -> Deltas]
      /\ flush \in FlushRecords /\ flush.seen \in Metas /\ flush.seen.reasoning \in Deltas
      /\ flush.todo \in Seq(Turns \X Deltas)
      /\ NoMeta.reasoning = <<>> /\ NoFlush.todo = <<>>
  BY EmptyIsTyped DEF AnswerTypeOK, FlushRecords, Metas
<1>2. UNCHANGED <<chunks, send>>
  BY FlusherKeeps
<1>3. flush.at \notin {"idle", "context"}
        => flush.todo # <<>> /\ Current \in Turns /\ flush.todo[1][2] \in Deltas
  BY <1>1 DEF TurnsInv, Current
<1>4. SUFFICES ASSUME NEW u \in Turns
               PROVE  PlaceOf(u)'
  BY DEF PlaceInv, PlaceOf
<1>5. /\ PlaceOf(u) /\ Sent(u)' = Sent(u) /\ Seen(u)' = Seen(u)
      /\ flush.at \notin {"idle", "context"} =>
           FlushSeen(u) = IF Current = u THEN Elements(flush.seen.reasoning) ELSE {}
  BY <1>2, <1>3, SendStays DEF PlaceInv, PlaceOf, FlushSeen
<1>6. ASSUME UNCHANGED answerRow
      PROVE  InRow(u)' = InRow(u)
  BY <1>6 DEF InRow
<1>7. ASSUME UNCHANGED reasoning
      PROVE  Buffered(u)' = Buffered(u)
  BY <1>7 DEF Buffered
<1>8. ASSUME UNCHANGED reasoning, Flushed(u)' \subseteq Flushed(u),
             InRow(u)' \cup FlushSeen(u)' \subseteq InRow(u) \cup FlushSeen(u)
      PROVE  PlaceOf(u)'
  BY <1>2, <1>5, <1>7, <1>8 DEF PlaceOf, Stored, AtOnePlace
<1>9. ASSUME UNCHANGED <<answerRow, reasoning>>, flush'.todo = <<>>
      PROVE  PlaceOf(u)'
  BY <1>6, <1>8, <1>9, NothingTaken
<1>10. CASE FlushBegin
  <2>1. PICK todo \in Seq(Turns \X Deltas) :
          /\ GoOn(todo, ioLock)
          /\ \A i \in DOMAIN todo : todo[i][2] = reasoning[todo[i][1]]
    BY <1>10, TakenIs
  <2>2. flush'.todo = todo /\ FlushSeen(u)' = {}
    BY <2>1, NothingSeen
  <2>3. reasoning' = [t \in Turns |-> <<>>] /\ answerRow' = answerRow /\ flush.at = "idle"
    BY <1>10 DEF FlushBegin, TakenBuffers
  <2>4. Flushed(u)' \subseteq Buffered(u)
    BY <2>1, <2>2 DEF Flushed, Buffered
  <2>5. Buffered(u)' = {}
    BY <2>3, EmptyHas DEF Buffered
  <2>6. Flushed(u) = {}
    BY <2>3 DEF TurnsInv, Flushed
  <2> QED
    BY <1>2, <1>5, <1>6, <2>2, <2>3, <2>4, <2>5, <2>6 DEF PlaceOf, Stored, AtOnePlace
<1>11. CASE FlushLock
  <2>1. flush'.todo = flush.todo /\ flush'.seen = flush.seen /\ UNCHANGED <<
                                                                            answerRow,
                                                                            reasoning>>
    BY <1>1, <1>11 DEF FlushLock, FlushRecords
  <2>2. Flushed(u)' = Flushed(u) /\ FlushSeen(u)' = FlushSeen(u)
    BY <2>1 DEF Flushed, FlushSeen, Current
  <2> QED
    BY <1>6, <1>8, <2>1, <2>2
<1>12. ASSUME flush.at \notin {"idle", "context"}, flush'.todo = flush.todo,
              flush'.seen = answerRow[Current].meta, UNCHANGED <<answerRow, reasoning>>
       PROVE  PlaceOf(u)'
  <2>1. Flushed(u)' = Flushed(u) /\ FlushSeen(u)' \subseteq InRow(u)
    BY <1>12 DEF Flushed, FlushSeen, Current, InRow
  <2> QED
    BY <1>6, <1>8, <1>12, <2>1
<1>13. CASE FlushRead
  <2>1. CASE answerRow[Current].status = "none"
    <3>1. GoOn(Tail(flush.todo), "free") /\ flush.at = "read" /\ UNCHANGED <<
                                                                             answerRow,
                                                                             reasoning>>
      BY <1>13, <2>1 DEF FlushRead, Skip
    <3>2. flush'.todo = Tail(flush.todo) /\ FlushSeen(u)' = {}
      BY <3>1, NothingSeen
    <3>3. Flushed(u)' \subseteq Flushed(u)
      BY <1>3, <3>1, <3>2, FirstLeaves
    <3> QED
      BY <1>6, <1>8, <3>1, <3>2, <3>3
  <2>2. CASE answerRow[Current].status # "none"
    <3>1. flush'.todo = flush.todo /\ flush'.seen = answerRow[Current].meta
          /\ flush.at = "read" /\ UNCHANGED <<answerRow, reasoning>>
      BY <1>1, <1>13, <2>2 DEF FlushRead, FlushRecords
    <3> QED
      BY <1>12, <3>1
  <2> QED
    BY <2>1, <2>2
<1>14. CASE FlushWrite
  <2> DEFINE m == [flush.seen EXCEPT !.reasoning = @ \o flush.todo[1][2]]
  <2>1. /\ Update(Current, [answerRow[Current] EXCEPT !.meta = m])
        /\ GoOn(Tail(flush.todo), "free") /\ flush.at = "write" /\ UNCHANGED reasoning
    BY <1>14 DEF FlushWrite
  <2>2. m.reasoning = flush.seen.reasoning \o flush.todo[1][2]
    BY <1>1 DEF Metas
  <2>3. Elements(m.reasoning) = Elements(flush.seen.reasoning) \cup
                                Elements(flush.todo[1][2])
    BY <1>1, <1>3, <2>1, <2>2, JoinedHas
  <2> HIDE DEF m
  <2>4. flush'.todo = Tail(flush.todo) /\ FlushSeen(u)' = {}
    BY <2>1, NothingSeen
  <2>5. /\ Flushed(u)' \subseteq Flushed(u)
        /\ Elements(flush.todo[1][2]) \subseteq Flushed(Current)
        /\ u = Current => Flushed(u)' = {}
    BY <1>3, <2>1, <2>4, FirstLeaves
  <2>6. CASE u # Current
    <3>1. answerRow'[u] = answerRow[u]
      BY <1>3, <1>4, <2>1, <2>6, MetaIs
    <3>2. InRow(u)' = InRow(u)
      BY <3>1 DEF InRow
    <3> QED
      BY <1>8, <2>1, <2>4, <2>5, <3>2
  <2>7. CASE u = Current
    <3>1. answerRow'[u].meta \in {answerRow[u].meta, m}
      BY <1>3, <2>1, <2>7, MetaIs
    <3>2. InRow(u)' \subseteq InRow(u) \cup FlushSeen(u) \cup Flushed(u)
      BY <1>5, <2>1, <2>3, <2>5, <2>7, <3>1 DEF InRow
    <3> QED
      BY <1>2, <1>5, <1>7, <2>1, <2>4, <2>5, <2>7, <3>2 DEF PlaceOf, Stored, AtOnePlace
  <2> QED
    BY <2>6, <2>7
<1>15. CASE FlushFails
  <2>1. flush'.todo = <<>> /\ UNCHANGED <<answerRow, reasoning>>
    BY <1>15, NothingSeen DEF FlushFails
  <2> QED
    BY <1>9, <2>1
<1>16. ASSUME NEW t \in Turns, ContextOf(t)
       PROVE  PlaceOf(u)'
  <2>1. /\ flush'.todo = <<<<t, <<>>>>>> /\ flush'.seen = flush.seen
        /\ flush.at = "context" /\ UNCHANGED <<answerRow, reasoning>>
    BY <1>1, <1>16 DEF ContextOf, FlushRecords
  <2>2. flush.seen = NoMeta
    BY <2>1 DEF TurnsInv
  <2>3. FlushSeen(u)' = {}
    BY <1>1, <2>1, <2>2, EmptyHas DEF FlushSeen
  <2>4. Flushed(u)' = {}
    BY <2>1, EmptyHas DEF Flushed
  <2> QED
    BY <1>6, <1>8, <2>1, <2>3, <2>4
<1>17. CASE ContextRead
  <2>1. CASE answerRow[Current].status = "none" \/ answerRow[Current].meta.window = flush.window
    <3>1. flush'.todo = <<>> /\ UNCHANGED <<answerRow, reasoning>>
      BY <1>1, <1>17, <2>1 DEF ContextRead, LeaveRow, NoFlush
    <3> QED
      BY <1>9, <3>1
  <2>2. CASE ~(answerRow[Current].status = "none" \/ answerRow[Current].meta.window = flush.window)
    <3>1. flush'.todo = flush.todo /\ flush'.seen = answerRow[Current].meta
          /\ flush.at = "look" /\ UNCHANGED <<answerRow, reasoning>>
      BY <1>1, <1>17, <2>2 DEF ContextRead, FlushRecords
    <3> QED
      BY <1>12, <3>1
  <2> QED
    BY <2>1, <2>2
<1>18. CASE ContextWrite
  <2> DEFINE m == [flush.seen EXCEPT !.window = flush.window]
  <2>1. /\ Update(Current, [answerRow[Current] EXCEPT !.meta = m])
        /\ flush'.todo = <<>> /\ flush.at = "store" /\ UNCHANGED reasoning
    BY <1>18 DEF ContextWrite, LeaveRow, NoFlush
  <2>2. m.reasoning = flush.seen.reasoning
    BY <1>1 DEF Metas
  <2> HIDE DEF m
  <2>3. CASE u # Current
    <3>1. answerRow'[u] = answerRow[u]
      BY <1>3, <1>4, <2>1, <2>3, MetaIs
    <3>2. InRow(u)' = InRow(u)
      BY <3>1 DEF InRow
    <3> QED
      BY <1>8, <2>1, <3>2, NothingTaken
  <2>4. CASE u = Current
    <3>1. answerRow'[u].meta \in {answerRow[u].meta, m}
      BY <1>3, <2>1, <2>4, MetaIs
    <3>2. InRow(u)' \subseteq InRow(u) \cup FlushSeen(u)
      BY <1>5, <2>1, <2>2, <2>4, <3>1 DEF InRow
    <3> QED
      BY <1>8, <2>1, <3>2, NothingTaken
  <2> QED
    BY <2>3, <2>4
<1>19. CASE ContextFails \/ FlushEnd
  <2>1. flush'.todo = <<>> /\ UNCHANGED <<answerRow, reasoning>>
    BY <1>1, <1>19 DEF ContextFails, FlushEnd
  <2> QED
    BY <1>9, <2>1
<1> QED
  BY <1>10, <1>11, <1>13, <1>14, <1>15, <1>16, <1>17, <1>18, <1>19 DEF Flusher

LEMMA PlaceStep ==
    ASSUME AnswerTypeOK, TurnsInv, PlaceInv, OnceInv, AnswerAssumption, AnswerNext
    PROVE  PlaceInv'
BY PlaceAsks, PlaceSender, PlaceFlusher DEF AnswerNext, Asks

-----------------------------------------------------------------------------
\* Nothing is there twice.

OnceSend == Once(send.delta) /\ Once(send.seen.meta.reasoning)
OnceRow(t) == Once(reasoning[t]) /\ Once(answerRow[t].meta.reasoning)
OnceFlush ==
    /\ Once(flush.seen.reasoning)
    /\ \A i \in DOMAIN flush.todo : Once(flush.todo[i][2])
    /\ \A i, j \in DOMAIN flush.todo : flush.todo[i][1] = flush.todo[j][1] => i = j

\* The turns and what they send.
LEMMA OnceAsks ==
    ASSUME AnswerTypeOK, TurnsInv, PlaceInv, OnceInv, AnswerAssumption, NEW t \in Turns,
           Asks(t)
    PROVE  OnceInv'
<1>1. /\ answerRow \in [Turns -> AnswerRows] /\ reasoning \in [Turns -> Deltas]
      /\ chunks \in [Turns -> 0..MaxChunks]
      /\ NoRow.meta = NoMeta /\ NoMeta.reasoning = <<>> /\ Once(<<>>)
  BY EmptyIsTyped, EmptyHas DEF AnswerTypeOK
<1>2. OnceSend /\ OnceFlush /\ \A u \in Turns : OnceRow(u)
  BY DEF OnceInv, OnceSend, OnceFlush, OnceRow
<1>3. UNCHANGED flush
  <2>1. CASE Final(t)
    BY <2>1, FinishIs DEF Final
  <2> QED
    BY <2>1 DEF Asks, BeginTurn, Reason, Use, Stream, Deliver, Reclaimed
<1>4. OnceFlush'
  BY <1>2, <1>3 DEF OnceFlush
<1>5. ASSUME OnceSend', \A u \in Turns : OnceRow(u)'
      PROVE  OnceInv'
  BY <1>4, <1>5 DEF OnceInv, OnceSend, OnceFlush, OnceRow
<1>6. ASSUME UNCHANGED send
      PROVE  OnceSend'
  BY <1>2, <1>6 DEF OnceSend
<1>7. CASE BeginTurn(t)
  <2>1. /\ answerRow'[t].meta = NoMeta /\ \A u \in Turns : u # t => answerRow'[u] = answerRow[u]
        /\ UNCHANGED <<reasoning, send>>
    BY <1>1, <1>7 DEF BeginTurn, NoRow
  <2>2. \A u \in Turns : OnceRow(u)'
    BY <1>1, <1>2, <2>1 DEF OnceRow
  <2> QED
    BY <1>5, <1>6, <2>1, <2>2
<1>8. CASE Reason(t)
  <2>1. /\ chunks' = [chunks EXCEPT ![t] = @ + 1]
        /\ reasoning' = [reasoning EXCEPT ![t] = Append(@, chunks'[t])]
        /\ UNCHANGED <<answerRow, send>>
    BY <1>8 DEF Reason
  <2>2. reasoning'[t] = Append(reasoning[t], chunks[t] + 1) /\ chunks[t] \in Nat
        /\ reasoning[t] \in Deltas
    BY <1>1, <2>1
  <2>3. chunks[t] + 1 \notin Elements(reasoning[t])
    BY <2>2 DEF PlaceInv, AtOnePlace, Buffered
  <2>4. Once(reasoning'[t])
    BY <1>2, <2>2, <2>3, AppendHas DEF OnceRow
  <2>5. \A u \in Turns : OnceRow(u)'
    BY <1>1, <1>2, <2>1, <2>4 DEF OnceRow
  <2> QED
    BY <1>5, <1>6, <2>1, <2>5
<1>9. CASE Use(t) \/ Stream(t)
  <2>1. UNCHANGED <<answerRow, reasoning, send>>
    BY <1>9 DEF Use, Stream
  <2>2. \A u \in Turns : OnceRow(u)'
    BY <1>2, <2>1 DEF OnceRow
  <2> QED
    BY <1>5, <1>6, <2>1, <2>2
<1>10. CASE Deliver(t)
  <2>1. send'.delta = <<>> /\ send'.seen = answerRow[t] /\ UNCHANGED <<answerRow,
                                                                       reasoning>>
    BY <1>10 DEF Deliver, NoSend
  <2>2. OnceSend' /\ \A u \in Turns : OnceRow(u)'
    BY <1>1, <1>2, <2>1 DEF OnceRow, OnceSend
  <2> QED
    BY <1>5, <2>2
<1>11. CASE Final(t)
  <2>1. PICK text : FinishTurn(t, text)
    BY <1>11 DEF Final
  <2>2. /\ send'.delta = reasoning[t] /\ send'.seen = NoRow
        /\ reasoning' = [reasoning EXCEPT ![t] = <<>>] /\ UNCHANGED answerRow
    BY <2>1, FinishIs
  <2>3. OnceSend' /\ \A u \in Turns : OnceRow(u)'
    BY <1>1, <1>2, <2>2 DEF OnceRow, OnceSend
  <2> QED
    BY <1>5, <2>3
<1>12. CASE Reclaimed(t)
  <2>1. answerRow' = [answerRow EXCEPT ![t] = NoRow] /\ UNCHANGED <<reasoning, send>>
    BY <1>12 DEF Reclaimed, turnVars
  <2>2. \A u \in Turns : OnceRow(u)'
    BY <1>1, <1>2, <2>1 DEF OnceRow
  <2> QED
    BY <1>5, <1>6, <2>1, <2>2
<1> QED
  BY <1>7, <1>8, <1>9, <1>10, <1>11, <1>12 DEF Asks

\* What the dispatcher adds to the row is not in what it read.
LEMMA OnceSender ==
    ASSUME AnswerTypeOK, TurnsInv, PlaceInv, OnceInv, AnswerAssumption, Sender \/ AppendFails \/ FinalFails
    PROVE  OnceInv'
<1>1. /\ answerRow \in [Turns -> AnswerRows] /\ reasoning \in [Turns -> Deltas]
      /\ send \in SendRecords /\ send.seen \in AnswerRows /\ send.seen.meta \in Metas
      /\ send.seen.meta.reasoning \in Deltas /\ send.delta \in Deltas
      /\ NoRow.meta = NoMeta /\ NoMeta.reasoning = <<>> /\ Once(<<>>)
      /\ NoSend.delta = <<>> /\ NoSend.seen = NoRow
  BY EmptyIsTyped, EmptyHas DEF AnswerTypeOK, SendRecords, AnswerRows, Metas
<1>2. /\ send.turn \in Turns /\ UNCHANGED flush
      /\ \A u \in Turns : u # send.turn => answerRow'[u] = answerRow[u]
  BY SenderKeeps
<1>3. OnceSend /\ OnceFlush /\ \A u \in Turns : OnceRow(u)
  BY DEF OnceInv, OnceSend, OnceFlush, OnceRow
<1>4. \A u \in Turns : Once(reasoning'[u])
  <2>1. UNCHANGED reasoning \/ reasoning' = [reasoning EXCEPT ![send.turn] = <<>>]
    BY DEF Sender, Merge, TakeLock, AppendRead, AppendWrite, FinalRead, FinalWrite,
           AppendFails, FinalFails
  <2> QED
    BY <1>1, <1>3, <2>1 DEF OnceRow
<1>5. ASSUME OnceSend', Once(answerRow'[send.turn].meta.reasoning)
      PROVE  OnceInv'
  <2>1. \A u \in Turns : Once(answerRow'[u].meta.reasoning)
    BY <1>2, <1>3, <1>5 DEF OnceRow
  <2>2. OnceFlush'
    BY <1>2, <1>3 DEF OnceFlush
  <2> QED
    BY <1>4, <1>5, <2>1, <2>2 DEF OnceInv, OnceSend, OnceFlush
<1>6. ASSUME NEW r, Once(r.meta.reasoning), Update(send.turn, r)
      PROVE  Once(answerRow'[send.turn].meta.reasoning)
  BY <1>2, <1>3, <1>6, UpdateKeeps DEF OnceRow
<1>7. ASSUME UNCHANGED answerRow
      PROVE  Once(answerRow'[send.turn].meta.reasoning)
  BY <1>2, <1>3, <1>7 DEF OnceRow
<1>8. answerRow[send.turn] \in AnswerRows
  BY <1>1, <1>2
<1>9. CASE Merge
  <2>1. OnceSend'
    BY <1>1, <1>9 DEF Merge, OnceSend
  <2>2. CASE UNCHANGED answerRow
    BY <1>5, <1>7, <2>1, <2>2
  <2>3. CASE Update(send.turn,
                    [answerRow[send.turn] EXCEPT !.text = send.seen.text \o send.text,
                                           !.meta = send.seen.meta])
    <3> DEFINE r == [answerRow[send.turn] EXCEPT !.text = send.seen.text \o send.text,
                                           !.meta = send.seen.meta]
    <3>1. r.meta = send.seen.meta /\ Update(send.turn, r)
      BY <1>8, <2>3 DEF AnswerRows
    <3> HIDE DEF r
    <3> QED
      BY <1>3, <1>5, <1>6, <2>1, <3>1 DEF OnceSend
  <2> QED
    BY <1>9, <2>2, <2>3 DEF Merge
<1>10. CASE TakeLock \/ AppendRead \/ FinalRead
  <2>1. /\ send'.delta = send.delta /\ send'.seen \in {send.seen, answerRow[send.turn]}
        /\ UNCHANGED answerRow
    BY <1>1, <1>10 DEF TakeLock, AppendRead, FinalRead, SendRecords
  <2>2. OnceSend'
    BY <1>2, <1>3, <2>1 DEF OnceSend, OnceRow
  <2> QED
    BY <1>5, <1>7, <2>1, <2>2
<1>11. CASE AppendWrite
  <2> DEFINE m == [send.seen.meta EXCEPT !.reasoning = @ \o send.delta]
  <2>1. /\ Update(send.turn, [answerRow[send.turn] EXCEPT !.meta = m])
        /\ send'.delta = send.delta /\ send'.seen = send.seen /\ send.at = "appended"
    BY <1>1, <1>11 DEF AppendWrite, SendRecords
  <2>2. m.reasoning = send.seen.meta.reasoning \o send.delta
    BY <1>1 DEF Metas
  <2>3. Elements(send.seen.meta.reasoning) \cap Elements(send.delta) = {}
    BY <1>2, <2>1 DEF PlaceInv, AtOnePlace, Sent, Stored, Seen
  <2>4. Once(m.reasoning)
    BY <1>1, <1>3, <2>2, <2>3, JoinedHas DEF OnceSend
  <2> HIDE DEF m
  <2>5. answerRow'[send.turn].meta \in {answerRow[send.turn].meta, m}
    BY <1>2, <2>1, MetaIs
  <2>6. Once(answerRow'[send.turn].meta.reasoning)
    BY <1>2, <1>3, <2>4, <2>5 DEF OnceRow
  <2>7. OnceSend'
    BY <1>3, <2>1 DEF OnceSend
  <2> QED
    BY <1>5, <2>6, <2>7
<1>12. CASE FinalWrite
  <2> DEFINE r == [status |-> "completed", text |-> FinalText(send.text, send.seen.text),
                   meta |-> [send.seen.meta EXCEPT !.final = TRUE]]
  <2>1. Update(send.turn, r) /\ send' = NoSend
    BY <1>12, EndTurnIs DEF FinalWrite
  <2>2. r.meta.reasoning = send.seen.meta.reasoning
    BY <1>1 DEF Metas
  <2> HIDE DEF r
  <2>3. OnceSend'
    BY <1>1, <2>1 DEF OnceSend
  <2> QED
    BY <1>3, <1>5, <1>6, <2>1, <2>2, <2>3 DEF OnceSend
<1>13. CASE FinalFails
  <2>1. PICK r \in {NoRow, [NoRow EXCEPT !.status = "failed"]} : Update(send.turn, r)
    BY <1>13 DEF FinalFails
  <2>2. r.meta.reasoning = <<>>
    BY <1>1 DEF NoRow
  <2>3. OnceSend'
    BY <1>1, <1>13, EndTurnIs DEF FinalFails, OnceSend
  <2> QED
    BY <1>1, <1>5, <1>6, <2>1, <2>2, <2>3
<1>14. CASE AppendFails
  <2>1. UNCHANGED answerRow /\ send' = NoSend
    BY <1>14 DEF AppendFails
  <2>2. OnceSend'
    BY <1>1, <2>1 DEF OnceSend
  <2> QED
    BY <1>5, <1>7, <2>1, <2>2
<1> QED
  BY <1>9, <1>10, <1>11, <1>12, <1>13, <1>14 DEF Sender

\* What the flush adds to a row is not in what it read.
LEMMA OnceFlusher ==
    ASSUME AnswerTypeOK, TurnsInv, PlaceInv, OnceInv, AnswerAssumption,
           Flusher \/ FlushFails \/ ContextFails
    PROVE  OnceInv'
<1>1. /\ answerRow \in [Turns -> AnswerRows] /\ reasoning \in [Turns -> Deltas]
      /\ flush \in FlushRecords /\ flush.seen \in Metas /\ flush.seen.reasoning \in Deltas
      /\ flush.todo \in Seq(Turns \X Deltas)
      /\ NoMeta.reasoning = <<>> /\ NoFlush.todo = <<>> /\ NoFlush.seen = NoMeta
      /\ Once(<<>>)
  BY EmptyIsTyped, EmptyHas DEF AnswerTypeOK, FlushRecords, Metas
<1>2. UNCHANGED send
  BY FlusherKeeps
<1>3. OnceSend /\ OnceFlush /\ \A u \in Turns : OnceRow(u)
  BY DEF OnceInv, OnceSend, OnceFlush, OnceRow
<1>4. flush.at \notin {"idle", "context"}
        => /\ flush.todo # <<>> /\ Current \in Turns /\ flush.todo[1][2] \in Deltas
           /\ 1 \in DOMAIN flush.todo
  BY <1>1 DEF TurnsInv, Current
<1>5. ASSUME OnceFlush', \A u \in Turns : OnceRow(u)'
      PROVE  OnceInv'
  <2>1. OnceSend'
    BY <1>2, <1>3 DEF OnceSend
  <2> QED
    BY <1>5, <2>1 DEF OnceInv, OnceSend, OnceFlush, OnceRow
<1>6. ASSUME UNCHANGED <<answerRow, reasoning>>
      PROVE  \A u \in Turns : OnceRow(u)'
  BY <1>3, <1>6 DEF OnceRow
<1>7. ASSUME NEW m, Once(m.reasoning), UNCHANGED reasoning, Current \in Turns,
             Update(Current, [answerRow[Current] EXCEPT !.meta = m])
      PROVE  \A u \in Turns : OnceRow(u)'
  <2>1. /\ answerRow'[Current].meta \in {answerRow[Current].meta, m}
        /\ \A u \in Turns : u # Current => answerRow'[u] = answerRow[u]
    BY <1>7, MetaIs
  <2> QED
    BY <1>3, <1>7, <2>1 DEF OnceRow
<1>8. ASSUME flush'.todo = <<>>, flush'.seen = NoMeta
      PROVE  OnceFlush'
  BY <1>1, <1>8 DEF OnceFlush
<1>9. ASSUME flush.at \notin {"idle", "context"}, GoOn(Tail(flush.todo), "free")
      PROVE  OnceFlush'
  <2>1. flush'.todo = Tail(flush.todo) /\ flush'.seen = NoMeta
    BY <1>9, GoOnIs
  <2>2. \A i \in DOMAIN flush'.todo : /\ i + 1 \in DOMAIN flush.todo /\ i \in Nat
                                      /\ flush'.todo[i] = flush.todo[i + 1]
    BY <1>1, <1>4, <1>9, <2>1, TailIs
  <2>3. ASSUME NEW i \in DOMAIN flush'.todo, NEW j \in DOMAIN flush'.todo,
               flush'.todo[i][1] = flush'.todo[j][1]
        PROVE  i = j
    <3>1. i + 1 = j + 1
      BY <1>3, <2>2, <2>3 DEF OnceFlush
    <3> QED
      BY <2>2, <3>1
  <2>4. \A i \in DOMAIN flush'.todo : Once(flush'.todo[i][2])
    BY <1>3, <2>2 DEF OnceFlush
  <2> QED
    BY <1>1, <2>1, <2>3, <2>4 DEF OnceFlush
<1>10. ASSUME flush'.todo = flush.todo, Once(flush'.seen.reasoning)
       PROVE  OnceFlush'
  BY <1>3, <1>10 DEF OnceFlush
<1>11. CASE FlushBegin
  <2>1. PICK todo \in Seq(Turns \X Deltas) :
          /\ GoOn(todo, ioLock)
          /\ \A i \in DOMAIN todo : todo[i][2] = reasoning[todo[i][1]]
          /\ \A i, j \in DOMAIN todo : todo[i][1] = todo[j][1] => i = j
    BY <1>11, TakenIs
  <2>2. flush'.todo = todo /\ flush'.seen = NoMeta
    BY <2>1, GoOnIs
  <2>3. \A i \in DOMAIN todo : todo[i][1] \in Turns
    BY <2>1
  <2>4. OnceFlush'
    BY <1>1, <1>3, <2>1, <2>2, <2>3 DEF OnceFlush, OnceRow
  <2>5. \A u \in Turns : OnceRow(u)'
    BY <1>1, <1>3, <1>11 DEF OnceRow, FlushBegin, TakenBuffers
  <2> QED
    BY <1>5, <2>4, <2>5
<1>12. CASE FlushLock
  <2>1. flush'.todo = flush.todo /\ flush'.seen = flush.seen /\ UNCHANGED <<
                                                                            answerRow,
                                                                            reasoning>>
    BY <1>1, <1>12 DEF FlushLock, FlushRecords
  <2> QED
    BY <1>3, <1>5, <1>6, <1>10, <2>1 DEF OnceFlush
<1>13. CASE FlushRead
  <2>1. CASE answerRow[Current].status = "none"
    BY <1>5, <1>6, <1>9, <1>13, <2>1 DEF FlushRead, Skip
  <2>2. CASE answerRow[Current].status # "none"
    <3>1. /\ flush'.todo = flush.todo /\ flush'.seen = answerRow[Current].meta
          /\ flush.at = "read" /\ UNCHANGED <<answerRow, reasoning>>
      BY <1>1, <1>13, <2>2 DEF FlushRead, FlushRecords
    <3>2. Once(flush'.seen.reasoning)
      BY <1>3, <1>4, <3>1 DEF OnceRow
    <3> QED
      BY <1>5, <1>6, <1>10, <3>1, <3>2
  <2> QED
    BY <2>1, <2>2
<1>14. CASE FlushWrite
  <2> DEFINE m == [flush.seen EXCEPT !.reasoning = @ \o flush.todo[1][2]]
  <2>1. /\ Update(Current, [answerRow[Current] EXCEPT !.meta = m])
        /\ GoOn(Tail(flush.todo), "free") /\ flush.at = "write" /\ UNCHANGED reasoning
    BY <1>14 DEF FlushWrite
  <2>2. m.reasoning = flush.seen.reasoning \o flush.todo[1][2]
    BY <1>1 DEF Metas
  <2>3. Elements(flush.seen.reasoning) \cap Elements(flush.todo[1][2]) = {}
    <3>1. /\ Elements(flush.seen.reasoning) \subseteq Stored(Current)
          /\ Elements(flush.todo[1][2]) \subseteq Flushed(Current)
      BY <1>4, <2>1 DEF Stored, FlushSeen, Flushed, Current
    <3> QED
      BY <1>4, <2>1, <3>1 DEF PlaceInv, AtOnePlace
  <2>4. Once(m.reasoning)
    BY <1>1, <1>3, <1>4, <2>1, <2>2, <2>3, JoinedHas DEF OnceFlush
  <2> HIDE DEF m
  <2>5. \A u \in Turns : OnceRow(u)'
    BY <1>4, <1>7, <2>1, <2>4
  <2> QED
    BY <1>5, <1>9, <2>1, <2>5
<1>15. CASE FlushFails
  <2>1. flush'.todo = <<>> /\ flush'.seen = NoMeta /\ UNCHANGED <<answerRow, reasoning>>
    BY <1>15, GoOnIs DEF FlushFails
  <2> QED
    BY <1>5, <1>6, <1>8, <2>1
<1>16. ASSUME NEW t \in Turns, ContextOf(t)
       PROVE  OnceInv'
  <2>1. /\ flush'.todo = <<<<t, <<>>>>>> /\ flush'.seen = flush.seen
        /\ UNCHANGED <<answerRow, reasoning>>
    BY <1>1, <1>16 DEF ContextOf, FlushRecords
  <2>2. OnceFlush'
    BY <1>1, <1>3, <2>1 DEF OnceFlush
  <2> QED
    BY <1>5, <1>6, <2>1, <2>2
<1>17. CASE ContextRead
  <2>1. CASE answerRow[Current].status = "none" \/ answerRow[Current].meta.window = flush.window
    <3>1. flush'.todo = <<>> /\ flush'.seen = NoMeta /\ UNCHANGED <<answerRow,
                                                                    reasoning>>
      BY <1>1, <1>17, <2>1 DEF ContextRead, LeaveRow, NoFlush
    <3> QED
      BY <1>5, <1>6, <1>8, <3>1
  <2>2. CASE ~(answerRow[Current].status = "none" \/ answerRow[Current].meta.window = flush.window)
    <3>1. /\ flush'.todo = flush.todo /\ flush'.seen = answerRow[Current].meta
          /\ flush.at = "look" /\ UNCHANGED <<answerRow, reasoning>>
      BY <1>1, <1>17, <2>2 DEF ContextRead, FlushRecords
    <3>2. Once(flush'.seen.reasoning)
      BY <1>3, <1>4, <3>1 DEF OnceRow
    <3> QED
      BY <1>5, <1>6, <1>10, <3>1, <3>2
  <2> QED
    BY <2>1, <2>2
<1>18. CASE ContextWrite
  <2> DEFINE m == [flush.seen EXCEPT !.window = flush.window]
  <2>1. /\ Update(Current, [answerRow[Current] EXCEPT !.meta = m])
        /\ flush'.todo = <<>> /\ flush'.seen = NoMeta /\ flush.at = "store"
        /\ UNCHANGED reasoning
    BY <1>18 DEF ContextWrite, LeaveRow, NoFlush
  <2>2. m.reasoning = flush.seen.reasoning
    BY <1>1 DEF Metas
  <2> HIDE DEF m
  <2>3. \A u \in Turns : OnceRow(u)'
    BY <1>3, <1>4, <1>7, <2>1, <2>2 DEF OnceFlush
  <2> QED
    BY <1>5, <1>8, <2>1, <2>3
<1>19. CASE ContextFails \/ FlushEnd
  <2>1. flush'.todo = <<>> /\ flush'.seen = NoMeta /\ UNCHANGED <<answerRow, reasoning>>
    BY <1>1, <1>19 DEF ContextFails, FlushEnd
  <2> QED
    BY <1>5, <1>6, <1>8, <2>1
<1> QED
  BY <1>11, <1>12, <1>13, <1>14, <1>15, <1>16, <1>17, <1>18, <1>19 DEF Flusher

LEMMA OnceStep ==
    ASSUME AnswerTypeOK, TurnsInv, PlaceInv, OnceInv, AnswerAssumption, AnswerNext
    PROVE  OnceInv'
BY OnceAsks, OnceSender, OnceFlusher DEF AnswerNext, Asks

-----------------------------------------------------------------------------
LEMMA InitHolds == ASSUME AnswerAssumption, AnswerInit PROVE RowInv
<1>1. /\ turns = {} /\ begun = {} /\ lost = {} /\ hitches = 0 /\ ioLock = "free"
      /\ answerRow = [t \in Turns |-> NoRow] /\ reasoning = [t \in Turns |-> <<>>]
      /\ stream = [t \in Turns |-> <<>>] /\ bridge = [c \in TurnChats |-> NoTurn]
      /\ chunks = [t \in Turns |-> 0] /\ pieces = [t \in Turns |-> 0]
      /\ apart \in BOOLEAN /\ named \in BOOLEAN /\ given = {}
      /\ send = NoSend /\ flush = NoFlush
      /\ {MaxChunks, MaxPieces, MaxHitches} \subseteq Nat /\ NoTurn \notin Turns
  BY DEF AnswerInit, AnswerAssumption, Turns, NoTurn
<1>2. /\ NoSend \in SendRecords /\ NoFlush \in FlushRecords
      /\ NoSend.at = "idle" /\ NoSend.turn = NoTurn /\ NoSend.delta = <<>>
      /\ NoSend.seen = NoRow /\ NoFlush.at = "idle" /\ NoFlush.todo = <<>>
      /\ NoFlush.seen = NoMeta /\ NoRow.meta = NoMeta /\ NoMeta.reasoning = <<>>
      /\ NoMeta.window = NoTurn
  BY EmptyIsTyped DEF SendRecords, FlushRecords
<1>3. AnswerTypeOK
  <2>1. /\ answerRow \in [Turns -> AnswerRows] /\ reasoning \in [Turns -> Deltas]
        /\ stream \in [Turns -> PieceSeqs] /\ bridge \in [TurnChats -> Turns \cup {NoTurn}]
        /\ chunks \in [Turns -> 0..MaxChunks] /\ pieces \in [Turns -> 0..MaxPieces]
        /\ hitches \in 0..MaxHitches
    BY <1>1, EmptyIsTyped
  <2>2. /\ ioLock = "send" <=> send.at \in {"append", "appended"}
        /\ ioLock = "flush" <=> flush.at \in {"read", "write", "look", "store"}
    BY <1>1, <1>2
  <2> QED
    BY <1>1, <1>2, <2>1, <2>2 DEF AnswerTypeOK, SendRecords, FlushRecords
<1>4. TurnsInv
  BY <1>1, <1>2 DEF TurnsInv
<1>5. WindowInv
  BY <1>1, <1>2 DEF WindowInv, OwnWindow
<1>6. TextInv
  BY <1>1, <1>2 DEF TextInv
<1>9. SourceInv
  BY <1>1, <1>2, EmptyIsTyped DEF SourceInv, OfKey
<1>7. PlaceInv
  <2>1. ASSUME NEW t \in Turns
        PROVE  /\ Buffered(t) = {} /\ Sent(t) = {} /\ Flushed(t) = {} /\ Stored(t) = {}
               /\ chunks[t] = 0
    BY <1>1, <1>2, EmptyHas DEF Buffered, Sent, Flushed, Stored, InRow, Seen, FlushSeen
  <2> QED
    BY <2>1 DEF PlaceInv, AtOnePlace
<1>8. OnceInv
  BY <1>1, <1>2, EmptyHas DEF OnceInv
<1> QED
  BY <1>3, <1>4, <1>5, <1>6, <1>7, <1>8, <1>9 DEF RowInv

LEMMA Stutter == ASSUME RowInv, UNCHANGED answerVars PROVE RowInv'
<1>1. UNCHANGED <<apart, named, turns, begun, chunks, pieces, given, answerRow, reasoning, stream,
                  bridge, ioLock, send, flush, lost, hitches>>
  BY DEF answerVars, turnVars
<1>2. AnswerTypeOK'
  BY <1>1 DEF RowInv, AnswerTypeOK
<1>3. TurnsInv' /\ WindowInv' /\ TextInv'
  BY <1>1 DEF RowInv, TurnsInv, WindowInv, TextInv, OwnWindow, ChatOfTurn, Current
<1>5. SourceInv'
  BY <1>1 DEF RowInv, SourceInv, OfKey, KeyOf, ChatOfTurn
<1>4. PlaceInv' /\ OnceInv'
  BY <1>1 DEF RowInv, PlaceInv, OnceInv, Buffered, Sent, Flushed, Stored, InRow, Seen,
              FlushSeen, Current
<1> QED
  BY <1>2, <1>3, <1>4, <1>5 DEF RowInv

LEMMA Step == ASSUME AnswerAssumption, RowInv, [AnswerNext]_answerVars PROVE RowInv'
<1>1. CASE AnswerNext
  <2>1. /\ AnswerTypeOK /\ TurnsInv /\ WindowInv /\ TextInv /\ SourceInv
        /\ PlaceInv /\ OnceInv
    BY DEF RowInv
  <2> QED
    BY <1>1, <2>1, TypesStep, TurnsStep, WindowStep, TextStep, SourceStep, PlaceStep, OnceStep
       DEF RowInv
<1> QED
  BY <1>1, Stutter

LEMMA InvHolds ==
    ASSUME AnswerAssumption
    PROVE  AnswerSpec => []RowInv
<1>1. AnswerInit => RowInv
  BY InitHolds
<1>2. RowInv /\ [AnswerNext]_answerVars => RowInv'
  BY Step
<1> QED
  BY <1>1, <1>2, PTL DEF AnswerSpec

\* The variables keep their types, and the lock is held by whom its holder says.
THEOREM TypeCorrect ==
    ASSUME AnswerAssumption
    PROVE  AnswerSpec => []AnswerTypeOK
<1>1. RowInv => AnswerTypeOK
  BY DEF RowInv
<1> QED
  BY <1>1, InvHolds, PTL

\* The row of an answer holds the reasoning, the window and the text of its turn,
\* whoever writes it and in which order (_flush_reasoning_loop, _finalize_turn and
\* _merge_tool_delivery): a completed row has a text if a tool, its final message or
\* the end of its stream brought one, and every text in it is one of its own turn.
THEOREM RowsHoldTheirTurn ==
    ASSUME AnswerAssumption
    PROVE  AnswerSpec => []AnswerHoldsItsTurn
<1>1. ASSUME RowInv
      PROVE  AnswerHoldsItsTurn
  <2>1. ReasoningOnce
    <3>1. SUFFICES ASSUME NEW t \in Turns
                   PROVE  /\ Once(answerRow[t].meta.reasoning)
                          /\ \A i \in DOMAIN answerRow[t].meta.reasoning :
                               answerRow[t].meta.reasoning[i] <= chunks[t]
      BY DEF ReasoningOnce
    <3>2. Once(answerRow[t].meta.reasoning) /\ chunks[t] \in Nat
      BY <1>1 DEF RowInv, OnceInv, AnswerTypeOK
    <3>3. \A i \in DOMAIN answerRow[t].meta.reasoning :
            answerRow[t].meta.reasoning[i] \in Elements(answerRow[t].meta.reasoning)
      BY DEF Elements
    <3>4. Elements(answerRow[t].meta.reasoning) \subseteq 1..chunks[t]
      BY <1>1 DEF RowInv, PlaceInv, AtOnePlace, Stored, InRow
    <3> QED
      BY <3>2, <3>3, <3>4
  <2>2. OwnWindow
    BY <1>1 DEF RowInv, WindowInv
  <2>3. AnswerIsThere
    <3>1. SUFFICES ASSUME NEW t \in given \ lost, answerRow[t].status = "completed"
                   PROVE  answerRow[t].text # <<>>
      BY DEF AnswerIsThere
    <3>2. t \in Turns
      BY <1>1, <3>1 DEF RowInv, AnswerTypeOK
    <3>3. send.turn # t
      BY <1>1, <3>1, <3>2, EmptyIsTyped DEF RowInv, TurnsInv, Turns, NoTurn
    <3> QED
      BY <1>1, <3>1, <3>2, <3>3 DEF RowInv, TextInv
  <2>4. TextIsOwn
    BY <1>1 DEF RowInv, SourceInv, OfKey, KeyOf, TextIsOwn
  <2> QED
    BY <2>1, <2>2, <2>3, <2>4 DEF AnswerHoldsItsTurn
<1> QED
  BY <1>1, InvHolds, PTL

=============================================================================
