---------------------------- MODULE RedisChannel ----------------------------
(***************************************************************************)
(* RedisChannel (lib/channels/redis_channel.py): messages are taken from   *)
(* one list and put on the bus; what the agent sends goes to a list of the *)
(* chat, with the id of the message it is taken to answer.                 *)
(***************************************************************************)
EXTENDS Integers, Sequences, SequencesExt

CONSTANTS
    NumMessages,
    MaxSizes,   \* what reply_to_max_size may be
    TrimTo,     \* reply_to_trim_to
    MaxSends,   \* bound: what the agent sends for one message
    MaxBreaks   \* bound: crashes and failing calls

RedisAssumption ==
    {NumMessages, TrimTo, MaxSends, MaxBreaks} \subseteq Nat /\ MaxSizes \subseteq Nat

Messages == 1..NumMessages
NoId == 0
Chats == {"odd", "even"}

VARIABLES
    mixed,         \* there are two chats
    patient,       \* a chat sends its next message when the turn of the last is over
    maxSize,       \* reply_to_max_size
    inbox,
    polled,        \* the message between BRPOP and the bus, or NoId
    bus,           \* the messages of the agent, in the order of their arrival
    replyTo,       \* _reply_to_map, in the order of the dictionary
    outbox,        \* what was written: the message it is about, and the id it names
    sent,          \* the messages that were sent by the chats: a prefix of all
    over,          \* messages whose turn ended, and those that were lost
    sends, breaks

agent == <<mixed, patient, maxSize, sends>>
redisVars == <<agent, inbox, polled, bus, replyTo, outbox, sent, over, breaks>>

ChatOf(m) == IF mixed /\ m % 2 = 0 THEN "even" ELSE "odd"
Entry == [chat : Chats, id : Messages]

RedisTypeOK ==
    /\ mixed \in BOOLEAN /\ patient \in BOOLEAN /\ maxSize \in MaxSizes
    /\ inbox \in Seq(Messages) /\ bus \in Seq(Messages)
    /\ polled \in Messages \cup {NoId}
    /\ replyTo \in Seq(Entry)
    /\ \A i, j \in DOMAIN replyTo : replyTo[i].chat = replyTo[j].chat => i = j
    /\ outbox \subseteq [of : Messages, number : 1..MaxSends, names : Messages \cup {NoId}]
    /\ sent \in 0..NumMessages /\ over \subseteq 1..sent
    /\ sends \in [Messages -> 0..MaxSends] /\ breaks \in 0..MaxBreaks

Break == breaks < MaxBreaks /\ breaks' = breaks + 1

\* The entry of a chat: there is one at most.
PlacesOf(c) == {i \in DOMAIN replyTo : replyTo[i].chat = c}
Named(c) == {replyTo[i].id : i \in PlacesOf(c)}
Without(c) ==
    IF PlacesOf(c) = {} THEN replyTo ELSE RemoveAt(replyTo, CHOOSE i \in PlacesOf(c) : TRUE)

-----------------------------------------------------------------------------
Push ==
    /\ sent < NumMessages
    /\ patient => \A m \in 1..sent : ChatOf(m) = ChatOf(sent + 1) => m \in over
    /\ sent' = sent + 1
    /\ inbox' = <<sent + 1>> \o inbox
    /\ UNCHANGED <<agent, polled, bus, replyTo, outbox, over, breaks>>

New(m) == [chat |-> ChatOf(m), id |-> m]

\* Variant: an id that is in the map stays.
NotedFirst(m) == IF Named(ChatOf(m)) = {} THEN Append(replyTo, New(m)) ELSE replyTo
\* An entry that exists keeps its place in the dictionary.
Noted(m) ==
    IF Named(ChatOf(m)) = {} THEN Append(replyTo, New(m))
    ELSE [i \in DOMAIN replyTo |->
            IF replyTo[i].chat = ChatOf(m) THEN New(m) ELSE replyTo[i]]

\* poll_inbound up to its first await after BRPOP; a message that is not JSON
\* is gone.
Poll ==
    /\ polled = NoId /\ inbox # <<>>
    /\ inbox' = Front(inbox)
    /\ \/ polled' = Last(inbox) /\ replyTo' = Noted(Last(inbox))
          /\ UNCHANGED <<over, breaks>>
       \/ Break /\ over' = over \cup {Last(inbox)} /\ UNCHANGED <<polled, replyTo>>
    /\ UNCHANGED <<agent, bus, outbox, sent>>

Trimmed(map) ==
    IF Len(map) > maxSize /\ Len(map) > TrimTo
    THEN SubSeq(map, Len(map) - TrimTo + 1, Len(map)) ELSE map

\* _handle_message, then the slot is released and the map is trimmed.  A failure to
\* keep the files of the message comes before that and leaves the map.
Dispatch ==
    /\ polled # NoId
    /\ polled' = NoId
    /\ \/ bus' = Append(bus, polled) /\ replyTo' = Trimmed(replyTo)
          /\ UNCHANGED <<over, breaks>>
       \/ /\ Break /\ over' = over \cup {polled}
          /\ replyTo' \in {Trimmed(Without(ChatOf(polled))), replyTo} /\ UNCHANGED bus
    /\ UNCHANGED <<agent, inbox, outbox, sent>>

\* The agent takes the messages of a chat one after the other.
IsTurn(i, m) == bus[i] = m /\ \A j \in 1..i-1 : ChatOf(bus[j]) # ChatOf(m)
Turn(m) == \E i \in DOMAIN bus : IsTurn(i, m)

\* Variant: the id stays in the map.
KeptAfter(c) == replyTo
LeftAfter(c) == Without(c)

\* send: the id is taken before the write, which may fail; an answer, a message
\* of a tool or an event.  One that comes with a reply_to of its own, which nobody in
\* src/ sets, leaves the map and is not among outbox: a step that changes nothing here.
Send(m) ==
    /\ Turn(m) /\ sends[m] < MaxSends
    /\ sends' = [sends EXCEPT ![m] = @ + 1]
    /\ replyTo' = LeftAfter(ChatOf(m))
    /\ \/ /\ \E id \in IF Named(ChatOf(m)) = {} THEN {NoId} ELSE Named(ChatOf(m)) :
               outbox' = outbox \cup {[of |-> m, number |-> sends'[m], names |-> id]}
          /\ UNCHANGED breaks
       \/ Break /\ UNCHANGED outbox
    /\ UNCHANGED <<mixed, patient, maxSize, inbox, polled, bus, sent, over>>

TurnEnds(m) ==
    /\ \E i \in DOMAIN bus : IsTurn(i, m) /\ bus' = RemoveAt(bus, i)
    /\ over' = over \cup {m}
    /\ UNCHANGED <<agent, inbox, polled, replyTo, outbox, sent, breaks>>

\* A crash or a stop, and a new start: only the lists stay.
Restart ==
    /\ Break
    /\ polled' = NoId /\ bus' = <<>> /\ replyTo' = <<>>
    /\ over' = 1..sent \ {inbox[i] : i \in DOMAIN inbox}
    /\ UNCHANGED <<agent, inbox, outbox, sent>>

-----------------------------------------------------------------------------
RedisInit ==
    /\ mixed \in BOOLEAN /\ patient \in BOOLEAN /\ maxSize \in MaxSizes
    /\ inbox = <<>> /\ polled = NoId /\ bus = <<>> /\ replyTo = <<>> /\ outbox = {}
    /\ sent = 0 /\ over = {} /\ sends = [m \in Messages |-> 0] /\ breaks = 0

RedisNext ==
    \/ Push \/ Poll \/ Dispatch \/ Restart
    \/ \E m \in Messages : Send(m) \/ TurnEnds(m)

RedisSpec == RedisInit /\ [][RedisNext]_redisVars

-----------------------------------------------------------------------------
\* Properties.

\* No id is named twice, over restarts, failing writes and further messages of
\* a turn.
NamedOnce == \A x, y \in outbox : x.names = y.names /\ x.names # NoId => x = y

\* A chat that waits for the end of a turn never gets an answer in the name of
\* another message, and the first answer names its message while the map is
\* not trimmed.
NamesItsOwn == patient => \A x \in outbox :
    /\ x.names \in {x.of, NoId}
    /\ x.number = 1 /\ maxSize >= 2 => x.names = x.of

\* What is written names the message that it answers, and that once.
AnswersOwn == NamedOnce /\ NamesItsOwn

=============================================================================
