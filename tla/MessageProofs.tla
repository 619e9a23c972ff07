---------------------------- MODULE MessageProofs ----------------------------
(***************************************************************************)
(* Theorems about the way of a message: RedisChannel brings it to the      *)
(* agent and the answers to their chat, for any number of messages, sizes  *)
(* of the map, messages of the agent, crashes and failing calls; TurnHooks *)
(* is what its turn leaves, for any number of questions, sessions,         *)
(* commands, subagents, tool calls and failures.                           *)
(***************************************************************************)
EXTENDS RedisChannel, TurnHooks, SequenceTheorems, TLAPS

-----------------------------------------------------------------------------
\* RedisChannel.
\* The invariant.

Elements(s) == {s[i] : i \in DOMAIN s}
Once(s) == \A i, j \in DOMAIN s : s[i] = s[j] => i = j

\* An id is at one place only: in the list, in the map, or written.
IdsInv ==
    /\ Elements(inbox) \subseteq 1..sent /\ Once(inbox)
    /\ \A e \in Elements(replyTo) :
         /\ e.id \in (1..sent) \ Elements(inbox) /\ e.chat = ChatOf(e.id)
         /\ \A x \in outbox : x.names # e.id
    /\ \A x \in outbox : x.names # NoId => x.names \in (1..sent) \ Elements(inbox)

\* So is a message until its turn is over.
PlacesInv ==
    /\ Elements(bus) \subseteq 1..sent /\ Once(bus)
    /\ polled \in (1..sent) \cup {NoId}
    /\ Elements(bus) \cap Elements(inbox) = {}
    /\ polled \notin Elements(bus) \cup Elements(inbox)
    /\ over \cap (Elements(bus) \cup Elements(inbox) \cup {polled}) = {}

\* The message whose answer a chat waits for, and what the map has of it.
Taken == Elements(bus) \cup ({polled} \ {NoId})
Unanswered(m) == sends[m] = 0 /\ maxSize >= 2
PatientInv ==
    patient =>
      /\ \A m, n \in (1..sent) \ over : ChatOf(m) = ChatOf(n) => m = n
      /\ \A m \in Taken :
           /\ \A e \in Elements(replyTo) : e.chat = ChatOf(m) => e.id = m
           /\ Unanswered(m) => \E e \in Elements(replyTo) : e.chat = ChatOf(m)

ChannelInv ==
    RedisTypeOK /\ IdsInv /\ PlacesInv /\ PatientInv /\ NamedOnce /\ NamesItsOwn

-----------------------------------------------------------------------------
\* Sequences: what they have when something is added at an end or taken out.

\* t is s without some of its elements.
Part(t, s) ==
    \E p \in [DOMAIN t -> DOMAIN s] :
      /\ \A i, j \in DOMAIN t : p[i] = p[j] => i = j
      /\ \A i \in DOMAIN t : t[i] = s[p[i]]

LEMMA PartHasLess ==
    ASSUME NEW t, NEW s, Part(t, s)
    PROVE  Elements(t) \subseteq Elements(s) /\ (Once(s) => Once(t))
BY DEF Part, Elements, Once

LEMMA Removal ==
    ASSUME NEW S, NEW s \in Seq(S), NEW i \in DOMAIN s
    PROVE  /\ RemoveAt(s, i) \in Seq(S) /\ Part(RemoveAt(s, i), s)
           /\ \A k \in DOMAIN s : k # i => s[k] \in Elements(RemoveAt(s, i))
           /\ Once(s) => s[i] \notin Elements(RemoveAt(s, i))
<1> DEFINE t == RemoveAt(s, i)
           Place(j) == IF j < i THEN j ELSE j + 1
           p == [j \in DOMAIN t |-> Place(j)]
<1>1. i \in 1..Len(s) /\ Len(s) \in Nat
  OBVIOUS
<1>2. /\ t \in Seq(S) /\ Len(t) = Len(s) - 1
      /\ \A j \in 1..(Len(s) - 1) : t[j] = s[Place(j)]
  <2> DEFINE a == SubSeq(s, 1, i - 1)
             b == SubSeq(s, i + 1, Len(s))
  <2>1. /\ a \in Seq(S) /\ Len(a) = i - 1 /\ \A j \in 1..(i - 1) : a[j] = s[j]
    BY <1>1
  <2>2. /\ b \in Seq(S) /\ Len(b) = Len(s) - i
        /\ \A j \in 1..(Len(s) - i) : b[j] = s[i + j]
    BY <1>1
  <2>3. t = a \o b
    BY DEF RemoveAt
  <2> HIDE DEF a, b, t
  <2>4. /\ t \in Seq(S) /\ Len(t) = Len(a) + Len(b)
        /\ \A j \in 1..Len(t) : t[j] = IF j <= Len(a) THEN a[j] ELSE b[j - Len(a)]
    <3>1. a \in Seq(S) /\ b \in Seq(S)
      BY <2>1, <2>2
    <3> QED
      BY <2>3, <3>1, ConcatProperties
  <2>5. Len(t) = Len(s) - 1
    BY <1>1, <2>1, <2>2, <2>4
  <2>6. ASSUME NEW j \in 1..(Len(s) - 1)
        PROVE  t[j] = s[Place(j)]
    <3>1. CASE j < i
      BY <1>1, <2>1, <2>4, <2>5, <3>1
    <3>2. CASE ~(j < i)
      <4>1. /\ ~(j <= Len(a)) /\ j - Len(a) \in 1..(Len(s) - i)
            /\ i + (j - Len(a)) = j + 1
        BY <1>1, <2>1, <3>2
      <4>2. t[j] = b[j - Len(a)]
        BY <2>4, <2>5, <4>1
      <4> QED
        BY <2>2, <3>2, <4>1, <4>2
    <3> QED
      BY <3>1, <3>2
  <2> QED
    BY <2>4, <2>5, <2>6
<1> HIDE DEF t
<1>3. DOMAIN t = 1..(Len(s) - 1) /\ DOMAIN s = 1..Len(s)
  BY <1>1, <1>2
<1>4. /\ p \in [DOMAIN t -> DOMAIN s]
      /\ \A j \in DOMAIN t : t[j] = s[p[j]] /\ p[j] # i
      /\ \A j, k \in DOMAIN t : p[j] = p[k] => j = k
  BY <1>1, <1>2, <1>3
<1>5. Part(t, s)
  BY <1>4 DEF Part
<1>6. ASSUME NEW k \in DOMAIN s, k # i
      PROVE  s[k] \in Elements(t)
  <2>1. CASE k < i
    <3>1. k \in DOMAIN t /\ t[k] = s[k]
      BY <1>1, <1>2, <1>3, <2>1
    <3> QED
      BY <3>1 DEF Elements
  <2>2. CASE k > i
    <3>1. k - 1 \in 1..(Len(s) - 1) /\ Place(k - 1) = k
      BY <1>1, <1>3, <2>2
    <3>2. k - 1 \in DOMAIN t /\ t[k - 1] = s[k]
      BY <1>2, <1>3, <3>1
    <3> QED
      BY <3>2 DEF Elements
  <2> QED
    BY <1>1, <1>3, <1>6, <2>1, <2>2
<1>7. Once(s) => s[i] \notin Elements(t)
  BY <1>4 DEF Once, Elements
<1> QED
  BY <1>2, <1>5, <1>6, <1>7 DEF t

LEMMA Suffix ==
    ASSUME NEW S, NEW s \in Seq(S), NEW n \in Nat, n < Len(s)
    PROVE  /\ SubSeq(s, Len(s) - n + 1, Len(s)) \in Seq(S)
           /\ Part(SubSeq(s, Len(s) - n + 1, Len(s)), s)
<1> DEFINE t == SubSeq(s, Len(s) - n + 1, Len(s))
           p == [j \in DOMAIN t |-> j + (Len(s) - n)]
<1>1. /\ t \in Seq(S) /\ Len(t) = n /\ \A j \in 1..n : t[j] = s[j + (Len(s) - n)]
  OBVIOUS
<1> HIDE DEF t
<1>2. DOMAIN t = 1..n /\ DOMAIN s = 1..Len(s) /\ Len(s) \in Nat
  BY <1>1
<1>3. /\ p \in [DOMAIN t -> DOMAIN s]
      /\ \A j \in DOMAIN t : t[j] = s[p[j]]
      /\ \A j, k \in DOMAIN t : p[j] = p[k] => j = k
  BY <1>1, <1>2
<1> QED
  BY <1>1, <1>3 DEF Part, t

LEMMA AddedAtEnd ==
    ASSUME NEW S, NEW s \in Seq(S), NEW x \in S
    PROVE  /\ Append(s, x) \in Seq(S)
           /\ Elements(Append(s, x)) = Elements(s) \cup {x}
           /\ Once(s) /\ x \notin Elements(s) => Once(Append(s, x))
<1> DEFINE t == Append(s, x)
<1>1. /\ t \in Seq(S) /\ DOMAIN t = 1..(Len(s) + 1) /\ DOMAIN s = 1..Len(s) /\ Len(s) \in Nat
      /\ t[Len(s) + 1] = x /\ \A i \in 1..Len(s) : t[i] = s[i]
  OBVIOUS
<1> HIDE DEF t
<1>2. Elements(t) = Elements(s) \cup {x}
  BY <1>1 DEF Elements
<1>3. Once(s) /\ x \notin Elements(s) => Once(t)
  BY <1>1 DEF Once, Elements
<1> QED
  BY <1>1, <1>2, <1>3 DEF t

LEMMA AddedInFront ==
    ASSUME NEW S, NEW s \in Seq(S), NEW x \in S
    PROVE  /\ <<x>> \o s \in Seq(S)
           /\ Elements(<<x>> \o s) = Elements(s) \cup {x}
           /\ Once(s) /\ x \notin Elements(s) => Once(<<x>> \o s)
<1> DEFINE t == <<x>> \o s
<1>1. /\ t \in Seq(S) /\ DOMAIN t = 1..(Len(s) + 1) /\ DOMAIN s = 1..Len(s) /\ Len(s) \in Nat
      /\ t[1] = x /\ \A i \in 1..Len(s) : t[i + 1] = s[i]
  OBVIOUS
<1> HIDE DEF t
<1>2. \A j \in DOMAIN t : j = 1 \/ (j - 1 \in DOMAIN s /\ t[j] = s[j - 1])
  BY <1>1
<1>3. Elements(t) = Elements(s) \cup {x}
  <2>1. Elements(t) \subseteq Elements(s) \cup {x}
    BY <1>1, <1>2 DEF Elements
  <2>2. \A i \in DOMAIN s : i + 1 \in DOMAIN t /\ t[i + 1] = s[i]
    BY <1>1
  <2>3. Elements(s) \cup {x} \subseteq Elements(t)
    BY <1>1, <2>2 DEF Elements
  <2> QED
    BY <2>1, <2>3
<1>4. ASSUME Once(s), x \notin Elements(s), NEW i \in DOMAIN t, NEW j \in DOMAIN t, t[i] = t[j]
      PROVE  i = j
  <2>1. CASE i = 1 /\ j = 1
    BY <2>1
  <2>2. CASE i = 1 /\ j # 1
    BY <1>1, <1>2, <1>4, <2>2 DEF Elements
  <2>3. CASE i # 1 /\ j = 1
    BY <1>1, <1>2, <1>4, <2>3 DEF Elements
  <2>4. CASE i # 1 /\ j # 1
    <3>1. i - 1 = j - 1
      BY <1>2, <1>4, <2>4 DEF Once
    <3> QED
      BY <1>1, <3>1
  <2> QED
    BY <2>1, <2>2, <2>3, <2>4
<1> QED
  BY <1>1, <1>3, <1>4 DEF t, Once

LEMMA TakenFromEnd ==
    ASSUME NEW S, NEW s \in Seq(S), s # <<>>
    PROVE  /\ Front(s) \in Seq(S) /\ Last(s) \in Elements(s)
           /\ Elements(Front(s)) \subseteq Elements(s)
           /\ Once(s) => Once(Front(s)) /\ Last(s) \notin Elements(Front(s))
<1> DEFINE t == Front(s)
<1>1. /\ Len(s) \in Nat \ {0} /\ DOMAIN s = 1..Len(s)
      /\ t \in Seq(S) /\ DOMAIN t = 1..(Len(s) - 1) /\ \A i \in 1..(Len(s) - 1) : t[i] = s[i]
  BY DEF Front
<1> HIDE DEF t
<1>2. Last(s) = s[Len(s)] /\ Len(s) \in DOMAIN s
  BY <1>1 DEF Last
<1>3. Last(s) \in Elements(s) /\ Elements(t) \subseteq Elements(s)
  BY <1>1, <1>2 DEF Elements
<1>4. Once(s) => Once(t) /\ Last(s) \notin Elements(t)
  BY <1>1, <1>2 DEF Once, Elements
<1> QED
  BY <1>1, <1>3, <1>4 DEF t

-----------------------------------------------------------------------------
\* The map: one entry of a chat, and what becomes of the entries.

IsMap(map) ==
    /\ map \in Seq(Entry)
    /\ \A i, j \in DOMAIN map : map[i].chat = map[j].chat => i = j

LEMMA EntriesOfMap ==
    ASSUME NEW map, IsMap(map)
    PROVE  /\ Elements(map) \subseteq Entry
           /\ \A e, f \in Elements(map) : e.chat = f.chat => e = f
BY DEF IsMap, Elements

LEMMA ChatIsOne ==
    ASSUME NEW m
    PROVE  ChatOf(m) \in Chats
BY DEF ChatOf, Chats

\* What the map has of a chat.
LEMMA NamedIs ==
    ASSUME NEW c
    PROVE  /\ Named(c) = {e.id : e \in {x \in Elements(replyTo) : x.chat = c}}
           /\ PlacesOf(c) = {} <=> Named(c) = {}
BY DEF Named, PlacesOf, Elements

LEMMA PartOfMap ==
    ASSUME NEW s, NEW t \in Seq(Entry), IsMap(s), Part(t, s)
    PROVE  IsMap(t) /\ Elements(t) \subseteq Elements(s)
<1>1. PICK p \in [DOMAIN t -> DOMAIN s] :
             /\ \A i, j \in DOMAIN t : p[i] = p[j] => i = j
             /\ \A i \in DOMAIN t : t[i] = s[p[i]]
  BY DEF Part
<1>2. ASSUME NEW i \in DOMAIN t, NEW j \in DOMAIN t, t[i].chat = t[j].chat
      PROVE  i = j
  <2>1. p[i] \in DOMAIN s /\ p[j] \in DOMAIN s /\ s[p[i]].chat = s[p[j]].chat
    BY <1>1, <1>2
  <2>2. p[i] = p[j]
    BY <2>1 DEF IsMap
  <2> QED
    BY <1>1, <1>2, <2>2
<1> QED
  BY <1>2, PartHasLess DEF IsMap

LEMMA WithoutIs ==
    ASSUME IsMap(replyTo), NEW c
    PROVE  /\ IsMap(Without(c))
           /\ Elements(Without(c)) = {e \in Elements(replyTo) : e.chat # c}
<1>1. CASE PlacesOf(c) = {}
  <2>1. \A e \in Elements(replyTo) : e.chat # c
    BY <1>1 DEF PlacesOf, Elements
  <2> QED
    BY <1>1, <2>1 DEF Without
<1>2. CASE PlacesOf(c) # {}
  <2> DEFINE i == CHOOSE k \in PlacesOf(c) : TRUE
  <2>1. i \in PlacesOf(c)
    BY <1>2
  <2>2. Without(c) = RemoveAt(replyTo, i)
    BY <1>2 DEF Without
  <2> HIDE DEF i
  <2>3. i \in DOMAIN replyTo /\ replyTo[i].chat = c /\ replyTo \in Seq(Entry)
    BY <2>1 DEF PlacesOf, IsMap
  <2>4. /\ Without(c) \in Seq(Entry) /\ Part(Without(c), replyTo)
        /\ \A k \in DOMAIN replyTo : k # i => replyTo[k] \in Elements(Without(c))
        /\ Once(replyTo) => replyTo[i] \notin Elements(Without(c))
    BY <2>2, <2>3, Removal
  <2>5. Once(replyTo)
    BY DEF IsMap, Once
  <2>6. IsMap(Without(c)) /\ Elements(Without(c)) \subseteq Elements(replyTo)
    BY <2>4, PartOfMap
  <2>7. \A k \in DOMAIN replyTo : k # i => replyTo[k].chat # c
    BY <2>3 DEF IsMap
  <2>8. \A e \in Elements(replyTo) : e.chat # c <=> e # replyTo[i]
    BY <2>3, <2>5, <2>7 DEF Elements
  <2>9. {e \in Elements(replyTo) : e.chat # c} \subseteq Elements(Without(c))
    BY <2>3, <2>4 DEF Elements
  <2> QED
    BY <2>4, <2>5, <2>6, <2>8, <2>9
<1> QED
  BY <1>1, <1>2

LEMMA NotedIs ==
    ASSUME IsMap(replyTo), NEW m \in Messages
    PROVE  /\ IsMap(Noted(m))
           /\ Elements(Noted(m))
                = {New(m)} \cup {e \in Elements(replyTo) : e.chat # ChatOf(m)}
<1>1. New(m) \in Entry /\ New(m).chat = ChatOf(m) /\ New(m).id = m
  BY ChatIsOne DEF New, Entry
<1>2. CASE Named(ChatOf(m)) = {}
  <2>1. \A e \in Elements(replyTo) : e.chat # ChatOf(m)
    BY <1>2, NamedIs
  <2>2. Noted(m) = Append(replyTo, New(m))
    BY <1>2 DEF Noted
  <2>3. /\ DOMAIN Noted(m) = 1..(Len(replyTo) + 1) /\ DOMAIN replyTo = 1..Len(replyTo)
        /\ Noted(m)[Len(replyTo) + 1] = New(m) /\ Len(replyTo) \in Nat
        /\ \A i \in 1..Len(replyTo) : Noted(m)[i] = replyTo[i]
        /\ Noted(m) \in Seq(Entry)
    BY <1>1, <2>2 DEF IsMap
  <2>4. \A i \in DOMAIN Noted(m) : i \in DOMAIN replyTo \/ i = Len(replyTo) + 1
    BY <2>3
  <2>5. \A i \in DOMAIN replyTo : replyTo[i].chat # ChatOf(m)
    BY <2>1 DEF Elements
  <2>6. IsMap(Noted(m))
    BY <1>1, <2>3, <2>4, <2>5 DEF IsMap
  <2>7. Elements(Noted(m)) = Elements(replyTo) \cup {New(m)}
    BY <1>1, <2>2, AddedAtEnd DEF IsMap
  <2> QED
    BY <2>1, <2>6, <2>7
<1>3. CASE Named(ChatOf(m)) # {}
  <2>1. PICK k \in DOMAIN replyTo : replyTo[k].chat = ChatOf(m)
    BY <1>3 DEF Named, PlacesOf
  <2>2. Noted(m) = [i \in DOMAIN replyTo |-> IF replyTo[i].chat = ChatOf(m) THEN New(m)
                                              ELSE replyTo[i]]
    BY <1>3 DEF Noted
  <2>3. /\ DOMAIN Noted(m) = DOMAIN replyTo /\ replyTo \in Seq(Entry)
        /\ \A i \in DOMAIN replyTo :
             Noted(m)[i] = IF replyTo[i].chat = ChatOf(m) THEN New(m) ELSE replyTo[i]
    BY <2>2 DEF IsMap
  <2>4. Noted(m) \in Seq(Entry)
    <3>1. /\ DOMAIN replyTo = 1..Len(replyTo) /\ Len(replyTo) \in Nat
          /\ \A i \in 1..Len(replyTo) : replyTo[i] \in Entry
      BY <2>3
    <3>2. Noted(m) \in [1..Len(replyTo) -> Entry]
      BY <1>1, <2>2, <3>1
    <3> QED
      BY <3>1, <3>2
  <2>5. \A i \in DOMAIN replyTo : Noted(m)[i].chat = replyTo[i].chat
    BY <1>1, <2>3
  <2>6. IsMap(Noted(m))
    BY <2>3, <2>4, <2>5 DEF IsMap
  <2>7. Elements(Noted(m))
          = {New(m)} \cup {e \in Elements(replyTo) : e.chat # ChatOf(m)}
    BY <1>1, <2>1, <2>3 DEF Elements
  <2> QED
    BY <2>6, <2>7
<1> QED
  BY <1>2, <1>3

\* With two chats a map of at least two entries is never too long.
LEMMA TrimmedIs ==
    ASSUME RedisAssumption, RedisTypeOK, NEW map, IsMap(map)
    PROVE  /\ IsMap(Trimmed(map)) /\ Elements(Trimmed(map)) \subseteq Elements(map)
           /\ maxSize >= 2 => Trimmed(map) = map
<1>1. map \in Seq(Entry) /\ Len(map) \in Nat /\ maxSize \in Nat /\ TrimTo \in Nat
  BY DEF IsMap, RedisTypeOK, RedisAssumption
<1>2. Len(map) <= 2
  <2> SUFFICES ASSUME Len(map) > 2
               PROVE  FALSE
    BY <1>1
  <2>1. 1 \in DOMAIN map /\ 2 \in DOMAIN map /\ 3 \in DOMAIN map
    BY <1>1
  <2>2. map[1] \in Entry /\ map[2] \in Entry /\ map[3] \in Entry
    BY <1>1, <2>1
  <2>3. map[1].chat \in Chats /\ map[2].chat \in Chats /\ map[3].chat \in Chats
    BY <2>2 DEF Entry
  <2> QED
    BY <2>1, <2>3 DEF IsMap, Chats
<1>3. CASE Len(map) > maxSize /\ Len(map) > TrimTo
  <2>1. Trimmed(map) = SubSeq(map, Len(map) - TrimTo + 1, Len(map))
    BY <1>3 DEF Trimmed
  <2>2. Trimmed(map) \in Seq(Entry) /\ Part(Trimmed(map), map)
    BY <1>1, <1>3, <2>1, Suffix
  <2> QED
    BY <1>1, <1>2, <1>3, <2>2, PartOfMap
<1>4. CASE ~(Len(map) > maxSize /\ Len(map) > TrimTo)
  BY <1>4 DEF Trimmed
<1> QED
  BY <1>3, <1>4

-----------------------------------------------------------------------------
\* Every action keeps the invariant.

LEMMA MapIsMap ==
    ASSUME RedisTypeOK
    PROVE  IsMap(replyTo)
BY DEF RedisTypeOK, IsMap

\* What is written stays right if nothing is written.
LEMMA WrittenStays ==
    ASSUME ChannelInv, UNCHANGED <<patient, maxSize, outbox>>
    PROVE  NamedOnce' /\ NamesItsOwn'
BY DEF ChannelInv, NamedOnce, NamesItsOwn

\* What holds of the map stays if it only loses entries and no chat waits for more.
LEMMA IdsStay ==
    ASSUME ChannelInv, UNCHANGED <<mixed, maxSize, inbox, outbox, sent>>,
           Elements(replyTo') \subseteq Elements(replyTo)
    PROVE  IdsInv'
<1>1. \A m : ChatOf(m)' = ChatOf(m)
  BY DEF ChatOf
<1> QED
  BY <1>1 DEF ChannelInv, IdsInv

LEMMA PushKeeps ==
    ASSUME RedisAssumption, ChannelInv, Push
    PROVE  ChannelInv'
<1> USE DEF ChannelInv, Push, agent
<1>1. /\ sent \in Nat /\ NumMessages \in Nat /\ sent + 1 \in Messages
      /\ sent + 1 \notin 1..sent /\ sent + 1 \in 1..(sent + 1) /\ sent + 1 # NoId
      /\ 1..sent \subseteq 1..(sent + 1) /\ 1..(sent + 1) \subseteq (1..sent) \cup {sent + 1}
  BY DEF RedisTypeOK, RedisAssumption, Messages, NoId
<1>2. /\ inbox' \in Seq(Messages)
      /\ Elements(inbox') = Elements(inbox) \cup {sent + 1}
      /\ Once(inbox')
  BY <1>1, AddedInFront DEF RedisTypeOK, IdsInv
<1>3. RedisTypeOK'
  BY <1>1, <1>2 DEF RedisTypeOK, RedisAssumption
<1>4. \A m : ChatOf(m)' = ChatOf(m)
  BY DEF ChatOf
<1>5. IdsInv'
  BY <1>1, <1>2, <1>4 DEF IdsInv
<1>6. PlacesInv'
  BY <1>1, <1>2 DEF PlacesInv, RedisTypeOK
<1>7. PatientInv'
  <2> SUFFICES ASSUME patient
               PROVE  /\ \A m, n \in ((1..sent) \ over)' : ChatOf(m)' = ChatOf(n)' => m = n
                      /\ \A m \in Taken' :
                           /\ \A e \in Elements(replyTo)' : e.chat = ChatOf(m)' => e.id = m
                           /\ Unanswered(m)' =>
                                \E e \in Elements(replyTo)' : e.chat = ChatOf(m)'
    BY DEF PatientInv
  <2>1. \A m, n \in ((1..sent) \ over)' : ChatOf(m)' = ChatOf(n)' => m = n
    BY <1>1, <1>4 DEF PatientInv
  <2>2. Taken' = Taken /\ \A m : Unanswered(m)' = Unanswered(m)
    BY DEF Taken, Unanswered
  <2> QED
    BY <1>4, <2>1, <2>2 DEF PatientInv
<1> QED
  BY <1>3, <1>5, <1>6, <1>7, WrittenStays

LEMMA PollKeeps ==
    ASSUME RedisAssumption, ChannelInv, Poll
    PROVE  ChannelInv'
<1> USE DEF ChannelInv, agent
<1> DEFINE new == Last(inbox)
<1>1. /\ polled = NoId /\ inbox # <<>> /\ inbox' = Front(inbox) /\ inbox \in Seq(Messages)
      /\ UNCHANGED <<mixed, patient, maxSize, sends, bus, outbox, sent>>
  BY DEF Poll, RedisTypeOK
<1>2. /\ inbox' \in Seq(Messages) /\ new \in Elements(inbox)
      /\ Elements(inbox') \subseteq Elements(inbox)
      /\ Once(inbox') /\ new \notin Elements(inbox')
  BY <1>1, TakenFromEnd DEF IdsInv
<1> HIDE DEF new
<1>3. new \in Messages /\ new \in 1..sent /\ new # NoId /\ new \notin Elements(bus)
  <2>1. new \in 1..sent /\ sent \in 0..NumMessages /\ NumMessages \in Nat
    BY <1>2 DEF IdsInv, RedisTypeOK, RedisAssumption
  <2>2. new \notin Elements(bus)
    BY <1>2 DEF PlacesInv
  <2> QED
    BY <2>1, <2>2 DEF Messages, NoId
<1>4. \A m : ChatOf(m)' = ChatOf(m)
  BY <1>1 DEF ChatOf
<1>5. CASE polled' = new /\ replyTo' = Noted(new) /\ UNCHANGED <<over, breaks>>
  <2>1. /\ IsMap(replyTo')
        /\ Elements(replyTo')
             = {New(new)} \cup {e \in Elements(replyTo) : e.chat # ChatOf(new)}
    BY <1>3, <1>5, MapIsMap, NotedIs
  <2>2. New(new).chat = ChatOf(new) /\ New(new).id = new
    BY DEF New
  <2>3. RedisTypeOK'
    BY <1>1, <1>2, <1>3, <1>5, <2>1 DEF RedisTypeOK, IsMap
  <2>4. IdsInv'
    BY <1>1, <1>2, <1>3, <1>4, <2>1, <2>2 DEF IdsInv
  <2>5. PlacesInv'
    BY <1>1, <1>2, <1>3, <1>5 DEF PlacesInv
  <2>6. PatientInv'
    <3> SUFFICES ASSUME patient
                 PROVE  /\ \A m, n \in ((1..sent) \ over)' : ChatOf(m)' = ChatOf(n)' => m = n
                        /\ \A m \in Taken' :
                             /\ \A e \in Elements(replyTo)' : e.chat = ChatOf(m)' => e.id = m
                             /\ Unanswered(m)' =>
                                  \E e \in Elements(replyTo)' : e.chat = ChatOf(m)'
      BY <1>1 DEF PatientInv
    <3>1. \A m, n \in (1..sent) \ over : ChatOf(m) = ChatOf(n) => m = n
      BY DEF PatientInv
    <3>2. Taken' = Elements(bus) \cup {new} /\ Taken = Elements(bus)
      BY <1>1, <1>3, <1>5 DEF Taken
    <3>3. new \in (1..sent) \ over /\ Elements(bus) \subseteq (1..sent) \ over
      BY <1>2, <1>3 DEF PlacesInv
    <3>4. \A m \in Elements(bus) : ChatOf(m) # ChatOf(new)
      BY <1>3, <3>1, <3>3
    <3>5. ASSUME NEW m \in Taken'
          PROVE  /\ \A e \in Elements(replyTo)' : e.chat = ChatOf(m) => e.id = m
                 /\ Unanswered(m)' => \E e \in Elements(replyTo)' : e.chat = ChatOf(m)
      <4>1. CASE m = new
        BY <2>1, <2>2, <4>1
      <4>2. CASE m \in Elements(bus)
        <5>1. Unanswered(m)' = Unanswered(m)
          BY <1>1 DEF Unanswered
        <5> QED
          BY <2>1, <2>2, <3>2, <3>4, <4>2, <5>1 DEF PatientInv
      <4> QED
        BY <3>2, <4>1, <4>2
    <3> QED
      BY <1>1, <1>4, <1>5, <3>1, <3>5
  <2> QED
    BY <1>1, <2>3, <2>4, <2>5, <2>6, WrittenStays
<1>6. CASE Break /\ over' = over \cup {new} /\ UNCHANGED <<polled, replyTo>>
  <2>1. RedisTypeOK'
    BY <1>1, <1>2, <1>3, <1>6 DEF RedisTypeOK, Break, RedisAssumption
  <2>2. IdsInv'
    BY <1>1, <1>2, <1>3, <1>4, <1>6 DEF IdsInv
  <2>3. PlacesInv'
    BY <1>1, <1>2, <1>3, <1>6 DEF PlacesInv
  <2>4. PatientInv'
    <3>1. Taken' = Taken /\ \A m : Unanswered(m)' = Unanswered(m)
      BY <1>1, <1>6 DEF Taken, Unanswered
    <3> QED
      BY <1>1, <1>4, <1>6, <3>1 DEF PatientInv
  <2> QED
    BY <1>1, <2>1, <2>2, <2>3, <2>4, WrittenStays
<1> QED
  BY <1>5, <1>6 DEF Poll, new

LEMMA DispatchKeeps ==
    ASSUME RedisAssumption, ChannelInv, Dispatch
    PROVE  ChannelInv'
<1> USE DEF ChannelInv, agent
<1>1. /\ polled # NoId /\ polled' = NoId /\ polled \in Messages /\ polled \in 1..sent
      /\ UNCHANGED <<mixed, patient, maxSize, sends, inbox, outbox, sent>>
      /\ bus \in Seq(Messages)
      /\ polled \notin Elements(bus) \cup Elements(inbox)
      /\ NoId \notin 1..sent
  BY DEF Dispatch, RedisTypeOK, PlacesInv, NoId
<1>2. \A m : ChatOf(m)' = ChatOf(m) /\ Unanswered(m)' = Unanswered(m)
  BY <1>1 DEF ChatOf, Unanswered
<1>3. CASE /\ bus' = Append(bus, polled) /\ replyTo' = Trimmed(replyTo)
           /\ UNCHANGED <<over, breaks>>
  <2>1. /\ IsMap(replyTo') /\ Elements(replyTo') \subseteq Elements(replyTo)
        /\ maxSize >= 2 => replyTo' = replyTo
    BY <1>3, MapIsMap, TrimmedIs
  <2>2. /\ bus' \in Seq(Messages) /\ Elements(bus') = Elements(bus) \cup {polled}
        /\ Once(bus')
    BY <1>1, <1>3, AddedAtEnd DEF PlacesInv
  <2>3. RedisTypeOK'
    BY <1>1, <1>3, <2>1, <2>2 DEF RedisTypeOK, IsMap
  <2>4. IdsInv'
    BY <1>1, <2>1, IdsStay
  <2>5. PlacesInv'
    <3>1. over \subseteq 1..sent
      BY DEF RedisTypeOK
    <3> QED
      BY <1>1, <1>3, <2>2, <3>1 DEF PlacesInv, IdsInv
  <2>6. PatientInv'
    <3>1. Taken' = Taken
      BY <1>1, <2>2 DEF Taken
    <3>2. patient => \A m \in Taken :
                       /\ \A e \in Elements(replyTo)' : e.chat = ChatOf(m) => e.id = m
                       /\ Unanswered(m) => \E e \in Elements(replyTo)' : e.chat = ChatOf(m)
      BY <2>1 DEF PatientInv, Unanswered
    <3> QED
      BY <1>1, <1>2, <1>3, <3>1, <3>2 DEF PatientInv
  <2> QED
    BY <1>1, <2>3, <2>4, <2>5, <2>6, WrittenStays
<1>4. CASE /\ Break /\ over' = over \cup {polled} /\ UNCHANGED bus
           /\ replyTo' \in {Trimmed(Without(ChatOf(polled))), replyTo}
  <2>1. /\ IsMap(replyTo') /\ Elements(replyTo') \subseteq Elements(replyTo)
        /\ maxSize >= 2 => \A e \in Elements(replyTo) :
                             e.chat # ChatOf(polled) => e \in Elements(replyTo')
    <3>1. CASE replyTo' = replyTo
      BY <3>1, MapIsMap
    <3>2. CASE replyTo' = Trimmed(Without(ChatOf(polled)))
      <4>1. /\ IsMap(Without(ChatOf(polled)))
            /\ Elements(Without(ChatOf(polled)))
                 = {e \in Elements(replyTo) : e.chat # ChatOf(polled)}
        BY MapIsMap, WithoutIs
      <4>2. /\ IsMap(replyTo')
            /\ Elements(replyTo') \subseteq Elements(Without(ChatOf(polled)))
            /\ maxSize >= 2 => replyTo' = Without(ChatOf(polled))
        BY <3>2, <4>1, TrimmedIs
      <4> QED
        BY <4>1, <4>2
    <3> QED
      BY <1>4, <3>1, <3>2
  <2>2. RedisTypeOK'
    BY <1>1, <1>4, <2>1 DEF RedisTypeOK, IsMap, Break, RedisAssumption
  <2>3. IdsInv'
    BY <1>1, <2>1, IdsStay
  <2>4. PlacesInv'
    <3>1. over \subseteq 1..sent
      BY DEF RedisTypeOK
    <3> QED
      BY <1>1, <1>4, <3>1 DEF PlacesInv, IdsInv
  <2>5. PatientInv'
    <3>1. Taken' = Elements(bus) /\ Taken' \subseteq Taken
      BY <1>1, <1>4 DEF Taken
    <3>2. ASSUME patient, NEW m \in Taken'
          PROVE  /\ \A e \in Elements(replyTo)' : e.chat = ChatOf(m) => e.id = m
                 /\ Unanswered(m) => \E e \in Elements(replyTo)' : e.chat = ChatOf(m)
      <4>1. polled \in (1..sent) \ over /\ m \in (1..sent) \ over /\ m # polled
        BY <1>1, <3>1, <3>2 DEF PlacesInv
      <4>2. ChatOf(m) # ChatOf(polled)
        BY <3>2, <4>1 DEF PatientInv
      <4> QED
        BY <2>1, <3>1, <3>2, <4>2 DEF PatientInv, Unanswered
    <3> QED
      BY <1>1, <1>2, <1>4, <3>1, <3>2 DEF PatientInv
  <2> QED
    BY <1>1, <2>2, <2>3, <2>4, <2>5, WrittenStays
<1> QED
  BY <1>3, <1>4 DEF Dispatch

LEMMA SendKeeps ==
    ASSUME RedisAssumption, ChannelInv, NEW m \in Messages, Send(m)
    PROVE  ChannelInv'
<1> USE DEF ChannelInv
<1>1. /\ UNCHANGED <<mixed, patient, maxSize, inbox, polled, bus, sent, over>>
      /\ m \in Elements(bus) /\ sends[m] < MaxSends
      /\ sends' = [sends EXCEPT ![m] = @ + 1] /\ replyTo' = Without(ChatOf(m))
      /\ sends \in [Messages -> 0..MaxSends] /\ MaxSends \in Nat
  BY DEF Send, Turn, IsTurn, LeftAfter, Elements, RedisTypeOK, RedisAssumption
<1>2. /\ sends' \in [Messages -> 0..MaxSends] /\ sends'[m] = sends[m] + 1
      /\ sends'[m] \in 1..MaxSends
      /\ \A k \in Messages : k # m => sends'[k] = sends[k]
  BY <1>1
<1>3. /\ IsMap(replyTo')
      /\ Elements(replyTo') = {e \in Elements(replyTo) : e.chat # ChatOf(m)}
  BY <1>1, MapIsMap, WithoutIs
<1>4. \A k : ChatOf(k)' = ChatOf(k)
  BY <1>1 DEF ChatOf
<1>5. PlacesInv'
  BY <1>1 DEF PlacesInv
<1>6. PatientInv'
  <2>1. Taken' = Taken /\ m \in Taken
    BY <1>1 DEF Taken
  <2>2. ASSUME patient, NEW k \in Taken
        PROVE  /\ \A e \in Elements(replyTo)' : e.chat = ChatOf(k) => e.id = k
               /\ Unanswered(k)' => \E e \in Elements(replyTo)' : e.chat = ChatOf(k)
    <3>1. /\ \A e \in Elements(replyTo) : e.chat = ChatOf(k) => e.id = k
          /\ Unanswered(k) => \E e \in Elements(replyTo) : e.chat = ChatOf(k)
      BY <2>2 DEF PatientInv
    <3>2. CASE k = m
      BY <1>1, <1>2, <1>3, <3>1, <3>2 DEF Unanswered
    <3>3. CASE k # m
      <4>1. k \in (1..sent) \ over /\ m \in (1..sent) \ over
        BY <1>1, <2>1 DEF Taken, PlacesInv
      <4>2. ChatOf(k) # ChatOf(m)
        BY <2>2, <3>3, <4>1 DEF PatientInv
      <4>3. k \in Messages
        BY <4>1 DEF RedisTypeOK, Messages, RedisAssumption
      <4>4. Unanswered(k)' = Unanswered(k)
        BY <1>1, <1>2, <3>3, <4>3 DEF Unanswered
      <4> QED
        BY <1>3, <3>1, <4>2, <4>4
    <3> QED
      BY <3>2, <3>3
  <2> QED
    BY <1>1, <1>4, <2>1, <2>2 DEF PatientInv
<1>7. CASE Break /\ UNCHANGED outbox
  <2>1. RedisTypeOK'
    BY <1>1, <1>2, <1>3, <1>7 DEF RedisTypeOK, IsMap, Break, RedisAssumption
  <2>2. IdsInv'
    BY <1>1, <1>3, <1>7, IdsStay
  <2> QED
    BY <1>1, <1>5, <1>6, <1>7, <2>1, <2>2, WrittenStays
<1>8. CASE /\ UNCHANGED breaks
           /\ \E id \in IF Named(ChatOf(m)) = {} THEN {NoId} ELSE Named(ChatOf(m)) :
                outbox' = outbox \cup {[of |-> m, number |-> sends'[m], names |-> id]}
  <2>1. PICK id \in IF Named(ChatOf(m)) = {} THEN {NoId} ELSE Named(ChatOf(m)) :
               outbox' = outbox \cup {[of |-> m, number |-> sends'[m], names |-> id]}
    BY <1>8
  <2> DEFINE new == [of |-> m, number |-> sends'[m], names |-> id]
  <2>2. new.of = m /\ new.number = sends'[m] /\ new.names = id
    OBVIOUS
  <2>3. outbox' = outbox \cup {new}
    BY <2>1
  <2>4. \/ id = NoId /\ \A e \in Elements(replyTo) : e.chat # ChatOf(m)
        \/ \E e \in Elements(replyTo) : e.chat = ChatOf(m) /\ e.id = id
    BY <2>1, NamedIs
  <2>5. id # NoId => /\ id \in (1..sent) \ Elements(inbox)
                     /\ \A x \in outbox : x.names # id
    BY <2>4 DEF IdsInv
  <2>6. id \in Messages \cup {NoId} /\ new \in [of : Messages, number : 1..MaxSends,
                                                names : Messages \cup {NoId}]
    <3>1. id # NoId => id \in Messages
      BY <2>5 DEF RedisTypeOK, Messages, RedisAssumption
    <3> QED
      BY <1>2, <3>1
  <2> HIDE DEF new
  <2>7. RedisTypeOK'
    BY <1>1, <1>2, <1>3, <1>8, <2>3, <2>6 DEF RedisTypeOK, IsMap
  <2>8. IdsInv'
    <3>1. ASSUME NEW e \in Elements(replyTo')
          PROVE  /\ e.id \in (1..sent) \ Elements(inbox) /\ e.chat = ChatOf(e.id)
                 /\ \A x \in outbox' : x.names # e.id
      <4>1. /\ e \in Elements(replyTo) /\ e.chat # ChatOf(m)
            /\ e.id \in (1..sent) \ Elements(inbox) /\ e.chat = ChatOf(e.id)
            /\ \A x \in outbox : x.names # e.id
        BY <1>3, <3>1 DEF IdsInv
      <4>2. id # e.id
        BY <2>4, <4>1 DEF IdsInv, NoId
      <4> QED
        BY <2>2, <2>3, <4>1, <4>2
    <3>2. \A x \in outbox' : x.names # NoId => x.names \in (1..sent) \ Elements(inbox)
      BY <2>2, <2>3, <2>5 DEF IdsInv
    <3> QED
      BY <1>1, <1>4, <3>1, <3>2 DEF IdsInv
  <2>9. NamedOnce'
    BY <2>2, <2>3, <2>5 DEF NamedOnce
  <2>10. NamesItsOwn'
    <3> SUFFICES ASSUME patient
                 PROVE  id \in {m, NoId} /\ (sends'[m] = 1 /\ maxSize >= 2 => id = m)
      BY <1>1, <2>2, <2>3 DEF NamesItsOwn
    <3>1. m \in Taken
      BY <1>1 DEF Taken
    <3>2. /\ \A e \in Elements(replyTo) : e.chat = ChatOf(m) => e.id = m
          /\ Unanswered(m) => \E e \in Elements(replyTo) : e.chat = ChatOf(m)
      BY <3>1 DEF PatientInv
    <3>3. sends'[m] = 1 /\ maxSize >= 2 => Unanswered(m)
      BY <1>1, <1>2 DEF Unanswered
    <3> QED
      BY <2>4, <3>2, <3>3
  <2> QED
    BY <1>5, <1>6, <2>7, <2>8, <2>9, <2>10
<1> QED
  BY <1>7, <1>8 DEF Send

LEMMA TurnEndsKeeps ==
    ASSUME RedisAssumption, ChannelInv, NEW m \in Messages, TurnEnds(m)
    PROVE  ChannelInv'
<1> USE DEF ChannelInv, agent
<1>1. PICK i \in DOMAIN bus : bus[i] = m /\ bus' = RemoveAt(bus, i)
  BY DEF TurnEnds, IsTurn
<1>2. /\ over' = over \cup {m}
      /\ UNCHANGED <<mixed, patient, maxSize, sends, inbox, polled, replyTo, outbox,
                     sent, breaks>>
  BY DEF TurnEnds
<1>3. /\ bus' \in Seq(Messages) /\ Elements(bus') \subseteq Elements(bus)
      /\ Once(bus') /\ m \notin Elements(bus') /\ m \in Elements(bus)
  <2>1. bus \in Seq(Messages) /\ Once(bus) /\ m \in Elements(bus)
    BY <1>1 DEF RedisTypeOK, PlacesInv, Elements
  <2> QED
    BY <1>1, <2>1, Removal, PartHasLess
<1>4. \A k : ChatOf(k)' = ChatOf(k) /\ Unanswered(k)' = Unanswered(k)
  BY <1>2 DEF ChatOf, Unanswered
<1>5. m \in 1..sent
  BY <1>3 DEF PlacesInv
<1>6. RedisTypeOK'
  BY <1>2, <1>3, <1>5 DEF RedisTypeOK
<1>7. IdsInv'
  BY <1>2, IdsStay
<1>8. PlacesInv'
  BY <1>2, <1>3 DEF PlacesInv
<1>9. PatientInv'
  <2>1. Taken' \subseteq Taken
    BY <1>2, <1>3 DEF Taken
  <2> QED
    BY <1>2, <1>4, <2>1 DEF PatientInv
<1> QED
  BY <1>2, <1>6, <1>7, <1>8, <1>9, WrittenStays

LEMMA RestartKeeps ==
    ASSUME RedisAssumption, ChannelInv, Restart
    PROVE  ChannelInv'
<1> USE DEF ChannelInv, agent
<1>1. /\ polled' = NoId /\ bus' = <<>> /\ replyTo' = <<>>
      /\ over' = 1..sent \ Elements(inbox)
      /\ UNCHANGED <<mixed, patient, maxSize, sends, inbox, outbox, sent>>
  BY DEF Restart, Elements
<1>2. Elements(<<>>) = {} /\ Once(<<>>)
  BY DEF Elements, Once
<1>3. RedisTypeOK'
  BY <1>1 DEF RedisTypeOK, Restart, Break, RedisAssumption
<1>4. IdsInv'
  BY <1>1, <1>2, IdsStay
<1>5. PlacesInv'
  <2>1. NoId \notin 1..sent
    BY DEF NoId
  <2>2. Elements(bus') = {} /\ Once(bus')
    BY <1>1, <1>2
  <2> QED
    BY <1>1, <2>1, <2>2 DEF PlacesInv, IdsInv
<1>6. over \cap Elements(inbox) = {} /\ Elements(inbox) \subseteq 1..sent
  BY DEF PlacesInv, IdsInv
<1>7. PatientInv'
  <2>1. Taken' = {}
    BY <1>1, <1>2 DEF Taken
  <2>2. \A m : ChatOf(m)' = ChatOf(m)
    BY <1>1 DEF ChatOf
  <2>3. ((1..sent) \ over)' = Elements(inbox)
    BY <1>1, <1>6
  <2>4. Elements(inbox) \subseteq (1..sent) \ over
    BY <1>6
  <2> QED
    BY <1>1, <2>1, <2>2, <2>3, <2>4 DEF PatientInv
<1> QED
  BY <1>1, <1>3, <1>4, <1>5, <1>7, WrittenStays

-----------------------------------------------------------------------------
\* The theorems.

LEMMA InitKeeps ==
    ASSUME RedisAssumption, RedisInit
    PROVE  ChannelInv
<1>1. Elements(<<>>) = {} /\ Once(<<>>)
  BY DEF Elements, Once
<1>2. RedisTypeOK
  BY DEF RedisInit, RedisTypeOK, RedisAssumption
<1>3. IdsInv /\ PlacesInv
  BY <1>1 DEF RedisInit, IdsInv, PlacesInv, NoId
<1>4. PatientInv
  BY <1>1 DEF RedisInit, PatientInv, Taken
<1>5. NamedOnce /\ NamesItsOwn
  BY DEF RedisInit, NamedOnce, NamesItsOwn
<1> QED
  BY <1>2, <1>3, <1>4, <1>5 DEF ChannelInv

LEMMA StepKeeps ==
    ASSUME RedisAssumption, ChannelInv, [RedisNext]_redisVars
    PROVE  ChannelInv'
<1>1. CASE UNCHANGED redisVars
  <2>1. \A m : ChatOf(m)' = ChatOf(m) /\ Unanswered(m)' = Unanswered(m)
    BY <1>1 DEF redisVars, agent, ChatOf, Unanswered
  <2>2. RedisTypeOK' /\ IdsInv'
    BY <1>1, IdsStay DEF redisVars, agent, ChannelInv, RedisTypeOK
  <2>3. PlacesInv' /\ PatientInv'
    BY <1>1, <2>1 DEF redisVars, agent, ChannelInv, PlacesInv, PatientInv, Taken
  <2> QED
    BY <1>1, <2>2, <2>3, WrittenStays DEF redisVars, agent, ChannelInv
<1>2. CASE RedisNext
  BY <1>2, PushKeeps, PollKeeps, DispatchKeeps, SendKeeps, TurnEndsKeeps, RestartKeeps
     DEF RedisNext
<1> QED
  BY <1>1, <1>2

LEMMA InvHolds ==
    ASSUME RedisAssumption
    PROVE  RedisSpec => []ChannelInv
<1>1. RedisInit => ChannelInv
  BY InitKeeps
<1>2. ChannelInv /\ [RedisNext]_redisVars => ChannelInv'
  BY StepKeeps
<1> QED
  BY <1>1, <1>2, PTL DEF RedisSpec

\* The list, the map and the bus of the channel are always well formed.
THEOREM ChannelTypeCorrect ==
    ASSUME RedisAssumption
    PROVE  RedisSpec => []RedisTypeOK
<1>1. ChannelInv => RedisTypeOK
  BY DEF ChannelInv
<1> QED
  BY <1>1, InvHolds, PTL

\* No id is named in two answers; a chat that waits for the end of a turn gets no
\* answer in the name of another message, and the first answer names its message.
THEOREM AnswersStayOwn ==
    ASSUME RedisAssumption
    PROVE  RedisSpec => []AnswersOwn
<1>1. ChannelInv => AnswersOwn
  BY DEF ChannelInv, AnswersOwn
<1> QED
  BY <1>1, InvHolds, PTL

-----------------------------------------------------------------------------
\* TurnHooks.
\* The invariant.

\* A turn is of a question, and a batch has no more calls than the turn may make.
TurnFits(s) ==
    /\ turn[s].at # "idle" => turn[s].of # NoQuestion
    /\ Len(turn[s].batch) <= MaxTools
    /\ turn[s].at \in {"tools", "tool"} => turn[s].next >= 1
    /\ turn[s].at = "tool" => turn[s].next <= Len(turn[s].batch)
TurnsTyped ==
    /\ TurnsTypeOK
    /\ \A s \in Sessions : TurnFits(s)
    /\ \A t \in Subagents : sub[t].at # "none" => sub[t].of # NoQuestion

\* A subagent is closed once, and its end is logged when it is closed or before.
SubOk(t) ==
    LET u == sub[t] IN
    /\ u.at \in {"none", "run", "tool", "finish"} => ~u.finalized /\ u.histories = 0
    /\ u.at = "finish" => u.events >= 1 \/ ~subscribed
    /\ u.at \in {"error", "again", "end"} =>
         /\ u.finalized /\ u.histories = 1 /\ u.events >= 1 /\ ~u.indexed
         /\ u.row = (IF u.error THEN "error" ELSE "finished")
SubsInv == \A t \in Subagents : SubOk(t)

\* The questions of a session come and are taken in their order.
Before(s, q) == SessionOf(q) = s /\ \A i \in DOMAIN queued[s] : q < queued[s][i]
QueueOk(s) ==
    /\ \A i \in DOMAIN queued[s] : queued[s][i] \in asked /\ SessionOf(queued[s][i]) = s
    /\ \A i, j \in DOMAIN queued[s] : i < j => queued[s][i] < queued[s][j]
    /\ turn[s].at = "idle" => turn[s].of = NoQuestion
    /\ turn[s].of # NoQuestion => turn[s].of \in asked /\ Before(s, turn[s].of)
QueueInv ==
    /\ \A q \in asked : \A p \in 1..q-1 : SessionOf(p) = SessionOf(q) => p \in asked
    /\ \A s \in Sessions : QueueOk(s)

\* The registry and the hook of a session name questions of that session; a question
\* that is alone in its session is the one they name.
NamesOk(s) ==
    /\ registry[s] # NoQuestion => SessionOf(QuestionOf(registry[s])) = s
    /\ hook[s] # NoQuestion => SessionOf(QuestionOf(hook[s])) = s
    /\ \A q \in PendingIn(s) \ crowded :
         /\ PendingIn(s) = {q}
         /\ turn[s].at # "ran" => registry[s] = q
         /\ turn[s].at \notin {"idle", "ran"} => hook[s] = q
NamesInv ==
    /\ \A s \in Sessions : NamesOk(s)
    /\ \A q \in QuestionIds : endings[q] # "no" => q \in asked
    /\ EventsAreOwn

\* The entries of the tools that run are those from _pending_start.
BatchOk(s) ==
    turn[s].at \in {"tools", "tool"} =>
      LET b == turn[s].batch IN
      /\ turn[s].next >= 1 /\ pendingStart[s] + Len(b) = Len(audit[s])
      /\ \A i \in DOMAIN b :
           /\ audit[s][pendingStart[s] + i].call = b[i]
           /\ i < turn[s].next => b[i] \in ToSet(paths[s]) \cup raised

\* A question that was taken is over when its turn is.
Over(p) == p \in asked /\ p \notin PendingIn(SessionOf(p))

\* What is in the buckets of a session is of the turn, or of earlier ones that got no
\* answer; a path is that of a call, and a call with an outcome has its path unless its
\* tool raised.
OwnerOk(s, p) ==
    /\ p \in asked /\ Before(s, p) /\ ~reply[p].sent
    /\ turn[s].of # NoQuestion => p <= turn[s].of
BucketOk(s) ==
    /\ \A i \in DOMAIN audit[s] :
         LET e == audit[s][i] IN
         /\ OwnerOk(s, e.call.of) /\ e.result \in {NoCall, e.call}
         /\ e.result # NoCall => e.call \in ToSet(paths[s]) \cup raised
    /\ \A j \in DOMAIN paths[s] :
         \E i \in DOMAIN audit[s] : audit[s][i].call = paths[s][j]

\* An answer that was sent has a bucket as it was, and what it has of others will not
\* be answered.
Left(q, p) == p = q \/ (p < q /\ SessionOf(p) = SessionOf(q) /\ Over(p) /\ ~reply[p].sent)
ReplyOk(q) ==
    reply[q].sent =>
      LET a == reply[q].audit
          f == reply[q].files IN
      /\ Over(q)
      /\ \A i \in DOMAIN a :
           /\ Left(q, a[i].call.of) /\ a[i].result \in {NoCall, a[i].call}
           /\ a[i].result # NoCall => a[i].call \in ToSet(f) \cup raised
      /\ \A j \in DOMAIN f : \E i \in DOMAIN a : a[i].call = f[j]
BucketInv ==
    /\ \A s \in Sessions : BatchOk(s) /\ BucketOk(s)
    /\ \A q \in QuestionIds : ReplyOk(q)

TurnsInv == TurnsTyped /\ SubsInv /\ QueueInv /\ NamesInv /\ BucketInv

-----------------------------------------------------------------------------
\* Types.

LEMMA SomeFacts ==
    ASSUME TurnsAssumption
    PROVE  /\ QuestionIds \subseteq Nat \ {0} /\ QuestionIds \subseteq RequestIds
           /\ \A q \in QuestionIds :
                /\ SessionOf(q) \in Sessions
                /\ Own(q) \in RequestIds \ QuestionIds /\ QuestionOf(Own(q)) = q
                /\ QuestionOf(q) = q
           /\ \A r \in RequestIds : QuestionOf(r) \in QuestionIds
           /\ NoQuestion \notin RequestIds
BY DEF TurnsAssumption, QuestionIds, RequestIds, Sessions, Own, QuestionOf, NoQuestion

LEMMA TurnFields ==
    ASSUME TurnsTyped, NEW s \in Sessions
    PROVE  /\ turn[s] \in TurnRecords
           /\ turn[s].of \in QuestionIds \cup {NoQuestion}
           /\ turn[s].at \in {"idle", "ready", "model", "tools", "tool", "done", "ran"}
           /\ turn[s].calls \in 0..MaxTools
           /\ turn[s].batch \in Seq(Calls) /\ turn[s].next \in 0..MaxTools+1
BY DEF TurnsTyped, TurnsTypeOK, TurnRecords

\* A step of a turn that leaves it typed.
LEMMA TurnTyped ==
    ASSUME TurnsTyped, NEW s \in Sessions, NEW u \in TurnRecords,
           turn' = [turn EXCEPT ![s] = u],
           u.at # "idle" => u.of # NoQuestion, Len(u.batch) <= MaxTools,
           u.at \in {"tools", "tool"} => u.next >= 1,
           u.at = "tool" => u.next <= Len(u.batch)
    PROVE  /\ turn' \in [Sessions -> TurnRecords]
           /\ \A x \in Sessions : TurnFits(x)'
BY DEF TurnsTyped, TurnsTypeOK, TurnFits

LEMMA IdleTyped ==
    ASSUME TurnsAssumption
    PROVE  /\ IdleTurn \in TurnRecords /\ Len(IdleTurn.batch) <= MaxTools
           /\ IdleTurn.at = "idle" /\ IdleTurn.of = NoQuestion
BY DEF IdleTurn, TurnRecords, TurnsAssumption

LEMMA InboundTyped ==
    ASSUME TurnsAssumption, TurnsTyped, NEW q \in QuestionIds, Inbound(q)
    PROVE  TurnsTyped'
<1> USE DEF TurnsTyped, TurnsTypeOK, Inbound, outcomes, buckets
<1>1. SessionOf(q) \in Sessions /\ q \in RequestIds
  BY SomeFacts
<1>2. queued' \in [Sessions -> Seq(QuestionIds)]
  BY <1>1
<1>3. /\ registry' \in [Sessions -> RequestIds \cup {NoQuestion}]
      /\ statuses' \in [RequestIds -> {"none", "running", "finished", "error"}]
  BY <1>1 DEF RegisterRequest
<1>4. crowded' \subseteq QuestionIds
  <2>1. ToSet(queued[SessionOf(q)]) \subseteq QuestionIds
    BY <1>1 DEF ToSet
  <2>2. turn[SessionOf(q)].of \in QuestionIds \cup {NoQuestion}
    BY <1>1 DEF TurnRecords
  <2>3. PendingIn(SessionOf(q)) \subseteq QuestionIds
    BY <2>1, <2>2 DEF PendingIn
  <2> QED
    BY <2>3
<1>5. asked' \subseteq QuestionIds
  OBVIOUS
<1>6. \A s \in Sessions : TurnFits(s)'
  BY DEF TurnFits
<1> QED
  BY <1>2, <1>3, <1>4, <1>5, <1>6

LEMMA StartTyped ==
    ASSUME TurnsAssumption, TurnsTyped, NEW s \in Sessions, StartTurn(s)
    PROVE  TurnsTyped'
<1> DEFINE q == Head(queued[s])
           r == IF registry[s] = NoQuestion THEN Own(q) ELSE registry[s]
           u == [IdleTurn EXCEPT !.of = q, !.at = "ready"]
<1>1. queued[s] \in Seq(QuestionIds) /\ queued[s] # <<>>
  BY DEF StartTurn, TurnsTyped, TurnsTypeOK
<1>2. q \in QuestionIds /\ Tail(queued[s]) \in Seq(QuestionIds)
  BY <1>1
<1>3. r \in RequestIds
  BY <1>2, SomeFacts DEF TurnsTyped, TurnsTypeOK
<1>4. turn' \in [Sessions -> TurnRecords] /\ \A x \in Sessions : TurnFits(x)'
  <2>1. /\ u \in TurnRecords /\ u.at = "ready" /\ Len(u.batch) <= MaxTools
        /\ u.of # NoQuestion
    BY <1>2, SomeFacts, IdleTyped DEF TurnRecords, IdleTurn, NoQuestion
  <2>2. turn' = [turn EXCEPT ![s] = u]
    BY DEF StartTurn
  <2> HIDE DEF u
  <2> QED
    BY <2>1, <2>2, TurnTyped
<1>5. /\ hook' = [hook EXCEPT ![s] = r] /\ queued' = [queued EXCEPT ![s] = Tail(@)]
      /\ \/ registry' = [registry EXCEPT ![s] = r]
            /\ statuses' = [statuses EXCEPT ![r] = "running"]
         \/ UNCHANGED <<registry, statuses>>
  BY DEF StartTurn, HookOf, RegisterRequest
<1> HIDE DEF q, r
<1>6. /\ queued' \in [Sessions -> Seq(QuestionIds)]
      /\ hook' \in [Sessions -> RequestIds \cup {NoQuestion}]
      /\ registry' \in [Sessions -> RequestIds \cup {NoQuestion}]
      /\ statuses' \in [RequestIds -> {"none", "running", "finished", "error"}]
  BY <1>2, <1>3, <1>5 DEF TurnsTyped, TurnsTypeOK, q
<1> QED
  BY <1>4, <1>6 DEF StartTurn, TurnsTyped, TurnsTypeOK, buckets, outcomes

\* What a turn notes of itself: the registry goes to the hook, an event to the log.
LEMMA NotesTyped ==
    ASSUME TurnsAssumption, TurnsTyped, NEW s \in Sessions
    PROVE  /\ Captured(s) \in [Sessions -> RequestIds \cup {NoQuestion}]
           /\ turn[s].of # NoQuestion =>
                {<<turn[s].of, registry[s]>>, <<turn[s].of, hook[s]>>}
                  \subseteq QuestionIds \X (RequestIds \cup {NoQuestion})
BY TurnFields DEF TurnsTyped, TurnsTypeOK, Captured, HookOf

\* A turn goes on to another place.
LEMMA GoTyped ==
    ASSUME TurnsAssumption, TurnsTyped, NEW s \in Sessions, turn[s].at # "idle",
           NEW place \in {"ready", "model", "tools", "tool", "done", "ran"},
           place \in {"tools", "tool"} => turn[s].next >= 1,
           place = "tool" => turn[s].next <= Len(turn[s].batch), GoToPlace(s, place)
    PROVE  turn' \in [Sessions -> TurnRecords] /\ \A x \in Sessions : TurnFits(x)'
<1> DEFINE u == [turn[s] EXCEPT !.at = place]
<1>1. /\ u \in TurnRecords /\ u.at = place /\ u.of = turn[s].of
      /\ u.batch = turn[s].batch /\ u.next = turn[s].next
  BY TurnFields DEF TurnRecords
<1>2. turn' = [turn EXCEPT ![s] = u]
  BY DEF GoToPlace
<1>3. turn[s].of # NoQuestion /\ Len(turn[s].batch) <= MaxTools
  BY DEF TurnsTyped, TurnFits
<1> HIDE DEF u
<1> QED
  BY <1>1, <1>2, <1>3, TurnTyped

LEMMA BeforeToolsTyped ==
    ASSUME TurnsAssumption, TurnsTyped, NEW s \in Sessions, NEW k \in 1..2, BeforeTools(s, k)
    PROVE  TurnsTyped'
<1> DEFINE batch == [i \in 1..k |-> [of |-> turn[s].of, n |-> turn[s].calls + i]]
           more == [i \in 1..k |-> [call |-> batch[i], result |-> NoCall]]
           u == [turn[s] EXCEPT !.at = "tools", !.calls = @ + k, !.batch = batch, !.next = 1]
<1>1. /\ turn[s].of \in QuestionIds /\ turn[s].calls + k \in 0..MaxTools
      /\ turn[s].calls \in 0..MaxTools /\ MaxTools \in Nat
  <2>1. turn[s].at = "model" /\ turn[s].calls + k <= MaxTools /\ turn[s].of # NoQuestion
    BY DEF BeforeTools, TurnsTyped, TurnFits
  <2>2. MaxTools \in Nat
    BY DEF TurnsAssumption
  <2> QED
    BY TurnFields, <2>1, <2>2
<1>2. \A i \in 1..k : batch[i] \in Calls
  BY <1>1 DEF Calls
<1>3. batch \in Seq(Calls) /\ Len(batch) = k /\ more \in Seq(Entries)
  BY <1>2 DEF Entries
<1>4. k <= MaxTools /\ 1 \in 0..MaxTools+1
  BY <1>1
<1>5. /\ turn' = [turn EXCEPT ![s] = u]
      /\ pendingStart' = [pendingStart EXCEPT ![s] = Len(audit[s])]
      /\ audit' = [audit EXCEPT ![s] = @ \o more]
  BY DEF BeforeTools, StartOf
<1> HIDE DEF batch, more
<1>6. /\ u \in TurnRecords /\ u.at = "tools" /\ u.of = turn[s].of
      /\ u.batch = batch /\ u.next = 1
  BY TurnFields, <1>1, <1>3, <1>4 DEF TurnRecords
<1> HIDE DEF u
<1>7. turn' \in [Sessions -> TurnRecords] /\ \A x \in Sessions : TurnFits(x)'
  <2>1. u.of # NoQuestion
    BY <1>1, <1>6, SomeFacts DEF NoQuestion
  <2>2. Len(u.batch) <= MaxTools /\ u.next >= 1 /\ u.at = "tools"
    BY <1>3, <1>4, <1>6
  <2> QED
    BY <1>5, <1>6, <2>1, <2>2, TurnTyped
<1>8. /\ pendingStart' \in [Sessions -> Nat]
      /\ audit' \in [Sessions -> Seq(Entries)]
  BY <1>3, <1>5 DEF TurnsTyped, TurnsTypeOK
<1> QED
  BY <1>7, <1>8 DEF TurnsTyped, TurnsTypeOK, BeforeTools, outcomes, busVars

LEMMA AfterToolTyped ==
    ASSUME TurnsAssumption, TurnsTyped, NEW s \in Sessions,
           AfterTool(s) \/ ToolRaises(s)
    PROVE  TurnsTyped'
<1> DEFINE u == [turn[s] EXCEPT !.at = "tools", !.next = @ + 1]
<1>1. /\ turn[s].of \in QuestionIds /\ turn[s].next \in 1..MaxTools+1 /\ MaxTools \in Nat
      /\ turn[s].batch \in Seq(Calls) /\ turn[s].next <= Len(turn[s].batch)
      /\ Len(turn[s].batch) <= MaxTools /\ turn[s].of # NoQuestion
  BY TurnFields DEF AfterTool, ToolRaises, ToolEnds, TurnsTyped, TurnFits, TurnsAssumption
<1>2. /\ Len(turn[s].batch) \in Nat /\ turn[s].next + 1 \in 0..MaxTools+1
      /\ turn[s].next + 1 >= 1
  BY <1>1
<1>3. /\ u \in TurnRecords /\ u.at = "tools" /\ u.of = turn[s].of
      /\ u.batch = turn[s].batch /\ u.next >= 1
  BY <1>2, TurnFields DEF TurnRecords
<1>4. turn' = [turn EXCEPT ![s] = u]
  BY DEF AfterTool, ToolRaises, ToolEnds
<1> HIDE DEF u
<1>5. turn' \in [Sessions -> TurnRecords] /\ \A x \in Sessions : TurnFits(x)'
  BY <1>1, <1>3, <1>4, TurnTyped
<1>6. paths' \in [Sessions -> Seq(Calls)] /\ raised' \subseteq Calls
  <2>1. CallOf(s) \in Calls
    BY <1>1, <1>2 DEF CallOf
  <2>2. paths \in [Sessions -> Seq(Calls)] /\ raised \subseteq Calls
    BY DEF TurnsTyped, TurnsTypeOK
  <2>3. \/ paths' = [paths EXCEPT ![s] = Append(@, CallOf(s))] /\ raised' = raised
        \/ paths' = paths /\ raised' = raised \cup {CallOf(s)}
    BY DEF AfterTool, ToolRaises, Written
  <2>4. raised' \subseteq Calls
    BY <2>1, <2>2, <2>3
  <2>5. Append(paths[s], CallOf(s)) \in Seq(Calls)
    BY <2>1, <2>2
  <2>6. paths' \in [Sessions -> Seq(Calls)]
    BY <2>2, <2>3, <2>5
  <2> QED
    BY <2>4, <2>6
<1>7. logged' \subseteq QuestionIds \X (RequestIds \cup {NoQuestion})
  BY <1>1, NotesTyped
  DEF AfterTool, ToolRaises, ToolEnds, Log, HookOf, TurnsTyped, TurnsTypeOK
<1>8. failed' \in 0..MaxFailed
  BY DEF AfterTool, ToolRaises, Failure, TurnsTyped, TurnsTypeOK, TurnsAssumption
<1> QED
  BY <1>5, <1>6, <1>7, <1>8
  DEF TurnsTyped, TurnsTypeOK, AfterTool, ToolRaises, ToolEnds, busVars

LEMMA AfterIterationTyped ==
    ASSUME TurnsAssumption, TurnsTyped, NEW s \in Sessions, AfterIteration(s)
    PROVE  TurnsTyped'
<1> DEFINE u == [turn[s] EXCEPT !.at = "ready", !.batch = <<>>, !.next = 0]
           b == turn[s].batch
           a == audit[s]
           start == pendingStart[s]
           c == [j \in DOMAIN a |-> IF j - start \in DOMAIN b
                                    THEN [a[j] EXCEPT !.result = b[j - start]] ELSE a[j]]
<1>1. turn[s].of # NoQuestion /\ b \in Seq(Calls) /\ a \in Seq(Entries)
  BY TurnFields DEF AfterIteration, TurnsTyped, TurnFits, TurnsTypeOK
<1>2. u \in TurnRecords /\ u.at = "ready" /\ u.of = turn[s].of /\ u.batch = <<>>
  <2>1. 0 \in 0..MaxTools+1 /\ <<>> \in Seq(Calls)
    BY DEF TurnsAssumption
  <2> QED
    BY <2>1, TurnFields DEF TurnRecords
<1>3. turn' = [turn EXCEPT ![s] = u]
  BY DEF AfterIteration
<1>4. audit' = [audit EXCEPT ![s] = c]
  BY DEF AfterIteration
<1>5. c \in Seq(Entries)
  <2>1. ASSUME NEW j \in DOMAIN a
        PROVE  c[j] \in Entries
    <3>1. a[j] \in Entries
      BY <1>1
    <3>2. CASE j - start \in DOMAIN b
      <4>1. b[j - start] \in Calls
        BY <1>1, <3>2
      <4>2. [a[j] EXCEPT !.result = b[j - start]] \in Entries
        BY <3>1, <4>1 DEF Entries
      <4> QED
        BY <3>2, <4>2
    <3> QED
      BY <3>1, <3>2
  <2>2. DOMAIN a = 1..Len(a) /\ Len(a) \in Nat
    BY <1>1
  <2>3. c \in [1..Len(a) -> Entries]
    BY <2>1, <2>2
  <2> QED
    BY <2>2, <2>3
<1> HIDE DEF u, c
<1>6. turn' \in [Sessions -> TurnRecords] /\ \A x \in Sessions : TurnFits(x)'
  <2>1. Len(u.batch) <= MaxTools
    BY <1>2 DEF TurnsAssumption
  <2> QED
    BY <1>1, <1>2, <1>3, <2>1, TurnTyped
<1>7. audit' \in [Sessions -> Seq(Entries)]
  BY <1>4, <1>5 DEF TurnsTyped, TurnsTypeOK
<1>8. /\ logged' \subseteq QuestionIds \X (RequestIds \cup {NoQuestion})
      /\ hook' \in [Sessions -> RequestIds \cup {NoQuestion}]
  BY <1>1, NotesTyped DEF AfterIteration, Log, TurnsTyped, TurnsTypeOK
<1> QED
  BY <1>6, <1>7, <1>8 DEF TurnsTyped, TurnsTypeOK, AfterIteration, busVars

LEMMA EndTyped ==
    ASSUME TurnsAssumption, TurnsTyped, NEW s \in Sessions, Assemble(s) \/ Fail(s)
    PROVE  TurnsTyped'
<1>1. turn[s].of \in QuestionIds /\ turn[s].at # "idle"
  BY TurnFields DEF Assemble, Fail, TurnsTyped, TurnFits
<1>2. turn' = [turn EXCEPT ![s] = IdleTurn]
  BY DEF Assemble, Fail
<1>3. turn' \in [Sessions -> TurnRecords] /\ \A x \in Sessions : TurnFits(x)'
  BY <1>2, IdleTyped, TurnTyped
<1>4. failed' \in 0..MaxFailed
  BY DEF Assemble, Fail, Failure, TurnsTyped, TurnsTypeOK, TurnsAssumption
<1>5. endings' \in [QuestionIds -> {"no", "ran", "failed", "cut"}]
  BY <1>1 DEF Assemble, Fail, TurnsTyped, TurnsTypeOK
<1>6. CASE Assemble(s)
  <2>1. reply' \in [QuestionIds -> Attachments]
    <3>1. audit[s] \in Seq(Entries) /\ paths[s] \in Seq(Calls)
      BY DEF TurnsTyped, TurnsTypeOK
    <3>2. [sent |-> TRUE, audit |-> audit[s], files |-> paths[s]] \in Attachments
      BY <3>1 DEF Attachments
    <3> QED
      BY <1>6, <3>2 DEF Assemble, TurnsTyped, TurnsTypeOK
  <2>2. audit' \in [Sessions -> Seq(Entries)] /\ paths' \in [Sessions -> Seq(Calls)]
    BY <1>6 DEF Assemble, TurnsTyped, TurnsTypeOK
  <2> QED
    BY <1>3, <1>4, <1>5, <1>6, <2>1, <2>2
    DEF Assemble, TurnsTyped, TurnsTypeOK, busVars
<1>7. CASE Fail(s)
  BY <1>3, <1>4, <1>5, <1>7 DEF Fail, TurnsTyped, TurnsTypeOK, busVars, buckets
<1> QED
  BY <1>6, <1>7

LEMMA NotingTyped ==
    ASSUME TurnsAssumption, TurnsTyped, NEW s \in Sessions,
           \/ BeforeIteration(s) \/ BeforeTool(s) \/ Answered(s)
           \/ \E error \in BOOLEAN : AfterRun(s, error)
    PROVE  TurnsTyped'
<1>1. turn[s].at # "idle" /\ turn[s].of \in QuestionIds
  BY TurnFields DEF BeforeIteration, BeforeTool, Answered, AfterRun, TurnsTyped, TurnFits
<1>2. turn' \in [Sessions -> TurnRecords] /\ \A x \in Sessions : TurnFits(x)'
  <2>1. turn[s].at = "tools" => turn[s].next >= 1
    BY DEF TurnsTyped, TurnFits
  <2> QED
    BY <1>1, <2>1, GoTyped DEF BeforeIteration, BeforeTool, Answered, AfterRun
<1>3. hook' \in [Sessions -> RequestIds \cup {NoQuestion}]
  BY NotesTyped DEF BeforeIteration, BeforeTool, Answered, AfterRun, TurnsTyped, TurnsTypeOK,
                    HookOf
<1>4. logged' \subseteq QuestionIds \X (RequestIds \cup {NoQuestion})
  BY <1>1, NotesTyped
  DEF BeforeIteration, BeforeTool, Answered, AfterRun, Log, HookOf, outcomes,
      TurnsTyped, TurnsTypeOK
<1>5. CASE BeforeIteration(s)
  BY <1>2, <1>3, <1>4, <1>5
  DEF BeforeIteration, TurnsTyped, TurnsTypeOK, busVars, buckets, outcomes
<1>6. CASE BeforeTool(s)
  <2>1. /\ sub' \in [Subagents -> SubRecords]
        /\ \A t \in Subagents : sub'[t].at # "none" => sub'[t].of # NoQuestion
    <3>1. CASE UNCHANGED sub
      BY <3>1 DEF TurnsTyped, TurnsTypeOK
    <3>2. ASSUME NEW t \in Subagents,
                 sub' = [sub EXCEPT ![t].at = "run", ![t].of = turn[s].of]
          PROVE  /\ sub' \in [Subagents -> SubRecords]
                 /\ \A x \in Subagents : sub'[x].at # "none" => sub'[x].of # NoQuestion
      <4> DEFINE u == [sub[t] EXCEPT !.at = "run", !.of = turn[s].of]
      <4>1. u \in SubRecords /\ u.of = turn[s].of
        BY <1>1 DEF TurnsTyped, TurnsTypeOK, SubRecords
      <4>2. sub' = [sub EXCEPT ![t] = u]
        BY <3>2
      <4>3. turn[s].of # NoQuestion
        BY <1>1, SomeFacts DEF NoQuestion
      <4> HIDE DEF u
      <4> QED
        BY <4>1, <4>2, <4>3 DEF TurnsTyped, TurnsTypeOK
    <3> QED
      BY <1>6, <3>1, <3>2 DEF BeforeTool
  <2> QED
    BY <1>2, <1>3, <1>4, <1>6, <2>1
    DEF BeforeTool, TurnsTyped, TurnsTypeOK, busVars, buckets
<1>7. CASE Answered(s)
  BY <1>2, <1>3, <1>4, <1>7 DEF Answered, TurnsTyped, TurnsTypeOK, busVars, buckets
<1>8. ASSUME NEW error \in BOOLEAN, AfterRun(s, error)
      PROVE  TurnsTyped'
  <2>1. /\ statuses' \in [RequestIds -> {"none", "running", "finished", "error"}]
        /\ registry' \in [Sessions -> RequestIds \cup {NoQuestion}]
        /\ endings' \in [QuestionIds -> {"no", "ran", "failed", "cut"}]
    BY <1>1, <1>8 DEF AfterRun, HookOf, TurnsTyped, TurnsTypeOK
  <2> QED
    BY <1>2, <1>3, <1>4, <1>8, <2>1 DEF AfterRun, TurnsTyped, TurnsTypeOK, buckets
<1> QED
  BY <1>5, <1>6, <1>7, <1>8

\* A step of a subagent.
LEMMA SubSet ==
    ASSUME TurnsTyped, NEW t \in Subagents, NEW u \in SubRecords, u.of = sub[t].of,
           sub[t].at # "none", sub' = [sub EXCEPT ![t] = u]
    PROVE  /\ sub' \in [Subagents -> SubRecords]
           /\ \A x \in Subagents : sub'[x].at # "none" => sub'[x].of # NoQuestion
BY DEF TurnsTyped, TurnsTypeOK

LEMMA Closing ==
    ASSUME TurnsAssumption, TurnsTyped, NEW t \in Subagents, sub[t].at # "none"
    PROVE  /\ Ensured(t) \in SubRecords /\ Finalized(t) \in SubRecords
           /\ Ensured(t).of = sub[t].of /\ Finalized(t).of = sub[t].of
           /\ Ensured(t).finalized = sub[t].finalized
           /\ Ensured(t).histories = sub[t].histories
           /\ Finalized(t).finalized /\ Finalized(t).histories = sub[t].histories + 1
           /\ Finalized(t).events = (IF subscribed THEN sub[t].events ELSE sub[t].events + 1)
           /\ Finalized(t).error = sub[t].error /\ ~Finalized(t).indexed
           /\ Finalized(t).row = (IF sub[t].error THEN "error" ELSE "finished")
<1> DEFINE e == Ensured(t)
<1>1. sub[t] \in SubRecords /\ sub[t].of \in QuestionIds
  BY DEF TurnsTyped, TurnsTypeOK, SubRecords
<1>2. /\ e \in SubRecords /\ e.of = sub[t].of /\ e.finalized = sub[t].finalized
      /\ e.histories = sub[t].histories /\ e.events = sub[t].events
      /\ e.error = sub[t].error
  <2>1. registry[SessionOf(sub[t].of)] \in RequestIds \cup {NoQuestion}
    BY <1>1, SomeFacts DEF TurnsTyped, TurnsTypeOK
  <2> QED
    BY <1>1, <2>1 DEF Ensured, SubRecords
<1>3. e.histories + 1 \in Nat /\ e.events + 1 \in Nat
  BY <1>2 DEF SubRecords
<1>4. Finalized(t) =
        [e EXCEPT !.finalized = TRUE, !.histories = @ + 1, !.indexed = FALSE,
                  !.row = IF sub[t].error THEN "error" ELSE "finished",
                  !.events = IF subscribed THEN @ ELSE @ + 1]
  BY DEF Finalized
<1> HIDE DEF e
<1>5. /\ Finalized(t) \in SubRecords /\ Finalized(t).of = e.of
      /\ Finalized(t).finalized /\ Finalized(t).histories = e.histories + 1
      /\ Finalized(t).events = (IF subscribed THEN e.events ELSE e.events + 1)
      /\ Finalized(t).error = e.error /\ ~Finalized(t).indexed
      /\ Finalized(t).row = (IF sub[t].error THEN "error" ELSE "finished")
  BY <1>2, <1>3, <1>4 DEF SubRecords
<1> QED
  BY <1>2, <1>5 DEF e

LEMMA SubTyped ==
    ASSUME TurnsAssumption, TurnsTyped, NEW t \in Subagents,
           SubTool(t) \/ PublishEnd(t) \/ Finalize(t)
    PROVE  TurnsTyped'
<1>1. sub[t] \in SubRecords /\ sub[t].at # "none" /\ sub[t].of \in QuestionIds
  BY DEF TurnsTyped, TurnsTypeOK, SubRecords, SubTool, PublishEnd, Finalize
<1>2. Ensured(t) \in SubRecords /\ Ensured(t).of = sub[t].of
  BY <1>1, Closing
<1>3. /\ sub' \in [Subagents -> SubRecords]
      /\ \A x \in Subagents : sub'[x].at # "none" => sub'[x].of # NoQuestion
  <2>1. CASE SubTool(t)
    <3> DEFINE u == [Ensured(t) EXCEPT !.at = IF sub[t].at = "run" THEN "tool" ELSE "run"]
    <3>1. u \in SubRecords /\ u.of = sub[t].of
      BY <1>2 DEF SubRecords
    <3>2. sub' = [sub EXCEPT ![t] = u]
      BY <2>1 DEF SubTool
    <3> HIDE DEF u
    <3> QED
      BY <1>1, <3>1, <3>2, SubSet
  <2>2. CASE PublishEnd(t)
    <3>1. Handled(sub[t].events) \in Nat
      BY <1>1 DEF Handled, SubRecords
    <3>2. ASSUME NEW e \in BOOLEAN,
                 sub' = [sub EXCEPT ![t].at = "finish", ![t].error = e,
                                    ![t].events = Handled(@)]
          PROVE  /\ sub' \in [Subagents -> SubRecords]
                 /\ \A x \in Subagents : sub'[x].at # "none" => sub'[x].of # NoQuestion
      <4> DEFINE u == [sub[t] EXCEPT !.at = "finish", !.error = e,
                                     !.events = Handled(@)]
      <4>1. u \in SubRecords /\ u.of = sub[t].of
        BY <1>1, <3>1 DEF SubRecords
      <4>2. sub' = [sub EXCEPT ![t] = u]
        BY <3>2
      <4> HIDE DEF u
      <4> QED
        BY <1>1, <4>1, <4>2, SubSet
    <3>3. ASSUME sub' = [sub EXCEPT ![t].at = "again", ![t].events = Handled(@)]
          PROVE  /\ sub' \in [Subagents -> SubRecords]
                 /\ \A x \in Subagents : sub'[x].at # "none" => sub'[x].of # NoQuestion
      <4> DEFINE u == [sub[t] EXCEPT !.at = "again", !.events = Handled(@)]
      <4>1. u \in SubRecords /\ u.of = sub[t].of
        BY <1>1, <3>1 DEF SubRecords
      <4>2. sub' = [sub EXCEPT ![t] = u]
        BY <3>3
      <4> HIDE DEF u
      <4> QED
        BY <1>1, <4>1, <4>2, SubSet
    <3> QED
      BY <2>2, <3>2, <3>3 DEF PublishEnd
  <2>3. CASE Finalize(t)
    <3>1. Finalized(t) \in SubRecords /\ Finalized(t).of = sub[t].of
      BY <1>1, Closing
    <3>2. PICK next \in {"error", "end"} :
            sub' = [sub EXCEPT ![t] = [(IF MayFinalize(t) THEN Finalized(t) ELSE sub[t])
                                        EXCEPT !.at = next]]
      BY <2>3 DEF Finalize
    <3> DEFINE v == IF MayFinalize(t) THEN Finalized(t) ELSE sub[t]
               u == [v EXCEPT !.at = next]
    <3>3. v \in SubRecords /\ v.of = sub[t].of
      BY <1>1, <3>1
    <3> HIDE DEF v
    <3>4. u \in SubRecords /\ u.of = sub[t].of
      BY <3>3 DEF SubRecords
    <3>5. sub' = [sub EXCEPT ![t] = u]
      BY <3>2 DEF v
    <3> HIDE DEF u
    <3> QED
      BY <1>1, <3>4, <3>5, SubSet
  <2> QED
    BY <2>1, <2>2, <2>3
<1>4. UNCHANGED <<busVars, turn, hook, buckets, outcomes, subscribed, crowded, failed>>
  BY DEF SubTool, PublishEnd, Finalize
<1>5. \A s \in Sessions : TurnFits(s)'
  BY <1>4 DEF TurnsTyped, TurnFits
<1> QED
  BY <1>3, <1>4, <1>5 DEF TurnsTyped, TurnsTypeOK, busVars, buckets, outcomes

LEMMA StartsTyped ==
    ASSUME TurnsAssumption, TurnsInit
    PROVE  TurnsTyped
BY IdleTyped DEF TurnsInit, TurnsTyped, TurnsTypeOK, TurnFits, NoReply, NoSub, Attachments,
   SubRecords, NoQuestion, TurnsAssumption, IdleTurn

LEMMA StepTyped ==
    ASSUME TurnsAssumption, TurnsTyped, [TurnsNext]_hookVars
    PROVE  TurnsTyped'
<1>1. CASE UNCHANGED hookVars
  BY <1>1 DEF hookVars, busVars, buckets, outcomes, TurnsTyped, TurnsTypeOK, TurnFits
<1>2. CASE Unsubscribe
  BY <1>2 DEF Unsubscribe, busVars, buckets, outcomes, TurnsTyped, TurnsTypeOK, TurnFits
<1>3. ASSUME NEW s \in Sessions, TurnOf(s)
      PROVE  TurnsTyped'
  BY <1>3, StartTyped, BeforeToolsTyped, AfterToolTyped, AfterIterationTyped, EndTyped,
     NotingTyped DEF TurnOf
<1> QED
  BY <1>1, <1>2, <1>3, InboundTyped, SubTyped DEF TurnsNext

\* Every variable keeps its type.
THEOREM TurnsTypeCorrect ==
    ASSUME TurnsAssumption
    PROVE  TurnsSpec => []TurnsTypeOK
<1>1. TurnsInit => TurnsTyped
  BY StartsTyped
<1>2. TurnsTyped /\ [TurnsNext]_hookVars => TurnsTyped'
  BY StepTyped
<1>3. TurnsTyped => TurnsTypeOK
  BY DEF TurnsTyped
<1> QED
  BY <1>1, <1>2, <1>3, PTL DEF TurnsSpec

-----------------------------------------------------------------------------
\* Subagents.

\* Nothing but the subagents and the subscriber matters to them.
LEMMA SubsStay ==
    ASSUME SubsInv, UNCHANGED sub, subscribed' \in {subscribed, FALSE}
    PROVE  SubsInv'
BY DEF SubsInv, SubOk

\* A subagent that starts.
LEMMA SubStarts ==
    ASSUME TurnsTyped, SubsInv, NEW s \in Sessions, BeforeTool(s)
    PROVE  SubsInv'
<1>1. CASE UNCHANGED sub
  BY <1>1, SubsStay DEF BeforeTool
<1>2. ASSUME NEW t \in Subagents, sub[t].at = "none",
             sub' = [sub EXCEPT ![t].at = "run", ![t].of = turn[s].of]
      PROVE  SubsInv'
  <2>1. /\ sub[t] \in SubRecords /\ sub'[t].at = "run"
        /\ sub'[t].finalized = sub[t].finalized /\ sub'[t].histories = sub[t].histories
        /\ \A x \in Subagents \ {t} : sub'[x] = sub[x]
    BY <1>2 DEF TurnsTyped, TurnsTypeOK, SubRecords
  <2>2. SubOk(t) /\ subscribed' = subscribed
    BY DEF SubsInv, BeforeTool
  <2>3. SubOk(t)'
    BY <1>2, <2>1, <2>2 DEF SubOk
  <2>4. ASSUME NEW x \in Subagents \ {t}
        PROVE  SubOk(x)'
    BY <2>1, <2>2, <2>4 DEF SubsInv, SubOk
  <2> QED
    BY <2>3, <2>4 DEF SubsInv
<1> QED
  BY <1>1, <1>2 DEF BeforeTool

LEMMA SubGoes ==
    ASSUME TurnsAssumption, TurnsTyped, SubsInv, NEW t \in Subagents,
           SubTool(t) \/ PublishEnd(t) \/ Finalize(t)
    PROVE  SubsInv'
<1>1. sub[t] \in SubRecords /\ SubOk(t) /\ subscribed \in BOOLEAN /\ subscribed' = subscribed
  BY DEF TurnsTyped, TurnsTypeOK, SubsInv, SubTool, PublishEnd, Finalize
<1>2. ASSUME SubOk(t)', \A x \in Subagents \ {t} : sub'[x] = sub[x]
      PROVE  SubsInv'
  BY <1>1, <1>2 DEF SubsInv, SubOk
<1>3. \A x \in Subagents \ {t} : sub'[x] = sub[x]
  BY DEF SubTool, PublishEnd, Finalize, TurnsTyped, TurnsTypeOK
<1>4. CASE SubTool(t)
  <2>1. /\ sub'[t].at \in {"run", "tool"} /\ sub[t].at \in {"run", "tool"}
        /\ sub'[t].finalized = sub[t].finalized /\ sub'[t].histories = sub[t].histories
    BY <1>1, <1>4 DEF SubTool, Ensured, SubRecords, TurnsTyped, TurnsTypeOK
  <2>2. SubOk(t)'
    BY <1>1, <2>1 DEF SubOk
  <2> QED
    BY <1>2, <1>3, <2>2
<1>5. CASE PublishEnd(t)
  <2>1. ASSUME NEW e \in BOOLEAN, sub[t].at \in {"run", "tool"},
               sub' = [sub EXCEPT ![t].at = "finish", ![t].error = e,
                                  ![t].events = Handled(@)]
        PROVE  SubOk(t)'
    <3>1. /\ sub'[t].at = "finish" /\ sub'[t].events = Handled(sub[t].events)
          /\ sub'[t].finalized = sub[t].finalized /\ sub'[t].histories = sub[t].histories
      BY <1>1, <2>1 DEF SubRecords, TurnsTyped, TurnsTypeOK
    <3>2. subscribed => Handled(sub[t].events) >= 1
      BY <1>1 DEF Handled, SubRecords
    <3> QED
      BY <1>1, <2>1, <3>1, <3>2 DEF SubOk
  <2>2. ASSUME sub[t].at = "error",
               sub' = [sub EXCEPT ![t].at = "again", ![t].events = Handled(@)]
        PROVE  SubOk(t)'
    <3>1. /\ sub'[t].at = "again" /\ sub'[t].events = Handled(sub[t].events)
          /\ sub'[t].finalized = sub[t].finalized /\ sub'[t].histories = sub[t].histories
          /\ sub'[t].row = sub[t].row /\ sub'[t].error = sub[t].error
          /\ sub'[t].indexed = sub[t].indexed
      BY <1>1, <2>2 DEF SubRecords, TurnsTyped, TurnsTypeOK
    <3>2. sub[t].events >= 1 => Handled(sub[t].events) >= 1
      BY <1>1 DEF Handled, SubRecords
    <3> QED
      BY <1>1, <2>2, <3>1, <3>2 DEF SubOk
  <2>3. CASE sub[t].at = "error"
    <3>1. sub' = [sub EXCEPT ![t].at = "again", ![t].events = Handled(@)]
      BY <1>5, <2>3 DEF PublishEnd
    <3> QED
      BY <1>2, <1>3, <2>2, <2>3, <3>1
  <2>4. CASE sub[t].at # "error"
    <3>1. /\ sub[t].at \in {"run", "tool"}
          /\ \E e \in BOOLEAN :
               sub' = [sub EXCEPT ![t].at = "finish", ![t].error = e,
                                  ![t].events = Handled(@)]
      BY <1>5, <2>4 DEF PublishEnd
    <3> QED
      BY <1>2, <1>3, <2>1, <3>1
  <2> QED
    BY <2>3, <2>4
<1>6. CASE Finalize(t)
  <2>1. PICK next \in {"error", "end"} :
          sub' = [sub EXCEPT ![t] = [(IF MayFinalize(t) THEN Finalized(t) ELSE sub[t])
                                      EXCEPT !.at = next]]
    BY <1>6 DEF Finalize
  <2>2. sub[t].at \in {"finish", "again"}
    BY <1>6 DEF Finalize
  <2> DEFINE v == IF MayFinalize(t) THEN Finalized(t) ELSE sub[t]
  <2>3. /\ v.finalized /\ v.histories = 1 /\ v.events >= 1 /\ ~v.indexed
        /\ v.row = (IF v.error THEN "error" ELSE "finished")
        /\ v \in SubRecords
    <3>1. CASE sub[t].at = "again"
      <4>1. v = sub[t]
        BY <1>1, <3>1 DEF SubOk, MayFinalize
      <4> QED
        BY <1>1, <3>1, <4>1 DEF SubOk
    <3>2. CASE sub[t].at = "finish"
      <4>1. v = Finalized(t)
        BY <1>1, <3>2 DEF SubOk, MayFinalize
      <4> HIDE DEF v
      <4>2. /\ sub[t].histories = 0 /\ sub[t].events \in Nat
            /\ sub[t].events >= 1 \/ ~subscribed
        BY <1>1, <3>2 DEF SubOk, SubRecords
      <4>3. v.events >= 1 /\ v.histories = 1
        BY <3>2, <4>1, <4>2, Closing
      <4> QED
        BY <3>2, <4>1, <4>3, Closing
    <3> QED
      BY <2>2, <3>1, <3>2
  <2>4. sub'[t] = [v EXCEPT !.at = next]
    BY <2>1 DEF TurnsTyped, TurnsTypeOK
  <2> HIDE DEF v
  <2>5. /\ sub'[t].at = next /\ sub'[t].finalized /\ sub'[t].histories = 1
        /\ sub'[t].events = v.events /\ ~sub'[t].indexed
        /\ sub'[t].row = (IF sub'[t].error THEN "error" ELSE "finished")
    BY <2>3, <2>4 DEF SubRecords
  <2>6. SubOk(t)'
    BY <2>3, <2>5 DEF SubOk
  <2> QED
    BY <1>2, <1>3, <2>6
<1> QED
  BY <1>4, <1>5, <1>6

LEMMA SubsStep ==
    ASSUME TurnsAssumption, TurnsTyped, SubsInv, [TurnsNext]_hookVars
    PROVE  SubsInv'
<1>1. CASE UNCHANGED hookVars
  BY <1>1, SubsStay DEF hookVars
<1>2. ASSUME NEW q \in QuestionIds, Inbound(q)
      PROVE  SubsInv'
  BY <1>2, SubsStay DEF Inbound
<1>3. ASSUME NEW s \in Sessions, TurnOf(s)
      PROVE  SubsInv'
  BY <1>3, SubsStay, SubStarts
  DEF TurnOf, StartTurn, BeforeIteration, BeforeTools, AfterTool, ToolRaises, ToolEnds,
      AfterIteration, Answered, AfterRun, Assemble, Fail
<1>4. CASE Unsubscribe
  BY <1>4, SubsStay DEF Unsubscribe
<1> QED
  BY <1>1, <1>2, <1>3, <1>4, SubGoes DEF TurnsNext

-----------------------------------------------------------------------------
\* The questions of a session, in their order.

\* A turn goes on, and it ends.
Goes(s) ==
    /\ UNCHANGED <<asked, queued, crowded>>
    /\ turn[s].at # "idle" /\ turn'[s].at # "idle" /\ turn'[s].of = turn[s].of
    /\ \A x \in Sessions \ {s} : turn'[x] = turn[x]
Ends(s) ==
    /\ UNCHANGED <<asked, queued, crowded>>
    /\ turn[s].at # "idle" /\ turn'[s].at = "idle" /\ turn'[s].of = NoQuestion
    /\ \A x \in Sessions \ {s} : turn'[x] = turn[x]

LEMMA Goings ==
    ASSUME TurnsTyped, NEW s \in Sessions
    PROVE  /\ \/ BeforeIteration(s) \/ BeforeTool(s) \/ Answered(s)
              \/ (\E k \in 1..2 : BeforeTools(s, k)) \/ ToolEnds(s) \/ AfterIteration(s)
              => Goes(s) /\ turn[s].at # "ran" /\ turn'[s].at # "ran"
           /\ (\E error \in BOOLEAN : AfterRun(s, error)) => Goes(s) /\ turn'[s].at = "ran"
<1>1. turn \in [Sessions -> TurnRecords]
  BY DEF TurnsTyped, TurnsTypeOK
<1>2. ASSUME NEW place \in {"ready", "model", "tools", "tool", "done", "ran"},
             turn[s].at # "idle", UNCHANGED <<asked, queued, crowded>>, GoToPlace(s, place)
      PROVE  Goes(s) /\ turn'[s].at = place
  BY <1>1, <1>2 DEF GoToPlace, Goes, TurnRecords
<1>3. ASSUME BeforeIteration(s) \/ BeforeTool(s) \/ Answered(s)
      PROVE  Goes(s) /\ turn[s].at # "ran" /\ turn'[s].at # "ran"
  BY <1>2, <1>3 DEF BeforeIteration, BeforeTool, Answered, busVars
<1>4. ASSUME NEW error \in BOOLEAN, AfterRun(s, error)
      PROVE  Goes(s) /\ turn'[s].at = "ran"
  BY <1>2, <1>4 DEF AfterRun
<1>5. ASSUME NEW k \in 1..2, BeforeTools(s, k)
      PROVE  Goes(s) /\ turn[s].at # "ran" /\ turn'[s].at # "ran"
  <2>1. turn[s].at = "model" /\ UNCHANGED <<asked, queued, crowded>>
    BY <1>5 DEF BeforeTools, busVars
  <2>2. /\ turn'[s].at = "tools" /\ turn'[s].of = turn[s].of
        /\ \A x \in Sessions \ {s} : turn'[x] = turn[x]
    BY <1>1, <1>5 DEF BeforeTools, TurnRecords
  <2> QED
    BY <2>1, <2>2 DEF Goes
<1>6. ASSUME ToolEnds(s)
      PROVE  Goes(s) /\ turn[s].at # "ran" /\ turn'[s].at # "ran"
  <2>1. turn[s].at = "tool" /\ UNCHANGED <<asked, queued, crowded>>
    BY <1>6 DEF ToolEnds, busVars
  <2>2. /\ turn'[s].at = "tools" /\ turn'[s].of = turn[s].of
        /\ \A x \in Sessions \ {s} : turn'[x] = turn[x]
    BY <1>1, <1>6 DEF ToolEnds, TurnRecords
  <2> QED
    BY <2>1, <2>2 DEF Goes
<1>7. ASSUME AfterIteration(s)
      PROVE  Goes(s) /\ turn[s].at # "ran" /\ turn'[s].at # "ran"
  <2>1. turn[s].at = "tools" /\ UNCHANGED <<asked, queued, crowded>>
    BY <1>7 DEF AfterIteration, busVars
  <2>2. /\ turn'[s].at = "ready" /\ turn'[s].of = turn[s].of
        /\ \A x \in Sessions \ {s} : turn'[x] = turn[x]
    BY <1>1, <1>7 DEF AfterIteration, TurnRecords
  <2> QED
    BY <2>1, <2>2 DEF Goes
<1> QED
  BY <1>3, <1>4, <1>5, <1>6, <1>7

LEMMA Endings ==
    ASSUME TurnsTyped, NEW s \in Sessions, Assemble(s) \/ Fail(s)
    PROVE  Ends(s)
<1>1. turn[s].at # "idle" /\ turn' = [turn EXCEPT ![s] = IdleTurn]
  BY DEF Assemble, Fail
<1>2. UNCHANGED <<asked, queued, crowded>>
  BY DEF Assemble, Fail, busVars
<1> QED
  BY <1>1, <1>2 DEF Ends, IdleTurn, TurnsTyped, TurnsTypeOK

LEMMA GoesOrEnds ==
    ASSUME TurnsTyped, NEW s \in Sessions, TurnOf(s)
    PROVE  StartTurn(s) \/ Goes(s) \/ Ends(s)
BY Goings, Endings DEF TurnOf, AfterTool, ToolRaises

LEMMA Queues ==
    ASSUME TurnsTyped, NEW s \in Sessions
    PROVE  /\ queued[s] \in Seq(QuestionIds)
           /\ DOMAIN queued[s] = 1..Len(queued[s]) /\ Len(queued[s]) \in Nat
           /\ \A i \in DOMAIN queued[s] : queued[s][i] \in QuestionIds
BY DEF TurnsTyped, TurnsTypeOK

LEMMA QueueOfInbound ==
    ASSUME TurnsAssumption, TurnsTyped, QueueInv, NEW q \in QuestionIds, Inbound(q)
    PROVE  QueueInv'
<1> DEFINE s == SessionOf(q)
<1>1. s \in Sessions /\ q \in Nat /\ q # NoQuestion
  BY SomeFacts DEF NoQuestion
<1>2. /\ q \notin asked /\ \A p \in 1..q-1 : SessionOf(p) = s => p \in asked
      /\ asked' = asked \cup {q} /\ turn' = turn /\ asked \subseteq QuestionIds
      /\ queued' \in {queued, [queued EXCEPT ![s] = Append(@, q)]}
  BY DEF Inbound, TurnsTyped, TurnsTypeOK
<1>3. \A p \in asked : SessionOf(p) = s => p < q
  <2>1. ASSUME NEW p \in asked, SessionOf(p) = s, ~(p < q)
        PROVE  q \in 1..p-1
    BY <1>1, <1>2, <2>1, SomeFacts
  <2> QED
    BY <1>1, <1>2, <2>1 DEF QueueInv
<1>4. \A r \in asked' : \A p \in 1..r-1 : SessionOf(p) = SessionOf(r) => p \in asked'
  BY <1>2 DEF QueueInv
<1>5. ASSUME NEW x \in Sessions, queued'[x] = queued[x]
      PROVE  QueueOk(x)'
  BY <1>2, <1>5 DEF QueueInv, QueueOk, Before
<1>6. ASSUME queued' = [queued EXCEPT ![s] = Append(@, q)]
      PROVE  QueueOk(s)'
  <2> DEFINE old == queued[s]
             new == queued'[s]
             n == Len(old)
  <2>1. /\ DOMAIN old = 1..n /\ n \in Nat /\ DOMAIN new = 1..n+1
        /\ \A i \in 1..n : new[i] = old[i] /\ new[n+1] = q
    BY <1>1, <1>6, Queues DEF TurnsTyped, TurnsTypeOK
  <2>2. \A i \in 1..n : old[i] \in asked /\ SessionOf(old[i]) = s /\ old[i] < q
    BY <1>1, <1>3, <2>1 DEF QueueInv, QueueOk
  <2>3. \A i \in DOMAIN new : new[i] \in asked' /\ SessionOf(new[i]) = s
    <3>1. new[n+1] = q /\ \A i \in 1..n+1 : i = n+1 \/ i \in 1..n
      BY <1>1, <1>6, <2>1, Queues DEF TurnsTyped, TurnsTypeOK
    <3> QED
      BY <1>2, <2>1, <2>2, <3>1
  <2>4. new[n+1] = q /\ \A i \in 1..n+1 : i = n+1 \/ i \in 1..n
    BY <1>1, <1>6, <2>1, Queues DEF TurnsTyped, TurnsTypeOK
  <2>5. \A i, j \in 1..n : i < j => old[i] < old[j]
    BY <1>1, <2>1 DEF QueueInv, QueueOk
  <2>6. \A i, j \in DOMAIN new : i < j => new[i] < new[j]
    <3>1. ASSUME NEW i \in 1..n+1, NEW j \in 1..n+1, i < j
          PROVE  new[i] < new[j]
      <4>1. i \in 1..n
        BY <2>1, <3>1
      <4> QED
        BY <2>1, <2>2, <2>4, <2>5, <3>1, <4>1
    <3> QED
      BY <2>1, <3>1
  <2>7. /\ turn[s].at = "idle" => turn[s].of = NoQuestion
        /\ turn[s].of # NoQuestion =>
             /\ turn[s].of \in asked /\ SessionOf(turn[s].of) = s
             /\ \A i \in 1..n : turn[s].of < old[i]
    BY <1>1, <2>1 DEF QueueInv, QueueOk, Before
  <2>8. turn[s].of # NoQuestion => turn[s].of < q
    BY <1>3, <2>7
  <2>9. turn[s].of # NoQuestion => \A i \in DOMAIN new : turn[s].of < new[i]
    BY <2>1, <2>4, <2>7, <2>8
  <2> HIDE DEF new, old, n
  <2> QED
    BY <1>2, <2>3, <2>6, <2>7, <2>9 DEF QueueOk, Before, new
<1>7. ASSUME NEW x \in Sessions
      PROVE  QueueOk(x)'
  <2>1. CASE queued'[x] = queued[x]
    BY <1>5, <2>1
  <2>2. CASE queued'[x] # queued[x]
    <3>1. x = s /\ queued' = [queued EXCEPT ![s] = Append(@, q)]
      BY <1>2, <2>2 DEF TurnsTyped, TurnsTypeOK
    <3> QED
      BY <1>6, <3>1
  <2> QED
    BY <2>1, <2>2
<1> QED
  BY <1>4, <1>7 DEF QueueInv

LEMMA QueueOfStart ==
    ASSUME TurnsAssumption, TurnsTyped, QueueInv, NEW s \in Sessions, StartTurn(s)
    PROVE  /\ QueueInv' /\ UNCHANGED <<asked, crowded>>
           /\ turn'[s].of = Head(queued[s]) /\ turn'[s].at = "ready"
           /\ ToSet(queued[s]) = ToSet(queued'[s]) \cup {turn'[s].of}
           /\ turn[s].of = NoQuestion /\ turn'[s].of \in asked
           /\ \A x \in Sessions \ {s} : turn'[x] = turn[x] /\ queued'[x] = queued[x]
<1> DEFINE old == queued[s]
           new == queued'[s]
           n == Len(old)
           q == Head(old)
<1>1. /\ asked' = asked /\ crowded' = crowded /\ old # <<>> /\ turn[s].at = "idle"
      /\ queued' = [queued EXCEPT ![s] = Tail(@)]
  BY DEF StartTurn
<1>2. /\ turn'[s].of = q /\ turn'[s].at = "ready"
      /\ \A x \in Sessions \ {s} : turn'[x] = turn[x] /\ queued'[x] = queued[x]
  BY <1>1 DEF StartTurn, TurnsTyped, TurnsTypeOK, IdleTurn
<1>3. /\ old \in Seq(QuestionIds) /\ n \in Nat /\ DOMAIN old = 1..n /\ n >= 1
      /\ new = Tail(old)
  BY <1>1, Queues DEF TurnsTyped, TurnsTypeOK
<1>4. /\ DOMAIN new = 1..n-1 /\ q = old[1] /\ \A i \in 1..n-1 : new[i] = old[i+1]
  <2>1. old \in Seq(QuestionIds) /\ old # <<>> /\ new = Tail(old)
    BY <1>1, <1>3
  <2> HIDE DEF old, new
  <2>2. /\ Tail(old) \in Seq(QuestionIds) /\ Len(Tail(old)) = Len(old) - 1
        /\ \A i \in 1..Len(Tail(old)) : Tail(old)[i] = old[i+1]
    BY <2>1, HeadTailProperties
  <2> QED
    BY <2>1, <2>2
<1>5. /\ \A i \in 1..n : old[i] \in asked /\ SessionOf(old[i]) = s
      /\ \A i, j \in 1..n : i < j => old[i] < old[j]
      /\ turn[s].of = NoQuestion
  BY <1>1, <1>3 DEF QueueInv, QueueOk
<1>6. q \in asked /\ SessionOf(q) = s
  BY <1>3, <1>4, <1>5
<1>7. \A i \in DOMAIN new : q < new[i] /\ new[i] \in asked /\ SessionOf(new[i]) = s
  <2>1. ASSUME NEW i \in 1..n-1
        PROVE  1 \in 1..n /\ i + 1 \in 1..n /\ 1 < i + 1
    BY <1>3
  <2> QED
    BY <1>4, <1>5, <2>1
<1>8. \A i, j \in DOMAIN new : i < j => new[i] < new[j]
  <2>1. ASSUME NEW i \in 1..n-1, NEW j \in 1..n-1, i < j
        PROVE  i + 1 \in 1..n /\ j + 1 \in 1..n /\ i + 1 < j + 1
    BY <1>3, <2>1
  <2> QED
    BY <1>4, <1>5, <2>1
<1>9. ToSet(old) = ToSet(new) \cup {q}
  <2>1. \A i \in 1..n : i = 1 \/ (i - 1 \in 1..n-1 /\ (i - 1) + 1 = i)
    BY <1>3
  <2>2. \A i \in 1..n-1 : i + 1 \in 1..n
    BY <1>3
  <2>3. 1 \in 1..n
    BY <1>3
  <2> HIDE DEF old, new, n, q
  <2> QED
    <3>1. ASSUME NEW i \in 1..n
          PROVE  old[i] \in ToSet(new) \cup {q}
      <4>1. CASE i = 1
        BY <1>4, <4>1
      <4>2. CASE i - 1 \in 1..n-1 /\ (i - 1) + 1 = i
        <5>1. new[i-1] = old[i]
          BY <1>4, <4>2
        <5> QED
          BY <1>4, <4>2, <5>1 DEF ToSet
      <4> QED
        BY <2>1, <4>1, <4>2
    <3>2. ASSUME NEW i \in 1..n-1
          PROVE  new[i] \in ToSet(old)
      BY <1>3, <1>4, <2>2, <3>2 DEF ToSet
    <3>3. q \in ToSet(old)
      BY <1>3, <1>4, <2>3 DEF ToSet
    <3> QED
      BY <1>3, <1>4, <3>1, <3>2, <3>3 DEF ToSet
<1>10. QueueOk(s)'
  <2> HIDE DEF new, old, n, q
  <2> QED
    BY <1>1, <1>2, <1>6, <1>7, <1>8 DEF QueueOk, Before, new
<1>11. ASSUME NEW x \in Sessions \ {s}
       PROVE  QueueOk(x)'
  BY <1>1, <1>2, <1>11 DEF QueueInv, QueueOk, Before
<1> QED
  BY <1>1, <1>2, <1>5, <1>6, <1>9, <1>10, <1>11 DEF QueueInv

LEMMA QueueStays ==
    ASSUME QueueInv, NEW s \in Sessions, Goes(s) \/ Ends(s)
    PROVE  QueueInv'
<1>1. asked' = asked /\ queued' = queued
  BY DEF Goes, Ends
<1>2. QueueOk(s)'
  BY <1>1 DEF QueueInv, QueueOk, Before, Goes, Ends
<1>3. ASSUME NEW x \in Sessions \ {s}
      PROVE  QueueOk(x)'
  BY <1>1, <1>3 DEF QueueInv, QueueOk, Before, Goes, Ends
<1> QED
  BY <1>1, <1>2, <1>3 DEF QueueInv

\* A step that is not about questions and turns.
LEMMA OtherSteps ==
    ASSUME [TurnsNext]_hookVars
    PROVE  \/ \E q \in QuestionIds : Inbound(q)
           \/ \E s \in Sessions : TurnOf(s)
           \/ UNCHANGED <<busVars, turn, hook, buckets, outcomes, crowded, failed>>
<1>1. ASSUME NEW t \in Subagents, SubTool(t) \/ PublishEnd(t) \/ Finalize(t)
      PROVE  UNCHANGED <<busVars, turn, hook, buckets, outcomes, crowded, failed>>
  BY <1>1 DEF SubTool, PublishEnd, Finalize
<1>2. ASSUME Unsubscribe \/ UNCHANGED hookVars
      PROVE  UNCHANGED <<busVars, turn, hook, buckets, outcomes, crowded, failed>>
  BY <1>2 DEF Unsubscribe, hookVars
<1> QED
  BY <1>1, <1>2 DEF TurnsNext

LEMMA QueueStep ==
    ASSUME TurnsAssumption, TurnsTyped, QueueInv, [TurnsNext]_hookVars
    PROVE  QueueInv'
<1>1. ASSUME UNCHANGED <<busVars, turn>>
      PROVE  QueueInv'
  BY <1>1 DEF busVars, QueueInv, QueueOk, Before
<1> QED
  BY <1>1, OtherSteps, QueueOfInbound, QueueOfStart, GoesOrEnds, QueueStays

-----------------------------------------------------------------------------
\* The question that a hook names.

LEMMA Pendings ==
    ASSUME TurnsAssumption, TurnsTyped, QueueInv, NEW s \in Sessions
    PROVE  /\ PendingIn(s) \subseteq asked /\ \A q \in PendingIn(s) : SessionOf(q) = s
           /\ turn[s].of # NoQuestion => turn[s].of \in PendingIn(s) \ ToSet(queued[s])
<1>1. ToSet(queued[s]) \subseteq asked /\ \A q \in ToSet(queued[s]) : SessionOf(q) = s
  BY DEF QueueInv, QueueOk, ToSet
<1>2. turn[s].of # NoQuestion => turn[s].of \notin ToSet(queued[s])
  <2>1. ASSUME turn[s].of # NoQuestion, NEW i \in DOMAIN queued[s], turn[s].of = queued[s][i]
        PROVE  FALSE
    <3>1. turn[s].of < queued[s][i] /\ turn[s].of \in Nat
      BY <2>1, SomeFacts, TurnFields DEF QueueInv, QueueOk, Before
    <3> QED
      BY <2>1, <3>1
  <2> QED
    BY <2>1 DEF ToSet
<1>3. turn[s].of # NoQuestion => turn[s].of \in asked /\ SessionOf(turn[s].of) = s
  BY DEF QueueInv, QueueOk, Before
<1> QED
  BY <1>1, <1>2, <1>3 DEF PendingIn

\* The steps that leave the registry as it is, and note what it or the hook names.
Notes(s) ==
    /\ Goes(s) /\ turn[s].at # "ran" /\ turn'[s].at # "ran"
    /\ UNCHANGED <<registry, statuses, endings>>
    /\ hook' \in {hook, [hook EXCEPT ![s] = registry[s]]}
    /\ \/ logged' = logged
       \/ logged' = logged \cup {<<turn[s].of, registry[s]>>}
       \/ logged' = logged \cup {<<turn[s].of, hook[s]>>}

LEMMA TurnNotes ==
    ASSUME TurnsTyped, NEW s \in Sessions, TurnOf(s)
    PROVE  \/ StartTurn(s) \/ Notes(s) \/ Assemble(s) \/ Fail(s)
           \/ \E error \in BOOLEAN : AfterRun(s, error)
<1>1. ASSUME BeforeIteration(s) \/ BeforeTool(s) \/ Answered(s) \/ AfterIteration(s)
      PROVE  Notes(s)
  BY <1>1, Goings DEF BeforeIteration, BeforeTool, Answered, AfterIteration, Notes, Captured,
                      HookOf, Log, busVars, outcomes
<1>2. ASSUME NEW k \in 1..2, BeforeTools(s, k)
      PROVE  Notes(s)
  BY <1>2, Goings DEF BeforeTools, Notes, busVars, outcomes
<1>3. ASSUME ToolEnds(s)
      PROVE  Notes(s)
  BY <1>3, Goings DEF ToolEnds, Notes, HookOf, Log, busVars
<1> QED
  BY <1>1, <1>2, <1>3 DEF TurnOf, AfterTool, ToolRaises

\* In a session that nothing happened to, the names are right as they were.
LEMMA NamesElsewhere ==
    ASSUME NamesInv, NEW x \in Sessions, turn'[x] = turn[x], queued'[x] = queued[x],
           registry'[x] = registry[x], hook'[x] = hook[x], crowded \subseteq crowded'
    PROVE  NamesOk(x)'
<1>1. PendingIn(x)' = PendingIn(x)
  BY DEF PendingIn
<1> QED
  BY <1>1 DEF NamesInv, NamesOk

LEMMA NamesOfNotes ==
    ASSUME TurnsAssumption, TurnsTyped, QueueInv, NamesInv, NEW s \in Sessions, Notes(s)
    PROVE  NamesInv'
<1> DEFINE q == turn[s].of
<1>1. /\ turn[s].at \notin {"idle", "ran"} /\ q # NoQuestion /\ q \in PendingIn(s)
      /\ turn'[s].at \notin {"idle", "ran"} /\ turn'[s].of = q /\ SessionOf(q) = s
      /\ UNCHANGED <<asked, queued, crowded, registry, statuses, endings>>
      /\ \A x \in Sessions \ {s} : turn'[x] = turn[x] /\ hook'[x] = hook[x]
      /\ hook'[s] \in {hook[s], registry[s]}
  BY Pendings DEF Notes, Goes, TurnsTyped, TurnsTypeOK, TurnFits
<1>2. PendingIn(s)' = PendingIn(s)
  BY <1>1 DEF PendingIn
<1>3. NamesOk(s)'
  BY <1>1, <1>2 DEF NamesInv, NamesOk
<1>4. ASSUME NEW x \in Sessions \ {s}
      PROVE  NamesOk(x)'
  BY <1>1, <1>4, NamesElsewhere
<1>5. ASSUME NEW r \in {registry[s], hook[s]}
      PROVE  /\ r # NoQuestion => SessionOf(QuestionOf(r)) = SessionOf(q)
             /\ q \in crowded \/ r = q
  BY <1>1, <1>5 DEF NamesInv, NamesOk
<1>6. EventsAreOwn'
  <2>1. ASSUME NEW e \in logged'
        PROVE  /\ e[2] # NoQuestion => SessionOf(QuestionOf(e[2])) = SessionOf(e[1])
               /\ e[1] \in crowded \/ e[2] = e[1]
    <3>1. CASE e \in logged
      BY <3>1 DEF NamesInv, EventsAreOwn
    <3>2. CASE e = <<q, registry[s]>> \/ e = <<q, hook[s]>>
      BY <1>5, <3>2
    <3> QED
      BY <2>1, <3>1, <3>2 DEF Notes
  <2>2. \A p \in QuestionIds \ crowded' :
          endings'[p] = "ran" => statuses'[p] \in {"finished", "error"}
    BY <1>1 DEF NamesInv, EventsAreOwn
  <2> QED
    BY <1>1, <2>1, <2>2 DEF EventsAreOwn
<1> QED
  BY <1>1, <1>3, <1>4, <1>6 DEF NamesInv

LEMMA NamesOfRun ==
    ASSUME TurnsAssumption, TurnsTyped, QueueInv, NamesInv, NEW s \in Sessions,
           NEW error \in BOOLEAN, AfterRun(s, error)
    PROVE  NamesInv'
<1> DEFINE q == turn[s].of
           r == hook[s]
<1>1. Goes(s) /\ turn'[s].at = "ran" /\ turn[s].at \notin {"idle", "ran"}
  BY Goings DEF AfterRun
<1>2. /\ q # NoQuestion /\ q \in PendingIn(s) /\ SessionOf(q) = s /\ q \in asked
      /\ turn'[s].of = q /\ UNCHANGED <<asked, queued, crowded>>
      /\ \A x \in Sessions \ {s} : turn'[x] = turn[x]
  BY <1>1, Pendings DEF Goes, TurnsTyped, TurnFits
<1>3. /\ registry' = [registry EXCEPT ![s] = NoQuestion]
      /\ hook' = [hook EXCEPT ![s] = NoQuestion]
      /\ endings' = [endings EXCEPT ![q] = "ran"]
      /\ logged' = logged \cup {<<q, r>>}
      /\ statuses' = IF r = NoQuestion THEN statuses
                     ELSE [statuses EXCEPT ![r] = IF error THEN "error" ELSE "finished"]
  BY DEF AfterRun, HookOf, Log
<1>4. /\ r # NoQuestion => SessionOf(QuestionOf(r)) = SessionOf(q)
      /\ q \in crowded \/ r = q
  BY <1>1, <1>2 DEF NamesInv, NamesOk
<1>5. NamesOk(s)'
  <2>1. PendingIn(s)' = PendingIn(s)
    BY <1>2 DEF PendingIn
  <2>2. registry'[s] = NoQuestion /\ hook'[s] = NoQuestion
    BY <1>3 DEF TurnsTyped, TurnsTypeOK
  <2> QED
    BY <1>1, <1>2, <2>1, <2>2 DEF NamesInv, NamesOk
<1>6. ASSUME NEW x \in Sessions \ {s}
      PROVE  NamesOk(x)'
  BY <1>2, <1>3, <1>6, NamesElsewhere DEF TurnsTyped, TurnsTypeOK
<1>7. EventsAreOwn'
  <2>1. ASSUME NEW e \in logged'
        PROVE  /\ e[2] # NoQuestion => SessionOf(QuestionOf(e[2])) = SessionOf(e[1])
               /\ e[1] \in crowded \/ e[2] = e[1]
    <3>1. CASE e \in logged
      BY <3>1 DEF NamesInv, EventsAreOwn
    <3>2. CASE e = <<q, r>>
      BY <1>4, <3>2
    <3> QED
      BY <1>3, <2>1, <3>1, <3>2
  <2>2. ASSUME NEW p \in QuestionIds \ crowded, endings'[p] = "ran"
        PROVE  statuses'[p] \in {"finished", "error"}
    <3>1. p \in RequestIds /\ statuses \in [RequestIds -> {"none", "running", "finished", "error"}]
          /\ endings \in [QuestionIds -> {"no", "ran", "failed", "cut"}]
      BY SomeFacts DEF TurnsTyped, TurnsTypeOK
    <3>2. CASE p = q
      <4>1. r = p /\ r # NoQuestion
        BY <1>2, <1>4, <3>2
      <4> QED
        BY <1>3, <3>1, <4>1
    <3>3. CASE p # q
      <4>1. statuses[p] \in {"finished", "error"}
        BY <1>3, <2>2, <3>1, <3>3 DEF NamesInv, EventsAreOwn
      <4> QED
        BY <1>3, <3>1, <4>1
    <3> QED
      BY <3>2, <3>3
  <2> QED
    BY <1>2, <2>1, <2>2 DEF EventsAreOwn
<1>8. \A p \in QuestionIds : endings'[p] # "no" => p \in asked'
  BY <1>2, <1>3 DEF NamesInv, TurnsTyped, TurnsTypeOK
<1> QED
  BY <1>5, <1>6, <1>7, <1>8 DEF NamesInv

LEMMA NamesOfInbound ==
    ASSUME TurnsAssumption, TurnsTyped, QueueInv, NamesInv, NEW q \in QuestionIds, Inbound(q)
    PROVE  NamesInv'
<1> DEFINE s == SessionOf(q)
<1>1. /\ s \in Sessions /\ q \in RequestIds /\ QuestionOf(q) = q /\ q # NoQuestion
      /\ q \notin asked /\ asked' = asked \cup {q}
      /\ UNCHANGED <<turn, hook, endings, logged>>
  BY SomeFacts DEF Inbound, outcomes
<1>2. /\ registry' = [registry EXCEPT ![s] = q]
      /\ statuses' = [statuses EXCEPT ![q] = "running"]
      /\ queued' \in {queued, [queued EXCEPT ![s] = Append(@, q)]}
  BY DEF Inbound, RegisterRequest
<1>3. /\ PendingIn(s) = {} => crowded' = crowded
      /\ PendingIn(s) # {} => crowded' = crowded \cup PendingIn(s) \cup {q}
  BY DEF Inbound
<1>4. crowded \subseteq crowded'
  BY <1>3
<1>5. PendingIn(s)' \subseteq PendingIn(s) \cup {q}
  <2>1. CASE queued' = queued
    BY <1>1, <2>1 DEF PendingIn
  <2>2. CASE queued' = [queued EXCEPT ![s] = Append(@, q)]
    <3>1. queued'[s] = Append(queued[s], q) /\ queued[s] \in Seq(QuestionIds)
      BY <1>1, <2>2 DEF TurnsTyped, TurnsTypeOK
    <3>2. \A i \in DOMAIN queued'[s] :
            queued'[s][i] = q \/ (i \in DOMAIN queued[s] /\ queued'[s][i] = queued[s][i])
      BY <3>1
    <3>3. ToSet(queued'[s]) \subseteq ToSet(queued[s]) \cup {q}
      BY <3>2 DEF ToSet
    <3> QED
      BY <1>1, <3>3 DEF PendingIn
  <2> QED
    BY <1>2, <2>1, <2>2
<1>6. NamesOk(s)'
  <2>1. registry'[s] = q /\ hook'[s] = hook[s] /\ turn'[s] = turn[s]
    BY <1>1, <1>2 DEF TurnsTyped, TurnsTypeOK
  <2>2. ASSUME NEW p \in PendingIn(s)', p \notin crowded'
        PROVE  p = q /\ PendingIn(s)' = {q} /\ turn[s].at = "idle"
    <3>1. PendingIn(s) = {}
      BY <1>3, <1>5, <2>2
    <3>2. turn[s].of = NoQuestion
      BY <3>1 DEF PendingIn
    <3> QED
      BY <1>1, <1>5, <2>2, <3>1, <3>2 DEF TurnsTyped, TurnFits
  <2>3. hook[s] # NoQuestion => SessionOf(QuestionOf(hook[s])) = s
    BY <1>1 DEF NamesInv, NamesOk
  <2> HIDE DEF s
  <2> QED
    BY <1>1, <2>1, <2>2, <2>3 DEF NamesOk, s
<1>7. ASSUME NEW x \in Sessions \ {s}
      PROVE  NamesOk(x)'
  BY <1>1, <1>2, <1>4, <1>7, NamesElsewhere DEF TurnsTyped, TurnsTypeOK
<1>8. \A p \in QuestionIds : endings'[p] # "no" => p \in asked'
  BY <1>1 DEF NamesInv
<1>9. EventsAreOwn'
  <2>1. \A p \in QuestionIds \ crowded' :
          endings'[p] = "ran" => statuses'[p] \in {"finished", "error"}
    <3>1. ASSUME NEW p \in QuestionIds \ crowded', endings[p] = "ran"
          PROVE  p # q /\ statuses[p] \in {"finished", "error"}
      BY <1>1, <1>4, <3>1 DEF NamesInv, EventsAreOwn
    <3> QED
      BY <1>1, <1>2, <3>1 DEF TurnsTyped, TurnsTypeOK
  <2> QED
    BY <1>1, <1>4, <2>1 DEF NamesInv, EventsAreOwn
<1> QED
  BY <1>6, <1>7, <1>8, <1>9 DEF NamesInv

LEMMA NamesOfStart ==
    ASSUME TurnsAssumption, TurnsTyped, QueueInv, NamesInv, NEW s \in Sessions, StartTurn(s)
    PROVE  NamesInv'
<1> DEFINE q == Head(queued[s])
           r == IF registry[s] = NoQuestion THEN Own(q) ELSE registry[s]
<1>1. /\ UNCHANGED <<asked, crowded, endings, logged>>
      /\ turn'[s].of = q /\ turn'[s].at = "ready" /\ turn[s].of = NoQuestion
      /\ ToSet(queued[s]) = ToSet(queued'[s]) \cup {q} /\ q \in asked /\ turn[s].at = "idle"
      /\ \A x \in Sessions \ {s} : turn'[x] = turn[x] /\ queued'[x] = queued[x]
  BY QueueOfStart DEF StartTurn, outcomes
<1>2. /\ hook' = [hook EXCEPT ![s] = r]
      /\ registry' = [registry EXCEPT ![s] = r]
      /\ \/ registry[s] = NoQuestion /\ statuses' = [statuses EXCEPT ![r] = "running"]
         \/ statuses' = statuses
  BY DEF StartTurn, HookOf, RegisterRequest, TurnsTyped, TurnsTypeOK
<1>3. q \in PendingIn(s) /\ SessionOf(q) = s /\ q \in QuestionIds /\ q # NoQuestion
  <2>1. q \in PendingIn(s)
    BY <1>1 DEF PendingIn
  <2> QED
    BY <1>1, <2>1, Pendings, SomeFacts DEF TurnsTyped, TurnsTypeOK, NoQuestion
<1>4. PendingIn(s)' = PendingIn(s)
  BY <1>1, <1>3 DEF PendingIn
<1>5. r # NoQuestion /\ SessionOf(QuestionOf(r)) = s
  BY <1>3, SomeFacts DEF NamesInv, NamesOk
<1>6. \A p \in PendingIn(s) \ crowded : PendingIn(s) = {p} /\ r = p
  BY <1>1, <1>3 DEF NamesInv, NamesOk
<1> HIDE DEF r
<1>7. NamesOk(s)'
  <2>1. registry'[s] = r /\ hook'[s] = r
    BY <1>2 DEF TurnsTyped, TurnsTypeOK
  <2> QED
    BY <1>1, <1>4, <1>5, <1>6, <2>1 DEF NamesOk
<1>8. ASSUME NEW x \in Sessions \ {s}
      PROVE  NamesOk(x)'
  BY <1>1, <1>2, <1>8, NamesElsewhere DEF TurnsTyped, TurnsTypeOK
<1>9. EventsAreOwn'
  <2>1. ASSUME NEW p \in QuestionIds
        PROVE  statuses'[p] = statuses[p]
    <3>1. CASE registry[s] = NoQuestion
      <4>1. r \notin QuestionIds /\ r \in RequestIds
        BY <1>3, <3>1, SomeFacts DEF r
      <4> QED
        BY <1>2, <3>1, <4>1, SomeFacts DEF TurnsTyped, TurnsTypeOK
    <3>2. CASE registry[s] # NoQuestion
      BY <1>2, <3>2
    <3> QED
      BY <3>1, <3>2
  <2> QED
    BY <1>1, <2>1 DEF NamesInv, EventsAreOwn
<1> QED
  BY <1>1, <1>7, <1>8, <1>9 DEF NamesInv

LEMMA NamesOfEnd ==
    ASSUME TurnsAssumption, TurnsTyped, QueueInv, NamesInv, NEW s \in Sessions,
           Assemble(s) \/ Fail(s)
    PROVE  NamesInv'
<1> DEFINE q == turn[s].of
<1>1. /\ Ends(s) /\ UNCHANGED <<registry, hook, statuses, logged>>
      /\ \/ endings' = endings
         \/ \E end \in {"failed", "cut"} : endings' = [endings EXCEPT ![q] = end]
  BY Endings DEF Assemble, Fail, busVars
<1>2. /\ UNCHANGED <<asked, queued, crowded>> /\ turn'[s].at = "idle"
      /\ turn'[s].of = NoQuestion /\ q # NoQuestion
      /\ \A x \in Sessions \ {s} : turn'[x] = turn[x]
  BY <1>1 DEF Ends, TurnsTyped, TurnFits
<1>3. q \in PendingIn(s) \ ToSet(queued[s]) /\ q \in asked
  BY <1>2, Pendings
<1>4. PendingIn(s)' \subseteq PendingIn(s) /\ q \notin PendingIn(s)'
  BY <1>2, <1>3 DEF PendingIn
<1>5. NamesOk(s)'
  <2>1. \A p \in PendingIn(s)' : p \in crowded
    BY <1>3, <1>4 DEF NamesInv, NamesOk
  <2> QED
    BY <1>1, <1>2, <2>1 DEF NamesInv, NamesOk
<1>6. ASSUME NEW x \in Sessions \ {s}
      PROVE  NamesOk(x)'
  BY <1>1, <1>2, <1>6, NamesElsewhere
<1>7. /\ \A p \in QuestionIds : endings'[p] # "no" => p \in asked'
      /\ \A p \in QuestionIds : endings'[p] = "ran" => endings[p] = "ran"
  <2>1. endings \in [QuestionIds -> {"no", "ran", "failed", "cut"}]
    BY DEF TurnsTyped, TurnsTypeOK
  <2> QED
    BY <1>1, <1>2, <1>3, <2>1 DEF NamesInv
<1>8. EventsAreOwn'
  BY <1>1, <1>2, <1>7 DEF NamesInv, EventsAreOwn
<1> QED
  BY <1>5, <1>6, <1>7, <1>8 DEF NamesInv

LEMMA NamesStep ==
    ASSUME TurnsAssumption, TurnsTyped, QueueInv, NamesInv, [TurnsNext]_hookVars
    PROVE  NamesInv'
<1>1. ASSUME UNCHANGED <<busVars, turn, hook, buckets, outcomes, crowded, failed>>
      PROVE  NamesInv'
  BY <1>1 DEF busVars, outcomes, NamesInv, NamesOk, PendingIn, EventsAreOwn
<1> QED
  BY <1>1, OtherSteps, TurnNotes, NamesOfInbound, NamesOfStart, NamesOfNotes, NamesOfRun,
     NamesOfEnd

-----------------------------------------------------------------------------
\* The buckets of a session.

LEMMA Appended ==
    ASSUME NEW S, NEW s \in Seq(S), NEW x \in S
    PROVE  ToSet(Append(s, x)) = ToSet(s) \cup {x}
<1>1. /\ DOMAIN s = 1..Len(s) /\ Len(s) \in Nat /\ DOMAIN Append(s, x) = 1..Len(s)+1
      /\ \A i \in 1..Len(s) : Append(s, x)[i] = s[i]
      /\ Append(s, x)[Len(s)+1] = x
  OBVIOUS
<1>2. \A i \in 1..Len(s)+1 : i \in 1..Len(s) \/ i = Len(s)+1
  BY <1>1
<1>3. 1..Len(s) \subseteq 1..Len(s)+1 /\ Len(s)+1 \in 1..Len(s)+1
  BY <1>1
<1>4. \A y \in ToSet(Append(s, x)) : y \in ToSet(s) \cup {x}
  BY <1>1, <1>2 DEF ToSet
<1>5. \A y \in ToSet(s) \cup {x} : y \in ToSet(Append(s, x))
  BY <1>1, <1>3 DEF ToSet
<1> QED
  BY <1>4, <1>5

LEMMA Buckets ==
    ASSUME TurnsTyped, NEW s \in Sessions
    PROVE  /\ audit[s] \in Seq(Entries) /\ paths[s] \in Seq(Calls) /\ pendingStart[s] \in Nat
           /\ \A i \in DOMAIN audit[s] :
                /\ audit[s][i].call \in Calls /\ audit[s][i].call.of \in QuestionIds
                /\ audit[s][i].result \in Calls \cup {NoCall}
           /\ DOMAIN audit[s] = 1..Len(audit[s]) /\ Len(audit[s]) \in Nat
           /\ DOMAIN paths[s] = 1..Len(paths[s]) /\ Len(paths[s]) \in Nat
<1>1. /\ audit[s] \in Seq(Entries) /\ paths[s] \in Seq(Calls) /\ pendingStart[s] \in Nat
  BY DEF TurnsTyped, TurnsTypeOK
<1>2. \A i \in DOMAIN audit[s] : audit[s][i] \in Entries
  BY <1>1
<1>3. \A e \in Entries :
        e.call \in Calls /\ e.call.of \in QuestionIds /\ e.result \in Calls \cup {NoCall}
  BY DEF Entries, Calls
<1> QED
  BY <1>1, <1>2, <1>3

LEMMA PendingOfInbound ==
    ASSUME TurnsAssumption, TurnsTyped, QueueInv, NEW q \in QuestionIds, Inbound(q)
    PROVE  /\ PendingIn(SessionOf(q))' \subseteq PendingIn(SessionOf(q)) \cup {q}
           /\ \A i \in DOMAIN queued'[SessionOf(q)] :
                \/ queued'[SessionOf(q)][i] = q
                \/ /\ i \in DOMAIN queued[SessionOf(q)]
                   /\ queued'[SessionOf(q)][i] = queued[SessionOf(q)][i]
           /\ \A x \in Sessions \ {SessionOf(q)} : queued'[x] = queued[x]
           /\ \A p \in asked : SessionOf(p) = SessionOf(q) => p < q
<1> DEFINE s == SessionOf(q)
<1>1. s \in Sessions /\ turn' = turn /\ queued \in [Sessions -> Seq(QuestionIds)]
  BY SomeFacts DEF Inbound, TurnsTyped, TurnsTypeOK
<1>2. queued' \in {queued, [queued EXCEPT ![s] = Append(@, q)]}
  BY DEF Inbound
<1>3. \A i \in DOMAIN queued'[s] :
        queued'[s][i] = q \/ (i \in DOMAIN queued[s] /\ queued'[s][i] = queued[s][i])
  <2>1. CASE queued' = queued
    BY <2>1
  <2>2. CASE queued' = [queued EXCEPT ![s] = Append(@, q)]
    <3>1. queued'[s] = Append(queued[s], q) /\ queued[s] \in Seq(QuestionIds)
      BY <1>1, <2>2
    <3> QED
      BY <3>1
  <2> QED
    BY <1>2, <2>1, <2>2
<1>4. ToSet(queued'[s]) \subseteq ToSet(queued[s]) \cup {q}
  BY <1>3 DEF ToSet
<1>5. PendingIn(s)' \subseteq PendingIn(s) \cup {q}
  BY <1>1, <1>4 DEF PendingIn
<1>6. \A p \in asked : SessionOf(p) = s => p < q
  <2>1. ASSUME NEW p \in asked, SessionOf(p) = s, ~(p < q)
        PROVE  FALSE
    <3>1. p \in QuestionIds /\ q \notin asked
      BY DEF TurnsTyped, TurnsTypeOK, Inbound
    <3>2. q \in 1..p-1
      BY <2>1, <3>1, SomeFacts
    <3> QED
      BY <2>1, <3>1, <3>2 DEF QueueInv
  <2> QED
    BY <2>1
<1> QED
  BY <1>1, <1>2, <1>3, <1>5, <1>6

\* A question that is over stays so.
LEMMA OverStays ==
    ASSUME TurnsAssumption, TurnsTyped, QueueInv, [TurnsNext]_hookVars,
           NEW p \in QuestionIds, Over(p)
    PROVE  Over(p)'
<1> DEFINE s == SessionOf(p)
<1>1. s \in Sessions /\ p \in asked /\ p \notin PendingIn(s)
  BY SomeFacts DEF Over
<1>2. ASSUME NEW q \in QuestionIds, Inbound(q)
      PROVE  Over(p)'
  <2>1. p # q /\ p \in asked' /\ turn' = turn
    BY <1>1, <1>2 DEF Inbound
  <2>2. CASE s = SessionOf(q)
    BY <1>1, <1>2, <2>1, <2>2, PendingOfInbound DEF Over
  <2>3. CASE s # SessionOf(q)
    <3>1. queued'[s] = queued[s]
      BY <1>1, <1>2, <2>3, PendingOfInbound
    <3> QED
      BY <1>1, <2>1, <3>1 DEF Over, PendingIn
  <2> QED
    BY <2>2, <2>3
<1>3. ASSUME NEW x \in Sessions, StartTurn(x)
      PROVE  Over(p)'
  <2>1. asked' = asked /\ PendingIn(s)' = PendingIn(s)
    <3>1. CASE s = x
      <4>1. /\ ToSet(queued[x]) = ToSet(queued'[x]) \cup {turn'[x].of}
            /\ turn[x].of = NoQuestion /\ turn'[x].of \in asked /\ asked' = asked
        BY <1>3, QueueOfStart
      <4>2. turn'[x].of # NoQuestion
        BY <4>1, SomeFacts DEF TurnsTyped, TurnsTypeOK, NoQuestion
      <4>3. PendingIn(x)' = PendingIn(x)
        BY <4>1, <4>2 DEF PendingIn
      <4> QED
        BY <3>1, <4>1, <4>3
    <3>2. CASE s # x
      BY <1>1, <1>3, <3>2, QueueOfStart DEF PendingIn
    <3> QED
      BY <1>3, <3>1, <3>2, QueueOfStart
  <2> QED
    BY <1>1, <2>1 DEF Over
<1>4. ASSUME NEW x \in Sessions, Goes(x) \/ Ends(x)
      PROVE  Over(p)'
  <2>1. /\ asked' = asked /\ queued' = queued
        /\ turn'[s].of \in {turn[s].of, NoQuestion}
    BY <1>1, <1>4 DEF Goes, Ends
  <2> QED
    BY <1>1, <2>1 DEF Over, PendingIn
<1>5. ASSUME UNCHANGED <<busVars, turn>>
      PROVE  Over(p)'
  BY <1>1, <1>5 DEF busVars, Over, PendingIn
<1> QED
  BY <1>2, <1>3, <1>4, <1>5, OtherSteps, GoesOrEnds

\* A tool that raised has raised.
LEMMA RaisedStay ==
    ASSUME [TurnsNext]_hookVars
    PROVE  raised \subseteq raised'
<1>1. ASSUME NEW s \in Sessions, TurnOf(s)
      PROVE  raised \subseteq raised'
  BY <1>1
  DEF TurnOf, StartTurn, BeforeIteration, BeforeTools, BeforeTool, AfterTool, ToolRaises,
      AfterIteration, Answered, AfterRun, Assemble, Fail, buckets
<1>2. ASSUME ~\E s \in Sessions : TurnOf(s)
      PROVE  raised' = raised
  BY <1>2 DEF TurnsNext, hookVars, Inbound, SubTool, PublishEnd, Finalize, Unsubscribe,
              buckets
<1> QED
  BY <1>1, <1>2

\* So do the answers, unless one is sent.
LEMMA AnswerStays ==
    ASSUME TurnsAssumption, TurnsTyped, QueueInv, [TurnsNext]_hookVars,
           NEW q \in QuestionIds, ReplyOk(q), reply'[q] = reply[q],
           \A p \in QuestionIds : Over(p) => reply'[p].sent = reply[p].sent
    PROVE  ReplyOk(q)'
<1> DEFINE a == reply[q].audit
           f == reply[q].files
<1>1. SUFFICES ASSUME reply[q].sent
               PROVE  ReplyOk(q)'
  BY DEF ReplyOk
<1>2. /\ Over(q)
      /\ \A i \in DOMAIN a :
           /\ Left(q, a[i].call.of) /\ a[i].result \in {NoCall, a[i].call}
           /\ a[i].result # NoCall => a[i].call \in ToSet(f) \cup raised
      /\ \A j \in DOMAIN f : \E i \in DOMAIN a : a[i].call = f[j]
  BY <1>1 DEF ReplyOk
<1>3. \A i \in DOMAIN a : a[i].call.of \in QuestionIds
  <2>1. a \in Seq(Entries)
    BY DEF TurnsTyped, TurnsTypeOK, Attachments
  <2>2. \A i \in DOMAIN a : a[i] \in Entries
    BY <2>1
  <2>3. \A e \in Entries : e.call.of \in QuestionIds
    BY DEF Entries, Calls
  <2> QED
    BY <2>2, <2>3
<1>4. ASSUME NEW i \in DOMAIN a
      PROVE  Left(q, a[i].call.of)'
  <2> DEFINE p == a[i].call.of
  <2>1. p \in QuestionIds /\ Left(q, p)
    BY <1>2, <1>3
  <2>2. CASE p = q
    BY <2>2 DEF Left
  <2>3. CASE p # q
    <3>1. /\ p < q /\ SessionOf(p) = SessionOf(q) /\ Over(p) /\ ~reply[p].sent
      BY <2>1, <2>3 DEF Left
    <3>2. Over(p)' /\ ~reply'[p].sent
      BY <2>1, <3>1, OverStays
    <3> HIDE DEF p
    <3> QED
      BY <3>1, <3>2 DEF Left, p
  <2> QED
    BY <2>2, <2>3
<1>5. Over(q)'
  BY <1>2, OverStays
<1> QED
  BY <1>2, <1>4, <1>5, RaisedStay DEF ReplyOk

\* A session that nothing happened to.
LEMMA BucketElsewhere ==
    ASSUME TurnsTyped, NEW x \in Sessions, BatchOk(x), BucketOk(x), asked \subseteq asked',
           turn'[x] = turn[x], queued'[x] = queued[x], audit'[x] = audit[x],
           paths'[x] = paths[x], pendingStart'[x] = pendingStart[x],
           raised \subseteq raised', \A p \in QuestionIds : SessionOf(p) = x => reply'[p] = reply[p]
    PROVE  BatchOk(x)' /\ BucketOk(x)'
<1>1. BatchOk(x)'
  BY DEF BatchOk
<1>2. ASSUME NEW p \in QuestionIds, OwnerOk(x, p)
      PROVE  OwnerOk(x, p)'
  BY <1>2 DEF OwnerOk, Before
<1>3. \A i \in DOMAIN audit[x] : audit[x][i].call.of \in QuestionIds
  BY Buckets
<1>4. ASSUME NEW i \in DOMAIN audit[x]
      PROVE  OwnerOk(x, audit[x][i].call.of)'
  <2>1. OwnerOk(x, audit[x][i].call.of) /\ audit[x][i].call.of \in QuestionIds
    BY <1>3 DEF BucketOk
  <2> QED
    BY <1>2, <2>1
<1> QED
  BY <1>1, <1>4 DEF BucketOk

\* A turn has no answer yet, and is the last that has something in the buckets.
LEMMA TurnOwns ==
    ASSUME TurnsAssumption, TurnsTyped, QueueInv, BucketInv, NEW s \in Sessions,
           turn[s].of # NoQuestion
    PROVE  turn[s].of \in QuestionIds /\ OwnerOk(s, turn[s].of)
<1> DEFINE q == turn[s].of
<1>1. q \in QuestionIds /\ q \in asked /\ Before(s, q) /\ SessionOf(q) = s
  BY TurnFields DEF QueueInv, QueueOk, Before
<1>2. ~reply[q].sent
  <2>1. q \in PendingIn(s)
    BY DEF PendingIn
  <2> QED
    BY <1>1, <2>1 DEF BucketInv, ReplyOk, Over
<1>3. q <= q
  BY <1>1, SomeFacts
<1> QED
  BY <1>1, <1>2, <1>3 DEF OwnerOk

LEMMA OwnerStays ==
    ASSUME NEW s \in Sessions, Goes(s) \/ Ends(s), NEW p, OwnerOk(s, p),
           reply'[p].sent = reply[p].sent
    PROVE  OwnerOk(s, p)'
BY DEF Goes, Ends, OwnerOk, Before

\* What the buckets of a session are after a step of its turn settles the rest.
LEMMA BucketOfTurn ==
    ASSUME TurnsAssumption, TurnsTyped, QueueInv, BucketInv, [TurnsNext]_hookVars,
           NEW s \in Sessions, asked \subseteq asked', reply' = reply,
           \A x \in Sessions \ {s} :
             /\ turn'[x] = turn[x] /\ queued'[x] = queued[x] /\ audit'[x] = audit[x]
             /\ paths'[x] = paths[x] /\ pendingStart'[x] = pendingStart[x],
           BatchOk(s)', BucketOk(s)'
    PROVE  BucketInv'
<1>1. ASSUME NEW x \in Sessions \ {s}
      PROVE  BatchOk(x)' /\ BucketOk(x)'
  BY <1>1, BucketElsewhere, RaisedStay DEF BucketInv
<1>2. ASSUME NEW q \in QuestionIds
      PROVE  ReplyOk(q)'
  BY <1>2, AnswerStays DEF BucketInv
<1> QED
  BY <1>1, <1>2 DEF BucketInv

LEMMA BucketOfInbound ==
    ASSUME TurnsAssumption, TurnsTyped, QueueInv, BucketInv, NEW q \in QuestionIds,
           Inbound(q)
    PROVE  BucketInv'
<1> DEFINE s == SessionOf(q)
<1>1. /\ s \in Sessions /\ asked' = asked \cup {q}
      /\ UNCHANGED <<turn, audit, paths, pendingStart, raised, reply>>
  BY SomeFacts DEF Inbound, buckets, outcomes
<1>2. ASSUME NEW p \in QuestionIds, OwnerOk(s, p)
      PROVE  OwnerOk(s, p)'
  <2>1. \A i \in DOMAIN queued'[s] : p < queued'[s][i]
    BY <1>2, PendingOfInbound DEF OwnerOk, Before
  <2>2. SessionOf(p) = s
    BY <1>2 DEF OwnerOk, Before
  <2> HIDE DEF s
  <2> QED
    BY <1>1, <1>2, <2>1, <2>2 DEF OwnerOk, Before
<1>3. BatchOk(s)'
  <2> HIDE DEF s
  <2> QED
    BY <1>1 DEF BucketInv, BatchOk
<1>4. BucketOk(s)'
  <2> HIDE DEF s
  <2>1. ASSUME NEW i \in DOMAIN audit[s]
        PROVE  OwnerOk(s, audit[s][i].call.of)'
    <3>1. OwnerOk(s, audit[s][i].call.of) /\ audit[s][i].call.of \in QuestionIds
      BY <1>1, Buckets DEF BucketInv, BucketOk
    <3> QED
      BY <1>1, <1>2, <3>1
  <2> QED
    BY <1>1, <2>1 DEF BucketInv, BucketOk
<1>5. [TurnsNext]_hookVars
  BY DEF TurnsNext
<1> QED
  BY <1>1, <1>3, <1>4, <1>5, PendingOfInbound, BucketOfTurn

LEMMA BucketOfStart ==
    ASSUME TurnsAssumption, TurnsTyped, QueueInv, BucketInv, NEW s \in Sessions,
           StartTurn(s)
    PROVE  BucketInv'
<1> DEFINE q == turn'[s].of
<1>1. /\ turn'[s].at = "ready" /\ q \in asked /\ asked' = asked
      /\ UNCHANGED <<audit, paths, pendingStart, raised, reply>>
      /\ \A x \in Sessions \ {s} : turn'[x] = turn[x] /\ queued'[x] = queued[x]
  BY QueueOfStart DEF StartTurn, buckets, outcomes
<1>2. /\ q \in ToSet(queued[s])
      /\ \A i \in DOMAIN queued'[s] : queued'[s][i] \in ToSet(queued[s])
  BY QueueOfStart DEF ToSet
<1>3. ASSUME NEW p \in QuestionIds, OwnerOk(s, p)
      PROVE  OwnerOk(s, p)'
  <2>1. /\ \A r \in ToSet(queued[s]) : p < r
        /\ SessionOf(p) = s /\ p \in asked /\ ~reply[p].sent
    BY <1>3 DEF OwnerOk, Before, ToSet
  <2>2. p < q /\ q \in QuestionIds
    BY <1>1, <1>2, <2>1 DEF TurnsTyped, TurnsTypeOK
  <2>3. p <= q
    BY <2>2, SomeFacts
  <2> QED
    BY <1>1, <1>2, <2>1, <2>3 DEF OwnerOk, Before
<1>4. BatchOk(s)'
  BY <1>1 DEF BatchOk
<1>5. BucketOk(s)'
  <2>1. ASSUME NEW i \in DOMAIN audit[s]
        PROVE  OwnerOk(s, audit[s][i].call.of)'
    <3>1. OwnerOk(s, audit[s][i].call.of) /\ audit[s][i].call.of \in QuestionIds
      BY Buckets DEF BucketInv, BucketOk
    <3> QED
      BY <1>1, <1>3, <3>1
  <2> QED
    BY <1>1, <2>1 DEF BucketInv, BucketOk
<1>6. [TurnsNext]_hookVars
  BY DEF TurnsNext, TurnOf
<1> QED
  BY <1>1, <1>4, <1>5, <1>6, BucketOfTurn

\* The steps that leave the buckets as they are.
LEMMA BucketOfQuiet ==
    ASSUME TurnsAssumption, TurnsTyped, QueueInv, BucketInv, NEW s \in Sessions,
           \/ BeforeIteration(s) \/ BeforeTool(s) \/ Answered(s) \/ Fail(s)
           \/ \E error \in BOOLEAN : AfterRun(s, error)
    PROVE  BucketInv'
<1>1. /\ Goes(s) \/ Ends(s)
      /\ UNCHANGED <<audit, paths, pendingStart, raised, reply>>
  BY Goings, Endings DEF BeforeIteration, BeforeTool, Answered, Fail, AfterRun, buckets,
                         outcomes
<1>2. UNCHANGED <<asked, queued>> /\ \A x \in Sessions \ {s} : turn'[x] = turn[x]
  BY <1>1 DEF Goes, Ends
<1>3. BatchOk(s)'
  <2>1. CASE turn'[s].at \notin {"tools", "tool"}
    BY <2>1 DEF BatchOk
  <2>2. CASE turn'[s].at \in {"tools", "tool"}
    <3>1. BeforeTool(s)
      <4>1. ASSUME NEW place \in {"model", "done", "ran"}, GoToPlace(s, place)
            PROVE  turn'[s].at = place
        BY <4>1 DEF GoToPlace, TurnsTyped, TurnsTypeOK, TurnRecords
      <4> QED
        BY <2>2, <4>1 DEF BeforeIteration, Answered, Fail, AfterRun, TurnsTyped,
                          TurnsTypeOK, IdleTurn
    <3>2. /\ turn[s].at = "tools" /\ turn'[s].batch = turn[s].batch
          /\ turn'[s].next = turn[s].next
      BY <3>1 DEF BeforeTool, GoToPlace, TurnsTyped, TurnsTypeOK, TurnRecords
    <3> QED
      BY <1>1, <3>2 DEF BucketInv, BatchOk
  <2> QED
    BY <2>1, <2>2
<1>4. BucketOk(s)'
  <2>1. ASSUME NEW i \in DOMAIN audit[s]
        PROVE  OwnerOk(s, audit[s][i].call.of)'
    <3>1. ASSUME NEW p, OwnerOk(s, p)
          PROVE  OwnerOk(s, p)'
      BY <1>1, <3>1, OwnerStays
    <3>2. OwnerOk(s, audit[s][i].call.of)
      BY DEF BucketInv, BucketOk
    <3> QED
      BY <1>1, <3>1, <3>2
  <2> QED
    BY <1>1, <2>1 DEF BucketInv, BucketOk
<1>5. [TurnsNext]_hookVars
  BY DEF TurnsNext, TurnOf
<1> QED
  BY <1>1, <1>2, <1>3, <1>4, <1>5, BucketOfTurn

LEMMA BucketOfBefore ==
    ASSUME TurnsAssumption, TurnsTyped, QueueInv, BucketInv, NEW s \in Sessions,
           NEW k \in 1..2, BeforeTools(s, k)
    PROVE  BucketInv'
<1> DEFINE q == turn[s].of
           b == [i \in 1..k |-> [of |-> q, n |-> turn[s].calls + i]]
           more == [i \in 1..k |-> [call |-> b[i], result |-> NoCall]]
           old == audit[s]
           n == Len(old)
           new == old \o more
<1>1. /\ Goes(s) /\ turn[s].at = "model" /\ UNCHANGED <<paths, raised, reply>>
      /\ pendingStart' = [pendingStart EXCEPT ![s] = n]
      /\ audit' = [audit EXCEPT ![s] = new]
  BY Goings DEF BeforeTools, StartOf, outcomes
<1>2. UNCHANGED <<asked, queued>> /\ \A x \in Sessions \ {s} : turn'[x] = turn[x]
  BY <1>1 DEF Goes
<1>3. turn'[s].at = "tools" /\ turn'[s].next = 1 /\ turn'[s].batch = b
  BY DEF BeforeTools, TurnsTyped, TurnsTypeOK, TurnRecords
<1>4. q \in QuestionIds /\ OwnerOk(s, q)
  BY <1>1, TurnOwns DEF Goes, TurnsTyped, TurnFits
<1>5. OwnerOk(s, q)'
  <2>1. q' = q
    BY <1>1 DEF Goes
  <2>2. ASSUME NEW p, OwnerOk(s, p)
        PROVE  OwnerOk(s, p)'
    BY <1>1, <2>2, OwnerStays
  <2> QED
    BY <1>4, <2>1, <2>2
<1>6. /\ n \in Nat /\ DOMAIN old = 1..n /\ DOMAIN more = 1..k /\ DOMAIN b = 1..k
      /\ DOMAIN new = 1..n+k /\ Len(new) = n + k /\ Len(b) = k
      /\ \A i \in 1..n : new[i] = old[i]
      /\ \A i \in 1..k : new[n+i] = more[i]
      /\ old \in Seq(Entries)
  BY Buckets
<1>7. audit'[s] = new /\ paths'[s] = paths[s] /\ pendingStart'[s] = n
  BY <1>1 DEF TurnsTyped, TurnsTypeOK
<1>8. \A i \in 1..k : more[i].call = b[i] /\ more[i].result = NoCall /\ b[i].of = q
  OBVIOUS
<1>9. \A i \in 1..n+k : i \in 1..n \/ (i - n \in 1..k /\ n + (i - n) = i)
  BY <1>6
<1> HIDE DEF b, more, old, n, new
<1>10. BatchOk(s)'
  <2>1. \A i \in 1..k : new[n+i].call = b[i] /\ ~(i < 1)
    BY <1>6, <1>8
  <2> QED
    BY <1>3, <1>6, <1>7, <2>1 DEF BatchOk
<1>11. BucketOk(s)'
  <2>1. ASSUME NEW i \in 1..n+k
        PROVE  /\ OwnerOk(s, audit[s][i].call.of)'
               /\ new[i].result \in {NoCall, new[i].call}
               /\ new[i].result # NoCall => new[i].call \in ToSet(paths[s]) \cup raised
    <3>1. CASE i \in 1..n
      <4>1. new[i] = audit[s][i] /\ i \in DOMAIN audit[s]
        BY <1>6, <3>1 DEF old
      <4>2. OwnerOk(s, new[i].call.of)
        BY <4>1 DEF BucketInv, BucketOk
      <4>3. ASSUME NEW p, OwnerOk(s, p)
            PROVE  OwnerOk(s, p)'
        BY <1>1, <4>3, OwnerStays
      <4>4. OwnerOk(s, audit[s][i].call.of)'
        <5>1. audit'[s][i].call.of = audit[s][i].call.of
          BY <1>7, <4>1
        <5> QED
          BY <4>1, <4>2, <4>3, <5>1
      <4> QED
        BY <4>1, <4>4 DEF BucketInv, BucketOk
    <3>2. CASE i - n \in 1..k /\ n + (i - n) = i
      <4>1. new[i].call.of = q /\ new[i].result = NoCall
        <5> DEFINE j == i - n
        <5>1. j \in 1..k /\ n + j = i
          BY <3>2
        <5> HIDE DEF j
        <5>2. new[n + j] = more[j]
          BY <1>6, <5>1
        <5>3. new[i] = more[j]
          BY <5>1, <5>2
        <5>4. more[j].call = b[j] /\ more[j].result = NoCall /\ b[j].of = q
          BY <1>8, <5>1
        <5> QED
          BY <5>3, <5>4
      <4>2. audit'[s][i].call.of = q /\ q' = q
        BY <1>1, <1>7, <4>1 DEF Goes
      <4> QED
        BY <1>5, <4>1, <4>2
    <3> QED
      BY <1>9, <3>1, <3>2
  <2>2. \A j \in DOMAIN paths[s] : \E i \in 1..n+k : new[i].call = paths[s][j]
    <3>1. \A j \in DOMAIN paths[s] : \E i \in 1..n : old[i].call = paths[s][j]
      BY <1>6 DEF BucketInv, BucketOk, old
    <3>2. 1..n \subseteq 1..n+k
      BY <1>6
    <3> QED
      BY <1>6, <3>1, <3>2
  <2>3. /\ audit'[s] = new /\ DOMAIN audit'[s] = 1..n+k /\ paths'[s] = paths[s]
    BY <1>6, <1>7
  <2>4. \A i \in DOMAIN audit'[s] :
          /\ OwnerOk(s, audit[s][i].call.of)'
          /\ audit'[s][i].result \in {NoCall, audit'[s][i].call}
          /\ audit'[s][i].result # NoCall => audit'[s][i].call \in ToSet(paths'[s]) \cup raised'
    BY <1>1, <2>1, <2>3
  <2>5. \A j \in DOMAIN paths'[s] :
          \E i \in DOMAIN audit'[s] : audit'[s][i].call = paths'[s][j]
    BY <2>2, <2>3
  <2> QED
    BY <2>4, <2>5 DEF BucketOk
<1>12. [TurnsNext]_hookVars
  BY DEF TurnsNext, TurnOf
<1>13. \A x \in Sessions \ {s} :
         audit'[x] = audit[x] /\ pendingStart'[x] = pendingStart[x]
  BY <1>1 DEF TurnsTyped, TurnsTypeOK
<1> QED
  BY <1>1, <1>2, <1>10, <1>11, <1>12, <1>13, BucketOfTurn

LEMMA BucketOfAfter ==
    ASSUME TurnsAssumption, TurnsTyped, QueueInv, BucketInv, NEW s \in Sessions,
           AfterTool(s) \/ ToolRaises(s)
    PROVE  BucketInv'
<1> DEFINE b == turn[s].batch
           k == turn[s].next
           start == pendingStart[s]
<1>1. /\ Goes(s) /\ turn[s].at = "tool" /\ UNCHANGED <<audit, pendingStart, reply>>
      /\ \/ paths' = [paths EXCEPT ![s] = Append(@, b[k])] /\ raised' = raised
         \/ paths' = paths /\ raised' = raised \cup {b[k]}
  BY Goings DEF AfterTool, ToolRaises, ToolEnds, Written, CallOf
<1>2. UNCHANGED <<asked, queued>> /\ \A x \in Sessions \ {s} : turn'[x] = turn[x]
  BY <1>1 DEF Goes
<1>3. turn'[s].at = "tools" /\ turn'[s].next = k + 1 /\ turn'[s].batch = b
  BY DEF AfterTool, ToolRaises, ToolEnds, TurnsTyped, TurnsTypeOK, TurnRecords
<1>4. b \in Seq(Calls) /\ k \in DOMAIN b /\ k \in Nat
  BY <1>1, TurnFields DEF TurnsTyped, TurnFits
<1>5. /\ start + Len(b) = Len(audit[s])
      /\ \A i \in DOMAIN b :
           audit[s][start + i].call = b[i] /\ (i < k => b[i] \in ToSet(paths[s]) \cup raised)
  BY <1>1 DEF BucketInv, BatchOk
<1>6. /\ paths'[s] \in {paths[s], Append(paths[s], b[k])} /\ paths[s] \in Seq(Calls)
      /\ ToSet(paths'[s]) \cup raised' = ToSet(paths[s]) \cup raised \cup {b[k]}
  <2>1. b[k] \in Calls /\ paths[s] \in Seq(Calls)
    BY <1>4 DEF TurnsTyped, TurnsTypeOK
  <2>2. \/ paths'[s] = Append(paths[s], b[k]) /\ raised' = raised
        \/ paths'[s] = paths[s] /\ raised' = raised \cup {b[k]}
    BY <1>1 DEF TurnsTyped, TurnsTypeOK
  <2>3. ToSet(Append(paths[s], b[k])) = ToSet(paths[s]) \cup {b[k]}
    BY <2>1, Appended
  <2> QED
    BY <2>1, <2>2, <2>3
<1>7. BatchOk(s)'
  <2>1. \A i \in DOMAIN b : i < k + 1 => i < k \/ i = k
    BY <1>4
  <2>2. k + 1 >= 1
    BY <1>4
  <2>3. \A i \in DOMAIN b : i < k + 1 => b[i] \in ToSet(paths'[s]) \cup raised'
    BY <1>5, <1>6, <2>1
  <2> HIDE DEF b, k
  <2> QED
    BY <1>1, <1>3, <1>5, <2>2, <2>3 DEF BatchOk
<1>8. BucketOk(s)'
  <2>1. ASSUME NEW i \in DOMAIN audit[s]
        PROVE  OwnerOk(s, audit[s][i].call.of)'
    <3>1. ASSUME NEW p, OwnerOk(s, p)
          PROVE  OwnerOk(s, p)'
      BY <1>1, <3>1, OwnerStays
    <3>2. OwnerOk(s, audit[s][i].call.of)
      BY DEF BucketInv, BucketOk
    <3> QED
      BY <1>1, <3>1, <3>2
  <2>2. \A j \in DOMAIN paths'[s] :
          (j \in DOMAIN paths[s] /\ paths'[s][j] = paths[s][j]) \/ paths'[s][j] = b[k]
    BY <1>6
  <2>3. \E i \in DOMAIN audit[s] : audit[s][i].call = b[k]
    <3>1. start + k \in DOMAIN audit[s]
      BY <1>4, <1>5, Buckets
    <3> QED
      BY <1>4, <1>5, <3>1
  <2>4. \A j \in DOMAIN paths'[s] : \E i \in DOMAIN audit[s] : audit[s][i].call = paths'[s][j]
    BY <2>2, <2>3 DEF BucketInv, BucketOk
  <2>5. \A i \in DOMAIN audit[s] :
          /\ audit[s][i].result \in {NoCall, audit[s][i].call}
          /\ audit[s][i].result # NoCall => audit[s][i].call \in ToSet(paths'[s]) \cup raised'
    BY <1>6 DEF BucketInv, BucketOk
  <2> QED
    BY <1>1, <2>1, <2>4, <2>5 DEF BucketOk
<1>9. [TurnsNext]_hookVars
  BY DEF TurnsNext, TurnOf
<1>10. \A x \in Sessions \ {s} : paths'[x] = paths[x]
  BY <1>1 DEF TurnsTyped, TurnsTypeOK
<1> QED
  BY <1>1, <1>2, <1>7, <1>8, <1>9, <1>10, BucketOfTurn

LEMMA BucketOfIteration ==
    ASSUME TurnsAssumption, TurnsTyped, QueueInv, BucketInv, NEW s \in Sessions,
           AfterIteration(s)
    PROVE  BucketInv'
<1> DEFINE b == turn[s].batch
           start == pendingStart[s]
           old == audit[s]
           new == [j \in DOMAIN old |-> IF j - start \in DOMAIN b
                                        THEN [old[j] EXCEPT !.result = b[j - start]]
                                        ELSE old[j]]
<1>1. /\ Goes(s) /\ turn[s].at = "tools" /\ UNCHANGED <<paths, raised, pendingStart, reply>>
      /\ audit' = [audit EXCEPT ![s] = new] /\ turn[s].next > Len(b)
  BY Goings DEF AfterIteration
<1>2. UNCHANGED <<asked, queued>> /\ \A x \in Sessions \ {s} : turn'[x] = turn[x]
  BY <1>1 DEF Goes
<1>3. turn'[s].at = "ready"
  BY DEF AfterIteration, TurnsTyped, TurnsTypeOK, TurnRecords
<1>4. BatchOk(s)'
  BY <1>3 DEF BatchOk
<1>5. \A i \in DOMAIN b : old[start + i].call = b[i] /\ b[i] \in ToSet(paths[s]) \cup raised
  <2>1. b \in Seq(Calls) /\ turn[s].next \in Nat
    BY TurnFields
  <2>2. \A i \in DOMAIN b : i < turn[s].next
    BY <1>1, <2>1
  <2> QED
    BY <1>1, <2>2 DEF BucketInv, BatchOk
<1>6. audit'[s] = new
  BY <1>1 DEF TurnsTyped, TurnsTypeOK
<1>7. ASSUME NEW j \in DOMAIN old
      PROVE  /\ new[j].call = old[j].call
             /\ \/ new[j].result = old[j].result
                \/ new[j].result = old[j].call /\ old[j].call \in ToSet(paths[s]) \cup raised
  <2>1. old[j] \in Entries
    BY Buckets
  <2>2. CASE j - start \in DOMAIN b
    <3>1. start + (j - start) = j
      BY Buckets
    <3>2. /\ new[j].call = old[j].call /\ new[j].result = b[j - start]
      BY <2>1, <2>2 DEF Entries
    <3> QED
      BY <1>5, <2>2, <3>1, <3>2
  <2>3. CASE j - start \notin DOMAIN b
    BY <2>3
  <2> QED
    BY <2>2, <2>3
<1>8. DOMAIN new = DOMAIN old
  OBVIOUS
<1> HIDE DEF new
<1>9. BucketOk(s)'
  <2>1. ASSUME NEW i \in DOMAIN old
        PROVE  OwnerOk(s, audit[s][i].call.of)'
    <3>1. ASSUME NEW p, OwnerOk(s, p)
          PROVE  OwnerOk(s, p)'
      BY <1>1, <3>1, OwnerStays
    <3>2. OwnerOk(s, old[i].call.of)
      BY DEF BucketInv, BucketOk
    <3>3. audit'[s][i].call.of = old[i].call.of
      BY <1>6, <1>7
    <3> QED
      BY <3>1, <3>2, <3>3
  <2>2. \A i \in DOMAIN old :
          /\ new[i].result \in {NoCall, new[i].call}
          /\ new[i].result # NoCall => new[i].call \in ToSet(paths[s]) \cup raised
    BY <1>7 DEF BucketInv, BucketOk
  <2>3. \A j \in DOMAIN paths[s] : \E i \in DOMAIN old : new[i].call = paths[s][j]
    BY <1>7 DEF BucketInv, BucketOk
  <2> HIDE DEF old
  <2> QED
    BY <1>1, <1>6, <1>8, <2>1, <2>2, <2>3 DEF BucketOk
<1>10. [TurnsNext]_hookVars
  BY DEF TurnsNext, TurnOf
<1>11. \A x \in Sessions \ {s} : audit'[x] = audit[x]
  BY <1>1 DEF TurnsTyped, TurnsTypeOK
<1> QED
  BY <1>1, <1>2, <1>4, <1>9, <1>10, <1>11, BucketOfTurn

\* The answer takes what is in the buckets: it is of its turn, or of turns that are over
\* and have no answer.
LEMMA BucketOfAnswer ==
    ASSUME TurnsAssumption, TurnsTyped, QueueInv, BucketInv, NEW s \in Sessions,
           Assemble(s)
    PROVE  BucketInv'
<1> DEFINE q == turn[s].of
           a == audit[s]
           f == paths[s]
<1>1. /\ Ends(s) /\ turn[s].at # "idle" /\ UNCHANGED pendingStart
      /\ audit' = [audit EXCEPT ![s] = <<>>] /\ paths' = [paths EXCEPT ![s] = <<>>]
      /\ \/ reply' = [reply EXCEPT ![q] = [sent |-> TRUE, audit |-> a, files |-> f]]
         \/ reply' = reply
  BY Endings DEF Assemble
<1>2. /\ UNCHANGED <<asked, queued>> /\ turn'[s].at = "idle" /\ turn'[s].of = NoQuestion
      /\ \A x \in Sessions \ {s} : turn'[x] = turn[x]
  BY <1>1 DEF Ends
<1>3. q # NoQuestion /\ q \in QuestionIds /\ OwnerOk(s, q) /\ SessionOf(q) = s
  <2>1. q # NoQuestion
    BY <1>1 DEF TurnsTyped, TurnFits
  <2> QED
    BY <2>1, TurnOwns DEF OwnerOk, Before
<1>4. [TurnsNext]_hookVars
  BY DEF TurnsNext, TurnOf
<1>5. BatchOk(s)'
  BY <1>2 DEF BatchOk
<1>6. audit'[s] = <<>> /\ paths'[s] = <<>>
  BY <1>1 DEF TurnsTyped, TurnsTypeOK
<1>7. BucketOk(s)'
  BY <1>6 DEF BucketOk
<1>8. ASSUME NEW p \in QuestionIds, p # q
      PROVE  reply'[p] = reply[p]
  BY <1>1, <1>8 DEF TurnsTyped, TurnsTypeOK
<1>9. ASSUME NEW x \in Sessions \ {s}
      PROVE  BatchOk(x)' /\ BucketOk(x)'
  <2>1. /\ audit'[x] = audit[x] /\ paths'[x] = paths[x] /\ turn'[x] = turn[x]
        /\ queued'[x] = queued[x] /\ pendingStart'[x] = pendingStart[x]
    BY <1>1, <1>2, <1>9 DEF TurnsTyped, TurnsTypeOK
  <2>2. \A p \in QuestionIds : SessionOf(p) = x => reply'[p] = reply[p]
    BY <1>3, <1>8, <1>9
  <2> QED
    BY <1>2, <1>4, <2>1, <2>2, BucketElsewhere, RaisedStay DEF BucketInv
<1>10. ASSUME NEW p \in QuestionIds, Over(p)
       PROVE  p # q
  BY <1>3, <1>10 DEF Over, PendingIn
<1>11. ASSUME NEW p \in QuestionIds, reply'[p] = reply[p]
       PROVE  ReplyOk(p)'
  <2>1. \A r \in QuestionIds : Over(r) => reply'[r].sent = reply[r].sent
    BY <1>8, <1>10
  <2> QED
    BY <1>4, <1>11, <2>1, AnswerStays DEF BucketInv
<1>12. ASSUME NEW r \in QuestionIds, r = q,
              reply' = [reply EXCEPT ![q] = [sent |-> TRUE, audit |-> a, files |-> f]]
       PROVE  ReplyOk(r)'
  <2>1. reply'[r].audit = a /\ reply'[r].files = f /\ reply'[r].sent
    BY <1>3, <1>12 DEF TurnsTyped, TurnsTypeOK
  <2>2. ASSUME NEW p \in QuestionIds, OwnerOk(s, p)
        PROVE  Over(p)' /\ Left(r, p)'
    <3>1. p \in asked /\ SessionOf(p) = s /\ ~reply[p].sent /\ p <= r
      BY <1>3, <1>12, <2>2 DEF OwnerOk, Before
    <3>2. p \notin ToSet(queued[s])
      <4>1. \A x \in ToSet(queued[s]) : p < x
        BY <2>2 DEF OwnerOk, Before, ToSet
      <4>2. ~(p < p)
        BY SomeFacts
      <4> QED
        BY <4>1, <4>2
    <3>3. Over(p)'
      BY <1>2, <3>1, <3>2 DEF Over, PendingIn
    <3>4. CASE p = r
      BY <3>3, <3>4 DEF Left
    <3>5. CASE p # r
      <4>1. p < r /\ ~reply'[p].sent
        BY <1>8, <1>12, <3>1, <3>5, SomeFacts
      <4> QED
        BY <1>3, <1>12, <3>1, <3>3, <4>1 DEF Left
    <3> QED
      BY <3>4, <3>5
  <2>3. /\ \A i \in DOMAIN a :
             /\ OwnerOk(s, a[i].call.of) /\ a[i].call.of \in QuestionIds
             /\ a[i].result \in {NoCall, a[i].call}
             /\ a[i].result # NoCall => a[i].call \in ToSet(f) \cup raised
        /\ \A j \in DOMAIN f : \E i \in DOMAIN a : a[i].call = f[j]
    BY Buckets DEF BucketInv, BucketOk
  <2>4. ASSUME NEW i \in DOMAIN a
        PROVE  Left(r, reply[r].audit[i].call.of)'
    <3>1. reply'[r].audit[i].call.of = a[i].call.of
      BY <2>1
    <3> QED
      BY <2>2, <2>3, <3>1
  <2>5. Over(r)'
    BY <1>3, <1>12, <2>2
  <2> HIDE DEF a, f
  <2> QED
    BY <1>4, <2>1, <2>3, <2>4, <2>5, RaisedStay DEF ReplyOk
<1>13. ASSUME NEW p \in QuestionIds
       PROVE  ReplyOk(p)'
  <2>1. CASE reply'[p] = reply[p]
    BY <1>11, <2>1
  <2>2. CASE reply'[p] # reply[p]
    <3>1. p = q /\ reply' = [reply EXCEPT ![q] = [sent |-> TRUE, audit |-> a, files |-> f]]
      BY <1>1, <1>8, <2>2
    <3> QED
      BY <1>12, <3>1
  <2> QED
    BY <2>1, <2>2
<1> QED
  BY <1>5, <1>7, <1>9, <1>13 DEF BucketInv

LEMMA BucketStep ==
    ASSUME TurnsAssumption, TurnsTyped, QueueInv, BucketInv, [TurnsNext]_hookVars
    PROVE  BucketInv'
<1>1. ASSUME UNCHANGED <<busVars, turn, hook, buckets, outcomes, crowded, failed>>
      PROVE  BucketInv'
  BY <1>1 DEF busVars, buckets, outcomes, BucketInv, BatchOk, BucketOk, OwnerOk, Before,
              ReplyOk, Left, Over, PendingIn
<1>2. ASSUME NEW s \in Sessions, TurnOf(s)
      PROVE  BucketInv'
  BY <1>2, BucketOfStart, BucketOfQuiet, BucketOfBefore, BucketOfAfter, BucketOfIteration,
     BucketOfAnswer DEF TurnOf
<1> QED
  BY <1>1, <1>2, OtherSteps, BucketOfInbound

-----------------------------------------------------------------------------
\* The theorem.

LEMMA InvStarts ==
    ASSUME TurnsAssumption, TurnsInit
    PROVE  TurnsInv
<1>1. TurnsTyped
  BY StartsTyped
<1>2. SubsInv
  BY DEF TurnsInit, SubsInv, SubOk, NoSub
<1>3. QueueInv
  BY DEF TurnsInit, QueueInv, QueueOk, Before, IdleTurn
<1>4. \A s \in Sessions : PendingIn(s) = {}
  BY DEF TurnsInit, PendingIn, IdleTurn, ToSet
<1>5. NamesInv
  BY <1>4 DEF TurnsInit, NamesInv, NamesOk, EventsAreOwn
<1>6. BucketInv
  BY DEF TurnsInit, BucketInv, BatchOk, BucketOk, ReplyOk, IdleTurn, NoReply
<1> QED
  BY <1>1, <1>2, <1>3, <1>5, <1>6 DEF TurnsInv

LEMMA InvSteps ==
    ASSUME TurnsAssumption, TurnsInv, [TurnsNext]_hookVars
    PROVE  TurnsInv'
BY StepTyped, SubsStep, QueueStep, NamesStep, BucketStep DEF TurnsInv

LEMMA InvSettles ==
    ASSUME TurnsAssumption, TurnsInv
    PROVE  TurnsKeepApart
<1>1. SubagentSettled
  <2>1. \A t \in Subagents : sub[t] \in SubRecords /\ SubOk(t)
    BY DEF TurnsInv, TurnsTyped, TurnsTypeOK, SubsInv
  <2> QED
    BY <2>1 DEF SubagentSettled, SubOk
<1>2. AuditIsOwn
  <2>1. SUFFICES ASSUME NEW q \in QuestionIds, reply[q].sent
                 PROVE  LET entries == ToSet(reply[q].audit)
                            own == {c \in ToSet(reply[q].files) : c.of = q} IN
                        /\ \A e \in entries : e.result \in {NoCall, e.call}
                        /\ {e.call.of : e \in entries}
                             \cup {c.of : c \in ToSet(reply[q].files)}
                             \subseteq {q} \cup {p \in 1..q-1 :
                                 SessionOf(p) = SessionOf(q) /\ ~reply[p].sent}
                        /\ {e.result : e \in {x \in entries : x.call.of = q}} \ {NoCall}
                             \subseteq own \cup raised
                        /\ own \subseteq {e.call : e \in entries}
    BY DEF AuditIsOwn
  <2> DEFINE a == reply[q].audit
             f == reply[q].files
  <2>2. /\ \A e \in ToSet(a) :
             /\ Left(q, e.call.of) /\ e.result \in {NoCall, e.call}
             /\ e.result # NoCall => e.call \in ToSet(f) \cup raised
        /\ \A c \in ToSet(f) : \E e \in ToSet(a) : e.call = c
    BY <2>1 DEF TurnsInv, BucketInv, ReplyOk, ToSet
  <2>3. \A e \in ToSet(a) : e.call.of \in QuestionIds
    <3>1. a \in Seq(Entries)
      BY DEF TurnsInv, TurnsTyped, TurnsTypeOK, Attachments
    <3>2. \A e \in ToSet(a) : e \in Entries
      BY <3>1 DEF ToSet
    <3> QED
      BY <3>2 DEF Entries, Calls
  <2>4. \A p \in QuestionIds : Left(q, p) =>
          p \in {q} \cup {r \in 1..q-1 : SessionOf(r) = SessionOf(q) /\ ~reply[r].sent}
    <3>1. \A p \in QuestionIds : p < q => p \in 1..q-1
      BY SomeFacts
    <3> QED
      BY <3>1 DEF Left
  <2> HIDE DEF a, f
  <2>5. \A c \in ToSet(f) : c.of \in {q} \cup
          {r \in 1..q-1 : SessionOf(r) = SessionOf(q) /\ ~reply[r].sent}
    BY <2>2, <2>3, <2>4
  <2> QED
    BY <2>2, <2>3, <2>4, <2>5 DEF a, f
<1> QED
  BY <1>1, <1>2 DEF TurnsInv, NamesInv, TurnsKeepApart

\* What a turn logs is about a question of its session, its own if it is alone; an
\* answer carries the tool calls and the files of its turn and of turns before it that
\* got no answer; a subagent that ended has one history and one final status.
THEOREM TurnsStayApart ==
    ASSUME TurnsAssumption
    PROVE  TurnsSpec => []TurnsKeepApart
<1>1. TurnsInit => TurnsInv
  BY InvStarts
<1>2. TurnsInv /\ [TurnsNext]_hookVars => TurnsInv'
  BY InvSteps
<1>3. TurnsInv => TurnsKeepApart
  BY InvSettles
<1> QED
  BY <1>1, <1>2, <1>3, PTL DEF TurnsSpec

==============================================================================
