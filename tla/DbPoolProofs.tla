---------------------------- MODULE DbPoolProofs ----------------------------
(***************************************************************************)
(* Theorems about DbPool for every number of callers, threads,             *)
(* connections, statements, retries and failures: no statement runs in a   *)
(* transaction that is not its own, and the callers see DbCalls.           *)
(***************************************************************************)
EXTENDS DbPool, TLAPS, SequenceTheorems

-----------------------------------------------------------------------------
\* The invariant.

\* Every job is awaited: it is what its caller waits for, or a statement that was
\* cancelled before the rollback for which the caller waits.
IsAwaited(j) ==
    /\ call[j.client].reply = "none"
    /\ \/ j.kind = call[j.client].stage
       \/ j.kind = "statement" /\ call[j.client].stage = "rollback"
    /\ j.kind = "statement" => call[j.client].next <= NumStatements

\* Two jobs of one caller can only be such a pair, and this is its order.
Precedes(j, k) == j.kind = "statement" /\ k.kind = "rollback"

Works(t) == thread[t].at = "work"
AllAwaited ==
    /\ \A i \in DOMAIN queue : IsAwaited(queue[i])
    /\ \A t \in Threads : Works(t) => IsAwaited(thread[t].job)
InOrder ==
    /\ \A i, k \in DOMAIN queue :
         i < k /\ queue[i].client = queue[k].client => Precedes(queue[i], queue[k])
    /\ \A t \in Threads : \A i \in DOMAIN queue :
         Works(t) /\ thread[t].job.client = queue[i].client =>
           Precedes(thread[t].job, queue[i])
    /\ \A t, u \in Threads :
         Works(t) /\ Works(u) /\ thread[t].job.client = thread[u].job.client => t = u
JobsInv == AllAwaited /\ InOrder

\* What is durable of a call, from the stage where its caller is.
CallOK(c) ==
    LET s == call[c].stage IN
    /\ s \in {"idle", "acquire", "gone"} => call[c].reply = "none"
    /\ s \in {"idle", "acquire", "begin", "plain"} => call[c].next = 1
    /\ s = "commit" => call[c].next = NumStatements + 1
    /\ durable[c] \in {{}, Statements}
    /\ s \in {"acquire", "begin", "statement", "rollback", "gone"} => durable[c] = {}
    /\ s = "commit" /\ call[c].reply = "none" => durable[c] = {}
    /\ s \in {"plain", "commit"} /\ call[c].reply = "ok" => durable[c] = Statements

\* The transaction of a caller is open, or it is not.
IsOpen(c) ==
    \/ call[c].stage = "begin" /\ call[c].reply = "ok"
    \/ call[c].stage = "statement" /\ call[c].reply # "error"
    \/ call[c].stage = "commit" /\ call[c].reply = "none"
IsClosed(c) ==
    \/ call[c].stage = "begin" /\ call[c].reply # "ok"
    \/ call[c].stage \in {"commit", "rollback"} /\ call[c].reply # "none"

\* Statements of c that wait in the queue.
Waiting(c) == {i \in DOMAIN queue : queue[i].client = c /\ queue[i].kind = "statement"}

\* The connection of the thread that c leases.
LeaseOK(t, c) ==
    thread[t].lease = c =>
      /\ call[c].stage \in {"begin", "statement", "commit", "rollback", "gone"}
      /\ IsClosed(c) => thread[t].conn # "tx"
      /\ thread[t].at # "dead" =>
           /\ IsOpen(c) => thread[t].conn = "tx" /\ thread[t].pending = 1..(call[c].next - 1)
           /\ Waiting(c) # {} => thread[t].conn = "tx"
      /\ \A u \in Threads : thread[u].lease = c => t = u

ThreadOK(t) ==
    /\ thread[t].at = "dead" => thread[t].conn = "none"
    /\ thread[t].conn = "tx" => thread[t].lease # NoClient
    /\ Works(t) =>
         /\ Leased(thread[t].job) => thread[t].lease = thread[t].job.client
         /\ thread[t].job.kind = "statement" => thread[t].conn = "tx"
         /\ thread[t].job.kind = "plain" => thread[t].conn # "tx"

CallsInv == \A c \in Clients : CallOK(c)
ThreadsInv == \A t \in Threads : ThreadOK(t) /\ \A c \in Clients : LeaseOK(t, c)
PoolInv == JobsInv /\ CallsInv /\ ThreadsInv

-----------------------------------------------------------------------------
\* Sequences: one job is taken out, or put in front.
Without(q, i) == SubSeq(q, 1, i - 1) \o SubSeq(q, i + 1, Len(q))
Before(k, i) == IF k < i THEN k ELSE k + 1

LEMMA TakenOut ==
    ASSUME NEW S, NEW q \in Seq(S), NEW i \in 1..Len(q)
    PROVE  /\ Without(q, i) \in Seq(S) /\ DOMAIN Without(q, i) = 1..(Len(q) - 1)
           /\ DOMAIN q = 1..Len(q)
           /\ \A k \in DOMAIN Without(q, i) : Without(q, i)[k] = q[Before(k, i)]
           /\ \A k \in DOMAIN Without(q, i) : Before(k, i) \in DOMAIN q \ {i}
<1> DEFINE r == Without(q, i)
           n == Len(q)
           lo == SubSeq(q, 1, i - 1)
           hi == SubSeq(q, i + 1, n)
<1>0. n \in Nat /\ i \in 1..n /\ DOMAIN q = 1..n /\ \A k \in 1..n : q[k] \in S
  OBVIOUS
<1>1. /\ lo \in Seq(S) /\ Len(lo) = i - 1
      /\ \A k \in 1..(i - 1) : lo[k] = q[k]
  BY <1>0, SubSeqProperties
<1>2. /\ hi \in Seq(S) /\ Len(hi) = n - i
      /\ \A k \in 1..(n - i) : hi[k] = q[k + i]
  <2> HIDE DEF n
  <2>1. /\ i + 1 \in Int /\ n \in Int /\ \A k \in (i + 1)..n : q[k] \in S
        /\ (IF i + 1 <= n THEN n - (i + 1) + 1 ELSE 0) = n - i
        /\ n - (i + 1) + 1 = n - i
    BY <1>0
  <2>2. /\ hi \in Seq(S) /\ Len(hi) = n - i
        /\ \A k \in 1..(n - i) : hi[k] = q[(i + 1) + k - 1]
    <3>1. /\ hi \in Seq(S) /\ Len(hi) = (IF i + 1 <= n THEN n - (i + 1) + 1 ELSE 0)
          /\ \A k \in 1..(n - (i + 1) + 1) : hi[k] = q[(i + 1) + k - 1]
      BY <2>1, SubSeqProperties DEF hi
    <3>2. QED  BY <2>1, <3>1
  <2>3. \A k \in 1..(n - i) : (i + 1) + k - 1 = k + i
    BY <1>0
  <2>4. QED  BY <2>2, <2>3
<1> HIDE DEF n, lo, hi
<1>3. r = lo \o hi
  BY DEF lo, hi, n, Without
<1> HIDE DEF r
<1>4. /\ r \in Seq(S) /\ Len(r) = n - 1
      /\ \A k \in 1..(n - 1) : r[k] = IF k <= i - 1 THEN lo[k] ELSE hi[k - (i - 1)]
  <2>1. /\ r \in Seq(S) /\ Len(r) = Len(lo) + Len(hi)
        /\ \A k \in 1..(Len(lo) + Len(hi)) :
             r[k] = IF k <= Len(lo) THEN lo[k] ELSE hi[k - Len(lo)]
    <3>1. lo \in Seq(S) /\ hi \in Seq(S)
      BY <1>1, <1>2
    <3>2. QED  BY <1>3, <3>1, ConcatProperties, Zenon
  <2>2. (i - 1) + (n - i) = n - 1
    BY <1>0
  <2>3. QED  BY <1>1, <1>2, <2>1, <2>2
<1>5. ASSUME NEW k \in 1..(n - 1) PROVE r[k] = q[IF k < i THEN k ELSE k + 1]
  <2>1. CASE k < i
    <3>1. k \in 1..(i - 1) /\ k <= i - 1
      BY <1>0, <2>1
    <3>2. QED  BY <1>1, <1>4, <2>1, <3>1
  <2>2. CASE ~(k < i)
    <3>1. k - (i - 1) \in 1..(n - i) /\ k - (i - 1) + i = k + 1 /\ ~(k <= i - 1)
      BY <1>0, <2>2
    <3>2. QED  BY <1>2, <1>4, <2>2, <3>1
  <2>3. QED  BY <2>1, <2>2
<1>6. DOMAIN r = 1..(n - 1)
  BY <1>4
<1>7. \A k \in 1..(n - 1) : (IF k < i THEN k ELSE k + 1) \in (1..n) \ {i}
  BY <1>0
<1>8. QED  BY <1>0, <1>4, <1>5, <1>6, <1>7 DEF n, r, Before

LEMMA PutInFront ==
    ASSUME NEW S, NEW q \in Seq(S), NEW x \in S, NEW r, r = <<x>> \o q
    PROVE  /\ r \in Seq(S) /\ DOMAIN r = 1..(Len(q) + 1) /\ DOMAIN q = 1..Len(q)
           /\ r[1] = x /\ \A k \in DOMAIN q : r[k + 1] = q[k]
OBVIOUS

LEMMA PutBehind ==
    ASSUME NEW S, NEW q \in Seq(S), NEW x \in S, NEW r, r = Append(q, x)
    PROVE  /\ r \in Seq(S) /\ DOMAIN r = 1..(Len(q) + 1) /\ DOMAIN q = 1..Len(q)
           /\ r[Len(q) + 1] = x /\ \A k \in DOMAIN q : r[k] = q[k]
OBVIOUS

-----------------------------------------------------------------------------
\* Types.

\* New threads start where a dead one was.
Grown ==
    /\ thread' \in [Threads -> ThreadStates]
    /\ \A t \in Threads : \/ thread'[t] = thread[t]
                          \/ thread[t].at = "dead" /\ thread'[t] = NewThread

LEMMA ThreadStatesType ==
    ASSUME ConstantsAssumption
    PROVE  /\ DeadThread \in ThreadStates /\ NewThread \in ThreadStates
           /\ NewThread.at = "take" /\ NewThread.lease = NoClient /\ NewThread.conn = "none"
           /\ NewThread.job = NoJob /\ NewThread.pending = {}
           /\ NoJob \notin Jobs
BY DEF ConstantsAssumption, DeadThread, NewThread, ThreadStates, NoJob, Jobs

LEMMA StartedGrows ==
    ASSUME ConstantsAssumption, NEW n, NEW T \in [Threads -> ThreadStates]
    PROVE  /\ Started(n, T) \in [Threads -> ThreadStates]
           /\ \A t \in Threads : \/ Started(n, T)[t] = T[t]
                                 \/ T[t].at = "dead" /\ Started(n, T)[t] = NewThread
           /\ Spawned(n, T) \subseteq Threads
BY ThreadStatesType DEF Started, Spawned, Unused

LEMMA SubmitGrows ==
    ASSUME ConstantsAssumption, TypeOK, NEW j \in Jobs, Submit(j, thread)
    PROVE  /\ Grown /\ queue' = Append(queue, j) /\ queue' \in Seq(Jobs)
           /\ running' \in BOOLEAN /\ started' \in BOOLEAN /\ pool' \in SUBSET Threads
<1> DEFINE base == IF started THEN thread ELSE Started(MinConn, thread)
           members == IF started THEN pool ELSE pool \cup Spawned(MinConn, thread)
           missing == Len(queue) + 1 - Cardinality(Free(members, base))
           room == MaxConn - Cardinality(members)
           more == IF missing <= 0 \/ room <= 0 THEN 0
                   ELSE IF missing < room THEN missing ELSE room
<1>1. /\ queue' = Append(queue, j)
      /\ thread' = Started(more, base) /\ pool' = members \cup Spawned(more, base)
      /\ started' = TRUE /\ running' = (running \/ ~started)
  BY DEF Submit
<1>2. thread \in [Threads -> ThreadStates] /\ pool \in SUBSET Threads /\ queue \in Seq(Jobs)
      /\ running \in BOOLEAN /\ started \in BOOLEAN
  BY DEF TypeOK
<1>3. /\ base \in [Threads -> ThreadStates] /\ members \subseteq Threads
      /\ \A t \in Threads : base[t] = thread[t] \/ (thread[t].at = "dead" /\ base[t] = NewThread)
  BY <1>2, StartedGrows
<1> HIDE DEF base, members, more
<1>4. /\ thread' \in [Threads -> ThreadStates] /\ pool' \subseteq Threads
      /\ \A t \in Threads : \/ thread'[t] = base[t]
                            \/ base[t].at = "dead" /\ thread'[t] = NewThread
  BY <1>1, <1>3, StartedGrows
<1>5. Grown
  BY <1>3, <1>4, ThreadStatesType DEF Grown
<1>6. QED  BY <1>1, <1>2, <1>4, <1>5

\* The types of what a caller and a thread are.
ThreadType(s) == s \in ThreadStates /\ (s.at = "work" <=> s.job # NoJob)
                                    /\ (s.pending # {} => s.conn = "tx")

\* The types of a step in which threads may start.
LEMMA GrownType ==
    ASSUME ConstantsAssumption, TypeOK, Grown
    PROVE  \A t \in Threads : ThreadType(thread'[t])
BY ThreadStatesType DEF Grown, TypeOK, ThreadType

\* How the parts make the invariant TypeOK.
LEMMA TypeParts ==
    ASSUME queue' \in Seq(Jobs), running' \in BOOLEAN, started' \in BOOLEAN,
           pool' \in SUBSET Threads, thread' \in [Threads -> ThreadStates],
           \A t \in Threads : ThreadType(thread'[t]),
           call' \in [Clients -> CallStates], durable' \in [Clients -> SUBSET Statements],
           outcome' \in [Clients -> {"idle", "returned", "raised", "undone"}],
           calls' \in 0..MaxCalls, faults' \in 0..MaxFaults
    PROVE  TypeOK'
BY DEF TypeOK, ThreadType

\* Nothing in a job of the queue or in work is out of range.
LEMMA JobTypes ==
    ASSUME TypeOK
    PROVE  /\ DOMAIN queue = 1..Len(queue) /\ Len(queue) \in Nat
           /\ \A i \in DOMAIN queue : queue[i] \in Jobs /\ queue[i].client \in Clients
                                      /\ queue[i].kind \in Kinds
           /\ \A t \in Threads : Works(t) => /\ thread[t].job \in Jobs
                                             /\ thread[t].job.client \in Clients
                                             /\ thread[t].job.kind \in Kinds
<1>1. /\ queue \in Seq(Jobs)
      /\ \A t \in Threads : thread[t] \in ThreadStates /\ (Works(t) => thread[t].job # NoJob)
  BY DEF TypeOK, Works
<1>2. \A t \in Threads : Works(t) => thread[t].job \in Jobs
  BY <1>1 DEF ThreadStates
<1>3. /\ DOMAIN queue = 1..Len(queue) /\ Len(queue) \in Nat
      /\ \A i \in DOMAIN queue : queue[i] \in Jobs
  BY <1>1
<1>4. \A j \in Jobs : j.client \in Clients /\ j.kind \in Kinds
  BY DEF Jobs
<1>5. QED  BY <1>2, <1>3, <1>4

-----------------------------------------------------------------------------
\* Steps on the jobs.

\* A job of c is in the queue or in work.
Owned(j, c) ==
    \/ \E i \in DOMAIN queue : queue[i] = j /\ j.client = c
    \/ \E t \in Threads : Works(t) /\ thread[t].job = j /\ j.client = c
HasJob(c) == \E j \in Jobs : Owned(j, c)

\* A caller that has its reply, or has submitted nothing, has no job left.
LEMMA NoJobLeft ==
    ASSUME TypeOK, AllAwaited, NEW c \in Clients,
           call[c].reply # "none" \/ call[c].stage \in {"idle", "acquire", "gone"}
    PROVE  ~HasJob(c)
BY JobTypes DEF AllAwaited, IsAwaited, HasJob, Owned, Kinds

\* The same threads do the same work.
SameWork ==
    \A t \in Threads : /\ Works(t)' <=> Works(t)
                       /\ Works(t) => thread'[t].job = thread[t].job

LEMMA GrownSameWork == ASSUME ConstantsAssumption, Grown PROVE SameWork
BY ThreadStatesType DEF Grown, SameWork, Works

\* A caller without a job, or with a job that it still awaits, may change its place.
LEMMA JobsKept ==
    ASSUME TypeOK, JobsInv, UNCHANGED queue, SameWork,
           \A c \in Clients : \/ ~HasJob(c)
                              \/ /\ call'[c].stage = call[c].stage
                                 /\ call'[c].reply = call[c].reply
                                 /\ call'[c].next = call[c].next
    PROVE  JobsInv'
<1>1. ASSUME NEW i \in DOMAIN queue PROVE IsAwaited(queue[i])'
  <2>1. HasJob(queue[i].client) /\ queue[i].client \in Clients
    BY JobTypes DEF HasJob, Owned
  <2>2. IsAwaited(queue[i])
    BY DEF JobsInv, AllAwaited
  <2>3. QED  BY <2>1, <2>2 DEF IsAwaited
<1>2. ASSUME NEW t \in Threads, Works(t)' PROVE IsAwaited(thread[t].job)'
  <2>1. HasJob(thread[t].job.client) /\ thread[t].job.client \in Clients
        /\ thread'[t].job = thread[t].job
    BY <1>2, JobTypes DEF HasJob, Owned, SameWork
  <2>2. IsAwaited(thread[t].job)
    BY <1>2 DEF JobsInv, AllAwaited, SameWork
  <2>3. QED  BY <2>1, <2>2 DEF IsAwaited
<1>3. AllAwaited'
  BY <1>1, <1>2 DEF AllAwaited
<1>4. InOrder'
  BY DEF JobsInv, InOrder, SameWork, Precedes
<1>5. QED  BY <1>3, <1>4 DEF JobsInv

\* A new job comes behind the statement that its caller has left, if any.
LEMMA JobsSubmitted ==
    ASSUME TypeOK, JobsInv, NEW c \in Clients, NEW j \in Jobs, j.client = c,
           queue' = Append(queue, j), SameWork,
           \A d \in Clients \ {c} : call'[d] = call[d],
           IsAwaited(j)',
           \A k \in Jobs : Owned(k, c) => Precedes(k, j) /\ IsAwaited(k)'
    PROVE  JobsInv'
<1>0. /\ DOMAIN queue' = 1..(Len(queue) + 1) /\ DOMAIN queue = 1..Len(queue)
      /\ Len(queue) \in Nat
      /\ queue'[Len(queue) + 1] = j /\ \A k \in DOMAIN queue : queue'[k] = queue[k]
  <2>1. queue \in Seq(Jobs)
    BY DEF TypeOK
  <2>2. QED  BY <2>1, PutBehind
<1>a. ASSUME NEW k \in Jobs, IsAwaited(k), k.client \in Clients, Owned(k, k.client)
      PROVE  IsAwaited(k)'
  <2>1. CASE k.client = c
    BY <1>a, <2>1
  <2>2. CASE k.client # c
    BY <1>a, <2>2 DEF IsAwaited
  <2>3. QED  BY <2>1, <2>2
<1>1. ASSUME NEW i \in DOMAIN queue' PROVE IsAwaited(queue[i])'
  <2>1. CASE i = Len(queue) + 1
    BY <1>0, <2>1 DEF IsAwaited
  <2>2. CASE i \in DOMAIN queue
    <3>1. queue'[i] = queue[i] /\ IsAwaited(queue[i]) /\ queue[i] \in Jobs
          /\ queue[i].client \in Clients /\ Owned(queue[i], queue[i].client)
      BY <1>0, <2>2, JobTypes DEF JobsInv, AllAwaited, Owned
    <3> DEFINE k == queue[i]
    <3>2. IsAwaited(k)'
      BY <1>a, <3>1
    <3>3. QED  BY <3>1, <3>2 DEF IsAwaited
  <2>3. QED  BY <1>0, <2>1, <2>2
<1>2. ASSUME NEW t \in Threads, Works(t)' PROVE IsAwaited(thread[t].job)'
  <2>1. /\ thread'[t].job = thread[t].job /\ IsAwaited(thread[t].job) /\ thread[t].job \in Jobs
        /\ thread[t].job.client \in Clients /\ Owned(thread[t].job, thread[t].job.client)
    BY <1>2, JobTypes DEF SameWork, JobsInv, AllAwaited, Owned
  <2>2. QED  BY <1>a, <2>1 DEF IsAwaited
<1>3. ASSUME NEW i \in DOMAIN queue', NEW k \in DOMAIN queue', i < k,
             queue'[i].client = queue'[k].client
      PROVE  Precedes(queue'[i], queue'[k])
  <2>1. CASE k \in DOMAIN queue
    <3>1. i \in DOMAIN queue
      BY <1>0, <1>3, <2>1
    <3>2. QED  BY <1>0, <1>3, <2>1, <3>1 DEF JobsInv, InOrder
  <2>2. CASE k = Len(queue) + 1
    <3>1. i \in DOMAIN queue
      BY <1>0, <1>3, <2>2
    <3>2. Owned(queue[i], c) /\ queue[i] \in Jobs
      BY <1>0, <1>3, <2>2, <3>1, JobTypes DEF Owned
    <3>3. QED  BY <1>0, <2>2, <3>1, <3>2
  <2>3. QED  BY <1>0, <2>1, <2>2
<1>4. ASSUME NEW t \in Threads, NEW i \in DOMAIN queue', Works(t)',
             thread'[t].job.client = queue'[i].client
      PROVE  Precedes(thread'[t].job, queue'[i])
  <2>0. Works(t) /\ thread'[t].job = thread[t].job
    BY <1>4 DEF SameWork
  <2>1. CASE i \in DOMAIN queue
    BY <1>0, <1>4, <2>0, <2>1 DEF JobsInv, InOrder
  <2>2. CASE i = Len(queue) + 1
    <3>1. Owned(thread[t].job, c) /\ thread[t].job \in Jobs
      BY <1>0, <1>4, <2>0, <2>2, JobTypes DEF Owned
    <3>2. QED  BY <1>0, <2>0, <2>2, <3>1
  <2>3. QED  BY <1>0, <2>1, <2>2
<1>5. \A t, u \in Threads :
        Works(t)' /\ Works(u)' /\ thread'[t].job.client = thread'[u].job.client => t = u
  BY DEF SameWork, JobsInv, InOrder
<1>6. QED
  BY <1>1, <1>2, <1>3, <1>4, <1>5 DEF JobsInv, AllAwaited, InOrder, Precedes

\* The work of the threads other than t.
OtherWork(t) ==
    \A u \in Threads \ {t} : /\ Works(u)' <=> Works(u)
                             /\ Works(u) => thread'[u].job = thread[u].job

\* A thread takes the first job that it may take, so it does not overtake a
\* statement of its transaction.
LEMMA JobsTaken ==
    ASSUME ConstantsAssumption, TypeOK, PoolInv, NEW t \in Threads, Take(t)
    PROVE  JobsInv' /\ OtherWork(t)
<1>1. PICK i \in Takeable(t) :
        /\ \A k \in Takeable(t) : i <= k
        /\ queue' = SubSeq(queue, 1, i - 1) \o SubSeq(queue, i + 1, Len(queue))
        /\ thread' = [thread EXCEPT ![t].at = "work", ![t].job = queue[i]]
  BY DEF Take
<1>2. /\ queue \in Seq(Jobs) /\ i \in 1..Len(queue) /\ MayTake(t, queue[i])
      /\ thread \in [Threads -> ThreadStates] /\ UNCHANGED call /\ ~Works(t)
  BY <1>1 DEF TypeOK, Takeable, Take, Works
<1>3. /\ DOMAIN queue' = 1..(Len(queue) - 1) /\ DOMAIN queue = 1..Len(queue)
      /\ \A k \in DOMAIN queue' : /\ queue'[k] = queue[Before(k, i)]
                                  /\ Before(k, i) \in DOMAIN queue /\ Before(k, i) # i
  <2>1. queue' = Without(queue, i)
    BY <1>1 DEF Without
  <2>2. QED  BY <1>2, <2>1, TakenOut
<1>4. \A k, l \in DOMAIN queue' : k < l => Before(k, i) < Before(l, i)
  BY <1>2, <1>3 DEF Before
<1>5. /\ Works(t)' /\ thread'[t].job = queue[i] /\ OtherWork(t)
      /\ \A u \in Threads \ {t} : thread'[u] = thread[u]
  BY <1>1, <1>2 DEF Works, OtherWork
<1>6. ASSUME NEW k \in DOMAIN queue PROVE IsAwaited(queue[k])
  BY DEF PoolInv, JobsInv, AllAwaited
<1>7. \A k \in DOMAIN queue' : IsAwaited(queue[k])'
  BY <1>2, <1>3, <1>6 DEF IsAwaited
<1>8. \A u \in Threads : Works(u)' => IsAwaited(thread[u].job)'
  <2>1. \A u \in Threads : Works(u) => IsAwaited(thread[u].job)
    BY DEF PoolInv, JobsInv, AllAwaited
  <2>2. IsAwaited(thread[t].job)'
    BY <1>2, <1>3, <1>5, <1>6 DEF IsAwaited
  <2>3. QED  BY <1>2, <1>5, <2>1, <2>2 DEF IsAwaited, Works
<1>9. ASSUME NEW k \in DOMAIN queue', NEW l \in DOMAIN queue', k < l,
             queue'[k].client = queue'[l].client
      PROVE  Precedes(queue'[k], queue'[l])
  BY <1>3, <1>4, <1>9 DEF PoolInv, JobsInv, InOrder
<1>10. ASSUME NEW k \in DOMAIN queue, k # i, queue[i].client = queue[k].client
       PROVE  Precedes(queue[i], queue[k])
  <2>1. CASE i < k
    BY <1>2, <1>3, <1>10, <2>1 DEF PoolInv, JobsInv, InOrder
  <2>2. CASE k < i
    <3>1. queue[k].kind = "statement" /\ queue[i].kind = "rollback"
      BY <1>2, <1>3, <1>10, <2>2 DEF PoolInv, JobsInv, InOrder, Precedes
    <3>2. k \in Takeable(t)
      BY <1>2, <1>3, <1>10, <3>1 DEF Takeable, MayTake, Leased
    <3>3. k \in Int /\ i \in Int
      BY <1>2, <1>3
    <3>4. QED  BY <1>1, <2>2, <3>2, <3>3
  <2>3. QED  BY <1>2, <1>3, <1>10, <2>1, <2>2
<1>11. ASSUME NEW u \in Threads, NEW k \in DOMAIN queue', Works(u)',
              thread'[u].job.client = queue'[k].client
       PROVE  Precedes(thread'[u].job, queue'[k])
  <2>1. CASE u = t
    BY <1>3, <1>5, <1>10, <1>11, <2>1
  <2>2. CASE u # t
    BY <1>3, <1>5, <1>11, <2>2 DEF PoolInv, JobsInv, InOrder, Works
  <2>3. QED  BY <2>1, <2>2
<1>12. ASSUME NEW u \in Threads, u # t, Works(u), thread[u].job.client = queue[i].client
       PROVE  FALSE
  <2>1. Precedes(thread[u].job, queue[i])
    BY <1>2, <1>3, <1>12 DEF PoolInv, JobsInv, InOrder
  <2>2. thread[t].lease = queue[i].client
    BY <1>2, <2>1 DEF MayTake, Leased, Precedes
  <2>3. thread[u].lease = queue[i].client
    BY <1>12, <2>1 DEF PoolInv, ThreadsInv, ThreadOK, Leased, Precedes
  <2>4. queue[i].client \in Clients
    BY <1>2, <1>3, JobTypes
  <2>5. QED  BY <1>12, <2>2, <2>3, <2>4 DEF PoolInv, ThreadsInv, LeaseOK
<1>13. ASSUME NEW u \in Threads, NEW v \in Threads, Works(u)', Works(v)',
              thread'[u].job.client = thread'[v].job.client
       PROVE  u = v
  <2>1. CASE u = t
    BY <1>5, <1>12, <1>13, <2>1 DEF Works
  <2>2. CASE v = t
    BY <1>5, <1>12, <1>13, <2>2 DEF Works
  <2>3. CASE u # t /\ v # t
    BY <1>5, <1>13, <2>3 DEF PoolInv, JobsInv, InOrder, Works
  <2>4. QED  BY <2>1, <2>2, <2>3
<1>14. AllAwaited'
  BY <1>7, <1>8 DEF AllAwaited
<1>15. InOrder'
  BY <1>9, <1>11, <1>13 DEF InOrder, Precedes
<1>16. QED  BY <1>5, <1>14, <1>15 DEF JobsInv

\* While a thread works for c, only a rollback can wait for c, behind a statement.
LEMMA OnlyRollback ==
    ASSUME TypeOK, JobsInv, NEW t \in Threads, Works(t), NEW c \in Clients,
           thread[t].job.client = c
    PROVE  /\ \A i \in DOMAIN queue :
                queue[i].client = c => Precedes(thread[t].job, queue[i])
           /\ \A u \in Threads : Works(u) /\ thread[u].job.client = c => u = t
           /\ (\E i \in DOMAIN queue : queue[i].client = c) => call[c].stage = "rollback"
<1>1. \A i \in DOMAIN queue : queue[i].client = c => Precedes(thread[t].job, queue[i])
  BY DEF JobsInv, InOrder
<1>2. \A u \in Threads : Works(u) /\ thread[u].job.client = c => u = t
  BY DEF JobsInv, InOrder
<1>3. \A i \in DOMAIN queue :
        queue[i].client = c => queue[i].kind = "rollback" /\ IsAwaited(queue[i])
  BY <1>1 DEF JobsInv, AllAwaited, Precedes
<1>4. QED  BY <1>1, <1>2, <1>3 DEF IsAwaited

\* A job that has ended leaves no job that its caller does not await.
LEMMA JobsReplied ==
    ASSUME TypeOK, JobsInv, NEW t \in Threads, Works(t), UNCHANGED queue, OtherWork(t),
           ~Works(t)', NEW how, Reply(thread[t].job, how)
    PROVE  JobsInv'
<1> DEFINE j == thread[t].job
           c == j.client
<1>1. j \in Jobs /\ c \in Clients /\ call \in [Clients -> CallStates] /\ IsAwaited(j)
  BY JobTypes DEF TypeOK, JobsInv, AllAwaited
<1>2. /\ \A d \in Clients \ {c} : call'[d] = call[d]
      /\ call'[c].stage = call[c].stage
      /\ call[c].stage # j.kind => call'[c].reply = call[c].reply
  BY <1>1 DEF Reply, CallStates
<1>3. ASSUME NEW k \in Jobs, IsAwaited(k), k.client \in Clients,
             k.client = c => call[c].stage = "rollback" /\ j.kind = "statement"
                             /\ k.kind = "rollback"
      PROVE  IsAwaited(k)'
  <2>1. CASE k.client = c
    BY <1>2, <1>3, <2>1 DEF IsAwaited
  <2>2. CASE k.client # c
    BY <1>2, <1>3, <2>2 DEF IsAwaited
  <2>3. QED  BY <2>1, <2>2
<1>4. ASSUME NEW i \in DOMAIN queue PROVE IsAwaited(queue[i])'
  <2>1. queue[i] \in Jobs /\ queue[i].client \in Clients /\ IsAwaited(queue[i])
    BY JobTypes DEF JobsInv, AllAwaited
  <2>2. queue[i].client = c => call[c].stage = "rollback" /\ j.kind = "statement"
                               /\ queue[i].kind = "rollback"
    BY <1>1, OnlyRollback DEF Precedes
  <2> DEFINE k == queue[i]
  <2>3. IsAwaited(k)'
    BY <1>3, <2>1, <2>2
  <2>4. QED  BY <2>3 DEF IsAwaited
<1>5. ASSUME NEW u \in Threads, Works(u)' PROVE IsAwaited(thread[u].job)'
  <2>1. u # t /\ Works(u) /\ thread'[u].job = thread[u].job
    BY <1>5 DEF OtherWork
  <2>2. /\ thread[u].job \in Jobs /\ thread[u].job.client \in Clients
        /\ IsAwaited(thread[u].job) /\ thread[u].job.client # c
    BY <1>1, <2>1, JobTypes, OnlyRollback DEF JobsInv, AllAwaited
  <2>3. QED  BY <1>2, <2>1, <2>2 DEF IsAwaited
<1>6. AllAwaited'
  BY <1>4, <1>5 DEF AllAwaited
<1>7. InOrder'
  BY DEF OtherWork, JobsInv, InOrder, Precedes
<1>8. QED  BY <1>6, <1>7 DEF JobsInv

\* A plain job that is retried goes to the front; it is the only one of its caller.
LEMMA JobsRetried ==
    ASSUME TypeOK, JobsInv, NEW t \in Threads, Works(t), ~Leased(thread[t].job),
           OtherWork(t), ~Works(t)', UNCHANGED call, NEW j \in Jobs,
           j.client = thread[t].job.client, j.kind = thread[t].job.kind,
           queue' = <<j>> \o queue
    PROVE  JobsInv'
<1>1. /\ DOMAIN queue' = 1..(Len(queue) + 1) /\ DOMAIN queue = 1..Len(queue)
      /\ Len(queue) \in Nat /\ queue'[1] = j
      /\ \A k \in DOMAIN queue : queue'[k + 1] = queue[k]
  <2>1. queue \in Seq(Jobs)
    BY DEF TypeOK
  <2>2. QED  BY <2>1, PutInFront
<1>2. j.client \in Clients
  BY JobTypes
<1>3. /\ \A i \in DOMAIN queue : queue[i].client # j.client
      /\ \A u \in Threads : Works(u) /\ u # t => thread[u].job.client # j.client
  BY <1>2, OnlyRollback DEF Precedes, Leased
<1>4. \A i \in DOMAIN queue' : i = 1 \/ (i - 1 \in DOMAIN queue /\ queue'[i] = queue[i - 1])
  BY <1>1
<1>5. IsAwaited(j)
  BY DEF JobsInv, AllAwaited, IsAwaited
<1>6. ASSUME NEW i \in DOMAIN queue' PROVE IsAwaited(queue[i])'
  <2>1. CASE i = 1
    BY <1>1, <1>5, <2>1 DEF IsAwaited
  <2>2. CASE i - 1 \in DOMAIN queue /\ queue'[i] = queue[i - 1]
    <3>1. IsAwaited(queue[i - 1])
      BY <2>2 DEF JobsInv, AllAwaited
    <3>2. QED  BY <2>2, <3>1 DEF IsAwaited
  <2>3. QED  BY <1>4, <2>1, <2>2
<1>7. ASSUME NEW u \in Threads, Works(u)' PROVE IsAwaited(thread[u].job)'
  <2>1. u # t /\ Works(u) /\ thread'[u].job = thread[u].job
    BY <1>7 DEF OtherWork
  <2>2. IsAwaited(thread[u].job)
    BY <2>1 DEF JobsInv, AllAwaited
  <2>3. QED  BY <2>1, <2>2 DEF IsAwaited
<1>8. ASSUME NEW i \in DOMAIN queue', NEW k \in DOMAIN queue', i < k,
             queue'[i].client = queue'[k].client
      PROVE  Precedes(queue'[i], queue'[k])
  <2>0. i \in Int /\ k \in Int /\ i >= 1
    BY <1>1
  <2>1. k - 1 \in DOMAIN queue /\ queue'[k] = queue[k - 1]
    BY <1>4, <1>8, <2>0
  <2>2. CASE i = 1
    BY <1>1, <1>3, <1>8, <2>1, <2>2
  <2>3. CASE i - 1 \in DOMAIN queue /\ queue'[i] = queue[i - 1]
    <3>1. i - 1 < k - 1
      BY <1>8, <2>0
    <3>2. QED  BY <1>8, <2>1, <2>3, <3>1 DEF JobsInv, InOrder
  <2>4. QED  BY <1>4, <2>2, <2>3
<1>9. ASSUME NEW u \in Threads, NEW i \in DOMAIN queue', Works(u)',
             thread'[u].job.client = queue'[i].client
      PROVE  Precedes(thread'[u].job, queue'[i])
  <2>1. u # t /\ Works(u) /\ thread'[u].job = thread[u].job
    BY <1>9 DEF OtherWork
  <2>2. CASE i = 1
    BY <1>1, <1>3, <1>9, <2>1, <2>2
  <2>3. CASE i - 1 \in DOMAIN queue /\ queue'[i] = queue[i - 1]
    BY <1>9, <2>1, <2>3 DEF JobsInv, InOrder
  <2>4. QED  BY <1>4, <2>2, <2>3
<1>10. \A u, v \in Threads :
         Works(u)' /\ Works(v)' /\ thread'[u].job.client = thread'[v].job.client => u = v
  BY DEF OtherWork, JobsInv, InOrder
<1>11. QED  BY <1>6, <1>7, <1>8, <1>9, <1>10 DEF JobsInv, AllAwaited, InOrder, Precedes

-----------------------------------------------------------------------------
\* Steps on the callers and the threads.

\* No statement of c is new in the queue.
NoNewStatement(c) == Waiting(c)' # {} => Waiting(c) # {}

LEMMA AppendedStatement ==
    ASSUME TypeOK, NEW c \in Clients, NEW j \in Jobs, queue' = Append(queue, j),
           ~(j.client = c /\ j.kind = "statement")
    PROVE  NoNewStatement(c)
<1>1. /\ DOMAIN queue' = 1..(Len(queue) + 1) /\ DOMAIN queue = 1..Len(queue)
      /\ Len(queue) \in Nat
      /\ queue'[Len(queue) + 1] = j /\ \A k \in DOMAIN queue : queue'[k] = queue[k]
  <2>1. queue \in Seq(Jobs)
    BY DEF TypeOK
  <2>2. QED  BY <2>1, PutBehind
<1>2. \A k \in DOMAIN queue' : k = Len(queue) + 1 \/ k \in DOMAIN queue
  BY <1>1
<1>3. \A k \in Waiting(c)' : k \in Waiting(c)
  BY <1>1, <1>2 DEF Waiting
<1>4. QED  BY <1>3 DEF NoNewStatement

LEMMA SameStatements ==
    ASSUME NEW c \in Clients, UNCHANGED queue
    PROVE  NoNewStatement(c)
BY DEF NoNewStatement, Waiting

LEMMA RetriedStatement ==
    ASSUME TypeOK, NEW c \in Clients, NEW j \in Jobs, j.kind = "plain",
           queue' = <<j>> \o queue
    PROVE  NoNewStatement(c)
<1>1. /\ DOMAIN queue' = 1..(Len(queue) + 1) /\ DOMAIN queue = 1..Len(queue)
      /\ Len(queue) \in Nat /\ queue'[1] = j
      /\ \A k \in DOMAIN queue : queue'[k + 1] = queue[k]
  <2>1. queue \in Seq(Jobs)
    BY DEF TypeOK
  <2>2. QED  BY <2>1, PutInFront
<1>2. \A k \in DOMAIN queue' : k = 1 \/ (k - 1 \in DOMAIN queue /\ queue'[k] = queue[k - 1])
  BY <1>1
<1>3. \A k \in Waiting(c)' : k - 1 \in Waiting(c)
  BY <1>1, <1>2 DEF Waiting
<1>4. QED  BY <1>3 DEF NoNewStatement

LEMMA TakenStatement ==
    ASSUME TypeOK, NEW c \in Clients, NEW t \in Threads, Take(t)
    PROVE  NoNewStatement(c)
<1>1. PICK i \in Takeable(t) :
        queue' = SubSeq(queue, 1, i - 1) \o SubSeq(queue, i + 1, Len(queue))
  BY DEF Take
<1>2. queue' = Without(queue, i) /\ queue \in Seq(Jobs) /\ i \in 1..Len(queue)
  BY <1>1 DEF Without, TypeOK, Takeable
<1>3. \A k \in DOMAIN queue' : queue'[k] = queue[Before(k, i)] /\ Before(k, i) \in DOMAIN queue
  BY <1>2, TakenOut
<1>4. \A k \in Waiting(c)' : Before(k, i) \in Waiting(c)
  BY <1>3 DEF Waiting
<1>5. QED  BY <1>4 DEF NoNewStatement

\* Nothing has changed that concerns the lease of c.
LEMMA LeaseKept ==
    ASSUME ThreadsInv, NEW c \in Clients,
           call'[c].stage = call[c].stage, call'[c].reply = call[c].reply,
           call'[c].next = call[c].next, NoNewStatement(c),
           \A t \in Threads : thread'[t].lease = c =>
             /\ thread[t].lease = c /\ thread'[t].conn = thread[t].conn
             /\ thread'[t].pending = thread[t].pending
             /\ thread'[t].at # "dead" => thread[t].at # "dead"
    PROVE  \A t \in Threads : LeaseOK(t, c)'
<1> TAKE t \in Threads
<1>1. LeaseOK(t, c)
  BY DEF ThreadsInv
<1>2. IsOpen(c)' = IsOpen(c) /\ IsClosed(c)' = IsClosed(c)
  BY DEF IsOpen, IsClosed
<1>3. QED  BY <1>1, <1>2 DEF LeaseOK, NoNewStatement

\* The step of a caller that has no lease, and gets none.
LEMMA NotLeased ==
    ASSUME ThreadsInv, NEW c \in Clients, call[c].stage \in {"idle", "acquire", "plain"}
    PROVE  \A t \in Threads : thread[t].lease # c
BY DEF ThreadsInv, LeaseOK

LEMMA GrownLease ==
    ASSUME ConstantsAssumption, Grown, NEW c \in Clients
    PROVE  \A t \in Threads : thread'[t].lease = c => thread'[t] = thread[t]
BY ThreadStatesType DEF Grown, ConstantsAssumption

LEMMA GrownThreads ==
    ASSUME ConstantsAssumption, ThreadsInv, Grown
    PROVE  \A t \in Threads : ThreadOK(t)'
<1> TAKE t \in Threads
<1>1. ThreadOK(t)
  BY DEF ThreadsInv
<1>2. CASE thread'[t] = thread[t]
  BY <1>1, <1>2 DEF ThreadOK, Works
<1>3. CASE thread'[t] = NewThread
  BY <1>3, ThreadStatesType DEF ThreadOK, Works
<1>4. QED  BY <1>2, <1>3 DEF Grown

\* A caller without lease and jobs, for which threads may start.
LEMMA UnleasedCaller ==
    ASSUME ConstantsAssumption, TypeOK, PoolInv, NEW c \in Clients,
           call[c].stage \in {"idle", "acquire", "plain"}, Grown,
           \A d \in Clients \ {c} : call'[d] = call[d] /\ NoNewStatement(d)
    PROVE  ThreadsInv'
<1>1. \A t \in Threads : ThreadOK(t)'
  BY GrownThreads DEF PoolInv
<1>2. ASSUME NEW d \in Clients PROVE \A t \in Threads : LeaseOK(t, d)'
  <2>1. CASE d = c
    <3>1. \A t \in Threads : thread[t].lease # c
      BY NotLeased DEF PoolInv
    <3>2. \A t \in Threads : thread'[t].lease # c
      BY <3>1, GrownLease
    <3>3. QED  BY <2>1, <3>2 DEF LeaseOK
  <2>2. CASE d # c
    BY <2>2, GrownLease, LeaseKept DEF PoolInv
  <2>3. QED  BY <2>1, <2>2
<1>3. QED  BY <1>1, <1>2 DEF ThreadsInv

\* The same for a caller with a lease: it only has to show its own lease.
LEMMA LeasedCaller ==
    ASSUME ConstantsAssumption, TypeOK, PoolInv, NEW c \in Clients, Grown,
           \A d \in Clients \ {c} : call'[d] = call[d] /\ NoNewStatement(d),
           \A t \in Threads : thread[t].lease = c /\ thread'[t] = thread[t] => LeaseOK(t, c)'
    PROVE  ThreadsInv'
<1>1. \A t \in Threads : ThreadOK(t)'
  BY GrownThreads DEF PoolInv
<1>2. ASSUME NEW d \in Clients PROVE \A t \in Threads : LeaseOK(t, d)'
  <2>1. CASE d = c
    <3>1. ASSUME NEW t \in Threads PROVE LeaseOK(t, c)'
      <4>1. CASE thread'[t].lease = c
        BY <4>1, GrownLease
      <4>2. CASE thread'[t].lease # c
        BY <4>2 DEF LeaseOK
      <4>3. QED  BY <4>1, <4>2
    <3>2. QED  BY <2>1, <3>1
  <2>2. CASE d # c
    BY <2>2, GrownLease, LeaseKept DEF PoolInv
  <2>3. QED  BY <2>1, <2>2
<1>3. QED  BY <1>1, <1>2 DEF ThreadsInv

-----------------------------------------------------------------------------
\* The actions of callers.

\* What every step has to keep.
Kept == TypeOK' /\ PoolInv'

LEMMA CallsOf ==
    ASSUME CallsInv, NEW c \in Clients, CallOK(c)',
           \A d \in Clients \ {c} : call'[d] = call[d] /\ durable'[d] = durable[d]
    PROVE  CallsInv'
<1>1. ASSUME NEW d \in Clients PROVE CallOK(d)'
  <2>1. CASE d = c
    BY <2>1
  <2>2. CASE d # c
    BY <2>2 DEF CallsInv, CallOK
  <2>3. QED  BY <2>1, <2>2
<1>2. QED  BY <1>1 DEF CallsInv

LEMMA CallType ==
    ASSUME TypeOK, NEW c \in Clients
    PROVE  /\ call \in [Clients -> CallStates] /\ call[c] \in CallStates
           /\ call[c].stage \in Stages /\ call[c].reply \in {"none", "ok", "error"}
           /\ call[c].next \in 1..(NumStatements + 1) /\ call[c].cancelled \in BOOLEAN
           /\ durable \in [Clients -> SUBSET Statements]
BY DEF TypeOK, CallStates

LEMMA NoCallType ==
    ASSUME ConstantsAssumption
    PROVE  /\ NoCall \in CallStates /\ [NoCall EXCEPT !.stage = "gone"] \in CallStates
           /\ \A c \in Clients, k \in Kinds :
                Job(c, k) \in Jobs /\ Job(c, k).client = c /\ Job(c, k).kind = k
<1>1. 1 \in 1..(NumStatements + 1) /\ 0 \in 0..MaxRetries
  BY DEF ConstantsAssumption
<1>2. NoCall \in CallStates
  BY <1>1 DEF NoCall, CallStates, Stages
<1>3. [NoCall EXCEPT !.stage = "gone"] \in CallStates
  BY <1>1 DEF NoCall, CallStates, Stages
<1>4. \A c \in Clients, k \in Kinds :
        Job(c, k) \in Jobs /\ Job(c, k).client = c /\ Job(c, k).kind = k
  BY <1>1 DEF Job, Jobs
<1>5. QED  BY <1>2, <1>3, <1>4

LEMMA PlainKeeps ==
    ASSUME ConstantsAssumption, TypeOK, PoolInv, NEW c \in Clients, Plain(c)
    PROVE  Kept
<1> DEFINE j == Job(c, "plain")
<1>1. /\ call[c].stage = "idle" /\ calls < MaxCalls /\ calls' = calls + 1
      /\ durable' = [durable EXCEPT ![c] = {}] /\ outcome' = [outcome EXCEPT ![c] = "idle"]
      /\ UNCHANGED faults /\ Submit(j, thread)
      /\ call' = [call EXCEPT ![c].stage = "plain"]
  BY DEF Plain, NewCall
<1>2. j \in Jobs /\ j.client = c /\ j.kind = "plain"
  BY NoCallType DEF Kinds
<1>3. CallOK(c) /\ CallsInv /\ JobsInv /\ ThreadsInv
  BY DEF PoolInv, CallsInv
<1>4. /\ call[c].reply = "none" /\ call[c].next = 1
      /\ call'[c].stage = "plain" /\ call'[c].reply = "none" /\ call'[c].next = 1
      /\ \A d \in Clients \ {c} : call'[d] = call[d] /\ durable'[d] = durable[d]
      /\ durable'[c] = {}
  BY <1>1, <1>3, CallType DEF CallOK, CallStates
<1>5. /\ Grown /\ queue' = Append(queue, j) /\ queue' \in Seq(Jobs)
      /\ running' \in BOOLEAN /\ started' \in BOOLEAN /\ pool' \in SUBSET Threads
  BY <1>1, <1>2, SubmitGrows
<1> HIDE DEF j
<1>6. TypeOK'
  <2>1. call' \in [Clients -> CallStates]
    BY <1>1, CallType DEF CallStates, Stages, Kinds
  <2>2. /\ durable' \in [Clients -> SUBSET Statements]
        /\ outcome' \in [Clients -> {"idle", "returned", "raised", "undone"}]
        /\ calls' \in 0..MaxCalls /\ faults' \in 0..MaxFaults
    BY <1>1 DEF TypeOK, ConstantsAssumption
  <2>3. thread' \in [Threads -> ThreadStates] /\ \A t \in Threads : ThreadType(thread'[t])
    BY <1>5, GrownType DEF Grown
  <2>4. QED  BY <1>5, <2>1, <2>2, <2>3, TypeParts
<1>7. JobsInv'
  <2>1. ~HasJob(c)
    BY <1>1, <1>3, NoJobLeft DEF JobsInv
  <2>2. SameWork
    BY <1>5, GrownSameWork
  <2>3. IsAwaited(j)'
    BY <1>2, <1>4 DEF IsAwaited
  <2>4. \A k \in Jobs : ~Owned(k, c)
    BY <2>1 DEF HasJob
  <2>5. QED  BY <1>2, <1>3, <1>4, <1>5, <2>2, <2>3, <2>4, JobsSubmitted
<1>8. CallsInv'
  <2>1. CallOK(c)'
    BY <1>4 DEF CallOK
  <2>2. QED  BY <1>3, <1>4, <2>1, CallsOf
<1>9. ThreadsInv'
  <2>1. \A d \in Clients : NoNewStatement(d)
    BY <1>2, <1>5, AppendedStatement
  <2>2. QED  BY <1>1, <1>4, <1>5, <2>1, UnleasedCaller
<1>10. QED  BY <1>6, <1>7, <1>8, <1>9 DEF Kept, PoolInv

LEMMA TransactionKeeps ==
    ASSUME ConstantsAssumption, TypeOK, PoolInv, NEW c \in Clients, Transaction(c)
    PROVE  Kept
<1>1. /\ call[c].stage = "idle" /\ calls < MaxCalls /\ calls' = calls + 1
      /\ durable' = [durable EXCEPT ![c] = {}] /\ outcome' = [outcome EXCEPT ![c] = "idle"]
      /\ UNCHANGED <<faults, queue>>
      /\ call' = [call EXCEPT ![c].stage = "acquire"]
      /\ running' = (running \/ ~started) /\ started' = TRUE
      /\ pool' = (IF started THEN pool ELSE pool \cup Spawned(MinConn, thread))
      /\ thread' = (IF started THEN thread ELSE Started(MinConn, thread))
  BY DEF Transaction, NewCall
<1>3. CallOK(c) /\ CallsInv /\ JobsInv /\ ThreadsInv
  BY DEF PoolInv, CallsInv
<1>4. /\ call[c].reply = "none" /\ call[c].next = 1
      /\ call'[c].stage = "acquire" /\ call'[c].reply = "none" /\ call'[c].next = 1
      /\ \A d \in Clients \ {c} : call'[d] = call[d] /\ durable'[d] = durable[d]
      /\ durable'[c] = {}
  BY <1>1, <1>3, CallType DEF CallOK, CallStates
<1>5. Grown /\ pool' \in SUBSET Threads
  <2>1. thread \in [Threads -> ThreadStates] /\ pool \in SUBSET Threads
    BY DEF TypeOK
  <2>2. QED  BY <1>1, <2>1, StartedGrows DEF Grown
<1>6. TypeOK'
  <2>1. call' \in [Clients -> CallStates]
    BY <1>1, CallType DEF CallStates, Stages, Kinds
  <2>2. /\ durable' \in [Clients -> SUBSET Statements]
        /\ outcome' \in [Clients -> {"idle", "returned", "raised", "undone"}]
        /\ calls' \in 0..MaxCalls /\ faults' \in 0..MaxFaults
        /\ queue' \in Seq(Jobs) /\ running' \in BOOLEAN /\ started' \in BOOLEAN
    BY <1>1 DEF TypeOK, ConstantsAssumption
  <2>3. thread' \in [Threads -> ThreadStates] /\ \A t \in Threads : ThreadType(thread'[t])
    BY <1>5, GrownType DEF Grown
  <2>4. QED  BY <1>5, <2>1, <2>2, <2>3, TypeParts
<1>7. JobsInv'
  <2>1. ~HasJob(c)
    BY <1>1, <1>3, NoJobLeft DEF JobsInv
  <2>2. SameWork
    BY <1>5, GrownSameWork
  <2>3. QED  BY <1>1, <1>3, <1>4, <2>1, <2>2, JobsKept
<1>8. CallsInv'
  <2>1. CallOK(c)'
    BY <1>4 DEF CallOK
  <2>2. QED  BY <1>3, <1>4, <2>1, CallsOf
<1>9. ThreadsInv'
  <2>1. \A d \in Clients : NoNewStatement(d)
    BY <1>1, SameStatements
  <2>2. QED  BY <1>1, <1>4, <1>5, <2>1, UnleasedCaller
<1>10. QED  BY <1>6, <1>7, <1>8, <1>9 DEF Kept, PoolInv

\* The caller of a transaction submits its next job.
LEMMA NextJob ==
    ASSUME ConstantsAssumption, TypeOK, PoolInv, NEW c \in Clients,
           NEW kind \in {"statement", "commit", "rollback"},
           Submit(Job(c, kind), thread),
           call' = [call EXCEPT ![c].stage = kind, ![c].reply = "none"],
           UNCHANGED <<durable, outcome, calls>>, faults' \in 0..MaxFaults,
           call[c].stage \in {"begin", "statement"},
           kind # "rollback" => call[c].reply = "ok",
           kind = "statement" => call[c].next <= NumStatements,
           kind = "commit" => call[c].stage = "statement" /\ call[c].next = NumStatements + 1,
           kind = "rollback" => call[c].stage = "statement"
    PROVE  Kept
<1> DEFINE j == Job(c, kind)
<1>2. j \in Jobs /\ j.client = c /\ j.kind = kind
  BY NoCallType DEF Kinds
<1>3. CallOK(c) /\ CallsInv /\ JobsInv /\ ThreadsInv
  BY DEF PoolInv, CallsInv
<1>4. /\ call'[c].stage = kind /\ call'[c].reply = "none" /\ call'[c].next = call[c].next
      /\ \A d \in Clients \ {c} : call'[d] = call[d] /\ durable'[d] = durable[d]
      /\ durable'[c] = {}
  BY <1>3, CallType DEF CallOK, CallStates
<1>5. /\ Grown /\ queue' = Append(queue, j) /\ queue' \in Seq(Jobs)
      /\ running' \in BOOLEAN /\ started' \in BOOLEAN /\ pool' \in SUBSET Threads
  BY <1>2, SubmitGrows
<1> HIDE DEF j
<1>6. TypeOK'
  <2>1. call' \in [Clients -> CallStates]
    BY CallType DEF CallStates, Stages, Kinds
  <2>2. /\ durable' \in [Clients -> SUBSET Statements]
        /\ outcome' \in [Clients -> {"idle", "returned", "raised", "undone"}]
        /\ calls' \in 0..MaxCalls /\ faults' \in 0..MaxFaults
    BY DEF TypeOK
  <2>3. thread' \in [Threads -> ThreadStates] /\ \A t \in Threads : ThreadType(thread'[t])
    BY <1>5, GrownType DEF Grown
  <2>4. QED  BY <1>5, <2>1, <2>2, <2>3, TypeParts
<1>7. \A k \in Jobs : Owned(k, c) =>
        /\ kind = "rollback" /\ k.kind = "statement" /\ k.client = c
        /\ call[c].reply = "none" /\ call[c].next <= NumStatements
  <2>1. CASE call[c].reply # "none"
    BY <1>3, <2>1, NoJobLeft DEF HasJob, JobsInv
  <2>2. CASE call[c].reply = "none"
    <3>1. kind = "rollback" /\ call[c].stage = "statement"
      BY <2>2
    <3>2. ASSUME NEW k \in Jobs, Owned(k, c) PROVE IsAwaited(k) /\ k.client = c
      BY <1>3, <3>2 DEF Owned, JobsInv, AllAwaited
    <3>3. QED  BY <3>1, <3>2 DEF IsAwaited
  <2>3. QED  BY <2>1, <2>2
<1>8. JobsInv'
  <2>1. SameWork
    BY <1>5, GrownSameWork
  <2>2. IsAwaited(j)'
    BY <1>2, <1>4 DEF IsAwaited
  <2>3. ASSUME NEW k \in Jobs, Owned(k, c) PROVE Precedes(k, j) /\ IsAwaited(k)'
    BY <1>2, <1>4, <1>7, <2>3 DEF Precedes, IsAwaited
  <2>4. QED  BY <1>2, <1>3, <1>4, <1>5, <2>1, <2>2, <2>3, JobsSubmitted
<1>9. CallsInv'
  <2>1. CallOK(c)'
    BY <1>4 DEF CallOK
  <2>2. QED  BY <1>3, <1>4, <2>1, CallsOf
<1>10. ThreadsInv'
  <2>1. \A d \in Clients \ {c} : NoNewStatement(d)
    BY <1>2, <1>5, AppendedStatement
  <2>2. ASSUME NEW t \in Threads, thread[t].lease = c, thread'[t] = thread[t]
        PROVE  LeaseOK(t, c)'
    <3>1. LeaseOK(t, c)
      BY <1>3 DEF ThreadsInv
    <3>2. \A u \in Threads : thread'[u].lease = c => t = u
      BY <1>5, <2>2, <3>1, GrownLease DEF LeaseOK
    <3>3. call'[c].stage \in {"begin", "statement", "commit", "rollback", "gone"}
      BY <1>4
    <3>4. ~IsClosed(c)'
      BY <1>4 DEF IsClosed
    <3>5. CASE kind = "rollback"
      <4>1. ~IsOpen(c)'
        BY <1>4, <3>5 DEF IsOpen
      <4>2. NoNewStatement(c)
        BY <1>2, <1>5, <3>5, AppendedStatement
      <4>3. QED  BY <2>2, <3>1, <3>2, <3>3, <3>4, <4>1, <4>2 DEF LeaseOK, NoNewStatement
    <3>6. CASE kind # "rollback"
      <4>1. IsOpen(c)
        BY <3>6 DEF IsOpen
      <4>2. thread[t].at # "dead" =>
              thread[t].conn = "tx" /\ thread[t].pending = 1..(call[c].next - 1)
        BY <2>2, <3>1, <4>1 DEF LeaseOK
      <4>3. QED  BY <1>4, <2>2, <3>2, <3>3, <3>4, <4>2 DEF LeaseOK
    <3>7. QED  BY <3>5, <3>6
  <2>3. QED  BY <1>4, <1>5, <2>1, <2>2, LeasedCaller
<1>11. QED  BY <1>6, <1>8, <1>9, <1>10 DEF Kept, PoolInv

\* A caller without jobs leaves its place, and the queue and the threads stay.
LEMMA CallerMoves ==
    ASSUME ConstantsAssumption, TypeOK, PoolInv, NEW c \in Clients,
           NEW s \in CallStates, call' = [call EXCEPT ![c] = s],
           UNCHANGED <<queue, running, started, pool, thread, durable, bounds>>,
           outcome' \in [Clients -> {"idle", "returned", "raised", "undone"}],
           ~HasJob(c), CallOK(c)', \A t \in Threads : LeaseOK(t, c)'
    PROVE  Kept
<1>1. \A d \in Clients \ {c} : call'[d] = call[d] /\ durable'[d] = durable[d]
  BY CallType
<1>2. Grown /\ SameWork
  BY DEF Grown, SameWork, TypeOK, Works
<1>3. TypeOK'
  <2>1. call' \in [Clients -> CallStates]
    BY CallType
  <2>2. \A t \in Threads : ThreadType(thread'[t])
    BY <1>2, GrownType
  <2>3. QED  BY <2>1, <2>2, TypeParts DEF TypeOK, bounds
<1>4. JobsInv'
  BY <1>1, <1>2, JobsKept DEF PoolInv
<1>5. CallsInv'
  BY <1>1, CallsOf DEF PoolInv
<1>6. ThreadsInv'
  <2>1. \A d \in Clients : NoNewStatement(d)
    BY SameStatements
  <2>2. QED  BY <1>1, <1>2, <2>1, LeasedCaller
<1>7. QED  BY <1>3, <1>4, <1>5, <1>6 DEF Kept, PoolInv

LEMMA AcquireRefusedKeeps ==
    ASSUME ConstantsAssumption, TypeOK, PoolInv, NEW c \in Clients, AcquireRefused(c)
    PROVE  Kept
<1>1. /\ call[c].stage = "acquire" /\ call' = [call EXCEPT ![c] = NoCall]
      /\ UNCHANGED <<queue, running, started, pool, thread, durable, bounds>>
      /\ outcome' = [outcome EXCEPT ![c] = "raised"]
  BY DEF AcquireRefused
<1>2. call'[c] = NoCall /\ NoCall \in CallStates
  BY <1>1, CallType, NoCallType
<1>3. ~HasJob(c)
  BY <1>1, NoJobLeft DEF PoolInv, JobsInv
<1>4. CallOK(c)'
  <2>1. CallOK(c)
    BY DEF PoolInv, CallsInv
  <2>2. QED  BY <1>1, <1>2, <2>1 DEF CallOK, NoCall
<1>5. \A t \in Threads : LeaseOK(t, c)'
  BY <1>1, NotLeased DEF PoolInv, LeaseOK
<1>6. outcome' \in [Clients -> {"idle", "returned", "raised", "undone"}]
  BY <1>1 DEF TypeOK
<1>7. QED  BY <1>1, <1>2, <1>3, <1>4, <1>5, <1>6, CallerMoves

LEMMA PlainEndsKeeps ==
    ASSUME ConstantsAssumption, TypeOK, PoolInv, NEW c \in Clients, PlainEnds(c)
    PROVE  Kept
<1>1. /\ call[c].stage = "plain" /\ call[c].reply # "none"
      /\ call' = [call EXCEPT ![c] = NoCall]
      /\ UNCHANGED <<queue, running, started, pool, thread, durable, bounds>>
      /\ outcome' \in {[outcome EXCEPT ![c] = "returned"], [outcome EXCEPT ![c] = "raised"]}
  BY DEF PlainEnds, Finish
<1>2. call'[c] = NoCall /\ NoCall \in CallStates
  BY <1>1, CallType, NoCallType
<1>3. ~HasJob(c)
  BY <1>1, NoJobLeft DEF PoolInv, JobsInv
<1>4. CallOK(c)'
  <2>1. CallOK(c)
    BY DEF PoolInv, CallsInv
  <2>2. QED  BY <1>1, <1>2, <2>1 DEF CallOK, NoCall
<1>5. \A t \in Threads : LeaseOK(t, c)'
  BY <1>1, NotLeased DEF PoolInv, LeaseOK
<1>6. outcome' \in [Clients -> {"idle", "returned", "raised", "undone"}]
  BY <1>1 DEF TypeOK
<1>7. QED  BY <1>1, <1>2, <1>3, <1>4, <1>5, <1>6, CallerMoves

LEMMA BeganKeeps ==
    ASSUME ConstantsAssumption, TypeOK, PoolInv, NEW c \in Clients, Began(c)
    PROVE  Kept
<1>1. call[c].stage = "begin" /\ call[c].reply = "ok"
  BY DEF Began
<1>2. CASE call[c].cancelled
  <2> DEFINE s == [NoCall EXCEPT !.stage = "gone"]
  <2>1. /\ call' = [call EXCEPT ![c] = s] /\ s \in CallStates
        /\ UNCHANGED <<queue, running, started, pool, thread, durable, outcome, bounds>>
    BY <1>2, NoCallType DEF Began
  <2>2. call'[c] = s /\ s.stage = "gone" /\ s.reply = "none" /\ s.next = 1
    BY <2>1, CallType DEF NoCall
  <2> HIDE DEF s
  <2>3. ~HasJob(c)
    BY <1>1, NoJobLeft DEF PoolInv, JobsInv
  <2>4. CallOK(c)'
    <3>1. CallOK(c)
      BY DEF PoolInv, CallsInv
    <3>2. QED  BY <1>1, <2>1, <2>2, <3>1 DEF CallOK
  <2>5. Waiting(c)' = {}
    <3>1. Waiting(c) = {}
      BY <2>3, JobTypes DEF Waiting, HasJob, Owned
    <3>2. QED  BY <2>1, <3>1 DEF Waiting
  <2>6. ASSUME NEW t \in Threads PROVE LeaseOK(t, c)'
    <3>1. LeaseOK(t, c)
      BY DEF PoolInv, ThreadsInv
    <3>2. ~IsOpen(c)' /\ ~IsClosed(c)'
      BY <2>2 DEF IsOpen, IsClosed
    <3>3. QED  BY <2>1, <2>2, <2>5, <3>1, <3>2 DEF LeaseOK
  <2>7. outcome' \in [Clients -> {"idle", "returned", "raised", "undone"}]
    BY <2>1 DEF TypeOK
  <2>8. QED  BY <2>1, <2>3, <2>4, <2>6, <2>7, CallerMoves
<1>3. CASE ~call[c].cancelled
  <2>1. Continue(c, "statement")
    BY <1>3 DEF Began
  <2>2. call[c].next <= NumStatements
    BY <1>1 DEF PoolInv, CallsInv, CallOK, ConstantsAssumption
  <2>3. faults' \in 0..MaxFaults
    BY <2>1 DEF Continue, bounds, TypeOK
  <2>4. QED  BY <1>1, <2>1, <2>2, <2>3, NextJob DEF Continue, bounds
<1>4. QED  BY <1>2, <1>3

LEMMA StatementKeeps ==
    ASSUME ConstantsAssumption, TypeOK, PoolInv, NEW c \in Clients, Statement(c)
    PROVE  Kept
<1>1. call[c].stage = "statement" /\ call[c].reply = "ok"
  BY DEF Statement
<1>2. call[c].next \in 1..(NumStatements + 1) /\ NumStatements \in Nat
  BY CallType DEF ConstantsAssumption
<1>3. \/ call[c].next = NumStatements + 1 /\ Continue(c, "commit")
      \/ call[c].next <= NumStatements /\ Continue(c, "statement")
  BY <1>2 DEF Statement
<1>4. faults' \in 0..MaxFaults
  BY <1>3 DEF Continue, bounds, TypeOK
<1>5. CASE call[c].next = NumStatements + 1 /\ Continue(c, "commit")
  BY <1>1, <1>4, <1>5, NextJob DEF Continue, bounds
<1>6. CASE call[c].next <= NumStatements /\ Continue(c, "statement")
  BY <1>1, <1>4, <1>6, NextJob DEF Continue, bounds
<1>7. QED  BY <1>3, <1>5, <1>6

LEMMA AbortKeeps ==
    ASSUME ConstantsAssumption, TypeOK, PoolInv, NEW c \in Clients, Abort(c)
    PROVE  Kept
<1>1. call[c].stage = "statement" /\ Continue(c, "rollback")
  BY DEF Abort
<1>2. faults' \in 0..MaxFaults
  BY <1>1 DEF Continue, bounds, TypeOK
<1>3. QED  BY <1>1, <1>2, NextJob DEF Continue, bounds

LEMMA CancelKeeps ==
    ASSUME ConstantsAssumption, TypeOK, PoolInv, NEW c \in Clients, Cancel(c)
    PROVE  Kept
<1>1. faults' \in 0..MaxFaults /\ UNCHANGED <<durable, outcome, calls>>
  BY DEF Cancel, Fault, TypeOK, ConstantsAssumption
<1>2. CASE /\ call' = [call EXCEPT ![c].cancelled = TRUE]
           /\ UNCHANGED <<queue, running, started, pool, thread>>
  <2>1. \A d \in Clients : /\ call'[d].stage = call[d].stage
                           /\ call'[d].reply = call[d].reply
                           /\ call'[d].next = call[d].next
    BY <1>2, CallType DEF CallStates
  <2>2. Grown /\ SameWork
    BY <1>2 DEF Grown, SameWork, TypeOK, Works
  <2>3. TypeOK'
    <3>1. call' \in [Clients -> CallStates]
      BY <1>2, CallType DEF CallStates
    <3>2. \A t \in Threads : ThreadType(thread'[t])
      BY <2>2, GrownType
    <3>3. QED  BY <1>1, <1>2, <3>1, <3>2, TypeParts DEF TypeOK
  <2>4. JobsInv'
    BY <1>2, <2>1, <2>2, JobsKept DEF PoolInv
  <2>5. CallsInv'
    BY <1>1, <2>1 DEF PoolInv, CallsInv, CallOK
  <2>6. ThreadsInv'
    <3>1. \A t \in Threads : ThreadOK(t)'
      BY <2>2, GrownThreads DEF PoolInv
    <3>2. \A d \in Clients : NoNewStatement(d)
      BY <1>2, SameStatements
    <3>3. \A d \in Clients : \A t \in Threads : LeaseOK(t, d)'
      BY <1>2, <2>1, <3>2, LeaseKept DEF PoolInv
    <3>4. QED  BY <3>1, <3>3 DEF ThreadsInv
  <2>7. QED  BY <2>3, <2>4, <2>5, <2>6 DEF Kept, PoolInv
<1>3. CASE /\ call[c].stage = "statement"
           /\ Submit(Job(c, "rollback"), thread)
           /\ call' = [call EXCEPT ![c].stage = "rollback", ![c].reply = "none"]
  BY <1>1, <1>3, NextJob
<1>4. QED  BY <1>2, <1>3 DEF Cancel

LEMMA AcquireKeeps ==
    ASSUME ConstantsAssumption, TypeOK, PoolInv, NEW c \in Clients, Acquire(c)
    PROVE  Kept
<1> DEFINE free == Free(pool, thread)
           new == IF free = {} /\ Cardinality(pool) < MaxConn
                  THEN Spawned(1, thread) ELSE {}
<1>1. PICK t \in free \cup new :
        /\ pool' = pool \cup new
        /\ thread' = [(IF t \in new THEN Started(1, thread) ELSE thread) EXCEPT ![t].lease = c]
  BY DEF Acquire
<1> DEFINE base == IF t \in new THEN Started(1, thread) ELSE thread
           j == Job(c, "begin")
<1>2. /\ call[c].stage = "acquire" /\ call' = [call EXCEPT ![c].stage = "begin"]
      /\ queue' = Append(queue, j)
      /\ UNCHANGED <<running, started, durable, outcome, bounds>>
  BY DEF Acquire
<1>3. /\ thread \in [Threads -> ThreadStates] /\ pool \in SUBSET Threads /\ queue \in Seq(Jobs)
  BY DEF TypeOK
<1>4. /\ base \in [Threads -> ThreadStates] /\ new \subseteq Threads /\ t \in Threads
      /\ \A u \in Threads : \/ base[u] = thread[u]
                            \/ thread[u].at = "dead" /\ base[u] = NewThread
  <2>1. new \subseteq Threads /\ free \subseteq Threads
    BY <1>3, StartedGrows DEF Free
  <2>2. QED  BY <1>3, <2>1, StartedGrows
<1>5. base[t].lease = NoClient
  <2>1. CASE t \in new
    <3>1. base[t] = NewThread
      BY <1>4, <2>1 DEF Started
    <3>2. QED  BY <3>1, ThreadStatesType
  <2>2. CASE t \notin new
    BY <1>1, <2>2 DEF Free
  <2>3. QED  BY <2>1, <2>2
<1>6. thread' = [base EXCEPT ![t].lease = c]
  BY <1>1
<1> HIDE DEF free, new, base
<1>7. /\ thread' \in [Threads -> ThreadStates]
      /\ \A u \in Threads \ {t} : thread'[u] = base[u]
      /\ thread'[t].lease = c /\ thread'[t].at = base[t].at /\ thread'[t].job = base[t].job
      /\ thread'[t].conn = base[t].conn /\ thread'[t].pending = base[t].pending
  BY <1>4, <1>6 DEF ThreadStates
<1>8. ASSUME NEW u \in Threads PROVE ThreadType(base[u]) /\ ThreadType(thread'[u])
  <2>1. ThreadType(base[u])
    BY <1>3, <1>4, ThreadStatesType DEF TypeOK, ThreadType
  <2>2. QED  BY <1>7, <2>1 DEF ThreadType
<1>9. CallOK(c) /\ CallsInv /\ JobsInv /\ ThreadsInv
  BY DEF PoolInv, CallsInv
<1>10. /\ call[c].reply = "none" /\ call[c].next = 1
       /\ call'[c].stage = "begin" /\ call'[c].reply = "none" /\ call'[c].next = 1
       /\ \A d \in Clients \ {c} : call'[d] = call[d] /\ durable'[d] = durable[d]
       /\ durable'[c] = durable[c]
  BY <1>2, <1>9, CallType DEF CallOK, CallStates
<1>11. j \in Jobs /\ j.client = c /\ j.kind = "begin"
  BY NoCallType DEF Kinds
<1> HIDE DEF j
<1>12. TypeOK'
  <2>1. call' \in [Clients -> CallStates]
    BY <1>2, CallType DEF CallStates, Stages, Kinds
  <2>2. queue' \in Seq(Jobs) /\ pool' \in SUBSET Threads
    BY <1>1, <1>2, <1>3, <1>4, <1>11
  <2>3. QED  BY <1>2, <1>7, <1>8, <2>1, <2>2, TypeParts DEF TypeOK, bounds
<1>13. ~HasJob(c)
  BY <1>2, <1>9, NoJobLeft DEF JobsInv
<1>14. SameWork
  <2>1. \A u \in Threads : base[u].at = thread[u].at \/ (thread[u].at = "dead" /\ base[u].at = "take")
    BY <1>4, ThreadStatesType
  <2>2. \A u \in Threads : thread'[u].at = base[u].at /\ thread'[u].job = base[u].job
    BY <1>7
  <2>3. QED  BY <1>4, <2>1, <2>2 DEF SameWork, Works
<1>15. JobsInv'
  <2>1. IsAwaited(j)'
    BY <1>10, <1>11 DEF IsAwaited
  <2>2. \A k \in Jobs : ~Owned(k, c)
    BY <1>13 DEF HasJob
  <2>3. QED  BY <1>2, <1>9, <1>10, <1>11, <1>14, <2>1, <2>2, JobsSubmitted
<1>16. CallsInv'
  <2>1. CallOK(c)'
    BY <1>2, <1>9, <1>10 DEF CallOK
  <2>2. QED  BY <1>9, <1>10, <2>1, CallsOf
<1>17. ASSUME NEW u \in Threads PROVE ThreadOK(u)'
  <2>1. ThreadOK(u)
    BY <1>9 DEF ThreadsInv
  <2>2. CASE base[u] = thread[u]
    <3>1. CASE u # t
      BY <1>7, <2>1, <2>2, <3>1 DEF ThreadOK, Works
    <3>2. CASE u = t
      <4>1. thread[t].lease = NoClient /\ thread[t].conn # "tx"
        BY <1>5, <2>1, <2>2, <3>2 DEF ThreadOK
      <4>2. Works(t) => ~Leased(thread[t].job)
        <5>1. Works(t) => thread[t].job.client \in Clients
          BY <1>4, JobTypes
        <5>2. Works(t) /\ Leased(thread[t].job) => thread[t].lease = thread[t].job.client
          BY <2>1, <3>2 DEF ThreadOK
        <5>3. QED  BY <4>1, <5>1, <5>2 DEF ConstantsAssumption
      <4>3. /\ thread'[t].at = thread[t].at /\ thread'[t].job = thread[t].job
            /\ thread'[t].conn = thread[t].conn
        BY <1>7, <2>2, <3>2
      <4>4. QED  BY <2>1, <3>2, <4>1, <4>2, <4>3 DEF ThreadOK, Works, Leased
    <3>3. QED  BY <3>1, <3>2
  <2>3. CASE base[u] = NewThread
    <3>1. thread'[u].at = "take" /\ thread'[u].conn = "none"
      BY <1>7, <2>3, ThreadStatesType
    <3>2. QED  BY <3>1 DEF ThreadOK, Works
  <2>4. QED  BY <1>4, <2>2, <2>3
<1>18. \A u \in Threads : thread[u].lease # c
  BY <1>2, <1>9, NotLeased
<1>19. \A u \in Threads : \A d \in Clients : base[u].lease = d => base[u] = thread[u]
  BY <1>4, ThreadStatesType DEF ConstantsAssumption
<1>20. ASSUME NEW d \in Clients PROVE \A u \in Threads : LeaseOK(u, d)'
  <2>1. NoNewStatement(d)
    BY <1>2, <1>11, AppendedStatement
  <2>2. CASE d = c
    <3>1. Waiting(c) = {}
      BY <1>13, JobTypes DEF Waiting, HasJob, Owned
    <3>2. Waiting(c)' = {}
      BY <2>1, <2>2, <3>1 DEF NoNewStatement
    <3>3. \A u \in Threads : thread'[u].lease = c => u = t
      BY <1>7, <1>18, <1>19
    <3>4. thread'[t].conn # "tx"
      <4>1. ThreadOK(t)'
        BY <1>4, <1>17
      <4>2. base[t].conn # "tx"
        <5>1. CASE base[t] = thread[t]
          BY <1>4, <1>5, <1>9, <5>1 DEF ThreadsInv, ThreadOK
        <5>2. CASE base[t] = NewThread
          BY <5>2, ThreadStatesType
        <5>3. QED  BY <1>4, <5>1, <5>2
      <4>3. QED  BY <1>7, <4>2
    <3>5. ~IsOpen(c)'
      BY <1>10 DEF IsOpen
    <3>6. QED  BY <1>10, <2>2, <3>2, <3>3, <3>4, <3>5 DEF LeaseOK
  <2>3. CASE d # c
    <3>1. \A u \in Threads : thread'[u].lease = d => thread'[u] = thread[u]
      BY <1>7, <1>19, <2>3
    <3>2. QED  BY <1>9, <1>10, <2>1, <2>3, <3>1, LeaseKept
  <2>4. QED  BY <2>2, <2>3
<1>21. ThreadsInv'
  BY <1>17, <1>20 DEF ThreadsInv
<1>22. QED  BY <1>12, <1>15, <1>16, <1>21 DEF Kept, PoolInv

LEMMA TransactionEndsKeeps ==
    ASSUME ConstantsAssumption, TypeOK, PoolInv, NEW c \in Clients, TransactionEnds(c)
    PROVE  Kept
<1>1. /\ call[c].reply # "none" /\ IsClosed(c) /\ call' = [call EXCEPT ![c] = NoCall]
      /\ UNCHANGED <<queue, running, started, pool, durable, bounds>>
      /\ outcome' \in {[outcome EXCEPT ![c] = "returned"], [outcome EXCEPT ![c] = "raised"],
                       [outcome EXCEPT ![c] = "undone"]}
      /\ thread' = Unleased(c)
  BY DEF TransactionEnds, Finish, IsClosed
<1>2. /\ call'[c] = NoCall /\ NoCall \in CallStates
      /\ \A d \in Clients \ {c} : call'[d] = call[d] /\ durable'[d] = durable[d]
      /\ thread \in [Threads -> ThreadStates]
  BY <1>1, CallType, NoCallType DEF TypeOK
<1>3. ~HasJob(c)
  BY <1>1, NoJobLeft DEF PoolInv, JobsInv
<1>4. \A t \in Threads :
        /\ thread'[t].at = thread[t].at /\ thread'[t].job = thread[t].job
        /\ thread'[t].conn = thread[t].conn /\ thread'[t].pending = thread[t].pending
        /\ thread'[t].lease = IF thread[t].lease = c THEN NoClient ELSE thread[t].lease
        /\ thread'[t] \in ThreadStates
  BY <1>1, <1>2 DEF Unleased, ThreadStates
<1>5. TypeOK'
  <2>1. call' \in [Clients -> CallStates]
    BY <1>1, <1>2, CallType
  <2>2. thread' \in [Threads -> ThreadStates]
    BY <1>1, <1>4 DEF Unleased
  <2>3. \A t \in Threads : ThreadType(thread'[t])
    BY <1>4 DEF TypeOK, ThreadType
  <2>4. outcome' \in [Clients -> {"idle", "returned", "raised", "undone"}]
    BY <1>1 DEF TypeOK
  <2>5. QED  BY <1>1, <2>1, <2>2, <2>3, <2>4, TypeParts DEF TypeOK, bounds
<1>6. JobsInv'
  <2>1. SameWork
    BY <1>4 DEF SameWork, Works
  <2>2. QED  BY <1>1, <1>2, <1>3, <2>1, JobsKept DEF PoolInv
<1>7. CallsInv'
  <2>1. CallOK(c)
    BY DEF PoolInv, CallsInv
  <2>2. CallOK(c)'
    BY <1>1, <1>2, <2>1 DEF CallOK, NoCall
  <2>3. QED  BY <1>2, <2>2, CallsOf DEF PoolInv
<1>8. ASSUME NEW t \in Threads PROVE ThreadOK(t)'
  <2>1. ThreadOK(t) /\ LeaseOK(t, c)
    BY DEF PoolInv, ThreadsInv
  <2>2. CASE thread[t].lease = c
    <3>1. thread[t].conn # "tx"
      BY <1>1, <2>1, <2>2 DEF LeaseOK
    <3>2. ASSUME Works(t), Leased(thread[t].job) PROVE FALSE
      <4>1. thread[t].job.client = c
        BY <2>1, <2>2, <3>2 DEF ThreadOK
      <4>2. QED  BY <1>3, <3>2, <4>1, JobTypes DEF HasJob, Owned
    <3>3. QED  BY <1>4, <2>1, <3>1, <3>2 DEF ThreadOK, Works, Leased
  <2>3. CASE thread[t].lease # c
    BY <1>4, <2>1, <2>3 DEF ThreadOK, Works
  <2>4. QED  BY <2>2, <2>3
<1>9. ASSUME NEW d \in Clients PROVE \A t \in Threads : LeaseOK(t, d)'
  <2>1. CASE d = c
    BY <1>4, <2>1 DEF LeaseOK, ConstantsAssumption
  <2>2. CASE d # c
    <3>1. NoNewStatement(d)
      BY <1>1, SameStatements
    <3>2. \A t \in Threads : thread'[t].lease = d => thread[t].lease = d
      BY <1>4 DEF ConstantsAssumption
    <3>3. QED  BY <1>2, <1>4, <2>2, <3>1, <3>2, LeaseKept DEF PoolInv
  <2>3. QED  BY <2>1, <2>2
<1>10. ThreadsInv'
  BY <1>8, <1>9 DEF ThreadsInv
<1>11. QED  BY <1>5, <1>6, <1>7, <1>10 DEF Kept, PoolInv

-----------------------------------------------------------------------------
\* The actions of threads.

\* What is known of the job of a thread at work, and of its caller.
LEMMA JobAtWork ==
    ASSUME ConstantsAssumption, TypeOK, PoolInv, NEW t \in Threads, Works(t),
           NEW j, j = thread[t].job, NEW c, c = j.client
    PROVE  /\ j \in Jobs /\ c \in Clients /\ j.kind \in Kinds /\ IsAwaited(j)
           /\ CallOK(c) /\ LeaseOK(t, c) /\ ThreadOK(t)
           /\ thread[t] \in ThreadStates /\ thread[t].at # "dead"
           /\ (thread[t].pending # {} => thread[t].conn = "tx")
BY JobTypes DEF PoolInv, JobsInv, AllAwaited, CallsInv, ThreadsInv, TypeOK, Works

\* Another caller, and another thread, when thread t has ended its job.
LEMMA OthersAtEnd ==
    ASSUME ConstantsAssumption, TypeOK, PoolInv, NEW t \in Threads, Works(t),
           NEW cn \in {"none", "auto", "tx"}, NEW pd \in SUBSET Statements,
           thread' = [thread EXCEPT ![t] = Idle(t, cn, pd)],
           thread[t].job.kind = "plain" => cn # "tx",
           NEW d \in Clients, d # thread[t].job.client,
           call'[d] = call[d], NoNewStatement(d)
    PROVE  \A u \in Threads : LeaseOK(u, d)'
<1>1. /\ \A u \in Threads \ {t} : thread'[u] = thread[u]
      /\ thread'[t].lease = thread[t].lease /\ thread'[t].conn = cn
      /\ thread'[t].at = "take"
  BY DEF Idle, TypeOK, ThreadStates
<1>2. \A u \in Threads : LeaseOK(u, d)
  BY DEF PoolInv, ThreadsInv
<1>3. IsOpen(d)' = IsOpen(d) /\ IsClosed(d)' = IsClosed(d)
  BY DEF IsOpen, IsClosed
<1>4. CASE thread[t].lease # d
  BY <1>1, <1>4, LeaseKept DEF PoolInv
<1>5. CASE thread[t].lease = d
  <2>1. ThreadOK(t) /\ thread[t].at # "dead" /\ thread[t].job.kind = "plain"
    <3>1. ThreadOK(t) /\ thread[t].at # "dead"
      BY DEF PoolInv, ThreadsInv, Works
    <3>2. QED  BY <1>5, <3>1 DEF ThreadOK, Leased
  <2>2. thread[t].conn # "tx" /\ cn # "tx"
    BY <2>1 DEF ThreadOK
  <2>3. ~IsOpen(d) /\ Waiting(d) = {}
    BY <1>2, <1>5, <2>1, <2>2 DEF LeaseOK
  <2>4. Waiting(d)' = {}
    BY <2>3 DEF NoNewStatement
  <2>5. ASSUME NEW u \in Threads PROVE LeaseOK(u, d)'
    <3>1. CASE u = t
      BY <1>1, <1>2, <1>3, <1>5, <2>2, <2>3, <2>4, <3>1 DEF LeaseOK
    <3>2. CASE u # t
      BY <1>1, <1>2, <1>5, <3>2 DEF LeaseOK
    <3>3. QED  BY <3>1, <3>2
  <2>6. QED  BY <2>5
<1>6. QED  BY <1>4, <1>5

\* A thread has ended the job of c: its own conditions are left to show.
LEMMA JobEnds ==
    ASSUME ConstantsAssumption, TypeOK, PoolInv, NEW t \in Threads, Works(t),
           NEW cn \in {"none", "auto", "tx"}, NEW pd \in SUBSET Statements,
           pd # {} => cn = "tx",
           thread' = [thread EXCEPT ![t] = Idle(t, cn, pd)],
           cn = "tx" => thread[t].job.kind # "plain",
           queue' \in Seq(Jobs), call' \in [Clients -> CallStates],
           durable' \in [Clients -> SUBSET Statements],
           UNCHANGED <<running, started, pool, outcome, calls>>, faults' \in 0..MaxFaults,
           NEW c \in Clients, c = thread[t].job.client,
           \A d \in Clients \ {c} : /\ call'[d] = call[d] /\ durable'[d] = durable[d]
                                    /\ NoNewStatement(d),
           JobsInv', CallOK(c)', thread[t].lease = c => LeaseOK(t, c)'
    PROVE  Kept
<1>1. /\ \A u \in Threads \ {t} : thread'[u] = thread[u]
      /\ thread'[t].lease = thread[t].lease /\ thread'[t].conn = cn
      /\ thread'[t].at = "take" /\ thread'[t].pending = pd /\ thread'[t].job = NoJob
      /\ thread' \in [Threads -> ThreadStates]
  <2>1. thread \in [Threads -> ThreadStates] /\ thread[t] \in ThreadStates
    BY DEF TypeOK
  <2>2. /\ Idle(t, cn, pd) \in ThreadStates /\ Idle(t, cn, pd).lease = thread[t].lease
        /\ Idle(t, cn, pd).conn = cn /\ Idle(t, cn, pd).at = "take"
        /\ Idle(t, cn, pd).pending = pd /\ Idle(t, cn, pd).job = NoJob
    BY <2>1 DEF Idle, ThreadStates
  <2>3. QED  BY <2>1, <2>2
<1>2. ThreadOK(t) /\ LeaseOK(t, c) /\ thread[t].job \in Jobs
  BY JobAtWork
<1>3. TypeOK'
  <2>1. \A u \in Threads : ThreadType(thread'[u])
    BY <1>1 DEF TypeOK, ThreadType
  <2>2. QED  BY <1>1, <2>1, TypeParts DEF TypeOK
<1>4. CallsInv'
  BY CallsOf DEF PoolInv
<1>5. ASSUME NEW u \in Threads PROVE ThreadOK(u)'
  <2>1. ThreadOK(u)
    BY DEF PoolInv, ThreadsInv
  <2>2. CASE u = t
    <3>1. cn = "tx" => thread[t].lease # NoClient
      BY <1>2 DEF ThreadOK, Leased, ConstantsAssumption
    <3>2. QED  BY <1>1, <2>2, <3>1 DEF ThreadOK, Works
  <2>3. CASE u # t
    BY <1>1, <2>1, <2>3 DEF ThreadOK, Works
  <2>4. QED  BY <2>2, <2>3
<1>6. ASSUME NEW d \in Clients PROVE \A u \in Threads : LeaseOK(u, d)'
  <2>1. CASE d # c
    BY <2>1, OthersAtEnd
  <2>2. CASE d = c
    <3>1. CASE thread[t].lease = c
      <4>1. \A u \in Threads : thread'[u].lease = c => u = t
        BY <1>1, <1>2, <3>1 DEF LeaseOK
      <4>2. QED  BY <2>2, <3>1, <4>1 DEF LeaseOK
    <3>2. CASE thread[t].lease # c
      <4>1. call[c].stage = "plain"
        BY <1>2, <3>2, JobAtWork DEF ThreadOK, Leased, IsAwaited
      <4>2. \A u \in Threads : thread[u].lease # c
        BY <4>1, NotLeased DEF PoolInv
      <4>3. QED  BY <1>1, <2>2, <4>2 DEF LeaseOK
    <3>3. QED  BY <3>1, <3>2
  <2>3. QED  BY <2>1, <2>2
<1>7. ThreadsInv'
  BY <1>5, <1>6 DEF ThreadsInv
<1>8. QED  BY <1>3, <1>4, <1>7 DEF Kept, PoolInv

LEMMA ReplyType ==
    ASSUME ConstantsAssumption, TypeOK, PoolInv, NEW t \in Threads, Works(t),
           NEW how \in {"ok", "error"}, NEW j, j = thread[t].job, Reply(j, how),
           NEW c \in Clients, c = j.client
    PROVE  /\ call' \in [Clients -> CallStates]
           /\ \A d \in Clients \ {c} : call'[d] = call[d]
           /\ call'[c].stage = call[c].stage
           /\ call'[c].reply = IF call[c].stage = j.kind THEN how ELSE call[c].reply
           /\ call'[c].next = IF j.kind = "statement" /\ how = "ok"
                              THEN call[c].next + 1 ELSE call[c].next
<1> DEFINE r == IF call[c].stage = j.kind THEN how ELSE call[c].reply
           n == IF j.kind = "statement" /\ how = "ok" THEN call[c].next + 1 ELSE call[c].next
<1>1. call \in [Clients -> CallStates] /\ call[c] \in CallStates
  BY CallType
<1>2. j.kind = "statement" => call[c].next <= NumStatements
  BY JobAtWork DEF IsAwaited
<1>3. n \in 1..(NumStatements + 1) /\ r \in {"none", "ok", "error"}
  BY <1>1, <1>2 DEF CallStates, ConstantsAssumption
<1>4. call' = [call EXCEPT ![c] = [call[c] EXCEPT !.reply = r, !.next = n]]
  BY <1>1 DEF Reply, CallStates
<1> HIDE DEF r, n
<1>5. /\ [call[c] EXCEPT !.reply = r, !.next = n] \in CallStates
      /\ [call[c] EXCEPT !.reply = r, !.next = n].stage = call[c].stage
      /\ [call[c] EXCEPT !.reply = r, !.next = n].reply = r
      /\ [call[c] EXCEPT !.reply = r, !.next = n].next = n
  BY <1>1, <1>3 DEF CallStates
<1>6. QED  BY <1>1, <1>4, <1>5 DEF r, n

\* A thread has ended a job and says so.
LEMMA EndsWithReply ==
    ASSUME ConstantsAssumption, TypeOK, PoolInv, NEW t \in Threads, Works(t),
           NEW cn \in {"none", "auto", "tx"}, NEW pd \in SUBSET Statements,
           pd # {} => cn = "tx",
           thread' = [thread EXCEPT ![t] = Idle(t, cn, pd)],
           cn = "tx" => thread[t].job.kind # "plain",
           NEW how \in {"ok", "error"}, Reply(thread[t].job, how),
           UNCHANGED <<queue, running, started, pool, outcome, calls>>, faults' \in 0..MaxFaults,
           NEW c \in Clients, c = thread[t].job.client,
           durable' \in [Clients -> SUBSET Statements],
           \A d \in Clients \ {c} : durable'[d] = durable[d],
           CallOK(c)', IsClosed(c)' => cn # "tx",
           IsOpen(c)' /\ thread[t].lease = c => cn = "tx" /\ pd = 1..(call'[c].next - 1)
    PROVE  Kept
<1>1. /\ call' \in [Clients -> CallStates]
      /\ \A d \in Clients \ {c} : call'[d] = call[d]
      /\ call'[c].stage = call[c].stage
  BY ReplyType
<1>2. /\ \A u \in Threads \ {t} : thread'[u] = thread[u]
      /\ thread'[t].lease = thread[t].lease /\ thread'[t].conn = cn
      /\ thread'[t].at = "take" /\ thread'[t].pending = pd
  BY DEF Idle, TypeOK, ThreadStates
<1>3. JobsInv'
  <2>1. OtherWork(t) /\ ~Works(t)'
    BY <1>2 DEF OtherWork, Works
  <2>2. QED  BY <2>1, JobsReplied DEF PoolInv
<1>4. Waiting(c)' = {}
  <2>1. \A i \in DOMAIN queue : queue[i].client = c => queue[i].kind # "statement"
    BY OnlyRollback DEF PoolInv, Precedes
  <2>2. QED  BY <2>1 DEF Waiting
<1>5. thread[t].lease = c => LeaseOK(t, c)'
  <2>1. LeaseOK(t, c)
    BY DEF PoolInv, ThreadsInv
  <2>2. QED  BY <1>1, <1>2, <1>4, <2>1 DEF LeaseOK
<1>6. \A d \in Clients : NoNewStatement(d)
  BY SameStatements
<1>7. queue' \in Seq(Jobs)
  BY DEF TypeOK
<1>8. QED  BY <1>1, <1>3, <1>5, <1>6, <1>7, JobEnds

LEMMA KeepType ==
    ASSUME ConstantsAssumption, TypeOK, PoolInv, NEW t \in Threads, Works(t),
           NEW j, j = thread[t].job, NEW c \in Clients, c = j.client, Keep(t, j)
    PROVE  /\ durable' \in [Clients -> SUBSET Statements]
           /\ \A d \in Clients \ {c} : durable'[d] = durable[d]
           /\ durable'[c] = durable[c] \cup KeptBy(t, j)
           /\ KeptBy(t, j) \in SUBSET Statements
<1>1. thread[t].pending \in SUBSET Statements
  BY JobAtWork DEF ThreadStates
<1>2. j.kind = "statement" => call[c].next \in Statements
  BY CallType, JobAtWork DEF IsAwaited, Statements, ConstantsAssumption
<1>3. KeptBy(t, j) \in SUBSET Statements
  BY <1>1, <1>2 DEF KeptBy
<1>4. durable \in [Clients -> SUBSET Statements]
  BY CallType
<1>5. QED  BY <1>3, <1>4 DEF Keep

\* What a job leaves, by its kind.
JobLeaves(t, j, c) ==
    /\ j.kind = "plain" => call[c].stage = "plain" /\ KeptBy(t, j) = Statements
    /\ j.kind = "commit" => call[c].stage = "commit" /\ KeptBy(t, j) = Statements
    /\ j.kind \in {"begin", "statement", "rollback"} => KeptBy(t, j) = {} /\ durable[c] = {}
    /\ j.kind \in {"begin", "rollback"} => call[c].stage = j.kind
    /\ j.kind = "statement" => call[c].stage \in {"statement", "rollback"} /\ thread[t].conn = "tx"
    /\ j.kind = "commit" => thread[t].conn = "tx"
    /\ j.kind = "begin" => thread[t].conn # "tx"
    /\ call[c].stage = "statement" => thread[t].pending = 1..(call[c].next - 1)
    /\ call[c].reply = "none"

LEMMA KeptByKind ==
    ASSUME ConstantsAssumption, TypeOK, PoolInv, NEW t \in Threads, Works(t),
           NEW j, j = thread[t].job, NEW c \in Clients, c = j.client
    PROVE  JobLeaves(t, j, c)
<1>1. /\ IsAwaited(j) /\ CallOK(c) /\ LeaseOK(t, c) /\ ThreadOK(t) /\ j.kind \in Kinds
      /\ thread[t].at # "dead" /\ thread[t].conn \in {"none", "auto", "tx"}
  BY JobAtWork DEF ThreadStates
<1>2. j.kind # "plain" => thread[t].lease = c
  BY <1>1 DEF ThreadOK, Leased
<1>3. call[c].reply = "none" /\ (j.kind # "statement" => call[c].stage = j.kind)
  BY <1>1 DEF IsAwaited
<1>4. j.kind = "statement" => call[c].stage \in {"statement", "rollback"} /\ thread[t].conn = "tx"
  BY <1>1 DEF IsAwaited, ThreadOK
<1>5. j.kind = "plain" => KeptBy(t, j) = Statements
  BY <1>1 DEF ThreadOK, KeptBy, Connected
<1>6. ASSUME j.kind = "commit"
      PROVE  thread[t].conn = "tx" /\ KeptBy(t, j) = Statements
  <2>1. IsOpen(c)
    BY <1>3, <1>6 DEF IsOpen
  <2>2. thread[t].conn = "tx" /\ thread[t].pending = 1..(call[c].next - 1)
    BY <1>1, <1>2, <1>6, <2>1 DEF LeaseOK
  <2>3. call[c].next - 1 = NumStatements
    BY <1>1, <1>3, <1>6 DEF CallOK, ConstantsAssumption
  <2>4. thread[t].pending = Statements
    BY <2>2, <2>3 DEF Statements
  <2>5. QED  BY <1>6, <2>2, <2>4 DEF KeptBy
<1>7. j.kind \in {"begin", "statement", "rollback"} => KeptBy(t, j) = {} /\ durable[c] = {}
  BY <1>1, <1>3, <1>4 DEF KeptBy, Connected, CallOK
<1>8. ASSUME j.kind = "begin" PROVE thread[t].conn # "tx"
  <2>1. IsClosed(c)
    BY <1>3, <1>8 DEF IsClosed
  <2>2. QED  BY <1>1, <1>2, <1>8, <2>1 DEF LeaseOK
<1>9. ASSUME call[c].stage = "statement" PROVE thread[t].pending = 1..(call[c].next - 1)
  <2>1. IsOpen(c)
    BY <1>3, <1>9 DEF IsOpen
  <2>2. j.kind # "plain"
    BY <1>3, <1>9
  <2>3. QED  BY <1>1, <1>2, <2>1, <2>2 DEF LeaseOK
<1>10. QED  BY <1>3, <1>4, <1>5, <1>6, <1>7, <1>8, <1>9 DEF JobLeaves

LEMMA DoneKeeps ==
    ASSUME ConstantsAssumption, TypeOK, PoolInv, NEW t \in Threads, Done(t)
    PROVE  Kept
<1>0. PICK j \in Jobs, c \in Clients : j = thread[t].job /\ c = j.client
  BY JobTypes DEF Done, Works
<1> DEFINE cn == ModeAfter(t, j)
           pd == OpenAfter(t, j)
<1>1. /\ Works(t) /\ Keep(t, j) /\ Reply(j, "ok")
      /\ thread' = [thread EXCEPT ![t] = Idle(t, cn, pd)]
      /\ UNCHANGED <<queue, running, started, pool, outcome, bounds>>
  BY <1>0 DEF Done, Works
<1>2. /\ j.kind \in Kinds /\ CallOK(c) /\ ThreadOK(t)
      /\ thread[t] \in ThreadStates /\ (thread[t].pending # {} => thread[t].conn = "tx")
      /\ IsAwaited(j)
  BY <1>0, <1>1, JobAtWork
<1> HIDE DEF cn, pd
<1>3. /\ \A d \in Clients \ {c} : call'[d] = call[d]
      /\ call'[c].stage = call[c].stage
      /\ call'[c].reply = IF call[c].stage = j.kind THEN "ok" ELSE call[c].reply
      /\ call'[c].next = IF j.kind = "statement" THEN call[c].next + 1 ELSE call[c].next
  BY <1>0, <1>1, ReplyType
<1>4. /\ durable' \in [Clients -> SUBSET Statements]
      /\ \A d \in Clients \ {c} : durable'[d] = durable[d]
      /\ durable'[c] = durable[c] \cup KeptBy(t, j)
  BY <1>0, <1>1, KeepType
<1>5. JobLeaves(t, j, c)
  BY <1>0, <1>1, KeptByKind
<1>6. call[c].next \in 1..(NumStatements + 1) /\ durable[c] \in SUBSET Statements
      /\ NumStatements \in Nat
  BY <1>2, CallType DEF ConstantsAssumption
<1>7. j.kind = "statement" => call[c].next \in Statements
  BY <1>0, <1>2, <1>6 DEF IsAwaited, Statements
<1>8. /\ cn \in {"none", "auto", "tx"} /\ pd \in SUBSET Statements
      /\ (pd # {} => cn = "tx") /\ (cn = "tx" => j.kind # "plain")
  BY <1>0, <1>1, <1>2, <1>5, <1>7 DEF cn, pd, ModeAfter, OpenAfter, Connected, ThreadStates, ThreadOK, JobLeaves
<1>9. CallOK(c)'
  <2>1. durable'[c] \in {{}, Statements}
    BY <1>2, <1>4, <1>5 DEF Kinds, JobLeaves
  <2>2. call[c].stage \in {"begin", "statement", "rollback"} => durable'[c] = {}
    BY <1>2, <1>4, <1>5 DEF Kinds, JobLeaves
  <2>3. call[c].stage \in {"plain", "commit"} => durable'[c] = Statements
    BY <1>2, <1>4, <1>5, <1>6 DEF Kinds, JobLeaves
  <2>4. call[c].stage \in {"plain", "begin", "statement", "commit", "rollback"}
    BY <1>2, <1>5 DEF Kinds, JobLeaves
  <2>5. call'[c].next = call[c].next \/ call[c].stage \in {"statement", "rollback"}
    BY <1>3, <1>5 DEF JobLeaves
  <2>6. call[c].stage \in {"plain", "commit"} => call'[c].reply = "ok"
    BY <1>2, <1>3, <1>5 DEF Kinds, JobLeaves
  <2>7. QED  BY <1>2, <1>3, <2>1, <2>2, <2>3, <2>4, <2>5, <2>6 DEF CallOK
<1>10. IsClosed(c)' => cn # "tx"
  <2>1. ASSUME IsClosed(c)' PROVE j.kind \in {"commit", "rollback"}
    BY <1>2, <1>3, <1>5, <2>1 DEF IsClosed, Kinds, JobLeaves
  <2>2. QED  BY <2>1 DEF cn, ModeAfter
<1>11. IsOpen(c)' => cn = "tx" /\ pd = 1..(call'[c].next - 1)
  <2>1. ASSUME IsOpen(c)'
        PROVE  j.kind = "begin" \/ (j.kind = "statement" /\ call[c].stage = "statement")
    BY <1>2, <1>3, <1>5, <2>1 DEF IsOpen, Kinds, JobLeaves
  <2>2. CASE j.kind = "begin"
    <3>1. call'[c].next = 1
      BY <1>2, <1>3, <1>5, <2>2 DEF CallOK, JobLeaves
    <3>2. cn = "tx" /\ pd = {}
      BY <1>2, <1>5, <2>2 DEF cn, pd, ModeAfter, OpenAfter, JobLeaves
    <3>3. QED  BY <3>1, <3>2
  <2>3. CASE j.kind = "statement" /\ call[c].stage = "statement"
    <3>1. cn = "tx" /\ pd = thread[t].pending \cup {call[c].next}
      BY <1>0, <1>5, <2>3 DEF cn, pd, ModeAfter, OpenAfter, Connected, JobLeaves
    <3>2. thread[t].pending = 1..(call[c].next - 1) /\ call'[c].next = call[c].next + 1
      BY <1>3, <1>5, <2>3 DEF JobLeaves
    <3>3. 1..(call[c].next - 1) \cup {call[c].next} = 1..((call[c].next + 1) - 1)
      BY <1>6
    <3>4. QED  BY <3>1, <3>2, <3>3
  <2>4. QED  BY <2>1, <2>2, <2>3
<1>12. UNCHANGED calls /\ faults' \in 0..MaxFaults
  BY <1>1 DEF bounds, TypeOK
<1>13. QED
  BY <1>0, <1>1, <1>4, <1>8, <1>9, <1>10, <1>11, <1>12, EndsWithReply

\* A job that fails without effect, and the connection it leaves.
LEMMA FailedKeeps ==
    ASSUME ConstantsAssumption, TypeOK, PoolInv, NEW t \in Threads, Works(t),
           NEW j \in Jobs, j = thread[t].job, NEW c \in Clients, c = j.client,
           NEW cn \in {"none", "auto", "tx"}, NEW pd \in SUBSET Statements,
           pd # {} => cn = "tx",
           thread' = [thread EXCEPT ![t] = Idle(t, cn, pd)],
           Reply(j, "error"),
           UNCHANGED <<queue, running, started, pool, outcome, calls>>,
           faults' \in 0..MaxFaults, UNCHANGED durable \/ Keep(t, j),
           cn = "tx" => j.kind = "statement"
    PROVE  Kept
<1>1. /\ j.kind \in Kinds /\ CallOK(c)
  BY JobAtWork
<1>2. /\ \A d \in Clients \ {c} : call'[d] = call[d]
      /\ call'[c].stage = call[c].stage
      /\ call'[c].reply = IF call[c].stage = j.kind THEN "error" ELSE call[c].reply
      /\ call'[c].next = call[c].next
  BY ReplyType
<1>3. JobLeaves(t, j, c)
  BY KeptByKind
<1>4. durable \in [Clients -> SUBSET Statements]
  BY CallType
<1>5. /\ durable' \in [Clients -> SUBSET Statements]
      /\ \A d \in Clients \ {c} : durable'[d] = durable[d]
      /\ durable'[c] = durable[c] \/ durable'[c] = durable[c] \cup KeptBy(t, j)
  <2>1. CASE UNCHANGED durable
    BY <1>4, <2>1
  <2>2. CASE Keep(t, j)
    BY <2>2, KeepType
  <2>3. QED  BY <2>1, <2>2
<1>6. CallOK(c)'
  <2>1. durable'[c] \in {{}, Statements}
    BY <1>1, <1>3, <1>4, <1>5 DEF JobLeaves, Kinds, CallOK
  <2>2. call[c].stage \in {"begin", "statement", "rollback"} => durable'[c] = {}
    BY <1>1, <1>3, <1>5 DEF JobLeaves, Kinds, CallOK
  <2>3. call[c].stage \in {"plain", "begin", "statement", "commit", "rollback"}
    BY <1>1, <1>3 DEF JobLeaves, Kinds
  <2>4. call[c].stage \in {"plain", "commit"} => call'[c].reply = "error"
    BY <1>1, <1>2, <1>3 DEF JobLeaves, Kinds
  <2>5. QED  BY <1>1, <1>2, <2>1, <2>2, <2>3, <2>4 DEF CallOK
<1>7. IsClosed(c)' => cn # "tx"
  <2>1. ASSUME IsClosed(c)' PROVE j.kind \in {"begin", "commit", "rollback"}
    BY <1>1, <1>2, <1>3, <2>1 DEF JobLeaves, IsClosed, Kinds
  <2>2. QED  BY <2>1
<1>8. ~IsOpen(c)'
  BY <1>1, <1>2, <1>3 DEF JobLeaves, IsOpen, Kinds
<1>9. cn = "tx" => j.kind # "plain"
  OBVIOUS
<1>10. QED  BY <1>5, <1>6, <1>7, <1>8, <1>9, EndsWithReply

LEMMA RefusedKeeps ==
    ASSUME ConstantsAssumption, TypeOK, PoolInv, NEW t \in Threads, Refused(t)
    PROVE  Kept
<1>0. PICK j \in Jobs, c \in Clients : j = thread[t].job /\ c = j.client
  BY JobTypes DEF Refused, Works
<1>1. /\ Works(t) /\ Reply(j, "error") /\ j.kind \in {"plain", "statement"}
      /\ thread' = [thread EXCEPT ![t] = Idle(t, Connected(t), thread[t].pending)]
      /\ UNCHANGED <<queue, running, started, pool, durable, outcome, calls>>
      /\ faults' \in 0..MaxFaults
  BY <1>0 DEF Refused, Works, Fault, TypeOK, ConstantsAssumption
<1>2. ThreadOK(t) /\ thread[t] \in ThreadStates /\ (thread[t].pending # {} => thread[t].conn = "tx")
  BY <1>0, <1>1, JobAtWork
<1>3. /\ Connected(t) \in {"none", "auto", "tx"} /\ thread[t].pending \in SUBSET Statements
      /\ (thread[t].pending # {} => Connected(t) = "tx")
      /\ (Connected(t) = "tx" => j.kind = "statement")
  BY <1>0, <1>1, <1>2 DEF Connected, ThreadStates, ThreadOK
<1>4. QED  BY <1>0, <1>1, <1>3, FailedKeeps

LEMMA NotConnectedKeeps ==
    ASSUME ConstantsAssumption, TypeOK, PoolInv, NEW t \in Threads, NotConnected(t)
    PROVE  Kept
<1>0. PICK j \in Jobs, c \in Clients : j = thread[t].job /\ c = j.client
  BY JobTypes DEF NotConnected, Works
<1>1. /\ Works(t) /\ Reply(j, "error")
      /\ thread' = [thread EXCEPT ![t] = Idle(t, "none", {})]
      /\ UNCHANGED <<queue, running, started, pool, durable, outcome, calls>>
      /\ faults' \in 0..MaxFaults
  BY <1>0 DEF NotConnected, Works, Fault, TypeOK, ConstantsAssumption
<1>2. PICK cn \in {"none", "auto", "tx"}, pd \in SUBSET Statements : cn = "none" /\ pd = {}
  OBVIOUS
<1>3. thread' = [thread EXCEPT ![t] = Idle(t, cn, pd)]
  BY <1>1, <1>2
<1>4. QED  BY <1>0, <1>1, <1>2, <1>3, FailedKeeps

LEMMA LostKeeps ==
    ASSUME ConstantsAssumption, TypeOK, PoolInv, NEW t \in Threads, Lost(t)
    PROVE  Kept
<1>0. PICK j \in Jobs, c \in Clients : j = thread[t].job /\ c = j.client
  BY JobTypes DEF Lost, Works
<1>1. /\ Works(t) /\ j.kind # "begin" /\ (UNCHANGED durable \/ Keep(t, j))
      /\ thread' = [thread EXCEPT ![t] = Idle(t, "none", {})]
      /\ UNCHANGED <<running, started, pool, outcome, calls>>
      /\ faults' \in 0..MaxFaults
  BY <1>0 DEF Lost, Works, Fault, TypeOK, ConstantsAssumption
<1>a. PICK cn \in {"none", "auto", "tx"}, pd \in SUBSET Statements : cn = "none" /\ pd = {}
  OBVIOUS
<1>b. thread' = [thread EXCEPT ![t] = Idle(t, cn, pd)]
  BY <1>1, <1>a
<1>2. CASE ~Retriable(j)
  <2>1. Reply(j, "error") /\ UNCHANGED queue
    BY <1>0, <1>2 DEF Lost
  <2>2. QED  BY <1>0, <1>1, <1>a, <1>b, <2>1, FailedKeeps
<1>3. CASE Retriable(j)
  <2> DEFINE k == [j EXCEPT !.retries = @ + 1]
  <2>1. queue' = <<k>> \o queue /\ UNCHANGED call
    BY <1>0, <1>3 DEF Lost
  <2>2. k \in Jobs /\ k.client = c /\ k.kind = j.kind /\ j.kind = "plain"
    BY <1>0, <1>3 DEF Retriable, Leased, Jobs, ConstantsAssumption
  <2> HIDE DEF k
  <2>3. queue \in Seq(Jobs) /\ call \in [Clients -> CallStates]
        /\ durable \in [Clients -> SUBSET Statements]
    BY DEF TypeOK
  <2>4. queue' \in Seq(Jobs)
    BY <2>1, <2>2, <2>3
  <2>5. /\ \A u \in Threads \ {t} : thread'[u] = thread[u]
        /\ thread'[t].at = "take"
    BY <1>1 DEF Idle, TypeOK, ThreadStates
  <2>6. JobsInv'
    <3>1. OtherWork(t) /\ ~Works(t)'
      BY <2>5 DEF OtherWork, Works
    <3>2. QED
      BY <1>0, <1>1, <2>1, <2>2, <3>1, JobsRetried DEF PoolInv, Leased
  <2>7. \A d \in Clients : NoNewStatement(d)
    BY <2>1, <2>2, RetriedStatement
  <2>8. JobLeaves(t, j, c) /\ CallOK(c) /\ ThreadOK(t)
    BY <1>0, <1>1, KeptByKind, JobAtWork
  <2>9. /\ durable' \in [Clients -> SUBSET Statements]
        /\ \A d \in Clients \ {c} : durable'[d] = durable[d]
        /\ durable'[c] = durable[c] \/ durable'[c] = durable[c] \cup KeptBy(t, j)
    <3>1. CASE UNCHANGED durable
      BY <2>3, <3>1
    <3>2. CASE Keep(t, j)
      BY <1>0, <1>1, <3>2, KeepType
    <3>3. QED  BY <1>1, <3>1, <3>2
  <2>10. CallOK(c)'
    <3>1. durable'[c] \in {{}, Statements}
      BY <2>2, <2>3, <2>8, <2>9 DEF JobLeaves, CallOK
    <3>2. call[c].stage = "plain" /\ call[c].reply = "none"
      BY <2>2, <2>8 DEF JobLeaves
    <3>3. QED  BY <2>1, <2>8, <3>1, <3>2 DEF CallOK
  <2>11. thread[t].lease = c => LeaseOK(t, c)'
    <3>1. call[c].stage = "plain"
      BY <2>2, <2>8 DEF JobLeaves
    <3>2. thread[t].lease # c
      BY <3>1, NotLeased DEF PoolInv
    <3>3. QED  BY <3>2
  <2>12. QED
    <3>1. call' \in [Clients -> CallStates] /\ \A d \in Clients : call'[d] = call[d]
      BY <2>1, <2>3
    <3>2. QED
      BY <1>0, <1>1, <1>a, <1>b, <2>4, <2>6, <2>7, <2>9, <2>10, <2>11, <3>1, JobEnds
<1>4. QED  BY <1>2, <1>3

LEMMA TakeKeeps ==
    ASSUME ConstantsAssumption, TypeOK, PoolInv, NEW t \in Threads, Take(t)
    PROVE  Kept
<1>1. PICK i \in Takeable(t) :
        /\ queue' = SubSeq(queue, 1, i - 1) \o SubSeq(queue, i + 1, Len(queue))
        /\ thread' = [thread EXCEPT ![t].at = "work", ![t].job = queue[i]]
  BY DEF Take
<1>2. /\ thread[t].at = "take"
      /\ UNCHANGED <<running, started, pool, call, durable, outcome, bounds>>
      /\ i \in DOMAIN queue /\ MayTake(t, queue[i]) /\ queue \in Seq(Jobs)
      /\ thread \in [Threads -> ThreadStates] /\ ThreadType(thread[t])
  <2>1. /\ thread[t].at = "take"
        /\ UNCHANGED <<running, started, pool, call, durable, outcome, bounds>>
    BY DEF Take
  <2>2. i \in DOMAIN queue /\ MayTake(t, queue[i]) /\ queue \in Seq(Jobs)
    BY <1>1 DEF Takeable, TypeOK
  <2>3. thread \in [Threads -> ThreadStates] /\ ThreadType(thread[t])
    BY DEF TypeOK, ThreadType
  <2>4. QED  BY <2>1, <2>2, <2>3
<1>3. queue[i] \in Jobs /\ queue[i].client \in Clients /\ queue[i].kind \in Kinds
  BY <1>2, JobTypes
<1> DEFINE j == queue[i]
<1>4. /\ \A u \in Threads \ {t} : thread'[u] = thread[u]
      /\ thread'[t].lease = thread[t].lease /\ thread'[t].conn = thread[t].conn
      /\ thread'[t].at = "work" /\ thread'[t].pending = thread[t].pending
      /\ thread'[t].job = j /\ thread' \in [Threads -> ThreadStates]
  <2>1. thread' = [thread EXCEPT ![t] = [thread[t] EXCEPT !.at = "work", !.job = j]]
    BY <1>1, <1>2 DEF ThreadStates
  <2> HIDE DEF j
  <2> DEFINE s == [thread[t] EXCEPT !.at = "work", !.job = j]
  <2>2. /\ s \in ThreadStates /\ s.lease = thread[t].lease /\ s.conn = thread[t].conn
        /\ s.at = "work" /\ s.pending = thread[t].pending /\ s.job = j
    BY <1>2, <1>3 DEF ThreadStates, j
  <2> HIDE DEF s
  <2>3. thread' = [thread EXCEPT ![t] = s]
    BY <2>1 DEF s
  <2>4. QED  BY <1>2, <2>2, <2>3
<1> HIDE DEF j
<1>5. TypeOK'
  <2>1. \A u \in Threads : ThreadType(thread'[u])
    <3>1. j # NoJob
      BY <1>3, ThreadStatesType DEF j
    <3>2. \A u \in Threads : ThreadType(thread[u])
      BY DEF TypeOK, ThreadType
    <3>3. QED  BY <1>2, <1>4, <3>1, <3>2 DEF ThreadType
  <2>2. queue' \in Seq(Jobs)
    <3>1. queue' = Without(queue, i) /\ i \in 1..Len(queue)
      BY <1>1, <1>2 DEF Without
    <3>2. QED  BY <1>2, <3>1, TakenOut
  <2>3. QED  BY <1>2, <1>4, <2>1, <2>2, TypeParts DEF TypeOK, bounds
<1>6. JobsInv'
  BY JobsTaken
<1>7. CallsInv'
  BY <1>2 DEF PoolInv, CallsInv, CallOK
<1>8. ASSUME NEW u \in Threads PROVE ThreadOK(u)'
  <2>1. ThreadOK(u)
    BY DEF PoolInv, ThreadsInv
  <2>2. CASE u = t
    <3>1. j.kind # "plain" => thread[t].lease = j.client
      BY <1>2 DEF MayTake, Leased, j
    <3>2. j.kind = "plain" => thread[t].lease = NoClient
      BY <1>2 DEF MayTake, Leased, j
    <3>3. ASSUME j.kind = "statement" PROVE thread[t].conn = "tx"
      <4>1. i \in Waiting(j.client)
        BY <1>2, <3>3 DEF Waiting, j
      <4>2. LeaseOK(t, j.client)
        BY <1>3 DEF PoolInv, ThreadsInv, j
      <4>3. QED  BY <1>2, <3>1, <3>3, <4>1, <4>2 DEF LeaseOK
    <3>4. j.kind = "plain" => thread[t].conn # "tx"
      BY <2>1, <2>2, <3>2 DEF ThreadOK
    <3>5. thread[t].conn = "tx" => thread[t].lease # NoClient
      BY <2>1, <2>2 DEF ThreadOK
    <3>6. QED  BY <1>4, <2>2, <3>1, <3>3, <3>4, <3>5 DEF ThreadOK, Works, Leased
  <2>3. CASE u # t
    BY <1>4, <2>1, <2>3 DEF ThreadOK, Works
  <2>4. QED  BY <2>2, <2>3
<1>9. ASSUME NEW d \in Clients PROVE \A u \in Threads : LeaseOK(u, d)'
  <2>1. NoNewStatement(d)
    BY TakenStatement
  <2>2. \A u \in Threads : /\ thread'[u].lease = thread[u].lease
                           /\ thread'[u].conn = thread[u].conn
                           /\ thread'[u].pending = thread[u].pending
                           /\ thread'[u].at # "dead" => thread[u].at # "dead"
    BY <1>2, <1>4
  <2>3. QED  BY <1>2, <2>1, <2>2, LeaseKept DEF PoolInv
<1>10. ThreadsInv'
  BY <1>8, <1>9 DEF ThreadsInv
<1>11. QED  BY <1>5, <1>6, <1>7, <1>10 DEF Kept, PoolInv

\* A thread ends that is not at work.
LEMMA ThreadEnds ==
    ASSUME ConstantsAssumption, TypeOK, PoolInv, NEW t \in Threads,
           thread[t].at = "take", NEW l \in {NoClient, thread[t].lease},
           thread' = [thread EXCEPT ![t] = [DeadThread EXCEPT !.lease = l]],
           UNCHANGED <<queue, running, started, call, durable, outcome, bounds>>,
           pool' \in SUBSET Threads
    PROVE  Kept
<1> DEFINE s == [DeadThread EXCEPT !.lease = l]
<1>1. thread \in [Threads -> ThreadStates] /\ thread[t] \in ThreadStates
  BY DEF TypeOK
<1>2. /\ s \in ThreadStates /\ s.at = "dead" /\ s.lease = l /\ s.conn = "none"
      /\ s.job = NoJob /\ s.pending = {}
  BY <1>1 DEF DeadThread, ThreadStates
<1> HIDE DEF s
<1>3. /\ \A u \in Threads \ {t} : thread'[u] = thread[u]
      /\ thread'[t] = s /\ thread' \in [Threads -> ThreadStates]
  BY <1>1, <1>2 DEF s
<1>4. TypeOK'
  <2>1. \A u \in Threads : ThreadType(thread'[u])
    BY <1>2, <1>3 DEF TypeOK, ThreadType
  <2>2. QED  BY <1>3, <2>1, TypeParts DEF TypeOK, bounds
<1>5. JobsInv'
  <2>1. SameWork
    BY <1>2, <1>3 DEF SameWork, Works
  <2>2. QED  BY <2>1, JobsKept DEF PoolInv
<1>6. CallsInv'
  BY DEF PoolInv, CallsInv, CallOK
<1>7. ASSUME NEW u \in Threads PROVE ThreadOK(u)'
  <2>1. ThreadOK(u)
    BY DEF PoolInv, ThreadsInv
  <2>2. CASE u = t
    BY <1>2, <1>3, <2>2 DEF ThreadOK, Works
  <2>3. CASE u # t
    BY <1>3, <2>1, <2>3 DEF ThreadOK, Works
  <2>4. QED  BY <2>2, <2>3
<1>8. ASSUME NEW d \in Clients PROVE \A u \in Threads : LeaseOK(u, d)'
  <2>1. \A u \in Threads : LeaseOK(u, d)
    BY DEF PoolInv, ThreadsInv
  <2>2. \A u \in Threads : thread'[u].lease = d => thread[u].lease = d
    BY <1>2, <1>3 DEF ConstantsAssumption
  <2>3. IsOpen(d)' = IsOpen(d) /\ IsClosed(d)' = IsClosed(d) /\ Waiting(d)' = Waiting(d)
    BY DEF IsOpen, IsClosed, Waiting
  <2>4. ASSUME NEW u \in Threads PROVE LeaseOK(u, d)'
    <3>1. CASE u = t
      BY <1>2, <1>3, <2>1, <2>2, <2>3, <3>1 DEF LeaseOK
    <3>2. CASE u # t
      BY <1>3, <2>1, <2>2, <2>3, <3>2 DEF LeaseOK
    <3>3. QED  BY <3>1, <3>2
  <2>5. QED  BY <2>4
<1>9. ThreadsInv'
  BY <1>7, <1>8 DEF ThreadsInv
<1>10. QED  BY <1>4, <1>5, <1>6, <1>9 DEF Kept, PoolInv

LEMMA ShrinkKeeps ==
    ASSUME ConstantsAssumption, TypeOK, PoolInv, NEW t \in Threads, Shrink(t)
    PROVE  Kept
<1>1. DeadThread = [DeadThread EXCEPT !.lease = NoClient]
  BY DEF DeadThread
<1>2. pool' \in SUBSET Threads
  BY DEF Shrink, TypeOK
<1>3. QED  BY <1>1, <1>2, ThreadEnds DEF Shrink

LEMMA ExitKeeps ==
    ASSUME ConstantsAssumption, TypeOK, PoolInv, NEW t \in Threads, Exit(t)
    PROVE  Kept
<1>1. pool' \in SUBSET Threads
  BY DEF Exit, TypeOK
<1>2. QED  BY <1>1, ThreadEnds DEF Exit

\* Nothing changes of the calls, the jobs and the threads.
LEMMA PoolKeeps ==
    ASSUME TypeOK, PoolInv, UNCHANGED <<queue, thread, call, durable, outcome, calls>>,
           running' \in BOOLEAN, started' \in BOOLEAN, pool' \in SUBSET Threads,
           faults' \in 0..MaxFaults
    PROVE  Kept
<1>1. TypeOK'
  BY DEF TypeOK
<1>2. JobsInv'
  BY DEF PoolInv, JobsInv, AllAwaited, InOrder, IsAwaited, Works, Precedes
<1>3. CallsInv'
  BY DEF PoolInv, CallsInv, CallOK
<1>4. ThreadsInv'
  BY DEF PoolInv, ThreadsInv, ThreadOK, LeaseOK, IsOpen, IsClosed, Waiting, Works, Leased
<1>5. QED  BY <1>1, <1>2, <1>3, <1>4 DEF Kept, PoolInv

-----------------------------------------------------------------------------
\* The inductive invariant.

LEMMA StartsSound == ASSUME ConstantsAssumption, Init PROVE TypeOK /\ PoolInv
<1>1. /\ \A t \in Threads : thread[t] = DeadThread
      /\ \A c \in Clients : call[c] = NoCall /\ durable[c] = {}
      /\ queue = <<>> /\ DOMAIN queue = {}
  BY DEF Init
<1>2. /\ DeadThread.at = "dead" /\ DeadThread.lease = NoClient /\ DeadThread.conn = "none"
      /\ DeadThread.job = NoJob /\ DeadThread.pending = {}
      /\ NoCall.stage = "idle" /\ NoCall.reply = "none" /\ NoCall.next = 1
  BY DEF DeadThread, NoCall
<1>3. TypeOK
  <2>1. /\ thread \in [Threads -> ThreadStates] /\ call \in [Clients -> CallStates]
    BY ThreadStatesType, NoCallType DEF Init
  <2>2. \A t \in Threads : /\ thread[t].at = "work" <=> thread[t].job # NoJob
                           /\ thread[t].pending # {} => thread[t].conn = "tx"
    BY <1>1, <1>2
  <2>3. /\ durable \in [Clients -> SUBSET Statements]
        /\ outcome \in [Clients -> {"idle", "returned", "raised", "undone"}]
    BY DEF Init
  <2>6. /\ queue \in Seq(Jobs) /\ pool \in SUBSET Threads
        /\ running \in BOOLEAN /\ started \in BOOLEAN
    <3>1. queue = <<>> /\ pool = {} /\ running = FALSE /\ started = FALSE
      BY DEF Init
    <3>2. queue \in Seq(Jobs)
      BY <3>1
    <3>3. running \in BOOLEAN /\ started \in BOOLEAN
      BY <3>1
    <3>4. QED  BY <3>1, <3>2, <3>3
  <2>4. calls \in 0..MaxCalls /\ faults \in 0..MaxFaults
    BY DEF Init, ConstantsAssumption
  <2>5. QED  BY <2>1, <2>2, <2>3, <2>4, <2>6 DEF TypeOK
<1>4. JobsInv
  BY <1>1, <1>2 DEF JobsInv, AllAwaited, InOrder, Works
<1>5. CallsInv
  BY <1>1, <1>2 DEF CallsInv, CallOK
<1>6. ThreadsInv
  BY <1>1, <1>2 DEF ThreadsInv, ThreadOK, LeaseOK, Works, ConstantsAssumption
<1>7. QED  BY <1>3, <1>4, <1>5, <1>6 DEF PoolInv

LEMMA StepsSound == ASSUME ConstantsAssumption, TypeOK, PoolInv, [Next]_vars PROVE Kept
<1>1. ASSUME NEW c \in Clients, Plain(c) PROVE Kept
  BY <1>1, PlainKeeps
<1>2. ASSUME NEW c \in Clients, Transaction(c) PROVE Kept
  BY <1>2, TransactionKeeps
<1>3. ASSUME NEW c \in Clients, Caller(c) PROVE Kept
  BY <1>3, AcquireKeeps, AcquireRefusedKeeps, BeganKeeps, StatementKeeps, AbortKeeps,
     PlainEndsKeeps, TransactionEndsKeeps DEF Caller
<1>4. ASSUME NEW c \in Clients, Cancel(c) PROVE Kept
  BY <1>4, CancelKeeps
<1>5. ASSUME NEW t \in Threads, Worker(t) PROVE Kept
  BY <1>5, TakeKeeps, ShrinkKeeps, ExitKeeps, DoneKeeps, RefusedKeeps, NotConnectedKeeps,
     LostKeeps DEF Worker
<1>6. ASSUME Shutdown PROVE Kept
  <2>1. running' \in BOOLEAN /\ started' \in BOOLEAN /\ pool' \in SUBSET Threads
        /\ faults' \in 0..MaxFaults
    <3>1. running' = FALSE /\ UNCHANGED <<started, pool>>
      BY <1>6 DEF Shutdown
    <3>2. faults' = faults + 1 /\ faults < MaxFaults
      BY <1>6 DEF Shutdown, Fault
    <3>3. faults \in 0..MaxFaults /\ started \in BOOLEAN /\ pool \in SUBSET Threads
      BY DEF TypeOK
    <3>4. faults' \in 0..MaxFaults
      BY <3>2, <3>3 DEF ConstantsAssumption
    <3>5. QED  BY <3>1, <3>3, <3>4
  <2>2. QED  BY <1>6, <2>1, PoolKeeps DEF Shutdown
<1>7. ASSUME Joined PROVE Kept
  <2>1. running' \in BOOLEAN /\ started' \in BOOLEAN /\ pool' \in SUBSET Threads
        /\ faults' \in 0..MaxFaults
    BY <1>7 DEF Joined, bounds, TypeOK
  <2>2. QED  BY <1>7, <2>1, PoolKeeps DEF Joined, bounds
<1>8. ASSUME UNCHANGED vars PROVE Kept
  <2>1. running' \in BOOLEAN /\ started' \in BOOLEAN /\ pool' \in SUBSET Threads
        /\ faults' \in 0..MaxFaults
    BY <1>8 DEF vars, bounds, TypeOK
  <2>2. QED  BY <1>8, <2>1, PoolKeeps DEF vars, bounds
<1>9. QED  BY <1>1, <1>2, <1>3, <1>4, <1>5, <1>6, <1>7, <1>8 DEF Next

LEMMA PoolIsSound == ASSUME ConstantsAssumption PROVE Spec => [](TypeOK /\ PoolInv)
<1>1. Init => TypeOK /\ PoolInv
  BY StartsSound
<1>2. TypeOK /\ PoolInv /\ [Next]_vars => (TypeOK /\ PoolInv)'
  BY StepsSound DEF Kept
<1>3. QED  BY <1>1, <1>2, PTL DEF Spec

-----------------------------------------------------------------------------
\* Theorems.

\* Types, and what a thread at work is: in work exactly if it has a job.
THEOREM TypeCorrect == ASSUME ConstantsAssumption PROVE Spec => []TypeOK
<1>1. TypeOK /\ PoolInv => TypeOK
  OBVIOUS
<1>2. QED  BY <1>1, PoolIsSound, PTL

\* A connection in the middle of a transaction belongs to a lease, and the job of
\* a transaction runs on the thread of its lease only (_lease_id, _take_job), for
\* any number of callers, threads, losses, retries and cancelled coroutines.
THEOREM TransactionsBelong ==
    ASSUME ConstantsAssumption PROVE Spec => []TransactionsAreLeased
<1>1. TypeOK /\ PoolInv => TransactionsAreLeased
  BY DEF PoolInv, ThreadsInv, ThreadOK, Works, TransactionsAreLeased
<1>2. QED  BY <1>1, PoolIsSound, PTL

-----------------------------------------------------------------------------
\* The pool implements DbCalls.

\* What a caller sees of its call, and of its work.
PhaseOf(c) == IF call[c].stage = "idle" THEN outcome[c] ELSE "calling"
EffectOf(c) == IF durable[c] = {} THEN "none"
               ELSE IF durable[c] = Statements THEN "all" ELSE "some"
Phase == [c \in Clients |-> PhaseOf(c)]
Effect == [c \in Clients |-> EffectOf(c)]

\* The abstract actions, in these terms.
ACall(c) ==
    /\ Phase[c] \in {"idle", "returned", "raised", "undone"}
    /\ Phase' = [Phase EXCEPT ![c] = "calling"]
    /\ Effect' = [Effect EXCEPT ![c] = "none"]
ATakeEffect(c) ==
    /\ Phase[c] = "calling" /\ Effect[c] = "none"
    /\ Effect' = [Effect EXCEPT ![c] = "all"]
    /\ UNCHANGED Phase
AReturn(c, how) ==
    /\ Phase[c] = "calling"
    /\ how = "returned" => Effect[c] = "all"
    /\ how = "undone" => Effect[c] = "none"
    /\ Phase' = [Phase EXCEPT ![c] = how]
    /\ UNCHANGED Effect

LEMMA AbstractStep ==
    ASSUME \/ \E c \in Clients : \/ ACall(c) \/ ATakeEffect(c)
                                 \/ \E how \in {"returned", "raised", "undone"} : AReturn(c, how)
           \/ UNCHANGED <<Phase, Effect>>
    PROVE  [Calls!Next]_(Calls!calls)
<1>1. ASSUME NEW c \in Clients, ACall(c) PROVE Calls!Call(c)
  BY <1>1 DEF ACall, Calls!Call, Calls!Ended, Phase, Effect, PhaseOf, EffectOf
<1>2. ASSUME NEW c \in Clients, ATakeEffect(c) PROVE Calls!TakeEffect(c)
  BY <1>2 DEF ATakeEffect, Calls!TakeEffect, Phase, Effect, PhaseOf, EffectOf
<1>3. ASSUME NEW c \in Clients, NEW how \in {"returned", "raised", "undone"}, AReturn(c, how)
      PROVE  Calls!Return(c, how) /\ how \in Calls!Ended \ {"idle"}
  BY <1>3 DEF AReturn, Calls!Return, Calls!Ended, Phase, Effect, PhaseOf, EffectOf
<1>4. ASSUME UNCHANGED <<Phase, Effect>> PROVE UNCHANGED Calls!calls
  BY <1>4 DEF Calls!calls, Phase, Effect, PhaseOf, EffectOf
<1>5. QED  BY <1>1, <1>2, <1>3, <1>4 DEF Calls!Next

\* A step in which the call of c changes as the abstract one does.
LEMMA ViewOf ==
    ASSUME NEW c \in Clients,
           \A d \in Clients \ {c} : PhaseOf(d)' = PhaseOf(d) /\ EffectOf(d)' = EffectOf(d)
    PROVE  /\ Phase' = [Phase EXCEPT ![c] = PhaseOf(c)']
           /\ Effect' = [Effect EXCEPT ![c] = EffectOf(c)']
           /\ EffectOf(c)' = EffectOf(c) => UNCHANGED Effect
           /\ PhaseOf(c)' = PhaseOf(c) => UNCHANGED Phase
           /\ Phase[c] = PhaseOf(c) /\ Effect[c] = EffectOf(c)
<1>1. \A d \in Clients : Phase[d] = PhaseOf(d) /\ Effect[d] = EffectOf(d)
  BY DEF Phase, Effect
<1>2. Phase' = [d \in Clients |-> PhaseOf(d)'] /\ Effect' = [d \in Clients |-> EffectOf(d)']
  BY DEF Phase, Effect
<1>3. Phase = [d \in Clients |-> PhaseOf(d)] /\ Effect = [d \in Clients |-> EffectOf(d)]
  BY DEF Phase, Effect
<1>4. QED  BY <1>1, <1>2, <1>3

LEMMA SameView ==
    ASSUME UNCHANGED <<outcome, durable>>,
           \A c \in Clients : (call'[c].stage = "idle") = (call[c].stage = "idle")
    PROVE  UNCHANGED <<Phase, Effect>>
BY DEF Phase, Effect, PhaseOf, EffectOf

\* A call begins.
LEMMA CallView ==
    ASSUME ConstantsAssumption, TypeOK, PoolInv, NEW c \in Clients,
           Plain(c) \/ Transaction(c)
    PROVE  ACall(c)
<1>1. /\ call[c].stage = "idle" /\ durable' = [durable EXCEPT ![c] = {}]
      /\ outcome' = [outcome EXCEPT ![c] = "idle"]
      /\ \/ call' = [call EXCEPT ![c].stage = "plain"]
         \/ call' = [call EXCEPT ![c].stage = "acquire"]
  BY DEF Plain, Transaction, NewCall
<1>2. /\ call'[c].stage # "idle" /\ durable'[c] = {}
      /\ outcome[c] \in {"idle", "returned", "raised", "undone"}
      /\ \A d \in Clients \ {c} : call'[d] = call[d] /\ durable'[d] = durable[d]
                                  /\ outcome'[d] = outcome[d]
  <2>1. call \in [Clients -> CallStates] /\ durable \in [Clients -> SUBSET Statements]
        /\ outcome \in [Clients -> {"idle", "returned", "raised", "undone"}]
    BY DEF TypeOK
  <2>2. QED  BY <1>1, <2>1 DEF CallStates
<1>3. PhaseOf(c) = outcome[c] /\ PhaseOf(c)' = "calling" /\ EffectOf(c)' = "none"
  BY <1>1, <1>2 DEF PhaseOf, EffectOf
<1>4. \A d \in Clients \ {c} : PhaseOf(d)' = PhaseOf(d) /\ EffectOf(d)' = EffectOf(d)
  BY <1>2 DEF PhaseOf, EffectOf
<1>5. QED  BY <1>2, <1>3, <1>4, ViewOf DEF ACall

\* A call ends.
LEMMA ReturnView ==
    ASSUME TypeOK, NEW c \in Clients, NEW how \in {"returned", "raised", "undone"},
           call[c].stage # "idle", call' = [call EXCEPT ![c] = NoCall],
           outcome' = [outcome EXCEPT ![c] = how], UNCHANGED durable,
           how = "returned" => EffectOf(c) = "all",
           how = "undone" => EffectOf(c) = "none"
    PROVE  AReturn(c, how)
<1>1. /\ call'[c].stage = "idle" /\ outcome'[c] = how
      /\ \A d \in Clients \ {c} : call'[d] = call[d] /\ durable'[d] = durable[d]
                                  /\ outcome'[d] = outcome[d]
  BY DEF TypeOK, NoCall
<1>2. PhaseOf(c) = "calling" /\ PhaseOf(c)' = how /\ EffectOf(c)' = EffectOf(c)
  BY <1>1 DEF PhaseOf, EffectOf
<1>3. \A d \in Clients \ {c} : PhaseOf(d)' = PhaseOf(d) /\ EffectOf(d)' = EffectOf(d)
  BY <1>1 DEF PhaseOf, EffectOf
<1>4. QED  BY <1>2, <1>3, ViewOf DEF AReturn

LEMMA StatementsExist == ASSUME ConstantsAssumption PROVE Statements # {}
<1>1. 1 \in Statements
  BY DEF ConstantsAssumption, Statements
<1>2. QED  BY <1>1

\* The steps of a caller whose call goes on, or ends.
LEMMA CallerView ==
    ASSUME ConstantsAssumption, TypeOK, PoolInv, NEW c \in Clients, Caller(c) \/ Cancel(c)
    PROVE  \/ UNCHANGED <<Phase, Effect>>
           \/ \E how \in {"returned", "raised", "undone"} : AReturn(c, how)
<1>0. call \in [Clients -> CallStates] /\ CallOK(c)
  BY DEF TypeOK, PoolInv, CallsInv
<1>1. CASE \/ Acquire(c) \/ Began(c) \/ Statement(c) \/ Abort(c) \/ Cancel(c)
  <2>1. /\ UNCHANGED <<outcome, durable>> /\ call[c].stage # "idle"
        /\ \/ \E s \in {"begin", "statement", "commit", "rollback"} :
                \/ call' = [call EXCEPT ![c].stage = s]
                \/ call' = [call EXCEPT ![c].stage = s, ![c].reply = "none"]
           \/ call' = [call EXCEPT ![c] = [NoCall EXCEPT !.stage = "gone"]]
           \/ call' = [call EXCEPT ![c].cancelled = TRUE]
    BY <1>1 DEF Acquire, Began, Statement, Abort, Cancel, Continue
  <2>2. call'[c].stage # "idle" /\ \A d \in Clients \ {c} : call'[d] = call[d]
    BY <1>0, <2>1 DEF CallStates, NoCall
  <2>3. QED  BY <2>1, <2>2, SameView
<1>2. CASE AcquireRefused(c)
  BY <1>2, ReturnView DEF AcquireRefused
<1>3. CASE PlainEnds(c)
  <2>1. /\ call[c].stage = "plain" /\ call[c].reply # "none" /\ UNCHANGED durable
        /\ call' = [call EXCEPT ![c] = NoCall]
        /\ outcome' = [outcome EXCEPT ![c] = IF call[c].reply = "ok" THEN "returned" ELSE "raised"]
    BY <1>3 DEF PlainEnds, Finish
  <2>2. call[c].reply = "ok" => EffectOf(c) = "all"
    BY <1>0, <2>1, StatementsExist DEF CallOK, EffectOf
  <2>3. QED  BY <2>1, <2>2, ReturnView
<1>4. CASE TransactionEnds(c)
  <2>1. CASE call[c].stage = "commit"
    <3>1. /\ UNCHANGED durable /\ call' = [call EXCEPT ![c] = NoCall]
          /\ outcome' = [outcome EXCEPT ![c] = IF call[c].reply = "ok" THEN "returned" ELSE "raised"]
      BY <1>4, <2>1 DEF TransactionEnds, Finish
    <3>2. call[c].reply = "ok" => EffectOf(c) = "all"
      BY <1>0, <2>1, StatementsExist DEF CallOK, EffectOf
    <3>3. QED  BY <2>1, <3>1, <3>2, ReturnView
  <2>2. CASE call[c].stage # "commit"
    <3>1. /\ call[c].stage \in {"begin", "rollback"} /\ UNCHANGED durable
          /\ call' = [call EXCEPT ![c] = NoCall] /\ outcome' = [outcome EXCEPT ![c] = "undone"]
      BY <1>4, <2>2 DEF TransactionEnds, Finish
    <3>2. EffectOf(c) = "none"
      BY <1>0, <3>1 DEF CallOK, EffectOf
    <3>3. QED  BY <3>1, <3>2, ReturnView
  <2>3. QED  BY <2>1, <2>2
<1>5. QED  BY <1>1, <1>2, <1>3, <1>4 DEF Caller

\* What a job leaves in the database is the whole of its call, or nothing.
LEMMA KeepView ==
    ASSUME ConstantsAssumption, TypeOK, PoolInv, NEW t \in Threads, Works(t),
           NEW j \in Jobs, j = thread[t].job, NEW c \in Clients, c = j.client,
           Keep(t, j), UNCHANGED outcome,
           \A d \in Clients : call'[d].stage = call[d].stage
    PROVE  UNCHANGED <<Phase, Effect>> \/ ATakeEffect(c)
<1>1. JobLeaves(t, j, c) /\ CallOK(c) /\ j.kind \in Kinds
  BY KeptByKind, JobAtWork
<1>2. /\ durable' \in [Clients -> SUBSET Statements]
      /\ \A d \in Clients \ {c} : durable'[d] = durable[d]
      /\ durable'[c] = durable[c] \cup KeptBy(t, j)
  BY KeepType
<1>3. call[c].stage # "idle"
  BY <1>1 DEF JobLeaves, Kinds
<1>4. durable'[c] = durable[c] \/ (durable[c] = {} /\ durable'[c] = Statements)
  <2>1. durable[c] = {} \/ durable[c] = Statements
    BY <1>1 DEF CallOK
  <2>2. KeptBy(t, j) = {} \/ KeptBy(t, j) = Statements
    BY <1>1 DEF JobLeaves, Kinds
  <2>3. QED  BY <1>2, <2>1, <2>2
<1>5. \A d \in Clients : PhaseOf(d)' = PhaseOf(d)
  BY DEF PhaseOf
<1>6. \A d \in Clients \ {c} : EffectOf(d)' = EffectOf(d)
  BY <1>2 DEF EffectOf
<1>7. CASE durable'[c] = durable[c]
  <2>1. EffectOf(c)' = EffectOf(c)
    BY <1>7 DEF EffectOf
  <2>2. QED  BY <1>5, <1>6, <2>1, ViewOf
<1>8. CASE durable[c] = {} /\ durable'[c] = Statements
  <2>1. EffectOf(c) = "none" /\ EffectOf(c)' = "all" /\ PhaseOf(c) = "calling"
    BY <1>3, <1>8, StatementsExist DEF EffectOf, PhaseOf
  <2>2. QED  BY <1>5, <1>6, <2>1, ViewOf DEF ATakeEffect
<1>9. QED  BY <1>4, <1>7, <1>8

LEMMA WorkerView ==
    ASSUME ConstantsAssumption, TypeOK, PoolInv, NEW t \in Threads, Worker(t)
    PROVE  UNCHANGED <<Phase, Effect>> \/ \E c \in Clients : ATakeEffect(c)
<1>1. ASSUME NEW how \in {"ok", "error"}, Works(t), Reply(thread[t].job, how)
      PROVE  \A d \in Clients : call'[d].stage = call[d].stage
  <2>1. PICK j \in Jobs, c \in Clients : j = thread[t].job /\ c = j.client
    BY <1>1, JobTypes
  <2>2. /\ \A d \in Clients \ {c} : call'[d] = call[d]
        /\ call'[c].stage = call[c].stage
    BY <1>1, <2>1, ReplyType
  <2>3. QED  BY <2>2
<1>2. CASE Take(t) \/ Shrink(t) \/ Exit(t)
  BY <1>2, SameView DEF Take, Shrink, Exit
<1>3. CASE Refused(t) \/ NotConnected(t)
  <2>1. Works(t) /\ Reply(thread[t].job, "error") /\ UNCHANGED <<durable, outcome>>
    BY <1>3 DEF Refused, NotConnected, Works
  <2>2. \A d \in Clients : call'[d].stage = call[d].stage
    BY <1>1, <2>1
  <2>3. QED  BY <2>1, <2>2, SameView
<1>4. CASE Done(t) \/ Lost(t)
  <2>0. PICK j \in Jobs, c \in Clients : Works(t) /\ j = thread[t].job /\ c = j.client
    BY <1>4, JobTypes DEF Done, Lost, Works
  <2>1. /\ UNCHANGED outcome /\ (UNCHANGED durable \/ Keep(t, j))
        /\ \/ Reply(thread[t].job, "ok") \/ Reply(thread[t].job, "error") \/ UNCHANGED call
    BY <1>4, <2>0 DEF Done, Lost
  <2>2. \A d \in Clients : call'[d].stage = call[d].stage
    BY <1>1, <2>0, <2>1
  <2>3. CASE UNCHANGED durable
    BY <2>1, <2>2, <2>3, SameView
  <2>4. CASE Keep(t, j)
    BY <2>0, <2>1, <2>2, <2>4, KeepView
  <2>5. QED  BY <2>1, <2>3, <2>4
<1>5. QED  BY <1>2, <1>3, <1>4 DEF Worker

LEMMA StepView ==
    ASSUME ConstantsAssumption, TypeOK, PoolInv, [Next]_vars
    PROVE  [Calls!Next]_(Calls!calls)
<1>1. ASSUME NEW c \in Clients, Plain(c) \/ Transaction(c) PROVE [Calls!Next]_(Calls!calls)
  BY <1>1, CallView, AbstractStep
<1>2. ASSUME NEW c \in Clients, Caller(c) \/ Cancel(c) PROVE [Calls!Next]_(Calls!calls)
  BY <1>2, CallerView, AbstractStep
<1>3. ASSUME NEW t \in Threads, Worker(t) PROVE [Calls!Next]_(Calls!calls)
  BY <1>3, WorkerView, AbstractStep
<1>4. ASSUME Shutdown \/ Joined \/ UNCHANGED vars PROVE [Calls!Next]_(Calls!calls)
  <2>1. UNCHANGED <<outcome, durable, call>>
    BY <1>4 DEF Shutdown, Joined, vars
  <2>2. QED  BY <2>1, SameView, AbstractStep
<1>5. QED  BY <1>1, <1>2, <1>3, <1>4 DEF Next

\* The pool implements DbCalls (run, execute, transaction): what a call does
\* takes effect as a whole or not at all, a call that returns has taken effect,
\* and one that was rolled back has not.
THEOREM CallersSeeDbCalls == ASSUME ConstantsAssumption PROVE Spec => CallsSpec
<1>1. Init => Calls!Init
  BY DEF Init, Calls!Init, NoCall
<1>2. TypeOK /\ PoolInv /\ [Next]_vars => [Calls!Next]_(Calls!calls)
  BY StepView
<1>3. QED  BY <1>1, <1>2, PoolIsSound, PTL DEF Spec, CallsSpec, Calls!Spec

=============================================================================
