--------------------------- MODULE CacheSyncProofs ---------------------------
(***************************************************************************)
(* Theorems about CacheSync for every number of processes, tables, rows,   *)
(* writes, failures and crashes: who may write the cache, and what its     *)
(* snapshot shows.                                                         *)
(***************************************************************************)
EXTENDS CacheSync, TLAPS, WellFoundedInduction

-----------------------------------------------------------------------------
\* A set of numbers up to a bound has a greatest one.
LEMMA MaxExists ==
    ASSUME NEW N \in Nat, NEW S \in SUBSET (0..N), S # {}
    PROVE  Max(S) \in S /\ \A y \in S : y <= Max(S)
<1> DEFINE R == OpToRel(<, Nat)
           T == {n \in Nat : N - n \in S}
<1>1. \E x \in T : \A y \in T : ~(<<y, x>> \in R)
  <2>1. T \subseteq Nat /\ T # {}
    <3>1. PICK s \in S : TRUE
      OBVIOUS
    <3>2. N - s \in Nat /\ N - (N - s) = s
      BY <3>1
    <3>3. QED  BY <3>1, <3>2
  <2> HIDE DEF T, R
  <2>2. IsWellFoundedOn(R, Nat)
    BY NatLessThanWellFounded DEF R
  <2>3. QED  BY <2>1, <2>2, WFMin
<1>2. PICK x \in T : \A y \in T : ~(<<y, x>> \in R)
  BY <1>1
<1>a. x \in Nat /\ N - x \in S
  <2> HIDE DEF R
  <2>1. QED  BY <1>2
<1>3. \A y \in S : N - x >= y
  <2>1. TAKE y \in S
  <2>2. N - y \in T
    OBVIOUS
  <2>3. ~(<<N - y, x>> \in R)
    BY <1>2, <2>2
  <2>4. ~(N - y < x)
    BY <2>3, <2>2, <1>a DEF OpToRel
  <2>5. QED  BY <2>4, <1>a
<1>5. \E m \in S : \A y \in S : m >= y
  BY <1>3, <1>a
<1>6. Max(S) \in S /\ \A y \in S : Max(S) >= y
  BY <1>5 DEF Max
<1>7. \A y \in S : y \in Int
  OBVIOUS
<1>8. QED  BY <1>6, <1>7

\* Stamps are numbers, and 0 is none of them.
LEMMA StampsAreNumbers ==
    ASSUME CacheAssumption
    PROVE  Stamps \subseteq Nat /\ 0 \notin Stamps /\ 1 \in Stamps
BY DEF CacheAssumption, Stamps

\* Last is the greatest stamp that was read.
LEMMA LastIsGreatest ==
    ASSUME CacheAssumption, NEW j, j.read \in SUBSET Versions
    PROVE  /\ Last(j) \in Stamps \cup {0}
           /\ \A v \in j.read : v.stamp <= Last(j)
           /\ j.read # {} => \E v \in j.read : v.stamp = Last(j)
           /\ j.read = {} => Last(j) = 0
<1>1. CASE j.read = {}
  BY <1>1 DEF Last
<1>2. CASE j.read # {}
  <2> DEFINE S == {v.stamp : v \in j.read}
  <2>1. S # {} /\ S \subseteq Stamps
    BY <1>2 DEF Versions
  <2>2. MaxWrites + 1 \in Nat /\ Stamps \subseteq 0..(MaxWrites + 1)
    BY DEF CacheAssumption, Stamps
  <2>3. Last(j) = Max(S)
    BY <1>2 DEF Last
  <2>4. Max(S) \in S /\ \A y \in S : y <= Max(S)
    <3> HIDE DEF S
    <3>1. QED  BY <2>1, <2>2, MaxExists
  <2>5. QED  BY <1>2, <2>1, <2>3, <2>4
<1>3. QED  BY <1>1, <1>2

-----------------------------------------------------------------------------
\* Types, in parts.
WorldOK ==
    /\ source \in [Tables -> SUBSET CacheRows]
    /\ newest \in [Tables -> Stamps \cup {0}]
    /\ open \in SUBSET [table : Tables, id : Ids, stamp : Stamps]
    /\ clock \in Stamps
    /\ \A t \in Tables : \A r, s \in source[t] : r.id = s.id => r = s
ProcOK ==
    /\ proc \in [Procs -> Proc]
    /\ \A p \in Procs : proc[p].running => proc[p].worker \notin {"none", "done"}
CacheOK ==
    /\ snapshot \in [by : Procs \cup {NoProc}, rows : [Tables -> SUBSET Versions]]
    /\ cache \in [Procs -> [Tables -> SUBSET Versions]]
SyncOK ==
    /\ cursor \in [Procs -> [Tables -> Stamps \cup {0}]]
    /\ job \in [Procs -> [Tables -> Jobs]]
    /\ resync \in [Procs -> Nat]
    /\ doubtful \in [Procs -> SUBSET Tables]
RestOK ==
    /\ ownership \in [owner : Procs \cup {NoProc}, gen : Nat, valid : BOOLEAN]
    /\ lock \in Procs \cup {NoProc}
    /\ losses \in 0..MaxLosses
LEMMA Parts == CacheTypeOK <=> WorldOK /\ ProcOK /\ CacheOK /\ SyncOK /\ RestOK
BY DEF CacheTypeOK, WorldOK, ProcOK, CacheOK, SyncOK, RestOK

\* A process that is well typed.
Sound(s) == s \in Proc /\ (s.running => s.worker \notin {"none", "done"})

\* A step that changes one process to a sound one.
LEMMA ProcStep ==
    ASSUME ProcOK, NEW p \in Procs, NEW s, Sound(s), proc' = [proc EXCEPT ![p] = s]
    PROVE  ProcOK'
BY DEF ProcOK, Sound

LEMMA FaultType ==
    ASSUME CacheAssumption, RestOK, CacheFault \/ UNCHANGED losses
    PROVE  losses' \in 0..MaxLosses
BY DEF CacheAssumption, RestOK, CacheFault

LEMMA TypeInit == ASSUME CacheAssumption, CacheInit PROVE CacheTypeOK
<1> USE StampsAreNumbers DEF CacheAssumption
<1>1. WorldOK /\ SyncOK /\ RestOK
  BY DEF CacheInit, WorldOK, SyncOK, RestOK, Empty, NoClaim, NoJob, Jobs
<1>2. ProcOK
  BY DEF CacheInit, ProcOK, NewProc, Proc
<1>3. CacheOK
  BY DEF CacheInit, CacheOK, NoSnapshot, Empty
<1>4. QED  BY <1>1, <1>2, <1>3, Parts

\* The writers change the tables only.
LEMMA TypeWriter == ASSUME CacheAssumption, CacheTypeOK, Writer PROVE CacheTypeOK'
<1> USE DEF coordination, sync
<1>0. WorldOK /\ ProcOK /\ CacheOK /\ SyncOK /\ RestOK
  BY Parts
<1>1. (ProcOK /\ CacheOK /\ SyncOK /\ RestOK)'
  <2>1. UNCHANGED <<coordination, snapshot, proc, sync, losses>>
    BY DEF Writer, Begin, Delete, Commit
  <2>2. QED  BY <1>0, <2>1 DEF ProcOK, CacheOK, SyncOK, RestOK
<1>2. WorldOK'
  <2>1. CASE \E t \in Tables, i \in Ids : Begin(t, i)
    <3>1. PICK t \in Tables, i \in Ids : Begin(t, i)
      BY <2>1
    <3>2. clock' = clock + 1 /\ clock + 1 \in Stamps
      BY <1>0, <3>1 DEF Begin, WorldOK, Stamps, CacheAssumption
    <3>3. QED  BY <1>0, <3>1, <3>2 DEF Begin, WorldOK
  <2>2. CASE \E t \in Tables, i \in Ids : Delete(t, i)
    <3>1. PICK t \in Tables, i \in Ids : Delete(t, i)
      BY <2>2
    <3>2. clock' = clock + 1 /\ clock + 1 \in Stamps
      BY <1>0, <3>1 DEF Delete, WorldOK, Stamps, CacheAssumption
    <3>3. QED  BY <1>0, <3>1, <3>2 DEF Delete, Others, WorldOK
  <2>3. CASE \E x \in open : Commit(x)
    <3>1. PICK x \in open : Commit(x)
      BY <2>3
    <3>2. x.table \in Tables /\ x.id \in Ids /\ x.stamp \in Stamps
      BY <1>0 DEF WorldOK
    <3> DEFINE new == [id |-> x.id, stamp |-> x.stamp, late |-> x.stamp < newest[x.table]]
    <3>3. new \in CacheRows
      BY <1>0, <3>2 DEF CacheRows
    <3>4. /\ source' = [source EXCEPT ![x.table] = Others(x.table, x.id) \cup {new}]
          /\ newest' = [newest EXCEPT ![x.table] = IF @ < x.stamp THEN x.stamp ELSE @]
          /\ open' = open \ {x} /\ UNCHANGED clock
      BY <3>1 DEF Commit
    <3>5. newest' \in [Tables -> Stamps \cup {0}]
      BY <1>0, <3>2, <3>4 DEF WorldOK
    <3>6. /\ Others(x.table, x.id) \subseteq source[x.table]
          /\ \A r \in Others(x.table, x.id) : r.id # x.id
      BY DEF Others
    <3>7. source' \in [Tables -> SUBSET CacheRows]
      BY <1>0, <3>2, <3>3, <3>4, <3>6 DEF WorldOK
    <3>8. ASSUME NEW t \in Tables, NEW r \in source'[t], NEW s \in source'[t], r.id = s.id
          PROVE  r = s
      <4>1. CASE t # x.table
        BY <1>0, <3>4, <3>8, <4>1 DEF WorldOK
      <4>2. CASE t = x.table
        <5>1. source'[t] = Others(t, x.id) \cup {new}
          BY <1>0, <3>2, <3>4, <4>2 DEF WorldOK
        <5>2. new.id = x.id
          OBVIOUS
        <5> HIDE DEF new
        <5>3. QED  BY <1>0, <3>6, <3>8, <4>2, <5>1, <5>2 DEF WorldOK
      <4>3. QED  BY <4>1, <4>2
    <3>9. QED  BY <1>0, <3>4, <3>5, <3>7, <3>8 DEF WorldOK
  <2>4. QED  BY <2>1, <2>2, <2>3 DEF Writer
<1>3. QED  BY <1>1, <1>2 DEF CacheTypeOK, WorldOK, ProcOK, CacheOK, SyncOK, RestOK

\* A step that changes one job, or gives a process new ones.
LEMMA JobStep ==
    ASSUME SyncOK, NEW p \in Procs, NEW t \in Tables, NEW j \in Jobs,
           job' = [job EXCEPT ![p][t] = j]
    PROVE  job' \in [Procs -> [Tables -> Jobs]]
<1>1. [job[p] EXCEPT ![t] = j] \in [Tables -> Jobs]
  BY DEF SyncOK
<1>2. job' = [job EXCEPT ![p] = [job[p] EXCEPT ![t] = j]]
  BY DEF SyncOK
<1>3. QED  BY <1>1, <1>2 DEF SyncOK
LEMMA NewJobsType ==
    ASSUME SyncOK, NEW p \in Procs, job' = [job EXCEPT ![p] = NewJobs]
    PROVE  job' \in [Procs -> [Tables -> Jobs]]
<1>1. NewJobs \in [Tables -> Jobs]
  BY DEF NewJobs, NoJob, Jobs
<1>2. QED  BY <1>1 DEF SyncOK

\* A step of a process that leaves the tables alone.
LEMMA TypeParts ==
    ASSUME CacheTypeOK, UNCHANGED world, ProcOK', CacheOK', SyncOK', RestOK'
    PROVE  CacheTypeOK'
BY DEF CacheTypeOK, world, WorldOK, ProcOK, CacheOK, SyncOK, RestOK

\* A publication writes what the store holds.
LEMMA TypePublish ==
    ASSUME CacheAssumption, CacheTypeOK, NEW p \in Procs, NEW force, NEW s, Sound(s),
           Publish(p, force, s), UNCHANGED <<cache, ownership, lock>>
    PROVE  ProcOK' /\ CacheOK' /\ RestOK'
<1>0. ProcOK /\ CacheOK /\ RestOK
  BY Parts
<1>1. Sound([s EXCEPT !.dirty = FALSE])
  BY DEF Sound, Proc
<1>2. ProcOK'
  BY <1>0, <1>1, ProcStep DEF Publish, Published, PublishFailed
<1>3. snapshot' = snapshot \/ snapshot' = [by |-> p, rows |-> cache[p]]
  BY DEF Publish, Published
<1>4. CacheOK'
  BY <1>0, <1>3 DEF CacheOK
<1>5. CacheFault \/ UNCHANGED losses
  BY DEF Publish
<1>6. RestOK'
  BY <1>0, <1>5, FaultType DEF RestOK
<1>7. QED  BY <1>2, <1>4, <1>6

LEMMA TypeEnd ==
    ASSUME CacheAssumption, CacheTypeOK, NEW p \in Procs, End(p),
           CacheFault \/ UNCHANGED losses
    PROVE  CacheTypeOK'
<1> USE DEF world
<1>0. ProcOK /\ CacheOK /\ SyncOK /\ RestOK
  BY Parts
<1>1. Sound([NewProc EXCEPT !.main = "gone"])
  BY DEF Sound, NewProc, Proc
<1>2. ProcOK'
  BY <1>0, <1>1, ProcStep DEF End
<1>3. CacheOK' /\ SyncOK'
  BY <1>0 DEF End, CacheOK, SyncOK, Empty, NoJob, Jobs
<1>4. RestOK'
  BY <1>0, FaultType DEF End, RestOK
<1>5. UNCHANGED world
  BY DEF End
<1>6. QED  BY <1>2, <1>3, <1>4, <1>5, TypeParts

LEMMA TypeMain ==
    ASSUME CacheAssumption, CacheTypeOK, NEW p \in Procs, Main(p) PROVE CacheTypeOK'
<1> USE DEF world, coordination, sync
<1>0. /\ ProcOK /\ CacheOK /\ SyncOK /\ RestOK /\ Sound(proc[p]) /\ proc[p] \in Proc
      /\ ownership.gen \in Nat
  BY Parts DEF ProcOK, RestOK, Sound
<1>1. CASE TryClaim(p)
  <2> DEFINE s(m, g) == [proc[p] EXCEPT !.main = m, !.gen = g]
             gen == IF ownership.owner = NoProc \/ ~ownership.valid
                    THEN ownership.gen + 1 ELSE ownership.gen
  <2>1. \A m \in {"owner", "reader"}, g \in Nat : Sound(s(m, g))
    BY <1>0 DEF Sound, Proc
  <2>2. gen \in Nat
    BY <1>0
  <2>3. \E m \in {"owner", "reader"} : proc' = [proc EXCEPT ![p].main = m, ![p].gen = gen]
    BY <1>1 DEF TryClaim
  <2>4. \A m, g : [proc EXCEPT ![p].main = m, ![p].gen = g] = [proc EXCEPT ![p] = s(m, g)]
    BY <1>0 DEF ProcOK, Proc
  <2>5. \E m \in {"owner", "reader"} : proc' = [proc EXCEPT ![p] = s(m, gen)]
    <3> HIDE DEF s, gen
    <3>1. QED  BY <2>3, <2>4
  <2>6. ProcOK'
    <3> HIDE DEF s, gen
    <3>1. QED  BY <1>0, <2>1, <2>2, <2>5, ProcStep
  <2>7. ownership' = ownership \/ ownership' = [owner |-> p, gen |-> gen, valid |-> TRUE]
    BY <1>1 DEF TryClaim
  <2>8. RestOK'
    <3> HIDE DEF gen
    <3>1. QED  BY <1>0, <1>1, <2>2, <2>7 DEF TryClaim, RestOK
  <2>9. CacheOK' /\ SyncOK' /\ UNCHANGED world
    BY <1>0, <1>1 DEF TryClaim, CacheOK, SyncOK
  <2>10. QED  BY <2>6, <2>8, <2>9, TypeParts
<1>2. CASE Adopt(p)
  <2>1. Sound([Opened(proc[p]) EXCEPT !.main = "run"])
    BY <1>0 DEF Opened, Sound, Proc
  <2>2. ProcOK'
    BY <1>0, <1>2, <2>1, ProcStep DEF Adopt
  <2>3. CacheOK' /\ SyncOK' /\ RestOK' /\ UNCHANGED world
    BY <1>0, <1>2 DEF Adopt, CacheOK, SyncOK, RestOK
  <2>4. QED  BY <2>2, <2>3, TypeParts
<1>3. CASE Start(p)
  <2>1. Sound([Opened(Started(proc[p])) EXCEPT !.main = "run"])
    BY <1>0 DEF Opened, Started, Sound, Proc
  <2>2. ProcOK'
    BY <1>0, <1>3, <2>1, ProcStep DEF Start
  <2>3. CacheOK' /\ SyncOK' /\ RestOK' /\ UNCHANGED world
    BY <1>0, <1>3 DEF Start, CacheOK, SyncOK, RestOK, NoSnapshot, Empty, NewJobs, NoJob, Jobs
  <2>4. QED  BY <2>2, <2>3, TypeParts
<1>4. CASE FinalPublish(p)
  <2> DEFINE s == [Told(proc[p]) EXCEPT !.main = "join"]
  <2>1. Sound(s)
    BY <1>0 DEF Told, Sound, Proc
  <2>2. Publish(p, FALSE, s) /\ UNCHANGED <<cache, ownership, lock>>
    BY <1>4 DEF FinalPublish
  <2>3. ProcOK' /\ CacheOK' /\ RestOK'
    <3> HIDE DEF s
    <3>1. QED  BY <2>1, <2>2, TypePublish
  <2>4. SyncOK' /\ UNCHANGED world
    BY <1>0, <1>4 DEF FinalPublish, SyncOK
  <2>5. QED  BY <2>3, <2>4, TypeParts
<1>5. CASE Close(p)
  <2>1. Sound([Closed(proc[p]) EXCEPT !.main = "closed"])
    BY <1>0 DEF Closed, Sound, Proc
  <2>2. ProcOK'
    BY <1>0, <1>5, <2>1, ProcStep DEF Close
  <2>3. CacheOK' /\ SyncOK' /\ UNCHANGED world
    BY <1>0, <1>5 DEF Close, CacheOK, SyncOK, Empty
  <2>4. RestOK'
    BY <1>0, <1>5, FaultType DEF Close, RestOK, NoClaim
  <2>5. QED  BY <2>2, <2>3, <2>4, TypeParts
<1>6. CASE Exit(p)
  BY <1>6, TypeEnd DEF Exit
<1>7. QED  BY <1>1, <1>2, <1>3, <1>4, <1>5, <1>6 DEF Main

LEMMA TypeWorker ==
    ASSUME CacheAssumption, CacheTypeOK, NEW p \in Procs, Worker(p) \/ FenceFails(p)
    PROVE  CacheTypeOK'
<1> USE DEF world, coordination, sync
<1>0. /\ ProcOK /\ CacheOK /\ SyncOK /\ RestOK /\ Sound(proc[p]) /\ proc[p] \in Proc
  BY Parts DEF ProcOK, Sound
<1>a. \A w \in {"publish", "fence", "poll"} : Sound([proc[p] EXCEPT !.worker = w])
  BY <1>0 DEF Sound, Proc
<1>b. Sound([proc[p] EXCEPT !.worker = "done", !.running = FALSE])
  BY <1>0 DEF Sound, Proc
<1>c. Stopped(p) = [proc EXCEPT ![p] = [proc[p] EXCEPT !.worker = "done", !.running = FALSE]]
  BY <1>0 DEF Stopped, ProcOK, Proc
<1>1. CASE WorkerPublishes(p)
  <2> DEFINE s == [[proc[p] EXCEPT !.worker = "fence"] EXCEPT !.first = FALSE]
  <2>1. Sound(s)
    BY <1>0 DEF Sound, Proc
  <2>2. Publish(p, proc[p].first, s) /\ UNCHANGED <<cache, ownership, lock>>
    BY <1>1 DEF WorkerPublishes, Callback
  <2>3. ProcOK' /\ CacheOK' /\ RestOK'
    <3> HIDE DEF s
    <3>1. QED  BY <2>1, <2>2, TypePublish
  <2>4. SyncOK' /\ UNCHANGED world
    BY <1>0, <1>1 DEF WorkerPublishes, SyncOK
  <2>5. QED  BY <2>3, <2>4, TypeParts
<1>2. CASE ~WorkerPublishes(p)
  <2>1. ProcOK'
    <3>1. \/ \E w \in {"publish", "fence", "poll"} : proc' = [proc EXCEPT ![p].worker = w]
          \/ proc' = Stopped(p)
      BY <1>2 DEF Worker, Loaded, EnterFence, LeaveFence, WorkerEnds, FenceFails
    <3>2. \A w : [proc EXCEPT ![p].worker = w] = [proc EXCEPT ![p] = [proc[p] EXCEPT !.worker = w]]
      BY <1>0 DEF ProcOK, Proc
    <3>3. \E s : Sound(s) /\ proc' = [proc EXCEPT ![p] = s]
      BY <3>1, <3>2, <1>a, <1>b, <1>c
    <3>4. QED  BY <1>0, <3>3, ProcStep
  <2>2. CacheOK' /\ UNCHANGED world
    BY <1>0, <1>2 DEF Worker, Loaded, EnterFence, LeaveFence, WorkerEnds, FenceFails, CacheOK
  <2>3. SyncOK'
    <3>1. UNCHANGED <<cursor, resync, doubtful>>
      BY <1>2 DEF Worker, Loaded, EnterFence, LeaveFence, WorkerEnds, FenceFails
    <3>2. UNCHANGED job \/ job' = [job EXCEPT ![p] = NewJobs]
      BY <1>2 DEF Worker, Loaded, EnterFence, LeaveFence, WorkerEnds, FenceFails
    <3>3. QED  BY <1>0, <3>1, <3>2, NewJobsType DEF SyncOK
  <2>4. RestOK'
    BY <1>0, <1>2, FaultType
       DEF Worker, Loaded, EnterFence, LeaveFence, WorkerEnds, FenceFails, RestOK
  <2>5. QED  BY <2>1, <2>2, <2>3, <2>4, TypeParts
<1>3. QED  BY <1>1, <1>2

\* Where the cursor moves to is a stamp, or nothing.
LEMMA CursorType ==
    ASSUME CacheAssumption, CacheTypeOK, NEW p \in Procs, NEW t \in Tables
    PROVE  CursorAfter(p, t) \in Stamps \cup {0}
<1>1. job[p][t].read \in SUBSET Versions
  BY DEF CacheTypeOK, Jobs
<1>2. Last(job[p][t]) \in Stamps \cup {0}
  BY <1>1, LastIsGreatest
<1>3. clock \in Stamps /\ cursor[p][t] \in Stamps \cup {0}
  BY DEF CacheTypeOK
<1>4. QED  BY <1>2, <1>3 DEF CursorAfter

LEMMA TypeJob ==
    ASSUME CacheAssumption, CacheTypeOK, NEW p \in Procs, NEW t \in Tables,
           Job(p, t) \/ FetchFails(p, t)
    PROVE  CacheTypeOK'
<1> USE DEF world, coordination
<1>0. /\ ProcOK /\ CacheOK /\ SyncOK /\ RestOK /\ Sound(proc[p]) /\ proc[p] \in Proc
      /\ WorldOK /\ job[p][t] \in Jobs
  BY Parts DEF ProcOK, SyncOK, Sound
<1>1. CASE Fetch(p, t)
  <2>1. \A all : RowsToRead(p, t, all) \subseteq source[t]
    BY DEF RowsToRead
  <2>2. \A r \in source[t] : Version(r) \in Versions
    BY <1>0 DEF WorldOK, CacheRows, Version, Versions
  <2>3. PICK j \in Jobs : job' = [job EXCEPT ![p][t] = j]
    <3>1. \A all : {Version(r) : r \in RowsToRead(p, t, all)} \in SUBSET Versions
      BY <2>1, <2>2
    <3>2. \A all, kind : kind \in {"delta", "all", "replace"} =>
            [at |-> "store", read |-> {Version(r) : r \in RowsToRead(p, t, all)},
             kind |-> kind] \in Jobs
      BY <3>1 DEF Jobs
    <3>3. \E all, full :
            job' = [job EXCEPT ![p][t] =
              [at |-> "store", read |-> {Version(r) : r \in RowsToRead(p, t, all)},
               kind |-> IF full THEN "replace" ELSE IF all THEN "all" ELSE "delta"]]
      BY <1>1 DEF Fetch
    <3>4. QED  BY <3>2, <3>3
  <2>a. job' \in [Procs -> [Tables -> Jobs]]
    BY <1>0, <2>3, JobStep
  <2>4. resync' \in [Procs -> Nat]
    <3>1. resync[p] \in Nat /\ resync[p] + 1 \in Nat
      BY <1>0 DEF SyncOK
    <3>2. PICK n \in Nat : resync' = [resync EXCEPT ![p] = n]
      BY <1>1, <3>1 DEF Fetch
    <3>3. QED  BY <1>0, <3>2 DEF SyncOK
  <2>5. SyncOK'
    BY <1>0, <1>1, <2>a, <2>4 DEF Fetch, SyncOK
  <2>6. ProcOK' /\ CacheOK' /\ RestOK' /\ UNCHANGED world
    BY <1>0, <1>1 DEF Fetch, ProcOK, CacheOK, RestOK
  <2>7. QED  BY <2>5, <2>6, TypeParts
<1>2. CASE FetchFails(p, t)
  <2>1. PICK j \in Jobs : job' = [job EXCEPT ![p][t] = j]
    <3>1. \A at \in {"done", "lost"} : [job[p][t] EXCEPT !.at = at] \in Jobs
      BY <1>0 DEF Jobs
    <3>2. PICK at \in {"done", "lost"} : job' = [job EXCEPT ![p][t].at = at]
      BY <1>2 DEF FetchFails
    <3>3. [job EXCEPT ![p][t].at = at] = [job EXCEPT ![p][t] = [job[p][t] EXCEPT !.at = at]]
      BY <1>0 DEF SyncOK
    <3>4. QED  BY <3>1, <3>2, <3>3
  <2>2. cursor' = cursor \/ cursor' = [cursor EXCEPT ![p] = [u \in Tables |-> 0]]
    BY <1>2 DEF FetchFails
  <2>3. SyncOK'
    <3>1. job' \in [Procs -> [Tables -> Jobs]]
      BY <1>0, <2>1, JobStep
    <3>2. cursor' \in [Procs -> [Tables -> Stamps \cup {0}]]
      BY <1>0, <2>2 DEF SyncOK
    <3>3. QED  BY <1>0, <1>2, <3>1, <3>2 DEF FetchFails, SyncOK
  <2>4. RestOK'
    BY <1>0, <1>2, FaultType DEF FetchFails, RestOK
  <2>5. ProcOK' /\ CacheOK' /\ UNCHANGED world
    BY <1>0, <1>2 DEF FetchFails, ProcOK, CacheOK
  <2>6. QED  BY <2>3, <2>4, <2>5, TypeParts
<1>3. CASE Store(p, t)
  <2>1. Sound(Changed(proc[p]))
    BY <1>0 DEF Changed, Opened, Sound, Proc
  <2>2. proc' = proc \/ proc' = [proc EXCEPT ![p] = Changed(proc[p])]
    BY <1>3 DEF Store
  <2>3. ProcOK'
    BY <1>0, <2>1, <2>2, ProcStep DEF ProcOK
  <2>4. Stored(p, t) \subseteq Versions
    BY <1>0 DEF Stored, Replaced, Upserted, CacheOK, Jobs
  <2>5. CacheOK'
    BY <1>0, <1>3, <2>4 DEF Store, CacheOK
  <2>6. [NoJob EXCEPT !.at = "done"] \in Jobs
    BY DEF NoJob, Jobs
  <2>7. job' \in [Procs -> [Tables -> Jobs]]
    BY <1>0, <1>3, <2>6 DEF Store, SyncOK
  <2>8. cursor' \in [Procs -> [Tables -> Stamps \cup {0}]]
    BY <1>0, <1>3, CursorType DEF Store, SyncOK
  <2>9. doubtful' \in [Procs -> SUBSET Tables]
    <3>1. \A stored : Doubts(p, t, stored) \subseteq Tables
      BY <1>0 DEF Doubts, SyncOK
    <3>2. PICK stored \in BOOLEAN : doubtful' = [doubtful EXCEPT ![p] = Doubts(p, t, stored)]
      BY <1>3 DEF Store
    <3>3. QED  BY <1>0, <3>1, <3>2 DEF SyncOK
  <2>10. SyncOK'
    BY <1>0, <1>3, <2>7, <2>8, <2>9 DEF Store, SyncOK
  <2>11. RestOK'
    BY <1>0, <1>3, FaultType DEF Store, RestOK
  <2>12. UNCHANGED world
    BY <1>3 DEF Store
  <2>13. QED  BY <2>3, <2>5, <2>10, <2>11, <2>12, TypeParts
<1>4. QED  BY <1>1, <1>2, <1>3 DEF Job

LEMMA TypeNext ==
    ASSUME CacheAssumption, CacheTypeOK, [CacheNext]_cacheVars PROVE CacheTypeOK'
<1>1. CASE Writer
  BY <1>1, TypeWriter
<1>2. CASE Expire
  BY <1>2 DEF Expire, world, sync, CacheTypeOK
<1>3. CASE \E p \in Procs : Main(p)
  BY <1>3, TypeMain
<1>4. CASE \E p \in Procs : Worker(p) \/ FenceFails(p)
  BY <1>4, TypeWorker
<1>5. CASE \E p \in Procs : ProcessDies(p)
  BY <1>5, TypeEnd DEF ProcessDies
<1>6. CASE \E p \in Procs, t \in Tables : Job(p, t) \/ FetchFails(p, t)
  BY <1>6, TypeJob
<1>7. CASE UNCHANGED cacheVars
  BY <1>7 DEF cacheVars, world, coordination, sync, CacheTypeOK
<1>8. QED  BY <1>1, <1>2, <1>3, <1>4, <1>5, <1>6, <1>7 DEF CacheNext

\* The variables keep their types; in particular a table of PostgreSQL has one
\* committed row per key, and a worker that was told to run exists.
THEOREM TypeCorrect ==
    ASSUME CacheAssumption PROVE CacheSpec => []CacheTypeOK
<1>1. CacheInit => CacheTypeOK
  BY TypeInit
<1>2. CacheTypeOK /\ [CacheNext]_cacheVars => CacheTypeOK'
  BY TypeNext
<1>3. QED  BY <1>1, <1>2, PTL DEF CacheSpec

-----------------------------------------------------------------------------
\* The part of the types that the proofs need.
Typed ==
    /\ proc \in [Procs -> Proc]
    /\ ownership \in [owner : Procs \cup {NoProc}, gen : Nat, valid : BOOLEAN]
    /\ DOMAIN cache = Procs

\* A worker that polls holds the lock, and the lock is held by one that polls.
LockIsHeld ==
    /\ \A p \in Procs : proc[p].worker = "poll" => lock = p
    /\ lock # NoProc => lock \in Procs /\ proc[lock].worker = "poll"

\* Before a gateway starts its synchronisation there is no worker.
Idle == {"new", "owner", "reader", "gone"}
WorkersAreStarted ==
    \A p \in Procs : proc[p].main \in Idle => proc[p].worker = "none"

FenceInv == Typed /\ LockIsHeld /\ WorkersAreStarted /\ FenceExcludes

-----------------------------------------------------------------------------
\* A publication changes of the process only what its caller changes and dirty.
LEMMA PublishStep ==
    ASSUME NEW p \in Procs, NEW force, NEW s \in Proc, Typed, Publish(p, force, s)
    PROVE  \E d \in BOOLEAN : proc' = [proc EXCEPT ![p] = [s EXCEPT !.dirty = d]]
<1>0. s.dirty \in BOOLEAN /\ [s EXCEPT !.dirty = s.dirty] = s
  BY DEF Proc
<1>1. CASE proc' = [proc EXCEPT ![p] = s]
  BY <1>0, <1>1
<1>2. CASE Published(p, s)
  BY <1>2 DEF Published
<1>3. QED  BY <1>1, <1>2 DEF Publish, PublishFailed

\* A step that changes one process, which did not and does not poll, and no
\* claim and no lock, keeps the invariant.
LEMMA OutsideStep ==
    ASSUME FenceInv, NEW p \in Procs, NEW s \in Proc,
           proc' = [proc EXCEPT ![p] = s],
           proc[p].worker # "poll", s.worker # "poll",
           s.main \in Idle => s.worker = "none",
           UNCHANGED <<ownership, lock>>, DOMAIN cache' = Procs
    PROVE  FenceInv'
BY DEF FenceInv, Typed, LockIsHeld, WorkersAreStarted, FenceExcludes

\* The same of a process that keeps its worker and its generation.
LEMMA KeepStep ==
    ASSUME FenceInv, NEW p \in Procs, NEW s \in Proc,
           proc' = [proc EXCEPT ![p] = s],
           s.worker = proc[p].worker, s.gen = proc[p].gen,
           s.main \in Idle => s.worker = "none",
           UNCHANGED <<ownership, lock>>, DOMAIN cache' = Procs
    PROVE  FenceInv'
BY DEF FenceInv, Typed, LockIsHeld, WorkersAreStarted, FenceExcludes

\* The end of a process frees the lock that it holds.
LEMMA EndsLock ==
    ASSUME FenceInv, NEW p \in Procs, End(p) PROVE FenceInv'
<1> USE DEF world
<1> DEFINE s == [NewProc EXCEPT !.main = "gone"]
<1>1. s \in Proc /\ s.worker = "none" /\ s.main = "gone"
  BY DEF NewProc, Proc
<1>2. /\ proc' = [proc EXCEPT ![p] = s] /\ UNCHANGED ownership
      /\ lock' = (IF lock = p THEN NoProc ELSE lock)
      /\ DOMAIN cache' = DOMAIN cache
  BY DEF End
<1>3. Typed' /\ WorkersAreStarted'
  BY <1>1, <1>2 DEF FenceInv, Typed, WorkersAreStarted
<1>4. LockIsHeld' /\ FenceExcludes'
  <2>1. CASE lock = p
    BY <1>1, <1>2, <2>1 DEF FenceInv, Typed, LockIsHeld, FenceExcludes
  <2>2. CASE lock # p
    BY <1>1, <1>2, <2>2 DEF FenceInv, Typed, LockIsHeld, FenceExcludes
  <2>3. QED  BY <2>1, <2>2
<1>5. QED  BY <1>3, <1>4 DEF FenceInv

\* At the beginning nobody owns anything.
LEMMA FenceInit == ASSUME CacheAssumption, CacheInit PROVE FenceInv
BY DEF CacheAssumption, CacheInit, FenceInv, Typed, LockIsHeld, WorkersAreStarted,
       FenceExcludes, NoClaim, NewProc, Proc

\* The steps of a main thread.
LEMMA FenceMain ==
    ASSUME CacheAssumption, FenceInv, NEW p \in Procs, Main(p)
    PROVE  FenceInv'
<1> USE DEF world, coordination, sync
<1>0. /\ proc[p] \in Proc /\ DOMAIN cache = Procs
      /\ proc[p].main \in Idle => proc[p].worker = "none"
  BY DEF FenceInv, Typed, WorkersAreStarted
<1>1. CASE TryClaim(p)
  <2> DEFINE s(m, g) == [proc[p] EXCEPT !.main = m, !.gen = g]
  <2>0. \A m, g : [proc EXCEPT ![p].main = m, ![p].gen = g] = [proc EXCEPT ![p] = s(m, g)]
    BY <1>0 DEF FenceInv, Typed, Proc
  <2>a. ownership.gen \in Nat
    BY DEF FenceInv, Typed
  <2> DEFINE owns == ownership.owner = NoProc \/ ~ownership.valid
             newGen == IF owns THEN ownership.gen + 1 ELSE ownership.gen
             newMain == IF owns THEN "owner" ELSE "reader"
  <2>1. PICK m \in {"owner", "reader"}, g \in Nat : proc' = [proc EXCEPT ![p] = s(m, g)]
    <3>1. newMain \in {"owner", "reader"} /\ newGen \in Nat
      BY <2>a
    <3>2. proc' = [proc EXCEPT ![p].main = newMain, ![p].gen = newGen]
      BY <1>1 DEF TryClaim
    <3>3. proc' = [proc EXCEPT ![p] = s(newMain, newGen)]
      BY <2>0, <3>2
    <3>4. QED  BY <3>1, <3>3
  <2>2. /\ s(m, g) \in Proc /\ s(m, g).worker = proc[p].worker
        /\ s(m, g).main \in Idle /\ proc[p].worker = "none"
    BY <1>0, <1>1 DEF TryClaim, Idle, Proc
  <2>3. lock = NoProc /\ UNCHANGED lock /\ DOMAIN cache' = Procs
    BY <1>0, <1>1 DEF TryClaim, LockFree
  <2>4. ownership' \in [owner : Procs \cup {NoProc}, gen : Nat, valid : BOOLEAN]
    BY <1>1 DEF TryClaim, FenceInv, Typed
  <2>5. QED
    BY <2>1, <2>2, <2>3, <2>4
       DEF FenceInv, Typed, LockIsHeld, WorkersAreStarted, FenceExcludes
<1>2. CASE Adopt(p)
  <2> DEFINE s == [Opened(proc[p]) EXCEPT !.main = "run"]
  <2>1. s \in Proc /\ s.worker = proc[p].worker /\ s.gen = proc[p].gen /\ s.main = "run"
    BY <1>0 DEF Opened, Proc
  <2>2. /\ proc' = [proc EXCEPT ![p] = s]
        /\ UNCHANGED <<ownership, lock>> /\ DOMAIN cache' = Procs
    BY <1>0, <1>2 DEF Adopt
  <2>3. QED  BY <2>1, <2>2, KeepStep DEF Idle
<1>3. CASE Start(p)
  <2> DEFINE s == [Opened(Started(proc[p])) EXCEPT !.main = "run"]
  <2>1. s \in Proc /\ s.worker = "load" /\ s.main = "run"
    BY <1>0 DEF Opened, Started, Proc
  <2>2. /\ proc' = [proc EXCEPT ![p] = s] /\ UNCHANGED <<ownership, lock>>
        /\ DOMAIN cache' = Procs /\ proc[p].worker = "none"
    BY <1>0, <1>3 DEF Start, Idle
  <2>3. QED  BY <2>1, <2>2, OutsideStep DEF Idle
<1>4. CASE FinalPublish(p)
  <2> DEFINE s == [Told(proc[p]) EXCEPT !.main = "join"]
  <2>1. s \in Proc /\ s.worker = proc[p].worker /\ s.gen = proc[p].gen /\ s.main = "join"
    BY <1>0 DEF Told, Proc
  <2>2. /\ Publish(p, FALSE, s) /\ UNCHANGED <<ownership, lock>> /\ DOMAIN cache' = Procs
    BY <1>0, <1>4 DEF FinalPublish
  <2>3. PICK d \in BOOLEAN : proc' = [proc EXCEPT ![p] = [s EXCEPT !.dirty = d]]
    BY <2>1, <2>2, PublishStep DEF FenceInv
  <2> DEFINE r == [s EXCEPT !.dirty = d]
  <2>4. r \in Proc /\ r.worker = proc[p].worker /\ r.gen = proc[p].gen /\ r.main = "join"
    BY <2>1 DEF Proc
  <2>5. QED  BY <2>2, <2>3, <2>4, KeepStep DEF Idle
<1>5. CASE Close(p)
  <2> DEFINE s == [Closed(proc[p]) EXCEPT !.main = "closed"]
  <2>1. s \in Proc /\ s.worker = proc[p].worker /\ s.gen = proc[p].gen /\ s.main = "closed"
    BY <1>0 DEF Closed, Proc
  <2>2. /\ proc' = [proc EXCEPT ![p] = s] /\ DOMAIN cache' = Procs
        /\ UNCHANGED lock /\ (ownership' = ownership \/ ownership' = NoClaim)
    BY <1>0, <1>5 DEF Close
  <2>3. CASE ownership' = ownership
    BY <2>1, <2>2, <2>3, KeepStep DEF Idle
  <2>4. CASE ownership' = NoClaim
    <3>1. Typed' /\ LockIsHeld' /\ WorkersAreStarted'
      BY <2>1, <2>2, <2>4 DEF FenceInv, Typed, LockIsHeld, WorkersAreStarted, NoClaim, Idle
    <3>2. FenceExcludes'
      BY <3>1, <2>2, <2>4 DEF LockIsHeld, FenceExcludes, NoClaim
    <3>3. QED  BY <3>1, <3>2 DEF FenceInv
  <2>5. QED  BY <2>2, <2>3, <2>4
<1>6. CASE Exit(p)
  BY <1>6, EndsLock DEF Exit
<1>7. QED  BY <1>1, <1>2, <1>3, <1>4, <1>5, <1>6 DEF Main

\* The steps of a worker.
LEMMA FenceWorker ==
    ASSUME CacheAssumption, FenceInv, NEW p \in Procs, Worker(p) \/ FenceFails(p)
    PROVE  FenceInv'
<1> USE DEF world, coordination, sync
<1>0. proc[p] \in Proc /\ DOMAIN cache = Procs /\ proc \in [Procs -> Proc]
  BY DEF FenceInv, Typed
<1> DEFINE To(w) == [proc[p] EXCEPT !.worker = w]
           over == [proc[p] EXCEPT !.worker = "done", !.running = FALSE]
<1>a. \A w \in {"publish", "fence", "poll"} :
        To(w) \in Proc /\ To(w).worker = w /\ To(w).main = proc[p].main
                       /\ To(w).gen = proc[p].gen
  BY <1>0 DEF Proc
<1>b. over \in Proc /\ over.worker = "done" /\ over.main = proc[p].main
  BY <1>0 DEF Proc
<1>c. Stopped(p) = [proc EXCEPT ![p] = over]
  BY <1>0 DEF Stopped, Proc
<1>d. proc[p].worker # "none" => proc[p].main \notin Idle
  BY DEF FenceInv, WorkersAreStarted
<1>1. CASE Loaded(p)
  <2>1. /\ proc' = [proc EXCEPT ![p] = To("publish")] /\ proc[p].worker = "load"
        /\ UNCHANGED <<ownership, lock>> /\ DOMAIN cache' = Procs
    BY <1>0, <1>1 DEF Loaded
  <2>2. QED  BY <2>1, <1>a, <1>d, OutsideStep
<1>2. CASE WorkerPublishes(p)
  <2> DEFINE s == [To("fence") EXCEPT !.first = FALSE]
  <2>1. s \in Proc /\ s.worker = "fence" /\ s.main = proc[p].main
    BY <1>0 DEF Proc
  <2>2. /\ Publish(p, proc[p].first, s)
        /\ proc[p].worker = "publish"
        /\ UNCHANGED <<ownership, lock>> /\ DOMAIN cache' = Procs
    BY <1>0, <1>2 DEF WorkerPublishes, Callback
  <2>3. PICK d \in BOOLEAN : proc' = [proc EXCEPT ![p] = [s EXCEPT !.dirty = d]]
    <3> HIDE DEF s
    <3>1. QED  BY <2>1, <2>2, PublishStep DEF FenceInv
  <2> DEFINE r == [s EXCEPT !.dirty = d]
  <2>4. r \in Proc /\ r.worker = "fence" /\ r.main = proc[p].main
    BY <2>1 DEF Proc
  <2>5. QED  BY <2>2, <2>3, <2>4, <1>d, OutsideStep
<1>3. CASE EnterFence(p)
  <2>1. /\ proc[p].worker = "fence" /\ lock = NoProc
        /\ UNCHANGED ownership /\ DOMAIN cache' = Procs
    BY <1>0, <1>3 DEF EnterFence, LockFree
  <2>2. CASE /\ HoldsClaim(p) /\ lock' = p
             /\ proc' = [proc EXCEPT ![p] = To("poll")]
    <3>1. Typed' /\ WorkersAreStarted'
      BY <1>0, <1>a, <1>d, <2>1, <2>2 DEF FenceInv, Typed, WorkersAreStarted
    <3>2. \A q \in Procs : proc[q].worker # "poll"
      BY <2>1 DEF CacheAssumption, FenceInv, LockIsHeld
    <3>3. LockIsHeld' /\ FenceExcludes'
      BY <1>0, <1>a, <2>1, <2>2, <3>2 DEF LockIsHeld, FenceExcludes, HoldsClaim
    <3>4. QED  BY <3>1, <3>3 DEF FenceInv
  <2>3. CASE proc' = Stopped(p) /\ UNCHANGED lock
    BY <1>b, <1>c, <1>d, <2>1, <2>3, OutsideStep
  <2>4. QED  BY <1>0, <1>3, <2>2, <2>3 DEF EnterFence, Proc
<1>4. CASE LeaveFence(p)
  <2>1. /\ proc[p].worker = "poll" /\ lock' = NoProc
        /\ UNCHANGED ownership /\ DOMAIN cache' = Procs
    BY <1>0, <1>4 DEF LeaveFence
  <2>2. PICK s \in Proc : /\ proc' = [proc EXCEPT ![p] = s] /\ s.worker # "poll"
                          /\ s.main = proc[p].main
    BY <1>0, <1>4, <1>a, <1>b, <1>c DEF LeaveFence
  <2>3. QED
    BY <2>1, <2>2, <1>d DEF FenceInv, Typed, LockIsHeld, WorkersAreStarted, FenceExcludes
<1>5. CASE WorkerEnds(p)
  <2>1. /\ proc' = [proc EXCEPT ![p] = over] /\ proc[p].worker = "fence"
        /\ UNCHANGED <<ownership, lock>> /\ DOMAIN cache' = Procs
    BY <1>0, <1>5, <1>c DEF WorkerEnds
  <2>2. QED  BY <2>1, <1>b, <1>d, OutsideStep
<1>6. CASE FenceFails(p)
  <2>1. /\ proc' = [proc EXCEPT ![p] = over] /\ proc[p].worker \in {"fence", "poll"}
        /\ lock' = (IF lock = p THEN NoProc ELSE lock)
        /\ UNCHANGED ownership /\ DOMAIN cache' = Procs
    BY <1>0, <1>6, <1>c DEF FenceFails
  <2>2. CASE lock = p
    BY <2>1, <2>2, <1>b, <1>d DEF FenceInv, Typed, LockIsHeld, WorkersAreStarted, FenceExcludes
  <2>3. CASE lock # p
    BY <2>1, <2>3, <1>b, <1>d, OutsideStep DEF FenceInv, LockIsHeld
  <2>4. QED  BY <2>2, <2>3
<1>7. QED  BY <1>1, <1>2, <1>3, <1>4, <1>5, <1>6 DEF Worker

\* The steps of the jobs change no claim and no lock, and of the process at most
\* that its store is open and changed.
LEMMA FenceJob ==
    ASSUME FenceInv, NEW p \in Procs, NEW t \in Tables, Job(p, t) \/ FetchFails(p, t)
    PROVE  FenceInv'
<1> USE DEF world, coordination
<1>0. /\ proc[p] \in Proc /\ DOMAIN cache = Procs
      /\ proc[p].main \in Idle => proc[p].worker = "none"
  BY DEF FenceInv, Typed, WorkersAreStarted
<1>1. CASE UNCHANGED <<ownership, lock, proc, cache>>
  BY <1>1 DEF FenceInv, Typed, LockIsHeld, WorkersAreStarted, FenceExcludes
<1>2. CASE Store(p, t) /\ proc' = [proc EXCEPT ![p] = Changed(@)]
  <2>1. /\ Changed(proc[p]) \in Proc /\ Changed(proc[p]).worker = proc[p].worker
        /\ Changed(proc[p]).gen = proc[p].gen /\ Changed(proc[p]).main = proc[p].main
    BY <1>0 DEF Changed, Opened, Proc
  <2>2. UNCHANGED <<ownership, lock>> /\ DOMAIN cache' = Procs
    BY <1>0, <1>2 DEF Store
  <2>3. QED  BY <1>0, <1>2, <2>1, <2>2, KeepStep
<1>3. QED  BY <1>1, <1>2 DEF Job, Fetch, FetchFails, Store

\* Every step keeps the invariant.
LEMMA FenceNext ==
    ASSUME CacheAssumption, FenceInv, [CacheNext]_cacheVars PROVE FenceInv'
<1> USE DEF world, coordination, sync
<1>1. CASE UNCHANGED <<ownership, lock, proc, cache>>
  BY <1>1 DEF FenceInv, Typed, LockIsHeld, WorkersAreStarted, FenceExcludes
<1>2. CASE Writer
  BY <1>1, <1>2 DEF Writer, Begin, Delete, Commit
<1>3. CASE Expire
  BY <1>3 DEF Expire, FenceInv, Typed, LockIsHeld, WorkersAreStarted, FenceExcludes
<1>4. CASE \E p \in Procs : Main(p)
  BY <1>4, FenceMain
<1>5. CASE \E p \in Procs : Worker(p) \/ FenceFails(p)
  BY <1>5, FenceWorker
<1>6. CASE \E p \in Procs : ProcessDies(p)
  BY <1>6, EndsLock DEF ProcessDies
<1>7. CASE \E p \in Procs, t \in Tables : Job(p, t) \/ FetchFails(p, t)
  BY <1>7, FenceJob
<1>8. CASE UNCHANGED cacheVars
  BY <1>1, <1>8 DEF cacheVars
<1>9. QED  BY <1>2, <1>3, <1>4, <1>5, <1>6, <1>7, <1>8 DEF CacheNext

\* While a process polls inside the write fence of cache_ownership.py, nobody else
\* owns the cache, although claims expire, are released or taken over, processes
\* die and transactions fail.
THEOREM FenceIsExclusive ==
    ASSUME CacheAssumption PROVE CacheSpec => []FenceExcludes
<1>1. CacheInit => FenceInv
  BY FenceInit
<1>2. FenceInv /\ [CacheNext]_cacheVars => FenceInv'
  BY FenceNext
<1>3. FenceInv => FenceExcludes
  BY DEF FenceInv
<1>4. QED  BY <1>1, <1>2, <1>3, PTL DEF CacheSpec

-----------------------------------------------------------------------------
\* A step of one process that changes neither the file nor a store, and cleans no
\* store.
LEMMA CleanKeep ==
    ASSUME ProcOK, CleanIsPublished, NEW p \in Procs, NEW s,
           proc' = [proc EXCEPT ![p] = s],
           s.open /\ ~s.dirty => proc[p].open /\ ~proc[p].dirty,
           UNCHANGED <<snapshot, cache>>
    PROVE  CleanIsPublished'
BY DEF ProcOK, CleanIsPublished

\* A step that may change the store of one process and leaves it closed or dirty.
LEMMA CleanChange ==
    ASSUME ProcOK, CleanIsPublished, NEW p \in Procs, NEW s,
           proc' = [proc EXCEPT ![p] = s],
           s.open => s.dirty,
           UNCHANGED snapshot \/ snapshot'.by \notin Procs,
           \A q \in Procs \ {p} : cache'[q] = cache[q]
    PROVE  CleanIsPublished'
BY DEF ProcOK, CleanIsPublished

LEMMA CleanPublish ==
    ASSUME ProcOK, CleanIsPublished, NEW p \in Procs, NEW force, NEW s \in Proc,
           Publish(p, force, s), s.open = proc[p].open, s.dirty = proc[p].dirty,
           UNCHANGED cache
    PROVE  CleanIsPublished'
<1>1. CASE proc' = [proc EXCEPT ![p] = s] /\ UNCHANGED snapshot
  BY <1>1, CleanKeep
<1>2. CASE Published(p, s)
  BY <1>2 DEF Published, ProcOK, CleanIsPublished
<1>3. QED  BY <1>1, <1>2 DEF Publish, PublishFailed

\* No step changes only the store or only the file.
LEMMA CleanNext ==
    ASSUME CacheAssumption, CacheTypeOK, CleanIsPublished, [CacheNext]_cacheVars
    PROVE  CleanIsPublished'
<1> USE DEF world, coordination, sync
<1>0. ProcOK /\ CacheOK /\ NoProc \notin Procs /\ \A p \in Procs : proc[p] \in Proc
  BY Parts DEF CacheAssumption, ProcOK
<1>1. CASE UNCHANGED <<snapshot, proc, cache>>
  BY <1>1 DEF CleanIsPublished
<1>2. CASE Writer
  BY <1>1, <1>2 DEF Writer, Begin, Delete, Commit
<1>3. CASE Expire
  BY <1>1, <1>3 DEF Expire
<1>4. ASSUME NEW p \in Procs, Main(p) PROVE CleanIsPublished'
  <2>0. proc[p] \in Proc
    BY <1>0
  <2>1. CASE TryClaim(p)
    <3>1. PICK m, g : proc' = [proc EXCEPT ![p].main = m, ![p].gen = g]
      BY <2>1 DEF TryClaim
    <3> DEFINE s == [proc[p] EXCEPT !.main = m, !.gen = g]
    <3>2. proc' = [proc EXCEPT ![p] = s] /\ s.open = proc[p].open /\ s.dirty = proc[p].dirty
      BY <1>0, <2>0, <3>1 DEF ProcOK, Proc
    <3>3. UNCHANGED <<snapshot, cache>>
      BY <2>1 DEF TryClaim
    <3> HIDE DEF s
    <3>4. QED  BY <1>0, <3>2, <3>3, CleanKeep
  <2>2. CASE Adopt(p)
    <3>1. cache'[p] = snapshot'.rows /\ \A q \in Procs \ {p} : cache'[q] = cache[q]
      BY <1>0, <2>2 DEF Adopt, CacheOK
    <3>2. UNCHANGED snapshot /\ \A q \in Procs \ {p} : proc'[q] = proc[q]
      BY <2>2 DEF Adopt
    <3>3. QED  BY <3>1, <3>2 DEF CleanIsPublished
  <2>3. CASE Start(p)
    <3>1. snapshot'.by = NoProc
      BY <2>3 DEF Start, NoSnapshot
    <3>2. QED  BY <1>0, <3>1 DEF CleanIsPublished
  <2>4. CASE FinalPublish(p)
    <3> DEFINE s == [Told(proc[p]) EXCEPT !.main = "join"]
    <3>1. s \in Proc /\ s.open = proc[p].open /\ s.dirty = proc[p].dirty
      BY <2>0 DEF Told, Proc
    <3>2. Publish(p, FALSE, s) /\ UNCHANGED cache
      BY <2>4 DEF FinalPublish
    <3> HIDE DEF s
    <3>3. QED  BY <1>0, <3>1, <3>2, CleanPublish
  <2>5. CASE Close(p)
    <3> DEFINE s == [Closed(proc[p]) EXCEPT !.main = "closed"]
    <3>1. /\ proc' = [proc EXCEPT ![p] = s] /\ UNCHANGED snapshot /\ ~s.open
          /\ \A q \in Procs \ {p} : cache'[q] = cache[q]
      BY <2>0, <2>5 DEF Close, Closed, Proc
    <3> HIDE DEF s
    <3>2. QED  BY <1>0, <3>1, CleanChange
  <2>6. CASE Exit(p)
    <3> DEFINE s == [NewProc EXCEPT !.main = "gone"]
    <3>1. /\ proc' = [proc EXCEPT ![p] = s] /\ UNCHANGED snapshot /\ ~s.open
          /\ \A q \in Procs \ {p} : cache'[q] = cache[q]
      BY <2>6 DEF Exit, End, NewProc
    <3> HIDE DEF s
    <3>2. QED  BY <1>0, <3>1, CleanChange
  <2>7. QED  BY <1>4, <2>1, <2>2, <2>3, <2>4, <2>5, <2>6 DEF Main
<1>5. ASSUME NEW p \in Procs, Worker(p) \/ FenceFails(p) PROVE CleanIsPublished'
  <2>0. proc[p] \in Proc
    BY <1>0
  <2>1. CASE WorkerPublishes(p)
    <3> DEFINE s == [[proc[p] EXCEPT !.worker = "fence"] EXCEPT !.first = FALSE]
    <3>1. s \in Proc /\ s.open = proc[p].open /\ s.dirty = proc[p].dirty
      BY <2>0 DEF Proc
    <3>2. Publish(p, proc[p].first, s) /\ UNCHANGED cache
      BY <2>1 DEF WorkerPublishes, Callback
    <3> HIDE DEF s
    <3>3. QED  BY <1>0, <3>1, <3>2, CleanPublish
  <2>2. CASE ~WorkerPublishes(p)
    <3>1. UNCHANGED <<snapshot, cache>>
      BY <1>5, <2>2 DEF Worker, Loaded, EnterFence, LeaveFence, WorkerEnds, FenceFails
    <3>2. \/ UNCHANGED proc \/ proc' = Stopped(p)
          \/ \E w \in {"publish", "fence", "poll"} : proc' = [proc EXCEPT ![p].worker = w]
      BY <1>5, <2>2 DEF Worker, Loaded, EnterFence, LeaveFence, WorkerEnds, FenceFails
    <3>3. \A q \in Procs : proc'[q].open = proc[q].open /\ proc'[q].dirty = proc[q].dirty
      BY <1>0, <3>2 DEF ProcOK, Proc, Stopped
    <3>4. QED  BY <3>1, <3>3 DEF CleanIsPublished
  <2>3. QED  BY <2>1, <2>2
<1>6. ASSUME NEW p \in Procs, ProcessDies(p) PROVE CleanIsPublished'
  <2> DEFINE s == [NewProc EXCEPT !.main = "gone"]
  <2>1. /\ proc' = [proc EXCEPT ![p] = s] /\ UNCHANGED snapshot /\ ~s.open
        /\ \A q \in Procs \ {p} : cache'[q] = cache[q]
    BY <1>6 DEF ProcessDies, End, NewProc
  <2> HIDE DEF s
  <2>2. QED  BY <1>0, <2>1, CleanChange
<1>7. ASSUME NEW p \in Procs, NEW t \in Tables, Job(p, t) \/ FetchFails(p, t)
      PROVE  CleanIsPublished'
  <2>1. CASE UNCHANGED <<proc, cache>>
    BY <1>1, <1>7, <2>1 DEF Job, Fetch, Store, FetchFails
  <2>2. CASE Store(p, t) /\ proc' = [proc EXCEPT ![p] = Changed(@)]
    <3> DEFINE s == Changed(proc[p])
    <3>1. /\ proc' = [proc EXCEPT ![p] = s] /\ UNCHANGED snapshot /\ s.dirty
          /\ \A q \in Procs \ {p} : cache'[q] = cache[q]
      BY <1>0, <2>2 DEF Store, Changed, Opened, Proc, CacheOK
    <3> HIDE DEF s
    <3>2. QED  BY <1>0, <3>1, CleanChange
  <2>3. QED  BY <1>7, <2>1, <2>2 DEF Job, Fetch, Store, FetchFails
<1>8. CASE UNCHANGED cacheVars
  BY <1>1, <1>8 DEF cacheVars
<1>9. QED  BY <1>2, <1>3, <1>4, <1>5, <1>6, <1>7, <1>8 DEF CacheNext

-----------------------------------------------------------------------------
\* Stamps become visible in order except for late rows: what is still open is
\* neither committed nor equal to another one.
StampsInOrder ==
    /\ \A t \in Tables : newest[t] <= clock
    /\ \A t \in Tables : \A r \in source[t] : r.stamp <= newest[t]
    /\ \A x \in open : x.stamp <= clock /\ x.stamp # newest[x.table]
    /\ \A x, y \in open : x.stamp = y.stamp => x = y

\* A cursor, and what a job has read, are not ahead of the table.
CursorIsSeen(p, t) == t \notin doubtful[p] => cursor[p][t] <= newest[t]
ReadIsSeen(p, t) ==
    LET j == job[p][t] IN
    j.at = "store" =>
      /\ Last(j) <= newest[t]
      /\ j.kind # "delta" => \A v \in Timely(t) : v.stamp <= Last(j) => v \in j.read

\* What the cursor passes is in the cache, and what it will pass is in it after
\* the job.
StoreCovers(p, t) ==
    t \notin doubtful[p] /\ proc[p].main = "run" =>
      \A v \in Timely(t) :
        /\ v.stamp <= cursor[p][t] => v \in cache[p][t]
        /\ job[p][t].at = "store" =>
             (v.stamp <= cursor[p][t] \/ v.stamp <= Last(job[p][t]) => v \in Stored(p, t))

\* A gateway that has not started has read nothing.
NothingRead(p, t) ==
    proc[p].main \in {"new", "owner"} => cursor[p][t] = 0 /\ job[p][t].at = "none"

Covers(p, t) ==
    CursorIsSeen(p, t) /\ ReadIsSeen(p, t) /\ StoreCovers(p, t) /\ NothingRead(p, t)
CoverInv == StampsInOrder /\ \A p \in Procs, t \in Tables : Covers(p, t)

LEMMA CoverImplies == ASSUME CoverInv PROVE CursorCovers
BY DEF CoverInv, Covers, StoreCovers, CursorCovers

\* The numbers that are compared.
LEMMA CoverTypes ==
    ASSUME CacheAssumption, CacheTypeOK, NEW p \in Procs, NEW t \in Tables
    PROVE  /\ cursor[p][t] \in Nat /\ newest[t] \in Nat /\ clock \in Nat
           /\ job[p][t] \in Jobs /\ job[p][t].read \in SUBSET Versions
           /\ Last(job[p][t]) \in Nat
           /\ source[t] \in SUBSET CacheRows
           /\ \A v \in Timely(t) : v \in Versions /\ v.stamp \in Nat \ {0}
<1>1. job[p][t] \in Jobs /\ job[p][t].read \in SUBSET Versions
  BY Parts DEF SyncOK, Jobs
<1>2. Last(job[p][t]) \in Stamps \cup {0}
  BY <1>1, LastIsGreatest
<1>3. source[t] \in SUBSET CacheRows
  BY Parts DEF WorldOK
<1>4. \A v \in Timely(t) : v \in Versions /\ v.stamp \in Stamps
  BY <1>3 DEF Timely, Version, CacheRows, Versions
<1>5. QED  BY <1>1, <1>2, <1>3, <1>4, Parts, StampsAreNumbers DEF WorldOK, SyncOK

\* A step that leaves a table and its place in a process alone; the process may
\* leave the state "run", and then the cache does not matter.
LEMMA CoverFrame ==
    ASSUME NEW p \in Procs, NEW t \in Tables, Covers(p, t),
           source'[t] = source[t], newest'[t] = newest[t],
           cursor'[p][t] = cursor[p][t], job'[p][t] = job[p][t],
           t \in doubtful'[p] <=> t \in doubtful[p],
           proc'[p].main = "run" => proc[p].main = "run" /\ cache'[p][t] = cache[p][t],
           proc'[p].main \in {"new", "owner"} => proc[p].main \in {"new", "owner"}
    PROVE  Covers(p, t)'
BY DEF Covers, CursorIsSeen, ReadIsSeen, StoreCovers, NothingRead, Timely, Stored, Last

\* The same for all tables of all processes but one.
LEMMA CoverOthers ==
    ASSUME CoverInv, CacheTypeOK, UNCHANGED world, NEW p \in Procs,
           \A t \in Tables : Covers(p, t)',
           \A q \in Procs \ {p} : /\ cursor'[q] = cursor[q] /\ job'[q] = job[q]
                                  /\ doubtful'[q] = doubtful[q] /\ proc'[q] = proc[q]
                                  /\ cache'[q] = cache[q]
    PROVE  CoverInv'
<1>1. StampsInOrder'
  BY DEF world, CoverInv, StampsInOrder
<1>2. ASSUME NEW q \in Procs \ {p}, NEW t \in Tables PROVE Covers(q, t)'
  BY CoverFrame DEF world, CoverInv
<1>3. QED  BY <1>1, <1>2 DEF CoverInv

\* A step that leaves all of them alone.
LEMMA CoverStutter ==
    ASSUME CoverInv, CacheTypeOK, UNCHANGED world, UNCHANGED <<cursor, job, doubtful>>,
           \A q \in Procs :
             /\ proc'[q].main = "run" => proc[q].main = "run" /\ cache'[q] = cache[q]
             /\ proc'[q].main \in {"new", "owner"} => proc[q].main \in {"new", "owner"}
    PROVE  CoverInv'
<1>1. StampsInOrder'
  BY DEF world, CoverInv, StampsInOrder
<1>2. ASSUME NEW q \in Procs, NEW t \in Tables PROVE Covers(q, t)'
  BY CoverFrame DEF world, CoverInv
<1>3. QED  BY <1>1, <1>2 DEF CoverInv

\* What a writer commits in order is newer than all that a cursor or a job has seen.
LEMMA CoverWritten ==
    ASSUME CacheAssumption, CacheTypeOK, NEW p \in Procs, NEW t \in Tables, Covers(p, t),
           newest'[t] \in Nat, newest[t] <= newest'[t],
           \A v \in Timely(t)' : v \in Timely(t) \/ (v.stamp \in Nat /\ newest[t] < v.stamp),
           UNCHANGED <<cursor, job, doubtful, proc, cache>>
    PROVE  Covers(p, t)'
<1>0. /\ cursor[p][t] \in Nat /\ newest[t] \in Nat /\ Last(job[p][t]) \in Nat
      /\ \A v \in Timely(t) : v.stamp \in Nat
  BY CoverTypes
<1> DEFINE j == job[p][t]
           last == Last(j)
<1>a. Last(j') = last
  OBVIOUS
<1>1. CursorIsSeen(p, t)'
  BY <1>0 DEF Covers, CursorIsSeen
<1>2. ReadIsSeen(p, t)'
  <2>1. SUFFICES ASSUME j.at = "store"
                 PROVE  /\ last <= newest'[t]
                        /\ j.kind # "delta" =>
                             \A v \in Timely(t)' : v.stamp <= last => v \in j.read
    BY <1>a DEF ReadIsSeen
  <2>2. /\ last <= newest[t]
        /\ j.kind # "delta" => \A v \in Timely(t) : v.stamp <= last => v \in j.read
    BY <2>1 DEF Covers, ReadIsSeen
  <2> HIDE DEF last, j
  <2>3. QED  BY <1>0, <2>2 DEF last, j
<1>3. StoreCovers(p, t)'
  <2>0. Stored(p, t)' = Stored(p, t)
    BY DEF Stored
  <2>1. SUFFICES ASSUME t \notin doubtful[p], proc[p].main = "run", NEW v \in Timely(t)'
                 PROVE  /\ v.stamp <= cursor[p][t] => v \in cache[p][t]
                        /\ job[p][t].at = "store" =>
                             (v.stamp <= cursor[p][t] \/ v.stamp <= last => v \in Stored(p, t))
    BY <1>a, <2>0 DEF StoreCovers
  <2>2. CASE v \in Timely(t)
    BY <2>1, <2>2 DEF Covers, StoreCovers
  <2>3. CASE v.stamp \in Nat /\ newest[t] < v.stamp
    <3>1. cursor[p][t] <= newest[t] /\ (job[p][t].at = "store" => last <= newest[t])
      BY <2>1 DEF Covers, CursorIsSeen, ReadIsSeen
    <3> HIDE DEF last
    <3>2. QED  BY <1>0, <2>3, <3>1 DEF last
  <2>4. QED  BY <2>2, <2>3
<1>4. NothingRead(p, t)'
  BY DEF Covers, NothingRead
<1>5. QED  BY <1>1, <1>2, <1>3, <1>4 DEF Covers

\* The writers keep the order of the stamps.
LEMMA CoverWriter ==
    ASSUME CacheAssumption, CacheTypeOK, CoverInv, Writer
    PROVE  CoverInv'
<1> USE DEF coordination, sync
<1>0. /\ WorldOK /\ clock \in Nat
      /\ \A t \in Tables : newest[t] \in Nat /\ source[t] \in SUBSET CacheRows
      /\ \A x \in open : x.table \in Tables /\ x.stamp \in Nat
  BY Parts, StampsAreNumbers DEF WorldOK
<1>a. \A t \in Tables : \A r \in source[t] : r.stamp \in Nat
  BY <1>0, StampsAreNumbers DEF CacheRows
<1>b. UNCHANGED <<cursor, job, doubtful, proc, cache>>
  BY DEF Writer, Begin, Delete, Commit
<1>1. CASE \E t \in Tables, i \in Ids : Begin(t, i)
  <2>1. PICK t \in Tables, i \in Ids : Begin(t, i)
    BY <1>1
  <2>2. /\ clock' = clock + 1 /\ UNCHANGED <<source, newest>>
        /\ open' = open \cup {[table |-> t, id |-> i, stamp |-> clock + 1]}
    BY <2>1 DEF Begin
  <2>3. StampsInOrder'
    BY <1>0, <2>2 DEF CoverInv, StampsInOrder
  <2>4. ASSUME NEW p \in Procs, NEW u \in Tables PROVE Covers(p, u)'
    BY <1>b, <2>2, CoverFrame DEF CoverInv
  <2>5. QED  BY <2>3, <2>4 DEF CoverInv
<1>2. CASE \E t \in Tables, i \in Ids : Delete(t, i)
  <2>1. PICK t \in Tables, i \in Ids : Delete(t, i)
    BY <1>2
  <2>2. /\ clock' = clock + 1 /\ UNCHANGED <<newest, open>>
        /\ \A u \in Tables : source'[u] \subseteq source[u]
    BY <1>0, <2>1 DEF Delete, Others, WorldOK
  <2>3. StampsInOrder'
    BY <1>0, <1>a, <2>2 DEF CoverInv, StampsInOrder
  <2>4. ASSUME NEW p \in Procs, NEW u \in Tables PROVE Covers(p, u)'
    <3>1. Timely(u)' \subseteq Timely(u)
      BY <2>2 DEF Timely
    <3>2. QED  BY <1>0, <1>b, <2>2, <3>1, CoverWritten DEF CoverInv
  <2>5. QED  BY <2>3, <2>4 DEF CoverInv
<1>3. CASE \E x \in open : Commit(x)
  <2>1. PICK x \in open : Commit(x)
    BY <1>3
  <2> DEFINE t == x.table
             new == [id |-> x.id, stamp |-> x.stamp, late |-> x.stamp < newest[t]]
  <2>2. t \in Tables /\ x.stamp \in Nat /\ x.stamp <= clock /\ x.stamp # newest[t]
    BY <1>0 DEF CoverInv, StampsInOrder
  <2>3. /\ open' = open \ {x} /\ UNCHANGED clock
        /\ source' = [source EXCEPT ![t] = Others(t, x.id) \cup {new}]
        /\ newest' = [newest EXCEPT ![t] = IF @ < x.stamp THEN x.stamp ELSE @]
    BY <2>1 DEF Commit
  <2>4. /\ \A u \in Tables \ {t} : source'[u] = source[u] /\ newest'[u] = newest[u]
        /\ source'[t] = Others(t, x.id) \cup {new}
        /\ newest'[t] = IF newest[t] < x.stamp THEN x.stamp ELSE newest[t]
    BY <1>0, <2>2, <2>3 DEF WorldOK
  <2>5. new.stamp = x.stamp /\ new.late = (x.stamp < newest[t])
    OBVIOUS
  <2>6. Others(t, x.id) \subseteq source[t]
    BY DEF Others
  <2>7. StampsInOrder'
    <3> HIDE DEF new, t
    <3>1. \A u \in Tables : newest'[u] <= clock
      BY <1>0, <2>2, <2>4 DEF CoverInv, StampsInOrder
    <3>2. ASSUME NEW u \in Tables, NEW r \in source'[u] PROVE r.stamp <= newest'[u]
      <4>1. CASE u # t
        BY <2>4, <4>1 DEF CoverInv, StampsInOrder
      <4>2. CASE u = t /\ r = new
        BY <1>0, <2>2, <2>4, <2>5, <4>2
      <4>3. CASE u = t /\ r \in source[t]
        <5>1. r.stamp \in Nat /\ r.stamp <= newest[t]
          BY <1>a, <2>2, <4>3 DEF CoverInv, StampsInOrder
        <5>2. QED  BY <1>0, <2>2, <2>4, <4>3, <5>1
      <4>4. QED  BY <2>4, <2>6, <4>1, <4>2, <4>3
    <3>3. ASSUME NEW y \in open' PROVE y.stamp <= clock' /\ y.stamp # newest'[y.table]
      <4>1. y \in open /\ y # x /\ y.stamp # x.stamp
        BY <2>3 DEF CoverInv, StampsInOrder
      <4>2. y.stamp <= clock /\ y.stamp # newest[y.table] /\ y.table \in Tables
        BY <1>0, <4>1 DEF CoverInv, StampsInOrder
      <4>3. QED  BY <2>3, <2>4, <4>1, <4>2 DEF t
    <3>4. \A y, z \in open' : y.stamp = z.stamp => y = z
      BY <2>3 DEF CoverInv, StampsInOrder
    <3>5. QED  BY <2>3, <3>1, <3>2, <3>3, <3>4 DEF StampsInOrder
  <2>8. ASSUME NEW p \in Procs, NEW u \in Tables PROVE Covers(p, u)'
    <3>1. CASE u # t
      <4>1. source'[u] = source[u] /\ newest'[u] = newest[u]
        BY <2>4, <3>1
      <4>2. QED  BY <1>b, <4>1, CoverFrame DEF CoverInv
    <3>2. CASE u = t
      <4>0. Version(new).stamp = x.stamp
        BY DEF Version
      <4> HIDE DEF new, t
      <4>1. ASSUME NEW v \in Timely(u)'
            PROVE  v \in Timely(u) \/ (v.stamp \in Nat /\ newest[u] < v.stamp)
        <5>1. PICK r \in source'[u] : ~r.late /\ v = Version(r)
          BY DEF Timely, Version
        <5>2. CASE r = new
          <6>1. ~(x.stamp < newest[t])
            BY <2>5, <5>1, <5>2
          <6>2. QED  BY <1>0, <2>2, <3>2, <4>0, <5>1, <5>2, <6>1
        <5>3. CASE r \in source[u]
          BY <5>1, <5>3 DEF Timely
        <5>4. QED  BY <2>4, <2>6, <3>2, <5>2, <5>3
      <4>2. newest'[u] \in Nat /\ newest[u] <= newest'[u]
        BY <1>0, <2>2, <2>4, <3>2
      <4>3. QED  BY <1>b, <4>1, <4>2, CoverWritten DEF CoverInv
    <3>3. QED  BY <3>1, <3>2
  <2>9. QED  BY <2>7, <2>8 DEF CoverInv
<1>4. QED  BY <1>1, <1>2, <1>3 DEF Writer

\* A cursor of 0 passes nothing.
LEMMA CoverFresh ==
    ASSUME NEW p \in Procs, NEW t \in Tables,
           newest'[t] \in Nat, \A v \in Timely(t)' : v.stamp \in Nat \ {0},
           cursor'[p][t] = 0, job'[p][t].at # "store",
           proc'[p].main \notin {"new", "owner"}
    PROVE  Covers(p, t)'
BY DEF Covers, CursorIsSeen, ReadIsSeen, StoreCovers, NothingRead

LEMMA CoverEnd ==
    ASSUME CacheAssumption, CacheTypeOK, CoverInv, NEW p \in Procs, End(p)
    PROVE  CoverInv'
<1>1. /\ UNCHANGED world /\ proc'[p].main = "gone"
      /\ \A t \in Tables : cursor'[p][t] = 0 /\ job'[p][t].at # "store"
      /\ \A q \in Procs \ {p} : /\ cursor'[q] = cursor[q] /\ job'[q] = job[q]
                                /\ doubtful'[q] = doubtful[q] /\ proc'[q] = proc[q]
                                /\ cache'[q] = cache[q]
  BY Parts DEF End, SyncOK, CacheOK, ProcOK, NoJob, NewProc
<1>2. \A t \in Tables : /\ newest'[t] \in Nat
                        /\ \A v \in Timely(t)' : v.stamp \in Nat \ {0}
  BY <1>1, CoverTypes DEF world, Timely
<1>3. \A t \in Tables : Covers(p, t)'
  BY <1>1, <1>2, CoverFresh
<1>4. QED  BY <1>1, <1>3, CoverOthers

\* The main threads: a gateway that starts has read nothing yet.
LEMMA CoverMain ==
    ASSUME CacheAssumption, CacheTypeOK, CoverInv, NEW p \in Procs, Main(p)
    PROVE  CoverInv'
<1> USE DEF coordination, sync
<1>0. /\ ProcOK /\ CacheOK /\ SyncOK /\ Typed /\ proc[p] \in Proc
      /\ \A t \in Tables : newest[t] \in Nat /\ \A v \in Timely(t) : v.stamp \in Nat \ {0}
  BY Parts, CoverTypes DEF ProcOK, CacheOK, RestOK, Typed
<1>1. CASE TryClaim(p)
  <2>1. /\ UNCHANGED world /\ UNCHANGED <<cursor, job, doubtful, cache>>
        /\ proc[p].main = "new" /\ proc'[p].main \in {"owner", "reader"}
        /\ \A q \in Procs \ {p} : proc'[q] = proc[q]
    BY <1>0, <1>1 DEF TryClaim, ProcOK, Proc
  <2>2. QED  BY <2>1, CoverStutter
<1>2. CASE Adopt(p) \/ Start(p)
  <2>1. /\ UNCHANGED world /\ UNCHANGED <<cursor, doubtful>>
        /\ proc[p].main = "owner" /\ proc'[p].main = "run"
        /\ \A q \in Procs \ {p} : /\ job'[q] = job[q] /\ proc'[q] = proc[q]
                                  /\ cache'[q] = cache[q]
        /\ job'[p] = job[p] \/ job'[p] = NewJobs
    <3>1. CASE Adopt(p)
      <4> DEFINE s == [Opened(proc[p]) EXCEPT !.main = "run"]
      <4>1. s.main = "run"
        BY <1>0 DEF Opened, Proc
      <4>2. /\ proc' = [proc EXCEPT ![p] = s] /\ UNCHANGED <<job, cursor, doubtful>>
            /\ UNCHANGED world /\ proc[p].main = "owner"
            /\ \A q \in Procs \ {p} : cache'[q] = cache[q]
        BY <1>0, <3>1 DEF Adopt, CacheOK
      <4> HIDE DEF s
      <4>3. QED  BY <1>0, <4>1, <4>2 DEF ProcOK
    <3>2. CASE Start(p)
      <4> DEFINE s == [Opened(Started(proc[p])) EXCEPT !.main = "run"]
      <4>1. s.main = "run"
        BY <1>0 DEF Opened, Started, Proc
      <4>2. /\ proc' = [proc EXCEPT ![p] = s] /\ UNCHANGED <<cache, cursor, doubtful>>
            /\ UNCHANGED world /\ proc[p].main = "owner"
            /\ job' = [job EXCEPT ![p] = NewJobs]
        BY <1>0, <3>2 DEF Start
      <4> HIDE DEF s
      <4>3. QED  BY <1>0, <4>1, <4>2 DEF ProcOK, SyncOK
    <3>3. QED  BY <1>2, <3>1, <3>2
  <2>2. ASSUME NEW t \in Tables PROVE Covers(p, t)'
    <3>1. cursor[p][t] = 0 /\ job[p][t].at = "none"
      BY <2>1 DEF CoverInv, Covers, NothingRead
    <3>2. job'[p][t].at # "store"
      BY <2>1, <3>1 DEF NewJobs, NoJob
    <3>3. newest'[t] \in Nat /\ \A v \in Timely(t)' : v.stamp \in Nat \ {0}
      BY <1>0, <2>1 DEF world, Timely
    <3>4. QED  BY <2>1, <3>1, <3>2, <3>3, CoverFresh
  <2>3. QED  BY <2>1, <2>2, CoverOthers
<1>3. CASE FinalPublish(p)
  <2> DEFINE s == [Told(proc[p]) EXCEPT !.main = "join"]
  <2>1. s \in Proc /\ s.main = "join"
    BY <1>0 DEF Told, Proc
  <2>2. /\ Publish(p, FALSE, s) /\ UNCHANGED world
        /\ UNCHANGED <<cursor, job, doubtful, cache>>
    BY <1>3 DEF FinalPublish
  <2> HIDE DEF s
  <2>3. PICK d \in BOOLEAN : proc' = [proc EXCEPT ![p] = [s EXCEPT !.dirty = d]]
    BY <1>0, <2>1, <2>2, PublishStep
  <2>4. proc'[p].main = "join" /\ \A q \in Procs \ {p} : proc'[q] = proc[q]
    BY <1>0, <2>1, <2>3 DEF ProcOK, Proc
  <2>5. QED  BY <2>2, <2>4, CoverStutter
<1>4. CASE Close(p)
  <2>1. /\ UNCHANGED world /\ UNCHANGED <<cursor, job, doubtful>>
        /\ proc'[p].main = "closed"
        /\ \A q \in Procs \ {p} : proc'[q] = proc[q] /\ cache'[q] = cache[q]
    BY <1>0, <1>4 DEF Close, Closed, ProcOK, CacheOK, Proc
  <2>2. QED  BY <2>1, CoverStutter
<1>5. CASE Exit(p)
  BY <1>5, CoverEnd DEF Exit
<1>6. QED  BY <1>1, <1>2, <1>3, <1>4, <1>5 DEF Main

\* The workers: new jobs have read nothing.
LEMMA CoverWorker ==
    ASSUME CacheAssumption, CacheTypeOK, FenceInv, CoverInv, NEW p \in Procs,
           Worker(p) \/ FenceFails(p)
    PROVE  CoverInv'
<1> USE DEF coordination, sync
<1>0. ProcOK /\ SyncOK /\ Typed /\ proc[p] \in Proc
  BY Parts DEF ProcOK, CacheOK, RestOK, Typed
<1>1. CASE WorkerPublishes(p)
  <2> DEFINE s == [[proc[p] EXCEPT !.worker = "fence"] EXCEPT !.first = FALSE]
  <2>1. s \in Proc /\ s.main = proc[p].main
    BY <1>0 DEF Proc
  <2>2. /\ Publish(p, proc[p].first, s) /\ UNCHANGED world
        /\ UNCHANGED <<cursor, job, doubtful, cache>>
    BY <1>1 DEF WorkerPublishes, Callback
  <2> HIDE DEF s
  <2>3. PICK d \in BOOLEAN : proc' = [proc EXCEPT ![p] = [s EXCEPT !.dirty = d]]
    BY <1>0, <2>1, <2>2, PublishStep
  <2>4. \A q \in Procs : proc'[q].main = proc[q].main
    BY <1>0, <2>1, <2>3 DEF ProcOK, Proc
  <2>5. QED  BY <2>2, <2>4, CoverStutter
<1>2. CASE ~WorkerPublishes(p)
  <2>1. UNCHANGED world /\ UNCHANGED <<cursor, doubtful, cache>>
    BY <1>0, <1>2 DEF Worker, Loaded, EnterFence, LeaveFence, WorkerEnds, FenceFails
  <2>2. \/ proc' = Stopped(p)
        \/ \E w \in {"publish", "fence", "poll"} : proc' = [proc EXCEPT ![p].worker = w]
    BY <1>0, <1>2 DEF Worker, Loaded, EnterFence, LeaveFence, WorkerEnds, FenceFails
  <2>3. \A q \in Procs : proc'[q].main = proc[q].main
    BY <1>0, <2>2 DEF ProcOK, Proc, Stopped
  <2>4. CASE UNCHANGED job
    BY <2>1, <2>3, <2>4, CoverStutter
  <2>5. CASE EnterFence(p) /\ job' = [job EXCEPT ![p] = NewJobs]
    <3>1. proc[p].main \notin {"new", "owner"}
      BY <2>5 DEF EnterFence, FenceInv, WorkersAreStarted, Idle
    <3>2. /\ \A t \in Tables : job'[p][t].at = "fetch"
          /\ \A q \in Procs \ {p} : job'[q] = job[q]
      BY <1>0, <2>5 DEF SyncOK, NewJobs, NoJob
    <3>3. ASSUME NEW t \in Tables PROVE Covers(p, t)'
      <4>1. Covers(p, t)
        BY DEF CoverInv
      <4>2. QED
        BY <2>1, <2>3, <3>1, <3>2, <4>1
           DEF world, Covers, CursorIsSeen, ReadIsSeen, StoreCovers, NothingRead, Timely
    <3>4. ASSUME NEW q \in Procs \ {p}, NEW t \in Tables PROVE Covers(q, t)'
      BY <2>1, <2>3, <3>2, CoverFrame DEF world, CoverInv
    <3>5. StampsInOrder'
      BY <2>1 DEF world, CoverInv, StampsInOrder
    <3>6. QED  BY <3>3, <3>4, <3>5 DEF CoverInv
  <2>6. QED
    BY <1>0, <1>2, <2>4, <2>5 DEF Worker, Loaded, EnterFence, LeaveFence, WorkerEnds, FenceFails
<1>3. QED  BY <1>1, <1>2

\* The rows that a query reads cover the table together with what is in the cache.
LEMMA CoverFetch ==
    ASSUME CacheAssumption, CacheTypeOK, CoverInv,
           NEW p \in Procs, NEW t \in Tables, Fetch(p, t)
    PROVE  CoverInv'
<1> USE DEF coordination
<1> DEFINE full == /\ proc[p].worker = "poll" /\ FullEvery > 0
                   /\ resync[p] + 1 >= FullEvery
           all == full \/ cursor[p][t] = 0
           rows == RowsToRead(p, t, all)
           read == {Version(r) : r \in rows}
           kind == IF full THEN "replace" ELSE IF all THEN "all" ELSE "delta"
           j == [at |-> "store", read |-> read, kind |-> kind]
<1>1. job' = [job EXCEPT ![p][t] = j]
  BY DEF Fetch
<1>2. UNCHANGED world /\ UNCHANGED <<proc, cache, cursor, doubtful>>
  BY DEF Fetch
<1>3. j.at = "store" /\ j.read = read /\ j.kind = kind
  OBVIOUS
<1>4. kind # "delta" => all
  OBVIOUS
<1>5. /\ rows \subseteq source[t]
      /\ all => rows = source[t]
      /\ \A r \in source[t] : r.stamp > cursor[p][t] => r \in rows
  BY DEF RowsToRead
<1>6. kind = "replace" => all
  BY <1>4
<1>a. /\ source[t] \in SUBSET CacheRows /\ newest[t] \in Nat /\ cursor[p][t] \in Nat
      /\ \A r, s \in source[t] : r.id = s.id => r = s
      /\ \A r \in source[t] : r.stamp <= newest[t]
      /\ \A v \in Timely(t) : v.stamp \in Nat
      /\ job[p][t] \in Jobs /\ SyncOK
  BY CoverTypes, Parts DEF WorldOK, CoverInv, StampsInOrder
<1> HIDE DEF kind, all, rows
<1>b. read \in SUBSET Versions
  BY <1>5, <1>a DEF Version, Versions, CacheRows
<1>c. /\ \A v \in read : \E r \in source[t] : v = Version(r) /\ v.id = r.id /\ v.stamp = r.stamp
      /\ \A v \in Timely(t) : \E r \in source[t] : v = Version(r) /\ v.id = r.id
                                                      /\ v.stamp = r.stamp
  BY <1>5 DEF Version, Timely
<1>7. \A v \in Timely(t) : all \/ v.stamp > cursor[p][t] => v \in read
  BY <1>5, <1>c
<1>8. \A v \in Timely(t) : \A w \in read : w.id = v.id => w = v
  BY <1>a, <1>c
<1> HIDE DEF read, j
<1>9. Last(j) <= newest[t] /\ Last(j) \in Nat
  <2>1. Last(j) \in Stamps \cup {0} /\ (j.read # {} => \E v \in j.read : v.stamp = Last(j))
        /\ (j.read = {} => Last(j) = 0)
    BY <1>3, <1>b, LastIsGreatest
  <2>2. CASE j.read = {}
    BY <1>a, <2>1, <2>2
  <2>3. CASE j.read # {}
    <3>1. PICK v \in read : v.stamp = Last(j)
      BY <1>3, <2>1, <2>3
    <3>2. PICK r \in source[t] : v.stamp = r.stamp
      BY <1>c
    <3>3. QED  BY <1>a, <2>1, <3>1, <3>2, StampsAreNumbers
  <2>4. QED  BY <2>2, <2>3
<1>10. /\ job'[p][t] = j
       /\ \A u \in Tables \ {t} : job'[p][u] = job[p][u]
       /\ \A q \in Procs \ {p} : job'[q] = job[q]
  BY <1>1, <1>a DEF SyncOK
<1>11. Covers(p, t)
  BY DEF CoverInv
<1>12. CursorIsSeen(p, t)'
  BY <1>2, <1>11 DEF world, Covers, CursorIsSeen
<1>13. ReadIsSeen(p, t)'
  <2>2. \A v \in Timely(t) : kind # "delta" => v \in read
    BY <1>4, <1>7
  <2>3. QED  BY <1>2, <1>3, <1>9, <1>10, <2>2 DEF world, ReadIsSeen, Timely
<1>14. StoreCovers(p, t)'
  <2>1. Stored(p, t)' = IF kind = "replace" THEN read
                        ELSE {v \in cache[p][t] : \A w \in read : w.id # v.id} \cup read
    BY <1>2, <1>3, <1>10 DEF Stored, Replaced, Upserted
  <2>2. SUFFICES ASSUME t \notin doubtful[p], proc[p].main = "run", NEW v \in Timely(t)
                 PROVE  /\ v.stamp <= cursor[p][t] => v \in cache[p][t]
                        /\ v \in Stored(p, t)'
    BY <1>2 DEF world, StoreCovers, Timely
  <2>3. v.stamp <= cursor[p][t] => v \in cache[p][t]
    BY <1>11, <2>2 DEF Covers, StoreCovers
  <2>4. CASE v \in read
    BY <2>1, <2>3, <2>4
  <2>5. CASE v \notin read
    <3>1. ~all /\ v.stamp <= cursor[p][t]
      BY <1>7, <1>a, <2>5
    <3>2. kind # "replace" /\ \A w \in read : w.id # v.id
      BY <1>6, <1>8, <2>5, <3>1
    <3>3. QED  BY <2>1, <2>3, <3>1, <3>2
  <2>6. QED  BY <2>4, <2>5
<1>15. NothingRead(p, t)'
  <2>1. job[p][t].at = "fetch"
    BY DEF Fetch
  <2>2. QED  BY <1>2, <1>11, <2>1 DEF Covers, NothingRead
<1>16. ASSUME NEW u \in Tables \ {t} PROVE Covers(p, u)'
  BY <1>2, <1>10, CoverFrame DEF world, CoverInv
<1>17. \A u \in Tables : Covers(p, u)'
  BY <1>12, <1>13, <1>14, <1>15, <1>16 DEF Covers
<1>18. QED  BY <1>2, <1>10, <1>17, CoverOthers

\* After a lost connection the cursors are 0, or what they were.
LEMMA CoverFetchFails ==
    ASSUME CacheAssumption, CacheTypeOK, CoverInv, NEW p \in Procs, NEW t \in Tables,
           FetchFails(p, t)
    PROVE  CoverInv'
<1> USE DEF coordination
<1>0. SyncOK
  BY Parts
<1>1. UNCHANGED world /\ UNCHANGED <<proc, cache, doubtful>>
  BY DEF FetchFails
<1>2. PICK at \in {"done", "lost"} : job' = [job EXCEPT ![p][t].at = at]
  BY DEF FetchFails
<1>3. /\ \A q \in Procs \ {p} : job'[q] = job[q] /\ cursor'[q] = cursor[q]
      /\ \A u \in Tables \ {t} : job'[p][u] = job[p][u]
      /\ job'[p][t].at \in {"done", "lost"} /\ job[p][t].at = "fetch"
  BY <1>0, <1>2 DEF FetchFails, SyncOK, Jobs
<1>4. cursor' = cursor \/ \A u \in Tables : cursor'[p][u] = 0
  BY <1>0 DEF FetchFails, SyncOK
<1>5. ASSUME NEW u \in Tables PROVE Covers(p, u)'
  <2>0. /\ Covers(p, u) /\ newest[u] \in Nat /\ Last(job[p][u]) \in Nat
        /\ \A v \in Timely(u) : v.stamp \in Nat \ {0}
    BY CoverTypes DEF CoverInv
  <2>1. cursor'[p][u] \in {0, cursor[p][u]}
    BY <1>4
  <2>2. /\ newest'[u] = newest[u] /\ Timely(u)' = Timely(u) /\ proc'[p] = proc[p]
        /\ cache'[p][u] = cache[p][u] /\ doubtful'[p] = doubtful[p]
    BY <1>1 DEF world, Timely
  <2>3. CursorIsSeen(p, u)'
    BY <2>0, <2>1, <2>2 DEF Covers, CursorIsSeen
  <2>4. proc[p].main \notin {"new", "owner"}
    BY <1>3 DEF CoverInv, Covers, NothingRead
  <2>5. CASE u = t
    <3>1. job'[p][u].at # "store"
      BY <1>3, <2>5
    <3>2. ReadIsSeen(p, u)'
      BY <3>1 DEF ReadIsSeen
    <3>3. StoreCovers(p, u)'
      BY <2>0, <2>1, <2>2, <3>1 DEF Covers, StoreCovers
    <3>4. QED  BY <2>2, <2>3, <2>4, <3>2, <3>3 DEF Covers, NothingRead
  <2>6. CASE u # t
    <3>1. job'[p][u] = job[p][u]
      BY <1>3, <2>6
    <3>2. Stored(p, u)' = Stored(p, u) /\ Last(job[p][u])' = Last(job[p][u])
      BY <2>2, <3>1 DEF Stored, Last
    <3>3. ReadIsSeen(p, u)'
      BY <2>0, <2>2, <3>1, <3>2 DEF Covers, ReadIsSeen
    <3>4. StoreCovers(p, u)'
      BY <2>0, <2>1, <2>2, <3>1, <3>2 DEF Covers, StoreCovers
    <3>5. QED  BY <2>2, <2>3, <2>4, <3>3, <3>4 DEF Covers, NothingRead
  <2>7. QED  BY <2>5, <2>6
<1>6. QED  BY <1>1, <1>3, <1>5, CoverOthers

\* The cursor moves on when a batch is lost; then the table is in doubt until all of
\* its rows were stored.
LEMMA CoverStore ==
    ASSUME CacheAssumption, CacheTypeOK, CoverInv,
           NEW p \in Procs, NEW t \in Tables, Store(p, t)
    PROVE  CoverInv'
<1> USE DEF coordination
<1> DEFINE j == job[p][t]
           last == Last(j)
           now == cursor[p][t]
           next == CursorAfter(p, t)
           changes == j.kind = "replace" \/ j.read # {}
<1>1. PICK stored \in BOOLEAN :
        /\ stored \/ changes
        /\ cache' = IF changes /\ stored
                    THEN [cache EXCEPT ![p][t] = Stored(p, t)] ELSE cache
        /\ proc' = IF changes /\ stored
                   THEN [proc EXCEPT ![p] = Changed(@)] ELSE proc
        /\ doubtful' = [doubtful EXCEPT ![p] = Doubts(p, t, stored)]
  BY DEF Store
<1>2. /\ cursor' = [cursor EXCEPT ![p][t] = next]
      /\ job' = [job EXCEPT ![p][t] = [NoJob EXCEPT !.at = "done"]]
      /\ UNCHANGED world /\ j.at = "store"
  BY DEF Store
<1>3. SyncOK /\ CacheOK /\ ProcOK /\ proc[p] \in Proc
  BY Parts DEF ProcOK
<1>4. /\ now \in Nat /\ newest[t] \in Nat /\ clock \in Nat /\ last \in Nat
      /\ \A v \in Timely(t) : v.stamp \in Nat \ {0}
  BY CoverTypes
<1>5. /\ \A v \in j.read : v.stamp <= last
      /\ last = 0 => j.read = {}
      /\ j.read = {} => last = 0
  BY CoverTypes, LastIsGreatest, StampsAreNumbers DEF Versions
<1>6. next = IF proc[p].worker = "load" THEN IF last = 0 THEN clock ELSE last
             ELSE IF now < last THEN last ELSE now
  BY DEF CursorAfter
<1>7. Doubts(p, t, stored) =
        IF (~stored /\ j.read # {}) \/ (last = 0 /\ next # now) THEN doubtful[p] \cup {t}
        ELSE IF stored /\ j.kind # "delta" /\ next = last THEN doubtful[p] \ {t}
        ELSE doubtful[p]
  BY DEF Doubts
<1>8. Covers(p, t)
  BY DEF CoverInv
<1>9. /\ last <= newest[t]
      /\ j.kind # "delta" => \A v \in Timely(t) : v.stamp <= last => v \in j.read
  BY <1>2, <1>8 DEF Covers, ReadIsSeen
<1>10. t \notin doubtful[p] => now <= newest[t]
  BY <1>8 DEF Covers, CursorIsSeen
<1>11. t \notin doubtful[p] /\ proc[p].main = "run" =>
         \A v \in Timely(t) :
           /\ v.stamp <= now => v \in cache[p][t]
           /\ v.stamp <= now \/ v.stamp <= last => v \in Stored(p, t)
  BY <1>2, <1>8 DEF Covers, StoreCovers
<1>12. proc[p].main \notin {"new", "owner"}
  BY <1>2, <1>8 DEF Covers, NothingRead
<1>13. j.read \subseteq Stored(p, t)
  BY DEF Stored, Replaced, Upserted
<1> HIDE DEF last, now, next, j
<1>14. /\ \A q \in Procs \ {p} : /\ cursor'[q] = cursor[q] /\ job'[q] = job[q]
                                 /\ doubtful'[q] = doubtful[q] /\ proc'[q] = proc[q]
                                 /\ cache'[q] = cache[q]
       /\ \A u \in Tables \ {t} : /\ cursor'[p][u] = cursor[p][u] /\ job'[p][u] = job[p][u]
                                  /\ cache'[p][u] = cache[p][u]
       /\ cursor'[p][t] = next /\ job'[p][t].at = "done"
       /\ doubtful'[p] = Doubts(p, t, stored)
       /\ cache'[p][t] = (IF changes /\ stored THEN Stored(p, t) ELSE cache[p][t])
  BY <1>1, <1>2, <1>3 DEF SyncOK, CacheOK, ProcOK, NoJob
<1>15. proc'[p].main = proc[p].main
  BY <1>1, <1>3 DEF ProcOK, Changed, Opened, Proc
<1>16. ASSUME NEW u \in Tables \ {t} PROVE Covers(p, u)'
  <2>1. u \in doubtful'[p] <=> u \in doubtful[p]
    BY <1>7, <1>14
  <2>2. QED  BY <1>2, <1>14, <1>15, <2>1, CoverFrame DEF world, CoverInv
<1>17. Covers(p, t)'
  <2>1. CASE t \in doubtful'[p]
    BY <1>12, <1>14, <1>15, <2>1
       DEF Covers, CursorIsSeen, ReadIsSeen, StoreCovers, NothingRead
  <2>2. CASE t \notin doubtful'[p]
    <3>1. /\ next <= newest[t]
          /\ proc[p].main = "run" =>
               \A v \in Timely(t) : v.stamp <= next => v \in cache'[p][t]
      <4>1. CASE t \in doubtful[p]
        <5>1. stored /\ j.kind # "delta" /\ next = last
          BY <1>7, <1>14, <2>2, <4>1
        <5>2. ASSUME NEW v \in Timely(t), v.stamp <= next PROVE v \in cache'[p][t]
          <6>1. v \in j.read
            BY <1>9, <5>1, <5>2
          <6>2. QED  BY <1>13, <1>14, <5>1, <6>1
        <5>3. QED  BY <1>9, <5>1, <5>2
      <4>2. CASE t \notin doubtful[p] /\ last = 0
        <5>1. next = now
          BY <1>7, <1>14, <2>2, <4>2
        <5>2. QED  BY <1>10, <1>11, <1>14, <4>2, <5>1
      <4>3. CASE t \notin doubtful[p] /\ last # 0
        <5>1. stored /\ changes
          BY <1>5, <1>7, <1>14, <2>2, <4>3
        <5>2. next = last \/ next = now
          BY <1>6, <4>3
        <5>3. QED  BY <1>9, <1>10, <1>11, <1>14, <4>3, <5>1, <5>2
      <4>4. QED  BY <4>1, <4>2, <4>3
    <3>2. newest'[t] = newest[t] /\ Timely(t)' = Timely(t)
      BY <1>2 DEF world, Timely
    <3>3. CursorIsSeen(p, t)' /\ ReadIsSeen(p, t)' /\ StoreCovers(p, t)'
      BY <1>14, <1>15, <3>1, <3>2 DEF CursorIsSeen, ReadIsSeen, StoreCovers
    <3>4. NothingRead(p, t)'
      BY <1>12, <1>15 DEF NothingRead
    <3>5. QED  BY <3>3, <3>4 DEF Covers
  <2>3. QED  BY <2>1, <2>2
<1>18. QED  BY <1>2, <1>14, <1>16, <1>17, CoverOthers

LEMMA CoverInit == ASSUME CacheAssumption, CacheInit PROVE CoverInv
<1>1. StampsInOrder
  BY DEF CacheInit, StampsInOrder, Empty
<1>2. ASSUME NEW p \in Procs, NEW t \in Tables PROVE Covers(p, t)
  BY DEF CacheInit, Empty, NoJob, NewProc, Covers, CursorIsSeen, ReadIsSeen, StoreCovers,
         NothingRead
<1>3. QED  BY <1>1, <1>2 DEF CoverInv

LEMMA CoverNext ==
    ASSUME CacheAssumption, CacheTypeOK, FenceInv, CoverInv, [CacheNext]_cacheVars
    PROVE  CoverInv'
<1> USE DEF coordination, sync
<1>1. CASE Writer
  BY <1>1, CoverWriter
<1>2. CASE Expire \/ UNCHANGED cacheVars
  <2>1. UNCHANGED world /\ UNCHANGED <<proc, cache, cursor, job, doubtful>>
    BY <1>2 DEF Expire, cacheVars
  <2>2. QED  BY <2>1, CoverStutter
<1>3. CASE \E p \in Procs : Main(p)
  BY <1>3, CoverMain
<1>4. CASE \E p \in Procs : Worker(p) \/ FenceFails(p)
  BY <1>4, CoverWorker
<1>5. CASE \E p \in Procs : ProcessDies(p)
  BY <1>5, CoverEnd DEF ProcessDies
<1>6. CASE \E p \in Procs, t \in Tables : Job(p, t) \/ FetchFails(p, t)
  BY <1>6, CoverFetch, CoverFetchFails, CoverStore DEF Job
<1>7. QED  BY <1>1, <1>2, <1>3, <1>4, <1>5, <1>6 DEF CacheNext

-----------------------------------------------------------------------------
\* The three promises of the cache of pg_duckdb_sync_service.py and
\* duckdb_cache_store.py: one writer at a time; the cursor of _poll_table passes no
\* row that was committed in order, except after a batch that was lost; and a store
\* without unpublished changes is what its snapshot file shows.
THEOREM CacheCanBeTrusted ==
    ASSUME CacheAssumption PROVE CacheSpec => []CacheIsSound
<1>1. CacheInit => CacheTypeOK /\ FenceInv /\ CoverInv /\ CleanIsPublished
  <2>1. CacheInit => CleanIsPublished
    BY DEF CacheInit, CleanIsPublished, NewProc
  <2>2. QED  BY <2>1, TypeInit, FenceInit, CoverInit
<1>2. CacheTypeOK /\ FenceInv /\ CoverInv /\ CleanIsPublished /\ [CacheNext]_cacheVars
        => (CacheTypeOK /\ FenceInv /\ CoverInv /\ CleanIsPublished)'
  BY TypeNext, FenceNext, CoverNext, CleanNext
<1>3. FenceInv /\ CoverInv /\ CleanIsPublished => CacheIsSound
  BY CoverImplies DEF FenceInv, CacheIsSound
<1>4. QED  BY <1>1, <1>2, <1>3, PTL DEF CacheSpec

=============================================================================
