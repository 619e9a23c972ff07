--------------------------- MODULE PgChannelProofs ---------------------------
(***************************************************************************)
(* Theorems about PgChannel that hold for every set of processes, every    *)
(* number of tasks and chats, both claim strategies and every bound on     *)
(* crashes and faults.  What each one needs beyond ConstantsAssumption is  *)
(* an ASSUME of its own theorem.                                           *)
(***************************************************************************)
EXTENDS PgChannel, FiniteSetTheorems, TLAPS

-----------------------------------------------------------------------------
\* Lemmas about the helpers.

\* Every set of tasks is finite, so its cardinality is a number.
LEMMA TasksFinite ==
    /\ IsFiniteSet(Tasks)
    /\ \A S \in SUBSET Tasks : IsFiniteSet(S) /\ Cardinality(S) \in Nat
<1>1. IsFiniteSet(Tasks)
  BY ConstantsAssumption, FS_Interval, 1 \in Int DEF Tasks
<1>2. QED  BY <1>1, FS_Subset, FS_CardinalityType

\* The chat of a task is a chat.
LEMMA ChatOfTask == \A t \in Tasks : ChatOf[t] \in Chats
BY DEF Chats

\* Counting an attempt stays within the bound, and Exhausted is the bound.
LEMMA BumpedType ==
    \A n \in 0..MaxStuckRetries :
      /\ Bumped(n) \in 0..MaxStuckRetries
      /\ Exhausted(Bumped(n)) => Bumped(n) = MaxStuckRetries
BY ConstantsAssumption DEF Bumped, Exhausted

\* The local state of a process that starts.
LEMMA FreshLocalType == FreshLocal \in Locals
BY ConstantsAssumption DEF FreshLocal, Locals

\* _release_slot keeps the local state well formed.
LEMMA ReleaseSlotType ==
    \A l \in Locals, t \in Tasks : ReleaseSlot(l, t) \in Locals
<1> SUFFICES ASSUME NEW l \in Locals, NEW t \in Tasks
             PROVE  ReleaseSlot(l, t) \in Locals
  OBVIOUS
<1>1. (IF t \in l.inflight THEN l.permits + 1 ELSE l.permits) \in Nat
  BY DEF Locals
<1>2. (IF t \in l.msgChat THEN l.busy \ {ChatOf[t]} ELSE l.busy) \in SUBSET Chats
  BY DEF Locals
<1>3. QED  BY <1>1, <1>2 DEF Locals, ReleaseSlot

\* So does the end of a turn.
LEMMA ForgetType == \A l \in Locals, t \in Tasks : Forget(l, t) \in Locals
<1> SUFFICES ASSUME NEW l \in Locals, NEW t \in Tasks
             PROVE  Forget(l, t) \in Locals
  OBVIOUS
<1>1. [l EXCEPT !.ctx = @ \ {t}] \in Locals
  BY DEF Locals
<1>2. QED  BY <1>1, ReleaseSlotType DEF Forget

\* Deleting claims leaves every other claim as it is.
LEMMA DeleteClaimsType ==
    \A w, T : claim \in [Tasks -> Workers \cup {NoWorker}] =>
      DeleteClaims(w, T) \in [Tasks -> Workers \cup {NoWorker}]
BY DEF DeleteClaims

\* The polling coroutine at the top of its loop.
LEMMA AtTopType ==
    \A p \in Idle \cup {"stopping", "off"} :
      AtTop(p) \in Loops /\ HoldsTask(AtTop(p))
BY DEF AtTop, Loops, Idle, Running, HoldsTask, InTask

\* The lease and unstick coroutine asleep.
LEMMA AsleepType == Asleep \in Beats
BY DEF Asleep, Beats

-----------------------------------------------------------------------------
\* Type correctness.

\* What the candidate query returns is a task.
LEMMA OldestCandidate ==
    \A w \in Workers : Oldest(Candidates(Scope(w))) \subseteq Tasks
BY ConstantsAssumption DEF Oldest, Candidates, Scope

LEMMA InitTypeOK == Init => TypeOK
<1> SUFFICES ASSUME Init PROVE TypeOK
  OBVIOUS
<1>1. /\ \A w \in Workers : loop[w] \in Loops /\ HoldsTask(loop[w])
      /\ loop \in [Workers -> Loops]
      /\ local \in [Workers -> Locals] /\ beat \in [Workers -> Beats]
  BY AtTopType, AsleepType, FreshLocalType DEF Init, Idle
<1>2. QED
  BY <1>1, ConstantsAssumption DEF Init, TypeOK, Statuses, RowStatuses

\* An injected fault stays within its bound.
LEMMA FaultType == faults \in 0..MaxFaults /\ Fault => faults' \in 0..MaxFaults
BY ConstantsAssumption DEF Fault

\* The environment: the web application and time.
LEMMA EnvironmentTypeOK ==
    ASSUME TypeOK, NEW t \in Tasks,
           Submit(t) \/ Cancel(t) \/ Age(t) \/ ExpireLease(t)
    PROVE  TypeOK'
<1>1. CASE Submit(t)
  BY <1>1 DEF TypeOK, Submit, Statuses
<1>2. CASE Cancel(t)
  BY <1>2 DEF TypeOK, Cancel, Statuses
<1>3. CASE Age(t)
  BY <1>3 DEF TypeOK, Age
<1>4. CASE ExpireLease(t)
  BY <1>4, FaultType DEF TypeOK, ExpireLease
<1>5. QED  BY <1>1, <1>2, <1>3, <1>4

\* The steps of the claim.
LEMMA ClaimTypeOK ==
    ASSUME TypeOK, NEW w \in Workers, Claim(w) \/ NothingClaimed(w)
    PROVE  TypeOK'
<1>1. CASE Select(w)
  <2>1. PICK t \in Tasks : loop' = [loop EXCEPT ![w] =
                  [at |-> "insert", task |-> t, row |-> 0,
                   urgent |-> loop[w].at = "priority"]]
    BY <1>1, OldestCandidate DEF Select
  <2>2. LET l == [at |-> "insert", task |-> t, row |-> 0,
                  urgent |-> loop[w].at = "priority"]
        IN  l \in Loops /\ HoldsTask(l)
    BY DEF Loops, Running, InTask, HoldsTask
  <2>3. QED  BY <1>1, <2>1, <2>2 DEF TypeOK, Select, db
<1>2. CASE Insert(w)
  <2>1. loop[w].task \in Tasks
    BY <1>2 DEF TypeOK, Insert, HoldsTask, InTask
  <2>2. LET l == [loop[w] EXCEPT !.at = "check"]
        IN  l \in Loops /\ HoldsTask(l)
    BY <2>1 DEF TypeOK, Loops, Running, InTask, HoldsTask
  <2>3. [local[w] EXCEPT !.lease = @ \cup {loop[w].task}] \in Locals
    BY <2>1 DEF TypeOK, Locals
  <2>4. QED  BY <1>2, <2>1, <2>2, <2>3 DEF TypeOK, Insert, Statuses
<1>3. CASE ClaimLost(w)
  BY <1>3, AtTopType DEF TypeOK, ClaimLost, db, Idle
<1>4. CASE ClaimSingle(w)
  <2>1. PICK t \in Tasks :
          /\ status' = [status EXCEPT ![t] = "processing"]
          /\ aged' = [aged EXCEPT ![t] = FALSE]
          /\ local' = [local EXCEPT ![w].lease = @ \cup {t}]
          /\ loop' = [loop EXCEPT ![w] =
                        [at |-> "check", task |-> t, row |-> 0,
                         urgent |-> loop[w].at = "priority"]]
    BY <1>4, OldestCandidate DEF ClaimSingle
  <2>2. LET l == [at |-> "check", task |-> t, row |-> 0,
                  urgent |-> loop[w].at = "priority"]
        IN  l \in Loops /\ HoldsTask(l)
    BY DEF Loops, Running, InTask, HoldsTask
  <2>3. [local[w] EXCEPT !.lease = @ \cup {t}] \in Locals
    BY DEF TypeOK, Locals
  <2>4. QED  BY <1>4, <2>1, <2>2, <2>3 DEF TypeOK, ClaimSingle, Statuses
<1>5. CASE NothingClaimed(w)
  BY <1>5, AtTopType DEF TypeOK, NothingClaimed, NextPoll, db, Idle
<1>6. QED  BY <1>1, <1>2, <1>3, <1>4, <1>5 DEF Claim

\* The coroutine goes on with its task.
LEMMA NextAtType ==
    \A l \in Loops, p \in InTask \ {"slot"} :
      l.task \in Tasks => /\ [l EXCEPT !.at = p] \in Loops
                          /\ HoldsTask([l EXCEPT !.at = p])
BY DEF Loops, Running, InTask, HoldsTask

\* The result of _mark_failed is well formed.
LEMMA MarkFailedTypeOK ==
    ASSUME TypeOK, NEW w, NEW T, NEW row, MarkFailed(w, T, row)
    PROVE  /\ retry' \in [Tasks -> 0..MaxStuckRetries]
           /\ status' \in [Tasks -> Statuses]
           /\ aged' \in [Tasks -> BOOLEAN]
           /\ answer' \in [Tasks -> [Rows -> RowStatuses]]
           /\ claim' \in [Tasks -> Workers \cup {NoWorker}]
           /\ expired' \in [Tasks -> BOOLEAN]
<1>1. retry' \in [Tasks -> 0..MaxStuckRetries]
  BY BumpedType DEF TypeOK, MarkFailed
<1>2. status' \in [Tasks -> Statuses]
  BY DEF TypeOK, MarkFailed, Statuses
<1>3. aged' \in [Tasks -> BOOLEAN] /\ expired' \in [Tasks -> BOOLEAN]
  BY DEF TypeOK, MarkFailed
<1>4. answer' \in [Tasks -> [Rows -> RowStatuses]]
  BY DEF TypeOK, MarkFailed, RowStatuses
<1>5. claim' \in [Tasks -> Workers \cup {NoWorker}]
  BY DeleteClaimsType DEF TypeOK, MarkFailed
<1>6. QED  BY <1>1, <1>2, <1>3, <1>4, <1>5

\* The steps of the dispatch.
LEMMA DispatchTypeOK ==
    ASSUME TypeOK, NEW w \in Workers,
           \/ Recheck(w) \/ Deliver(w) \/ Settle(w) \/ Place(w) \/ Slot(w)
           \/ Defer(w) \/ Undo(w) \/ MarkDispatch(w) \/ PollError(w)
    PROVE  TypeOK'
<1> DEFINE t == loop[w].task
<1>t. /\ loop[w] \in Loops /\ HoldsTask(loop[w]) /\ local[w] \in Locals
      /\ loop[w].at \in InTask /\ t \in Tasks /\ ChatOf[t] \in Chats
  <2>1. loop[w].at \in InTask
    BY DEF Recheck, Deliver, Settle, Place, Slot, Defer, Undo, MarkDispatch,
           PollError, InTask
  <2>2. QED  BY <2>1, ChatOfTask DEF TypeOK, HoldsTask
<1>1. CASE Recheck(w)
  <2>1. PICK p \in InTask \ {"slot"} : loop' = [loop EXCEPT ![w].at = p]
    BY <1>1 DEF Recheck, InTask
  <2>2. QED  BY <1>1, <1>t, <2>1, NextAtType DEF TypeOK, Recheck, db
<1>2. CASE Deliver(w)
  <2>1. PICK p \in InTask \ {"slot"} : loop' = [loop EXCEPT ![w].at = p]
    BY <1>2 DEF Deliver, InTask
  <2>2. [local[w] EXCEPT !.msgChat = @ \cup {t}] \in Locals
    BY <1>t DEF Locals
  <2>3. loop' \in [Workers -> Loops] /\ \A v \in Workers : HoldsTask(loop'[v])
    BY <1>t, <2>1, NextAtType DEF TypeOK
  <2>4. delivered' \in [Tasks -> 0..2] /\ faults' \in 0..MaxFaults
    BY <1>2, <1>t, ConstantsAssumption DEF TypeOK, Deliver, Fault
  <2>5. QED  BY <1>2, <2>2, <2>3, <2>4 DEF TypeOK, Deliver, db
<1>3. CASE Settle(w)
  <2>1. [local[w] EXCEPT !.lease = @ \ {t}, !.ctx = @ \ {t},
                         !.msgChat = @ \ {t}] \in Locals
    BY <1>t DEF Locals
  <2>2. QED
    BY <1>3, <2>1, AtTopType, DeleteClaimsType DEF TypeOK, Settle, Idle
<1>4. CASE Place(w)
  <2>1. /\ loop' \in [Workers -> Loops] /\ \A v \in Workers : HoldsTask(loop'[v])
        /\ answer' \in [Tasks -> [Rows -> RowStatuses]]
        /\ local' \in [Workers -> Locals] /\ faults' \in 0..MaxFaults
    <3>1. CASE \E r \in Oldest(FreeRows(t)) :
                 /\ answer' = [answer EXCEPT ![t][r] = "processing"]
                 /\ loop' = [loop EXCEPT ![w].at = "slot", ![w].row = r]
                 /\ local' = [local EXCEPT ![w].ctx = @ \cup {t}]
                 /\ UNCHANGED faults
      <4>1. PICK r \in Rows :
                 /\ answer' = [answer EXCEPT ![t][r] = "processing"]
                 /\ loop' = [loop EXCEPT ![w].at = "slot", ![w].row = r]
                 /\ local' = [local EXCEPT ![w].ctx = @ \cup {t}]
                 /\ UNCHANGED faults
        BY <3>1 DEF Oldest, FreeRows
      <4>2. LET l == [loop[w] EXCEPT !.at = "slot", !.row = r]
            IN  l \in Loops /\ HoldsTask(l)
        BY <1>t DEF Loops, Running, InTask, HoldsTask
      <4>3. [local[w] EXCEPT !.ctx = @ \cup {t}] \in Locals
        BY <1>t DEF Locals
      <4>4. QED  BY <4>1, <4>2, <4>3, <1>t DEF TypeOK, RowStatuses
    <3>2. CASE /\ Fault /\ loop' = [loop EXCEPT ![w].at = "defer"]
               /\ UNCHANGED <<answer, local>>
      <4>1. LET l == [loop[w] EXCEPT !.at = "defer"] IN l \in Loops /\ HoldsTask(l)
        BY <1>t, NextAtType DEF InTask
      <4>2. QED  BY <3>2, <4>1, FaultType DEF TypeOK
    <3>3. QED  BY <1>4, <3>1, <3>2 DEF Place
  <2>2. QED  BY <1>4, <2>1 DEF TypeOK, Place
<1>5. CASE Slot(w)
  <2>1. [local[w] EXCEPT !.permits = @ - 1, !.inflight = @ \cup {t},
                         !.busy = @ \cup {ChatOf[t]},
                         !.msgChat = @ \cup {t}] \in Locals
    <3>1. local[w].permits - 1 \in Nat
      BY <1>5, <1>t DEF Slot, Locals
    <3>2. QED  BY <3>1, <1>t DEF Locals
  <2>2. [worker |-> w, task |-> t, row |-> loop[w].row, at |-> "running"] \in Turns
    BY <1>5, <1>t DEF Slot, HoldsTask, Turns
  <2>3. loop' \in [Workers -> Loops] /\ \A v \in Workers : HoldsTask(loop'[v])
    <3>1. LET l == [loop[w] EXCEPT !.at = "mark"] IN l \in Loops /\ HoldsTask(l)
      BY <1>t, NextAtType DEF InTask
    <3>2. CASE loop' = [loop EXCEPT ![w].at = "mark"]
      BY <3>1, <3>2 DEF TypeOK
    <3>3. CASE loop' = [loop EXCEPT ![w] = AtTop("priority")]
      BY <3>3, AtTopType DEF TypeOK, Idle
    <3>4. QED  BY <1>5, <3>2, <3>3 DEF Slot
  <2>4. turns' \in SUBSET Turns /\ faults' \in 0..MaxFaults
    BY <1>5, <2>2, ConstantsAssumption DEF TypeOK, Slot, Fault
  <2>5. QED  BY <1>5, <2>1, <2>3, <2>4 DEF TypeOK, Slot, db
<1>6. CASE Defer(w)
  BY <1>6, <1>t, NextAtType DEF TypeOK, Defer, Statuses, InTask
<1>7. CASE Undo(w)
  <2>1. [local[w] EXCEPT !.lease = @ \ {t},
                         !.ctx = IF loop[w].at = "drop" THEN @ \ {t} ELSE @]
          \in Locals
    BY <1>t DEF Locals
  <2>2. QED  BY <1>7, <2>1, AtTopType, DeleteClaimsType DEF TypeOK, Undo, Idle
<1>8. CASE MarkDispatch(w)
  BY <1>8, <1>t, AtTopType, ForgetType, MarkFailedTypeOK
  DEF TypeOK, MarkDispatch, Idle
<1>9. CASE PollError(w)
  BY <1>9, AtTopType, ConstantsAssumption DEF TypeOK, PollError, Fault, Idle, db
<1>10. QED  BY <1>1, <1>2, <1>3, <1>4, <1>5, <1>6, <1>7, <1>8, <1>9

\* The steps that end a turn.
LEMMA FinalTypeOK ==
    ASSUME TypeOK, NEW u \in turns,
           \/ Finish(u) \/ FinalWriteFails(u) \/ FinalError(u)
           \/ FinalUnresolved(u)
    PROVE  TypeOK'
<1>t. /\ u \in Turns /\ turns \in SUBSET Turns
      /\ u.worker \in Workers /\ u.task \in Tasks /\ u.row \in Rows
      /\ local[u.worker] \in Locals
  BY DEF TypeOK, Turns
<1>a. \A p \in {"running", "write", "drop", "mark"} :
        Becomes(u, p) => turns' \in SUBSET Turns
  BY <1>t DEF Becomes, Turns
<1>b. \A s \in RowStatuses :
        SetRow(u.task, u.row, s) \in [Tasks -> [Rows -> RowStatuses]]
  BY <1>t DEF TypeOK, SetRow, RowStatuses
<1>1. CASE FinalCheck(u)
  BY <1>1, <1>a DEF TypeOK, FinalCheck, db
<1>2. CASE FinalWrite(u)
  BY <1>2, <1>t, <1>b, ForgetType, DeleteClaimsType
  DEF TypeOK, FinalWrite, Statuses, RowStatuses
<1>3. CASE FinalWriteFails(u)
  BY <1>3, <1>a, FaultType DEF TypeOK, FinalWriteFails, db
<1>4. CASE FinalMark(u)
  BY <1>4, <1>t, ForgetType, MarkFailedTypeOK DEF TypeOK, FinalMark
<1>5. CASE FinalError(u)
  BY <1>5, <1>t, FaultType DEF TypeOK, FinalError, db
<1>6. CASE FinalDrop(u)
  BY <1>6, <1>t, <1>b, ForgetType, DeleteClaimsType
  DEF TypeOK, FinalDrop, RowStatuses
<1>7. CASE FinalUnresolved(u)
  <2> DEFINE l == local[u.worker]
             T == {t \in l.msgChat : ChatOf[t] = ChatOf[u.task]}
  <2>1. l.permits + Cardinality(T \cap l.inflight) \in Nat
    BY <1>t, TasksFinite DEF Locals
  <2>2. [l EXCEPT !.ctx = @ \ T, !.lease = @ \ T,
                  !.permits = @ + Cardinality(T \cap l.inflight),
                  !.inflight = @ \ T, !.msgChat = @ \ T,
                  !.busy = @ \ {ChatOf[u.task]}] \in Locals
    BY <1>t, <2>1 DEF Locals
  <2>3. local' \in [Workers -> Locals]
    BY <1>7, <1>t, <2>2 DEF TypeOK, FinalUnresolved
  <2>4. QED
    BY <1>7, <1>t, <2>3, FaultType, MarkFailedTypeOK DEF TypeOK, FinalUnresolved
<1>8. QED
  BY <1>1, <1>2, <1>3, <1>4, <1>5, <1>6, <1>7 DEF Finish

\* Recovery decides between the statuses that exist.
LEMMA RecoveredType ==
    \A n, s : /\ Recovered(n) \in Statuses
              /\ s \in RowStatuses => RecoveredRow(n, s) \in RowStatuses
BY DEF Recovered, RecoveredRow, Statuses, RowStatuses

\* The steps of the lease loop and of the unstick loop.
LEMMA UpkeepTypeOK ==
    ASSUME TypeOK, NEW w \in Workers, Upkeep(w)
    PROVE  TypeOK'
<1>t. beat[w] \in Beats /\ local[w] \in Locals
  BY DEF TypeOK
<1>1. CASE Heartbeat(w)
  <2>1. [beat[w] EXCEPT !.at = "apply"] \in Beats
    BY <1>t DEF Beats
  <2>2. QED  BY <1>1, <2>1 DEF TypeOK, Heartbeat
<1>2. CASE Reclaim(w)
  <2>1. retry' \in [Tasks -> 0..MaxStuckRetries]
    BY <1>2, BumpedType DEF TypeOK, Reclaim
  <2>2. status' \in [Tasks -> Statuses]
    BY <1>2, RecoveredType DEF TypeOK, Reclaim, Statuses
  <2>3. aged' \in [Tasks -> BOOLEAN]
    BY <1>2 DEF TypeOK, Reclaim
  <2>4. answer' \in [Tasks -> [Rows -> RowStatuses]]
    BY <1>2, RecoveredType DEF TypeOK, Reclaim
  <2>5. claim' \in [Tasks -> Workers \cup {NoWorker}]
    BY <1>2 DEF TypeOK, Reclaim
  <2>6. QED
    BY <1>2, <2>1, <2>2, <2>3, <2>4, <2>5, AsleepType DEF TypeOK, Reclaim
<1>3. CASE UnstickRead(w)
  <2> DEFINE S == {[task |-> t, retry |-> retry[t]] :
                     t \in {t \in Tasks : status[t] = "processing" /\ aged[t]}}
  <2>1. S \in SUBSET Stale
    BY DEF TypeOK, Stale
  <2>2. [at |-> "apply", read |-> S] \in Beats
    BY <2>1 DEF Beats
  <2>3. QED  BY <1>3, <2>2 DEF TypeOK, UnstickRead, db
<1>4. CASE UnstickApply(w)
  <2> DEFINE read == beat[w].read
             T == {x.task : x \in read}
             Count(t) == Bumped(CHOOSE n \in 0..MaxStuckRetries :
                                  [task |-> t, retry |-> n] \in read)
             known == {t \in T : t \in local[w].ctx \cup local[w].inflight}
  <2>1. T \subseteq Tasks
    BY <1>t DEF Beats, Stale
  <2>2. \A t \in T : Count(t) \in 0..MaxStuckRetries
    <3>1. \A t \in T : \E n \in 0..MaxStuckRetries : [task |-> t, retry |-> n] \in read
      BY <1>t DEF Beats, Stale
    <3>2. QED  BY <3>1, BumpedType
  <2> HIDE DEF Count
  <2>3. /\ retry' = [t \in Tasks |-> IF t \in T THEN Count(t) ELSE retry[t]]
        /\ status' = [t \in Tasks |-> IF t \in T THEN Recovered(Count(t))
                                      ELSE status[t]]
        /\ aged' = [t \in Tasks |-> t \notin T /\ aged[t]]
        /\ \E old \in SUBSET (Orphans \ T) :
             answer' = [t \in Tasks |-> [r \in Rows |->
                          IF t \in T THEN RecoveredRow(Count(t), answer[t][r])
                          ELSE IF t \in old /\ answer[t][r] = "processing"
                               THEN "failed" ELSE answer[t][r]]]
    BY <1>4 DEF UnstickApply, Count
  <2>4. retry' \in [Tasks -> 0..MaxStuckRetries]
    BY <2>2, <2>3 DEF TypeOK
  <2>5. status' \in [Tasks -> Statuses] /\ aged' \in [Tasks -> BOOLEAN]
    BY <2>3, RecoveredType DEF TypeOK
  <2>6. answer' \in [Tasks -> [Rows -> RowStatuses]]
    <3>1. PICK old : answer' = [t \in Tasks |-> [r \in Rows |->
                       IF t \in T THEN RecoveredRow(Count(t), answer[t][r])
                       ELSE IF t \in old /\ answer[t][r] = "processing"
                            THEN "failed" ELSE answer[t][r]]]
      BY <2>3
    <3>2. QED  BY <3>1, RecoveredType DEF TypeOK, RowStatuses
  <2>7. local' \in [Workers -> Locals]
    <3>1. local[w].permits + Cardinality(known \cap local[w].inflight) \in Nat
      BY <1>t, TasksFinite DEF Locals
    <3>2. [local[w] EXCEPT
             !.ctx = @ \ known, !.lease = @ \ known,
             !.permits = @ + Cardinality(known \cap local[w].inflight),
             !.inflight = @ \ known,
             !.busy = @ \ {ChatOf[t] : t \in known \cap local[w].msgChat},
             !.msgChat = @ \ known] \in Locals
      BY <1>t, <3>1 DEF Locals
    <3>3. QED  BY <1>4, <3>2 DEF TypeOK, UnstickApply
  <2>8. QED
    BY <1>4, <2>4, <2>5, <2>6, <2>7, AsleepType DEF TypeOK, UnstickApply
<1>5. QED  BY <1>1, <1>2, <1>3, <1>4 DEF Upkeep

\* The steps in which a process stops, dies or starts.
LEMMA LifecycleTypeOK ==
    ASSUME TypeOK, NEW w \in Workers,
           Crash(w) \/ Stop(w) \/ ReleaseAllLeases(w) \/ Restart(w)
    PROVE  TypeOK'
<1>h. \A p \in {"off", "stopping"} : Halt(w, p) =>
        /\ loop' \in [Workers -> Loops] /\ \A v \in Workers : HoldsTask(loop'[v])
        /\ turns' \in SUBSET Turns /\ beat' \in [Workers -> Beats]
        /\ crashes' \in 0..MaxCrashes
        /\ UNCHANGED <<db, delivered, faults>>
  BY AtTopType, AsleepType, ConstantsAssumption DEF TypeOK, Halt
<1>1. CASE Crash(w)
  BY <1>1, <1>h, FreshLocalType DEF TypeOK, Crash, db
<1>2. CASE Stop(w)
  BY <1>2, <1>h DEF TypeOK, Stop, db
<1>3. CASE ReleaseAllLeases(w)
  <2>1. status' \in [Tasks -> Statuses] /\ aged' \in [Tasks -> BOOLEAN]
    BY <1>3 DEF TypeOK, ReleaseAllLeases, Statuses
  <2>2. answer' \in [Tasks -> [Rows -> RowStatuses]]
    BY <1>3 DEF TypeOK, ReleaseAllLeases, RowStatuses
  <2>3. QED
    BY <1>3, <2>1, <2>2, AtTopType, FreshLocalType, DeleteClaimsType
    DEF TypeOK, ReleaseAllLeases
<1>4. CASE Restart(w)
  BY <1>4, AtTopType DEF TypeOK, Restart, Idle, db
<1>5. QED  BY <1>1, <1>2, <1>3, <1>4

LEMMA NextTypeOK == TypeOK /\ [Next]_vars => TypeOK'
<1> SUFFICES ASSUME TypeOK, [Next]_vars PROVE TypeOK'
  OBVIOUS
<1>1. CASE \E w \in Workers : Poll(w) \/ Upkeep(w) \/ ReleaseAllLeases(w)
  BY <1>1, ClaimTypeOK, DispatchTypeOK, UpkeepTypeOK, LifecycleTypeOK DEF Poll
<1>2. CASE \E u \in turns : Finish(u)
  BY <1>2, FinalTypeOK
<1>3. CASE Environment
  BY <1>3, EnvironmentTypeOK, DispatchTypeOK, LifecycleTypeOK, FinalTypeOK
  DEF Environment
<1>4. CASE UNCHANGED vars
  BY <1>4 DEF TypeOK, vars
<1>5. QED  BY <1>1, <1>2, <1>3, <1>4 DEF Next

\* Every row, claim and in-memory set stays well formed, whatever crashes,
\* faults and late heartbeats do; a polling coroutine past its claim always
\* holds a task.
THEOREM TypeCorrect == Spec => []TypeOK
BY InitTypeOK, NextTypeOK, PTL DEF Spec

-----------------------------------------------------------------------------
\* No task is given up before its retries are used up.  The property is
\* inductive: a count is only ever written together with the status.

\* _mark_failed counts before it decides between error and failed.
LEMMA MarkFailedCounts ==
    ASSUME TypeOK, FailedUsedUpRetries, NEW w, NEW T, NEW row,
           MarkFailed(w, T, row)
    PROVE  FailedUsedUpRetries'
BY ConstantsAssumption, BumpedType
DEF TypeOK, FailedUsedUpRetries, MarkFailed, Exhausted

\* The steps that write neither a status nor a count, or no failed status.
LEMMA OthersCount ==
    ASSUME TypeOK, FailedUsedUpRetries, UNCHANGED retry,
           \A t \in Tasks : status'[t] = "failed" => status[t] = "failed"
    PROVE  FailedUsedUpRetries'
BY DEF FailedUsedUpRetries

LEMMA ReclaimCounts ==
    ASSUME TypeOK, FailedUsedUpRetries, NEW w \in Workers, Reclaim(w)
    PROVE  FailedUsedUpRetries'
<1> SUFFICES ASSUME NEW t \in Tasks, status'[t] = "failed"
             PROVE  retry'[t] >= MaxStuckRetries
  BY DEF FailedUsedUpRetries
<1> DEFINE open == t \in Overdue(w) /\ status[t] = "processing"
<1>1. CASE open
  <2>1. retry'[t] = Bumped(retry[t])
    BY <1>1 DEF Reclaim
  <2>2. Recovered(Bumped(retry[t])) = "failed"
    BY <1>1 DEF Reclaim, Recovered
  <2>3. QED
    BY <2>1, <2>2, BumpedType, ConstantsAssumption DEF TypeOK, Recovered
<1>2. CASE ~open
  <2>1. retry'[t] = retry[t] /\ status[t] = "failed"
    BY <1>2 DEF Reclaim, TypeOK
  <2>2. QED  BY <2>1 DEF FailedUsedUpRetries
<1>3. QED  BY <1>1, <1>2

LEMMA UnstickCounts ==
    ASSUME TypeOK, FailedUsedUpRetries, NEW w \in Workers, UnstickApply(w)
    PROVE  FailedUsedUpRetries'
<1> SUFFICES ASSUME NEW t \in Tasks, status'[t] = "failed"
             PROVE  retry'[t] >= MaxStuckRetries
  BY DEF FailedUsedUpRetries
<1> DEFINE T == {x.task : x \in beat[w].read}
           n == Bumped(CHOOSE k \in 0..MaxStuckRetries :
                         [task |-> t, retry |-> k] \in beat[w].read)
<1>0. /\ retry'[t] = IF t \in T THEN n ELSE retry[t]
      /\ status'[t] = IF t \in T THEN Recovered(n) ELSE status[t]
  BY DEF UnstickApply
<1>1. CASE t \in T
  <2>1. Exhausted(n)
    BY <1>0, <1>1 DEF Recovered
  <2>2. n = MaxStuckRetries
    <3>1. \E k \in 0..MaxStuckRetries : [task |-> t, retry |-> k] \in beat[w].read
      BY <1>1 DEF TypeOK, Beats, Stale
    <3>2. QED  BY <2>1, <3>1, BumpedType
  <2>3. QED  BY <1>0, <1>1, <2>2, ConstantsAssumption
<1>2. CASE t \notin T
  BY <1>0, <1>2 DEF FailedUsedUpRetries
<1>3. QED  BY <1>1, <1>2

LEMMA NextCounts ==
    ASSUME TypeOK, FailedUsedUpRetries, [Next]_vars
    PROVE  FailedUsedUpRetries'
<1>1. ASSUME NEW w \in Workers, Poll(w) PROVE FailedUsedUpRetries'
  <2>1. CASE MarkDispatch(w)
    BY <2>1, MarkFailedCounts DEF MarkDispatch
  <2>2. CASE ~MarkDispatch(w)
    BY <1>1, <2>2, OthersCount
    DEF Poll, Claim, Select, Insert, ClaimLost, ClaimSingle, NothingClaimed,
        Recheck, Deliver, Settle, Place, Slot, Defer, Undo, db, TypeOK
  <2>3. QED  BY <2>1, <2>2
<1>2. ASSUME NEW w \in Workers, Upkeep(w) PROVE FailedUsedUpRetries'
  <2>1. CASE Heartbeat(w) \/ UnstickRead(w)
    BY <2>1, OthersCount DEF Heartbeat, UnstickRead, db
  <2>2. QED  BY <1>2, <2>1, ReclaimCounts, UnstickCounts DEF Upkeep
<1>3. ASSUME NEW w \in Workers, ReleaseAllLeases(w) PROVE FailedUsedUpRetries'
  BY <1>3, OthersCount DEF ReleaseAllLeases, TypeOK
<1>4. ASSUME NEW u \in turns, Finish(u) PROVE FailedUsedUpRetries'
  <2>1. CASE FinalMark(u)
    BY <2>1, MarkFailedCounts DEF FinalMark
  <2>2. CASE ~FinalMark(u)
    BY <1>4, <2>2, OthersCount
    DEF Finish, FinalCheck, FinalWrite, FinalDrop, db, TypeOK, Turns
  <2>3. QED  BY <2>1, <2>2
<1>5. ASSUME Environment PROVE FailedUsedUpRetries'
  <2>1. ASSUME NEW t \in Tasks, Submit(t) \/ Cancel(t) \/ Age(t) \/ ExpireLease(t)
        PROVE  FailedUsedUpRetries'
    BY <2>1, OthersCount DEF Submit, Cancel, Age, ExpireLease, TypeOK
  <2>2. ASSUME NEW w \in Workers, PollError(w) \/ Crash(w) \/ Stop(w) \/ Restart(w)
        PROVE  FailedUsedUpRetries'
    BY <2>2, OthersCount DEF PollError, Crash, Stop, Halt, Restart, db
  <2>3. ASSUME NEW u \in turns, FinalWriteFails(u) \/ FinalError(u)
        PROVE  FailedUsedUpRetries'
    BY <2>3, OthersCount DEF FinalWriteFails, FinalError, db
  <2>4. ASSUME NEW u \in turns, FinalUnresolved(u) PROVE FailedUsedUpRetries'
    BY <2>4, MarkFailedCounts DEF FinalUnresolved
  <2>5. QED  BY <1>5, <2>1, <2>2, <2>3, <2>4 DEF Environment
<1>6. CASE UNCHANGED vars
  BY <1>6, OthersCount DEF vars
<1>7. QED  BY <1>1, <1>2, <1>3, <1>4, <1>5, <1>6 DEF Next

\* No task is failed before max_stuck_retries attempts were counted for it,
\* however _mark_failed, reclaim and unstick interleave.
THEOREM FailuresAreCounted == Spec => []FailedUsedUpRetries
<1>1. Init => FailedUsedUpRetries
  BY DEF Init, FailedUsedUpRetries
<1>2. TypeOK /\ FailedUsedUpRetries /\ [Next]_vars => FailedUsedUpRetries'
  BY NextCounts
<1>3. QED  BY <1>1, <1>2, TypeCorrect, PTL DEF Spec

-----------------------------------------------------------------------------
\* Slots and chats of one process.

\* How a step changes the slots of v: it keeps them, ...
Kept(v) ==
    /\ local'[v].permits = local[v].permits
    /\ local'[v].inflight = local[v].inflight
    /\ local'[v].msgChat = local[v].msgChat
    /\ local'[v].busy = local[v].busy

\* ... gives back those of the tasks T and frees the chats C, ...
Released(v, T, C) ==
    /\ local'[v].permits = local[v].permits + Cardinality(local[v].inflight \cap T)
    /\ local'[v].inflight = local[v].inflight \ T
    /\ local'[v].msgChat = local[v].msgChat \ T
    /\ local'[v].busy = local[v].busy \ C

ChatsOf(v, T) == {ChatOf[t] : t \in T \cap local[v].msgChat}
TasksOf(v, c) == {t \in local[v].msgChat : ChatOf[t] = c}

\* ... or belongs to one of the remaining cases.
SlotsChange(v) ==
    \/ Kept(v)
    \/ \E T \in SUBSET Tasks : Released(v, T, ChatsOf(v, T))
    \/ \E c \in Chats : Released(v, TasksOf(v, c), {c})
    \/ local'[v] = FreshLocal
    \/ Slot(v) \/ Deliver(v) \/ Settle(v)

LEMMA ForgetReleases ==
    ASSUME TypeOK, NEW v \in Workers, NEW t \in Tasks,
           local'[v] = Forget(local[v], t)
    PROVE  Released(v, {t}, ChatsOf(v, {t}))
<1> DEFINE l == local[v]
<1>t. l \in Locals
  BY DEF TypeOK
<1>1. Cardinality(l.inflight \cap {t}) = IF t \in l.inflight THEN 1 ELSE 0
  <2>1. l.inflight \cap {t} = IF t \in l.inflight THEN {t} ELSE {}
    OBVIOUS
  <2>2. QED  BY <2>1, FS_Singleton, FS_EmptySet
<1>2. /\ local'[v].permits = IF t \in l.inflight THEN l.permits + 1 ELSE l.permits
      /\ local'[v].inflight = l.inflight \ {t}
      /\ local'[v].msgChat = l.msgChat \ {t}
      /\ local'[v].busy = IF t \in l.msgChat THEN l.busy \ {ChatOf[t]} ELSE l.busy
  BY <1>t DEF Forget, ReleaseSlot, Locals
<1>3. l.permits + Cardinality(l.inflight \cap {t})
        = IF t \in l.inflight THEN l.permits + 1 ELSE l.permits
  BY <1>t, <1>1 DEF Locals
<1>4. local'[v].busy = l.busy \ ChatsOf(v, {t})
  BY <1>2 DEF ChatsOf
<1>5. QED  BY <1>2, <1>3, <1>4 DEF Released

LEMMA LocalStep ==
    ASSUME TypeOK, [Next]_vars, NEW v \in Workers
    PROVE  SlotsChange(v)
<1>t. local \in [Workers -> Locals] /\ turns \in SUBSET Turns
  BY DEF TypeOK
<1>1. ASSUME NEW w \in Workers, Poll(w) \/ PollError(w) PROVE SlotsChange(v)
  <2>1. CASE v = w /\ (Slot(w) \/ Deliver(w) \/ Settle(w))
    BY <2>1 DEF SlotsChange
  <2>2. CASE v = w /\ MarkDispatch(w)
    <3>1. loop[w].task \in Tasks
      BY <2>2 DEF TypeOK, HoldsTask, MarkDispatch, InTask
    <3>2. local'[v] = Forget(local[v], loop[w].task)
      BY <2>2, <1>t DEF MarkDispatch
    <3>3. QED  BY <3>1, <3>2, ForgetReleases DEF SlotsChange
  <2>3. CASE v = w /\ ~(\/ Slot(w) \/ Deliver(w) \/ Settle(w) \/ MarkDispatch(w))
    <3>1. Kept(v)
      BY <1>1, <1>t, <2>3
      DEF Poll, Claim, Select, Insert, ClaimLost, ClaimSingle, NothingClaimed,
          Recheck, Place, Defer, Undo, PollError, Kept, Locals
    <3>2. QED  BY <3>1 DEF SlotsChange
  <2>4. CASE v # w
    <3>1. local'[v] = local[v]
      BY <1>1, <1>t, <2>4
      DEF Poll, Claim, Select, Insert, ClaimLost, ClaimSingle, NothingClaimed,
          Recheck, Deliver, Settle, Place, Slot, Defer, Undo, MarkDispatch,
          PollError
    <3>2. QED  BY <3>1 DEF SlotsChange, Kept
  <2>5. QED  BY <2>1, <2>2, <2>3, <2>4
<1>2. ASSUME NEW w \in Workers, Upkeep(w) PROVE SlotsChange(v)
  <2>1. CASE UnstickApply(w) /\ v = w
    <3> DEFINE T == {x.task : x \in beat[w].read}
               known == {t \in T : t \in local[w].ctx \cup local[w].inflight}
    <3>1. known \in SUBSET Tasks
      BY <1>t DEF Locals
    <3>2. Released(v, known, ChatsOf(v, known))
      <4>1. known \cap local[w].inflight = local[w].inflight \cap known
        OBVIOUS
      <4>2. local'[w] = [local[w] EXCEPT
               !.ctx = @ \ known, !.lease = @ \ known,
               !.permits = @ + Cardinality(known \cap local[w].inflight),
               !.inflight = @ \ known,
               !.busy = @ \ {ChatOf[t] : t \in known \cap local[w].msgChat},
               !.msgChat = @ \ known]
        BY <1>t, <2>1 DEF UnstickApply
      <4>3. QED  BY <1>t, <2>1, <4>1, <4>2 DEF Released, ChatsOf, Locals
    <3>3. QED  BY <3>1, <3>2 DEF SlotsChange
  <2>2. CASE ~(UnstickApply(w) /\ v = w)
    BY <1>2, <1>t, <2>2
    DEF Upkeep, Heartbeat, Reclaim, UnstickRead, UnstickApply, SlotsChange, Kept
  <2>3. QED  BY <2>1, <2>2
<1>3. ASSUME NEW w \in Workers,
             Crash(w) \/ Stop(w) \/ ReleaseAllLeases(w) \/ Restart(w)
      PROVE  SlotsChange(v)
  BY <1>3, <1>t DEF Crash, Stop, ReleaseAllLeases, Restart, SlotsChange, Kept
<1>4. ASSUME NEW u \in turns,
             Finish(u) \/ FinalWriteFails(u) \/ FinalError(u) \/ FinalUnresolved(u)
      PROVE  SlotsChange(v)
  <2>t. u.worker \in Workers /\ u.task \in Tasks /\ ChatOf[u.task] \in Chats
    BY <1>t, ChatOfTask DEF Turns
  <2>1. CASE v = u.worker /\ (FinalWrite(u) \/ FinalMark(u) \/ FinalDrop(u))
    <3>1. local'[v] = Forget(local[v], u.task)
      BY <1>t, <2>1 DEF FinalWrite, FinalMark, FinalDrop
    <3>2. QED  BY <2>t, <3>1, ForgetReleases DEF SlotsChange
  <2>2. CASE v = u.worker /\ FinalUnresolved(u)
    <3> DEFINE c == ChatOf[u.task]
               T == TasksOf(v, c)
    <3>1. local'[v] = [local[v] EXCEPT
               !.ctx = @ \ T, !.lease = @ \ T,
               !.permits = @ + Cardinality(T \cap local[v].inflight),
               !.inflight = @ \ T, !.msgChat = @ \ T, !.busy = @ \ {c}]
      BY <1>t, <2>2 DEF FinalUnresolved, TasksOf
    <3>2. T \cap local[v].inflight = local[v].inflight \cap T
      OBVIOUS
    <3>3. Released(v, T, {c})
      <4>1. local[v] \in Locals
        BY <1>t
      <4> HIDE DEF T, c
      <4>2. /\ local'[v].inflight = local[v].inflight \ T
            /\ local'[v].msgChat = local[v].msgChat \ T
            /\ local'[v].busy = local[v].busy \ {c}
            /\ local'[v].permits = local[v].permits
                                     + Cardinality(T \cap local[v].inflight)
        BY <3>1, <4>1 DEF Locals
      <4>3. QED  BY <3>2, <4>2 DEF Released
    <3>4. QED  BY <2>t, <3>3 DEF SlotsChange
  <2>3. CASE \/ v # u.worker
             \/ FinalCheck(u) \/ FinalWriteFails(u) \/ FinalError(u)
    <3>1. local'[v] = local[v]
      BY <1>4, <1>t, <2>3
      DEF Finish, FinalCheck, FinalWrite, FinalMark, FinalDrop,
          FinalWriteFails, FinalError, FinalUnresolved
    <3>2. QED  BY <3>1 DEF SlotsChange, Kept
  <2>4. QED  BY <1>4, <2>1, <2>2, <2>3 DEF Finish
<1>5. ASSUME NEW t \in Tasks, Submit(t) \/ Cancel(t) \/ Age(t) \/ ExpireLease(t)
      PROVE  SlotsChange(v)
  BY <1>5 DEF Submit, Cancel, Age, ExpireLease, SlotsChange, Kept
<1>6. CASE UNCHANGED vars
  BY <1>6 DEF vars, SlotsChange, Kept
<1>7. QED  BY <1>1, <1>2, <1>3, <1>4, <1>5, <1>6 DEF Next, Environment

\* How a step changes the polling coroutine of v.
Path == {"insert", "check", "deliver", "settle", "place", "slot"}

LoopChange(v) ==
    \/ loop'[v] = loop[v]
    \/ /\ loop'[v].at \notin Path
       /\ loop'[v].at \in {"undo", "drop"} => Defer(v)
       /\ loop'[v].urgent => loop[v].urgent /\ loop'[v].task = loop[v].task
    \/ Select(v) \/ Insert(v) \/ ClaimSingle(v) \/ Recheck(v)
    \/ Deliver(v) \/ Place(v)

LEMMA LoopStep ==
    ASSUME TypeOK, [Next]_vars, NEW v \in Workers
    PROVE  LoopChange(v)
<1>t. loop \in [Workers -> Loops]
  BY DEF TypeOK
<1>a. \A p \in Idle \cup {"stopping", "off"} :
        AtTop(p).at \notin Path \cup {"undo", "drop"} /\ ~AtTop(p).urgent
  BY DEF AtTop, Path, Idle
<1>1. ASSUME NEW w \in Workers, Poll(w) \/ PollError(w) PROVE LoopChange(v)
  <2>1. CASE v = w /\ (\/ ClaimLost(w) \/ NothingClaimed(w) \/ Settle(w)
                       \/ Undo(w) \/ MarkDispatch(w) \/ PollError(w))
    BY <2>1, <1>t, <1>a
    DEF ClaimLost, NothingClaimed, NextPoll, Settle, Undo, MarkDispatch,
        PollError, Idle, LoopChange
  <2>2. CASE v = w /\ Slot(w)
    <3>1. /\ loop'[v].at \in {"priority", "mark"}
          /\ loop'[v].urgent => loop[v].urgent /\ loop'[v].task = loop[v].task
      <4>1. CASE loop' = [loop EXCEPT ![w] = AtTop("priority")]
        BY <2>2, <4>1, <1>t DEF AtTop
      <4>2. CASE loop' = [loop EXCEPT ![w].at = "mark"]
        BY <2>2, <4>2, <1>t DEF Loops
      <4>3. QED  BY <2>2, <4>1, <4>2 DEF Slot
    <3>2. QED  BY <3>1 DEF LoopChange, Path
  <2>3. CASE v = w /\ Defer(w)
    <3>1. /\ loop'[v].at = "undo" /\ loop'[v].urgent = loop[v].urgent
          /\ loop'[v].task = loop[v].task
      BY <2>3, <1>t DEF Defer, Loops
    <3>2. Defer(v)
      BY <2>3
    <3>3. QED  BY <3>1, <3>2 DEF LoopChange, Path
  <2>4. CASE v # w
    <3>1. loop'[v] = loop[v]
      BY <1>1, <1>t, <2>4
      DEF Poll, Claim, Select, Insert, ClaimLost, ClaimSingle, NothingClaimed,
          Recheck, Deliver, Settle, Place, Slot, Defer, Undo, MarkDispatch,
          PollError
    <3>2. QED  BY <3>1 DEF LoopChange
  <2>5. QED  BY <1>1, <2>1, <2>2, <2>3, <2>4 DEF Poll, Claim, LoopChange
<1>2. ASSUME NEW w \in Workers, Upkeep(w) PROVE LoopChange(v)
  BY <1>2 DEF Upkeep, Heartbeat, Reclaim, UnstickRead, UnstickApply, LoopChange
<1>3. ASSUME NEW w \in Workers,
             Crash(w) \/ Stop(w) \/ ReleaseAllLeases(w) \/ Restart(w)
      PROVE  LoopChange(v)
  BY <1>3, <1>t, <1>a
  DEF Crash, Stop, Halt, ReleaseAllLeases, Restart, Idle, LoopChange
<1>4. ASSUME NEW u \in turns,
             Finish(u) \/ FinalWriteFails(u) \/ FinalError(u) \/ FinalUnresolved(u)
      PROVE  LoopChange(v)
  BY <1>4
  DEF Finish, FinalCheck, FinalWrite, FinalMark, FinalDrop, FinalWriteFails,
      FinalError, FinalUnresolved, LoopChange
<1>5. ASSUME NEW t \in Tasks, Submit(t) \/ Cancel(t) \/ Age(t) \/ ExpireLease(t)
      PROVE  LoopChange(v)
  BY <1>5 DEF Submit, Cancel, Age, ExpireLease, LoopChange
<1>6. CASE UNCHANGED vars
  BY <1>6 DEF vars, LoopChange
<1>7. QED  BY <1>1, <1>2, <1>3, <1>4, <1>5, <1>6 DEF Next, Environment

\* The fields of the coroutine after a step of the claim or the dispatch.
LEMMA ClaimLoop ==
    ASSUME TypeOK, NEW v \in Workers, Select(v) \/ ClaimSingle(v)
    PROVE  /\ loop'[v].at \in {"insert", "check"}
           /\ loop'[v].urgent => loop[v].at = "priority"
           /\ ~loop'[v].urgent => IsSlotFree(v)
           /\ loop'[v].task \in Scope(v)
<1>1. PICK t \in Scope(v), p \in {"insert", "check"} :
        loop' = [loop EXCEPT ![v] = [at |-> p, task |-> t, row |-> 0,
                                     urgent |-> loop[v].at = "priority"]]
  BY DEF Select, ClaimSingle, Oldest, Candidates
<1>2. loop'[v] = [at |-> p, task |-> t, row |-> 0,
                  urgent |-> loop[v].at = "priority"]
  BY <1>1 DEF TypeOK
<1>3. /\ loop'[v].at = p /\ loop'[v].task = t
      /\ loop'[v].urgent = (loop[v].at = "priority")
  BY <1>2
<1>4. MayPoll(v)
  BY DEF Select, ClaimSingle
<1>5. ~loop'[v].urgent => IsSlotFree(v)
  BY <1>3, <1>4 DEF MayPoll
<1>6. QED  BY <1>3, <1>5

LEMMA DispatchLoop ==
    ASSUME TypeOK, NEW v \in Workers,
           Insert(v) \/ Recheck(v) \/ Deliver(v) \/ Place(v)
    PROVE  /\ loop[v].at \in Path
           /\ loop'[v].urgent = loop[v].urgent
           /\ loop'[v].task = loop[v].task
           /\ Insert(v) => loop'[v].at = "check"
           /\ Recheck(v) => loop'[v].at =
                 IF status[loop[v].task] = "cancelled" THEN "drop"
                 ELSE IF loop[v].urgent THEN "deliver"
                 ELSE IF ChatOf[loop[v].task] \in local[v].busy THEN "defer"
                 ELSE "place"
           /\ Deliver(v) => loop'[v].at \in {"settle", "mark"}
           /\ Place(v) => loop[v].at = "place" /\ loop'[v].at \in {"slot", "defer"}
<1>t. loop \in [Workers -> Loops] /\ loop[v] \in Loops
  BY DEF TypeOK
<1>1. CASE Insert(v)
  BY <1>1, <1>t DEF Insert, Path, Loops, Recheck, Deliver, Place
<1>2. CASE Recheck(v)
  BY <1>2, <1>t DEF Insert, Path, Loops, Recheck, Deliver, Place
<1>3. CASE Deliver(v)
  <2>1. PICK p \in {"settle", "mark"} : loop' = [loop EXCEPT ![v].at = p]
    BY <1>3 DEF Deliver
  <2>2. QED
    BY <1>3, <1>t, <2>1 DEF Insert, Path, Loops, Recheck, Deliver, Place
<1>4. CASE Place(v)
  <2>1. \/ loop' = [loop EXCEPT ![v].at = "defer"]
        \/ \E r \in Rows : loop' = [loop EXCEPT ![v].at = "slot", ![v].row = r]
    BY <1>4 DEF Place, Oldest, FreeRows
  <2>2. /\ loop'[v].at \in {"slot", "defer"} /\ loop'[v].task = loop[v].task
        /\ loop'[v].urgent = loop[v].urgent
    <3>1. CASE loop' = [loop EXCEPT ![v].at = "defer"]
      BY <3>1, <1>t DEF Loops
    <3>2. CASE \E r \in Rows :
                 loop' = [loop EXCEPT ![v].at = "slot", ![v].row = r]
      BY <3>2, <1>t DEF Loops
    <3>3. QED  BY <2>1, <3>1, <3>2
  <2>3. QED  BY <1>4, <2>2 DEF Insert, Path, Recheck, Deliver, Place
<1>5. QED  BY <1>1, <1>2, <1>3, <1>4

LEMMA SlotLoop ==
    ASSUME TypeOK, NEW v \in Workers, Slot(v)
    PROVE  /\ loop'[v].at \notin Path
           /\ loop'[v].urgent => loop[v].urgent
<1>t. loop \in [Workers -> Loops] /\ loop[v] \in Loops
  BY DEF TypeOK
<1>1. CASE loop' = [loop EXCEPT ![v] = AtTop("priority")]
  BY <1>1, <1>t DEF AtTop, Path
<1>2. CASE loop' = [loop EXCEPT ![v].at = "mark"]
  BY <1>2, <1>t DEF Loops, Path
<1>3. QED  BY <1>1, <1>2 DEF Slot

\* The accounts stay balanced as long as nobody takes a second slot for a
\* task that has one.
LEMMA AccountingStep ==
    ASSUME TypeOK, [Next]_vars, SlotAccounting,
           \A w \in Workers : loop[w].at = "slot" =>
             loop[w].task \notin local[w].inflight
    PROVE  SlotAccounting'
<1> SUFFICES ASSUME NEW v \in Workers
             PROVE  local'[v].permits + Cardinality(local'[v].inflight)
                      = MaxConcurrent
  BY DEF SlotAccounting
<1> DEFINE l == local[v]
<1>t. /\ local \in [Workers -> Locals] /\ l \in Locals
      /\ l.inflight \in SUBSET Tasks /\ IsFiniteSet(l.inflight)
      /\ l.permits \in Nat /\ Cardinality(l.inflight) \in Nat
      /\ l.permits + Cardinality(l.inflight) = MaxConcurrent
  BY TasksFinite DEF TypeOK, Locals, SlotAccounting
<1>1. CASE Kept(v)
  BY <1>1, <1>t DEF Kept
<1>2. CASE \E T, C : Released(v, T, C)
  <2>1. PICK T, C : Released(v, T, C)
    BY <1>2
  <2>2. /\ Cardinality(l.inflight \ T)
             = Cardinality(l.inflight) - Cardinality(l.inflight \cap T)
        /\ Cardinality(l.inflight \cap T) \in Nat
    BY <1>t, FS_Difference, FS_Intersection, FS_CardinalityType
  <2>3. QED  BY <1>t, <2>1, <2>2 DEF Released
<1>3. CASE local'[v] = FreshLocal
  BY <1>3, FS_EmptySet, ConstantsAssumption DEF FreshLocal
<1>4. CASE Slot(v)
  <2> DEFINE t == loop[v].task
  <2>1. /\ local'[v].permits = l.permits - 1
        /\ local'[v].inflight = l.inflight \cup {t}
    BY <1>4, <1>t DEF Slot, Locals
  <2>2. Cardinality(l.inflight \cup {t}) = Cardinality(l.inflight) + 1
    BY <1>4, <1>t, FS_AddElement DEF Slot
  <2>3. QED  BY <1>t, <2>1, <2>2
<1>5. CASE Deliver(v) \/ Settle(v)
  <2>1. local'[v].permits = l.permits /\ local'[v].inflight = l.inflight
    BY <1>5, <1>t DEF Deliver, Settle, Locals
  <2>2. QED  BY <1>t, <2>1
<1>6. QED  BY <1>1, <1>2, <1>3, <1>4, <1>5, LocalStep DEF SlotsChange

\* One slot: a normal poll starts only with no task in flight, so none is in
\* flight when it takes its slot.
OneSlotInv ==
    \A v \in Workers :
      /\ loop[v].at \in {"place", "slot"} => ~loop[v].urgent
      /\ loop[v].at \in Path /\ ~loop[v].urgent => local[v].inflight = {}

LEMMA OneSlotStep ==
    ASSUME MaxConcurrent = 1, TypeOK, OneSlotInv, [Next]_vars
    PROVE  OneSlotInv'
<1> SUFFICES ASSUME NEW v \in Workers
             PROVE  /\ loop'[v].at \in {"place", "slot"} => ~loop'[v].urgent
                    /\ loop'[v].at \in Path /\ ~loop'[v].urgent
                         => local'[v].inflight = {}
  BY DEF OneSlotInv
<1>t. /\ loop \in [Workers -> Loops] /\ local \in [Workers -> Locals]
      /\ IsFiniteSet(local[v].inflight)
  BY TasksFinite DEF TypeOK, Locals
<1>0. /\ loop[v].at \in {"place", "slot"} => ~loop[v].urgent
      /\ loop[v].at \in Path /\ ~loop[v].urgent => local[v].inflight = {}
  BY DEF OneSlotInv
<1>1. CASE Slot(v)
  BY <1>1, SlotLoop DEF Path
<1>2. CASE ~Slot(v)
  <2>1. local'[v].inflight \subseteq local[v].inflight
    <3>1. CASE Deliver(v) \/ Settle(v)
      BY <3>1, <1>t DEF Deliver, Settle, Locals
    <3>2. CASE Kept(v) \/ local'[v] = FreshLocal
      BY <3>2 DEF Kept, FreshLocal
    <3>3. CASE \E T, C : Released(v, T, C)
      BY <3>3 DEF Released
    <3>4. QED  BY <1>2, <3>1, <3>2, <3>3, LocalStep DEF SlotsChange
  <2>2. CASE loop'[v] = loop[v] \/ loop'[v].at \notin Path
    BY <2>1, <2>2, <1>0 DEF Path
  <2>3. CASE Select(v) \/ ClaimSingle(v)
    <3>3. ~loop'[v].urgent => Cardinality(local[v].inflight) < 1
      BY <2>3, ClaimLoop DEF IsSlotFree
    <3>4. ~loop'[v].urgent => local[v].inflight = {}
      BY <3>3, <1>t, FS_EmptySet, FS_CardinalityType
    <3>5. QED  BY <2>1, <2>3, <3>4, ClaimLoop
  <2>4. CASE Insert(v) \/ Recheck(v) \/ Deliver(v) \/ Place(v)
    BY <2>1, <2>4, <1>0, DispatchLoop
  <2>5. QED  BY <2>2, <2>3, <2>4, LoopStep DEF LoopChange
<1>3. QED  BY <1>1, <1>2

\* No commands: the sets of the channel object agree with each other, and a
\* coroutine that placed its task found the chat idle.
ChatInv ==
    \A v \in Workers :
      /\ ~loop[v].urgent /\ loop[v].at \notin {"deliver", "settle"}
      /\ local[v].msgChat = local[v].inflight
      /\ \A t \in local[v].inflight : ChatOf[t] \in local[v].busy
      /\ \A t, u \in local[v].inflight : ChatOf[t] = ChatOf[u] => t = u
      /\ loop[v].at \in {"place", "slot"} =>
           ChatOf[loop[v].task] \notin local[v].busy

LEMMA ChatStep ==
    ASSUME Commands = {}, TypeOK, ChatInv, [Next]_vars
    PROVE  ChatInv'
<1> SUFFICES ASSUME NEW v \in Workers
             PROVE  /\ ~loop'[v].urgent /\ loop'[v].at \notin {"deliver", "settle"}
                    /\ local'[v].msgChat = local'[v].inflight
                    /\ \A t \in local'[v].inflight : ChatOf[t] \in local'[v].busy
                    /\ \A t, u \in local'[v].inflight :
                         ChatOf[t] = ChatOf[u] => t = u
                    /\ loop'[v].at \in {"place", "slot"} =>
                         ChatOf[loop'[v].task] \notin local'[v].busy
  BY DEF ChatInv
<1>t. loop \in [Workers -> Loops] /\ local \in [Workers -> Locals]
  BY DEF TypeOK
<1>0. /\ ~loop[v].urgent /\ loop[v].at \notin {"deliver", "settle"}
      /\ local[v].msgChat = local[v].inflight
      /\ \A t \in local[v].inflight : ChatOf[t] \in local[v].busy
      /\ \A t, u \in local[v].inflight : ChatOf[t] = ChatOf[u] => t = u
      /\ loop[v].at \in {"place", "slot"} =>
           ChatOf[loop[v].task] \notin local[v].busy
  BY DEF ChatInv
<1>1. CASE Slot(v)
  <2> DEFINE t == loop[v].task
  <2>1. /\ local'[v].inflight = local[v].inflight \cup {t}
        /\ local'[v].msgChat = local[v].msgChat \cup {t}
        /\ local'[v].busy = local[v].busy \cup {ChatOf[t]}
    BY <1>1, <1>t DEF Slot, Locals
  <2>2. ChatOf[t] \notin local[v].busy
    BY <1>1, <1>0 DEF Slot
  <2>3. loop'[v].at \notin Path /\ ~loop'[v].urgent
    BY <1>1, <1>0, SlotLoop
  <2>4. QED  BY <1>0, <2>1, <2>2, <2>3 DEF Path
<1>2. CASE ~Slot(v)
  <2>1. /\ local'[v].msgChat = local'[v].inflight
        /\ \A t \in local'[v].inflight : ChatOf[t] \in local'[v].busy
        /\ \A t, u \in local'[v].inflight : ChatOf[t] = ChatOf[u] => t = u
        /\ local'[v].busy \subseteq local[v].busy
    <3>1. CASE Kept(v)
      BY <3>1, <1>0 DEF Kept
    <3>2. CASE \E T \in SUBSET Tasks : Released(v, T, ChatsOf(v, T))
      BY <3>2, <1>0 DEF Released, ChatsOf
    <3>3. CASE \E c \in Chats : Released(v, TasksOf(v, c), {c})
      BY <3>3, <1>0 DEF Released, TasksOf
    <3>4. CASE local'[v] = FreshLocal
      BY <3>4 DEF FreshLocal
    <3>5. ~Deliver(v) /\ ~Settle(v)
      BY <1>0 DEF Deliver, Settle
    <3>6. QED  BY <1>2, <3>1, <3>2, <3>3, <3>4, <3>5, LocalStep DEF SlotsChange
  <2>2. /\ ~loop'[v].urgent /\ loop'[v].at \notin {"deliver", "settle"}
        /\ loop'[v].at \in {"place", "slot"} =>
             ChatOf[loop'[v].task] \notin local[v].busy
    <3>1. CASE loop'[v] = loop[v]
      BY <3>1, <1>0
    <3>2. CASE loop'[v].at \notin Path /\ (loop'[v].urgent => loop[v].urgent)
      BY <3>2, <1>0 DEF Path
    <3>3. CASE Select(v) \/ ClaimSingle(v)
      <4>1. loop[v].at # "priority"
        BY <3>3, ClaimLoop DEF Scope
      <4>2. QED  BY <3>3, <4>1, ClaimLoop
    <3>4. CASE Insert(v) \/ Recheck(v) \/ Place(v)
      BY <3>4, <1>0, DispatchLoop
    <3>5. ~Deliver(v)
      BY <1>0 DEF Deliver
    <3>6. QED  BY <3>1, <3>2, <3>3, <3>4, <3>5, LoopStep DEF LoopChange
  <2>3. QED  BY <2>1, <2>2
<1>3. QED  BY <1>1, <1>2

\* Where the priority path cannot take the chat of a running turn away:
\* there are no priority commands, or the process has one slot.
SlotAssumption == Commands = {} \/ MaxConcurrent = 1

SlotInv ==
    /\ SlotAccounting
    /\ MaxConcurrent = 1 => OneSlotInv
    /\ Commands = {} => ChatInv

LEMMA SlotInvInit == SlotAssumption /\ Init => SlotInv
<1> SUFFICES ASSUME Init PROVE SlotInv
  OBVIOUS
<1>1. \A w \in Workers :
        /\ loop[w].at = "priority" /\ ~loop[w].urgent
        /\ local[w].inflight = {} /\ local[w].msgChat = {}
        /\ local[w].permits = MaxConcurrent
  BY DEF Init, AtTop, FreshLocal
<1>2. SlotAccounting
  <2> SUFFICES ASSUME NEW w \in Workers
               PROVE  local[w].permits + Cardinality(local[w].inflight)
                        = MaxConcurrent
    BY DEF SlotAccounting
  <2>1. Cardinality(local[w].inflight) = 0
    BY <1>1, FS_EmptySet
  <2>2. local[w].permits = MaxConcurrent
    BY <1>1
  <2>3. QED  BY <2>1, <2>2, ConstantsAssumption
<1>3. OneSlotInv /\ ChatInv
  BY <1>1 DEF OneSlotInv, ChatInv, Path
<1>4. QED  BY <1>2, <1>3 DEF SlotInv

LEMMA SlotInvStep ==
    ASSUME SlotAssumption, TypeOK, SlotInv, [Next]_vars
    PROVE  SlotInv'
<1>1. \A w \in Workers : loop[w].at = "slot" =>
        loop[w].task \notin local[w].inflight
  <2>1. CASE Commands = {}
    BY <2>1 DEF SlotInv, ChatInv
  <2>2. CASE MaxConcurrent = 1
    BY <2>2 DEF SlotInv, OneSlotInv, Path
  <2>3. QED  BY <2>1, <2>2 DEF SlotAssumption
<1>2. SlotAccounting'
  BY <1>1, AccountingStep DEF SlotInv
<1>3. MaxConcurrent = 1 => OneSlotInv'
  BY OneSlotStep DEF SlotInv
<1>4. Commands = {} => ChatInv'
  BY ChatStep DEF SlotInv
<1>5. QED  BY <1>2, <1>3, <1>4 DEF SlotInv

\* The semaphore and _inflight agree for ever: no slot is lost and none is
\* released twice, through failed finals, unstick, unresolvable turns and
\* stops, for any number of slots without priority commands, and with them
\* for one slot.
THEOREM SlotsAreBalanced ==
    ASSUME SlotAssumption
    PROVE  Spec => []SlotAccounting
<1>1. Init => SlotInv
  BY SlotInvInit
<1>2. TypeOK /\ SlotInv /\ [Next]_vars => SlotInv'
  BY SlotInvStep
<1>3. SlotInv => SlotAccounting
  BY DEF SlotInv
<1>4. QED  BY <1>1, <1>2, <1>3, TypeCorrect, PTL DEF Spec

\* One process never runs two turns of one chat, also when the user cancels
\* a running task and the database offers the next one.
THEOREM ChatsAreSerial ==
    ASSUME SlotAssumption
    PROVE  Spec => []OneTurnPerWorkerChat
<1>1. Init => SlotInv
  BY SlotInvInit
<1>2. TypeOK /\ SlotInv /\ [Next]_vars => SlotInv'
  BY SlotInvStep
<1>3. TypeOK /\ SlotInv => OneTurnPerWorkerChat
  <2> SUFFICES ASSUME TypeOK, SlotInv, NEW w \in Workers,
                      NEW t \in local[w].inflight, NEW u \in local[w].inflight,
                      ChatOf[t] = ChatOf[u]
               PROVE  t = u
    BY DEF OneTurnPerWorkerChat, Holds
  <2>1. CASE Commands = {}
    BY <2>1 DEF SlotInv, ChatInv
  <2>2. CASE MaxConcurrent = 1
    <3>1. /\ local[w].inflight \in SUBSET Tasks /\ local[w].permits \in Nat
          /\ IsFiniteSet(local[w].inflight)
      BY TasksFinite DEF TypeOK, Locals
    <3>2. Cardinality(local[w].inflight) <= 1
      BY <2>2, <3>1, FS_CardinalityType DEF SlotInv, SlotAccounting
    <3>3. Cardinality(local[w].inflight) = 1
      BY <3>1, <3>2, FS_CardinalityType, FS_EmptySet
    <3>4. QED  BY <3>1, <3>3, FS_Singleton
  <2>3. QED  BY <2>1, <2>2 DEF SlotAssumption
<1>4. QED  BY <1>1, <1>2, <1>3, TypeCorrect, PTL DEF Spec

-----------------------------------------------------------------------------
\* Claims and statuses in worker_pool mode, when nobody cancels.

\* How a step changes the row and the claim of t: only the claim makes it
\* processing, and a claim that goes while the row stays in processing was
\* deleted after a command, on the way back, or for a cancelled task.
RowChange(t) ==
    \/ \E w \in Workers : Insert(w) /\ loop[w].task = t
    \/ /\ status'[t] = "processing" => status[t] = "processing"
       /\ claim'[t] \in {claim[t], NoWorker}
       /\ claim'[t] = NoWorker /\ status'[t] = "processing" =>
            \/ claim[t] = NoWorker
            \/ \E w \in Workers : Settle(w) /\ loop[w].task = t
            \/ \E w \in Workers : Undo(w) /\ loop[w].task = t /\ claim[t] = w
            \/ \E u \in turns : FinalDrop(u)

\* The steps that touch neither claims nor the status processing.
LEMMA CalmRow ==
    ASSUME NEW t \in Tasks, UNCHANGED claim,
           status'[t] = "processing" => status[t] = "processing"
    PROVE  RowChange(t)
BY DEF RowChange

LEMMA MarkFailedRow ==
    ASSUME TypeOK, NEW t \in Tasks, NEW w, NEW T, NEW row, MarkFailed(w, T, row)
    PROVE  RowChange(t)
<1>1. claim'[t] = IF Pool /\ t \in T /\ claim[t] = w THEN NoWorker ELSE claim[t]
  BY DEF MarkFailed, DeleteClaims
<1>2. status'[t] = IF t \notin T THEN status[t]
                   ELSE IF Exhausted(retry'[t]) THEN "failed" ELSE "error"
  BY DEF MarkFailed
<1>3. status'[t] = "processing" => t \notin T /\ status[t] = "processing"
  BY <1>2
<1>4. QED  BY <1>1, <1>3 DEF RowChange

LEMMA ReclaimRow ==
    ASSUME TypeOK, NEW t \in Tasks, NEW w \in Workers, Reclaim(w)
    PROVE  RowChange(t)
<1> DEFINE lost == t \in Overdue(w)
           claim1 == IF lost THEN NoWorker ELSE claim[t]
           status1 == IF lost /\ status[t] = "processing"
                      THEN Recovered(Bumped(retry[t])) ELSE status[t]
           status2 == IF status1 = "processing" /\ claim1 = NoWorker
                      THEN "error" ELSE status1
<1>1. /\ status'[t] = status2
      /\ claim'[t] = IF status2 = "processing" THEN claim1 ELSE NoWorker
  BY DEF Reclaim
<1>2. status2 = "processing" => status[t] = "processing" /\ claim1 # NoWorker
  BY DEF Recovered
<1>3. QED  BY <1>1, <1>2 DEF RowChange

LEMMA RowStep ==
    ASSUME Pool, TypeOK, [Next]_vars, NEW t \in Tasks
    PROVE  RowChange(t)
<1>t. /\ status \in [Tasks -> Statuses] /\ turns \in SUBSET Turns
      /\ claim \in [Tasks -> Workers \cup {NoWorker}]
  BY DEF TypeOK
<1>d. \A w, T : DeleteClaims(w, T)[t] =
                  IF t \in T /\ claim[t] = w THEN NoWorker ELSE claim[t]
  BY DEF DeleteClaims
<1>1. ASSUME NEW w \in Workers, Poll(w) \/ PollError(w) PROVE RowChange(t)
  <2>1. CASE Insert(w)
    <3>1. CASE loop[w].task = t
      BY <2>1, <3>1 DEF RowChange
    <3>2. CASE loop[w].task # t
      BY <2>1, <3>2, <1>t DEF RowChange, Insert
    <3>3. QED  BY <3>1, <3>2
  <2>2. CASE Settle(w) \/ Undo(w)
    <3>1. status' = status /\ claim' = DeleteClaims(w, {loop[w].task})
      BY <2>2 DEF Settle, Undo
    <3>2. QED  BY <2>2, <3>1, <1>d DEF RowChange
  <2>3. CASE MarkDispatch(w)
    BY <2>3, MarkFailedRow DEF MarkDispatch
  <2>4. CASE ~(Insert(w) \/ Settle(w) \/ Undo(w) \/ MarkDispatch(w))
    BY <1>1, <1>t, <2>4, CalmRow
    DEF Poll, Claim, Select, ClaimLost, ClaimSingle, NothingClaimed, Recheck,
        Deliver, Place, Slot, Defer, PollError, db
  <2>5. QED  BY <2>1, <2>2, <2>3, <2>4
<1>2. ASSUME NEW w \in Workers, Upkeep(w) PROVE RowChange(t)
  <2>1. CASE Heartbeat(w)
    BY <2>1, CalmRow DEF Heartbeat
  <2>2. QED
    BY <1>2, <2>1, ReclaimRow DEF Upkeep, UnstickRead, UnstickApply
<1>3. ASSUME NEW w \in Workers,
             Crash(w) \/ Stop(w) \/ ReleaseAllLeases(w) \/ Restart(w)
      PROVE  RowChange(t)
  <2>1. CASE ReleaseAllLeases(w)
    <3>1. /\ claim' = DeleteClaims(w, local[w].lease)
          /\ status'[t] = IF t \in local[w].lease /\ status[t] = "processing"
                          THEN "pending" ELSE status[t]
      BY <2>1 DEF ReleaseAllLeases
    <3>2. QED  BY <3>1, <1>d DEF RowChange
  <2>2. QED  BY <1>3, <2>1, CalmRow DEF Crash, Stop, Halt, Restart, db
<1>4. ASSUME NEW u \in turns,
             Finish(u) \/ FinalWriteFails(u) \/ FinalError(u) \/ FinalUnresolved(u)
      PROVE  RowChange(t)
  <2>1. CASE FinalMark(u) \/ FinalUnresolved(u)
    BY <2>1, MarkFailedRow DEF FinalMark, FinalUnresolved
  <2>2. CASE FinalWrite(u)
    <3>1. /\ claim' = DeleteClaims(u.worker, {u.task})
          /\ status'[t] = IF t = u.task THEN "completed" ELSE status[t]
      BY <2>2, <1>t DEF FinalWrite
    <3>2. QED  BY <3>1, <1>d DEF RowChange
  <2>3. CASE FinalDrop(u)
    <3>1. status' = status /\ claim' = DeleteClaims(u.worker, {u.task})
      BY <2>3 DEF FinalDrop
    <3>2. QED  BY <2>3, <3>1, <1>d DEF RowChange
  <2>4. CASE FinalCheck(u) \/ FinalWriteFails(u) \/ FinalError(u)
    BY <2>4, CalmRow DEF FinalCheck, FinalWriteFails, FinalError, db
  <2>5. QED  BY <1>4, <2>1, <2>2, <2>3, <2>4 DEF Finish
<1>5. ASSUME NEW x \in Tasks, Submit(x) \/ Cancel(x) \/ Age(x) \/ ExpireLease(x)
      PROVE  RowChange(t)
  BY <1>5, <1>t, CalmRow DEF Submit, Cancel, Age, ExpireLease
<1>6. CASE UNCHANGED vars
  BY <1>6, CalmRow DEF vars
<1>7. QED  BY <1>1, <1>2, <1>3, <1>4, <1>5, <1>6 DEF Next, Environment

\* Without cancellations no row is cancelled and no answer dropped.
NoCancel ==
    /\ \A t \in Tasks : status[t] # "cancelled"
    /\ \A u \in turns : u.at # "drop"

\* Only commands travel the priority path.
UrgentInv ==
    \A v \in Workers :
      /\ loop[v].urgent => loop[v].task \in Commands
      /\ loop[v].at \in {"deliver", "settle"} => loop[v].urgent

\* A task on its way back to the queue is no longer in processing under the
\* claim that is about to be deleted.
UndoInv ==
    \A v \in Workers :
      loop[v].at \in {"undo", "drop"} /\ claim[loop[v].task] = v
        => status[loop[v].task] # "processing"

LEMMA NoCancelStep ==
    ASSUME Cancellable = {}, TypeOK, NoCancel, [Next]_vars
    PROVE  NoCancel'
<1>t. status \in [Tasks -> Statuses] /\ turns \in SUBSET Turns
  BY DEF TypeOK
<1>m. \A w, T, row : MarkFailed(w, T, row) =>
        \A t \in Tasks : status'[t] \in {status[t], "failed", "error"}
  BY DEF MarkFailed
<1>1. ASSUME NEW w \in Workers, Poll(w) \/ PollError(w) PROVE NoCancel'
  <2>1. \A t \in Tasks : status'[t] # "cancelled"
    <3>1. CASE MarkDispatch(w)
      BY <3>1, <1>m DEF MarkDispatch, NoCancel
    <3>2. CASE ~MarkDispatch(w)
      BY <1>1, <1>t, <3>2
      DEF Poll, Claim, Select, Insert, ClaimLost, ClaimSingle, NothingClaimed,
          Recheck, Deliver, Settle, Place, Slot, Defer, Undo, PollError, db,
          NoCancel
    <3>3. QED  BY <3>1, <3>2
  <2>2. \A u \in turns' : u.at # "drop"
    <3>1. CASE Slot(w)
      BY <3>1 DEF Slot, NoCancel
    <3>2. CASE ~Slot(w)
      BY <1>1, <3>2
      DEF Poll, Claim, Select, Insert, ClaimLost, ClaimSingle, NothingClaimed,
          Recheck, Deliver, Settle, Place, Defer, Undo, PollError,
          MarkDispatch, NoCancel
    <3>3. QED  BY <3>1, <3>2
  <2>3. QED  BY <2>1, <2>2 DEF NoCancel
<1>2. ASSUME NEW w \in Workers, Upkeep(w) PROVE NoCancel'
  <2>1. turns' = turns
    BY <1>2 DEF Upkeep, Heartbeat, Reclaim, UnstickRead, UnstickApply
  <2>2. CASE Heartbeat(w) \/ UnstickRead(w)
    BY <2>1, <2>2 DEF Heartbeat, UnstickRead, db, NoCancel
  <2>3. CASE Reclaim(w)
    <3>1. \A t \in Tasks : status'[t] \in {status[t], "failed", "pending", "error"}
      BY <2>3 DEF Reclaim, Recovered
    <3>2. QED  BY <2>1, <3>1 DEF NoCancel
  <2>4. CASE UnstickApply(w)
    <3>1. \A t \in Tasks : status'[t] \in {status[t], "failed", "pending"}
      BY <2>4 DEF UnstickApply, Recovered
    <3>2. QED  BY <2>1, <3>1 DEF NoCancel
  <2>5. QED  BY <1>2, <2>2, <2>3, <2>4 DEF Upkeep
<1>3. ASSUME NEW w \in Workers,
             Crash(w) \/ Stop(w) \/ ReleaseAllLeases(w) \/ Restart(w)
      PROVE  NoCancel'
  <2>1. \A t \in Tasks : status'[t] \in {status[t], "pending"}
    BY <1>3 DEF Crash, Stop, Halt, ReleaseAllLeases, Restart, db
  <2>2. turns' \subseteq turns
    BY <1>3 DEF Crash, Stop, Halt, ReleaseAllLeases, Restart
  <2>3. QED  BY <2>1, <2>2 DEF NoCancel
<1>4. ASSUME NEW u \in turns,
             Finish(u) \/ FinalWriteFails(u) \/ FinalError(u) \/ FinalUnresolved(u)
      PROVE  NoCancel'
  <2>t. u \in Turns /\ u.task \in Tasks
    BY <1>t DEF Turns
  <2>1. \A t \in Tasks : status'[t] \in {status[t], "failed", "error", "completed"}
    BY <1>4, <1>t, <1>m
    DEF Finish, FinalCheck, FinalWrite, FinalMark, FinalDrop, FinalWriteFails,
        FinalError, FinalUnresolved, db
  <2>2. \A p \in {"write", "mark"} : Becomes(u, p) => \A x \in turns' : x.at # "drop"
    BY <2>t DEF Becomes, NoCancel, Turns
  <2>3. \A x \in turns' : x.at # "drop"
    <3>1. CASE FinalCheck(u)
      BY <3>1, <2>t, <2>2 DEF FinalCheck, NoCancel
    <3>2. CASE FinalWriteFails(u)
      BY <3>2, <2>2 DEF FinalWriteFails
    <3>3. CASE ~FinalCheck(u) /\ ~FinalWriteFails(u)
      BY <1>4, <3>3
      DEF Finish, FinalWrite, FinalMark, FinalDrop, FinalError,
          FinalUnresolved, NoCancel
    <3>4. QED  BY <3>1, <3>2, <3>3
  <2>4. QED  BY <2>1, <2>3 DEF NoCancel
<1>5. ASSUME NEW t \in Tasks, Submit(t) \/ Cancel(t) \/ Age(t) \/ ExpireLease(t)
      PROVE  NoCancel'
  BY <1>5, <1>t DEF Submit, Cancel, Age, ExpireLease, NoCancel
<1>6. CASE UNCHANGED vars
  BY <1>6 DEF vars, NoCancel
<1>7. QED  BY <1>1, <1>2, <1>3, <1>4, <1>5, <1>6 DEF Next, Environment

LEMMA UrgentStep ==
    ASSUME TypeOK, UrgentInv, [Next]_vars
    PROVE  UrgentInv'
<1> SUFFICES ASSUME NEW v \in Workers
             PROVE  /\ loop'[v].urgent => loop'[v].task \in Commands
                    /\ loop'[v].at \in {"deliver", "settle"} => loop'[v].urgent
  BY DEF UrgentInv
<1>0. /\ loop[v].urgent => loop[v].task \in Commands
      /\ loop[v].at \in {"deliver", "settle"} => loop[v].urgent
  BY DEF UrgentInv
<1>1. CASE Select(v) \/ ClaimSingle(v)
  BY <1>1, ClaimLoop DEF Scope
<1>2. CASE Insert(v) \/ Recheck(v) \/ Place(v)
  BY <1>0, <1>2, DispatchLoop
<1>3. CASE Deliver(v)
  <2>1. loop[v].urgent
    BY <1>0, <1>3 DEF Deliver
  <2>2. QED  BY <1>0, <1>3, <2>1, DispatchLoop
<1>4. QED  BY <1>0, <1>1, <1>2, <1>3, LoopStep DEF LoopChange, Path

ClaimInv == NoCancel /\ UrgentInv /\ (Pool => WorkHasClaim /\ UndoInv)

LEMMA UndoStep ==
    ASSUME Pool, TypeOK, ClaimInv, [Next]_vars
    PROVE  UndoInv'
<1> SUFFICES ASSUME NEW v \in Workers, loop'[v].at \in {"undo", "drop"},
                    claim'[loop'[v].task] = v
             PROVE  status'[loop'[v].task] # "processing"
  BY DEF UndoInv
<1>t. loop[v] \in Loops /\ HoldsTask(loop[v]) /\ NoWorker \notin Workers
  BY ConstantsAssumption DEF TypeOK
<1>1. CASE loop'[v] = loop[v]
  <2> DEFINE t == loop[v].task
  <2>1. t \in Tasks
    BY <1>1, <1>t DEF HoldsTask, InTask
  <2>2. ASSUME NEW w \in Workers, Insert(w), loop[w].task = t PROVE FALSE
    <3>1. claim'[t] = w
      BY <2>1, <2>2 DEF Insert, TypeOK
    <3>2. w # v
      BY <1>1, <2>2 DEF Insert
    <3>3. QED  BY <1>1, <3>1, <3>2
  <2>3. RowChange(t)
    BY <2>1, RowStep
  <2>4. claim[t] = v \/ status'[t] # "processing"
    BY <1>1, <1>t, <2>2, <2>3 DEF RowChange
  <2>5. status'[t] = "processing" => status[t] = "processing"
    BY <2>2, <2>3 DEF RowChange
  <2>6. QED  BY <1>1, <2>4, <2>5 DEF ClaimInv, UndoInv
<1>2. CASE Defer(v)
  <2>1. loop'[v].task = loop[v].task /\ loop[v].task \in Tasks
    BY <1>2, <1>t DEF Defer, TypeOK, Loops, HoldsTask, InTask
  <2>2. status'[loop[v].task] = "pending"
    BY <1>2, <2>1 DEF Defer, TypeOK
  <2>3. QED  BY <2>1, <2>2
<1>3. CASE Insert(v) \/ Recheck(v) \/ Deliver(v) \/ Place(v)
  <2>1. loop'[v].at \in {"undo", "drop"} => Recheck(v)
    BY <1>3, DispatchLoop
  <2>2. Recheck(v) => loop[v].task \in Tasks
    BY <1>t DEF Recheck, HoldsTask, InTask
  <2>3. QED  BY <2>1, <2>2, DispatchLoop DEF ClaimInv, NoCancel
<1>4. CASE Select(v) \/ ClaimSingle(v)
  BY <1>4, ClaimLoop
<1>5. QED  BY <1>1, <1>2, <1>3, <1>4, LoopStep DEF LoopChange

LEMMA WorkStep ==
    ASSUME Pool, TypeOK, ClaimInv, [Next]_vars
    PROVE  WorkHasClaim'
<1> SUFFICES ASSUME NEW t \in Tasks \ Commands, status'[t] = "processing",
                    claim'[t] = NoWorker
             PROVE  FALSE
  BY DEF WorkHasClaim
<1>1. CASE \E w \in Workers : Insert(w) /\ loop[w].task = t
  BY <1>1, ConstantsAssumption DEF Insert, TypeOK
<1>2. CASE \E w \in Workers : Settle(w) /\ loop[w].task = t
  BY <1>2 DEF Settle, ClaimInv, UrgentInv
<1>3. CASE \E w \in Workers : Undo(w) /\ loop[w].task = t /\ claim[t] = w
  BY <1>3 DEF Undo, ClaimInv, UndoInv, Pool
<1>4. CASE \E u \in turns : FinalDrop(u)
  BY <1>4 DEF FinalDrop, ClaimInv, NoCancel
<1>5. CASE claim[t] = NoWorker /\ status[t] = "processing"
  BY <1>5 DEF ClaimInv, WorkHasClaim
<1>6. QED  BY <1>1, <1>2, <1>3, <1>4, <1>5, RowStep DEF RowChange

\* A task other than a priority command is never in processing without a
\* claim, so the heal step never turns live work into an error - whatever
\* leases run out, processes die and database calls fail - as long as the web
\* application does not cancel.
THEOREM WorkIsClaimed ==
    ASSUME Cancellable = {}
    PROVE  Spec => []WorkHasClaim
<1>1. Init => ClaimInv
  BY DEF Init, ClaimInv, NoCancel, UrgentInv, WorkHasClaim, UndoInv, AtTop
<1>2. TypeOK /\ ClaimInv /\ [Next]_vars => ClaimInv'
  <2> SUFFICES ASSUME TypeOK, ClaimInv, [Next]_vars PROVE ClaimInv'
    OBVIOUS
  <2>1. NoCancel' /\ UrgentInv'
    BY NoCancelStep, UrgentStep DEF ClaimInv
  <2>2. Pool => WorkHasClaim' /\ UndoInv'
    BY WorkStep, UndoStep
  <2>3. Pool' = Pool
    BY DEF Pool
  <2>4. QED  BY <2>1, <2>2, <2>3 DEF ClaimInv
<1>3. ClaimInv => WorkHasClaim
  BY DEF ClaimInv, WorkHasClaim
<1>4. QED  BY <1>1, <1>2, <1>3, TypeCorrect, PTL DEF Spec

-----------------------------------------------------------------------------
\* Exclusive work and kept answers in worker_pool mode, as long as no call fails or
\* comes too late and nothing is cancelled.

\* Where the coroutine has a claimed task in hand.
InHand == {"check", "deliver", "settle", "place", "slot"}

\* A lease in memory is a claim that is renewed, of a task in processing.
LeaseOk(w, t) ==
    loop[w].at # "off" /\ claim[t] = w /\ status[t] = "processing" /\ ~expired[t]

\* The marks of a turn come together with its lease.
MarksOk(w) ==
    /\ local[w].inflight \subseteq local[w].lease
    /\ local[w].inflight \subseteq local[w].msgChat
    /\ local[w].busy \subseteq {ChatOf[t] : t \in local[w].inflight}

\* Nothing has to be given back, for the chat of a task was idle when it was selected
\* and only this coroutine makes it busy.
HandOk(w) ==
    /\ loop[w].at \notin {"defer", "undo", "drop", "mark"}
    /\ loop[w].at \in InHand => loop[w].task \in local[w].lease \ local[w].inflight
    /\ loop[w].at \in {"deliver", "settle"} => loop[w].urgent
    /\ loop[w].at \in {"place", "slot"} => ~loop[w].urgent
    /\ loop[w].at \in {"insert", "check", "place", "slot"} /\ ~loop[w].urgent =>
         ChatOf[loop[w].task] \notin local[w].busy
    /\ loop[w].at = "slot" => answer[loop[w].task][loop[w].row] = "processing"

\* A turn is known to its process, is the only one of its task, and its placeholder
\* is open.
TurnOk(u) ==
    /\ Up(u.worker) /\ u.at \in {"running", "write"}
    /\ u.task \in local[u.worker].inflight
    /\ \A x \in turns : x.worker = u.worker /\ x.task = u.task => x = u
    /\ answer[u.task][u.row] = "processing"

\* Who will close an open placeholder of a task that w has leased.
Closes(w, t, r) ==
    \/ loop[w].at = "stopping"
    \/ loop[w].at = "slot" /\ loop[w].task = t /\ loop[w].row = r
    \/ \E u \in turns : u.worker = w /\ u.task = t /\ u.row = r

RowOk(t, r) ==
    answer[t][r] = "processing" =>
      /\ status[t] = "processing" /\ claim[t] \in Workers
      /\ t \in local[claim[t]].lease => Closes(claim[t], t, r)

CalmInv ==
    /\ \A w \in Workers : \A t \in local[w].lease : LeaseOk(w, t)
    /\ \A w \in Workers : MarksOk(w) /\ HandOk(w)
    /\ \A u \in turns : TurnOk(u)
    /\ \A t \in Tasks : \A r \in Rows : RowOk(t, r)
    /\ CompletedHasAnswer

CalmAssumption == Pool /\ Cancellable = {}

\* Nothing is leased, in hand or open at the start.
LEMMA CalmInit == Init => CalmInv
<1> SUFFICES ASSUME Init PROVE CalmInv
  OBVIOUS
<1>1. \A w \in Workers :
        /\ loop[w].at = "priority"
        /\ local[w].lease = {} /\ local[w].inflight = {} /\ local[w].busy = {}
  BY DEF Init, AtTop, FreshLocal
<1>2. turns = {} /\ \A t \in Tasks : status[t] = "new"
  BY DEF Init
<1>3. \A t \in Tasks : \A r \in Rows : answer[t][r] = "absent"
  BY DEF Init
<1>4. QED
  BY <1>1, <1>2, <1>3
  DEF CalmInv, MarksOk, HandOk, RowOk, CompletedHasAnswer, InHand

\* The steps that move one coroutine only, and not with a placeholder in hand.
MovesOnly(w) ==
    /\ \A v \in Workers : v # w => loop'[v] = loop[v]
    /\ UNCHANGED <<db, local, turns>>

LEMMA CalmMoves ==
    ASSUME TypeOK, CalmInv, NEW w \in Workers, MovesOnly(w),
           loop[w].at \in Running \ {"slot"}, loop'[w].at \in Running \ {"slot"},
           HandOk(w)'
    PROVE  CalmInv'
<1>t. /\ turns \in SUBSET Turns
      /\ UNCHANGED <<status, claim, expired, answer, local, turns>>
      /\ \A v \in Workers : v # w => loop'[v] = loop[v]
  BY DEF TypeOK, MovesOnly, db
<1>1. \A v \in Workers : \A t \in local[v].lease : LeaseOk(v, t)'
  BY <1>t DEF CalmInv, LeaseOk, Running, Idle, InTask
<1>2. \A v \in Workers : MarksOk(v)' /\ HandOk(v)'
  BY <1>t DEF CalmInv, MarksOk, HandOk
<1>3. \A u \in turns : TurnOk(u)'
  BY <1>t DEF CalmInv, TurnOk, Up, Turns
<1>4. \A t \in Tasks : \A r \in Rows : RowOk(t, r)'
  BY <1>t DEF CalmInv, RowOk, Closes, Running, Idle, InTask
<1>5. CompletedHasAnswer'
  BY <1>t DEF CalmInv, CompletedHasAnswer
<1>6. QED  BY <1>t, <1>1, <1>2, <1>3, <1>4, <1>5 DEF CalmInv

\* A chat that this process has made busy has a task in processing.
LEMMA BusyIsProcessing ==
    ASSUME CalmInv, NEW w \in Workers, NEW t \in Tasks, ChatIdle(ChatOf[t]), TypeOK
    PROVE  ChatOf[t] \notin local[w].busy
BY DEF CalmInv, MarksOk, LeaseOk, ChatIdle, TypeOK, Locals

LEMMA CalmSelect ==
    ASSUME TypeOK, CalmInv, NEW w \in Workers,
           Select(w) \/ ClaimLost(w) \/ NothingClaimed(w) \/ Recheck(w)
    PROVE  CalmInv'
<1>t. loop \in [Workers -> Loops] /\ loop[w] \in Loops /\ HoldsTask(loop[w])
  BY DEF TypeOK
<1>1. MovesOnly(w)
  BY <1>t DEF MovesOnly, Select, ClaimLost, NothingClaimed, Recheck
<1>2. CASE Select(w)
  <2>1. PICK t \in Oldest(Candidates(Scope(w))) :
          loop' = [loop EXCEPT ![w] = [at |-> "insert", task |-> t, row |-> 0,
                                       urgent |-> loop[w].at = "priority"]]
    BY <1>2 DEF Select
  <2>2. t \in Tasks /\ ChatIdle(ChatOf[t])
    BY OldestCandidate DEF Oldest, Candidates
  <2>3. loop'[w].at = "insert" /\ loop'[w].task = t
    BY <1>t, <2>1
  <2>4. ChatOf[t] \notin local'[w].busy
    BY <1>1, <2>2, BusyIsProcessing DEF MovesOnly
  <2>5. HandOk(w)'
    BY <2>3, <2>4 DEF HandOk, InHand
  <2>6. loop[w].at \in Idle
    BY <1>2 DEF Select, MayPoll, Idle
  <2>7. QED  BY <1>1, <2>3, <2>5, <2>6, CalmMoves DEF Running, Idle, InTask
<1>3. CASE ClaimLost(w) \/ NothingClaimed(w)
  <2>1. loop'[w].at \in Idle /\ loop[w].at \in Running \ {"slot"}
    BY <1>3, <1>t DEF ClaimLost, NothingClaimed, NextPoll, AtTop, Idle, Running, InTask
  <2>2. HandOk(w)'
    BY <2>1 DEF HandOk, InHand, Idle
  <2>3. QED  BY <1>1, <2>1, <2>2, CalmMoves DEF Running, Idle
<1>4. CASE Recheck(w)
  <2> DEFINE t == loop[w].task
  <2>1. /\ loop[w].at = "check" /\ t \in local[w].lease \ local[w].inflight
        /\ ~loop[w].urgent => ChatOf[t] \notin local[w].busy
    BY <1>4 DEF Recheck, CalmInv, HandOk, InHand
  <2>2. status[t] = "processing"
    BY <2>1 DEF CalmInv, LeaseOk
  <2>3. /\ loop'[w].urgent = loop[w].urgent /\ loop'[w].task = t
        /\ loop'[w].at = IF loop[w].urgent THEN "deliver" ELSE "place"
    BY <1>4, <2>1, <2>2, DispatchLoop
  <2>4. HandOk(w)'
    BY <1>1, <2>1, <2>3 DEF HandOk, InHand, MovesOnly
  <2>5. QED  BY <1>1, <2>1, <2>3, <2>4, CalmMoves DEF Running, InTask
<1>5. QED  BY <1>2, <1>3, <1>4

LEMMA CalmInsert ==
    ASSUME TypeOK, CalmInv, NEW w \in Workers, Insert(w)
    PROVE  CalmInv'
<1> DEFINE t == loop[w].task
<1>t. /\ loop \in [Workers -> Loops] /\ local \in [Workers -> Locals]
      /\ claim \in [Tasks -> Workers \cup {NoWorker}] /\ NoWorker \notin Workers
      /\ status \in [Tasks -> Statuses] /\ expired \in [Tasks -> BOOLEAN]
      /\ turns \in SUBSET Turns
      /\ loop[w] \in Loops /\ local[w] \in Locals /\ t \in Tasks
  BY ConstantsAssumption DEF TypeOK, HoldsTask, Insert, InTask
<1>1. /\ loop[w].at = "insert" /\ claim[t] = NoWorker
      /\ claim'[t] = w /\ status'[t] = "processing" /\ ~expired'[t]
      /\ \A u \in Tasks \ {t} : /\ claim'[u] = claim[u] /\ status'[u] = status[u]
                                /\ expired'[u] = expired[u]
      /\ UNCHANGED <<answer, turns>>
  BY <1>t DEF Insert
<1>2. /\ loop'[w].at = "check" /\ loop'[w].task = t
      /\ loop'[w].urgent = loop[w].urgent
  BY DispatchLoop
<1>3. /\ local'[w].lease = local[w].lease \cup {t}
      /\ local'[w].inflight = local[w].inflight /\ local'[w].busy = local[w].busy
      /\ local'[w].msgChat = local[w].msgChat
      /\ \A v \in Workers : v # w => local'[v] = local[v] /\ loop'[v] = loop[v]
  BY <1>t DEF Insert, Locals
<1>4. \A v \in Workers : t \notin local[v].lease
  BY <1>t, <1>1 DEF CalmInv, LeaseOk
<1>5. \A v \in Workers : \A u \in local'[v].lease : LeaseOk(v, u)'
  BY <1>t, <1>1, <1>2, <1>3, <1>4 DEF CalmInv, LeaseOk, Locals
<1>6. \A v \in Workers : MarksOk(v)'
  BY <1>3 DEF CalmInv, MarksOk
<1>7. \A v \in Workers : HandOk(v)'
  <2>1. ASSUME NEW v \in Workers, v # w PROVE HandOk(v)'
    BY <2>1, <1>1, <1>3 DEF CalmInv, HandOk
  <2>2. t \notin local[w].inflight
    BY <1>4 DEF CalmInv, MarksOk
  <2>3. ~loop[w].urgent => ChatOf[t] \notin local[w].busy
    BY <1>1 DEF CalmInv, HandOk
  <2>4. HandOk(w)'
    BY <1>2, <1>3, <2>2, <2>3 DEF HandOk, InHand
  <2>5. QED  BY <2>1, <2>4
<1>8. \A u \in turns : TurnOk(u)'
  BY <1>t, <1>1, <1>2, <1>3 DEF CalmInv, TurnOk, Up, Turns, Running, InTask
<1>9. \A u \in Tasks : \A r \in Rows : RowOk(u, r)'
  BY <1>t, <1>1, <1>2, <1>3 DEF CalmInv, RowOk, Closes
<1>10. CompletedHasAnswer'
  BY <1>1 DEF CalmInv, CompletedHasAnswer
<1>11. QED  BY <1>1, <1>5, <1>6, <1>7, <1>8, <1>9, <1>10 DEF CalmInv

\* A command that is delivered.
LEMMA CalmDeliver ==
    ASSUME TypeOK, CalmInv, faults = 0, faults' = 0, NEW w \in Workers, Deliver(w)
    PROVE  CalmInv'
<1> DEFINE t == loop[w].task
<1>t. /\ loop \in [Workers -> Loops] /\ local \in [Workers -> Locals]
      /\ loop[w] \in Loops /\ local[w] \in Locals /\ turns \in SUBSET Turns
  BY DEF TypeOK
<1>1. loop[w].at = "deliver" /\ loop' = [loop EXCEPT ![w].at = "settle"]
  BY DEF Deliver, Fault
<1>2. /\ loop'[w].at = "settle" /\ loop'[w].task = t
      /\ loop'[w].urgent = loop[w].urgent
      /\ UNCHANGED <<status, claim, expired, answer, turns>>
  BY <1>1, <1>t DEF Loops, Deliver, db
<1>3. /\ local'[w].lease = local[w].lease
      /\ local'[w].inflight = local[w].inflight /\ local'[w].busy = local[w].busy
      /\ local[w].msgChat \subseteq local'[w].msgChat
      /\ \A v \in Workers : v # w => local'[v] = local[v] /\ loop'[v] = loop[v]
  BY <1>t DEF Deliver, Locals
<1>4. \A v \in Workers : \A u \in local'[v].lease : LeaseOk(v, u)'
  BY <1>2, <1>3 DEF CalmInv, LeaseOk
<1>5. \A v \in Workers : MarksOk(v)' /\ HandOk(v)'
  BY <1>1, <1>2, <1>3 DEF CalmInv, MarksOk, HandOk, InHand
<1>6. \A u \in turns : TurnOk(u)'
  BY <1>t, <1>2, <1>3 DEF CalmInv, TurnOk, Up, Turns, Running, InTask
<1>7. \A u \in Tasks : \A r \in Rows : RowOk(u, r)'
  BY <1>t, <1>1, <1>2, <1>3 DEF CalmInv, RowOk, Closes
<1>8. CompletedHasAnswer'
  BY <1>2 DEF CalmInv, CompletedHasAnswer
<1>9. QED  BY <1>2, <1>4, <1>5, <1>6, <1>7, <1>8 DEF CalmInv

\* It has no placeholder, so its claim may go before the status.
LEMMA CalmSettle ==
    ASSUME TypeOK, CalmInv, NEW w \in Workers, Settle(w)
    PROVE  CalmInv'
<1> DEFINE t == loop[w].task
<1>t. /\ loop \in [Workers -> Loops] /\ local \in [Workers -> Locals]
      /\ loop[w] \in Loops /\ local[w] \in Locals /\ turns \in SUBSET Turns
      /\ claim \in [Tasks -> Workers \cup {NoWorker}] /\ NoWorker \notin Workers
  BY ConstantsAssumption DEF TypeOK
<1>1. loop[w].at = "settle" /\ t \in local[w].lease \ local[w].inflight
  BY DEF Settle, CalmInv, HandOk, InHand
<1>2. /\ loop'[w].at = "priority"
      /\ UNCHANGED <<status, expired, answer, turns>>
      /\ \A u \in Tasks \ {t} : claim'[u] = claim[u]
  BY <1>t DEF Settle, AtTop, DeleteClaims
<1>3. /\ local'[w].lease = local[w].lease \ {t}
      /\ local'[w].inflight = local[w].inflight /\ local'[w].busy = local[w].busy
      /\ local'[w].msgChat = local[w].msgChat \ {t}
      /\ \A v \in Workers : v # w => local'[v] = local[v] /\ loop'[v] = loop[v]
  BY <1>t DEF Settle, Locals
<1>4. \A v \in Workers : t \in local[v].lease => v = w
  BY <1>1 DEF CalmInv, LeaseOk
<1>5. \A v \in Workers : \A u \in local'[v].lease : LeaseOk(v, u)'
  BY <1>t, <1>2, <1>3, <1>4 DEF CalmInv, LeaseOk, Locals
<1>6. \A v \in Workers : MarksOk(v)' /\ HandOk(v)'
  BY <1>1, <1>2, <1>3 DEF CalmInv, MarksOk, HandOk, InHand
<1>7. \A u \in turns : TurnOk(u)'
  BY <1>t, <1>2, <1>3 DEF CalmInv, TurnOk, Up, Turns, Running, Idle
<1>8. \A r \in Rows : answer[t][r] # "processing"
  <2>1. claim[t] = w /\ t \in Tasks
    BY <1>1, <1>t DEF CalmInv, LeaseOk, Locals
  <2>2. \A u \in turns : ~(u.worker = w /\ u.task = t)
    BY <1>1 DEF CalmInv, TurnOk
  <2>3. \A r \in Rows : ~Closes(w, t, r)
    BY <1>1, <2>2 DEF Closes
  <2>4. QED  BY <1>1, <2>1, <2>3 DEF CalmInv, RowOk
<1>9. \A u \in Tasks : \A r \in Rows : RowOk(u, r)'
  BY <1>t, <1>1, <1>2, <1>3, <1>8 DEF CalmInv, RowOk, Closes
<1>10. CompletedHasAnswer'
  BY <1>2 DEF CalmInv, CompletedHasAnswer
<1>11. QED  BY <1>2, <1>5, <1>6, <1>7, <1>9, <1>10 DEF CalmInv

\* The placeholder is a new row of the task in hand.
LEMMA CalmPlace ==
    ASSUME TypeOK, CalmInv, faults = 0, faults' = 0, NEW w \in Workers, Place(w)
    PROVE  CalmInv'
<1> DEFINE t == loop[w].task
<1>t. /\ loop \in [Workers -> Loops] /\ local \in [Workers -> Locals]
      /\ loop[w] \in Loops /\ local[w] \in Locals /\ turns \in SUBSET Turns
      /\ answer \in [Tasks -> [Rows -> RowStatuses]] /\ t \in Tasks
  BY DEF TypeOK, HoldsTask, Place, InTask
<1>1. PICK r \in FreeRows(t) :
        /\ answer' = [answer EXCEPT ![t][r] = "processing"]
        /\ loop' = [loop EXCEPT ![w].at = "slot", ![w].row = r]
        /\ local' = [local EXCEPT ![w].ctx = @ \cup {t}]
  <2>1. ~Fault
    BY DEF Fault
  <2>2. QED  BY <2>1 DEF Place, Oldest
<1>2. /\ r \in Rows /\ answer[t][r] = "absent" /\ answer'[t][r] = "processing"
      /\ \A u \in Tasks, q \in Rows : u # t \/ q # r => answer'[u][q] = answer[u][q]
      /\ UNCHANGED <<status, claim, expired, turns>>
  BY <1>1, <1>t DEF FreeRows, Place
<1>3. /\ loop[w].at = "place" /\ loop'[w].at = "slot" /\ loop'[w].task = t
      /\ loop'[w].row = r /\ loop'[w].urgent = loop[w].urgent
      /\ \A v \in Workers : v # w => loop'[v] = loop[v]
  BY <1>1, <1>t DEF Loops, Place
<1>4. \A v \in Workers :
        /\ local'[v].lease = local[v].lease
        /\ local'[v].inflight = local[v].inflight /\ local'[v].busy = local[v].busy
        /\ local'[v].msgChat = local[v].msgChat
  BY <1>1, <1>t DEF Locals
<1>5. \A v \in Workers : \A u \in local'[v].lease : LeaseOk(v, u)'
  BY <1>2, <1>3, <1>4 DEF CalmInv, LeaseOk
<1>6. \A v \in Workers : MarksOk(v)'
  BY <1>4 DEF CalmInv, MarksOk
<1>7. \A v \in Workers : HandOk(v)'
  <2>1. ASSUME NEW v \in Workers, v # w PROVE HandOk(v)'
    <3>1. loop[v].at = "slot" => answer'[loop[v].task][loop[v].row] = "processing"
      BY <1>2, <1>t DEF CalmInv, HandOk, TypeOK, HoldsTask, InTask
    <3>2. QED  BY <2>1, <3>1, <1>3, <1>4 DEF CalmInv, HandOk
  <2>2. HandOk(w)'
    BY <1>2, <1>3, <1>4 DEF CalmInv, HandOk, InHand
  <2>3. QED  BY <2>1, <2>2
<1>8. \A u \in turns : TurnOk(u)'
  <2>1. ASSUME NEW u \in turns PROVE answer'[u.task][u.row] = "processing"
    BY <1>t, <1>2 DEF CalmInv, TurnOk, Turns
  <2>2. QED
    BY <2>1, <1>t, <1>2, <1>3, <1>4 DEF CalmInv, TurnOk, Up, Turns, Running, InTask
<1>9. \A u \in Tasks : \A q \in Rows : RowOk(u, q)'
  <2> SUFFICES ASSUME NEW u \in Tasks, NEW q \in Rows, answer'[u][q] = "processing"
               PROVE  /\ status[u] = "processing" /\ claim[u] \in Workers
                      /\ u \in local[claim[u]].lease => Closes(claim[u], u, q)'
    BY <1>2, <1>4 DEF RowOk
  <2>1. CASE u = t /\ q = r
    <3>1. claim[t] = w /\ status[t] = "processing"
      BY <1>3 DEF CalmInv, HandOk, InHand, LeaseOk
    <3>2. Closes(claim[u], u, q)'
      BY <2>1, <3>1, <1>2, <1>3 DEF Closes
    <3>3. QED  BY <2>1, <3>1, <3>2
  <2>2. CASE ~(u = t /\ q = r)
    <3>1. answer[u][q] = "processing"
      BY <2>2, <1>2
    <3>2. QED  BY <3>1, <1>2, <1>3 DEF CalmInv, RowOk, Closes
  <2>3. QED  BY <2>1, <2>2
<1>10. CompletedHasAnswer'
  BY <1>2 DEF CalmInv, CompletedHasAnswer
<1>11. QED  BY <1>2, <1>5, <1>6, <1>7, <1>8, <1>9, <1>10 DEF CalmInv

\* The turn takes the placeholder over from the coroutine.
LEMMA CalmSlot ==
    ASSUME TypeOK, CalmInv, faults = 0, faults' = 0, NEW w \in Workers, Slot(w)
    PROVE  CalmInv'
<1> DEFINE t == loop[w].task
<1>t. /\ loop \in [Workers -> Loops] /\ local \in [Workers -> Locals]
      /\ loop[w] \in Loops /\ local[w] \in Locals /\ turns \in SUBSET Turns
      /\ t \in Tasks
  BY DEF TypeOK, HoldsTask, Slot, InTask
<1>n. PICK new : new = [worker |-> w, task |-> t, row |-> loop[w].row,
                        at |-> "running"]
  OBVIOUS
<1>1. /\ loop[w].at = "slot" /\ turns' = turns \cup {new}
      /\ loop' = [loop EXCEPT ![w] = AtTop("priority")]
      /\ UNCHANGED <<status, claim, expired, answer>>
  <2>1. ~Fault
    BY DEF Fault
  <2>2. QED  BY <2>1, <1>n DEF Slot, db
<1>2. /\ loop'[w].at = "priority"
      /\ \A v \in Workers : v # w => loop'[v] = loop[v] /\ local'[v] = local[v]
  BY <1>1, <1>t DEF AtTop, Slot
<1>3. /\ local'[w].lease = local[w].lease
      /\ local'[w].inflight = local[w].inflight \cup {t}
      /\ local'[w].msgChat = local[w].msgChat \cup {t}
      /\ local'[w].busy = local[w].busy \cup {ChatOf[t]}
  BY <1>t DEF Slot, Locals
<1>4. /\ t \in local[w].lease \ local[w].inflight
      /\ answer[t][loop[w].row] = "processing"
  BY <1>1 DEF CalmInv, HandOk, InHand
<1>5. \A v \in Workers : \A u \in local'[v].lease : LeaseOk(v, u)'
  BY <1>1, <1>2, <1>3 DEF CalmInv, LeaseOk
<1>6. \A v \in Workers : MarksOk(v)' /\ HandOk(v)'
  BY <1>1, <1>2, <1>3, <1>4 DEF CalmInv, MarksOk, HandOk, InHand
<1>7. \A u \in turns' : TurnOk(u)'
  <2>1. \A u \in turns : ~(u.worker = w /\ u.task = t)
    BY <1>4 DEF CalmInv, TurnOk
  <2>2. /\ new.worker = w /\ new.task = t /\ new.row = loop[w].row
        /\ new.at = "running"
    BY <1>n
  <2>3. TurnOk(new)'
    BY <2>1, <2>2, <1>1, <1>2, <1>3, <1>4 DEF TurnOk, Up, Running, Idle
  <2>4. \A u \in turns : TurnOk(u)'
    BY <2>1, <2>2, <1>t, <1>1, <1>2, <1>3
    DEF CalmInv, TurnOk, Up, Turns, Running, Idle
  <2>5. QED  BY <1>1, <2>3, <2>4
<1>8. \A u \in Tasks : \A q \in Rows : RowOk(u, q)'
  <2> SUFFICES ASSUME NEW u \in Tasks, NEW q \in Rows, answer[u][q] = "processing"
               PROVE  /\ status[u] = "processing" /\ claim[u] \in Workers
                      /\ u \in local'[claim[u]].lease => Closes(claim[u], u, q)'
    BY <1>1 DEF RowOk
  <2>1. /\ status[u] = "processing" /\ claim[u] \in Workers
        /\ u \in local'[claim[u]].lease => Closes(claim[u], u, q)
    BY <1>2, <1>3 DEF CalmInv, RowOk
  <2>2. ASSUME NEW v \in Workers, Closes(v, u, q) PROVE Closes(v, u, q)'
    <3>1. CASE v = w /\ t = u /\ loop[w].row = q
      BY <3>1, <1>n, <1>1 DEF Closes
    <3>2. CASE ~(v = w /\ t = u /\ loop[w].row = q)
      BY <2>2, <3>2, <1>1, <1>2 DEF Closes
    <3>3. QED  BY <3>1, <3>2
  <2>3. QED  BY <2>1, <2>2, <1>1
<1>9. CompletedHasAnswer'
  BY <1>1 DEF CalmInv, CompletedHasAnswer
<1>10. QED  BY <1>5, <1>6, <1>7, <1>8, <1>9 DEF CalmInv

\* A turn that goes on to write its answer.
LEMMA CalmCheck ==
    ASSUME TypeOK, CalmInv, NEW u \in turns, FinalCheck(u)
    PROVE  CalmInv'
<1>t. /\ turns \in SUBSET Turns /\ u \in Turns
      /\ UNCHANGED <<status, claim, expired, answer, loop, local>>
  BY DEF TypeOK, FinalCheck, db
<1>1. status[u.task] = "processing"
  BY <1>t DEF CalmInv, TurnOk, MarksOk, LeaseOk, Turns
<1>2. PICK new : new = [u EXCEPT !.at = "write"]
  OBVIOUS
<1>3. /\ turns' = (turns \ {u}) \cup {new}
      /\ new.worker = u.worker /\ new.task = u.task /\ new.row = u.row
      /\ new.at = "write"
  BY <1>t, <1>1, <1>2 DEF FinalCheck, Becomes, Turns
<1>4. \A v \in Workers : \A t \in local[v].lease : LeaseOk(v, t)'
  BY <1>t DEF CalmInv, LeaseOk
<1>5. \A v \in Workers : MarksOk(v)' /\ HandOk(v)'
  BY <1>t DEF CalmInv, MarksOk, HandOk
<1>6. TurnOk(u)
  BY DEF CalmInv
<1>7. TurnOk(new)'
  BY <1>t, <1>3, <1>6 DEF TurnOk, Up
<1>8. \A x \in turns \ {u} : TurnOk(x)'
  BY <1>t, <1>3, <1>6 DEF CalmInv, TurnOk, Up
<1>9. \A v \in Workers, t \in Tasks, r \in Rows : Closes(v, t, r) => Closes(v, t, r)'
  BY <1>t, <1>3 DEF Closes
<1>10. \A t \in Tasks : \A r \in Rows : RowOk(t, r)'
  BY <1>t, <1>9 DEF CalmInv, RowOk
<1>11. CompletedHasAnswer'
  BY <1>t DEF CalmInv, CompletedHasAnswer
<1>12. QED  BY <1>t, <1>3, <1>4, <1>5, <1>7, <1>8, <1>10, <1>11 DEF CalmInv

\* The answer is written to the placeholder, the only open one of its task.
LEMMA CalmWrite ==
    ASSUME Pool, TypeOK, CalmInv, NEW u \in turns, FinalWrite(u)
    PROVE  CalmInv'
<1>t. /\ turns \in SUBSET Turns /\ u \in Turns
      /\ local \in [Workers -> Locals] /\ answer \in [Tasks -> [Rows -> RowStatuses]]
      /\ claim \in [Tasks -> Workers \cup {NoWorker}] /\ NoWorker \notin Workers
      /\ status \in [Tasks -> Statuses]
  BY ConstantsAssumption DEF TypeOK
<1>w. PICK w \in Workers, t \in Tasks, q \in Rows :
        w = u.worker /\ t = u.task /\ q = u.row
  BY <1>t DEF Turns
<1>1. /\ t \in local[w].inflight /\ t \in local[w].lease /\ t \in local[w].msgChat
      /\ Up(w) /\ answer[t][q] = "processing"
      /\ \A x \in turns : x.worker = w /\ x.task = t => x = u
  BY <1>w DEF CalmInv, TurnOk, MarksOk
<1>2. \A v \in Workers : t \in local[v].lease => v = w
  BY <1>w, <1>1 DEF CalmInv, LeaseOk
<1>3. /\ claim[t] = w /\ status'[t] = "completed" /\ answer'[t][q] = "completed"
      /\ \A x \in Tasks \ {t} : /\ claim'[x] = claim[x] /\ status'[x] = status[x]
                                /\ answer'[x] = answer[x]
      /\ \A r \in Rows \ {q} : answer'[t][r] = answer[t][r]
      /\ expired' = expired /\ loop' = loop /\ turns' = turns \ {u}
  <2>1. claim[t] = w
    BY <1>w, <1>1 DEF CalmInv, LeaseOk
  <2>2. /\ answer'[t][q] = "completed"
        /\ \A x \in Tasks \ {t} : answer'[x] = answer[x]
        /\ \A r \in Rows \ {q} : answer'[t][r] = answer[t][r]
    BY <1>t, <1>w, <1>1 DEF FinalWrite, SetRow
  <2>3. QED  BY <1>t, <1>w, <2>1, <2>2 DEF FinalWrite, DeleteClaims
<1>4. /\ local'[w].lease = local[w].lease \ {t}
      /\ local'[w].inflight = local[w].inflight \ {t}
      /\ local'[w].msgChat = local[w].msgChat \ {t}
      /\ local'[w].busy = local[w].busy \ {ChatOf[t]}
      /\ \A v \in Workers : v # w => local'[v] = local[v]
  <2>1. local[w] \in Locals /\ local'[w] = Forget(local[w], t)
    BY <1>t, <1>w DEF FinalWrite
  <2>2. QED  BY <1>t, <1>w, <1>1, <2>1 DEF FinalWrite, Forget, ReleaseSlot, Locals
<1>5. \A v \in Workers : \A x \in local'[v].lease : LeaseOk(v, x)'
  BY <1>t, <1>2, <1>3, <1>4 DEF CalmInv, LeaseOk, Locals
<1>6. \A v \in Workers : MarksOk(v)'
  BY <1>4 DEF CalmInv, MarksOk
<1>7. \A v \in Workers : HandOk(v)'
  <2> SUFFICES ASSUME NEW v \in Workers PROVE HandOk(v)'
    OBVIOUS
  <2>1. loop[v].at \in InHand => loop[v].task \in Tasks \ {t}
    BY <1>t, <1>1, <1>2 DEF CalmInv, HandOk, Locals
  <2>2. loop'[v] = loop[v]
    BY <1>3
  <2>3. /\ loop[v].at \in InHand => loop[v].task \in local'[v].lease \ local'[v].inflight
        /\ local'[v].busy \subseteq local[v].busy
    BY <1>4, <2>1 DEF CalmInv, HandOk
  <2>4. QED  BY <1>3, <2>1, <2>2, <2>3 DEF CalmInv, HandOk, InHand
<1>8. \A x \in turns' : TurnOk(x)'
  <2> SUFFICES ASSUME NEW x \in turns, x # u PROVE TurnOk(x)'
    BY <1>3
  <2>1. TurnOk(x) /\ x.worker \in Workers /\ x.task \in Tasks
    BY <1>t DEF CalmInv, Turns
  <2>2. x.task # t
    BY <1>1, <1>2, <2>1 DEF CalmInv, TurnOk, MarksOk
  <2>3. QED  BY <1>3, <1>4, <2>1, <2>2 DEF TurnOk, Up
<1>9. \A r \in Rows : answer'[t][r] # "processing"
  <2> SUFFICES ASSUME NEW r \in Rows \ {q}, answer[t][r] = "processing" PROVE FALSE
    BY <1>3
  <2>1. Closes(w, t, r)
    BY <1>1, <1>3 DEF CalmInv, RowOk
  <2>2. loop[w].at = "slot" => loop[w].task # t
    BY <1>1 DEF CalmInv, HandOk, InHand
  <2>3. QED
    BY <1>w, <1>1, <2>1, <2>2 DEF Closes, Up, Running, Idle, InTask
<1>10. \A x \in Tasks : \A r \in Rows : RowOk(x, r)'
  <2> SUFFICES ASSUME NEW x \in Tasks, NEW r \in Rows, answer'[x][r] = "processing"
               PROVE  RowOk(x, r)'
    BY DEF RowOk
  <2>1. x # t /\ answer[x][r] = "processing"
    BY <1>3, <1>9
  <2>2. /\ status[x] = "processing" /\ claim[x] \in Workers
        /\ x \in local[claim[x]].lease => Closes(claim[x], x, r)
    BY <2>1 DEF CalmInv, RowOk
  <2>3. Closes(claim[x], x, r) => Closes(claim[x], x, r)'
    BY <1>3, <1>w, <2>1 DEF Closes
  <2>4. x \in local'[claim[x]].lease => x \in local[claim[x]].lease
    BY <1>4, <2>2
  <2>5. QED  BY <1>3, <2>1, <2>2, <2>3, <2>4 DEF RowOk
<1>11. CompletedHasAnswer'
  BY <1>3 DEF CalmInv, CompletedHasAnswer
<1>12. QED  BY <1>3, <1>5, <1>6, <1>7, <1>8, <1>10, <1>11 DEF CalmInv

\* The heartbeat and the clocks.
LEMMA CalmQuiet ==
    ASSUME CalmInv, UNCHANGED <<status, claim, answer, loop, local, turns>>,
           \A w \in Workers : \A t \in local[w].lease : ~expired'[t]
    PROVE  CalmInv'
<1>1. \A w \in Workers : \A t \in local[w].lease : LeaseOk(w, t)'
  BY DEF CalmInv, LeaseOk
<1>2. \A w \in Workers : MarksOk(w)' /\ HandOk(w)'
  BY DEF CalmInv, MarksOk, HandOk
<1>3. \A u \in turns : TurnOk(u)'
  BY DEF CalmInv, TurnOk, Up
<1>4. \A t \in Tasks : \A r \in Rows : RowOk(t, r)'
  BY DEF CalmInv, RowOk, Closes
<1>5. CompletedHasAnswer'
  BY DEF CalmInv, CompletedHasAnswer
<1>6. QED  BY <1>1, <1>2, <1>3, <1>4, <1>5 DEF CalmInv

LEMMA CalmClock ==
    ASSUME CalmAssumption, TypeOK, CalmInv, ~Fault,
           \/ \E w \in Workers : Heartbeat(w)
           \/ \E t \in Tasks : Submit(t) \/ Cancel(t) \/ Age(t) \/ ExpireLease(t)
    PROVE  CalmInv'
<1>t. /\ status \in [Tasks -> Statuses] /\ expired \in [Tasks -> BOOLEAN]
      /\ local \in [Workers -> Locals]
  BY DEF TypeOK
<1>0. \A w \in Workers : \A t \in local[w].lease :
        /\ t \in Tasks /\ claim[t] = w /\ status[t] = "processing" /\ ~expired[t]
        /\ loop[w].at # "off"
  BY <1>t DEF CalmInv, LeaseOk, Locals
<1>1. CASE \E w \in Workers : Heartbeat(w)
  BY <1>0, <1>1, CalmQuiet DEF Heartbeat
<1>2. CASE \E t \in Tasks : Age(t)
  BY <1>0, <1>2, CalmQuiet DEF Age
<1>3. CASE \E t \in Tasks : ExpireLease(t)
  <2>1. PICK t \in Tasks : ExpireLease(t)
    BY <1>3
  <2>2. \A w \in Workers : t \notin local[w].lease
    BY <1>0, <2>1 DEF ExpireLease, CalmAssumption
  <2>3. \A w \in Workers : \A x \in local[w].lease : ~expired'[x]
    BY <1>t, <1>0, <2>1, <2>2 DEF ExpireLease
  <2>4. QED  BY <2>1, <2>3, CalmQuiet DEF ExpireLease
<1>4. CASE \E t \in Tasks : Submit(t)
  <2>1. PICK t \in Tasks : Submit(t)
    BY <1>4
  <2>2. /\ status[t] = "new" /\ status'[t] = "pending"
        /\ \A x \in Tasks \ {t} : status'[x] = status[x]
        /\ UNCHANGED <<claim, expired, answer, loop, local, turns>>
    BY <1>t, <2>1 DEF Submit
  <2>3. \A w \in Workers : \A x \in local[w].lease : LeaseOk(w, x)'
    BY <1>0, <2>2 DEF LeaseOk
  <2>4. \A w \in Workers : MarksOk(w)' /\ HandOk(w)'
    BY <2>2 DEF CalmInv, MarksOk, HandOk
  <2>5. \A u \in turns : TurnOk(u)'
    BY <2>2 DEF CalmInv, TurnOk, Up
  <2>6. \A x \in Tasks : \A r \in Rows : RowOk(x, r)'
    BY <2>2 DEF CalmInv, RowOk, Closes
  <2>7. CompletedHasAnswer'
    BY <2>2 DEF CalmInv, CompletedHasAnswer
  <2>8. QED  BY <2>2, <2>3, <2>4, <2>5, <2>6, <2>7 DEF CalmInv
<1>5. CASE \E t \in Tasks : Cancel(t)
  BY <1>5 DEF Cancel, CalmAssumption
<1>6. QED  BY <1>1, <1>2, <1>3, <1>4, <1>5

\* Reclaim leaves alone what a process has leased, and closes what it recovers.
LEMMA CalmReclaim ==
    ASSUME TypeOK, CalmInv, NEW w \in Workers, Reclaim(w)
    PROVE  CalmInv'
<1>t. /\ local \in [Workers -> Locals] /\ turns \in SUBSET Turns
      /\ claim \in [Tasks -> Workers \cup {NoWorker}] /\ NoWorker \notin Workers
      /\ UNCHANGED <<expired, loop, local, turns>>
  BY ConstantsAssumption DEF TypeOK, Reclaim
<1>1. \A t \in Tasks : t \notin Overdue(w) /\ status[t] = "processing"
                       /\ claim[t] # NoWorker =>
        status'[t] = "processing" /\ claim'[t] = claim[t]
  BY DEF Reclaim
<1>2. \A t \in Tasks : status'[t] = "completed" => status[t] = "completed"
  BY DEF Reclaim, Recovered
<1>3. \A t \in Tasks : \A r \in Rows :
        answer'[t][r] = IF t \in Overdue(w)
                        THEN RecoveredRow(Bumped(retry[t]), answer[t][r])
                        ELSE answer[t][r]
  BY DEF Reclaim
<1>4. \A v \in Workers : \A t \in local[v].lease :
        t \in Tasks /\ t \notin Overdue(w) /\ claim[t] # NoWorker
  BY <1>t DEF CalmInv, LeaseOk, Overdue, Locals
<1>5. \A v \in Workers : \A t \in local[v].lease : LeaseOk(v, t)'
  BY <1>t, <1>1, <1>4 DEF CalmInv, LeaseOk
<1>6. \A v \in Workers : MarksOk(v)'
  BY <1>t DEF CalmInv, MarksOk
<1>7. \A t \in Tasks \ Overdue(w) : \A r \in Rows : answer'[t][r] = answer[t][r]
  BY <1>3
<1>8. \A v \in Workers : HandOk(v)'
  <2> SUFFICES ASSUME NEW v \in Workers PROVE HandOk(v)'
    OBVIOUS
  <2>1. loop[v].at = "slot" => loop[v].task \in Tasks \ Overdue(w) /\ loop[v].row \in Rows
    BY <1>4 DEF CalmInv, HandOk, InHand, TypeOK, HoldsTask
  <2>2. QED  BY <1>t, <1>7, <2>1 DEF CalmInv, HandOk
<1>9. \A u \in turns : TurnOk(u)'
  <2> SUFFICES ASSUME NEW u \in turns PROVE TurnOk(u)'
    OBVIOUS
  <2>1. TurnOk(u) /\ u.worker \in Workers /\ u.row \in Rows
    BY <1>t DEF CalmInv, Turns
  <2>2. u.task \in Tasks \ Overdue(w)
    BY <1>4, <2>1 DEF CalmInv, TurnOk, MarksOk
  <2>3. QED  BY <1>t, <1>7, <2>1, <2>2 DEF TurnOk, Up
<1>10. \A t \in Tasks : \A r \in Rows : RowOk(t, r)'
  <2> SUFFICES ASSUME NEW t \in Tasks, NEW r \in Rows, answer'[t][r] = "processing"
               PROVE  RowOk(t, r)'
    BY DEF RowOk
  <2>1. t \notin Overdue(w) /\ answer[t][r] = "processing"
    BY <1>3 DEF RecoveredRow
  <2>2. RowOk(t, r)
    BY DEF CalmInv
  <2>3. status'[t] = "processing" /\ claim'[t] = claim[t]
    BY <1>t, <1>1, <2>1, <2>2 DEF RowOk
  <2>4. QED  BY <1>t, <2>1, <2>2, <2>3 DEF RowOk, Closes
<1>11. CompletedHasAnswer'
  BY <1>2, <1>3 DEF CalmInv, CompletedHasAnswer, RecoveredRow
<1>12. QED  BY <1>t, <1>5, <1>6, <1>8, <1>9, <1>10, <1>11 DEF CalmInv

\* A process that dies or stops takes its turns with it; the open placeholders of a
\* process that stops are closed when it gives its tasks back.
LEMMA CalmHalt ==
    ASSUME TypeOK, CalmInv, NEW w \in Workers, Crash(w) \/ Stop(w)
    PROVE  CalmInv'
<1>t. /\ loop \in [Workers -> Loops] /\ local \in [Workers -> Locals]
      /\ turns \in SUBSET Turns
      /\ UNCHANGED <<status, claim, expired, answer>>
  BY DEF TypeOK, Crash, Stop, Halt, db
<1>1. \A v \in Workers : v # w => loop'[v] = loop[v] /\ local'[v] = local[v]
  BY <1>t DEF Crash, Stop, Halt
<1>2. /\ turns' = {u \in turns : u.worker # w} /\ loop'[w].at \in {"off", "stopping"}
      /\ \/ local'[w] = FreshLocal
         \/ loop'[w].at = "stopping" /\ local'[w] = local[w] /\ loop[w].at # "off"
  BY <1>t DEF Crash, Stop, Halt, AtTop, Up, Running, Idle, InTask
<1>3. \A v \in Workers : \A t \in local'[v].lease : LeaseOk(v, t)'
  BY <1>t, <1>1, <1>2 DEF CalmInv, LeaseOk, FreshLocal
<1>4. \A v \in Workers : MarksOk(v)'
  BY <1>1, <1>2 DEF CalmInv, MarksOk, FreshLocal
<1>5. \A v \in Workers : HandOk(v)'
  BY <1>t, <1>1, <1>2 DEF CalmInv, HandOk, InHand
<1>6. \A u \in turns' : TurnOk(u)'
  BY <1>t, <1>1, <1>2 DEF CalmInv, TurnOk, Up, Turns
<1>7. \A t \in Tasks : \A r \in Rows : RowOk(t, r)'
  <2> SUFFICES ASSUME NEW t \in Tasks, NEW r \in Rows, answer[t][r] = "processing"
               PROVE  RowOk(t, r)'
    BY <1>t DEF RowOk
  <2>1. /\ status[t] = "processing" /\ claim[t] \in Workers
        /\ t \in local[claim[t]].lease => Closes(claim[t], t, r)
    BY DEF CalmInv, RowOk
  <2>2. CASE claim[t] = w
    BY <2>1, <2>2, <1>t, <1>2 DEF RowOk, Closes, FreshLocal
  <2>3. CASE claim[t] # w
    BY <2>1, <2>3, <1>t, <1>1, <1>2 DEF RowOk, Closes
  <2>4. QED  BY <2>2, <2>3
<1>8. CompletedHasAnswer'
  BY <1>t DEF CalmInv, CompletedHasAnswer
<1>9. QED  BY <1>3, <1>4, <1>5, <1>6, <1>7, <1>8 DEF CalmInv

LEMMA CalmRelease ==
    ASSUME Pool, TypeOK, CalmInv, NEW w \in Workers, ReleaseAllLeases(w)
    PROVE  CalmInv'
<1> DEFINE T == local[w].lease
<1>t. /\ loop \in [Workers -> Loops] /\ local \in [Workers -> Locals]
      /\ turns \in SUBSET Turns /\ T \subseteq Tasks
      /\ claim \in [Tasks -> Workers \cup {NoWorker}] /\ NoWorker \notin Workers
      /\ UNCHANGED <<expired, turns>>
  BY ConstantsAssumption DEF TypeOK, ReleaseAllLeases, Locals
<1>1. \A v \in Workers : v # w => loop'[v] = loop[v] /\ local'[v] = local[v]
  BY <1>t DEF ReleaseAllLeases
<1>2. loop[w].at = "stopping" /\ loop'[w].at = "off" /\ local'[w] = FreshLocal
  BY <1>t DEF ReleaseAllLeases, AtTop
<1>3. \A t \in Tasks \ T :
        status'[t] = status[t] /\ claim'[t] = claim[t]
  BY DEF ReleaseAllLeases, DeleteClaims
<1>4. \A t \in Tasks \ T : \A r \in Rows : answer'[t][r] = answer[t][r]
  BY DEF ReleaseAllLeases
<1>5. \A t \in T : status'[t] = "pending"
                   /\ \A r \in Rows : answer'[t][r] # "processing"
  BY <1>t DEF ReleaseAllLeases, CalmInv, LeaseOk
<1>6. \A v \in Workers : v # w =>
        local[v].lease \subseteq Tasks \ T
  BY <1>t DEF CalmInv, LeaseOk, Locals
<1>7. \A v \in Workers : \A t \in local'[v].lease : LeaseOk(v, t)'
  BY <1>t, <1>1, <1>2, <1>3, <1>6 DEF CalmInv, LeaseOk, FreshLocal
<1>8. \A v \in Workers : MarksOk(v)'
  BY <1>1, <1>2 DEF CalmInv, MarksOk, FreshLocal
<1>9. \A v \in Workers : HandOk(v)'
  <2>1. HandOk(w)'
    BY <1>2 DEF HandOk, InHand
  <2>2. ASSUME NEW v \in Workers, v # w PROVE HandOk(v)'
    <3>1. loop[v].at = "slot" => loop[v].task \in Tasks \ T /\ loop[v].row \in Rows
      BY <2>2, <1>6 DEF CalmInv, HandOk, InHand, TypeOK, HoldsTask
    <3>2. QED  BY <2>2, <3>1, <1>1, <1>4 DEF CalmInv, HandOk
  <2>3. QED  BY <2>1, <2>2
<1>10. \A u \in turns : TurnOk(u)'
  <2> SUFFICES ASSUME NEW u \in turns PROVE TurnOk(u)'
    OBVIOUS
  <2>1. TurnOk(u) /\ u.worker \in Workers /\ u.row \in Rows
    BY <1>t DEF CalmInv, Turns
  <2>2. u.worker # w
    BY <2>1, <1>2 DEF TurnOk, Up, Running, Idle, InTask
  <2>3. u.task \in Tasks \ T
    BY <1>6, <2>1, <2>2 DEF CalmInv, TurnOk, MarksOk
  <2>4. QED  BY <1>t, <1>1, <1>4, <2>1, <2>2, <2>3 DEF TurnOk, Up
<1>11. \A t \in Tasks : \A r \in Rows : RowOk(t, r)'
  <2> SUFFICES ASSUME NEW t \in Tasks, NEW r \in Rows, answer'[t][r] = "processing"
               PROVE  RowOk(t, r)'
    BY DEF RowOk
  <2>1. t \in Tasks \ T
    BY <1>5
  <2>2. answer[t][r] = "processing"
    BY <1>4, <2>1
  <2>3. /\ status[t] = "processing" /\ claim[t] \in Workers
        /\ t \in local[claim[t]].lease => Closes(claim[t], t, r)
    BY <2>2 DEF CalmInv, RowOk
  <2>4. CASE claim[t] = w
    BY <2>1, <2>3, <2>4, <1>2, <1>3 DEF RowOk, FreshLocal
  <2>5. CASE claim[t] # w
    BY <2>1, <2>3, <2>5, <1>t, <1>1, <1>3 DEF RowOk, Closes
  <2>6. QED  BY <2>4, <2>5
<1>12. CompletedHasAnswer'
  BY <1>3, <1>4, <1>5 DEF CalmInv, CompletedHasAnswer
<1>13. QED  BY <1>t, <1>7, <1>8, <1>9, <1>10, <1>11, <1>12 DEF CalmInv

LEMMA CalmRestart ==
    ASSUME TypeOK, CalmInv, NEW w \in Workers, Restart(w)
    PROVE  CalmInv'
<1>t. /\ loop \in [Workers -> Loops] /\ turns \in SUBSET Turns
      /\ UNCHANGED <<status, claim, expired, answer, local, turns>>
  BY DEF TypeOK, Restart, db
<1>1. /\ loop[w].at = "off" /\ loop'[w].at = "priority"
      /\ \A v \in Workers : v # w => loop'[v] = loop[v]
  BY <1>t DEF Restart, AtTop
<1>2. \A v \in Workers : \A t \in local[v].lease : v # w
  BY <1>1 DEF CalmInv, LeaseOk
<1>3. \A v \in Workers : \A t \in local[v].lease : LeaseOk(v, t)'
  BY <1>t, <1>1, <1>2 DEF CalmInv, LeaseOk
<1>4. \A v \in Workers : MarksOk(v)' /\ HandOk(v)'
  BY <1>t, <1>1 DEF CalmInv, MarksOk, HandOk, InHand
<1>5. \A u \in turns : TurnOk(u)'
  BY <1>t, <1>1 DEF CalmInv, TurnOk, Up, Turns, Running, Idle, InTask
<1>6. \A t \in Tasks : \A r \in Rows : RowOk(t, r)'
  BY <1>t, <1>1, <1>2 DEF CalmInv, RowOk, Closes
<1>7. CompletedHasAnswer'
  BY <1>t DEF CalmInv, CompletedHasAnswer
<1>8. QED  BY <1>t, <1>3, <1>4, <1>5, <1>6, <1>7 DEF CalmInv

\* The count of failed calls never falls.
LEMMA FaultsGrow ==
    ASSUME TypeOK, [Next]_vars
    PROVE  faults' = faults \/ Fault
<1>1. ASSUME NEW w \in Workers, Poll(w) \/ PollError(w) PROVE faults' = faults \/ Fault
  BY <1>1
  DEF Poll, Claim, Select, Insert, ClaimLost, ClaimSingle, NothingClaimed, Recheck,
      Deliver, Settle, Place, Slot, Defer, Undo, MarkDispatch, PollError
<1>2. ASSUME NEW w \in Workers, \/ Upkeep(w) \/ ReleaseAllLeases(w)
                                \/ Crash(w) \/ Stop(w) \/ Restart(w)
      PROVE  faults' = faults
  BY <1>2
  DEF Upkeep, Heartbeat, Reclaim, UnstickRead, UnstickApply, ReleaseAllLeases,
      Crash, Stop, Halt, Restart
<1>3. ASSUME NEW u \in turns,
             Finish(u) \/ FinalWriteFails(u) \/ FinalError(u) \/ FinalUnresolved(u)
      PROVE  faults' = faults \/ Fault
  BY <1>3
  DEF Finish, FinalCheck, FinalWrite, FinalMark, FinalDrop, FinalWriteFails,
      FinalError, FinalUnresolved
<1>4. ASSUME NEW t \in Tasks, Submit(t) \/ Cancel(t) \/ Age(t) \/ ExpireLease(t)
      PROVE  faults' = faults \/ Fault
  BY <1>4 DEF Submit, Cancel, Age, ExpireLease
<1>5. CASE UNCHANGED vars
  BY <1>5 DEF vars
<1>6. QED  BY <1>1, <1>2, <1>3, <1>4, <1>5 DEF Next, Environment

LEMMA CalmStep ==
    ASSUME CalmAssumption, TypeOK, CalmInv, faults = 0, faults' = 0, [Next]_vars
    PROVE  CalmInv'
<1>p. Pool /\ ~Fault
  BY DEF CalmAssumption, Fault
<1>1. ASSUME NEW w \in Workers, Poll(w) \/ PollError(w) PROVE CalmInv'
  <2>1. HandOk(w)
    BY DEF CalmInv
  <2>2. ~Defer(w) /\ ~Undo(w) /\ ~MarkDispatch(w) /\ ~ClaimSingle(w) /\ ~PollError(w)
    BY <1>p, <2>1
    DEF HandOk, Defer, Undo, MarkDispatch, ClaimSingle, PollError
  <2>3. QED
    BY <1>1, <2>2, CalmSelect, CalmInsert, CalmDeliver, CalmSettle, CalmPlace, CalmSlot
    DEF Poll, Claim
<1>2. ASSUME NEW w \in Workers, Upkeep(w) PROVE CalmInv'
  BY <1>2, <1>p, CalmClock, CalmReclaim DEF Upkeep, UnstickRead, UnstickApply
<1>3. ASSUME NEW w \in Workers,
             Crash(w) \/ Stop(w) \/ ReleaseAllLeases(w) \/ Restart(w)
      PROVE  CalmInv'
  BY <1>3, <1>p, CalmHalt, CalmRelease, CalmRestart
<1>4. ASSUME NEW u \in turns,
             Finish(u) \/ FinalWriteFails(u) \/ FinalError(u) \/ FinalUnresolved(u)
      PROVE  CalmInv'
  <2>1. TurnOk(u)
    BY DEF CalmInv
  <2>2. ~FinalMark(u) /\ ~FinalDrop(u)
    BY <2>1 DEF TurnOk, FinalMark, FinalDrop
  <2>3. ~FinalWriteFails(u) /\ ~FinalError(u) /\ ~FinalUnresolved(u)
    BY <1>p DEF FinalWriteFails, FinalError, FinalUnresolved
  <2>4. QED  BY <1>4, <1>p, <2>2, <2>3, CalmCheck, CalmWrite DEF Finish
<1>5. ASSUME NEW t \in Tasks, Submit(t) \/ Cancel(t) \/ Age(t) \/ ExpireLease(t)
      PROVE  CalmInv'
  BY <1>5, <1>p, CalmClock
<1>6. CASE UNCHANGED vars
  BY <1>6, CalmQuiet DEF vars, CalmInv, LeaseOk
<1>7. QED  BY <1>1, <1>2, <1>3, <1>4, <1>5, <1>6 DEF Next, Environment

LEMMA CalmAlways ==
    ASSUME CalmAssumption
    PROVE  Spec => [](TypeOK /\ (faults = 0 => CalmInv))
<1>1. Init => (faults = 0 => CalmInv)
  BY CalmInit
<1>2. TypeOK /\ (faults = 0 => CalmInv) /\ [Next]_vars => (faults = 0 => CalmInv)'
  <2> SUFFICES ASSUME TypeOK, faults = 0 => CalmInv, [Next]_vars, faults' = 0
               PROVE  CalmInv'
    OBVIOUS
  <2>1. faults = 0
    BY FaultsGrow, ConstantsAssumption DEF TypeOK, Fault
  <2>2. QED  BY <2>1, CalmStep
<1>3. QED  BY <1>1, <1>2, TypeCorrect, PTL DEF Spec

\* In worker_pool mode no two processes ever have a turn of one task, and a lease in
\* memory is the row of its process in agent_worker_claims: for any number of
\* processes, messages, chats and slots, with priority commands, processes that die,
\* stop or come back, and claims that run out and are reclaimed.  What it needs is that
\* the web application does not cancel and that no call has failed or came too late.
THEOREM WorkStaysExclusive ==
    ASSUME CalmAssumption
    PROVE  Spec => []WorkIsExclusive
<1>1. TypeOK /\ (faults = 0 => CalmInv) => WorkIsExclusive
  <2> SUFFICES ASSUME CalmInv PROVE ExclusiveTurn /\ LeaseHasClaim
    BY DEF WorkIsExclusive
  <2>1. \A w \in Workers : \A t \in local[w].lease : claim[t] = w
    BY DEF CalmInv, LeaseOk
  <2>2. \A w \in Workers : local[w].inflight \subseteq local[w].lease
    BY DEF CalmInv, MarksOk
  <2>3. QED  BY <2>1, <2>2 DEF ExclusiveTurn, LeaseHasClaim, Holds
<1>2. QED  BY <1>1, CalmAlways, PTL

\* Under the same conditions the readers of the table can rely on it: a completed task
\* has its answer, and neither a completed nor a failed one has a placeholder that
\* stays open.
THEOREM AnswersStay ==
    ASSUME CalmAssumption
    PROVE  Spec => []AnswersAreKept
<1>1. TypeOK /\ (faults = 0 => CalmInv) => AnswersAreKept
  BY DEF AnswersAreKept, CalmInv, RowOk, NoOpenRowOfFinished
<1>2. QED  BY <1>1, CalmAlways, PTL

-----------------------------------------------------------------------------
\* Single mode implements the queue.  The task in the coroutine's hand and the
\* tasks of the turns are in processing, each with its open placeholder and
\* with one holder only; what the unstick loop has read is in no one's hand.

\* One process in single mode, without priority commands and cancellations.
SingleAssumption ==
    /\ ~Pool /\ Punctual /\ Commands = {} /\ Cancellable = {}
    /\ \A v, w \in Workers : v = w

\* Where the coroutine has a task that is in processing in its hand, ...
Serving == {"check", "place", "slot", "defer", "mark"}

\* ... of which no turn runs, and where it has placed its row.
HandServes(w) ==
    /\ loop[w].at \notin {"insert", "drop"}
    /\ loop[w].at \in Serving => status[loop[w].task] = "processing"
    /\ loop[w].at \in (Serving \ {"mark"}) \cup {"undo"} =>
         loop[w].task \notin local[w].inflight
    /\ loop[w].at \in {"slot", "mark"} =>
         loop[w].row \in Rows /\ answer[loop[w].task][loop[w].row] = "processing"
    /\ loop[w].at \in InTask => \A u \in turns : u.task # loop[w].task

\* What the unstick loop has read is still stuck.
ReadIsStuck(w) ==
    /\ ~Up(w) => beat[w].read = {}
    /\ \A x \in beat[w].read : status[x.task] = "processing" /\ aged[x.task]

TurnServes(u) ==
    /\ Up(u.worker) /\ u.at # "drop"
    /\ u.task \in local[u.worker].inflight
    /\ \A x \in turns : x.task = u.task => x = u
    /\ answer[u.task][u.row] = "processing"

SingleInv ==
    /\ \A w \in Workers : \A t \in local[w].inflight : status[t] = "processing"
    /\ \A w \in Workers : HandServes(w) /\ ReadIsStuck(w)
    /\ \A u \in turns : TurnServes(u)
    /\ \A t \in Tasks : aged[t] /\ status[t] = "processing" => ~InWork(t)

\* The steps of the queue, as PgChannel takes them.
DoneRows(t) == {r \in Rows : answer[t][r] = "completed"}
SameDone(t) == \A r \in Rows : answer'[t][r] = "completed" <=> answer[t][r] = "completed"

QueueStep == [Queue!Next]_(Queue!vars)

LEMMA DoneUnchanged ==
    ASSUME \A t \in Tasks : SameDone(t)
    PROVE  [t \in Tasks |-> Cardinality(DoneRows(t))]'
             = [t \in Tasks |-> Cardinality(DoneRows(t))]
<1>1. \A t \in Tasks : DoneRows(t)' = DoneRows(t)
  BY DEF SameDone, DoneRows
<1>2. QED  BY <1>1

\* What a step may do to the rows without being seen.
LEMMA QueueStutters ==
    ASSUME \A t \in Tasks : Phase(status'[t]) = Phase(status[t]) /\ SameDone(t)
    PROVE  QueueStep
<1>1. [t \in Tasks |-> Phase(status[t])]' = [t \in Tasks |-> Phase(status[t])]
  OBVIOUS
<1>2. QED  BY <1>1, DoneUnchanged DEF QueueStep, Queue!vars, DoneRows

LEMMA PhaseValues ==
    /\ Phase("new") = "absent" /\ Phase("pending") = "waiting"
    /\ Phase("error") = "waiting" /\ Phase("processing") = "serving"
    /\ Phase("completed") = "answered" /\ Phase("failed") = "abandoned"
    /\ \A s \in Statuses : Phase(s) = "serving" <=> s = "processing"
BY DEF Phase, Statuses

\* Work goes back to the queue or is given up.
LEMMA QueueInterrupts ==
    ASSUME TypeOK, NEW S \in SUBSET Tasks,
           \A t \in S : /\ status[t] = "processing"
                        /\ status'[t] \in {"pending", "error", "failed"},
           \A t \in Tasks \ S : Phase(status'[t]) = Phase(status[t]),
           \A t \in Tasks : SameDone(t)
    PROVE  QueueStep
<1> DEFINE back == {t \in S : status'[t] # "failed"}
           lost == {t \in S : status'[t] = "failed"}
           serving == {t \in Tasks : [x \in Tasks |-> Phase(status[x])][t] = "serving"}
<1>1. back \in SUBSET serving /\ lost \in SUBSET serving /\ back \cap lost = {}
  BY PhaseValues
<1>2. [t \in Tasks |-> Phase(status[t])]'
        = [t \in Tasks |-> IF t \in back THEN "waiting"
                           ELSE IF t \in lost THEN "abandoned"
                           ELSE [x \in Tasks |-> Phase(status[x])][t]]
  BY PhaseValues
<1>3. back \cup lost \subseteq serving
  BY <1>1
<1> HIDE DEF back, lost, serving
<1>4. Queue!Interrupt(back, lost)
  BY <1>1, <1>2, <1>3, DoneUnchanged DEF Queue!Interrupt, Queue!Serving, DoneRows, serving
<1>5. back \in SUBSET Queue!Serving /\ lost \in SUBSET Queue!Serving
  BY <1>1 DEF Queue!Serving, serving
<1>6. QED  BY <1>4, <1>5 DEF QueueStep, Queue!Next

LEMMA SingleInit == Init => SingleInv
BY DEF Init, SingleInv, HandServes, ReadIsStuck, AtTop, FreshLocal, Asleep, Serving,
       InTask, Up, Running, Idle

\* The steps of the coroutine that change neither the table nor the memory.
LEMMA SingleMoves ==
    ASSUME SingleAssumption, TypeOK, SingleInv, NEW w \in Workers,
           UNCHANGED <<status, aged, answer, beat, turns>>, loop'[w].at \in Running,
           \/ local' = local
           \/ local'[w].inflight = local[w].inflight,
           Up(w), HandServes(w)',
           loop'[w].at \in InTask => loop'[w].task = loop[w].task /\ loop[w].at \in InTask
    PROVE  SingleInv'
<1>w. \A v \in Workers : v = w
  BY DEF SingleAssumption
<1>t. turns \in SUBSET Turns
  BY DEF TypeOK
<1>1. \A v \in Workers : \A t \in local'[v].inflight : status'[t] = "processing"
  BY <1>w DEF SingleInv
<1>2. \A v \in Workers : HandServes(v)' /\ ReadIsStuck(v)'
  BY <1>w DEF SingleInv, ReadIsStuck, Up
<1>3. \A u \in turns : TurnServes(u)'
  BY <1>w, <1>t DEF SingleInv, TurnServes, Up, Turns
<1>4. \A t \in Tasks : aged[t] /\ status[t] = "processing" => ~InWork(t)'
  BY <1>w DEF SingleInv, InWork
<1>5. QED  BY <1>1, <1>2, <1>3, <1>4 DEF SingleInv

\* What an unchanged table means for the queue.
LEMMA SameTable ==
    ASSUME UNCHANGED <<status, answer>>
    PROVE  QueueStep
BY QueueStutters DEF SameDone

LEMMA SinglePoll ==
    ASSUME SingleAssumption, TypeOK, SingleInv, SlotInv, NEW w \in Workers,
           NothingClaimed(w) \/ Recheck(w) \/ PollError(w) \/ Undo(w)
    PROVE  SingleInv' /\ QueueStep
<1>t. /\ loop \in [Workers -> Loops] /\ loop[w] \in Loops
      /\ local \in [Workers -> Locals] /\ local[w] \in Locals
  BY DEF TypeOK
<1>0. HandServes(w) /\ ~loop[w].urgent
  BY DEF SingleInv, SlotInv, ChatInv, SingleAssumption
<1>1. /\ UNCHANGED <<status, aged, answer, beat, turns>> /\ Up(w)
      /\ local'[w].inflight = local[w].inflight
  BY <1>t DEF NothingClaimed, Recheck, PollError, Undo, db, Up, Running, InTask, Locals
<1>2. CASE NothingClaimed(w) \/ PollError(w) \/ Undo(w)
  <2>1. loop'[w].at \in Idle
    BY <1>2, <1>t DEF NothingClaimed, NextPoll, PollError, Undo, AtTop, Idle
  <2>2. HandServes(w)'
    BY <2>1 DEF HandServes, Serving, Idle, InTask
  <2>3. QED
    BY <1>1, <2>1, <2>2, SingleMoves, SameTable DEF Running, Idle, InTask
<1>3. CASE Recheck(w)
  <2>1. loop[w].at = "check" /\ status[loop[w].task] = "processing"
    BY <1>3, <1>0 DEF Recheck, HandServes, Serving
  <2>2. /\ loop'[w].at \in {"place", "defer"} /\ loop'[w].task = loop[w].task
    BY <1>3, <1>0, <2>1, DispatchLoop
  <2>3. HandServes(w)'
    BY <1>0, <1>1, <2>1, <2>2 DEF HandServes, Serving, InTask
  <2>4. QED
    BY <1>1, <2>1, <2>2, <2>3, SingleMoves, SameTable DEF Running, InTask
<1>4. QED  BY <1>2, <1>3

\* The claim takes up a message whose chat is idle.
LEMMA SingleClaim ==
    ASSUME SingleAssumption, TypeOK, SingleInv, NEW w \in Workers, ClaimSingle(w)
    PROVE  SingleInv' /\ QueueStep
<1>w. \A v \in Workers : v = w
  BY DEF SingleAssumption
<1>t. /\ loop \in [Workers -> Loops] /\ local \in [Workers -> Locals]
      /\ status \in [Tasks -> Statuses] /\ aged \in [Tasks -> BOOLEAN]
      /\ turns \in SUBSET Turns /\ local[w] \in Locals
  BY DEF TypeOK
<1>1. PICK t \in Oldest(Candidates(Scope(w))) :
        /\ status[t] = "pending"
        /\ status' = [status EXCEPT ![t] = "processing"]
        /\ aged' = [aged EXCEPT ![t] = FALSE]
        /\ local' = [local EXCEPT ![w].lease = @ \cup {t}]
        /\ loop' = [loop EXCEPT ![w] = [at |-> "check", task |-> t, row |-> 0,
                                        urgent |-> loop[w].at = "priority"]]
        /\ UNCHANGED <<answer, beat, turns>>
  BY DEF ClaimSingle
<1>2. t \in Tasks /\ ChatIdle(ChatOf[t])
  BY OldestCandidate DEF Oldest, Candidates
<1>3. /\ status'[t] = "processing" /\ ~aged'[t]
      /\ \A x \in Tasks \ {t} : status'[x] = status[x] /\ aged'[x] = aged[x]
      /\ loop'[w].at = "check" /\ loop'[w].task = t
      /\ local'[w].inflight = local[w].inflight
  BY <1>t, <1>1, <1>2 DEF Locals
<1>4. Up(w)
  BY DEF ClaimSingle, MayPoll, Up, Running, Idle
<1>5. t \notin local[w].inflight /\ \A u \in turns : u.task # t
  BY <1>1, <1>t, <1>w DEF SingleInv, TurnServes, Turns
<1>6. \A v \in Workers : \A x \in local'[v].inflight : status'[x] = "processing"
  BY <1>w, <1>t, <1>3 DEF SingleInv, Locals
<1>7. \A v \in Workers : HandServes(v)'
  BY <1>w, <1>1, <1>3, <1>5 DEF HandServes, Serving
<1>8. \A v \in Workers : ReadIsStuck(v)'
  <2>1. \A x \in beat[w].read : x.task \in Tasks \ {t}
    BY <1>1 DEF SingleInv, ReadIsStuck, TypeOK, Beats, Stale
  <2>2. QED  BY <2>1, <1>w, <1>1, <1>3, <1>4 DEF SingleInv, ReadIsStuck, Up, Running, InTask
<1>9. \A u \in turns : TurnServes(u)'
  BY <1>w, <1>t, <1>1, <1>3 DEF SingleInv, TurnServes, Up, Turns, Running, InTask
<1>10. \A x \in Tasks : aged'[x] /\ status'[x] = "processing" => ~InWork(x)'
  BY <1>w, <1>1, <1>3 DEF SingleInv, InWork
<1>11. SingleInv'
  BY <1>1, <1>6, <1>7, <1>8, <1>9, <1>10 DEF SingleInv
<1>12. QueueStep
  <2> DEFINE p == [x \in Tasks |-> Phase(status[x])]
  <2>1. p[t] = "waiting"
    BY <1>1, <1>2, PhaseValues
  <2>2. \A x \in Tasks : p[x] = "serving" => ChatOf[x] # ChatOf[t]
    BY <1>t, <1>2, PhaseValues DEF ChatIdle
  <2>3. p' = [p EXCEPT ![t] = "serving"]
    BY <1>t, <1>1, <1>3, PhaseValues
  <2>4. \A x \in Tasks : SameDone(x)
    BY <1>1 DEF SameDone
  <2>5. Queue!Serve(t)
    BY <2>1, <2>2, <2>3, <2>4, DoneUnchanged
    DEF Queue!Serve, Queue!Serving, DoneRows
  <2>6. QED  BY <1>2, <2>5 DEF QueueStep, Queue!Next
<1>13. QED  BY <1>11, <1>12

\* The placeholder, or the way back after a failed INSERT.
LEMMA SinglePlace ==
    ASSUME SingleAssumption, TypeOK, SingleInv, NEW w \in Workers, Place(w)
    PROVE  SingleInv' /\ QueueStep
<1> DEFINE t == loop[w].task
<1>w. \A v \in Workers : v = w
  BY DEF SingleAssumption
<1>t. /\ loop \in [Workers -> Loops] /\ local \in [Workers -> Locals]
      /\ loop[w] \in Loops /\ local[w] \in Locals /\ turns \in SUBSET Turns
      /\ answer \in [Tasks -> [Rows -> RowStatuses]] /\ t \in Tasks
  BY DEF TypeOK, HoldsTask, Place, InTask
<1>0. /\ HandServes(w) /\ loop[w].at = "place" /\ Up(w)
      /\ UNCHANGED <<status, aged, beat, turns>>
  BY DEF SingleInv, Place, Up, Running, InTask
<1>1. CASE loop' = [loop EXCEPT ![w].at = "defer"] /\ UNCHANGED <<answer, local>>
  <2>1. loop'[w].at = "defer" /\ loop'[w].task = t
    BY <1>1, <1>t DEF Loops
  <2>2. HandServes(w)'
    BY <1>0, <1>1, <2>1 DEF HandServes, Serving, InTask
  <2>3. QED
    BY <1>0, <1>1, <2>1, <2>2, SingleMoves, SameTable DEF Running, InTask
<1>2. CASE \E r \in FreeRows(t) :
             /\ answer' = [answer EXCEPT ![t][r] = "processing"]
             /\ loop' = [loop EXCEPT ![w].at = "slot", ![w].row = r]
             /\ local' = [local EXCEPT ![w].ctx = @ \cup {t}]
  <2>1. PICK r \in FreeRows(t) :
             /\ answer' = [answer EXCEPT ![t][r] = "processing"]
             /\ loop' = [loop EXCEPT ![w].at = "slot", ![w].row = r]
             /\ local' = [local EXCEPT ![w].ctx = @ \cup {t}]
    BY <1>2
  <2>2. /\ r \in Rows /\ answer[t][r] = "absent" /\ answer'[t][r] = "processing"
        /\ \A u \in Tasks, q \in Rows : u # t \/ q # r => answer'[u][q] = answer[u][q]
    BY <2>1, <1>t DEF FreeRows
  <2>3. /\ loop'[w].at = "slot" /\ loop'[w].task = t /\ loop'[w].row = r
        /\ local'[w].inflight = local[w].inflight
    BY <2>1, <1>t DEF Loops, Locals
  <2>4. \A v \in Workers : \A x \in local'[v].inflight : status'[x] = "processing"
    BY <1>w, <1>0, <2>3 DEF SingleInv
  <2>5. HandServes(w)' /\ ReadIsStuck(w)'
    BY <1>0, <2>2, <2>3
    DEF SingleInv, HandServes, Serving, InTask, ReadIsStuck, Up, Running
  <2>6. \A u \in turns : TurnServes(u)'
    <3>1. \A u \in turns : u.task \in Tasks /\ u.row \in Rows /\ u.worker = w
      BY <1>w, <1>t DEF Turns
    <3>2. \A u \in turns : answer'[u.task][u.row] = answer[u.task][u.row]
      BY <3>1, <1>0, <2>2 DEF SingleInv, TurnServes
    <3>3. QED
      BY <3>1, <3>2, <1>0, <2>3 DEF SingleInv, TurnServes, Up, Running, InTask
  <2>7. \A x \in Tasks : aged'[x] /\ status'[x] = "processing" => ~InWork(x)'
    BY <1>w, <1>0, <2>3 DEF SingleInv, InWork, InTask
  <2>8. QueueStep
    BY <1>0, <2>2, QueueStutters DEF SameDone
  <2>9. QED  BY <1>w, <1>0, <2>4, <2>5, <2>6, <2>7, <2>8 DEF SingleInv
<1>3. QED  BY <1>1, <1>2 DEF Place, Oldest

\* The turn starts, or its dispatch has failed.
LEMMA SingleSlot ==
    ASSUME SingleAssumption, TypeOK, SingleInv, NEW w \in Workers, Slot(w)
    PROVE  SingleInv' /\ QueueStep
<1> DEFINE t == loop[w].task
<1>w. \A v \in Workers : v = w
  BY DEF SingleAssumption
<1>t. /\ loop \in [Workers -> Loops] /\ local \in [Workers -> Locals]
      /\ loop[w] \in Loops /\ local[w] \in Locals /\ turns \in SUBSET Turns
      /\ t \in Tasks
  BY DEF TypeOK, HoldsTask, Slot, InTask
<1>0. /\ HandServes(w) /\ loop[w].at = "slot" /\ Up(w)
      /\ UNCHANGED <<status, answer, aged, beat>>
      /\ local'[w].inflight = local[w].inflight \cup {t}
  BY <1>t DEF SingleInv, Slot, Up, Running, InTask, db, Locals
<1>1. /\ status[t] = "processing" /\ t \notin local[w].inflight
      /\ loop[w].row \in Rows /\ answer[t][loop[w].row] = "processing"
      /\ \A u \in turns : u.task # t
  BY <1>0 DEF HandServes, Serving, InTask
<1>2. \A v \in Workers : \A x \in local'[v].inflight : status'[x] = "processing"
  BY <1>w, <1>0, <1>1 DEF SingleInv
<1>n. PICK new : new = [worker |-> w, task |-> t, row |-> loop[w].row,
                        at |-> "running"]
  OBVIOUS
<1>3. \/ /\ loop' = [loop EXCEPT ![w] = AtTop("priority")]
         /\ turns' = turns \cup {new}
      \/ loop' = [loop EXCEPT ![w].at = "mark"] /\ turns' = turns
  BY <1>n DEF Slot
<1>4. CASE /\ loop' = [loop EXCEPT ![w] = AtTop("priority")]
           /\ turns' = turns \cup {new}
  <2>1. loop'[w].at = "priority"
    BY <1>4, <1>t DEF AtTop
  <2>2. HandServes(w)' /\ ReadIsStuck(w)'
    BY <2>1, <1>0
    DEF SingleInv, HandServes, Serving, InTask, ReadIsStuck, Up, Running, Idle
  <2>3. \A u \in turns' : TurnServes(u)'
    BY <1>w, <1>t, <1>n, <1>0, <1>1, <1>4, <2>1
    DEF SingleInv, TurnServes, Up, Turns, Running, Idle
  <2>4. \A x \in Tasks : aged'[x] /\ status'[x] = "processing" => ~InWork(x)'
    <3>1. \A x \in Tasks : InWork(x)' => InWork(x)
      BY <1>w, <1>n, <1>0, <1>4, <2>1 DEF InWork, InTask
    <3>2. QED  BY <3>1, <1>0 DEF SingleInv
  <2>5. QED  BY <1>w, <1>0, <1>2, <2>2, <2>3, <2>4, SameTable DEF SingleInv
<1>5. CASE loop' = [loop EXCEPT ![w].at = "mark"] /\ turns' = turns
  <2>1. loop'[w].at = "mark" /\ loop'[w].task = t /\ loop'[w].row = loop[w].row
    BY <1>5, <1>t DEF Loops
  <2>2. HandServes(w)' /\ ReadIsStuck(w)'
    BY <2>1, <1>0, <1>1, <1>5
    DEF SingleInv, HandServes, Serving, InTask, ReadIsStuck, Up, Running
  <2>3. \A u \in turns' : TurnServes(u)'
    BY <1>w, <1>t, <1>0, <1>5, <2>1
    DEF SingleInv, TurnServes, Up, Turns, Running, InTask
  <2>4. \A x \in Tasks : aged'[x] /\ status'[x] = "processing" => ~InWork(x)'
    BY <1>w, <1>0, <1>5, <2>1 DEF SingleInv, InWork, InTask
  <2>5. QED  BY <1>w, <1>0, <1>2, <2>2, <2>3, <2>4, SameTable DEF SingleInv
<1>6. QED  BY <1>3, <1>4, <1>5

\* A task goes back before its turn.
LEMMA SingleDefer ==
    ASSUME SingleAssumption, TypeOK, SingleInv, NEW w \in Workers, Defer(w)
    PROVE  SingleInv' /\ QueueStep
<1> DEFINE t == loop[w].task
<1>w. \A v \in Workers : v = w
  BY DEF SingleAssumption
<1>t. /\ loop \in [Workers -> Loops] /\ local[w] \in Locals
      /\ loop[w] \in Loops /\ turns \in SUBSET Turns
      /\ status \in [Tasks -> Statuses] /\ aged \in [Tasks -> BOOLEAN] /\ t \in Tasks
  BY DEF TypeOK, HoldsTask, Defer, InTask
<1>0. /\ HandServes(w) /\ loop[w].at = "defer" /\ Up(w)
      /\ status'[t] = "pending" /\ ~aged'[t]
      /\ \A x \in Tasks \ {t} : status'[x] = status[x] /\ aged'[x] = aged[x]
      /\ loop'[w].at = "undo" /\ loop'[w].task = t
      /\ UNCHANGED <<answer, local, beat, turns>>
  BY <1>t DEF SingleInv, Defer, Up, Running, InTask, Loops
<1>1. /\ status[t] = "processing" /\ t \notin local[w].inflight
      /\ \A u \in turns : u.task # t
  BY <1>0 DEF HandServes, Serving, InTask
<1>2. ~aged[t]
  BY <1>t, <1>0, <1>1 DEF SingleInv, InWork, InTask
<1>3. \A v \in Workers : \A x \in local'[v].inflight : status'[x] = "processing"
  BY <1>w, <1>t, <1>0, <1>1 DEF SingleInv, Locals
<1>4. HandServes(w)'
  BY <1>0, <1>1 DEF HandServes, Serving, InTask
<1>5. ReadIsStuck(w)'
  <2>1. \A x \in beat[w].read : x.task \in Tasks \ {t}
    BY <1>2 DEF SingleInv, ReadIsStuck, TypeOK, Beats, Stale
  <2>2. QED  BY <2>1, <1>0 DEF SingleInv, ReadIsStuck, Up, Running, InTask
<1>6. \A u \in turns' : TurnServes(u)'
  BY <1>w, <1>t, <1>0 DEF SingleInv, TurnServes, Up, Turns, Running, InTask
<1>7. \A x \in Tasks : aged'[x] /\ status'[x] = "processing" => ~InWork(x)'
  BY <1>w, <1>0 DEF SingleInv, InWork, InTask
<1>8. QueueStep
  <2>1. \A x \in Tasks : SameDone(x)
    BY <1>0 DEF SameDone
  <2>2. \A x \in Tasks \ {t} : Phase(status'[x]) = Phase(status[x])
    BY <1>0
  <2>3. {t} \in SUBSET Tasks
    BY <1>t
  <2>4. QED  BY <2>1, <2>2, <2>3, <1>0, <1>1, QueueInterrupts
<1>9. QED  BY <1>w, <1>3, <1>4, <1>5, <1>6, <1>7, <1>8 DEF SingleInv

\* A turn, or a dispatch, that failed: the message goes back or is given up.
LEMMA SingleMark ==
    ASSUME SingleAssumption, TypeOK, SingleInv, NEW w \in Workers, NEW t \in Tasks,
           NEW row \in Rows \cup {0}, MarkFailed(w, {t}, row),
           status[t] = "processing", InWork(t),
           row \in Rows => answer[t][row] # "completed",
           local'[w].inflight = local[w].inflight \ {t},
           turns' \subseteq turns, \A u \in turns' : u.task # t,
           \/ loop' = loop /\ ~(loop[w].at \in InTask /\ loop[w].task = t)
           \/ Up(w) /\ loop'[w].at \in Idle,
           beat' = beat
    PROVE  SingleInv' /\ QueueStep
<1>w. \A v \in Workers : v = w
  BY DEF SingleAssumption
<1>t. /\ status \in [Tasks -> Statuses] /\ aged \in [Tasks -> BOOLEAN]
      /\ turns \in SUBSET Turns /\ local[w] \in Locals
  BY DEF TypeOK
<1>1. /\ status'[t] \in {"failed", "error"}
      /\ \A x \in Tasks \ {t} : status'[x] = status[x] /\ aged'[x] = aged[x]
      /\ ~aged'[t]
  BY <1>t DEF MarkFailed
<1>2. \A x \in Tasks : \A r \in Rows :
        /\ x # t => answer'[x][r] = answer[x][r]
        /\ answer'[x][r] = "completed" <=> answer[x][r] = "completed"
  BY DEF MarkFailed
<1>3. ~aged[t]
  BY DEF SingleInv
<1>4. \A v \in Workers : \A x \in local'[v].inflight : status'[x] = "processing"
  BY <1>w, <1>t, <1>1 DEF SingleInv, Locals
<1>5. HandServes(w)'
  <2>1. CASE loop'[w].at \in Idle
    BY <2>1 DEF HandServes, Idle, Serving, InTask
  <2>2. CASE loop' = loop /\ ~(loop[w].at \in InTask /\ loop[w].task = t)
    <3>1. loop[w].at \in InTask => loop[w].task \in Tasks \ {t}
      BY <2>2 DEF TypeOK, HoldsTask
    <3>2. QED  BY <3>1, <2>2, <1>1, <1>2 DEF SingleInv, HandServes, Serving, InTask
  <2>3. QED  BY <2>1, <2>2
<1>6. ReadIsStuck(w)'
  <2>1. \A x \in beat[w].read : x.task \in Tasks \ {t}
    BY <1>3 DEF SingleInv, ReadIsStuck, TypeOK, Beats, Stale
  <2>2. Up(w)' = Up(w)
    BY DEF Up, Running
  <2>3. QED  BY <2>1, <2>2, <1>1 DEF SingleInv, ReadIsStuck
<1>7. \A u \in turns' : TurnServes(u)'
  BY <1>w, <1>t, <1>2 DEF SingleInv, TurnServes, Up, Turns, Running
<1>8. \A x \in Tasks : aged'[x] /\ status'[x] = "processing" => ~InWork(x)'
  <2>1. \A x \in Tasks : InWork(x)' => InWork(x)
    BY <1>w DEF InWork, Idle, InTask
  <2>2. QED  BY <2>1, <1>1 DEF SingleInv
<1>9. QueueStep
  <2>1. \A x \in Tasks : SameDone(x)
    BY <1>2 DEF SameDone
  <2>2. \A x \in Tasks \ {t} : Phase(status'[x]) = Phase(status[x])
    BY <1>1
  <2>3. {t} \in SUBSET Tasks
    OBVIOUS
  <2>4. QED  BY <2>1, <2>2, <2>3, <1>1, QueueInterrupts
<1>10. QED  BY <1>w, <1>4, <1>5, <1>6, <1>7, <1>8, <1>9 DEF SingleInv

LEMMA SingleMarkDispatch ==
    ASSUME SingleAssumption, TypeOK, SingleInv, NEW w \in Workers, MarkDispatch(w)
    PROVE  SingleInv' /\ QueueStep
<1>t. /\ loop \in [Workers -> Loops] /\ local \in [Workers -> Locals]
      /\ local[w] \in Locals
  BY DEF TypeOK
<1>1. PICK t \in Tasks : t = loop[w].task
  BY DEF TypeOK, HoldsTask, MarkDispatch, InTask
<1>2. /\ loop[w].at = "mark" /\ Up(w) /\ loop'[w].at \in Idle /\ InWork(t)
      /\ MarkFailed(w, {t}, loop[w].row) /\ beat' = beat /\ turns' = turns
  BY <1>t, <1>1 DEF MarkDispatch, AtTop, Idle, Up, Running, InTask, InWork
<1>3. /\ status[t] = "processing" /\ loop[w].row \in Rows
      /\ answer[t][loop[w].row] = "processing" /\ \A u \in turns : u.task # t
  BY <1>1, <1>2 DEF SingleInv, HandServes, Serving, InTask
<1>4. local'[w].inflight = local[w].inflight \ {t}
  BY <1>t, <1>1 DEF MarkDispatch, Forget, ReleaseSlot, Locals
<1>5. QED  BY <1>2, <1>3, <1>4, SingleMark

\* What is known of a turn.
LEMMA TurnKnown ==
    ASSUME SingleAssumption, TypeOK, SingleInv, NEW u \in turns
    PROVE  /\ u \in Turns /\ u.worker \in Workers /\ u.task \in Tasks /\ u.row \in Rows
           /\ TurnServes(u) /\ status[u.task] = "processing" /\ InWork(u.task)
           /\ Up(u.worker)
           /\ ~(loop[u.worker].at \in InTask /\ loop[u.worker].task = u.task)
<1>1. u \in Turns /\ u.worker \in Workers /\ u.task \in Tasks /\ u.row \in Rows
  BY DEF TypeOK, Turns
<1>2. TurnServes(u) /\ HandServes(u.worker)
  BY <1>1 DEF SingleInv
<1>3. status[u.task] = "processing" /\ Up(u.worker)
  BY <1>1, <1>2 DEF TurnServes, SingleInv
<1>4. InWork(u.task)
  BY DEF InWork
<1>5. ~(loop[u.worker].at \in InTask /\ loop[u.worker].task = u.task)
  BY <1>2 DEF HandServes
<1>6. QED  BY <1>1, <1>2, <1>3, <1>4, <1>5

LEMMA SingleFinalMark ==
    ASSUME SingleAssumption, TypeOK, SingleInv, SlotInv, NEW u \in turns,
           FinalMark(u) \/ FinalUnresolved(u)
    PROVE  SingleInv' /\ QueueStep
<1>1. PICK w \in Workers, t \in Tasks : w = u.worker /\ t = u.task
  BY TurnKnown
<1>t. local \in [Workers -> Locals] /\ local[w] \in Locals
  BY DEF TypeOK
<1>2. /\ turns' = turns \ {u} /\ UNCHANGED <<loop, beat>>
      /\ u.row \in Rows /\ answer[t][u.row] = "processing"
      /\ status[t] = "processing" /\ InWork(t)
      /\ ~(loop[w].at \in InTask /\ loop[w].task = t)
      /\ t \in local[w].inflight
      /\ \A x \in turns' : x.task # t
  BY <1>1, TurnKnown DEF FinalMark, FinalUnresolved, TurnServes
<1>3. CASE FinalMark(u)
  <2>1. local'[w].inflight = local[w].inflight \ {t} /\ MarkFailed(w, {t}, u.row)
    BY <1>t, <1>1, <1>3 DEF FinalMark, Forget, ReleaseSlot, Locals
  <2>2. QED  BY <2>1, <1>2, SingleMark
<1>4. CASE FinalUnresolved(u)
  <2>1. {x \in local[w].msgChat : ChatOf[x] = ChatOf[t]} = {t}
    BY <1>t, <1>2 DEF SlotInv, ChatInv, SingleAssumption, Locals
  <2>2. MarkFailed(w, {t}, 0)
    BY <1>1, <1>4, <2>1 DEF FinalUnresolved
  <2>3. local'[w].inflight = local[w].inflight \ {t}
    <3>1. PICK T : T = {x \in local[w].msgChat : ChatOf[x] = ChatOf[t]}
      OBVIOUS
    <3>2. local' = [local EXCEPT
                   ![w].ctx = @ \ T, ![w].lease = @ \ T,
                   ![w].permits = @ + Cardinality(T \cap local[w].inflight),
                   ![w].inflight = @ \ T, ![w].msgChat = @ \ T,
                   ![w].busy = @ \ {ChatOf[t]}]
      BY <1>1, <1>4, <3>1 DEF FinalUnresolved
    <3>3. local'[w].inflight = local[w].inflight \ T
      BY <1>t, <3>2 DEF Locals
    <3>4. QED  BY <2>1, <3>1, <3>3
  <2>4. 0 \notin Rows
    BY DEF Rows
  <2>5. QED  BY <2>2, <2>3, <2>4, <1>2, SingleMark
<1>5. QED  BY <1>3, <1>4

\* A turn that moves on, or whose end is not noticed.
LEMMA SingleTurn ==
    ASSUME SingleAssumption, TypeOK, SingleInv, NEW u \in turns,
           FinalCheck(u) \/ FinalWriteFails(u) \/ FinalError(u)
    PROVE  SingleInv' /\ QueueStep
<1>t. turns \in SUBSET Turns /\ UNCHANGED <<status, answer, aged, loop, local, beat>>
  BY DEF TypeOK, FinalCheck, FinalWriteFails, FinalError, db
<1>1. PICK new : new = [u EXCEPT !.at = IF FinalCheck(u) THEN "write" ELSE "mark"]
  OBVIOUS
<1>2. /\ new.worker = u.worker /\ new.task = u.task /\ new.row = u.row
      /\ new.at # "drop" /\ TurnServes(u) /\ status[u.task] = "processing"
  BY <1>1, TurnKnown DEF Turns
<1>3. turns' = turns \ {u} \/ turns' = (turns \ {u}) \cup {new}
  <2>1. CASE FinalCheck(u)
    BY <2>1, <1>1, <1>2 DEF FinalCheck, Becomes
  <2>2. CASE FinalWriteFails(u)
    <3>1. ~FinalCheck(u)
      BY <2>2 DEF FinalWriteFails, FinalCheck
    <3>2. QED  BY <2>2, <3>1, <1>1 DEF FinalWriteFails, Becomes
  <2>3. CASE FinalError(u)
    BY <2>3 DEF FinalError
  <2>4. QED  BY <2>1, <2>2, <2>3
<1>4. \A v \in Workers : HandServes(v)' /\ ReadIsStuck(v)'
  BY <1>t, <1>2, <1>3 DEF SingleInv, HandServes, ReadIsStuck, Up
<1>5. \A x \in turns' : TurnServes(x)'
  BY <1>t, <1>2, <1>3 DEF SingleInv, TurnServes, Up
<1>6. \A x \in Tasks : aged'[x] /\ status'[x] = "processing" => ~InWork(x)'
  BY <1>t, <1>2, <1>3 DEF SingleInv, InWork
<1>7. QED  BY <1>t, <1>4, <1>5, <1>6, SameTable DEF SingleInv

\* The answer: its row was the open placeholder, so there is one more now.
LEMMA SingleWrite ==
    ASSUME SingleAssumption, TypeOK, SingleInv, NEW u \in turns, FinalWrite(u)
    PROVE  SingleInv' /\ QueueStep
<1>1. PICK w \in Workers, t \in Tasks, q \in Rows :
        w = u.worker /\ t = u.task /\ q = u.row
  BY TurnKnown
<1>w. \A v \in Workers : v = w
  BY DEF SingleAssumption
<1>t. /\ status \in [Tasks -> Statuses] /\ aged \in [Tasks -> BOOLEAN]
      /\ answer \in [Tasks -> [Rows -> RowStatuses]]
      /\ local \in [Workers -> Locals] /\ local[w] \in Locals /\ turns \in SUBSET Turns
  BY DEF TypeOK
<1>2. /\ status[t] = "processing" /\ InWork(t) /\ answer[t][q] = "processing"
      /\ ~(loop[w].at \in InTask /\ loop[w].task = t)
      /\ \A x \in turns : x.task = t => x = u
  BY <1>1, TurnKnown DEF TurnServes
<1>3. /\ status'[t] = "completed" /\ ~aged'[t]
      /\ \A x \in Tasks \ {t} : /\ status'[x] = status[x] /\ aged'[x] = aged[x]
                                /\ answer'[x] = answer[x]
      /\ answer'[t] = [answer[t] EXCEPT ![q] = "completed"]
      /\ turns' = turns \ {u} /\ UNCHANGED <<loop, beat>>
  BY <1>t, <1>1, <1>2 DEF FinalWrite, SetRow
<1>4. local'[w].inflight = local[w].inflight \ {t}
  BY <1>t, <1>1 DEF FinalWrite, Forget, ReleaseSlot, Locals
<1>5. ~aged[t]
  BY <1>2 DEF SingleInv
<1>6. \A v \in Workers : \A x \in local'[v].inflight : status'[x] = "processing"
  BY <1>w, <1>t, <1>3, <1>4 DEF SingleInv, Locals
<1>7. HandServes(w)'
  <2>1. loop[w].at \in InTask => loop[w].task \in Tasks \ {t}
    BY <1>2 DEF TypeOK, HoldsTask
  <2>2. QED  BY <2>1, <1>3, <1>4 DEF SingleInv, HandServes, Serving, InTask
<1>8. ReadIsStuck(w)'
  <2>1. \A x \in beat[w].read : x.task \in Tasks \ {t}
    BY <1>5 DEF SingleInv, ReadIsStuck, TypeOK, Beats, Stale
  <2>2. QED  BY <2>1, <1>3 DEF SingleInv, ReadIsStuck, Up
<1>9. \A x \in turns' : TurnServes(x)'
  BY <1>w, <1>t, <1>1, <1>2, <1>3, <1>4 DEF SingleInv, TurnServes, Up, Turns
<1>10. \A x \in Tasks : aged'[x] /\ status'[x] = "processing" => ~InWork(x)'
  BY <1>3 DEF SingleInv, InWork
<1>11. QueueStep
  <2> DEFINE p == [x \in Tasks |-> Phase(status[x])]
             n == [x \in Tasks |-> Cardinality(DoneRows(x))]
  <2>1. p[t] = "serving"
    BY <1>2, PhaseValues
  <2>2. p' = [p EXCEPT ![t] = "answered"]
    BY <1>t, <1>3, PhaseValues
  <2>3. DoneRows(t)' = DoneRows(t) \cup {q} /\ q \notin DoneRows(t)
    BY <1>t, <1>2, <1>3 DEF DoneRows
  <2>4. IsFiniteSet(DoneRows(t))
    <3>1. IsFiniteSet(Rows)
      BY ConstantsAssumption, FS_Interval, 1 \in Int DEF Rows
    <3>2. QED  BY <3>1, FS_Subset DEF DoneRows
  <2>5. Cardinality(DoneRows(t)') = Cardinality(DoneRows(t)) + 1
    BY <2>3, <2>4, FS_AddElement
  <2>6. \A x \in Tasks \ {t} : DoneRows(x)' = DoneRows(x)
    BY <1>3 DEF DoneRows
  <2>7. n' = [n EXCEPT ![t] = @ + 1]
    BY <2>5, <2>6
  <2>8. Queue!Answer(t)
    BY <2>1, <2>2, <2>7 DEF Queue!Answer, DoneRows
  <2>9. QED  BY <2>8 DEF QueueStep, Queue!Next
<1>12. QED  BY <1>w, <1>6, <1>7, <1>8, <1>9, <1>10, <1>11 DEF SingleInv

LEMMA SingleDrop ==
    ASSUME SingleInv, NEW u \in turns PROVE ~FinalDrop(u)
BY DEF SingleInv, TurnServes, FinalDrop

\* The unstick loop reads what is stuck ...
LEMMA SingleUnstickRead ==
    ASSUME SingleAssumption, TypeOK, SingleInv, NEW w \in Workers, UnstickRead(w)
    PROVE  SingleInv' /\ QueueStep
<1>w. \A v \in Workers : v = w
  BY DEF SingleAssumption
<1>t. beat \in [Workers -> Beats] /\ turns \in SUBSET Turns
  BY DEF TypeOK
<1>1. UNCHANGED <<status, aged, answer, loop, local, turns>> /\ Up(w)
  BY DEF UnstickRead, db
<1>2. \A x \in beat'[w].read : status[x.task] = "processing" /\ aged[x.task]
  BY <1>t DEF UnstickRead
<1>3. HandServes(w)' /\ ReadIsStuck(w)'
  BY <1>1, <1>2 DEF SingleInv, HandServes, ReadIsStuck, Up
<1>4. \A u \in turns : TurnServes(u)'
  BY <1>1 DEF SingleInv, TurnServes, Up
<1>5. \A t \in Tasks : aged[t] /\ status[t] = "processing" => ~InWork(t)'
  BY <1>1 DEF SingleInv, InWork
<1>6. QED  BY <1>w, <1>1, <1>3, <1>4, <1>5, SameTable DEF SingleInv

\* ... and still finds it stuck when it gives it back: no turn and no hand has it.
LEMMA SingleUnstickApply ==
    ASSUME SingleAssumption, TypeOK, SingleInv, NEW w \in Workers, UnstickApply(w)
    PROVE  SingleInv' /\ QueueStep
<1> DEFINE T == {x.task : x \in beat[w].read}
           Count(t) == Bumped(CHOOSE n \in 0..MaxStuckRetries :
                                [task |-> t, retry |-> n] \in beat[w].read)
           known == {t \in T : t \in local[w].ctx \cup local[w].inflight}
<1>w. \A v \in Workers : v = w
  BY DEF SingleAssumption
<1>t. /\ beat \in [Workers -> Beats] /\ beat[w].read \subseteq Stale /\ turns \in SUBSET Turns
      /\ local \in [Workers -> Locals] /\ local[w] \in Locals /\ loop[w] \in Loops
      /\ status \in [Tasks -> Statuses] /\ answer \in [Tasks -> [Rows -> RowStatuses]]
      /\ aged \in [Tasks -> BOOLEAN]
  BY DEF TypeOK, Beats
<1> HIDE DEF Count
<1>u. /\ status' = [t \in Tasks |-> IF t \in T THEN Recovered(Count(t)) ELSE status[t]]
      /\ aged' = [t \in Tasks |-> t \notin T /\ aged[t]]
      /\ \E old \in SUBSET (Orphans \ T) :
           answer' = [t \in Tasks |-> [r \in Rows |->
                        IF t \in T THEN RecoveredRow(Count(t), answer[t][r])
                        ELSE IF t \in old /\ answer[t][r] = "processing" THEN "failed"
                        ELSE answer[t][r]]]
  BY DEF UnstickApply, Count
<1>1. T \subseteq Tasks /\ \A t \in T : status[t] = "processing" /\ aged[t] /\ ~InWork(t)
  BY <1>t DEF SingleInv, ReadIsStuck, Stale
<1>2. /\ \A t \in T : status'[t] \in {"pending", "failed"} /\ ~aged'[t]
      /\ \A t \in Tasks \ T : status'[t] = status[t] /\ aged'[t] = aged[t]
      /\ UNCHANGED <<loop, turns>> /\ beat' = [beat EXCEPT ![w] = Asleep]
  <2>1. \A t \in T : status'[t] = Recovered(Count(t)) /\ ~aged'[t]
    BY <1>1, <1>u
  <2>2. \A t \in Tasks \ T : status'[t] = status[t] /\ aged'[t] = aged[t]
    BY <1>t, <1>u
  <2>3. UNCHANGED <<loop, turns>> /\ beat' = [beat EXCEPT ![w] = Asleep]
    BY DEF UnstickApply
  <2> HIDE DEF T
  <2>4. QED  BY <2>1, <2>2, <2>3 DEF Recovered
<1>3. local'[w].inflight = local[w].inflight \ T
  <2>1. local'[w].inflight = local[w].inflight \ known
    BY <1>t DEF UnstickApply, Locals
  <2>2. QED  BY <2>1
<1>4. \A t \in Tasks \ T, r \in Rows :
        status[t] = "processing" => answer'[t][r] = answer[t][r]
  BY <1>u DEF Orphans
<1>5. \A t \in Tasks : SameDone(t)
  <2>1. PICK old : answer' = [t \in Tasks |-> [r \in Rows |->
                     IF t \in T THEN RecoveredRow(Count(t), answer[t][r])
                     ELSE IF t \in old /\ answer[t][r] = "processing" THEN "failed"
                     ELSE answer[t][r]]]
    BY <1>u
  <2> HIDE DEF T
  <2>2. QED  BY <2>1 DEF RecoveredRow, SameDone
<1>6. \A t \in local'[w].inflight : status'[t] = "processing"
  BY <1>t, <1>2, <1>3 DEF SingleInv, Locals
<1>7. HandServes(w)'
  <2>1. loop[w].at \in InTask => loop[w].task \in Tasks \ T
    BY <1>1 DEF InWork, TypeOK, HoldsTask
  <2>2. QED
    BY <2>1, <1>2, <1>3, <1>4 DEF SingleInv, HandServes, Serving, InTask
<1>8. ReadIsStuck(w)'
  BY <1>t, <1>2 DEF ReadIsStuck, Asleep
<1>9. \A u \in turns : TurnServes(u)'
  <2> SUFFICES ASSUME NEW u \in turns PROVE TurnServes(u)'
    OBVIOUS
  <2>1. /\ u.worker = w /\ u.task \in Tasks \ T /\ u.row \in Rows
        /\ status[u.task] = "processing" /\ TurnServes(u)
    BY <1>w, <1>1, TurnKnown
  <2>2. QED  BY <2>1, <1>2, <1>3, <1>4 DEF TurnServes, Up
<1>10. \A t \in Tasks : aged'[t] /\ status'[t] = "processing" => ~InWork(t)'
  BY <1>2 DEF SingleInv, InWork
<1>11. QueueStep
  <2>1. T \in SUBSET Tasks
    BY <1>1
  <2> HIDE DEF T
  <2>2. QED  BY <2>1, <1>1, <1>2, <1>5, QueueInterrupts
<1>12. QED
  BY <1>w, <1>2, <1>6, <1>7, <1>8, <1>9, <1>10, <1>11 DEF SingleInv

\* The user asks.
LEMMA SingleSubmit ==
    ASSUME SingleAssumption, TypeOK, SingleInv, NEW t \in Tasks, Submit(t)
    PROVE  SingleInv' /\ QueueStep
<1>t. status \in [Tasks -> Statuses] /\ local \in [Workers -> Locals] /\ turns \in SUBSET Turns
  BY DEF TypeOK
<1>1. /\ status[t] = "new" /\ status' = [status EXCEPT ![t] = "pending"]
      /\ status'[t] = "pending" /\ \A x \in Tasks \ {t} : status'[x] = status[x]
      /\ UNCHANGED <<aged, answer, loop, local, beat, turns>>
  BY <1>t DEF Submit
<1>2. \A x \in Tasks : status[x] = "processing" => x \in Tasks \ {t}
  BY <1>1
<1>3. \A w \in Workers : \A x \in local[w].inflight : status'[x] = "processing"
  BY <1>t, <1>1, <1>2 DEF SingleInv, Locals
<1>4. \A w \in Workers : HandServes(w)' /\ ReadIsStuck(w)'
  <2> SUFFICES ASSUME NEW w \in Workers PROVE HandServes(w)' /\ ReadIsStuck(w)'
    OBVIOUS
  <2>1. HandServes(w) /\ ReadIsStuck(w)
    BY DEF SingleInv
  <2>2. \A x \in beat[w].read : x.task \in Tasks
    BY DEF TypeOK, Beats, Stale
  <2>3. loop[w].at \in Serving => loop[w].task \in Tasks
    BY DEF TypeOK, HoldsTask, Serving, InTask
  <2>4. HandServes(w)'
    BY <1>1, <1>2, <2>1, <2>3 DEF HandServes
  <2>5. ReadIsStuck(w)'
    BY <1>1, <1>2, <2>1, <2>2 DEF ReadIsStuck, Up
  <2>6. QED  BY <2>4, <2>5
<1>5. \A u \in turns : TurnServes(u)'
  BY <1>1 DEF SingleInv, TurnServes, Up
<1>6. \A x \in Tasks : aged'[x] /\ status'[x] = "processing" => ~InWork(x)'
  BY <1>1 DEF SingleInv, InWork
<1>7. QueueStep
  <2> DEFINE p == [x \in Tasks |-> Phase(status[x])]
  <2>1. p[t] = "absent"
    BY <1>1, PhaseValues
  <2>2. p' = [p EXCEPT ![t] = "waiting"]
    BY <1>t, <1>1, PhaseValues
  <2>3. Queue!Ask(t)
    BY <1>1, <2>1, <2>2, DoneUnchanged DEF Queue!Ask, DoneRows, SameDone
  <2>4. QED  BY <2>3 DEF QueueStep, Queue!Next
<1>8. QED  BY <1>1, <1>3, <1>4, <1>5, <1>6, <1>7 DEF SingleInv

\* Time does not make live work stuck.
LEMMA SingleClock ==
    ASSUME SingleAssumption, TypeOK, SingleInv, NEW t \in Tasks, Age(t) \/ ExpireLease(t)
    PROVE  SingleInv' /\ QueueStep
<1>1. UNCHANGED <<status, answer, loop, local, beat, turns>>
  BY DEF Age, ExpireLease
<1>2. /\ \A x \in Tasks : aged[x] => aged'[x]
      /\ \A x \in Tasks : aged'[x] /\ status[x] = "processing" => aged[x] \/ ~InWork(x)
  BY DEF Age, ExpireLease, SingleAssumption, TypeOK
<1>3. \A w \in Workers : HandServes(w)'
  BY <1>1 DEF SingleInv, HandServes
<1>4. \A w \in Workers : ReadIsStuck(w)'
  BY <1>1, <1>2 DEF SingleInv, ReadIsStuck, Up, TypeOK, Beats, Stale
<1>5. \A u \in turns : TurnServes(u)'
  BY <1>1 DEF SingleInv, TurnServes, Up
<1>6. \A x \in Tasks : aged'[x] /\ status'[x] = "processing" => ~InWork(x)'
  BY <1>1, <1>2 DEF SingleInv, InWork
<1>7. QED  BY <1>1, <1>3, <1>4, <1>5, <1>6, SameTable DEF SingleInv

\* The process dies, stops or comes back: no turn is left.
LEMMA SingleHalt ==
    ASSUME SingleAssumption, TypeOK, SingleInv, NEW w \in Workers,
           Crash(w) \/ Stop(w) \/ Restart(w)
    PROVE  SingleInv' /\ QueueStep
<1>w. \A v \in Workers : v = w
  BY DEF SingleAssumption
<1>t. /\ loop \in [Workers -> Loops] /\ local \in [Workers -> Locals]
      /\ beat \in [Workers -> Beats] /\ turns \in SUBSET Turns
  BY DEF TypeOK
<1>1. UNCHANGED <<status, aged, answer>>
  BY DEF Crash, Stop, Restart, Halt, db
<1>2. /\ loop'[w].at \in {"off", "stopping", "priority"} /\ beat'[w].read = {}
      /\ \/ local'[w] = FreshLocal
         \/ local'[w] = local[w]
  BY <1>t
  DEF Crash, Stop, Restart, Halt, AtTop, Asleep, SingleInv, ReadIsStuck, Up, Running, Idle,
      InTask
<1>3. turns' = {}
  <2>1. CASE Crash(w) \/ Stop(w)
    BY <2>1, <1>w, <1>t DEF Crash, Stop, Halt, Turns
  <2>2. CASE Restart(w)
    BY <2>2, <1>w, <1>t
    DEF Restart, SingleInv, TurnServes, Turns, Up, Running, Idle, InTask
  <2>3. QED  BY <2>1, <2>2
<1>4. \A v \in Workers : \A t \in local'[v].inflight : status'[t] = "processing"
  BY <1>w, <1>1, <1>2 DEF SingleInv, FreshLocal
<1>5. \A v \in Workers : HandServes(v)' /\ ReadIsStuck(v)'
  BY <1>w, <1>2 DEF HandServes, ReadIsStuck, Serving, InTask
<1>6. \A t \in Tasks : ~InWork(t)'
  BY <1>w, <1>2, <1>3 DEF InWork, InTask
<1>7. QED  BY <1>1, <1>3, <1>4, <1>5, <1>6, SameTable DEF SingleInv

\* The stopped process gives its messages back.
LEMMA SingleRelease ==
    ASSUME SingleAssumption, TypeOK, SingleInv, NEW w \in Workers, ReleaseAllLeases(w)
    PROVE  SingleInv' /\ QueueStep
<1> DEFINE back == {t \in local[w].lease : status[t] = "processing"}
<1>w. \A v \in Workers : v = w
  BY DEF SingleAssumption
<1>t. /\ loop \in [Workers -> Loops] /\ local \in [Workers -> Locals]
      /\ turns \in SUBSET Turns /\ status \in [Tasks -> Statuses]
      /\ back \in SUBSET Tasks
  BY DEF TypeOK, Locals
<1>1. /\ loop[w].at = "stopping" /\ loop'[w].at = "off" /\ local'[w] = FreshLocal
      /\ UNCHANGED <<beat, turns>>
  BY <1>t DEF ReleaseAllLeases, AtTop
<1>2. turns = {} /\ beat[w].read = {}
  BY <1>w, <1>t, <1>1
  DEF SingleInv, TurnServes, ReadIsStuck, Turns, Up, Running, Idle, InTask
<1>3. \A v \in Workers : \A t \in local'[v].inflight : status'[t] = "processing"
  BY <1>w, <1>1 DEF FreshLocal
<1>4. \A v \in Workers : HandServes(v)' /\ ReadIsStuck(v)'
  BY <1>w, <1>1, <1>2 DEF HandServes, ReadIsStuck, Serving, InTask
<1>5. \A t \in Tasks : ~InWork(t)'
  BY <1>w, <1>1, <1>2 DEF InWork, InTask
<1>6. QueueStep
  <2>1. /\ \A t \in back : status[t] = "processing" /\ status'[t] = "pending"
        /\ \A t \in Tasks \ back : status'[t] = status[t]
    BY <1>t DEF ReleaseAllLeases
  <2>2. \A t \in Tasks : SameDone(t)
    BY DEF ReleaseAllLeases, SameDone
  <2> HIDE DEF back
  <2>3. QED  BY <1>t, <2>1, <2>2, QueueInterrupts
<1>7. QED  BY <1>1, <1>2, <1>3, <1>4, <1>5, <1>6 DEF SingleInv

LEMMA SingleStep ==
    ASSUME SingleAssumption, TypeOK, SingleInv, SlotInv, [Next]_vars
    PROVE  SingleInv' /\ QueueStep
<1>p. ~Pool /\ Cancellable = {} /\ Commands = {}
  BY DEF SingleAssumption
<1>1. ASSUME NEW w \in Workers, Poll(w) \/ PollError(w)
      PROVE  SingleInv' /\ QueueStep
  <2>1. loop[w].at \notin {"insert", "deliver", "settle"}
    BY <1>p DEF SingleInv, HandServes, SlotInv, ChatInv
  <2>2. ~Select(w) /\ ~Insert(w) /\ ~ClaimLost(w) /\ ~Deliver(w) /\ ~Settle(w)
    BY <1>p, <2>1 DEF Select, Insert, ClaimLost, Deliver, Settle
  <2>3. QED
    BY <1>1, <2>2, SinglePoll, SingleClaim, SinglePlace, SingleSlot, SingleDefer,
       SingleMarkDispatch
    DEF Poll, Claim
<1>2. ASSUME NEW w \in Workers, Upkeep(w) PROVE SingleInv' /\ QueueStep
  BY <1>2, <1>p, SingleUnstickRead, SingleUnstickApply DEF Upkeep, Heartbeat, Reclaim
<1>3. ASSUME NEW w \in Workers,
             Crash(w) \/ Stop(w) \/ ReleaseAllLeases(w) \/ Restart(w)
      PROVE  SingleInv' /\ QueueStep
  BY <1>3, SingleHalt, SingleRelease
<1>4. ASSUME NEW u \in turns,
             Finish(u) \/ FinalWriteFails(u) \/ FinalError(u) \/ FinalUnresolved(u)
      PROVE  SingleInv' /\ QueueStep
  BY <1>4, SingleDrop, SingleTurn, SingleWrite, SingleFinalMark DEF Finish
<1>5. ASSUME NEW t \in Tasks, Submit(t) \/ Cancel(t) \/ Age(t) \/ ExpireLease(t)
      PROVE  SingleInv' /\ QueueStep
  BY <1>5, <1>p, SingleSubmit, SingleClock DEF Cancel
<1>6. CASE UNCHANGED vars
  <2>1. UNCHANGED <<status, aged, answer, loop, local, beat, turns>>
    BY <1>6 DEF vars
  <2>2. \A w \in Workers : HandServes(w)' /\ ReadIsStuck(w)'
    BY <2>1 DEF SingleInv, HandServes, ReadIsStuck, Up
  <2>3. \A u \in turns : TurnServes(u)'
    BY <2>1 DEF SingleInv, TurnServes, Up
  <2>4. \A t \in Tasks : aged[t] /\ status[t] = "processing" => ~InWork(t)'
    BY <2>1 DEF SingleInv, InWork
  <2>5. QED  BY <2>1, <2>2, <2>3, <2>4, SameTable DEF SingleInv
<1>7. QED  BY <1>1, <1>2, <1>3, <1>4, <1>5, <1>6 DEF Next, Environment

LEMMA QueueInit == Init => Queue!Init
<1> SUFFICES ASSUME Init PROVE Queue!Init
  OBVIOUS
<1>1. \A t \in Tasks : Phase(status[t]) = "absent"
  BY PhaseValues DEF Init
<1>2. \A t \in Tasks : Cardinality({r \in Rows : answer[t][r] = "completed"}) = 0
  <2> SUFFICES ASSUME NEW t \in Tasks
               PROVE  Cardinality({r \in Rows : answer[t][r] = "completed"}) = 0
    OBVIOUS
  <2>1. {r \in Rows : answer[t][r] = "completed"} = {}
    BY DEF Init
  <2>2. QED  BY <2>1, FS_EmptySet
<1>3. QED  BY <1>1, <1>2 DEF Queue!Init

LEMMA SingleAlways ==
    ASSUME SingleAssumption
    PROVE  Spec => [](TypeOK /\ SingleInv /\ SlotInv)
<1>1. SlotAssumption
  BY DEF SingleAssumption, SlotAssumption
<1>2. Init => SingleInv /\ SlotInv
  BY <1>1, SingleInit, SlotInvInit
<1>3. TypeOK /\ SingleInv /\ SlotInv /\ [Next]_vars => (SingleInv /\ SlotInv)'
  BY <1>1, SingleStep, SlotInvStep
<1>4. QED  BY <1>2, <1>3, TypeCorrect, PTL DEF Spec

\* One process in single mode implements the queue its users see: a message of a chat
\* is served at a time, its answer appears together with "completed" and only once, and
\* what is finished never comes back, over every error of the database, over failed
\* dispatches and finals, over crashes, stops and restarts and through the unstick
\* loop, for any number of messages, chats and slots.
THEOREM QueueIsImplemented ==
    ASSUME SingleAssumption
    PROVE  Spec => QueueSpec
<1>1. Init => Queue!Init
  BY QueueInit
<1>2. TypeOK /\ SingleInv /\ SlotInv /\ [Next]_vars => QueueStep
  BY SingleStep
<1>3. QED
  BY <1>1, <1>2, SingleAlways, PTL DEF Spec, QueueSpec, Queue!Spec, QueueStep

\* A step of the queue never takes up what is finished.
LEMMA QueueKeepsFailed ==
    ASSUME TypeOK, TypeOK', QueueStep, NEW t \in Tasks, status[t] = "failed"
    PROVE  status'[t] = "failed"
<1> DEFINE p == [x \in Tasks |-> Phase(status[x])]
<1>1. p[t] = "abandoned"
  BY PhaseValues
<1>2. p'[t] = "abandoned"
  <2>1. CASE \E x \in Tasks : Queue!Ask(x) \/ Queue!Withdraw(x) \/ Queue!Serve(x)
                              \/ Queue!Answer(x)
    <3>1. PICK x \in Tasks : Queue!Ask(x) \/ Queue!Withdraw(x) \/ Queue!Serve(x)
                             \/ Queue!Answer(x)
      BY <2>1
    <3>2. x # t /\ \E s : p' = [p EXCEPT ![x] = s]
      BY <1>1, <3>1 DEF Queue!Ask, Queue!Withdraw, Queue!Serve, Queue!Answer
    <3> HIDE DEF p
    <3>3. QED  BY <1>1, <3>2
  <2>2. CASE \E back, lost \in SUBSET Queue!Serving : Queue!Interrupt(back, lost)
    <3>1. PICK back \in SUBSET Queue!Serving, lost \in SUBSET Queue!Serving :
            Queue!Interrupt(back, lost)
      BY <2>2
    <3>2. t \notin back /\ t \notin lost
      BY <1>1 DEF Queue!Serving
    <3>3. QED  BY <1>1, <3>1, <3>2 DEF Queue!Interrupt
  <2>3. CASE UNCHANGED Queue!vars
    BY <1>1, <2>3 DEF Queue!vars
  <2>4. QED  BY <2>1, <2>2, <2>3 DEF QueueStep, Queue!Next
<1>3. Phase(status'[t]) = "abandoned"
  BY <1>2
<1>4. status'[t] \in Statuses
  BY DEF TypeOK
<1>5. QED  BY <1>3, <1>4 DEF Phase, Statuses

\* failed is terminal: no poll, unstick, release or late final takes the message up.
THEOREM FailedStaysFailed ==
    ASSUME SingleAssumption
    PROVE  Spec => FailedIsFinal
<1>1. TypeOK /\ TypeOK' /\ SingleInv /\ SlotInv /\ [Next]_vars
        => [\A t \in Tasks : status[t] = "failed" => status'[t] = "failed"]_vars
  BY SingleStep, QueueKeepsFailed
<1>2. QED  BY <1>1, SingleAlways, PTL DEF Spec, FailedIsFinal

=============================================================================
