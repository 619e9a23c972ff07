--------------------------- MODULE ServicesProofs ---------------------------
(***************************************************************************)
(* Theorems about the services that a gateway runs beside its channels:    *)
(* the cold synchronisation of sessions, the log, the start and the stop   *)
(* of all of them, and the runs of the summarizer.                         *)
(*                                                                         *)
(* Sessions: for every number of sessions, saves, failing calls, stops and *)
(* deaths; what concerns the tables holds when one gateway writes them.    *)
(* Log: for any number of questions, events and failures and any size of   *)
(* the queue and of the batches.  Start and stop: for any number of turns  *)
(* of run_forever and of failures.  Summarizer: for any number of          *)
(* operations, chunks, edits, deaths and failing calls.                    *)
(***************************************************************************)
EXTENDS SessionSync, DbLog, Lifecycle, Summarizer, SequenceTheorems, TLAPS

-----------------------------------------------------------------------------
(***************************************************************************)
(* Cold synchronisation of sessions.                                       *)
(***************************************************************************)

-----------------------------------------------------------------------------
\* Types.

\* A number of saves is a time, and times are compared as numbers.
LEMMA TimesAreNumbers ==
    /\ Times \subseteq Int /\ 0 \in Times
    /\ \A s \in Times : s < MaxSaves => s + 1 \in Times
    /\ \A s \in Times : s >= 0
BY ConstantsAssumption DEF Times

\* Being idle is a cycle.
LEMMA NoCycleType == NoCycle \in Cycles
BY TimesAreNumbers DEF NoCycle, Cycles, Places

\* What TypeOK says of the cycles.
CycleOK(c) ==
    /\ c \in Cycles
    /\ c.at \in {"read", "meta", "messages"} => c.key \in Keys /\ c.snapshot # 0
    /\ c.gone # {} => c.at = "delete"
    /\ c.gone \cap c.listed = {}
Modes == {"on", "stopping", "final", "off"}

\* Well typed means that every cycle is well formed.
LEMMA CyclesOK == TypeOK => \A g \in Gateways : CycleOK(cycle[g])
BY DEF TypeOK, CycleOK

\* A step that changes one cycle to another well formed one.
LEMMA CycleStep ==
    ASSUME TypeOK, NEW g \in Gateways, NEW c, CycleOK(c),
           cycle' = [cycle EXCEPT ![g] = c],
           disk' \in [Gateways -> [Keys -> Times]],
           meta' \in [Keys -> Times], messages' \in [Keys -> Times],
           mode' \in [Gateways -> Modes],
           saves' \in Times, faults' \in 0..MaxFaults, stops' \in 0..MaxStops
    PROVE  TypeOK'
<1>1. cycle' \in [Gateways -> Cycles]
  BY DEF TypeOK, CycleOK
<1>2. \A h \in Gateways : CycleOK(cycle'[h])
  BY CyclesOK DEF TypeOK
<1>3. QED  BY <1>1, <1>2 DEF TypeOK, CycleOK, Modes

\* No cycle, as it is at the end of one.
LEMMA NoCycleOK == CycleOK(NoCycle)
BY NoCycleType DEF CycleOK, NoCycle

\* The end of a cycle leaves the process on, stopping or off.
LEMMA EndCycleMode ==
    ASSUME TypeOK, NEW g \in Gateways, EndCycle(g)
    PROVE  mode' \in [Gateways -> Modes]
BY DEF TypeOK, EndCycle, Modes

\* A step of a cycle keeps the types.
LEMMA SyncType ==
    ASSUME TypeOK, NEW g \in Gateways, Sync(g)
    PROVE  TypeOK'
<1> DEFINE c == cycle[g]
<1> USE TimesAreNumbers DEF tables, bounds
<1>0. /\ CycleOK(c) /\ c \in Cycles /\ mode \in [Gateways -> Modes]
      /\ disk \in [Gateways -> [Keys -> Times]]
      /\ meta \in [Keys -> Times] /\ messages \in [Keys -> Times]
      /\ saves \in Times /\ faults \in 0..MaxFaults /\ stops \in 0..MaxStops
  BY DEF TypeOK, CycleOK, Modes
<1>1. CASE TryLock(g)
  <2>1. mode' \in [Gateways -> Modes]
    BY <1>0, <1>1 DEF TryLock, Begin, Modes
  <2>2. CASE cycle' = [cycle EXCEPT ![g] = [c EXCEPT !.at = "locked"]]
    <3>1. CycleOK([c EXCEPT !.at = "locked"])
      BY <1>0, <1>1 DEF CycleOK, Cycles, Places, TryLock, Due
    <3>2. QED  BY <1>0, <1>1, <2>1, <2>2, <3>1, CycleStep DEF TryLock
  <2>3. CASE UNCHANGED cycle
    BY <1>0, <1>1, <2>1, <2>3 DEF TryLock, TypeOK, Modes
  <2>4. QED  BY <1>1, <2>2, <2>3 DEF TryLock
<1>2. CASE Unlock(g)
  <2>1. CycleOK([c EXCEPT !.at = "list"])
    BY <1>0, <1>2 DEF CycleOK, Cycles, Places, Unlock
  <2>2. QED  BY <1>0, <1>2, <2>1, CycleStep DEF Unlock
<1>3. CASE List(g)
  <2> DEFINE found == {k \in Keys : disk[g][k] # 0}
  <2>1. CycleOK([c EXCEPT !.at = "next", !.todo = found, !.listed = found])
    BY <1>0, <1>3 DEF CycleOK, Cycles, Places, List
  <2>2. QED  BY <1>0, <1>3, <2>1, CycleStep DEF List
<1>4. CASE Halted(g)
  BY <1>0, <1>4, EndCycleMode, NoCycleOK, CycleStep DEF Halted, EndCycle
<1>5. CASE Take(g)
  <2>1. PICK k \in c.todo :
          IF disk[g][k] = 0 THEN cycle' = [cycle EXCEPT ![g].todo = @ \ {k}]
          ELSE cycle' = [cycle EXCEPT ![g].at = "read", ![g].todo = @ \ {k},
                                      ![g].key = k, ![g].snapshot = disk[g][k]]
    BY <1>5 DEF Take
  <2>2. k \in Keys /\ disk[g][k] \in Times
    BY <1>0 DEF Cycles
  <2>3. CASE disk[g][k] = 0
    <3>1. CycleOK([c EXCEPT !.todo = c.todo \ {k}])
      BY <1>0 DEF CycleOK, Cycles
    <3>2. QED  BY <1>0, <1>5, <2>1, <2>3, <3>1, CycleStep DEF Take
  <2>4. CASE disk[g][k] # 0
    <3> DEFINE d == [c EXCEPT !.at = "read", !.todo = c.todo \ {k}, !.key = k,
                              !.snapshot = disk[g][k]]
    <3>1. CycleOK(d)
      BY <1>0, <1>5, <2>2, <2>4 DEF CycleOK, Cycles, Places, Take
    <3>2. cycle' = [cycle EXCEPT ![g] = d]
      BY <1>0, <2>1, <2>4 DEF TypeOK, Cycles
    <3>3. /\ disk' = disk /\ meta' = meta /\ messages' = messages
          /\ mode' = mode /\ saves' = saves /\ faults' = faults /\ stops' = stops
      BY <1>5 DEF Take
    <3> HIDE DEF d
    <3>4. QED  BY <1>0, <3>1, <3>2, <3>3, CycleStep
  <2>5. QED  BY <2>3, <2>4
<1>6. CASE ReadRow(g)
  <2>1. CASE EndCycle(g)
    BY <1>0, <1>6, <2>1, EndCycleMode, NoCycleOK, CycleStep DEF ReadRow, EndCycle
  <2>2. CASE cycle' = [cycle EXCEPT ![g].at = "meta"] /\ UNCHANGED mode
    <3>1. CycleOK([c EXCEPT !.at = "meta"])
      BY <1>0, <1>6 DEF CycleOK, Cycles, Places, ReadRow
    <3>2. QED  BY <1>0, <1>6, <2>2, <3>1, CycleStep DEF ReadRow
  <2>3. QED  BY <1>6, <2>1, <2>2 DEF ReadRow
<1>7. CASE UpsertMeta(g)
  <2>1. CycleOK([c EXCEPT !.at = "messages"])
    BY <1>0, <1>7 DEF CycleOK, Cycles, Places, UpsertMeta
  <2>2. meta' \in [Keys -> Times]
    BY <1>0, <1>7 DEF UpsertMeta, Cycles
  <2>3. QED  BY <1>0, <1>7, <2>1, <2>2, CycleStep DEF UpsertMeta
<1>8. CASE ReplaceMessages(g)
  <2>1. CycleOK([c EXCEPT !.at = "next"])
    BY <1>0, <1>8 DEF CycleOK, Cycles, Places, ReplaceMessages
  <2>2. messages' \in [Keys -> Times]
    BY <1>0, <1>8 DEF ReplaceMessages, Cycles
  <2>3. QED  BY <1>0, <1>8, <2>1, <2>2, CycleStep DEF ReplaceMessages
<1>9. CASE Listed(g)
  <2>1. CycleOK([c EXCEPT !.at = "cleanup"])
    BY <1>0, <1>9 DEF CycleOK, Cycles, Places, Listed
  <2>2. QED  BY <1>0, <1>9, <2>1, CycleStep DEF Listed
<1>10. CASE CleanupSelect(g)
  <2> DEFINE gone == {k \in Keys : meta[k] # 0} \ c.listed
  <2>1. CASE EndCycle(g)
    BY <1>0, <1>10, <2>1, EndCycleMode, NoCycleOK, CycleStep
    DEF CleanupSelect, EndCycle
  <2>2. CASE cycle' = [cycle EXCEPT ![g].at = "delete", ![g].gone = gone]
             /\ UNCHANGED mode
    <3>1. CycleOK([c EXCEPT !.at = "delete", !.gone = gone])
      BY <1>0 DEF CycleOK, Cycles, Places
    <3>2. QED  BY <1>0, <1>10, <2>2, <3>1, CycleStep DEF CleanupSelect
  <2>3. QED  BY <1>10, <2>1, <2>2 DEF CleanupSelect
<1>11. CASE CleanupDelete(g)
  <2>1. meta' \in [Keys -> Times] /\ messages' \in [Keys -> Times]
    BY <1>0, <1>11 DEF CleanupDelete
  <2>2. QED  BY <1>0, <1>11, <2>1, EndCycleMode, NoCycleOK, CycleStep
             DEF CleanupDelete, EndCycle
<1>12. QED
  BY <1>1, <1>2, <1>3, <1>4, <1>5, <1>6, <1>7, <1>8, <1>9, <1>10, <1>11 DEF Sync

\* The variables stay well formed; a cycle that writes has a session in hand,
\* and its cleanup holds no key of its listing.
THEOREM SyncTypeCorrect == Spec => []TypeOK
<1>1. Init => TypeOK
  BY TimesAreNumbers, NoCycleType, ConstantsAssumption
  DEF Init, TypeOK, NoCycle
<1>2. TypeOK /\ [Next]_vars => TypeOK'
  <2> SUFFICES ASSUME TypeOK, [Next]_vars PROVE TypeOK'
    OBVIOUS
  <2> USE TimesAreNumbers DEF tables, bounds
  <2>1. CASE UNCHANGED vars
    BY <2>1 DEF TypeOK, vars
  <2>2. ASSUME NEW g \in Gateways, Sync(g) PROVE TypeOK'
    BY <2>2, SyncType
  <2>3. ASSUME NEW g \in Gateways, Unreadable(g) PROVE TypeOK'
    <3>1. PICK k \in cycle[g].todo : cycle' = [cycle EXCEPT ![g].todo = @ \ {k}]
      BY <2>3 DEF Unreadable
    <3>2. CycleOK([cycle[g] EXCEPT !.todo = cycle[g].todo \ {k}])
      BY CyclesOK DEF CycleOK, Cycles
    <3>3. faults' \in 0..MaxFaults
      BY <2>3, ConstantsAssumption DEF TypeOK, Unreadable
    <3>4. QED  BY <2>3, <3>1, <3>2, <3>3, CycleStep DEF TypeOK, Unreadable, Modes
  <2>4. ASSUME NEW g \in Gateways, CycleRaises(g) PROVE TypeOK'
    <3>1. faults' \in 0..MaxFaults
      BY <2>4, ConstantsAssumption DEF TypeOK, CycleRaises
    <3>2. QED  BY <2>4, <3>1, EndCycleMode, NoCycleOK, CycleStep
               DEF TypeOK, CycleRaises, EndCycle
  <2>5. ASSUME NEW g \in Gateways, Stop(g) PROVE TypeOK'
    BY <2>5, ConstantsAssumption DEF TypeOK, Stop
  <2>6. ASSUME NEW g \in Gateways, Crash(g) PROVE TypeOK'
    <3>1. mode' \in [Gateways -> Modes] /\ stops' \in 0..MaxStops
      BY <2>6, ConstantsAssumption DEF TypeOK, Crash, Modes
    <3>2. QED  BY <2>6, <3>1, NoCycleOK, CycleStep DEF TypeOK, Crash
  <2>7. ASSUME NEW g \in Gateways, Start(g) PROVE TypeOK'
    BY <2>7 DEF TypeOK, Start
  <2>8. ASSUME NEW g \in Gateways, NEW k \in Keys, Save(g, k) PROVE TypeOK'
    BY <2>8 DEF TypeOK, Save
  <2>9. ASSUME NEW g \in Gateways, NEW k \in Keys, DeleteSession(g, k)
        PROVE  TypeOK'
    BY <2>9 DEF TypeOK, DeleteSession
  <2>10. QED
    BY <2>1, <2>2, <2>3, <2>4, <2>5, <2>6, <2>7, <2>8, <2>9 DEF Next
<1>3. QED  BY <1>1, <1>2, PTL DEF Spec

-----------------------------------------------------------------------------
\* One gateway.

\* Times in the tables and on the disk are numbers of saves that were made.
Past ==
    /\ \A k \in Keys : meta[k] <= saves
    /\ \A g \in Gateways :
         /\ cycle[g].snapshot <= saves
         /\ \A k \in Keys : disk[g][k] <= saves

\* Between its two transactions a session has the row of its snapshot, and
\* before them none.
InHand(g) ==
    /\ cycle[g].at = "meta" => meta[cycle[g].key] = 0
    /\ cycle[g].at = "messages" => meta[cycle[g].key] = cycle[g].snapshot

\* A session that the cycle has not listed was deleted, or is a later one than
\* any row knows.
Behind(g) ==
    cycle[g].at \notin {"idle", "locked", "list"} =>
      /\ cycle[g].todo \subseteq cycle[g].listed
      /\ cycle[g].at \in {"read", "meta", "messages"} =>
           cycle[g].key \in cycle[g].listed
      /\ \A k \in Keys \ cycle[g].listed :
           disk[g][k] = 0 \/ meta[k] < disk[g][k]

SyncInv ==
    RowsAgree /\ Past /\ \A g \in Gateways : InHand(g) /\ Behind(g)

\* The end of a cycle.
LEMMA NoCycleSafe ==
    /\ NoCycle.at = "idle" /\ NoCycle.snapshot = 0
    /\ \A g \in Gateways : TypeOK /\ EndCycle(g) => cycle'[g] = NoCycle
BY DEF NoCycle, TypeOK, EndCycle

\* A step of the cycle of the only gateway.
LEMMA SyncSafe ==
    ASSUME TypeOK, SyncInv, NEW g \in Gateways, Gateways = {g}, Sync(g)
    PROVE  SyncInv'
<1> USE TimesAreNumbers DEF tables, bounds
<1>0. /\ cycle[g] \in Cycles /\ CycleOK(cycle[g])
      /\ cycle \in [Gateways -> Cycles]
      /\ disk \in [Gateways -> [Keys -> Times]]
      /\ meta \in [Keys -> Times] /\ messages \in [Keys -> Times]
      /\ saves \in Times
      /\ \A h \in Gateways : h = g
  BY DEF TypeOK, CycleOK
<1>1. CASE TryLock(g)
  BY <1>0, <1>1, NoCycleSafe DEF SyncInv, RowsAgree, Past, InHand, Behind, TryLock, Due, Cycles
<1>2. CASE Unlock(g)
  BY <1>0, <1>2, NoCycleSafe DEF SyncInv, RowsAgree, Past, InHand, Behind, Unlock, Cycles
<1>3. CASE List(g)
  BY <1>0, <1>3, NoCycleSafe DEF SyncInv, RowsAgree, Past, InHand, Behind, List, Cycles
<1>4. CASE Halted(g)
  BY <1>0, <1>4, NoCycleSafe DEF SyncInv, RowsAgree, Past, InHand, Behind, Halted, Cycles
<1>5. CASE Take(g)
  BY <1>0, <1>5, NoCycleSafe DEF SyncInv, RowsAgree, Past, InHand, Behind, Take, Cycles
<1>6. CASE ReadRow(g)
  BY <1>0, <1>6, NoCycleSafe DEF SyncInv, RowsAgree, Past, InHand, Behind, ReadRow, Cycles
<1>7. CASE UpsertMeta(g)
  BY <1>0, <1>7, NoCycleSafe DEF SyncInv, RowsAgree, Past, InHand, Behind, UpsertMeta, Cycles
<1>8. CASE ReplaceMessages(g)
  BY <1>0, <1>8, NoCycleSafe DEF SyncInv, RowsAgree, Past, InHand, Behind, ReplaceMessages, Cycles
<1>9. CASE Listed(g)
  BY <1>0, <1>9, NoCycleSafe DEF SyncInv, RowsAgree, Past, InHand, Behind, Listed, Cycles
<1>10. CASE CleanupSelect(g)
  BY <1>0, <1>10, NoCycleSafe DEF SyncInv, RowsAgree, Past, InHand, Behind, CleanupSelect, Cycles
<1>11. CASE CleanupDelete(g)
  BY <1>0, <1>11, NoCycleSafe DEF SyncInv, RowsAgree, Past, InHand, Behind, CleanupDelete, Cycles
<1>12. QED
  BY <1>1, <1>2, <1>3, <1>4, <1>5, <1>6, <1>7, <1>8, <1>9, <1>10, <1>11 DEF Sync

\* Only the cleanup removes rows, and never a row as new as the file.
LEMMA RowKept ==
    ASSUME TypeOK, SyncInv, NEW g \in Gateways, Gateways = {g}, [Next]_vars,
           NEW k \in Keys, meta[k] # 0, meta'[k] = 0
    PROVE  \A h \in Gateways : disk[h][k] # meta[k]
<1> USE TimesAreNumbers DEF tables, bounds
<1>0. \A h \in Gateways : h = g
  OBVIOUS
<1>1. /\ meta \in [Keys -> Times] /\ disk \in [Gateways -> [Keys -> Times]]
      /\ CycleOK(cycle[g]) /\ cycle[g].key \in Keys \cup {0}
      /\ cycle[g].snapshot \in Times
  BY DEF TypeOK, CycleOK, Cycles
<1>2. meta' # meta
  OBVIOUS
<1>3. CASE UpsertMeta(g)
  BY <1>1, <1>3 DEF UpsertMeta
<1>4. CASE CleanupDelete(g)
  <2>1. k \in cycle[g].gone
    BY <1>1, <1>4 DEF CleanupDelete
  <2>2. k \in Keys \ cycle[g].listed
    BY <1>1, <2>1 DEF CycleOK
  <2>3. disk[g][k] = 0 \/ meta[k] < disk[g][k]
    BY <1>4, <2>2 DEF CleanupDelete, SyncInv, Behind
  <2>4. meta[k] \in Int /\ disk[g][k] \in Int
    BY <1>1
  <2>5. disk[g][k] # meta[k]
    BY <2>3, <2>4
  <2>6. QED  BY <1>0, <2>5
<1>5. UpsertMeta(g) \/ CleanupDelete(g)
  BY <1>0, <1>2 DEF Next, vars, Sync, TryLock, Unlock, List, Halted, Take,
     ReadRow, ReplaceMessages, Listed, CleanupSelect, Unreadable, CycleRaises,
     Stop, Crash, Start, Save, DeleteSession
<1>6. QED  BY <1>3, <1>4, <1>5

\* SyncInv is an invariant when one gateway writes the tables.
THEOREM SyncInvariant ==
    ASSUME NEW CONSTANT g \in Gateways, Gateways = {g}
    PROVE  Spec => []SyncInv
<1> USE TimesAreNumbers DEF tables, bounds
<1>1. Init => SyncInv
  BY DEF Init, SyncInv, RowsAgree, Past, InHand, Behind, NoCycle
<1>2. TypeOK /\ SyncInv /\ [Next]_vars => SyncInv'
  <2> SUFFICES ASSUME TypeOK, SyncInv, [Next]_vars PROVE SyncInv'
    OBVIOUS
  <2>0. /\ cycle[g] \in Cycles /\ CycleOK(cycle[g])
        /\ cycle \in [Gateways -> Cycles]
        /\ disk \in [Gateways -> [Keys -> Times]]
        /\ meta \in [Keys -> Times] /\ saves \in Times
        /\ \A h \in Gateways : h = g
    BY DEF TypeOK, CycleOK
  <2>1. CASE UNCHANGED vars
    BY <2>1 DEF SyncInv, RowsAgree, Past, InHand, Behind, vars
  <2>2. CASE Sync(g)
    BY <2>2, SyncSafe
  <2>3. CASE Unreadable(g)
    BY <2>0, <2>3
    DEF SyncInv, RowsAgree, Past, InHand, Behind, Unreadable, Cycles
  <2>4. CASE CycleRaises(g)
    BY <2>0, <2>4, NoCycleSafe
    DEF SyncInv, RowsAgree, Past, InHand, Behind, CycleRaises
  <2>5. CASE Stop(g)
    BY <2>0, <2>5 DEF SyncInv, RowsAgree, Past, InHand, Behind, Stop
  <2>6. CASE Crash(g)
    BY <2>0, <2>6, NoCycleSafe
    DEF SyncInv, RowsAgree, Past, InHand, Behind, Crash
  <2>7. CASE Start(g)
    BY <2>0, <2>7 DEF SyncInv, RowsAgree, Past, InHand, Behind, Start
  <2>8. ASSUME NEW k \in Keys, Save(g, k) PROVE SyncInv'
    <3>1. /\ saves' = saves + 1 /\ saves \in Int
          /\ meta' = meta /\ messages' = messages /\ cycle' = cycle
          /\ disk' = [disk EXCEPT ![g][k] = saves + 1]
          /\ \A j \in Keys : meta[j] \in Int /\ disk[g][j] \in Int
          /\ cycle[g].snapshot \in Int
      BY <2>0, <2>8 DEF Save, Cycles
    <3>2. /\ disk'[g][k] = saves + 1
          /\ \A j \in Keys : j # k => disk'[g][j] = disk[g][j]
      BY <2>0, <3>1
    <3>3. Past'
      BY <2>0, <3>1, <3>2 DEF SyncInv, Past
    <3>4. InHand(g)' /\ RowsAgree'
      BY <2>0, <3>1 DEF SyncInv, InHand, RowsAgree
    <3>5. Behind(g)'
      BY <2>0, <3>1, <3>2 DEF SyncInv, Past, Behind
    <3>6. QED  BY <2>0, <3>3, <3>4, <3>5 DEF SyncInv
  <2>9. ASSUME NEW k \in Keys, DeleteSession(g, k) PROVE SyncInv'
    BY <2>0, <2>9
    DEF SyncInv, RowsAgree, Past, InHand, Behind, DeleteSession
  <2>10. QED
    BY <2>0, <2>1, <2>2, <2>3, <2>4, <2>5, <2>6, <2>7, <2>8, <2>9 DEF Next
<1>3. QED  BY <1>1, <1>2, SyncTypeCorrect, PTL DEF Spec

\* One gateway: the messages of a session are those its row announces, or there
\* are none yet, although they are written by two transactions and either may
\* fail or be cut off by a death.
THEOREM TablesAgree ==
    ASSUME NEW CONSTANT g \in Gateways, Gateways = {g}
    PROVE  Spec => []RowsAgree
<1>1. SyncInv => RowsAgree
  BY DEF SyncInv
<1>2. Spec => []SyncInv
  BY SyncInvariant
<1>3. QED  BY <1>1, <1>2, PTL

\* One gateway: the cleanup works with a listing made earlier and yet never
\* removes the row of a session that is as new as the file.
THEOREM CleanupIsSafe ==
    ASSUME NEW CONSTANT one \in Gateways, Gateways = {one}
    PROVE  Spec => UpToDateRowKept
<1>1. TypeOK /\ SyncInv /\ [Next]_vars => RemovesOldRowsOnly
  BY RowKept DEF RemovesOldRowsOnly
<1>2. Spec => []SyncInv
  BY SyncInvariant
<1>3. QED  BY <1>1, <1>2, SyncTypeCorrect, PTL DEF Spec, UpToDateRowKept

-----------------------------------------------------------------------------
(***************************************************************************)
(* The log.                                                                *)
(***************************************************************************)

-----------------------------------------------------------------------------
\* The invariant.

Queued == Event \cup Run \cup {Sentinel}

\* There is one sentinel at most, and none while the service runs.
SentinelOnce ==
    /\ \A i, j \in DOMAIN queue : queue[i] = Sentinel /\ queue[j] = Sentinel => i = j
    /\ logRun => ~InQueue(Sentinel)
CountInv == SentinelOnce /\ EveryRecordIsCounted

\* The user of an event, wherever the event is.
OwnOrNone(e) == e.user \in {e.request, None}
UsersInv ==
    /\ \A i \in DOMAIN queue : queue[i].kind = "event" => OwnOrNone(queue[i])
    /\ \A i \in DOMAIN buffer : OwnOrNone(buffer[i])
    /\ OwnUser

\* A question that is queued or written has been registered, and its end is behind its
\* beginning.
IsRun(x, kind, r) == x.kind = kind /\ x.request = r
OrderInv ==
    /\ \A i \in DOMAIN queue : \A r \in Requests :
         IsRun(queue[i], "register", r) \/ IsRun(queue[i], "finish", r) => r <= current
    /\ \A i, j \in DOMAIN queue : \A r \in Requests :
         IsRun(queue[i], "finish", r) /\ IsRun(queue[j], "register", r) => j < i
    /\ \A r \in Requests : row[r] = "finished" =>
         r <= current /\ \A i \in DOMAIN queue : ~IsRun(queue[i], "register", r)

LogInv == LogTypeOK /\ CountInv /\ UsersInv /\ OrderInv

-----------------------------------------------------------------------------
\* The queue.

LEMMA QueueDomain ==
    ASSUME LogTypeOK
    PROVE  /\ queue \in Seq(Queued) /\ Len(queue) \in Nat /\ DOMAIN queue = 1..Len(queue)
           /\ buffer \in Seq(Event) /\ Len(buffer) \in Nat
           /\ DOMAIN buffer = 1..Len(buffer)
BY LenProperties DEF LogTypeOK, Queued

\* What is put into the queue is its last record.
LEMMA Added ==
    ASSUME LogTypeOK, NEW x \in Queued, queue' = Append(queue, x)
    PROVE  /\ queue' \in Seq(Queued) /\ Len(queue') = Len(queue) + 1
           /\ DOMAIN queue' = 1..(Len(queue) + 1)
           /\ queue'[Len(queue) + 1] = x
           /\ \A i \in 1..Len(queue) : queue'[i] = queue[i]
<1>1. queue \in Seq(Queued) /\ Len(queue) \in Nat
  BY QueueDomain
<1> QED BY <1>1

\* What is taken from the queue is its first record.
LEMMA Removed ==
    ASSUME LogTypeOK, Taken > 0, queue' = RemoveAt(queue, Taken)
    PROVE  /\ Taken = 1 /\ Len(queue) \in Nat \ {0} /\ queue[1] \in Queued
           /\ queue' \in Seq(Queued) /\ Len(queue') = Len(queue) - 1
           /\ DOMAIN queue' = 1..(Len(queue) - 1)
           /\ \A i \in 1..(Len(queue) - 1) : queue'[i] = queue[i + 1]
<1>1. queue # <<>> /\ Taken = 1 /\ queue \in Seq(Queued)
  BY QueueDomain DEF Taken
<1>2. Len(queue) \in Nat \ {0} /\ queue[1] \in Queued
  BY <1>1, EmptySeq, ElementOfSeq
<1>3. SubSeq(queue, 1, 1 - 1) = <<>>
  BY SubSeqEmpty
<1>4. SubSeq(queue, 1 + 1, Len(queue)) = Tail(queue)
  BY <1>1, TailIsSubSeq
<1>5. /\ Tail(queue) \in Seq(Queued) /\ Len(Tail(queue)) = Len(queue) - 1
      /\ \A i \in 1..Len(Tail(queue)) : Tail(queue)[i] = queue[i + 1]
  BY <1>1, HeadTailProperties
<1>6. queue' = Tail(queue)
  BY <1>1, <1>3, <1>4, <1>5, ConcatEmptySeq DEF RemoveAt
<1>7. DOMAIN queue' = 1..Len(queue')
  BY <1>5, <1>6, LenProperties
<1> QED BY <1>1, <1>2, <1>5, <1>6, <1>7

\* The kinds of records.
LEMMA Kinds ==
    /\ Sentinel.kind = "sentinel"
    /\ \A x \in Queued : /\ x.kind = "event" => x \in Event
                         /\ x.kind \in {"register", "finish"} => x \in Run
                         /\ x.kind = "sentinel" <=> x = Sentinel
                         /\ x.kind \in {"event", "register", "finish", "sentinel"}
BY DEF Queued, Event, Run, Sentinel

-----------------------------------------------------------------------------
\* Types.

LEMMA LogTypes == LogInit => LogTypeOK
<1> SUFFICES ASSUME LogInit PROVE LogTypeOK
  OBVIOUS
<1>1. queue \in Seq(Event \cup Run \cup {Sentinel}) /\ Len(queue) <= QueueSize
  BY LogAssumption DEF LogInit
<1>2. buffer \in Seq(Event) /\ Len(buffer) < BatchSize
  BY LogAssumption DEF LogInit
<1> QED BY <1>1, <1>2, LogAssumption DEF LogInit, LogTypeOK, logBounds

LEMMA EnqueueTypes ==
    ASSUME LogTypeOK, NEW x \in Queued, Enqueue(x)
    PROVE  queue' \in Seq(Queued) /\ Len(queue') <= QueueSize /\ accepted' \in Nat
<1> USE LogAssumption
<1>1. CASE Len(queue) < QueueSize
  <2>1. queue' = Append(queue, x) /\ accepted' = accepted + 1
    BY <1>1 DEF Enqueue
  <2> QED BY <1>1, <2>1, Added, QueueDomain DEF LogTypeOK
<1>2. CASE ~(Len(queue) < QueueSize)
  BY <1>2 DEF Enqueue, LogTypeOK, Queued
<1> QED BY <1>1, <1>2

\* A batch is settled, and what is stored of it is the batch or nothing.
LEMMA Flushed ==
    ASSUME NEW batch, Flush(batch)
    PROVE  /\ buffer' = <<>> /\ settled' = settled + Len(batch) /\ events' = events
           /\ errors' = errors \/ (errors < MaxFlushErrors /\ errors' = errors + 1)
           /\ stored' \in {stored, stored \cup {batch[i] : i \in 1..Len(batch)}}
<1> DEFINE new == stored \cup {batch[i] : i \in 1..Len(batch)}
<1>1. \/ stored' = new /\ settled' = settled + Len(batch) /\ errors' = errors
      \/ /\ errors < MaxFlushErrors /\ errors' = errors + 1
         /\ settled' = settled + Len(batch) /\ stored' \in {stored, new}
  BY DEF Flush, SettledBy
<1>2. buffer' = <<>> /\ events' = events
  BY DEF Flush
<1> HIDE DEF new
<1>3. stored' \in {stored, new}
  BY <1>1
<1>4. errors' = errors \/ (errors < MaxFlushErrors /\ errors' = errors + 1)
  BY <1>1
<1> QED BY <1>1, <1>2, <1>3, <1>4 DEF new

LEMMA FlushTypes ==
    ASSUME LogTypeOK, NEW batch \in Seq(Event), Flush(batch)
    PROVE  /\ buffer' \in Seq(Event) /\ Len(buffer') < BatchSize /\ stored' \in SUBSET Event
           /\ settled' \in Nat /\ events' = events /\ errors' \in 0..MaxFlushErrors
<1> USE LogAssumption
<1>1. buffer' \in Seq(Event) /\ Len(buffer') < BatchSize
  <2>1. <<>> \in Seq(Event) /\ Len(<<>>) = 0
    OBVIOUS
  <2>2. buffer' = <<>>
    BY Flushed
  <2>3. 0 < BatchSize
    OBVIOUS
  <2> QED BY <2>1, <2>2, <2>3
<1>2. \A i \in 1..Len(batch) : batch[i] \in Event
  BY ElementOfSeq
<1>3. Len(batch) \in Nat
  OBVIOUS
<1>4. stored' \in SUBSET Event
  BY <1>2, Flushed DEF LogTypeOK
<1>5. settled' = settled + Len(batch) /\ events' = events
  BY Flushed
<1>6. errors' \in 0..MaxFlushErrors
  BY Flushed DEF LogTypeOK
<1> QED BY <1>1, <1>3, <1>4, <1>5, <1>6 DEF LogTypeOK

LEMMA LogTypesStay == LogTypeOK /\ [LogNext]_logVars => LogTypeOK'
<1> SUFFICES ASSUME LogTypeOK, [LogNext]_logVars PROVE LogTypeOK'
  OBVIOUS
<1> USE LogAssumption DEF logBounds
<1>1. ASSUME NEW r \in Requests, Register(r) PROVE LogTypeOK'
  <2> DEFINE x == [kind |-> "register", request |-> r]
  <2>1. x \in Queued
    BY DEF Queued, Run
  <2>2. Enqueue(x)
    BY <1>1 DEF Register
  <2> HIDE DEF x
  <2>3. queue' \in Seq(Queued) /\ Len(queue') <= QueueSize /\ accepted' \in Nat
    BY <2>1, <2>2, EnqueueTypes
  <2> QED BY <1>1, <2>3 DEF Register, LogTypeOK, Queued
<1>2. ASSUME NEW r \in Requests, FinishRequest(r) PROVE LogTypeOK'
  <2> DEFINE x == [kind |-> "finish", request |-> r]
  <2>1. x \in Queued
    BY DEF Queued, Run
  <2>2. Enqueue(x)
    BY <1>2 DEF FinishRequest
  <2> HIDE DEF x
  <2>3. queue' \in Seq(Queued) /\ Len(queue') <= QueueSize /\ accepted' \in Nat
    BY <2>1, <2>2, EnqueueTypes
  <2> QED BY <1>2, <2>3 DEF FinishRequest, LogTypeOK, Queued
<1>3. ASSUME NEW r \in Requests, LogEvent(r) PROVE LogTypeOK'
  <2> DEFINE x == [kind |-> "event", request |-> r, user |-> UserOf(r)]
  <2>1. x \in Queued
    BY DEF Queued, Event, UserOf
  <2>2. Enqueue(x)
    BY <1>3 DEF LogEvent
  <2> HIDE DEF x
  <2>3. queue' \in Seq(Queued) /\ Len(queue') <= QueueSize /\ accepted' \in Nat
    BY <2>1, <2>2, EnqueueTypes
  <2> QED BY <1>3, <2>3 DEF LogEvent, LogTypeOK, Queued
<1>4. CASE StopLog
  <2>1. queue' \in Seq(Queued) /\ Len(queue') <= QueueSize
    <3>1. CASE Len(queue) < QueueSize
      <4>1. queue' = Append(queue, Sentinel) /\ Sentinel \in Queued
        BY <1>4, <3>1 DEF StopLog, Queued
      <4> QED BY <3>1, <4>1, Added, QueueDomain
    <3>2. CASE ~(Len(queue) < QueueSize)
      BY <1>4, <3>2 DEF StopLog, LogTypeOK, Queued
    <3> QED BY <3>1, <3>2
  <2> QED BY <1>4, <2>1 DEF StopLog, LogTypeOK, Queued
<1>5. CASE TakeSentinel
  <2>1. queue' \in Seq(Queued) /\ Len(queue') <= QueueSize
    <3>1. queue' \in Seq(Queued) /\ Len(queue') = Len(queue) - 1 /\ Len(queue) \in Nat
      BY <1>5, Removed DEF TakeSentinel
    <3> QED BY <3>1 DEF LogTypeOK
  <2>2. Flush(buffer) /\ buffer \in Seq(Event)
    BY <1>5 DEF TakeSentinel, LogTypeOK
  <2> QED BY <1>5, <2>1, <2>2, FlushTypes DEF TakeSentinel, LogTypeOK, Queued
<1>6. CASE TakeEvent
  <2>1. queue' \in Seq(Queued) /\ Len(queue') <= QueueSize /\ queue[Taken] \in Event
    <3>1. queue' \in Seq(Queued) /\ Len(queue') = Len(queue) - 1 /\ Len(queue) \in Nat
          /\ Taken = 1 /\ queue[1] \in Queued
      BY <1>6, Removed DEF TakeEvent
    <3> QED BY <1>6, <3>1, Kinds DEF LogTypeOK, TakeEvent
  <2> DEFINE batch == Append(buffer, queue[Taken])
  <2>2. batch \in Seq(Event)
    BY <2>1 DEF LogTypeOK
  <2>3. CASE Len(batch) >= BatchSize
    <3>1. Flush(batch)
      BY <1>6, <2>3 DEF TakeEvent
    <3> HIDE DEF batch
    <3> QED BY <1>6, <2>1, <2>2, <3>1, FlushTypes DEF TakeEvent, LogTypeOK, Queued
  <2>4. CASE ~(Len(batch) >= BatchSize)
    <3>1. buffer' = batch /\ UNCHANGED <<stored, settled, logBounds>>
      BY <1>6, <2>4 DEF TakeEvent
    <3>2. Len(batch) \in Nat
      BY <2>2
    <3> HIDE DEF batch
    <3>3. buffer' \in Seq(Event) /\ Len(buffer') < BatchSize
      BY <2>2, <2>4, <3>1, <3>2
    <3> QED BY <1>6, <2>1, <3>1, <3>3 DEF TakeEvent, LogTypeOK, Queued
  <2> QED BY <2>3, <2>4
<1>7. CASE TakeRun
  <2>1. queue' \in Seq(Queued) /\ Len(queue') <= QueueSize /\ queue[Taken] \in Run
    <3>1. queue' \in Seq(Queued) /\ Len(queue') = Len(queue) - 1 /\ Len(queue) \in Nat
          /\ Taken = 1 /\ queue[1] \in Queued
      BY <1>7, Removed DEF TakeRun
    <3> QED BY <1>7, <3>1, Kinds DEF LogTypeOK, TakeRun
  <2>2. row' \in [Requests -> {"none", "running", "finished"}]
    BY <1>7, <2>1 DEF TakeRun, LogTypeOK, Run
  <2>3. settled' \in Nat /\ errors' \in 0..MaxFlushErrors
    BY <1>7 DEF TakeRun, LogTypeOK
  <2> QED BY <1>7, <2>1, <2>2, <2>3 DEF TakeRun, LogTypeOK, Queued
<1>8. CASE FlushLate
  <2>1. Flush(buffer) /\ buffer \in Seq(Event)
    BY <1>8 DEF FlushLate, LogTypeOK
  <2> QED BY <1>8, <2>1, FlushTypes DEF FlushLate, LogTypeOK
<1>9. CASE UNCHANGED logVars
  BY <1>9 DEF logVars, LogTypeOK
<1> QED
  BY <1>1, <1>2, <1>3, <1>4, <1>5, <1>6, <1>7, <1>8, <1>9 DEF LogNext, Work

-----------------------------------------------------------------------------
\* Counting.

LEMMA RecordAdded ==
    ASSUME LogTypeOK, SentinelOnce, NEW x \in Queued, x # Sentinel, Enqueue(x),
           logRun' = logRun
    PROVE  SentinelOnce' /\ accepted' - Records' = accepted - Records
<1>1. accepted \in Nat /\ Len(queue) \in Nat /\ DOMAIN queue = 1..Len(queue)
  BY QueueDomain DEF LogTypeOK
<1>2. CASE Len(queue) < QueueSize
  <2> DEFINE n == Len(queue)
  <2>1. queue' = Append(queue, x) /\ accepted' = accepted + 1
    BY <1>2 DEF Enqueue
  <2>2. /\ Len(queue') = n + 1 /\ DOMAIN queue' = 1..(n + 1)
        /\ queue'[n + 1] = x /\ \A i \in 1..n : queue'[i] = queue[i]
    BY <2>1, Added
  <2>3. n \in Nat /\ Len(queue) = n /\ DOMAIN queue = 1..n
    BY <1>1
  <2> HIDE DEF n
  <2>4. \A i \in 1..(n + 1) : i \in 1..n \/ i = n + 1
    BY <2>3
  <2>5. InQueue(Sentinel)' <=> InQueue(Sentinel)
    <3>1. \A i \in 1..n : i \in 1..(n + 1)
      BY <2>3
    <3> QED BY <2>2, <2>3, <2>4, <3>1 DEF InQueue
  <2>6. SentinelOnce'
    BY <2>2, <2>3, <2>4, <2>5 DEF SentinelOnce
  <2>7. Records' = Records + 1
    BY <2>2, <2>3, <2>5 DEF Records
  <2>8. Records \in Int
    BY <2>3 DEF Records
  <2> QED BY <1>1, <2>1, <2>6, <2>7, <2>8
<1>3. CASE ~(Len(queue) < QueueSize)
  BY <1>3 DEF Enqueue, SentinelOnce, Records, InQueue
<1> QED BY <1>2, <1>3

LEMMA RecordRemoved ==
    ASSUME LogTypeOK, SentinelOnce, Taken > 0, queue' = RemoveAt(queue, Taken),
           logRun' = logRun
    PROVE  /\ SentinelOnce'
           /\ Records' = Records - (IF queue[1] = Sentinel THEN 0 ELSE 1)
           /\ queue[1] = Sentinel => ~logRun
<1> DEFINE n == Len(queue) - 1
<1>1. /\ n \in Nat /\ Len(queue) = n + 1 /\ Len(queue') = n
      /\ DOMAIN queue' = 1..n /\ \A i \in 1..n : queue'[i] = queue[i + 1]
  BY Removed
<1>2. DOMAIN queue = 1..(n + 1)
  BY <1>1, QueueDomain
<1> HIDE DEF n
<1>3. 1 \in 1..(n + 1) /\ \A i \in 1..n : i + 1 \in 1..(n + 1) /\ i + 1 # 1
  BY <1>1
<1>4. \A i \in 1..(n + 1) : i = 1 \/ \E j \in 1..n : i = j + 1
  <2>1. ASSUME NEW i \in 1..(n + 1), i # 1 PROVE i - 1 \in 1..n /\ i = i - 1 + 1
    BY <1>1, <2>1
  <2> QED BY <2>1
<1>5. \A i, j \in 1..n : queue'[i] = Sentinel /\ queue'[j] = Sentinel => i = j
  <2> SUFFICES ASSUME NEW i \in 1..n, NEW j \in 1..n, queue'[i] = Sentinel, queue'[j] = Sentinel
               PROVE  i = j
    OBVIOUS
  <2>1. i + 1 = j + 1
    BY <1>1, <1>2, <1>3 DEF SentinelOnce
  <2> QED BY <2>1
<1>6. InQueue(Sentinel)' => InQueue(Sentinel)
  <2> SUFFICES ASSUME NEW i \in 1..n, queue'[i] = Sentinel PROVE InQueue(Sentinel)
    BY <1>1 DEF InQueue
  <2>1. i + 1 \in 1..(n + 1) /\ queue[i + 1] = Sentinel
    BY <1>1, <1>3
  <2> QED BY <2>1, <1>1 DEF InQueue
<1>7. SentinelOnce'
  BY <1>1, <1>5, <1>6 DEF SentinelOnce
<1>8. CASE queue[1] = Sentinel
  <2>1. InQueue(Sentinel)
    BY <1>1, <1>3, <1>8 DEF InQueue
  <2>2. ~InQueue(Sentinel)'
    <3> SUFFICES ASSUME NEW i \in 1..n, queue'[i] = Sentinel PROVE FALSE
      BY <1>1 DEF InQueue
    <3>1. i + 1 = 1
      BY <1>1, <1>2, <1>3, <1>8 DEF SentinelOnce
    <3> QED BY <3>1
  <2>3. Records = n /\ Records' = n
    BY <2>1, <2>2, <1>1 DEF Records
  <2> QED BY <1>1, <1>7, <1>8, <2>1, <2>3 DEF SentinelOnce
<1>9. CASE queue[1] # Sentinel
  <2>1. InQueue(Sentinel) => InQueue(Sentinel)'
    <3> SUFFICES ASSUME NEW i \in 1..(n + 1), queue[i] = Sentinel PROVE InQueue(Sentinel)'
      BY <1>1 DEF InQueue
    <3>1. PICK j \in 1..n : i = j + 1
      BY <1>4, <1>9
    <3> QED BY <3>1, <1>1 DEF InQueue
  <2>2. InQueue(Sentinel) <=> InQueue(Sentinel)'
    BY <2>1, <1>6
  <2>3. Records' = Records - 1
    BY <2>2, <1>1 DEF Records
  <2> QED BY <1>7, <1>9, <2>3
<1> QED BY <1>8, <1>9

LEMMA CountStays ==
    LogTypeOK /\ CountInv /\ [LogNext]_logVars => CountInv'
<1> SUFFICES ASSUME LogTypeOK, CountInv, [LogNext]_logVars PROVE CountInv'
  OBVIOUS
<1>1. /\ SentinelOnce /\ accepted = settled + Records + Len(buffer)
      /\ worker \/ buffer = <<>>
  BY DEF CountInv, EveryRecordIsCounted
<1>2. /\ accepted \in Nat /\ settled \in Nat /\ Len(buffer) \in Nat /\ Records \in Int
      /\ Len(queue) \in Nat /\ buffer \in Seq(Event)
  BY QueueDomain DEF LogTypeOK, Records
<1>3. ASSUME NEW x \in Queued, x # Sentinel, Enqueue(x),
             UNCHANGED <<logRun, settled, buffer, worker>>
      PROVE  CountInv'
  <2>1. SentinelOnce' /\ accepted' - Records' = accepted - Records
    BY <1>1, <1>3, RecordAdded
  <2>2. accepted' \in Nat
    BY <1>3, EnqueueTypes
  <2>3. Records' \in Int
    <3>1. queue' \in Seq(Queued)
      BY <1>3, EnqueueTypes
    <3>2. Len(queue') \in Nat
      BY <3>1
    <3> QED BY <3>2 DEF Records
  <2>4. accepted' = settled' + Records' + Len(buffer')
    BY <1>1, <1>2, <1>3, <2>1, <2>2, <2>3
  <2> QED BY <1>1, <1>3, <2>1, <2>4 DEF CountInv, EveryRecordIsCounted
<1>4. ASSUME NEW r \in Requests, Register(r) PROVE CountInv'
  <2>1. [kind |-> "register", request |-> r] \in Queued
    BY DEF Queued, Run
  <2>2. [kind |-> "register", request |-> r].kind # Sentinel.kind
    BY DEF Sentinel
  <2> QED BY <1>3, <1>4, <2>1, <2>2 DEF Register
<1>5. ASSUME NEW r \in Requests, FinishRequest(r) PROVE CountInv'
  <2>1. [kind |-> "finish", request |-> r] \in Queued
    BY DEF Queued, Run
  <2>2. [kind |-> "finish", request |-> r].kind # Sentinel.kind
    BY DEF Sentinel
  <2> QED BY <1>3, <1>5, <2>1, <2>2 DEF FinishRequest
<1>6. ASSUME NEW r \in Requests, LogEvent(r) PROVE CountInv'
  <2>1. [kind |-> "event", request |-> r, user |-> UserOf(r)] \in Queued
    BY DEF Queued, Event, UserOf
  <2>2. [kind |-> "event", request |-> r, user |-> UserOf(r)].kind # Sentinel.kind
    BY DEF Sentinel
  <2> QED BY <1>3, <1>6, <2>1, <2>2 DEF LogEvent
<1>7. CASE StopLog
  <2>1. logRun /\ ~logRun' /\ UNCHANGED <<buffer, worker, accepted, settled>>
    BY <1>7 DEF StopLog
  <2>2. ~InQueue(Sentinel)
    BY <1>1, <2>1 DEF SentinelOnce
  <2>3. CASE Len(queue) < QueueSize
    <3> DEFINE n == Len(queue)
    <3>1. queue' = Append(queue, Sentinel) /\ Sentinel \in Queued
      BY <1>7, <2>3 DEF StopLog, Queued
    <3>2. /\ Len(queue') = n + 1 /\ DOMAIN queue' = 1..(n + 1)
          /\ queue'[n + 1] = Sentinel /\ \A i \in 1..n : queue'[i] = queue[i]
      BY <3>1, Added
    <3>3. n \in Nat /\ Len(queue) = n
      BY <1>2
    <3> HIDE DEF n
    <3>4. \A i \in 1..n : queue[i] # Sentinel
      BY <2>2, <3>3 DEF InQueue
    <3>5. \A i \in 1..(n + 1) : queue'[i] = Sentinel => i = n + 1
      BY <3>2, <3>3, <3>4
    <3>6. InQueue(Sentinel)'
      BY <3>2, <3>3 DEF InQueue
    <3>7. Records' = n /\ Records = n
      BY <2>2, <3>2, <3>3, <3>6 DEF Records
    <3>8. SentinelOnce'
      BY <2>1, <3>2, <3>5 DEF SentinelOnce
    <3> QED BY <1>1, <2>1, <3>7, <3>8 DEF CountInv, EveryRecordIsCounted
  <2>4. CASE ~(Len(queue) < QueueSize)
    <3>1. queue' = queue
      BY <1>7, <2>4 DEF StopLog
    <3> QED BY <1>1, <2>1, <2>2, <3>1
            DEF CountInv, EveryRecordIsCounted, SentinelOnce, Records, InQueue
  <2> QED BY <2>3, <2>4
<1>8. ASSUME NEW batch, Flush(batch), UNCHANGED <<queue, accepted, logRun, worker>>,
             batch = buffer
      PROVE  CountInv'
  <2>1. buffer' = <<>> /\ settled' = settled + Len(buffer)
    BY <1>8, Flushed
  <2>2. Records' = Records /\ SentinelOnce'
    BY <1>1, <1>8 DEF Records, SentinelOnce, InQueue
  <2>3. Len(buffer') = 0
    BY <2>1
  <2>4. accepted' = settled' + Records' + Len(buffer')
    BY <1>1, <1>2, <1>8, <2>1, <2>2, <2>3
  <2> QED BY <2>1, <2>2, <2>4 DEF CountInv, EveryRecordIsCounted
<1>9. CASE TakeSentinel
  <2>1. /\ Taken > 0 /\ queue[Taken] = Sentinel /\ queue' = RemoveAt(queue, Taken)
        /\ Flush(buffer) /\ worker' = logRun /\ logRun' = logRun /\ accepted' = accepted
    BY <1>9 DEF TakeSentinel
  <2>2. Taken = 1
    BY <2>1, Removed
  <2>3. SentinelOnce' /\ Records' = Records
    BY <1>1, <1>2, <2>1, <2>2, RecordRemoved
  <2>4. buffer' = <<>> /\ settled' = settled + Len(buffer)
    BY <2>1, Flushed
  <2>5. Len(buffer') = 0
    BY <2>4
  <2>6. accepted' = settled' + Records' + Len(buffer')
    BY <1>1, <1>2, <2>1, <2>3, <2>4, <2>5
  <2> QED BY <2>3, <2>4, <2>6 DEF CountInv, EveryRecordIsCounted
<1>10. CASE TakeEvent
  <2> DEFINE batch == Append(buffer, queue[Taken])
  <2>1. /\ worker /\ Taken > 0 /\ queue[Taken].kind = "event"
        /\ queue' = RemoveAt(queue, Taken)
        /\ UNCHANGED <<logRun, worker, accepted>>
    BY <1>10 DEF TakeEvent
  <2>2. Taken = 1 /\ queue[1] \in Queued /\ queue[1] # Sentinel
    BY <2>1, Removed, Kinds
  <2>3. SentinelOnce' /\ Records' = Records - 1
    BY <1>1, <2>1, <2>2, RecordRemoved
  <2>4. batch \in Seq(Event) /\ Len(batch) = Len(buffer) + 1
    BY <1>2, <2>1, <2>2, Kinds
  <2>5. \/ Flush(batch) \/ (buffer' = batch /\ settled' = settled)
    BY <1>10 DEF TakeEvent
  <2> HIDE DEF batch
  <2>6. settled' + Len(buffer') = settled + Len(buffer) + 1
    <3>1. CASE Flush(batch)
      <4>1. buffer' = <<>> /\ settled' = settled + Len(batch)
        BY <3>1, Flushed
      <4>2. Len(buffer') = 0
        BY <4>1
      <4> QED BY <4>1, <4>2, <2>4, <1>2
    <3>2. CASE buffer' = batch /\ settled' = settled
      BY <3>2, <2>4, <1>2
    <3> QED BY <2>5, <3>1, <3>2
  <2>7. settled' \in Nat /\ Len(buffer') \in Nat
    <3>1. LogTypeOK'
      BY LogTypesStay
    <3>2. settled' \in Nat /\ buffer' \in Seq(Event)
      BY <3>1 DEF LogTypeOK
    <3> QED BY <3>2
  <2>8. accepted' = accepted /\ Records' = Records - 1
    BY <2>1, <2>3
  <2>9. accepted' = settled' + Records' + Len(buffer')
    BY <1>1, <1>2, <2>6, <2>7, <2>8
  <2> QED BY <2>1, <2>3, <2>9 DEF CountInv, EveryRecordIsCounted
<1>11. CASE TakeRun
  <2>1. /\ Taken > 0 /\ queue[Taken].kind \in {"register", "finish"}
        /\ queue' = RemoveAt(queue, Taken) /\ settled' = settled + 1
        /\ UNCHANGED <<buffer, logRun, worker, accepted>>
    BY <1>11 DEF TakeRun
  <2>2. Taken = 1 /\ queue[1] \in Queued /\ queue[1] # Sentinel
    BY <2>1, Removed, Kinds
  <2>3. SentinelOnce' /\ Records' = Records - 1
    BY <1>1, <2>1, <2>2, RecordRemoved
  <2>4. accepted' = settled' + Records' + Len(buffer')
    BY <1>1, <1>2, <2>1, <2>3
  <2> QED BY <1>1, <2>1, <2>3, <2>4 DEF CountInv, EveryRecordIsCounted
<1>12. CASE FlushLate
  BY <1>12, <1>8 DEF FlushLate
<1>13. CASE UNCHANGED logVars
  BY <1>13, <1>1 DEF logVars, CountInv, EveryRecordIsCounted, SentinelOnce, Records, InQueue
<1> QED
  BY <1>4, <1>5, <1>6, <1>7, <1>9, <1>10, <1>11, <1>12, <1>13 DEF LogNext, Work

-----------------------------------------------------------------------------
\* Users and the order of the records.

\* The two ways in which the queue changes, for what is said of its records.
QueueGrows(x) ==
    /\ DOMAIN queue' = 1..(Len(queue) + 1) /\ queue'[Len(queue) + 1] = x
    /\ \A i \in 1..Len(queue) : queue'[i] = queue[i]
QueueShrinks ==
    /\ DOMAIN queue' = 1..(Len(queue) - 1) /\ Len(queue) # 0
    /\ \A i \in 1..(Len(queue) - 1) : queue'[i] = queue[i + 1]

LEMMA Enqueued ==
    ASSUME LogTypeOK, NEW x \in Queued, Enqueue(x)
    PROVE  queue' = queue \/ QueueGrows(x)
<1>1. CASE Len(queue) < QueueSize
  <2>1. queue' = Append(queue, x)
    BY <1>1 DEF Enqueue
  <2> QED BY <2>1, Added DEF QueueGrows
<1>2. CASE ~(Len(queue) < QueueSize)
  BY <1>2 DEF Enqueue
<1> QED BY <1>1, <1>2

LEMMA Taking ==
    ASSUME LogTypeOK, Taken > 0, queue' = RemoveAt(queue, Taken)
    PROVE  QueueShrinks /\ Taken = 1 /\ queue[1] \in Queued
BY Removed DEF QueueShrinks

\* What holds of every record and every pair of records in their order stays true.
LEMMA GrowsBy ==
    ASSUME LogTypeOK, NEW x, QueueGrows(x)
    PROVE  /\ \A i \in DOMAIN queue' : (i \in DOMAIN queue /\ queue'[i] = queue[i]) \/ queue'[i] = x
           /\ \A i, j \in DOMAIN queue' :
                \/ /\ i \in DOMAIN queue /\ j \in DOMAIN queue
                   /\ queue'[i] = queue[i] /\ queue'[j] = queue[j]
                \/ i \in DOMAIN queue /\ queue'[i] = queue[i] /\ queue'[j] = x /\ i < j
                \/ j \in DOMAIN queue /\ queue'[j] = queue[j] /\ queue'[i] = x /\ j < i
                \/ queue'[i] = x /\ queue'[j] = x
<1>1. Len(queue) \in Nat /\ DOMAIN queue = 1..Len(queue)
  BY QueueDomain
<1>2. ASSUME NEW i \in DOMAIN queue'
      PROVE  \/ i \in 1..Len(queue) /\ queue'[i] = queue[i]
             \/ i = Len(queue) + 1 /\ queue'[i] = x
  BY <1>1 DEF QueueGrows
<1> QED BY <1>1, <1>2

LEMMA ShrinksTo ==
    ASSUME LogTypeOK, QueueShrinks
    PROVE  /\ 1 \in DOMAIN queue
           /\ \A i \in DOMAIN queue' : /\ i \in Nat /\ i + 1 \in DOMAIN queue /\ i + 1 # 1
                                       /\ 1 < i + 1 /\ queue'[i] = queue[i + 1]
<1>1. Len(queue) \in Nat /\ DOMAIN queue = 1..Len(queue)
  BY QueueDomain
<1> QED BY <1>1 DEF QueueShrinks

LEMMA UsersStay ==
    LogTypeOK /\ UsersInv /\ [LogNext]_logVars => UsersInv'
<1> SUFFICES ASSUME LogTypeOK, UsersInv, [LogNext]_logVars PROVE UsersInv'
  OBVIOUS
<1> DEFINE InQ == \A i \in DOMAIN queue : queue[i].kind = "event" => OwnOrNone(queue[i])
           InB == \A i \in DOMAIN buffer : OwnOrNone(buffer[i])
<1>1. InQ /\ InB /\ OwnUser
  BY DEF UsersInv
<1>2. ASSUME NEW x \in Queued, Enqueue(x), x.kind = "event" => OwnOrNone(x) PROVE InQ'
  <2>1. CASE queue' = queue
    BY <1>1, <2>1 DEF OwnOrNone
  <2>2. CASE QueueGrows(x)
    <3>1. \A i \in DOMAIN queue' : (i \in DOMAIN queue /\ queue'[i] = queue[i]) \/ queue'[i] = x
      BY <2>2, GrowsBy
    <3> QED BY <1>1, <1>2, <3>1 DEF OwnOrNone
  <2> QED BY <1>2, <2>1, <2>2, Enqueued
<1>3. ASSUME QueueShrinks PROVE InQ'
  BY <1>1, <1>3, ShrinksTo DEF OwnOrNone
<1>4. ASSUME NEW batch \in Seq(Event), \A i \in DOMAIN batch : OwnOrNone(batch[i]),
             Flush(batch)
      PROVE  InB' /\ OwnUser'
  <2>1. buffer' = <<>> /\ stored' \in {stored, stored \cup {batch[i] : i \in 1..Len(batch)}}
    BY <1>4, Flushed
  <2>2. DOMAIN batch = 1..Len(batch)
    BY LenProperties
  <2>3. OwnUser'
    BY <1>1, <1>4, <2>1, <2>2 DEF OwnUser, OwnOrNone
  <2> QED BY <2>1, <2>3
<1>5. ASSUME UNCHANGED <<buffer, stored>> PROVE InB' /\ OwnUser'
  BY <1>1, <1>5 DEF OwnUser, OwnOrNone
<1>6. ASSUME InQ', InB', OwnUser' PROVE UsersInv'
  BY <1>6 DEF UsersInv, OwnOrNone
<1>7. buffer \in Seq(Event)
  BY DEF LogTypeOK
<1>8. InB
  BY <1>1
<1>9. ASSUME queue' = queue PROVE InQ'
  BY <1>1, <1>9 DEF OwnOrNone
<1>a. ASSUME NEW r \in Requests, Register(r) PROVE UsersInv'
  <2> DEFINE x == [kind |-> "register", request |-> r]
  <2>1. x \in Queued /\ x.kind # "event"
    BY DEF Queued, Run
  <2>2. Enqueue(x) /\ UNCHANGED <<buffer, stored>>
    BY <1>a DEF Register
  <2> HIDE DEF x, InQ, InB
  <2> QED BY <2>1, <2>2, <1>2, <1>5, <1>6
<1>b. ASSUME NEW r \in Requests, FinishRequest(r) PROVE UsersInv'
  <2> DEFINE x == [kind |-> "finish", request |-> r]
  <2>1. x \in Queued /\ x.kind # "event"
    BY DEF Queued, Run
  <2>2. Enqueue(x) /\ UNCHANGED <<buffer, stored>>
    BY <1>b DEF FinishRequest
  <2> HIDE DEF x, InQ, InB
  <2> QED BY <2>1, <2>2, <1>2, <1>5, <1>6
<1>c. ASSUME NEW r \in Requests, LogEvent(r) PROVE UsersInv'
  <2> DEFINE x == [kind |-> "event", request |-> r, user |-> UserOf(r)]
  <2>1. x \in Queued /\ OwnOrNone(x)
    BY DEF Queued, Event, UserOf, OwnOrNone
  <2>2. Enqueue(x) /\ UNCHANGED <<buffer, stored>>
    BY <1>c DEF LogEvent
  <2> HIDE DEF x, InQ, InB
  <2> QED BY <2>1, <2>2, <1>2, <1>5, <1>6
<1>d. CASE StopLog
  <2>1. CASE Len(queue) < QueueSize
    <3>1. Sentinel \in Queued /\ Sentinel.kind # "event"
      BY Kinds DEF Queued
    <3>2. queue' = Append(queue, Sentinel)
      BY <1>d, <2>1 DEF StopLog
    <3>3. QueueGrows(Sentinel)
      BY <3>1, <3>2, Added DEF QueueGrows
    <3>4. InQ'
      BY <1>1, <3>1, <3>3, GrowsBy DEF OwnOrNone
    <3> QED BY <1>5, <1>6, <1>d, <3>4 DEF StopLog
  <2>2. CASE ~(Len(queue) < QueueSize)
    BY <1>5, <1>6, <1>9, <1>d, <2>2 DEF StopLog
  <2> QED BY <2>1, <2>2
<1>e. CASE TakeSentinel
  <2>1. QueueShrinks /\ Flush(buffer)
    BY <1>e, Taking DEF TakeSentinel
  <2> QED BY <2>1, <1>3, <1>4, <1>6, <1>7, <1>8
<1>f. CASE TakeEvent
  <2> DEFINE batch == Append(buffer, queue[Taken])
  <2>1. QueueShrinks /\ Taken = 1 /\ queue[1] \in Event /\ queue[1].kind = "event"
    BY <1>f, Taking, Kinds DEF TakeEvent
  <2>2. batch \in Seq(Event)
    BY <1>7, <2>1
  <2>3. OwnOrNone(queue[1])
    BY <1>1, <2>1, ShrinksTo
  <2>4. \A i \in DOMAIN batch : OwnOrNone(batch[i])
    <3>1. Len(buffer) \in Nat /\ DOMAIN buffer = 1..Len(buffer)
      BY QueueDomain
    <3>2. /\ DOMAIN batch = 1..(Len(buffer) + 1) /\ batch[Len(buffer) + 1] = queue[1]
          /\ \A i \in 1..Len(buffer) : batch[i] = buffer[i]
      BY <1>7, <2>1
    <3>3. \A i \in 1..(Len(buffer) + 1) : i \in 1..Len(buffer) \/ i = Len(buffer) + 1
      BY <3>1
    <3> HIDE DEF batch
    <3> QED BY <1>8, <2>3, <3>1, <3>2, <3>3
  <2>5. CASE Flush(batch)
    <3> HIDE DEF batch
    <3> QED BY <2>1, <2>2, <2>4, <2>5, <1>3, <1>4, <1>6
  <2>6. CASE buffer' = batch /\ stored' = stored
    <3>1. InB'
      BY <2>4, <2>6 DEF OwnOrNone
    <3>2. OwnUser'
      BY <1>1, <2>6 DEF OwnUser
    <3> QED BY <2>1, <3>1, <3>2, <1>3, <1>6
  <2> QED BY <1>f, <2>5, <2>6 DEF TakeEvent
<1>g. CASE TakeRun
  <2>1. QueueShrinks /\ UNCHANGED <<buffer, stored>>
    BY <1>g, Taking DEF TakeRun
  <2> QED BY <2>1, <1>3, <1>5, <1>6
<1>h. CASE FlushLate
  BY <1>h, <1>4, <1>6, <1>7, <1>8, <1>9 DEF FlushLate
<1>i. CASE UNCHANGED logVars
  BY <1>i, <1>5, <1>6, <1>9 DEF logVars
<1> QED
  BY <1>a, <1>b, <1>c, <1>d, <1>e, <1>f, <1>g, <1>h, <1>i DEF LogNext, Work

LEMMA OrderKept ==
    ASSUME LogTypeOK, OrderInv, NEW x, queue' = queue \/ QueueGrows(x), row' = row,
           current' \in Nat, current <= current',
           \A r \in Requests : IsRun(x, "register", r) => current < r /\ r <= current',
           \A r \in Requests : IsRun(x, "finish", r) => r <= current'
    PROVE  OrderInv'
<1>1. current \in Nat /\ \A r \in Requests : r \in Nat
  BY LogAssumption DEF LogTypeOK, Requests, None
<1>2. ASSUME NEW r \in Requests, r <= current PROVE r <= current'
  BY <1>1, <1>2
<1>3. CASE queue' = queue
  BY <1>2, <1>3 DEF OrderInv, IsRun
<1>4. CASE QueueGrows(x)
  <2>1. ASSUME NEW i \in DOMAIN queue', NEW r \in Requests,
               IsRun(queue'[i], "register", r) \/ IsRun(queue'[i], "finish", r)
        PROVE  r <= current'
    <3>1. CASE i \in DOMAIN queue /\ queue'[i] = queue[i]
      BY <1>2, <2>1, <3>1 DEF OrderInv, IsRun
    <3>2. CASE queue'[i] = x
      BY <2>1, <3>2 DEF IsRun
    <3> QED BY <1>4, <3>1, <3>2, GrowsBy
  <2>2. ASSUME NEW i \in DOMAIN queue', NEW j \in DOMAIN queue', NEW r \in Requests,
               IsRun(queue'[i], "finish", r), IsRun(queue'[j], "register", r)
        PROVE  j < i
    <3>1. CASE /\ i \in DOMAIN queue /\ j \in DOMAIN queue
               /\ queue'[i] = queue[i] /\ queue'[j] = queue[j]
      BY <2>2, <3>1 DEF OrderInv, IsRun
    <3>2. CASE i \in DOMAIN queue /\ queue'[i] = queue[i] /\ queue'[j] = x
      <4>1. r <= current
        BY <2>2, <3>2 DEF OrderInv, IsRun
      <4>2. current < r
        BY <2>2, <3>2 DEF IsRun
      <4> QED BY <4>1, <4>2, <1>1
    <3>3. CASE queue'[i] = x /\ queue'[j] = x
      BY <2>2, <3>3 DEF IsRun
    <3> QED BY <1>4, <3>1, <3>2, <3>3, GrowsBy
  <2>3. ASSUME NEW r \in Requests, row'[r] = "finished"
        PROVE  r <= current' /\ \A i \in DOMAIN queue' : ~IsRun(queue'[i], "register", r)
    <3>1. r <= current /\ \A i \in DOMAIN queue : ~IsRun(queue[i], "register", r)
      BY <2>3 DEF OrderInv
    <3>2. ~IsRun(x, "register", r)
      BY <1>1, <3>1
    <3>3. ASSUME NEW i \in DOMAIN queue' PROVE ~IsRun(queue'[i], "register", r)
      BY <1>4, <3>1, <3>2, GrowsBy DEF IsRun
    <3> QED BY <1>2, <3>1, <3>3
  <2> QED BY <2>1, <2>2, <2>3 DEF OrderInv, IsRun
<1> QED BY <1>3, <1>4

LEMMA OrderKeptBehind ==
    ASSUME LogTypeOK, OrderInv, QueueShrinks, current' = current,
           \A r \in Requests :
             row'[r] = "finished" => row[r] = "finished" \/ IsRun(queue[1], "finish", r)
    PROVE  OrderInv'
<1>1. /\ 1 \in DOMAIN queue
      /\ \A i \in DOMAIN queue' : /\ i \in Nat /\ i + 1 \in DOMAIN queue
                                  /\ 1 < i + 1 /\ queue'[i] = queue[i + 1]
  BY ShrinksTo
<1>2. ASSUME NEW i \in DOMAIN queue', NEW r \in Requests,
             IsRun(queue'[i], "register", r) \/ IsRun(queue'[i], "finish", r)
      PROVE  r <= current'
  BY <1>1, <1>2 DEF OrderInv, IsRun
<1>3. ASSUME NEW i \in DOMAIN queue', NEW j \in DOMAIN queue', NEW r \in Requests,
             IsRun(queue'[i], "finish", r), IsRun(queue'[j], "register", r)
      PROVE  j < i
  <2>1. i \in Nat /\ j \in Nat /\ i + 1 \in DOMAIN queue /\ j + 1 \in DOMAIN queue
    BY <1>1
  <2>2. j + 1 < i + 1
    BY <1>1, <1>3, <2>1 DEF OrderInv, IsRun
  <2> QED BY <2>1, <2>2
<1>4. ASSUME NEW r \in Requests, row'[r] = "finished"
      PROVE  r <= current' /\ \A i \in DOMAIN queue' : ~IsRun(queue'[i], "register", r)
  <2>1. CASE row[r] = "finished"
    BY <1>1, <2>1 DEF OrderInv, IsRun
  <2>2. CASE IsRun(queue[1], "finish", r)
    <3>1. r <= current'
      BY <1>1, <2>2 DEF OrderInv
    <3>2. ASSUME NEW i \in DOMAIN queue', IsRun(queue'[i], "register", r) PROVE FALSE
      <4>1. i \in Nat /\ i + 1 \in DOMAIN queue /\ IsRun(queue[i + 1], "register", r)
        BY <1>1, <3>2 DEF IsRun
      <4>2. i + 1 < 1
        BY <1>1, <2>2, <4>1 DEF OrderInv
      <4> QED BY <4>1, <4>2
    <3> QED BY <3>1, <3>2
  <2> QED BY <1>4, <2>1, <2>2
<1> QED BY <1>2, <1>3, <1>4 DEF OrderInv, IsRun

\* What TakeRun does to the status of a question.
LEMMA RunTaken ==
    ASSUME LogTypeOK, TakeRun
    PROVE  \A r \in Requests :
             \/ row'[r] = row[r]
             \/ IsRun(queue[1], "finish", r) /\ row'[r] = "finished"
             \/ IsRun(queue[1], "register", r) /\ row'[r] = "running"
<1>1. Taken = 1 /\ queue[1] \in Queued
  BY Taking DEF TakeRun
<1>2. queue[1] \in Run
  BY <1>1, Kinds DEF TakeRun
<1> DEFINE q == queue[1].request
           status == IF queue[1].kind = "finish" THEN "finished" ELSE "running"
<1>3. row' \in {row, [row EXCEPT ![q] = status]}
  BY <1>1 DEF TakeRun
<1>4. q \in Requests /\ row \in [Requests -> {"none", "running", "finished"}]
  BY <1>2 DEF Run, LogTypeOK
<1>5. \/ IsRun(queue[1], "finish", q) /\ status = "finished"
      \/ IsRun(queue[1], "register", q) /\ status = "running"
  BY <1>2 DEF Run, IsRun
<1> HIDE DEF q, status
<1>6. ASSUME NEW r \in Requests PROVE row'[r] = row[r] \/ (r = q /\ row'[r] = status)
  BY <1>3, <1>4
<1> QED BY <1>5, <1>6

LEMMA OrderStays ==
    LogTypeOK /\ OrderInv /\ [LogNext]_logVars => OrderInv'
<1> SUFFICES ASSUME LogTypeOK, OrderInv, [LogNext]_logVars PROVE OrderInv'
  OBVIOUS
<1>1. current \in Nat /\ \A r \in Requests : r \in Nat
  BY LogAssumption DEF LogTypeOK, Requests, None
<1>2. \A kind : kind \in {"register", "finish"} => ~\E r \in Requests : IsRun(Sentinel, kind, r)
  BY DEF IsRun, Sentinel
<1>3. ASSUME queue' = queue, row' = row, current' = current PROVE OrderInv'
  BY <1>3 DEF OrderInv, IsRun
<1>a. ASSUME NEW r \in Requests, Register(r) PROVE OrderInv'
  <2> DEFINE x == [kind |-> "register", request |-> r]
  <2>1. /\ x \in Queued
        /\ \A s \in Requests : IsRun(x, "register", s) => s = r
        /\ \A s \in Requests : ~IsRun(x, "finish", s)
    BY DEF Queued, Run, IsRun
  <2>2. Enqueue(x) /\ row' = row /\ r = current + 1 /\ current' = r
    BY <1>a DEF Register
  <2> HIDE DEF x
  <2>3. queue' = queue \/ QueueGrows(x)
    BY <2>1, <2>2, Enqueued
  <2>4. current' \in Nat /\ current <= current' /\ current < r /\ r <= current'
    BY <1>1, <2>2
  <2> QED BY <2>1, <2>2, <2>3, <2>4, OrderKept
<1>b. ASSUME NEW r \in Requests, FinishRequest(r) PROVE OrderInv'
  <2> DEFINE x == [kind |-> "finish", request |-> r]
  <2>1. /\ x \in Queued
        /\ \A s \in Requests : IsRun(x, "finish", s) => s = r
        /\ \A s \in Requests : ~IsRun(x, "register", s)
    BY DEF Queued, Run, IsRun
  <2>2. Enqueue(x) /\ row' = row /\ r <= current /\ current' = current
    BY <1>b DEF FinishRequest
  <2> HIDE DEF x
  <2>3. queue' = queue \/ QueueGrows(x)
    BY <2>1, <2>2, Enqueued
  <2>4. current' \in Nat /\ current <= current' /\ r <= current'
    BY <1>1, <2>2
  <2> QED BY <2>1, <2>2, <2>3, <2>4, OrderKept
<1>c. ASSUME NEW r \in Requests, LogEvent(r) PROVE OrderInv'
  <2> DEFINE x == [kind |-> "event", request |-> r, user |-> UserOf(r)]
  <2>1. /\ x \in Queued
        /\ \A s \in Requests : ~IsRun(x, "finish", s) /\ ~IsRun(x, "register", s)
    BY DEF Queued, Event, UserOf, IsRun
  <2>2. Enqueue(x) /\ row' = row /\ current' = current
    BY <1>c DEF LogEvent
  <2> HIDE DEF x
  <2>3. queue' = queue \/ QueueGrows(x)
    BY <2>1, <2>2, Enqueued
  <2>4. current' \in Nat /\ current <= current'
    BY <1>1, <2>2
  <2> QED BY <2>1, <2>2, <2>3, <2>4, OrderKept
<1>d. CASE StopLog
  <2>1. row' = row /\ current' = current /\ current' \in Nat /\ current <= current'
    BY <1>1, <1>d DEF StopLog
  <2>2. queue' = queue \/ QueueGrows(Sentinel)
    <3>1. CASE Len(queue) < QueueSize
      <4>1. queue' = Append(queue, Sentinel) /\ Sentinel \in Queued
        BY <1>d, <3>1 DEF StopLog, Queued
      <4> QED BY <4>1, Added DEF QueueGrows
    <3>2. CASE ~(Len(queue) < QueueSize)
      BY <1>d, <3>2 DEF StopLog
    <3> QED BY <3>1, <3>2
  <2>3. \A s \in Requests : ~IsRun(Sentinel, "finish", s) /\ ~IsRun(Sentinel, "register", s)
    BY <1>2
  <2> QED BY <2>1, <2>2, <2>3, OrderKept
<1>e. CASE TakeSentinel
  BY <1>e, Taking, OrderKeptBehind DEF TakeSentinel
<1>f. CASE TakeEvent
  BY <1>f, Taking, OrderKeptBehind DEF TakeEvent
<1>g. CASE TakeRun
  <2>1. QueueShrinks /\ current' = current
    BY <1>g, Taking DEF TakeRun
  <2>2. \A r \in Requests :
          row'[r] = "finished" => row[r] = "finished" \/ IsRun(queue[1], "finish", r)
    BY <1>g, RunTaken
  <2> QED BY <2>1, <2>2, OrderKeptBehind
<1>h. CASE FlushLate
  BY <1>h, <1>3 DEF FlushLate
<1>i. CASE UNCHANGED logVars
  BY <1>i, <1>3 DEF logVars
<1> QED
  BY <1>a, <1>b, <1>c, <1>d, <1>e, <1>f, <1>g, <1>h, <1>i DEF LogNext, Work

-----------------------------------------------------------------------------
\* The theorems.

LEMMA LogInvIsInductive ==
    /\ LogInit => LogInv
    /\ LogInv /\ [LogNext]_logVars => LogInv'
<1>1. LogInit => LogInv
  <2> SUFFICES ASSUME LogInit PROVE LogInv
    OBVIOUS
  <2>1. queue = <<>> /\ Len(queue) = 0 /\ DOMAIN queue = {} /\ 1..Len(queue) = {}
    BY DEF LogInit
  <2>2. buffer = <<>> /\ Len(buffer) = 0 /\ DOMAIN buffer = {}
    BY DEF LogInit
  <2>3. CountInv
    <3>1. ~InQueue(Sentinel)
      BY <2>1 DEF InQueue
    <3>2. Records = 0
      BY <2>1, <3>1 DEF Records
    <3>3. accepted = 0 /\ settled = 0 /\ worker
      BY DEF LogInit
    <3> QED
      BY <2>1, <2>2, <3>1, <3>2, <3>3 DEF CountInv, SentinelOnce, EveryRecordIsCounted
  <2>4. UsersInv
    BY <2>1, <2>2 DEF UsersInv, OwnUser, LogInit
  <2>5. OrderInv
    <3>1. \A r \in Requests : row[r] # "finished"
      BY DEF LogInit
    <3> QED BY <2>1, <3>1 DEF OrderInv
  <2> QED BY LogTypes, <2>3, <2>4, <2>5 DEF LogInv
<1>2. LogInv /\ [LogNext]_logVars => LogInv'
  BY LogTypesStay, CountStays, UsersStay, OrderStays DEF LogInv
<1> QED BY <1>1, <1>2

\* DbLoggingService: the types of the queue, of the batch and of the tables.
THEOREM LogTypeCorrect == LogSpec => []LogTypeOK
<1>1. LogInv => LogTypeOK
  BY DEF LogInv
<1> QED BY <1>1, LogInvIsInductive, PTL DEF LogSpec

\* No accepted record vanishes without being counted as written or failed, however the
\* callers, the failures of the database and stop() meet the thread; and an event is
\* stored with the user of its own question or with none, also when it is logged after
\* the next question has begun.
THEOREM LogStaysSound == LogSpec => []LogIsSound
<1>1. LogInv => LogIsSound
  BY DEF LogInv, CountInv, UsersInv, LogIsSound
<1> QED BY <1>1, LogInvIsInductive, PTL DEF LogSpec

\* A question that shows as finished never shows as running again: its beginning is
\* written before its end, or was refused.
THEOREM FinishedQuestionsStay == LogSpec => FinishedStays
<1>1. LogInv /\ [LogNext]_logVars => StaysFinished
  <2> SUFFICES ASSUME LogInv, [LogNext]_logVars PROVE StaysFinished
    OBVIOUS
  <2>1. CASE TakeRun
    <3>1. LogTypeOK /\ OrderInv
      BY DEF LogInv
    <3>2. 1 \in DOMAIN queue
      BY <2>1, <3>1, Taking, ShrinksTo DEF TakeRun
    <3>3. \A r \in Requests : row[r] = "finished" => ~IsRun(queue[1], "register", r)
      BY <3>1, <3>2 DEF OrderInv
    <3> QED BY <2>1, <3>1, <3>3, RunTaken DEF StaysFinished
  <2>2. CASE row' = row
    BY <2>2 DEF StaysFinished
  <2>3. TakeRun \/ row' = row
    BY DEF LogNext, Work, Register, FinishRequest, LogEvent, StopLog, TakeSentinel,
           TakeEvent, FlushLate, logVars
  <2> QED BY <2>1, <2>2, <2>3
<1> QED BY <1>1, LogInvIsInductive, PTL DEF LogSpec, FinishedStays

-----------------------------------------------------------------------------
(***************************************************************************)
(* Start and stop.                                                         *)
(***************************************************************************)

-----------------------------------------------------------------------------
\* The invariant.

\* What is still to be started, and what is registered of the rest: every service
\* once, and the log before those that write to it.
IsRegistered(s) == \E i \in DOMAIN registered : registered[i] = s
ToStart ==
    todo \in {Order, <<"log", "sync", "cold">>, <<"sync", "cold">>, <<"cold">>, <<>>}
StartsOnce ==
    /\ \A i, j \in DOMAIN registered : registered[i] = registered[j] => i = j
    /\ \A i \in DOMAIN registered : \A k \in DOMAIN todo : registered[i] # todo[k]
LogBeforeUsers ==
    /\ todo \in {<<"sync", "cold">>, <<"cold">>, <<>>} /\ main \notin {"stop", "exit"} =>
         IsRegistered("log")
    /\ \A i \in DOMAIN registered : registered[i] \in {"sync", "cold"} =>
         \E j \in 1..(i - 1) : registered[j] = "log"

\* What runs: the pool, what is registered, and what did not stop.
RunningOK ==
    /\ main = "pool" => up = {}
    /\ main \notin {"pool", "exit"} => "pool" \in up
    /\ main \in {"pool", "schema"} => todo = Order
    /\ \A i \in DOMAIN registered : registered[i] \in up /\ registered[i] # "pool"
    /\ \A s \in up \ {"pool"} : s \in stuck \/ IsRegistered(s)
ServicesInv == ToStart /\ StartsOnce /\ LogBeforeUsers /\ RunningOK

\* The signal is given, in whatever state, after the load only, and what follows the
\* wait for it has seen it; the channels are open in a turn of run_forever only.
Given ==
    \/ flag \/ callback \/ waiter \in {"done", "missed"}
    \/ loader \in {"set", "direct", "call", "cycle"}
Turn == {"run", "agent", "finally", "backoff"}
LoadInv ==
    /\ Given => loaded \/ reuse
    /\ main \in Turn \cup {"vectors"} => policy = "none" \/ loaded \/ reuse
    /\ main \in Turn => \/ policy = "none" \/ phase = "vectors_ready"
                        \/ phase = "unavailable" /\ policy = "warn"
    /\ channels => main \in {"agent", "finally"}

LifecycleInv == LifecycleTypeOK /\ ServicesInv /\ LoadInv /\ CleanExit

-----------------------------------------------------------------------------
\* Sequences.

\* What is left of a sequence without its last element.
LEMMA FrontOf ==
    ASSUME NEW S, NEW s \in Seq(S), NEW n \in Nat, Len(s) = n + 1
    PROVE  /\ SubSeq(s, 1, n) \in Seq(S) /\ Len(SubSeq(s, 1, n)) = n
           /\ \A i \in 1..n : SubSeq(s, 1, n)[i] = s[i]
<1>1. \A i \in 1..n : s[i] \in S
  BY ElementOfSeq
<1>2. n - 1 + 1 = n /\ \A i \in 1..n : 1 + i - 1 = i
  OBVIOUS
<1>3. /\ SubSeq(s, 1, n) \in Seq(S)
      /\ Len(SubSeq(s, 1, n)) = IF 1 <= n THEN n - 1 + 1 ELSE 0
      /\ \A i \in 1..(n - 1 + 1) : SubSeq(s, 1, n)[i] = s[1 + i - 1]
  BY <1>1, SubSeqProperties
<1>4. Len(SubSeq(s, 1, n)) = n
  BY <1>3, <1>2
<1> QED BY <1>2, <1>3, <1>4

LEMMA RemoveLast ==
    ASSUME NEW S, NEW s \in Seq(S), s # <<>>
    PROVE  /\ RemoveAt(s, Len(s)) \in Seq(S)
           /\ Len(RemoveAt(s, Len(s))) = Len(s) - 1
           /\ \A i \in 1..(Len(s) - 1) : RemoveAt(s, Len(s))[i] = s[i]
<1>1. Len(s) - 1 \in Nat /\ Len(s) = Len(s) - 1 + 1
  BY EmptySeq
<1>2. SubSeq(s, Len(s) + 1, Len(s)) = <<>>
  BY <1>1, SubSeqEmpty
<1>3. /\ SubSeq(s, 1, Len(s) - 1) \in Seq(S)
      /\ Len(SubSeq(s, 1, Len(s) - 1)) = Len(s) - 1
      /\ \A i \in 1..(Len(s) - 1) : SubSeq(s, 1, Len(s) - 1)[i] = s[i]
  BY <1>1, FrontOf
<1>4. RemoveAt(s, Len(s)) = SubSeq(s, 1, Len(s) - 1)
  BY <1>2, <1>3, ConcatEmptySeq DEF RemoveAt
<1> QED BY <1>3, <1>4

-----------------------------------------------------------------------------
\* Types.

LEMMA LifecycleTypes == LifecycleInit => LifecycleTypeOK
<1> SUFFICES ASSUME LifecycleInit PROVE LifecycleTypeOK
  OBVIOUS
<1>1. Order \in Seq(Services) /\ <<>> \in Seq(Services)
  BY DEF Order, Services
<1>2. /\ main \in Starting /\ policy \in Policies /\ loader = "none" /\ waiter = "none"
      /\ phase = "pending" /\ exitCode \in 0..2
      /\ runs \in 0..MaxRuns /\ mishaps \in 0..MaxMishaps
      /\ up \in SUBSET Services /\ stuck \in SUBSET Services
      /\ todo \in Seq(Services) /\ registered \in Seq(Services)
  BY <1>1, LifecycleAssumption DEF LifecycleInit, Starting
<1>3. \A b \in {claimed, reuse, loaded, flag, bound, callback, channels} : b \in BOOLEAN
  BY DEF LifecycleInit
<1> QED BY <1>2, <1>3 DEF LifecycleTypeOK

LEMMA LifecycleTypesStay == LifecycleTypeOK /\ [LifecycleNext]_gatewayVars => LifecycleTypeOK'
<1> SUFFICES ASSUME LifecycleTypeOK, [LifecycleNext]_gatewayVars PROVE LifecycleTypeOK'
  OBVIOUS
<1> USE LifecycleAssumption DEF LifecycleTypeOK, Starting, Waiting, Working, Mishap, Go, Leave,
        process, signal
<1>1. CASE StartPool
  BY <1>1 DEF StartPool, Services
<1>2. CASE Validate
  BY <1>2 DEF Validate
<1>3. CASE StartService
  <2>1. todo # <<>> /\ todo' = Tail(todo) /\ Head(todo) \in Services
    BY <1>3, HeadTailProperties DEF StartService
  <2>2. todo' \in Seq(Services)
    BY <2>1, HeadTailProperties
  <2>3. Append(registered, Head(todo)) \in Seq(Services)
    BY <2>1
  <2>4. registered' \in Seq(Services) /\ up' \in SUBSET Services
    BY <1>3, <2>1, <2>3 DEF StartService
  <2> QED BY <1>3, <2>2, <2>4 DEF StartService
<1>4. CASE Started
  BY <1>4 DEF Started
<1>5. CASE CheckPort
  BY <1>5 DEF CheckPort
<1>6. CASE Loader
  BY <1>6 DEF Loader, Load, ReadLoop, CallLoop, SetEvent, Cycle, Again, LoopOpen
<1>7. CASE LoaderEnds
  BY <1>7 DEF LoaderEnds
<1>8. CASE Prepare
  BY <1>8 DEF Prepare
<1>9. CASE Loop
  BY <1>9 DEF Loop, Bind, CheckFlag, Sleep, Wake
<1>10. CASE LoadVectors
  BY <1>10 DEF LoadVectors
<1>11. CASE RunFails
  BY <1>11 DEF RunFails
<1>12. CASE OpenChannels
  BY <1>12 DEF OpenChannels
<1>13. CASE AgentEnds
  BY <1>13 DEF AgentEnds
<1>14. CASE CloseChannels
  <2>1. channels' \in BOOLEAN /\ main' \in {"stop", "backoff"}
    BY <1>14 DEF CloseChannels
  <2>2. mishaps' \in 0..MaxMishaps /\ exitCode' = exitCode
    BY <1>14 DEF CloseChannels
  <2> QED BY <1>14, <2>1, <2>2 DEF CloseChannels
<1>15. CASE Backoff
  BY <1>15 DEF Backoff
<1>16. CASE StopService
  <2>1. RemoveAt(registered, Len(registered)) \in Seq(Services) /\ registered # <<>>
    BY <1>16, RemoveLast DEF StopService
  <2>2. registered[Len(registered)] \in Services
    BY <2>1, EmptySeq, ElementOfSeq
  <2>3. registered' \in Seq(Services)
    BY <1>16, <2>1 DEF StopService, NextToStop, AfterFailure
  <2>4. up' \in SUBSET Services /\ stuck' \in SUBSET Services
    BY <1>16, <2>2 DEF StopService, NextToStop
  <2> QED BY <1>16, <2>3, <2>4 DEF StopService
<1>17. CASE Stopped
  BY <1>17 DEF Stopped
<1>18. CASE UNCHANGED gatewayVars
  BY <1>18 DEF gatewayVars
<1> QED
  BY <1>1, <1>2, <1>3, <1>4, <1>5, <1>6, <1>7, <1>8, <1>9, <1>10, <1>11, <1>12, <1>13,
     <1>14, <1>15, <1>16, <1>17, <1>18 DEF LifecycleNext

-----------------------------------------------------------------------------
\* The services.

LEMMA ServicesAtFirst == LifecycleInit => ServicesInv
  BY DEF LifecycleInit, ServicesInv, ToStart, StartsOnce, LogBeforeUsers, RunningOK, Order

\* The steps that start and stop nothing.
LEMMA ServicesUnchanged ==
    ASSUME ServicesInv, UNCHANGED <<todo, up, registered, stuck>>,
           main' = "pool" => main = "pool",
           main' \in {"pool", "schema"} => main \in {"pool", "schema"},
           main' \notin {"pool", "exit"} => main \notin {"pool", "exit"},
           main' \notin {"stop", "exit"} => main \notin {"stop", "exit"}
    PROVE  ServicesInv'
<1>1. ToStart' /\ StartsOnce'
  BY DEF ServicesInv, ToStart, StartsOnce
<1>2. LogBeforeUsers'
  BY DEF ServicesInv, LogBeforeUsers, IsRegistered
<1>3. RunningOK'
  BY DEF ServicesInv, RunningOK, IsRegistered
<1> QED BY <1>1, <1>2, <1>3 DEF ServicesInv

\* A service is left out, or it is registered behind the others.
LEMMA ServiceIsStarted ==
    ASSUME LifecycleTypeOK, ServicesInv, StartService
    PROVE  ServicesInv'
<1> DEFINE s == Head(todo)
<1>1. /\ main = "services" /\ main' = main /\ todo # <<>> /\ todo' = Tail(todo)
      /\ stuck' = stuck
  BY DEF StartService
<1>2. /\ registered \in Seq(Services) /\ Len(registered) \in Nat
      /\ DOMAIN registered = 1..Len(registered)
  BY LenProperties DEF LifecycleTypeOK
<1>3. \/ todo = Order /\ s = "subscriber" /\ todo' = <<"log", "sync", "cold">>
      \/ /\ todo = <<"log", "sync", "cold">> /\ s = "log" /\ todo' = <<"sync", "cold">>
      \/ /\ todo = <<"sync", "cold">> /\ s = "sync" /\ todo' = <<"cold">>
      \/ /\ todo = <<"cold">> /\ s = "cold" /\ todo' = <<>>
  <2>1. CASE todo = Order
    BY <2>1, <1>1 DEF Order
  <2>2. CASE todo = <<"log", "sync", "cold">>
    BY <2>2, <1>1
  <2>3. CASE todo = <<"sync", "cold">>
    BY <2>3, <1>1
  <2>4. CASE todo = <<"cold">>
    BY <2>4, <1>1
  <2> QED BY <2>1, <2>2, <2>3, <2>4, <1>1 DEF ServicesInv, ToStart
<1>4. ToStart'
  BY <1>3 DEF ToStart
<1>5. \A k \in DOMAIN todo' : \E l \in DOMAIN todo : todo[l] = todo'[k]
  <2>1. ASSUME NEW k \in DOMAIN todo' PROVE k + 1 \in DOMAIN todo /\ todo[k + 1] = todo'[k]
    BY <1>3 DEF Order
  <2> QED BY <2>1
<1>6. /\ \A k \in DOMAIN todo' : todo'[k] # s
      /\ \E k \in DOMAIN todo : todo[k] = s
  BY <1>3 DEF Order
<1> HIDE DEF s
<1>7. CASE registered' = registered /\ up' = up /\ s # "log"
  <2>1. StartsOnce'
    BY <1>5, <1>7 DEF ServicesInv, StartsOnce
  <2>2. LogBeforeUsers'
    BY <1>1, <1>3, <1>7 DEF ServicesInv, LogBeforeUsers, IsRegistered
  <2>3. RunningOK'
    BY <1>1, <1>7 DEF ServicesInv, RunningOK, IsRegistered
  <2> QED BY <1>4, <2>1, <2>2, <2>3 DEF ServicesInv
<1>8. CASE registered' = Append(registered, s) /\ up' = up \cup {s}
  <2> DEFINE n == Len(registered)
  <2>1. /\ DOMAIN registered' = 1..(n + 1) /\ registered'[n + 1] = s
        /\ \A i \in 1..n : registered'[i] = registered[i]
    <3>1. s \in Services
      BY <1>3 DEF Services
    <3> QED BY <1>2, <1>8, <3>1
  <2>2. \A i \in 1..n : registered[i] # s
    BY <1>2, <1>6 DEF ServicesInv, StartsOnce
  <2>3. n \in Nat /\ DOMAIN registered = 1..n
    BY <1>2
  <2> HIDE DEF n
  <2>4. StartsOnce'
    <3>1. ASSUME NEW i \in 1..(n + 1), NEW j \in 1..(n + 1), registered'[i] = registered'[j]
          PROVE  i = j
      <4>1. CASE i \in 1..n /\ j \in 1..n
        BY <2>1, <2>3, <3>1, <4>1 DEF ServicesInv, StartsOnce
      <4>2. CASE i = n + 1 /\ j \in 1..n
        BY <2>1, <2>2, <3>1, <4>2
      <4>3. CASE i \in 1..n /\ j = n + 1
        BY <2>1, <2>2, <3>1, <4>3
      <4> QED BY <4>1, <4>2, <4>3, <2>3
    <3>2. ASSUME NEW i \in 1..(n + 1), NEW k \in DOMAIN todo' PROVE registered'[i] # todo'[k]
      <4>1. CASE i \in 1..n
        BY <1>5, <2>1, <2>3, <4>1 DEF ServicesInv, StartsOnce
      <4>2. CASE i = n + 1
        BY <1>6, <2>1, <4>2
      <4> QED BY <4>1, <4>2, <2>3
    <3> QED BY <3>1, <3>2, <2>1 DEF StartsOnce
  <2>5. LogBeforeUsers'
    <3>1. IsRegistered("log") => IsRegistered("log")'
      <4> SUFFICES ASSUME NEW j \in 1..n, registered[j] = "log"
                   PROVE  \E i \in DOMAIN registered' : registered'[i] = "log"
        BY <2>3 DEF IsRegistered
      <4>1. j \in 1..(n + 1) /\ registered'[j] = "log"
        BY <2>1, <2>3
      <4> QED BY <4>1, <2>1
    <3>2. s = "log" => IsRegistered("log")'
      BY <2>1, <2>3 DEF IsRegistered
    <3>3. todo' \in {<<"sync", "cold">>, <<"cold">>, <<>>} => IsRegistered("log")'
      BY <3>1, <3>2, <1>1, <1>3 DEF ServicesInv, LogBeforeUsers
    <3>4. ASSUME NEW i \in 1..(n + 1), registered'[i] \in {"sync", "cold"}
          PROVE  \E j \in 1..(i - 1) : registered'[j] = "log"
      <4>1. CASE i \in 1..n
        <5>1. registered[i] \in {"sync", "cold"}
          BY <3>4, <4>1, <2>1
        <5>2. PICK j \in 1..(i - 1) : registered[j] = "log"
          BY <5>1, <4>1, <2>3 DEF ServicesInv, LogBeforeUsers
        <5>3. j \in 1..n
          BY <4>1, <2>3
        <5> QED BY <5>2, <5>3, <2>1
      <4>2. CASE i = n + 1
        <5>1. s \in {"sync", "cold"}
          BY <3>4, <4>2, <2>1
        <5>2. PICK j \in 1..n : registered[j] = "log"
          BY <5>1, <1>1, <1>3, <2>3 DEF ServicesInv, LogBeforeUsers, IsRegistered
        <5>3. j \in 1..(i - 1)
          BY <4>2, <2>3
        <5> QED BY <5>2, <5>3, <2>1
      <4> QED BY <4>1, <4>2, <2>3
    <3> QED BY <3>3, <3>4, <2>1 DEF LogBeforeUsers
  <2>6. RunningOK'
    <3>1. "pool" \in up' /\ main' \notin {"pool", "schema"}
      BY <1>1, <1>8 DEF ServicesInv, RunningOK
    <3>2. s # "pool"
      BY <1>3
    <3>3. ASSUME NEW i \in 1..(n + 1) PROVE registered'[i] \in up' /\ registered'[i] # "pool"
      <4>1. CASE i \in 1..n
        BY <1>8, <2>1, <2>3, <4>1 DEF ServicesInv, RunningOK
      <4>2. CASE i = n + 1
        BY <1>8, <2>1, <3>2, <4>2
      <4> QED BY <4>1, <4>2, <2>3
    <3>4. ASSUME NEW t \in up' \ {"pool"}, t \notin stuck PROVE IsRegistered(t)'
      <4>1. CASE t = s
        BY <2>1, <2>3, <4>1 DEF IsRegistered
      <4>2. CASE t # s
        <5>1. PICK i \in 1..n : registered[i] = t
          BY <1>8, <2>3, <3>4, <4>2 DEF ServicesInv, RunningOK, IsRegistered
        <5>2. i \in 1..(n + 1) /\ registered'[i] = t
          BY <5>1, <2>1, <2>3
        <5> QED BY <5>2, <2>1 DEF IsRegistered
      <4> QED BY <4>1, <4>2
    <3> QED BY <3>1, <3>3, <3>4, <2>1, <1>1 DEF RunningOK
  <2> QED BY <1>4, <2>4, <2>5, <2>6 DEF ServicesInv
<1> QED BY <1>7, <1>8 DEF StartService, s

\* The youngest service is taken off the list; it has ended or is stuck.
LEMMA ServiceIsStopped ==
    ASSUME LifecycleTypeOK, ServicesInv, StopService
    PROVE  ServicesInv'
<1> DEFINE n == Len(registered) - 1
           s == registered[n + 1]
<1>1. main = "stop" /\ main' = main /\ todo' = todo /\ registered # <<>>
  BY DEF StopService
<1>2. /\ n \in Nat /\ Len(registered) = n + 1 /\ DOMAIN registered = 1..(n + 1)
  BY <1>1, EmptySeq, LenProperties DEF LifecycleTypeOK
<1>3. /\ RemoveAt(registered, Len(registered)) \in Seq(Services)
      /\ Len(RemoveAt(registered, Len(registered))) = n
      /\ \A i \in 1..n : RemoveAt(registered, Len(registered))[i] = registered[i]
  BY <1>1, RemoveLast DEF LifecycleTypeOK
<1>4. registered' = RemoveAt(registered, Len(registered))
  BY DEF StopService, NextToStop, AfterFailure
<1>5. DOMAIN registered' = 1..n /\ \A i \in 1..n : registered'[i] = registered[i]
  BY <1>3, <1>4, LenProperties
<1>6. \/ up' = up \ {s} /\ stuck' = stuck
      \/ up' = up /\ stuck' = stuck \cup {s}
  BY <1>2 DEF StopService, NextToStop
<1> HIDE DEF n
<1>7. \A i \in 1..n : registered[i] # s
  <2> SUFFICES ASSUME NEW i \in 1..n, registered[i] = s PROVE FALSE
    OBVIOUS
  <2>1. i \in 1..(n + 1) /\ n + 1 \in 1..(n + 1) /\ i # n + 1
    BY <1>2
  <2>2. i = n + 1
    BY <1>2, <2>1 DEF ServicesInv, StartsOnce
  <2> QED BY <2>1, <2>2
<1> HIDE DEF s
<1>8. ToStart'
  BY <1>1 DEF ServicesInv, ToStart
<1>9. \A i \in 1..n : i \in DOMAIN registered
  BY <1>2
<1>10. StartsOnce'
  BY <1>1, <1>5, <1>9 DEF ServicesInv, StartsOnce
<1>11. LogBeforeUsers'
  <2>1. ASSUME NEW i \in 1..n, registered'[i] \in {"sync", "cold"}
        PROVE  \E j \in 1..(i - 1) : registered'[j] = "log"
    <3>1. PICK j \in 1..(i - 1) : registered[j] = "log"
      BY <2>1, <1>5, <1>9 DEF ServicesInv, LogBeforeUsers
    <3>2. j \in 1..n
      BY <1>2
    <3> QED BY <3>1, <3>2, <1>5
  <2> QED BY <2>1, <1>1, <1>5 DEF LogBeforeUsers
<1>12. RunningOK'
  <2>1. s # "pool" /\ "pool" \in up'
    <3>1. n + 1 \in DOMAIN registered
      BY <1>2
    <3>2. registered[n + 1] # "pool"
      BY <3>1 DEF ServicesInv, RunningOK
    <3> QED BY <3>2, <1>1, <1>6 DEF ServicesInv, RunningOK, s
  <2>2. ASSUME NEW i \in 1..n PROVE registered'[i] \in up' /\ registered'[i] # "pool"
    BY <1>5, <1>6, <1>7, <1>9 DEF ServicesInv, RunningOK
  <2>3. ASSUME NEW t \in up' \ {"pool"} PROVE t \in stuck' \/ IsRegistered(t)'
    <3>1. CASE t = s
      BY <1>6, <3>1, <2>3
    <3>2. CASE t # s /\ t \notin stuck
      <4>1. PICK i \in DOMAIN registered : registered[i] = t
        BY <1>6, <2>3, <3>2 DEF ServicesInv, RunningOK, IsRegistered
      <4>2. i \in 1..n
        BY <4>1, <3>2, <1>2 DEF s
      <4> QED BY <4>1, <4>2, <1>5 DEF IsRegistered
    <3>3. CASE t \in stuck
      BY <1>6, <3>3
    <3> QED BY <3>1, <3>2, <3>3
  <2> QED BY <2>1, <2>2, <2>3, <1>1, <1>5 DEF RunningOK
<1> QED BY <1>8, <1>10, <1>11, <1>12 DEF ServicesInv

LEMMA ServicesStay ==
    LifecycleTypeOK /\ ServicesInv /\ [LifecycleNext]_gatewayVars => ServicesInv'
<1> SUFFICES ASSUME LifecycleTypeOK, ServicesInv, [LifecycleNext]_gatewayVars
             PROVE  ServicesInv'
  OBVIOUS
<1> USE ServicesUnchanged DEF process, signal, Go, Leave
<1>1. CASE StartPool
  <2>1. /\ main = "pool" /\ main' = "schema" /\ up' = up \cup {"pool"}
        /\ UNCHANGED <<todo, registered, stuck>>
    BY <1>1 DEF StartPool
  <2>2. ToStart' /\ StartsOnce'
    BY <2>1 DEF ServicesInv, ToStart, StartsOnce
  <2>3. LogBeforeUsers'
    BY <2>1 DEF ServicesInv, LogBeforeUsers, IsRegistered
  <2>4. RunningOK'
    BY <2>1 DEF ServicesInv, RunningOK, IsRegistered
  <2> QED BY <2>2, <2>3, <2>4 DEF ServicesInv
<1>2. CASE Validate
  BY <1>2 DEF Validate
<1>3. CASE StartService
  BY <1>3, ServiceIsStarted
<1>4. CASE Started
  BY <1>4 DEF Started
<1>5. CASE CheckPort
  BY <1>5 DEF CheckPort
<1>6. CASE Loader
  BY <1>6 DEF Loader, Load, ReadLoop, CallLoop, SetEvent, Cycle
<1>7. CASE LoaderEnds
  BY <1>7 DEF LoaderEnds
<1>8. CASE Prepare
  BY <1>8 DEF Prepare
<1>9. CASE Loop
  BY <1>9 DEF Loop, Bind, CheckFlag, Sleep, Wake
<1>10. CASE LoadVectors
  BY <1>10 DEF LoadVectors
<1>11. CASE RunFails
  BY <1>11 DEF RunFails
<1>12. CASE OpenChannels
  BY <1>12 DEF OpenChannels
<1>13. CASE AgentEnds
  BY <1>13 DEF AgentEnds
<1>14. CASE CloseChannels
  BY <1>14 DEF CloseChannels
<1>15. CASE Backoff
  BY <1>15 DEF Backoff
<1>16. CASE StopService
  BY <1>16, ServiceIsStopped
<1>17. CASE Stopped
  <2>1. /\ main = "stop" /\ main' = "exit" /\ up' = up \ {"pool"}
        /\ UNCHANGED <<todo, registered, stuck>> /\ registered = <<>>
    BY <1>17 DEF Stopped
  <2>2. ToStart' /\ StartsOnce'
    BY <2>1 DEF ServicesInv, ToStart, StartsOnce
  <2>3. LogBeforeUsers'
    BY <2>1 DEF ServicesInv, LogBeforeUsers, IsRegistered
  <2>4. RunningOK'
    BY <2>1 DEF ServicesInv, RunningOK, IsRegistered
  <2> QED BY <2>2, <2>3, <2>4 DEF ServicesInv
<1>18. CASE UNCHANGED gatewayVars
  BY <1>18 DEF gatewayVars
<1> QED
  BY <1>1, <1>2, <1>3, <1>4, <1>5, <1>6, <1>7, <1>8, <1>9, <1>10, <1>11, <1>12, <1>13,
     <1>14, <1>15, <1>16, <1>17, <1>18 DEF LifecycleNext

-----------------------------------------------------------------------------
\* The signal and the end.

LEMMA LoadAtFirst == LifecycleInit => LoadInv
  BY DEF LifecycleInit, LoadInv, Given, Turn

LEMMA LoadStays ==
    LifecycleTypeOK /\ LoadInv /\ [LifecycleNext]_gatewayVars => LoadInv'
<1> SUFFICES ASSUME LifecycleTypeOK, LoadInv, [LifecycleNext]_gatewayVars
             PROVE  LoadInv'
  OBVIOUS
<1> USE DEF LoadInv, Given, Turn, process, signal, Go, Leave, Starting, Waiting
<1>1. CASE StartPool \/ Validate \/ Started \/ CheckPort
  BY <1>1 DEF StartPool, Validate, Started, CheckPort
<1>2. CASE StartService
  BY <1>2 DEF StartService
<1>3. CASE Loader
  BY <1>3 DEF Loader, Load, ReadLoop, CallLoop, SetEvent, Cycle, Again, LoopOpen
<1>4. CASE LoaderEnds
  BY <1>4 DEF LoaderEnds
<1>5. CASE Prepare
  BY <1>5 DEF Prepare
<1>6. CASE Loop
  BY <1>6 DEF Loop, Bind, CheckFlag, Sleep, Wake
<1>7. CASE LoadVectors
  BY <1>7 DEF LoadVectors, Policies, LifecycleTypeOK
<1>8. CASE RunFails \/ OpenChannels \/ AgentEnds
  BY <1>8 DEF RunFails, OpenChannels, AgentEnds
<1>9. CASE CloseChannels \/ Backoff
  BY <1>9 DEF CloseChannels, Backoff
<1>10. CASE StopService
  BY <1>10 DEF StopService
<1>11. CASE Stopped
  BY <1>11 DEF Stopped
<1>12. CASE UNCHANGED gatewayVars
  BY <1>12 DEF gatewayVars
<1> QED
  BY <1>1, <1>2, <1>3, <1>4, <1>5, <1>6, <1>7, <1>8, <1>9, <1>10, <1>11, <1>12
     DEF LifecycleNext

LEMMA EndIsClean ==
    LifecycleTypeOK /\ ServicesInv /\ CleanExit /\ [LifecycleNext]_gatewayVars => CleanExit'
<1> SUFFICES ASSUME LifecycleTypeOK, ServicesInv, CleanExit, [LifecycleNext]_gatewayVars
             PROVE  CleanExit'
  OBVIOUS
<1> USE DEF CleanExit, process, signal, Go, Leave
<1>1. CASE StartPool \/ Validate \/ Started \/ CheckPort
  BY <1>1 DEF StartPool, Validate, Started, CheckPort
<1>2. CASE StartService
  BY <1>2 DEF StartService
<1>3. CASE Loader \/ LoaderEnds
  BY <1>3 DEF Loader, Load, ReadLoop, CallLoop, SetEvent, Cycle, LoaderEnds
<1>4. CASE Prepare \/ LoadVectors
  BY <1>4 DEF Prepare, LoadVectors
<1>5. CASE Loop
  BY <1>5 DEF Loop, Bind, CheckFlag, Sleep, Wake
<1>6. CASE RunFails \/ OpenChannels \/ AgentEnds
  BY <1>6 DEF RunFails, OpenChannels, AgentEnds
<1>7. CASE CloseChannels \/ Backoff
  BY <1>7 DEF CloseChannels, Backoff
<1>8. CASE StopService
  BY <1>8 DEF StopService
<1>9. CASE Stopped
  <2>1. \A s \in up \ {"pool"} : s \in stuck
    BY <1>9 DEF Stopped, ServicesInv, RunningOK, IsRegistered
  <2> QED BY <1>9, <2>1 DEF Stopped
<1>10. CASE UNCHANGED gatewayVars
  BY <1>10 DEF gatewayVars
<1> QED
  BY <1>1, <1>2, <1>3, <1>4, <1>5, <1>6, <1>7, <1>8, <1>9, <1>10 DEF LifecycleNext

-----------------------------------------------------------------------------
\* Results.

LEMMA InvariantHolds == LifecycleSpec => []LifecycleInv
<1>1. LifecycleInit => LifecycleInv
  <2>1. LifecycleInit => CleanExit
    BY DEF LifecycleInit, CleanExit
  <2> QED BY <2>1, LifecycleTypes, ServicesAtFirst, LoadAtFirst DEF LifecycleInv
<1>2. LifecycleInv /\ [LifecycleNext]_gatewayVars => LifecycleInv'
  BY LifecycleTypesStay, ServicesStay, LoadStays, EndIsClean DEF LifecycleInv
<1> QED BY <1>1, <1>2, PTL DEF LifecycleSpec

\* The variables of a gateway keep their types over every start, turn and stop
\* (application_context.py, startup_gate.py, shutdown_coordinator.py).
THEOREM LifecycleTypeCorrect == LifecycleSpec => []LifecycleTypeOK
<1>1. LifecycleInv => LifecycleTypeOK
  BY DEF LifecycleInv
<1> QED BY <1>1, InvariantHolds, PTL

LEMMA InOrder == LifecycleInv => StartsAndStopsInOrder
<1> SUFFICES ASSUME LifecycleInv PROVE StartsAndStopsInOrder
  OBVIOUS
<1>1. ChannelsWaitForCache
  BY DEF LifecycleInv, LoadInv, Turn, ChannelsWaitForCache
<1>2. UsersStopFirst
  <2> SUFFICES ASSUME NEW s \in {"sync", "cold"} \cap up, s \notin stuck, main # "exit"
               PROVE  "log" \in up /\ "pool" \in up
    BY DEF UsersStopFirst
  <2>1. PICK i \in DOMAIN registered : registered[i] = s
    BY DEF LifecycleInv, ServicesInv, RunningOK, IsRegistered
  <2>2. PICK j \in 1..(i - 1) : registered[j] = "log"
    BY <2>1 DEF LifecycleInv, ServicesInv, LogBeforeUsers
  <2>3. i \in 1..Len(registered) /\ Len(registered) \in Nat
        /\ DOMAIN registered = 1..Len(registered)
    BY LenProperties DEF LifecycleInv, LifecycleTypeOK
  <2>4. j \in DOMAIN registered
    BY <2>3
  <2> QED BY <2>2, <2>4 DEF LifecycleInv, ServicesInv, RunningOK
<1> QED BY <1>1, <1>2 DEF LifecycleInv, StartsAndStopsInOrder

\* The channels open after the load and its publication and after the vectors, also
\* after a turn that failed (startup_gate.py, gateway.py); who writes to the log or uses
\* the pool stops before them, over stops that fail (shutdown_coordinator.py); and a
\* gateway that ends by itself leaves nothing that runs and a free cache.
THEOREM StartsAndStops == LifecycleSpec => []StartsAndStopsInOrder
BY InvariantHolds, InOrder, PTL

-----------------------------------------------------------------------------
(***************************************************************************)
(* The summarizer.                                                         *)
(***************************************************************************)

\* A run knows the version of its text, and from the lookup on that of its document.
Knows(o) ==
    /\ ~At(o, "idle") => run[o].text \in Versions
    /\ run[o].at \in {"physical", "analysis", "check", "install"} => run[o].id \in Versions

TypeInv == SummarizerTypeOK /\ \A o \in Ops : Knows(o)

\* The stages in which a run writes the files of its operation.
Writing == {"persist", "reduce", "result", "manifest"}

\* What a manifest says of the other files, between two runs of the operation as well:
\* "completed" stands for a whole result, and without it the chunks that are done have
\* their file.
ManifestIsRight(x) ==
    IF op[x].manifest = "completed" THEN op[x].result = Chunks /\ ~op[x].partial
    ELSE op[x].done \subseteq op[x].parts

\* The run of an operation: it does not run what is completed, unless there is nothing
\* to summarise; every chunk is one that it will write, that failed or that has its
\* file; and the result is written before the manifest.
RunIsRight(o) ==
    /\ ~At(o, "idle") =>
         /\ Mine(o).manifest = "completed" => Chunks = {}
         /\ Mine(o).done \subseteq Mine(o).parts
    /\ run[o].at \notin Writing => run[o].failed = {}
    /\ run[o].at \in Writing =>
         Covered(o) \cup run[o].failed = Chunks
    /\ At(o, "reduce") => run[o].ok \subseteq Mine(o).parts
    /\ run[o].at \in {"result", "manifest"} =>
         run[o].failed = {} \/ run[o].ok \subseteq Mine(o).parts
    /\ At(o, "manifest") =>
         /\ Mine(o).result = Covered(o)
         /\ Mine(o).partial = (run[o].failed # {})

FilesInv ==
    /\ \A x \in Ops \X Versions : ManifestIsRight(x)
    /\ \A o \in Ops : RunIsRight(o)

SummarizerInv == TypeInv /\ FilesInv

-----------------------------------------------------------------------------
\* Types.

\* The process of an operation makes a step to r, and the others stay.
LEMMA ProcessStep ==
    ASSUME TypeInv, NEW o \in Ops, NEW r \in Processes,
           run' = [run EXCEPT ![o] = r], file' \in Versions,
           r.at # "idle" => r.text \in Versions,
           r.at \in {"physical", "analysis", "check", "install"} => r.id \in Versions
    PROVE  run' \in [Ops -> Processes] /\ \A u \in Ops : Knows(u)'
<1>1. run' \in [Ops -> Processes]
  BY DEF TypeInv, SummarizerTypeOK
<1>2. ASSUME NEW u \in Ops PROVE Knows(u)'
  <2>1. CASE u = o
    <3>1. run'[u] = r
      BY <2>1 DEF TypeInv, SummarizerTypeOK
    <3> QED
      BY <3>1 DEF Knows, At
  <2>2. CASE u # o
    <3>1. run'[u] = run[u]
      BY <2>2 DEF TypeInv, SummarizerTypeOK
    <3> QED
      BY <3>1 DEF Knows, At, TypeInv
  <2> QED BY <2>1, <2>2
<1> QED BY <1>1, <1>2

\* The steps that only change the process, by what they make of it.
LEMMA GotoStep ==
    ASSUME TypeInv, NEW o \in Ops, NEW place \in Stages, Goto(o, place),
           file' \in Versions,
           place # "idle" => run[o].text \in Versions,
           place \in {"physical", "analysis", "check", "install"} => run[o].id \in Versions
    PROVE  run' \in [Ops -> Processes] /\ \A u \in Ops : Knows(u)'
<1> DEFINE r == [run[o] EXCEPT !.at = place]
<1>1. run[o] \in Processes
  BY DEF TypeInv, SummarizerTypeOK
<1>2. r \in Processes
  BY <1>1 DEF Processes
<1>3. r.at = place /\ r.text = run[o].text /\ r.id = run[o].id
  BY <1>1 DEF Processes
<1>4. run' = [run EXCEPT ![o] = r]
  BY DEF Goto
<1> HIDE DEF r
<1> QED BY <1>2, <1>3, <1>4, ProcessStep

LEMMA EndsStep ==
    ASSUME TypeInv, NEW o \in Ops, Ends(o), file' \in Versions
    PROVE  run' \in [Ops -> Processes] /\ \A u \in Ops : Knows(u)'
<1>1. Idle \in Processes
  BY DEF Idle, Processes, Stages
<1>2. Idle.at = "idle"
  BY DEF Idle
<1>3. run' = [run EXCEPT ![o] = Idle]
  BY DEF Ends
<1> QED BY <1>1, <1>2, <1>3, ProcessStep

LEMMA MissStep ==
    ASSUME TypeInv, NEW o \in Ops, Miss(o), file' \in Versions, ~At(o, "idle")
    PROVE  run' \in [Ops -> Processes] /\ \A u \in Ops : Knows(u)'
<1> DEFINE r == [run[o] EXCEPT !.inspect = TRUE,
                               !.at = IF run[o].inspect THEN "parse" ELSE "lookup"]
<1>1. run[o] \in Processes
  BY DEF TypeInv, SummarizerTypeOK
<1>2. r \in Processes
  BY <1>1 DEF Processes, Stages
<1>3. r.at \in {"parse", "lookup"} /\ r.text = run[o].text
  BY <1>1 DEF Processes
<1>4. run[o].text \in Versions
  BY DEF TypeInv, Knows
<1>5. run' = [run EXCEPT ![o] = r]
  BY <1>1 DEF Miss, Processes
<1> HIDE DEF r
<1> QED BY <1>2, <1>3, <1>4, <1>5, ProcessStep

LEMMA FileStep ==
    ASSUME TypeInv, run' = run
    PROVE  run' \in [Ops -> Processes] /\ \A u \in Ops : Knows(u)'
  BY DEF TypeInv, SummarizerTypeOK, Knows, At

LEMMA SummaryTypes == SummarizerInit => TypeInv
<1> SUFFICES ASSUME SummarizerInit PROVE TypeInv
  OBVIOUS
<1> USE SummarizerAssumption
<1>1. 1 \in Versions /\ NoVersion \in Versions \cup {NoVersion}
  BY DEF Versions
<1>2. file \in Versions /\ kills \in 0..MaxKills /\ refusals \in 0..MaxRefusals
  BY <1>1 DEF SummarizerInit
<1>3. dir \in [Versions -> [Parts -> Versions \cup {NoVersion}]]
  BY DEF SummarizerInit, NoDir
<1>4. notes \in [Versions -> SUBSET Chunks]
  BY DEF SummarizerInit
<1>5. op \in [Ops \X Versions -> Operations]
  <2>1. NewOp \in Operations
    BY DEF NewOp, Operations
  <2> QED BY <2>1 DEF SummarizerInit
<1>6. run \in [Ops -> Processes]
  <2>1. Idle \in Processes
    BY DEF Idle, Processes, Stages
  <2> QED BY <2>1 DEF SummarizerInit
<1>7. \A o \in Ops : Knows(o)
  BY DEF SummarizerInit, Idle, Knows, At
<1> QED BY <1>2, <1>3, <1>4, <1>5, <1>6, <1>7 DEF TypeInv, SummarizerTypeOK

\* What the steps of the document leave in the directories and in the process.
LEMMA DocumentTypes ==
    ASSUME TypeInv, NEW o \in Ops, Document(o)
    PROVE  TypeInv'
<1> USE SummarizerAssumption
<1>1. /\ file \in Versions /\ run[o] \in Processes /\ Knows(o)
      /\ dir \in [Versions -> [Parts -> Versions \cup {NoVersion}]]
      /\ notes \in [Versions -> SUBSET Chunks]
      /\ op \in [Ops \X Versions -> Operations]
      /\ kills \in 0..MaxKills /\ refusals \in 0..MaxRefusals
  BY DEF TypeInv, SummarizerTypeOK
<1>2. SUFFICES /\ run' \in [Ops -> Processes] /\ \A u \in Ops : Knows(u)'
               /\ file' \in Versions
               /\ dir' \in [Versions -> [Parts -> Versions \cup {NoVersion}]]
               /\ notes' \in [Versions -> SUBSET Chunks]
               /\ op' \in [Ops \X Versions -> Operations]
               /\ kills' \in 0..MaxKills /\ refusals' \in 0..MaxRefusals
  BY DEF TypeInv, SummarizerTypeOK
<1>3. file' = file /\ op' = op /\ kills' = kills
  BY DEF Document, Lookup, ReadPhysical, ReadAnalysis, Answer, Parse, Identify, Check,
         Install, Evict, Bounds
<1> USE <1>3
<1>a. file' \in Versions
  BY <1>1
<1>b. CASE Lookup(o)
  <2>1. dir' = dir /\ notes' = notes /\ refusals' = refusals /\ ~At(o, "idle")
    BY <1>b DEF Lookup, Cache, Bounds, At
  <2>2. CASE Miss(o)
    BY <2>1, <2>2, <1>1, <1>a, MissStep
  <2>3. CASE run' = [run EXCEPT ![o].id = file, ![o].at = "physical"]
    <3> DEFINE r == [run[o] EXCEPT !.id = file, !.at = "physical"]
    <3>1. r \in Processes
      BY <1>1 DEF Processes, Stages
    <3>2. r.id = file /\ r.text = run[o].text
      BY <1>1 DEF Processes
    <3>3. run[o].text \in Versions
      BY <1>1, <2>1 DEF Knows
    <3>4. run' = [run EXCEPT ![o] = r]
      BY <2>3, <1>1 DEF Processes
    <3> HIDE DEF r
    <3>5. run' \in [Ops -> Processes] /\ \A u \in Ops : Knows(u)'
      BY <3>1, <3>2, <3>3, <3>4, <1>1, <1>a, ProcessStep
    <3> QED BY <3>5, <2>1, <1>1
  <2> QED BY <1>b, <2>2, <2>3 DEF Lookup
<1>c. CASE ReadPhysical(o)
  <2>1. dir' = dir /\ notes' = notes /\ refusals' = refusals /\ At(o, "physical")
    BY <1>c DEF ReadPhysical, Cache, Bounds
  <2> DEFINE x == dir[run[o].id]["physical"]
             r == [run[o] EXCEPT !.physical = x, !.at = "analysis"]
  <2>2. run[o].id \in Versions /\ run[o].text \in Versions
    BY <2>1, <1>1 DEF Knows, At
  <2>3. x \in Versions \cup {NoVersion}
    BY <1>1, <2>2 DEF Parts
  <2>4. run' = [run EXCEPT ![o] = r]
    BY <1>c, <1>1 DEF ReadPhysical, Processes
  <2> HIDE DEF x
  <2>5. r \in Processes /\ r.text = run[o].text /\ r.id = run[o].id
    BY <1>1, <2>3 DEF Processes, Stages
  <2> HIDE DEF r
  <2>6. run' \in [Ops -> Processes] /\ \A u \in Ops : Knows(u)'
    BY <2>2, <2>4, <2>5, <1>a, ProcessStep
  <2> QED BY <2>6, <2>1, <1>1
<1>d. CASE ReadAnalysis(o)
  <2>1. dir' = dir /\ notes' = notes /\ refusals' = refusals /\ ~At(o, "idle")
    BY <1>d DEF ReadAnalysis, Cache, Bounds, At
  <2>2. run[o].text \in Versions
    BY <2>1, <1>1 DEF Knows
  <2>3. CASE Miss(o)
    BY <2>1, <2>3, <1>1, <1>a, MissStep
  <2>4. CASE Goto(o, "plan")
    BY <2>1, <2>2, <2>4, <1>1, <1>a, GotoStep DEF Stages
  <2>5. CASE Goto(o, "answer")
    BY <2>1, <2>2, <2>5, <1>1, <1>a, GotoStep DEF Stages
  <2> QED BY <1>d, <2>3, <2>4, <2>5 DEF ReadAnalysis
<1>e. CASE Answer(o)
  <2>1. dir' = dir /\ notes' = notes /\ ~At(o, "idle")
    BY <1>e DEF Answer, Cache, At
  <2>2. run[o].text \in Versions
    BY <2>1, <1>1 DEF Knows
  <2>3. refusals' \in 0..MaxRefusals
    BY <1>e, <1>1 DEF Answer
  <2>4. CASE Miss(o)
    BY <2>1, <2>3, <2>4, <1>1, <1>a, MissStep
  <2>5. CASE run' = [run EXCEPT ![o].ok = Chunks, ![o].at = "result"]
    <3> DEFINE r == [run[o] EXCEPT !.ok = Chunks, !.at = "result"]
    <3>1. r \in Processes /\ r.at = "result" /\ r.text = run[o].text
      BY <1>1 DEF Processes, Stages
    <3>2. run' = [run EXCEPT ![o] = r]
      BY <2>5, <1>1 DEF Processes
    <3> HIDE DEF r
    <3>3. run' \in [Ops -> Processes] /\ \A u \in Ops : Knows(u)'
      BY <3>1, <3>2, <2>2, <1>a, ProcessStep
    <3> QED BY <3>3, <2>1, <2>3, <1>1
  <2> QED BY <1>e, <2>4, <2>5 DEF Answer
<1>f. CASE Parse(o)
  <2>1. dir' = dir /\ notes' = notes /\ refusals' = refusals /\ ~At(o, "idle")
    BY <1>f DEF Parse, Cache, Bounds, At
  <2> DEFINE r == [run[o] EXCEPT !.physical = file, !.at = "identify"]
  <2>2. r \in Processes /\ r.at = "identify" /\ r.text = run[o].text
    BY <1>1 DEF Processes, Stages
  <2>3. run' = [run EXCEPT ![o] = r]
    BY <1>f, <1>1 DEF Parse, Processes
  <2>4. run[o].text \in Versions
    BY <2>1, <1>1 DEF Knows
  <2> HIDE DEF r
  <2>5. run' \in [Ops -> Processes] /\ \A u \in Ops : Knows(u)'
    BY <2>2, <2>3, <2>4, <1>a, ProcessStep
  <2> QED BY <2>5, <2>1, <1>1
<1>g. CASE Identify(o)
  <2>1. dir' = dir /\ notes' = notes /\ refusals' = refusals /\ ~At(o, "idle")
    BY <1>g DEF Identify, Cache, Bounds, At
  <2> DEFINE r == [run[o] EXCEPT !.id = file, !.at = "check"]
  <2>2. r \in Processes /\ r.at = "check" /\ r.text = run[o].text /\ r.id = file
    BY <1>1 DEF Processes, Stages
  <2>3. run' = [run EXCEPT ![o] = r]
    BY <1>g, <1>1 DEF Identify, Processes
  <2>4. run[o].text \in Versions
    BY <2>1, <1>1 DEF Knows
  <2> HIDE DEF r
  <2>5. run' \in [Ops -> Processes] /\ \A u \in Ops : Knows(u)'
    BY <2>2, <2>3, <2>4, <1>1, <1>a, ProcessStep
  <2> QED BY <2>5, <2>1, <1>1
<1>h. CASE Check(o)
  <2>1. dir' = dir /\ notes' = notes /\ refusals' = refusals /\ At(o, "check")
    BY <1>h DEF Check, Cache, Bounds
  <2>2. run[o].text \in Versions /\ run[o].id \in Versions
    BY <2>1, <1>1 DEF Knows, At
  <2>3. CASE Goto(o, "install")
    BY <2>1, <2>2, <2>3, <1>1, <1>a, GotoStep DEF Stages
  <2>4. CASE Goto(o, "plan")
    BY <2>1, <2>2, <2>4, <1>1, <1>a, GotoStep DEF Stages
  <2> QED BY <1>h, <2>3, <2>4 DEF Check
<1>i. CASE Install(o)
  <2>1. refusals' = refusals /\ At(o, "install")
    BY <1>i DEF Install, Bounds
  <2>2. run[o].text \in Versions /\ run[o].id \in Versions
    BY <2>1, <1>1 DEF Knows, At
  <2>3. CASE Goto(o, "refused") /\ UNCHANGED Cache
    BY <2>1, <2>2, <2>3, <1>1, <1>a, GotoStep DEF Stages, Cache
  <2>4. CASE Installable(run[o].id)
    <3> DEFINE copy == [p \in Parts |-> run[o].physical]
               rest == {x \in Versions \X (Parts \cup {"notes"}) :
                          x[1] # run[o].id /\ dir[x[1]]["physical"] # NoVersion}
               r == [run[o] EXCEPT !.at = "evict", !.todo = rest]
    <3>1. copy \in [Parts -> Versions \cup {NoVersion}]
      BY <1>1 DEF Processes
    <3>2. dir' = [dir EXCEPT ![run[o].id] = copy]
      BY <1>i, <2>4 DEF Install
    <3>3. notes' = [notes EXCEPT ![run[o].id] = {}]
      BY <1>i, <2>4 DEF Install
    <3>4. run' = [run EXCEPT ![o] = r]
      BY <1>i, <2>4, <1>1 DEF Install, Processes
    <3>5. rest \subseteq Versions \X (Parts \cup {"notes"})
      OBVIOUS
    <3> HIDE DEF copy, rest
    <3>6. r \in Processes /\ r.at = "evict" /\ r.text = run[o].text
      BY <1>1, <3>5 DEF Processes, Stages
    <3> HIDE DEF r
    <3>7. run' \in [Ops -> Processes] /\ \A u \in Ops : Knows(u)'
      BY <3>4, <3>6, <2>2, <1>a, ProcessStep
    <3>8. dir' \in [Versions -> [Parts -> Versions \cup {NoVersion}]]
      BY <3>1, <3>2, <1>1
    <3>9. notes' \in [Versions -> SUBSET Chunks]
      BY <3>3, <1>1
    <3> QED BY <3>7, <3>8, <3>9, <2>1, <1>1
  <2> QED BY <1>i, <2>3, <2>4 DEF Install
<1>j. CASE Evict(o)
  <2>1. refusals' = refusals /\ ~At(o, "idle") /\ At(o, "evict")
    BY <1>j DEF Evict, Bounds, At
  <2>2. run[o].text \in Versions
    BY <2>1, <1>1 DEF Knows
  <2>3. CASE run[o].todo = {}
    <3>1. Goto(o, "plan") /\ UNCHANGED Cache
      BY <1>j, <2>3 DEF Evict
    <3> QED BY <2>1, <2>2, <3>1, <1>1, <1>a, GotoStep DEF Stages, Cache
  <2>4. CASE run[o].todo # {}
    <3>1. PICK x \in run[o].todo :
             /\ run' = [run EXCEPT ![o].todo = @ \ {x}]
             /\ IF x[2] = "notes"
                THEN notes' = [notes EXCEPT ![x[1]] = {}] /\ UNCHANGED dir
                ELSE dir' = [dir EXCEPT ![x[1]][x[2]] = NoVersion] /\ UNCHANGED notes
      BY <1>j, <2>4 DEF Evict
    <3>2. run[o].todo \in SUBSET (Versions \X (Parts \cup {"notes"}))
      BY <1>1 DEF Processes
    <3>3. x[1] \in Versions /\ x[2] \in Parts \cup {"notes"}
      BY <3>2
    <3> DEFINE rest == run[o].todo \ {x}
               r == [run[o] EXCEPT !.todo = rest]
    <3>4. run' = [run EXCEPT ![o] = r]
      BY <3>1, <1>1 DEF Processes
    <3>5. rest \in SUBSET (Versions \X (Parts \cup {"notes"}))
      BY <3>2
    <3> HIDE DEF rest
    <3>6. r \in Processes /\ r.at = run[o].at /\ r.text = run[o].text
      BY <1>1, <3>5 DEF Processes
    <3> HIDE DEF r
    <3>7. run' \in [Ops -> Processes] /\ \A u \in Ops : Knows(u)'
      BY <3>4, <3>6, <2>1, <2>2, <1>a, ProcessStep DEF At
    <3>8. notes' \in [Versions -> SUBSET Chunks]
      BY <3>1, <1>1
    <3>9. dir' \in [Versions -> [Parts -> Versions \cup {NoVersion}]]
      <4>1. CASE x[2] = "notes"
        BY <4>1, <3>1, <1>1
      <4>2. CASE x[2] # "notes"
        <5> DEFINE d == [dir[x[1]] EXCEPT ![x[2]] = NoVersion]
        <5>1. d \in [Parts -> Versions \cup {NoVersion}]
          BY <1>1, <3>3
        <5>2. dir' = [dir EXCEPT ![x[1]] = d]
          BY <3>1, <4>2
        <5> HIDE DEF d
        <5> QED BY <5>1, <5>2, <1>1
      <4> QED BY <4>1, <4>2
    <3> QED BY <3>7, <3>8, <3>9, <2>1, <1>1
  <2> QED BY <2>3, <2>4
<1> QED BY <1>b, <1>c, <1>d, <1>e, <1>f, <1>g, <1>h, <1>i, <1>j DEF Document

\* What the steps of the operation leave in its files.
LEMMA OperationTypes ==
    ASSUME TypeInv, NEW o \in Ops, Operation(o)
    PROVE  TypeInv'
<1> USE SummarizerAssumption
<1>1. /\ file \in Versions /\ run[o] \in Processes /\ Knows(o)
      /\ dir \in [Versions -> [Parts -> Versions \cup {NoVersion}]]
      /\ notes \in [Versions -> SUBSET Chunks]
      /\ op \in [Ops \X Versions -> Operations]
      /\ kills \in 0..MaxKills /\ refusals \in 0..MaxRefusals
  BY DEF TypeInv, SummarizerTypeOK
<1>2. SUFFICES /\ run' \in [Ops -> Processes] /\ \A u \in Ops : Knows(u)'
               /\ file' \in Versions
               /\ dir' \in [Versions -> [Parts -> Versions \cup {NoVersion}]]
               /\ notes' \in [Versions -> SUBSET Chunks]
               /\ op' \in [Ops \X Versions -> Operations]
               /\ kills' \in 0..MaxKills /\ refusals' \in 0..MaxRefusals
  BY DEF TypeInv, SummarizerTypeOK
<1>3. file' = file /\ dir' = dir /\ kills' = kills
  BY DEF Operation, Plan, Map, Persist, Reduce, WriteResult, SaveManifest, Bounds, Cache
<1> USE <1>3
<1>a. file' \in Versions
  BY <1>1
<1>4. ~At(o, "idle")
  BY DEF Operation, Plan, Map, Persist, Reduce, WriteResult, SaveManifest, At
<1>5. run[o].text \in Versions
  BY <1>1, <1>4 DEF Knows
<1> DEFINE x == <<o, run[o].text>>
<1>6. x \in Ops \X Versions /\ op[x] \in Operations /\ Mine(o) = op[x]
  BY <1>1, <1>5 DEF Mine
<1>7. run[o].ok \subseteq Chunks /\ run[o].failed \subseteq Chunks
      /\ Mine(o).parts \subseteq Chunks /\ Mine(o).done \subseteq Chunks
  BY <1>1, <1>6 DEF Processes, Operations
<1> HIDE DEF x
<1>b. CASE Plan(o)
  <2>1. notes' = notes /\ refusals' = refusals
    BY <1>b DEF Plan, Cache, Bounds
  <2> DEFINE m == IF op[x].manifest = "none" THEN "running" ELSE op[x].manifest
             n == [op[x] EXCEPT !.manifest = m]
  <2>2. op' = [op EXCEPT ![x] = n]
    BY <1>b DEF Plan, x
  <2>3. m \in {"none", "running", "partial", "completed"}
    BY <1>6 DEF Operations
  <2> HIDE DEF m
  <2>4. n \in Operations
    BY <1>6, <2>3 DEF Operations
  <2> HIDE DEF n
  <2>5. op' \in [Ops \X Versions -> Operations]
    BY <2>2, <2>4, <1>1
  <2>6. Goto(o, "map")
    BY <1>b DEF Plan
  <2> QED BY <2>1, <2>5, <2>6, <1>5, <1>1, <1>a, GotoStep DEF Stages
<1>c. CASE Map(o)
  <2>1. notes' = notes /\ op' = op
    BY <1>c DEF Map, Cache
  <2>2. PICK failed \in SUBSET Pending(o) :
           /\ failed # {} => refusals < MaxRefusals
           /\ refusals' = refusals + (IF failed = {} THEN 0 ELSE 1)
           /\ run' = [run EXCEPT ![o].ok = Pending(o) \ failed, ![o].failed = failed,
                                 ![o].at = "persist"]
    BY <1>c DEF Map
  <2>3. refusals' \in 0..MaxRefusals
    BY <2>2, <1>1
  <2> DEFINE ok == Pending(o) \ failed
             r == [run[o] EXCEPT !.ok = ok, !.failed = failed, !.at = "persist"]
  <2>4. ok \subseteq Chunks /\ failed \subseteq Chunks
    BY DEF Pending
  <2>5. run' = [run EXCEPT ![o] = r]
    BY <2>2, <1>1 DEF Processes
  <2> HIDE DEF ok
  <2>6. r \in Processes /\ r.at = "persist" /\ r.text = run[o].text
    BY <1>1, <2>4 DEF Processes, Stages
  <2> HIDE DEF r
  <2>7. run' \in [Ops -> Processes] /\ \A u \in Ops : Knows(u)'
    BY <2>5, <2>6, <1>5, <1>a, ProcessStep
  <2> QED BY <2>1, <2>3, <2>7, <1>1
<1>d. CASE Persist(o)
  <2>1. refusals' = refusals
    BY <1>d DEF Persist, Bounds
  <2> DEFINE rest == run[o].ok \ Mine(o).parts
  <2>2. CASE rest = {}
    <3>1. Goto(o, "reduce") /\ UNCHANGED <<op, notes>>
      BY <1>d, <2>2 DEF Persist
    <3> QED BY <2>1, <3>1, <1>5, <1>1, <1>a, GotoStep DEF Stages
  <2>3. CASE rest # {}
    <3>1. PICK c \in rest :
             /\ op' = [op EXCEPT ![<<o, run[o].text>>].parts = @ \cup {c}]
             /\ notes' = IF o \in Questions THEN notes
                         ELSE [notes EXCEPT ![run[o].id] = @ \cup {c}]
             /\ UNCHANGED run
      BY <1>d, <2>3 DEF Persist
    <3>2. c \in Chunks
      BY <3>1, <1>7
    <3> DEFINE files == op[x].parts \cup {c}
               n == [op[x] EXCEPT !.parts = files]
    <3>3. op' = [op EXCEPT ![x] = n]
      BY <3>1 DEF x
    <3>4. files \subseteq Chunks
      BY <3>2, <1>6, <1>7
    <3> HIDE DEF files
    <3>5. n \in Operations
      BY <3>4, <1>6 DEF Operations
    <3> HIDE DEF n
    <3>6. op' \in [Ops \X Versions -> Operations]
      BY <3>3, <3>5, <1>1
    <3>7. notes' \in [Versions -> SUBSET Chunks]
      BY <3>1, <3>2, <1>1
    <3>8. run' \in [Ops -> Processes] /\ \A u \in Ops : Knows(u)'
      BY <3>1, FileStep
    <3> QED BY <2>1, <3>6, <3>7, <3>8, <1>1
  <2> QED BY <2>2, <2>3
<1>e. CASE Reduce(o)
  <2>1. notes' = notes /\ op' = op /\ refusals' \in 0..MaxRefusals
    BY <1>e, <1>1 DEF Reduce, Cache
  <2>2. CASE Goto(o, "result")
    BY <2>1, <2>2, <1>5, <1>1, <1>a, GotoStep DEF Stages
  <2>3. CASE Ends(o)
    BY <2>1, <2>3, <1>1, <1>a, EndsStep
  <2> QED BY <1>e, <2>2, <2>3 DEF Reduce
<1>f. CASE WriteResult(o)
  <2>1. notes' = notes /\ refusals' = refusals /\ Goto(o, "manifest")
    BY <1>f DEF WriteResult, Cache, Bounds
  <2> DEFINE some == run[o].failed # {}
             n == [op[x] EXCEPT !.result = Covered(o), !.partial = some]
  <2>2. op' = [op EXCEPT ![x] = n]
    BY <1>f, <1>6, <1>1 DEF WriteResult, x, Operations
  <2>3. Covered(o) \subseteq Chunks /\ some \in BOOLEAN
    BY <1>7 DEF Covered
  <2> HIDE DEF some
  <2>4. n \in Operations
    BY <2>3, <1>6 DEF Operations
  <2> HIDE DEF n
  <2>5. op' \in [Ops \X Versions -> Operations]
    BY <2>2, <2>4, <1>1
  <2> QED BY <2>1, <2>5, <1>5, <1>1, <1>a, GotoStep DEF Stages
<1>g. CASE SaveManifest(o)
  <2>1. notes' = notes /\ refusals' = refusals /\ Ends(o)
    BY <1>g DEF SaveManifest, Cache, Bounds
  <2> DEFINE m == IF run[o].failed = {} THEN "completed" ELSE "partial"
             all == (op[x].done \cup Covered(o)) \ run[o].failed
             n == [op[x] EXCEPT !.manifest = m, !.done = all]
  <2>2. op' = [op EXCEPT ![x] = n]
    BY <1>g, <1>6, <1>1 DEF SaveManifest, x, Operations
  <2>3. all \subseteq Chunks /\ m \in {"none", "running", "partial", "completed"}
    BY <1>6, <1>7 DEF Covered
  <2> HIDE DEF m, all
  <2>4. n \in Operations
    BY <2>3, <1>6 DEF Operations
  <2> HIDE DEF n
  <2>5. op' \in [Ops \X Versions -> Operations]
    BY <2>2, <2>4, <1>1
  <2> QED BY <2>1, <2>5, <1>1, <1>a, EndsStep
<1> QED BY <1>b, <1>c, <1>d, <1>e, <1>f, <1>g DEF Operation

LEMMA SummaryTypesStay == TypeInv /\ [SummarizerNext]_summarizerVars => TypeInv'
<1> SUFFICES ASSUME TypeInv, [SummarizerNext]_summarizerVars PROVE TypeInv'
  OBVIOUS
<1> USE SummarizerAssumption
<1>1. /\ file \in Versions /\ run \in [Ops -> Processes]
      /\ \A u \in Ops : Knows(u)
      /\ dir \in [Versions -> [Parts -> Versions \cup {NoVersion}]]
      /\ notes \in [Versions -> SUBSET Chunks]
      /\ op \in [Ops \X Versions -> Operations]
      /\ kills \in 0..MaxKills /\ refusals \in 0..MaxRefusals
  BY DEF TypeInv, SummarizerTypeOK
<1>2. CASE Edit
  <2>1. file' \in Versions
    BY <1>1, <1>2 DEF Edit, Versions
  <2>2. run' = run /\ dir' = dir /\ notes' = notes /\ op' = op /\ kills' = kills
        /\ refusals' = refusals
    BY <1>2 DEF Edit, Cache, Bounds
  <2>3. run' \in [Ops -> Processes] /\ \A u \in Ops : Knows(u)'
    BY <2>2, FileStep
  <2> QED BY <1>1, <2>1, <2>2, <2>3 DEF TypeInv, SummarizerTypeOK
<1>3. ASSUME NEW o \in Ops, BeginRun(o) PROVE TypeInv'
  <2>1. file' = file /\ dir' = dir /\ notes' = notes /\ op' = op /\ kills' = kills
        /\ refusals' = refusals
    BY <1>3 DEF BeginRun, Cache, Bounds
  <2> DEFINE inspect == o \notin Questions
             r == [Idle EXCEPT !.at = "lookup", !.text = file, !.inspect = inspect]
  <2>2. run' = [run EXCEPT ![o] = r]
    BY <1>3 DEF BeginRun
  <2>3. inspect \in BOOLEAN
    OBVIOUS
  <2> HIDE DEF inspect
  <2>4. r \in Processes /\ r.at = "lookup" /\ r.text = file
    BY <1>1, <2>3 DEF Idle, Processes, Stages
  <2> HIDE DEF r
  <2>5. file' \in Versions
    BY <1>1, <2>1
  <2>6. run' \in [Ops -> Processes] /\ \A u \in Ops : Knows(u)'
    BY <1>1, <2>2, <2>4, <2>5, ProcessStep
  <2> QED BY <1>1, <2>1, <2>6 DEF TypeInv, SummarizerTypeOK
<1>4. ASSUME NEW o \in Ops, Kill(o) PROVE TypeInv'
  <2>1. file' = file /\ dir' = dir /\ notes' = notes /\ op' = op /\ Ends(o)
        /\ refusals' = refusals /\ kills' \in 0..MaxKills
    BY <1>1, <1>4 DEF Kill, Cache
  <2>2. run' \in [Ops -> Processes] /\ \A u \in Ops : Knows(u)'
    BY <1>1, <2>1, EndsStep
  <2> QED BY <1>1, <2>1, <2>2 DEF TypeInv, SummarizerTypeOK
<1>5. CASE UNCHANGED summarizerVars
  <2>1. run' = run /\ file' = file /\ dir' = dir /\ notes' = notes /\ op' = op
        /\ kills' = kills /\ refusals' = refusals
    BY <1>5 DEF summarizerVars
  <2>2. run' \in [Ops -> Processes] /\ \A u \in Ops : Knows(u)'
    BY <2>1, FileStep
  <2> QED BY <1>1, <2>1, <2>2 DEF TypeInv, SummarizerTypeOK
<1> QED BY <1>2, <1>3, <1>4, <1>5, DocumentTypes, OperationTypes DEF SummarizerNext

\* The document directories, the files of the operations and their processes stay well
\* formed: a run never mixes an operation with another text (service.py, manifest.py).
THEOREM SummaryTypeCorrect == SummarizerSpec => []SummarizerTypeOK
<1>1. TypeInv => SummarizerTypeOK
  BY DEF TypeInv
<1> QED BY <1>1, SummaryTypes, SummaryTypesStay, PTL DEF SummarizerSpec

-----------------------------------------------------------------------------
\* Results.

LEMMA OthersStay ==
    ASSUME NEW u, RunIsRight(u), run'[u] = run[u],
           op'[<<u, run[u].text>>] = op[<<u, run[u].text>>]
    PROVE  RunIsRight(u)'
<1>1. Mine(u)' = Mine(u) /\ Covered(u)' = Covered(u)
  BY DEF Mine, Covered
<1> QED BY <1>1 DEF RunIsRight, At

LEMMA RightAtFirst == SummarizerInit => FilesInv
<1> SUFFICES ASSUME SummarizerInit PROVE FilesInv
  OBVIOUS
<1>1. ASSUME NEW x \in Ops \X Versions PROVE ManifestIsRight(x)
  BY DEF SummarizerInit, NewOp, ManifestIsRight
<1>2. ASSUME NEW o \in Ops PROVE RunIsRight(o)
  BY DEF SummarizerInit, Idle, RunIsRight, At, Writing
<1> QED BY <1>1, <1>2 DEF FilesInv

\* The steps before the operation: the text stays, nothing has failed, and a question
\* that is answered from the cache covers every chunk.
LEMMA DocumentLeaves ==
    ASSUME TypeInv, NEW o \in Ops, Document(o)
    PROVE  /\ op' = op /\ ~At(o, "idle") /\ run[o].at \notin Writing
           /\ \A u \in Ops \ {o} : run'[u] = run[u]
           /\ run'[o].text = run[o].text /\ run'[o].failed = run[o].failed
           /\ run'[o].at \notin Writing \/ (run'[o].at = "result" /\ run'[o].ok = Chunks)
<1>1. run \in [Ops -> Processes]
  BY DEF TypeInv, SummarizerTypeOK
<1>2. run[o] \in Processes
  BY <1>1
<1>3. ASSUME NEW place, place \notin Writing, Goto(o, place)
      PROVE  /\ \A u \in Ops \ {o} : run'[u] = run[u]
             /\ run'[o].text = run[o].text /\ run'[o].failed = run[o].failed
             /\ run'[o].at \notin Writing
  BY <1>1, <1>2, <1>3 DEF Goto, Processes
<1>4. ASSUME Miss(o)
      PROVE  /\ \A u \in Ops \ {o} : run'[u] = run[u]
             /\ run'[o].text = run[o].text /\ run'[o].failed = run[o].failed
             /\ run'[o].at \notin Writing
  BY <1>1, <1>2, <1>4 DEF Miss, Processes, Writing
<1>a. CASE Lookup(o)
  <2>1. CASE Miss(o)
    BY <1>a, <1>4, <2>1 DEF Lookup, At, Writing
  <2>2. CASE run' = [run EXCEPT ![o].id = file, ![o].at = "physical"]
    BY <1>a, <1>1, <1>2, <2>2 DEF Lookup, At, Writing, Processes
  <2> QED BY <1>a, <2>1, <2>2 DEF Lookup
<1>b. CASE ReadPhysical(o)
  BY <1>b, <1>1, <1>2 DEF ReadPhysical, At, Writing, Processes
<1>c. CASE ReadAnalysis(o)
  <2>1. CASE Miss(o)
    BY <1>c, <1>4, <2>1 DEF ReadAnalysis, At, Writing
  <2>2. CASE Goto(o, "plan")
    BY <1>c, <1>3, <2>2 DEF ReadAnalysis, At, Writing
  <2>3. CASE Goto(o, "answer")
    BY <1>c, <1>3, <2>3 DEF ReadAnalysis, At, Writing
  <2> QED BY <1>c, <2>1, <2>2, <2>3 DEF ReadAnalysis
<1>d. CASE Answer(o)
  <2>1. CASE Miss(o)
    BY <1>d, <1>4, <2>1 DEF Answer, At, Writing
  <2>2. CASE run' = [run EXCEPT ![o].ok = Chunks, ![o].at = "result"]
    BY <1>d, <1>1, <1>2, <2>2 DEF Answer, At, Writing, Processes
  <2> QED BY <1>d, <2>1, <2>2 DEF Answer
<1>e. CASE Parse(o)
  BY <1>e, <1>1, <1>2 DEF Parse, At, Writing, Processes
<1>f. CASE Identify(o)
  BY <1>f, <1>1, <1>2 DEF Identify, At, Writing, Processes
<1>g. CASE Check(o)
  <2>1. CASE Goto(o, "install")
    BY <1>g, <1>3, <2>1 DEF Check, At, Writing
  <2>2. CASE Goto(o, "plan")
    BY <1>g, <1>3, <2>2 DEF Check, At, Writing
  <2> QED BY <1>g, <2>1, <2>2 DEF Check
<1>h. CASE Install(o)
  <2>1. CASE Goto(o, "refused")
    BY <1>h, <1>3, <2>1 DEF Install, At, Writing
  <2>2. CASE Installable(run[o].id)
    <3> DEFINE rest == {x \in Versions \X (Parts \cup {"notes"}) :
                          x[1] # run[o].id /\ dir[x[1]]["physical"] # NoVersion}
    <3>1. run' = [run EXCEPT ![o].at = "evict", ![o].todo = rest]
      BY <1>h, <2>2 DEF Install
    <3> HIDE DEF rest
    <3> QED BY <1>h, <1>1, <1>2, <3>1 DEF Install, At, Writing, Processes
  <2> QED BY <1>h, <2>1, <2>2 DEF Install
<1>i. CASE Evict(o)
  <2>1. CASE Goto(o, "plan")
    BY <1>i, <1>3, <2>1 DEF Evict, At, Writing
  <2>2. CASE \E x \in run[o].todo : run' = [run EXCEPT ![o].todo = @ \ {x}]
    <3>1. PICK x \in run[o].todo : run' = [run EXCEPT ![o].todo = @ \ {x}]
      BY <2>2
    <3>2. run'[o].at = run[o].at
      BY <3>1, <1>1, <1>2 DEF Processes
    <3> QED BY <1>i, <1>1, <1>2, <3>1, <3>2 DEF Evict, At, Writing, Processes
  <2> QED BY <1>i, <2>1, <2>2 DEF Evict
<1> QED BY <1>a, <1>b, <1>c, <1>d, <1>e, <1>f, <1>g, <1>h, <1>i DEF Document

LEMMA DocumentFiles ==
    ASSUME TypeInv, FilesInv, NEW o \in Ops, Document(o)
    PROVE  FilesInv'
<1>1. op' = op /\ ~At(o, "idle") /\ run[o].at \notin Writing
  BY DocumentLeaves
<1>2. \A u \in Ops \ {o} : run'[u] = run[u]
  BY DocumentLeaves
<1>3. run'[o].text = run[o].text /\ run'[o].failed = run[o].failed
  BY DocumentLeaves
<1>4. run'[o].at \notin Writing \/ (run'[o].at = "result" /\ run'[o].ok = Chunks)
  BY DocumentLeaves
<1>5. ASSUME NEW x \in Ops \X Versions PROVE ManifestIsRight(x)'
  BY <1>1 DEF FilesInv, ManifestIsRight
<1>6. RunIsRight(o)
  BY DEF FilesInv
<1>7. RunIsRight(o)'
  <2>1. Mine(o)' = Mine(o)
    BY <1>1, <1>3 DEF Mine
  <2>2. run'[o].failed = {}
    BY <1>1, <1>3, <1>6 DEF RunIsRight, Writing
  <2>3. Mine(o).manifest = "completed" => Chunks = {}
    BY <1>1, <1>6 DEF RunIsRight
  <2>4. Mine(o).done \subseteq Mine(o).parts
    BY <1>1, <1>6 DEF RunIsRight
  <2>5. Mine(o).parts \subseteq Chunks
    <3>1. <<o, run[o].text>> \in Ops \X Versions
      BY <1>1 DEF TypeInv, Knows
    <3> QED BY <3>1 DEF Mine, TypeInv, SummarizerTypeOK, Operations
  <2>6. CASE run'[o].at \notin Writing
    BY <2>1, <2>2, <2>3, <2>4, <2>6 DEF RunIsRight, At, Writing
  <2>7. CASE run'[o].at = "result" /\ run'[o].ok = Chunks
    <3>1. Covered(o)' = Chunks
      BY <2>1, <2>5, <2>7 DEF Covered
    <3> QED BY <2>1, <2>2, <2>3, <2>4, <2>7, <3>1 DEF RunIsRight, At, Writing
  <2> QED BY <1>4, <2>6, <2>7
<1>8. ASSUME NEW u \in Ops \ {o} PROVE RunIsRight(u)'
  <2>1. run'[u] = run[u] /\ RunIsRight(u)
    BY <1>2 DEF FilesInv
  <2>2. op'[<<u, run[u].text>>] = op[<<u, run[u].text>>]
    BY <1>1
  <2> QED BY <2>1, <2>2, OthersStay
<1> QED BY <1>5, <1>7, <1>8 DEF FilesInv

\* A step of the operation changes the files of its own operation and text only.
LEMMA OperationFiles ==
    ASSUME TypeInv, FilesInv, NEW o \in Ops, Operation(o)
    PROVE  FilesInv'
<1>1. ~At(o, "idle") /\ run \in [Ops -> Processes] /\ run[o] \in Processes
      /\ op \in [Ops \X Versions -> Operations] /\ Knows(o)
  BY DEF Operation, Plan, Map, Persist, Reduce, WriteResult, SaveManifest, At,
         TypeInv, SummarizerTypeOK
<1> DEFINE x == <<o, run[o].text>>
<1>2. x \in Ops \X Versions /\ op[x] \in Operations /\ Mine(o) = op[x]
  BY <1>1 DEF Knows, Mine
<1>3. /\ op[x].manifest = "completed" => Chunks = {}
      /\ op[x].done \subseteq op[x].parts
      /\ run[o].at \notin Writing => run[o].failed = {}
      /\ run[o].at \in Writing => Covered(o) \cup run[o].failed = Chunks
      /\ At(o, "reduce") => run[o].ok \subseteq op[x].parts
      /\ run[o].at \in {"result", "manifest"} =>
           run[o].failed = {} \/ run[o].ok \subseteq op[x].parts
      /\ At(o, "manifest") => /\ op[x].result = Covered(o)
                              /\ op[x].partial = (run[o].failed # {})
  BY <1>1, <1>2 DEF FilesInv, RunIsRight, Writing
<1>4. Covered(o) = run[o].ok \cup op[x].parts
  BY <1>2 DEF Covered
<1>5. ManifestIsRight(x)
  BY <1>2 DEF FilesInv
<1>6. op[x].parts \subseteq Chunks /\ op[x].done \subseteq Chunks
  BY <1>2 DEF Operations
\* What remains to be shown, by the file of the operation and the process.
<1>7. ASSUME NEW n, NEW r, op' = [op EXCEPT ![x] = n], run' = [run EXCEPT ![o] = r],
             r.at # "idle" => r.text = run[o].text,
             IF n.manifest = "completed" THEN n.result = Chunks /\ ~n.partial
             ELSE n.done \subseteq n.parts,
             r.at # "idle" => /\ n.manifest = "completed" => Chunks = {}
                              /\ n.done \subseteq n.parts,
             r.at \notin Writing => r.failed = {},
             r.at \in Writing => r.ok \cup n.parts \cup r.failed = Chunks,
             r.at = "reduce" => r.ok \subseteq n.parts,
             r.at \in {"result", "manifest"} => r.failed = {} \/ r.ok \subseteq n.parts,
             r.at = "manifest" => /\ n.result = r.ok \cup n.parts
                                  /\ n.partial = (r.failed # {})
      PROVE  FilesInv'
  <2>1. op'[x] = n /\ run'[o] = r
    BY <1>1, <1>2, <1>7
  <2>2. ASSUME NEW y \in Ops \X Versions PROVE ManifestIsRight(y)'
    <3>1. CASE y = x
      BY <3>1, <2>1, <1>7 DEF ManifestIsRight
    <3>2. CASE y # x
      <4>1. op'[y] = op[y]
        BY <3>2, <1>1, <1>7
      <4> QED BY <4>1 DEF FilesInv, ManifestIsRight
    <3> QED BY <3>1, <3>2
  <2>3. RunIsRight(o)'
    <3>1. CASE r.at = "idle"
      BY <3>1, <2>1, <1>7 DEF RunIsRight, At, Writing
    <3>2. CASE r.at # "idle"
      <4>1. Mine(o)' = n
        BY <3>2, <2>1, <1>7 DEF Mine
      <4>2. Covered(o)' = r.ok \cup n.parts
        BY <4>1, <2>1 DEF Covered
      <4> HIDE DEF x
      <4> QED BY <3>2, <4>1, <4>2, <2>1, <1>7 DEF RunIsRight, At, Writing
    <3> QED BY <3>1, <3>2
  <2>4. ASSUME NEW u \in Ops \ {o} PROVE RunIsRight(u)'
    <3>1. run'[u] = run[u]
      BY <1>1, <1>7
    <3>2. op'[<<u, run[u].text>>] = op[<<u, run[u].text>>]
      BY <1>1, <1>7
    <3> QED BY <3>1, <3>2, OthersStay DEF FilesInv
  <2> QED BY <2>2, <2>3, <2>4 DEF FilesInv
<1> HIDE DEF x
<1>8. op = [op EXCEPT ![x] = op[x]] /\ run = [run EXCEPT ![o] = run[o]]
  BY <1>1
<1>9. Idle.at = "idle" /\ Idle.failed = {}
  BY DEF Idle
<1>a. CASE Plan(o)
  <2> DEFINE m == IF op[x].manifest = "none" THEN "running" ELSE op[x].manifest
             n == [op[x] EXCEPT !.manifest = m]
             r == [run[o] EXCEPT !.at = "map"]
  <2>1. op' = [op EXCEPT ![x] = n] /\ run' = [run EXCEPT ![o] = r]
    BY <1>a DEF Plan, Goto, x
  <2>2. run[o].failed = {}
    BY <1>a, <1>3 DEF Plan, At, Writing
  <2>3. r.at = "map" /\ r.text = run[o].text /\ r.failed = {}
    BY <1>1, <2>2 DEF Processes
  <2>4. n.manifest = m /\ n.done = op[x].done /\ n.parts = op[x].parts
        /\ n.result = op[x].result /\ n.partial = op[x].partial
    BY <1>2 DEF Operations
  <2>5. m = "completed" => op[x].manifest = "completed"
    OBVIOUS
  <2>6. r.at \notin Writing
    BY <2>3 DEF Writing
  <2> HIDE DEF n, r, m
  <2> QED BY <2>1, <2>3, <2>4, <2>5, <2>6, <1>3, <1>5, <1>7 DEF ManifestIsRight
<1>b. CASE Map(o)
  <2>1. PICK failed \in SUBSET Pending(o) :
           run' = [run EXCEPT ![o].ok = Pending(o) \ failed, ![o].failed = failed,
                              ![o].at = "persist"]
    BY <1>b DEF Map
  <2> DEFINE r == [run[o] EXCEPT !.ok = Pending(o) \ failed, !.failed = failed,
                                 !.at = "persist"]
  <2>2. run' = [run EXCEPT ![o] = r]
    BY <2>1, <1>1 DEF Processes
  <2>3. op' = [op EXCEPT ![x] = op[x]]
    BY <1>b, <1>8 DEF Map
  <2>4. r.at = "persist" /\ r.text = run[o].text /\ r.ok = Pending(o) \ failed
        /\ r.failed = failed
    BY <1>1 DEF Processes
  <2>5. Pending(o) = Chunks \ (op[x].done \cup op[x].parts)
    BY <1>2 DEF Pending
  <2>6. r.ok \cup op[x].parts \cup r.failed = Chunks
    BY <2>4, <2>5, <1>3, <1>6
  <2>7. r.at \in Writing
    BY <2>4 DEF Writing
  <2> HIDE DEF r
  <2> QED BY <2>2, <2>3, <2>4, <2>6, <2>7, <1>3, <1>5, <1>7 DEF ManifestIsRight
<1>c. CASE Persist(o)
  <2>1. At(o, "persist")
    BY <1>c DEF Persist
  <2>2. run[o].at = "persist" /\ run[o].ok \cup op[x].parts \cup run[o].failed = Chunks
    BY <2>1, <1>3, <1>4 DEF At, Writing
  <2>3. CASE run[o].ok \ Mine(o).parts = {}
    <3> DEFINE r == [run[o] EXCEPT !.at = "reduce"]
    <3>1. run' = [run EXCEPT ![o] = r]
      BY <1>c, <2>3 DEF Persist, Goto
    <3>2. op' = [op EXCEPT ![x] = op[x]]
      BY <1>c, <2>3, <1>8 DEF Persist
    <3>3. r.at = "reduce" /\ r.text = run[o].text /\ r.ok = run[o].ok
          /\ r.failed = run[o].failed
      BY <1>1 DEF Processes
    <3>4. r.ok \subseteq op[x].parts
      BY <3>3, <2>3, <1>2
    <3>5. r.at \in Writing
      BY <3>3 DEF Writing
    <3> HIDE DEF r
    <3> QED BY <2>2, <3>1, <3>2, <3>3, <3>4, <3>5, <1>3, <1>5, <1>7 DEF ManifestIsRight
  <2>4. CASE run[o].ok \ Mine(o).parts # {}
    <3>1. PICK c \in run[o].ok \ Mine(o).parts :
             /\ op' = [op EXCEPT ![<<o, run[o].text>>].parts = @ \cup {c}]
             /\ run' = run
      BY <1>c, <2>4 DEF Persist
    <3> DEFINE n == [op[x] EXCEPT !.parts = op[x].parts \cup {c}]
    <3>2. op' = [op EXCEPT ![x] = n]
      BY <3>1 DEF x
    <3>3. run' = [run EXCEPT ![o] = run[o]]
      BY <3>1, <1>8
    <3>4. n.manifest = op[x].manifest /\ n.done = op[x].done
          /\ n.parts = op[x].parts \cup {c}
          /\ n.result = op[x].result /\ n.partial = op[x].partial
      BY <1>2 DEF Operations
    <3>5. run[o].ok \cup n.parts \cup run[o].failed = Chunks
      BY <2>2, <3>1, <3>4
    <3>6. n.done \subseteq n.parts
      BY <3>4, <1>3
    <3>7. run[o].at \in Writing
      BY <2>2 DEF Writing
    <3> HIDE DEF n
    <3> QED BY <2>2, <3>2, <3>3, <3>4, <3>5, <3>6, <3>7, <1>3, <1>5, <1>7
            DEF ManifestIsRight
  <2> QED BY <2>3, <2>4
<1>d. CASE Reduce(o)
  <2>1. At(o, "reduce") /\ op' = [op EXCEPT ![x] = op[x]]
    BY <1>d, <1>8 DEF Reduce
  <2>2. run[o].at = "reduce" /\ run[o].ok \cup op[x].parts \cup run[o].failed = Chunks
        /\ run[o].ok \subseteq op[x].parts
    BY <2>1, <1>3, <1>4 DEF At, Writing
  <2>3. CASE Goto(o, "result")
    <3> DEFINE r == [run[o] EXCEPT !.at = "result"]
    <3>1. run' = [run EXCEPT ![o] = r]
      BY <2>3 DEF Goto
    <3>2. r.at = "result" /\ r.text = run[o].text /\ r.ok = run[o].ok
          /\ r.failed = run[o].failed
      BY <1>1 DEF Processes
    <3>3. r.at \in Writing
      BY <3>2 DEF Writing
    <3> HIDE DEF r
    <3> QED BY <2>1, <2>2, <3>1, <3>2, <3>3, <1>3, <1>5, <1>7 DEF ManifestIsRight
  <2>4. CASE Ends(o)
    <3>1. run' = [run EXCEPT ![o] = Idle]
      BY <2>4 DEF Ends
    <3>2. Idle.at \notin Writing
      BY <1>9 DEF Writing
    <3> QED BY <2>1, <3>1, <3>2, <1>9, <1>3, <1>5, <1>7 DEF ManifestIsRight
  <2> QED BY <1>d, <2>3, <2>4 DEF Reduce
<1>e. CASE WriteResult(o)
  <2>1. At(o, "result")
    BY <1>e DEF WriteResult
  <2>2. run[o].at = "result" /\ run[o].ok \cup op[x].parts \cup run[o].failed = Chunks
        /\ (run[o].failed = {} \/ run[o].ok \subseteq op[x].parts)
    BY <2>1, <1>3, <1>4 DEF At, Writing
  <2> DEFINE some == run[o].failed # {}
             n == [op[x] EXCEPT !.result = Covered(o), !.partial = some]
             r == [run[o] EXCEPT !.at = "manifest"]
  <2>3. op' = [op EXCEPT ![x] = n] /\ run' = [run EXCEPT ![o] = r]
    BY <1>e, <1>2, <1>1 DEF WriteResult, Goto, x, Operations
  <2>4. n.manifest = op[x].manifest /\ n.done = op[x].done /\ n.parts = op[x].parts
        /\ n.result = Covered(o) /\ n.partial = some
    BY <1>2 DEF Operations
  <2>5. r.at = "manifest" /\ r.text = run[o].text /\ r.ok = run[o].ok
        /\ r.failed = run[o].failed
    BY <1>1 DEF Processes
  <2>6. r.at \in Writing
    BY <2>5 DEF Writing
  <2>7. n.manifest = "completed" => n.result = Chunks /\ ~n.partial
    <3>1. op[x].manifest = "completed" => Chunks = {}
      BY <1>3
    <3> QED BY <3>1, <2>2, <2>4, <1>4
  <2>8. n.partial = (r.failed # {})
    BY <2>4, <2>5
  <2> HIDE DEF n, r, some
  <2> QED BY <2>2, <2>3, <2>4, <2>5, <2>6, <2>7, <2>8, <1>3, <1>4, <1>7
<1>f. CASE SaveManifest(o)
  <2>1. At(o, "manifest")
    BY <1>f DEF SaveManifest
  <2>2. run[o].at = "manifest" /\ run[o].ok \cup op[x].parts \cup run[o].failed = Chunks
        /\ (run[o].failed = {} \/ run[o].ok \subseteq op[x].parts)
        /\ op[x].result = Covered(o) /\ op[x].partial = (run[o].failed # {})
    BY <2>1, <1>3, <1>4 DEF At, Writing
  <2> DEFINE m == IF run[o].failed = {} THEN "completed" ELSE "partial"
             all == (op[x].done \cup Covered(o)) \ run[o].failed
             n == [op[x] EXCEPT !.manifest = m, !.done = all]
  <2>3. op' = [op EXCEPT ![x] = n]
    BY <1>f, <1>2, <1>1 DEF SaveManifest, x, Operations
  <2>4. run' = [run EXCEPT ![o] = Idle]
    BY <1>f DEF SaveManifest, Ends
  <2>5. n.manifest = m /\ n.done = all /\ n.parts = op[x].parts
        /\ n.result = op[x].result /\ n.partial = op[x].partial
    BY <1>2 DEF Operations
  <2>6. m = "completed" => n.result = Chunks /\ ~n.partial
    BY <2>2, <2>5, <1>4
  <2>7. m # "completed" => n.done \subseteq n.parts
    BY <2>2, <2>5, <1>3, <1>4
  <2>8. Idle.at \notin Writing
    BY <1>9 DEF Writing
  <2> HIDE DEF n, m, all
  <2> QED BY <2>3, <2>4, <2>5, <2>6, <2>7, <2>8, <1>9, <1>7
<1> QED BY <1>a, <1>b, <1>c, <1>d, <1>e, <1>f DEF Operation

LEMMA FilesStay == TypeInv /\ FilesInv /\ [SummarizerNext]_summarizerVars => FilesInv'
<1> SUFFICES ASSUME TypeInv, FilesInv, [SummarizerNext]_summarizerVars PROVE FilesInv'
  OBVIOUS
<1>1. run \in [Ops -> Processes] /\ op \in [Ops \X Versions -> Operations]
      /\ file \in Versions
  BY DEF TypeInv, SummarizerTypeOK
<1>2. ASSUME run' = run, op' = op PROVE FilesInv'
  <2>1. ASSUME NEW x \in Ops \X Versions PROVE ManifestIsRight(x)'
    BY <1>2 DEF FilesInv, ManifestIsRight
  <2>2. ASSUME NEW o \in Ops PROVE RunIsRight(o)'
    BY <1>2, OthersStay DEF FilesInv
  <2> QED BY <2>1, <2>2 DEF FilesInv
<1>3. CASE Edit
  BY <1>2, <1>3 DEF Edit
<1>4. ASSUME NEW o \in Ops, BeginRun(o) PROVE FilesInv'
  <2> DEFINE r == [Idle EXCEPT !.at = "lookup", !.text = file,
                               !.inspect = o \notin Questions]
  <2>1. op' = op /\ run' = [run EXCEPT ![o] = r]
        /\ ~(op[<<o, file>>].manifest = "completed" /\ op[<<o, file>>].result # {})
    BY <1>4 DEF BeginRun
  <2>2. r.at = "lookup" /\ r.text = file /\ r.failed = {}
    BY DEF Idle
  <2> HIDE DEF r
  <2>3. run'[o] = r
    BY <2>1, <1>1
  <2>4. Mine(o)' = op[<<o, file>>]
    BY <2>1, <2>2, <2>3 DEF Mine
  <2>5. ManifestIsRight(<<o, file>>) /\ op[<<o, file>>] \in Operations
    BY <1>1 DEF FilesInv
  <2>6. op[<<o, file>>].manifest = "completed" =>
          Chunks = {} /\ op[<<o, file>>].done = {}
    <3>1. op[<<o, file>>].done \subseteq Chunks
      BY <2>5 DEF Operations
    <3> QED BY <2>1, <2>5, <3>1 DEF ManifestIsRight
  <2>7. op[<<o, file>>].done \subseteq op[<<o, file>>].parts
    BY <2>5, <2>6 DEF ManifestIsRight
  <2>8. RunIsRight(o)'
    BY <2>2, <2>3, <2>4, <2>6, <2>7 DEF RunIsRight, At, Writing
  <2>9. ASSUME NEW u \in Ops \ {o} PROVE RunIsRight(u)'
    BY <2>1, <1>1, OthersStay DEF FilesInv
  <2>10. ASSUME NEW x \in Ops \X Versions PROVE ManifestIsRight(x)'
    BY <2>1 DEF FilesInv, ManifestIsRight
  <2> QED BY <2>8, <2>9, <2>10 DEF FilesInv
<1>5. ASSUME NEW o \in Ops, Kill(o) PROVE FilesInv'
  <2>1. op' = op /\ run' = [run EXCEPT ![o] = Idle]
    BY <1>5 DEF Kill, Ends
  <2>2. run'[o] = Idle
    BY <2>1, <1>1
  <2>3. RunIsRight(o)'
    BY <2>2 DEF RunIsRight, At, Idle, Writing
  <2>4. ASSUME NEW u \in Ops \ {o} PROVE RunIsRight(u)'
    BY <2>1, <1>1, OthersStay DEF FilesInv
  <2>5. ASSUME NEW x \in Ops \X Versions PROVE ManifestIsRight(x)'
    BY <2>1 DEF FilesInv, ManifestIsRight
  <2> QED BY <2>3, <2>4, <2>5 DEF FilesInv
<1>6. CASE UNCHANGED summarizerVars
  BY <1>2, <1>6 DEF summarizerVars
<1> QED BY <1>3, <1>4, <1>5, <1>6, DocumentFiles, OperationFiles DEF SummarizerNext

\* A manifest that says "completed" stands for a result that covers every chunk, over
\* runs that died between any two of its files, batches that failed and documents that
\* changed (map_reduce.py, execution_orchestration.py, manifest.py).
THEOREM ResultsAreWhole == SummarizerSpec => []CompletedIsWhole
<1>1. SummarizerInit => SummarizerInv
  BY SummaryTypes, RightAtFirst DEF SummarizerInv
<1>2. SummarizerInv /\ [SummarizerNext]_summarizerVars => SummarizerInv'
  BY SummaryTypesStay, FilesStay DEF SummarizerInv
<1>3. SummarizerInv => CompletedIsWhole
  <2> SUFFICES ASSUME SummarizerInv PROVE CompletedIsWhole
    OBVIOUS
  <2>1. DOMAIN op = Ops \X Versions
    BY DEF SummarizerInv, TypeInv, SummarizerTypeOK
  <2> QED BY <2>1 DEF SummarizerInv, FilesInv, ManifestIsRight, CompletedIsWhole
<1> QED BY <1>1, <1>2, <1>3, PTL DEF SummarizerSpec

=============================================================================
