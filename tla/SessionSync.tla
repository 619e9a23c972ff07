----------------------------- MODULE SessionSync -----------------------------
(***************************************************************************)
(* SessionColdSyncService (lib/services/session_cold_sync_service.py): the *)
(* thread that copies the sessions of a gateway, JSONL files on its disk,  *)
(* to the tables agent_session_meta and agent_session_messages.            *)
(*                                                                         *)
(* A step is a transaction of utils.db or a read of the disk.  A session   *)
(* is represented by its updated_at, here the number of the save that made *)
(* it: equal times mean equal content.                                     *)
(***************************************************************************)
EXTENDS Integers, FiniteSets

CONSTANTS
    Gateways,   \* the gateway processes, each with sessions of its own
    NumKeys,    \* session keys, numbered in their sorted order
    MaxSaves,   \* bound: saves of sessions
    MaxFaults,  \* bound: calls that raise
    MaxStops    \* bound: gateways that stop or die

ASSUME ConstantsAssumption ==
    NumKeys \in Nat /\ MaxSaves \in Nat /\ MaxFaults \in Nat /\ MaxStops \in Nat

Keys == 1..NumKeys
Times == 0..MaxSaves  \* 0: there is no such session, no such row

VARIABLES
    disk,      \* updated_at of the session files of every gateway
    meta,      \* updated_at in agent_session_meta
    messages,  \* the session whose messages agent_session_messages holds
    cycle,     \* where the sync cycle of a gateway is, and its local variables
    mode,      \* "on", "stopping" (stop() was called), "final" (its last
               \* cycle), "off"
    saves, faults, stops

tables == <<meta, messages>>
bounds == <<saves, faults, stops>>
vars == <<disk, meta, messages, cycle, mode, saves, faults, stops>>

Places == {"idle", "locked", "list", "next", "read", "meta", "messages",
           "cleanup", "delete"}
Cycles == [at : Places, todo : SUBSET Keys, listed : SUBSET Keys,
           key : Keys \cup {0}, snapshot : Times, gone : SUBSET Keys]
NoCycle == [at |-> "idle", todo |-> {}, listed |-> {}, key |-> 0,
            snapshot |-> 0, gone |-> {}]

\* A cycle that writes has a session in hand; only its cleanup has keys to
\* remove, and none that it has listed.
TypeOK ==
    /\ disk \in [Gateways -> [Keys -> Times]]
    /\ meta \in [Keys -> Times] /\ messages \in [Keys -> Times]
    /\ cycle \in [Gateways -> Cycles]
    /\ \A g \in Gateways : /\ cycle[g].at \in {"read", "meta", "messages"} =>
                                cycle[g].key \in Keys /\ cycle[g].snapshot # 0
                           /\ cycle[g].gone # {} => cycle[g].at = "delete"
                           /\ cycle[g].gone \cap cycle[g].listed = {}
    /\ mode \in [Gateways -> {"on", "stopping", "final", "off"}]
    /\ saves \in Times /\ faults \in 0..MaxFaults /\ stops \in 0..MaxStops

-----------------------------------------------------------------------------
\* The agent and the user of a gateway: SessionManager of the agent library.

Save(g, k) ==
    /\ mode[g] # "off"
    /\ saves < MaxSaves
    /\ saves' = saves + 1
    /\ disk' = [disk EXCEPT ![g][k] = saves + 1]
    /\ UNCHANGED <<tables, cycle, mode, faults, stops>>

DeleteSession(g, k) ==
    /\ mode[g] # "off"
    /\ disk[g][k] # 0
    /\ disk' = [disk EXCEPT ![g][k] = 0]
    /\ UNCHANGED <<tables, cycle, mode, bounds>>

-----------------------------------------------------------------------------
\* One cycle, _do_sync_batch.

\* The cycle returns or raises.  After the cycle that stop() runs, the
\* process goes on to exit.
EndCycle(g) ==
    /\ cycle' = [cycle EXCEPT ![g] = NoCycle]
    /\ mode' = [mode EXCEPT ![g] = IF @ = "final" THEN "off" ELSE @]

\* The thread runs a cycle; so does stop(), when the thread is between cycles.
Due(g) == cycle[g].at = "idle" /\ mode[g] \in {"on", "stopping"}
Begin(g) == mode' = [mode EXCEPT ![g] = IF @ = "stopping" THEN "final" ELSE @]

\* pg_try_advisory_xact_lock: held until the transaction around it ends ...  A
\* cycle that does not get it is over at once.
TryLock(g) ==
    /\ Due(g)
    /\ IF \A h \in Gateways : cycle[h].at # "locked"
       THEN cycle' = [cycle EXCEPT ![g].at = "locked"] /\ Begin(g)
       ELSE /\ mode' = [mode EXCEPT ![g] = IF @ = "stopping" THEN "off" ELSE @]
            /\ UNCHANGED cycle
    /\ UNCHANGED <<disk, tables, bounds>>

\* ... and that is before the cycle reads the first session.
Unlock(g) ==
    /\ cycle[g].at = "locked"
    /\ cycle' = [cycle EXCEPT ![g].at = "list"]
    /\ UNCHANGED <<disk, tables, mode, bounds>>

\* Variant: a listing that fails is taken for an empty one.
ListOrNothing(g) ==
    /\ cycle[g].at = "list"
    /\ \E found \in {{}, {k \in Keys : disk[g][k] # 0}} :
         cycle' = [cycle EXCEPT ![g].at = "next", ![g].todo = found,
                                ![g].listed = found]
    /\ UNCHANGED <<disk, tables, mode, bounds>>

\* _read_upstream.
List(g) ==
    /\ cycle[g].at = "list"
    /\ LET found == {k \in Keys : disk[g][k] # 0} IN
       cycle' = [cycle EXCEPT ![g].at = "next", ![g].todo = found,
                              ![g].listed = found]
    /\ UNCHANGED <<disk, tables, mode, bounds>>

\* stop() has cleared _running: return before the next session.
Halted(g) ==
    /\ cycle[g].at = "next"
    /\ cycle[g].todo # {}
    /\ mode[g] # "on"
    /\ EndCycle(g)
    /\ UNCHANGED <<disk, tables, bounds>>

\* Variant: the snapshot of a deleted session is not recognised.
TakeAnyway(g) ==
    /\ cycle[g].at = "next"
    /\ mode[g] = "on"
    /\ \E k \in cycle[g].todo :
         /\ \A j \in cycle[g].todo : k <= j
         /\ cycle' = [cycle EXCEPT ![g].at = "read", ![g].todo = @ \ {k},
                                   ![g].key = k, ![g].snapshot = disk[g][k]]
    /\ UNCHANGED <<disk, tables, mode, bounds>>

\* read_session_snapshot of the next key; None if it was deleted since.
Take(g) ==
    /\ cycle[g].at = "next"
    /\ mode[g] = "on"
    /\ \E k \in cycle[g].todo :
         /\ \A j \in cycle[g].todo : k <= j
         /\ IF disk[g][k] = 0 THEN cycle' = [cycle EXCEPT ![g].todo = @ \ {k}]
            ELSE cycle' = [cycle EXCEPT ![g].at = "read", ![g].todo = @ \ {k},
                                        ![g].key = k, ![g].snapshot = disk[g][k]]
    /\ UNCHANGED <<disk, tables, mode, bounds>>

\* read_session_snapshot raises: the session is passed over.
Unreadable(g) ==
    /\ cycle[g].at = "next"
    /\ mode[g] = "on"
    /\ faults < MaxFaults
    /\ faults' = faults + 1
    /\ \E k \in cycle[g].todo :
         /\ \A j \in cycle[g].todo : k <= j
         /\ cycle' = [cycle EXCEPT ![g].todo = @ \ {k}]
    /\ UNCHANGED <<disk, tables, mode, saves, stops>>

\* Variant: the test for a missing row is the wrong way round.
ReadRowInverted(g) ==
    /\ cycle[g].at = "read"
    /\ IF meta[cycle[g].key] # 0
       THEN cycle' = [cycle EXCEPT ![g].at = "meta"] /\ UNCHANGED mode
       ELSE EndCycle(g)
    /\ UNCHANGED <<disk, tables, bounds>>

\* _read_pg_updated_at returns the column of the row, and its caller asks that
\* value for .get("updated_at"): if there is a row, the cycle raises.
ReadRow(g) ==
    /\ cycle[g].at = "read"
    /\ IF meta[cycle[g].key] = 0
       THEN cycle' = [cycle EXCEPT ![g].at = "meta"] /\ UNCHANGED mode
       ELSE EndCycle(g)
    /\ UNCHANGED <<disk, tables, bounds>>

\* _upsert_meta: UPDATE .. WHERE updated_at < the new one, else INSERT if
\* there is no row.
UpsertMeta(g) ==
    LET c == cycle[g] IN
    /\ c.at = "meta"
    /\ meta' = [meta EXCEPT ![c.key] = IF @ < c.snapshot THEN c.snapshot ELSE @]
    /\ cycle' = [cycle EXCEPT ![g].at = "messages"]
    /\ UNCHANGED <<disk, messages, mode, bounds>>

\* _replace_messages, whether or not the row of the session was written.
ReplaceMessages(g) ==
    LET c == cycle[g] IN
    /\ c.at = "messages"
    /\ messages' = [messages EXCEPT ![c.key] = c.snapshot]
    /\ cycle' = [cycle EXCEPT ![g].at = "next"]
    /\ UNCHANGED <<disk, meta, mode, bounds>>

\* After the last session _cleanup_missing selects the keys of all rows ...
Listed(g) ==
    /\ cycle[g].at = "next"
    /\ cycle[g].todo = {}
    /\ cycle' = [cycle EXCEPT ![g].at = "cleanup"]
    /\ UNCHANGED <<disk, tables, mode, bounds>>

CleanupSelect(g) ==
    /\ cycle[g].at = "cleanup"
    /\ LET gone == {k \in Keys : meta[k] # 0} \ cycle[g].listed IN
       IF gone = {} THEN EndCycle(g)
       ELSE /\ cycle' = [cycle EXCEPT ![g].at = "delete", ![g].gone = gone]
            /\ UNCHANGED mode
    /\ UNCHANGED <<disk, tables, bounds>>

\* Variant: the messages of a removed session stay.
CleanupDeleteMeta(g) ==
    /\ cycle[g].at = "delete"
    /\ meta' = [k \in Keys |-> IF k \in cycle[g].gone THEN 0 ELSE meta[k]]
    /\ EndCycle(g)
    /\ UNCHANGED <<disk, messages, bounds>>

\* ... and removes those it has not listed.
CleanupDelete(g) ==
    /\ cycle[g].at = "delete"
    /\ meta' = [k \in Keys |-> IF k \in cycle[g].gone THEN 0 ELSE meta[k]]
    /\ messages' = [k \in Keys |-> IF k \in cycle[g].gone THEN 0 ELSE messages[k]]
    /\ EndCycle(g)
    /\ UNCHANGED <<disk, bounds>>

\* A call raises, perhaps after its COMMIT took effect.  _worker logs it and waits for the next cycle; in
\* _cleanup_missing it is swallowed, and only a count of rows would follow.
CycleRaises(g) ==
    /\ cycle[g].at # "idle"
    /\ faults < MaxFaults
    /\ faults' = faults + 1
    /\ EndCycle(g)
    /\ UNCHANGED <<disk, tables, saves, stops>>

-----------------------------------------------------------------------------
\* Start and stop of the gateway.

Stop(g) ==
    /\ mode[g] = "on"
    /\ stops < MaxStops
    /\ stops' = stops + 1
    /\ mode' = [mode EXCEPT ![g] = "stopping"]
    /\ UNCHANGED <<disk, tables, cycle, saves, faults>>

\* The process dies, or stop() gives up waiting and the daemon thread dies
\* with the process.
Crash(g) ==
    /\ mode[g] # "off"
    /\ stops < MaxStops
    /\ stops' = stops + 1
    /\ mode' = [mode EXCEPT ![g] = "off"]
    /\ cycle' = [cycle EXCEPT ![g] = NoCycle]
    /\ UNCHANGED <<disk, tables, saves, faults>>

Start(g) ==
    /\ mode[g] = "off"
    /\ mode' = [mode EXCEPT ![g] = "on"]
    /\ UNCHANGED <<disk, tables, cycle, bounds>>

-----------------------------------------------------------------------------
Init ==
    /\ disk = [g \in Gateways |-> [k \in Keys |-> 0]]
    /\ meta = [k \in Keys |-> 0]
    /\ messages = [k \in Keys |-> 0]
    /\ cycle = [g \in Gateways |-> NoCycle]
    /\ mode = [g \in Gateways |-> "on"]
    /\ saves = 0 /\ faults = 0 /\ stops = 0

Sync(g) ==
    \/ TryLock(g) \/ Unlock(g) \/ List(g) \/ Halted(g) \/ Take(g) \/ ReadRow(g)
    \/ UpsertMeta(g) \/ ReplaceMessages(g)
    \/ Listed(g) \/ CleanupSelect(g) \/ CleanupDelete(g)

Next ==
    \E g \in Gateways :
      \/ Sync(g) \/ Unreadable(g) \/ CycleRaises(g)
      \/ Stop(g) \/ Crash(g) \/ Start(g)
      \/ \E k \in Keys : Save(g, k) \/ DeleteSession(g, k)

Spec == Init /\ [][Next]_vars

\* The thread runs one cycle after the other, and a supervisor starts the
\* process again.
FairSpec ==
    Spec /\ \A g \in Gateways : WF_vars(Sync(g)) /\ WF_vars(Start(g))

-----------------------------------------------------------------------------
\* Properties.

\* The two tables are written by two transactions, and yet the messages of a
\* session are those its row announces, or there are none yet; messages
\* without a row never exist.
RowsAgree == \A k \in Keys : messages[k] \in {0, meta[k]}

\* A step removes the row of a session only if no disk has the session as new.
RemovesOldRowsOnly ==
    \A k \in Keys : meta[k] # 0 /\ meta'[k] = 0 =>
      \A g \in Gateways : disk[g][k] # meta[k]

\* The cleanup compares with a listing made at the start of the cycle, and yet
\* the row of a session that is as new as the file is never removed.
UpToDateRowKept == [][RemovesOldRowsOnly]_vars

\* While nothing has been copied yet, something will be, over failing calls,
\* stops and deaths.
FirstSessionArrives ==
    \A g \in Gateways :
      (\E k \in Keys : disk[g][k] # 0) ~>
      (\E k \in Keys : meta[k] # 0) \/ (\A k \in Keys : disk[g][k] = 0)

\* Last write wins: a session that is not saved again is copied as it is.
MirrorCatchesUp ==
    \A g \in Gateways, k \in Keys, v \in Times \ {0} :
      disk[g][k] = v ~> messages[k] = v \/ disk[g][k] # v

=============================================================================
