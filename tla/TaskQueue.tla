------------------------------ MODULE TaskQueue ------------------------------
(***************************************************************************)
(* What PostgresChannel promises to the web application that shares its    *)
(* table: a queue of messages, each served one at a time per chat and      *)
(* answered at most once.  Claims, leases, retries and processes do not    *)
(* appear here; PgChannel shows how they implement it.                     *)
(***************************************************************************)
EXTENDS Naturals

CONSTANTS Tasks, ChatOf

VARIABLES
    phase,    \* what the user sees of the message
    replies   \* finished answers to it

vars == <<phase, replies>>

Serving == {t \in Tasks : phase[t] = "serving"}

Init ==
    /\ phase = [t \in Tasks |-> "absent"]
    /\ replies = [t \in Tasks |-> 0]

\* The user asks.
Ask(t) ==
    /\ phase[t] = "absent"
    /\ phase' = [phase EXCEPT ![t] = "waiting"]
    /\ UNCHANGED replies

\* The user takes the question back.
Withdraw(t) ==
    /\ phase[t] \in {"waiting", "serving"}
    /\ phase' = [phase EXCEPT ![t] = "withdrawn"]
    /\ UNCHANGED replies

\* The oldest open work of a chat is taken up; a chat has one at a time.
Serve(t) ==
    /\ phase[t] = "waiting"
    /\ \A u \in Serving : ChatOf[u] # ChatOf[t]
    /\ phase' = [phase EXCEPT ![t] = "serving"]
    /\ UNCHANGED replies

\* The one and only answer, written together with the status.
Answer(t) ==
    /\ phase[t] = "serving"
    /\ phase' = [phase EXCEPT ![t] = "answered"]
    /\ replies' = [replies EXCEPT ![t] = @ + 1]

\* Work that was interrupted goes back to the queue or is given up.
Interrupt(back, lost) ==
    /\ back \cup lost \subseteq Serving
    /\ back \cap lost = {}
    /\ phase' = [t \in Tasks |-> IF t \in back THEN "waiting"
                                 ELSE IF t \in lost THEN "abandoned"
                                 ELSE phase[t]]
    /\ UNCHANGED replies

Next ==
    \/ \E t \in Tasks : Ask(t) \/ Withdraw(t) \/ Serve(t) \/ Answer(t)
    \/ \E back, lost \in SUBSET Serving : Interrupt(back, lost)

Spec == Init /\ [][Next]_vars

=============================================================================
