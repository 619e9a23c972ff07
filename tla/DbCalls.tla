------------------------------- MODULE DbCalls -------------------------------
(***************************************************************************)
(* What a caller of utils.db may rely on: between a call and its return    *)
(* the work of the call takes effect as a whole or not at all, and a call  *)
(* that returns without an error has taken effect.  An error says nothing  *)
(* about the effect, except that a call that rolls back had none.          *)
(***************************************************************************)
CONSTANT Clients

VARIABLES
    phase,  \* "idle", "calling", or how the last call ended
    effect  \* "none", "some", "all": what is durable of the call

calls == <<phase, effect>>

Ended == {"idle", "returned", "raised", "undone"}

Call(c) ==
    /\ phase[c] \in Ended
    /\ phase' = [phase EXCEPT ![c] = "calling"]
    /\ effect' = [effect EXCEPT ![c] = "none"]

TakeEffect(c) ==
    /\ phase[c] = "calling"
    /\ effect[c] = "none"
    /\ effect' = [effect EXCEPT ![c] = "all"]
    /\ UNCHANGED phase

Return(c, how) ==
    /\ phase[c] = "calling"
    /\ how = "returned" => effect[c] = "all"
    /\ how = "undone" => effect[c] = "none"
    /\ phase' = [phase EXCEPT ![c] = how]
    /\ UNCHANGED effect

Init ==
    /\ phase = [c \in Clients |-> "idle"]
    /\ effect = [c \in Clients |-> "none"]

Next ==
    \E c \in Clients :
      \/ Call(c) \/ TakeEffect(c)
      \/ \E how \in Ended \ {"idle"} : Return(c, how)

Spec == Init /\ [][Next]_calls

=============================================================================
