--------------------------- MODULE OrderContract ---------------------------
(***************************************************************************)
(* What an order and its money promise the customer and the back office,  *)
(* with the payment rows, the webhooks and the locks left out:             *)
(*                                                                         *)
(*   - an order waits for money, is confirmed, is dispatched and is        *)
(*     closed, in that order and never backwards;                          *)
(*   - money is collected at most once for an order, and the step that     *)
(*     records it confirms an order that was waiting for it;               *)
(*   - money may still arrive for an order that no longer waits: it is     *)
(*     recorded and the order does not move.                               *)
(*                                                                         *)
(* OrderPayments implements this specification (ContractSpec there).       *)
(***************************************************************************)
CONSTANT Orders

VARIABLES stage, collected

cvars == <<stage, collected>>

Stages == {"unplaced", "awaiting", "confirmed", "dispatched", "closed"}

Init ==
    /\ stage = [o \in Orders |-> "unplaced"]
    /\ collected = {}

Place(o) ==
    /\ stage[o] = "unplaced"
    /\ stage' = [stage EXCEPT ![o] = "awaiting"]
    /\ UNCHANGED collected

CollectAndConfirm(o) ==
    /\ o \notin collected
    /\ stage[o] = "awaiting"
    /\ stage' = [stage EXCEPT ![o] = "confirmed"]
    /\ collected' = collected \cup {o}

CollectLate(o) ==
    /\ o \notin collected
    /\ stage[o] \in {"confirmed", "dispatched", "closed"}
    /\ collected' = collected \cup {o}
    /\ UNCHANGED stage

\* The back office may confirm an order without a payment, and may close one.
Successors ==
    [awaiting   |-> {"confirmed", "closed"},
     confirmed  |-> {"dispatched", "closed"},
     dispatched |-> {"closed"}]

Advance(o) ==
    /\ stage[o] \in {"awaiting", "confirmed", "dispatched"}
    /\ \E next \in Successors[stage[o]] :
          stage' = [stage EXCEPT ![o] = next]
    /\ UNCHANGED collected

Next ==
    \E o \in Orders :
        Place(o) \/ CollectAndConfirm(o) \/ CollectLate(o) \/ Advance(o)

Spec == Init /\ [][Next]_cvars
=============================================================================
