------------------------- MODULE OrderStateMachine -------------------------
(***************************************************************************)
(* The order state machine of apps/orders/state_machine.py: the statuses,  *)
(* the permitted transitions and the checks transition_order makes on the  *)
(* row it has locked.  Pure operators; the modules that move orders        *)
(* (OrderPayments, Checkout) instantiate the state.                        *)
(***************************************************************************)

\* Statuses a tailor or a stylist sees in the operator API.
AtelierStatuses ==
    {"measurement_review", "in_atelier", "stitching", "quality_check"}

\* From the moment the goods are boxed until they are refunded.
DispatchedStatuses ==
    {"packed", "shipped", "delivered", "return_requested", "returned"}

TerminalStatuses == {"refunded", "cancelled"}

Statuses ==
    {"draft", "placed", "payment_confirmed"}
        \cup AtelierStatuses \cup DispatchedStatuses \cup TerminalStatuses

\* Mutant: tailoring may begin before the order is paid.
AllowedTransitionsEager ==
    [s \in Statuses |->
        CASE s = "draft"              -> {"placed", "cancelled"}
          [] s = "placed"             -> {"payment_confirmed", "in_atelier",
                                          "cancelled"}
          [] s = "payment_confirmed"  -> {"in_atelier", "packed", "cancelled"}
          [] s = "in_atelier"         -> {"stitching", "cancelled"}
          [] s = "stitching"          -> {"quality_check", "cancelled"}
          [] s = "quality_check"      -> {"packed", "stitching"}
          [] s = "packed"             -> {"shipped"}
          [] OTHER                    -> {}]

AllowedTransitions ==
    [s \in Statuses |->
        CASE s = "draft"              -> {"placed", "cancelled"}
          [] s = "placed"             -> {"payment_confirmed", "cancelled"}
          [] s = "payment_confirmed"  -> {"in_atelier", "measurement_review",
                                          "packed", "cancelled"}
          [] s = "measurement_review" -> {"in_atelier", "cancelled"}
          [] s = "in_atelier"         -> {"stitching", "measurement_review",
                                          "cancelled"}
          [] s = "stitching"          -> {"quality_check", "cancelled"}
          [] s = "quality_check"      -> {"packed", "stitching"}
          [] s = "packed"             -> {"shipped"}
          [] s = "shipped"            -> {"delivered"}
          [] s = "delivered"          -> {"return_requested"}
          [] s = "return_requested"   -> {"returned", "delivered"}
          [] s = "returned"           -> {"refunded"}
          [] OTHER                    -> {}]

CanTransition(current, target) == target \in AllowedTransitions[current]

\* transition_order raises IllegalTransition unless all four hold.
Accepts(current, target) ==
    /\ current # target
    /\ current \notin TerminalStatuses
    /\ CanTransition(current, target)
    /\ target = "refunded" => current = "returned"
=============================================================================
