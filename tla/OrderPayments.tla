--------------------------- MODULE OrderPayments ---------------------------
(***************************************************************************)
(* Collecting the money for placed orders: apps/payments/services.py, the  *)
(* payment views and the operator transition endpoint of                   *)
(* apps/orders/views.py, over PostgreSQL rows and a payment provider that  *)
(* delivers its webhooks at least once, late and in any order.             *)
(*                                                                         *)
(* A database transaction is one action, except where the code holds a row *)
(* lock across a slow call: initiate() talks to the provider while it      *)
(* holds the order row, so that handler is two actions and every other     *)
(* handler that needs the row waits.  A crash or an exception before the   *)
(* commit rolls the transaction back and shows as no step, or as           *)
(* InitiateAborts when the provider has already been asked.  An operator   *)
(* request reads the order before it locks it: two actions as well.        *)
(***************************************************************************)
EXTENDS OrderStateMachine, Naturals, Sequences

CONSTANTS
    Orders,         \* orders checkout may place
    ProviderOrders, \* ids the provider may give its own orders
    Foreign,        \* ids other systems raised on the same merchant account
    Sessions,       \* customer requests opening a payment
    Operators,      \* people using the operator endpoint
    BackOffice,     \* those of them who are staff or admin
    Amounts,        \* amounts in minor units
    GrandTotal,     \* the total of each order, frozen at placement
    NoOrder,        \* what a request that holds no order holds
    MaxEvents,      \* bound: audit events after which operators stop
    MaxAttempts     \* bound: card attempts per provider order

ASSUME ConstantsAssumption ==
    /\ Foreign \subseteq ProviderOrders
    /\ BackOffice \subseteq Operators
    /\ GrandTotal \in [Orders -> Amounts]
    /\ NoOrder \notin Orders
    /\ MaxEvents \in Nat
    /\ MaxAttempts \in Nat

VARIABLES
    status,   \* Order.status; "draft" until checkout's transaction commits
    trail,    \* OrderEvent rows of each order, oldest first
    payment,  \* Payment rows by their unique provider_order_id
    ledger,   \* PaymentWebhookEvent rows: the webhooks accepted so far
    calling,  \* the order each session's initiate() holds while it calls out
    request,  \* what get_object() gave each operator's request
    issued,   \* the provider: ids it has given out
    attempts, \* the provider: card attempts made against each of its orders
    sent      \* the provider: webhook events it will deliver, repeatedly

orderVars    == <<status, trail>>
shopVars     == <<payment, ledger>>
providerVars == <<issued, attempts, sent>>
vars == <<status, trail, payment, ledger, calling, request,
          issued, attempts, sent>>

PaymentStatuses == {"created", "captured", "failed"}
CaptureEvents   == {"payment.captured", "order.paid"}
FailureEvents   == {"payment.failed"}
Causes          == {"checkout", "operator", "capture"}

WebhookEvents ==
    [type : CaptureEvents \cup FailureEvents, po : ProviderOrders,
     attempt : 1..MaxAttempts, amount : Amounts]

AuditEvents == [from : Statuses, to : Statuses, cause : Causes]

NoPayment == [order |-> NoOrder, status |-> "absent"]

PaymentRows == [order : Orders, status : PaymentStatuses]

OrderCopies == [order : Orders, status : Statuses]

NoRequest == [order |-> NoOrder, status |-> "draft"]

TypeOK ==
    /\ status \in [Orders -> Statuses]
    /\ trail \in [Orders -> Seq(AuditEvents)]
    /\ payment \in [ProviderOrders -> PaymentRows \cup {NoPayment}]
    /\ ledger \subseteq WebhookEvents
    /\ calling \in [Sessions -> Orders \cup {NoOrder}]
    /\ request \in [Operators -> OrderCopies \cup {NoRequest}]
    /\ issued \subseteq ProviderOrders
    /\ attempts \in [ProviderOrders -> 0..MaxAttempts]
    /\ sent \subseteq WebhookEvents

Init ==
    /\ status = [o \in Orders |-> "draft"]
    /\ trail = [o \in Orders |-> <<>>]
    /\ payment = [p \in ProviderOrders |-> NoPayment]
    /\ ledger = {}
    /\ calling = [s \in Sessions |-> NoOrder]
    /\ request = [w \in Operators |-> NoRequest]
    /\ issued = Foreign
    /\ attempts = [p \in ProviderOrders |-> 0]
    /\ sent = {}

----------------------------------------------------------------------------
(* Rows and locks. *)

HasPayment(p) == payment[p].status # "absent"

Captured(p) == payment[p].status = "captured"

PaymentsOf(o) == {p \in ProviderOrders : payment[p].order = o}

\* SELECT ... FOR UPDATE on the order row waits while initiate() holds it.
Locked(o) == \E s \in Sessions : calling[s] = o

Idle(s) == calling[s] = NoOrder

\* transition_order after its checks: the status and its audit event, in one
\* transaction.
Move(o, target, cause) ==
    /\ status' = [status EXCEPT ![o] = target]
    /\ trail' = [trail EXCEPT ![o] = Append(@,
                    [from |-> status[o], to |-> target, cause |-> cause])]

----------------------------------------------------------------------------
(* Checkout hands an order over: created as a draft and placed in one      *)
(* transaction, so no other request ever sees the draft.                   *)

Place(o) ==
    /\ status[o] = "draft"
    /\ Move(o, "placed", "checkout")
    /\ UNCHANGED <<shopVars, calling, request, providerVars>>

----------------------------------------------------------------------------
(* Opening a payment. *)

OpenPayments(o) == {p \in PaymentsOf(o) : ~Captured(p)}

\* Mutant: initiate() reads the order without select_for_update().
InitiateUnlocked(s, o) ==
    /\ Idle(s)
    /\ status[o] = "placed"
    /\ OpenPayments(o) = {}
    /\ calling' = [calling EXCEPT ![s] = o]
    /\ UNCHANGED <<orderVars, shopVars, request, providerVars>>

\* initiate() up to the provider call.  An order that is not PLACED is
\* refused and one with an open payment gets that payment back: neither
\* changes anything, so only the remaining case is a step.
Initiate(s, o) ==
    /\ Idle(s)
    /\ ~Locked(o)
    /\ status[o] = "placed"
    /\ OpenPayments(o) = {}
    /\ calling' = [calling EXCEPT ![s] = o]
    /\ UNCHANGED <<orderVars, shopVars, request, providerVars>>

\* The provider answers with a new id and the amount it recorded.  A wrong
\* amount raises PaymentError: the provider order stays behind, unused.
InitiateFinishes(s, p, amount) ==
    LET o == calling[s] IN
    /\ ~Idle(s)
    /\ p \notin issued
    /\ issued' = issued \cup {p}
    /\ payment' = IF amount = GrandTotal[o]
                    THEN [payment EXCEPT ![p] =
                            [order |-> o, status |-> "created"]]
                    ELSE payment
    /\ calling' = [calling EXCEPT ![s] = NoOrder]
    /\ UNCHANGED <<orderVars, ledger, request, attempts, sent>>

\* The provider refuses, is unreachable or answers after the timeout, or the
\* process dies before the commit: the transaction is rolled back and the
\* provider may or may not be left with an order nobody knows.
InitiateAborts(s) ==
    /\ ~Idle(s)
    /\ \E orphans \in {{}} \cup {{p} : p \in ProviderOrders \ issued} :
          issued' = issued \cup orphans
    /\ calling' = [calling EXCEPT ![s] = NoOrder]
    /\ UNCHANGED <<orderVars, shopVars, request, attempts, sent>>

----------------------------------------------------------------------------
(* Recording what the provider says. *)

\* Mutant: a capture confirms the order whatever its status is.
RecordCaptureAlwaysMoves(p) ==
    /\ payment' = [payment EXCEPT ![p].status = "captured"]
    /\ Move(payment[p].order, "payment_confirmed", "capture")

\* confirm_capture once it has locked the payment and its order and found
\* the capture new and of the right amount.
RecordCapture(p) ==
    LET o == payment[p].order IN
    /\ payment' = [payment EXCEPT ![p].status = "captured"]
    /\ IF status[o] = "placed"
         THEN Move(o, "payment_confirmed", "capture")
         ELSE UNCHANGED orderVars

\* Mutant: the order is moved before the amount is checked.
ConfirmCaptureMovesFirst(p, amounts) ==
    LET o == payment[p].order IN
    IF HasPayment(p) /\ ~Captured(p)
      THEN /\ ~Locked(o)
           /\ payment' = IF GrandTotal[o] \in amounts
                           THEN [payment EXCEPT ![p].status = "captured"]
                           ELSE payment
           /\ IF status[o] = "placed"
                THEN Move(o, "payment_confirmed", "capture")
                ELSE UNCHANGED orderVars
      ELSE UNCHANGED <<payment, orderVars>>

\* Mutant: a payment marked failed takes no capture any more.
ConfirmCaptureNotAfterFailure(p, amounts) ==
    IF payment[p].status = "created" /\ GrandTotal[payment[p].order] \in amounts
      THEN ~Locked(payment[p].order) /\ RecordCapture(p)
      ELSE UNCHANGED <<payment, orderVars>>

\* confirm_capture for a call that brings no amount (the browser's) or one
\* that does (a webhook).  Enabled only when both rows can be locked.
ConfirmCapture(p, amounts) ==
    IF HasPayment(p) /\ ~Captured(p) /\ GrandTotal[payment[p].order] \in amounts
      THEN ~Locked(payment[p].order) /\ RecordCapture(p)
      ELSE UNCHANGED <<payment, orderVars>>

\* Mutant: the UPDATE does not exclude captured rows.
RecordFailureOverCapture(p) ==
    /\ payment' = IF HasPayment(p)
                    THEN [payment EXCEPT ![p].status = "failed"]
                    ELSE payment
    /\ UNCHANGED orderVars

\* record_failure: one UPDATE that leaves captured rows alone.
RecordFailure(p) ==
    /\ payment' = IF HasPayment(p) /\ ~Captured(p)
                    THEN [payment EXCEPT ![p].status = "failed"]
                    ELSE payment
    /\ UNCHANGED orderVars

\* handle_webhook: the ledger row and what the event does, in one
\* transaction.  A redelivery changes nothing and is no step.
DeliverWebhook(e) ==
    /\ e \in sent \ ledger
    /\ ledger' = ledger \cup {e}
    /\ \/ e.type \in CaptureEvents /\ ConfirmCapture(e.po, {e.amount})
       \/ e.type \in FailureEvents /\ RecordFailure(e.po)
    /\ UNCHANGED <<calling, request, providerVars>>

\* The checkout widget hands the browser a signature for the attempt that
\* succeeded; the browser may post it, again and again, to the verify view.
PaidInWidget(p) == \E e \in sent : e.po = p /\ e.type = "payment.captured"

\* Mutant: the signature is not checked.
VerifyFromBrowserUnsigned(p) ==
    /\ HasPayment(p)
    /\ ConfirmCapture(p, Amounts)
    /\ UNCHANGED <<ledger, calling, request, providerVars>>

\* verify view: the signature proves the attempt, no amount is compared.
VerifyFromBrowser(p) ==
    /\ HasPayment(p)
    /\ PaidInWidget(p)
    /\ ConfirmCapture(p, Amounts)
    /\ UNCHANGED <<ledger, calling, request, providerVars>>

----------------------------------------------------------------------------
(* Operators. *)

\* get_object(): an unlocked read, through the queryset of the role.
OperatorReads(w, o) ==
    /\ request[w] = NoRequest
    /\ status[o] # "draft"
    /\ w \in BackOffice \/ status[o] \in AtelierStatuses
    /\ request' = [request EXCEPT ![w] = [order |-> o, status |-> status[o]]]
    /\ UNCHANGED <<orderVars, shopVars, calling, providerVars>>

\* Mutant: the transition is judged on the copy that get_object() returned.
OperatorTransitionsStale(w, target) ==
    LET o == request[w].order IN
    /\ request[w] # NoRequest
    /\ ~Locked(o)
    /\ IF Accepts(request[w].status, target)
         THEN Len(trail[o]) < MaxEvents /\ Move(o, target, "operator")
         ELSE UNCHANGED orderVars
    /\ request' = [request EXCEPT ![w] = NoRequest]
    /\ UNCHANGED <<shopVars, calling, providerVars>>

\* Mutant: the transition does not lock the order row.
OperatorTransitionsUnlocked(w, target) ==
    LET o == request[w].order IN
    /\ request[w] # NoRequest
    /\ IF Accepts(status[o], target)
         THEN Len(trail[o]) < MaxEvents /\ Move(o, target, "operator")
         ELSE UNCHANGED orderVars
    /\ request' = [request EXCEPT ![w] = NoRequest]
    /\ UNCHANGED <<shopVars, calling, providerVars>>

\* transition_order locks the row and judges the status it finds there.  An
\* illegal move answers 409 and changes nothing but the request.
OperatorTransitions(w, target) ==
    LET o == request[w].order IN
    /\ request[w] # NoRequest
    /\ ~Locked(o)
    /\ IF Accepts(status[o], target)
         THEN Len(trail[o]) < MaxEvents /\ Move(o, target, "operator")
         ELSE UNCHANGED orderVars
    /\ request' = [request EXCEPT ![w] = NoRequest]
    /\ UNCHANGED <<shopVars, calling, providerVars>>

----------------------------------------------------------------------------
(* The provider and its customer: outside the repository. *)

\* Only an order the customer was given the id of can be paid: a committed
\* Payment row, or another system's order.
Payable(p) ==
    /\ HasPayment(p) \/ p \in Foreign
    /\ attempts[p] < MaxAttempts
    /\ ~PaidInWidget(p)

Attempt(p, types, amount) ==
    /\ Payable(p)
    /\ attempts' = [attempts EXCEPT ![p] = @ + 1]
    /\ sent' = sent \cup {[type |-> t, po |-> p, attempt |-> attempts[p] + 1,
                           amount |-> amount] : t \in types}
    /\ UNCHANGED <<orderVars, shopVars, calling, request, issued>>

CardFails(p) == \E a \in Amounts : Attempt(p, FailureEvents, a)

CardPays(p) == \E a \in Amounts : Attempt(p, CaptureEvents, a)

----------------------------------------------------------------------------
Next ==
    \/ \E o \in Orders : Place(o)
    \/ \E s \in Sessions, o \in Orders : Initiate(s, o)
    \/ \E s \in Sessions, p \in ProviderOrders, a \in Amounts :
          InitiateFinishes(s, p, a)
    \/ \E s \in Sessions : InitiateAborts(s)
    \/ \E e \in sent : DeliverWebhook(e)
    \/ \E p \in ProviderOrders : VerifyFromBrowser(p)
    \/ \E w \in Operators, o \in Orders : OperatorReads(w, o)
    \/ \E w \in Operators, target \in Statuses : OperatorTransitions(w, target)
    \/ \E p \in ProviderOrders : CardFails(p)
    \/ \E p \in ProviderOrders : CardPays(p)

Spec == Init /\ [][Next]_vars

\* The provider redelivers a webhook until it is accepted, and a transaction
\* that holds a lock ends: the call to the provider has a timeout.
Fairness ==
    /\ WF_vars(\E e \in sent : DeliverWebhook(e))
    /\ \A s \in Sessions : WF_vars(InitiateAborts(s))

FairSpec == Spec /\ Fairness

----------------------------------------------------------------------------
(* Properties. *)

\* An order has at most one Payment row, whatever double-clicks, provider
\* failures and retries initiate() meets: it looks for an open payment and
\* creates one under the same lock on the order.
OnePaymentPerOrder ==
    \A p, q \in ProviderOrders :
        HasPayment(p) /\ HasPayment(q) /\ payment[p].order = payment[q].order
            => p = q

\* While initiate() waits for the provider, the order it holds goes on
\* waiting for payment and no other request gives it a Payment row: what
\* initiate() checked before the call is still true when it inserts.
HeldOrderAwaitsPayment ==
    \A s \in Sessions :
        ~Idle(s) => status[calling[s]] = "placed" /\ PaymentsOf(calling[s]) = {}

\* Once its money is recorded an order is not waiting for payment, whichever
\* of the browser and the webhooks recorded it and whatever operators did
\* meanwhile: initiate() never opens a second payment for a paid order.
PaidOrderNotAwaiting ==
    \A p \in ProviderOrders : Captured(p) => status[payment[p].order] # "placed"

ConfirmedByCapture(o) ==
    \E i \in DOMAIN trail[o] : trail[o][i].cause = "capture"

LeftPlacedByOperator(o) ==
    \E i \in DOMAIN trail[o] :
        trail[o][i].from = "placed" /\ trail[o][i].cause = "operator"

\* Every recorded capture has an explanation in the audit trail and every
\* confirmation in the audit trail has its money: a captured payment
\* confirmed its order, or an operator had moved the order first (the case
\* confirm_capture logs for a manual refund); never both and never neither.
MoneyAccounted ==
    \A o \in Orders :
        LET paid == \E p \in PaymentsOf(o) : Captured(p) IN
        /\ ConfirmedByCapture(o) => paid
        /\ paid => (ConfirmedByCapture(o) <=> ~LeftPlacedByOperator(o))

\* A payment is recorded as captured only if the provider captured it.
CaptureIsBacked ==
    \A p \in ProviderOrders : Captured(p) => PaidInWidget(p)

\* The audit trail is one unbroken chain from the draft to the current
\* status and every link is a permitted transition, although operators act
\* on copies of the order they read before taking its lock.
TrailExplainsStatus ==
    \A o \in Orders :
        LET t == trail[o] IN
        /\ t = <<>> => status[o] = "draft"
        /\ t # <<>> => t[1].from = "draft" /\ t[Len(t)].to = status[o]
        /\ \A i \in DOMAIN t : Accepts(t[i].from, t[i].to)
        /\ \A i \in 1..(Len(t) - 1) : t[i].to = t[i + 1].from

\* Goods are never boxed, shipped, returned or refunded for an order whose
\* payment was not confirmed, by a capture or by an operator, before.
DispatchedWasConfirmed ==
    \A o \in Orders :
        status[o] \in DispatchedStatuses \cup {"refunded"}
            => \E i \in DOMAIN trail[o] : trail[o][i].to = "payment_confirmed"

\* Recorded money stays recorded: a failure webhook delivered after the
\* capture it preceded, or a second capture, never undoes a captured payment.
CapturedIsFinal ==
    [][\A p \in ProviderOrders : Captured(p) => payment'[p] = payment[p]]_vars

\* A webhook of the right amount that the provider captured is recorded in
\* the end, even when the browser never comes back, failures are delivered
\* first and the order was cancelled meanwhile.
CaptureIsRecorded ==
    \A p \in ProviderOrders :
        (\E e \in sent : /\ e.po = p
                         /\ e.type \in CaptureEvents
                         /\ HasPayment(p)
                         /\ e.amount = GrandTotal[payment[p].order])
            ~> Captured(p)

\* services.py, on a capture of another amount: "Order %s NOT confirmed."
RefusedCaptureNotConfirmed ==
    \A e \in ledger :
        e.type \in CaptureEvents /\ HasPayment(e.po) /\ Captured(e.po)
            => e.amount = GrandTotal[payment[e.po].order]

----------------------------------------------------------------------------
(* The inductive invariants of the proofs: what the properties rest on.    *)

\* Two sessions never hold the same order.
LockExclusive ==
    \A s, t \in Sessions : ~Idle(s) /\ calling[s] = calling[t] => s = t

\* A Payment row carries an id the provider gave out, for an order that
\* checkout has placed.
RowsAreRooted ==
    \A p \in ProviderOrders :
        HasPayment(p) => p \in issued /\ status[payment[p].order] # "draft"

\* Operators hold placed orders only.
RequestsAreRooted ==
    \A w \in Operators :
        request[w] # NoRequest => status[request[w].order] # "draft"

\* The provider announces a capture by both of its capture events.
CapturesAnnounced ==
    \A e \in sent : e.type \in CaptureEvents => PaidInWidget(e.po)

PaymentInv ==
    /\ LockExclusive
    /\ RowsAreRooted
    /\ RequestsAreRooted
    /\ CapturesAnnounced
    /\ HeldOrderAwaitsPayment
    /\ OnePaymentPerOrder
    /\ PaidOrderNotAwaiting
    /\ CaptureIsBacked

\* An order leaves PLACED once, by a capture or by an operator.
LeftPlacedOnce ==
    \A o \in Orders :
        IF status[o] \in {"draft", "placed"}
          THEN ~ConfirmedByCapture(o) /\ ~LeftPlacedByOperator(o)
          ELSE ConfirmedByCapture(o) <=> ~LeftPlacedByOperator(o)

\* Every status past PLACED except CANCELLED lies behind a confirmation.
PastPlacedWasConfirmed ==
    \A o \in Orders :
        status[o] \notin {"draft", "placed", "cancelled"}
            => \E i \in DOMAIN trail[o] : trail[o][i].to = "payment_confirmed"

TrailInv ==
    /\ TrailExplainsStatus
    /\ LeftPlacedOnce
    /\ PastPlacedWasConfirmed

ConfirmationIsPaid ==
    \A o \in Orders :
        ConfirmedByCapture(o) => \E p \in PaymentsOf(o) : Captured(p)

IInv == TypeOK /\ PaymentInv /\ TrailInv /\ ConfirmationIsPaid

----------------------------------------------------------------------------
(* The contract this module implements. *)

Stage(s) ==
    CASE s = "draft"  -> "unplaced"
      [] s = "placed" -> "awaiting"
      [] s \in {"payment_confirmed"} \cup AtelierStatuses -> "confirmed"
      [] s \in DispatchedStatuses -> "dispatched"
      [] s \in TerminalStatuses   -> "closed"

Contract == INSTANCE OrderContract WITH
    stage     <- [o \in Orders |-> Stage(status[o])],
    collected <- {o \in Orders : \E p \in PaymentsOf(o) : Captured(p)}

\* Rows, locks, webhooks and operators together keep the contract.
ContractSpec == Contract!Spec
=============================================================================
