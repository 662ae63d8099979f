------------------------ MODULE OrderPaymentsProofs ------------------------
(***************************************************************************)
(* Theorems about OrderPayments, for any number of orders, provider        *)
(* orders, sessions, operators, amounts and any bounds.                    *)
(***************************************************************************)
EXTENDS OrderPayments, TLAPS

USE ConstantsAssumption

\* Recording a move keeps status and trail well typed.
LEMMA MoveType ==
    ASSUME TypeOK, NEW o \in Orders, NEW target \in Statuses,
           NEW cause \in Causes, Move(o, target, cause)
    PROVE  /\ status' \in [Orders -> Statuses]
           /\ trail' \in [Orders -> Seq(AuditEvents)]
  <1>1. status' \in [Orders -> Statuses]
    BY DEF TypeOK, Move
  <1>2. [from |-> status[o], to |-> target, cause |-> cause] \in AuditEvents
    BY DEF TypeOK, AuditEvents
  <1>3. trail' \in [Orders -> Seq(AuditEvents)]
    BY <1>2 DEF TypeOK, Move
  <1>4. QED
    BY <1>1, <1>3

\* What confirm_capture writes is well typed.
LEMMA ConfirmCaptureType ==
    ASSUME TypeOK, NEW p \in ProviderOrders, NEW amounts,
           ConfirmCapture(p, amounts)
    PROVE  /\ status' \in [Orders -> Statuses]
           /\ trail' \in [Orders -> Seq(AuditEvents)]
           /\ payment' \in [ProviderOrders -> PaymentRows \cup {NoPayment}]
  <1>1. CASE HasPayment(p) /\ ~Captured(p)
               /\ GrandTotal[payment[p].order] \in amounts
    <2>1. RecordCapture(p)
      BY <1>1 DEF ConfirmCapture
    <2>2. payment[p] \in PaymentRows
      BY <1>1 DEF TypeOK, HasPayment, NoPayment
    <2>3. payment[p].order \in Orders
      BY <2>2 DEF PaymentRows
    <2>4. payment' \in [ProviderOrders -> PaymentRows \cup {NoPayment}]
      BY <2>1, <2>2 DEF RecordCapture, TypeOK, PaymentRows, PaymentStatuses
    <2>5. CASE status[payment[p].order] = "placed"
      <3>1. Move(payment[p].order, "payment_confirmed", "capture")
        BY <2>1, <2>5 DEF RecordCapture
      <3>2. "payment_confirmed" \in Statuses /\ "capture" \in Causes
        BY DEF Statuses, Causes
      <3>3. QED
        BY <3>1, <3>2, <2>3, <2>4, MoveType
    <2>6. CASE status[payment[p].order] # "placed"
      BY <2>1, <2>4, <2>6 DEF RecordCapture, orderVars, TypeOK
    <2>7. QED
      BY <2>5, <2>6
  <1>2. CASE ~(HasPayment(p) /\ ~Captured(p)
                 /\ GrandTotal[payment[p].order] \in amounts)
    BY <1>2 DEF ConfirmCapture, orderVars, TypeOK
  <1>3. QED
    BY <1>1, <1>2

\* Type correctness: the rows, requests and provider records keep the shapes
\* the models and views declare.
THEOREM TypeCorrect == Spec => []TypeOK
  <1>1. Init => TypeOK
    BY DEF Init, TypeOK, Statuses, NoPayment, NoRequest, OrderCopies
  <1>2. TypeOK /\ [Next]_vars => TypeOK'
    <2> SUFFICES ASSUME TypeOK, [Next]_vars PROVE TypeOK'
      OBVIOUS
    <2>1. ASSUME NEW o \in Orders, Place(o) PROVE TypeOK'
      <3>1. "placed" \in Statuses /\ "checkout" \in Causes
        BY DEF Statuses, Causes
      <3>2. Move(o, "placed", "checkout")
        BY <2>1 DEF Place
      <3>3. QED
        BY <2>1, <3>1, <3>2, MoveType DEF Place, TypeOK, shopVars, providerVars
    <2>2. ASSUME NEW s \in Sessions, NEW o \in Orders, Initiate(s, o)
          PROVE TypeOK'
      BY <2>2 DEF Initiate, TypeOK, orderVars, shopVars, providerVars
    <2>3. ASSUME NEW s \in Sessions, NEW p \in ProviderOrders,
                 NEW a \in Amounts, InitiateFinishes(s, p, a)
          PROVE TypeOK'
      <3>1. calling[s] \in Orders
        BY <2>3 DEF InitiateFinishes, Idle, TypeOK
      <3>2. [order |-> calling[s], status |-> "created"] \in PaymentRows
        BY <3>1 DEF PaymentRows, PaymentStatuses
      <3>3. payment' \in [ProviderOrders -> PaymentRows \cup {NoPayment}]
        BY <2>3, <3>2 DEF InitiateFinishes, TypeOK
      <3>4. QED
        BY <2>3, <3>3 DEF InitiateFinishes, TypeOK, orderVars
    <2>4. ASSUME NEW s \in Sessions, InitiateAborts(s) PROVE TypeOK'
      BY <2>4 DEF InitiateAborts, TypeOK, orderVars, shopVars
    <2>5. ASSUME NEW e \in sent, DeliverWebhook(e) PROVE TypeOK'
      <3>1. e \in WebhookEvents /\ e.po \in ProviderOrders
        BY DEF TypeOK, WebhookEvents
      <3>2. ledger' \subseteq WebhookEvents
        BY <2>5, <3>1 DEF DeliverWebhook, TypeOK
      <3>3. CASE ConfirmCapture(e.po, {e.amount})
        BY <2>5, <3>1, <3>2, <3>3, ConfirmCaptureType
           DEF DeliverWebhook, TypeOK, providerVars
      <3>4. CASE RecordFailure(e.po)
        <4>1. payment' \in [ProviderOrders -> PaymentRows \cup {NoPayment}]
          <5>1. CASE HasPayment(e.po) /\ ~Captured(e.po)
            <6>1. payment[e.po] \in PaymentRows
              BY <3>1, <5>1 DEF TypeOK, HasPayment, NoPayment
            <6>2. [payment[e.po] EXCEPT !.status = "failed"] \in PaymentRows
              BY <6>1 DEF PaymentRows, PaymentStatuses
            <6>3. QED
              BY <3>1, <3>4, <5>1, <6>2 DEF RecordFailure, TypeOK
          <5>2. CASE ~(HasPayment(e.po) /\ ~Captured(e.po))
            BY <3>4, <5>2 DEF RecordFailure, TypeOK
          <5>3. QED
            BY <5>1, <5>2
        <4>2. QED
          BY <2>5, <3>2, <3>4, <4>1
             DEF DeliverWebhook, RecordFailure, TypeOK, orderVars, providerVars
      <3>5. QED
        BY <2>5, <3>3, <3>4 DEF DeliverWebhook
    <2>6. ASSUME NEW p \in ProviderOrders, VerifyFromBrowser(p) PROVE TypeOK'
      BY <2>6, ConfirmCaptureType DEF VerifyFromBrowser, TypeOK, providerVars
    <2>7. ASSUME NEW w \in Operators, NEW o \in Orders, OperatorReads(w, o)
          PROVE TypeOK'
      BY <2>7 DEF OperatorReads, TypeOK, OrderCopies, orderVars, shopVars,
                  providerVars
    <2>8. ASSUME NEW w \in Operators, NEW target \in Statuses,
                 OperatorTransitions(w, target)
          PROVE TypeOK'
      <3>1. request[w] \in OrderCopies
        BY <2>8 DEF OperatorTransitions, TypeOK
      <3>2. request' \in [Operators -> OrderCopies \cup {NoRequest}]
        BY <2>8 DEF OperatorTransitions, TypeOK
      <3>3. CASE /\ request[w].order \in Orders
                 /\ Move(request[w].order, target, "operator")
        <4>1. "operator" \in Causes
          BY DEF Causes
        <4>2. QED
          BY <2>8, <3>2, <3>3, <4>1, MoveType
             DEF OperatorTransitions, TypeOK, shopVars, providerVars
      <3>4. CASE UNCHANGED orderVars
        BY <2>8, <3>2, <3>4
           DEF OperatorTransitions, TypeOK, orderVars, shopVars, providerVars
      <3>5. QED
        BY <2>8, <3>1, <3>3, <3>4 DEF OperatorTransitions, OrderCopies
    <2>9. ASSUME NEW p \in ProviderOrders, CardFails(p) PROVE TypeOK'
      BY <2>9 DEF CardFails, Attempt, Payable, TypeOK, WebhookEvents,
                  FailureEvents, orderVars, shopVars
    <2>10. ASSUME NEW p \in ProviderOrders, CardPays(p) PROVE TypeOK'
      BY <2>10 DEF CardPays, Attempt, Payable, TypeOK, WebhookEvents,
                   CaptureEvents, orderVars, shopVars
    <2>11. CASE UNCHANGED vars
      BY <2>11 DEF vars, TypeOK
    <2>12. QED
      BY <2>1, <2>2, <2>3, <2>4, <2>5, <2>6, <2>7, <2>8, <2>9, <2>10, <2>11
         DEF Next
  <1>3. QED
    BY <1>1, <1>2, PTL DEF Spec

----------------------------------------------------------------------------
(* What a step can do to the orders and to the payment rows. *)

\* The state machine has no way back to DRAFT or PLACED, and the only ways
\* out of PLACED are the confirmation and the cancellation.
LEMMA NoWayBack ==
    ASSUME NEW current \in Statuses, NEW target, Accepts(current, target)
    PROVE  /\ target # "draft"
           /\ target = "placed" => current = "draft"
           /\ current = "placed" => target \in {"payment_confirmed", "cancelled"}
           /\ current = "draft" => target \in {"placed", "cancelled"}
           /\ current # "cancelled"
  BY DEF Accepts, CanTransition, AllowedTransitions, Statuses,
         AtelierStatuses, DispatchedStatuses, TerminalStatuses

\* A move somebody is entitled to make on an order whose row is free.
LegalMove(o, target, cause) ==
    /\ Move(o, target, cause)
    /\ Accepts(status[o], target)
    /\ ~Locked(o)
    /\ cause = "checkout" <=> status[o] = "draft"
    /\ cause = "checkout" => target = "placed"
    /\ cause = "capture" => status[o] = "placed" /\ target = "payment_confirmed"

\* Every step leaves all orders alone or makes one legal move.
LEMMA OrderSteps ==
    ASSUME TypeOK, PaymentInv, [Next]_vars
    PROVE  \/ UNCHANGED orderVars
           \/ \E o \in Orders, target \in Statuses, cause \in Causes :
                 LegalMove(o, target, cause)
  <1> DEFINE Goal == \/ UNCHANGED orderVars
                     \/ \E o \in Orders, target \in Statuses, cause \in Causes :
                           LegalMove(o, target, cause)
  <1> SUFFICES Goal
    OBVIOUS
  <1>1. Accepts("draft", "placed") /\ Accepts("placed", "payment_confirmed")
    BY DEF Accepts, CanTransition, AllowedTransitions, Statuses,
           AtelierStatuses, DispatchedStatuses, TerminalStatuses
  <1>2. /\ {"placed", "payment_confirmed"} \subseteq Statuses
        /\ {"checkout", "operator", "capture"} \subseteq Causes
    BY DEF Statuses, Causes
  <1>3. ASSUME NEW p \in ProviderOrders, NEW amounts, ConfirmCapture(p, amounts)
        PROVE  Goal
    <2>1. CASE UNCHANGED orderVars
      BY <2>1
    <2>2. CASE ~UNCHANGED orderVars
      <3>1. /\ HasPayment(p)
            /\ ~Locked(payment[p].order)
            /\ status[payment[p].order] = "placed"
            /\ Move(payment[p].order, "payment_confirmed", "capture")
        BY <1>3, <2>2 DEF ConfirmCapture, RecordCapture, orderVars
      <3>2. payment[p].order \in Orders
        BY <3>1 DEF TypeOK, HasPayment, NoPayment, PaymentRows
      <3>3. LegalMove(payment[p].order, "payment_confirmed", "capture")
        BY <1>1, <3>1 DEF LegalMove
      <3>4. QED
        BY <1>2, <3>2, <3>3
    <2>3. QED
      BY <2>1, <2>2
  <1>4. ASSUME NEW o \in Orders, Place(o) PROVE Goal
    <2>1. ~Locked(o)
      BY <1>4 DEF Place, Locked, PaymentInv, HeldOrderAwaitsPayment, Idle, TypeOK
    <2>2. LegalMove(o, "placed", "checkout")
      BY <1>1, <1>4, <2>1 DEF LegalMove, Place
    <2>3. QED
      BY <1>2, <2>2
  <1>5. ASSUME NEW w \in Operators, NEW target \in Statuses,
               OperatorTransitions(w, target)
        PROVE  Goal
    <2>1. CASE UNCHANGED orderVars
      BY <2>1
    <2>2. CASE ~UNCHANGED orderVars
      <3> DEFINE o == request[w].order
      <3>1. request[w] # NoRequest /\ ~Locked(o) /\ Accepts(status[o], target)
            /\ Move(o, target, "operator")
        BY <1>5, <2>2 DEF OperatorTransitions
      <3>2. o \in Orders /\ status[o] # "draft"
        BY <3>1 DEF TypeOK, OrderCopies, PaymentInv, RequestsAreRooted
      <3>3. LegalMove(o, target, "operator")
        BY <3>1, <3>2 DEF LegalMove
      <3>4. QED
        BY <1>2, <3>2, <3>3
    <2>3. QED
      BY <2>1, <2>2
  <1>6. ASSUME NEW e \in sent, DeliverWebhook(e) PROVE Goal
    <2>1. e.po \in ProviderOrders
      BY DEF TypeOK, WebhookEvents
    <2>2. QED
      BY <1>3, <1>6, <2>1 DEF DeliverWebhook, RecordFailure
  <1>7. ASSUME NEW p \in ProviderOrders, VerifyFromBrowser(p) PROVE Goal
    BY <1>3, <1>7 DEF VerifyFromBrowser
  <1>8. CASE UNCHANGED orderVars
    BY <1>8
  <1>9. QED
    BY <1>4, <1>5, <1>6, <1>7, <1>8
       DEF Next, vars, orderVars, Initiate, InitiateFinishes, InitiateAborts,
           OperatorReads, CardFails, CardPays, Attempt

----------------------------------------------------------------------------
(* The audit trail. *)

\* What appending does to the entries of a sequence.
LEMMA AppendEntries ==
    ASSUME NEW S, NEW t \in Seq(S), NEW x \in S
    PROVE  /\ Append(t, x) \in Seq(S)
           /\ Len(t) \in Nat
           /\ Len(Append(t, x)) = Len(t) + 1
           /\ DOMAIN t = 1..Len(t)
           /\ DOMAIN Append(t, x) = 1..(Len(t) + 1)
           /\ \A i \in 1..Len(t) : Append(t, x)[i] = t[i]
           /\ Append(t, x)[Len(t) + 1] = x
           /\ Append(t, x) # <<>>
           /\ t = <<>> <=> Len(t) = 0
  OBVIOUS

\* A legal move keeps the chain of audit events unbroken, keeps exactly one
\* way out of PLACED per order and keeps the confirmation behind whatever
\* lies past it.
LEMMA MoveKeepsTrail ==
    ASSUME TypeOK, TrailInv, NEW o \in Orders, NEW target \in Statuses,
           NEW cause \in Causes, LegalMove(o, target, cause)
    PROVE  TrailInv'
  <1> DEFINE x == [from |-> status[o], to |-> target, cause |-> cause]
             t == trail[o]
             u == Append(t, x)
  <1>1. /\ status' = [status EXCEPT ![o] = target]
        /\ trail' = [trail EXCEPT ![o] = u]
    BY DEF LegalMove, Move
  <1>2. /\ status'[o] = target
        /\ trail'[o] = u
        /\ \A q \in Orders : q # o => status'[q] = status[q] /\ trail'[q] = trail[q]
    BY <1>1 DEF TypeOK
  <1>3. x \in AuditEvents /\ t \in Seq(AuditEvents) /\ status[o] \in Statuses
    BY DEF TypeOK, AuditEvents
  <1>4. /\ Len(t) \in Nat
        /\ Len(u) = Len(t) + 1
        /\ DOMAIN t = 1..Len(t)
        /\ DOMAIN u = 1..(Len(t) + 1)
        /\ \A i \in 1..Len(t) : u[i] = t[i]
        /\ u[Len(t) + 1] = x
        /\ u # <<>>
        /\ t = <<>> <=> Len(t) = 0
    BY <1>3, AppendEntries
  <1>5. /\ Accepts(status[o], target)
        /\ cause = "checkout" <=> status[o] = "draft"
        /\ cause = "checkout" => target = "placed"
        /\ cause = "capture" =>
              status[o] = "placed" /\ target = "payment_confirmed"
    BY DEF LegalMove
  <1>6. /\ target # "draft"
        /\ target = "placed" => status[o] = "draft"
        /\ status[o] = "placed" => target \in {"payment_confirmed", "cancelled"}
        /\ status[o] # "cancelled"
    BY <1>3, <1>5, NoWayBack
  <1>7. cause \in {"checkout", "operator", "capture"}
    BY DEF Causes
  <1> HIDE DEF x, t, u
  <1>8. x.from = status[o] /\ x.to = target /\ x.cause = cause
    BY DEF x
  <1>9. TrailExplainsStatus'
    <2> SUFFICES ASSUME NEW q \in Orders
                 PROVE  /\ trail'[q] = <<>> => status'[q] = "draft"
                        /\ trail'[q] # <<>> =>
                              /\ trail'[q][1].from = "draft"
                              /\ trail'[q][Len(trail'[q])].to = status'[q]
                        /\ \A i \in DOMAIN trail'[q] :
                              Accepts(trail'[q][i].from, trail'[q][i].to)
                        /\ \A i \in 1..(Len(trail'[q]) - 1) :
                              trail'[q][i].to = trail'[q][i + 1].from
      BY DEF TrailExplainsStatus
    <2>1. CASE q # o
      BY <1>2, <2>1 DEF TrailInv, TrailExplainsStatus
    <2>2. CASE q = o
      <3>1. /\ t = <<>> => status[o] = "draft"
            /\ t # <<>> => t[1].from = "draft" /\ t[Len(t)].to = status[o]
            /\ \A i \in DOMAIN t : Accepts(t[i].from, t[i].to)
            /\ \A i \in 1..(Len(t) - 1) : t[i].to = t[i + 1].from
        BY DEF TrailInv, TrailExplainsStatus, t
      <3>2. u[1].from = "draft"
        BY <1>4, <1>8, <3>1
      <3>3. u[Len(u)].to = target
        BY <1>4, <1>8
      <3>4. \A i \in DOMAIN u : Accepts(u[i].from, u[i].to)
        BY <1>4, <1>5, <1>8, <3>1
      <3>5. \A i \in 1..(Len(u) - 1) : u[i].to = u[i + 1].from
        <4> SUFFICES ASSUME NEW i \in 1..Len(t) PROVE u[i].to = u[i + 1].from
          BY <1>4
        <4>1. CASE i = Len(t)
          BY <1>4, <1>8, <3>1, <4>1
        <4>2. CASE i # Len(t)
          <5> DEFINE n == Len(t)
          <5>1. n \in Nat /\ i \in 1..n /\ i # n
            BY <1>4, <4>2
          <5> HIDE DEF n
          <5>2. i \in 1..(n - 1) /\ i + 1 \in 1..n
            BY <5>1
          <5>3. u[i] = t[i] /\ u[i + 1] = t[i + 1]
            BY <1>4, <5>1, <5>2 DEF n
          <5>4. QED
            BY <3>1, <5>2, <5>3 DEF n
        <4>3. QED
          BY <4>1, <4>2
      <3>6. QED
        BY <1>2, <1>4, <2>2, <3>2, <3>3, <3>4, <3>5
    <2>3. QED
      BY <2>1, <2>2
  <1>10. LeftPlacedOnce'
    <2>1. ASSUME NEW q \in Orders, q # o
          PROVE  /\ ConfirmedByCapture(q)' <=> ConfirmedByCapture(q)
                 /\ LeftPlacedByOperator(q)' <=> LeftPlacedByOperator(q)
      BY <1>2, <2>1 DEF ConfirmedByCapture, LeftPlacedByOperator
    <2>2. ConfirmedByCapture(o)' <=> ConfirmedByCapture(o) \/ cause = "capture"
      <3>1. ConfirmedByCapture(o)' <=> \E i \in DOMAIN u : u[i].cause = "capture"
        BY <1>2 DEF ConfirmedByCapture
      <3>2. ConfirmedByCapture(o) <=> \E i \in DOMAIN t : t[i].cause = "capture"
        BY DEF ConfirmedByCapture, t
      <3>3. QED
        BY <1>4, <1>8, <3>1, <3>2
    <2>3. LeftPlacedByOperator(o)' <=>
             LeftPlacedByOperator(o) \/ (status[o] = "placed" /\ cause = "operator")
      <3>1. LeftPlacedByOperator(o)' <=>
               \E i \in DOMAIN u : u[i].from = "placed" /\ u[i].cause = "operator"
        BY <1>2 DEF LeftPlacedByOperator
      <3>2. LeftPlacedByOperator(o) <=>
               \E i \in DOMAIN t : t[i].from = "placed" /\ t[i].cause = "operator"
        BY DEF LeftPlacedByOperator, t
      <3>3. QED
        BY <1>4, <1>8, <3>1, <3>2
    <2>4. IF status'[o] \in {"draft", "placed"}
            THEN ~ConfirmedByCapture(o)' /\ ~LeftPlacedByOperator(o)'
            ELSE ConfirmedByCapture(o)' <=> ~LeftPlacedByOperator(o)'
      BY <1>2, <1>5, <1>6, <1>7, <2>2, <2>3 DEF TrailInv, LeftPlacedOnce
    <2>5. QED
      BY <1>2, <2>1, <2>4 DEF TrailInv, LeftPlacedOnce
  <1>11. PastPlacedWasConfirmed'
    <2> SUFFICES ASSUME NEW q \in Orders,
                        status'[q] \notin {"draft", "placed", "cancelled"}
                 PROVE  \E i \in DOMAIN trail'[q] :
                            trail'[q][i].to = "payment_confirmed"
      BY DEF PastPlacedWasConfirmed
    <2>1. CASE q # o
      BY <1>2, <2>1 DEF TrailInv, PastPlacedWasConfirmed
    <2>2. CASE q = o /\ target = "payment_confirmed"
      BY <1>2, <1>4, <1>8, <2>2
    <2>3. CASE q = o /\ target # "payment_confirmed"
      <3>1. status[o] \notin {"draft", "placed", "cancelled"}
        BY <1>2, <1>5, <1>6, <2>3
      <3>2. PICK i \in DOMAIN t : t[i].to = "payment_confirmed"
        BY <3>1 DEF TrailInv, PastPlacedWasConfirmed, t
      <3>3. i \in DOMAIN u /\ u[i] = t[i]
        BY <1>4, <3>2
      <3>4. QED
        BY <1>2, <2>3, <3>2, <3>3
    <2>4. QED
      BY <2>1, <2>2, <2>3
  <1>12. QED
    BY <1>9, <1>10, <1>11 DEF TrailInv

----------------------------------------------------------------------------
(* The payment rows. *)

\* Moving one order leaves every other order where it was, and takes the
\* moved one past DRAFT for good.
LEMMA MoveStatus ==
    ASSUME TypeOK, NEW o \in Orders, NEW target \in Statuses, NEW cause,
           LegalMove(o, target, cause)
    PROVE  /\ status'[o] = target
           /\ \A q \in Orders : q # o => status'[q] = status[q]
           /\ target # "draft"
           /\ target = "placed" => status[o] = "draft"
  <1>1. status[o] \in Statuses /\ Accepts(status[o], target)
    BY DEF TypeOK, LegalMove
  <1>2. QED
    BY <1>1, NoWayBack DEF TypeOK, LegalMove, Move

\* What any step does to the statuses: no order returns to DRAFT, only a
\* draft becomes PLACED, and an order whose row is held stays where it is.
LEMMA StatusSteps ==
    ASSUME TypeOK, PaymentInv, [Next]_vars, NEW o \in Orders
    PROVE  /\ status[o] # "draft" => status'[o] # "draft"
           /\ status'[o] = "placed" => status[o] \in {"draft", "placed"}
           /\ Locked(o) => status'[o] = status[o]
  <1>1. CASE UNCHANGED orderVars
    BY <1>1 DEF orderVars
  <1>2. ASSUME NEW q \in Orders, NEW target \in Statuses, NEW cause \in Causes,
               LegalMove(q, target, cause)
        PROVE  /\ status[o] # "draft" => status'[o] # "draft"
               /\ status'[o] = "placed" => status[o] \in {"draft", "placed"}
               /\ Locked(o) => status'[o] = status[o]
    <2>1. Locked(o) => o # q
      BY <1>2 DEF LegalMove
    <2>2. QED
      BY <1>2, <2>1, MoveStatus
  <1>3. QED
    BY <1>1, <1>2, OrderSteps

\* The two outcomes of confirm_capture.
LEMMA ConfirmCaptureCases ==
    ASSUME TypeOK, NEW p \in ProviderOrders, NEW amounts,
           ConfirmCapture(p, amounts)
    PROVE  \/ UNCHANGED <<payment, orderVars>>
           \/ /\ payment[p] \in PaymentRows
              /\ HasPayment(p)
              /\ ~Captured(p)
              /\ payment' = [payment EXCEPT ![p] =
                    [order |-> payment[p].order, status |-> "captured"]]
              /\ status'[payment[p].order] # "placed"
  <1>1. CASE HasPayment(p) /\ ~Captured(p)
               /\ GrandTotal[payment[p].order] \in amounts
    <2>1. payment[p] \in PaymentRows
      BY <1>1 DEF TypeOK, HasPayment, NoPayment
    <2>2. payment[p].order \in Orders
      BY <2>1 DEF PaymentRows
    <2>3. [payment[p] EXCEPT !.status = "captured"]
             = [order |-> payment[p].order, status |-> "captured"]
      BY <2>1 DEF PaymentRows
    <2>4. payment' = [payment EXCEPT ![p] =
                    [order |-> payment[p].order, status |-> "captured"]]
      BY <1>1, <2>3 DEF ConfirmCapture, RecordCapture
    <2>5. status'[payment[p].order] # "placed"
      BY <1>1, <2>2 DEF ConfirmCapture, RecordCapture, Move, orderVars, TypeOK
    <2>6. QED
      BY <1>1, <2>1, <2>4, <2>5
  <1>2. CASE ~(HasPayment(p) /\ ~Captured(p)
                 /\ GrandTotal[payment[p].order] \in amounts)
    BY <1>2 DEF ConfirmCapture
  <1>3. QED
    BY <1>1, <1>2

\* Rewriting the status of a row never changes which order it belongs to.
\* PaymentInv survives it when a row becomes captured only with the
\* provider's word for it and with its order past PLACED.
LEMMA RowUpdateKeepsPaymentInv ==
    ASSUME TypeOK, PaymentInv, [Next]_vars,
           NEW p \in ProviderOrders, NEW new \in PaymentStatuses,
           HasPayment(p),
           payment' = [payment EXCEPT ![p] =
                          [order |-> payment[p].order, status |-> new]],
           new = "captured" =>
               PaidInWidget(p) /\ status'[payment[p].order] # "placed",
           UNCHANGED <<calling, request, providerVars>>
    PROVE  PaymentInv'
  <1>1. payment[p] \in PaymentRows /\ payment[p].order \in Orders
    BY DEF TypeOK, HasPayment, NoPayment, PaymentRows
  <1>2. /\ payment'[p].order = payment[p].order
        /\ payment'[p].status = new
        /\ new # "absent"
        /\ \A q \in ProviderOrders : q # p => payment'[q] = payment[q]
    BY DEF TypeOK, PaymentStatuses
  <1>3. \A q \in ProviderOrders : payment'[q].order = payment[q].order
    BY <1>2
  <1>4. \A q \in ProviderOrders : HasPayment(q)' <=> HasPayment(q)
    BY <1>2 DEF HasPayment
  <1>5. \A q \in ProviderOrders : PaidInWidget(q)' <=> PaidInWidget(q)
    BY DEF PaidInWidget, providerVars
  <1>6. \A o \in Orders : PaymentsOf(o)' = PaymentsOf(o)
    BY <1>3 DEF PaymentsOf
  <1>7. \A q \in ProviderOrders : HasPayment(q) => payment[q].order \in Orders
    BY DEF TypeOK, HasPayment, NoPayment, PaymentRows
  <1>8. LockExclusive'
    BY DEF PaymentInv, LockExclusive, Idle
  <1>9. RowsAreRooted'
    BY <1>3, <1>4, <1>7, StatusSteps DEF PaymentInv, RowsAreRooted, providerVars
  <1>10. RequestsAreRooted'
    BY StatusSteps DEF PaymentInv, RequestsAreRooted, TypeOK, OrderCopies
  <1>11. CapturesAnnounced'
    BY DEF PaymentInv, CapturesAnnounced, PaidInWidget, providerVars
  <1>12. HeldOrderAwaitsPayment'
    <2> SUFFICES ASSUME NEW s \in Sessions, ~Idle(s)
                 PROVE  status'[calling[s]] = "placed" /\ PaymentsOf(calling[s])' = {}
      BY DEF HeldOrderAwaitsPayment, Idle
    <2>1. calling[s] \in Orders /\ Locked(calling[s])
      BY DEF TypeOK, Idle, Locked
    <2>2. status[calling[s]] = "placed" /\ PaymentsOf(calling[s]) = {}
      BY DEF PaymentInv, HeldOrderAwaitsPayment
    <2>3. QED
      BY <1>6, <2>1, <2>2, StatusSteps
  <1>13. OnePaymentPerOrder'
    BY <1>3, <1>4 DEF PaymentInv, OnePaymentPerOrder
  <1>14. PaidOrderNotAwaiting'
    <2> SUFFICES ASSUME NEW q \in ProviderOrders, Captured(q)'
                 PROVE  status'[payment[q].order] # "placed"
      BY <1>3 DEF PaidOrderNotAwaiting
    <2>1. CASE q = p
      BY <1>2, <2>1 DEF Captured
    <2>2. CASE q # p
      <3>1. Captured(q) /\ HasPayment(q)
        BY <1>2, <2>2 DEF Captured, HasPayment
      <3>2. status[payment[q].order] \notin {"draft", "placed"}
        BY <3>1 DEF PaymentInv, PaidOrderNotAwaiting, RowsAreRooted
      <3>3. QED
        BY <1>7, <3>1, <3>2, StatusSteps
    <2>3. QED
      BY <2>1, <2>2
  <1>15. CaptureIsBacked'
    BY <1>2, <1>5 DEF PaymentInv, CaptureIsBacked, Captured
  <1>16. QED
    BY <1>8, <1>9, <1>10, <1>11, <1>12, <1>13, <1>14, <1>15 DEF PaymentInv

\* The rows, the locks and the provider's announcements keep PaymentInv.
LEMMA PaymentStep ==
    ASSUME TypeOK, TypeOK', PaymentInv, [Next]_vars
    PROVE  PaymentInv'
  <1>1. \A q \in ProviderOrders : HasPayment(q) => payment[q].order \in Orders
    BY DEF TypeOK, HasPayment, NoPayment, PaymentRows
  <1>2. \A s \in Sessions : ~Idle(s) =>
            calling[s] \in Orders /\ Locked(calling[s])
    BY DEF TypeOK, Idle, Locked
  <1>3. \A w \in Operators : request[w] # NoRequest =>
            request[w].order \in Orders
    BY DEF TypeOK, OrderCopies
  <1>4. \A q \in ProviderOrders :
            Captured(q) => HasPayment(q) /\ status[payment[q].order] \notin {"draft", "placed"}
    BY DEF PaymentInv, PaidOrderNotAwaiting, RowsAreRooted, Captured, HasPayment
  \* Steps that touch neither rows nor calls nor the provider.
  <1>5. ASSUME UNCHANGED <<payment, calling, providerVars>>,
               \A w \in Operators : \/ request'[w] = request[w]
                                    \/ request'[w] = NoRequest
                                    \/ status[request'[w].order] # "draft"
        PROVE  PaymentInv'
    <2>1. LockExclusive'
      BY <1>5 DEF PaymentInv, LockExclusive, Idle
    <2>2. RowsAreRooted'
      BY <1>1, <1>5, StatusSteps
         DEF PaymentInv, RowsAreRooted, HasPayment, providerVars
    <2>3. RequestsAreRooted'
      <3> SUFFICES ASSUME NEW w \in Operators, request'[w] # NoRequest
                   PROVE  status'[request'[w].order] # "draft"
        BY DEF RequestsAreRooted
      <3>1. request'[w].order \in Orders
        BY DEF TypeOK, OrderCopies
      <3>2. status[request'[w].order] # "draft"
        BY <1>5 DEF PaymentInv, RequestsAreRooted
      <3>3. QED
        BY <3>1, <3>2, StatusSteps
    <2>4. CapturesAnnounced'
      BY <1>5 DEF PaymentInv, CapturesAnnounced, PaidInWidget, providerVars
    <2>5. HeldOrderAwaitsPayment'
      BY <1>2, <1>5, StatusSteps
         DEF PaymentInv, HeldOrderAwaitsPayment, Idle, PaymentsOf
    <2>6. OnePaymentPerOrder'
      BY <1>5 DEF PaymentInv, OnePaymentPerOrder, HasPayment
    <2>7. PaidOrderNotAwaiting'
      BY <1>1, <1>4, <1>5, StatusSteps DEF PaidOrderNotAwaiting, Captured
    <2>8. CaptureIsBacked'
      BY <1>5 DEF PaymentInv, CaptureIsBacked, Captured, PaidInWidget, providerVars
    <2>9. QED
      BY <2>1, <2>2, <2>3, <2>4, <2>5, <2>6, <2>7, <2>8 DEF PaymentInv
  \* confirm_capture, from a webhook or from the browser.
  <1>6. ASSUME NEW p \in ProviderOrders, NEW amounts, PaidInWidget(p),
               ConfirmCapture(p, amounts),
               UNCHANGED <<calling, request, providerVars>>
        PROVE  PaymentInv'
    <2>1. CASE UNCHANGED <<payment, orderVars>>
      BY <1>5, <1>6, <2>1
    <2>2. CASE ~UNCHANGED <<payment, orderVars>>
      BY <1>6, <2>2, ConfirmCaptureCases, RowUpdateKeepsPaymentInv
         DEF PaymentStatuses
    <2>3. QED
      BY <2>1, <2>2
  <1>7. ASSUME NEW o \in Orders, Place(o) PROVE PaymentInv'
    BY <1>5, <1>7 DEF Place, shopVars
  <1>8. ASSUME NEW s \in Sessions, NEW o \in Orders, Initiate(s, o)
        PROVE  PaymentInv'
    <2>1. /\ calling' = [calling EXCEPT ![s] = o]
          /\ UNCHANGED <<orderVars, payment, request, providerVars>>
          /\ status[o] = "placed"
          /\ OpenPayments(o) = {}
          /\ ~Locked(o)
          /\ o # NoOrder
      BY <1>8 DEF Initiate, shopVars
    <2>2. PaymentsOf(o) = {}
      <3> SUFFICES ASSUME NEW p \in PaymentsOf(o) PROVE FALSE
        OBVIOUS
      <3>1. Captured(p) /\ p \in ProviderOrders /\ payment[p].order = o
        BY <2>1 DEF OpenPayments, PaymentsOf
      <3>2. QED
        BY <1>4, <2>1, <3>1
    <2>3. LockExclusive'
      BY <2>1 DEF PaymentInv, LockExclusive, Idle, Locked, TypeOK
    <2>4. RowsAreRooted' /\ RequestsAreRooted' /\ CapturesAnnounced'
      BY <2>1 DEF PaymentInv, RowsAreRooted, RequestsAreRooted,
                  CapturesAnnounced, HasPayment, PaidInWidget, orderVars,
                  providerVars
    <2>5. HeldOrderAwaitsPayment'
      BY <2>1, <2>2 DEF PaymentInv, HeldOrderAwaitsPayment, Idle, PaymentsOf,
                        orderVars, TypeOK
    <2>6. OnePaymentPerOrder' /\ PaidOrderNotAwaiting' /\ CaptureIsBacked'
      BY <2>1 DEF PaymentInv, OnePaymentPerOrder, PaidOrderNotAwaiting,
                  CaptureIsBacked, HasPayment, Captured, PaidInWidget,
                  orderVars, providerVars
    <2>7. QED
      BY <2>3, <2>4, <2>5, <2>6 DEF PaymentInv
  <1>9. ASSUME NEW s \in Sessions, NEW p \in ProviderOrders, NEW a \in Amounts,
               InitiateFinishes(s, p, a)
        PROVE  PaymentInv'
    <2> DEFINE o == calling[s]
    <2>1. /\ ~Idle(s)
          /\ p \notin issued
          /\ issued' = issued \cup {p}
          /\ calling' = [calling EXCEPT ![s] = NoOrder]
          /\ UNCHANGED <<status, trail, request, attempts, sent>>
          /\ \/ payment' = payment
             \/ payment' = [payment EXCEPT ![p] = [order |-> o, status |-> "created"]]
      BY <1>9 DEF InitiateFinishes, orderVars
    <2>2. ~HasPayment(p) /\ ~Captured(p)
      BY <2>1 DEF PaymentInv, RowsAreRooted, HasPayment, Captured
    <2>3. /\ o \in Orders
          /\ status[o] = "placed"
          /\ \A q \in ProviderOrders : payment[q].order # o
      BY <1>2, <2>1 DEF PaymentInv, HeldOrderAwaitsPayment, PaymentsOf
    <2>4. \A q \in ProviderOrders :
             \/ payment'[q] = payment[q]
             \/ q = p /\ payment'[q] = [order |-> o, status |-> "created"]
      BY <2>1 DEF TypeOK
    <2>5. \A t \in Sessions :
             ~Idle(t)' => t # s /\ ~Idle(t) /\ calling'[t] = calling[t]
                          /\ calling[t] # o
      BY <2>1 DEF PaymentInv, LockExclusive, Idle, TypeOK
    <2>6. LockExclusive'
      BY <2>5 DEF PaymentInv, LockExclusive, Idle
    <2>7. RowsAreRooted' /\ RequestsAreRooted' /\ CapturesAnnounced'
      BY <2>1, <2>3, <2>4
         DEF PaymentInv, RowsAreRooted, RequestsAreRooted, CapturesAnnounced,
             HasPayment, PaidInWidget
    <2>8. HeldOrderAwaitsPayment'
      <3> SUFFICES ASSUME NEW t \in Sessions, ~Idle(t)'
                   PROVE  status'[calling'[t]] = "placed"
                          /\ \A q \in ProviderOrders : payment'[q].order # calling'[t]
        BY DEF HeldOrderAwaitsPayment, PaymentsOf
      <3>1. status[calling[t]] = "placed"
            /\ \A q \in ProviderOrders : payment[q].order # calling[t]
        BY <2>5 DEF PaymentInv, HeldOrderAwaitsPayment, PaymentsOf
      <3>2. QED
        BY <2>1, <2>4, <2>5, <3>1
    <2>9. OnePaymentPerOrder'
      BY <2>2, <2>3, <2>4 DEF PaymentInv, OnePaymentPerOrder, HasPayment
    <2>10. PaidOrderNotAwaiting' /\ CaptureIsBacked'
      BY <2>1, <2>4 DEF PaymentInv, PaidOrderNotAwaiting, CaptureIsBacked,
                        Captured, PaidInWidget
    <2>11. QED
      BY <2>6, <2>7, <2>8, <2>9, <2>10 DEF PaymentInv
  <1>10. ASSUME NEW s \in Sessions, InitiateAborts(s) PROVE PaymentInv'
    <2>1. /\ issued \subseteq issued'
          /\ calling' = [calling EXCEPT ![s] = NoOrder]
          /\ UNCHANGED <<status, trail, payment, request, attempts, sent>>
      BY <1>10 DEF InitiateAborts, orderVars, shopVars
    <2>2. \A t \in Sessions :
             ~Idle(t)' => ~Idle(t) /\ calling'[t] = calling[t]
      BY <2>1 DEF Idle, TypeOK
    <2>3. LockExclusive' /\ HeldOrderAwaitsPayment'
      BY <2>1, <2>2 DEF PaymentInv, LockExclusive, HeldOrderAwaitsPayment,
                        PaymentsOf, Idle
    <2>4. /\ RowsAreRooted' /\ RequestsAreRooted' /\ CapturesAnnounced'
          /\ OnePaymentPerOrder' /\ PaidOrderNotAwaiting' /\ CaptureIsBacked'
      BY <2>1 DEF PaymentInv, RowsAreRooted, RequestsAreRooted,
                  CapturesAnnounced, OnePaymentPerOrder, PaidOrderNotAwaiting,
                  CaptureIsBacked, HasPayment, Captured, PaidInWidget
    <2>5. QED
      BY <2>3, <2>4 DEF PaymentInv
  <1>11. ASSUME NEW e \in sent, DeliverWebhook(e) PROVE PaymentInv'
    <2>1. e.po \in ProviderOrders
      BY DEF TypeOK, WebhookEvents
    <2>2. UNCHANGED <<calling, request, providerVars>>
      BY <1>11 DEF DeliverWebhook
    <2>3. CASE e.type \in CaptureEvents /\ ConfirmCapture(e.po, {e.amount})
      BY <1>6, <2>1, <2>2, <2>3 DEF PaymentInv, CapturesAnnounced
    <2>4. CASE RecordFailure(e.po)
      <3>1. CASE HasPayment(e.po) /\ ~Captured(e.po)
        <4>1. payment[e.po] \in PaymentRows
          BY <2>1, <3>1 DEF TypeOK, HasPayment, NoPayment
        <4>2. [payment[e.po] EXCEPT !.status = "failed"]
                 = [order |-> payment[e.po].order, status |-> "failed"]
          BY <4>1 DEF PaymentRows
        <4>3. payment' = [payment EXCEPT ![e.po] =
                             [order |-> payment[e.po].order, status |-> "failed"]]
          BY <2>4, <3>1, <4>2 DEF RecordFailure
        <4>4. QED
          BY <2>1, <2>2, <3>1, <4>3, RowUpdateKeepsPaymentInv DEF PaymentStatuses
      <3>2. CASE ~(HasPayment(e.po) /\ ~Captured(e.po))
        BY <1>5, <2>2, <2>4, <3>2 DEF RecordFailure
      <3>3. QED
        BY <3>1, <3>2
    <2>5. QED
      BY <1>11, <2>3, <2>4 DEF DeliverWebhook
  <1>12. ASSUME NEW p \in ProviderOrders, VerifyFromBrowser(p) PROVE PaymentInv'
    BY <1>6, <1>12 DEF VerifyFromBrowser
  <1>13. ASSUME NEW w \in Operators, NEW o \in Orders, OperatorReads(w, o)
         PROVE  PaymentInv'
    BY <1>5, <1>13 DEF OperatorReads, TypeOK, shopVars
  <1>14. ASSUME NEW w \in Operators, NEW target \in Statuses,
                OperatorTransitions(w, target)
         PROVE  PaymentInv'
    BY <1>5, <1>14 DEF OperatorTransitions, TypeOK, shopVars
  <1>15. ASSUME NEW p \in ProviderOrders, NEW types, NEW a \in Amounts,
                Attempt(p, types, a),
                types = FailureEvents \/ types = CaptureEvents
         PROVE  PaymentInv'
    <2>1. UNCHANGED <<status, trail, payment, calling, request, issued>>
      BY <1>15 DEF Attempt, orderVars, shopVars
    <2>2. \A q \in ProviderOrders : PaidInWidget(q) => PaidInWidget(q)'
      BY <1>15 DEF Attempt, PaidInWidget
    <2>3. CapturesAnnounced'
      <3> SUFFICES ASSUME NEW e \in sent', e.type \in CaptureEvents
                   PROVE  PaidInWidget(e.po)'
        BY DEF CapturesAnnounced
      <3>1. CASE e \in sent
        BY <2>2, <3>1 DEF PaymentInv, CapturesAnnounced, TypeOK, WebhookEvents
      <3>2. CASE e \notin sent
        <4>1. PICK t \in types : e = [type |-> t, po |-> p,
                                      attempt |-> attempts[p] + 1, amount |-> a]
          BY <1>15, <3>2 DEF Attempt
        <4>2. types = CaptureEvents /\ e.po = p
          BY <1>15, <4>1 DEF FailureEvents, CaptureEvents
        <4>3. [type |-> "payment.captured", po |-> p,
               attempt |-> attempts[p] + 1, amount |-> a] \in sent'
          BY <1>15, <4>2 DEF Attempt, CaptureEvents
        <4>4. QED
          BY <4>2, <4>3 DEF PaidInWidget
      <3>3. QED
        BY <3>1, <3>2
    <2>4. /\ LockExclusive' /\ HeldOrderAwaitsPayment' /\ RowsAreRooted'
          /\ RequestsAreRooted' /\ OnePaymentPerOrder' /\ PaidOrderNotAwaiting'
      BY <2>1 DEF PaymentInv, LockExclusive, HeldOrderAwaitsPayment,
                  RowsAreRooted, RequestsAreRooted, OnePaymentPerOrder,
                  PaidOrderNotAwaiting, HasPayment, Captured, PaymentsOf, Idle
    <2>5. CaptureIsBacked'
      BY <2>1, <2>2 DEF PaymentInv, CaptureIsBacked, Captured
    <2>6. QED
      BY <2>3, <2>4, <2>5 DEF PaymentInv
  <1>16. CASE UNCHANGED vars
    BY <1>5, <1>16 DEF vars, providerVars
  <1>17. QED
    BY <1>7, <1>8, <1>9, <1>10, <1>11, <1>12, <1>13, <1>14, <1>15, <1>16
       DEF Next, CardFails, CardPays

----------------------------------------------------------------------------
(* The theorems. *)

\* One step keeps the audit trails.
LEMMA TrailStep ==
    ASSUME TypeOK, PaymentInv, TrailInv, [Next]_vars
    PROVE  TrailInv'
  <1>1. CASE UNCHANGED orderVars
    BY <1>1 DEF orderVars, TrailInv, TrailExplainsStatus, LeftPlacedOnce,
                PastPlacedWasConfirmed, ConfirmedByCapture, LeftPlacedByOperator
  <1>2. CASE ~UNCHANGED orderVars
    BY <1>2, OrderSteps, MoveKeepsTrail
  <1>3. QED
    BY <1>1, <1>2

\* One step of the system keeps both groups of invariants.
LEMMA StepInvariants ==
    ASSUME TypeOK, TypeOK', PaymentInv, TrailInv, [Next]_vars
    PROVE  PaymentInv' /\ TrailInv'
  BY PaymentStep, TrailStep

\* Both hold of an empty shop.
LEMMA InitInvariants == Init => PaymentInv /\ TrailInv
  <1> SUFFICES ASSUME Init PROVE PaymentInv /\ TrailInv
    OBVIOUS
  <1>1. PaymentInv
    BY DEF Init, PaymentInv, LockExclusive, RowsAreRooted, RequestsAreRooted,
           CapturesAnnounced, HeldOrderAwaitsPayment, OnePaymentPerOrder,
           PaidOrderNotAwaiting, CaptureIsBacked, Idle, HasPayment, Captured,
           NoPayment
  <1>2. TrailInv
    BY DEF Init, TrailInv, TrailExplainsStatus, LeftPlacedOnce,
           PastPlacedWasConfirmed, ConfirmedByCapture, LeftPlacedByOperator
  <1>3. QED
    BY <1>1, <1>2

\* Rows, locks and audit trails keep their invariants for ever.
LEMMA Invariants == Spec => [](TypeOK /\ PaymentInv /\ TrailInv)
  <1>1. TypeOK /\ TypeOK' /\ PaymentInv /\ TrailInv /\ [Next]_vars
            => PaymentInv' /\ TrailInv'
    BY StepInvariants
  <1>2. QED
    BY <1>1, TypeCorrect, InitInvariants, PTL DEF Spec

\* One payment per order: initiate() can neither raise a second provider
\* order for an order nor trip over the unique constraint on captured
\* payments, with any number of concurrent sessions.
THEOREM OnePaymentTheorem == Spec => []OnePaymentPerOrder
  <1>1. PaymentInv => OnePaymentPerOrder
    BY DEF PaymentInv
  <1>2. QED
    BY <1>1, Invariants, PTL

\* A paid order never waits for payment again.
THEOREM PaidOrderTheorem == Spec => []PaidOrderNotAwaiting
  <1>1. PaymentInv => PaidOrderNotAwaiting
    BY DEF PaymentInv
  <1>2. QED
    BY <1>1, Invariants, PTL

\* What initiate() checked under the lock still holds when it inserts.
THEOREM HeldOrderTheorem == Spec => []HeldOrderAwaitsPayment
  <1>1. PaymentInv => HeldOrderAwaitsPayment
    BY DEF PaymentInv
  <1>2. QED
    BY <1>1, Invariants, PTL

\* The shop records no capture the provider did not make.
THEOREM CaptureIsBackedTheorem == Spec => []CaptureIsBacked
  <1>1. PaymentInv => CaptureIsBacked
    BY DEF PaymentInv
  <1>2. QED
    BY <1>1, Invariants, PTL

\* The audit trail is an unbroken chain of permitted moves ending in the
\* order's status.
THEOREM TrailTheorem == Spec => []TrailExplainsStatus
  <1>1. TrailInv => TrailExplainsStatus
    BY DEF TrailInv
  <1>2. QED
    BY <1>1, Invariants, PTL

\* No order is dispatched, returned or refunded without a confirmation.
THEOREM DispatchedTheorem == Spec => []DispatchedWasConfirmed
  <1>1. TrailInv => DispatchedWasConfirmed
    BY DEF TrailInv, PastPlacedWasConfirmed, DispatchedWasConfirmed,
           DispatchedStatuses
  <1>2. QED
    BY <1>1, Invariants, PTL

----------------------------------------------------------------------------
(* Money and the audit trail together. *)

\* A captured row is never written again.
LEMMA CapturedRowsStay ==
    ASSUME TypeOK, PaymentInv, [Next]_vars, NEW p \in ProviderOrders, Captured(p)
    PROVE  payment'[p] = payment[p]
  <1>1. ASSUME NEW q \in ProviderOrders, NEW amounts, ConfirmCapture(q, amounts)
        PROVE  payment'[p] = payment[p]
    BY <1>1, ConfirmCaptureCases DEF TypeOK
  <1>2. ASSUME NEW q \in ProviderOrders, RecordFailure(q)
        PROVE  payment'[p] = payment[p]
    BY <1>2 DEF RecordFailure, TypeOK
  <1>3. ASSUME NEW s \in Sessions, NEW q \in ProviderOrders, NEW a \in Amounts,
               InitiateFinishes(s, q, a)
        PROVE  payment'[p] = payment[p]
    <2>1. p \in issued /\ q \notin issued
      BY <1>3 DEF InitiateFinishes, PaymentInv, RowsAreRooted, HasPayment, Captured
    <2>2. QED
      BY <1>3, <2>1 DEF InitiateFinishes, TypeOK
  <1>4. ASSUME NEW e \in sent, DeliverWebhook(e) PROVE payment'[p] = payment[p]
    BY <1>1, <1>2, <1>4 DEF DeliverWebhook, TypeOK, WebhookEvents
  <1>5. ASSUME NEW q \in ProviderOrders, VerifyFromBrowser(q)
        PROVE  payment'[p] = payment[p]
    BY <1>1, <1>5 DEF VerifyFromBrowser
  <1>6. CASE UNCHANGED payment
    BY <1>6
  <1>7. QED
    BY <1>3, <1>4, <1>5, <1>6
       DEF Next, vars, shopVars, Place, Initiate, InitiateAborts,
           OperatorReads, OperatorTransitions, CardFails, CardPays, Attempt

\* Only a move caused by a capture makes an order confirmed by capture.
LEMMA MoveConfirmed ==
    ASSUME TypeOK, NEW o \in Orders, NEW target \in Statuses,
           NEW cause \in Causes, Move(o, target, cause), NEW q \in Orders,
           ConfirmedByCapture(q)'
    PROVE  ConfirmedByCapture(q) \/ (q = o /\ cause = "capture")
  <1> DEFINE x == [from |-> status[o], to |-> target, cause |-> cause]
             t == trail[o]
  <1>1. x \in AuditEvents /\ t \in Seq(AuditEvents) /\ x.cause = cause
    BY DEF TypeOK, AuditEvents
  <1>2. trail' = [trail EXCEPT ![o] = Append(t, x)]
    BY DEF Move
  <1>3. CASE q # o
    BY <1>2, <1>3 DEF ConfirmedByCapture, TypeOK
  <1>4. CASE q = o
    <2>1. PICK i \in DOMAIN Append(t, x) : Append(t, x)[i].cause = "capture"
      BY <1>2, <1>4 DEF ConfirmedByCapture, TypeOK
    <2>2. \/ i \in DOMAIN t /\ Append(t, x)[i] = t[i]
          \/ Append(t, x)[i] = x
      <3> HIDE DEF x, t
      <3>1. QED
        BY <1>1, <2>1, AppendEntries
    <2>3. QED
      BY <1>1, <1>4, <2>1, <2>2 DEF ConfirmedByCapture
  <1>5. QED
    BY <1>3, <1>4

\* The move and the payment row are written by the same transaction.
LEMMA ConfirmationStep ==
    ASSUME TypeOK, PaymentInv, ConfirmationIsPaid, [Next]_vars
    PROVE  ConfirmationIsPaid'
  <1> SUFFICES ASSUME NEW o \in Orders, ConfirmedByCapture(o)'
               PROVE  \E p \in ProviderOrders :
                         payment'[p].order = o /\ payment'[p].status = "captured"
    BY DEF ConfirmationIsPaid, PaymentsOf, Captured
  <1>1. CASE ConfirmedByCapture(o)
    <2>1. PICK p \in ProviderOrders : payment[p].order = o /\ Captured(p)
      BY <1>1 DEF ConfirmationIsPaid, PaymentsOf
    <2>2. QED
      BY <2>1, CapturedRowsStay DEF Captured
  <1>2. CASE ~ConfirmedByCapture(o)
    <2>1. {"placed", "payment_confirmed"} \subseteq Statuses
          /\ {"checkout", "operator", "capture"} \subseteq Causes
      BY DEF Statuses, Causes
    <2>2. ~UNCHANGED orderVars
      BY <1>2 DEF orderVars, ConfirmedByCapture
    <2>3. ASSUME NEW p \in ProviderOrders, NEW amounts, ConfirmCapture(p, amounts)
          PROVE  payment'[p].order = o /\ payment'[p].status = "captured"
      <3>1. /\ payment[p] \in PaymentRows
            /\ payment' = [payment EXCEPT ![p] =
                    [order |-> payment[p].order, status |-> "captured"]]
        BY <2>2, <2>3, ConfirmCaptureCases DEF ConfirmCapture, orderVars
      <3>2. Move(payment[p].order, "payment_confirmed", "capture")
        BY <2>2, <2>3 DEF ConfirmCapture, RecordCapture, orderVars
      <3>3. payment[p].order = o
        BY <1>2, <2>1, <3>1, <3>2, MoveConfirmed DEF PaymentRows
      <3>4. QED
        BY <3>1, <3>3 DEF TypeOK
    <2>4. ASSUME NEW q \in Orders, Place(q) PROVE FALSE
      BY <1>2, <2>1, <2>4, MoveConfirmed DEF Place
    <2>5. ASSUME NEW w \in Operators, NEW target \in Statuses,
                 OperatorTransitions(w, target)
          PROVE  FALSE
      <3>1. request[w].order \in Orders
            /\ Move(request[w].order, target, "operator")
        BY <2>2, <2>5 DEF OperatorTransitions, TypeOK, OrderCopies
      <3>2. QED
        BY <1>2, <2>1, <3>1, MoveConfirmed
    <2>6. ASSUME NEW e \in sent, DeliverWebhook(e)
          PROVE  payment'[e.po].order = o /\ payment'[e.po].status = "captured"
      BY <2>2, <2>3, <2>6 DEF DeliverWebhook, RecordFailure, TypeOK, WebhookEvents
    <2>7. ASSUME NEW p \in ProviderOrders, VerifyFromBrowser(p)
          PROVE  payment'[p].order = o /\ payment'[p].status = "captured"
      BY <2>3, <2>7 DEF VerifyFromBrowser
    <2>8. \/ \E e \in sent : DeliverWebhook(e)
          \/ \E p \in ProviderOrders : VerifyFromBrowser(p)
      BY <2>2, <2>4, <2>5
         DEF Next, vars, orderVars, Initiate, InitiateFinishes, InitiateAborts,
             OperatorReads, CardFails, CardPays, Attempt
    <2>9. \A e \in sent : e.po \in ProviderOrders
      BY DEF TypeOK, WebhookEvents
    <2>10. QED
      BY <2>6, <2>7, <2>8, <2>9
  <1>3. QED
    BY <1>1, <1>2

\* All of it is inductive.
THEOREM InductiveInvariant == Spec => []IInv
  <1>1. Init => ConfirmationIsPaid
    BY DEF Init, ConfirmationIsPaid, ConfirmedByCapture
  <1>2. TypeOK /\ PaymentInv /\ ConfirmationIsPaid /\ [Next]_vars
            => ConfirmationIsPaid'
    BY ConfirmationStep
  <1>3. TypeOK /\ PaymentInv /\ TrailInv /\ ConfirmationIsPaid => IInv
    BY DEF IInv
  <1>4. QED
    BY <1>1, <1>2, <1>3, Invariants, PTL DEF Spec

\* Every recorded capture confirmed its order or came after an operator had
\* moved it, and every confirmation by capture has its captured payment.
THEOREM MoneyTheorem == Spec => []MoneyAccounted
  <1>1. IInv => MoneyAccounted
    <2> SUFFICES ASSUME IInv, NEW o \in Orders
                 PROVE  LET paid == \E p \in PaymentsOf(o) : Captured(p) IN
                        /\ ConfirmedByCapture(o) => paid
                        /\ paid => (ConfirmedByCapture(o) <=> ~LeftPlacedByOperator(o))
      BY DEF MoneyAccounted
    <2>1. ConfirmedByCapture(o) => \E p \in PaymentsOf(o) : Captured(p)
      BY DEF IInv, ConfirmationIsPaid
    <2>2. ASSUME NEW p \in PaymentsOf(o), Captured(p)
          PROVE  status[o] \notin {"draft", "placed"}
      BY <2>2 DEF IInv, PaymentInv, PaidOrderNotAwaiting, RowsAreRooted,
                  PaymentsOf, Captured, HasPayment
    <2>3. QED
      BY <2>1, <2>2 DEF IInv, TrailInv, LeftPlacedOnce
  <1>2. QED
    BY <1>1, InductiveInvariant, PTL

\* Recorded money stays recorded.
THEOREM CapturedIsFinalTheorem == Spec => CapturedIsFinal
  <1>1. TypeOK /\ PaymentInv /\ [Next]_vars
            => [\A p \in ProviderOrders : Captured(p) => payment'[p] = payment[p]]_vars
    BY CapturedRowsStay
  <1>2. QED
    BY <1>1, Invariants, PTL DEF Spec, CapturedIsFinal

----------------------------------------------------------------------------
(* Refinement. *)

Collected == {o \in Orders : \E p \in PaymentsOf(o) : Captured(p)}

StageMap == [o \in Orders |-> Stage(status[o])]

\* A permitted move stays in its stage or follows the contract.
LEMMA StageMoves ==
    ASSUME NEW current \in Statuses, NEW target \in Statuses,
           Accepts(current, target), current # "draft"
    PROVE  \/ Stage(target) = Stage(current)
           \/ /\ Stage(current) \in {"awaiting", "confirmed", "dispatched"}
              /\ Stage(target) \in Contract!Successors[Stage(current)]
  BY DEF Accepts, CanTransition, AllowedTransitions, Statuses,
         AtelierStatuses, DispatchedStatuses, TerminalStatuses, Stage,
         Contract!Successors

\* The stages the contract distinguishes on the way of an order.
LEMMA StageValues ==
    /\ Stage("draft") = "unplaced"
    /\ Stage("placed") = "awaiting"
    /\ Stage("payment_confirmed") = "confirmed"
    /\ \A s \in Statuses : s \notin {"draft", "placed"}
          => Stage(s) \in {"confirmed", "dispatched", "closed"}
  BY DEF Stage, Statuses, AtelierStatuses, DispatchedStatuses, TerminalStatuses

\* Moving one order moves its stage and no other.
LEMMA MoveStage ==
    ASSUME TypeOK, NEW o \in Orders, NEW target \in Statuses, NEW cause,
           Move(o, target, cause)
    PROVE  StageMap' = [StageMap EXCEPT ![o] = Stage(target)]
  BY DEF StageMap, Move, TypeOK

\* Rows rewritten without becoming captured collect nothing.
LEMMA CollectedSame ==
    ASSUME \A p \in ProviderOrders :
               \/ payment'[p] = payment[p]
               \/ ~Captured(p) /\ payment'[p].status # "captured"
    PROVE  Collected' = Collected
  BY DEF Collected, PaymentsOf, Captured

\* A captured row adds its order, which was not collected before.
LEMMA CollectedMore ==
    ASSUME TypeOK, PaymentInv, NEW p \in ProviderOrders, HasPayment(p),
           ~Captured(p),
           payment' = [payment EXCEPT ![p] =
                          [order |-> payment[p].order, status |-> "captured"]]
    PROVE  /\ payment[p].order \notin Collected
           /\ Collected' = Collected \cup {payment[p].order}
  <1>1. payment[p].order \in Orders
    BY DEF TypeOK, HasPayment, NoPayment, PaymentRows
  <1>2. ASSUME NEW q \in ProviderOrders, payment[q].order = payment[p].order,
               Captured(q)
        PROVE  FALSE
    BY <1>2 DEF PaymentInv, OnePaymentPerOrder, HasPayment, Captured
  <1>3. \A q \in ProviderOrders :
           /\ payment'[q].order = payment[q].order
           /\ Captured(q)' <=> Captured(q) \/ q = p
    BY DEF TypeOK, Captured
  <1>4. QED
    BY <1>1, <1>2, <1>3 DEF Collected, PaymentsOf

\* confirm_capture collects the money once, or changes nothing.
LEMMA ConfirmCaptureRefines ==
    ASSUME TypeOK, PaymentInv, NEW p \in ProviderOrders, NEW amounts,
           ConfirmCapture(p, amounts)
    PROVE  Contract!Next \/ UNCHANGED <<StageMap, Collected>>
  <1>1. CASE UNCHANGED <<payment, orderVars>>
    BY <1>1 DEF StageMap, Collected, PaymentsOf, Captured, orderVars
  <1>2. CASE ~UNCHANGED <<payment, orderVars>>
    <2> DEFINE o == payment[p].order
    <2>1. /\ payment[p] \in PaymentRows
          /\ HasPayment(p)
          /\ ~Captured(p)
          /\ payment' = [payment EXCEPT ![p] = [order |-> o, status |-> "captured"]]
      BY <1>2, ConfirmCaptureCases
    <2>2. o \in Orders
      BY <2>1 DEF PaymentRows
    <2>3. o \notin Collected /\ Collected' = Collected \cup {o}
      BY <2>1, CollectedMore
    <2>4. CASE status[o] = "placed"
      <3>1. Move(o, "payment_confirmed", "capture") /\ "payment_confirmed" \in Statuses
        BY <1>2, <2>4 DEF ConfirmCapture, RecordCapture, Statuses
      <3>2. StageMap[o] = "awaiting" /\ StageMap' = [StageMap EXCEPT ![o] = "confirmed"]
        BY <2>2, <2>4, <3>1, MoveStage, StageValues DEF StageMap
      <3>3. Contract!CollectAndConfirm(o)
        BY <2>3, <3>2 DEF Contract!CollectAndConfirm, StageMap, Collected
      <3>4. QED
        BY <2>2, <3>3 DEF Contract!Next
    <2>5. CASE status[o] # "placed"
      <3>1. UNCHANGED status
        BY <1>2, <2>5 DEF ConfirmCapture, RecordCapture, orderVars
      <3>2. status[o] \in Statuses /\ status[o] # "draft"
        BY <2>1, <2>2 DEF TypeOK, PaymentInv, RowsAreRooted
      <3>3. StageMap[o] \in {"confirmed", "dispatched", "closed"}
        BY <2>2, <2>5, <3>2, StageValues DEF StageMap
      <3>4. Contract!CollectLate(o)
        BY <2>3, <3>1, <3>3 DEF Contract!CollectLate, StageMap, Collected
      <3>5. QED
        BY <2>2, <3>4 DEF Contract!Next
    <2>6. QED
      BY <2>4, <2>5
  <1>3. QED
    BY <1>1, <1>2

\* Rows, row locks, webhooks delivered late and repeatedly, and operators
\* working from stale copies implement the contract between order and money.
THEOREM ImplementsContract == Spec => ContractSpec
  <1>1. Init => Contract!Init
    BY StageValues DEF Init, Contract!Init, PaymentsOf, Captured, NoPayment
  <1>2. TypeOK /\ PaymentInv /\ [Next]_vars => [Contract!Next]_(Contract!cvars)
    <2> SUFFICES ASSUME TypeOK, PaymentInv, [Next]_vars
                 PROVE  Contract!Next \/ UNCHANGED <<StageMap, Collected>>
      BY DEF Contract!cvars, StageMap, Collected
    <2>1. ASSUME NEW o \in Orders, NEW target \in Statuses,
                 NEW cause \in Causes, LegalMove(o, target, cause),
                 Collected' = Collected
          PROVE  Contract!Next \/ UNCHANGED <<StageMap, Collected>>
      <3>1. StageMap' = [StageMap EXCEPT ![o] = Stage(target)]
        BY <2>1, MoveStage DEF LegalMove
      <3>2. StageMap[o] = Stage(status[o]) /\ status[o] \in Statuses
        BY DEF StageMap, TypeOK
      <3>3. CASE status[o] = "draft"
        <4>1. target = "placed"
          BY <2>1, <3>3 DEF LegalMove
        <4>2. Contract!Place(o)
          BY <2>1, <3>1, <3>2, <3>3, <4>1, StageValues
             DEF Contract!Place, StageMap, Collected
        <4>3. QED
          BY <4>2 DEF Contract!Next
      <3>4. CASE status[o] # "draft"
        <4>1. \/ Stage(target) = Stage(status[o])
              \/ /\ Stage(status[o]) \in {"awaiting", "confirmed", "dispatched"}
                 /\ Stage(target) \in Contract!Successors[Stage(status[o])]
          BY <2>1, <3>2, <3>4, StageMoves DEF LegalMove
        <4>2. CASE Stage(target) = Stage(status[o])
          BY <2>1, <3>1, <3>2, <4>2 DEF StageMap
        <4>3. CASE /\ Stage(status[o]) \in {"awaiting", "confirmed", "dispatched"}
                   /\ Stage(target) \in Contract!Successors[Stage(status[o])]
          <5>1. Contract!Advance(o)
            BY <2>1, <3>1, <3>2, <4>3 DEF Contract!Advance, StageMap, Collected
          <5>2. QED
            BY <5>1 DEF Contract!Next
        <4>4. QED
          BY <4>1, <4>2, <4>3
      <3>5. QED
        BY <3>3, <3>4
    <2>2. CASE Collected' = Collected
      <3>1. CASE UNCHANGED orderVars
        BY <2>2, <3>1 DEF orderVars, StageMap
      <3>2. CASE ~UNCHANGED orderVars
        BY <2>1, <2>2, <3>2, OrderSteps
      <3>3. QED
        BY <3>1, <3>2
    <2>3. ASSUME NEW e \in sent, DeliverWebhook(e)
          PROVE  Contract!Next \/ UNCHANGED <<StageMap, Collected>>
      <3>1. e.po \in ProviderOrders
        BY DEF TypeOK, WebhookEvents
      <3>2. CASE ConfirmCapture(e.po, {e.amount})
        BY <3>1, <3>2, ConfirmCaptureRefines
      <3>3. CASE RecordFailure(e.po)
        <4>1. Collected' = Collected
          BY <3>1, <3>3, CollectedSame DEF RecordFailure, TypeOK
        <4>2. QED
          BY <2>2, <4>1
      <3>4. QED
        BY <2>3, <3>2, <3>3 DEF DeliverWebhook
    <2>4. ASSUME NEW p \in ProviderOrders, VerifyFromBrowser(p)
          PROVE  Contract!Next \/ UNCHANGED <<StageMap, Collected>>
      BY <2>4, ConfirmCaptureRefines DEF VerifyFromBrowser
    <2>5. ASSUME NEW s \in Sessions, NEW p \in ProviderOrders, NEW a \in Amounts,
                 InitiateFinishes(s, p, a)
          PROVE  Collected' = Collected
      <3>1. ~Captured(p)
        BY <2>5 DEF InitiateFinishes, PaymentInv, RowsAreRooted, HasPayment, Captured
      <3>2. \A q \in ProviderOrders :
               payment'[q] = payment[q] \/ (q = p /\ payment'[q].status # "captured")
        BY <2>5 DEF InitiateFinishes, TypeOK
      <3>3. QED
        BY <3>1, <3>2, CollectedSame
    <2>6. UNCHANGED payment => Collected' = Collected
      BY CollectedSame
    <2>7. QED
      BY <2>2, <2>3, <2>4, <2>5, <2>6
         DEF Next, vars, shopVars, Place, Initiate, InitiateAborts,
             OperatorReads, OperatorTransitions, CardFails, CardPays, Attempt
  <1>3. QED
    BY <1>1, <1>2, Invariants, PTL DEF Spec, ContractSpec, Contract!Spec
=============================================================================
