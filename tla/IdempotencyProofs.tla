-------------------------- MODULE IdempotencyProofs --------------------------
(***************************************************************************)
(* Theorems about Idempotency, for any number of keys, requests and        *)
(* bodies.                                                                 *)
(***************************************************************************)
EXTENDS Idempotency, TLAPS

USE ConstantsAssumption

\* The part of TypeOK about the requests.
RequestsTyped ==
    /\ request \in [Requests -> RequestRecords]
    /\ \A r \in Requests :
          request[r].at # "unsent" =>
              request[r].key \in Keys /\ request[r].body \in Bodies

\* A handler that takes its next step keeps the key and the body it was sent.
LEMMA GotoType ==
    ASSUME RequestsTyped, NEW r \in Requests, NEW step \in Steps,
           request[r].at # "unsent", Goto(r, step)
    PROVE  RequestsTyped'
  <1>1. [request[r] EXCEPT !.at = step] \in RequestRecords
    BY DEF RequestsTyped, RequestRecords
  <1>2. request' = [request EXCEPT ![r] = [request[r] EXCEPT !.at = step]]
    BY DEF Goto
  <1>3. QED
    BY <1>1, <1>2 DEF RequestsTyped, RequestRecords

\* So does one that answers.
LEMMA AnswerType ==
    ASSUME RequestsTyped, NEW r \in Requests, NEW answer \in Answers,
           NEW order \in Nat, request[r].at # "unsent",
           Answer(r, answer, order)
    PROVE  RequestsTyped'
  <1> DEFINE x == [request[r] EXCEPT !.at = "answered", !.answer = answer,
                                     !.order = order]
  <1>1. x \in RequestRecords
    BY DEF RequestsTyped, RequestRecords, Steps
  <1>2. request' = [request EXCEPT ![r] = x]
    BY DEF Answer
  <1>3. x.key = request[r].key /\ x.body = request[r].body
    BY DEF RequestsTyped, RequestRecords
  <1> HIDE DEF x
  <1>4. QED
    BY <1>1, <1>2, <1>3 DEF RequestsTyped

\* Replaying a stored response is answering.
LEMMA ReplayType ==
    ASSUME TypeOK, NEW r \in Requests, request[r].at # "unsent", Replay(r)
    PROVE  RequestsTyped'
  <1>1. RequestsTyped
    BY DEF TypeOK, RequestsTyped
  <1>2. result[request[r].key].order \in Nat /\ 0 \in Nat
    BY DEF TypeOK
  <1>3. {"replayed", "other_body"} \subseteq Answers
    BY DEF Answers
  <1>4. QED
    BY <1>1, <1>2, <1>3, AnswerType DEF Replay

\* The screen, the cache, the requests and the orders keep their types; a
\* stored response always names an order that exists.
LEMMA TypeStep ==
    TypeOK /\ StoredOrdersAreReal /\ ShownOrderIsTheirs /\ [Next]_vars => TypeOK'
  <1> SUFFICES ASSUME TypeOK, StoredOrdersAreReal, ShownOrderIsTheirs,
                      [Next]_vars
               PROVE  TypeOK'
    OBVIOUS
  <1> USE DEF clientVars, cacheVars, shopVars
  <1>a. RequestsTyped
    BY DEF TypeOK, RequestsTyped
  <1>b. {"adding", "lost", "running", "storing", "releasing", "answered",
         "dead"} \subseteq Steps
    BY DEF Steps
  <1>1. ASSUME Requote PROVE TypeOK'
    BY <1>1 DEF Requote, TypeOK
  <1>2. ASSUME NEW b \in Bodies, EditAddress(b) PROVE TypeOK'
    BY <1>2 DEF EditAddress, TypeOK
  <1>3. ASSUME NEW r \in Requests, PressPlaceOrder(r) PROVE TypeOK'
    BY <1>3 DEF PressPlaceOrder, TypeOK, RequestRecords, Steps, Answers, Unsent
  <1>4. ASSUME NEW r \in Requests, AnswerArrives(r) PROVE TypeOK'
    BY <1>4 DEF AnswerArrives, TypeOK
  <1>5. ASSUME ConnectionDrops PROVE TypeOK'
    BY <1>5 DEF ConnectionDrops, TypeOK
  <1>6. ASSUME Refill PROVE TypeOK'
    BY <1>6 DEF Refill, TypeOK
  <1>7. ASSUME NEW r \in Requests, GetResult(r) PROVE TypeOK'
    <2>1. RequestsTyped'
      BY <1>7, <1>a, <1>b, ReplayType, GotoType DEF GetResult
    <2>2. QED
      BY <1>7, <2>1 DEF GetResult, TypeOK, RequestsTyped
  <1>8. ASSUME NEW r \in Requests, AddLock(r) PROVE TypeOK'
    <2>1. RequestsTyped'
      BY <1>8, <1>a, <1>b, GotoType DEF AddLock
    <2>2. request[r].key \in Keys
      BY <1>8, <1>a DEF AddLock, RequestsTyped
    <2>3. QED
      BY <1>8, <2>1, <2>2 DEF AddLock, TypeOK, RequestsTyped
  <1>9. ASSUME NEW r \in Requests, GetResultAgain(r) PROVE TypeOK'
    <2>1. "in_progress" \in Answers /\ 0 \in Nat
      BY DEF Answers
    <2>2. RequestsTyped'
      BY <1>9, <1>a, <2>1, ReplayType, AnswerType DEF GetResultAgain
    <2>3. QED
      BY <1>9, <2>2 DEF GetResultAgain, TypeOK, RequestsTyped
  <1>10. ASSUME NEW r \in Requests, RunView(r) PROVE TypeOK'
    <2>1. request[r] \in RequestRecords
      BY DEF TypeOK
    <2>2. CASE UNCHANGED shopVars
      <3>1. PICK refusal \in {"repriced", "bag_empty"} :
              request' = [request EXCEPT ![r] =
                [@ EXCEPT !.at = "releasing", !.answer = refusal]]
        BY <1>10, <2>2 DEF RunView, TypeOK
      <3>2. [request[r] EXCEPT !.at = "releasing", !.answer = refusal]
              \in RequestRecords
        BY <2>1 DEF RequestRecords, Steps, Answers
      <3>3. RequestsTyped'
        BY <1>10, <1>a, <2>1, <3>1, <3>2 DEF RunView, RequestsTyped, RequestRecords
      <3>4. QED
        BY <1>10, <2>2, <3>3 DEF RunView, TypeOK, RequestsTyped
    <2>3. CASE ~UNCHANGED shopVars
      <3> DEFINE new == [key |-> request[r].key, body |-> request[r].body]
                 x == [request[r] EXCEPT !.at = "storing", !.answer = "created",
                                         !.order = Len(orders) + 1]
      <3>1. /\ orders' = Append(orders, new)
            /\ request' = [request EXCEPT ![r] = x]
            /\ full' = FALSE /\ UNCHANGED <<refills, clientVars, cacheVars>>
        BY <1>10, <2>3 DEF RunView
      <3>2. /\ new \in [key : Keys, body : Bodies]
            /\ orders \in Seq([key : Keys, body : Bodies])
        BY <1>10, <1>a DEF RunView, RequestsTyped, TypeOK
      <3>0. Len(orders) + 1 \in Nat
        BY <3>2
      <3>3. x \in RequestRecords
        BY <2>1, <3>0 DEF RequestRecords, Steps, Answers
      <3>4. x.key = request[r].key /\ x.body = request[r].body
        BY <2>1 DEF RequestRecords
      <3> HIDE DEF new, x
      <3>5. RequestsTyped'
        BY <1>10, <1>a, <3>1, <3>3, <3>4 DEF RunView, RequestsTyped
      <3>6. /\ orders' \in Seq([key : Keys, body : Bodies])
            /\ DOMAIN orders \subseteq DOMAIN orders'
        BY <3>1, <3>2
      <3>7. QED
        BY <3>1, <3>5, <3>6 DEF TypeOK, RequestsTyped
    <2>4. QED
      BY <2>2, <2>3
  <1>11. ASSUME NEW r \in Requests, SetResult(r) PROVE TypeOK'
    <2>1. RequestsTyped'
      BY <1>11, <1>a, <1>b, GotoType DEF SetResult
    <2>2. /\ request[r].key \in Keys /\ request[r].body \in Bodies
          /\ request[r].order \in Nat /\ request[r].order \in DOMAIN orders
      BY <1>11, <1>a
         DEF SetResult, RequestsTyped, RequestRecords, StoredOrdersAreReal,
             ShownOrderIsTheirs
    <2>3. QED
      BY <1>11, <2>1, <2>2 DEF SetResult, TypeOK, RequestsTyped
  <1>12. ASSUME NEW r \in Requests, DeleteLock(r) PROVE TypeOK'
    <2>1. RequestsTyped'
      BY <1>12, <1>a, <1>b, GotoType DEF DeleteLock
    <2>2. QED
      BY <1>12, <2>1 DEF DeleteLock, TypeOK, RequestsTyped
  <1>13. ASSUME NEW r \in Requests, WorkerDies(r) PROVE TypeOK'
    <2>1. RequestsTyped'
      BY <1>13, <1>a, <1>b, GotoType DEF WorkerDies
    <2>2. QED
      BY <1>13, <2>1 DEF WorkerDies, TypeOK, RequestsTyped
  <1>14. ASSUME NEW k \in Keys, LockExpires(k) PROVE TypeOK'
    BY <1>14 DEF LockExpires, TypeOK
  <1>15. CASE UNCHANGED vars
    BY <1>15 DEF vars, TypeOK
  <1>16. QED
    BY <1>1, <1>2, <1>3, <1>4, <1>5, <1>6, <1>7, <1>8, <1>9, <1>10, <1>11,
       <1>12, <1>13, <1>14, <1>15 DEF Next, Handle

----------------------------------------------------------------------------
(* The orders customers are shown. *)

\* Handlers other than the one that takes a step keep what they had.
Untouched(r) == \A q \in Requests \ {r} : request'[q] = request[q]

\* A request that only moves on, or answers without an order, disturbs
\* nothing that is stored or shown.
LEMMA MovesOn ==
    ASSUME RequestsTyped, StoredOrdersAreReal, ShownOrderIsTheirs,
           NEW r \in Requests, NEW step \in Steps \ {"storing"},
           Goto(r, step), UNCHANGED <<result, orders>>
    PROVE  StoredOrdersAreReal' /\ ShownOrderIsTheirs'
  <1>1. /\ request'[r] = [request[r] EXCEPT !.at = step]
        /\ Untouched(r)
    BY DEF Goto, RequestsTyped, Untouched
  <1>2. /\ request'[r].at = step
        /\ request'[r].answer = request[r].answer
        /\ request'[r].order = request[r].order
        /\ request'[r].key = request[r].key
        /\ request'[r].body = request[r].body
    BY <1>1 DEF RequestsTyped, RequestRecords
  <1>3. StoredOrdersAreReal'
    BY <1>1, <1>2 DEF StoredOrdersAreReal, Untouched
  <1>4. ShownOrderIsTheirs'
    <2> SUFFICES ASSUME NEW q \in Requests,
                        request'[q].answer \in {"created", "replayed"}
                 PROVE  /\ request'[q].order \in DOMAIN orders
                        /\ orders[request'[q].order] =
                              [key |-> request'[q].key, body |-> request'[q].body]
      BY DEF ShownOrderIsTheirs
    <2>1. CASE q = r
      BY <1>2, <2>1 DEF ShownOrderIsTheirs
    <2>2. CASE q # r
      BY <1>1, <2>2 DEF ShownOrderIsTheirs, Untouched
    <2>3. QED
      BY <2>1, <2>2
  <1>5. QED
    BY <1>3, <1>4

\* An answer shows an order only if it was placed for this key and body.
LEMMA AnswersHonestly ==
    ASSUME RequestsTyped, StoredOrdersAreReal, ShownOrderIsTheirs,
           NEW r \in Requests, NEW answer, NEW order, Answer(r, answer, order),
           answer \in {"created", "replayed"} =>
               /\ order \in DOMAIN orders
               /\ orders[order] = [key |-> request[r].key,
                                   body |-> request[r].body],
           UNCHANGED <<result, orders>>
    PROVE  StoredOrdersAreReal' /\ ShownOrderIsTheirs'
  <1>1. /\ request'[r] = [request[r] EXCEPT !.at = "answered",
                             !.answer = answer, !.order = order]
        /\ Untouched(r)
    BY DEF Answer, RequestsTyped, Untouched
  <1>2. /\ request'[r].at = "answered"
        /\ request'[r].answer = answer
        /\ request'[r].order = order
        /\ request'[r].key = request[r].key
        /\ request'[r].body = request[r].body
    BY <1>1 DEF RequestsTyped, RequestRecords
  <1>3. StoredOrdersAreReal'
    BY <1>1, <1>2 DEF StoredOrdersAreReal, Untouched
  <1>4. ShownOrderIsTheirs'
    <2> SUFFICES ASSUME NEW q \in Requests,
                        request'[q].answer \in {"created", "replayed"}
                 PROVE  /\ request'[q].order \in DOMAIN orders
                        /\ orders[request'[q].order] =
                              [key |-> request'[q].key, body |-> request'[q].body]
      BY DEF ShownOrderIsTheirs
    <2>1. CASE q = r
      BY <1>2, <2>1 DEF ShownOrderIsTheirs
    <2>2. CASE q # r
      BY <1>1, <2>2 DEF ShownOrderIsTheirs, Untouched
    <2>3. QED
      BY <2>1, <2>2
  <1>5. QED
    BY <1>3, <1>4

\* _replay shows the stored order to a request that sent the same body.
LEMMA ReplaysHonestly ==
    ASSUME TypeOK, StoredOrdersAreReal, ShownOrderIsTheirs,
           NEW r \in Requests, request[r].at # "unsent",
           result[request[r].key] # NoResult, Replay(r),
           UNCHANGED <<result, orders>>
    PROVE  StoredOrdersAreReal' /\ ShownOrderIsTheirs'
  <1>1. RequestsTyped /\ request[r].key \in Keys
    BY DEF TypeOK, RequestsTyped
  <1>2. CASE result[request[r].key].body = request[r].body
    <2>1. Answer(r, "replayed", result[request[r].key].order)
      BY <1>2 DEF Replay
    <2>2. /\ result[request[r].key].order \in DOMAIN orders
          /\ orders[result[request[r].key].order] =
                [key |-> request[r].key, body |-> request[r].body]
      BY <1>1, <1>2 DEF StoredOrdersAreReal
    <2>3. QED
      BY <1>1, <2>1, <2>2, AnswersHonestly
  <1>3. CASE result[request[r].key].body # request[r].body
    <2>1. Answer(r, "other_body", 0)
      BY <1>3 DEF Replay
    <2>2. QED
      BY <1>1, <2>1, AnswersHonestly
  <1>4. QED
    BY <1>2, <1>3

\* An order appended by one request leaves the orders before it in place.
LEMMA OrdersStay ==
    ASSUME NEW S, NEW s \in Seq(S), NEW x \in S
    PROVE  /\ DOMAIN s \subseteq DOMAIN Append(s, x)
           /\ \A i \in DOMAIN s : Append(s, x)[i] = s[i]
           /\ Len(s) + 1 \in DOMAIN Append(s, x)
           /\ Append(s, x)[Len(s) + 1] = x
  OBVIOUS

\* The view shows the order it has just placed, and disturbs no other.
LEMMA ViewKeepsStored ==
    ASSUME TypeOK, StoredOrdersAreReal, ShownOrderIsTheirs,
           NEW r \in Requests, RunView(r)
    PROVE  StoredOrdersAreReal' /\ ShownOrderIsTheirs'
  <1>1. Untouched(r) /\ UNCHANGED result
    BY DEF RunView, Untouched, TypeOK, cacheVars
  <1>2. request[r] \in RequestRecords
    BY DEF TypeOK
  <1>3. CASE UNCHANGED shopVars
    <2>0. PICK refusal \in {"repriced", "bag_empty"} :
            request' = [request EXCEPT ![r] =
              [@ EXCEPT !.at = "releasing", !.answer = refusal]]
      BY <1>3 DEF RunView, shopVars, TypeOK
    <2>1. UNCHANGED orders /\ request'[r].at = "releasing"
          /\ request'[r].answer \in {"repriced", "bag_empty"}
      BY <1>2, <1>3, <2>0 DEF shopVars, TypeOK, RequestRecords
    <2>2. StoredOrdersAreReal'
      BY <1>1, <2>1 DEF StoredOrdersAreReal, Untouched
    <2>3. ShownOrderIsTheirs'
      <3> SUFFICES ASSUME NEW q \in Requests,
                          request'[q].answer \in {"created", "replayed"}
                   PROVE  /\ request'[q].order \in DOMAIN orders
                          /\ orders[request'[q].order] =
                                [key |-> request'[q].key,
                                 body |-> request'[q].body]
        BY <2>1 DEF ShownOrderIsTheirs
      <3>1. q # r
        BY <2>1
      <3>2. QED
        BY <1>1, <3>1 DEF ShownOrderIsTheirs, Untouched
    <2>4. QED
      BY <2>2, <2>3
  <1>4. CASE ~UNCHANGED shopVars
    <2> DEFINE new == [key |-> request[r].key, body |-> request[r].body]
    <2>1. /\ orders' = Append(orders, new)
          /\ request' = [request EXCEPT ![r] =
                [@ EXCEPT !.at = "storing", !.answer = "created",
                          !.order = Len(orders) + 1]]
      BY <1>4 DEF RunView
    <2>2. /\ request'[r].at = "storing" /\ request'[r].answer = "created"
          /\ request'[r].order = Len(orders) + 1
          /\ request'[r].key = request[r].key
          /\ request'[r].body = request[r].body
      BY <1>2, <2>1 DEF TypeOK, RequestRecords
    <2>3. /\ new \in [key : Keys, body : Bodies]
          /\ orders \in Seq([key : Keys, body : Bodies])
      BY DEF RunView, TypeOK
    <2> HIDE DEF new
    <2>4. /\ DOMAIN orders \subseteq DOMAIN orders'
          /\ \A i \in DOMAIN orders : orders'[i] = orders[i]
          /\ Len(orders) + 1 \in DOMAIN orders'
          /\ orders'[Len(orders) + 1] = new
      BY <2>1, <2>3, OrdersStay
    <2>5. StoredOrdersAreReal'
      BY <1>1, <2>2, <2>4 DEF StoredOrdersAreReal, Untouched
    <2>6. ShownOrderIsTheirs'
      <3> SUFFICES ASSUME NEW q \in Requests,
                          request'[q].answer \in {"created", "replayed"}
                   PROVE  /\ request'[q].order \in DOMAIN orders'
                          /\ orders'[request'[q].order] =
                                [key |-> request'[q].key,
                                 body |-> request'[q].body]
        BY DEF ShownOrderIsTheirs
      <3>1. CASE q = r
        BY <2>2, <2>4, <3>1 DEF new
      <3>2. CASE q # r
        BY <1>1, <2>4, <3>2 DEF ShownOrderIsTheirs, Untouched
      <3>3. QED
        BY <3>1, <3>2
    <2>7. QED
      BY <2>5, <2>6
  <1>5. QED
    BY <1>3, <1>4

\* Every step keeps what is stored and shown true to what was placed.
LEMMA StoredStep ==
    ASSUME TypeOK, StoredOrdersAreReal, ShownOrderIsTheirs, [Next]_vars
    PROVE  StoredOrdersAreReal' /\ ShownOrderIsTheirs'
  <1> DEFINE Goal == StoredOrdersAreReal' /\ ShownOrderIsTheirs'
  <1>a. RequestsTyped
    BY DEF TypeOK, RequestsTyped
  <1>b. {"adding", "lost", "running", "releasing", "answered", "dead"}
          \subseteq Steps \ {"storing"}
    BY DEF Steps
  <1>1. ASSUME UNCHANGED <<request, result, orders>> PROVE Goal
    BY <1>1 DEF StoredOrdersAreReal, ShownOrderIsTheirs
  <1>2. ASSUME NEW r \in Requests, PressPlaceOrder(r) PROVE Goal
    <2>1. /\ Untouched(r) /\ UNCHANGED <<result, orders>>
          /\ request'[r].at = "started" /\ request'[r].answer = "none"
      BY <1>2 DEF PressPlaceOrder, Untouched, Unsent, TypeOK, RequestRecords,
                  cacheVars, shopVars
    <2>2. QED
      BY <2>1 DEF Untouched, StoredOrdersAreReal, ShownOrderIsTheirs
  <1>3. ASSUME NEW r \in Requests, GetResult(r) PROVE Goal
    <2>1. UNCHANGED <<result, orders>> /\ request[r].at # "unsent"
      BY <1>3 DEF GetResult, cacheVars, shopVars
    <2>2. QED
      BY <1>3, <1>a, <1>b, <2>1, ReplaysHonestly, MovesOn DEF GetResult
  <1>4. ASSUME NEW r \in Requests, AddLock(r) PROVE Goal
    <2>1. UNCHANGED <<result, orders>>
      BY <1>4 DEF AddLock, shopVars
    <2>2. QED
      BY <1>4, <1>a, <1>b, <2>1, MovesOn DEF AddLock
  <1>5. ASSUME NEW r \in Requests, GetResultAgain(r) PROVE Goal
    <2>1. UNCHANGED <<result, orders>> /\ request[r].at # "unsent"
      BY <1>5 DEF GetResultAgain, cacheVars, shopVars
    <2>2. CASE result[request[r].key] # NoResult
      BY <1>5, <2>1, <2>2, ReplaysHonestly DEF GetResultAgain
    <2>3. CASE result[request[r].key] = NoResult
      <3>1. Answer(r, "in_progress", 0)
        BY <1>5, <2>3 DEF GetResultAgain
      <3>2. QED
        BY <1>a, <2>1, <3>1, AnswersHonestly
    <2>4. QED
      BY <2>2, <2>3
  <1>6. ASSUME NEW r \in Requests, RunView(r) PROVE Goal
    BY <1>6, ViewKeepsStored
  <1>7. ASSUME NEW r \in Requests, SetResult(r) PROVE Goal
    <2>1. request[r].answer = "created" /\ request[r].key \in Keys
          /\ request[r].at = "storing"
      BY <1>7, <1>a DEF SetResult, StoredOrdersAreReal, RequestsTyped
    <2>2. /\ request[r].order \in DOMAIN orders
          /\ orders[request[r].order] = [key  |-> request[r].key,
                                         body |-> request[r].body]
      BY <2>1 DEF ShownOrderIsTheirs
    <2>3. /\ request'[r].at = "releasing"
          /\ request'[r].answer = request[r].answer
          /\ request'[r].order = request[r].order
          /\ request'[r].key = request[r].key
          /\ request'[r].body = request[r].body
          /\ Untouched(r) /\ UNCHANGED orders
      BY <1>7, <1>a DEF SetResult, Goto, RequestsTyped, RequestRecords,
                        Untouched, shopVars
    <2>4. ShownOrderIsTheirs'
      <3> SUFFICES ASSUME NEW q \in Requests,
                          request'[q].answer \in {"created", "replayed"}
                   PROVE  /\ request'[q].order \in DOMAIN orders
                          /\ orders[request'[q].order] =
                                [key |-> request'[q].key,
                                 body |-> request'[q].body]
        BY <2>3 DEF ShownOrderIsTheirs
      <3>1. CASE q = r
        BY <2>2, <2>3, <3>1
      <3>2. CASE q # r
        BY <2>3, <3>2 DEF ShownOrderIsTheirs, Untouched
      <3>3. QED
        BY <3>1, <3>2
    <2>5. result' = [result EXCEPT ![request[r].key] =
                        [body |-> request[r].body, order |-> request[r].order]]
      BY <1>7 DEF SetResult
    <2>6. ASSUME NEW k \in Keys, result'[k] # NoResult
          PROVE  /\ result'[k].order \in DOMAIN orders
                 /\ orders[result'[k].order] =
                       [key |-> k, body |-> result'[k].body]
      <3>1. CASE k = request[r].key
        BY <2>1, <2>2, <2>5, <3>1 DEF TypeOK
      <3>2. CASE k # request[r].key
        BY <2>5, <2>6, <3>2 DEF StoredOrdersAreReal, TypeOK
      <3>3. QED
        BY <3>1, <3>2
    <2>7. QED
      BY <2>3, <2>4, <2>6 DEF StoredOrdersAreReal, Untouched
  <1>8. ASSUME NEW r \in Requests, DeleteLock(r) PROVE Goal
    <2>1. UNCHANGED <<result, orders>>
      BY <1>8 DEF DeleteLock, shopVars
    <2>2. QED
      BY <1>8, <1>a, <1>b, <2>1, MovesOn DEF DeleteLock
  <1>9. ASSUME NEW r \in Requests, WorkerDies(r) PROVE Goal
    <2>1. UNCHANGED <<result, orders>>
      BY <1>9 DEF WorkerDies, cacheVars, shopVars
    <2>2. QED
      BY <1>9, <1>a, <1>b, <2>1, MovesOn DEF WorkerDies
  <1> HIDE DEF Goal
  <1>10. Goal
    BY <1>1, <1>2, <1>3, <1>4, <1>5, <1>6, <1>7, <1>8, <1>9
       DEF Next, Handle, vars, Requote, EditAddress, AnswerArrives,
           ConnectionDrops, Refill, LockExpires, cacheVars, shopVars
  <1>11. QED
    BY <1>10 DEF Goal

----------------------------------------------------------------------------
(* The lock. *)

\* r has added the lock of its key and has not deleted it.
Holding(r) == request[r].at \in {"running", "storing", "releasing"}

\* While no request outlives LOCK_TTL, a lock is added by the request that
\* holds it and removed by that request or after its worker died.
LEMMA HoldsLockStep ==
    ASSUME ~SlowRequests, TypeOK, HoldsLock, [Next]_vars
    PROVE  HoldsLock'
  <1> DEFINE Goal == HoldsLock'
  <1>a. RequestsTyped
    BY DEF TypeOK, RequestsTyped
  \* What every step but those on the lock amounts to.
  <1>b. ASSUME NEW r \in Requests, Untouched(r), UNCHANGED lock,
               request'[r].key = request[r].key,
               Holding(r)' => Holding(r)
        PROVE  Goal
    BY <1>b DEF HoldsLock, Holding, Untouched
  <1>c. ASSUME NEW r \in Requests, NEW step \in Steps, Goto(r, step)
        PROVE  /\ Untouched(r) /\ request'[r].at = step
               /\ request'[r].key = request[r].key
    BY <1>a, <1>c DEF Goto, Untouched, RequestsTyped, RequestRecords
  <1>d. ASSUME NEW r \in Requests, NEW answer, NEW order,
               Answer(r, answer, order)
        PROVE  /\ Untouched(r) /\ request'[r].at = "answered"
               /\ request'[r].key = request[r].key
    BY <1>a, <1>d DEF Answer, Untouched, RequestsTyped, RequestRecords
  <1>e. {"adding", "lost", "running", "releasing", "answered", "dead"}
          \subseteq Steps
    BY DEF Steps
  <1>1. ASSUME UNCHANGED <<request, lock>> PROVE Goal
    BY <1>1 DEF HoldsLock
  <1>2. ASSUME NEW r \in Requests, PressPlaceOrder(r) PROVE Goal
    <2>1. /\ Untouched(r) /\ request'[r].at = "started" /\ UNCHANGED lock
      BY <1>2 DEF PressPlaceOrder, Untouched, Unsent, TypeOK, RequestRecords,
                  cacheVars
    <2>2. QED
      BY <2>1 DEF HoldsLock, Untouched
  <1>3. ASSUME NEW r \in Requests, GetResult(r) PROVE Goal
    <2>1. UNCHANGED lock /\ Untouched(r) /\ request'[r].key = request[r].key
          /\ request'[r].at \in {"adding", "answered"}
      BY <1>3, <1>c, <1>d, <1>e DEF GetResult, Replay, cacheVars
    <2>2. QED
      BY <1>b, <2>1 DEF Holding
  <1>4. ASSUME NEW r \in Requests, AddLock(r) PROVE Goal
    <2> DEFINE k == request[r].key
    <2>1. k \in Keys
      BY <1>4, <1>a DEF AddLock, RequestsTyped
    <2>2. CASE lock[k] = NoRequest
      <3>1. /\ lock' = [lock EXCEPT ![k] = r]
            /\ Untouched(r) /\ request'[r].at = "running" /\ request'[r].key = k
        BY <1>4, <1>c, <1>e, <2>2 DEF AddLock
      <3>2. ASSUME NEW q \in Requests, Holding(q)'
            PROVE  lock'[request'[q].key] = q
        <4>1. CASE q = r
          BY <2>1, <3>1, <4>1 DEF TypeOK
        <4>2. CASE q # r
          <5>1. request'[q] = request[q]
            BY <3>1, <4>2 DEF Untouched
          <5>2. lock[request[q].key] = q /\ request[q].key \in Keys
            BY <1>a, <3>2, <5>1 DEF HoldsLock, Holding, RequestsTyped
          <5>3. QED
            BY <2>1, <2>2, <3>1, <5>1, <5>2 DEF TypeOK
        <4>3. QED
          BY <4>1, <4>2
      <3>3. QED
        BY <3>2 DEF HoldsLock, Holding
    <2>3. CASE lock[k] # NoRequest
      <3>1. UNCHANGED lock /\ Untouched(r) /\ request'[r].key = k
            /\ request'[r].at = "lost"
        BY <1>4, <1>c, <1>e, <2>3 DEF AddLock
      <3>2. QED
        BY <1>b, <3>1 DEF Holding
    <2>4. QED
      BY <2>2, <2>3
  <1>5. ASSUME NEW r \in Requests, GetResultAgain(r) PROVE Goal
    <2>1. UNCHANGED lock /\ Untouched(r) /\ request'[r].key = request[r].key
          /\ request'[r].at = "answered"
      BY <1>5, <1>d DEF GetResultAgain, Replay, cacheVars
    <2>2. QED
      BY <1>b, <2>1 DEF Holding
  <1>6. ASSUME NEW r \in Requests, RunView(r) PROVE Goal
    <2>1. /\ UNCHANGED lock /\ Untouched(r)
          /\ request'[r].key = request[r].key
      BY <1>6, <1>a DEF RunView, Untouched, RequestsTyped, RequestRecords,
                        cacheVars
    <2>2. Holding(r)
      BY <1>6 DEF RunView, Holding
    <2>3. QED
      BY <1>b, <2>1, <2>2
  <1>7. ASSUME NEW r \in Requests, SetResult(r) PROVE Goal
    <2>1. UNCHANGED lock /\ Untouched(r) /\ request'[r].key = request[r].key
      BY <1>7, <1>c, <1>e DEF SetResult
    <2>2. Holding(r)
      BY <1>7 DEF SetResult, Holding
    <2>3. QED
      BY <1>b, <2>1, <2>2
  <1>8. ASSUME NEW r \in Requests, DeleteLock(r) PROVE Goal
    <2>1. /\ lock' = [lock EXCEPT ![request[r].key] = NoRequest]
          /\ Untouched(r) /\ request'[r].at = "answered"
          /\ lock[request[r].key] = r
      BY <1>8, <1>c, <1>e DEF DeleteLock, HoldsLock
    <2>2. ASSUME NEW q \in Requests, Holding(q)'
          PROVE  lock'[request'[q].key] = q
      <3>1. q # r /\ request'[q] = request[q]
        BY <2>1, <2>2 DEF Holding, Untouched
      <3>2. lock[request[q].key] = q /\ request[q].key \in Keys
        BY <1>a, <2>2, <3>1 DEF HoldsLock, Holding, RequestsTyped
      <3>3. QED
        BY <2>1, <3>1, <3>2 DEF TypeOK
    <2>3. QED
      BY <2>2 DEF HoldsLock, Holding
  <1>9. ASSUME NEW r \in Requests, WorkerDies(r) PROVE Goal
    <2>1. UNCHANGED lock /\ Untouched(r) /\ request'[r].key = request[r].key
          /\ request'[r].at = "dead"
      BY <1>9, <1>c, <1>e DEF WorkerDies, cacheVars
    <2>2. QED
      BY <1>b, <2>1 DEF Holding
  <1>10. ASSUME NEW k \in Keys, LockExpires(k) PROVE Goal
    <2>1. /\ lock' = [lock EXCEPT ![k] = NoRequest] /\ UNCHANGED request
          /\ request[lock[k]].at = "dead"
      BY <1>10 DEF LockExpires
    <2>2. ASSUME NEW q \in Requests, Holding(q)
          PROVE  lock'[request[q].key] = q
      <3>1. lock[request[q].key] = q /\ request[q].key \in Keys
        BY <1>a, <2>2 DEF HoldsLock, Holding, RequestsTyped
      <3>2. request[q].key # k
        BY <2>1, <2>2, <3>1 DEF Holding
      <3>3. QED
        BY <2>1, <3>1, <3>2 DEF TypeOK
    <2>3. QED
      BY <2>1, <2>2 DEF HoldsLock, Holding
  <1> HIDE DEF Goal
  <1>11. Goal
    BY <1>1, <1>2, <1>3, <1>4, <1>5, <1>6, <1>7, <1>8, <1>9, <1>10
       DEF Next, Handle, vars, Requote, EditAddress, AnswerArrives,
           ConnectionDrops, Refill, cacheVars
  <1>12. QED
    BY <1>11 DEF Goal

----------------------------------------------------------------------------
(* The theorems. *)

\* Before anything was sent nothing is stored, shown or locked.
LEMMA InitStored ==
    Init => TypeOK /\ StoredOrdersAreReal /\ ShownOrderIsTheirs /\ HoldsLock
  BY DEF Init, TypeOK, RequestRecords, Steps, Answers, Unsent, NoResult,
         StoredOrdersAreReal, ShownOrderIsTheirs, HoldsLock

\* Types, stored responses and shown orders stand together.
LEMMA StoredInvariant ==
    Spec => [](TypeOK /\ StoredOrdersAreReal /\ ShownOrderIsTheirs)
  <1>1. TypeOK /\ StoredOrdersAreReal /\ ShownOrderIsTheirs /\ [Next]_vars
          => (TypeOK /\ StoredOrdersAreReal /\ ShownOrderIsTheirs)'
    BY TypeStep, StoredStep
  <1>2. QED
    BY <1>1, InitStored, PTL DEF Spec

\* Type correctness of the review step, the wrapper and the cache; in
\* particular a stored response always names an existing order.
THEOREM TypeCorrect == Spec => []TypeOK
  BY StoredInvariant, PTL

\* A customer is never shown another attempt's order, or an order with a body
\* they did not send, whatever connections, workers and locks do: also when
\* a request outlives its lock.
THEOREM ShownOrderTheorem == Spec => []ShownOrderIsTheirs
  BY StoredInvariant, PTL

\* If no request outlives LOCK_TTL, the wrapper lets one request per key into
\* the view at a time, although workers die with the lock and losers of the
\* race answer while the winner runs.
THEOREM OneRunTheorem ==
    ASSUME ~SlowRequests
    PROVE  Spec => []OneRunAtATime
  <1>1. TypeOK /\ HoldsLock /\ [Next]_vars => HoldsLock'
    BY HoldsLockStep
  <1>2. HoldsLock => OneRunAtATime
    BY DEF HoldsLock, OneRunAtATime, InView
  <1>3. QED
    BY <1>1, <1>2, InitStored, TypeCorrect, PTL DEF Spec
=============================================================================
