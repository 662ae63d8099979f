---------------------------- MODULE Idempotency ----------------------------
(***************************************************************************)
(* Placing an order exactly once over a connection that may drop: the      *)
(* @idempotent wrapper of apps/common/idempotency.py around place_order,   *)
(* one action per access to the shared cache, and the storefront's review  *)
(* step (frontend/components/CheckoutStepper.tsx) that presses the button  *)
(* again with the same key.  Workers die between any two accesses, and the *)
(* lock in the cache expires after LOCK_TTL, whoever holds it by then.     *)
(*                                                                         *)
(* place_order itself is atomic here; Checkout has its statements.         *)
(***************************************************************************)
EXTENDS Naturals, Sequences

CONSTANTS
    Keys,         \* Idempotency-Keys the storefront may draw
    Requests,     \* bound: requests that reach the server, in all
    Bodies,       \* request bodies: address, notes and expected total
    SlowRequests, \* may a request outlive LOCK_TTL?
    MaxRefills,   \* bound: times the bag is filled again in another tab
    NoKey, NoRequest

ASSUME ConstantsAssumption ==
    /\ Bodies # {}
    /\ SlowRequests \in BOOLEAN
    /\ MaxRefills \in Nat
    /\ NoKey \notin Keys
    /\ NoRequest \notin Requests

VARIABLES
    screen,  \* the review step: its key, address and the request it awaits
    used,    \* keys drawn so far
    request, \* each request: where its handler is, its key, body and answer
    lock,    \* lock_key in the cache: the request that added it
    result,  \* result_key in the cache: the fingerprint and the order stored
    orders,  \* the orders placed, oldest first, by key and body
    full,    \* whether the customer's active cart holds anything
    refills  \* times it was filled again

vars == <<screen, used, request, lock, result, orders, full, refills>>

shopVars   == <<orders, full, refills>>
cacheVars  == <<lock, result>>
clientVars == <<screen, used>>

Steps == {"unsent", "started", "adding", "lost", "running", "storing",
          "releasing", "answered", "dead"}

Answers == {"none", "created", "replayed", "in_progress", "other_body",
            "bag_empty", "repriced"}

NoResult == [body |-> "none", order |-> 0]

Unsent == [at |-> "unsent", key |-> NoKey, body |-> "none",
           answer |-> "none", order |-> 0]

RequestRecords ==
    [at : Steps, key : Keys \cup {NoKey}, body : Bodies \cup {"none"},
     answer : Answers, order : Nat]

TypeOK ==
    /\ screen \in [key : Keys \cup {NoKey}, body : Bodies,
                   awaits : Requests \cup {NoRequest}]
    /\ used \subseteq Keys
    /\ request \in [Requests -> RequestRecords]
    /\ \A r \in Requests :
          request[r].at # "unsent" =>
              request[r].key \in Keys /\ request[r].body \in Bodies
    /\ lock \in [Keys -> Requests \cup {NoRequest}]
    /\ result \in [Keys -> [body : Bodies \cup {"none"}, order : Nat]]
    /\ \A k \in Keys :
          result[k] # NoResult =>
              result[k].body \in Bodies /\ result[k].order \in DOMAIN orders
    /\ orders \in Seq([key : Keys, body : Bodies])
    /\ full \in BOOLEAN /\ refills \in 0..MaxRefills

Init ==
    /\ screen \in [key : {NoKey}, body : Bodies, awaits : {NoRequest}]
    /\ used = {}
    /\ request = [r \in Requests |-> Unsent]
    /\ lock = [k \in Keys |-> NoRequest]
    /\ result = [k \in Keys |-> NoResult]
    /\ orders = <<>>
    /\ full = TRUE
    /\ refills = 0

----------------------------------------------------------------------------
(* The review step. *)

\* A quote, asked for or brought by a "prices changed" answer, draws a key.
Requote ==
    /\ screen.awaits = NoRequest
    /\ full
    /\ \E k \in Keys \ used :
          /\ screen' = [screen EXCEPT !.key = k]
          /\ used' = used \cup {k}
    /\ UNCHANGED <<request, cacheVars, shopVars>>

\* The address stays editable after the quote; the key stays the same.
EditAddress(body) ==
    /\ screen' = [screen EXCEPT !.body = body]
    /\ UNCHANGED <<used, request, cacheVars, shopVars>>

PressPlaceOrder(r) ==
    /\ screen.key # NoKey /\ screen.awaits = NoRequest
    /\ request[r] = Unsent
    /\ request' = [request EXCEPT ![r] =
                    [@ EXCEPT !.at = "started", !.key = screen.key,
                              !.body = screen.body]]
    /\ screen' = [screen EXCEPT !.awaits = r]
    /\ UNCHANGED <<used, cacheVars, shopVars>>

\* The answer arrives: the order is shown and the review is over, or an error
\* is shown and the button is live again.
AnswerArrives(r) ==
    /\ screen.awaits = r
    /\ request[r].at = "answered"
    /\ screen' = [screen EXCEPT
                    !.awaits = NoRequest,
                    !.key = IF request[r].answer \in {"created", "replayed"}
                              THEN NoKey ELSE @]
    /\ UNCHANGED <<used, request, cacheVars, shopVars>>

\* The connection drops: the handler, if it lives, goes on unobserved.
ConnectionDrops ==
    /\ screen.awaits # NoRequest
    /\ screen' = [screen EXCEPT !.awaits = NoRequest]
    /\ UNCHANGED <<used, request, cacheVars, shopVars>>

\* The customer fills the bag again, in another tab.
Refill ==
    /\ ~full /\ refills < MaxRefills
    /\ full' = TRUE
    /\ refills' = refills + 1
    /\ UNCHANGED <<clientVars, request, cacheVars, orders>>

----------------------------------------------------------------------------
(* The wrapper. *)

Goto(r, step) == request' = [request EXCEPT ![r].at = step]

Answer(r, answer, order) ==
    request' = [request EXCEPT ![r] =
        [@ EXCEPT !.at = "answered", !.answer = answer, !.order = order]]

\* Mutant: the fingerprint is not compared.
ReplayAnyBody(r) == Answer(r, "replayed", result[request[r].key].order)

\* _replay.
Replay(r) ==
    LET stored == result[request[r].key] IN
    IF stored.body = request[r].body
      THEN Answer(r, "replayed", stored.order)
      ELSE Answer(r, "other_body", 0)

GetResult(r) ==
    /\ request[r].at = "started"
    /\ IF result[request[r].key] # NoResult
         THEN Replay(r)
         ELSE Goto(r, "adding")
    /\ UNCHANGED <<clientVars, cacheVars, shopVars>>

AddLock(r) ==
    LET k == request[r].key IN
    /\ request[r].at = "adding"
    /\ IF lock[k] = NoRequest
         THEN lock' = [lock EXCEPT ![k] = r] /\ Goto(r, "running")
         ELSE UNCHANGED lock /\ Goto(r, "lost")
    /\ UNCHANGED <<clientVars, result, shopVars>>

\* Mutant: the 409 returns through the finally clause too.
GetResultAgainAndUnlock(r) ==
    /\ request[r].at = "lost"
    /\ IF result[request[r].key] # NoResult
         THEN Replay(r)
         ELSE Answer(r, "in_progress", 0)
    /\ lock' = [lock EXCEPT ![request[r].key] = NoRequest]
    /\ UNCHANGED <<clientVars, result, shopVars>>

\* Lost the race to a twin: its answer if it has one by now, else 409.
GetResultAgain(r) ==
    /\ request[r].at = "lost"
    /\ IF result[request[r].key] # NoResult
         THEN Replay(r)
         ELSE Answer(r, "in_progress", 0)
    /\ UNCHANGED <<clientVars, cacheVars, shopVars>>

\* Mutant: refusals are stored like orders.
RunViewStoringAll(r) ==
    /\ request[r].at = "running"
    /\ request' = [request EXCEPT ![r] =
            [@ EXCEPT !.at = "storing",
                      !.answer = IF full THEN "repriced" ELSE "bag_empty"]]
    /\ UNCHANGED <<clientVars, cacheVars, shopVars>>

\* The view commits an order, or refuses and changes nothing.
RunView(r) ==
    /\ request[r].at = "running"
    /\ \/ /\ full
          /\ orders' = Append(orders, [key  |-> request[r].key,
                                       body |-> request[r].body])
          /\ full' = FALSE
          /\ request' = [request EXCEPT ![r] =
                [@ EXCEPT !.at = "storing", !.answer = "created",
                          !.order = Len(orders) + 1]]
          /\ UNCHANGED refills
       \/ /\ \E refusal \in IF full THEN {"repriced"} ELSE {"bag_empty"} :
                request' = [request EXCEPT ![r] =
                    [@ EXCEPT !.at = "releasing", !.answer = refusal]]
          /\ UNCHANGED shopVars
    /\ UNCHANGED <<clientVars, cacheVars>>

SetResult(r) ==
    /\ request[r].at = "storing"
    /\ result' = [result EXCEPT ![request[r].key] =
                    [body |-> request[r].body, order |-> request[r].order]]
    /\ Goto(r, "releasing")
    /\ UNCHANGED <<clientVars, lock, shopVars>>

\* The finally clause deletes the lock, whoever holds it.
DeleteLock(r) ==
    /\ request[r].at = "releasing"
    /\ lock' = [lock EXCEPT ![request[r].key] = NoRequest]
    /\ Goto(r, "answered")
    /\ UNCHANGED <<clientVars, result, shopVars>>

WorkerDies(r) ==
    /\ request[r].at \notin {"unsent", "answered", "dead"}
    /\ Goto(r, "dead")
    /\ UNCHANGED <<clientVars, cacheVars, shopVars>>

\* LOCK_TTL has passed.
LockExpires(k) ==
    /\ lock[k] # NoRequest
    /\ SlowRequests \/ request[lock[k]].at = "dead"
    /\ lock' = [lock EXCEPT ![k] = NoRequest]
    /\ UNCHANGED <<clientVars, request, result, shopVars>>

----------------------------------------------------------------------------
Handle(r) ==
    \/ GetResult(r)
    \/ AddLock(r)
    \/ GetResultAgain(r)
    \/ RunView(r)
    \/ SetResult(r)
    \/ DeleteLock(r)

Next ==
    \/ Requote
    \/ \E b \in Bodies : EditAddress(b)
    \/ \E r \in Requests : PressPlaceOrder(r)
    \/ \E r \in Requests : AnswerArrives(r)
    \/ ConnectionDrops
    \/ Refill
    \/ \E r \in Requests : Handle(r)
    \/ \E r \in Requests : WorkerDies(r)
    \/ \E k \in Keys : LockExpires(k)

Spec == Init /\ [][Next]_vars

----------------------------------------------------------------------------
(* Properties. *)

InView(r) == request[r].at \in {"running", "storing"}

\* While no request outlives LOCK_TTL, requests with one key never run the
\* view at the same time, and the winner of a race is not disturbed by the
\* loser's clean-up or by a dead worker's expired lock.
OneRunAtATime ==
    \A r, s \in Requests :
        InView(r) /\ InView(s) /\ request[r].key = request[s].key => r = s

\* A customer shown an order, first-hand or replayed, is shown one that was
\* placed for that very key with that very body.
ShownOrderIsTheirs ==
    \A r \in Requests :
        request[r].answer \in {"created", "replayed"} =>
            /\ request[r].order \in DOMAIN orders
            /\ orders[request[r].order] = [key  |-> request[r].key,
                                           body |-> request[r].body]

----------------------------------------------------------------------------
(* The inductive invariants of the proofs. *)

\* From the lock it added to the lock it deletes, a request holds its key.
HoldsLock ==
    \A r \in Requests :
        request[r].at \in {"running", "storing", "releasing"}
            => lock[request[r].key] = r

\* What is stored for a key was placed for it; only orders are stored.
StoredOrdersAreReal ==
    /\ \A k \in Keys :
          result[k] # NoResult =>
              /\ result[k].order \in DOMAIN orders
              /\ orders[result[k].order] = [key |-> k, body |-> result[k].body]
    /\ \A r \in Requests :
          request[r].at = "storing" => request[r].answer = "created"
=============================================================================
