--------------------------- MODULE StorefrontBag ---------------------------
(***************************************************************************)
(* The bag one customer fills in several tabs of one browser, and its way  *)
(* to the server: useCartStore, the drawer, CheckoutFlow and the review of *)
(* CheckoutStepper.                                                        *)
(*                                                                         *)
(* Each tab holds the bag in memory, loaded from localStorage when the     *)
(* page was; every change of its store, the drawer's opening among them,   *)
(* writes that tab's bag over the stored one, and no tab is told of it.    *)
(* At checkout the tab's bag replaces the server's cart.  The drawer opens *)
(* on every page, so the bag can be edited while an order is reviewed.     *)
(*                                                                         *)
(* The replacement of the cart is a DELETE and then an INSERT or UPDATE    *)
(* for each line, at READ COMMITTED, under the locks of rows only.  Bag    *)
(* takes it statement by statement; here it is two steps, the snapshot of  *)
(* the DELETE and the COMMIT, which is all that another transaction sees   *)
(* of it.  A placement locks the cart and is one step (Checkout takes it   *)
(* apart).  A retried placement is answered as the first one was           *)
(* (Idempotency), so a lost answer only comes later.                       *)
(***************************************************************************)
EXTENDS Naturals, Sequences, FiniteSets, FiniteSetsExt

CONSTANTS
    Tabs,
    Variants,
    Stock,       \* stock_quantity of each variant: other customers are left out
    Price,
    MaxQuantity, \* MAX_QUANTITY_PER_LINE of the server
    MaxPieces,   \* bound: pieces of a variant a tab's bag is raised to
    MaxVisits    \* bound: bags handed to the server

ASSUME ConstantsAssumption ==
    /\ Stock \in [Variants -> Nat]
    /\ Price \in [Variants -> Nat \ {0}]
    /\ MaxQuantity \in Nat \ {0}
    /\ MaxPieces \in Nat
    /\ MaxVisits \in Nat

VARIABLES
    stored,  \* the bag in localStorage
    bag,     \* the bag each tab shows
    page,    \* where each tab is
    sent,    \* the bag a tab's replace request carries, Empty for none
    skipped, \* the variants the answer to it says are gone
    quote,   \* the order on review in each tab, at most one
    placing, \* the placement on its way from each tab, at most one
    awaited, \* tabs whose placed order the browser has not heard of yet
    listed,  \* variants that are active on an active product
    cart,    \* the lines of the customer's active cart
    merging, \* the transaction of each tab's replace request, at most one
    handed,  \* what the last hand-over may have left, and how many there were
    orders

tabVars == <<stored, bag, page, sent, skipped, quote, awaited>>
serverVars == <<listed, cart, merging, placing, handed, orders>>
vars == <<tabVars, serverVars>>

Lines == [Variants -> Nat]

Empty == [v \in Variants |-> 0]

In(lines) == {v \in Variants : lines[v] > 0}

\* "over": a message, that the bag is empty or the hand-over failed, is shown
\* instead of the stepper.
Pages == {"shop", "syncing", "answered", "ready", "over"}

Together(a, b) == [v \in Variants |-> a[v] + b[v]]

\* A replacement under way: the lines its DELETE sees, what other hand-overs
\* have committed since (a history variable), and whether the cart it fetched
\* is still the active one.
Merges == [old : SUBSET Variants, since : Lines, live : BOOLEAN]

Total(lines) == MapThenSumSet(LAMBDA v : lines[v] * Price[v], Variants)

TypeOK ==
    /\ stored \in Lines
    /\ bag \in [Tabs -> Lines]
    /\ page \in [Tabs -> Pages]
    /\ sent \in [Tabs -> Lines]
    /\ skipped \in [Tabs -> SUBSET Variants]
    /\ \A t \in Tabs : \A q \in quote[t] : q.lines \in Lines /\ q.total = Total(q.lines)
    /\ \A t \in Tabs : merging[t] \subseteq Merges
    /\ \A t \in Tabs : \A p \in placing[t] : p.shown \in Lines
    /\ awaited \subseteq Tabs
    /\ listed \subseteq Variants
    /\ cart \in [Variants -> 0..MaxQuantity]
    /\ handed.bag \in Lines /\ handed.visits \in Nat
    /\ \A i \in DOMAIN orders :
          /\ {orders[i].lines, orders[i].shown, orders[i].handed} \subseteq Lines
          /\ orders[i].total = Total(orders[i].lines) /\ orders[i].visit \in Nat

\* The server's cart may hold what an earlier session left in it.
Init ==
    /\ stored = Empty
    /\ bag = [t \in Tabs |-> Empty]
    /\ page = [t \in Tabs |-> "shop"]
    /\ sent = [t \in Tabs |-> Empty]
    /\ skipped = [t \in Tabs |-> {}]
    /\ quote = [t \in Tabs |-> {}]
    /\ merging = [t \in Tabs |-> {}]
    /\ placing = [t \in Tabs |-> {}]
    /\ awaited = {}
    /\ listed = Variants
    /\ cart \in [Variants -> 0..1]
    /\ handed = [bag |-> Empty, visits |-> 0]
    /\ orders = <<>>

----------------------------------------------------------------------------
(* The store of one tab. *)

\* set(): the tab's bag, and all of it into localStorage.  A bag that becomes
\* empty unmounts the stepper, and its quote goes with it.
Set(t, lines) ==
    /\ bag' = [bag EXCEPT ![t] = lines]
    /\ stored' = lines
    /\ quote' = IF lines = Empty THEN [quote EXCEPT ![t] = {}] ELSE quote

\* addItem of one piece; the page may be older than the catalogue.
Adds(t, v) ==
    /\ page[t] = "shop"
    /\ Stock[v] > 0
    /\ bag[t][v] < MaxPieces
    /\ Set(t, [bag[t] EXCEPT ![v] = @ + 1])
    /\ UNCHANGED <<page, sent, skipped, awaited, serverVars>>

\* The drawer's buttons, on every page: updateQuantity and removeItem.
Plus(t, v) ==
    /\ bag[t][v] \in 1..(MaxPieces - 1)
    /\ Set(t, [bag[t] EXCEPT ![v] = @ + 1])
    /\ UNCHANGED <<page, sent, skipped, awaited, serverVars>>

Minus(t, v) ==
    /\ bag[t][v] > 1
    /\ Set(t, [bag[t] EXCEPT ![v] = @ - 1])
    /\ UNCHANGED <<page, sent, skipped, awaited, serverVars>>

Removes(t, v) ==
    /\ v \in In(bag[t])
    /\ Set(t, [bag[t] EXCEPT ![v] = 0])
    /\ UNCHANGED <<page, sent, skipped, awaited, serverVars>>

\* setDrawerOpen and toggleDrawer change no line, and store them all.
OpensDrawer(t) ==
    /\ Set(t, bag[t])
    /\ UNCHANGED <<page, sent, skipped, awaited, serverVars>>

\* A request under way when its page goes is still handled; an answer is lost.
StillSent(t) == IF page[t] = "answered" THEN [sent EXCEPT ![t] = Empty] ELSE sent

Forgotten(t) == [skipped EXCEPT ![t] = {}]

\* Another page of the site: the store stays, the stepper goes.  The answer to
\* a placement may still come, and may have been lost.
Leaves(t) ==
    /\ page[t] # "shop"
    /\ page' = [page EXCEPT ![t] = "shop"]
    /\ sent' = StillSent(t)
    /\ quote' = [quote EXCEPT ![t] = {}]
    /\ skipped' = Forgotten(t)
    /\ awaited' \in {awaited, awaited \ {t}}
    /\ UNCHANGED <<stored, bag, serverVars>>

\* The tab is opened or reloaded: the stored bag, and nothing of before.
Opens(t) ==
    /\ bag' = [bag EXCEPT ![t] = stored]
    /\ page' = [page EXCEPT ![t] = "shop"]
    /\ sent' = StillSent(t)
    /\ quote' = [quote EXCEPT ![t] = {}]
    /\ skipped' = Forgotten(t)
    /\ awaited' = awaited \ {t}
    /\ UNCHANGED <<stored, serverVars>>

----------------------------------------------------------------------------
(* Checkout: the bag is handed over, reviewed and ordered. *)

\* Replace requests that the server has not ended.
UnderWay == {t \in Tabs : sent[t] # Empty /\ page[t] # "answered"}

\* The effect of CheckoutFlow.  Bounds: an earlier request of the tab has
\* ended, and the requests under way do not exceed MaxVisits.
EntersCheckout(t) ==
    /\ page[t] = "shop" /\ sent[t] = Empty
    /\ handed.visits + Cardinality(UnderWay) < MaxVisits
    /\ page' = [page EXCEPT ![t] = IF bag[t] = Empty THEN "over" ELSE "syncing"]
    /\ sent' = [sent EXCEPT ![t] = bag[t]]
    /\ UNCHANGED <<stored, bag, skipped, quote, awaited, serverVars>>

\* merge() fetches the active cart and merge_items begins with the DELETE.
ReplaceBegins(t) ==
    /\ t \in UnderWay /\ merging[t] = {}
    /\ merging' = [merging EXCEPT ![t] =
                     {[old |-> In(cart), since |-> Empty, live |-> TRUE]}]
    /\ UNCHANGED <<tabVars, listed, cart, placing, handed, orders>>

\* Entries add_item refuses.
Skipped(lines) == {v \in In(lines) : v \notin listed \/ Stock[v] = 0}

\* Mutant: the lines that were in the cart stay.
MergedUncleared(lines, old) ==
    [v \in Variants |->
        IF v \in In(lines) \ Skipped(lines)
          THEN Min({cart[v] + lines[v], Stock[v], MaxQuantity})
          ELSE cart[v]]

\* merge_items with replace: the lines of the snapshot are gone, each entry is
\* added to what another replacement has inserted since, and clamped.
Merged(lines, old) ==
    [v \in Variants |->
        LET left == IF v \in old THEN 0 ELSE cart[v]
        IN  IF v \in In(lines) \ Skipped(lines)
              THEN Min({left + lines[v], Stock[v], MaxQuantity})
              ELSE left]

\* What a commit is to another replacement m: the rows it deleted are gone, and
\* those it inserted are not in m's snapshot.
Seen(m, old, lines) ==
    [old |-> m.old \ old, since |-> Together(m.since, lines), live |-> m.live]

\* COMMIT, and the answer, though nobody may be waiting for it.  The lines of
\* a cart that was ordered meanwhile reach no order.
ReplaceCommits(t) ==
    \E m \in merging[t] :
        /\ IF m.live
             THEN /\ cart' = Merged(sent[t], m.old)
                  /\ handed' = [bag |-> Together(m.since, sent[t]),
                                visits |-> handed.visits + 1]
                  /\ merging' = [u \in Tabs |->
                                   IF u = t THEN {}
                                   ELSE {Seen(n, m.old, sent[t]) : n \in merging[u]}]
             ELSE /\ merging' = [merging EXCEPT ![t] = {}]
                  /\ UNCHANGED <<cart, handed>>
        /\ IF page[t] = "syncing"
             THEN /\ page' = [page EXCEPT ![t] = "answered"]
                  /\ skipped' = [skipped EXCEPT ![t] = Skipped(sent[t])]
                  /\ UNCHANGED sent
             ELSE /\ sent' = [sent EXCEPT ![t] = Empty]
                  /\ UNCHANGED <<page, skipped>>
        /\ UNCHANGED <<stored, bag, quote, awaited, listed, placing, orders>>

\* The request is lost, or rolled back: the loser of two inserts, the victim of
\* a deadlock, a worker that dies.
ReplaceAborts(t) ==
    /\ t \in UnderWay
    /\ merging' = [merging EXCEPT ![t] = {}]
    /\ sent' = [sent EXCEPT ![t] = Empty]
    /\ page' = [page EXCEPT ![t] = IF @ = "syncing" THEN "over" ELSE @]
    /\ UNCHANGED <<stored, bag, skipped, quote, awaited, listed, cart, placing,
                   handed, orders>>

\* The answer: what was skipped leaves the bag, whatever became of it since.
SyncAnswered(t) ==
    /\ page[t] = "answered"
    /\ IF skipped[t] = {}
         THEN UNCHANGED <<bag, stored, quote>>
         ELSE Set(t, [v \in Variants |->
                        IF v \in skipped[t] THEN 0 ELSE bag[t][v]])
    /\ page' = [page EXCEPT ![t] =
                  IF skipped[t] = In(sent[t]) THEN "over" ELSE "ready"]
    /\ sent' = [sent EXCEPT ![t] = Empty]
    /\ skipped' = Forgotten(t)
    /\ UNCHANGED <<awaited, serverVars>>

\* No answer comes; the request may still be handled.
SyncFails(t) ==
    /\ page[t] \in {"syncing", "answered"}
    /\ page' = [page EXCEPT ![t] = "over"]
    /\ sent' = StillSent(t)
    /\ skipped' = Forgotten(t)
    /\ UNCHANGED <<stored, bag, quote, awaited, serverVars>>

\* The stepper is on screen and none of its requests is under way.
Idle(t) == page[t] = "ready" /\ bag[t] # Empty /\ t \notin awaited

Purchasable == cart # Empty /\ \A v \in In(cart) : v \in listed /\ cart[v] <= Stock[v]

Priced == [lines |-> cart, total |-> Total(cart)]

\* requestQuote.
Quote(t) ==
    /\ Idle(t) /\ Purchasable
    /\ quote' = [quote EXCEPT ![t] = {Priced}]
    /\ UNCHANGED <<stored, bag, page, sent, skipped, awaited, serverVars>>

\* placeOrder sends the total on screen.  Bound: an earlier placement of the
\* tab has ended.
Submits(t) ==
    /\ Idle(t) /\ placing[t] = {}
    /\ \E q \in quote[t] :
          placing' = [placing EXCEPT ![t] = {[total |-> q.total, shown |-> bag[t]]}]
    /\ awaited' = awaited \cup {t}
    /\ UNCHANGED <<stored, bag, page, sent, skipped, quote, listed, cart, merging,
                   handed, orders>>

Placed(p) ==
    [lines |-> cart, total |-> Total(cart), shown |-> p.shown,
     handed |-> handed.bag, visit |-> handed.visits]

\* Mutant: the cart is not retired with the order.
PlacesOnly(t) ==
    /\ Purchasable
    /\ \E p \in placing[t] :
          p.total = Total(cart) /\ orders' = Append(orders, Placed(p))
    /\ placing' = [placing EXCEPT ![t] = {}]
    /\ UNCHANGED <<tabVars, listed, cart, merging, handed>>

\* place_order, wherever the tab is by now: the total on screen is compared,
\* the cart is ordered and retired.  Replacements under way keep the old cart.
Places(t) ==
    /\ Purchasable
    /\ \E p \in placing[t] :
          p.total = Total(cart) /\ orders' = Append(orders, Placed(p))
    /\ placing' = [placing EXCEPT ![t] = {}]
    /\ cart' = Empty
    /\ merging' = [u \in Tabs |-> {[old |-> {}, since |-> Empty, live |-> FALSE] :
                                     m \in merging[u]}]
    /\ UNCHANGED <<tabVars, listed, handed>>

\* place_order refuses; where only the total has changed, the page that asked
\* and is still there shows the new figures.
PlacementRefused(t) ==
    /\ \E p \in placing[t] : ~Purchasable \/ p.total # Total(cart)
    /\ placing' = [placing EXCEPT ![t] = {}]
    /\ quote' = IF Purchasable /\ t \in awaited /\ quote[t] # {}
                  THEN [quote EXCEPT ![t] = {Priced}] ELSE quote
    /\ awaited' = awaited \ {t}
    /\ UNCHANGED <<stored, bag, page, sent, skipped, listed, cart, merging, handed,
                   orders>>

\* The connection drops: the page shows an error, and the request, which may
\* be on its way still, may be lost.
PlacementDropped(t) ==
    /\ placing[t] # {}
    /\ placing' \in {placing, [placing EXCEPT ![t] = {}]}
    /\ awaited' = awaited \ {t}
    /\ UNCHANGED <<stored, bag, page, sent, skipped, quote, listed, cart, merging,
                   handed, orders>>

\* onPlaced: clearCart and the order's page, also when the tab has moved on.
AnswerArrives(t) ==
    /\ t \in awaited /\ placing[t] = {}
    /\ Set(t, Empty)
    /\ page' = [page EXCEPT ![t] = "shop"]
    /\ sent' = StillSent(t)
    /\ skipped' = Forgotten(t)
    /\ awaited' = awaited \ {t}
    /\ UNCHANGED serverVars

\* The catalogue withdraws a variant or brings it back.
ListingChanges(v) ==
    /\ listed' = (listed \ {v}) \cup ({v} \ listed)
    /\ UNCHANGED <<tabVars, cart, merging, placing, handed, orders>>

----------------------------------------------------------------------------
Next ==
    \/ \E t \in Tabs, v \in Variants : Adds(t, v)
    \/ \E t \in Tabs, v \in Variants : Plus(t, v)
    \/ \E t \in Tabs, v \in Variants : Minus(t, v)
    \/ \E t \in Tabs, v \in Variants : Removes(t, v)
    \/ \E t \in Tabs : OpensDrawer(t)
    \/ \E t \in Tabs : Leaves(t)
    \/ \E t \in Tabs : Opens(t)
    \/ \E t \in Tabs : EntersCheckout(t)
    \/ \E t \in Tabs : ReplaceBegins(t)
    \/ \E t \in Tabs : ReplaceCommits(t)
    \/ \E t \in Tabs : ReplaceAborts(t)
    \/ \E t \in Tabs : SyncAnswered(t)
    \/ \E t \in Tabs : SyncFails(t)
    \/ \E t \in Tabs : Quote(t)
    \/ \E t \in Tabs : Submits(t)
    \/ \E t \in Tabs : Places(t)
    \/ \E t \in Tabs : PlacementRefused(t)
    \/ \E t \in Tabs : PlacementDropped(t)
    \/ \E t \in Tabs : AnswerArrives(t)
    \/ \E v \in Variants : ListingChanges(v)

Spec == Init /\ [][Next]_vars

----------------------------------------------------------------------------
(* Properties. *)

\* What is ordered was in the bag handed over last or in one whose hand-over
\* was committed while that one was under way: nothing that an earlier session
\* or an earlier bag had left in the cart is ordered.  (Two hand-overs that
\* overlap may add up; where none did, the order is within the last bag.)
NoLeftovers ==
    \A i \in DOMAIN orders, v \in Variants :
        orders[i].lines[v] <= orders[i].handed[v]

\* A bag handed over becomes at most one order, though several tabs review it.
OncePerHandOver ==
    \A i, j \in DOMAIN orders : orders[i].visit = orders[j].visit => i = j

\* The order is exactly what the customer sees in the bag when placing it.
\* Refuted by an edit in the drawer during the review: it reaches neither the
\* cart nor the quote, and clearCart then takes it out of the bag.
OrderIsTheBag == \A i \in DOMAIN orders : orders[i].lines = orders[i].shown
=============================================================================
