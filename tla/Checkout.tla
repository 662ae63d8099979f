------------------------------ MODULE Checkout ------------------------------
(***************************************************************************)
(* Turning a bag into an order: place_order of apps/checkout/services.py,  *)
(* one action per group of statements between which PostgreSQL (READ       *)
(* COMMITTED) lets other requests commit, against concurrent checkouts of  *)
(* the same bag and of other bags, edits of the bag from other tabs        *)
(* and changes to the catalogue.                                           *)
(*                                                                         *)
(* place_order holds two kinds of row locks until it commits or rolls      *)
(* back: the cart's and, one after the other in the order of their keys,   *)
(* those of the variants in it.  The lines of the cart are not locked.     *)
(*                                                                         *)
(* A committed effect of a cart handler is one action (Bag has their       *)
(* statements).  The order goes on in OrderPayments.                       *)
(***************************************************************************)
EXTENDS Naturals, Sequences, FiniteSets, Functions

CONSTANTS
    Users,
    Tabs,        \* storefront tabs, each sending one request at a time
    UserOf,      \* the customer signed in in each tab
    Carts,       \* Cart rows that may come to exist
    Variants,
    Key,         \* the primary key of each variant: what checkout locks by
    Supply,      \* stock_quantity of each variant before the first sale
    Changing,    \* bound: the variants whose product is repriced or withdrawn
    Prices,      \* prices the catalogue may ask
    OpeningPrice,
    MaxQuantity, \* MAX_QUANTITY_PER_LINE
    Vendors,     \* people saving variants through the catalogue API
    Nobody, NoCart

ASSUME ConstantsAssumption ==
    /\ UserOf \in [Tabs -> Users]
    /\ Key \in [Variants -> Nat]
    /\ \A v, w \in Variants : Key[v] = Key[w] => v = w
    /\ IsFiniteSet(Variants)
    /\ Supply \in [Variants -> Nat]
    /\ Changing \subseteq Variants
    /\ Prices \subseteq Nat
    /\ OpeningPrice \in Prices
    /\ MaxQuantity \in Nat \ {0}
    /\ Nobody \notin Users
    /\ NoCart \notin Carts

VARIABLES
    owner,     \* Cart.user of each row, Nobody where there is no row yet
    active,    \* the carts with is_active
    items,     \* CartItem rows: the quantity of each variant in each cart
    stock,     \* ProductVariant.stock_quantity
    price,     \* what each variant costs
    listed,    \* variants that are active on an active product
    orders,    \* the orders placed, oldest first
    editing,   \* the cart a bag edit of each tab got hold of
    placing,   \* the place_order transaction of each tab
    quoted,    \* the total each tab shows its customer, {} for none
    saving     \* the variant row each vendor's request has read

cartVars    == <<owner, active, items>>
catalogVars == <<price, listed>>
vars == <<owner, active, items, stock, price, listed, orders, editing, placing,
          quoted, saving>>

Lines == [Variants -> 0..MaxQuantity]

NoLines == [v \in Variants |-> 0]

InBag(lines) == {v \in Variants : lines[v] > 0}

NoQuote == {}

NotPlacing ==
    [cart |-> NoCart, read |-> FALSE, lines |-> NoLines,
     prices |-> [v \in Variants |-> 0], listed |-> {}, held |-> {}]

NotSaving == [variants |-> {}, stock |-> 0]

TypeOK ==
    /\ owner \in [Carts -> Users \cup {Nobody}]
    /\ active \subseteq {c \in Carts : owner[c] # Nobody}
    /\ items \in [Carts -> Lines]
    /\ stock \in [Variants -> Nat]
    /\ price \in [Variants -> Prices]
    /\ listed \subseteq Variants
    /\ \A i \in DOMAIN orders :
          /\ orders[i].cart \in Carts /\ orders[i].total \in Nat
          /\ orders[i].lines \in Lines \ {NoLines}
    /\ editing \in [Tabs -> Carts \cup {NoCart}]
    /\ \A t \in Tabs : /\ placing[t].cart \in Carts \cup {NoCart}
                       /\ placing[t].held \subseteq InBag(placing[t].lines)
    /\ quoted \in [Tabs -> SUBSET Nat]

Init ==
    /\ owner = [c \in Carts |-> Nobody]
    /\ active = {}
    /\ items = [c \in Carts |-> NoLines]
    /\ stock = Supply
    /\ price = [v \in Variants |-> OpeningPrice]
    /\ listed = Variants
    /\ orders = <<>>
    /\ editing = [t \in Tabs |-> NoCart]
    /\ placing = [t \in Tabs |-> NotPlacing]
    /\ quoted = [t \in Tabs |-> NoQuote]
    /\ saving = [n \in Vendors |-> NotSaving]

ActiveCarts(t) == {c \in active : owner[c] = UserOf[t]}

CartLocked(c) == \E t \in Tabs : placing[t].cart = c

VariantLocked(v) == \E t \in Tabs : v \in placing[t].held

Total(lines, prices) ==
    SumFunctionOnSet([v \in Variants |-> lines[v] * prices[v]], Variants)

----------------------------------------------------------------------------
(* The bag and the catalogue, between and during checkouts. *)

\* get_active_cart(): the one active cart, created on first use.  The request
\* goes on with the row it got, whatever becomes of it meanwhile.
EditBegins(t) ==
    /\ editing[t] = NoCart /\ placing[t] = NotPlacing
    /\ \/ /\ \E c \in ActiveCarts(t) : editing' = [editing EXCEPT ![t] = c]
          /\ UNCHANGED <<owner, active>>
       \/ /\ ActiveCarts(t) = {}
          /\ \E c \in Carts :
                /\ owner[c] = Nobody
                /\ owner' = [owner EXCEPT ![c] = UserOf[t]]
                /\ active' = active \cup {c}
                /\ editing' = [editing EXCEPT ![t] = c]
    /\ UNCHANGED <<items, stock, catalogVars, orders, placing, quoted, saving>>

\* add_item, set_quantity, remove_item, or one row of clear and merge_items.
\* Only a new row refers to the cart and the variant anew: its foreign keys
\* are checked at the commit, which waits while a checkout holds either row.
EditCommits(t, v, quantity) ==
    LET c == editing[t] IN
    /\ c # NoCart
    /\ items[c][v] # quantity
    /\ items[c][v] = 0 => ~CartLocked(c) /\ ~VariantLocked(v)
    /\ items' = [items EXCEPT ![c][v] = quantity]
    /\ editing' = [editing EXCEPT ![t] = NoCart]
    /\ UNCHANGED <<owner, active, stock, catalogVars, orders, placing, quoted,
                   saving>>

\* A product is repriced, published or withdrawn; checkout does not lock it.
ProductChanges(v) ==
    /\ \/ /\ \E p \in Prices : price' = [price EXCEPT ![v] = p]
          /\ UNCHANGED listed
       \/ /\ listed' = (listed \ {v}) \cup ({v} \ listed)
          /\ UNCHANGED price
    /\ UNCHANGED <<cartVars, stock, orders, editing, placing, quoted, saving>>

\* A PATCH of some other field of a variant: read without a lock, ...
VendorReads(n, v) ==
    /\ saving[n] = NotSaving
    /\ saving' = [saving EXCEPT ![n] = [variants |-> {v}, stock |-> stock[v]]]
    /\ UNCHANGED <<cartVars, stock, catalogVars, orders, editing, placing,
                   quoted>>

\* ... and saved with every column, the stock_quantity it read among them.
VendorSaves(n) ==
    \E v \in saving[n].variants :
        /\ ~VariantLocked(v)
        /\ stock' = [stock EXCEPT ![v] = saving[n].stock]
        /\ saving' = [saving EXCEPT ![n] = NotSaving]
        /\ UNCHANGED <<cartVars, catalogVars, orders, editing, placing,
                       quoted>>

----------------------------------------------------------------------------
(* quote(): no locks, no side effects but what the tab now shows. *)

\* Mutant: the stock is not read again under the lock.
PurchasableUncounted(lines, onSale, available) ==
    lines # NoLines /\ InBag(lines) \subseteq onSale

\* _assert_purchasable.
Purchasable(lines, onSale, available) ==
    /\ lines # NoLines
    /\ \A v \in InBag(lines) : v \in onSale /\ available[v] >= lines[v]

Quote(t) ==
    \E c \in ActiveCarts(t) :
        /\ editing[t] = NoCart /\ placing[t] = NotPlacing
        /\ Purchasable(items[c], listed, stock)
        /\ quoted' = [quoted EXCEPT ![t] = {Total(items[c], price)}]
        /\ UNCHANGED <<cartVars, stock, catalogVars, orders, editing, placing,
                       saving>>

----------------------------------------------------------------------------
(* place_order(). *)

\* Mutant: the cart is read without FOR UPDATE.
PlaceReadsCart(t) ==
    /\ editing[t] = NoCart /\ placing[t] = NotPlacing
    /\ quoted[t] # NoQuote
    /\ \E c \in ActiveCarts(t) : placing' = [placing EXCEPT ![t].cart = c]
    /\ UNCHANGED <<cartVars, stock, catalogVars, orders, editing, quoted,
                   saving>>

\* The cart row, FOR UPDATE; the storefront asks only with a quote on screen.
\* A customer without an active cart is told the bag is empty: no step.
PlaceLocksCart(t) ==
    /\ editing[t] = NoCart /\ placing[t] = NotPlacing
    /\ quoted[t] # NoQuote
    /\ \E c \in ActiveCarts(t) :
          /\ ~CartLocked(c)
          /\ placing' = [placing EXCEPT ![t].cart = c]
    /\ UNCHANGED <<cartVars, stock, catalogVars, orders, editing, quoted,
                   saving>>

\* The lines, and the snapshot in which the variants' products are read.
PlaceReadsLines(t) ==
    LET p == placing[t] IN
    /\ p.cart # NoCart /\ ~p.read
    /\ placing' = [placing EXCEPT ![t] =
                    [p EXCEPT !.read = TRUE, !.lines = items[p.cart],
                              !.prices = price, !.listed = listed]]
    /\ UNCHANGED <<cartVars, stock, catalogVars, orders, editing, quoted,
                   saving>>

\* The variants still to be locked.
Unlocked(t) == InBag(placing[t].lines) \ placing[t].held

\* Mutant: the rows are locked in whatever order the query returns them.
NextToLockUnordered(t) == Unlocked(t)

\* SELECT ... ORDER BY pk FOR UPDATE takes the rows one by one.
NextToLock(t) ==
    {v \in Unlocked(t) : \A w \in Unlocked(t) : Key[v] <= Key[w]}

PlaceLocksVariant(t) ==
    \E v \in NextToLock(t) :
        /\ ~VariantLocked(v)
        /\ placing' = [placing EXCEPT ![t].held = @ \cup {v}]
        /\ UNCHANGED <<cartVars, stock, catalogVars, orders, editing, quoted,
                       saving>>

\* What place_order knows once every row is locked; the locks keep the stock
\* it has just read, so reserve_stock's own condition is this one again.
ReadyToDecide(t) == placing[t].read /\ Unlocked(t) = {}

CanBeSold(t) == Purchasable(placing[t].lines, placing[t].listed, stock)

FreshTotal(t) == Total(placing[t].lines, placing[t].prices)

\* reserve_stock for every line.
Reserve(lines) == stock' = [v \in Variants |-> stock[v] - lines[v]]

\* Everything agrees: stock, order, lines, PLACED, cart retired, commit.
PlaceCommits(t) ==
    LET p == placing[t]
        o == [cart |-> p.cart, lines |-> p.lines, total |-> FreshTotal(t)] IN
    /\ ReadyToDecide(t)
    /\ CanBeSold(t)
    /\ quoted[t] = {FreshTotal(t)}
    /\ Reserve(p.lines)
    /\ orders' = Append(orders, o)
    /\ active' = active \ {p.cart}
    /\ placing' = [placing EXCEPT ![t] = NotPlacing]
    /\ quoted' = [quoted EXCEPT ![t] = NoQuote]
    /\ UNCHANGED <<owner, items, catalogVars, editing, saving>>

\* Mutant: the stock is reserved, in a transaction of its own, before the
\* price is compared.
PlaceRefusesAfterReserving(t) ==
    /\ ReadyToDecide(t)
    /\ \/ ~CanBeSold(t) /\ UNCHANGED <<quoted, stock>>
       \/ /\ CanBeSold(t)
          /\ quoted[t] # {FreshTotal(t)}
          /\ quoted' = [quoted EXCEPT ![t] = {FreshTotal(t)}]
          /\ Reserve(placing[t].lines)
    /\ placing' = [placing EXCEPT ![t] = NotPlacing]
    /\ UNCHANGED <<cartVars, catalogVars, orders, editing, saving>>

\* Mutant: a bag that cannot be sold is held until it can.
PlaceRefusesPriceOnly(t) ==
    /\ ReadyToDecide(t)
    /\ CanBeSold(t)
    /\ quoted[t] # {FreshTotal(t)}
    /\ quoted' = [quoted EXCEPT ![t] = {FreshTotal(t)}]
    /\ placing' = [placing EXCEPT ![t] = NotPlacing]
    /\ UNCHANGED <<cartVars, stock, catalogVars, orders, editing, saving>>

\* CheckoutError, or PriceChanged, which brings the tab a fresh quote: the
\* transaction is rolled back.
PlaceRefuses(t) ==
    /\ ReadyToDecide(t)
    /\ \/ ~CanBeSold(t) /\ UNCHANGED quoted
       \/ /\ CanBeSold(t)
          /\ quoted[t] # {FreshTotal(t)}
          /\ quoted' = [quoted EXCEPT ![t] = {FreshTotal(t)}]
    /\ placing' = [placing EXCEPT ![t] = NotPlacing]
    /\ UNCHANGED <<cartVars, stock, catalogVars, orders, editing, saving>>

\* The worker dies or the database gives up on it: rolled back as well.
PlaceAborts(t) ==
    /\ placing[t] # NotPlacing
    /\ placing' = [placing EXCEPT ![t] = NotPlacing]
    /\ UNCHANGED <<cartVars, stock, catalogVars, orders, editing, quoted,
                   saving>>

----------------------------------------------------------------------------
Next ==
    \/ \E t \in Tabs : EditBegins(t)
    \/ \E t \in Tabs, v \in Variants, q \in 0..MaxQuantity : EditCommits(t, v, q)
    \/ \E v \in Changing : ProductChanges(v)
    \/ \E n \in Vendors, v \in Variants : VendorReads(n, v)
    \/ \E n \in Vendors : VendorSaves(n)
    \/ \E t \in Tabs : Quote(t)
    \/ \E t \in Tabs : PlaceLocksCart(t)
    \/ \E t \in Tabs : PlaceReadsLines(t)
    \/ \E t \in Tabs : PlaceLocksVariant(t)
    \/ \E t \in Tabs : PlaceCommits(t)
    \/ \E t \in Tabs : PlaceRefuses(t)
    \/ \E t \in Tabs : PlaceAborts(t)

Spec == Init /\ [][Next]_vars

\* A transaction goes on as long as the rows it needs are free, and the
\* database hands a row lock to its waiters in turn.
Fairness ==
    \A t \in Tabs :
        /\ WF_vars(PlaceReadsLines(t))
        /\ SF_vars(PlaceLocksVariant(t))
        /\ WF_vars(PlaceCommits(t))
        /\ WF_vars(PlaceRefuses(t))

FairSpec == Spec /\ Fairness

----------------------------------------------------------------------------
(* Properties. *)

Sold(v, which) ==
    SumFunctionOnSet([i \in DOMAIN orders |-> orders[i].lines[v]], which)

\* Every piece is either in stock or in exactly one order, whoever checks out
\* at the same time, whatever is refused after it was locked, and however
\* requests die on the way.
StockConserved ==
    \A v \in Variants : stock[v] + Sold(v, DOMAIN orders) = Supply[v]

\* A bag becomes one order, however many tabs submit it at once: the second
\* request waits for the cart and then finds it retired.
OneOrderPerBag ==
    \A i, j \in DOMAIN orders : orders[i].cart = orders[j].cart => i = j

\* The checkouts holding the variant t is about to lock.
WaitsFor(t) ==
    {u \in Tabs \ {t} : NextToLock(t) \cap placing[u].held # {}}

\* Checkouts that share items never wait for each other in a circle.
NoCircularWait ==
    \A S \in SUBSET Tabs :
        S # {} => \E t \in S : WaitsFor(t) \cap S = {}

\* A checkout that holds a cart is answered: it does not wait for ever for
\* variants other customers' checkouts keep taking.
PlacementAnswered ==
    \A t \in Tabs : placing[t] # NotPlacing ~> placing[t] = NotPlacing

\* The contract this module implements, as long as no vendor saves variants.
SalesContract == INSTANCE Sales WITH
    sold <- [c \in Carts |->
                [v \in Variants |->
                    Sold(v, {i \in DOMAIN orders : orders[i].cart = c})]]

SalesSpec == SalesContract!Spec
=============================================================================
