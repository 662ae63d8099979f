--------------------------- MODULE CheckoutProofs ---------------------------
(***************************************************************************)
(* Theorems about Checkout, for any number of customers, tabs, carts and   *)
(* variants, any catalogue and any number of vendors: a bag becomes one    *)
(* order, checkouts never wait in a circle, every piece is in stock or in  *)
(* one order, and the module implements Sales.                             *)
(***************************************************************************)
EXTENDS Checkout, SumTheorems, SequenceTheorems, FiniteSetTheorems, TLAPS

\* The part of the types that locking rests on.
Placings ==
    [cart : Carts \cup {NoCart}, read : BOOLEAN, lines : Lines,
     prices : [Variants -> Prices \cup {0}], listed : SUBSET Variants,
     held : SUBSET Variants]

Typed ==
    /\ owner \in [Carts -> Users \cup {Nobody}]
    /\ active \subseteq {c \in Carts : owner[c] # Nobody}
    /\ items \in [Carts -> Lines]
    /\ price \in [Variants -> Prices] /\ listed \subseteq Variants
    /\ editing \in [Tabs -> Carts \cup {NoCart}]
    /\ placing \in [Tabs -> Placings]

\* One checkout holds a cart, which is active as long as it is held.
CartHeld ==
    /\ \A t \in Tabs : placing[t].cart # NoCart => placing[t].cart \in active
    /\ \A t \in Tabs : placing[t].read => placing[t].cart # NoCart
    /\ \A t, u \in Tabs :
          t # u /\ placing[t].cart # NoCart => placing[u].cart # placing[t].cart

\* An order's cart exists and is retired, and no other order has it.
CartsRetired ==
    /\ \E S : orders \in Seq(S)
    /\ \A i \in DOMAIN orders :
          /\ orders[i].cart \in Carts
          /\ orders[i].cart \notin active
          /\ owner[orders[i].cart] # Nobody
    /\ OneOrderPerBag

Inv == Typed /\ CartHeld /\ CartsRetired

\* A tab that places nothing holds nothing.
LEMMA NotPlacingTyped ==
    NotPlacing \in Placings /\ NotPlacing.cart = NoCart /\ NotPlacing.read = FALSE
  <1>1. 0 \in 0..MaxQuantity
    BY ConstantsAssumption
  <1>2. NoLines \in Lines
    BY <1>1 DEF NoLines, Lines
  <1>3. [v \in Variants |-> 0] \in [Variants -> Prices \cup {0}]
    OBVIOUS
  <1>4. QED
    BY <1>2, <1>3 DEF NotPlacing, Placings

\* An order that is added comes after the others.
LEMMA Appended ==
    ASSUME NEW S, NEW s \in Seq(S), NEW o
    PROVE  /\ \E R : Append(s, o) \in Seq(R)
           /\ \A i \in DOMAIN Append(s, o) :
                 \/ i \in DOMAIN s /\ Append(s, o)[i] = s[i]
                 \/ i = Len(s) + 1 /\ Append(s, o)[i] = o
           /\ Len(s) + 1 \notin DOMAIN s
  <1> DEFINE R == S \cup {o}
  <1>1. s \in Seq(R) /\ o \in R
    BY SeqMonotonic
  <1>2. /\ Append(s, o) \in Seq(R) /\ Len(Append(s, o)) = Len(s) + 1
        /\ \A i \in 1..Len(s) : Append(s, o)[i] = s[i]
        /\ Append(s, o)[Len(s) + 1] = o
    BY <1>1, AppendProperties
  <1>3. /\ Len(s) \in Nat /\ DOMAIN s = 1..Len(s)
        /\ DOMAIN Append(s, o) = 1..(Len(s) + 1)
    BY <1>1, <1>2, LenProperties
  <1>4. QED
    BY <1>2, <1>3

\* There is no order and no cart at first.
LEMMA InitInv == Init => Inv
  <1> SUFFICES ASSUME Init PROVE Inv
    OBVIOUS
  <1>1. \A t \in Tabs : placing[t] = NotPlacing
    BY DEF Init
  <1>2. NoLines \in Lines
    BY ConstantsAssumption DEF NoLines, Lines
  <1>3. Typed
    BY <1>2, NotPlacingTyped, ConstantsAssumption DEF Init, Typed
  <1>4. CartHeld
    BY <1>1, NotPlacingTyped DEF CartHeld
  <1>5. orders \in Seq({}) /\ DOMAIN orders = {}
    BY DEF Init
  <1>6. CartsRetired
    BY <1>5 DEF CartsRetired, OneOrderPerBag
  <1>7. QED
    BY <1>3, <1>4, <1>6 DEF Inv

\* A checkout that lets go of its rows frees its cart.
LEMMA LetsGo ==
    ASSUME Inv, NEW t \in Tabs, placing' = [placing EXCEPT ![t] = NotPlacing],
           UNCHANGED <<cartVars, catalogVars, orders, editing>>
    PROVE  Inv'
  <1>1. Typed'
    BY NotPlacingTyped DEF Inv, Typed, cartVars, catalogVars
  <1>2. \A u \in Tabs : placing'[u] = IF u = t THEN NotPlacing ELSE placing[u]
    BY DEF Inv, Typed
  <1>3. CartHeld'
    BY <1>2, NotPlacingTyped DEF Inv, CartHeld, cartVars
  <1>4. CartsRetired'
    BY DEF Inv, CartsRetired, OneOrderPerBag, cartVars
  <1>5. QED
    BY <1>1, <1>3, <1>4 DEF Inv

\* A checkout that goes on keeps its cart.
LEMMA GoesOn ==
    ASSUME Inv, NEW t \in Tabs, NEW p \in Placings,
           placing' = [placing EXCEPT ![t] = p], p.cart = placing[t].cart,
           p.read => p.cart # NoCart,
           UNCHANGED <<cartVars, catalogVars, orders, editing>>
    PROVE  Inv'
  <1>1. Typed'
    BY DEF Inv, Typed, cartVars, catalogVars
  <1>2. \A u \in Tabs : placing'[u] = IF u = t THEN p ELSE placing[u]
    BY DEF Inv, Typed
  <1>3. \A u \in Tabs : placing'[u].cart = placing[u].cart
    BY <1>2
  <1>4. CartHeld'
    BY <1>2, <1>3 DEF Inv, CartHeld, cartVars
  <1>5. CartsRetired'
    BY DEF Inv, CartsRetired, OneOrderPerBag, cartVars
  <1>6. QED
    BY <1>1, <1>4, <1>5 DEF Inv

\* The cart that is locked is active, and nobody else holds it.
LEMMA LocksCartStep ==
    ASSUME Inv, NEW t \in Tabs, PlaceLocksCart(t)
    PROVE  Inv'
  <1>1. PICK c \in ActiveCarts(t) :
            ~CartLocked(c) /\ placing' = [placing EXCEPT ![t].cart = c]
    BY DEF PlaceLocksCart
  <1>2. c \in active /\ c \in Carts /\ c # NoCart
    BY <1>1, ConstantsAssumption DEF ActiveCarts, Inv, Typed
  <1>3. \A u \in Tabs : placing[u].cart # c
    BY <1>1 DEF CartLocked
  <1>4. UNCHANGED <<cartVars, catalogVars, orders, editing>>
    BY DEF PlaceLocksCart
  <1>5. placing[t] \in Placings
    BY DEF Inv, Typed
  <1>6. /\ [placing[t] EXCEPT !.cart = c] \in Placings
        /\ [placing[t] EXCEPT !.cart = c].cart = c
    BY <1>2, <1>5 DEF Placings
  <1>7. Typed'
    BY <1>1, <1>4, <1>6 DEF Inv, Typed, cartVars, catalogVars
  <1>8. placing'[t].cart = c /\ \A u \in Tabs : u # t => placing'[u] = placing[u]
    BY <1>1, <1>6 DEF Inv, Typed
  <1>9. CartHeld'
    BY <1>2, <1>3, <1>4, <1>8 DEF Inv, CartHeld, cartVars
  <1>10. CartsRetired'
    BY <1>4 DEF Inv, CartsRetired, OneOrderPerBag, cartVars
  <1>11. QED
    BY <1>7, <1>9, <1>10 DEF Inv

\* The order that is placed has a cart no order has, and retires it.
LEMMA CommitsStep ==
    ASSUME Inv, NEW t \in Tabs, PlaceCommits(t)
    PROVE  Inv'
  <1> DEFINE c == placing[t].cart
  <1>1. PICK o : o.cart = c /\ orders' = Append(orders, o)
    BY DEF PlaceCommits
  <1>2. /\ active' = active \ {c}
        /\ placing' = [placing EXCEPT ![t] = NotPlacing]
        /\ UNCHANGED <<owner, items, catalogVars, editing>>
    BY DEF PlaceCommits
  <1>3. c \in active /\ c \in Carts /\ owner[c] # Nobody /\ c # NoCart
    BY ConstantsAssumption
    DEF PlaceCommits, ReadyToDecide, Inv, CartHeld, Typed
  <1>4. \A u \in Tabs : u # t => placing[u].cart # c
    BY <1>3 DEF Inv, CartHeld
  <1> HIDE DEF c
  <1>5. Typed'
    BY <1>2, NotPlacingTyped DEF Inv, Typed, catalogVars
  <1>6. \A u \in Tabs : placing'[u] = IF u = t THEN NotPlacing ELSE placing[u]
    BY <1>2 DEF Inv, Typed
  <1>7. CartHeld'
    BY <1>2, <1>4, <1>6, NotPlacingTyped DEF Inv, CartHeld
  <1>8. \A i \in DOMAIN orders : orders[i].cart \in Carts /\ orders[i].cart # c
                                 /\ orders[i].cart \notin active /\ owner[orders[i].cart] # Nobody
    BY <1>3 DEF Inv, CartsRetired
  <1>9. PICK S : orders \in Seq(S)
    BY DEF Inv, CartsRetired
  <1>10. /\ \E R : orders' \in Seq(R)
         /\ \A i \in DOMAIN orders' :
               \/ i \in DOMAIN orders /\ orders'[i] = orders[i]
               \/ i = Len(orders) + 1 /\ orders'[i] = o
    BY <1>1, <1>9, Appended
  <1>11. \A i, j \in DOMAIN orders : orders[i].cart = orders[j].cart => i = j
    BY DEF Inv, CartsRetired, OneOrderPerBag
  <1>12. OneOrderPerBag'
    BY <1>1, <1>8, <1>10, <1>11 DEF OneOrderPerBag
  <1>13. \A i \in DOMAIN orders' :
            /\ orders'[i].cart \in Carts /\ orders'[i].cart \notin active'
            /\ owner'[orders'[i].cart] # Nobody
    BY <1>1, <1>2, <1>3, <1>8, <1>10
  <1>14. CartsRetired'
    BY <1>10, <1>12, <1>13 DEF CartsRetired
  <1>15. QED
    BY <1>5, <1>7, <1>14 DEF Inv

\* A cart that is created is one nobody had.
LEMMA EditBeginsStep ==
    ASSUME Inv, NEW t \in Tabs, EditBegins(t)
    PROVE  Inv'
  <1>1. UNCHANGED <<items, catalogVars, orders, placing>>
    BY DEF EditBegins
  <1>2. CASE UNCHANGED <<owner, active>>
    <2>1. PICK c \in active \cup Carts : editing' = [editing EXCEPT ![t] = c]
      BY <1>2 DEF EditBegins, ActiveCarts
    <2>2. c \in Carts
      BY <2>1 DEF Inv, Typed
    <2>3. Typed'
      BY <1>1, <1>2, <2>1, <2>2 DEF Inv, Typed, catalogVars
    <2>4. CartHeld' /\ CartsRetired'
      BY <1>1, <1>2 DEF Inv, CartHeld, CartsRetired, OneOrderPerBag
    <2>5. QED
      BY <2>3, <2>4 DEF Inv
  <1>3. CASE ~UNCHANGED <<owner, active>>
    <2>1. PICK c \in Carts :
              /\ owner[c] = Nobody
              /\ owner' = [owner EXCEPT ![c] = UserOf[t]]
              /\ active' = active \cup {c}
              /\ editing' = [editing EXCEPT ![t] = c]
      BY <1>3 DEF EditBegins
    <2>2. UserOf[t] \in Users /\ UserOf[t] # Nobody
      BY ConstantsAssumption
    <2>3. \A d \in Carts : owner'[d] = IF d = c THEN UserOf[t] ELSE owner[d]
      BY <2>1 DEF Inv, Typed
    <2>4. Typed'
      BY <1>1, <2>1, <2>2, <2>3 DEF Inv, Typed, catalogVars
    <2>5. CartHeld'
      BY <1>1, <2>1 DEF Inv, CartHeld
    <2>6. \A i \in DOMAIN orders : orders[i].cart # c
      BY <2>1 DEF Inv, CartsRetired
    <2>7. CartsRetired'
      BY <1>1, <2>1, <2>3, <2>6 DEF Inv, CartsRetired, OneOrderPerBag
    <2>8. QED
      BY <2>4, <2>5, <2>7 DEF Inv
  <1>4. QED
    BY <1>2, <1>3

\* Every step keeps a held cart active and a retired one retired.
LEMMA InvStep == Inv /\ [Next]_vars => Inv'
  <1> SUFFICES ASSUME Inv, [Next]_vars PROVE Inv'
    OBVIOUS
  <1>1. ASSUME Typed', UNCHANGED <<owner, active, orders, placing>> PROVE Inv'
    BY <1>1 DEF Inv, CartHeld, CartsRetired, OneOrderPerBag
  <1>2. ASSUME NEW t \in Tabs, NEW v \in Variants, NEW q \in 0..MaxQuantity,
               EditCommits(t, v, q)
        PROVE  Inv'
    <2>1. UNCHANGED <<owner, active, orders, placing, catalogVars>>
          /\ editing' = [editing EXCEPT ![t] = NoCart]
          /\ items' = [items EXCEPT ![editing[t]][v] = q]
      BY <1>2 DEF EditCommits
    <2>2. editing' \in [Tabs -> Carts \cup {NoCart}]
      BY <2>1 DEF Inv, Typed
    <2>3. items' \in [Carts -> Lines]
      BY <2>1 DEF Inv, Typed, Lines
    <2>4. Typed'
      BY <2>1, <2>2, <2>3 DEF Inv, Typed, catalogVars
    <2>5. QED
      BY <1>1, <2>1, <2>4
  <1>3. ASSUME NEW v \in Changing, ProductChanges(v) PROVE Inv'
    <2>1. UNCHANGED <<cartVars, orders, editing, placing>>
      BY <1>3 DEF ProductChanges
    <2>2. v \in Variants
      BY ConstantsAssumption
    <2>3. price' \in [Variants -> Prices] /\ listed' \subseteq Variants
      BY <1>3, <2>2 DEF ProductChanges, Inv, Typed
    <2>4. Typed'
      BY <2>1, <2>3 DEF Inv, Typed, cartVars
    <2>5. QED
      BY <1>1, <2>1, <2>4 DEF cartVars
  <1>4. ASSUME \/ \E n \in Vendors, v \in Variants : VendorReads(n, v)
               \/ \E n \in Vendors : VendorSaves(n)
               \/ \E t \in Tabs : Quote(t)
               \/ UNCHANGED vars
        PROVE  Inv'
    <2>1. UNCHANGED <<cartVars, catalogVars, orders, editing, placing>>
      BY <1>4 DEF VendorReads, VendorSaves, Quote, vars, cartVars, catalogVars
    <2>2. QED
      BY <1>1, <2>1 DEF Inv, Typed, cartVars, catalogVars
  <1>5. ASSUME NEW t \in Tabs, PlaceReadsLines(t) PROVE Inv'
    <2> DEFINE p == [placing[t] EXCEPT !.read = TRUE, !.lines = items[placing[t].cart],
                                       !.prices = price, !.listed = listed]
    <2>1. /\ placing' = [placing EXCEPT ![t] = p] /\ placing[t].cart # NoCart
          /\ UNCHANGED <<cartVars, catalogVars, orders, editing>>
      BY <1>5 DEF PlaceReadsLines
    <2>2. placing[t] \in Placings
      BY DEF Inv, Typed
    <2>3. items[placing[t].cart] \in Lines /\ price \in [Variants -> Prices \cup {0}]
          /\ listed \in SUBSET Variants
      BY <2>1, <2>2 DEF Inv, Typed, Placings
    <2>4. p \in Placings /\ p.cart = placing[t].cart
      BY <2>2, <2>3 DEF Placings
    <2> HIDE DEF p
    <2>5. QED
      BY <2>1, <2>4, GoesOn
  <1>6. ASSUME NEW t \in Tabs, PlaceLocksVariant(t) PROVE Inv'
    <2>1. PICK v \in NextToLock(t) : placing' = [placing EXCEPT ![t].held = @ \cup {v}]
      BY <1>6 DEF PlaceLocksVariant
    <2> DEFINE p == [placing[t] EXCEPT !.held = @ \cup {v}]
    <2>2. v \in Variants
      BY <2>1 DEF NextToLock, Unlocked, InBag
    <2>3. placing[t] \in Placings /\ (placing[t].read => placing[t].cart # NoCart)
      BY DEF Inv, Typed, CartHeld
    <2>4. p \in Placings /\ p.cart = placing[t].cart /\ p.read = placing[t].read
      BY <2>2, <2>3 DEF Placings
    <2>5. placing' = [placing EXCEPT ![t] = p]
      BY <2>1
    <2>6. UNCHANGED <<cartVars, catalogVars, orders, editing>>
      BY <1>6 DEF PlaceLocksVariant
    <2> HIDE DEF p
    <2>7. QED
      BY <2>3, <2>4, <2>5, <2>6, GoesOn
  <1>7. ASSUME NEW t \in Tabs, PlaceRefuses(t) \/ PlaceAborts(t) PROVE Inv'
    BY <1>7, LetsGo DEF PlaceRefuses, PlaceAborts
  <1>8. QED
    BY <1>2, <1>3, <1>4, <1>5, <1>6, <1>7, EditBeginsStep, LocksCartStep, CommitsStep
    DEF Next

\* A bag becomes one order, however many tabs submit it at once and whatever
\* dies on the way: the second request finds the cart retired
\* (checkout/services.py, place_order).
THEOREM OneOrderTheorem == Spec => []OneOrderPerBag
  <1>1. Inv => OneOrderPerBag
    BY DEF Inv, CartsRetired
  <1>2. QED
    BY <1>1, InitInv, InvStep, PTL DEF Spec

-----------------------------------------------------------------------------
(* No circular wait. *)

\* Before it has read its lines a checkout holds no variant; afterwards those
\* it holds come before those it still has to lock.
LocksOf(p) ==
    /\ p.read \/ (p.lines = NoLines /\ p.held = {})
    /\ \A x \in p.held, y \in InBag(p.lines) \ p.held : Key[x] < Key[y]

LocksInOrder == \A t \in Tabs : LocksOf(placing[t])

\* One tab's checkout moves, and holds its variants in order.
LEMMA OneMoves ==
    ASSUME Typed, LocksInOrder, NEW t \in Tabs, NEW p, LocksOf(p),
           placing' = [placing EXCEPT ![t] = p]
    PROVE  LocksInOrder'
  <1>1. \A u \in Tabs : placing'[u] = IF u = t THEN p ELSE placing[u]
    BY DEF Typed
  <1>2. \A u \in Tabs : LocksOf(placing'[u])
    BY <1>1 DEF LocksInOrder
  <1>3. QED
    BY <1>2 DEF LocksInOrder, LocksOf, InBag

\* A tab that places nothing holds nothing.
LEMMA NothingHeld == LocksOf(NotPlacing)
  BY DEF LocksOf, NotPlacing

\* The next variant that is locked has the least key of those to come.
LEMMA LocksVariantStep ==
    ASSUME Typed, LocksInOrder, NEW t \in Tabs, PlaceLocksVariant(t)
    PROVE  LocksInOrder'
  <1>1. PICK v \in NextToLock(t) : placing' = [placing EXCEPT ![t].held = @ \cup {v}]
    BY DEF PlaceLocksVariant
  <1> DEFINE old == placing[t]
             p == [placing[t] EXCEPT !.held = @ \cup {v}]
  <1>2. old \in Placings
    BY DEF Typed
  <1>3. /\ p.held = old.held \cup {v} /\ p.lines = old.lines /\ p.read = old.read
        /\ old.held \subseteq Variants
    BY <1>2 DEF Placings
  <1>4. v \in Unlocked(t) /\ \A w \in Unlocked(t) : Key[v] <= Key[w]
    BY <1>1 DEF NextToLock
  <1>5. Unlocked(t) = InBag(old.lines) \ old.held /\ Unlocked(t) \subseteq Variants
    BY DEF Unlocked, InBag
  <1>6. \A w \in Unlocked(t) \ {v} : Key[v] < Key[w]
    BY <1>4, <1>5, ConstantsAssumption
  <1>7. LocksOf(old)
    BY DEF LocksInOrder
  <1>8. old.read
    <2>1. v \in InBag(old.lines)
      BY <1>4, <1>5
    <2>2. old.lines # NoLines
      BY <2>1 DEF InBag, NoLines
    <2>3. QED
      BY <1>7, <2>2 DEF LocksOf
  <1>9. placing' = [placing EXCEPT ![t] = p]
    BY <1>1
  <1> HIDE DEF p, old
  <1>10. LocksOf(p)
    BY <1>3, <1>5, <1>6, <1>7, <1>8 DEF LocksOf
  <1>11. QED
    BY <1>9, <1>10, OneMoves

\* Every checkout locks its variants in the order of their keys.
LEMMA OrderStep ==
    Typed /\ LocksInOrder /\ [Next]_vars => LocksInOrder'
  <1> SUFFICES ASSUME Typed, LocksInOrder, [Next]_vars PROVE LocksInOrder'
    OBVIOUS
  <1>1. CASE UNCHANGED placing
    BY <1>1 DEF LocksInOrder, LocksOf, InBag
  <1>2. ASSUME NEW t \in Tabs, PlaceLocksCart(t) PROVE LocksInOrder'
    <2>1. PICK c : placing' = [placing EXCEPT ![t] = [placing[t] EXCEPT !.cart = c]]
      BY <1>2 DEF PlaceLocksCart
    <2> DEFINE p == [placing[t] EXCEPT !.cart = c]
    <2>2. p.read = placing[t].read /\ p.lines = placing[t].lines /\ p.held = placing[t].held
      BY DEF Typed, Placings
    <2>3. LocksOf(placing[t])
      BY DEF LocksInOrder
    <2> HIDE DEF p
    <2>4. LocksOf(p)
      BY <2>2, <2>3 DEF LocksOf
    <2>5. QED
      BY <2>1, <2>4, OneMoves DEF p
  <1>3. ASSUME NEW t \in Tabs, PlaceReadsLines(t) PROVE LocksInOrder'
    <2> DEFINE p == [placing[t] EXCEPT !.read = TRUE, !.lines = items[placing[t].cart],
                                       !.prices = price, !.listed = listed]
    <2>1. placing' = [placing EXCEPT ![t] = p] /\ ~placing[t].read
      BY <1>3 DEF PlaceReadsLines
    <2>2. p.read /\ p.held = placing[t].held
      BY DEF Typed, Placings
    <2>3. p.held = {}
      BY <2>1, <2>2 DEF LocksInOrder, LocksOf
    <2> HIDE DEF p
    <2>4. LocksOf(p)
      BY <2>2, <2>3 DEF LocksOf
    <2>5. QED
      BY <2>1, <2>4, OneMoves
  <1>4. ASSUME NEW t \in Tabs, PlaceCommits(t) \/ PlaceRefuses(t) \/ PlaceAborts(t)
        PROVE  LocksInOrder'
    BY <1>4, NothingHeld, OneMoves DEF PlaceCommits, PlaceRefuses, PlaceAborts
  <1>5. ASSUME \/ \E t \in Tabs : EditBegins(t)
               \/ \E t \in Tabs, v \in Variants, q \in 0..MaxQuantity : EditCommits(t, v, q)
               \/ \E v \in Changing : ProductChanges(v)
               \/ \E n \in Vendors, v \in Variants : VendorReads(n, v)
               \/ \E n \in Vendors : VendorSaves(n)
               \/ \E t \in Tabs : Quote(t)
               \/ UNCHANGED vars
        PROVE  LocksInOrder'
    BY <1>1, <1>5 DEF EditBegins, EditCommits, ProductChanges, VendorReads,
                      VendorSaves, Quote, vars
  <1>6. QED
    BY <1>2, <1>3, <1>4, <1>5, LocksVariantStep DEF Next

\* The variants whose locks come after that of v.
Above(v) == {w \in Variants : Key[w] > Key[v]}

\* Among checkouts each of which waits for another one, the one whose next
\* variant comes last waits for a holder that goes on to a later one.
LEMMA OrderedNeverWaitInCircles == Typed /\ LocksInOrder => NoCircularWait
  <1> SUFFICES ASSUME Typed, LocksInOrder, NEW S \in SUBSET Tabs, S # {},
                      \A t \in S : WaitsFor(t) \cap S # {}
               PROVE  FALSE
    BY DEF NoCircularWait
  <1> DEFINE T == {Above(v) : v \in UNION {NextToLock(t) : t \in S}}
  <1>1. \A t \in S : NextToLock(t) \subseteq Variants
    BY DEF NextToLock, Unlocked, InBag
  <1>2. \A t \in S : \E u \in S, v \in NextToLock(t) : v \in placing[u].held
    BY DEF WaitsFor
  <1>3. T # {}
    BY <1>2
  <1>4. T \subseteq FiniteSubsetsOf(Variants)
    <2>1. T \subseteq SUBSET Variants
      BY DEF Above
    <2>2. IsFiniteSet(Variants)
      BY ConstantsAssumption
    <2>3. FiniteSubsetsOf(Variants) = SUBSET Variants
      BY <2>2, FS_FiniteSubsetsOfFinite
    <2>4. QED
      BY <2>1, <2>3
  <1>5. IsWellFoundedOn(StrictSubsetOrdering(Variants), FiniteSubsetsOf(Variants))
    BY FS_StrictSubsetOrderingWellFounded
  <1> HIDE DEF T
  <1>6. PICK A \in T : \A B \in T : <<B, A>> \notin StrictSubsetOrdering(Variants)
    BY <1>3, <1>4, <1>5, WFMin
  <1>7. PICK t \in S : \E v \in NextToLock(t) : A = Above(v)
    BY <1>6 DEF T
  <1>8. PICK v \in NextToLock(t) : A = Above(v)
    BY <1>7
  <1>9. PICK u \in S, x \in NextToLock(t) : x \in placing[u].held
    BY <1>2
  <1>10. x = v
    <2>1. Key[x] = Key[v] /\ x \in Variants /\ v \in Variants
      <3>1. Key[x] <= Key[v] /\ Key[v] <= Key[x]
        BY <1>8, <1>9 DEF NextToLock
      <3>2. x \in Variants /\ v \in Variants
        BY <1>1, <1>8, <1>9
      <3>3. Key[x] \in Nat /\ Key[v] \in Nat
        BY <3>2, ConstantsAssumption
      <3>4. QED
        BY <3>1, <3>2, <3>3
    <2>2. QED
      BY <2>1, ConstantsAssumption
  <1>11. PICK w \in NextToLock(u) : TRUE
    BY <1>2
  <1>12. Key[v] < Key[w]
    BY <1>9, <1>10, <1>11 DEF LocksInOrder, LocksOf, NextToLock, Unlocked
  <1>13. v \in Variants /\ w \in Variants /\ Key \in [Variants -> Nat]
    BY <1>1, <1>8, <1>11, ConstantsAssumption
  <1>14. Above(w) \subseteq Above(v) /\ w \in Above(v) /\ w \notin Above(w)
    BY <1>12, <1>13 DEF Above
  <1>15. <<Above(w), Above(v)>> \in StrictSubsetOrdering(Variants)
    <2>1. Above(w) \in SUBSET Variants /\ Above(v) \in SUBSET Variants
      BY DEF Above
    <2>2. QED
      BY <1>14, <2>1 DEF StrictSubsetOrdering
  <1>16. Above(w) \in T
    BY <1>11 DEF T
  <1>17. QED
    BY <1>6, <1>8, <1>15, <1>16

\* Checkouts that share items never wait for each other in a circle, since each
\* locks its variants in the order of their primary keys
\* (checkout/services.py, place_order).
THEOREM NoCircularWaitTheorem == Spec => []NoCircularWait
  <1>1. Init => LocksInOrder
    <2> SUFFICES ASSUME Init PROVE LocksInOrder
      OBVIOUS
    <2>1. \A t \in Tabs : placing[t] = NotPlacing
      BY DEF Init
    <2>2. QED
      BY <2>1, NothingHeld DEF LocksInOrder
  <1>2. Inv => Typed
    BY DEF Inv
  <1>3. QED
    BY <1>1, <1>2, InitInv, InvStep, OrderStep, OrderedNeverWaitInCircles, PTL DEF Spec

-----------------------------------------------------------------------------
(* Types, stock and sales. *)

OrderRows == [cart : Carts, lines : Lines \ {NoLines}, total : Nat]

Savings == [variants : SUBSET Variants, stock : Nat]

\* What TypeOK says beyond Typed, and what it takes to keep it.
Counted ==
    /\ stock \in [Variants -> Nat]
    /\ orders \in Seq(OrderRows)
    /\ quoted \in [Tabs -> SUBSET Nat]
    /\ saving \in [Vendors -> Savings]
    /\ \A t \in Tabs : placing[t].held \subseteq InBag(placing[t].lines)

AllInv == Inv /\ LocksInOrder /\ Counted

\* Together they are the type invariant.
LEMMA CountedTypes == Typed /\ Counted => TypeOK
  <1> SUFFICES ASSUME Typed, Counted PROVE TypeOK
    OBVIOUS
  <1>1. \A i \in DOMAIN orders : orders[i] \in OrderRows
    <2>1. orders \in Seq(OrderRows)
      BY DEF Counted
    <2>2. QED
      BY <2>1, ElementOfSeq, LenProperties
  <1>2. \A t \in Tabs : placing[t].cart \in Carts \cup {NoCart}
    BY DEF Typed, Placings
  <1>3. QED
    BY <1>1, <1>2 DEF Typed, Counted, TypeOK, OrderRows

\* The price of a bag is a number.
LEMMA TotalIsNat ==
    ASSUME NEW lines \in Lines, NEW prices \in [Variants -> Nat]
    PROVE  Total(lines, prices) \in Nat
  <1> DEFINE f == [v \in Variants |-> lines[v] * prices[v]]
  <1>1. \A v \in Variants : lines[v] \in Nat /\ prices[v] \in Nat
    BY ConstantsAssumption DEF Lines
  <1>2. \A v \in Variants : f[v] \in Nat
    BY <1>1
  <1>3. IsFiniteSet(Variants)
    BY ConstantsAssumption
  <1> HIDE DEF f
  <1>4. SumFunctionOnSet(f, Variants) \in Nat
    BY <1>2, <1>3, SumIsNat
  <1>5. QED
    BY <1>4 DEF Total, f

\* One tab's checkout moves, and holds only what is in its bag.
LEMMA HoldsItsBag ==
    ASSUME Typed, Counted, NEW t \in Tabs, NEW p, p.held \subseteq InBag(p.lines),
           placing' = [placing EXCEPT ![t] = p]
    PROVE  \A u \in Tabs : placing'[u].held \subseteq InBag(placing'[u].lines)
  <1>1. \A u \in Tabs : placing'[u] = IF u = t THEN p ELSE placing[u]
    BY DEF Typed
  <1>2. QED
    BY <1>1 DEF Counted

\* An order that is placed is typed, and the stock covers it.
LEMMA CommitIsTyped ==
    ASSUME Inv, Counted, NEW t \in Tabs, PlaceCommits(t)
    PROVE  /\ placing[t].lines \in Lines \ {NoLines}
           /\ orders' \in Seq(OrderRows)
           /\ stock' \in [Variants -> Nat]
           /\ \A v \in Variants : placing[t].lines[v] <= stock[v]
  <1> DEFINE p == placing[t]
  <1>1. p.lines \in Lines /\ p.prices \in [Variants -> Nat] /\ p.cart \in Carts
    <2>1. p \in Placings /\ p.read /\ p.cart # NoCart
      BY DEF PlaceCommits, ReadyToDecide, Inv, CartHeld, Typed
    <2>2. p.prices \in [Variants -> Prices \cup {0}] /\ Prices \cup {0} \subseteq Nat
      BY <2>1, ConstantsAssumption DEF Placings
    <2>3. p.lines \in Lines /\ p.cart \in Carts
      BY <2>1 DEF Placings
    <2> HIDE DEF p
    <2>4. QED
      BY <2>2, <2>3
  <1>2. p.lines # NoLines /\ \A v \in InBag(p.lines) : stock[v] >= p.lines[v]
    BY DEF PlaceCommits, CanBeSold, Purchasable
  <1>3. \A v \in Variants : p.lines[v] \in Nat /\ stock[v] \in Nat
    BY <1>1, ConstantsAssumption DEF Counted, Lines
  <1>4. \A v \in Variants : p.lines[v] <= stock[v]
    BY <1>2, <1>3 DEF InBag
  <1>5. FreshTotal(t) \in Nat
    BY <1>1, TotalIsNat DEF FreshTotal
  <1>6. stock' = [v \in Variants |-> stock[v] - p.lines[v]]
    BY DEF PlaceCommits, Reserve
  <1>7. orders' = Append(orders, [cart |-> p.cart, lines |-> p.lines,
                                  total |-> FreshTotal(t)])
    BY DEF PlaceCommits
  <1> HIDE DEF p
  <1>8. stock' \in [Variants -> Nat]
    BY <1>3, <1>4, <1>6
  <1>9. [cart |-> p.cart, lines |-> p.lines, total |-> FreshTotal(t)] \in OrderRows
    BY <1>1, <1>2, <1>5 DEF OrderRows
  <1>10. orders' \in Seq(OrderRows)
    BY <1>7, <1>9, AppendProperties DEF Counted
  <1>11. QED
    BY <1>1, <1>2, <1>4, <1>8, <1>10 DEF p

\* Nothing is sold, quoted or held at first.
LEMMA InitCounted == Init => Counted
  <1> SUFFICES ASSUME Init PROVE Counted
    OBVIOUS
  <1>1. stock \in [Variants -> Nat]
    BY ConstantsAssumption DEF Init
  <1>2. NotSaving \in Savings
    BY DEF NotSaving, Savings
  <1>3. orders \in Seq(OrderRows)
    BY DEF Init
  <1>4. \A t \in Tabs : placing[t] = NotPlacing /\ NotPlacing.held = {}
    BY DEF Init, NotPlacing
  <1>5. quoted \in [Tabs -> SUBSET Nat] /\ saving \in [Vendors -> Savings]
    BY <1>2 DEF Init, NoQuote
  <1>6. QED
    BY <1>1, <1>3, <1>4, <1>5 DEF Counted

\* The tab that is told the price is told a number.
LEMMA QuoteIsTyped ==
    ASSUME Inv, Counted, NEW t \in Tabs, Quote(t) \/ PlaceRefuses(t)
    PROVE  quoted' \in [Tabs -> SUBSET Nat]
  <1>1. CASE Quote(t)
    <2>1. PICK c \in ActiveCarts(t) : quoted' = [quoted EXCEPT ![t] = {Total(items[c], price)}]
      BY <1>1 DEF Quote
    <2>2. items[c] \in Lines /\ price \in [Variants -> Nat]
      <3>1. c \in Carts /\ items \in [Carts -> Lines] /\ price \in [Variants -> Prices]
        BY <2>1 DEF ActiveCarts, Inv, Typed
      <3>2. Prices \subseteq Nat
        BY ConstantsAssumption
      <3>3. QED
        BY <3>1, <3>2
    <2>3. Total(items[c], price) \in Nat
      BY <2>2, TotalIsNat
    <2>4. QED
      BY <2>1, <2>3 DEF Counted
  <1>2. CASE PlaceRefuses(t)
    <2>1. quoted' = quoted \/ quoted' = [quoted EXCEPT ![t] = {FreshTotal(t)}]
      BY <1>2 DEF PlaceRefuses
    <2>2. placing[t].lines \in Lines /\ placing[t].prices \in [Variants -> Nat]
      <3>1. placing[t] \in Placings
        BY DEF Inv, Typed
      <3>2. placing[t].lines \in Lines
            /\ placing[t].prices \in [Variants -> Prices \cup {0}]
        BY <3>1 DEF Placings
      <3>3. Prices \cup {0} \subseteq Nat
        BY ConstantsAssumption
      <3>4. QED
        BY <3>2, <3>3
    <2>3. FreshTotal(t) \in Nat
      BY <2>2, TotalIsNat DEF FreshTotal
    <2>4. QED
      BY <2>1, <2>3 DEF Counted
  <1>3. QED
    BY <1>1, <1>2

\* Every step leaves stock, orders, quotes and locks typed.
LEMMA CountedStep == AllInv /\ [Next]_vars => Counted'
  <1> SUFFICES ASSUME AllInv, [Next]_vars PROVE Counted'
    OBVIOUS
  <1>1. Inv /\ Typed /\ LocksInOrder /\ Counted
    BY DEF AllInv, Inv
  <1>2. ASSUME UNCHANGED <<stock, orders, quoted, saving, placing>> PROVE Counted'
    BY <1>1, <1>2 DEF Counted, InBag
  <1>3. ASSUME NEW t \in Tabs, NEW p, p.held \subseteq InBag(p.lines),
               placing' = [placing EXCEPT ![t] = p],
               UNCHANGED <<stock, orders, saving>>,
               quoted' \in [Tabs -> SUBSET Nat]
        PROVE  Counted'
    <2>1. \A u \in Tabs : placing'[u].held \subseteq InBag(placing'[u].lines)
      BY <1>1, <1>3, HoldsItsBag
    <2>2. QED
      BY <1>1, <1>3, <2>1 DEF Counted, InBag
  <1>4. NotPlacing.held \subseteq InBag(NotPlacing.lines) /\ quoted \in [Tabs -> SUBSET Nat]
    BY <1>1 DEF NotPlacing, Counted
  <1>5. ASSUME NEW n \in Vendors, NEW v \in Variants, VendorReads(n, v) PROVE Counted'
    <2>1. [variants |-> {v}, stock |-> stock[v]] \in Savings
      BY <1>1 DEF Counted, Savings
    <2>2. saving' \in [Vendors -> Savings] /\ UNCHANGED <<stock, orders, quoted, placing>>
      BY <1>1, <1>5, <2>1 DEF VendorReads, Counted
    <2>3. QED
      BY <1>1, <2>2 DEF Counted, InBag
  <1>6. ASSUME NEW n \in Vendors, VendorSaves(n) PROVE Counted'
    <2>1. PICK v \in saving[n].variants :
              /\ stock' = [stock EXCEPT ![v] = saving[n].stock]
              /\ saving' = [saving EXCEPT ![n] = NotSaving]
              /\ UNCHANGED <<orders, quoted, placing>>
      BY <1>6 DEF VendorSaves
    <2>2. NotSaving \in Savings /\ saving[n].stock \in Nat
      BY <1>1 DEF NotSaving, Savings, Counted
    <2>3. stock' \in [Variants -> Nat] /\ saving' \in [Vendors -> Savings]
      BY <1>1, <2>1, <2>2 DEF Counted
    <2>4. QED
      BY <1>1, <2>1, <2>3 DEF Counted, InBag
  <1>7. ASSUME NEW t \in Tabs, Quote(t) PROVE Counted'
    <2>1. quoted' \in [Tabs -> SUBSET Nat]
      BY <1>1, <1>7, QuoteIsTyped
    <2>2. UNCHANGED <<stock, orders, saving, placing>>
      BY <1>7 DEF Quote
    <2>3. QED
      BY <1>1, <2>1, <2>2 DEF Counted, InBag
  <1>8. ASSUME NEW t \in Tabs, PlaceLocksCart(t) PROVE Counted'
    <2>1. PICK c : placing' = [placing EXCEPT ![t] = [placing[t] EXCEPT !.cart = c]]
      BY <1>8 DEF PlaceLocksCart
    <2> DEFINE p == [placing[t] EXCEPT !.cart = c]
    <2>2. placing[t] \in Placings /\ placing[t].held \subseteq InBag(placing[t].lines)
      BY <1>1 DEF Typed, Counted
    <2>3. p.held \subseteq InBag(p.lines)
      BY <2>2 DEF Placings
    <2>4. UNCHANGED <<stock, orders, saving, quoted>>
      BY <1>8 DEF PlaceLocksCart
    <2> HIDE DEF p
    <2>5. placing' = [placing EXCEPT ![t] = p]
      BY <2>1 DEF p
    <2>6. QED
      BY <1>3, <1>4, <2>3, <2>4, <2>5
  <1>9. ASSUME NEW t \in Tabs, PlaceReadsLines(t) PROVE Counted'
    <2> DEFINE p == [placing[t] EXCEPT !.read = TRUE, !.lines = items[placing[t].cart],
                                       !.prices = price, !.listed = listed]
    <2>1. /\ placing' = [placing EXCEPT ![t] = p] /\ ~placing[t].read
          /\ UNCHANGED <<stock, orders, saving, quoted>>
      BY <1>9 DEF PlaceReadsLines
    <2>2. placing[t] \in Placings /\ placing[t].held = {}
      BY <1>1, <2>1 DEF Typed, LocksInOrder, LocksOf
    <2>3. p.held \subseteq InBag(p.lines)
      BY <2>2 DEF Placings
    <2> HIDE DEF p
    <2>4. QED
      BY <1>3, <1>4, <2>1, <2>3
  <1>10. ASSUME NEW t \in Tabs, PlaceLocksVariant(t) PROVE Counted'
    <2>1. PICK v \in NextToLock(t) :
              placing' = [placing EXCEPT ![t] = [placing[t] EXCEPT !.held = @ \cup {v}]]
      BY <1>10 DEF PlaceLocksVariant
    <2> DEFINE p == [placing[t] EXCEPT !.held = @ \cup {v}]
    <2>2. placing[t] \in Placings /\ placing[t].held \subseteq InBag(placing[t].lines)
      BY <1>1 DEF Typed, Counted
    <2>3. v \in InBag(placing[t].lines)
      BY <2>1 DEF NextToLock, Unlocked
    <2>4. p.held = placing[t].held \cup {v} /\ p.lines = placing[t].lines
      BY <2>2 DEF Placings
    <2>5. UNCHANGED <<stock, orders, saving, quoted>>
      BY <1>10 DEF PlaceLocksVariant
    <2>6. placing' = [placing EXCEPT ![t] = p]
      BY <2>1
    <2> HIDE DEF p
    <2>7. p.held \subseteq InBag(p.lines)
      BY <2>2, <2>3, <2>4
    <2>8. QED
      BY <1>3, <1>4, <2>5, <2>6, <2>7
  <1>11. ASSUME NEW t \in Tabs, PlaceCommits(t) PROVE Counted'
    <2>1. orders' \in Seq(OrderRows) /\ stock' \in [Variants -> Nat]
      BY <1>1, <1>11, CommitIsTyped
    <2>2. /\ placing' = [placing EXCEPT ![t] = NotPlacing]
          /\ quoted' = [quoted EXCEPT ![t] = NoQuote]
          /\ UNCHANGED saving
      BY <1>11 DEF PlaceCommits
    <2>3. \A u \in Tabs : placing'[u].held \subseteq InBag(placing'[u].lines)
      BY <1>1, <1>4, <2>2, HoldsItsBag
    <2>4. quoted' \in [Tabs -> SUBSET Nat]
      BY <1>1, <2>2 DEF Counted, NoQuote
    <2>5. QED
      BY <1>1, <2>1, <2>2, <2>3, <2>4 DEF Counted, InBag
  <1>12. ASSUME NEW t \in Tabs, PlaceRefuses(t) PROVE Counted'
    <2>1. quoted' \in [Tabs -> SUBSET Nat]
      BY <1>1, <1>12, QuoteIsTyped
    <2>2. /\ placing' = [placing EXCEPT ![t] = NotPlacing]
          /\ UNCHANGED <<stock, orders, saving>>
      BY <1>12 DEF PlaceRefuses
    <2>3. QED
      BY <1>3, <1>4, <2>1, <2>2
  <1>13. ASSUME NEW t \in Tabs, PlaceAborts(t) PROVE Counted'
    <2>1. /\ placing' = [placing EXCEPT ![t] = NotPlacing]
          /\ UNCHANGED <<stock, orders, saving, quoted>>
      BY <1>13 DEF PlaceAborts
    <2>2. QED
      BY <1>3, <1>4, <2>1
  <1>14. ASSUME \/ \E t \in Tabs : EditBegins(t)
                \/ \E t \in Tabs, v \in Variants, q \in 0..MaxQuantity : EditCommits(t, v, q)
                \/ \E v \in Changing : ProductChanges(v)
                \/ UNCHANGED vars
         PROVE  Counted'
    BY <1>2, <1>14 DEF EditBegins, EditCommits, ProductChanges, vars
  <1>15. QED
    BY <1>1, <1>5, <1>6, <1>7, <1>8, <1>9, <1>10, <1>11, <1>12, <1>13, <1>14 DEF AllInv, Next

\* The three invariants, together.
LEMMA AllInvariant == Spec => []AllInv
  <1>1. Init => AllInv
    <2>1. Init => LocksInOrder
      <3> SUFFICES ASSUME Init PROVE LocksInOrder
        OBVIOUS
      <3>1. \A t \in Tabs : placing[t] = NotPlacing
        BY DEF Init
      <3>2. QED
        BY <3>1, NothingHeld DEF LocksInOrder
    <2>2. QED
      BY <2>1, InitInv, InitCounted DEF AllInv
  <1>2. AllInv /\ [Next]_vars => AllInv'
    BY InvStep, OrderStep, CountedStep DEF AllInv, Inv
  <1>3. QED
    BY <1>1, <1>2, PTL DEF Spec

\* Every variable keeps its type: no order is empty, no total and no stock is
\* negative, and a checkout locks only what is in its bag.
THEOREM TypeCorrect == Spec => []TypeOK
  <1>1. AllInv => TypeOK
    BY CountedTypes DEF AllInv, Inv
  <1>2. QED
    BY <1>1, AllInvariant, PTL

\* The pieces of v in the orders with the numbers in W.
SoldIn(s, v, W) == SumFunctionOnSet([i \in DOMAIN s |-> s[i].lines[v]], W)

\* What was sold before is sold after one more order, and its lines as well.
LEMMA SoldByOneMore ==
    ASSUME NEW s \in Seq(OrderRows), NEW o \in OrderRows, NEW v \in Variants,
           NEW W \in SUBSET DOMAIN s
    PROVE  /\ SoldIn(s, v, W) \in Nat /\ SoldIn(s, v, {}) = 0
           /\ o.lines[v] \in Nat
           /\ SoldIn(Append(s, o), v, W) = SoldIn(s, v, W)
           /\ SoldIn(Append(s, o), v, W \cup {Len(s) + 1}) =
                  o.lines[v] + SoldIn(s, v, W)
  <1> DEFINE n == Len(s)
             f == [i \in DOMAIN s |-> s[i].lines[v]]
             g == [i \in DOMAIN Append(s, o) |-> Append(s, o)[i].lines[v]]
             X == W \cup {n + 1}
  <1>1. n \in Nat /\ DOMAIN s = 1..n
    BY LenProperties
  <1>2. /\ DOMAIN Append(s, o) = 1..(n + 1)
        /\ \A i \in 1..n : Append(s, o)[i] = s[i]
        /\ Append(s, o)[n + 1] = o
    BY AppendProperties, LenProperties
  <1>3. \A r \in OrderRows : r.lines[v] \in Nat
    BY ConstantsAssumption DEF OrderRows, Lines
  <1>4. \A i \in 1..n : f[i] \in Nat
    BY <1>1, <1>3, ElementOfSeq
  <1>5. \A i \in 1..n : g[i] = f[i]
    BY <1>1, <1>2
  <1>6. g[n + 1] = o.lines[v] /\ o.lines[v] \in Nat
    BY <1>1, <1>2, <1>3
  <1>7. IsFiniteSet(W) /\ IsFiniteSet(X)
    <2>1. IsFiniteSet(DOMAIN s)
      BY <1>1, FS_Interval
    <2>2. IsFiniteSet(W)
      BY <2>1, FS_Subset
    <2>3. QED
      BY <2>2, FS_AddElement
  <1> HIDE DEF f, g, n
  <1>8. /\ SumFunctionOnSet(f, W) \in Nat /\ SumFunctionOnSet(f, {}) = 0
        /\ SumFunctionOnSet(g, W) = SumFunctionOnSet(f, W)
    <2>1. \A i \in W : f[i] \in Nat /\ g[i] = f[i]
      BY <1>1, <1>4, <1>5
    <2>2. QED
      BY <2>1, <1>7, SumIsNat, SumSame
  <1>9. SumFunctionOnSet(g, X) = o.lines[v] + SumFunctionOnSet(f, W)
    <2>1. \A i \in X : g[i] \in Nat
      BY <1>1, <1>4, <1>5, <1>6
    <2>2. n + 1 \in X
      OBVIOUS
    <2>3. SumFunctionOnSet(g, X) = g[n + 1] + SumFunctionOnSet(g, X \ {n + 1})
      BY ONLY <2>1, <2>2, <1>7, SumStep
    <2>4. X \ {n + 1} = W
      BY <1>1
    <2>5. QED
      BY <2>3, <2>4, <1>6, <1>8
  <1>10. QED
    BY <1>6, <1>8, <1>9 DEF SoldIn, f, g, n

\* The rows of the order that is placed.
LEMMA CommitAppends ==
    ASSUME Inv, Counted, NEW t \in Tabs, PlaceCommits(t)
    PROVE  \E o \in OrderRows :
              /\ o.cart = placing[t].cart /\ o.lines = placing[t].lines
              /\ orders' = Append(orders, o)
  <1> DEFINE o == [cart |-> placing[t].cart, lines |-> placing[t].lines,
                   total |-> FreshTotal(t)]
  <1>1. orders' = Append(orders, o) /\ orders' \in Seq(OrderRows)
        /\ orders \in Seq(OrderRows)
    BY CommitIsTyped DEF PlaceCommits, Counted
  <1> HIDE DEF o
  <1>2. o \in OrderRows
    <2>1. PICK R : Append(orders, o) \in Seq(R)
      BY <1>1
    <2>2. Len(orders) + 1 \in DOMAIN orders' /\ orders'[Len(orders) + 1] = o
      <3> DEFINE Q == OrderRows \cup {o}
      <3>1. orders \in Seq(Q) /\ o \in Q
        BY <1>1, SeqMonotonic
      <3>2. Len(Append(orders, o)) = Len(orders) + 1 /\ Len(orders) \in Nat
            /\ Append(orders, o)[Len(orders) + 1] = o
            /\ Append(orders, o) \in Seq(Q)
        BY <3>1, AppendProperties, LenProperties
      <3>3. QED
        BY <3>2, <1>1, LenProperties
    <2>3. QED
      BY <2>2, <1>1, ElementOfSeq, LenProperties
  <1>3. o.cart = placing[t].cart /\ o.lines = placing[t].lines
    BY DEF o
  <1>4. QED
    BY <1>1, <1>2, <1>3

NobodySaves == \A n \in Vendors : ~VendorSaves(n)

\* Apart from a vendor's save, only the order that is placed moves stock.
LEMMA OnlyCommitsSell ==
    ASSUME [Next]_vars, [NobodySaves]_vars, \A t \in Tabs : ~PlaceCommits(t)
    PROVE  UNCHANGED <<stock, orders>>
  <1>1. CASE UNCHANGED vars
    BY <1>1 DEF vars
  <1>2. CASE Next /\ NobodySaves
    <2>1. ASSUME NEW t \in Tabs, EditBegins(t) \/ Quote(t) \/ PlaceLocksCart(t)
          PROVE  UNCHANGED <<stock, orders>>
      BY <2>1 DEF EditBegins, Quote, PlaceLocksCart
    <2>2. ASSUME NEW t \in Tabs, PlaceReadsLines(t) \/ PlaceLocksVariant(t)
                                 \/ PlaceRefuses(t) \/ PlaceAborts(t)
          PROVE  UNCHANGED <<stock, orders>>
      BY <2>2 DEF PlaceReadsLines, PlaceLocksVariant, PlaceRefuses, PlaceAborts
    <2>3. ASSUME \/ \E t \in Tabs, v \in Variants, q \in 0..MaxQuantity : EditCommits(t, v, q)
                 \/ \E v \in Changing : ProductChanges(v)
                 \/ \E n \in Vendors, v \in Variants : VendorReads(n, v)
          PROVE  UNCHANGED <<stock, orders>>
      BY <2>3 DEF EditCommits, ProductChanges, VendorReads
    <2>4. QED
      BY <1>2, <2>1, <2>2, <2>3 DEF Next, NobodySaves
  <1>3. QED
    BY <1>1, <1>2

\* An order takes out of stock what it adds to the sales.
LEMMA StockStep ==
    AllInv /\ StockConserved /\ [Next]_vars /\ [NobodySaves]_vars => StockConserved'
  <1> SUFFICES ASSUME AllInv, StockConserved, [Next]_vars, [NobodySaves]_vars
               PROVE  StockConserved'
    OBVIOUS
  <1>1. CASE UNCHANGED <<stock, orders>>
    BY <1>1 DEF StockConserved, Sold
  <1>2. ASSUME NEW t \in Tabs, PlaceCommits(t) PROVE StockConserved'
    <2>1. Inv /\ Counted
      BY DEF AllInv
    <2>2. PICK o \in OrderRows :
              o.lines = placing[t].lines /\ orders' = Append(orders, o)
      BY <1>2, <2>1, CommitAppends
    <2>3. orders \in Seq(OrderRows) /\ stock \in [Variants -> Nat]
      BY <2>1 DEF Counted
    <2>4. SUFFICES ASSUME NEW v \in Variants
                   PROVE  stock'[v] + SoldIn(orders', v, DOMAIN orders') = Supply[v]
      BY DEF StockConserved, Sold, SoldIn
    <2>5. stock'[v] = stock[v] - o.lines[v]
      BY <1>2, <2>2 DEF PlaceCommits, Reserve
    <2>6. DOMAIN orders' = DOMAIN orders \cup {Len(orders) + 1}
      BY <2>2, <2>3, AppendProperties, LenProperties
    <2>7. /\ SoldIn(orders', v, DOMAIN orders') =
                 o.lines[v] + SoldIn(orders, v, DOMAIN orders)
          /\ SoldIn(orders, v, DOMAIN orders) \in Nat /\ o.lines[v] \in Nat
      <3>1. \A W \in SUBSET DOMAIN orders :
               /\ SoldIn(orders, v, W) \in Nat /\ o.lines[v] \in Nat
               /\ SoldIn(orders', v, W \cup {Len(orders) + 1}) =
                      o.lines[v] + SoldIn(orders, v, W)
        BY <2>2, <2>3, SoldByOneMore
      <3>2. DOMAIN orders \in SUBSET DOMAIN orders
        OBVIOUS
      <3>3. QED
        BY <2>6, <3>1, <3>2
    <2>8. stock[v] + SoldIn(orders, v, DOMAIN orders) = Supply[v]
      BY DEF StockConserved, Sold, SoldIn
    <2>9. QED
      BY <2>3, <2>5, <2>7, <2>8
  <1>3. QED
    BY <1>1, <1>2, OnlyCommitsSell

\* Every piece is either in stock or in exactly one order, whoever checks out
\* at the same time, whatever is refused after it was locked and however
\* requests die, as long as no vendor saves a variant it read before a sale
\* (checkout/services.py, place_order; catalog/services.py, reserve_stock).
THEOREM StockTheorem ==
    Spec /\ [][NobodySaves]_vars => []StockConserved
  <1>1. Init => StockConserved
    <2> SUFFICES ASSUME Init, NEW v \in Variants
                 PROVE  stock[v] + SoldIn(orders, v, DOMAIN orders) = Supply[v]
      BY DEF StockConserved, Sold, SoldIn
    <2>1. stock[v] = Supply[v] /\ Supply[v] \in Nat /\ orders = <<>>
      BY ConstantsAssumption DEF Init
    <2>2. DOMAIN orders = {}
      BY <2>1
    <2>3. SumFunctionOnSet([i \in DOMAIN orders |-> orders[i].lines[v]], {}) = 0
      BY SumIsNat, FS_EmptySet
    <2>4. QED
      BY <2>1, <2>2, <2>3 DEF SoldIn
  <1>2. QED
    BY <1>1, AllInvariant, StockStep, PTL DEF Spec

\* The pieces sold out of each bag: what Sales calls sold.
BagSold ==
    [c \in Carts |-> [v \in Variants |->
        SoldIn(orders, v, {i \in DOMAIN orders : orders[i].cart = c})]]

\* Placing an order sells a bag that had not been sold.
LEMMA CommitSells ==
    ASSUME AllInv, NEW t \in Tabs, PlaceCommits(t)
    PROVE  LET c == placing[t].cart IN
           /\ c \in Carts
           /\ BagSold[c] = [v \in Variants |-> 0]
           /\ BagSold' \in [Carts -> [Variants -> Nat]]
           /\ BagSold'[c] = placing[t].lines
           /\ \A d \in Carts \ {c} : BagSold'[d] = BagSold[d]
  <1> DEFINE c == placing[t].cart
             Of(s, d) == {i \in DOMAIN s : s[i].cart = d}
  <1>1. Inv /\ Counted
    BY DEF AllInv
  <1>2. PICK o \in OrderRows : /\ o.cart = c /\ o.lines = placing[t].lines
                               /\ orders' = Append(orders, o)
    BY <1>1, CommitAppends
  <1>3. orders \in Seq(OrderRows) /\ orders' \in Seq(OrderRows)
    BY <1>1, CommitIsTyped DEF Counted
  <1> DEFINE n == Len(orders)
  <1>4. /\ n \in Nat /\ DOMAIN orders = 1..n /\ DOMAIN orders' = 1..(n + 1)
        /\ \A i \in 1..n : orders'[i] = orders[i]
        /\ orders'[n + 1] = o
    BY <1>2, <1>3, AppendProperties, LenProperties
  <1>5. c \in active /\ c \in Carts
    BY <1>1 DEF PlaceCommits, ReadyToDecide, Inv, CartHeld, Typed
  <1>6. Of(orders, c) = {} /\ Of(orders', c) = {n + 1}
    <2>1. \A i \in DOMAIN orders : orders[i].cart # c
      BY <1>1, <1>5 DEF Inv, CartsRetired
    <2>2. QED
      BY <2>1, <1>2, <1>4
  <1>7. \A d \in Carts \ {c} : Of(orders', d) = Of(orders, d)
    BY <1>2, <1>4
  <1> HIDE DEF n
  <1>8. o.lines \in [Variants -> Nat]
    BY ConstantsAssumption DEF OrderRows, Lines
  <1>9. \A v \in Variants, W \in SUBSET DOMAIN orders :
            /\ SoldIn(orders, v, W) \in Nat /\ SoldIn(orders, v, {}) = 0
            /\ SoldIn(orders', v, W) = SoldIn(orders, v, W)
            /\ SoldIn(orders', v, W \cup {n + 1}) = o.lines[v] + SoldIn(orders, v, W)
    BY <1>2, <1>3, SoldByOneMore DEF n
  <1>10. \A v \in Variants : /\ SoldIn(orders, v, Of(orders, c)) = 0
                              /\ SoldIn(orders', v, Of(orders', c)) = o.lines[v]
    <2> TAKE v \in Variants
    <2>1. {} \in SUBSET DOMAIN orders /\ {} \cup {n + 1} = {n + 1}
      OBVIOUS
    <2>2. o.lines[v] \in Nat
      BY <1>8
    <2>3. /\ SoldIn(orders, v, {}) = 0
          /\ SoldIn(orders', v, {} \cup {n + 1}) = o.lines[v] + SoldIn(orders, v, {})
      BY <1>9, <2>1
    <2> HIDE DEF Of
    <2>4. QED
      BY <2>1, <2>2, <2>3, <1>6
  <1>11. \A d \in Carts \ {c}, v \in Variants :
             /\ SoldIn(orders', v, Of(orders', d)) = SoldIn(orders, v, Of(orders, d))
             /\ SoldIn(orders, v, Of(orders, d)) \in Nat
    <2> TAKE d \in Carts \ {c}, v \in Variants
    <2>1. Of(orders, d) \in SUBSET DOMAIN orders
      OBVIOUS
    <2> HIDE DEF Of
    <2>2. QED
      BY <2>1, <1>7, <1>9
  <1>12. /\ BagSold = [d \in Carts |-> [v \in Variants |-> SoldIn(orders, v, Of(orders, d))]]
         /\ BagSold' = [d \in Carts |-> [v \in Variants |-> SoldIn(orders', v, Of(orders', d))]]
    BY DEF BagSold, SoldIn
  <1> HIDE DEF Of, c
  <1>13. BagSold[c] = [v \in Variants |-> 0]
    BY <1>5, <1>10, <1>12
  <1>14. BagSold'[c] = o.lines
    BY <1>5, <1>8, <1>10, <1>12
  <1>15. \A d \in Carts \ {c} : BagSold'[d] = BagSold[d]
    BY <1>11, <1>12
  <1>16. BagSold' \in [Carts -> [Variants -> Nat]]
    <2>1. \A d \in Carts, v \in Variants : SoldIn(orders', v, Of(orders', d)) \in Nat
      BY <1>8, <1>10, <1>11
    <2>2. QED
      BY <2>1, <1>12
  <1>17. QED
    BY <1>2, <1>5, <1>13, <1>14, <1>15, <1>16 DEF c

\* Checkout keeps the promise of Sales: a bag is sold once and whole, and only
\* pieces that are there are sold, as long as no vendor saves a variant it read
\* before a sale.
THEOREM SalesTheorem ==
    Spec /\ [][NobodySaves]_vars => SalesSpec
  <1>1. Init => SalesContract!Init
    <2> SUFFICES ASSUME Init PROVE SalesContract!Init
      OBVIOUS
    <2>1. stock = Supply /\ DOMAIN orders = {}
      BY DEF Init
    <2>2. \A c \in Carts, v \in Variants :
              Sold(v, {i \in DOMAIN orders : orders[i].cart = c}) = 0
      <3> TAKE c \in Carts, v \in Variants
      <3>1. {i \in DOMAIN orders : orders[i].cart = c} = {}
        BY <2>1
      <3>2. SumFunctionOnSet([i \in DOMAIN orders |-> orders[i].lines[v]], {}) = 0
        BY SumIsNat, FS_EmptySet
      <3>3. QED
        BY <3>1, <3>2 DEF Sold
    <2>3. QED
      BY <2>1, <2>2 DEF SalesContract!Init, SalesContract!Nothing
  <1>2. AllInv /\ [Next]_vars /\ [NobodySaves]_vars =>
            [SalesContract!Next]_<<stock, BagSold>>
    <2> SUFFICES ASSUME AllInv, [Next]_vars, [NobodySaves]_vars
                 PROVE  [SalesContract!Next]_<<stock, BagSold>>
      OBVIOUS
    <2>1. CASE UNCHANGED <<stock, orders>>
      BY <2>1 DEF BagSold, SoldIn
    <2>2. ASSUME NEW t \in Tabs, PlaceCommits(t) PROVE SalesContract!Next
      <3> DEFINE c == placing[t].cart
      <3>1. /\ c \in Carts
            /\ BagSold[c] = [v \in Variants |-> 0]
            /\ BagSold' \in [Carts -> [Variants -> Nat]]
            /\ BagSold'[c] = placing[t].lines
            /\ \A d \in Carts \ {c} : BagSold'[d] = BagSold[d]
        BY <2>2, CommitSells
      <3>2. /\ placing[t].lines # NoLines
            /\ \A v \in Variants : placing[t].lines[v] <= stock[v]
        BY <2>2, CommitIsTyped DEF AllInv
      <3>3. stock' = [v \in Variants |-> stock[v] - placing[t].lines[v]]
        BY <2>2 DEF PlaceCommits, Reserve
      <3>4. SalesContract!Sell(c)
        BY <3>1, <3>2, <3>3
        DEF SalesContract!Sell, SalesContract!Nothing, NoLines, BagSold, Sold, SoldIn
      <3>5. QED
        BY <3>1, <3>4 DEF SalesContract!Next
    <2>3. QED
      BY <2>1, <2>2, OnlyCommitsSell
  <1>3. QED
    BY <1>1, <1>2, AllInvariant, PTL
    DEF Spec, SalesSpec, SalesContract!Spec, BagSold, Sold, SoldIn
=============================================================================
