------------------------ MODULE StorefrontBagProofs ------------------------
(***************************************************************************)
(* Theorems about StorefrontBag, for any number of tabs and variants: what *)
(* is ordered was handed over last, or while the last hand-over was under  *)
(* way, and each hand-over becomes at most one order.                      *)
(***************************************************************************)
EXTENDS StorefrontBag, TLAPS

Totals == {Total(lines) : lines \in Lines}

Quotes == {[lines |-> lines, total |-> Total(lines)] : lines \in Lines}

Placements == [total : Totals, shown : Lines]

Orders == [lines : Lines, total : Totals, shown : Lines, handed : Lines, visit : Nat]

HandOvers == [bag : Lines, visits : Nat]

\* TypeOK, with the sequence and the records spelt out.
Typed ==
    /\ stored \in Lines
    /\ bag \in [Tabs -> Lines]
    /\ page \in [Tabs -> Pages]
    /\ sent \in [Tabs -> Lines]
    /\ skipped \in [Tabs -> SUBSET Variants]
    /\ quote \in [Tabs -> SUBSET Quotes]
    /\ placing \in [Tabs -> SUBSET Placements]
    /\ awaited \subseteq Tabs
    /\ listed \subseteq Variants
    /\ cart \in [Variants -> 0..MaxQuantity]
    /\ merging \in [Tabs -> SUBSET Merges]
    /\ handed \in HandOvers
    /\ orders \in Seq(Orders)
    /\ \A i \in DOMAIN orders : orders[i].total = Total(orders[i].lines)

\* A tab past the hand-over, a placement, and a replacement of a cart that was
\* ordered meanwhile have a hand-over behind them.
VisitsCounted ==
    \A t \in Tabs :
        \/ page[t] \in {"answered", "ready"}
        \/ placing[t] # {}
        \/ \E m \in merging[t] : ~m.live
        => handed.visits > 0

\* From the first hand-over on, the cart is within what the last may have left.
CartWithinBag ==
    handed.visits > 0 => \A v \in Variants : cart[v] <= handed.bag[v]

\* Lines that the DELETE of a replacement does not see are within what others
\* have handed over since it began.
UnseenAreNew ==
    \A t \in Tabs : \A m \in merging[t] :
        m.live => \A v \in Variants \ m.old : cart[v] <= m.since[v]

\* A cart with lines in it has not been ordered since it was handed over.
CartUnordered ==
    \A i \in DOMAIN orders :
        /\ orders[i].visit <= handed.visits
        /\ cart # Empty => orders[i].visit # handed.visits

Inv ==
    /\ Typed /\ VisitsCounted /\ CartWithinBag /\ UnseenAreNew /\ CartUnordered
    /\ NoLeftovers /\ OncePerHandOver

\* The invariant has the type invariant among its parts.
LEMMA TypedIsTypeOK == Typed => TypeOK
  <1> SUFFICES ASSUME Typed PROVE TypeOK
    OBVIOUS
  <1>1. \A t \in Tabs : \A q \in quote[t] : q.lines \in Lines /\ q.total = Total(q.lines)
    BY DEF Typed, Quotes
  <1>2. handed.bag \in Lines /\ handed.visits \in Nat
    BY DEF Typed, HandOvers
  <1>3. \A i \in DOMAIN orders :
            /\ {orders[i].lines, orders[i].shown, orders[i].handed} \subseteq Lines
            /\ orders[i].total = Total(orders[i].lines) /\ orders[i].visit \in Nat
    <2>1. \A i \in DOMAIN orders : orders[i] \in Orders
      BY DEF Typed
    <2>2. QED
      BY <2>1 DEF Typed, Orders
  <1>4. /\ \A t \in Tabs : merging[t] \subseteq Merges
        /\ \A t \in Tabs : \A p \in placing[t] : p.shown \in Lines
    BY DEF Typed, Placements
  <1>5. QED
    BY <1>1, <1>2, <1>3, <1>4 DEF Typed, TypeOK

\* An empty bag is lines like any other.
LEMMA EmptyIsLines ==
    Empty \in Lines /\ Empty \in [Variants -> 0..MaxQuantity]
  BY ConstantsAssumption DEF Empty, Lines

\* Nothing is handed over and nothing is ordered.
LEMMA InitInv == Init => Inv
  <1> SUFFICES ASSUME Init PROVE Inv
    OBVIOUS
  <1>1. cart \in [Variants -> 0..MaxQuantity]
    <2>1. 0..1 \subseteq 0..MaxQuantity
      BY ConstantsAssumption
    <2>2. QED
      BY <2>1 DEF Init
  <1>2. handed \in HandOvers /\ handed.visits = 0 /\ orders \in Seq(Orders)
        /\ DOMAIN orders = {}
    BY EmptyIsLines DEF Init, HandOvers
  <1>3. Typed
    BY <1>1, <1>2, EmptyIsLines DEF Init, Typed, Pages
  <1>4. VisitsCounted /\ UnseenAreNew
    BY DEF Init, VisitsCounted, UnseenAreNew
  <1>5. CartWithinBag /\ CartUnordered /\ NoLeftovers /\ OncePerHandOver
    BY <1>2 DEF CartWithinBag, CartUnordered, NoLeftovers, OncePerHandOver
  <1>6. QED
    BY <1>3, <1>4, <1>5 DEF Inv

\* The least of three numbers is one of them, and above none.
LEMMA MinOfThree ==
    ASSUME NEW a \in Nat, NEW b \in Nat, NEW c \in Nat
    PROVE  /\ Min({a, b, c}) \in {a, b, c}
           /\ Min({a, b, c}) <= a /\ Min({a, b, c}) <= b /\ Min({a, b, c}) <= c
  <1>1. \E x \in {a, b, c} : \A y \in {a, b, c} : x <= y
    <2>1. CASE a <= b /\ a <= c
      BY <2>1
    <2>2. CASE b <= a /\ b <= c
      BY <2>2
    <2>3. CASE c <= a /\ c <= b
      BY <2>3
    <2>4. QED
      BY <2>1, <2>2, <2>3
  <1>2. QED
    BY <1>1 DEF Min

\* What the server makes of a bag is within its limits, within the bag where
\* the snapshot has the line, and within the line and the bag elsewhere.
LEMMA MergedWithin ==
    ASSUME Typed, NEW lines \in Lines, NEW old \in SUBSET Variants
    PROVE  /\ Merged(lines, old) \in [Variants -> 0..MaxQuantity]
           /\ \A v \in Variants : Merged(lines, old)[v] <= cart[v] + lines[v]
           /\ \A v \in old : Merged(lines, old)[v] <= lines[v]
  <1>1. ASSUME NEW v \in Variants
        PROVE  /\ Merged(lines, old)[v] \in 0..MaxQuantity
               /\ Merged(lines, old)[v] <= cart[v] + lines[v]
               /\ v \in old => Merged(lines, old)[v] <= lines[v]
    <2> DEFINE left == IF v \in old THEN 0 ELSE cart[v]
    <2>1. /\ lines[v] \in Nat /\ Stock[v] \in Nat /\ MaxQuantity \in Nat
          /\ cart[v] \in 0..MaxQuantity
      BY ConstantsAssumption DEF Lines, Typed
    <2>2. left \in 0..MaxQuantity /\ left <= cart[v] /\ (v \in old => left = 0)
      BY <2>1
    <2>3. Merged(lines, old)[v] \in {left, Min({left + lines[v], Stock[v], MaxQuantity})}
      BY DEF Merged
    <2> HIDE DEF left
    <2>4. /\ Min({left + lines[v], Stock[v], MaxQuantity}) \in Nat
          /\ Min({left + lines[v], Stock[v], MaxQuantity}) <= left + lines[v]
          /\ Min({left + lines[v], Stock[v], MaxQuantity}) <= MaxQuantity
      <3>1. left + lines[v] \in Nat
        BY <2>1, <2>2
      <3>2. QED
        BY <2>1, <3>1, MinOfThree
    <2>5. QED
      BY <2>1, <2>2, <2>3, <2>4
  <1>2. Merged(lines, old) = [v \in Variants |-> Merged(lines, old)[v]]
    BY DEF Merged
  <1>3. QED
    BY <1>1, <1>2

\* The bag a tab sets is all that changes with it.
LEMMA SetIsTyped ==
    ASSUME Typed, NEW t \in Tabs, NEW lines \in Lines, Set(t, lines)
    PROVE  /\ stored' \in Lines /\ bag' \in [Tabs -> Lines]
           /\ quote' \in [Tabs -> SUBSET Quotes]
  BY DEF Typed, Set

\* A step that touches neither the cart nor the orders, and takes no tab past
\* the hand-over, keeps what is known of them; a replacement may begin.
LEMMA QuietStep ==
    ASSUME Inv, UNCHANGED <<cart, handed, orders>>, Typed',
           \A t \in Tabs : page'[t] \in {"answered", "ready"} =>
                               page[t] \in {"answered", "ready"},
           \A t \in Tabs : placing'[t] # {} => placing[t] # {} \/ page[t] = "ready",
           \A t \in Tabs : \A m \in merging'[t] :
               m \in merging[t] \/ m = [old |-> In(cart), since |-> Empty, live |-> TRUE]
    PROVE  Inv'
  <1>1. VisitsCounted'
    BY DEF Inv, VisitsCounted
  <1>2. UnseenAreNew'
    <2>1. ASSUME NEW t \in Tabs, NEW m \in merging'[t], m.live,
                 NEW v \in Variants \ m.old
          PROVE  cart[v] <= m.since[v]
      <3>1. CASE m \in merging[t]
        BY <2>1, <3>1 DEF Inv, UnseenAreNew
      <3>2. CASE m = [old |-> In(cart), since |-> Empty, live |-> TRUE]
        <4>1. v \notin In(cart) /\ m.since[v] = 0
          BY <3>2 DEF Empty
        <4>2. cart[v] \in 0..MaxQuantity /\ ~(cart[v] > 0)
          BY <4>1 DEF In, Inv, Typed
        <4>3. QED
          BY <4>1, <4>2, ConstantsAssumption
      <3>3. QED
        BY <2>1, <3>1, <3>2
    <2>2. QED
      BY <2>1 DEF UnseenAreNew
  <1>3. QED
    BY <1>1, <1>2 DEF Inv, CartWithinBag, CartUnordered, NoLeftovers, OncePerHandOver

\* The store's own operations leave every tab where it is.
LEMMA EditStep ==
    ASSUME Inv, NEW t \in Tabs, NEW lines \in Lines, Set(t, lines),
           UNCHANGED <<page, sent, skipped, awaited, serverVars>>
    PROVE  Inv'
  <1>1. Typed'
    BY SetIsTyped DEF Inv, Typed, serverVars
  <1>2. QED
    BY <1>1, QuietStep DEF serverVars

\* What is sent, or forgotten, when a page goes.
LEMMA PageGoes ==
    ASSUME Typed, NEW t \in Tabs
    PROVE  StillSent(t) \in [Tabs -> Lines] /\ Forgotten(t) \in [Tabs -> SUBSET Variants]
  BY EmptyIsLines DEF Typed, StillSent, Forgotten

\* Steps of a tab that change its page, but hand nothing over.
LEMMA PageStep ==
    ASSUME Inv, NEW t \in Tabs,
           Leaves(t) \/ Opens(t) \/ EntersCheckout(t) \/ SyncFails(t) \/ AnswerArrives(t)
    PROVE  Inv'
  <1>1. UNCHANGED <<listed, cart, merging, placing, handed, orders>>
    BY DEF Leaves, Opens, EntersCheckout, SyncFails, AnswerArrives, serverVars
  <1>2. PICK at \in Pages \ {"answered", "ready"} : page' = [page EXCEPT ![t] = at]
    BY DEF Leaves, Opens, EntersCheckout, SyncFails, AnswerArrives, Pages
  <1>3. /\ sent' \in [Tabs -> Lines] /\ skipped' \in [Tabs -> SUBSET Variants]
        /\ awaited' \subseteq Tabs
    <2>1. /\ sent' = StillSent(t) \/ \E lines \in Lines : sent' = [sent EXCEPT ![t] = lines]
          /\ skipped' = Forgotten(t) \/ skipped' = skipped
          /\ awaited' \in {awaited, awaited \ {t}}
      BY EmptyIsLines
      DEF Leaves, Opens, EntersCheckout, SyncFails, AnswerArrives, Inv, Typed
    <2>2. StillSent(t) \in [Tabs -> Lines] /\ Forgotten(t) \in [Tabs -> SUBSET Variants]
      BY PageGoes DEF Inv
    <2>3. QED
      BY <2>1, <2>2 DEF Inv, Typed
  <1>4. /\ stored' \in Lines /\ bag' \in [Tabs -> Lines]
        /\ quote' \in [Tabs -> SUBSET Quotes]
    <2>1. CASE Leaves(t) \/ Opens(t) \/ EntersCheckout(t) \/ SyncFails(t)
      <3>1. /\ stored' = stored
            /\ bag' = bag \/ bag' = [bag EXCEPT ![t] = stored]
            /\ quote' = quote \/ quote' = [quote EXCEPT ![t] = {}]
        BY <2>1 DEF Leaves, Opens, EntersCheckout, SyncFails
      <3>2. stored \in Lines /\ bag \in [Tabs -> Lines] /\ quote \in [Tabs -> SUBSET Quotes]
        BY DEF Inv, Typed
      <3>3. QED
        BY <3>1, <3>2
    <2>2. CASE AnswerArrives(t)
      BY <2>2, SetIsTyped, EmptyIsLines DEF AnswerArrives, Inv
    <2>3. QED
      BY <2>1, <2>2
  <1>5. Typed'
    BY <1>1, <1>2, <1>3, <1>4 DEF Inv, Typed
  <1>6. QED
    BY <1>1, <1>2, <1>5, QuietStep DEF Inv, Typed

\* The answer to the hand-over takes the tab on, which has one behind it.
LEMMA SyncAnsweredStep ==
    ASSUME Inv, NEW t \in Tabs, SyncAnswered(t)
    PROVE  Inv'
  <1>1. /\ UNCHANGED <<awaited, listed, cart, merging, placing, handed, orders>>
        /\ page[t] = "answered"
    BY DEF SyncAnswered, serverVars
  <1>2. PICK at \in {"over", "ready"} : page' = [page EXCEPT ![t] = at]
    BY DEF SyncAnswered
  <1>3. sent' \in [Tabs -> Lines] /\ skipped' \in [Tabs -> SUBSET Variants]
    BY PageGoes, EmptyIsLines DEF SyncAnswered, Inv, Typed
  <1>4. /\ stored' \in Lines /\ bag' \in [Tabs -> Lines]
        /\ quote' \in [Tabs -> SUBSET Quotes]
    <2>1. CASE UNCHANGED <<bag, stored, quote>>
      BY <2>1 DEF Inv, Typed
    <2>2. CASE Set(t, [v \in Variants |-> IF v \in skipped[t] THEN 0 ELSE bag[t][v]])
      <3> PICK lines : lines = [v \in Variants |->
                                  IF v \in skipped[t] THEN 0 ELSE bag[t][v]]
        OBVIOUS
      <3>1. lines \in Lines
        BY DEF Inv, Typed, Lines
      <3>2. QED
        BY <2>2, <3>1, SetIsTyped DEF Inv
    <2>3. QED
      BY <2>1, <2>2 DEF SyncAnswered
  <1>5. Typed'
    BY <1>1, <1>2, <1>3, <1>4 DEF Inv, Typed, Pages
  <1>6. \A u \in Tabs : page'[u] \in {"answered", "ready"} =>
                            page[u] \in {"answered", "ready"}
    BY <1>1, <1>2 DEF Inv, Typed
  <1>7. QED
    BY <1>1, <1>5, <1>6, QuietStep

\* The transaction of a replacement begins, or ends without effect.
LEMMA ReplaceQuietStep ==
    ASSUME Inv, NEW t \in Tabs, ReplaceBegins(t) \/ ReplaceAborts(t)
    PROVE  Inv'
  <1> DEFINE fresh == [old |-> In(cart), since |-> Empty, live |-> TRUE]
  <1>1. UNCHANGED <<stored, bag, skipped, quote, awaited, listed, cart, placing, handed,
                    orders>>
    BY DEF ReplaceBegins, ReplaceAborts, tabVars
  <1>2. PICK ms \in {{}, {fresh}} : merging' = [merging EXCEPT ![t] = ms]
    BY DEF ReplaceBegins, ReplaceAborts
  <1>3. fresh \in Merges
    BY EmptyIsLines DEF Merges, In
  <1>4. merging' \in [Tabs -> SUBSET Merges]
    BY <1>2, <1>3 DEF Inv, Typed
  <1>5. /\ sent' \in [Tabs -> Lines] /\ page' \in [Tabs -> Pages]
        /\ \A u \in Tabs : page'[u] \in {page[u], "over"}
    <2>1. /\ sent' = sent \/ sent' = [sent EXCEPT ![t] = Empty]
          /\ page' = page \/ page' = [page EXCEPT ![t] = "over"]
      BY DEF ReplaceBegins, ReplaceAborts, tabVars, Inv, Typed
    <2>2. "over" \in Pages
      BY DEF Pages
    <2>3. QED
      BY <2>1, <2>2, EmptyIsLines DEF Inv, Typed
  <1>6. Typed'
    BY <1>1, <1>4, <1>5 DEF Inv, Typed
  <1>7. \A u \in Tabs : \A m \in merging'[u] : m \in merging[u] \/ m = fresh
    BY <1>2 DEF Inv, Typed
  <1>8. QED
    BY <1>1, <1>5, <1>6, <1>7, QuietStep

\* A hand-over replaces the active cart: the lines it has not seen stay, which
\* were handed over since it began; and no order is of its visit.
LEMMA CommitStep ==
    ASSUME Inv, NEW t \in Tabs, NEW m \in merging[t], m.live,
           cart' = Merged(sent[t], m.old),
           handed' = [bag |-> Together(m.since, sent[t]), visits |-> handed.visits + 1],
           merging' \in [Tabs -> SUBSET Merges],
           \A u \in Tabs : \A n \in merging'[u] : \E k \in merging[u] :
              /\ n.old = k.old \ m.old /\ n.live = k.live
              /\ \A v \in Variants : n.since[v] = k.since[v] + sent[t][v],
           page' \in [Tabs -> Pages], sent' \in [Tabs -> Lines],
           skipped' \in [Tabs -> SUBSET Variants],
           UNCHANGED <<stored, bag, quote, awaited, listed, placing, orders>>
    PROVE  Inv'
  <1> PICK lines \in Lines : lines = sent[t]
    BY DEF Inv, Typed
  <1>1. m.old \in SUBSET Variants /\ m.since \in Lines
    BY DEF Inv, Typed, Merges
  <1>2. /\ handed.visits \in Nat /\ handed' \in HandOvers
        /\ handed'.visits = handed.visits + 1
        /\ \A v \in Variants : handed'.bag[v] = m.since[v] + lines[v]
    <2>1. Together(m.since, lines) \in Lines
      BY <1>1 DEF Together, Lines
    <2>2. QED
      BY <2>1 DEF Inv, Typed, HandOvers, Together
  <1>3. /\ cart' \in [Variants -> 0..MaxQuantity]
        /\ \A v \in Variants : cart'[v] <= cart[v] + lines[v]
        /\ \A v \in m.old : cart'[v] <= lines[v]
    BY <1>1, MergedWithin DEF Inv
  <1>4. /\ \A v \in Variants : cart[v] \in Nat /\ cart'[v] \in Nat /\ lines[v] \in Nat
        /\ \A v \in Variants : m.since[v] \in Nat
    BY <1>1, <1>3, ConstantsAssumption DEF Inv, Typed, Lines
  <1>5. \A u \in Tabs : \A n \in merging'[u] : \E k \in merging[u] :
           /\ n.old = k.old \ m.old /\ n.live = k.live
           /\ \A v \in Variants : n.since[v] = k.since[v] + lines[v]
    OBVIOUS
  <1>6. Typed'
    BY <1>2, <1>3 DEF Inv, Typed
  <1>7. VisitsCounted'
    BY <1>2 DEF VisitsCounted
  <1>8. CartWithinBag'
    <2>1. \A v \in Variants : cart'[v] <= m.since[v] + lines[v]
      <3> TAKE v \in Variants
      <3>1. CASE v \in m.old
        BY <1>3, <1>4, <3>1
      <3>2. CASE v \notin m.old
        <4>1. cart[v] <= m.since[v]
          BY <3>2 DEF Inv, UnseenAreNew
        <4>2. QED
          BY <1>3, <1>4, <4>1
      <3>3. QED
        BY <3>1, <3>2
    <2>2. QED
      BY <1>2, <2>1 DEF CartWithinBag
  <1>9. UnseenAreNew'
    <2>1. ASSUME NEW u \in Tabs, NEW n \in merging'[u], n.live, NEW v \in Variants \ n.old
          PROVE  cart'[v] <= n.since[v]
      <3>1. PICK k \in merging[u] :
                /\ n.old = k.old \ m.old /\ n.live = k.live
                /\ n.since[v] = k.since[v] + lines[v]
        BY <1>5
      <3>2. k.since[v] \in Nat
        BY DEF Inv, Typed, Merges, Lines
      <3>3. CASE v \in m.old
        BY <1>3, <1>4, <3>1, <3>2, <3>3
      <3>4. CASE v \notin m.old
        <4>1. v \notin k.old
          BY <3>1, <3>4
        <4>2. cart[v] <= k.since[v]
          BY <2>1, <3>1, <4>1 DEF Inv, UnseenAreNew
        <4>3. QED
          BY <1>3, <1>4, <3>1, <3>2, <4>2
      <3>5. QED
        BY <3>3, <3>4
    <2>2. QED
      BY <2>1 DEF UnseenAreNew
  <1>10. CartUnordered'
    <2>1. \A i \in DOMAIN orders : orders[i].visit \in Nat /\ orders[i].visit <= handed.visits
      <3>1. \A i \in DOMAIN orders : orders[i] \in Orders
        BY DEF Inv, Typed
      <3>2. QED
        BY <3>1 DEF Inv, Orders, CartUnordered
    <2>2. QED
      BY <1>2, <2>1 DEF CartUnordered
  <1>11. NoLeftovers' /\ OncePerHandOver'
    BY DEF Inv, NoLeftovers, OncePerHandOver
  <1>12. QED
    BY <1>6, <1>7, <1>8, <1>9, <1>10, <1>11 DEF Inv

\* A replacement commits, of the active cart or of one that was ordered.
LEMMA ReplaceCommitsStep ==
    ASSUME Inv, NEW t \in Tabs, ReplaceCommits(t)
    PROVE  Inv'
  <1>1. PICK m \in merging[t] : ReplaceCommits(t)!(m)
    BY DEF ReplaceCommits
  <1>2. UNCHANGED <<stored, bag, quote, awaited, listed, placing, orders>>
    BY <1>1
  <1>3. /\ page' \in [Tabs -> Pages] /\ sent' \in [Tabs -> Lines]
        /\ skipped' \in [Tabs -> SUBSET Variants]
        /\ \A u \in Tabs : page'[u] \in {page[u], "answered"}
    <2>1. Skipped(sent[t]) \subseteq Variants
      BY DEF Skipped, In
    <2>2. /\ page' = page \/ page' = [page EXCEPT ![t] = "answered"]
          /\ sent' = sent \/ sent' = [sent EXCEPT ![t] = Empty]
          /\ skipped' = skipped \/ skipped' = [skipped EXCEPT ![t] = Skipped(sent[t])]
      BY <1>1
    <2>3. "answered" \in Pages
      BY DEF Pages
    <2>4. page' \in [Tabs -> Pages] /\ \A u \in Tabs : page'[u] \in {page[u], "answered"}
      BY <2>2, <2>3 DEF Inv, Typed
    <2>5. sent' \in [Tabs -> Lines] /\ skipped' \in [Tabs -> SUBSET Variants]
      <3>1. sent \in [Tabs -> Lines] /\ skipped \in [Tabs -> SUBSET Variants]
        BY DEF Inv, Typed
      <3>2. QED
        BY <2>1, <2>2, <3>1, EmptyIsLines
    <2>6. QED
      BY <2>4, <2>5
  <1>4. CASE m.live
    <2>1. /\ cart' = Merged(sent[t], m.old)
          /\ handed' = [bag |-> Together(m.since, sent[t]), visits |-> handed.visits + 1]
      BY <1>1, <1>4
    <2>2. merging' = [u \in Tabs |->
                        IF u = t THEN {} ELSE {Seen(n, m.old, sent[t]) : n \in merging[u]}]
      BY <1>1, <1>4
    <2>3. m.old \in SUBSET Variants /\ sent[t] \in Lines
      BY DEF Inv, Typed, Merges
    <2>4. \A u \in Tabs : \A n \in merging'[u] : \E k \in merging[u] :
             /\ n \in Merges
             /\ n.old = k.old \ m.old /\ n.live = k.live
             /\ \A v \in Variants : n.since[v] = k.since[v] + sent[t][v]
      <3> SUFFICES ASSUME NEW u \in Tabs, NEW n \in merging'[u]
                   PROVE  \E k \in merging[u] :
                             /\ n \in Merges
                             /\ n.old = k.old \ m.old /\ n.live = k.live
                             /\ \A v \in Variants : n.since[v] = k.since[v] + sent[t][v]
        OBVIOUS
      <3>1. PICK k \in merging[u] : n = Seen(k, m.old, sent[t])
        BY <2>2
      <3>2. k.old \in SUBSET Variants /\ k.since \in Lines /\ k.live \in BOOLEAN
        BY DEF Inv, Typed, Merges
      <3>3. n = [old |-> k.old \ m.old, since |-> Together(k.since, sent[t]), live |-> k.live]
        BY <3>1 DEF Seen
      <3>4. Together(k.since, sent[t]) \in Lines /\ k.old \ m.old \in SUBSET Variants
        BY <2>3, <3>2 DEF Together, Lines
      <3>5. n \in Merges
        BY <3>2, <3>3, <3>4 DEF Merges
      <3>6. /\ n.old = k.old \ m.old /\ n.live = k.live
            /\ n.since = Together(k.since, sent[t])
        BY <3>3
      <3>7. \A v \in Variants : n.since[v] = k.since[v] + sent[t][v]
        BY <3>6 DEF Together
      <3>8. QED
        BY <3>5, <3>6, <3>7
    <2>5. merging' \in [Tabs -> SUBSET Merges]
      BY <2>2, <2>4
    <2>6. \A u \in Tabs : \A n \in merging'[u] : \E k \in merging[u] :
             /\ n.old = k.old \ m.old /\ n.live = k.live
             /\ \A v \in Variants : n.since[v] = k.since[v] + sent[t][v]
      BY <2>4
    <2>7. page' \in [Tabs -> Pages] /\ sent' \in [Tabs -> Lines]
      BY <1>3
    <2>8. skipped' \in [Tabs -> SUBSET Variants]
      BY <1>3
    <2>9. QED
      BY <1>2, <1>4, <2>1, <2>5, <2>6, <2>7, <2>8, CommitStep
  <1>5. CASE ~m.live
    <2>1. merging' = [merging EXCEPT ![t] = {}] /\ UNCHANGED <<cart, handed>>
      BY <1>1, <1>5
    <2>2. handed.visits > 0
      BY <1>5 DEF Inv, VisitsCounted
    <2>3. Typed'
      BY <1>2, <1>3, <2>1 DEF Inv, Typed
    <2>4. \A u \in Tabs : merging'[u] \subseteq merging[u]
      BY <2>1 DEF Inv, Typed
    <2>5. VisitsCounted' /\ UnseenAreNew'
      BY <2>1, <2>2, <2>4 DEF Inv, VisitsCounted, UnseenAreNew
    <2>6. QED
      BY <1>2, <2>1, <2>3, <2>5
      DEF Inv, CartWithinBag, CartUnordered, NoLeftovers, OncePerHandOver
  <1>6. QED
    BY <1>4, <1>5

\* Placing orders the cart as it is, and retires it.
LEMMA PlacesStep ==
    ASSUME Inv, NEW t \in Tabs, Places(t)
    PROVE  Inv'
  <1>1. PICK p \in placing[t] : p.total = Total(cart) /\ orders' = Append(orders, Placed(p))
    BY DEF Places
  <1> PICK o : o = Placed(p)
    OBVIOUS
  <1>2. /\ orders' = Append(orders, o) /\ cart' = Empty
        /\ placing' = [placing EXCEPT ![t] = {}]
        /\ merging' = [u \in Tabs |-> {[old |-> {}, since |-> Empty, live |-> FALSE] :
                                         k \in merging[u]}]
        /\ UNCHANGED <<stored, bag, page, sent, skipped, quote, awaited, listed, handed>>
    BY <1>1 DEF Places, tabVars
  <1>3. /\ cart \in Lines /\ cart # Empty /\ handed.bag \in Lines /\ handed.visits \in Nat
        /\ handed.visits > 0 /\ p.shown \in Lines
    BY DEF Places, Purchasable, Inv, Typed, HandOvers, Placements, VisitsCounted, Lines
  <1>4. /\ o \in Orders /\ o.lines = cart /\ o.total = Total(o.lines)
        /\ o.handed = handed.bag /\ o.visit = handed.visits
    BY <1>3 DEF Placed, Orders, Totals
  <1>5. /\ orders' \in Seq(Orders)
        /\ DOMAIN orders' = DOMAIN orders \cup {Len(orders) + 1}
        /\ orders'[Len(orders) + 1] = o
        /\ \A i \in DOMAIN orders : orders'[i] = orders[i] /\ i # Len(orders) + 1
    BY <1>2, <1>4 DEF Inv, Typed
  <1>6. /\ merging' \in [Tabs -> SUBSET Merges]
        /\ \A u \in Tabs : \A k \in merging'[u] : ~k.live
    <2> DEFINE dead == [old |-> {}, since |-> Empty, live |-> FALSE]
    <2>1. dead \in Merges /\ ~dead.live
      BY EmptyIsLines DEF Merges
    <2> HIDE DEF dead
    <2>2. merging' = [u \in Tabs |-> {dead : k \in merging[u]}]
      BY <1>2 DEF dead
    <2>3. QED
      BY <2>1, <2>2
  <1>7. Typed'
    BY <1>2, <1>4, <1>5, <1>6, EmptyIsLines DEF Inv, Typed
  <1>8. VisitsCounted' /\ UnseenAreNew'
    BY <1>2, <1>3, <1>6 DEF VisitsCounted, UnseenAreNew
  <1>9. CartWithinBag'
    <2>1. \A v \in Variants : cart'[v] = 0 /\ handed'.bag[v] \in Nat
      BY <1>2, <1>3 DEF Empty, Lines
    <2>2. QED
      BY <2>1 DEF CartWithinBag
  <1>10. CartUnordered'
    BY <1>2, <1>3, <1>4, <1>5 DEF Inv, CartUnordered
  <1>11. NoLeftovers'
    BY <1>3, <1>4, <1>5 DEF Inv, NoLeftovers, CartWithinBag
  <1>12. OncePerHandOver'
    <2>1. \A i \in DOMAIN orders : orders[i].visit # o.visit
      BY <1>3, <1>4 DEF Inv, CartUnordered
    <2>2. QED
      BY <1>5, <2>1 DEF Inv, OncePerHandOver
  <1>13. QED
    BY <1>7, <1>8, <1>9, <1>10, <1>11, <1>12 DEF Inv

\* A cart's lines and their total, as a quote shows them.
LEMMA PricedIsQuote == Typed => Priced \in Quotes
  BY ConstantsAssumption DEF Priced, Quotes, Typed, Lines

\* Quotes, and placements that order nothing.
LEMMA ReviewStep ==
    ASSUME Inv, NEW t \in Tabs,
           Quote(t) \/ Submits(t) \/ PlacementRefused(t) \/ PlacementDropped(t)
    PROVE  Inv'
  <1>1. UNCHANGED <<stored, bag, page, sent, skipped, listed, cart, merging, handed, orders>>
    BY DEF Quote, Submits, PlacementRefused, PlacementDropped, serverVars
  <1>2. quote' \in [Tabs -> SUBSET Quotes] /\ awaited' \subseteq Tabs
    BY PricedIsQuote
    DEF Quote, Submits, PlacementRefused, PlacementDropped, serverVars, Inv, Typed
  <1>3. /\ placing' \in [Tabs -> SUBSET Placements]
        /\ \A u \in Tabs : placing'[u] # {} => placing[u] # {} \/ page[u] = "ready"
    <2>1. CASE Quote(t) \/ PlacementRefused(t) \/ PlacementDropped(t)
      BY <2>1 DEF Quote, PlacementRefused, PlacementDropped, serverVars, Inv, Typed
    <2>2. CASE Submits(t)
      <3>1. PICK q \in quote[t] :
                placing' = [placing EXCEPT ![t] = {[total |-> q.total, shown |-> bag[t]]}]
        BY <2>2 DEF Submits
      <3>2. [total |-> q.total, shown |-> bag[t]] \in Placements
        BY DEF Inv, Typed, Quotes, Totals, Placements
      <3>3. QED
        BY <2>2, <3>1, <3>2 DEF Submits, Idle, Inv, Typed
    <2>3. QED
      BY <2>1, <2>2
  <1>4. Typed'
    BY <1>1, <1>2, <1>3 DEF Inv, Typed
  <1>5. QED
    BY <1>1, <1>3, <1>4, QuietStep

\* Every step keeps the invariant.
LEMMA InvStep == Inv /\ [Next]_vars => Inv'
  <1> SUFFICES ASSUME Inv, [Next]_vars PROVE Inv'
    OBVIOUS
  <1>1. CASE UNCHANGED vars
    <2>1. Typed'
      BY <1>1 DEF Inv, Typed, vars, tabVars, serverVars
    <2>2. QED
      BY <1>1, <2>1, QuietStep DEF vars, tabVars, serverVars
  <1>2. ASSUME NEW t \in Tabs, NEW v \in Variants,
               Adds(t, v) \/ Plus(t, v) \/ Minus(t, v) \/ Removes(t, v)
        PROVE  Inv'
    <2>1. PICK n \in Nat : Set(t, [bag[t] EXCEPT ![v] = n])
      <3> PICK m \in Nat : m = bag[t][v]
        BY DEF Inv, Typed, Lines
      <3>1. ASSUME Adds(t, v) \/ Plus(t, v) PROVE Set(t, [bag[t] EXCEPT ![v] = m + 1])
        BY <3>1 DEF Adds, Plus
      <3>2. ASSUME Minus(t, v) PROVE m - 1 \in Nat /\ Set(t, [bag[t] EXCEPT ![v] = m - 1])
        BY <3>2 DEF Minus
      <3>3. ASSUME Removes(t, v) PROVE Set(t, [bag[t] EXCEPT ![v] = 0])
        BY <3>3 DEF Removes
      <3>4. m + 1 \in Nat /\ 0 \in Nat
        OBVIOUS
      <3>5. QED
        BY <1>2, <3>1, <3>2, <3>3, <3>4
    <2> PICK lines : lines = [bag[t] EXCEPT ![v] = n]
      OBVIOUS
    <2>2. lines \in Lines
      BY DEF Inv, Typed, Lines
    <2>3. QED
      BY <1>2, <2>1, <2>2, EditStep DEF Adds, Plus, Minus, Removes
  <1>3. ASSUME NEW t \in Tabs, OpensDrawer(t) PROVE Inv'
    <2> PICK lines \in Lines : lines = bag[t]
      BY DEF Inv, Typed
    <2>1. QED
      BY <1>3, EditStep DEF OpensDrawer
  <1>4. ASSUME NEW v \in Variants, ListingChanges(v) PROVE Inv'
    <2>1. Typed'
      BY <1>4 DEF ListingChanges, tabVars, Inv, Typed
    <2>2. QED
      BY <1>4, <2>1, QuietStep DEF ListingChanges, tabVars
  <1>5. QED
    BY <1>1, <1>2, <1>3, <1>4, PageStep, SyncAnsweredStep, ReplaceQuietStep,
       ReplaceCommitsStep, ReviewStep, PlacesStep
    DEF Next

\* The invariant holds of every behaviour.
LEMMA Invariant == Spec => []Inv
  BY InitInv, InvStep, PTL DEF Spec

\* Every variable has its type: what the server makes of a bag respects its
\* limit for a line, and a quote's total is the total of its lines.
THEOREM TypeCorrect == Spec => []TypeOK
  <1>1. Inv => TypeOK
    BY TypedIsTypeOK DEF Inv
  <1>2. QED
    BY <1>1, Invariant, PTL

\* What is ordered was in the bag handed over last, or in one whose hand-over
\* was committed while that one was under way: no line of an earlier session,
\* or of a bag handed over before, is ordered with it, though a replacement is
\* several statements without a lock on the cart (cart/services.py,
\* merge_items with replace; CheckoutFlow.tsx).
THEOREM NoLeftoversTheorem == Spec => []NoLeftovers
  <1>1. Inv => NoLeftovers
    BY DEF Inv
  <1>2. QED
    BY <1>1, Invariant, PTL

\* A bag handed over becomes at most one order, however many tabs review it
\* (checkout/services.py retires the cart it orders).
THEOREM OncePerHandOverTheorem == Spec => []OncePerHandOver
  <1>1. Inv => OncePerHandOver
    BY DEF Inv
  <1>2. QED
    BY <1>1, Invariant, PTL
=============================================================================
