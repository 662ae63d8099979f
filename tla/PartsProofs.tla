---------------------------- MODULE PartsProofs ----------------------------
(***************************************************************************)
(* Theorems about what MCParts composes, for any number of tabs, forms,    *)
(* addresses, profiles, orders and requests, and for any question asked of *)
(* the rules: no committed add to a bag is lost; a link that was used      *)
(* stays dead, a kind of address keeps its default, the history of a fit   *)
(* profile has no gap and a verified badge is earned; and the answers of   *)
(* the tax engine, the modesty rules, the face blurring and the            *)
(* measurement checks are what they claim to be.                           *)
(*                                                                         *)
(* The parts share nothing: each has an invariant of its own, and a step   *)
(* of MCAccount is a step of one part that leaves the others alone.        *)
(***************************************************************************)
EXTENDS Bag, MCAccount, Rules, SumTheorems, SequenceTheorems, TLAPS

-----------------------------------------------------------------------------
(* The lines of a bag. *)

\* Rows a transaction has written, by variant.
Written0 == UNION {[D -> 0..MaxQuantity] : D \in SUBSET Variants}

Txs == [at : At, entries : Seq(Entries), replace : BOOLEAN, snapshot : SUBSET Variants,
        own : Written0, deleted : SUBSET Variants, insert : 0..MaxQuantity,
        accepted : [Variants -> Nat]]

BagTyped ==
    /\ rows \in [Variants -> 0..MaxQuantity]
    /\ sellable \subseteq Variants
    /\ tx \in [Tabs -> Txs]

\* A line a transaction has written is what was committed and what it added.
LineGood(x, v) ==
    IF v \in DOMAIN x.own
      THEN x.own[v] > 0 /\ x.own[v] = Clamp(v, rows[v] + x.accepted[v])
      ELSE x.accepted[v] = 0

\* An insert is of an entry that can be had, and has found no line.
InsertGood(x, e) ==
    /\ Stock[e.variant] > 0 /\ x.insert = Clamp(e.variant, e.quantity)
    /\ ~x.replace => e.variant \notin DOMAIN x.own

TxGood(x) ==
    /\ x.at \in {"selecting", "inserting"} => x.entries # <<>>
    /\ x.at = "clearing" => x.replace
    /\ x.at = "inserting" => InsertGood(x, Head(x.entries))
    /\ ~x.replace => \A v \in Variants : LineGood(x, v)

\* No two transactions have written the same row.
OwnApart == \A t, u \in Tabs : t # u => DOMAIN tx[t].own \cap DOMAIN tx[u].own = {}

BagInv == BagTyped /\ OwnApart /\ \A t \in Tabs : TxGood(tx[t])

\* Written rows are a function of some variants.
LEMMA OwnType ==
    ASSUME NEW own
    PROVE  own \in Written0 <=> /\ DOMAIN own \subseteq Variants
                                /\ own \in [DOMAIN own -> 0..MaxQuantity]
  BY DEF Written0

\* The invariant has the type invariant among its parts.
LEMMA BagTypes == BagTyped => TypeOK
  <1> SUFFICES ASSUME BagTyped PROVE TypeOK
    OBVIOUS
  <1>1. ASSUME NEW t \in Tabs
        PROVE  /\ tx[t].at \in At
               /\ tx[t].snapshot \cup tx[t].deleted \subseteq Variants
               /\ tx[t].own \in [DOMAIN tx[t].own -> 0..MaxQuantity]
               /\ DOMAIN tx[t].own \subseteq Variants
               /\ tx[t].insert \in 0..MaxQuantity
    <2> PICK x \in Txs : x = tx[t]
      BY DEF BagTyped
    <2>1. x.own \in Written0
      BY DEF Txs
    <2>2. DOMAIN x.own \subseteq Variants /\ x.own \in [DOMAIN x.own -> 0..MaxQuantity]
      BY <2>1, OwnType
    <2>3. QED
      BY <2>2 DEF Txs
  <1>2. QED
    BY <1>1 DEF BagTyped, TypeOK

\* Clamping keeps within the limits, leaves something of something, and may be
\* done at every addition or once at the end.
LEMMA ClampLaws ==
    ASSUME NEW v \in Variants, NEW m \in Nat, NEW n \in Nat
    PROVE  /\ Clamp(v, m) \in 0..MaxQuantity
           /\ m > 0 /\ Stock[v] > 0 => Clamp(v, m) > 0
           /\ Clamp(v, Clamp(v, m) + n) = Clamp(v, m + n)
  BY ConstantsAssumption DEF Clamp, Least

\* A transaction that has not begun.
LEMMA NoTxGood == NoTx \in Txs /\ TxGood(NoTx) /\ DOMAIN NoTx.own = {}
  <1>1. NoRows \in Written0 /\ DOMAIN NoRows = {}
    BY OwnType DEF NoRows
  <1>2. NoTx \in Txs
    BY <1>1, ConstantsAssumption DEF NoTx, Txs, At
  <1>3. /\ NoTx.at = "idle" /\ NoTx.own = NoRows
        /\ \A v \in Variants : NoTx.accepted[v] = 0
    BY DEF NoTx
  <1>4. QED
    BY <1>1, <1>2, <1>3 DEF TxGood, LineGood

\* No transaction has begun.
LEMMA BagInit == Init => BagInv
  <1> SUFFICES ASSUME Init PROVE BagInv
    OBVIOUS
  <1>1. 0..1 \subseteq 0..MaxQuantity
    BY ConstantsAssumption
  <1>2. BagTyped
    BY <1>1, NoTxGood DEF Init, BagTyped
  <1>3. \A t \in Tabs : tx[t] = NoTx
    BY Zenon DEF Init
  <1>4. QED
    BY <1>2, <1>3, NoTxGood DEF BagInv, OwnApart

\* A step of one transaction that commits nothing: it has to be good itself,
\* and apart from the others.
LEMMA OneTxStep ==
    ASSUME BagInv, NEW t \in Tabs, NEW x \in Txs, tx' = [tx EXCEPT ![t] = x],
           UNCHANGED <<rows, sellable>>, TxGood(x),
           \A u \in Tabs \ {t} : DOMAIN x.own \cap DOMAIN tx[u].own = {}
    PROVE  BagInv'
  <1>1. BagTyped'
    BY DEF BagInv, BagTyped
  <1>2. \A u \in Tabs : tx'[u] = IF u = t THEN x ELSE tx[u]
    BY DEF BagInv, BagTyped
  <1>3. OwnApart'
    BY <1>2 DEF BagInv, OwnApart
  <1>4. \A u \in Tabs : TxGood(tx[u])'
    BY <1>2 DEF BagInv, TxGood, LineGood, InsertGood
  <1>5. QED
    BY <1>1, <1>3, <1>4 DEF BagInv

\* Going on with the next entry keeps what was written.
LEMMA NextEntryGood ==
    ASSUME NEW x \in Txs, x.entries # <<>>,
           ~x.replace => \A v \in Variants : LineGood(x, v)
    PROVE  /\ NextEntry(x) \in Txs /\ TxGood(NextEntry(x))
           /\ NextEntry(x).own = x.own
  <1>1. x.entries \in Seq(Entries)
    BY DEF Txs
  <1>2. Tail(x.entries) \in Seq(Entries)
    BY <1>1
  <1> PICK y : y = NextEntry(x)
    OBVIOUS
  <1>3. /\ y \in Txs /\ y.own = x.own /\ y.accepted = x.accepted
        /\ y.at = "reading" /\ y.replace = x.replace
    BY <1>2 DEF NextEntry, Txs, At
  <1>4. TxGood(y)
    BY <1>3 DEF TxGood, LineGood
  <1>5. QED
    BY <1>3, <1>4

\* What writing the row of a variant has to add to the row of before.
AddsTo(x, v, quantity, added) ==
    ~x.replace =>
        /\ \A u \in Variants : LineGood(x, u)
        /\ quantity > 0 /\ quantity = Clamp(v, rows[v] + (x.accepted[v] + added))

\* A row that is written adds to the row of before.
LEMMA WrittenGood ==
    ASSUME NEW x \in Txs, x.entries # <<>>, NEW v \in Variants,
           NEW quantity \in 0..MaxQuantity, NEW added \in Nat,
           AddsTo(x, v, quantity, added)
    PROVE  /\ Written(x, v, quantity, added) \in Txs
           /\ TxGood(Written(x, v, quantity, added))
           /\ DOMAIN Written(x, v, quantity, added).own = DOMAIN x.own \cup {v}
  <1> PICK own : own = WithRow(x.own, v, quantity)
    OBVIOUS
  <1> PICK accepted : accepted = [x.accepted EXCEPT ![v] = @ + added]
    OBVIOUS
  <1> PICK y : y = [x EXCEPT !.own = own, !.insert = 0, !.accepted = accepted]
    OBVIOUS
  <1>1. Written(x, v, quantity, added) = NextEntry(y)
    BY DEF Written, Txs
  <1>2. x.own \in Written0 /\ x.accepted \in [Variants -> Nat]
    BY DEF Txs
  <1>3. /\ own \in Written0 /\ DOMAIN own = DOMAIN x.own \cup {v} /\ own[v] = quantity
        /\ \A u \in DOMAIN x.own \ {v} : own[u] = x.own[u]
    <2>1. DOMAIN x.own \subseteq Variants /\ x.own \in [DOMAIN x.own -> 0..MaxQuantity]
      BY <1>2, OwnType
    <2>2. /\ DOMAIN own = DOMAIN x.own \cup {v} /\ own[v] = quantity
          /\ own \in [DOMAIN own -> 0..MaxQuantity]
          /\ \A u \in DOMAIN x.own \ {v} : own[u] = x.own[u]
      BY <2>1 DEF WithRow
    <2>3. QED
      BY <2>1, <2>2, OwnType
  <1>4. /\ accepted \in [Variants -> Nat] /\ accepted[v] = x.accepted[v] + added
        /\ \A u \in Variants \ {v} : accepted[u] = x.accepted[u]
    BY <1>2
  <1>5. /\ y \in Txs /\ y.own = own /\ y.accepted = accepted /\ y.replace = x.replace
        /\ y.entries = x.entries
    <2>1. 0 \in 0..MaxQuantity
      BY ConstantsAssumption
    <2>2. QED
      BY <1>3, <1>4, <2>1 DEF Txs
  <1>6. ~y.replace => \A u \in Variants : LineGood(y, u)
    BY <1>3, <1>4, <1>5 DEF AddsTo, LineGood
  <1>7. QED
    BY <1>1, <1>3, <1>5, <1>6, NextEntryGood

\* Lines are of variants.
LEMMA LinesType == Lines \subseteq Variants
  BY DEF Lines

\* Begin: nothing is written yet.
LEMMA BeginStep ==
    ASSUME BagInv, NEW t \in Tabs, NEW b \in Batches, Begin(t, b)
    PROVE  BagInv'
  <1> PICK lines \in SUBSET Variants : lines = Lines
    BY LinesType
  <1> PICK x : x = [tx[t] EXCEPT !.at = IF b.replace THEN "clearing" ELSE "reading",
                                 !.entries = b.entries, !.replace = b.replace,
                                 !.snapshot = IF b.replace THEN lines ELSE {}]
    OBVIOUS
  <1>1. tx[t] = NoTx /\ tx' = [tx EXCEPT ![t] = x] /\ UNCHANGED <<rows, sellable>>
    BY DEF Begin
  <1> PICK y \in Txs : y = tx[t]
    BY DEF BagInv, BagTyped
  <1>2. b.entries \in Seq(Entries) /\ b.replace \in BOOLEAN
    BY ConstantsAssumption
  <1>3. /\ x \in Txs /\ x.own = y.own /\ x.accepted = y.accepted
        /\ x.replace = b.replace
        /\ x.at = IF b.replace THEN "clearing" ELSE "reading"
    BY <1>2 DEF Txs, At
  <1>4. DOMAIN x.own = {} /\ \A v \in Variants : x.accepted[v] = 0
    BY <1>1, <1>3, NoTxGood DEF NoTx
  <1>5. TxGood(x)
    BY <1>3, <1>4 DEF TxGood, LineGood
  <1>6. QED
    BY <1>1, <1>3, <1>4, <1>5, OneTxStep

\* clear() writes rows nobody else has written.
LEMMA ClearRowsStep ==
    ASSUME BagInv, NEW t \in Tabs, ClearRows(t)
    PROVE  BagInv'
  <1> PICK y \in Txs : y = tx[t]
    BY DEF BagInv, BagTyped
  <1> PICK own : own = [v \in y.snapshot |-> 0]
    OBVIOUS
  <1> PICK x : x = [y EXCEPT !.at = "reading", !.snapshot = {}, !.deleted = y.snapshot,
                             !.own = own]
    OBVIOUS
  <1>1. tx' = [tx EXCEPT ![t] = x] /\ UNCHANGED <<rows, sellable>>
    BY DEF ClearRows
  <1>2. y.at = "clearing" /\ y.replace /\ y.snapshot \subseteq Variants
    BY DEF ClearRows, BagInv, TxGood, Txs
  <1>3. own \in Written0 /\ DOMAIN own = y.snapshot
    BY <1>2, OwnType, ConstantsAssumption
  <1>4. x \in Txs /\ x.at = "reading" /\ x.replace /\ x.own = own
    BY <1>2, <1>3 DEF Txs, At
  <1>5. TxGood(x)
    BY <1>4 DEF TxGood
  <1>6. \A u \in Tabs \ {t} : DOMAIN own \cap DOMAIN tx[u].own = {}
    BY <1>3 DEF ClearRows, LockedByOther
  <1>7. QED
    BY <1>1, <1>4, <1>5, <1>6, OneTxStep

\* The entry a transaction is at, and what has been written before it.
LEMMA AtEntry ==
    ASSUME BagInv, NEW t \in Tabs, tx[t].entries # <<>>
    PROVE  /\ Entry(t).variant \in Variants /\ Entry(t).quantity \in Nat \ {0}
           /\ ~tx[t].replace => \A v \in Variants : LineGood(tx[t], v)
           /\ \A u \in Tabs \ {t} : DOMAIN tx[t].own \cap DOMAIN tx[u].own = {}
  <1> PICK y \in Txs : y = tx[t]
    BY DEF BagInv, BagTyped
  <1>1. y.entries \in Seq(Entries) /\ y.entries # <<>>
    BY DEF Txs
  <1>2. Entry(t) \in Entries
    BY <1>1 DEF Entry
  <1>3. QED
    BY <1>2 DEF Entries, BagInv, TxGood, OwnApart

\* Reading the variant: the entry is skipped, or its line is looked for.
LEMMA ReadVariantStep ==
    ASSUME BagInv, NEW t \in Tabs, ReadVariant(t)
    PROVE  BagInv'
  <1> PICK y \in Txs : y = tx[t]
    BY DEF BagInv, BagTyped
  <1> PICK v : v = Entry(t).variant
    OBVIOUS
  <1>0. /\ y.entries # <<>> /\ UNCHANGED <<rows, sellable>> /\ v \in Variants
        /\ ~y.replace => \A u \in Variants : LineGood(y, u)
        /\ \A u \in Tabs \ {t} : DOMAIN y.own \cap DOMAIN tx[u].own = {}
    BY AtEntry DEF ReadVariant
  <1>1. CASE v \in sellable
    <2> PICK seen \in SUBSET Variants : seen = Lines \cap {v}
      BY LinesType
    <2> PICK x : x = [y EXCEPT !.at = "selecting", !.snapshot = seen]
      OBVIOUS
    <2>1. tx' = [tx EXCEPT ![t] = x]
      BY <1>1 DEF ReadVariant
    <2>2. /\ x \in Txs /\ x.at = "selecting"
          /\ x.entries = y.entries /\ x.own = y.own /\ x.accepted = y.accepted
          /\ x.replace = y.replace
      BY DEF Txs, At
    <2>3. TxGood(x)
      BY <1>0, <2>2 DEF TxGood, LineGood
    <2>4. QED
      BY <1>0, <2>1, <2>2, <2>3, OneTxStep
  <1>2. CASE v \notin sellable
    <2> PICK x : x = NextEntry(y)
      OBVIOUS
    <2>1. tx' = [tx EXCEPT ![t] = x]
      BY <1>2 DEF ReadVariant
    <2>2. x \in Txs /\ TxGood(x) /\ x.own = y.own
      BY <1>0, NextEntryGood
    <2>3. QED
      BY <1>0, <2>1, <2>2, OneTxStep
  <1>3. QED
    BY <1>1, <1>2

\* Reading the line: the entry is skipped, added to the line, or goes on to be
\* inserted.
LEMMA SelectLineStep ==
    ASSUME BagInv, NEW t \in Tabs, SelectLine(t)
    PROVE  BagInv'
  <1> PICK y \in Txs : y = tx[t]
    BY DEF BagInv, BagTyped
  <1> PICK e : e = Entry(t)
    OBVIOUS
  <1> PICK v : v = e.variant
    OBVIOUS
  <1> PICK q : q = e.quantity
    OBVIOUS
  <1>12. PICK line : line = IF v \in DOMAIN y.own THEN y.own[v]
                           ELSE IF v \in y.snapshot THEN rows[v] ELSE 0
    OBVIOUS
  <1>0. tx' = [tx EXCEPT ![t] =
                 IF Stock[v] = 0 THEN NextEntry(y)
                 ELSE IF line > 0 THEN Written(y, v, Clamp(v, line + q), q)
                 ELSE [y EXCEPT !.at = "inserting", !.snapshot = {},
                                !.insert = Clamp(v, q)]]
    BY <1>12 DEF SelectLine
  <1>1. /\ y.at = "selecting" /\ UNCHANGED <<rows, sellable>>
        /\ line > 0 => ~LockedByOther(t, v)
    BY <1>12 DEF SelectLine
  <1>2. y.entries # <<>> /\ e = Head(y.entries)
    BY <1>1 DEF BagInv, TxGood, Entry
  <1>3. /\ v \in Variants /\ q \in Nat /\ q > 0
        /\ ~y.replace => \A u \in Variants : LineGood(y, u)
        /\ \A u \in Tabs \ {t} : DOMAIN y.own \cap DOMAIN tx[u].own = {}
    <2>1. /\ v \in Variants /\ q \in Nat \ {0}
          /\ ~y.replace => \A u \in Variants : LineGood(y, u)
          /\ \A u \in Tabs \ {t} : DOMAIN y.own \cap DOMAIN tx[u].own = {}
      BY Zenon, <1>2, AtEntry
    <2>2. QED
      BY <2>1
  <1>4. /\ rows[v] \in 0..MaxQuantity /\ y.accepted[v] \in Nat
        /\ y.own \in Written0 /\ Stock[v] \in Nat
    BY <1>3, ConstantsAssumption DEF BagInv, BagTyped, Txs
  <1>5. v \in DOMAIN y.own => y.own[v] \in 0..MaxQuantity
    BY <1>4, OwnType
  <1>6. line \in Nat
    BY <1>4, <1>5, <1>12, ConstantsAssumption
  <1>7. CASE Stock[v] = 0
    <2>4. PICK x : x = NextEntry(y)
      OBVIOUS
    <2>1. x \in Txs /\ TxGood(x) /\ x.own = y.own
      BY <1>2, <1>3, <2>4, NextEntryGood
    <2>2. tx' = [tx EXCEPT ![t] = x]
      BY <1>0, <1>7, <2>4
    <2>3. QED
      BY <1>1, <1>3, <2>1, <2>2, OneTxStep
  <1>8. CASE Stock[v] # 0 /\ line > 0
    <2>7. PICK n : n = Clamp(v, line + q)
      OBVIOUS
    <2>8. PICK x : x = Written(y, v, n, q)
      OBVIOUS
    <2>1. n \in 0..MaxQuantity /\ n > 0
      <3>1. line + q \in Nat /\ line + q > 0 /\ Stock[v] > 0
        BY <1>3, <1>4, <1>6, <1>8
      <3>2. QED
        BY <1>3, <2>7, <3>1, ClampLaws
    <2>2. ~y.replace => n = Clamp(v, rows[v] + (y.accepted[v] + q))
      <3> SUFFICES ASSUME ~y.replace
                   PROVE  n = Clamp(v, rows[v] + (y.accepted[v] + q))
        OBVIOUS
      <3>1. LineGood(y, v)
        BY <1>3
      <3>2. CASE v \in DOMAIN y.own
        <4>1. line = Clamp(v, rows[v] + y.accepted[v])
          BY <1>12, <3>1, <3>2 DEF LineGood
        <4>2. rows[v] + y.accepted[v] \in Nat
          BY <1>4, ConstantsAssumption
        <4>6. PICK m \in Nat : m = rows[v] + y.accepted[v]
          BY <4>2
        <4>3. n = Clamp(v, m + q)
          BY <1>3, <2>7, <4>1, <4>6, ClampLaws
        <4>4. (rows[v] + y.accepted[v]) + q = rows[v] + (y.accepted[v] + q)
          BY <1>3, <1>4, ConstantsAssumption
        <4>5. QED
          BY <4>3, <4>4, <4>6
      <3>3. CASE v \notin DOMAIN y.own
        <4>1. line = rows[v] /\ y.accepted[v] = 0
          BY <1>8, <1>12, <3>1, <3>3 DEF LineGood
        <4>2. line + q = rows[v] + (y.accepted[v] + q)
          BY <1>3, <1>4, <4>1, ConstantsAssumption
        <4>3. QED
          BY <2>7, <4>2
      <3>4. QED
        BY <3>2, <3>3
    <2>3. /\ x \in Txs /\ TxGood(x) /\ DOMAIN x.own = DOMAIN y.own \cup {v}
      <3>1. AddsTo(y, v, n, q)
        BY <1>3, <2>1, <2>2 DEF AddsTo
      <3>2. /\ Written(y, v, n, q) \in Txs /\ TxGood(Written(y, v, n, q))
            /\ DOMAIN Written(y, v, n, q).own = DOMAIN y.own \cup {v}
        <4>1. y.entries # <<>> /\ v \in Variants /\ q \in Nat
          BY <1>2, <1>3
        <4>2. n \in 0..MaxQuantity
          BY <2>1
        <4>3. QED
          BY ONLY Zenon, <3>1, <4>1, <4>2, WrittenGood, y \in Txs
      <3>3. QED
        BY <2>8, <3>2
    <2>4. tx' = [tx EXCEPT ![t] = x]
      BY <1>0, <1>8, <2>7, <2>8
    <2>5. \A u \in Tabs \ {t} : DOMAIN x.own \cap DOMAIN tx[u].own = {}
      BY <1>1, <1>3, <1>8, <2>3 DEF LockedByOther
    <2>6. QED
      BY <1>1, <2>3, <2>4, <2>5, OneTxStep
  <1>9. CASE Stock[v] # 0 /\ ~(line > 0)
    <2>8. PICK n : n = Clamp(v, q)
      OBVIOUS
    <2>9. PICK x : x = [y EXCEPT !.at = "inserting", !.snapshot = {}, !.insert = n]
      OBVIOUS
    <2>1. n \in 0..MaxQuantity
      BY <1>3, <2>8, ClampLaws
    <2>2. /\ x \in Txs /\ x.at = "inserting" /\ x.insert = n
          /\ x.entries = y.entries /\ x.own = y.own /\ x.accepted = y.accepted
          /\ x.replace = y.replace
      BY <2>1, <2>9 DEF Txs, At
    <2>3. ~y.replace => v \notin DOMAIN y.own
      BY <1>3, <1>9, <1>12 DEF LineGood
    <2>4. InsertGood(x, e)
      BY <1>4, <1>9, <2>2, <2>3, <2>8 DEF InsertGood
    <2>5. TxGood(x)
      BY <1>2, <1>3, <2>2, <2>4 DEF TxGood, LineGood
    <2>6. tx' = [tx EXCEPT ![t] = x]
      BY <1>0, <1>9, <2>8, <2>9
    <2>7. QED
      BY <1>1, <1>3, <2>2, <2>5, <2>6, OneTxStep
  <1>10. QED
    BY <1>7, <1>8, <1>9

\* Inserting the line: the batch fails, or the row is the first of its variant.
LEMMA InsertLineStep ==
    ASSUME BagInv, NEW t \in Tabs, InsertLine(t)
    PROVE  BagInv'
  <1> PICK y \in Txs : y = tx[t]
    BY DEF BagInv, BagTyped
  <1> PICK e : e = Entry(t)
    OBVIOUS
  <1> PICK v : v = e.variant
    OBVIOUS
  <1> PICK q : q = e.quantity
    OBVIOUS
  <1>1. /\ y.at = "inserting" /\ UNCHANGED <<rows, sellable>>
        /\ ~LockedByOther(t, v)
        /\ tx' = [tx EXCEPT ![t] = IF v \notin DOMAIN y.own /\ rows[v] > 0
                                     THEN NoTx ELSE Written(y, v, y.insert, q)]
    BY DEF InsertLine
  <1>2. y.entries # <<>> /\ e = Head(y.entries) /\ InsertGood(y, e)
    BY <1>1 DEF BagInv, TxGood, Entry
  <1>3. /\ v \in Variants /\ q \in Nat /\ q > 0
        /\ ~y.replace => \A u \in Variants : LineGood(y, u)
        /\ \A u \in Tabs \ {t} : DOMAIN y.own \cap DOMAIN tx[u].own = {}
    <2>1. /\ v \in Variants /\ q \in Nat \ {0}
          /\ ~y.replace => \A u \in Variants : LineGood(y, u)
          /\ \A u \in Tabs \ {t} : DOMAIN y.own \cap DOMAIN tx[u].own = {}
      BY Zenon, <1>2, AtEntry
    <2>2. QED
      BY <2>1
  <1>4. rows[v] \in Nat /\ y.accepted[v] \in Nat /\ y.insert \in 0..MaxQuantity
    BY <1>3, ConstantsAssumption DEF BagInv, BagTyped, Txs
  <1>5. CASE v \notin DOMAIN y.own /\ rows[v] > 0
    <2>1. tx' = [tx EXCEPT ![t] = NoTx]
      BY <1>1, <1>5
    <2>2. QED
      BY <1>1, <2>1, NoTxGood, OneTxStep
  <1>6. CASE ~(v \notin DOMAIN y.own /\ rows[v] > 0)
    <2> PICK x : x = Written(y, v, y.insert, q)
      OBVIOUS
    <2>1. ~y.replace => /\ y.insert > 0
                        /\ y.insert = Clamp(v, rows[v] + (y.accepted[v] + q))
      <3> SUFFICES ASSUME ~y.replace
                   PROVE  /\ y.insert > 0
                          /\ y.insert = Clamp(v, rows[v] + (y.accepted[v] + q))
        OBVIOUS
      <3>1. y.insert = Clamp(v, q) /\ Stock[v] > 0 /\ v \notin DOMAIN y.own
        BY <1>2 DEF InsertGood
      <3>2. rows[v] = 0 /\ y.accepted[v] = 0
        BY <1>3, <1>4, <1>6, <3>1 DEF LineGood
      <3>3. rows[v] + (y.accepted[v] + q) = q
        BY <1>3, <3>2
      <3>4. QED
        BY <1>3, <3>1, <3>3, ClampLaws
    <2>2. /\ x \in Txs /\ TxGood(x) /\ DOMAIN x.own = DOMAIN y.own \cup {v}
      <3>1. AddsTo(y, v, y.insert, q)
        BY <1>3, <2>1 DEF AddsTo
      <3>2. QED
        BY <1>2, <1>3, <1>4, <3>1, WrittenGood
    <2>3. tx' = [tx EXCEPT ![t] = x]
      BY <1>1, <1>6
    <2>4. \A u \in Tabs \ {t} : DOMAIN x.own \cap DOMAIN tx[u].own = {}
      BY <1>1, <1>3, <2>2 DEF LockedByOther
    <2>5. QED
      BY <1>1, <2>2, <2>3, <2>4, OneTxStep
  <1>7. QED
    BY <1>5, <1>6

\* Rows change that no transaction has written, or whose writer has ended:
\* what the other transactions have written stays right.
LEMMA RowsStep ==
    ASSUME BagInv, NEW Changed \in SUBSET Variants,
           rows' \in [Variants -> 0..MaxQuantity], sellable' = sellable,
           \A v \in Variants \ Changed : rows'[v] = rows[v],
           tx' \in [Tabs -> Txs],
           \A u \in Tabs :
              \/ tx'[u] = NoTx
              \/ /\ DOMAIN tx[u].own \cap Changed = {}
                 /\ \A f \in {"at", "entries", "replace", "own", "insert", "accepted"} :
                       tx'[u][f] = tx[u][f]
    PROVE  BagInv'
  <1>1. BagTyped'
    BY DEF BagInv, BagTyped
  <1>2. ASSUME NEW u \in Tabs
        PROVE  tx'[u] = NoTx \/ DOMAIN tx'[u].own = DOMAIN tx[u].own
    OBVIOUS
  <1>3. OwnApart'
    BY <1>2, NoTxGood DEF BagInv, OwnApart
  <1>4. ASSUME NEW u \in Tabs
        PROVE  TxGood(tx[u])'
    <2>1. CASE tx'[u] = NoTx
      <3>1. /\ NoTx.at = "idle" /\ DOMAIN NoTx.own = {}
            /\ \A v \in Variants : NoTx.accepted[v] = 0
        BY NoTxGood DEF NoTx
      <3>2. QED
        BY <2>1, <3>1 DEF TxGood, LineGood
    <2>2. CASE /\ DOMAIN tx[u].own \cap Changed = {}
               /\ \A f \in {"at", "entries", "replace", "own", "insert", "accepted"} :
                     tx'[u][f] = tx[u][f]
      <3> PICK x \in Txs : x = tx[u]
        BY DEF BagInv, BagTyped
      <3> PICK y \in Txs : y = tx'[u]
        OBVIOUS
      <3>1. /\ y.at = x.at /\ y.entries = x.entries /\ y.replace = x.replace
            /\ y.own = x.own /\ y.insert = x.insert /\ y.accepted = x.accepted
        BY <2>2
      <3>2. DOMAIN x.own \subseteq Variants
        BY OwnType DEF Txs
      <3>3. ASSUME NEW v \in Variants, LineGood(x, v)
            PROVE  LineGood(y, v)'
        <4>1. v \in DOMAIN x.own => rows'[v] = rows[v]
          BY <2>2
        <4>2. QED
          BY <3>1, <3>3, <4>1 DEF LineGood
      <3>4. TxGood(x)
        BY DEF BagInv
      <3>5. QED
        BY <3>1, <3>3, <3>4 DEF TxGood, InsertGood
    <2>3. QED
      BY <2>1, <2>2
  <1>5. QED
    BY <1>1, <1>3, <1>4 DEF BagInv

\* COMMIT: what it wrote is in the cart.
LEMMA CommitStep ==
    ASSUME BagInv, NEW t \in Tabs, Commit(t)
    PROVE  BagInv'
  <1> PICK y \in Txs : y = tx[t]
    BY DEF BagInv, BagTyped
  <1>1. DOMAIN y.own \subseteq Variants /\ y.own \in [DOMAIN y.own -> 0..MaxQuantity]
    BY OwnType DEF Txs
  <1>2. /\ rows' \in [Variants -> 0..MaxQuantity] /\ sellable' = sellable
        /\ \A v \in Variants \ DOMAIN y.own : rows'[v] = rows[v]
    BY <1>1 DEF Commit, BagInv, BagTyped
  <1>3. ASSUME NEW u \in Tabs
        PROVE  /\ tx'[u] \in Txs
               /\ \/ tx'[u] = NoTx
                  \/ /\ DOMAIN tx[u].own \cap DOMAIN y.own = {}
                     /\ \A f \in {"at", "entries", "replace", "own", "insert", "accepted"} :
                           tx'[u][f] = tx[u][f]
    <2>1. CASE u = t
      BY <2>1, NoTxGood DEF Commit
    <2>2. CASE u # t
      <3> PICK x \in Txs : x = tx[u]
        BY DEF BagInv, BagTyped
      <3>1. PICK z : z = [x EXCEPT !.snapshot = @ \ y.deleted]
        OBVIOUS
      <3>2. /\ z \in Txs
            /\ \A f \in {"at", "entries", "replace", "own", "insert", "accepted"} :
                  z[f] = x[f]
        BY <3>1 DEF Txs
      <3>3. tx'[u] = z
        BY <2>2, <3>1 DEF Commit
      <3>4. QED
        BY <2>2, <3>2, <3>3 DEF BagInv, OwnApart
    <2>3. QED
      BY <2>1, <2>2
  <1>4. tx' \in [Tabs -> Txs]
    BY <1>3 DEF Commit
  <1>5. QED
    BY <1>1, <1>2, <1>3, <1>4, RowsStep

\* remove_item takes a row that no transaction has written.
LEMMA RemoveItemStep ==
    ASSUME BagInv, NEW t \in Tabs, NEW v \in Variants, RemoveItem(t, v)
    PROVE  BagInv'
  <1>1. /\ rows' \in [Variants -> 0..MaxQuantity] /\ sellable' = sellable
        /\ \A w \in Variants \ {v} : rows'[w] = rows[w]
    BY ConstantsAssumption DEF RemoveItem, BagInv, BagTyped
  <1>2. ASSUME NEW u \in Tabs
        PROVE  /\ tx'[u] \in Txs
               /\ \/ tx'[u] = NoTx
                  \/ /\ DOMAIN tx[u].own \cap {v} = {}
                     /\ \A f \in {"at", "entries", "replace", "own", "insert", "accepted"} :
                           tx'[u][f] = tx[u][f]
    <2> PICK x \in Txs : x = tx[u]
      BY DEF BagInv, BagTyped
    <2>1. PICK z : z = [x EXCEPT !.snapshot = @ \ {v}]
      OBVIOUS
    <2>2. /\ z \in Txs
          /\ \A f \in {"at", "entries", "replace", "own", "insert", "accepted"} :
                z[f] = x[f]
      BY <2>1 DEF Txs
    <2>3. tx'[u] = z
      BY <2>1 DEF RemoveItem
    <2>4. DOMAIN tx[u].own \cap {v} = {}
      BY NoTxGood DEF RemoveItem, LockedByOther
    <2>5. QED
      BY <2>2, <2>3, <2>4
  <1>3. tx' \in [Tabs -> Txs]
    BY <1>2 DEF RemoveItem
  <1>4. QED
    BY <1>1, <1>2, <1>3, RowsStep

\* set_quantity sets a row that no transaction has written.
LEMMA SetQuantityStep ==
    ASSUME BagInv, NEW t \in Tabs, NEW v \in Variants, NEW q \in 1..MaxQuantity,
           SetQuantity(t, v, q)
    PROVE  BagInv'
  <1>1. Clamp(v, q) \in 0..MaxQuantity
    BY ClampLaws, ConstantsAssumption
  <1>2. /\ rows' \in [Variants -> 0..MaxQuantity] /\ sellable' = sellable
        /\ \A w \in Variants \ {v} : rows'[w] = rows[w]
    BY <1>1 DEF SetQuantity, BagInv, BagTyped
  <1>3. tx' = tx /\ tx' \in [Tabs -> Txs]
    BY DEF SetQuantity, BagInv, BagTyped
  <1>4. \A u \in Tabs : DOMAIN tx[u].own \cap {v} = {}
    BY NoTxGood DEF SetQuantity, LockedByOther
  <1>5. QED
    BY <1>2, <1>3, <1>4, RowsStep

\* Every step keeps the invariant.
LEMMA BagStep == BagInv /\ [Next]_vars => BagInv'
  <1> SUFFICES ASSUME BagInv, [Next]_vars PROVE BagInv'
    OBVIOUS
  <1>1. ASSUME NEW t \in Tabs, NEW b \in Batches, Begin(t, b) PROVE BagInv'
    BY <1>1, BeginStep
  <1>2. ASSUME NEW t \in Tabs, ClearRows(t) PROVE BagInv'
    BY <1>2, ClearRowsStep
  <1>3. ASSUME NEW t \in Tabs, ReadVariant(t) PROVE BagInv'
    BY <1>3, ReadVariantStep
  <1>4. ASSUME NEW t \in Tabs, SelectLine(t) PROVE BagInv'
    BY <1>4, SelectLineStep
  <1>5. ASSUME NEW t \in Tabs, InsertLine(t) PROVE BagInv'
    BY <1>5, InsertLineStep
  <1>6. ASSUME NEW t \in Tabs, Commit(t) PROVE BagInv'
    BY <1>6, CommitStep
  <1>7. ASSUME NEW t \in Tabs, Abort(t) PROVE BagInv'
    BY <1>7, NoTxGood, OneTxStep DEF Abort
  <1>8. ASSUME NEW t \in Tabs, NEW v \in Variants, NEW q \in 1..MaxQuantity,
               SetQuantity(t, v, q)
        PROVE  BagInv'
    BY <1>8, SetQuantityStep
  <1>9. ASSUME NEW t \in Tabs, NEW v \in Variants, RemoveItem(t, v) PROVE BagInv'
    BY <1>9, RemoveItemStep
  <1>10. ASSUME NEW v \in Variants, Withdraw(v) PROVE BagInv'
    BY <1>10 DEF Withdraw, BagInv, BagTyped, OwnApart, TxGood, LineGood, InsertGood
  <1>11. ASSUME UNCHANGED vars PROVE BagInv'
    BY <1>11 DEF vars, BagInv, BagTyped, OwnApart, TxGood, LineGood, InsertGood
  <1>12. QED
    BY Zenon, <1>1, <1>2, <1>3, <1>4, <1>5, <1>6, <1>7, <1>8, <1>9, <1>10, <1>11 DEF Next

\* Lines stay within MAX_QUANTITY_PER_LINE, whoever edits the bag.
THEOREM BagTypeCorrect == Spec => []TypeOK
  <1>1. Spec => []BagInv
    BY BagInit, BagStep, PTL DEF Spec
  <1>2. BagInv => TypeOK
    BY BagTypes DEF BagInv
  <1>3. QED
    BY <1>1, <1>2, PTL

\* A batch that reads nothing more has only its commit left to change rows.
LEMMA CommitsBy ==
    ASSUME BagInv, Next, NEW t \in Tabs, Commits(t), tx'[t] = NoTx
    PROVE  Commit(t)
  <1>1. tx[t].at = "reading" /\ tx[t].entries = <<>> /\ rows' # rows
    BY DEF Commits
  <1>2. tx[t] # NoTx
    BY <1>1 DEF NoTx
  <1>3. ASSUME NEW u \in Tabs, Commit(u), u # t PROVE FALSE
    <2> PICK x \in Txs : x = tx[t]
      BY DEF BagInv, BagTyped
    <2>1. PICK z : z = [x EXCEPT !.snapshot = @ \ tx[u].deleted]
      OBVIOUS
    <2>2. z.at = "reading" /\ NoTx.at = "idle"
      BY <1>1, <2>1 DEF NoTx, Txs
    <2>3. tx'[t] = z
      BY <1>3, <2>1 DEF Commit
    <2>4. QED
      BY <2>2, <2>3
  <1>4. ASSUME NEW u \in Tabs, NEW v \in Variants, RemoveItem(u, v) PROVE FALSE
    <2> PICK x \in Txs : x = tx[t]
      BY DEF BagInv, BagTyped
    <2>1. PICK z : z = [x EXCEPT !.snapshot = @ \ {v}]
      BY Zenon
    <2>2. z.at = "reading" /\ NoTx.at = "idle"
      BY <1>1, <2>1 DEF NoTx, Txs
    <2>3. tx'[t] = z
      BY <1>4, <2>1 DEF RemoveItem
    <2>4. QED
      BY <2>2, <2>3
  <1>5. ASSUME NEW u \in Tabs, NEW v \in Variants, NEW q \in 1..MaxQuantity,
               SetQuantity(u, v, q)
        PROVE  FALSE
    BY <1>2, <1>5 DEF SetQuantity
  <1>6. PICK u \in Tabs : Commit(u)
    <2>1. \A v \in Tabs, b \in Batches : ~Begin(v, b)
      BY <1>1 DEF Begin
    <2>6. \A v \in Tabs : ~ClearRows(v)
      BY <1>1 DEF ClearRows
    <2>7. \A v \in Tabs : ~Abort(v)
      BY <1>1 DEF Abort
    <2>8. \A v \in Variants : ~Withdraw(v)
      BY <1>1 DEF Withdraw
    <2>2. \A v \in Tabs : ~ReadVariant(v)
      BY <1>1 DEF ReadVariant
    <2>3. \A v \in Tabs : ~SelectLine(v)
      BY <1>1 DEF SelectLine
    <2>4. \A v \in Tabs : ~InsertLine(v)
      BY <1>1 DEF InsertLine
    <2>5. QED
      BY Zenon, <1>4, <1>5, <2>1, <2>2, <2>3, <2>4, <2>6, <2>7, <2>8 DEF Next
  <1>7. QED
    BY <1>3, <1>6

\* No add that was answered with success is overwritten by another: a batch
\* that commits leaves each line at what was committed and what it added.
THEOREM AddsSumTheorem == Spec => AddsSum
  <1>1. BagInv /\ [Next]_vars =>
          [\A t \in Tabs :
              Commits(t) /\ tx'[t] = NoTx /\ ~tx[t].replace =>
                  \A v \in DOMAIN tx[t].own :
                      rows'[v] = Clamp(v, rows[v] + tx[t].accepted[v])]_vars
    <2> SUFFICES ASSUME BagInv, Next, NEW t \in Tabs, Commits(t), tx'[t] = NoTx,
                        ~tx[t].replace, NEW v \in DOMAIN tx[t].own
                 PROVE  rows'[v] = Clamp(v, rows[v] + tx[t].accepted[v])
      OBVIOUS
    <2>1. Commit(t)
      BY CommitsBy
    <2>2. v \in Variants
      BY OwnType DEF BagInv, BagTyped, Txs
    <2>3. rows'[v] = tx[t].own[v]
      BY <2>1, <2>2 DEF Commit
    <2>4. LineGood(tx[t], v)
      BY <2>2 DEF BagInv, TxGood
    <2>5. QED
      BY <2>3, <2>4 DEF LineGood
  <1>2. QED
    BY <1>1, BagInit, BagStep, PTL DEF Spec, AddsSum

-----------------------------------------------------------------------------
(* Links and passwords. *)

\* A reset link remembers a password the account has, or had; a verification
\* link was sent while the address was unverified.
ResetOf(link, p) == link.kind = "reset" /\ \E t \in Nat : link.state = <<p, t>>
VerifyLink(link) == link.kind = "verify" /\ link.state = <<0>>

Genuine(link) == VerifyLink(link) \/ \E p \in Nat : p <= password /\ ResetOf(link, p)

\* What using it has changed for good.
Outdated(link) ==
    \/ VerifyLink(link) /\ verified # 0
    \/ \E p \in Nat : p < password /\ ResetOf(link, p)

FormGood(form) ==
    form.kind \in {"reset", "verify"} =>
        Genuine(form.link) /\ form.link.kind = form.kind /\ form.user.verified \in Nat

LinksGood ==
    /\ password \in Nat /\ lastLogin \in Nat /\ verified \in Nat
    /\ \A link \in links : Genuine(link)
    /\ \A f \in Forms : FormGood(forms[f])
    /\ forms = [f \in Forms |-> forms[f]]
    /\ \A link \in spent : Outdated(link)

\* Passwords and verification only move forward, so that what is genuine, or
\* outdated, stays so.
Forward ==
    /\ password \in Nat /\ password' \in Nat /\ password <= password'
    /\ verified # 0 => verified' # 0

\* Links keep their standing when the account moves forward.
LEMMA GenuineKept ==
    ASSUME Forward, NEW link
    PROVE  (Genuine(link) => Genuine(link)') /\ (Outdated(link) => Outdated(link)')
  BY DEF Forward, Genuine, Outdated, VerifyLink, ResetOf

\* So do the forms that were opened from them.
LEMMA FormKept ==
    ASSUME Forward, NEW form, FormGood(form)
    PROVE  FormGood(form)'
  BY GenuineKept DEF FormGood

\* A link is sent with the fingerprint of the account as it is.
LEMMA LinkGenuine ==
    ASSUME LinksGood, NEW k \in {"reset", "verify"}, k = "verify" => verified = 0
    PROVE  Genuine(Links!Link(k))
  <1>1. CASE k = "reset"
    <2>1. Links!Link(k).kind = "reset" /\ Links!Link(k).state = <<password, lastLogin>>
      BY <1>1 DEF Links!Link, Links!Fingerprint, Links!User
    <2>2. QED
      BY <2>1 DEF LinksGood, Genuine, ResetOf
  <1>2. CASE k = "verify"
    <2>1. Links!Link(k).kind = "verify" /\ Links!Link(k).state = <<0>>
      BY <1>2 DEF Links!Link, Links!Fingerprint, Links!User
    <2>2. QED
      BY <2>1 DEF Genuine, VerifyLink
  <1>3. QED
    BY <1>1, <1>2

\* The first link is genuine.
LEMMA LinksInit == Links!Init => LinksGood
  <1> SUFFICES ASSUME Links!Init PROVE LinksGood
    OBVIOUS
  <1>1. Links!Link("verify").kind = "verify" /\ Links!Link("verify").state = <<0>>
    BY DEF Links!Link, Links!Fingerprint, Links!User, Links!Init
  <1>2. \A link \in links : Genuine(link)
    BY <1>1 DEF Links!Init, Genuine, VerifyLink
  <1>3. \A f \in Forms : FormGood(forms[f])
    BY DEF Links!Init, FormGood, Links!Idle
  <1>4. QED
    BY <1>2, <1>3 DEF Links!Init, LinksGood

\* A form that is saved outdates the link it was opened from.
LEMMA FormSavedStep ==
    ASSUME LinksGood, NEW f \in Forms, Links!Saves(f)
    PROVE  LinksGood'
  <1>0. PICK link : link = forms[f].link
    OBVIOUS
  <1>1. UNCHANGED <<lastLogin, links>> /\ forms' = [forms EXCEPT ![f] = Links!Idle]
    BY DEF Links!Saves
  <1>2. FormGood(forms[f])
    BY DEF LinksGood
  <1>3. /\ password' \in {password, password + 1} /\ verified' \in Nat
        /\ verified # 0 => verified' # 0
        /\ forms[f].kind = "change" \/ Outdated(link)'
    <2>1. CASE forms[f].kind = "reset"
      <3>1. password' = password + 1
            /\ verified' = IF forms[f].user.verified = 0 THEN verified + 1
                           ELSE forms[f].user.verified
        BY <2>1 DEF Links!Saves, Links!NewPassword
      <3>2. PICK p \in Nat : p <= password /\ ResetOf(link, p)
        BY <1>0, <1>2, <2>1 DEF FormGood, Genuine, VerifyLink
      <3>3. p < password'
        BY <3>1, <3>2 DEF LinksGood
      <3>4. QED
        BY <1>2, <2>1, <3>1, <3>2, <3>3 DEF FormGood, Outdated, ResetOf, LinksGood
    <2>2. CASE forms[f].kind = "change"
      BY <2>2 DEF Links!Saves, Links!NewPassword, LinksGood
    <2>3. CASE forms[f].kind = "verify"
      <3>1. password' = password /\ verified' = verified + 1
        BY <2>3 DEF Links!Saves
      <3>2. VerifyLink(link)
        BY <1>0, <1>2, <2>3 DEF FormGood, Genuine, ResetOf
      <3>3. QED
        BY <3>1, <3>2 DEF Outdated, VerifyLink, LinksGood
    <2>4. QED
      BY <2>1, <2>2, <2>3 DEF Links!Saves
  <1>4. Forward
    BY <1>3 DEF Forward, LinksGood
  <1>5. ASSUME NEW g \in Forms PROVE FormGood(forms[g])'
    <2>1. PICK form : form = IF g = f THEN Links!Idle ELSE forms[g]
      OBVIOUS
    <2>2. forms'[g] = form
      BY <1>1, <2>1 DEF LinksGood
    <2>3. FormGood(form)
      BY <2>1 DEF LinksGood, FormGood, Links!Idle
    <2>4. FormGood(form)'
      BY <1>4, <2>3, FormKept
    <2>5. QED
      BY <2>2, <2>4 DEF FormGood
  <1>6. \A l \in links' : Genuine(l)'
    BY <1>1, <1>4, GenuineKept DEF LinksGood
  <1>7. \A l \in spent' : Outdated(l)'
    <2>1. spent' = IF forms[f].kind = "change" THEN spent ELSE spent \cup {link}
      BY <1>0 DEF Links!Saves
    <2>2. QED
      BY <1>3, <1>4, <2>1, GenuineKept DEF LinksGood
  <1>8. forms' = [g \in Forms |-> forms'[g]]
    BY <1>1 DEF LinksGood
  <1>9. QED
    BY <1>1, <1>3, <1>5, <1>6, <1>7, <1>8 DEF LinksGood

\* A form is opened from the account as it is.
LEMMA FormOpenedStep ==
    ASSUME LinksGood, NEW f \in Forms,
           (\E link \in links : Links!Opens(f, link)) \/ Links!OpensChange(f)
    PROVE  LinksGood'
  <1>1. UNCHANGED <<password, lastLogin, verified, links, spent>>
    BY DEF Links!Opens, Links!OpensChange
  <1>2. \E form : FormGood(form) /\ forms' = [forms EXCEPT ![f] = form]
    <2>1. ASSUME NEW link \in links, Links!Opens(f, link)
          PROVE  \E form : FormGood(form) /\ forms' = [forms EXCEPT ![f] = form]
      <3> DEFINE form == [kind |-> link.kind, link |-> link, user |-> Links!User]
      <3>1. form.kind = link.kind /\ form.link = link /\ form.user.verified = verified
        BY DEF Links!User
      <3>2. forms' = [forms EXCEPT ![f] = form]
        BY <2>1 DEF Links!Opens
      <3> HIDE DEF form
      <3>3. FormGood(form)
        BY <3>1 DEF FormGood, LinksGood
      <3>4. QED
        BY <3>2, <3>3
    <2>2. ASSUME Links!OpensChange(f)
          PROVE  \E form : FormGood(form) /\ forms' = [forms EXCEPT ![f] = form]
      <3> DEFINE form == [kind |-> "change", user |-> Links!User]
      <3>1. forms' = [forms EXCEPT ![f] = form] /\ form.kind = "change"
        BY <2>2 DEF Links!OpensChange
      <3>2. FormGood(form)
        BY <3>1 DEF FormGood
      <3>3. QED
        BY <3>1, <3>2
    <2>3. QED
      BY <2>1, <2>2
  <1>3. Forward
    BY <1>1 DEF Forward, LinksGood
  <1>4. ASSUME NEW g \in Forms PROVE FormGood(forms[g])'
    <2>1. PICK form : form = forms'[g]
      OBVIOUS
    <2>2. FormGood(form)
      BY <1>2, <2>1 DEF LinksGood
    <2>3. FormGood(form)'
      BY <1>3, <2>2, FormKept
    <2>4. QED
      BY <2>1, <2>3 DEF FormGood
  <1>5. forms' = [g \in Forms |-> forms'[g]]
    BY <1>2 DEF LinksGood
  <1>6. QED
    BY <1>1, <1>3, <1>4, <1>5, GenuineKept DEF LinksGood

\* Every step keeps what is known of the links.
LEMMA LinksStep == LinksGood /\ [AccountNext]_accountVars => LinksGood'
  <1> SUFFICES ASSUME LinksGood, [AccountNext]_accountVars PROVE LinksGood'
    OBVIOUS
  <1>0. Links!Next \/ UNCHANGED linksVars
    BY DEF AccountNext, LinksNext, BookNext, FitsNext, PostsNext, accountVars
  <1>1. ASSUME UNCHANGED <<password, verified, forms, spent>>, lastLogin' \in Nat,
               \A link \in links' : Genuine(link)
        PROVE  LinksGood'
    <2>1. Forward
      BY <1>1 DEF Forward, LinksGood
    <2>2. \A link \in links' : Genuine(link)'
      BY <1>1, <2>1, GenuineKept
    <2>3. \A f \in Forms : FormGood(forms[f])'
      BY <1>1, <2>1, GenuineKept DEF FormGood, LinksGood
    <2>4. \A link \in spent : Outdated(link)'
      BY <2>1, GenuineKept DEF LinksGood
    <2>5. QED
      BY <1>1, <2>2, <2>3, <2>4 DEF LinksGood
  <1>2. ASSUME Links!Login \/ UNCHANGED linksVars PROVE LinksGood'
    BY <1>1, <1>2 DEF Links!Login, linksVars, LinksGood
  <1>3. ASSUME NEW k \in {"reset", "verify"}, Links!Request(k) PROVE LinksGood'
    BY <1>1, <1>3, LinkGenuine DEF Links!Request, LinksGood
  <1>4. ASSUME NEW link \in links, Links!Expires(link) PROVE LinksGood'
    BY <1>1, <1>4 DEF Links!Expires, LinksGood
  <1>5. QED
    BY <1>0, <1>2, <1>3, <1>4, FormOpenedStep, FormSavedStep DEF Links!Next

\* A link that was used never opens again: the account never has its
\* fingerprint a second time (tokens.py, "Single use").
THEOREM SpentLinksTheorem == AccountSpec => []SpentLinksDead
  <1>1. LinksGood => SpentLinksDead
    <2> SUFFICES ASSUME LinksGood, NEW link \in spent
                 PROVE  Links!Fingerprint(link.kind, Links!User) # link.state
      BY DEF SpentLinksDead, Links!SpentLinksDead
    <2>1. CASE VerifyLink(link) /\ verified # 0
      <3>1. Links!Fingerprint(link.kind, Links!User) = <<verified>>
        BY <2>1 DEF VerifyLink, Links!Fingerprint, Links!User
      <3>2. QED
        BY <2>1, <3>1 DEF VerifyLink
    <2>2. ASSUME NEW p \in Nat, p < password, ResetOf(link, p)
          PROVE  Links!Fingerprint(link.kind, Links!User) # link.state
      <3>1. Links!Fingerprint(link.kind, Links!User) = <<password, lastLogin>>
        BY <2>2 DEF ResetOf, Links!Fingerprint, Links!User
      <3>2. p # password
        BY <2>2 DEF LinksGood
      <3>3. QED
        BY <2>2, <3>1, <3>2 DEF ResetOf
    <2>3. QED
      BY <2>1, <2>2 DEF LinksGood, Outdated
  <1>2. AccountInit => LinksGood
    BY LinksInit DEF AccountInit
  <1>3. QED
    BY <1>1, <1>2, LinksStep, PTL DEF AccountSpec

-----------------------------------------------------------------------------
(* The address book. *)

Rows == [kind : Book!AddressKinds, default : BOOLEAN]

Edits == [at : {"begun", "cleared"}, address : Addresses, clears : BOOLEAN,
          cleared : SUBSET Addresses, row : Rows]

\* A request that clears will itself be the default, and what it has cleared
\* are still the defaults of its kind.
EditGood(w) ==
    /\ edits[w].at # "idle" /\ edits[w].clears => edits[w].row.default
    /\ edits[w].at = "cleared" =>
          \A a \in edits[w].cleared :
              /\ edits[w].row.default
              /\ book[a].default /\ book[a].kind = edits[w].row.kind

\* No two requests have cleared the same address.
ClearedApart ==
    \A v, w \in Writers :
        v # w /\ edits[v].at = "cleared" /\ edits[w].at = "cleared" =>
            edits[v].cleared \cap edits[w].cleared = {}

BookGood ==
    /\ book \in [Addresses -> Rows \cup {Book!None}]
    /\ edits \in [Writers -> Edits \cup {Book!Idle}]
    /\ \A w \in Writers : EditGood(w)
    /\ ClearedApart

\* The book starts empty, with no request under way.
LEMMA BookInit == AccountInit => BookGood
  BY DEF AccountInit, Book!Init, BookGood, EditGood, ClearedApart, Book!Idle

\* A request that begins has cleared nothing yet.
LEMMA EditBeginsStep ==
    ASSUME BookGood, NEW w \in Writers, NEW edit \in Edits, edit.at = "begun",
           edit.clears => edit.row.default,
           edits' = [edits EXCEPT ![w] = edit], UNCHANGED book
    PROVE  BookGood'
  <1>1. edits' \in [Writers -> Edits \cup {Book!Idle}]
    BY DEF BookGood
  <1>2. \A v \in Writers : edits'[v] = IF v = w THEN edit ELSE edits[v]
    BY DEF BookGood
  <1>3. \A v \in Writers : EditGood(v)'
    BY <1>2 DEF BookGood, EditGood
  <1>4. ClearedApart'
    BY <1>2 DEF BookGood, ClearedApart
  <1>5. QED
    BY <1>1, <1>3, <1>4 DEF BookGood

\* A request that ends leaves the others' cleared rows as they are.
LEMMA EditEndsStep ==
    ASSUME BookGood, NEW w \in Writers, edits' = [edits EXCEPT ![w] = Book!Idle],
           book' \in [Addresses -> Rows \cup {Book!None}],
           \A v \in Writers \ {w} : edits[v].at = "cleared" =>
               \A a \in edits[v].cleared : book'[a] = book[a]
    PROVE  BookGood'
  <1>1. edits' \in [Writers -> Edits \cup {Book!Idle}]
    BY DEF BookGood
  <1>2. \A v \in Writers : edits'[v] = IF v = w THEN Book!Idle ELSE edits[v]
    BY DEF BookGood
  <1>3. \A v \in Writers : EditGood(v)'
    BY <1>2 DEF BookGood, EditGood, Book!Idle
  <1>4. ClearedApart'
    BY <1>2 DEF BookGood, ClearedApart, Book!Idle
  <1>5. QED
    BY <1>1, <1>3, <1>4 DEF BookGood

\* Clearing takes rows no other request has cleared.
LEMMA ClearsStep ==
    ASSUME BookGood, NEW w \in Writers, Book!Clears(w)
    PROVE  BookGood'
  <1> DEFINE c == Book!Cleared(w)
  <1>1. edits[w] \in Edits /\ edits[w].at = "begun"
    BY DEF Book!Clears, BookGood, Book!Idle
  <1>2. /\ c \subseteq Addresses
        /\ \A a \in c : /\ edits[w].row.default
                       /\ book[a].default /\ book[a].kind = edits[w].row.kind
    BY <1>1 DEF Book!Cleared, Book!Default, Book!OfKind, BookGood, EditGood
  <1>3. \A v \in Writers \ {w} : edits[v].at = "cleared" => edits[v].cleared \cap c = {}
    BY DEF Book!Clears, Book!Locked
  <1>4. UNCHANGED book /\ edits' = [edits EXCEPT ![w].at = "cleared", ![w].cleared = c]
    BY DEF Book!Clears
  <1> HIDE DEF c
  <1>5. /\ edits' \in [Writers -> Edits \cup {Book!Idle}]
        /\ edits'[w].at = "cleared" /\ edits'[w].cleared = c
        /\ edits'[w].row = edits[w].row /\ edits'[w].clears = edits[w].clears
        /\ \A v \in Writers \ {w} : edits'[v] = edits[v]
    BY <1>1, <1>2, <1>4 DEF BookGood, Edits
  <1>6. \A v \in Writers : EditGood(v)'
    BY <1>1, <1>2, <1>4, <1>5 DEF BookGood, EditGood
  <1>7. ClearedApart'
    BY <1>3, <1>5 DEF BookGood, ClearedApart
  <1>8. QED
    BY <1>4, <1>5, <1>6, <1>7 DEF BookGood

\* A save writes its own address, which nobody else has cleared, and what it
\* has cleared itself.
LEMMA SavesStep ==
    ASSUME BookGood, NEW w \in Writers, Book!Saves(w)
    PROVE  BookGood'
  <1>1. edits[w] \in Edits /\ edits[w].at = "cleared"
    BY DEF Book!Saves, BookGood, Book!Idle
  <1>2. edits' = [edits EXCEPT ![w] = Book!Idle]
    BY DEF Book!Saves
  <1>3. CASE Book!Refused(w)
    BY <1>2, <1>3, EditEndsStep DEF Book!Saves, Book!Undone, BookGood
  <1>4. CASE ~Book!Refused(w)
    <2>1. book' = [a \in Addresses |->
                      IF a = edits[w].address THEN edits[w].row
                      ELSE IF a \in edits[w].cleared
                      THEN [book[a] EXCEPT !.default = FALSE] ELSE book[a]]
      BY <1>4 DEF Book!Saves
    <2>2. \A a \in edits[w].cleared : book[a] \in Rows
      BY <1>1 DEF BookGood, EditGood, Edits, Book!None
    <2>3. edits[w].row \in Rows
      BY <1>1 DEF Edits
    <2>4. book' \in [Addresses -> Rows \cup {Book!None}]
      BY <2>1, <2>2, <2>3 DEF BookGood, Rows
    <2>5. ASSUME NEW v \in Writers \ {w}, edits[v].at = "cleared",
                 NEW a \in edits[v].cleared
          PROVE  book'[a] = book[a]
      <3>1. a \in Addresses
        BY <2>5 DEF BookGood, Edits, Book!Idle
      <3>2. a # edits[w].address
        BY <2>5 DEF Book!Saves, Book!Locked
      <3>3. a \notin edits[w].cleared
        BY <1>1, <2>5 DEF BookGood, ClearedApart
      <3>4. QED
        BY <2>1, <3>1, <3>2, <3>3
    <2>6. QED
      BY <1>2, <2>4, <2>5, EditEndsStep
  <1>5. QED
    BY <1>3, <1>4

\* Every step keeps what is known of the requests.
LEMMA BookStep == BookGood /\ [AccountNext]_accountVars => BookGood'
  <1> SUFFICES ASSUME BookGood, [AccountNext]_accountVars PROVE BookGood'
    OBVIOUS
  <1>1. Book!Next \/ UNCHANGED bookVars
    BY DEF AccountNext, LinksNext, BookNext, FitsNext, PostsNext, accountVars
  <1>2. CASE UNCHANGED bookVars
    BY <1>2 DEF bookVars, BookGood, EditGood, ClearedApart
  <1>3. ASSUME NEW w \in Writers, NEW a \in Addresses, NEW k \in Book!AddressKinds,
               NEW asked \in BOOLEAN, Book!BeginsCreate(w, a, k, asked)
        PROVE  BookGood'
    <2> DEFINE edit == [at |-> "begun", address |-> a, clears |-> asked, cleared |-> {},
                        row |-> [kind |-> k, default |-> asked \/ Book!OfKind(k) = {}]]
    <2>1. edit \in Edits /\ edit.at = "begun" /\ (edit.clears => edit.row.default)
      BY DEF Edits, Rows
    <2>2. edits' = [edits EXCEPT ![w] = edit] /\ UNCHANGED book
      BY <1>3 DEF Book!BeginsCreate
    <2> HIDE DEF edit
    <2>3. QED
      BY <2>1, <2>2, EditBeginsStep
  <1>4. ASSUME NEW w \in Writers, NEW a \in Addresses, NEW k \in Book!AddressKinds,
               NEW asked \in {"yes", "no", "same"}, Book!BeginsEdit(w, a, k, asked)
        PROVE  BookGood'
    <2> DEFINE edit == [at |-> "begun", address |-> a, clears |-> asked = "yes",
                        cleared |-> {},
                        row |-> [kind |-> k,
                                 default |-> IF asked = "same" THEN book[a].default
                                             ELSE asked = "yes"]]
    <2>1. book[a].default \in BOOLEAN
      <3>1. book[a] \in Rows \/ book[a] = Book!None
        BY DEF BookGood
      <3>2. ASSUME book[a] \in Rows PROVE book[a].default \in BOOLEAN
        BY <3>2 DEF Rows
      <3>3. ASSUME book[a] = Book!None PROVE book[a].default = FALSE
        BY <3>3 DEF Book!None
      <3>4. QED
        BY <3>1, <3>2, <3>3
    <2>2. edit \in Edits /\ edit.at = "begun" /\ (edit.clears => edit.row.default)
      BY <2>1 DEF Edits, Rows
    <2>3. edits' = [edits EXCEPT ![w] = edit] /\ UNCHANGED book
      BY <1>4 DEF Book!BeginsEdit
    <2> HIDE DEF edit
    <2>4. QED
      BY <2>2, <2>3, EditBeginsStep
  <1>5. ASSUME NEW w \in Writers, Book!Dies(w) PROVE BookGood'
    BY <1>5, EditEndsStep DEF Book!Dies, Book!Undone, BookGood
  <1>6. ASSUME NEW a \in Addresses, Book!Deletes(a) PROVE BookGood'
    <2>1. /\ book' = [book EXCEPT ![a] = Book!None] /\ UNCHANGED edits
          /\ \A v \in Writers : edits[v].at = "cleared" => a \notin edits[v].cleared
      BY <1>6 DEF Book!Deletes
    <2>2. \A w \in Writers : EditGood(w)'
      BY <2>1 DEF BookGood, EditGood, Edits, Book!Idle
    <2>3. QED
      BY <2>1, <2>2 DEF BookGood, ClearedApart
  <1>7. QED
    BY <1>1, <1>2, <1>3, <1>4, <1>5, <1>6, ClearsStep, SavesStep DEF Book!Next

\* A default is taken away only by the customer who deletes or edits that very
\* address: what a request clears for its own sake it replaces in the same
\* transaction, and what it leaves undone stays (serializers.py).
THEOREM DefaultKeptTheorem == AccountSpec => DefaultKept
  <1>1. ASSUME BookGood, [AccountNext]_accountVars, NEW k \in Book!AddressKinds,
               Book!Default(k) # {}, Book!Default(k)' = {}
        PROVE  Book!GivenUp(k)
    <2>1. PICK x \in Book!Default(k) : TRUE
      BY <1>1
    <2>2. x \in Addresses /\ book[x].kind = k /\ book[x].default
      BY <2>1 DEF Book!Default, Book!OfKind
    <2>3. \A a \in Addresses : ~(book'[a].kind = k /\ book'[a].default)
      BY <1>1 DEF Book!Default, Book!OfKind
    <2>4. book' # book
      BY <2>2, <2>3
    <2>5. Book!Next
      BY <1>1, <2>4 DEF AccountNext, LinksNext, BookNext, FitsNext, PostsNext, accountVars, bookVars
    <2>6. ASSUME NEW a \in Addresses, Book!Deletes(a) PROVE Book!GivenUp(k)
      <3>1. a = x
        BY <1>1, <2>2, <2>3, <2>6 DEF Book!Deletes, BookGood
      <3>2. QED
        BY <2>1, <2>6, <3>1 DEF Book!GivenUp
    <2>7. ASSUME NEW w \in Writers, Book!Saves(w) PROVE Book!GivenUp(k)
      <3> DEFINE job == edits[w]
      <3>1. job \in Edits /\ job.at = "cleared"
        BY <1>1, <2>7 DEF Book!Saves, BookGood, Book!Idle
      <3>2. book' = [a \in Addresses |->
                        IF a = job.address THEN job.row
                        ELSE IF a \in job.cleared
                        THEN [book[a] EXCEPT !.default = FALSE] ELSE book[a]]
        BY <2>4, <2>7 DEF Book!Saves, Book!Undone
      <3>3. job.address \in Addresses /\ book'[job.address] = job.row
        BY <3>1, <3>2 DEF Edits
      <3>4. CASE x = job.address
        <4>1. job.row # book[job.address]
          BY <2>2, <2>3, <3>3, <3>4
        <4>2. QED
          BY <2>1, <2>7, <3>1, <3>4, <4>1 DEF Book!GivenUp
      <3>5. CASE x # job.address
        <4>1. x \in job.cleared
          BY <2>2, <2>3, <3>2, <3>5
        <4>2. job.row.default /\ job.row.kind = k
          BY <1>1, <2>2, <3>1, <4>1 DEF BookGood, EditGood
        <4>3. QED
          BY <2>3, <3>3, <4>2
      <3>6. QED
        BY <3>4, <3>5
    <2>8. QED
      BY <2>4, <2>5, <2>6, <2>7
      DEF Book!Next, Book!BeginsCreate, Book!BeginsEdit, Book!Clears, Book!Dies,
          Book!Undone
  <1>2. ASSUME BookGood, [AccountNext]_accountVars
        PROVE  [\A k \in Book!AddressKinds :
                   Book!Default(k) # {} /\ Book!Default(k)' = {} => Book!GivenUp(k)]_bookVars
    BY <1>1, <1>2
  <1>3. QED
    BY <1>2, BookInit, BookStep, PTL DEF AccountSpec, DefaultKept, Book!DefaultKept, Book!vars, bookVars

-----------------------------------------------------------------------------
(* The fit profiles. *)

FitRows == [set : Sets, default : BOOLEAN, verified : BOOLEAN]

\* Requests under way: creates, and edits of a profile that was there.
Creates == [at : {"clear", "save"}, profile : Profiles, new : {TRUE}, row : FitRows]
Changes == [at : {"clear", "count", "snapshot", "save"}, profile : Profiles,
            new : {FALSE}, old : Sets, number : Nat, row : FitRows]

Revisions == [number : Nat, set : Sets]

FitsTyped ==
    /\ profiles \in [Profiles -> FitRows \cup {Fits!None}]
    /\ revisions \in [Profiles -> SUBSET Revisions]
    /\ \A p \in Profiles : IsFiniteSet(revisions[p])
    /\ held \in [Profiles -> SUBSET Sets]
    /\ fittings \in [Writers -> Creates \cup Changes \cup {Fits!Idle}]

Numbers(p)  == {r.number : r \in revisions[p]}
Recorded(p) == {r.set : r \in revisions[p]}

\* What HistoryComplete says, and that nothing is left of a deleted profile.
RowGood(p) ==
    p \notin reborn =>
        /\ Numbers(p) = 1..Cardinality(revisions[p])
        /\ p \notin Fits!Kept => revisions[p] = {} /\ held[p] = {}
        /\ p \notin overlapped => held[p] \ {profiles[p].set} \subseteq Recorded(p)

\* A create is alone with its profile.  An edit finds its profile there; the
\* number it counted leaves no gap; and an edit that is alone replaces the set
\* it read, once a revision records it.
JobGood(w, job, p) ==
    /\ job.new => p \notin Fits!Kept /\ Fits!Busy(p) = {w}
    /\ ~job.new /\ p \notin reborn =>
          /\ p \in Fits!Kept
          /\ job.at = "snapshot" => job.number \in 1..(Cardinality(revisions[p]) + 1)
          /\ p \notin overlapped =>
                /\ Fits!Busy(p) = {w}
                /\ job.old = profiles[p].set
                /\ job.at = "save" => job.old \in Recorded(p)

FittingGood(w) ==
    fittings[w] # Fits!Idle => JobGood(w, fittings[w], fittings[w].profile)

FitsGood ==
    /\ FitsTyped
    /\ \A p \in Profiles : RowGood(p)
    /\ \A w \in Writers : FittingGood(w)

\* The module FitProfiles counts as this one does.
LEMMA SameCount ==
    ASSUME NEW S
    PROVE  Fits!Cardinality(S) = Cardinality(S)
  BY DEF Fits!Cardinality, Cardinality

\* There are no profiles and no requests.
LEMMA FitsInit == AccountInit => FitsGood
  <1> SUFFICES ASSUME AccountInit PROVE FitsGood
    OBVIOUS
  <1>1. \A p \in Profiles : revisions[p] = {} /\ held[p] = {}
    BY DEF AccountInit, Fits!Init
  <1>2. IsFiniteSet({}) /\ Cardinality({}) = 0
    BY FS_EmptySet
  <1>3. FitsTyped
    BY <1>1, <1>2 DEF AccountInit, Fits!Init, FitsTyped
  <1>4. \A p \in Profiles : RowGood(p)
    BY <1>1, <1>2 DEF RowGood, Numbers
  <1>5. \A w \in Writers : FittingGood(w)
    BY DEF AccountInit, Fits!Init, FittingGood
  <1>6. QED
    BY <1>3, <1>4, <1>5 DEF FitsGood

\* A profile that is there has a set.
LEMMA KeptIfSet ==
    ASSUME FitsTyped, NEW p \in Profiles
    PROVE  /\ p \in Fits!Kept <=> profiles[p] \in FitRows
           /\ p \in Fits!Kept <=> profiles[p].set # 0
  <1>1. profiles[p] \in FitRows \/ profiles[p] = Fits!None
    BY DEF FitsTyped
  <1>2. ASSUME profiles[p] \in FitRows
        PROVE  profiles[p].set # 0 /\ profiles[p] # Fits!None
    BY <1>2, SetsAssumption DEF FitRows, Fits!None
  <1>3. ASSUME profiles[p] = Fits!None PROVE profiles[p].set = 0
    BY <1>3 DEF Fits!None
  <1>4. QED
    BY <1>1, <1>2, <1>3 DEF Fits!Kept

\* The step leaves of a profile all that its requests rely on.
Same(p) ==
    /\ profiles'[p].set = profiles[p].set
    /\ revisions'[p] = revisions[p] /\ held'[p] = held[p]
    /\ p \in reborn' <=> p \in reborn
    /\ p \in overlapped' <=> p \in overlapped

\* Then what is known of the profile stays true, and of a request while it has
\* the same company.
LEMMA SameKeeps ==
    ASSUME FitsTyped, FitsTyped', NEW p \in Profiles, Same(p)
    PROVE  /\ p \in Fits!Kept' <=> p \in Fits!Kept
           /\ RowGood(p) => RowGood(p)'
           /\ \A w, job : JobGood(w, job, p) /\ Fits!Busy(p)' = Fits!Busy(p)
                             => JobGood(w, job, p)'
  <1>1. p \in Fits!Kept' <=> p \in Fits!Kept
    <2>1. p \in Fits!Kept <=> profiles[p].set # 0
      BY KeptIfSet
    <2>2. p \in Fits!Kept' <=> profiles'[p].set # 0
      <3>1. profiles'[p] \in FitRows \/ profiles'[p] = Fits!None
        BY DEF FitsTyped
      <3>2. ASSUME profiles'[p] \in FitRows
            PROVE  profiles'[p].set # 0 /\ profiles'[p] # Fits!None
        BY <3>2, SetsAssumption DEF FitRows, Fits!None
      <3>3. ASSUME profiles'[p] = Fits!None PROVE profiles'[p].set = 0
        BY <3>3 DEF Fits!None
      <3>4. QED
        BY <3>1, <3>2, <3>3 DEF Fits!Kept
    <2>3. QED
      BY <2>1, <2>2 DEF Same
  <1>2. RowGood(p) => RowGood(p)'
    BY <1>1 DEF Same, RowGood, Numbers, Recorded
  <1>3. ASSUME NEW w, NEW job, JobGood(w, job, p), Fits!Busy(p)' = Fits!Busy(p)
        PROVE  JobGood(w, job, p)'
    BY <1>1, <1>3 DEF Same, JobGood, Recorded
  <1>4. QED
    BY <1>1, <1>2, <1>3

\* What a writer w that moves on to x, with profile p, leaves the others.
WriterMoves(w, x, p) ==
    /\ fittings' = [fittings EXCEPT ![w] = x]
    /\ fittings[w] = Fits!Idle \/ fittings[w].profile = p
    /\ x = Fits!Idle \/ x.profile = p

\* Who is busy with a profile, after one writer took another job.
LEMMA BusyAfter ==
    ASSUME FitsTyped, NEW w \in Writers, NEW x, NEW p \in Profiles, WriterMoves(w, x, p)
    PROVE  /\ \A v \in Writers : fittings'[v] = IF v = w THEN x ELSE fittings[v]
           /\ \A q \in Profiles \ {p} : Fits!Busy(q)' = Fits!Busy(q)
           /\ Fits!Busy(p)' = IF x = Fits!Idle THEN Fits!Busy(p) \ {w}
                              ELSE Fits!Busy(p) \cup {w}
  <1>1. \A v \in Writers : fittings'[v] = IF v = w THEN x ELSE fittings[v]
    BY DEF FitsTyped, WriterMoves
  <1>2. \A q \in Profiles \ {p} : Fits!Busy(q)' = Fits!Busy(q)
    BY <1>1 DEF WriterMoves, Fits!Busy
  <1>3. Fits!Busy(p)' = IF x = Fits!Idle THEN Fits!Busy(p) \ {w}
                       ELSE Fits!Busy(p) \cup {w}
    BY <1>1 DEF WriterMoves, Fits!Busy
  <1>4. QED
    BY <1>1, <1>2, <1>3

\* What a request is known by.
LEMMA FittingIf ==
    ASSUME NEW v \in Writers, NEW job, NEW p, fittings'[v] = job, job.profile = p,
           JobGood(v, job, p)'
    PROVE  FittingGood(v)'
  BY DEF FittingGood, JobGood

\* A step of one writer has to show its own profile and the requests there.
LEMMA OneProfile ==
    ASSUME FitsGood, FitsTyped', NEW w \in Writers, NEW x, NEW p \in Profiles,
           WriterMoves(w, x, p),
           \A q \in Profiles \ {p} : Same(q),
           RowGood(p)',
           x # Fits!Idle => JobGood(w, x, p)',
           \A v \in Fits!Busy(p) \ {w}, job \in Creates \cup Changes :
               job = fittings[v] => JobGood(v, job, p)'
    PROVE  FitsGood'
  <1>1. \A v \in Writers : fittings'[v] = IF v = w THEN x ELSE fittings[v]
    BY BusyAfter DEF FitsGood
  <1>2. \A q \in Profiles \ {p} : Fits!Busy(q)' = Fits!Busy(q)
    BY BusyAfter DEF FitsGood
  <1>3. \A q \in Profiles : RowGood(q)'
    BY SameKeeps DEF FitsGood
  <1>4. ASSUME NEW v \in Writers PROVE FittingGood(v)'
    <2>1. CASE fittings'[v] = Fits!Idle
      BY <2>1 DEF FittingGood
    <2>2. CASE v = w /\ x # Fits!Idle
      <3>1. fittings'[v] = x /\ x.profile = p
        BY <1>1, <2>2 DEF WriterMoves
      <3>2. QED
        BY <2>2, <3>1, FittingIf
    <2>3. CASE v # w /\ fittings'[v] # Fits!Idle
      <3> PICK job \in Creates \cup Changes : job = fittings[v]
        BY <1>1, <2>3 DEF FitsGood, FitsTyped
      <3>1. PICK q \in Profiles : q = job.profile
        BY DEF Creates, Changes
      <3>2. fittings'[v] = job /\ fittings[v] # Fits!Idle
        BY <1>1, <2>3
      <3>3. JobGood(v, job, q)
        BY <3>1, <3>2 DEF FitsGood, FittingGood
      <3>4. JobGood(v, job, q)'
        <4>1. CASE q = p
          <5>1. v \in Fits!Busy(p) \ {w}
            BY <2>3, <3>1, <3>2, <4>1 DEF Fits!Busy
          <5>2. QED
            BY <4>1, <5>1
        <4>2. CASE q # p
          BY <1>2, <3>3, <4>2, SameKeeps DEF FitsGood
        <4>3. QED
          BY <4>1, <4>2
      <3>5. QED
        BY <3>1, <3>2, <3>4, FittingIf
    <2>4. QED
      BY <1>1, <2>1, <2>2, <2>3
  <1>5. QED
    BY <1>3, <1>4 DEF FitsGood

\* A request under way, and what is known of it.
LEMMA AtWork ==
    ASSUME FitsGood, NEW w \in Writers, fittings[w] # Fits!Idle
    PROVE  /\ fittings[w] \in Creates \cup Changes
           /\ fittings[w].profile \in Profiles
           /\ w \in Fits!Busy(fittings[w].profile)
           /\ JobGood(w, fittings[w], fittings[w].profile)
  <1>1. fittings[w] \in Creates \cup Changes
    BY DEF FitsGood, FitsTyped
  <1>2. fittings[w].profile \in Profiles
    BY <1>1 DEF Creates, Changes
  <1>3. QED
    BY <1>1, <1>2 DEF FitsGood, FittingGood, Fits!Busy

\* A request in company is an edit of a profile whose edits overlapped.
LEMMA InCompany ==
    ASSUME FitsGood, NEW p \in Profiles, NEW v \in Fits!Busy(p),
           NEW w \in Fits!Busy(p) \ {v}, NEW job, job = fittings[v]
    PROVE  /\ ~job.new
           /\ p \notin reborn =>
                 /\ p \in Fits!Kept /\ p \in overlapped
                 /\ job.at = "snapshot" =>
                       job.number \in 1..(Cardinality(revisions[p]) + 1)
  <1>1. v \in Writers /\ job # Fits!Idle /\ job.profile = p
    BY DEF Fits!Busy
  <1>2. JobGood(v, job, p)
    BY <1>1, AtWork
  <1>3. Fits!Busy(p) # {v}
    OBVIOUS
  <1>4. QED
    BY <1>2, <1>3 DEF JobGood

\* A step of a request that is under way: the others are edits in its company,
\* and stay good when the profile and its revisions stay.
LEMMA OwnStep ==
    ASSUME FitsGood, FitsTyped', NEW w \in Writers, NEW x, NEW p \in Profiles,
           WriterMoves(w, x, p), fittings[w] # Fits!Idle,
           \A q \in Profiles \ {p} : Same(q),
           UNCHANGED <<reborn, overlapped>>,
           p \in Fits!Kept => p \in Fits!Kept',
           revisions[p] \subseteq revisions'[p],
           RowGood(p)',
           x # Fits!Idle => JobGood(w, x, p)'
    PROVE  FitsGood'
  <1>1. w \in Fits!Busy(p)
    BY AtWork DEF WriterMoves
  <1>2. /\ Cardinality(revisions[p]) \in Nat /\ Cardinality(revisions'[p]) \in Nat
        /\ Cardinality(revisions[p]) <= Cardinality(revisions'[p])
    BY FS_CardinalityType, FS_Subset DEF FitsGood, FitsTyped
  <1>3. ASSUME NEW v \in Fits!Busy(p) \ {w}, NEW job \in Creates \cup Changes,
               job = fittings[v]
        PROVE  JobGood(v, job, p)'
    <2>1. /\ ~job.new
          /\ p \notin reborn =>
                /\ p \in Fits!Kept /\ p \in overlapped
                /\ job.at = "snapshot" =>
                      job.number \in 1..(Cardinality(revisions[p]) + 1)
      BY <1>1, <1>3, InCompany
    <2>2. \A n : n \in 1..(Cardinality(revisions[p]) + 1) =>
                 n \in 1..(Cardinality(revisions'[p]) + 1)
      BY <1>2
    <2>3. QED
      BY <2>1, <2>2 DEF JobGood
  <1>4. QED
    BY <1>3, OneProfile

\* A request that ends, answered or not, and changed no profile.
LEMMA EndsStep ==
    ASSUME FitsGood, NEW w \in Writers, fittings[w] # Fits!Idle, Fits!Ends(w),
           UNCHANGED <<profiles, revisions, held, overlapped, reborn>>
    PROVE  FitsGood'
  <1> PICK p \in Profiles : p = fittings[w].profile
    BY AtWork
  <1>1. WriterMoves(w, Fits!Idle, p)
    BY DEF WriterMoves, Fits!Ends
  <1>2. FitsTyped'
    BY DEF FitsGood, FitsTyped, Fits!Ends
  <1>3. \A q \in Profiles : Same(q)
    BY DEF Same
  <1>4. RowGood(p)' /\ (p \in Fits!Kept => p \in Fits!Kept')
    BY <1>2, <1>3, SameKeeps DEF FitsGood
  <1> PICK idle : idle = Fits!Idle
    OBVIOUS
  <1>5. QED
    BY <1>1, <1>2, <1>3, <1>4, OwnStep

\* A create begins alone.
LEMMA CreateBeginsStep ==
    ASSUME FitsGood, NEW w \in Writers, NEW p \in Profiles, NEW s \in Sets,
           NEW asked \in BOOLEAN, Fits!BeginsCreate(w, p, s, asked)
    PROVE  FitsGood'
  <1> PICK x : x = [at |-> IF asked THEN "clear" ELSE "save", profile |-> p,
                    new |-> TRUE,
                    row |-> [set |-> s, default |-> asked \/ Fits!Kept = {},
                             verified |-> FALSE]]
    OBVIOUS
  <1>1. /\ x \in Creates /\ x.profile = p /\ x.new
        /\ x # Fits!Idle
    BY DEF Creates, FitRows, Fits!Idle
  <1>2. /\ fittings[w] = Fits!Idle /\ p \notin Fits!Kept /\ Fits!Busy(p) = {}
        /\ fittings' = [fittings EXCEPT ![w] = x]
        /\ UNCHANGED <<profiles, revisions, held, overlapped, reborn>>
    BY DEF Fits!BeginsCreate
  <1>3. WriterMoves(w, x, p)
    BY <1>1, <1>2 DEF WriterMoves
  <1>4. FitsTyped'
    BY <1>1, <1>2 DEF FitsGood, FitsTyped
  <1>5. \A q \in Profiles : Same(q)
    BY <1>2 DEF Same
  <1>6. RowGood(p)' /\ ~(p \in Fits!Kept')
    BY <1>2, <1>4, <1>5, SameKeeps DEF FitsGood
  <1>7. Fits!Busy(p)' = {w}
    BY <1>1, <1>2, <1>3, BusyAfter DEF FitsGood
  <1>8. JobGood(w, x, p)'
    BY <1>1, <1>6, <1>7 DEF JobGood
  <1>9. QED
    BY <1>2, <1>3, <1>4, <1>5, <1>6, <1>8, OneProfile

\* An edit begins, alone or as one that overlaps.
LEMMA ChangeBeginsStep ==
    ASSUME FitsGood, NEW w \in Writers, NEW p \in Profiles, NEW s \in Sets,
           NEW asked \in {"yes", "no", "same"}, Fits!BeginsEdit(w, p, s, asked)
    PROVE  FitsGood'
  <1> PICK row : row = [profiles[p] EXCEPT !.set = s,
                            !.default = IF asked = "same" THEN @ ELSE asked = "yes"]
    OBVIOUS
  <1> PICK x : x = [at |-> IF asked = "yes" THEN "clear" ELSE "count", profile |-> p,
                    new |-> FALSE, old |-> profiles[p].set, number |-> 0, row |-> row]
    OBVIOUS
  <1>1. /\ fittings[w] = Fits!Idle /\ p \in Fits!Kept
        /\ fittings' = [fittings EXCEPT ![w] = x]
        /\ UNCHANGED <<profiles, revisions, held, reborn>>
        /\ overlapped' = IF Fits!Busy(p) = {} THEN overlapped ELSE overlapped \cup {p}
    BY DEF Fits!BeginsEdit
  <1>2. profiles[p] \in FitRows
    BY <1>1, KeptIfSet DEF FitsGood
  <1>3. row \in FitRows /\ profiles[p].set \in Sets
    BY <1>2 DEF FitRows
  <1>4. /\ x \in Changes /\ x.profile = p /\ ~x.new /\ x.old = profiles[p].set
        /\ x.at \in {"clear", "count"} /\ x # Fits!Idle
    BY <1>3 DEF Changes, Fits!Idle
  <1>5. WriterMoves(w, x, p)
    BY <1>1, <1>4 DEF WriterMoves
  <1>6. FitsTyped'
    BY <1>1, <1>4 DEF FitsGood, FitsTyped
  <1>7. \A q \in Profiles \ {p} : Same(q)
    BY <1>1 DEF Same
  <1>8. p \in Fits!Kept'
    BY <1>1 DEF Fits!Kept
  <1>9. RowGood(p)'
    BY <1>1, <1>8 DEF FitsGood, RowGood, Numbers, Recorded
  <1>10. Fits!Busy(p)' = Fits!Busy(p) \cup {w}
    BY <1>4, <1>5, BusyAfter DEF FitsGood
  <1>11. JobGood(w, x, p)'
    BY <1>1, <1>4, <1>8, <1>10 DEF JobGood
  <1>12. ASSUME NEW v \in Fits!Busy(p) \ {w}, NEW job \in Creates \cup Changes,
                job = fittings[v]
         PROVE  JobGood(v, job, p)'
    <2>1. v \in Writers /\ job # Fits!Idle /\ job.profile = p
      BY <1>12 DEF Fits!Busy
    <2>2. JobGood(v, job, p)
      BY <1>12, <2>1, AtWork
    <2>3. p \in overlapped'
      BY <1>1, <1>12
    <2>4. QED
      BY <1>1, <1>8, <2>2, <2>3 DEF JobGood
  <1>13. QED
    BY <1>5, <1>6, <1>7, <1>9, <1>11, <1>12, OneProfile

\* Clearing the other default changes nothing an edit relies on.
LEMMA FitClearsStep ==
    ASSUME FitsGood, NEW w \in Writers, Fits!Clears(w)
    PROVE  FitsGood'
  <1>1. fittings[w].at = "clear" /\ fittings[w] # Fits!Idle
    BY DEF Fits!Clears, Fits!Idle
  <1> PICK job \in Creates \cup Changes : job = fittings[w]
    BY <1>1, AtWork
  <1> PICK p \in Profiles : p = job.profile
    BY <1>1, AtWork
  <1> PICK x : x = [job EXCEPT !.at = IF job.new THEN "save" ELSE "count"]
    OBVIOUS
  <1>2. /\ fittings' = [fittings EXCEPT ![w] = x]
        /\ UNCHANGED <<revisions, held, overlapped, reborn>>
        /\ profiles' = [q \in Profiles |->
              IF q = p THEN profiles[q] ELSE [profiles[q] EXCEPT !.default = FALSE]]
    BY DEF Fits!Clears, Fits!Step, FitsGood, FitsTyped
  <1>3. /\ x \in Creates \cup Changes /\ x.profile = p /\ x.new = job.new
        /\ x.at = IF job.new THEN "save" ELSE "count"
        /\ ~job.new => x.old = job.old
        /\ x # Fits!Idle
    BY <1>1 DEF Creates, Changes, Fits!Idle
  <1>4. WriterMoves(w, x, p)
    BY <1>2, <1>3 DEF WriterMoves
  <1>5. \A q \in Profiles : profiles'[q] \in FitRows \cup {Fits!None}
    <2>1. ASSUME NEW q \in Profiles
          PROVE  [profiles[q] EXCEPT !.default = FALSE] \in FitRows \cup {Fits!None}
      <3>1. profiles[q] \in FitRows \/ profiles[q] = Fits!None
        BY DEF FitsGood, FitsTyped
      <3>2. ASSUME profiles[q] \in FitRows
            PROVE  [profiles[q] EXCEPT !.default = FALSE] \in FitRows
        BY <3>2 DEF FitRows
      <3>3. ASSUME profiles[q] = Fits!None
            PROVE  [profiles[q] EXCEPT !.default = FALSE] = Fits!None
        <4> PICK none : none = profiles[q]
          OBVIOUS
        <4>1. none = Fits!None /\ none.default = FALSE
          BY <3>3 DEF Fits!None
        <4>2. [none EXCEPT !.default = FALSE] = none
          BY <4>1 DEF Fits!None
        <4>3. QED
          BY <4>1, <4>2
      <3>4. QED
        BY <3>1, <3>2, <3>3
    <2>2. QED
      BY <1>2, <2>1 DEF FitsGood, FitsTyped
  <1>6. FitsTyped'
    BY <1>2, <1>3, <1>5 DEF FitsGood, FitsTyped
  <1>7. \A q \in Profiles : Same(q)
    <2>1. ASSUME NEW q \in Profiles PROVE profiles'[q].set = profiles[q].set
      <3>1. profiles[q] \in FitRows \/ profiles[q] = Fits!None
        BY DEF FitsGood, FitsTyped
      <3>2. QED
        BY <1>2, <3>1 DEF FitRows, Fits!None
    <2>2. QED
      BY <1>2, <2>1 DEF Same
  <1>8. RowGood(p)' /\ (p \in Fits!Kept' <=> p \in Fits!Kept)
    BY <1>6, <1>7, SameKeeps DEF FitsGood
  <1>9. JobGood(w, x, p)'
    <2>1. JobGood(w, job, p) /\ w \in Fits!Busy(p)
      BY <1>1, AtWork
    <2>2. Fits!Busy(p)' = Fits!Busy(p)
      BY <1>3, <1>4, <2>1, BusyAfter DEF FitsGood
    <2>3. profiles'[p].set = profiles[p].set
      BY <1>7 DEF Same
    <2>4. QED
      BY <1>2, <1>3, <1>8, <2>1, <2>2, <2>3 DEF JobGood
  <1>10. QED
    BY <1>1, <1>2, <1>4, <1>6, <1>7, <1>8, <1>9, OwnStep

\* The number counted is the next one.
LEMMA CountsStep ==
    ASSUME FitsGood, NEW w \in Writers, Fits!Counts(w)
    PROVE  FitsGood'
  <1>1. fittings[w].at = "count" /\ fittings[w] # Fits!Idle
    BY DEF Fits!Counts, Fits!Idle
  <1> PICK job \in Changes : job = fittings[w]
    BY <1>1, AtWork DEF Creates
  <1> PICK p \in Profiles : p = job.profile
    BY <1>1, AtWork
  <1> PICK n \in Nat : n = Cardinality(revisions[p]) + 1
    BY FS_CardinalityType DEF FitsGood, FitsTyped
  <1> PICK x : x = [job EXCEPT !.at = "snapshot", !.number = n]
    OBVIOUS
  <1>2. /\ fittings' = [fittings EXCEPT ![w] = x]
        /\ UNCHANGED <<profiles, revisions, held, overlapped, reborn>>
    BY SameCount DEF Fits!Counts, FitsGood, FitsTyped
  <1>3. /\ x \in Changes /\ x.profile = p /\ ~x.new /\ x.at = "snapshot"
        /\ x.number = n /\ x.old = job.old /\ x # Fits!Idle
    BY DEF Changes, Fits!Idle
  <1>4. WriterMoves(w, x, p)
    BY <1>2, <1>3 DEF WriterMoves
  <1>5. FitsTyped'
    BY <1>2, <1>3 DEF FitsGood, FitsTyped
  <1>6. \A q \in Profiles : Same(q)
    BY <1>2 DEF Same
  <1>7. RowGood(p)' /\ (p \in Fits!Kept' <=> p \in Fits!Kept)
    BY <1>5, <1>6, SameKeeps DEF FitsGood
  <1>8. JobGood(w, x, p)'
    <2>1. JobGood(w, job, p) /\ w \in Fits!Busy(p) /\ ~job.new
      BY <1>1, AtWork DEF Changes
    <2>2. Fits!Busy(p)' = Fits!Busy(p)
      BY <1>3, <1>4, <2>1, BusyAfter DEF FitsGood
    <2>3. n \in 1..(Cardinality(revisions[p]) + 1)
      BY FS_CardinalityType DEF FitsGood, FitsTyped
    <2>4. QED
      BY <1>2, <1>3, <1>7, <2>1, <2>2, <2>3 DEF JobGood
  <1>9. QED
    BY <1>1, <1>2, <1>4, <1>5, <1>6, <1>7, <1>8, OwnStep

\* One more revision continues the numbering, when its number was counted
\* without a gap and is not taken.
LEMMA NextNumber ==
    ASSUME NEW R, IsFiniteSet(R), {r.number : r \in R} = 1..Cardinality(R), NEW r0,
           r0.number \in 1..(Cardinality(R) + 1), \A r \in R : r.number # r0.number
    PROVE  {r.number : r \in R \cup {r0}} = 1..Cardinality(R \cup {r0})
  <1>1. Cardinality(R) \in Nat
    BY FS_CardinalityType
  <1>2. r0.number = Cardinality(R) + 1
    <2>1. r0.number \notin {r.number : r \in R}
      OBVIOUS
    <2>2. QED
      BY <1>1, <2>1
  <1>3. Cardinality(R \cup {r0}) = Cardinality(R) + 1
    BY FS_AddElement
  <1>4. {r.number : r \in R \cup {r0}} = {r.number : r \in R} \cup {r0.number}
    OBVIOUS
  <1>5. 1..(Cardinality(R) + 1) = 1..Cardinality(R) \cup {Cardinality(R) + 1}
    BY <1>1
  <1>6. QED
    BY <1>2, <1>3, <1>4, <1>5

\* A snapshot records the set the edit read, or ends the request.
LEMMA SnapshotsStep ==
    ASSUME FitsGood, NEW w \in Writers, Fits!Snapshots(w)
    PROVE  FitsGood'
  <1>1. fittings[w].at = "snapshot" /\ fittings[w] # Fits!Idle
    BY DEF Fits!Snapshots, Fits!Idle
  <1> PICK job \in Changes : job = fittings[w]
    BY <1>1, AtWork DEF Creates
  <1> PICK p \in Profiles : p = job.profile
    BY <1>1, AtWork
  <1>2. UNCHANGED <<profiles, held, overlapped, reborn>>
    BY DEF Fits!Snapshots
  <1>3. CASE p \notin Fits!Kept \/ \E r \in revisions[p] : r.number = job.number
    BY <1>1, <1>2, <1>3, EndsStep DEF Fits!Snapshots
  <1>4. CASE ~(p \notin Fits!Kept \/ \E r \in revisions[p] : r.number = job.number)
    <2> PICK r0 \in Revisions : r0 = [number |-> job.number, set |-> job.old]
      BY DEF Changes, Revisions
    <2> PICK x : x = [job EXCEPT !.at = "save"]
      OBVIOUS
    <2>1. /\ fittings' = [fittings EXCEPT ![w] = x]
          /\ revisions' = [revisions EXCEPT ![p] = @ \cup {r0}]
      BY <1>4 DEF Fits!Snapshots, Fits!Step, Fits!Snapshot, FitsGood, FitsTyped
    <2>2. /\ x \in Changes /\ x.profile = p /\ ~x.new /\ x.at = "save"
          /\ x.old = job.old /\ x # Fits!Idle
      BY DEF Changes, Fits!Idle
    <2>3. WriterMoves(w, x, p)
      BY <2>1, <2>2 DEF WriterMoves
    <2>4. /\ revisions'[p] = revisions[p] \cup {r0}
          /\ \A q \in Profiles \ {p} : revisions'[q] = revisions[q]
      BY <2>1 DEF FitsGood, FitsTyped
    <2>5. FitsTyped'
      <3>1. \A q \in Profiles : IsFiniteSet(revisions'[q])
        <4>1. IsFiniteSet(revisions[p] \cup {r0})
          BY FS_AddElement DEF FitsGood, FitsTyped
        <4>2. QED
          BY <2>4, <4>1 DEF FitsGood, FitsTyped
      <3>2. QED
        BY <1>2, <2>1, <2>2, <3>1 DEF FitsGood, FitsTyped
    <2>6. \A q \in Profiles \ {p} : Same(q)
      BY <1>2, <2>4 DEF Same
    <2>7. p \in Fits!Kept /\ p \in Fits!Kept'
      BY <1>2, <1>4 DEF Fits!Kept
    <2>8. JobGood(w, job, p) /\ w \in Fits!Busy(p) /\ ~job.new
      BY <1>1, AtWork DEF Changes
    <2>9. RowGood(p)'
      <3>1. SUFFICES ASSUME p \notin reborn PROVE RowGood(p)'
        BY <1>2 DEF RowGood
      <3>2. /\ IsFiniteSet(revisions[p])
            /\ {r.number : r \in revisions[p]} = 1..Cardinality(revisions[p])
        BY <3>1 DEF FitsGood, FitsTyped, RowGood, Numbers
      <3>3. /\ r0.number \in 1..(Cardinality(revisions[p]) + 1)
            /\ \A r \in revisions[p] : r.number # r0.number
        BY <1>1, <1>4, <2>8, <3>1 DEF JobGood
      <3>4. {r.number : r \in revisions[p] \cup {r0}}
                = 1..Cardinality(revisions[p] \cup {r0})
        BY <3>2, <3>3, NextNumber
      <3>5. p \notin overlapped => held[p] \ {profiles[p].set} \subseteq Recorded(p)'
        BY <2>4, <3>1 DEF FitsGood, RowGood, Recorded
      <3>6. QED
        BY <1>2, <2>4, <2>7, <3>4, <3>5 DEF RowGood, Numbers
    <2>10. JobGood(w, x, p)'
      <3>1. Fits!Busy(p)' = Fits!Busy(p)
        BY <2>2, <2>3, <2>8, BusyAfter DEF FitsGood
      <3>2. job.old \in Recorded(p)'
        BY <2>4 DEF Recorded
      <3>3. QED
        BY <1>2, <2>2, <2>7, <2>8, <3>1, <3>2 DEF JobGood
    <2>11. QED
      BY <1>1, <1>2, <2>2, <2>3, <2>4, <2>5, <2>6, <2>7, <2>9, <2>10, OwnStep
  <1>5. QED
    BY <1>3, <1>4

\* The set a save replaces is on record, unless its edit was overlapped.
LEMMA FitSavesStep ==
    ASSUME FitsGood, NEW w \in Writers, Fits!Saves(w)
    PROVE  FitsGood'
  <1>1. fittings[w].at = "save" /\ fittings[w] # Fits!Idle
    BY DEF Fits!Saves, Fits!Idle
  <1> PICK job \in Creates \cup Changes : job = fittings[w]
    BY <1>1, AtWork
  <1> PICK p \in Profiles : p = job.profile
    BY <1>1, AtWork
  <1>2. Fits!Ends(w) /\ UNCHANGED <<revisions, overlapped, reborn>>
    BY DEF Fits!Saves
  <1>3. CASE UNCHANGED <<profiles, held>>
    BY <1>1, <1>2, <1>3, EndsStep
  <1>4. CASE /\ profiles' = [profiles EXCEPT ![p] = job.row]
             /\ held' = [held EXCEPT ![p] = @ \cup {job.row.set}]
    <2>1. job.row \in FitRows /\ job.row.set \in Sets
      BY DEF Creates, Changes, FitRows
    <2>2. /\ profiles'[p] = job.row /\ held'[p] = held[p] \cup {job.row.set}
          /\ \A q \in Profiles \ {p} : profiles'[q] = profiles[q] /\ held'[q] = held[q]
      BY <1>4 DEF FitsGood, FitsTyped
    <2>3. FitsTyped'
      BY <1>2, <1>4, <2>1 DEF FitsGood, FitsTyped, Fits!Ends
    <2>4. WriterMoves(w, Fits!Idle, p)
      BY <1>2 DEF WriterMoves, Fits!Ends
    <2>5. \A q \in Profiles \ {p} : Same(q)
      BY <1>2, <2>2 DEF Same
    <2>6. p \in Fits!Kept'
      <3>1. job.row # Fits!None
        <4>1. Fits!None.set = 0
          BY DEF Fits!None
        <4>2. QED
          BY <2>1, <4>1, SetsAssumption
      <3>2. QED
        BY <2>2, <3>1 DEF Fits!Kept
    <2>7. RowGood(p)'
      <3>1. JobGood(w, job, p) /\ RowGood(p)
        BY <1>1, AtWork DEF FitsGood
      <3>2. SUFFICES ASSUME p \notin reborn PROVE RowGood(p)'
        BY <1>2 DEF RowGood
      <3>3. Numbers(p)' = 1..Cardinality(revisions'[p])
        BY <1>2, <3>1, <3>2 DEF RowGood, Numbers
      <3>4. ASSUME p \notin overlapped
            PROVE  held'[p] \ {profiles'[p].set} \subseteq Recorded(p)
        <4>1. held'[p] \ {profiles'[p].set} \subseteq held[p]
          BY <2>2
        <4>2. CASE job.new
          BY <3>1, <3>2, <4>1, <4>2 DEF JobGood, RowGood
        <4>3. CASE ~job.new
          <5>1. job.old = profiles[p].set /\ job.old \in Recorded(p)
            BY <1>1, <3>1, <3>2, <3>4, <4>3 DEF JobGood
          <5>2. held[p] \ {profiles[p].set} \subseteq Recorded(p)
            BY <3>1, <3>2, <3>4 DEF RowGood
          <5>3. QED
            BY <4>1, <5>1, <5>2
        <4>4. QED
          BY <4>2, <4>3
      <3>5. Recorded(p)' = Recorded(p)
        BY <1>2 DEF Recorded
      <3>6. QED
        BY <1>2, <2>6, <3>3, <3>4, <3>5 DEF RowGood
    <2> PICK idle : idle = Fits!Idle
      OBVIOUS
    <2>8. QED
      BY <1>1, <1>2, <2>3, <2>4, <2>5, <2>6, <2>7, OwnStep
  <1>5. QED
    BY <1>3, <1>4 DEF Fits!Saves

\* An attestation changes no measurement.
LEMMA VerifiesStep ==
    ASSUME FitsGood, NEW p \in Profiles, Fits!Verifies(p)
    PROVE  FitsGood'
  <1>1. /\ p \in Fits!Kept /\ profiles' = [profiles EXCEPT ![p].verified = TRUE]
        /\ UNCHANGED <<revisions, fittings, held, overlapped, reborn>>
    BY DEF Fits!Verifies
  <1> PICK row \in FitRows : row = profiles[p]
    BY <1>1, KeptIfSet DEF FitsGood
  <1>2. /\ profiles'[p] = [row EXCEPT !.verified = TRUE]
        /\ \A q \in Profiles \ {p} : profiles'[q] = profiles[q]
    BY <1>1 DEF FitsGood, FitsTyped
  <1>3. profiles'[p] \in FitRows /\ profiles'[p].set = row.set
    BY <1>2 DEF FitRows
  <1>4. FitsTyped'
    BY <1>1, <1>2, <1>3 DEF FitsGood, FitsTyped
  <1>5. \A q \in Profiles : Same(q)
    BY <1>1, <1>2, <1>3 DEF Same
  <1>6. \A q \in Profiles : RowGood(q)'
    BY <1>4, <1>5, SameKeeps DEF FitsGood
  <1>7. ASSUME NEW v \in Writers PROVE FittingGood(v)'
    <2>1. CASE fittings[v] = Fits!Idle
      BY <1>1, <2>1 DEF FittingGood
    <2>2. CASE fittings[v] # Fits!Idle
      <3> PICK job \in Creates \cup Changes : job = fittings[v]
        BY <2>2, AtWork
      <3> PICK q \in Profiles : q = job.profile
        BY <2>2, AtWork
      <3>1. JobGood(v, job, q) /\ Fits!Busy(q)' = Fits!Busy(q)
        BY <1>1, <2>2, AtWork DEF Fits!Busy
      <3>2. JobGood(v, job, q)'
        BY <1>4, <1>5, <3>1, SameKeeps DEF FitsGood
      <3>3. QED
        BY <1>1, <3>2, FittingIf
    <2>3. QED
      BY <2>1, <2>2
  <1>8. QED
    BY <1>4, <1>6, <1>7 DEF FitsGood

\* A profile deleted with an edit under way is left out from then on.
LEMMA ProfileDeletedStep ==
    ASSUME FitsGood, NEW p \in Profiles, Fits!Deletes(p)
    PROVE  FitsGood'
  <1>1. /\ p \in Fits!Kept /\ profiles' = [profiles EXCEPT ![p] = Fits!None]
        /\ revisions' = [revisions EXCEPT ![p] = {}]
        /\ held' = [held EXCEPT ![p] = {}]
        /\ overlapped' = overlapped \ {p}
        /\ reborn' = IF Fits!Busy(p) = {} THEN reborn ELSE reborn \cup {p}
        /\ UNCHANGED fittings
    BY DEF Fits!Deletes
  <1>2. /\ profiles'[p] = Fits!None /\ revisions'[p] = {} /\ held'[p] = {}
        /\ \A q \in Profiles \ {p} : Same(q)
    BY <1>1 DEF FitsGood, FitsTyped, Same
  <1>3. IsFiniteSet({}) /\ Cardinality({}) = 0
    BY FS_EmptySet
  <1>4. FitsTyped'
    <2>1. \A q \in Profiles : IsFiniteSet(revisions'[q])
      BY <1>1, <1>3 DEF FitsGood, FitsTyped
    <2>2. QED
      BY <1>1, <2>1 DEF FitsGood, FitsTyped
  <1>5. RowGood(p)'
    BY <1>2, <1>3 DEF RowGood, Numbers
  <1>6. \A q \in Profiles : RowGood(q)'
    BY <1>2, <1>4, <1>5, SameKeeps DEF FitsGood
  <1>7. ASSUME NEW v \in Writers PROVE FittingGood(v)'
    <2>1. CASE fittings[v] = Fits!Idle
      BY <1>1, <2>1 DEF FittingGood
    <2>2. CASE fittings[v] # Fits!Idle
      <3> PICK job \in Creates \cup Changes : job = fittings[v]
        BY <2>2, AtWork
      <3> PICK q \in Profiles : q = job.profile
        BY <2>2, AtWork
      <3>1. /\ JobGood(v, job, q) /\ v \in Fits!Busy(q)
            /\ Fits!Busy(q)' = Fits!Busy(q)
        BY <1>1, <2>2, AtWork DEF Fits!Busy
      <3>2. JobGood(v, job, q)'
        <4>1. CASE q = p
          <5>1. q \in reborn' /\ ~job.new
            BY <1>1, <3>1, <4>1 DEF JobGood
          <5>2. QED
            BY <5>1 DEF JobGood
        <4>2. CASE q # p
          BY <1>2, <1>4, <3>1, <4>2, SameKeeps DEF FitsGood
        <4>3. QED
          BY <4>1, <4>2
      <3>3. QED
        BY <1>1, <3>2, FittingIf
    <2>3. QED
      BY <2>1, <2>2
  <1>8. QED
    BY <1>4, <1>6, <1>7 DEF FitsGood

\* Every step keeps what is known of the profiles.
LEMMA FitsStep == FitsGood /\ [AccountNext]_accountVars => FitsGood'
  <1> SUFFICES ASSUME FitsGood, [AccountNext]_accountVars PROVE FitsGood'
    OBVIOUS
  <1>1. Fits!Next \/ UNCHANGED fitsVars
    BY DEF AccountNext, LinksNext, BookNext, FitsNext, PostsNext, accountVars
  <1>2. CASE UNCHANGED fitsVars
    BY <1>2 DEF fitsVars, FitsGood, FitsTyped, RowGood, Numbers, Recorded, Fits!Kept,
                FittingGood, JobGood, Fits!Busy
  <1>3. ASSUME NEW w \in Writers, Fits!Dies(w) PROVE FitsGood'
    BY <1>3, EndsStep DEF Fits!Dies
  <1>4. QED
    BY <1>1, <1>2, <1>3, CreateBeginsStep, ChangeBeginsStep, FitClearsStep, CountsStep,
       SnapshotsStep, FitSavesStep, VerifiesStep, ProfileDeletedStep DEF Fits!Next

\* The history of a fit profile is numbered without a gap, and complete unless
\* two of its edits overlapped (models.py, FitProfileRevision; serializers.py).
THEOREM HistoryTheorem == AccountSpec => []HistoryComplete
  <1>1. FitsGood => HistoryComplete
    <2> SUFFICES ASSUME FitsGood, NEW p \in Fits!Kept \ reborn
                 PROVE  /\ Numbers(p) = 1..Cardinality(revisions[p])
                        /\ p \notin overlapped =>
                              held[p] \ {profiles[p].set} \subseteq Recorded(p)
      BY SameCount DEF HistoryComplete, Fits!HistoryComplete, Numbers, Recorded
    <2>1. p \in Profiles
      BY DEF Fits!Kept
    <2>2. QED
      BY <2>1 DEF FitsGood, RowGood
  <1>2. QED
    BY <1>1, FitsInit, FitsStep, PTL DEF AccountSpec

-----------------------------------------------------------------------------
(* Reviews.                                                                *)

PostRows == [author : Users, product : Products, line : Orders \cup {Posts!NoLine},
             status : {"pending"}]

\* The line a row names is one its author bought and was delivered, and the
\* product it is about is on it.
Bought(row) ==
    row.line # Posts!NoLine => Buyer[row.line] = row.author /\ row.line \in delivered
AsBought(row) == row.line # Posts!NoLine => row.product \in Content[row.line]

PostGood(job) ==
    /\ job.at = "query" => job.author \in Users /\ job.product \in Products
    /\ job.at = "insert" => job.row \in PostRows /\ Bought(job.row) /\ AsBought(job.row)
    /\ job.at = "save" =>
          /\ job.row \in PostRows /\ Bought(job.row) /\ job.review \in DOMAIN reviews
          /\ job.moves \/ job.review \in moved \/ AsBought(job.row)

ReviewGood(r) ==
    /\ reviews[r] \in PostRows /\ Bought(reviews[r])
    /\ r \in moved \/ AsBought(reviews[r])

PostsGood ==
    /\ reviews \in Seq(PostRows \cup {Posts!None})
    /\ orders \in [Orders -> Posts!Statuses] /\ posts = [w \in Writers |-> posts[w]]
    /\ \A o \in Orders : orders[o] \in {"delivered", "return_requested"} => o \in delivered
    /\ \A w \in Writers : PostGood(posts[w])
    /\ \A r \in Posts!Kept : ReviewGood(r)

\* Nothing is reviewed at first, and nothing delivered.
LEMMA PostsInit == Posts!Init => PostsGood
  BY DEF Posts!Init, PostsGood, PostGood, Posts!Idle, Posts!Kept, Posts!Statuses

\* A writer alone moves on.
LEMMA PostStep ==
    ASSUME PostsGood, NEW w \in Writers, NEW job, PostGood(job),
           posts' = [posts EXCEPT ![w] = job],
           UNCHANGED <<reviews, orders, delivered, moved>>
    PROVE  PostsGood'
  <1>1. \A v \in Writers : posts'[v] = posts[v] \/ posts'[v] = job
    BY DEF PostsGood
  <1>2. \A v \in Writers : PostGood(posts[v])'
    BY <1>1 DEF PostsGood, PostGood, Bought, AsBought
  <1>3. \A r \in Posts!Kept' : ReviewGood(r)'
    BY DEF PostsGood, Posts!Kept, ReviewGood, Bought, AsBought
  <1>4. QED
    BY <1>2, <1>3 DEF PostsGood

\* A purchase that is found was delivered.
LEMMA QueriesStep ==
    ASSUME PostsGood, NEW w \in Writers, Posts!Queries(w)
    PROVE  PostsGood'
  <1> PICK job : job = posts[w]
    OBVIOUS
  <1> DEFINE found == Posts!Purchases(job.author, job.product)
  <1>1. PICK line \in IF found = {} THEN {Posts!NoLine}
                      ELSE {o \in found : \A x \in found : x <= o} :
           posts' = [posts EXCEPT ![w] =
               [at |-> "insert", row |-> Posts!Row(job.author, job.product, line)]]
    BY DEF Posts!Queries
  <1>2. job.author \in Users /\ job.product \in Products
    BY DEF Posts!Queries, PostsGood, PostGood
  <1>3. line = Posts!NoLine \/ line \in found
    BY <1>1
  <1>4. line # Posts!NoLine =>
           /\ line \in Orders /\ Buyer[line] = job.author
           /\ line \in delivered /\ job.product \in Content[line]
    BY <1>3 DEF Posts!Purchases, PostsGood
  <1> PICK row \in PostRows : row = Posts!Row(job.author, job.product, line)
    BY <1>2, <1>4 DEF Posts!Row, PostRows
  <1>5. row.author = job.author /\ row.product = job.product /\ row.line = line
    BY DEF Posts!Row
  <1>6. Bought(row) /\ AsBought(row)
    BY <1>4, <1>5 DEF Bought, AsBought
  <1> PICK next : next = [at |-> "insert", row |-> row]
    OBVIOUS
  <1>7. PostGood(next)
    BY <1>6 DEF PostGood
  <1>8. UNCHANGED <<reviews, orders, delivered, moved>>
    BY DEF Posts!Queries
  <1>9. QED
    BY <1>1, <1>7, <1>8, PostStep

\* A review is inserted as it was looked up.
LEMMA InsertsStep ==
    ASSUME PostsGood, NEW w \in Writers, Posts!Inserts(w)
    PROVE  PostsGood'
  <1> PICK row : row = posts[w].row
    OBVIOUS
  <1>1. row \in PostRows /\ Bought(row) /\ AsBought(row)
    BY DEF Posts!Inserts, PostsGood, PostGood
  <1>2. /\ posts' = [posts EXCEPT ![w] = Posts!Idle]
        /\ UNCHANGED <<orders, delivered, moved>>
        /\ reviews' = reviews \/ reviews' = Append(reviews, row)
    BY DEF Posts!Inserts
  <1>3. /\ reviews' \in Seq(PostRows \cup {Posts!None})
        /\ DOMAIN reviews \subseteq DOMAIN reviews'
        /\ \A r \in DOMAIN reviews' :
              (r \in DOMAIN reviews /\ reviews'[r] = reviews[r]) \/ reviews'[r] = row
    <2>1. row \in PostRows \cup {Posts!None}
      BY <1>1
    <2>2. reviews \in Seq(PostRows \cup {Posts!None})
      BY DEF PostsGood
    <2>3. CASE reviews' = reviews
      BY <2>2, <2>3
    <2>4. CASE reviews' = Append(reviews, row)
      <3> DEFINE R == PostRows \cup {Posts!None}
      <3>1. row \in R /\ reviews \in Seq(R)
        BY <2>1, <2>2
      <3> HIDE DEF R
      <3>2. /\ reviews' \in Seq(R) /\ Len(reviews') = Len(reviews) + 1
            /\ \A r \in 1..Len(reviews) : reviews'[r] = reviews[r]
            /\ reviews'[Len(reviews) + 1] = row
        BY <2>4, <3>1, AppendProperties
      <3>3. /\ DOMAIN reviews = 1..Len(reviews) /\ Len(reviews) \in Nat
            /\ DOMAIN reviews' = 1..Len(reviews')
        BY <3>1, <3>2
      <3>4. QED
        BY <3>2, <3>3 DEF R
    <2>5. QED
      BY <1>2, <2>3, <2>4
  <1>4. \A v \in Writers : PostGood(posts[v])'
    <2>1. \A v \in Writers : posts'[v] = posts[v] \/ posts'[v].at = "idle"
      BY <1>2 DEF PostsGood, Posts!Idle
    <2>2. QED
      BY <1>2, <1>3, <2>1 DEF PostsGood, PostGood, Bought, AsBought
  <1>5. \A r \in Posts!Kept' : ReviewGood(r)'
    BY <1>1, <1>2, <1>3 DEF PostsGood, Posts!Kept, ReviewGood, Bought, AsBought
  <1>6. QED
    BY <1>2, <1>3, <1>4, <1>5 DEF PostsGood

\* The copy of a good row is good, but for the product it may be moved to.
LEMMA BeginsUpdateStep ==
    ASSUME PostsGood, NEW w \in Writers, NEW u, NEW r \in Posts!Kept, NEW p \in Products,
           Posts!BeginsUpdate(w, u, r, p)
    PROVE  PostsGood'
  <1>1. r \in DOMAIN reviews /\ reviews[r] \in PostRows /\ ReviewGood(r)
    BY DEF PostsGood, Posts!Kept, ReviewGood
  <1> PICK old \in PostRows : old = reviews[r]
    BY <1>1
  <1> PICK row : row = [old EXCEPT !.product = p]
    OBVIOUS
  <1>2. /\ row \in PostRows /\ row.author = old.author /\ row.line = old.line
        /\ row.product = p
    BY DEF PostRows
  <1>3. Bought(row) /\ (p # old.product \/ r \in moved \/ AsBought(row))
    BY <1>1, <1>2 DEF ReviewGood, Bought, AsBought
  <1> PICK job : job = [at |-> "save", review |-> r, moves |-> p # old.product, row |-> row]
    OBVIOUS
  <1>4. PostGood(job)
    BY <1>1, <1>2, <1>3 DEF PostGood
  <1>5. posts' = [posts EXCEPT ![w] = job] /\ UNCHANGED <<reviews, orders, delivered, moved>>
    BY DEF Posts!BeginsUpdate
  <1>6. QED
    BY <1>4, <1>5, PostStep

\* Saving writes a copy that is still good, whatever happened to the row.
LEMMA ReviewSavesStep ==
    ASSUME PostsGood, NEW w \in Writers, Posts!Saves(w)
    PROVE  PostsGood'
  <1> PICK job : job = posts[w]
    OBVIOUS
  <1>1. /\ job.row \in PostRows /\ Bought(job.row) /\ job.review \in DOMAIN reviews
        /\ job.moves \/ job.review \in moved \/ AsBought(job.row)
    BY DEF Posts!Saves, PostsGood, PostGood
  <1>2. /\ posts' = [posts EXCEPT ![w] = Posts!Idle]
        /\ UNCHANGED <<orders, delivered>>
        /\ \/ UNCHANGED <<reviews, moved>>
           \/ /\ reviews' = [reviews EXCEPT ![job.review] = job.row]
              /\ moved' = IF job.moves THEN moved \cup {job.review} ELSE moved
    BY DEF Posts!Saves
  <1>3. /\ reviews' \in Seq(PostRows \cup {Posts!None})
        /\ DOMAIN reviews' = DOMAIN reviews
        /\ moved \subseteq moved'
        /\ \A r \in DOMAIN reviews :
              \/ reviews'[r] = reviews[r]
              \/ /\ r = job.review /\ reviews'[r] = job.row
                 /\ job.moves => r \in moved'
    BY <1>1, <1>2 DEF PostsGood
  <1>4. \A v \in Writers : PostGood(posts[v])'
    <2>1. \A v \in Writers : posts'[v] = posts[v] \/ posts'[v].at = "idle"
      BY <1>2 DEF PostsGood, Posts!Idle
    <2>2. QED
      BY <1>2, <1>3, <2>1 DEF PostsGood, PostGood, Bought, AsBought
  <1>5. ASSUME NEW r \in Posts!Kept' PROVE ReviewGood(r)'
    <2>1. r \in DOMAIN reviews
      BY <1>3 DEF Posts!Kept
    <2>2. CASE reviews'[r] = reviews[r]
      <3>1. ReviewGood(r)
        BY <2>1, <2>2 DEF Posts!Kept, PostsGood
      <3>2. QED
        BY <1>2, <1>3, <2>2, <3>1 DEF ReviewGood, Bought, AsBought
    <2>3. CASE r = job.review /\ reviews'[r] = job.row /\ (job.moves => r \in moved')
      BY <1>1, <1>2, <1>3, <2>3 DEF ReviewGood, Bought, AsBought
    <2>4. QED
      BY <1>3, <2>1, <2>2, <2>3
  <1>6. QED
    BY <1>2, <1>3, <1>4, <1>5 DEF PostsGood

\* A deleted row is no review.
LEMMA ReviewDeletedStep ==
    ASSUME PostsGood, NEW u, NEW r \in Posts!Kept, Posts!Deletes(u, r)
    PROVE  PostsGood'
  <1>1. /\ reviews' = [reviews EXCEPT ![r] = Posts!None]
        /\ UNCHANGED <<orders, posts, delivered, moved>>
    BY DEF Posts!Deletes
  <1>2. /\ reviews' \in Seq(PostRows \cup {Posts!None})
        /\ DOMAIN reviews' = DOMAIN reviews
        /\ \A x \in DOMAIN reviews : reviews'[x] \in {reviews[x], Posts!None}
    BY <1>1 DEF PostsGood, Posts!Kept
  <1>3. \A v \in Writers : PostGood(posts[v])'
    BY <1>1, <1>2 DEF PostsGood, PostGood, Bought, AsBought
  <1>4. \A x \in Posts!Kept' : ReviewGood(x)'
    BY <1>1, <1>2 DEF PostsGood, Posts!Kept, ReviewGood, Bought, AsBought
  <1>5. QED
    BY <1>1, <1>2, <1>3, <1>4 DEF PostsGood

\* A return can be requested only of what was delivered.
LEMMA OrderMovesStep ==
    ASSUME PostsGood, NEW o \in Orders, NEW target \in Posts!Statuses,
           Posts!OrderMoves(o, target)
    PROVE  PostsGood'
  <1>1. /\ orders' = [orders EXCEPT ![o] = target]
        /\ delivered' = IF target = "delivered" THEN delivered \cup {o} ELSE delivered
        /\ UNCHANGED <<reviews, posts, moved>>
    BY DEF Posts!OrderMoves
  <1>2. target = "return_requested" => orders[o] = "delivered"
    <2> PICK now \in Posts!Statuses : now = orders[o]
      BY DEF PostsGood
    <2>1. target \in Posts!AllowedTransitions[now]
      BY DEF Posts!OrderMoves, Posts!Accepts, Posts!CanTransition
    <2>2. now # "delivered" => "return_requested" \notin Posts!AllowedTransitions[now]
      BY DEF Posts!AllowedTransitions
    <2>3. QED
      BY <2>1, <2>2
  <1>3. \A x \in Orders :
           orders'[x] \in {"delivered", "return_requested"} => x \in delivered'
    BY <1>1, <1>2 DEF PostsGood
  <1>4. \A v \in Writers : PostGood(posts[v])'
    BY <1>1 DEF PostsGood, PostGood, Bought, AsBought
  <1>5. \A r \in Posts!Kept' : ReviewGood(r)'
    BY <1>1 DEF PostsGood, Posts!Kept, ReviewGood, Bought, AsBought
  <1>6. QED
    BY <1>1, <1>3, <1>4, <1>5 DEF PostsGood

\* Every step keeps what is known of the reviews.
LEMMA PostsStep == PostsGood /\ [AccountNext]_accountVars => PostsGood'
  <1> SUFFICES ASSUME PostsGood, [AccountNext]_accountVars PROVE PostsGood'
    OBVIOUS
  <1>1. Posts!Next \/ UNCHANGED postsVars
    BY DEF AccountNext, LinksNext, BookNext, FitsNext, PostsNext, accountVars
  <1>2. CASE UNCHANGED postsVars
    BY <1>2 DEF postsVars, PostsGood, PostGood, Posts!Kept, ReviewGood, Bought, AsBought
  <1>3. ASSUME NEW w \in Writers, NEW u \in Users, NEW p \in Products,
               Posts!BeginsCreate(w, u, p)
        PROVE  PostsGood'
    <2> PICK job : job = [at |-> "query", author |-> u, product |-> p]
      OBVIOUS
    <2>1. PostGood(job)
      BY DEF PostGood
    <2>2. QED
      BY <1>3, <2>1, PostStep DEF Posts!BeginsCreate
  <1>4. ASSUME NEW w \in Writers, Posts!Dies(w) PROVE PostsGood'
    <2> PICK idle : idle = Posts!Idle
      OBVIOUS
    <2>1. PostGood(idle)
      BY DEF PostGood, Posts!Idle
    <2>2. QED
      BY <1>4, <2>1, PostStep DEF Posts!Dies
  <1>5. QED
    BY <1>1, <1>2, <1>3, <1>4, QueriesStep, InsertsStep, BeginsUpdateStep,
       ReviewSavesStep, ReviewDeletedStep, OrderMovesStep DEF Posts!Next

\* A verified badge names a delivered purchase of the review's author, of the
\* very product unless an update moved the review (models.py, order_line;
\* serializers.py, create).
THEOREM BadgeTheorem == AccountSpec => []BadgeIsEarned
  <1>1. AccountInit => PostsGood
    BY PostsInit DEF AccountInit
  <1>2. PostsGood => BadgeIsEarned
    BY DEF PostsGood, ReviewGood, Bought, AsBought, BadgeIsEarned, Posts!BadgeIsEarned
  <1>3. QED
    BY <1>1, <1>2, PostsStep, PTL DEF AccountSpec

-----------------------------------------------------------------------------
(* The rules: one question, one answer. *)

\* An answer is what the rule computes of the question.
Answered ==
    \/ kind = "tax" /\ answer = TaxQuote(ask)
    \/ kind = "modesty" /\ answer = Assessment(ask)
    \/ kind = "faces" /\ answer = [kept |-> Detect(ask.found)]
    \/ kind = "blur" /\ answer = BlurAnswer(ask)
    \/ kind = "fit" /\ \E slips, slipsCm \in BOOLEAN : answer = FitAnswer(ask, slips, slipsCm)

RulesInv == Questions /\ (answer = Unanswered \/ Answered)

\* A question comes from the ones asked, and an answer is the rule's.
LEMMA RulesInvariant == RulesSpec => []RulesInv
  <1>1. RulesInit => RulesInv
    BY DEF RulesInit, RulesInv
  <1>2. RulesInv /\ [RulesNext]_rulesVars => RulesInv'
    BY DEF RulesInv, RulesNext, rulesVars, Questions, Answered, QuoteTax, Assess,
           DetectFaces, Blur, CheckFit, Storable
  <1>3. QED
    BY <1>1, <1>2, PTL DEF RulesSpec

-----------------------------------------------------------------------------
(* Modesty. *)

\* The four facets, one by one, and what full coverage implies.
LEMMA BadgeFields ==
    ASSUME NEW p
    PROVE  /\ ("fully_lined" \in Badges(p) <=> p.has_full_lining /\ ~p.is_sheer_overlay_only)
           /\ ("opaque_fabric" \in Badges(p) <=> p.is_opaque /\ ~p.is_sheer_overlay_only)
           /\ ("full_sleeves" \in Badges(p) <=> p.sleeve \in FullSleeves)
           /\ ("no_slit" \in Badges(p) <=> p.slit = "none")
           /\ ("modest_neckline" \in Badges(p) <=> p.neckline \in HighNecks)
           /\ ("covered_back" \in Badges(p) <=> p.back \in CoveredBacks)
           /\ ("face_modest" \in Badges(p) <=> p.face \in {"partial", "full"})
           /\ ("full_coverage" \in Badges(p) <=> FullyCovered(p))
  <1> DEFINE earned == BadgeEarned(p)
  <1>1. DOMAIN earned = {"fully_lined", "opaque_fabric", "full_sleeves", "no_slit",
                         "modest_neckline", "covered_back", "face_modest",
                         "full_coverage"}
    BY DEF BadgeEarned
  <1>2. /\ (earned["fully_lined"] <=> p.has_full_lining /\ ~p.is_sheer_overlay_only)
        /\ (earned["opaque_fabric"] <=> p.is_opaque /\ ~p.is_sheer_overlay_only)
        /\ (earned["full_sleeves"] <=> p.sleeve \in FullSleeves)
        /\ (earned["no_slit"] <=> p.slit = "none")
        /\ (earned["modest_neckline"] <=> p.neckline \in HighNecks)
        /\ (earned["covered_back"] <=> p.back \in CoveredBacks)
        /\ (earned["face_modest"] <=> p.face \in {"partial", "full"})
        /\ (earned["full_coverage"] <=> FullyCovered(p))
    BY DEF BadgeEarned
  <1> HIDE DEF earned
  <1>3. \A b : b \in Badges(p) <=> b \in DOMAIN earned /\ earned[b]
    BY DEF Badges, earned
  <1>4. QED
    BY <1>1, <1>2, <1>3, Zenon

\* The filter for a badge finds the garments that wear it.
LEMMA FacetsOf ==
    ASSUME NEW p \in ModestyProfiles
    PROVE  /\ \A b \in DOMAIN Selects(p) : Selects(p)[b] <=> b \in Badges(p)
           /\ "full_coverage" \in Badges(p) =>
                /\ Advisories(p) = {}
                /\ {"fully_lined", "opaque_fabric", "full_sleeves", "modest_neckline",
                    "covered_back"} \subseteq Badges(p)
  <1>1. /\ (FullyCoveredQuery(p) <=> FullyCovered(p))
        /\ (FaceModestQuery(p) <=> p.face \in {"partial", "full"})
        /\ (FullSleevesQuery(p) <=> p.sleeve \in FullSleeves)
        /\ (NoSlitQuery(p) <=> p.slit = "none")
    BY DEF FullyCoveredQuery, FullyCovered, FaceModestQuery, FullSleevesQuery, NoSlitQuery,
           FullSleeves, CoveredBacks, HighNecks
  <1>2. DOMAIN Selects(p) = {"full_coverage", "face_modest", "full_sleeves", "no_slit"}
    BY DEF Selects
  <1>3. \A b \in DOMAIN Selects(p) : Selects(p)[b] <=> b \in Badges(p)
    <2>1. /\ (Selects(p)["full_coverage"] <=> FullyCoveredQuery(p))
          /\ (Selects(p)["face_modest"] <=> FaceModestQuery(p))
          /\ (Selects(p)["full_sleeves"] <=> FullSleevesQuery(p))
          /\ (Selects(p)["no_slit"] <=> NoSlitQuery(p))
      BY DEF Selects
    <2>2. QED
      BY <1>1, <1>2, <2>1, BadgeFields, Zenon
  <1>4. ASSUME FullyCovered(p)
        PROVE  /\ Advisories(p) = {}
               /\ {"fully_lined", "opaque_fabric", "full_sleeves", "modest_neckline",
                   "covered_back"} \subseteq Badges(p)
    <2>1. \A a \in DOMAIN AdvisoryDue(p) : ~AdvisoryDue(p)[a]
      <3> DEFINE due == AdvisoryDue(p)
      <3>1. DOMAIN due = {"slip_required", "sheer_overlay", "sleeveless", "open_back",
                          "high_slit", "deep_neckline"}
        BY DEF AdvisoryDue
      <3>2. /\ due["slip_required"] = p.requires_slip
            /\ due["sheer_overlay"] = p.is_sheer_overlay_only
            /\ due["sleeveless"] = (p.sleeve = "sleeveless")
            /\ due["open_back"] = (p.back \in {"open", "deep"})
            /\ due["high_slit"] = (p.slit \in {"thigh", "knee"})
            /\ due["deep_neckline"] = (p.neckline = "deep")
        BY DEF AdvisoryDue
      <3>3. /\ ~p.requires_slip /\ ~p.is_sheer_overlay_only
            /\ p.sleeve # "sleeveless" /\ p.back \notin {"open", "deep"}
            /\ p.slit \notin {"thigh", "knee"} /\ p.neckline # "deep"
        BY <1>4 DEF FullyCovered, FullSleeves, CoveredBacks, HighNecks
      <3> HIDE DEF due
      <3>4. \A a \in DOMAIN due : ~due[a]
        BY <3>1, <3>2, <3>3, Zenon
      <3>5. QED
        BY <3>4 DEF due
    <2>2. {"fully_lined", "opaque_fabric", "full_sleeves", "modest_neckline",
           "covered_back"} \subseteq Badges(p)
      BY <1>4, BadgeFields DEF FullyCovered
    <2>3. QED
      BY <2>1, <2>2 DEF Advisories
  <1>5. QED
    BY <1>3, <1>4, BadgeFields

\* Four badges and the filters of their name agree on every garment
\* (FacetsAgree).
THEOREM FacetsTheorem == RulesSpec => []FacetsAgree
  <1>1. RulesInv => FacetsAgree
    <2>1. SUFFICES ASSUME RulesInv, kind = "modesty", answer # Unanswered
                   PROVE  FacetsAgree
      BY DEF FacetsAgree
    <2>2. ask \in ModestyProfiles /\ answer = Assessment(ask)
      BY <2>1 DEF RulesInv, Questions, Answered
    <2>3. QED
      BY <2>2, FacetsOf DEF FacetsAgree, Assessment
  <1>2. QED
    BY <1>1, RulesInvariant, PTL

\* Where a value stands in each order.
LEMMA Ranks ==
    /\ \A i \in 1..5 : CoverageRank(SlitOrder[i], SlitOrder) = i - 1
    /\ \A i \in 1..7 : CoverageRank(SleeveOrder[i], SleeveOrder) = i - 1
    /\ \A i \in 1..4 : CoverageRank(NecklineOrder[i], NecklineOrder) = i - 1
    /\ \A i \in 1..4 : CoverageRank(BackOrder[i], BackOrder) = i - 1
  <1>1. /\ DOMAIN SlitOrder = 1..5 /\ DOMAIN SleeveOrder = 1..7
        /\ DOMAIN NecklineOrder = 1..4 /\ DOMAIN BackOrder = 1..4
    BY DEF SlitOrder, SleeveOrder, NecklineOrder, BackOrder
  <1>2. \A i, j \in 1..5 : SlitOrder[i] = SlitOrder[j] => i = j
    BY DEF SlitOrder
  <1>3. \A i, j \in 1..7 : SleeveOrder[i] = SleeveOrder[j] => i = j
    BY DEF SleeveOrder
  <1>4. \A i, j \in 1..4 : NecklineOrder[i] = NecklineOrder[j] => i = j
    BY DEF NecklineOrder
  <1>5. \A i, j \in 1..4 : BackOrder[i] = BackOrder[j] => i = j
    BY DEF BackOrder
  <1>6. \A order : \A i \in DOMAIN order :
            (\A j, k \in DOMAIN order : order[j] = order[k] => j = k)
                => (CHOOSE j \in DOMAIN order : order[j] = order[i]) = i
    OBVIOUS
  <1>7. QED
    BY <1>1, <1>2, <1>3, <1>4, <1>5, <1>6 DEF CoverageRank

\* What the score of a garment is rounded from, in 960ths.
Scaled(p) ==
    Weighted(p) * (IF p.is_opaque THEN 2 ELSE 1)
                * (IF p.is_sheer_overlay_only THEN 1 ELSE 2)
                * (IF p.requires_slip THEN 17 ELSE 20)

\* Rounding a score keeps its order.
LEMMA RoundingMonotone ==
    ASSUME NEW m \in Nat, NEW n \in Nat, m <= n
    PROVE  RoundHalfEven(m, 960) <= RoundHalfEven(n, 960)
  BY DEF RoundHalfEven

\* The scores at the ends of the scale, and on both sides of its middle.
LEMMA RoundingBounds ==
    ASSUME NEW n \in Nat
    PROVE  /\ RoundHalfEven(n, 960) \in Nat
           /\ n <= 96000 => RoundHalfEven(n, 960) <= 100
           /\ n <= 48000 => RoundHalfEven(n, 960) <= 50
           /\ n >= 70000 => RoundHalfEven(n, 960) > 50
  BY DEF RoundHalfEven

\* The weights of a garment, by where its values stand.
LEMMA WeightsOf ==
    ASSUME NEW p \in ModestyProfiles
    PROVE  \E i \in 1..5, j \in 1..7, k \in 1..4, l \in 1..4 :
              /\ p.slit = SlitOrder[i] /\ p.sleeve = SleeveOrder[j]
              /\ p.neckline = NecklineOrder[k] /\ p.back = BackOrder[l]
              /\ Weighted(p) = 75 * (i - 1) + 60 * (j - 1) + 100 * (k - 1) + 80 * (l - 1)
  <1>1. /\ p.slit \in Values(SlitOrder) /\ p.sleeve \in Values(SleeveOrder)
        /\ p.neckline \in Values(NecklineOrder) /\ p.back \in Values(BackOrder)
    BY DEF ModestyProfiles
  <1>2. /\ DOMAIN SlitOrder = 1..5 /\ DOMAIN SleeveOrder = 1..7
        /\ DOMAIN NecklineOrder = 1..4 /\ DOMAIN BackOrder = 1..4
    BY DEF SlitOrder, SleeveOrder, NecklineOrder, BackOrder
  <1>3. PICK i \in 1..5, j \in 1..7, k \in 1..4, l \in 1..4 :
              /\ p.slit = SlitOrder[i] /\ p.sleeve = SleeveOrder[j]
              /\ p.neckline = NecklineOrder[k] /\ p.back = BackOrder[l]
    BY <1>1, <1>2 DEF Values
  <1>4. QED
    BY <1>3, Ranks DEF Weighted

\* The weights add up to at most 1200.
LEMMA WeightRange ==
    ASSUME NEW p \in ModestyProfiles
    PROVE  Weighted(p) \in Nat /\ Weighted(p) <= 1200
  <1>1. PICK i \in 1..5, j \in 1..7, k \in 1..4, l \in 1..4 :
            Weighted(p) = 75 * (i - 1) + 60 * (j - 1) + 100 * (k - 1) + 80 * (l - 1)
    BY WeightsOf
  <1>2. /\ i \in Int /\ j \in Int /\ k \in Int /\ l \in Int
        /\ i >= 1 /\ j >= 1 /\ k >= 1 /\ l >= 1
        /\ i <= 5 /\ j <= 7 /\ k <= 4 /\ l <= 4
    OBVIOUS
  <1> DEFINE w == 75 * (i - 1) + 60 * (j - 1) + 100 * (k - 1) + 80 * (l - 1)
  <1>3. w \in Nat /\ w <= 1200
    BY <1>2
  <1>4. Weighted(p) = w
    BY <1>1
  <1> HIDE DEF w
  <1>5. QED
    BY <1>3, <1>4

\* The factors of two garments that differ only in what they cover are equal.
LEMMA ScoreMonotone ==
    ASSUME NEW p \in ModestyProfiles, NEW q \in ModestyProfiles,
           q.is_opaque = p.is_opaque, q.requires_slip = p.requires_slip,
           q.is_sheer_overlay_only = p.is_sheer_overlay_only,
           Weighted(p) <= Weighted(q)
    PROVE  CoverageScore(p) <= CoverageScore(q)
  <1>1. Weighted(p) \in Nat /\ Weighted(q) \in Nat
    BY WeightRange
  <1>2. Scaled(p) \in Nat /\ Scaled(q) \in Nat /\ Scaled(p) <= Scaled(q)
    <2> DEFINE v == Weighted(p)
               w == Weighted(q)
    <2> HIDE DEF v, w
    <2>1. /\ Scaled(p) = v * (IF p.is_opaque THEN 2 ELSE 1)
                           * (IF p.is_sheer_overlay_only THEN 1 ELSE 2)
                           * (IF p.requires_slip THEN 17 ELSE 20)
          /\ Scaled(q) = w * (IF p.is_opaque THEN 2 ELSE 1)
                           * (IF p.is_sheer_overlay_only THEN 1 ELSE 2)
                           * (IF p.requires_slip THEN 17 ELSE 20)
      BY DEF Scaled, v, w
    <2>2. v \in Nat /\ w \in Nat /\ v <= w
      BY <1>1 DEF v, w
    <2>3. QED
      BY <2>1, <2>2
  <1>3. CoverageScore(p) = RoundHalfEven(Scaled(p), 960)
        /\ CoverageScore(q) = RoundHalfEven(Scaled(q), 960)
    BY DEF CoverageScore, Scaled
  <1>4. QED
    BY <1>2, <1>3, RoundingMonotone

\* How high a score may be, how high it must be, and how low.
LEMMA ScoreBounds ==
    ASSUME NEW p \in ModestyProfiles
    PROVE  /\ CoverageScore(p) \in 0..100
           /\ FullyCovered(p) => CoverageScore(p) > 50
           /\ ~p.is_opaque => CoverageScore(p) <= 50
  <1>1. PICK i \in 1..5, j \in 1..7, k \in 1..4, l \in 1..4 :
              /\ p.slit = SlitOrder[i] /\ p.sleeve = SleeveOrder[j]
              /\ p.neckline = NecklineOrder[k] /\ p.back = BackOrder[l]
              /\ Weighted(p) = 75 * (i - 1) + 60 * (j - 1) + 100 * (k - 1) + 80 * (l - 1)
    BY WeightsOf
  <1>2. Weighted(p) \in Nat /\ Weighted(p) <= 1200
    BY WeightRange
  <1>3. FullyCovered(p) => Weighted(p) >= 885
    <2>1. SUFFICES ASSUME FullyCovered(p) PROVE Weighted(p) >= 885
      OBVIOUS
    <2>2. i >= 4
      <3>1. p.slit \notin {"thigh", "knee", "mid_calf"}
        BY <2>1 DEF FullyCovered
      <3>2. i # 1 /\ i # 2 /\ i # 3
        BY <1>1, <3>1 DEF SlitOrder
      <3>3. QED
        BY <3>2
    <2>3. j >= 6
      BY <1>1, <2>1 DEF FullyCovered, SleeveOrder, FullSleeves
    <2>4. k >= 3
      BY <1>1, <2>1 DEF FullyCovered, NecklineOrder, HighNecks
    <2>5. l >= 3
      BY <1>1, <2>1 DEF FullyCovered, BackOrder, CoveredBacks
    <2>6. QED
      BY <1>1, <2>2, <2>3, <2>4, <2>5
  <1> DEFINE w == Weighted(p)
  <1>4. Scaled(p) = w * (IF p.is_opaque THEN 2 ELSE 1)
                      * (IF p.is_sheer_overlay_only THEN 1 ELSE 2)
                      * (IF p.requires_slip THEN 17 ELSE 20)
    BY DEF Scaled
  <1>5. CoverageScore(p) = RoundHalfEven(Scaled(p), 960)
    BY DEF CoverageScore, Scaled
  <1>6. FullyCovered(p) =>
            p.is_opaque /\ ~p.is_sheer_overlay_only /\ ~p.requires_slip /\ w >= 885
    BY <1>3 DEF FullyCovered
  <1>7. w \in Nat /\ w <= 1200
    BY <1>2
  <1> HIDE DEF w
  <1>8. Scaled(p) \in Nat /\ Scaled(p) <= 96000
    BY <1>4, <1>7
  <1>9. ~p.is_opaque => Scaled(p) <= 48000
    BY <1>4, <1>7
  <1>10. FullyCovered(p) => Scaled(p) >= 70000
    BY <1>4, <1>6, <1>7
  <1>11. /\ RoundHalfEven(Scaled(p), 960) \in Nat
         /\ RoundHalfEven(Scaled(p), 960) <= 100
         /\ ~p.is_opaque => RoundHalfEven(Scaled(p), 960) <= 50
         /\ FullyCovered(p) => RoundHalfEven(Scaled(p), 960) > 50
    <2> DEFINE n == Scaled(p)
    <2> HIDE DEF n
    <2>1. /\ n \in Nat /\ n <= 96000 /\ (~p.is_opaque => n <= 48000)
          /\ (FullyCovered(p) => n >= 70000)
      BY <1>8, <1>9, <1>10 DEF n
    <2>2. /\ RoundHalfEven(n, 960) \in Nat
          /\ n <= 96000 => RoundHalfEven(n, 960) <= 100
          /\ n <= 48000 => RoundHalfEven(n, 960) <= 50
          /\ n >= 70000 => RoundHalfEven(n, 960) > 50
      BY <2>1, RoundingBounds
    <2>3. QED
      BY <2>1, <2>2 DEF n
  <1>12. QED
    BY <1>5, <1>11

\* Covering more in one dimension leaves a garment of the catalogue, with the
\* same factors and no less weight.
LEMMA CoversMore ==
    ASSUME NEW p \in ModestyProfiles
    PROVE  /\ \A i, j \in DOMAIN SlitsDown : p.slit = SlitsDown[i] /\ i < j =>
                  CoverageScore([p EXCEPT !.slit = SlitsDown[j]]) >= CoverageScore(p)
           /\ \A i, j \in DOMAIN SleevesDown : p.sleeve = SleevesDown[i] /\ i < j =>
                  CoverageScore([p EXCEPT !.sleeve = SleevesDown[j]]) >= CoverageScore(p)
           /\ \A i, j \in 1..4 : p.neckline = NecklineOrder[i] /\ i < j =>
                  CoverageScore([p EXCEPT !.neckline = NecklineOrder[j]])
                      >= CoverageScore(p)
           /\ \A i, j \in 1..4 : p.back = BackOrder[i] /\ i < j =>
                  CoverageScore([p EXCEPT !.back = BackOrder[j]]) >= CoverageScore(p)
  <1>0. SlitsDown = SlitOrder /\ SleevesDown = SleeveOrder
        /\ DOMAIN SlitOrder = 1..5 /\ DOMAIN SleeveOrder = 1..7
        /\ DOMAIN NecklineOrder = 1..4 /\ DOMAIN BackOrder = 1..4
    BY DEF SlitsDown, SleevesDown, SlitOrder, SleeveOrder, NecklineOrder, BackOrder
  <1>1. /\ CoverageRank(p.slit, SlitOrder) \in Int
        /\ CoverageRank(p.sleeve, SleeveOrder) \in Int
        /\ CoverageRank(p.neckline, NecklineOrder) \in Int
        /\ CoverageRank(p.back, BackOrder) \in Int
    BY WeightsOf, Ranks
  <1>2. ASSUME NEW i \in 1..5, NEW j \in 1..5, p.slit = SlitOrder[i], i < j
        PROVE  CoverageScore([p EXCEPT !.slit = SlitOrder[j]]) >= CoverageScore(p)
    <2> DEFINE q == [p EXCEPT !.slit = SlitOrder[j]]
    <2>1. SlitOrder[j] \in Values(SlitOrder)
      BY <1>0 DEF Values
    <2>2. /\ q \in ModestyProfiles /\ q.is_opaque = p.is_opaque
          /\ q.requires_slip = p.requires_slip
          /\ q.is_sheer_overlay_only = p.is_sheer_overlay_only
          /\ q.slit = SlitOrder[j] /\ q.sleeve = p.sleeve
          /\ q.neckline = p.neckline /\ q.back = p.back
      BY <2>1 DEF ModestyProfiles
    <2> HIDE DEF q
    <2>3. Weighted(p) <= Weighted(q)
      BY <1>1, <1>2, <2>2, Ranks DEF Weighted
    <2>4. CoverageScore(p) <= CoverageScore(q)
      BY <2>2, <2>3, ScoreMonotone
    <2>5. CoverageScore(p) \in Int /\ CoverageScore(q) \in Int
      BY <2>2, ScoreBounds
    <2>6. QED
      BY <2>4, <2>5 DEF q
  <1>3. ASSUME NEW i \in 1..7, NEW j \in 1..7, p.sleeve = SleeveOrder[i], i < j
        PROVE  CoverageScore([p EXCEPT !.sleeve = SleeveOrder[j]]) >= CoverageScore(p)
    <2> DEFINE q == [p EXCEPT !.sleeve = SleeveOrder[j]]
    <2>1. SleeveOrder[j] \in Values(SleeveOrder)
      BY <1>0 DEF Values
    <2>2. /\ q \in ModestyProfiles /\ q.is_opaque = p.is_opaque
          /\ q.requires_slip = p.requires_slip
          /\ q.is_sheer_overlay_only = p.is_sheer_overlay_only
          /\ q.sleeve = SleeveOrder[j] /\ q.slit = p.slit
          /\ q.neckline = p.neckline /\ q.back = p.back
      BY <2>1 DEF ModestyProfiles
    <2> HIDE DEF q
    <2>3. Weighted(p) <= Weighted(q)
      BY <1>1, <1>3, <2>2, Ranks DEF Weighted
    <2>4. CoverageScore(p) <= CoverageScore(q)
      BY <2>2, <2>3, ScoreMonotone
    <2>5. CoverageScore(p) \in Int /\ CoverageScore(q) \in Int
      BY <2>2, ScoreBounds
    <2>6. QED
      BY <2>4, <2>5 DEF q
  <1>4. ASSUME NEW i \in 1..4, NEW j \in 1..4, p.neckline = NecklineOrder[i], i < j
        PROVE  CoverageScore([p EXCEPT !.neckline = NecklineOrder[j]]) >= CoverageScore(p)
    <2> DEFINE q == [p EXCEPT !.neckline = NecklineOrder[j]]
    <2>1. NecklineOrder[j] \in Values(NecklineOrder)
      BY <1>0 DEF Values
    <2>2. /\ q \in ModestyProfiles /\ q.is_opaque = p.is_opaque
          /\ q.requires_slip = p.requires_slip
          /\ q.is_sheer_overlay_only = p.is_sheer_overlay_only
          /\ q.neckline = NecklineOrder[j] /\ q.slit = p.slit
          /\ q.sleeve = p.sleeve /\ q.back = p.back
      BY <2>1 DEF ModestyProfiles
    <2> HIDE DEF q
    <2>3. Weighted(p) <= Weighted(q)
      BY <1>1, <1>4, <2>2, Ranks DEF Weighted
    <2>4. CoverageScore(p) <= CoverageScore(q)
      BY <2>2, <2>3, ScoreMonotone
    <2>5. CoverageScore(p) \in Int /\ CoverageScore(q) \in Int
      BY <2>2, ScoreBounds
    <2>6. QED
      BY <2>4, <2>5 DEF q
  <1>5. ASSUME NEW i \in 1..4, NEW j \in 1..4, p.back = BackOrder[i], i < j
        PROVE  CoverageScore([p EXCEPT !.back = BackOrder[j]]) >= CoverageScore(p)
    <2> DEFINE q == [p EXCEPT !.back = BackOrder[j]]
    <2>1. BackOrder[j] \in Values(BackOrder)
      BY <1>0 DEF Values
    <2>2. /\ q \in ModestyProfiles /\ q.is_opaque = p.is_opaque
          /\ q.requires_slip = p.requires_slip
          /\ q.is_sheer_overlay_only = p.is_sheer_overlay_only
          /\ q.back = BackOrder[j] /\ q.slit = p.slit
          /\ q.sleeve = p.sleeve /\ q.neckline = p.neckline
      BY <2>1 DEF ModestyProfiles
    <2> HIDE DEF q
    <2>3. Weighted(p) <= Weighted(q)
      BY <1>1, <1>5, <2>2, Ranks DEF Weighted
    <2>4. CoverageScore(p) <= CoverageScore(q)
      BY <2>2, <2>3, ScoreMonotone
    <2>5. CoverageScore(p) \in Int /\ CoverageScore(q) \in Int
      BY <2>2, ScoreBounds
    <2>6. QED
      BY <2>4, <2>5 DEF q
  <1>6. QED
    BY <1>0, <1>2, <1>3, <1>4, <1>5

\* Covering more never lowers the score, and see-through garments stay below
\* fully covered ones (ScoreIsHonest).
THEOREM ScoreTheorem == RulesSpec => []ScoreIsHonest
  <1>1. RulesInv => ScoreIsHonest
    <2>1. SUFFICES ASSUME RulesInv, kind = "modesty", answer # Unanswered
                   PROVE  ScoreIsHonest
      BY DEF ScoreIsHonest
    <2>2. ask \in ModestyProfiles /\ answer = Assessment(ask)
      BY <2>1 DEF RulesInv, Questions, Answered
    <2>3. answer.score = CoverageScore(ask) /\ answer.badges = Badges(ask)
      BY <2>2 DEF Assessment
    <2>4. /\ NecklineOrder = <<"deep", "moderate", "high", "closed">>
          /\ BackOrder = <<"open", "deep", "moderate", "full">>
      BY DEF NecklineOrder, BackOrder
    <2>5. DOMAIN NecklineOrder = 1..4 /\ DOMAIN BackOrder = 1..4
      BY DEF NecklineOrder, BackOrder
    <2>6. QED
      BY <2>2, <2>3, <2>4, <2>5, CoversMore, ScoreBounds, BadgeFields DEF ScoreIsHonest
  <1>2. QED
    BY <1>1, RulesInvariant, PTL

-----------------------------------------------------------------------------
(* Blurring. *)

First(S) == CHOOSE e \in S : \A f \in S : e <= f

Verifying(before, after) == {e \in 0..MaxEscalations : Verified(before, after[e])}

\* Some escalation comes first among those that verify.
LEMMA FirstOf ==
    ASSUME NEW S \in SUBSET Nat, IsFiniteSet(S), S # {}
    PROVE  First(S) \in S /\ \A f \in S : First(S) <= f
  <1> DEFINE Good == {s \in SUBSET S : s = {} \/ \E e \in s : \A f \in s : e <= f}
  <1>1. {} \in Good
    OBVIOUS
  <1>2. ASSUME NEW s \in SUBSET S, NEW x \in s, s \ {x} \in Good
        PROVE  s \in Good
    <2>1. CASE s \ {x} = {}
      BY <2>1
    <2>2. CASE s \ {x} # {}
      <3>1. PICK e \in s \ {x} : \A f \in s \ {x} : e <= f
        BY <1>2, <2>2
      <3>2. \/ \A f \in s : e <= f
            \/ \A f \in s : x <= f
        BY <3>1
      <3>3. QED
        BY <3>2
    <2>3. QED
      BY <2>1, <2>2
  <1> HIDE DEF Good
  <1>3. S \in Good
    BY <1>1, <1>2, SubsetInduction
  <1>4. \E e \in S : \A f \in S : e <= f
    BY <1>3 DEF Good
  <1>5. QED
    BY <1>4 DEF First

\* When a photo is published, and how often it was blurred.
LEMMA BlurOutcome ==
    ASSUME NEW before, NEW after
    PROVE  /\ BlurFaces(before, after).outcome = "blurred_verified"
                  <=> before # <<>> /\ Verifying(before, after) # {}
           /\ before # <<>> /\ Verifying(before, after) # {} =>
                  BlurFaces(before, after).escalations = First(Verifying(before, after))
  <1> DEFINE report ==
          IF before = <<>>
          THEN [outcome |-> "no_faces_detected", escalations |-> 0]
          ELSE IF Verifying(before, after) = {}
          THEN [outcome |-> "verification_failed", escalations |-> MaxEscalations + 1]
          ELSE [outcome |-> "blurred_verified",
                escalations |-> First(Verifying(before, after))]
  <1>1. BlurFaces(before, after) = report
    BY DEF BlurFaces, Verifying, First
  <1>2. QED
    BY <1>1

\* The two forms of the test on a region.
LEMMA RegionTest ==
    ASSUME NEW b \in Nat, NEW a \in Nat
    PROVE  RegionVerified(b, a) <=> a <= 30 /\ (b <= 40 \/ 20 * a <= 9 * b)
  BY DEF RegionVerified, MaxResidualDetail, FlatRegionEnergy, MaxHighfreqRatio

\* What is published was destroyed, and by the first blur that could
\* (PublishedIsDestroyed).
THEOREM DestroyedTheorem == RulesSpec => []PublishedIsDestroyed
  <1>1. RulesInv => PublishedIsDestroyed
    <2>1. SUFFICES ASSUME RulesInv, kind = "blur", answer # Unanswered
                   PROVE  PublishedIsDestroyed
      BY DEF PublishedIsDestroyed
    <2>2. ask \in Blurs /\ answer = BlurAnswer(ask)
      BY <2>1 DEF RulesInv, Questions, Answered
    <2>3. /\ ask.before \in Seq(Nat)
          /\ \A e \in 0..MaxEscalations : ask.after[e] \in [DOMAIN ask.before -> Nat]
      BY <2>2, RulesAssumption
    <2> DEFINE destroyed(e, r) ==
                   /\ ask.after[e][r] <= 30
                   /\ ask.before[r] <= 40 \/ 20 * ask.after[e][r] <= 9 * ask.before[r]
               all(e) == \A r \in DOMAIN ask.before : destroyed(e, r)
               verifying == Verifying(ask.before, ask.after)
               report == BlurFaces(ask.before, ask.after)
    <2>4. \A e \in 0..MaxEscalations : Verified(ask.before, ask.after[e]) <=> all(e)
      <3>1. TAKE e \in 0..MaxEscalations
      <3>2. ask.after[e] \in [DOMAIN ask.before -> Nat]
        BY <2>3
      <3>3. \A r \in DOMAIN ask.before : ask.before[r] \in Nat /\ ask.after[e][r] \in Nat
        BY <2>3, <3>2, ElementOfSeq
      <3>4. \A r \in DOMAIN ask.before :
                RegionVerified(ask.before[r], ask.after[e][r]) <=> destroyed(e, r)
        BY <3>3, RegionTest
      <3>5. QED
        BY <3>4 DEF Verified
    <2>5. /\ answer.report = report
          /\ answer.response.code =
                 IF ~Decodes(ask.file, Limits) THEN 400
                 ELSE IF report.outcome = "blurred_verified" THEN 200 ELSE 409
      BY <2>2 DEF BlurAnswer, BlurEndpoint, IsPublishable
    <2>6. verifying \subseteq 0..MaxEscalations
          /\ \A e \in 0..MaxEscalations : e \in verifying <=> all(e)
      BY <2>4 DEF Verifying
    <2> HIDE DEF verifying, all, report
    <2>7. /\ report.outcome = "blurred_verified" <=> ask.before # <<>> /\ verifying # {}
          /\ ask.before # <<>> /\ verifying # {} => report.escalations = First(verifying)
      BY BlurOutcome DEF verifying, report
    <2>8. verifying \in SUBSET Nat /\ IsFiniteSet(verifying)
      <3>1. MaxEscalations \in Nat
        BY PhotoAssumption
      <3>2. IsFiniteSet(0..MaxEscalations)
        BY <3>1, FS_Interval
      <3>3. IsFiniteSet(verifying)
        BY <3>2, <2>6, FS_Subset
      <3>4. QED
        BY <3>1, <3>3, <2>6
    <2>9. CASE answer.response.code = 200
      <3> DEFINE first == First(verifying)
      <3>1. ask.before # <<>> /\ verifying # {} /\ answer.report.escalations = first
        BY <2>5, <2>7, <2>9
      <3>2. first \in verifying /\ \A f \in verifying : first <= f
        BY <3>1, <2>8, FirstOf
      <3> HIDE DEF first
      <3>3. first \in 0..MaxEscalations /\ all(first)
        BY <3>2, <2>6
      <3>4. \A e \in 0..(first - 1) : ~all(e)
        <4>1. TAKE e \in 0..(first - 1)
        <4>2. e \in 0..MaxEscalations /\ ~(first <= e)
          BY <3>3, PhotoAssumption
        <4>3. QED
          BY <4>2, <3>2, <2>6
      <3>5. QED
        BY <3>1, <3>3, <3>4, <2>9 DEF PublishedIsDestroyed, all
    <2>10. CASE answer.response.code # 200
      <3>1. \/ ~Decodes(ask.file, Limits)
            \/ ask.before = <<>>
            \/ verifying = {}
        BY <2>5, <2>7, <2>10
      <3>2. verifying = {} => \A e \in 0..MaxEscalations : ~all(e)
        BY <2>6
      <3>3. QED
        BY <3>1, <3>2, <2>10 DEF PublishedIsDestroyed, all
    <2>11. QED
      BY <2>9, <2>10
  <1>2. QED
    BY <1>1, RulesInvariant, PTL

-----------------------------------------------------------------------------
(* Measurements. *)

\* The two units of a draft are the same lengths.
LEMMA SameTicks ==
    ASSUME NEW m, \A n \in DOMAIN m : m[n] \in Int /\ m[n] % 50 = 0
    PROVE  /\ InTicks(InCm(m), "cm") = InTicks(m, "inch")
           /\ DOMAIN InCm(m) = DOMAIN m
           /\ \A n \in DOMAIN m : InCm(m)[n] > 0 <=> m[n] > 0
  <1>1. \A v \in Int : v % 50 = 0 =>
            ((v * 127) \div 50) * 100 = v * 254 /\ ((v * 127) \div 50 > 0 <=> v > 0)
    OBVIOUS
  <1>2. DOMAIN InCm(m) = DOMAIN m
    BY DEF InCm
  <1>3. \A n \in DOMAIN m : InCm(m)[n] = (m[n] * 127) \div 50
    BY DEF InCm
  <1>4. \A n \in DOMAIN m : Ticks(InCm(m)[n], "cm") = Ticks(m[n], "inch")
    BY <1>1, <1>3 DEF Ticks
  <1>5. QED
    BY <1>1, <1>2, <1>3, <1>4 DEF InTicks

\* The drawer lets nothing through that the server refuses, but for the named
\* cases.
LEMMA DrawerIsServer ==
    ASSUME NEW m, NEW g \in Garments, NEW slips \in BOOLEAN, DOMAIN m \subseteq Names,
           \A n \in DOMAIN m : m[n] \in Int,
           DrawerAccepts(m, "inch", g, slips), ~OnlyTheServerObjects(m)
    PROVE  ServerAccepts(m, "inch", g)
  <1> DEFINE t == InTicks(m, "inch")
  <1>1. DOMAIN t = DOMAIN m /\ \A n \in DOMAIN m : t[n] = m[n] * 254 /\ t[n] \in Int
    BY DEF InTicks, Ticks
  <1>2. /\ Required[g] \subseteq DOMAIN t
        /\ \A n \in DOMAIN t : Plausible(n, t[n])
        /\ AtMost(t, "underbust", "bust", 0)
        /\ WaistNearBustAndHip(t, slips)
    BY DEF DrawerAccepts, Kept
  <1> HIDE DEF t
  <1>3. \A n \in DOMAIN m : m[n] > 0
    <2>1. \A n \in Names : Ranges[n].min \in Nat
      BY DEF Names, Ranges, Between
    <2>2. TAKE n \in DOMAIN m
    <2>3. Ranges[n].min * 254000 <= m[n] * 254 /\ Ranges[n].min \in Nat /\ m[n] \in Int
      BY <1>1, <1>2, <2>1 DEF Plausible, Inch
    <2>4. m[n] # 0
      BY DEF OnlyTheServerObjects
    <2>5. QED
      BY <2>3, <2>4
  <1>4. \A a, b : \A slack \in Nat :
            a \in DOMAIN m /\ b \in DOMAIN m /\ ~(m[a] > m[b] + slack * 1000)
                => AtMost(t, a, b, slack)
    <2>1. TAKE a, b
    <2>2. TAKE slack \in Nat
    <2>3. SUFFICES ASSUME a \in DOMAIN m, b \in DOMAIN m, ~(m[a] > m[b] + slack * 1000)
                   PROVE  AtMost(t, a, b, slack)
      OBVIOUS
    <2>4. m[a] \in Int /\ m[b] \in Int /\ t[a] = m[a] * 254 /\ t[b] = m[b] * 254
      BY <1>1, <2>3
    <2>5. t[a] <= t[b] + slack * 254000
      BY <2>3, <2>4
    <2>6. QED
      BY <2>5 DEF AtMost, Inch
  <1>5. \A a, b : \A slack \in Nat :
            (a \notin DOMAIN m \/ b \notin DOMAIN m) => AtMost(t, a, b, slack)
    BY <1>1 DEF AtMost
  <1>6. /\ AtMost(t, "wrist", "bicep", 0) /\ AtMost(t, "knee", "thigh", 0)
        /\ AtMost(t, "kameez_length", "trouser_length", 18)
        /\ AtMost(t, "farshi_flare", "ghera", 0)
    BY <1>4, <1>5 DEF OnlyTheServerObjects
  <1>7. AtMost(t, "waist", "bust", 24) /\ AtMost(t, "waist", "hip", 24)
    <2>1. CASE Trunk \subseteq DOMAIN m
      <3> DEFINE limit == IF slips THEN 24 * Inch - 1 ELSE 24 * Inch
      <3>1. t["waist"] <= t["bust"] + limit /\ t["waist"] <= t["hip"] + limit
        BY <2>1, <1>1, <1>2 DEF WaistNearBustAndHip
      <3>2. t["waist"] \in Int /\ t["bust"] \in Int /\ t["hip"] \in Int
        BY <2>1, <1>1 DEF Trunk
      <3>3. limit \in Int /\ limit <= 24 * Inch /\ 24 * Inch \in Int
        BY DEF Inch
      <3> HIDE DEF limit
      <3>4. \A b \in {"bust", "hip"} : t["waist"] <= t[b] + 24 * Inch
        BY <3>1, <3>2, <3>3
      <3>5. QED
        BY <3>4 DEF AtMost
    <2>2. CASE ~(Trunk \subseteq DOMAIN m)
      BY <1>4, <1>5, <2>2 DEF OnlyTheServerObjects
    <2>3. QED
      BY <2>1, <2>2
  <1>8. g # "none"
    BY DEF Garments, Required
  <1>9. Coherent(t)
    BY <1>2, <1>6, <1>7 DEF Coherent
  <1>10. /\ "inch" \in Units
         /\ \A n \in DOMAIN m : m[n] > 0 /\ Plausible(n, t[n])
         /\ Required[g] \subseteq DOMAIN m
    BY <1>1, <1>2, <1>3 DEF Units
  <1>11. QED
    BY <1>9, <1>10 DEF ServerAccepts, t

\* In whatever unit, the drawer decides alike away from the bounds where its
\* floats decide.
LEMMA DrawerOfUnits ==
    ASSUME NEW m, NEW g \in Garments, NEW slips \in BOOLEAN, NEW slipsCm \in BOOLEAN,
           \A n \in DOMAIN m : m[n] \in Int, InTicks(InCm(m), "cm") = InTicks(m, "inch"),
           ~RoundingDecides(m)
    PROVE  DrawerAccepts(InCm(m), "cm", g, slipsCm) <=> DrawerAccepts(m, "inch", g, slips)
  <1> PICK t : t = InTicks(m, "inch")
    OBVIOUS
  <1>1. DOMAIN t = DOMAIN m /\ \A n \in DOMAIN m : t[n] = m[n] * 254 /\ t[n] \in Int
    BY DEF InTicks, Ticks
  <1>2. WaistNearBustAndHip(t, slips) <=> WaistNearBustAndHip(t, slipsCm)
    <2>1. CASE ~(Trunk \subseteq DOMAIN t)
      BY <2>1 DEF WaistNearBustAndHip
    <2>2. CASE Trunk \subseteq DOMAIN t
      <3>1. ASSUME NEW n \in {"bust", "hip"}
            PROVE  /\ t["waist"] \in Int /\ t[n] \in Int
                   /\ t["waist"] # t[n] + 6096000 /\ t[n] # t["waist"] + 6096000
        <4>1. "waist" \in DOMAIN m /\ n \in DOMAIN m
          BY <1>1, <2>2 DEF Trunk
        <4>2. m["waist"] - m[n] # 24000 /\ m["waist"] - m[n] # -24000
          BY <1>1, <2>2 DEF RoundingDecides
        <4>3. /\ m["waist"] \in Int /\ m[n] \in Int
              /\ t["waist"] = m["waist"] * 254 /\ t[n] = m[n] * 254
          BY <1>1, <4>1
        <4>4. QED
          BY <4>2, <4>3
      <3>2. 24 * Inch = 6096000
        BY DEF Inch
      <3>3. \A n \in {"bust", "hip"} : \A s \in BOOLEAN :
                LET limit == IF s THEN 24 * Inch - 1 ELSE 24 * Inch
                IN  /\ t["waist"] <= t[n] + limit <=> t["waist"] < t[n] + 6096000
                    /\ t[n] <= t["waist"] + limit <=> t[n] < t["waist"] + 6096000
        <4> TAKE n \in {"bust", "hip"}
        <4> TAKE s \in BOOLEAN
        <4>1. CASE s
          BY <3>1, <3>2, <4>1
        <4>2. CASE ~s
          BY <3>1, <3>2, <4>2
        <4>3. QED
          BY <4>1, <4>2
      <3>4. QED
        BY <3>3 DEF WaistNearBustAndHip
    <2>3. QED
      BY <2>1, <2>2
  <1>3. (\A n \in DOMAIN t : Plausible(n, t[n])) =>
            \A n \in RoundedUp("cm") \cap DOMAIN t : t[n] < Ranges[n].max * Inch
    <2>1. SUFFICES ASSUME "shoulder" \in DOMAIN t, Plausible("shoulder", t["shoulder"])
                   PROVE  t["shoulder"] < Ranges["shoulder"].max * Inch
      BY DEF RoundedUp
    <2>2. Ranges["shoulder"].max = 26
      BY DEF Ranges, Between
    <2>3. m["shoulder"] \in Int /\ m["shoulder"] # 26000 /\ t["shoulder"] = m["shoulder"] * 254
      BY <1>1, <2>1, <2>2 DEF RoundingDecides
    <2>4. QED
      BY <2>1, <2>2, <2>3 DEF Plausible, Inch
  <1>4. RoundedUp("inch") = {}
    BY DEF RoundedUp
  <1>5. QED
    BY <1>2, <1>3, <1>4 DEF DrawerAccepts, Kept

\* For lengths in twentieths of an inch: the server's verdict does not depend on
\* the unit (serializers.py, FitProfileSerializer), nor the drawer's away from
\* the bounds where its floats decide (units.ts, convert; fit-schema.ts), and
\* the drawer lets through what the server accepts but for the named cases.
THEOREM MeasurementsTheorem == RulesSpec => []MeasurementsAgree
  <1>1. RulesInv => MeasurementsAgree
    <2>1. SUFFICES ASSUME RulesInv, kind = "fit", answer # Unanswered
                   PROVE  MeasurementsAgree
      BY DEF MeasurementsAgree
    <2>2. PICK slips \in BOOLEAN, slipsCm \in BOOLEAN :
              ask \in Drafts /\ answer = FitAnswer(ask, slips, slipsCm)
      BY <2>1 DEF RulesInv, Questions, Answered
    <2> DEFINE m == ask.inches
               g == ask.garment
    <2>3. /\ g \in Garments /\ DOMAIN m \subseteq Names
          /\ \A n \in DOMAIN m : m[n] \in Int /\ m[n] % 50 = 0
      BY <2>2, RulesAssumption
    <2>4. /\ (answer.inch <=> ServerAccepts(m, "inch", g))
          /\ (answer.cm <=> ServerAccepts(InCm(m), "cm", g))
          /\ (answer.drawer <=> DrawerAccepts(m, "inch", g, slips))
          /\ (answer.drawerCm <=> DrawerAccepts(InCm(m), "cm", g, slipsCm))
      BY <2>2 DEF FitAnswer
    <2> HIDE DEF m, g
    <2>5. /\ InTicks(InCm(m), "cm") = InTicks(m, "inch")
          /\ DOMAIN InCm(m) = DOMAIN m
          /\ \A n \in DOMAIN m : InCm(m)[n] > 0 <=> m[n] > 0
      BY <2>3, SameTicks
    <2>6. ServerAccepts(InCm(m), "cm", g) <=> ServerAccepts(m, "inch", g)
      BY <2>5 DEF ServerAccepts, Units
    <2>7. ~RoundingDecides(m) =>
              (DrawerAccepts(InCm(m), "cm", g, slipsCm) <=> DrawerAccepts(m, "inch", g, slips))
      BY <2>3, <2>5, DrawerOfUnits
    <2>8. DrawerAccepts(m, "inch", g, slips) =>
              ServerAccepts(m, "inch", g) \/ OnlyTheServerObjects(m)
      BY <2>3, DrawerIsServer
    <2>9. QED
      BY <2>1, <2>4, <2>6, <2>7, <2>8 DEF MeasurementsAgree, m
  <1>2. QED
    BY <1>1, RulesInvariant, PTL

-----------------------------------------------------------------------------
(* Tax: regimes, rates and rounding. *)

\* Every rate of every regime, and that of an export.
TaxRates == {0, 5, 12, 18, 28, 40}

\* The regime of a day on which the tax exists is one of the two.
LEMMA RegimeOf ==
    ASSUME NEW day \in Int, RegimeExists(day)
    PROVE  ResolveRegime(day) \in {Regimes[1], Regimes[2]}
  <1> DEFINE applicable == {i \in DOMAIN Regimes : Regimes[i].from <= day}
             last == CHOOSE i \in applicable : \A j \in applicable : j <= i
  <1>1. DOMAIN Regimes = {1, 2}
    BY DEF Regimes
  <1>2. applicable # {} /\ applicable \subseteq {1, 2}
    BY <1>1 DEF RegimeExists
  <1> HIDE DEF applicable
  <1>3. \E i \in applicable : \A j \in applicable : j <= i
    <2>1. CASE 2 \in applicable
      <3>1. \A j \in applicable : j <= 2
        BY <1>2
      <3>2. QED
        BY <2>1, <3>1
    <2>2. CASE 2 \notin applicable
      <3>1. 1 \in applicable /\ \A j \in applicable : j = 1
        BY <1>2, <2>2
      <3>2. QED
        BY <3>1
    <2>3. QED
      BY <2>1, <2>2
  <1>4. last \in applicable
    BY <1>3
  <1>5. ResolveRegime(day) = Regimes[last]
    BY DEF ResolveRegime, applicable
  <1> HIDE DEF last
  <1>6. QED
    BY <1>2, <1>4, <1>5

\* What every regime says.
LEMMA RegimeFacts ==
    ASSUME NEW regime \in {Regimes[1], Regimes[2]}
    PROVE  /\ regime.permitted \subseteq TaxRates /\ None \notin regime.permitted
           /\ regime.below \in TaxRates /\ regime.above \in TaxRates
           /\ regime.below # regime.above
           /\ regime.fabric \in TaxRates /\ regime.tailoring \in TaxRates
           /\ regime.courier \in TaxRates /\ regime.threshold \in Nat
  BY DEF Regimes, TaxRates, None

\* A rate that is found is one of them.
LEMMA RateOf ==
    ASSUME NEW day \in Int, RegimeExists(day), NEW line, ResolveRate(line, day) # None,
           line.override # None => line.override \in ResolveRegime(day).permitted
    PROVE  ResolveRate(line, day) \in TaxRates
  <1> DEFINE regime == ResolveRegime(day)
  <1>1. regime \in {Regimes[1], Regimes[2]}
    BY RegimeOf
  <1>2. ResolveRate(line, day) =
            IF line.override # None THEN line.override
            ELSE IF FlatRate(line.hsn, regime) # None THEN FlatRate(line.hsn, regime)
            ELSE IF line.hsn.kind = "apparel" THEN SlabRate(line, regime)
            ELSE None
    BY DEF ResolveRate
  <1>3. line.override # None => line.override \in regime.permitted
    OBVIOUS
  <1> HIDE DEF regime
  <1>4. FlatRate(line.hsn, regime) \in TaxRates \cup {None}
    BY <1>1, RegimeFacts DEF FlatRate
  <1>5. SlabRate(line, regime) \in TaxRates
    BY <1>1, RegimeFacts DEF SlabRate
  <1>6. regime.permitted \subseteq TaxRates
    BY <1>1, RegimeFacts
  <1>7. QED
    BY <1>2, <1>3, <1>4, <1>5, <1>6

\* Rounding a tax, half of it, and a price net of it.
LEMMA TaxRounding ==
    ASSUME NEW v \in Nat, NEW rate \in TaxRates
    PROVE  /\ RoundDiv(v * rate, 100) \in Nat /\ RoundDiv(v * rate, 200) \in Nat
           /\ RoundDiv(v * rate, 200) <= RoundDiv(v * rate, 100)
           /\ NetOfTax(v, rate) \in Nat
           /\ NetOfTax(v, rate) + RoundDiv(NetOfTax(v, rate) * rate, 100) - v \in -1..1
           /\ NetOfTax(v, 0) = v /\ RoundDiv(v * 0, 100) = 0
  <1>1. CASE rate = 0
    BY <1>1 DEF RoundDiv, NetOfTax
  <1>2. CASE rate = 5
    BY <1>2 DEF RoundDiv, NetOfTax
  <1>3. CASE rate = 12
    BY <1>3 DEF RoundDiv, NetOfTax
  <1>4. CASE rate = 18
    BY <1>4 DEF RoundDiv, NetOfTax
  <1>5. CASE rate = 28
    BY <1>5 DEF RoundDiv, NetOfTax
  <1>6. CASE rate = 40
    BY <1>6 DEF RoundDiv, NetOfTax
  <1>7. QED
    BY <1>1, <1>2, <1>3, <1>4, <1>5, <1>6 DEF TaxRates

-----------------------------------------------------------------------------
(* The tax of a line. *)

\* A line of an answer: its amounts, and what its tax is made of.
Taxed(x) ==
    /\ x.taxable \in Nat /\ x.cgst \in Nat /\ x.sgst \in Nat /\ x.igst \in Nat
    /\ x.tax = x.cgst + x.sgst + x.igst
    /\ x.tax \in Nat

\* The rate of a line, and its value net of tax.
RateAt(line, place, day) ==
    IF SupplyType(place) = "export" THEN 0 ELSE ResolveRate(line, day)

\* What the engine needs of a line to tax it.
Taxable(line, place, day) ==
    /\ line.inclusive \in BOOLEAN
    /\ Net(line) \in Nat
    /\ RateAt(line, place, day) \in TaxRates

\* What a line is charged: its whole tax, in whatever parts, or none abroad.
LEMMA LineTaxed ==
    ASSUME NEW line, NEW place, NEW day, Taxable(line, place, day)
    PROVE  /\ Taxed(LineTax(line, place, day))
           /\ LineTax(line, place, day).rate = RateAt(line, place, day)
           /\ LineTax(line, place, day).taxable =
                  TaxableValue(line, RateAt(line, place, day))
           /\ LineTax(line, place, day).tax =
                  IF SupplyType(place) = "export" THEN 0
                  ELSE RoundDiv(TaxableValue(line, RateAt(line, place, day))
                                    * RateAt(line, place, day), 100)
           /\ SupplyType(place) = "export" =>
                  /\ LineTax(line, place, day).cgst = 0
                  /\ LineTax(line, place, day).sgst = 0
                  /\ LineTax(line, place, day).igst = 0
           /\ line.inclusive /\ SupplyType(place) # "export" =>
                  LineTax(line, place, day).taxable + LineTax(line, place, day).tax
                      - Net(line) \in -1..1
  <1> DEFINE supply  == SupplyType(place)
             rate    == RateAt(line, place, day)
             value   == TaxableValue(line, rate)
             halves  == IF supply = "intra_state" THEN Halves(value, rate)
                        ELSE [cgst |-> 0, sgst |-> 0]
             igst    == IF supply = "inter_state" THEN RoundDiv(value * rate, 100) ELSE 0
             whole   == RoundDiv(value * rate, 100)
             half    == RoundDiv(value * rate, 200)
             x       == LineTax(line, place, day)
  <1>1. x = [rate |-> rate, taxable |-> value, cgst |-> halves.cgst,
             sgst |-> halves.sgst, igst |-> igst,
             tax |-> halves.cgst + halves.sgst + igst]
    BY DEF LineTax, RateAt
  <1>2. rate \in TaxRates /\ Net(line) \in Nat
    BY DEF Taxable
  <1>3. value = IF line.inclusive THEN NetOfTax(Net(line), rate) ELSE Net(line)
    BY DEF TaxableValue
  <1>4. supply \in {"export", "intra_state", "inter_state"}
    BY DEF SupplyType
  <1>5. halves = IF supply = "intra_state" THEN [cgst |-> half, sgst |-> whole - half]
                 ELSE [cgst |-> 0, sgst |-> 0]
    BY DEF Halves
  <1>6. igst = IF supply = "inter_state" THEN whole ELSE 0
    OBVIOUS
  <1> HIDE DEF rate, halves, igst, x
  <1>7. value \in Nat
    BY <1>2, <1>3, TaxRounding
  <1>8. whole \in Nat /\ half \in Nat /\ half <= whole
    BY <1>2, <1>7, TaxRounding
  <1>9. line.inclusive => value + whole - Net(line) \in -1..1
    BY <1>2, <1>3, TaxRounding
  <1> HIDE DEF value, whole, half, supply
  <1>10. /\ x.rate = rate /\ x.taxable = value /\ x.cgst = halves.cgst
         /\ x.sgst = halves.sgst /\ x.igst = igst
         /\ x.tax = halves.cgst + halves.sgst + igst
    BY <1>1
  <1>11. CASE supply = "export"
    <2>1. halves.cgst = 0 /\ halves.sgst = 0 /\ igst = 0
      BY <1>5, <1>6, <1>11
    <2>2. /\ Taxed(x) /\ x.tax = 0 /\ x.rate = rate /\ x.taxable = value
          /\ x.cgst = 0 /\ x.sgst = 0 /\ x.igst = 0
      BY <1>7, <1>10, <2>1 DEF Taxed
    <2>3. QED
      BY <2>2, <1>11 DEF x, supply, rate, value
  <1>12. CASE supply # "export"
    <2>1. \/ halves.cgst = half /\ halves.sgst = whole - half /\ igst = 0
          \/ halves.cgst = 0 /\ halves.sgst = 0 /\ igst = whole
      BY <1>4, <1>5, <1>6, <1>12
    <2>2. Taxed(x) /\ x.tax = whole /\ x.rate = rate /\ x.taxable = value
      <3>1. half + (whole - half) + 0 = whole /\ 0 + 0 + whole = whole
        BY <1>8
      <3>2. whole - half \in Nat
        BY <1>8
      <3>3. CASE halves.cgst = half /\ halves.sgst = whole - half /\ igst = 0
        <4>1. x.cgst = half /\ x.sgst = whole - half /\ x.igst = 0 /\ x.tax = whole
          BY <1>10, <3>1, <3>3
        <4>2. x.tax = x.cgst + x.sgst + x.igst
          BY <3>1, <4>1
        <4>3. QED
          BY <1>7, <1>8, <1>10, <3>2, <4>1, <4>2 DEF Taxed
      <3>4. CASE halves.cgst = 0 /\ halves.sgst = 0 /\ igst = whole
        <4>1. x.cgst = 0 /\ x.sgst = 0 /\ x.igst = whole /\ x.tax = whole
          BY <1>10, <3>1, <3>4
        <4>2. x.tax = x.cgst + x.sgst + x.igst
          BY <3>1, <4>1
        <4>3. QED
          BY <1>7, <1>8, <1>10, <4>1, <4>2 DEF Taxed
      <3>5. QED
        BY <2>1, <3>3, <3>4
    <2>3. line.inclusive => x.taxable + x.tax - Net(line) \in -1..1
      BY <2>2, <1>9
    <2>4. QED
      BY <2>2, <2>3, <1>12 DEF x, supply, rate, value, whole
  <1>13. QED
    BY <1>11, <1>12

-----------------------------------------------------------------------------
(* The lines of a quote. *)

Goods(order) ==
    [i \in DOMAIN order.lines |-> LineTax(order.lines[i], order.place, order.day)]

Courier(order) == ShippingLine(order.shipping, Goods(order), ResolveRegime(order.day))

\* Every line of an order that is accepted can be taxed.
LEMMA GoodsTaxable ==
    ASSUME NEW order \in Baskets, Accepts(order), NEW i \in DOMAIN order.lines
    PROVE  /\ Taxable(order.lines[i], order.place, order.day)
           /\ order.lines[i].quantity \in Nat \ {0}
           /\ order.place.country = "IN" =>
                 ResolveRate(order.lines[i], order.day) \in TaxRates
  <1> DEFINE line == order.lines[i]
             day  == order.day
  <1>1. line \in TaxLines /\ day \in Int
    BY RulesAssumption, ElementOfSeq
  <1>2. ValidLine(line, day) /\ Resolves(line, order.place, day) /\ RegimeExists(day)
    BY DEF Accepts, ValidRequest
  <1> HIDE DEF line, day
  <1>3. /\ line.inclusive \in BOOLEAN /\ line.price \in Int /\ line.quantity \in Int
        /\ line.discount \in Int
    BY <1>1 DEF TaxLines
  <1>4. line.price * line.quantity \in Int
    BY <1>3
  <1>5. Net(line) \in Nat /\ line.quantity \in Nat \ {0}
    BY <1>2, <1>3, <1>4 DEF ValidLine, Net
  <1>6. SupplyType(order.place) # "export" => ResolveRate(line, day) \in TaxRates
    BY <1>1, <1>2, RateOf DEF ValidLine, Lawful, Resolves
  <1>7. RateAt(line, order.place, day) \in TaxRates
    BY <1>6 DEF RateAt, TaxRates
  <1>8. order.place.country = "IN" => SupplyType(order.place) # "export"
    BY DEF SupplyType
  <1>9. QED
    BY <1>3, <1>5, <1>6, <1>7, <1>8 DEF Taxable, line, day

\* So can the shipping, whatever rate the goods have.
LEMMA CourierTaxable ==
    ASSUME NEW order \in Baskets, Accepts(order), NEW place
    PROVE  Taxable(Courier(order), place, order.day)
  <1> DEFINE line == Courier(order)
             regime == ResolveRegime(order.day)
             rates == {Goods(order)[i].rate : i \in DOMAIN Goods(order)}
             principal == CHOOSE r \in rates : \A s \in rates : s <= r
  <1>1. order.day \in Int /\ order.shipping \in Nat /\ RegimeExists(order.day)
    <2>1. order.day \in Int /\ order.shipping \in Nat /\ order.lines \in Seq(TaxLines)
      BY RulesAssumption
    <2>2. QED
      BY <2>1 DEF Accepts
  <1>2. /\ line.inclusive = FALSE /\ line.price = order.shipping /\ line.quantity = 1
        /\ line.discount = 0
        /\ line.override = IF principal \in regime.permitted THEN principal
                           ELSE regime.courier
    BY DEF Courier, ShippingLine
  <1> HIDE DEF principal, line
  <1>3. regime \in {Regimes[1], Regimes[2]}
    BY <1>1, RegimeOf
  <1>4. line.override \in TaxRates /\ line.override # None
    BY <1>2, <1>3, RegimeFacts DEF TaxRates, None
  <1>5. RateAt(line, place, order.day) \in TaxRates
    BY <1>4 DEF RateAt, ResolveRate, TaxRates
  <1>6. Net(line) \in Nat
    BY <1>1, <1>2 DEF Net
  <1>7. QED
    BY <1>2, <1>5, <1>6 DEF Taxable, line

\* The lines of a quote are those of the order and perhaps its shipping.
LEMMA LinesOfQuote ==
    ASSUME NEW order, NEW n \in Nat, DOMAIN order.lines = 1..n
    PROVE  LET lines == AllLines(order)
               all == IF order.shipping = 0 THEN n ELSE n + 1
           IN  /\ DOMAIN lines = 1..all
               /\ \A i \in 1..n :
                     lines[i] = LineTax(order.lines[i], order.place, order.day)
               /\ order.shipping # 0 =>
                     lines[n + 1] = LineTax(Courier(order), order.place, order.day)
  <1> DEFINE goods == Goods(order)
             last == LineTax(Courier(order), order.place, order.day)
             S == {goods[i] : i \in 1..n} \cup {last}
  <1>1. AllLines(order) = IF order.shipping = 0 THEN goods ELSE Append(goods, last)
    BY DEF AllLines, Goods, Courier
  <1>2. DOMAIN goods = 1..n
        /\ \A i \in 1..n : goods[i] = LineTax(order.lines[i], order.place, order.day)
    BY DEF Goods
  <1>3. goods \in Seq(S) /\ Len(goods) = n /\ last \in S
    <2>1. goods = [i \in 1..n |-> LineTax(order.lines[i], order.place, order.day)]
      BY DEF Goods
    <2> DEFINE g == goods
    <2>2. \A i \in 1..n : g[i] \in S
      OBVIOUS
    <2>3. g = [i \in 1..n |-> g[i]] /\ last \in S
      BY <2>1
    <2> HIDE DEF g, S
    <2>4. g \in Seq(S) /\ Len(g) = n
      BY <2>2, <2>3
    <2>5. QED
      BY <2>3, <2>4 DEF g
  <1> HIDE DEF goods, last, S
  <1>4. /\ Append(goods, last) \in Seq(S) /\ Len(Append(goods, last)) = n + 1
        /\ \A i \in 1..n : Append(goods, last)[i] = goods[i]
        /\ Append(goods, last)[n + 1] = last
    BY <1>3, AppendProperties
  <1>5. DOMAIN Append(goods, last) = 1..(n + 1)
    BY <1>4
  <1>6. QED
    BY <1>1, <1>2, <1>4, <1>5 DEF last

\* The numbers of the lines of an order.
LEMMA OrderLines ==
    ASSUME NEW order \in Baskets
    PROVE  \E n \in Nat : DOMAIN order.lines = 1..n
  <1>1. order.lines \in Seq(TaxLines)
    BY RulesAssumption
  <1>2. QED
    BY <1>1

\* A tax answer is that of an order which the engine accepts.
LEMMA QuoteOf ==
    ASSUME RulesInv, kind = "tax", answer \notin {Unanswered, Refused, Failed}
    PROVE  ask \in Baskets /\ Accepts(ask) /\ answer = Breakdown(ask)
  BY DEF RulesInv, Questions, Answered, TaxQuote

-----------------------------------------------------------------------------
(* The slabs. *)

\* If either rate explains the value it leaves, the one that is charged does.
LEMMA SlabExplains ==
    ASSUME NEW line, NEW regime \in {Regimes[1], Regimes[2]},
           Net(line) \in Nat, line.quantity \in Nat \ {0}, line.inclusive \in BOOLEAN,
           \E r \in {regime.below, regime.above} : Explained(line, r, regime)
    PROVE  Explained(line, SlabRate(line, regime), regime)
  <1> DEFINE perPiece == RoundDiv(Net(line), line.quantity)
             low  == IF line.inclusive THEN NetOfTax(perPiece, regime.below) ELSE perPiece
             high == IF line.inclusive THEN NetOfTax(perPiece, regime.above) ELSE perPiece
             limit == regime.threshold
  <1>1. regime.below # regime.above /\ limit \in Nat
    BY RegimeFacts
  <1>2. perPiece \in Nat
    BY DEF RoundDiv
  <1>3. low \in Nat /\ high \in Nat
    <2>1. regime.below \in TaxRates /\ regime.above \in TaxRates
      BY RegimeFacts
    <2> HIDE DEF perPiece
    <2>2. NetOfTax(perPiece, regime.below) \in Nat /\ NetOfTax(perPiece, regime.above) \in Nat
      BY <1>2, <2>1, TaxRounding
    <2>3. QED
      BY <1>2, <2>2
  <1>4. /\ (Explained(line, regime.below, regime) <=> low <= limit)
        /\ (Explained(line, regime.above, regime) <=> ~(high <= limit))
    BY <1>1 DEF Explained
  <1>5. PerPieceTaxableValue(line, regime) =
            IF line.inclusive THEN IF high > limit THEN high ELSE low ELSE perPiece
    BY DEF PerPieceTaxableValue, InclusivePerPiece
  <1>6. SlabRate(line, regime) = IF PerPieceTaxableValue(line, regime) <= limit
                                 THEN regime.below ELSE regime.above
    BY DEF SlabRate
  <1>7. low <= limit \/ ~(high <= limit)
    BY <1>4
  <1>8. ~line.inclusive => low = perPiece /\ high = perPiece
    OBVIOUS
  <1> HIDE DEF perPiece, low, high, limit
  <1>9. CASE ~(high <= limit)
    <2>1. SlabRate(line, regime) = regime.above
      BY <1>1, <1>3, <1>5, <1>6, <1>8, <1>9
    <2>2. QED
      BY <1>4, <1>9, <2>1
  <1>10. CASE high <= limit
    <2>1. SlabRate(line, regime) = regime.below
      BY <1>1, <1>3, <1>5, <1>6, <1>7, <1>8, <1>10
    <2>2. QED
      BY <1>4, <1>7, <1>10, <2>1
  <1>11. QED
    BY <1>9, <1>10

\* The rate of an apparel line is one that explains its value, if there is one
\* (SlabExplainsRate).
THEOREM SlabTheorem == RulesSpec => []SlabExplainsRate
  <1>1. RulesInv => SlabExplainsRate
    <2>1. SUFFICES ASSUME RulesInv, kind = "tax", answer \notin {Unanswered, Refused, Failed},
                          ask.place.country = "IN", NEW i \in DOMAIN ask.lines,
                          ask.lines[i].hsn.kind = "apparel",
                          ask.lines[i].override = None,
                          \E r \in {ResolveRegime(ask.day).below,
                                    ResolveRegime(ask.day).above} :
                              Explained(ask.lines[i], r, ResolveRegime(ask.day))
                   PROVE  Explained(ask.lines[i], answer.lines[i].rate,
                                    ResolveRegime(ask.day))
      BY DEF SlabExplainsRate
    <2> DEFINE line == ask.lines[i]
               regime == ResolveRegime(ask.day)
    <2>2. ask \in Baskets /\ Accepts(ask) /\ answer = Breakdown(ask)
      BY <2>1, QuoteOf
    <2>3. regime \in {Regimes[1], Regimes[2]}
      <3>1. ask.day \in Int
        BY <2>2, RulesAssumption
      <3>2. RegimeExists(ask.day)
        BY <2>2 DEF Accepts
      <3>3. QED
        BY <3>1, <3>2, RegimeOf
    <2>4. /\ Taxable(line, ask.place, ask.day) /\ line.quantity \in Nat \ {0}
      BY <2>1, <2>2, GoodsTaxable
    <2>5. answer.lines = AllLines(ask)
      BY <2>2 DEF Breakdown, Totals
    <2>6. answer.lines[i] = LineTax(line, ask.place, ask.day)
      <3>1. PICK n \in Nat : DOMAIN ask.lines = 1..n
        BY <2>2, OrderLines
      <3>2. QED
        BY <2>5, <3>1, LinesOfQuote
    <2>7. answer.lines[i].rate = ResolveRate(line, ask.day)
      BY <2>1, <2>4, <2>6, LineTaxed DEF RateAt, SupplyType
    <2>8. FlatRate(line.hsn, regime) = None
      BY <2>1 DEF FlatRate
    <2>9. ResolveRate(line, ask.day) = SlabRate(line, regime)
      BY <2>1, <2>8 DEF ResolveRate
    <2>10. Explained(line, SlabRate(line, regime), regime)
      BY <2>1, <2>3, <2>4, SlabExplains DEF Taxable
    <2>11. QED
      BY <2>7, <2>9, <2>10
  <1>2. QED
    BY <1>1, RulesInvariant, PTL

-----------------------------------------------------------------------------
(* The totals. *)

\* One field of every line.
Column(lines, field) == [i \in DOMAIN lines |-> lines[i][field]]

\* The totals of taxed lines: the summary by rate accounts for them, and the
\* parts of the tax are the tax of the lines.
LEMMA TotalsOf ==
    ASSUME NEW lines, IsFiniteSet(DOMAIN lines), \A i \in DOMAIN lines : Taxed(lines[i])
    PROVE  LET quote == Totals(lines)
               InSummary(field) ==
                   SumFunction([r \in DOMAIN quote.summary |-> quote.summary[r][field]])
           IN  /\ quote.lines = lines
               /\ quote.tax = SumFunctionOnSet(Column(lines, "tax"), DOMAIN lines)
               /\ quote.taxable \in Nat /\ quote.grand = quote.taxable + quote.tax
               /\ InSummary("taxable") = quote.taxable /\ InSummary("tax") = quote.tax
  <1> DEFINE D == DOMAIN lines
             quote == Totals(lines)
             All(field) == SumFunctionOnSet(Column(lines, field), D)
             rates == {lines[i].rate : i \in D}
             RatedAt(r) == {i \in D : lines[i].rate = r}
  <1>1. \A i \in D : /\ Column(lines, "taxable")[i] \in Nat
                     /\ Column(lines, "cgst")[i] \in Nat /\ Column(lines, "sgst")[i] \in Nat
                     /\ Column(lines, "igst")[i] \in Nat /\ Column(lines, "tax")[i] \in Nat
                     /\ Column(lines, "tax")[i] = Column(lines, "cgst")[i]
                            + Column(lines, "sgst")[i] + Column(lines, "igst")[i]
    BY DEF Column, Taxed
  <1>2. /\ quote.lines = lines /\ quote.taxable = All("taxable")
        /\ quote.tax = All("cgst") + All("sgst") + All("igst")
        /\ quote.grand = quote.taxable + quote.tax /\ quote.summary = RateSummary(lines)
    BY DEF Totals, Total, Column
  <1>3. All("tax") = All("cgst") + All("sgst") + All("igst")
    <2> DEFINE c == Column(lines, "cgst")
               s == Column(lines, "sgst")
               g == Column(lines, "igst")
               t == Column(lines, "tax")
               u == [i \in D |-> c[i] + s[i]]
    <2>1. \A i \in D : c[i] \in Nat /\ s[i] \in Nat /\ g[i] \in Nat
                       /\ t[i] = c[i] + s[i] + g[i]
      BY <1>1
    <2> HIDE DEF c, s, g, t
    <2>2. \A i \in D : u[i] = c[i] + s[i] /\ u[i] \in Nat
      BY <2>1
    <2>3. \A i \in D : t[i] = u[i] + g[i]
      BY <2>1, <2>2
    <2> HIDE DEF u
    <2>4. SumFunctionOnSet(u, D) = SumFunctionOnSet(c, D) + SumFunctionOnSet(s, D)
      BY <2>1, <2>2, SumAdd
    <2>5. SumFunctionOnSet(t, D) = SumFunctionOnSet(u, D) + SumFunctionOnSet(g, D)
      BY <2>1, <2>2, <2>3, SumAdd
    <2>6. QED
      BY <2>4, <2>5 DEF c, s, g, t
  <1>4. All("taxable") \in Nat
    BY <1>1, SumIsNat
  <1>5. /\ DOMAIN quote.summary = rates
        /\ \A r \in rates :
              /\ quote.summary[r]["taxable"] =
                    SumFunctionOnSet(Column(lines, "taxable"), RatedAt(r))
              /\ quote.summary[r]["tax"] = SumFunctionOnSet(Column(lines, "tax"), RatedAt(r))
    BY <1>2 DEF RateSummary, Total, Column
  <1>6. ASSUME NEW field \in {"taxable", "tax"}
        PROVE  SumFunction([r \in DOMAIN quote.summary |-> quote.summary[r][field]])
                   = All(field)
    <2> DEFINE f == Column(lines, field)
               by == [r \in DOMAIN quote.summary |-> quote.summary[r][field]]
               key == [i \in D |-> lines[i].rate]
               V == rates
    <2>1. \A i \in D : f[i] \in Nat
      BY <1>1, <1>6
    <2>2. V = {key[i] : i \in D} /\ \A i \in D : key[i] \in V
      OBVIOUS
    <2>3. \A r \in V : RatedAt(r) = {i \in D : key[i] = r}
      OBVIOUS
    <2>4. \A r \in V : by[r] = SumFunctionOnSet(f, {i \in D : key[i] = r})
      BY <1>5, <1>6, <2>3
    <2>5. SumFunction(by) = SumFunctionOnSet(by, V)
      BY <1>5 DEF SumFunction
    <2>6. IsFiniteSet(D)
      OBVIOUS
    <2> HIDE DEF f, by, key, V, D
    <2>7. IsFiniteSet(V)
      BY <2>2, <2>6, KeysFinite
    <2>8. GroupSums(D, f, V, key, by)
      BY <2>1, <2>2, <2>4, <2>6, <2>7 DEF GroupSums
    <2>9. SumFunctionOnSet(by, V) = SumFunctionOnSet(f, D)
      BY <2>8, SumByGroups
    <2>10. QED
      BY <2>5, <2>9 DEF f, by
  <1>7. QED
    BY <1>2, <1>3, <1>4, <1>6 DEF D

\* The same order, for any place in the country.
Sent(order, place) == [order EXCEPT !.place = place]

KA == [country |-> "IN", state |-> "KA"]

\* An order sent to another place is the same order otherwise.
LEMMA SentTo ==
    ASSUME NEW order \in Baskets, NEW place
    PROVE  /\ Sent(order, place).lines = order.lines /\ Sent(order, place).place = place
           /\ Sent(order, place).shipping = order.shipping
           /\ Sent(order, place).day = order.day
  <1>1. order = [lines |-> order.lines, place |-> order.place,
                 shipping |-> order.shipping, day |-> order.day]
    BY RulesAssumption
  <1>2. [order EXCEPT !.place = place] =
            [lines |-> order.lines, place |-> place, shipping |-> order.shipping,
             day |-> order.day]
    BY <1>1
  <1>3. QED
    BY <1>2 DEF Sent

\* Wherever in the country it goes, a line is taxed the same.
LEMMA SameTax ==
    ASSUME NEW line, NEW place, NEW there, NEW day, Taxable(line, place, day),
           place.country = "IN", there.country = "IN"
    PROVE  /\ Taxable(line, there, day)
           /\ LineTax(line, there, day).rate = LineTax(line, place, day).rate
           /\ LineTax(line, there, day).tax = LineTax(line, place, day).tax
  <1>1. SupplyType(place) # "export" /\ SupplyType(there) # "export"
    BY DEF SupplyType
  <1>2. RateAt(line, there, day) = RateAt(line, place, day)
    BY <1>1 DEF RateAt
  <1>3. Taxable(line, there, day)
    BY <1>2 DEF Taxable
  <1>4. QED
    BY <1>1, <1>2, <1>3, LineTaxed

\* So the goods have the same rates, and the shipping follows the same one.
LEMMA SameCourier ==
    ASSUME NEW order \in Baskets, Accepts(order), order.place.country = "IN"
    PROVE  Courier(Sent(order, KA)) = Courier(order)
  <1> DEFINE sent == Sent(order, KA)
             D == DOMAIN order.lines
             there == Goods(sent)
             here == Goods(order)
  <1>1. sent.lines = order.lines /\ sent.place = KA /\ sent.shipping = order.shipping
        /\ sent.day = order.day
    BY SentTo
  <1>2. DOMAIN there = D /\ DOMAIN here = D
    BY <1>1 DEF Goods
  <1>3. \A i \in D : there[i].rate = here[i].rate
    <2>1. TAKE i \in D
    <2>2. Taxable(order.lines[i], order.place, order.day)
      BY GoodsTaxable
    <2>3. LineTax(order.lines[i], KA, order.day).rate
              = LineTax(order.lines[i], order.place, order.day).rate
      BY <2>2, SameTax DEF KA
    <2>4. there[i] = LineTax(order.lines[i], KA, order.day)
          /\ here[i] = LineTax(order.lines[i], order.place, order.day)
      BY <1>1 DEF Goods
    <2>5. QED
      BY <2>3, <2>4
  <1> HIDE DEF there, here
  <1>4. {there[i].rate : i \in DOMAIN there} = {here[i].rate : i \in DOMAIN here}
    BY <1>2, <1>3
  <1>5. ShippingLine(order.shipping, there, ResolveRegime(order.day))
            = ShippingLine(order.shipping, here, ResolveRegime(order.day))
    <2> DEFINE regime == ResolveRegime(order.day)
               Principal(rates) == CHOOSE r \in rates : \A s \in rates : s <= r
               TaxAt(rates) ==
                  [price |-> order.shipping, quantity |-> 1, discount |-> 0,
                   inclusive |-> FALSE, hsn |-> [kind |-> "courier", long |-> FALSE],
                   override |-> IF Principal(rates) \in regime.permitted
                                THEN Principal(rates) ELSE regime.courier]
    <2>1. /\ ShippingLine(order.shipping, there, regime)
                = TaxAt({there[i].rate : i \in DOMAIN there})
          /\ ShippingLine(order.shipping, here, regime)
                = TaxAt({here[i].rate : i \in DOMAIN here})
      BY Zenon DEF ShippingLine
    <2> HIDE DEF TaxAt
    <2>2. QED
      BY <1>4, <2>1
  <1>6. QED
    BY <1>1, <1>5 DEF Courier, there, here

\* The lines of a quote, shipping included: each is the tax of a line that can
\* be taxed.
LEMMA QuoteLines ==
    ASSUME NEW order \in Baskets, Accepts(order)
    PROVE  LET lines == AllLines(order)
               away  == AllLines(Sent(order, KA))
           IN  /\ IsFiniteSet(DOMAIN lines) /\ DOMAIN away = DOMAIN lines
               /\ DOMAIN order.lines \subseteq DOMAIN lines
               /\ \A i \in DOMAIN lines :
                     /\ Taxed(lines[i])
                     /\ order.place.country = "IN" =>
                           Taxed(away[i]) /\ away[i].tax = lines[i].tax
                     /\ order.place.country # "IN" => lines[i].tax = 0
               /\ \A i \in DOMAIN order.lines :
                     order.place.country = "IN" /\ order.lines[i].inclusive =>
                         lines[i].taxable + lines[i].tax - Net(order.lines[i]) \in -1..1
  <1> DEFINE sent == Sent(order, KA)
             lines == AllLines(order)
             away == AllLines(sent)
             all(n) == IF order.shipping = 0 THEN n ELSE n + 1
  <1>1. PICK n \in Nat : DOMAIN order.lines = 1..n
    BY OrderLines
  <1>2. sent.lines = order.lines /\ sent.place = KA /\ sent.shipping = order.shipping
        /\ sent.day = order.day
    BY SentTo
  <1>3. /\ DOMAIN lines = 1..all(n)
        /\ \A i \in 1..n : lines[i] = LineTax(order.lines[i], order.place, order.day)
        /\ order.shipping # 0 => lines[n + 1] = LineTax(Courier(order), order.place, order.day)
    BY <1>1, LinesOfQuote
  <1>4. /\ DOMAIN away = 1..all(n)
        /\ \A i \in 1..n : away[i] = LineTax(order.lines[i], KA, order.day)
        /\ order.shipping # 0 => away[n + 1] = LineTax(Courier(sent), KA, order.day)
    BY <1>1, <1>2, LinesOfQuote
  <1>5. order.shipping \in Nat /\ KA.country = "IN"
    BY RulesAssumption DEF KA
  <1> HIDE DEF lines, away, sent
  <1>6. \A line : Taxable(line, order.place, order.day) =>
            /\ Taxed(LineTax(line, order.place, order.day))
            /\ order.place.country = "IN" =>
                  /\ Taxed(LineTax(line, KA, order.day))
                  /\ LineTax(line, KA, order.day).tax
                        = LineTax(line, order.place, order.day).tax
            /\ order.place.country # "IN" => LineTax(line, order.place, order.day).tax = 0
    <2>1. SUFFICES ASSUME NEW line, Taxable(line, order.place, order.day)
                   PROVE  /\ Taxed(LineTax(line, order.place, order.day))
                          /\ order.place.country = "IN" =>
                                /\ Taxed(LineTax(line, KA, order.day))
                                /\ LineTax(line, KA, order.day).tax
                                      = LineTax(line, order.place, order.day).tax
                          /\ order.place.country # "IN" =>
                                LineTax(line, order.place, order.day).tax = 0
      OBVIOUS
    <2>2. Taxed(LineTax(line, order.place, order.day))
      BY <2>1, LineTaxed
    <2>3. order.place.country # "IN" => LineTax(line, order.place, order.day).tax = 0
      BY <2>1, LineTaxed DEF SupplyType
    <2>4. order.place.country = "IN" =>
              /\ Taxable(line, KA, order.day)
              /\ LineTax(line, KA, order.day).tax
                    = LineTax(line, order.place, order.day).tax
      BY <2>1, <1>5, SameTax
    <2>5. order.place.country = "IN" => Taxed(LineTax(line, KA, order.day))
      BY <2>4, LineTaxed
    <2>6. QED
      BY <2>2, <2>3, <2>4, <2>5
  <1>7. \A i \in 1..n : Taxable(order.lines[i], order.place, order.day)
    BY <1>1, GoodsTaxable
  <1>8. Taxable(Courier(order), order.place, order.day)
    BY CourierTaxable
  <1>9. order.place.country = "IN" => Courier(sent) = Courier(order)
    BY SameCourier DEF sent
  <1>10. ASSUME NEW i \in 1..all(n)
         PROVE  /\ Taxed(lines[i])
                /\ order.place.country = "IN" => Taxed(away[i]) /\ away[i].tax = lines[i].tax
                /\ order.place.country # "IN" => lines[i].tax = 0
    <2>1. CASE i \in 1..n
      BY <2>1, <1>3, <1>4, <1>6, <1>7
    <2>2. CASE i \notin 1..n
      <3>1. i = n + 1 /\ order.shipping # 0
        BY <2>2, <1>10
      <3>2. QED
        BY <3>1, <1>3, <1>4, <1>6, <1>8, <1>9
    <2>3. QED
      BY <2>1, <2>2
  <1>11. ASSUME NEW i \in 1..n, order.place.country = "IN", order.lines[i].inclusive
         PROVE  lines[i].taxable + lines[i].tax - Net(order.lines[i]) \in -1..1
    <2>1. SupplyType(order.place) # "export"
      BY <1>11 DEF SupplyType
    <2>2. Taxable(order.lines[i], order.place, order.day)
      BY <1>7
    <2>3. QED
      BY <2>1, <2>2, <1>3, <1>11, LineTaxed
  <1>12. IsFiniteSet(1..all(n)) /\ 1..n \subseteq 1..all(n)
    <2>1. all(n) \in Int /\ n <= all(n)
      OBVIOUS
    <2>2. QED
      BY <2>1, FS_Interval
  <1>13. QED
    BY <1>1, <1>3, <1>4, <1>10, <1>11, <1>12 DEF lines, away, sent

\* A quote's books balance (TaxAddsUp).
THEOREM TaxTheorem == RulesSpec => []TaxAddsUp
  <1>1. RulesInv => TaxAddsUp
    <2>1. SUFFICES ASSUME RulesInv, kind = "tax", answer \notin {Unanswered, Refused, Failed}
                   PROVE  TaxAddsUp
      BY DEF TaxAddsUp
    <2>2. ask \in Baskets /\ Accepts(ask) /\ answer = Breakdown(ask)
      BY <2>1, QuoteOf
    <2> DEFINE lines == AllLines(ask)
               away  == AllLines(Sent(ask, KA))
               D     == DOMAIN lines
               home  == ask.place.country = "IN"
               InSummary(field) ==
                  SumFunction([r \in DOMAIN answer.summary |-> answer.summary[r][field]])
    <2>3. /\ IsFiniteSet(D) /\ DOMAIN away = D /\ DOMAIN ask.lines \subseteq D
          /\ \A i \in D :
                /\ Taxed(lines[i])
                /\ home => Taxed(away[i]) /\ away[i].tax = lines[i].tax
                /\ ~home => lines[i].tax = 0
          /\ \A i \in DOMAIN ask.lines :
                home /\ ask.lines[i].inclusive =>
                    lines[i].taxable + lines[i].tax - Net(ask.lines[i]) \in -1..1
      BY <2>2, QuoteLines
    <2>4. answer = Totals(lines) /\ Breakdown([ask EXCEPT !.place =
                                          [country |-> "IN", state |-> "KA"]]) = Totals(away)
      BY <2>2 DEF Breakdown, Sent, KA
    <2> HIDE DEF lines, away
    <2>5. /\ answer.lines = lines
          /\ answer.tax = SumFunctionOnSet(Column(lines, "tax"), D)
          /\ answer.taxable \in Nat /\ answer.grand = answer.taxable + answer.tax
          /\ InSummary("taxable") = answer.taxable /\ InSummary("tax") = answer.tax
      BY <2>3, <2>4, TotalsOf
    <2>6. ASSUME home
          PROVE  /\ Totals(away).lines = away
                 /\ Totals(away).tax = answer.tax
      <3>1. /\ Totals(away).lines = away
            /\ Totals(away).tax = SumFunctionOnSet(Column(away, "tax"), DOMAIN away)
        BY <2>3, <2>6, TotalsOf
      <3>2. \A i \in D : /\ Column(lines, "tax")[i] \in Nat
                         /\ Column(away, "tax")[i] = Column(lines, "tax")[i]
        BY <2>3, <2>6 DEF Column, Taxed
      <3> HIDE DEF D
      <3>3. SumFunctionOnSet(Column(away, "tax"), D) = SumFunctionOnSet(Column(lines, "tax"), D)
        BY <2>3, <3>2, SumSame
      <3>4. QED
        BY <3>1, <3>3, <2>3, <2>5
    <2>7. ASSUME ~home
          PROVE  answer.tax = 0 /\ answer.grand = answer.taxable
      <3>1. \A i \in D : Column(lines, "tax")[i] = 0
        BY <2>3, <2>7 DEF Column
      <3> HIDE DEF D
      <3>2. SumFunctionOnSet(Column(lines, "tax"), D) = 0
        BY <2>3, <3>1, SumOfZeros
      <3>3. QED
        BY <3>2, <2>5
    <2> HIDE DEF InSummary
    <2>8. QED
      <3>1. CASE home
        <4>1. /\ Breakdown([ask EXCEPT !.place = [country |-> "IN", state |-> "KA"]]).tax
                    = answer.tax
              /\ Breakdown([ask EXCEPT !.place = [country |-> "IN", state |-> "KA"]]).lines
                    = away
          BY <2>4, <2>6, <3>1
        <4>2. QED
          BY <4>1, <3>1, <2>3, <2>5 DEF TaxAddsUp, InSummary, D
      <3>2. CASE ~home
        BY <3>2, <2>5, <2>7 DEF TaxAddsUp, InSummary
      <3>3. QED
        BY <3>1, <3>2
  <1>2. QED
    BY <1>1, RulesInvariant, PTL
=============================================================================
