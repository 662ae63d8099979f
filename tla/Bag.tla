-------------------------------- MODULE Bag --------------------------------
(***************************************************************************)
(* The lines of one customer's active cart, edited from several tabs at    *)
(* once: apps/cart/services.py, statement by statement, under PostgreSQL's *)
(* READ COMMITTED.  A statement sees what was committed when it began; a   *)
(* row another transaction has written is locked until that transaction    *)
(* ends; and a statement that waited for a row finds it gone if it was     *)
(* deleted meanwhile, without noticing the row that replaced it.           *)
(*                                                                         *)
(* add_item is a batch of one entry, merge_items a batch of several, and   *)
(* clear a batch of none that replaces; set_quantity and remove_item need  *)
(* one row only and are one action each.                                   *)
(***************************************************************************)
EXTENDS Naturals, Sequences

CONSTANTS
    Tabs,
    Variants,
    Batches,    \* the requests tabs send: entries, and whether they replace
    Stock,      \* stock_quantity of each variant
    MaxQuantity \* MAX_QUANTITY_PER_LINE

Entries == [variant : Variants, quantity : Nat \ {0}]

ASSUME ConstantsAssumption ==
    /\ \A b \in Batches : b.entries \in Seq(Entries) /\ b.replace \in BOOLEAN
    /\ Stock \in [Variants -> Nat]
    /\ MaxQuantity \in Nat \ {0}

VARIABLES
    rows, \* committed CartItem rows: a quantity, 0 where there is no row
    sellable, \* variants that are active on an active product
    tx    \* the transaction of each tab

vars == <<rows, sellable, tx>>

NoRows == [v \in {} |-> 0]

NoTx ==
    [at |-> "idle", entries |-> <<>>, replace |-> FALSE,
     snapshot |-> {},   \* committed rows the current statement is after
     own |-> NoRows,    \* rows written and not committed: 0 for a deleted one
     deleted |-> {},    \* committed rows this transaction deletes
     insert |-> 0,      \* the quantity about to be inserted
     accepted |-> [v \in Variants |-> 0]] \* pieces added, over all entries

At == {"idle", "clearing", "reading", "selecting", "inserting"}

TypeOK ==
    /\ rows \in [Variants -> 0..MaxQuantity]
    /\ sellable \subseteq Variants
    /\ \A t \in Tabs :
          /\ tx[t].at \in At
          /\ tx[t].snapshot \cup tx[t].deleted \subseteq Variants
          /\ tx[t].own \in [DOMAIN tx[t].own -> 0..MaxQuantity]
          /\ DOMAIN tx[t].own \subseteq Variants
          /\ tx[t].insert \in 0..MaxQuantity

Init ==
    /\ rows \in [Variants -> 0..1]
    /\ sellable = Variants
    /\ tx = [t \in Tabs |-> NoTx]

----------------------------------------------------------------------------
Least(a, b) == IF a <= b THEN a ELSE b

\* Mutant: clamped against stock only.
ClampToStock(v, quantity) == Least(quantity, Stock[v])

\* _clamp_to_stock, where there is anything left.
Clamp(v, quantity) == Least(quantity, Least(Stock[v], MaxQuantity))

\* Another transaction has written the row and has not ended.
LockedByOther(t, v) == \E u \in Tabs \ {t} : v \in DOMAIN tx[u].own

\* The variants the cart has a line of.
Lines == {v \in Variants : rows[v] > 0}

Begin(t, batch) ==
    /\ tx[t] = NoTx
    /\ tx' = [tx EXCEPT ![t] =
                [@ EXCEPT !.at = IF batch.replace THEN "clearing" ELSE "reading",
                          !.entries = batch.entries,
                          !.replace = batch.replace,
                          !.snapshot = IF batch.replace THEN Lines ELSE {}]]
    /\ UNCHANGED <<rows, sellable>>

\* clear(): DELETE waits for each row of its snapshot and deletes it.
ClearRows(t) ==
    LET old == tx[t].snapshot IN
    /\ tx[t].at = "clearing"
    /\ \A v \in old : ~LockedByOther(t, v)
    /\ tx' = [tx EXCEPT ![t] =
                [@ EXCEPT !.at = "reading", !.snapshot = {}, !.deleted = old,
                          !.own = [v \in old |-> 0]]]
    /\ UNCHANGED <<rows, sellable>>

Entry(t) == Head(tx[t].entries)

NextEntry(x) ==
    [x EXCEPT !.at = "reading", !.entries = Tail(@), !.snapshot = {}]

\* _purchasable_variant, without a lock: an unavailable entry is skipped.
\* Else the SELECT of the line begins.
ReadVariant(t) ==
    /\ tx[t].at = "reading" /\ tx[t].entries # <<>>
    /\ tx' = [tx EXCEPT ![t] =
                IF Entry(t).variant \in sellable
                  THEN [@ EXCEPT !.at = "selecting",
                                 !.snapshot = Lines \cap {Entry(t).variant}]
                  ELSE NextEntry(@)]
    /\ UNCHANGED <<rows, sellable>>

WithRow(own, v, quantity) ==
    [u \in DOMAIN own \cup {v} |-> IF u = v THEN quantity ELSE own[u]]

\* Write a row and go on with the next entry.
Written(x, v, quantity, added) ==
    NextEntry([x EXCEPT !.own = WithRow(@, v, quantity), !.insert = 0,
                        !.accepted[v] = @ + added])

\* Mutant: the line is read without FOR UPDATE.
SelectLineUnlocked(t) ==
    LET v == Entry(t).variant
        q == Entry(t).quantity
        line == IF v \in DOMAIN tx[t].own THEN tx[t].own[v] ELSE rows[v] IN
    /\ tx[t].at = "selecting"
    /\ tx' = [tx EXCEPT ![t] =
                IF Stock[v] = 0 THEN NextEntry(@)
                ELSE IF line > 0 THEN Written(@, v, Clamp(v, line + q), q)
                ELSE [@ EXCEPT !.at = "inserting", !.insert = Clamp(v, q)]]
    /\ UNCHANGED <<rows, sellable>>

\* SELECT ... FOR UPDATE of the line and, if there is one, its UPDATE; a line
\* already deleted by this transaction counts as none.
SelectLine(t) ==
    LET v == Entry(t).variant
        q == Entry(t).quantity
        line == IF v \in DOMAIN tx[t].own THEN tx[t].own[v]
                ELSE IF v \in tx[t].snapshot THEN rows[v] ELSE 0 IN
    /\ tx[t].at = "selecting"
    /\ line > 0 => ~LockedByOther(t, v)
    /\ tx' = [tx EXCEPT ![t] =
                IF Stock[v] = 0 THEN NextEntry(@)
                ELSE IF line > 0 THEN Written(@, v, Clamp(v, line + q), q)
                ELSE [@ EXCEPT !.at = "inserting", !.snapshot = {},
                               !.insert = Clamp(v, q)]]
    /\ UNCHANGED <<rows, sellable>>

\* The INSERT waits for another transaction's row of the same variant and
\* violates unique_variant_per_cart if that row is committed: rolled back.
InsertLine(t) ==
    LET v == Entry(t).variant IN
    /\ tx[t].at = "inserting"
    /\ ~LockedByOther(t, v)
    /\ tx' = [tx EXCEPT ![t] =
                IF v \notin DOMAIN @.own /\ rows[v] > 0
                  THEN NoTx
                  ELSE Written(@, v, @.insert, Entry(t).quantity)]
    /\ UNCHANGED <<rows, sellable>>

\* COMMIT: statements waiting for the deleted rows find them gone.
Commit(t) ==
    /\ tx[t].at = "reading" /\ tx[t].entries = <<>>
    /\ rows' = [v \in Variants |-> IF v \in DOMAIN tx[t].own THEN tx[t].own[v] ELSE rows[v]]
    /\ tx' = [u \in Tabs |->
                IF u = t THEN NoTx
                ELSE [tx[u] EXCEPT !.snapshot = @ \ tx[t].deleted]]
    /\ UNCHANGED sellable

\* The worker dies, or PostgreSQL picks it as the victim of a deadlock.
Abort(t) ==
    /\ tx[t] # NoTx
    /\ tx' = [tx EXCEPT ![t] = NoTx]
    /\ UNCHANGED <<rows, sellable>>

\* set_quantity of at least one: the line, if it is there, set and clamped.
SetQuantity(t, v, quantity) ==
    /\ tx[t] = NoTx /\ ~LockedByOther(t, v)
    /\ rows[v] > 0 /\ Stock[v] > 0
    /\ rows' = [rows EXCEPT ![v] = Clamp(v, quantity)]
    /\ UNCHANGED <<sellable, tx>>

\* remove_item, and set_quantity of zero.
RemoveItem(t, v) ==
    /\ tx[t] = NoTx /\ ~LockedByOther(t, v)
    /\ rows[v] > 0
    /\ rows' = [rows EXCEPT ![v] = 0]
    /\ tx' = [u \in Tabs |-> [tx[u] EXCEPT !.snapshot = @ \ {v}]]
    /\ UNCHANGED sellable

\* The catalogue withdraws a variant or brings it back.
Withdraw(v) ==
    /\ sellable' = (sellable \ {v}) \cup ({v} \ sellable)
    /\ UNCHANGED <<rows, tx>>

----------------------------------------------------------------------------
Next ==
    \/ \E t \in Tabs, b \in Batches : Begin(t, b)
    \/ \E t \in Tabs : ClearRows(t)
    \/ \E t \in Tabs : ReadVariant(t)
    \/ \E t \in Tabs : SelectLine(t)
    \/ \E t \in Tabs : InsertLine(t)
    \/ \E t \in Tabs : Commit(t)
    \/ \E t \in Tabs : Abort(t)
    \/ \E t \in Tabs, v \in Variants, q \in 1..MaxQuantity : SetQuantity(t, v, q)
    \/ \E t \in Tabs, v \in Variants : RemoveItem(t, v)
    \/ \E v \in Variants : Withdraw(v)

Spec == Init /\ [][Next]_vars

----------------------------------------------------------------------------
(* Properties. *)

Commits(t) == tx[t].at = "reading" /\ tx[t].entries = <<>> /\ rows' # rows

\* Concurrent adds and merges sum: when one commits, each of its lines grows,
\* up to the clamp, by what it added to the line as committed by then.  No
\* add that was answered with success is overwritten by another.
AddsSum ==
    [][\A t \in Tabs :
        Commits(t) /\ tx'[t] = NoTx /\ ~tx[t].replace =>
            \A v \in DOMAIN tx[t].own :
                rows'[v] = Clamp(v, rows[v] + tx[t].accepted[v])]_vars
=============================================================================
