------------------------------ MODULE Reviews ------------------------------
(***************************************************************************)
(* Product reviews and their verified badge: apps/reviews/views.py,        *)
(* serializers.py and models.py, with common/permissions.py.  No request   *)
(* runs in a transaction: a create looks for an earlier review, then for a *)
(* delivered purchase, then inserts; an update saves every column of the   *)
(* row it read.  Ratings, texts and photos are left out.                   *)
(***************************************************************************)
EXTENDS Naturals, Sequences, OrderStateMachine

CONSTANTS
    Users, Staff,   \* those who are signed in, and the back office among them
    Products,
    Orders,         \* numbered in the order they were placed
    Buyer, Content, \* of each order: its customer, and the products of its lines
    Writers,
    MaxReviews      \* bound: reviews ever inserted

VARIABLES
    reviews,   \* the rows by the order of their insertion, None once deleted
    orders,    \* Order.status
    writers,   \* what each request under way has read and will write
    delivered, \* history: the orders that were delivered
    moved      \* history: reviews that an update pointed at another product

vars == <<reviews, orders, writers, delivered, moved>>

None == [author |-> "nobody"]
Idle == [at |-> "idle"]
NoLine == 0 \* order_line is null; else the line is named by its order

Row(u, p, line) == [author |-> u, product |-> p, line |-> line, status |-> "pending"]

Init ==
    /\ reviews = <<>>
    /\ orders = [o \in Orders |-> "placed"]
    /\ writers = [w \in Writers |-> Idle]
    /\ delivered = {} /\ moved = {}

Kept == {r \in DOMAIN reviews : reviews[r] # None}

\* one_review_per_product_per_user refuses the row if another one has its
\* product and author.
Taken(author, product, others) ==
    \E r \in others : reviews[r].author = author /\ reviews[r].product = product

\* Mutant: an order that is on its way counts as well.
PurchasesShipped(u, p) ==
    {o \in Orders : Buyer[o] = u /\ p \in Content[o]
                      /\ orders[o] \in {"shipped", "delivered", "return_requested"}}

\* What earns the badge.
Purchases(u, p) ==
    {o \in Orders : Buyer[o] = u /\ p \in Content[o]
                      /\ orders[o] \in {"delivered", "return_requested"}}

-----------------------------------------------------------------------------
(* Creating. *)

\* validate: refused if there is a review already.
BeginsCreate(w, u, p) ==
    /\ writers[w] = Idle /\ ~Taken(u, p, Kept)
    /\ writers' = [writers EXCEPT ![w] = [at |-> "query", author |-> u, product |-> p]]
    /\ UNCHANGED <<reviews, orders, delivered, moved>>

\* The latest delivered purchase, if there is one.
Queries(w) ==
    LET job   == writers[w]
        found == Purchases(job.author, job.product)
    IN  /\ job.at = "query"
        /\ \E line \in IF found = {} THEN {NoLine}
                       ELSE {o \in found : \A x \in found : x <= o} :
              writers' = [writers EXCEPT ![w] =
                             [at |-> "insert", row |-> Row(job.author, job.product, line)]]
        /\ UNCHANGED <<reviews, orders, delivered, moved>>

Inserts(w) ==
    LET row == writers[w].row IN
    /\ writers[w].at = "insert" /\ Len(reviews) < MaxReviews
    /\ reviews' = IF Taken(row.author, row.product, Kept) THEN reviews
                  ELSE Append(reviews, row)
    /\ writers' = [writers EXCEPT ![w] = Idle]
    /\ UNCHANGED <<orders, delivered, moved>>

-----------------------------------------------------------------------------
(* Updating and deleting. *)

\* get_queryset: what is not published is seen by its author and the back
\* office; nothing in the code publishes a review.
Visible(u, r) ==
    u \in Staff \/ reviews[r].status = "published" \/ reviews[r].author = u

IsOwnerOrBackOffice(u, r) == u \in Staff \/ reviews[r].author = u

MayChange(u, r) == r \in Kept /\ Visible(u, r) /\ IsOwnerOrBackOffice(u, r)

\* The product is among the fields a client may send.
BeginsUpdate(w, u, r, p) ==
    /\ writers[w] = Idle /\ MayChange(u, r)
    /\ writers' = [writers EXCEPT ![w] =
          [at |-> "save", review |-> r, moves |-> p # reviews[r].product,
           row |-> [reviews[r] EXCEPT !.product = p]]]
    /\ UNCHANGED <<reviews, orders, delivered, moved>>

\* A row that is gone is inserted again.
Saves(w) ==
    LET job == writers[w] IN
    /\ job.at = "save"
    /\ IF Taken(job.row.author, job.row.product, Kept \ {job.review})
       THEN UNCHANGED <<reviews, moved>>
       ELSE /\ reviews' = [reviews EXCEPT ![job.review] = job.row]
            /\ moved' = IF job.moves THEN moved \cup {job.review} ELSE moved
    /\ writers' = [writers EXCEPT ![w] = Idle]
    /\ UNCHANGED <<orders, delivered>>

Deletes(u, r) ==
    /\ MayChange(u, r)
    /\ reviews' = [reviews EXCEPT ![r] = None]
    /\ UNCHANGED <<orders, writers, delivered, moved>>

\* The connection to the database, or the process, is lost on the way.
Dies(w) ==
    /\ writers[w] # Idle
    /\ writers' = [writers EXCEPT ![w] = Idle]
    /\ UNCHANGED <<reviews, orders, delivered, moved>>

\* Operators and checkout move an order, under its lock.
OrderMoves(o, target) ==
    /\ Accepts(orders[o], target)
    /\ orders' = [orders EXCEPT ![o] = target]
    /\ delivered' = IF target = "delivered" THEN delivered \cup {o} ELSE delivered
    /\ UNCHANGED <<reviews, writers, moved>>

Next ==
    \/ \E w \in Writers, u \in Users, p \in Products :
          \/ BeginsCreate(w, u, p)
          \/ \E r \in Kept : BeginsUpdate(w, u, r, p)
    \/ \E w \in Writers : Queries(w) \/ Inserts(w) \/ Saves(w) \/ Dies(w)
    \/ \E u \in Users, r \in Kept : Deletes(u, r)
    \/ \E o \in Orders, target \in Statuses : OrderMoves(o, target)

Spec == Init /\ [][Next]_vars

-----------------------------------------------------------------------------
\* A verified badge is earned: the review names an order of its own author
\* that was delivered to them, and that contains the product it is about unless
\* an update pointed it at another one; also while orders move on, and when a
\* late save brings a deleted review back (models.py, order_line; serializers.py,
\* create).
BadgeIsEarned ==
    \A r \in Kept :
        LET line == reviews[r].line
        IN  line # NoLine =>
              /\ Buyer[line] = reviews[r].author /\ line \in delivered
              /\ r \in moved \/ reviews[r].product \in Content[line]
=============================================================================
