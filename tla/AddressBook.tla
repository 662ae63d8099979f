---------------------------- MODULE AddressBook ----------------------------
(***************************************************************************)
(* A customer's address book (apps/users/views.py AddressViewSet,          *)
(* serializers.py AddressSerializer, models.py Address): shipping and      *)
(* billing addresses, at most one default of each kind.                    *)
(*                                                                         *)
(* An edit reads the row, clears the other default inside a transaction,   *)
(* and saves its whole copy; the database refuses a second default, and    *)
(* the transaction is undone.  A row one transaction has changed is locked *)
(* for the others until it ends.  Of the data, the kind and the default    *)
(* are kept: what validate refuses never gets here.                        *)
(***************************************************************************)
CONSTANTS Addresses, Writers

VARIABLES
    book,   \* the rows, [kind, default], or None
    writers \* what each request under way has read and will write

vars == <<book, writers>>

None == [kind |-> "none", default |-> FALSE]
Idle == [at |-> "idle"]
AddressKinds == {"shipping", "billing"}

Init ==
    /\ book = [a \in Addresses |-> None]
    /\ writers = [w \in Writers |-> Idle]

OfKind(k) == {a \in Addresses : book[a].kind = k}
Default(k) == {a \in OfKind(k) : book[a].default}

\* perform_create: the new row, a default when asked for or the first of its kind.
BeginsCreate(w, a, k, asked) ==
    /\ writers[w] = Idle /\ book[a] = None
    /\ \A v \in Writers : writers[v] # Idle => writers[v].address # a
    /\ writers' = [writers EXCEPT ![w] =
          [at |-> "begun", address |-> a, clears |-> asked, cleared |-> {},
           row |-> [kind |-> k, default |-> asked \/ OfKind(k) = {}]]]
    /\ UNCHANGED book

\* get_object and the fields of the PATCH over it.
BeginsEdit(w, a, k, asked) ==
    /\ writers[w] = Idle /\ book[a] # None
    /\ writers' = [writers EXCEPT ![w] =
          [at |-> "begun", address |-> a, clears |-> asked = "yes", cleared |-> {},
           row |-> [kind |-> k, default |-> IF asked = "same" THEN book[a].default
                                            ELSE asked = "yes"]]]
    /\ UNCHANGED book

\* Rows another transaction has cleared and not committed.
Locked(w) == UNION {writers[v].cleared : v \in
    {u \in Writers \ {w} : writers[u].at = "cleared"}}

Cleared(w) == IF writers[w].clears
              THEN Default(writers[w].row.kind) \ {writers[w].address} ELSE {}

Clears(w) ==
    /\ writers[w].at = "begun"
    /\ Cleared(w) \cap Locked(w) = {}
    /\ writers' = [writers EXCEPT ![w].at = "cleared", ![w].cleared = Cleared(w)]
    /\ UNCHANGED book

\* The unique constraint, over the rows as this transaction leaves them.
Refused(w) ==
    /\ writers[w].row.default
    /\ Default(writers[w].row.kind) \ (writers[w].cleared \cup {writers[w].address}) # {}

\* Mutant: what the request cleared stays cleared when it fails.
UndoneOnlyLast(w) == [a \in Addresses |->
    IF a \in writers[w].cleared THEN [book[a] EXCEPT !.default = FALSE] ELSE book[a]]

\* The transaction is rolled back.
Undone(w) == book

\* Commits or is rolled back; an edit of a row that is gone inserts it again.
Saves(w) ==
    /\ writers[w].at = "cleared" /\ writers[w].address \notin Locked(w)
    /\ LET job == writers[w]
       IN  book' = IF Refused(w) THEN Undone(w)
                   ELSE [a \in Addresses |->
                            IF a = job.address THEN job.row
                            ELSE IF a \in job.cleared
                            THEN [book[a] EXCEPT !.default = FALSE] ELSE book[a]]
    /\ writers' = [writers EXCEPT ![w] = Idle]

\* The connection to the database, or the process, is lost on the way.
Dies(w) ==
    /\ writers[w] # Idle
    /\ book' = IF writers[w].at = "cleared" THEN Undone(w) ELSE book
    /\ writers' = [writers EXCEPT ![w] = Idle]

Deletes(a) ==
    /\ book[a] # None
    /\ a \notin UNION {writers[v].cleared : v \in {u \in Writers : writers[u].at = "cleared"}}
    /\ book' = [book EXCEPT ![a] = None]
    /\ UNCHANGED writers

Next ==
    \/ \E w \in Writers, a \in Addresses, k \in AddressKinds :
          \/ \E asked \in BOOLEAN : BeginsCreate(w, a, k, asked)
          \/ \E asked \in {"yes", "no", "same"} : BeginsEdit(w, a, k, asked)
    \/ \E w \in Writers : Clears(w) \/ Saves(w) \/ Dies(w)
    \/ \E a \in Addresses : Deletes(a)

Spec == Init /\ [][Next]_vars
-----------------------------------------------------------------------------
\* A kind keeps its default unless the customer gives it up, by deleting that
\* address or by editing it into something else: a request that fails, or that
\* another one overtook, takes no default away (serializers.py, the atomic
\* create and update of AddressSerializer).
GivenUp(k) ==
    \/ \E a \in Default(k) : Deletes(a)
    \/ \E w \in Writers :
          /\ writers[w].at = "cleared" /\ Saves(w)
          /\ writers[w].address \in Default(k)
          /\ writers[w].row # book[writers[w].address]

DefaultKept ==
    [][\A k \in AddressKinds : Default(k) # {} /\ Default(k)' = {} => GivenUp(k)]_vars
=============================================================================
