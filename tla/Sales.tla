------------------------------- MODULE Sales -------------------------------
(***************************************************************************)
(* What checkout promises the stock room: a sale takes every piece of a    *)
(* bag at once, only pieces that are there, and a bag is sold only once.   *)
(* Carts, locks, prices and refusals are left out.  Checkout implements    *)
(* this specification (SalesSpec there).                                   *)
(***************************************************************************)
EXTENDS Naturals

CONSTANTS Variants, Carts, Supply

VARIABLES
    stock, \* pieces left of each variant
    sold   \* the pieces sold out of each bag, all zero until it is sold

Nothing == [v \in Variants |-> 0]

Init ==
    /\ stock = Supply
    /\ sold = [c \in Carts |-> Nothing]

Sell(c) ==
    /\ sold[c] = Nothing
    /\ sold' \in [Carts -> [Variants -> Nat]]
    /\ sold'[c] # Nothing
    /\ \A d \in Carts \ {c} : sold'[d] = sold[d]
    /\ \A v \in Variants : sold'[c][v] <= stock[v]
    /\ stock' = [v \in Variants |-> stock[v] - sold'[c][v]]

Next == \E c \in Carts : Sell(c)

Spec == Init /\ [][Next]_<<stock, sold>>
=============================================================================
