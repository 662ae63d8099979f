------------------------------- MODULE MCBag -------------------------------
(* Constants for the runs of Bag. *)
EXTENDS Bag

CONSTANTS a, b, lehenga, saree

One(v, q) == [variant |-> v, quantity |-> q]

\* Adds of one and of two pieces, a merge of two lines in either order, and
\* the storefront's replace and clear.
AllBatches ==
    {[entries |-> <<One(lehenga, 1)>>, replace |-> FALSE],
     [entries |-> <<One(saree, 2)>>, replace |-> FALSE],
     [entries |-> <<One(lehenga, 1), One(saree, 1)>>, replace |-> FALSE],
     [entries |-> <<One(saree, 1), One(lehenga, 1)>>, replace |-> FALSE],
     [entries |-> <<One(lehenga, 1)>>, replace |-> TRUE],
     [entries |-> <<>>, replace |-> TRUE]}

Plenty == [v \in Variants |-> IF v = saree THEN 2 ELSE 9]
=============================================================================
