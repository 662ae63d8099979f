--------------------------- MODULE MCStorefrontBag ---------------------------
(* Constants for the runs of StorefrontBag. *)
EXTENDS StorefrontBag, TLC

CONSTANTS t1, t2, lehenga, saree

\* One lehenga is left, and there are sarees enough for every line.
OneAndPlenty == [v \in Variants |-> IF v = lehenga THEN 1 ELSE 9]

\* The tabs are interchangeable, and no property is temporal.
TabSymmetry == Permutations(Tabs)

SamePrice == [v \in Variants |-> 1]
=============================================================================
