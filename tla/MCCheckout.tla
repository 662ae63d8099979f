----------------------------- MODULE MCCheckout -----------------------------
(* Constants for the runs of Checkout. *)
EXTENDS Checkout, TLC

CONSTANTS ann, bea, t1, t2, c1, c2, lehenga, saree, vendor

\* Two customers with a tab each, or one customer with two tabs.
TwoCustomers == (t1 :> ann) @@ (t2 :> bea)
OneCustomer  == (t1 :> ann) @@ (t2 :> ann)

TwoKeys == [v \in Variants |-> IF v = lehenga THEN 1 ELSE 2]

Two        == [v \in Variants |-> 2]
TwoAndOne  == [v \in Variants |-> IF v = lehenga THEN 2 ELSE 1]
=============================================================================
