-------------------------- MODULE MCOrderPayments --------------------------
(* Constants for the runs of OrderPayments. *)
EXTENDS OrderPayments, TLC

CONSTANTS o1, o2, p1, p2, p3, s1, s2, clerk, tailor

\* Two orders of different totals.
TwoTotals == (o1 :> 1) @@ (o2 :> 2)

OneTotal == o1 :> 1

SessionSymmetry == Permutations({s1, s2})
=============================================================================
