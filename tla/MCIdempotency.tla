--------------------------- MODULE MCIdempotency ---------------------------
(* Constants for the runs of Idempotency. *)
EXTENDS Idempotency, TLC

CONSTANTS k1, k2, r1, r2, r3

RequestSymmetry == Permutations(Requests)
=============================================================================
