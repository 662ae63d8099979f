----------------------------- MODULE MCSession -----------------------------
(* The session with two requests at a time.                                *)
EXTENDS Session, TLC

CONSTANTS t1, t2

\* The tabs are interchangeable.
Symmetry == Permutations(Tabs)
=============================================================================
