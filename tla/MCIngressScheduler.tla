------------------------- MODULE MCIngressScheduler -------------------------
(* Model-checking instance of IngressScheduler: the persons are alike.      *)
EXTENDS IngressScheduler, TLC

Symmetry == Permutations(Persons)
=============================================================================
