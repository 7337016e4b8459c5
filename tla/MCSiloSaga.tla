----------------------------- MODULE MCSiloSaga -----------------------------
(* Instances of SiloSaga for TLC. *)
EXTENDS SiloSaga, TLC

CONSTANTS x1, x2, k1, k2

RequestSymmetry == Permutations(Executors) \union Permutations(Keys)
=============================================================================
