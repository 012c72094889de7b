--------------------------- MODULE MCPoolLifecycle ---------------------------
(* Small instances of PoolLifecycle for TLC. *)
EXTENDS PoolLifecycle, TLC

\* The addresses of pools are interchangeable.
PoolSymmetry == Permutations(Pools)
=============================================================================
