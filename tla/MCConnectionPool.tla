-------------------------- MODULE MCConnectionPool --------------------------
(* Small instances of ConnectionPool for TLC. *)
EXTENDS ConnectionPool, TLC

\* The workers are interchangeable; the indices of the array are not.
WorkerSymmetry == Permutations(Workers)
=============================================================================
