--------------------------- MODULE MCConnectionPool ---------------------------
(* ConnectionPool for TLC: the threads are interchangeable. *)
EXTENDS ConnectionPool, TLC

ThreadSymmetry == Permutations(Threads)
=============================================================================
