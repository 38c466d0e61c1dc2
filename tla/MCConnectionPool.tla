-------------------------- MODULE MCConnectionPool --------------------------
(* Small instances of the pool.  Callers and connections are interchangeable *)
(* model values, so the safety runs use the symmetry of both.                *)
EXTENDS ConnectionPool, TLC

Symmetry == Permutations(Callers) \cup Permutations(Conns)
=============================================================================
