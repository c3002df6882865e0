------------------------------- MODULE MCCaches -------------------------------
(* Small instances of Caches for TLC. *)
EXTENDS Caches, TLC

\* users, calls and requests are interchangeable
Symmetry == Permutations(Caller) \cup Permutations(Reader)
=============================================================================
