-------------------------------- MODULE MCCrud --------------------------------
(* Small instances of Crud for TLC. *)
EXTENDS Crud

\* ids are interchangeable
Symmetry == Permutations(Doc)
=============================================================================
