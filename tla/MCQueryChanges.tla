--------------------------- MODULE MCQueryChanges ---------------------------
(* QueryChanges for TLC: bounds in the .cfg files, ids are interchangeable. *)
EXTENDS QueryChanges

Symmetry == Permutations(Ids)
=============================================================================
