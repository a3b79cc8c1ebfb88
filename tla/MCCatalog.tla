----------------------------- MODULE MCCatalog -----------------------------
(* A book of two rows, two Updates at a time. *)
EXTENDS Catalog, TLC
Symmetry == Permutations(Ids) \cup Permutations(Labels) \cup Permutations(Requests)
=============================================================================
