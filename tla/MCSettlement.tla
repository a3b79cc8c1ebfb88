---------------------------- MODULE MCSettlement ----------------------------
(* One parcel and one discrepancy, two workers that race for them. *)
EXTENDS Settlement, TLC
MCRefs == SettlementRefs
Symmetry == Permutations(Sellers) \cup Permutations(Workers)
=============================================================================
