----------------------------- MODULE MCAccounts -----------------------------
(* Two requests at a time; two identities that may come with either email. *)
EXTENDS Accounts, TLC
Symmetry == Permutations(Requests) \cup Permutations(Identities) \cup Permutations(Emails)
=============================================================================
