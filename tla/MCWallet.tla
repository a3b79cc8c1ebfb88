------------------------------ MODULE MCWallet ------------------------------
(* Small instance of Wallet: two sellers share the refs of the global unique
   indexes.  Sellers, refs and hold ids are each interchangeable.           *)
EXTENDS Wallet, TLC
Symmetry == Permutations(Sellers) \cup Permutations(Refs) \cup Permutations(HoldIDs)
=============================================================================
