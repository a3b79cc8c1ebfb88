------------------------------ MODULE MCAudit ------------------------------
(* Three events of one seller, one of another and one of the platform; one that
   the app role would insert, and one that Emit refuses.                    *)
EXTENDS Audit, TLC
CONSTANTS a1, a2, a3, b, p, app, low, s1, s2
MCSellerID == a1 :> s1 @@ a2 :> s1 @@ a3 :> s1 @@ b :> s2 @@ p :> Platform @@ app :> s2 @@ low :> s2
Symmetry == Permutations({a1, a2, a3})
=============================================================================
