------------------------------ MODULE MCConfig ------------------------------
(* A contract with two terms and one with a single term. *)
EXTENDS Config, TLC
CONSTANTS c1, c2, other, small, enterprise
MCTerms == c1 :> {LimitKey, other} @@ c2 :> {LimitKey}
=============================================================================
