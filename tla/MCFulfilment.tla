---------------------------- MODULE MCFulfilment ----------------------------
(* Small instance of Fulfilment: the requests are interchangeable.  Two of the
   scans have a code normalise does not know and one dedupe key between them. *)
EXTENDS Fulfilment, TLC
Told(code, text, second) == [code |-> code, text |-> text, second |-> second]
MCScans ==
    {Told("RTO", "other", 0), Told("RTO-DL", "other", 2),
     Told("other", "moving", 1), Told("other", "delivered", 1)}
Symmetry == Permutations(Requests)
=============================================================================
