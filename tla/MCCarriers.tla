----------------------------- MODULE MCCarriers -----------------------------
(* Three callers on a breaker that trips at the second failure. *)
EXTENDS Carriers
=============================================================================
