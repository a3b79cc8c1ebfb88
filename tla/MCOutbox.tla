------------------------------ MODULE MCOutbox ------------------------------
(* Small instance of Outbox: three events, one of an unknown kind, in batches
   of two, and two forwarders.                                             *)
EXTENDS Outbox
FairOutboxSpec == OutboxSpec /\ OutboxFairness
=============================================================================
