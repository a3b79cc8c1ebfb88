------------------------------ MODULE MCIntake ------------------------------
(* Two requests at a time.  On one connection a look-up waits for itself and
   the other request for it; on two, two look-ups wait for each other.     *)
EXTENDS Intake
=============================================================================
