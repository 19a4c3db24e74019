---------------------------- MODULE MCInverseOffers ----------------------------
(* InverseOffers with the constants of MCInverseOffers.cfg. *)
EXTENDS InverseOffers
=============================================================================
