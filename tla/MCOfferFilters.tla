---------------------------- MODULE MCOfferFilters ----------------------------
(* Refusals for no time, less than the interval, too long, and a negative time. *)
EXTENDS OfferFilters

MCRefuseSeconds == {-1, 0, 1, 4}
=============================================================================
