----------------------------- MODULE MCTaxiiFeed -----------------------------
(* Small instances of TaxiiFeed for TLC. *)
EXTENDS TaxiiFeed
=============================================================================
