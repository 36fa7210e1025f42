---------------------------- MODULE MCRideEvents ----------------------------
(* A small instance of RideEvents: two rides, a ledger of one. *)
EXTENDS RideEvents

CONSTANTS r1, r2

EndOf(r) == IF r = r1 THEN 1 ELSE 2
=============================================================================
