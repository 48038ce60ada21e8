------------------------------ MODULE MCReadiness ------------------------------
(* Six units of deadline against requests and checks of two: several loops. *)
EXTENDS Readiness
===============================================================================
