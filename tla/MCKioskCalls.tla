---------------------------- MODULE MCKioskCalls ----------------------------
(* KioskCalls for TLC, with the values of MCKioskExchange. *)
EXTENDS MCKioskExchange, KioskCalls
=============================================================================
