---------------------------- MODULE MCKioskDemo ----------------------------
(***************************************************************************)
(* KioskDemo for TLC.                                                      *)
(***************************************************************************)
EXTENDS KioskDemo

CONSTANTS A, B

MCClients  == {A, B}
MCStatuses == {"OK", "Declined"}
=============================================================================
