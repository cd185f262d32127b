-------------------------- MODULE MCKioskConnection --------------------------
(* Small instances of KioskConnection for TLC. *)
EXTENDS KioskConnection

MCFd      == {3, 4}
MCFdSpare == {3, 4, 5}
MCSenders == {"app", "ack"}
MCSender  == {"app"}
=============================================================================
