------------------------ MODULE MCIncludeReservations ------------------------
(* One name, written bare and with the suffix a rename would choose.         *)
EXTENDS IncludeReservations
=============================================================================
