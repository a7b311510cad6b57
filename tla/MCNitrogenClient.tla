--------------------------- MODULE MCNitrogenClient ---------------------------
(***************************************************************************)
(* The event client for TLC.                                               *)
(***************************************************************************)
EXTENDS NitrogenClient
=============================================================================
