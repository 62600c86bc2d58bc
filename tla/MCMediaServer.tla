--------------------------- MODULE MCMediaServer ----------------------------
(***************************************************************************)
(* The instance of MediaServer that TLC checks.                            *)
(***************************************************************************)
EXTENDS MediaServer
=============================================================================
