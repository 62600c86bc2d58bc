------------------------------ MODULE MCHttpd -------------------------------
(***************************************************************************)
(* Instances of Httpd for TLC.                                             *)
(***************************************************************************)
EXTENDS Httpd
=============================================================================
