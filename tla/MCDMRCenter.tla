---------------------------- MODULE MCDMRCenter -----------------------------
(***************************************************************************)
(* The instance of DMRCenter that TLC checks.                              *)
(***************************************************************************)
EXTENDS DMRCenter
=============================================================================
