---------------------------- MODULE MCMirroring -----------------------------
(***************************************************************************)
(* Instances of Mirroring for TLC.                                         *)
(***************************************************************************)
EXTENDS Mirroring
=============================================================================
