---------------------------- MODULE MCHwDecoder -----------------------------
(***************************************************************************)
(* An instance of HwDecoder for TLC.                                       *)
(***************************************************************************)
EXTENDS HwDecoder
=============================================================================
