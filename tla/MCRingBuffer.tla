---------------------------- MODULE MCRingBuffer ----------------------------
(***************************************************************************)
(* An instance of RingBuffer for TLC.                                      *)
(***************************************************************************)
EXTENDS RingBuffer
=============================================================================
