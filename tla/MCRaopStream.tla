---------------------------- MODULE MCRaopStream ----------------------------
(***************************************************************************)
(* Instances of RaopStream for TLC.  The last StartSeq values of the space *)
(* make the sequence number wrap after a few packets.                      *)
(***************************************************************************)
EXTENDS RaopStream
=============================================================================
