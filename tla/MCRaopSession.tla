--------------------------- MODULE MCRaopSession ----------------------------
(***************************************************************************)
(* Instances of RaopSession for TLC.                                       *)
(***************************************************************************)
EXTENDS RaopSessionAlone

(* The scheduler runs a thread that is not blocked: a session's thread     *)
(* sleeps in select for 5 ms at most.  No client is obliged to ask.        *)
MCSpec ==
  /\ AloneSpec
  /\ WF_<<vars, alone>>(RtspStep /\ Remembers)
  /\ \A s \in Sessions : WF_<<vars, alone>>(ThreadStep(s) /\ Remembers)
=============================================================================
