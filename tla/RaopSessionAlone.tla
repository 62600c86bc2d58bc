-------------------------- MODULE RaopSessionAlone --------------------------
(***************************************************************************)
(* RaopSession with a history variable, for what the sessions promise only *)
(* when they come one after the other: whoever overlaps with another uses  *)
(* the other's output, and what is left behind outlasts the overlap.       *)
(***************************************************************************)
EXTENDS RaopSession

VARIABLE alone  (* No two clients ever had a session at the same time.     *)

Remembers ==
  alone' = (alone /\ \A c, d \in Conns :
                       raop_rtp'[c] # NULL /\ raop_rtp'[d] # NULL => c = d)

AloneInit == Init /\ alone = TRUE

AloneNext == Next /\ Remembers

AloneSpec == AloneInit /\ [][AloneNext]_<<vars, alone>>

-----------------------------------------------------------------------------
(* A session plays into its own live output, whatever other sessions there *)
(* were before it (audio_oboe in jnimain.cpp).                             *)
OwnOutputAlone == alone => OwnOutput

(* The last thread to end leaves no output, whatever ended it.             *)
OutputsClosedAlone == alone => OutputsClosed
=============================================================================
