----------------------------- MODULE Mirroring ------------------------------
(***************************************************************************)
(* Screen mirroring: who shows its screen, and with which key.  A device   *)
(* asks for a mirror stream on its RTSP connection (raop.c), which leaves  *)
(* the key of the stream in a global; it then connects to the mirror       *)
(* server (httpd.c), whose thread takes the key from there when the first  *)
(* picture arrives, and hands the pictures to jnimain.cpp.  A device that  *)
(* connects to any server while another one mirrors preempts it.           *)
(*                                                                         *)
(* The three threads are those of the RTSP server, the mirror server and   *)
(* the HTTP server (airplay.c); each handles one connection or packet at a *)
(* time, and they share the mirroring callbacks without a lock.  A client  *)
(* is a device, known by its address.  Keys are numbered as SETUP makes    *)
(* them, up to MaxKeys.  The ring behind the decoder is HwDecoder's        *)
(* subject: here a picture is in it or not.                                *)
(*                                                                         *)
(* With Overlap, devices start when they like; without, each waits until   *)
(* the mirror stream of the one before it is gone.                         *)
(*                                                                         *)
(* A definition named ...Mutant is a bug that the properties must detect:  *)
(* no behaviour uses it.                                                   *)
(***************************************************************************)
EXTENDS Integers

CONSTANTS Clients, NoClient, MaxKeys, Overlap

ASSUME MirroringAssumption ==
  /\ NoClient \notin Clients
  /\ MaxKeys \in Nat
  /\ Overlap \in BOOLEAN

VARIABLES
  pc,             (* Thread -> what it does next in a callback.            *)
  who,            (* Thread -> the client it does that for.                *)
  control,        (* The clients with an RTSP connection.                  *)
  ready,          (* Those that may open the stream they set up.           *)
  keys,           (* Keys so far.                                          *)
  owner,          (* Key -> the client whose SETUP made it.                *)
  freed,
  g_aes_key_ctx,  (* The key that SETUP made last, 0 at first.             *)
  stream,         (* Client -> where its mirror connection is.             *)
  aes_key_context,(* Client -> the key of its mirror connection, or 0.     *)
  current_remote,
  rbuf,           (* Whether the decoder has its ring.                     *)
  shown           (* The clients whose pictures are in it.                 *)

threadVars == <<pc, who>>
rtspVars == <<control, ready>>
keyVars == <<keys, owner, g_aes_key_ctx>>
mirrorVars == <<freed, stream, aes_key_context>>
vars == <<threadVars, rtspVars, keyVars, mirrorVars, current_remote, rbuf, shown>>

Threads == {"rtsp", "mirror", "http"}
Keys == 1 .. MaxKeys

Init ==
  /\ pc = [t \in Threads |-> "idle"] /\ who = [t \in Threads |-> NoClient]
  /\ control = {} /\ ready = {}
  /\ keys = 0 /\ owner = [k \in Keys |-> NoClient] /\ freed = {}
  /\ g_aes_key_ctx = 0
  /\ stream = [c \in Clients |-> "none"]
  /\ aes_key_context = [c \in Clients |-> 0]
  /\ current_remote = NoClient
  /\ rbuf = FALSE /\ shown = {}

Goes(t, to) == pc' = [pc EXCEPT ![t] = to]
Idle(t) == pc[t] = "idle"

-----------------------------------------------------------------------------
(***************************************************************************)
(* video_mirroring_stop, on any thread: it stops the decoder, and then     *)
(* forgets who is mirroring.  It does not look at whom it is called for.   *)
(***************************************************************************)
StopsFor(t, c) ==
  /\ Idle(t)
  /\ Goes(t, "stops")
  /\ who' = [who EXCEPT ![t] = c]

StopDecoder(t) ==
  /\ pc[t] = "stops"
  /\ Goes(t, "forgets")
  /\ rbuf' = FALSE
  /\ shown' = {}
  /\ UNCHANGED <<who, rtspVars, keyVars, mirrorVars, current_remote>>

(* httpd_add_connection, after forceStopAirplay removed those of Removed.  *)
(* A device whose RTSP connection was dropped opens no stream any more.    *)
AddsControl(c, Removed) ==
  /\ control' = (control \ Removed) \cup {c}
  /\ ready' = ready \ Removed
  /\ UNCHANGED mirrorVars

RemovesMutant(C) ==
  /\ freed' = freed \cup ({aes_key_context[c] : c \in C} \ {0})
  /\ UNCHANGED aes_key_context

(* httpd_remove_connection, of the mirror server.                          *)
Removes(C) ==
  /\ freed' = freed \cup ({aes_key_context[c] : c \in C} \ {0})
  /\ aes_key_context' = [c \in Clients |-> IF c \in C THEN 0 ELSE aes_key_context[c]]

Streaming == {c \in Clients : stream[c] \in {"accepted", "playing"}}

AddsStream(c, Removed) ==
  /\ Removes(Removed)
  /\ stream' = [d \in Clients |-> IF d = c THEN "accepted"
                                  ELSE IF d \in Removed THEN "none" ELSE stream[d]]
  /\ UNCHANGED rtspVars

StopForgets(t) ==
  /\ pc[t] = "forgets"
  /\ Goes(t, "idle")
  /\ who' = [who EXCEPT ![t] = NoClient]
  /\ current_remote' = NoClient
  /\ \/ who[t] = NoClient /\ UNCHANGED <<rtspVars, mirrorVars>>
     \/ who[t] # NoClient /\ t = "rtsp" /\ AddsControl(who[t], control)
     \/ who[t] # NoClient /\ t = "mirror" /\ AddsStream(who[t], Streaming)
     \/ who[t] # NoClient /\ t = "http" /\ UNCHANGED <<rtspVars, mirrorVars>>
  /\ UNCHANGED <<keyVars, rbuf, shown>>

-----------------------------------------------------------------------------
(***************************************************************************)
(* httpd_accept_connection: a client connects to a server.                 *)
(***************************************************************************)
mirroring_running(remote) == current_remote \notin {NoClient, remote}

AcceptPreempts(t, c) ==
  /\ \/ t = "rtsp" /\ c \notin control
     \/ t = "mirror" /\ stream[c] = "waiting"
     \/ t = "http"
  /\ mirroring_running(c)
  /\ StopsFor(t, c)
  /\ UNCHANGED <<rtspVars, keyVars, mirrorVars, current_remote, rbuf, shown>>

AcceptControl(c) ==
  /\ Idle("rtsp")
  /\ c \notin control
  /\ ~mirroring_running(c)
  /\ AddsControl(c, {})
  /\ UNCHANGED <<threadVars, keyVars, current_remote, rbuf, shown>>

AcceptStream(c) ==
  /\ Idle("mirror")
  /\ stream[c] = "waiting"
  /\ ~mirroring_running(c)
  /\ AddsStream(c, {})
  /\ UNCHANGED <<threadVars, keyVars, current_remote, rbuf, shown>>

-----------------------------------------------------------------------------
(***************************************************************************)
(* The RTSP connection of a device.                                        *)
(***************************************************************************)
(* Nobody else has, or is about to have, a mirror stream.                  *)
Alone(c) == \A d \in Clients \ {c} : stream[d] = "none" /\ d \notin ready

SetkeyMutant(c) ==
  IF g_aes_key_ctx # 0
    THEN owner' = [owner EXCEPT ![g_aes_key_ctx] = c] /\ UNCHANGED <<keys, g_aes_key_ctx>>
    ELSE /\ keys' = keys + 1
         /\ owner' = [owner EXCEPT ![keys'] = c]
         /\ g_aes_key_ctx' = keys'

Setkey(c) ==
  /\ keys' = keys + 1
  /\ owner' = [owner EXCEPT ![keys'] = c]
  /\ g_aes_key_ctx' = keys'

(* SETUP of a stream of type 110, as often as the device asks for it; it   *)
(* opens a mirror connection for one that it asked for while it had none.  *)
Setup(c) ==
  /\ Idle("rtsp")
  /\ c \in control
  /\ Overlap \/ Alone(c)
  /\ keys < MaxKeys
  /\ Setkey(c)
  /\ ready' = IF stream[c] = "none" THEN ready \cup {c} ELSE ready
  /\ UNCHANGED <<threadVars, control, mirrorVars, current_remote, rbuf, shown>>

(* The device has its answer and connects to the mirror server.            *)
OpenStream(c) ==
  /\ c \in ready
  /\ ready' = ready \ {c}
  /\ stream' = [stream EXCEPT ![c] = "waiting"]
  /\ UNCHANGED <<threadVars, control, keyVars, freed, aes_key_context,
                 current_remote, rbuf, shown>>

(* TEARDOWN of a stream of type 110.                                       *)
Teardown(c) ==
  /\ c \in control
  /\ StopsFor("rtsp", NoClient)
  /\ UNCHANGED <<rtspVars, keyVars, mirrorVars, current_remote, rbuf, shown>>

CloseControl(c) ==
  /\ Idle("rtsp")
  /\ c \in control
  /\ control' = control \ {c}
  /\ ready' = ready \ {c}
  /\ UNCHANGED <<threadVars, keyVars, mirrorVars, current_remote, rbuf, shown>>

-----------------------------------------------------------------------------
(***************************************************************************)
(* The packets of a mirror connection.                                     *)
(***************************************************************************)
(* Type 1, the first one: video_mirroring_open ...                         *)
FirstPicture(c) ==
  /\ Idle("mirror")
  /\ stream[c] = "accepted"
  /\ Goes("mirror", "starts")
  /\ who' = [who EXCEPT !["mirror"] = c]
  /\ current_remote' = c
  /\ UNCHANGED <<rtspVars, keyVars, mirrorVars, rbuf, shown>>

StartedMutant(c) == rbuf' = TRUE /\ shown' = shown \cup {c}

(* HwDecoder::start, which resets the ring, and the first write after it.  *)
Started(c) == rbuf' = TRUE /\ shown' = {c}

OpenStarts ==
  /\ pc["mirror"] = "starts"
  /\ Goes("mirror", "takes")
  /\ Started(who["mirror"])
  /\ UNCHANGED <<who, rtspVars, keyVars, mirrorVars, current_remote>>

(* ... and then the connection gets its key.                               *)
TakesKey ==
  /\ pc["mirror"] = "takes"
  /\ Goes("mirror", "idle")
  /\ who' = [who EXCEPT !["mirror"] = NoClient]
  /\ aes_key_context' = [aes_key_context EXCEPT ![who["mirror"]] = g_aes_key_ctx]
  /\ stream' = [stream EXCEPT ![who["mirror"]] = "playing"]
  /\ UNCHANGED <<rtspVars, keyVars, freed, current_remote, rbuf, shown>>

(* Type 0, which is decrypted, type 9, or type 1 for the same size.  Until *)
(* the first type 1, a type 9 is passed on all the same; a type 0, which   *)
(* has no key then, ends the program, as either does when no device ever   *)
(* sent a type 1 (mirrbuff is null).                                       *)
Picture(c) ==
  /\ Idle("mirror")
  /\ c \in Streaming
  /\ shown' = IF rbuf THEN shown \cup {c} ELSE shown
  /\ UNCHANGED <<threadVars, rtspVars, keyVars, mirrorVars, current_remote, rbuf>>

(* Type 1 for another size: the player is told, and after a sleep the      *)
(* decoder is started again.                                               *)
Rotate(c) ==
  /\ Idle("mirror")
  /\ stream[c] = "playing"
  /\ Goes("mirror", "restarts")
  /\ who' = [who EXCEPT !["mirror"] = c]
  /\ UNCHANGED <<rtspVars, keyVars, mirrorVars, current_remote, rbuf, shown>>

RotateStarts ==
  /\ pc["mirror"] = "restarts"
  /\ Goes("mirror", "idle")
  /\ who' = [who EXCEPT !["mirror"] = NoClient]
  /\ Started(who["mirror"])
  /\ UNCHANGED <<rtspVars, keyVars, mirrorVars, current_remote>>

(* Type 102.                                                               *)
StreamStops(c) ==
  /\ c \in Streaming
  /\ StopsFor("mirror", NoClient)
  /\ UNCHANGED <<rtspVars, keyVars, mirrorVars, current_remote, rbuf, shown>>

(* The device closed its connection, or was silent in a header.            *)
CloseStream(c) ==
  /\ Idle("mirror")
  /\ c \in Streaming
  /\ Removes({c})
  /\ stream' = [stream EXCEPT ![c] = "none"]
  /\ UNCHANGED <<threadVars, rtspVars, keyVars, current_remote, rbuf, shown>>

Next ==
  \/ \E t \in Threads : StopDecoder(t) \/ StopForgets(t)
  \/ \E c \in Clients :
       \/ \E t \in Threads : AcceptPreempts(t, c)
       \/ AcceptControl(c) \/ AcceptStream(c)
       \/ Setup(c) \/ OpenStream(c) \/ Teardown(c) \/ CloseControl(c)
       \/ FirstPicture(c) \/ Picture(c) \/ Rotate(c)
       \/ StreamStops(c) \/ CloseStream(c)
  \/ OpenStarts \/ TakesKey \/ RotateStarts

Spec == Init /\ [][Next]_vars

-----------------------------------------------------------------------------
(***************************************************************************)
(* Properties.                                                             *)
(***************************************************************************)
(* A thread is in the callbacks for a client only where it can be, and a   *)
(* connection has a key only while it plays.                               *)
TypeOK ==
  /\ pc \in [Threads -> {"idle", "stops", "forgets", "starts", "takes", "restarts"}]
  /\ \A t \in Threads \ {"mirror"} : pc[t] \in {"idle", "stops", "forgets"}
  /\ who \in [Threads -> Clients \cup {NoClient}]
  /\ pc["mirror"] \in {"starts", "takes"} => stream[who["mirror"]] = "accepted"
  /\ pc["mirror"] = "restarts" => stream[who["mirror"]] = "playing"
  /\ control \in SUBSET Clients /\ ready \in SUBSET control
  /\ keys \in 0 .. MaxKeys /\ g_aes_key_ctx \in 0 .. keys
  /\ owner \in [Keys -> Clients \cup {NoClient}]
  /\ freed \in SUBSET (1 .. keys)
  /\ stream \in [Clients -> {"none", "waiting", "accepted", "playing"}]
  /\ aes_key_context \in [Clients -> 0 .. keys]
  /\ \A c \in Clients : aes_key_context[c] # 0 => stream[c] = "playing"
  /\ current_remote \in Clients \cup {NoClient}
  /\ shown \in SUBSET Clients /\ (~rbuf => shown = {})

(* "Before this, the iPhone has already sent its key, so this is no        *)
(* problem" (httpd.c:560), and "it differs for every device" (raop.c:132): *)
(* a connection decrypts with the key of its own device, which nobody      *)
(* freed and nobody else uses.                                             *)
OwnKey ==
  \A c \in Clients : stream[c] = "playing" =>
    /\ aes_key_context[c] # 0 /\ owner[aes_key_context[c]] = c
    /\ aes_key_context[c] \notin freed
    /\ \A d \in Clients \ {c} : aes_key_context[d] # aes_key_context[c]

(* "Allow preemptive mirroring" (httpd.c:273): from the first type 1 of a  *)
(* connection on, the decoder holds the pictures of its device only, never *)
(* a mix with those that the one before left, although nobody stops the    *)
(* decoder when a connection is lost.                                      *)
OnePicture == \A c \in Clients : stream[c] = "playing" => shown \subseteq {c}
=============================================================================
