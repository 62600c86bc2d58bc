--------------------------- MODULE MirroringProofs --------------------------
(***************************************************************************)
(* Proofs about Mirroring, for any number of devices and of SETUPs: its    *)
(* types in every behaviour; when devices come one after the other, that   *)
(* each stream has its own key and that the decoder holds the pictures of  *)
(* the device that plays and of no other.                                  *)
(***************************************************************************)
EXTENDS Mirroring, TLAPS

-----------------------------------------------------------------------------
(***************************************************************************)
(* Types.  What makes them inductive: whom the mirror server's thread is   *)
(* in a callback for, and that a device which may open a stream has none.  *)
(***************************************************************************)
Callers ==
  /\ pc["mirror"] \in {"starts", "takes", "restarts"} => who["mirror"] \in Clients
  /\ pc["mirror"] \in {"stops", "forgets"} /\ who["mirror"] # NoClient
       => stream[who["mirror"]] = "waiting"
  /\ \A c \in ready : stream[c] = "none"

TInv == TypeOK /\ Callers

(* A device has a mirror stream, or may open one.                          *)
Present(c) == c \in ready \/ stream[c] # "none"

(* Devices come one after the other.                                       *)
Sole == \A c, d \in Clients : Present(c) /\ Present(d) => c = d

(* Until the connection has its key, the global is the one its SETUP made. *)
KeyWaits ==
  \A c \in Clients : Present(c) /\ stream[c] # "playing" =>
    /\ g_aes_key_ctx # 0
    /\ owner[g_aes_key_ctx] = c
    /\ g_aes_key_ctx \notin freed

(* The pictures are those of the device that plays, and before it does so, *)
(* of the one whose type 1 restarted the decoder.                          *)
OneShown ==
  /\ OnePicture
  /\ pc["mirror"] = "takes" => shown \subseteq {who["mirror"]}

-----------------------------------------------------------------------------
LEMMA InitTInv == Init => TInv
BY MirroringAssumption DEF Init, TInv, TypeOK, Callers, Threads, Keys, MirroringAssumption

(* A stop takes the decoder away, on whatever thread.                      *)
LEMMA StopDecoderTypes ==
  ASSUME TInv, NEW t \in Threads, StopDecoder(t)
  PROVE  TInv'
BY DEF StopDecoder, TInv, TypeOK, Callers, rtspVars, keyVars, mirrorVars, Threads, Goes

(* Removing connections frees keys that were made, and takes them away.    *)
LEMMA RemovesKeys ==
  ASSUME TInv, NEW C, C \subseteq Clients, Removes(C)
  PROVE  /\ freed' \in SUBSET (1 .. keys)
         /\ aes_key_context' \in [Clients -> 0 .. keys]
         /\ \A d \in Clients : aes_key_context'[d] = IF d \in C THEN 0 ELSE aes_key_context[d]
         /\ \A k \in freed' : k \in freed \/ \E d \in C : k = aes_key_context[d] /\ k # 0
<1>1. keys \in Nat /\ \A d \in Clients : aes_key_context[d] \in 0 .. keys
  BY MirroringAssumption DEF TInv, TypeOK, MirroringAssumption
<1>2. ASSUME NEW k \in freed'
      PROVE  k \in freed \/ \E d \in C : k = aes_key_context[d] /\ k # 0
  BY DEF Removes
<1>3. ASSUME NEW k \in freed'
      PROVE  k \in 1 .. keys
  <2>1. CASE k \in freed
    BY <2>1 DEF TInv, TypeOK
  <2>2. CASE \E d \in C : k = aes_key_context[d] /\ k # 0
    BY <2>2, <1>1
  <2> QED
    BY <1>2, <1>3, <2>1, <2>2
<1>4. aes_key_context' = [d \in Clients |-> IF d \in C THEN 0 ELSE aes_key_context[d]]
  BY DEF Removes
<1> QED
  BY <1>1, <1>2, <1>3, <1>4

LEMMA StopForgetsTypes ==
  ASSUME TInv, NEW t \in Threads, StopForgets(t)
  PROVE  TInv'
<1>1. /\ pc' = [pc EXCEPT ![t] = "idle"]
      /\ who' = [who EXCEPT ![t] = NoClient]
      /\ who[t] \in Clients \cup {NoClient}
  BY DEF StopForgets, Goes, TInv, TypeOK
<1>2. CASE UNCHANGED <<rtspVars, mirrorVars>>
  BY <1>1, <1>2 DEF StopForgets, TInv, TypeOK, Callers, rtspVars, keyVars, mirrorVars, Threads
<1>3. CASE t = "rtsp" /\ who[t] # NoClient /\ AddsControl(who[t], control)
  BY <1>1, <1>3 DEF StopForgets, AddsControl, TInv, TypeOK, Callers, keyVars, mirrorVars, Threads
<1>4. CASE t = "mirror" /\ who[t] # NoClient /\ AddsStream(who[t], Streaming)
  <2> DEFINE c == who[t]
  <2>1. c \in Clients /\ stream[c] = "waiting" /\ t = "mirror" /\ c \notin Streaming
    BY <1>1, <1>4 DEF StopForgets, TInv, TypeOK, Callers, Streaming
  <2>2. /\ Removes(Streaming)
        /\ stream' = [d \in Clients |-> IF d = c THEN "accepted"
                                        ELSE IF d \in Streaming THEN "none" ELSE stream[d]]
    BY <1>4 DEF AddsStream
  <2>3. UNCHANGED <<control, ready, keys, owner, g_aes_key_ctx, rbuf, shown>> /\ current_remote' = NoClient
    BY <1>4 DEF StopForgets, AddsStream, rtspVars, keyVars
  <2>4. freed' \in SUBSET (1 .. keys)
    BY <2>2, RemovesKeys DEF Streaming
  <2>5. \A d \in ready : stream'[d] = "none"
    BY <2>1, <2>2 DEF TInv, TypeOK, Callers
  <2>6. /\ stream' \in [Clients -> {"none", "waiting", "accepted", "playing"}]
        /\ aes_key_context' \in [Clients -> 0 .. keys]
        /\ \A d \in Clients : aes_key_context'[d] # 0 => stream'[d] = "playing"
    BY <2>1, <2>2, RemovesKeys DEF Streaming, TInv, TypeOK
  <2>7. pc' \in [Threads -> {"idle", "stops", "forgets", "starts", "takes", "restarts"}]
        /\ who' \in [Threads -> Clients \cup {NoClient}] /\ pc'["mirror"] = "idle"
        /\ \A u \in Threads \ {"mirror"} : pc'[u] \in {"idle", "stops", "forgets"}
    BY <1>1, <2>1 DEF TInv, TypeOK
  <2> QED
    BY <2>3, <2>4, <2>5, <2>6, <2>7 DEF TInv, TypeOK, Callers
<1> QED
  BY <1>2, <1>3, <1>4 DEF StopForgets

LEMMA AcceptPreemptsTypes ==
  ASSUME TInv, NEW t \in Threads, NEW c \in Clients, AcceptPreempts(t, c)
  PROVE  TInv'
BY DEF AcceptPreempts, StopsFor, Idle, Goes, TInv, TypeOK, Callers, rtspVars, keyVars, mirrorVars, Threads

LEMMA AcceptControlTypes ==
  ASSUME TInv, NEW c \in Clients, AcceptControl(c)
  PROVE  TInv'
BY MirroringAssumption
   DEF AcceptControl, AddsControl, Idle, Goes, TInv, TypeOK, Callers, Threads, vars, threadVars,
       rtspVars, keyVars, mirrorVars, Keys, MirroringAssumption

LEMMA AcceptStreamTypes ==
  ASSUME TInv, NEW c \in Clients, AcceptStream(c)
  PROVE  TInv'
BY MirroringAssumption
   DEF AcceptStream, AddsStream, Removes, Streaming, Idle, Goes, TInv, TypeOK, Callers, Threads, vars, threadVars,
       rtspVars, keyVars, mirrorVars, Keys, MirroringAssumption

LEMMA SetupTypes ==
  ASSUME TInv, NEW c \in Clients, Setup(c)
  PROVE  TInv'
BY MirroringAssumption
   DEF Setup, Setkey, Idle, Goes, TInv, TypeOK, Callers, Threads, vars, threadVars,
       rtspVars, keyVars, mirrorVars, Keys, MirroringAssumption

LEMMA OpenStreamTypes ==
  ASSUME TInv, NEW c \in Clients, OpenStream(c)
  PROVE  TInv'
BY MirroringAssumption
   DEF OpenStream, Idle, Goes, TInv, TypeOK, Callers, Threads, vars, threadVars,
       rtspVars, keyVars, mirrorVars, Keys, MirroringAssumption

LEMMA TeardownTypes ==
  ASSUME TInv, NEW c \in Clients, Teardown(c)
  PROVE  TInv'
BY MirroringAssumption
   DEF Teardown, StopsFor, Idle, Goes, TInv, TypeOK, Callers, Threads, vars, threadVars,
       rtspVars, keyVars, mirrorVars, Keys, MirroringAssumption

LEMMA CloseControlTypes ==
  ASSUME TInv, NEW c \in Clients, CloseControl(c)
  PROVE  TInv'
BY MirroringAssumption
   DEF CloseControl, Idle, Goes, TInv, TypeOK, Callers, Threads, vars, threadVars,
       rtspVars, keyVars, mirrorVars, Keys, MirroringAssumption

LEMMA FirstPictureTypes ==
  ASSUME TInv, NEW c \in Clients, FirstPicture(c)
  PROVE  TInv'
BY MirroringAssumption
   DEF FirstPicture, Idle, Goes, TInv, TypeOK, Callers, Threads, vars, threadVars,
       rtspVars, keyVars, mirrorVars, Keys, MirroringAssumption

LEMMA PictureTypes ==
  ASSUME TInv, NEW c \in Clients, Picture(c)
  PROVE  TInv'
BY MirroringAssumption
   DEF Picture, Idle, Goes, TInv, TypeOK, Callers, Threads, vars, threadVars,
       rtspVars, keyVars, mirrorVars, Keys, MirroringAssumption

LEMMA RotateTypes ==
  ASSUME TInv, NEW c \in Clients, Rotate(c)
  PROVE  TInv'
BY MirroringAssumption
   DEF Rotate, Idle, Goes, TInv, TypeOK, Callers, Threads, vars, threadVars,
       rtspVars, keyVars, mirrorVars, Keys, MirroringAssumption

LEMMA StreamStopsTypes ==
  ASSUME TInv, NEW c \in Clients, StreamStops(c)
  PROVE  TInv'
BY MirroringAssumption
   DEF StreamStops, StopsFor, Idle, Goes, TInv, TypeOK, Callers, Threads, vars, threadVars,
       rtspVars, keyVars, mirrorVars, Keys, MirroringAssumption

LEMMA CloseStreamTypes ==
  ASSUME TInv, NEW c \in Clients, CloseStream(c)
  PROVE  TInv'
<1>1. /\ freed' \in SUBSET (1 .. keys)
      /\ aes_key_context' \in [Clients -> 0 .. keys]
      /\ \A d \in Clients : aes_key_context'[d] = IF d = c THEN 0 ELSE aes_key_context[d]
  BY RemovesKeys DEF CloseStream
<1>2. /\ pc["mirror"] = "idle" /\ c \notin ready
      /\ stream' = [stream EXCEPT ![c] = "none"]
      /\ UNCHANGED <<threadVars, rtspVars, keyVars, current_remote, rbuf, shown>>
  BY DEF CloseStream, Idle, Streaming, TInv, Callers
<1> QED
  BY <1>1, <1>2 DEF TInv, TypeOK, Callers, threadVars, rtspVars, keyVars

LEMMA OpenStartsTypes ==
  ASSUME TInv, OpenStarts
  PROVE  TInv'
BY MirroringAssumption
   DEF OpenStarts, Started, Idle, Goes, TInv, TypeOK, Callers, Threads, vars, threadVars,
       rtspVars, keyVars, mirrorVars, Keys, MirroringAssumption

LEMMA TakesKeyTypes ==
  ASSUME TInv, TakesKey
  PROVE  TInv'
BY MirroringAssumption
   DEF TakesKey, Idle, Goes, TInv, TypeOK, Callers, Threads, vars, threadVars,
       rtspVars, keyVars, mirrorVars, Keys, MirroringAssumption

LEMMA RotateStartsTypes ==
  ASSUME TInv, RotateStarts
  PROVE  TInv'
BY MirroringAssumption
   DEF RotateStarts, Started, Idle, Goes, TInv, TypeOK, Callers, Threads, vars, threadVars,
       rtspVars, keyVars, mirrorVars, Keys, MirroringAssumption

LEMMA NextTInv == TInv /\ [Next]_vars => TInv'
<1> SUFFICES ASSUME TInv, [Next]_vars PROVE TInv'
  OBVIOUS
<1>1. CASE UNCHANGED vars
  BY <1>1 DEF vars, threadVars, rtspVars, keyVars, mirrorVars, TInv, TypeOK, Callers
<1>2. ASSUME NEW t \in Threads, StopDecoder(t) \/ StopForgets(t)
      PROVE  TInv'
  BY <1>2, StopDecoderTypes, StopForgetsTypes
<1>3. ASSUME NEW c \in Clients, NEW t \in Threads, AcceptPreempts(t, c)
      PROVE  TInv'
  BY <1>3, AcceptPreemptsTypes
<1>4. ASSUME NEW c \in Clients,
             \/ AcceptControl(c) \/ AcceptStream(c)
             \/ Setup(c) \/ OpenStream(c) \/ Teardown(c) \/ CloseControl(c)
             \/ FirstPicture(c) \/ Picture(c) \/ Rotate(c)
             \/ StreamStops(c) \/ CloseStream(c)
      PROVE  TInv'
  BY <1>4, AcceptControlTypes, AcceptStreamTypes, SetupTypes, OpenStreamTypes, TeardownTypes,
     CloseControlTypes, FirstPictureTypes, PictureTypes, RotateTypes, StreamStopsTypes,
     CloseStreamTypes
<1>5. CASE OpenStarts \/ TakesKey \/ RotateStarts
  BY <1>5, OpenStartsTypes, TakesKeyTypes, RotateStartsTypes
<1> QED
  BY <1>1, <1>2, <1>3, <1>4, <1>5 DEF Next

(* A thread is in the callbacks for a client only where it can be, and a   *)
(* connection has a key only while it plays, also when SETUPs overlap.     *)
THEOREM TypeCorrect == Spec => []TypeOK
<1>1. TInv => TypeOK
  BY DEF TInv
<1> QED
  BY <1>1, InitTInv, NextTInv, PTL DEF Spec

-----------------------------------------------------------------------------
(***************************************************************************)
(* Keys, when devices come one after the other.                            *)
(***************************************************************************)
KInv == Sole /\ KeyWaits /\ OwnKey

LEMMA InitKInv == Init => KInv
BY DEF Init, KInv, Sole, KeyWaits, OwnKey, Present

(* Steps that make no key, take none and remove no connection.             *)
LEMMA KeysStay ==
  ASSUME KInv,
         UNCHANGED <<keyVars, freed, aes_key_context>>,
         \A c \in Clients : Present(c)' => Present(c),
         \A c \in Clients : stream'[c] = "playing" <=> stream[c] = "playing"
  PROVE  KInv'
<1>1. UNCHANGED <<owner, g_aes_key_ctx, freed, aes_key_context>>
  BY DEF keyVars
<1>2. Sole'
  BY DEF KInv, Sole
<1>3. KeyWaits'
  BY <1>1 DEF KInv, KeyWaits
<1>4. OwnKey'
  BY <1>1 DEF KInv, OwnKey
<1> QED
  BY <1>2, <1>3, <1>4 DEF KInv

(* A connection that is removed was the only one there was.                *)
LEMMA KeysRemoved ==
  ASSUME TInv, KInv, NEW C, C \subseteq Streaming, Removes(C),
         UNCHANGED <<keyVars, ready>>,
         \A d \in C : stream'[d] = "none",
         \A d \in Clients \ C : /\ stream'[d] = "playing" <=> stream[d] = "playing"
                                /\ stream'[d] = "none" <=> stream[d] = "none"
  PROVE  KInv'
<1>1. CASE C = {}
  <2>1. freed' = freed
    BY <1>1 DEF Removes
  <2>2. aes_key_context' = [c \in Clients |-> aes_key_context[c]]
    BY <1>1 DEF Removes
  <2>3. aes_key_context' = aes_key_context
    BY <2>2 DEF TInv, TypeOK
  <2>4. \A c \in Clients : Present(c)' => Present(c)
    BY <1>1 DEF Present
  <2> QED
    BY <1>1, <2>1, <2>3, <2>4, KeysStay
<1>2. CASE C # {}
  <2>1. PICK c \in C : TRUE
    BY <1>2
  <2>2. c \in Clients /\ stream[c] # "none" /\ c \notin ready
    BY <2>1 DEF Streaming, TInv, Callers
  <2>3. \A d \in Clients : ~Present(d)'
    BY <2>1, <2>2 DEF KInv, Sole, Present, Streaming
  <2>4. \A d \in Clients : stream'[d] = "none"
    BY <2>3 DEF Present
  <2> QED
    BY <2>3, <2>4 DEF KInv, Sole, KeyWaits, OwnKey
<1> QED
  BY <1>1, <1>2

(* SETUP makes a key that no connection has, nor ever gave back.           *)
LEMMA SetupKeys ==
  ASSUME ~Overlap, TInv, KInv, NEW c \in Clients, Setup(c)
  PROVE  KInv'
<1>1. /\ Alone(c) /\ keys < MaxKeys /\ keys' = keys + 1
      /\ owner' = [owner EXCEPT ![keys'] = c] /\ g_aes_key_ctx' = keys'
      /\ ready' \subseteq ready \cup {c} /\ UNCHANGED <<freed, stream, aes_key_context>>
  BY DEF Setup, Setkey, mirrorVars
<1>2. keys \in Nat /\ MaxKeys \in Nat /\ keys' \in Keys
  BY <1>1, MirroringAssumption DEF TInv, TypeOK, Keys, MirroringAssumption
<1>3. \A d \in Clients \ {c} : ~Present(d)' /\ stream'[d] = "none"
  BY <1>1 DEF Alone, Present
<1>4. keys' \notin freed /\ keys' # 0 /\ owner'[keys'] = c
  BY <1>1, <1>2 DEF TInv, TypeOK
<1>5. Sole'
  BY <1>3 DEF Sole
<1>6. KeyWaits'
  BY <1>1, <1>3, <1>4 DEF KeyWaits
<1>7. OwnKey'
  <2> SUFFICES ASSUME NEW d \in Clients, stream[d] = "playing"
               PROVE  /\ aes_key_context[d] # 0 /\ owner'[aes_key_context[d]] = d
                      /\ aes_key_context[d] \notin freed
                      /\ \A e \in Clients \ {d} : aes_key_context[e] # aes_key_context[d]
    BY <1>1 DEF OwnKey
  <2>1. /\ aes_key_context[d] # 0 /\ owner[aes_key_context[d]] = d
        /\ aes_key_context[d] \notin freed
        /\ \A e \in Clients \ {d} : aes_key_context[e] # aes_key_context[d]
    BY DEF KInv, OwnKey
  <2>2. aes_key_context[d] \in 0 .. keys
    BY DEF TInv, TypeOK
  <2>3. aes_key_context[d] # keys' /\ aes_key_context[d] \in Keys
    BY <1>1, <1>2, <2>1, <2>2 DEF Keys
  <2>4. owner'[aes_key_context[d]] = owner[aes_key_context[d]]
    BY <1>1, <2>3 DEF TInv, TypeOK
  <2> QED
    BY <2>1, <2>4
<1> QED
  BY <1>5, <1>6, <1>7 DEF KInv

(* The connection takes the key that its own device's SETUP left.          *)
LEMMA TakesKeyKeys ==
  ASSUME TInv, KInv, TakesKey
  PROVE  KInv'
<1> DEFINE c == who["mirror"]
<1>1. c \in Clients /\ stream[c] = "accepted" /\ "mirror" \in Threads
  BY DEF TakesKey, TInv, TypeOK, Callers, Threads
<1>2. /\ aes_key_context' = [aes_key_context EXCEPT ![c] = g_aes_key_ctx]
      /\ stream' = [stream EXCEPT ![c] = "playing"]
      /\ UNCHANGED <<ready, owner, g_aes_key_ctx, freed>>
  BY DEF TakesKey, rtspVars, keyVars
<1>3. Present(c) /\ g_aes_key_ctx # 0 /\ owner[g_aes_key_ctx] = c /\ g_aes_key_ctx \notin freed
  BY <1>1 DEF Present, KInv, KeyWaits
<1>4. \A d \in Clients \ {c} : stream[d] = "none" /\ aes_key_context[d] = 0 /\ d \notin ready
  BY <1>1, <1>3 DEF KInv, Sole, Present, TInv, TypeOK
<1>5. stream'[c] = "playing" /\ aes_key_context'[c] = g_aes_key_ctx
  BY <1>1, <1>2 DEF TInv, TypeOK
<1>6. \A d \in Clients \ {c} : stream'[d] = "none" /\ aes_key_context'[d] = 0 /\ d \notin ready'
  BY <1>1, <1>2, <1>4 DEF TInv, TypeOK
<1>7. Sole'
  BY <1>6 DEF Sole, Present
<1>8. KeyWaits'
  BY <1>5, <1>6 DEF KeyWaits, Present
<1>9. OwnKey'
  BY <1>2, <1>3, <1>5, <1>6 DEF OwnKey
<1> QED
  BY <1>7, <1>8, <1>9 DEF KInv

LEMMA StopForgetsKeys ==
  ASSUME TInv, KInv, NEW t \in Threads, StopForgets(t)
  PROVE  KInv'
<1>1. UNCHANGED keyVars
  BY DEF StopForgets
<1>2. CASE UNCHANGED <<rtspVars, mirrorVars>>
  BY <1>1, <1>2, KeysStay DEF rtspVars, mirrorVars, Present
<1>3. CASE AddsControl(who[t], control)
  BY <1>1, <1>3, KeysStay DEF AddsControl, mirrorVars, Present
<1>4. CASE t = "mirror" /\ who[t] # NoClient /\ AddsStream(who[t], Streaming)
  <2>1. who[t] \in Clients /\ stream[who[t]] = "waiting" /\ who[t] \notin Streaming
    BY <1>4 DEF StopForgets, TInv, TypeOK, Callers, Streaming
  <2>2. /\ Removes(Streaming) /\ UNCHANGED ready
        /\ stream' = [d \in Clients |-> IF d = who[t] THEN "accepted"
                                        ELSE IF d \in Streaming THEN "none" ELSE stream[d]]
    BY <1>4 DEF AddsStream, rtspVars
  <2>3. \A d \in Streaming : d \in Clients /\ stream'[d] = "none"
    BY <2>1, <2>2 DEF Streaming
  <2>4. \A d \in Clients \ Streaming : /\ stream'[d] = "playing" <=> stream[d] = "playing"
                                       /\ stream'[d] = "none" <=> stream[d] = "none"
    BY <2>1, <2>2 DEF Streaming
  <2> QED
    BY <1>1, <2>2, <2>3, <2>4, KeysRemoved
<1> QED
  BY <1>2, <1>3, <1>4 DEF StopForgets

LEMMA AcceptStreamKeys ==
  ASSUME TInv, KInv, NEW c \in Clients, AcceptStream(c)
  PROVE  KInv'
<1>1. /\ Removes({}) /\ UNCHANGED <<keyVars, ready>> /\ stream[c] = "waiting"
      /\ stream' = [d \in Clients |-> IF d = c THEN "accepted" ELSE stream[d]]
  BY DEF AcceptStream, AddsStream, rtspVars
<1> QED
  BY <1>1, KeysRemoved

LEMMA CloseStreamKeys ==
  ASSUME TInv, KInv, NEW c \in Clients, CloseStream(c)
  PROVE  KInv'
<1>1. /\ Removes({c}) /\ UNCHANGED <<keyVars, ready>> /\ c \in Streaming
      /\ stream' = [stream EXCEPT ![c] = "none"]
  BY DEF CloseStream, rtspVars
<1>2. \A d \in Clients \ {c} : stream'[d] = stream[d]
  BY <1>1 DEF TInv, TypeOK
<1>3. stream'[c] = "none"
  BY <1>1 DEF TInv, TypeOK
<1> QED
  BY <1>1, <1>2, <1>3, KeysRemoved

LEMMA NextKInv == ~Overlap /\ TInv /\ KInv /\ [Next]_vars => KInv'
<1> SUFFICES ASSUME ~Overlap, TInv, KInv, [Next]_vars PROVE KInv'
  OBVIOUS
<1> DEFINE Quiet == UNCHANGED <<ready, keyVars, mirrorVars>>
<1>0. ASSUME Quiet
      PROVE  KInv'
  BY <1>0, KeysStay DEF mirrorVars, Present
<1>1. CASE UNCHANGED vars
  BY <1>0, <1>1 DEF vars, rtspVars
<1>2. ASSUME NEW t \in Threads, StopDecoder(t)
      PROVE  KInv'
  BY <1>0, <1>2 DEF StopDecoder, rtspVars
<1>3. ASSUME NEW t \in Threads, StopForgets(t)
      PROVE  KInv'
  BY <1>3, StopForgetsKeys
<1>4. ASSUME NEW c \in Clients, NEW t \in Threads, AcceptPreempts(t, c)
      PROVE  KInv'
  BY <1>0, <1>4 DEF AcceptPreempts, rtspVars
<1>5. ASSUME NEW c \in Clients,
             \/ Teardown(c) \/ StreamStops(c)
             \/ FirstPicture(c) \/ Picture(c) \/ Rotate(c)
      PROVE  KInv'
  BY <1>0, <1>5 DEF Teardown, StreamStops, FirstPicture, Picture, Rotate, rtspVars
<1>6. ASSUME NEW c \in Clients, AcceptControl(c) \/ CloseControl(c)
      PROVE  KInv'
  BY <1>6, KeysStay DEF AcceptControl, AddsControl, CloseControl, mirrorVars, Present
<1>7. ASSUME NEW c \in Clients, OpenStream(c)
      PROVE  KInv'
  <2>1. /\ UNCHANGED <<keyVars, freed, aes_key_context>> /\ c \in ready
        /\ ready' \subseteq ready /\ stream' = [stream EXCEPT ![c] = "waiting"]
    BY <1>7 DEF OpenStream
  <2>2. stream[c] = "none"
    BY <2>1 DEF TInv, Callers
  <2>3. ASSUME NEW d \in Clients, Present(d)'
        PROVE  Present(d)
    <3>1. CASE d = c
      BY <2>1, <3>1 DEF Present
    <3>2. CASE d # c
      BY <2>1, <2>3, <3>2 DEF Present, TInv, TypeOK
    <3> QED
      BY <3>1, <3>2
  <2>4. \A d \in Clients : stream'[d] = "playing" <=> stream[d] = "playing"
    BY <2>1, <2>2 DEF TInv, TypeOK
  <2> QED
    BY <2>1, <2>3, <2>4, KeysStay
<1>8. ASSUME NEW c \in Clients, Setup(c) \/ AcceptStream(c) \/ CloseStream(c)
      PROVE  KInv'
  BY <1>8, SetupKeys, AcceptStreamKeys, CloseStreamKeys
<1>9. CASE OpenStarts \/ RotateStarts
  BY <1>0, <1>9 DEF OpenStarts, RotateStarts, rtspVars
<1>10. CASE TakesKey
  BY <1>10, TakesKeyKeys
<1> QED
  BY <1>1, <1>2, <1>3, <1>4, <1>5, <1>6, <1>7, <1>8, <1>9, <1>10 DEF Next

(* When devices come one after the other, a connection that plays decrypts *)
(* with the key that the SETUP of its own device made, which is nobody     *)
(* else's and was not freed.                                               *)
THEOREM KeysAreOwn == ~Overlap => (Spec => []OwnKey)
<1> SUFFICES ASSUME ~Overlap PROVE Spec => []OwnKey
  OBVIOUS
<1>1. Init => TInv /\ KInv
  BY InitTInv, InitKInv
<1>2. TInv /\ KInv /\ [Next]_vars => (TInv /\ KInv)'
  BY NextTInv, NextKInv
<1>3. KInv => OwnKey
  BY DEF KInv
<1> QED
  BY <1>1, <1>2, <1>3, PTL DEF Spec

-----------------------------------------------------------------------------
(***************************************************************************)
(* Pictures, when devices come one after the other.                        *)
(***************************************************************************)
LEMMA InitShown == Init => OneShown
BY DEF Init, OneShown, OnePicture, Threads

(* Steps that show nothing new and make nobody play.                       *)
LEMMA ShownStays ==
  ASSUME OneShown, shown' \subseteq shown,
         \A c \in Clients : stream'[c] = "playing" => stream[c] = "playing",
         pc'["mirror"] # "takes" \/ UNCHANGED <<pc, who>>
  PROVE  OneShown'
BY DEF OneShown, OnePicture

LEMMA NextShown == TInv /\ KInv /\ OneShown /\ [Next]_vars => OneShown'
<1> SUFFICES ASSUME TInv, KInv, OneShown, [Next]_vars PROVE OneShown'
  OBVIOUS
<1> DEFINE m == who["mirror"]
<1>0. "mirror" \in Threads /\ DOMAIN pc = Threads /\ DOMAIN who = Threads
      /\ pc = [t \in Threads |-> pc[t]] /\ who = [t \in Threads |-> who[t]]
  BY DEF TInv, TypeOK, Threads
<1>1. CASE UNCHANGED vars
  BY <1>1, ShownStays DEF vars, threadVars, mirrorVars
<1>2. ASSUME NEW t \in Threads, StopDecoder(t)
      PROVE  OneShown'
  BY <1>2 DEF StopDecoder, OneShown, OnePicture
<1>3. ASSUME NEW t \in Threads, StopForgets(t)
      PROVE  OneShown'
  <2>1. shown' = shown /\ pc' = [pc EXCEPT ![t] = "idle"] /\ who' = [who EXCEPT ![t] = NoClient]
    BY <1>3 DEF StopForgets, Goes
  <2>2. pc'["mirror"] = "takes" => pc["mirror"] = "takes" /\ who'["mirror"] = who["mirror"]
    BY <2>1, <1>0
  <2>3. \A c \in Clients : stream'[c] = "playing" => stream[c] = "playing"
    BY <1>3 DEF StopForgets, AddsControl, AddsStream, mirrorVars, rtspVars, TInv, TypeOK
  <2> QED
    BY <2>1, <2>2, <2>3 DEF OneShown, OnePicture
<1>4. ASSUME NEW c \in Clients, NEW t \in Threads,
             AcceptPreempts(t, c) \/ (t = "rtsp" /\ Teardown(c)) \/ (t = "mirror" /\ StreamStops(c))
      PROVE  OneShown'
  <2>1. /\ shown' = shown /\ pc' = [pc EXCEPT ![t] = "stops"] /\ UNCHANGED stream
        /\ \E d \in Clients \cup {NoClient} : who' = [who EXCEPT ![t] = d]
    BY <1>4 DEF AcceptPreempts, Teardown, StreamStops, StopsFor, Goes, mirrorVars
  <2>2. pc'["mirror"] = "takes" => pc["mirror"] = "takes" /\ who'["mirror"] = who["mirror"]
    BY <2>1, <1>0
  <2> QED
    BY <2>1, <2>2 DEF OneShown, OnePicture
<1>5. ASSUME NEW c \in Clients, AcceptControl(c) \/ CloseControl(c) \/ Setup(c)
      PROVE  OneShown'
  BY <1>5, ShownStays DEF AcceptControl, AddsControl, CloseControl, Setup, mirrorVars, threadVars
<1>6. ASSUME NEW c \in Clients, AcceptStream(c) \/ OpenStream(c) \/ CloseStream(c)
      PROVE  OneShown'
  <2>1. /\ UNCHANGED <<shown, pc, who>>
        /\ \A d \in Clients : stream'[d] = "playing" => stream[d] = "playing"
    BY <1>6 DEF AcceptStream, AddsStream, OpenStream, CloseStream, threadVars, TInv, TypeOK
  <2> QED
    BY <2>1, ShownStays
<1>7. ASSUME NEW c \in Clients, FirstPicture(c) \/ Rotate(c)
      PROVE  OneShown'
  <2>1. UNCHANGED <<shown, stream>> /\ pc'["mirror"] \in {"starts", "restarts"}
    BY <1>0, <1>7 DEF FirstPicture, Rotate, Goes, mirrorVars
  <2> QED
    BY <2>1, ShownStays
<1>8. ASSUME NEW c \in Clients, Picture(c)
      PROVE  OneShown'
  <2>1. /\ UNCHANGED <<stream, pc, who>> /\ shown' \subseteq shown \cup {c}
        /\ stream[c] # "none" /\ pc["mirror"] = "idle"
    BY <1>8 DEF Picture, Idle, Streaming, threadVars, mirrorVars
  <2>2. \A d \in Clients : stream[d] = "playing" => d = c
    BY <2>1 DEF KInv, Sole, Present
  <2> QED
    BY <2>1, <2>2 DEF OneShown, OnePicture
<1>9. CASE OpenStarts \/ RotateStarts
  <2>1. /\ shown' = {m} /\ UNCHANGED stream /\ m \in Clients
        /\ stream[m] # "none"
    BY <1>9 DEF OpenStarts, RotateStarts, Started, mirrorVars, TInv, TypeOK, Callers
  <2>2. pc'["mirror"] = "takes" => who' = who
    <3>1. CASE OpenStarts
      BY <3>1 DEF OpenStarts
    <3>2. CASE RotateStarts
      BY <1>0, <3>2 DEF RotateStarts, Goes
    <3> QED
      BY <1>9, <3>1, <3>2
  <2>3. \A d \in Clients : stream[d] = "playing" => d = m
    BY <2>1 DEF KInv, Sole, Present
  <2> QED
    BY <2>1, <2>2, <2>3 DEF OneShown, OnePicture
<1>10. CASE TakesKey
  <2>1. /\ m \in Clients /\ stream[m] = "accepted" /\ pc["mirror"] = "takes"
        /\ UNCHANGED shown /\ stream' = [stream EXCEPT ![m] = "playing"]
        /\ pc'["mirror"] = "idle"
    BY <1>0, <1>10 DEF TakesKey, Goes, TInv, TypeOK, Callers
  <2>2. shown \subseteq {m}
    BY <2>1 DEF OneShown, OnePicture
  <2>3. \A d \in Clients : stream[d] = "playing" => d = m
    BY <2>1 DEF KInv, Sole, Present
  <2>4. \A d \in Clients : stream'[d] = "playing" => d = m
    BY <2>1, <2>3 DEF TInv, TypeOK
  <2> QED
    BY <2>1, <2>2, <2>4 DEF OneShown, OnePicture
<1> QED
  BY <1>1, <1>2, <1>3, <1>4, <1>5, <1>6, <1>7, <1>8, <1>9, <1>10 DEF Next, Threads

(* When devices come one after the other, the decoder holds the pictures   *)
(* of the device that plays and of no other, although it is not stopped    *)
(* when a connection is lost.                                              *)
THEOREM PicturesOfOne == ~Overlap => (Spec => []OnePicture)
<1> SUFFICES ASSUME ~Overlap PROVE Spec => []OnePicture
  OBVIOUS
<1>1. Init => TInv /\ KInv /\ OneShown
  BY InitTInv, InitKInv, InitShown
<1>2. TInv /\ KInv /\ OneShown /\ [Next]_vars => (TInv /\ KInv /\ OneShown)'
  BY NextTInv, NextKInv, NextShown
<1>3. OneShown => OnePicture
  BY DEF OneShown
<1> QED
  BY <1>1, <1>2, <1>3, PTL DEF Spec
=============================================================================
