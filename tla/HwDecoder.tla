----------------------------- MODULE HwDecoder ------------------------------
(***************************************************************************)
(* The ring in use (jniinterface/hwdecode.cpp): the mirror thread, which   *)
(* starts the decoder and writes the video, the RTSP thread, which stops   *)
(* it at a TEARDOWN of the mirror stream, and the player's thread, which   *)
(* reads.  start and stop reset the ring; stop also frees it.              *)
(*                                                                         *)
(* A write or a read that finds no ring returns at once.  A thread that is *)
(* in the ring when it is freed goes on as if it were there: what else may *)
(* become of it is not modelled.  The property below is what the ring's    *)
(* own comment promises its users; TLC shows that this use loses it.       *)
(***************************************************************************)
EXTENDS RingBuffer

CONSTANT MaxStarts (* How often the decoder is started, at most.           *)

VARIABLES
  rbuf,      (* Whether there is a ring (the pointer is not NULL).         *)
  start_pc,  (* Where the mirror thread is in start: "idle", or the store  *)
  stop_pc,   (* of ringbuffer_reset that is next; the RTSP thread in stop. *)
  starts

decoderVars == <<rbuf, start_pc, stop_pc, starts>>

DecoderInit ==
  /\ Init
  /\ rbuf = FALSE
  /\ start_pc = "idle" /\ stop_pc = "idle"
  /\ starts = 0

(* The three stores of ringbuffer_reset, in their order.                   *)
ResetStore(pc) ==
  /\ read_ptr' = IF pc = "read_ptr" THEN 0 ELSE read_ptr
  /\ write_ptr' = IF pc = "write_ptr" THEN 0 ELSE write_ptr
  /\ buf' = IF pc = "buf" THEN [i \in Positions |-> 0] ELSE buf
  /\ UNCHANGED <<put_pc, put_n1, put_n2, get_pc, get_n1, get_n2, accepted, handed>>

After == [read_ptr |-> "write_ptr", write_ptr |-> "buf", buf |-> "done"]

(* start: video_mirroring_open, or process when the size of the picture    *)
(* changed.  The mirror thread is not in a write then.                     *)
Start ==
  /\ start_pc = "idle" /\ put_pc = "idle"
  /\ starts < MaxStarts
  /\ starts' = starts + 1
  /\ start_pc' = "read_ptr"
  /\ rbuf' = TRUE
  /\ \/ rbuf /\ UNCHANGED <<write_ptr, read_ptr, buf>>
     \/ /\ ~rbuf
        /\ write_ptr' = 0 /\ read_ptr' = 0
        /\ UNCHANGED buf
  /\ UNCHANGED <<put_pc, put_n1, put_n2, get_pc, get_n1, get_n2, accepted, handed, stop_pc>>

StartResets ==
  /\ start_pc \in DOMAIN After
  /\ ResetStore(start_pc)
  /\ start_pc' = After[start_pc]
  /\ UNCHANGED <<rbuf, stop_pc, starts>>

StartDone ==
  /\ start_pc = "done"
  /\ start_pc' = "idle"
  /\ UNCHANGED <<vars, rbuf, stop_pc, starts>>

(* stop: request_handle_teardown, type 110.                                *)
Stop ==
  /\ stop_pc = "idle"
  /\ stop_pc' = IF rbuf THEN "read_ptr" ELSE "idle"
  /\ UNCHANGED <<vars, rbuf, start_pc, starts>>

StopResets ==
  /\ stop_pc \in DOMAIN After
  /\ ResetStore(stop_pc)
  /\ stop_pc' = After[stop_pc]
  /\ UNCHANGED <<rbuf, start_pc, starts>>

(* ringbuffer_destroy, and rbuf = NULL.                                    *)
StopDestroys ==
  /\ stop_pc = "done"
  /\ stop_pc' = "idle"
  /\ rbuf' = FALSE
  /\ UNCHANGED <<vars, start_pc, starts>>

write264Stream ==
  /\ start_pc = "idle"
  /\ \E size \in 1 .. MaxCall : rbuf /\ PutBegins(size)
  /\ UNCHANGED decoderVars

read264Stream ==
  /\ \E size \in 1 .. MaxCall : rbuf /\ GetBegins(size)
  /\ UNCHANGED decoderVars

RingSteps ==
  /\ PutCopies \/ PutPublishes \/ GetCopies \/ GetPublishes
  /\ UNCHANGED decoderVars

DecoderNext ==
  \/ Start \/ StartResets \/ StartDone
  \/ Stop \/ StopResets \/ StopDestroys
  \/ write264Stream \/ read264Stream \/ RingSteps

DecoderSpec == DecoderInit /\ [][DecoderNext]_<<vars, decoderVars>>

-----------------------------------------------------------------------------
(***************************************************************************)
(* Properties.                                                             *)
(***************************************************************************)
(* "Safe for the case of one read thread and one write thread"             *)
(* (ring_buffer.c:20), the player's and the mirror thread: while one of    *)
(* them is in a call there is a ring, whatever the RTSP thread does.       *)
InUseNotFreed == put_pc # "idle" \/ get_pc # "idle" => rbuf
=============================================================================
