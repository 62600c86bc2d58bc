----------------------------- MODULE RaopStream -----------------------------
(***************************************************************************)
(* One audio stream from the sender's packets to audio_process: the loop   *)
(* of raop_rtp_thread_udp (libairplay/airplay/raop_rtp.c) on top of the    *)
(* reordering buffer, against a network that loses, duplicates, delays and *)
(* reorders packets, and a sender that answers requests for old packets.   *)
(*                                                                         *)
(* Packets are counted from 0 (up to MaxSent here); what is on the wire is *)
(* the count modulo the width of a sequence number, so a property can tell *)
(* a packet from the one a lap before it.                                  *)
(*                                                                         *)
(* The network is bounded in the two ways that 16 bits rely on: a packet   *)
(* is gone once MaxDelay newer ones were sent, and the sender is never     *)
(* more than MaxOutage packets ahead of the last one received.  The head   *)
(* of the window may be a window behind the last one received, or as far   *)
(* as a packet is late, or as a flush waited for: what the sender may be   *)
(* ahead of the head stays in half the space of the sequence numbers.      *)
(***************************************************************************)
EXTENDS RaopBuffer

CONSTANTS
  StartSeq,  (* The sequence number of packet 0.                           *)
  MaxSent,   (* How many packets the sender sends (bounds the model).      *)
  MaxDelay,  (* The oldest packet the network can still deliver.           *)
  MaxOutage  (* How far the sender gets ahead of what was received.        *)

VARIABLES
  frame,     (* Slot -> the packet whose audio is in it, -1 at first.      *)
  pc,        (* Where the RTP thread is in its loop.                       *)
  flush,     (* The pending flush, left by the RTSP thread.                *)
  no_resend, (* SETUP gave no control port: no packet is asked for again.  *)
  has_addr,  (* A control packet has told us where to send requests.       *)
  sent,      (* The number of packets sent so far.                         *)
  data,      (* Packets on their way to the data port.                     *)
  resent,    (* Packets sent again, on their way to the control port.      *)
  received,  (* The newest packet received, -1 before the first.           *)
  played,    (* The last packet handed to audio_process since a flush.     *)
  barrier,   (* The packet the last flush of a filled buffer starts from.  *)
  asked      (* Sequence numbers of the window that were asked for.        *)

network == <<sent, data, resent, received>>
history == <<played, barrier, asked>>
session == <<no_resend, has_addr>>
vars == <<bufferVars, frame, pc, flush, session, network, history>>

SeqOf(n) == (StartSeq + n) % SeqMod
Recent(S, count) == {n \in S : count - n <= MaxDelay}

(* A pending flush is the count of a packet (the code keeps its sequence   *)
(* number), NoSeq when FLUSH named none, or NO_FLUSH.                      *)
NO_FLUSH == -42

ASSUME StreamAssumption ==
  /\ MaxSent \in Nat \ {0}
  /\ StartSeq \in Seqnum
  /\ MaxDelay \in Nat \ {0}
  /\ MaxOutage \in Nat
  /\ \A d \in {RAOP_BUFFER_LENGTH, MaxDelay, MaxOutage} : MaxOutage + d <= HalfSeq

Init ==
  /\ raop_buffer_init
  /\ frame = [i \in Slots |-> -1]
  /\ pc = "events"
  /\ flush = NO_FLUSH
  /\ no_resend \in BOOLEAN
  /\ has_addr = FALSE
  /\ sent = 0 /\ data = {} /\ resent = {} /\ received = -1
  /\ played = -1 /\ barrier = -1 /\ asked = {}

-----------------------------------------------------------------------------
(***************************************************************************)
(* The sender, the network and the RTSP thread.                            *)
(***************************************************************************)
Send ==
  /\ sent < MaxSent
  /\ sent - received <= MaxOutage
  /\ sent' = sent + 1
  /\ data' = Recent(data \cup {sent}, sent')
  /\ resent' = Recent(resent, sent')
  /\ UNCHANGED <<bufferVars, frame, pc, flush, session, received, history>>

Lose ==
  /\ \/ \E n \in data : data' = data \ {n} /\ UNCHANGED resent
     \/ \E n \in resent : resent' = resent \ {n} /\ UNCHANGED data
  /\ UNCHANGED <<bufferVars, frame, pc, flush, session, sent, received, history>>

(* FLUSH names the next packet the sender will send, or none.              *)
raop_rtp_flush ==
  /\ pc # "aborted"
  /\ flush' \in {sent, NoSeq}
  /\ UNCHANGED <<bufferVars, frame, pc, session, network, history>>

-----------------------------------------------------------------------------
(***************************************************************************)
(* The RTP thread: the top of the loop, select, one packet, the frames it  *)
(* makes ready, and the requests it gives rise to.                         *)
(***************************************************************************)
process_events ==
  /\ pc = "events"
  /\ pc' = "select"
  /\ flush' = NO_FLUSH
  /\ \/ /\ flush = NO_FLUSH
        /\ UNCHANGED <<bufferVars, history>>
     \/ /\ flush # NO_FLUSH
        /\ raop_buffer_flush(IF flush = NoSeq THEN flush ELSE SeqOf(flush))
        /\ played' = -1
        /\ barrier' = IF is_empty THEN -1 ELSE flush
        /\ asked' = {}
  /\ UNCHANGED <<frame, session, network>>

(* 5 ms without a packet, or a packet on the timing port.                  *)
SelectNothing ==
  /\ pc = "select"
  /\ pc' = "events"
  /\ UNCHANGED <<bufferVars, frame, flush, session, network, history>>

Stored(s) == ~TooLate(s) /\ (Overrun(s) \/ ~Duplicate(s))

(* The numbers of S that are still to be handed out after this step.       *)
StillAhead(S) ==
  {s \in S : seqnum_cmp(s, first_seqnum') \in 0 .. RAOP_BUFFER_LENGTH - 1}

QueuePacket(n) ==
  LET s == SeqOf(n) IN
  /\ raop_buffer_queue(TRUE, s, TRUE)
  /\ frame' = IF Stored(s) THEN [frame EXCEPT ![Slot(s)] = n] ELSE frame
  /\ received' = IF n > received THEN n ELSE received
  /\ asked' = StillAhead(asked)

(* A sync packet (type 0x54): only its source address matters here.        *)
ReceiveSync ==
  /\ pc = "select"
  /\ has_addr' = TRUE
  /\ pc' = "events"
  /\ UNCHANGED <<bufferVars, frame, flush, no_resend, network, history>>

(* A packet sent again (type 0x56) is stored; nothing is handed out.       *)
ReceiveResent ==
  /\ pc = "select"
  /\ \E n \in resent :
       /\ QueuePacket(n)
       /\ resent' = resent \ {n}
  /\ has_addr' = TRUE
  /\ pc' = "events"
  /\ UNCHANGED <<flush, no_resend, sent, data, played, barrier>>

(* The network may keep a copy of the packet it delivers.                  *)
ReceiveData ==
  /\ pc = "select"
  /\ \E n \in data :
       /\ QueuePacket(n)
       /\ data' \in {data, data \ {n}}
  /\ pc' = "drain"
  /\ UNCHANGED <<flush, session, sent, resent, played, barrier>>

(* A packet that raop_buffer_queue refuses: packetlen is unsigned, so a    *)
(* recvfrom that fails passes for a long one, and a 0x56 packet may be     *)
(* shorter than its headers.  The assertion on the result ends the program *)
(* where it is compiled in; without it the loop goes on.                   *)
ReceiveInvalid ==
  /\ pc = "select"
  /\ raop_buffer_queue(FALSE, 0, TRUE)
  /\ \/ has_addr' = TRUE /\ pc' \in {"events", "aborted"}
     \/ pc' \in {"drain", "aborted"} /\ UNCHANGED has_addr
  /\ UNCHANGED <<frame, flush, no_resend, network, history>>

(* One turn of the loop around raop_buffer_dequeue and audio_process.      *)
Drain ==
  /\ pc = "drain"
  /\ raop_buffer_dequeue(no_resend)
  /\ pc' = CASE out' # Nothing -> "drain"
             [] out' = Nothing /\ no_resend -> "events"
             [] OTHER -> "resend"
  /\ played' = IF out'.kind = "frame" THEN frame[Slot(first_seqnum)] ELSE played
  /\ asked' = StillAhead(asked)
  /\ UNCHANGED <<frame, flush, session, network, barrier>>

(* The numbers a request names.                                            *)
Named(request) ==
  {Plus(request.seqnum, k) : k \in 0 .. request.count - 1}

(* raop_rtp_resend_callback: a request has somewhere to go only once a     *)
(* control packet came; a sender that gets it repeats what it still has.   *)
SendRequest ==
  LET names == Named(out')
      again == {n \in Recent(0 .. sent - 1, sent) : SeqOf(n) \in names}
  IN  /\ asked' = asked \cup names
      /\ \/ UNCHANGED resent
         \/ has_addr /\ resent' = resent \cup again

HandleResends ==
  /\ pc = "resend"
  /\ raop_buffer_handle_resends
  /\ pc' = "events"
  /\ \/ out'.kind # "resend" /\ UNCHANGED <<asked, resent>>
     \/ out'.kind = "resend" /\ SendRequest
  /\ UNCHANGED <<frame, flush, session, sent, data, received, played, barrier>>

(* There is no program any more: nothing is left to do, which is no        *)
(* deadlock of it.                                                         *)
Aborted ==
  /\ pc = "aborted"
  /\ UNCHANGED vars

Next ==
  \/ Send \/ Lose \/ raop_rtp_flush
  \/ process_events \/ SelectNothing
  \/ ReceiveSync \/ ReceiveResent \/ ReceiveData \/ ReceiveInvalid
  \/ Drain \/ HandleResends
  \/ Aborted

Spec == Init /\ [][Next]_vars

-----------------------------------------------------------------------------
TypeOK ==
  /\ BufferTypeOK
  /\ frame \in [Slots -> -1 .. MaxSent - 1]
  /\ pc \in {"events", "select", "drain", "resend", "aborted"}
  /\ flush \in {NO_FLUSH, NoSeq} \cup 0 .. MaxSent
  /\ no_resend \in BOOLEAN /\ has_addr \in BOOLEAN
  /\ sent \in 0 .. MaxSent
  /\ data \subseteq 0 .. sent - 1 /\ resent \subseteq 0 .. sent - 1
  /\ received \in -1 .. sent - 1
  /\ played \in -1 .. sent - 1
  /\ barrier \in -1 .. MaxSent
  /\ asked \subseteq Seqnum

(* This step hands a frame to audio_process.                               *)
Plays ==
  /\ pc \in {"drain", "dequeue"}
  /\ first_seqnum' # first_seqnum /\ out'.kind = "frame"

(* The sound keeps the order it was recorded in: between two flushes, the  *)
(* packets handed to audio_process have rising counts, so no packet is     *)
(* played twice, or after a later one, or a lap late - however the network *)
(* reorders and repeats them and wherever the sequence number wraps.       *)
PlayedInOrder ==
  [][Plays => played < played']_vars

(* Once a flush that names a packet was applied to a buffer that had       *)
(* received something, nothing older than that packet is played.  (This    *)
(* is the UDP loop's: what is on its way in a TCP stream is played.)       *)
NothingFromBeforeFlush ==
  [][Plays /\ pc = "drain" => barrier <= played']_vars

(* What is handed out is the oldest packet there is: everything that stays *)
(* in the slots was recorded after it.  So no packet is passed over for a  *)
(* newer one, the one that a 0x56 packet brought included: it fills the    *)
(* head, and waits there until the next data packet drains the buffer      *)
(* (raop_rtp.c:439-453), while newer packets come in around it.            *)
NothingPassedOver ==
  [][Plays => \A i \in Slots : entries'[i].available => played' < frame'[i]]_vars

(* No packet is asked for a second time while it is still waited for.      *)
AskedOnce ==
  [][pc = "resend" /\ pc' = "events" /\ out'.kind = "resend"
       => asked \cap Named(out') = {}]_vars

(* The loop waits at a gap: later frames are there, the head is not.       *)
WaitingAtGap ==
  ~is_empty /\ buflen > 0 /\ Waiting(no_resend)

(* "Return nothing and hope resend gets on time" (raop_buffer.c:406): when *)
(* raop_buffer_dequeue holds the sound back for the packet at the head,    *)
(* a request for that packet has been made.                                *)
GapIsAsked ==
  [][pc = "resend" /\ pc' = "events" /\ WaitingAtGap' => first_seqnum' \in asked']_vars
=============================================================================
