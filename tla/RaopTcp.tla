------------------------------ MODULE RaopTcp -------------------------------
(***************************************************************************)
(* The other way the sound may come: raop_rtp_start starts one of two      *)
(* threads, and raop_rtp_thread_tcp takes packets out of a TCP stream in   *)
(* which each is preceded by four bytes, '$', 0 and its length.            *)
(*                                                                         *)
(* A byte is the pair of the packet it belongs to and its place in it,     *)
(* the four bytes in front included.  recv returns any part of what was    *)
(* sent, so packets arrive cut anywhere and several at a time.  All of the *)
(* stream may be on its way at once; sent, and the numbers that a FLUSH    *)
(* names, mean nothing to it.                                              *)
(***************************************************************************)
EXTENDS RaopStream

CONSTANTS
  PacketLen,   (* RAOP_PACKET_LEN, the size of packet[].                   *)
  MinPayload,  (* The shortest packet that raop_buffer_queue takes: 12.    *)
  Streams      (* Where the packets begin, in every stream to be sent.     *)

VARIABLES
  use_udp,     (* Which of the two threads raop_rtp_start started.         *)
  begin,       (* Where the packets of this stream begin.                  *)
  stream_fd,   (* The sender's connection was accepted.                    *)
  packet,      (* The local array of the thread.                           *)
  packetlen,   (* How many bytes are in it.                                *)
  recvd,       (* How many bytes of the stream were received.              *)
  queued       (* How many packets were given to the buffer.               *)

tcpVars == <<stream_fd, packet, packetlen, recvd, queued>>
rtpVars == <<vars, use_udp, begin, tcpVars>>

(* A packet that begins at s[n] ends where the next one begins, and is     *)
(* longer than the four bytes in front of it.                              *)
ASSUME TcpAssumption ==
  /\ PacketLen \in Nat /\ PacketLen > 4
  /\ MinPayload \in Nat \ {0}
  /\ \A s \in Streams :
       /\ s \in [0 .. MaxSent -> Nat]
       /\ s[0] = 0
       /\ \A m, n \in 0 .. MaxSent : m < n => s[m] + 4 < s[n]

Packets == 0 .. MaxSent - 1

(* A byte of memory that nothing was received into.                        *)
Junk == <<-1, -1>>

Byte(p) ==
  LET n == CHOOSE n \in Packets : begin[n] <= p /\ p < begin[n + 1]
  IN  <<n, p - begin[n]>>

(* The length that packet[2] and packet[3] give.                           *)
rtplen == LET n == packet[2][1] IN begin[n + 1] - begin[n] - 4

HasMagic == packet[0][2] = 0 /\ packet[1][2] = 1

(* The packet whose payload is in the array, whole and nothing else, or -2.*)
Payload ==
  LET n == packet[4][1]
  IN  IF /\ n \in Packets
         /\ rtplen = begin[n + 1] - begin[n] - 4
         /\ \A k \in 4 .. 3 + rtplen : packet[k] = <<n, k>>
      THEN n ELSE -2

RtpInit ==
  /\ Init
  /\ use_udp \in BOOLEAN
  /\ begin \in Streams
  /\ \/ use_udp /\ begin = CHOOSE s \in Streams : TRUE
     \/ ~use_udp /\ no_resend
  /\ stream_fd = FALSE
  /\ packet = [k \in 0 .. PacketLen - 1 |-> Junk]
  /\ packetlen = 0 /\ recvd = 0 /\ queued = 0

-----------------------------------------------------------------------------
(* The places of the loop: events, select, recv (select found the socket   *)
(* readable), parse, dequeue, ended.                                       *)
TcpGoes(from, to) ==
  /\ pc = from
  /\ pc' = to
  /\ UNCHANGED <<frame, flush, session, network, history>>

(* Nothing for 5 ms, or an error in select.                                *)
TcpSelectNothing ==
  /\ TcpGoes("select", "events") \/ TcpGoes("select", "ended")
  /\ UNCHANGED <<bufferVars, tcpVars>>

(* The listening socket is only looked at until somebody connected.        *)
TcpAccept ==
  /\ ~stream_fd
  /\ \/ TcpGoes("select", "events") /\ stream_fd' = TRUE
     \/ TcpGoes("select", "ended") /\ UNCHANGED stream_fd
  /\ UNCHANGED <<bufferVars, packet, packetlen, recvd, queued>>

TcpReadable ==
  /\ stream_fd
  /\ TcpGoes("select", "recv")
  /\ UNCHANGED <<bufferVars, tcpVars>>

(* The result -1, or 0: the sender closed the connection, or packet[] is   *)
(* full, and nothing was asked for.                                        *)
TcpRecvFails ==
  /\ TcpGoes("recv", "ended")
  /\ UNCHANGED <<bufferVars, tcpVars>>

TcpRecv ==
  /\ TcpGoes("recv", "parse")
  /\ \E n \in 1 .. PacketLen - packetlen :
       /\ recvd + n <= begin[MaxSent]
       /\ packet' = [k \in 0 .. PacketLen - 1 |->
                       IF k \in packetlen .. packetlen + n - 1
                       THEN Byte(recvd + k - packetlen) ELSE packet[k]]
       /\ packetlen' = packetlen + n
       /\ recvd' = recvd + n
  /\ UNCHANGED <<bufferVars, stream_fd, queued>>

TcpParseMore ==
  /\ \/ packetlen < 4
     \/ packetlen >= 4 /\ HasMagic /\ rtplen <= PacketLen /\ packetlen < 4 + rtplen
  /\ TcpGoes("parse", "events")
  /\ UNCHANGED <<bufferVars, tcpVars>>

TcpParseFails ==
  /\ packetlen >= 4
  /\ ~HasMagic \/ (HasMagic /\ rtplen > PacketLen)
  /\ TcpGoes("parse", "ended")
  /\ UNCHANGED <<bufferVars, tcpVars>>

TcpComplete == packetlen >= 4 /\ HasMagic /\ packetlen >= 4 + rtplen

MovedMutant ==
  [k \in 0 .. PacketLen - 1 |->
     IF k < packetlen - 4 - rtplen THEN packet[k + rtplen] ELSE packet[k]]

(* memmove(packet, packet+4+rtplen, packetlen-rtplen): four bytes more     *)
(* than are left, the last of them perhaps from behind the array.          *)
Moved ==
  [k \in 0 .. PacketLen - 1 |->
     CASE k >= packetlen - rtplen -> packet[k]
       [] k < packetlen - rtplen /\ k + 4 + rtplen < PacketLen -> packet[k + 4 + rtplen]
       [] OTHER -> Junk]

(* The packet goes to the buffer without a sequence number of its own.     *)
(* Too short a one is refused, which ends the program where the assertion  *)
(* on the result is compiled in.                                           *)
TcpQueue ==
  /\ pc = "parse"
  /\ TcpComplete
  /\ raop_buffer_queue(rtplen >= MinPayload, 0, FALSE)
  /\ frame' = IF rtplen >= MinPayload
              THEN [frame EXCEPT ![Slot(first_seqnum)] = Payload] ELSE frame
  /\ pc' = "dequeue" \/ (rtplen < MinPayload /\ pc' = "aborted")
  /\ packet' = Moved
  /\ packetlen' = packetlen - 4 - rtplen
  /\ queued' = queued + 1
  /\ UNCHANGED <<flush, session, network, history, stream_fd, recvd>>

(* One frame is taken for each packet.                                     *)
TcpDequeue ==
  /\ pc = "dequeue"
  /\ raop_buffer_dequeue(TRUE)
  /\ pc' = "events"
  /\ played' = IF out'.kind = "frame" THEN frame[Slot(first_seqnum)] ELSE played
  /\ UNCHANGED <<frame, flush, session, network, barrier, asked, tcpVars>>

raop_rtp_thread_tcp ==
  \/ TcpSelectNothing \/ TcpAccept \/ TcpReadable
  \/ TcpRecvFails \/ TcpRecv
  \/ TcpParseMore \/ TcpParseFails \/ TcpQueue \/ TcpDequeue

RtpNext ==
  \/ use_udp /\ Next /\ UNCHANGED <<use_udp, begin, tcpVars>>
  \/ ~use_udp /\ (process_events \/ raop_rtp_flush) /\ UNCHANGED <<use_udp, begin, tcpVars>>
  \/ ~use_udp /\ raop_rtp_thread_tcp /\ UNCHANGED <<use_udp, begin>>
  \/ ~use_udp /\ Aborted /\ UNCHANGED <<use_udp, begin, tcpVars>>

RtpSpec == RtpInit /\ [][RtpNext]_rtpVars

-----------------------------------------------------------------------------
Places ==
  {"events", "select", "drain", "resend", "recv", "parse", "dequeue", "ended", "aborted"}

RtpTypeOK ==
  /\ BufferTypeOK
  /\ frame \in [Slots -> -1 .. MaxSent - 1]
  /\ pc \in Places
  /\ flush \in {NO_FLUSH, NoSeq} \cup 0 .. MaxSent
  /\ no_resend \in BOOLEAN /\ has_addr \in BOOLEAN
  /\ sent \in 0 .. MaxSent
  /\ data \subseteq 0 .. sent - 1 /\ resent \subseteq 0 .. sent - 1
  /\ received \in -1 .. sent - 1
  /\ played \in -1 .. MaxSent - 1
  /\ barrier \in -1 .. MaxSent
  /\ asked \subseteq Seqnum
  /\ use_udp \in BOOLEAN /\ stream_fd \in BOOLEAN
  /\ packet \in [0 .. PacketLen - 1 -> (Packets \X Nat) \cup {Junk}]
  /\ packetlen \in 0 .. PacketLen
  /\ queued \in 0 .. MaxSent

(* What packet[] holds is the stream from the beginning of the packet that *)
(* is next for the buffer up to the last byte received.                    *)
Framed ==
  /\ recvd = begin[queued] + packetlen
  /\ \A k \in 0 .. packetlen - 1 : packet[k] = Byte(begin[queued] + k)

(* Whatever pieces the stream is received in, the loop never loses its     *)
(* place: each call of raop_buffer_queue is given one packet, whole and    *)
(* without the bytes around it, and it is the next one of the stream; so   *)
(* the magic bytes the loop looks for are always there.                    *)
WholePackets ==
  [][/\ queued' # queued => queued' = queued + 1 /\ Payload = queued
     /\ pc = "parse" /\ packetlen >= 4 => HasMagic]_rtpVars
=============================================================================
