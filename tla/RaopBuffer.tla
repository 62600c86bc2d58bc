----------------------------- MODULE RaopBuffer -----------------------------
(***************************************************************************)
(* The RTP reordering buffer of an AirPlay audio session                   *)
(* (libairplay/airplay/raop_buffer.c).                                     *)
(*                                                                         *)
(* RAOP_BUFFER_LENGTH slots hold decoded frames.  A frame with sequence    *)
(* number s lives in slot s % RAOP_BUFFER_LENGTH; the buffer covers the    *)
(* window of sequence numbers that starts at first_seqnum.  Sequence       *)
(* numbers are 16 bits wide and wrap; they are compared by the sign of     *)
(* their 16-bit difference.                                                *)
(*                                                                         *)
(* The width is a parameter: the sequence space holds 2 * Laps windows, so *)
(* the code is the instance RAOP_BUFFER_LENGTH = 32, Laps = 1024.          *)
(*                                                                         *)
(* Each action is one call of the C interface.  What the call hands to its *)
(* caller (a return value, or the argument of the resend callback) is in   *)
(* the variable out.  What a frame contains is abstracted to its sequence  *)
(* number: decryption and decoding fill the slot and never fail.           *)
(*                                                                         *)
(* A definition named ...Mutant is a bug that the properties must detect:  *)
(* no behaviour uses it.                                                   *)
(***************************************************************************)
EXTENDS Integers

CONSTANTS
  RAOP_BUFFER_LENGTH, (* The number of slots.                              *)
  Laps                (* The windows in one half of the sequence space.    *)

ASSUME BufferAssumption ==
  /\ RAOP_BUFFER_LENGTH \in Nat \ {0}
  /\ Laps \in Nat \ {0, 1}

VARIABLES
  first_seqnum, (* The next sequence number to hand out.                   *)
  last_seqnum,  (* The highest sequence number stored.                     *)
  is_empty,     (* Nothing was stored since init or a flush without number.*)
  entries,      (* The slots.                                              *)
  out           (* What the last call gave to its caller.                  *)

buffer == <<first_seqnum, last_seqnum, is_empty, entries>>
bufferVars == <<buffer, out>>

HalfSeq == Laps * RAOP_BUFFER_LENGTH
SeqMod == 2 * HalfSeq
Seqnum == 0 .. SeqMod - 1
Slots == 0 .. RAOP_BUFFER_LENGTH - 1

(* A flush whose argument is not a sequence number.                        *)
NoSeq == -1

(***************************************************************************)
(* Arithmetic on sequence numbers.                                         *)
(***************************************************************************)
Plus(s, k) == (s + k) % SeqMod

seqnum_cmpMutant(s1, s2) == s1 - s2

seqnum_cmp(s1, s2) ==
  LET d == (s1 - s2) % SeqMod
  IN  IF d < HalfSeq THEN d ELSE d - SeqMod

Slot(s) == s % RAOP_BUFFER_LENGTH

(***************************************************************************)
(* Results: nothing, an error, a decoded frame, a silent frame in the      *)
(* place of a missing one, or a request to send count packets again.       *)
(***************************************************************************)
Result(kind, s, n) == [kind |-> kind, seqnum |-> s, count |-> n]

Nothing == Result("nothing", 0, 0)

EmptiedMutant(e) == [e EXCEPT !.resending = FALSE]

(* A slot gives up its frame and its pending request; its number is stale. *)
Emptied(e) == [available |-> FALSE, resending |-> FALSE, seqnum |-> e.seqnum]

Cleared == [i \in Slots |-> Emptied(entries[i])]

-----------------------------------------------------------------------------
raop_buffer_init ==
  /\ first_seqnum = 0
  /\ last_seqnum = 0
  /\ is_empty = TRUE
  /\ entries = [i \in Slots |->
                  [available |-> FALSE, resending |-> FALSE, seqnum |-> 0]]
  /\ out = Nothing

raop_buffer_flush(next_seq) ==
  /\ entries' = Cleared
  /\ \/ /\ next_seq \notin Seqnum
        /\ is_empty' = TRUE
        /\ UNCHANGED <<first_seqnum, last_seqnum>>
     \/ /\ next_seq \in Seqnum
        /\ first_seqnum' = next_seq
        /\ last_seqnum' = Plus(next_seq, -1)
        /\ UNCHANGED is_empty
  /\ out' = Nothing

TooLateMutant(s) == ~is_empty /\ s < first_seqnum

TooLateNeverMutant(s) == FALSE

(* The packet is older than everything still to be handed out.             *)
TooLate(s) == ~is_empty /\ seqnum_cmp(s, first_seqnum) < 0

OverrunMutant(s) == seqnum_cmp(s, Plus(first_seqnum, RAOP_BUFFER_LENGTH)) > 0

(* The packet lies beyond the window: the buffer is flushed to make room.  *)
Overrun(s) == seqnum_cmp(s, Plus(first_seqnum, RAOP_BUFFER_LENGTH)) >= 0

Duplicate(s) == entries[Slot(s)].available /\ entries[Slot(s)].seqnum = s

Store(s) ==
  LET kept  == IF Overrun(s) THEN Cleared ELSE entries
      first == IF Overrun(s) THEN s ELSE first_seqnum
      last  == IF Overrun(s) THEN Plus(s, -1) ELSE last_seqnum
      last1 == IF is_empty THEN s ELSE last
  IN  /\ entries' = [kept EXCEPT ![Slot(s)] =
                       [available |-> TRUE, resending |-> FALSE, seqnum |-> s]]
      /\ first_seqnum' = IF is_empty THEN s ELSE first
      /\ last_seqnum' = IF seqnum_cmp(s, last1) > 0 THEN s ELSE last1
      /\ is_empty' = FALSE

(* use_seqnum is FALSE on a TCP stream, which is in order by itself.       *)
raop_buffer_queue(validlen, seq, use_seqnum) ==
  LET s == IF use_seqnum THEN seq ELSE first_seqnum
  IN  \/ /\ ~validlen
         /\ out' = Result("invalid", 0, 0)
         /\ UNCHANGED buffer
      \/ /\ validlen
         /\ TooLate(s) \/ (~Overrun(s) /\ Duplicate(s))
         /\ out' = Nothing
         /\ UNCHANGED buffer
      \/ /\ validlen
         /\ ~TooLate(s)
         /\ Overrun(s) \/ ~Duplicate(s)
         /\ Store(s)
         /\ out' = Nothing

buflen == seqnum_cmp(last_seqnum, first_seqnum) + 1

Head == entries[Slot(first_seqnum)]

(* The head is missing and there is still room to wait for it.             *)
Waiting(no_resend) ==
  ~no_resend /\ ~Head.available /\ buflen < RAOP_BUFFER_LENGTH

raop_buffer_dequeue(no_resend) ==
  \/ /\ is_empty \/ buflen <= 0 \/ Waiting(no_resend)
     /\ out' = Nothing
     /\ UNCHANGED buffer
  \/ /\ ~is_empty
     /\ buflen > 0
     /\ ~Waiting(no_resend)
     /\ first_seqnum' = Plus(first_seqnum, 1)
     /\ \/ /\ ~Head.available
           /\ out' = Result("silence", first_seqnum, 0)
           /\ UNCHANGED entries
        \/ /\ Head.available
           /\ out' = Result("frame", Head.seqnum, 0)
           /\ entries' = [entries EXCEPT ![Slot(first_seqnum)] = Emptied(Head)]
     /\ UNCHANGED <<last_seqnum, is_empty>>

AskableMutant(k) == ~entries[Slot(Plus(first_seqnum, k))].available

(* The k-th sequence number of the window is missing and not asked for.    *)
Askable(k) ==
  LET e == entries[Slot(Plus(first_seqnum, k))]
  IN  ~e.available /\ ~e.resending

(* The loop stops at the first entry that is there or already asked for.   *)
GapLength(n) ==
  LET limit == seqnum_cmp(last_seqnum, first_seqnum)
  IN  /\ n <= limit
      /\ \A k \in 0 .. n - 1 : Askable(k)
      /\ n = limit \/ ~Askable(n)

raop_buffer_handle_resends ==
  \/ /\ seqnum_cmp(first_seqnum, last_seqnum) >= 0
     /\ out' = Nothing
     /\ UNCHANGED buffer
  \/ /\ seqnum_cmp(first_seqnum, last_seqnum) < 0
     /\ \E n \in 0 .. RAOP_BUFFER_LENGTH :
          /\ GapLength(n)
          /\ entries' = [i \in Slots |->
                           IF \E k \in 0 .. n - 1 : i = Slot(Plus(first_seqnum, k))
                           THEN [entries[i] EXCEPT !.resending = TRUE]
                           ELSE entries[i]]
          /\ out' = IF n = 0 THEN Nothing ELSE Result("resend", first_seqnum, n)
     /\ UNCHANGED <<first_seqnum, last_seqnum, is_empty>>

BufferNext ==
  \/ \E validlen \in BOOLEAN, s \in Seqnum, use_seqnum \in BOOLEAN :
       raop_buffer_queue(validlen, s, use_seqnum)
  \/ \E no_resend \in BOOLEAN : raop_buffer_dequeue(no_resend)
  \/ raop_buffer_handle_resends
  \/ \E n \in Seqnum \cup {NoSeq} : raop_buffer_flush(n)

BufferSpec == raop_buffer_init /\ [][BufferNext]_bufferVars

-----------------------------------------------------------------------------
(***************************************************************************)
(* Properties.                                                             *)
(***************************************************************************)
Entry == [available : BOOLEAN, resending : BOOLEAN, seqnum : Seqnum]

Results ==
  [kind : {"nothing", "invalid", "frame", "silence", "resend"},
   seqnum : Seqnum,
   count : 0 .. RAOP_BUFFER_LENGTH]

BufferTypeOK ==
  /\ first_seqnum \in Seqnum
  /\ last_seqnum \in Seqnum
  /\ is_empty \in BOOLEAN
  /\ entries \in [Slots -> Entry]
  /\ out \in Results

(* The position of s in the window: 0 for the head.                        *)
Offset(s) == seqnum_cmp(s, first_seqnum)

(* Whatever calls were made, a stored frame sits in the slot of its own    *)
(* number, inside the window and not above last_seqnum, and the window is  *)
(* never longer than the slots: this is what lets raop_buffer_queue write  *)
(* a slot without looking whether an unplayed frame of another lap of the  *)
(* sequence space is in it (raop_buffer.c:321-340).                        *)
WindowInv ==
  /\ is_empty => \A i \in Slots : ~entries[i].available
  /\ ~is_empty => buflen \in 0 .. RAOP_BUFFER_LENGTH
  /\ \A i \in Slots :
       entries[i].available =>
         /\ Slot(entries[i].seqnum) = i
         /\ 0 <= Offset(entries[i].seqnum)
         /\ Offset(entries[i].seqnum) < buflen

(* A stored frame survives a step, or is handed out in it, or the whole    *)
(* window is abandoned for the packet that starts a new one.               *)
FrameKept(i) ==
  \/ entries'[i] = entries[i]
  \/ out' = Result("frame", entries[i].seqnum, 0)
  \/ \A j \in Slots : entries'[j].available => entries'[j].seqnum = first_seqnum'

(* Nothing overwrites a single unplayed frame: raop_buffer_queue reuses a  *)
(* slot without asking whose frame is in it (raop_buffer.c:326-340), and   *)
(* only the window keeps that frame from being an unplayed one.            *)
StoredFrameFate ==
  [][\A i \in Slots : entries[i].available => FrameKept(i)]_bufferVars

(* The n numbers at the head are missing, nobody has asked for them, and   *)
(* after the step they are marked as asked for.                            *)
AsksForGap(n) ==
  /\ n > 0
  /\ n < buflen
  /\ \A k \in 0 .. n - 1 :
       LET i == Slot(Plus(first_seqnum, k))
       IN  ~entries[i].available /\ ~entries[i].resending /\ entries'[i].resending

(* A request for a retransmission names a gap at the head of the window    *)
(* that ends below last_seqnum, and names no packet twice while its mark   *)
(* stands (raop_buffer_handle_resends and its resend_cb).                  *)
ResendsAreGaps ==
  [][out'.kind = "resend" =>
       out'.seqnum = first_seqnum /\ AsksForGap(out'.count)]_bufferVars

(* The buffer, its slots forgotten, is a JitterBuffer.                     *)
Held == {s \in Seqnum : entries[Slot(s)].available /\ entries[Slot(s)].seqnum = s}

Abstract == INSTANCE JitterBuffer WITH
  Window <- RAOP_BUFFER_LENGTH, Modulus <- SeqMod,
  expected <- first_seqnum, held <- Held

(* Frames are handed out in their turn, never twice and never in the place *)
(* of another: every behaviour of the slots is one of the abstract buffer. *)
ImplementsJitterBuffer == Abstract!Spec
=============================================================================
