----------------------------- MODULE RingBuffer -----------------------------
(***************************************************************************)
(* The ring between the thread that receives the mirrored video and the    *)
(* player's thread that reads it (jniinterface/ring_buffer.c), lock free   *)
(* for one thread that puts and one that gets.                             *)
(*                                                                         *)
(* A call first looks at both pointers, then copies up to the end of buf   *)
(* and publishes that, then does the same with what wraps around to the    *)
(* start.  These are actions of their own.  A call that finds no space, or *)
(* no bytes, returns 0 and changes nothing.                                *)
(*                                                                         *)
(* Bytes are named by their place in the stream of what was put.  MaxPut   *)
(* bounds that stream, MaxCall the length of one call.  The size is a      *)
(* power of two in the code, so that & size_mask is % Size; nothing here   *)
(* needs it otherwise.                                                     *)
(*                                                                         *)
(* A definition named ...Mutant is a bug that the properties must detect:  *)
(* no behaviour uses it.                                                   *)
(***************************************************************************)
EXTENDS Integers

CONSTANTS Size, MaxCall, MaxPut

ASSUME RingAssumption ==
  /\ Size \in Nat \ {0, 1}
  /\ MaxCall \in Nat
  /\ MaxPut \in Nat

VARIABLES
  write_ptr, read_ptr,
  buf,
  put_pc,          (* Where the writer is: "idle", "copy" or "publish".    *)
  put_n1, put_n2,  (* The part it is at, and the part after that.          *)
  get_pc,          (* Where the reader is.                                 *)
  get_n1, get_n2,
  accepted,        (* Bytes published so far.                              *)
  handed           (* The bytes copied out last.                           *)

putVars == <<write_ptr, buf, put_pc, put_n1, put_n2, accepted>>
getVars == <<read_ptr, get_pc, get_n1, get_n2, handed>>
vars == <<putVars, getVars>>

Positions == 0 .. Size - 1

Masked(i) == i % Size

ReadSpace == (write_ptr - read_ptr) % Size

WriteSpaceMutant == Size - ReadSpace

WriteSpace == (read_ptr - write_ptr - 1) % Size

(* How n bytes from p on are cut at the end of buf.                        *)
FirstPart(p, n) == IF p + n > Size THEN Size - p ELSE n
SecondPart(p, n) == IF p + n > Size THEN Masked(p + n) ELSE 0

(* ringbuffer_create.                                                      *)
Init ==
  /\ write_ptr = 0 /\ read_ptr = 0
  /\ buf = [i \in Positions |-> 0]
  /\ put_pc = "idle" /\ put_n1 = 0 /\ put_n2 = 0
  /\ get_pc = "idle" /\ get_n1 = 0 /\ get_n2 = 0
  /\ accepted = 0 /\ handed = <<>>

-----------------------------------------------------------------------------
(***************************************************************************)
(* ringbuffer_put.                                                         *)
(***************************************************************************)
ToWrite(cnt) == IF cnt > WriteSpace THEN WriteSpace ELSE cnt

PutBegins(cnt) ==
  /\ put_pc = "idle"
  /\ accepted + cnt <= MaxPut
  /\ WriteSpace # 0
  /\ put_n1' = FirstPart(write_ptr, ToWrite(cnt))
  /\ put_n2' = SecondPart(write_ptr, ToWrite(cnt))
  /\ put_pc' = "copy"
  /\ UNCHANGED <<write_ptr, buf, accepted, getVars>>

PutCopies ==
  /\ put_pc = "copy"
  /\ buf' = [i \in Positions |->
               IF write_ptr <= i /\ i < write_ptr + put_n1
               THEN accepted + 1 + i - write_ptr ELSE buf[i]]
  /\ put_pc' = "publish"
  /\ UNCHANGED <<write_ptr, put_n1, put_n2, accepted, getVars>>

PutPublishes ==
  /\ put_pc = "publish"
  /\ write_ptr' = Masked(write_ptr + put_n1)
  /\ accepted' = accepted + put_n1
  /\ put_n1' = put_n2
  /\ put_n2' = 0
  /\ put_pc' = IF put_n2 # 0 THEN "copy" ELSE "idle"
  /\ UNCHANGED <<buf, getVars>>

-----------------------------------------------------------------------------
(***************************************************************************)
(* ringbuffer_get.                                                         *)
(***************************************************************************)
ToRead(cnt) == IF cnt > ReadSpace THEN ReadSpace ELSE cnt

GetBegins(cnt) ==
  /\ get_pc = "idle"
  /\ ReadSpace # 0
  /\ get_n1' = FirstPart(read_ptr, ToRead(cnt))
  /\ get_n2' = SecondPart(read_ptr, ToRead(cnt))
  /\ get_pc' = "copy"
  /\ UNCHANGED <<read_ptr, handed, putVars>>

GetCopies ==
  /\ get_pc = "copy"
  /\ handed' = [k \in 1 .. get_n1 |-> buf[read_ptr + k - 1]]
  /\ get_pc' = "publish"
  /\ UNCHANGED <<read_ptr, get_n1, get_n2, putVars>>

GetPublishesMutant ==
  /\ get_pc = "publish"
  /\ read_ptr' = Masked(read_ptr + get_n1)
  /\ get_n1' = get_n2
  /\ get_n2' = 0
  /\ get_pc' = IF get_n2 = 0 THEN "copy" ELSE "idle"
  /\ UNCHANGED <<handed, putVars>>

GetPublishes ==
  /\ get_pc = "publish"
  /\ read_ptr' = Masked(read_ptr + get_n1)
  /\ get_n1' = get_n2
  /\ get_n2' = 0
  /\ get_pc' = IF get_n2 # 0 THEN "copy" ELSE "idle"
  /\ UNCHANGED <<handed, putVars>>

Next ==
  \/ \E cnt \in 1 .. MaxCall : PutBegins(cnt) \/ GetBegins(cnt)
  \/ PutCopies \/ PutPublishes
  \/ GetCopies \/ GetPublishes

Spec == Init /\ [][Next]_vars

-----------------------------------------------------------------------------
(***************************************************************************)
(* Properties.                                                             *)
(***************************************************************************)
Places == {"idle", "copy", "publish"}

TypeOK ==
  /\ write_ptr \in Positions /\ read_ptr \in Positions
  /\ buf \in [Positions -> Nat]
  /\ put_pc \in Places /\ get_pc \in Places
  /\ put_n1 \in Positions /\ put_n2 \in Positions
  /\ get_n1 \in Positions /\ get_n2 \in Positions
  /\ accepted \in Nat

(* The places of buf that a memcpy in progress writes or reads, and those  *)
(* that hold bytes published and not yet given back.                       *)
Writing == IF put_pc = "copy" THEN write_ptr .. write_ptr + put_n1 - 1 ELSE {}
Reading == IF get_pc = "copy" THEN read_ptr .. read_ptr + get_n1 - 1 ELSE {}
Unread == {i \in Positions : (i - read_ptr) % Size < ReadSpace}

(* "Safe for the case of one read thread and one write thread"             *)
(* (ring_buffer.c:20): the writer's memcpy stays inside buf and never      *)
(* touches a byte that is still to be read, the reader's touches only      *)
(* such bytes, whatever the other thread does in the meantime.             *)
RegionsApart ==
  /\ Writing \subseteq Positions \ Unread
  /\ Reading \subseteq Unread

(* The bytes on their way: those the reader has copied out are no more.    *)
Taken == IF get_pc = "publish" THEN get_n1 ELSE 0

Queue ==
  [k \in 1 .. ReadSpace - Taken |-> buf[Masked(read_ptr + Taken + k - 1)]]

Abstract == INSTANCE ByteFifo WITH Capacity <- Size - 1, queue <- Queue

(* The video arrives as it was put in, in order, each byte once, though a  *)
(* call may be cut in two at the end of buf.                               *)
ImplementsByteFifo == Abstract!Spec
=============================================================================
