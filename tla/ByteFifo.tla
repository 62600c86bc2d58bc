------------------------------ MODULE ByteFifo ------------------------------
(***************************************************************************)
(* What a byte queue between one writer and one reader promises: the       *)
(* reader gets what the writer put in, in that order, each byte once.      *)
(*                                                                         *)
(* A byte is named by its place in the stream: the writer puts in 1, 2, 3, *)
(* and so on.  CircularBuffer (the sound on its way to the device) and     *)
(* RingBuffer (the mirrored video on its way to the decoder) implement     *)
(* this specification.                                                     *)
(***************************************************************************)
EXTENDS Integers, Sequences

CONSTANT Capacity (* How many bytes the queue can hold.                     *)

VARIABLES
  queue,    (* The bytes in the queue.                                     *)
  accepted, (* The number of bytes put in so far.                          *)
  handed    (* The bytes the reader took last.                             *)

Init ==
  /\ queue = <<>>
  /\ accepted = 0
  /\ handed = <<>>

(* The writer puts in the next n bytes.                                    *)
Accept(n) ==
  /\ Len(queue) + n <= Capacity
  /\ queue' = queue \o [i \in 1 .. n |-> accepted + i]
  /\ accepted' = accepted + n
  /\ UNCHANGED handed

(* The reader takes the n oldest bytes.                                    *)
Hand(n) ==
  /\ n <= Len(queue)
  /\ queue' = SubSeq(queue, n + 1, Len(queue))
  /\ handed' = SubSeq(queue, 1, n)
  /\ UNCHANGED accepted

Next == \E n \in 1 .. Capacity : Accept(n) \/ Hand(n)

Spec == Init /\ [][Next]_<<queue, accepted, handed>>
=============================================================================
