--------------------------- MODULE CircularBuffer ---------------------------
(***************************************************************************)
(* The buffer between the RTP thread, which pushes decoded sound, and the  *)
(* audio callback, which pops it: CircularBuffer                           *)
(* (libairplay/include/circular-buf.hpp) on two lock-free CircularFifos    *)
(* (libairplay/include/circular-fifo.hpp), as AudioOutput uses it.         *)
(*                                                                         *)
(* The memory is cut into chunks.  free_queue holds the empty chunks,      *)
(* full_queue the full ones; the RTP thread fills push_chunk, the callback *)
(* empties pop_chunk.  Each FIFO has one thread at each end.  Every load   *)
(* and store of an index that the other thread writes is an action of its  *)
(* own, as is every access to a slot or a chunk.                           *)
(*                                                                         *)
(* Bytes are named by their place in the stream of what Push accepted.     *)
(* MaxPushed bounds that stream, MaxCall the length of one call.           *)
(*                                                                         *)
(* A definition named ...Mutant is a bug that the properties must detect:  *)
(* no behaviour uses it.                                                   *)
(***************************************************************************)
EXTENDS Integers

CONSTANTS ChunksCount, ChunkSize, MaxCall, MaxPushed

ASSUME CircularAssumption ==
  /\ ChunksCount \in Nat \ {0}
  /\ ChunkSize \in Nat \ {0}
  /\ MaxCall \in Nat
  /\ MaxPushed \in Nat

VARIABLES
  full_tail, full_head, full_array, (* full_queue.                         *)
  free_tail, free_head, free_array, (* free_queue.                         *)
  content,         (* Chunk -> position -> the byte there.                 *)
  push_pc,         (* Where the RTP thread is in Push.                     *)
  push_left,       (* Bytes of the call that are still to be pushed.       *)
  push_chunk, push_chunk_size,
  pop_pc,          (* Where the callback is in Pop.                        *)
  pop_left,        (* Bytes of the call that are still to be handed.       *)
  pop_chunk, pop_chunk_size,
  pushed,          (* Bytes that Push copied in so far.                    *)
  handed           (* The bytes that Pop copied out last.                  *)

fullVars == <<full_tail, full_head, full_array>>
freeVars == <<free_tail, free_head, free_array>>
pushVars == <<push_pc, push_left, push_chunk, push_chunk_size, pushed>>
popVars == <<pop_pc, pop_left, pop_chunk, pop_chunk_size, handed>>
vars == <<fullVars, freeVars, content, pushVars, popVars>>

Chunks == 0 .. ChunksCount - 1
Offsets == 0 .. ChunkSize - 1

(* nullptr.                                                                *)
NoChunk == -1

(* A FIFO for ChunksCount elements has one more slot: it is empty when its *)
(* indices are equal, and full when one more would make them equal.        *)
CapacityMutant == ChunksCount

Capacity == ChunksCount + 1
Index == 0 .. Capacity - 1

increment(i) == (i + 1) % Capacity

-----------------------------------------------------------------------------
(* The constructor: the first chunk is ready to be filled, the others are  *)
(* free.                                                                   *)
Init ==
  /\ full_tail = 0 /\ full_head = 0
  /\ full_array = [i \in Index |-> NoChunk]
  /\ free_tail = ChunksCount - 1 /\ free_head = 0
  /\ free_array = [i \in Index |-> IF i < ChunksCount - 1 THEN i + 1 ELSE NoChunk]
  /\ content = [c \in Chunks |-> [o \in Offsets |-> 0]]
  /\ push_pc = "idle" /\ push_left = 0
  /\ push_chunk = 0 /\ push_chunk_size = 0
  /\ pop_pc = "idle" /\ pop_left = 0
  /\ pop_chunk = NoChunk /\ pop_chunk_size = 0
  /\ pushed = 0 /\ handed = <<>>

-----------------------------------------------------------------------------
(***************************************************************************)
(* Push, called by the RTP thread.                                         *)
(***************************************************************************)
Push(size) ==
  /\ push_pc = "idle"
  /\ pushed + size <= MaxPushed
  /\ push_pc' = "loop"
  /\ push_left' = size
  /\ UNCHANGED <<fullVars, freeVars, content, push_chunk, push_chunk_size, pushed, popVars>>

PushDone ==
  /\ push_pc = "loop"
  /\ push_left = 0
  /\ push_pc' = "idle"
  /\ UNCHANGED <<fullVars, freeVars, content, push_left, push_chunk, push_chunk_size, pushed, popVars>>

PushNeedsChunkMutant ==
  /\ push_pc = "loop"
  /\ push_left > 0
  /\ push_chunk = NoChunk
  /\ push_pc' = IF free_head = free_tail THEN "loop" ELSE "take"
  /\ UNCHANGED <<fullVars, freeVars, content, push_left, push_chunk, push_chunk_size, pushed, popVars>>

(* free_queue.pop: there is a chunk, or the rest of the call is dropped.   *)
PushNeedsChunk ==
  /\ push_pc = "loop"
  /\ push_left > 0
  /\ push_chunk = NoChunk
  /\ \/ /\ free_head = free_tail
        /\ push_pc' = "idle"
        /\ push_left' = 0
     \/ /\ free_head # free_tail
        /\ push_pc' = "take"
        /\ UNCHANGED push_left
  /\ UNCHANGED <<fullVars, freeVars, content, push_chunk, push_chunk_size, pushed, popVars>>

PushTakes ==
  /\ push_pc = "take"
  /\ push_chunk' = free_array[free_head]
  /\ push_pc' = "release"
  /\ UNCHANGED <<fullVars, freeVars, content, push_left, push_chunk_size, pushed, popVars>>

PushReleases ==
  /\ push_pc = "release"
  /\ free_head' = increment(free_head)
  /\ push_chunk_size' = 0
  /\ push_pc' = "loop"
  /\ UNCHANGED <<fullVars, free_tail, free_array, content, push_left, push_chunk, pushed, popVars>>

ToPush ==
  IF push_left > ChunkSize - push_chunk_size THEN ChunkSize - push_chunk_size ELSE push_left

PushCopies ==
  /\ push_pc = "loop"
  /\ push_left > 0
  /\ push_chunk # NoChunk
  /\ content' = [content EXCEPT ![push_chunk] =
       [o \in Offsets |->
          IF push_chunk_size <= o /\ o < push_chunk_size + ToPush
          THEN pushed + 1 + o - push_chunk_size
          ELSE content[push_chunk][o]]]
  /\ pushed' = pushed + ToPush
  /\ push_left' = push_left - ToPush
  /\ push_chunk_size' = push_chunk_size + ToPush
  /\ push_pc' = IF push_chunk_size' = ChunkSize THEN "offer" ELSE "loop"
  /\ UNCHANGED <<fullVars, freeVars, push_chunk, popVars>>

(* full_queue.push: assert(success) fails when there is no slot.           *)
PushOffers ==
  /\ push_pc = "offer"
  /\ push_pc' = IF increment(full_tail) = full_head THEN "failed" ELSE "put"
  /\ UNCHANGED <<fullVars, freeVars, content, push_left, push_chunk, push_chunk_size, pushed, popVars>>

PushPuts ==
  /\ push_pc = "put"
  /\ full_array' = [full_array EXCEPT ![full_tail] = push_chunk]
  /\ push_pc' = "publish"
  /\ UNCHANGED <<full_tail, full_head, freeVars, content, push_left, push_chunk, push_chunk_size, pushed, popVars>>

PushPublishesMutant ==
  /\ push_pc = "publish"
  /\ full_tail' = increment(full_tail)
  /\ push_pc' = "loop"
  /\ UNCHANGED <<full_head, full_array, freeVars, content, push_left, push_chunk, push_chunk_size, pushed, popVars>>

PushPublishes ==
  /\ push_pc = "publish"
  /\ full_tail' = increment(full_tail)
  /\ push_chunk' = NoChunk
  /\ push_pc' = "loop"
  /\ UNCHANGED <<full_head, full_array, freeVars, content, push_left, push_chunk_size, pushed, popVars>>

-----------------------------------------------------------------------------
(***************************************************************************)
(* Pop, called by the audio callback.                                      *)
(***************************************************************************)
Pop(size) ==
  /\ pop_pc = "idle"
  /\ pop_pc' = "loop"
  /\ pop_left' = size
  /\ UNCHANGED <<fullVars, freeVars, content, pop_chunk, pop_chunk_size, handed, pushVars>>

PopDone ==
  /\ pop_pc = "loop"
  /\ pop_left = 0
  /\ pop_pc' = "idle"
  /\ UNCHANGED <<fullVars, freeVars, content, pop_left, pop_chunk, pop_chunk_size, handed, pushVars>>

PopNeedsChunkMutant ==
  /\ pop_pc = "loop"
  /\ pop_left > 0
  /\ pop_chunk = NoChunk
  /\ pop_pc' = IF full_head = full_tail THEN "loop" ELSE "take"
  /\ UNCHANGED <<fullVars, freeVars, content, pop_left, pop_chunk, pop_chunk_size, handed, pushVars>>

(* full_queue.pop: there is a chunk, or the callback plays silence.        *)
PopNeedsChunk ==
  /\ pop_pc = "loop"
  /\ pop_left > 0
  /\ pop_chunk = NoChunk
  /\ \/ /\ full_head = full_tail
        /\ pop_pc' = "idle"
        /\ pop_left' = 0
     \/ /\ full_head # full_tail
        /\ pop_pc' = "take"
        /\ UNCHANGED pop_left
  /\ UNCHANGED <<fullVars, freeVars, content, pop_chunk, pop_chunk_size, handed, pushVars>>

PopTakes ==
  /\ pop_pc = "take"
  /\ pop_chunk' = full_array[full_head]
  /\ pop_pc' = "release"
  /\ UNCHANGED <<fullVars, freeVars, content, pop_left, pop_chunk_size, handed, pushVars>>

PopReleases ==
  /\ pop_pc = "release"
  /\ full_head' = increment(full_head)
  /\ pop_chunk_size' = ChunkSize
  /\ pop_pc' = "loop"
  /\ UNCHANGED <<full_tail, full_array, freeVars, content, pop_left, pop_chunk, handed, pushVars>>

PopFromMutant == 0

(* Where the bytes still to be popped start.                               *)
PopFrom == ChunkSize - pop_chunk_size

ToPop == IF pop_left > pop_chunk_size THEN pop_chunk_size ELSE pop_left

PopCopies ==
  /\ pop_pc = "loop"
  /\ pop_left > 0
  /\ pop_chunk # NoChunk
  /\ handed' = [k \in 1 .. ToPop |-> content[pop_chunk][PopFrom + k - 1]]
  /\ pop_left' = pop_left - ToPop
  /\ pop_chunk_size' = pop_chunk_size - ToPop
  /\ pop_pc' = IF pop_chunk_size' = 0 THEN "offer" ELSE "loop"
  /\ UNCHANGED <<fullVars, freeVars, content, pop_chunk, pushVars>>

(* free_queue.push: assert(success) fails when there is no slot.           *)
PopOffers ==
  /\ pop_pc = "offer"
  /\ pop_pc' = IF increment(free_tail) = free_head THEN "failed" ELSE "put"
  /\ UNCHANGED <<fullVars, freeVars, content, pop_left, pop_chunk, pop_chunk_size, handed, pushVars>>

PopPuts ==
  /\ pop_pc = "put"
  /\ free_array' = [free_array EXCEPT ![free_tail] = pop_chunk]
  /\ pop_pc' = "publish"
  /\ UNCHANGED <<fullVars, free_tail, free_head, content, pop_left, pop_chunk, pop_chunk_size, handed, pushVars>>

PopPublishesMutant ==
  /\ pop_pc = "publish"
  /\ pop_chunk' = NoChunk
  /\ pop_pc' = "loop"
  /\ UNCHANGED <<fullVars, freeVars, content, pop_left, pop_chunk_size, handed, pushVars>>

PopPublishes ==
  /\ pop_pc = "publish"
  /\ free_tail' = increment(free_tail)
  /\ pop_chunk' = NoChunk
  /\ pop_pc' = "loop"
  /\ UNCHANGED <<fullVars, free_head, free_array, content, pop_left, pop_chunk_size, handed, pushVars>>

-----------------------------------------------------------------------------
PushStep ==
  \/ PushDone \/ PushNeedsChunk \/ PushTakes \/ PushReleases
  \/ PushCopies \/ PushOffers \/ PushPuts \/ PushPublishes

PopStep ==
  \/ PopDone \/ PopNeedsChunk \/ PopTakes \/ PopReleases
  \/ PopCopies \/ PopOffers \/ PopPuts \/ PopPublishes

Next ==
  \/ \E size \in 1 .. MaxCall : Push(size) \/ Pop(size)
  \/ PushStep \/ PopStep

Spec == Init /\ [][Next]_vars

(* A thread that is not stopped keeps running inside a call; neither is    *)
(* obliged to call, and one of them may stop anywhere.                     *)
PushFairness == WF_vars(PushStep)
PopFairness == WF_vars(PopStep)
FairSpec == Spec /\ (PushFairness \/ PopFairness)

-----------------------------------------------------------------------------
(***************************************************************************)
(* Properties.                                                             *)
(***************************************************************************)
Places == {"idle", "loop", "take", "release", "offer", "put", "publish", "failed"}

TypeOK ==
  /\ full_tail \in Index /\ full_head \in Index
  /\ free_tail \in Index /\ free_head \in Index
  /\ full_array \in [Index -> Chunks \cup {NoChunk}]
  /\ free_array \in [Index -> Chunks \cup {NoChunk}]
  /\ content \in [Chunks -> [Offsets -> Nat]]
  /\ push_pc \in Places /\ pop_pc \in Places
  /\ push_left \in 0 .. MaxCall /\ pop_left \in 0 .. MaxCall
  /\ push_chunk \in Chunks \cup {NoChunk} /\ pop_chunk \in Chunks \cup {NoChunk}
  /\ push_chunk_size \in 0 .. ChunkSize /\ pop_chunk_size \in 0 .. ChunkSize
  /\ pushed \in 0 .. MaxPushed

(* The number of elements between two indices, and their slots.            *)
Length(head, tail) == (tail - head) % Capacity
Held(head, tail) == {i \in Index : Length(head, i) < Length(head, tail)}

(* The slots whose chunks belong to a queue: a thread that has read a slot *)
(* and not yet released it owns the chunk already.                         *)
FreeHead == IF push_pc = "release" THEN increment(free_head) ELSE free_head
FullHead == IF pop_pc = "release" THEN increment(full_head) ELSE full_head
FreeSlots == Held(FreeHead, free_tail)
FullSlots == Held(FullHead, full_tail)

InFree(c) == \E i \in FreeSlots : free_array[i] = c
InFull(c) == \E i \in FullSlots : full_array[i] = c

(* No chunk is in two places: the RTP thread never writes a chunk that the *)
(* callback reads, or that is waiting in a queue, whatever the             *)
(* interleaving of the two threads' loads and stores.                      *)
ChunksApart ==
  /\ \A i \in FreeSlots : free_array[i] \in Chunks
  /\ \A i \in FullSlots : full_array[i] \in Chunks
  /\ \A i, j \in FreeSlots : free_array[i] = free_array[j] => i = j
  /\ \A i, j \in FullSlots : full_array[i] = full_array[j] => i = j
  /\ \A c \in Chunks :
       /\ ~(InFree(c) /\ InFull(c))
       /\ c = push_chunk => ~InFree(c) /\ ~InFull(c) /\ c # pop_chunk
       /\ c = pop_chunk => ~InFree(c) /\ ~InFull(c)

(* ... and none is lost, however often a call finds no chunk and gives up. *)
NoChunkLost ==
  \A c \in Chunks : InFree(c) \/ InFull(c) \/ c = push_chunk \/ c = pop_chunk

(* "We should have made the queues big enough" (circular-buf.hpp:93, 128): *)
(* the asserted pushes of a chunk into a queue never find it full.         *)
QueuesBigEnough == push_pc # "failed" /\ pop_pc # "failed"

(* The bytes on their way: the rest of pop_chunk, the full chunks in their *)
(* order, and what push_chunk has so far.                                  *)
PopPart == IF pop_chunk = NoChunk \/ pop_pc = "release" THEN 0 ELSE pop_chunk_size
PushPart == IF push_chunk = NoChunk \/ push_pc = "release" THEN 0 ELSE push_chunk_size

FullLength == Length(full_head, full_tail)

ByteAt(k) ==
  LET n == k - PopPart
      c == n \div ChunkSize
  IN  CASE k < PopPart -> content[pop_chunk][PopFrom + k]
        [] k >= PopPart /\ c < FullLength ->
             content[full_array[(full_head + c) % Capacity]][n % ChunkSize]
        [] OTHER -> content[push_chunk][n % ChunkSize]

Queue ==
  [k \in 1 .. PopPart + FullLength * ChunkSize + PushPart |-> ByteAt(k - 1)]

Abstract == INSTANCE ByteFifo WITH
  Capacity <- ChunksCount * ChunkSize, queue <- Queue, accepted <- pushed

(* The sound arrives as it was pushed: what the callback copies out is     *)
(* what the RTP thread copied in, in order, each byte once.                *)
ImplementsByteFifo == Abstract!Spec

(* Neither thread waits for the other: a call of Push returns although the *)
(* callback has stopped, and a call of Pop although the RTP thread has.    *)
PushReturns == PushFairness => (push_pc # "idle" ~> push_pc = "idle")
PopReturns == PopFairness => (pop_pc # "idle" ~> pop_pc = "idle")
=============================================================================
