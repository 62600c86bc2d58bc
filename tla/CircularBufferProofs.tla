------------------------ MODULE CircularBufferProofs ------------------------
(***************************************************************************)
(* Proofs about CircularBuffer, for every number and size of chunks and    *)
(* every length of a call: no chunk is shared or lost, and the whole       *)
(* implements ByteFifo.                                                    *)
(***************************************************************************)
EXTENDS CircularBuffer, Sequences, FiniteSetTheorems, SequenceTheorems, TLAPS

-----------------------------------------------------------------------------
(***************************************************************************)
(* The indices of a FIFO, in linear form.                                  *)
(***************************************************************************)
LEMMA CapacityFacts ==
  /\ ChunksCount \in Nat \ {0}
  /\ Capacity \in Nat
  /\ Capacity = ChunksCount + 1
  /\ Capacity >= 2
BY CircularAssumption DEF Capacity

(* A remainder needs at most one lap of correction either way.             *)
LEMMA ModOneLap ==
  ASSUME NEW m \in Nat \ {0}, NEW x \in -m .. 2 * m - 1
  PROVE  x % m = IF x < 0 THEN x + m ELSE IF x >= m THEN x - m ELSE x
<1>1. CASE x < 0
  BY <1>1, SMT
<1>2. CASE x >= 0 /\ x < m
  BY <1>2, SMT
<1>3. CASE x >= m
  BY <1>3, SMT
<1>. QED
  BY <1>1, <1>2, <1>3

LEMMA IncrementLinear ==
  ASSUME NEW i \in Index
  PROVE  /\ increment(i) \in Index
         /\ increment(i) = IF i + 1 = Capacity THEN 0 ELSE i + 1
<1> DEFINE x == i + 1
<1>1. Capacity \in Nat \ {0} /\ x \in -Capacity .. 2 * Capacity - 1
  BY CapacityFacts DEF Index
<1>2. x % Capacity = IF x < 0 THEN x + Capacity ELSE IF x >= Capacity THEN x - Capacity ELSE x
  <2>. HIDE DEF x
  <2>. QED
    BY <1>1, ModOneLap
<1>. QED
  BY <1>1, <1>2, CapacityFacts DEF Index, increment

LEMMA LengthLinear ==
  ASSUME NEW h \in Index, NEW t \in Index
  PROVE  Length(h, t) = IF t >= h THEN t - h ELSE t - h + Capacity
<1> DEFINE x == t - h
<1>1. Capacity \in Nat \ {0} /\ x \in -Capacity .. 2 * Capacity - 1
  BY CapacityFacts DEF Index
<1>2. x % Capacity = IF x < 0 THEN x + Capacity ELSE IF x >= Capacity THEN x - Capacity ELSE x
  <2>. HIDE DEF x
  <2>. QED
    BY <1>1, ModOneLap
<1>. QED
  BY <1>1, <1>2, CapacityFacts DEF Index, Length

LEMMA IncrementInjective ==
  ASSUME NEW i \in Index, NEW j \in Index, increment(i) = increment(j)
  PROVE  i = j
BY IncrementLinear, CapacityFacts DEF Index

LEMMA HeldType ==
  ASSUME NEW h, NEW t
  PROVE  Held(h, t) \subseteq Index
BY DEF Held

(* An empty FIFO holds no slot; the slot at the tail is never held.        *)
LEMMA HeldEmpty ==
  ASSUME NEW h \in Index
  PROVE  Held(h, h) = {}
BY LengthLinear, CapacityFacts DEF Held, Index

LEMMA TailNotHeld ==
  ASSUME NEW h \in Index, NEW t \in Index
  PROVE  t \notin Held(h, t)
BY LengthLinear, CapacityFacts DEF Held, Index

(* Moving the head over an element drops exactly its slot.                 *)
LEMMA HeldShrink ==
  ASSUME NEW h \in Index, NEW t \in Index, h # t
  PROVE  /\ h \in Held(h, t)
         /\ Held(increment(h), t) = Held(h, t) \ {h}
<1>1. increment(h) \in Index /\ increment(h) = IF h + 1 = Capacity THEN 0 ELSE h + 1
  BY IncrementLinear
<1>2. h \in Held(h, t)
  BY LengthLinear, CapacityFacts DEF Held, Index
<1>3. ASSUME NEW i \in Index
      PROVE  i \in Held(increment(h), t) <=> i \in Held(h, t) /\ i # h
  <2>1. Length(increment(h), i) = IF i >= increment(h) THEN i - increment(h) ELSE i - increment(h) + Capacity
    BY <1>1, LengthLinear
  <2>2. Length(increment(h), t) = IF t >= increment(h) THEN t - increment(h) ELSE t - increment(h) + Capacity
    BY <1>1, LengthLinear
  <2>3. /\ Length(h, i) = IF i >= h THEN i - h ELSE i - h + Capacity
        /\ Length(h, t) = IF t >= h THEN t - h ELSE t - h + Capacity
    BY LengthLinear
  <2>. QED
    BY <1>1, <2>1, <2>2, <2>3, CapacityFacts DEF Held, Index
<1>. QED
  BY <1>2, <1>3, HeldType

(* Moving the tail adds exactly the slot it leaves, unless the FIFO is     *)
(* full.                                                                   *)
LEMMA HeldGrow ==
  ASSUME NEW h \in Index, NEW t \in Index, increment(t) # h
  PROVE  Held(h, increment(t)) = Held(h, t) \cup {t}
<1>1. increment(t) \in Index /\ increment(t) = IF t + 1 = Capacity THEN 0 ELSE t + 1
  BY IncrementLinear
<1>2. ASSUME NEW i \in Index
      PROVE  i \in Held(h, increment(t)) <=> i \in Held(h, t) \/ i = t
  <2>1. Length(h, increment(t)) = IF increment(t) >= h THEN increment(t) - h ELSE increment(t) - h + Capacity
    BY <1>1, LengthLinear
  <2>2. /\ Length(h, i) = IF i >= h THEN i - h ELSE i - h + Capacity
        /\ Length(h, t) = IF t >= h THEN t - h ELSE t - h + Capacity
    BY LengthLinear
  <2>. QED
    BY <1>1, <2>1, <2>2, CapacityFacts DEF Held, Index
<1>. QED
  BY <1>2, HeldType

(* A full FIFO holds every slot but the one at its tail.                   *)
LEMMA HeldFull ==
  ASSUME NEW h \in Index, NEW t \in Index, increment(t) = h
  PROVE  Held(h, t) = Index \ {t}
<1>1. h = IF t + 1 = Capacity THEN 0 ELSE t + 1
  BY IncrementLinear
<1>2. ASSUME NEW i \in Index
      PROVE  i \in Held(h, t) <=> i # t
  BY <1>1, LengthLinear, CapacityFacts DEF Held, Index
<1>. QED
  BY <1>2, HeldType

-----------------------------------------------------------------------------
(***************************************************************************)
(* Who owns the chunks: one FIFO holds the slots E of the array ea, the    *)
(* other the slots F of fa, and the threads hold p and q.  The facts below *)
(* serve both directions, the one of the full chunks and the one of the    *)
(* free chunks.                                                            *)
(***************************************************************************)
Owned(E, ea, F, fa, p, q) ==
  /\ \A i \in E : ea[i] \in Chunks
  /\ \A i \in F : fa[i] \in Chunks
  /\ \A i, j \in E : ea[i] = ea[j] => i = j
  /\ \A i, j \in F : fa[i] = fa[j] => i = j
  /\ \A i \in E : \A j \in F : ea[i] # fa[j]
  /\ \A i \in E : ea[i] # p /\ ea[i] # q
  /\ \A i \in F : fa[i] # p /\ fa[i] # q
  /\ p \in Chunks => p # q
  /\ \A c \in Chunks :
       (\E i \in E : ea[i] = c) \/ (\E i \in F : fa[i] = c) \/ c = p \/ c = q

LEMMA NoChunkIsNone == NoChunk \notin Chunks
BY DEF NoChunk, Chunks

(* The directions are alike.                                               *)
LEMMA OwnedSymmetric ==
  ASSUME NEW E, NEW ea, NEW F, NEW fa, NEW p, NEW q,
         p \in Chunks \cup {NoChunk}, q \in Chunks \cup {NoChunk},
         Owned(E, ea, F, fa, p, q)
  PROVE  Owned(F, fa, E, ea, q, p)
BY NoChunkIsNone, Zenon DEF Owned

(* A thread without a chunk takes the one in slot h.                       *)
LEMMA OwnedTake ==
  ASSUME NEW E, NEW ea, NEW F, NEW fa, NEW q, NEW h \in E,
         Owned(E, ea, F, fa, NoChunk, q)
  PROVE  Owned(E \ {h}, ea, F, fa, ea[h], q)
BY NoChunkIsNone DEF Owned

(* Writing a slot that is not held changes no owner.                       *)
LEMMA OwnedPut ==
  ASSUME NEW E, NEW ea, NEW F, NEW fa, NEW p, NEW q, NEW t, NEW I,
         fa \in [I -> Chunks \cup {NoChunk}], F \subseteq I, t \notin F,
         Owned(E, ea, F, fa, p, q)
  PROVE  Owned(E, ea, F, [fa EXCEPT ![t] = p], p, q)
<1> DEFINE fb == [fa EXCEPT ![t] = p]
<1>1. \A i \in F : fb[i] = fa[i]
  OBVIOUS
<1>. HIDE DEF fb
<1>. QED
  BY <1>1 DEF Owned

(* Holding the slot t gives its chunk, which was the thread's, to the FIFO.*)
LEMMA OwnedPublish ==
  ASSUME NEW E, NEW ea, NEW F, NEW fa, NEW p \in Chunks, NEW q, NEW t,
         t \notin F, fa[t] = p,
         Owned(E, ea, F, fa, p, q)
  PROVE  Owned(E, ea, F \cup {t}, fa, NoChunk, q)
BY NoChunkIsNone DEF Owned

(* A FIFO in which every slot but t is held has a place for the chunk of   *)
(* the thread that is to put one in: more chunks than slots would have to  *)
(* exist otherwise.                                                        *)
LEMMA NeverFull ==
  ASSUME NEW arr, NEW t \in Index, NEW p \in Chunks,
         \A i \in Index \ {t} : arr[i] \in Chunks /\ arr[i] # p,
         \A i, j \in Index \ {t} : arr[i] = arr[j] => i = j
  PROVE  FALSE
<1> DEFINE S == Index \ {t}
           T == Chunks \ {p}
           f == [i \in S |-> arr[i]]
<1>1. IsFiniteSet(Index) /\ Cardinality(Index) = Capacity
  BY CapacityFacts, FS_Interval DEF Index
<1>2. IsFiniteSet(Chunks) /\ Cardinality(Chunks) = ChunksCount
  BY CapacityFacts, FS_Interval DEF Chunks
<1>3. IsFiniteSet(S) /\ Cardinality(S) = Capacity - 1
  BY <1>1, FS_RemoveElement
<1>4. IsFiniteSet(T) /\ Cardinality(T) = ChunksCount - 1
  BY <1>2, FS_RemoveElement
<1>5. f \in [S -> T]
  OBVIOUS
<1>6. Cardinality(T) < Cardinality(S)
  BY <1>3, <1>4, CapacityFacts
<1>7. \E x, y \in S : x # y /\ f[x] = f[y]
  <2>. HIDE DEF S, T, f
  <2>. QED
    BY <1>3, <1>4, <1>5, <1>6, FS_PigeonHole
<1>. QED
  BY <1>7

-----------------------------------------------------------------------------
(***************************************************************************)
(* The inductive invariant: the properties, and what each thread may rely  *)
(* on at its place.  A FIFO that a thread found not empty stays so, and    *)
(* one found not full too, because the other thread only helps.            *)
(***************************************************************************)
PushKnows ==
  /\ push_pc \in {"take", "release"} => free_head # free_tail
  /\ push_pc = "take" => push_chunk = NoChunk
  /\ push_pc = "release" => push_chunk = free_array[free_head]
  /\ push_pc \in {"release", "offer", "put", "publish"} => push_chunk # NoChunk
  /\ push_pc \in {"put", "publish"} => increment(full_tail) # full_head
  /\ push_pc = "publish" => full_array[full_tail] = push_chunk

PopKnows ==
  /\ pop_pc \in {"take", "release"} => full_head # full_tail
  /\ pop_pc = "take" => pop_chunk = NoChunk
  /\ pop_pc = "release" => pop_chunk = full_array[full_head]
  /\ pop_pc \in {"release", "offer", "put", "publish"} => pop_chunk # NoChunk
  /\ pop_pc \in {"put", "publish"} => increment(free_tail) # free_head
  /\ pop_pc = "publish" => free_array[free_tail] = pop_chunk

ChunksOwned ==
  Owned(FreeSlots, free_array, FullSlots, full_array, push_chunk, pop_chunk)

Bounded == pushed + push_left <= MaxPushed

IInv ==
  /\ TypeOK
  /\ PushKnows
  /\ PopKnows
  /\ ChunksOwned
  /\ Bounded
  /\ QueuesBigEnough

LEMMA OwnedApart ==
  ASSUME TypeOK
  PROVE  ChunksOwned <=> ChunksApart /\ NoChunkLost
<1>1. push_chunk \in Chunks \cup {NoChunk} /\ pop_chunk \in Chunks \cup {NoChunk}
  BY DEF TypeOK
<1>2. ASSUME ChunksOwned
      PROVE  ChunksApart /\ NoChunkLost
  BY <1>2 DEF ChunksOwned, Owned, ChunksApart, NoChunkLost, InFree, InFull
<1>3. ASSUME ChunksApart, NoChunkLost
      PROVE  ChunksOwned
  <2>1. \A i \in FreeSlots : \A j \in FullSlots : free_array[i] # full_array[j]
    BY <1>3 DEF ChunksApart, InFree, InFull
  <2>2. \A i \in FreeSlots : free_array[i] # push_chunk /\ free_array[i] # pop_chunk
    BY <1>3 DEF ChunksApart, InFree, InFull
  <2>3. \A i \in FullSlots : full_array[i] # push_chunk /\ full_array[i] # pop_chunk
    BY <1>3 DEF ChunksApart, InFree, InFull
  <2>4. push_chunk \in Chunks => push_chunk # pop_chunk
    BY <1>3 DEF ChunksApart
  <2>. QED
    BY <1>3, <2>1, <2>2, <2>3, <2>4 DEF ChunksOwned, Owned, ChunksApart, NoChunkLost, InFree, InFull
<1>. QED
  BY <1>2, <1>3

(* The heads the owners are counted from are indices.                      *)
LEMMA HeadTypes ==
  ASSUME TypeOK
  PROVE  /\ FreeHead \in Index /\ FullHead \in Index
         /\ FreeSlots \subseteq Index /\ FullSlots \subseteq Index
BY IncrementLinear, HeldType DEF TypeOK, FreeHead, FullHead, FreeSlots, FullSlots

LEMMA InitInv == Init => IInv
<1>. SUFFICES ASSUME Init
              PROVE  IInv
  OBVIOUS
<1>1. TypeOK
  <2>1. /\ full_array \in [Index -> Chunks \cup {NoChunk}]
        /\ free_array \in [Index -> Chunks \cup {NoChunk}]
    BY CapacityFacts DEF Init, Index, Chunks, NoChunk
  <2>2. content \in [Chunks -> [Offsets -> Nat]]
    BY DEF Init
  <2>. QED
    BY <2>1, <2>2, CircularAssumption, CapacityFacts
       DEF Init, TypeOK, Index, Chunks, Places
<1>2. PushKnows /\ PopKnows /\ QueuesBigEnough
  BY DEF Init, PushKnows, PopKnows, QueuesBigEnough
<1>3. Bounded
  BY CircularAssumption DEF Init, Bounded
<1>4. ChunksOwned
  <2>1. FullSlots = {}
    BY <1>1, HeldEmpty DEF Init, FullSlots, FullHead, TypeOK
  <2>2. FreeSlots = 0 .. ChunksCount - 2
    <3>1. /\ 0 \in Index /\ ChunksCount - 1 \in Index
          /\ FreeSlots = Held(0, ChunksCount - 1)
      BY CapacityFacts DEF Init, FreeSlots, FreeHead, Index
    <3>2. \A i \in Index : Length(0, i) = i
      BY <3>1, LengthLinear, CapacityFacts DEF Index
    <3>. QED
      BY <3>1, <3>2, CapacityFacts DEF Held, Index
  <2>3. \A i \in FreeSlots : free_array[i] = i + 1
    BY <2>2, CapacityFacts DEF Init, Index
  <2>4. \A c \in Chunks : c = 0 \/ c - 1 \in FreeSlots
    BY <2>2, CapacityFacts DEF Chunks
  <2>5. \A c \in Chunks : (\E i \in FreeSlots : free_array[i] = c) \/ c = 0
    <3>. SUFFICES ASSUME NEW c \in Chunks, c # 0
                  PROVE  \E i \in FreeSlots : free_array[i] = c
      OBVIOUS
    <3>1. c - 1 \in FreeSlots /\ free_array[c - 1] = c
      BY <2>3, <2>4 DEF Chunks
    <3>. QED
      BY <3>1
  <2>6. /\ \A i \in FreeSlots : free_array[i] \in Chunks /\ free_array[i] # 0 /\ free_array[i] # NoChunk
        /\ \A i, j \in FreeSlots : free_array[i] = free_array[j] => i = j
    BY <2>2, <2>3, CapacityFacts DEF Chunks, NoChunk
  <2>7. push_chunk = 0 /\ pop_chunk = NoChunk /\ 0 # NoChunk
    BY DEF Init, NoChunk
  <2>. QED
    BY <2>1, <2>5, <2>6, <2>7 DEF ChunksOwned, Owned
<1>. QED
  BY <1>1, <1>2, <1>3, <1>4 DEF IInv

-----------------------------------------------------------------------------
(***************************************************************************)
(* Steps.                                                                  *)
(***************************************************************************)

(* A step that moves no index, slot or chunk, and is not at a release,     *)
(* keeps the owners.                                                       *)
LEMMA OwnersStay ==
  ASSUME ChunksOwned,
         UNCHANGED <<fullVars, freeVars, push_chunk, pop_chunk>>,
         push_pc # "release", push_pc' # "release",
         pop_pc' = pop_pc
  PROVE  ChunksOwned'
BY DEF ChunksOwned, FreeSlots, FullSlots, FreeHead, FullHead, fullVars, freeVars

LEMMA OwnersStayPop ==
  ASSUME ChunksOwned,
         UNCHANGED <<fullVars, freeVars, push_chunk, pop_chunk>>,
         pop_pc # "release", pop_pc' # "release",
         push_pc' = push_pc
  PROVE  ChunksOwned'
BY DEF ChunksOwned, FreeSlots, FullSlots, FreeHead, FullHead, fullVars, freeVars

(* The places of Push between two calls or two chunks.                     *)
LEMMA PushLocalInv ==
  ASSUME IInv,
         \/ \E size \in 1 .. MaxCall : Push(size)
         \/ PushDone
         \/ PushNeedsChunk
  PROVE  IInv'
<1>1. /\ UNCHANGED <<fullVars, freeVars, content, push_chunk, push_chunk_size, pushed, popVars>>
      /\ push_pc \in {"idle", "loop"}
      /\ push_pc' \in {"idle", "loop", "take"}
      /\ push_pc' = "take" => free_head # free_tail /\ push_chunk = NoChunk
      /\ push_left' \in 0 .. MaxCall
      /\ pushed + push_left' <= MaxPushed
  BY CircularAssumption DEF IInv, TypeOK, Bounded, Push, PushDone, PushNeedsChunk
<1>2. TypeOK'
  BY <1>1 DEF IInv, TypeOK, Places, fullVars, freeVars, popVars
<1>3. PushKnows' /\ PopKnows' /\ QueuesBigEnough' /\ Bounded'
  BY <1>1 DEF IInv, PushKnows, PopKnows, QueuesBigEnough, Bounded, fullVars, freeVars, popVars
<1>4. ChunksOwned'
  BY <1>1, OwnersStay DEF IInv, popVars
<1>. QED
  BY <1>2, <1>3, <1>4 DEF IInv

LEMMA PushTakesInv ==
  ASSUME IInv, PushTakes
  PROVE  IInv'
<1>1. /\ free_head \in Index /\ free_tail \in Index /\ free_head # free_tail
      /\ push_chunk = NoChunk
      /\ FreeSlots = Held(free_head, free_tail)
  BY DEF IInv, PushTakes, PushKnows, TypeOK, FreeSlots, FreeHead
<1>2. /\ free_head \in FreeSlots
      /\ FreeSlots' = FreeSlots \ {free_head}
      /\ FullSlots' = FullSlots
  BY <1>1, HeldShrink DEF PushTakes, FreeSlots, FreeHead, FullSlots, FullHead, fullVars, freeVars, popVars
<1>3. TypeOK'
  BY <1>1 DEF IInv, TypeOK, PushTakes, Places, fullVars, freeVars, popVars
<1>4. PushKnows' /\ PopKnows' /\ QueuesBigEnough' /\ Bounded'
  <2>1. free_array[free_head] # NoChunk
    BY <1>2, NoChunkIsNone DEF IInv, ChunksOwned, Owned
  <2>. QED
    BY <1>1, <2>1 DEF IInv, PushKnows, PopKnows, QueuesBigEnough, Bounded, PushTakes, fullVars, freeVars, popVars
<1>5. ChunksOwned'
  <2>1. Owned(FreeSlots, free_array, FullSlots, full_array, NoChunk, pop_chunk)
    BY <1>1 DEF IInv, ChunksOwned
  <2>2. Owned(FreeSlots \ {free_head}, free_array, FullSlots, full_array, free_array[free_head], pop_chunk)
    BY <1>2, <2>1, OwnedTake
  <2>. QED
    BY <1>2, <2>2 DEF ChunksOwned, PushTakes, fullVars, freeVars, popVars
<1>. QED
  BY <1>3, <1>4, <1>5 DEF IInv

LEMMA PushReleasesInv ==
  ASSUME IInv, PushReleases
  PROVE  IInv'
<1>1. /\ free_head \in Index /\ free_tail \in Index /\ free_head # free_tail
      /\ increment(free_head) \in Index /\ increment(free_tail) \in Index
      /\ increment(free_tail) # increment(free_head)
  BY IncrementLinear, IncrementInjective DEF IInv, PushReleases, PushKnows, TypeOK
<1>2. FreeSlots' = FreeSlots /\ FullSlots' = FullSlots
  BY DEF PushReleases, FreeSlots, FreeHead, FullSlots, FullHead, fullVars, popVars
<1>3. TypeOK'
  BY <1>1, CircularAssumption DEF IInv, TypeOK, PushReleases, Places, fullVars, popVars
<1>4. PushKnows' /\ PopKnows' /\ QueuesBigEnough' /\ Bounded'
  BY <1>1 DEF IInv, PushKnows, PopKnows, QueuesBigEnough, Bounded, PushReleases, fullVars, popVars
<1>5. ChunksOwned'
  BY <1>2 DEF IInv, ChunksOwned, PushReleases, fullVars, popVars
<1>. QED
  BY <1>3, <1>4, <1>5 DEF IInv

LEMMA PushCopiesInv ==
  ASSUME IInv, PushCopies
  PROVE  IInv'
<1>1. /\ push_left \in Nat /\ push_chunk_size \in Nat /\ pushed \in Nat
      /\ MaxCall \in Nat /\ MaxPushed \in Nat /\ ChunkSize \in Nat
      /\ push_left <= MaxCall /\ push_chunk_size <= ChunkSize
      /\ pushed + push_left <= MaxPushed
      /\ push_chunk # NoChunk
  BY CircularAssumption DEF IInv, TypeOK, Bounded, PushCopies
<1>2. ToPush \in Nat /\ ToPush <= push_left /\ ToPush <= ChunkSize - push_chunk_size
  BY <1>1 DEF ToPush
<1>3. /\ push_pc' \in {"loop", "offer"} /\ push_pc = "loop"
      /\ pushed' = pushed + ToPush
      /\ push_left' = push_left - ToPush
      /\ push_chunk_size' = push_chunk_size + ToPush
      /\ UNCHANGED <<fullVars, freeVars, push_chunk, popVars>>
  BY DEF PushCopies
<1>4. content' \in [Chunks -> [Offsets -> Nat]]
  <2> DEFINE bytes == [o \in Offsets |->
          IF push_chunk_size <= o /\ o < push_chunk_size + ToPush
          THEN pushed + 1 + o - push_chunk_size
          ELSE content[push_chunk][o]]
  <2>1. content \in [Chunks -> [Offsets -> Nat]] /\ push_chunk \in Chunks
    BY <1>1 DEF IInv, TypeOK
  <2>2. \A o \in Offsets : content[push_chunk][o] \in Nat
    BY <2>1
  <2>3. \A o \in Offsets : push_chunk_size <= o => pushed + 1 + o - push_chunk_size \in Nat
    BY <1>1 DEF Offsets
  <2>4. bytes \in [Offsets -> Nat]
    BY <2>2, <2>3
  <2>5. content' = [content EXCEPT ![push_chunk] = bytes]
    BY DEF PushCopies
  <2>. HIDE DEF bytes
  <2>. QED
    BY <2>1, <2>4, <2>5
<1>5. TypeOK'
  BY <1>1, <1>2, <1>3, <1>4 DEF IInv, TypeOK, Places, fullVars, freeVars, popVars
<1>6. PushKnows' /\ PopKnows' /\ QueuesBigEnough'
  BY <1>1, <1>3 DEF IInv, PushKnows, PopKnows, QueuesBigEnough, fullVars, freeVars, popVars
<1>7. Bounded'
  BY <1>1, <1>2, <1>3 DEF Bounded
<1>8. ChunksOwned'
  BY <1>3, OwnersStay DEF IInv, popVars
<1>. QED
  BY <1>5, <1>6, <1>7, <1>8 DEF IInv

(* The assertion after full_queue.push: by NeverFull there is a slot.      *)
LEMMA PushOffersInv ==
  ASSUME IInv, PushOffers
  PROVE  IInv'
<1>1. /\ full_head \in Index /\ full_tail \in Index
      /\ push_chunk \in Chunks
  BY DEF IInv, PushOffers, PushKnows, TypeOK
<1>2. increment(full_tail) # full_head
  <2>. SUFFICES ASSUME increment(full_tail) = full_head
                PROVE  FALSE
    OBVIOUS
  <2> DEFINE S == Index \ {full_tail}
  <2>1. Held(full_head, full_tail) = S
    BY <1>1, HeldFull
  <2>2. /\ \A i \in FullSlots : full_array[i] \in Chunks /\ full_array[i] # push_chunk
        /\ \A i, j \in FullSlots : full_array[i] = full_array[j] => i = j
        /\ \A i \in FullSlots : full_array[i] # pop_chunk
        /\ push_chunk # pop_chunk
    BY <1>1 DEF IInv, ChunksOwned, Owned
  <2>3. /\ \A i \in S : full_array[i] \in Chunks /\ full_array[i] # push_chunk
        /\ \A i, j \in S : full_array[i] = full_array[j] => i = j
    <3>1. CASE pop_pc # "release"
      <4>1. FullSlots = S
        BY <2>1, <3>1 DEF FullSlots, FullHead
      <4>. QED
        BY <2>2, <4>1
    <3>2. CASE pop_pc = "release"
      <4>1. full_head # full_tail /\ pop_chunk = full_array[full_head]
        BY <3>2 DEF IInv, PopKnows
      <4>2. FullSlots = S \ {full_head} /\ full_head \in S
        BY <1>1, <2>1, <3>2, <4>1, HeldShrink DEF FullSlots, FullHead
      <4>3. full_array[full_head] \in Chunks
        <5>1. pop_chunk \in Chunks \cup {NoChunk}
          BY DEF IInv, TypeOK
        <5>2. pop_chunk # NoChunk
          BY <3>2 DEF IInv, PopKnows
        <5>. QED
          BY <4>1, <5>1, <5>2
      <4>. QED
        BY <2>2, <4>1, <4>2, <4>3
    <3>. QED
      BY <3>1, <3>2
  <2>. HIDE DEF S
  <2>4. QED
    BY <1>1, <2>3, NeverFull DEF S
<1>3. /\ push_pc = "offer" /\ push_pc' = "put"
      /\ UNCHANGED <<fullVars, freeVars, content, push_left, push_chunk, push_chunk_size, pushed, popVars>>
  BY <1>2 DEF PushOffers
<1>4. TypeOK' /\ Bounded'
  BY <1>3 DEF IInv, TypeOK, Bounded, Places, fullVars, freeVars, popVars
<1>5. PushKnows' /\ PopKnows' /\ QueuesBigEnough'
  BY <1>2, <1>3 DEF IInv, PushKnows, PopKnows, QueuesBigEnough, fullVars, freeVars, popVars
<1>6. ChunksOwned'
  BY <1>3, OwnersStay DEF IInv, popVars
<1>. QED
  BY <1>4, <1>5, <1>6 DEF IInv

LEMMA PushPutsInv ==
  ASSUME IInv, PushPuts
  PROVE  IInv'
<1>1. /\ full_head \in Index /\ full_tail \in Index
      /\ push_chunk \in Chunks \cup {NoChunk} /\ push_chunk # NoChunk
      /\ increment(full_tail) # full_head
      /\ full_array \in [Index -> Chunks \cup {NoChunk}]
  BY DEF IInv, PushPuts, PushKnows, TypeOK
<1>2. full_tail \notin FullSlots /\ FullSlots \subseteq Index
  <2>1. Held(FullHead, full_tail) = FullSlots /\ FullHead \in Index
    BY <1>1, HeadTypes DEF FullSlots, IInv
  <2>. QED
    BY <1>1, <2>1, TailNotHeld, HeldType
<1>3. FreeSlots' = FreeSlots /\ FullSlots' = FullSlots
  BY DEF PushPuts, FreeSlots, FreeHead, FullSlots, FullHead, freeVars, popVars
<1>4. /\ full_array' \in [Index -> Chunks \cup {NoChunk}]
      /\ full_array'[full_tail] = push_chunk
      /\ \A i \in Index \ {full_tail} : full_array'[i] = full_array[i]
  BY <1>1 DEF PushPuts
<1>5. TypeOK' /\ Bounded'
  BY <1>4 DEF IInv, TypeOK, Bounded, PushPuts, Places, freeVars, popVars
<1>6. PushKnows' /\ PopKnows' /\ QueuesBigEnough'
  <2>1. pop_pc = "release" => full_array'[full_head] = full_array[full_head]
    BY <1>1, <1>4 DEF IInv, PopKnows
  <2>. QED
    BY <1>1, <1>4, <2>1 DEF IInv, PushKnows, PopKnows, QueuesBigEnough, PushPuts, freeVars, popVars
<1>7. ChunksOwned'
  <2>1. Owned(FreeSlots, free_array, FullSlots, [full_array EXCEPT ![full_tail] = push_chunk], push_chunk, pop_chunk)
    BY <1>1, <1>2, OwnedPut DEF IInv, ChunksOwned
  <2>. QED
    BY <1>3, <2>1 DEF ChunksOwned, PushPuts, freeVars, popVars
<1>. QED
  BY <1>5, <1>6, <1>7 DEF IInv

LEMMA PushPublishesInv ==
  ASSUME IInv, PushPublishes
  PROVE  IInv'
<1>1. /\ full_head \in Index /\ full_tail \in Index
      /\ push_chunk \in Chunks
      /\ increment(full_tail) # full_head
      /\ full_array[full_tail] = push_chunk
      /\ increment(full_tail) \in Index /\ increment(full_head) \in Index
  BY IncrementLinear DEF IInv, PushPublishes, PushKnows, TypeOK
<1>2. FullHead \in Index /\ increment(full_tail) # FullHead /\ full_tail \notin FullSlots
  <2>1. FullHead \in Index
    BY HeadTypes DEF IInv
  <2>2. increment(full_tail) # FullHead
    BY <1>1, IncrementInjective DEF IInv, PopKnows, FullHead
  <2>. QED
    BY <1>1, <2>1, <2>2, TailNotHeld DEF FullSlots
<1>3. FreeSlots' = FreeSlots /\ FullSlots' = FullSlots \cup {full_tail}
  <2>1. FullSlots' = Held(FullHead, increment(full_tail))
    BY DEF PushPublishes, FullSlots, FullHead, popVars
  <2>. QED
    BY <1>1, <1>2, <2>1, HeldGrow DEF PushPublishes, FreeSlots, FreeHead, freeVars, FullSlots
<1>4. TypeOK' /\ Bounded'
  BY <1>1 DEF IInv, TypeOK, Bounded, PushPublishes, Places, freeVars, popVars
<1>5. PushKnows' /\ PopKnows' /\ QueuesBigEnough'
  BY <1>1 DEF IInv, PushKnows, PopKnows, QueuesBigEnough, PushPublishes, freeVars, popVars
<1>6. ChunksOwned'
  <2>1. Owned(FreeSlots, free_array, FullSlots \cup {full_tail}, full_array, NoChunk, pop_chunk)
    BY <1>1, <1>2, OwnedPublish DEF IInv, ChunksOwned
  <2>. QED
    BY <1>3, <2>1 DEF ChunksOwned, PushPublishes, freeVars, popVars
<1>. QED
  BY <1>4, <1>5, <1>6 DEF IInv
(* Seen from Pop, FIFOs and threads change places.                         *)
LEMMA OwnedReverse ==
  ASSUME TypeOK, ChunksOwned
  PROVE  Owned(FullSlots, full_array, FreeSlots, free_array, pop_chunk, push_chunk)
BY OwnedSymmetric DEF TypeOK, ChunksOwned

LEMMA OwnedReversed ==
  ASSUME TypeOK',
         Owned(FullSlots', full_array', FreeSlots', free_array', pop_chunk', push_chunk')
  PROVE  ChunksOwned'
BY OwnedSymmetric DEF TypeOK, ChunksOwned

(* The places of Pop between two calls or two chunks.                      *)
LEMMA PopLocalInv ==
  ASSUME IInv,
         \/ \E size \in 1 .. MaxCall : Pop(size)
         \/ PopDone
         \/ PopNeedsChunk
  PROVE  IInv'
<1>1. /\ UNCHANGED <<freeVars, fullVars, content, pop_chunk, pop_chunk_size, handed, pushVars>>
      /\ pop_pc \in {"idle", "loop"}
      /\ pop_pc' \in {"idle", "loop", "take"}
      /\ pop_pc' = "take" => full_head # full_tail /\ pop_chunk = NoChunk
      /\ pop_left' \in 0 .. MaxCall
  BY CircularAssumption DEF IInv, TypeOK, Bounded, Pop, PopDone, PopNeedsChunk
<1>2. TypeOK'
  BY <1>1 DEF IInv, TypeOK, Places, freeVars, fullVars, pushVars
<1>3. PopKnows' /\ PushKnows' /\ QueuesBigEnough' /\ Bounded'
  BY <1>1 DEF IInv, PopKnows, PushKnows, QueuesBigEnough, Bounded, freeVars, fullVars, pushVars
<1>4. ChunksOwned'
  BY <1>1, OwnersStayPop DEF IInv, pushVars
<1>. QED
  BY <1>2, <1>3, <1>4 DEF IInv

LEMMA PopTakesInv ==
  ASSUME IInv, PopTakes
  PROVE  IInv'
<1>1. /\ full_head \in Index /\ full_tail \in Index /\ full_head # full_tail
      /\ pop_chunk = NoChunk
      /\ FullSlots = Held(full_head, full_tail)
  BY DEF IInv, PopTakes, PopKnows, TypeOK, FullSlots, FullHead
<1>2. /\ full_head \in FullSlots
      /\ FullSlots' = FullSlots \ {full_head}
      /\ FreeSlots' = FreeSlots
  BY <1>1, HeldShrink DEF PopTakes, FullSlots, FullHead, FreeSlots, FreeHead, freeVars, fullVars, pushVars
<1>3. TypeOK'
  BY <1>1 DEF IInv, TypeOK, PopTakes, Places, freeVars, fullVars, pushVars
<1>4. PopKnows' /\ PushKnows' /\ QueuesBigEnough' /\ Bounded'
  <2>1. full_array[full_head] # NoChunk
    BY <1>2, NoChunkIsNone DEF IInv, ChunksOwned, Owned
  <2>. QED
    BY <1>1, <2>1 DEF IInv, PopKnows, PushKnows, QueuesBigEnough, Bounded, PopTakes, freeVars, fullVars, pushVars
<1>5. ChunksOwned'
  <2>1. Owned(FullSlots, full_array, FreeSlots, free_array, NoChunk, push_chunk)
    BY <1>1, OwnedReverse DEF IInv
  <2>2. Owned(FullSlots \ {full_head}, full_array, FreeSlots, free_array, full_array[full_head], push_chunk)
    BY <1>2, <2>1, OwnedTake
  <2>3. Owned(FullSlots', full_array', FreeSlots', free_array', pop_chunk', push_chunk')
    BY <1>2, <2>2 DEF PopTakes, freeVars, fullVars, pushVars
  <2>. QED
    BY <1>3, <2>3, OwnedReversed
<1>. QED
  BY <1>3, <1>4, <1>5 DEF IInv

LEMMA PopReleasesInv ==
  ASSUME IInv, PopReleases
  PROVE  IInv'
<1>1. /\ full_head \in Index /\ full_tail \in Index /\ full_head # full_tail
      /\ increment(full_head) \in Index /\ increment(full_tail) \in Index
      /\ increment(full_tail) # increment(full_head)
  BY IncrementLinear, IncrementInjective DEF IInv, PopReleases, PopKnows, TypeOK
<1>2. FullSlots' = FullSlots /\ FreeSlots' = FreeSlots
  BY DEF PopReleases, FullSlots, FullHead, FreeSlots, FreeHead, freeVars, pushVars
<1>3. TypeOK'
  BY <1>1, CircularAssumption DEF IInv, TypeOK, PopReleases, Places, freeVars, pushVars
<1>4. PopKnows' /\ PushKnows' /\ QueuesBigEnough' /\ Bounded'
  BY <1>1 DEF IInv, PopKnows, PushKnows, QueuesBigEnough, Bounded, PopReleases, freeVars, pushVars
<1>5. ChunksOwned'
  BY <1>2 DEF IInv, ChunksOwned, PopReleases, freeVars, pushVars
<1>. QED
  BY <1>3, <1>4, <1>5 DEF IInv

LEMMA PopCopiesInv ==
  ASSUME IInv, PopCopies
  PROVE  IInv'
<1>1. /\ pop_left \in Nat /\ pop_chunk_size \in Nat
      /\ MaxCall \in Nat /\ ChunkSize \in Nat
      /\ pop_left <= MaxCall /\ pop_chunk_size <= ChunkSize
      /\ pop_chunk # NoChunk
  BY CircularAssumption DEF IInv, TypeOK, PopCopies
<1>2. ToPop \in Nat /\ ToPop <= pop_left /\ ToPop <= pop_chunk_size
  BY <1>1 DEF ToPop
<1>3. /\ pop_pc' \in {"loop", "offer"} /\ pop_pc = "loop"
      /\ pop_left' = pop_left - ToPop
      /\ pop_chunk_size' = pop_chunk_size - ToPop
      /\ UNCHANGED <<fullVars, freeVars, content, pop_chunk, pushVars>>
  BY DEF PopCopies
<1>4. TypeOK'
  BY <1>1, <1>2, <1>3 DEF IInv, TypeOK, Places, fullVars, freeVars, pushVars
<1>5. PushKnows' /\ PopKnows' /\ QueuesBigEnough' /\ Bounded'
  BY <1>1, <1>3 DEF IInv, PushKnows, PopKnows, QueuesBigEnough, Bounded, fullVars, freeVars, pushVars
<1>6. ChunksOwned'
  BY <1>3, OwnersStayPop DEF IInv, pushVars
<1>. QED
  BY <1>4, <1>5, <1>6 DEF IInv

(* The assertion after free_queue.push: by NeverFull there is a slot.      *)
LEMMA PopOffersInv ==
  ASSUME IInv, PopOffers
  PROVE  IInv'
<1>1. /\ free_head \in Index /\ free_tail \in Index
      /\ pop_chunk \in Chunks
  BY DEF IInv, PopOffers, PopKnows, TypeOK
<1>2. increment(free_tail) # free_head
  <2>. SUFFICES ASSUME increment(free_tail) = free_head
                PROVE  FALSE
    OBVIOUS
  <2> DEFINE S == Index \ {free_tail}
  <2>1. Held(free_head, free_tail) = S
    BY <1>1, HeldFull
  <2>2. /\ \A i \in FreeSlots : free_array[i] \in Chunks /\ free_array[i] # pop_chunk
        /\ \A i, j \in FreeSlots : free_array[i] = free_array[j] => i = j
        /\ \A i \in FreeSlots : free_array[i] # push_chunk
        /\ pop_chunk # push_chunk
    BY <1>1 DEF IInv, ChunksOwned, Owned
  <2>3. /\ \A i \in S : free_array[i] \in Chunks /\ free_array[i] # pop_chunk
        /\ \A i, j \in S : free_array[i] = free_array[j] => i = j
    <3>1. CASE push_pc # "release"
      <4>1. FreeSlots = S
        BY <2>1, <3>1 DEF FreeSlots, FreeHead
      <4>. QED
        BY <2>2, <4>1
    <3>2. CASE push_pc = "release"
      <4>1. free_head # free_tail /\ push_chunk = free_array[free_head]
        BY <3>2 DEF IInv, PushKnows
      <4>2. FreeSlots = S \ {free_head} /\ free_head \in S
        BY <1>1, <2>1, <3>2, <4>1, HeldShrink DEF FreeSlots, FreeHead
      <4>3. free_array[free_head] \in Chunks
        <5>1. push_chunk \in Chunks \cup {NoChunk}
          BY DEF IInv, TypeOK
        <5>2. push_chunk # NoChunk
          BY <3>2 DEF IInv, PushKnows
        <5>. QED
          BY <4>1, <5>1, <5>2
      <4>. QED
        BY <2>2, <4>1, <4>2, <4>3
    <3>. QED
      BY <3>1, <3>2
  <2>. HIDE DEF S
  <2>4. QED
    BY <1>1, <2>3, NeverFull DEF S
<1>3. /\ pop_pc = "offer" /\ pop_pc' = "put"
      /\ UNCHANGED <<freeVars, fullVars, content, pop_left, pop_chunk, pop_chunk_size, handed, pushVars>>
  BY <1>2 DEF PopOffers
<1>4. TypeOK' /\ Bounded'
  BY <1>3 DEF IInv, TypeOK, Bounded, Places, freeVars, fullVars, pushVars
<1>5. PopKnows' /\ PushKnows' /\ QueuesBigEnough'
  BY <1>2, <1>3 DEF IInv, PopKnows, PushKnows, QueuesBigEnough, freeVars, fullVars, pushVars
<1>6. ChunksOwned'
  BY <1>3, OwnersStayPop DEF IInv, pushVars
<1>. QED
  BY <1>4, <1>5, <1>6 DEF IInv

LEMMA PopPutsInv ==
  ASSUME IInv, PopPuts
  PROVE  IInv'
<1>1. /\ free_head \in Index /\ free_tail \in Index
      /\ pop_chunk \in Chunks \cup {NoChunk} /\ pop_chunk # NoChunk
      /\ increment(free_tail) # free_head
      /\ free_array \in [Index -> Chunks \cup {NoChunk}]
  BY DEF IInv, PopPuts, PopKnows, TypeOK
<1>2. free_tail \notin FreeSlots /\ FreeSlots \subseteq Index
  <2>1. Held(FreeHead, free_tail) = FreeSlots /\ FreeHead \in Index
    BY <1>1, HeadTypes DEF FreeSlots, IInv
  <2>. QED
    BY <1>1, <2>1, TailNotHeld, HeldType
<1>3. FullSlots' = FullSlots /\ FreeSlots' = FreeSlots
  BY DEF PopPuts, FullSlots, FullHead, FreeSlots, FreeHead, fullVars, pushVars
<1>4. /\ free_array' \in [Index -> Chunks \cup {NoChunk}]
      /\ free_array'[free_tail] = pop_chunk
      /\ \A i \in Index \ {free_tail} : free_array'[i] = free_array[i]
  BY <1>1 DEF PopPuts
<1>5. TypeOK' /\ Bounded'
  BY <1>4 DEF IInv, TypeOK, Bounded, PopPuts, Places, fullVars, pushVars
<1>6. PopKnows' /\ PushKnows' /\ QueuesBigEnough'
  <2>1. push_pc = "release" => free_array'[free_head] = free_array[free_head]
    BY <1>1, <1>4 DEF IInv, PushKnows
  <2>. QED
    BY <1>1, <1>4, <2>1 DEF IInv, PopKnows, PushKnows, QueuesBigEnough, PopPuts, fullVars, pushVars
<1>7. ChunksOwned'
  <2>1. Owned(FullSlots, full_array, FreeSlots, [free_array EXCEPT ![free_tail] = pop_chunk], pop_chunk, push_chunk)
    BY <1>1, <1>2, OwnedReverse, OwnedPut DEF IInv
  <2>2. Owned(FullSlots', full_array', FreeSlots', free_array', pop_chunk', push_chunk')
    BY <1>3, <2>1 DEF PopPuts, fullVars, pushVars
  <2>. QED
    BY <1>5, <2>2, OwnedReversed
<1>. QED
  BY <1>5, <1>6, <1>7 DEF IInv

LEMMA PopPublishesInv ==
  ASSUME IInv, PopPublishes
  PROVE  IInv'
<1>1. /\ free_head \in Index /\ free_tail \in Index
      /\ pop_chunk \in Chunks
      /\ increment(free_tail) # free_head
      /\ free_array[free_tail] = pop_chunk
      /\ increment(free_tail) \in Index /\ increment(free_head) \in Index
  BY IncrementLinear DEF IInv, PopPublishes, PopKnows, TypeOK
<1>2. FreeHead \in Index /\ increment(free_tail) # FreeHead /\ free_tail \notin FreeSlots
  <2>1. FreeHead \in Index
    BY HeadTypes DEF IInv
  <2>2. increment(free_tail) # FreeHead
    BY <1>1, IncrementInjective DEF IInv, PushKnows, FreeHead
  <2>. QED
    BY <1>1, <2>1, <2>2, TailNotHeld DEF FreeSlots
<1>3. FullSlots' = FullSlots /\ FreeSlots' = FreeSlots \cup {free_tail}
  <2>1. FreeSlots' = Held(FreeHead, increment(free_tail))
    BY DEF PopPublishes, FreeSlots, FreeHead, pushVars
  <2>. QED
    BY <1>1, <1>2, <2>1, HeldGrow DEF PopPublishes, FullSlots, FullHead, fullVars, FreeSlots
<1>4. TypeOK' /\ Bounded'
  BY <1>1 DEF IInv, TypeOK, Bounded, PopPublishes, Places, fullVars, pushVars
<1>5. PopKnows' /\ PushKnows' /\ QueuesBigEnough'
  BY <1>1 DEF IInv, PopKnows, PushKnows, QueuesBigEnough, PopPublishes, fullVars, pushVars
<1>6. ChunksOwned'
  <2>1. Owned(FullSlots, full_array, FreeSlots \cup {free_tail}, free_array, NoChunk, push_chunk)
    BY <1>1, <1>2, OwnedReverse, OwnedPublish DEF IInv
  <2>2. Owned(FullSlots', full_array', FreeSlots', free_array', pop_chunk', push_chunk')
    BY <1>3, <2>1 DEF PopPublishes, fullVars, pushVars
  <2>. QED
    BY <1>4, <2>2, OwnedReversed
<1>. QED
  BY <1>4, <1>5, <1>6 DEF IInv
-----------------------------------------------------------------------------
(***************************************************************************)
(* The theorems.                                                           *)
(***************************************************************************)
LEMMA StutterInv ==
  ASSUME IInv, UNCHANGED vars
  PROVE  IInv'
<1>1. UNCHANGED <<fullVars, freeVars, content, pushVars, popVars>>
  BY DEF vars
<1>2. TypeOK' /\ Bounded' /\ QueuesBigEnough'
  BY <1>1 DEF IInv, TypeOK, Bounded, QueuesBigEnough, fullVars, freeVars, pushVars, popVars
<1>3. PushKnows' /\ PopKnows'
  BY <1>1 DEF IInv, PushKnows, PopKnows, fullVars, freeVars, pushVars, popVars
<1>4. ChunksOwned'
  BY <1>1 DEF IInv, ChunksOwned, FreeSlots, FullSlots, FreeHead, FullHead, fullVars, freeVars, pushVars, popVars
<1>. QED
  BY <1>2, <1>3, <1>4 DEF IInv

LEMMA NextInv ==
  ASSUME IInv, [Next]_vars
  PROVE  IInv'
<1>1. CASE UNCHANGED vars
  BY <1>1, StutterInv
<1>2. CASE \E size \in 1 .. MaxCall : Push(size) \/ Pop(size)
  <2>1. \/ \E size \in 1 .. MaxCall : Push(size)
        \/ \E size \in 1 .. MaxCall : Pop(size)
    BY <1>2
  <2>. QED
    BY <2>1, PushLocalInv, PopLocalInv
<1>3. CASE PushStep
  BY <1>3, PushLocalInv, PushTakesInv, PushReleasesInv, PushCopiesInv,
     PushOffersInv, PushPutsInv, PushPublishesInv DEF PushStep
<1>4. CASE PopStep
  BY <1>4, PopLocalInv, PopTakesInv, PopReleasesInv, PopCopiesInv,
     PopOffersInv, PopPutsInv, PopPublishesInv DEF PopStep
<1>. QED
  BY <1>1, <1>2, <1>3, <1>4 DEF Next

THEOREM InvariantHolds == Spec => []IInv
<1>1. Init => IInv
  BY InitInv
<1>2. IInv /\ [Next]_vars => IInv'
  BY NextInv
<1>. QED
  BY <1>1, <1>2, PTL DEF Spec

(* The indices, slots and byte counts stay in their ranges: increment      *)
(* never leaves an array, and no copy of Push or Pop passes the end of a   *)
(* chunk.                                                                  *)
THEOREM TypeCorrect == Spec => []TypeOK
<1>1. IInv => TypeOK
  BY DEF IInv
<1>. QED
  BY <1>1, InvariantHolds, PTL

(* The RTP thread and the audio callback never hold, or wait for, the same *)
(* chunk, though no lock protects the FIFOs.                               *)
THEOREM ChunksStayApart == Spec => []ChunksApart
<1>1. IInv => ChunksApart
  BY OwnedApart DEF IInv
<1>. QED
  BY <1>1, InvariantHolds, PTL

(* Every chunk of the constructor stays in circulation.                    *)
THEOREM ChunksStay == Spec => []NoChunkLost
<1>1. IInv => NoChunkLost
  BY OwnedApart DEF IInv
<1>. QED
  BY <1>1, InvariantHolds, PTL

(* The assertions in circular-buf.hpp:93 and 128 cannot fail.              *)
THEOREM AssertionsHold == Spec => []QueuesBigEnough
<1>1. IInv => QueuesBigEnough
  BY DEF IInv
<1>. QED
  BY <1>1, InvariantHolds, PTL

-----------------------------------------------------------------------------
(***************************************************************************)
(* Refinement: the chunks are a ByteFifo.  First, sequences of consecutive *)
(* bytes, as in the proof for RingBuffer.                                  *)
(***************************************************************************)
(* The n bytes of the stream after the first a.                            *)
Run(a, n) == [k \in 1 .. n |-> a + k]

LEMMA RunLength ==
  ASSUME NEW a \in Int, NEW n \in Nat
  PROVE  Run(a, n) \in Seq(Int) /\ Len(Run(a, n)) = n
<1>1. Run(a, n) \in [1 .. n -> Int] /\ DOMAIN Run(a, n) = 1 .. n
  BY DEF Run
<1>2. Run(a, n) \in Seq(Int)
  BY <1>1, SeqDef
<1>. QED
  BY <1>1, <1>2, LenProperties

LEMMA RunAppend ==
  ASSUME NEW a \in Int, NEW n \in Nat, NEW m \in Nat
  PROVE  Run(a, n) \o Run(a + n, m) = Run(a, n + m)
<1>1. /\ Run(a, n) \in Seq(Int) /\ Len(Run(a, n)) = n
      /\ Run(a + n, m) \in Seq(Int) /\ Len(Run(a + n, m)) = m
      /\ Run(a, n + m) \in Seq(Int) /\ Len(Run(a, n + m)) = n + m
  BY RunLength
<1>2. Run(a, n) \o Run(a + n, m) \in Seq(Int)
  BY <1>1, ConcatProperties
<1>3. Len(Run(a, n) \o Run(a + n, m)) = n + m
  BY <1>1, ConcatProperties
<1>4. ASSUME NEW k \in 1 .. n + m
      PROVE  (Run(a, n) \o Run(a + n, m))[k] = Run(a, n + m)[k]
  <2>1. (Run(a, n) \o Run(a + n, m))[k] =
           IF k <= n THEN Run(a, n)[k] ELSE Run(a + n, m)[k - n]
    BY <1>1, ConcatProperties
  <2>2. CASE k <= n
    BY <2>1, <2>2 DEF Run
  <2>3. CASE ~(k <= n)
    BY <2>1, <2>3 DEF Run
  <2>. QED
    BY <2>2, <2>3
<1>. QED
  BY <1>1, <1>2, <1>3, <1>4, SeqEqual

LEMMA RunCut ==
  ASSUME NEW a \in Int, NEW n \in Nat, NEW m \in 0 .. n
  PROVE  /\ SubSeq(Run(a, n), 1, m) = Run(a, m)
         /\ SubSeq(Run(a, n), m + 1, n) = Run(a + m, n - m)
<1>1. SubSeq(Run(a, n), 1, m) = Run(a, m)
  BY SMT DEF Run
<1>2. SubSeq(Run(a, n), m + 1, n) = Run(a + m, n - m)
  BY SMT DEF Run
<1>. QED
  BY <1>1, <1>2

(* Products and quotients, so that no later step multiplies.               *)
LEMMA ChunkProduct ==
  ASSUME NEW n \in Nat
  PROVE  n * ChunkSize \in Nat /\ (n + 1) * ChunkSize = n * ChunkSize + ChunkSize
BY CircularAssumption, SMT

LEMMA ChunkProductGrows ==
  ASSUME NEW n \in Nat, NEW m \in Nat, n <= m
  PROVE  n * ChunkSize <= m * ChunkSize
BY CircularAssumption, SMT

(* The place of the byte n of a row of chunks.                             *)
LEMMA ChunkQuotient ==
  ASSUME NEW n \in Nat
  PROVE  /\ n \div ChunkSize \in Nat
         /\ n % ChunkSize \in Offsets
         /\ n = (n \div ChunkSize) * ChunkSize + (n % ChunkSize)
<1>1. ASSUME NEW c \in Nat \ {0}, NEW d, d = n \div c
      PROVE  d \in Nat /\ n % c \in 0 .. c - 1 /\ n % c = n - d * c
  <2>1. d \in Nat /\ n % c \in 0 .. c - 1
    BY <1>1, SMT
  <2>2. n % c = n - d * c
    BY <1>1, <2>1, SMTT(30)
  <2>. QED
    BY <2>1, <2>2
<1> DEFINE d == n \div ChunkSize
<1>2. d \in Nat /\ n % ChunkSize \in 0 .. ChunkSize - 1 /\ n % ChunkSize = n - d * ChunkSize
  BY <1>1, CircularAssumption
<1>3. d * ChunkSize \in Nat
  <2>. HIDE DEF d
  <2>. QED
    BY <1>2, ChunkProduct
<1>. HIDE DEF d
<1>4. n = d * ChunkSize + (n % ChunkSize)
  BY <1>2, <1>3
<1>. QED
  BY <1>2, <1>4 DEF Offsets, d

LEMMA ChunkBelow ==
  ASSUME NEW n \in Nat, NEW q \in Nat
  PROVE  n \div ChunkSize < q <=> n < q * ChunkSize
<1> DEFINE d == n \div ChunkSize
           r == n % ChunkSize
<1>1. d \in Nat /\ r \in 0 .. ChunkSize - 1 /\ n = d * ChunkSize + r /\ ChunkSize \in Nat
  BY ChunkQuotient, CircularAssumption DEF Offsets
<1>. HIDE DEF d, r
<1>2. CASE d < q
  <2>1. (d + 1) * ChunkSize <= q * ChunkSize
    BY <1>1, <1>2, ChunkProductGrows
  <2>2. (d + 1) * ChunkSize = d * ChunkSize + ChunkSize /\ d * ChunkSize \in Nat
    BY <1>1, ChunkProduct
  <2>. QED
    BY <1>1, <1>2, <2>1, <2>2, ChunkProduct DEF d
<1>3. CASE ~(d < q)
  <2>1. q * ChunkSize <= d * ChunkSize
    BY <1>1, <1>3, ChunkProductGrows
  <2>. QED
    BY <1>1, <1>3, <2>1, ChunkProduct DEF d
<1>. QED
  BY <1>2, <1>3

LEMMA ChunkLast ==
  ASSUME NEW n \in Nat, NEW q \in Nat, q * ChunkSize <= n, n < q * ChunkSize + ChunkSize
  PROVE  n % ChunkSize = n - q * ChunkSize
<1>1. n < (q + 1) * ChunkSize /\ q * ChunkSize \in Nat
  BY ChunkProduct
<1>2. n \div ChunkSize \in Nat /\ n \div ChunkSize < q + 1 /\ ~(n \div ChunkSize < q)
  BY <1>1, ChunkBelow, ChunkQuotient
<1>3. n \div ChunkSize = q
  BY <1>2
<1>4. n = q * ChunkSize + (n % ChunkSize) /\ n % ChunkSize \in Int
  BY <1>3, ChunkQuotient DEF Offsets
<1>. QED
  BY <1>1, <1>4

(* The element c of a FIFO.                                                *)
LEMMA SlotAt ==
  ASSUME NEW h \in Index, NEW t \in Index, NEW c \in 0 .. Length(h, t) - 1
  PROVE  /\ (h + c) % Capacity \in Held(h, t)
         /\ Length(h, (h + c) % Capacity) = c
<1>1. Length(h, t) \in Nat /\ Length(h, t) < Capacity
  BY LengthLinear, CapacityFacts DEF Index
<1> DEFINE x == h + c
<1>2. Capacity \in Nat \ {0} /\ x \in -Capacity .. 2 * Capacity - 1 /\ x \in Nat
  BY <1>1, CapacityFacts DEF Index
<1>3. x % Capacity = IF x < 0 THEN x + Capacity ELSE IF x >= Capacity THEN x - Capacity ELSE x
  <2>. HIDE DEF x
  <2>. QED
    BY <1>2, ModOneLap
<1>4. x % Capacity \in Index
  BY <1>1, <1>2, <1>3, CapacityFacts DEF Index
<1>5. Length(h, x % Capacity) =
        IF x % Capacity >= h THEN (x % Capacity) - h
                              ELSE (x % Capacity) - h + Capacity
  BY <1>4, LengthLinear
<1>6. Length(h, x % Capacity) = c
  BY <1>1, <1>2, <1>3, <1>5, CapacityFacts DEF Index
<1>. QED
  BY <1>1, <1>4, <1>6 DEF Held

(* The length of a FIFO.                                                   *)
LEMMA LengthType ==
  ASSUME NEW h \in Index, NEW t \in Index
  PROVE  Length(h, t) \in Nat
BY LengthLinear, CapacityFacts DEF Index

(* How the lengths change when the head or the tail moves.                 *)
LEMMA LengthShrink ==
  ASSUME NEW h \in Index, NEW t \in Index, h # t
  PROVE  /\ Length(increment(h), t) = Length(h, t) - 1
         /\ \A i \in Held(increment(h), t) : Length(increment(h), i) = Length(h, i) - 1
<1>1. increment(h) \in Index /\ increment(h) = IF h + 1 = Capacity THEN 0 ELSE h + 1
  BY IncrementLinear
<1>2. ASSUME NEW i \in Index, i # h
      PROVE  Length(increment(h), i) = Length(h, i) - 1
  <2>1. Length(increment(h), i) = IF i >= increment(h) THEN i - increment(h) ELSE i - increment(h) + Capacity
    BY <1>1, LengthLinear
  <2>2. Length(h, i) = IF i >= h THEN i - h ELSE i - h + Capacity
    BY LengthLinear
  <2>. QED
    BY <1>1, <1>2, <2>1, <2>2, CapacityFacts DEF Index
<1>3. \A i \in Held(increment(h), t) : i \in Index /\ i # h
  BY HeldShrink, HeldType
<1>. QED
  BY <1>2, <1>3

LEMMA LengthGrow ==
  ASSUME NEW h \in Index, NEW t \in Index, increment(t) # h
  PROVE  Length(h, increment(t)) = Length(h, t) + 1
<1>1. increment(t) \in Index /\ increment(t) = IF t + 1 = Capacity THEN 0 ELSE t + 1
  BY IncrementLinear
<1>2. Length(h, increment(t)) = IF increment(t) >= h THEN increment(t) - h ELSE increment(t) - h + Capacity
  BY <1>1, LengthLinear
<1>3. Length(h, t) = IF t >= h THEN t - h ELSE t - h + Capacity
  BY LengthLinear
<1>. QED
  BY <1>1, <1>2, <1>3, CapacityFacts DEF Index

-----------------------------------------------------------------------------
(***************************************************************************)
(* The inductive invariant of the content: which bytes of the stream each  *)
(* chunk holds.  The bytes in full chunks end where those of push_chunk    *)
(* begin; a thread about to put a chunk has filled or emptied it.          *)
(***************************************************************************)
(* The bytes of the stream before the first of push_chunk, and before the  *)
(* first of the full chunks.                                               *)
FullEnd == pushed - PushPart
FullStart == FullEnd - FullLength * ChunkSize

(* Between two copies of a call a thread's chunk is neither used up nor    *)
(* full; one that it gives away is.                                        *)
SizeKnows ==
  /\ push_pc \in {"offer", "put", "publish"} => push_chunk_size = ChunkSize
  /\ push_pc \in {"idle", "loop"} /\ push_chunk # NoChunk => push_chunk_size < ChunkSize
  /\ pop_pc \in {"offer", "put", "publish"} => pop_chunk_size = 0
  /\ pop_pc \in {"idle", "loop"} /\ pop_chunk # NoChunk => pop_chunk_size > 0

(* What pop_chunk, the full chunks in their order, and push_chunk hold.    *)
PopHas ==
  \A o \in Offsets :
    PopPart > 0 /\ o >= PopFrom => content[pop_chunk][o] = FullStart - ChunkSize + o + 1

FullHave ==
  \A i \in Held(full_head, full_tail) : \A o \in Offsets :
    content[full_array[i]][o] = FullStart + Length(full_head, i) * ChunkSize + o + 1

PushHas ==
  \A o \in Offsets : o < PushPart => content[push_chunk][o] = FullEnd + o + 1

DataInv ==
  /\ SizeKnows
  /\ PopHas
  /\ FullHave
  /\ PushHas

(* How many bytes are on their way.                                        *)
Waiting == PopPart + FullLength * ChunkSize + PushPart

Parts ==
  /\ PopPart \in 0 .. ChunkSize
  /\ PushPart \in 0 .. ChunkSize
  /\ FullLength \in Nat
  /\ FullLength * ChunkSize \in Nat
  /\ FullEnd \in Int /\ FullStart \in Int
  /\ Waiting \in Nat
  /\ pushed \in Nat /\ ChunkSize \in Nat \ {0}
  /\ PopPart > 0 => PopFrom = ChunkSize - PopPart

LEMMA PartTypes == TypeOK => Parts
<1>. SUFFICES ASSUME TypeOK
              PROVE  Parts
  OBVIOUS
<1>1. /\ PopPart \in 0 .. ChunkSize /\ PushPart \in 0 .. ChunkSize
      /\ pushed \in Nat /\ ChunkSize \in Nat \ {0}
      /\ PopPart > 0 => PopFrom = ChunkSize - PopPart
  BY CircularAssumption DEF TypeOK, PopPart, PushPart, PopFrom
<1>2. FullLength \in Nat
  <2>1. full_head \in Index /\ full_tail \in Index
    BY DEF TypeOK
  <2>. QED
    BY <2>1, LengthLinear, CapacityFacts DEF FullLength, Index
<1>3. FullLength * ChunkSize \in Nat
  BY <1>2, ChunkProduct
<1>. HIDE DEF PopPart, PushPart, FullLength, PopFrom
<1>. QED
  BY <1>1, <1>2, <1>3 DEF Parts, FullEnd, FullStart, Waiting

LEMMA PartTypesNext == TypeOK' => Parts'
BY PartTypes, PTL

(* The refinement mapping: the last Waiting bytes of the stream.           *)
QueueShape == Queue = Run(pushed - Waiting, Waiting)

LEMMA QueueIsRun == TypeOK /\ DataInv => QueueShape
<1>. SUFFICES ASSUME TypeOK, DataInv
              PROVE  QueueShape
  OBVIOUS
<1>1. /\ PopPart \in 0 .. ChunkSize
      /\ PushPart \in 0 .. ChunkSize
      /\ FullLength \in Nat
      /\ FullLength * ChunkSize \in Nat
      /\ FullStart \in Int
      /\ Waiting \in Nat
      /\ pushed \in Nat /\ ChunkSize \in Nat \ {0}
      /\ PopPart > 0 => PopFrom = ChunkSize - PopPart
  BY PartTypes DEF Parts
<1>2. /\ FullEnd = pushed - PushPart
      /\ FullStart = FullEnd - FullLength * ChunkSize
      /\ Waiting = PopPart + FullLength * ChunkSize + PushPart
  BY DEF FullEnd, FullStart, Waiting
<1>3. ASSUME NEW k \in 0 .. Waiting - 1
      PROVE  ByteAt(k) = pushed - Waiting + (k + 1)
  <2> DEFINE n == k - PopPart
             c == n \div ChunkSize
  <2>1. CASE k < PopPart
    <3>1. ByteAt(k) = content[pop_chunk][PopFrom + k]
      BY <1>1, <2>1 DEF ByteAt
    <3>2. PopFrom + k \in Offsets /\ PopFrom + k >= PopFrom /\ PopPart > 0
      BY <1>1, <2>1 DEF Offsets
    <3>3. content[pop_chunk][PopFrom + k] = FullStart - ChunkSize + (PopFrom + k) + 1
      BY <3>2 DEF DataInv, PopHas
    <3>. QED
      BY <1>1, <1>2, <3>1, <3>2, <3>3
  <2>2. CASE k >= PopPart /\ c < FullLength
    <3> DEFINE i == (full_head + c) % Capacity
    <3>1. ByteAt(k) = content[full_array[i]][n % ChunkSize]
      <4>1. ~(k < PopPart)
        BY <1>1, <2>2
      <4>. QED
        BY <2>2, <4>1 DEF ByteAt
    <3>2. n \in Nat
      BY <1>1, <2>2
    <3>3. c \in Nat /\ n % ChunkSize \in Offsets /\ n = c * ChunkSize + (n % ChunkSize)
      <4>. HIDE DEF n
      <4>. QED
        BY <3>2, ChunkQuotient
    <3>4. i \in Held(full_head, full_tail) /\ Length(full_head, i) = c
      <4>1. c \in 0 .. Length(full_head, full_tail) - 1
        <5>. HIDE DEF c
        <5>. QED
          BY <1>1, <2>2, <3>3 DEF FullLength
      <4>. HIDE DEF c
      <4>. QED
        BY <4>1, SlotAt DEF TypeOK
    <3>5. content[full_array[i]][n % ChunkSize] = FullStart + c * ChunkSize + (n % ChunkSize) + 1
      <4>. HIDE DEF n, c, i
      <4>. QED
        BY <3>3, <3>4 DEF DataInv, FullHave
    <3>6. c * ChunkSize \in Nat /\ n % ChunkSize \in Nat
      <4>. HIDE DEF n, c
      <4>. QED
        BY <3>3, ChunkProduct DEF Offsets
    <3>7. FullStart + c * ChunkSize + (n % ChunkSize) + 1 = FullStart + n + 1
      <4> DEFINE x == c * ChunkSize
                 r == n % ChunkSize
      <4>1. n = x + r /\ x \in Nat /\ r \in Nat /\ FullStart \in Int
        BY <1>1, <3>3, <3>6
      <4>. HIDE DEF n, c, x, r
      <4>2. FullStart + x + r + 1 = FullStart + n + 1
        BY <4>1
      <4>. QED
        BY <4>2 DEF x, r
    <3>8. FullStart + n + 1 = pushed - Waiting + (k + 1)
      BY <1>1, <1>2
    <3>. QED
      BY <3>1, <3>5, <3>7, <3>8
  <2>3. CASE k >= PopPart /\ ~(c < FullLength)
    <3>1. n \in Nat
      BY <1>1, <2>3
    <3>2. ByteAt(k) = content[push_chunk][n % ChunkSize]
      <4>1. ~(k < PopPart)
        BY <1>1, <2>3
      <4>. QED
        BY <2>3, <4>1 DEF ByteAt
    <3>3. FullLength * ChunkSize <= n
      <4>. HIDE DEF n
      <4>. QED
        BY <1>1, <2>3, <3>1, ChunkBelow
    <3>4. n < FullLength * ChunkSize + PushPart
      BY <1>1, <1>2
    <3>5. n % ChunkSize = n - FullLength * ChunkSize
      <4>. HIDE DEF n, c
      <4>1. n < FullLength * ChunkSize + ChunkSize
        BY <1>1, <3>1, <3>4
      <4>. QED
        BY <1>1, <3>1, <3>3, <4>1, ChunkLast
    <3>6. n % ChunkSize \in Offsets /\ n % ChunkSize < PushPart
      <4>. HIDE DEF n
      <4>. QED
        BY <1>1, <3>1, <3>3, <3>4, <3>5 DEF Offsets
    <3>7. content[push_chunk][n % ChunkSize] = FullEnd + (n % ChunkSize) + 1
      <4>. HIDE DEF n
      <4>. QED
        BY <3>6 DEF DataInv, PushHas
    <3>. QED
      BY <1>1, <1>2, <3>2, <3>5, <3>7
  <2>. QED
    BY <1>1, <2>1, <2>2, <2>3
<1>4. Queue = [k \in 1 .. Waiting |-> ByteAt(k - 1)]
  BY DEF Queue, Waiting
<1>5. \A k \in 1 .. Waiting : ByteAt(k - 1) = (pushed - Waiting) + k
  <2>. SUFFICES ASSUME NEW k \in 1 .. Waiting
                PROVE  ByteAt(k - 1) = (pushed - Waiting) + k
    OBVIOUS
  <2>1. k - 1 \in 0 .. Waiting - 1
    BY <1>1
  <2>2. ByteAt(k - 1) = pushed - Waiting + ((k - 1) + 1)
    BY <1>3, <2>1
  <2>. QED
    BY <1>1, <2>2
<1>. QED
  BY <1>4, <1>5 DEF QueueShape, Run

LEMMA QueueIsRunNext == TypeOK' /\ DataInv' => QueueShape'
BY QueueIsRun, PTL

-----------------------------------------------------------------------------
(***************************************************************************)
(* Steps.                                                                  *)
(***************************************************************************)
LEMMA InitData == Init => DataInv
<1>. SUFFICES ASSUME Init
              PROVE  DataInv
  OBVIOUS
<1>1. full_head = 0 /\ full_tail = 0 /\ 0 \in Index
  BY CapacityFacts DEF Init, Index
<1>2. Held(full_head, full_tail) = {}
  BY <1>1, HeldEmpty
<1>3. PopPart = 0 /\ PushPart = 0
  BY DEF Init, PopPart, PushPart
<1>4. SizeKnows
  BY CircularAssumption DEF Init, SizeKnows
<1>5. PopHas /\ PushHas
  BY <1>3 DEF PopHas, PushHas, Offsets
<1>. QED
  BY <1>2, <1>4, <1>5 DEF DataInv, FullHave

(* A step that leaves the bytes on their way alone.                        *)
LEMMA DataStays ==
  ASSUME TypeOK, TypeOK', DataInv, SizeKnows',
         UNCHANGED <<content, full_head, full_tail, pushed>>,
         PopPart' = PopPart, PushPart' = PushPart,
         PopPart > 0 => UNCHANGED <<pop_chunk, pop_chunk_size>>,
         PushPart > 0 => UNCHANGED push_chunk,
         \A i \in Held(full_head, full_tail) : full_array'[i] = full_array[i]
  PROVE  DataInv' /\ UNCHANGED Queue
<1>1. FullLength' = FullLength
  BY DEF FullLength
<1>2. UNCHANGED <<FullEnd, FullStart, Waiting>>
  BY <1>1 DEF FullEnd, FullStart, Waiting
<1>3. PopHas'
  <2>1. PopPart > 0 => PopFrom' = PopFrom
    BY DEF PopFrom
  <2>. QED
    BY <1>2, <2>1 DEF DataInv, PopHas
<1>4. FullHave'
  BY <1>2 DEF DataInv, FullHave
<1>5. PushHas'
  <2>. SUFFICES ASSUME NEW o \in Offsets, o < PushPart'
                PROVE  (content[push_chunk][o] = FullEnd + o + 1)'
    BY DEF PushHas
  <2>1. PushPart > 0
    BY PartTypes DEF Parts, Offsets
  <2>. QED
    BY <1>2, <2>1 DEF DataInv, PushHas
<1>6. DataInv'
  BY <1>3, <1>4, <1>5 DEF DataInv
<1>7. Queue = Run(pushed - Waiting, Waiting)
  BY QueueIsRun DEF QueueShape
<1>8. Queue' = Run(pushed' - Waiting', Waiting')
  BY <1>6, QueueIsRunNext DEF QueueShape
<1>. QED
  BY <1>2, <1>6, <1>7, <1>8

(* The steps of Push that only look, wait or hold a slot.                  *)
LEMMA PushQuiet ==
  ASSUME IInv, IInv', DataInv,
         \/ \E size \in 1 .. MaxCall : Push(size)
         \/ PushDone \/ PushNeedsChunk \/ PushTakes \/ PushReleases
         \/ PushOffers \/ PushPuts
  PROVE  DataInv' /\ UNCHANGED <<Queue, pushed, handed>>
<1>1. /\ UNCHANGED <<content, full_head, full_tail, pushed, handed>>
      /\ UNCHANGED <<pop_pc, pop_chunk, pop_chunk_size>>
  BY DEF Push, PushDone, PushNeedsChunk, PushTakes, PushReleases, PushOffers,
         PushPuts, fullVars, popVars
<1>2. PopPart' = PopPart
  BY <1>1 DEF PopPart
<1>3. SizeKnows' /\ PushPart' = PushPart /\ (PushPart > 0 => UNCHANGED push_chunk)
  <2>1. CASE \/ \E size \in 1 .. MaxCall : Push(size)
             \/ PushDone \/ PushNeedsChunk
    <3>1. /\ push_pc \in {"idle", "loop"}
          /\ push_pc' \in {"idle", "loop", "take"}
          /\ UNCHANGED <<push_chunk, push_chunk_size>>
      BY <2>1 DEF Push, PushDone, PushNeedsChunk
    <3>. QED
      BY <1>1, <3>1 DEF DataInv, SizeKnows, PushPart
  <2>2. CASE PushTakes
    <3>1. push_pc = "take" /\ push_chunk = NoChunk /\ push_pc' = "release"
      BY <2>2 DEF PushTakes, IInv, PushKnows
    <3>. QED
      BY <1>1, <3>1 DEF DataInv, SizeKnows, PushPart
  <2>3. CASE PushReleases
    <3>1. /\ push_pc = "release" /\ push_pc' = "loop"
          /\ push_chunk_size' = 0 /\ push_chunk' = push_chunk
      BY <2>3 DEF PushReleases
    <3>. QED
      BY <1>1, <3>1, CircularAssumption DEF DataInv, SizeKnows, PushPart
  <2>4. CASE PushOffers \/ PushPuts
    <3>1. /\ push_pc \in {"offer", "put"}
          /\ push_pc' \in {"put", "publish", "failed"}
          /\ UNCHANGED <<push_chunk, push_chunk_size>>
      BY <2>4 DEF PushOffers, PushPuts
    <3>. QED
      BY <1>1, <3>1 DEF DataInv, SizeKnows, PushPart
  <2>. QED
    BY <2>1, <2>2, <2>3, <2>4
<1>4. \A i \in Held(full_head, full_tail) : full_array'[i] = full_array[i]
  <2>1. CASE PushPuts
    <3>1. /\ full_head \in Index /\ full_tail \in Index
          /\ full_array \in [Index -> Chunks \cup {NoChunk}]
      BY DEF IInv, TypeOK
    <3>2. full_tail \notin Held(full_head, full_tail) /\ Held(full_head, full_tail) \subseteq Index
      BY <3>1, TailNotHeld, HeldType
    <3>. QED
      BY <2>1, <3>1, <3>2 DEF PushPuts
  <2>2. CASE ~PushPuts
    BY <2>2 DEF Push, PushDone, PushNeedsChunk, PushTakes, PushReleases, PushOffers, fullVars
  <2>. QED
    BY <2>1, <2>2
<1>5. TypeOK /\ TypeOK'
  BY DEF IInv
<1>. QED
  BY <1>1, <1>2, <1>3, <1>4, <1>5, DataStays

(* ... and those of Pop.                                                   *)
LEMMA PopQuiet ==
  ASSUME IInv, IInv', DataInv,
         \/ \E size \in 1 .. MaxCall : Pop(size)
         \/ PopDone \/ PopNeedsChunk \/ PopTakes
         \/ PopOffers \/ PopPuts \/ PopPublishes
  PROVE  DataInv' /\ UNCHANGED <<Queue, pushed, handed>>
<1>1. /\ UNCHANGED <<content, full_head, full_tail, full_array, pushed, handed>>
      /\ UNCHANGED <<push_pc, push_chunk, push_chunk_size>>
  BY DEF Pop, PopDone, PopNeedsChunk, PopTakes, PopOffers, PopPuts, PopPublishes,
         fullVars, pushVars
<1>2. PushPart' = PushPart
  BY <1>1 DEF PushPart
<1>3. SizeKnows' /\ PopPart' = PopPart /\ (PopPart > 0 => UNCHANGED <<pop_chunk, pop_chunk_size>>)
  <2>1. CASE \/ \E size \in 1 .. MaxCall : Pop(size)
             \/ PopDone \/ PopNeedsChunk
    <3>1. /\ pop_pc \in {"idle", "loop"}
          /\ pop_pc' \in {"idle", "loop", "take"}
          /\ UNCHANGED <<pop_chunk, pop_chunk_size>>
      BY <2>1 DEF Pop, PopDone, PopNeedsChunk
    <3>. QED
      BY <1>1, <3>1 DEF DataInv, SizeKnows, PopPart
  <2>2. CASE PopTakes
    <3>1. pop_pc = "take" /\ pop_chunk = NoChunk /\ pop_pc' = "release"
      BY <2>2 DEF PopTakes, IInv, PopKnows
    <3>. QED
      BY <1>1, <3>1 DEF DataInv, SizeKnows, PopPart
  <2>3. CASE PopOffers \/ PopPuts
    <3>1. /\ pop_pc \in {"offer", "put"}
          /\ pop_pc' \in {"put", "publish", "failed"}
          /\ UNCHANGED <<pop_chunk, pop_chunk_size>>
      BY <2>3 DEF PopOffers, PopPuts
    <3>. QED
      BY <1>1, <3>1 DEF DataInv, SizeKnows, PopPart
  <2>4. CASE PopPublishes
    <3>1. /\ pop_pc = "publish" /\ pop_pc' = "loop"
          /\ pop_chunk_size = 0 /\ pop_chunk' = NoChunk
      BY <2>4 DEF PopPublishes, DataInv, SizeKnows
    <3>. QED
      BY <1>1, <3>1 DEF DataInv, SizeKnows, PopPart
  <2>. QED
    BY <2>1, <2>2, <2>3, <2>4
<1>4. TypeOK /\ TypeOK'
  BY DEF IInv
<1>. QED
  BY <1>1, <1>2, <1>3, <1>4, DataStays

(* The chunks from full_head on are apart, also the one that Pop has read  *)
(* and not yet released.                                                   *)
LEMMA FullApart ==
  ASSUME IInv
  PROVE  /\ Held(full_head, full_tail) \subseteq Index
         /\ \A i \in Held(full_head, full_tail) :
              /\ full_array[i] \in Chunks
              /\ full_array[i] # push_chunk
              /\ pop_pc # "release" => full_array[i] # pop_chunk
         /\ \A i, j \in Held(full_head, full_tail) : full_array[i] = full_array[j] => i = j
<1> DEFINE H == Held(full_head, full_tail)
<1>1. full_head \in Index /\ full_tail \in Index /\ H \subseteq Index
  BY HeldType DEF IInv, TypeOK
<1>2. /\ \A i \in FullSlots : /\ full_array[i] \in Chunks
                              /\ full_array[i] # push_chunk
                              /\ full_array[i] # pop_chunk
      /\ \A i, j \in FullSlots : full_array[i] = full_array[j] => i = j
      /\ push_chunk \in Chunks => push_chunk # pop_chunk
  BY DEF IInv, ChunksOwned, Owned
<1>3. CASE pop_pc # "release"
  <2>1. FullSlots = H
    BY <1>3 DEF FullSlots, FullHead
  <2>. QED
    BY <1>1, <1>2, <1>3, <2>1
<1>4. CASE pop_pc = "release"
  <2>1. full_head # full_tail /\ pop_chunk = full_array[full_head] /\ pop_chunk # NoChunk
    BY <1>4 DEF IInv, PopKnows
  <2>2. FullSlots = H \ {full_head}
    BY <1>1, <1>4, <2>1, HeldShrink DEF FullSlots, FullHead
  <2>3. pop_chunk \in Chunks /\ (push_chunk \in Chunks \cup {NoChunk})
    BY <2>1 DEF IInv, TypeOK
  <2>4. pop_chunk # push_chunk
    BY <1>2, <2>1, <2>3
  <2>. HIDE DEF H
  <2>5. \A i \in H : full_array[i] \in Chunks /\ full_array[i] # push_chunk
    BY <1>2, <2>1, <2>2, <2>3, <2>4
  <2>6. \A i, j \in H : full_array[i] = full_array[j] => i = j
    BY <1>2, <2>1, <2>2
  <2>. QED
    BY <1>1, <1>4, <2>5, <2>6 DEF H
<1>. QED
  BY <1>3, <1>4

(* There are never more full chunks than the RTP thread and the callback   *)
(* leave to the queue: more would have to share a chunk.                   *)
LEMMA FullFits ==
  ASSUME IInv, push_chunk # NoChunk
  PROVE  /\ FullLength + 1 <= ChunksCount
         /\ PopPart > 0 => FullLength + 2 <= ChunksCount
<1> DEFINE S == 0 .. FullLength - 1
           slot(k) == (full_head + k) % Capacity
           f == [k \in S |-> full_array[slot(k)]]
<1>1. /\ FullLength \in Nat /\ full_head \in Index /\ full_tail \in Index
      /\ push_chunk \in Chunks /\ pop_chunk \in Chunks \cup {NoChunk}
  BY PartTypes DEF Parts, IInv, TypeOK
<1>2. IsFiniteSet(S) /\ Cardinality(S) = FullLength
  BY <1>1, FS_Interval
<1>3. ASSUME NEW k \in S
      PROVE  slot(k) \in Held(full_head, full_tail) /\ Length(full_head, slot(k)) = k
  BY <1>1, SlotAt DEF FullLength
<1>4. \A k \in S : /\ f[k] \in Chunks /\ f[k] # push_chunk
                   /\ pop_pc # "release" => f[k] # pop_chunk
  <2>. HIDE DEF slot
  <2>. QED
    BY <1>3, FullApart
<1>5. \A k, l \in S : f[k] = f[l] => k = l
  <2>. SUFFICES ASSUME NEW k \in S, NEW l \in S, f[k] = f[l]
                PROVE  k = l
    OBVIOUS
  <2>1. /\ slot(k) \in Held(full_head, full_tail) /\ Length(full_head, slot(k)) = k
        /\ slot(l) \in Held(full_head, full_tail) /\ Length(full_head, slot(l)) = l
    BY <1>3
  <2>2. full_array[slot(k)] = full_array[slot(l)]
    OBVIOUS
  <2>. HIDE DEF slot
  <2>3. slot(k) = slot(l)
    BY <2>1, <2>2, FullApart
  <2>. QED
    BY <2>1, <2>3
<1>6. ASSUME NEW T, IsFiniteSet(T), \A k \in S : f[k] \in T
      PROVE  FullLength <= Cardinality(T)
  <2>. HIDE DEF S, slot
  <2>1. f \in [S -> T]
    BY <1>6
  <2>2. Cardinality(T) \in Nat
    BY <1>6, FS_CardinalityType
  <2>3. ~(Cardinality(T) < Cardinality(S))
    <3>. SUFFICES ASSUME Cardinality(T) < Cardinality(S)
                  PROVE  FALSE
      OBVIOUS
    <3>. HIDE DEF f
    <3>1. \E k, l \in S : k # l /\ f[k] = f[l]
      BY <1>2, <1>6, <2>1, FS_PigeonHole
    <3>. QED
      BY <1>5, <3>1
  <2>. QED
    BY <1>1, <1>2, <2>2, <2>3
<1>. HIDE DEF S, f, slot
<1>7. IsFiniteSet(Chunks) /\ Cardinality(Chunks) = ChunksCount
  BY CapacityFacts, FS_Interval DEF Chunks
<1>8. /\ IsFiniteSet(Chunks \ {push_chunk})
      /\ Cardinality(Chunks \ {push_chunk}) = ChunksCount - 1
  BY <1>1, <1>7, FS_RemoveElement
<1>9. FullLength + 1 <= ChunksCount
  <2>1. FullLength <= ChunksCount - 1
    BY <1>4, <1>6, <1>8
  <2>. QED
    BY <1>1, <2>1, CapacityFacts
<1>10. ASSUME PopPart > 0
       PROVE  FullLength + 2 <= ChunksCount
  <2>1. pop_chunk # NoChunk /\ pop_pc # "release"
    BY <1>10 DEF PopPart
  <2>2. pop_chunk \in Chunks \ {push_chunk}
    BY <1>1, <2>1 DEF IInv, ChunksOwned, Owned
  <2> DEFINE T == (Chunks \ {push_chunk}) \ {pop_chunk}
  <2>3. IsFiniteSet(T) /\ Cardinality(T) = (ChunksCount - 1) - 1
    BY <1>8, <2>2, FS_RemoveElement
  <2>4. \A k \in S : f[k] \in T
    BY <1>4, <2>1
  <2>. HIDE DEF T
  <2>5. FullLength <= (ChunksCount - 1) - 1
    BY <1>6, <2>3, <2>4
  <2>. QED
    BY <1>1, <2>5, CapacityFacts
<1>. QED
  BY <1>9, <1>10

(* Releasing the slot turns the oldest full chunk into the one to be       *)
(* handed out.                                                             *)
LEMMA PopReleasesData ==
  ASSUME IInv, IInv', DataInv, PopReleases
  PROVE  DataInv' /\ UNCHANGED <<Queue, pushed, handed>>
<1>1. /\ full_head \in Index /\ full_tail \in Index /\ full_head # full_tail
      /\ pop_chunk = full_array[full_head] /\ pop_chunk # NoChunk
  BY DEF IInv, TypeOK, PopReleases, PopKnows
<1>2. /\ UNCHANGED <<full_tail, full_array, content, pop_chunk, pushed, handed>>
      /\ UNCHANGED <<push_pc, push_chunk, push_chunk_size>>
      /\ full_head' = increment(full_head)
      /\ pop_chunk_size' = ChunkSize
      /\ pop_pc = "release" /\ pop_pc' = "loop"
  BY DEF PopReleases, pushVars
<1>3. Parts /\ Parts'
  BY PartTypes, PartTypesNext DEF IInv
<1>4. /\ PopPart = 0 /\ PopPart' = ChunkSize /\ PopFrom' = 0
      /\ PushPart' = PushPart
  BY <1>1, <1>2, <1>3 DEF PopPart, PopFrom, PushPart, Parts
<1>5. FullLength' = FullLength - 1
  BY <1>1, <1>2, LengthShrink DEF FullLength
<1>6. FullLength * ChunkSize = FullLength' * ChunkSize + ChunkSize
  <2>1. FullLength = FullLength' + 1 /\ FullLength' \in Nat
    BY <1>3, <1>5 DEF Parts
  <2>. QED
    BY <2>1, ChunkProduct
<1>7. FullEnd' = FullEnd /\ FullStart' = FullStart + ChunkSize /\ Waiting' = Waiting
  <2> DEFINE x == FullLength * ChunkSize
             y == FullLength' * ChunkSize
  <2>1. /\ FullEnd = pushed - PushPart /\ FullEnd' = pushed' - PushPart'
        /\ FullStart = FullEnd - x /\ FullStart' = FullEnd' - y
        /\ Waiting = PopPart + x + PushPart /\ Waiting' = PopPart' + y + PushPart'
    BY DEF FullEnd, FullStart, Waiting
  <2>2. /\ FullLength \in Nat /\ FullLength' \in Nat /\ ChunkSize \in Nat
        /\ PopPart \in Nat /\ PushPart \in Nat /\ pushed \in Nat
    BY <1>3 DEF Parts
  <2>3. x \in Nat /\ y \in Nat /\ x = y + ChunkSize
    BY <1>6, <2>2, ChunkProduct
  <2>. HIDE DEF x, y
  <2>. QED
    BY <1>2, <1>4, <2>1, <2>2, <2>3
<1>8. SizeKnows'
  BY <1>2, <1>3 DEF DataInv, SizeKnows, Parts
<1>9. PopHas'
  <2>. SUFFICES ASSUME NEW o \in Offsets
                PROVE  content'[pop_chunk'][o] = FullStart' - ChunkSize + o + 1
    BY DEF PopHas
  <2>1. full_head \in Held(full_head, full_tail) /\ Length(full_head, full_head) = 0
    BY <1>1, HeldShrink, LengthLinear, CapacityFacts DEF Index
  <2>2. content[full_array[full_head]][o] = FullStart + 0 * ChunkSize + o + 1
    BY <2>1 DEF DataInv, FullHave
  <2>3. o \in Int
    BY DEF Offsets
  <2>. QED
    BY <1>1, <1>2, <1>3, <1>7, <2>2, <2>3 DEF Parts
<1>10. FullHave'
  <2>. SUFFICES ASSUME NEW i \in Held(full_head', full_tail'), NEW o \in Offsets
                PROVE  content'[full_array'[i]][o] = FullStart' + Length(full_head', i) * ChunkSize + o + 1
    BY DEF FullHave
  <2> DEFINE n == Length(full_head', i)
  <2>1. i \in Held(full_head, full_tail) /\ i \in Index /\ full_head' \in Index
    BY <1>1, <1>2, HeldShrink, HeldType, IncrementLinear
  <2>2. n = Length(full_head, i) - 1
    BY <1>1, <1>2, LengthShrink
  <2>3. n \in Nat /\ Length(full_head, i) = n + 1
    <3>1. n \in Nat /\ Length(full_head, i) \in Nat
      BY <1>1, <2>1, LengthType
    <3>. HIDE DEF n
    <3>. QED
      BY <2>2, <3>1
  <2>4. content[full_array[i]][o] = FullStart + Length(full_head, i) * ChunkSize + o + 1
    BY <2>1 DEF DataInv, FullHave
  <2>. HIDE DEF n
  <2>5. (n + 1) * ChunkSize = n * ChunkSize + ChunkSize /\ n * ChunkSize \in Nat
    BY <2>3, ChunkProduct
  <2>6. o \in Int
    BY DEF Offsets
  <2>7. FullStart + (n + 1) * ChunkSize + o + 1 = FullStart' + n * ChunkSize + o + 1
    BY <1>3, <1>7, <2>5, <2>6 DEF Parts
  <2>. QED
    BY <1>2, <2>3, <2>4, <2>7 DEF n
<1>11. PushHas'
  BY <1>2, <1>4, <1>7 DEF DataInv, PushHas
<1>12. DataInv'
  BY <1>8, <1>9, <1>10, <1>11 DEF DataInv
<1>13. Queue' = Queue
  BY <1>2, <1>7, <1>12, QueueIsRun, QueueIsRunNext DEF QueueShape, IInv
<1>. QED
  BY <1>2, <1>12, <1>13

(* Publishing the tail turns the chunk that was filled into the newest     *)
(* full one.                                                               *)
LEMMA PushPublishesData ==
  ASSUME IInv, IInv', DataInv, PushPublishes
  PROVE  DataInv' /\ UNCHANGED <<Queue, pushed, handed>>
<1>1. /\ full_head \in Index /\ full_tail \in Index /\ increment(full_tail) # full_head
      /\ full_array[full_tail] = push_chunk /\ push_chunk # NoChunk
  BY DEF IInv, TypeOK, PushPublishes, PushKnows
<1>2. /\ UNCHANGED <<full_head, full_array, content, pushed, handed>>
      /\ UNCHANGED <<pop_pc, pop_chunk, pop_chunk_size>>
      /\ full_tail' = increment(full_tail)
      /\ push_chunk' = NoChunk
      /\ push_pc = "publish" /\ push_pc' = "loop"
  BY DEF PushPublishes, popVars
<1>3. Parts /\ Parts'
  BY PartTypes, PartTypesNext DEF IInv
<1>4. /\ PopPart' = PopPart /\ PopFrom' = PopFrom
      /\ PushPart = ChunkSize /\ PushPart' = 0
  BY <1>1, <1>2 DEF PopPart, PopFrom, PushPart, DataInv, SizeKnows
<1>5. FullLength' = FullLength + 1
  BY <1>1, <1>2, LengthGrow DEF FullLength
<1>6. FullLength' * ChunkSize = FullLength * ChunkSize + ChunkSize
  BY <1>3, <1>5, ChunkProduct DEF Parts
<1>7. FullEnd' = FullEnd + ChunkSize /\ FullStart' = FullStart /\ Waiting' = Waiting
  <2> DEFINE x == FullLength * ChunkSize
             y == FullLength' * ChunkSize
  <2>1. /\ FullEnd = pushed - PushPart /\ FullEnd' = pushed' - PushPart'
        /\ FullStart = FullEnd - x /\ FullStart' = FullEnd' - y
        /\ Waiting = PopPart + x + PushPart /\ Waiting' = PopPart' + y + PushPart'
    BY DEF FullEnd, FullStart, Waiting
  <2>2. /\ FullLength \in Nat /\ FullLength' \in Nat /\ ChunkSize \in Nat
        /\ PopPart \in Nat /\ PushPart \in Nat /\ pushed \in Nat
    BY <1>3 DEF Parts
  <2>3. x \in Nat /\ y \in Nat /\ y = x + ChunkSize
    BY <1>6, <2>2, ChunkProduct
  <2>. HIDE DEF x, y
  <2>. QED
    BY <1>2, <1>4, <2>1, <2>2, <2>3
<1>8. SizeKnows'
  BY <1>2 DEF DataInv, SizeKnows
<1>9. PopHas'
  BY <1>2, <1>4, <1>7 DEF DataInv, PopHas
<1>10. FullHave'
  <2>. SUFFICES ASSUME NEW i \in Held(full_head', full_tail'), NEW o \in Offsets
                PROVE  content'[full_array'[i]][o] = FullStart' + Length(full_head', i) * ChunkSize + o + 1
    BY DEF FullHave
  <2>1. i \in Held(full_head, full_tail) \/ i = full_tail
    BY <1>1, <1>2, HeldGrow
  <2>2. CASE i \in Held(full_head, full_tail)
    BY <1>2, <1>7, <2>2 DEF DataInv, FullHave
  <2>3. CASE i = full_tail
    <3>1. content[push_chunk][o] = FullEnd + o + 1
      BY <1>3, <1>4 DEF DataInv, PushHas, Offsets, Parts
    <3>2. o \in Int
      BY DEF Offsets
    <3>3. FullEnd + o + 1 = FullStart + FullLength * ChunkSize + o + 1
      BY <1>3, <3>2 DEF FullStart, Parts
    <3>. QED
      BY <1>1, <1>2, <1>7, <2>3, <3>1, <3>3 DEF FullLength
  <2>. QED
    BY <2>1, <2>2, <2>3
<1>11. PushHas'
  BY <1>4 DEF PushHas, Offsets
<1>12. DataInv'
  BY <1>8, <1>9, <1>10, <1>11 DEF DataInv
<1>13. Queue' = Queue
  BY <1>2, <1>7, <1>12, QueueIsRun, QueueIsRunNext DEF QueueShape, IInv
<1>. QED
  BY <1>2, <1>12, <1>13

(* A copy into push_chunk accepts ToPush bytes: there is room for them,    *)
(* because the chunks that hold bytes are different ones.                  *)
LEMMA PushCopiesRefines ==
  ASSUME IInv, IInv', DataInv, PushCopies
  PROVE  DataInv' /\ Abstract!Next
<1>1. /\ push_chunk \in Chunks /\ push_chunk # NoChunk /\ push_pc = "loop"
      /\ content \in [Chunks -> [Offsets -> Nat]]
      /\ push_left \in Nat /\ push_left > 0 /\ push_chunk_size \in Nat
  BY CircularAssumption DEF IInv, TypeOK, PushCopies
<1>2. Parts /\ Parts'
  BY PartTypes, PartTypesNext DEF IInv
<1>3. push_chunk_size < ChunkSize /\ PushPart = push_chunk_size
  BY <1>1 DEF DataInv, SizeKnows, PushPart
<1>4. ToPush \in 1 .. ChunkSize - push_chunk_size
  BY <1>1, <1>2, <1>3 DEF ToPush, Parts
<1>5. /\ UNCHANGED <<full_head, full_tail, full_array, push_chunk, handed>>
      /\ UNCHANGED <<pop_pc, pop_chunk, pop_chunk_size>>
      /\ pushed' = pushed + ToPush
      /\ push_chunk_size' = push_chunk_size + ToPush
      /\ push_pc' = IF push_chunk_size' = ChunkSize THEN "offer" ELSE "loop"
  BY DEF PushCopies, fullVars, popVars
<1>6. /\ \A c \in Chunks \ {push_chunk} : content'[c] = content[c]
      /\ \A o \in Offsets : content'[push_chunk][o] =
           IF push_chunk_size <= o /\ o < push_chunk_size + ToPush
           THEN pushed + 1 + o - push_chunk_size ELSE content[push_chunk][o]
  <2> DEFINE bytes == [o \in Offsets |->
          IF push_chunk_size <= o /\ o < push_chunk_size + ToPush
          THEN pushed + 1 + o - push_chunk_size
          ELSE content[push_chunk][o]]
  <2>1. content' = [content EXCEPT ![push_chunk] = bytes]
    BY DEF PushCopies
  <2>2. content'[push_chunk] = bytes
    <3>. HIDE DEF bytes
    <3>. QED
      BY <1>1, <2>1
  <2>3. \A c \in Chunks \ {push_chunk} : content'[c] = content[c]
    <3>. HIDE DEF bytes
    <3>. QED
      BY <1>1, <2>1
  <2>. QED
    BY <2>2, <2>3
<1>7. /\ PopPart' = PopPart /\ PopFrom' = PopFrom
      /\ PushPart' = PushPart + ToPush /\ FullLength' = FullLength
  BY <1>1, <1>3, <1>5 DEF PopPart, PopFrom, PushPart, FullLength
<1>8. /\ FullEnd' = FullEnd /\ FullStart' = FullStart
      /\ Waiting' = Waiting + ToPush
  BY <1>2, <1>4, <1>5, <1>7 DEF Parts, FullEnd, FullStart, Waiting
<1>9. SizeKnows'
  BY <1>2, <1>3, <1>4, <1>5 DEF DataInv, SizeKnows, Parts
<1>10. PopHas'
  <2>. SUFFICES ASSUME PopPart > 0
                PROVE  PopHas'
    BY <1>7 DEF PopHas
  <2>1. pop_chunk \in Chunks \ {push_chunk}
    BY <1>1 DEF PopPart, IInv, TypeOK, ChunksOwned, Owned
  <2>2. content'[pop_chunk] = content[pop_chunk]
    BY <1>6, <2>1
  <2>. QED
    BY <1>5, <1>7, <1>8, <2>2 DEF DataInv, PopHas
<1>11. FullHave'
  <2>1. \A i \in Held(full_head, full_tail) : content'[full_array[i]] = content[full_array[i]]
    BY <1>6, FullApart
  <2>. QED
    BY <1>5, <1>8, <2>1 DEF DataInv, FullHave
<1>12. PushHas'
  <2>. SUFFICES ASSUME NEW o \in Offsets, o < PushPart + ToPush
                PROVE  content'[push_chunk][o] = FullEnd + o + 1
    BY <1>5, <1>7, <1>8 DEF PushHas
  <2>1. o \in Nat
    BY <1>2 DEF Offsets, Parts
  <2>2. CASE o < push_chunk_size
    <3>1. content'[push_chunk][o] = content[push_chunk][o]
      BY <1>1, <1>6, <2>1, <2>2
    <3>. QED
      BY <1>3, <2>2, <3>1 DEF DataInv, PushHas
  <2>3. CASE ~(o < push_chunk_size)
    <3>1. content'[push_chunk][o] = pushed + 1 + o - push_chunk_size
      BY <1>1, <1>3, <1>6, <2>1, <2>3
    <3>. QED
      BY <1>1, <1>2, <1>3, <2>1, <3>1 DEF FullEnd, Parts
  <2>. QED
    BY <2>2, <2>3
<1>13. DataInv'
  BY <1>9, <1>10, <1>11, <1>12 DEF DataInv
<1> DEFINE w == Waiting
           a == pushed - Waiting
           n == ToPush
<1>14. /\ a \in Int /\ w \in Nat /\ n \in Nat /\ a + w = pushed
       /\ pushed' - Waiting' = a /\ Waiting' = w + n
  BY <1>2, <1>4, <1>5, <1>8 DEF Parts
<1>15. Queue = Run(a, w) /\ Queue' = Run(a, w + n)
  BY <1>13, <1>14, QueueIsRun, QueueIsRunNext DEF QueueShape, IInv
<1>16. w + n <= ChunksCount * ChunkSize
  <2>1. PushPart + n <= ChunkSize /\ PopPart \in 0 .. ChunkSize
    BY <1>2, <1>3, <1>4 DEF Parts
  <2>2. /\ FullLength \in Nat /\ FullLength * ChunkSize \in Nat
        /\ ChunksCount \in Nat /\ ChunkSize \in Nat
        /\ PushPart \in Nat /\ n \in Nat
    BY <1>2, <1>4, CircularAssumption DEF Parts
  <2>3. CASE PopPart > 0
    <3>1. (FullLength + 1) + 1 <= ChunksCount
      BY <1>1, <2>2, <2>3, FullFits
    <3>2. ((FullLength + 1) + 1) * ChunkSize <= ChunksCount * ChunkSize
      BY <2>2, <3>1, ChunkProductGrows
    <3>3. ((FullLength + 1) + 1) * ChunkSize = FullLength * ChunkSize + ChunkSize + ChunkSize
      BY <2>2, ChunkProduct
    <3>4. ChunksCount * ChunkSize \in Nat
      BY <2>2, ChunkProduct
    <3>. HIDE DEF n
    <3>. QED
      BY <2>1, <2>2, <3>2, <3>3, <3>4 DEF Waiting
  <2>4. CASE ~(PopPart > 0)
    <3>1. FullLength + 1 <= ChunksCount
      BY <1>1, FullFits
    <3>2. (FullLength + 1) * ChunkSize <= ChunksCount * ChunkSize
      BY <2>2, <3>1, ChunkProductGrows
    <3>3. (FullLength + 1) * ChunkSize = FullLength * ChunkSize + ChunkSize
      BY <2>2, ChunkProduct
    <3>4. ChunksCount * ChunkSize \in Nat
      BY <2>2, ChunkProduct
    <3>. HIDE DEF n
    <3>. QED
      BY <2>1, <2>2, <2>4, <3>2, <3>3, <3>4 DEF Waiting
  <2>. QED
    BY <2>3, <2>4
<1>. HIDE DEF a, w
<1>17. Queue' = Queue \o Run(pushed, n)
  <2>. HIDE DEF n
  <2>. QED
    BY <1>14, <1>15, RunAppend
<1>18. Len(Queue) = w
  BY <1>14, <1>15, RunLength
<1>19. Abstract!Accept(n)
  BY <1>5, <1>16, <1>17, <1>18 DEF Abstract!Accept, Run
<1>20. n \in 1 .. ChunksCount * ChunkSize
  <2>1. ChunksCount * ChunkSize \in Nat
    BY CircularAssumption, ChunkProduct
  <2>. HIDE DEF n
  <2>. QED
    BY <1>4, <1>14, <1>16, <2>1 DEF n
<1>. QED
  BY <1>13, <1>19, <1>20 DEF Abstract!Next

(* A copy out of pop_chunk hands over the oldest ToPop bytes.              *)
LEMMA PopCopiesRefines ==
  ASSUME IInv, IInv', DataInv, PopCopies
  PROVE  DataInv' /\ Abstract!Next
<1>1. /\ pop_chunk # NoChunk /\ pop_pc = "loop"
      /\ pop_left \in Nat /\ pop_left > 0
      /\ pop_chunk_size \in 0 .. ChunkSize
  BY CircularAssumption DEF IInv, TypeOK, PopCopies
<1>2. Parts /\ Parts'
  BY PartTypes, PartTypesNext DEF IInv
<1>3. pop_chunk_size > 0 /\ PopPart = pop_chunk_size
  BY <1>1 DEF DataInv, SizeKnows, PopPart
<1>4. ToPop \in 1 .. pop_chunk_size
  BY <1>1, <1>2, <1>3 DEF ToPop, Parts
<1>5. /\ UNCHANGED <<full_head, full_tail, full_array, content, pop_chunk, pushed>>
      /\ UNCHANGED <<push_pc, push_chunk, push_chunk_size>>
      /\ pop_chunk_size' = pop_chunk_size - ToPop
      /\ pop_pc' = IF pop_chunk_size' = 0 THEN "offer" ELSE "loop"
      /\ handed' = [k \in 1 .. ToPop |-> content[pop_chunk][PopFrom + k - 1]]
  BY DEF PopCopies, fullVars, pushVars
<1>6. /\ PopPart' = PopPart - ToPop
      /\ PopFrom' = PopFrom + ToPop
      /\ PushPart' = PushPart /\ FullLength' = FullLength
  BY <1>1, <1>2, <1>3, <1>4, <1>5 DEF PopPart, PopFrom, PushPart, FullLength, Parts
<1>7. /\ FullEnd' = FullEnd /\ FullStart' = FullStart
      /\ Waiting' = Waiting - ToPop
  <2> DEFINE x == FullLength * ChunkSize
             y == FullLength' * ChunkSize
  <2>1. /\ FullEnd = pushed - PushPart /\ FullEnd' = pushed' - PushPart'
        /\ FullStart = FullEnd - x /\ FullStart' = FullEnd' - y
        /\ Waiting = PopPart + x + PushPart /\ Waiting' = PopPart' + y + PushPart'
    BY DEF FullEnd, FullStart, Waiting
  <2>2. /\ x \in Nat /\ y \in Nat /\ ChunkSize \in Nat
        /\ PopPart \in Nat /\ PushPart \in Nat /\ pushed \in Nat
        /\ y = x /\ ToPop \in Int
    BY <1>2, <1>4, <1>6 DEF Parts
  <2>. HIDE DEF x, y
  <2>. QED
    BY <1>5, <1>6, <2>1, <2>2
<1>8. SizeKnows'
  BY <1>1, <1>2, <1>3, <1>4, <1>5 DEF DataInv, SizeKnows, Parts
<1>9. PopHas'
  <2>. SUFFICES ASSUME NEW o \in Offsets, o >= PopFrom + ToPop
                PROVE  content[pop_chunk][o] = FullStart - ChunkSize + o + 1
    BY <1>5, <1>6, <1>7 DEF PopHas
  <2>1. o >= PopFrom /\ PopPart > 0
    BY <1>1, <1>2, <1>3, <1>4 DEF Offsets, PopFrom, Parts
  <2>. QED
    BY <2>1 DEF DataInv, PopHas
<1>10. FullHave' /\ PushHas'
  BY <1>5, <1>6, <1>7 DEF DataInv, FullHave, PushHas
<1>11. DataInv'
  BY <1>8, <1>9, <1>10 DEF DataInv
<1> DEFINE w == Waiting
           a == pushed - Waiting
           n == ToPop
<1>12. /\ a \in Int /\ w \in Nat /\ n \in 0 .. w
       /\ pushed' - Waiting' = a + n /\ Waiting' = w - n
  <2>1. ToPop <= Waiting
    BY <1>2, <1>3, <1>4 DEF Waiting, Parts
  <2>. QED
    BY <1>2, <1>4, <1>5, <1>7, <2>1 DEF Parts
<1>13. Queue = Run(a, w) /\ Queue' = Run(a + n, w - n)
  BY <1>11, <1>12, QueueIsRun, QueueIsRunNext DEF QueueShape, IInv
<1>14. handed' = Run(a, n)
  <2>1. \A k \in 1 .. ToPop : content[pop_chunk][PopFrom + k - 1] = a + k
    <3>. SUFFICES ASSUME NEW k \in 1 .. ToPop
                  PROVE  content[pop_chunk][PopFrom + k - 1] = a + k
      OBVIOUS
    <3>1. /\ PopFrom + k - 1 \in Offsets /\ PopFrom + k - 1 >= PopFrom
          /\ PopFrom = ChunkSize - PopPart /\ PopPart > 0
      BY <1>1, <1>2, <1>3, <1>4 DEF Offsets, PopFrom, Parts
    <3>2. content[pop_chunk][PopFrom + k - 1] = FullStart - ChunkSize + (PopFrom + k - 1) + 1
      BY <3>1 DEF DataInv, PopHas
    <3>3. a = FullStart - PopPart
      BY <1>2 DEF FullStart, FullEnd, Waiting, Parts
    <3>. HIDE DEF a
    <3>. QED
      BY <1>2, <1>3, <3>1, <3>2, <3>3 DEF Parts
  <2>. QED
    BY <1>5, <2>1 DEF Run
<1>. HIDE DEF a, w, n
<1>15. Len(Queue) = w
  BY <1>12, <1>13, RunLength
<1>16. handed' = SubSeq(Queue, 1, n) /\ Queue' = SubSeq(Queue, n + 1, Len(Queue))
  BY <1>12, <1>13, <1>14, <1>15, RunCut
<1>17. Abstract!Hand(n)
  <2>1. n <= Len(Queue) /\ UNCHANGED pushed
    BY <1>5, <1>12, <1>15
  <2>. QED
    BY <1>16, <2>1 DEF Abstract!Hand
<1>18. n \in 1 .. ChunksCount * ChunkSize
  <2>1. ChunkSize <= ChunksCount * ChunkSize /\ ChunksCount * ChunkSize \in Nat
    <3>1. 1 * ChunkSize <= ChunksCount * ChunkSize /\ ChunksCount * ChunkSize \in Nat
      BY CircularAssumption, ChunkProductGrows, ChunkProduct
    <3>. QED
      BY <3>1, CircularAssumption
  <2>. QED
    BY <1>1, <1>2, <1>4, <2>1 DEF n, Parts
<1>. QED
  BY <1>11, <1>17, <1>18 DEF Abstract!Next

(* Every step maps to a step of ByteFifo or to none.                       *)
LEMMA NextRefines ==
  ASSUME IInv, IInv', DataInv, [Next]_vars
  PROVE  DataInv' /\ [Abstract!Next]_<<Queue, pushed, handed>>
<1>1. CASE UNCHANGED vars
  <2>1. UNCHANGED <<fullVars, freeVars, content, pushVars, popVars>>
    BY <1>1 DEF vars
  <2>2. /\ SizeKnows' /\ PopPart' = PopPart /\ PushPart' = PushPart
        /\ UNCHANGED <<pop_chunk, pop_chunk_size, push_chunk, content, full_head,
                       full_tail, full_array, pushed, handed>>
    BY <2>1 DEF DataInv, SizeKnows, PopPart, PushPart, fullVars, pushVars, popVars
  <2>. QED
    BY <2>2, DataStays DEF IInv
<1>2. CASE \/ \E size \in 1 .. MaxCall : Push(size)
           \/ PushDone \/ PushNeedsChunk \/ PushTakes \/ PushReleases
           \/ PushOffers \/ PushPuts
  BY <1>2, PushQuiet
<1>3. CASE \/ \E size \in 1 .. MaxCall : Pop(size)
           \/ PopDone \/ PopNeedsChunk \/ PopTakes
           \/ PopOffers \/ PopPuts \/ PopPublishes
  BY <1>3, PopQuiet
<1>4. CASE PushPublishes
  BY <1>4, PushPublishesData
<1>5. CASE PopReleases
  BY <1>5, PopReleasesData
<1>6. CASE PushCopies
  BY <1>6, PushCopiesRefines
<1>7. CASE PopCopies
  BY <1>7, PopCopiesRefines
<1>. QED
  BY <1>1, <1>2, <1>3, <1>4, <1>5, <1>6, <1>7 DEF Next, PushStep, PopStep

LEMMA InitRefines ==
  ASSUME Init
  PROVE  Abstract!Init
<1>1. IInv /\ DataInv
  BY InitInv, InitData
<1>2. PopPart = 0 /\ PushPart = 0 /\ FullLength = 0
  <2>1. full_head = 0 /\ full_tail = 0 /\ 0 \in Index
    BY CapacityFacts DEF Init, Index
  <2>2. FullLength = 0
    BY <2>1, LengthLinear DEF FullLength
  <2>. QED
    BY <2>2 DEF Init, PopPart, PushPart
<1>3. PopPart + FullLength * ChunkSize + PushPart = 0
  BY <1>2, CircularAssumption
<1>4. Queue = <<>>
  BY <1>3 DEF Queue
<1>. QED
  BY <1>4 DEF Init, Abstract!Init

LEMMA DataHolds == Spec => [](IInv /\ DataInv)
<1>1. Init => IInv /\ DataInv
  BY InitInv, InitData
<1>2. IInv /\ DataInv /\ [Next]_vars => IInv' /\ DataInv'
  BY NextInv, NextRefines
<1>. QED
  BY <1>1, <1>2, PTL DEF Spec

(* The chunks and the two FIFOs, whose calls take many steps each, are a   *)
(* queue of bytes: whatever the interleaving, the callback gets what the   *)
(* RTP thread pushed, in order, each byte once.                            *)
THEOREM ChunksImplementByteFifo == Spec => ImplementsByteFifo
<1>1. Init => Abstract!Init
  BY InitRefines
<1>2. IInv /\ DataInv /\ IInv' /\ [Next]_vars => [Abstract!Next]_<<Queue, pushed, handed>>
  BY NextRefines
<1>. QED
  BY <1>1, <1>2, DataHolds, PTL DEF Spec, ImplementsByteFifo, Abstract!Spec
=============================================================================
