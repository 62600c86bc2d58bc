------------------------------ MODULE RaopProofs -----------------------------
(***************************************************************************)
(* Proofs about the sound of a session, from the bottom up: the reordering *)
(* buffer (RaopBuffer), the loop over the TCP stream (RaopTcp), and both   *)
(* loops over the buffer (RaopStream, RaopTcp).  They hold for every       *)
(* buffer length and width of the sequence numbers that BufferAssumption   *)
(* admits (32 slots and 16 bits in the code), every network within         *)
(* StreamAssumption and every stream within TcpAssumption.                 *)
(***************************************************************************)
EXTENDS RaopTcp, WellFoundedInduction, TLAPS

-----------------------------------------------------------------------------
(***************************************************************************)
(* Arithmetic: sequence numbers modulo SeqMod, in linear form.             *)
(***************************************************************************)

(* Half the sequence space holds at least two windows.                     *)
LEMMA SpaceFacts ==
  /\ RAOP_BUFFER_LENGTH \in Nat \ {0}
  /\ HalfSeq \in Nat
  /\ HalfSeq >= 2 * RAOP_BUFFER_LENGTH
  /\ SeqMod \in Nat
  /\ SeqMod = 2 * HalfSeq
<1>1. RAOP_BUFFER_LENGTH \in Nat \ {0} /\ Laps \in Nat /\ Laps >= 2
  BY BufferAssumption
<1>2. HalfSeq \in Nat /\ HalfSeq >= 2 * RAOP_BUFFER_LENGTH
  BY <1>1, SMT DEF HalfSeq
<1>. QED
  BY <1>1, <1>2 DEF SeqMod

(* A remainder needs at most one lap of correction either way.             *)
LEMMA ModOneLap ==
  ASSUME NEW m \in Nat \ {0}, NEW x \in -m .. 2 * m - 1
  PROVE  x % m = IF x < 0 THEN x + m ELSE IF x >= m THEN x - m ELSE x
<1>1. CASE x < 0
  BY <1>1, SMT
<1>2. CASE x >= 0 /\ x < m
  BY <1>2, SMT
<1>3. CASE x >= m
  BY <1>3, SMT
<1>. QED
  BY <1>1, <1>2, <1>3

(* seqnum_cmp is the signed distance on the circle.                        *)
LEMMA CmpLinear ==
  ASSUME NEW a \in Seqnum, NEW b \in Seqnum
  PROVE  /\ seqnum_cmp(a, b) \in Int
         /\ seqnum_cmp(a, b) =
              IF a - b >= HalfSeq THEN a - b - SeqMod
              ELSE IF a - b < -HalfSeq THEN a - b + SeqMod
              ELSE a - b
<1>1. SeqMod \in Nat \ {0} /\ a - b \in -SeqMod .. 2 * SeqMod - 1
  BY SpaceFacts DEF Seqnum
<1>2. (a - b) % SeqMod =
        IF a - b < 0 THEN a - b + SeqMod
        ELSE IF a - b >= SeqMod THEN a - b - SeqMod ELSE a - b
  BY <1>1, ModOneLap
<1>. QED
  BY <1>1, <1>2, SpaceFacts DEF seqnum_cmp, Seqnum

(* Plus stays in the sequence space and wraps once.                        *)
LEMMA PlusLinear ==
  ASSUME NEW s \in Seqnum, NEW k \in -1 .. RAOP_BUFFER_LENGTH
  PROVE  /\ Plus(s, k) \in Seqnum
         /\ Plus(s, k) =
              IF s + k < 0 THEN s + k + SeqMod
              ELSE IF s + k >= SeqMod THEN s + k - SeqMod ELSE s + k
<1> DEFINE x == s + k
<1>1. SeqMod \in Nat \ {0} /\ x \in -SeqMod .. 2 * SeqMod - 1
  BY SpaceFacts DEF Seqnum
<1>2. x % SeqMod = IF x < 0 THEN x + SeqMod ELSE IF x >= SeqMod THEN x - SeqMod ELSE x
  <2>. HIDE DEF x
  <2>. QED
    BY <1>1, ModOneLap
<1>3. Plus(s, k) = x % SeqMod
  BY DEF Plus
<1>. QED
  BY <1>1, <1>2, <1>3, SpaceFacts DEF Seqnum

LEMMA SlotType ==
  ASSUME NEW s \in Seqnum
  PROVE  Slot(s) \in Slots
BY SpaceFacts, SMT DEF Slot, Slots, Seqnum

(* A multiple of m that is closer to 0 than m is 0.                        *)
LEMMA SmallMultiple ==
  ASSUME NEW m \in Nat \ {0}, NEW z \in Int, m * z < m, m * z > -m
  PROVE  z = 0
<1>1. CASE z >= 1
  BY <1>1, SMT
<1>2. CASE z =< -1
  BY <1>2, SMT
<1>. QED
  BY <1>1, <1>2

(* Two numbers less than a window apart that share a slot are the same.    *)
LEMMA SlotInjective ==
  ASSUME NEW a \in Seqnum, NEW b \in Seqnum,
         Slot(a) = Slot(b),
         seqnum_cmp(a, b) < RAOP_BUFFER_LENGTH,
         seqnum_cmp(a, b) > -RAOP_BUFFER_LENGTH
  PROVE  a = b
<1> DEFINE L == RAOP_BUFFER_LENGTH
           qa == a \div L
           qb == b \div L
           r == a % L
<1>1. L \in Nat \ {0} /\ a \in Int /\ b \in Int
  BY SpaceFacts DEF Seqnum
<1>2. qa \in Int /\ qb \in Int /\ r \in Int
  BY <1>1, SMT
<1>3. a = L * qa + r
  BY <1>1, SMT
<1>4. b = L * qb + (b % L)
  BY <1>1, SMT
<1>5. b % L = r
  BY DEF Slot
<1>6. a - b = L * (qa - qb)
  <2>. HIDE DEF qa, qb, r, L
  <2>. QED
    BY <1>1, <1>2, <1>3, <1>4, <1>5, SMT
<1>7. SeqMod = L * (2 * Laps) /\ Laps \in Int
  BY <1>1, BufferAssumption, SMT DEF SeqMod, HalfSeq
<1>8. \E z \in Int : seqnum_cmp(a, b) = L * z
  <2>. HIDE DEF qa, qb, r, L
  <2>1. CASE seqnum_cmp(a, b) = a - b
    BY <2>1, <1>2, <1>6
  <2>2. CASE seqnum_cmp(a, b) = a - b - SeqMod
    <3>1. a - b - SeqMod = L * (qa - qb - 2 * Laps)
      BY <1>1, <1>2, <1>6, <1>7, SMT
    <3>. QED
      BY <2>2, <3>1, <1>2, <1>7
  <2>3. CASE seqnum_cmp(a, b) = a - b + SeqMod
    <3>1. a - b + SeqMod = L * (qa - qb + 2 * Laps)
      BY <1>1, <1>2, <1>6, <1>7, SMT
    <3>. QED
      BY <2>3, <3>1, <1>2, <1>7
  <2>. QED
    BY <2>1, <2>2, <2>3, CmpLinear
<1>9. PICK z \in Int : seqnum_cmp(a, b) = L * z
  BY <1>8
<1>10. z = 0
  BY <1>1, <1>9, SmallMultiple
<1>11. seqnum_cmp(a, b) = 0
  BY <1>1, <1>9, <1>10
<1>. QED
  BY <1>11, CmpLinear, SpaceFacts DEF Seqnum

(***************************************************************************)
(* Geometry of the window, as facts about seqnum_cmp and Plus alone.       *)
(***************************************************************************)
LEMMA CmpSelf ==
  ASSUME NEW a \in Seqnum
  PROVE  seqnum_cmp(a, a) = 0
BY CmpLinear, SpaceFacts DEF Seqnum

LEMMA CmpZero ==
  ASSUME NEW a \in Seqnum, NEW b \in Seqnum, seqnum_cmp(a, b) = 0
  PROVE  a = b
BY CmpLinear, SpaceFacts DEF Seqnum

LEMMA CmpRange ==
  ASSUME NEW a \in Seqnum, NEW b \in Seqnum
  PROVE  /\ seqnum_cmp(a, b) \in Int
         /\ -HalfSeq <= seqnum_cmp(a, b)
         /\ seqnum_cmp(a, b) < HalfSeq
BY CmpLinear, SpaceFacts DEF Seqnum

(* The k-th number after b is k ahead of b.                                *)
LEMMA CmpPlus ==
  ASSUME NEW b \in Seqnum, NEW k \in -1 .. RAOP_BUFFER_LENGTH
  PROVE  seqnum_cmp(Plus(b, k), b) = k
<1>1. Plus(b, k) \in Seqnum
  BY PlusLinear
<1>2. seqnum_cmp(Plus(b, k), b) =
        IF Plus(b, k) - b >= HalfSeq THEN Plus(b, k) - b - SeqMod
        ELSE IF Plus(b, k) - b < -HalfSeq THEN Plus(b, k) - b + SeqMod
        ELSE Plus(b, k) - b
  BY <1>1, CmpLinear
<1>. QED
  BY <1>1, <1>2, PlusLinear, SpaceFacts DEF Seqnum

(* Distances subtract as long as the result fits half the circle.          *)
LEMMA CmpDiff ==
  ASSUME NEW a \in Seqnum, NEW b \in Seqnum, NEW f \in Seqnum,
         seqnum_cmp(a, f) - seqnum_cmp(b, f) >= -HalfSeq,
         seqnum_cmp(a, f) - seqnum_cmp(b, f) < HalfSeq
  PROVE  seqnum_cmp(a, b) = seqnum_cmp(a, f) - seqnum_cmp(b, f)
<1>1. /\ seqnum_cmp(a, f) = IF a - f >= HalfSeq THEN a - f - SeqMod
                             ELSE IF a - f < -HalfSeq THEN a - f + SeqMod ELSE a - f
      /\ seqnum_cmp(b, f) = IF b - f >= HalfSeq THEN b - f - SeqMod
                             ELSE IF b - f < -HalfSeq THEN b - f + SeqMod ELSE b - f
      /\ seqnum_cmp(a, b) = IF a - b >= HalfSeq THEN a - b - SeqMod
                             ELSE IF a - b < -HalfSeq THEN a - b + SeqMod ELSE a - b
  BY CmpLinear
<1>. QED
  BY <1>1, SpaceFacts DEF Seqnum

(* Moving the reference forward by k lowers a distance by k.               *)
LEMMA CmpShift ==
  ASSUME NEW a \in Seqnum, NEW f \in Seqnum, NEW k \in -1 .. RAOP_BUFFER_LENGTH,
         seqnum_cmp(a, f) - k >= -HalfSeq,
         seqnum_cmp(a, f) - k < HalfSeq
  PROVE  seqnum_cmp(a, Plus(f, k)) = seqnum_cmp(a, f) - k
<1>1. Plus(f, k) \in Seqnum /\ seqnum_cmp(Plus(f, k), f) = k
  BY PlusLinear, CmpPlus
<1>. QED
  BY <1>1, CmpDiff

(* A packet that is neither late nor beyond the window lies inside it.     *)
LEMMA InWindow ==
  ASSUME NEW s \in Seqnum, first_seqnum \in Seqnum,
         ~Overrun(s), Offset(s) >= 0
  PROVE  Offset(s) < RAOP_BUFFER_LENGTH
<1>. SUFFICES ASSUME Offset(s) >= RAOP_BUFFER_LENGTH
              PROVE  FALSE
  BY CmpRange, SpaceFacts DEF Offset
<1>1. seqnum_cmp(s, Plus(first_seqnum, RAOP_BUFFER_LENGTH)) = Offset(s) - RAOP_BUFFER_LENGTH
  BY CmpRange, CmpShift, SpaceFacts DEF Offset
<1>. QED
  BY <1>1, CmpRange, SpaceFacts DEF Overrun, Offset

-----------------------------------------------------------------------------
(***************************************************************************)
(* Types.                                                                  *)
(***************************************************************************)
LEMMA ResultTypes ==
  /\ Nothing \in Results
  /\ Result("invalid", 0, 0) \in Results
  /\ \A s \in Seqnum : Result("frame", s, 0) \in Results /\ Result("silence", s, 0) \in Results
  /\ \A s \in Seqnum, n \in 0 .. RAOP_BUFFER_LENGTH : Result("resend", s, n) \in Results
<1>1. 0 \in Seqnum /\ 0 \in 0 .. RAOP_BUFFER_LENGTH
  BY SpaceFacts DEF Seqnum
<1>. QED
  BY <1>1 DEF Nothing, Result, Results

LEMMA ClearedType ==
  ASSUME entries \in [Slots -> Entry]
  PROVE  /\ Cleared \in [Slots -> Entry]
         /\ \A i \in Slots : ~Cleared[i].available /\ ~Cleared[i].resending
BY DEF Cleared, Emptied, Entry

LEMMA StoreType ==
  ASSUME BufferTypeOK, NEW s \in Seqnum, Store(s)
  PROVE  /\ first_seqnum' \in Seqnum
         /\ last_seqnum' \in Seqnum
         /\ is_empty' = FALSE
         /\ entries' \in [Slots -> Entry]
<1>1. Plus(s, -1) \in Seqnum
  BY PlusLinear, SpaceFacts
<1>2. Cleared \in [Slots -> Entry]
  BY ClearedType DEF BufferTypeOK
<1>3. [available |-> TRUE, resending |-> FALSE, seqnum |-> s] \in Entry
  BY DEF Entry
<1>. QED
  BY <1>1, <1>2, <1>3 DEF BufferTypeOK, Store

LEMMA InitType == raop_buffer_init => BufferTypeOK
<1>1. 0 \in Seqnum
  BY SpaceFacts DEF Seqnum
<1>. QED
  BY <1>1, ResultTypes DEF raop_buffer_init, BufferTypeOK, Entry

LEMMA NextType == BufferTypeOK /\ [BufferNext]_bufferVars => BufferTypeOK'
<1>. SUFFICES ASSUME BufferTypeOK, [BufferNext]_bufferVars
              PROVE  BufferTypeOK'
  OBVIOUS
<1>1. ASSUME NEW validlen \in BOOLEAN, NEW seq \in Seqnum, NEW use_seqnum \in BOOLEAN,
             raop_buffer_queue(validlen, seq, use_seqnum)
      PROVE  BufferTypeOK'
  <2> DEFINE s == IF use_seqnum THEN seq ELSE first_seqnum
  <2>1. s \in Seqnum
    BY DEF BufferTypeOK
  <2>2. CASE UNCHANGED buffer /\ (out' = Result("invalid", 0, 0) \/ out' = Nothing)
    BY <2>2, ResultTypes DEF BufferTypeOK, buffer
  <2>3. CASE Store(s) /\ out' = Nothing
    <3>. HIDE DEF s
    <3>. QED
      BY <2>1, <2>3, StoreType, ResultTypes DEF BufferTypeOK
  <2>. QED
    BY <1>1, <2>2, <2>3 DEF raop_buffer_queue
<1>2. ASSUME NEW nr \in BOOLEAN, raop_buffer_dequeue(nr)
      PROVE  BufferTypeOK'
  <2>1. CASE UNCHANGED buffer /\ out' = Nothing
    BY <2>1, ResultTypes DEF BufferTypeOK, buffer
  <2>2. CASE first_seqnum' = Plus(first_seqnum, 1)
    <3>1. first_seqnum' \in Seqnum
      BY <2>2, PlusLinear, SpaceFacts DEF BufferTypeOK
    <3>2. Slot(first_seqnum) \in Slots /\ Head \in Entry
      BY SlotType DEF BufferTypeOK, Head
    <3>3. out' \in Results
      BY <1>2, <3>2, ResultTypes DEF raop_buffer_dequeue, BufferTypeOK, Entry
    <3>4. entries' \in [Slots -> Entry]
      <4>1. \/ entries' = entries
            \/ entries' = [entries EXCEPT ![Slot(first_seqnum)] = Emptied(Head)]
        BY <1>2 DEF raop_buffer_dequeue, buffer
      <4>2. Emptied(Head) \in Entry
        BY <3>2 DEF Emptied, Entry
      <4>. QED
        BY <3>2, <4>1, <4>2 DEF BufferTypeOK
    <3>5. last_seqnum' \in Seqnum /\ is_empty' \in BOOLEAN
      BY <1>2 DEF raop_buffer_dequeue, BufferTypeOK, buffer
    <3>. QED
      BY <3>1, <3>3, <3>4, <3>5 DEF BufferTypeOK
  <2>. QED
    BY <1>2, <2>1, <2>2 DEF raop_buffer_dequeue
<1>3. CASE raop_buffer_handle_resends
  <2>1. CASE UNCHANGED buffer /\ out' = Nothing
    BY <2>1, ResultTypes DEF BufferTypeOK, buffer
  <2>2. ASSUME NEW n \in 0 .. RAOP_BUFFER_LENGTH,
               entries' = [i \in Slots |->
                             IF \E k \in 0 .. n - 1 : i = Slot(Plus(first_seqnum, k))
                             THEN [entries[i] EXCEPT !.resending = TRUE]
                             ELSE entries[i]],
               out' = IF n = 0 THEN Nothing ELSE Result("resend", first_seqnum, n),
               UNCHANGED <<first_seqnum, last_seqnum, is_empty>>
        PROVE  BufferTypeOK'
    <3>1. entries' \in [Slots -> Entry]
      BY <2>2 DEF BufferTypeOK, Entry
    <3>2. out' \in Results
      BY <2>2, ResultTypes DEF BufferTypeOK
    <3>. QED
      BY <2>2, <3>1, <3>2 DEF BufferTypeOK
  <2>. QED
    BY <1>3, <2>1, <2>2 DEF raop_buffer_handle_resends
<1>4. ASSUME NEW n \in Seqnum \cup {NoSeq}, raop_buffer_flush(n)
      PROVE  BufferTypeOK'
  <2>1. Cleared \in [Slots -> Entry]
    BY ClearedType DEF BufferTypeOK
  <2>2. n \in Seqnum => Plus(n, -1) \in Seqnum
    BY PlusLinear, SpaceFacts
  <2>. QED
    BY <1>4, <2>1, <2>2, ResultTypes DEF raop_buffer_flush, BufferTypeOK
<1>5. CASE UNCHANGED bufferVars
  BY <1>5 DEF bufferVars, buffer, BufferTypeOK
<1>. QED
  BY <1>1, <1>2, <1>3, <1>4, <1>5 DEF BufferNext

(* Every variable keeps its type: in particular the window bounds stay 16  *)
(* bits wide and a slot never holds a number outside the sequence space.   *)
THEOREM TypeCorrect == BufferSpec => []BufferTypeOK
BY InitType, NextType, PTL DEF BufferSpec

-----------------------------------------------------------------------------
(***************************************************************************)
(* The window.  BufferTypeOK /\ WindowInv is inductive.                    *)
(***************************************************************************)

(* What WindowInv says of the state after a call, written with the primed  *)
(* variables spelled out.                                                  *)
LEMMA WindowPrime ==
  ASSUME \/ is_empty' /\ \A i \in Slots : ~entries'[i].available
         \/ ~is_empty' /\ seqnum_cmp(last_seqnum', first_seqnum') + 1 \in 0 .. RAOP_BUFFER_LENGTH,
         \A i \in Slots :
           entries'[i].available =>
             /\ Slot(entries'[i].seqnum) = i
             /\ 0 <= seqnum_cmp(entries'[i].seqnum, first_seqnum')
             /\ seqnum_cmp(entries'[i].seqnum, first_seqnum')
                  < seqnum_cmp(last_seqnum', first_seqnum') + 1
  PROVE  WindowInv'
BY DEF WindowInv, buflen, Offset

LEMMA InitWindow == raop_buffer_init => WindowInv
BY DEF raop_buffer_init, WindowInv

(* A number one slot above last_seqnum: a flush with a number leaves this. *)
LEMMA CmpBelow ==
  ASSUME NEW s \in Seqnum
  PROVE  seqnum_cmp(s, Plus(s, -1)) = 1
BY CmpSelf, CmpShift, SpaceFacts

LEMMA StoreWindow ==
  ASSUME BufferTypeOK, WindowInv, NEW s \in Seqnum, ~TooLate(s), Store(s)
  PROVE  WindowInv'
<1> DEFINE new == [available |-> TRUE, resending |-> FALSE, seqnum |-> s]
<1>1. Slot(s) \in Slots /\ seqnum_cmp(s, s) = 0
  BY SlotType, CmpSelf
<1>2. \A i \in Slots : ~Cleared[i].available
  BY ClearedType DEF BufferTypeOK
<1>3. is_empty' = FALSE
  BY DEF Store
<1>4. CASE is_empty \/ Overrun(s)
  <2>1. first_seqnum' = s /\ last_seqnum' = s
    BY <1>1, <1>4, CmpBelow DEF Store, BufferTypeOK
  <2>2. ASSUME NEW i \in Slots, entries'[i].available
        PROVE  i = Slot(s) /\ entries'[i].seqnum = s
    <3>1. CASE i = Slot(s)
      BY <3>1, <1>1 DEF Store, BufferTypeOK, Cleared
    <3>2. CASE i # Slot(s)
      <4>1. entries'[i] = Cleared[i] \/ (is_empty /\ entries'[i] = entries[i])
        BY <1>4, <3>2 DEF Store, BufferTypeOK, Cleared
      <4>. QED
        BY <4>1, <2>2, <1>2 DEF WindowInv
    <3>. QED
      BY <3>1, <3>2
  <2>. QED
    BY <1>1, <1>3, <2>1, <2>2, WindowPrime, SpaceFacts
<1>5. CASE ~is_empty /\ ~Overrun(s)
  <2>1. Offset(s) >= 0 /\ Offset(s) \in Int
    BY <1>5, CmpRange DEF TooLate, Offset, BufferTypeOK
  <2>2. Offset(s) < RAOP_BUFFER_LENGTH
    BY <1>5, <2>1, InWindow DEF BufferTypeOK
  <2>3. Offset(last_seqnum) = buflen - 1 /\ buflen \in 0 .. RAOP_BUFFER_LENGTH
    BY <1>5, CmpRange DEF WindowInv, Offset, buflen, BufferTypeOK
  <2>4. seqnum_cmp(s, last_seqnum) = Offset(s) - Offset(last_seqnum)
    BY <2>1, <2>2, <2>3, CmpDiff, SpaceFacts DEF Offset, BufferTypeOK
  <2>5. /\ first_seqnum' = first_seqnum
        /\ last_seqnum' = IF seqnum_cmp(s, last_seqnum) > 0 THEN s ELSE last_seqnum
        /\ entries' = [entries EXCEPT ![Slot(s)] = new]
    BY <1>5 DEF Store
  <2>6. /\ seqnum_cmp(last_seqnum', first_seqnum') + 1 \in 0 .. RAOP_BUFFER_LENGTH
        /\ seqnum_cmp(last_seqnum', first_seqnum') + 1 >= buflen
        /\ Offset(s) < seqnum_cmp(last_seqnum', first_seqnum') + 1
    BY <2>1, <2>2, <2>3, <2>4, <2>5, SpaceFacts DEF Offset
  <2>7. ASSUME NEW i \in Slots, entries'[i].available
        PROVE  /\ Slot(entries'[i].seqnum) = i
               /\ 0 <= seqnum_cmp(entries'[i].seqnum, first_seqnum')
               /\ seqnum_cmp(entries'[i].seqnum, first_seqnum')
                    < seqnum_cmp(last_seqnum', first_seqnum') + 1
    <3>1. CASE i = Slot(s)
      BY <3>1, <1>1, <2>1, <2>5, <2>6 DEF Offset, BufferTypeOK
    <3>2. CASE i # Slot(s)
      <4>1. entries'[i] = entries[i] /\ entries[i].seqnum \in Seqnum
        BY <3>2, <2>5 DEF BufferTypeOK, Entry
      <4>. QED
        BY <4>1, <2>3, <2>5, <2>6, <2>7, CmpRange DEF WindowInv, Offset, BufferTypeOK
    <3>. QED
      BY <3>1, <3>2
  <2>. QED
    BY <1>3, <2>6, <2>7, WindowPrime
<1>. QED
  BY <1>4, <1>5 DEF BufferTypeOK

(* Handing out the head moves the window by one; the frame that was at the *)
(* head, and no other, is at offset 0.                                     *)
LEMMA DequeueWindow ==
  ASSUME BufferTypeOK, WindowInv, ~is_empty, buflen > 0,
         first_seqnum' = Plus(first_seqnum, 1),
         UNCHANGED <<last_seqnum, is_empty>>,
         \/ ~Head.available /\ entries' = entries
         \/ entries' = [entries EXCEPT ![Slot(first_seqnum)] = Emptied(Head)]
  PROVE  WindowInv'
<1>1. buflen \in 1 .. RAOP_BUFFER_LENGTH /\ Offset(last_seqnum) = buflen - 1
  BY CmpRange, SpaceFacts DEF WindowInv, buflen, Offset, BufferTypeOK
<1>2. seqnum_cmp(last_seqnum', first_seqnum') + 1 = buflen - 1
  BY <1>1, CmpShift, SpaceFacts DEF Offset, BufferTypeOK
<1>3. ASSUME NEW i \in Slots, entries'[i].available
      PROVE  /\ Slot(entries'[i].seqnum) = i
             /\ 0 <= seqnum_cmp(entries'[i].seqnum, first_seqnum')
             /\ seqnum_cmp(entries'[i].seqnum, first_seqnum') < buflen - 1
  <2>1. i # Slot(first_seqnum) /\ entries'[i] = entries[i]
    <3>1. CASE ~Head.available /\ entries' = entries
      BY <3>1, <1>3 DEF Head
    <3>2. CASE entries' = [entries EXCEPT ![Slot(first_seqnum)] = Emptied(Head)]
      BY <3>2, <1>3 DEF Emptied, BufferTypeOK
    <3>. QED
      BY <3>1, <3>2
  <2>2. /\ entries[i].seqnum \in Seqnum
        /\ Slot(entries[i].seqnum) = i
        /\ 0 <= Offset(entries[i].seqnum)
        /\ Offset(entries[i].seqnum) < buflen
    BY <2>1, <1>3 DEF WindowInv, BufferTypeOK, Entry
  <2>3. Offset(entries[i].seqnum) # 0 /\ Offset(entries[i].seqnum) \in Int
    BY <2>1, <2>2, CmpZero, CmpRange DEF Offset, BufferTypeOK
  <2>4. seqnum_cmp(entries[i].seqnum, first_seqnum') = Offset(entries[i].seqnum) - 1
    BY <1>1, <2>2, <2>3, CmpShift, SpaceFacts DEF Offset, BufferTypeOK
  <2>. QED
    BY <1>1, <2>1, <2>2, <2>3, <2>4
<1>. QED
  BY <1>1, <1>2, <1>3, WindowPrime, SpaceFacts

LEMMA FlushWindow ==
  ASSUME BufferTypeOK, WindowInv, NEW n \in Seqnum \cup {NoSeq}, raop_buffer_flush(n)
  PROVE  WindowInv'
<1>1. \A i \in Slots : ~entries'[i].available
  BY ClearedType DEF raop_buffer_flush, BufferTypeOK
<1>2. CASE n \in Seqnum
  <2>1. first_seqnum' = n /\ last_seqnum' = Plus(n, -1)
    BY <1>2 DEF raop_buffer_flush
  <2>2. seqnum_cmp(last_seqnum', first_seqnum') + 1 = 0
    BY <1>2, <2>1, CmpPlus, SpaceFacts
  <2>3. is_empty' \in BOOLEAN
    BY <1>2 DEF raop_buffer_flush, BufferTypeOK
  <2>. QED
    BY <1>1, <2>2, <2>3, WindowPrime, SpaceFacts
<1>3. CASE n \notin Seqnum
  BY <1>1, <1>3, WindowPrime DEF raop_buffer_flush
<1>. QED
  BY <1>2, <1>3

(* What raop_buffer_handle_resends does when it looks for a gap: it raises *)
(* the resending flag of missing entries and touches nothing else.         *)
LEMMA ResendSlots ==
  ASSUME BufferTypeOK, NEW n \in 0 .. RAOP_BUFFER_LENGTH, GapLength(n),
         entries' = [i \in Slots |->
                       IF \E k \in 0 .. n - 1 : i = Slot(Plus(first_seqnum, k))
                       THEN [entries[i] EXCEPT !.resending = TRUE]
                       ELSE entries[i]],
         NEW i \in Slots
  PROVE  /\ entries'[i].available = entries[i].available
         /\ entries'[i].seqnum = entries[i].seqnum
         /\ entries[i].available => entries'[i] = entries[i]
<1>1. CASE \E k \in 0 .. n - 1 : i = Slot(Plus(first_seqnum, k))
  <2>1. PICK k \in 0 .. n - 1 : i = Slot(Plus(first_seqnum, k))
    BY <1>1
  <2>2. ~entries[i].available
    BY <2>1 DEF GapLength, Askable
  <2>3. entries'[i] = [entries[i] EXCEPT !.resending = TRUE] /\ entries[i] \in Entry
    BY <1>1 DEF BufferTypeOK
  <2>. QED
    BY <2>2, <2>3 DEF Entry
<1>2. CASE ~\E k \in 0 .. n - 1 : i = Slot(Plus(first_seqnum, k))
  BY <1>2
<1>. QED
  BY <1>1, <1>2

LEMMA ResendWindow ==
  ASSUME BufferTypeOK, WindowInv, raop_buffer_handle_resends
  PROVE  WindowInv'
<1>1. CASE UNCHANGED buffer
  BY <1>1 DEF buffer, WindowInv, buflen, Offset
<1>2. ASSUME NEW n \in 0 .. RAOP_BUFFER_LENGTH, GapLength(n),
             entries' = [i \in Slots |->
                           IF \E k \in 0 .. n - 1 : i = Slot(Plus(first_seqnum, k))
                           THEN [entries[i] EXCEPT !.resending = TRUE]
                           ELSE entries[i]],
             UNCHANGED <<first_seqnum, last_seqnum, is_empty>>
      PROVE  WindowInv'
  <2>1. \A i \in Slots : /\ entries'[i].available = entries[i].available
                         /\ entries'[i].seqnum = entries[i].seqnum
    BY <1>2, ResendSlots
  <2>. QED
    BY <1>2, <2>1 DEF WindowInv, buflen, Offset
<1>. QED
  BY <1>1, <1>2 DEF raop_buffer_handle_resends

LEMMA NextWindow == BufferTypeOK /\ WindowInv /\ [BufferNext]_bufferVars => WindowInv'
<1>. SUFFICES ASSUME BufferTypeOK, WindowInv, [BufferNext]_bufferVars
              PROVE  WindowInv'
  OBVIOUS
<1>0. CASE UNCHANGED buffer
  BY <1>0 DEF buffer, WindowInv, buflen, Offset
<1>1. ASSUME NEW validlen \in BOOLEAN, NEW seq \in Seqnum, NEW use_seqnum \in BOOLEAN,
             raop_buffer_queue(validlen, seq, use_seqnum)
      PROVE  WindowInv'
  <2> DEFINE s == IF use_seqnum THEN seq ELSE first_seqnum
  <2>1. s \in Seqnum
    BY DEF BufferTypeOK
  <2>2. UNCHANGED buffer \/ (~TooLate(s) /\ Store(s))
    BY <1>1 DEF raop_buffer_queue
  <2>. HIDE DEF s
  <2>. QED
    BY <1>0, <2>1, <2>2, StoreWindow
<1>2. ASSUME NEW nr \in BOOLEAN, raop_buffer_dequeue(nr)
      PROVE  WindowInv'
  BY <1>0, <1>2, DequeueWindow DEF raop_buffer_dequeue
<1>3. ASSUME NEW n \in Seqnum \cup {NoSeq}, raop_buffer_flush(n)
      PROVE  WindowInv'
  BY <1>3, FlushWindow
<1>4. CASE UNCHANGED bufferVars
  BY <1>0, <1>4 DEF bufferVars, buffer
<1>. QED
  BY <1>1, <1>2, <1>3, <1>4, ResendWindow DEF BufferNext

(* Whatever calls the RTP thread makes, unplayed frames stay in the slots  *)
(* of their own numbers, inside a window that never outgrows the slots.    *)
THEOREM WindowCorrect == BufferSpec => []WindowInv
<1>1. raop_buffer_init => BufferTypeOK /\ WindowInv
  BY InitType, InitWindow
<1>2. BufferTypeOK /\ WindowInv /\ [BufferNext]_bufferVars => (BufferTypeOK /\ WindowInv)'
  BY NextType, NextWindow
<1>. QED
  BY <1>1, <1>2, PTL DEF BufferSpec

-----------------------------------------------------------------------------
(***************************************************************************)
(* What the window is good for: frames are neither overwritten nor handed  *)
(* out in the place of others.                                             *)
(***************************************************************************)

(* Two frames of the window, or a frame and a packet for it, that share a  *)
(* slot are the same.                                                      *)
LEMMA SlotOwner ==
  ASSUME BufferTypeOK, WindowInv, NEW s \in Seqnum,
         Offset(s) >= 0, Offset(s) < RAOP_BUFFER_LENGTH,
         entries[Slot(s)].available
  PROVE  entries[Slot(s)].seqnum = s
<1> DEFINE t == entries[Slot(s)].seqnum
<1>1. Slot(s) \in Slots /\ t \in Seqnum
  BY SlotType DEF BufferTypeOK, Entry
<1>2. Slot(t) = Slot(s) /\ 0 <= Offset(t) /\ Offset(t) < buflen
  BY <1>1 DEF WindowInv
<1>3. buflen =< RAOP_BUFFER_LENGTH /\ buflen \in Int
  BY <1>1, CmpRange DEF WindowInv, buflen, BufferTypeOK
<1>4. Offset(s) \in Int /\ Offset(t) \in Int
  BY <1>1, CmpRange DEF Offset, BufferTypeOK
<1>5. seqnum_cmp(t, s) = Offset(t) - Offset(s)
  BY <1>1, <1>2, <1>3, <1>4, CmpDiff, SpaceFacts DEF Offset, BufferTypeOK
<1>. HIDE DEF t
<1>6. t = s
  BY <1>1, <1>2, <1>3, <1>4, <1>5, SlotInjective, SpaceFacts
<1>. QED
  BY <1>6 DEF t

(* The frame at the head carries the number whose turn it is.              *)
LEMMA HeadOwner ==
  ASSUME BufferTypeOK, WindowInv, Head.available
  PROVE  Head.seqnum = first_seqnum
BY CmpSelf, SlotOwner, SpaceFacts DEF Head, Offset, BufferTypeOK

LEMMA StepKeepsFrames ==
  ASSUME BufferTypeOK, WindowInv, [BufferNext]_bufferVars, NEW i \in Slots, entries[i].available
  PROVE  FrameKept(i)
<1>0. CASE UNCHANGED entries
  BY <1>0 DEF FrameKept
<1>1. ASSUME NEW validlen \in BOOLEAN, NEW seq \in Seqnum, NEW use_seqnum \in BOOLEAN,
             raop_buffer_queue(validlen, seq, use_seqnum)
      PROVE  FrameKept(i)
  <2> DEFINE s == IF use_seqnum THEN seq ELSE first_seqnum
  <2>1. s \in Seqnum
    BY DEF BufferTypeOK
  <2>2. CASE ~TooLate(s) /\ (Overrun(s) \/ ~Duplicate(s)) /\ Store(s)
    <3>. HIDE DEF s
    <3>1. ~is_empty
      BY DEF WindowInv
    <3>2. CASE Overrun(s)
      <4>1. first_seqnum' = s
        BY <2>2, <3>1, <3>2 DEF Store
      <4>2. \A j \in Slots : entries'[j].available => entries'[j].seqnum = s
        BY <2>2, <3>1, <3>2, ClearedType DEF Store, BufferTypeOK
      <4>. QED
        BY <4>1, <4>2 DEF FrameKept
    <3>3. CASE ~Overrun(s)
      <4>1. Offset(s) >= 0 /\ Offset(s) < RAOP_BUFFER_LENGTH
        BY <2>1, <2>2, <3>1, <3>3, CmpRange, InWindow DEF TooLate, Offset, BufferTypeOK
      <4>2. i # Slot(s)
        BY <2>1, <2>2, <3>3, <4>1, SlotOwner DEF Duplicate
      <4>. QED
        BY <2>2, <3>1, <3>3, <4>2 DEF Store, FrameKept, BufferTypeOK
    <3>. QED
      BY <3>2, <3>3
  <2>. QED
    BY <1>0, <1>1, <2>2 DEF raop_buffer_queue, buffer
<1>2. ASSUME NEW nr \in BOOLEAN, raop_buffer_dequeue(nr)
      PROVE  FrameKept(i)
  <2>1. CASE /\ out' = Result("frame", Head.seqnum, 0)
             /\ entries' = [entries EXCEPT ![Slot(first_seqnum)] = Emptied(Head)]
    <3>1. CASE i = Slot(first_seqnum)
      BY <2>1, <3>1 DEF FrameKept, Head
    <3>2. CASE i # Slot(first_seqnum)
      BY <2>1, <3>2 DEF FrameKept, BufferTypeOK
    <3>. QED
      BY <3>1, <3>2
  <2>. QED
    BY <1>0, <1>2, <2>1 DEF raop_buffer_dequeue, buffer
<1>3. CASE raop_buffer_handle_resends
  <2>1. ASSUME NEW n \in 0 .. RAOP_BUFFER_LENGTH, GapLength(n),
               entries' = [j \in Slots |->
                             IF \E k \in 0 .. n - 1 : j = Slot(Plus(first_seqnum, k))
                             THEN [entries[j] EXCEPT !.resending = TRUE]
                             ELSE entries[j]]
        PROVE  FrameKept(i)
    BY <2>1, ResendSlots DEF FrameKept
  <2>. QED
    BY <1>0, <1>3, <2>1 DEF raop_buffer_handle_resends, buffer
<1>4. ASSUME NEW n \in Seqnum \cup {NoSeq}, raop_buffer_flush(n)
      PROVE  FrameKept(i)
  BY <1>4, ClearedType DEF raop_buffer_flush, FrameKept, BufferTypeOK
<1>5. CASE UNCHANGED bufferVars
  BY <1>0, <1>5 DEF bufferVars, buffer
<1>. QED
  BY <1>1, <1>2, <1>3, <1>4, <1>5 DEF BufferNext

(* No call loses a stored frame except by handing it out or by abandoning  *)
(* the whole window.                                                       *)
THEOREM StoredFramesKept == BufferSpec => StoredFrameFate
<1>1. BufferTypeOK /\ WindowInv /\ [BufferNext]_bufferVars
        => [\A i \in Slots : entries[i].available => FrameKept(i)]_bufferVars
  BY StepKeepsFrames
<1>. QED
  BY <1>1, TypeCorrect, WindowCorrect, PTL DEF BufferSpec, StoredFrameFate

LEMMA StepAsksForGap ==
  ASSUME BufferTypeOK, WindowInv, BufferNext, out'.kind = "resend"
  PROVE  out'.seqnum = first_seqnum /\ AsksForGap(out'.count)
<1>1. raop_buffer_handle_resends /\ out' # Nothing
  BY DEF BufferNext, raop_buffer_queue, raop_buffer_dequeue, raop_buffer_flush,
     raop_buffer_handle_resends, Nothing, Result
<1>2. PICK n \in 0 .. RAOP_BUFFER_LENGTH :
        /\ GapLength(n)
        /\ entries' = [i \in Slots |->
                         IF \E k \in 0 .. n - 1 : i = Slot(Plus(first_seqnum, k))
                         THEN [entries[i] EXCEPT !.resending = TRUE]
                         ELSE entries[i]]
        /\ out' = IF n = 0 THEN Nothing ELSE Result("resend", first_seqnum, n)
  BY <1>1 DEF raop_buffer_handle_resends
<1>3. n # 0 /\ out'.seqnum = first_seqnum /\ out'.count = n
  BY <1>1, <1>2 DEF Result
<1>4. n < buflen
  BY <1>2, CmpRange, SpaceFacts DEF GapLength, buflen, BufferTypeOK
<1>5. ASSUME NEW k \in 0 .. n - 1
      PROVE  Askable(k) /\ entries'[Slot(Plus(first_seqnum, k))].resending
  <2>1. Slot(Plus(first_seqnum, k)) \in Slots
    BY PlusLinear, SlotType, SpaceFacts DEF BufferTypeOK
  <2>. QED
    BY <1>2, <2>1 DEF GapLength, BufferTypeOK, Entry
<1>. QED
  BY <1>3, <1>4, <1>5, SpaceFacts DEF AsksForGap, Askable

(* Every retransmission request names packets that are missing and that no *)
(* standing mark says were asked for.                                      *)
THEOREM ResendsCorrect == BufferSpec => ResendsAreGaps
<1>1. BufferTypeOK /\ WindowInv /\ [BufferNext]_bufferVars
        => [out'.kind = "resend" =>
              out'.seqnum = first_seqnum /\ AsksForGap(out'.count)]_bufferVars
  BY StepAsksForGap
<1>. QED
  BY <1>1, TypeCorrect, WindowCorrect, PTL DEF BufferSpec, ResendsAreGaps

-----------------------------------------------------------------------------
(***************************************************************************)
(* The refinement: held is the set of the numbers in the slots.            *)
(***************************************************************************)

(* A number of the window is held exactly when its slot is taken.          *)
LEMMA HeldInWindow ==
  ASSUME BufferTypeOK, WindowInv, NEW k \in 0 .. RAOP_BUFFER_LENGTH - 1
  PROVE  Plus(first_seqnum, k) \in Held <=> entries[Slot(Plus(first_seqnum, k))].available
<1>1. Plus(first_seqnum, k) \in Seqnum /\ Offset(Plus(first_seqnum, k)) = k
  BY PlusLinear, CmpPlus, SpaceFacts DEF Offset, BufferTypeOK
<1>. QED
  BY <1>1, SlotOwner, SpaceFacts DEF Held

LEMMA HeadHeld ==
  ASSUME BufferTypeOK, WindowInv
  PROVE  first_seqnum \in Held <=> Head.available
BY HeadOwner DEF Held, Head, BufferTypeOK

(* The distance the abstract buffer uses is the offset, when it is ahead.  *)
LEMMA AheadOffset ==
  ASSUME BufferTypeOK, NEW s \in Seqnum, Offset(s) >= 0
  PROVE  Abstract!Ahead(s) = Offset(s)
BY CmpRange, SpaceFacts DEF Abstract!Ahead, Offset, seqnum_cmp, BufferTypeOK, Seqnum

LEMMA QueueRefines ==
  ASSUME BufferTypeOK, WindowInv, NEW validlen \in BOOLEAN, NEW seq \in Seqnum,
         NEW use_seqnum \in BOOLEAN, raop_buffer_queue(validlen, seq, use_seqnum)
  PROVE  Abstract!Next
<1> DEFINE s == IF use_seqnum THEN seq ELSE first_seqnum
<1>1. s \in Seqnum /\ Slot(s) \in Slots
  BY SlotType DEF BufferTypeOK
<1>2. CASE UNCHANGED buffer /\ (out' = Result("invalid", 0, 0) \/ out' = Nothing)
  <2>1. Abstract!Refuse
    BY <1>2 DEF buffer, Held, Abstract!Refuse, Abstract!Nothing, Abstract!Result, Nothing, Result
  <2>. QED
    BY <2>1 DEF Abstract!Next
<1>3. CASE /\ ~TooLate(s) /\ (Overrun(s) \/ ~Duplicate(s))
           /\ Store(s) /\ out' = Nothing
  <2>. HIDE DEF s
  <2>0. out' = Abstract!Nothing
    BY <1>3 DEF Abstract!Nothing, Abstract!Result, Nothing, Result
  <2>1. CASE is_empty \/ Overrun(s)
    <3>1. first_seqnum' = s
      BY <1>3, <2>1 DEF Store
    <3>2. \A i \in Slots : entries'[i].available => i = Slot(s)
      BY <1>3, <2>1, ClearedType DEF Store, WindowInv, BufferTypeOK
    <3>3. entries'[Slot(s)] = [available |-> TRUE, resending |-> FALSE, seqnum |-> s]
      BY <1>1, <1>3 DEF Store, BufferTypeOK, Cleared
    <3>4. Held' = {s}
      BY <1>1, <3>2, <3>3, SlotType DEF Held
    <3>5. Held = {} \/ Abstract!Ahead(s) >= RAOP_BUFFER_LENGTH
      <4>1. CASE is_empty
        BY <4>1, SlotType DEF WindowInv, Held
      <4>2. CASE ~is_empty /\ Overrun(s)
        <5>1. Offset(s) >= 0
          BY <1>1, <1>3, <4>2, CmpRange DEF TooLate, Offset, BufferTypeOK
        <5>2. Offset(s) >= RAOP_BUFFER_LENGTH
          <6>. SUFFICES ASSUME Offset(s) < RAOP_BUFFER_LENGTH
                        PROVE  FALSE
            BY <1>1, CmpRange, SpaceFacts DEF Offset, BufferTypeOK
          <6>1. seqnum_cmp(s, Plus(first_seqnum, RAOP_BUFFER_LENGTH)) = Offset(s) - RAOP_BUFFER_LENGTH
            BY <1>1, <5>1, CmpRange, CmpShift, SpaceFacts DEF Offset, BufferTypeOK
          <6>. QED
            BY <1>1, <4>2, <6>1, CmpRange, SpaceFacts DEF Overrun, Offset, BufferTypeOK
        <5>. QED
          BY <1>1, <5>1, <5>2, AheadOffset
      <4>. QED
        BY <2>1, <4>1, <4>2 DEF BufferTypeOK
    <3>6. Abstract!Restart(s)
      BY <2>0, <3>1, <3>4, <3>5 DEF Abstract!Restart
    <3>. QED
      BY <1>1, <3>6 DEF Abstract!Next, Abstract!Number, Seqnum
  <2>2. CASE ~is_empty /\ ~Overrun(s)
    <3>1. Offset(s) >= 0 /\ Offset(s) < RAOP_BUFFER_LENGTH
      BY <1>1, <1>3, <2>2, CmpRange, InWindow DEF TooLate, Offset, BufferTypeOK
    <3>2. ~entries[Slot(s)].available
      BY <1>1, <1>3, <2>2, <3>1, SlotOwner DEF Duplicate
    <3>3. /\ entries' = [entries EXCEPT ![Slot(s)] =
                           [available |-> TRUE, resending |-> FALSE, seqnum |-> s]]
          /\ first_seqnum' = first_seqnum
      BY <1>3, <2>2 DEF Store
    <3>4. ASSUME NEW x \in Seqnum
          PROVE  x \in Held' <=> x \in Held \cup {s}
      <4>1. CASE Slot(x) = Slot(s)
        BY <1>1, <3>2, <3>3, <4>1 DEF Held, BufferTypeOK
      <4>2. CASE Slot(x) # Slot(s)
        BY <1>1, <3>3, <4>2, SlotType DEF Held, BufferTypeOK
      <4>. QED
        BY <4>1, <4>2
    <3>5. Held' = Held \cup {s}
      BY <1>1, <3>4 DEF Held
    <3>6. Abstract!Receive(s)
      BY <1>1, <2>0, <3>1, <3>3, <3>5, AheadOffset DEF Abstract!Receive
    <3>. QED
      BY <1>1, <3>6 DEF Abstract!Next, Abstract!Number, Seqnum
  <2>. QED
    BY <2>1, <2>2 DEF BufferTypeOK
<1>. QED
  BY <1>1, <1>2, <1>3 DEF raop_buffer_queue

LEMMA DequeueRefines ==
  ASSUME BufferTypeOK, WindowInv, NEW nr \in BOOLEAN, raop_buffer_dequeue(nr)
  PROVE  Abstract!Next
<1>1. CASE UNCHANGED buffer /\ out' = Nothing
  <2>1. Abstract!Refuse
    BY <1>1 DEF buffer, Held, Abstract!Refuse, Abstract!Nothing, Abstract!Result, Nothing, Result
  <2>. QED
    BY <2>1 DEF Abstract!Next
<1>2. CASE /\ first_seqnum' = Plus(first_seqnum, 1)
           /\ ~Head.available
           /\ out' = Result("silence", first_seqnum, 0)
           /\ UNCHANGED entries
  <2>1. Abstract!Skip
    BY <1>2, HeadHeld DEF Abstract!Skip, Abstract!Result, Abstract!Plus, Result, Plus, Held
  <2>. QED
    BY <2>1 DEF Abstract!Next
<1>3. CASE /\ first_seqnum' = Plus(first_seqnum, 1)
           /\ Head.available
           /\ out' = Result("frame", Head.seqnum, 0)
           /\ entries' = [entries EXCEPT ![Slot(first_seqnum)] = Emptied(Head)]
  <2>1. Head.seqnum = first_seqnum /\ first_seqnum \in Held
    BY <1>3, HeadOwner, HeadHeld
  <2>2. ASSUME NEW x \in Seqnum
        PROVE  x \in Held' <=> x \in Held \ {first_seqnum}
    <3>1. CASE Slot(x) = Slot(first_seqnum)
      <4>1. ~entries'[Slot(x)].available
        BY <1>3, <3>1, SlotType DEF Emptied, BufferTypeOK
      <4>2. x \in Held => x = first_seqnum
        BY <2>1, <3>1 DEF Held, Head
      <4>. QED
        BY <4>1, <4>2 DEF Held
    <3>2. CASE Slot(x) # Slot(first_seqnum)
      BY <1>3, <3>2, SlotType DEF Held, BufferTypeOK
    <3>. QED
      BY <3>1, <3>2
  <2>3. Held' = Held \ {first_seqnum}
    BY <2>2 DEF Held
  <2>4. Abstract!Deliver
    BY <1>3, <2>1, <2>3 DEF Abstract!Deliver, Abstract!Result, Abstract!Plus, Result, Plus
  <2>. QED
    BY <2>4 DEF Abstract!Next
<1>. QED
  BY <1>1, <1>2, <1>3 DEF raop_buffer_dequeue

LEMMA ResendRefines ==
  ASSUME BufferTypeOK, WindowInv, raop_buffer_handle_resends
  PROVE  Abstract!Next
<1>1. CASE UNCHANGED buffer /\ out' = Nothing
  <2>1. Abstract!Refuse
    BY <1>1 DEF buffer, Held, Abstract!Refuse, Abstract!Nothing, Abstract!Result, Nothing, Result
  <2>. QED
    BY <2>1 DEF Abstract!Next
<1>2. ASSUME NEW n \in 0 .. RAOP_BUFFER_LENGTH, GapLength(n),
             seqnum_cmp(first_seqnum, last_seqnum) < 0,
             entries' = [i \in Slots |->
                           IF \E k \in 0 .. n - 1 : i = Slot(Plus(first_seqnum, k))
                           THEN [entries[i] EXCEPT !.resending = TRUE]
                           ELSE entries[i]],
             out' = IF n = 0 THEN Nothing ELSE Result("resend", first_seqnum, n),
             UNCHANGED first_seqnum
      PROVE  Abstract!Next
  <2>1. \A x \in Seqnum : x \in Held' <=> x \in Held
    BY <1>2, SlotType, ResendSlots DEF Held
  <2>2. Held' = Held
    BY <2>1 DEF Held
  <2>3. CASE n = 0
    <3>1. Abstract!Refuse
      BY <1>2, <2>2, <2>3 DEF Abstract!Refuse, Abstract!Nothing, Abstract!Result, Nothing, Result
    <3>. QED
      BY <3>1 DEF Abstract!Next
  <2>4. CASE n # 0
    <3>1. \A k \in 0 .. n - 1 : ~entries[Slot(Plus(first_seqnum, k))].available
      BY <1>2 DEF GapLength, Askable
    <3>2. \A k \in 0 .. n - 1 : Plus(first_seqnum, k) \notin Held
      BY <3>1, HeldInWindow, SpaceFacts
    <3>3. Abstract!Request(n)
      BY <1>2, <2>2, <2>4, <3>2 DEF Abstract!Request, Abstract!Result, Abstract!Plus, Result, Plus
    <3>. QED
      BY <2>4, <3>3, SpaceFacts DEF Abstract!Next
  <2>. QED
    BY <2>3, <2>4
<1>. QED
  BY <1>1, <1>2 DEF raop_buffer_handle_resends

LEMMA FlushRefines ==
  ASSUME BufferTypeOK, WindowInv, NEW n \in Seqnum \cup {NoSeq}, raop_buffer_flush(n)
  PROVE  Abstract!Next
<1>1. \A i \in Slots : ~entries'[i].available
  BY ClearedType DEF raop_buffer_flush, BufferTypeOK
<1>2. Held' = {}
  BY <1>1, SlotType DEF Held
<1>3. first_seqnum' \in Seqnum
  BY DEF raop_buffer_flush, BufferTypeOK
<1>4. Abstract!Flush
  BY <1>2, <1>3 DEF Abstract!Flush, Abstract!Number, Seqnum, raop_buffer_flush,
     Abstract!Nothing, Abstract!Result, Nothing, Result
<1>. QED
  BY <1>4 DEF Abstract!Next

(* The buffer implements its abstract specification: its initial state is  *)
(* an initial state there, and each call is a step there or leaves the     *)
(* abstract state alone.                                                   *)
THEOREM BufferRefinement == BufferSpec => ImplementsJitterBuffer
<1>1. raop_buffer_init => Abstract!Init
  BY SlotType DEF raop_buffer_init, Held, Abstract!Init, Abstract!Nothing, Abstract!Result, Nothing, Result
<1>2. BufferTypeOK /\ WindowInv /\ [BufferNext]_bufferVars => [Abstract!Next]_(Abstract!vars)
  <2>. SUFFICES ASSUME BufferTypeOK, WindowInv, [BufferNext]_bufferVars
                PROVE  Abstract!Next \/ UNCHANGED Abstract!vars
    OBVIOUS
  <2>1. CASE UNCHANGED bufferVars
    BY <2>1 DEF bufferVars, buffer, Held, Abstract!vars
  <2>2. CASE BufferNext
    BY <2>2, QueueRefines, DequeueRefines, ResendRefines, FlushRefines DEF BufferNext
  <2>. QED
    BY <2>1, <2>2
<1>. QED
  BY <1>1, <1>2, TypeCorrect, WindowCorrect, PTL DEF BufferSpec, ImplementsJitterBuffer, Abstract!Spec

-----------------------------------------------------------------------------
(***************************************************************************)
(* The loop over the TCP stream keeps its place in it, for every size of   *)
(* packet[] and every stream of packets, however recv cuts it.             *)
(***************************************************************************)
Indices == 0 .. PacketLen - 1

(* The inductive invariant: packet[] holds the stream from the beginning   *)
(* of the next packet on, and no more of it than there is.                 *)
TcpInv ==
  /\ begin \in Streams
  /\ packet = [k \in Indices |-> packet[k]]
  /\ packetlen \in 0 .. PacketLen
  /\ queued \in 0 .. MaxSent
  /\ recvd \in Nat
  /\ recvd <= begin[MaxSent]
  /\ Framed

-----------------------------------------------------------------------------
(* What a stream is: packets begin in order, each after the four bytes of  *)
(* the one before it.                                                      *)
LEMMA StreamFacts ==
  ASSUME begin \in Streams
  PROVE  /\ begin \in [0 .. MaxSent -> Nat]
         /\ begin[0] = 0
         /\ \A m, n \in 0 .. MaxSent : m < n => begin[m] + 4 < begin[n]
         /\ MaxSent \in Nat \ {0}
         /\ PacketLen \in Nat /\ PacketLen > 4
BY TcpAssumption, StreamAssumption DEF TcpAssumption, StreamAssumption

(* The byte at a place between the beginnings of a packet and of the next. *)
LEMMA ByteIs ==
  ASSUME begin \in Streams, NEW n \in Packets, NEW p \in Nat,
         begin[n] <= p, p < begin[n + 1]
  PROVE  Byte(p) = <<n, p - begin[n]>>
<1> DEFINE In(m) == begin[m] <= p /\ p < begin[m + 1]
<1>1. MaxSent \in Nat /\ n \in 0 .. MaxSent /\ n + 1 \in 0 .. MaxSent
  BY StreamFacts DEF Packets
<1>2. ASSUME NEW m \in Packets, In(m)
      PROVE  m = n
  <2>1. m \in 0 .. MaxSent /\ m + 1 \in 0 .. MaxSent
    BY <1>1 DEF Packets
  <2>2. /\ begin[m] \in Nat /\ begin[n] \in Nat
        /\ begin[m + 1] \in Nat /\ begin[n + 1] \in Nat
    BY <1>1, <2>1, StreamFacts
  <2>3. CASE m < n
    <3>1. m + 1 = n \/ m + 1 < n
      BY <2>3, <2>1, <1>1
    <3>2. begin[m + 1] <= begin[n]
      BY <3>1, <2>1, <2>2, <1>1, StreamFacts
    <3> QED
      BY <3>2, <2>2, <1>2
  <2>4. CASE n < m
    <3>1. n + 1 = m \/ n + 1 < m
      BY <2>4, <2>1, <1>1
    <3>2. begin[n + 1] <= begin[m]
      BY <3>1, <2>1, <2>2, <1>1, StreamFacts
    <3> QED
      BY <3>2, <2>2, <1>2
  <2> QED
    BY <2>3, <2>4, <2>1, <1>1
<1>3. In(n)
  OBVIOUS
<1>4. (CHOOSE m \in Packets : In(m)) = n
  BY <1>2, <1>3
<1> QED
  BY <1>4 DEF Byte

(* As long as a byte is in packet[], the packet it begins with is one of   *)
(* the stream.                                                             *)
LEMMA NextPacket ==
  ASSUME TcpInv, packetlen > 0
  PROVE  /\ queued \in Packets
         /\ queued + 1 \in 0 .. MaxSent
         /\ begin[queued] \in Nat /\ begin[queued + 1] \in Nat
         /\ begin[queued] + 4 < begin[queued + 1]
<1>1. recvd = begin[queued] + packetlen /\ recvd <= begin[MaxSent]
  BY DEF TcpInv, Framed
<1>2. begin[queued] \in Nat /\ packetlen \in Nat /\ MaxSent \in Nat
  BY StreamFacts DEF TcpInv
<1>3. queued # MaxSent
  BY <1>1, <1>2
<1>4. queued \in Packets /\ queued + 1 \in 0 .. MaxSent
  BY <1>2, <1>3 DEF TcpInv, Packets
<1>5. begin[queued + 1] \in Nat /\ begin[queued] + 4 < begin[queued + 1]
  BY <1>4, <1>2, StreamFacts DEF TcpInv
<1> QED
  BY <1>2, <1>4, <1>5

(* With four bytes in packet[], they are the ones in front of the next     *)
(* packet: the magic bytes are there and the length is its own.            *)
LEMMA HeaderIsRead ==
  ASSUME TcpInv, packetlen >= 4
  PROVE  /\ HasMagic
         /\ rtplen = begin[queued + 1] - begin[queued] - 4
         /\ rtplen \in Nat
<1> DEFINE b == begin[queued]
<1>1. packetlen \in Nat /\ packetlen > 0
  BY DEF TcpInv
<1>2. /\ queued \in Packets /\ b \in Nat
      /\ begin[queued + 1] \in Nat /\ b + 4 < begin[queued + 1]
  BY <1>1, NextPacket
<1>3. ASSUME NEW k \in 0 .. 3
      PROVE  packet[k] = <<queued, k>>
  <2>1. k \in Nat /\ k < 4 /\ k \in 0 .. packetlen - 1
    BY <1>1
  <2>2. packet[k] = Byte(b + k)
    BY <2>1 DEF TcpInv, Framed
  <2>3. b + k \in Nat /\ b <= b + k /\ b + k < begin[queued + 1]
    BY <1>2, <2>1
  <2>4. Byte(b + k) = <<queued, b + k - b>>
    BY <1>2, <2>3, ByteIs DEF TcpInv
  <2> QED
    BY <2>1, <2>2, <2>4, <1>2
<1>4. packet[0] = <<queued, 0>> /\ packet[1] = <<queued, 1>> /\ packet[2] = <<queued, 2>>
  BY <1>3
<1>5. HasMagic
  BY <1>4 DEF HasMagic
<1>6. rtplen = begin[queued + 1] - b - 4
  BY <1>4 DEF rtplen
<1> QED
  BY <1>2, <1>5, <1>6

(* A complete packet in packet[] is the next one of the stream, whole.     *)
LEMMA PayloadIsNext ==
  ASSUME TcpInv, TcpComplete, rtplen > 0
  PROVE  Payload = queued
<1> DEFINE b == begin[queued]
<1>1. packetlen \in Nat /\ packetlen >= 4 /\ packetlen > 0
  BY DEF TcpInv, TcpComplete
<1>2. /\ queued \in Packets /\ b \in Nat
      /\ begin[queued + 1] \in Nat /\ b + 4 < begin[queued + 1]
  BY <1>1, NextPacket
<1>3. rtplen = begin[queued + 1] - b - 4 /\ rtplen \in Nat
  BY <1>1, HeaderIsRead
<1>4. ASSUME NEW k \in 4 .. 3 + rtplen
      PROVE  packet[k] = <<queued, k>>
  <2>1. k \in 0 .. packetlen - 1
    BY <1>1, <1>3 DEF TcpComplete
  <2>2. packet[k] = Byte(b + k)
    BY <2>1 DEF TcpInv, Framed
  <2>3. b + k \in Nat /\ b <= b + k /\ b + k < begin[queued + 1]
    BY <1>2, <1>3
  <2>4. Byte(b + k) = <<queued, b + k - b>>
    BY <2>3, <1>2, ByteIs DEF TcpInv
  <2> QED
    BY <2>2, <2>4, <1>2
<1>5. packet[4][1] = queued
  <2>1. 4 \in 4 .. 3 + rtplen
    BY <1>3
  <2> QED
    BY <2>1, <1>4
<1> QED
  BY <1>2, <1>3, <1>4, <1>5 DEF Payload

-----------------------------------------------------------------------------
LEMMA InitTcpInv == RtpInit => TcpInv
<1> SUFFICES ASSUME RtpInit PROVE TcpInv
  OBVIOUS
<1>1. begin \in Streams /\ packetlen = 0 /\ recvd = 0 /\ queued = 0
  BY DEF RtpInit
<1>2. packet = [k \in Indices |-> packet[k]]
  BY DEF RtpInit, Indices
<1>3. begin[0] = 0 /\ begin[MaxSent] \in Nat /\ MaxSent \in Nat /\ PacketLen \in Nat
  BY <1>1, StreamFacts
<1>4. Framed
  BY <1>1, <1>3 DEF Framed
<1> QED
  BY <1>1, <1>2, <1>3, <1>4 DEF TcpInv

(* recv appends to packet[] the bytes of the stream that come next.        *)
LEMMA RecvKeeps ==
  ASSUME TcpInv, TcpRecv, UNCHANGED begin
  PROVE  TcpInv'
<1>1. PICK n \in 1 .. PacketLen - packetlen :
        /\ recvd + n <= begin[MaxSent]
        /\ packet' = [k \in 0 .. PacketLen - 1 |->
                        IF k \in packetlen .. packetlen + n - 1
                        THEN Byte(recvd + k - packetlen) ELSE packet[k]]
        /\ packetlen' = packetlen + n
        /\ recvd' = recvd + n
  BY DEF TcpRecv
<1>2. /\ packetlen \in 0 .. PacketLen /\ recvd \in Nat /\ begin[queued] \in Nat
      /\ begin[MaxSent] \in Nat /\ PacketLen \in Nat
  BY StreamFacts DEF TcpInv
<1>3. queued' = queued /\ begin' = begin
  BY DEF TcpRecv
<1>4. packet' = [k \in Indices |-> packet'[k]]
  BY <1>1 DEF Indices
<1>5. recvd = begin[queued] + packetlen
  BY DEF TcpInv, Framed
<1>6. ASSUME NEW k \in 0 .. packetlen' - 1
      PROVE  packet'[k] = Byte(begin[queued] + k)
  <2>1. k \in 0 .. PacketLen - 1 /\ k \in Nat
    BY <1>1, <1>2
  <2>2. CASE k < packetlen
    <3>1. packet'[k] = packet[k]
      BY <2>1, <2>2, <1>1, <1>2
    <3>2. k \in 0 .. packetlen - 1
      BY <2>1, <2>2, <1>2
    <3>3. packet[k] = Byte(begin[queued] + k)
      BY <3>2 DEF TcpInv, Framed
    <3> QED
      BY <3>1, <3>3
  <2>3. CASE k >= packetlen
    <3>1. k \in packetlen .. packetlen + n - 1
      BY <2>1, <2>3, <1>1, <1>2
    <3>2. packet'[k] = Byte(recvd + k - packetlen)
      BY <3>1, <2>1, <1>1
    <3>3. recvd + k - packetlen = begin[queued] + k
      BY <1>5, <1>2, <2>1
    <3> QED
      BY <3>2, <3>3
  <2> QED
    BY <2>1, <2>2, <2>3, <1>2
<1>7. Framed'
  <2>1. recvd' = begin'[queued'] + packetlen'
    BY <1>1, <1>2, <1>3, <1>5
  <2>2. \A k \in 0 .. packetlen' - 1 : packet'[k] = Byte(begin'[queued'] + k)
    BY <1>6, <1>3
  <2> QED
    BY <2>1, <2>2, <1>3 DEF Framed, Byte
<1> QED
  BY <1>1, <1>2, <1>3, <1>4, <1>7 DEF TcpInv

(* memmove takes the packet and its four bytes out, and leaves the rest.   *)
LEMMA QueueKeeps ==
  ASSUME TcpInv, TcpQueue, UNCHANGED begin
  PROVE  TcpInv'
<1> DEFINE b == begin[queued]
           e == begin[queued + 1]
<1>1. packetlen \in 0 .. PacketLen /\ packetlen \in Nat /\ packetlen >= 4 /\ packetlen > 0
  BY StreamFacts DEF TcpInv, TcpQueue, TcpComplete
<1>2. /\ queued \in Packets /\ queued + 1 \in 0 .. MaxSent
      /\ b \in Nat /\ e \in Nat /\ b + 4 < e
  BY <1>1, NextPacket
<1>3. rtplen = e - b - 4 /\ rtplen \in Nat /\ packetlen >= 4 + rtplen
  BY <1>1, HeaderIsRead DEF TcpQueue, TcpComplete
<1>4. /\ queued' = queued + 1 /\ begin' = begin /\ recvd' = recvd
      /\ packetlen' = packetlen - 4 - rtplen /\ packet' = Moved
  BY DEF TcpQueue
<1>5. packet' = [k \in Indices |-> packet'[k]]
  BY <1>4 DEF Moved, Indices
<1>6. recvd = b + packetlen /\ PacketLen \in Nat /\ recvd \in Nat
  BY StreamFacts DEF TcpInv, Framed
<1>7. ASSUME NEW k \in 0 .. packetlen' - 1
      PROVE  packet'[k] = Byte(e + k)
  <2>1. /\ k \in 0 .. PacketLen - 1
        /\ k < packetlen - rtplen
        /\ k + 4 + rtplen < PacketLen
        /\ k + 4 + rtplen \in 0 .. packetlen - 1
    BY <1>1, <1>3, <1>4, <1>6
  <2>2. packet'[k] = packet[k + 4 + rtplen]
    BY <2>1, <1>1, <1>3, <1>4 DEF Moved
  <2>3. packet[k + 4 + rtplen] = Byte(b + (k + 4 + rtplen))
    BY <2>1 DEF TcpInv, Framed
  <2>4. b + (k + 4 + rtplen) = e + k
    BY <2>1, <1>2, <1>3
  <2> QED
    BY <2>2, <2>3, <2>4
<1>8. Framed'
  <2>1. recvd' = begin'[queued'] + packetlen'
    BY <1>1, <1>2, <1>3, <1>4, <1>6
  <2>2. begin'[queued'] = e
    BY <1>4
  <2>3. \A k \in 0 .. packetlen' - 1 : packet'[k] = Byte(begin'[queued'] + k)
    BY <1>7, <2>2
  <2> QED
    BY <2>1, <2>3, <1>4 DEF Framed, Byte
<1>9. packetlen' \in 0 .. PacketLen
  BY <1>1, <1>3, <1>4, <1>6
<1> QED
  BY <1>2, <1>4, <1>5, <1>6, <1>8, <1>9 DEF TcpInv

(* The other steps leave packet[] alone.                                   *)
LEMMA OthersKeep ==
  ASSUME TcpInv,
         UNCHANGED <<begin, packet, packetlen, recvd, queued>>
  PROVE  TcpInv'
BY DEF TcpInv, Framed, Byte, Indices

LEMMA NextTcpInv == TcpInv /\ [RtpNext]_rtpVars => TcpInv'
<1> SUFFICES ASSUME TcpInv, [RtpNext]_rtpVars PROVE TcpInv'
  OBVIOUS
<1> DEFINE Rest == UNCHANGED <<begin, packet, packetlen, recvd, queued>>
<1>1. CASE UNCHANGED rtpVars
  BY <1>1, OthersKeep DEF rtpVars, tcpVars
<1>2. CASE UNCHANGED <<use_udp, begin, tcpVars>>
  BY <1>2, OthersKeep DEF tcpVars
<1>3. CASE raop_rtp_thread_tcp /\ UNCHANGED <<use_udp, begin>>
  <2>1. CASE TcpSelectNothing
    BY <2>1, <1>3, OthersKeep DEF TcpSelectNothing, tcpVars
  <2>2. CASE TcpAccept
    BY <2>2, <1>3, OthersKeep DEF TcpAccept
  <2>3. CASE TcpReadable
    BY <2>3, <1>3, OthersKeep DEF TcpReadable, tcpVars
  <2>4. CASE TcpRecvFails
    BY <2>4, <1>3, OthersKeep DEF TcpRecvFails, tcpVars
  <2>5. CASE TcpRecv
    BY <2>5, <1>3, RecvKeeps
  <2>6. CASE TcpParseMore
    BY <2>6, <1>3, OthersKeep DEF TcpParseMore, tcpVars
  <2>7. CASE TcpParseFails
    BY <2>7, <1>3, OthersKeep DEF TcpParseFails, tcpVars
  <2>8. CASE TcpQueue
    BY <2>8, <1>3, QueueKeeps
  <2>9. CASE TcpDequeue
    BY <2>9, <1>3, OthersKeep DEF TcpDequeue, tcpVars
  <2> QED
    BY <1>3, <2>1, <2>2, <2>3, <2>4, <2>5, <2>6, <2>7, <2>8, <2>9 DEF raop_rtp_thread_tcp
<1> QED
  BY <1>1, <1>2, <1>3 DEF RtpNext

(* Wherever recv cuts the stream, packet[] begins with a packet.           *)
THEOREM StreamIsFramed == RtpSpec => []Framed
<1>1. TcpInv => Framed
  BY DEF TcpInv
<1> QED
  BY <1>1, InitTcpInv, NextTcpInv, PTL DEF RtpSpec

(* The payload of a packet is never empty: it is longer than its header.   *)
LEMMA StepsWhole ==
  ASSUME TcpInv, [RtpNext]_rtpVars
  PROVE  /\ queued' # queued => queued' = queued + 1 /\ Payload = queued
         /\ pc = "parse" /\ packetlen >= 4 => HasMagic
<1>1. pc = "parse" /\ packetlen >= 4 => HasMagic
  BY HeaderIsRead
<1>2. ASSUME queued' # queued
      PROVE  TcpQueue
  BY <1>2 DEF RtpNext, rtpVars, tcpVars, raop_rtp_thread_tcp, TcpSelectNothing, TcpAccept,
     TcpReadable, TcpRecvFails, TcpRecv, TcpParseMore, TcpParseFails, TcpDequeue
<1>3. ASSUME TcpQueue
      PROVE  queued' = queued + 1 /\ Payload = queued
  <2>1. TcpComplete /\ packetlen >= 4 /\ packetlen \in Nat
    BY <1>3, StreamFacts DEF TcpQueue, TcpComplete, TcpInv
  <2>2. rtplen = begin[queued + 1] - begin[queued] - 4
    BY <2>1, HeaderIsRead
  <2>3. rtplen > 0
    BY <2>1, <2>2, NextPacket
  <2> QED
    BY <1>3, <2>1, <2>3, PayloadIsNext DEF TcpQueue
<1> QED
  BY <1>1, <1>2, <1>3

(* Every call of raop_buffer_queue is given the next packet, whole.        *)
THEOREM PacketsAreWhole == RtpSpec => WholePackets
<1>1. TcpInv /\ [RtpNext]_rtpVars
        => [/\ queued' # queued => queued' = queued + 1 /\ Payload = queued
            /\ pc = "parse" /\ packetlen >= 4 => HasMagic]_rtpVars
  BY StepsWhole
<1> QED
  BY <1>1, InitTcpInv, NextTcpInv, PTL DEF RtpSpec, WholePackets

-----------------------------------------------------------------------------
(***************************************************************************)
(* The loops over the buffer.                                              *)
(***************************************************************************)
UdpPlaces == {"events", "select", "drain", "resend", "aborted"}
TcpPlaces == {"events", "select", "recv", "parse", "dequeue", "ended", "aborted"}

(* Packets are sent in their order, and are on their way for a while.      *)
Network ==
  /\ sent \in 0 .. MaxSent /\ received \in -1 .. sent - 1
  /\ sent <= received + MaxOutage + 1
  /\ \A n \in data \cup resent : n \in 0 .. sent - 1 /\ sent - n <= MaxDelay

(* A FLUSH names a packet that is not yet sent; until it is applied, at    *)
(* most one more packet is received.                                       *)
FlushPending ==
  /\ flush \in {NO_FLUSH, NoSeq} \cup 0 .. MaxSent
  /\ flush \in 0 .. MaxSent =>
       /\ flush <= sent
       /\ received < flush \/ (pc # "select" /\ received < flush + MaxOutage)

(* The head of the window, counted as packets are: h.  Every frame is as   *)
(* far from it as its sequence number says, what was played and what a     *)
(* flush left behind lie before it, and the last packet received is no     *)
(* farther ahead than StreamAssumption allows for.                         *)
HeadAt(h) ==
  /\ first_seqnum = SeqOf(h)
  /\ h + buflen <= sent
  /\ \E d \in {RAOP_BUFFER_LENGTH, MaxDelay, MaxOutage} : received < h + d
  /\ \A i \in Slots : entries[i].available => frame[i] = h + Offset(entries[i].seqnum)
  /\ played < h /\ barrier <= h

(* What was asked for is in the window, and its slot shows it.             *)
AskedMarked ==
  \A s \in asked :
    /\ s \in Seqnum /\ Offset(s) \in 0 .. RAOP_BUFFER_LENGTH - 1
    /\ entries[Slot(s)].available \/ entries[Slot(s)].resending

UdpInv ==
  /\ pc \in UdpPlaces
  /\ Network /\ FlushPending /\ AskedMarked
  /\ frame \in [Slots -> Int] /\ played \in Int /\ barrier \in Int
  /\ is_empty => played = -1 /\ barrier = -1
  /\ ~is_empty => \E h \in 0 .. MaxSent : HeadAt(h)

(* Nothing is in the slots, and nothing is waited for.                     *)
Drained ==
  /\ \A i \in Slots : ~entries[i].available
  /\ is_empty \/ buflen = 0

(* The TCP thread hands a packet out before it takes the next one; one     *)
(* that the buffer refused is missing.                                     *)
TcpOrder ==
  /\ pc \in TcpPlaces
  /\ no_resend /\ sent = 0 /\ received = -1 /\ asked = {}
  /\ flush \in {NO_FLUSH, NoSeq, 0}
  /\ frame \in [Slots -> Int] /\ played \in Int
  /\ pc # "dequeue" => Drained /\ played < queued
  /\ pc = "dequeue" =>
       /\ played < queued - 1
       /\ \/ Drained
          \/ /\ ~is_empty /\ buflen = 1 /\ Head.available
             /\ frame[Slot(first_seqnum)] = queued - 1

LoopInv ==
  /\ BufferTypeOK /\ WindowInv /\ TcpInv
  /\ buflen \in 0 .. RAOP_BUFFER_LENGTH
  /\ use_udp \in BOOLEAN /\ no_resend \in BOOLEAN
  /\ use_udp => UdpInv
  /\ ~use_udp => TcpOrder

-----------------------------------------------------------------------------
(* The counts of packets and their sequence numbers.                       *)
LEMMA NetworkFacts ==
  /\ MaxSent \in Nat \ {0}
  /\ StartSeq \in Seqnum
  /\ MaxDelay \in Nat /\ MaxOutage \in Nat
  /\ MaxOutage + RAOP_BUFFER_LENGTH <= HalfSeq
  /\ MaxOutage + MaxDelay <= HalfSeq
  /\ MaxOutage + MaxOutage <= HalfSeq
BY StreamAssumption DEF StreamAssumption

LEMMA SeqOfType ==
  ASSUME NEW n \in Int
  PROVE  SeqOf(n) \in Seqnum
<1>1. StartSeq + n \in Int /\ SeqMod \in Nat \ {0}
  BY NetworkFacts, SpaceFacts DEF Seqnum
<1> QED
  BY <1>1, SMT DEF SeqOf, Seqnum

LEMMA DivMod ==
  ASSUME NEW m \in Nat \ {0}, NEW x \in Int
  PROVE  x \div m \in Int /\ x % m \in 0 .. m - 1 /\ x = m * (x \div m) + (x % m)
<1>1. x \div m \in Int
  BY SMT
<1>2. x % m \in 0 .. m - 1
  BY SMT
<1>3. x = m * (x \div m) + (x % m)
  BY SMT
<1> QED
  BY <1>1, <1>2, <1>3

(* Less than half the space apart, packets are as far from each other as   *)
(* their sequence numbers say, wherever these wrap.                        *)
LEMMA CmpSeqOf ==
  ASSUME NEW a \in Int, NEW b \in Int, a - b >= -HalfSeq, a - b < HalfSeq
  PROVE  seqnum_cmp(SeqOf(a), SeqOf(b)) = a - b
<1> DEFINE m == SeqMod
           x == StartSeq + a
           y == StartSeq + b
           qx == x \div m
           qy == y \div m
           rx == x % m
           ry == y % m
           z == qx - qy
<1>1. m \in Nat \ {0} /\ x \in Int /\ y \in Int /\ m = 2 * HalfSeq /\ HalfSeq \in Nat
  BY NetworkFacts, SpaceFacts DEF Seqnum
<1>2. /\ qx \in Int /\ rx \in 0 .. m - 1 /\ x = m * qx + rx
      /\ qy \in Int /\ ry \in 0 .. m - 1 /\ y = m * qy + ry
  <2> HIDE DEF x, y, m
  <2> QED
    BY <1>1, DivMod
<1>3. z \in Int /\ a - b = m * z + (rx - ry)
  <2>1. x - y = a - b
    BY <1>1, NetworkFacts DEF Seqnum
  <2> HIDE DEF x, y, m, qx, qy, rx, ry
  <2>2. x - y = m * (qx - qy) + (rx - ry)
    BY <1>1, <1>2, SMT
  <2> QED
    BY <1>2, <2>1, <2>2
<1>4. z \in {-1, 0, 1}
  <2> HIDE DEF x, y, m, qx, qy, rx, ry, z
  <2>1. m * z < 2 * m /\ m * z > -(2 * m)
    BY <1>1, <1>2, <1>3
  <2>2. CASE z >= 2
    <3>1. m * z >= m * 2
      BY <1>1, <1>3, <2>2, SMT
    <3> QED
      BY <1>1, <1>3, <2>1, <3>1
  <2>3. CASE z =< -2
    <3>1. m * z =< -(m * 2)
      BY <1>1, <1>3, <2>3, SMT
    <3> QED
      BY <1>1, <1>3, <2>1, <3>1
  <2> QED
    BY <1>3, <2>2, <2>3
<1>5. a - b \in {rx - ry - m, rx - ry, rx - ry + m}
  <2> HIDE DEF x, y, m, qx, qy, rx, ry, z
  <2> QED
    <3>1. m * (-1) = -m /\ m * 0 = 0 /\ m * 1 = m
      BY <1>1
    <3> QED
      BY <1>1, <1>2, <1>3, <1>4, <3>1
<1>6. rx \in Seqnum /\ ry \in Seqnum /\ SeqOf(a) = rx /\ SeqOf(b) = ry
  BY <1>2 DEF SeqOf, Seqnum
<1>7. seqnum_cmp(rx, ry) = IF rx - ry >= HalfSeq THEN rx - ry - m
                           ELSE IF rx - ry < -HalfSeq THEN rx - ry + m ELSE rx - ry
  <2> HIDE DEF rx, ry
  <2> QED
    BY <1>6, CmpLinear
<1> HIDE DEF x, y, m, qx, qy, rx, ry, z
<1> QED
  BY <1>1, <1>2, <1>5, <1>6, <1>7

(* Numbers at the same distance from a third one are the same.             *)
LEMMA CmpInjective ==
  ASSUME NEW a \in Seqnum, NEW b \in Seqnum, NEW f \in Seqnum,
         seqnum_cmp(a, f) = seqnum_cmp(b, f)
  PROVE  a = b
<1>1. seqnum_cmp(a, b) = 0
  BY CmpDiff, CmpRange, SpaceFacts
<1> QED
  BY <1>1, CmpZero

LEMMA SeqOfNext ==
  ASSUME NEW h \in Int
  PROVE  Plus(SeqOf(h), 1) = SeqOf(h + 1)
<1>1. SeqOf(h) \in Seqnum /\ SeqOf(h + 1) \in Seqnum /\ Plus(SeqOf(h), 1) \in Seqnum
  BY SeqOfType, PlusLinear, SpaceFacts
<1>2. seqnum_cmp(Plus(SeqOf(h), 1), SeqOf(h)) = 1
  BY <1>1, CmpPlus, SpaceFacts
<1>3. seqnum_cmp(SeqOf(h + 1), SeqOf(h)) = 1
  BY CmpSeqOf, SpaceFacts
<1> QED
  BY <1>1, <1>2, <1>3, CmpInjective

-----------------------------------------------------------------------------
(***************************************************************************)
(* What the calls of the UDP loop do to the head of the window.            *)
(***************************************************************************)
(* A packet on its way is less than half the space away from the head.     *)
LEMMA PacketNearHead ==
  ASSUME NEW h \in 0 .. MaxSent, HeadAt(h), BufferTypeOK, WindowInv, ~is_empty,
         Network, NEW n \in data \cup resent
  PROVE  /\ n \in 0 .. sent - 1
         /\ Offset(SeqOf(n)) = n - h
         /\ n - h < HalfSeq
<1>1. /\ n \in 0 .. sent - 1 /\ sent - n <= MaxDelay
      /\ sent \in Nat /\ received \in Int /\ sent <= received + MaxOutage + 1
      /\ MaxSent \in Nat
  BY NetworkFacts DEF Network
<1>2. PICK d \in {RAOP_BUFFER_LENGTH, MaxDelay, MaxOutage} : received < h + d
  BY DEF HeadAt
<1>3. d \in Nat /\ MaxOutage + d <= HalfSeq /\ MaxOutage \in Nat /\ MaxDelay \in Nat
  BY NetworkFacts, SpaceFacts
<1>4. n - h < HalfSeq
  BY <1>1, <1>2, <1>3, SpaceFacts
<1>5. buflen \in 0 .. RAOP_BUFFER_LENGTH /\ h + buflen <= sent
  BY DEF WindowInv, HeadAt
<1>6. n - h >= -HalfSeq
  BY <1>1, <1>3, <1>5, SpaceFacts, NetworkFacts
<1>7. seqnum_cmp(SeqOf(n), SeqOf(h)) = n - h
  BY <1>1, <1>4, <1>6, CmpSeqOf
<1> QED
  BY <1>1, <1>4, <1>7 DEF Offset, HeadAt

(* A packet that is in one window with a number of the buffer's window is  *)
(* not beyond the latter.                                                  *)
LEMMA NearIsNoOverrun ==
  ASSUME first_seqnum \in Seqnum, NEW s \in Seqnum, NEW a \in Seqnum,
         Offset(a) \in 0 .. RAOP_BUFFER_LENGTH - 1,
         seqnum_cmp(a, s) \in 0 .. RAOP_BUFFER_LENGTH - 1
  PROVE  ~Overrun(s)
<1> DEFINE L == RAOP_BUFFER_LENGTH
           f == first_seqnum
<1>1. L \in Nat \ {0}
  BY SpaceFacts
<1>2. seqnum_cmp(s, f) = Offset(a) - seqnum_cmp(a, s)
  <2>1. /\ seqnum_cmp(s, f) = IF s - f >= HalfSeq THEN s - f - SeqMod
                               ELSE IF s - f < -HalfSeq THEN s - f + SeqMod ELSE s - f
        /\ Offset(a) = IF a - f >= HalfSeq THEN a - f - SeqMod
                       ELSE IF a - f < -HalfSeq THEN a - f + SeqMod ELSE a - f
        /\ seqnum_cmp(a, s) = IF a - s >= HalfSeq THEN a - s - SeqMod
                               ELSE IF a - s < -HalfSeq THEN a - s + SeqMod ELSE a - s
    BY CmpLinear DEF Offset
  <2> QED
    BY <2>1, SpaceFacts DEF Seqnum
<1>3. seqnum_cmp(s, Plus(f, L)) = Offset(a) - seqnum_cmp(a, s) - L
  BY <1>1, <1>2, CmpShift, SpaceFacts
<1> QED
  BY <1>1, <1>3 DEF Overrun

(* The packet that opens an empty buffer is its head.                      *)
LEMMA FirstHead ==
  ASSUME BufferTypeOK, WindowInv, is_empty, UdpInv,
         NEW n \in data \cup resent, QueuePacket(n), UNCHANGED <<sent, played, barrier>>
  PROVE  ~is_empty' /\ n \in 0 .. MaxSent /\ HeadAt(n)' /\ AskedMarked'
<1> DEFINE s == SeqOf(n)
<1>1. /\ n \in 0 .. sent - 1 /\ sent - n <= MaxDelay /\ sent \in 0 .. MaxSent
      /\ received \in -1 .. sent - 1 /\ MaxDelay \in Nat /\ MaxSent \in Nat
  BY NetworkFacts DEF UdpInv, Network
<1>2. s \in Seqnum /\ Slot(s) \in Slots
  BY <1>1, SeqOfType, SlotType
<1>3. ~TooLate(s) /\ ~Duplicate(s)
  BY <1>2 DEF TooLate, Duplicate, WindowInv
<1>4. Store(s) /\ frame' = [frame EXCEPT ![Slot(s)] = n]
  BY <1>3 DEF QueuePacket, raop_buffer_queue, Stored
<1>5. first_seqnum' = s /\ last_seqnum' = s /\ is_empty' = FALSE
  BY <1>2, <1>4, CmpSelf DEF Store
<1>6. buflen' = 1
  BY <1>2, <1>5, CmpSelf DEF buflen
<1>7. \A i \in Slots : ~Cleared[i].available /\ ~entries[i].available
  BY ClearedType DEF WindowInv, BufferTypeOK
<1>8. \A i \in Slots : i # Slot(s) => ~entries'[i].available
  BY <1>2, <1>4, <1>7 DEF Store, BufferTypeOK, Cleared
<1>9. entries'[Slot(s)].seqnum = s /\ frame'[Slot(s)] = n
  BY <1>2, <1>4 DEF Store, BufferTypeOK, Cleared, UdpInv
<1>10. \A i \in Slots : entries'[i].available => frame'[i] = n + seqnum_cmp(entries'[i].seqnum, s)
  BY <1>1, <1>2, <1>8, <1>9, CmpSelf
<1>11. \E d \in {RAOP_BUFFER_LENGTH, MaxDelay, MaxOutage} : received' < n + d
  <2>1. received' = n \/ received' = received
    BY DEF QueuePacket
  <2>2. CASE received' = n
    BY <2>2, <1>1, SpaceFacts
  <2>3. CASE received' = received
    <3>1. received < n + MaxDelay
      BY <1>1
    <3> QED
      BY <2>3, <3>1
  <2> QED
    BY <2>1, <2>2, <2>3
<1>12. played' < n /\ barrier' <= n
  BY <1>1 DEF UdpInv
<1>13. sent' = sent /\ SeqOf(n) = s
  OBVIOUS
<1>14. HeadAt(n)'
  BY <1>1, <1>5, <1>6, <1>10, <1>11, <1>12, <1>13 DEF HeadAt, Offset
<1>15. AskedMarked'
  <2> SUFFICES ASSUME NEW a \in asked'
               PROVE  /\ a \in Seqnum /\ seqnum_cmp(a, s) \in 0 .. RAOP_BUFFER_LENGTH - 1
                      /\ entries'[Slot(a)].available \/ entries'[Slot(a)].resending
    BY <1>5 DEF AskedMarked, Offset
  <2>1. a \in asked /\ seqnum_cmp(a, s) \in 0 .. RAOP_BUFFER_LENGTH - 1
    BY <1>5 DEF QueuePacket, StillAhead
  <2>2. /\ a \in Seqnum /\ Offset(a) \in 0 .. RAOP_BUFFER_LENGTH - 1 /\ Slot(a) \in Slots
        /\ entries[Slot(a)].available \/ entries[Slot(a)].resending
    BY <2>1, SlotType DEF UdpInv, AskedMarked
  <2>3. ~Overrun(s)
    <3> HIDE DEF s
    <3> QED
      BY <1>2, <2>1, <2>2, NearIsNoOverrun DEF BufferTypeOK
  <2>4. entries'[Slot(a)].available \/ entries'[Slot(a)].resending
    <3>1. CASE Slot(a) = Slot(s)
      BY <3>1, <1>2, <1>4, <2>3 DEF Store, BufferTypeOK
    <3>2. CASE Slot(a) # Slot(s)
      BY <3>2, <2>2, <2>3, <1>2, <1>4 DEF Store, BufferTypeOK
    <3> QED
      BY <3>1, <3>2
  <2> QED
    BY <2>1, <2>2, <2>4
<1> QED
  BY <1>1, <1>5, <1>14, <1>15

(* A packet far ahead is the new head.                                     *)
LEMMA OverrunHead ==
  ASSUME BufferTypeOK, WindowInv, ~is_empty, UdpInv, NEW h \in 0 .. MaxSent, HeadAt(h),
         NEW n \in data \cup resent, QueuePacket(n), UNCHANGED <<sent, played, barrier>>,
         ~TooLate(SeqOf(n)), Overrun(SeqOf(n))
  PROVE  ~is_empty' /\ n \in 0 .. MaxSent /\ HeadAt(n)' /\ asked' = {}
<1> DEFINE s == SeqOf(n)
           L == RAOP_BUFFER_LENGTH
<1>1. /\ n \in 0 .. sent - 1 /\ sent \in 0 .. MaxSent /\ h \in Nat /\ MaxSent \in Nat
      /\ received \in -1 .. sent - 1 /\ L \in Nat \ {0}
  BY NetworkFacts, SpaceFacts DEF UdpInv, Network
<1>2. s \in Seqnum /\ Slot(s) \in Slots /\ first_seqnum \in Seqnum
  BY <1>1, SeqOfType, SlotType DEF BufferTypeOK
<1>3. Offset(s) = n - h /\ n - h < HalfSeq
  BY PacketNearHead DEF UdpInv
<1>4. n - h >= L
  <2>1. n - h >= 0
    BY <1>1, <1>3 DEF TooLate, Offset
  <2>2. ASSUME n - h < L
        PROVE  FALSE
    <3>1. seqnum_cmp(s, Plus(first_seqnum, L)) = n - h - L
      BY <1>1, <1>2, <1>3, <2>1, <2>2, CmpShift, SpaceFacts DEF Offset
    <3> QED
      BY <3>1, <2>2, <1>1 DEF Overrun
  <2> QED
    BY <2>1, <2>2, <1>1
<1>5. Store(s) /\ frame' = [frame EXCEPT ![Slot(s)] = n]
  BY DEF QueuePacket, raop_buffer_queue, Stored
<1>6. first_seqnum' = s /\ last_seqnum' = s /\ is_empty' = FALSE
  <2>1. seqnum_cmp(s, Plus(s, -1)) = 1
    BY <1>2, CmpBelow
  <2> QED
    BY <1>5, <2>1 DEF Store
<1>7. buflen' = 1
  BY <1>2, <1>6, CmpSelf DEF buflen
<1>8. \A i \in Slots : i # Slot(s) => ~entries'[i].available
  BY <1>2, <1>5, ClearedType DEF Store, BufferTypeOK, Cleared
<1>9. entries'[Slot(s)].seqnum = s /\ frame'[Slot(s)] = n
  BY <1>2, <1>5 DEF Store, BufferTypeOK, Cleared, UdpInv
<1>10. \A i \in Slots : entries'[i].available => frame'[i] = n + seqnum_cmp(entries'[i].seqnum, s)
  BY <1>1, <1>2, <1>8, <1>9, CmpSelf
<1>11. \E d \in {RAOP_BUFFER_LENGTH, MaxDelay, MaxOutage} : received' < n + d
  <2>1. received' = n \/ received' = received
    BY DEF QueuePacket
  <2>2. CASE received' = n
    BY <2>2, <1>1
  <2>3. CASE received' = received
    <3>1. PICK d \in {RAOP_BUFFER_LENGTH, MaxDelay, MaxOutage} : received < h + d
      BY DEF HeadAt
    <3>2. d \in Nat
      BY NetworkFacts, <1>1
    <3>3. received < n + d
      BY <1>1, <1>4, <3>1, <3>2
    <3> QED
      BY <2>3, <3>3
  <2> QED
    BY <2>1, <2>2, <2>3
<1>12. played' < n /\ barrier' <= n
  BY <1>1, <1>4 DEF UdpInv, HeadAt
<1>13. HeadAt(n)'
  BY <1>1, <1>6, <1>7, <1>10, <1>11, <1>12 DEF HeadAt, Offset
<1>14. ASSUME NEW a \in asked'
       PROVE  FALSE
  <2>1. a \in asked /\ seqnum_cmp(a, s) \in 0 .. L - 1
    BY <1>6 DEF QueuePacket, StillAhead
  <2>2. a \in Seqnum /\ Offset(a) \in 0 .. L - 1
    BY <2>1 DEF UdpInv, AskedMarked
  <2>3. seqnum_cmp(a, s) = Offset(a) - (n - h)
    BY <1>1, <1>2, <1>3, <1>4, <2>2, CmpDiff, SpaceFacts DEF Offset
  <2> QED
    BY <1>1, <1>4, <2>1, <2>2, <2>3
<1> QED
  BY <1>1, <1>6, <1>13, <1>14

(* A packet for the window takes its place, and the head stays.            *)
LEMMA StoredHead ==
  ASSUME BufferTypeOK, WindowInv, ~is_empty, UdpInv, NEW h \in 0 .. MaxSent, HeadAt(h),
         NEW n \in data \cup resent, QueuePacket(n), UNCHANGED <<sent, played, barrier>>,
         ~TooLate(SeqOf(n)), ~Overrun(SeqOf(n)), ~Duplicate(SeqOf(n))
  PROVE  ~is_empty' /\ HeadAt(h)' /\ AskedMarked'
<1> DEFINE s == SeqOf(n)
           L == RAOP_BUFFER_LENGTH
<1>1. /\ n \in 0 .. sent - 1 /\ sent \in 0 .. MaxSent /\ h \in Nat /\ MaxSent \in Nat
      /\ received \in -1 .. sent - 1 /\ L \in Nat \ {0}
  BY NetworkFacts, SpaceFacts DEF UdpInv, Network
<1>2. s \in Seqnum /\ Slot(s) \in Slots /\ first_seqnum \in Seqnum /\ last_seqnum \in Seqnum
  BY <1>1, SeqOfType, SlotType DEF BufferTypeOK
<1>3. Offset(s) = n - h
  BY PacketNearHead DEF UdpInv
<1>4. n - h \in 0 .. L - 1
  <2>1. n - h >= 0
    BY <1>1, <1>3 DEF TooLate, Offset
  <2> QED
    BY <1>1, <1>2, <1>3, <2>1, InWindow
<1>5. /\ entries' = [entries EXCEPT ![Slot(s)] =
                       [available |-> TRUE, resending |-> FALSE, seqnum |-> s]]
      /\ first_seqnum' = first_seqnum /\ is_empty' = FALSE
      /\ last_seqnum' = IF seqnum_cmp(s, last_seqnum) > 0 THEN s ELSE last_seqnum
      /\ frame' = [frame EXCEPT ![Slot(s)] = n]
  BY DEF QueuePacket, raop_buffer_queue, Stored, Store
<1>6. h + buflen' <= sent
  <2>1. CASE last_seqnum' = s
    BY <2>1, <1>1, <1>3, <1>5 DEF buflen, Offset
  <2>2. CASE last_seqnum' = last_seqnum
    BY <2>2, <1>5 DEF buflen, HeadAt
  <2> QED
    BY <2>1, <2>2, <1>5
<1>7. \A i \in Slots : entries'[i].available => frame'[i] = h + seqnum_cmp(entries'[i].seqnum, first_seqnum)
  <2> SUFFICES ASSUME NEW i \in Slots, entries'[i].available
               PROVE  frame'[i] = h + seqnum_cmp(entries'[i].seqnum, first_seqnum)
    OBVIOUS
  <2>1. CASE i = Slot(s)
    <3>1. entries'[i].seqnum = s /\ frame'[i] = n
      BY <2>1, <1>2, <1>5 DEF BufferTypeOK, UdpInv
    <3> QED
      BY <3>1, <1>1, <1>3 DEF Offset
  <2>2. CASE i # Slot(s)
    <3>1. entries'[i] = entries[i] /\ frame'[i] = frame[i]
      BY <2>2, <1>2, <1>5 DEF BufferTypeOK, UdpInv
    <3> QED
      BY <3>1 DEF HeadAt, Offset
  <2> QED
    BY <2>1, <2>2
<1>8. \E d \in {L, MaxDelay, MaxOutage} : received' < h + d
  BY <1>1, <1>4 DEF QueuePacket, HeadAt
<1>9. HeadAt(h)'
  BY <1>5, <1>6, <1>7, <1>8 DEF HeadAt, Offset
<1>10. AskedMarked'
  <2> SUFFICES ASSUME NEW a \in asked'
               PROVE  /\ a \in Seqnum /\ Offset(a)' \in 0 .. L - 1
                      /\ entries'[Slot(a)].available \/ entries'[Slot(a)].resending
    BY DEF AskedMarked
  <2>1. a \in asked
    BY DEF QueuePacket, StillAhead
  <2>2. /\ a \in Seqnum /\ Offset(a) \in 0 .. L - 1 /\ Slot(a) \in Slots
        /\ entries[Slot(a)].available \/ entries[Slot(a)].resending
    BY <2>1, SlotType DEF UdpInv, AskedMarked
  <2>3. entries'[Slot(a)].available \/ entries'[Slot(a)].resending
    <3>1. CASE Slot(a) = Slot(s)
      BY <3>1, <1>2, <1>5 DEF BufferTypeOK
    <3>2. CASE Slot(a) # Slot(s)
      BY <3>2, <2>2, <1>2, <1>5 DEF BufferTypeOK
    <3> QED
      BY <3>1, <3>2
  <2> QED
    BY <1>5, <2>2, <2>3 DEF Offset
<1> QED
  BY <1>5, <1>9, <1>10

(* A packet that came too late, or a second time, changes nothing.         *)
LEMMA IgnoredHead ==
  ASSUME BufferTypeOK, WindowInv, ~is_empty, UdpInv, NEW h \in 0 .. MaxSent, HeadAt(h),
         NEW n \in data \cup resent, QueuePacket(n), UNCHANGED <<sent, played, barrier>>,
         \/ TooLate(SeqOf(n))
         \/ ~Overrun(SeqOf(n)) /\ Duplicate(SeqOf(n))
  PROVE  ~is_empty' /\ HeadAt(h)' /\ AskedMarked'
<1> DEFINE s == SeqOf(n)
           L == RAOP_BUFFER_LENGTH
<1>1. /\ n \in 0 .. sent - 1 /\ sent \in 0 .. MaxSent /\ h \in Nat /\ MaxSent \in Nat
      /\ received \in -1 .. sent - 1 /\ L \in Nat \ {0}
      /\ MaxDelay \in Nat /\ MaxOutage \in Nat
  BY NetworkFacts, SpaceFacts DEF UdpInv, Network
<1>2. s \in Seqnum /\ first_seqnum \in Seqnum
  BY <1>1, SeqOfType DEF BufferTypeOK
<1>3. Offset(s) = n - h
  BY PacketNearHead DEF UdpInv
<1>4. n - h < L
  <2>1. CASE n - h < 0
    BY <2>1, <1>1
  <2>2. CASE n - h >= 0
    <3>1. ~Overrun(s)
      BY <2>2, <1>1, <1>3 DEF TooLate, Offset
    <3> QED
      BY <2>2, <3>1, <1>2, <1>3, InWindow
  <2> QED
    BY <2>1, <2>2, <1>1
<1>5. UNCHANGED buffer /\ frame' = frame
  BY DEF QueuePacket, raop_buffer_queue, Stored
<1>6. \E d \in {L, MaxDelay, MaxOutage} : received' < h + d
  BY <1>1, <1>4 DEF QueuePacket, HeadAt
<1>7. HeadAt(h)'
  BY <1>5, <1>6 DEF HeadAt, Offset, buflen, buffer
<1>8. asked' \subseteq asked
  BY DEF QueuePacket, StillAhead
<1> QED
  BY <1>5, <1>7, <1>8 DEF AskedMarked, UdpInv, Offset, buffer

(* Every packet that is received leaves the head where the counts say.     *)
LEMMA QueueHead ==
  ASSUME BufferTypeOK, WindowInv, UdpInv,
         NEW n \in data \cup resent, QueuePacket(n), UNCHANGED <<sent, played, barrier>>
  PROVE  /\ ~is_empty' /\ (\E h \in 0 .. MaxSent : HeadAt(h))' /\ AskedMarked'
         /\ frame' \in [Slots -> Int]
         /\ received' \in -1 .. sent - 1 /\ received' >= received
         /\ received' = received \/ received' = n
<1>1. n \in 0 .. sent - 1 /\ received \in -1 .. sent - 1 /\ sent \in Nat
  BY NetworkFacts DEF UdpInv, Network
<1>2. frame' \in [Slots -> Int]
  <2>1. frame' = frame \/ frame' = [frame EXCEPT ![Slot(SeqOf(n))] = n]
    BY DEF QueuePacket
  <2> QED
    BY <1>1, <2>1 DEF UdpInv
<1>3. /\ received' \in -1 .. sent - 1 /\ received' >= received
      /\ received' = received \/ received' = n
  BY <1>1 DEF QueuePacket
<1>4. ~is_empty' /\ (\E h \in 0 .. MaxSent : HeadAt(h))' /\ AskedMarked'
  <2>1. CASE is_empty
    BY <2>1, FirstHead
  <2>2. CASE ~is_empty
    <3>1. PICK h \in 0 .. MaxSent : HeadAt(h)
      BY <2>2 DEF UdpInv
    <3>2. CASE ~TooLate(SeqOf(n)) /\ Overrun(SeqOf(n))
      BY <2>2, <3>1, <3>2, OverrunHead DEF AskedMarked
    <3>3. CASE ~TooLate(SeqOf(n)) /\ ~Overrun(SeqOf(n)) /\ ~Duplicate(SeqOf(n))
      BY <2>2, <3>1, <3>3, StoredHead
    <3>4. CASE TooLate(SeqOf(n)) \/ (~Overrun(SeqOf(n)) /\ Duplicate(SeqOf(n)))
      BY <2>2, <3>1, <3>4, IgnoredHead
    <3> QED
      BY <3>2, <3>3, <3>4
  <2> QED
    BY <2>1, <2>2 DEF BufferTypeOK
<1> QED
  BY <1>2, <1>3, <1>4

(* Handing out the head: the frame in it is the packet of the count h, so  *)
(* what is played is newer than all that was played before it.             *)
LEMMA DequeueHead ==
  ASSUME BufferTypeOK, WindowInv, UdpInv, ~is_empty, NEW h \in 0 .. MaxSent, HeadAt(h),
         NEW nr \in BOOLEAN, raop_buffer_dequeue(nr), out' # Nothing,
         played' = IF out'.kind = "frame" THEN frame[Slot(first_seqnum)] ELSE played,
         asked' = StillAhead(asked), UNCHANGED <<frame, sent, received, barrier>>
  PROVE  /\ ~is_empty' /\ h + 1 \in 0 .. MaxSent /\ HeadAt(h + 1)' /\ AskedMarked'
         /\ played' = played \/ played' = h
         /\ first_seqnum' # first_seqnum /\ out'.kind = "frame" => played' = h
<1> DEFINE L == RAOP_BUFFER_LENGTH
           f == first_seqnum
<1>1. /\ L \in Nat \ {0} /\ f \in Seqnum /\ Slot(f) \in Slots /\ last_seqnum \in Seqnum
      /\ h \in Nat /\ sent \in 0 .. MaxSent /\ MaxSent \in Nat /\ MaxDelay \in Nat
      /\ MaxOutage \in Nat /\ received \in Int /\ played \in Int /\ barrier \in Int
      /\ f = SeqOf(h)
  BY SpaceFacts, NetworkFacts, SlotType DEF BufferTypeOK, UdpInv, Network, HeadAt
<1>2. /\ buflen > 0 /\ first_seqnum' = Plus(f, 1) /\ UNCHANGED <<last_seqnum, is_empty>>
      /\ \/ ~Head.available /\ entries' = entries /\ out' = Result("silence", f, 0)
         \/ /\ Head.available /\ out' = Result("frame", Head.seqnum, 0)
            /\ entries' = [entries EXCEPT ![Slot(f)] = Emptied(Head)]
  BY DEF raop_buffer_dequeue
<1>3. buflen \in 1 .. L
  BY <1>1, <1>2 DEF WindowInv
<1>4. first_seqnum' = SeqOf(h + 1)
  BY <1>1, <1>2, SeqOfNext
<1>5. buflen' = buflen - 1
  BY <1>1, <1>2, <1>3, CmpRange, CmpShift, SpaceFacts DEF buflen
<1>6. out'.kind = "frame" => played' = h
  <2> SUFFICES ASSUME out'.kind = "frame"
               PROVE  played' = h
    OBVIOUS
  <2>1. Head.available
    BY <1>2 DEF Result
  <2>2. Head.seqnum = f
    BY <2>1, HeadOwner
  <2>3. frame[Slot(f)] = h + 0
    BY <2>1, <2>2, <1>1, CmpSelf DEF HeadAt, Head, Offset
  <2> QED
    BY <2>3, <1>1
<1>7. played' = played \/ played' = h
  BY <1>6
<1>8. ASSUME NEW i \in Slots, i # Slot(f)
      PROVE  entries'[i] = entries[i]
  BY <1>1, <1>2, <1>8 DEF BufferTypeOK
<1>9. ASSUME NEW s \in Seqnum, Offset(s) \in 0 .. L - 1, s # f
      PROVE  /\ Slot(s) # Slot(f)
             /\ seqnum_cmp(s, first_seqnum') = Offset(s) - 1
  BY <1>1, <1>2, <1>9, SlotInjective, CmpShift, SpaceFacts DEF Offset
<1>10. ASSUME NEW i \in Slots, entries'[i].available
       PROVE  frame[i] = h + 1 + seqnum_cmp(entries'[i].seqnum, first_seqnum')
  <2>1. i # Slot(f) /\ entries'[i] = entries[i]
    <3>1. CASE ~Head.available /\ entries' = entries
      BY <3>1, <1>10 DEF Head
    <3>2. CASE entries' = [entries EXCEPT ![Slot(f)] = Emptied(Head)]
      BY <3>2, <1>10, <1>1 DEF Emptied, BufferTypeOK
    <3> QED
      BY <1>2, <3>1, <3>2
  <2> DEFINE s == entries[i].seqnum
  <2>2. s \in Seqnum /\ Slot(s) = i /\ Offset(s) \in Int /\ 0 <= Offset(s) /\ Offset(s) < buflen
    <3>1. s \in Seqnum
      BY DEF BufferTypeOK, Entry
    <3>2. Offset(s) \in Int
      BY <3>1, <1>1, CmpRange DEF Offset
    <3> QED
      BY <3>1, <3>2, <2>1, <1>10 DEF WindowInv
  <2>3. seqnum_cmp(s, first_seqnum') = Offset(s) - 1
    <3> HIDE DEF s
    <3>1. s # f
      BY <2>1, <2>2
    <3> QED
      BY <2>2, <3>1, <1>1, <1>3, <1>9
  <2>4. frame[i] = h + Offset(s)
    BY <2>1, <1>10 DEF HeadAt
  <2> HIDE DEF s
  <2>5. frame[i] = h + 1 + seqnum_cmp(s, first_seqnum')
    BY <2>2, <2>3, <2>4, <1>1
  <2> QED
    BY <2>1, <2>5 DEF s
<1>11. \E d \in {L, MaxDelay, MaxOutage} : received < h + 1 + d
  <2>1. PICK d \in {L, MaxDelay, MaxOutage} : received < h + d
    BY DEF HeadAt
  <2>2. d \in Nat
    BY <1>1
  <2>3. received < h + 1 + d
    BY <1>1, <2>1, <2>2
  <2> QED
    BY <2>3
<1>12. h + 1 + buflen' <= sent
  BY <1>1, <1>3, <1>5 DEF HeadAt
<1>13. played' < h + 1 /\ barrier <= h + 1
  BY <1>1, <1>7 DEF HeadAt
<1>14. HeadAt(h + 1)'
  BY <1>4, <1>10, <1>11, <1>12, <1>13 DEF HeadAt, Offset
<1>15. AskedMarked'
  <2> SUFFICES ASSUME NEW a \in asked'
               PROVE  /\ a \in Seqnum /\ seqnum_cmp(a, first_seqnum') \in 0 .. L - 1
                      /\ entries'[Slot(a)].available \/ entries'[Slot(a)].resending
    BY DEF AskedMarked, Offset
  <2>1. a \in asked /\ seqnum_cmp(a, first_seqnum') \in 0 .. L - 1
    BY DEF StillAhead
  <2>2. /\ a \in Seqnum /\ Offset(a) \in 0 .. L - 1 /\ Slot(a) \in Slots
        /\ entries[Slot(a)].available \/ entries[Slot(a)].resending
    BY <2>1, SlotType DEF UdpInv, AskedMarked
  <2>3. a # f
    <3>1. seqnum_cmp(f, first_seqnum') = -1
      BY <1>1, <1>2, CmpSelf, CmpShift, SpaceFacts
    <3> QED
      BY <2>1, <3>1, <1>1
  <2>4. entries'[Slot(a)] = entries[Slot(a)]
    BY <2>2, <2>3, <1>8, <1>9
  <2> QED
    BY <2>1, <2>2, <2>4
<1>16. h + 1 \in 0 .. MaxSent
  BY <1>1, <1>3 DEF HeadAt
<1> QED
  BY <1>2, <1>6, <1>7, <1>14, <1>15, <1>16

(* Asking for packets marks the slots it asks for and moves nothing; none  *)
(* of them was marked.                                                     *)
LEMMA ResendHead ==
  ASSUME BufferTypeOK, WindowInv, UdpInv, buflen \in 0 .. RAOP_BUFFER_LENGTH, HandleResends
  PROVE  /\ is_empty' = is_empty /\ AskedMarked'
         /\ ~is_empty' => (\E h \in 0 .. MaxSent : HeadAt(h))'
         /\ out'.kind = "resend" => asked \cap Named(out') = {}
<1> DEFINE L == RAOP_BUFFER_LENGTH
           f == first_seqnum
<1>1. L \in Nat \ {0} /\ f \in Seqnum /\ buflen \in 0 .. L
  BY SpaceFacts DEF BufferTypeOK
<1>2. ~is_empty => \E h \in 0 .. MaxSent : HeadAt(h)
  BY DEF UdpInv
<1>3. UNCHANGED <<frame, sent, received, played, barrier>>
  BY DEF HandleResends
<1>4. CASE UNCHANGED buffer /\ out' = Nothing
  <2>1. asked' = asked
    BY <1>4 DEF HandleResends, Nothing, Result
  <2>2. AskedMarked'
    BY <1>4, <2>1 DEF AskedMarked, UdpInv, buffer, Offset
  <2>3. \A h \in 0 .. MaxSent : HeadAt(h) => HeadAt(h)'
    BY <1>3, <1>4 DEF HeadAt, buffer, buflen, Offset
  <2> QED
    BY <1>2, <1>4, <2>2, <2>3 DEF buffer, Nothing, Result
<1>5. ASSUME NEW n \in 0 .. L, GapLength(n),
             entries' = [i \in Slots |->
                           IF \E k \in 0 .. n - 1 : i = Slot(Plus(f, k))
                           THEN [entries[i] EXCEPT !.resending = TRUE]
                           ELSE entries[i]],
             out' = IF n = 0 THEN Nothing ELSE Result("resend", f, n),
             UNCHANGED <<first_seqnum, last_seqnum, is_empty>>
      PROVE  /\ is_empty' = is_empty /\ AskedMarked'
             /\ ~is_empty' => (\E h \in 0 .. MaxSent : HeadAt(h))'
             /\ out'.kind = "resend" => asked \cap Named(out') = {}
  <2>1. \A i \in Slots : /\ entries'[i].available = entries[i].available
                         /\ entries'[i].seqnum = entries[i].seqnum
                         /\ entries[i].resending => entries'[i].resending
    <3> SUFFICES ASSUME NEW i \in Slots
                 PROVE  /\ entries'[i].available = entries[i].available
                        /\ entries'[i].seqnum = entries[i].seqnum
                        /\ entries[i].resending => entries'[i].resending
      OBVIOUS
    <3>1. entries'[i] = entries[i] \/ entries'[i] = [entries[i] EXCEPT !.resending = TRUE]
      BY <1>5
    <3>2. entries[i] \in Entry
      BY DEF BufferTypeOK
    <3> QED
      BY <1>5, <3>1, <3>2, ResendSlots DEF Entry
  <2>2. \A h \in 0 .. MaxSent : HeadAt(h) => HeadAt(h)'
    BY <1>3, <1>5, <2>1 DEF HeadAt, buflen, Offset
  <2>3. n <= buflen - 1
    BY <1>1, <1>5, CmpRange DEF GapLength, buflen, BufferTypeOK
  <2>4. ASSUME NEW a, out'.kind = "resend", a \in Named(out')
        PROVE  /\ a \in Seqnum /\ Offset(a) \in 0 .. L - 1 /\ Slot(a) \in Slots
               /\ ~entries[Slot(a)].available /\ ~entries[Slot(a)].resending
               /\ entries'[Slot(a)].resending
    <3>1. out'.seqnum = f /\ out'.count = n
      BY <1>5, <2>4 DEF Nothing, Result
    <3>2. PICK k \in 0 .. n - 1 : a = Plus(f, k)
      BY <2>4, <3>1 DEF Named
    <3>3. k \in 0 .. L - 1 /\ Askable(k)
      BY <1>1, <1>5, <2>3, <3>2 DEF GapLength
    <3>4. a \in Seqnum /\ Offset(a) = k /\ Slot(a) \in Slots
      BY <1>1, <3>2, <3>3, PlusLinear, CmpPlus, SlotType DEF Offset
    <3>5. entries'[Slot(a)].resending
      <4>1. entries'[Slot(a)] = [entries[Slot(a)] EXCEPT !.resending = TRUE]
        BY <1>5, <3>2, <3>4
      <4>2. entries[Slot(a)] \in Entry
        BY <3>4 DEF BufferTypeOK
      <4> QED
        BY <4>1, <4>2 DEF Entry
    <3> QED
      BY <3>2, <3>3, <3>4, <3>5 DEF Askable
  <2>5. AskedMarked'
    <3> SUFFICES ASSUME NEW a \in asked'
                 PROVE  /\ a \in Seqnum /\ Offset(a) \in 0 .. L - 1
                        /\ entries'[Slot(a)].available \/ entries'[Slot(a)].resending
      BY <1>5 DEF AskedMarked, Offset
    <3>1. CASE a \in asked
      BY <3>1, <2>1, SlotType DEF UdpInv, AskedMarked
    <3>2. CASE a \notin asked
      <4>1. out'.kind = "resend" /\ a \in Named(out')
        BY <3>2 DEF HandleResends, SendRequest
      <4> QED
        BY <4>1, <2>4
    <3> QED
      BY <3>1, <3>2
  <2>6. ASSUME out'.kind = "resend", NEW a \in asked, a \in Named(out')
        PROVE  FALSE
    BY <2>4, <2>6 DEF UdpInv, AskedMarked
  <2> QED
    BY <1>2, <1>5, <2>2, <2>5, <2>6
<1> QED
  BY <1>4, <1>5 DEF HandleResends, raop_buffer_handle_resends

(* The packet that a flush names is the new head; without one nothing is.  *)
LEMMA FlushHead ==
  ASSUME BufferTypeOK, WindowInv, UdpInv, process_events
  PROVE  /\ is_empty' => played' = -1 /\ barrier' = -1
         /\ ~is_empty' => (\E h \in 0 .. MaxSent : HeadAt(h))'
         /\ AskedMarked' /\ played' \in Int /\ barrier' \in Int
<1>1. UNCHANGED <<frame, sent, received>> /\ pc = "events"
  BY DEF process_events, network
<1>2. CASE flush = NO_FLUSH
  <2>1. UNCHANGED <<bufferVars, history>>
    BY <1>2 DEF process_events
  <2> QED
    BY <1>1, <2>1 DEF UdpInv, HeadAt, AskedMarked, Offset, buflen, bufferVars, buffer, history
<1>3. CASE flush = NoSeq
  <2>1. /\ raop_buffer_flush(NoSeq) /\ played' = -1 /\ asked' = {}
        /\ barrier' = IF is_empty THEN -1 ELSE NoSeq
    BY <1>3 DEF process_events, NO_FLUSH, NoSeq
  <2>2. is_empty' /\ barrier' = -1
    BY <2>1 DEF raop_buffer_flush, NoSeq, Seqnum
  <2> QED
    BY <2>1, <2>2 DEF AskedMarked
<1>4. ASSUME NEW n \in 0 .. MaxSent, n = flush
      PROVE  /\ is_empty' => played' = -1 /\ barrier' = -1
             /\ ~is_empty' => HeadAt(n)'
             /\ AskedMarked' /\ played' \in Int /\ barrier' \in Int
  <2>1. /\ n \in Nat /\ sent \in 0 .. MaxSent /\ n <= sent /\ received \in Int
        /\ received < n \/ received < n + MaxOutage
        /\ RAOP_BUFFER_LENGTH \in Nat \ {0} /\ MaxOutage \in Nat
    BY <1>1, <1>4, NetworkFacts, SpaceFacts DEF UdpInv, Network, FlushPending
  <2>2. /\ raop_buffer_flush(SeqOf(n)) /\ played' = -1 /\ asked' = {}
        /\ barrier' = IF is_empty THEN -1 ELSE n
    BY <1>4, <2>1 DEF process_events, NO_FLUSH, NoSeq
  <2>3. SeqOf(n) \in Seqnum
    BY <2>1, SeqOfType
  <2>4. /\ first_seqnum' = SeqOf(n) /\ last_seqnum' = Plus(SeqOf(n), -1)
        /\ entries' = Cleared /\ is_empty' = is_empty
    BY <2>2, <2>3 DEF raop_buffer_flush
  <2>5. buflen' = 0
    BY <2>3, <2>4, CmpPlus, SpaceFacts DEF buflen
  <2>6. \A i \in Slots : ~entries'[i].available
    BY <2>4, ClearedType DEF BufferTypeOK
  <2>7. \E d \in {RAOP_BUFFER_LENGTH, MaxDelay, MaxOutage} : received < n + d
    BY <2>1
  <2>8. barrier' <= n /\ barrier' \in Int
    BY <2>1, <2>2
  <2>9. HeadAt(n)'
    BY <1>1, <2>1, <2>2, <2>4, <2>5, <2>6, <2>7, <2>8 DEF HeadAt
  <2> QED
    BY <1>4, <2>2, <2>4, <2>8, <2>9 DEF AskedMarked
<1> QED
  BY <1>2, <1>3, <1>4 DEF UdpInv, FlushPending

(* The loops call the buffer with sequence numbers and truth values only,  *)
(* so each of their steps is one of the buffer's, or leaves it alone.      *)
LEMMA BufferStep ==
  ASSUME LoopInv, [RtpNext]_rtpVars
  PROVE  [BufferNext]_bufferVars
<1>1. ASSUME process_events
      PROVE  [BufferNext]_bufferVars
  <2>1. flush = NoSeq \/ flush \in 0 .. MaxSent \/ flush = NO_FLUSH
    BY NetworkFacts DEF LoopInv, UdpInv, FlushPending, TcpOrder
  <2>2. CASE flush = NO_FLUSH
    BY <1>1, <2>2 DEF process_events
  <2>3. CASE flush # NO_FLUSH
    <3>1. (IF flush = NoSeq THEN flush ELSE SeqOf(flush)) \in Seqnum \cup {NoSeq}
      BY <2>1, <2>3, SeqOfType
    <3> QED
      BY <1>1, <2>3, <3>1 DEF process_events, BufferNext
  <2> QED
    BY <2>2, <2>3
<1>2. ASSUME NEW n \in data \cup resent, QueuePacket(n), use_udp
      PROVE  BufferNext
  <2>1. SeqOf(n) \in Seqnum
    BY <1>2, SeqOfType DEF LoopInv, UdpInv, Network
  <2> QED
    BY <1>2, <2>1 DEF QueuePacket, BufferNext
<1>3. ASSUME use_udp, Next
      PROVE  [BufferNext]_bufferVars
  <2>1. CASE Send \/ Lose \/ raop_rtp_flush \/ SelectNothing \/ ReceiveSync
    BY <2>1 DEF Send, Lose, raop_rtp_flush, SelectNothing, ReceiveSync
  <2>2. CASE ReceiveResent \/ ReceiveData
    BY <1>2, <1>3, <2>2 DEF ReceiveResent, ReceiveData
  <2>3. CASE Drain \/ HandleResends
    BY <2>3 DEF Drain, HandleResends, BufferNext, LoopInv
  <2>4. CASE ReceiveInvalid
    <3>1. 0 \in Seqnum
      BY SpaceFacts DEF Seqnum
    <3> QED
      BY <2>4, <3>1 DEF ReceiveInvalid, BufferNext
  <2>5. CASE Aborted
    BY <2>5 DEF Aborted, vars
  <2> QED
    BY <1>1, <1>3, <2>1, <2>2, <2>3, <2>4, <2>5 DEF Next
<1>4. ASSUME raop_rtp_thread_tcp
      PROVE  [BufferNext]_bufferVars
  <2>1. CASE TcpQueue
    <3>1. 0 \in Seqnum /\ (rtplen >= MinPayload) \in BOOLEAN
      BY SpaceFacts DEF Seqnum
    <3> QED
      BY <2>1, <3>1 DEF TcpQueue, BufferNext
  <2>2. CASE TcpDequeue
    BY <2>2 DEF TcpDequeue, BufferNext
  <2> QED
    BY <1>4, <2>1, <2>2 DEF raop_rtp_thread_tcp, TcpSelectNothing, TcpAccept, TcpReadable,
       TcpRecvFails, TcpRecv, TcpParseMore, TcpParseFails
<1>5. CASE UNCHANGED rtpVars
  BY <1>5 DEF rtpVars, vars
<1>6. raop_rtp_flush \/ Aborted => UNCHANGED bufferVars
  BY DEF raop_rtp_flush, Aborted, vars
<1> QED
  BY <1>1, <1>3, <1>4, <1>5, <1>6 DEF RtpNext

(* The bounds of the window are a window apart at most, in an empty buffer *)
(* too: there they are left over from before.                              *)
LEMMA BuflenStays ==
  ASSUME BufferTypeOK, buflen \in 0 .. RAOP_BUFFER_LENGTH, WindowInv', [BufferNext]_bufferVars
  PROVE  buflen' \in 0 .. RAOP_BUFFER_LENGTH
<1>1. CASE ~is_empty'
  BY <1>1 DEF WindowInv
<1>2. CASE UNCHANGED <<first_seqnum, last_seqnum>>
  BY <1>2 DEF buflen
<1>3. ASSUME is_empty', NEW n \in Seqnum \cup {NoSeq}, raop_buffer_flush(n)
      PROVE  buflen' \in 0 .. RAOP_BUFFER_LENGTH
  <2>1. CASE n \in Seqnum
    <3>1. first_seqnum' = n /\ last_seqnum' = Plus(n, -1)
      BY <1>3, <2>1 DEF raop_buffer_flush
    <3>2. buflen' = 0
      BY <2>1, <3>1, CmpPlus, SpaceFacts DEF buflen
    <3> QED
      BY <3>2, SpaceFacts
  <2>2. CASE n \notin Seqnum
    BY <1>2, <1>3, <2>2 DEF raop_buffer_flush
  <2> QED
    BY <2>1, <2>2
<1>4. ASSUME is_empty', NEW validlen \in BOOLEAN, NEW s \in Seqnum, NEW use_seqnum \in BOOLEAN,
             raop_buffer_queue(validlen, s, use_seqnum)
      PROVE  UNCHANGED <<first_seqnum, last_seqnum>>
  BY <1>4 DEF raop_buffer_queue, Store, buffer
<1>5. ASSUME is_empty', NEW nr \in BOOLEAN, raop_buffer_dequeue(nr)
      PROVE  UNCHANGED <<first_seqnum, last_seqnum>>
  BY <1>5 DEF raop_buffer_dequeue, buffer
<1>6. raop_buffer_handle_resends \/ UNCHANGED bufferVars => UNCHANGED <<first_seqnum, last_seqnum>>
  BY DEF raop_buffer_handle_resends, bufferVars, buffer
<1> QED
  BY <1>1, <1>2, <1>3, <1>4, <1>5, <1>6 DEF BufferNext

-----------------------------------------------------------------------------
(***************************************************************************)
(* The UDP loop.                                                           *)
(***************************************************************************)
(* A step that leaves the buffer and its history alone.                    *)
LEMMA UdpStays ==
  ASSUME BufferTypeOK, UdpInv, UNCHANGED <<buffer, frame, received, history>>,
         Network', FlushPending', pc' \in UdpPlaces,
         sent' \in Int, sent' >= sent
  PROVE  UdpInv'
<1>1. ~is_empty => (\E h \in 0 .. MaxSent : HeadAt(h))'
  <2> SUFFICES ASSUME NEW h \in 0 .. MaxSent, HeadAt(h)
               PROVE  HeadAt(h)'
    BY DEF UdpInv
  <2>1. h + buflen <= sent => h + buflen <= sent'
    <3>1. h \in Int /\ sent \in Int /\ buflen \in Int
      BY NetworkFacts, CmpRange DEF UdpInv, Network, buflen, BufferTypeOK
    <3> QED
      BY <3>1
  <2> QED
    BY <2>1 DEF HeadAt, buffer, buflen, Offset, history
<1>2. AskedMarked'
  BY DEF UdpInv, AskedMarked, buffer, Offset, history
<1> QED
  BY <1>1, <1>2 DEF UdpInv, history, buffer

LEMMA SendKeeps ==
  ASSUME BufferTypeOK, UdpInv, Send
  PROVE  UdpInv'
<1>1. /\ sent \in 0 .. MaxSent /\ received \in -1 .. sent - 1 /\ MaxSent \in Nat
      /\ sent' = sent + 1 /\ sent < MaxSent /\ sent - received <= MaxOutage
      /\ MaxOutage \in Nat
  BY NetworkFacts DEF UdpInv, Network, Send
<1>2. \A n \in data' \cup resent' : n \in 0 .. sent' - 1 /\ sent' - n <= MaxDelay
  BY <1>1 DEF Send, Recent, UdpInv, Network
<1>3. Network'
  <2>1. /\ sent' \in 0 .. MaxSent /\ received' \in -1 .. sent' - 1
        /\ sent' <= received' + MaxOutage + 1
    BY <1>1 DEF Send
  <2> QED
    BY <1>2, <2>1 DEF Network
<1>4. FlushPending'
  BY <1>1 DEF Send, UdpInv, FlushPending
<1> QED
  BY <1>1, <1>3, <1>4, UdpStays DEF Send, UdpInv, bufferVars

(* A packet is received while no flush waits that it could overtake.       *)
LEMMA ReceiveKeeps ==
  ASSUME BufferTypeOK, WindowInv, UdpInv, pc = "select", pc' \in {"events", "drain"},
         NEW n \in data \cup resent, QueuePacket(n),
         data' \subseteq data, resent' \subseteq resent,
         UNCHANGED <<flush, sent, played, barrier>>
  PROVE  UdpInv'
<1>1. /\ ~is_empty' /\ (\E h \in 0 .. MaxSent : HeadAt(h))' /\ AskedMarked'
      /\ frame' \in [Slots -> Int]
      /\ received' \in -1 .. sent - 1 /\ received' >= received
      /\ received' = received \/ received' = n
  BY QueueHead
<1>2. /\ sent \in 0 .. MaxSent /\ received \in -1 .. sent - 1 /\ MaxSent \in Nat
      /\ sent <= received + MaxOutage + 1 /\ n \in 0 .. sent - 1
      /\ MaxOutage \in Nat
  BY NetworkFacts DEF UdpInv, Network
<1>3. Network'
  <2>1. /\ sent' \in 0 .. MaxSent /\ received' \in -1 .. sent' - 1
        /\ sent' <= received' + MaxOutage + 1
    <3>1. sent' = sent
      OBVIOUS
    <3>2. /\ received \in Int /\ received' \in Int /\ sent \in Int /\ MaxOutage \in Int
          /\ sent <= received + MaxOutage + 1 /\ received' >= received
      BY <1>1, <1>2
    <3>3. \A a, b, c, d \in Int : c <= a + d + 1 /\ b >= a => c <= b + d + 1
      OBVIOUS
    <3>4. sent <= received' + MaxOutage + 1
      BY <3>2, <3>3
    <3> QED
      BY <1>1, <1>2, <3>1, <3>4
  <2>2. \A x \in data' \cup resent' : x \in 0 .. sent' - 1 /\ sent' - x <= MaxDelay
    BY DEF UdpInv, Network
  <2> QED
    BY <2>1, <2>2 DEF Network
<1>4. FlushPending'
  <2> SUFFICES ASSUME flush \in 0 .. MaxSent
               PROVE  flush <= sent /\ (received' < flush \/ received' < flush + MaxOutage)
    BY DEF UdpInv, FlushPending
  <2>1. flush <= sent /\ received < flush
    BY DEF UdpInv, FlushPending
  <2> QED
    BY <1>1, <1>2, <2>1
<1> QED
  BY <1>1, <1>3, <1>4 DEF UdpInv, UdpPlaces

LEMMA DrainKeeps ==
  ASSUME BufferTypeOK, WindowInv, UdpInv, no_resend \in BOOLEAN, Drain
  PROVE  UdpInv'
<1>1. /\ pc = "drain" /\ pc' \in {"drain", "events", "resend"}
      /\ UNCHANGED <<frame, flush, sent, data, resent, received, barrier>>
  BY DEF Drain, UdpInv, network
<1>2. Network' /\ FlushPending'
  BY <1>1 DEF UdpInv, Network, FlushPending
<1>3. CASE out' # Nothing
  <2>0. ~is_empty
    BY <1>3 DEF Drain, raop_buffer_dequeue
  <2>1. PICK h \in 0 .. MaxSent : HeadAt(h)
    BY <2>0 DEF UdpInv
  <2>2. /\ ~is_empty' /\ h + 1 \in 0 .. MaxSent /\ HeadAt(h + 1)' /\ AskedMarked'
        /\ played' = played \/ played' = h
    BY <1>1, <1>3, <2>0, <2>1, DequeueHead DEF Drain
  <2>3. pc' = "drain"
    BY <1>3 DEF Drain
  <2>4. (\E x \in 0 .. MaxSent : HeadAt(x))'
    BY <2>2
  <2> QED
    BY <1>1, <1>2, <2>2, <2>3, <2>4 DEF UdpInv, UdpPlaces
<1>4. CASE out' = Nothing
  <2>1. UNCHANGED buffer /\ played' = played
    BY <1>1, <1>4 DEF Drain, raop_buffer_dequeue, Nothing, Result
  <2>2. asked' \subseteq asked
    BY DEF Drain, StillAhead
  <2>3. AskedMarked'
    BY <2>1, <2>2 DEF UdpInv, AskedMarked, Offset, buffer
  <2>4. ~is_empty => (\E x \in 0 .. MaxSent : HeadAt(x))'
    BY <1>1, <2>1 DEF UdpInv, HeadAt, Offset, buflen, buffer
  <2> QED
    BY <1>1, <1>2, <2>1, <2>3, <2>4 DEF UdpInv, UdpPlaces, buffer
<1> QED
  BY <1>3, <1>4

(* A request is answered with packets that are not too old to be on their  *)
(* way.                                                                    *)
LEMMA HandleResendsKeeps ==
  ASSUME BufferTypeOK, WindowInv, UdpInv, buflen \in 0 .. RAOP_BUFFER_LENGTH, HandleResends
  PROVE  UdpInv'
<1>1. /\ is_empty' = is_empty /\ AskedMarked'
      /\ ~is_empty' => (\E h \in 0 .. MaxSent : HeadAt(h))'
  BY ResendHead
<1>2. /\ pc' = "events"
      /\ UNCHANGED <<frame, flush, sent, data, received, played, barrier>>
  BY DEF HandleResends
<1>3. \A n \in resent' : n \in resent \/ (n \in 0 .. sent - 1 /\ sent - n <= MaxDelay)
  BY DEF HandleResends, SendRequest, Recent
<1>4. Network' /\ FlushPending'
  BY <1>2, <1>3 DEF UdpInv, Network, FlushPending
<1> QED
  BY <1>1, <1>2, <1>4 DEF UdpInv, UdpPlaces

LEMMA EventsKeeps ==
  ASSUME BufferTypeOK, WindowInv, UdpInv, process_events
  PROVE  UdpInv'
<1>1. /\ is_empty' => played' = -1 /\ barrier' = -1
      /\ ~is_empty' => (\E h \in 0 .. MaxSent : HeadAt(h))'
      /\ AskedMarked' /\ played' \in Int /\ barrier' \in Int
  BY FlushHead
<1>2. pc' = "select" /\ flush' = NO_FLUSH /\ UNCHANGED <<frame, network>>
  BY DEF process_events
<1>3. Network' /\ FlushPending'
  BY <1>2 DEF UdpInv, Network, FlushPending, network, NO_FLUSH
<1> QED
  BY <1>1, <1>2, <1>3 DEF UdpInv, UdpPlaces

LEMMA UdpKeeps ==
  ASSUME BufferTypeOK, WindowInv, UdpInv, buflen \in 0 .. RAOP_BUFFER_LENGTH,
         no_resend \in BOOLEAN, [Next]_vars
  PROVE  UdpInv'
<1>1. /\ sent \in 0 .. MaxSent /\ received \in -1 .. sent - 1 /\ MaxSent \in Nat
      /\ pc \in UdpPlaces
  BY NetworkFacts DEF UdpInv, Network
<1>2. ASSUME UNCHANGED <<buffer, frame, flush, sent, received, history>>,
             data' \subseteq data, resent' \subseteq resent,
             pc' \in {pc, "events", "drain", "aborted"}
      PROVE  UdpInv'
  <2>1. Network'
    BY <1>2 DEF UdpInv, Network
  <2>2. FlushPending'
    BY <1>2 DEF UdpInv, FlushPending
  <2> QED
    BY <1>1, <1>2, <2>1, <2>2, UdpStays DEF UdpPlaces
<1>3. CASE UNCHANGED vars \/ Aborted
  BY <1>2, <1>3 DEF Aborted, vars, bufferVars, network
<1>4. CASE Send
  BY <1>4, SendKeeps
<1>5. CASE Lose
  BY <1>2, <1>5 DEF Lose, bufferVars
<1>6. CASE raop_rtp_flush
  <2>1. Network'
    BY <1>6 DEF raop_rtp_flush, UdpInv, Network, network
  <2>2. FlushPending'
    BY <1>1, <1>6 DEF raop_rtp_flush, FlushPending, network, NoSeq, NO_FLUSH
  <2> QED
    BY <1>1, <1>6, <2>1, <2>2, UdpStays DEF raop_rtp_flush, bufferVars, network
<1>7. CASE process_events
  BY <1>7, EventsKeeps
<1>8. CASE SelectNothing \/ ReceiveSync
  BY <1>2, <1>8 DEF SelectNothing, ReceiveSync, bufferVars, network
<1>9. CASE ReceiveResent \/ ReceiveData
  BY <1>9, ReceiveKeeps DEF ReceiveResent, ReceiveData
<1>10. CASE Drain
  BY <1>10, DrainKeeps
<1>11. CASE HandleResends
  BY <1>11, HandleResendsKeeps
<1>12. CASE ReceiveInvalid
  <2>1. UNCHANGED <<buffer, frame, flush, network, history>>
        /\ pc' \in {"events", "drain", "aborted"}
    BY <1>12 DEF ReceiveInvalid, raop_buffer_queue
  <2> QED
    BY <1>2, <2>1 DEF network
<1> QED
  BY <1>3, <1>4, <1>5, <1>6, <1>7, <1>8, <1>9, <1>10, <1>11, <1>12 DEF Next

-----------------------------------------------------------------------------
(***************************************************************************)
(* The TCP loop: one packet goes in and comes out before the next.         *)
(***************************************************************************)
LEMMA TcpQueueOrder ==
  ASSUME BufferTypeOK, WindowInv, TcpInv, TcpOrder, TcpQueue
  PROVE  TcpOrder'
<1> DEFINE f == first_seqnum
           L == RAOP_BUFFER_LENGTH
<1>1. /\ \A i \in Slots : ~entries[i].available
      /\ is_empty \/ buflen = 0
      /\ played < queued /\ played \in Int
      /\ queued' = queued + 1 /\ queued \in 0 .. MaxSent /\ MaxSent \in Nat
      /\ UNCHANGED <<no_resend, sent, received, asked, flush, played>>
  BY NetworkFacts DEF TcpOrder, Drained, TcpQueue, TcpInv, session, network, history
<1>2. CASE rtplen >= MinPayload
  <2>1. /\ f \in Seqnum /\ last_seqnum \in Seqnum /\ Slot(f) \in Slots
        /\ seqnum_cmp(f, f) = 0 /\ L \in Nat \ {0}
    BY SlotType, CmpSelf, SpaceFacts DEF BufferTypeOK
  <2>2. seqnum_cmp(f, Plus(f, L)) = -L
    BY <2>1, CmpShift, SpaceFacts
  <2>3. ~TooLate(f) /\ ~Overrun(f) /\ ~Duplicate(f)
    BY <1>1, <2>1, <2>2 DEF TooLate, Overrun, Duplicate
  <2>4. Store(f)
    BY <1>2, <2>3 DEF TcpQueue, raop_buffer_queue
  <2>5. ~is_empty => seqnum_cmp(f, last_seqnum) = 1
    <3> SUFFICES ASSUME ~is_empty
                 PROVE  seqnum_cmp(f, last_seqnum) = 1
      OBVIOUS
    <3>1. seqnum_cmp(last_seqnum, f) = -1
      BY <1>1, <2>1, CmpRange DEF buflen
    <3> QED
      BY <2>1, <3>1, CmpDiff, SpaceFacts
  <2>6. /\ first_seqnum' = f /\ last_seqnum' = f /\ is_empty' = FALSE
        /\ entries'[Slot(f)].available
    BY <2>1, <2>3, <2>4, <2>5 DEF Store, BufferTypeOK
  <2>7. buflen' = 1 /\ Head'.available
    BY <2>1, <2>6 DEF buflen, Head
  <2>8. rtplen > 0 /\ TcpComplete
    <3>1. TcpComplete /\ packetlen >= 4
      BY DEF TcpQueue, TcpComplete
    <3>2. rtplen \in Nat
      BY <3>1, HeaderIsRead
    <3> QED
      BY <1>2, <3>1, <3>2, TcpAssumption
  <2>9. Payload = queued
    BY <2>8, PayloadIsNext
  <2>10. frame' = [frame EXCEPT ![Slot(f)] = queued] /\ pc' = "dequeue"
    <3>1. ~(rtplen < MinPayload)
      BY <1>2, <2>8, HeaderIsRead, TcpAssumption DEF TcpComplete
    <3> QED
      BY <1>2, <2>9, <3>1 DEF TcpQueue
  <2>11. frame' \in [Slots -> Int] /\ frame'[Slot(first_seqnum')] = queued' - 1
    BY <1>1, <2>1, <2>6, <2>10 DEF TcpOrder
  <2> QED
    BY <1>1, <2>6, <2>7, <2>10, <2>11 DEF TcpOrder, TcpPlaces
<1>3. CASE ~(rtplen >= MinPayload)
  <2>1. UNCHANGED buffer /\ UNCHANGED frame /\ pc' \in {"dequeue", "aborted"}
    BY <1>3 DEF TcpQueue, raop_buffer_queue
  <2>2. Drained'
    BY <1>1, <2>1 DEF Drained, buflen, buffer
  <2>3. played' < queued' - 1 /\ played' < queued'
    BY <1>1
  <2> QED
    BY <1>1, <2>1, <2>2, <2>3 DEF TcpOrder, TcpPlaces
<1> QED
  BY <1>2, <1>3

(* The packet that was just put in is the one that is taken out, and       *)
(* nothing is left in the slots.                                           *)
LEMMA TcpDequeueHead ==
  ASSUME BufferTypeOK, WindowInv, TcpInv, TcpOrder, TcpDequeue, ~Drained
  PROVE  TcpOrder' /\ played < played' /\ Drained'
<1> DEFINE f == first_seqnum
<1>1. /\ ~is_empty /\ buflen = 1 /\ Head.available
      /\ frame[Slot(f)] = queued - 1
      /\ played < queued - 1 /\ played \in Int /\ queued \in Int
      /\ f \in Seqnum /\ Slot(f) \in Slots
      /\ UNCHANGED <<no_resend, sent, received, asked, flush, frame, queued>>
  BY SlotType DEF TcpOrder, TcpDequeue, TcpInv, BufferTypeOK, session, network, tcpVars
<1>2. /\ first_seqnum' = Plus(f, 1) /\ out' = Result("frame", Head.seqnum, 0)
      /\ entries' = [entries EXCEPT ![Slot(f)] = Emptied(Head)]
      /\ UNCHANGED <<last_seqnum, is_empty>>
  BY <1>1 DEF TcpDequeue, raop_buffer_dequeue, Waiting
<1>3. played' = queued - 1
  BY <1>1, <1>2 DEF TcpDequeue, Result
<1>4. ASSUME NEW i \in Slots
      PROVE  ~entries'[i].available
  <2>1. CASE i = Slot(f)
    BY <1>1, <1>2, <2>1 DEF Emptied, BufferTypeOK
  <2>2. CASE i # Slot(f)
    <3>1. entries'[i] = entries[i] /\ entries[i].seqnum \in Seqnum
      BY <1>2, <2>2 DEF BufferTypeOK, Entry
    <3>2. ASSUME entries[i].available
          PROVE  FALSE
      <4>1. /\ Slot(entries[i].seqnum) = i
            /\ 0 <= Offset(entries[i].seqnum) /\ Offset(entries[i].seqnum) < 1
        BY <1>1, <3>2 DEF WindowInv
      <4>2. Offset(entries[i].seqnum) = 0
        BY <1>1, <3>1, <4>1, CmpRange DEF Offset
      <4>3. entries[i].seqnum = f
        BY <1>1, <3>1, <4>2, CmpZero DEF Offset
      <4> QED
        BY <2>2, <4>1, <4>3
    <3> QED
      BY <3>1, <3>2
  <2> QED
    BY <2>1, <2>2
<1>5. buflen' = 0
  <2>1. seqnum_cmp(last_seqnum, f) = 0 /\ last_seqnum \in Seqnum
    BY <1>1, CmpRange DEF buflen, BufferTypeOK
  <2>2. seqnum_cmp(last_seqnum, Plus(f, 1)) = -1
    BY <1>1, <2>1, CmpShift, SpaceFacts
  <2> QED
    BY <1>2, <2>2 DEF buflen
<1>6. pc' = "events"
  BY DEF TcpDequeue
<1>7. Drained'
  BY <1>4, <1>5 DEF Drained
<1>8. TcpOrder'
  BY <1>1, <1>3, <1>6, <1>7 DEF TcpOrder, TcpPlaces
<1> QED
  BY <1>1, <1>3, <1>7, <1>8

LEMMA TcpDequeueOrder ==
  ASSUME BufferTypeOK, WindowInv, TcpInv, TcpOrder, TcpDequeue
  PROVE  /\ TcpOrder'
         /\ Plays => played < played' /\ Drained'
<1>1. CASE ~Drained
  BY <1>1, TcpDequeueHead
<1>2. CASE Drained
  <2>1. UNCHANGED buffer /\ out' = Nothing
    <3>1. is_empty \/ ~(buflen > 0)
      BY <1>2 DEF Drained
    <3> QED
      BY <3>1 DEF TcpDequeue, raop_buffer_dequeue
  <2>2. Drained' /\ out'.kind # "frame"
    BY <1>2, <2>1 DEF Drained, buffer, buflen, Nothing, Result
  <2>3. /\ UNCHANGED <<no_resend, sent, received, asked, flush, frame, queued, played>>
        /\ pc' = "events" /\ played < queued - 1 /\ played \in Int /\ queued \in Int
    BY <2>2 DEF TcpOrder, TcpDequeue, TcpInv, session, network, tcpVars
  <2>4. TcpOrder'
    BY <2>2, <2>3 DEF TcpOrder, TcpPlaces
  <2> QED
    BY <2>2, <2>4 DEF Plays
<1> QED
  BY <1>1, <1>2

LEMMA TcpEventsOrder ==
  ASSUME BufferTypeOK, WindowInv, TcpInv, TcpOrder, process_events, UNCHANGED queued
  PROVE  TcpOrder'
<1>1. /\ pc' = "select" /\ flush' = NO_FLUSH
      /\ UNCHANGED <<frame, no_resend, sent, received>>
      /\ \A i \in Slots : ~entries[i].available
      /\ is_empty \/ buflen = 0
      /\ played < queued /\ queued \in Nat
  BY DEF process_events, TcpOrder, Drained, TcpInv, session, network
<1>2. CASE flush = NO_FLUSH
  <2>1. UNCHANGED <<bufferVars, history>>
    BY <1>2 DEF process_events
  <2>2. is_empty' \/ buflen' = 0
    BY <1>1, <2>1 DEF buflen, bufferVars, buffer
  <2> QED
    BY <1>1, <2>1, <2>2 DEF TcpOrder, Drained, TcpPlaces, bufferVars, buffer, history
<1>3. ASSUME flush # NO_FLUSH
      PROVE  TcpOrder'
  <2> DEFINE n == IF flush = NoSeq THEN flush ELSE SeqOf(flush)
  <2>1. raop_buffer_flush(n) /\ played' = -1 /\ asked' = {}
    BY <1>3 DEF process_events
  <2>2. n \in Seqnum \cup {NoSeq}
    BY <1>3, SeqOfType DEF TcpOrder
  <2> HIDE DEF n
  <2>3. \A i \in Slots : ~entries'[i].available
    BY <2>1, ClearedType DEF raop_buffer_flush, BufferTypeOK
  <2>4. is_empty' \/ buflen' = 0
    <3>1. CASE n \in Seqnum
      <4>1. first_seqnum' = n /\ last_seqnum' = Plus(n, -1)
        BY <2>1, <3>1 DEF raop_buffer_flush
      <4> QED
        BY <3>1, <4>1, CmpPlus, SpaceFacts DEF buflen
    <3>2. CASE n \notin Seqnum
      BY <2>1, <3>2 DEF raop_buffer_flush
    <3> QED
      BY <3>1, <3>2
  <2>5. played' < queued'
    BY <1>1, <2>1
  <2> QED
    BY <1>1, <2>1, <2>3, <2>4, <2>5 DEF TcpOrder, Drained, TcpPlaces
<1> QED
  BY <1>2, <1>3

(* A step of the thread that calls neither of the two.                     *)
LEMMA TcpStays ==
  ASSUME TcpOrder, NEW from \in TcpPlaces \ {"dequeue"}, NEW to \in TcpPlaces \ {"dequeue"},
         TcpGoes(from, to), UNCHANGED <<bufferVars, queued>>
  PROVE  TcpOrder'
BY DEF TcpOrder, Drained, TcpGoes, TcpPlaces, bufferVars, buffer, buflen, session, network, history

LEMMA TcpKeeps ==
  ASSUME BufferTypeOK, WindowInv, TcpInv, TcpOrder, raop_rtp_thread_tcp
  PROVE  TcpOrder'
<1>1. {"events", "select", "recv", "parse", "ended", "aborted"} = TcpPlaces \ {"dequeue"}
  BY DEF TcpPlaces
<1>2. CASE TcpQueue
  BY <1>2, TcpQueueOrder
<1>3. CASE TcpDequeue
  BY <1>3, TcpDequeueOrder
<1>4. CASE TcpSelectNothing \/ TcpAccept \/ TcpReadable
  BY <1>1, <1>4, TcpStays DEF TcpSelectNothing, TcpAccept, TcpReadable, tcpVars
<1>5. CASE TcpRecvFails \/ TcpRecv \/ TcpParseMore \/ TcpParseFails
  BY <1>1, <1>5, TcpStays DEF TcpRecvFails, TcpRecv, TcpParseMore, TcpParseFails, tcpVars
<1> QED
  BY <1>2, <1>3, <1>4, <1>5 DEF raop_rtp_thread_tcp

-----------------------------------------------------------------------------
(***************************************************************************)
(* Both loops.                                                             *)
(***************************************************************************)
LEMMA InitLoop == RtpInit => LoopInv
<1> SUFFICES ASSUME RtpInit
             PROVE  LoopInv
  OBVIOUS
<1>1. BufferTypeOK /\ WindowInv /\ TcpInv
  BY InitType, InitWindow, InitTcpInv DEF RtpInit, Init
<1>2. /\ is_empty /\ frame \in [Slots -> Int] /\ \A i \in Slots : ~entries[i].available
      /\ MaxSent \in Nat /\ MaxOutage \in Nat
  BY NetworkFacts DEF RtpInit, Init, raop_buffer_init
<1>3. Network /\ FlushPending
  BY <1>2 DEF RtpInit, Init, Network, FlushPending, NO_FLUSH
<1>4. UdpInv
  BY <1>2, <1>3 DEF RtpInit, Init, UdpInv, UdpPlaces, AskedMarked
<1>5. ~use_udp => TcpOrder
  BY <1>2 DEF RtpInit, Init, TcpOrder, Drained, TcpPlaces
<1>6. buflen \in 0 .. RAOP_BUFFER_LENGTH
  <2>1. first_seqnum = 0 /\ last_seqnum = 0 /\ 0 \in Seqnum
    BY SpaceFacts DEF RtpInit, Init, raop_buffer_init, Seqnum
  <2>2. buflen = 1
    BY <2>1, CmpSelf DEF buflen
  <2> QED
    BY <2>2, SpaceFacts
<1> QED
  BY <1>1, <1>4, <1>5, <1>6 DEF RtpInit, Init, LoopInv

LEMMA NextLoop == LoopInv /\ [RtpNext]_rtpVars => LoopInv'
<1> SUFFICES ASSUME LoopInv, [RtpNext]_rtpVars
             PROVE  LoopInv'
  OBVIOUS
<1>1. BufferTypeOK' /\ WindowInv'
  BY BufferStep, NextType, NextWindow DEF LoopInv
<1>2. TcpInv'
  BY NextTcpInv DEF LoopInv
<1>3. use_udp' = use_udp
  BY DEF RtpNext, rtpVars
<1>4. no_resend' = no_resend
  <2>1. Next => no_resend' = no_resend
    BY DEF Next, Send, Lose, raop_rtp_flush, process_events, SelectNothing, ReceiveSync,
       ReceiveResent, ReceiveData, ReceiveInvalid, Drain, HandleResends, Aborted, vars, session
  <2>2. raop_rtp_thread_tcp => no_resend' = no_resend
    BY DEF raop_rtp_thread_tcp, TcpGoes, TcpSelectNothing, TcpAccept, TcpReadable, TcpRecvFails,
       TcpRecv, TcpParseMore, TcpParseFails, TcpQueue, TcpDequeue, session
  <2>3. process_events \/ raop_rtp_flush \/ Aborted => no_resend' = no_resend
    BY DEF process_events, raop_rtp_flush, Aborted, vars, session
  <2> QED
    BY <2>1, <2>2, <2>3 DEF RtpNext, rtpVars, vars, session
<1>5. ASSUME use_udp
      PROVE  UdpInv'
  <2>1. [Next]_vars
    BY <1>5 DEF RtpNext, rtpVars
  <2> QED
    BY <1>5, <2>1, UdpKeeps DEF LoopInv
<1>6. ASSUME ~use_udp
      PROVE  TcpOrder'
  <2>1. CASE raop_rtp_thread_tcp
    BY <1>6, <2>1, TcpKeeps DEF LoopInv
  <2>2. CASE process_events /\ UNCHANGED tcpVars
    BY <1>6, <2>2, TcpEventsOrder DEF LoopInv, tcpVars
  <2>3. CASE raop_rtp_flush /\ UNCHANGED tcpVars
    <3>1. TcpOrder /\ flush' \in {0, NoSeq} /\ UNCHANGED <<bufferVars, frame, pc, session, network, history, queued>>
      BY <1>6, <2>3 DEF LoopInv, TcpOrder, raop_rtp_flush, tcpVars
    <3> QED
      BY <3>1 DEF TcpOrder, Drained, bufferVars, buffer, buflen, Head, session, network, history
  <2>4. CASE UNCHANGED rtpVars \/ (Aborted /\ UNCHANGED tcpVars)
    <3>1. TcpOrder /\ UNCHANGED <<bufferVars, frame, pc, flush, session, network, history, queued>>
      BY <1>6, <2>4 DEF LoopInv, Aborted, rtpVars, vars, tcpVars
    <3> QED
      BY <3>1 DEF TcpOrder, Drained, bufferVars, buffer, buflen, Head, session, network, history
  <2> QED
    BY <1>6, <2>1, <2>2, <2>3, <2>4 DEF RtpNext
<1>7. buflen' \in 0 .. RAOP_BUFFER_LENGTH
  BY <1>1, BufferStep, BuflenStays DEF LoopInv
<1> QED
  BY <1>1, <1>2, <1>3, <1>4, <1>5, <1>6, <1>7 DEF LoopInv

LEMMA LoopAlways == RtpSpec => []LoopInv
BY InitLoop, NextLoop, PTL DEF RtpSpec

(* Both threads use the buffer as its interface is meant to be used: what  *)
(* is proved of BufferSpec holds in a session.                             *)
THEOREM LoopsUseBuffer == RtpSpec => BufferSpec
<1>1. RtpInit => raop_buffer_init
  BY DEF RtpInit, Init
<1>2. LoopInv /\ [RtpNext]_rtpVars => [BufferNext]_bufferVars
  BY BufferStep
<1> QED
  BY <1>1, <1>2, LoopAlways, PTL DEF RtpSpec, BufferSpec

(* Only these two actions hand a frame to audio_process.                   *)
LEMMA PlayingSteps ==
  ASSUME LoopInv, [RtpNext]_rtpVars, Plays
  PROVE  \/ use_udp /\ pc = "drain" /\ Drain
         \/ ~use_udp /\ pc = "dequeue" /\ TcpDequeue
<1>1. ASSUME Send \/ Lose \/ raop_rtp_flush \/ Aborted \/ UNCHANGED rtpVars
      PROVE  FALSE
  BY <1>1 DEF Send, Lose, raop_rtp_flush, Aborted, rtpVars, vars, bufferVars, buffer, Plays
<1>2. CASE use_udp
  <2>1. pc = "drain" /\ UdpInv
    BY <1>2 DEF LoopInv, UdpInv, UdpPlaces, Plays
  <2> QED
    BY <1>1, <1>2, <2>1 DEF RtpNext, Next, process_events, SelectNothing, ReceiveSync,
       ReceiveResent, ReceiveData, ReceiveInvalid, HandleResends
<1>3. CASE ~use_udp
  <2>1. pc = "dequeue"
    BY <1>3 DEF LoopInv, TcpOrder, TcpPlaces, Plays
  <2> QED
    BY <1>1, <1>3, <2>1 DEF RtpNext, process_events, raop_rtp_thread_tcp, TcpGoes, TcpSelectNothing,
       TcpAccept, TcpReadable, TcpRecvFails, TcpRecv, TcpParseMore, TcpParseFails, TcpQueue
<1> QED
  BY <1>2, <1>3

(* What the UDP loop plays is the packet at the head.                      *)
LEMMA DrainPlaysHead ==
  ASSUME LoopInv, use_udp, Drain, Plays
  PROVE  \E h \in 0 .. MaxSent : HeadAt(h) /\ HeadAt(h + 1)' /\ played' = h
<1>1. ~is_empty /\ BufferTypeOK /\ WindowInv /\ UdpInv /\ no_resend \in BOOLEAN
  BY DEF LoopInv, Plays, Drain, raop_buffer_dequeue, Nothing, Result
<1>2. PICK h \in 0 .. MaxSent : HeadAt(h)
  BY <1>1 DEF UdpInv
<1>3. out' # Nothing /\ first_seqnum' # first_seqnum /\ out'.kind = "frame"
  BY DEF Plays, Nothing, Result
<1>4. played' = h /\ HeadAt(h + 1)'
  BY <1>1, <1>2, <1>3, DequeueHead DEF Drain, network
<1> QED
  BY <1>2, <1>4

(* Whatever the network does and wherever the sequence numbers wrap, the   *)
(* packets that are played between two flushes have rising counts.         *)
THEOREM SoundKeepsOrder == RtpSpec => PlayedInOrder
<1>1. ASSUME LoopInv, [RtpNext]_rtpVars, Plays
      PROVE  played < played'
  <2>1. CASE use_udp /\ Drain
    <3>1. PICK h \in 0 .. MaxSent : HeadAt(h) /\ played' = h
      BY <1>1, <2>1, DrainPlaysHead
    <3> QED
      BY <3>1 DEF HeadAt
  <2>2. CASE ~use_udp /\ TcpDequeue
    BY <1>1, <2>2, TcpDequeueOrder DEF LoopInv
  <2> QED
    BY <1>1, <2>1, <2>2, PlayingSteps
<1>2. LoopInv /\ [RtpNext]_rtpVars => [Plays => played < played']_vars
  BY <1>1
<1> QED
  BY <1>2, LoopAlways, PTL DEF RtpSpec, PlayedInOrder

(* After a flush that names a packet, the UDP loop plays nothing older.    *)
THEOREM FlushIsBarrier == RtpSpec => NothingFromBeforeFlush
<1>1. ASSUME LoopInv, [RtpNext]_rtpVars, Plays, pc = "drain"
      PROVE  barrier <= played'
  <2>1. use_udp /\ Drain
    BY <1>1, PlayingSteps
  <2>2. PICK h \in 0 .. MaxSent : HeadAt(h) /\ played' = h
    BY <1>1, <2>1, DrainPlaysHead
  <2> QED
    BY <2>2 DEF HeadAt
<1>2. LoopInv /\ [RtpNext]_rtpVars => [Plays /\ pc = "drain" => barrier <= played']_vars
  BY <1>1
<1> QED
  BY <1>2, LoopAlways, PTL DEF RtpSpec, NothingFromBeforeFlush

(* Whatever stays in the slots when a packet is played was recorded after  *)
(* it: with the UDP thread it is ahead of the head, with the TCP thread    *)
(* nothing stays.                                                          *)
THEOREM OldestGoesFirst == RtpSpec => NothingPassedOver
<1>1. ASSUME LoopInv, LoopInv', [RtpNext]_rtpVars, Plays,
             NEW i \in Slots, entries'[i].available
      PROVE  played' < frame'[i]
  <2>1. CASE use_udp /\ Drain
    <3>1. PICK h \in 0 .. MaxSent : HeadAt(h + 1)' /\ played' = h
      BY <1>1, <2>1, DrainPlaysHead
    <3>2. frame'[i] = h + 1 + Offset(entries[i].seqnum)'
      BY <1>1, <3>1 DEF HeadAt
    <3>3. /\ Offset(entries[i].seqnum)' \in Int
          /\ 0 <= Offset(entries[i].seqnum)'
      <4>1. entries'[i].seqnum \in Seqnum /\ first_seqnum' \in Seqnum
        BY <1>1 DEF LoopInv, BufferTypeOK, Entry
      <4>2. seqnum_cmp(entries'[i].seqnum, first_seqnum') \in Int
        BY <4>1, CmpRange
      <4> QED
        BY <1>1, <4>2 DEF LoopInv, WindowInv, Offset
    <3>4. h \in Int
      OBVIOUS
    <3> QED
      BY <3>1, <3>2, <3>3, <3>4
  <2>2. CASE ~use_udp /\ TcpDequeue
    BY <1>1, <2>2, TcpDequeueOrder DEF LoopInv, Drained
  <2> QED
    BY <1>1, <2>1, <2>2, PlayingSteps
<1>2. LoopInv /\ LoopInv' /\ [RtpNext]_rtpVars
        => [Plays => \A i \in Slots : entries'[i].available => played' < frame'[i]]_vars
  BY <1>1
<1> QED
  BY <1>2, LoopAlways, PTL DEF RtpSpec, NothingPassedOver

(* While a packet that was asked for is waited for, no request names it.   *)
THEOREM NothingAskedTwice == RtpSpec => AskedOnce
<1>1. ASSUME LoopInv, [RtpNext]_rtpVars, pc = "resend", pc' = "events", out'.kind = "resend"
      PROVE  asked \cap Named(out') = {}
  <2>1. use_udp
    BY <1>1 DEF LoopInv, TcpOrder, TcpPlaces
  <2>2. HandleResends
    BY <1>1, <2>1 DEF RtpNext, rtpVars, vars, Next, Send, Lose, raop_rtp_flush, process_events,
       SelectNothing, ReceiveSync, ReceiveResent, ReceiveData, ReceiveInvalid, Drain, Aborted
  <2> QED
    BY <1>1, <2>1, <2>2, ResendHead DEF LoopInv
<1>2. LoopInv /\ [RtpNext]_rtpVars
        => [pc = "resend" /\ pc' = "events" /\ out'.kind = "resend"
              => asked \cap Named(out') = {}]_vars
  BY <1>1
<1> QED
  BY <1>2, LoopAlways, PTL DEF RtpSpec, AskedOnce

-----------------------------------------------------------------------------
(***************************************************************************)
(* The types of the loops.  A byte of packet[] is a byte of a packet of    *)
(* the stream, because every place of the stream lies in the packet before *)
(* the first one that begins behind it.                                    *)
(***************************************************************************)

(* A set of numbers that is not empty has a least one.                     *)
LEMMA LeastNumber ==
  ASSUME NEW S, S \subseteq Nat, S # {}
  PROVE  \E m \in S : \A n \in S : m <= n
<1> DEFINE R == OpToRel(<, Nat)
<1>1. IsWellFoundedOn(R, Nat)
  BY NatLessThanWellFounded
<1>2. \A x \in Nat : \A y \in Nat : x < y => <<x, y>> \in R
  BY DEF OpToRel
<1> HIDE DEF R
<1>3. PICK m \in S : \A n \in S : ~(<<n, m>> \in R)
  BY <1>1, WFMin
<1>4. \A n \in S : n \in Nat /\ m \in Nat /\ ~(n < m)
  BY <1>2, <1>3
<1> QED
  BY <1>4

(* Every byte of a stream is in one of its packets.                        *)
LEMMA ByteType ==
  ASSUME begin \in Streams, NEW p \in Nat, p < begin[MaxSent]
  PROVE  Byte(p) \in Packets \X Nat
<1> DEFINE S == {m \in 0 .. MaxSent : p < begin[m]}
<1>1. MaxSent \in S /\ S \subseteq Nat
  BY StreamFacts
<1>2. PICK m \in S : \A n \in S : m <= n
  <2> HIDE DEF S
  <2> QED
    BY <1>1, LeastNumber
<1>3. m \in 0 .. MaxSent /\ p < begin[m] /\ m # 0 /\ MaxSent \in Nat
  BY StreamFacts
<1>4. m - 1 \in Packets /\ m - 1 \in 0 .. MaxSent /\ (m - 1) + 1 = m
  BY <1>3 DEF Packets
<1>5. begin[m - 1] <= p
  <2>1. m - 1 \notin S
    BY <1>2, <1>3
  <2>2. begin[m - 1] \in Nat
    BY <1>4, StreamFacts
  <2> QED
    BY <1>4, <2>1, <2>2
<1>6. Byte(p) = <<m - 1, p - begin[m - 1]>>
  BY <1>3, <1>4, <1>5, ByteIs
<1>7. p - begin[m - 1] \in Nat
  BY <1>4, <1>5, StreamFacts
<1> QED
  BY <1>4, <1>6, <1>7

(* What LoopInv says of the types already; the rest is what the loops      *)
(* remember.                                                               *)
LEMMA LoopTypes ==
  LoopInv => /\ BufferTypeOK
             /\ pc \in Places
             /\ flush \in {NO_FLUSH, NoSeq} \cup 0 .. MaxSent
             /\ no_resend \in BOOLEAN
             /\ sent \in 0 .. MaxSent
             /\ received \in -1 .. sent - 1
             /\ asked \subseteq Seqnum
             /\ use_udp \in BOOLEAN
             /\ packetlen \in 0 .. PacketLen
             /\ queued \in 0 .. MaxSent
<1> SUFFICES ASSUME LoopInv
             PROVE  /\ BufferTypeOK
                    /\ pc \in Places
                    /\ flush \in {NO_FLUSH, NoSeq} \cup 0 .. MaxSent
                    /\ no_resend \in BOOLEAN
                    /\ sent \in 0 .. MaxSent
                    /\ received \in -1 .. sent - 1
                    /\ asked \subseteq Seqnum
                    /\ use_udp \in BOOLEAN
                    /\ packetlen \in 0 .. PacketLen
                    /\ queued \in 0 .. MaxSent
  OBVIOUS
<1>1. BufferTypeOK /\ no_resend \in BOOLEAN /\ use_udp \in BOOLEAN
      /\ packetlen \in 0 .. PacketLen /\ queued \in 0 .. MaxSent
  BY DEF LoopInv, TcpInv
<1>2. CASE use_udp
  BY <1>1, <1>2 DEF LoopInv, UdpInv, UdpPlaces, Places, Network, FlushPending, AskedMarked
<1>3. CASE ~use_udp
  BY <1>1, <1>3, NetworkFacts DEF LoopInv, TcpOrder, TcpPlaces, Places
<1> QED
  BY <1>1, <1>2, <1>3

(* What the loops remember besides.                                        *)
Remembered ==
  /\ frame \in [Slots -> -1 .. MaxSent - 1]
  /\ has_addr \in BOOLEAN
  /\ data \subseteq 0 .. sent - 1 /\ resent \subseteq 0 .. sent - 1
  /\ played \in -1 .. MaxSent - 1
  /\ barrier \in -1 .. MaxSent
  /\ stream_fd \in BOOLEAN
  /\ packet \in [0 .. PacketLen - 1 -> (Packets \X Nat) \cup {Junk}]

(* Both loops begin with nothing remembered.                               *)
LEMMA InitRemembered == RtpInit => Remembered
<1> SUFFICES ASSUME RtpInit
             PROVE  Remembered
  OBVIOUS
<1>1. /\ frame \in [Slots -> -1 .. MaxSent - 1]
      /\ played \in -1 .. MaxSent - 1 /\ barrier \in -1 .. MaxSent
  BY NetworkFacts DEF RtpInit, Init
<1>2. packet \in [0 .. PacketLen - 1 -> (Packets \X Nat) \cup {Junk}]
  BY DEF RtpInit
<1> QED
  BY <1>1, <1>2 DEF RtpInit, Init, Remembered

(* A frame that is handed out was in a slot.                               *)
LEMMA FrameOfHead ==
  ASSUME BufferTypeOK, frame \in [Slots -> -1 .. MaxSent - 1]
  PROVE  frame[Slot(first_seqnum)] \in -1 .. MaxSent - 1
BY SlotType DEF BufferTypeOK

(* The UDP loop, the sender and the network keep the ranges.               *)
LEMMA UdpRemembers ==
  ASSUME LoopInv, LoopInv', Remembered, use_udp, Next, UNCHANGED <<use_udp, begin, tcpVars>>
  PROVE  Remembered'
<1>1. /\ data' \subseteq 0 .. sent' - 1 /\ resent' \subseteq 0 .. sent' - 1
  BY DEF LoopInv, UdpInv, Network
<1>2. stream_fd' = stream_fd /\ packet' = packet
  BY DEF tcpVars
<1>3. /\ MaxSent \in Nat
      /\ BufferTypeOK /\ sent \in 0 .. MaxSent
      /\ flush \in {NO_FLUSH, NoSeq} \cup 0 .. MaxSent
  BY LoopTypes, NetworkFacts
<1>4. CASE \/ Send \/ Lose \/ raop_rtp_flush \/ SelectNothing \/ ReceiveSync \/ ReceiveInvalid
           \/ HandleResends \/ Aborted
  <2>1. UNCHANGED <<frame, played, barrier>> /\ has_addr' \in {has_addr, TRUE}
    BY <1>4 DEF Send, Lose, raop_rtp_flush, SelectNothing, ReceiveSync, ReceiveInvalid,
                HandleResends, Aborted, vars, session, history
  <2> QED
    BY <1>1, <1>2, <2>1 DEF Remembered
<1>5. CASE process_events
  <2>1. UNCHANGED <<frame, has_addr>>
        /\ played' \in {played, -1}
        /\ \/ barrier' \in {barrier, -1}
           \/ barrier' = flush /\ flush # NO_FLUSH
    BY <1>5 DEF process_events, session, history
  <2> QED
    BY <1>1, <1>2, <1>3, <2>1 DEF Remembered, NoSeq
<1>6. CASE ReceiveResent \/ ReceiveData
  <2>1. PICK n \in data \cup resent : QueuePacket(n)
    BY <1>6 DEF ReceiveResent, ReceiveData
  <2>2. n \in -1 .. MaxSent - 1
    BY <1>3 DEF Remembered
  <2>3. frame' \in [Slots -> -1 .. MaxSent - 1]
    BY <2>1, <2>2 DEF QueuePacket, Remembered
  <2>4. UNCHANGED <<played, barrier>> /\ has_addr' \in {has_addr, TRUE}
    BY <1>6 DEF ReceiveResent, ReceiveData, session
  <2> QED
    BY <1>1, <1>2, <2>3, <2>4 DEF Remembered
<1>7. CASE Drain
  <2>1. UNCHANGED <<frame, has_addr, barrier>> /\ played' \in {played, frame[Slot(first_seqnum)]}
    BY <1>7 DEF Drain, session
  <2> QED
    BY <1>1, <1>2, <1>3, <2>1, FrameOfHead DEF Remembered
<1> QED
  BY <1>4, <1>5, <1>6, <1>7 DEF Next

(* The TCP loop keeps them: what recv brings are bytes of the stream, and  *)
(* what is queued is a packet of it.                                       *)
LEMMA TcpRemembers ==
  ASSUME LoopInv, LoopInv', Remembered,
         \/ (process_events \/ raop_rtp_flush \/ Aborted) /\ UNCHANGED <<use_udp, begin, tcpVars>>
         \/ raop_rtp_thread_tcp /\ UNCHANGED <<use_udp, begin>>,
         ~use_udp
  PROVE  Remembered'
<1>1. UNCHANGED <<has_addr, sent, data, resent>>
  BY DEF process_events, raop_rtp_flush, Aborted, vars, raop_rtp_thread_tcp, TcpSelectNothing, TcpAccept,
         TcpReadable, TcpRecvFails, TcpRecv, TcpParseMore, TcpParseFails, TcpQueue,
         TcpDequeue, TcpGoes, session, network
<1>2. /\ MaxSent \in Nat
      /\ BufferTypeOK
      /\ flush \in {NO_FLUSH, NoSeq} \cup 0 .. MaxSent
  BY LoopTypes, NetworkFacts
<1>3. CASE process_events /\ UNCHANGED tcpVars
  <2>1. /\ UNCHANGED <<frame, stream_fd, packet>>
        /\ played' \in {played, -1}
        /\ \/ barrier' \in {barrier, -1}
           \/ barrier' = flush /\ flush # NO_FLUSH
    BY <1>3 DEF process_events, history, tcpVars
  <2> QED
    BY <1>1, <1>2, <2>1 DEF Remembered, NoSeq
<1>4. CASE \/ (raop_rtp_flush \/ Aborted) /\ UNCHANGED tcpVars
           \/ TcpSelectNothing \/ TcpReadable \/ TcpRecvFails \/ TcpParseMore \/ TcpParseFails
  <2>1. UNCHANGED <<frame, stream_fd, packet, played, barrier>>
    BY <1>4 DEF raop_rtp_flush, Aborted, vars, TcpSelectNothing, TcpReadable, TcpRecvFails,
                TcpParseMore, TcpParseFails, TcpGoes, history, tcpVars
  <2> QED
    BY <1>1, <2>1 DEF Remembered
<1>5. CASE TcpAccept
  <2>1. UNCHANGED <<frame, packet, played, barrier>> /\ stream_fd' \in {stream_fd, TRUE}
    BY <1>5 DEF TcpAccept, TcpGoes, history
  <2> QED
    BY <1>1, <2>1 DEF Remembered
<1>6. CASE TcpRecv
  <2>1. UNCHANGED <<frame, stream_fd, played, barrier>>
    BY <1>6 DEF TcpRecv, TcpGoes, history
  <2>2. PICK n \in 1 .. PacketLen - packetlen :
          /\ recvd + n <= begin[MaxSent]
          /\ packet' = [k \in 0 .. PacketLen - 1 |->
                          IF k \in packetlen .. packetlen + n - 1
                          THEN Byte(recvd + k - packetlen) ELSE packet[k]]
    BY <1>6 DEF TcpRecv
  <2>3. /\ packetlen \in 0 .. PacketLen /\ recvd \in Nat /\ begin \in Streams /\ PacketLen \in Nat
        /\ MaxSent \in 0 .. MaxSent
    BY TcpAssumption, NetworkFacts DEF LoopInv, TcpInv
  <2>4. begin[MaxSent] \in Nat
    BY <2>3, StreamFacts
  <2>5. ASSUME NEW k \in packetlen .. packetlen + n - 1
        PROVE  Byte(recvd + k - packetlen) \in Packets \X Nat
    <3>1. recvd + k - packetlen \in Nat /\ recvd + k - packetlen < begin[MaxSent]
      BY <2>2, <2>3, <2>4
    <3> QED
      BY <2>3, <3>1, ByteType
  <2>6. packet' \in [0 .. PacketLen - 1 -> (Packets \X Nat) \cup {Junk}]
    BY <2>2, <2>5 DEF Remembered
  <2> QED
    BY <1>1, <2>1, <2>6 DEF Remembered
<1>7. CASE TcpQueue
  <2>1. UNCHANGED <<stream_fd, played, barrier>>
    BY <1>7 DEF TcpQueue, history
  <2>2. TcpInv /\ packetlen > 0 /\ pc = "parse" /\ TcpComplete
    BY <1>7, TcpAssumption DEF LoopInv, TcpInv, TcpQueue, TcpComplete
  <2>3. queued \in Packets /\ Payload = queued
    <3>1. queued \in Packets /\ begin[queued] + 4 < begin[queued + 1]
          /\ begin[queued] \in Nat /\ begin[queued + 1] \in Nat
      BY <2>2, NextPacket
    <3>2. rtplen = begin[queued + 1] - begin[queued] - 4
      BY <2>2, HeaderIsRead DEF TcpComplete
    <3>3. rtplen > 0
      BY <3>1, <3>2
    <3> QED
      BY <2>2, <3>1, <3>3, PayloadIsNext
  <2>4. frame' \in [Slots -> -1 .. MaxSent - 1]
    <3>1. Payload \in -1 .. MaxSent - 1
      BY <1>2, <2>3 DEF Packets
    <3> QED
      BY <1>7, <3>1 DEF TcpQueue, Remembered
  <2>5. packet' \in [0 .. PacketLen - 1 -> (Packets \X Nat) \cup {Junk}]
    <3>1. packetlen \in Int /\ PacketLen \in Nat /\ rtplen \in Nat
      BY <2>2, TcpAssumption, HeaderIsRead DEF TcpInv, TcpComplete
    <3>2. \A k \in 0 .. PacketLen - 1 : Moved[k] \in (Packets \X Nat) \cup {Junk}
      BY <3>1 DEF Moved, Remembered
    <3> QED
      BY <1>7, <3>2 DEF TcpQueue, Moved
  <2> QED
    BY <1>1, <2>1, <2>4, <2>5 DEF Remembered
<1>8. CASE TcpDequeue
  <2>1. UNCHANGED <<frame, stream_fd, packet, barrier>> /\ played' \in {played, frame[Slot(first_seqnum)]}
    BY <1>8 DEF TcpDequeue, tcpVars
  <2> QED
    BY <1>1, <1>2, <2>1, FrameOfHead DEF Remembered
<1> QED
  BY <1>3, <1>4, <1>5, <1>6, <1>7, <1>8 DEF raop_rtp_thread_tcp

(* Every step of either loop keeps them.                                   *)
LEMMA NextRemembered == LoopInv /\ LoopInv' /\ Remembered /\ [RtpNext]_rtpVars => Remembered'
<1> SUFFICES ASSUME LoopInv, LoopInv', Remembered, [RtpNext]_rtpVars
             PROVE  Remembered'
  OBVIOUS
<1>1. CASE UNCHANGED rtpVars
  BY <1>1 DEF Remembered, rtpVars, vars, tcpVars, session, network, history
<1>2. CASE use_udp /\ Next /\ UNCHANGED <<use_udp, begin, tcpVars>>
  BY <1>2, UdpRemembers
<1>3. CASE ~use_udp
  BY <1>1, <1>3, TcpRemembers DEF RtpNext
<1> QED
  BY <1>1, <1>2, <1>3 DEF RtpNext

(* With the UDP loop, what was played was sent.                            *)
LEMMA PlayedWasSent ==
  ASSUME LoopInv, Remembered, use_udp
  PROVE  played \in -1 .. sent - 1
<1>1. UdpInv /\ BufferTypeOK /\ WindowInv /\ sent \in Nat /\ played \in Int /\ played >= -1
  BY NetworkFacts DEF LoopInv, UdpInv, Network, Remembered
<1>2. CASE is_empty
  BY <1>1, <1>2 DEF UdpInv
<1>3. CASE ~is_empty
  <2>1. PICK h \in 0 .. MaxSent : h + buflen <= sent /\ played < h
    BY <1>1, <1>3 DEF UdpInv, HeadAt
  <2>2. buflen \in Nat
    BY <1>1, <1>3, SpaceFacts DEF WindowInv, buflen
  <2> QED
    BY <1>1, <2>1, <2>2, NetworkFacts
<1> QED
  BY <1>2, <1>3

(* Every variable of the loops stays in its range, with either thread, and *)
(* in the narrower one of RaopStream with the UDP thread.                  *)
THEOREM LoopTypeCorrect == RtpSpec => [](RtpTypeOK /\ (use_udp => TypeOK))
<1>1. RtpInit => Remembered
  BY InitRemembered
<1>2. LoopInv /\ LoopInv' /\ Remembered /\ [RtpNext]_rtpVars => Remembered'
  BY NextRemembered
<1>3. LoopInv /\ Remembered => RtpTypeOK
  BY LoopTypes DEF Remembered, RtpTypeOK
<1>4. LoopInv /\ Remembered /\ use_udp => TypeOK
  BY LoopTypes, PlayedWasSent DEF LoopInv, UdpInv, UdpPlaces, Remembered, TypeOK
<1> QED
  BY <1>1, <1>2, <1>3, <1>4, LoopAlways, PTL DEF RtpSpec
=============================================================================
