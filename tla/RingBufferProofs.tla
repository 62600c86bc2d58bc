-------------------------- MODULE RingBufferProofs --------------------------
(***************************************************************************)
(* Proofs about RingBuffer, for every size of the ring and every length of *)
(* a call: it is race free, and it implements ByteFifo.                    *)
(***************************************************************************)
EXTENDS RingBuffer, Sequences, SequenceTheorems, TLAPS

-----------------------------------------------------------------------------
(***************************************************************************)
(* Arithmetic: pointers modulo Size, in linear form.                       *)
(***************************************************************************)

(* A remainder needs at most one lap of correction either way.             *)
LEMMA ModOneLap ==
  ASSUME NEW m \in Nat \ {0}, NEW x \in -m .. 2 * m - 1
  PROVE  x % m = IF x < 0 THEN x + m ELSE IF x >= m THEN x - m ELSE x
<1>1. CASE x < 0
  BY <1>1, SMT
<1>2. CASE x >= 0 /\ x < m
  BY <1>2, SMT
<1>3. CASE x >= m
  BY <1>3, SMT
<1>. QED
  BY <1>1, <1>2, <1>3

LEMMA SizeFacts == Size \in Nat \ {0} /\ Size >= 2
BY RingAssumption

LEMMA MaskedLinear ==
  ASSUME NEW i \in 0 .. 2 * Size - 1
  PROVE  /\ Masked(i) \in Positions
         /\ Masked(i) = IF i >= Size THEN i - Size ELSE i
<1>1. i \in -Size .. 2 * Size - 1
  BY SizeFacts
<1>2. i % Size = IF i < 0 THEN i + Size ELSE IF i >= Size THEN i - Size ELSE i
  BY <1>1, SizeFacts, ModOneLap
<1>. QED
  BY <1>2, SizeFacts DEF Masked, Positions

LEMMA DistanceLinear ==
  ASSUME NEW p \in Positions, NEW q \in Positions
  PROVE  (p - q) % Size = IF p >= q THEN p - q ELSE p - q + Size
<1> DEFINE x == p - q
<1>1. x \in -Size .. 2 * Size - 1
  BY SizeFacts DEF Positions
<1>2. x % Size = IF x < 0 THEN x + Size ELSE IF x >= Size THEN x - Size ELSE x
  <2>. HIDE DEF x
  <2>. QED
    BY <1>1, SizeFacts, ModOneLap
<1>. QED
  BY <1>1, <1>2, SizeFacts DEF Positions

(* The two spaces share the ring, which is never filled to the last byte.  *)
LEMMA SpacesLinear ==
  ASSUME write_ptr \in Positions, read_ptr \in Positions
  PROVE  /\ ReadSpace = IF write_ptr >= read_ptr THEN write_ptr - read_ptr
                        ELSE write_ptr - read_ptr + Size
         /\ ReadSpace \in 0 .. Size - 1
         /\ WriteSpace = Size - 1 - ReadSpace
<1>1. ReadSpace = IF write_ptr >= read_ptr THEN write_ptr - read_ptr
                  ELSE write_ptr - read_ptr + Size
  BY DistanceLinear DEF ReadSpace
<1>2. ReadSpace \in 0 .. Size - 1
  BY <1>1, SizeFacts DEF Positions
<1> DEFINE x == read_ptr - write_ptr - 1
<1>3. x \in -Size .. 2 * Size - 1
  BY SizeFacts DEF Positions
<1>4. x % Size = IF x < 0 THEN x + Size ELSE IF x >= Size THEN x - Size ELSE x
  <2>. HIDE DEF x
  <2>. QED
    BY <1>3, SizeFacts, ModOneLap
<1>5. WriteSpace = Size - 1 - ReadSpace
  BY <1>1, <1>3, <1>4, SizeFacts DEF WriteSpace, Positions
<1>. QED
  BY <1>1, <1>2, <1>5

(* A run of bytes is cut into one part up to the end of buf and one from   *)
(* its start.                                                              *)
LEMMA PartsLinear ==
  ASSUME NEW p \in Positions, NEW n \in 1 .. Size - 1
  PROVE  /\ FirstPart(p, n) \in 1 .. Size - 1
         /\ p + FirstPart(p, n) <= Size
         /\ SecondPart(p, n) \in 0 .. Size - 1
         /\ FirstPart(p, n) + SecondPart(p, n) = n
         /\ SecondPart(p, n) # 0 => p + FirstPart(p, n) = Size
<1> DEFINE x == p + n
<1>1. x \in 0 .. 2 * Size - 1
  BY SizeFacts DEF Positions
<1>2. Masked(x) = IF x >= Size THEN x - Size ELSE x
  <2>. HIDE DEF x
  <2>. QED
    BY <1>1, MaskedLinear
<1>3. CASE p + n > Size
  <2>1. FirstPart(p, n) = Size - p /\ SecondPart(p, n) = p + n - Size
    BY <1>2, <1>3, SizeFacts DEF FirstPart, SecondPart, Positions
  <2>. QED
    BY <1>3, <2>1, SizeFacts DEF Positions
<1>4. CASE p + n <= Size
  <2>1. FirstPart(p, n) = n /\ SecondPart(p, n) = 0
    BY <1>4, SizeFacts DEF FirstPart, SecondPart, Positions
  <2>. QED
    BY <1>4, <2>1, SizeFacts DEF Positions
<1>. QED
  BY <1>3, <1>4, SizeFacts DEF Positions

(***************************************************************************)
(* Sequences of consecutive bytes.                                         *)
(***************************************************************************)
Run(a, n) == [k \in 1 .. n |-> a + k]

LEMMA RunLength ==
  ASSUME NEW a \in Int, NEW n \in Nat
  PROVE  Run(a, n) \in Seq(Int) /\ Len(Run(a, n)) = n
<1>1. Run(a, n) \in [1 .. n -> Int] /\ DOMAIN Run(a, n) = 1 .. n
  BY DEF Run
<1>2. Run(a, n) \in Seq(Int)
  BY <1>1, SeqDef
<1>. QED
  BY <1>1, <1>2, LenProperties

LEMMA RunAppend ==
  ASSUME NEW a \in Int, NEW n \in Nat, NEW m \in Nat
  PROVE  Run(a, n) \o Run(a + n, m) = Run(a, n + m)
<1>1. /\ Run(a, n) \in Seq(Int) /\ Len(Run(a, n)) = n
      /\ Run(a + n, m) \in Seq(Int) /\ Len(Run(a + n, m)) = m
      /\ Run(a, n + m) \in Seq(Int) /\ Len(Run(a, n + m)) = n + m
  BY RunLength
<1>2. Run(a, n) \o Run(a + n, m) \in Seq(Int)
  BY <1>1, ConcatProperties
<1>3. Len(Run(a, n) \o Run(a + n, m)) = n + m
  BY <1>1, ConcatProperties
<1>4. ASSUME NEW k \in 1 .. n + m
      PROVE  (Run(a, n) \o Run(a + n, m))[k] = Run(a, n + m)[k]
  <2>1. (Run(a, n) \o Run(a + n, m))[k] =
           IF k <= n THEN Run(a, n)[k] ELSE Run(a + n, m)[k - n]
    BY <1>1, ConcatProperties
  <2>2. CASE k <= n
    BY <2>1, <2>2 DEF Run
  <2>3. CASE ~(k <= n)
    BY <2>1, <2>3 DEF Run
  <2>. QED
    BY <2>2, <2>3
<1>. QED
  BY <1>1, <1>2, <1>3, <1>4, SeqEqual

LEMMA RunCut ==
  ASSUME NEW a \in Int, NEW n \in Nat, NEW m \in 0 .. n
  PROVE  /\ SubSeq(Run(a, n), 1, m) = Run(a, m)
         /\ SubSeq(Run(a, n), m + 1, n) = Run(a + m, n - m)
<1>1. SubSeq(Run(a, n), 1, m) = Run(a, m)
  BY SMT DEF Run
<1>2. SubSeq(Run(a, n), m + 1, n) = Run(a + m, n - m)
  BY SMT DEF Run
<1>. QED
  BY <1>1, <1>2

-----------------------------------------------------------------------------
(***************************************************************************)
(* The inductive invariant.  The space that a call saw is there until the  *)
(* call has used it, since the other thread only adds to it; and the ring  *)
(* holds the last ReadSpace bytes that were published.                     *)
(***************************************************************************)
PutKnows ==
  put_pc # "idle" =>
    /\ put_n1 >= 1
    /\ write_ptr + put_n1 <= Size
    /\ put_n2 # 0 => write_ptr + put_n1 = Size
    /\ ReadSpace + put_n1 + put_n2 <= Size - 1

PutCopied ==
  put_pc = "publish" =>
    \A i \in Positions :
      write_ptr <= i /\ i < write_ptr + put_n1 => buf[i] = accepted + 1 + i - write_ptr

GetKnows ==
  get_pc # "idle" =>
    /\ get_n1 >= 1
    /\ read_ptr + get_n1 <= Size
    /\ get_n2 # 0 => read_ptr + get_n1 = Size
    /\ get_n1 + get_n2 <= ReadSpace

Content ==
  /\ ReadSpace <= accepted
  /\ \A k \in 0 .. ReadSpace - 1 :
       buf[Masked(read_ptr + k)] = accepted - ReadSpace + k + 1

IInv ==
  /\ TypeOK
  /\ PutKnows
  /\ PutCopied
  /\ GetKnows
  /\ Content

(* Where the bytes that are still to be read lie, in linear form.          *)
LEMMA PlaceOf ==
  ASSUME write_ptr \in Positions, read_ptr \in Positions,
         NEW k \in 0 .. ReadSpace - 1
  PROVE  /\ Masked(read_ptr + k) \in Positions
         /\ Masked(read_ptr + k) = IF read_ptr + k >= Size THEN (read_ptr + k) - Size
                                   ELSE read_ptr + k
<1>1. read_ptr + k \in 0 .. 2 * Size - 1
  BY SpacesLinear, SizeFacts DEF Positions
<1>. QED
  BY <1>1, MaskedLinear, Zenon

LEMMA InitInv == Init => IInv
<1>. SUFFICES ASSUME Init
              PROVE  IInv
  OBVIOUS
<1>1. TypeOK
  BY SizeFacts DEF Init, TypeOK, Positions, Places
<1>2. ReadSpace = 0
  BY <1>1, SpacesLinear DEF Init, TypeOK
<1>. QED
  BY <1>1, <1>2 DEF Init, IInv, PutKnows, PutCopied, GetKnows, Content

(* A step of the reader that moves no pointer, and its mirror image.       *)
LEMMA SpaceStays ==
  ASSUME write_ptr' = write_ptr, read_ptr' = read_ptr
  PROVE  ReadSpace' = ReadSpace
BY DEF ReadSpace

LEMMA PutBeginsInv ==
  ASSUME IInv, NEW cnt \in 1 .. MaxCall, PutBegins(cnt)
  PROVE  IInv'
<1>1. /\ write_ptr \in Positions /\ read_ptr \in Positions
      /\ ReadSpace \in 0 .. Size - 1 /\ WriteSpace = Size - 1 - ReadSpace
      /\ WriteSpace # 0
  BY SpacesLinear DEF IInv, TypeOK, PutBegins
<1>2. ToWrite(cnt) \in 1 .. Size - 1 /\ ToWrite(cnt) <= WriteSpace
  BY <1>1, RingAssumption, SizeFacts DEF ToWrite
<1> DEFINE n1 == FirstPart(write_ptr, ToWrite(cnt))
           n2 == SecondPart(write_ptr, ToWrite(cnt))
<1>3. /\ n1 \in 1 .. Size - 1 /\ n2 \in 0 .. Size - 1
      /\ write_ptr + n1 <= Size
      /\ n1 + n2 = ToWrite(cnt)
      /\ n2 # 0 => write_ptr + n1 = Size
  BY <1>1, <1>2, PartsLinear
<1>4. /\ put_pc' = "copy" /\ put_n1' = n1 /\ put_n2' = n2
      /\ UNCHANGED <<write_ptr, buf, accepted, read_ptr, get_pc, get_n1, get_n2, handed>>
  BY DEF PutBegins, getVars
<1>5. ReadSpace' = ReadSpace
  BY <1>4, SpaceStays
<1>. HIDE DEF n1, n2
<1>6. TypeOK'
  BY <1>3, <1>4, SizeFacts DEF IInv, TypeOK, Positions, Places
<1>7. PutKnows'
  <2>1. ReadSpace + n1 + n2 <= Size - 1
    BY <1>1, <1>2, <1>3, SizeFacts
  <2>. QED
    BY <1>3, <1>4, <1>5, <2>1 DEF PutKnows
<1>8. PutCopied' /\ GetKnows' /\ Content'
  BY <1>4, <1>5 DEF IInv, PutCopied, GetKnows, Content
<1>. QED
  BY <1>6, <1>7, <1>8 DEF IInv

LEMMA PutCopiesInv ==
  ASSUME IInv, PutCopies
  PROVE  IInv'
<1>1. /\ write_ptr \in Positions /\ read_ptr \in Positions
      /\ put_n1 \in Positions /\ put_n2 \in Positions
      /\ accepted \in Nat /\ buf \in [Positions -> Nat]
      /\ put_n1 >= 1 /\ write_ptr + put_n1 <= Size
      /\ ReadSpace + put_n1 + put_n2 <= Size - 1
  BY DEF IInv, TypeOK, PutCopies, PutKnows
<1>2. /\ put_pc' = "publish"
      /\ UNCHANGED <<write_ptr, put_n1, put_n2, accepted, read_ptr, get_pc, get_n1, get_n2, handed>>
  BY DEF PutCopies, getVars
<1>3. ASSUME NEW i \in Positions
      PROVE  buf'[i] = IF write_ptr <= i /\ i < write_ptr + put_n1
                       THEN accepted + 1 + i - write_ptr ELSE buf[i]
  BY DEF PutCopies
<1>4. ReadSpace' = ReadSpace
  BY <1>2, SpaceStays
<1>5. TypeOK'
  <2>1. \A i \in Positions : write_ptr <= i => accepted + 1 + i - write_ptr \in Nat
    BY <1>1, SizeFacts DEF Positions
  <2>2. buf' \in [Positions -> Nat]
    BY <1>1, <2>1 DEF PutCopies
  <2>. QED
    BY <1>2, <2>2 DEF IInv, TypeOK, Places
<1>6. PutKnows' /\ GetKnows'
  BY <1>2, <1>4 DEF IInv, PutKnows, GetKnows, PutCopies
<1>7. PutCopied'
  BY <1>2, <1>3 DEF PutCopied
<1>8. Content'
  <2>. SUFFICES ASSUME NEW k \in 0 .. ReadSpace - 1
                PROVE  buf'[Masked(read_ptr + k)] = buf[Masked(read_ptr + k)]
    BY <1>2, <1>4 DEF IInv, Content
  <2> DEFINE i == Masked(read_ptr + k)
  <2>1. /\ i \in Positions
        /\ i = IF read_ptr + k >= Size THEN (read_ptr + k) - Size ELSE read_ptr + k
    BY <1>1, PlaceOf
  <2>2. ~(write_ptr <= i /\ i < write_ptr + put_n1)
    <3>. HIDE DEF i
    <3>1. ReadSpace = IF write_ptr >= read_ptr THEN write_ptr - read_ptr
                      ELSE write_ptr - read_ptr + Size
      BY <1>1, SpacesLinear
    <3>2. k \in Nat /\ k < ReadSpace
      BY <1>1, SpacesLinear
    <3>. QED
      BY <1>1, <2>1, <3>1, <3>2, SizeFacts DEF Positions
  <2>. HIDE DEF i
  <2>3. buf'[i] = buf[i]
    BY <1>3, <2>1, <2>2
  <2>. QED
    BY <2>3 DEF i
<1>. QED
  BY <1>5, <1>6, <1>7, <1>8 DEF IInv

LEMMA PutPublishesInv ==
  ASSUME IInv, PutPublishes
  PROVE  /\ IInv'
         /\ ReadSpace' = ReadSpace + put_n1
<1>1. /\ write_ptr \in Positions /\ read_ptr \in Positions
      /\ put_n1 \in Positions /\ put_n2 \in Positions
      /\ accepted \in Nat /\ buf \in [Positions -> Nat]
      /\ put_n1 >= 1 /\ write_ptr + put_n1 <= Size
      /\ put_n2 # 0 => write_ptr + put_n1 = Size
      /\ ReadSpace + put_n1 + put_n2 <= Size - 1
  BY DEF IInv, TypeOK, PutPublishes, PutKnows
<1>2. /\ put_pc' \in {"copy", "idle"} /\ put_n1' = put_n2 /\ put_n2' = 0
      /\ put_pc' = "copy" => put_n2 # 0
      /\ accepted' = accepted + put_n1
      /\ UNCHANGED <<buf, read_ptr, get_pc, get_n1, get_n2, handed>>
  BY DEF PutPublishes, getVars
<1>3. /\ write_ptr' \in Positions
      /\ write_ptr' = IF write_ptr + put_n1 = Size THEN 0 ELSE write_ptr + put_n1
  <2> DEFINE x == write_ptr + put_n1
  <2>1. x \in 0 .. 2 * Size - 1
    BY <1>1, SizeFacts DEF Positions
  <2>2. Masked(x) \in Positions /\ Masked(x) = IF x >= Size THEN x - Size ELSE x
    <3>. HIDE DEF x
    <3>. QED
      BY <2>1, MaskedLinear
  <2>. QED
    BY <1>1, <2>2, SizeFacts DEF PutPublishes, Positions
<1>4. ReadSpace' = ReadSpace + put_n1
  <2>1. ReadSpace' = IF write_ptr' >= read_ptr' THEN write_ptr' - read_ptr'
                     ELSE write_ptr' - read_ptr' + Size
    BY <1>1, <1>2, <1>3, DistanceLinear DEF ReadSpace
  <2>2. ReadSpace = IF write_ptr >= read_ptr THEN write_ptr - read_ptr
                    ELSE write_ptr - read_ptr + Size
    BY <1>1, SpacesLinear
  <2>3. /\ write_ptr \in Nat /\ read_ptr \in Nat /\ put_n1 \in Nat /\ put_n2 \in Nat
        /\ read_ptr < Size /\ read_ptr' = read_ptr /\ Size \in Nat
    BY <1>1, <1>2, SizeFacts DEF Positions
  <2>4. CASE write_ptr >= read_ptr
    <3>1. ReadSpace = write_ptr - read_ptr
      BY <2>2, <2>4
    <3>2. CASE write_ptr + put_n1 = Size
      <4>1. write_ptr' = 0 /\ read_ptr # 0
        BY <1>1, <1>3, <2>3, <3>1, <3>2
      <4>2. ReadSpace' = 0 - read_ptr + Size
        BY <2>1, <2>3, <4>1
      <4>. QED
        BY <2>3, <3>1, <3>2, <4>2
    <3>3. CASE write_ptr + put_n1 # Size
      <4>1. write_ptr' = write_ptr + put_n1
        BY <1>3, <3>3
      <4>2. ReadSpace' = write_ptr + put_n1 - read_ptr
        BY <2>1, <2>3, <2>4, <4>1
      <4>. QED
        BY <2>3, <3>1, <4>2
    <3>. QED
      BY <3>2, <3>3
  <2>5. CASE ~(write_ptr >= read_ptr)
    <3>1. ReadSpace = write_ptr - read_ptr + Size
      BY <2>2, <2>5
    <3>2. write_ptr + put_n1 < read_ptr
      BY <1>1, <2>3, <3>1
    <3>3. write_ptr' = write_ptr + put_n1
      BY <1>3, <2>3, <3>2
    <3>4. ReadSpace' = write_ptr + put_n1 - read_ptr + Size
      BY <2>1, <2>3, <3>2, <3>3
    <3>. QED
      BY <2>3, <3>1, <3>4
  <2>. QED
    BY <2>4, <2>5
<1>5. ReadSpace \in Nat
  BY <1>1, SpacesLinear
<1>6. TypeOK'
  BY <1>1, <1>2, <1>3, SizeFacts DEF IInv, TypeOK, Positions, Places
<1>7. PutKnows'
  BY <1>1, <1>2, <1>3, <1>4, <1>5, SizeFacts DEF PutKnows, Positions
<1>8. PutCopied'
  BY <1>2 DEF PutCopied
<1>9. GetKnows'
  BY <1>1, <1>2, <1>4, <1>5 DEF IInv, GetKnows, TypeOK, Positions
<1>10. Content'
  <2>1. ReadSpace <= accepted
    BY DEF IInv, Content
  <2>2. ReadSpace' <= accepted' /\ accepted' - ReadSpace' = accepted - ReadSpace
    BY <1>1, <1>2, <1>4, <1>5, <2>1 DEF Positions
  <2>3. ASSUME NEW k \in 0 .. ReadSpace' - 1
        PROVE  buf[Masked(read_ptr + k)] = accepted - ReadSpace + k + 1
    <3>1. CASE k < ReadSpace
      <4>1. k \in 0 .. ReadSpace - 1
        BY <1>5, <3>1, <2>3, <1>4, <1>1 DEF Positions
      <4>. QED
        BY <4>1 DEF IInv, Content
    <3>2. CASE ~(k < ReadSpace)
      <4> DEFINE x == read_ptr + k
                 i == write_ptr + k - ReadSpace
      <4>1. x \in 0 .. 2 * Size - 1 /\ i \in Positions
            /\ write_ptr <= i /\ i < write_ptr + put_n1
            /\ i = IF x >= Size THEN x - Size ELSE x
        BY <1>1, <1>4, <1>5, <3>2, <2>3, SpacesLinear, SizeFacts DEF Positions
      <4>2. Masked(x) = i
        <5>. HIDE DEF x, i
        <5>. QED
          BY <4>1, MaskedLinear
      <4>3. buf[i] = accepted + 1 + i - write_ptr
        <5>. HIDE DEF i
        <5>. QED
          BY <4>1 DEF IInv, PutCopied, PutPublishes
      <4>. QED
        BY <1>1, <1>5, <4>2, <4>3 DEF Positions
    <3>. QED
      BY <3>1, <3>2
  <2>. QED
    BY <1>2, <2>2, <2>3 DEF Content
<1>. QED
  BY <1>4, <1>6, <1>7, <1>8, <1>9, <1>10 DEF IInv

LEMMA GetBeginsInv ==
  ASSUME IInv, NEW cnt \in 1 .. MaxCall, GetBegins(cnt)
  PROVE  IInv'
<1>1. /\ write_ptr \in Positions /\ read_ptr \in Positions
      /\ ReadSpace \in 0 .. Size - 1 /\ ReadSpace # 0
  BY SpacesLinear DEF IInv, TypeOK, GetBegins
<1>2. ToRead(cnt) \in 1 .. Size - 1 /\ ToRead(cnt) <= ReadSpace
  BY <1>1, RingAssumption, SizeFacts DEF ToRead
<1> DEFINE n1 == FirstPart(read_ptr, ToRead(cnt))
           n2 == SecondPart(read_ptr, ToRead(cnt))
<1>3. /\ n1 \in 1 .. Size - 1 /\ n2 \in 0 .. Size - 1
      /\ read_ptr + n1 <= Size
      /\ n1 + n2 = ToRead(cnt)
      /\ n2 # 0 => read_ptr + n1 = Size
  BY <1>1, <1>2, PartsLinear
<1>4. /\ get_pc' = "copy" /\ get_n1' = n1 /\ get_n2' = n2
      /\ UNCHANGED <<read_ptr, handed, write_ptr, buf, put_pc, put_n1, put_n2, accepted>>
  BY DEF GetBegins, putVars
<1>5. ReadSpace' = ReadSpace
  BY <1>4, SpaceStays
<1>. HIDE DEF n1, n2
<1>6. TypeOK'
  BY <1>3, <1>4, SizeFacts DEF IInv, TypeOK, Positions, Places
<1>7. GetKnows'
  <2>1. n1 + n2 <= ReadSpace
    BY <1>1, <1>2, <1>3, SizeFacts
  <2>. QED
    BY <1>3, <1>4, <1>5, <2>1 DEF GetKnows
<1>8. PutKnows' /\ PutCopied' /\ Content'
  BY <1>4, <1>5 DEF IInv, PutKnows, PutCopied, Content
<1>. QED
  BY <1>6, <1>7, <1>8 DEF IInv

LEMMA GetCopiesInv ==
  ASSUME IInv, GetCopies
  PROVE  IInv'
<1>1. /\ get_pc = "copy" /\ get_pc' = "publish"
      /\ UNCHANGED <<read_ptr, get_n1, get_n2, write_ptr, buf, put_pc, put_n1, put_n2, accepted>>
  BY DEF GetCopies, putVars
<1>2. ReadSpace' = ReadSpace
  BY <1>1, SpaceStays
<1>. QED
  BY <1>1, <1>2 DEF IInv, TypeOK, Places, PutKnows, PutCopied, GetKnows, Content

LEMMA GetPublishesInv ==
  ASSUME IInv, GetPublishes
  PROVE  /\ IInv'
         /\ ReadSpace' = ReadSpace - get_n1
<1>1. /\ write_ptr \in Positions /\ read_ptr \in Positions
      /\ get_n1 \in Positions /\ get_n2 \in Positions
      /\ accepted \in Nat
      /\ get_n1 >= 1 /\ read_ptr + get_n1 <= Size
      /\ get_n2 # 0 => read_ptr + get_n1 = Size
      /\ get_n1 + get_n2 <= ReadSpace
      /\ ReadSpace \in 0 .. Size - 1
  BY SpacesLinear DEF IInv, TypeOK, GetPublishes, GetKnows
<1>2. /\ get_pc' \in {"copy", "idle"} /\ get_n1' = get_n2 /\ get_n2' = 0
      /\ get_pc' = "copy" => get_n2 # 0
      /\ UNCHANGED <<handed, write_ptr, buf, put_pc, put_n1, put_n2, accepted>>
  BY DEF GetPublishes, putVars
<1>3. /\ read_ptr' \in Positions
      /\ read_ptr' = IF read_ptr + get_n1 = Size THEN 0 ELSE read_ptr + get_n1
  <2> DEFINE x == read_ptr + get_n1
  <2>1. x \in 0 .. 2 * Size - 1
    BY <1>1, SizeFacts DEF Positions
  <2>2. Masked(x) \in Positions /\ Masked(x) = IF x >= Size THEN x - Size ELSE x
    <3>. HIDE DEF x
    <3>. QED
      BY <2>1, MaskedLinear
  <2>. QED
    BY <1>1, <2>2, SizeFacts DEF GetPublishes, Positions
<1>4. ReadSpace' = ReadSpace - get_n1
  <2>1. ReadSpace' = IF write_ptr' >= read_ptr' THEN write_ptr' - read_ptr'
                     ELSE write_ptr' - read_ptr' + Size
    BY <1>1, <1>2, <1>3, DistanceLinear DEF ReadSpace
  <2>. QED
    BY <1>1, <1>2, <1>3, <2>1, SpacesLinear, SizeFacts DEF Positions
<1>5. TypeOK'
  BY <1>1, <1>2, <1>3, SizeFacts DEF IInv, TypeOK, Positions, Places
<1>6. GetKnows'
  BY <1>1, <1>2, <1>3, <1>4, SizeFacts DEF GetKnows, Positions
<1>7. PutKnows' /\ PutCopied'
  BY <1>1, <1>2, <1>4, SizeFacts DEF IInv, PutKnows, PutCopied, TypeOK, Positions
<1>8. Content'
  <2>1. ReadSpace <= accepted
    BY DEF IInv, Content
  <2>2. ReadSpace' <= accepted'
    BY <1>1, <1>2, <1>4, <2>1 DEF Positions
  <2>3. ASSUME NEW k \in 0 .. ReadSpace - get_n1 - 1
        PROVE  buf[Masked(read_ptr' + k)] = accepted - (ReadSpace - get_n1) + k + 1
    <3> DEFINE j == k + get_n1
    <3>1. j \in 0 .. ReadSpace - 1
      BY <1>1 DEF Positions
    <3>2. buf[Masked(read_ptr + j)] = accepted - ReadSpace + j + 1
      BY <3>1 DEF IInv, Content
    <3>3. Masked(read_ptr' + k) = Masked(read_ptr + j)
      <4> DEFINE x == read_ptr + j
                 y == read_ptr' + k
      <4>1. x \in 0 .. 2 * Size - 1 /\ y \in 0 .. 2 * Size - 1
            /\ (y = x \/ (y = x - Size /\ x >= Size /\ y < Size))
        BY <1>1, <1>3, <3>1, SizeFacts DEF Positions
      <4>2. Masked(y) = Masked(x)
        <5>. HIDE DEF x, y
        <5>. QED
          BY <4>1, MaskedLinear, SizeFacts
      <4>. QED
        BY <4>2
    <3>4. accepted - ReadSpace + j + 1 = accepted - (ReadSpace - get_n1) + k + 1
      BY <1>1 DEF Positions
    <3>. QED
      BY <3>2, <3>3, <3>4
  <2>. QED
    BY <1>2, <1>4, <2>2, <2>3 DEF Content
<1>. QED
  BY <1>4, <1>5, <1>6, <1>7, <1>8 DEF IInv

LEMMA NextInv ==
  ASSUME IInv, [Next]_vars
  PROVE  IInv'
<1>1. CASE UNCHANGED vars
  <2>1. UNCHANGED <<write_ptr, buf, put_pc, put_n1, put_n2, accepted, read_ptr, get_pc, get_n1, get_n2, handed>>
    BY <1>1 DEF vars, putVars, getVars
  <2>2. ReadSpace' = ReadSpace
    BY <2>1, SpaceStays
  <2>. QED
    BY <2>1, <2>2 DEF IInv, TypeOK, PutKnows, PutCopied, GetKnows, Content
<1>2. CASE Next
  BY <1>2, PutBeginsInv, PutCopiesInv, PutPublishesInv,
     GetBeginsInv, GetCopiesInv, GetPublishesInv DEF Next
<1>. QED
  BY <1>1, <1>2

THEOREM InvariantHolds == Spec => []IInv
<1>1. Init => IInv
  BY InitInv
<1>2. IInv /\ [Next]_vars => IInv'
  BY NextInv
<1>. QED
  BY <1>1, <1>2, PTL DEF Spec

-----------------------------------------------------------------------------
(***************************************************************************)
(* The theorems.                                                           *)
(***************************************************************************)

(* Both pointers stay in buf and both parts of a call fit it, whatever     *)
(* lengths the calls ask for.                                              *)
THEOREM TypeCorrect == Spec => []TypeOK
<1>1. IInv => TypeOK
  BY DEF IInv
<1>. QED
  BY <1>1, InvariantHolds, PTL

LEMMA InvApart ==
  ASSUME IInv
  PROVE  RegionsApart
<1>1. /\ write_ptr \in Positions /\ read_ptr \in Positions
      /\ put_n1 \in Positions /\ put_n2 \in Positions
      /\ get_n1 \in Positions /\ get_n2 \in Positions
      /\ ReadSpace = IF write_ptr >= read_ptr THEN write_ptr - read_ptr
                     ELSE write_ptr - read_ptr + Size
  BY SpacesLinear DEF IInv, TypeOK
<1>2. ASSUME NEW i \in Writing
      PROVE  i \in Positions /\ i \notin Unread
  <2>1. put_pc = "copy" /\ i \in write_ptr .. write_ptr + put_n1 - 1
    BY <1>2 DEF Writing
  <2>2. write_ptr + put_n1 <= Size /\ ReadSpace + put_n1 + put_n2 <= Size - 1
    BY <2>1 DEF IInv, PutKnows
  <2>3. i \in Positions
    BY <1>1, <2>1, <2>2, SizeFacts DEF Positions
  <2>4. (i - read_ptr) % Size = IF i >= read_ptr THEN i - read_ptr ELSE i - read_ptr + Size
    BY <1>1, <2>3, DistanceLinear
  <2> DEFINE d == (i - read_ptr) % Size
  <2>5. d = IF i >= read_ptr THEN i - read_ptr ELSE i - read_ptr + Size
    BY <2>4
  <2>. HIDE DEF d
  <2>6. ~(d < ReadSpace)
    BY <1>1, <2>1, <2>2, <2>3, <2>5, SizeFacts DEF Positions
  <2>. QED
    BY <2>3, <2>6 DEF Unread, d
<1>3. ASSUME NEW i \in Reading
      PROVE  i \in Unread
  <2>1. get_pc = "copy" /\ i \in read_ptr .. read_ptr + get_n1 - 1
    BY <1>3 DEF Reading
  <2>2. read_ptr + get_n1 <= Size /\ get_n1 + get_n2 <= ReadSpace
    BY <2>1 DEF IInv, GetKnows
  <2>3. i \in Positions
    BY <1>1, <2>1, <2>2, SizeFacts DEF Positions
  <2>4. (i - read_ptr) % Size = IF i >= read_ptr THEN i - read_ptr ELSE i - read_ptr + Size
    BY <1>1, <2>3, DistanceLinear
  <2> DEFINE d == (i - read_ptr) % Size
  <2>5. d = IF i >= read_ptr THEN i - read_ptr ELSE i - read_ptr + Size
    BY <2>4
  <2>. HIDE DEF d
  <2>6. d < ReadSpace
    BY <1>1, <2>1, <2>2, <2>3, <2>5, SizeFacts DEF Positions
  <2>. QED
    BY <2>3, <2>6 DEF Unread, d
<1>. QED
  BY <1>2, <1>3 DEF RegionsApart

(* The two threads never touch the same byte at the same time, and neither *)
(* memcpy passes the end of buf.                                           *)
THEOREM RegionsStayApart == Spec => []RegionsApart
<1>1. IInv => RegionsApart
  BY InvApart
<1>. QED
  BY <1>1, InvariantHolds, PTL

-----------------------------------------------------------------------------
(***************************************************************************)
(* Refinement: the ring is a ByteFifo.                                     *)
(***************************************************************************)
QueueLength == ReadSpace - Taken

(* The queue is the last QueueLength bytes that were published.            *)
QueueShape ==
  /\ accepted \in Nat /\ ReadSpace \in Nat
  /\ QueueLength \in Nat /\ QueueLength <= ReadSpace /\ ReadSpace <= accepted
  /\ Queue = Run(accepted - QueueLength, QueueLength)

LEMMA QueueIsRun == IInv => QueueShape
<1>. SUFFICES ASSUME IInv
              PROVE  QueueShape
  OBVIOUS
<1>1. /\ write_ptr \in Positions /\ read_ptr \in Positions
      /\ get_n1 \in Positions /\ get_n2 \in Positions
      /\ accepted \in Nat /\ ReadSpace \in 0 .. Size - 1 /\ ReadSpace <= accepted
      /\ get_pc # "idle" => get_n1 + get_n2 <= ReadSpace
  BY SpacesLinear DEF IInv, TypeOK, GetKnows, Content
<1>2. Taken \in Nat /\ Taken <= ReadSpace
  BY <1>1, SizeFacts DEF Taken, Positions
<1>3. QueueLength \in Nat /\ QueueLength <= ReadSpace
  BY <1>1, <1>2 DEF QueueLength
<1>4. ASSUME NEW k \in 1 .. QueueLength
      PROVE  buf[Masked(read_ptr + Taken + k - 1)] = (accepted - QueueLength) + k
  <2> DEFINE j == Taken + (k - 1)
  <2>1. j \in 0 .. ReadSpace - 1
    BY <1>1, <1>2, <1>3 DEF QueueLength
  <2>2. buf[Masked(read_ptr + j)] = accepted - ReadSpace + j + 1
    <3>. HIDE DEF j
    <3>. QED
      BY <2>1 DEF IInv, Content
  <2>3. read_ptr + Taken + k - 1 = read_ptr + j
    BY <1>1, <1>2, <1>3 DEF Positions
  <2>4. accepted - ReadSpace + j + 1 = (accepted - QueueLength) + k
    BY <1>1, <1>2, <1>3 DEF QueueLength
  <2>. QED
    BY <2>2, <2>3, <2>4
<1>. QED
  BY <1>1, <1>3, <1>4 DEF QueueShape, Queue, Run, QueueLength

LEMMA QueueIsRunNext == IInv' => QueueShape'
BY QueueIsRun, PTL

LEMMA InitRefines ==
  ASSUME Init
  PROVE  Abstract!Init
<1>1. IInv
  BY InitInv
<1>2. ReadSpace = 0 /\ Taken = 0
  BY <1>1, SpacesLinear DEF Init, IInv, TypeOK, Taken
<1>3. Queue = <<>>
  BY <1>2 DEF Queue
<1>. QED
  BY <1>3 DEF Init, Abstract!Init

LEMMA PutPublishesRefines ==
  ASSUME IInv, IInv', PutPublishes, ReadSpace' = ReadSpace + put_n1
  PROVE  Abstract!Next
<1>1. /\ put_n1 \in 1 .. Size - 1
      /\ ReadSpace + put_n1 <= Size - 1
  <2>1. /\ put_n1 \in Positions /\ put_n2 \in Positions /\ put_n1 >= 1
        /\ ReadSpace + put_n1 + put_n2 <= Size - 1
        /\ ReadSpace \in 0 .. Size - 1
    BY SpacesLinear DEF IInv, TypeOK, PutKnows, PutPublishes
  <2>. QED
    BY <2>1, SizeFacts DEF Positions
<1>2. accepted' = accepted + put_n1 /\ handed' = handed /\ Taken' = Taken
  BY DEF PutPublishes, getVars, Taken
<1>3. QueueShape /\ QueueShape'
  BY QueueIsRun, QueueIsRunNext
<1>4. Taken \in Int
  BY DEF Taken, IInv, TypeOK, Positions
<1>5. QueueLength' = QueueLength + put_n1
  BY <1>1, <1>2, <1>3, <1>4 DEF QueueLength, QueueShape
<1> DEFINE n == QueueLength
           a == accepted - n
<1>6. a \in Int /\ n \in Nat /\ put_n1 \in Nat /\ a + n = accepted
      /\ accepted' - QueueLength' = a
  BY <1>1, <1>2, <1>3, <1>5 DEF QueueShape
<1>7. Queue = Run(a, n) /\ Queue' = Run(a, n + put_n1)
  BY <1>3, <1>5, <1>6 DEF QueueShape
<1>8. n <= ReadSpace /\ ReadSpace \in Nat
  BY <1>3 DEF QueueShape
<1>. HIDE DEF a, n
<1>9. Queue' = Queue \o Run(accepted, put_n1)
  BY <1>6, <1>7, RunAppend
<1>10. Len(Queue) = n
  BY <1>6, <1>7, RunLength
<1>11. Len(Queue) + put_n1 <= Size - 1
  <2>1. n + put_n1 <= Size - 1
    BY <1>1, <1>6, <1>8, SizeFacts
  <2>. QED
    BY <1>10, <2>1
<1>12. Abstract!Accept(put_n1)
  BY <1>2, <1>9, <1>11 DEF Abstract!Accept, Run
<1>. QED
  BY <1>1, <1>12 DEF Abstract!Next

LEMMA GetCopiesRefines ==
  ASSUME IInv, IInv', GetCopies
  PROVE  Abstract!Next
<1>1. /\ get_n1 \in 1 .. Size - 1 /\ get_n1 <= ReadSpace
      /\ read_ptr \in Positions /\ read_ptr + get_n1 <= Size
  BY SpacesLinear DEF IInv, TypeOK, GetKnows, GetCopies, Positions
<1>2. /\ accepted' = accepted
      /\ Taken = 0 /\ Taken' = get_n1
      /\ ReadSpace' = ReadSpace
  BY SpaceStays DEF GetCopies, putVars, Taken
<1>3. QueueShape /\ QueueShape'
  BY QueueIsRun, QueueIsRunNext
<1>4. QueueLength = ReadSpace /\ QueueLength' = ReadSpace - get_n1
  BY <1>2, <1>3 DEF QueueLength, QueueShape
<1> DEFINE n == ReadSpace
           a == accepted - n
<1>5. /\ a \in Int /\ n \in Nat /\ get_n1 \in 0 .. n
      /\ accepted' - QueueLength' = a + get_n1
  BY <1>1, <1>2, <1>3, <1>4 DEF QueueShape
<1>6. Queue = Run(a, n) /\ Queue' = Run(a + get_n1, n - get_n1)
  BY <1>3, <1>4, <1>5 DEF QueueShape
<1>7. handed' = Run(a, get_n1)
  <2>1. ASSUME NEW k \in 1 .. get_n1
        PROVE  buf[read_ptr + k - 1] = a + k
    <3> DEFINE x == read_ptr + Taken + k - 1
    <3>1. x \in 0 .. 2 * Size - 1 /\ x < Size /\ x = read_ptr + k - 1
      BY <1>1, <1>2, SizeFacts DEF Positions
    <3>2. Masked(x) = x
      <4>. HIDE DEF x
      <4>. QED
        BY <3>1, MaskedLinear, SizeFacts
    <3>3. Queue[k] = buf[Masked(x)]
      BY <1>1, <1>2, <1>5 DEF Queue
    <3>4. Queue[k] = a + k
      BY <1>1, <1>5, <1>6 DEF Run
    <3>. QED
      BY <3>1, <3>2, <3>3, <3>4
  <2>. QED
    BY <2>1 DEF GetCopies, Run
<1>. HIDE DEF a, n
<1>8. Len(Queue) = n
  BY <1>5, <1>6, RunLength
<1>9. /\ SubSeq(Run(a, n), 1, get_n1) = Run(a, get_n1)
      /\ SubSeq(Run(a, n), get_n1 + 1, n) = Run(a + get_n1, n - get_n1)
  BY <1>5, RunCut
<1>10. /\ handed' = SubSeq(Queue, 1, get_n1)
       /\ Queue' = SubSeq(Queue, get_n1 + 1, Len(Queue))
       /\ get_n1 <= Len(Queue)
  BY <1>5, <1>6, <1>7, <1>8, <1>9
<1>11. Abstract!Hand(get_n1)
  BY <1>2, <1>10 DEF Abstract!Hand
<1>. QED
  BY <1>1, <1>11 DEF Abstract!Next

(* The other steps are invisible: what a part looks at, and the pointer    *)
(* that follows the copy of a get.                                         *)
LEMMA OthersStutter ==
  ASSUME IInv, IInv',
         UNCHANGED <<accepted, handed>>,
         QueueLength' = QueueLength
  PROVE  UNCHANGED <<Queue, accepted, handed>>
BY QueueIsRun, QueueIsRunNext DEF QueueShape

LEMMA NextRefines ==
  ASSUME IInv, IInv', [Next]_vars
  PROVE  [Abstract!Next]_<<Queue, accepted, handed>>
<1>1. CASE UNCHANGED vars
  <2>1. UNCHANGED <<accepted, handed, write_ptr, read_ptr>> /\ Taken' = Taken
    BY <1>1 DEF vars, putVars, getVars, Taken
  <2>. QED
    BY <2>1, SpaceStays, OthersStutter DEF QueueLength
<1>2. ASSUME NEW cnt \in 1 .. MaxCall, PutBegins(cnt)
      PROVE  UNCHANGED <<Queue, accepted, handed>>
  <2>1. UNCHANGED <<accepted, handed, write_ptr, read_ptr>> /\ Taken' = Taken
    BY <1>2 DEF PutBegins, getVars, Taken
  <2>. QED
    BY <2>1, SpaceStays, OthersStutter DEF QueueLength
<1>3. ASSUME NEW cnt \in 1 .. MaxCall, GetBegins(cnt)
      PROVE  UNCHANGED <<Queue, accepted, handed>>
  <2>1. UNCHANGED <<accepted, handed, write_ptr, read_ptr>> /\ Taken' = Taken
    BY <1>3 DEF GetBegins, putVars, Taken
  <2>. QED
    BY <2>1, SpaceStays, OthersStutter DEF QueueLength
<1>4. CASE PutCopies
  <2>1. UNCHANGED <<accepted, handed>> /\ Taken' = Taken /\ ReadSpace' = ReadSpace
    BY <1>4, SpaceStays DEF PutCopies, getVars, Taken
  <2>. QED
    BY <2>1, OthersStutter DEF QueueLength
<1>5. CASE PutPublishes
  BY <1>5, PutPublishesInv, PutPublishesRefines
<1>6. CASE GetCopies
  BY <1>6, GetCopiesRefines
<1>7. CASE GetPublishes
  <2>1. ReadSpace' = ReadSpace - get_n1
    BY <1>7, GetPublishesInv
  <2>2. UNCHANGED <<accepted, handed>> /\ Taken = get_n1 /\ Taken' = 0
    BY <1>7 DEF GetPublishes, putVars, Taken
  <2>3. ReadSpace \in Nat
    BY QueueIsRun DEF QueueShape
  <2>4. get_n1 \in Nat
    BY SizeFacts DEF IInv, TypeOK, Positions
  <2>5. QueueLength' = QueueLength
    BY <2>1, <2>2, <2>3, <2>4 DEF QueueLength
  <2>. QED
    BY <2>2, <2>5, OthersStutter
<1>. QED
  BY <1>1, <1>2, <1>3, <1>4, <1>5, <1>6, <1>7 DEF Next

(* For every size of the ring: what is read is what was put, in order,     *)
(* each byte once.                                                         *)
THEOREM RingImplementsByteFifo == Spec => ImplementsByteFifo
<1>1. Init => Abstract!Init
  BY InitRefines
<1>2. IInv /\ IInv' /\ [Next]_vars => [Abstract!Next]_<<Queue, accepted, handed>>
  BY NextRefines
<1>. QED
  BY <1>1, <1>2, InvariantHolds, PTL DEF Spec, ImplementsByteFifo, Abstract!Spec
=============================================================================
