-------------------------- MODULE DMRCenterProofs ---------------------------
(***************************************************************************)
(* DMRCenter's safety for any number of threads and of requests.           *)
(*                                                                         *)
(* A request is in one place at a time: an item that is set but not yet    *)
(* played, the one message, the one the main thread has taken, or among    *)
(* the started.  A new one has a number that is nowhere, so nothing is     *)
(* started twice; and the message is always that of the last asked.        *)
(***************************************************************************)
EXTENDS DMRCenter, TLAPS

(* The handler's queue holds one of its messages at most, for the last     *)
(* that was asked.                                                         *)
Newest == \A l, m \in messages : l = m /\ m.of = asked

(* Nothing has a number that was not given out.                            *)
GivenOut ==
  /\ \A k \in Kinds : mMediaInfo[k] <= requests
  /\ \A m \in messages \cup handling : m.of <= requests
  /\ \A i \in DOMAIN started : started[i] <= requests

(* What is set is in neither of the other places, and set once.            *)
SetApart ==
  \A k \in Kinds : mMediaInfo[k] # NoItem =>
    /\ \A l \in Kinds : mMediaInfo[l] = mMediaInfo[k] => l = k
    /\ \A m \in messages \cup handling : m.of # mMediaInfo[k]
    /\ \A i \in DOMAIN started : started[i] # mMediaInfo[k]

(* Nor is what is in the queue or taken.                                   *)
MessageApart ==
  /\ \A m \in messages, h \in handling : m.of # h.of
  /\ \A m \in messages \cup handling, i \in DOMAIN started : started[i] # m.of

IInv == TypeOK /\ Newest /\ GivenOut /\ SetApart /\ MessageApart /\ StartedOnce

(* A sequence of items has an item at each place.                          *)
LEMMA StartedItems ==
  ASSUME TypeOK
  PROVE  /\ DOMAIN started = 1 .. Len(started) /\ Len(started) \in Nat
         /\ \A i \in DOMAIN started : started[i] \in Requests /\ started[i] \in Nat
<1>1. started \in Seq(Requests)
  BY DEF TypeOK
<1>2. \A i \in DOMAIN started : started[i] \in Requests
  BY <1>1
<1>3. \A r \in Requests : r \in Nat
  BY CenterAssumption DEF CenterAssumption, Requests
<1>4. DOMAIN started = 1 .. Len(started) /\ Len(started) \in Nat
  BY <1>1
<1> QED BY <1>2, <1>3, <1>4

LEMMA InitInv == Init => IInv
BY CenterAssumption DEF CenterAssumption, Init, IInv, TypeOK, Requests, Newest,
   GivenOut, SetApart, MessageApart, StartedOnce, Kinds, NoItem

-----------------------------------------------------------------------------
(* A PLAY, from an open or from /rate, leaves the rest alone.              *)
LEMMA PlayStep ==
  IInv /\ onRenderPlay /\ (opening' \in SUBSET Threads) /\ UNCHANGED <<requests, mainVars>>
    => IInv'
<1> SUFFICES ASSUME IInv, onRenderPlay, opening' \in SUBSET Threads,
                    UNCHANGED <<requests, mainVars>>
             PROVE  IInv'
  OBVIOUS
<1> USE DEF IInv, mainVars
<1>1. CASE UNCHANGED <<infoVars, messages, broadcasts, asked>>
  BY <1>1 DEF infoVars, TypeOK, Newest, GivenOut, SetApart, MessageApart, StartedOnce
<1>2. ASSUME NEW n \in Requests, mCurMediaInfoType # "none",
             mMediaInfo[mCurMediaInfoType] = n, delayToPlay(n), asked' = n,
             mMediaInfo' = clearState, UNCHANGED <<mCurMediaInfoType, broadcasts>>
      PROVE  IInv'
  <2>1. mCurMediaInfoType \in Kinds /\ n # NoItem /\ n \in 0 .. MaxRequests
    BY <1>2, CenterAssumption DEF CenterAssumption, TypeOK, Requests, NoItem
  <2>2. messages' = {Message("start", n)} /\ Message("start", n).of = n
    BY <1>2 DEF delayToPlay, Message
  <2>3. TypeOK'
    BY <1>2, <2>1, <2>2 DEF TypeOK, Messages, Message, clearState
  <2>4. Newest'
    BY <1>2, <2>2 DEF Newest
  <2>5. GivenOut'
    <3>1. n <= requests
      BY <1>2, <2>1 DEF GivenOut
    <3>2. \A k \in Kinds : mMediaInfo'[k] <= requests
      BY <1>2, CenterAssumption DEF CenterAssumption, TypeOK, clearState, NoItem
    <3> QED BY <3>1, <3>2, <2>2 DEF GivenOut
  <2>6. (SetApart /\ StartedOnce)'
    BY <1>2 DEF SetApart, StartedOnce, clearState
  <2>7. MessageApart'
    BY <1>2, <2>1, <2>2 DEF SetApart, MessageApart
  <2> QED BY <2>3, <2>4, <2>5, <2>6, <2>7
<1>3. CASE /\ Broadcast(Control) /\ mMediaInfo' = clearState
           /\ UNCHANGED <<mCurMediaInfoType, messages, asked>>
  <2>1. TypeOK'
    BY <1>3 DEF TypeOK, Broadcast, clearState, NoItem, Control
  <2>2. GivenOut'
    BY <1>3 DEF TypeOK, GivenOut, clearState, NoItem
  <2>3. (Newest /\ SetApart /\ MessageApart /\ StartedOnce)'
    BY <1>3 DEF Newest, SetApart, MessageApart, StartedOnce, clearState
  <2> QED BY <2>1, <2>2, <2>3
<1> QED BY <1>1, <1>2, <1>3 DEF onRenderPlay

(* A request gets a number that is nowhere.                                *)
LEMMA SetStep == ASSUME NEW t \in Threads PROVE IInv /\ OpenSets(t) => IInv'
<1> SUFFICES ASSUME IInv, OpenSets(t) PROVE IInv'
  OBVIOUS
<1> USE DEF IInv, mainVars
<1> DEFINE n == requests + 1
<1>1. n \in Requests /\ KindOf(t) \in Kinds /\ n # NoItem /\ requests \in Nat
  BY CenterAssumption DEF CenterAssumption, OpenSets, TypeOK, Requests, KindOf, Kinds, NoItem
<1>2. mMediaInfo' = [mMediaInfo EXCEPT ![KindOf(t)] = n] /\ mCurMediaInfoType' = KindOf(t)
  BY DEF OpenSets, onRenderAvTransport
<1>3. \A k \in Kinds : mMediaInfo'[k] = IF k = KindOf(t) THEN n ELSE mMediaInfo[k]
  BY <1>2 DEF TypeOK
<1>4. UNCHANGED <<messages, broadcasts, asked, handling, started, gone_out>>
  BY DEF OpenSets
<1>5. TypeOK'
  BY <1>1, <1>2, <1>4 DEF TypeOK, OpenSets, Requests
<1>6. GivenOut'
  <2>1. \A k \in Kinds : mMediaInfo[k] \in Nat
    BY DEF TypeOK, Requests, NoItem
  <2>2. \A m \in messages \cup handling : m.of \in Nat
    BY DEF TypeOK, Messages, Requests
  <2>3. \A i \in DOMAIN started : started[i] \in Nat
    BY StartedItems
  <2> QED BY <1>1, <1>3, <1>4, <2>1, <2>2, <2>3 DEF GivenOut, OpenSets
<1>7. SetApart'
  <2>1. \A k \in Kinds : mMediaInfo[k] # n
    BY <1>1 DEF GivenOut, TypeOK
  <2>2. \A m \in messages \cup handling : m.of # n
    BY <1>1 DEF GivenOut
  <2>3. \A i \in DOMAIN started : started[i] # n
    BY <1>1 DEF GivenOut
  <2> QED BY <1>3, <1>4, <2>1, <2>2, <2>3 DEF SetApart
<1>8. (Newest /\ MessageApart /\ StartedOnce)'
  BY <1>4 DEF Newest, MessageApart, StartedOnce
<1> QED BY <1>5, <1>6, <1>7, <1>8

LEMMA StopStep == IInv /\ Stop => IInv'
<1> SUFFICES ASSUME IInv, Stop PROVE IInv'
  OBVIOUS
<1> USE DEF IInv, mainVars
<1> DEFINE n == requests + 1
<1>1. n \in Requests /\ requests \in Nat
  BY CenterAssumption DEF CenterAssumption, Stop, TypeOK, Requests
<1>2. messages' = {Message("stop", n)} /\ Message("stop", n).of = n
  BY DEF Stop, delayToStop, Message
<1>3. UNCHANGED <<mMediaInfo, mCurMediaInfoType, opening, handling, started, gone_out>>
  BY DEF Stop, infoVars
<1>4. TypeOK'
  BY <1>1, <1>2, <1>3 DEF TypeOK, Stop, Broadcast, Messages, Message, Requests, Control
<1>5. \A k \in Kinds : mMediaInfo[k] # n /\ mMediaInfo[k] \in Nat
  BY <1>1 DEF GivenOut, TypeOK, Requests, NoItem
<1>6. \A m \in handling : m.of # n /\ m.of \in Nat
  BY <1>1 DEF GivenOut, TypeOK, Messages, Requests
<1>7. \A i \in DOMAIN started : started[i] # n /\ started[i] \in Nat
  BY <1>1, StartedItems DEF GivenOut
<1>8. (Newest /\ StartedOnce)'
  BY <1>2, <1>3 DEF Stop, Newest, StartedOnce
<1>9. GivenOut'
  BY <1>1, <1>2, <1>3, <1>5, <1>6, <1>7 DEF GivenOut, Stop
<1>10. (SetApart /\ MessageApart)'
  BY <1>2, <1>3, <1>5, <1>6, <1>7 DEF SetApart, MessageApart
<1> QED BY <1>4, <1>8, <1>9, <1>10

-----------------------------------------------------------------------------
(* The main thread moves a request from one place to the next.             *)
LEMMA StartActivityStep == IInv /\ StartActivity => IInv'
<1> SUFFICES ASSUME IInv, NEW h \in handling, started' = Append(started, h.of),
                    gone_out' = gone_out \cup {h.of}, handling' = {},
                    UNCHANGED <<infoVars, opening, messages, broadcasts, requests, asked>>
             PROVE  IInv'
  BY DEF StartActivity
<1> USE DEF IInv, infoVars
<1>1. h.of \in Requests
  BY DEF TypeOK, Messages
<1>2. /\ started' \in Seq(Requests)
      /\ DOMAIN started' = 1 .. Len(started) + 1
      /\ \A i \in DOMAIN started : started'[i] = started[i]
      /\ started'[Len(started) + 1] = h.of
      /\ DOMAIN started = 1 .. Len(started) /\ Len(started) \in Nat
  BY <1>1 DEF TypeOK
<1>3. \A i \in DOMAIN started' :
        \/ i \in DOMAIN started /\ started'[i] = started[i]
        \/ i = Len(started) + 1 /\ started'[i] = h.of
  BY <1>2
<1>4. TypeOK'
  BY <1>1, <1>2 DEF TypeOK
<1>5. GivenOut' /\ Newest'
  BY <1>3 DEF GivenOut, Newest
<1>6. SetApart'
  BY <1>3 DEF SetApart
<1>7. MessageApart'
  BY <1>3 DEF MessageApart
<1>8. StartedOnce'
  BY <1>2, <1>3 DEF StartedOnce, MessageApart
<1> QED BY <1>4, <1>5, <1>6, <1>7, <1>8

LEMMA TakeStep == IInv /\ TakeMessage => IInv'
<1> SUFFICES ASSUME IInv, NEW m \in messages, messages' = messages \ {m},
                    handling' = {m},
                    UNCHANGED <<infoVars, opening, broadcasts, requests, asked, started,
                                gone_out>>
             PROVE  IInv'
  BY DEF TakeMessage
<1> USE DEF IInv, infoVars
<1>1. TypeOK'
  BY DEF TypeOK
<1>2. messages' \cup handling' \subseteq messages \cup handling
  OBVIOUS
<1>3. (Newest /\ GivenOut /\ SetApart /\ StartedOnce)'
  BY <1>2 DEF Newest, GivenOut, SetApart, StartedOnce
<1>4. messages' = {}
  BY DEF Newest
<1>5. MessageApart'
  BY <1>2, <1>4 DEF MessageApart
<1> QED BY <1>1, <1>3, <1>5

LEMMA OtherSteps ==
  ASSUME IInv,
         \/ SendStop \/ Deliver \/ UNCHANGED vars
         \/ \E t \in Threads : PauseOrSeek(t) \/ OpenRefused(t)
  PROVE  IInv'
<1> USE DEF IInv, infoVars, mainVars
<1>1. CASE SendStop
  <2>1. TypeOK'
    BY <1>1 DEF SendStop, TypeOK, Broadcast, Messages
  <2> QED BY <1>1, <2>1 DEF SendStop, Newest, GivenOut, SetApart, MessageApart, StartedOnce
<1>2. CASE Deliver
  <2>1. Head(broadcasts) \in Requests \cup {Control} /\ Tail(broadcasts) \in Seq(Requests \cup {Control})
    BY <1>2 DEF Deliver, TypeOK
  <2>2. TypeOK'
    BY <1>2, <2>1 DEF Deliver, TypeOK
  <2> QED BY <1>2, <2>2 DEF Deliver, Newest, GivenOut, SetApart, MessageApart, StartedOnce
<1>3. CASE \E t \in Threads : PauseOrSeek(t)
  <2>1. TypeOK'
    BY <1>3 DEF PauseOrSeek, TypeOK, Broadcast, Control
  <2> QED BY <1>3, <2>1 DEF PauseOrSeek, Newest, GivenOut, SetApart, MessageApart, StartedOnce
<1>4. CASE UNCHANGED vars
  BY <1>4 DEF vars, TypeOK, Newest, GivenOut, SetApart, MessageApart, StartedOnce
<1>5. CASE \E t \in Threads : OpenRefused(t)
  <2>1. TypeOK'
    BY <1>5 DEF OpenRefused, TypeOK
  <2> QED BY <1>5, <2>1 DEF OpenRefused, Newest, GivenOut, SetApart, MessageApart, StartedOnce
<1> QED BY <1>1, <1>2, <1>3, <1>4, <1>5

LEMMA NextInv == IInv /\ [Next]_vars => IInv'
<1> SUFFICES ASSUME IInv, [Next]_vars PROVE IInv'
  OBVIOUS
<1>1. ASSUME NEW t \in Threads, OpenPlays(t) \/ Resume(t) PROVE IInv'
  <2>1. opening' \in SUBSET Threads
    BY <1>1 DEF OpenPlays, Resume, IInv, TypeOK
  <2> QED BY <1>1, <2>1, PlayStep DEF OpenPlays, Resume
<1> QED BY <1>1, SetStep, StopStep, StartActivityStep, TakeStep, OtherSteps DEF Next

THEOREM Invariance == Spec => []IInv
<1> QED BY InitInv, NextInv, PTL DEF Spec

-----------------------------------------------------------------------------
(* Every variable of DMRCenter stays in its range.                         *)
THEOREM TypeCorrect == Spec => []TypeOK
<1>1. IInv => TypeOK
  BY DEF IInv
<1> QED BY Invariance, <1>1, PTL

(* However many threads ask, and whatever the order of their calls, no     *)
(* item is started twice (DMRCenter.java 393-398).                         *)
THEOREM NothingStartsTwice == Spec => []StartedOnce
<1>1. IInv => StartedOnce
  BY DEF IInv
<1> QED BY Invariance, <1>1, PTL

(* The main thread takes a start or a delayed stop only while it is the    *)
(* last thing that was asked for (DMRCenter.java 442-452).                 *)
THEOREM NewestIsTaken == Spec => OnlyNewestIsTaken
<1>1. IInv /\ [Next]_vars => [\A m \in handling' : m \in handling \/ m.of = asked]_vars
  <2> SUFFICES ASSUME IInv, Next, NEW m \in handling', m \notin handling
               PROVE  m.of = asked
    OBVIOUS
  <2>1. TakeMessage
    BY DEF Next, OpenSets, OpenRefused, OpenPlays, Resume, PauseOrSeek, Stop, StartActivity, SendStop,
           Deliver, mainVars
  <2> QED BY <2>1 DEF TakeMessage, IInv, Newest
<1> QED BY Invariance, <1>1, PTL DEF Spec, OnlyNewestIsTaken
=============================================================================
