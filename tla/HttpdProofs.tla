---------------------------- MODULE HttpdProofs -----------------------------
(***************************************************************************)
(* Proofs about Httpd, for every number of slots, clients and requests.    *)
(*                                                                         *)
(* open_connections is kept beside the slots, and the thread relies on it  *)
(* to accept a client only when one is free.  The invariant says that it   *)
(* is their number at every step, that the thread is inside the loop only  *)
(* while the server is not joined, and that outside the loop every slot is *)
(* empty; the clients in the slots are those that have been taken from the *)
(* backlog, so a new one is never among them.                              *)
(***************************************************************************)
EXTENDS Httpd, FiniteSetTheorems, TLAPS

Counted == open_connections = Cardinality(Connected)

Places ==
  /\ thread = "accept" => open_connections < max_connections /\ taken < arrived
  /\ thread = "handle" => left # 0
  /\ m_joined => thread \in {"none", "ended"} /\ ~m_running
  /\ thread \in {"none", "ended"} => Connected = {} /\ ~server_fd
  /\ live \subseteq 1 .. taken

(* The parts of TypeOK, which different steps disturb.                     *)
FlagsOK == m_running \in BOOLEAN /\ m_joined \in BOOLEAN /\ server_fd \in BOOLEAN

ThreadOK ==
  /\ thread \in {"none", "check", "select", "accept", "scan", "handle", "cleanup", "ended"}
  /\ rfds \in SUBSET Clients
  /\ i \in 0 .. max_connections
  /\ thread = "handle" => i \in Slots
  /\ left \in 0 .. MaxRequests

SlotsOK ==
  /\ connections \in [Slots -> Clients \cup {None}]
  /\ open_connections \in 0 .. max_connections
  /\ live \in SUBSET Clients

TurnsOK == arrived \in 0 .. MaxClients /\ taken \in 0 .. arrived

IInv == TypeOK /\ Counted /\ UserDataOwned /\ Places

LEMMA TypeParts == TypeOK <=> FlagsOK /\ ThreadOK /\ SlotsOK /\ TurnsOK
BY DEF TypeOK, FlagsOK, ThreadOK, SlotsOK, TurnsOK

-----------------------------------------------------------------------------
(* The slots in use are finitely many, and at most all of them.            *)
LEMMA ConnectedFinite ==
  /\ IsFiniteSet(Slots) /\ Cardinality(Slots) = max_connections
  /\ IsFiniteSet(Connected)
  /\ Cardinality(Connected) \in 0 .. max_connections
  /\ Connected # Slots => Cardinality(Connected) < max_connections
<1> USE HttpdAssumption
<1>1. IsFiniteSet(Slots) /\ Cardinality(Slots) = max_connections
  <2>1. 0 \in Int /\ max_connections - 1 \in Int /\ 0 <= max_connections - 1
    OBVIOUS
  <2> QED BY <2>1, FS_Interval DEF Slots
<1>2. Connected \subseteq Slots
  BY DEF Connected
<1>3. /\ IsFiniteSet(Connected)
      /\ Cardinality(Connected) <= Cardinality(Slots)
      /\ Cardinality(Connected) = Cardinality(Slots) => Connected = Slots
  BY <1>1, <1>2, FS_Subset
<1>4. Cardinality(Connected) \in Nat
  BY <1>3, FS_CardinalityType
<1> QED BY <1>1, <1>3, <1>4

(* Initially there is no connection.                                       *)
LEMMA InitInv == Init => IInv
<1> SUFFICES ASSUME Init PROVE IInv
  OBVIOUS
<1> USE HttpdAssumption DEF Init
<1>1. Connected = {}
  BY DEF Connected
<1>2. TypeOK
  <2>1. FlagsOK
    BY DEF FlagsOK
  <2>2. ThreadOK
    BY DEF ThreadOK, Clients
  <2>3. SlotsOK
    BY DEF SlotsOK, Clients, Slots, None
  <2>4. TurnsOK
    BY DEF TurnsOK
  <2> QED BY <2>1, <2>2, <2>3, <2>4, TypeParts
<1>3. Counted
  BY <1>1, FS_EmptySet DEF Counted
<1>4. UserDataOwned
  BY <1>1 DEF UserDataOwned
<1>5. Places
  BY <1>1 DEF Places
<1> QED BY <1>2, <1>3, <1>4, <1>5 DEF IInv

(* Removing one connection.                                                *)
LEMMA RemoveInv ==
  ASSUME IInv, NEW s \in Slots, connections[s] # None, Remove(s)
  PROVE  /\ connections' \in [Slots -> Clients \cup {None}]
         /\ open_connections' \in 0 .. max_connections
         /\ live' \subseteq live
         /\ Connected' = Connected \ {s}
         /\ Counted' /\ UserDataOwned'
<1> USE HttpdAssumption DEF IInv, Remove
<1>1. connections' \in [Slots -> Clients \cup {None}]
  BY DEF TypeOK
<1>2. Connected' = Connected \ {s} /\ s \in Connected
  BY DEF TypeOK, Connected
<1>3. Cardinality(Connected \ {s}) = Cardinality(Connected) - 1
  BY <1>2, ConnectedFinite, FS_RemoveElement
<1>4. Counted'
  BY <1>2, <1>3 DEF Counted
<1>5. open_connections' \in 0 .. max_connections
  <2>1. Cardinality(Connected) # 0
    BY <1>2, ConnectedFinite, FS_EmptySet
  <2> QED BY <2>1, ConnectedFinite DEF Counted
<1>6. \A t \in Connected' : connections'[t] = connections[t] /\ t \in Connected
  BY <1>2 DEF TypeOK, Connected
<1>7. UserDataOwned'
  BY <1>2, <1>6 DEF UserDataOwned
<1> QED BY <1>1, <1>2, <1>4, <1>5, <1>7

(* Removing all of them.                                                   *)
LEMMA RemoveAllInv ==
  ASSUME IInv, RemoveAll
  PROVE  /\ connections' \in [Slots -> Clients \cup {None}]
         /\ open_connections' = 0
         /\ live' = {} /\ Connected' = {}
         /\ Counted' /\ UserDataOwned'
<1> USE HttpdAssumption DEF IInv, RemoveAll
<1>1. Connected' = {}
  BY DEF Connected
<1>2. live' = {}
  BY DEF UserDataOwned
<1>3. open_connections' = 0
  BY ConnectedFinite DEF Counted
<1>4. Counted'
  BY <1>1, <1>3, FS_EmptySet DEF Counted
<1>5. UserDataOwned'
  BY <1>1, <1>2 DEF UserDataOwned
<1> QED BY <1>1, <1>2, <1>3, <1>4, <1>5

(* A slot gets the client that was accepted, after the others are removed  *)
(* or not: Kept are the slots that stay.                                   *)
LEMMA AddInv ==
  ASSUME IInv, thread = "accept", NEW s \in Slots, NEW Kept \in SUBSET Connected,
         s \notin Kept,
         taken' = taken + 1,
         connections' = [t \in Slots |-> IF t = s THEN taken'
                                         ELSE IF t \in Kept THEN connections[t] ELSE None],
         live' = {connections[t] : t \in Kept} \cup {taken'},
         open_connections' = Cardinality(Kept) + 1
  PROVE  /\ connections' \in [Slots -> Clients \cup {None}]
         /\ open_connections' \in 0 .. max_connections
         /\ live' \in SUBSET Clients /\ live' \subseteq 1 .. taken'
         /\ Counted' /\ UserDataOwned'
<1> USE HttpdAssumption DEF IInv
<1>1. taken \in Nat /\ taken' \in Clients /\ taken' # None
  BY DEF TypeOK, Places, Clients, None
<1>2. Connected' = Kept \cup {s}
  BY <1>1 DEF TypeOK, Connected
<1>3. IsFiniteSet(Kept) /\ Cardinality(Kept) \in Nat
  BY ConnectedFinite, FS_Subset, FS_CardinalityType
<1>4. Cardinality(Kept \cup {s}) = Cardinality(Kept) + 1
  BY <1>3, FS_AddElement
<1>5. Counted'
  BY <1>2, <1>4 DEF Counted
<1>6. open_connections' \in 0 .. max_connections
  <2>1. Kept \cup {s} \subseteq Slots
    BY DEF Connected
  <2>2. Cardinality(Kept \cup {s}) <= max_connections
    BY <2>1, ConnectedFinite, FS_Subset
  <2> QED BY <1>3, <1>4, <2>2
<1>7. \A t \in Kept : connections[t] \in live
  BY DEF UserDataOwned
<1>8. live' \in SUBSET Clients /\ live' \subseteq 1 .. taken'
  <2>1. {connections[t] : t \in Kept} \subseteq live
    BY <1>7
  <2>2. live' \subseteq live \cup {taken'}
    BY <2>1
  <2>3. live \subseteq 1 .. taken /\ live \subseteq Clients
    BY DEF TypeOK, Places
  <2>4. 1 .. taken \subseteq 1 .. taken' /\ taken' \in 1 .. taken'
    BY <1>1
  <2> QED BY <1>1, <2>2, <2>3, <2>4
<1>9. UserDataOwned'
  <2>1. \A t \in Kept : connections'[t] = connections[t] /\ connections[t] # taken'
    BY <1>1, <1>7 DEF Places, Connected
  <2>2. connections'[s] = taken'
    OBVIOUS
  <2>3. live' = {connections'[t] : t \in Connected'}
    BY <1>2, <2>1, <2>2
  <2>4. \A t, u \in Connected' : connections'[t] = connections'[u] => t = u
    BY <1>2, <2>1, <2>2 DEF UserDataOwned
  <2> QED BY <2>3, <2>4 DEF UserDataOwned
<1>10. connections' \in [Slots -> Clients \cup {None}]
  BY <1>1 DEF TypeOK, Connected
<1> QED BY <1>5, <1>6, <1>8, <1>9, <1>10

-----------------------------------------------------------------------------
(* A step that leaves the slots, and what they are compared with, alone.   *)
LEMMA SlotsStay ==
  ASSUME IInv, UNCHANGED slotVars
  PROVE  Connected' = Connected /\ Counted' /\ UserDataOwned'
<1>1. Connected' = Connected
  BY DEF slotVars, Connected
<1> QED BY <1>1 DEF slotVars, IInv, Counted, UserDataOwned

(* The actions of DMRWorkThread and of the clients.                        *)
LEMMA OthersInv == IInv /\ (Connect \/ httpd_start \/ StopAsks \/ StopJoins) => IInv'
<1> SUFFICES ASSUME IInv, Connect \/ httpd_start \/ StopAsks \/ StopJoins
             PROVE  IInv'
  OBVIOUS
<1> USE HttpdAssumption DEF IInv, vars, flags, threadVars, slotVars
<1>1. UNCHANGED slotVars /\ Connected' = Connected /\ Counted' /\ UserDataOwned'
  BY SlotsStay DEF Connect, httpd_start, StopAsks, StopJoins
<1>2. TypeOK'
  <2>1. FlagsOK'
    BY <1>1 DEF TypeOK, FlagsOK, Connect, httpd_start, StopAsks, StopJoins
  <2>2. ThreadOK'
    BY <1>1 DEF TypeOK, Places, ThreadOK, Connect, httpd_start, StopAsks, StopJoins
  <2>3. SlotsOK'
    BY <1>1 DEF TypeOK, SlotsOK, Connect, httpd_start, StopAsks, StopJoins
  <2>4. TurnsOK'
    BY <1>1 DEF TypeOK, Places, TurnsOK, Connect, httpd_start, StopAsks, StopJoins
  <2> QED BY <2>1, <2>2, <2>3, <2>4, TypeParts, PTL
<1>3. Places'
  BY <1>1 DEF TypeOK, Places, Connect, httpd_start, StopAsks, StopJoins
<1> QED BY <1>1, <1>2, <1>3

(* The steps of the thread that leave the slots alone.                     *)
LEMMA ReadsInv ==
  ASSUME IInv, UNCHANGED slotVars,
         \/ Check \/ SelectNothing \/ SelectFails \/ Select \/ AcceptFails
         \/ AcceptDrops \/ ScanEnds \/ ScanSkips \/ ReceivePart
         \/ ReceiveRequests \/ Handle
  PROVE  IInv'
<1> USE HttpdAssumption DEF IInv, flags, threadVars, slotVars, Goes
<1>1. Connected' = Connected /\ Counted' /\ UserDataOwned'
  BY SlotsStay
<1>2. CASE Check \/ SelectNothing \/ SelectFails \/ AcceptFails \/ AcceptDrops
  <2>1. TypeOK'
    <3>1. FlagsOK'
      BY <1>2 DEF TypeOK, FlagsOK, Check, SelectNothing, SelectFails, AcceptFails, AcceptDrops
    <3>2. ThreadOK'
      BY <1>2 DEF TypeOK, Places, ThreadOK, Check, SelectNothing, SelectFails, AcceptFails, AcceptDrops
    <3>3. SlotsOK'
      BY <1>2 DEF TypeOK, SlotsOK, Check, SelectNothing, SelectFails, AcceptFails, AcceptDrops
    <3>4. TurnsOK'
      BY <1>2 DEF TypeOK, Places, TurnsOK, Check, SelectNothing, SelectFails, AcceptFails, AcceptDrops
    <3> QED BY <3>1, <3>2, <3>3, <3>4, TypeParts, PTL
  <2>2. Places'
    BY <1>1, <1>2 DEF TypeOK, Places, Check, SelectNothing, SelectFails, AcceptFails, AcceptDrops
  <2> QED BY <1>1, <2>1, <2>2
<1>3. CASE Select
  <2>1. rfds' \in SUBSET Clients
    BY <1>3 DEF Select, TypeOK, Connected
  <2>2. thread' = "accept" => Listens /\ Waiting
    BY <1>3 DEF Select
  <2>3. TypeOK'
    BY <1>3, <2>1 DEF TypeOK, Select
  <2>4. Places'
    BY <1>1, <1>3, <2>2 DEF TypeOK, Places, Select, Listens, Waiting
  <2> QED BY <1>1, <2>3, <2>4
<1>4. CASE ScanEnds \/ ScanSkips \/ ReceivePart \/ ReceiveRequests
  <2>1. TypeOK'
    BY <1>4 DEF TypeOK, Slots, ScanEnds, ScanSkips, ReceivePart, ReceiveRequests
  <2>2. Places'
    BY <1>1, <1>4 DEF TypeOK, Places, ScanEnds, ScanSkips, ReceivePart, ReceiveRequests
  <2> QED BY <1>1, <2>1, <2>2
<1>5. CASE Handle
  <2>1. TypeOK'
    BY <1>5 DEF TypeOK, Places, Slots, Handle
  <2>2. Places'
    BY <1>1, <1>5 DEF TypeOK, Places, Handle
  <2> QED BY <1>1, <2>1, <2>2
<1> QED BY <1>2, <1>3, <1>4, <1>5

(* The steps of the thread that remove the connection it looks at.         *)
LEMMA RemovesInv ==
  ASSUME IInv, Remove(i), ReceiveFails \/ Handle
  PROVE  IInv'
<1> USE HttpdAssumption DEF IInv, flags, Goes
<1>1. i \in Slots /\ connections[i] # None
  BY DEF TypeOK, Slots, ReceiveFails, Ready, Handle
<1>2. /\ connections' \in [Slots -> Clients \cup {None}]
      /\ open_connections' \in 0 .. max_connections
      /\ live' \subseteq live
      /\ Counted' /\ UserDataOwned'
  BY <1>1, RemoveInv
<1>3. TypeOK'
  <2>1. FlagsOK'
    BY <1>1, <1>2 DEF TypeOK, FlagsOK, Slots, ReceiveFails, Handle
  <2>2. ThreadOK'
    <3>1. rfds' = rfds /\ i' \in {i, i + 1} /\ left' \in {left, left - 1}
      BY DEF ReceiveFails, Handle
    <3>2. left' \in 0 .. MaxRequests
      BY <3>1 DEF TypeOK, Places, ReceiveFails, Handle
    <3>3. i' \in 0 .. max_connections
      BY <1>1, <3>1 DEF Slots
    <3>4. thread' \in {"scan", "handle"} /\ (thread' = "handle" => i' = i)
      BY DEF ReceiveFails, Handle
    <3> QED BY <1>1, <3>1, <3>2, <3>3, <3>4 DEF TypeOK, ThreadOK
  <2>3. SlotsOK'
    BY <1>1, <1>2 DEF TypeOK, SlotsOK, Slots, ReceiveFails, Handle
  <2>4. TurnsOK'
    BY <1>1, <1>2 DEF TypeOK, Places, TurnsOK, Slots, ReceiveFails, Handle
  <2> QED BY <2>1, <2>2, <2>3, <2>4, TypeParts, PTL
<1>4. Places'
  BY <1>2 DEF TypeOK, Places, ReceiveFails, Handle
<1> QED BY <1>2, <1>3, <1>4

(* The steps of the thread that remove every connection.                   *)
LEMMA RemovesAllInv ==
  ASSUME IInv, RemoveAll, AcceptDrops \/ Cleanup
  PROVE  IInv'
<1> USE HttpdAssumption DEF IInv, flags, threadVars, Goes
<1>1. /\ connections' \in [Slots -> Clients \cup {None}]
      /\ open_connections' = 0
      /\ live' = {} /\ Connected' = {}
      /\ Counted' /\ UserDataOwned'
  BY RemoveAllInv
<1>2. TypeOK'
  <2>1. FlagsOK'
    BY <1>1 DEF TypeOK, FlagsOK, AcceptDrops, Cleanup
  <2>2. ThreadOK'
    BY <1>1 DEF TypeOK, Places, ThreadOK, AcceptDrops, Cleanup
  <2>3. SlotsOK'
    BY <1>1 DEF TypeOK, SlotsOK, AcceptDrops, Cleanup
  <2>4. TurnsOK'
    BY <1>1 DEF TypeOK, Places, TurnsOK, AcceptDrops, Cleanup
  <2> QED BY <2>1, <2>2, <2>3, <2>4, TypeParts, PTL
<1>3. Places'
  BY <1>1 DEF TypeOK, Places, AcceptDrops, Cleanup
<1> QED BY <1>1, <1>2, <1>3

(* The steps of the thread that add a client.                              *)
LEMMA AcceptInv ==
  ASSUME IInv, AcceptAdds \/ AcceptPreempts
  PROVE  IInv'
<1> USE HttpdAssumption DEF IInv, flags, threadVars, Goes
<1>1. thread = "accept" /\ thread' = "scan" /\ taken' = taken + 1
  BY DEF AcceptAdds, AcceptPreempts
<1>2. /\ connections' \in [Slots -> Clients \cup {None}]
      /\ open_connections' \in 0 .. max_connections
      /\ live' \in SUBSET Clients /\ live' \subseteq 1 .. taken'
      /\ Counted' /\ UserDataOwned'
  <2>1. CASE AcceptAdds
    <3>1. PICK s \in Slots :
            Free(s) /\ connections' = [connections EXCEPT ![s] = taken']
      BY <2>1 DEF AcceptAdds
    <3>2. s \notin Connected
      BY <3>1 DEF Free, Connected
    <3>3. connections' = [t \in Slots |-> IF t = s THEN taken'
                              ELSE IF t \in Connected THEN connections[t] ELSE None]
      BY <3>1 DEF TypeOK, Connected
    <3>4. live' = {connections[t] : t \in Connected} \cup {taken'}
      BY <2>1 DEF AcceptAdds, UserDataOwned
    <3>5. open_connections' = Cardinality(Connected) + 1
      BY <2>1 DEF AcceptAdds, Counted
    <3> QED BY <1>1, <3>2, <3>3, <3>4, <3>5, AddInv
  <2>2. CASE AcceptPreempts
    <3> DEFINE Kept == {}
    <3>1. 0 \in Slots
      BY DEF Slots
    <3>2. connections' = [t \in Slots |-> IF t = 0 THEN taken'
                              ELSE IF t \in Kept THEN connections[t] ELSE None]
      BY <2>2 DEF AcceptPreempts
    <3>3. live' = {connections[t] : t \in Kept} \cup {taken'}
      BY <2>2 DEF AcceptPreempts, UserDataOwned
    <3>4. Cardinality(Kept) = 0
      BY FS_EmptySet
    <3>5. open_connections' = Cardinality(Kept) + 1
      BY <2>2, <3>4, ConnectedFinite DEF AcceptPreempts, Counted
    <3>6. Kept \in SUBSET Connected /\ 0 \notin Kept
      OBVIOUS
    <3> HIDE DEF Kept
    <3> QED BY <1>1, <3>1, <3>2, <3>3, <3>5, <3>6, AddInv
  <2> QED BY <2>1, <2>2
<1>3. UNCHANGED <<flags, rfds, left, arrived>> /\ i' \in 0 .. max_connections
  BY DEF AcceptAdds, AcceptPreempts, TypeOK
<1>4. TypeOK'
  BY <1>1, <1>2, <1>3 DEF TypeOK, Places
<1>5. Places'
  BY <1>1, <1>2, <1>3 DEF TypeOK, Places
<1> QED BY <1>2, <1>4, <1>5

(* Every step of the server and of those around it keeps the invariant.    *)
LEMMA StepInv == IInv /\ [Next]_vars => IInv'
<1> SUFFICES ASSUME IInv, [Next]_vars PROVE IInv'
  OBVIOUS
<1>1. CASE UNCHANGED vars
  BY <1>1 DEF IInv, vars, flags, threadVars, slotVars, TypeOK, Counted, Connected,
              UserDataOwned, Places
<1>2. CASE Connect \/ httpd_start \/ StopAsks \/ StopJoins
  BY <1>2, OthersInv
<1>3. CASE Check \/ SelectNothing \/ SelectFails \/ Select \/ AcceptFails
           \/ ScanEnds \/ ScanSkips \/ ReceivePart \/ ReceiveRequests
  <2>1. UNCHANGED slotVars
    BY <1>3 DEF Check, SelectNothing, SelectFails, Select, AcceptFails,
                ScanEnds, ScanSkips, ReceivePart, ReceiveRequests
  <2> QED BY <1>3, <2>1, ReadsInv
<1>4. CASE AcceptDrops
  <2>1. CASE RemoveAll
    BY <1>4, <2>1, RemovesAllInv
  <2>2. CASE UNCHANGED slotVars
    BY <1>4, <2>2, ReadsInv
  <2> QED BY <1>4, <2>1, <2>2 DEF AcceptDrops
<1>5. CASE AcceptAdds \/ AcceptPreempts
  BY <1>5, AcceptInv
<1>6. CASE ReceiveFails
  BY <1>6, RemovesInv DEF ReceiveFails
<1>7. CASE Handle
  <2>1. CASE Remove(i)
    BY <1>7, <2>1, RemovesInv
  <2>2. CASE UNCHANGED slotVars
    BY <1>7, <2>2, ReadsInv
  <2> QED BY <1>7, <2>1, <2>2 DEF Handle
<1>8. CASE Cleanup
  BY <1>8, RemovesAllInv DEF Cleanup
<1> QED BY <1>1, <1>2, <1>3, <1>4, <1>5, <1>6, <1>7, <1>8 DEF Next, httpd_thread

-----------------------------------------------------------------------------
(* The invariant holds in every state the server reaches.                  *)
THEOREM Invariant == Spec => []IInv
<1> QED BY InitInv, StepInv, PTL DEF Spec

(* Every variable stays in its range: open_connections never leaves        *)
(* 0 .. max_connections, and a handled request has a slot.                 *)
THEOREM TypeCorrect == Spec => []TypeOK
<1>1. IInv => TypeOK
  BY DEF IInv
<1> QED BY <1>1, Invariant, PTL

(* The count that decides whether to listen is the number of slots in use, *)
(* and a client that is accepted finds a free one.                         *)
THEOREM AcceptedFindsSlot == Spec => []NeverFull
<1>1. IInv => NeverFull
  <2> SUFFICES ASSUME IInv PROVE NeverFull
    OBVIOUS
  <2>1. open_connections = Cardinality(Connected)
    BY DEF IInv, Counted
  <2>2. ASSUME thread = "accept" PROVE \E s \in Slots : connections[s] = None
    <3>1. Cardinality(Connected) < max_connections
      BY <2>1, <2>2 DEF IInv, Places
    <3>2. Connected # Slots
      BY <3>1, ConnectedFinite, HttpdAssumption
    <3> QED BY <3>2 DEF Connected
  <2> QED BY <2>1, <2>2 DEF NeverFull
<1> QED BY <1>1, Invariant, PTL

(* Nothing that conn_init made is forgotten or shared by two slots.        *)
THEOREM UserDataIsOwned == Spec => []UserDataOwned
<1>1. IInv => UserDataOwned
  BY DEF IInv
<1> QED BY <1>1, Invariant, PTL

(* Once a stop has joined the thread, nothing of the server is left.       *)
THEOREM StoppedLeavesNothing == Spec => []StoppedIsClean
<1>1. IInv => StoppedIsClean
  BY DEF IInv, Places, UserDataOwned, StoppedIsClean
<1> QED BY <1>1, Invariant, PTL
=============================================================================
