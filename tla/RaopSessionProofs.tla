-------------------------- MODULE RaopSessionProofs -------------------------
(***************************************************************************)
(* Proofs about RaopSession, for every number of connections, sessions and *)
(* settings.                                                               *)
(*                                                                         *)
(* What a session's thread may rely on follows from one invariant, Lives:  *)
(* a session is in exactly one of three conditions.  It is joined, and     *)
(* then it has no thread and no socket; or it is running; or the RTSP      *)
(* thread is taking it down at this moment.  Boxes does the same for the   *)
(* settings: they wait, are taken and are applied in the order of their    *)
(* numbers.  Outputs says whose the one output of the program is when the  *)
(* sessions come one after the other.                                      *)
(***************************************************************************)
EXTENDS RaopSessionAlone, TLAPS

Lives ==
  /\ allocated \subseteq 1 .. created
  /\ \A c \in Conns : raop_rtp[c] # NULL => raop_rtp[c] \in allocated /\ connected[c]
  /\ \A c, d \in Conns : raop_rtp[c] # NULL /\ raop_rtp[c] = raop_rtp[d] => c = d
  /\ \A s \in allocated : \E c \in Conns : raop_rtp[c] = s
  /\ \A s \in Sessions : sockets[s] = ~joined[s]
  /\ \A s \in Sessions : Alive(s) => ~joined[s]
  /\ \A s \in Sessions : ~joined[s] => s \in allocated
  /\ \A s \in Sessions :
       ~joined[s] /\ ~running[s] => rtsp.pc \in {"join", "close"} /\ Ours = s
  /\ rtsp.pc = "close" => ~Alive(Ours)
  /\ rtsp.pc = "destroy" => joined[Ours]
  /\ rtsp.pc = "freed" => Ours = NULL
  /\ rtsp.pc # "idle" => connected[rtsp.conn]
  /\ rtsp.pc \notin {"idle", "start"} /\ rtsp.request \in {"SETUP", "ANNOUNCE"}
       => created < MaxSessions

Ordered(s, f) ==
  /\ pending[s][f] <= posts /\ taken[s][f] <= posts /\ applied[s][f] <= posts
  /\ pending[s][f] # 0 => pending[s][f] > taken[s][f] /\ pending[s][f] > applied[s][f]
  /\ taken[s][f] # 0 => taken[s][f] > applied[s][f]
  /\ thread[s] # "apply" => taken[s][f] = 0

Boxes == \A s \in Sessions, f \in Fields : Ordered(s, f)

IInv == TypeOK /\ Lives /\ Boxes

-----------------------------------------------------------------------------
(* Initially there is no session.                                          *)
LEMMA InitInv == Init => IInv
<1> SUFFICES ASSUME Init PROVE IInv
  OBVIOUS
<1> USE SessionAssumption DEF Init
<1>1. PICK c \in Conns : Idle = [pc |-> "idle", request |-> "none", conn |-> c]
  BY DEF Idle
<1>2. TypeOK
  BY <1>1 DEF TypeOK, Settings, NoSettings, Requests, NULL, Sessions
<1>3. Lives
  BY <1>1 DEF Lives, Alive, NULL, Ours, Sessions
<1>4. Boxes
  BY DEF Boxes, Ordered, NoSettings, Sessions
<1> QED BY <1>2, <1>3, <1>4 DEF IInv

(* A step of a thread from one place in its loop to another, or to its     *)
(* end, leaves the lives of sessions as they are.                          *)
LEMMA GoesLives ==
  ASSUME IInv, NEW s \in Sessions, NEW from, NEW to, Goes(s, from, to),
         from \notin {"none", "ended"}
  PROVE  Lives'
<1> USE DEF IInv, Goes, connVars, stateVars
<1>1. Alive(s)
  BY DEF Alive
<1>2. \A t \in Sessions : Alive(t)' => Alive(t)
  BY <1>1 DEF Alive, TypeOK
<1>3. rtsp.pc = "close" => (~Alive(Ours))'
  <2> SUFFICES ASSUME rtsp.pc = "close" PROVE (~Alive(Ours))'
    OBVIOUS
  <2>1. Ours \in Sessions /\ Ours' = Ours
    BY DEF TypeOK, Ours, NULL
  <2>2. Ours # s
    BY <1>1 DEF Lives
  <2> QED BY <2>1, <2>2 DEF Alive, TypeOK, Lives
<1>4. Ours' = Ours
  BY DEF Ours
<1> QED BY <1>2, <1>3, <1>4 DEF Lives, TypeOK

(* Every step of a session's thread keeps the invariant.                   *)
LEMMA ThreadStepInv ==
  ASSUME IInv, NEW s \in Sessions, ThreadStep(s)
  PROVE  IInv'
<1> USE DEF IInv
<1>1. ASSUME OpenFrees(s) PROVE IInv'
  <2>1. Goes(s, "open", "clear")
    BY <1>1 DEF OpenFrees
  <2>2. Lives'
    BY <2>1, GoesLives
  <2>3. TypeOK'
    BY <1>1 DEF OpenFrees, Goes, TypeOK, connVars, stateVars, boxVars, Ours
  <2>4. Boxes'
    BY <1>1 DEF OpenFrees, Goes, TypeOK, Boxes, Ordered, connVars, stateVars, boxVars
  <2> QED BY <2>2, <2>3, <2>4
<1>2. ASSUME OpenClears(s) PROVE IInv'
  <2>1. Goes(s, "clear", "new")
    BY <1>2 DEF OpenClears
  <2>2. Lives'
    BY <2>1, GoesLives
  <2>3. TypeOK'
    BY <1>2 DEF OpenClears, Goes, TypeOK, connVars, stateVars, boxVars, Ours
  <2>4. Boxes'
    BY <1>2 DEF OpenClears, Goes, TypeOK, Boxes, Ordered, connVars, stateVars, boxVars
  <2> QED BY <2>2, <2>3, <2>4
<1>3. ASSUME OpenCreates(s) PROVE IInv'
  <2>1. Goes(s, "new", "events")
    BY <1>3 DEF OpenCreates
  <2>2. Lives'
    BY <2>1, GoesLives
  <2>3. TypeOK'
    BY <1>3 DEF OpenCreates, Goes, TypeOK, connVars, stateVars, boxVars, Ours
  <2>4. Boxes'
    BY <1>3 DEF OpenCreates, Goes, TypeOK, Boxes, Ordered, connVars, stateVars, boxVars
  <2> QED BY <2>2, <2>3, <2>4
<1>4. ASSUME EventsStop(s) PROVE IInv'
  <2>1. Goes(s, "events", "stop")
    BY <1>4 DEF EventsStop
  <2>2. Lives'
    BY <2>1, GoesLives
  <2>3. TypeOK'
    BY <1>4 DEF EventsStop, Goes, TypeOK, connVars, stateVars, boxVars, outVars, Ours
  <2>4. Boxes'
    BY <1>4 DEF EventsStop, Goes, TypeOK, Boxes, Ordered, connVars, stateVars, boxVars
  <2> QED BY <2>2, <2>3, <2>4
<1>5. ASSUME EventsTake(s) PROVE IInv'
  <2>1. Goes(s, "events", "apply")
    BY <1>5 DEF EventsTake
  <2>2. Lives'
    BY <2>1, GoesLives
  <2>3. TypeOK'
    <3>1. NoSettings \in Settings
      BY SessionAssumption DEF NoSettings, Settings
    <3>2. pending' \in [Sessions -> Settings] /\ taken' \in [Sessions -> Settings]
      BY <1>5, <3>1 DEF EventsTake, Takes, TypeOK
    <3> QED BY <1>5, <3>2 DEF EventsTake, Goes, TypeOK, connVars, stateVars, outVars, Ours
  <2>4. Boxes'
    <3> SUFFICES ASSUME NEW t \in Sessions, NEW f \in Fields PROVE Ordered(t, f)'
      BY DEF Boxes
    <3>1. Ordered(t, f)
      BY DEF Boxes
    <3>2. thread' = [thread EXCEPT ![s] = "apply"] /\ thread[s] = "events"
      BY <2>1 DEF Goes
    <3>3. posts' = posts /\ applied' = applied
      BY <1>5 DEF EventsTake
    <3>4. CASE t = s
      <4>1. pending'[t][f] = 0 /\ taken'[t][f] = pending[t][f]
        BY <1>5, <3>4 DEF EventsTake, Takes, NoSettings, TypeOK
      <4>2. applied[t][f] \in Nat /\ pending[t][f] \in Nat /\ posts \in Nat
        BY SessionAssumption DEF TypeOK, Settings
      <4> QED BY <3>1, <3>2, <3>3, <3>4, <4>1, <4>2 DEF Ordered, TypeOK
    <3>5. CASE t # s
      <4>1. pending'[t] = pending[t] /\ taken'[t] = taken[t] /\ thread'[t] = thread[t]
        BY <1>5, <3>2, <3>5 DEF EventsTake, Takes, TypeOK
      <4> QED BY <3>1, <3>3, <4>1 DEF Ordered
    <3> QED BY <3>4, <3>5
  <2> QED BY <2>2, <2>3, <2>4
<1>6. ASSUME EventsApply(s) PROVE IInv'
  <2>1. Goes(s, "apply", "select")
    BY <1>6 DEF EventsApply
  <2>2. Lives'
    BY <2>1, GoesLives
  <2>3. TypeOK'
    <3>1. NoSettings \in Settings
      BY SessionAssumption DEF NoSettings, Settings
    <3>2. [f \in Fields |-> IF taken[s][f] # 0 THEN taken[s][f] ELSE applied[s][f]] \in Settings
      BY DEF TypeOK, Settings
    <3>3. applied' \in [Sessions -> Settings] /\ taken' \in [Sessions -> Settings]
      BY <1>6, <3>1, <3>2 DEF EventsApply, TypeOK
    <3> QED BY <1>6, <3>3 DEF EventsApply, Goes, TypeOK, connVars, stateVars, outVars, Ours
  <2>4. Boxes'
    <3> SUFFICES ASSUME NEW t \in Sessions, NEW f \in Fields PROVE Ordered(t, f)'
      BY DEF Boxes
    <3>1. Ordered(t, f)
      BY DEF Boxes
    <3>2. posts' = posts /\ pending' = pending
      BY <1>6 DEF EventsApply
    <3>3. CASE t = s
      <4>1. taken'[t][f] = 0
        BY <1>6, <3>3 DEF EventsApply, NoSettings, TypeOK
      <4>2. applied'[t][f] = IF taken[t][f] # 0 THEN taken[t][f] ELSE applied[t][f]
        BY <1>6, <3>3 DEF EventsApply, TypeOK
      <4>3. /\ applied[t][f] \in Nat /\ pending[t][f] \in Nat
            /\ taken[t][f] \in Nat /\ posts \in Nat
        BY SessionAssumption DEF TypeOK, Settings
      <4> QED BY <3>1, <3>2, <4>1, <4>2, <4>3 DEF Ordered
    <3>4. CASE t # s
      <4>1. applied'[t] = applied[t] /\ taken'[t] = taken[t] /\ thread'[t] = thread[t]
        BY <1>6, <2>1, <3>4 DEF EventsApply, Goes, TypeOK
      <4> QED BY <3>1, <3>2, <4>1 DEF Ordered
    <3> QED BY <3>3, <3>4
  <2> QED BY <2>2, <2>3, <2>4
<1>7. ASSUME SelectNothing(s) PROVE IInv'
  <2>1. Goes(s, "select", "events")
    BY <1>7 DEF SelectNothing
  <2>2. Lives'
    BY <2>1, GoesLives
  <2>3. TypeOK'
    BY <1>7 DEF SelectNothing, Goes, TypeOK, connVars, stateVars, boxVars, outVars, Ours
  <2>4. Boxes'
    BY <1>7 DEF SelectNothing, Goes, TypeOK, Boxes, Ordered, connVars, stateVars, boxVars
  <2> QED BY <2>2, <2>3, <2>4
<1>8. ASSUME SelectFails(s) PROVE IInv'
  <2>1. Goes(s, "select", "stop")
    BY <1>8 DEF SelectFails
  <2>2. Lives'
    BY <2>1, GoesLives
  <2>3. TypeOK'
    BY <1>8 DEF SelectFails, Goes, TypeOK, connVars, stateVars, boxVars, outVars, Ours
  <2>4. Boxes'
    BY <1>8 DEF SelectFails, Goes, TypeOK, Boxes, Ordered, connVars, stateVars, boxVars
  <2> QED BY <2>2, <2>3, <2>4
<1>9. ASSUME PlayBegins(s) PROVE IInv'
  <2>1. Goes(s, "select", "play")
    BY <1>9 DEF PlayBegins
  <2>2. Lives'
    BY <2>1, GoesLives
  <2>3. TypeOK'
    BY <1>9 DEF PlayBegins, Goes, TypeOK, connVars, stateVars, boxVars, Ours
  <2>4. Boxes'
    BY <1>9 DEF PlayBegins, Goes, TypeOK, Boxes, Ordered, connVars, stateVars, boxVars
  <2> QED BY <2>2, <2>3, <2>4
<1>10. ASSUME PlayEnds(s) PROVE IInv'
  <2>1. Goes(s, "play", "events")
    BY <1>10 DEF PlayEnds
  <2>2. Lives'
    BY <2>1, GoesLives
  <2>3. TypeOK'
    BY <1>10 DEF PlayEnds, Goes, TypeOK, connVars, stateVars, boxVars, Ours, NULL
  <2>4. Boxes'
    BY <1>10 DEF PlayEnds, Goes, TypeOK, Boxes, Ordered, connVars, stateVars, boxVars
  <2> QED BY <2>2, <2>3, <2>4
<1>11. ASSUME StopFrees(s) PROVE IInv'
  <2>1. Goes(s, "stop", "forget")
    BY <1>11 DEF StopFrees
  <2>2. Lives'
    BY <2>1, GoesLives
  <2>3. TypeOK'
    BY <1>11 DEF StopFrees, Goes, TypeOK, connVars, stateVars, boxVars, Ours
  <2>4. Boxes'
    BY <1>11 DEF StopFrees, Goes, TypeOK, Boxes, Ordered, connVars, stateVars, boxVars
  <2> QED BY <2>2, <2>3, <2>4
<1>12. ASSUME StopForgets(s) PROVE IInv'
  <2>1. Goes(s, "forget", "ended")
    BY <1>12 DEF StopForgets
  <2>2. Lives'
    BY <2>1, GoesLives
  <2>3. TypeOK'
    BY <1>12 DEF StopForgets, Goes, TypeOK, connVars, stateVars, boxVars, Ours
  <2>4. Boxes'
    BY <1>12 DEF StopForgets, Goes, TypeOK, Boxes, Ordered, connVars, stateVars, boxVars
  <2> QED BY <2>2, <2>3, <2>4
<1> QED
  BY <1>1, <1>2, <1>3, <1>4, <1>5, <1>6, <1>7, <1>8, <1>9, <1>10, <1>11, <1>12
     DEF ThreadStep

-----------------------------------------------------------------------------
(* So does every step of the RTSP thread: a new request, ...               *)
LEMMA RequestInv ==
  ASSUME IInv, NEW c \in Conns,
         \/ Accept(c) \/ SetupTransport(c)
         \/ \E request \in Requests : Request(c, request)
         \/ \E f \in Fields : Post(c, f)
  PROVE  IInv'
<1> USE SessionAssumption DEF IInv
<1>1. ASSUME Accept(c) PROVE IInv'
  <2> USE <1>1 DEF Accept, stateVars, boxVars, outVars
  <2>1. TypeOK'
    BY DEF TypeOK, Ours
  <2>2. Lives'
    BY DEF TypeOK, Lives, Alive, Ours
  <2>3. Boxes'
    BY DEF Boxes, Ordered
  <2> QED BY <2>1, <2>2, <2>3
<1>2. ASSUME SetupTransport(c) PROVE IInv'
  <2> USE <1>2 DEF SetupTransport, At, connVars, stateVars, boxVars, outVars
  <2>1. TypeOK'
    BY DEF TypeOK, Ours, Requests
  <2>2. Lives'
    BY DEF TypeOK, Lives, Alive, Ours
  <2>3. Boxes'
    BY DEF Boxes, Ordered
  <2> QED BY <2>1, <2>2, <2>3
<1>3. ASSUME NEW request \in Requests, Request(c, request) PROVE IInv'
  <2> USE <1>3 DEF Request, At, connVars, stateVars, boxVars, outVars
  <2>1. TypeOK'
    BY DEF TypeOK, Ours, Requests
  <2>2. Lives'
    BY DEF TypeOK, Lives, Alive, Ours
  <2>3. Boxes'
    BY DEF Boxes, Ordered
  <2> QED BY <2>1, <2>2, <2>3
<1>4. ASSUME NEW f \in Fields, Post(c, f) PROVE IInv'
  <2> USE <1>4 DEF Post, connVars, stateVars, outVars
  <2>1. TypeOK'
    BY DEF TypeOK, Ours, Settings, NULL
  <2>2. Lives'
    BY DEF TypeOK, Lives, Alive, Ours
  <2>3. Boxes'
    <3> SUFFICES ASSUME NEW t \in Sessions, NEW g \in Fields PROVE Ordered(t, g)'
      BY DEF Boxes
    <3>1. Ordered(t, g)
      BY DEF Boxes
    <3>2. /\ applied[t][g] \in Nat /\ pending[t][g] \in Nat
          /\ taken[t][g] \in Nat /\ posts \in Nat
      BY DEF TypeOK, Settings
    <3>3. pending'[t][g] = IF t = raop_rtp[c] /\ g = f THEN posts + 1 ELSE pending[t][g]
      BY DEF TypeOK, Settings
    <3> QED BY <3>1, <3>2, <3>3 DEF Ordered
  <2> QED BY <2>1, <2>2, <2>3
<1> QED BY <1>1, <1>2, <1>3, <1>4

(* ... or the next step of one under way.                                  *)
LEMMA RtspStepInv ==
  ASSUME IInv, RtspStep
  PROVE  IInv'
<1> USE SessionAssumption DEF IInv
<1>0. rtsp.pc \notin {"idle", "freed"} => Ours \in Sessions
  BY DEF TypeOK, Ours, NULL
<1>i. PICK i \in Conns : Idle = [pc |-> "idle", request |-> "none", conn |-> i]
  BY DEF Idle
<1>1. ASSUME StopLocks PROVE IInv'
  <2> USE <1>1 DEF StopLocks, connVars, boxVars, outVars
  <2>1. TypeOK'
    BY <1>0 DEF TypeOK, Ours
  <2>2. Lives'
    BY <1>0 DEF TypeOK, Lives, Alive, Ours
  <2>3. Boxes'
    BY DEF Boxes, Ordered
  <2> QED BY <2>1, <2>2, <2>3
<1>2. ASSUME StopJoins PROVE IInv'
  <2> USE <1>2 DEF StopJoins, connVars, stateVars, boxVars, outVars
  <2>1. TypeOK'
    BY DEF TypeOK, Ours
  <2>2. Lives'
    BY <1>0 DEF TypeOK, Lives, Alive, Ours
  <2>3. Boxes'
    BY DEF Boxes, Ordered
  <2> QED BY <2>1, <2>2, <2>3
<1>3. ASSUME StopCloses PROVE IInv'
  <2> USE <1>3 DEF StopCloses, connVars, boxVars, outVars
  <2>1. TypeOK'
    BY DEF TypeOK, Ours
  <2>2. Lives'
    <3>1. Ours \in Sessions /\ Ours' = Ours /\ ~Alive(Ours)
      BY <1>0 DEF Ours, Lives
    <3>2. joined' = [joined EXCEPT ![Ours] = TRUE] /\ sockets' = [sockets EXCEPT ![Ours] = FALSE]
      OBVIOUS
    <3>3. /\ \A s \in Sessions : sockets'[s] = ~joined'[s]
          /\ \A s \in Sessions : Alive(s) => ~joined'[s]
          /\ \A s \in Sessions : ~joined'[s] => ~joined[s] /\ s # Ours
          /\ joined'[Ours]
      <4>1. joined'[Ours] /\ ~sockets'[Ours]
        BY <3>1, <3>2 DEF TypeOK
      <4>2. \A s \in Sessions \ {Ours} : joined'[s] = joined[s] /\ sockets'[s] = sockets[s]
        BY <3>2 DEF TypeOK
      <4>0. joined \in [Sessions -> BOOLEAN] /\ sockets \in [Sessions -> BOOLEAN]
        BY DEF TypeOK
      <4>3. ASSUME NEW s \in Sessions
            PROVE  /\ sockets'[s] = ~joined'[s]
                   /\ Alive(s) => ~joined'[s]
                   /\ ~joined'[s] => ~joined[s] /\ s # Ours
        <5>1. CASE s = Ours
          <6>1. joined'[s] = TRUE /\ sockets'[s] = FALSE /\ ~Alive(s)
            BY <3>1, <3>2, <4>0, <5>1
          <6> QED BY <6>1, Zenon
        <5>2. CASE s # Ours
          <6>1. joined'[s] = joined[s] /\ sockets'[s] = sockets[s]
            BY <4>2, <5>2
          <6>2. sockets[s] = ~joined[s] /\ (Alive(s) => ~joined[s])
            BY DEF Lives
          <6> QED BY <5>2, <6>1, <6>2
        <5> QED BY <5>1, <5>2
      <4> QED BY <4>1, <4>3
    <3>4. /\ rtsp.pc = "close" /\ rtsp'.pc = "destroy"
          /\ rtsp'.conn = rtsp.conn
          /\ rtsp'.request = rtsp.request
      BY DEF TypeOK
    <3> HIDE <1>3
    <3>5. UNCHANGED <<connVars, created, allocated, running, thread>>
      BY <1>3
    <3>6. \A s \in Sessions : Alive(s)' = Alive(s)
      BY <3>5 DEF Alive
    <3> QED BY <3>1, <3>3, <3>4, <3>5, <3>6 DEF Lives
  <2>3. Boxes'
    BY DEF Boxes, Ordered
  <2> QED BY <2>1, <2>2, <2>3
<1>4. ASSUME Destroy PROVE IInv'
  <2> USE <1>4 DEF Destroy, boxVars, outVars
  <2>1. TypeOK'
    BY DEF TypeOK, Ours, NULL
  <2>2. Lives'
    BY <1>0 DEF TypeOK, Lives, Alive, Ours, NULL
  <2>3. Boxes'
    BY DEF Boxes, Ordered
  <2> QED BY <2>1, <2>2, <2>3
<1>5. ASSUME Finish PROVE IInv'
  <2> USE <1>5, <1>i DEF Finish, stateVars, boxVars, outVars
  <2>1. TypeOK'
    BY DEF TypeOK, Ours
  <2>2. Lives'
    BY DEF TypeOK, Lives, Alive, Ours
  <2>3. Boxes'
    BY DEF Boxes, Ordered
  <2> QED BY <2>1, <2>2, <2>3
<1>6. ASSUME InitSession PROVE IInv'
  <2> USE <1>6, <1>i DEF InitSession, boxVars, outVars
  <2>0. created' \in Sessions /\ created' \notin allocated
    BY DEF TypeOK, Lives, Sessions
  <2>1. TypeOK'
    <3>1. rtsp' \in [pc : {"idle", "start"}, request : Requests \cup {"none"}, conn : Conns]
      BY DEF TypeOK
    <3>2. rtsp'.pc # "idle" => rtsp'.conn = rtsp.conn
      BY DEF TypeOK
    <3>3. raop_rtp' \in [Conns -> Sessions \cup {NULL}] /\ raop_rtp'[rtsp.conn] = created'
      BY <2>0 DEF TypeOK
    <3>4. rtsp'.pc # "idle" => (Ours # NULL)'
      BY <2>0, <3>2, <3>3 DEF Ours, NULL, Sessions
    <3>5. created' \in 0 .. MaxSessions /\ allocated' \in SUBSET Sessions
      BY <2>0 DEF TypeOK, Sessions
    <3> QED BY <3>1, <3>3, <3>4, <3>5 DEF TypeOK
  <2>2. Lives'
    BY <2>0 DEF TypeOK, Lives, Alive, Ours, NULL, Sessions
  <2>3. Boxes'
    BY DEF Boxes, Ordered
  <2> QED BY <2>1, <2>2, <2>3
<1>7. ASSUME InitFails PROVE IInv'
  <2> USE <1>7 DEF InitFails, connVars, stateVars, boxVars, outVars
  <2>1. TypeOK'
    BY DEF TypeOK, Ours, Requests
  <2>2. Lives'
    BY DEF TypeOK, Lives, Alive, Ours
  <2>3. Boxes'
    BY DEF Boxes, Ordered
  <2> QED BY <2>1, <2>2, <2>3
<1>8. ASSUME Start PROVE IInv'
  <2> USE <1>8, <1>i DEF Start, connVars, boxVars, outVars
  <2>1. TypeOK'
    BY <1>0 DEF TypeOK, Ours
  <2>2. Lives'
    <3>1. CASE UNCHANGED <<running, joined, sockets, thread>>
      BY <3>1 DEF TypeOK, Lives, Alive, Ours
    <3>2. CASE /\ ~running[Ours] /\ joined[Ours]
               /\ sockets' = [sockets EXCEPT ![Ours] = TRUE]
               /\ running' = [running EXCEPT ![Ours] = TRUE]
               /\ joined' = [joined EXCEPT ![Ours] = FALSE]
               /\ thread' = [thread EXCEPT ![Ours] = "open"]
      <4>1. Ours \in allocated
        BY DEF TypeOK, Lives, Ours
      <4>2. ~joined'[Ours] /\ running'[Ours] /\ sockets'[Ours]
        BY <1>0, <3>2 DEF TypeOK
      <4>3. \A s \in Sessions \ {Ours} :
              /\ joined'[s] = joined[s] /\ running'[s] = running[s]
              /\ sockets'[s] = sockets[s] /\ thread'[s] = thread[s]
        BY <3>2 DEF TypeOK
      <4>4. rtsp'.pc = "idle" /\ rtsp.pc = "start"
        OBVIOUS
      <4>5. UNCHANGED <<connected, raop_rtp, created, allocated>>
        OBVIOUS
      <4> HIDE <1>8
      <4>6. \A s \in Sessions :
              /\ sockets'[s] = ~joined'[s]
              /\ Alive(s)' => ~joined'[s]
              /\ ~joined'[s] => s \in allocated'
              /\ ~joined'[s] => running'[s]
        <5> SUFFICES ASSUME NEW s \in Sessions
                     PROVE  /\ sockets'[s] = ~joined'[s]
                            /\ Alive(s)' => ~joined'[s]
                            /\ ~joined'[s] => s \in allocated'
                            /\ ~joined'[s] => running'[s]
          OBVIOUS
        <5>1. CASE s = Ours
          BY <4>1, <4>2, <4>5, <5>1 DEF TypeOK
        <5>2. CASE s # Ours
          BY <4>3, <4>4, <4>5, <5>2 DEF Lives, Alive
        <5> QED BY <5>1, <5>2
      <4>7. /\ (\A c \in Conns : raop_rtp[c] # NULL => raop_rtp[c] \in allocated /\ connected[c])'
            /\ (\A c, d \in Conns : raop_rtp[c] # NULL /\ raop_rtp[c] = raop_rtp[d] => c = d)'
            /\ (\A s \in allocated : \E c \in Conns : raop_rtp[c] = s)'
            /\ (allocated \subseteq 1 .. created)'
        BY <4>5 DEF Lives
      <4> QED BY <4>4, <4>6, <4>7 DEF Lives
    <3> QED BY <3>1, <3>2
  <2>3. Boxes'
    <3> SUFFICES ASSUME NEW t \in Sessions, NEW f \in Fields PROVE Ordered(t, f)'
      BY DEF Boxes
    <3>1. Ordered(t, f)
      BY DEF Boxes
    <3>2. ASSUME joined[Ours], thread' = [thread EXCEPT ![Ours] = "open"]
          PROVE  thread'[t] = thread[t] \/ ~Alive(t)
      <4>1. CASE t = Ours
        BY <3>2, <4>1 DEF Lives
      <4>2. CASE t # Ours
        BY <3>2, <4>2 DEF TypeOK
      <4> QED BY <4>1, <4>2
    <3>3. thread'[t] = thread[t] \/ ~Alive(t)
      BY <3>2
    <3> QED BY <3>1, <3>3 DEF Ordered, Alive
  <2> QED BY <2>1, <2>2, <2>3
<1> QED
  BY <1>1, <1>2, <1>3, <1>4, <1>5, <1>6, <1>7, <1>8 DEF RtspStep

-----------------------------------------------------------------------------
LEMMA NextInv == IInv /\ [Next]_vars => IInv'
<1> SUFFICES ASSUME IInv, [Next]_vars PROVE IInv'
  OBVIOUS
<1>1. CASE UNCHANGED vars
  BY <1>1 DEF IInv, TypeOK, Lives, Boxes, Ordered, Alive, Ours, vars,
     connVars, stateVars, boxVars, outVars
<1>2. CASE Next
  BY <1>2, RequestInv, RtspStepInv, ThreadStepInv DEF Next
<1> QED BY <1>1, <1>2

(* The invariant holds in every reachable state.                           *)
THEOREM InvariantHolds == Spec => []IInv
BY InitInv, NextInv, PTL DEF Spec

(* Every variable keeps its type, and no request works on a session that   *)
(* its connection does not have (the asserts of raop_rtp.c).               *)
THEOREM TypeCorrect == Spec => []TypeOK
<1>1. IInv => TypeOK
  BY DEF IInv
<1> QED BY InvariantHolds, <1>1, PTL

(* A session's thread never outlives its session or its sockets: whatever  *)
(* ends a session, raop_rtp_stop has joined the thread before anything is  *)
(* closed or freed.                                                        *)
THEOREM ThreadsHaveSessions == Spec => []ThreadHasSession
<1>1. IInv => ThreadHasSession
  BY DEF IInv, Lives, TypeOK, ThreadHasSession
<1> QED BY InvariantHolds, <1>1, PTL

(* No session is leaked and no socket outlives its session, however often  *)
(* a client sets up, announces, tears down or goes away.                   *)
THEOREM NothingIsForgotten == Spec => []NothingForgotten
<1>1. IInv => NothingForgotten
  <2> SUFFICES ASSUME IInv PROVE NothingForgotten
    OBVIOUS
  <2>1. \A s \in allocated : \E c \in Conns : connected[c] /\ raop_rtp[c] = s
    BY DEF IInv, Lives, TypeOK, Sessions, NULL
  <2>2. \A s \in Sessions : sockets[s] => s \in allocated
    BY DEF IInv, Lives, TypeOK
  <2> QED BY <2>1, <2>2 DEF NothingForgotten
<1> QED BY InvariantHolds, <1>1, PTL

(* The settings of a session are applied in the order they were posted,    *)
(* none of them twice.                                                     *)
THEOREM SettingsInOrder == Spec => []TakenIsNew
<1>1. IInv => TakenIsNew
  BY DEF IInv, Boxes, Ordered, TakenIsNew
<1> QED BY InvariantHolds, <1>1, PTL

-----------------------------------------------------------------------------
(***************************************************************************)
(* One session after the other: the output.                                *)
(***************************************************************************)
Sole == \A c, d \in Conns : raop_rtp[c] # NULL /\ raop_rtp[d] # NULL => c = d

(* A thread between its audio_open and its audio_destroy.                  *)
HasOutput(s) == thread[s] \in {"events", "apply", "select", "play", "stop"}

(* The output belongs to the one thread that opened it.                    *)
Outputs ==
  /\ \A s \in Sessions : HasOutput(s) => audio_oboe = s /\ live = {s}
  /\ \A s \in Sessions : thread[s] = "forget" => live = {}
  /\ \A s \in Sessions : thread[s] = "play" => playing[s] = s
  /\ (\A s \in Sessions : ~HasOutput(s) /\ thread[s] # "forget")
       => live = {} /\ audio_oboe = NULL

AloneInv == IInv /\ (alone => Sole /\ Outputs)

LEMMA InitAlone == AloneInit => AloneInv
BY InitInv DEF AloneInit, AloneInv, Init, Sole, Outputs, HasOutput

(* A thread's session belongs to a client: there is one of both.           *)
LEMMA OneAlive ==
  ASSUME IInv, Sole, NEW s \in Sessions, NEW t \in Sessions, Alive(s), Alive(t)
  PROVE  s = t
<1>1. s # NULL /\ t # NULL
  BY DEF Sessions, NULL
<1>2. PICK c \in Conns : raop_rtp[c] = s
  BY DEF IInv, Lives
<1>3. PICK d \in Conns : raop_rtp[d] = t
  BY DEF IInv, Lives
<1> QED BY <1>1, <1>2, <1>3 DEF Sole

(* The only thread there is opens the output, plays into it and deletes it.*)
LEMMA ThreadOutputs ==
  ASSUME IInv, Sole, Outputs, NEW s \in Sessions, ThreadStep(s)
  PROVE  Outputs'
<1>0. \A from, to : Goes(s, from, to) => thread[s] = from /\ thread'[s] = to
  BY DEF Goes, IInv, TypeOK
<1>1. Alive(s) /\ \A t \in Sessions : t # s => thread'[t] = thread[t]
  <2>1. ASSUME NEW from, NEW to, Goes(s, from, to), from \notin {"none", "ended"}
        PROVE  Alive(s) /\ \A t \in Sessions : t # s => thread'[t] = thread[t]
    BY <2>1 DEF Goes, Alive, IInv, TypeOK
  <2> QED
    BY <2>1 DEF ThreadStep, OpenFrees, OpenClears, OpenCreates, EventsStop, EventsTake,
       EventsApply, SelectNothing, SelectFails, PlayBegins, PlayEnds, StopFrees, StopForgets
<1>2. ASSUME NEW t \in Sessions, t # s
      PROVE  thread'[t] = thread[t] /\ thread[t] \in {"none", "ended"}
  BY <1>1, <1>2, OneAlive DEF Alive
<1>3. SUFFICES /\ HasOutput(s)' => audio_oboe' = s /\ live' = {s}
               /\ thread'[s] = "forget" => live' = {}
               /\ thread'[s] = "play" => playing'[s] = s
               /\ ~HasOutput(s)' /\ thread'[s] # "forget" => live' = {} /\ audio_oboe' = NULL
  BY <1>2 DEF Outputs, HasOutput
<1>4. /\ HasOutput(s) => audio_oboe = s /\ live = {s}
      /\ thread[s] = "forget" => live = {}
      /\ thread[s] = "play" => playing[s] = s
      /\ ~HasOutput(s) /\ thread[s] # "forget" => live = {} /\ audio_oboe = NULL
  BY <1>2 DEF Outputs, HasOutput
<1>5. CASE OpenFrees(s) \/ OpenClears(s) \/ OpenCreates(s) \/ StopFrees(s) \/ StopForgets(s)
  BY <1>0, <1>4, <1>5 DEF OpenFrees, OpenClears, OpenCreates, StopFrees, StopForgets, HasOutput
<1>6. CASE EventsStop(s) \/ EventsTake(s) \/ EventsApply(s) \/ SelectNothing(s) \/ SelectFails(s)
  BY <1>0, <1>4, <1>6 DEF EventsStop, EventsTake, EventsApply, SelectNothing, SelectFails,
     HasOutput, outVars
<1>7. CASE PlayBegins(s) \/ PlayEnds(s)
  <2>1. playing \in [Sessions -> Sessions \cup {NULL}]
    BY DEF IInv, TypeOK
  <2> QED BY <1>0, <1>4, <1>7, <2>1 DEF PlayBegins, PlayEnds, HasOutput
<1> QED BY <1>5, <1>6, <1>7 DEF ThreadStep

(* The RTSP thread starts threads, and does not touch the output.          *)
LEMMA RtspOutputs ==
  ASSUME IInv, Outputs, UNCHANGED outVars, UNCHANGED thread \/ Start
  PROVE  Outputs'
<1>1. CASE UNCHANGED thread
  BY <1>1 DEF Outputs, HasOutput, outVars
<1>2. CASE joined[Ours] /\ Ours \in Sessions /\ thread' = [thread EXCEPT ![Ours] = "open"]
  <2>1. thread[Ours] \in {"none", "ended"}
    BY <1>2 DEF IInv, Lives, Alive
  <2>2. ASSUME NEW s \in Sessions
        PROVE  /\ HasOutput(s)' <=> HasOutput(s)
               /\ thread'[s] = "forget" <=> thread[s] = "forget"
               /\ thread'[s] = "play" <=> thread[s] = "play"
    <3>1. thread'[s] = IF s = Ours THEN "open" ELSE thread[s]
      BY <1>2 DEF IInv, TypeOK
    <3> QED BY <2>1, <3>1 DEF HasOutput
  <2> QED BY <2>2 DEF Outputs, outVars
<1> QED BY <1>1, <1>2 DEF Start, IInv, TypeOK, NULL

LEMMA NextAlone == AloneInv /\ [AloneNext]_<<vars, alone>> => AloneInv'
<1> SUFFICES ASSUME AloneInv, [AloneNext]_<<vars, alone>>
             PROVE  AloneInv'
  OBVIOUS
<1>1. IInv'
  BY NextInv DEF AloneInv, AloneNext
<1>2. ASSUME alone'
      PROVE  Sole' /\ Outputs'
  <2>1. CASE UNCHANGED <<vars, alone>>
    BY <1>2, <2>1 DEF AloneInv, Sole, Outputs, HasOutput, vars, connVars, outVars
  <2>2. CASE Next /\ Remembers
    <3>1. Sole' /\ IInv /\ Sole /\ Outputs
      BY <1>2, <2>2 DEF Remembers, Sole, AloneInv
    <3>2. ASSUME NEW s \in Sessions, ThreadStep(s)
          PROVE  Outputs'
      BY <3>1, <3>2, ThreadOutputs
    <3>3. ASSUME RtspStep
          PROVE  Outputs'
      BY <3>1, <3>3, RtspOutputs DEF RtspStep, StopLocks, StopJoins, StopCloses, Destroy, Finish,
         InitSession, InitFails, Start
    <3>4. ASSUME NEW c \in Conns,
                 \/ Accept(c) \/ SetupTransport(c)
                 \/ \E request \in Requests : Request(c, request)
                 \/ \E f \in Fields : Post(c, f)
          PROVE  Outputs'
      BY <3>1, <3>4, RtspOutputs DEF Accept, SetupTransport, Request, Post
    <3> QED BY <2>2, <3>1, <3>2, <3>3, <3>4 DEF Next
  <2> QED BY <2>1, <2>2 DEF AloneNext
<1> QED BY <1>1, <1>2 DEF AloneInv

LEMMA AloneHolds == AloneSpec => []AloneInv
BY InitAlone, NextAlone, PTL DEF AloneSpec

(* Sessions that come one after the other each play into the output that   *)
(* they opened, and no output is deleted twice.                            *)
THEOREM OwnOutputsAlone == AloneSpec => []OwnOutputAlone
<1>1. AloneInv => OwnOutputAlone
  <2> SUFFICES ASSUME AloneInv, alone, NEW s \in Sessions
               PROVE  /\ thread[s] = "play" => playing[s] = s /\ s \in live
                      /\ thread[s] \in {"open", "stop"} /\ audio_oboe # NULL => audio_oboe \in live
    BY DEF OwnOutputAlone, OwnOutput
  <2>1. IInv /\ Sole /\ Outputs
    BY DEF AloneInv
  <2>2. thread[s] = "open" => audio_oboe = NULL
    <3> SUFFICES ASSUME thread[s] = "open"
                 PROVE  audio_oboe = NULL
      OBVIOUS
    <3>1. \A t \in Sessions : ~HasOutput(t) /\ thread[t] # "forget"
      BY <2>1, OneAlive DEF Alive, HasOutput
    <3> QED BY <2>1, <3>1 DEF Outputs
  <2> QED BY <2>1, <2>2 DEF Outputs, HasOutput
<1> QED BY <1>1, AloneHolds, PTL

(* When the last of them ends, whatever ended it, it leaves no output.     *)
THEOREM OutputsAreClosedAlone == AloneSpec => []OutputsClosedAlone
<1>1. AloneInv => OutputsClosedAlone
  BY DEF AloneInv, Outputs, HasOutput, OutputsClosedAlone, OutputsClosed, Alive
<1> QED BY <1>1, AloneHolds, PTL
=============================================================================
