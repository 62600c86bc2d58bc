------------------------- MODULE MediaServerProofs --------------------------
(***************************************************************************)
(* What MediaServer promises holds for every number of tries and of ports. *)
(*                                                                         *)
(* The invariant says for each place of the work thread what runs, what    *)
(* the pointers cover and where the ports are known; the main thread can   *)
(* only clear mStartSuccess, and that asks for nothing while a start is    *)
(* in progress.                                                            *)
(***************************************************************************)
EXTENDS MediaServer, TLAPS

(* The services and the work thread come and go together.                  *)
Lives ==
  /\ render = "none" => worker = "dead"
  /\ worker = "dead" => render \in {"none", "stopping"}
  /\ worker = "new" => render \in {"up", "stop"}
  /\ worker = "exit" => mExitFlag
  /\ mExitFlag => render = "stopping" \/ worker = "dead"
  /\ ~main_service => posted = 0 /\ announced = NoPorts
  /\ owed <= settings

(* stopMediaServer reaches every server that runs.                         *)
Covered ==
  /\ "raop" \in running => "raop" \in pointers
  /\ running \cap {"mirror", "event", "main"} # {} => "airplay" \in pointers
  /\ freed => worker \in {"failed", "wait", "top", "stop", "exit", "crashed"}

(* The latest announcement is right, or a newer one is posted.             *)
Known == posted > 0 \/ announced \in {NoPorts, service_port}

(* What is done at each place of a start.                                  *)
Done ==
  /\ worker \in {"new", "stop", "sleep"} \/ Starting => ~mStartSuccess
  /\ worker \in {"raop", "airplay"} => tries < Tries /\ owed <= taken
  /\ worker = "raop" => running = {} /\ "raop" \in pointers
  /\ worker = "airplay" =>
       /\ "raop" \in running /\ "airplay" \in pointers
       /\ listening["raop"] = options["raop"]
  /\ worker \in {"dnssd", "started", "flag"} =>
       running = Servers /\ owed <= taken /\ listening = options
  /\ worker \in {"started", "flag"} => service_port = options
  /\ worker = "flag" => Known
  /\ worker \in {"wait", "top"} /\ mStartSuccess =>
       running = Servers /\ owed <= taken /\ listening = service_port /\ Known

IInv == TypeOK /\ Lives /\ StartsClean /\ Covered /\ Done

LEMMA InitInv == Init => IInv
<1> SUFFICES ASSUME Init PROVE IInv
  OBVIOUS
<1>1. options \in Ports /\ service_port \in Ports
  BY MediaAssumption DEF MediaAssumption, Init, Ports
<1>2. listening \in [Announced -> -1 .. MaxPort]
  BY MediaAssumption DEF MediaAssumption, Init, NoPorts
<1>3. TypeOK
  <2>1. posted \in 0 .. MaxPosted /\ settings \in 1 .. MaxSettings /\ tries \in 0 .. Tries
    BY MediaAssumption DEF MediaAssumption, Init
  <2>2. taken \in 0 .. MaxSettings /\ owed \in 0 .. MaxSettings
    BY MediaAssumption DEF MediaAssumption, Init
  <2> QED BY <1>1, <1>2, <2>1, <2>2 DEF Init, TypeOK, WorkerPlaces
<1>4. Lives /\ StartsClean /\ Covered /\ Done
  BY DEF Init, Lives, StartsClean, Covered, Done, Known, Starting
<1> QED BY <1>3, <1>4 DEF IInv

-----------------------------------------------------------------------------
(* Steps of the main thread.                                               *)
LEMMA MainThreadStep == IInv /\ MainThread => IInv'
<1> SUFFICES ASSUME IInv, MainThread PROVE IInv'
  OBVIOUS
<1> USE MediaAssumption DEF MediaAssumption, IInv
<1>1. CASE MainServiceCreate
  <2>1. TypeOK'
    BY <1>1 DEF MainServiceCreate, RestartIntent, TypeOK, WorkerPlaces, Free, startVars,
                nativeVars, flags
  <2>2. (Lives /\ StartsClean /\ Covered /\ Done)'
    BY <1>1 DEF MainServiceCreate, RestartIntent, TypeOK, Free, startVars, nativeVars, flags,
                Lives, StartsClean, Covered, Done, Known, Starting
  <2> QED BY <2>1, <2>2
<1>2. CASE UserRestarts
  <2>0. settings' \in 1 .. MaxSettings /\ settings <= settings'
    BY <1>2 DEF UserRestarts, TypeOK
  <2>1. TypeOK'
    BY <1>2, <2>0 DEF UserRestarts, RestartIntent, TypeOK, WorkerPlaces, Free, startVars,
                nativeVars, flags
  <2>2. (Lives /\ StartsClean /\ Covered /\ Done)'
    BY <1>2, <2>0 DEF UserRestarts, RestartIntent, TypeOK, Free, startVars, nativeVars, flags,
                Lives, StartsClean, Covered, Done, Known, Starting
  <2> QED BY <2>1, <2>2
<1>3. CASE RestartMessage
  <2>0. owed' \in 0 .. MaxSettings
    BY <1>3 DEF RestartMessage, TypeOK
  <2>a. worker' \in WorkerPlaces /\ mStartSuccess' \in BOOLEAN
    BY <1>3 DEF RestartMessage, Forgets, TypeOK, WorkerPlaces
  <2>1. TypeOK'
    BY <1>3, <2>0, <2>a DEF RestartMessage, TypeOK, startVars, nativeVars
  <2>2. (Lives /\ StartsClean /\ Covered /\ Done)'
    BY <1>3 DEF RestartMessage, Forgets, TypeOK, Free, startVars, nativeVars,
                Lives, StartsClean, Covered, Done, Known, Starting
  <2> QED BY <2>1, <2>2
<1>4. CASE PostedRegistration
  <2>1. TypeOK'
    BY <1>4 DEF PostedRegistration, TypeOK, Free, startVars, nativeVars, flags
  <2>2. (Lives /\ StartsClean /\ Covered /\ Done)'
    BY <1>4 DEF PostedRegistration, TypeOK, Free, startVars, nativeVars, flags,
                Lives, StartsClean, Covered, Done, Known, Starting
  <2> QED BY <2>1, <2>2
<1>5. CASE MainServiceDestroy
  <2>1. TypeOK'
    <3>1. posted' \in 0 .. MaxPosted /\ render' \in {"none", "up", "stop", "stopping"}
      BY <1>5 DEF MainServiceDestroy, TypeOK
    <3> QED BY <1>5, <3>1 DEF MainServiceDestroy, TypeOK, startVars, nativeVars, flags
  <2>2. (Lives /\ StartsClean /\ Covered /\ Done)'
    BY <1>5 DEF MainServiceDestroy, TypeOK, Free, startVars, nativeVars, flags,
                Lives, StartsClean, Covered, Done, Known, Starting
  <2> QED BY <2>1, <2>2
<1>6. CASE RenderDestroy
  <2>1. TypeOK'
    BY <1>6 DEF RenderDestroy, TypeOK, WorkerPlaces, Free, startVars, nativeVars
  <2>2. (Lives /\ StartsClean /\ Covered /\ Done)'
    BY <1>6 DEF RenderDestroy, TypeOK, Free, startVars, nativeVars,
                Lives, StartsClean, Covered, Done, Known, Starting
  <2> QED BY <2>1, <2>2
<1>7. CASE RenderDestroyed
  BY <1>7 DEF RenderDestroyed, TypeOK, startVars, nativeVars, flags,
              Lives, StartsClean, Covered, Done, Known, Starting
<1> QED
  BY <1>1, <1>2, <1>3, <1>4, <1>5, <1>6, <1>7 DEF MainThread

-----------------------------------------------------------------------------
(* Steps of the work thread that start nothing.                            *)
LEMMA LoopStep ==
  IInv /\ (Top \/ Wake \/ StopEngine \/ NoName \/ StartEngine \/ InitFails \/ SetFlag) => IInv'
<1> SUFFICES ASSUME IInv,
                    Top \/ Wake \/ StopEngine \/ NoName \/ StartEngine \/ InitFails \/ SetFlag
             PROVE  IInv'
  OBVIOUS
<1> USE MediaAssumption DEF MediaAssumption, IInv
<1>1. CASE Top
  <2>1. TypeOK'
    BY <1>1 DEF Top, WorkerGoes, TypeOK, WorkerPlaces, mainVars, flags, startVars, nativeVars
  <2>2. (Lives /\ StartsClean /\ Covered /\ Done)'
    BY <1>1 DEF Top, WorkerGoes, TypeOK, mainVars, flags, startVars, nativeVars,
                Lives, StartsClean, Covered, Done, Known, Starting
  <2> QED BY <2>1, <2>2
<1>2. CASE Wake
  <2>1. TypeOK'
    BY <1>2 DEF Wake, WorkerGoes, TypeOK, WorkerPlaces, mainVars, flags, startVars, nativeVars
  <2>2. (Lives /\ StartsClean /\ Covered /\ Done)'
    BY <1>2 DEF Wake, WorkerGoes, TypeOK, mainVars, flags, startVars, nativeVars,
                Lives, StartsClean, Covered, Done, Known, Starting
  <2> QED BY <2>1, <2>2
<1>3. CASE StopEngine
  <2>1. ~freed => running \subseteq Stops
    BY <1>3 DEF StopEngine, Stops, Covered, TypeOK, Servers
  <2>2. ~freed => running' = {}
    BY <1>3, <2>1 DEF StopEngine
  <2>3. TypeOK'
    <3>1. CASE freed
      BY <1>3, <3>1 DEF StopEngine, TypeOK, WorkerPlaces, mainVars, flags, startVars, nativeVars
    <3>2. CASE ~freed
      <4>1. listening' \in [Announced -> -1 .. MaxPort]
        BY <1>3, <3>2 DEF StopEngine, TypeOK
      <4> QED
        BY <1>3, <3>2, <2>2, <4>1
        DEF StopEngine, TypeOK, WorkerPlaces, mainVars, flags, startVars
    <3> QED BY <3>1, <3>2
  <2>4. Lives' /\ Done'
    BY <1>3 DEF StopEngine, mainVars, flags, startVars, nativeVars, Lives, Done, Known, Starting
  <2>5. StartsClean' /\ Covered'
    <3>1. CASE freed
      BY <1>3, <3>1 DEF StopEngine, nativeVars, StartsClean, Covered
    <3>2. CASE ~freed
      BY <1>3, <3>2, <2>2 DEF StopEngine, StartsClean, Covered
    <3> QED BY <3>1, <3>2
  <2> QED BY <2>3, <2>4, <2>5
<1>4. CASE NoName
  <2>1. TypeOK'
    BY <1>4 DEF NoName, WorkerGoes, TypeOK, WorkerPlaces, mainVars, flags, startVars, nativeVars
  <2>2. (Lives /\ StartsClean /\ Covered /\ Done)'
    BY <1>4 DEF NoName, WorkerGoes, TypeOK, mainVars, flags, startVars, nativeVars,
                Lives, StartsClean, Covered, Done, Known, Starting
  <2> QED BY <2>1, <2>2
<1>5. CASE StartEngine
  <2>1. TypeOK'
    BY <1>5 DEF StartEngine, WorkerGoes, TypeOK, WorkerPlaces, mainVars, flags
  <2>2. (Lives /\ StartsClean /\ Covered /\ Done)'
    BY <1>5 DEF StartEngine, WorkerGoes, TypeOK, mainVars, flags,
                Lives, StartsClean, Covered, Done, Known, Starting
  <2> QED BY <2>1, <2>2
<1>6. CASE SetFlag
  <2>1. TypeOK'
    BY <1>6 DEF SetFlag, WorkerGoes, TypeOK, WorkerPlaces, mainVars, startVars, nativeVars
  <2>2. (Lives /\ StartsClean /\ Covered /\ Done)'
    BY <1>6 DEF SetFlag, WorkerGoes, TypeOK, mainVars, startVars, nativeVars,
                Lives, StartsClean, Covered, Done, Known, Starting
  <2> QED BY <2>1, <2>2
<1>7. CASE InitFails
  <2>1. TypeOK'
    BY <1>7 DEF InitFails, TypeOK, WorkerPlaces, mainVars, flags, startVars, nativeVars
  <2>2. (Lives /\ StartsClean /\ Covered /\ Done)'
    BY <1>7 DEF InitFails, TypeOK, mainVars, flags, startVars, nativeVars,
                Lives, StartsClean, Covered, Done, Known, Starting
  <2> QED BY <2>1, <2>2
<1> QED
  BY <1>1, <1>2, <1>3, <1>4, <1>5, <1>6, <1>7

-----------------------------------------------------------------------------
(* A bind moves one port, in its range.                                    *)
LEMMA BindsTo ==
  ASSUME NEW s \in Announced, options \in Ports, Binds(s)
  PROVE  /\ options' \in Ports
         /\ \A t \in Announced \ {s} : options'[t] = options[t]
  BY MediaAssumption DEF Binds, Ports, Announced, MediaAssumption

(* Steps of startMediaServer.                                              *)
LEMMA StartStep ==
  IInv /\ (RaopStartFails \/ RaopStart \/ AirplayStartFails \/ AirplayStart
           \/ DnssdInitFails \/ DnssdInit \/ Report) => IInv'
<1> SUFFICES ASSUME IInv, RaopStartFails \/ RaopStart \/ AirplayStartFails \/ AirplayStart
                          \/ DnssdInitFails \/ DnssdInit \/ Report
             PROVE  IInv'
  OBVIOUS
<1> USE MediaAssumption DEF MediaAssumption, IInv
<1>a. "raop" \in Announced /\ "main" \in Announced /\ Announced = {"raop", "main"}
  BY DEF Announced
<1>b. options \in Ports /\ listening \in [Announced -> -1 .. MaxPort]
  BY DEF TypeOK
<1>1. CASE RaopStartFails
  <2>1. options' \in Ports
    BY <1>1, <1>a, <1>b, BindsTo DEF RaopStartFails
  <2>2. TypeOK'
    BY <1>1, <2>1
    DEF RaopStartFails, TryAgain, TypeOK, Done, WorkerPlaces, mainVars, flags, nativeVars
  <2>3. (Lives /\ StartsClean /\ Covered /\ Done)'
    BY <1>1, <2>1 DEF RaopStartFails, TryAgain, TypeOK, mainVars, flags, nativeVars,
                Lives, StartsClean, Covered, Done, Known, Starting
  <2> QED BY <2>2, <2>3
<1>2. CASE RaopStart
  <2>1. options' \in Ports
    BY <1>2, <1>a, <1>b, BindsTo DEF RaopStart
  <2>2. /\ listening' \in [Announced -> -1 .. MaxPort]
        /\ listening'["raop"] = options'["raop"]
    BY <1>2, <2>1, <1>a, <1>b DEF RaopStart, Ports
  <2>3. TypeOK'
    BY <1>2, <2>1, <2>2
    DEF RaopStart, WorkerGoes, TypeOK, WorkerPlaces, Servers, mainVars, flags
  <2>4. Lives' /\ Done'
    BY <1>2, <2>2 DEF RaopStart, WorkerGoes, mainVars, flags, Lives, Done, Known, Starting
  <2>5. StartsClean' /\ Covered'
    <3>1. running = {} /\ "raop" \in pointers
      BY <1>2 DEF RaopStart, WorkerGoes, Done
    <3> QED BY <1>2, <3>1 DEF RaopStart, WorkerGoes, StartsClean, Covered
  <2> QED BY <2>3, <2>4, <2>5
<1>3. CASE AirplayStartFails
  <2>1. options' \in Ports /\ options'["raop"] = options["raop"]
    BY <1>3, <1>a, <1>b, BindsTo DEF AirplayStartFails
  <2>2. running' \subseteq Servers /\ "raop" \in running'
    BY <1>3 DEF AirplayStartFails, TypeOK, Servers, Done
  <2>3. TypeOK'
    BY <1>3, <2>1, <2>2
    DEF AirplayStartFails, TryAgain, TypeOK, Done, WorkerPlaces, mainVars, flags
  <2>4. (Lives /\ StartsClean /\ Covered /\ Done)'
    BY <1>3, <2>1, <2>2 DEF AirplayStartFails, TryAgain, TypeOK, mainVars, flags,
                Lives, StartsClean, Covered, Done, Known, Starting
  <2> QED BY <2>3, <2>4
<1>4. CASE AirplayStart
  <2>1. options' \in Ports /\ options'["raop"] = options["raop"]
    BY <1>4, <1>a, <1>b, BindsTo DEF AirplayStart
  <2>2. listening' \in [Announced -> -1 .. MaxPort] /\ listening' = options'
    <3>1. listening["raop"] = options["raop"]
      BY <1>4 DEF AirplayStart, WorkerGoes, Done
    <3> QED BY <1>4, <2>1, <3>1, <1>a, <1>b DEF AirplayStart, Ports
  <2>3. running' = Servers
    BY <1>4 DEF AirplayStart, WorkerGoes, TypeOK, Servers, Done
  <2>4. TypeOK'
    BY <1>4, <2>1, <2>2, <2>3
    DEF AirplayStart, WorkerGoes, TypeOK, WorkerPlaces, mainVars, flags
  <2>5. (Lives /\ StartsClean /\ Covered /\ Done)'
    BY <1>4, <2>2, <2>3 DEF AirplayStart, WorkerGoes, TypeOK, mainVars, flags,
                Lives, StartsClean, Covered, Done, Known, Starting
  <2> QED BY <2>4, <2>5
<1>5. CASE DnssdInitFails
  <2>1. listening' \in [Announced -> -1 .. MaxPort]
    BY <1>5, <1>a, <1>b DEF DnssdInitFails
  <2>2. TypeOK'
    BY <1>5, <2>1
    DEF DnssdInitFails, WorkerGoes, TypeOK, WorkerPlaces, mainVars, flags, startVars
  <2>3. (Lives /\ StartsClean /\ Covered /\ Done)'
    BY <1>5 DEF DnssdInitFails, WorkerGoes, TypeOK, mainVars, flags, startVars,
                Lives, StartsClean, Covered, Done, Known, Starting
  <2> QED BY <2>2, <2>3
<1>6. CASE DnssdInit
  <2>1. TypeOK'
    BY <1>6 DEF DnssdInit, WorkerGoes, TypeOK, WorkerPlaces, mainVars, flags, startVars
  <2>2. (Lives /\ StartsClean /\ Covered /\ Done)'
    BY <1>6 DEF DnssdInit, WorkerGoes, TypeOK, mainVars, flags, startVars,
                Lives, StartsClean, Covered, Done, Known, Starting
  <2> QED BY <2>1, <2>2
<1>7. CASE Report
  <2>1. TypeOK'
    BY <1>7 DEF Report, TypeOK, WorkerPlaces, flags, startVars, nativeVars
  <2>2. (Lives /\ StartsClean /\ Covered /\ Done)'
    BY <1>7 DEF Report, TypeOK, flags, startVars, nativeVars,
                Lives, StartsClean, Covered, Done, Known, Starting
  <2> QED BY <2>1, <2>2
<1> QED
  BY <1>1, <1>2, <1>3, <1>4, <1>5, <1>6, <1>7

-----------------------------------------------------------------------------
LEMMA StepInv == IInv /\ [Next]_vars => IInv'
<1> SUFFICES ASSUME IInv, [Next]_vars PROVE IInv'
  OBVIOUS
<1>1. CASE MainThread
  BY <1>1, MainThreadStep
<1>2. CASE WorkThread
  BY <1>2, LoopStep, StartStep DEF WorkThread
<1>3. CASE UNCHANGED vars
  BY <1>3 DEF vars, mainVars, flags, startVars, nativeVars, IInv, TypeOK, Lives, StartsClean,
              Covered, Done, Known, Starting
<1> QED BY <1>1, <1>2, <1>3 DEF Next

LEMMA Invariant == Spec => []IInv
  BY InitInv, StepInv, PTL DEF Spec

(* Every variable stays in its range.                                      *)
THEOREM TypeCorrect == Spec => []TypeOK
<1>1. IInv => TypeOK
  BY DEF IInv
<1> QED BY <1>1, Invariant, PTL

(* Whatever failed in a start, and however often, the next one finds no    *)
(* server running and no pointer set, and a work thread that is gone       *)
(* leaves none (main.c, DMRWorkThread.java).                               *)
THEOREM StartsAreClean == Spec => []StartsClean
<1>1. IInv => StartsClean
  BY DEF IInv
<1> QED BY <1>1, Invariant, PTL

(* A receiver that counts as started has all its servers, with the         *)
(* settings of every restart that did not come in the middle of a start.   *)
THEOREM StartedAlwaysServes == Spec => []StartedServes
<1>1. IInv => StartedServes
  BY DEF IInv, Done, StartedServes
<1> QED BY <1>1, Invariant, PTL

(* The latest announcement names the ports at which a started receiver     *)
(* listens.                                                                *)
THEOREM PortsAreAnnounced == Spec => []AnnouncedPorts
<1>1. IInv => AnnouncedPorts
  BY DEF IInv, TypeOK, Done, Known, AnnouncedPorts
<1> QED BY <1>1, Invariant, PTL
=============================================================================
