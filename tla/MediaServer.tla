---------------------------- MODULE MediaServer -----------------------------
(***************************************************************************)
(* How the receiver is started, restarted and stopped: the work thread of  *)
(* MediaRenderService (DMRWorkThread.java) with startMediaServer and       *)
(* stopMediaServer (main.c), the main thread of the application, on which  *)
(* MainService and MediaRenderService live and restarts are asked for, and *)
(* the announcement of the servers' ports.                                 *)
(*                                                                         *)
(* The main thread's handlers are actions of one step.  The work thread    *)
(* is the only one that calls the native code, one step for each server    *)
(* that may fail.  A wait of 7 s may end at any time.                      *)
(***************************************************************************)
EXTENDS Integers

CONSTANTS
  Tries,        (* How often startMediaServer tries a server: 10.          *)
  MaxPort,      (* The ports a server may move to are 0 .. MaxPort.        *)
  MaxSettings,  (* Bounds how often the user changes a setting,            *)
  MaxPosted     (* and the registrations the main thread owes.             *)

ASSUME MediaAssumption ==
  /\ Tries \in Nat \ {0}
  /\ MaxPort \in Nat
  /\ MaxSettings \in Nat \ {0}
  /\ MaxPosted \in Nat \ {0}

Servers == {"raop", "mirror", "event", "main"}

(* The servers whose ports are announced, and the ports.                   *)
Announced == {"raop", "main"}
Ports == [Announced -> 0 .. MaxPort]
NoPorts == [s \in Announced |-> -1]

VARIABLES
  (* The main thread.                                                      *)
  main_service,    (* MainService is there.                                *)
  render,          (* MediaRenderService: "none", "up", "stop" (asked to   *)
                   (* stop), "stopping" (its onDestroy waits).             *)
  restart,         (* RESTART_ENGINE_MSG_ID is in the handler's queue.     *)
  posted,          (* How many registrations of this MainService are.      *)
  announced,       (* The ports in its latest announcement, or NoPorts.    *)
  settings,        (* The version of the name, the size and the rate.      *)
  (* Shared by the two threads.                                            *)
  mStartSuccess, mExitFlag,
  mFriendName,     (* It is not empty.                                     *)
  (* The work thread.                                                      *)
  worker,          (* Its place.                                           *)
  tries,           (* Failures of this loop of raop_start or airplay_start.*)
  taken,           (* The settings the last start read.                    *)
  (* The native code.                                                      *)
  pointers,        (* Which of raop, airplay and dnssd are not NULL.       *)
  freed,           (* raop points to memory that was freed.                *)
  running,         (* The servers that run.                                *)
  listening,       (* The ports of those that are announced.               *)
  options,         (* The ports that the next try asks for.                *)
  service_port,    (* raop_service_port and airplay_service_port.          *)
  (* History: the settings of the last restart that did not come in the    *)
  (* middle of a start.                                                    *)
  owed

mainVars == <<main_service, render, restart, posted, announced, settings>>
flags == <<mStartSuccess, mExitFlag, mFriendName>>
startVars == <<tries, taken, options>>
nativeVars == <<pointers, freed, running, listening>>
vars == <<mainVars, flags, worker, startVars, nativeVars, service_port, owed>>

Init ==
  /\ main_service = FALSE /\ render = "none" /\ restart = FALSE
  /\ posted = 0 /\ announced = NoPorts /\ settings = 1
  /\ mStartSuccess = FALSE /\ mExitFlag = FALSE /\ mFriendName = FALSE
  /\ worker = "dead" /\ tries = 0 /\ taken = 0
  /\ pointers = {} /\ freed = FALSE /\ running = {}
  /\ listening = NoPorts
  /\ options = [s \in Announced |-> 0]
  /\ service_port = [s \in Announced |-> 0]
  /\ owed = 0

-----------------------------------------------------------------------------
(* The main thread.  It is not free while onDestroy waits for the work     *)
(* thread.                                                                 *)
Free == render # "stopping" /\ worker # "crashed"

(* An intent RESTART_RENDER_ENGINE: a service that is not there is made    *)
(* first, with a new thread, and the message is sent with a delay.         *)
RestartIntent ==
  /\ Free /\ render # "stop"
  /\ restart' = TRUE
  /\ IF render = "none"
     THEN /\ render' = "up"
          /\ worker' = "new"
          /\ mStartSuccess' = FALSE /\ mExitFlag' = FALSE /\ mFriendName' = FALSE
     ELSE UNCHANGED <<render, worker, flags>>
  /\ UNCHANGED <<posted, announced, startVars, nativeVars, service_port, owed>>

MainServiceCreate ==
  /\ ~main_service
  /\ main_service' = TRUE
  /\ RestartIntent
  /\ UNCHANGED settings

(* RenameActivity and SetupFragment change a setting first, MirrorActivity *)
(* restarts to get rid of the device.                                      *)
UserRestarts ==
  /\ RestartIntent
  /\ settings' \in {settings, settings + 1} /\ settings' <= MaxSettings
  /\ UNCHANGED main_service

(* The work thread is anywhere between reading the settings and setting    *)
(* mStartSuccess.                                                          *)
Starting == worker \in {"raop", "airplay", "dnssd", "started", "failed", "flag"}


Forgets == mStartSuccess' = FALSE

(* MediaRenderService.restartEngine.                                       *)
RestartMessage ==
  /\ Free /\ restart /\ render = "up"
  /\ restart' = FALSE
  /\ mFriendName' = TRUE
  /\ IF worker = "new"
     THEN worker' = "top" /\ UNCHANGED mStartSuccess
     ELSE Forgets /\ UNCHANGED worker
  /\ owed' = IF Starting THEN owed ELSE settings
  /\ UNCHANGED <<main_service, render, posted, announced, settings, mExitFlag,
                 startVars, nativeVars, service_port>>

(* The latest announcement replaces nothing: the older ones stay where     *)
(* they are, and only the latest can be withdrawn.                         *)
PostedRegistration ==
  /\ Free /\ posted > 0
  /\ posted' = posted - 1
  /\ announced' = service_port
  /\ UNCHANGED <<main_service, render, restart, settings, flags, worker, startVars,
                 nativeVars, service_port, owed>>

(* onDestroy of MainService.  What it posted still runs, and leaves an     *)
(* announcement of the old NsdHelper that nobody withdraws.                *)
MainServiceDestroy ==
  /\ Free /\ main_service
  /\ main_service' = FALSE
  /\ announced' = NoPorts
  /\ posted' = 0
  /\ render' = IF render = "up" THEN "stop" ELSE render
  /\ UNCHANGED <<restart, settings, flags, worker, startVars, nativeVars,
                 service_port, owed>>

(* onDestroy of MediaRenderService; a thread that was never started is     *)
(* forgotten.                                                              *)
RenderDestroy ==
  /\ Free /\ render = "stop"
  /\ restart' = FALSE
  /\ mFriendName' = FALSE
  /\ IF worker = "new"
     THEN render' = "none" /\ worker' = "dead" /\ UNCHANGED mExitFlag
     ELSE render' = "stopping" /\ mExitFlag' = TRUE /\ UNCHANGED worker
  /\ UNCHANGED <<main_service, posted, announced, settings, mStartSuccess, startVars,
                 nativeVars, service_port, owed>>

RenderDestroyed ==
  /\ render = "stopping" /\ worker = "dead"
  /\ render' = "none"
  /\ UNCHANGED <<main_service, restart, posted, announced, settings, flags, worker,
                 startVars, nativeVars, service_port, owed>>

MainThread ==
  \/ MainServiceCreate \/ UserRestarts \/ RestartMessage \/ PostedRegistration
  \/ MainServiceDestroy \/ RenderDestroy \/ RenderDestroyed

-----------------------------------------------------------------------------
(* The work thread.                                                        *)
WorkerGoes(from, to) ==
  /\ worker = from
  /\ worker' = to

(* The head of the loop and of refreshNotify.                              *)
Top ==
  /\ WorkerGoes("top", CASE mExitFlag -> "exit"
                         [] ~mExitFlag /\ mStartSuccess -> "wait"
                         [] OTHER -> "stop")
  /\ UNCHANGED <<mainVars, flags, startVars, nativeVars, service_port, owed>>

Wake ==
  /\ WorkerGoes("wait", IF mExitFlag THEN "exit" ELSE "top")
  /\ UNCHANGED <<mainVars, flags, startVars, nativeVars, service_port, owed>>

StopsMutant == IF "raop" \in pointers THEN {"raop"} ELSE {}

(* What stopMediaServer stops: raop_stop with its server, airplay_stop     *)
(* with its three.                                                         *)
Stops == (IF "raop" \in pointers THEN {"raop"} ELSE {})
         \cup (IF "airplay" \in pointers THEN {"main", "mirror", "event"} ELSE {})

(* stopMediaServer.  A freed raop is used, and freed again.                *)
StopEngine ==
  /\ worker \in {"stop", "exit"}
  /\ IF freed
     THEN worker' = "crashed" /\ UNCHANGED nativeVars
     ELSE /\ worker' = IF worker = "stop" THEN "sleep" ELSE "dead"
          /\ running' = running \ Stops
          /\ listening' = [s \in Announced |-> IF s \in Stops THEN -1 ELSE listening[s]]
          /\ pointers' = {}
          /\ UNCHANGED freed
  /\ UNCHANGED <<mainVars, flags, startVars, service_port, owed>>


(* startEngine does nothing without a name.                                *)
NoName ==
  /\ ~mFriendName
  /\ WorkerGoes("sleep", "wait")
  /\ UNCHANGED <<mainVars, flags, startVars, nativeVars, service_port, owed>>

(* startMediaRender_Java reads the settings, and raop_init makes raop.     *)
StartEngine ==
  /\ mFriendName
  /\ WorkerGoes("sleep", "raop")
  /\ taken' = settings
  /\ options' = service_port
  /\ tries' = 0
  /\ pointers' = pointers \cup {"raop"}
  /\ UNCHANGED <<mainVars, flags, freed, running, listening, service_port, owed>>

(* Out of memory: raop_init, or airplay_init once raop_start was through,  *)
(* returns NULL.  The start that follows uses it, and the program ends.    *)
InitFails ==
  /\ mFriendName \/ worker = "raop"
  /\ worker \in {"sleep", "raop"}
  /\ worker' = "crashed"
  /\ UNCHANGED <<mainVars, flags, startVars, nativeVars, service_port, owed>>

(* A port that is taken is passed over, whether the server then starts or  *)
(* not (netutils_init_socket).                                             *)
Binds(s) ==
  \E p \in options[s] .. MaxPort : options' = [options EXCEPT ![s] = p]

(* After the last try startMediaServer returns, and leaves what runs.      *)
TryAgain(at) ==
  /\ tries' = tries + 1
  /\ worker' = IF tries + 1 = Tries THEN "failed" ELSE at

RaopStartFails ==
  /\ worker = "raop"
  /\ TryAgain("raop")
  /\ Binds("raop")
  /\ UNCHANGED <<mainVars, flags, taken, nativeVars, service_port, owed>>

RaopStart ==
  /\ WorkerGoes("raop", "airplay")
  /\ tries' = 0
  /\ Binds("raop")
  /\ running' = running \cup {"raop"}
  /\ listening' = [listening EXCEPT !["raop"] = options'["raop"]]
  /\ pointers' = pointers \cup {"airplay"}
  /\ UNCHANGED <<mainVars, flags, taken, freed, service_port, owed>>

(* The servers of airplay_start in their order.  Those that run already    *)
(* are passed over (httpd_start returns 0).                                *)
AirplayStartFails ==
  /\ worker = "airplay"
  /\ TryAgain("airplay")
  /\ \E up \in {{}, {"mirror"}, {"mirror", "event"}} :
       /\ running \ {"raop"} \subseteq up
       /\ running' = running \cup up
       /\ IF "event" \in up THEN Binds("main") ELSE UNCHANGED options
  /\ UNCHANGED <<mainVars, flags, taken, pointers, freed, listening, service_port, owed>>

AirplayStartMutant ==
  /\ WorkerGoes("airplay", "dnssd")
  /\ Binds("main")
  /\ running' \in {running \cup {"mirror", "event", "main"}, running \cup {"mirror", "main"}}
  /\ listening' = [listening EXCEPT !["main"] = options'["main"]]
  /\ UNCHANGED <<mainVars, flags, tries, taken, pointers, freed, service_port, owed>>

AirplayStart ==
  /\ WorkerGoes("airplay", "dnssd")
  /\ Binds("main")
  /\ running' = running \cup {"mirror", "event", "main"}
  /\ listening' = [listening EXCEPT !["main"] = options'["main"]]
  /\ UNCHANGED <<mainVars, flags, tries, taken, pointers, freed, service_port, owed>>

(* Out of memory: raop_destroy, and the pointer stays.                     *)
DnssdInitFails ==
  /\ WorkerGoes("dnssd", "failed")
  /\ running' = running \ {"raop"}
  /\ listening' = [listening EXCEPT !["raop"] = -1]
  /\ freed' = TRUE
  /\ UNCHANGED <<mainVars, flags, startVars, pointers, service_port, owed>>

DnssdInitMutant ==
  /\ WorkerGoes("dnssd", "started")
  /\ pointers' = pointers \cup {"dnssd"}
  /\ UNCHANGED <<mainVars, flags, startVars, freed, running, listening, service_port, owed>>

(* The end of startMediaServer: the ports are known to the others.         *)
DnssdInit ==
  /\ WorkerGoes("dnssd", "started")
  /\ pointers' = pointers \cup {"dnssd"}
  /\ service_port' = options
  /\ UNCHANGED <<mainVars, flags, startVars, freed, running, listening, owed>>

(* startEngine reports to MainService, if it is there, that the servers    *)
(* are up, even when they are not.                                         *)
Report ==
  /\ worker \in {"started", "failed"}
  /\ worker' = IF worker = "started" THEN "flag" ELSE "wait"
  /\ posted' = IF main_service THEN posted + 1 ELSE posted
  /\ posted' <= MaxPosted
  /\ UNCHANGED <<main_service, render, restart, announced, settings, flags, startVars,
                 nativeVars, service_port, owed>>

SetFlag ==
  /\ WorkerGoes("flag", "wait")
  /\ mStartSuccess' = TRUE
  /\ UNCHANGED <<mainVars, mExitFlag, mFriendName, startVars, nativeVars, service_port, owed>>

WorkThread ==
  \/ Top \/ Wake \/ StopEngine \/ NoName \/ StartEngine \/ InitFails
  \/ RaopStartFails \/ RaopStart \/ AirplayStartFails \/ AirplayStart
  \/ DnssdInitFails \/ DnssdInit \/ Report \/ SetFlag

Next == MainThread \/ WorkThread

Spec == Init /\ [][Next]_vars

(* The work thread goes on: it waits 7 s at most, and the native calls     *)
(* return.  The main thread's handler runs what is in its queue.           *)
FairSpec ==
  /\ Spec
  /\ WF_vars(WorkThread)
  /\ WF_vars(RestartMessage)
  /\ WF_vars(PostedRegistration)
  /\ WF_vars(RenderDestroy) /\ WF_vars(RenderDestroyed)

-----------------------------------------------------------------------------
WorkerPlaces ==
  {"new", "top", "wait", "stop", "sleep", "exit", "raop", "airplay", "dnssd",
   "started", "failed", "flag", "dead", "crashed"}

TypeOK ==
  /\ main_service \in BOOLEAN
  /\ render \in {"none", "up", "stop", "stopping"}
  /\ restart \in BOOLEAN
  /\ posted \in 0 .. MaxPosted
  /\ announced \in Ports \cup {NoPorts}
  /\ settings \in 1 .. MaxSettings
  /\ mStartSuccess \in BOOLEAN /\ mExitFlag \in BOOLEAN /\ mFriendName \in BOOLEAN
  /\ worker \in WorkerPlaces
  /\ tries \in 0 .. Tries
  /\ taken \in 0 .. MaxSettings /\ owed \in 0 .. MaxSettings
  /\ pointers \subseteq {"raop", "airplay", "dnssd"}
  /\ freed \in BOOLEAN
  /\ running \subseteq Servers
  /\ listening \in [Announced -> -1 .. MaxPort]
  /\ options \in Ports /\ service_port \in Ports

(* startMediaServer returns where it failed (main.c:220, 229, 241) and     *)
(* leaves the servers before that point running.  Whatever failed, and     *)
(* however often, the next start finds none of them and no pointer to one, *)
(* and when the work thread is gone nothing is left.                       *)
StartsClean ==
  worker \in {"sleep", "dead", "new"} => running = {} /\ pointers = {} /\ ~freed

(* When the thread rests on mStartSuccess (DMRWorkThread.java:86) all four *)
(* servers run, with the settings of every restart that was asked for,     *)
(* except one that came in the middle of a start: restartEngine's FALSE    *)
(* (131) is then overwritten (95).                                         *)
StartedServes ==
  mStartSuccess /\ worker = "wait" => running = Servers /\ owed <= taken

(* Once the main thread has done what was posted to it, the announcement   *)
(* of a started receiver names the ports its servers listen at, wherever   *)
(* failures have moved them (NsdHelper.java:39, main.c:253).               *)
AnnouncedPorts ==
  /\ mStartSuccess /\ worker = "wait" /\ posted = 0
  => announced \in {NoPorts, listening}


=============================================================================
