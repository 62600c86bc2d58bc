---------------------------- MODULE RaopSession -----------------------------
(***************************************************************************)
(* Who owns a raop_rtp session, and when.  The RTSP server is one thread   *)
(* (httpd.c) that handles the requests of every connection in turn         *)
(* (raop.c); a connection has at most one session (raop_rtp.c), whose own  *)
(* thread receives the sound, applies the settings that the RTSP thread    *)
(* leaves for it under run_mutex, and plays into the one output of the     *)
(* program (audio_oboe in jnimain.cpp).                                    *)
(*                                                                         *)
(* raop_rtp_stop asks the thread to end and joins it; everything else that *)
(* the two threads share hangs on that.  A critical section of run_mutex   *)
(* is one action; so is each access to audio_oboe.  What the thread does   *)
(* with a packet is RaopStream's subject.                                  *)
(*                                                                         *)
(* Sessions are numbered as they are created, settings as they are posted. *)
(* MaxSessions and MaxPosts bound them.  The output a session's thread     *)
(* opens has the session's number.                                         *)
(*                                                                         *)
(* A definition named ...Mutant is a bug that the properties must detect:  *)
(* no behaviour uses it.                                                   *)
(***************************************************************************)
EXTENDS Integers

CONSTANTS
  Conns,   (* The RTSP connections.                                        *)
  Fields,  (* The settings: volume, flush, metadata, coverart, progress.   *)
  MaxSessions, MaxPosts

ASSUME SessionAssumption ==
  /\ Conns # {}
  /\ MaxSessions \in Nat
  /\ MaxPosts \in Nat

VARIABLES
  connected,   (* Whether a connection is open.                            *)
  raop_rtp,    (* Its session, or NULL.                                    *)
  rtsp,        (* Where the RTSP thread is: a request and its connection.  *)
  created,     (* Sessions so far.                                         *)
  allocated,   (* Those not freed.                                         *)
  running, joined,
  sockets,     (* Whether a session's sockets are open.                    *)
  thread,      (* Where its thread is.                                     *)
  pending,     (* Session -> field -> the setting left for the thread.     *)
  taken,       (* The settings the thread took and is applying.            *)
  applied,     (* The last one it applied.                                 *)
  posts,       (* Settings so far.                                         *)
  audio_oboe,  (* The output, or NULL.                                     *)
  live,        (* The outputs that are not deleted.                        *)
  playing      (* The output a thread is pushing a frame into, or NULL.    *)

connVars == <<connected, raop_rtp>>
boxVars == <<pending, taken, applied, posts>>
stateVars == <<created, allocated, running, joined, sockets>>
outVars == <<audio_oboe, live, playing>>
vars == <<connVars, rtsp, stateVars, thread, boxVars, outVars>>

Sessions == 1 .. MaxSessions
NULL == 0
NoSettings == [f \in Fields |-> 0]

Idle == [pc |-> "idle", request |-> "none", conn |-> CHOOSE c \in Conns : TRUE]

Init ==
  /\ connected = [c \in Conns |-> FALSE]
  /\ raop_rtp = [c \in Conns |-> NULL]
  /\ rtsp = Idle
  /\ created = 0 /\ allocated = {}
  /\ running = [s \in Sessions |-> FALSE]
  /\ joined = [s \in Sessions |-> TRUE]
  /\ sockets = [s \in Sessions |-> FALSE]
  /\ thread = [s \in Sessions |-> "none"]
  /\ pending = [s \in Sessions |-> NoSettings]
  /\ taken = [s \in Sessions |-> NoSettings]
  /\ applied = [s \in Sessions |-> NoSettings]
  /\ posts = 0
  /\ audio_oboe = NULL /\ live = {}
  /\ playing = [s \in Sessions |-> NULL]

-----------------------------------------------------------------------------
(***************************************************************************)
(* The requests, on the RTSP thread.                                       *)
(***************************************************************************)
At(pc, request, c) == [pc |-> pc, request |-> request, conn |-> c]

(* conn_init.                                                              *)
Accept(c) ==
  /\ rtsp.pc = "idle"
  /\ ~connected[c]
  /\ connected' = [connected EXCEPT ![c] = TRUE]
  /\ UNCHANGED <<raop_rtp, rtsp, stateVars, thread, boxVars, outVars>>

RequestMutant(c, request) ==
  /\ rtsp.pc = "idle"
  /\ connected[c]
  /\ request \in {"SETUP", "ANNOUNCE"} => created < MaxSessions
  /\ rtsp' = At(IF raop_rtp[c] # NULL /\ request # "close" THEN "stop" ELSE "freed", request, c)
  /\ UNCHANGED <<connVars, stateVars, thread, boxVars, outVars>>

(* A request that first gets rid of the session there may be: a SETUP of   *)
(* stream 96, an ANNOUNCE, a TEARDOWN of stream 96, and conn_destroy.      *)
Request(c, request) ==
  /\ rtsp.pc = "idle"
  /\ connected[c]
  /\ request \in {"SETUP", "ANNOUNCE"} => created < MaxSessions
  /\ rtsp' = At(IF raop_rtp[c] # NULL THEN "stop" ELSE "freed", request, c)
  /\ UNCHANGED <<connVars, stateVars, thread, boxVars, outVars>>

(* The older SETUP, with a Transport header, starts the session that an    *)
(* ANNOUNCE made; without one the client is disconnected.                  *)
SetupTransport(c) ==
  /\ rtsp.pc = "idle"
  /\ connected[c]
  /\ rtsp' = IF raop_rtp[c] # NULL THEN At("start", "SETUP", c) ELSE At("freed", "close", c)
  /\ UNCHANGED <<connVars, stateVars, thread, boxVars, outVars>>

(* SET_PARAMETER and FLUSH.                                                *)
Post(c, f) ==
  /\ rtsp.pc = "idle"
  /\ connected[c]
  /\ raop_rtp[c] # NULL
  /\ posts < MaxPosts
  /\ posts' = posts + 1
  /\ pending' = [pending EXCEPT ![raop_rtp[c]][f] = posts + 1]
  /\ UNCHANGED <<connVars, rtsp, stateVars, thread, taken, applied, outVars>>

-----------------------------------------------------------------------------
(***************************************************************************)
(* raop_rtp_stop and raop_rtp_destroy.                                     *)
(***************************************************************************)
Ours == raop_rtp[rtsp.conn]

StopLocks ==
  /\ rtsp.pc = "stop"
  /\ IF ~running[Ours] \/ joined[Ours]
     THEN rtsp' = [rtsp EXCEPT !.pc = "destroy"] /\ UNCHANGED running
     ELSE rtsp' = [rtsp EXCEPT !.pc = "join"] /\ running' = [running EXCEPT ![Ours] = FALSE]
  /\ UNCHANGED <<connVars, created, allocated, joined, sockets, thread, boxVars, outVars>>

StopJoinsMutant ==
  /\ rtsp.pc = "join"
  /\ rtsp' = [rtsp EXCEPT !.pc = "close"]
  /\ UNCHANGED <<connVars, stateVars, thread, boxVars, outVars>>

StopJoins ==
  /\ rtsp.pc = "join"
  /\ thread[Ours] = "ended"
  /\ rtsp' = [rtsp EXCEPT !.pc = "close"]
  /\ UNCHANGED <<connVars, stateVars, thread, boxVars, outVars>>

StopCloses ==
  /\ rtsp.pc = "close"
  /\ rtsp' = [rtsp EXCEPT !.pc = "destroy"]
  /\ sockets' = [sockets EXCEPT ![Ours] = FALSE]
  /\ joined' = [joined EXCEPT ![Ours] = TRUE]
  /\ UNCHANGED <<connVars, created, allocated, running, thread, boxVars, outVars>>

Destroy ==
  /\ rtsp.pc = "destroy"
  /\ rtsp' = [rtsp EXCEPT !.pc = "freed"]
  /\ allocated' = allocated \ {Ours}
  /\ raop_rtp' = [raop_rtp EXCEPT ![rtsp.conn] = NULL]
  /\ UNCHANGED <<connected, created, running, joined, sockets, thread, boxVars, outVars>>

(* The rest of the request.  raop_rtp_init fails for a remote address that *)
(* it cannot parse, and the client is disconnected.                        *)
Finish ==
  /\ rtsp.pc = "freed"
  /\ rtsp.request \in {"TEARDOWN", "close"}
  /\ rtsp' = Idle
  /\ connected' = [connected EXCEPT ![rtsp.conn] = rtsp.request # "close"]
  /\ UNCHANGED <<raop_rtp, stateVars, thread, boxVars, outVars>>

InitSession ==
  /\ rtsp.pc = "freed"
  /\ rtsp.request \in {"SETUP", "ANNOUNCE"}
  /\ created' = created + 1
  /\ allocated' = allocated \cup {created'}
  /\ raop_rtp' = [raop_rtp EXCEPT ![rtsp.conn] = created']
  /\ rtsp' = IF rtsp.request = "SETUP" THEN [rtsp EXCEPT !.pc = "start"] ELSE Idle
  /\ UNCHANGED <<connected, running, joined, sockets, thread, boxVars, outVars>>

InitFails ==
  /\ rtsp.pc = "freed"
  /\ rtsp.request \in {"SETUP", "ANNOUNCE"}
  /\ rtsp' = [rtsp EXCEPT !.request = "close"]
  /\ UNCHANGED <<connVars, stateVars, thread, boxVars, outVars>>

(* raop_rtp_start returns without a word when the session has a thread, or *)
(* when the sockets cannot be opened.                                      *)
Start ==
  /\ rtsp.pc = "start"
  /\ rtsp' = Idle
  /\ \/ UNCHANGED <<running, joined, sockets, thread>>
     \/ /\ ~running[Ours] /\ joined[Ours]
        /\ sockets' = [sockets EXCEPT ![Ours] = TRUE]
        /\ running' = [running EXCEPT ![Ours] = TRUE]
        /\ joined' = [joined EXCEPT ![Ours] = FALSE]
        /\ thread' = [thread EXCEPT ![Ours] = "open"]
  /\ UNCHANGED <<connVars, created, allocated, boxVars, outVars>>

RtspStep ==
  \/ StopLocks \/ StopJoins \/ StopCloses \/ Destroy
  \/ Finish \/ InitSession \/ InitFails \/ Start

-----------------------------------------------------------------------------
(***************************************************************************)
(* The session's thread, raop_rtp_thread_udp or _tcp.                      *)
(***************************************************************************)
Goes(s, from, to) ==
  /\ thread[s] = from
  /\ thread' = [thread EXCEPT ![s] = to]
  /\ UNCHANGED <<connVars, rtsp, stateVars>>

(* audio_open: the output there may be is deleted and a new one made.      *)
OpenFrees(s) ==
  /\ Goes(s, "open", "clear")
  /\ live' = live \ {audio_oboe}
  /\ UNCHANGED <<boxVars, audio_oboe, playing>>

OpenClears(s) ==
  /\ Goes(s, "clear", "new")
  /\ audio_oboe' = NULL
  /\ UNCHANGED <<boxVars, live, playing>>

OpenCreates(s) ==
  /\ Goes(s, "new", "events")
  /\ audio_oboe' = s
  /\ live' = live \cup {s}
  /\ UNCHANGED <<boxVars, playing>>

TakesMutant(s) == [pending EXCEPT ![s] = pending[s]]

(* The pending settings once the thread has read them.                     *)
Takes(s) == [pending EXCEPT ![s] = NoSettings]

EventsStopMutant(s) ==
  /\ ~running[s]
  /\ Goes(s, "events", "select")
  /\ UNCHANGED <<boxVars, outVars>>

(* raop_rtp_process_events, up to the unlock.                              *)
EventsStop(s) ==
  /\ ~running[s]
  /\ Goes(s, "events", "stop")
  /\ UNCHANGED <<boxVars, outVars>>

EventsTakeMutant(s) ==
  /\ running[s]
  /\ Goes(s, "events", "apply")
  /\ pending' = Takes(s)
  /\ taken' = [taken EXCEPT ![s] = pending'[s]]
  /\ UNCHANGED <<applied, posts, outVars>>

EventsTake(s) ==
  /\ running[s]
  /\ Goes(s, "events", "apply")
  /\ taken' = [taken EXCEPT ![s] = pending[s]]
  /\ pending' = Takes(s)
  /\ UNCHANGED <<applied, posts, outVars>>

(* ... and after it: the callbacks for what was taken.                     *)
EventsApply(s) ==
  /\ Goes(s, "apply", "select")
  /\ applied' = [applied EXCEPT ![s] =
       [f \in Fields |-> IF taken[s][f] # 0 THEN taken[s][f] ELSE applied[s][f]]]
  /\ taken' = [taken EXCEPT ![s] = NoSettings]
  /\ UNCHANGED <<pending, posts, outVars>>

SelectNothing(s) ==
  /\ Goes(s, "select", "events")
  /\ UNCHANGED <<boxVars, outVars>>

(* A failure of select, accept or recv, a closed stream, a wrong frame:    *)
(* the thread leaves its loop and running stays set.                       *)
SelectFails(s) ==
  /\ Goes(s, "select", "stop")
  /\ UNCHANGED <<boxVars, outVars>>

(* audio_process pushes a frame into the output.                           *)
PlayBegins(s) ==
  /\ Goes(s, "select", "play")
  /\ playing' = [playing EXCEPT ![s] = audio_oboe]
  /\ UNCHANGED <<boxVars, audio_oboe, live>>

PlayEnds(s) ==
  /\ Goes(s, "play", "events")
  /\ playing' = [playing EXCEPT ![s] = NULL]
  /\ UNCHANGED <<boxVars, audio_oboe, live>>

StopFreesMutant(s) ==
  /\ Goes(s, "stop", "forget")
  /\ UNCHANGED <<boxVars, outVars>>

(* audio_destroy.                                                          *)
StopFrees(s) ==
  /\ Goes(s, "stop", "forget")
  /\ live' = live \ {audio_oboe}
  /\ UNCHANGED <<boxVars, audio_oboe, playing>>

StopForgets(s) ==
  /\ Goes(s, "forget", "ended")
  /\ audio_oboe' = NULL
  /\ UNCHANGED <<boxVars, live, playing>>

ThreadStep(s) ==
  \/ OpenFrees(s) \/ OpenClears(s) \/ OpenCreates(s)
  \/ EventsStop(s) \/ EventsTake(s) \/ EventsApply(s)
  \/ SelectNothing(s) \/ SelectFails(s) \/ PlayBegins(s) \/ PlayEnds(s)
  \/ StopFrees(s) \/ StopForgets(s)

Requests == {"SETUP", "ANNOUNCE", "TEARDOWN", "close"}

Next ==
  \/ \E c \in Conns :
       \/ Accept(c) \/ SetupTransport(c)
       \/ \E request \in Requests : Request(c, request)
       \/ \E f \in Fields : Post(c, f)
  \/ RtspStep
  \/ \E s \in Sessions : ThreadStep(s)

Spec == Init /\ [][Next]_vars

-----------------------------------------------------------------------------
(***************************************************************************)
(* Properties.                                                             *)
(***************************************************************************)
Settings == [Fields -> 0 .. MaxPosts]

TypeOK ==
  /\ connected \in [Conns -> BOOLEAN]
  /\ raop_rtp \in [Conns -> Sessions \cup {NULL}]
  /\ rtsp \in [pc : {"idle", "stop", "join", "close", "destroy", "freed", "start"},
               request : Requests \cup {"none"}, conn : Conns]
  /\ rtsp.pc \notin {"idle", "freed"} => Ours # NULL
  /\ created \in 0 .. MaxSessions /\ allocated \in SUBSET Sessions
  /\ running \in [Sessions -> BOOLEAN] /\ joined \in [Sessions -> BOOLEAN]
  /\ sockets \in [Sessions -> BOOLEAN]
  /\ thread \in [Sessions -> {"none", "open", "clear", "new", "events", "apply",
                              "select", "play", "stop", "forget", "ended"}]
  /\ pending \in [Sessions -> Settings] /\ taken \in [Sessions -> Settings]
  /\ applied \in [Sessions -> Settings] /\ posts \in 0 .. MaxPosts
  /\ audio_oboe \in Sessions \cup {NULL} /\ live \in SUBSET Sessions
  /\ playing \in [Sessions -> Sessions \cup {NULL}]

Alive(s) == thread[s] \notin {"none", "ended"}

(* A thread never outlives its session or its sockets, whichever request   *)
(* ends it, and a connection never holds a session that was freed: the     *)
(* join in raop_rtp_stop comes before everything is taken apart.           *)
ThreadHasSession ==
  /\ \A s \in Sessions : Alive(s) => s \in allocated /\ sockets[s]
  /\ \A c \in Conns : raop_rtp[c] # NULL => raop_rtp[c] \in allocated

(* No session or socket is forgotten: what is still allocated belongs to   *)
(* an open connection, and what is not has its sockets closed.             *)
NothingForgotten ==
  /\ \A s \in allocated : \E c \in Conns : connected[c] /\ raop_rtp[c] = s
  /\ \A s \in Sessions : sockets[s] => s \in allocated

(* What a thread is about to apply is newer than all it applied: no        *)
(* setting is applied twice, or after one that was posted later.           *)
TakenIsNew ==
  \A s \in Sessions, f \in Fields : taken[s][f] # 0 => taken[s][f] > applied[s][f]

(* A frame is pushed into the output that its own session opened and that  *)
(* is not deleted, and no output is deleted twice.  It holds for sessions  *)
(* that come one after the other; with two at a time ("multi device",      *)
(* httpd.c:189) it is what each of them needs, and does not get.           *)
OwnOutput ==
  \A s \in Sessions :
    /\ thread[s] = "play" => playing[s] = s /\ s \in live
    /\ thread[s] \in {"open", "stop"} /\ audio_oboe # NULL => audio_oboe \in live

(* When no thread is left, no output is: again for one session at a time.  *)
OutputsClosed == (\A s \in Sessions : ~Alive(s)) => live = {} /\ audio_oboe = NULL

(* A request that stops a session comes to its end: the join is answered,  *)
(* wherever the thread is when it is asked to end.                         *)
StopReturns == rtsp.pc = "join" ~> rtsp.pc # "join"

(* "Set volume in thread instead" (raop_rtp.c:686), and so for every       *)
(* setting: it is applied or a later one is, unless the thread has ended.  *)
(* Not so for a thread that gave up (raop_rtp.c:434-437, 553-602): it      *)
(* leaves running set, and settings are still accepted.                    *)
SettingApplied ==
  \A s \in Sessions, f \in Fields, n \in 1 .. MaxPosts :
    pending[s][f] = n /\ Alive(s) ~> applied[s][f] >= n \/ ~Alive(s)
=============================================================================
