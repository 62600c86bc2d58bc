----------------------------- MODULE DMRCenter ------------------------------
(***************************************************************************)
(* How what the devices ask for reaches the screen: DMRCenter.java, which  *)
(* the native threads call through ActionInflect (jnimain.cpp), and the    *)
(* main thread, which starts the activities and tells them to stop.        *)
(*                                                                         *)
(* A video or a mirroring is opened in two calls, 5 ms apart, by a thread  *)
(* of the HTTP servers or of the mirror server; a stop is one call, from   *)
(* any server.  onActionInvoke is synchronized: a call is one step.  The   *)
(* handler's messages are taken in any order and at any time, which their  *)
(* queue and the 200 ms of a stop are cases of.  Only requests that open   *)
(* or stop are told apart, by their number.  The activities' own state     *)
(* (what they do with a start or a broadcast, whether they receive it), the*)
(* volume and the AudioTrack are left out, and so are the four variables   *)
(* of jnimain.cpp that answer /playback-info.                              *)
(***************************************************************************)
EXTENDS Naturals, Sequences

CONSTANTS
  HttpThreads,   (* The threads of main_server and event_server.           *)
  MirrorThread,  (* The thread of mirror_server.                           *)
  MaxRequests,   (* Bounds how many requests open or stop something,       *)
  MaxBroadcasts  (* and the broadcasts that pause, seek and resume add to. *)

ASSUME CenterAssumption ==
  /\ MirrorThread \notin HttpThreads
  /\ MaxRequests \in Nat
  /\ MaxBroadcasts \in Nat

Threads == HttpThreads \cup {MirrorThread}
Requests == 1 .. MaxRequests
Kinds == {"video", "screen"}
KindOf(t) == IF t = MirrorThread THEN "screen" ELSE "video"

(* mVideoMediaInfo or mScreenMediaInfo is null.                            *)
NoItem == 0

(* A broadcast that is not a stop.                                         *)
Control == 0

Messages == [what : {"start", "stop"}, of : Requests]
Message(what, n) == [what |-> what, of |-> n]

VARIABLES
  mMediaInfo,         (* mVideoMediaInfo and mScreenMediaInfo.             *)
  mCurMediaInfoType,
  opening,            (* The threads between their two calls of an open.   *)
  messages,           (* The messages of mHandler.                         *)
  handling,           (* The one the main thread has taken, if any.        *)
  broadcasts,         (* Those the main thread has not delivered.          *)
  requests,           (* How many requests have opened or stopped.         *)
  (* History.                                                              *)
  asked,              (* The last of them that was played or a stop.       *)
  started,            (* The items whose activities were started.          *)
  gone_out            (* The requests whose activity was started or whose  *)
                      (* stop was delivered.                               *)

infoVars == <<mMediaInfo, mCurMediaInfoType>>
mainVars == <<handling, started, gone_out>>
vars == <<infoVars, opening, messages, broadcasts, requests, asked, mainVars>>

Init ==
  /\ mMediaInfo = [k \in Kinds |-> NoItem] /\ mCurMediaInfoType = "none"
  /\ opening = {} /\ messages = {} /\ broadcasts = <<>>
  /\ requests = 0 /\ asked = 0
  /\ handling = {} /\ started = <<>> /\ gone_out = {}

-----------------------------------------------------------------------------
(* What DMRCenter does in a call.                                          *)

clearStateMutant ==
  [k \in Kinds |-> IF k = mCurMediaInfoType THEN mMediaInfo[k] ELSE NoItem]
clearState == [k \in Kinds |-> NoItem]

(* clearDelayMsg leaves none of the five kinds of messages.                *)
delayToPlayMutant(n) ==
  messages' = {m \in messages : m.what = "stop"} \cup {Message("start", n)}
delayToPlay(n) == messages' = {Message("start", n)}

delayToStop(n) == messages' = {Message("stop", n)}

onRenderAvTransportMutant(kind, n) ==
  /\ mMediaInfo' = [mMediaInfo EXCEPT ![kind] = n]
  /\ mCurMediaInfoType' =
       IF mCurMediaInfoType = "none" THEN kind ELSE mCurMediaInfoType
onRenderAvTransport(kind, n) ==
  /\ mMediaInfo' = [mMediaInfo EXCEPT ![kind] = n]
  /\ mCurMediaInfoType' = kind

Broadcast(n) == broadcasts' = Append(broadcasts, n)

(* Plays the item of the current type, which another thread may have set;  *)
(* without one, the activity is told to go on.                             *)
onRenderPlay ==
  \/ /\ mCurMediaInfoType = "none"
     /\ UNCHANGED <<infoVars, messages, broadcasts, asked>>
  \/ \E n \in Requests :
       /\ mCurMediaInfoType # "none"
       /\ mMediaInfo[mCurMediaInfoType] = n
       /\ delayToPlay(n)
       /\ asked' = n
       /\ mMediaInfo' = clearState
       /\ UNCHANGED <<mCurMediaInfoType, broadcasts>>
  \/ /\ mCurMediaInfoType # "none"
     /\ mMediaInfo[mCurMediaInfoType] = NoItem
     /\ Broadcast(Control)
     /\ mMediaInfo' = clearState
     /\ UNCHANGED <<mCurMediaInfoType, messages, asked>>

-----------------------------------------------------------------------------
(* The native threads.                                                     *)

(* airplay_open and video_mirroring_open: the first of their two calls.    *)
OpenSets(t) ==
  /\ t \notin opening
  /\ requests < MaxRequests
  /\ requests' = requests + 1
  /\ onRenderAvTransport(KindOf(t), requests + 1)
  /\ opening' = opening \cup {t}
  /\ UNCHANGED <<messages, broadcasts, asked, mainVars>>

(* Or the first is refused, for its metadata or for a URL that is shorter  *)
(* than two; the second comes all the same.                                *)
OpenRefused(t) ==
  /\ t \in HttpThreads \ opening
  /\ Len(broadcasts) < MaxBroadcasts
  /\ opening' = opening \cup {t}
  /\ UNCHANGED <<infoVars, messages, broadcasts, requests, asked, mainVars>>

(* And the second.                                                         *)
OpenPlays(t) ==
  /\ t \in opening
  /\ opening' = opening \ {t}
  /\ onRenderPlay
  /\ UNCHANGED <<requests, mainVars>>

(* /rate with a value other than 0: airplay_play.  The first /rate after a *)
(* /play, which wait swallows, does nothing.                               *)
Resume(t) ==
  /\ t \in HttpThreads \ opening
  /\ Len(broadcasts) < MaxBroadcasts
  /\ onRenderPlay
  /\ UNCHANGED <<opening, requests, mainVars>>

(* /rate with 0, and /scrub: airplay_pause and airplay_seek.               *)
PauseOrSeek(t) ==
  /\ t \in HttpThreads \ opening
  /\ Len(broadcasts) < MaxBroadcasts
  /\ Broadcast(Control)
  /\ UNCHANGED <<infoVars, opening, messages, requests, asked, mainVars>>

(* airplay_stop and video_mirroring_stop, from /stop, a TEARDOWN, a packet *)
(* of type 102 or a device that takes over.  The stop is broadcast now and *)
(* again when the message is taken.                                        *)
Stop ==
  /\ requests < MaxRequests
  /\ requests' = requests + 1
  /\ asked' = requests + 1
  /\ delayToStop(requests + 1)
  /\ Broadcast(requests + 1)
  /\ UNCHANGED <<infoVars, opening, mainVars>>

-----------------------------------------------------------------------------
(* The main thread.  A message is out of the queue before it is handled.   *)

TakeMessage ==
  /\ handling = {}
  /\ \E m \in messages :
       /\ messages' = messages \ {m}
       /\ handling' = {m}
  /\ UNCHANGED <<infoVars, opening, broadcasts, requests, asked, started,
                 gone_out>>

(* startPlayVideo, startPlayScreen.                                        *)
StartActivity ==
  \E m \in handling :
    /\ m.what = "start"
    /\ started' = Append(started, m.of)
    /\ gone_out' = gone_out \cup {m.of}
    /\ handling' = {}
    /\ UNCHANGED <<infoVars, opening, messages, broadcasts, requests, asked>>

SendStop ==
  \E m \in handling :
    /\ m.what = "stop"
    /\ Broadcast(m.of)
    /\ handling' = {}
    /\ UNCHANGED <<infoVars, opening, messages, requests, asked, started,
                   gone_out>>

Deliver ==
  /\ handling = {}
  /\ broadcasts # <<>>
  /\ broadcasts' = Tail(broadcasts)
  /\ gone_out' = gone_out \cup ({Head(broadcasts)} \ {Control})
  /\ UNCHANGED <<infoVars, opening, messages, requests, asked, handling,
                 started>>

Next ==
  \/ \E t \in Threads :
       \/ OpenSets(t) \/ OpenRefused(t) \/ OpenPlays(t)
       \/ Resume(t) \/ PauseOrSeek(t)
  \/ Stop
  \/ TakeMessage \/ StartActivity \/ SendStop \/ Deliver

Spec == Init /\ [][Next]_vars

(* A thread returns from its usleep, and the main thread comes to every    *)
(* message and every broadcast.  Nobody has to ask for anything.           *)
FairSpec ==
  /\ Spec
  /\ \A t \in Threads : WF_vars(OpenPlays(t))
  /\ WF_vars(TakeMessage)
  /\ WF_vars(StartActivity \/ SendStop)
  /\ WF_vars(Deliver)

-----------------------------------------------------------------------------
(* Properties.                                                             *)

TypeOK ==
  /\ mMediaInfo \in [Kinds -> Requests \cup {NoItem}]
  /\ mCurMediaInfoType \in Kinds \cup {"none"}
  /\ opening \in SUBSET Threads
  /\ messages \in SUBSET Messages
  /\ handling \in SUBSET Messages
  /\ broadcasts \in Seq(Requests \cup {Control})
  /\ requests \in 0 .. MaxRequests
  /\ asked \in 0 .. MaxRequests
  /\ started \in Seq(Requests)
  /\ gone_out \in SUBSET Requests

(* A message that the main thread takes is, at that moment, the last thing *)
(* that was asked for: not one that has been stopped or followed by        *)
(* another since, whichever threads asked; in particular no delayed stop   *)
(* is taken when something newer is to be shown (clearDelayMsg,            *)
(* DMRCenter.java 442-452).                                                *)
OnlyNewestIsTaken ==
  [][\A m \in handling' : m \in handling \/ m.of = asked]_vars

(* No item is started twice: PLAY, which also resumes, never starts again  *)
(* what it has started, even when two threads' calls interleave            *)
(* (clearState, DMRCenter.java 393-398).                                   *)
StartedOnce ==
  \A i, j \in DOMAIN started : started[i] = started[j] => i = j

(* Unless another follows, the newest request leaves DMRCenter: whichever  *)
(* thread's PLAY finds it, the activity of an item is started, and a stop  *)
(* reaches those who receive broadcasts (onRenderPlay and onRenderStop,    *)
(* DMRCenter.java 283-334).  What an activity then does is its own affair: *)
(* a player ignores a stop for three seconds after its start, and          *)
(* MirrorActivity receives none.                                           *)
NewestGoesOut ==
  \A n \in Requests : (requests = n) ~> (n \in gone_out \/ requests # n)
=============================================================================
