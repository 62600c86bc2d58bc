------------------------------- MODULE Httpd --------------------------------
(***************************************************************************)
(* One of the program's servers (httpd.c): a listening socket, the slots   *)
(* of its connections, and the thread that accepts clients and hands their *)
(* requests to the callbacks of raop.c or airplay.c.  What the mirror      *)
(* server does with its bytes is Mirroring's subject.                      *)
(*                                                                         *)
(* One other thread, DMRWorkThread, starts and stops the server; run_mutex *)
(* guards m_running and m_joined.  A client is the number of its turn; it  *)
(* stands for its socket and for the user_data that conn_init made for it. *)
(* MaxClients bounds them, MaxRequests the requests that arrive together.  *)
(*                                                                         *)
(* A definition named ...Mutant is a bug that the properties must detect:  *)
(* no behaviour uses it.                                                   *)
(***************************************************************************)
EXTENDS Integers, FiniteSets

CONSTANTS max_connections, MaxClients, MaxRequests

ASSUME HttpdAssumption ==
  /\ max_connections \in Nat \ {0}
  /\ MaxClients \in Nat
  /\ MaxRequests \in Nat \ {0}

VARIABLES
  m_running, m_joined,
  server_fd,         (* Whether the listening socket is open.              *)
  thread,            (* Where the thread is.                               *)
  rfds,              (* The clients that select found ready.               *)
  i,                 (* The slot the thread is looking at.                 *)
  left,              (* The requests of its message not yet handled.       *)
  connections,       (* Slot -> its client, or None when not connected.    *)
  open_connections,
  live,              (* The clients that have a user_data.                 *)
  arrived,           (* Clients so far ...                                 *)
  taken              (* ... of which those past it wait in the backlog.    *)

threadVars == <<rfds, i, left>>
slotVars == <<connections, open_connections, live>>
flags == <<m_running, m_joined, server_fd>>
vars == <<flags, thread, threadVars, slotVars, arrived, taken>>

Slots == 0 .. max_connections - 1
Clients == 1 .. MaxClients
None == 0
Connected == {s \in Slots : connections[s] # None}

Init ==
  /\ m_running = FALSE /\ m_joined = TRUE /\ server_fd = FALSE
  /\ thread = "none" /\ rfds = {} /\ i = 0 /\ left = 0
  /\ connections = [s \in Slots |-> None]
  /\ open_connections = 0 /\ live = {}
  /\ arrived = 0 /\ taken = 0

-----------------------------------------------------------------------------
(***************************************************************************)
(* The other side of the sockets, and DMRWorkThread.                       *)
(***************************************************************************)
Connect ==
  /\ server_fd
  /\ arrived < MaxClients
  /\ arrived' = arrived + 1
  /\ UNCHANGED <<flags, thread, threadVars, slotVars, taken>>

(* It changes nothing when the server runs, has not been joined, cannot    *)
(* have its port: forceStopAirplay then finds no connection.  When listen  *)
(* fails it closes the socket but keeps its number in server_fd4, which    *)
(* only the next httpd_start, that writes it, and its thread look at: the  *)
(* server is as it was.                                                    *)
httpd_start ==
  /\ ~m_running /\ m_joined
  /\ server_fd' = TRUE
  /\ m_running' = TRUE
  /\ m_joined' = FALSE
  /\ thread' = "check"
  /\ UNCHANGED <<threadVars, slotVars, arrived, taken>>

StopAsks ==
  /\ m_running /\ ~m_joined
  /\ m_running' = FALSE
  /\ UNCHANGED <<m_joined, server_fd, thread, threadVars, slotVars, arrived, taken>>

StopJoinsMutant ==
  /\ ~m_running /\ ~m_joined
  /\ m_joined' = TRUE
  /\ UNCHANGED <<m_running, server_fd, thread, threadVars, slotVars, arrived, taken>>

StopJoins ==
  /\ ~m_running /\ ~m_joined
  /\ thread = "ended"
  /\ m_joined' = TRUE
  /\ UNCHANGED <<m_running, server_fd, thread, threadVars, slotVars, arrived, taken>>

-----------------------------------------------------------------------------
(***************************************************************************)
(* The slots.                                                              *)
(***************************************************************************)
RemoveMutant(s) ==
  /\ connections' = [connections EXCEPT ![s] = None]
  /\ live' = live \ {connections[s]}
  /\ UNCHANGED open_connections

(* httpd_remove_connection.                                                *)
Remove(s) ==
  /\ connections' = [connections EXCEPT ![s] = None]
  /\ live' = live \ {connections[s]}
  /\ open_connections' = open_connections - 1

RemoveAllMutant ==
  /\ connections' = [s \in Slots |-> None]
  /\ open_connections' = open_connections - Cardinality(Connected)
  /\ UNCHANGED live

(* forceStopAirplay, and the end of the thread.                            *)
RemoveAll ==
  /\ connections' = [s \in Slots |-> None]
  /\ open_connections' = open_connections - Cardinality(Connected)
  /\ live' = live \ {connections[s] : s \in Connected}

-----------------------------------------------------------------------------
(***************************************************************************)
(* httpd_thread.                                                           *)
(***************************************************************************)
Goes(from, to) == thread = from /\ thread' = to

CheckMutant ==
  /\ Goes("check", "select")
  /\ UNCHANGED <<flags, threadVars, slotVars, arrived, taken>>

Check ==
  /\ Goes("check", IF m_running THEN "select" ELSE "cleanup")
  /\ UNCHANGED <<flags, threadVars, slotVars, arrived, taken>>

ListensMutant == server_fd /\ open_connections = 0

(* A client is accepted only while there is a free slot.                   *)
Listens == server_fd /\ open_connections < max_connections

Waiting == taken < arrived

SelectNothing ==
  /\ ~(Listens /\ Waiting)
  /\ Goes("select", "check")
  /\ UNCHANGED <<flags, threadVars, slotVars, arrived, taken>>

SelectFails ==
  /\ Goes("select", "cleanup")
  /\ UNCHANGED <<flags, threadVars, slotVars, arrived, taken>>

Select ==
  /\ \E ready \in SUBSET {connections[s] : s \in Connected} :
       /\ ready # {} \/ (Listens /\ Waiting)
       /\ Goes("select", IF Listens /\ Waiting THEN "accept" ELSE "scan")
       /\ rfds' = ready
  /\ i' = 0
  /\ UNCHANGED <<flags, left, slotVars, arrived, taken>>

AcceptFails ==
  /\ Goes("accept", "cleanup")
  /\ UNCHANGED <<flags, threadVars, slotVars, arrived, taken>>

(* getsockname or conn_init fails, the latter perhaps after a preemption:  *)
(* the client is closed and the loop starts again.                         *)
AcceptDrops ==
  /\ Goes("accept", "check")
  /\ taken' = taken + 1
  /\ RemoveAll \/ UNCHANGED slotVars
  /\ UNCHANGED <<flags, threadVars, arrived>>

(* The first slot that is free.                                            *)
Free(s) == connections[s] = None /\ \A t \in 0 .. s - 1 : connections[t] # None

AcceptAdds ==
  /\ Goes("accept", "scan")
  /\ taken' = taken + 1
  /\ live' = live \cup {taken'}
  /\ open_connections' = open_connections + 1
  /\ \E s \in Slots : Free(s) /\ connections' = [connections EXCEPT ![s] = taken']
  /\ UNCHANGED <<flags, threadVars, arrived>>

(* The mirror stream of another client is running: it is stopped, and this *)
(* server drops the clients it has before it adds the new one.             *)
AcceptPreempts ==
  /\ Goes("accept", "scan")
  /\ taken' = taken + 1
  /\ live' = (live \ {connections[s] : s \in Connected}) \cup {taken'}
  /\ open_connections' = open_connections - Cardinality(Connected) + 1
  /\ connections' = [s \in Slots |-> IF s = 0 THEN taken' ELSE None]
  /\ UNCHANGED <<flags, threadVars, arrived>>

Ready == connections[i] # None /\ connections[i] \in rfds

ScanEnds ==
  /\ Goes("scan", "check")
  /\ i = max_connections
  /\ UNCHANGED <<flags, threadVars, slotVars, arrived, taken>>

ScanSkips ==
  /\ Goes("scan", "scan")
  /\ i < max_connections /\ ~Ready
  /\ i' = i + 1
  /\ UNCHANGED <<flags, rfds, left, slotVars, arrived, taken>>

(* Part of a request, a reply of the client, or an unknown method.         *)
ReceivePart ==
  /\ Goes("scan", "scan")
  /\ i < max_connections /\ Ready
  /\ i' = i + 1
  /\ UNCHANGED <<flags, rfds, left, slotVars, arrived, taken>>

(* The client closed the connection, or its request does not parse.        *)
ReceiveFails ==
  /\ Goes("scan", "scan")
  /\ i < max_connections /\ Ready
  /\ i' = i + 1
  /\ Remove(i)
  /\ UNCHANGED <<flags, rfds, left, arrived, taken>>

ReceiveRequests ==
  /\ Goes("scan", "handle")
  /\ i < max_connections /\ Ready
  /\ left' \in 1 .. MaxRequests
  /\ UNCHANGED <<flags, rfds, i, slotVars, arrived, taken>>

(* One call of conn_request, which is given the connection's request; its  *)
(* response may ask to disconnect the client.  Without a request the call  *)
(* fails its assertion and the program ends.                               *)
Handle ==
  /\ Goes("handle", IF left = 1 THEN "scan" ELSE "handle")
  /\ connections[i] # None
  /\ left' = left - 1
  /\ i' = IF left = 1 THEN i + 1 ELSE i
  /\ Remove(i) \/ UNCHANGED slotVars
  /\ UNCHANGED <<flags, rfds, arrived, taken>>

(* After the loop: the connections and the listening socket are closed.    *)
Cleanup ==
  /\ Goes("cleanup", "ended")
  /\ RemoveAll
  /\ server_fd' = FALSE
  /\ taken' = arrived
  /\ UNCHANGED <<m_running, m_joined, threadVars, arrived>>

httpd_thread ==
  \/ Check \/ SelectNothing \/ SelectFails \/ Select
  \/ AcceptFails \/ AcceptDrops \/ AcceptAdds \/ AcceptPreempts
  \/ ScanEnds \/ ScanSkips \/ ReceivePart \/ ReceiveFails \/ ReceiveRequests
  \/ Handle \/ Cleanup

Next == Connect \/ httpd_start \/ StopAsks \/ StopJoins \/ httpd_thread

Spec == Init /\ [][Next]_vars

(* The thread waits a second in select at most, and the callbacks return;  *)
(* a stop that was asked for goes on.  Nobody has to start, stop or call.  *)
FairSpec == Spec /\ WF_vars(httpd_thread) /\ WF_vars(StopJoins)

-----------------------------------------------------------------------------
(***************************************************************************)
(* Properties.                                                             *)
(***************************************************************************)
TypeOK ==
  /\ m_running \in BOOLEAN /\ m_joined \in BOOLEAN /\ server_fd \in BOOLEAN
  /\ thread \in {"none", "check", "select", "accept", "scan", "handle", "cleanup", "ended"}
  /\ rfds \in SUBSET Clients
  /\ i \in 0 .. max_connections
  /\ thread = "handle" => i \in Slots
  /\ left \in 0 .. MaxRequests
  /\ connections \in [Slots -> Clients \cup {None}]
  /\ open_connections \in 0 .. max_connections
  /\ live \in SUBSET Clients
  /\ arrived \in 0 .. MaxClients /\ taken \in 0 .. arrived

(* "This code should never be reached, we do not select server_fds when    *)
(* full" (httpd.c:206): open_connections counts the slots in use, so a     *)
(* client that is accepted finds a slot.                                   *)
NeverFull ==
  /\ open_connections = Cardinality(Connected)
  /\ thread = "accept" => \E s \in Slots : connections[s] = None

(* Every user_data that conn_init made belongs to one slot until           *)
(* conn_destroy frees it: none is forgotten, none is shared.               *)
UserDataOwned ==
  /\ live = {connections[s] : s \in Connected}
  /\ \A s, t \in Connected : connections[s] = connections[t] => s = t

(* A callback was called without a request: "assert(request)"              *)
(* (http_request.c:231) has ended the program.                             *)
Failed == thread = "handle" /\ connections[i] = None

(* A server that is joined has no thread, no client and no socket, so that *)
(* it can be started again or freed.                                       *)
StoppedIsClean ==
  m_joined => /\ thread \in {"none", "ended"}
              /\ live = {} /\ Connected = {} /\ ~server_fd

(* A stop returns, wherever the thread is when it is asked for.            *)
StopReturns == ~m_running /\ ~m_joined ~> m_joined \/ Failed

(* A client does not wait for ever while there is a slot for it.           *)
WaitingIsAccepted ==
  \A c \in Clients :
    c \in taken + 1 .. arrived
      ~> \/ c <= taken \/ open_connections = max_connections
         \/ thread = "ended" \/ Failed
=============================================================================
