------------------------------- MODULE Server -------------------------------
(***************************************************************************)
(* Server.cpp together with the part of Session.cpp that decides how long  *)
(* a session lives: accepting and dialling connections, the two maps of    *)
(* weak pointers that keep one session for each endpoint and one for each  *)
(* device, the identification callback, Close(), and the 30 second         *)
(* cleanup.                                                                *)
(*                                                                         *)
(* The process runs one io_context on one thread, so that a handler, or a  *)
(* coroutine between two co_awaits, is atomic.  A session object lives as  *)
(* long as a coroutine or a handler holds it: the read loop, the           *)
(* GetParamsFromIP coroutine, the poll timer.  (The detached writes and    *)
(* status updates hold it too, for as long as they run and no longer than  *)
(* one of these three or a bounded time after it; they are left out.)      *)
(*                                                                         *)
(* Definitions under a "Fault" comment are faulty variants of the one that *)
(* follows; no specification uses them, the README says what they are for. *)
(***************************************************************************)
EXTENDS Naturals

CONSTANTS
  MaxSessions,  \* bound: connections ever made
  Endpoints,    \* remote "ip:port" keys
  Devices,      \* concentrator codes (port 8877) or meter codes (port 4059)
  Port,         \* "dcu": the server on 8877; "meters": the server on 4059
  None          \* an empty entry, or a device not identified yet

ASSUME ServerAssumption ==
  /\ MaxSessions \in Nat
  /\ Port \in {"dcu", "meters"}
  /\ None \notin 1..MaxSessions
  /\ None \notin Endpoints
  /\ None \notin Devices

Sessions == 1..MaxSessions  \* numbered in the order they are made

VARIABLES
  running,     \* io_context.run() has not returned
  created,     \* sessions made so far
  sock,        \* socket_ of each session: "none", "open" or "closed"
  ep,          \* its endpoint key
  loop,        \* do_read_async: "off", "read" (awaiting the socket), "frame"
               \* (bytes received, handler not run yet), "db" (in a handler
               \* that awaits the database)
  asking,      \* the GetParamsFromIP coroutine awaits the database
  dev,         \* m_concentrator, or m_codigomedidor on port 4059
  timer,       \* a wait on m_timer_dcu is pending; its handler polls and
               \* re-arms it, which shows nothing here (see DcuSession)
  byEndpoint,  \* sessions_by_endpoint_
  byMeter      \* sessions_by_meter_

vars == <<running, created, sock, ep, loop, asking, dev, timer,
          byEndpoint, byMeter>>

\* Some coroutine or handler still holds the session: its weak_ptr locks.
Alive(s) == loop[s] # "off" \/ asking[s] \/ timer[s]

\* weak_ptr::lock() of a map entry.
Lock(entry) == IF entry \in Sessions /\ Alive(entry) THEN entry ELSE None

\* Session::Close(): the socket only.  The coroutines notice later and the
\* timer is left running.
Close(s) == [sock EXCEPT ![s] = "closed"]

CloseLocked(entry) ==
  IF Lock(entry) = None THEN sock ELSE Close(entry)

Init ==
  /\ running = TRUE
  /\ created = 0
  /\ sock = [s \in Sessions |-> "none"]
  /\ ep = [s \in Sessions |-> None]
  /\ loop = [s \in Sessions |-> "off"]
  /\ asking = [s \in Sessions |-> FALSE]
  /\ dev = [s \in Sessions |-> None]
  /\ timer = [s \in Sessions |-> FALSE]
  /\ byEndpoint = [e \in Endpoints |-> None]
  /\ byMeter = [m \in Devices |-> None]

-----------------------------------------------------------------------------
(* Connections.                                                            *)

\* The session object the next connection gets.
New == created + 1

\* Fault: the connection is not counted.
NewSessionUncounted(e) ==
  /\ running
  /\ created < MaxSessions
  /\ created' = created
  /\ ep' = [ep EXCEPT ![New] = e]

\* The steps a new session takes part in; its endpoint is e.
NewSession(e) ==
  /\ running
  /\ created < MaxSessions
  /\ created' = New
  /\ ep' = [ep EXCEPT ![New] = e]

\* InitStart: the local port selects GetParamsFromIP.  A dialled connection
\* has an ephemeral local port, so that no case applies to it.
StartSession(s, incoming) ==
  /\ loop' = [loop EXCEPT ![s] = "read"]
  /\ asking' = [asking EXCEPT ![s] = incoming]

\* Fault: the duplicate is not closed.
AcceptKeepingOld(e) ==
  /\ NewSession(e)
  /\ sock' = [sock EXCEPT ![New] = "open"]
  /\ StartSession(New, TRUE)
  /\ byEndpoint' = [byEndpoint EXCEPT ![e] = New]
  /\ UNCHANGED <<running, dev, timer, byMeter>>

\* do_accept: the session that holds the endpoint is closed, the new one is
\* started and then registered.
Accept(e) ==
  /\ NewSession(e)
  /\ sock' = [CloseLocked(byEndpoint[e]) EXCEPT ![New] = "open"]
  /\ StartSession(New, TRUE)
  /\ byEndpoint' = [byEndpoint EXCEPT ![e] = New]
  /\ UNCHANGED <<running, dev, timer, byMeter>>

\* do_accept when connector_() throws in start(): the exception leaves the
\* handler before the next accept is armed, and io_context.run() with it.
AcceptNoDatabase(e) ==
  /\ NewSession(e)
  /\ sock' = [CloseLocked(byEndpoint[e]) EXCEPT ![New] = "closed"]
  /\ running' = FALSE
  /\ UNCHANGED <<loop, asking, dev, timer, byEndpoint, byMeter>>

\* do_accept when the peer is gone already: remote_endpoint() throws.
AcceptPeerGone ==
  /\ running
  /\ running' = FALSE
  /\ UNCHANGED <<created, sock, ep, loop, asking, dev, timer,
                 byEndpoint, byMeter>>

\* Fault: the duplicate is not closed.
AddOutgoingKeepingOld(e) ==
  /\ Port = "dcu"
  /\ NewSession(e)
  /\ sock' = [sock EXCEPT ![New] = "open"]
  /\ StartSession(New, FALSE)
  /\ byEndpoint' = [byEndpoint EXCEPT ![e] = New]
  /\ UNCHANGED <<running, dev, timer, byMeter>>

\* add_outgoing_connection registers the session before it starts it, and
\* only the server on 8877 is handed dialled connections.
AddOutgoing(e) ==
  /\ Port = "dcu"
  /\ NewSession(e)
  /\ sock' = [CloseLocked(byEndpoint[e]) EXCEPT ![New] = "open"]
  /\ StartSession(New, FALSE)
  /\ byEndpoint' = [byEndpoint EXCEPT ![e] = New]
  /\ UNCHANGED <<running, dev, timer, byMeter>>

\* ... and catches what start() throws, when the old session is closed and
\* the entry names a session that is gone.
AddOutgoingNoDatabase(e) ==
  /\ Port = "dcu"
  /\ NewSession(e)
  /\ sock' = [CloseLocked(byEndpoint[e]) EXCEPT ![New] = "closed"]
  /\ byEndpoint' = [byEndpoint EXCEPT ![e] = New]
  /\ UNCHANGED <<running, loop, asking, dev, timer, byMeter>>

-----------------------------------------------------------------------------
(* Identification.                                                         *)

\* Fault: the old session of the device is not closed.
IdentifiedKeepingOld(s, m) ==
  /\ sock' = sock
  /\ byMeter' = [byMeter EXCEPT ![m] = s]

\* The callback set_on_device_identified installs: whatever the entry of m
\* still locks is closed, this session itself included.
Identified(s, m) ==
  /\ sock' = CloseLocked(byMeter[m])
  /\ byMeter' = [byMeter EXCEPT ![m] = s]

\* Fault: the server is not told.
ParamsFoundSilently(s, m) ==
  /\ running /\ asking[s]
  /\ asking' = [asking EXCEPT ![s] = FALSE]
  /\ dev' = [dev EXCEPT ![s] = m]
  /\ timer' = [timer EXCEPT ![s] = @ \/ Port = "dcu"]
  /\ UNCHANGED <<running, created, sock, ep, loop, byEndpoint, byMeter>>

\* GetParamsFromIP answers with device m.  Nothing asks whether the session
\* was closed while the query ran.  On 8877 the poll timer starts.
ParamsFound(s, m) ==
  /\ running /\ asking[s]
  /\ asking' = [asking EXCEPT ![s] = FALSE]
  /\ dev' = [dev EXCEPT ![s] = m]
  /\ Identified(s, m)
  /\ timer' = [timer EXCEPT ![s] = @ \/ Port = "dcu"]
  /\ UNCHANGED <<running, created, ep, loop, byEndpoint>>

\* No row for the address, or the query failed: rc = -1.
ParamsMissing(s) ==
  /\ running /\ asking[s]
  /\ asking' = [asking EXCEPT ![s] = FALSE]
  /\ UNCHANGED <<running, created, sock, ep, loop, dev, timer,
                 byEndpoint, byMeter>>

-----------------------------------------------------------------------------
(* The read loop.                                                          *)

\* async_read_some completes; its handler is queued.
Receive(s) ==
  /\ running /\ loop[s] = "read" /\ sock[s] = "open"
  /\ loop' = [loop EXCEPT ![s] = "frame"]
  /\ UNCHANGED <<running, created, sock, ep, asking, dev, timer,
                 byEndpoint, byMeter>>

\* Fault: every heartbeat renames the session, the first one alone tells the
\* server.
HeartbeatRenaming(s, m) ==
  /\ running /\ Port = "dcu" /\ loop[s] = "frame" /\ m # None
  /\ dev' = [dev EXCEPT ![s] = m]
  /\ IF dev[s] = None THEN Identified(s, m) ELSE UNCHANGED <<sock, byMeter>>
  /\ timer' = [timer EXCEPT ![s] = TRUE]
  /\ loop' = [loop EXCEPT ![s] = "db"]
  /\ UNCHANGED <<running, created, ep, asking, byEndpoint>>

\* Fault: a heartbeat of the session's own concentrator identifies it again.
HeartbeatAgain(s, m) ==
  /\ running /\ Port = "dcu" /\ loop[s] = "frame"
  /\ IF m # None /\ dev[s] \in {None, m}
     THEN /\ dev' = [dev EXCEPT ![s] = m]
          /\ Identified(s, m)
          /\ timer' = [timer EXCEPT ![s] = TRUE]
     ELSE UNCHANGED <<dev, sock, byMeter, timer>>
  /\ loop' = [loop EXCEPT ![s] = "db"]
  /\ UNCHANGED <<running, created, ep, asking, byEndpoint>>

\* The frame is a heartbeat of concentrator m (None: the code is empty).  A
\* session without a device is identified by it and starts polling.
Heartbeat(s, m) ==
  /\ running /\ Port = "dcu" /\ loop[s] = "frame"
  /\ IF dev[s] = None /\ m # None
     THEN /\ dev' = [dev EXCEPT ![s] = m]
          /\ Identified(s, m)
          /\ timer' = [timer EXCEPT ![s] = TRUE]
     ELSE UNCHANGED <<dev, sock, byMeter, timer>>
  /\ loop' = [loop EXCEPT ![s] = "db"]
  /\ UNCHANGED <<running, created, ep, asking, byEndpoint>>

\* Any other frame: handled without a wait, or in a handler that awaits the
\* database.
OtherFrame(s) ==
  /\ running /\ loop[s] = "frame"
  /\ \E next \in {"read", "db"} : loop' = [loop EXCEPT ![s] = next]
  /\ UNCHANGED <<running, created, sock, ep, asking, dev, timer,
                 byEndpoint, byMeter>>

\* The database answers and the handler ends.
HandlerDone(s) ==
  /\ running /\ loop[s] = "db"
  /\ loop' = [loop EXCEPT ![s] = "read"]
  /\ UNCHANGED <<running, created, sock, ep, asking, dev, timer,
                 byEndpoint, byMeter>>

\* Fault: the catch block does not close the socket.
LeaveLoopOpen(s) ==
  /\ loop' = [loop EXCEPT ![s] = "off"]
  /\ UNCHANGED <<running, created, sock, ep, asking, dev, timer,
                 byEndpoint, byMeter>>

\* do_read_async ends by an exception: the peer left or the socket was
\* closed under the read, the handler threw, the database call failed (at
\* once, when the shared connection is busy).  The catch block calls Close().
LeaveLoop(s) ==
  /\ loop' = [loop EXCEPT ![s] = "off"]
  /\ sock' = Close(s)
  /\ UNCHANGED <<running, created, ep, asking, dev, timer,
                 byEndpoint, byMeter>>

ReadAborted(s) == running /\ loop[s] = "read" /\ sock[s] = "closed" /\ LeaveLoop(s)
PeerLeft(s) == running /\ loop[s] = "read" /\ sock[s] = "open" /\ LeaveLoop(s)
HandlerThrew(s) == running /\ loop[s] \in {"frame", "db"} /\ LeaveLoop(s)

-----------------------------------------------------------------------------
\* Fault: only the first of the two loops is there.
CleanupEndpoints ==
  /\ running
  /\ byEndpoint' = [e \in Endpoints |-> Lock(byEndpoint[e])]
  /\ UNCHANGED <<running, created, sock, ep, loop, asking, dev, timer, byMeter>>

\* cleanup_sessions, every 30 s: entries whose session is gone are erased.
Cleanup ==
  /\ running
  /\ byEndpoint' = [e \in Endpoints |-> Lock(byEndpoint[e])]
  /\ byMeter' = [m \in Devices |-> Lock(byMeter[m])]
  /\ UNCHANGED <<running, created, sock, ep, loop, asking, dev, timer>>

\* main() has caught the exception and returned.
Exited == ~running /\ UNCHANGED vars

Next ==
  \/ \E e \in Endpoints :
       Accept(e) \/ AcceptNoDatabase(e) \/ AddOutgoing(e) \/ AddOutgoingNoDatabase(e)
  \/ AcceptPeerGone
  \/ \E s \in Sessions :
       \/ \E m \in Devices : ParamsFound(s, m)
       \/ ParamsMissing(s)
       \/ Receive(s)
       \/ \E m \in Devices \union {None} : Heartbeat(s, m)
       \/ OtherFrame(s) \/ HandlerDone(s)
       \/ ReadAborted(s) \/ PeerLeft(s) \/ HandlerThrew(s)
  \/ Cleanup
  \/ Exited

Spec == Init /\ [][Next]_vars

\* The io_context runs every handler that is ready, the database answers or
\* fails, and the cleanup timer fires.  Peers owe nothing.
Fairness ==
  /\ \A s \in Sessions :
       /\ WF_vars(ParamsMissing(s) \/ \E m \in Devices : ParamsFound(s, m))
       /\ WF_vars(ReadAborted(s))
       /\ WF_vars(OtherFrame(s) \/ HandlerThrew(s)
                    \/ \E m \in Devices \union {None} : Heartbeat(s, m))
       /\ WF_vars(HandlerDone(s) \/ HandlerThrew(s))
  /\ WF_vars(Cleanup)

FairSpec == Spec /\ Fairness

-----------------------------------------------------------------------------
(* Properties.                                                             *)

\* Every variable has its type, sessions are made in order, and one that was
\* never made is held by nothing.
TypeOK ==
  /\ running \in BOOLEAN
  /\ created \in 0..MaxSessions
  /\ sock \in [Sessions -> {"none", "open", "closed"}]
  /\ ep \in [Sessions -> Endpoints \union {None}]
  /\ loop \in [Sessions -> {"off", "read", "frame", "db"}]
  /\ asking \in [Sessions -> BOOLEAN]
  /\ dev \in [Sessions -> Devices \union {None}]
  /\ timer \in [Sessions -> BOOLEAN]
  /\ byEndpoint \in [Endpoints -> Sessions \union {None}]
  /\ byMeter \in [Devices -> Sessions \union {None}]
  /\ \A s \in Sessions : s > created => sock[s] = "none" /\ ~Alive(s) /\ dev[s] = None

IsOpen(s) == sock[s] = "open"

\* An open socket always has its read loop, so that the weak pointers to its
\* session lock until the socket is closed.
OpenIsRead == \A s \in Sessions : IsOpen(s) => loop[s] # "off" /\ ep[s] \in Endpoints

\* An open session is the one its endpoint's entry names: no cleanup, late
\* answer or reconnection makes the server lose track of an open socket.
EndpointOwned == \A s \in Sessions : IsOpen(s) => byEndpoint[ep[s]] = s

\* An open session that knows its device is the one the device's entry names.
DeviceOwned ==
  \A s \in Sessions : IsOpen(s) /\ dev[s] # None => byMeter[dev[s]] = s

\* Server.h:41, "control TCP": two open sessions never share an endpoint,
\* whichever way the duplicates were made.
OneSessionPerEndpoint ==
  \A s, t \in Sessions : IsOpen(s) /\ IsOpen(t) /\ ep[s] = ep[t] => s = t

\* Server.h:43, "una sesion por dispositivo": two open sessions never serve
\* the same device, whatever the order of heartbeats and database answers.
OneSessionPerDevice ==
  \A s, t \in Sessions :
    IsOpen(s) /\ IsOpen(t) /\ dev[s] = dev[t] /\ dev[s] # None => s = t

\* The open sessions, seen as the links of the abstract registry.
Links ==
  {[session |-> s, endpoint |-> ep[s], device |-> dev[s]] :
     s \in {t \in Sessions : IsOpen(t)}}

Registry == INSTANCE DeviceRegistry WITH links <- Links

\* The server implements the abstract registry: the maps of weak pointers,
\* the late answers and the cleanup only ever show as links that open, are
\* claimed by a device, or go.
RegistrySpec == Registry!Spec

\* Server.cpp:116, "Continuamos aceptando la siguiente conexion, sin importar
\* si la anterior tuvo exito": no connection ends the accepting.
KeepsAccepting == running

\* The ways a session is taken over in a step.
TakenOver(s) ==
  \/ created' # created /\ byEndpoint'[ep[s]] = created'
  \/ \E m \in Devices : byMeter[m] = s /\ byMeter'[m] # s
  \/ asking[s] /\ ~asking'[s] /\ byMeter[dev'[s]] = s

\* The step closes a session that goes on reading.
ClosedUnderRead(s) == IsOpen(s) /\ sock'[s] = "closed" /\ loop'[s] # "off"

\* Close() reaches a session whose read loop runs only by a takeover: a new
\* connection from its endpoint (Server.cpp:76), another session identified as
\* a device it was identified as (Server.cpp:94), or its own parameter query,
\* which answers after a heartbeat has identified the session and finds the
\* session itself in the entry.  Nothing else, and no second heartbeat, ends a
\* session that works.
ClosedOnlyByTakeover ==
  [][\A s \in Sessions : running' /\ ClosedUnderRead(s) => TakenOver(s)]_vars

\* Server.cpp:127, "Limpiar sesiones TCP inactivas": a session whose socket
\* is closed leaves the maps in the end.
Mapped(s) ==
  (\E e \in Endpoints : byEndpoint[e] = s) \/ (\E m \in Devices : byMeter[m] = s)

ClosedSessionsCleaned ==
  \A s \in Sessions : sock[s] = "closed" ~> (~running \/ ~Mapped(s))
=============================================================================
