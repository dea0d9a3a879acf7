---------------------------- MODULE ServerProofs ----------------------------
(***************************************************************************)
(* For any number of connections, endpoints and devices, and on either     *)
(* port: two open sessions share neither an endpoint nor a device, and the *)
(* two maps implement DeviceRegistry.                                      *)
(*                                                                         *)
(* The inductive invariant is that the maps name every open session.  It   *)
(* needs OpenIsRead: a weak pointer to an open session must lock, or the   *)
(* session would neither be closed by its successor nor survive a cleanup. *)
(***************************************************************************)
EXTENDS Server, TLAPS

IInv ==
  /\ TypeOK
  /\ OpenIsRead
  /\ EndpointOwned
  /\ DeviceOwned

USE ServerAssumption DEF Sessions

\* The entry of an open session locks.
LEMMA OpenLocks ==
  ASSUME IInv, NEW s \in Sessions, IsOpen(s)
  PROVE  Lock(s) = s /\ s # None
BY DEF IInv, OpenIsRead, Lock, Alive

\* Closing what an entry locks opens nothing, and closes the entry's session
\* if it was open.
LEMMA CloseLockedFact ==
  ASSUME IInv, NEW entry \in Sessions \union {None}
  PROVE  /\ CloseLocked(entry) \in [Sessions -> {"none", "open", "closed"}]
         /\ \A s \in Sessions : CloseLocked(entry)[s] = "open" => IsOpen(s) /\ s # entry
         /\ \A s \in Sessions : sock[s] = "none" /\ ~Alive(s) => CloseLocked(entry)[s] = "none"
<1>1. CASE Lock(entry) = None
  <2>1. \A s \in Sessions : IsOpen(s) => s # entry
    BY <1>1, OpenLocks
  <2> QED BY <1>1, <2>1 DEF CloseLocked, IInv, TypeOK, IsOpen
<1>2. CASE Lock(entry) # None
  <2>1. entry \in Sessions /\ Alive(entry)
    BY <1>2 DEF Lock
  <2> QED BY <1>2, <2>1 DEF CloseLocked, Close, IInv, TypeOK, IsOpen
<1> QED BY <1>1, <1>2

LEMMA InitInv == Init => IInv
BY DEF Init, IInv, TypeOK, OpenIsRead, EndpointOwned, DeviceOwned, IsOpen, Alive

\* The three ways a connection makes a session and claims its endpoint; the
\* session is open or was closed at birth.
LEMMA NewSessionInv ==
  ASSUME IInv, NEW e \in Endpoints, NewSession(e), NEW state \in {"open", "closed"},
         sock' = [CloseLocked(byEndpoint[e]) EXCEPT ![New] = state],
         byEndpoint' = [byEndpoint EXCEPT ![e] = New],
         state = "open" => \E incoming \in BOOLEAN : StartSession(New, incoming),
         state = "closed" => UNCHANGED <<loop, asking>>,
         UNCHANGED <<running, dev, timer, byMeter>>
  PROVE  IInv'
<1>1. New \in Sessions /\ New > created /\ byEndpoint[e] \in Sessions \union {None}
  BY DEF IInv, TypeOK, NewSession, New
<1> DEFINE before == CloseLocked(byEndpoint[e])
<1>2. /\ before \in [Sessions -> {"none", "open", "closed"}]
      /\ \A s \in Sessions : before[s] = "open" => IsOpen(s) /\ s # byEndpoint[e]
      /\ \A s \in Sessions : sock[s] = "none" /\ ~Alive(s) => before[s] = "none"
  BY <1>1, CloseLockedFact
<1>3. sock' = [before EXCEPT ![New] = state]
  OBVIOUS
<1> HIDE DEF before
<1>4. TypeOK'
  <2>1. /\ loop' \in [Sessions -> {"off", "read", "frame", "db"}]
        /\ asking' \in [Sessions -> BOOLEAN]
        /\ \A s \in Sessions : s # New => loop'[s] = loop[s] /\ asking'[s] = asking[s]
    <3>1. CASE state = "open"
      BY <1>1, <3>1 DEF IInv, TypeOK, StartSession
    <3>2. CASE state = "closed"
      BY <3>2 DEF IInv, TypeOK
    <3> QED BY <3>1, <3>2
  <2>2. /\ sock' \in [Sessions -> {"none", "open", "closed"}]
        /\ ep' \in [Sessions -> Endpoints \union {None}]
        /\ byEndpoint' \in [Endpoints -> Sessions \union {None}]
        /\ created' \in 0..MaxSessions
    <3>1. sock' \in [Sessions -> {"none", "open", "closed"}]
      BY <1>1, <1>2, <1>3
    <3>2. created' \in 0..MaxSessions
      BY DEF IInv, TypeOK, NewSession, New
    <3> QED BY <1>1, <3>1, <3>2 DEF IInv, TypeOK, NewSession
  <2>3. \A s \in Sessions : s > created' =>
          sock'[s] = "none" /\ ~Alive(s)' /\ dev'[s] = None
    <3> SUFFICES ASSUME NEW s \in Sessions, s > created'
                 PROVE  sock'[s] = "none" /\ ~Alive(s)' /\ dev'[s] = None
      OBVIOUS
    <3>1. s > created /\ s # New
      BY <1>1 DEF NewSession, IInv, TypeOK, New
    <3>2. sock[s] = "none" /\ ~Alive(s) /\ dev[s] = None
      BY <3>1 DEF IInv, TypeOK
    <3>3. sock'[s] = "none"
      BY <1>1, <1>2, <1>3, <3>1, <3>2
    <3> QED BY <2>1, <3>1, <3>2, <3>3 DEF Alive
  <2> QED BY <2>1, <2>2, <2>3 DEF IInv, TypeOK
<1>5. \A s \in Sessions : IsOpen(s)' => s = New \/ (s # New /\ IsOpen(s) /\ s # byEndpoint[e])
  BY <1>1, <1>2, <1>3 DEF IsOpen
<1>6. OpenIsRead'
  BY <1>1, <1>2, <1>3, <1>5 DEF IInv, TypeOK, OpenIsRead, NewSession, StartSession, IsOpen
<1>7. EndpointOwned'
  <2> SUFFICES ASSUME NEW s \in Sessions, IsOpen(s)'
               PROVE  byEndpoint'[ep'[s]] = s
    BY DEF EndpointOwned
  <2>1. CASE s = New
    BY <1>1, <2>1 DEF IInv, TypeOK, NewSession
  <2>2. CASE s # New /\ IsOpen(s) /\ s # byEndpoint[e]
    BY <1>1, <2>2 DEF IInv, TypeOK, EndpointOwned, OpenIsRead, NewSession
  <2> QED BY <1>5, <2>1, <2>2
<1>8. DeviceOwned'
  BY <1>1, <1>5 DEF IInv, TypeOK, DeviceOwned, NewSession
<1> QED BY <1>4, <1>6, <1>7, <1>8 DEF IInv

\* A session takes a device: it is open and owns the device's entry, or it is
\* closed and the entry belongs to nobody who is open.
LEMMA IdentifiedInv ==
  ASSUME IInv, NEW s \in Sessions, NEW m \in Devices, Identified(s, m), Alive(s),
         dev' = [dev EXCEPT ![s] = m],
         loop' \in [Sessions -> {"off", "read", "frame", "db"}],
         \A t \in Sessions : loop[t] # "off" => loop'[t] # "off",
         \A t \in Sessions : t # s => loop'[t] = loop[t],
         asking' \in [Sessions -> BOOLEAN], timer' \in [Sessions -> BOOLEAN],
         \A t \in Sessions : t # s => asking'[t] = asking[t] /\ timer'[t] = timer[t],
         UNCHANGED <<running, created, ep, byEndpoint>>
  PROVE  IInv'
<1>1. byMeter[m] \in Sessions \union {None}
  BY DEF IInv, TypeOK
<1>2. /\ sock' \in [Sessions -> {"none", "open", "closed"}]
      /\ \A t \in Sessions : sock'[t] = "open" => IsOpen(t) /\ t # byMeter[m]
      /\ \A t \in Sessions : sock[t] = "none" /\ ~Alive(t) => sock'[t] = "none"
  BY <1>1, CloseLockedFact DEF Identified
<1>3. byMeter' = [byMeter EXCEPT ![m] = s]
  BY DEF Identified
<1>4. TypeOK'
  <2>1. \A t \in Sessions : t > created' =>
          sock'[t] = "none" /\ ~Alive(t)' /\ dev'[t] = None
    BY <1>2 DEF IInv, TypeOK, Alive
  <2> QED BY <1>2, <1>3, <2>1 DEF IInv, TypeOK
<1>5. OpenIsRead' /\ EndpointOwned'
  BY <1>2 DEF IInv, OpenIsRead, EndpointOwned, IsOpen
<1>6. DeviceOwned'
  BY <1>1, <1>2, <1>3 DEF IInv, TypeOK, DeviceOwned, IsOpen
<1> QED BY <1>4, <1>5, <1>6 DEF IInv

\* A session's read loop ends and closes its socket.
LEMMA LeaveLoopInv ==
  ASSUME IInv, NEW s \in Sessions, LeaveLoop(s), loop[s] # "off"
  PROVE  IInv'
<1>1. TypeOK'
  BY DEF IInv, TypeOK, LeaveLoop, Close, Alive
<1>2. \A t \in Sessions : IsOpen(t)' => IsOpen(t) /\ t # s
  BY DEF IInv, TypeOK, LeaveLoop, Close, IsOpen
<1>3. OpenIsRead' /\ EndpointOwned' /\ DeviceOwned'
  BY <1>2 DEF IInv, TypeOK, OpenIsRead, EndpointOwned, DeviceOwned, LeaveLoop
<1> QED BY <1>1, <1>3 DEF IInv

LEMMA NextInv == IInv /\ [Next]_vars => IInv'
<1> SUFFICES ASSUME IInv, [Next]_vars PROVE IInv'
  OBVIOUS
<1>1. ASSUME NEW e \in Endpoints, Accept(e) PROVE IInv'
  BY <1>1, NewSessionInv DEF Accept
<1>2. ASSUME NEW e \in Endpoints, AcceptNoDatabase(e) PROVE IInv'
  <2>1. New \in Sessions /\ New > created /\ byEndpoint[e] \in Sessions \union {None}
    BY <1>2 DEF AcceptNoDatabase, IInv, TypeOK, NewSession, New
  <2> DEFINE before == CloseLocked(byEndpoint[e])
  <2>2. /\ before \in [Sessions -> {"none", "open", "closed"}]
        /\ \A s \in Sessions : before[s] = "open" => IsOpen(s)
        /\ \A s \in Sessions : sock[s] = "none" /\ ~Alive(s) => before[s] = "none"
    BY <2>1, CloseLockedFact
  <2>3. sock' = [before EXCEPT ![New] = "closed"]
    BY <1>2 DEF AcceptNoDatabase
  <2> HIDE DEF before
  <2>4. TypeOK'
    <3>1. sock' \in [Sessions -> {"none", "open", "closed"}]
      BY <2>1, <2>2, <2>3
    <3>2. created' \in 0..MaxSessions
      BY <1>2 DEF AcceptNoDatabase, IInv, TypeOK, NewSession, New
    <3>3. \A s \in Sessions : s > created' =>
            sock'[s] = "none" /\ ~Alive(s)' /\ dev'[s] = None
      <4> SUFFICES ASSUME NEW s \in Sessions, s > created'
                   PROVE  sock'[s] = "none" /\ ~Alive(s)' /\ dev'[s] = None
        OBVIOUS
      <4>1. s > created /\ s # New
        BY <1>2, <2>1 DEF AcceptNoDatabase, NewSession, IInv, TypeOK, New
      <4>2. sock[s] = "none" /\ ~Alive(s) /\ dev[s] = None
        BY <4>1 DEF IInv, TypeOK
      <4>3. sock'[s] = "none"
        BY <2>1, <2>2, <2>3, <4>1, <4>2
      <4> QED BY <1>2, <4>2, <4>3 DEF AcceptNoDatabase, Alive
    <3> QED BY <1>2, <2>1, <3>1, <3>2, <3>3
            DEF AcceptNoDatabase, IInv, TypeOK, NewSession
  <2>5. \A s \in Sessions : IsOpen(s)' => IsOpen(s) /\ s # New
    BY <2>1, <2>2, <2>3 DEF IsOpen
  <2>6. OpenIsRead' /\ EndpointOwned' /\ DeviceOwned'
    BY <1>2, <2>1, <2>5
    DEF AcceptNoDatabase, IInv, TypeOK, OpenIsRead, EndpointOwned, DeviceOwned, NewSession
  <2> QED BY <2>4, <2>6 DEF IInv
<1>3. ASSUME NEW e \in Endpoints, AddOutgoing(e) PROVE IInv'
  BY <1>3, NewSessionInv DEF AddOutgoing
<1>4. ASSUME NEW e \in Endpoints, AddOutgoingNoDatabase(e) PROVE IInv'
  BY <1>4, NewSessionInv DEF AddOutgoingNoDatabase
<1>5. CASE AcceptPeerGone
  BY <1>5 DEF AcceptPeerGone, IInv, TypeOK, OpenIsRead, EndpointOwned, DeviceOwned, IsOpen, Alive
<1>6. ASSUME NEW s \in Sessions, NEW m \in Devices, ParamsFound(s, m) PROVE IInv'
  <2>1. Alive(s)
    BY <1>6 DEF ParamsFound, Alive
  <2>2. /\ asking' \in [Sessions -> BOOLEAN]
        /\ timer' \in [Sessions -> BOOLEAN]
        /\ \A t \in Sessions : t # s => asking'[t] = asking[t] /\ timer'[t] = timer[t]
    BY <1>6 DEF ParamsFound, IInv, TypeOK
  <2> QED BY <1>6, <2>1, <2>2, IdentifiedInv DEF ParamsFound, IInv, TypeOK
<1>7. ASSUME NEW s \in Sessions, ParamsMissing(s) PROVE IInv'
  BY <1>7 DEF ParamsMissing, IInv, TypeOK, OpenIsRead, EndpointOwned, DeviceOwned, IsOpen, Alive
<1>8. ASSUME NEW s \in Sessions, Receive(s) PROVE IInv'
  BY <1>8 DEF Receive, IInv, TypeOK, OpenIsRead, EndpointOwned, DeviceOwned, IsOpen, Alive
<1>9. ASSUME NEW s \in Sessions, NEW m \in Devices \union {None}, Heartbeat(s, m)
      PROVE  IInv'
  <2>1. Alive(s)
    BY <1>9 DEF Heartbeat, Alive
  <2>2. CASE dev[s] = None /\ m # None
    BY <1>9, <2>1, <2>2, IdentifiedInv DEF Heartbeat, IInv, TypeOK
  <2>3. CASE ~(dev[s] = None /\ m # None)
    BY <1>9, <2>3
    DEF Heartbeat, IInv, TypeOK, OpenIsRead, EndpointOwned, DeviceOwned, IsOpen, Alive
  <2> QED BY <2>2, <2>3
<1>10. ASSUME NEW s \in Sessions, OtherFrame(s) PROVE IInv'
  BY <1>10 DEF OtherFrame, IInv, TypeOK, OpenIsRead, EndpointOwned, DeviceOwned, IsOpen, Alive
<1>11. ASSUME NEW s \in Sessions, HandlerDone(s) PROVE IInv'
  BY <1>11 DEF HandlerDone, IInv, TypeOK, OpenIsRead, EndpointOwned, DeviceOwned, IsOpen, Alive
<1>12. ASSUME NEW s \in Sessions, ReadAborted(s) \/ PeerLeft(s) \/ HandlerThrew(s) PROVE IInv'
  BY <1>12, LeaveLoopInv DEF ReadAborted, PeerLeft, HandlerThrew
<1>13. CASE Cleanup
  <2>1. TypeOK'
    BY <1>13 DEF Cleanup, Lock, IInv, TypeOK, Alive
  <2>2. \A s \in Sessions : IsOpen(s)' => IsOpen(s) /\ Lock(s) = s
    BY <1>13, OpenLocks DEF Cleanup, IsOpen
  <2>3. OpenIsRead' /\ EndpointOwned'
    BY <1>13, <2>2 DEF Cleanup, IInv, TypeOK, OpenIsRead, EndpointOwned
  <2>4. DeviceOwned'
    BY <1>13, <2>2 DEF Cleanup, IInv, TypeOK, DeviceOwned
  <2> QED BY <2>1, <2>3, <2>4 DEF IInv
<1>14. CASE UNCHANGED vars
  BY <1>14 DEF vars, IInv, TypeOK, OpenIsRead, EndpointOwned, DeviceOwned, IsOpen, Alive
<1> QED
  BY <1>1, <1>2, <1>3, <1>4, <1>5, <1>6, <1>7, <1>8, <1>9, <1>10, <1>11, <1>12, <1>13, <1>14
  DEF Next, Exited

LEMMA SpecInv == Spec => []IInv
BY InitInv, NextInv, PTL DEF Spec

\* Every variable of the server keeps its type, and sessions that were never
\* made stay untouched.
THEOREM TypeCorrect == Spec => []TypeOK
<1>1. IInv => TypeOK
  BY DEF IInv
<1> QED BY <1>1, SpecInv, PTL

\* An open session is named by its endpoint's entry: the cleanup and the
\* reconnections of Server.cpp never lose it.
THEOREM EndpointsOwned == Spec => []EndpointOwned
<1>1. IInv => EndpointOwned
  BY DEF IInv
<1> QED BY <1>1, SpecInv, PTL

\* Server.h: one TCP session for each remote endpoint.
THEOREM EndpointUnique == Spec => []OneSessionPerEndpoint
<1>1. IInv => OneSessionPerEndpoint
  BY DEF IInv, EndpointOwned, OneSessionPerEndpoint
<1> QED BY <1>1, SpecInv, PTL

\* Server.h: one session for each device, under every order of heartbeats,
\* database answers, reconnections and cleanups.
THEOREM DeviceUnique == Spec => []OneSessionPerDevice
<1>1. IInv => OneSessionPerDevice
  BY DEF IInv, DeviceOwned, OneSessionPerDevice
<1> QED BY <1>1, SpecInv, PTL

\* An open session can be locked: neither map ever forgets it.
THEOREM OpenSessionsRead == Spec => []OpenIsRead
<1>1. IInv => OpenIsRead
  BY DEF IInv
<1> QED BY <1>1, SpecInv, PTL

\* An open session that knows its device is named by the device's entry.
THEOREM DevicesOwned == Spec => []DeviceOwned
<1>1. IInv => DeviceOwned
  BY DEF IInv
<1> QED BY <1>1, SpecInv, PTL

-----------------------------------------------------------------------------
(* Who closes a session.  The entries of the maps only ever name sessions  *)
(* of the endpoint, and sessions that were identified.                     *)

Entries ==
  /\ \A e \in Endpoints : byEndpoint[e] # None => ep[byEndpoint[e]] = e /\ byEndpoint[e] <= created
  /\ \A m \in Devices : byMeter[m] # None => dev[byMeter[m]] # None

\* The step claim the theorem is made of.
ClosedStep == \A s \in Sessions : running' /\ ClosedUnderRead(s) => TakenOver(s)

\* Only the session of the entry can be closed by CloseLocked.
LEMMA CloseLockedOnly ==
  ASSUME IInv, NEW entry \in Sessions \union {None}
  PROVE  \A s \in Sessions : CloseLocked(entry)[s] # sock[s] => s = entry
BY DEF CloseLocked, Lock, Close, IInv, TypeOK

LEMMA InitEntries == Init => Entries
BY DEF Init, Entries

LEMMA NewSessionClosed ==
  ASSUME IInv, Entries, NEW e \in Endpoints, NewSession(e), NEW state \in {"open", "closed"},
         sock' = [CloseLocked(byEndpoint[e]) EXCEPT ![New] = state],
         byEndpoint' = [byEndpoint EXCEPT ![e] = New],
         UNCHANGED <<dev, byMeter>>
  PROVE  Entries' /\ ClosedStep
<1>1. New \in Sessions /\ New = created + 1 /\ byEndpoint[e] \in Sessions \union {None}
  BY DEF IInv, TypeOK, NewSession, New
<1> DEFINE before == CloseLocked(byEndpoint[e])
<1>2. /\ before \in [Sessions -> {"none", "open", "closed"}]
      /\ \A s \in Sessions : before[s] # sock[s] => s = byEndpoint[e]
  BY <1>1, CloseLockedFact, CloseLockedOnly
<1>3. sock' = [before EXCEPT ![New] = state]
  OBVIOUS
<1> HIDE DEF before
<1>4. Entries'
  <2>1. \A f \in Endpoints : byEndpoint'[f] # None => ep'[byEndpoint'[f]] = f /\ byEndpoint'[f] <= created'
    BY <1>1 DEF Entries, NewSession, New, IInv, TypeOK
  <2> QED BY <2>1 DEF Entries
<1>5. ASSUME NEW s \in Sessions, ClosedUnderRead(s) PROVE TakenOver(s)
  <2>1. s # New
    BY <1>1, <1>5 DEF ClosedUnderRead, IsOpen, IInv, TypeOK
  <2>2. s = byEndpoint[e]
    BY <1>1, <1>2, <1>3, <1>5, <2>1 DEF ClosedUnderRead, IsOpen
  <2>3. ep[s] = e
    BY <2>2 DEF Entries
  <2>4. created' = New /\ created' # created
    BY <1>1 DEF NewSession, IInv, TypeOK
  <2> QED BY <2>3, <2>4, <1>1 DEF TakenOver, IInv, TypeOK
<1> QED BY <1>4, <1>5 DEF ClosedStep

LEMMA IdentifiedClosed ==
  ASSUME IInv, Entries, NEW s \in Sessions, NEW m \in Devices, Identified(s, m),
         dev' = [dev EXCEPT ![s] = m],
         dev[s] = None \/ (asking[s] /\ ~asking'[s]),
         UNCHANGED <<created, ep, byEndpoint>>
  PROVE  Entries' /\ ClosedStep
<1>1. /\ byMeter[m] \in Sessions \union {None}
      /\ byMeter' = [byMeter EXCEPT ![m] = s]
      /\ \A t \in Sessions : sock'[t] # sock[t] => t = byMeter[m]
  BY CloseLockedOnly DEF IInv, TypeOK, Identified
<1>2. Entries'
  <2>1. \A n \in Devices : byMeter'[n] # None => dev'[byMeter'[n]] # None
    <3> SUFFICES ASSUME NEW n \in Devices, byMeter'[n] # None
                 PROVE  dev'[byMeter'[n]] # None
      OBVIOUS
    <3>1. CASE n = m
      BY <1>1, <3>1 DEF IInv, TypeOK
    <3>2. CASE n # m
      BY <1>1, <3>2 DEF IInv, TypeOK, Entries
    <3> QED BY <3>1, <3>2
  <2> QED BY <2>1 DEF Entries
<1>3. ASSUME NEW t \in Sessions, ClosedUnderRead(t) PROVE TakenOver(t)
  <2>1. t = byMeter[m]
    BY <1>1, <1>3 DEF ClosedUnderRead, IsOpen
  <2>2. CASE t # s
    BY <1>1, <2>1, <2>2 DEF TakenOver, IInv, TypeOK
  <2>3. CASE t = s
    <3>1. dev[s] # None
      BY <2>1, <2>3 DEF Entries
    <3>2. dev'[s] = m
      BY DEF IInv, TypeOK
    <3> QED BY <2>1, <2>3, <3>1, <3>2 DEF TakenOver
  <2> QED BY <2>2, <2>3
<1> QED BY <1>2, <1>3 DEF ClosedStep

\* A step that closes nothing under its read loop and leaves the entries.
LEMMA NothingClosed ==
  ASSUME IInv, Entries, UNCHANGED <<created, ep, dev, byEndpoint, byMeter>>,
         \A s \in Sessions : sock'[s] = sock[s] \/ loop'[s] = "off"
  PROVE  Entries' /\ ClosedStep
BY DEF Entries, ClosedStep, ClosedUnderRead, IsOpen

LEMMA NextClosed == IInv /\ Entries /\ [Next]_vars => Entries' /\ ClosedStep
<1> SUFFICES ASSUME IInv, Entries, [Next]_vars PROVE Entries' /\ ClosedStep
  OBVIOUS
<1>1. ASSUME NEW e \in Endpoints, Accept(e) PROVE Entries' /\ ClosedStep
  BY <1>1, NewSessionClosed DEF Accept
<1>2. ASSUME NEW e \in Endpoints, AcceptNoDatabase(e) PROVE Entries' /\ ClosedStep
  <2>1. Entries'
    BY <1>2 DEF AcceptNoDatabase, NewSession, New, Entries, IInv, TypeOK
  <2> QED BY <1>2, <2>1 DEF AcceptNoDatabase, ClosedStep
<1>3. ASSUME NEW e \in Endpoints, AddOutgoing(e) PROVE Entries' /\ ClosedStep
  BY <1>3, NewSessionClosed DEF AddOutgoing
<1>4. ASSUME NEW e \in Endpoints, AddOutgoingNoDatabase(e) PROVE Entries' /\ ClosedStep
  BY <1>4, NewSessionClosed DEF AddOutgoingNoDatabase
<1>5. CASE AcceptPeerGone
  BY <1>5, NothingClosed DEF AcceptPeerGone
<1>6. ASSUME NEW s \in Sessions, NEW m \in Devices, ParamsFound(s, m) PROVE Entries' /\ ClosedStep
  <2>1. asking[s] /\ ~asking'[s]
    BY <1>6 DEF ParamsFound, IInv, TypeOK
  <2> QED BY <1>6, <2>1, IdentifiedClosed DEF ParamsFound
<1>7. ASSUME NEW s \in Sessions, Heartbeat(s, None) \/ \E m \in Devices : Heartbeat(s, m)
      PROVE  Entries' /\ ClosedStep
  <2>1. ASSUME NEW m \in Devices, Heartbeat(s, m), dev[s] = None PROVE Entries' /\ ClosedStep
    BY <2>1, IdentifiedClosed DEF Heartbeat
  <2>2. ASSUME NEW m, Heartbeat(s, m), ~(dev[s] = None /\ m # None) PROVE Entries' /\ ClosedStep
    BY <2>2, NothingClosed DEF Heartbeat
  <2> QED BY <1>7, <2>1, <2>2
<1>8. ASSUME NEW s \in Sessions,
             ParamsMissing(s) \/ Receive(s) \/ OtherFrame(s) \/ HandlerDone(s)
      PROVE  Entries' /\ ClosedStep
  BY <1>8, NothingClosed DEF ParamsMissing, Receive, OtherFrame, HandlerDone
<1>9. ASSUME NEW s \in Sessions, ReadAborted(s) \/ PeerLeft(s) \/ HandlerThrew(s)
      PROVE  Entries' /\ ClosedStep
  <2>1. LeaveLoop(s)
    BY <1>9 DEF ReadAborted, PeerLeft, HandlerThrew
  <2> QED BY <2>1, NothingClosed DEF LeaveLoop, Close, IInv, TypeOK
<1>10. CASE Cleanup
  <2>1. Entries'
    <3>1. /\ \A e \in Endpoints : byEndpoint'[e] \in {byEndpoint[e], None}
          /\ \A m \in Devices : byMeter'[m] \in {byMeter[m], None}
      BY <1>10 DEF Cleanup, Lock
    <3> QED BY <1>10, <3>1 DEF Cleanup, Entries
  <2> QED BY <1>10, <2>1 DEF Cleanup, ClosedStep, ClosedUnderRead, IsOpen
<1>11. CASE UNCHANGED vars
  BY <1>11, NothingClosed DEF vars
<1> QED
  BY <1>1, <1>2, <1>3, <1>4, <1>5, <1>6, <1>7, <1>8, <1>9, <1>10, <1>11 DEF Next, Exited

\* No session is closed under its read loop but by a takeover: whatever the
\* number of connections and the order of heartbeats, database answers and
\* cleanups, Close() of Server.cpp never reaches a bystander.
THEOREM NoBystanderClosed == Spec => ClosedOnlyByTakeover
<1>1. ClosedStep => (\A s \in Sessions : running' /\ ClosedUnderRead(s) => TakenOver(s))
  BY DEF ClosedStep
<1>2. Spec => [](IInv /\ Entries)
  BY InitInv, InitEntries, NextInv, NextClosed, PTL DEF Spec
<1>3. IInv /\ Entries /\ [Next]_vars
        => [\A s \in Sessions : running' /\ ClosedUnderRead(s) => TakenOver(s)]_vars
  BY NextClosed, <1>1
<1> QED BY <1>2, <1>3, PTL DEF Spec, ClosedOnlyByTakeover
-----------------------------------------------------------------------------
(* The registry.  A step of the server is one of the registry's, or leaves *)
(* the links as they are: what opens a socket is Open, what identifies a   *)
(* session whose socket stays open is Claim, everything else loses links.  *)

LinkOf(s) == [session |-> s, endpoint |-> ep[s], device |-> dev[s]]

\* The links are the open sessions and what is known of them.
LEMMA LinksOpen ==
  ASSUME NEW l
  PROVE  l \in Links <=> \E s \in Sessions : IsOpen(s) /\ l = LinkOf(s)
BY DEF Links, LinkOf

LEMMA LinksOpenAfter ==
  ASSUME NEW l
  PROVE  l \in Links' <=> \E s \in Sessions : IsOpen(s)' /\ l = LinkOf(s)'
BY DEF Links, LinkOf

LEMMA OpenIsLinked ==
  ASSUME NEW s \in Sessions, IsOpen(s)
  PROVE  LinkOf(s) \in Links
BY LinksOpen

\* Sessions that stay open and keep what is known of them.
Keeps(s) == IsOpen(s)' /\ IsOpen(s) /\ ep'[s] = ep[s] /\ dev'[s] = dev[s]

LEMMA KeepsLink ==
  ASSUME NEW s, Keeps(s)
  PROVE  LinkOf(s)' = LinkOf(s)
BY DEF Keeps, LinkOf

LEMMA OnlyLoses ==
  ASSUME \A s \in Sessions : IsOpen(s)' => Keeps(s)
  PROVE  Registry!Lose
<1> SUFFICES ASSUME NEW l \in Links' PROVE l \in Links
  BY DEF Registry!Lose
<1>1. PICK s \in Sessions : IsOpen(s)' /\ l = LinkOf(s)'
  BY LinksOpenAfter
<1>2. l = LinkOf(s) /\ IsOpen(s)
  BY <1>1, KeepsLink DEF Keeps
<1> QED BY <1>2, LinksOpen

\* A new connection that is open takes the endpoint over.
LEMMA NewSessionOpens ==
  ASSUME IInv, Entries, NEW e \in Endpoints, NewSession(e), NEW n, n = New,
         sock' = [CloseLocked(byEndpoint[e]) EXCEPT ![n] = "open"],
         dev' = dev
  PROVE  n \in Sessions /\ Registry!Open(n, e)
<1>1. /\ n \in Sessions /\ n > created /\ byEndpoint[e] \in Sessions \union {None}
      /\ ep' = [ep EXCEPT ![n] = e]
      /\ ~IsOpen(n) /\ dev[n] = None
  BY DEF IInv, TypeOK, NewSession, New, IsOpen
<1> DEFINE before == CloseLocked(byEndpoint[e])
<1>2. /\ before \in [Sessions -> {"none", "open", "closed"}]
      /\ \A s \in Sessions : before[s] = "open" => IsOpen(s) /\ s # byEndpoint[e]
      /\ \A s \in Sessions : before[s] # sock[s] => s = byEndpoint[e]
  BY <1>1, CloseLockedFact, CloseLockedOnly
<1>3. sock' = [before EXCEPT ![n] = "open"]
  OBVIOUS
<1> HIDE DEF before
<1>4. IsOpen(n)' /\ LinkOf(n)' = Registry!Link(n, e, None)
  BY <1>1, <1>2, <1>3 DEF IsOpen, LinkOf, IInv, TypeOK, Registry!Link
<1>5. \A s \in Sessions : s # n => (IsOpen(s)' <=> IsOpen(s) /\ ep[s] # e)
  <2> SUFFICES ASSUME NEW s \in Sessions, s # n PROVE IsOpen(s)' <=> IsOpen(s) /\ ep[s] # e
    OBVIOUS
  <2>1. sock'[s] = before[s]
    BY <1>1, <1>2, <1>3
  <2>2. ASSUME before[s] = "open" PROVE IsOpen(s) /\ ep[s] # e
    BY <1>2, <2>2 DEF IInv, EndpointOwned
  <2>3. ASSUME IsOpen(s), ep[s] # e PROVE before[s] = "open"
    <3>1. s # byEndpoint[e]
      BY <1>1, <2>3 DEF Entries
    <3> QED BY <1>2, <2>3, <3>1 DEF IsOpen
  <2> QED BY <2>1, <2>2, <2>3 DEF IsOpen
<1>6. \A s \in Sessions : s # n => LinkOf(s)' = LinkOf(s)
  BY <1>1 DEF LinkOf, IInv, TypeOK
<1>7. \A l \in Links : l.session # n
  BY <1>1, LinksOpen DEF LinkOf
<1>8. ASSUME NEW l PROVE l \in Links' <=> l \in {k \in Links : k.endpoint # e} \union {Registry!Link(n, e, None)}
  <2>1. ASSUME l \in Links', l # Registry!Link(n, e, None) PROVE l \in Links /\ l.endpoint # e
    <3>1. PICK s \in Sessions : IsOpen(s)' /\ l = LinkOf(s)'
      BY <2>1, LinksOpenAfter
    <3>2. s # n
      BY <1>4, <2>1, <3>1
    <3>3. IsOpen(s) /\ ep[s] # e /\ l = LinkOf(s)
      BY <1>5, <1>6, <3>1, <3>2
    <3> QED BY <3>3, LinksOpen DEF LinkOf
  <2>2. ASSUME l \in Links, l.endpoint # e PROVE l \in Links'
    <3>1. PICK s \in Sessions : IsOpen(s) /\ l = LinkOf(s)
      BY <2>2, LinksOpen
    <3>2. s # n /\ ep[s] # e
      BY <1>1, <2>2, <3>1 DEF LinkOf
    <3>3. IsOpen(s)' /\ l = LinkOf(s)'
      BY <1>5, <1>6, <3>1, <3>2
    <3> QED BY <3>3, LinksOpenAfter
  <2>3. Registry!Link(n, e, None) \in Links'
    BY <1>1, <1>4, LinksOpenAfter
  <2> QED BY <2>1, <2>2, <2>3
<1> QED BY <1>1, <1>7, <1>8 DEF Registry!Open

\* Connections that are closed at birth, or whose session is, open nothing.
LEMMA NewSessionLoses ==
  ASSUME IInv, NEW e \in Endpoints, NewSession(e),
         sock' = [CloseLocked(byEndpoint[e]) EXCEPT ![New] = "closed"],
         dev' = dev
  PROVE  Registry!Lose
<1>1. New \in Sessions /\ byEndpoint[e] \in Sessions \union {None}
  BY DEF IInv, TypeOK, NewSession, New
<1> DEFINE before == CloseLocked(byEndpoint[e])
<1>2. /\ before \in [Sessions -> {"none", "open", "closed"}]
      /\ \A s \in Sessions : before[s] = "open" => IsOpen(s)
  BY <1>1, CloseLockedFact
<1>3. sock' = [before EXCEPT ![New] = "closed"]
  OBVIOUS
<1> HIDE DEF before
<1>4. \A s \in Sessions : IsOpen(s)' => s # New /\ IsOpen(s)
  BY <1>1, <1>2, <1>3 DEF IsOpen
<1>5. \A s \in Sessions : IsOpen(s)' => Keeps(s)
  BY <1>1, <1>4 DEF Keeps, NewSession, IInv, TypeOK
<1> QED BY <1>5, OnlyLoses

\* A session that is identified and stays open claims its device; the link
\* that is dropped with it is that of the session the entry named.
LEMMA IdentifiedClaims ==
  ASSUME IInv, NEW s \in Sessions, NEW m \in Devices, Identified(s, m),
         dev' = [dev EXCEPT ![s] = m], ep' = ep
  PROVE  Registry!Next
<1> DEFINE stale == IF byMeter[m] = s THEN None ELSE byMeter[m]
<1>1. /\ byMeter[m] \in Sessions \union {None}
      /\ stale \in (Sessions \ {s}) \union {None}
  BY DEF IInv, TypeOK
<1>2. \A t \in Sessions : IsOpen(t)' <=> IsOpen(t) /\ t # byMeter[m]
  <2>1. \A t \in Sessions : IsOpen(t)' => IsOpen(t) /\ t # byMeter[m]
    BY <1>1, CloseLockedFact DEF Identified, IsOpen
  <2>2. \A t \in Sessions : t # byMeter[m] => sock'[t] = sock[t]
    BY <1>1, CloseLockedOnly DEF Identified
  <2> QED BY <2>1, <2>2 DEF IsOpen
<1>3. \A t \in Sessions : t # s => LinkOf(t)' = LinkOf(t)
  BY DEF LinkOf, IInv, TypeOK
<1>4. CASE ~IsOpen(s)'
  <2>1. \A t \in Sessions : IsOpen(t)' => Keeps(t)
    BY <1>2, <1>4 DEF Keeps, IInv, TypeOK
  <2> QED BY <2>1, OnlyLoses DEF Registry!Next
<1>5. CASE IsOpen(s)'
  <2> DEFINE others == {l \in Links : l.session \notin {s, stale} /\ l.device # m}
             mine   == Registry!Link(s, LinkOf(s).endpoint, m)
  <2>1. IsOpen(s) /\ s # byMeter[m] /\ stale = byMeter[m]
    BY <1>2, <1>5
  <2>2. LinkOf(s) \in Links /\ LinkOf(s).session = s /\ LinkOf(s)' = mine
    BY <2>1, OpenIsLinked DEF LinkOf, Registry!Link, IInv, TypeOK
  <2>3. ASSUME NEW l \in Links', l # mine PROVE l \in others
    <3>1. PICK t \in Sessions : IsOpen(t)' /\ l = LinkOf(t)'
      BY LinksOpenAfter
    <3>2. t # s /\ IsOpen(t) /\ t # stale /\ l = LinkOf(t)
      BY <1>2, <1>3, <2>1, <2>2, <2>3, <3>1
    <3>3. dev[t] # m
      BY <2>1, <3>2 DEF IInv, DeviceOwned
    <3> QED BY <3>2, <3>3, LinksOpen DEF LinkOf
  <2>4. ASSUME NEW l \in others PROVE l \in Links'
    <3>1. PICK t \in Sessions : IsOpen(t) /\ l = LinkOf(t)
      BY LinksOpen
    <3>2. t # s /\ t # stale
      BY <3>1 DEF LinkOf
    <3>3. IsOpen(t)' /\ l = LinkOf(t)'
      BY <1>2, <1>3, <2>1, <3>1, <3>2
    <3> QED BY <3>3, LinksOpenAfter
  <2>5. mine \in Links'
    BY <1>5, <2>2, LinksOpenAfter
  <2>6. Links' = others \union {mine}
    BY <2>3, <2>4, <2>5
  <2>7. Registry!Claim(s, m)
    BY <1>1, <2>2, <2>6 DEF Registry!Claim
  <2> QED BY <2>7 DEF Registry!Next
<1> QED BY <1>4, <1>5

LEMMA RegistryStep == IInv /\ Entries /\ [Next]_vars => [Registry!Next]_Links
<1> SUFFICES ASSUME IInv, Entries, [Next]_vars PROVE Registry!Next \/ UNCHANGED Links
  OBVIOUS
<1>1. ASSUME NEW e \in Endpoints, Accept(e) \/ AddOutgoing(e) PROVE Registry!Next
  <2>1. PICK n : n = New
    OBVIOUS
  <2>2. n \in Sessions /\ Registry!Open(n, e)
    BY <1>1, <2>1, NewSessionOpens DEF Accept, AddOutgoing
  <2> QED BY <2>2 DEF Registry!Next
<1>2. ASSUME NEW e \in Endpoints, AcceptNoDatabase(e) \/ AddOutgoingNoDatabase(e)
      PROVE  Registry!Next
  BY <1>2, NewSessionLoses DEF AcceptNoDatabase, AddOutgoingNoDatabase, Registry!Next
<1>3. ASSUME NEW s \in Sessions, NEW m \in Devices, ParamsFound(s, m) PROVE Registry!Next
  BY <1>3, IdentifiedClaims DEF ParamsFound
<1>4. ASSUME NEW s \in Sessions, NEW m \in Devices \union {None}, Heartbeat(s, m)
      PROVE  Registry!Next \/ UNCHANGED Links
  <2>1. CASE dev[s] = None /\ m # None
    BY <1>4, <2>1, IdentifiedClaims DEF Heartbeat
  <2>2. CASE ~(dev[s] = None /\ m # None)
    BY <1>4, <2>2 DEF Heartbeat, Links, IsOpen
  <2> QED BY <2>1, <2>2
<1>5. ASSUME NEW s \in Sessions, ReadAborted(s) \/ PeerLeft(s) \/ HandlerThrew(s)
      PROVE  Registry!Next
  <2>1. \A t \in Sessions : IsOpen(t)' => Keeps(t)
    BY <1>5 DEF ReadAborted, PeerLeft, HandlerThrew, LeaveLoop, Close, Keeps, IsOpen, IInv, TypeOK
  <2> QED BY <2>1, OnlyLoses DEF Registry!Next
<1>6. ASSUME NEW s \in Sessions,
             ParamsMissing(s) \/ Receive(s) \/ OtherFrame(s) \/ HandlerDone(s)
      PROVE  UNCHANGED Links
  BY <1>6 DEF ParamsMissing, Receive, OtherFrame, HandlerDone, Links, IsOpen
<1>7. CASE AcceptPeerGone \/ Cleanup \/ UNCHANGED vars
  BY <1>7 DEF AcceptPeerGone, Cleanup, vars, Links, IsOpen
<1> QED BY <1>1, <1>2, <1>3, <1>4, <1>5, <1>6, <1>7 DEF Next, Exited

\* Server.h, the session manager: the two maps of weak pointers implement the
\* registry, in which a connection takes its endpoint over and an identified
\* session its device, and which otherwise only loses links.
THEOREM ImplementsRegistry == Spec => RegistrySpec
<1>1. Init => Registry!Init
  BY DEF Init, Registry!Init, Links, IsOpen
<1>2. Spec => [](IInv /\ Entries)
  BY InitInv, InitEntries, NextInv, NextClosed, PTL DEF Spec
<1> QED BY <1>1, <1>2, RegistryStep, PTL DEF Spec, RegistrySpec, Registry!Spec
=============================================================================
