--------------------------- MODULE ConnectorProofs ---------------------------
(***************************************************************************)
(* For any number of scans, however they overlap, any tables and any       *)
(* number of attempts: what is proved of the server holds with scans, each *)
(* goes through its table, and none closes what it has dialled.            *)
(*                                                                         *)
(* The argument for the last: the sessions a scan made have the endpoints  *)
(* of rows it has passed, the entry of an endpoint names sessions of that  *)
(* endpoint only, and no endpoint comes twice.                             *)
(***************************************************************************)
EXTENDS Connector, ServerProofs

USE ServerAssumption, ConnectorAssumption DEF Sessions, Scans

\* A scan that has not been given its table has done nothing.
Fresh ==
  \A k \in Scans :
    /\ at[k] \in {"none", "query"} => table[k] = <<>> /\ row[k] = 1 /\ dialled[k] = {}
    /\ k > scans => at[k] = "none"

\* What a scan has dialled are endpoints of rows before the one it is at.
DialledBefore ==
  \A k \in Scans : \A s \in dialled[k] :
    \E i \in DOMAIN table[k] : i < row[k] /\ ep[s] = table[k][i]

Places == [Scans -> {"none", "query", "resolve", "connect", "done"}]

ScanTypes ==
  /\ scans \in 0..MaxScans
  /\ at \in Places
  /\ table \in [Scans -> Tables \union {<<>>}]
  /\ row \in [Scans -> Nat]
  /\ attempt \in [Scans -> 0..(max_attempts - 1)]
  /\ dialled \in [Scans -> SUBSET (1..created)]
  /\ \A k \in Scans : at[k] \in {"resolve", "connect"} =>
       row[k] \in DOMAIN table[k] /\ table[k][row[k]] \in Endpoints

ScanInv == ScanTypes /\ Fresh /\ DialledBefore /\ ScanCovers

CInv == IInv /\ Entries /\ ScanInv

-----------------------------------------------------------------------------
(* What a step of the composition is to the server.                        *)

LEMMA StepOfServer == ScanTypes /\ [ConnectorNext]_allVars => [Next]_vars
<1> SUFFICES ASSUME ScanTypes, [ConnectorNext]_allVars PROVE [Next]_vars
  OBVIOUS
<1>1. ASSUME NEW k \in Scans, ScanStarts(k) \/ ScanWithoutPool(k) PROVE UNCHANGED vars
  BY <1>1 DEF ScanStarts, ScanWithoutPool, Spawn
<1>2. ASSUME NEW k \in Scans, ScanGoesOn(k), ~Connected(k) PROVE UNCHANGED vars
  BY <1>2 DEF ScanGoesOn, QueryAnswers, QueryFails, Resolved, Unresolved,
              ConnectFails, ConnectedPeerGone
<1>3. ASSUME NEW k \in Scans, Connected(k) PROVE Next
  <2>1. table[k][row[k]] \in Endpoints
    BY <1>3 DEF Connected, ScanTypes
  <2> QED BY <1>3, <2>1 DEF Connected, HandOver, Next
<1>4. ASSUME ServerStep PROVE Next
  BY <1>4 DEF ServerStep, Next
<1>5. ASSUME UNCHANGED allVars PROVE UNCHANGED vars
  BY <1>5 DEF allVars
<1> QED BY <1>1, <1>2, <1>3, <1>4, <1>5 DEF ConnectorNext

\* The server forgets no session and moves none to another endpoint.
LEMMA SessionsStay ==
  ASSUME IInv, [Next]_vars
  PROVE  created \in Nat /\ created' \in Nat /\ created' >= created /\ \A s \in 1..created : ep'[s] = ep[s]
<1>1. created \in 0..MaxSessions /\ ep \in [Sessions -> Endpoints \union {None}]
  BY DEF IInv, TypeOK
<1>2. ASSUME NEW e \in Endpoints, NewSession(e)
      PROVE  created' = created + 1 /\ \A s \in 1..created : ep'[s] = ep[s]
  BY <1>1, <1>2 DEF NewSession, New
<1>3. \/ \E e \in Endpoints : NewSession(e)
      \/ UNCHANGED <<created, ep>>
  BY DEF Next, vars, Accept, AcceptNoDatabase, AddOutgoing, AddOutgoingNoDatabase,
         AcceptPeerGone, ParamsFound, ParamsMissing, Receive, Heartbeat, OtherFrame,
         HandlerDone, ReadAborted, PeerLeft, HandlerThrew, LeaveLoop, Cleanup, Exited
<1> QED BY <1>1, <1>2, <1>3

-----------------------------------------------------------------------------
(* The scans.                                                              *)

LEMMA ScanInit == ConnectorInit => ScanInv
BY DEF ConnectorInit, ScanInv, ScanTypes, Places, Fresh, DialledBefore, ScanCovers

LEMMA TableFact ==
  ASSUME NEW t \in Tables \union {<<>>}
  PROVE  t \in Seq(Rows) /\ Len(t) \in Nat /\ DOMAIN t = 1..Len(t)
<1>1. CASE t \in Tables
  <2>1. t \in Seq(Rows)
    BY <1>1
  <2> QED BY <2>1
<1>2. CASE t = <<>>
  BY <1>2
<1> QED BY <1>1, <1>2

\* Where the loop of a scan goes from row r of t.
LEMMA GoToFact ==
  ASSUME ScanTypes, NEW k \in Scans, NEW t \in Tables \union {<<>>},
         NEW r \in 1..(Len(t) + 1), GoTo(k, t, r)
  PROVE  /\ attempt' \in [Scans -> 0..(max_attempts - 1)]
         /\ at' \in Places /\ row' \in [Scans -> Nat]
         /\ \A j \in Scans \ {k} : at'[j] = at[j] /\ row'[j] = row[j]
         /\ row'[k] \in Nat /\ r <= row'[k]
         /\ \/ at'[k] = "done" /\ (row'[k] > Len(t) \/ t[row'[k]] = BadPort)
            \/ at'[k] = "resolve" /\ row'[k] \in DOMAIN t /\ t[row'[k]] \in Endpoints
<1> DEFINE ahead == {i \in r..Len(t) : t[i] # Blank}
<1>1. t \in Seq(Rows) /\ Len(t) \in Nat /\ DOMAIN t = 1..Len(t)
  BY TableFact
<1>2. attempt' \in [Scans -> 0..(max_attempts - 1)]
  BY DEF GoTo, ScanTypes
<1>3. CASE ahead = {} /\ row' = [row EXCEPT ![k] = Len(t) + 1] /\ at' = [at EXCEPT ![k] = "done"]
  <2>1. Len(t) + 1 \in Nat /\ r <= Len(t) + 1 /\ Len(t) + 1 > Len(t)
    BY <1>1
  <2>2. at'[k] = "done" /\ at' \in Places /\ \A j \in Scans \ {k} : at'[j] = at[j]
    BY <1>3 DEF ScanTypes, Places
  <2>3. /\ row'[k] = Len(t) + 1 /\ row' \in [Scans -> Nat]
        /\ \A j \in Scans \ {k} : row'[j] = row[j]
    BY <1>3, <2>1 DEF ScanTypes
  <2> QED BY <1>2, <2>1, <2>2, <2>3
<1>4. ASSUME NEW next \in ahead,
             row' = [row EXCEPT ![k] = next],
             at' = [at EXCEPT ![k] = IF t[next] = BadPort THEN "done" ELSE "resolve"]
      PROVE  /\ at' \in Places /\ row' \in [Scans -> Nat]
             /\ \A j \in Scans \ {k} : at'[j] = at[j] /\ row'[j] = row[j]
             /\ row'[k] \in Nat /\ r <= row'[k]
             /\ \/ at'[k] = "done" /\ t[row'[k]] = BadPort
                \/ at'[k] = "resolve" /\ row'[k] \in DOMAIN t /\ t[row'[k]] \in Endpoints
  <2>1. t[next] \in Rows /\ t[next] # Blank /\ next \in DOMAIN t /\ next \in Nat /\ r <= next
    BY <1>1, <1>4
  <2>2. row'[k] = next /\ at'[k] = IF t[next] = BadPort THEN "done" ELSE "resolve"
    BY <1>4 DEF ScanTypes, Places
  <2> QED BY <1>4, <2>1, <2>2 DEF Rows, ScanTypes, Places
<1> QED BY <1>2, <1>3, <1>4 DEF GoTo

\* The scan moves on from a row it has dealt with.
LEMMA NextRowInv ==
  ASSUME ScanInv, NEW k \in Scans, at[k] \in {"resolve", "connect"}, NextRow(k),
         created \in Nat, created' \in Nat, created' >= created,
         \A s \in 1..created : ep'[s] = ep[s],
         NEW made \in SUBSET (1..created'), \A s \in made : ep'[s] = table[k][row[k]],
         dialled' = [dialled EXCEPT ![k] = @ \union made],
         UNCHANGED <<scans, table>>
  PROVE  ScanInv'
<1>1. /\ row[k] \in DOMAIN table[k] /\ table[k] \in Tables \union {<<>>}
      /\ DOMAIN table[k] = 1..Len(table[k]) /\ Len(table[k]) \in Nat
  BY TableFact DEF ScanInv, ScanTypes
<1>2. row[k] + 1 \in 1..(Len(table[k]) + 1)
  BY <1>1
<1>3. /\ attempt' \in [Scans -> 0..(max_attempts - 1)]
      /\ at' \in Places /\ row' \in [Scans -> Nat]
      /\ \A j \in Scans \ {k} : at'[j] = at[j] /\ row'[j] = row[j]
      /\ row'[k] \in Nat /\ row[k] + 1 <= row'[k]
      /\ \/ at'[k] = "done" /\ (row'[k] > Len(table[k]) \/ table[k][row'[k]] = BadPort)
         \/ at'[k] = "resolve" /\ row'[k] \in DOMAIN table[k] /\ table[k][row'[k]] \in Endpoints
  BY <1>1, <1>2, GoToFact DEF NextRow, ScanInv
<1>4. \A j \in Scans \ {k} : at'[j] = at[j] /\ row'[j] = row[j] /\ dialled'[j] = dialled[j]
  BY <1>3 DEF ScanInv, ScanTypes
<1>5. dialled'[k] = dialled[k] \union made /\ dialled' \in [Scans -> SUBSET (1..created')]
  <2>1. 1..created \subseteq 1..created'
    OBVIOUS
  <2>2. dialled \in [Scans -> SUBSET (1..created)]
    BY DEF ScanInv, ScanTypes
  <2> HIDE DEF Scans
  <2> QED BY <2>1, <2>2
<1>6. ScanTypes'
  <2>1. \A j \in Scans : at'[j] \in {"resolve", "connect"} =>
          row'[j] \in DOMAIN table[j] /\ table[j][row'[j]] \in Endpoints
    BY <1>3, <1>4 DEF ScanInv, ScanTypes
  <2> QED BY <1>3, <1>5, <2>1 DEF ScanInv, ScanTypes
<1>7. Fresh'
  BY <1>3, <1>4 DEF ScanInv, Fresh, ScanTypes
<1>8. DialledBefore'
  <2> SUFFICES ASSUME NEW j \in Scans, NEW s \in dialled'[j]
               PROVE  \E i \in DOMAIN table[j] : i < row'[j] /\ ep'[s] = table[j][i]
    BY DEF DialledBefore
  <2>1. CASE s \in dialled[j]
    <3>1. ep'[s] = ep[s]
      BY <2>1 DEF ScanInv, ScanTypes
    <3>2. PICK i \in DOMAIN table[j] : i < row[j] /\ ep[s] = table[j][i]
      BY <2>1 DEF ScanInv, DialledBefore
    <3>3. i \in Nat
      <4>1. table[j] \in Tables \union {<<>>}
        BY DEF ScanInv, ScanTypes
      <4> QED BY <4>1, TableFact
    <3>4. row[j] \in Nat /\ row'[j] \in Nat /\ row[j] <= row'[j]
      <4>1. row[j] \in Nat /\ row[k] \in Nat
        BY DEF ScanInv, ScanTypes
      <4> QED BY <1>3, <1>4, <4>1
    <3> QED BY <3>1, <3>2, <3>3, <3>4
  <2>2. CASE s \notin dialled[j]
    <3>1. j = k /\ s \in made
      BY <1>4, <1>5, <2>2
    <3>2. ep'[s] = table[k][row[k]]
      BY <3>1
    <3>3. row[k] \in Nat /\ row[k] < row'[k]
      BY <1>1, <1>3
    <3> QED BY <1>1, <3>1, <3>2, <3>3
  <2> QED BY <2>1, <2>2
<1>9. ScanCovers'
  <2> SUFFICES ASSUME NEW j \in Scans, at'[j] = "done"
               PROVE  row'[j] > Len(table[j]) \/ table[j][row'[j]] = BadPort
    BY DEF ScanCovers
  <2>1. CASE j = k
    BY <1>3, <2>1
  <2>2. CASE j # k
    BY <1>4, <2>2 DEF ScanInv, ScanCovers
  <2> QED BY <2>1, <2>2
<1> QED BY <1>6, <1>7, <1>8, <1>9 DEF ScanInv

\* The sessions of the server that a scan hands its connection to.
LEMMA HandOverFact ==
  ASSUME IInv, NEW e \in Endpoints, HandOver(e)
  PROVE  created' = New /\ New = created + 1 /\ New \in Sessions /\ ep'[New] = e
<1>1. NewSession(e)
  BY DEF HandOver, AddOutgoing, AddOutgoingNoDatabase
<1>2. created \in 0..MaxSessions /\ ep \in [Sessions -> Endpoints \union {None}]
  BY DEF IInv, TypeOK
<1> QED BY <1>1, <1>2 DEF NewSession, New

LEMMA ScanNext ==
  ASSUME CInv, [ConnectorNext]_allVars
  PROVE  ScanInv'
<1>1. created \in Nat /\ created' \in Nat /\ created' >= created /\ \A s \in 1..created : ep'[s] = ep[s]
  BY StepOfServer, SessionsStay DEF CInv, ScanInv
<1>2. ASSUME UNCHANGED scanVars PROVE ScanInv'
  <2>1. ScanTypes'
    BY <1>1, <1>2 DEF scanVars, CInv, ScanInv, ScanTypes
  <2>2. \A k \in Scans : \A s \in dialled[k] : ep'[s] = ep[s]
    BY <1>1 DEF CInv, ScanInv, ScanTypes
  <2> QED BY <1>2, <2>1, <2>2 DEF scanVars, CInv, ScanInv, Fresh, DialledBefore, ScanCovers
<1>3. ASSUME NEW k \in Scans, NEW where \in {"query", "done"}, Spawn(k, where) PROVE ScanInv'
  <2>1. k = scans + 1 /\ at[k] = "none"
    BY <1>3 DEF Spawn, CInv, ScanInv, Fresh, ScanTypes
  <2>2. /\ scans' = scans + 1 /\ scans' \in 0..MaxScans /\ at' = [at EXCEPT ![k] = where]
        /\ UNCHANGED <<created, ep, table, row, attempt, dialled>>
    BY <1>3, <2>1 DEF Spawn, vars
  <2>3. /\ at' \in Places /\ at'[k] = where /\ \A j \in Scans \ {k} : at'[j] = at[j]
        /\ table[k] = <<>> /\ row[k] = 1
    BY <2>1, <2>2 DEF CInv, ScanInv, ScanTypes, Places, Fresh
  <2>4. ScanTypes'
    BY <2>2, <2>3 DEF CInv, ScanInv, ScanTypes
  <2>5. Fresh'
    BY <2>1, <2>2, <2>3 DEF CInv, ScanInv, ScanTypes, Fresh
  <2>6. DialledBefore'
    BY <2>2 DEF CInv, ScanInv, DialledBefore
  <2>7. ScanCovers'
    BY <2>2, <2>3 DEF CInv, ScanInv, ScanCovers
  <2> QED BY <2>4, <2>5, <2>6, <2>7 DEF ScanInv
<1>4. ASSUME NEW k \in Scans, QueryAnswers(k) PROVE ScanInv'
  <2>1. PICK t \in Tables : table' = [table EXCEPT ![k] = t] /\ GoTo(k, t, 1)
    BY <1>4 DEF QueryAnswers
  <2>2. /\ at[k] = "query" /\ dialled[k] = {} /\ UNCHANGED <<created, ep, scans, dialled>>
    BY <1>4 DEF QueryAnswers, vars, CInv, ScanInv, Fresh
  <2>3. 1 \in 1..(Len(t) + 1)
    OBVIOUS
  <2>4. /\ attempt' \in [Scans -> 0..(max_attempts - 1)]
        /\ at' \in Places /\ row' \in [Scans -> Nat]
        /\ \A j \in Scans \ {k} : at'[j] = at[j] /\ row'[j] = row[j]
        /\ row'[k] \in Nat
        /\ \/ at'[k] = "done" /\ (row'[k] > Len(t) \/ t[row'[k]] = BadPort)
           \/ at'[k] = "resolve" /\ row'[k] \in DOMAIN t /\ t[row'[k]] \in Endpoints
    BY <2>1, <2>3, GoToFact DEF CInv, ScanInv
  <2>5. \A j \in Scans \ {k} : at'[j] = at[j] /\ row'[j] = row[j] /\ table'[j] = table[j]
    BY <2>1, <2>4 DEF CInv, ScanInv, ScanTypes
  <2>6. table'[k] = t /\ table' \in [Scans -> Tables \union {<<>>}]
    BY <2>1 DEF CInv, ScanInv, ScanTypes
  <2>7. ScanTypes'
    <3>1. \A j \in Scans : at'[j] \in {"resolve", "connect"} =>
            row'[j] \in DOMAIN table'[j] /\ table'[j][row'[j]] \in Endpoints
      BY <2>4, <2>5, <2>6 DEF CInv, ScanInv, ScanTypes
    <3> QED BY <2>2, <2>4, <2>6, <3>1 DEF CInv, ScanInv, ScanTypes
  <2>8. Fresh'
    BY <2>2, <2>4, <2>5 DEF CInv, ScanInv, Fresh, ScanTypes
  <2>9. DialledBefore'
    BY <2>2, <2>5 DEF CInv, ScanInv, DialledBefore
  <2>10. ScanCovers'
    BY <2>4, <2>5, <2>6 DEF CInv, ScanInv, ScanCovers
  <2> QED BY <2>7, <2>8, <2>9, <2>10 DEF ScanInv
<1>5. ASSUME NEW k \in Scans, QueryFails(k) PROVE ScanInv'
  <2>1. /\ at[k] = "query" /\ at' = [at EXCEPT ![k] = "done"]
        /\ UNCHANGED <<created, ep, scans, table, row, attempt, dialled>>
    BY <1>5 DEF QueryFails, vars
  <2>2. /\ at' \in Places /\ at'[k] = "done" /\ \A j \in Scans \ {k} : at'[j] = at[j]
        /\ table[k] = <<>> /\ row[k] = 1
    BY <2>1 DEF CInv, ScanInv, ScanTypes, Places, Fresh
  <2>3. ScanTypes'
    BY <2>1, <2>2 DEF CInv, ScanInv, ScanTypes
  <2>4. Fresh'
    BY <2>1, <2>2 DEF CInv, ScanInv, ScanTypes, Fresh
  <2>5. DialledBefore'
    BY <2>1 DEF CInv, ScanInv, DialledBefore
  <2>6. ScanCovers'
    BY <2>1, <2>2 DEF CInv, ScanInv, ScanCovers
  <2> QED BY <2>3, <2>4, <2>5, <2>6 DEF ScanInv
<1>6. ASSUME NEW k \in Scans, Resolved(k) PROVE ScanInv'
  <2>1. /\ at[k] = "resolve" /\ at' = [at EXCEPT ![k] = "connect"]
        /\ UNCHANGED <<created, ep, scans, table, row, attempt, dialled>>
    BY <1>6 DEF Resolved, vars
  <2>2. at' \in Places /\ at'[k] = "connect" /\ \A j \in Scans \ {k} : at'[j] = at[j]
    BY <2>1 DEF CInv, ScanInv, ScanTypes, Places
  <2>3. ScanTypes'
    BY <2>1, <2>2 DEF CInv, ScanInv, ScanTypes
  <2>4. Fresh'
    BY <2>1, <2>2 DEF CInv, ScanInv, ScanTypes, Fresh
  <2>5. DialledBefore'
    BY <2>1 DEF CInv, ScanInv, DialledBefore
  <2>6. ScanCovers'
    BY <2>1, <2>2 DEF CInv, ScanInv, ScanCovers
  <2> QED BY <2>3, <2>4, <2>5, <2>6 DEF ScanInv
<1>7. ASSUME NEW k \in Scans, Unresolved(k) \/ ConnectedPeerGone(k) \/ (ConnectFails(k) /\ NextRow(k))
      PROVE  ScanInv'
  <2>1. /\ at[k] \in {"resolve", "connect"} /\ NextRow(k)
        /\ UNCHANGED <<scans, table, dialled>>
    BY <1>7 DEF Unresolved, ConnectedPeerGone, ConnectFails
  <2>2. dialled' = [dialled EXCEPT ![k] = @ \union {}]
    BY <2>1 DEF CInv, ScanInv, ScanTypes
  <2> QED BY <1>1, <2>1, <2>2, NextRowInv DEF CInv
<1>8. ASSUME NEW k \in Scans, ConnectFails(k), ~NextRow(k) PROVE ScanInv'
  <2>1. /\ at[k] = "connect" /\ attempt[k] + 1 < max_attempts
        /\ attempt' = [attempt EXCEPT ![k] = @ + 1]
        /\ UNCHANGED <<created, ep, scans, at, table, row, dialled>>
    BY <1>8 DEF ConnectFails, vars
  <2>2. attempt' \in [Scans -> 0..(max_attempts - 1)]
    BY <2>1 DEF CInv, ScanInv, ScanTypes
  <2>3. ScanTypes'
    BY <2>1, <2>2 DEF CInv, ScanInv, ScanTypes
  <2>4. Fresh' /\ DialledBefore' /\ ScanCovers'
    BY <2>1 DEF CInv, ScanInv, Fresh, DialledBefore, ScanCovers
  <2> QED BY <2>3, <2>4 DEF ScanInv
<1>9. ASSUME NEW k \in Scans, Connected(k) PROVE ScanInv'
  <2>1. /\ at[k] = "connect" /\ table[k][row[k]] \in Endpoints /\ HandOver(table[k][row[k]])
        /\ dialled' = [dialled EXCEPT ![k] = @ \union {New}]
        /\ NextRow(k)
        /\ UNCHANGED <<scans, table>>
    BY <1>9 DEF Connected, CInv, ScanInv, ScanTypes
  <2>2. {New} \in SUBSET (1..created') /\ \A s \in {New} : ep'[s] = table[k][row[k]]
    BY <1>1, <2>1, HandOverFact DEF CInv
  <2> QED BY <1>1, <2>1, <2>2, NextRowInv DEF CInv
<1> QED
  BY <1>2, <1>3, <1>4, <1>5, <1>6, <1>7, <1>8, <1>9
  DEF ConnectorNext, ScanStarts, ScanWithoutPool, ScanGoesOn, ServerStep, allVars

LEMMA CInvSpec == ConnectorSpec => []CInv
<1>1. ConnectorInit => CInv
  BY InitInv, InitEntries, ScanInit DEF ConnectorInit, CInv
<1>2. CInv /\ [ConnectorNext]_allVars => CInv'
  <2> SUFFICES ASSUME CInv, [ConnectorNext]_allVars PROVE CInv'
    OBVIOUS
  <2>1. [Next]_vars
    BY StepOfServer DEF CInv, ScanInv
  <2> QED BY <2>1, NextInv, NextClosed, ScanNext DEF CInv
<1> QED BY <1>1, <1>2, PTL DEF ConnectorSpec

-----------------------------------------------------------------------------
(* Theorems.                                                               *)

\* The types of the composition.
THEOREM ConnectorTypes == ConnectorSpec => []ConnectorTypeOK
<1>1. CInv => ConnectorTypeOK
  BY DEF CInv, IInv, ScanInv, ScanTypes, Places, ConnectorTypeOK
<1> QED BY <1>1, CInvSpec, PTL

\* A scan that has ended went through its table (device_connector.cpp:37).
THEOREM ScansCover == ConnectorSpec => []ScanCovers
<1>1. CInv => ScanCovers
  BY DEF CInv, ScanInv
<1> QED BY <1>1, CInvSpec, PTL

\* A scan takes the steps of the server or leaves it alone, by the way
\* Connector is put together: what holds of the one carries over.
LEMMA ServerUnderScans == ConnectorSpec => Spec
<1>1. CInv /\ [ConnectorNext]_allVars => [Next]_vars
  BY StepOfServer DEF CInv, ScanInv
<1>2. ConnectorInit => Init
  BY DEF ConnectorInit
<1> QED BY <1>1, <1>2, CInvSpec, PTL DEF ConnectorSpec, Spec

\* No scan, and no two of them, leave two open sessions with one endpoint
\* (Server.cpp:30).
THEOREM DialledEndpointUnique == ConnectorSpec => []OneSessionPerEndpoint
BY ServerUnderScans, EndpointUnique, PTL

\* ... nor two open sessions that serve one device (Server.cpp:93).
THEOREM DialledDeviceUnique == ConnectorSpec => []OneSessionPerDevice
BY ServerUnderScans, DeviceUnique, PTL

\* Scans, server and sessions together keep what the session manager of
\* Server.h promises: a dialled connection takes its endpoint over as an
\* accepted one does, and a scan does nothing else to a link.
THEOREM DialsImplementRegistry == ConnectorSpec => RegistrySpec
BY ServerUnderScans, ImplementsRegistry, PTL

KeepsOwn ==
  \A k \in Scans : dialled'[k] # dialled[k] /\ Distinct(table[k]) =>
    \A s \in dialled[k] : sock'[s] = sock[s]

LEMMA KeepsOwnStep == CInv /\ [ConnectorNext]_allVars => KeepsOwn
<1> SUFFICES ASSUME CInv, [ConnectorNext]_allVars, NEW k \in Scans,
                    dialled'[k] # dialled[k], Distinct(table[k]), NEW s \in dialled[k]
             PROVE  sock'[s] = sock[s]
  BY DEF KeepsOwn
<1>1. Connected(k)
  BY DEF ConnectorNext, allVars, scanVars, ScanStarts, ScanWithoutPool, Spawn, ScanGoesOn,
         QueryAnswers, QueryFails, Resolved, Unresolved, ConnectFails, Connected,
         ConnectedPeerGone, ServerStep, CInv, ScanInv, ScanTypes
<1> DEFINE e == table[k][row[k]]
<1>2. e \in Endpoints /\ row[k] \in DOMAIN table[k] /\ HandOver(e)
  BY <1>1 DEF Connected, CInv, ScanInv, ScanTypes
<1>3. s \in Sessions /\ s # New /\ New \in Sessions
  <2>1. created \in 0..MaxSessions
    BY DEF CInv, IInv, TypeOK
  <2>2. s \in 1..created
    BY DEF CInv, ScanInv, ScanTypes
  <2>3. New = created + 1 /\ New \in Sessions
    BY <1>2, HandOverFact DEF CInv
  <2> QED BY <2>1, <2>2, <2>3
<1>4. PICK i \in DOMAIN table[k] : i < row[k] /\ ep[s] = table[k][i]
  BY DEF CInv, ScanInv, DialledBefore
<1>5. ep[s] # e
  <2>1. DOMAIN table[k] \subseteq Nat
    <3>1. table[k] \in Tables \union {<<>>}
      BY DEF CInv, ScanInv, ScanTypes
    <3> QED BY <3>1, TableFact
  <2>2. i # row[k]
    BY <1>2, <1>4, <2>1
  <2> QED BY <1>2, <1>4, <2>2 DEF Distinct
<1>6. s # byEndpoint[e]
  BY <1>2, <1>3, <1>5 DEF CInv, Entries
<1>7. CloseLocked(byEndpoint[e])[s] = sock[s]
  BY <1>2, <1>3, <1>6, CloseLockedOnly DEF CInv, IInv, TypeOK
<1>8. CloseLocked(byEndpoint[e]) \in [Sessions -> {"none", "open", "closed"}]
  BY <1>2, CloseLockedFact DEF CInv, IInv, TypeOK
<1>9. \E state \in {"open", "closed"} : sock' = [CloseLocked(byEndpoint[e]) EXCEPT ![New] = state]
  BY <1>2 DEF HandOver, AddOutgoing, AddOutgoingNoDatabase
<1> QED BY <1>3, <1>7, <1>8, <1>9

\* No scan closes a session it has dialled (device_connector.cpp:49).
THEOREM ScansKeepTheirOwn == ConnectorSpec => ScanKeepsItsOwn
<1>1. CInv /\ [ConnectorNext]_allVars =>
        [\A k \in Scans :
           dialled'[k] # dialled[k] /\ Distinct(table[k]) =>
             \A s \in dialled[k] : sock'[s] = sock[s]]_allVars
  BY KeepsOwnStep DEF KeepsOwn
<1> QED BY <1>1, CInvSpec, PTL DEF ConnectorSpec, ScanKeepsItsOwn
=============================================================================
