----------------------------- MODULE Connector -----------------------------
(***************************************************************************)
(* device_connector.cpp with the timer of main.cpp that starts it,         *)
(* composed with the server on 8877 it hands its connections to.           *)
(*                                                                         *)
(* check_and_connect spawns a detached coroutine, a scan: it reads the     *)
(* enabled endpoints from the database and dials them one after another,   *)
(* each at most max_attempts times.  main() starts a scan at once and one  *)
(* every 60 seconds, whether the scans before it have ended or not, and    *)
(* none knows of another, nor of the connections that are open.            *)
(*                                                                         *)
(* Definitions under a "Fault" comment are faulty variants of the one that *)
(* follows; no specification uses them.                                    *)
(***************************************************************************)
EXTENDS Server, Sequences

CONSTANTS
  MaxScans,      \* bound: scans ever started
  Tables,        \* contents outbound_endpoints may have, sequences of rows
  Blank,         \* a row whose ip or port is empty
  BadPort,       \* a row whose port is no number: std::stoi throws
  max_attempts   \* 3 in the code

Rows == Endpoints \union {Blank, BadPort}

ASSUME ConnectorAssumption ==
  /\ MaxScans \in Nat
  /\ max_attempts \in Nat \ {0}
  /\ Tables \subseteq Seq(Rows)
  /\ {Blank, BadPort} \intersect Endpoints = {}
  /\ Blank # BadPort

Scans == 1..MaxScans  \* numbered in the order they are started

VARIABLES
  scans,    \* scans started so far
  at,       \* where each scan waits: "none", "query", "resolve", "connect", "done"
  table,    \* the ResultSet it was given
  row,      \* r, counted from 1
  attempt,  \* connection attempts of this row that failed
  dialled   \* sessions it has made (history)

scanVars == <<scans, at, table, row, attempt, dialled>>
allVars == <<vars, scanVars>>

ConnectorInit ==
  /\ Init
  /\ scans = 0
  /\ at = [k \in Scans |-> "none"]
  /\ table = [k \in Scans |-> <<>>]
  /\ row = [k \in Scans |-> 1]
  /\ attempt = [k \in Scans |-> 0]
  /\ dialled = [k \in Scans |-> {}]

Spawn(k, where) ==
  /\ running /\ k = scans + 1
  /\ scans' = k
  /\ at' = [at EXCEPT ![k] = where]
  /\ UNCHANGED <<vars, table, row, attempt, dialled>>

\* The connector gives a connection, and the query is sent.  Not to the
\* first scan: main() spawns it together with the pool, which has connected
\* nothing when the scan calls acquire().
ScanStarts(k) == k > 1 /\ Spawn(k, "query")

\* acquire() throws, and the scan ends.
ScanWithoutPool(k) == Spawn(k, "done")

\* Fault: blank rows are not skipped.
GoToBlank(k, t, r) ==
  /\ attempt' = [attempt EXCEPT ![k] = 0]
  /\ row' = [row EXCEPT ![k] = r]
  /\ at' = [at EXCEPT ![k] =
              IF r > Len(t) \/ t[r] = BadPort THEN "done" ELSE "resolve"]

\* The loop goes on at row r of t without waiting: blank rows are skipped,
\* a port that is no number ends the scan, an endpoint is resolved.
GoTo(k, t, r) ==
  LET ahead == {i \in r..Len(t) : t[i] # Blank} IN
  /\ attempt' = [attempt EXCEPT ![k] = 0]
  /\ \/ /\ ahead = {}
        /\ row' = [row EXCEPT ![k] = Len(t) + 1]
        /\ at' = [at EXCEPT ![k] = "done"]
     \/ \E next \in ahead :
          /\ \A i \in ahead : next <= i
          /\ row' = [row EXCEPT ![k] = next]
          /\ at' = [at EXCEPT ![k] = IF t[next] = BadPort THEN "done" ELSE "resolve"]

\* The query answers with the table as it is now.
QueryAnswers(k) ==
  /\ running /\ at[k] = "query"
  /\ \E t \in Tables :
       /\ table' = [table EXCEPT ![k] = t]
       /\ GoTo(k, t, 1)
  /\ UNCHANGED <<vars, scans, dialled>>

\* ... or fails, at once when the shared connection is busy.
QueryFails(k) ==
  /\ running /\ at[k] = "query"
  /\ at' = [at EXCEPT ![k] = "done"]
  /\ UNCHANGED <<vars, scans, table, row, attempt, dialled>>

NextRow(k) == GoTo(k, table[k], row[k] + 1)

Resolved(k) ==
  /\ running /\ at[k] = "resolve"
  /\ at' = [at EXCEPT ![k] = "connect"]
  /\ UNCHANGED <<vars, scans, table, row, attempt, dialled>>

\* Fault: the name that is not resolved ends the scan.
UnresolvedEndsScan(k) ==
  /\ running /\ at[k] = "resolve"
  /\ at' = [at EXCEPT ![k] = "done"]
  /\ UNCHANGED <<vars, scans, table, row, attempt, dialled>>

\* async_resolve throws: this row is given up.
Unresolved(k) ==
  /\ running /\ at[k] = "resolve"
  /\ NextRow(k)
  /\ UNCHANGED <<vars, scans, table, dialled>>

\* Fault: the row is resolved again, and its attempts counted anew.
ConnectFailsStartingOver(k) ==
  /\ running /\ at[k] = "connect"
  /\ at' = [at EXCEPT ![k] = "resolve"]
  /\ attempt' = [attempt EXCEPT ![k] = 0]
  /\ UNCHANGED <<vars, scans, table, row, dialled>>

\* async_connect throws.  The next attempt follows at once: the timer that
\* should space them is started and not awaited.
ConnectFails(k) ==
  /\ running /\ at[k] = "connect"
  /\ IF attempt[k] + 1 < max_attempts
     THEN /\ attempt' = [attempt EXCEPT ![k] = @ + 1]
          /\ UNCHANGED <<at, row>>
     ELSE NextRow(k)
  /\ UNCHANGED <<vars, scans, table, dialled>>

\* add_outgoing_connection, which throws nothing.
HandOver(e) == AddOutgoing(e) \/ AddOutgoingNoDatabase(e)

\* Fault: a connection does not end the attempts.
ConnectedAndGoesOn(k) ==
  /\ at[k] = "connect"
  /\ HandOver(table[k][row[k]])
  /\ dialled' = [dialled EXCEPT ![k] = @ \union {New}]
  /\ IF attempt[k] + 1 < max_attempts
     THEN attempt' = [attempt EXCEPT ![k] = @ + 1] /\ UNCHANGED <<at, row>>
     ELSE NextRow(k)
  /\ UNCHANGED <<scans, table>>

\* The connection is made and handed to the server; connected ends the
\* attempts.
Connected(k) ==
  /\ at[k] = "connect"
  /\ HandOver(table[k][row[k]])
  /\ dialled' = [dialled EXCEPT ![k] = @ \union {New}]
  /\ NextRow(k)
  /\ UNCHANGED <<scans, table>>

\* The peer is gone again: remote_endpoint() throws in the server, which
\* catches it, and the scan takes the row as connected.
ConnectedPeerGone(k) ==
  /\ running /\ at[k] = "connect"
  /\ NextRow(k)
  /\ UNCHANGED <<vars, scans, table, dialled>>

\* What the server does besides: everything but dialling.
ServerStep ==
  /\ \/ \E e \in Endpoints : Accept(e) \/ AcceptNoDatabase(e)
     \/ AcceptPeerGone
     \/ \E s \in Sessions :
          \/ \E m \in Devices : ParamsFound(s, m)
          \/ ParamsMissing(s)
          \/ Receive(s)
          \/ \E m \in Devices \union {None} : Heartbeat(s, m)
          \/ OtherFrame(s) \/ HandlerDone(s)
          \/ ReadAborted(s) \/ PeerLeft(s) \/ HandlerThrew(s)
     \/ Cleanup
     \/ Exited
  /\ UNCHANGED scanVars

ScanGoesOn(k) ==
  \/ QueryAnswers(k) \/ QueryFails(k)
  \/ Resolved(k) \/ Unresolved(k)
  \/ ConnectFails(k) \/ Connected(k) \/ ConnectedPeerGone(k)

ConnectorNext ==
  \/ \E k \in Scans : ScanStarts(k) \/ ScanWithoutPool(k) \/ ScanGoesOn(k)
  \/ ServerStep

ConnectorSpec == ConnectorInit /\ [][ConnectorNext]_allVars

\* What a scan waits for ends: the query, the resolver and the connection
\* answer or fail, and the timer fires again.
ConnectorFairSpec ==
  /\ ConnectorSpec
  /\ \A k \in Scans :
       WF_allVars(ScanGoesOn(k)) /\ WF_allVars(ScanStarts(k) \/ ScanWithoutPool(k))

-----------------------------------------------------------------------------
(* Properties.                                                             *)

\* Type invariant.  A scan that dials stands at an endpoint, and what it
\* has dialled are sessions that were made.
ConnectorTypeOK ==
  /\ TypeOK
  /\ scans \in 0..MaxScans
  /\ at \in [Scans -> {"none", "query", "resolve", "connect", "done"}]
  /\ table \in [Scans -> Tables \union {<<>>}]
  /\ row \in [Scans -> Nat]
  /\ attempt \in [Scans -> 0..(max_attempts - 1)]
  /\ dialled \in [Scans -> SUBSET (1..created)]
  /\ \A k \in Scans : at[k] \in {"resolve", "connect"} =>
       row[k] \in DOMAIN table[k] /\ table[k][row[k]] \in Endpoints

\* Tables that name no endpoint twice.
Distinct(t) == \A i, j \in DOMAIN t : t[i] = t[j] /\ t[i] \in Endpoints => i = j

\* device_connector.cpp:49, while (attempt < max_attempts && !connected): a
\* scan never dials an endpoint it has a session with already, which the
\* server would close as a duplicate.  (The next scan does.)
ScanKeepsItsOwn ==
  [][\A k \in Scans :
       dialled'[k] # dialled[k] /\ Distinct(table[k]) =>
         \A s \in dialled[k] : sock'[s] = sock[s]]_allVars

\* No endpoint that cannot be resolved or reached keeps a scan from the rows
\* after it: a scan that ended has gone through its table, but for a port
\* that is no number (device_connector.cpp:41), which no row after it
\* survives.
ScanCovers ==
  \A k \in Scans : at[k] = "done" =>
    row[k] > Len(table[k]) \/ table[k][row[k]] = BadPort

\* main.cpp:187 starts scans for ever: each ends, whatever its peers do,
\* unless the program does.
ScanEnds == \A k \in Scans : (k <= scans) ~> (at[k] = "done" \/ ~running)
=============================================================================
