------------------------------- MODULE PgPool -------------------------------
(***************************************************************************)
(* AsyncPostgresql.h: the pool of PostgreSQL connections that every        *)
(* session of the process shares, and the calls their coroutines make on   *)
(* it.  libpq runs one command at a time on a connection: the next one is  *)
(* refused until the results of the last have been read to the end.  The   *)
(* pool knows nothing of that: it hands connections out in turn, and never *)
(* takes one back.                                                         *)
(***************************************************************************)
EXTENDS Naturals, Sequences, FiniteSets

CONSTANTS
  PoolSize,    \* connections initialize() tries to open
  Users,       \* the sessions and outbound scans that acquire a connection
  Calls,       \* calls their coroutines make, each at most once
  Owner,       \* the user each call belongs to
  NonQueries,  \* the calls that use execute_non_query
  None,        \* no connection, no result
  Refused      \* acquire() threw

ASSUME PgPoolAssumption ==
  /\ PoolSize \in Nat \ {0}
  /\ IsFiniteSet(Users)
  /\ Owner \in [Calls -> Users]
  /\ NonQueries \subseteq Calls
  /\ None \notin Nat /\ None \notin Calls
  /\ Refused \notin Nat /\ Refused # None

Conns == 1..PoolSize

VARIABLES
  attempt,   \* the connection initialize() is opening; PoolSize + 1 when done
  pool,      \* pool_, the connections opened so far
  next,      \* next_
  health,    \* each connection: "none" (not open), "ok", "cut" (lost, and libpq
             \* has not noticed) or "bad"; PQstatus is CONNECTION_OK for the
             \* two in the middle
  busy,      \* its asyncStatus is not idle
  wire,      \* calls whose results the server still has to deliver on it
  conn,      \* conn_ of each user: a connection, None, or Refused
  call,      \* where each call is: "new", "waiting", "done" or "failed"
  answer,    \* the call whose result a call was given
  even       \* history: every connection opened, none was lost, and nobody
             \* acquired one before the pool was complete

vars == <<attempt, pool, next, health, busy, wire, conn, call, answer, even>>

Init ==
  /\ attempt = 1
  /\ pool = <<>>
  /\ next = 0
  /\ health = [c \in Conns |-> "none"]
  /\ busy = [c \in Conns |-> FALSE]
  /\ wire = [c \in Conns |-> <<>>]
  /\ conn = [u \in Users |-> None]
  /\ call = [k \in Calls |-> "new"]
  /\ answer = [k \in Calls |-> None]
  /\ even = TRUE

-----------------------------------------------------------------------------
(* The pool.                                                               *)

\* Fault: the loop runs one time too often.
ConnectedOnceMore ==
  /\ attempt <= PoolSize + 1
  /\ pool' = Append(pool, attempt)
  /\ health' = [health EXCEPT ![attempt] = "ok"]
  /\ attempt' = attempt + 1
  /\ UNCHANGED <<next, busy, wire, conn, call, answer, even>>

\* initialize(): the next connection is up and joins the pool ...
Connected ==
  /\ attempt <= PoolSize
  /\ pool' = Append(pool, attempt)
  /\ health' = [health EXCEPT ![attempt] = "ok"]
  /\ attempt' = attempt + 1
  /\ UNCHANGED <<next, busy, wire, conn, call, answer, even>>

\* ... or could not be opened and is skipped.
ConnectFailed ==
  /\ attempt <= PoolSize
  /\ attempt' = attempt + 1
  /\ even' = FALSE
  /\ UNCHANGED <<pool, next, health, busy, wire, conn, call, answer>>

\* What acquire() looks at in its i-th turn of the loop.
Candidate(i) == pool[((next + i) % Len(pool)) + 1]

connected(c) == health[c] \in {"ok", "cut"}

HealthyTurn(i) == connected(Candidate(i))

\* Fault: the loop stops one connection short.
TurnsShort == 0..(Len(pool) - 2)

\* The turns acquire() takes at most: one for each connection.
Turns == 0..(Len(pool) - 1)

\* Fault: next_ stays at the connection given.
AcquireInPlace(u) ==
  /\ conn[u] = None
  /\ \E i \in Turns :
       /\ HealthyTurn(i)
       /\ \A j \in Turns : j < i => ~HealthyTurn(j)
       /\ conn' = [conn EXCEPT ![u] = Candidate(i)]
       /\ next' = next + i
  /\ even' = (even /\ attempt > PoolSize)
  /\ UNCHANGED <<attempt, pool, health, busy, wire, call, answer>>

\* acquire() returns the first healthy connection from next_ on.
Acquire(u) ==
  /\ conn[u] = None
  /\ \E i \in Turns :
       /\ HealthyTurn(i)
       /\ \A j \in Turns : j < i => ~HealthyTurn(j)
       /\ conn' = [conn EXCEPT ![u] = Candidate(i)]
       /\ next' = next + i + 1
  /\ even' = (even /\ attempt > PoolSize)
  /\ UNCHANGED <<attempt, pool, health, busy, wire, call, answer>>

\* acquire() throws: the pool is empty or no connection is healthy.
AcquireThrows(u) ==
  /\ conn[u] = None
  /\ \A i \in Turns : ~HealthyTurn(i)
  /\ conn' = [conn EXCEPT ![u] = Refused]
  /\ next' = next + Len(pool)
  /\ UNCHANGED <<attempt, pool, health, busy, wire, call, answer, even>>

-----------------------------------------------------------------------------
(* Calls.                                                                  *)

ConnOf(k) == conn[Owner[k]]

\* Fault: the command is sent whatever the connection is doing.
AcceptsAlways(c) == connected(c)

\* PQsendQuery takes a command on a connection that is idle.
Accepts(c) == connected(c) /\ ~busy[c]

\* execute_query and execute_non_query up to their wait.
Send(k) ==
  /\ call[k] = "new" /\ ConnOf(k) \in Conns
  /\ Accepts(ConnOf(k))
  /\ busy' = [busy EXCEPT ![ConnOf(k)] = TRUE]
  /\ wire' = [wire EXCEPT ![ConnOf(k)] = Append(@, k)]
  /\ call' = [call EXCEPT ![k] = "waiting"]
  /\ UNCHANGED <<attempt, pool, next, health, conn, answer, even>>

\* "PQsendQuery failed": the connection is busy, known to be lost, or found
\* to be by this very call.
SendRefused(k) ==
  /\ call[k] = "new" /\ ConnOf(k) \in Conns
  /\ \/ ~Accepts(ConnOf(k)) /\ health' = health
     \/ /\ health[ConnOf(k)] = "cut" /\ ~busy[ConnOf(k)]
        /\ health' = [health EXCEPT ![ConnOf(k)] = "bad"]
  /\ call' = [call EXCEPT ![k] = "failed"]
  /\ UNCHANGED <<attempt, pool, next, busy, wire, conn, answer, even>>

\* The socket is readable and the waiting coroutine takes a result.
Take(k) ==
  /\ call[k] = "waiting"
  /\ health[ConnOf(k)] = "ok"
  /\ wire[ConnOf(k)] # <<>>
  /\ answer' = [answer EXCEPT ![k] = Head(wire[ConnOf(k)])]

\* The result is what the call expects, or the call is an execute_non_query,
\* which reports an SQL error as false: the rest is read and thrown away.
Result(k) ==
  /\ Take(k)
  /\ call' = [call EXCEPT ![k] = "done"]
  /\ wire' = [wire EXCEPT ![ConnOf(k)] = <<>>]
  /\ busy' = [busy EXCEPT ![ConnOf(k)] = FALSE]
  /\ UNCHANGED <<attempt, pool, next, health, conn, even>>

\* An SQL error in execute_query, or a command that returns no rows: it
\* throws before PQclear and clear_extra_results, and the connection stays
\* busy.
SqlError(k) ==
  /\ k \notin NonQueries
  /\ Take(k)
  /\ call' = [call EXCEPT ![k] = "failed"]
  /\ wire' = [wire EXCEPT ![ConnOf(k)] = Tail(@)]
  /\ UNCHANGED <<attempt, pool, next, health, busy, conn, even>>

\* The server or the network drops the connection, after the last result that
\* can still be read; nobody reopens it.
Drop(c) ==
  /\ health[c] = "ok"
  /\ health' = [health EXCEPT ![c] = "cut"]
  /\ even' = FALSE
  /\ UNCHANGED <<attempt, pool, next, busy, wire, conn, call, answer>>

\* Fault: the failure of PQconsumeInput is not looked at.
ConnectionLostUnseen(k) ==
  /\ call[k] = "waiting"
  /\ health[ConnOf(k)] = "cut"
  /\ UNCHANGED vars

\* PQconsumeInput fails under a waiting call, which throws.
ConnectionLost(k) ==
  /\ call[k] = "waiting"
  /\ health[ConnOf(k)] = "cut"
  /\ health' = [health EXCEPT ![ConnOf(k)] = "bad"]
  /\ call' = [call EXCEPT ![k] = "failed"]
  /\ UNCHANGED <<attempt, pool, next, busy, wire, conn, answer, even>>

\* Nothing is left to do: every connection tried, every user and call served.
Quiet ==
  /\ attempt > PoolSize
  /\ \A u \in Users : conn[u] # None
  /\ \A k \in Calls : call[k] \in {"done", "failed"} \/ conn[Owner[k]] = Refused
  /\ UNCHANGED vars

Next ==
  \/ Connected \/ ConnectFailed
  \/ \E u \in Users : Acquire(u) \/ AcquireThrows(u)
  \/ \E k \in Calls :
       Send(k) \/ SendRefused(k) \/ Result(k) \/ SqlError(k) \/ ConnectionLost(k)
  \/ \E c \in Conns : Drop(c)
  \/ Quiet

Spec == Init /\ [][Next]_vars

\* PostgreSQL answers every command it was sent, or the connection is lost.
Fairness == \A k \in Calls : WF_vars(Result(k) \/ SqlError(k) \/ ConnectionLost(k))

FairSpec == Spec /\ Fairness

-----------------------------------------------------------------------------
(* Properties.                                                             *)

\* Every variable has its type.
TypeOK ==
  /\ attempt \in 1..(PoolSize + 1)
  /\ pool \in Seq(Conns)
  /\ next \in Nat
  /\ health \in [Conns -> {"none", "ok", "cut", "bad"}]
  /\ busy \in [Conns -> BOOLEAN]
  /\ wire \in [Conns -> Seq(Calls)]
  /\ conn \in [Users -> Conns \union {None, Refused}]
  /\ call \in [Calls -> {"new", "waiting", "done", "failed"}]
  /\ answer \in [Calls -> Calls \union {None}]
  /\ even \in BOOLEAN

\* A coroutine is given the result of its own command, however many sessions
\* share the connection and in whatever order their calls start and end.
AnswersAreOwn == \A k \in Calls : answer[k] \in {None, k}

\* Two calls never wait on one connection: each would wake on the other's
\* result.
OneWaiterPerConnection ==
  \A k, l \in Calls :
    call[k] = "waiting" /\ call[l] = "waiting" /\ ConnOf(k) = ConnOf(l) => k = l

\* AsyncPostgresql.h:201, "round-robin simple": as long as every connection
\* opened and none was lost, no connection serves two users more than another.
Load(c) == Cardinality({u \in Users : conn[u] = c})

EvenlySpread == even => \A c, d \in Conns : Load(c) <= Load(d) + 1

\* acquire() throws only when there is no healthy connection to give, although
\* the pool may have grown, shrunk in health and moved next_ in between.
RefusedOnlyWithoutHealthy ==
  [][\A u \in Users :
       conn[u] = None /\ conn'[u] = Refused =>
         \A c \in Conns : ~connected(c)]_vars

\* A coroutine that waits for a result is resumed, with it or with an error:
\* nobody else can have taken it.
EveryCallEnds == \A k \in Calls : call[k] = "waiting" ~> call[k] \in {"done", "failed"}

\* AsyncPostgresql.h:201, "Obtiene una conexion disponible": the connection
\* acquire() hands out is idle, or some call is about to make it so.
AcquiredIsUsable ==
  [][\A u \in Users :
       conn[u] = None /\ conn'[u] \in Conns =>
         \/ ~busy[conn'[u]]
         \/ \E k \in Calls : call[k] = "waiting" /\ ConnOf(k) = conn'[u]]_vars
=============================================================================
