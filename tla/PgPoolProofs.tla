---------------------------- MODULE PgPoolProofs ----------------------------
(***************************************************************************)
(* For any number of connections, users and calls: one call at most waits  *)
(* on a connection, a call is given the result of its own command, a user  *)
(* is refused only when no connection is healthy, and users are spread     *)
(* evenly while nothing goes wrong.                                        *)
(*                                                                         *)
(* The pool itself does not keep users apart.  What does is that libpq     *)
(* refuses a command on a busy connection, and that nobody but the waiting *)
(* call makes it idle again: the inductive invariant says what is on the   *)
(* wire of each connection.                                                *)
(***************************************************************************)
EXTENDS PgPool, Integers, FiniteSetTheorems, TLAPS

USE PgPoolAssumption DEF Conns

\* Connections not tried yet are not open, and nobody has one.
Opened ==
  /\ \A c \in Conns : c >= attempt => health[c] = "none"
  /\ \A u \in Users : conn[u] \in Conns => health[conn[u]] # "none"

\* A call that waits keeps its connection busy.
WaitersBusy ==
  \A k \in Calls : call[k] = "waiting" => ConnOf(k) \in Conns /\ busy[ConnOf(k)]

\* Results on the wire are those of one call that waits for them, or did
\* when the connection was lost.
WireOwned ==
  \A c \in Conns :
    \/ wire[c] = <<>>
    \/ /\ busy[c]
       /\ \E k \in Calls :
            /\ wire[c] = <<k>> /\ ConnOf(k) = c
            /\ call[k] = "waiting" \/ health[c] = "bad"

IInv ==
  /\ TypeOK
  /\ Opened
  /\ WaitersBusy
  /\ OneWaiterPerConnection
  /\ WireOwned
  /\ AnswersAreOwn

\* The connections acquire() looks at are in the pool.
LEMMA CandidateInPool ==
  ASSUME TypeOK, NEW i \in Turns
  PROVE  Candidate(i) \in Conns
<1>1. Len(pool) \in Nat /\ i \in 0..(Len(pool) - 1) /\ next + i \in Nat
  BY DEF TypeOK, Turns
<1>2. (next + i) % Len(pool) \in 0..(Len(pool) - 1)
  BY <1>1
<1>3. ((next + i) % Len(pool)) + 1 \in 1..Len(pool)
  BY <1>1, <1>2
<1> QED BY <1>3 DEF TypeOK, Candidate

LEMMA InitInv == Init => IInv
BY DEF Init, IInv, TypeOK, Opened, WaitersBusy, OneWaiterPerConnection, WireOwned,
       AnswersAreOwn

\* Opening the connections.
LEMMA InitializeInv ==
  ASSUME IInv, Connected \/ ConnectFailed
  PROVE  IInv'
<1>1. CASE Connected
  <2>1. attempt \in Conns /\ health[attempt] = "none"
    BY <1>1 DEF Connected, IInv, TypeOK, Opened
  <2>2. TypeOK'
    <3>1. pool' \in Seq(Conns)
      BY <1>1, <2>1 DEF Connected, IInv, TypeOK
    <3> QED BY <1>1, <2>1, <3>1 DEF Connected, IInv, TypeOK
  <2>3. Opened'
    BY <1>1, <2>1 DEF Connected, IInv, TypeOK, Opened
  <2>4. WireOwned'
    BY <1>1, <2>1 DEF Connected, IInv, TypeOK, WireOwned, ConnOf
  <2> QED
    BY <1>1, <2>2, <2>3, <2>4 DEF Connected, IInv, WaitersBusy,
       OneWaiterPerConnection, AnswersAreOwn, ConnOf
<1>2. CASE ConnectFailed
  <2>1. /\ attempt \in Conns /\ attempt' = attempt + 1 /\ even' = FALSE
        /\ UNCHANGED <<pool, next, health, busy, wire, conn, call, answer>>
    BY <1>2 DEF ConnectFailed, IInv, TypeOK
  <2>2. TypeOK'
    <3>1. attempt' \in 1..(PoolSize + 1)
      BY <2>1
    <3> QED BY <2>1, <3>1 DEF IInv, TypeOK
  <2>3. Opened'
    BY <2>1 DEF IInv, Opened
  <2> QED
    BY <2>1, <2>2, <2>3 DEF IInv, WaitersBusy, OneWaiterPerConnection, WireOwned,
       AnswersAreOwn, ConnOf
<1> QED BY <1>1, <1>2

\* A user is given a connection, or none: its calls have not begun.
LEMMA AcquireInv ==
  ASSUME IInv, NEW u \in Users, Acquire(u) \/ AcquireThrows(u)
  PROVE  IInv'
<1>1. PICK given \in Conns \union {Refused} :
        /\ conn' = [conn EXCEPT ![u] = given]
        /\ given \in Conns => health[given] # "none"
  <2>1. CASE Acquire(u)
    BY <2>1, CandidateInPool DEF Acquire, HealthyTurn, connected, IInv
  <2>2. CASE AcquireThrows(u)
    <3>1. Refused \notin Conns
      OBVIOUS
    <3> QED BY <2>2, <3>1 DEF AcquireThrows
  <2> QED BY <2>1, <2>2
<1>2. conn[u] = None /\ UNCHANGED <<attempt, pool, health, busy, wire, call, answer>>
  BY DEF Acquire, AcquireThrows
<1>3. next' \in Nat /\ even' \in BOOLEAN
  <2>1. next \in Nat /\ Len(pool) \in Nat /\ even \in BOOLEAN
    BY DEF IInv, TypeOK
  <2>2. CASE Acquire(u)
    <3>1. next' \in Nat
      BY <2>1, <2>2 DEF Acquire, Turns
    <3>2. even' \in BOOLEAN
      BY <2>2 DEF Acquire
    <3> QED BY <3>1, <3>2
  <2>3. CASE AcquireThrows(u)
    BY <2>1, <2>3 DEF AcquireThrows
  <2> QED BY <2>2, <2>3
<1>4. TypeOK'
  BY <1>1, <1>2, <1>3 DEF IInv, TypeOK
<1>5. Opened'
  BY <1>1, <1>2 DEF IInv, TypeOK, Opened
<1>6. \A k \in Calls : ConnOf(k) \in Conns => ConnOf(k)' = ConnOf(k)
  BY <1>1, <1>2 DEF IInv, TypeOK, ConnOf
<1>7. WaitersBusy'
  BY <1>2, <1>6 DEF IInv, WaitersBusy
<1>8. OneWaiterPerConnection'
  BY <1>2, <1>6 DEF IInv, WaitersBusy, OneWaiterPerConnection
<1>9. WireOwned'
  BY <1>2, <1>6 DEF IInv, WireOwned
<1> QED BY <1>2, <1>4, <1>5, <1>7, <1>8, <1>9 DEF IInv, AnswersAreOwn

\* Sending needs an idle connection, on which nobody waits.
LEMMA SendInv ==
  ASSUME IInv, NEW k \in Calls, Send(k)
  PROVE  IInv'
<1> DEFINE c == ConnOf(k)
<1>1. c \in Conns /\ ~busy[c] /\ wire[c] = <<>>
  BY DEF Send, Accepts, IInv, WireOwned
<1>2. \A l \in Calls : call[l] = "waiting" => ConnOf(l) # c
  BY <1>1 DEF IInv, WaitersBusy
<1>3. TypeOK'
  <2>1. wire' \in [Conns -> Seq(Calls)]
    <3>1. Append(wire[c], k) \in Seq(Calls)
      BY <1>1 DEF IInv, TypeOK
    <3> QED BY <1>1, <3>1 DEF Send, IInv, TypeOK
  <2>2. busy' \in [Conns -> BOOLEAN]
    BY <1>1 DEF Send, IInv, TypeOK
  <2> QED BY <2>1, <2>2 DEF Send, IInv, TypeOK
<1>4. Opened'
  BY DEF Send, IInv, Opened
<1>5. \A l \in Calls : ConnOf(l)' = ConnOf(l)
  BY DEF Send, ConnOf
<1>6. \A l \in Calls : call'[l] = IF l = k THEN "waiting" ELSE call[l]
  BY DEF Send, IInv, TypeOK
<1>7. WaitersBusy'
  <2>1. busy'[c] /\ \A d \in Conns : busy[d] => busy'[d]
    BY <1>1 DEF Send, IInv, TypeOK
  <2> QED BY <1>1, <1>5, <1>6, <2>1 DEF IInv, WaitersBusy
<1>8. OneWaiterPerConnection'
  BY <1>2, <1>5, <1>6 DEF IInv, OneWaiterPerConnection
<1>9. WireOwned'
  <2>1. wire'[c] = <<k>> /\ busy'[c]
    BY <1>1 DEF Send, IInv, TypeOK
  <2>2. \A d \in Conns : d # c => wire'[d] = wire[d] /\ busy'[d] = busy[d]
    BY <1>1 DEF Send, IInv, TypeOK
  <2>3. health' = health
    BY DEF Send
  <2> QED BY <1>5, <1>6, <2>1, <2>2, <2>3 DEF IInv, WireOwned
<1> QED BY <1>3, <1>4, <1>7, <1>8, <1>9 DEF Send, IInv, AnswersAreOwn

\* What a waiting call takes from the wire is its own result, and the last.
LEMMA TakeFact ==
  ASSUME IInv, NEW k \in Calls, Take(k)
  PROVE  /\ ConnOf(k) \in Conns /\ wire[ConnOf(k)] = <<k>>
         /\ answer' \in [Calls -> Calls \union {None}] /\ AnswersAreOwn'
         /\ \A l \in Calls : call[l] = "waiting" /\ ConnOf(l) = ConnOf(k) => l = k
<1> DEFINE c == ConnOf(k)
<1>1. c \in Conns /\ call[k] = "waiting" /\ health[c] = "ok" /\ wire[c] # <<>>
  BY DEF Take, IInv, WaitersBusy
<1>2. PICK l \in Calls : wire[c] = <<l>> /\ ConnOf(l) = c /\ call[l] = "waiting"
  BY <1>1 DEF IInv, WireOwned
<1>3. l = k
  BY <1>1, <1>2 DEF IInv, OneWaiterPerConnection
<1>4. answer' = [answer EXCEPT ![k] = k]
  BY <1>2, <1>3 DEF Take
<1> QED
  BY <1>1, <1>2, <1>3, <1>4 DEF IInv, TypeOK, OneWaiterPerConnection, AnswersAreOwn

\* A call ends with a result or an error of its command.
LEMMA TakenInv ==
  ASSUME IInv, NEW k \in Calls, Result(k) \/ SqlError(k)
  PROVE  IInv'
<1> DEFINE c == ConnOf(k)
<1>1. Take(k)
  BY DEF Result, SqlError
<1>2. /\ c \in Conns /\ wire[c] = <<k>>
      /\ answer' \in [Calls -> Calls \union {None}] /\ AnswersAreOwn'
      /\ \A l \in Calls : call[l] = "waiting" /\ ConnOf(l) = c => l = k
  BY <1>1, TakeFact
<1>3. /\ wire' = [wire EXCEPT ![c] = <<>>]
      /\ busy' \in [Conns -> BOOLEAN]
      /\ \A d \in Conns : d # c => busy'[d] = busy[d]
      /\ \E end \in {"done", "failed"} : call' = [call EXCEPT ![k] = end]
  <2>1. CASE Result(k)
    BY <1>2, <2>1 DEF Result, IInv, TypeOK
  <2>2. CASE SqlError(k)
    <3>1. Tail(wire[c]) = <<>>
      BY <1>2
    <3> QED BY <2>2, <3>1 DEF SqlError, IInv, TypeOK
  <2> QED BY <2>1, <2>2
<1>4. UNCHANGED <<attempt, pool, next, health, conn, even>>
  BY DEF Result, SqlError
<1>5. \A l \in Calls : ConnOf(l)' = ConnOf(l)
  BY <1>4 DEF ConnOf
<1>6. \A l \in Calls : /\ call'[l] = "waiting" <=> l # k /\ call[l] = "waiting"
                       /\ call'[l] = "waiting" => ConnOf(l) # c
  BY <1>2, <1>3 DEF IInv, TypeOK
<1>7. TypeOK'
  <2>1. wire' \in [Conns -> Seq(Calls)]
    <3>1. <<>> \in Seq(Calls)
      OBVIOUS
    <3> QED BY <1>3, <3>1 DEF IInv, TypeOK
  <2>2. call' \in [Calls -> {"new", "waiting", "done", "failed"}]
    BY <1>3 DEF IInv, TypeOK
  <2> QED BY <1>2, <1>3, <1>4, <2>1, <2>2 DEF IInv, TypeOK
<1>8. Opened'
  BY <1>4 DEF IInv, Opened
<1>9. WaitersBusy' /\ OneWaiterPerConnection'
  BY <1>2, <1>3, <1>5, <1>6 DEF IInv, TypeOK, WaitersBusy, OneWaiterPerConnection
<1>10. WireOwned'
  <2>1. wire'[c] = <<>>
    BY <1>2, <1>3 DEF IInv, TypeOK
  <2>2. \A d \in Conns : d # c => wire'[d] = wire[d] /\ busy'[d] = busy[d]
    BY <1>2, <1>3 DEF IInv, TypeOK
  <2> QED BY <1>4, <1>5, <1>6, <2>1, <2>2 DEF IInv, WireOwned
<1> QED BY <1>2, <1>7, <1>8, <1>9, <1>10 DEF IInv

\* A call is refused before it waits, or its connection is lost under it.
LEMMA LostInv ==
  ASSUME IInv, NEW k \in Calls, SendRefused(k) \/ ConnectionLost(k)
  PROVE  IInv'
<1>1. /\ call' = [call EXCEPT ![k] = "failed"]
      /\ UNCHANGED <<attempt, pool, next, busy, wire, conn, answer, even>>
  BY DEF SendRefused, ConnectionLost
<1>2. /\ ConnOf(k) \in Conns
      /\ \/ health' = health /\ call[k] = "new"
         \/ health' = [health EXCEPT ![ConnOf(k)] = "bad"]
  BY DEF SendRefused, ConnectionLost, IInv, WaitersBusy
<1>3. \A l \in Calls : ConnOf(l)' = ConnOf(l)
  BY <1>1 DEF ConnOf
<1>4. \A l \in Calls : call'[l] = IF l = k THEN "failed" ELSE call[l]
  BY <1>1 DEF IInv, TypeOK
<1>5. TypeOK'
  BY <1>1, <1>2 DEF IInv, TypeOK
<1>6. Opened'
  <2>1. health[ConnOf(k)] # "none"
    BY <1>2 DEF IInv, Opened, ConnOf
  <2>2. \A c \in Conns : health'[c] = "none" <=> health[c] = "none"
    BY <1>2, <2>1 DEF IInv, TypeOK
  <2> QED BY <1>1, <2>2 DEF IInv, Opened
<1>7. WaitersBusy' /\ OneWaiterPerConnection'
  BY <1>1, <1>3, <1>4 DEF IInv, WaitersBusy, OneWaiterPerConnection
<1>8. WireOwned'
  <2> SUFFICES ASSUME NEW c \in Conns, wire[c] # <<>>
               PROVE  \E l \in Calls : /\ wire[c] = <<l>> /\ ConnOf(l) = c
                                       /\ call'[l] = "waiting" \/ health'[c] = "bad"
    BY <1>1, <1>3 DEF IInv, WireOwned
  <2>1. PICK l \in Calls : /\ wire[c] = <<l>> /\ ConnOf(l) = c
                           /\ call[l] = "waiting" \/ health[c] = "bad"
    BY DEF IInv, WireOwned
  <2>2. health[c] = "bad" => health'[c] = "bad"
    BY <1>2 DEF IInv, TypeOK
  <2>3. l = k => health'[c] = "bad"
    BY <1>2, <2>1, <2>2 DEF IInv, TypeOK
  <2> QED BY <1>4, <2>1, <2>2, <2>3
<1> QED BY <1>1, <1>5, <1>6, <1>7, <1>8 DEF IInv, AnswersAreOwn

\* The connection breaks unnoticed.
LEMMA DropInv ==
  ASSUME IInv, NEW c \in Conns, Drop(c)
  PROVE  IInv'
<1>1. /\ health[c] = "ok" /\ health' = [health EXCEPT ![c] = "cut"]
      /\ even' = FALSE
      /\ UNCHANGED <<attempt, pool, next, busy, wire, conn, call, answer>>
  BY DEF Drop
<1>2. \A d \in Conns : /\ health'[d] = "none" <=> health[d] = "none"
                       /\ health'[d] = "bad" <=> health[d] = "bad"
  BY <1>1 DEF IInv, TypeOK
<1>3. TypeOK'
  BY <1>1 DEF IInv, TypeOK
<1>4. Opened' /\ WireOwned'
  BY <1>1, <1>2 DEF IInv, Opened, WireOwned, ConnOf
<1> QED
  BY <1>1, <1>3, <1>4 DEF IInv, WaitersBusy, OneWaiterPerConnection, AnswersAreOwn, ConnOf

LEMMA StepInv == IInv /\ [Next]_vars => IInv'
<1> SUFFICES ASSUME IInv, [Next]_vars PROVE IInv'
  OBVIOUS
<1>1. CASE UNCHANGED vars
  BY <1>1 DEF vars, IInv, TypeOK, Opened, WaitersBusy, OneWaiterPerConnection,
              WireOwned, AnswersAreOwn, ConnOf
<1>2. CASE Quiet
  BY <1>1, <1>2 DEF Quiet
<1> QED
  BY <1>1, <1>2, InitializeInv, AcquireInv, SendInv, TakenInv, LostInv, DropInv DEF Next

\* Every variable keeps its type.
THEOREM TypeCorrect == Spec => []TypeOK
BY InitInv, StepInv, PTL DEF Spec, IInv

\* One call at most waits on a connection.
THEOREM OneWaiter == Spec => []OneWaiterPerConnection
BY InitInv, StepInv, PTL DEF Spec, IInv

\* A call is given the result of its own command.
THEOREM OwnAnswers == Spec => []AnswersAreOwn
BY InitInv, StepInv, PTL DEF Spec, IInv

-----------------------------------------------------------------------------
(* Going round the pool: the turns of acquire() look at every connection   *)
(* of it, wherever next_ is.                                               *)

LEMMA ModOf ==
  ASSUME NEW q \in Nat, NEW L \in Nat \ {0}, NEW k \in 0..(L - 1)
  PROVE  (L * q + k) % L = k
OBVIOUS

LEMMA DivMod ==
  ASSUME NEW n \in Nat, NEW L \in Nat \ {0}
  PROVE  \E q \in Nat, r \in 0..(L - 1) : n = L * q + r
<1>1. n % L \in 0..(L - 1) /\ n \div L \in Nat
  OBVIOUS
<1>2. n = L * (n \div L) + (n % L)
  OBVIOUS
<1> QED BY <1>1, <1>2

LEMMA Turned ==
  ASSUME NEW n \in Nat, NEW L \in Nat \ {0}, NEW k \in 0..(L - 1)
  PROVE  \E i \in 0..(L - 1) : (n + i) % L = k
<1>1. PICK q \in Nat, r \in 0..(L - 1) : n = L * q + r
  BY DivMod
<1>2. CASE r <= k
  <2>1. n + (k - r) = L * q + k
    BY <1>1
  <2>2. (n + (k - r)) % L = k
    BY <2>1, ModOf
  <2>3. k - r \in 0..(L - 1)
    BY <1>2
  <2> QED BY <2>2, <2>3
<1>3. CASE k < r
  <2>1. PICK p \in Nat : p = q + 1
    OBVIOUS
  <2>2. L * p = L * q + L
    BY <2>1
  <2>3. n + (k - r + L) = L * p + k
    BY <1>1, <2>2
  <2>4. (L * p + k) % L = k
    BY ModOf
  <2>5. (n + (k - r + L)) % L = k
    BY <2>3, <2>4
  <2>6. k - r + L \in 0..(L - 1)
    BY <1>3
  <2> QED BY <2>5, <2>6
<1> QED BY <1>2, <1>3

\* Every connection that was opened is in the pool.
Pooled == \A c \in Conns : health[c] # "none" => \E i \in 1..Len(pool) : pool[i] = c

LEMMA PooledIsCandidate ==
  ASSUME TypeOK, NEW i \in 1..Len(pool)
  PROVE  \E turn \in Turns : Candidate(turn) = pool[i]
<1>1. Len(pool) \in Nat \ {0} /\ next \in Nat /\ i - 1 \in 0..(Len(pool) - 1)
  BY DEF TypeOK
<1>2. PICK turn \in 0..(Len(pool) - 1) : (next + turn) % Len(pool) = i - 1
  BY <1>1, Turned
<1>3. Candidate(turn) = pool[i]
  BY <1>1, <1>2 DEF Candidate
<1> QED BY <1>2, <1>3 DEF Turns

LEMMA PooledStep ==
  ASSUME IInv, Pooled, [Next]_vars
  PROVE  Pooled'
<1>1. CASE Connected
  <2>1. attempt \in Conns /\ Len(pool) \in Nat /\ pool \in Seq(Conns)
    BY <1>1 DEF Connected, IInv, TypeOK
  <2>2. /\ Len(pool') = Len(pool) + 1 /\ pool'[Len(pool) + 1] = attempt
        /\ \A i \in 1..Len(pool) : pool'[i] = pool[i]
    BY <1>1, <2>1 DEF Connected
  <2>3. \A c \in Conns : c # attempt => health'[c] = health[c]
    BY <1>1 DEF Connected, IInv, TypeOK
  <2> SUFFICES ASSUME NEW c \in Conns, health'[c] # "none"
               PROVE  \E i \in 1..Len(pool') : pool'[i] = c
    BY DEF Pooled
  <2>4. CASE c = attempt
    BY <2>1, <2>2, <2>4
  <2>5. CASE c # attempt
    <3>1. PICK i \in 1..Len(pool) : pool[i] = c
      BY <2>3, <2>5 DEF Pooled
    <3> QED BY <2>1, <2>2, <3>1
  <2> QED BY <2>4, <2>5
<1>2. ASSUME pool' = pool, \A c \in Conns : health'[c] # "none" => health[c] # "none"
      PROVE  Pooled'
  BY <1>2 DEF Pooled
<1>3. CASE ConnectFailed
  BY <1>2, <1>3 DEF ConnectFailed
<1>4. ASSUME NEW u \in Users, Acquire(u) \/ AcquireThrows(u) PROVE Pooled'
  BY <1>2, <1>4 DEF Acquire, AcquireThrows
<1>5. ASSUME NEW k \in Calls, Send(k) \/ Result(k) \/ SqlError(k) PROVE Pooled'
  BY <1>2, <1>5 DEF Send, Result, SqlError
<1>6. ASSUME NEW k \in Calls, SendRefused(k) \/ ConnectionLost(k) PROVE Pooled'
  <2>1. pool' = pool
    BY <1>6 DEF SendRefused, ConnectionLost
  <2>2. health' = health \/ (health[ConnOf(k)] = "cut" /\ health' = [health EXCEPT ![ConnOf(k)] = "bad"])
    BY <1>6 DEF SendRefused, ConnectionLost
  <2>3. \A c \in Conns : health'[c] # "none" => health[c] # "none"
    BY <2>2 DEF IInv, TypeOK
  <2> QED BY <1>2, <2>1, <2>3
<1>7. ASSUME NEW c \in Conns, Drop(c) PROVE Pooled'
  BY <1>2, <1>7 DEF Drop, IInv, TypeOK
<1>8. CASE Quiet \/ UNCHANGED vars
  BY <1>2, <1>8 DEF Quiet, vars
<1> QED BY <1>1, <1>3, <1>4, <1>5, <1>6, <1>7, <1>8 DEF Next

\* acquire() of AsyncPostgresql.h throws only when no connection is healthy:
\* its turns miss none, whatever next_ is and however the pool has grown.
THEOREM RefusedRightly == Spec => RefusedOnlyWithoutHealthy
<1>1. Init => Pooled
  BY DEF Init, Pooled
<1>2. Spec => [](IInv /\ Pooled)
  BY <1>1, InitInv, StepInv, PooledStep, PTL DEF Spec
<1>3. ASSUME IInv, Pooled, [Next]_vars, NEW u \in Users, conn[u] = None, conn'[u] = Refused,
             NEW c \in Conns
      PROVE  ~connected(c)
  <2>1. Refused \notin Conns /\ Refused # None
    OBVIOUS
  <2>2. PICK v \in Users : AcquireThrows(v)
    <3>1. ASSUME NEW v \in Users, Acquire(v) PROVE FALSE
      <4>1. PICK i \in Turns : conn' = [conn EXCEPT ![v] = Candidate(i)]
        BY <3>1 DEF Acquire
      <4>2. Candidate(i) \in Conns
        BY <1>3, CandidateInPool DEF IInv
      <4> QED BY <1>3, <2>1, <4>1, <4>2 DEF IInv, TypeOK
    <3>2. conn' # conn
      BY <1>3, <2>1
    <3> QED
      BY <1>3, <3>1, <3>2 DEF Next, Connected, ConnectFailed, Send, SendRefused, Result,
         SqlError, ConnectionLost, Drop, Quiet, vars
  <2>3. \A i \in Turns : ~connected(Candidate(i))
    BY <2>2 DEF AcquireThrows, HealthyTurn
  <2> SUFFICES ASSUME connected(c) PROVE FALSE
    OBVIOUS
  <2>4. PICK i \in 1..Len(pool) : pool[i] = c
    BY <1>3 DEF Pooled, connected
  <2>5. PICK turn \in Turns : Candidate(turn) = c
    BY <1>3, <2>4, PooledIsCandidate DEF IInv
  <2> QED BY <2>3, <2>5
<1>4. IInv /\ Pooled /\ [Next]_vars
        => [\A u \in Users :
              conn[u] = None /\ conn'[u] = Refused => \A c \in Conns : ~connected(c)]_vars
  BY <1>3
<1> QED BY <1>2, <1>4, PTL DEF Spec, RefusedOnlyWithoutHealthy

-----------------------------------------------------------------------------
(* Round robin.  As long as every connection opened and none was lost, the *)
(* pool is the connections in their order and next_ the number of users    *)
(* served: the rounds completed, and the place in the one under way.       *)

Rounds(q, r) ==
  /\ next = PoolSize * q + r
  /\ \A c \in Conns : Load(c) = IF c <= r THEN q + 1 ELSE q

Spread ==
  even =>
    /\ Len(pool) = attempt - 1
    /\ \A c \in Conns : /\ c < attempt => pool[c] = c /\ health[c] = "ok"
                        /\ health[c] \in {"none", "ok"}
    /\ attempt <= PoolSize => next = 0
    /\ \E q \in Nat, r \in 0..(PoolSize - 1) : Rounds(q, r)

\* A connection serves one user more when it is given to one that has none.
LEMMA LoadGiven ==
  ASSUME TypeOK, NEW u \in Users, conn[u] = None,
         NEW given \in Conns \union {Refused}, conn' = [conn EXCEPT ![u] = given]
  PROVE  \A c \in Conns : Load(c)' = IF c = given THEN Load(c) + 1 ELSE Load(c)
<1> SUFFICES ASSUME NEW c \in Conns
             PROVE  Load(c)' = IF c = given THEN Load(c) + 1 ELSE Load(c)
  OBVIOUS
<1> DEFINE served == {v \in Users : conn[v] = c}
           after  == {v \in Users : conn'[v] = c}
<1>1. IsFiniteSet(served) /\ u \notin served
  <2>1. u \notin served
    OBVIOUS
  <2> QED BY <2>1, FS_Subset
<1>2. after = IF c = given THEN served \union {u} ELSE served
  BY DEF TypeOK
<1>3. Cardinality(after) = IF c = given THEN Cardinality(served) + 1 ELSE Cardinality(served)
  BY <1>1, <1>2, FS_AddElement
<1> QED BY <1>3 DEF Load

LEMMA LoadKept ==
  ASSUME conn' = conn
  PROVE  \A c : Load(c)' = Load(c)
BY DEF Load

\* The turn that acquire() takes while all connections are healthy.
LEMMA AcquireRound ==
  ASSUME IInv, Spread, NEW u \in Users, Acquire(u), even, attempt > PoolSize
  PROVE  \E q \in Nat, r \in 0..(PoolSize - 1) : Rounds(q, r)'
<1>1. /\ Len(pool) = PoolSize /\ next \in Nat
      /\ \A c \in Conns : pool[c] = c /\ health[c] = "ok"
  BY DEF Spread, IInv, TypeOK
<1>2. PICK q \in Nat, r \in 0..(PoolSize - 1) : Rounds(q, r)
  BY DEF Spread
<1>3. (next + 0) % Len(pool) = r /\ 0 \in Turns
  BY <1>1, <1>2, ModOf DEF Rounds, Turns
<1>4. Candidate(0) = r + 1 /\ HealthyTurn(0)
  BY <1>1, <1>3 DEF Candidate, HealthyTurn, connected
<1>5. conn' = [conn EXCEPT ![u] = r + 1] /\ next' = next + 1
  <2>1. PICK i \in Turns : /\ \A j \in Turns : j < i => ~HealthyTurn(j)
                           /\ conn' = [conn EXCEPT ![u] = Candidate(i)]
                           /\ next' = next + i + 1
    BY DEF Acquire
  <2>2. i = 0
    BY <1>3, <1>4, <2>1 DEF Turns
  <2>3. Candidate(i) = r + 1
    BY <1>4, <2>2
  <2>4. next' = next + 1
    BY <1>1, <2>1, <2>2
  <2> QED BY <2>1, <2>3, <2>4
<1>6. \A c \in Conns : Load(c)' = IF c = r + 1 THEN Load(c) + 1 ELSE Load(c)
  <2>1. PICK given \in Conns : given = r + 1
    OBVIOUS
  <2>2. conn[u] = None /\ conn' = [conn EXCEPT ![u] = given] /\ TypeOK
    BY <1>5, <2>1 DEF IInv, Acquire
  <2> QED BY <2>1, <2>2, LoadGiven
<1>7. CASE r + 1 < PoolSize
  <2>1. next' = PoolSize * q + (r + 1)
    BY <1>1, <1>2, <1>5 DEF Rounds
  <2>2. \A c \in Conns : Load(c)' = IF c <= r + 1 THEN q + 1 ELSE q
    BY <1>2, <1>6 DEF Rounds
  <2>3. Rounds(q, r + 1)'
    BY <2>1, <2>2 DEF Rounds
  <2> QED BY <1>7, <2>3
<1>8. CASE r + 1 = PoolSize
  <2>1. PoolSize * (q + 1) = PoolSize * q + PoolSize
    OBVIOUS
  <2>2. next' = PoolSize * (q + 1) + 0
    BY <1>1, <1>2, <1>5, <1>8, <2>1 DEF Rounds
  <2>3. \A c \in Conns : Load(c)' = IF c <= 0 THEN q + 1 + 1 ELSE q + 1
    BY <1>2, <1>6, <1>8 DEF Rounds
  <2>4. Rounds(q + 1, 0)'
    BY <2>2, <2>3 DEF Rounds
  <2> QED BY <2>4
<1> QED BY <1>7, <1>8

LEMMA SpreadInit == Init => Spread
<1> SUFFICES ASSUME Init PROVE Spread
  OBVIOUS
<1>1. \A c \in Conns : {u \in Users : conn[u] = c} = {}
  BY DEF Init
<1>2. \A c \in Conns : Load(c) = 0
  BY <1>1, FS_EmptySet DEF Load
<1>3. next = PoolSize * 0 + 0
  BY DEF Init
<1>4. Rounds(0, 0)
  BY <1>2, <1>3 DEF Rounds
<1> QED BY <1>4 DEF Init, Spread

LEMMA SpreadStep ==
  ASSUME IInv, Spread, [Next]_vars
  PROVE  Spread'
<1> SUFFICES ASSUME even' PROVE Spread'
  BY DEF Spread
<1>1. ASSUME even, UNCHANGED <<next, conn>>
      PROVE  \E q \in Nat, r \in 0..(PoolSize - 1) : Rounds(q, r)'
  BY <1>1, LoadKept DEF Spread, Rounds
<1>2. CASE Connected
  <2>1. /\ attempt \in Conns /\ Len(pool) \in Nat /\ pool \in Seq(Conns)
        /\ even /\ UNCHANGED <<next, conn>> /\ attempt' = attempt + 1
    BY <1>2 DEF Connected, IInv, TypeOK
  <2>2. Len(pool) = attempt - 1 /\ next = 0
    BY <1>2, <2>1 DEF Spread, Connected
  <2>3. /\ Len(pool') = attempt /\ pool'[attempt] = attempt
        /\ \A i \in 1..(attempt - 1) : pool'[i] = pool[i]
    BY <1>2, <2>1, <2>2 DEF Connected
  <2>4. \A c \in Conns : health'[c] = IF c = attempt THEN "ok" ELSE health[c]
    BY <1>2, <2>1 DEF Connected, IInv, TypeOK
  <2>5. \A c \in Conns : /\ c < attempt' => pool'[c] = c /\ health'[c] = "ok"
                         /\ health'[c] \in {"none", "ok"}
    BY <2>1, <2>3, <2>4 DEF Spread
  <2> QED BY <1>1, <2>1, <2>2, <2>3, <2>5 DEF Spread
<1>3. ASSUME even, UNCHANGED <<attempt, pool, next, health, conn>> PROVE Spread'
  BY <1>1, <1>3 DEF Spread
<1>4. ~ConnectFailed /\ \A c \in Conns : ~Drop(c)
  BY DEF ConnectFailed, Drop
<1>5. ASSUME NEW u \in Users, Acquire(u) PROVE Spread'
  <2>1. even /\ attempt > PoolSize /\ UNCHANGED <<attempt, pool, health>>
    BY <1>5 DEF Acquire
  <2>2. \E q \in Nat, r \in 0..(PoolSize - 1) : Rounds(q, r)'
    BY <1>5, <2>1, AcquireRound
  <2>3. ~(attempt' <= PoolSize)
    BY <2>1 DEF IInv, TypeOK
  <2> QED BY <2>1, <2>2, <2>3 DEF Spread
<1>6. ASSUME NEW u \in Users, AcquireThrows(u) PROVE Spread'
  \* The pool is still empty.
  <2>1. /\ even /\ UNCHANGED <<attempt, pool, health>>
        /\ conn[u] = None /\ conn' = [conn EXCEPT ![u] = Refused] /\ next' = next + Len(pool)
    BY <1>6 DEF AcquireThrows
  <2>2. Len(pool) = 0
    <3> SUFFICES ASSUME Len(pool) # 0 PROVE FALSE
      OBVIOUS
    <3>1. 1 \in 1..Len(pool) /\ 1 \in Conns /\ 1 < attempt
      BY <2>1 DEF Spread, IInv, TypeOK
    <3>2. connected(pool[1])
      BY <2>1, <3>1 DEF Spread, connected
    <3>3. \E turn \in Turns : Candidate(turn) = pool[1]
      BY <3>1, PooledIsCandidate DEF IInv
    <3> QED BY <1>6, <3>2, <3>3 DEF AcquireThrows, HealthyTurn
  <2>3. next' = next /\ \A c \in Conns : Load(c)' = Load(c)
    <3>1. Refused \notin Conns
      OBVIOUS
    <3>2. \A c \in Conns : Load(c)' = IF c = Refused THEN Load(c) + 1 ELSE Load(c)
      BY <2>1, LoadGiven DEF IInv
    <3> QED BY <2>1, <2>2, <3>1, <3>2 DEF IInv, TypeOK
  <2>4. \E q \in Nat, r \in 0..(PoolSize - 1) : Rounds(q, r)'
    BY <2>1, <2>3 DEF Spread, Rounds
  <2> QED BY <2>1, <2>3, <2>4 DEF Spread
<1>7. ASSUME NEW k \in Calls, Send(k) \/ Result(k) \/ SqlError(k) PROVE Spread'
  BY <1>3, <1>7 DEF Send, Result, SqlError
<1>8. ASSUME NEW k \in Calls, SendRefused(k) \/ ConnectionLost(k) PROVE Spread'
  <2>1. even /\ UNCHANGED <<attempt, pool, next, conn>> /\ ConnOf(k) \in Conns
    BY <1>8 DEF SendRefused, ConnectionLost, IInv, WaitersBusy
  <2>2. health[ConnOf(k)] # "cut"
    BY <2>1 DEF Spread
  <2>3. health' = health
    BY <1>8, <2>2 DEF SendRefused, ConnectionLost
  <2> QED BY <1>3, <2>1, <2>3
<1>9. CASE Quiet \/ UNCHANGED vars
  BY <1>3, <1>9 DEF Quiet, vars
<1> QED BY <1>2, <1>4, <1>5, <1>6, <1>7, <1>8, <1>9 DEF Next

\* AsyncPostgresql.h:201, "round-robin simple": while nothing goes wrong no
\* connection serves two users more than another.
THEOREM SpreadEvenly == Spec => []EvenlySpread
<1>1. Spread => EvenlySpread
  <2> SUFFICES ASSUME Spread, even, NEW c \in Conns, NEW d \in Conns
               PROVE  Load(c) <= Load(d) + 1
    BY DEF EvenlySpread
  <2>1. PICK q \in Nat, r \in 0..(PoolSize - 1) : Rounds(q, r)
    BY DEF Spread
  <2> QED BY <2>1 DEF Rounds
<1> QED BY <1>1, InitInv, StepInv, SpreadInit, SpreadStep, PTL DEF Spec
=============================================================================
