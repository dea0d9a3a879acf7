# AMI-DLMS-Manager: specifications, model checks and proofs

AMI-DLMS-Manager is a head-end for electricity meters. It accepts TCP
connections from data concentrators (DCU, port 8877) and meters (port 4059),
dials others, keeps one session for each device, takes commands for the meters
behind a concentrator from PostgreSQL, runs them as DLMS/COSEM dialogues inside
Q/GDW frames, and stores the values. Everything runs in one `io_context` on one
thread: callbacks and C++20 coroutines interleave only where they wait.

The specifications follow the code as it is. Where the code and one of its own
comments disagree, a run shows the disagreement (see *What the runs show*).

## 1. Inventory

| Component | Source | State | Operations | Talks to |
|---|---|---|---|---|
| Server | `Server.cpp`, `Server.h` | `sessions_by_endpoint_`, `sessions_by_meter_` (weak pointers), acceptor, cleanup timer | `do_accept`, `add_outgoing_connection`, identification callback, `cleanup_sessions` | sessions (`start`, `Close`, callback), connector |
| Session lifetime | `Session.cpp` 23–210, 3629–3684 | socket, `m_concentrator`/`m_codigomedidor`, the coroutines and the timer that hold the object | `start`, `InitStart`, `do_read_async`, `GetParamsFromIP_coro`, `Close` | server, database |
| DCU dialogue | `Session.cpp` 833–1330, 1350–1570, 1790–3777 | `m_inprogress`, `m_dlmsstate`, `m_initialization`, `m_numperfil`, `m_idcomando`, `m_loop`, `m_reply`, `m_indexiv`, `m_instantaneousvalues`, the fields of the row polled last | poll, SNRM/AARQ/AARE, `ProcessComand`, profile and instantaneous answers, saves, error frames, heartbeats | database connection, concentrator |
| Read path | `Session.cpp` 196–210, 833–1303 | the buffer of a read, what `Qgdw` keeps of the last frame | `do_read_async`, `onRawDataAsync` | framing, dialogue |
| Saved rows | `Session.cpp` 1790–2180 | `m_modereadprofile`, `m_rowid`, `m_relecturas`, columns, scales | `SaveDataFromProfile_Core`, `SavedataFromProfileAuto_Core`, `UpdateCommandState` | database connection |
| Meter dialogue | `Session.cpp` 133–150, 1332–1348 | the same fields | SNRM after the parameters | meter |
| PostgreSQL connection and pool | `AsyncPostgresql.h` | `pool_`, `next_`, libpq's state of each connection | `connect`, `execute_query`, `execute_non_query`, `initialize`, `acquire` | every session |
| DeviceConnector | `device_connector.cpp`, `main.cpp` 177–193 | that of each scan; none between scans | scan every 60 s, three attempts for each row | database, server |
| Q/GDW framing | `Qgdw.cpp`, `funciones.cpp` 563–595 | sequence number, `m_frametype`, `m_typeframe` | `PacketFrame2`, `HBFrame`, `DecodeFrame`, `ParseEvents` | DCU dialogue |
| Rest | `AsyncOracle.h`, `SessionFactory.h`, `AsyncDatabase.h`, `funciones.cpp`, `mapsconf.h`, `onRawData` | – | unused, or data and I/O only | – |

**What is hard here.**

- *Interleaving and late answers.* Two maps of weak pointers are updated by
  accepts, dials, heartbeats and database answers, in any order; a coroutine
  that has waited applies its result to a session that may have been closed or
  replaced.
- *A shared, non-queueing resource.* All sessions share five connections, each
  of which refuses a second command while one is under way; many calls are
  launched and forgotten.
- *Two activities, one set of fields.* The poll and the read loop of a session
  share the command's fields, and an answer is interpreted by `m_dlmsstate`
  alone.
- *Failure.* An exception in a handler may close a session, leave a connection
  busy, leave a command in progress, or end the process. Nothing times out.
- *State that outlives its frame.* A read of the socket is taken for a frame,
  and `DecodeFrame` keeps parts of what it found in one frame for the next.

`PROJECT.json` lists each hazard at its line with the properties that watch it.

**What makes each component correct.** *Server*: the maps name every open
session; one session for each endpoint and device; closed sessions go.
*Pool*: a coroutine gets the result of its own command and is resumed; users
are spread evenly; a refusal means that there was nothing to give. *DCU
session*: a command is saved no more often than it was handed out, under its own
id, with its own meter's values; it ends. *Saved rows*: every value has the
place and the scale of its column. *Read path*: no frame undoes what another
one is about. *Framing*: decoding inverts packing, and two concentrators have
two codes. *DeviceConnector*: a scan reaches every row, ends, and keeps what it
dialled.

## 2. Modules

| Module | Models | Extends / uses |
|---|---|---|
| `DeviceRegistry` | the promise of the server: a set of links that open, are claimed by a device, or go | – |
| `Server` | server and session lifetime, on either port | INSTANCE `DeviceRegistry` |
| `ServerProofs` | proofs about `Server` | `Server`, TLAPS |
| `PgPool` | the pool and its connections | – |
| `PgPoolProofs` | proofs about `PgPool` | `PgPool`, TLAPS |
| `DcuSession` | one session with a concentrator | – |
| `DcuSessionProofs` | proofs about `DcuSession` | `DcuSession`, TLAPS |
| `Connector` | the scans that dial out, composed with the server | `Server` |
| `ConnectorProofs` | proofs about `Connector` | `Connector`, `ServerProofs` |
| `Framing` | lengths, addresses, kinds of frame, events, as operators | – |
| `FramingProofs` | proofs about `Framing` | `Framing`, TLAPS |
| `ProfileStore` | what is saved of the rows of a profile, as operators | – |
| `ProfileStoreProofs` | proofs about `ProfileStore` | `ProfileStore`, TLAPS |
| `ReadPath` | socket, frames, handler and saved rows together | `Framing`, `ProfileStore` |
| `ReadPathProofs` | proofs about `ReadPath` | `ReadPath`, `FramingProofs`, `ProfileStoreProofs` |
| `MCServer`, `MCPgPool`, `MCDcuSession`, `MCReadPath`, `MCConnector` | instances for TLC | the module named |

`PROJECT.json` maps every definition to the lines it stands for. Definitions
under a *Fault* comment are faulty variants of the definition that follows them
(a dropped guard, a missing reset). No specification uses them: each is put in
the place of the sound one to see that a property really depends on the code
it is about.

### Server

A session is a number, given in the order of connection. `loop`, `asking` and
`timer` say which coroutine or handler holds the object; `Alive` is their
disjunction, and `Lock` is `weak_ptr::lock()`. One action is one handler, or
the piece of a coroutine between two waits. `Close` only closes the socket;
`ReadAborted` is the read loop noticing it later. `loop = "frame"` separates
the arrival of bytes from the handler that runs later, since a session may be
closed in between. The detached writes and status updates also hold the
session, for a bounded time; they are left out.

A dialled connection has an ephemeral local port, so that `InitStart` asks for
no parameters; its heartbeat identifies it. Only the server on 8877 gets such
connections (`main.cpp` 177).

### PgPool

A connection is healthy as far as `PQstatus` knows (`ok`, `cut`) or not (`none`,
`bad`); `busy` is libpq's asyncStatus, `wire` the results the server still owes.
libpq itself is external: `Accepts` (what `PQsendQuery` takes) and `Drop` (the
connection breaks) are modelled from how the code uses them. `conn` is `conn_`
of a session: given once, never returned. A call is one `execute_query` or
`execute_non_query`; several of one user may run at a time, as detached
coroutines do. `even` is a history variable for `EvenlySpread`.

### DcuSession

The connection (`db`) is seen from one session: idle, in a poll, in one of the
session's detached calls, in an awaited call of the read loop, used by others,
or stuck. The rest are the session's fields. Some points where the model
decides something the reader may want to check:

- *Detached calls.* Of several `execute_sql` of one handler, the first is sent
  if the connection is idle and the others are refused: `Issue`. So the
  statuses 1, 2 and 3 of a command, sent right after another call, are mostly
  lost; the model does not keep them. A save that is refused (`Save`) is lost
  as well, and the command ends as if it had been sent.
- *Frames.* That a frame is what the socket delivers, and which of the error
  branches it leads to, is `ReadPath`'s: here an error frame stands for all that
  free the session. A frame is the request it answers. The concentrator answers a
  request at most once and late or never; equal requests in flight are one.
  `kind = "none"` is a frame that `GetData` refuses: the handler then runs with
  an empty `m_reply`.
- *Row fields.* `m_typecommand`, `m_accion`, `m_codigomedidor`,
  `m_OBISobjects`, `m_relecturas`, `m_subtipo` are always replaced together, by
  the poll; `polled` stands for them all.
- *Writes* are not waited for. A failed write looks like a lost answer.
- *Undefined behaviour.* `m_numperfil` is one of three classes, which the code
  tells apart: 0 (columns compared), positive (scales asked for) and negative
  (neither). It starts with any of them.
  Reading `m_OBISobjects[m_indexiv]` past the end either yields some object or
  ends the process (`Crash`). `pop_back` on an empty text (automatic save
  without rows) saves nothing.
- *Automatic rows.* A row may have the id 0 (`Automatic`). It is run like any
  other, but `m_idcomando` stays 0 (`None`, see `IdOf`): error frames are
  ignored, no status is told, the rows are saved by
  `SavedataFromProfileAuto_Core`, and they count under no id.
- *Order of a detached call and an awaited one.* In `OtherProfile` the code
  launches `actualizarestadocomando` and awaits `CambiarPerfilxError` in the
  same handler; both orders of their start are allowed.
- Commands 100–115 (RF) cannot be reached: the table of codes ends at 49 (C12,
  which no case of `ProcessComand` handles), and an unknown code is read as 0,
  which is C01.

### Connector

A scan is one `do_check_and_connect_async`, numbered in the order in which they
are spawned; `at` says what it waits for. `GoTo` is the part of the loop between
two waits, so blank rows and a port that `stoi` refuses take no step. `Connected`
is the server's action (`AddOutgoing` or `AddOutgoingNoDatabase`) with the next
row of the scan, and `ServerStep` is everything else a server does. The first
scan never gets a connection: `main` spawns it together with the pool's
`initialize`, before `run()`, so `acquire()` finds the pool empty
(`ScanWithoutPool`). The timer has no period in the model; a scan starts at any
moment, before or after the last one ended.

### Framing

Numbers are bytes, a concentrator's code is the sequence of its digits, and of
what a frame carries only its size and the bytes `DecodeFrame` looks at are kept.
`LengthField` is the way of `HeaderFrame` through bits and a hexadecimal text;
`LengthOf` is the way back in `DecodeFrame`. `MeterFrame` and `MacroFrame` count
the parts `PacketFrame2` puts together, with as many bytes for a length as
`IntToHex` makes of it; they are for requests of `MinRequest` (6, below which the
code throws) bytes and more. `ParseEvents` gives the events of the phases the code
of an unknown one, as the source does: its condition (`Qgdw.cpp` 1223) asks one
byte for two values, so that the codes its comments name (1229–1254) are never
stored. That can be read off the line, and no run is spent on it. `DecodeFrame` takes and returns the two
fields it keeps between frames.

### ProfileStore

A value is the cell it was made from and the scale it was multiplied with.
`Convert` runs the loops of the code, `CellOfRows` (`m_modereadprofile` 1) and
`CellOfBuffer` (0), with the error flag and the value made last as the code
carries them along. `AfterRows` and `AfterCells` are the loops: recursive
functions from the number of rounds to the state after them. `MeasuredRows` says,
without loops, what should come out: the rows that lack no scale, numbered by
`Place`. Mode 1 refuses every column beyond the scales, mode 0 only values: a
second clock column there needs no scale (`Lacking`).
`m_relecturas` is 0 (an answer for the user), 1 (readings) or any other number,
which adds no row to the batch and sends it all the same (`Launched`).
Both branches that port 8877 uses (`m_typeclcosem` 6) are there, those of Itron
meters are not. `Readable` names the profiles for which the loops stay inside
their vectors: the clock is the first column, and a row has as many cells as the
loop visits. `Delivered` is the connection: of the calls of one handler the
first is sent when nothing is under way, the others are refused.

### ReadPath

`stream` is what the socket holds: frames, or the rest of one. `ReadFrame` reads
one, `ReadPart` the first part of one (whose rest is then read as a frame of
an unknown kind, whose control byte is none of those `DecodeFrame` knows, or
ignored, since it may begin with 0D), `ReadTwo` two at once. The length of a
request, the address in a heartbeat and the bytes of an event are chosen when
they are sent or handled. Assumptions about the concentrator: it answers a request
at most once, with user data, that the meter is off line, or that it refuses; it
does not confirm (AFN 00) or answer RF commands, which are not sent.

Every DLMS frame goes one of two ways. `Block`: the answer goes on
(`IsMoreData`), or `GetData` refuses a frame between two blocks; `m_loop` is set,
the next block is asked for, and no handler runs. Otherwise the handler of
`m_dlmsstate` runs, with what `m_reply` holds (`taken`) or, as for a part of an
answer, with nothing. `Dialogue` is the association in one state (1), since
`DcuSession` has its steps. State 20 has all its ways out: `NoProfile` (-4 and -5),
`OtherProfile` (-2) and `AskRows`; so a part of the columns drops the command, as
it does in the code. So has state 21: `SaveRowsOf` ends the command, whatever
becomes of the calls; `RowFails` is a row that cannot be converted, which in mode 0
leaves the command and the state as they were (`SaveDataFromProfile_co` is false).
The profile is the first one (`m_numperfil` 0), which needs no scales, so that the
rows are saved in the handler that took them. `answered` and `report` are history
variables: `report` keeps what the last step sent, to the concentrator and to the
database, and what it was made from.

## 3. What the runs show

| Run | Instance | Properties | Distinct states |
|---|---|---|---|
| `MCServer_safety` | 8877, 3 connections, 2 endpoints, 2 devices | `TypeOK` `OpenIsRead` `EndpointOwned` `DeviceOwned` `OneSessionPerEndpoint` `OneSessionPerDevice` `RegistrySpec` `ClosedOnlyByTakeover` | 225,818 |
| `MCServer_meters` | 4059, 2 connections | `ClosedSessionsCleaned` | 3,266 |
| `MCPgPool_safety` | 2 connections, 3 users, 4 calls | `TypeOK` `AnswersAreOwn` `OneWaiterPerConnection` `EvenlySpread` `RefusedOnlyWithoutHealthy` `EveryCallEnds` | 23,113 |
| `MCDcuSession_mixed` | 6 rows (C01 of two objects, C01 of one for the macro, scaled C02, C03, one that sends nothing, an automatic C02), 3 hand-outs, errors, other users | `TypeOK` `OneSavePerHandout` `DeadSessionTakesOne` `OnlyErrorsRelease` | 2,006,265 |
| `MCDcuSession_profiles` | 2 profiles, an automatic one and events (C09), 4 hand-outs, no error frames, other users | `SavedUnderOwnRow` `CommandKept` | 51,542 |
| `MCReadPath_frames` | 4 frames of 7 kinds, all readable profiles of up to 2 rows of 2–4 cells, with a second clock too, `m_relecturas` 0–2, 4 addresses, 3 lengths | `TypeOK` `RowsAsMeasured` `StatusWithoutRows` `CodesDistinct` `RepliesReachSender` `SizesTold` `AnswerProtects` `AnswersReachHandler` | 72,467 |
| `MCConnector_scans` | 3 scans, 2 tables with a blank row and a bad port, 3 attempts, 2 connections | `ConnectorTypeOK` `ScanCovers` `OneSessionPerEndpoint` `ScanKeepsItsOwn` `ScanEnds` | 268,380 |

`RegistrySpec` is refinement: the open sockets of `Server`, mapped to links,
implement `DeviceRegistry`. No deadlock is excluded from checking: a process
that has exited (`Exited`, `Gone`) and a pool with nothing left to do (`Quiet`)
stutter explicitly. (So does a closed session in `ReadPath`, `Closed`.)

`ClosedOnlyByTakeover` says when `Close()` may reach a session that works. One of
its cases is odd, and was found while it was stated: a session that a heartbeat
has identified while its parameter query ran finds *itself* in the device's
entry when the query answers, and closes itself (`Server.cpp` 93–98). No comment
says otherwise, so it is a case of the property and not a finding.

`AnswerProtects` starts with the first answer of the command's meter. Before it,
`m_typeframe` may still be what a frame of the command before left, and a frame
with nothing in it drops the new command with the status of the old one. Nor
does it say that an answer protects the command from answers: in states 20 and
21 an answer, and a part of one, may end it, with -4 or without rows. What the
property excludes is that anything else does. `AnswersReachHandler` is the other
side: an answer, or a part of one, that is read in these states is taken for the
columns, the rows or a block of them, and never for a heartbeat or an event.

`RowsAsMeasured` is stated for readings. An answer for the user
(`m_relecturas` 0) carries only separators, since `res` is cleared before it is
added to `restotal` (`Session.cpp` 1857 and 2037); `AnswerRows` models that.
`StatusWithoutRows` is what becomes of `UpdateCommandState(-2)` after a batch:
the connection is busy with the batch, so it never arrives, also when the batch
was empty.

`SavedUnderOwnRow` and `CommandKept` hold for profiles and events, of commands and
automatic ones, from a concentrator
that reports no error, because `m_inprogress` stays set throughout. They do not
hold with C01, whose `ProcessComand` clears it before the first answer, so that
the poll replaces `m_idcomando` in the middle of the reading, nor after an
error frame, which clears it with answers still under way. That is why
these two have an instance of their own, and their theorems the hypothesis
`ProfilesOnly`, which names the instances for which they hold.

**Disagreements between the code and its comments**, one run each:

| Run | The comment | What happens |
|---|---|---|
| `MCServer_accept` | `Server.cpp:116` the next connection is accepted whether or not the last succeeded | a connection before the pool is ready, or a peer gone at once, ends the process |
| `MCServer_leak` | `Server.cpp:127` inactive sessions are cleaned | the poll timer holds a closed concentrator session for ever |
| `MCPgPool_wedged` | `AsyncPostgresql.h:201` a connection that is available | after an SQL error the connection refuses every command and is still handed out |
| `MCDcuSession_instants` | `Session.cpp:3082` all the objects were asked for | values of the command before are saved for the next meter |
| `MCDcuSession_blank` | `Session.cpp:3088` save the datum | the reply is cleared before its value is taken |

### Bounds

- `MaxSessions`: three connections are what it takes for one session to be
  replaced, its replacement to be replaced, and a late answer to come for the
  first; the other runs use two, enough for a session to be closed by another
  and for both entries to be stale.
- `PoolSize`, users, calls: two connections make `next_` wrap, three users make
  two share one, two calls of one user make a session refuse itself.
- `MaxHandouts` bounds the rows the database hands out altogether. Three let a
  row replace a row that replaced another; the profile run has four. Frames
  need no bound: equal requests in flight are one.
- `MaxFrames`: four frames are enough for a report, an answer before the rows, a
  frame that leaves `m_typeframe` or `m_frametype` behind, and one that meets it;
  the stream holds two, the most a read is taken to hold. Two rows of two to
  four cells with one to three scales give rows that fit, that do not, and one of
  each in either order. `RowsConverted` covers any number of rows, columns and
  scales.
- `Addresses` has two of the form the comments of `Qgdw.cpp` show, byte 10 = 0
  and byte 9 of one character and of two (`Reachable`), and two of another, with
  the same digits in other places; `Lengths` makes a header of one byte, of two,
  and the longest request whose inner length has one byte. The theorems of
  `FramingProofs` and `ReadPathProofs` cover every address and the lengths 6 to
  226 (`MinRequest`, `MaxMeterRequest`), which the requests of the code (SNRM,
  AARQ, GET) do not leave.
- `MaxScans`: the first scan only shows the empty pool; the second and the third
  overlap. Two connections let one scan close what the other dialled. Devices
  are left out there: they have their run in `MCServer_safety`, and the theorems
  of `ConnectorProofs` have them with any number of scans.
- Two objects are the least for which an instantaneous reading has a first and
  a last, and a reading of one after it meets an `m_indexiv` past its end;
  `Perfil` has the three classes that the code tells apart, and none.

### Fairness

`Server!Fairness`: the `io_context` runs every ready handler, a parameter query
ends (PostgreSQL answers or the call fails), the handler's database call ends,
and the cleanup timer fires. Peers owe nothing: neither sending nor closing is
fair. `PgPool!Fairness`: a command that was sent is answered, or its connection
is lost. `ConnectorFairSpec`: what a scan waits for (a query, the resolver, a
connection) ends one way or the other, and the timer fires; nothing is assumed
of which way it ends. `DcuSession` and `ReadPath` have no liveness properties:
the concentrator owes nothing, and since no timeout ends a command
(`m_timecommand` is written and never read), one lost answer stops the session.

## 4. What is proved

TLAPS checks these for every value of the constants, under the `ASSUME` of each
module (which TLC evaluates in every run).

| Theorem | Statement |
|---|---|
| `ServerProofs!TypeCorrect` | `Spec => []TypeOK` |
| `ServerProofs!EndpointsOwned` | `Spec => []EndpointOwned` |
| `ServerProofs!EndpointUnique` | `Spec => []OneSessionPerEndpoint` |
| `ServerProofs!DeviceUnique` | `Spec => []OneSessionPerDevice` |
| `ServerProofs!OpenSessionsRead` | `Spec => []OpenIsRead` |
| `ServerProofs!DevicesOwned` | `Spec => []DeviceOwned` |
| `ServerProofs!NoBystanderClosed` | `Spec => ClosedOnlyByTakeover` |
| `ServerProofs!ImplementsRegistry` | `Spec => RegistrySpec`, refinement of `DeviceRegistry` |
| `ConnectorProofs!ConnectorTypes` | `ConnectorSpec => []ConnectorTypeOK` |
| `ConnectorProofs!ScansCover` | `ConnectorSpec => []ScanCovers` |
| `ConnectorProofs!DialledEndpointUnique` | `ConnectorSpec => []OneSessionPerEndpoint` |
| `ConnectorProofs!DialledDeviceUnique` | `ConnectorSpec => []OneSessionPerDevice` |
| `ConnectorProofs!DialsImplementRegistry` | `ConnectorSpec => RegistrySpec` |
| `ConnectorProofs!ScansKeepTheirOwn` | `ConnectorSpec => ScanKeepsItsOwn` |
| `FramingProofs!HeaderTellsLength` | the header tells every length below 2^14 |
| `FramingProofs!RequestSizes` | a request of 6 to 226 bytes tells its sizes (from `MeterSizes`, `MacroSizes`) |
| `FramingProofs!AddressRoundTrip` | the address of a code is the one it was made from, byte 9 below 100 |
| `FramingProofs!HeartbeatsAnswered` | the answer to a heartbeat has the address of its sender, byte 10 = 0, byte 9 below 100 |
| `FramingProofs!CodeInjective` | no two addresses have the same code, whatever their bytes |
| `ProfileStoreProofs!RowsConverted` | `Convert(p).kept = MeasuredRows(p)` for every readable profile |
| `ProfileStoreProofs!SoundRowsKept` | `Convert(p).kept` has every row without a missing scale, as measured, at its place |
| `ReadPathProofs!TypeCorrect` | `Spec => []TypeOK` |
| `ReadPathProofs!AnsweredCommandKept` | `Spec => AnswerProtects` |
| `ReadPathProofs!AnswersHandled` | `Spec => AnswersReachHandler` |
| `ReadPathProofs!RequestsTellSize` | `Spec => []SizesTold` |
| `ReadPathProofs!RepliesNameSender` | `Spec => []RepliesReachSender` |
| `ReadPathProofs!CodesApart` | `Spec => []CodesDistinct` |
| `ReadPathProofs!ReadingsAsMeasured` | `Spec => []RowsAsMeasured` |
| `ReadPathProofs!StatusNeverAfterRows` | `Spec => []StatusWithoutRows` |
| `PgPoolProofs!TypeCorrect` | `Spec => []TypeOK` |
| `PgPoolProofs!OneWaiter` | `Spec => []OneWaiterPerConnection` |
| `PgPoolProofs!OwnAnswers` | `Spec => []AnswersAreOwn` |
| `PgPoolProofs!RefusedRightly` | `Spec => RefusedOnlyWithoutHealthy` |
| `PgPoolProofs!SpreadEvenly` | `Spec => []EvenlySpread` |
| `DcuSessionProofs!TypeCorrect` | `Spec => []TypeOK` |
| `DcuSessionProofs!SavedOncePerHandout` | `Spec => []OneSavePerHandout` |
| `DcuSessionProofs!DeadSessionBounded` | `Spec => []DeadSessionTakesOne` |
| `DcuSessionProofs!ReleasedByErrors` | `Spec => OnlyErrorsRelease` |
| `DcuSessionProofs!ProfileKept` | `ProfilesOnly` implies `Spec => CommandKept` |
| `DcuSessionProofs!ProfileUnderOwnRow` | `ProfilesOnly` implies `Spec => []SavedUnderOwnRow` |

**Server.** Uniqueness is not inductive: that the new session closes the old
one depends on the map still naming it and on its weak pointer still locking.
The invariant adds both: `EndpointOwned` and `DeviceOwned` (the maps name every
open session) and `OpenIsRead` (an open socket has its read loop, so the
pointer locks, and the cleanup keeps the entry).

`NoBystanderClosed` rests on `Entries`: an entry of the endpoint map names a
session of that endpoint, so that what a new connection closes had its endpoint.

`ImplementsRegistry` maps each step of the server to one of the registry under the
same invariant: an accepted or dialled connection is `Open`, which takes the
links of its endpoint away because `EndpointOwned` says that the entry names
them; an identification is a claim; a socket that ends is a link that goes; all
else leaves the links alone.

**Connector.** A step of a scan leaves the server alone or is one of its steps, by
the way `Connector` is put together, once the endpoint it dials is known to be one,
which is the scan's type invariant (`ServerUnderScans`). This is no result of its
own: it carries over what is proved of `Server`, its refinement of `DeviceRegistry`
included. `ScansKeepTheirOwn` needs more: what a scan dialled has the endpoint of a
row before the one it is at (`DialledBefore`), the map's entry for an endpoint
names only sessions of that endpoint (`Entries`), and no endpoint comes twice in
the table (`Distinct`).

**Framing.** Lengths and addresses are split into bytes or digits by `\div` and `%`
and put together again; the lemmas state each conversion for one byte and for
two, and the theorems combine them. That a code is unambiguous although its
numbers have one to three characters (`CodeInjective`) is an argument about
zeros: where one code's first number is a character longer, its second zero
stands where the other code has the first of three digits, which is not a zero.

**ReadPath.** `AnswerProtects` is strengthened to `AnsweredIsKnown`: an answered
command has left `m_typeframe` at 5, and whatever changes it from there drops the
command itself; besides, only a DLMS frame can drop it, which is an answer or a
part of one (`OnlyAnswersDlms`). `AnswersHandled` needs what `DecodeFrame` makes of
an answer (`Decoding`), and that every way out of states 20 and 21 leaves the state,
sets `m_loop` or saves. What is sent is described by `Reported`, from which the
facts of `FramingProofs` give the three about what is sent.

`ReadingsAsMeasured` and `StatusNeverAfterRows` follow from one invariant,
`Right`: the last step had no database call answered for, or one, and that one was
the first its handler launched. The first call of a save with a command is the
batch or the answer, never the status; the first of a save without one is the
first row, of which `Begins` is true. What the rows are is `RowsConverted`'s.

**ProfileStore.** That the loops keep `MeasuredRows` is an induction over rows, with
one over the cells of a row inside. The library's induction theorems take an
operator as a parameter and cannot be used; `Induction` states the principle
for a *set* of numbers instead, and follows from the well-foundedness of `<`,
which the library states for relations. `CellsRun` and `RowsRun` show in the same
way that the recursive functions exist and have the values their definitions
give them. The invariants are `Sofar` (after n cells, either all have
been put as measured or the loop stopped at one that lacks its scale) and
`Sorted` (after n rows, the sound ones among them, in their places). The flag
decides, and `SoundRowFits` is the point where it could go wrong: a flag that one
row left must not keep the next one out.

**PgPool.** The pool does not keep users apart; libpq's refusal does. The
invariant says that a waiting call keeps its connection busy (`WaitersBusy`)
and that the results on a wire are those of the one call that waits for them,
or waited when the connection was lost (`WireOwned`). `Opened` is needed since
a connection that `initialize()` is about to open must not be one in use.

`RefusedRightly` needs `Pooled`: a connection that opened stays in the pool, so that
`Turned` (the turns, added to `next_` modulo the size of the pool, give every
index) lets `acquire()` see it. `SpreadEvenly` needs that `next_` is the number of
users served (`Rounds`): the rounds completed and the place in the one under
way. It counts users, which `PgPoolAssumption` takes to be finite.

**DcuSession.** `TypeCorrect` is not inductive by itself: handlers use the fields of
the row polled last, and `Types` adds that the dialogue leaves `m_dlmsstate` 0
only with such a row. `OneSavePerHandout` is strengthened to `Accounted`: the hand-out
that gave `m_idcomando` its value is not used up (`saves < handed`), because
every save clears the id. `DeadSessionTakesOne` needs `Bereft`: after the one
command, `m_inprogress` is set, no poll is under way, and nothing that clears
it can run, since those handlers run only while the socket is read.
`OnlyErrorsRelease` rests on the switch having no case for states 9 and 50 and
on `ScalesOfProfile`: a session that waits for scales is in neither.

`ProfileKept` and `ProfileUnderOwnRow` rest on `OneAtATime`: the session is at rest,
with nothing in the air, or a command is under way, with `m_inprogress` set and at
most one request in the air, which is that of the row polled last. The hypothesis
`ProfilesOnly` says what this needs: no error frames, no command that clears
`m_inprogress` before its answers (C01 and the ones that send nothing), and no
meter that is the macro itself; automatic rows are allowed. `MCDcuSession_profiles` is such an instance, and
`MCDcuSession_instants` shows that C01 breaks it.

**Only model-checked**: liveness (`ClosedSessionsCleaned`, `EveryCallEnds`,
`ScanEnds`), which is outside this prover's reach, as is anything about ENABLED,
so that deadlock freedom stays with TLC too; and the five runs that
show a disagreement. Every invariant and every safety action property of the
other runs is a theorem. No module declares a recursive operator: recursion is
over the numbers of rows and cells, in functions.

## 5. Plan

1. Proofs: the safety half of `ClosedSessionsCleaned` on port 4059 (a closed
   session that nothing holds is not named after a cleanup); a bound on the calls of one handler
   that can reach the database, over all of `DcuSession`.
2. Composition of several `DcuSession`s over one `PgPool` connection, in place
   of the `others` state.
3. `SEQ` and the counters of `AuxData`, if a use of them appears: today nothing
   reads them back.

## 6. Not modelled

- The Oracle driver, the generic pool, `SessionFactory`, the callback read path
  (`do_read`, `onRawData`), and the RF commands of `Qgdw.cpp` (684–1193): nothing
  that runs reaches them.
- The dialogue on port 4059: the code sends an SNRM and drops what comes back.
- `Qgdw::PacketFrame`, `Data1`, `Data0x` and `TestFrame`: not called.
- High-level security, Itron meters and the other values of `m_typeclcosem`:
  port 8877 sets 6.
- String, date and CRC helpers, the log, and the COSEM parameters given to the
  Gurux library: data without control.
- `shutdown()` and `close()` of the pool, which nothing calls while the program
  runs.
