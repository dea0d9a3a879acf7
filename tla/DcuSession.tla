----------------------------- MODULE DcuSession -----------------------------
(***************************************************************************)
(* One session with a concentrator (port 8877), once the concentrator is   *)
(* known and m_timer_dcu runs: Session.cpp from the poll of the command    *)
(* table to the values saved for the command.  Two activities share the    *)
(* fields of the session without knowing of each other: the poll, every 5  *)
(* seconds, and the read loop, which interprets each DLMS answer by        *)
(* m_dlmsstate alone.  Both use one database connection, which takes one   *)
(* command at a time and belongs to other sessions too.                    *)
(*                                                                         *)
(* A frame is reduced to the request it answers.  m_typecommand, m_accion, *)
(* m_codigomedidor, m_OBISobjects, m_relecturas and m_subtipo always come  *)
(* together from the row polled last; the variable polled is that row.     *)
(*                                                                         *)
(* Definitions under a "Fault" comment are faulty variants of the one that *)
(* follows; no specification uses them, the README says what they are for. *)
(***************************************************************************)
EXTENDS Integers, Sequences, Functions

CONSTANTS
  Commands,     \* rows of the command table, each for a meter of its own
  Kind,         \* what each row asks for, see Kinds
  Macros,       \* rows for the concentrator's own meter: m_subtipo = 0
  Automatic,    \* rows without an id, m_idcomando = 0: automatic readings
  Objects,      \* OBIS codes in its m_perfil column
  Perfil,       \* number of the profile in its m_accion column: 0, 1 (any
                \* positive), -1 (any negative) or None (m_accion is empty)
  MaxHandouts,  \* bound: rows the database hands out altogether
  ErrorFrames,  \* the concentrator may report errors
  OtherUsers,   \* other sessions use the connection
  None          \* no command

\* "instant" C01, "profile" C02, "relay" C03, "events" C09; "other" are the
\* commands that send nothing (C04-C08, X01, C10-C12).
Kinds == {"instant", "profile", "relay", "events", "other"}

ASSUME DcuSessionAssumption ==
  /\ Kind \in [Commands -> Kinds]
  /\ Macros \subseteq Commands /\ Automatic \subseteq Commands
  /\ Objects \in [Commands -> Nat \ {0}]
  /\ Perfil \in [Commands -> {-1, 0, 1, None}]
  /\ MaxHandouts \in Nat
  /\ ErrorFrames \in BOOLEAN /\ OtherUsers \in BOOLEAN
  /\ None \notin Commands /\ None \notin {-1, 0, 1}

VARIABLES
  open,            \* do_read_async runs
  at,              \* where it is: "read" (awaiting a frame) or in a handler
                   \* that awaits the database: "report" (heartbeat, RF
                   \* event), "perfil" (CambiarPerfilxError), "save" (scales);
                   \* "crashed" when the process is gone
  db,              \* what the connection does: "idle", "poll", "call" (an
                   \* execute_sql of this session), "handler" (an awaited
                   \* call of the read loop), "others", or "stuck"
  inprogress, dlmsstate, initialization, numperfil,  \* m_ fields
  polled,          \* the row the last successful poll brought
  idcomando,       \* m_idcomando; None is 0
  indexiv,         \* m_indexiv
  values,          \* m_instantaneousvalues: whose answer made each of them,
                   \* and what of it is in the value
  loop,            \* m_loop = 1
  reply,           \* m_reply: the commands whose answers it is made of
  air,             \* requests the concentrator has not answered
  handed,          \* times the database handed each row out
  saves,           \* saves sent under each row's id
  saved,           \* history: the saves sent
  orphans          \* history: meter commands taken after the read loop ended

command == <<polled, idcomando>>
dlms   == <<inprogress, dlmsstate, initialization, numperfil>>
iv     == <<indexiv, values>>
rx     == <<loop, reply, air>>
hist   == <<saves, saved>>
vars   == <<open, at, db, command, dlms, iv, rx, handed, hist, orphans>>

Init ==
  /\ open = TRUE /\ at = "read" /\ db = "idle"
  /\ inprogress = 0 /\ dlmsstate = 0 /\ initialization = 0
  /\ numperfil \in {-1, 0, 1}  \* not initialised by the constructor
  /\ polled = None /\ idcomando = None
  /\ indexiv = 0 /\ values = <<>>
  /\ loop = FALSE /\ reply = {} /\ air = {}
  /\ handed = [c \in Commands |-> 0]
  /\ saves = [c \in Commands |-> 0]
  /\ saved = {} /\ orphans = 0

-----------------------------------------------------------------------------
(* The database connection.                                                *)

\* execute_sql, once or several times in a handler: the first one is sent if
\* the connection is idle, and every other one is refused and forgotten.
Issue == db' = IF db = "idle" THEN "call" ELSE db

\* UpdateCommandState, which says nothing without a command id.
UpdateCommandState == IF idcomando = None THEN db' = db ELSE Issue

CallDone ==
  /\ db = "call" /\ db' = "idle"
  /\ UNCHANGED <<open, at, command, dlms, iv, rx, handed, hist, orphans>>

\* An SQL error leaves the connection busy (see PgPool), a lost connection
\* is not reopened: either way every later call is refused.
CallFailed ==
  /\ db \in {"call", "poll"} /\ db' = "stuck"
  /\ UNCHANGED <<open, at, command, dlms, iv, rx, handed, hist, orphans>>

OthersUse ==
  /\ OtherUsers
  /\ \/ db = "idle" /\ db' = "others"
     \/ db = "others" /\ db' = "idle"
  /\ UNCHANGED <<open, at, command, dlms, iv, rx, handed, hist, orphans>>

-----------------------------------------------------------------------------
(* The poll.  The timer holds the session and re-arms itself, whether or   *)
(* not the socket is open.                                                 *)

\* Fault: the timer polls while a command is in progress.
PollAlways ==
  /\ db = "idle" /\ db' = "poll"
  /\ UNCHANGED <<open, at, command, dlms, iv, rx, handed, hist, orphans>>

\* ProcessComandInit_async sends its query.
Poll ==
  /\ inprogress = 0
  /\ db = "idle" /\ db' = "poll"
  /\ UNCHANGED <<open, at, command, dlms, iv, rx, handed, hist, orphans>>

\* The timer fires to no effect: a command is in progress, or the query is
\* refused by a busy connection.
PollSkipped ==
  /\ inprogress # 0 \/ db # "idle"
  /\ UNCHANGED vars

PollEmpty ==
  /\ db = "poll" /\ db' = "idle"
  /\ UNCHANGED <<open, at, command, dlms, iv, rx, handed, hist, orphans>>

\* A request to the meter of the row polled last.
Request(kind, c) == [kind |-> kind, cmd |-> c]

\* Fault: m_inprogress is not set.
InitConnectionIdle(c) ==
  /\ inprogress' = 0
  /\ dlmsstate' = 1
  /\ air' = air \union {Request("ua", c)}
  /\ db' = "call"
  /\ UNCHANGED initialization

\* InitConnectionMeterDcuINH: a new m_Parser, and SNRM to the meter.  The
\* connection is idle, the poll has just ended: monitormedidor is sent.
InitConnection(c) ==
  /\ inprogress' = 1
  /\ dlmsstate' = 1
  /\ air' = air \union {Request("ua", c)}
  /\ db' = "call"
  /\ UNCHANGED initialization

\* Rows the database has handed out.
HandedOut == FoldFunction(+, 0, handed)

\* The id of a row, which for an automatic one is that of no command.
IdOf(c) == IF c \in Automatic THEN None ELSE c

\* The poll brings a row: its fields replace those of the row before, whether
\* or not that one has ended.  Only then is m_inprogress looked at again.
PollAnswered(c) ==
  /\ db = "poll"
  /\ HandedOut < MaxHandouts
  /\ handed' = [handed EXCEPT ![c] = @ + 1]
  /\ polled' = c /\ idcomando' = IdOf(c)
  /\ IF c \notin Macros /\ inprogress = 0
     THEN InitConnection(c)
     ELSE /\ db' = "idle"
          /\ initialization' = IF inprogress = 0 THEN 0 ELSE initialization
          /\ UNCHANGED <<inprogress, dlmsstate, air>>
  /\ orphans' = IF open \/ c \in Macros THEN orphans ELSE orphans + 1
  /\ UNCHANGED <<open, at, numperfil, iv, loop, reply, hist>>

-----------------------------------------------------------------------------
(* The read loop: frames that are not DLMS.                                *)

Reading == open /\ at = "read"

\* do_read_async ends by an exception: the socket is closed.
EndLoop == open' = FALSE /\ at' = "read"

\* The peer left, or the server replaced the session.
LoopEnds ==
  /\ Reading /\ EndLoop
  /\ UNCHANGED <<db, command, dlms, iv, rx, handed, hist, orphans>>

\* Fault: the handler's query is sent while another one is under way.
ReportAnyway ==
  /\ Reading
  /\ at' = "report"
  /\ UNCHANGED <<open, db, command, dlms, iv, rx, handed, hist, orphans>>

\* A heartbeat or an RF event: the handler awaits the database ...
Report ==
  /\ Reading
  /\ db = "idle" /\ db' = "handler"
  /\ at' = "report"
  /\ UNCHANGED <<open, command, dlms, iv, rx, handed, hist, orphans>>

\* ... and throws when the connection is busy, which closes the session.
ReportRefused ==
  /\ Reading
  /\ db # "idle" /\ EndLoop
  /\ UNCHANGED <<db, command, dlms, iv, rx, handed, hist, orphans>>

ReportDone ==
  /\ at = "report" /\ at' = "read"
  /\ db' = "idle"
  /\ UNCHANGED <<open, command, dlms, iv, rx, handed, hist, orphans>>

ReportFailed ==
  /\ at = "report" /\ EndLoop
  /\ db' = "stuck"
  /\ UNCHANGED <<command, dlms, iv, rx, handed, hist, orphans>>

\* The reset the error paths share; m_dlmsstate is not part of it.
Drop == idcomando' = None /\ inprogress' = 0 /\ numperfil' = 0

\* DecodeFrame finds no DLMS frame: the concentrator reports that the meter
\* is off line (-9) or an error of its own (-1).  Without a command id, so for
\* an automatic row too, the frame is ignored.
ErrorFrame ==
  /\ ErrorFrames /\ Reading
  /\ idcomando # None
  /\ UpdateCommandState
  /\ Drop
  /\ UNCHANGED <<open, at, polled, dlmsstate, initialization, iv, rx, handed,
                 hist, orphans>>

-----------------------------------------------------------------------------
(* The read loop: DLMS answers.  GetData takes the frame (its kind shows)  *)
(* or refuses it (kind "none"); the handler of m_dlmsstate runs with what  *)
(* m_reply holds then, which is nothing after a refusal.                   *)

Long == {"object", "columns", "rows"}

\* What m_reply is made of before GetData.
Partial == IF loop THEN reply ELSE {}

\* A block of a long answer: ReceiverReady asks for the next one.
MoreData(r) ==
  /\ Reading /\ r \in air
  /\ r.kind \in Long
  /\ reply' = Partial \union {r.cmd}
  /\ loop' = TRUE
  /\ UNCHANGED <<open, at, db, command, dlms, iv, air, handed, hist, orphans>>

\* GetData refuses a frame between two blocks: m_reply still wants more, and
\* ReceiverReady is sent again.
BlockRefused(r) ==
  /\ Reading /\ r \in air
  /\ loop
  /\ air' = air \ {r}
  /\ UNCHANGED <<open, at, db, command, dlms, iv, loop, reply, handed, hist,
                 orphans>>

\* The last frame of an answer; kind is what the handler sees in m_reply.
Complete(r, kind) ==
  /\ Reading /\ r \in air
  /\ kind = r.kind \/ (kind = "none" /\ ~loop)
  /\ loop' = FALSE

\* m_reply after it.
Content(r, kind) == IF kind = "none" THEN {} ELSE Partial \union {r.cmd}

\* The air after the answer to r, with the requests its handler sends.
Air(r, sent) == air' = (air \ {r}) \union sent

\* Fault: an answer without a case ends the command.
UnhandledReleasing(r, kind) ==
  /\ Complete(r, kind) /\ reply' = Content(r, kind)
  /\ dlmsstate \in {0, 9, 50}
  /\ dlmsstate' = 0 /\ inprogress' = 0
  /\ Air(r, {})
  /\ UNCHANGED <<open, at, db, command, initialization, numperfil, iv, handed,
                 hist, orphans>>

\* m_dlmsstate 0, 9 and 50: no case of the switch.
Unhandled(r, kind) ==
  /\ Complete(r, kind) /\ reply' = Content(r, kind)
  /\ dlmsstate \in {0, 9, 50}
  /\ Air(r, {})
  /\ UNCHANGED <<open, at, db, command, dlms, iv, handed, hist, orphans>>

\* AARQRequest.  ParseUAResponse takes a UA, may take anything else (it
\* accepts an empty one), and otherwise leaves the state as it is.
UAResponse(r, kind) ==
  /\ Complete(r, kind) /\ reply' = Content(r, kind)
  /\ dlmsstate = 1
  /\ \/ dlmsstate' = 2 /\ Air(r, {Request("aare", polled)})
     \/ kind # "ua" /\ dlmsstate' = 1 /\ Air(r, {})
  /\ UNCHANGED <<open, at, db, command, inprogress, initialization, numperfil,
                 iv, handed, hist, orphans>>

\* AAREResponse: not an AARE, or the meter refuses the association.
AARERejected(r, kind) ==
  /\ Complete(r, kind) /\ reply' = Content(r, kind)
  /\ dlmsstate = 2
  /\ initialization' = -1
  /\ Air(r, {})
  /\ UNCHANGED <<open, at, db, command, inprogress, dlmsstate, numperfil, iv,
                 handed, hist, orphans>>

\* m_OBISobjects[m_indexiv] is read past the end of the vector.
PastEnd(c) == indexiv >= Objects[c]

\* What each kind of command sends and the state it leaves.  All of them ask
\* for m_initialization = 0, which AAREResponse has just set.
SendInstantaneousValues(c, r) ==
  /\ Kind[c] = "instant"
  /\ Air(r, {Request("object", c)})
  /\ dlmsstate' = 11 /\ inprogress' = 0
  /\ UNCHANGED numperfil

\* m_numperfil keeps its value when m_accion is empty.
Numperfil(c) == IF Perfil[c] = None THEN numperfil ELSE Perfil[c]

SendProfileGeneric(c, r) ==
  /\ Kind[c] = "profile"
  /\ Air(r, {Request("columns", c)})
  /\ dlmsstate' = 20 /\ inprogress' = 1
  /\ numperfil' = Numperfil(c)

SendProfileGenericBase(c, r) ==
  /\ Kind[c] = "events"
  /\ Air(r, {Request("columns", c)})
  /\ dlmsstate' = 9 /\ inprogress' = 1
  /\ numperfil' = Numperfil(c)

\* The calls that would fill the request are commented out.
DisconnectControl(c, r) ==
  /\ Kind[c] = "relay"
  /\ Air(r, {})
  /\ dlmsstate' = 50 /\ inprogress' = 1
  /\ UNCHANGED numperfil

\* WriteProfileGeneric, WritePeriodProfileGeneric, ReadObis and WriteObis send
\* nothing, and the other codes are unknown to ProcessComand.
SendNothing(c, r) ==
  /\ Kind[c] = "other"
  /\ Air(r, {})
  /\ dlmsstate' = 0 /\ inprogress' = 0
  /\ UNCHANGED numperfil

\* ProcessComand(m_typecommand).  The calls of UpdateCommandState come after
\* the monitormedidor call of AAREResponse, and are refused.
ProcessComand(c, r) ==
  \/ SendInstantaneousValues(c, r) \/ SendProfileGeneric(c, r)
  \/ SendProfileGenericBase(c, r) \/ DisconnectControl(c, r) \/ SendNothing(c, r)

\* AAREResponse: associated with low-level security, m_fabricante is 0.  The
\* row may have been replaced since the SNRM, by one for the macro too.
AAREAccepted(r) ==
  /\ Complete(r, "aare") /\ reply' = Content(r, "aare")
  /\ dlmsstate = 2
  /\ initialization' = 0
  /\ Issue
  /\ ProcessComand(polled, r)
  /\ UNCHANGED <<open, at, command, iv, handed, hist, orphans>>

\* Reading past the end may also end the process.
Crash(r) ==
  /\ Complete(r, "aare")
  /\ dlmsstate = 2
  /\ Kind[polled] = "instant" /\ PastEnd(polled)
  /\ open' = FALSE /\ at' = "crashed" /\ db' = "stuck"
  /\ Air(r, {})
  /\ UNCHANGED <<command, dlms, iv, reply, handed, hist, orphans>>

-----------------------------------------------------------------------------
(* Values.                                                                 *)

\* The rows saved under m_idcomando for the meter of the row polled last:
\* from is the commands whose answers they hold, blank whether they are empty.
Record(from, blank) ==
  [cmd |-> idcomando, row |-> polled, from |-> from, blank |-> blank]

\* execute_sql with the values: it reaches the database when nothing else of
\* this handler, of this session or of another one is under way.
Save(record, idle) ==
  IF idle
  THEN /\ db' = "call"
       /\ saved' = saved \union {record}
       /\ saves' = IF idcomando = None THEN saves ELSE [saves EXCEPT ![idcomando] = @ + 1]
  ELSE UNCHANGED <<db, hist>>

\* ResponseInstantaneousValues stores a value for any frame.  It clears
\* m_reply first, and takes the value from it afterwards.
NewValues(r) == Append(values, [from |-> r.cmd, of |-> reply'])

InstantResponse(r, kind) ==
  /\ Complete(r, kind) /\ reply' = {}
  /\ dlmsstate = 11

\* There is another object: SendInstantaneousValues.
NextInstant(r, kind) ==
  /\ InstantResponse(r, kind)
  /\ indexiv + 1 < Objects[polled]
  /\ values' = NewValues(r) /\ indexiv' = indexiv + 1
  /\ Air(r, IF initialization = 0 THEN {Request("object", polled)} ELSE {})
  /\ UpdateCommandState
  /\ UNCHANGED <<open, at, command, dlms, handed, hist, orphans>>

\* The last object: saved if there is a value for each.
LastInstant(r, kind) ==
  /\ InstantResponse(r, kind)
  /\ indexiv + 1 = Objects[polled]
  /\ LET all == {NewValues(r)[i] : i \in DOMAIN NewValues(r)}
     IN  IF Len(NewValues(r)) = Objects[polled]
         THEN Save(Record({v.from : v \in all}, \A v \in all : v.of = {}), db = "idle")
         ELSE UNCHANGED <<db, hist>>
  /\ values' = <<>> /\ indexiv' = 0
  /\ dlmsstate' = 0 /\ inprogress' = 0 /\ idcomando' = None
  /\ Air(r, {})
  /\ UNCHANGED <<open, at, polled, initialization, numperfil, handed, orphans>>

\* m_indexiv is past the objects of a shorter list: the value is kept and
\* neither branch is taken.
StrayInstant(r, kind) ==
  /\ InstantResponse(r, kind)
  /\ PastEnd(polled)
  /\ values' = NewValues(r)
  /\ Air(r, {})
  /\ UNCHANGED <<open, at, db, command, dlms, indexiv, handed, hist, orphans>>

-----------------------------------------------------------------------------
(* Profiles.                                                               *)

Columns(r, kind) ==
  /\ Complete(r, kind) /\ reply' = Content(r, kind)
  /\ dlmsstate = 20

IsArray(kind) == kind \in {"columns", "rows"}

\* Not an array (-4), or less than two columns (-5).
NoProfile(r, kind) ==
  /\ Columns(r, kind)
  /\ UpdateCommandState
  /\ dlmsstate' = 0 /\ Drop
  /\ Air(r, {})
  /\ UNCHANGED <<open, at, polled, initialization, iv, handed, hist, orphans>>

\* The columns are not those of the row (-2): after the reset the handler
\* awaits CambiarPerfilxError.  Depending on Asio's version, the call with -2
\* starts before it, which is refused then, or after it.
OtherProfile(r, kind) ==
  /\ Columns(r, kind)
  /\ IsArray(kind) /\ numperfil = 0
  /\ dlmsstate' = 0 /\ Drop
  /\ \/ db = "idle" /\ db' = "handler" /\ at' = "perfil" /\ open' = open
     \/ db = "idle" /\ idcomando # None /\ db' = "call" /\ EndLoop
     \/ db # "idle" /\ db' = db /\ EndLoop
  /\ Air(r, {})
  /\ UNCHANGED <<polled, initialization, iv, handed, hist, orphans>>

PerfilDone ==
  /\ at = "perfil" /\ at' = "read"
  /\ db' = "idle"
  /\ UNCHANGED <<open, command, dlms, iv, rx, handed, hist, orphans>>

PerfilFailed ==
  /\ at = "perfil" /\ EndLoop
  /\ db' = "stuck"
  /\ UNCHANGED <<command, dlms, iv, rx, handed, hist, orphans>>

\* The columns are accepted: the rows are asked for, or ReadRows fails and
\* nothing is, and the state is 21 all the same.
AskRows(r, kind) ==
  /\ Columns(r, kind)
  /\ IsArray(kind)
  /\ dlmsstate' = 21
  /\ UpdateCommandState
  /\ \/ Air(r, {Request("rows", polled)}) /\ numperfil' = numperfil
     \/ Air(r, {}) /\ numperfil' = 0
  /\ UNCHANGED <<open, at, command, inprogress, initialization, iv, handed,
                 hist, orphans>>

Rows(r, kind) ==
  /\ Complete(r, kind) /\ reply' = Content(r, kind)
  /\ dlmsstate = 21
  /\ Air(r, {})

\* The rows in rows are saved, or there are none, or only the status is told.
SaveDataFromProfile_Core(rows, idle) ==
  /\ idcomando # None
  /\ \/ rows # {} /\ Save(Record(rows, FALSE), idle)
     \/ /\ db' = IF idle THEN "call" ELSE db
        /\ UNCHANGED hist

\* The same without a command: the rows are saved as an automatic reading, or
\* there are none.
SavedataFromProfileAuto_Core(rows, idle) ==
  /\ idcomando = None
  /\ \/ rows # {} /\ Save(Record(rows, FALSE), idle)
     \/ /\ db' = IF idle THEN "idle" ELSE db
        /\ UNCHANGED hist

SaveData(rows, idle) ==
  SaveDataFromProfile_Core(rows, idle) \/ SavedataFromProfileAuto_Core(rows, idle)

\* Fault: the state is kept after the save.
SaveRowsAgain(r, kind) ==
  /\ Rows(r, kind)
  /\ numperfil <= 0
  /\ SaveData(reply', db = "idle")
  /\ UNCHANGED <<open, at, command, dlms, iv, handed, orphans>>

\* The first profile, or a negative one: the rows are saved without a wait, and
\* the command ends whatever became of the call.
SaveRows(r, kind) ==
  /\ Rows(r, kind)
  /\ numperfil <= 0
  /\ SaveData(reply', db = "idle")
  /\ dlmsstate' = 0 /\ Drop
  /\ UNCHANGED <<open, at, polled, initialization, iv, handed, orphans>>

\* SaveDataFromProfile_Core throws on rows it cannot convert: nothing is reset.
\* (SavedataFromProfileAuto_Core catches what it throws.)
SaveRowsThrows(r, kind) ==
  /\ Rows(r, kind)
  /\ numperfil <= 0 /\ idcomando # None
  /\ UNCHANGED <<open, at, db, command, dlms, iv, handed, hist, orphans>>

\* Any other profile: its scales are asked for first.  A busy connection
\* refuses, and nothing is reset.
AskScales(r, kind) ==
  /\ Rows(r, kind)
  /\ numperfil > 0
  /\ IF db = "idle" THEN db' = "handler" /\ at' = "save" ELSE UNCHANGED <<db, at>>
  /\ UNCHANGED <<open, command, dlms, iv, handed, hist, orphans>>

\* The scales arrive, and the rows are saved; a profile without scales ends
\* the command without a save.
ScalesArrived ==
  /\ at = "save" /\ at' = "read"
  /\ \/ SaveData(reply, TRUE)
     \/ db' = "idle" /\ UNCHANGED hist
  /\ dlmsstate' = 0 /\ Drop
  /\ UNCHANGED <<open, polled, initialization, iv, rx, handed, orphans>>

\* The query fails, or the rows of a command cannot be converted: nothing is
\* reset.
ScalesFailed ==
  /\ at = "save" /\ at' = "read"
  /\ db' \in (IF idcomando = None THEN {"stuck"} ELSE {"stuck", "idle"})
  /\ UNCHANGED <<open, command, dlms, iv, rx, handed, hist, orphans>>

-----------------------------------------------------------------------------

\* do_read_async takes the next frame.
Answered(r) ==
  \/ MoreData(r) \/ BlockRefused(r)
  \/ AAREAccepted(r) \/ Crash(r)
  \/ \E kind \in {r.kind, "none"} :
       \/ Unhandled(r, kind) \/ UAResponse(r, kind) \/ AARERejected(r, kind)
       \/ NextInstant(r, kind) \/ LastInstant(r, kind) \/ StrayInstant(r, kind)
       \/ NoProfile(r, kind) \/ OtherProfile(r, kind) \/ AskRows(r, kind)
       \/ SaveRows(r, kind) \/ SaveRowsThrows(r, kind) \/ AskScales(r, kind)

\* The process is gone.
Gone == at = "crashed" /\ UNCHANGED vars

Next ==
  \/ CallDone \/ CallFailed \/ OthersUse
  \/ Poll \/ PollSkipped \/ PollEmpty
  \/ \E c \in Commands : PollAnswered(c)
  \/ LoopEnds
  \/ Report \/ ReportRefused \/ ReportDone \/ ReportFailed
  \/ ErrorFrame
  \/ \E r \in air : Answered(r)
  \/ PerfilDone \/ PerfilFailed
  \/ ScalesArrived \/ ScalesFailed
  \/ Gone

Spec == Init /\ [][Next]_vars

-----------------------------------------------------------------------------
(* Properties.                                                             *)

Ids == Commands \union {None}

\* Every variable has its type, and what occupies the connection fits where
\* the read loop is.
TypeOK ==
  /\ open \in BOOLEAN
  /\ at \in {"read", "report", "perfil", "save", "crashed"}
  /\ db \in {"idle", "poll", "call", "handler", "others", "stuck"}
  /\ db = "handler" <=> at \in {"report", "perfil", "save"}
  /\ inprogress \in {0, 1} /\ initialization \in {0, -1}
  /\ dlmsstate \in {0, 1, 2, 9, 11, 20, 21, 50} /\ numperfil \in {-1, 0, 1}
  /\ polled \in Ids /\ idcomando \in Ids
  /\ indexiv \in Nat
  /\ values \in Seq([from : Commands, of : SUBSET Commands])
  /\ loop \in BOOLEAN /\ reply \subseteq Commands
  /\ air \subseteq [kind : {"ua", "aare", "object", "columns", "rows"}, cmd : Commands]
  /\ handed \in [Commands -> Nat] /\ saves \in [Commands -> Nat]
  /\ saved \subseteq [cmd : Ids, row : Ids, from : SUBSET Commands, blank : BOOLEAN]
  /\ orphans \in Nat

\* A command is saved at most once for each time the database hands it out,
\* through aborts, late answers and rows polled over it.  (An automatic row has
\* no id to be saved under.)
OneSavePerHandout == \A c \in Commands : saves[c] <= handed[c]

\* A session whose read loop has ended goes on polling, but takes one meter
\* command at most that nobody will run.
DeadSessionTakesOne == orphans <= 1

\* A relay or event command, whose states have no case, is never released as
\* if it had been run: only an error report frees the session, and drops the
\* command with it.
OnlyErrorsRelease ==
  [][inprogress = 1 /\ inprogress' = 0 /\ dlmsstate \in {9, 50}
       => idcomando # None /\ idcomando' = None]_vars

\* From the poll that brings a profile, of a command or an automatic one, until
\* its rows are saved or given up, no other row is put over it, even with a query
\* under way when the reading began, and m_idcomando ends with m_inprogress.
\* (Holds as long as the concentrator reports no error, for profiles only.)
CommandKept ==
  [][inprogress = 1 \/ idcomando # None
       => /\ polled' = polled
          /\ idcomando' = IF inprogress' = 1 THEN idcomando ELSE None]_vars

\* Rows are saved for the meter that sent them and under the id of its row, or
\* as an automatic reading if that has none, whatever the order of the answers.
\* (With the same restrictions.)
SavedUnderOwnRow ==
  \A s \in saved : s.row \in Commands /\ s.cmd = IdOf(s.row) /\ s.from = {s.row}

\* Session.cpp:3082, "se pidieron todos los objetos del instantaneousvalues":
\* the values saved were all asked for the command they are saved for.
AllObjectsAsked ==
  \A s \in saved : s.cmd \in Commands /\ Kind[s.cmd] = "instant" => s.from = {s.cmd}

\* Session.cpp:3088, "guardar el dato en la base de datos": there is something
\* of an answer in the values saved.
ValuesFromAnswers == \A s \in saved : ~s.blank
=============================================================================
