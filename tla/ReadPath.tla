------------------------------ MODULE ReadPath ------------------------------
(***************************************************************************)
(* From the socket to the calls of the database: do_read_async, the frames *)
(* of the concentrator (Framing), the dispatch of onRawDataAsync and the   *)
(* rows of a profile (ProfileStore), in a session of port 8877.            *)
(*                                                                         *)
(* do_read_async takes what one async_read_some returns for one frame.  A  *)
(* read may end within a frame, whose rest is then read as a frame of its  *)
(* own, or hold two, of which the first alone is looked at.  DecodeFrame   *)
(* keeps m_typeframe from one frame to the next.                           *)
(*                                                                         *)
(* The command is a profile, the first one (m_numperfil = 0), whose rows   *)
(* are saved without asking for scales.  Its association, m_dlmsstate 1    *)
(* and 2, is DcuSession's; here each answer of it leads to another request *)
(* or to none.  An answer may be one block of a longer one in any state.   *)
(*                                                                         *)
(* Definitions under a "Fault" comment are faulty variants of the one that *)
(* follows; no specification uses them, the README says what they are for. *)
(***************************************************************************)
EXTENDS Framing, ProfileStore

CONSTANTS
  MaxFrames,  \* bound: frames the concentrator sends
  Profiles,   \* profiles with rows, see ProfileStore
  Addresses,  \* of the concentrators behind the peer: bytes 7 to 10, and 0
  Lengths     \* of the DLMS frames that are sent

ASSUME ReadPathAssumption ==
  /\ MaxFrames \in Nat
  /\ Profiles \subseteq AllProfiles
  /\ \A p \in Profiles : Readable(p)
  /\ None \notin AllProfiles
  /\ Addresses \subseteq Byte \X Byte \X Byte \X Byte \X {0}
  /\ Lengths \subseteq MinRequest..MaxMeterRequest

VARIABLES
  open,        \* do_read_async runs
  stream,      \* frames that have been sent and not been read
  sent,        \* frames sent so far
  asked,       \* requests the concentrator has not answered
  decoded,     \* what DecodeFrame returned last, m_frametype, m_typeframe
  idcomando,   \* m_idcomando: 0, or 1 for the command of the row polled last
  inprogress,  \* m_inprogress
  dlmsstate,   \* m_dlmsstate: 0, 1 for the association, 20 for the columns, 21
  loop,        \* m_loop = 1: m_reply holds a part of a longer answer
  answered,    \* history: a meter has answered the command
  report       \* history: what the last step sent to the concentrator and to
               \* the database, see Quiet

vars == <<open, stream, sent, asked, decoded, idcomando, inprogress, dlmsstate,
          loop, answered, report>>

Heartbeat   == FrameOf(201, 0, 0, 0)
Event       == FrameOf(196, 0, 0, 0)
MeterAnswer == FrameOf(136, 16, 31, 5)
MacroAnswer == FrameOf(136, 16, 1, 0)
Offline     == FrameOf(136, 16, 31, 1)
Refused     == FrameOf(137, 0, 16, 0)
\* A frame of any other kind, and the rest of a frame.
Other       == FrameOf(0, 0, 0, 0)

\* What the concentrator sends for a request, and what it sends by itself.
Answers == {MeterAnswer, MacroAnswer, Offline, Refused}
Reports == {Heartbeat, Event, Other}

\* Nothing: no calls that reached the database, nor the profile and the command
\* they are for; no request, no answer to a heartbeat, no event stored.
Quiet ==
  [profile |-> None, command |-> 0, delivered |-> <<>>,
   request |-> None, reply |-> None, event |-> None]

Init ==
  /\ open = TRUE
  /\ stream = <<>> /\ sent = 0 /\ asked = 0
  /\ decoded = [content |-> "none", frametype |-> 0, typeframe |-> 0]
  /\ idcomando = 0 /\ inprogress = 0 /\ dlmsstate = 0
  /\ loop = FALSE /\ answered = FALSE
  /\ report = Quiet

-----------------------------------------------------------------------------
(* The poll and the concentrator.                                          *)

\* A request of n bytes of DLMS, for a meter or the concentrator's own.
Request(n, macro) ==
  [macro |-> macro, dlms |-> n, frame |-> IF macro THEN MacroFrame(n) ELSE MeterFrame(n)]

Requests == {Request(n, macro) : n \in Lengths, macro \in BOOLEAN}

Ask ==
  /\ asked' = asked + 1
  /\ \E q \in Requests : report' = [Quiet EXCEPT !.request = q]

\* The poll brings a row for a meter and the first request goes out.
CommandStarts ==
  /\ open /\ inprogress = 0
  /\ idcomando' = 1 /\ inprogress' = 1 /\ dlmsstate' = 1
  /\ Ask
  /\ answered' = FALSE
  /\ UNCHANGED <<open, stream, sent, decoded, loop>>

Sends(f) ==
  /\ open /\ sent < MaxFrames /\ Len(stream) < 2
  /\ stream' = Append(stream, f)
  /\ sent' = sent + 1
  /\ report' = Quiet
  /\ UNCHANGED <<open, decoded, idcomando, inprogress, dlmsstate, loop, answered>>

\* A request is answered, sooner or later, once.
ConcentratorAnswers ==
  /\ asked > 0
  /\ asked' = asked - 1
  /\ \E f \in Answers : Sends(f)

ConcentratorReports ==
  /\ asked' = asked
  /\ \E f \in Reports : Sends(f)

-----------------------------------------------------------------------------
(* The handler of a frame, onRawDataAsync.                                 *)

\* Fault: m_inprogress is not part of it.
DropKeepingProgress == idcomando' = 0 /\ inprogress' = inprogress

\* The reset the error paths share; m_dlmsstate is not part of it.
Drop == idcomando' = 0 /\ inprogress' = 0

Tell(profile, calls, idle) ==
  report' = [Quiet EXCEPT !.profile = profile, !.command = idcomando,
                          !.delivered = Delivered(calls, idle)]

\* Nothing in the frame: m_typeframe tells that the meter is off line (-9) or
\* that the concentrator refuses (-1), now or some time before.
NoFrame(d) ==
  /\ d.content = "none"
  /\ IF idcomando > 0 /\ d.typeframe \in {0, 1}
     THEN /\ Drop
          /\ \E idle \in BOOLEAN :
               Tell(None, <<Status(IF d.typeframe = 1 THEN -9 ELSE -1)>>, idle)
     ELSE report' = Quiet /\ UNCHANGED <<idcomando, inprogress>>
  /\ UNCHANGED <<open, asked, dlmsstate, loop>>

\* DecodeFrame made the code of the address in the heartbeat, and the answer
\* of the code.
Reply(address) ==
  LET code == ConcentratorOf(address)
  IN  [from |-> address, code |-> code, frame |-> HBFrame(code, [seq |-> 113, echo |-> 4])]

Stored(event) == [seen |-> event, code |-> ParseEvents(event)]

\* A heartbeat or an RF event: the handler awaits the database and throws when
\* it fails, which ends do_read_async, or answers and stores.  (See Server and
\* DcuSession.)
OtherHandler(d) ==
  /\ d.content # "none" /\ d.frametype \in {1, 3}
  /\ \/ open' = FALSE /\ report' = Quiet
     \/ /\ open' = TRUE /\ d.frametype = 1
        /\ \E a \in Addresses : report' = [Quiet EXCEPT !.reply = Reply(a)]
     \/ /\ open' = TRUE /\ d.frametype = 3
        /\ \E e \in Events : report' = [Quiet EXCEPT !.event = Stored(e)]
  /\ UNCHANGED <<asked, idcomando, inprogress, dlmsstate, loop>>

Dlms(d) == d.content # "none" /\ d.frametype = 0

\* The answer goes on in another block, or GetData refuses a frame between two
\* of them: ReceiverReady asks on, and no handler runs.
Block(d, whole) ==
  /\ Dlms(d)
  /\ whole \/ loop
  /\ loop' = TRUE
  /\ Ask
  /\ UNCHANGED <<open, idcomando, inprogress, dlmsstate>>

\* GetData ends the answer (taken), or refuses the frame, as it does with an
\* incomplete one: then the handler of m_dlmsstate runs with an empty m_reply.
Complete(d, whole, taken) ==
  /\ Dlms(d)
  /\ IF taken THEN whole ELSE ~loop
  /\ loop' = FALSE

\* m_dlmsstate 0 has no case.
Unhandled(d, whole, taken) ==
  /\ Complete(d, whole, taken) /\ dlmsstate = 0
  /\ report' = Quiet
  /\ UNCHANGED <<open, asked, idcomando, inprogress, dlmsstate>>

\* The answers before the columns.
Dialogue(d, whole, taken) ==
  /\ Complete(d, whole, taken) /\ dlmsstate = 1
  /\ \/ dlmsstate' = 1 /\ asked' = asked /\ report' = Quiet
     \/ dlmsstate' \in (IF taken THEN {1, 20} ELSE {1}) /\ Ask
  /\ UNCHANGED <<open, idcomando, inprogress>>

\* UpdateCommandState, which says nothing without a command.
UpdateCommandState(state) == IF idcomando > 0 THEN <<Status(state)>> ELSE <<>>

Columns(d, whole, taken) == Complete(d, whole, taken) /\ dlmsstate = 20

\* No array in m_reply (-4), as in an empty one, or less than two columns (-5).
NoProfile(d, whole, taken) ==
  /\ Columns(d, whole, taken)
  /\ \E state \in (IF taken THEN {-4, -5} ELSE {-4}), idle \in BOOLEAN :
       Tell(None, UpdateCommandState(state), idle)
  /\ dlmsstate' = 0 /\ Drop
  /\ UNCHANGED <<open, asked>>

\* Other columns than those of the row (-2): the handler awaits
\* CambiarPerfilxError, which is refused when the status went out before it,
\* and throws then.
OtherProfile(d, whole, taken) ==
  /\ Columns(d, whole, taken) /\ taken
  /\ \E idle \in BOOLEAN :
       /\ Tell(None, UpdateCommandState(-2), idle)
       /\ open' \in (IF idle /\ idcomando > 0 THEN {FALSE} ELSE BOOLEAN)
  /\ dlmsstate' = 0 /\ Drop
  /\ UNCHANGED asked

\* The rows are asked for, or ReadRows fails and nothing is.
AskRows(d, whole, taken) ==
  /\ Columns(d, whole, taken) /\ taken
  /\ dlmsstate' = 21
  /\ \E idle \in BOOLEAN :
       \/ asked' = asked /\ Tell(None, UpdateCommandState(3), idle)
       \/ /\ asked' = asked + 1
          /\ \E q \in Requests :
               report' = [Quiet EXCEPT !.command = idcomando, !.request = q,
                                       !.delivered = Delivered(UpdateCommandState(3), idle)]
  /\ UNCHANGED <<open, idcomando, inprogress>>

\* The calls of the first profile, with a command and without.
Calls(p) ==
  IF idcomando > 0 THEN SaveDataFromProfile_Core(p) ELSE SavedataFromProfileAuto_Core(p)

\* The profile when none of its rows is saved.
WithoutRows(p) == [p EXCEPT !.widths = <<>>]

Rows(d, whole, taken) == Complete(d, whole, taken) /\ dlmsstate = 21

\* The rows are saved, if m_reply has some, and the command ends, whatever
\* becomes of the calls.
SaveRowsOf(d, whole, taken) ==
  /\ Rows(d, whole, taken)
  /\ \E p \in Profiles, idle \in BOOLEAN :
       \E q \in {WithoutRows(p)} \union (IF taken THEN {p} ELSE {}) :
         \E calls \in Calls(q) : Tell(q, calls, idle)
  /\ dlmsstate' = 0 /\ Drop
  /\ UNCHANGED <<open, asked>>

\* A row cannot be converted.  With a command, mode 1 tells -255 and ends it,
\* and mode 0 throws: SaveDataFromProfile_co is false, and neither m_dlmsstate
\* nor the command changes.  Without one the save ends where it is.  (After a
\* row that was sent, it has sent what SaveRowsOf does.)
RowFails(d, whole, taken) ==
  /\ Rows(d, whole, taken) /\ taken
  /\ \E p \in Profiles, idle \in BOOLEAN :
       LET fails == idcomando > 0 /\ p.mode = 0
       IN  /\ Tell(WithoutRows(p), IF p.mode = 1 THEN UpdateCommandState(-255) ELSE <<>>, idle)
           /\ IF fails THEN UNCHANGED <<dlmsstate, idcomando, inprogress>>
              ELSE dlmsstate' = 0 /\ Drop
  /\ UNCHANGED <<open, asked>>

\* The handlers of a DLMS frame.
DlmsHandler(d, whole, taken) ==
  \/ Unhandled(d, whole, taken) \/ Dialogue(d, whole, taken)
  \/ NoProfile(d, whole, taken) \/ OtherProfile(d, whole, taken) \/ AskRows(d, whole, taken)
  \/ SaveRowsOf(d, whole, taken) \/ RowFails(d, whole, taken)

\* A read that begins with 0D is not looked at.  (Frames begin with 68, their
\* rests with anything.)
Ignored(f) ==
  /\ f = Other
  /\ report' = Quiet
  /\ UNCHANGED <<open, asked, decoded, idcomando, inprogress, dlmsstate, loop, answered>>

\* The handler; a DLMS frame of a meter, whole or not, answers the command.
Decoded(f, whole) ==
  LET d == DecodeFrame(f, decoded)
  IN  /\ decoded' = d
      /\ answered' = (answered \/ (idcomando > 0 /\ f = MeterAnswer))
      /\ \/ NoFrame(d) \/ OtherHandler(d) \/ Block(d, whole)
         \/ \E taken \in BOOLEAN : DlmsHandler(d, whole, taken)

Handle(f, whole) == Ignored(f) \/ Decoded(f, whole)

-----------------------------------------------------------------------------
(* do_read_async.                                                          *)

\* One frame is read, or the first part of one whose rest is to come.
ReadFrame ==
  /\ open /\ stream # <<>>
  /\ stream' = Tail(stream)
  /\ Handle(Head(stream), TRUE)
  /\ UNCHANGED sent

ReadPart ==
  /\ open /\ stream # <<>>
  /\ Head(stream) # Other
  /\ stream' = <<Other>> \o Tail(stream)
  /\ Handle(Head(stream), FALSE)
  /\ UNCHANGED sent

\* Two frames are read together: what follows the first is part of its
\* content, which nothing asks for.
ReadTwo ==
  /\ open /\ Len(stream) = 2
  /\ stream' = <<>>
  /\ Handle(stream[1], TRUE)
  /\ UNCHANGED sent

\* The first part is too short for the bytes DecodeFrame takes out of it, the
\* vector's constructor throws, or the peer left: the socket is closed.
LoopEnds ==
  /\ open /\ open' = FALSE
  /\ stream' = <<>>
  /\ report' = Quiet
  /\ UNCHANGED <<sent, asked, decoded, idcomando, inprogress, dlmsstate, loop, answered>>

\* The session is closed; what its timer does is DcuSession's.
Closed == ~open /\ UNCHANGED vars

Next ==
  \/ CommandStarts \/ ConcentratorAnswers \/ ConcentratorReports
  \/ ReadFrame \/ ReadPart \/ ReadTwo \/ LoopEnds
  \/ Closed

Spec == Init /\ [][Next]_vars

-----------------------------------------------------------------------------
(* Properties.                                                             *)

\* Every variable has its type, and the poll's gate fits the command.
TypeOK ==
  /\ open \in BOOLEAN
  /\ stream \in Seq(Answers \union Reports) /\ Len(stream) <= 2
  /\ sent \in 0..MaxFrames /\ asked \in Nat
  /\ decoded.content \in {"none", "hb", "dlms", "event"}
  /\ decoded.frametype \in {0, 1, 3} /\ decoded.typeframe \in {0, 1, 5}
  /\ idcomando \in {0, 1} /\ inprogress = idcomando
  /\ dlmsstate \in {0, 1, 20, 21}
  /\ loop \in BOOLEAN /\ answered \in BOOLEAN
  /\ Len(report.delivered) <= 1

\* The calls that reached the database in the last step.
Sent(proc) == {report.delivered[i] : i \in {j \in DOMAIN report.delivered : report.delivered[j].proc = proc}}

Begins(rows, all) == Len(rows) <= Len(all) /\ \A k \in DOMAIN rows : rows[k] = all[k]

\* Readings reach the database as the meter measured them: every value in the
\* place and with the scale of its column, the rows in their order and none
\* twice, whatever m_modereadprofile, the row identifiers and the rows that do
\* not fit; and all the rows that fit, when a command asked for readings.
\* (Without a command it holds for rows in the object's buffer that have no row
\* identifier, see SavedataFromProfileAuto_Core.)
RowsAsMeasured ==
  \A call \in Sent("readings") :
    LET p == report.profile
    IN  IF report.command > 0
        THEN /\ Begins(call.rows, MeasuredRows(p))
             /\ p.relecturas = 1 => call.rows = MeasuredRows(p)
        ELSE p.rowid = 0 /\ p.mode = 0 /\ p.widths # <<>> => Begins(call.rows, MeasuredRows(p))

\* A status reaches the database only for an answer without rows: with rows
\* saved or sent it is refused, and the state the rows imply stands
\* (Session.cpp:1884 calls UpdateCommandState(-2) right after the batch).
StatusWithoutRows ==
  Sent("status") # {} => report.profile = None \/ report.profile.widths = <<>>

\* Session.cpp:886 and 894: a frame without a DLMS answer in it drops a command
\* that a meter has answered only if it is the concentrator's report of an
\* error, although m_typeframe may be one of an earlier frame: neither the rest
\* of a frame nor an unknown one, a heartbeat or an event does, in any order.
\* (Before the first answer such a frame may drop the command with the state of
\* the command before.  An answer, and a part of one too, drops the command by
\* right in m_dlmsstate 20 and 21, Session.cpp:1145 and 1276.)
AnswerProtects ==
  [][idcomando > 0 /\ idcomando' = 0 /\ answered
       => \/ Head(stream) \in {Offline, Refused}
          \/ dlmsstate \in {20, 21} /\ Head(stream) \in {MeterAnswer, MacroAnswer}]_vars

\* Two concentrators never get the same code, which is the key of the map of
\* Server.cpp and of the rows of the database, although Qgdw.cpp:577 puts two
\* numbers of one to three characters next to each other.
CodesDistinct ==
  report.reply # None =>
    \A a \in Addresses : ConcentratorOf(a) = report.reply.code => a = report.reply.from

\* The answer to a heartbeat, whose address is taken back out of the code, goes
\* to the concentrator that sent it, if FrameAddress can name that.
RepliesReachSender ==
  report.reply # None /\ Reachable(report.reply.from) =>
    report.reply.frame.address = report.reply.from

\* Every request says how long it is, to the concentrator and inside.
SizesTold ==
  report.request # None =>
    IF report.request.macro
    THEN MacroFrameTold(report.request.frame, report.request.dlms)
    ELSE MeterFrameTold(report.request.frame, report.request.dlms)

\* An answer, or a part of one, is read while columns or rows are awaited.
AnswerRead ==
  /\ dlmsstate \in {20, 21}
  /\ stream' # stream /\ Len(stream') <= Len(stream) /\ open'
  /\ Head(stream) \in {MeterAnswer, MacroAnswer}

\* It is taken for those, or for a block of them.
AnswerTaken ==
  \/ loop'
  \/ dlmsstate = 20 /\ dlmsstate' # 20
  \/ dlmsstate = 21 /\ report'.profile # None

\* Session.cpp:909: an answer, or a part of one, that is read while columns or
\* rows are awaited is taken for those, or for a block of them, whatever frames
\* came before it: m_frametype is never that of a heartbeat or of an event.
AnswersReachHandler == [][AnswerRead => AnswerTaken]_vars
=============================================================================
