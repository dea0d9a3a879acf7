-------------------------- MODULE DcuSessionProofs --------------------------
(***************************************************************************)
(* For any commands, objects and bound: no command is saved more often     *)
(* than the database handed it out, a session whose read loop has ended    *)
(* takes one command at most, a state without a case is only left by an    *)
(* error report, and profiles read from a concentrator without errors are  *)
(* neither interrupted nor saved under another command.                    *)
(***************************************************************************)
EXTENDS DcuSession, TLAPS

USE DcuSessionAssumption

-----------------------------------------------------------------------------
(* Saves and hand-outs.  The hand-out that gave m_idcomando its value has  *)
(* not been used up: every save clears m_idcomando.                        *)

Accounted ==
  /\ handed \in [Commands -> Nat] /\ saves \in [Commands -> Nat]
  /\ idcomando \in Ids
  /\ \A c \in Commands : saves[c] <= handed[c]
  /\ \A c \in Commands : idcomando = c => saves[c] < handed[c]

\* What a save does to the accounts, if it happens.
LEMMA SaveCounts ==
  ASSUME NEW record, NEW idle, Save(record, idle)
  PROVE  \/ saves' = saves
         \/ idcomando # None /\ saves' = [saves EXCEPT ![idcomando] = @ + 1]
BY DEF Save, hist

LEMMA SaveDataCounts ==
  ASSUME NEW rows, NEW idle, SaveData(rows, idle)
  PROVE  \/ saves' = saves
         \/ idcomando # None /\ saves' = [saves EXCEPT ![idcomando] = @ + 1]
<1>1. CASE \E record : Save(record, idle)
  BY <1>1, SaveCounts
<1>2. CASE UNCHANGED saves
  BY <1>2
<1> QED
  BY <1>1, <1>2 DEF SaveData, SaveDataFromProfile_Core, SavedataFromProfileAuto_Core, hist

\* A step that hands nothing out, and saves only under the id it clears.
Settled ==
  /\ handed' = handed
  /\ \/ saves' = saves /\ idcomando' \in {idcomando, None}
     \/ /\ idcomando # None /\ idcomando' = None
        /\ saves' = [saves EXCEPT ![idcomando] = @ + 1]

LEMMA SettledAccounts ==
  ASSUME Accounted, Settled
  PROVE  Accounted'
<1>1. CASE saves' = saves /\ idcomando' \in {idcomando, None}
  BY <1>1 DEF Accounted, Settled, Ids
<1>2. CASE /\ idcomando # None /\ idcomando' = None
           /\ saves' = [saves EXCEPT ![idcomando] = @ + 1]
  <2>1. idcomando \in Commands
    BY <1>2 DEF Accounted, Ids
  <2>2. saves' \in [Commands -> Nat]
    BY <1>2, <2>1 DEF Accounted
  <2>3. \A c \in Commands : saves'[c] <= handed'[c]
    BY <1>2, <2>1 DEF Accounted, Settled
  <2> QED
    BY <1>2, <2>2, <2>3 DEF Accounted, Settled, Ids
<1> QED BY <1>1, <1>2 DEF Settled

\* Every answer settles.
LEMMA AnsweredSettled ==
  ASSUME NEW r, Answered(r)
  PROVE  Settled
<1>1. ASSUME MoreData(r) \/ BlockRefused(r) \/ Crash(r) PROVE Settled
  BY <1>1 DEF MoreData, BlockRefused, Crash, Settled, hist, command
<1>2. ASSUME AAREAccepted(r) PROVE Settled
  BY <1>2 DEF AAREAccepted, Settled, hist, command
<1>3. ASSUME NEW kind, \/ Unhandled(r, kind) \/ UAResponse(r, kind) \/ AARERejected(r, kind)
                       \/ StrayInstant(r, kind) \/ SaveRowsThrows(r, kind)
                       \/ AskScales(r, kind) \/ AskRows(r, kind) \/ NextInstant(r, kind)
      PROVE  Settled
  BY <1>3 DEF Unhandled, UAResponse, AARERejected, StrayInstant, SaveRowsThrows,
              AskScales, AskRows, NextInstant, Settled, hist, command
<1>4. ASSUME NEW kind, NoProfile(r, kind) \/ OtherProfile(r, kind) PROVE Settled
  BY <1>4 DEF NoProfile, OtherProfile, Drop, Settled, hist
<1>5. ASSUME NEW kind, LastInstant(r, kind) PROVE Settled
  <2>1. \/ saves' = saves
        \/ idcomando # None /\ saves' = [saves EXCEPT ![idcomando] = @ + 1]
    <3>1. CASE \E record : Save(record, db = "idle")
      BY <3>1, SaveCounts
    <3>2. CASE UNCHANGED saves
      BY <3>2
    <3> QED BY <1>5, <3>1, <3>2 DEF LastInstant, hist
  <2> QED BY <1>5, <2>1 DEF LastInstant, Settled
<1>6. ASSUME NEW kind, SaveRows(r, kind) PROVE Settled
  <2>1. SaveData(reply', db = "idle")
    BY <1>6 DEF SaveRows
  <2> QED BY <1>6, <2>1, SaveDataCounts DEF SaveRows, Drop, Settled
<1> QED BY <1>1, <1>2, <1>3, <1>4, <1>5, <1>6 DEF Answered

LEMMA AccountedStep ==
  ASSUME Accounted, [Next]_vars
  PROVE  Accounted'
<1>1. ASSUME NEW c \in Commands, PollAnswered(c) PROVE Accounted'
  <2>1. /\ handed' = [handed EXCEPT ![c] = @ + 1] /\ saves' = saves
        /\ idcomando' \in {c, None}
    BY <1>1 DEF PollAnswered, IdOf, hist
  <2> QED BY <2>1 DEF Accounted, Ids
<1>2. ASSUME \/ CallDone \/ CallFailed \/ OthersUse \/ Poll \/ PollSkipped
             \/ PollEmpty \/ LoopEnds \/ Gone \/ UNCHANGED vars
      PROVE  Settled
  BY <1>2 DEF CallDone, CallFailed, OthersUse, Poll, PollSkipped, PollEmpty,
              LoopEnds, Gone, Settled, vars, hist, command
<1>3. ASSUME \/ Report \/ ReportRefused \/ ReportDone \/ ReportFailed
             \/ PerfilDone \/ PerfilFailed \/ ScalesFailed
      PROVE  Settled
  BY <1>3 DEF Report, ReportRefused, ReportDone, ReportFailed, PerfilDone,
              PerfilFailed, ScalesFailed, Settled, hist, command
<1>4. ASSUME ErrorFrame PROVE Settled
  BY <1>4 DEF ErrorFrame, Drop, Settled, hist
<1>5. ASSUME ScalesArrived PROVE Settled
  <2>1. CASE SaveData(reply, TRUE)
    BY <1>5, <2>1, SaveDataCounts DEF ScalesArrived, Drop, Settled
  <2>2. CASE UNCHANGED saves
    BY <1>5, <2>2 DEF ScalesArrived, Drop, Settled
  <2> QED BY <1>5, <2>1, <2>2 DEF ScalesArrived, hist
<1> QED
  BY <1>1, <1>2, <1>3, <1>4, <1>5, AnsweredSettled, SettledAccounts DEF Next

\* A command is saved at most once for each time the database hands it out.
THEOREM SavedOncePerHandout == Spec => []OneSavePerHandout
<1>1. Init => Accounted
  BY DEF Init, Accounted, Ids
<1>2. Accounted /\ [Next]_vars => Accounted'
  BY AccountedStep
<1>3. Accounted => OneSavePerHandout
  BY DEF Accounted, OneSavePerHandout
<1> QED BY <1>1, <1>2, <1>3, PTL DEF Spec

-----------------------------------------------------------------------------
(* Sessions whose read loop has ended.  Nothing in such a session clears   *)
(* m_inprogress, which its one command has set: the handlers that would    *)
(* run only while the socket is read.                                      *)

Bereft ==
  /\ ~open => at \in {"read", "crashed"}
  /\ orphans \in {0, 1}
  /\ orphans = 1 => ~open /\ inprogress # 0 /\ db # "poll"

\* The read loop handles an answer while the socket is open.
LEMMA AnsweredOpen ==
  ASSUME NEW r, Answered(r)
  PROVE  /\ open /\ at = "read" /\ orphans' = orphans
         /\ ~open' => at' \in {"read", "crashed"}
<1>1. ASSUME MoreData(r) \/ BlockRefused(r) \/ Crash(r) \/ AAREAccepted(r)
      PROVE  /\ Reading /\ orphans' = orphans
             /\ ~open' => at' \in {"read", "crashed"}
  BY <1>1 DEF MoreData, BlockRefused, Crash, AAREAccepted, Complete, Reading
<1>2. ASSUME NEW kind, \/ Unhandled(r, kind) \/ UAResponse(r, kind) \/ AARERejected(r, kind)
                       \/ NextInstant(r, kind) \/ LastInstant(r, kind) \/ StrayInstant(r, kind)
      PROVE  /\ Reading /\ orphans' = orphans
             /\ ~open' => at' \in {"read", "crashed"}
  BY <1>2 DEF Unhandled, UAResponse, AARERejected, NextInstant, LastInstant,
              StrayInstant, InstantResponse, Complete, Reading
<1>3. ASSUME NEW kind, \/ NoProfile(r, kind) \/ OtherProfile(r, kind) \/ AskRows(r, kind)
                       \/ SaveRows(r, kind) \/ SaveRowsThrows(r, kind) \/ AskScales(r, kind)
      PROVE  /\ Reading /\ orphans' = orphans
             /\ ~open' => at' \in {"read", "crashed"}
  BY <1>3 DEF NoProfile, OtherProfile, AskRows, SaveRows, SaveRowsThrows, AskScales,
              Columns, Rows, Complete, Reading, EndLoop
<1> QED BY <1>1, <1>2, <1>3 DEF Answered, Reading

LEMMA BereftStep ==
  ASSUME Bereft, [Next]_vars
  PROVE  Bereft'
<1>1. ASSUME NEW c \in Commands, PollAnswered(c) PROVE Bereft'
  <2>1. /\ orphans = 0 /\ db = "poll" /\ UNCHANGED <<open, at>>
        /\ orphans' = IF open \/ c \in Macros THEN orphans ELSE orphans + 1
        /\ db' \in {"call", "idle"}
    BY <1>1 DEF Bereft, PollAnswered, InitConnection
  <2>2. orphans' = 1 => inprogress' # 0
    \* The row begins a command, or the command begun before is still there.
    <3> SUFFICES ASSUME orphans' = 1 PROVE inprogress' # 0
      OBVIOUS
    <3>1. c \notin Macros
      BY <2>1
    <3>2. CASE inprogress = 0
      BY <1>1, <3>1, <3>2 DEF PollAnswered, InitConnection
    <3>3. CASE inprogress # 0
      BY <1>1, <3>3 DEF PollAnswered
    <3> QED BY <3>2, <3>3
  <2> QED BY <2>1, <2>2 DEF Bereft
<1>2. CASE \/ CallDone \/ CallFailed \/ OthersUse \/ Poll \/ PollSkipped
           \/ PollEmpty \/ LoopEnds \/ Gone \/ UNCHANGED vars
  BY <1>2 DEF Bereft, CallDone, CallFailed, OthersUse, Poll, PollSkipped, PollEmpty,
              LoopEnds, Reading, EndLoop, Gone, vars, dlms
<1>3. CASE \/ Report \/ ReportRefused \/ ReportDone \/ ReportFailed
           \/ PerfilDone \/ PerfilFailed \/ ScalesFailed
  BY <1>3 DEF Bereft, Report, ReportRefused, ReportDone, ReportFailed, PerfilDone,
              PerfilFailed, ScalesFailed, Reading, EndLoop, dlms
<1>4. CASE ErrorFrame
  BY <1>4 DEF Bereft, ErrorFrame, Reading
<1>5. CASE ScalesArrived
  BY <1>5 DEF Bereft, ScalesArrived
<1>6. ASSUME NEW r, Answered(r) PROVE Bereft'
  BY <1>6, AnsweredOpen DEF Bereft
<1> QED
  BY <1>1, <1>2, <1>3, <1>4, <1>5, <1>6 DEF Next

\* A session whose read loop has ended takes one meter command at most.
THEOREM DeadSessionBounded == Spec => []DeadSessionTakesOne
<1>1. Init => Bereft
  BY DEF Init, Bereft
<1>2. Bereft /\ [Next]_vars => Bereft'
  BY BereftStep
<1>3. Bereft => DeadSessionTakesOne
  BY DEF Bereft, DeadSessionTakesOne
<1> QED BY <1>1, <1>2, <1>3, PTL DEF Spec

-----------------------------------------------------------------------------
(* Relay and event commands.  In their states no answer has a case, and    *)
(* the one handler that ends a command after a wait is not waiting.        *)

Stranded == dlmsstate \in {9, 50}

ScalesOfProfile == at = "save" => ~Stranded

\* An answer that finds no case changes nothing of the command.
LEMMA AnsweredStranded ==
  ASSUME NEW r, Answered(r), Stranded
  PROVE  UNCHANGED <<at, idcomando, inprogress, dlmsstate>>
<1>1. ASSUME MoreData(r) \/ BlockRefused(r)
      PROVE  UNCHANGED <<at, idcomando, inprogress, dlmsstate>>
  BY <1>1 DEF MoreData, BlockRefused, command, dlms
<1>2. ~AAREAccepted(r) /\ ~Crash(r)
  BY DEF Stranded, AAREAccepted, Crash
<1>3. ASSUME NEW kind, Unhandled(r, kind)
      PROVE  UNCHANGED <<at, idcomando, inprogress, dlmsstate>>
  BY <1>3 DEF Unhandled, command, dlms
<1>4. ASSUME NEW kind, \/ UAResponse(r, kind) \/ AARERejected(r, kind)
                       \/ NextInstant(r, kind) \/ LastInstant(r, kind) \/ StrayInstant(r, kind)
      PROVE  dlmsstate \in {1, 2, 11}
  BY <1>4 DEF UAResponse, AARERejected, NextInstant, LastInstant, StrayInstant,
              InstantResponse
<1>5. ASSUME NEW kind, \/ NoProfile(r, kind) \/ OtherProfile(r, kind) \/ AskRows(r, kind)
                       \/ SaveRows(r, kind) \/ SaveRowsThrows(r, kind) \/ AskScales(r, kind)
      PROVE  dlmsstate \in {20, 21}
  BY <1>5 DEF NoProfile, OtherProfile, AskRows, SaveRows, SaveRowsThrows, AskScales,
              Columns, Rows
<1>6. dlmsstate \notin {1, 2, 11, 20, 21}
  BY DEF Stranded
<1> QED BY <1>1, <1>2, <1>3, <1>4, <1>5, <1>6 DEF Answered

\* The scales are asked for in the middle of a profile.
LEMMA AnsweredScales ==
  ASSUME NEW r, Answered(r), at' = "save"
  PROVE  ~Stranded'
<1>1. at = "read"
  BY AnsweredOpen
<1>2. ASSUME MoreData(r) \/ BlockRefused(r) \/ AAREAccepted(r) \/ Crash(r)
      PROVE  at' # "save"
  BY <1>1, <1>2 DEF MoreData, BlockRefused, AAREAccepted, Crash
<1>3. ASSUME NEW kind, \/ Unhandled(r, kind) \/ UAResponse(r, kind) \/ AARERejected(r, kind)
                       \/ NextInstant(r, kind) \/ LastInstant(r, kind) \/ StrayInstant(r, kind)
      PROVE  at' # "save"
  BY <1>1, <1>3 DEF Unhandled, UAResponse, AARERejected, NextInstant, LastInstant,
                    StrayInstant
<1>4. ASSUME NEW kind, \/ NoProfile(r, kind) \/ OtherProfile(r, kind) \/ AskRows(r, kind)
                       \/ SaveRows(r, kind) \/ SaveRowsThrows(r, kind)
      PROVE  at' # "save"
  BY <1>1, <1>4 DEF NoProfile, OtherProfile, AskRows, SaveRows, SaveRowsThrows, EndLoop
<1>5. ASSUME NEW kind, AskScales(r, kind) PROVE ~Stranded'
  BY <1>5 DEF AskScales, Rows, Stranded, dlms
<1> QED BY <1>2, <1>3, <1>4, <1>5 DEF Answered

LEMMA ScalesStep ==
  ASSUME ScalesOfProfile, [Next]_vars
  PROVE  ScalesOfProfile'
<1>1. ASSUME NEW c \in Commands, PollAnswered(c) PROVE ScalesOfProfile'
  <2>1. at' = at /\ (dlmsstate' = dlmsstate \/ dlmsstate' = 1)
    BY <1>1 DEF PollAnswered, InitConnection
  <2> QED BY <2>1 DEF ScalesOfProfile, Stranded
<1>2. CASE \/ CallDone \/ CallFailed \/ OthersUse \/ Poll \/ PollSkipped
           \/ PollEmpty \/ LoopEnds \/ Gone \/ UNCHANGED vars
  BY <1>2 DEF ScalesOfProfile, Stranded, CallDone, CallFailed, OthersUse, Poll,
              PollSkipped, PollEmpty, LoopEnds, EndLoop, Gone, vars, dlms
<1>3. CASE \/ Report \/ ReportRefused \/ ReportDone \/ ReportFailed
           \/ PerfilDone \/ PerfilFailed \/ ScalesFailed
  BY <1>3 DEF ScalesOfProfile, Stranded, Report, ReportRefused, ReportDone,
              ReportFailed, PerfilDone, PerfilFailed, ScalesFailed, EndLoop, dlms
<1>4. CASE ErrorFrame
  BY <1>4 DEF ScalesOfProfile, ErrorFrame, Reading
<1>5. CASE ScalesArrived
  BY <1>5 DEF ScalesOfProfile, ScalesArrived
<1>6. ASSUME NEW r, Answered(r) PROVE ScalesOfProfile'
  BY <1>6, AnsweredScales DEF ScalesOfProfile
<1> QED
  BY <1>1, <1>2, <1>3, <1>4, <1>5, <1>6 DEF Next

LEMMA ReleaseStep ==
  ASSUME ScalesOfProfile, [Next]_vars,
         inprogress = 1, inprogress' = 0, Stranded
  PROVE  idcomando # None /\ idcomando' = None
<1>1. inprogress' # inprogress
  OBVIOUS
<1>2. ASSUME NEW c \in Commands, PollAnswered(c) PROVE FALSE
  BY <1>2 DEF PollAnswered, InitConnection
<1>3. ASSUME \/ CallDone \/ CallFailed \/ OthersUse \/ Poll \/ PollSkipped
             \/ PollEmpty \/ LoopEnds \/ Gone \/ UNCHANGED vars
      PROVE  FALSE
  BY <1>1, <1>3 DEF CallDone, CallFailed, OthersUse, Poll, PollSkipped, PollEmpty,
                    LoopEnds, Gone, vars, dlms
<1>4. ASSUME \/ Report \/ ReportRefused \/ ReportDone \/ ReportFailed
             \/ PerfilDone \/ PerfilFailed \/ ScalesFailed
      PROVE  FALSE
  BY <1>1, <1>4 DEF Report, ReportRefused, ReportDone, ReportFailed, PerfilDone,
                    PerfilFailed, ScalesFailed, dlms
<1>5. ASSUME ErrorFrame PROVE idcomando # None /\ idcomando' = None
  BY <1>5 DEF ErrorFrame, Drop
<1>6. ~ScalesArrived
  BY DEF ScalesArrived, ScalesOfProfile
<1>7. ASSUME NEW r, Answered(r) PROVE FALSE
  BY <1>1, <1>7, AnsweredStranded
<1> QED BY <1>2, <1>3, <1>4, <1>5, <1>6, <1>7 DEF Next

\* A relay or event command is never released as if it had been run.
THEOREM ReleasedByErrors == Spec => OnlyErrorsRelease
<1>1. Init => ScalesOfProfile
  BY DEF Init, ScalesOfProfile
<1>2. ScalesOfProfile /\ [Next]_vars => ScalesOfProfile'
  BY ScalesStep
<1>3. ScalesOfProfile /\ [Next]_vars =>
        [inprogress = 1 /\ inprogress' = 0 /\ dlmsstate \in {9, 50}
           => idcomando # None /\ idcomando' = None]_vars
  BY ReleaseStep DEF Stranded
<1> QED BY <1>1, <1>2, <1>3, PTL DEF Spec, OnlyErrorsRelease

-----------------------------------------------------------------------------
(* Types.  The handlers use the row polled last, which is there since the  *)
(* dialogue only leaves m_dlmsstate 0 with it.                             *)

Types == TypeOK /\ (dlmsstate # 0 => polled # None)

Requests == [kind : {"ua", "aare", "object", "columns", "rows"}, cmd : Commands]

Records == [cmd : Ids, row : Ids, from : SUBSET Commands, blank : BOOLEAN]

LEMMA RequestType ==
  ASSUME NEW kind \in {"ua", "aare", "object", "columns", "rows"}, NEW c \in Commands
  PROVE  Request(kind, c) \in Requests
BY DEF Request, Requests

\* The air keeps its type when a handler sends requests.
LEMMA AirType ==
  ASSUME Types, NEW r, NEW sent \in SUBSET Requests, Air(r, sent)
  PROVE  air' \subseteq Requests
BY DEF Types, TypeOK, Requests, Air

LEMMA ContentType ==
  ASSUME Types, NEW r \in air, NEW kind
  PROVE  Content(r, kind) \subseteq Commands /\ Partial \subseteq Commands /\ r.cmd \in Commands
BY DEF Types, TypeOK, Content, Partial

LEMMA RecordType ==
  ASSUME Types, NEW from \in SUBSET Commands, NEW blank \in BOOLEAN
  PROVE  Record(from, blank) \in Records
BY DEF Types, TypeOK, Record, Records

\* What a save leaves of the types.
LEMMA SaveType ==
  ASSUME Types, NEW record \in Records, NEW idle \in BOOLEAN, Save(record, idle)
  PROVE  /\ saved' \subseteq Records /\ saves' \in [Commands -> Nat]
         /\ db' \in {db, "call"} /\ (db' # db => idle)
<1>1. CASE idle
  <2>1. saved' = saved \union {record}
    BY <1>1 DEF Save
  <2>2. saves' \in [Commands -> Nat]
    <3>0. saves \in [Commands -> Nat] /\ idcomando \in Ids
      BY DEF Types, TypeOK
    <3>1. CASE idcomando = None
      BY <1>1, <3>0, <3>1 DEF Save
    <3>2. CASE idcomando # None
      BY <1>1, <3>0, <3>2 DEF Save, Ids
    <3> QED BY <3>1, <3>2
  <2> QED BY <1>1, <2>1, <2>2 DEF Save, Types, TypeOK, Records
<1>2. CASE ~idle
  BY <1>2 DEF Save, hist, Types, TypeOK, Records
<1> QED BY <1>1, <1>2

LEMMA SaveDataType ==
  ASSUME Types, NEW rows \in SUBSET Commands, NEW idle \in BOOLEAN, SaveData(rows, idle)
  PROVE  /\ saved' \subseteq Records /\ saves' \in [Commands -> Nat]
         /\ db' \in {db, "call", "idle"} /\ (db' # db => idle)
<1>1. CASE Save(Record(rows, FALSE), idle)
  BY <1>1, RecordType, SaveType
<1>2. CASE UNCHANGED hist /\ db' \in {db, "call", "idle"} /\ (db' # db => idle)
  BY <1>2 DEF hist, Types, TypeOK, Records
<1> QED
  BY <1>1, <1>2 DEF SaveData, SaveDataFromProfile_Core, SavedataFromProfileAuto_Core

\* The connection and where the read loop is; most steps touch nothing else.
Connected ==
  /\ open \in BOOLEAN
  /\ at \in {"read", "report", "perfil", "save", "crashed"}
  /\ db \in {"idle", "poll", "call", "handler", "others", "stuck"}
  /\ db = "handler" <=> at \in {"report", "perfil", "save"}

LEMMA OnlyConnected ==
  ASSUME Types, Connected', UNCHANGED <<command, dlms, iv, rx, handed, hist, orphans>>
  PROVE  Types'
<1>1. /\ UNCHANGED <<polled, idcomando, inprogress, dlmsstate, initialization>>
      /\ UNCHANGED <<numperfil, indexiv, values, loop, reply, air, handed>>
      /\ UNCHANGED <<saves, saved, orphans>>
  BY DEF command, dlms, iv, rx, hist
<1> QED BY <1>1 DEF Types, TypeOK, Connected

LEMMA ConnectionTypes ==
  ASSUME Types, \/ CallDone \/ CallFailed \/ OthersUse \/ Poll \/ PollSkipped
                \/ PollEmpty \/ LoopEnds \/ Gone \/ UNCHANGED vars
  PROVE  Types'
<1>1. Connected
  BY DEF Types, TypeOK, Connected
<1>2. CASE PollSkipped \/ Gone \/ UNCHANGED vars
  <2>1. UNCHANGED <<open, at, db>> /\ UNCHANGED <<command, dlms, iv, rx, handed, hist, orphans>>
    BY <1>2 DEF PollSkipped, Gone, vars
  <2> QED BY <1>1, <2>1, OnlyConnected DEF Connected
<1>3. CASE CallDone \/ CallFailed \/ OthersUse \/ Poll \/ PollEmpty
  <2>1. /\ UNCHANGED <<open, at>> /\ db # "handler"
        /\ db' \in {"idle", "stuck", "others", "poll"}
    BY <1>3 DEF CallDone, CallFailed, OthersUse, Poll, PollEmpty
  <2>2. UNCHANGED <<command, dlms, iv, rx, handed, hist, orphans>>
    BY <1>3 DEF CallDone, CallFailed, OthersUse, Poll, PollEmpty
  <2>3. Connected'
    BY <1>1, <2>1 DEF Connected
  <2> QED BY <2>2, <2>3, OnlyConnected
<1>4. CASE LoopEnds
  <2>1. Connected'
    BY <1>1, <1>4 DEF Connected, LoopEnds, Reading, EndLoop
  <2> QED BY <1>4, <2>1, OnlyConnected DEF LoopEnds
<1> QED BY <1>2, <1>3, <1>4

LEMMA ReportTypes ==
  ASSUME Types, \/ Report \/ ReportRefused \/ ReportDone \/ ReportFailed
                \/ PerfilDone \/ PerfilFailed \/ ScalesFailed
  PROVE  Types'
<1>1. Connected
  BY DEF Types, TypeOK, Connected
<1>2. Connected'
  <2>1. CASE Report \/ ReportRefused \/ ReportDone
    BY <1>1, <2>1 DEF Connected, Report, ReportRefused, ReportDone, Reading, EndLoop
  <2>2. CASE ReportFailed \/ PerfilDone \/ PerfilFailed \/ ScalesFailed
    BY <1>1, <2>2 DEF Connected, ReportFailed, PerfilDone, PerfilFailed, ScalesFailed, EndLoop
  <2> QED BY <2>1, <2>2
<1>3. UNCHANGED <<command, dlms, iv, rx, handed, hist, orphans>>
  BY DEF Report, ReportRefused, ReportDone, ReportFailed, PerfilDone, PerfilFailed, ScalesFailed
<1> QED BY <1>2, <1>3, OnlyConnected

LEMMA PollTypes ==
  ASSUME Types, NEW c \in Commands, PollAnswered(c)
  PROVE  Types'
<1>1. /\ handed' \in [Commands -> Nat] /\ polled' = c /\ idcomando' \in Ids /\ c # None
      /\ orphans' \in Nat
      /\ UNCHANGED <<open, at, numperfil, indexiv, values, loop, reply, saves, saved>>
  BY DEF PollAnswered, IdOf, Ids, Types, TypeOK, iv, hist
<1>2. /\ db = "poll" /\ db' \in {"call", "idle"}
      /\ inprogress' \in {0, 1} /\ dlmsstate' \in {1, dlmsstate}
      /\ initialization' \in {0, -1}
  BY DEF PollAnswered, InitConnection, Types, TypeOK
<1>3. air' \subseteq Requests
  BY RequestType DEF PollAnswered, InitConnection, Types, TypeOK, Requests
<1>4. /\ open' \in BOOLEAN /\ at' \in {"read", "crashed"}
      /\ db' \in {"idle", "call"} /\ polled' \in Ids
  BY <1>1, <1>2 DEF Types, TypeOK, Ids
<1>5. /\ indexiv' \in Nat /\ values' \in Seq([from : Commands, of : SUBSET Commands])
      /\ loop' \in BOOLEAN /\ reply' \subseteq Commands /\ saves' \in [Commands -> Nat]
      /\ saved' \subseteq [cmd : Ids, row : Ids, from : SUBSET Commands, blank : BOOLEAN]
      /\ numperfil' \in {-1, 0, 1}
      /\ dlmsstate' \in {0, 1, 2, 9, 11, 20, 21, 50}
  BY <1>1, <1>2 DEF Types, TypeOK
<1> QED BY <1>1, <1>2, <1>3, <1>4, <1>5 DEF Types, TypeOK, Requests

LEMMA ErrorFrameTypes ==
  ASSUME Types, ErrorFrame
  PROVE  Types'
BY DEF Types, TypeOK, ErrorFrame, Reading, UpdateCommandState, Issue, Drop, Ids, iv, rx, hist

\* An answer whose handler leaves the values and what was saved alone.
LEMMA AnswerTypes ==
  ASSUME Types, UNCHANGED <<open, at, iv, handed, hist, orphans>>,
         polled' = polled, idcomando' \in {idcomando, None},
         db' \in {db, "call"}, db' # db => db = "idle",
         inprogress' \in {0, 1}, initialization' \in {0, -1}, numperfil' \in {-1, 0, 1},
         dlmsstate' \in {0, 1, 2, 9, 11, 20, 21, 50}, dlmsstate' # 0 => dlmsstate # 0,
         loop' \in BOOLEAN, reply' \subseteq Commands, air' \subseteq Requests
  PROVE  Types'
<1>1. Connected'
  BY DEF Types, TypeOK, Connected
<1>2. /\ UNCHANGED <<polled, indexiv, values, handed, saves, saved, orphans>>
      /\ idcomando' \in Ids
  BY DEF iv, hist, Types, TypeOK, Ids
<1> QED BY <1>1, <1>2 DEF Types, TypeOK, Connected, Requests

\* Answers that change nothing but what is in the air, and the dialogue up to
\* the association.
LEMMA BlockTypes ==
  ASSUME Types, NEW r \in air, MoreData(r) \/ BlockRefused(r)
  PROVE  Types'
<1>1. Partial \union {r.cmd} \subseteq Commands
  BY ContentType
<1>2. /\ loop' \in BOOLEAN /\ reply' \subseteq Commands /\ air' \subseteq Requests
      /\ UNCHANGED <<open, at, db, command, dlms, iv, handed, hist, orphans>>
  BY <1>1 DEF Types, TypeOK, Requests, MoreData, BlockRefused, rx
<1>3. UNCHANGED <<open, at, iv, handed, hist, orphans, inprogress, dlmsstate>>
      /\ UNCHANGED <<db, polled, idcomando, initialization, numperfil>>
  BY <1>2 DEF command, dlms
<1> QED BY <1>2, <1>3, AnswerTypes DEF Types, TypeOK

\* The fields an answer leaves alone.
LEMMA DialogueTypes ==
  ASSUME Types, NEW r \in air, NEW kind,
         Unhandled(r, kind) \/ UAResponse(r, kind) \/ AARERejected(r, kind)
  PROVE  Types'
<1>1. loop' = FALSE /\ reply' \subseteq Commands
  BY ContentType DEF Unhandled, UAResponse, AARERejected, Complete
<1>2. air' \subseteq Requests
  <2>1. CASE Unhandled(r, kind) \/ AARERejected(r, kind)
    BY <2>1, AirType DEF Unhandled, AARERejected
  <2>2. CASE UAResponse(r, kind)
    <3>1. polled \in Commands
      BY <2>2 DEF UAResponse, Types, TypeOK, Ids
    <3>2. {Request("aare", polled)} \in SUBSET Requests
      BY <3>1, RequestType
    <3>3. Air(r, {Request("aare", polled)}) \/ Air(r, {})
      BY <2>2 DEF UAResponse
    <3> QED BY <3>2, <3>3, AirType
  <2> QED BY <2>1, <2>2
<1>3. /\ dlmsstate' \in {0, 1, 2, 9, 50} \/ dlmsstate' = dlmsstate
      /\ dlmsstate' # 0 => dlmsstate # 0
      /\ initialization' \in {0, -1}
      /\ UNCHANGED <<open, at, db, command, inprogress, numperfil, iv, handed, hist, orphans>>
  BY DEF Unhandled, UAResponse, AARERejected, Types, TypeOK, dlms
<1>4. dlmsstate' \in {0, 1, 2, 9, 11, 20, 21, 50} /\ dlmsstate \in {0, 1, 2, 9, 11, 20, 21, 50}
  BY <1>3 DEF Types, TypeOK
<1>5. polled' = polled /\ idcomando' = idcomando /\ db' = db
      /\ inprogress' \in {0, 1} /\ numperfil' \in {-1, 0, 1}
  BY <1>3 DEF Types, TypeOK, command
<1>6. UNCHANGED <<open, at, iv, handed, hist, orphans>>
  BY <1>3
<1>7. loop' \in BOOLEAN
  BY <1>1
<1> QED BY <1>1, <1>2, <1>3, <1>4, <1>5, <1>6, <1>7, AnswerTypes

\* The association: what each kind of command sends.
LEMMA ProcessComandTypes ==
  ASSUME Types, NEW c \in Commands, NEW r, ProcessComand(c, r)
  PROVE  /\ air' \subseteq Requests /\ dlmsstate' \in {0, 9, 11, 20, 50}
         /\ inprogress' \in {0, 1} /\ numperfil' \in {-1, 0, 1}
<1>1. air' \subseteq Requests
  <2>1. PICK sent \in {{}, {Request("object", c)}, {Request("columns", c)}} : Air(r, sent)
    BY DEF ProcessComand, SendInstantaneousValues, SendProfileGeneric,
           SendProfileGenericBase, DisconnectControl, SendNothing
  <2>2. sent \in SUBSET Requests
    BY <2>1, RequestType
  <2> QED BY <2>1, <2>2, AirType
<1>2. Numperfil(c) \in {-1, 0, 1}
  BY DEF Numperfil, Types, TypeOK
<1> QED
  BY <1>1, <1>2 DEF ProcessComand, SendInstantaneousValues, SendProfileGeneric,
     SendProfileGenericBase, DisconnectControl, SendNothing, Types, TypeOK

LEMMA AssociationTypes ==
  ASSUME Types, NEW r \in air, AAREAccepted(r) \/ Crash(r)
  PROVE  Types'
<1>1. CASE AAREAccepted(r)
  <2>1. /\ polled \in Commands /\ loop' = FALSE /\ reply' \subseteq Commands
        /\ open /\ at = "read"
    BY <1>1, ContentType DEF AAREAccepted, Complete, Reading, Types, TypeOK, Ids
  <2>2. /\ air' \subseteq Requests /\ dlmsstate' \in {0, 9, 11, 20, 50}
        /\ inprogress' \in {0, 1} /\ numperfil' \in {-1, 0, 1}
    BY <1>1, <2>1, ProcessComandTypes DEF AAREAccepted
  <2>3. /\ initialization' = 0 /\ db' \in {db, "call"} /\ (db' # db => db = "idle")
        /\ UNCHANGED <<open, at, command, iv, handed, hist, orphans>>
    BY <1>1 DEF AAREAccepted, Issue
  <2> QED BY <2>1, <2>2, <2>3 DEF Types, TypeOK, Ids, Requests, command, iv, hist
<1>2. CASE Crash(r)
  <2>1. air' \subseteq Requests
    BY <1>2, AirType DEF Crash
  <2>2. /\ loop' = FALSE /\ open' = FALSE /\ at' = "crashed" /\ db' = "stuck"
        /\ UNCHANGED <<command, dlms, iv, reply, handed, hist, orphans>>
    BY <1>2 DEF Crash, Complete
  <2> QED BY <2>1, <2>2 DEF Types, TypeOK, Requests, command, dlms, iv, hist
<1> QED BY <1>1, <1>2

\* The values of the objects read one by one.
Measured == [from : Commands, of : SUBSET Commands]

LEMMA NewValuesType ==
  ASSUME Types, NEW r \in air, NEW kind, InstantResponse(r, kind)
  PROVE  /\ NewValues(r) \in Seq(Measured) /\ Len(NewValues(r)) \in Nat
         /\ loop' = FALSE /\ reply' = {} /\ open /\ at = "read" /\ polled \in Commands
<1>1. loop' = FALSE /\ reply' = {} /\ open /\ at = "read" /\ dlmsstate = 11
  BY DEF InstantResponse, Complete, Reading
<1>2. r.cmd \in Commands /\ polled \in Commands
  BY <1>1, ContentType DEF Types, TypeOK, Ids
<1>3. [from |-> r.cmd, of |-> reply'] \in Measured
  BY <1>1, <1>2 DEF Measured
<1>4. values \in Seq(Measured)
  BY DEF Types, TypeOK, Measured
<1> HIDE DEF Measured
<1>5. Append(values, [from |-> r.cmd, of |-> reply']) \in Seq(Measured)
  BY <1>3, <1>4
<1>6. NewValues(r) \in Seq(Measured)
  BY <1>5 DEF NewValues
<1> QED BY <1>1, <1>2, <1>6

LEMMA InstantTypes ==
  ASSUME Types, NEW r \in air, NEW kind,
         NextInstant(r, kind) \/ StrayInstant(r, kind)
  PROVE  Types'
<1>1. InstantResponse(r, kind) /\ values' = NewValues(r)
  BY DEF NextInstant, StrayInstant
<1>2. /\ values' \in Seq(Measured) /\ loop' = FALSE /\ reply' = {} /\ polled \in Commands
      /\ open /\ at = "read"
  BY <1>1, NewValuesType
<1>3. indexiv' \in Nat
  BY DEF NextInstant, StrayInstant, Types, TypeOK
<1>4. air' \subseteq Requests
  <2>1. Air(r, {Request("object", polled)}) \/ Air(r, {})
    BY DEF NextInstant, StrayInstant
  <2>2. {Request("object", polled)} \in SUBSET Requests
    BY <1>2, RequestType
  <2> QED BY <2>1, <2>2, AirType
<1>5. db' \in {db, "call"} /\ (db' # db => db = "idle")
  BY DEF NextInstant, StrayInstant, UpdateCommandState, Issue
<1>6. UNCHANGED <<open, at, command, dlms, handed, hist, orphans>>
  BY DEF NextInstant, StrayInstant
<1> QED BY <1>2, <1>3, <1>4, <1>5, <1>6
        DEF Types, TypeOK, Requests, Measured, command, dlms, hist

LEMMA LastInstantTypes ==
  ASSUME Types, NEW r \in air, NEW kind, LastInstant(r, kind)
  PROVE  Types'
<1> DEFINE all == {NewValues(r)[i] : i \in DOMAIN NewValues(r)}
           from == {v.from : v \in all}
           blank == \A v \in all : v.of = {}
<1>1. InstantResponse(r, kind)
  BY DEF LastInstant
<1>2. /\ NewValues(r) \in Seq(Measured) /\ loop' = FALSE /\ reply' = {}
      /\ open /\ at = "read"
  BY <1>1, NewValuesType
<1>3. from \in SUBSET Commands /\ blank \in BOOLEAN
  <2>1. \A i \in DOMAIN NewValues(r) : NewValues(r)[i] \in Measured
    BY <1>2
  <2> QED BY <2>1 DEF Measured
<1>4. Record(from, blank) \in Records
  BY <1>3, RecordType
<1>5. Save(Record(from, blank), db = "idle") \/ UNCHANGED <<db, hist>>
  BY DEF LastInstant
<1>6. /\ saved' \subseteq Records /\ saves' \in [Commands -> Nat]
      /\ db' \in {db, "call"} /\ (db' # db => db = "idle")
  <2>1. CASE Save(Record(from, blank), db = "idle")
    <3> HIDE DEF from, blank
    <3> QED BY <1>4, <2>1, SaveType
  <2>2. CASE UNCHANGED <<db, hist>>
    BY <2>2 DEF hist, Types, TypeOK, Records
  <2> QED BY <1>5, <2>1, <2>2
<1> HIDE DEF all, from, blank
<1>7. air' \subseteq Requests
  BY AirType DEF LastInstant
<1>8. /\ values' = <<>> /\ indexiv' = 0 /\ dlmsstate' = 0 /\ inprogress' = 0
      /\ idcomando' = None
      /\ UNCHANGED <<open, at, polled, initialization, numperfil, handed, orphans>>
  BY DEF LastInstant
<1>9. values' \in Seq([from : Commands, of : SUBSET Commands])
  BY <1>8
<1>10. Connected'
  BY <1>2, <1>6, <1>8 DEF Connected, Types, TypeOK
<1> QED BY <1>2, <1>6, <1>7, <1>8, <1>9, <1>10
        DEF Types, TypeOK, Connected, Ids, Requests, Records

\* Profiles.
LEMMA ColumnsTypes ==
  ASSUME Types, NEW r \in air, NEW kind,
         NoProfile(r, kind) \/ OtherProfile(r, kind) \/ AskRows(r, kind)
  PROVE  Types'
<1>1. /\ loop' = FALSE /\ reply' \subseteq Commands /\ polled \in Commands
      /\ open /\ at = "read" /\ dlmsstate = 20
  BY ContentType DEF NoProfile, OtherProfile, AskRows, Columns, Complete, Reading,
                     Types, TypeOK, Ids
<1>2. air' \subseteq Requests
  <2>1. Air(r, {Request("rows", polled)}) \/ Air(r, {})
    BY DEF NoProfile, OtherProfile, AskRows
  <2>2. {Request("rows", polled)} \in SUBSET Requests
    BY <1>1, RequestType
  <2> QED BY <2>1, <2>2, AirType
<1>3. CASE NoProfile(r, kind) \/ AskRows(r, kind)
  <2>1. /\ db' \in {db, "call"} /\ (db' # db => db = "idle")
        /\ UNCHANGED <<open, at, polled, initialization, iv, handed, hist, orphans>>
    BY <1>3 DEF NoProfile, AskRows, UpdateCommandState, Issue, command
  <2>2. /\ dlmsstate' \in {0, 21} /\ inprogress' \in {0, inprogress}
        /\ idcomando' \in {None, idcomando} /\ numperfil' \in {0, numperfil}
    BY <1>3 DEF NoProfile, AskRows, Drop, command
  <2>3. /\ inprogress' \in {0, 1} /\ initialization' \in {0, -1} /\ numperfil' \in {-1, 0, 1}
        /\ dlmsstate' \in {0, 1, 2, 9, 11, 20, 21, 50}
    BY <2>1, <2>2 DEF Types, TypeOK
  <2>4. UNCHANGED <<open, at, iv, handed, hist, orphans>> /\ polled' = polled
    BY <2>1
  <2>5. idcomando' \in {idcomando, None}
    BY <2>2
  <2>6. loop' \in BOOLEAN
    BY <1>1
  <2>7. dlmsstate # 0
    BY <1>1
  <2> QED BY <1>1, <1>2, <2>1, <2>3, <2>4, <2>5, <2>6, <2>7, AnswerTypes
<1>4. CASE OtherProfile(r, kind)
  <2>1. Connected'
    BY <1>1, <1>4 DEF OtherProfile, EndLoop, Connected, Types, TypeOK
  <2>2. /\ dlmsstate' = 0 /\ inprogress' = 0 /\ idcomando' = None /\ numperfil' = 0
        /\ UNCHANGED <<polled, initialization, iv, handed, hist, orphans>>
    BY <1>4 DEF OtherProfile, Drop
  <2> QED BY <1>1, <1>2, <2>1, <2>2
          DEF Types, TypeOK, Connected, Ids, Requests, iv, hist
<1> QED BY <1>3, <1>4

LEMMA RowsTypes ==
  ASSUME Types, NEW r \in air, NEW kind,
         SaveRows(r, kind) \/ SaveRowsThrows(r, kind) \/ AskScales(r, kind)
  PROVE  Types'
<1>1. /\ loop' = FALSE /\ reply' \subseteq Commands
      /\ open /\ at = "read" /\ dlmsstate = 21 /\ air' \subseteq Requests
  BY ContentType, AirType DEF SaveRows, SaveRowsThrows, AskScales, Rows, Complete, Reading
<1>2. CASE SaveRows(r, kind)
  <2>1. /\ saved' \subseteq Records /\ saves' \in [Commands -> Nat]
        /\ db' \in {db, "call", "idle"} /\ (db' # db => db = "idle")
    BY <1>1, <1>2, SaveDataType DEF SaveRows
  <2>2. /\ dlmsstate' = 0 /\ inprogress' = 0 /\ idcomando' = None /\ numperfil' = 0
        /\ UNCHANGED <<open, at, polled, initialization, iv, handed, orphans>>
    BY <1>2 DEF SaveRows, Drop
  <2> QED BY <1>1, <2>1, <2>2 DEF Types, TypeOK, Ids, Requests, Records, iv
<1>3. CASE SaveRowsThrows(r, kind)
  <2>1. UNCHANGED <<open, at, db, command, dlms, iv, handed, hist, orphans>>
    BY <1>3 DEF SaveRowsThrows
  <2> QED BY <1>1, <2>1, AnswerTypes DEF Types, TypeOK, command, dlms
<1>4. CASE AskScales(r, kind)
  <2>1. UNCHANGED <<open, command, dlms, iv, handed, hist, orphans>>
    BY <1>4 DEF AskScales
  <2>2. Connected'
    BY <1>1, <1>4 DEF AskScales, Connected, Types, TypeOK
  <2> QED BY <1>1, <2>1, <2>2
          DEF Types, TypeOK, Connected, Requests, command, dlms, iv, hist
<1> QED BY <1>2, <1>3, <1>4

LEMMA ScalesTypes ==
  ASSUME Types, ScalesArrived
  PROVE  Types'
<1>1. /\ dlmsstate' = 0 /\ inprogress' = 0 /\ idcomando' = None /\ numperfil' = 0
      /\ UNCHANGED <<open, polled, initialization, iv, rx, handed, orphans>>
  BY DEF ScalesArrived, Drop
<1>2. /\ saved' \subseteq Records /\ saves' \in [Commands -> Nat]
      /\ db' \in {"call", "idle"}
  <2>1. CASE SaveData(reply, TRUE)
    <3>1. reply \in SUBSET Commands
      BY DEF Types, TypeOK
    <3>2. db' \in {"call", "idle"}
      BY <2>1 DEF SaveData, SaveDataFromProfile_Core, SavedataFromProfileAuto_Core, Save
    <3> QED BY <2>1, <3>1, <3>2, SaveDataType
  <2>2. CASE db' = "idle" /\ UNCHANGED hist
    BY <2>2 DEF hist, Types, TypeOK, Records
  <2> QED BY <2>1, <2>2 DEF ScalesArrived
<1>3. Connected'
  BY <1>1, <1>2 DEF ScalesArrived, Connected, Types, TypeOK
<1> QED BY <1>1, <1>2, <1>3 DEF Types, TypeOK, Connected, Ids, Records, iv, rx

LEMMA TypesStep ==
  ASSUME Types, [Next]_vars
  PROVE  Types'
<1>1. ASSUME NEW r \in air, Answered(r) PROVE Types'
  BY <1>1, BlockTypes, AssociationTypes, DialogueTypes, InstantTypes, LastInstantTypes,
     ColumnsTypes, RowsTypes DEF Answered
<1> QED
  BY <1>1, ConnectionTypes, PollTypes, ReportTypes, ErrorFrameTypes, ScalesTypes DEF Next

\* Every variable has its type, and what occupies the connection fits where
\* the read loop is.
THEOREM TypeCorrect == Spec => []TypeOK
<1>1. Init => Types
  <2> SUFFICES ASSUME Init PROVE Types
    OBVIOUS
  <2>1. values \in Seq([from : Commands, of : SUBSET Commands])
    BY DEF Init
  <2> QED BY <2>1 DEF Init, Types, TypeOK, Ids
<1>2. Types /\ [Next]_vars => Types'
  BY TypesStep
<1>3. Types => TypeOK
  BY DEF Types
<1> QED BY <1>1, <1>2, <1>3, PTL DEF Spec

-----------------------------------------------------------------------------
(* One command at a time.  A concentrator that reports no error, and whose *)
(* commands neither release m_inprogress before their answers nor belong   *)
(* to its own meter, has one request in the air at most, for the row that  *)
(* was polled last.                                                        *)

ProfilesOnly ==
  /\ ~ErrorFrames /\ Macros = {}
  /\ \A c \in Commands : Kind[c] \in {"profile", "events", "relay"}

AtRest == dlmsstate = 0 /\ inprogress = 0 /\ idcomando = None /\ air = {} /\ ~loop

UnderWay ==
  /\ dlmsstate \in {1, 2, 9, 20, 21, 50} /\ inprogress = 1
  /\ polled \in Commands /\ idcomando = IdOf(polled)
  /\ \A r \in air : r.cmd = polled /\ air = {r}
  /\ loop => reply \subseteq {polled}

OneAtATime ==
  /\ (AtRest /\ at # "save") \/ UnderWay
  /\ db = "poll" => inprogress = 0
  /\ at = "save" => dlmsstate = 21 /\ reply \subseteq {polled} /\ air = {} /\ ~loop

\* What a step may do to the command under way and to what was saved.
Keeps ==
  inprogress = 1 \/ idcomando # None =>
    polled' = polled /\ idcomando' = IF inprogress' = 1 THEN idcomando ELSE None

Orderly == OneAtATime' /\ (SavedUnderOwnRow => SavedUnderOwnRow') /\ Keeps

\* Steps that neither take a command nor an answer.
LEMMA QuietOrderly ==
  ASSUME OneAtATime, UNCHANGED <<command, dlms, rx, hist>>,
         db' = "poll" => inprogress = 0,
         at' = "save" => at = "save"
  PROVE  Orderly
<1>1. UNCHANGED <<polled, idcomando, inprogress, dlmsstate, loop, reply, air, saved>>
  BY DEF command, dlms, rx, hist
<1> QED BY <1>1 DEF Orderly, Keeps, OneAtATime, AtRest, UnderWay, SavedUnderOwnRow

LEMMA ConnectionOrderly ==
  ASSUME OneAtATime,
         \/ CallDone \/ CallFailed \/ OthersUse \/ Poll \/ PollSkipped \/ PollEmpty
         \/ LoopEnds \/ Gone \/ UNCHANGED vars
         \/ Report \/ ReportRefused \/ ReportDone \/ ReportFailed
         \/ PerfilDone \/ PerfilFailed \/ ScalesFailed
  PROVE  Orderly
<1>1. CASE \/ CallDone \/ CallFailed \/ OthersUse \/ Poll \/ PollSkipped \/ PollEmpty
           \/ LoopEnds \/ Gone \/ UNCHANGED vars
  <2>1. UNCHANGED <<command, dlms, rx, hist>>
    BY <1>1 DEF CallDone, CallFailed, OthersUse, Poll, PollSkipped, PollEmpty, LoopEnds,
                Gone, vars
  <2>2. (db' = "poll" => inprogress = 0) /\ (at' = "save" => at = "save")
    BY <1>1 DEF CallDone, CallFailed, OthersUse, Poll, PollSkipped, PollEmpty, LoopEnds,
                EndLoop, Gone, vars, OneAtATime
  <2> QED BY <2>1, <2>2, QuietOrderly
<1>2. CASE \/ Report \/ ReportRefused \/ ReportDone \/ ReportFailed
           \/ PerfilDone \/ PerfilFailed \/ ScalesFailed
  <2>1. UNCHANGED <<command, dlms, rx, hist>>
    BY <1>2 DEF Report, ReportRefused, ReportDone, ReportFailed, PerfilDone,
                PerfilFailed, ScalesFailed
  <2>2. (db' = "poll" => inprogress = 0) /\ (at' = "save" => at = "save")
    BY <1>2 DEF Report, ReportRefused, ReportDone, ReportFailed, PerfilDone,
                PerfilFailed, ScalesFailed, Reading, EndLoop, OneAtATime
  <2> QED BY <2>1, <2>2, QuietOrderly
<1> QED BY <1>1, <1>2

\* A row is only taken by a session at rest.
LEMMA PollOrderly ==
  ASSUME ProfilesOnly, OneAtATime, NEW c \in Commands, PollAnswered(c)
  PROVE  Orderly
<1>1. AtRest /\ at # "save"
  BY DEF PollAnswered, OneAtATime, UnderWay
<1>2. /\ inprogress' = 1 /\ dlmsstate' = 1 /\ air' = {Request("ua", c)} /\ db' = "call"
      /\ polled' = c /\ idcomando' = IdOf(c) /\ UNCHANGED <<at, loop, reply, hist>>
  BY <1>1 DEF PollAnswered, InitConnection, AtRest, ProfilesOnly
<1>3. Request("ua", c).cmd = c
  BY DEF Request
<1>4. UnderWay'
  BY <1>1, <1>2, <1>3 DEF UnderWay, AtRest
<1>5. OneAtATime' /\ Keeps
  BY <1>1, <1>2, <1>4 DEF OneAtATime, Keeps, AtRest
<1> QED BY <1>2, <1>5 DEF Orderly, SavedUnderOwnRow, hist

\* The answer that is handled is the one to the command's only request.
LEMMA AnswerOfCommand ==
  ASSUME OneAtATime, NEW r \in air
  PROVE  /\ UnderWay /\ r.cmd = polled /\ air = {r}
         /\ \A kind : Content(r, kind) \in {{}, {polled}}
         /\ Partial \union {r.cmd} = {polled}
         /\ \A sent : Air(r, sent) => air' = sent
         /\ db # "poll" /\ at # "save"
<1>1. UnderWay /\ r.cmd = polled /\ air = {r}
  BY DEF OneAtATime, AtRest, UnderWay
<1>2. Partial \union {r.cmd} = {polled}
  BY <1>1 DEF Partial, UnderWay
<1>3. \A kind : Content(r, kind) \in {{}, {polled}}
  BY <1>1, <1>2 DEF Content
<1>4. \A sent : Air(r, sent) => air' = sent
  BY <1>1 DEF Air
<1> QED BY <1>1, <1>2, <1>3, <1>4 DEF OneAtATime, UnderWay

\* An answer after which the command is still under way.
LEMMA StillUnderWay ==
  ASSUME OneAtATime, UnderWay, UNCHANGED <<command, hist>>,
         inprogress' = 1, dlmsstate' \in {1, 2, 9, 20, 21, 50},
         air' = {} \/ \E kind : air' = {Request(kind, polled)} \/ air' = air,
         loop' => reply' \subseteq {polled},
         db' # "poll", at' # "save"
  PROVE  Orderly
<1>1. polled' = polled /\ idcomando' = idcomando /\ saved' = saved
  BY DEF command, hist
<1>2. \A q \in air' : q.cmd = polled /\ air' = {q}
  BY DEF UnderWay, Request
<1>3. UnderWay'
  BY <1>1, <1>2 DEF UnderWay
<1> QED BY <1>1, <1>3 DEF OneAtATime, Orderly, Keeps, SavedUnderOwnRow

LEMMA DialogueOrderly ==
  ASSUME OneAtATime, NEW r \in air, NEW kind,
         \/ MoreData(r) \/ BlockRefused(r)
         \/ Unhandled(r, kind) \/ UAResponse(r, kind) \/ AARERejected(r, kind)
  PROVE  Orderly
<1>1. /\ UnderWay /\ db # "poll" /\ at # "save"
      /\ \A sent : Air(r, sent) => air' = sent
  BY AnswerOfCommand
<1>2. UNCHANGED <<open, at, db, command, hist, inprogress>>
  BY DEF MoreData, BlockRefused, Unhandled, UAResponse, AARERejected, dlms
<1>3. inprogress' = 1 /\ dlmsstate' \in {1, 2, 9, 20, 21, 50}
  BY <1>1, <1>2 DEF MoreData, BlockRefused, Unhandled, UAResponse, AARERejected, dlms, UnderWay
<1>4. air' = {} \/ \E k : air' = {Request(k, polled)} \/ air' = air
  <2>1. CASE BlockRefused(r) \/ MoreData(r)
    BY <2>1, AnswerOfCommand DEF BlockRefused, MoreData
  <2>2. CASE Unhandled(r, kind) \/ UAResponse(r, kind) \/ AARERejected(r, kind)
    BY <1>1, <2>2 DEF Unhandled, UAResponse, AARERejected
  <2> QED BY <2>1, <2>2
<1>5. loop' => reply' \subseteq {polled}
  BY <1>1, AnswerOfCommand DEF MoreData, BlockRefused, Unhandled, UAResponse, AARERejected,
     Complete, UnderWay
<1> QED BY <1>1, <1>2, <1>3, <1>4, <1>5, StillUnderWay

LEMMA AssociationOrderly ==
  ASSUME ProfilesOnly, OneAtATime, NEW r \in air, AAREAccepted(r) \/ Crash(r)
  PROVE  Orderly
<1>1. UnderWay /\ db # "poll" /\ at # "save" /\ polled \in Commands
      /\ \A sent : Air(r, sent) => air' = sent
  BY AnswerOfCommand DEF UnderWay
<1>2. Kind[polled] \in {"profile", "events", "relay"}
  BY <1>1 DEF ProfilesOnly
<1>3. AAREAccepted(r)
  BY <1>2 DEF Crash
<1>4. /\ SendProfileGeneric(polled, r) \/ SendProfileGenericBase(polled, r)
         \/ DisconnectControl(polled, r)
  BY <1>2, <1>3 DEF AAREAccepted, ProcessComand, SendInstantaneousValues, SendNothing
<1>5. inprogress' = 1 /\ dlmsstate' \in {9, 20, 50}
  BY <1>4 DEF SendProfileGeneric, SendProfileGenericBase, DisconnectControl
<1>6. air' = {} \/ \E k : air' = {Request(k, polled)} \/ air' = air
  BY <1>1, <1>4 DEF SendProfileGeneric, SendProfileGenericBase, DisconnectControl
<1>7. UNCHANGED <<at, command, hist>> /\ ~loop' /\ db' # "poll"
  BY <1>1, <1>3 DEF AAREAccepted, Complete, Issue
<1> QED BY <1>1, <1>5, <1>6, <1>7, StillUnderWay

\* An end of the command: m_inprogress, m_idcomando and m_dlmsstate are reset
\* together, and nothing is in the air.
LEMMA EndOrderly ==
  ASSUME OneAtATime, UnderWay, dlmsstate' = 0, Drop, polled' = polled, air' = {}, ~loop',
         at' # "save", SavedUnderOwnRow => SavedUnderOwnRow'
  PROVE  Orderly
BY DEF Orderly, OneAtATime, AtRest, Drop, Keeps

\* What is saved in the middle of a command is its own.
LEMMA SaveOrderly ==
  ASSUME UnderWay, NEW rows, rows \in {{}, {polled}}, NEW idle, SaveData(rows, idle),
         SavedUnderOwnRow
  PROVE  SavedUnderOwnRow'
<1>1. CASE rows # {} /\ Save(Record(rows, FALSE), idle)
  <2>1. /\ Record(rows, FALSE).row \in Commands
        /\ Record(rows, FALSE).cmd = IdOf(Record(rows, FALSE).row)
        /\ Record(rows, FALSE).from = {Record(rows, FALSE).row}
    BY <1>1 DEF Record, UnderWay
  <2>2. saved' = saved \union {Record(rows, FALSE)} \/ saved' = saved
    BY <1>1 DEF Save, hist
  <2> QED BY <2>1, <2>2 DEF SavedUnderOwnRow
<1>2. CASE UNCHANGED hist
  BY <1>2 DEF hist, SavedUnderOwnRow
<1> QED
  BY <1>1, <1>2 DEF SaveData, SaveDataFromProfile_Core, SavedataFromProfileAuto_Core

LEMMA ProfileOrderly ==
  ASSUME OneAtATime, NEW r \in air, NEW kind,
         \/ NoProfile(r, kind) \/ OtherProfile(r, kind) \/ AskRows(r, kind)
         \/ SaveRows(r, kind) \/ SaveRowsThrows(r, kind) \/ AskScales(r, kind)
  PROVE  Orderly
<1>1. /\ UnderWay /\ db # "poll" /\ at # "save" /\ inprogress = 1
      /\ \A sent : Air(r, sent) => air' = sent
      /\ ~loop' /\ reply' \in {{}, {polled}}
  BY AnswerOfCommand DEF NoProfile, OtherProfile, AskRows, SaveRows, SaveRowsThrows,
     AskScales, Columns, Rows, Complete, UnderWay
<1>2. CASE NoProfile(r, kind) \/ OtherProfile(r, kind)
  <2>1. dlmsstate' = 0 /\ Drop /\ air' = {} /\ at' # "save" /\ UNCHANGED <<polled, hist>>
    BY <1>1, <1>2 DEF NoProfile, OtherProfile, EndLoop
  <2> QED BY <1>1, <2>1, EndOrderly DEF SavedUnderOwnRow, hist
<1>3. CASE AskRows(r, kind)
  <2>1. /\ inprogress' = 1 /\ dlmsstate' = 21 /\ UNCHANGED <<at, command, hist>>
        /\ db' # "poll"
    BY <1>1, <1>3 DEF AskRows, UpdateCommandState, Issue
  <2>2. air' = {} \/ \E k : air' = {Request(k, polled)} \/ air' = air
    BY <1>1, <1>3 DEF AskRows
  <2> QED BY <1>1, <2>1, <2>2, StillUnderWay
<1>4. CASE SaveRows(r, kind)
  <2>1. dlmsstate' = 0 /\ Drop /\ air' = {} /\ at' # "save" /\ polled' = polled
    BY <1>1, <1>4 DEF SaveRows, Rows
  <2>2. SavedUnderOwnRow => SavedUnderOwnRow'
    BY <1>1, <1>4, SaveOrderly DEF SaveRows
  <2> QED BY <1>1, <2>1, <2>2, EndOrderly
<1>5. CASE SaveRowsThrows(r, kind)
  <2>1. /\ UNCHANGED <<at, db, command, hist>> /\ inprogress' = 1 /\ dlmsstate' = 21
        /\ air' = {}
    BY <1>1, <1>5 DEF SaveRowsThrows, Rows, dlms
  <2> QED BY <1>1, <2>1, StillUnderWay
<1>6. CASE AskScales(r, kind)
  <2>1. /\ UNCHANGED <<command, hist>> /\ inprogress' = 1 /\ dlmsstate' = 21
        /\ air' = {} /\ db' # "poll"
    BY <1>1, <1>6 DEF AskScales, Rows, dlms
  <2>2. polled' = polled /\ idcomando' = idcomando /\ saved' = saved
    BY <2>1 DEF command, hist
  <2>3. UnderWay'
    BY <1>1, <2>1, <2>2 DEF UnderWay
  <2>4. OneAtATime'
    BY <1>1, <2>1, <2>2, <2>3 DEF OneAtATime
  <2>5. Keeps
    BY <2>1, <2>2 DEF Keeps
  <2> QED BY <2>2, <2>4, <2>5 DEF Orderly, SavedUnderOwnRow
<1> QED BY <1>2, <1>3, <1>4, <1>5, <1>6

LEMMA ScalesOrderly ==
  ASSUME OneAtATime, ScalesArrived
  PROVE  Orderly
<1>1. UnderWay /\ reply \in {{}, {polled}} /\ air = {} /\ ~loop
  BY DEF OneAtATime, ScalesArrived, AtRest, UnderWay
<1>2. dlmsstate' = 0 /\ Drop /\ at' # "save" /\ air' = {} /\ ~loop' /\ polled' = polled
  BY <1>1 DEF ScalesArrived, rx
<1>3. SavedUnderOwnRow => SavedUnderOwnRow'
  BY <1>1, SaveOrderly DEF ScalesArrived, SavedUnderOwnRow, hist
<1> QED BY <1>1, <1>2, <1>3, EndOrderly

LEMMA InstantsNever ==
  ASSUME OneAtATime, NEW r \in air, NEW kind
  PROVE  ~NextInstant(r, kind) /\ ~LastInstant(r, kind) /\ ~StrayInstant(r, kind)
<1>1. dlmsstate \in {1, 2, 9, 20, 21, 50}
  BY AnswerOfCommand DEF UnderWay
<1>2. ~InstantResponse(r, kind)
  BY <1>1 DEF InstantResponse
<1> QED BY <1>2 DEF NextInstant, LastInstant, StrayInstant

LEMMA OrderlyStep ==
  ASSUME ProfilesOnly, OneAtATime, [Next]_vars
  PROVE  Orderly
<1>1. ASSUME NEW r \in air, Answered(r) PROVE Orderly
  BY <1>1, DialogueOrderly, AssociationOrderly, ProfileOrderly, InstantsNever DEF Answered
<1>2. ~ErrorFrame
  BY DEF ErrorFrame, ProfilesOnly
<1> QED BY <1>1, <1>2, ConnectionOrderly, PollOrderly, ScalesOrderly DEF Next

LEMMA OrderlyInit ==
  ASSUME Init
  PROVE  OneAtATime /\ SavedUnderOwnRow
BY DEF Init, OneAtATime, AtRest, SavedUnderOwnRow

\* While a profile is read and until it is saved, no other row is put over it.
THEOREM ProfileKept ==
  ASSUME ProfilesOnly
  PROVE  Spec => CommandKept
<1>1. Init => OneAtATime
  BY OrderlyInit
<1>2. OneAtATime /\ [Next]_vars => OneAtATime'
  BY OrderlyStep DEF Orderly
<1>3. OneAtATime /\ [Next]_vars =>
        [inprogress = 1 \/ idcomando # None
           => /\ polled' = polled
              /\ idcomando' = IF inprogress' = 1 THEN idcomando ELSE None]_vars
  BY OrderlyStep DEF Orderly, Keeps
<1> QED BY <1>1, <1>2, <1>3, PTL DEF Spec, CommandKept

\* The rows of a profile are saved under the command whose meter sent them.
THEOREM ProfileUnderOwnRow ==
  ASSUME ProfilesOnly
  PROVE  Spec => []SavedUnderOwnRow
<1>1. Init => OneAtATime /\ SavedUnderOwnRow
  BY OrderlyInit
<1>2. OneAtATime /\ SavedUnderOwnRow /\ [Next]_vars => (OneAtATime /\ SavedUnderOwnRow)'
  BY OrderlyStep DEF Orderly
<1> QED BY <1>1, <1>2, PTL DEF Spec
=============================================================================
