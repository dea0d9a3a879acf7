--------------------------- MODULE ReadPathProofs ---------------------------
(***************************************************************************)
(* For any number of frames, in any order, whole, split or read two at a   *)
(* time, and for any profiles, addresses and lengths: m_inprogress and     *)
(* m_idcomando go together, what is sent to the concentrator is what       *)
(* FramingProofs says of it, the state kept between frames neither drops   *)
(* an answered command nor keeps an answer from the handler, and readings  *)
(* reach the database as ProfileStoreProofs says the loops leave them.     *)
(***************************************************************************)
EXTENDS ReadPath, FramingProofs, ProfileStoreProofs

-----------------------------------------------------------------------------
(* DecodeFrame, one kind of frame at a time.                               *)

Decodings ==
  [content : {"none", "hb", "dlms", "event"}, frametype : {0, 1, 3}, typeframe : {0, 1, 5}]

LEMMA HeartbeatDecoded ==
  ASSUME NEW was \in Decodings
  PROVE  DecodeFrame(Heartbeat, was) =
           [content |-> "hb", frametype |-> 1, typeframe |-> was.typeframe]
<1>1. DecodeFrame(Heartbeat, was) = [was EXCEPT !.content = "hb", !.frametype = 1]
  BY DEF DecodeFrame, Heartbeat, FrameOf
<1> QED BY <1>1 DEF Decodings

LEMMA EventDecoded ==
  ASSUME NEW was \in Decodings
  PROVE  DecodeFrame(Event, was) =
           [content |-> "event", frametype |-> 3, typeframe |-> was.typeframe]
<1>1. DecodeFrame(Event, was) = [was EXCEPT !.content = "event", !.frametype = 3]
  BY DEF DecodeFrame, Event, FrameOf
<1> QED BY <1>1 DEF Decodings

LEMMA MeterDecoded ==
  ASSUME NEW was \in Decodings
  PROVE  DecodeFrame(MeterAnswer, was) = [content |-> "dlms", frametype |-> 0, typeframe |-> 5]
BY DEF DecodeFrame, MeterAnswer, UserData, FrameOf, Decodings

LEMMA MacroDecoded ==
  ASSUME NEW was \in Decodings
  PROVE  DecodeFrame(MacroAnswer, was) =
           [content |-> "dlms", frametype |-> 0, typeframe |-> was.typeframe]
BY DEF DecodeFrame, MacroAnswer, UserData, FrameOf, Decodings

LEMMA OfflineDecoded ==
  ASSUME NEW was \in Decodings
  PROVE  DecodeFrame(Offline, was) = [content |-> "none", frametype |-> 0, typeframe |-> 1]
BY DEF DecodeFrame, Offline, UserData, FrameOf, Decodings

LEMMA RefusedDecoded ==
  ASSUME NEW was \in Decodings
  PROVE  DecodeFrame(Refused, was) =
           [content |-> "none", frametype |-> was.frametype, typeframe |-> 0]
<1>1. DecodeFrame(Refused, was) = [was EXCEPT !.content = "none", !.typeframe = 0]
  BY DEF DecodeFrame, Refused, FrameOf
<1> QED BY <1>1 DEF Decodings

LEMMA OtherDecoded ==
  ASSUME NEW was \in Decodings
  PROVE  DecodeFrame(Other, was) =
           [content |-> "none", frametype |-> was.frametype, typeframe |-> was.typeframe]
BY DEF DecodeFrame, Other, FrameOf, Decodings

\* The frames by the bytes that tell them apart.
LEMMA FramesDiffer ==
  /\ Heartbeat.control = 201 /\ Event.control = 196 /\ Refused.control = 137 /\ Other.control = 0
  /\ MeterAnswer.control = 136 /\ MeterAnswer.sub = 5
  /\ MacroAnswer.control = 136 /\ MacroAnswer.task = 1 /\ MacroAnswer.sub = 0
  /\ Offline.control = 136 /\ Offline.task = 31 /\ Offline.sub = 1
BY DEF Heartbeat, Event, MeterAnswer, MacroAnswer, Offline, Refused, Other, FrameOf

\* What the handler may rely on.
LEMMA Decoding ==
  ASSUME NEW was \in Decodings, NEW f \in Answers \union Reports
  PROVE  /\ DecodeFrame(f, was) \in Decodings
         /\ f = MeterAnswer => DecodeFrame(f, was).typeframe = 5
         /\ f \in {MeterAnswer, MacroAnswer} =>
              DecodeFrame(f, was).content = "dlms" /\ DecodeFrame(f, was).frametype = 0
         /\ f \notin {Offline, Refused, MeterAnswer} =>
              DecodeFrame(f, was).typeframe = was.typeframe
<1>1. CASE f = Heartbeat
  BY <1>1, HeartbeatDecoded, FramesDiffer DEF Decodings
<1>2. CASE f = Event
  BY <1>2, EventDecoded, FramesDiffer DEF Decodings
<1>3. CASE f = MeterAnswer
  BY <1>3, MeterDecoded, FramesDiffer DEF Decodings
<1>4. CASE f = MacroAnswer
  BY <1>4, MacroDecoded, FramesDiffer DEF Decodings
<1>5. CASE f = Offline
  BY <1>5, OfflineDecoded, FramesDiffer DEF Decodings
<1>6. CASE f = Refused
  BY <1>6, RefusedDecoded, FramesDiffer DEF Decodings
<1>7. CASE f = Other
  BY <1>7, OtherDecoded, FramesDiffer DEF Decodings
<1> QED BY <1>1, <1>2, <1>3, <1>4, <1>5, <1>6, <1>7 DEF Answers, Reports

\* Nothing else has a DLMS answer in it.
LEMMA OnlyAnswersDlms ==
  ASSUME NEW was \in Decodings, NEW f \in Answers \union Reports,
         DecodeFrame(f, was).content # "none", DecodeFrame(f, was).frametype = 0
  PROVE  f \in {MeterAnswer, MacroAnswer}
<1>1. f # Heartbeat /\ f # Event /\ f # Offline /\ f # Refused /\ f # Other
  BY HeartbeatDecoded, EventDecoded, OfflineDecoded, RefusedDecoded, OtherDecoded
<1> QED BY <1>1 DEF Answers, Reports

\* A profile, and the same without its rows.
LEMMA ProfileFacts ==
  ASSUME NEW p \in Profiles
  PROVE  /\ p \in AllProfiles /\ Readable(p)
         /\ WithoutRows(p) \in AllProfiles /\ WithoutRows(p).widths = <<>>
<1>1. p \in AllProfiles /\ Readable(p)
  BY ReadPathAssumption DEF ReadPathAssumption
<1>2. p = [mode |-> p.mode, rowid |-> p.rowid, relecturas |-> p.relecturas,
           columns |-> p.columns, scales |-> p.scales, widths |-> p.widths]
  BY <1>1 DEF AllProfiles
<1>3. WithoutRows(p) =
        [mode |-> p.mode, rowid |-> p.rowid, relecturas |-> p.relecturas,
         columns |-> p.columns, scales |-> p.scales, widths |-> <<>>]
  BY <1>2 DEF WithoutRows
<1>4. <<>> \in Seq(Nat)
  OBVIOUS
<1> QED BY <1>1, <1>3, <1>4 DEF AllProfiles

-----------------------------------------------------------------------------
(* The invariant.                                                          *)

\* An answered command has left m_typeframe at 5, which NoFrame lets pass.
AnsweredIsKnown == idcomando > 0 /\ answered => decoded.typeframe = 5

Types ==
  /\ open \in BOOLEAN
  /\ stream \in Seq(Answers \union Reports) /\ Len(stream) <= 2
  /\ sent \in 0..MaxFrames /\ asked \in Nat
  /\ decoded \in Decodings
  /\ idcomando \in {0, 1} /\ inprogress = idcomando
  /\ dlmsstate \in {0, 1, 20, 21}
  /\ loop \in BOOLEAN /\ answered \in BOOLEAN

IInv == Types /\ AnsweredIsKnown /\ Len(report.delivered) <= 1

LEMMA InitInv == Init => IInv
<1> SUFFICES ASSUME Init PROVE IInv
  OBVIOUS
<1>1. MaxFrames \in Nat
  BY ReadPathAssumption
<1>2. decoded \in Decodings
  BY DEF Init, Decodings
<1>3. stream \in Seq(Answers \union Reports) /\ Len(stream) <= 2
  BY DEF Init
<1>4. Len(report.delivered) <= 1
  BY DEF Init, Quiet
<1>5. open = TRUE /\ sent = 0 /\ asked = 0 /\ idcomando = 0 /\ inprogress = 0 /\ dlmsstate = 0
  BY DEF Init
<1>6. answered \in BOOLEAN /\ loop \in BOOLEAN
  BY DEF Init
<1>7. Types
  BY <1>1, <1>2, <1>3, <1>5, <1>6 DEF Types
<1>8. AnsweredIsKnown
  BY <1>5 DEF AnsweredIsKnown
<1> QED BY <1>4, <1>7, <1>8 DEF IInv

\* At most one call reaches the database.
LEMMA OneDelivered ==
  ASSUME NEW calls, NEW idle \in BOOLEAN
  PROVE  Len(Delivered(calls, idle)) <= 1
BY DEF Delivered

LEMMA TellDelivers ==
  ASSUME NEW profile, NEW calls, NEW idle \in BOOLEAN, Tell(profile, calls, idle)
  PROVE  Len(report'.delivered) <= 1
BY OneDelivered DEF Tell, Quiet

LEMMA QuietDelivers == Len(Quiet.delivered) <= 1
BY DEF Quiet

LEMMA AskDelivers ==
  ASSUME Ask
  PROVE  Len(report'.delivered) <= 1 /\ asked' = asked + 1
BY DEF Ask, Quiet

\* A handler of a DLMS frame keeps the command or drops it, both parts of it.
LEMMA DlmsHandlerInv ==
  ASSUME IInv, NEW d, NEW whole \in BOOLEAN, NEW taken \in BOOLEAN,
         DlmsHandler(d, whole, taken)
  PROVE  /\ open' \in BOOLEAN /\ asked' \in Nat /\ loop' = FALSE
         /\ UNCHANGED <<idcomando, inprogress>> \/ Drop
         /\ dlmsstate' \in {0, 1, 20, 21}
         /\ Len(report'.delivered) <= 1
         /\ d.content # "none"
<1>0. open \in BOOLEAN /\ asked \in Nat /\ dlmsstate \in {0, 1, 20, 21}
  BY DEF IInv, Types
<1>1. CASE Unhandled(d, whole, taken)
  BY <1>0, <1>1, QuietDelivers DEF Unhandled, Complete, Dlms
<1>2. CASE Dialogue(d, whole, taken)
  <2>1. dlmsstate' \in {0, 1, 20, 21} /\ asked' \in Nat /\ Len(report'.delivered) <= 1
    BY <1>0, <1>2, AskDelivers, QuietDelivers DEF Dialogue
  <2> QED BY <1>0, <1>2, <2>1 DEF Dialogue, Complete, Dlms
<1>3. CASE NoProfile(d, whole, taken)
  <2>1. Len(report'.delivered) <= 1
    BY <1>3, TellDelivers DEF NoProfile
  <2> QED BY <1>0, <1>3, <2>1 DEF NoProfile, Columns, Complete, Dlms
<1>4. CASE OtherProfile(d, whole, taken)
  <2>1. Len(report'.delivered) <= 1 /\ open' \in BOOLEAN
    BY <1>4, TellDelivers DEF OtherProfile
  <2> QED BY <1>0, <1>4, <2>1 DEF OtherProfile, Columns, Complete, Dlms
<1>5. CASE AskRows(d, whole, taken)
  <2>1. PICK idle \in BOOLEAN :
          \/ asked' = asked /\ Tell(None, UpdateCommandState(3), idle)
          \/ /\ asked' = asked + 1
             /\ report'.delivered = Delivered(UpdateCommandState(3), idle)
    BY <1>5 DEF AskRows, Quiet
  <2>2. Len(report'.delivered) <= 1 /\ asked' \in Nat
    BY <1>0, <2>1, TellDelivers, OneDelivered
  <2> QED BY <1>0, <1>5, <2>2 DEF AskRows, Columns, Complete, Dlms
<1>6. CASE SaveRowsOf(d, whole, taken)
  <2>1. Len(report'.delivered) <= 1
    BY <1>6, TellDelivers DEF SaveRowsOf
  <2> QED BY <1>0, <1>6, <2>1 DEF SaveRowsOf, Rows, Complete, Dlms
<1>7. CASE RowFails(d, whole, taken)
  <2>1. /\ Len(report'.delivered) <= 1
        /\ UNCHANGED <<dlmsstate, idcomando, inprogress>> \/ (dlmsstate' = 0 /\ Drop)
    BY <1>7, TellDelivers DEF RowFails
  <2> QED BY <1>0, <1>7, <2>1 DEF RowFails, Rows, Complete, Dlms
<1> QED BY <1>1, <1>2, <1>3, <1>4, <1>5, <1>6, <1>7 DEF DlmsHandler

\* The handler's part of the variables.
LEMMA HandleInv ==
  ASSUME IInv, NEW f \in Answers \union Reports, NEW whole \in BOOLEAN, Handle(f, whole)
  PROVE  /\ open' \in BOOLEAN /\ asked' \in Nat
         /\ decoded' \in Decodings
         /\ idcomando' \in {0, 1} /\ inprogress' = idcomando'
         /\ dlmsstate' \in {0, 1, 20, 21}
         /\ loop' \in BOOLEAN /\ answered' \in BOOLEAN
         /\ AnsweredIsKnown'
         /\ Len(report'.delivered) <= 1
<1>0. decoded \in Decodings
  BY DEF IInv, Types
<1>1. CASE Ignored(f)
  BY <1>1, QuietDelivers DEF Ignored, IInv, Types, AnsweredIsKnown
<1>2. CASE Decoded(f, whole)
  <2> DEFINE d == DecodeFrame(f, decoded)
  <2>1. /\ decoded' = d /\ d \in Decodings
        /\ answered' = (answered \/ (idcomando > 0 /\ f = MeterAnswer))
        /\ f = MeterAnswer => d.typeframe = 5
        /\ f \notin {Offline, Refused, MeterAnswer} => d.typeframe = decoded.typeframe
        /\ \/ NoFrame(d) \/ OtherHandler(d) \/ Block(d, whole)
           \/ \E taken \in BOOLEAN : DlmsHandler(d, whole, taken)
    BY <1>0, <1>2, Decoding DEF Decoded
  <2>2. f \in {Offline, Refused} => d.content = "none" /\ d.typeframe \in {0, 1}
    BY <1>0, OfflineDecoded, RefusedDecoded
  <2> HIDE DEF d
  <2>3. answered' \in BOOLEAN
    BY <2>1 DEF IInv, Types
  <2>4. ASSUME idcomando' = idcomando, f \notin {Offline, Refused} PROVE AnsweredIsKnown'
    BY <2>1, <2>4 DEF IInv, AnsweredIsKnown
  <2>5. ASSUME idcomando' = 0 PROVE AnsweredIsKnown'
    BY <2>5 DEF AnsweredIsKnown
  <2>6. CASE NoFrame(d)
    <3>1. CASE idcomando > 0 /\ d.typeframe \in {0, 1}
      <4>1. Drop /\ UNCHANGED <<open, asked, dlmsstate, loop>>
        BY <2>6, <3>1 DEF NoFrame
      <4>2. Len(report'.delivered) <= 1
        BY <2>6, <3>1, TellDelivers DEF NoFrame
      <4> QED BY <2>1, <2>3, <2>5, <4>1, <4>2 DEF Drop, IInv, Types
    <3>2. CASE ~(idcomando > 0 /\ d.typeframe \in {0, 1})
      <4>1. report' = Quiet /\ UNCHANGED <<open, asked, dlmsstate, loop, idcomando, inprogress>>
        BY <2>6, <3>2 DEF NoFrame
      <4>2. f \in {Offline, Refused} => idcomando = 0
        BY <2>2, <3>2 DEF IInv, Types
      <4>3. AnsweredIsKnown'
        BY <2>4, <2>5, <4>1, <4>2
      <4> QED BY <2>1, <2>3, <4>1, <4>3, QuietDelivers DEF IInv, Types
    <3> QED BY <3>1, <3>2
  <2>7. CASE OtherHandler(d)
    <3>1. /\ open' \in BOOLEAN
          /\ UNCHANGED <<asked, idcomando, inprogress, dlmsstate, loop>>
          /\ f \notin {Offline, Refused}
      BY <2>2, <2>7 DEF OtherHandler
    <3>2. Len(report'.delivered) <= 1
      BY <2>7 DEF OtherHandler, Quiet
    <3> QED BY <2>1, <2>3, <2>4, <3>1, <3>2 DEF IInv, Types
  <2>8. CASE Block(d, whole)
    <3>1. /\ UNCHANGED <<open, idcomando, inprogress, dlmsstate>> /\ loop' = TRUE
          /\ f \notin {Offline, Refused}
      BY <2>2, <2>8 DEF Block, Dlms
    <3>2. asked' \in Nat /\ Len(report'.delivered) <= 1
      BY <2>8, AskDelivers DEF Block, IInv, Types
    <3> QED BY <2>1, <2>3, <2>4, <3>1, <3>2 DEF IInv, Types
  <2>9. CASE \E taken \in BOOLEAN : DlmsHandler(d, whole, taken)
    <3>1. /\ open' \in BOOLEAN /\ asked' \in Nat /\ loop' = FALSE
          /\ UNCHANGED <<idcomando, inprogress>> \/ Drop
          /\ dlmsstate' \in {0, 1, 20, 21}
          /\ Len(report'.delivered) <= 1
          /\ d.content # "none"
      BY <2>9, DlmsHandlerInv
    <3>2. f \notin {Offline, Refused}
      BY <2>2, <3>1
    <3>3. AnsweredIsKnown' /\ idcomando' \in {0, 1} /\ inprogress' = idcomando'
      BY <2>4, <2>5, <3>1, <3>2 DEF Drop, IInv, Types
    <3> QED BY <2>1, <2>3, <3>1, <3>3
  <2> QED BY <2>1, <2>6, <2>7, <2>8, <2>9
<1> QED BY <1>1, <1>2 DEF Handle

\* The frame that is read is one of the stream's.
LEMMA StreamFacts ==
  ASSUME IInv, stream # <<>>
  PROVE  /\ Head(stream) \in Answers \union Reports /\ Head(stream) = stream[1]
         /\ Tail(stream) \in Seq(Answers \union Reports) /\ Len(Tail(stream)) <= 1
BY DEF IInv, Types

LEMMA PartFacts ==
  ASSUME IInv, stream # <<>>
  PROVE  /\ <<Other>> \o Tail(stream) \in Seq(Answers \union Reports)
         /\ Len(<<Other>> \o Tail(stream)) <= 2
<1>1. Tail(stream) \in Seq(Answers \union Reports) /\ Len(Tail(stream)) <= 1
  BY StreamFacts
<1>2. <<Other>> \in Seq(Answers \union Reports) /\ Len(<<Other>>) = 1
  BY DEF Reports
<1> QED BY <1>1, <1>2

-----------------------------------------------------------------------------
(* The steps.                                                              *)

LEMMA NextInv == IInv /\ [Next]_vars => IInv'
<1> SUFFICES ASSUME IInv, [Next]_vars PROVE IInv'
  OBVIOUS
<1>1. CASE CommandStarts
  <2>1. /\ idcomando' = 1 /\ inprogress' = 1 /\ dlmsstate' = 1 /\ answered' = FALSE
        /\ UNCHANGED <<open, stream, sent, decoded, loop>>
    BY <1>1 DEF CommandStarts
  <2>2. asked' \in Nat /\ Len(report'.delivered) <= 1
    BY <1>1, AskDelivers DEF CommandStarts, IInv, Types
  <2> QED BY <2>1, <2>2 DEF IInv, Types, AnsweredIsKnown
<1>2. ASSUME NEW f \in Answers \union Reports, Sends(f), asked' \in Nat
      PROVE  IInv'
  <2>1. /\ stream' \in Seq(Answers \union Reports) /\ Len(stream') <= 2 /\ sent' \in 0..MaxFrames
        /\ UNCHANGED <<open, decoded, idcomando, inprogress, dlmsstate, loop, answered>>
    BY <1>2, ReadPathAssumption DEF Sends, IInv, Types, ReadPathAssumption
  <2>2. Len(report'.delivered) <= 1
    BY <1>2, QuietDelivers DEF Sends
  <2> QED BY <1>2, <2>1, <2>2 DEF IInv, Types, AnsweredIsKnown
<1>3. CASE ConcentratorAnswers
  <2>1. asked' \in Nat
    BY <1>3 DEF ConcentratorAnswers, IInv, Types
  <2> QED BY <1>2, <1>3, <2>1 DEF ConcentratorAnswers
<1>4. CASE ConcentratorReports
  <2>1. asked' \in Nat
    BY <1>4 DEF ConcentratorReports, IInv, Types
  <2> QED BY <1>2, <1>4, <2>1 DEF ConcentratorReports
<1>5. ASSUME NEW f \in Answers \union Reports, NEW whole \in BOOLEAN, Handle(f, whole),
             stream' \in Seq(Answers \union Reports), Len(stream') <= 2, sent' = sent
      PROVE  IInv'
  BY <1>5, HandleInv DEF IInv, Types
<1>6. CASE ReadFrame
  <2>1. /\ Head(stream) \in Answers \union Reports
        /\ stream' \in Seq(Answers \union Reports) /\ Len(stream') <= 2
    BY <1>6, StreamFacts DEF ReadFrame
  <2> QED BY <1>5, <1>6, <2>1 DEF ReadFrame
<1>7. CASE ReadPart
  <2>1. /\ Head(stream) \in Answers \union Reports
        /\ stream' \in Seq(Answers \union Reports) /\ Len(stream') <= 2
    BY <1>7, StreamFacts, PartFacts DEF ReadPart
  <2> QED BY <1>5, <1>7, <2>1 DEF ReadPart
<1>8. CASE ReadTwo
  <2>1. stream # <<>> /\ stream' = <<>>
    BY <1>8 DEF ReadTwo
  <2>2. /\ stream[1] \in Answers \union Reports
        /\ stream' \in Seq(Answers \union Reports) /\ Len(stream') <= 2
    BY <2>1, StreamFacts
  <2> QED BY <1>5, <1>8, <2>2 DEF ReadTwo
<1>9. CASE LoopEnds
  <2>1. /\ open' = FALSE /\ stream' = <<>> /\ Len(report'.delivered) <= 1
        /\ UNCHANGED <<sent, asked, decoded, idcomando, inprogress, dlmsstate, loop, answered>>
    BY <1>9, QuietDelivers DEF LoopEnds
  <2>2. stream' \in Seq(Answers \union Reports) /\ Len(stream') <= 2
    BY <2>1
  <2> QED BY <2>1, <2>2 DEF IInv, Types, AnsweredIsKnown
<1>10. CASE UNCHANGED vars
  BY <1>10 DEF vars, IInv, Types, AnsweredIsKnown
<1> QED BY <1>1, <1>3, <1>4, <1>6, <1>7, <1>8, <1>9, <1>10 DEF Next, Closed

LEMMA Inv == Spec => []IInv
BY InitInv, NextInv, PTL DEF Spec

\* m_inprogress, which keeps the poll from asking, is set exactly while a
\* command runs, whatever frame or piece of one ends it.
THEOREM TypeCorrect == Spec => []TypeOK
<1>1. IInv => TypeOK
  BY DEF IInv, Types, TypeOK, Decodings
<1> QED BY <1>1, Inv, PTL

\* A command that a meter has answered is dropped by the concentrator's report
\* of an error, or by an answer that is read in m_dlmsstate 20 or 21, whatever
\* m_typeframe was before it (Session.cpp:886).
THEOREM AnsweredCommandKept == Spec => AnswerProtects
<1> DEFINE Right == \/ Head(stream) \in {Offline, Refused}
                    \/ dlmsstate \in {20, 21} /\ Head(stream) \in {MeterAnswer, MacroAnswer}
<1>1. ASSUME IInv, Next, idcomando > 0, idcomando' = 0, answered
      PROVE  Right
  <2>1. ASSUME NEW f \in Answers \union Reports, NEW whole \in BOOLEAN, Handle(f, whole)
        PROVE  \/ f \in {Offline, Refused}
               \/ dlmsstate \in {20, 21} /\ f \in {MeterAnswer, MacroAnswer}
    <3> DEFINE d == DecodeFrame(f, decoded)
    <3>1. decoded \in Decodings /\ decoded.typeframe = 5
      BY <1>1 DEF IInv, Types, AnsweredIsKnown
    <3>2. f \in {Offline, Refused} \/ d.typeframe = 5
      BY <3>1, Decoding
    <3>3. Dlms(d) => f \in {MeterAnswer, MacroAnswer}
      BY <3>1, OnlyAnswersDlms DEF Dlms
    <3> HIDE DEF d
    <3>4. CASE Ignored(f)
      BY <1>1, <3>4 DEF Ignored
    <3>5. CASE NoFrame(d)
      BY <1>1, <3>2, <3>5 DEF NoFrame
    <3>6. CASE OtherHandler(d) \/ Block(d, whole)
      BY <1>1, <3>6 DEF OtherHandler, Block
    <3>7. ASSUME NEW taken \in BOOLEAN, DlmsHandler(d, whole, taken)
          PROVE  dlmsstate \in {20, 21} /\ Dlms(d)
      <4>1. ~Unhandled(d, whole, taken) /\ ~Dialogue(d, whole, taken)
        BY <1>1 DEF Unhandled, Dialogue
      <4>2. CASE NoProfile(d, whole, taken)
        BY <4>2 DEF NoProfile, Columns, Complete
      <4>3. CASE OtherProfile(d, whole, taken)
        BY <4>3 DEF OtherProfile, Columns, Complete
      <4>4. CASE AskRows(d, whole, taken)
        BY <4>4 DEF AskRows, Columns, Complete
      <4>5. CASE SaveRowsOf(d, whole, taken)
        BY <4>5 DEF SaveRowsOf, Rows, Complete
      <4>6. CASE RowFails(d, whole, taken)
        BY <4>6 DEF RowFails, Rows, Complete
      <4> QED BY <3>7, <4>1, <4>2, <4>3, <4>4, <4>5, <4>6 DEF DlmsHandler
    <3> QED BY <2>1, <3>3, <3>4, <3>5, <3>6, <3>7 DEF Handle, Decoded, d
  <2>2. CASE ReadFrame \/ ReadPart
    BY <1>1, <2>1, <2>2, StreamFacts DEF ReadFrame, ReadPart
  <2>3. CASE ReadTwo
    <3>1. Handle(stream[1], TRUE)
      BY <2>3 DEF ReadTwo
    <3>2. stream # <<>>
      BY <2>3 DEF ReadTwo
    <3> QED BY <1>1, <2>1, <3>1, <3>2, StreamFacts
  <2>4. CASE CommandStarts
    BY <1>1, <2>4 DEF CommandStarts
  <2>5. CASE ConcentratorAnswers \/ ConcentratorReports
    <3>1. idcomando' = idcomando
      BY <2>5 DEF ConcentratorAnswers, ConcentratorReports, Sends
    <3> QED BY <1>1, <3>1
  <2>6. CASE LoopEnds \/ Closed
    <3>1. idcomando' = idcomando
      BY <2>6 DEF LoopEnds, Closed, vars
    <3> QED BY <1>1, <3>1
  <2> QED BY <1>1, <2>2, <2>3, <2>4, <2>5, <2>6 DEF Next
<1>2. IInv /\ [Next]_vars => [idcomando > 0 /\ idcomando' = 0 /\ answered => Right]_vars
  BY <1>1
<1> QED BY <1>2, Inv, PTL DEF Spec, AnswerProtects

\* An answer, or a part of one, that is read in m_dlmsstate 20 or 21 reaches the
\* case of its state or is a block of a longer one, whatever m_frametype was
\* before it (Session.cpp:909).
THEOREM AnswersHandled == Spec => AnswersReachHandler
<1>1. ASSUME IInv, Next, AnswerRead
      PROVE  AnswerTaken
  <2>0. stream' # stream /\ Len(stream') <= Len(stream) /\ open' /\ dlmsstate \in {20, 21}
    BY <1>1 DEF AnswerRead
  <2>1. ASSUME NEW f \in {MeterAnswer, MacroAnswer}, NEW whole \in BOOLEAN, Handle(f, whole)
        PROVE  AnswerTaken
    <3> DEFINE d == DecodeFrame(f, decoded)
    <3>1. decoded \in Decodings
      BY <1>1 DEF IInv, Types
    <3>2. d.content = "dlms" /\ d.frametype = 0
      BY <2>1, <3>1, Decoding DEF Answers
    <3>3. ~Ignored(f)
      BY <2>1, FramesDiffer DEF Ignored
    <3> HIDE DEF d
    <3>4. \/ NoFrame(d) \/ OtherHandler(d) \/ Block(d, whole)
          \/ \E taken \in BOOLEAN : DlmsHandler(d, whole, taken)
      BY <2>1, <3>3 DEF Handle, Decoded, d
    <3>5. CASE Block(d, whole)
      BY <3>5 DEF Block, AnswerTaken
    <3>6. ASSUME NEW taken \in BOOLEAN, DlmsHandler(d, whole, taken)
          PROVE  AnswerTaken
      <4>1. CASE dlmsstate = 20
        <5>1. \/ NoProfile(d, whole, taken) \/ OtherProfile(d, whole, taken)
              \/ AskRows(d, whole, taken)
          BY <3>6, <4>1 DEF DlmsHandler, Unhandled, Dialogue, SaveRowsOf, RowFails, Rows
        <5>2. dlmsstate' \in {0, 21}
          BY <5>1 DEF NoProfile, OtherProfile, AskRows
        <5> QED BY <4>1, <5>2 DEF AnswerTaken
      <4>2. CASE dlmsstate = 21
        <5>1. SaveRowsOf(d, whole, taken) \/ RowFails(d, whole, taken)
          BY <3>6, <4>2 DEF DlmsHandler, Unhandled, Dialogue, NoProfile, OtherProfile, AskRows,
                            Columns
        <5>2. PICK p \in Profiles : report'.profile \in {WithoutRows(p), p}
          BY <5>1 DEF SaveRowsOf, RowFails, Tell, Quiet
        <5>3. report'.profile # None
          BY <5>2, ProfileFacts, ReadPathAssumption DEF ReadPathAssumption
        <5> QED BY <4>2, <5>3 DEF AnswerTaken
      <4> QED BY <2>0, <4>1, <4>2
    <3> QED BY <3>2, <3>4, <3>5, <3>6 DEF NoFrame, OtherHandler
  <2>2. CASE ReadFrame
    BY <1>1, <2>1, <2>2 DEF ReadFrame, AnswerRead
  <2>3. CASE ReadPart
    BY <1>1, <2>1, <2>3 DEF ReadPart, AnswerRead
  <2>4. CASE ReadTwo
    <3>1. Handle(stream[1], TRUE)
      BY <2>4 DEF ReadTwo
    <3>2. stream # <<>>
      BY <2>4 DEF ReadTwo
    <3> QED BY <1>1, <2>1, <3>1, <3>2, StreamFacts DEF AnswerRead
  <2>5. CASE CommandStarts
    BY <2>0, <2>5 DEF CommandStarts
  <2>6. CASE ConcentratorAnswers \/ ConcentratorReports
    <3>1. PICK f \in Answers \union Reports : stream' = Append(stream, f)
      BY <2>6 DEF ConcentratorAnswers, ConcentratorReports, Sends
    <3> QED BY <1>1, <2>0, <3>1 DEF IInv, Types
  <2>7. CASE LoopEnds \/ Closed
    BY <2>0, <2>7 DEF LoopEnds, Closed, vars
  <2> QED BY <1>1, <2>2, <2>3, <2>4, <2>5, <2>6, <2>7 DEF Next
<1>2. IInv /\ [Next]_vars => [AnswerRead => AnswerTaken]_vars
  BY <1>1
<1> QED BY <1>2, Inv, PTL DEF Spec, AnswersReachHandler

-----------------------------------------------------------------------------
(* What is sent.                                                           *)

\* What a step sends is a request, an answer to a heartbeat or an event that is
\* made from what the concentrator and the meter told.
Reported ==
  /\ report.request = None \/ report.request \in Requests
  /\ report.reply = None \/ \E a \in Addresses : report.reply = Reply(a)

LEMMA QuietReported ==
  /\ report = Quiet => Reported
  /\ report' = Quiet => Reported'
BY DEF Quiet, Reported

LEMMA AskReported == Ask => Reported'
<1> SUFFICES ASSUME Ask PROVE Reported'
  OBVIOUS
<1>1. PICK q \in Requests : report' = [Quiet EXCEPT !.request = q]
  BY DEF Ask
<1>2. report'.request = q /\ report'.reply = None
  BY <1>1 DEF Quiet
<1> QED BY <1>2 DEF Reported

LEMMA TellReported ==
  ASSUME NEW profile, NEW calls, NEW idle \in BOOLEAN, Tell(profile, calls, idle)
  PROVE  Reported'
BY DEF Tell, Quiet, Reported

LEMMA OtherReported ==
  ASSUME NEW d, OtherHandler(d)
  PROVE  Reported'
<1>1. CASE report' = Quiet
  BY <1>1, QuietReported
<1>2. ASSUME NEW a \in Addresses, report' = [Quiet EXCEPT !.reply = Reply(a)]
      PROVE  Reported'
  <2>1. report'.request = None /\ report'.reply = Reply(a)
    BY <1>2 DEF Quiet
  <2> QED BY <2>1 DEF Reported
<1>3. ASSUME NEW e \in Events, report' = [Quiet EXCEPT !.event = Stored(e)]
      PROVE  Reported'
  <2>1. report'.request = None /\ report'.reply = None
    BY <1>3 DEF Quiet
  <2> QED BY <2>1 DEF Reported
<1> QED BY <1>1, <1>2, <1>3 DEF OtherHandler

LEMMA DlmsReported ==
  ASSUME NEW d, NEW whole \in BOOLEAN, NEW taken \in BOOLEAN, DlmsHandler(d, whole, taken)
  PROVE  Reported'
<1>1. CASE Unhandled(d, whole, taken)
  BY <1>1, QuietReported DEF Unhandled
<1>2. CASE Dialogue(d, whole, taken)
  BY <1>2, AskReported, QuietReported DEF Dialogue
<1>3. CASE NoProfile(d, whole, taken)
  BY <1>3, TellReported DEF NoProfile
<1>4. CASE OtherProfile(d, whole, taken)
  BY <1>4, TellReported DEF OtherProfile
<1>5. CASE AskRows(d, whole, taken)
  <2>1. ASSUME NEW idle \in BOOLEAN, Tell(None, UpdateCommandState(3), idle)
        PROVE  Reported'
    BY <2>1, TellReported
  <2>2. ASSUME NEW idle \in BOOLEAN, NEW q \in Requests,
               report' = [Quiet EXCEPT !.command = idcomando, !.request = q,
                                       !.delivered = Delivered(UpdateCommandState(3), idle)]
        PROVE  Reported'
    <3>1. report'.request = q /\ report'.reply = None
      BY <2>2 DEF Quiet
    <3> QED BY <3>1 DEF Reported
  <2> QED BY <1>5, <2>1, <2>2 DEF AskRows
<1>6. CASE SaveRowsOf(d, whole, taken)
  BY <1>6, TellReported DEF SaveRowsOf
<1>7. CASE RowFails(d, whole, taken)
  BY <1>7, TellReported DEF RowFails
<1> QED BY <1>1, <1>2, <1>3, <1>4, <1>5, <1>6, <1>7 DEF DlmsHandler

LEMMA HandleReported ==
  ASSUME NEW f, NEW whole \in BOOLEAN, Handle(f, whole)
  PROVE  Reported'
<1>1. CASE Ignored(f)
  BY <1>1, QuietReported DEF Ignored
<1>2. CASE Decoded(f, whole)
  <2>1. PICK d : \/ NoFrame(d) \/ OtherHandler(d) \/ Block(d, whole)
                 \/ \E taken \in BOOLEAN : DlmsHandler(d, whole, taken)
    BY <1>2 DEF Decoded
  <2>2. CASE NoFrame(d)
    BY <2>2, TellReported, QuietReported DEF NoFrame
  <2>3. CASE OtherHandler(d)
    BY <2>3, OtherReported
  <2>4. CASE Block(d, whole)
    BY <2>4, AskReported DEF Block
  <2> QED BY <2>1, <2>2, <2>3, <2>4, DlmsReported
<1> QED BY <1>1, <1>2 DEF Handle

LEMMA ReportedInv == Spec => []Reported
<1>1. Init => Reported
  BY QuietReported DEF Init
<1>2. Reported /\ [Next]_vars => Reported'
  <2> SUFFICES ASSUME Reported, [Next]_vars PROVE Reported'
    OBVIOUS
  <2>1. CASE CommandStarts
    BY <2>1, AskReported DEF CommandStarts
  <2>2. CASE ConcentratorAnswers \/ ConcentratorReports
    BY <2>2, QuietReported DEF ConcentratorAnswers, ConcentratorReports, Sends
  <2>3. CASE ReadFrame \/ ReadPart \/ ReadTwo
    BY <2>3, HandleReported DEF ReadFrame, ReadPart, ReadTwo
  <2>4. CASE LoopEnds
    BY <2>4, QuietReported DEF LoopEnds
  <2>5. CASE UNCHANGED vars
    <3>1. report' = report
      BY <2>5 DEF vars
    <3> QED BY <3>1 DEF Reported
  <2> QED BY <2>1, <2>2, <2>3, <2>4, <2>5 DEF Next, Closed
<1> QED BY <1>1, <1>2, PTL DEF Spec

\* Every request of MinRequest to MaxMeterRequest bytes, for a meter or for the
\* concentrator itself, says how long it is (Qgdw.cpp:483).
THEOREM RequestsTellSize == Spec => []SizesTold
<1>1. Reported => SizesTold
  <2> SUFFICES ASSUME Reported, report.request # None PROVE SizesTold
    BY DEF SizesTold
  <2>1. PICK n \in Lengths, macro \in BOOLEAN : report.request = Request(n, macro)
    BY DEF Reported, Requests
  <2>2. n \in MinRequest..MaxMeterRequest
    BY ReadPathAssumption DEF ReadPathAssumption
  <2>3. MeterFrameTold(MeterFrame(n), n) /\ MacroFrameTold(MacroFrame(n), n)
    BY <2>2, RequestSizes
  <2>4. /\ report.request.macro = macro /\ report.request.dlms = n
        /\ report.request.frame = IF macro THEN MacroFrame(n) ELSE MeterFrame(n)
    BY <2>1 DEF Request
  <2> QED BY <2>3, <2>4 DEF SizesTold
<1> QED BY <1>1, ReportedInv, PTL

\* The answer to a heartbeat names the concentrator that sent it, for those whose
\* byte 9 is below 100 and whose byte 10 is 0 (Qgdw.cpp:78).  (FrameAddress has
\* two characters for byte 9 and takes byte 10 from the zeros: of the others it
\* says nothing, and the answers to most of them go elsewhere.)
THEOREM RepliesNameSender == Spec => []RepliesReachSender
<1>1. Reported => RepliesReachSender
  <2> SUFFICES ASSUME Reported, report.reply # None, Reachable(report.reply.from)
               PROVE  report.reply.frame.address = report.reply.from
    BY DEF RepliesReachSender
  <2>1. PICK a \in Addresses : report.reply = Reply(a)
    BY DEF Reported
  <2>2. a \in Byte \X Byte \X Byte \X Byte \X {0}
    BY ReadPathAssumption DEF ReadPathAssumption
  <2>3. report.reply.from = a /\ report.reply.frame = HBFrame(ConcentratorOf(a), [seq |-> 113, echo |-> 4])
    BY <2>1 DEF Reply
  <2>4. HBFrame(ConcentratorOf(a), [seq |-> 113, echo |-> 4]).address = a
    BY <2>2, <2>3, HeartbeatsAnswered
  <2> QED BY <2>3, <2>4
<1> QED BY <1>1, ReportedInv, PTL

\* The code under which a concentrator is kept is that of no other one behind
\* the same or another peer (Qgdw.cpp:577).
THEOREM CodesApart == Spec => []CodesDistinct
<1>1. Reported => CodesDistinct
  <2> SUFFICES ASSUME Reported, report.reply # None,
                      NEW a \in Addresses, ConcentratorOf(a) = report.reply.code
               PROVE  a = report.reply.from
    BY DEF CodesDistinct
  <2>1. PICK b \in Addresses : report.reply = Reply(b)
    BY DEF Reported
  <2>2. report.reply.from = b /\ report.reply.code = ConcentratorOf(b)
    BY <2>1 DEF Reply
  <2>3. a \in Byte \X Byte \X Byte \X Byte \X {0} /\ b \in Byte \X Byte \X Byte \X Byte \X {0}
    BY ReadPathAssumption DEF ReadPathAssumption
  <2> QED BY <2>2, <2>3, CodeInjective
<1> QED BY <1>1, ReportedInv, PTL

-----------------------------------------------------------------------------
(* What reaches the database.                                              *)

\* A call for the rows of p, launched with or without a command.
RightCall(p, command, call) ==
  /\ call.proc = "status" => p = None \/ p.widths = <<>>
  /\ call.proc = "readings" =>
       IF command > 0
       THEN /\ Begins(call.rows, MeasuredRows(p))
            /\ p.relecturas = 1 => call.rows = MeasuredRows(p)
       ELSE p.rowid = 0 /\ p.mode = 0 /\ p.widths # <<>> => Begins(call.rows, MeasuredRows(p))

\* The last step had at most one call answered for, and that one was right.
Right ==
  \/ report.delivered = <<>>
  \/ \E call : /\ report.delivered = <<call>>
               /\ RightCall(report.profile, report.command, call)

LEMMA OneOrNone ==
  ASSUME NEW x, NEW b, NEW S, x \in S
  PROVE  (IF b THEN <<x>> ELSE <<>>) \in Seq(S)
<1>1. <<x>> \in Seq(S) /\ <<>> \in Seq(S)
  OBVIOUS
<1> QED BY <1>1

\* The first call of the save with a command, which is the one that may reach
\* the database.
LEMMA SavedWithCommand ==
  ASSUME NEW p \in AllProfiles, Readable(p) \/ p.widths = <<>>,
         NEW calls \in SaveDataFromProfile_Core(p), NEW command \in Nat \ {0}
  PROVE  RightCall(p, command, calls[1])
<1>1. CASE Len(p.widths) > 0
  <2>1. p.widths # <<>>
    BY <1>1 DEF AllProfiles
  <2>2. Convert(p).kept = MeasuredRows(p) /\ Len(MeasuredRows(p)) \in Nat
    BY <2>1, RowsConverted
  <2>3. calls = SaveRows(p, Convert(p))
    BY <1>1 DEF SaveDataFromProfile_Core
  <2> DEFINE call == Launched(p, Convert(p))
             status == LastStatus(Convert(p))
  <2>4. calls = <<call>> \o status
    BY <2>3 DEF SaveRows
  <2>5. status \in Seq({Status(-2)})
    BY OneOrNone DEF LastStatus
  <2>6. CASE p.relecturas = 0
    <3>1. call.proc = "answer"
      BY <2>6 DEF Launched, Answer
    <3> QED BY <2>4, <2>5, <3>1 DEF RightCall
  <2>7. CASE p.relecturas = 1
    <3>1. call = Readings(MeasuredRows(p))
      BY <2>2, <2>7 DEF Launched
    <3>2. call.proc = "readings" /\ call.rows = MeasuredRows(p)
      BY <3>1 DEF Readings
    <3>3. Begins(MeasuredRows(p), MeasuredRows(p))
      BY <2>2 DEF Begins
    <3>4. calls[1] = call
      BY <2>4, <2>5
    <3> HIDE DEF call
    <3> QED BY <3>2, <3>3, <3>4 DEF RightCall
  <2>8. CASE p.relecturas \notin {0, 1}
    <3>1. call = Readings(<<>>)
      BY <2>8 DEF Launched
    <3>2. call.proc = "readings" /\ call.rows = <<>>
      BY <3>1 DEF Readings
    <3>3. Begins(<<>>, MeasuredRows(p))
      BY <2>2 DEF Begins
    <3>4. calls[1] = call
      BY <2>4, <2>5
    <3> HIDE DEF call
    <3> QED BY <2>8, <3>2, <3>3, <3>4 DEF RightCall
  <2> QED BY <2>6, <2>7, <2>8
<1>2. CASE ~(Len(p.widths) > 0)
  <2>1. p.widths = <<>>
    BY <1>2 DEF AllProfiles
  <2>2. \E state : calls = <<Status(state)>>
    BY <1>2 DEF SaveDataFromProfile_Core
  <2>3. calls[1].proc = "status"
    BY <2>2 DEF Status
  <2> QED BY <2>1, <2>3 DEF RightCall
<1> QED BY <1>1, <1>2

\* The same without a command: a call for each row, and the first is that of
\* the first row that is sound.
LEMMA SavedWithoutCommand ==
  ASSUME NEW p \in AllProfiles, Readable(p) \/ p.widths = <<>>,
         NEW calls \in SavedataFromProfileAuto_Core(p), calls # <<>>
  PROVE  RightCall(p, 0, calls[1])
<1>1. CASE p.mode = 0 /\ p.rowid = 0 /\ Len(p.widths) > 0
  <2> DEFINE kept == Convert(p).kept
             each == [i \in 1..Len(kept) |-> Readings(<<kept[i]>>)]
             last == IF Convert(p).error = 0 THEN <<Readings(kept)>> ELSE <<>>
  <2>1. p.widths # <<>>
    BY <1>1 DEF AllProfiles
  <2>2. kept = MeasuredRows(p) /\ Len(kept) \in Nat
    BY <2>1, RowsConverted
  <2>3. calls = each \o last
    BY <1>1 DEF SavedataFromProfileAuto_Core
  <2>4. kept = [k \in 1..Len(kept) |-> kept[k]]
    <3>1. MeasuredRows(p) = RowsTo(p, Len(p.widths)) /\ Place(p, Len(p.widths)) \in Nat
      BY PlaceNext DEF AllProfiles, MeasuredRows, RowsTo, RowOf
    <3> QED BY <2>2, <3>1 DEF RowsTo
  <2> HIDE DEF kept
  <2>5. CASE Len(kept) = 0
    <3>1. kept = <<>> /\ each = <<>>
      BY <2>4, <2>5
    <3>2. last \in Seq({Readings(<<>>)})
      BY <3>1, OneOrNone
    <3>3. calls = last
      BY <2>3, <3>1, <3>2
    <3>4. calls = <<Readings(<<>>)>>
      BY <3>1, <3>3
    <3>5. calls[1].rows = <<>> /\ calls[1].proc = "readings"
      BY <3>4 DEF Readings
    <3> QED BY <2>2, <3>1, <3>5 DEF RightCall, Begins
  <2>6. CASE Len(kept) > 0
    <3> DEFINE all == {Readings(<<kept[i]>>) : i \in 1..Len(kept)} \union {Readings(kept)}
    <3>1. each \in Seq(all) /\ Len(each) = Len(kept)
      BY <2>2
    <3>2. each[1] = Readings(<<kept[1]>>)
      BY <2>2, <2>6
    <3>6. last \in Seq(all)
      BY OneOrNone
    <3> HIDE DEF each, last, all
    <3>3. calls[1] = each[1]
      BY <2>2, <2>3, <2>6, <3>1, <3>6
    <3>4. calls[1].rows = <<kept[1]>> /\ calls[1].proc = "readings"
      BY <3>2, <3>3 DEF Readings
    <3>5. Begins(<<kept[1]>>, kept)
      BY <2>2, <2>6 DEF Begins
    <3> QED BY <2>2, <3>4, <3>5 DEF RightCall
  <2> QED BY <2>2, <2>5, <2>6
<1>2. CASE ~(p.mode = 0 /\ p.rowid = 0 /\ Len(p.widths) > 0)
  <2>1. p.mode = 0 /\ p.rowid = 0 => p.widths = <<>>
    BY <1>2 DEF AllProfiles
  <2>2. calls \in Unmeasured
    BY <1>2 DEF SavedataFromProfileAuto_Core
  <2>3. calls[1].proc = "readings"
    BY <2>2 DEF Unmeasured, Readings
  <2> QED BY <2>1, <2>3 DEF RightCall
<1> QED BY <1>1, <1>2

LEMMA TellRight ==
  ASSUME NEW profile, NEW calls, NEW idle \in BOOLEAN, Tell(profile, calls, idle),
         calls # <<>> => RightCall(profile, idcomando, calls[1])
  PROVE  Right'
<1>1. /\ report'.profile = profile /\ report'.command = idcomando
      /\ report'.delivered = Delivered(calls, idle)
  BY DEF Tell, Quiet
<1>2. Delivered(calls, idle) = <<>> \/ (calls # <<>> /\ Delivered(calls, idle) = <<calls[1]>>)
  BY DEF Delivered
<1> QED BY <1>1, <1>2 DEF Right

LEMMA QuietRight ==
  /\ report = Quiet => Right
  /\ report' = Quiet => Right'
BY DEF Quiet, Right

LEMMA NoFrameRight ==
  ASSUME NEW d, NoFrame(d)
  PROVE  Right'
<1>1. CASE report' = Quiet
  BY <1>1, QuietRight
<1>2. ASSUME NEW state, NEW idle \in BOOLEAN, Tell(None, <<Status(state)>>, idle)
      PROVE  Right'
  <2>1. RightCall(None, idcomando, <<Status(state)>>[1])
    BY DEF RightCall, Status
  <2> QED BY <1>2, <2>1, TellRight
<1> QED BY <1>1, <1>2 DEF NoFrame

\* A status without a profile, or for one none of whose rows is saved.
LEMMA StatusRight ==
  ASSUME NEW profile, profile = None \/ profile.widths = <<>>,
         NEW state, NEW calls, calls \in {<<>>, <<Status(state)>>}
  PROVE  calls # <<>> => RightCall(profile, idcomando, calls[1])
BY DEF RightCall, Status

LEMMA UpdateStatus ==
  ASSUME NEW state
  PROVE  UpdateCommandState(state) \in {<<>>, <<Status(state)>>}
BY DEF UpdateCommandState

LEMMA SaveRowsOfRight ==
  ASSUME IInv, NEW d, NEW whole \in BOOLEAN, NEW taken \in BOOLEAN, SaveRowsOf(d, whole, taken)
  PROVE  Right'
<1>1. PICK p \in Profiles, idle \in BOOLEAN :
        \E q \in {WithoutRows(p), p} : \E calls \in Calls(q) : Tell(q, calls, idle)
  BY DEF SaveRowsOf
<1>2. PICK q, calls : q \in {WithoutRows(p), p} /\ calls \in Calls(q) /\ Tell(q, calls, idle)
  BY <1>1
<1>3. q \in AllProfiles /\ (Readable(q) \/ q.widths = <<>>)
  BY <1>2, ProfileFacts
<1>4. calls # <<>> => RightCall(q, idcomando, calls[1])
  <2>1. CASE idcomando > 0
    BY <1>2, <1>3, <2>1, SavedWithCommand DEF Calls, IInv, Types
  <2>2. CASE ~(idcomando > 0)
    <3>1. idcomando = 0
      BY <2>2 DEF IInv, Types
    <3> QED BY <1>2, <1>3, <3>1, SavedWithoutCommand DEF Calls
  <2> QED BY <2>1, <2>2
<1> QED BY <1>2, <1>4, TellRight

LEMMA RowFailsRight ==
  ASSUME NEW d, NEW whole \in BOOLEAN, NEW taken \in BOOLEAN, RowFails(d, whole, taken)
  PROVE  Right'
<1>1. PICK p \in Profiles, idle \in BOOLEAN :
        Tell(WithoutRows(p), IF p.mode = 1 THEN UpdateCommandState(-255) ELSE <<>>, idle)
  BY DEF RowFails
<1> DEFINE calls == IF p.mode = 1 THEN UpdateCommandState(-255) ELSE <<>>
<1>2. calls \in {<<>>, <<Status(-255)>>}
  BY <1>1, UpdateStatus
<1>3. WithoutRows(p).widths = <<>>
  BY ProfileFacts
<1>4. calls # <<>> => RightCall(WithoutRows(p), idcomando, calls[1])
  BY <1>2, <1>3, StatusRight
<1>5. Tell(WithoutRows(p), calls, idle)
  BY <1>1
<1> HIDE DEF calls
<1> QED BY <1>4, <1>5, TellRight

\* The columns: each end of their handler tells a state at most.
LEMMA ColumnsRight ==
  ASSUME NEW d, NEW whole \in BOOLEAN, NEW taken \in BOOLEAN,
         \/ NoProfile(d, whole, taken) \/ OtherProfile(d, whole, taken)
         \/ AskRows(d, whole, taken)
  PROVE  Right'
<1>1. ASSUME NEW state, NEW idle \in BOOLEAN, Tell(None, UpdateCommandState(state), idle)
      PROVE  Right'
  <2>1. UpdateCommandState(state) # <<>> =>
          RightCall(None, idcomando, UpdateCommandState(state)[1])
    BY UpdateStatus, StatusRight
  <2> QED BY <1>1, <2>1, TellRight
<1>2. ASSUME NEW idle \in BOOLEAN, NEW q \in Requests,
             report' = [Quiet EXCEPT !.command = idcomando, !.request = q,
                                     !.delivered = Delivered(UpdateCommandState(3), idle)]
      PROVE  Right'
  <2>1. /\ report'.profile = None /\ report'.command = idcomando
        /\ report'.delivered = Delivered(UpdateCommandState(3), idle)
    BY <1>2 DEF Quiet
  <2>2. report'.delivered = <<>> \/ report'.delivered = <<Status(3)>>
    BY <2>1 DEF Delivered, UpdateCommandState
  <2>3. RightCall(None, idcomando, Status(3))
    BY DEF RightCall, Status
  <2> QED BY <2>1, <2>2, <2>3 DEF Right
<1> QED BY <1>1, <1>2 DEF NoProfile, OtherProfile, AskRows

LEMMA OtherRight ==
  ASSUME \/ Ask \/ \E d : OtherHandler(d)
  PROVE  Right'
<1>1. report'.delivered = <<>>
  BY DEF Ask, OtherHandler, Quiet
<1> QED BY <1>1 DEF Right

LEMMA DlmsRight ==
  ASSUME IInv, NEW d, NEW whole \in BOOLEAN, NEW taken \in BOOLEAN,
         DlmsHandler(d, whole, taken)
  PROVE  Right'
<1>1. CASE Unhandled(d, whole, taken)
  BY <1>1, QuietRight DEF Unhandled
<1>2. CASE Dialogue(d, whole, taken)
  BY <1>2, OtherRight, QuietRight DEF Dialogue
<1> QED BY <1>1, <1>2, ColumnsRight, SaveRowsOfRight, RowFailsRight DEF DlmsHandler

LEMMA HandleRight ==
  ASSUME IInv, NEW f, NEW whole \in BOOLEAN, Handle(f, whole)
  PROVE  Right'
<1>1. CASE Ignored(f)
  BY <1>1, QuietRight DEF Ignored
<1>2. CASE Decoded(f, whole)
  <2>1. PICK d : \/ NoFrame(d) \/ OtherHandler(d) \/ Block(d, whole)
                 \/ \E taken \in BOOLEAN : DlmsHandler(d, whole, taken)
    BY <1>2 DEF Decoded
  <2>2. CASE Block(d, whole)
    BY <2>2, OtherRight DEF Block
  <2> QED BY <2>1, <2>2, NoFrameRight, OtherRight, DlmsRight
<1> QED BY <1>1, <1>2 DEF Handle

LEMMA RightInv == Spec => []Right
<1>1. Init => Right
  BY QuietRight DEF Init
<1>2. IInv /\ Right /\ [Next]_vars => Right'
  <2> SUFFICES ASSUME IInv, Right, [Next]_vars PROVE Right'
    OBVIOUS
  <2>1. CASE CommandStarts
    BY <2>1, OtherRight DEF CommandStarts
  <2>2. CASE ConcentratorAnswers \/ ConcentratorReports
    BY <2>2, QuietRight DEF ConcentratorAnswers, ConcentratorReports, Sends
  <2>3. CASE ReadFrame \/ ReadPart \/ ReadTwo
    BY <2>3, HandleRight DEF ReadFrame, ReadPart, ReadTwo
  <2>4. CASE LoopEnds
    BY <2>4, QuietRight DEF LoopEnds
  <2>5. CASE UNCHANGED vars
    <3>1. report' = report
      BY <2>5 DEF vars
    <3> QED BY <3>1 DEF Right
  <2> QED BY <2>1, <2>2, <2>3, <2>4, <2>5 DEF Next, Closed
<1> QED BY <1>1, <1>2, Inv, PTL DEF Spec

LEMMA RightSent ==
  ASSUME Right, NEW proc, NEW call \in Sent(proc)
  PROVE  call.proc = proc /\ RightCall(report.profile, report.command, call)
<1>1. PICK i \in DOMAIN report.delivered : call = report.delivered[i] /\ call.proc = proc
  BY DEF Sent
<1>2. report.delivered # <<>>
  BY <1>1
<1>3. PICK c : report.delivered = <<c>> /\ RightCall(report.profile, report.command, c)
  BY <1>2 DEF Right
<1> QED BY <1>1, <1>3

\* Readings reach the database as the meter measured them, for profiles of any
\* number of rows and columns (Session.cpp:1795 to 2180).
THEOREM ReadingsAsMeasured == Spec => []RowsAsMeasured
<1>1. Right => RowsAsMeasured
  BY RightSent DEF RowsAsMeasured, RightCall
<1> QED BY <1>1, RightInv, PTL

\* A status reaches the database only for an answer without rows: the -2 after
\* the rows is always refused (Session.cpp:1884).
THEOREM StatusNeverAfterRows == Spec => []StatusWithoutRows
<1>1. Right => StatusWithoutRows
  BY RightSent DEF StatusWithoutRows, RightCall
<1> QED BY <1>1, RightInv, PTL
=============================================================================
