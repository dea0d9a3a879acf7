------------------------------ MODULE Framing ------------------------------
(***************************************************************************)
(* The frames of the concentrators, Q/GDW 376.1: Qgdw.cpp, with the        *)
(* conversions of funciones.cpp it calls.                                  *)
(*                                                                         *)
(* Numbers that end up in a frame are kept as bytes, and the concentrator  *)
(* code as its characters, each a digit 0..15.  What a frame carries is    *)
(* reduced to what DecodeFrame looks at.                                   *)
(*                                                                         *)
(* Definitions under a "Fault" comment are faulty variants of the one that *)
(* follows; no specification uses them, the README says what they are for. *)
(***************************************************************************)
EXTENDS Integers, Sequences, FiniteSets

Byte == 0..255

-----------------------------------------------------------------------------
(* Numbers.                                                                *)

\* IntToHex and HexToBytes: as many bytes as the number needs, highest first.
\* (The numbers converted here have two bytes at most.)
Bytes(n) == IF n < 256 THEN <<n>> ELSE <<n \div 256, n % 256>>

\* IntToHex of one byte: two characters.
Hex(b) == <<b \div 16, b % 16>>

\* std::to_string of a byte.
Decimal(b) ==
  CASE b < 10 -> <<b>>
    [] b \in 10..99 -> <<b \div 10, b % 10>>
    [] OTHER -> <<b \div 100, (b \div 10) % 10, b % 10>>

\* Fault: the length is shifted by one bit.
LengthFieldOneBit(longitud) == LET lNum == 2 * (longitud % 16384) + 1
  IN  IF Len(Bytes(lNum)) = 1 THEN <<lNum, 0>> ELSE <<Bytes(lNum)[2], Bytes(lNum)[1]>>

\* HeaderFrame: fourteen bits and "10" (binary), lowest byte first, between
\* two 0x68 and twice over.
LengthField(longitud) ==
  LET lNum == 4 * (longitud % 16384) + 2
  IN  IF Len(Bytes(lNum)) = 1 THEN <<lNum, 0>> ELSE <<Bytes(lNum)[2], Bytes(lNum)[1]>>

HeaderFrame(longitud) == <<104>> \o LengthField(longitud) \o LengthField(longitud) \o <<104>>

\* lenframeData of DecodeFrame.
LengthOf(header) == (256 * header[3] + header[2]) \div 4

-----------------------------------------------------------------------------
(* Addresses.                                                              *)

\* Fault: byte 11 is taken for byte 10.
ConcentratorOfLastByte(address) ==
  Hex(address[2]) \o Hex(address[1]) \o Decimal(address[5]) \o <<0, 0>>
    \o (IF address[3] < 10 THEN <<0>> ELSE <<>>) \o Decimal(address[3])

\* The code DecodeFrame makes of bytes 7 to 10 of a frame.
ConcentratorOf(address) ==
  Hex(address[2]) \o Hex(address[1]) \o Decimal(address[4]) \o <<0, 0>>
    \o (IF address[3] < 10 THEN <<0>> ELSE <<>>) \o Decimal(address[3])

\* Fault: the number is taken for hexadecimal.
FrameAddressHex(concentrador, byteadd) ==
  <<16 * concentrador[3] + concentrador[4],
    16 * concentrador[1] + concentrador[2],
    16 * concentrador[8] + concentrador[9],
    16 * concentrador[6] + concentrador[7],
    byteadd>>

\* FrameAddress: atoi of two characters, the others as hexadecimal.
FrameAddress(concentrador, byteadd) ==
  <<16 * concentrador[3] + concentrador[4],
    16 * concentrador[1] + concentrador[2],
    10 * concentrador[8] + concentrador[9],
    16 * concentrador[6] + concentrador[7],
    byteadd>>

-----------------------------------------------------------------------------
(* Frames to the concentrator.                                             *)

\* Data0: 24 bytes and the length of the DLMS frame that follows.
Data0Size(n) == 24 + Len(Bytes(n))

\* The inner length of a request for a meter with a DLMS frame of n bytes.
Inner(n) == Data0Size(n) + n + 4

\* PacketFrame2 for a meter: control (1), address (5), AFN, SEQ, DA and DT (6);
\* 1F CB A8 14; the inner length, twice, with 00 68 between; Data0 and the
\* frame; AuxData (8).  size counts what the header's length is about.
MeterFrame(n) ==
  LET size == 1 + 5 + 6 + 4 + (2 * Len(Bytes(Inner(n))) + 2) + Data0Size(n) + n + 8
  IN  [header |-> HeaderFrame(size), inner |-> Bytes(Inner(n)) \o <<0>>, size |-> size]

\* PacketFrame2 for the concentrator's own meter: 01 CB A3 14, the length and
\* 00, the frame and sixteen zeros, AuxData0 (6).  (For n >= MinRequest: of
\* fewer bytes dlms.substr(11, 5) throws, and nothing is sent.)
MacroFrame(n) ==
  LET size == 1 + 5 + 6 + 4 + (Len(Bytes(n)) + 1) + n + 16 + 6
  IN  [header |-> HeaderFrame(size), inner |-> Bytes(n) \o <<0>>, size |-> size]

\* A length that is sent lowest byte first.
Told(field) == 256 * field[2] + field[1]

\* HBFrame: the answer to heartbeat hb.
HBFrame(concentrator, hb) ==
  [kind |-> "hb", address |-> FrameAddress(concentrator, 0), seq |-> (hb.seq - 16) % 256, echo |-> hb.echo]

-----------------------------------------------------------------------------
(* Frames from the concentrator.                                           *)

\* What DecodeFrame looks at: bytes 6 (control), 12 (AFN), 18 (task) and 25
\* (kind of answer).
FrameOf(control, afn, task, sub) == [control |-> control, afn |-> afn, task |-> task, sub |-> sub]

\* User data: what a meter answered (4 and 5 are DLMS, 0 is RF), that it could
\* not be reached (1), or what the concentrator's own meter answered.
UserData(f) ==
  CASE f.task = 31 /\ f.sub \in {4, 5} -> "dlms"
    [] f.task = 31 /\ f.sub = 0 -> "rf"
    [] f.task = 1 -> "dlms"
    [] OTHER -> "none"

\* Fault: a frame that is not known resets m_typeframe.
DecodeFrameResetting(f, was) ==
  CASE f.control = 201 -> [was EXCEPT !.content = "hb", !.frametype = 1]
    [] f.control = 136 /\ f.afn = 16 ->
         [content |-> UserData(f), frametype |-> 0,
          typeframe |-> IF f.task = 31 THEN f.sub ELSE was.typeframe]
    [] f.control = 136 /\ f.afn # 16 ->
         [was EXCEPT !.content = IF f.afn = 0 THEN "success" ELSE "none", !.frametype = 0]
    [] f.control = 196 -> [was EXCEPT !.content = "event", !.frametype = 3]
    [] OTHER -> [was EXCEPT !.content = "none", !.typeframe = 0]

\* Fault: user data leaves m_frametype as it is.
DecodeFrameKeepingType(f, was) ==
  CASE f.control = 201 -> [was EXCEPT !.content = "hb", !.frametype = 1]
    [] f.control = 136 /\ f.afn = 16 ->
         [was EXCEPT !.content = UserData(f), !.typeframe = IF f.task = 31 THEN f.sub ELSE @]
    [] f.control = 136 /\ f.afn = 0 -> [was EXCEPT !.content = "success", !.frametype = 0]
    [] f.control = 137 -> [was EXCEPT !.content = "none", !.typeframe = 0]
    [] f.control = 196 -> [was EXCEPT !.content = "event", !.frametype = 3]
    [] OTHER -> [was EXCEPT !.content = "none"]

\* DecodeFrame by the control byte, C9, 88, 89 or C4: what it returns, and
\* m_frametype and m_typeframe, which keep what they were where the frame
\* does not set them.
DecodeFrame(f, was) ==
  CASE f.control = 201 -> [was EXCEPT !.content = "hb", !.frametype = 1]
    [] f.control = 136 /\ f.afn = 16 ->
         [content |-> UserData(f), frametype |-> 0,
          typeframe |-> IF f.task = 31 THEN f.sub ELSE was.typeframe]
    [] f.control = 136 /\ f.afn # 16 ->
         [was EXCEPT !.content = IF f.afn = 0 THEN "success" ELSE "none", !.frametype = 0]
    [] f.control = 137 -> [was EXCEPT !.content = "none", !.typeframe = 0]
    [] f.control = 196 -> [was EXCEPT !.content = "event", !.frametype = 3]
    [] OTHER -> [was EXCEPT !.content = "none"]

-----------------------------------------------------------------------------
(* RF events.                                                              *)

\* ParseEvents: the type and code an event is stored under, by bytes 22, 23 and
\* 29; <<-1, -1>> is stored with the whole frame.  The branch of the phases
\* asks byte 22 for two values at once and is never taken, so that the events of
\* the phases (724 to 726, 765 to 767) are stored as unknown.
ParseEvents(d) ==
  CASE d.b22 = 14 /\ d.b23 = 10 -> IF d.b29 = 238 THEN <<1, 1>> ELSE <<1, 2>>
    [] d.b22 = 33 /\ d.b23 = 13 -> <<10, 787>>
    [] OTHER -> <<-1, -1>>

-----------------------------------------------------------------------------
(* What the conversions are for.                                           *)

\* Addresses the code has the places of Qgdw.cpp:80 for: byte 10 is 0 and the
\* number in byte 9 has two characters.  (Hardly any other comes back.)
Reachable(address) == address[3] \in 0..99 /\ address[4] = 0

\* The DLMS frames a request may have: the shortest that MacroFrame takes, and
\* the longest whose inner length fits the one byte a receiver reads.  (The
\* requests of this code, SNRM, AARQ and GET, are in between.)
MinRequest == 6
MaxMeterRequest == 226

\* A request tells its own size, to the concentrator and inside.
MeterFrameTold(f, n) == LengthOf(f.header) = f.size /\ Told(f.inner) = Inner(n)

MacroFrameTold(f, n) == LengthOf(f.header) = f.size /\ Told(f.inner) = n

\* Bytes 22, 23 and 29 of the events whose kind the comments of ParseEvents
\* name.
Events ==
  {[b22 |-> 14, b23 |-> 10, b29 |-> 238],  \* power outage
   [b22 |-> 14, b23 |-> 10, b29 |-> 20],   \* power back
   [b22 |-> 24, b23 |-> 14, b29 |-> 20],   \* a phase is broken, or its voltage low
   [b22 |-> 33, b23 |-> 13, b29 |-> 238]}  \* state word
=============================================================================
