---------------------------- MODULE FramingProofs ----------------------------
(***************************************************************************)
(* What the frames of Qgdw.cpp say is what was meant, for every length the *)
(* header can hold and every concentrator FrameAddress can name, and no    *)
(* two concentrators have the same code.                                   *)
(***************************************************************************)
EXTENDS Framing, TLAPS

-----------------------------------------------------------------------------
(* Lengths.                                                                *)

\* Bytes by its length.
LEMMA TwoBytes ==
  ASSUME NEW n \in Nat, 256 <= n
  PROVE  Len(Bytes(n)) = 2 /\ Bytes(n)[1] = n \div 256 /\ Bytes(n)[2] = n % 256
BY SMT DEF Bytes

LEMMA OneByte ==
  ASSUME NEW n \in Nat, n < 256
  PROVE  Len(Bytes(n)) = 1 /\ Bytes(n)[1] = n
BY SMT DEF Bytes

\* The fourteen bits, read from the two bytes, are four times the length and 2.
LEMMA FieldTold ==
  ASSUME NEW longitud \in Nat, longitud < 16384
  PROVE  256 * LengthField(longitud)[2] + LengthField(longitud)[1] = 4 * longitud + 2
<1>1. longitud % 16384 = longitud
  BY SMT
<1>2. PICK lNum \in Nat : lNum = 4 * longitud + 2
  BY SMT
<1>3. 4 * (longitud % 16384) + 2 = lNum
  BY <1>1, <1>2, SMT
<1>4. LengthField(longitud) = IF Len(Bytes(lNum)) = 1 THEN <<lNum, 0>> ELSE <<Bytes(lNum)[2], Bytes(lNum)[1]>>
  BY <1>3, SMT DEF LengthField
<1>5. CASE lNum < 256
  BY <1>2, <1>4, <1>5, OneByte, SMT
<1>6. CASE 256 <= lNum
  <2>1. 256 * (lNum \div 256) + (lNum % 256) = lNum
    BY <1>2, SMT
  <2>2. Len(Bytes(lNum)) = 2 /\ Bytes(lNum)[1] = lNum \div 256 /\ Bytes(lNum)[2] = lNum % 256
    BY <1>6, TwoBytes, SMT
  <2>3. LengthField(longitud)[2] = lNum \div 256 /\ LengthField(longitud)[1] = lNum % 256
    BY <1>4, <2>2, SMT
  <2> QED BY <1>2, <2>1, <2>3, SMT
<1> QED BY <1>2, <1>5, <1>6, SMT

LEMMA Quarter ==
  ASSUME NEW longitud \in Nat
  PROVE  (4 * longitud + 2) \div 4 = longitud
BY SMT

\* ... and there are two of them.
LEMMA FieldType ==
  ASSUME NEW longitud \in Nat, longitud < 16384
  PROVE  Len(LengthField(longitud)) = 2 /\ LengthField(longitud) \in Seq(Int)
<1>1. PICK lNum \in Nat : lNum = 4 * (longitud % 16384) + 2
  BY SMT
<1>2. Bytes(lNum)[1] \in Int /\ (Len(Bytes(lNum)) # 1 => Bytes(lNum)[2] \in Int)
  <2>1. CASE lNum < 256
    BY <2>1, OneByte, SMT
  <2>2. CASE 256 <= lNum
    BY <2>2, TwoBytes, SMT
  <2> QED BY <1>1, <2>1, <2>2, SMT
<1>3. LengthField(longitud) = IF Len(Bytes(lNum)) = 1 THEN <<lNum, 0>> ELSE <<Bytes(lNum)[2], Bytes(lNum)[1]>>
  BY <1>1, SMT DEF LengthField
<1> QED BY <1>2, <1>3, SMT

\* The header around the two bytes of a length.
LEMMA Pair ==
  ASSUME NEW f \in Seq(Int), Len(f) = 2
  PROVE  f = <<f[1], f[2]>>
OBVIOUS

LEMMA PairHeader ==
  ASSUME NEW low \in Int, NEW high \in Int, NEW f, f = <<low, high>>
  PROVE  (<<104>> \o f \o f \o <<104>>)[2] = f[1] /\ (<<104>> \o f \o f \o <<104>>)[3] = f[2]
  BY SMT

LEMMA HeaderBytes ==
  ASSUME NEW f \in Seq(Int), Len(f) = 2
  PROVE  (<<104>> \o f \o f \o <<104>>)[2] = f[1] /\ (<<104>> \o f \o f \o <<104>>)[3] = f[2]
<1>1. f[1] \in Int /\ f[2] \in Int
  OBVIOUS
<1> QED BY <1>1, Pair, PairHeader

\* HeaderFrame and lenframeData of DecodeFrame are inverse as far as fourteen
\* bits go (Qgdw.cpp:33).
THEOREM HeaderTellsLength ==
  ASSUME NEW longitud \in Nat, longitud < 16384
  PROVE  LengthOf(HeaderFrame(longitud)) = longitud
<1> DEFINE field == LengthField(longitud)
<1>1. 256 * field[2] + field[1] = 4 * longitud + 2
  BY FieldTold
<1>2. Len(field) = 2 /\ field \in Seq(Int)
  BY FieldType
<1>3. HeaderFrame(longitud)[2] = field[1] /\ HeaderFrame(longitud)[3] = field[2]
  BY <1>2, HeaderBytes DEF HeaderFrame
<1> HIDE DEF field
<1>4. LengthOf(HeaderFrame(longitud)) = (4 * longitud + 2) \div 4
  BY <1>1, <1>3, SMT DEF LengthOf
<1> QED BY <1>4, Quarter, SMT

-----------------------------------------------------------------------------
(* Requests.                                                               *)

\* A number of one byte followed by 00 is read back lowest byte first.
LEMMA OneByteTold ==
  ASSUME NEW n \in Nat, n < 256
  PROVE  Told(Bytes(n) \o <<0>>) = n
<1>1. Bytes(n) = <<n>>
  BY SMT DEF Bytes
<1>2. (<<n>> \o <<0>>)[1] = n /\ (<<n>> \o <<0>>)[2] = 0
  BY SMT
<1> QED BY <1>1, <1>2, SMT DEF Told

\* The sizes of Data0, of what the inner length counts and of the whole.
LEMMA MeterParts ==
  ASSUME NEW n \in MinRequest..MaxMeterRequest
  PROVE  /\ Data0Size(n) = 25 /\ Inner(n) = n + 29 /\ Inner(n) \in Nat /\ Inner(n) < 256
         /\ MeterFrame(n).size = n + 53
<1>1. n \in Nat /\ n <= 226
  BY DEF MinRequest, MaxMeterRequest
<1>2. Len(Bytes(n)) = 1
  BY <1>1, OneByte
<1>3. Data0Size(n) = 25
  BY <1>2 DEF Data0Size
<1>4. Inner(n) = n + 29 /\ Inner(n) \in Nat /\ Inner(n) < 256
  BY <1>1, <1>3 DEF Inner
<1>5. Len(Bytes(Inner(n))) = 1
  BY <1>4, OneByte
<1>6. MeterFrame(n).size = 1 + 5 + 6 + 4 + (2 * 1 + 2) + 25 + n + 8
  BY <1>3, <1>5 DEF MeterFrame
<1> QED BY <1>1, <1>3, <1>4, <1>6

\* A request to a meter tells its sizes, the outer and the inner one
\* (Qgdw.cpp:494 to 506).
THEOREM MeterSizes ==
  ASSUME NEW n \in MinRequest..MaxMeterRequest
  PROVE  MeterFrameTold(MeterFrame(n), n)
<1>1. n \in Nat /\ n <= 226
  BY DEF MinRequest, MaxMeterRequest
<1>2. MeterFrame(n).size \in Nat /\ MeterFrame(n).size < 16384
  BY <1>1, MeterParts
<1>3. MeterFrame(n).header = HeaderFrame(MeterFrame(n).size) /\ MeterFrame(n).inner = Bytes(Inner(n)) \o <<0>>
  BY DEF MeterFrame
<1>4. Told(MeterFrame(n).inner) = Inner(n)
  BY <1>3, MeterParts, OneByteTold
<1> QED BY <1>2, <1>3, <1>4, HeaderTellsLength DEF MeterFrameTold

\* The same of a request to the concentrator's own meter (Qgdw.cpp:521 to 533).
THEOREM MacroSizes ==
  ASSUME NEW n \in MinRequest..MaxMeterRequest
  PROVE  MacroFrameTold(MacroFrame(n), n)
<1>1. n \in Nat /\ n <= 226
  BY DEF MinRequest, MaxMeterRequest
<1>2. Len(Bytes(n)) = 1
  BY <1>1, OneByte
<1>3. MacroFrame(n).size = 1 + 5 + 6 + 4 + (1 + 1) + n + 16 + 6
  BY <1>2 DEF MacroFrame
<1>4. MacroFrame(n).size \in Nat /\ MacroFrame(n).size < 16384
  BY <1>1, <1>3
<1>5. MacroFrame(n).header = HeaderFrame(MacroFrame(n).size) /\ MacroFrame(n).inner = Bytes(n) \o <<0>>
  BY DEF MacroFrame
<1>6. Told(MacroFrame(n).inner) = n
  BY <1>1, <1>5, OneByteTold
<1> QED BY <1>4, <1>5, <1>6, HeaderTellsLength DEF MacroFrameTold

\* A request of any length MinRequest to MaxMeterRequest tells its sizes, to the
\* concentrator and inside, to either meter (Qgdw.cpp:483).
THEOREM RequestSizes ==
  ASSUME NEW n \in MinRequest..MaxMeterRequest
  PROVE  MeterFrameTold(MeterFrame(n), n) /\ MacroFrameTold(MacroFrame(n), n)
BY MeterSizes, MacroSizes

-----------------------------------------------------------------------------
(* Addresses.                                                              *)

\* The characters FrameAddress takes from the code of a concentrator whose
\* byte 10 is 0.
LEMMA CodeOf ==
  ASSUME NEW b7 \in Int, NEW b8 \in Int, NEW b9 \in Int, 0 <= b9, b9 < 100, NEW code,
         code = ConcentratorOf(<<b7, b8, b9, 0, 0>>)
  PROVE  /\ code[1] = b8 \div 16 /\ code[2] = b8 % 16 /\ code[3] = b7 \div 16 /\ code[4] = b7 % 16
         /\ code[6] = 0 /\ code[7] = 0 /\ 10 * code[8] + code[9] = b9
<1>1. PICK h1, h2, h3, h4 :
        h1 = b8 \div 16 /\ h2 = b8 % 16 /\ h3 = b7 \div 16 /\ h4 = b7 % 16
  BY Zenon
<1>2. Decimal(0) = <<0>>
  BY DEF Decimal
<1>3. code = <<h1, h2>> \o <<h3, h4>> \o <<0>> \o <<0, 0>>
               \o (IF b9 < 10 THEN <<0>> ELSE <<>>) \o Decimal(b9)
  BY <1>1, <1>2 DEF ConcentratorOf, Hex
<1>4. /\ code[1] = h1 /\ code[2] = h2 /\ code[3] = h3 /\ code[4] = h4
      /\ code[6] = 0 /\ code[7] = 0 /\ 10 * code[8] + code[9] = b9
  <2>1. CASE b9 < 10
    <3>1. Decimal(b9) = <<b9>>
      BY <2>1 DEF Decimal
    <3>2. code = <<h1, h2>> \o <<h3, h4>> \o <<0>> \o <<0, 0>> \o <<0>> \o <<b9>>
      BY <1>3, <2>1, <3>1, Zenon
    <3> QED BY <2>1, <3>2, SMT
  <2>2. CASE ~(b9 < 10)
    <3>1. b9 \in 10..99
      BY <2>2
    <3>2. Decimal(b9) = <<b9 \div 10, b9 % 10>>
      BY <2>2, <3>1 DEF Decimal
    <3>3. code = <<h1, h2>> \o <<h3, h4>> \o <<0>> \o <<0, 0>> \o <<>> \o <<b9 \div 10, b9 % 10>>
      BY <1>3, <2>2, <3>2, Zenon
    <3>4. /\ code[1] = h1 /\ code[2] = h2 /\ code[3] = h3 /\ code[4] = h4
          /\ code[6] = 0 /\ code[7] = 0 /\ code[8] = b9 \div 10 /\ code[9] = b9 % 10
      BY <3>3, SMT
    <3>5. 10 * (b9 \div 10) + (b9 % 10) = b9
      BY SMT
    <3> QED BY <3>4, <3>5, SMT
  <2> QED BY <2>1, <2>2
<1> QED BY <1>1, <1>4

\* FrameAddress takes back the address DecodeFrame made the code of, for all
\* the concentrators it can name: byte 10 is 0, byte 9 below 100 (Qgdw.cpp:78).
THEOREM AddressRoundTrip ==
  ASSUME NEW b7 \in Int, NEW b8 \in Int, NEW b9 \in Int, 0 <= b9, b9 < 100, NEW byteadd
  PROVE  FrameAddress(ConcentratorOf(<<b7, b8, b9, 0, 0>>), byteadd) = <<b7, b8, b9, 0, byteadd>>
<1> DEFINE code == ConcentratorOf(<<b7, b8, b9, 0, 0>>)
<1>1. /\ code[1] = b8 \div 16 /\ code[2] = b8 % 16 /\ code[3] = b7 \div 16 /\ code[4] = b7 % 16
      /\ code[6] = 0 /\ code[7] = 0 /\ 10 * code[8] + code[9] = b9
  BY CodeOf
<1>2. FrameAddress(code, byteadd) =
        <<16 * code[3] + code[4], 16 * code[1] + code[2], 10 * code[8] + code[9],
          16 * code[6] + code[7], byteadd>>
  BY DEF FrameAddress
<1> HIDE DEF code
<1>3. 16 * code[3] + code[4] = b7 /\ 16 * code[1] + code[2] = b8 /\ 16 * code[6] + code[7] = 0
  <2>1. 16 * (b7 \div 16) + (b7 % 16) = b7
    BY SMT
  <2>2. 16 * (b8 \div 16) + (b8 % 16) = b8
    BY SMT
  <2> QED BY <1>1, <2>1, <2>2, SMT
<1>4. FrameAddress(code, byteadd) = <<b7, b8, b9, 0, byteadd>>
  BY <1>1, <1>2, <1>3
<1> QED BY <1>4 DEF code

\* The answer to a heartbeat reaches the concentrator that sent it, whatever
\* its number.
THEOREM HeartbeatsAnswered ==
  ASSUME NEW a \in Byte \X Byte \X Byte \X Byte \X {0}, Reachable(a), NEW hb
  PROVE  HBFrame(ConcentratorOf(a), hb).address = a
<1>1. PICK b7 \in Byte, b8 \in Byte, b9 \in 0..99 : a = <<b7, b8, b9, 0, 0>>
  <2>1. a[1] \in Byte /\ a[2] \in Byte /\ a[3] \in 0..99 /\ a[4] = 0 /\ a[5] = 0
    BY DEF Reachable
  <2>2. a = <<a[1], a[2], a[3], a[4], a[5]>>
    OBVIOUS
  <2> QED BY <2>1, <2>2
<1>2. b7 \in Int /\ b8 \in Int /\ b9 \in Int /\ 0 <= b9 /\ b9 < 100
  BY DEF Byte
<1>3. FrameAddress(ConcentratorOf(a), 0) = a
  BY <1>1, <1>2, AddressRoundTrip
<1> QED BY <1>3 DEF HBFrame

-----------------------------------------------------------------------------
(* Codes.                                                                  *)

\* The number that one to three digits stand for.
NumberOf(d) ==
  CASE Len(d) = 1 -> d[1]
    [] Len(d) = 2 -> 10 * d[1] + d[2]
    [] OTHER -> 100 * d[1] + 10 * d[2] + d[3]

LEMMA DecimalDigits ==
  ASSUME NEW b \in Nat, b < 256
  PROVE  /\ Decimal(b) \in Seq(Nat) /\ Len(Decimal(b)) \in 1..3
         /\ b = NumberOf(Decimal(b))
         /\ b < 10 <=> Len(Decimal(b)) = 1
         /\ Len(Decimal(b)) = 3 => Decimal(b)[1] # 0
<1>1. CASE b < 10
  <2>1. Decimal(b) = <<b>>
    BY <1>1 DEF Decimal
  <2>2. Len(<<b>>) = 1 /\ <<b>>[1] = b /\ <<b>> \in Seq(Nat)
    OBVIOUS
  <2> QED BY <1>1, <2>1, <2>2 DEF NumberOf
<1>2. CASE 10 <= b /\ b < 100
  <2>1. b \in 10..99 /\ ~(b < 10)
    BY <1>2
  <2>2. Decimal(b) = <<b \div 10, b % 10>>
    BY <2>1 DEF Decimal
  <2>3. PICK x \in Nat, y \in Nat : x = b \div 10 /\ y = b % 10 /\ b = 10 * x + y
    BY SMT
  <2>4. Len(<<x, y>>) = 2 /\ <<x, y>>[1] = x /\ <<x, y>>[2] = y /\ <<x, y>> \in Seq(Nat)
    OBVIOUS
  <2>5. Decimal(b) = <<x, y>>
    BY <2>2, <2>3
  <2>6. NumberOf(Decimal(b)) = 10 * x + y
    BY <2>4, <2>5 DEF NumberOf
  <2>7. Decimal(b) \in Seq(Nat) /\ Len(Decimal(b)) = 2
    BY <2>4, <2>5
  <2>8. b = NumberOf(Decimal(b))
    BY <2>3, <2>6
  <2> QED BY <2>1, <2>7, <2>8
<1>3. CASE 100 <= b
  <2>1. b \notin 10..99 /\ ~(b < 10)
    BY <1>3
  <2>2. Decimal(b) = <<b \div 100, (b \div 10) % 10, b % 10>>
    BY <2>1 DEF Decimal
  <2>3. PICK x \in Nat, y \in Nat, z \in Nat :
          /\ x = b \div 100 /\ y = (b \div 10) % 10 /\ z = b % 10
          /\ x # 0 /\ b = 100 * x + 10 * y + z
    BY <1>3, SMT
  <2>4. /\ Len(<<x, y, z>>) = 3 /\ <<x, y, z>>[1] = x /\ <<x, y, z>>[2] = y /\ <<x, y, z>>[3] = z
        /\ <<x, y, z>> \in Seq(Nat)
    OBVIOUS
  <2>5. Decimal(b) = <<x, y, z>>
    BY <2>2, <2>3
  <2>6. NumberOf(Decimal(b)) = 100 * x + 10 * y + z
    BY <2>4, <2>5 DEF NumberOf
  <2>7. Decimal(b) \in Seq(Nat) /\ Len(Decimal(b)) = 3 /\ Decimal(b)[1] # 0
    BY <2>3, <2>4, <2>5
  <2>8. b = NumberOf(Decimal(b))
    BY <2>3, <2>6
  <2> QED BY <2>1, <2>7, <2>8
<1> QED BY <1>1, <1>2, <1>3, SMT

\* The number in byte 9, filled up to two characters.
Filled(b) == (IF b < 10 THEN <<0>> ELSE <<>>) \o Decimal(b)

LEMMA FilledDigits ==
  ASSUME NEW b \in Nat, b < 256
  PROVE  /\ Filled(b) \in Seq(Nat) /\ Len(Filled(b)) \in {2, 3}
         /\ b = NumberOf(Filled(b))
         /\ Len(Filled(b)) = 3 => Filled(b)[1] # 0
<1> DEFINE d == Decimal(b)
<1>1. /\ d \in Seq(Nat) /\ Len(d) \in 1..3 /\ b = NumberOf(d)
      /\ b < 10 <=> Len(d) = 1
      /\ Len(d) = 3 => d[1] # 0
  BY DecimalDigits
<1>2. CASE b < 10
  <2>1. Filled(b) = <<0>> \o d
    BY <1>2 DEF Filled
  <2> HIDE DEF d
  <2>2. Filled(b) \in Seq(Nat) /\ Len(Filled(b)) = 2 /\ Filled(b)[1] = 0 /\ Filled(b)[2] = d[1]
    BY <1>1, <1>2, <2>1
  <2>3. b = d[1]
    BY <1>1, <1>2 DEF NumberOf
  <2>4. NumberOf(Filled(b)) = 10 * 0 + b
    BY <2>2, <2>3 DEF NumberOf
  <2> QED BY <2>2, <2>4
<1>3. CASE ~(b < 10)
  <2>1. Filled(b) = <<>> \o d
    BY <1>3 DEF Filled
  <2> HIDE DEF d
  <2>2. Filled(b) = d
    BY <1>1, <2>1
  <2>3. Len(d) \in {2, 3}
    BY <1>1, <1>3
  <2> QED BY <1>1, <2>2, <2>3
<1> QED BY <1>2, <1>3

\* Equal digits, equal numbers.
LEMMA SameDigits ==
  ASSUME NEW d \in Seq(Nat), NEW e \in Seq(Nat), Len(d) = Len(e), Len(d) \in 1..3,
         \A i \in 1..Len(d) : d[i] = e[i]
  PROVE  NumberOf(d) = NumberOf(e)
<1>1. CASE Len(d) = 1
  <2>1. d[1] = e[1]
    BY <1>1
  <2> QED BY <1>1, <2>1 DEF NumberOf
<1>2. CASE Len(d) = 2
  <2>1. d[1] = e[1] /\ d[2] = e[2]
    BY <1>2
  <2> QED BY <1>2, <2>1 DEF NumberOf
<1>3. CASE Len(d) = 3
  <2>1. d[1] = e[1] /\ d[2] = e[2] /\ d[3] = e[3]
    BY <1>3
  <2> QED BY <1>3, <2>1 DEF NumberOf
<1> QED BY <1>1, <1>2, <1>3

\* Where the elements of two sequences are in both together.
LEMMA Together ==
  ASSUME NEW s \in Seq(Int), NEW t \in Seq(Int)
  PROVE  /\ s \o t \in Seq(Int) /\ Len(s \o t) = Len(s) + Len(t)
         /\ \A i \in 1..Len(s) : (s \o t)[i] = s[i]
         /\ \A i \in 1..Len(t) : (s \o t)[Len(s) + i] = t[i]
OBVIOUS

LEMMA Three ==
  ASSUME NEW head \in Seq(Int), NEW d \in Seq(Int), NEW tail \in Seq(Int), Len(head) = 4
  PROVE  /\ Len(head \o d \o tail) = 4 + Len(d) + Len(tail)
         /\ \A i \in 1..4 : (head \o d \o tail)[i] = head[i]
         /\ \A i \in 1..Len(d) : (head \o d \o tail)[4 + i] = d[i]
         /\ \A i \in 1..Len(tail) : (head \o d \o tail)[4 + Len(d) + i] = tail[i]
<1> DEFINE front == head \o d
<1> DEFINE code == front \o tail
<1>1. /\ front \in Seq(Int) /\ Len(front) = Len(head) + Len(d)
      /\ \A i \in 1..Len(head) : front[i] = head[i]
      /\ \A i \in 1..Len(d) : front[Len(head) + i] = d[i]
  BY Together
<1> HIDE DEF front
<1>2. /\ Len(code) = Len(front) + Len(tail)
      /\ \A i \in 1..Len(front) : code[i] = front[i]
      /\ \A i \in 1..Len(tail) : code[Len(front) + i] = tail[i]
  BY <1>1, Together
<1> HIDE DEF code
<1>3. /\ Len(code) = 4 + Len(d) + Len(tail)
      /\ \A i \in 1..(4 + Len(d)) : code[i] = front[i]
      /\ \A i \in 1..Len(tail) : code[4 + Len(d) + i] = tail[i]
  BY <1>1, <1>2
<1>4. ASSUME NEW i \in 1..4 PROVE code[i] = head[i]
  <2>1. i \in 1..(4 + Len(d))
    OBVIOUS
  <2> QED BY <1>1, <1>3, <2>1
<1>5. ASSUME NEW i \in 1..Len(d) PROVE code[4 + i] = d[i]
  <2>1. 4 + i \in 1..(4 + Len(d))
    OBVIOUS
  <2> QED BY <1>1, <1>3, <2>1
<1> QED BY <1>3, <1>4, <1>5, Zenon DEF code, front

\* Where the parts of a code are: four digits h, a number d, zeros and a number f.
LaidOut(code, h1, h2, h3, h4, d, f) ==
  /\ code[1] = h1 /\ code[2] = h2 /\ code[3] = h3 /\ code[4] = h4
  /\ Len(code) = 6 + Len(d) + Len(f)
  /\ \A i \in 1..Len(d) : code[4 + i] = d[i]
  /\ code[6 + Len(d)] = 0
  /\ \A i \in 1..Len(f) : code[6 + Len(d) + i] = f[i]

LEMMA CodeParts ==
  ASSUME NEW h1 \in Int, NEW h2 \in Int, NEW h3 \in Int, NEW h4 \in Int,
         NEW d \in Seq(Int), NEW f \in Seq(Int)
  PROVE  LaidOut((<<h1, h2>> \o <<h3, h4>>) \o d \o (<<0, 0>> \o f), h1, h2, h3, h4, d, f)
<1> DEFINE head == <<h1, h2>> \o <<h3, h4>>
<1> DEFINE tail == <<0, 0>> \o f
<1> DEFINE code == head \o d \o tail
<1>1. /\ head \in Seq(Int) /\ Len(head) = 4
      /\ head[1] = h1 /\ head[2] = h2 /\ head[3] = h3 /\ head[4] = h4
  OBVIOUS
<1>2. /\ tail \in Seq(Int) /\ Len(tail) = 2 + Len(f) /\ tail[2] = 0
      /\ \A i \in 1..Len(f) : tail[2 + i] = f[i]
  <2>1. <<0, 0>> \in Seq(Int) /\ Len(<<0, 0>>) = 2 /\ <<0, 0>>[2] = 0
    OBVIOUS
  <2> QED BY <2>1, Together
<1> HIDE DEF head, tail
<1>3. /\ Len(code) = 4 + Len(d) + Len(tail)
      /\ \A i \in 1..4 : code[i] = head[i]
      /\ \A i \in 1..Len(d) : code[4 + i] = d[i]
      /\ \A i \in 1..Len(tail) : code[4 + Len(d) + i] = tail[i]
  BY <1>1, <1>2, Three
<1> HIDE DEF code
<1>4. code[1] = h1 /\ code[2] = h2 /\ code[3] = h3 /\ code[4] = h4
  BY <1>1, <1>3
<1>5. Len(code) = 6 + Len(d) + Len(f)
  BY <1>2, <1>3
<1>6. code[6 + Len(d)] = 0
  <2>1. code[4 + Len(d) + 2] = 0
    BY <1>2, <1>3
  <2> QED BY <2>1
<1>7. ASSUME NEW i \in 1..Len(f) PROVE code[6 + Len(d) + i] = f[i]
  <2>1. 2 + i \in 1..Len(tail) /\ 4 + Len(d) + (2 + i) = 6 + Len(d) + i
    BY <1>2
  <2> QED BY <1>2, <1>3, <2>1
<1>8. LaidOut(code, h1, h2, h3, h4, d, f)
  BY <1>3, <1>4, <1>5, <1>6, <1>7, Zenon DEF LaidOut
<1> QED BY <1>8 DEF code, head, tail

\* The same of the code of an address.
LEMMA CodeDigits ==
  ASSUME NEW b7 \in Byte, NEW b8 \in Byte, NEW b9 \in Byte, NEW b10 \in Byte
  PROVE  LaidOut(ConcentratorOf(<<b7, b8, b9, b10, 0>>),
                 b8 \div 16, b8 % 16, b7 \div 16, b7 % 16, Decimal(b10), Filled(b9))
<1> DEFINE d == Decimal(b10)
<1> DEFINE f == Filled(b9)
<1> DEFINE code == ConcentratorOf(<<b7, b8, b9, b10, 0>>)
<1> DEFINE h1 == b8 \div 16
<1> DEFINE h2 == b8 % 16
<1> DEFINE h3 == b7 \div 16
<1> DEFINE h4 == b7 % 16
<1>1. h1 \in Int /\ h2 \in Int /\ h3 \in Int /\ h4 \in Int
  BY DEF Byte
<1>2. d \in Seq(Int) /\ f \in Seq(Int) /\ Decimal(b9) \in Seq(Int)
  <2>1. d \in Seq(Nat) /\ f \in Seq(Nat) /\ Decimal(b9) \in Seq(Nat)
    <3>1. b9 \in Nat /\ b9 < 256 /\ b10 \in Nat /\ b10 < 256
      BY DEF Byte
    <3> QED BY <3>1, DecimalDigits, FilledDigits
  <2> HIDE DEF d, f
  <2> QED BY <2>1
<1>3. code = (<<h1, h2>> \o <<h3, h4>>) \o d \o (<<0, 0>> \o f)
  <2> DEFINE zeros == <<0, 0>>
  <2> DEFINE pad == IF b9 < 10 THEN <<0>> ELSE <<>>
  <2> DEFINE front == <<h1, h2>> \o <<h3, h4>> \o d
  <2> DEFINE last == Decimal(b9)
  <2>1. code = ((front \o zeros) \o pad) \o last
    BY DEF ConcentratorOf, Hex
  <2>2. f = pad \o last
    BY DEF Filled
  <2>3. pad \in Seq(Int) /\ zeros \in Seq(Int) /\ last \in Seq(Int)
    BY <1>2
  <2>4. front \in Seq(Int)
    <3>1. <<h1, h2>> \o <<h3, h4>> \in Seq(Int)
      BY <1>1
    <3> HIDE DEF d
    <3> QED BY <1>2, <3>1
  <2> HIDE DEF front, pad, zeros, last, d, f, code
  <2>5. ((front \o zeros) \o pad) \o last = front \o (zeros \o (pad \o last))
    <3> DEFINE p == front \o zeros
    <3> DEFINE q == pad \o last
    <3>1. p \in Seq(Int) /\ q \in Seq(Int)
      BY <2>3, <2>4
    <3>2. (p \o pad) \o last = p \o q
      <4> HIDE DEF p
      <4> QED BY <2>3, <3>1
    <3>3. p \o q = front \o (zeros \o q)
      <4> HIDE DEF q
      <4> QED BY <2>3, <2>4, <3>1
    <3> QED BY <3>2, <3>3
  <2> QED BY <2>1, <2>2, <2>5, Zenon DEF front, zeros
<1> HIDE DEF h1, h2, h3, h4, d, f, code
<1>4. LaidOut((<<h1, h2>> \o <<h3, h4>>) \o d \o (<<0, 0>> \o f), h1, h2, h3, h4, d, f)
  BY <1>1, <1>2, CodeParts, Zenon
<1>5. LaidOut(code, h1, h2, h3, h4, d, f)
  BY <1>3, <1>4, Zenon
<1> QED BY <1>5, Zenon DEF code, d, f, h1, h2, h3, h4

\* Sizes of two codes of the same length.
LEMMA Sizes ==
  ASSUME NEW i \in 1..3, NEW j \in 1..3, NEW k \in {2, 3}, NEW l \in {2, 3}, 6 + i + k = 6 + j + l
  PROVE  \/ i = j /\ k = l
         \/ i = j + 1 /\ l = 3
         \/ j = i + 1 /\ k = 3
<1>1. CASE k = 2 /\ l = 2
  BY <1>1
<1>2. CASE k = 3 /\ l = 3
  BY <1>2
<1>3. CASE k = 2 /\ l = 3
  BY <1>3
<1>4. CASE k = 3 /\ l = 2
  BY <1>4
<1> QED BY <1>1, <1>2, <1>3, <1>4

LEMMA Halves ==
  ASSUME NEW x \in Byte, NEW y \in Byte, x \div 16 = y \div 16, x % 16 = y % 16
  PROVE  x = y
<1>1. x = 16 * (x \div 16) + (x % 16) /\ y = 16 * (y \div 16) + (y % 16)
  BY DEF Byte
<1> QED BY <1>1

\* No two addresses have the same code: the zeros between the two numbers are
\* read as part of neither, because a number of three digits does not begin
\* with one (Qgdw.cpp:577).
THEOREM CodeInjective ==
  ASSUME NEW a \in Byte \X Byte \X Byte \X Byte \X {0},
         NEW b \in Byte \X Byte \X Byte \X Byte \X {0},
         ConcentratorOf(a) = ConcentratorOf(b)
  PROVE  a = b
<1>1. PICK a7 \in Byte, a8 \in Byte, a9 \in Byte, a10 \in Byte : a = <<a7, a8, a9, a10, 0>>
  OBVIOUS
<1>2. PICK b7 \in Byte, b8 \in Byte, b9 \in Byte, b10 \in Byte : b = <<b7, b8, b9, b10, 0>>
  OBVIOUS
<1> DEFINE code == ConcentratorOf(a)
<1> DEFINE d == Decimal(a10)
<1> DEFINE f == Filled(a9)
<1> DEFINE e == Decimal(b10)
<1> DEFINE g == Filled(b9)
<1>3. LaidOut(code, a8 \div 16, a8 % 16, a7 \div 16, a7 % 16, d, f)
  BY <1>1, CodeDigits, Zenon
<1>4. LaidOut(code, b8 \div 16, b8 % 16, b7 \div 16, b7 % 16, e, g)
  BY <1>2, CodeDigits, Zenon
<1>5. /\ a9 \in Nat /\ a10 \in Nat /\ a9 < 256 /\ a10 < 256
      /\ b9 \in Nat /\ b10 \in Nat /\ b9 < 256 /\ b10 < 256
  BY DEF Byte
<1>6. /\ d \in Seq(Nat) /\ Len(d) \in 1..3 /\ a10 = NumberOf(d)
      /\ e \in Seq(Nat) /\ Len(e) \in 1..3 /\ b10 = NumberOf(e)
  BY <1>5, DecimalDigits
<1>7. /\ f \in Seq(Nat) /\ Len(f) \in {2, 3} /\ a9 = NumberOf(f) /\ (Len(f) = 3 => f[1] # 0)
      /\ g \in Seq(Nat) /\ Len(g) \in {2, 3} /\ b9 = NumberOf(g) /\ (Len(g) = 3 => g[1] # 0)
  BY <1>5, FilledDigits
<1> HIDE DEF code, d, e, f, g
<1>8. /\ a8 \div 16 = b8 \div 16 /\ a8 % 16 = b8 % 16
      /\ a7 \div 16 = b7 \div 16 /\ a7 % 16 = b7 % 16
  BY <1>3, <1>4, Zenon DEF LaidOut
<1>9. a7 = b7 /\ a8 = b8
  BY <1>8, Halves
<1>10. 6 + Len(d) + Len(f) = 6 + Len(e) + Len(g)
  BY <1>3, <1>4, Zenon DEF LaidOut
<1>11. /\ code[6 + Len(d)] = 0 /\ \A k \in 1..Len(g) : code[6 + Len(e) + k] = g[k]
       /\ code[6 + Len(e)] = 0 /\ \A k \in 1..Len(f) : code[6 + Len(d) + k] = f[k]
  BY <1>3, <1>4, Zenon DEF LaidOut
<1>12. Len(d) = Len(e) /\ Len(f) = Len(g)
  <2>1. \/ Len(d) = Len(e) /\ Len(f) = Len(g)
        \/ Len(d) = Len(e) + 1 /\ Len(g) = 3
        \/ Len(e) = Len(d) + 1 /\ Len(f) = 3
    <3>1. PICK i \in 1..3, j \in 1..3, k \in {2, 3}, l \in {2, 3} :
            i = Len(d) /\ j = Len(e) /\ k = Len(f) /\ l = Len(g)
      BY <1>6, <1>7, Zenon
    <3>2. 6 + i + k = 6 + j + l
      BY <1>10, <3>1, Zenon
    <3>3. \/ i = j /\ k = l
          \/ i = j + 1 /\ l = 3
          \/ j = i + 1 /\ k = 3
      BY <3>2, Sizes
    <3> QED BY <3>1, <3>3, Zenon
  <2>2. ~(Len(d) = Len(e) + 1 /\ Len(g) = 3)
    <3> SUFFICES ASSUME Len(d) = Len(e) + 1, Len(g) = 3 PROVE FALSE
      OBVIOUS
    <3>1. 1 \in 1..Len(g) /\ 6 + Len(e) + 1 = 6 + Len(d)
      BY <1>6
    <3>2. code[6 + Len(e) + 1] = g[1]
      BY <1>11, <3>1, Zenon
    <3> QED BY <1>7, <1>11, <3>1, <3>2
  <2>3. ~(Len(e) = Len(d) + 1 /\ Len(f) = 3)
    <3> SUFFICES ASSUME Len(e) = Len(d) + 1, Len(f) = 3 PROVE FALSE
      OBVIOUS
    <3>1. 1 \in 1..Len(f) /\ 6 + Len(d) + 1 = 6 + Len(e)
      BY <1>6
    <3>2. code[6 + Len(d) + 1] = f[1]
      BY <1>11, <3>1, Zenon
    <3> QED BY <1>7, <1>11, <3>1, <3>2
  <2> QED BY <2>1, <2>2, <2>3, Zenon
<1>13. a10 = b10
  <2>1. \A i \in 1..Len(d) : d[i] = e[i]
    BY <1>3, <1>4, <1>12, Zenon DEF LaidOut
  <2> QED BY <1>6, <1>12, <2>1, SameDigits
<1>14. a9 = b9
  <2>1. \A i \in 1..Len(f) : f[i] = g[i]
    BY <1>11, <1>12, Zenon
  <2>2. Len(f) \in 1..3
    BY <1>7
  <2> QED BY <1>7, <1>12, <2>1, <2>2, SameDigits
<1> QED BY <1>1, <1>2, <1>9, <1>13, <1>14
=============================================================================
