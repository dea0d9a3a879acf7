---------------------------- MODULE ProfileStore ----------------------------
(***************************************************************************)
(* What becomes of the rows of a profile: SaveDataFromProfile_Core and     *)
(* SavedataFromProfileAuto_Core of Session.cpp, which scale the cells,     *)
(* build the texts of the database calls and launch them.                  *)
(*                                                                         *)
(* A text is kept as the sequence of values in it.  A value is the cell it *)
(* was made from, <<row, column>> as the meter sent it, and the scale the  *)
(* cell was multiplied by; None stands for a date, which has no scale.     *)
(* The row identifier of some meters is column 0.  Columns and scales are  *)
(* numbered from 1, so that column j has the scale j - 1.                  *)
(*                                                                         *)
(* Definitions under a "Fault" comment are faulty variants of the one that *)
(* follows; no specification uses them, the README says what they are for. *)
(***************************************************************************)
EXTENDS Integers, Sequences, FiniteSets

CONSTANT None

\* A profile, as the handler of m_dlmsstate 21 finds it:
\*   mode        m_modereadprofile: 0 the object's buffer, 1 ParserReply's rows
\*   rowid       m_rowid: the rows begin with a row identifier
\*   relecturas  m_relecturas, an integer of the row: 0 an answer for the user, 1
\*               readings, 2 stands for any other
\*   columns     m_arrayobjectsobis, the row identifier left out: "clock" for
\*               0.0.1.0.0.255, or "value"
\*   scales      m_ScalerObjects.size()
\*   widths      cells in each row

AllProfiles ==
  [mode : {0, 1}, rowid : {0, 1}, relecturas : 0..2, columns : Seq({"clock", "value"}),
   scales : Nat, widths : Seq(Nat)]

Value(cell, scale) == [cell |-> cell, scale |-> scale]

\* Row i as it arrives.
RawRow(p, i) == [k \in 1..p.widths[i] |-> <<i, k - p.rowid>>]

\* Row i without its row identifier.
Row(p, i) == IF p.rowid = 1 THEN Tail(RawRow(p, i)) ELSE RawRow(p, i)

\* Cells of row i that the loop visits: without a row identifier, mode 1 takes
\* the number of cells of the first row for all of them.
Visited(p, i) ==
  IF p.mode = 1 /\ p.rowid = 0 THEN p.widths[1] ELSE Len(Row(p, i))

\* The state of the loops: the values of the row, the last one made (dat), the
\* error flag and the break.
Start(dat, error) == [res |-> <<>>, dat |-> dat, error |-> error, stop |-> FALSE]

Put(s, v, error) == [res |-> Append(s.res, v), dat |-> v, error |-> error, stop |-> FALSE]

\* "Datos extras en solicitud": there is no scale for column j.
Extra(p, j) == j - 1 > p.scales

\* A cell in mode 1: the bound is checked before the kind of the column, and a
\* date clears the error too.
CellOfRows(p, row, s, j) ==
  CASE s.stop -> s
    [] ~s.stop /\ Extra(p, j) -> [s EXCEPT !.error = 1, !.stop = TRUE]
    [] OTHER ->
       Put(s, Value(row[j], IF p.columns[j] = "clock" THEN None ELSE j - 1), 0)

\* Fault: a value takes the scale of the next column.
CellOfBufferShifted(p, row, s, j) ==
  CASE s.stop -> s
    [] ~s.stop /\ p.columns[j] = "clock" -> Put(s, Value(row[j], None), s.error)
    [] ~s.stop /\ p.columns[j] # "clock" /\ j = 1 -> Put(s, Value(s.dat.cell, 1), s.error)
    [] ~s.stop /\ p.columns[j] # "clock" /\ j > 1 /\ Extra(p, j) ->
       [s EXCEPT !.error = 1, !.stop = TRUE]
    [] OTHER -> Put(s, Value(row[j], j), 0)

\* A cell in mode 0: a date leaves the error as it is, and a first column that
\* is not the clock repeats the value made last.
CellOfBuffer(p, row, s, j) ==
  CASE s.stop -> s
    [] ~s.stop /\ p.columns[j] = "clock" -> Put(s, Value(row[j], None), s.error)
    [] ~s.stop /\ p.columns[j] # "clock" /\ j = 1 -> Put(s, Value(s.dat.cell, 1), s.error)
    [] ~s.stop /\ p.columns[j] # "clock" /\ j > 1 /\ Extra(p, j) ->
       [s EXCEPT !.error = 1, !.stop = TRUE]
    [] OTHER -> Put(s, Value(row[j], j - 1), 0)

\* The loop over the cells of row i: its state after each of them.
AfterCells(p, i, s) ==
  LET row == Row(p, i)
      after[k \in 0..Visited(p, i)] ==
        IF k = 0 THEN Start(s.dat, s.error)
        ELSE IF p.mode = 1 THEN CellOfRows(p, row, after[k - 1], k)
        ELSE CellOfBuffer(p, row, after[k - 1], k)
  IN  after

ConvertRow(p, i, s) == AfterCells(p, i, s)[Visited(p, i)]

\* Before the first row: no row kept, dat empty, no error.
NoRows == [kept |-> <<>>, dat |-> Value(None, None), error |-> 0]

\* The end of a row: it is kept when the flag is clear.
Keep(s, t) ==
  [kept  |-> IF t.error = 0 THEN Append(s.kept, t.res) ELSE s.kept,
   dat   |-> t.dat,
   error |-> t.error]

\* The loop over the rows: its state after each of them.
AfterRows(p) ==
  LET after[n \in 0..Len(p.widths)] ==
        IF n = 0 THEN NoRows ELSE Keep(after[n - 1], ConvertRow(p, n, after[n - 1]))
  IN  after

Convert(p) == AfterRows(p)[Len(p.widths)]

-----------------------------------------------------------------------------
(* The database calls of a handler, in the order of the code.              *)

\* guardarlecturamedidor_batch and guardarlecturamedidor: readings.
Readings(rows) == [proc |-> "readings", rows |-> rows, state |-> None]

\* guardarrespuestamedidor: an answer for the user.
Answer(rows) == [proc |-> "answer", rows |-> rows, state |-> None]

\* actualizarestadocomando.
Status(state) == [proc |-> "status", rows |-> <<>>, state |-> state]

\* The rows of an answer: res is cleared before it is added to restotal, so
\* that only the separators are left.
AnswerRows(p) == [i \in 1..Len(p.widths) |-> <<>>]

\* The rows as they are launched.  They are added to the batch of readings for
\* m_relecturas 1 only, though for any other than 0 the batch is what is sent.
Launched(p, s) ==
  CASE p.relecturas = 0 -> Answer(AnswerRows(p))
    [] p.relecturas = 1 -> Readings(s.kept)
    [] OTHER -> Readings(<<>>)

\* -2 when the last row did not fit.
LastStatus(s) == IF s.error # 0 THEN <<Status(-2)>> ELSE <<>>

\* Fault: the status is launched first.
SaveStatusFirst(p, s) == LastStatus(s) \o <<Launched(p, s)>>

\* What is launched for rows.
SaveRows(p, s) == <<Launched(p, s)>> \o LastStatus(s)

\* SaveDataFromProfile_Core, with a command: the calls it may launch.  Without
\* rows, mode 0 tells -1 or 0 by the texts of the object.
SaveDataFromProfile_Core(p) ==
  IF Len(p.widths) > 0 THEN {SaveRows(p, Convert(p))}
  ELSE {<<Status(state)>> : state \in IF p.mode = 1 THEN {-1} ELSE {-1, 0}}

\* SavedataFromProfileAuto_Core, without one, does not look at m_relecturas and
\* reads the object's buffer, which has no rows in mode 1: a call for each row,
\* and one for all of them when the last one fitted.  Without rows pop_back() is
\* called on an empty text, with row identifiers, which stay, the columns are
\* read past their end: nothing is launched, or something that was not measured.
Unmeasured == {<<>>, <<Readings(<<>>)>>, <<Readings(<<<<Value(None, None)>>>>)>>}

SavedataFromProfileAuto_Core(p) ==
  LET s == Convert(p)
      each == [i \in 1..Len(s.kept) |-> Readings(<<s.kept[i]>>)]
  IN  IF p.mode = 0 /\ p.rowid = 0 /\ Len(p.widths) > 0
      THEN {each \o (IF s.error = 0 THEN <<Readings(s.kept)>> ELSE <<>>)}
      ELSE Unmeasured

\* Of the calls a handler launches on the shared connection the first is sent,
\* if nothing is under way, and the others are refused.
Delivered(calls, idle) == IF idle /\ calls # <<>> THEN <<calls[1]>> ELSE <<>>

-----------------------------------------------------------------------------
(* What the loops are for, without them.                                   *)

\* Profiles whose cells the loops find where they look for them: the clock
\* comes first, rows of the object's buffer have a cell for each column, and
\* of those of ParserReply no row is shorter than the first and a scale means
\* a column.  (For others the vectors are read past their ends.)
Readable(p) ==
  /\ p.columns # <<>> /\ p.columns[1] = "clock"
  /\ p.mode = 0 => \A i \in DOMAIN p.widths : p.widths[i] = Len(p.columns) + p.rowid
  /\ p.mode = 1 => /\ p.scales < Len(p.columns)
                   /\ \A i \in DOMAIN p.widths : p.widths[i] >= (IF p.rowid = 0 THEN p.widths[1] ELSE 2)

\* A cell for which there is no scale, though it needs one; in the object's
\* buffer a date does not.
Lacking(p, j) == Extra(p, j) /\ (p.mode = 1 \/ p.columns[j] # "clock")

\* A row is sound when no cell of it lacks a scale.
Sound(p, i) == \A j \in 1..Visited(p, i) : ~Lacking(p, j)

\* Row i with each cell in its place and with the scale of its column.
Measured(p, i) ==
  [j \in 1..Visited(p, i) |->
     Value(<<i, j>>, IF p.columns[j] = "clock" THEN None ELSE j - 1)]

\* The place of row i among the sound ones.
Place(p, i) == Cardinality({h \in 1..i : Sound(p, h)})

\* The sound rows, in order.
MeasuredRows(p) ==
  [k \in 1..Place(p, Len(p.widths)) |->
     Measured(p, CHOOSE i \in DOMAIN p.widths : Sound(p, i) /\ Place(p, i) = k)]
=============================================================================
