------------------------- MODULE ProfileStoreProofs -------------------------
(***************************************************************************)
(* What the loops over the rows and cells of a profile leave, for any      *)
(* number of rows and columns: the rows that MeasuredRows names.           *)
(***************************************************************************)
EXTENDS ProfileStore, FiniteSetTheorems, TLAPS

-----------------------------------------------------------------------------
(* Induction.                                                              *)

\* A set of natural numbers that is not empty has a least element.
LEMMA LeastNumber ==
  ASSUME NEW S \in SUBSET Nat, S # {}
  PROVE  \E n \in S : \A m \in S : n <= m
<1>1. PICK n \in S : \A m \in S : ~(<<m, n>> \in OpToRel(<, Nat))
  BY NatLessThanWellFounded, WFMin
<1>2. \A m \in S : ~(m < n)
  BY <1>1 DEF OpToRel
<1> QED BY <1>2

LEMMA Induction ==
  ASSUME NEW S, 0 \in S, \A n \in Nat : n \in S => n + 1 \in S
  PROVE  \A n \in Nat : n \in S
<1> SUFFICES ASSUME Nat \ S # {} PROVE FALSE
  OBVIOUS
<1>1. PICK n \in Nat \ S : \A m \in Nat \ S : n <= m
  BY LeastNumber
<1>2. n # 0
  BY <1>1
<1>3. n - 1 \in Nat /\ n = (n - 1) + 1
  BY <1>1, <1>2
<1>4. n - 1 \in S
  BY <1>1, <1>3
<1> QED BY <1>1, <1>3, <1>4

-----------------------------------------------------------------------------
(* The cells of a row.                                                     *)

\* One turn of the loop.
Cell(p, i, t, j) ==
  IF p.mode = 1 THEN CellOfRows(p, Row(p, i), t, j) ELSE CellOfBuffer(p, Row(p, i), t, j)

\* What the loop leaves after each of the first n cells.
IsAfterCells(g, p, i, s, n) ==
  g = [k \in 0..n |-> IF k = 0 THEN Start(s.dat, s.error) ELSE Cell(p, i, g[k - 1], k)]

LEMMA CellsRun ==
  ASSUME NEW p, NEW i, NEW s
  PROVE  \A n \in Nat : \E g : IsAfterCells(g, p, i, s, n)
<1> DEFINE S == {n \in Nat : \E g : IsAfterCells(g, p, i, s, n)}
<1>1. 0 \in S
  <2> DEFINE g == [k \in 0..0 |-> Start(s.dat, s.error)]
  <2>1. IsAfterCells(g, p, i, s, 0)
    BY DEF IsAfterCells
  <2> QED BY <2>1
<1>2. ASSUME NEW n \in Nat, n \in S PROVE n + 1 \in S
  <2>1. PICK g : IsAfterCells(g, p, i, s, n)
    BY <1>2
  <2> DEFINE h == [k \in 0..(n + 1) |-> IF k = n + 1 THEN Cell(p, i, g[n], n + 1) ELSE g[k]]
  <2>2. \A k \in 0..n : h[k] = g[k]
    OBVIOUS
  <2>3. ASSUME NEW k \in 0..(n + 1)
        PROVE  h[k] = IF k = 0 THEN Start(s.dat, s.error) ELSE Cell(p, i, h[k - 1], k)
    <3>1. CASE k = n + 1
      BY <2>2, <3>1
    <3>2. CASE k # n + 1
      <4>1. k \in 0..n
        BY <3>2
      <4>2. g[k] = IF k = 0 THEN Start(s.dat, s.error) ELSE Cell(p, i, g[k - 1], k)
        BY <2>1, <4>1 DEF IsAfterCells
      <4>3. k # 0 => h[k - 1] = g[k - 1]
        BY <2>2, <4>1
      <4> QED BY <2>2, <4>1, <4>2, <4>3
    <3> QED BY <3>1, <3>2
  <2>4. IsAfterCells(h, p, i, s, n + 1)
    BY <2>3 DEF IsAfterCells
  <2> QED BY <2>4
<1> HIDE DEF S
<1>3. \A n \in Nat : n \in S
  BY <1>1, <1>2, Induction
<1> QED BY <1>3 DEF S

LEMMA CellsLoop ==
  ASSUME NEW p, NEW i, NEW s, Visited(p, i) \in Nat
  PROVE  IsAfterCells(AfterCells(p, i, s), p, i, s, Visited(p, i))
<1>1. PICK g : IsAfterCells(g, p, i, s, Visited(p, i))
  BY CellsRun
<1> QED BY <1>1 DEF IsAfterCells, AfterCells, Cell

\* The cells that are visited are the row's, in their order.
LEMMA RowCells ==
  ASSUME NEW p \in AllProfiles, Readable(p), NEW i \in DOMAIN p.widths
  PROVE  /\ Visited(p, i) \in Nat
         /\ \A j \in 1..Visited(p, i) : Row(p, i)[j] = <<i, j>>
         /\ p.mode = 0 \/ p.rowid = 0 => \A h \in DOMAIN p.widths : Visited(p, h) = Visited(p, i)
         /\ p.mode = 1 /\ p.rowid = 1 => Visited(p, i) > 0
<1>1. /\ p.mode \in {0, 1} /\ p.rowid \in {0, 1} /\ p.columns \in Seq({"clock", "value"})
      /\ p.scales \in Nat /\ p.widths \in Seq(Nat)
  BY DEF AllProfiles
<1>2. \A h \in DOMAIN p.widths : p.widths[h] \in Nat
  BY <1>1
<1>3. 1 \in DOMAIN p.widths
  BY <1>1
<1>4. ASSUME NEW h \in DOMAIN p.widths, p.rowid = 0
      PROVE  /\ Len(Row(p, h)) = p.widths[h]
             /\ \A j \in 1..p.widths[h] : Row(p, h)[j] = <<h, j>>
  <2>1. Row(p, h) = [k \in 1..p.widths[h] |-> <<h, k - 0>>]
    BY <1>4 DEF Row, RawRow
  <2> QED BY <1>2, <2>1
<1>5. ASSUME NEW h \in DOMAIN p.widths, p.rowid = 1, p.widths[h] >= 1
      PROVE  /\ Len(Row(p, h)) = p.widths[h] - 1
             /\ \A j \in 1..(p.widths[h] - 1) : Row(p, h)[j] = <<h, j>>
  <2> DEFINE raw == [k \in 1..p.widths[h] |-> <<h, k - 1>>]
  <2>1. Row(p, h) = Tail(raw)
    BY <1>5 DEF Row, RawRow
  <2>2. raw \in Seq({h} \X Int) /\ Len(raw) = p.widths[h] /\ raw # <<>>
    BY <1>2, <1>5
  <2>3. \A j \in 1..p.widths[h] : raw[j] = <<h, j - 1>>
    OBVIOUS
  <2> HIDE DEF raw
  <2>4. Len(Tail(raw)) = Len(raw) - 1 /\ \A j \in 1..(Len(raw) - 1) : Tail(raw)[j] = raw[j + 1]
    BY <2>2
  <2>5. \A j \in 1..(p.widths[h] - 1) : raw[j + 1] = <<h, j>>
    BY <1>2, <2>3
  <2> QED BY <2>1, <2>2, <2>4, <2>5
<1>6. CASE p.mode = 0
  <2>1. \A h \in DOMAIN p.widths : p.widths[h] = Len(p.columns) + p.rowid
    BY <1>6 DEF Readable
  <2>2. \A h \in DOMAIN p.widths : Visited(p, h) = Len(Row(p, h))
    BY <1>6 DEF Visited
  <2>3. Len(p.columns) \in Nat
    BY <1>1
  <2>4. \A h \in DOMAIN p.widths : Len(Row(p, h)) = Len(p.columns)
    BY <1>1, <1>4, <1>5, <2>1, <2>3
  <2>5. \A j \in 1..Len(p.columns) : Row(p, i)[j] = <<i, j>>
    <3>1. CASE p.rowid = 0
      <4>1. p.widths[i] = Len(p.columns)
        BY <2>1, <2>3, <3>1
      <4> QED BY <1>4, <3>1, <4>1
    <3>2. CASE p.rowid = 1
      <4>1. p.widths[i] >= 1 /\ p.widths[i] - 1 = Len(p.columns)
        BY <2>1, <2>3, <3>2
      <4> QED BY <1>5, <3>2, <4>1
    <3> QED BY <1>1, <3>1, <3>2
  <2> QED BY <1>6, <2>2, <2>3, <2>4, <2>5
<1>7. CASE p.mode = 1 /\ p.rowid = 0
  <2>1. \A h \in DOMAIN p.widths : p.widths[h] >= p.widths[1] /\ Visited(p, h) = p.widths[1]
    BY <1>7 DEF Readable, Visited
  <2> QED BY <1>2, <1>3, <1>4, <1>7, <2>1
<1>8. CASE p.mode = 1 /\ p.rowid = 1
  <2>1. p.widths[i] >= 2 /\ Visited(p, i) = Len(Row(p, i))
    BY <1>8 DEF Readable, Visited
  <2>2. p.widths[i] \in Nat
    BY <1>2
  <2> QED BY <1>5, <1>8, <2>1, <2>2
<1> QED BY <1>1, <1>6, <1>7, <1>8

\* The first n cells of row i as they should be saved.
MeasuredCell(p, i, j) ==
  Value(<<i, j>>, IF p.columns[j] = "clock" THEN None ELSE j - 1)

MeasuredTo(p, i, n) == [j \in 1..n |-> MeasuredCell(p, i, j)]

LEMMA MeasuredNext ==
  ASSUME NEW p, NEW i, NEW n \in Nat
  PROVE  Append(MeasuredTo(p, i, n), MeasuredCell(p, i, n + 1)) = MeasuredTo(p, i, n + 1)
<1> DEFINE all == {MeasuredCell(p, i, j) : j \in Nat}
           row == MeasuredTo(p, i, n)
           cell == MeasuredCell(p, i, n + 1)
<1>1. row \in Seq(all) /\ cell \in all /\ Len(row) = n
  BY DEF MeasuredTo
<1>2. \A j \in 1..n : row[j] = MeasuredCell(p, i, j)
  BY DEF MeasuredTo
<1> HIDE DEF row, all
<1>3. /\ Append(row, cell) \in Seq(all) /\ Len(Append(row, cell)) = n + 1
      /\ Append(row, cell)[n + 1] = cell
      /\ \A j \in 1..n : Append(row, cell)[j] = row[j]
  BY <1>1
<1>4. \A j \in 1..(n + 1) : Append(row, cell)[j] = MeasuredCell(p, i, j)
  BY <1>2, <1>3
<1> QED BY <1>3, <1>4 DEF MeasuredTo, row

\* The state of the loop after n cells: the cells measured, up to the first one
\* that lacks a scale, at which it stops with an error.
Sofar(p, i, s, n, t) ==
  /\ t = [res |-> t.res, dat |-> t.dat, error |-> t.error, stop |-> t.stop]
  /\ (\A j \in 1..n : ~Lacking(p, j)) =>
       /\ t.stop = FALSE /\ t.res = MeasuredTo(p, i, n)
       /\ t.error \in {0, s.error} /\ (p.mode = 1 /\ n > 0 => t.error = 0)
  /\ (\E j \in 1..n : Lacking(p, j)) => t.stop = TRUE /\ t.error = 1

LEMMA CellKeeps ==
  ASSUME NEW p \in AllProfiles, Readable(p), NEW i \in DOMAIN p.widths, NEW s,
         NEW n \in Nat, n + 1 <= Visited(p, i), NEW t, Sofar(p, i, s, n, t)
  PROVE  Sofar(p, i, s, n + 1, Cell(p, i, t, n + 1))
<1> DEFINE j == n + 1
           u == Cell(p, i, t, j)
<1>1. /\ p.mode \in {0, 1} /\ p.scales \in Nat /\ p.columns[1] = "clock"
      /\ j \in Nat /\ j >= 1 /\ 1..j = (1..n) \union {j}
  BY DEF AllProfiles, Readable
<1>2. Row(p, i)[j] = <<i, j>>
  BY RowCells
<1>3. CASE \E h \in 1..n : Lacking(p, h)
  <2>1. t.stop = TRUE /\ t.error = 1
    BY <1>3 DEF Sofar
  <2>2. u = t
    BY <2>1 DEF Cell, CellOfRows, CellOfBuffer
  <2> QED BY <1>1, <1>3, <2>1, <2>2 DEF Sofar
<1>4. CASE (\A h \in 1..n : ~Lacking(p, h)) /\ Lacking(p, j)
  <2>1. t.stop = FALSE /\ t = [res |-> t.res, dat |-> t.dat, error |-> t.error, stop |-> t.stop]
    BY <1>4 DEF Sofar
  <2>2. Extra(p, j) /\ (p.mode = 0 => p.columns[j] # "clock" /\ j > 1)
    BY <1>1, <1>4 DEF Lacking
  <2>3. u = [t EXCEPT !.error = 1, !.stop = TRUE]
    BY <1>1, <2>1, <2>2 DEF Cell, CellOfRows, CellOfBuffer
  <2>4. u = [res |-> t.res, dat |-> t.dat, error |-> 1, stop |-> TRUE]
    BY <2>1, <2>3
  <2> HIDE DEF u
  <2>5. /\ u.res = t.res /\ u.dat = t.dat /\ u.error = 1 /\ u.stop = TRUE
    BY <2>4
  <2> QED BY <1>1, <1>4, <2>4, <2>5 DEF Sofar, u
<1>5. CASE (\A h \in 1..n : ~Lacking(p, h)) /\ ~Lacking(p, j)
  <2>1. /\ t.stop = FALSE /\ t.res = MeasuredTo(p, i, n) /\ t.error \in {0, s.error}
    BY <1>5 DEF Sofar
  <2>2. u = Put(t, MeasuredCell(p, i, j), 0) \/ (p.mode = 0 /\ u = Put(t, MeasuredCell(p, i, j), t.error))
    <3>1. CASE p.mode = 1
      <4>1. ~Extra(p, j)
        BY <1>5, <3>1 DEF Lacking
      <4> QED BY <1>2, <2>1, <3>1, <4>1 DEF Cell, CellOfRows, MeasuredCell
    <3>2. CASE p.mode = 0 /\ p.columns[j] = "clock"
      BY <1>2, <2>1, <3>2 DEF Cell, CellOfBuffer, MeasuredCell
    <3>3. CASE p.mode = 0 /\ p.columns[j] # "clock"
      <4>1. ~Extra(p, j) /\ j > 1
        BY <1>1, <1>5, <3>3 DEF Lacking
      <4> QED BY <1>2, <2>1, <3>3, <4>1 DEF Cell, CellOfBuffer, MeasuredCell
    <3> QED BY <1>1, <3>1, <3>2, <3>3
  <2> HIDE DEF u
  <2>3. /\ u = [res |-> Append(t.res, MeasuredCell(p, i, j)), dat |-> MeasuredCell(p, i, j),
                error |-> u.error, stop |-> FALSE]
        /\ u.error \in {0, t.error} /\ (p.mode = 1 => u.error = 0)
    BY <1>1, <2>2 DEF Put
  <2>4. u.res = MeasuredTo(p, i, j) /\ u.stop = FALSE /\ u.dat = MeasuredCell(p, i, j)
    BY <2>1, <2>3, MeasuredNext
  <2> QED BY <1>1, <1>5, <2>1, <2>3, <2>4 DEF Sofar, u
<1> QED BY <1>3, <1>4, <1>5

\* The loop over the cells of a row, for any number of them: a sound row comes
\* out as it should be saved, and the others with an error.
LEMMA RowConverted ==
  ASSUME NEW p \in AllProfiles, Readable(p), NEW i \in DOMAIN p.widths, NEW s
  PROVE  /\ Sound(p, i) =>
              /\ ConvertRow(p, i, s).res = Measured(p, i)
              /\ ConvertRow(p, i, s).error \in {0, s.error}
              /\ p.mode = 1 /\ Visited(p, i) > 0 => ConvertRow(p, i, s).error = 0
         /\ ~Sound(p, i) => ConvertRow(p, i, s).error = 1
<1> DEFINE v == Visited(p, i)
           g == AfterCells(p, i, s)
           S == {n \in Nat : n <= v => Sofar(p, i, s, n, g[n])}
<1>1. v \in Nat
  BY RowCells
<1>2. IsAfterCells(g, p, i, s, v)
  BY <1>1, CellsLoop
<1>3. 0 \in S
  <2>1. g[0] = Start(s.dat, s.error)
    BY <1>1, <1>2 DEF IsAfterCells
  <2>2. MeasuredTo(p, i, 0) = <<>>
    BY DEF MeasuredTo
  <2>3. Sofar(p, i, s, 0, Start(s.dat, s.error))
    BY <2>2 DEF Sofar, Start
  <2> QED BY <2>1, <2>3
<1> HIDE DEF g, v
<1>4. ASSUME NEW n \in Nat, n \in S PROVE n + 1 \in S
  <2> SUFFICES ASSUME n + 1 <= v PROVE Sofar(p, i, s, n + 1, g[n + 1])
    OBVIOUS
  <2>1. Sofar(p, i, s, n, g[n])
    BY <1>1, <1>4
  <2>2. g[n + 1] = Cell(p, i, g[n], n + 1)
    <3>1. n + 1 \in 0..v /\ n + 1 # 0 /\ (n + 1) - 1 = n
      BY <1>1
    <3> QED BY <1>2, <3>1 DEF IsAfterCells
  <2> QED BY <2>1, <2>2, CellKeeps DEF v
<1> HIDE DEF S
<1>5. \A n \in Nat : n \in S
  BY <1>3, <1>4, Induction
<1>6. Sofar(p, i, s, v, g[v])
  BY <1>1, <1>5 DEF S
<1>7. Measured(p, i) = MeasuredTo(p, i, v)
  BY DEF Measured, MeasuredTo, MeasuredCell, v
<1>8. ConvertRow(p, i, s) = g[v]
  BY DEF ConvertRow, g, v
<1>9. Sound(p, i) <=> \A j \in 1..v : ~Lacking(p, j)
  BY DEF Sound, v
<1> QED BY <1>6, <1>7, <1>8, <1>9 DEF Sofar, v

-----------------------------------------------------------------------------
(* Places of the sound rows.                                               *)

LEMMA PlaceNext ==
  ASSUME NEW p, NEW n \in Nat
  PROVE  /\ Place(p, 0) = 0 /\ Place(p, n) \in Nat
         /\ Place(p, n + 1) = Place(p, n) + (IF Sound(p, n + 1) THEN 1 ELSE 0)
<1> DEFINE upto == {h \in 1..n : Sound(p, h)}
           next == {h \in 1..(n + 1) : Sound(p, h)}
<1>1. IsFiniteSet(upto)
  <2>1. IsFiniteSet(1..n)
    BY FS_Interval
  <2> QED BY <2>1, FS_Subset
<1>2. Place(p, n) = Cardinality(upto) /\ Place(p, n + 1) = Cardinality(next)
  BY DEF Place
<1>3. Cardinality(upto) \in Nat
  BY <1>1, FS_CardinalityType
<1>4. Place(p, 0) = 0
  <2>1. {h \in 1..0 : Sound(p, h)} = {}
    OBVIOUS
  <2> QED BY <2>1, FS_EmptySet DEF Place
<1>5. CASE Sound(p, n + 1)
  <2>1. next = upto \union {n + 1} /\ n + 1 \notin upto
    BY <1>5
  <2> HIDE DEF upto, next
  <2>2. Cardinality(next) = Cardinality(upto) + 1
    BY <1>1, <2>1, FS_AddElement
  <2> QED BY <1>2, <1>3, <1>4, <1>5, <2>2
<1>6. CASE ~Sound(p, n + 1)
  <2>1. next = upto
    BY <1>6
  <2> HIDE DEF upto, next
  <2> QED BY <1>2, <1>3, <1>4, <1>6, <2>1
<1> QED BY <1>5, <1>6

\* Sound rows after row n come after its place.
LEMMA PlaceGrows ==
  ASSUME NEW p, NEW n \in Nat, NEW m \in Nat, n <= m
  PROVE  Place(p, n) <= Place(p, m)
<1> DEFINE S == {d \in Nat : Place(p, n) <= Place(p, n + d)}
<1>1. 0 \in S
  BY PlaceNext
<1>2. ASSUME NEW d \in Nat, d \in S PROVE d + 1 \in S
  <2>1. n + d \in Nat /\ (n + d) + 1 = n + (d + 1)
    OBVIOUS
  <2>2. Place(p, n) \in Nat /\ Place(p, n + d) \in Nat /\ Place(p, n + (d + 1)) >= Place(p, n + d)
    BY <2>1, PlaceNext
  <2>3. Place(p, n + (d + 1)) \in Nat
    BY PlaceNext
  <2> QED BY <1>2, <2>2, <2>3
<1> HIDE DEF S
<1>3. m - n \in S
  BY <1>1, <1>2, Induction
<1> QED BY <1>3 DEF S

\* No two sound rows have the same place.
LEMMA PlaceOfOne ==
  ASSUME NEW p, NEW n \in Nat \ {0}, NEW m \in Nat \ {0}, Sound(p, n), Sound(p, m),
         Place(p, n) = Place(p, m)
  PROVE  n = m
<1>1. ASSUME NEW a \in Nat \ {0}, NEW b \in Nat \ {0}, Sound(p, b), a < b
      PROVE  Place(p, a) < Place(p, b)
  <2>1. b - 1 \in Nat /\ (b - 1) + 1 = b /\ a <= b - 1
    BY <1>1
  <2>2. Place(p, b) = Place(p, b - 1) + 1 /\ Place(p, b - 1) \in Nat
    BY <1>1, <2>1, PlaceNext
  <2>3. Place(p, a) <= Place(p, b - 1) /\ Place(p, a) \in Nat
    BY <2>1, PlaceGrows, PlaceNext
  <2> QED BY <2>2, <2>3
<1>2. Place(p, n) \in Nat
  BY PlaceNext
<1> QED BY <1>1, <1>2

-----------------------------------------------------------------------------
(* The rows.                                                               *)

IsAfterRows(g, p, n) ==
  g = [k \in 0..n |-> IF k = 0 THEN NoRows ELSE Keep(g[k - 1], ConvertRow(p, k, g[k - 1]))]

LEMMA RowsRun ==
  ASSUME NEW p
  PROVE  \A n \in Nat : \E g : IsAfterRows(g, p, n)
<1> DEFINE S == {n \in Nat : \E g : IsAfterRows(g, p, n)}
<1>1. 0 \in S
  <2> DEFINE g == [k \in 0..0 |-> NoRows]
  <2>1. IsAfterRows(g, p, 0)
    BY DEF IsAfterRows
  <2> QED BY <2>1
<1>2. ASSUME NEW n \in Nat, n \in S PROVE n + 1 \in S
  <2>1. PICK g : IsAfterRows(g, p, n)
    BY <1>2
  <2> DEFINE last == Keep(g[n], ConvertRow(p, n + 1, g[n]))
             h == [k \in 0..(n + 1) |-> IF k = n + 1 THEN last ELSE g[k]]
  <2> HIDE DEF last
  <2>2. \A k \in 0..n : h[k] = g[k]
    OBVIOUS
  <2>3. ASSUME NEW k \in 0..(n + 1)
        PROVE  h[k] = IF k = 0 THEN NoRows ELSE Keep(h[k - 1], ConvertRow(p, k, h[k - 1]))
    <3>1. CASE k = n + 1
      BY <2>2, <3>1 DEF last
    <3>2. CASE k # n + 1
      <4>1. k \in 0..n
        BY <3>2
      <4>2. g[k] = IF k = 0 THEN NoRows ELSE Keep(g[k - 1], ConvertRow(p, k, g[k - 1]))
        BY <2>1, <4>1 DEF IsAfterRows
      <4>3. k # 0 => h[k - 1] = g[k - 1]
        BY <2>2, <4>1
      <4> QED BY <2>2, <4>1, <4>2, <4>3
    <3> QED BY <3>1, <3>2
  <2>4. IsAfterRows(h, p, n + 1)
    BY <2>3 DEF IsAfterRows
  <2> QED BY <2>4
<1> HIDE DEF S
<1>3. \A n \in Nat : n \in S
  BY <1>1, <1>2, Induction
<1> QED BY <1>3 DEF S

LEMMA RowsLoop ==
  ASSUME NEW p, Len(p.widths) \in Nat
  PROVE  IsAfterRows(AfterRows(p), p, Len(p.widths))
<1>1. PICK g : IsAfterRows(g, p, Len(p.widths))
  BY RowsRun
<1> QED BY <1>1 DEF IsAfterRows, AfterRows

\* The sound ones of the first n rows.
RowOf(p, k) == Measured(p, CHOOSE i \in DOMAIN p.widths : Sound(p, i) /\ Place(p, i) = k)

RowsTo(p, n) == [k \in 1..Place(p, n) |-> RowOf(p, k)]

LEMMA RowsNext ==
  ASSUME NEW p, NEW n \in Nat, n + 1 \in DOMAIN p.widths, DOMAIN p.widths \subseteq Nat \ {0},
         Sound(p, n + 1)
  PROVE  Append(RowsTo(p, n), Measured(p, n + 1)) = RowsTo(p, n + 1)
<1> DEFINE all == {RowOf(p, k) : k \in Nat}
           m == Place(p, n)
           rows == RowsTo(p, n)
<1>1. m \in Nat /\ Place(p, n + 1) = m + 1
  BY PlaceNext
<1>2. Measured(p, n + 1) = RowOf(p, m + 1)
  <2> DEFINE i == CHOOSE i \in DOMAIN p.widths : Sound(p, i) /\ Place(p, i) = m + 1
  <2>1. i \in DOMAIN p.widths /\ Sound(p, i) /\ Place(p, i) = m + 1
    BY <1>1
  <2>2. i = n + 1
    BY <1>1, <2>1, PlaceOfOne
  <2> QED BY <2>2 DEF RowOf
<1>3. rows \in Seq(all) /\ Len(rows) = m /\ RowOf(p, m + 1) \in all
  BY <1>1 DEF RowsTo
<1>4. \A k \in 1..m : rows[k] = RowOf(p, k)
  BY DEF RowsTo
<1>5. RowsTo(p, n + 1) = [k \in 1..(m + 1) |-> RowOf(p, k)]
  BY <1>1 DEF RowsTo
<1> HIDE DEF rows, all, m
<1>6. /\ Append(rows, RowOf(p, m + 1)) \in Seq(all)
      /\ Len(Append(rows, RowOf(p, m + 1))) = m + 1
      /\ Append(rows, RowOf(p, m + 1))[m + 1] = RowOf(p, m + 1)
      /\ \A k \in 1..m : Append(rows, RowOf(p, m + 1))[k] = rows[k]
  BY <1>1, <1>3
<1>7. \A k \in 1..(m + 1) : Append(rows, RowOf(p, m + 1))[k] = RowOf(p, k)
  BY <1>1, <1>4, <1>6
<1>8. Append(rows, RowOf(p, m + 1)) = [k \in 1..(m + 1) |-> RowOf(p, k)]
  BY <1>1, <1>6, <1>7
<1> QED BY <1>2, <1>5, <1>8 DEF rows

\* The state of the loop after n rows: the sound ones are kept, and the flag is
\* only up after one that is not.
Sorted(p, n, t) ==
  /\ t.kept = RowsTo(p, n)
  /\ t.error \in {0, 1}
  /\ t.error = 0 \/ \E h \in 1..n : ~Sound(p, h)

\* The flag that a row finds up does not keep it out: the row takes it down with
\* its first cell, or all the rows are alike.
LEMMA SoundRowFits ==
  ASSUME NEW p \in AllProfiles, Readable(p), NEW n \in Nat, n + 1 \in DOMAIN p.widths,
         NEW t, Sorted(p, n, t), Sound(p, n + 1)
  PROVE  ConvertRow(p, n + 1, t).error = 0
<1> DEFINE i == n + 1
<1>1. /\ ConvertRow(p, i, t).error \in {0, t.error}
      /\ p.mode = 1 /\ Visited(p, i) > 0 => ConvertRow(p, i, t).error = 0
  BY RowConverted
<1>2. CASE p.mode = 1 /\ p.rowid = 1
  BY <1>1, <1>2, RowCells
<1>3. CASE p.mode = 0 \/ p.rowid = 0
  <2>1. \A h \in DOMAIN p.widths : Visited(p, h) = Visited(p, i)
    BY <1>3, RowCells
  <2>2. \A h \in DOMAIN p.widths : Sound(p, h)
    BY <2>1 DEF Sound
  <2>3. \A h \in 1..n : h \in DOMAIN p.widths
    BY DEF AllProfiles
  <2>4. t.error = 0
    BY <2>2, <2>3 DEF Sorted
  <2> QED BY <1>1, <2>4
<1> QED BY <1>2, <1>3 DEF AllProfiles

LEMMA RowKeeps ==
  ASSUME NEW p \in AllProfiles, Readable(p), NEW n \in Nat, n + 1 \in DOMAIN p.widths,
         NEW t, Sorted(p, n, t)
  PROVE  Sorted(p, n + 1, Keep(t, ConvertRow(p, n + 1, t)))
<1> DEFINE c == ConvertRow(p, n + 1, t)
<1>1. DOMAIN p.widths \subseteq Nat \ {0}
  BY DEF AllProfiles
<1>2. CASE Sound(p, n + 1)
  <2>1. c.error = 0 /\ c.res = Measured(p, n + 1)
    BY <1>2, SoundRowFits, RowConverted
  <2> HIDE DEF c
  <2>2. Keep(t, c).kept = Append(t.kept, Measured(p, n + 1)) /\ Keep(t, c).error = 0
    BY <2>1 DEF Keep
  <2>3. Keep(t, c).kept = RowsTo(p, n + 1)
    BY <1>1, <1>2, <2>2, RowsNext DEF Sorted
  <2> QED BY <2>2, <2>3 DEF Sorted, c
<1>3. CASE ~Sound(p, n + 1)
  <2>1. c.error = 1
    BY <1>3, RowConverted
  <2> HIDE DEF c
  <2>2. Keep(t, c).kept = t.kept /\ Keep(t, c).error = 1
    BY <2>1 DEF Keep
  <2>3. RowsTo(p, n + 1) = RowsTo(p, n)
    <3>1. Place(p, n + 1) = Place(p, n)
      BY <1>3, PlaceNext
    <3> QED BY <3>1 DEF RowsTo
  <2>4. \E h \in 1..(n + 1) : ~Sound(p, h)
    BY <1>3
  <2> QED BY <2>2, <2>3, <2>4 DEF Sorted, c
<1> QED BY <1>2, <1>3

\* The loop over the rows keeps the rows that are sound, each as it was
\* measured and in their order, for any number of rows and cells, in both modes
\* and with and without row identifiers.
THEOREM RowsConverted ==
  ASSUME NEW p \in AllProfiles, Readable(p)
  PROVE  /\ Convert(p).kept = MeasuredRows(p)
         /\ Convert(p).error \in {0, 1}
         /\ Len(MeasuredRows(p)) \in Nat
<1> DEFINE v == Len(p.widths)
           g == AfterRows(p)
           S == {n \in Nat : n <= v => Sorted(p, n, g[n])}
<1>1. v \in Nat /\ DOMAIN p.widths = 1..v
  BY DEF AllProfiles
<1>2. IsAfterRows(g, p, v)
  BY <1>1, RowsLoop
<1>3. 0 \in S
  <2>1. g[0] = NoRows
    BY <1>1, <1>2 DEF IsAfterRows
  <2>2. RowsTo(p, 0) = <<>>
    BY PlaceNext DEF RowsTo
  <2>3. Sorted(p, 0, NoRows)
    BY <2>2 DEF Sorted, NoRows
  <2> QED BY <2>1, <2>3
<1> HIDE DEF g, v
<1>4. ASSUME NEW n \in Nat, n \in S PROVE n + 1 \in S
  <2> SUFFICES ASSUME n + 1 <= v PROVE Sorted(p, n + 1, g[n + 1])
    OBVIOUS
  <2>1. Sorted(p, n, g[n])
    BY <1>1, <1>4
  <2>2. n + 1 \in DOMAIN p.widths
    BY <1>1
  <2>3. g[n + 1] = Keep(g[n], ConvertRow(p, n + 1, g[n]))
    <3>1. n + 1 \in 0..v /\ n + 1 # 0 /\ (n + 1) - 1 = n
      BY <1>1
    <3> QED BY <1>2, <3>1 DEF IsAfterRows
  <2> QED BY <2>1, <2>2, <2>3, RowKeeps
<1> HIDE DEF S
<1>5. \A n \in Nat : n \in S
  BY <1>3, <1>4, Induction
<1>6. Sorted(p, v, g[v])
  BY <1>1, <1>5 DEF S
<1>7. MeasuredRows(p) = RowsTo(p, v) /\ Len(RowsTo(p, v)) \in Nat
  BY <1>1, PlaceNext DEF MeasuredRows, RowsTo, RowOf, v
<1>8. Convert(p) = g[v]
  BY DEF Convert, g, v
<1> QED BY <1>6, <1>7, <1>8 DEF Sorted

\* No sound row is lost or moved by the loops: each is kept at the place that
\* the sound rows before it leave it, whatever the rows that do not fit and the
\* error flags they leave (Session.cpp:1795 to 2044).
THEOREM SoundRowsKept ==
  ASSUME NEW p \in AllProfiles, Readable(p), NEW i \in DOMAIN p.widths, Sound(p, i)
  PROVE  /\ Place(p, i) \in DOMAIN Convert(p).kept
         /\ Convert(p).kept[Place(p, i)] = Measured(p, i)
<1>1. /\ Len(p.widths) \in Nat /\ i \in 1..Len(p.widths)
      /\ DOMAIN p.widths \subseteq Nat \ {0} /\ i \in Nat
  BY DEF AllProfiles
<1>2. Place(p, i) <= Place(p, Len(p.widths)) /\ Place(p, Len(p.widths)) \in Nat
  BY <1>1, PlaceGrows, PlaceNext
<1>3. Place(p, i) \in Nat /\ Place(p, i) >= 1
  <2>1. i - 1 \in Nat /\ (i - 1) + 1 = i
    BY <1>1
  <2>2. Place(p, i - 1) \in Nat /\ Place(p, i) = Place(p, i - 1) + 1
    BY <2>1, PlaceNext
  <2> QED BY <2>2
<1>4. (CHOOSE h \in DOMAIN p.widths : Sound(p, h) /\ Place(p, h) = Place(p, i)) = i
  BY <1>1, PlaceOfOne
<1>5. RowOf(p, Place(p, i)) = Measured(p, i)
  BY <1>4 DEF RowOf
<1>6. MeasuredRows(p) = [k \in 1..Place(p, Len(p.widths)) |-> RowOf(p, k)]
  BY DEF MeasuredRows, RowOf
<1>7. Convert(p).kept = [k \in 1..Place(p, Len(p.widths)) |-> RowOf(p, k)]
  BY <1>6, RowsConverted
<1> QED BY <1>2, <1>3, <1>5, <1>7
=============================================================================
