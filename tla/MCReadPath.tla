----------------------------- MODULE MCReadPath -----------------------------
(* A small instance of ReadPath for TLC.                                    *)
EXTENDS ReadPath

ColumnLists ==
  {<<"clock", "value">>, <<"clock", "value", "value">>, <<"clock", "value", "clock">>}

\* One or two rows of two to four cells.
Widths == UNION {[1..n -> 2..4] : n \in 1..2}

MCProfiles ==
  {p \in [mode : {0, 1}, rowid : {0, 1}, relecturas : 0..2, columns : ColumnLists,
          scales : 1..3, widths : Widths] : Readable(p)}

\* Two that FrameAddress can name and two it cannot, with the same digits in
\* their numbers, or one of them.
MCAddresses ==
  {<<33, 32, 23, 0, 0>>, <<33, 32, 5, 0, 0>>, <<33, 32, 23, 11, 0>>, <<33, 32, 123, 1, 0>>}

\* A header of one byte and of two, and the longest for which the inner length
\* has one byte.
MCLengths == {10, 11, 226}
=============================================================================
