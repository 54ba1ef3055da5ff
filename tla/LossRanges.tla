------------------------------ MODULE LossRanges ------------------------------
(***************************************************************************)
(* What CSndLossList and CRcvLossList (list.h) have in common: losses kept *)
(* as ranges of sequence numbers in static arrays.  A list l is a record   *)
(* of the fields of its class, with the arrays as functions: l.data1[c] is *)
(* the first number of the range in cell c, or Nil when the cell is free,  *)
(* and l.data2[c] the last, or Nil when there is only one.                 *)
(***************************************************************************)
EXTENDS LossWindow, Loops

\* The last number of a range: a single one has no m_piData2.
End(l, c) == IF l.data2[c] = Nil THEN l.data1[c] ELSE l.data2[c]

WithRange(l, c, lo, hi) ==
    [l EXCEPT !.data1[c] = lo, !.data2[c] = IF hi = lo THEN @ ELSE hi]

Occupied(l) == {c \in DOMAIN l.data1 : l.data1[c] # Nil}
RangeOf(l, c) ==
    {IncseqBy(l.data1[c], n) : n \in 0 .. (Seqlen(l.data1[c], End(l, c)) - 1)}

\* The numbers in the list, which m_iLength counts.
Covered(l) == UNION {RangeOf(l, c) : c \in Occupied(l)}
LengthExact(l) == l.length = Cardinality(Covered(l))
=============================================================================
