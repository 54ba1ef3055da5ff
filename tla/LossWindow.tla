----------------------------- MODULE LossWindow -----------------------------
(***************************************************************************)
(* The stretch of sequence numbers a loss list speaks of: from the first   *)
(* one not acknowledged to the last one sent (for the sender) or received  *)
(* (for the receiver).                                                     *)
(***************************************************************************)
EXTENDS SeqNo, FiniteSets

CONSTANT Window    \* the longest such stretch

ASSUME WindowAssumption == Window \in Nat \ {0} /\ Window < SeqNoTH

\* The n-th number of the stretch that starts with first, from 0, and those
\* from the i-th to the j-th.
Number(first, n) == IncseqBy(first, n)
Span(first, i, j) == {Number(first, n) : n \in i .. j}

Nil == -1
=============================================================================
