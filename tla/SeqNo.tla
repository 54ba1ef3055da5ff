-------------------------------- MODULE SeqNo --------------------------------
(***************************************************************************)
(* CSeqNo (common.h): arithmetic on the wrapping sequence numbers 0, ...,  *)
(* MaxSeqNo of UDT packets.  Two numbers are compared as if they were less *)
(* than SeqNoTH apart.  CMsgNo is the same code with its own constants.    *)
(***************************************************************************)
EXTENDS Integers

CONSTANTS MaxSeqNo,   \* m_iMaxSeqNo, 0x7FFFFFFF
          SeqNoTH     \* m_iSeqNoTH, 0x3FFFFFFF

ASSUME SeqNoAssumption ==
    /\ SeqNoTH \in Nat \ {0}
    /\ MaxSeqNo = 2 * SeqNoTH + 1

SeqNos == 0 .. MaxSeqNo

Abs(n) == IF n < 0 THEN -n ELSE n

\* Variant: takes every pair for an unwrapped one.
SeqcmpUnwrapped(seq1, seq2) == seq1 - seq2

\* Only the sign of the result means anything.
Seqcmp(seq1, seq2) ==
    IF Abs(seq1 - seq2) < SeqNoTH THEN seq1 - seq2 ELSE seq2 - seq1

Seqlen(seq1, seq2) ==
    IF seq1 <= seq2 THEN seq2 - seq1 + 1 ELSE seq2 - seq1 + MaxSeqNo + 2

Seqoff(seq1, seq2) ==
    IF Abs(seq1 - seq2) < SeqNoTH THEN seq2 - seq1
    ELSE IF seq1 < seq2 THEN seq2 - seq1 - MaxSeqNo - 1
    ELSE seq2 - seq1 + MaxSeqNo + 1

Incseq(seq) == IF seq = MaxSeqNo THEN 0 ELSE seq + 1

Decseq(seq) == IF seq = 0 THEN MaxSeqNo ELSE seq - 1

\* incseq(seq, inc) of the source.
IncseqBy(seq, inc) ==
    IF MaxSeqNo - seq >= inc THEN seq + inc ELSE seq - MaxSeqNo + inc - 1
=============================================================================
