------------------------------ MODULE SeqWindow ------------------------------
(***************************************************************************)
(* The two ends of a sender's window as the code keeps them, in wrapping   *)
(* sequence numbers, beside the true number of packets between them.  The  *)
(* other modules count in unwrapped numbers: what is checked and proved    *)
(* here is that CSeqNo makes no difference while a window stays shorter    *)
(* than SeqNoTH.                                                           *)
(***************************************************************************)
EXTENDS SeqNo

CONSTANT MaxFlight    \* the longest window, m_iFlightFlagSize

ASSUME MaxFlightAssumption == MaxFlight \in Nat /\ MaxFlight < SeqNoTH

VARIABLES lastAck,    \* m_iSndLastAck
          currSeqNo,  \* m_iSndCurrSeqNo
          inFlight    \* packets sent and not acknowledged

seqVars == <<lastAck, currSeqNo, inFlight>>

\* open and connect: any initial number, and currSeqNo one less, which is -1
\* and no sequence number where the initial one is 0.
SeqInit ==
    /\ lastAck \in SeqNos
    /\ currSeqNo = lastAck - 1
    /\ inFlight = 0

\* packData: a new packet.
SendNew ==
    /\ inFlight < MaxFlight
    /\ currSeqNo' = Incseq(currSeqNo)
    /\ inFlight' = inFlight + 1
    /\ UNCHANGED lastAck

\* packData: the unsent rest of an expired message is skipped.
SkipMessage(n) ==
    /\ inFlight + n <= MaxFlight
    /\ currSeqNo' = IncseqBy(currSeqNo, n)
    /\ inFlight' = inFlight + n
    /\ UNCHANGED lastAck

\* processCtrl: an ACK moves the lower end over n packets.
Acknowledge(n) ==
    /\ n <= inFlight
    /\ lastAck' = IncseqBy(lastAck, n)
    /\ inFlight' = inFlight - n
    /\ UNCHANGED currSeqNo

SeqNext ==
    \/ SendNew
    \/ \E n \in 1 .. MaxFlight : SkipMessage(n) \/ Acknowledge(n)

SeqSpec == SeqInit /\ [][SeqNext]_seqVars

\* The numbers stay in range; -1 is left with the first packet.
SeqTypeOK ==
    /\ lastAck \in SeqNos
    /\ currSeqNo \in SeqNos \cup {-1} /\ (currSeqNo = -1 => inFlight = 0)
    /\ inFlight \in 0 .. MaxFlight

\* packData tests the window with seqlen(lastAck, incseq(currSeqNo)): it is the
\* number of packets in flight with the next one, wrapped or not.
LengthIsFlight == Seqlen(lastAck, Incseq(currSeqNo)) = inFlight + 1

\* processCtrl releases seqoff(from, to) blocks: the true distance, both ways.
OffsetIsFlight ==
    /\ Seqoff(lastAck, Incseq(currSeqNo)) = inFlight
    /\ Seqoff(Incseq(currSeqNo), lastAck) = -inFlight

\* An ACK for a packet in flight is never taken for one beyond what was sent,
\* nor for an old one (the checks at core.cpp:1998 and 2006).
CompareIsOrder ==
    /\ \A n \in 0 .. inFlight : Seqcmp(IncseqBy(lastAck, n), Incseq(currSeqNo)) <= 0
    /\ \A n \in 1 .. inFlight : Seqcmp(IncseqBy(lastAck, n), lastAck) > 0

\* Whatever the library asks of two wrapped numbers, length, offset or order, the
\* answer is the one for numbers that do not wrap.
WrapIsInvisible == LengthIsFlight /\ OffsetIsFlight /\ CompareIsOrder
=============================================================================
