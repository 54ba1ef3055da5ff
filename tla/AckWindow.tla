------------------------------ MODULE AckWindow ------------------------------
(***************************************************************************)
(* CACKWindow (window.cpp): the ring in which a receiver keeps the ACKs it *)
(* sent, to find the round trip time and the confirmed data number when    *)
(* the ACK2 with an ACK's own number comes back.  ACK2s are lost, doubled  *)
(* and overtaken, so any number ever used may arrive at any time.  The     *)
(* cells the constructor leaves uninitialized are Nil: no loop reads them. *)
(***************************************************************************)
EXTENDS Integers, Sequences

CONSTANTS AckWindowSize,   \* m_iSize
          MaxAckSeqNo      \* CAckNo::m_iMaxAckSeqNo

VARIABLES window,    \* the fields of the class
          ackSeqNo,  \* CUDT::m_iAckSeqNo, the number of the last ACK
          log        \* the ACKs an ACK2 may still confirm, the oldest first

ackVars == <<window, ackSeqNo, log>>

AckNone == -1
AckSlots == 0 .. (AckWindowSize - 1)
AckSeqNos == 0 .. MaxAckSeqNo
DataAcks == 0 .. 1         \* the data numbers told apart

AckInit ==
    /\ window = [seqNo |-> [i \in AckSlots |-> AckNone],
                 ack |-> [i \in AckSlots |-> AckNone], head |-> 0, tail |-> 0]
    /\ ackSeqNo = 0
    /\ log = <<>>

AckAfter(i) == (i + 1) % AckWindowSize

\* Variant: the oldest ACK is not given up when the ring is full.
TailAfterKept(w) == w.tail
TailAfter(w) == IF AckAfter(w.head) = w.tail THEN AckAfter(w.tail) ELSE w.tail

\* store.
Stored(w, seq, ack) ==
    [seqNo |-> [w.seqNo EXCEPT ![w.head] = seq], ack |-> [w.ack EXCEPT ![w.head] = ack],
     head |-> AckAfter(w.head), tail |-> TailAfter(w)]

\* The slots from the oldest ACK to the last one, around the end of the arrays.
Held(w) ==
    [k \in 1 .. (w.head - w.tail + (IF w.head >= w.tail THEN 0 ELSE AckWindowSize))
        |-> (w.tail + k - 1) % AckWindowSize]

\* The place among them of the first with this number, 0 if there is none.
Found(w, seq) ==
    LET places == {k \in DOMAIN Held(w) : w.seqNo[Held(w)[k]] = seq}
    IN  IF places = {} THEN 0 ELSE CHOOSE k \in places : \A j \in places : k <= j

\* acknowledge, the answer: the data number the ACK carried, or -1.
Answered(w, seq) ==
    IF Found(w, seq) = 0 THEN AckNone ELSE w.ack[Held(w)[Found(w, seq)]]

\* acknowledge, the effect: older ACKs are forgotten with the one confirmed.
\* Before the wrap a confirmed last ACK starts the ring anew; after it the
\* test at window.cpp:129 never holds and the ring is left empty where it is.
Confirmed(w, seq) ==
    LET i == Held(w)[Found(w, seq)] IN
    IF Found(w, seq) = 0 THEN w
    ELSE IF w.head >= w.tail /\ i + 1 = w.head
    THEN [w EXCEPT !.head = 0, !.tail = 0, !.seqNo[0] = AckNone]
    ELSE [w EXCEPT !.tail = AckAfter(i)]

-----------------------------------------------------------------------------

\* sendCtrl(2): a full ACK.
SendAck(ack) ==
    LET seq == IF ackSeqNo = MaxAckSeqNo THEN 0 ELSE ackSeqNo + 1 IN
    /\ ackSeqNo' = seq
    /\ window' = Stored(window, seq, ack)
    /\ log' = LET l == Append(log, <<seq, ack>>)
              IN  IF Len(l) = AckWindowSize THEN Tail(l) ELSE l

\* processCtrl(6): an ACK2.
ReceiveAck2(seq) ==
    /\ window' = Confirmed(window, seq)
    /\ log' = LET hits == {k \in DOMAIN log : log[k][1] = seq}
              IN  IF hits = {} THEN log
                  ELSE SubSeq(log, 1 + CHOOSE k \in hits : \A j \in hits : k <= j, Len(log))
    /\ UNCHANGED ackSeqNo

AckNext ==
    \/ \E ack \in DataAcks : SendAck(ack)
    \/ \E seq \in AckSeqNos : ReceiveAck2(seq)

AckSpec == AckInit /\ [][AckNext]_ackVars

\* Through overwriting, wrapping and both ways of emptying the ring, an ACK2
\* finds the data number its own ACK carried while that ACK is among the last
\* m_iSize - 1 and no later one has been confirmed, and nothing otherwise:
\* neither a late nor a doubled ACK2 confirms data or yields a round trip time.
AckWindowIsLog ==
    /\ Len(log) = Len(Held(window))
    /\ \A seq \in AckSeqNos :
        Answered(window, seq) =
            IF \E k \in DOMAIN log : log[k][1] = seq
            THEN log[CHOOSE k \in DOMAIN log : log[k][1] = seq][2] ELSE AckNone
=============================================================================
