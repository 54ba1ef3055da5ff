------------------------------ MODULE RcvBuffer ------------------------------
(***************************************************************************)
(* CRcvBuffer (buffer.cpp) in message mode: a ring of units from           *)
(* m_iStartPos over m_iLastAckPos to m_iMaxPos units beyond it.  The       *)
(* buffer is a record and each method an operator on it.  A unit keeps of  *)
(* its packet what the methods look at - message number, boundary bits,    *)
(* order flag - with its block for the data, and its own m_iFlag.          *)
(***************************************************************************)
EXTENDS Integers, Sequences

CONSTANT RcvBufSize    \* m_iSize

ASSUME RcvBufAssumption == RcvBufSize \in Nat \ {0, 1}

Positions == 0 .. (RcvBufSize - 1)
NoUnit == [flag |-> 0, msg |-> 0, boundary |-> 0, order |-> FALSE, block |-> 0]

\* CUnit::m_iFlag.
Good == 1
ReadEarly == 2
Dropped == 3

\* CPacket::getMsgBoundary.
Middle == 0
Last == 1
First == 2
Only == 3

EmptyBuffer(p) ==
    [unit |-> [q \in Positions |-> NoUnit], start |-> p, ack |-> p, max |-> 0]

\* The position n places after p, the places from the start to p, and how
\* many units are acknowledged.
At(p, n) == (p + n) % RcvBufSize
FromStart(b, p) == (p - b.start + RcvBufSize) % RcvBufSize
RcvDataSize(b) == FromStart(b, b.ack)

\* One slot stays empty.
AvailBufSize(b) == RcvBufSize - RcvDataSize(b) - 1

Occupied(b, p) == b.unit[p] # NoUnit
IsGood(b, p) == b.unit[p].flag = Good
IsHead(b, p) == b.unit[p].boundary \in {First, Only}
IsTail(b, p) == b.unit[p].boundary \in {Last, Only}

\* addData, at a position that is not occupied.
AddData(b, unit, offset) ==
    [b EXCEPT !.unit[At(b.ack, offset)] = unit,
              !.max = IF offset > @ THEN offset ELSE @]

AckData(b, n) ==
    [b EXCEPT !.ack = At(@, n), !.max = IF @ < n THEN 0 ELSE @ - n]

\* dropMsg compares the number with the whole header field: only a unit whose
\* boundary and order bits are zero can match.
IsTagged(unit, msg) ==
    /\ unit # NoUnit
    /\ unit.msg = msg /\ unit.boundary = Middle /\ ~unit.order

DropMsg(b, msg) ==
    LET n == At(RcvDataSize(b), b.max)
        tagged(p) == FromStart(b, p) < n /\ IsTagged(b.unit[p], msg)
    IN  [b EXCEPT !.unit = [p \in Positions |->
            IF tagged(p) THEN [b.unit[p] EXCEPT !.flag = Dropped]
                         ELSE b.unit[p]]]

-----------------------------------------------------------------------------
(* scanMsg and readMsg.                                                    *)

\* Is a message that starts at distance n good as far as it is acknowledged?
WholeFrom(b, n) ==
    \A j \in n .. (RcvDataSize(b) - 1) :
        \/ IsGood(b, At(b.start, j))
        \/ \E k \in n .. (j - 1) : IsTail(b, At(b.start, k))

\* How many acknowledged units come before the first such message.
Kept(b, n) ==
    LET p == At(b.start, n) IN IsGood(b, p) /\ IsHead(b, p) /\ WholeFrom(b, n)

BadPrefix(b) ==
    CHOOSE n \in 0 .. RcvDataSize(b) :
        /\ n = RcvDataSize(b) \/ Kept(b, n)
        /\ \A i \in 0 .. (n - 1) : ~Kept(b, i)

\* The first n units are given back.
Freed(b, n) ==
    [b EXCEPT !.unit = [p \in Positions |->
                           IF FromStart(b, p) < n THEN NoUnit ELSE b.unit[p]],
              !.start = At(b.start, n)]

\* A unit beyond the acknowledged ones ends a message that can be read only
\* if it need not be in order.
MayPass(b, j) == j < RcvDataSize(b) \/ ~b.unit[At(b.start, j)].order

\* A message at distances i to j: the last head before its tail, no hole.
FoundAt(b, i, j) ==
    /\ \A n \in i .. j : IsGood(b, At(b.start, n))
    /\ IsHead(b, At(b.start, i)) /\ IsTail(b, At(b.start, j))
    /\ \A n \in (i + 1) .. j : ~IsHead(b, At(b.start, n))
    /\ MayPass(b, j)

\* The first message: at most one pair.
Found(b) ==
    LET all == 0 .. (RcvDataSize(b) + b.max)
        at == {f \in all \X all : f[1] <= f[2] /\ FoundAt(b, f[1], f[2])}
    IN  {f \in at : \A g \in at : f[2] <= g[2]}

\* What scanMsg does to the buffer.
Scanned(b) == IF b.start = b.ack /\ b.max = 0 THEN b ELSE Freed(b, BadPrefix(b))

\* Variant: a message read ahead of its acknowledgement is not marked.
ReadMsgUnmarked(b, f) ==
    IF f[2] < RcvDataSize(b) THEN Freed(b, f[2] + 1) ELSE b

\* And readMsg, when it has found f.
ReadMsg(b, f) ==
    IF f[2] < RcvDataSize(b) THEN Freed(b, f[2] + 1)
    ELSE [b EXCEPT !.unit = [p \in Positions |->
            IF FromStart(b, p) \in f[1] .. f[2]
            THEN [b.unit[p] EXCEPT !.flag = ReadEarly] ELSE b.unit[p]]]

BlocksOf(b, f) ==
    [n \in 1 .. (f[2] - f[1] + 1) |-> b.unit[At(b.start, f[1] + n - 1)].block]
=============================================================================
