----------------------------- MODULE RcvLossList -----------------------------
(***************************************************************************)
(* CRcvLossList (list.cpp): the receiver's losses as a doubly linked list  *)
(* of ranges in static arrays, each in the cell its first number is away   *)
(* from the head's, modulo the size.  Only the CRcvQueue worker calls it,  *)
(* so each method is one step.                                             *)
(*                                                                         *)
(* The callers are those of core.cpp: a data packet beyond the next number *)
(* inserts the gap, any other removes its number, a message drop request   *)
(* removes a stretch, an ACK reads the smallest number.                    *)
(*                                                                         *)
(* A cell that holds no range keeps its old links in the code, which       *)
(* nothing reads: they are Nil here.                                       *)
(***************************************************************************)
EXTENDS LossRanges

CONSTANTS RcvSize,      \* m_iSize, m_iFlightFlagSize
          WrappedDrops  \* whether a drop request may span the number 0

ASSUME RcvSizeAssumption ==
    RcvSize \in Nat /\ Window <= RcvSize /\ WrappedDrops \in BOOLEAN

VARIABLES rcvFirst,   \* m_iRcvLastAck
          rcvFlight,  \* how many numbers up to the largest received
          rcvList,    \* the fields of the class, its arrays as functions
          rcvCall     \* the last call: its name, arguments and answer

rcvLossVars == <<rcvFirst, rcvFlight, rcvList, rcvCall>>

RcvCells == 0 .. (RcvSize - 1)
RcvLinks == RcvCells \cup {Nil}
RcvLists ==
    [data1 : [RcvCells -> Int], data2 : [RcvCells -> Int],
     next : [RcvCells -> RcvLinks], prior : [RcvCells -> RcvLinks],
     head : RcvLinks, tail : RcvLinks, length : Int]

NoLink == [c \in RcvCells |-> Nil]
EmptyRcvList ==
    [data1 |-> NoLink, data2 |-> NoLink, next |-> NoLink, prior |-> NoLink,
     head |-> Nil, tail |-> Nil, length |-> 0]

RcvCell(l, seq) == (l.head + Seqoff(l.data1[l.head], seq)) % RcvSize
After(c) == (c + 1) % RcvSize

TailReaches(l, seq) == l.data2[l.tail] # Nil /\ Incseq(l.data2[l.tail]) = seq

\* insert: the gap is after all that is in the list.
RcvInsert(l, lo, hi) ==
    LET longer == [l EXCEPT !.length = @ + Seqlen(lo, hi)] IN
    IF l.length = 0
    THEN [WithRange(longer, 0, lo, hi) EXCEPT
             !.head = 0, !.tail = 0, !.next[0] = Nil, !.prior[0] = Nil]
    ELSE IF TailReaches(l, lo) THEN [longer EXCEPT !.data2[l.tail] = hi]
    ELSE LET c == RcvCell(l, lo) IN
         [WithRange(longer, c, lo, hi) EXCEPT
             !.next[l.tail] = c, !.prior[c] = l.tail, !.next[c] = Nil, !.tail = c]

-----------------------------------------------------------------------------
(* remove(seqno).                                                          *)

\* Variant: the range after it is not linked back.
RelinkedNext(l, c, d) ==
    LET before == IF l.head = c THEN [l EXCEPT !.head = d]
                  ELSE [l EXCEPT !.next[l.prior[c]] = d]
    IN  IF l.tail = c THEN [before EXCEPT !.tail = d] ELSE before

\* Links d in where c was, between the ranges around c.
Relinked(l, c, d) ==
    LET p == l.prior[c]
        n == l.next[c]
        before == IF l.head = c THEN [l EXCEPT !.head = d]
                  ELSE [l EXCEPT !.next[p] = d]
    IN  IF l.tail = c THEN [before EXCEPT !.tail = d]
        ELSE [before EXCEPT !.prior[n] = d]

\* A range of one number goes away.  When it is the head, m_iTail stays.
WithoutSingle(l, c) ==
    LET p == l.prior[c]
        n == l.next[c]
        cleared == [l EXCEPT !.data1[c] = Nil, !.next[c] = Nil, !.prior[c] = Nil]
    IN  IF l.head = c
        THEN IF n = Nil THEN [cleared EXCEPT !.head = Nil]
             ELSE [cleared EXCEPT !.head = n, !.prior[n] = Nil]
        ELSE IF n = Nil THEN [cleared EXCEPT !.next[p] = Nil, !.tail = p]
             ELSE [cleared EXCEPT !.next[p] = n, !.prior[n] = p]

\* A longer range loses its first number and moves to the next cell.
Shifted(l, c) ==
    LET d == After(c) IN
    [WithRange(Relinked(l, c, d), d, Incseq(l.data1[c]), l.data2[c]) EXCEPT
        !.next[d] = l.next[c], !.prior[d] = l.prior[c],
        !.data1[c] = Nil, !.data2[c] = Nil, !.next[c] = Nil, !.prior[c] = Nil]

\* Range c is made to end before seq.
Shortened(l, c, seq) ==
    [l EXCEPT !.data2[c] = IF seq = Incseq(l.data1[c]) THEN Nil ELSE Decseq(seq)]

\* The tail once the rest of range c has moved to cell d.
TailMoved(l, c, d) == IF l.tail = c THEN d ELSE l.tail

\* Range c is split around seq.
Split(l, c, seq) ==
    LET d == After(RcvCell(l, seq))
        n == l.next[c]
        halves == [WithRange(Shortened(l, c, seq), d, Incseq(seq), l.data2[c])
                      EXCEPT !.next[d] = n, !.next[c] = d, !.prior[d] = c,
                             !.tail = TailMoved(l, c, d)]
    IN  IF l.tail = c THEN halves ELSE [halves EXCEPT !.prior[n] = d]

\* The occupied cell nearest before c.
CellBefore(l, c) ==
    LET back(d) == (c - d + RcvSize) % RcvSize
    IN  back(CHOOSE d \in 1 .. RcvSize :
                 /\ l.data1[back(d)] # Nil
                 /\ \A e \in 1 .. (d - 1) : l.data1[back(e)] = Nil)

RcvRemove(l, seq) ==
    IF l.length = 0 \/ Seqoff(l.data1[l.head], seq) < 0 THEN l
    ELSE LET fewer == [l EXCEPT !.length = @ - 1]
             c == RcvCell(l, seq)
             p == CellBefore(l, c)
         IN  IF l.data1[c] = seq
             THEN IF l.data2[c] = Nil THEN WithoutSingle(fewer, c)
                  ELSE Shifted(fewer, c)
             ELSE IF l.data2[p] = Nil \/ Seqcmp(seq, l.data2[p]) > 0 THEN l
             ELSE IF seq = l.data2[p] THEN Shortened(fewer, p, seq)
             ELSE Split(fewer, p, seq)

\* One number of those up to hi is removed, and the next is due.
RemoveNext(hi) ==
    [e \in [l : RcvLists, seq : Nat] |->
       IF e.seq > hi THEN e ELSE [l |-> RcvRemove(e.l, e.seq), seq |-> e.seq + 1]]

RemoveEach(l, lo, hi) == Repeat(RemoveNext(hi), [l |-> l, seq |-> lo], Window).l

\* Variant: the last number of the stretch stays.
RemoveRangeShort(l, lo, hi) == RemoveEach(l, lo, hi - 1)

\* remove(seqno1, seqno2).  A stretch that wraps leaves out MaxSeqNo itself.
RemoveRange(l, lo, hi) ==
    IF lo <= hi THEN RemoveEach(l, lo, hi)
    ELSE RemoveEach(RemoveEach(l, lo, MaxSeqNo - 1), 0, hi)

-----------------------------------------------------------------------------

RcvLossInit ==
    /\ rcvFirst \in SeqNos /\ rcvFlight = 0
    /\ rcvList = EmptyRcvList /\ rcvCall = <<"create">>

RcvNumber(n) == Number(rcvFirst, n)

\* processData: the next packet, or one n numbers further on.
Arrive(n) ==
    /\ rcvFlight + n < Window
    /\ rcvFlight' = rcvFlight + n + 1
    /\ IF n = 0 THEN UNCHANGED rcvList /\ rcvCall' = <<"grow", 1>>
       ELSE LET hi == RcvNumber(rcvFlight + n - 1) IN
            /\ rcvList' = RcvInsert(rcvList, RcvNumber(rcvFlight), hi)
            /\ rcvCall' = <<"insert", RcvNumber(rcvFlight), hi>>
    /\ UNCHANGED rcvFirst

\* processData: a packet at or below the largest number, lost before or not.
Recover(i) ==
    /\ i < rcvFlight
    /\ rcvList' = RcvRemove(rcvList, RcvNumber(i))
    /\ rcvCall' = <<"remove", RcvNumber(i), RcvNumber(i)>>
    /\ UNCHANGED <<rcvFirst, rcvFlight>>

\* processCtrl: the peer has dropped a message, of which some was not sent yet.
DropRequest(i, j) ==
    /\ i <= j /\ j < Window
    /\ WrappedDrops \/ RcvNumber(i) <= RcvNumber(j)
    /\ rcvList' = RemoveRange(rcvList, RcvNumber(i), RcvNumber(j))
    /\ rcvFlight' = IF i <= rcvFlight /\ j >= rcvFlight THEN j + 1 ELSE rcvFlight
    /\ rcvCall' = <<"remove", RcvNumber(i), RcvNumber(j)>>
    /\ UNCHANGED rcvFirst

\* sendCtrl: the ACK names the first lost number, or the one after the last.
GiveAck ==
    LET ack == IF rcvList.length = 0 THEN RcvNumber(rcvFlight)
               ELSE rcvList.data1[rcvList.head]
        n == Seqoff(rcvFirst, ack)
    IN  /\ n > 0
        /\ rcvFirst' = ack /\ rcvFlight' = rcvFlight - n
        /\ rcvCall' = <<"slide", n>>
        /\ UNCHANGED rcvList

RcvLossNext ==
    \/ GiveAck
    \/ \E i \in 0 .. Window : Arrive(i) \/ Recover(i)
    \/ \E i, j \in 0 .. Window : DropRequest(i, j)

RcvLossSpec == RcvLossInit /\ [][RcvLossNext]_rcvLossVars

-----------------------------------------------------------------------------

\* The arrays implement the set: after any sequence of arrivals, recoveries
\* and drops the list holds the numbers still missing, and the ACK it gives
\* never passes one.
RcvSet == INSTANCE LossSet WITH first <- rcvFirst, flight <- rcvFlight,
                                lost <- Covered(rcvList), call <- rcvCall
RcvListIsSet == RcvSet!LossSpec

\* A range is found by its first number alone: it is in the cell its distance
\* from the head says, and the links visit the ranges in order, apart, both
\* ways.
RcvNodesInPlace(l) ==
    /\ (l.head = Nil \/ l.length = 0) <=> Occupied(l) = {}
    /\ \A c \in Occupied(l) :
        /\ RcvCell(l, l.data1[c]) = c
        /\ LET later == {d \in Occupied(l) : Seqcmp(l.data1[d], l.data1[c]) > 0}
               n == l.next[c]
           IN  IF later = {} THEN n = Nil /\ l.tail = c
               ELSE /\ n \in later /\ l.prior[n] = c
                    /\ \A d \in later : Seqcmp(l.data1[n], l.data1[d]) <= 0
                    /\ Seqcmp(End(l, c), l.data1[n]) < 0

\* After any sequence of calls m_iLength, which decides where the ACK comes
\* from, counts the numbers, and every range is found.
RcvListWellFormed == LengthExact(rcvList) /\ RcvNodesInPlace(rcvList)

\* "Remove all packets between seqno1 and seqno2" (list.h:137), in the order
\* of CSeqNo.
RangeRemoved ==
    [][\A i, j \in 0 .. Window :
          i <= j /\ rcvCall' = <<"remove", RcvNumber(i), RcvNumber(j)>>
              => Span(rcvFirst, i, j) \cap Covered(rcvList)' = {}]_rcvLossVars
=============================================================================
