----------------------------- MODULE SndLossList -----------------------------
(***************************************************************************)
(* CSndLossList (list.cpp): the sender's losses as a linked list of ranges *)
(* in static arrays.  A range sits in the cell its first number is away    *)
(* from the head's, modulo the size, and m_iLastInsertPos caches where the *)
(* last one went.  Every method holds m_ListLock, so each is one step.     *)
(*                                                                         *)
(* The code leaves the m_piNext of a cell that holds no range as it was.   *)
(* It is Nil here, which makes no difference unless the code followed it:  *)
(* that is what SndNodesInPlace and CachedPositionLive exclude.            *)
(*                                                                         *)
(* The callers are those of core.cpp: a NAK or an expired timer inserts a  *)
(* stretch of what was sent, an ACK and the drop of an expired message     *)
(* remove all numbers up to one, packData takes the smallest.              *)
(***************************************************************************)
EXTENDS LossRanges

CONSTANT SndSize    \* m_iSize, twice the flow window

ASSUME SndSizeAssumption == SndSize \in Nat /\ Window <= SndSize

VARIABLES sndFirst,   \* m_iSndLastDataAck
          sndFlight,  \* how many numbers are sent, or skipped, and not acknowledged
          sndList,    \* the fields of the class, its arrays as functions
          sndCall     \* the last call: its name, arguments and answer

sndLossVars == <<sndFirst, sndFlight, sndList, sndCall>>

SndCells == 0 .. (SndSize - 1)
SndLinks == SndCells \cup {Nil}
SndLists ==
    [data1 : [SndCells -> Int], data2 : [SndCells -> Int], next : [SndCells -> SndLinks],
     head : SndLinks, length : Int, last : SndLinks]

EmptySndList ==
    [data1 |-> [c \in SndCells |-> Nil], data2 |-> [c \in SndCells |-> Nil],
     next |-> [c \in SndCells |-> Nil],
     head |-> Nil, length |-> 0, last |-> Nil]

SndCell(l, seq) == (l.head + Seqoff(l.data1[l.head], seq) + SndSize) % SndSize

-----------------------------------------------------------------------------
(* insert.                                                                 *)

\* From c to the next range, if that starts before seq.
Ahead(l, seq) ==
    [c \in SndCells |->
       LET n == l.next[c]
       IN  IF n # Nil /\ Seqcmp(l.data1[n], seq) < 0 THEN n ELSE c]

\* Follows the links from c to the last range that starts before seq.
Forward(l, c, seq) == Repeat(Ahead(l, seq), c, SndSize)

\* The search for it starts at the cached position where that helps.
Prior(l, seq) ==
    Forward(l, IF l.last # Nil /\ Seqcmp(l.data1[l.last], seq) < 0
               THEN l.last ELSE l.head, seq)

\* The numbers of range i that range c covers already.
Overlap(l, c, i) ==
    IF Seqcmp(l.data2[c], l.data1[i]) < 0 THEN 0
    ELSE Seqlen(l.data1[i], IF Seqcmp(End(l, i), l.data2[c]) > 0
                            THEN l.data2[c] ELSE End(l, i))

\* Range i becomes part of range c before it.
Absorbed(l, c, i) ==
    [l EXCEPT !.length = @ - Overlap(l, c, i),
              !.data2[c] = IF Seqcmp(End(l, i), @) > 0 THEN End(l, i) ELSE @,
              !.data1[i] = Nil, !.data2[i] = Nil,
              !.next[c] = l.next[i], !.next[i] = Nil]

\* Range c swallows the next one if it reaches it.
Swallow(c) ==
    [l \in SndLists |->
       LET i == l.next[c]
       IN  IF /\ i # Nil /\ l.data2[c] # Nil
              /\ Seqcmp(l.data1[i], Incseq(l.data2[c])) <= 0
           THEN Absorbed(l, c, i) ELSE l]

Coalesced(l, c) == Repeat(Swallow(c), l, SndSize)

\* Variant: a longer range is not merged with those it reaches.
ExtendedOnly(l, c, hi) ==
    IF Seqcmp(End(l, c), hi) >= 0 THEN l
    ELSE [l EXCEPT !.length = @ + Seqlen(End(l, c), hi) - 1, !.data2[c] = hi]

\* Range c is made to reach hi, unless it does.
Extended(l, c, hi) ==
    IF Seqcmp(End(l, c), hi) >= 0 THEN l
    ELSE Coalesced([l EXCEPT !.length = @ + Seqlen(End(l, c), hi) - 1,
                             !.data2[c] = hi], c)

\* A new range in cell c, and the cached position on it.
AddedRange(l, c, lo, hi) ==
    [WithRange(l, c, lo, hi) EXCEPT !.length = @ + Seqlen(lo, hi), !.last = c]

SndInsert(l, lo, hi) ==
    IF l.length = 0
    THEN [AddedRange(l, 0, lo, hi) EXCEPT !.head = 0, !.next[0] = Nil]
    ELSE LET c == SndCell(l, lo)
             p == Prior(l, lo)
         IN  IF Seqoff(l.data1[l.head], lo) < 0
             THEN Coalesced([AddedRange(l, c, lo, hi) EXCEPT !.head = c,
                                                             !.next[c] = l.head], c)
             ELSE IF l.data1[c] = lo THEN Extended([l EXCEPT !.last = c], c, hi)
             ELSE IF Seqcmp(End(l, p), lo) < 0
             THEN Coalesced([AddedRange(l, c, lo, hi) EXCEPT !.next[c] = l.next[p],
                                                             !.next[p] = c], c)
             ELSE Extended([l EXCEPT !.last = p], p, hi)

-----------------------------------------------------------------------------
(* getLostSeq and remove.                                                  *)

Forgotten(l, c) == IF l.last = c THEN Nil ELSE l.last

\* Cell c is freed, and the list n numbers shorter.
Emptied(l, c, n) ==
    [l EXCEPT !.data1[c] = Nil, !.data2[c] = Nil, !.next[c] = Nil, !.length = @ - n,
              !.last = Forgotten(l, c)]

\* The head gives up its first number and moves on.
WithoutFirst(l) ==
    LET h == l.head
        c == (h + 1) % SndSize
    IN  IF l.data2[h] = Nil THEN [Emptied(l, h, 1) EXCEPT !.head = l.next[h]]
        ELSE [WithRange(Emptied(l, h, 1), c, Incseq(l.data1[h]), l.data2[h])
                 EXCEPT !.next[c] = l.next[h], !.head = c]

\* The range in e.c, before the head, is taken off the list.
Clear ==
    [e \in [l : SndLists, c : SndLinks] |->
       IF e.c = e.l.head THEN e
       ELSE [l |-> Emptied(e.l, e.c, Seqlen(e.l.data1[e.c], End(e.l, e.c))),
             c |-> e.l.next[e.c]]]

\* All from c up to the head are.
Cleared(l, c) == Repeat(Clear, [l |-> l, c |-> c], SndSize).l

\* Range c is cut after seq, where it goes on, and its rest becomes the head.
CutAfter(l, c, seq) ==
    LET r == (SndCell(l, seq) + 1) % SndSize IN
    IF Seqcmp(End(l, c), seq) <= 0 THEN [l EXCEPT !.head = l.next[c]]
    ELSE [WithRange(l, r, Incseq(seq), l.data2[c])
             EXCEPT !.data2[c] = IF l.data1[c] = seq THEN Nil ELSE seq,
                    !.next[r] = l.next[c], !.next[c] = r, !.head = r]

\* Variant: nothing is removed unless there is a number below seq.
SndRemoveBelow(l, seq) ==
    IF l.length = 0 \/ Seqoff(l.data1[l.head], seq) <= 0 THEN l
    ELSE Cleared(CutAfter(l, Forward(l, l.head, seq), seq), l.head)

\* remove(seqno): all numbers up to seq.
SndRemove(l, seq) ==
    IF l.length = 0 \/ Seqoff(l.data1[l.head], seq) < 0 THEN l
    ELSE IF l.data1[l.head] = seq THEN WithoutFirst(l)
    ELSE LET c == IF l.data1[SndCell(l, seq)] = seq THEN SndCell(l, seq)
                  ELSE Forward(l, l.head, seq)
         IN  Cleared(CutAfter(l, c, seq), l.head)

-----------------------------------------------------------------------------

SndLossInit ==
    /\ sndFirst \in SeqNos /\ sndFlight = 0
    /\ sndList = EmptySndList /\ sndCall = <<"create">>

SndNumber(n) == Number(sndFirst, n)

\* packData: a new packet.
SendPacket ==
    /\ sndFlight < Window
    /\ sndFlight' = sndFlight + 1
    /\ sndCall' = <<"grow", 1>>
    /\ UNCHANGED <<sndFirst, sndList>>

\* processCtrl on a NAK, checkTimers.
ReportLoss(i, j) ==
    /\ i <= j /\ j < sndFlight
    /\ sndList' = SndInsert(sndList, SndNumber(i), SndNumber(j))
    /\ sndCall' = <<"insert", SndNumber(i), SndNumber(j)>>
    /\ UNCHANGED <<sndFirst, sndFlight>>

\* packData: the head of the list is sent again.
Retransmit ==
    /\ sndList.length # 0
    /\ sndCall' = <<"take", sndList.data1[sndList.head]>>
    /\ sndList' = WithoutFirst(sndList)
    /\ UNCHANGED <<sndFirst, sndFlight>>

\* packData: a message has expired, its losses and older ones are forgotten.
\* Its end may be beyond what was sent: then that is skipped, and one more.
DropMessage(j) ==
    /\ j + 2 <= Window
    /\ sndList' = SndRemove(sndList, SndNumber(j))
    /\ sndFlight' = IF j + 2 > sndFlight THEN j + 2 ELSE sndFlight
    /\ sndCall' = <<"remove", sndFirst, SndNumber(j)>>
    /\ UNCHANGED sndFirst

\* processCtrl on an ACK of n packets.
TakeAck(n) ==
    /\ n <= sndFlight
    /\ sndFirst' = SndNumber(n) /\ sndFlight' = sndFlight - n
    /\ sndList' = SndRemove(sndList, Decseq(SndNumber(n)))
    /\ sndCall' = <<"slide", n>>

SndLossNext ==
    \/ SendPacket \/ Retransmit
    \/ \E i, j \in 0 .. Window : ReportLoss(i, j)
    \/ \E j \in 0 .. Window : DropMessage(j)
    \/ \E n \in 1 .. Window : TakeAck(n)

SndLossSpec == SndLossInit /\ [][SndLossNext]_sndLossVars

-----------------------------------------------------------------------------

\* The arrays implement the set: after any sequence of calls the list holds
\* the numbers reported and not since acknowledged, dropped or taken, and
\* getLostSeq returns the smallest.
SndSet == INSTANCE LossSet WITH first <- sndFirst, flight <- sndFlight,
                                lost <- Covered(sndList), call <- sndCall
SndListIsSet == SndSet!LossSpec

\* A range is found by its first number alone: it is in the cell its distance
\* from the head says, and the links visit the ranges in order, apart.
SndNodesInPlace(l) ==
    /\ (l.head = Nil \/ l.length = 0) <=> Occupied(l) = {}
    /\ \A c \in Occupied(l) :
        /\ SndCell(l, l.data1[c]) = c
        /\ LET later == {d \in Occupied(l) : Seqcmp(l.data1[d], l.data1[c]) > 0}
           IN  IF later = {} THEN l.next[c] = Nil
               ELSE /\ l.next[c] \in later
                    /\ \A d \in later : Seqcmp(l.data1[l.next[c]], l.data1[d]) <= 0
                    /\ Seqcmp(End(l, c), l.data1[l.next[c]]) < 0

\* The search in insert starts from the cached position, so that is never the
\* cell of a range since removed or merged.
CachedPositionLive(l) == l.last # Nil => l.last \in Occupied(l)

\* After any sequence of calls m_iLength, which decides whether anything is
\* sent again and whether the timer reinserts, counts the numbers and not the
\* ranges, every range is found, and the cached position is one.
SndListWellFormed ==
    LengthExact(sndList) /\ SndNodesInPlace(sndList) /\ CachedPositionLive(sndList)
=============================================================================
