------------------------------- MODULE Message -------------------------------
(***************************************************************************)
(* One direction of a connected UDT message socket (SOCK_DGRAM): messages  *)
(* of several packets, their life time (TTL) and order option, drop        *)
(* requests, and reading from the ring of the receiver.  A sends, B        *)
(* receives; every handler is atomic here, since Transfer splits them.     *)
(* Sequence numbers and blocks count from 1.  A's buffer pointer           *)
(* m_pFirstBlock is at block sndLastAck: both advance together.            *)
(***************************************************************************)
EXTENDS RcvBuffer

CONSTANTS MaxBlocks,     \* bound: blocks the application writes
          SndBufSize,    \* m_iSndBufSize, in blocks
          MessageSizes,  \* bound: how many blocks a message has
          MaxMessages,   \* bound: messages it writes
          MaxSeqNo,      \* bound: sequence numbers A gives
          MaxAstray,     \* bound: steps of A once it has gone astray
          StaleRuns,     \* bound: unwritten blocks A takes for one message
          Options,       \* bound: the order and life time options it uses
          RingStarts     \* bound: where in B's ring earlier messages ended

ASSUME MessageAssumption ==
    /\ MaxBlocks \in Nat /\ SndBufSize \in Nat \ {0}
    /\ MessageSizes \subseteq Nat \ {0}
    /\ MaxMessages \in Nat /\ MaxSeqNo \in Nat /\ MaxAstray \in Nat
    /\ StaleRuns \subseteq Nat \ {0}
    /\ Options \subseteq [order : BOOLEAN, ttl : BOOLEAN]
    /\ RingStarts \subseteq Positions

VARIABLES
    written,          \* messages written: blocks, order, ttl
    sndNext,          \* m_pCurrBlock: next block to send for the first time
    sndCurrSeqNo,
    sndLastAck,       \* m_iSndLastAck and m_iSndLastDataAck
    flowWindow, sndLoss,
    broken,           \* A took B for an attacker
    rcvCurrSeqNo, rcvLastAck, rcvLoss,
    buf,              \* B's CRcvBuffer
    overrun,          \* B's ring was acknowledged beyond its size
    read,             \* messages read, as sequences of blocks
    net,              \* messages sent: any may arrive never, late or often
    astray            \* 0, or steps made past Numbered or past an overrun

sndVars == <<written, sndNext, sndCurrSeqNo, sndLastAck, flowWindow, sndLoss, broken>>
rcvVars == <<rcvCurrSeqNo, rcvLastAck, rcvLoss, buf, overrun, read>>
vars == <<sndVars, rcvVars, net, astray>>

Data(seq, block) == [type |-> "data", seq |-> seq, block |-> block]
Ack(ack, wnd) == [type |-> "ack", ack |-> ack, wnd |-> wnd]
Nak(lo, hi) == [type |-> "nak", lo |-> lo, hi |-> hi]
Drop(msg, lo, hi) == [type |-> "drop", msg |-> msg, lo |-> lo, hi |-> hi]

Larger(a, b) == IF a < b THEN b ELSE a
Smallest(S) == CHOOSE s \in S : \A t \in S : s <= t

Init ==
    /\ written = <<>> /\ sndNext = 1 /\ sndCurrSeqNo = 0 /\ sndLastAck = 1
    /\ flowWindow = RcvBufSize /\ sndLoss = {} /\ broken = FALSE
    /\ rcvCurrSeqNo = 0 /\ rcvLastAck = 1 /\ rcvLoss = {}
    /\ \E p \in RingStarts : buf = EmptyBuffer(p)
    /\ overrun = FALSE /\ read = <<>> /\ net = {} /\ astray = 0

-----------------------------------------------------------------------------
(* Messages and blocks.                                                    *)

SizeOf(k) == Len(written[k].blocks)
FirstOf(k) == written[k].blocks[1]
LastOf(k) == written[k].blocks[SizeOf(k)]

\* One more than the last block written.
SndEnd == IF written = <<>> THEN 1 ELSE LastOf(Len(written)) + 1
CurrBufSize == SndEnd - sndLastAck

MessageOf(block) ==
    CHOOSE k \in DOMAIN written : FirstOf(k) <= block /\ block <= LastOf(k)

\* The boundary bits addBuffer gives a block, and the unit made of its packet.
Boundary(block) ==
    LET k == MessageOf(block)
    IN  (IF block = FirstOf(k) THEN First ELSE 0)
        + (IF block = LastOf(k) THEN Last ELSE 0)

UnitOf(block) ==
    [flag |-> Good, msg |-> MessageOf(block), boundary |-> Boundary(block),
     order |-> written[MessageOf(block)].order, block |-> block]

\* A block gets the sequence number it has here, until Expire skips numbers.
Numbered == sndNext = sndCurrSeqNo + 1

\* A block nothing was written to: of its packet m_iMsgNo is 0.
UnwrittenUnit ==
    [flag |-> Good, msg |-> 0, boundary |-> Middle, order |-> FALSE, block |-> 0]

PacketUnit(block) == IF block = 0 THEN UnwrittenUnit ELSE UnitOf(block)

-----------------------------------------------------------------------------
(* A.                                                                      *)

AppSendMsg ==
    \E n \in MessageSizes, option \in Options :
        /\ n <= SndBufSize - CurrBufSize
        /\ SndEnd + n - 1 <= MaxBlocks /\ Len(written) < MaxMessages
        /\ written' = Append(written,
              [blocks |-> [i \in 1 .. n |-> SndEnd + i - 1],
               order |-> option.order, ttl |-> option.ttl])
        /\ UNCHANGED <<sndNext, sndCurrSeqNo, sndLastAck, flowWindow, sndLoss,
                       broken, rcvVars, net>>

SendNew ==
    /\ sndLoss = {}
    /\ flowWindow >= sndCurrSeqNo + 2 - sndLastAck
    /\ sndNext < SndEnd /\ sndCurrSeqNo < MaxSeqNo
    /\ net' = net \cup {Data(sndCurrSeqNo + 1, sndNext)}
    /\ sndNext' = sndNext + 1
    /\ sndCurrSeqNo' = sndCurrSeqNo + 1
    /\ UNCHANGED <<written, sndLastAck, flowWindow, sndLoss, broken, rcvVars>>

\* The first lost number; its block is as far from m_pFirstBlock as it is from
\* the last acknowledgement, and not expired.
Retransmit ==
    /\ sndLoss # {} /\ Smallest(sndLoss) < SndEnd
    /\ net' = net \cup {Data(Smallest(sndLoss), Smallest(sndLoss))}
    /\ sndLoss' = sndLoss \ {Smallest(sndLoss)}
    /\ UNCHANGED <<written, sndNext, sndCurrSeqNo, sndLastAck, flowWindow,
                   broken, rcvVars>>

\* Variant: the numbers of the drop request are not skipped.
CurrSeqNoKept(hi) == sndCurrSeqNo

CurrSeqNoAfter(hi) == Larger(sndCurrSeqNo, hi + 1)

\* seqpair[1] = incseq(seqpair[0], msglen).
DropEnd(seq) == LastOf(MessageOf(seq)) + 1

\* packData for a lost number of an expired message.
Expire ==
    /\ sndLoss # {} /\ Smallest(sndLoss) < SndEnd
    /\ LET seq == Smallest(sndLoss)
           k == MessageOf(seq)
           hi == DropEnd(seq)
       IN  /\ written[k].ttl
           /\ CurrSeqNoAfter(hi) <= MaxSeqNo
           /\ net' = net \cup {Drop(k, seq, hi)}
           /\ sndLoss' = {s \in sndLoss : s > hi}
           /\ sndCurrSeqNo' = CurrSeqNoAfter(hi)
           /\ sndNext' = IF sndNext \in (seq + 1) .. LastOf(k)
                         THEN LastOf(k) + 1 ELSE sndNext
    /\ UNCHANGED <<written, sndLastAck, flowWindow, broken, rcvVars>>

\* A number that was skipped may be lost like any other.  Its block is beyond
\* m_pLastBlock, where readData finds what is left of a released block, or one
\* that was never written, whose length and life time are whatever memory holds.
\* (increase() never moves the blocks beyond: they are enough from the start.)
Leftover == {block \in 0 .. (SndEnd - 1) : block < sndLastAck}

RetransmitBeyond ==
    /\ sndLoss # {} /\ Smallest(sndLoss) >= SndEnd
    /\ \/ UNCHANGED net
       \/ \E block \in Leftover : net' = net \cup {Data(Smallest(sndLoss), block)}
    /\ sndLoss' = sndLoss \ {Smallest(sndLoss)}
    /\ UNCHANGED <<written, sndNext, sndCurrSeqNo, sndLastAck, flowWindow,
                   broken, rcvVars>>

\* The message number of a block that is left over, and how many blocks from it
\* on have that number.
StaleMessage(block) == IF block = 0 THEN 0 ELSE MessageOf(block)
StaleRun(block) ==
    IF block = 0 THEN StaleRuns
    ELSE IF written[MessageOf(block)].ttl THEN {LastOf(MessageOf(block)) - block + 1}
    ELSE {}

ExpireBeyond ==
    /\ sndLoss # {} /\ Smallest(sndLoss) >= SndEnd
    /\ \E block \in Leftover : \E n \in StaleRun(block) :
        LET seq == Smallest(sndLoss)
            hi == seq + n
        IN  /\ CurrSeqNoAfter(hi) <= MaxSeqNo
            /\ net' = net \cup {Drop(StaleMessage(block), seq, hi)}
            /\ sndLoss' = {s \in sndLoss : s > hi}
            /\ sndCurrSeqNo' = CurrSeqNoAfter(hi)
            /\ sndNext' = IF block # 0 /\ sndNext \in (block + 1) .. (block + n - 1)
                          THEN block + n ELSE sndNext
    /\ UNCHANGED <<written, sndLastAck, flowWindow, broken, rcvVars>>

RecvAck(m) ==
    /\ m.type = "ack"
    /\ \/ /\ m.ack > sndCurrSeqNo + 1
          /\ broken' = TRUE
          /\ UNCHANGED <<flowWindow, sndLastAck, sndLoss>>
       \/ /\ m.ack <= sndCurrSeqNo + 1 /\ m.ack >= sndLastAck
          /\ flowWindow' = m.wnd
          /\ sndLastAck' = m.ack
          /\ sndLoss' = {s \in sndLoss : s >= m.ack}
          /\ UNCHANGED broken
    /\ UNCHANGED <<written, sndNext, sndCurrSeqNo, rcvVars, net>>

RecvNak(m) ==
    /\ m.type = "nak"
    /\ \/ /\ m.hi > sndCurrSeqNo /\ (m.lo < m.hi \/ m.lo >= sndLastAck)
          /\ broken' = TRUE
          /\ UNCHANGED sndLoss
       \/ /\ m.hi <= sndCurrSeqNo
          /\ sndLoss' = sndLoss \cup (Larger(m.lo, sndLastAck) .. m.hi)
          /\ UNCHANGED broken
    /\ UNCHANGED <<written, sndNext, sndCurrSeqNo, sndLastAck, flowWindow,
                   rcvVars, net>>

ExpTimer ==
    /\ CurrBufSize > 0 /\ sndLoss = {}
    /\ sndLoss' = sndLastAck .. sndCurrSeqNo
    /\ UNCHANGED <<written, sndNext, sndCurrSeqNo, sndLastAck, flowWindow,
                   broken, rcvVars, net>>

-----------------------------------------------------------------------------
(* B.                                                                      *)

\* Variant: a retransmission stays lost.
LossOfGap(seq) == rcvLoss \cup ((rcvCurrSeqNo + 1) .. (seq - 1))

LossAfter(seq) ==
    IF seq > rcvCurrSeqNo
    THEN rcvLoss \cup ((rcvCurrSeqNo + 1) .. (seq - 1)) ELSE rcvLoss \ {seq}

RecvData(m) ==
    /\ m.type = "data"
    /\ m.seq >= rcvLastAck /\ m.seq - rcvLastAck < AvailBufSize(buf)
    /\ ~Occupied(buf, At(buf.ack, m.seq - rcvLastAck))
    /\ buf' = AddData(buf, PacketUnit(m.block), m.seq - rcvLastAck)
    /\ rcvLoss' = LossAfter(m.seq)
    /\ rcvCurrSeqNo' = Larger(rcvCurrSeqNo, m.seq)
    /\ net' = IF m.seq > rcvCurrSeqNo + 1
              THEN net \cup {Nak(rcvCurrSeqNo + 1, m.seq - 1)} ELSE net
    /\ UNCHANGED <<sndVars, rcvLastAck, overrun, read>>

RecvDrop(m) ==
    /\ m.type = "drop"
    /\ buf' = DropMsg(buf, m.msg)
    /\ rcvLoss' = rcvLoss \ (m.lo .. m.hi)
    /\ rcvCurrSeqNo' = IF m.lo <= rcvCurrSeqNo + 1
                       THEN Larger(rcvCurrSeqNo, m.hi) ELSE rcvCurrSeqNo
    /\ UNCHANGED <<sndVars, rcvLastAck, overrun, read, net>>

\* Variant: losses do not hold the acknowledgement back.
AckNoOfLargest == rcvCurrSeqNo + 1

AckNo == IF rcvLoss = {} THEN rcvCurrSeqNo + 1 ELSE Smallest(rcvLoss)

\* sendCtrl(2) where something new is acknowledged; repeated ACKs are those of
\* the network.
AckTimer ==
    LET ack == AckNo
        n == ack - rcvLastAck
    IN  /\ n > 0
        /\ rcvLastAck' = ack
        /\ buf' = AckData(buf, n)
        /\ overrun' = (RcvDataSize(buf) + n >= RcvBufSize)
        /\ net' = net \cup {Ack(ack, Larger(AvailBufSize(buf'), 2))}
        /\ UNCHANGED <<sndVars, rcvCurrSeqNo, rcvLoss, read>>

\* recvmsg: readMsg, then in blocking mode getRcvMsgNum.
AppRecvMsg ==
    LET b == Scanned(buf) IN
    /\ \/ \E f \in Found(b) :
            /\ buf' \in {ReadMsg(b, f), Scanned(ReadMsg(b, f))}
            /\ read' = Append(read, BlocksOf(b, f))
       \/ /\ Found(b) = {}
          /\ buf' = b
          /\ UNCHANGED read
    /\ UNCHANGED <<sndVars, rcvCurrSeqNo, rcvLastAck, rcvLoss, overrun, net>>

StepOfA ==
    \/ AppSendMsg \/ SendNew \/ Retransmit \/ Expire \/ ExpTimer
    \/ RetransmitBeyond \/ ExpireBeyond
    \/ \E m \in net : RecvAck(m) \/ RecvNak(m)

StepOfB ==
    \/ AckTimer \/ AppRecvMsg
    \/ \E m \in net : RecvData(m) \/ RecvDrop(m)

\* Past Numbered, or past an overrun, blocks are no longer where their numbers
\* say: what the ends do then is counted.
Next ==
    /\ ~broken
    /\ \/ /\ StepOfA
          /\ IF astray > 0 \/ ~Numbered \/ overrun
             THEN astray < MaxAstray /\ astray' = astray + 1
             ELSE UNCHANGED astray
       \/ /\ StepOfB
          /\ astray' = IF overrun /\ astray = 0 THEN 1 ELSE astray

Spec == Init /\ [][Next]_vars

-----------------------------------------------------------------------------
(* Properties.                                                             *)

\* Messages are read whole, at most once, and none after a later one that is
\* in order, whatever is dropped, repeated or read ahead of the
\* acknowledgements (CRcvBuffer::scanMsg, readMsg, dropMsg): as long as blocks
\* have the numbers they were given, and the ring is not overrun.
MESSAGES == INSTANCE Messages
MessagesRefined ==
    MESSAGES!MessagesInit /\ [][MESSAGES!MessagesNext \/ astray' > 0]_<<written, read>>

\* "this should not happen: attack or bug" (core.cpp:2000, 2161) does not
\* happen, also when drop requests have moved the numbers of both ends, blocks
\* that were never written are sent for them, or B's ring is overrun.
HonestPeerTrusted == ~broken

Stored(block) == \E p \in Positions : buf.unit[p].block = block
Delivered(block) == \E i \in DOMAIN read : \E j \in DOMAIN read[i] : read[i][j] = block
DropRequested(block) == \E m \in net : m.type = "drop" /\ block \in m.lo .. m.hi

\* A block A has released is in B's ring or read, unless a drop request named
\* its number or a part of its message.
ReleasedIsKept ==
    astray = 0 => \A block \in 1 .. (sndLastAck - 1) :
        \/ block >= SndEnd \/ Stored(block) \/ Delivered(block)
        \/ \E b \in FirstOf(MessageOf(block)) .. LastOf(MessageOf(block)) :
               DropRequested(b)

\* Between acknowledged and largest, as far as the ring goes, B's loss list is
\* what is neither stored nor dropped, and each unit is at the place of its
\* number.
HolesAreLost ==
    astray = 0 /\ ~overrun =>
        \A seq \in rcvLastAck .. rcvCurrSeqNo :
            LET unit == buf.unit[At(buf.ack, seq - rcvLastAck)] IN
            seq - rcvLastAck < AvailBufSize(buf) =>
                /\ unit # NoUnit => unit.block = seq /\ seq \notin rcvLoss
                /\ unit = NoUnit => seq \in rcvLoss \/ DropRequested(seq)

\* t-msg.htm: the default life time "is infinite, which means that the message
\* will always be delivered": what A has released of such a message B has.  (Past
\* Numbered A may send a block that it has released.)
InfiniteIsDelivered ==
    astray = 0 => \A k \in DOMAIN written :
        ~written[k].ttl /\ LastOf(k) < sndLastAck =>
            \A block \in FirstOf(k) .. LastOf(k) : Stored(block) \/ Delivered(block)
=============================================================================
