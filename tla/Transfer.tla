------------------------------ MODULE Transfer ------------------------------
(***************************************************************************)
(* One direction of a connected UDT stream: the sending half of a CUDT     *)
(* (A), the receiving half of its peer (B) and the datagram network        *)
(* between them.                                                           *)
(*                                                                         *)
(* A runs three threads: the application in CUDT::send, the CSndQueue      *)
(* worker (pop, packData, sendto) and the CRcvQueue worker (processCtrl,   *)
(* checkTimers).  A handler is one action where a lock or a single thread  *)
(* makes it atomic and several where another thread can come in between.   *)
(*                                                                         *)
(* Sequence numbers are unwrapped and counted from the initial one, which  *)
(* is 1 here; module SeqNo justifies this for every pair of numbers less   *)
(* than m_iSeqNoTH apart.  A data packet carries one whole block.          *)
(***************************************************************************)
EXTENDS Integers, Sequences

CONSTANTS MaxBlocks,          \* bound: blocks the application writes
          SndBufSize,         \* m_iSndBufSize, in blocks
          RcvBufSize,         \* m_iRcvBufSize, in packets
          CongestionWindow,   \* m_dCongestionWindow, held constant
          LightAcks           \* whether bursts pass m_iSelfClockInterval packets

ASSUME TransferAssumption ==
    /\ MaxBlocks \in Nat
    /\ SndBufSize \in Nat \ {0}
    /\ RcvBufSize \in Nat \ {0, 1}
    /\ CongestionWindow \in Nat \ {0}
    /\ LightAcks \in BOOLEAN

VARIABLES
    \* CSndBuffer of A: blocks are numbered as they are written, from 1
    sndFirst,         \* m_pFirstBlock: oldest block not acknowledged
    sndNext,          \* m_pCurrBlock: next block to send for the first time
    sndEnd,           \* m_pLastBlock: number the next block written will get
    \* sequence numbers and window of A
    sndCurrSeqNo, sndLastAck, sndLastDataAck, flowWindow,
    sndLoss,          \* CSndLossList, as the set of its sequence numbers
    onList,           \* A is on CSndUList
    broken,           \* m_bBroken with its cause: "no", "timeout", "insecure"
    \* threads of A
    sndPc,            \* CSndQueue worker: "pop", "lost", "new", "sendto"
    sndReg,           \* its local: the lost number, or the window it read
    sndPkt,           \* its local: the packet packed, not yet sent
    rcvPc,            \* CRcvQueue worker: "idle", "lite", "ack", "release",
                      \* "update"
    ackReg,           \* its local: the ACK number being processed
    appPc,            \* application: "idle", "update"
    \* B
    rcvCurrSeqNo, rcvLastAck, rcvLastAckAck,
    rcvLoss,          \* CRcvLossList, as the set of its sequence numbers
    rcvBuf,           \* CRcvBuffer: sequence number |-> block, while stored
    received,         \* blocks the application of B has read
    net               \* messages sent: any may arrive never, late or often

bufVars == <<sndFirst, sndNext, sndEnd>>
wndVars == <<sndLastAck, flowWindow>>
workerVars == <<sndPc, sndReg, sndPkt>>
handlerVars == <<rcvPc, ackReg>>
sndVars == <<bufVars, sndCurrSeqNo, wndVars, sndLastDataAck, sndLoss, onList,
             broken, workerVars, handlerVars, appPc>>
rcvVars == <<rcvCurrSeqNo, rcvLastAck, rcvLastAckAck, rcvLoss, rcvBuf, received>>
vars == <<sndVars, rcvVars, net>>

-----------------------------------------------------------------------------
(* Packets.                                                                *)

Data(seq, blk) == [type |-> "data", seq |-> seq, blk |-> blk]
FullAck(ack, wnd) == [type |-> "ack", ack |-> ack, wnd |-> wnd]
LiteAck(ack) == [type |-> "lite", ack |-> ack]
\* ACK2 names an ACK by its sub-sequence number; the receiver looks the data
\* ACK up in its CACKWindow.  The message carries what the lookup returns.
Ack2(ack) == [type |-> "ack2", ack |-> ack]
Nak(lo, hi) == [type |-> "nak", lo |-> lo, hi |-> hi]

Smaller(a, b) == IF a < b THEN a ELSE b
Larger(a, b) == IF a < b THEN b ELSE a

InitialFlowWindow == RcvBufSize
NoPkt == Data(0, 0)

Init ==
    /\ sndFirst = 1 /\ sndNext = 1 /\ sndEnd = 1
    /\ sndCurrSeqNo = 0 /\ sndLastAck = 1 /\ sndLastDataAck = 1
    /\ flowWindow = InitialFlowWindow
    /\ sndLoss = {} /\ onList = FALSE /\ broken = "no"
    /\ sndPc = "pop" /\ sndReg = 0 /\ sndPkt = NoPkt
    /\ rcvPc = "idle" /\ ackReg = 0 /\ appPc = "idle"
    /\ rcvCurrSeqNo = 0 /\ rcvLastAck = 1 /\ rcvLastAckAck = 1
    /\ rcvLoss = {} /\ rcvBuf = [s \in {} |-> 0] /\ received = <<>>
    /\ net = {}

-----------------------------------------------------------------------------
(* CSndUList.  pop holds m_ListLock until packData has returned, and update *)
(* needs that lock.                                                        *)

ListLockFree == sndPc \notin {"lost", "new"}

\* Variant: pop forgets a socket that still has packets.
NotReinserted == FALSE
\* After a packet pop inserts the socket again, to be popped at its next time.
Reinserted == TRUE

-----------------------------------------------------------------------------
(* The application of A, in CUDT::send.                                    *)

CurrBufSize == sndEnd - sndFirst

AppSend ==
    /\ appPc = "idle" /\ broken = "no"
    /\ sndEnd <= MaxBlocks
    /\ CurrBufSize < SndBufSize
    /\ sndEnd' = sndEnd + 1
    /\ appPc' = "update"
    /\ UNCHANGED <<sndFirst, sndNext, sndCurrSeqNo, wndVars, sndLastDataAck,
                   sndLoss, onList, broken, workerVars, handlerVars,
                   rcvVars, net>>

AppUpdate ==
    /\ appPc = "update" /\ ListLockFree
    /\ onList' = TRUE
    /\ appPc' = "idle"
    /\ UNCHANGED <<bufVars, sndCurrSeqNo, wndVars, sndLastDataAck, sndLoss,
                   broken, workerVars, handlerVars, rcvVars, net>>

-----------------------------------------------------------------------------
(* The CSndQueue worker of A: CSndUList::pop calling packData, then sendto. *)

\* The head of the loss list goes first; else the worker reads the window.
Pop ==
    /\ sndPc = "pop" /\ onList
    /\ onList' = FALSE
    /\ IF broken # "no" THEN UNCHANGED <<sndLoss, workerVars>>
       ELSE IF sndLoss # {}
       THEN \E seq \in sndLoss :
            /\ \A s \in sndLoss : seq <= s
            /\ sndReg' = seq
            /\ sndLoss' = sndLoss \ {seq}
            /\ sndPc' = "lost"
            /\ UNCHANGED sndPkt
       ELSE /\ sndReg' = Smaller(flowWindow, CongestionWindow)
            /\ sndPc' = "new"
            /\ UNCHANGED <<sndLoss, sndPkt>>
    /\ UNCHANGED <<bufVars, sndCurrSeqNo, wndVars, sndLastDataAck, broken,
                   handlerVars, appPc, rcvVars, net>>

\* Under m_AckLock: is the lost packet still in the sending buffer?
LostStillBuffered == sndReg >= sndLastDataAck

\* Variant: counts from the wrong acknowledgement, which a lite ACK advances.
LostBlockFromLastAck == sndFirst + (sndReg - sndLastAck)
LostBlock == sndFirst + (sndReg - sndLastDataAck)

PackLost ==
    /\ sndPc = "lost"
    /\ \/ /\ ~LostStillBuffered
          /\ sndPc' = "pop"
          /\ UNCHANGED <<sndPkt, onList>>
       \/ /\ LostStillBuffered
          /\ sndPkt' = Data(sndReg, LostBlock)
          /\ sndPc' = "sendto"
          /\ onList' = Reinserted
    /\ sndReg' = 0
    /\ UNCHANGED <<bufVars, sndCurrSeqNo, wndVars, sndLastDataAck, sndLoss,
                   broken, handlerVars, appPc, rcvVars, net>>

WindowOpen == sndReg >= (sndCurrSeqNo + 2) - sndLastAck

PackNew ==
    /\ sndPc = "new"
    /\ \/ /\ ~(WindowOpen /\ sndNext < sndEnd)
          /\ sndPc' = "pop"
          /\ UNCHANGED <<sndPkt, onList, sndNext, sndCurrSeqNo>>
       \/ /\ WindowOpen /\ sndNext < sndEnd
          /\ sndCurrSeqNo' = sndCurrSeqNo + 1
          /\ sndPkt' = Data(sndCurrSeqNo + 1, sndNext)
          /\ sndNext' = sndNext + 1
          /\ sndPc' = "sendto"
          /\ onList' = Reinserted
    /\ sndReg' = 0
    /\ UNCHANGED <<sndFirst, sndEnd, wndVars, sndLastDataAck, sndLoss,
                   broken, handlerVars, appPc, rcvVars, net>>

\* The packet points into the sending buffer and no lock is held: when its
\* block has been released meanwhile, a later write may have filled it again.
PacketContents ==
    {sndPkt.blk} \cup
        (IF sndPkt.blk < sndFirst THEN (sndPkt.blk + 1) .. (sndEnd - 1) ELSE {})

SendTo ==
    /\ sndPc = "sendto"
    /\ \E blk \in PacketContents : net' = net \cup {Data(sndPkt.seq, blk)}
    /\ sndPc' = "pop"
    /\ sndPkt' = NoPkt
    /\ UNCHANGED <<bufVars, sndCurrSeqNo, wndVars, sndLastDataAck, sndLoss,
                   onList, broken, sndReg, handlerVars, appPc, rcvVars>>

-----------------------------------------------------------------------------
(* The CRcvQueue worker of A: processCtrl and checkTimers.                 *)

Listening == rcvPc = "idle" /\ broken = "no"

RecvLiteAck(m) ==
    /\ Listening /\ m.type = "lite"
    /\ m.ack >= sndLastAck
    /\ flowWindow' = flowWindow - (m.ack - sndLastAck)
    /\ rcvPc' = "lite" /\ ackReg' = m.ack
    /\ UNCHANGED <<bufVars, sndCurrSeqNo, sndLastAck, sndLastDataAck, sndLoss,
                   onList, broken, workerVars, appPc, rcvVars, net>>

\* Variant: forgets that an ACK names the next number expected.
AckAtLeastNext(ack) == ack > sndCurrSeqNo
AckBeyondSent(ack) == ack > sndCurrSeqNo + 1

\* An ACK2 goes out at most once per SYN interval, or when the ACK repeats.
RecvAck(m) ==
    /\ Listening /\ m.type = "ack"
    /\ net' \in {net, net \cup {Ack2(m.ack)}}
    /\ \/ /\ AckBeyondSent(m.ack)
          /\ broken' = "insecure"
          /\ UNCHANGED <<flowWindow, handlerVars>>
       \/ /\ ~AckBeyondSent(m.ack) /\ m.ack >= sndLastAck
          /\ flowWindow' = m.wnd
          /\ rcvPc' = "ack" /\ ackReg' = m.ack
          /\ UNCHANGED broken
       \/ /\ ~AckBeyondSent(m.ack) /\ m.ack < sndLastAck
          /\ rcvPc' = "release" /\ ackReg' = m.ack
          /\ UNCHANGED <<broken, flowWindow>>
    /\ UNCHANGED <<bufVars, sndCurrSeqNo, sndLastAck, sndLastDataAck, sndLoss,
                   onList, workerVars, appPc, rcvVars>>

\* The window was set first, and packData may have read it in between.
SetLastAck ==
    /\ sndLastAck' = ackReg
    /\ \/ rcvPc = "ack" /\ rcvPc' = "release" /\ UNCHANGED ackReg
       \/ rcvPc = "lite" /\ rcvPc' = "idle" /\ ackReg' = 0
    /\ UNCHANGED <<bufVars, sndCurrSeqNo, flowWindow, sndLastDataAck, sndLoss,
                   onList, broken, workerVars, appPc, rcvVars, net>>

\* Variants: release what a lite ACK covered; keep the losses acknowledged.
ReleasedUpToLastAck == sndLastAck - sndLastDataAck
NoneForgotten == sndLoss
ReleasedBlocks == ackReg - sndLastDataAck
StillLost == {s \in sndLoss : s >= ackReg}

\* Under m_AckLock: release the acknowledged blocks and forget their losses.
AckRelease ==
    /\ rcvPc = "release"
    /\ \/ /\ ackReg <= sndLastDataAck
          /\ rcvPc' = "idle"
          /\ UNCHANGED <<sndFirst, sndLastDataAck, sndLoss>>
       \/ /\ ackReg > sndLastDataAck
          /\ sndFirst' = sndFirst + ReleasedBlocks
          /\ sndLastDataAck' = ackReg
          /\ sndLoss' = StillLost
          /\ rcvPc' = "update"
    /\ ackReg' = 0
    /\ UNCHANGED <<sndNext, sndEnd, sndCurrSeqNo, wndVars, onList, broken,
                   workerVars, appPc, rcvVars, net>>

\* m_pSndUList->update at the end of an ACK, a NAK or an expired timer.
HandlerUpdate ==
    /\ rcvPc = "update" /\ ListLockFree
    /\ onList' = TRUE
    /\ rcvPc' = "idle"
    /\ UNCHANGED <<bufVars, sndCurrSeqNo, wndVars, sndLastDataAck, sndLoss,
                   broken, workerVars, ackReg, appPc, rcvVars, net>>

NakLosses(m) == Larger(m.lo, sndLastAck) .. m.hi

\* The cases of a NAK: outside what was sent, or (clipped) inside.
RecvNak(m) ==
    /\ Listening /\ m.type = "nak"
    /\ \/ /\ m.hi > sndCurrSeqNo
          /\ m.lo < m.hi \/ m.lo >= sndLastAck
          /\ broken' = "insecure"
          /\ UNCHANGED <<sndLoss, rcvPc>>
       \/ /\ m.hi <= sndCurrSeqNo \/ (m.lo = m.hi /\ m.lo < sndLastAck)
          /\ sndLoss' = sndLoss \cup NakLosses(m)
          /\ rcvPc' = "update"
          /\ UNCHANGED broken
    /\ UNCHANGED <<bufVars, sndCurrSeqNo, wndVars, sndLastDataAck, onList,
                   workerVars, ackReg, appPc, rcvVars, net>>

\* checkTimers after a silence: everything unacknowledged counts as lost.
ExpTimer ==
    /\ Listening /\ CurrBufSize > 0
    /\ sndLoss' = IF sndLoss = {} THEN sndLastAck .. sndCurrSeqNo ELSE sndLoss
    /\ rcvPc' = "update"
    /\ UNCHANGED <<bufVars, sndCurrSeqNo, wndVars, sndLastDataAck, onList,
                   broken, workerVars, ackReg, appPc, rcvVars, net>>

\* checkTimers after 16 expirations without an answer: the peer is dead.
ExpBroken ==
    /\ Listening
    /\ broken' = "timeout"
    /\ rcvPc' = "update"
    /\ UNCHANGED <<bufVars, sndCurrSeqNo, wndVars, sndLastDataAck, sndLoss,
                   onList, workerVars, ackReg, appPc, rcvVars, net>>

-----------------------------------------------------------------------------
(* B: its CRcvQueue worker (processData, sendCtrl, processCtrl) and reader. *)

\* One slot stays empty; the acknowledged blocks not read yet take the others.
AvailBufSize(lastAck) == RcvBufSize - (lastAck - (Len(received) + 1)) - 1

Acceptable(seq) ==
    /\ seq >= rcvLastAck
    /\ seq - rcvLastAck < AvailBufSize(rcvLastAck)
    /\ seq \notin DOMAIN rcvBuf

\* Variant: a retransmission stays lost.
LossKept(seq) ==
    IF seq > rcvCurrSeqNo
    THEN rcvLoss \cup ((rcvCurrSeqNo + 1) .. (seq - 1)) ELSE rcvLoss

\* What is lost once seq has come in: a new gap, or one number less.
LossAfter(seq) ==
    IF seq > rcvCurrSeqNo
    THEN rcvLoss \cup ((rcvCurrSeqNo + 1) .. (seq - 1)) ELSE rcvLoss \ {seq}

RecvData(m) ==
    /\ m.type = "data" /\ Acceptable(m.seq)
    /\ rcvBuf' = [s \in DOMAIN rcvBuf \cup {m.seq} |->
                     IF s = m.seq THEN m.blk ELSE rcvBuf[s]]
    /\ rcvLoss' = LossAfter(m.seq)
    /\ rcvCurrSeqNo' = Larger(m.seq, rcvCurrSeqNo)
    /\ net' = IF m.seq > rcvCurrSeqNo + 1
              THEN net \cup {Nak(rcvCurrSeqNo + 1, m.seq - 1)} ELSE net
    /\ UNCHANGED <<sndVars, rcvLastAck, rcvLastAckAck, received>>

\* The first lost number, or the one after the largest received.
AckNos == {ack \in rcvLoss \cup {rcvCurrSeqNo + 1} : \A s \in rcvLoss : ack <= s}

\* Variant: a full buffer closes the window.
AdvertisedAsIs(avail) == avail

\* At least 2, "even if buffer is full, to break potential deadlock".
AdvertisedWindow(avail) == Larger(avail, 2)

AckDue(ack) == ack >= rcvLastAck

\* sendCtrl(2): acknowledge what is new, or repeat the ACK while no ACK2 has
\* confirmed it (the code also waits for the round-trip time to pass).
AckTimer ==
    \E ack \in AckNos :
        /\ ack # rcvLastAckAck
        /\ AckDue(ack)
        /\ rcvLastAck' = ack
        /\ net' = IF ack > rcvLastAckAck
                  THEN net \cup {FullAck(ack, AdvertisedWindow(AvailBufSize(ack)))}
                  ELSE net
        /\ UNCHANGED <<sndVars, rcvCurrSeqNo, rcvLastAckAck, rcvLoss, rcvBuf,
                       received>>

\* sendCtrl(2, , , 4): only tells the number, B itself records nothing.
LightAck ==
    /\ LightAcks
    /\ \E ack \in AckNos :
            /\ ack # rcvLastAckAck
            /\ net' = net \cup {LiteAck(ack)}
    /\ UNCHANGED <<sndVars, rcvVars>>

\* Variant: takes the last ACK sent for the one confirmed.
ConfirmedLatest(m) == rcvLastAck

ConfirmedAck(m) == m.ack

RecvAck2(m) ==
    /\ m.type = "ack2"
    /\ ConfirmedAck(m) > rcvLastAckAck
    /\ rcvLastAckAck' = ConfirmedAck(m)
    /\ UNCHANGED <<sndVars, rcvCurrSeqNo, rcvLastAck, rcvLoss, rcvBuf, received, net>>

\* CUDT::recv: the first block of the acknowledged part of the buffer.
AppRecv ==
    LET head == Len(received) + 1 IN
    /\ head < rcvLastAck
    /\ received' = Append(received, rcvBuf[head])
    /\ rcvBuf' = [s \in DOMAIN rcvBuf \ {head} |-> rcvBuf[s]]
    /\ UNCHANGED <<sndVars, rcvCurrSeqNo, rcvLastAck, rcvLastAckAck, rcvLoss, net>>

-----------------------------------------------------------------------------

Deliver(m) ==
    \/ RecvLiteAck(m) \/ RecvAck(m) \/ RecvNak(m)
    \/ RecvData(m) \/ RecvAck2(m)

Next ==
    \/ AppSend \/ AppUpdate
    \/ Pop \/ PackLost \/ PackNew \/ SendTo
    \/ SetLastAck \/ AckRelease \/ HandlerUpdate
    \/ ExpTimer \/ ExpBroken
    \/ AckTimer \/ LightAck \/ AppRecv
    \/ \E m \in net : Deliver(m)

Spec == Init /\ [][Next]_vars

-----------------------------------------------------------------------------
(* Properties.                                                             *)

Seqs == 1 .. MaxBlocks
Acks == 1 .. (MaxBlocks + 1)
Windows == 2 .. RcvBufSize

DataPacket == [type : {"data"}, seq : Seqs, blk : Seqs]
Packet ==
    DataPacket
    \cup [type : {"ack"}, ack : Acks, wnd : Windows]
    \cup [type : {"lite", "ack2"}, ack : Acks]
    \cup [type : {"nak"}, lo : Seqs, hi : Seqs]

\* Every variable stays in its range.  The flow window can fall below 0: the
\* worker may use an old window with a new acknowledgement.
TypeOK ==
    /\ sndFirst \in Acks /\ sndNext \in Acks /\ sndEnd \in Acks
    /\ sndCurrSeqNo \in 0 .. MaxBlocks
    /\ sndLastAck \in Acks /\ sndLastDataAck \in Acks
    /\ flowWindow \in Int
    /\ sndLoss \subseteq Seqs /\ onList \in BOOLEAN
    /\ broken \in {"no", "timeout", "insecure"}
    /\ sndPc \in {"pop", "lost", "new", "sendto"} /\ sndReg \in Int
    /\ sndPkt \in DataPacket \cup {NoPkt}
    /\ rcvPc \in {"idle", "lite", "ack", "release", "update"}
    /\ ackReg \in 0 .. (MaxBlocks + 1)
    /\ appPc \in {"idle", "update"}
    /\ rcvCurrSeqNo \in 0 .. MaxBlocks
    /\ rcvLastAck \in Acks /\ rcvLastAckAck \in Acks
    /\ rcvLoss \subseteq Seqs
    /\ DOMAIN rcvBuf \subseteq Seqs
    /\ \A s \in DOMAIN rcvBuf : rcvBuf[s] \in Seqs
    /\ received \in Seq(Seqs)
    /\ net \subseteq Packet

\* The application of B reads exactly what the application of A wrote, in
\* order: the protocol implements the stream.
STREAM == INSTANCE Stream WITH written <- sndEnd - 1, read <- received
StreamRefined == STREAM!StreamSpec

\* "this should not happen: attack or bug" (core.cpp:2000 and 2161): between
\* two honest peers no late, repeated or reordered ACK or NAK ever makes the
\* sender drop the connection.
HonestPeerTrusted == broken # "insecure"

\* The sender releases a block only when the receiver has it for good: the
\* blocks released, the data ACK and B's own acknowledged prefix agree.
ReleasedIsStored ==
    /\ sndFirst = sndLastDataAck
    /\ sndLastDataAck <= rcvLastAck

\* sendto runs outside every lock, so a retransmission can carry a block that
\* was released and written again.  Such a packet is always one the receiver
\* refuses.
StaleCopyRefused ==
    \A m \in net : m.type = "data" /\ m.blk # m.seq => m.seq < rcvLastAck

\* The receiver's loss list is exactly what is missing below the largest
\* number received, so an ACK never passes over a hole.
LossListExact ==
    rcvLoss = {s \in rcvLastAck .. rcvCurrSeqNo : s \notin DOMAIN rcvBuf}

\* The sender's loss list only holds numbers still to be acknowledged, and
\* they never reach back further than the first window granted: they fit in
\* half of the array CSndLossList(m_iFlowWindowSize * 2) allocates.
SndLossFits ==
    /\ sndLoss \subseteq sndLastDataAck .. sndCurrSeqNo
    /\ \A s \in sndLoss : sndCurrSeqNo - s < InitialFlowWindow

\* B stops acknowledging once an ACK2 confirmed an ACK: by then A has released
\* what it covers, or is about to.
ConfirmedAckIsApplied ==
    rcvLastAckAck <= (IF rcvPc \in {"ack", "release"}
                      THEN Larger(ackReg, sndLastDataAck) ELSE sndLastDataAck)

\* A known loss is never forgotten by the scheduler: the socket is on the send
\* list, the worker is busy with it, or a thread is about to put it there.
LossScheduled ==
    broken = "no" /\ sndLoss # {} =>
        onList \/ sndPc \in {"lost", "new"} \/ rcvPc = "update"

\* "Update Flow Window Size, must update before and together with
\* m_iSndLastAck" (core.cpp:2008): the sender never passes the right edge of
\* a window B granted.
GrantedEdges ==
    {1 + InitialFlowWindow}
    \cup {m.ack + m.wnd : m \in {n \in net : n.type = "ack"}}
WindowRespected == \E edge \in GrantedEdges : sndCurrSeqNo < edge
=============================================================================
