--------------------------- MODULE Transfer_proofs ---------------------------
(***************************************************************************)
(* The safety of one direction of a UDT connection, for every number of    *)
(* blocks, every buffer size and every congestion window.                  *)
(***************************************************************************)
EXTENDS Transfer, TLAPS

-----------------------------------------------------------------------------
(* The inductive invariant.                                                *)

\* The sending buffer and the sequence numbers advance together, and the
\* acknowledgements never pass what was sent.
SndInv ==
    /\ sndFirst = sndLastDataAck
    /\ sndNext = sndCurrSeqNo + 1
    /\ sndNext <= sndEnd
    /\ sndLastDataAck <= sndLastAck
    /\ sndLastAck <= sndCurrSeqNo + 1
    /\ sndLoss \subseteq sndLastDataAck .. sndCurrSeqNo
    /\ broken # "insecure"

\* What the threads of A hold in their locals.
ThreadInv ==
    /\ sndPc = "lost" => sndReg \in 1 .. sndCurrSeqNo
    /\ sndPc = "sendto" => /\ sndPkt \in DataPacket
                           /\ sndPkt.blk = sndPkt.seq
                           /\ sndPkt.seq <= sndCurrSeqNo
    /\ rcvPc \in {"ack", "release"} => /\ ackReg >= 1
                                       /\ ackReg <= rcvLastAck
    /\ rcvPc = "lite" => ackReg >= 1 /\ ackReg <= rcvCurrSeqNo + 1
    /\ rcvPc \in {"lite", "ack"} => ackReg >= sndLastAck
    /\ rcvPc = "release" => ackReg <= sndLastAck

\* The receiver holds the right block for every number it did not read yet and
\* is not missing.
RcvInv ==
    /\ rcvCurrSeqNo <= sndCurrSeqNo
    /\ rcvLastAck <= rcvCurrSeqNo + 1
    /\ Len(received) + 1 <= rcvLastAck
    /\ sndLastDataAck <= rcvLastAck
    /\ \A i \in 1 .. Len(received) : received[i] = i
    /\ DOMAIN rcvBuf \subseteq (Len(received) + 1) .. rcvCurrSeqNo
    /\ \A s \in DOMAIN rcvBuf : rcvBuf[s] = s
    /\ \A s \in (Len(received) + 1) .. (rcvLastAck - 1) : s \in DOMAIN rcvBuf
    /\ LossListExact

\* What each message in the network promises about both ends.
NetInv ==
    \A m \in net :
        /\ m.type = "data" => /\ m.seq <= sndCurrSeqNo
                              /\ m.blk # m.seq => m.seq < sndLastDataAck
        /\ m.type = "ack" => m.ack <= rcvLastAck
        /\ m.type = "lite" => m.ack <= rcvCurrSeqNo + 1
        /\ m.type = "nak" => m.lo <= m.hi /\ m.hi <= rcvCurrSeqNo

\* The acknowledgement A has applied, or is applying.
Applied ==
    IF rcvPc \in {"ack", "release"} THEN Larger(ackReg, sndLastDataAck)
    ELSE sndLastDataAck

ConfirmInv ==
    /\ rcvLastAckAck <= Applied
    /\ \A m \in net : m.type = "ack2" => m.ack <= Applied

\* A loss the worker will not look at before it goes idle has its wake-up
\* coming.
SchedInv ==
    broken = "no" =>
        /\ sndPc # "lost" /\ sndLoss # {} => onList \/ rcvPc = "update"
        /\ sndPc = "lost" /\ sndReg < sndLastDataAck =>
               onList \/ rcvPc = "update"

IInv ==
    /\ TypeOK /\ SndInv /\ ThreadInv
    /\ RcvInv /\ NetInv /\ ConfirmInv /\ SchedInv

-----------------------------------------------------------------------------
(* Packets.                                                                *)

\* The fields of a message of each type lie in their ranges.
LEMMA PacketFields ==
    ASSUME NEW m \in Packet
    PROVE  /\ m.type = "data" => m.seq \in Seqs /\ m.blk \in Seqs
           /\ m.type = "ack" => m.ack \in Acks /\ m.wnd \in Windows
           /\ m.type = "lite" => m.ack \in Acks
           /\ m.type = "ack2" => m.ack \in Acks
           /\ m.type = "nak" => m.lo \in Seqs /\ m.hi \in Seqs
BY DEF Packet, DataPacket

\* What the constructors build is a message.
LEMMA NewPackets ==
    /\ \A seq, blk \in Seqs : Data(seq, blk) \in DataPacket
    /\ \A m \in DataPacket : m.seq \in Seqs /\ m.blk \in Seqs
    /\ DataPacket \subseteq Packet
    /\ \A ack \in Acks, wnd \in Windows : FullAck(ack, wnd) \in Packet
    /\ \A ack \in Acks : LiteAck(ack) \in Packet /\ Ack2(ack) \in Packet
    /\ \A lo, hi \in Seqs : Nak(lo, hi) \in Packet
BY DEF Packet, DataPacket, Data, FullAck, LiteAck, Ack2, Nak

-----------------------------------------------------------------------------
(* The application of A.                                                   *)

\* CUDT::send writes a block.
LEMMA AppSendKeeps ==
    ASSUME IInv, AppSend
    PROVE  IInv'
<1> USE DEF IInv
<1>1. TypeOK'
  BY TransferAssumption DEF AppSend, TypeOK, rcvVars, wndVars, workerVars,
     handlerVars, Acks
<1>2. SndInv'
  BY DEF AppSend, SndInv, wndVars, TypeOK
<1>3. ThreadInv' /\ RcvInv' /\ NetInv' /\ ConfirmInv' /\ SchedInv'
  BY DEF AppSend, ThreadInv, RcvInv, NetInv, ConfirmInv, SchedInv, rcvVars,
     wndVars, workerVars, handlerVars, LossListExact, Applied
<1>4. QED
  BY <1>1, <1>2, <1>3

\* CUDT::send puts the socket on the send list.
LEMMA AppUpdateKeeps ==
    ASSUME IInv, AppUpdate
    PROVE  IInv'
<1> USE DEF IInv
<1>1. TypeOK'
  BY DEF AppUpdate, TypeOK, rcvVars, bufVars, wndVars, workerVars, handlerVars
<1>2. SndInv' /\ ThreadInv' /\ RcvInv' /\ NetInv' /\ ConfirmInv' /\ SchedInv'
  BY DEF AppUpdate, SndInv, ThreadInv, RcvInv, NetInv, ConfirmInv, SchedInv,
     bufVars, wndVars, rcvVars, workerVars, handlerVars, LossListExact,
     Applied
<1>3. QED
  BY <1>1, <1>2

-----------------------------------------------------------------------------
(* The CSndQueue worker of A.                                              *)

\* The worker takes the socket off the list and decides what to send.
LEMMA PopKeeps ==
    ASSUME IInv, Pop
    PROVE  IInv'
<1> USE DEF IInv
<1>1. TypeOK'
  <2>1. CASE broken # "no"
    BY <2>1
       DEF Pop, TypeOK, rcvVars, bufVars, wndVars, workerVars, handlerVars
  <2>2. CASE broken = "no" /\ sndLoss # {}
    <3>1. PICK seq \in sndLoss : /\ sndReg' = seq
                                /\ sndLoss' = sndLoss \ {seq}
                                /\ sndPc' = "lost" /\ sndPkt' = sndPkt
      BY <2>2 DEF Pop
    <3>2. sndReg' \in Int /\ sndLoss' \subseteq Seqs
      BY <3>1 DEF TypeOK, Seqs
    <3>3. QED
      BY <3>1, <3>2 DEF Pop, TypeOK, rcvVars, bufVars, wndVars, handlerVars
  <2>3. CASE broken = "no" /\ sndLoss = {}
    <3>1. sndReg' \in Int
      BY <2>3, TransferAssumption DEF Pop, TypeOK, Smaller
    <3>2. QED
      BY <2>3, <3>1 DEF Pop, TypeOK, rcvVars, bufVars, wndVars, handlerVars
  <2>4. QED
    BY <2>1, <2>2, <2>3
<1>2. ThreadInv'
  BY DEF Pop, ThreadInv, rcvVars, wndVars, workerVars, handlerVars, Seqs,
     TypeOK, SndInv
<1>3. SchedInv'
  BY DEF Pop, SchedInv, TypeOK, SndInv
<1>4. SndInv' /\ RcvInv' /\ NetInv' /\ ConfirmInv'
  BY DEF Pop, SndInv, RcvInv, NetInv, ConfirmInv, bufVars, wndVars, rcvVars,
     LossListExact, handlerVars, Applied
<1>5. QED
  BY <1>1, <1>2, <1>3, <1>4

\* packData, a retransmission: its block is still the one of its number.
LEMMA PackLostKeeps ==
    ASSUME IInv, PackLost
    PROVE  IInv'
<1> USE DEF IInv
<1>1. TypeOK'
  <2>1. sndPkt' \in DataPacket \cup {NoPkt}
    <3>1. CASE LostStillBuffered
      <4>1. sndReg \in Seqs /\ LostBlock = sndReg
        BY <3>1, TransferAssumption
           DEF PackLost, ThreadInv, SndInv, TypeOK, Seqs, LostBlock, Acks
      <4>2. QED
        BY <3>1, <4>1, NewPackets DEF PackLost
    <3>2. QED
      BY <3>1 DEF PackLost, TypeOK
  <2>2. sndPc' \in {"pop", "sendto"} /\ sndReg' = 0 /\ onList' \in BOOLEAN
    BY DEF PackLost, Reinserted, TypeOK
  <2>3. QED
    BY <2>1, <2>2 DEF PackLost, TypeOK, rcvVars, bufVars, wndVars, handlerVars
<1>2. ThreadInv'
  BY TransferAssumption DEF PackLost, ThreadInv, rcvVars, wndVars,
     handlerVars, LostBlock, Data, DataPacket, Seqs, TypeOK, SndInv
<1>3. SchedInv'
  BY DEF PackLost, SchedInv, handlerVars, LostStillBuffered, Reinserted,
     TypeOK, SndInv
<1>4. SndInv' /\ RcvInv' /\ NetInv' /\ ConfirmInv'
  BY DEF PackLost, SndInv, RcvInv, NetInv, ConfirmInv, bufVars, wndVars,
     rcvVars, LossListExact, handlerVars, Applied
<1>5. QED
  BY <1>1, <1>2, <1>3, <1>4

\* packData, a new packet: block and number advance together.
LEMMA PackNewKeeps ==
    ASSUME IInv, PackNew
    PROVE  IInv'
<1> USE DEF IInv
<1>1. TypeOK'
  <2>1. /\ sndPkt' \in DataPacket \cup {NoPkt}
        /\ sndCurrSeqNo' \in 0 .. MaxBlocks
        /\ sndNext' \in Acks
    <3>1. CASE WindowOpen /\ sndNext < sndEnd
      <4>1. sndNext \in Seqs /\ sndCurrSeqNo + 1 = sndNext
        BY <3>1, TransferAssumption DEF SndInv, TypeOK, Seqs, Acks
      <4>2. QED
        BY <3>1, <4>1, NewPackets, TransferAssumption DEF PackNew, Seqs, Acks
    <3>2. QED
      BY <3>1 DEF PackNew, TypeOK
  <2>2. sndPc' \in {"pop", "sendto"} /\ sndReg' = 0 /\ onList' \in BOOLEAN
    BY DEF PackNew, Reinserted, TypeOK
  <2>3. QED
    BY <2>1, <2>2 DEF PackNew, TypeOK, rcvVars, wndVars, handlerVars
<1>2. NetInv'
  <2>1. sndCurrSeqNo' >= sndCurrSeqNo /\ sndCurrSeqNo' \in Int
    BY DEF PackNew, TypeOK
  <2>2. ASSUME NEW m \in net, m.type = "data"
        PROVE  m.seq <= sndCurrSeqNo'
    BY <2>1, <2>2, PacketFields DEF TypeOK, NetInv, Seqs
  <2>3. QED
    BY <2>2 DEF PackNew, NetInv, rcvVars
<1>3. SndInv'
  BY DEF PackNew, SndInv, wndVars, TypeOK
<1>4. ThreadInv'
  BY TransferAssumption DEF PackNew, ThreadInv, rcvVars, wndVars, handlerVars,
     Data, DataPacket, Seqs, Acks, TypeOK, SndInv
<1>5. RcvInv'
  BY DEF PackNew, RcvInv, rcvVars, LossListExact, TypeOK
<1>6. SchedInv'
  BY DEF PackNew, SchedInv, handlerVars, Reinserted
<1>7. ConfirmInv'
  BY DEF PackNew, ConfirmInv, rcvVars, handlerVars, Applied
<1>8. QED
  BY <1>1, <1>2, <1>3, <1>4, <1>5, <1>6, <1>7

\* sendto: what is read from a released block has a number released, too.
LEMMA SendToKeeps ==
    ASSUME IInv, SendTo
    PROVE  IInv'
<1> USE DEF IInv
<1>1. TypeOK'
  <2>1. PICK blk \in PacketContents : net' = net \cup {Data(sndPkt.seq, blk)}
    BY DEF SendTo
  <2>2. sndPkt.seq \in Seqs /\ sndPkt.blk \in Seqs
    BY NewPackets DEF SendTo, ThreadInv
  <2>3. blk \in Seqs
    BY <2>1, <2>2, TransferAssumption DEF PacketContents, TypeOK, Acks, Seqs
  <2>4. net' \subseteq Packet
    BY <2>1, <2>2, <2>3, NewPackets DEF TypeOK
  <2>5. QED
    BY <2>4 DEF SendTo, TypeOK, rcvVars, bufVars, wndVars, handlerVars
<1>2. NetInv'
  BY DEF SendTo, NetInv, rcvVars, PacketContents, Data, SndInv, ThreadInv
<1>3. ConfirmInv'
  BY DEF SendTo, ConfirmInv, rcvVars, handlerVars, Data, Applied
<1>4. SndInv' /\ ThreadInv' /\ RcvInv' /\ SchedInv'
  BY DEF SendTo, SndInv, ThreadInv, RcvInv, SchedInv, bufVars, wndVars,
     rcvVars, handlerVars, LossListExact
<1>5. QED
  BY <1>1, <1>2, <1>3, <1>4

-----------------------------------------------------------------------------
(* The CRcvQueue worker of A.                                              *)

\* A lite ACK is not below m_iSndLastAck nor past what B received.
LEMMA RecvLiteAckKeeps ==
    ASSUME IInv, NEW m \in net, RecvLiteAck(m)
    PROVE  IInv'
<1> USE DEF IInv
<1>1. TypeOK' /\ ThreadInv'
  <2>1. m.ack \in Acks /\ m.ack >= sndLastAck /\ m.ack <= rcvCurrSeqNo + 1
    BY PacketFields DEF RecvLiteAck, TypeOK, NetInv
  <2>2. flowWindow' \in Int /\ ackReg' \in 0 .. (MaxBlocks + 1)
    <3>1. flowWindow \in Int /\ sndLastAck \in Acks
      BY DEF TypeOK
    <3>2. flowWindow' = flowWindow - (m.ack - sndLastAck) /\ ackReg' = m.ack
      BY DEF RecvLiteAck
    <3>3. QED
      BY <2>1, <3>1, <3>2, TransferAssumption DEF Acks
  <2>3. TypeOK'
    BY <2>2 DEF RecvLiteAck, TypeOK, rcvVars, bufVars, workerVars
  <2>4. ThreadInv'
    BY <2>1 DEF RecvLiteAck, ThreadInv, Acks, rcvVars, workerVars
  <2>5. QED
    BY <2>3, <2>4
<1>2. ConfirmInv'
  BY DEF RecvLiteAck, ConfirmInv, Applied, Listening, rcvVars
<1>3. SchedInv'
  BY DEF RecvLiteAck, SchedInv, Listening, workerVars
<1>4. SndInv' /\ RcvInv' /\ NetInv'
  BY DEF RecvLiteAck, SndInv, RcvInv, NetInv, rcvVars, bufVars, LossListExact
<1>5. QED
  BY <1>1, <1>2, <1>3, <1>4

\* A full ACK never lies beyond what was sent.
LEMMA RecvAckKeeps ==
    ASSUME IInv, NEW m \in net, RecvAck(m)
    PROVE  IInv'
<1> USE DEF IInv
<1>1. TypeOK' /\ ConfirmInv'
  <2>1. m.ack \in Acks /\ m.wnd \in Windows /\ m.ack <= rcvLastAck
    BY PacketFields DEF RecvAck, TypeOK, NetInv
  <2>2. net' \subseteq Packet
    BY <2>1, NewPackets DEF RecvAck, TypeOK
  <2>3. /\ flowWindow' \in Int /\ ackReg' \in 0 .. (MaxBlocks + 1)
        /\ broken' \in {"no", "timeout", "insecure"}
    BY <2>1, TransferAssumption
       DEF RecvAck, TypeOK, Acks, Windows, handlerVars
  <2>4. TypeOK'
    BY <2>2, <2>3
       DEF RecvAck, TypeOK, rcvVars, bufVars, workerVars, handlerVars
  <2>5. rcvLastAckAck' = rcvLastAckAck /\ sndLastDataAck' = sndLastDataAck
    BY DEF RecvAck, rcvVars
  <2>6. ~AckBeyondSent(m.ack)
    BY <2>1 DEF AckBeyondSent, RcvInv, TypeOK, Acks
  <2>7. rcvPc' \in {"ack", "release"} /\ ackReg' = m.ack
    BY <2>6 DEF RecvAck
  <2>8. Applied = sndLastDataAck
    BY DEF RecvAck, Listening, Applied
  <2>9. Applied' = Larger(m.ack, sndLastDataAck)
    BY <2>7, <2>5 DEF Applied, Larger
  <2>10. /\ sndLastDataAck <= Larger(m.ack, sndLastDataAck)
        /\ m.ack <= Larger(m.ack, sndLastDataAck)
        /\ Larger(m.ack, sndLastDataAck) \in Int
    BY <2>1 DEF Larger, TypeOK, Acks
  <2>11. ASSUME NEW n \in net', n.type = "ack2" PROVE n.ack <= Applied'
    <3>1. CASE n \in net
      <4>1. n.ack <= sndLastDataAck /\ n.ack \in Int
        BY <2>8, <2>11, <3>1, PacketFields DEF ConfirmInv, TypeOK, Acks
      <4>2. QED BY <4>1, <2>9, <2>10 DEF TypeOK, Acks
    <3>2. CASE n = Ack2(m.ack)
      BY <3>2, <2>9, <2>10 DEF Ack2
    <3>3. QED
      BY <3>1, <3>2 DEF RecvAck
  <2>12. rcvLastAckAck' <= Applied'
    BY <2>5, <2>8, <2>9, <2>10 DEF ConfirmInv, TypeOK, Acks
  <2>13. QED BY <2>4, <2>11, <2>12 DEF ConfirmInv
<1>2. SndInv'
  BY PacketFields DEF RecvAck, SndInv, AckBeyondSent, NetInv, RcvInv, TypeOK,
     Acks, bufVars
<1>3. ThreadInv'
  <2>1. m.ack \in Acks /\ m.ack >= 1 /\ m.ack <= rcvLastAck
    BY PacketFields DEF RecvAck, NetInv, TypeOK, Acks
  <2>2. UNCHANGED <<sndCurrSeqNo, sndLastAck, rcvCurrSeqNo, rcvLastAck,
                    sndPc, sndReg, sndPkt>>
    BY DEF RecvAck, rcvVars, workerVars
  <2>3. CASE rcvPc' = "ack" /\ ackReg' = m.ack /\ m.ack >= sndLastAck
    BY <2>1, <2>2, <2>3 DEF ThreadInv
  <2>4. CASE rcvPc' = "release" /\ ackReg' = m.ack /\ m.ack < sndLastAck
    BY <2>1, <2>2, <2>4 DEF ThreadInv, TypeOK, Acks
  <2>5. CASE UNCHANGED <<rcvPc, ackReg>>
    BY <2>2, <2>5 DEF ThreadInv
  <2>6. QED
    BY <2>3, <2>4, <2>5 DEF RecvAck, handlerVars
<1>4. NetInv'
  BY DEF RecvAck, NetInv, Ack2, rcvVars
<1>5. SchedInv'
  BY DEF RecvAck, SchedInv, Listening, workerVars, handlerVars
<1>6. RcvInv'
  BY DEF RecvAck, RcvInv, LossListExact, rcvVars
<1>7. QED
  BY <1>1, <1>2, <1>3, <1>4, <1>5, <1>6

\* m_iSndLastAck is set to the ACK being processed.
LEMMA SetLastAckKeeps ==
    ASSUME IInv, SetLastAck
    PROVE  IInv'
<1> USE DEF IInv
<1>1. TypeOK' /\ SndInv' /\ ThreadInv'
  <2>1. /\ ackReg \in Acks /\ ackReg >= sndLastAck
        /\ ackReg <= sndCurrSeqNo + 1
    BY TransferAssumption DEF SetLastAck, ThreadInv, RcvInv, TypeOK, Acks
  <2>2. TypeOK'
    BY <2>1, TransferAssumption
       DEF SetLastAck, TypeOK, rcvVars, bufVars, workerVars
  <2>3. SndInv'
    BY <2>1 DEF SetLastAck, SndInv, TypeOK, Acks, bufVars
  <2>4. ThreadInv'
    BY <2>1 DEF SetLastAck, ThreadInv, Acks, rcvVars, workerVars
  <2>5. QED
    BY <2>2, <2>3, <2>4
<1>2. ConfirmInv'
  BY DEF SetLastAck, ConfirmInv, Applied, Larger, rcvVars
<1>3. RcvInv' /\ NetInv' /\ SchedInv'
  BY DEF SetLastAck, RcvInv, NetInv, SchedInv, rcvVars, LossListExact,
     workerVars
<1>4. QED
  BY <1>1, <1>2, <1>3

\* Blocks and losses below the ACK go together.
LEMMA AckReleaseKeeps ==
    ASSUME IInv, AckRelease
    PROVE  IInv'
<1> USE DEF IInv
<1>1. TypeOK' /\ SndInv'
  <2>1. CASE ackReg <= sndLastDataAck
    <3>1. TypeOK'
      BY <2>1, TransferAssumption
         DEF AckRelease, TypeOK, rcvVars, wndVars, workerVars, Acks
    <3>2. SndInv'
      <4>1. UNCHANGED <<sndFirst, sndLastDataAck, sndLoss>>
        BY <2>1 DEF AckRelease, TypeOK, Acks
      <4>2. QED
        BY <4>1 DEF AckRelease, SndInv, wndVars
    <3>3. QED BY <3>1, <3>2
  <2>2. CASE ackReg > sndLastDataAck
    <3>1. /\ ackReg \in Acks /\ ackReg <= sndLastAck
          /\ ackReg <= sndCurrSeqNo + 1
      BY DEF AckRelease, ThreadInv, TypeOK, SndInv, Acks
    <3>2. sndFirst' = ackReg /\ sndLastDataAck' = ackReg
      BY <2>2 DEF AckRelease, SndInv, ReleasedBlocks, TypeOK, Acks
    <3>3. sndLoss' = StillLost /\ sndLoss' \subseteq sndLoss
      BY <2>2 DEF AckRelease, StillLost, TypeOK, Acks
    <3>4. TypeOK'
      <4>1. UNCHANGED <<sndNext, sndEnd, wndVars, onList, broken, workerVars,
                        appPc, rcvVars, net, sndCurrSeqNo>>
        BY DEF AckRelease
      <4>2. ackReg' = 0 /\ rcvPc' = "update"
        BY <2>2 DEF AckRelease, TypeOK, Acks
      <4>3. sndLoss' \subseteq Seqs /\ sndFirst' \in 1 .. MaxBlocks + 1
        BY <3>1, <3>2, <3>3 DEF TypeOK, Acks
      <4>4. 0 \in 0 .. MaxBlocks + 1
        BY TransferAssumption
      <4>5. QED
        BY <3>1, <3>2, <4>1, <4>2, <4>3, <4>4
           DEF TypeOK, rcvVars, wndVars, workerVars
    <3>5. sndLoss' \subseteq sndLastDataAck' .. sndCurrSeqNo'
      <4>1. ASSUME NEW s \in sndLoss'
            PROVE  s \in sndLastDataAck .. sndCurrSeqNo /\ s >= ackReg
        BY <3>3, <4>1 DEF SndInv, StillLost
      <4>2. sndCurrSeqNo' = sndCurrSeqNo
        BY DEF AckRelease
      <4>3. QED
        BY <3>1, <3>2, <4>1, <4>2 DEF TypeOK, Acks
    <3>6. SndInv'
      BY <2>2, <3>1, <3>2, <3>5 DEF AckRelease, SndInv, wndVars
    <3>7. QED BY <3>4, <3>6
  <2>3. QED
    BY <2>1, <2>2 DEF AckRelease
<1>2. NetInv'
  <2>1. /\ sndLastDataAck' >= sndLastDataAck
        /\ sndLastDataAck' \in Int /\ sndLastDataAck \in Int
    BY DEF AckRelease, TypeOK, Acks
  <2>2. ASSUME NEW m \in net, m.type = "data", m.blk # m.seq
        PROVE  m.seq < sndLastDataAck'
    BY <2>1, <2>2, PacketFields DEF TypeOK, NetInv, Seqs
  <2>3. QED
    BY <2>2 DEF AckRelease, NetInv, rcvVars
<1>3. RcvInv'
  BY DEF AckRelease, RcvInv, rcvVars, LossListExact, ThreadInv
<1>4. ConfirmInv'
  BY DEF AckRelease, ConfirmInv, rcvVars, Applied, Larger, Acks, TypeOK
<1>5. ThreadInv' /\ SchedInv'
  BY DEF AckRelease, ThreadInv, SchedInv, workerVars
<1>6. QED
  BY <1>1, <1>2, <1>3, <1>4, <1>5

\* The handler puts the socket on the send list.
LEMMA HandlerUpdateKeeps ==
    ASSUME IInv, HandlerUpdate
    PROVE  IInv'
<1> USE DEF IInv
<1>1. TypeOK'
  BY DEF HandlerUpdate, TypeOK, rcvVars, bufVars, wndVars, workerVars
<1>2. SndInv' /\ ThreadInv' /\ RcvInv' /\ NetInv' /\ ConfirmInv' /\ SchedInv'
  BY DEF HandlerUpdate, SndInv, ThreadInv, RcvInv, NetInv, ConfirmInv,
     SchedInv, bufVars, wndVars, workerVars, rcvVars, LossListExact, Applied
<1>3. QED
  BY <1>1, <1>2

\* A NAK names numbers that were sent.
LEMMA RecvNakKeeps ==
    ASSUME IInv, NEW m \in net, RecvNak(m)
    PROVE  IInv'
<1> USE DEF IInv
<1>1. TypeOK' /\ SndInv'
  <2>1. /\ m.lo \in Seqs /\ m.hi \in Seqs /\ m.lo <= m.hi
        /\ m.hi <= sndCurrSeqNo
    BY PacketFields DEF RecvNak, TypeOK, NetInv, RcvInv, Seqs
  <2>2. NakLosses(m) \subseteq sndLastDataAck .. sndCurrSeqNo
    BY <2>1 DEF NakLosses, Larger, SndInv, TypeOK, Acks, Seqs
  <2>3. /\ sndLoss' = sndLoss \cup NakLosses(m)
        /\ broken' = broken /\ rcvPc' = "update"
    BY <2>1 DEF RecvNak, Seqs, TypeOK
  <2>4. sndLoss' \subseteq sndLastDataAck .. sndCurrSeqNo
    BY <2>2, <2>3 DEF SndInv
  <2>5. sndLastDataAck .. sndCurrSeqNo \subseteq Seqs
    BY TransferAssumption DEF TypeOK, Acks, Seqs
  <2>6. TypeOK'
    BY <2>3, <2>4, <2>5
       DEF RecvNak, TypeOK, rcvVars, bufVars, wndVars, workerVars
  <2>7. SndInv'
    BY <2>3, <2>4 DEF RecvNak, SndInv, bufVars, wndVars
  <2>8. QED BY <2>6, <2>7
<1>2. ConfirmInv'
  BY DEF RecvNak, ConfirmInv, Applied, Listening, rcvVars
<1>3. SchedInv'
  BY DEF RecvNak, SchedInv, Listening
<1>4. ThreadInv' /\ RcvInv' /\ NetInv'
  BY DEF RecvNak, ThreadInv, RcvInv, NetInv, rcvVars, workerVars, wndVars,
     LossListExact
<1>5. QED
  BY <1>1, <1>2, <1>3, <1>4

\* The EXP timer declares lost what is not acknowledged.
LEMMA ExpTimerKeeps ==
    ASSUME IInv, ExpTimer
    PROVE  IInv'
<1> USE DEF IInv
<1>1. TypeOK'
  BY TransferAssumption DEF ExpTimer, TypeOK, rcvVars, bufVars, wndVars,
     workerVars, Seqs, Acks
<1>2. SndInv'
  BY DEF ExpTimer, SndInv, bufVars, wndVars, TypeOK
<1>3. ConfirmInv'
  BY DEF ExpTimer, ConfirmInv, rcvVars, Listening, Applied
<1>4. ThreadInv' /\ RcvInv' /\ NetInv' /\ SchedInv'
  BY DEF ExpTimer, ThreadInv, RcvInv, NetInv, SchedInv, workerVars, rcvVars,
     LossListExact
<1>5. QED
  BY <1>1, <1>2, <1>3, <1>4

\* The EXP timer gives the peer up.
LEMMA ExpBrokenKeeps ==
    ASSUME IInv, ExpBroken
    PROVE  IInv'
<1> USE DEF IInv
<1>1. TypeOK'
  BY DEF ExpBroken, TypeOK, rcvVars, bufVars, wndVars, workerVars
<1>2. ConfirmInv'
  BY DEF ExpBroken, ConfirmInv, rcvVars, Listening, Applied
<1>3. SndInv' /\ ThreadInv' /\ RcvInv' /\ NetInv' /\ SchedInv'
  BY DEF ExpBroken, SndInv, ThreadInv, RcvInv, NetInv, SchedInv, bufVars,
     wndVars, workerVars, rcvVars, LossListExact
<1>4. QED
  BY <1>1, <1>2, <1>3

-----------------------------------------------------------------------------
(* B.                                                                      *)

\* A number beyond the largest received adds the gap before it to the missing.
LEMMA LossExtended ==
    ASSUME NEW lo \in Int, NEW cur \in Int, NEW seq \in Int,
           lo <= cur + 1, cur < seq,
           NEW held, \A s \in held : s <= cur,
           NEW loss, loss = {s \in lo .. cur : s \notin held}
    PROVE  loss \cup ((cur + 1) .. (seq - 1))
               = {s \in lo .. seq : s \notin held \cup {seq}}
<1>1. lo .. seq = (lo .. cur) \cup ((cur + 1) .. (seq - 1)) \cup {seq}
  OBVIOUS
<1>2. \A s \in (cur + 1) .. (seq - 1) : s \notin held /\ s # seq
  OBVIOUS
<1>3. \A s \in lo .. cur : s # seq
  OBVIOUS
<1>4. QED
  BY <1>1, <1>2, <1>3

\* processData: a block is stored under its number and the loss list follows.
LEMMA RecvDataKeeps ==
    ASSUME IInv, NEW m \in net, RecvData(m)
    PROVE  IInv'
<1> USE DEF IInv
<1>1. TypeOK' /\ RcvInv' /\ NetInv' /\ ConfirmInv'
  <2> DEFINE seq == m.seq
  <2>1. /\ seq \in Seqs /\ m.blk \in Seqs
        /\ seq >= rcvLastAck /\ seq \notin DOMAIN rcvBuf
        /\ seq <= sndCurrSeqNo
    BY PacketFields DEF RecvData, Acceptable, TypeOK, NetInv
  <2>2. m.blk = seq
    BY <2>1 DEF RecvData, NetInv, RcvInv, TypeOK, Acks, Seqs
  <2>3. /\ DOMAIN rcvBuf' = DOMAIN rcvBuf \cup {seq}
        /\ rcvBuf'[seq] = seq
        /\ \A s \in DOMAIN rcvBuf : rcvBuf'[s] = rcvBuf[s]
    BY <2>1, <2>2 DEF RecvData
  <2>4. UNCHANGED <<sndVars, rcvLastAck, rcvLastAckAck, received>>
    BY DEF RecvData
  <2>5. /\ rcvCurrSeqNo' = Larger(seq, rcvCurrSeqNo)
        /\ rcvCurrSeqNo' \in 0 .. MaxBlocks /\ rcvCurrSeqNo \in 0 .. MaxBlocks
        /\ rcvCurrSeqNo' >= rcvCurrSeqNo /\ rcvCurrSeqNo' >= seq
        /\ rcvCurrSeqNo' <= sndCurrSeqNo
    BY <2>1 DEF RecvData, Larger, TypeOK, RcvInv, Seqs
  <2>6. rcvLoss' = LossAfter(seq)
    BY DEF RecvData
  <2>7. LossListExact'
    <3>0. /\ rcvLastAck \in Int /\ rcvCurrSeqNo \in Int /\ seq \in Int
          /\ rcvLoss = {s \in rcvLastAck .. rcvCurrSeqNo : s \notin DOMAIN rcvBuf}
      BY <2>1, <2>5 DEF TypeOK, Acks, Seqs, RcvInv, LossListExact
    <3>1. CASE seq > rcvCurrSeqNo
      <4>1. rcvCurrSeqNo' = seq
        BY <2>1, <2>5, <3>1 DEF Larger, Seqs
      <4>2. rcvLoss' = rcvLoss \cup ((rcvCurrSeqNo + 1) .. (seq - 1))
        BY <2>6, <3>1 DEF LossAfter
      <4>3. /\ rcvLastAck <= rcvCurrSeqNo + 1
            /\ \A s \in DOMAIN rcvBuf : s <= rcvCurrSeqNo
        BY DEF RcvInv
      <4>4. rcvLoss' = {s \in rcvLastAck .. seq : s \notin DOMAIN rcvBuf \cup {seq}}
        BY <4>2, <4>3, <3>0, <3>1, LossExtended
      <4>5. QED
        BY <2>3, <2>4, <4>1, <4>4 DEF LossListExact
    <3>2. CASE ~(seq > rcvCurrSeqNo)
      <4>1. rcvCurrSeqNo' = rcvCurrSeqNo
        BY <2>1, <2>5, <3>2 DEF Larger, Seqs
      <4>2. rcvLoss' = rcvLoss \ {seq}
        BY <2>6, <3>2 DEF LossAfter
      <4>3. QED
        BY <2>3, <2>4, <3>0, <4>1, <4>2 DEF LossListExact
    <3>3. QED BY <3>1, <3>2
  <2>8. /\ Len(received) \in Nat /\ rcvLastAck \in Acks
        /\ sndLastDataAck \in Int
    BY DEF TypeOK, Acks
  <2>9. /\ DOMAIN rcvBuf' \subseteq (Len(received) + 1) .. rcvCurrSeqNo'
        /\ \A s \in DOMAIN rcvBuf' : rcvBuf'[s] = s
        /\ \A s \in (Len(received) + 1) .. (rcvLastAck - 1) :
              s \in DOMAIN rcvBuf'
    BY <2>1, <2>3, <2>5, <2>8 DEF RcvInv, Acks, Seqs
  <2>10. RcvInv'
    BY <2>4, <2>5, <2>7, <2>8, <2>9 DEF RcvInv, Acks, sndVars
  <2>11. net' \in {net, net \cup {Nak(rcvCurrSeqNo + 1, seq - 1)}}
         /\ (net' # net => seq > rcvCurrSeqNo + 1)
    BY DEF RecvData
  <2>12. seq > rcvCurrSeqNo + 1 =>
             rcvCurrSeqNo + 1 \in Seqs /\ seq - 1 \in Seqs
    BY <2>1, <2>5, TransferAssumption DEF Seqs
  <2>13. net' \subseteq Packet
    BY <2>11, <2>12, NewPackets DEF TypeOK
  <2>14. rcvLoss' \subseteq Seqs
    BY <2>4, <2>5, <2>7, TransferAssumption
       DEF LossListExact, TypeOK, Acks, Seqs
  <2>15. TypeOK'
    BY <2>1, <2>3, <2>4, <2>5, <2>13, <2>14
       DEF TypeOK, sndVars, bufVars, wndVars, workerVars, handlerVars
  <2>16. ASSUME NEW n \in net'
         PROVE  /\ n.type = "data" =>
                      /\ n.seq <= sndCurrSeqNo
                      /\ n.blk # n.seq => n.seq < sndLastDataAck
                /\ n.type = "ack" => n.ack <= rcvLastAck
                /\ n.type = "lite" => n.ack <= rcvCurrSeqNo' + 1
                /\ n.type = "nak" => n.lo <= n.hi /\ n.hi <= rcvCurrSeqNo'
                /\ n.type = "ack2" => n.ack <= Applied
    <3>1. CASE n \in net
      <4>1. n \in Packet
        BY <3>1 DEF TypeOK
      <4>2. n.type = "lite" => n.ack <= rcvCurrSeqNo' + 1
        BY <2>5, <3>1, <4>1, PacketFields DEF NetInv, Acks
      <4>3. n.type = "nak" => n.lo <= n.hi /\ n.hi <= rcvCurrSeqNo'
        BY <2>5, <3>1, <4>1, PacketFields DEF NetInv, Seqs
      <4>4. QED BY <3>1, <4>2, <4>3 DEF NetInv, ConfirmInv
    <3>2. CASE n = Nak(rcvCurrSeqNo + 1, seq - 1) /\ seq > rcvCurrSeqNo + 1
      BY <2>1, <2>5, <3>2 DEF Nak, Seqs
    <3>3. QED BY <2>11, <3>1, <3>2
  <2>17. NetInv'
    BY <2>4, <2>16 DEF NetInv, sndVars
  <2>18. Applied' = Applied
    BY <2>4 DEF Applied, Larger, sndVars, handlerVars
  <2>19. ConfirmInv'
    BY <2>4, <2>16, <2>18 DEF ConfirmInv
  <2>20. QED BY <2>10, <2>15, <2>17, <2>19
<1>2. ThreadInv'
  BY PacketFields DEF RecvData, ThreadInv, Larger, sndVars, workerVars,
     wndVars, handlerVars, TypeOK, Seqs
<1>3. SndInv' /\ SchedInv'
  BY DEF RecvData, SndInv, SchedInv, sndVars, bufVars, wndVars, workerVars,
     handlerVars
<1>4. QED
  BY <1>1, <1>2, <1>3

\* An ACK covers only what is stored without a hole.
LEMMA AckTimerKeeps ==
    ASSUME IInv, AckTimer
    PROVE  IInv'
<1> USE DEF IInv
<1>1. TypeOK' /\ ThreadInv' /\ NetInv' /\ ConfirmInv'
  <2>1. PICK ack \in AckNos :
            /\ ack >= rcvLastAck /\ rcvLastAck' = ack
            /\ net' \in {net, net \cup
                         {FullAck(ack, AdvertisedWindow(AvailBufSize(ack)))}}
    BY DEF AckTimer, AckDue
  <2>2. ack \in Acks
    BY TransferAssumption DEF AckNos, TypeOK, Acks, Seqs
  <2>3. AdvertisedWindow(AvailBufSize(ack)) \in Windows
    <3>1. /\ Len(received) \in Nat /\ rcvLastAck \in Int
          /\ Len(received) + 1 <= ack
      BY <2>1, <2>2 DEF TypeOK, RcvInv, Acks
    <3>2. QED
      BY <2>2, <3>1, TransferAssumption
         DEF AdvertisedWindow, AvailBufSize, Larger, Acks, Windows
  <2>4. UNCHANGED <<sndVars, rcvCurrSeqNo, rcvLastAckAck, rcvLoss, rcvBuf,
                    received>>
    BY DEF AckTimer
  <2>5. net' \subseteq Packet
    BY <2>1, <2>2, <2>3, NewPackets DEF TypeOK
  <2>6. TypeOK'
    BY <2>1, <2>2, <2>4, <2>5
       DEF TypeOK, sndVars, bufVars, wndVars, workerVars, handlerVars
  <2>7. ThreadInv'
    BY <2>1, <2>2, <2>4
       DEF ThreadInv, TypeOK, Acks, sndVars, workerVars, wndVars, handlerVars
  <2>8. ASSUME NEW m \in net
        PROVE  m.type = "ack" => m.ack <= rcvLastAck'
    <3>1. m.type = "ack" => m.ack \in Acks /\ m.ack <= rcvLastAck
      BY PacketFields DEF TypeOK, NetInv
    <3>2. QED
      BY <2>1, <2>2, <3>1 DEF TypeOK, Acks
  <2>9. NetInv'
    BY <2>1, <2>2, <2>4, <2>8 DEF NetInv, FullAck, Acks, sndVars
  <2>10. ConfirmInv'
    BY <2>1, <2>4
       DEF ConfirmInv, Applied, Larger, FullAck, sndVars, handlerVars
  <2>11. QED
    BY <2>6, <2>7, <2>9, <2>10
<1>2. RcvInv'
  <2>1. PICK ack \in AckNos : ack >= rcvLastAck /\ rcvLastAck' = ack
    BY DEF AckTimer, AckDue
  <2>2. /\ rcvCurrSeqNo \in Int /\ rcvLastAck \in Int /\ ack \in Int
        /\ ack <= rcvCurrSeqNo + 1 /\ \A s \in rcvLoss : ack <= s
    BY <2>1 DEF AckNos, TypeOK, RcvInv, LossListExact, Acks, Seqs
  <2>3. \A s \in rcvLastAck .. (ack - 1) : s \in DOMAIN rcvBuf
    BY <2>2 DEF RcvInv, LossListExact
  <2>4. UNCHANGED <<sndVars, rcvCurrSeqNo, rcvLoss, rcvBuf, received>>
    BY DEF AckTimer
  <2>5. LossListExact'
    BY <2>1, <2>2, <2>3, <2>4 DEF RcvInv, LossListExact
  <2>6. \A s \in (Len(received) + 1) .. (ack - 1) : s \in DOMAIN rcvBuf
    BY <2>2, <2>3 DEF RcvInv, TypeOK
  <2>7. Len(received) \in Nat /\ sndLastDataAck \in Int
    BY DEF TypeOK, Acks
  <2>8. QED
    BY <2>1, <2>2, <2>5, <2>6, <2>7, <2>4 DEF RcvInv, sndVars
<1>3. SndInv' /\ SchedInv'
  BY DEF AckTimer, SndInv, SchedInv, sndVars, bufVars, wndVars, workerVars,
     handlerVars
<1>4. QED
  BY <1>1, <1>2, <1>3

\* So does a lite ACK, which records nothing.
LEMMA LightAckKeeps ==
    ASSUME IInv, LightAck
    PROVE  IInv'
<1> USE DEF IInv
<1>1. TypeOK' /\ NetInv' /\ ConfirmInv'
  <2>1. PICK ack \in AckNos : net' = net \cup {LiteAck(ack)}
    BY DEF LightAck
  <2>2. ack \in Acks /\ ack <= rcvCurrSeqNo + 1
    BY TransferAssumption
       DEF AckNos, TypeOK, RcvInv, LossListExact, Acks, Seqs
  <2>3. net' \subseteq Packet
    BY <2>1, <2>2, NewPackets DEF TypeOK
  <2>4. UNCHANGED <<sndVars, rcvVars>>
    BY DEF LightAck
  <2>5. TypeOK'
    BY <2>3, <2>4
       DEF TypeOK, sndVars, rcvVars, bufVars, wndVars, workerVars, handlerVars
  <2>6. NetInv'
    BY <2>1, <2>2, <2>4 DEF NetInv, LiteAck, sndVars, rcvVars
  <2>7. ConfirmInv'
    BY <2>1, <2>4
       DEF ConfirmInv, Applied, Larger, LiteAck, sndVars, rcvVars, handlerVars
  <2>8. QED
    BY <2>5, <2>6, <2>7
<1>2. SndInv' /\ ThreadInv' /\ RcvInv' /\ SchedInv'
  BY DEF LightAck, SndInv, ThreadInv, RcvInv, SchedInv, sndVars, bufVars,
     wndVars, rcvVars, workerVars, handlerVars, LossListExact
<1>3. QED
  BY <1>1, <1>2

\* An ACK2 confirms an ACK the sender applies or has applied.
LEMMA RecvAck2Keeps ==
    ASSUME IInv, NEW m \in net, RecvAck2(m)
    PROVE  IInv'
<1> USE DEF IInv
<1>1. TypeOK'
  BY PacketFields DEF RecvAck2, TypeOK, ConfirmedAck, sndVars, bufVars,
     wndVars, workerVars, handlerVars
<1>2. ConfirmInv'
  BY DEF RecvAck2, ConfirmInv, ConfirmedAck, Applied, sndVars, handlerVars
<1>3. SndInv' /\ ThreadInv' /\ RcvInv' /\ NetInv' /\ SchedInv'
  BY DEF RecvAck2, SndInv, ThreadInv, RcvInv, NetInv, SchedInv, sndVars,
     bufVars, wndVars, workerVars, handlerVars, LossListExact
<1>4. QED
  BY <1>1, <1>2, <1>3

\* CUDT::recv reads the next block of the acknowledged part.
LEMMA AppRecvKeeps ==
    ASSUME IInv, AppRecv
    PROVE  IInv'
<1> USE DEF IInv
<1>1. TypeOK' /\ RcvInv'
  <2> DEFINE head == Len(received) + 1
  <2>1. /\ head \in Nat \ {0} /\ head < rcvLastAck /\ rcvLastAck \in Acks
        /\ rcvLastAck <= rcvCurrSeqNo + 1 /\ rcvCurrSeqNo \in Nat
    BY DEF AppRecv, TypeOK, RcvInv, Acks
  <2>2. head \in DOMAIN rcvBuf /\ rcvBuf[head] = head /\ head \in Seqs
    BY <2>1 DEF RcvInv, TypeOK, Acks, Seqs
  <2>3. received' = Append(received, head)
    BY <2>2 DEF AppRecv
  <2>4. /\ received' \in Seq(Seqs) /\ Len(received') = head
        /\ \A i \in 1 .. head : received'[i] = i
    BY <2>2, <2>3 DEF TypeOK, RcvInv
  <2>5. /\ DOMAIN rcvBuf' = DOMAIN rcvBuf \ {head}
        /\ \A s \in DOMAIN rcvBuf' : rcvBuf'[s] = rcvBuf[s]
    BY DEF AppRecv
  <2>6. UNCHANGED <<sndVars, rcvCurrSeqNo, rcvLastAck, rcvLastAckAck, rcvLoss,
                    net>>
    BY DEF AppRecv
  <2>7. TypeOK'
    BY <2>4, <2>5, <2>6
       DEF TypeOK, sndVars, bufVars, wndVars, workerVars, handlerVars
  <2>8. LossListExact'
    BY <2>1, <2>5, <2>6 DEF RcvInv, LossListExact, Acks
  <2>9. /\ DOMAIN rcvBuf' \subseteq (head + 1) .. rcvCurrSeqNo
        /\ \A s \in DOMAIN rcvBuf' : rcvBuf'[s] = s
        /\ \A s \in (head + 1) .. (rcvLastAck - 1) : s \in DOMAIN rcvBuf'
    BY <2>1, <2>5 DEF RcvInv
  <2>10. head + 1 <= rcvLastAck
    BY <2>1 DEF Acks
  <2>11. QED
    BY <2>4, <2>6, <2>7, <2>8, <2>9, <2>10 DEF RcvInv, sndVars
<1>2. SndInv' /\ ThreadInv' /\ NetInv' /\ ConfirmInv' /\ SchedInv'
  BY DEF AppRecv, SndInv, ThreadInv, NetInv, ConfirmInv, SchedInv, sndVars,
     bufVars, wndVars, workerVars, handlerVars, Applied
<1>3. QED
  BY <1>1, <1>2

-----------------------------------------------------------------------------
(* The invariant holds in every reachable state.                           *)

\* Both ends start with empty buffers.
LEMMA InitInv == Init => IInv
<1> SUFFICES ASSUME Init PROVE IInv
  OBVIOUS
<1>1. TypeOK
  <2>1. /\ 1 \in Acks /\ 0 \in 0 .. MaxBlocks /\ 0 \in 0 .. (MaxBlocks + 1)
        /\ RcvBufSize \in Int
    BY TransferAssumption DEF Acks
  <2>2. /\ DOMAIN rcvBuf = {} /\ received = <<>> /\ net = {}
        /\ sndLoss = {} /\ rcvLoss = {}
    BY DEF Init
  <2>3. received \in Seq(Seqs) /\ sndPkt \in DataPacket \cup {NoPkt}
    BY <2>2 DEF Init
  <2>4. \A s \in DOMAIN rcvBuf : rcvBuf[s] \in Seqs
    BY <2>2
  <2>5. /\ sndPc = "pop" /\ rcvPc = "idle" /\ appPc = "idle" /\ broken = "no"
        /\ onList = FALSE
    BY DEF Init
  <2>6. /\ sndFirst \in Acks /\ sndNext \in Acks /\ sndEnd \in Acks
        /\ sndLastAck \in Acks /\ sndLastDataAck \in Acks
        /\ rcvLastAck \in Acks /\ rcvLastAckAck \in Acks
        /\ sndCurrSeqNo \in 0 .. MaxBlocks /\ rcvCurrSeqNo \in 0 .. MaxBlocks
        /\ flowWindow \in Int /\ sndReg \in Int
        /\ ackReg \in 0 .. (MaxBlocks + 1)
    BY <2>1 DEF Init, InitialFlowWindow
  <2>7. QED
    BY <2>2, <2>3, <2>4, <2>5, <2>6 DEF TypeOK
<1>2. SndInv /\ ThreadInv /\ NetInv /\ ConfirmInv /\ SchedInv
  BY DEF Init, SndInv, ThreadInv, NetInv, ConfirmInv, Applied, SchedInv
<1>3. RcvInv
  BY DEF Init, RcvInv, LossListExact
<1>4. QED
  BY <1>1, <1>2, <1>3 DEF IInv

\* The invariant is about the variables only.
LEMMA StutterInv ==
    ASSUME IInv, UNCHANGED vars
    PROVE  IInv'
<1> USE DEF IInv, vars, sndVars, rcvVars, bufVars, wndVars, workerVars,
            handlerVars
<1>1. TypeOK'
  BY DEF TypeOK
<1>2. SndInv' /\ ThreadInv'
  BY DEF SndInv, ThreadInv
<1>3. RcvInv' /\ NetInv'
  BY DEF RcvInv, LossListExact, NetInv
<1>4. ConfirmInv' /\ SchedInv'
  BY DEF ConfirmInv, Applied, Larger, SchedInv
<1>5. QED
  BY <1>1, <1>2, <1>3, <1>4

\* One case per action.
LEMMA NextInv ==
    ASSUME IInv, [Next]_vars
    PROVE  IInv'
<1>1. CASE AppSend \/ AppUpdate
  BY <1>1, AppSendKeeps, AppUpdateKeeps
<1>2. CASE Pop \/ PackLost \/ PackNew \/ SendTo
  BY <1>2, PopKeeps, PackLostKeeps, PackNewKeeps, SendToKeeps
<1>3. CASE SetLastAck \/ AckRelease \/ HandlerUpdate \/ ExpTimer \/ ExpBroken
  BY <1>3, SetLastAckKeeps, AckReleaseKeeps, HandlerUpdateKeeps, ExpTimerKeeps,
     ExpBrokenKeeps
<1>4. CASE AckTimer \/ LightAck \/ AppRecv
  BY <1>4, AckTimerKeeps, LightAckKeeps, AppRecvKeeps
<1>5. ASSUME NEW m \in net, Deliver(m)
      PROVE  IInv'
  BY <1>5, RecvLiteAckKeeps, RecvAckKeeps, RecvNakKeeps, RecvDataKeeps,
     RecvAck2Keeps DEF Deliver
<1>6. CASE UNCHANGED vars
  BY <1>6, StutterInv
<1>7. QED
  BY <1>1, <1>2, <1>3, <1>4, <1>5, <1>6 DEF Next

\* The inductive invariant: buffer, loss lists, windows, network messages and
\* the locals of the threads agree in every reachable state.
THEOREM Invariance == Spec => []IInv
<1>1. Init => IInv
  BY InitInv
<1>2. IInv /\ [Next]_vars => IInv'
  BY NextInv
<1>3. QED
  BY <1>1, <1>2, PTL DEF Spec

-----------------------------------------------------------------------------
(* What it says of the connection.                                         *)

\* Every variable of both ends stays in its range, the buffers and the
\* sequence numbers included.
THEOREM TypeCorrect == Spec => []TypeOK
<1>1. IInv => TypeOK
  BY DEF IInv
<1>2. QED
  BY <1>1, Invariance, PTL

\* No ACK or NAK of an honest peer, late, repeated or reordered, makes
\* processCtrl break the connection (core.cpp:1997 and 2120-2160).
THEOREM HonestPeer == Spec => []HonestPeerTrusted
<1>1. IInv => HonestPeerTrusted
  BY DEF IInv, SndInv, HonestPeerTrusted
<1>2. QED
  BY <1>1, Invariance, PTL

\* ackData (core.cpp:2029) only releases blocks that the peer has acknowledged
\* and keeps until its application reads them.
THEOREM Released == Spec => []ReleasedIsStored
<1>1. IInv => ReleasedIsStored
  BY DEF IInv, SndInv, RcvInv, ReleasedIsStored
<1>2. QED
  BY <1>1, Invariance, PTL

\* The packet that sendto reads from a block released meanwhile
\* (queue.cpp:539) carries a number the peer's processData refuses.
THEOREM StaleCopies == Spec => []StaleCopyRefused
<1>1. ASSUME IInv, NEW m \in net, m.type = "data", m.blk # m.seq
      PROVE  m.seq < rcvLastAck
  <2>1. m.seq < sndLastDataAck /\ sndLastDataAck <= rcvLastAck
    BY <1>1 DEF IInv, NetInv, RcvInv
  <2>2. m.seq \in Seqs /\ sndLastDataAck \in Acks /\ rcvLastAck \in Acks
    BY <1>1, PacketFields DEF IInv, TypeOK
  <2>3. QED
    BY <2>1, <2>2 DEF Seqs, Acks
<1>2. IInv => StaleCopyRefused
  BY <1>1 DEF StaleCopyRefused
<1>3. QED
  BY <1>2, Invariance, PTL

\* processData (core.cpp:2417-2446) keeps the receiver's loss list equal to the
\* set of the holes, so that an ACK never covers one.
THEOREM LossList == Spec => []LossListExact
<1>1. IInv => LossListExact
  BY DEF IInv, RcvInv
<1>2. QED
  BY <1>1, Invariance, PTL

\* An ACK2 (core.cpp:2085-2109) never confirms an ACK that the sender has not
\* begun to apply.
THEOREM Confirmed == Spec => []ConfirmedAckIsApplied
<1>1. IInv => ConfirmedAckIsApplied
  BY DEF IInv, ConfirmInv, Applied, ConfirmedAckIsApplied
<1>2. QED
  BY <1>1, Invariance, PTL

\* Whatever the order of pop, packData, NAKs, ACKs and timers, a recorded loss
\* has a thread or a list entry that will see to it.
THEOREM Scheduled == Spec => []LossScheduled
<1>1. IInv => LossScheduled
  BY DEF IInv, SchedInv, TypeOK, LossScheduled
<1>2. QED
  BY <1>1, Invariance, PTL

-----------------------------------------------------------------------------
(* The loss list of the sender and its window.                             *)

\* What keeps the losses near the largest number sent: the window bounds what
\* is not acknowledged, a loss is recorded from m_iSndLastAck on, and a worker
\* that goes on to send something new found no loss; one recorded since holds
\* the handler at the lock of the send list, so that no ACK comes in between.
SpanInv ==
    /\ flowWindow <= RcvBufSize
    /\ sndPc = "new" => sndReg <= RcvBufSize
    /\ sndCurrSeqNo - sndLastAck < InitialFlowWindow
    /\ \A s \in sndLoss : sndCurrSeqNo - s < InitialFlowWindow
    /\ sndPc = "new" /\ sndLoss # {} =>
           /\ rcvPc = "update"
           /\ \A s \in sndLoss : s >= sndLastAck

\* The values the step lemmas compute with.
LEMMA SpanTypes ==
    ASSUME TypeOK
    PROVE  /\ sndCurrSeqNo \in Int /\ sndLastAck \in Int /\ flowWindow \in Int
           /\ sndReg \in Int /\ ackReg \in Int
           /\ InitialFlowWindow \in Int /\ InitialFlowWindow = RcvBufSize
           /\ \A s \in sndLoss : s \in Int
BY TransferAssumption DEF TypeOK, Acks, Seqs, InitialFlowWindow

\* Steps that leave the window, the losses and the worker alone.
LEMMA SpanUntouched ==
    ASSUME SpanInv,
           UNCHANGED <<flowWindow, sndPc, sndReg, sndCurrSeqNo, sndLastAck,
                       sndLoss>>,
           sndPc = "new" /\ rcvPc = "update" => rcvPc' = "update"
    PROVE  SpanInv'
BY DEF SpanInv, InitialFlowWindow

\* The worker: a new number is sent only inside the window it has read.
LEMMA WorkerKeepsSpan ==
    ASSUME IInv, SpanInv, Pop \/ PackLost \/ PackNew \/ SendTo
    PROVE  SpanInv'
<1> USE SpanTypes DEF IInv
<1>1. CASE Pop
  <2>1. CASE broken # "no"
    BY <1>1, <2>1 DEF Pop, SpanInv, workerVars, wndVars, handlerVars,
       InitialFlowWindow
  <2>2. CASE broken = "no" /\ sndLoss # {}
    BY <1>1, <2>2 DEF Pop, SpanInv, wndVars, handlerVars, InitialFlowWindow
  <2>3. CASE broken = "no" /\ sndLoss = {}
    BY <1>1, <2>3, TransferAssumption
       DEF Pop, SpanInv, wndVars, handlerVars, InitialFlowWindow, Smaller
  <2>4. QED BY <2>1, <2>2, <2>3
<1>2. CASE PackLost
  BY <1>2 DEF PackLost, SpanInv, wndVars, handlerVars, InitialFlowWindow
<1>3. CASE PackNew
  <2>1. CASE ~(WindowOpen /\ sndNext < sndEnd)
    BY <1>3, <2>1 DEF PackNew, SpanInv, wndVars, handlerVars,
       InitialFlowWindow
  <2>2. CASE WindowOpen /\ sndNext < sndEnd
    <3>1. /\ sndCurrSeqNo' = sndCurrSeqNo + 1 /\ sndPc' = "sendto"
          /\ UNCHANGED <<wndVars, sndLoss>>
      BY <1>3, <2>2 DEF PackNew
    <3>2. sndCurrSeqNo + 1 - sndLastAck < InitialFlowWindow
      BY <1>3, <2>2 DEF PackNew, SpanInv, WindowOpen
    <3>3. \A s \in sndLoss : s >= sndLastAck
      BY <1>3 DEF PackNew, SpanInv
    <3>4. \A s \in sndLoss : sndCurrSeqNo + 1 - s < InitialFlowWindow
      BY <3>2, <3>3
    <3>5. QED
      BY <3>1, <3>2, <3>4 DEF SpanInv, wndVars, InitialFlowWindow
  <2>3. QED BY <2>1, <2>2
<1>4. CASE SendTo
  BY <1>4 DEF SendTo, SpanInv, wndVars, handlerVars, InitialFlowWindow
<1>5. QED
  BY <1>1, <1>2, <1>3, <1>4

\* An ACK grants a window no larger than the receiver's buffer and only moves
\* m_iSndLastAck up.
LEMMA AckKeepsSpan ==
    ASSUME IInv, SpanInv,
           \/ \E m \in net : RecvLiteAck(m) \/ RecvAck(m)
           \/ SetLastAck \/ AckRelease
    PROVE  SpanInv'
<1> USE SpanTypes DEF IInv
<1>1. ASSUME NEW m \in net, RecvLiteAck(m)
      PROVE  SpanInv'
  <2>1. m.ack \in Int
    BY <1>1, PacketFields DEF RecvLiteAck, TypeOK, Acks
  <2>2. flowWindow' <= flowWindow /\ flowWindow' \in Int
    BY <1>1, <2>1 DEF RecvLiteAck
  <2>3. QED
    BY <1>1, <2>2, TransferAssumption
       DEF RecvLiteAck, Listening, SpanInv, workerVars, InitialFlowWindow
<1>2. ASSUME NEW m \in net, RecvAck(m)
      PROVE  SpanInv'
  <2>1. m.wnd \in Int /\ m.wnd <= RcvBufSize
    BY <1>2, PacketFields, TransferAssumption DEF RecvAck, TypeOK, Windows
  <2>2. flowWindow' = flowWindow \/ flowWindow' = m.wnd
    BY <1>2 DEF RecvAck
  <2>3. flowWindow' <= RcvBufSize
    BY <2>1, <2>2 DEF SpanInv
  <2>4. QED
    BY <1>2, <2>3
       DEF RecvAck, Listening, SpanInv, workerVars, InitialFlowWindow
<1>3. CASE SetLastAck
  <2>1. sndLastAck' = ackReg /\ ackReg >= sndLastAck /\ rcvPc # "update"
    BY <1>3 DEF SetLastAck, ThreadInv
  <2>2. sndCurrSeqNo - sndLastAck' < InitialFlowWindow
    BY <2>1 DEF SpanInv
  <2>3. UNCHANGED <<flowWindow, sndPc, sndReg, sndCurrSeqNo, sndLoss>>
    BY <1>3 DEF SetLastAck, workerVars
  <2>4. QED
    BY <2>1, <2>2, <2>3 DEF SpanInv, InitialFlowWindow
<1>4. CASE AckRelease
  <2>1. sndLoss' \subseteq sndLoss
    BY <1>4 DEF AckRelease, StillLost
  <2>2. rcvPc = "release"
        /\ UNCHANGED <<flowWindow, sndPc, sndReg, sndCurrSeqNo, sndLastAck>>
    BY <1>4 DEF AckRelease, wndVars, workerVars
  <2>3. QED
    BY <2>1, <2>2 DEF SpanInv, InitialFlowWindow
<1>5. QED
  BY <1>1, <1>2, <1>3, <1>4

\* NAKs and the EXP timer record losses from m_iSndLastAck on.
LEMMA LossKeepsSpan ==
    ASSUME IInv, SpanInv,
           (\E m \in net : RecvNak(m)) \/ ExpTimer \/ ExpBroken
    PROVE  SpanInv'
<1> USE SpanTypes DEF IInv
<1>1. ASSUME NEW m \in net, RecvNak(m)
      PROVE  SpanInv'
  <2>1. m.lo \in Int /\ m.hi \in Int
    BY <1>1, PacketFields DEF RecvNak, TypeOK, Seqs
  <2>2. \A s \in NakLosses(m) : s \in Int /\ s >= sndLastAck
    BY <2>1 DEF NakLosses, Larger
  <2>3. rcvPc = "idle" /\ UNCHANGED <<flowWindow, sndPc, sndReg, sndCurrSeqNo,
                                      sndLastAck>>
    BY <1>1 DEF RecvNak, Listening, wndVars, workerVars
  <2>4. sndPc = "new" => sndLoss = {}
    BY <2>3 DEF SpanInv
  <2>5. \/ sndLoss' = sndLoss
        \/ sndLoss' = sndLoss \cup NakLosses(m) /\ rcvPc' = "update"
    BY <1>1 DEF RecvNak
  <2>6. \A s \in NakLosses(m) : sndCurrSeqNo - s < InitialFlowWindow
    BY <2>2 DEF SpanInv
  <2>7. QED
    BY <2>2, <2>3, <2>4, <2>5, <2>6 DEF SpanInv, InitialFlowWindow
<1>2. CASE ExpTimer
  <2>1. rcvPc = "idle" /\ UNCHANGED <<flowWindow, sndPc, sndReg, sndCurrSeqNo,
                                      sndLastAck>>
    BY <1>2 DEF ExpTimer, Listening, wndVars, workerVars
  <2>2. sndPc = "new" => sndLoss = {}
    BY <2>1 DEF SpanInv
  <2>3. /\ sndLoss' = sndLoss \/ sndLoss' = sndLastAck .. sndCurrSeqNo
        /\ rcvPc' = "update"
    BY <1>2 DEF ExpTimer
  <2>4. \A s \in sndLastAck .. sndCurrSeqNo :
            s >= sndLastAck /\ sndCurrSeqNo - s < InitialFlowWindow
    BY DEF SpanInv
  <2>5. QED
    BY <2>1, <2>2, <2>3, <2>4 DEF SpanInv, InitialFlowWindow
<1>3. CASE ExpBroken
  BY <1>3 DEF ExpBroken, Listening, SpanInv, wndVars, workerVars,
     InitialFlowWindow
<1>4. QED
  BY <1>1, <1>2, <1>3

\* One case per action.
LEMMA SpanStep ==
    ASSUME IInv, SpanInv, [Next]_vars
    PROVE  SpanInv'
<1>1. CASE AppSend \/ AppUpdate
  BY <1>1, SpanUntouched DEF AppSend, AppUpdate, wndVars, workerVars,
     handlerVars
<1>2. CASE Pop \/ PackLost \/ PackNew \/ SendTo
  BY <1>2, WorkerKeepsSpan
<1>3. CASE SetLastAck \/ AckRelease
  BY <1>3, AckKeepsSpan
<1>4. CASE HandlerUpdate
  BY <1>4, SpanUntouched DEF HandlerUpdate, ListLockFree, wndVars, workerVars
<1>5. CASE ExpTimer \/ ExpBroken
  BY <1>5, LossKeepsSpan
<1>6. CASE AckTimer \/ LightAck \/ AppRecv
  BY <1>6, SpanUntouched DEF AckTimer, LightAck, AppRecv, sndVars, wndVars,
     workerVars, handlerVars
<1>7. ASSUME NEW m \in net, Deliver(m)
      PROVE  SpanInv'
  <2>1. CASE RecvLiteAck(m) \/ RecvAck(m)
    BY <2>1, AckKeepsSpan
  <2>2. CASE RecvNak(m)
    BY <2>2, LossKeepsSpan
  <2>3. CASE RecvData(m) \/ RecvAck2(m)
    BY <2>3, SpanUntouched DEF RecvData, RecvAck2, sndVars, wndVars,
       workerVars, handlerVars
  <2>4. QED
    BY <1>7, <2>1, <2>2, <2>3 DEF Deliver
<1>8. CASE UNCHANGED vars
  BY <1>8, SpanUntouched DEF vars, sndVars, wndVars, workerVars, handlerVars
<1>9. QED
  BY <1>1, <1>2, <1>3, <1>4, <1>5, <1>6, <1>7, <1>8 DEF Next

\* What the loss list holds is not acknowledged and no further back than the
\* first window, however small the peer's buffer is beside the sender's: the
\* array of twice that window (core.cpp:763 and 861) is never outgrown.
THEOREM LossesFit == Spec => []SndLossFits
<1>1. Init => SpanInv
  BY TransferAssumption DEF Init, SpanInv, InitialFlowWindow
<1>2. IInv /\ SpanInv /\ [Next]_vars => SpanInv'
  BY SpanStep
<1>3. IInv /\ SpanInv => SndLossFits
  BY DEF IInv, SndInv, SpanInv, SndLossFits
<1>4. QED
  BY <1>1, <1>2, <1>3, Invariance, PTL DEF Spec

-----------------------------------------------------------------------------
(* The protocol implements the stream.                                     *)

\* At first nothing is written and nothing read.
LEMMA InitRefines == Init => STREAM!StreamInit
BY DEF Init, STREAM!StreamInit

\* CUDT::send is the only step that writes.
LEMMA WriteRefines ==
    ASSUME IInv, AppSend
    PROVE  STREAM!Write
BY DEF IInv, TypeOK, Acks, AppSend, rcvVars, STREAM!Write

\* CUDT::recv returns the next block written.
LEMMA ReadRefines ==
    ASSUME IInv, AppRecv
    PROVE  STREAM!Read
<1> DEFINE head == Len(received) + 1
<1>1. /\ head \in Nat \ {0} /\ head < rcvLastAck
      /\ rcvLastAck <= rcvCurrSeqNo + 1 /\ rcvCurrSeqNo <= sndCurrSeqNo
      /\ sndCurrSeqNo + 1 <= sndEnd
  BY DEF IInv, TypeOK, Acks, RcvInv, SndInv, AppRecv
<1>2. Len(received) < sndEnd - 1
  BY <1>1 DEF IInv, TypeOK, Acks
<1>3. head \in DOMAIN rcvBuf /\ rcvBuf[head] = head
  BY <1>1 DEF IInv, TypeOK, Acks, RcvInv
<1>4. received' = Append(received, Len(received) + 1)
  BY <1>3 DEF AppRecv
<1>5. sndEnd' = sndEnd
  BY DEF AppRecv, sndVars, bufVars
<1>6. QED
  BY <1>2, <1>4, <1>5 DEF STREAM!Read

\* Every step writes one block, reads the next one, or does neither.
LEMMA StepRefines ==
    ASSUME IInv, [Next]_vars
    PROVE  [STREAM!StreamNext]_STREAM!streamVars
<1> USE DEF STREAM!streamVars
<1>1. CASE AppSend
  BY <1>1, WriteRefines DEF STREAM!StreamNext
<1>2. CASE AppRecv
  BY <1>2, ReadRefines DEF STREAM!StreamNext
<1>3. CASE AppUpdate \/ Pop \/ PackLost \/ PackNew \/ SendTo
  BY <1>3 DEF AppUpdate, Pop, PackLost, PackNew, SendTo, bufVars, rcvVars
<1>4. CASE SetLastAck \/ AckRelease \/ HandlerUpdate \/ ExpTimer \/ ExpBroken
  BY <1>4 DEF SetLastAck, AckRelease, HandlerUpdate, ExpTimer, ExpBroken,
     bufVars, rcvVars
<1>5. CASE AckTimer \/ LightAck \/ UNCHANGED vars
  BY <1>5 DEF AckTimer, LightAck, vars, sndVars, bufVars, rcvVars
<1>6. ASSUME NEW m \in net, Deliver(m)
      PROVE  UNCHANGED STREAM!streamVars
  BY <1>6 DEF Deliver, RecvLiteAck, RecvAck, RecvNak, RecvData, RecvAck2,
     sndVars, bufVars, rcvVars
<1>7. QED
  BY <1>1, <1>2, <1>3, <1>4, <1>5, <1>6 DEF Next

\* For every size of the buffers and of the window, and whatever the network
\* loses, repeats or reorders, the peer reads what was written, in order.
THEOREM StreamImplemented == Spec => StreamRefined
<1>1. Init => STREAM!StreamInit
  BY InitRefines
<1>2. IInv /\ [Next]_vars => [STREAM!StreamNext]_STREAM!streamVars
  BY StepRefines
<1>3. QED
  BY <1>1, <1>2, Invariance, PTL DEF Spec, StreamRefined, STREAM!StreamSpec
=============================================================================
