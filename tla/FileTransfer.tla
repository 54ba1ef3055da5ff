---------------------------- MODULE FileTransfer ----------------------------
(***************************************************************************)
(* CUDT::sendfile and CUDT::recvfile (core.cpp) with the file functions of *)
(* the buffers: one thread at each end of a connection, moving a file      *)
(* block by block.  The data transfer between the buffers is a queue that  *)
(* keeps the packets in order, as Transfer establishes; an error message   *)
(* of the receiver is a datagram and may be lost.  Data is counted in      *)
(* packets.  The file at the sender may be shorter than the call says, and *)
(* writing at the receiver may fail from any packet on.  Both sockets are  *)
(* synchronous: of others nobody signals the conditions the calls wait on. *)
(***************************************************************************)
EXTENDS Integers, Sequences

CONSTANTS FileLength,    \* packets in the sender's file
          SendSizes,     \* what sendfile may be asked for
          RecvSize,      \* what recvfile is asked for
          BlockSize,     \* block of both
          SndRoom,    \* m_iSndBufSize
          RcvRoom     \* packets that fit the receiving buffer

VARIABLES sender,    \* sendfile: pc, tosend, offset and the answer
          ifs,       \* its stream: position and whether a read has failed
          sndCount,  \* CSndBuffer::m_iCount
          stored,    \* the packets in the sending buffer, not acknowledged
          peerHealth,  \* m_bPeerHealth
          receiver,  \* recvfile: pc, torecv and offset
          ofs,       \* its stream: the packets written, whether writing fails
          received,  \* packets in the receiving buffer
          errors,    \* error messages on their way
          broken     \* the ends whose connection is broken or closed

fileVars == <<sender, ifs, sndCount, stored, peerHealth, receiver, ofs, received,
              errors, broken>>

Lesser(a, b) == IF a < b THEN a ELSE b

FileInit ==
    /\ \E size \in SendSizes : sender = [pc |-> "loop", tosend |-> size, offset |-> 0]
    /\ ifs = [pos |-> 0, fail |-> FALSE]
    /\ sndCount = 0 /\ stored = <<>>
    /\ peerHealth = TRUE
    /\ receiver = [pc |-> "loop", torecv |-> RecvSize, offset |-> 0]
    /\ ofs = [written |-> <<>>, bad |-> FALSE, fail |-> FALSE]
    /\ received = <<>>
    /\ errors = 0
    /\ broken = {}

senderVars == <<sender, ifs, sndCount, stored, peerHealth>>
receiverVars == <<receiver, ofs, received>>

-----------------------------------------------------------------------------
(* sendfile.                                                               *)

Full == SndRoom <= sndCount

SendEnds(how) == sender' = [sender EXCEPT !.pc = how]

\* One round: a stream that failed ends the call with an error, or it waits for
\* room in the buffer.
SendLoop ==
    /\ sender.pc = "loop"
    /\ SendEnds(IF sender.tosend <= 0 THEN "returned"
                ELSE IF ifs.fail THEN "file error"
                ELSE IF "snd" \notin broken /\ Full /\ peerHealth THEN "asleep"
                ELSE "awake")
    /\ UNCHANGED <<ifs, sndCount, stored, peerHealth, receiverVars, errors, broken>>

\* addBufferFromFile: the packets read go to the buffer; the count grows by
\* those asked for.
ReadBlock(n) ==
    LET got == Lesser(n, FileLength - ifs.pos) IN
    /\ stored' = stored \o [i \in 1 .. got |-> ifs.pos + i]
    /\ sndCount' = sndCount + n
    /\ ifs' = [pos |-> ifs.pos + got, fail |-> got < n]
    /\ sender' = [sender EXCEPT !.pc = "loop", !.tosend = @ - got, !.offset = @ + got]

\* Awake: the reason is looked at, and a block read where there is none.
SendBlock ==
    /\ sender.pc = "awake"
    /\ UNCHANGED <<receiverVars, errors, broken>>
    /\ IF "snd" \in broken \/ ~peerHealth
       THEN /\ SendEnds(IF "snd" \in broken THEN "broken" ELSE "peer error")
            /\ peerHealth' = (peerHealth \/ "snd" \notin broken)
            /\ UNCHANGED <<ifs, sndCount, stored>>
       ELSE /\ ReadBlock(Lesser(BlockSize, sender.tosend))
            /\ UNCHANGED peerHealth

\* A waiting thread is signalled and its condition has come true.
WakeSender(ready) ==
    IF sender.pc = "asleep" /\ ready THEN [sender EXCEPT !.pc = "awake"] ELSE sender
WakeReceiver(ready) ==
    IF receiver.pc = "asleep" /\ ready THEN [receiver EXCEPT !.pc = "awake"] ELSE receiver

-----------------------------------------------------------------------------
(* Between the buffers.                                                    *)

\* Packets are received, acknowledged and released.  sendCtrl(2) signals
\* m_RecvDataCond, and processCtrl(2) m_SendBlockCond, of a synchronous socket.
Deliver(n) ==
    /\ broken = {} /\ n <= Len(stored) /\ Len(received) + n <= RcvRoom
    /\ received' = received \o SubSeq(stored, 1, n)
    /\ stored' = SubSeq(stored, n + 1, Len(stored))
    /\ sndCount' = sndCount - n
    /\ sender' = WakeSender(sndCount' < SndRoom \/ ~peerHealth)
    /\ receiver' = WakeReceiver(TRUE)
    /\ UNCHANGED <<ifs, peerHealth, ofs, errors, broken>>

\* processCtrl(8): the error is noted, and no thread signalled.
ReceiveError ==
    /\ errors > 0 /\ "snd" \notin broken
    /\ errors' = errors - 1
    /\ peerHealth' = FALSE
    /\ UNCHANGED <<sender, ifs, sndCount, stored, receiverVars, broken>>

LoseError ==
    /\ errors > 0
    /\ errors' = errors - 1
    /\ UNCHANGED <<senderVars, receiverVars, broken>>

\* close at one end, or the end of its patience: releaseSynch wakes its caller.
Break(end) ==
    /\ end \notin broken
    /\ broken' = broken \cup {end}
    /\ sender' = WakeSender(end = "snd")
    /\ receiver' = WakeReceiver(end = "rcv")
    /\ UNCHANGED <<ifs, sndCount, stored, peerHealth, ofs, received, errors>>

-----------------------------------------------------------------------------
(* recvfile.                                                               *)

\* One round: a stream that failed is reported to the sender, once.
RecvLoop ==
    /\ receiver.pc = "loop"
    /\ receiver' = [receiver EXCEPT !.pc =
            IF receiver.torecv <= 0 THEN "returned"
            ELSE IF ofs.fail THEN "file error"
            ELSE IF "rcv" \notin broken /\ received = <<>> THEN "asleep" ELSE "awake"]
    /\ errors' = IF receiver.torecv > 0 /\ ofs.fail THEN errors + 1 ELSE errors
    /\ UNCHANGED <<senderVars, ofs, received, broken>>

\* Variant: what could not be written is gone.
TakenAnyway(k, n) == n
Taken(k, n) == k

\* readBufferToFile: packets leave the buffer as they are written, up to the
\* first that cannot be.
WriteBlock(n, k) ==
    /\ ofs' = [ofs EXCEPT !.written = @ \o SubSeq(received, 1, k), !.fail = k < n]
    /\ received' = SubSeq(received, Taken(k, n) + 1, Len(received))
    /\ receiver' = [receiver EXCEPT !.pc = "loop", !.torecv = @ - k, !.offset = @ + k]

RecvBlock ==
    /\ receiver.pc = "awake"
    /\ UNCHANGED <<senderVars, errors, broken>>
    /\ IF "rcv" \in broken /\ received = <<>>
       THEN /\ receiver' = [receiver EXCEPT !.pc = "broken"]
            /\ UNCHANGED <<ofs, received>>
       ELSE LET n == Lesser(Lesser(BlockSize, receiver.torecv), Len(received))
            IN  \E k \in 0 .. n : (k < n => ofs.bad) /\ WriteBlock(n, k)

\* The disk of the receiver fills up.
DiskFails ==
    /\ ~ofs.bad
    /\ ofs' = [ofs EXCEPT !.bad = TRUE]
    /\ UNCHANGED <<senderVars, receiver, received, errors, broken>>

FileNext ==
    \/ SendLoop \/ SendBlock \/ RecvLoop \/ RecvBlock
    \/ \E n \in 1 .. RcvRoom : Deliver(n)
    \/ ReceiveError \/ LoseError \/ DiskFails
    \/ \E end \in {"snd", "rcv"} : Break(end)

FileSpec == FileInit /\ [][FileNext]_fileVars

-----------------------------------------------------------------------------

\* However the two calls end, no packet of the file is lost or doubled between
\* the two offsets they report, so that both can be called again from there:
\* what was written, waits to be read and waits to be sent is the file up to
\* the sender's offset.  Unless the file was too short, m_iCount agrees.
OffsetsAccount ==
    /\ ofs.written \o received \o stored = [i \in 1 .. sender.offset |-> i]
    /\ Len(ofs.written) = receiver.offset
    /\ ifs.fail \/ sndCount = Len(stored)
=============================================================================
