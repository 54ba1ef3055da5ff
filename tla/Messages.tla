------------------------------ MODULE Messages ------------------------------
(***************************************************************************)
(* What a UDT message socket promises whatever is dropped: a message is    *)
(* read whole or not at all, at most once, and once a message sent to be   *)
(* in order has been read, nothing written before it is read any more.     *)
(***************************************************************************)
EXTENDS Naturals, Sequences

VARIABLES written,   \* the messages written: blocks, order, ttl
          read       \* the messages read, as the blocks they were made of

messagesVars == <<written, read>>

IsRead(m) == \E i \in DOMAIN read : read[i] = m.blocks

MessagesInit == written = <<>> /\ read = <<>>

WriteMessage ==
    /\ Len(written') = Len(written) + 1
    /\ SubSeq(written', 1, Len(written)) = written
    /\ UNCHANGED read

ReadMessage(n) ==
    /\ ~IsRead(written[n])
    /\ \A k \in (n + 1) .. Len(written) : written[k].order => ~IsRead(written[k])
    /\ read' = Append(read, written[n].blocks)
    /\ UNCHANGED written

MessagesNext == WriteMessage \/ \E n \in DOMAIN written : ReadMessage(n)

MessagesSpec == MessagesInit /\ [][MessagesNext]_messagesVars
=============================================================================
