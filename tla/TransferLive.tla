---------------------------- MODULE TransferLive ----------------------------
(***************************************************************************)
(* Transfer over a network that loses messages for good, with the fairness *)
(* its threads and timers have: what A accepts is eventually read by B's   *)
(* application and released from A's buffer, unless A declares B dead.     *)
(***************************************************************************)
EXTENDS Transfer

\* The network loses a message instead of delivering it to a thread ready for
\* it.  A message no fairness condition speaks of is lost by never arriving.
Lose(m) ==
    /\ m.type = "data" \/ (m.type = "ack" /\ Listening)
    /\ net' = net \ {m}
    /\ UNCHANGED <<sndVars, rcvVars>>

\* The connections judged here are those A never gives up.
LossyNext == (Next \/ \E m \in net : Lose(m)) /\ broken' = "no"

DataArrives(seq) == \E m \in net : m.type = "data" /\ m.seq = seq /\ RecvData(m)
AckArrives(ack) == \E m \in net : m.type = "ack" /\ m.ack = ack /\ RecvAck(m)

\* A packet sent over and over arrives over and over.
NetworkFairness ==
    /\ \A seq \in Seqs : SF_vars(DataArrives(seq))
    /\ \A ack \in Acks \ {1} : SF_vars(AckArrives(ack))

\* The worker threads loop for ever; a call in progress goes on; B's
\* application keeps reading.
ThreadFairness ==
    /\ WF_vars(AppUpdate) /\ WF_vars(AppRecv)
    /\ WF_vars(Pop) /\ WF_vars(PackLost) /\ WF_vars(PackNew) /\ WF_vars(SendTo)
    /\ WF_vars(SetLastAck) /\ WF_vars(AckRelease) /\ WF_vars(HandlerUpdate)

\* The timers expire again and again.  EXP waits for a silence: strong
\* fairness says that the peer falls silent now and then.
TimerFairness == WF_vars(AckTimer) /\ SF_vars(ExpTimer)

FairSpec ==
    /\ Init /\ [][LossyNext]_vars
    /\ NetworkFairness /\ ThreadFairness /\ TimerFairness

\* Whatever is lost, every block written is read at the other end and its
\* place in the sending buffer becomes free, so that a blocked CUDT::send goes
\* on.
Delivered(k) == Len(received) >= k /\ sndFirst > k
WrittenIsDelivered == \A k \in Seqs : (sndEnd > k) ~> Delivered(k)
=============================================================================
