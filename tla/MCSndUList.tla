----------------------------- MODULE MCSndUList -----------------------------
(* Instances of SndUList for TLC.                                          *)
EXTENDS SndUList, SequencesExt

CONSTANT First  \* sockets that are given something to send before the worker runs

\* The state after that: each of them was put on the heap behind the others.
FirstInit ==
    LET f == SetToSeq(First)
    IN  /\ heap = [node |-> f,
                   loc |-> [s \in Sockets |->
                              IF s \in First THEN CHOOSE i \in DOMAIN f : f[i] = s
                              ELSE NotOnHeap]]
        /\ stamp = [s \in Sockets |-> IF s \in First THEN Immediately ELSE 0]
        /\ signalling = FALSE
        /\ now = 2 /\ schedTime = 2
        /\ pc = "next" /\ wakeTime = 0
        /\ work = [s \in Sockets |-> IF s \in First THEN 1 ELSE 0]
        /\ given = Cardinality(First)
        /\ state = [s \in Sockets |-> "open"]

FirstSpec == FirstInit /\ [][Next]_vars
FirstFairSpec == FirstSpec /\ Fairness
=============================================================================
