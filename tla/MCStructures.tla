---------------------------- MODULE MCStructures ----------------------------
(***************************************************************************)
(* The data structures and small parts of the library beside each other:   *)
(* a behaviour is that of one of them, chosen at the start, with the       *)
(* others at rest in an initial state of theirs.                           *)
(***************************************************************************)
EXTENDS SeqWindow, Poll, UnitQueue, AckWindow, CongestionCtl, FileTransfer, RcvUList,
        InfoCache, SndLossList, RcvLossList

VARIABLE part    \* the one that runs

Parts == {"seq window", "snd loss list", "rcv loss list", "unit queue", "ack window",
          "rcv u list", "info cache", "congestion", "file", "poll"}

V4(w) == [ver |-> 4, word |-> w, rest |-> 0]
MCHosts == {V4(1), V4(10), V4(19), V4(2), V4(-7), [ver |-> 6, word |-> 1, rest |-> 0]}

structVars == <<part, seqVars, sndLossVars, rcvLossVars, unitVars, ackVars, rcvVars,
                cacheVars, ccVars, fileVars, pollVars>>

\* Where a part may start in many ways, it rests in one of them.
StructInit ==
    /\ part \in Parts
    /\ SeqInit /\ (part # "seq window" => lastAck = 0)
    /\ SndLossInit /\ (part # "snd loss list" => sndFirst = 0)
    /\ RcvLossInit /\ (part # "rcv loss list" => rcvFirst = 0)
    /\ UnitInit /\ AckInit /\ RcvInit /\ CacheInit /\ CCInit
    /\ FileInit /\ (part # "file" => sender.tosend = 3)
    /\ PollInit

Rests(p, v) == IF part = p THEN TRUE ELSE UNCHANGED v
OthersRest ==
    /\ UNCHANGED part
    /\ Rests("seq window", seqVars)
    /\ Rests("snd loss list", sndLossVars) /\ Rests("rcv loss list", rcvLossVars)
    /\ Rests("unit queue", unitVars) /\ Rests("ack window", ackVars)
    /\ Rests("rcv u list", rcvVars) /\ Rests("info cache", cacheVars)
    /\ Rests("congestion", ccVars) /\ Rests("file", fileVars)
    /\ Rests("poll", pollVars)

StructNext ==
    \/ part = "seq window" /\ SeqNext /\ OthersRest
    \/ part = "snd loss list" /\ SndLossNext /\ OthersRest
    \/ part = "rcv loss list" /\ RcvLossNext /\ OthersRest
    \/ part = "unit queue" /\ UnitNext /\ OthersRest
    \/ part = "ack window" /\ AckNext /\ OthersRest
    \/ part = "rcv u list" /\ RcvNext /\ OthersRest
    \/ part = "info cache" /\ CacheNext /\ OthersRest
    \/ part = "congestion" /\ CCNext /\ OthersRest
    \/ part = "file" /\ FileNext /\ OthersRest
    \/ part = "poll" /\ PollNext /\ OthersRest

StructSpec == StructInit /\ [][StructNext]_structVars

\* The last call of a loss list has no effect on later ones; a step's property
\* still sees it.
StructView ==
    <<part, seqVars, sndFirst, sndFlight, sndList, rcvFirst, rcvFlight, rcvList, unitVars,
      ackVars, rcvVars, cacheVars, ccVars, fileVars, pollVars>>
=============================================================================
