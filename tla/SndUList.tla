------------------------------ MODULE SndUList ------------------------------
(***************************************************************************)
(* The sending side of a multiplexer: CSndUList (queue.cpp), a heap of the *)
(* sockets that have something to send by the time of their next packet,   *)
(* and CSndQueue::worker, which sleeps until that time or, when the heap   *)
(* is empty, on a condition variable.                                      *)
(*                                                                         *)
(* m_ListLock makes each method one step, except that an insertion into    *)
(* the empty heap signals the condition variable in a second step, still   *)
(* under the lock.  Heap positions count from 1 here, from 0 in the code.  *)
(* What a socket has to send is a number of packets: which of them, and    *)
(* whether the window lets them out, is the matter of Transfer.            *)
(***************************************************************************)
EXTENDS Integers, Sequences, Loops

CONSTANTS Sockets,
          MaxTime,     \* bound: the clock stops here
          Interval,    \* bound: largest time between two packets of a socket
          MaxWork      \* bound: packets all sockets together get to send

ASSUME SndUListAssumption ==
    /\ MaxTime \in Nat \ {0, 1} /\ Interval \in Nat /\ MaxWork \in Nat

VARIABLES
    heap,        \* m_pHeap up to m_iLastEntry, and m_iHeapLoc of every socket
    stamp,       \* m_llTimeStamp of every socket
    signalling,  \* an insertion holds m_ListLock and has yet to signal
    now,         \* the clock, CTimer::rdtsc
    schedTime,   \* CTimer::m_ullSchedTime
    pc,          \* worker: "next", "sleepto", "sleep", "pop", "window", "wait"
    wakeTime,    \* its local ts
    work,        \* packets a socket has to send
    given,       \* packets given to the sockets so far
    state        \* of a socket: "open", in close() "removed", or "closed"

listVars == <<heap, stamp, signalling>>
vars == <<listVars, now, schedTime, pc, wakeTime, work, given, state>>

NotOnHeap == -1
Immediately == 1

Init ==
    /\ heap = [node |-> <<>>, loc |-> [s \in Sockets |-> NotOnHeap]]
    /\ stamp = [s \in Sockets |-> 0]
    /\ signalling = FALSE
    /\ now = 2 /\ schedTime = 0
    /\ pc = "next" /\ wakeTime = 0
    /\ work = [s \in Sockets |-> 0] /\ given = 0
    /\ state = [s \in Sockets |-> "open"]

-----------------------------------------------------------------------------
(* The heap.                                                               *)

HeapSize(h) == Len(h.node)
Root(h) == h.node[1]
OnHeap(h, s) == h.loc[s] # NotOnHeap

\* Variant: a node that moves up takes the place of the one it was compared to
\* in the array only.
ExchangedNodes(h, p, q) ==
    [node |-> [h.node EXCEPT ![p] = h.node[q], ![q] = h.node[p]], loc |-> h.loc]

Exchanged(h, p, q) ==
    [node |-> [h.node EXCEPT ![p] = h.node[q], ![q] = h.node[p]],
     loc |-> [h.loc EXCEPT ![h.node[p]] = q, ![h.node[q]] = p]]

\* What the loops of insert_ and remove_ work on: the heap and the position q.
Places == [h : [node : Seq(Sockets), loc : [Sockets -> Int]], q : Nat]

\* A node that is due earlier than its parent moves up.
Rise(st) ==
    [e \in Places |->
       LET p == e.q \div 2
       IN  IF e.q > 1 /\ st[e.h.node[p]] > st[e.h.node[e.q]]
           THEN [h |-> Exchanged(e.h, p, e.q), q |-> p] ELSE e]

\* The smaller of two children, if any is left.
Child(h, st, q) ==
    IF 2 * q + 1 <= HeapSize(h) /\ st[h.node[2 * q]] > st[h.node[2 * q + 1]]
    THEN 2 * q + 1 ELSE 2 * q

\* A node that is due later than that child moves down.
Sink(st) ==
    [e \in Places |->
       LET c == Child(e.h, st, e.q)
       IN  IF c <= HeapSize(e.h) /\ st[e.h.node[e.q]] > st[e.h.node[c]]
           THEN [h |-> Exchanged(e.h, e.q, c), q |-> c] ELSE e]

SiftUp(h, st, q) == Repeat(Rise(st), [h |-> h, q |-> q], HeapSize(h)).h
SiftDown(h, st, q) == Repeat(Sink(st), [h |-> h, q |-> q], HeapSize(h)).h

Inserted(h, st, s) ==
    SiftUp([node |-> Append(h.node, s), loc |-> [h.loc EXCEPT ![s] = HeapSize(h) + 1]],
           st, HeapSize(h) + 1)

\* The last node takes the place of s and sinks from there.
Filled(h, st, s) ==
    LET q == h.loc[s]
        last == h.node[HeapSize(h)]
    IN  SiftDown([node |-> SubSeq([h.node EXCEPT ![q] = last], 1, HeapSize(h) - 1),
                  loc |-> [h.loc EXCEPT ![last] = q]], st, q)

Removed(h, st, s) ==
    LET f == Filled(h, st, s)
    IN  [node |-> f.node, loc |-> [f.loc EXCEPT ![s] = NotOnHeap]]

-----------------------------------------------------------------------------
(* The methods.                                                            *)

Interrupted(when) == schedTime' = IF when THEN now ELSE schedTime

\* insert_ of s with time ts into h; alone says whether a removal just before
\* has interrupted the timer.
Insert(h, ts, s, alone) ==
    /\ stamp' = [stamp EXCEPT ![s] = ts]
    /\ heap' = Inserted(h, stamp', s)
    /\ Interrupted(alone \/ Root(heap') = s)
    /\ signalling' = (HeapSize(heap') = 1)

UpdateOff(s) == ~OnHeap(heap, s) /\ Insert(heap, Immediately, s, FALSE)

Update(s, reschedule) ==
    \/ UpdateOff(s)
    \/ /\ OnHeap(heap, s) /\ ~reschedule
       /\ UNCHANGED <<listVars, schedTime>>
    \/ /\ OnHeap(heap, s) /\ reschedule /\ Root(heap) = s
       /\ stamp' = [stamp EXCEPT ![s] = Immediately]
       /\ Interrupted(TRUE)
       /\ UNCHANGED <<heap, signalling>>
    \/ /\ OnHeap(heap, s) /\ reschedule /\ Root(heap) # s
       /\ LET h == Removed(heap, stamp, s)
          IN  Insert(h, Immediately, s, HeapSize(h) = 1)

Signal ==
    /\ signalling
    /\ signalling' = FALSE
    /\ pc' = IF pc = "wait" THEN "next" ELSE pc
    /\ UNCHANGED <<heap, stamp, now, schedTime, wakeTime, work, given, state>>

\* send() and ACKs call update(this, false), NAKs and the EXP timer
\* update(this, true): there is something more to send.
GiveWork(s, reschedule) ==
    /\ ~signalling /\ state[s] # "closed"
    /\ given < MaxWork
    /\ given' = given + 1
    /\ work' = [work EXCEPT ![s] = @ + 1]
    /\ Update(s, reschedule)
    /\ UNCHANGED <<now, pc, wakeTime, state>>

\* close() takes the socket off the list first and only afterwards sets
\* m_bClosing and m_bConnected, so that it can be put back in between.
CloseRemove(s) ==
    /\ ~signalling /\ state[s] = "open"
    /\ state' = [state EXCEPT ![s] = "removed"]
    /\ heap' = IF OnHeap(heap, s) THEN Removed(heap, stamp, s) ELSE heap
    /\ Interrupted(HeapSize(heap') = 1)
    /\ UNCHANGED <<stamp, signalling, now, pc, wakeTime, work, given>>

CloseDone(s) ==
    /\ state[s] = "removed"
    /\ state' = [state EXCEPT ![s] = "closed"]
    /\ UNCHANGED <<listVars, now, schedTime, pc, wakeTime, work, given>>

Tick ==
    /\ now < MaxTime
    /\ now' = now + 1
    /\ UNCHANGED <<listVars, schedTime, pc, wakeTime, work, given, state>>

-----------------------------------------------------------------------------
(* The worker.                                                             *)

GetNextProcTime ==
    /\ pc = "next" /\ ~signalling
    /\ \/ /\ HeapSize(heap) = 0
          /\ pc' = "window"
          /\ UNCHANGED wakeTime
       \/ /\ HeapSize(heap) > 0
          /\ wakeTime' = stamp[Root(heap)]
          /\ pc' = IF now < wakeTime' THEN "sleepto" ELSE "pop"
    /\ UNCHANGED <<listVars, now, schedTime, work, given, state>>

SleepTo ==
    /\ pc = "sleepto"
    /\ schedTime' = wakeTime
    /\ pc' = "sleep"
    /\ UNCHANGED <<listVars, now, wakeTime, work, given, state>>

Wake ==
    /\ pc = "sleep" /\ now >= schedTime
    /\ pc' = "pop"
    /\ UNCHANGED <<listVars, now, schedTime, wakeTime, work, given, state>>

\* Variant: pop looks at the time of the next packet, not at what packData says.
ListedAnyway(h, s) == Insert(h, now, s, HeapSize(h) = 1)

Unlisted(h, s) ==
    /\ heap' = h /\ Interrupted(HeapSize(h) = 1)
    /\ UNCHANGED <<stamp, signalling>>

\* Variant: a socket is only listed again when something is given to it.
NeverListed(h, s, ts) == Unlisted(h, s)

ListedAgain(h, s, ts) == Insert(h, ts, s, HeapSize(h) = 1)

FirstIsDue == IF HeapSize(heap) = 0 THEN FALSE ELSE now >= stamp[Root(heap)]

\* pop(): packData has nothing (its answer 0), or one packet and the time ts
\* of the next.
Pop ==
    /\ pc = "pop" /\ ~signalling
    /\ pc' = "next"
    /\ \/ /\ ~FirstIsDue
          /\ UNCHANGED <<listVars, schedTime, work>>
       \/ /\ FirstIsDue
          /\ LET s == Root(heap)
                 h == Removed(heap, stamp, s)
             IN  \/ /\ state[s] = "closed" \/ work[s] = 0
                    /\ Unlisted(h, s)
                    /\ UNCHANGED work
                 \/ /\ state[s] # "closed" /\ work[s] > 0
                    /\ work' = [work EXCEPT ![s] = @ - 1]
                    /\ \E ts \in now .. (now + Interval) :
                           ts <= MaxTime /\ ListedAgain(h, s, ts)
    /\ UNCHANGED <<now, wakeTime, given, state>>

\* Variant: the heap is not looked at again under the window lock.
WaitAnyway == "wait"

WaitIfEmpty == IF HeapSize(heap) = 0 THEN "wait" ELSE "next"

Window ==
    /\ pc = "window"
    /\ pc' = WaitIfEmpty
    /\ UNCHANGED <<listVars, now, schedTime, wakeTime, work, given, state>>

Worker == GetNextProcTime \/ SleepTo \/ Wake \/ Pop \/ Window

Next ==
    \/ Worker \/ Signal \/ Tick
    \/ \E s \in Sockets :
           \/ \E reschedule \in BOOLEAN : GiveWork(s, reschedule)
           \/ CloseRemove(s) \/ CloseDone(s)

Spec == Init /\ [][Next]_vars

\* The worker loops for ever, an insertion goes on, time passes, and a close
\* that was begun is finished.
Fairness ==
    /\ WF_vars(GetNextProcTime) /\ WF_vars(SleepTo) /\ WF_vars(Wake)
    /\ WF_vars(Pop) /\ WF_vars(Window)
    /\ WF_vars(Signal) /\ WF_vars(Tick)
    /\ \A s \in Sockets : WF_vars(CloseDone(s))

FairSpec == Spec /\ Fairness

-----------------------------------------------------------------------------
(* Properties.                                                             *)

\* Through all moves of the heap, m_iHeapLoc is the place where a socket is.
LocationsExact ==
    /\ \A s \in Sockets : OnHeap(heap, s) =>
           heap.loc[s] \in DOMAIN heap.node /\ heap.node[heap.loc[s]] = s
    /\ \A i \in DOMAIN heap.node : heap.loc[heap.node[i]] = i

\* The worker never waits on the condition variable with sockets on the heap,
\* unless the signal for the first of them is still to come.
NoneStranded == pc = "wait" /\ HeapSize(heap) > 0 => signalling

\* What a socket is given to send is sent, unless the socket is closed: no
\* sequence of insertions, removals and sleeps leaves it unheard of.
WorkIsSent ==
    \A s \in Sockets : (work[s] > 0) ~> (work[s] = 0 \/ state[s] = "closed")

\* A socket put back on the heap while it was being closed leaves it, although
\* close() has passed the place where it removes it.
ClosedLeaves ==
    \A s \in Sockets : (state[s] = "closed") ~> ~OnHeap(heap, s)

\* draft-gg-udt-xx.txt:403: "The UDT sockets in the sending queue are ordered
\* by the next packet sending time": no other socket is due before the first.
FirstIsEarliest ==
    \A i \in DOMAIN heap.node : stamp[Root(heap)] <= stamp[heap.node[i]]
=============================================================================
