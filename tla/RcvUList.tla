------------------------------- MODULE RcvUList -------------------------------
(***************************************************************************)
(* The worker of the receiving queue and its two indexes of the sockets it *)
(* serves (queue.cpp): CRcvUList, a doubly linked list in the order in     *)
(* which their timers were last checked, and CHash, buckets of sockets by  *)
(* number.  Only the worker changes them.  Other threads bring it new      *)
(* sockets and break or close those it has, and the garbage collector      *)
(* destroys a socket once its node says it is off the list (api.cpp:1239).  *)
(* Time counts in steps of the 100 ms after which a socket is stale, as    *)
(* the age of each node; ages beyond Stale make no difference.             *)
(***************************************************************************)
EXTENDS Integers, Sequences, FiniteSets, SequencesExt, Loops

CONSTANTS RcvSockets,    \* a set of socket numbers
          HashSize,      \* CHash::m_iHashSize
          Stale          \* the age from which the timers are checked

ASSUME RcvUListAssumption ==
    /\ RcvSockets \subseteq Nat \ {0} /\ IsFiniteSet(RcvSockets)
    /\ HashSize \in Nat \ {0} /\ Stale \in Nat \ {0}

VARIABLES nodes,     \* m_pPrev, m_pNext, m_bOnList and the age of each node
          uList,     \* m_pUList and m_pLast
          bucket,    \* CHash::m_pBucket, each chain as a sequence
          fate       \* of a socket: "new", "queued", "served", "broken", "gone"

rcvVars == <<nodes, uList, bucket, fate>>

NoNode == 0

RcvInit ==
    /\ nodes = [u \in RcvSockets |->
                    [prev |-> NoNode, next |-> NoNode, onList |-> FALSE, age |-> 0]]
    /\ uList = [first |-> NoNode, last |-> NoNode]
    /\ bucket = [b \in 0 .. (HashSize - 1) |-> <<>>]
    /\ fate = [u \in RcvSockets |-> "new"]

-----------------------------------------------------------------------------
(* CRcvUList, on the nodes and the list together.                          *)

Both == [n |-> nodes, first |-> uList.first, last |-> uList.last]

\* insert: always at the end.
AtEnd(node, p) == [node EXCEPT !.prev = p, !.next = NoNode, !.age = 0]

InsertNode(l, u) ==
    IF l.first = NoNode
    THEN [n |-> [l.n EXCEPT ![u] = AtEnd(@, NoNode)], first |-> u, last |-> u]
    ELSE [n |-> [l.n EXCEPT ![u] = AtEnd(@, l.last), ![l.last] = [@ EXCEPT !.next = u]],
          first |-> l.first, last |-> u]

\* remove, of a node that is on the list: its neighbours are linked past it;
\* next to nothing, the list's ends are.
RemoveNode(l, u) ==
    LET p == l.n[u].prev
        q == l.n[u].next
    IN  [n |-> [v \in DOMAIN l.n |->
                  [l.n[v] EXCEPT
                     !.next = IF v = u THEN NoNode ELSE IF v = p THEN q ELSE @,
                     !.prev = IF v = u THEN NoNode ELSE IF v = q THEN p ELSE @]],
         first |-> IF p = NoNode THEN q ELSE l.first,
         last |-> IF q = NoNode THEN p ELSE l.last]

WithNode(l, u, node) ==
    [n |-> [l.n EXCEPT ![u] = node], first |-> l.first, last |-> l.last]

\* Variant: a node whose timers were checked stays where it is.
UpdateInPlace(l, u) == WithNode(l, u, [l.n[u] EXCEPT !.age = 0])

\* update: the node starts anew at the end of the list.
UpdateNode(l, u) ==
    IF ~l.n[u].onList THEN l
    ELSE IF l.n[u].next = NoNode THEN WithNode(l, u, [l.n[u] EXCEPT !.age = 0])
    ELSE InsertNode(RemoveNode(l, u), u)

(* CHash: insert at the head of the chain, remove the first that matches.  *)

Chain(u) == u % HashSize
Hashed(b, u) == [b EXCEPT ![Chain(u)] = <<u>> \o @]
Unhashed(b, u) == [b EXCEPT ![Chain(u)] = RemoveFirst(@, u)]
Lookup(b, u) == \E i \in DOMAIN b[Chain(u)] : b[Chain(u)][i] = u

-----------------------------------------------------------------------------

\* connect, accept: the socket's node is marked and queued as a new entry.
Announce(u) ==
    /\ fate[u] = "new"
    /\ fate' = [fate EXCEPT ![u] = "queued"]
    /\ nodes' = [nodes EXCEPT ![u].onList = TRUE]
    /\ UNCHANGED <<uList, bucket>>

SetList(l) == nodes' = l.n /\ uList' = [first |-> l.first, last |-> l.last]

\* worker: a new entry goes to both indexes, broken meanwhile or not.
TakeNewEntry(u) ==
    /\ nodes[u].onList /\ ~Lookup(bucket, u)
    /\ SetList(InsertNode(Both, u))
    /\ bucket' = Hashed(bucket, u)
    /\ fate' = [fate EXCEPT ![u] = IF @ = "queued" THEN "served" ELSE @]

\* worker: a packet for u is processed and its timers are checked with it.
Packet(u) ==
    /\ Lookup(bucket, u) /\ fate[u] = "served"
    /\ SetList(UpdateNode(Both, u))
    /\ UNCHANGED <<bucket, fate>>

\* Another thread breaks or closes it.
BreakSocket(u) ==
    /\ fate[u] \in {"queued", "served"}
    /\ fate' = [fate EXCEPT ![u] = "broken"]
    /\ UNCHANGED <<nodes, uList, bucket>>

\* The garbage collector destroys it, its node off the list.
Destroy(u) ==
    /\ fate[u] = "broken" /\ ~nodes[u].onList
    /\ fate' = [fate EXCEPT ![u] = "gone"]
    /\ UNCHANGED <<nodes, uList, bucket>>

\* worker, the check of the timers: from the head of the list while it is
\* stale.  One that is not connected any more leaves both indexes.
Off(l, u) ==
    LET r == RemoveNode(l, u) IN WithNode(r, u, [r.n[u] EXCEPT !.onList = FALSE])

Links == RcvSockets \cup {NoNode}
Indexes ==
    [l : [n : [RcvSockets -> [prev : Links, next : Links, onList : BOOLEAN, age : Nat]],
          first : Links, last : Links],
     b : [0 .. (HashSize - 1) -> Seq(RcvSockets)]]

CheckFirst ==
    [e \in Indexes |->
       LET u == e.l.first IN
       IF u = NoNode \/ e.l.n[u].age < Stale THEN e
       ELSE IF fate[u] = "served" THEN [l |-> UpdateNode(e.l, u), b |-> e.b]
       ELSE [l |-> Off(e.l, u), b |-> Unhashed(e.b, u)]]

\* None is stale any more once its timers were checked.
Sweep ==
    LET swept == Repeat(CheckFirst, [l |-> Both, b |-> bucket], Cardinality(RcvSockets))
    IN  /\ SetList(swept.l)
        /\ bucket' = swept.b
        /\ UNCHANGED fate

\* Time passes between two rounds of the worker.
TimePasses ==
    /\ nodes' = [u \in RcvSockets |->
                    [nodes[u] EXCEPT !.age = IF Lookup(bucket, u) /\ @ < Stale
                                             THEN @ + 1 ELSE @]]
    /\ UNCHANGED <<uList, bucket, fate>>

RcvNext ==
    \/ Sweep \/ TimePasses
    \/ \E u \in RcvSockets : \/ Announce(u) \/ TakeNewEntry(u) \/ Packet(u)
                             \/ BreakSocket(u) \/ Destroy(u)

RcvSpec == RcvInit /\ [][RcvNext]_rcvVars

-----------------------------------------------------------------------------

\* The sockets that are listed: what both ways along the links must agree on.
Listed == {u \in RcvSockets : Lookup(bucket, u)}

\* The indexes stay one set of sockets through any order of packets, sweeps and
\* failures, none of them destroyed; a packet finds its socket, and the sweep,
\* which stops at the first node that is not stale, leaves no stale one behind
\* it, for the ages fall along the list.
IndexesAgree ==
    /\ \A u \in Listed :
        /\ fate[u] # "gone" /\ nodes[u].onList
        /\ nodes[u].prev \in Listed \cup {NoNode} /\ nodes[u].next \in Listed \cup {NoNode}
        /\ nodes[u].next = NoNode <=> uList.last = u
        /\ nodes[u].prev = NoNode <=> uList.first = u
        /\ nodes[u].next # NoNode => /\ nodes[nodes[u].next].prev = u
                                     /\ nodes[u].age >= nodes[nodes[u].next].age
    /\ \A b \in DOMAIN bucket : \A i, j \in DOMAIN bucket[b] :
        bucket[b][i] = bucket[b][j] => i = j
    /\ uList.first = NoNode <=> Listed = {}
=============================================================================
