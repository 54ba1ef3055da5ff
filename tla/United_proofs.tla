--------------------------- MODULE United_proofs ---------------------------
(***************************************************************************)
(* Proofs about United, for every set of sockets and of threads, every     *)
(* backlog and every plan: an inductive invariant of the table of sockets  *)
(* and of those who share it, and what United promises and TLC checks.     *)
(***************************************************************************)
EXTENDS United, FiniteSetTheorems, TLAPS

\* Ids in records: none is 0.
Ids == Sockets \cup {0}
Places == {"none", "born", "table", "closed", "deleted"}
States == {"INIT", "OPENED", "LISTENING", "CONNECTING", "CONNECTED", "CLOSED"}
SocketType ==
    [place : Places, st : States, broken : BOOLEAN, closing : BOOLEAN,
     connecting : BOOLEAN, connected : BOOLEAN, onList : BOOLEAN,
     linger : BOOLEAN, aged : BOOLEAN, mux : Ids, parent : Ids, polled : BOOLEAN]

\* What a worker does: it makes a socket of a request, tells of it, answers
\* for an asynchronous connect.
Making == {"make", "table", "queue"}
Announcing == {"events", "signal"}
Answering == {"answered", "complete", "report"}
WorkerPCs == {"idle", "listen", "replaced"} \cup Making \cup Announcing \cup Answering
\* In accept(), with a listener.
Accepting == {"try", "wait", "woken"}

AcceptorType == [Acceptors -> [pc : {"idle", "peer", "done"} \cup Accepting, who : Ids]]
EpollType == /\ watch \in [{"IN", "OUT"} -> SUBSET Sockets]
             /\ ready \in [{"IN", "OUT"} -> SUBSET Sockets]
             /\ late \subseteq Sockets

\* The types of the variables; plan and fatal matter to no proof.
UnitedTypeOK ==
    /\ sock \in [Sockets -> SocketType]
    /\ queued \in [Sockets -> SUBSET Sockets]
    /\ listener \in [Sockets -> Ids]
    /\ refs \in [Sockets -> Int]
    /\ worker \in [Sockets -> [pc : WorkerPCs, who : Ids, new : Ids]]
    /\ acceptor \in AcceptorType
    /\ closers \subseteq Sockets \X {"broadcast", "move"}
    /\ adding \in [pc : {"idle", "id", "state"}, who : Ids]
    /\ EpollType

\* The life of a socket k: what its fields say of each other.
LifeOK(k) ==
    /\ k.place = "none" => k.st = "INIT" /\ k.parent = 0
    /\ k.place \in {"none", "born"} => ~k.polled
    /\ k.st = "INIT" => k.mux = 0
    /\ k.st = "OPENED" => k.mux # 0
    /\ k.st \in {"INIT", "OPENED", "LISTENING"} => ~k.connected /\ ~k.connecting
    /\ k.st \in {"INIT", "OPENED"} => ~k.broken
    /\ k.parent # 0 => /\ k.st \in {"INIT", "CONNECTED", "CLOSED"}
                       /\ k.st = "INIT" => k.place \in {"born", "deleted"}
    /\ k.connecting => /\ k.st = "CONNECTING" /\ k.place = "table" /\ k.mux # 0
                       /\ ~k.broken /\ ~k.connected

SocketInv == \A u \in Sockets : LifeOK(sock[u])

\* Listeners' queues: their own new sockets, in m_Sockets.
QueueInv ==
    \A l \in Sockets : \A v \in queued[l] :
        v \in Sockets /\ sock[v].place = "table" /\ sock[v].parent = l

\* A socket that the collector does not remove yet.
Kept(u) == sock[u].place = "table" \/ (sock[u].place = "closed" /\ ~sock[u].aged)

\* A multiplexer's listener uses it, and has not been deleted.
ListenerInv ==
    \A m \in Sockets : listener[m] # 0 =>
        /\ listener[m] \in Sockets
        /\ sock[listener[m]].mux = m
        /\ sock[listener[m]].place \in {"table", "closed"}

\* Whom a worker serves, and the new socket in its hands: from the moment it
\* has located the listener nothing it works with is removed.
WorkerInv ==
    \A m \in Sockets : LET w == worker[m]  k == sock[w.new] IN
        /\ w.pc # "idle" =>
               /\ w.who \in Sockets
               /\ sock[w.who].place # "deleted" => sock[w.who].mux = m
        /\ w.pc \notin {"idle", "listen"} => Kept(w.who)
        /\ w.pc \in Making =>
               /\ w.new \in Sockets
               /\ k.parent = w.who /\ ~k.broken
               /\ \A l \in Sockets : w.new \notin queued[l]
               /\ IF w.pc = "make" THEN k.place = "born" /\ k.mux = 0 /\ k.st = "INIT"
                  ELSE /\ k.place = IF w.pc = "table" THEN "born" ELSE "table"
                       /\ k.mux = m /\ k.st = "CONNECTED"
        /\ w.pc \in Answering =>
               sock[w.who].st \in {"CONNECTING", "CONNECTED", "CLOSED"}
        /\ w.pc \in {"complete", "report"} => ~sock[w.who].connecting

\* A socket that a close() call is about to move to m_ClosedSockets.
CloserInv ==
    \A u \in Sockets : <<u, "move">> \in closers =>
        /\ sock[u].place \notin {"none", "born"}
        /\ sock[u].st # "LISTENING"
        /\ ~sock[u].connecting
        /\ \A l \in Sockets : u \notin queued[l]
        /\ \A m \in Sockets : worker[m].pc \in Making => worker[m].new # u

\* The socket that epoll_add_usock works with.
AddingInv == adding.pc # "idle" => adding.who \in Sockets /\ Kept(adding.who)

\* The listener of a call of accept(): closed or not, it is there, and while
\* somebody waits for one that is broken the close() call has yet to wake them.
AcceptInv ==
    \A a \in Acceptors : LET u == acceptor[a].who IN
        acceptor[a].pc \in Accepting =>
            /\ u \in Sockets /\ Kept(u)
            /\ sock[u].parent = 0 /\ ~sock[u].connected /\ ~sock[u].connecting
            /\ sock[u].st = "LISTENING" \/ (sock[u].st = "CLOSED" /\ sock[u].broken)
            /\ <<u, "move">> \notin closers
            /\ \A m \in Sockets : worker[m].pc \in Answering => worker[m].who # u
            /\ acceptor[a].pc = "wait" /\ sock[u].broken => <<u, "broadcast">> \in closers

UnitedInv ==
    /\ UnitedTypeOK /\ SocketInv /\ QueueInv /\ ListenerInv
    /\ WorkerInv /\ CloserInv /\ AddingInv /\ AcceptInv

-----------------------------------------------------------------------------
(* The invariant is kept by every action.                                  *)

\* Setting a field of a socket keeps its type.
LEMMA FieldSet ==
  ASSUME NEW k \in SocketType
  PROVE  /\ \A b \in BOOLEAN :
             {[k EXCEPT !.broken = b], [k EXCEPT !.closing = b], [k EXCEPT !.connecting = b],
              [k EXCEPT !.connected = b], [k EXCEPT !.onList = b], [k EXCEPT !.linger = b],
              [k EXCEPT !.aged = b], [k EXCEPT !.polled = b]} \subseteq SocketType
         /\ \A p \in Places : [k EXCEPT !.place = p] \in SocketType
         /\ \A t \in States : [k EXCEPT !.st = t] \in SocketType
         /\ \A i \in Ids : /\ [k EXCEPT !.mux = i] \in SocketType
                           /\ [k EXCEPT !.parent = i] \in SocketType
  BY SMTT(30) DEF SocketType

USE UnitedAssumption DEF Ids, Places, States, Making, Announcing, Answering, WorkerPCs,
    Accepting, AcceptorType, EpollType, Kept, InTable, Located, LifeOK, mux, epoll

\* Steps that change nothing the invariant speaks of.
LEMMA Unchanged ==
  ASSUME UnitedInv,
         UNCHANGED <<sock, queued, listener, refs, worker, acceptor, closers, adding, watch,
                     ready, late>>
  PROVE  UnitedInv'
  BY DEF UnitedInv, UnitedTypeOK, SocketInv, QueueInv, ListenerInv, WorkerInv, CloserInv,
         AddingInv, AcceptInv

\* Steps that leave m_Sockets and the queues alone.
LEMMA SameSockets ==
  ASSUME UnitedInv, UNCHANGED <<sock, queued, listener>>
  PROVE  /\ SocketInv' /\ QueueInv' /\ ListenerInv'
         /\ UNCHANGED adding => AddingInv'
<1>1. SocketInv'
  BY DEF UnitedInv, SocketInv
<1>2. QueueInv'
  BY DEF UnitedInv, QueueInv
<1>3. ListenerInv'
  BY DEF UnitedInv, ListenerInv
<1>4. UNCHANGED adding => AddingInv'
  BY DEF UnitedInv, AddingInv
<1> QED  BY <1>1, <1>2, <1>3, <1>4

\* newSocket: the socket is new and nobody refers to it.
LEMMA NewSocketKeeps ==
  ASSUME UnitedInv, NEW u \in Sockets, NewSocket(u)
  PROVE  UnitedInv'
<1>1. UnitedTypeOK'
  BY FieldSet DEF UnitedInv, UnitedTypeOK, NewSocket, NextIds, Unborn
<1>2. SocketInv'
  BY DEF UnitedInv, UnitedTypeOK, SocketInv, NewSocket, NextIds, Unborn
<1>3. QueueInv' /\ ListenerInv' /\ AddingInv'
  BY DEF UnitedInv, UnitedTypeOK, QueueInv, ListenerInv, AddingInv, NewSocket, NextIds,
     Unborn
<1>4. WorkerInv'
  BY DEF UnitedInv, UnitedTypeOK, WorkerInv, NewSocket, NextIds, Unborn
<1>5. CloserInv' /\ AcceptInv'
  BY DEF UnitedInv, UnitedTypeOK, CloserInv, AcceptInv, NewSocket, NextIds, Unborn
<1> QED  BY <1>1, <1>2, <1>3, <1>4, <1>5 DEF UnitedInv

\* bind: the socket had no multiplexer.
LEMMA BindKeeps ==
  ASSUME UnitedInv, NEW u \in Sockets, Bind(u)
  PROVE  UnitedInv'
<1>1. PICK n \in Sockets : UseMux(u, n)
  BY DEF Bind
<1>2. /\ sock' = [sock EXCEPT ![u].mux = n, ![u].st = "OPENED"]
      /\ refs' = [refs EXCEPT ![n] = @ + 1]
      /\ sock[u].place = "table" /\ sock[u].st = "INIT" /\ <<u, "move">> \notin closers
      /\ UNCHANGED <<queued, listener, worker, acceptor, closers, adding, watch, ready, late>>
  BY <1>1 DEF Bind, InClose, UseMux
<1>3. sock[u].parent = 0 /\ sock[u].mux = 0
  BY <1>2 DEF UnitedInv, SocketInv
<1>4. UnitedTypeOK'
  <2>1. sock' \in [Sockets -> SocketType]
    BY <1>2, FieldSet DEF UnitedInv, UnitedTypeOK
  <2>2. refs' \in [Sockets -> Int]
    BY <1>2 DEF UnitedInv, UnitedTypeOK
  <2> QED  BY <1>2, <2>1, <2>2 DEF UnitedInv, UnitedTypeOK
<1>5. SocketInv'
  BY <1>2, <1>3 DEF UnitedInv, UnitedTypeOK, SocketInv
<1>6. QueueInv' /\ AddingInv'
  BY <1>2 DEF UnitedInv, UnitedTypeOK, QueueInv, AddingInv
<1>7. ListenerInv'
  BY <1>2, <1>3 DEF UnitedInv, UnitedTypeOK, ListenerInv
<1>8. WorkerInv'
  BY <1>2, <1>3 DEF UnitedInv, UnitedTypeOK, WorkerInv
<1>9. CloserInv'
  BY <1>2 DEF UnitedInv, UnitedTypeOK, CloserInv
<1>10. AcceptInv'
  BY <1>2 DEF UnitedInv, UnitedTypeOK, AcceptInv
<1> QED  BY <1>4, <1>5, <1>6, <1>7, <1>8, <1>9, <1>10 DEF UnitedInv

\* listen: the invariant is kept.
LEMMA ListenKeeps ==
  ASSUME UnitedInv, NEW u \in Sockets, Listen(u)
  PROVE  UnitedInv'
<1>1. UnitedTypeOK'
  BY FieldSet DEF UnitedInv, UnitedTypeOK, Listen, InClose
<1>2. SocketInv'
  BY DEF UnitedInv, UnitedTypeOK, SocketInv, Listen, InClose
<1>3. QueueInv' /\ ListenerInv' /\ AddingInv'
  BY DEF UnitedInv, UnitedTypeOK, QueueInv, ListenerInv, AddingInv, Listen, InClose
<1>4. WorkerInv'
  BY DEF UnitedInv, UnitedTypeOK, WorkerInv, Listen, InClose
<1>5. CloserInv' /\ AcceptInv'
  BY DEF UnitedInv, UnitedTypeOK, CloserInv, AcceptInv, Listen, InClose
<1> QED  BY <1>1, <1>2, <1>3, <1>4, <1>5 DEF UnitedInv

\* An asynchronous connect.
LEMMA ConnectKeeps ==
  ASSUME UnitedInv, NEW u \in Sockets, Connect(u)
  PROVE  UnitedInv'
<1>1. UnitedTypeOK'
  BY FieldSet DEF UnitedInv, UnitedTypeOK, Connect, InClose
<1>2. SocketInv'
  BY DEF UnitedInv, UnitedTypeOK, SocketInv, Connect, InClose
<1>3. QueueInv' /\ ListenerInv' /\ AddingInv'
  BY DEF UnitedInv, UnitedTypeOK, QueueInv, ListenerInv, AddingInv, Connect, InClose
<1>4. WorkerInv'
  BY DEF UnitedInv, UnitedTypeOK, WorkerInv, Connect, InClose
<1>5. CloserInv' /\ AcceptInv'
  BY DEF UnitedInv, UnitedTypeOK, CloserInv, AcceptInv, Connect, InClose
<1> QED  BY <1>1, <1>2, <1>3, <1>4, <1>5 DEF UnitedInv

\* epoll_add_usock locates its socket.
LEMMA AddWatchKeeps ==
  ASSUME UnitedInv, NEW u \in Sockets, AddWatch(u)
  PROVE  UnitedInv'
<1>1. /\ UNCHANGED <<sock, queued, listener, refs, worker, acceptor, closers>>
      /\ watch' = [e \in DOMAIN watch |-> watch[e] \cup {u}] /\ UNCHANGED <<ready, late>>
      /\ adding' = [pc |-> "id", who |-> u] /\ Located(u)
  BY DEF AddWatch
<1>2. UnitedTypeOK' /\ AddingInv'
  BY <1>1 DEF UnitedInv, UnitedTypeOK, AddingInv
<1>3. SocketInv' /\ QueueInv' /\ ListenerInv'
  BY <1>1, SameSockets
<1>4. WorkerInv' /\ CloserInv'
  BY <1>1 DEF UnitedInv, WorkerInv, CloserInv
<1>5. AcceptInv'
  BY <1>1 DEF UnitedInv, AcceptInv
<1> QED  BY <1>2, <1>3, <1>4, <1>5 DEF UnitedInv

\* epoll_remove_usock: the invariant is kept.
LEMMA RemoveUsockKeeps ==
  ASSUME UnitedInv, NEW u \in Sockets, RemoveUsock(u)
  PROVE  UnitedInv'
<1>1. UnitedTypeOK'
  BY FieldSet DEF UnitedInv, UnitedTypeOK, RemoveUsock
<1>2. SocketInv'
  BY DEF UnitedInv, UnitedTypeOK, SocketInv, RemoveUsock
<1>3. QueueInv' /\ ListenerInv' /\ AddingInv'
  BY DEF UnitedInv, UnitedTypeOK, QueueInv, ListenerInv, AddingInv, RemoveUsock
<1>4. WorkerInv'
  BY DEF UnitedInv, UnitedTypeOK, WorkerInv, RemoveUsock
<1>5. CloserInv' /\ AcceptInv'
  BY DEF UnitedInv, UnitedTypeOK, CloserInv, AcceptInv, RemoveUsock
<1> QED  BY <1>1, <1>2, <1>3, <1>4, <1>5 DEF UnitedInv

\* close() of a listener: it owes a broadcast.
LEMMA CloseListenerKeeps ==
  ASSUME UnitedInv, NEW u \in Sockets, CloseListener(u)
  PROVE  UnitedInv'
<1>1. UnitedTypeOK'
  <2>1. sock' \in [Sockets -> SocketType]
    BY FieldSet DEF UnitedInv, UnitedTypeOK, CloseListener
  <2> QED  BY <2>1 DEF UnitedInv, UnitedTypeOK, CloseListener
<1>2. SocketInv'
  BY DEF UnitedInv, UnitedTypeOK, SocketInv, CloseListener
<1>3. QueueInv' /\ ListenerInv' /\ AddingInv'
  BY DEF UnitedInv, UnitedTypeOK, QueueInv, ListenerInv, AddingInv, CloseListener
<1>4. WorkerInv'
  BY DEF UnitedInv, UnitedTypeOK, WorkerInv, CloseListener
<1>5. CloserInv' /\ AcceptInv'
  BY DEF UnitedInv, UnitedTypeOK, CloserInv, AcceptInv, CloseListener
<1> QED  BY <1>1, <1>2, <1>3, <1>4, <1>5 DEF UnitedInv

\* close() of another socket, which is in no listener's queue any more.
LEMMA CloseSocketKeeps ==
  ASSUME UnitedInv, NEW u \in Sockets, CloseSocket(u)
  PROVE  UnitedInv'
<1>1. UnitedTypeOK'
  <2>1. sock' \in [Sockets -> SocketType]
    BY FieldSet DEF UnitedInv, UnitedTypeOK, CloseSocket, Closed, Unwatched, InClose, Held
  <2>2. watch' \in [{"IN", "OUT"} -> SUBSET Sockets]
    BY DEF UnitedInv, UnitedTypeOK, CloseSocket, Closed, Unwatched, InClose, Held
  <2> QED  BY <2>1, <2>2 DEF UnitedInv, UnitedTypeOK, CloseSocket, Closed, Unwatched,
     InClose, Held
<1>2. SocketInv'
  BY DEF UnitedInv, UnitedTypeOK, SocketInv, CloseSocket, Closed, Unwatched, InClose, Held
<1>3. QueueInv' /\ ListenerInv' /\ AddingInv'
  BY DEF UnitedInv, UnitedTypeOK, QueueInv, ListenerInv, AddingInv, CloseSocket, Closed,
     Unwatched, InClose, Held
<1>4. WorkerInv'
  BY SMTT(30) DEF UnitedInv, UnitedTypeOK, WorkerInv, CloseSocket, Closed, Unwatched, InClose, Held
<1>5. CloserInv' /\ AcceptInv'
  BY DEF UnitedInv, UnitedTypeOK, SocketInv, QueueInv, ListenerInv, WorkerInv, CloserInv,
     AddingInv, AcceptInv, CloseSocket, Closed, Unwatched, InClose, Held
<1> QED  BY <1>1, <1>2, <1>3, <1>4, <1>5 DEF UnitedInv

\* close() of a socket that lingers.
LEMMA CloseLingeringKeeps ==
  ASSUME UnitedInv, NEW u \in Sockets, CloseLingering(u)
  PROVE  UnitedInv'
<1>1. UnitedTypeOK'
  <2>1. sock' \in [Sockets -> SocketType]
    BY FieldSet DEF UnitedInv, UnitedTypeOK, CloseLingering, InClose, Held
  <2> QED  BY <2>1 DEF UnitedInv, UnitedTypeOK, CloseLingering, InClose, Held
<1>2. SocketInv'
  BY DEF UnitedInv, UnitedTypeOK, SocketInv, CloseLingering, InClose, Held
<1>3. QueueInv' /\ ListenerInv' /\ AddingInv'
  BY DEF UnitedInv, UnitedTypeOK, QueueInv, ListenerInv, AddingInv, CloseLingering,
     InClose, Held
<1>4. WorkerInv'
  BY SMTT(30) DEF UnitedInv, UnitedTypeOK, WorkerInv, CloseLingering, InClose, Held
<1>5. CloserInv' /\ AcceptInv'
  BY DEF UnitedInv, UnitedTypeOK, SocketInv, QueueInv, ListenerInv, WorkerInv, CloserInv,
     AddingInv, AcceptInv, CloseLingering, InClose, Held
<1> QED  BY <1>1, <1>2, <1>3, <1>4, <1>5 DEF UnitedInv

\* What an accept() reports keeps the types of what epoll holds.
LEMMA ReportType ==
  ASSUME UnitedInv, NEW u, NEW q, Reported(u, q), watch' = watch
  PROVE  EpollType'
<1> QED  BY DEF UnitedInv, UnitedTypeOK, Reported, Disabled

\* Steps of accept() that touch no queue: of the invariant, the listener that
\* each call waits for remains to be shown.
LEMMA OnlyAcceptor ==
  ASSUME UnitedInv,
         UNCHANGED <<sock, queued, listener, refs, worker, closers, adding, watch>>,
         acceptor' \in AcceptorType, EpollType', AcceptInv'
  PROVE  UnitedInv'
<1>1. UnitedTypeOK'
  BY DEF UnitedInv, UnitedTypeOK
<1>2. SocketInv' /\ QueueInv' /\ ListenerInv' /\ AddingInv'
  BY SameSockets
<1>3. WorkerInv' /\ CloserInv'
  BY DEF UnitedInv, WorkerInv, CloserInv
<1> QED  BY <1>1, <1>2, <1>3 DEF UnitedInv

\* Telling pollers keeps the type of what is ready.
LEMMA EnabledType ==
  ASSUME NEW e \in {"IN", "OUT"}, NEW u \in Sockets,
         NEW r \in [{"IN", "OUT"} -> SUBSET Sockets]
  PROVE  Enabled(e, u, r) \in [{"IN", "OUT"} -> SUBSET Sockets]
<1> QED  BY DEF Enabled

\* accept() locates the listener.
LEMMA AcceptCallKeeps ==
  ASSUME UnitedInv, NEW a \in Acceptors, NEW u \in Sockets, AcceptCall(a, u)
  PROVE  UnitedInv'
<1>1. UNCHANGED <<sock, queued, listener, refs, worker, closers, adding, watch>>
  BY DEF AcceptCall
<1>2. acceptor' \in AcceptorType
  BY DEF UnitedInv, UnitedTypeOK, AcceptCall, Nobody
<1>3. EpollType'
  BY <1>1 DEF UnitedInv, UnitedTypeOK, AcceptCall
<1>4. AcceptInv'
  BY <1>1 DEF UnitedInv, UnitedTypeOK, AcceptInv, SocketInv, QueueInv, WorkerInv, CloserInv,
     AcceptCall, Nobody
<1> QED  BY <1>1, <1>2, <1>3, <1>4, OnlyAcceptor

\* close() wakes all that wait for the listener.
LEMMA CloseBroadcastKeeps ==
  ASSUME UnitedInv, NEW u \in Sockets, CloseBroadcast(u)
  PROVE  UnitedInv'
<1>1. UnitedTypeOK'
  BY FieldSet DEF UnitedInv, UnitedTypeOK, CloseBroadcast
<1>2. SocketInv'
  BY DEF UnitedInv, UnitedTypeOK, SocketInv, CloseBroadcast
<1>3. QueueInv' /\ ListenerInv' /\ AddingInv'
  <2>1. UNCHANGED <<sock, queued, listener, worker, adding>> /\ closers' \subseteq closers
    BY DEF CloseBroadcast, mux, epoll
  <2>2. QueueInv'
    BY <2>1 DEF UnitedInv, QueueInv
  <2>3. ListenerInv'
    BY <2>1 DEF UnitedInv, ListenerInv
  <2>4. AddingInv'
    BY <2>1 DEF UnitedInv, AddingInv
  <2> QED  BY <2>2, <2>3, <2>4
<1>4. WorkerInv'
  BY DEF UnitedInv, UnitedTypeOK, WorkerInv, CloseBroadcast
<1>5. CloserInv' /\ AcceptInv'
  BY DEF UnitedInv, UnitedTypeOK, CloserInv, AcceptInv, CloseBroadcast
<1> QED  BY <1>1, <1>2, <1>3, <1>4, <1>5 DEF UnitedInv

\* close() moves the socket to m_ClosedSockets.
LEMMA CloseMoveKeeps ==
  ASSUME UnitedInv, NEW u \in Sockets, CloseMove(u)
  PROVE  UnitedInv'
<1>1. UnitedTypeOK'
  BY FieldSet DEF UnitedInv, UnitedTypeOK, CloseMove
<1>2. SocketInv'
  BY DEF UnitedInv, UnitedTypeOK, SocketInv, QueueInv, ListenerInv, WorkerInv, CloserInv,
     AddingInv, AcceptInv, CloseMove
<1>3. QueueInv' /\ ListenerInv' /\ AddingInv'
  <2>1. /\ UNCHANGED <<queued, listener, worker, adding>>
        /\ \A l \in Sockets : u \notin queued[l]
        /\ \A w \in Sockets \ {u} : sock'[w] = sock[w]
        /\ sock'[u].parent = sock[u].parent /\ sock'[u].mux = sock[u].mux
        /\ \/ sock'[u] = sock[u]
           \/ sock[u].place = "table" /\ sock'[u].place = "closed" /\ ~sock'[u].aged
    BY DEF UnitedInv, UnitedTypeOK, SocketType, CloserInv, Located, CloseMove, mux, epoll
  <2>2. QueueInv'
    BY <2>1 DEF UnitedInv, UnitedTypeOK, QueueInv
  <2>3. ListenerInv'
    <3> SUFFICES ASSUME NEW n \in Sockets, listener[n] # 0
                 PROVE  /\ listener[n] \in Sockets /\ sock'[listener[n]].mux = n
                        /\ sock'[listener[n]].place \in {"table", "closed"}
      BY <2>1 DEF ListenerInv
    <3>1. PICK l \in Sockets : /\ l = listener[n] /\ sock[l].mux = n
                               /\ sock[l].place \in {"table", "closed"}
      BY DEF UnitedInv, ListenerInv
    <3> QED  BY <2>1, <3>1
  <2>4. AddingInv'
    BY <2>1 DEF UnitedInv, AddingInv
  <2> QED  BY <2>2, <2>3, <2>4
<1>4. WorkerInv'
  BY SMTT(30) DEF UnitedInv, UnitedTypeOK, SocketInv, QueueInv, ListenerInv, WorkerInv, CloserInv,
     AddingInv, AcceptInv, CloseMove
<1>5. CloserInv' /\ AcceptInv'
  BY DEF UnitedInv, UnitedTypeOK, CloserInv, AcceptInv, CloseMove
<1> QED  BY <1>1, <1>2, <1>3, <1>4, <1>5 DEF UnitedInv

\* accept() gives up.
LEMMA AcceptClosedKeeps ==
  ASSUME UnitedInv, NEW a \in Acceptors, AcceptClosed(a)
  PROVE  UnitedInv'
<1>1. UNCHANGED <<sock, queued, listener, refs, worker, closers, adding, watch>>
  BY DEF AcceptClosed
<1>2. acceptor' \in AcceptorType
  BY DEF UnitedInv, UnitedTypeOK, AcceptClosed
<1>3. EpollType'
  BY ReportType DEF UnitedInv, AcceptInv, AcceptClosed
<1>4. AcceptInv'
  BY <1>1 DEF UnitedInv, UnitedTypeOK, AcceptInv, AcceptClosed
<1> QED  BY <1>1, <1>2, <1>3, <1>4, OnlyAcceptor

\* accept() takes a socket from the queue.
LEMMA AcceptTakeKeeps ==
  ASSUME UnitedInv, NEW a \in Acceptors, AcceptTake(a)
  PROVE  UnitedInv'
<1> DEFINE u == acceptor[a].who
<1>1. u \in Sockets
  BY DEF AcceptTake, UnitedInv, AcceptInv
<1>2. PICK v \in queued[u] :
        /\ queued' = [queued EXCEPT ![u] = @ \ {v}]
        /\ Reported(u, queued[u] \ {v})
        /\ acceptor' = [acceptor EXCEPT ![a] = [pc |-> "peer", who |-> v]]
  BY DEF AcceptTake
<1>3. UnitedTypeOK'
  <2>1. queued' \in [Sockets -> SUBSET Sockets]
    BY <1>1, <1>2 DEF UnitedInv, UnitedTypeOK
  <2>2. acceptor' \in AcceptorType
    BY <1>1, <1>2 DEF UnitedInv, UnitedTypeOK
  <2>3. ready' \in [{"IN", "OUT"} -> SUBSET Sockets] /\ late' \subseteq Sockets
    BY <1>2 DEF UnitedInv, UnitedTypeOK, Reported, Disabled
  <2> QED  BY <2>1, <2>2, <2>3 DEF AcceptTake, UnitedInv, UnitedTypeOK
<1>4. \A l \in Sockets : queued'[l] \subseteq queued[l]
  BY <1>1, <1>2 DEF UnitedInv, UnitedTypeOK
<1>5. SocketInv' /\ QueueInv' /\ ListenerInv' /\ AddingInv'
  BY <1>4 DEF AcceptTake, UnitedInv, SocketInv, QueueInv, ListenerInv, AddingInv
<1>6. UNCHANGED <<sock, worker, closers>>
  BY DEF AcceptTake
<1>7. WorkerInv'
  BY <1>4, <1>6 DEF UnitedInv, WorkerInv
<1>8. CloserInv'
  BY <1>4, <1>6 DEF UnitedInv, CloserInv
<1>9. AcceptInv'
  BY <1>2 DEF AcceptTake, UnitedInv, UnitedTypeOK, AcceptInv
<1> QED  BY <1>3, <1>5, <1>7, <1>8, <1>9 DEF UnitedInv

\* accept() returns empty-handed.
LEMMA AcceptEmptyKeeps ==
  ASSUME UnitedInv, NEW a \in Acceptors, AcceptEmpty(a)
  PROVE  UnitedInv'
<1>1. UNCHANGED <<sock, queued, listener, refs, worker, closers, adding, watch>>
  BY DEF AcceptEmpty
<1>2. acceptor' \in AcceptorType
  BY DEF UnitedInv, UnitedTypeOK, AcceptEmpty, Nobody
<1>3. EpollType'
  BY ReportType DEF UnitedInv, AcceptInv, AcceptEmpty
<1>4. AcceptInv'
  BY <1>1 DEF UnitedInv, UnitedTypeOK, AcceptInv, AcceptEmpty, Nobody
<1> QED  BY <1>1, <1>2, <1>3, <1>4, OnlyAcceptor

\* accept() waits for a listener that is not broken.
LEMMA AcceptWaitKeeps ==
  ASSUME UnitedInv, NEW a \in Acceptors, AcceptWait(a)
  PROVE  UnitedInv'
<1>1. UNCHANGED <<sock, queued, listener, refs, worker, closers, adding, watch>>
  BY DEF AcceptWait
<1>2. acceptor' \in AcceptorType
  BY DEF UnitedInv, UnitedTypeOK, AcceptWait
<1>3. EpollType'
  BY <1>1 DEF UnitedInv, UnitedTypeOK, AcceptWait
<1>4. AcceptInv'
  BY <1>1 DEF UnitedInv, UnitedTypeOK, AcceptInv, AcceptWait
<1> QED  BY <1>1, <1>2, <1>3, <1>4, OnlyAcceptor

\* accept() is woken.
LEMMA AcceptWokenKeeps ==
  ASSUME UnitedInv, NEW a \in Acceptors, AcceptWoken(a)
  PROVE  UnitedInv'
<1>1. UNCHANGED <<sock, queued, listener, refs, worker, closers, adding, watch>>
  BY DEF AcceptWoken
<1>2. acceptor' \in AcceptorType
  BY DEF UnitedInv, UnitedTypeOK, AcceptWoken
<1>3. EpollType'
  BY ReportType DEF UnitedInv, AcceptInv, AcceptWoken
<1>4. AcceptInv'
  BY <1>1 DEF UnitedInv, UnitedTypeOK, AcceptInv, AcceptWoken
<1> QED  BY <1>1, <1>2, <1>3, <1>4, OnlyAcceptor

\* accept() returns.
LEMMA AcceptReturnKeeps ==
  ASSUME UnitedInv, NEW a \in Acceptors, AcceptReturn(a)
  PROVE  UnitedInv'
<1>1. UNCHANGED <<sock, queued, listener, refs, worker, closers, adding, watch>>
  BY DEF AcceptReturn
<1>2. acceptor' \in AcceptorType
  BY DEF UnitedInv, UnitedTypeOK, AcceptReturn, Nobody
<1>3. EpollType'
  BY <1>1 DEF UnitedInv, UnitedTypeOK, AcceptReturn
<1>4. AcceptInv'
  BY <1>1 DEF UnitedInv, UnitedTypeOK, AcceptInv, AcceptReturn, Nobody
<1> QED  BY <1>1, <1>2, <1>3, <1>4, OnlyAcceptor

\* The process ends.
LEMMA FreedKeeps ==
  ASSUME UnitedInv, NEW m \in Sockets, Freed(m)
  PROVE  UnitedInv'
<1> QED  BY Unchanged DEF Freed

\* The worker reads m_pListener.
LEMMA RequestKeeps ==
  ASSUME UnitedInv, NEW m \in Sockets, Request(m)
  PROVE  UnitedInv'
<1>1. PICK v \in Sockets : v = listener[m]
  BY DEF Request, UnitedInv, ListenerInv
<1>2. /\ worker' = [worker EXCEPT ![m] = [pc |-> "listen", who |-> v, new |-> 0]]
      /\ UNCHANGED <<sock, queued, listener, refs, acceptor, closers, adding, watch, ready, late>>
      /\ sock[v].mux = m
  BY <1>1 DEF Request, UnitedInv, ListenerInv
<1>3. UnitedTypeOK'
  BY <1>2 DEF UnitedInv, UnitedTypeOK
<1>4. SocketInv' /\ QueueInv' /\ ListenerInv' /\ AddingInv'
  BY <1>2, SameSockets
<1>5. WorkerInv'
  BY <1>2 DEF UnitedInv, UnitedTypeOK, WorkerInv
<1>6. CloserInv'
  BY <1>2 DEF UnitedInv, UnitedTypeOK, CloserInv
<1>7. AcceptInv'
  BY <1>2 DEF UnitedInv, UnitedTypeOK, AcceptInv
<1> QED  BY <1>3, <1>4, <1>5, <1>6, <1>7 DEF UnitedInv

\* newConnection marks a broken socket closed.
LEMMA ReplaceKeeps ==
  ASSUME UnitedInv, NEW m \in Sockets, NEW v \in Sockets, Replace(m, v)
  PROVE  UnitedInv'
<1> DEFINE l == worker[m].who
           k == [sock[v] EXCEPT !.st = "CLOSED", !.aged = FALSE]
<1> HIDE DEF k
<1>0. l \in Sockets
  BY DEF Replace, UnitedInv, WorkerInv
<1>1. /\ worker[m].pc = "listen" /\ l \in Sockets /\ sock[l].place = "table"
      /\ sock[v].parent = l /\ sock[v].broken /\ sock[v].place = "table"
      /\ sock' = [sock EXCEPT ![v] = k]
      /\ queued' = [queued EXCEPT ![l] = @ \ {v}]
      /\ worker' = [worker EXCEPT ![m].pc = "replaced"]
      /\ UNCHANGED <<listener, refs, acceptor, closers, adding, watch, ready, late>>
  BY <1>0 DEF Replace, k
<1>2. sock \in [Sockets -> SocketType] /\ sock[v] \in SocketType
  BY DEF UnitedInv, UnitedTypeOK
<1>3. k \in SocketType /\ k.place = sock[v].place /\ k.st = "CLOSED" /\ k.mux = sock[v].mux
  BY <1>2 DEF SocketType, k
<1>4. k.parent = sock[v].parent /\ k.aged = FALSE /\ k.broken = sock[v].broken
  BY <1>2 DEF SocketType, k
<1>5. k.connecting = sock[v].connecting /\ k.connected = sock[v].connected
  BY <1>2 DEF SocketType, k
<1>6. k.polled = sock[v].polled
  BY <1>2 DEF SocketType, k
<1> HIDE DEF l
<1>7. ~sock[v].connecting
  BY <1>1 DEF UnitedInv, SocketInv
<1>8. UnitedTypeOK'
  <2>1. sock' \in [Sockets -> SocketType]
    BY <1>1, <1>2, <1>3
  <2>2. queued' \in [Sockets -> SUBSET Sockets]
    BY <1>1 DEF UnitedInv, UnitedTypeOK
  <2>3. worker' \in [Sockets -> [pc : WorkerPCs, who : Ids, new : Ids]]
    BY SMTT(30), <1>1 DEF UnitedInv, UnitedTypeOK
  <2> QED  BY <1>1, <2>1, <2>2, <2>3 DEF UnitedInv, UnitedTypeOK
<1>9. SocketInv'
  BY <1>1, <1>2, <1>3, <1>4, <1>5, <1>6, <1>7 DEF UnitedInv, SocketInv
<1> HIDE DEF LifeOK
<1>10. \A u \in Sockets : /\ sock'[u].place = sock[u].place /\ sock'[u].mux = sock[u].mux
                          /\ sock'[u].parent = sock[u].parent
                          /\ sock'[u].broken = sock[u].broken
                          /\ sock'[u].connecting = sock[u].connecting
                          /\ sock'[u].connected = sock[u].connected
  BY <1>1, <1>2, <1>3, <1>4, <1>5
<1>11. \A u \in Sockets : /\ u # v => sock'[u] = sock[u]
                          /\ queued'[u] \subseteq queued[u]
  BY <1>1, <1>2 DEF UnitedInv, UnitedTypeOK
<1>12. QueueInv' /\ ListenerInv'
  BY <1>1, <1>10, <1>11 DEF UnitedInv, QueueInv, ListenerInv
<1>13. AddingInv'
  BY SMTT(30), <1>1, <1>3, <1>4, <1>10, <1>11 DEF UnitedInv, AddingInv
<1>14. WorkerInv'
  <2>1. \A n \in Sockets : worker'[n] = IF n = m THEN [worker[m] EXCEPT !.pc = "replaced"]
                                         ELSE worker[n]
    BY <1>1 DEF UnitedInv, UnitedTypeOK
  <2>2. \A n \in Sockets : worker[n].pc \in Making => worker[n].new # v
    BY <1>1 DEF UnitedInv, WorkerInv
  <2>3. worker'[m].pc = "replaced" /\ worker'[m].who = l
    BY <1>1 DEF UnitedInv, UnitedTypeOK, l
  <2> QED  BY <1>1, <1>3, <1>10, <1>11, <2>1, <2>2, <2>3 DEF UnitedInv, WorkerInv, l
<1>15. CloserInv'
  <2>1. \A n \in Sockets : worker'[n].pc \in Making =>
            worker[n].pc \in Making /\ worker'[n].new = worker[n].new
    BY <1>1 DEF UnitedInv, UnitedTypeOK
  <2> QED  BY <1>1, <1>3, <1>10, <1>11, <2>1 DEF UnitedInv, CloserInv
<1>16. AcceptInv'
  <2>1. \A n \in Sockets : worker'[n].pc \in Answering =>
            worker[n].pc \in Answering /\ worker'[n].who = worker[n].who
    BY <1>1 DEF UnitedInv, UnitedTypeOK
  <2>2. \A b \in Acceptors : acceptor[b].pc \in Accepting => acceptor[b].who # v
    BY <1>1 DEF UnitedInv, AcceptInv
  <2> QED  BY <1>1, <1>10, <1>11, <2>1, <2>2 DEF UnitedInv, AcceptInv
<1> QED  BY <1>8, <1>9, <1>12, <1>13, <1>14, <1>15, <1>16 DEF UnitedInv

\* newConnection refuses.
LEMMA RefuseKeeps ==
  ASSUME UnitedInv, NEW m \in Sockets, Refuse(m)
  PROVE  UnitedInv'
<1>1. UnitedTypeOK'
  BY FieldSet DEF UnitedInv, UnitedTypeOK, Refuse, Idle
<1>2. SocketInv'
  BY DEF UnitedInv, UnitedTypeOK, SocketInv, Refuse, Idle
<1>3. QueueInv' /\ ListenerInv' /\ AddingInv'
  BY DEF UnitedInv, UnitedTypeOK, SocketInv, QueueInv, ListenerInv, WorkerInv, CloserInv,
     AddingInv, AcceptInv, Refuse, Idle
<1>4. WorkerInv'
  BY DEF UnitedInv, UnitedTypeOK, WorkerInv, Refuse, Idle
<1>5. CloserInv' /\ AcceptInv'
  BY DEF UnitedInv, UnitedTypeOK, SocketInv, QueueInv, ListenerInv, WorkerInv, CloserInv,
     AddingInv, AcceptInv, Refuse, Idle
<1> QED  BY <1>1, <1>2, <1>3, <1>4, <1>5 DEF UnitedInv

\* newConnection makes a socket, which nobody refers to.
LEMMA MakeKeeps ==
  ASSUME UnitedInv, NEW m \in Sockets, Make(m)
  PROVE  UnitedInv'
<1>1. PICK v \in Sockets :
        /\ sock[v].place = "none"
        /\ sock' = [sock EXCEPT ![v] = [@ EXCEPT !.place = "born", !.parent = worker[m].who]]
        /\ worker' = [worker EXCEPT ![m] = [@ EXCEPT !.pc = "make", !.new = v]]
  BY DEF Make, NextIds
<1> DEFINE k == [sock[v] EXCEPT !.place = "born", !.parent = worker[m].who]
           w == [worker[m] EXCEPT !.pc = "make", !.new = v]
<1>2. /\ sock' = [sock EXCEPT ![v] = k]
      /\ worker' = [worker EXCEPT ![m] = w]
      /\ worker[m].who \in Sockets /\ Kept(worker[m].who) /\ sock[worker[m].who].mux = m
      /\ worker[m].pc \in {"listen", "replaced"}
      /\ UNCHANGED <<queued, listener, refs, acceptor, closers, adding, watch, ready, late>>
  BY <1>1 DEF Make, Found, UnitedInv, WorkerInv
<1>3. /\ sock[v].st = "INIT" /\ sock[v].mux = 0 /\ v # worker[m].who
      /\ \A l \in Sockets : v \notin queued[l]
  BY <1>1, <1>2 DEF UnitedInv, SocketInv, QueueInv
<1>4. /\ k \in SocketType
      /\ k.place = "born" /\ k.parent = worker[m].who
      /\ k.st = sock[v].st /\ k.mux = sock[v].mux
      /\ k.broken = sock[v].broken /\ k.polled = sock[v].polled
      /\ LifeOK(k)
  <2>1. sock[v] \in SocketType /\ worker[m].who \in Ids
    BY <1>2 DEF UnitedInv, UnitedTypeOK
  <2>2. k \in SocketType
    BY <2>1, FieldSet
  <2>3. /\ k.place = "born" /\ k.parent = worker[m].who
        /\ k.st = sock[v].st /\ k.mux = sock[v].mux
    BY <2>1 DEF SocketType
  <2>4. k.broken = sock[v].broken /\ k.polled = sock[v].polled
    BY <2>1 DEF SocketType
  <2>5. k.connected = sock[v].connected /\ k.connecting = sock[v].connecting
    BY <2>1 DEF SocketType
  <2>6. LifeOK(sock[v])
    BY DEF UnitedInv, SocketInv
  <2> HIDE DEF k
  <2>7. LifeOK(k)
    BY <1>1, <1>3, <2>1, <2>2, <2>3, <2>4, <2>5, <2>6
  <2> QED  BY <2>2, <2>3, <2>4, <2>5, <2>7
<1>5. /\ w \in [pc : WorkerPCs, who : Ids, new : Ids]
      /\ w.pc = "make" /\ w.new = v /\ w.who = worker[m].who
  <2> HIDE DEF LifeOK
  <2>1. worker[m] \in [pc : WorkerPCs, who : Ids, new : Ids]
    BY DEF UnitedInv, UnitedTypeOK
  <2> QED  BY <2>1
<1> HIDE DEF k, w, Located
<1>6. UnitedTypeOK'
  <2>1. sock' \in [Sockets -> SocketType]
    BY <1>2, <1>4 DEF UnitedInv, UnitedTypeOK
  <2>2. worker' \in [Sockets -> [pc : WorkerPCs, who : Ids, new : Ids]]
    BY <1>2, <1>5 DEF UnitedInv, UnitedTypeOK
  <2> QED  BY <1>2, <2>1, <2>2 DEF UnitedInv, UnitedTypeOK
<1>7. SocketInv'
  <2> HIDE DEF LifeOK
  <2> QED  BY <1>2, <1>4 DEF UnitedInv, UnitedTypeOK, SocketInv
<1>8. QueueInv' /\ ListenerInv' /\ AddingInv'
  BY SMTT(30), <1>1, <1>2, <1>3, <1>4 DEF UnitedInv, UnitedTypeOK, QueueInv, ListenerInv, AddingInv
<1>9. WorkerInv'
  BY <1>1, <1>2, <1>3, <1>4, <1>5 DEF UnitedInv, UnitedTypeOK, SocketInv, WorkerInv
<1>10. CloserInv'
  BY <1>1, <1>2, <1>3, <1>4, <1>5 DEF UnitedInv, UnitedTypeOK, CloserInv
<1>11. AcceptInv'
  BY <1>1, <1>2, <1>3, <1>4, <1>5 DEF UnitedInv, UnitedTypeOK, AcceptInv
<1> QED  BY <1>6, <1>7, <1>8, <1>9, <1>10, <1>11 DEF UnitedInv

\* The new socket gets the listener's multiplexer, which is the worker's.
LEMMA MakeConnectedKeeps ==
  ASSUME UnitedInv, NEW m \in Sockets, MakeConnected(m)
  PROVE  UnitedInv'
<1>1. PICK v \in Sockets : v = worker[m].new
  BY DEF MakeConnected, UnitedInv, WorkerInv
<1> DEFINE k == [sock[v] EXCEPT !.mux = m, !.connected = TRUE, !.onList = TRUE,
                                !.st = "CONNECTED"]
<1>2. /\ worker[m].who \in Sockets /\ sock[worker[m].who].mux = m
      /\ sock[v].parent = worker[m].who
      /\ sock[v].place = "born" /\ sock[v].st = "INIT" /\ ~sock[v].broken
      /\ sock[v].mux = 0 /\ v # worker[m].who
  BY <1>1 DEF MakeConnected, UnitedInv, WorkerInv, SocketInv
<1>3. /\ refs' = [refs EXCEPT ![m] = @ + 1]
      /\ sock' = [sock EXCEPT ![v] = k]
      /\ worker' = [worker EXCEPT ![m].pc = "table"] /\ worker[m].pc = "make"
      /\ UNCHANGED <<queued, listener, acceptor, closers, adding, watch, ready, late>>
  BY <1>1, <1>2 DEF MakeConnected
<1>4. /\ k \in SocketType
      /\ k.place = "born" /\ k.st = "CONNECTED" /\ k.mux = m
      /\ k.parent = sock[v].parent /\ k.connecting = sock[v].connecting
      /\ k.broken = sock[v].broken /\ k.polled = sock[v].polled
  <2> HIDE DEF LifeOK
  <2>1. sock[v] \in SocketType /\ m \in Ids
    BY DEF UnitedInv, UnitedTypeOK
  <2>2. k \in SocketType
    BY <2>1, FieldSet
  <2>3. /\ k.place = sock[v].place /\ k.st = "CONNECTED" /\ k.mux = m
        /\ k.parent = sock[v].parent
    BY <2>1 DEF SocketType
  <2>4. k.broken = sock[v].broken /\ k.polled = sock[v].polled
    BY <2>1 DEF SocketType
  <2>5. k.connecting = sock[v].connecting
    BY <2>1 DEF SocketType
  <2> QED  BY <1>2, <2>2, <2>3, <2>4, <2>5
<1> HIDE DEF k, Located
<1>5. UnitedTypeOK'
  <2>1. sock' \in [Sockets -> SocketType]
    BY <1>3, <1>4 DEF UnitedInv, UnitedTypeOK
  <2>2. refs' \in [Sockets -> Int]
    BY <1>3 DEF UnitedInv, UnitedTypeOK
  <2>3. worker' \in [Sockets -> [pc : WorkerPCs, who : Ids, new : Ids]]
    BY <1>3 DEF UnitedInv, UnitedTypeOK
  <2> QED  BY <1>3, <2>1, <2>2, <2>3 DEF UnitedInv, UnitedTypeOK
<1>6. SocketInv'
  BY <1>1, <1>2, <1>3, <1>4 DEF UnitedInv, UnitedTypeOK, SocketInv
<1>7. QueueInv' /\ AddingInv'
  BY <1>1, <1>2, <1>3, <1>4 DEF UnitedInv, UnitedTypeOK, QueueInv, AddingInv
<1>8. ListenerInv'
  BY SMTT(30), <1>1, <1>2, <1>3, <1>4 DEF UnitedInv, UnitedTypeOK, ListenerInv
<1>9. WorkerInv'
  BY SMTT(30), <1>1, <1>2, <1>3, <1>4 DEF UnitedInv, UnitedTypeOK, WorkerInv
<1>10. CloserInv'
  BY <1>1, <1>2, <1>3, <1>4 DEF UnitedInv, UnitedTypeOK, CloserInv
<1>11. AcceptInv'
  BY <1>1, <1>2, <1>3, <1>4 DEF UnitedInv, UnitedTypeOK, AcceptInv
<1> QED  BY <1>5, <1>6, <1>7, <1>8, <1>9, <1>10, <1>11 DEF UnitedInv

\* What an exception leaves: the new socket k, in no table, and with the
\* worker's multiplexer or none.
LEMMA MakeFailsIs ==
  ASSUME UnitedInv, NEW m \in Sockets, MakeFails(m)
  PROVE  \E v \in Sockets, k \in SocketType :
             /\ v = worker[m].new /\ worker[m].pc = "make"
             /\ sock[v].place = "born" /\ sock[v].mux = 0
             /\ sock' = [sock EXCEPT ![v] = k]
             /\ worker' = [worker EXCEPT ![m] = Idle]
             /\ UNCHANGED <<queued, listener, acceptor, closers, adding, watch, ready, late>>
             /\ k.place = "born" /\ k.st = "CLOSED" /\ k.parent = sock[v].parent
             /\ ~k.connecting /\ ~k.connected /\ ~k.polled
             /\ k.broken = sock[v].broken /\ (sock[v].closing => k.closing)
             /\ \/ k.mux = 0 /\ refs' = refs
                \/ k.mux = m /\ refs' = [refs EXCEPT ![m] = @ + 1]
<1>1. PICK v \in Sockets : v = worker[m].new
  BY DEF MakeFails, UnitedInv, WorkerInv
<1>2. /\ worker[m].pc = "make" /\ sock[worker[m].who].mux = m
      /\ sock[v].place = "born" /\ sock[v].st = "INIT" /\ sock[v].mux = 0
  BY <1>1 DEF MakeFails, UnitedInv, WorkerInv, SocketInv
<1>3. /\ worker' = [worker EXCEPT ![m] = Idle]
      /\ UNCHANGED <<queued, listener, acceptor, closers, adding, watch, ready, late>>
  BY DEF MakeFails, epoll
<1>4. PICK o : o = sock[v] /\ o \in SocketType
  BY DEF UnitedInv, UnitedTypeOK
<1>5. /\ o.place = "born" /\ ~o.connecting /\ ~o.connected /\ ~o.polled
  BY <1>2, <1>4 DEF UnitedInv, SocketInv, LifeOK
<1>6. PICK b \in BOOLEAN :
          \/ sock' = [sock EXCEPT ![v] = [o EXCEPT !.st = "CLOSED"]] /\ refs' = refs
          \/ /\ refs' = [refs EXCEPT ![m] = @ + 1]
             /\ sock' = [sock EXCEPT ![v] = [o EXCEPT !.mux = m, !.closing = TRUE,
                                                      !.onList = b, !.st = "CLOSED"]]
  BY <1>1, <1>2, <1>4, Zenon DEF MakeFails
<1>7. CASE sock' = [sock EXCEPT ![v] = [o EXCEPT !.st = "CLOSED"]] /\ refs' = refs
  <2>1. PICK k : k = [o EXCEPT !.st = "CLOSED"]
    OBVIOUS
  <2>2. /\ k \in SocketType /\ k.place = "born" /\ k.st = "CLOSED" /\ k.parent = o.parent
        /\ ~k.connecting /\ ~k.connected /\ ~k.polled /\ k.mux = o.mux
        /\ k.broken = o.broken /\ k.closing = o.closing
    BY <1>4, <1>5, <2>1 DEF SocketType, States
  <2>3. sock' = [sock EXCEPT ![v] = k]
    BY <1>7, <2>1
  <2> k \in SocketType
    BY <2>2
  <2> WITNESS v \in Sockets, k \in SocketType
  <2>4. (sock[v].closing => k.closing) /\ k.mux = 0
    BY <1>2, <1>4, <2>2
  <2> QED  BY <1>1, <1>2, <1>3, <1>4, <1>7, <2>2, <2>3, <2>4
<1>8. CASE /\ refs' = [refs EXCEPT ![m] = @ + 1]
           /\ sock' = [sock EXCEPT ![v] = [o EXCEPT !.mux = m, !.closing = TRUE,
                                                    !.onList = b, !.st = "CLOSED"]]
  <2>1. PICK k : k = [o EXCEPT !.mux = m, !.closing = TRUE, !.onList = b, !.st = "CLOSED"]
    OBVIOUS
  <2>2. m \in Ids
    BY DEF Ids
  <2>3. /\ k \in SocketType /\ k.place = "born" /\ k.st = "CLOSED" /\ k.parent = o.parent
        /\ ~k.connecting /\ ~k.connected /\ ~k.polled /\ k.mux = m
        /\ k.broken = o.broken /\ k.closing
    BY <1>4, <1>5, <2>1, <2>2 DEF SocketType, States
  <2>4. sock' = [sock EXCEPT ![v] = k]
    BY <1>8, <2>1
  <2> k \in SocketType
    BY <2>3
  <2> WITNESS v \in Sockets, k \in SocketType
  <2>5. sock[v].closing => k.closing
    BY <2>3
  <2> QED  BY <1>1, <1>2, <1>3, <1>4, <1>8, <2>3, <2>4, <2>5
<1> QED  BY <1>6, <1>7, <1>8

\* Making a connection fails.
LEMMA MakeFailsKeeps ==
  ASSUME UnitedInv, NEW m \in Sockets, MakeFails(m)
  PROVE  UnitedInv'
<1>1. PICK v \in Sockets, k \in SocketType :
             /\ v = worker[m].new /\ worker[m].pc = "make"
             /\ sock[v].place = "born" /\ sock[v].mux = 0
             /\ sock' = [sock EXCEPT ![v] = k]
             /\ worker' = [worker EXCEPT ![m] = Idle]
             /\ UNCHANGED <<queued, listener, acceptor, closers, adding, watch, ready, late>>
             /\ k.place = "born" /\ k.st = "CLOSED" /\ k.parent = sock[v].parent
             /\ ~k.connecting /\ ~k.connected /\ ~k.polled
             /\ k.broken = sock[v].broken /\ (sock[v].closing => k.closing)
             /\ \/ k.mux = 0 /\ refs' = refs
                \/ k.mux = m /\ refs' = [refs EXCEPT ![m] = @ + 1]
  BY MakeFailsIs
<1>2. UnitedTypeOK'
  <2>1. sock' \in [Sockets -> SocketType]
    BY <1>1 DEF UnitedInv, UnitedTypeOK
  <2>2. refs' \in [Sockets -> Int]
    BY <1>1 DEF UnitedInv, UnitedTypeOK
  <2>3. worker' \in [Sockets -> [pc : WorkerPCs, who : Ids, new : Ids]]
    <3>1. Idle \in [pc : WorkerPCs, who : Ids, new : Ids]
      BY DEF Idle, WorkerPCs, Ids
    <3> QED  BY <1>1, <3>1 DEF UnitedInv, UnitedTypeOK
  <2> QED  BY <1>1, <2>1, <2>2, <2>3 DEF UnitedInv, UnitedTypeOK
<1>3. SocketInv'
  <2>1. LifeOK(k)
    BY <1>1 DEF LifeOK, SocketType
  <2> HIDE DEF LifeOK
  <2> QED  BY <1>1, <2>1 DEF UnitedInv, UnitedTypeOK, SocketInv
<1>4. QueueInv' /\ AddingInv'
  BY <1>1 DEF UnitedInv, UnitedTypeOK, QueueInv, AddingInv
<1>5. ListenerInv'
  BY SMTT(30), <1>1 DEF UnitedInv, UnitedTypeOK, ListenerInv
<1>6. WorkerInv'
  BY SMTT(30), <1>1 DEF Idle, UnitedInv, UnitedTypeOK, WorkerInv
<1>7. CloserInv'
  BY <1>1 DEF Idle, UnitedInv, UnitedTypeOK, CloserInv
<1>8. AcceptInv'
  BY <1>1 DEF Idle, UnitedInv, UnitedTypeOK, AcceptInv
<1> QED  BY <1>2, <1>3, <1>4, <1>5, <1>6, <1>7, <1>8 DEF UnitedInv

\* The new socket is entered in m_Sockets.
LEMMA EnterTableKeeps ==
  ASSUME UnitedInv, NEW m \in Sockets, EnterTable(m)
  PROVE  UnitedInv'
<1> DEFINE v == worker[m].new
<1>1. /\ v \in Sockets /\ sock[v].place = "born" /\ sock[v].st = "CONNECTED"
      /\ sock' = [sock EXCEPT ![v].place = "table"]
  BY DEF EnterTable, UnitedInv, WorkerInv
<1>2. UnitedTypeOK'
  <2>1. sock' \in [Sockets -> SocketType]
    BY <1>1, FieldSet DEF UnitedInv, UnitedTypeOK
  <2> QED  BY <2>1 DEF EnterTable, UnitedInv, UnitedTypeOK
<1>3. SocketInv'
  BY <1>1 DEF UnitedInv, UnitedTypeOK, SocketInv, SocketType
<1>4. QueueInv' /\ ListenerInv' /\ AddingInv'
  BY <1>1 DEF EnterTable, UnitedInv, UnitedTypeOK, QueueInv, ListenerInv, AddingInv
<1>5. WorkerInv'
  BY DEF EnterTable, UnitedInv, UnitedTypeOK, WorkerInv
<1>6. CloserInv' /\ AcceptInv'
  BY DEF EnterTable, UnitedInv, UnitedTypeOK, CloserInv, AcceptInv
<1> QED  BY <1>2, <1>3, <1>4, <1>5, <1>6 DEF UnitedInv

\* The new socket is entered in the queue of its listener.
LEMMA EnterQueueKeeps ==
  ASSUME UnitedInv, NEW m \in Sockets, EnterQueue(m)
  PROVE  UnitedInv'
<1>1. UnitedTypeOK'
  <2>1. queued' \in [Sockets -> SUBSET Sockets]
    BY DEF UnitedInv, UnitedTypeOK, EnterQueue, WorkerInv
  <2>2. worker' \in [Sockets -> [pc : WorkerPCs, who : Ids, new : Ids]]
    BY DEF UnitedInv, UnitedTypeOK, EnterQueue, WorkerInv
  <2> QED  BY <2>1, <2>2 DEF UnitedInv, UnitedTypeOK, EnterQueue
<1>2. SocketInv'
  BY DEF UnitedInv, UnitedTypeOK, SocketInv, EnterQueue
<1>3. QueueInv' /\ ListenerInv' /\ AddingInv'
  BY DEF UnitedInv, UnitedTypeOK, SocketInv, QueueInv, ListenerInv, WorkerInv, CloserInv,
     AddingInv, AcceptInv, EnterQueue
<1>4. WorkerInv'
  BY DEF UnitedInv, UnitedTypeOK, WorkerInv, EnterQueue
<1>5. CloserInv' /\ AcceptInv'
  BY DEF UnitedInv, UnitedTypeOK, CloserInv, AcceptInv, EnterQueue
<1> QED  BY <1>1, <1>2, <1>3, <1>4, <1>5 DEF UnitedInv

\* The pollers are told.
LEMMA TellPollersKeeps ==
  ASSUME UnitedInv, NEW m \in Sockets, TellPollers(m)
  PROVE  UnitedInv'
<1>1. UnitedTypeOK'
  <2>1. ready' \in [{"IN", "OUT"} -> SUBSET Sockets]
    BY DEF UnitedInv, UnitedTypeOK, TellPollers, Enabled
  <2>2. worker' \in [Sockets -> [pc : WorkerPCs, who : Ids, new : Ids]]
    BY DEF UnitedInv, UnitedTypeOK, TellPollers
  <2> QED  BY <2>1, <2>2 DEF UnitedInv, UnitedTypeOK, TellPollers, Enabled
<1>2. SocketInv'
  BY DEF UnitedInv, UnitedTypeOK, SocketInv, TellPollers, Enabled
<1>3. QueueInv' /\ ListenerInv' /\ AddingInv'
  BY DEF UnitedInv, UnitedTypeOK, QueueInv, ListenerInv, AddingInv, TellPollers, Enabled
<1>4. WorkerInv'
  BY DEF UnitedInv, UnitedTypeOK, WorkerInv, TellPollers, Enabled
<1>5. CloserInv' /\ AcceptInv'
  BY DEF UnitedInv, UnitedTypeOK, CloserInv, AcceptInv, TellPollers, Enabled
<1> QED  BY <1>1, <1>2, <1>3, <1>4, <1>5 DEF UnitedInv

\* One that waits is woken.
LEMMA SignalAcceptKeeps ==
  ASSUME UnitedInv, NEW m \in Sockets, SignalAccept(m)
  PROVE  UnitedInv'
<1>1. PICK u \in Sockets : u = worker[m].who
  BY DEF SignalAccept, UnitedInv, WorkerInv
<1>2. /\ UNCHANGED <<sock, queued, listener, refs, closers, adding, watch, late>>
      /\ worker' = [worker EXCEPT ![m] = Idle]
      /\ ready' = Enabled("OUT", u, ready)
      /\ \/ acceptor' = acceptor
         \/ \E a \in Waiting(u) : acceptor' = [acceptor EXCEPT ![a].pc = "woken"]
  BY <1>1 DEF SignalAccept
<1>3. \A a \in Acceptors : /\ acceptor'[a].who = acceptor[a].who
                           /\ \/ acceptor'[a].pc = acceptor[a].pc
                              \/ acceptor[a].pc = "wait" /\ acceptor'[a].pc = "woken"
  BY <1>2 DEF UnitedInv, UnitedTypeOK, Waiting
<1>4. UnitedTypeOK'
  <2>1. acceptor' \in AcceptorType
    BY <1>2 DEF UnitedInv, UnitedTypeOK, Waiting
  <2>2. ready' \in [{"IN", "OUT"} -> SUBSET Sockets]
    BY <1>2 DEF UnitedInv, UnitedTypeOK, Enabled
  <2>3. worker' \in [Sockets -> [pc : WorkerPCs, who : Ids, new : Ids]]
    BY <1>2 DEF UnitedInv, UnitedTypeOK, Idle
  <2> QED  BY <1>2, <2>1, <2>2, <2>3 DEF UnitedInv, UnitedTypeOK
<1>5. SocketInv' /\ QueueInv' /\ ListenerInv' /\ AddingInv'
  BY <1>2, SameSockets
<1>6. WorkerInv' /\ CloserInv'
  BY <1>2 DEF UnitedInv, UnitedTypeOK, WorkerInv, CloserInv, Idle
<1>7. AcceptInv'
  BY <1>2, <1>3 DEF UnitedInv, UnitedTypeOK, AcceptInv, Idle
<1> QED  BY <1>4, <1>5, <1>6, <1>7 DEF UnitedInv

\* The worker finds the socket that waits for an answer.
LEMMA AnsweredKeeps ==
  ASSUME UnitedInv, NEW u \in Sockets, Answered(u)
  PROVE  UnitedInv'
<1>1. UnitedTypeOK'
  BY FieldSet DEF UnitedInv, UnitedTypeOK, Answered, Idle
<1>2. SocketInv'
  BY DEF UnitedInv, UnitedTypeOK, SocketInv, Answered, Idle
<1>3. QueueInv' /\ ListenerInv' /\ AddingInv'
  BY DEF UnitedInv, UnitedTypeOK, SocketInv, QueueInv, ListenerInv, WorkerInv, CloserInv,
     AddingInv, AcceptInv, Answered, Idle
<1>4. WorkerInv'
  BY DEF UnitedInv, UnitedTypeOK, SocketInv, QueueInv, ListenerInv, WorkerInv, CloserInv,
     AddingInv, AcceptInv, Answered, Idle
<1>5. CloserInv' /\ AcceptInv'
  BY DEF UnitedInv, UnitedTypeOK, SocketInv, QueueInv, ListenerInv, WorkerInv, CloserInv,
     AddingInv, AcceptInv, Answered, Idle
<1> QED  BY <1>1, <1>2, <1>3, <1>4, <1>5 DEF UnitedInv

\* The worker connects it, closed meanwhile or not.
LEMMA EstablishKeeps ==
  ASSUME UnitedInv, NEW m \in Sockets, Establish(m)
  PROVE  UnitedInv'
<1>1. PICK v \in Sockets : v = worker[m].who
  BY DEF Establish, UnitedInv, WorkerInv
<1> DEFINE k == [sock[v] EXCEPT !.connecting = FALSE, !.connected = TRUE, !.onList = TRUE]
<1>2. /\ sock' = [sock EXCEPT ![v] = k]
      /\ worker' = [worker EXCEPT ![m].pc = "complete"]
      /\ UNCHANGED <<queued, listener, refs, acceptor, closers, adding, watch, ready, late>>
      /\ sock[v].st \in {"CONNECTING", "CONNECTED", "CLOSED"} /\ Kept(v)
      /\ worker[m].pc = "answered"
  BY <1>1 DEF Establish, UnitedInv, WorkerInv
<1>3. /\ k \in SocketType
      /\ k.place = sock[v].place /\ k.st = sock[v].st /\ k.mux = sock[v].mux
      /\ k.parent = sock[v].parent /\ ~k.connecting
      /\ k.broken = sock[v].broken /\ k.aged = sock[v].aged /\ k.polled = sock[v].polled
  <2>1. sock[v] \in SocketType
    BY DEF UnitedInv, UnitedTypeOK
  <2>2. k \in SocketType
    BY <2>1, FieldSet
  <2> HIDE DEF LifeOK
  <2>3. /\ k.place = sock[v].place /\ k.st = sock[v].st /\ k.mux = sock[v].mux
        /\ k.parent = sock[v].parent /\ ~k.connecting
    BY <2>1 DEF SocketType
  <2>4. k.broken = sock[v].broken /\ k.aged = sock[v].aged /\ k.polled = sock[v].polled
    BY <2>1 DEF SocketType
  <2> QED  BY <2>2, <2>3, <2>4
<1> HIDE DEF k, Located
<1>4. UnitedTypeOK'
  <2>1. sock' \in [Sockets -> SocketType]
    BY <1>2, <1>3 DEF UnitedInv, UnitedTypeOK
  <2>2. worker' \in [Sockets -> [pc : WorkerPCs, who : Ids, new : Ids]]
    <3> HIDE DEF LifeOK
    <3>1. worker \in [Sockets -> [pc : WorkerPCs, who : Ids, new : Ids]]
      BY DEF UnitedInv, UnitedTypeOK
    <3>2. worker' = [worker EXCEPT ![m].pc = "complete"]
      BY <1>2
    <3> QED  BY <3>1, <3>2
  <2> QED  BY <1>2, <2>1, <2>2 DEF UnitedInv, UnitedTypeOK
<1>5. SocketInv'
  BY <1>1, <1>2, <1>3 DEF UnitedInv, UnitedTypeOK, SocketInv
<1>6. QueueInv' /\ ListenerInv'
  BY <1>1, <1>2, <1>3 DEF UnitedInv, UnitedTypeOK, QueueInv, ListenerInv
<1>7. AddingInv'
  BY <1>1, <1>2, <1>3 DEF UnitedInv, UnitedTypeOK, AddingInv
<1>8. WorkerInv'
  BY <1>1, <1>2, <1>3 DEF UnitedInv, UnitedTypeOK, WorkerInv
<1>9. CloserInv'
  BY <1>1, <1>2, <1>3 DEF UnitedInv, UnitedTypeOK, CloserInv
<1>10. AcceptInv'
  BY <1>1, <1>2, <1>3 DEF UnitedInv, UnitedTypeOK, AcceptInv
<1> QED  BY <1>4, <1>5, <1>6, <1>7, <1>8, <1>9, <1>10 DEF UnitedInv

\* The worker tells connect_complete.
LEMMA CompleteKeeps ==
  ASSUME UnitedInv, NEW m \in Sockets, Complete(m)
  PROVE  UnitedInv'
<1>1. PICK v \in Sockets : v = worker[m].who
  BY DEF Complete, UnitedInv, WorkerInv
<1>2. /\ ~sock[v].connecting /\ worker[m].pc = "complete"
      /\ UNCHANGED <<queued, listener, refs, acceptor, closers, adding, watch, ready, late>>
  BY <1>1 DEF Complete, UnitedInv, WorkerInv
<1>3. CASE Located(v)
  <2>1. /\ sock' = [sock EXCEPT ![v].st = "CONNECTED"]
        /\ worker' = [worker EXCEPT ![m].pc = "report"]
    BY <1>1, <1>3 DEF Complete
  <2>2. sock[v].st \in {"CONNECTING", "CONNECTED"} /\ sock[v].place = "table"
    BY <1>1, <1>2, <1>3 DEF UnitedInv, WorkerInv
  <2> HIDE DEF Located
  <2>3. UnitedTypeOK'
    <3>1. sock' \in [Sockets -> SocketType]
      <4>1. sock \in [Sockets -> SocketType] /\ sock[v] \in SocketType
        BY DEF UnitedInv, UnitedTypeOK
      <4>2. [sock[v] EXCEPT !.st = "CONNECTED"] \in SocketType
        BY <4>1, FieldSet
      <4> QED  BY <2>1, <4>1, <4>2
    <3>2. worker' \in [Sockets -> [pc : WorkerPCs, who : Ids, new : Ids]]
      BY SMTT(30), <2>1 DEF UnitedInv, UnitedTypeOK
    <3> QED  BY <1>2, <3>1, <3>2 DEF UnitedInv, UnitedTypeOK
  <2>4. SocketInv'
    BY <1>1, <1>2, <2>1, <2>2 DEF UnitedInv, UnitedTypeOK, SocketInv
  <2>5. QueueInv' /\ ListenerInv' /\ AddingInv'
    BY <1>2, <2>1 DEF UnitedInv, UnitedTypeOK, QueueInv, ListenerInv, AddingInv
  <2>6. WorkerInv'
    BY <1>1, <1>2, <2>1, <2>2 DEF UnitedInv, UnitedTypeOK, WorkerInv
  <2>7. CloserInv'
    BY <1>1, <1>2, <2>1, <2>2 DEF UnitedInv, UnitedTypeOK, CloserInv
  <2>8. AcceptInv'
    BY <1>1, <1>2, <2>1, <2>2 DEF UnitedInv, UnitedTypeOK, AcceptInv
  <2> QED  BY <2>3, <2>4, <2>5, <2>6, <2>7, <2>8 DEF UnitedInv
<1>4. CASE ~Located(v)
  <2>1. UNCHANGED <<sock, worker>>
    BY <1>1, <1>4 DEF Complete
  <2> QED  BY <1>2, <2>1, Unchanged
<1> QED  BY <1>3, <1>4

\* The worker tells the pollers.
LEMMA ReportKeeps ==
  ASSUME UnitedInv, NEW m \in Sockets, Report(m)
  PROVE  UnitedInv'
<1>1. PICK v \in Sockets : v = worker[m].who
  BY DEF Report, UnitedInv, WorkerInv
<1>2. /\ ready' = Enabled("OUT", v, ready)
      /\ worker' = [worker EXCEPT ![m] = Idle]
      /\ UNCHANGED <<sock, queued, listener, refs, acceptor, closers, adding, watch, late>>
  BY <1>1 DEF Report
<1>3. UnitedTypeOK'
  <2>1. ready' \in [{"IN", "OUT"} -> SUBSET Sockets]
    BY <1>2, EnabledType DEF UnitedInv, UnitedTypeOK
  <2>2. worker' \in [Sockets -> [pc : WorkerPCs, who : Ids, new : Ids]]
    BY <1>2 DEF UnitedInv, UnitedTypeOK, Idle
  <2> QED  BY <1>2, <2>1, <2>2 DEF UnitedInv, UnitedTypeOK
<1>4. SocketInv' /\ QueueInv' /\ ListenerInv' /\ AddingInv'
  BY <1>2, SameSockets
<1>5. \A n \in Sockets : worker'[n] = worker[n] \/ worker'[n].pc = "idle"
  BY <1>2 DEF UnitedInv, UnitedTypeOK, Idle
<1>6. WorkerInv' /\ CloserInv' /\ AcceptInv'
  BY <1>2, <1>5 DEF UnitedInv, WorkerInv, CloserInv, AcceptInv
<1> QED  BY <1>3, <1>4, <1>6 DEF UnitedInv

\* A connection breaks.
LEMMA BreakKeeps ==
  ASSUME UnitedInv, NEW u \in Sockets, Break(u)
  PROVE  UnitedInv'
<1> DEFINE k == [sock[u] EXCEPT !.broken = TRUE, !.closing = TRUE]
<1> HIDE DEF k
<1>1. /\ sock' = [sock EXCEPT ![u] = k] /\ worker[sock[u].mux].pc = "idle"
      /\ sock[u].connected
      /\ ready' \in {Enabled("OUT", u, Enabled("IN", u, ready)), ready}
      /\ UNCHANGED <<queued, listener, refs, worker, acceptor, closers, adding, watch, late>>
  <2>1. sock' = [sock EXCEPT ![u] = k]
    BY DEF Break, k
  <2>2. /\ worker[sock[u].mux].pc = "idle" /\ sock[u].connected
        /\ UNCHANGED <<queued, listener, refs, worker, acceptor, closers, adding, watch, late>>
    BY DEF Break, Idle
  <2>3. ready' = Enabled("OUT", u, Enabled("IN", u, ready)) \/ ready' = ready
    BY DEF Break
  <2> QED  BY <2>1, <2>2, <2>3
<1>2. sock \in [Sockets -> SocketType] /\ sock[u] \in SocketType
  BY DEF UnitedInv, UnitedTypeOK
<1>3. k \in SocketType /\ k.place = sock[u].place /\ k.st = sock[u].st /\ k.mux = sock[u].mux
  BY <1>2 DEF SocketType, k
<1>4. k.parent = sock[u].parent /\ k.aged = sock[u].aged
  BY <1>2 DEF SocketType, k
<1>5. k.connecting = sock[u].connecting /\ k.connected = sock[u].connected
  BY <1>2 DEF SocketType, k
<1>6. k.polled = sock[u].polled
  BY <1>2 DEF SocketType, k
<1>7. ~sock[u].connecting /\ sock[u].st \notin {"INIT", "OPENED", "LISTENING"}
  BY <1>1 DEF UnitedInv, SocketInv
<1>8. SocketInv'
  BY <1>1, <1>2, <1>3, <1>4, <1>5, <1>6, <1>7 DEF UnitedInv, SocketInv
<1> HIDE DEF LifeOK
<1>9. UnitedTypeOK'
  <2>1. ready' \in [{"IN", "OUT"} -> SUBSET Sockets]
    <3>1. ready \in [{"IN", "OUT"} -> SUBSET Sockets]
      BY DEF UnitedInv, UnitedTypeOK
    <3>2. Enabled("IN", u, ready) \in [{"IN", "OUT"} -> SUBSET Sockets]
      BY <3>1, EnabledType
    <3>3. Enabled("OUT", u, Enabled("IN", u, ready)) \in [{"IN", "OUT"} -> SUBSET Sockets]
      BY <3>2, EnabledType
    <3> QED  BY <1>1, <3>1, <3>3
  <2>2. sock' \in [Sockets -> SocketType]
    BY <1>1, <1>2, <1>3
  <2> QED  BY <1>1, <2>1, <2>2 DEF UnitedInv, UnitedTypeOK
<1>10. \A v \in Sockets : /\ sock'[v].place = sock[v].place /\ sock'[v].mux = sock[v].mux
                          /\ sock'[v].st = sock[v].st /\ sock'[v].parent = sock[v].parent
                          /\ sock'[v].aged = sock[v].aged
                          /\ sock'[v].connecting = sock[v].connecting
                          /\ sock'[v].connected = sock[v].connected
  BY <1>1, <1>2, <1>3, <1>4, <1>5
<1>11. \A v \in Sockets : v # u => sock'[v] = sock[v]
  BY <1>1, <1>2
<1>12. QueueInv' /\ ListenerInv' /\ AddingInv'
  BY <1>1, <1>10 DEF UnitedInv, QueueInv, ListenerInv, AddingInv
<1>13. WorkerInv'
  <2>1. \A n \in Sockets : worker[n].pc \in Making => worker[n].new # u
    BY <1>1, <1>7 DEF UnitedInv, WorkerInv
  <2> QED  BY <1>1, <1>10, <1>11, <2>1 DEF UnitedInv, WorkerInv
<1>14. CloserInv'
  <2>1. UNCHANGED <<queued, worker, closers>>
    BY <1>1
  <2> SUFFICES ASSUME NEW v \in Sockets, <<v, "move">> \in closers
               PROVE  /\ sock'[v].place \notin {"none", "born"} /\ sock'[v].st # "LISTENING"
                      /\ ~sock'[v].connecting /\ \A l \in Sockets : v \notin queued[l]
                      /\ \A m \in Sockets : worker[m].pc \in Making => worker[m].new # v
    BY <2>1 DEF CloserInv
  <2>2. /\ sock[v].place \notin {"none", "born"} /\ sock[v].st # "LISTENING"
        /\ ~sock[v].connecting /\ \A l \in Sockets : v \notin queued[l]
        /\ \A m \in Sockets : worker[m].pc \in Making => worker[m].new # v
    BY DEF UnitedInv, CloserInv
  <2> QED  BY <1>10, <2>2
<1>15. AcceptInv'
  <2>1. \A b \in Acceptors : acceptor[b].pc \in Accepting => acceptor[b].who # u
    BY <1>1 DEF UnitedInv, AcceptInv
  <2> QED  BY <1>1, <1>10, <1>11, <2>1 DEF UnitedInv, AcceptInv
<1> QED  BY <1>8, <1>9, <1>12, <1>13, <1>14, <1>15 DEF UnitedInv

\* A socket leaves the worker's list.
LEMMA DropFromListKeeps ==
  ASSUME UnitedInv, NEW u \in Sockets, DropFromList(u)
  PROVE  UnitedInv'
<1>1. UnitedTypeOK'
  BY FieldSet DEF UnitedInv, UnitedTypeOK, DropFromList, Idle
<1>2. SocketInv'
  BY DEF UnitedInv, UnitedTypeOK, SocketInv, DropFromList, Idle
<1>3. QueueInv' /\ ListenerInv' /\ AddingInv'
  BY DEF UnitedInv, UnitedTypeOK, QueueInv, ListenerInv, AddingInv, DropFromList, Idle
<1>4. WorkerInv'
  BY DEF UnitedInv, UnitedTypeOK, WorkerInv, DropFromList, Idle
<1>5. CloserInv' /\ AcceptInv'
  BY DEF UnitedInv, UnitedTypeOK, CloserInv, AcceptInv, DropFromList, Idle
<1> QED  BY <1>1, <1>2, <1>3, <1>4, <1>5 DEF UnitedInv

\* A socket gets older: no call works with it.
LEMMA AgeKeeps ==
  ASSUME UnitedInv, NEW u \in Sockets, Age(u)
  PROVE  UnitedInv'
<1>1. /\ sock' = [sock EXCEPT ![u].aged = TRUE] /\ ~InCall(u)
      /\ UNCHANGED <<queued, listener, refs, worker, acceptor, closers, adding, watch,
                     ready, late>>
  BY DEF Age
<1>2. UnitedTypeOK'
  <2>1. sock' \in [Sockets -> SocketType]
    BY <1>1, FieldSet DEF UnitedInv, UnitedTypeOK
  <2> QED  BY <1>1, <2>1 DEF UnitedInv, UnitedTypeOK
<1>3. SocketInv' /\ QueueInv' /\ ListenerInv' /\ CloserInv'
  BY <1>1 DEF UnitedInv, UnitedTypeOK, SocketInv, QueueInv, ListenerInv, CloserInv
<1>4. AddingInv'
  BY <1>1 DEF UnitedInv, UnitedTypeOK, AddingInv, InCall
<1>5. WorkerInv'
  BY <1>1 DEF UnitedInv, UnitedTypeOK, WorkerInv, InCall
<1>6. AcceptInv'
  BY <1>1 DEF UnitedInv, UnitedTypeOK, AcceptInv, InCall
<1> QED  BY <1>2, <1>3, <1>4, <1>5, <1>6 DEF UnitedInv

\* epoll_add_usock enters the id.
LEMMA AddIdKeeps ==
  ASSUME UnitedInv, AddId
  PROVE  UnitedInv'
<1>1. UnitedTypeOK'
  <2>1. sock' \in [Sockets -> SocketType]
    BY FieldSet DEF UnitedInv, UnitedTypeOK, AddId
  <2>2. adding' \in [pc : {"idle", "id", "state"}, who : Ids]
    BY DEF UnitedInv, UnitedTypeOK, AddId
  <2> QED  BY <2>1, <2>2 DEF UnitedInv, UnitedTypeOK, AddId
<1>2. SocketInv'
  BY DEF UnitedInv, UnitedTypeOK, SocketInv, QueueInv, ListenerInv, WorkerInv, CloserInv,
     AddingInv, AcceptInv, AddId
<1>3. QueueInv' /\ ListenerInv' /\ AddingInv'
  BY DEF UnitedInv, UnitedTypeOK, QueueInv, ListenerInv, AddingInv, AddId
<1>4. WorkerInv'
  BY DEF UnitedInv, UnitedTypeOK, WorkerInv, AddId
<1>5. CloserInv' /\ AcceptInv'
  BY DEF UnitedInv, UnitedTypeOK, CloserInv, AcceptInv, AddId
<1> QED  BY <1>1, <1>2, <1>3, <1>4, <1>5 DEF UnitedInv

\* epoll_add_usock looks at the state.
LEMMA AddStateKeeps ==
  ASSUME UnitedInv, AddState
  PROVE  UnitedInv'
<1>1. adding.who \in Sockets
  BY DEF AddState, UnitedInv, AddingInv
<1>2. /\ ready' \in {Enabled("OUT", adding.who, ready), ready}
      /\ adding' = [pc |-> "idle", who |-> 0]
      /\ UNCHANGED <<sock, queued, listener, refs, worker, acceptor, closers, watch, late>>
  BY DEF AddState, Nobody
<1>3. UnitedTypeOK'
  <2>1. ready' \in [{"IN", "OUT"} -> SUBSET Sockets]
    <3>1. ready \in [{"IN", "OUT"} -> SUBSET Sockets]
      BY DEF UnitedInv, UnitedTypeOK
    <3>2. Enabled("OUT", adding.who, ready) \in [{"IN", "OUT"} -> SUBSET Sockets]
      BY <1>1, <3>1, EnabledType
    <3> QED  BY <1>2, <3>1, <3>2
  <2> QED  BY <1>2, <2>1 DEF UnitedInv, UnitedTypeOK
<1>4. SocketInv' /\ QueueInv' /\ ListenerInv' /\ AddingInv'
  BY <1>2, SameSockets DEF AddingInv
<1>5. WorkerInv' /\ CloserInv'
  BY <1>2 DEF UnitedInv, WorkerInv, CloserInv
<1>6. AcceptInv'
  BY <1>2 DEF UnitedInv, AcceptInv
<1> QED  BY <1>3, <1>4, <1>5, <1>6 DEF UnitedInv

-----------------------------------------------------------------------------
(* The collector.                                                          *)

\* What a sweep may do to a socket k that it does not remove, as n.
Swept(k, n) ==
    /\ n.mux = k.mux /\ n.parent = k.parent /\ n.polled = k.polled
    /\ n.connecting => k.connecting
    /\ n.connected => k.connected
    /\ k.broken => n.broken
    /\ k.closing => n.closing
    /\ n.st = k.st \/ (n.st = "CLOSED" /\ n.broken)
    /\ n = k \/ (n.place = "closed" /\ ~n.aged /\ k.place \in {"table", "closed"})
    /\ k.parent = 0 /\ n.broken => k.broken

\* A socket that is removed keeps its parent only.
LEMMA RemovedIs ==
  ASSUME NEW k \in SocketType
  PROVE  /\ Removed(k) \in SocketType /\ LifeOK(Removed(k))
         /\ Removed(k).place = "deleted" /\ Removed(k).st = "INIT"
         /\ Removed(k).mux = 0 /\ Removed(k).parent = k.parent
         /\ ~Removed(k).polled
<1> DEFINE n == Removed(k)
<1>1. k.parent \in Ids
  BY DEF SocketType
<1>2. n \in SocketType
  BY <1>1 DEF Removed, Unborn, SocketType
<1>3. n.place = "deleted" /\ n.st = "INIT" /\ n.mux = 0 /\ n.parent = k.parent
  BY DEF Removed, Unborn
<1>4. ~n.polled /\ ~n.connected /\ ~n.connecting /\ ~n.broken
  BY DEF Removed, Unborn
<1> HIDE DEF n
<1>5. LifeOK(n)
  BY <1>3, <1>4
<1> QED  BY <1>2, <1>3, <1>4, <1>5 DEF n

\* A socket of a removed listener's queue, as it is closed.
LEMMA OrphanIs ==
  ASSUME NEW k \in SocketType, LifeOK(k), k.place = "table", k.parent # 0,
         NEW n, n = [Closed(k) EXCEPT !.broken = TRUE, !.st = "CLOSED",
                                      !.place = "closed", !.aged = FALSE]
  PROVE  n \in SocketType /\ LifeOK(n) /\ Swept(k, n) /\ n.place = "closed"
<1> DEFINE c == Closed(k)
<1>1. c \in SocketType /\ c.place = k.place /\ c.mux = k.mux
  BY ZenonT(40) DEF Closed, SocketType
<1>2. c.st = k.st /\ c.parent = k.parent
  BY DEF Closed, SocketType
<1>3. c.broken = k.broken /\ c.polled = k.polled
  BY DEF Closed, SocketType
<1>4. (c.connecting => k.connecting) /\ (c.connected => k.connected) /\ (k.closing => c.closing)
  BY DEF Closed, SocketType
<1> HIDE DEF c
<1>5. n = [c EXCEPT !.broken = TRUE, !.st = "CLOSED", !.place = "closed", !.aged = FALSE]
  BY DEF c
<1>6. n \in SocketType
  <2> DEFINE d == [c EXCEPT !.broken = TRUE, !.st = "CLOSED"]
  <2>1. d \in SocketType
    BY <1>1, FieldSet
  <2>2. [d EXCEPT !.place = "closed"] \in SocketType
    <3> HIDE DEF d
    <3> QED  BY <2>1, FieldSet
  <2> DEFINE e == [d EXCEPT !.place = "closed"]
  <2>3. n = [e EXCEPT !.aged = FALSE]
    BY <1>5
  <2>4. [e EXCEPT !.aged = FALSE] \in SocketType
    <3>1. e \in SocketType
      BY <2>2
    <3> HIDE DEF e
    <3> QED  BY <3>1, FieldSet
  <2> QED  BY <2>3, <2>4
<1>7. /\ n.place = "closed" /\ n.st = "CLOSED" /\ n.mux = c.mux /\ n.parent = c.parent
  BY <1>1, <1>5 DEF SocketType
<1>8. n.broken /\ ~n.aged /\ n.polled = c.polled
  BY <1>1, <1>5 DEF SocketType
<1>9. n.connecting = c.connecting /\ n.connected = c.connected /\ n.closing = c.closing
  BY <1>1, <1>5 DEF SocketType
<1> QED  BY <1>1, <1>2, <1>3, <1>4, <1>6, <1>7, <1>8, <1>9 DEF Swept

\* A broken socket, as it is closed.
LEMMA BrokenIs ==
  ASSUME NEW k \in SocketType, LifeOK(k), k.place = "table", k.broken,
         NEW n, n = [k EXCEPT !.st = "CLOSED", !.place = "closed", !.aged = FALSE]
  PROVE  n \in SocketType /\ LifeOK(n) /\ Swept(k, n) /\ n.place = "closed"
<1>5. n \in SocketType
  BY FieldSet
<1>6. /\ n.place = "closed" /\ n.st = "CLOSED" /\ n.mux = k.mux /\ n.parent = k.parent
  BY DEF SocketType
<1>7. n.broken = k.broken /\ ~n.aged /\ n.polled = k.polled
  BY DEF SocketType
<1>8. n.connecting = k.connecting /\ n.connected = k.connected /\ n.closing = k.closing
  BY DEF SocketType
<1> QED  BY <1>5, <1>6, <1>7, <1>8 DEF Swept

\* A socket that stops lingering.
LEMMA LingeredIs ==
  ASSUME NEW k \in SocketType, LifeOK(k), k.place = "closed",
         NEW n, n = [k EXCEPT !.linger = FALSE, !.closing = TRUE, !.aged = FALSE]
  PROVE  n \in SocketType /\ LifeOK(n) /\ Swept(k, n) /\ n.place = "closed"
<1>1. n \in SocketType
  BY FieldSet
<1>2. /\ n.place = "closed" /\ n.st = k.st /\ n.mux = k.mux /\ n.parent = k.parent
  BY DEF SocketType
<1>3. n.broken = k.broken /\ ~n.aged /\ n.polled = k.polled
  BY DEF SocketType
<1>4. n.connecting = k.connecting /\ n.connected = k.connected /\ n.closing
  BY DEF SocketType
<1> QED  BY <1>1, <1>2, <1>3, <1>4 DEF Swept

\* What a sweep does to each socket.
LEMMA SweepEffect ==
  ASSUME UnitedInv, NEW spared, NEW done \in SUBSET LingersNow,
         Sweep(spared, done), NEW u \in Sockets
  PROVE  /\ sock'[u] \in SocketType /\ LifeOK(sock'[u])
         /\ \/ /\ u \in ToBeRemoved(done)
               /\ sock'[u] = Removed(sock[u])
            \/ u \notin ToBeRemoved(done) /\ Swept(sock[u], sock'[u])
         /\ u \in ToBeRemoved(done) => sock[u].place = "closed" /\ sock[u].aged
         /\ sock[u].place = "table" =>
                \/ sock'[u] = sock[u]
                \/ u \in Orphans(ToBeClosed(spared), ToBeRemoved(done))
                \/ u \in ToBeClosed(spared)
<1> DEFINE tbc == ToBeClosed(spared)
           tbr == ToBeRemoved(done)
<1> HIDE DEF Located
<1>1. sock[u] \in SocketType /\ LifeOK(sock[u])
  BY DEF UnitedInv, UnitedTypeOK, SocketInv
<1>2. sock'[u] = Collected(u, tbc, done, tbr)
  BY DEF Sweep
<1>3. u \in tbr => sock[u].place = "closed" /\ sock[u].aged
  BY DEF ToBeRemoved
<1>4. u \in Orphans(tbc, tbr) =>
          sock[u].place = "table" /\ sock[u].parent # 0 /\ u \notin tbc
  <2>1. tbr \subseteq Sockets
    BY DEF ToBeRemoved
  <2> HIDE DEF tbc, tbr
  <2>2. u \in Orphans(tbc, tbr) => u \notin tbc /\ \E l \in Sockets : u \in queued[l]
    BY <2>1 DEF Orphans, QueueLeft
  <2>3. \A l \in Sockets : u \in queued[l] => sock[u].place = "table" /\ sock[u].parent = l
    BY DEF UnitedInv, QueueInv
  <2> QED  BY <2>2, <2>3
<1>5. u \in tbc => sock[u].place = "table" /\ sock[u].broken
  BY DEF ToBeClosed
<1>6. u \in done => sock[u].place = "closed" /\ u \notin tbr
  BY DEF LingersNow, Lingers, ToBeRemoved
<1> HIDE DEF tbc, tbr, LifeOK
<1>7. CASE u \in tbr
  <2>1. sock'[u] = Removed(sock[u])
    BY <1>2, <1>3, <1>4, <1>5, <1>6, <1>7 DEF Collected
  <2> QED  BY <1>1, <1>3, <1>7, <2>1, RemovedIs DEF tbr
<1>8. CASE u \notin tbr /\ u \in Orphans(tbc, tbr)
  <2>1. sock'[u] = [Closed(sock[u]) EXCEPT !.broken = TRUE, !.st = "CLOSED",
                                           !.place = "closed", !.aged = FALSE]
    BY <1>2, <1>3, <1>4, <1>5, <1>6, <1>8 DEF Collected
  <2> QED  BY <1>1, <1>4, <1>8, <2>1, OrphanIs DEF tbr, tbc
<1>9. CASE u \notin tbr /\ u \notin Orphans(tbc, tbr) /\ u \in tbc
  <2>1. sock'[u] = [sock[u] EXCEPT !.st = "CLOSED", !.place = "closed", !.aged = FALSE]
    BY <1>2, <1>3, <1>4, <1>5, <1>6, <1>9 DEF Collected
  <2> QED  BY <1>1, <1>5, <1>9, <2>1, BrokenIs DEF tbr, tbc
<1>10. CASE u \notin tbr /\ u \notin Orphans(tbc, tbr) /\ u \notin tbc /\ u \in done
  <2>1. sock'[u] = [sock[u] EXCEPT !.linger = FALSE, !.closing = TRUE, !.aged = FALSE]
    BY <1>2, <1>3, <1>4, <1>5, <1>6, <1>10 DEF Collected
  <2> QED  BY <1>1, <1>6, <1>10, <2>1, LingeredIs DEF tbr, tbc
<1>11. CASE u \notin tbr /\ u \notin Orphans(tbc, tbr) /\ u \notin tbc /\ u \notin done
  <2>1. sock'[u] = sock[u]
    BY <1>2, <1>11 DEF Collected
  <2> QED  BY <1>1, <1>11, <2>1 DEF tbr, tbc, Swept
<1> QED  BY <1>7, <1>8, <1>9, <1>10, <1>11

\* A sweep removes nothing that somebody works with, and the queues lose what
\* it closes.
LEMMA SweepKeeps ==
  ASSUME UnitedInv, NEW spared, NEW done \in SUBSET LingersNow, Sweep(spared, done)
  PROVE  UnitedInv'
<1> DEFINE tbc == ToBeClosed(spared)
           tbr == ToBeRemoved(done)
           orphans == Orphans(tbc, tbr)
<1>1. /\ queued' = [l \in Sockets |-> IF l \in tbr THEN {} ELSE queued[l] \ tbc]
      /\ listener' = WithoutListeners(tbr)
      /\ DOMAIN sock' = Sockets
      /\ refs' \in [Sockets -> Int]
      /\ watch' = Unwatched(tbr \cup orphans)
      /\ late' = late \ tbr
      /\ UNCHANGED <<worker, acceptor, closers, adding, ready>>
  <2>1. \A m \in Sockets : refs[m] - Cardinality({u \in tbr : sock[u].mux = m}) \in Int
    <3>1. ASSUME NEW m \in Sockets
          PROVE  refs[m] - Cardinality({u \in tbr : sock[u].mux = m}) \in Int
      <4>1. IsFiniteSet({u \in tbr : sock[u].mux = m})
        <5>1. {u \in tbr : sock[u].mux = m} \subseteq Sockets
          BY DEF ToBeRemoved
        <5> QED  BY <5>1, FS_Subset
      <4>2. Cardinality({u \in tbr : sock[u].mux = m}) \in Nat
        BY <4>1, FS_CardinalityType
      <4>3. refs[m] \in Int
        BY DEF UnitedInv, UnitedTypeOK
      <4> QED  BY <4>2, <4>3
    <3> QED  BY <3>1
  <2>2. refs' \in [Sockets -> Int]
    <3>1. refs' = [m \in Sockets |-> refs[m] - Cardinality({u \in tbr : sock[u].mux = m})]
      BY DEF Sweep, GiveUpMux
    <3> HIDE DEF tbr
    <3> QED  BY <2>1, <3>1
  <2>3. DOMAIN sock' = Sockets
    <3>1. sock' = [u \in Sockets |-> Collected(u, tbc, done, tbr)]
      BY DEF Sweep
    <3> QED  BY <3>1
  <2> QED  BY <2>2, <2>3 DEF Sweep, QueueLeft
<1>2. ASSUME NEW u \in Sockets
      PROVE  /\ sock'[u] \in SocketType /\ LifeOK(sock'[u])
             /\ \/ u \in tbr /\ sock'[u].place = "deleted" /\ sock'[u].st = "INIT"
                \/ u \notin tbr /\ Swept(sock[u], sock'[u])
             /\ u \in tbr => sock[u].place = "closed" /\ sock[u].aged
             /\ sock[u].place = "table" =>
                    sock'[u] = sock[u] \/ u \in orphans \/ u \in tbc
  <2>1. sock[u] \in SocketType
    BY DEF UnitedInv, UnitedTypeOK
  <2> HIDE DEF LifeOK, Located
  <2> QED  BY <2>1, SweepEffect, RemovedIs
<1>3. \A v \in orphans : \E l \in tbr : v \in queued[l]
  BY DEF Orphans, QueueLeft
<1>4. \A v \in tbc : sock[v].broken
  BY DEF ToBeClosed
<1>5. \A l \in Sockets : queued'[l] \subseteq queued[l]
  BY <1>1
<1>6. \A u \in Sockets : Kept(u) => u \notin tbr /\ Kept(u)'
  BY <1>2 DEF Swept
<1> HIDE DEF tbc, tbr, orphans, Located
<1>7. UnitedTypeOK'
  <2>1. sock' \in [Sockets -> SocketType]
    <3>1. sock' = [u \in Sockets |-> sock'[u]]
      BY DEF Sweep
    <3> QED  BY <1>2, <3>1
  <2>2. queued' \in [Sockets -> SUBSET Sockets]
    BY <1>1 DEF UnitedInv, UnitedTypeOK
  <2>3. listener' \in [Sockets -> Ids]
    BY <1>1 DEF UnitedInv, UnitedTypeOK, WithoutListeners
  <2>4. watch' \in [{"IN", "OUT"} -> SUBSET Sockets]
    BY <1>1 DEF UnitedInv, UnitedTypeOK, Unwatched
  <2>5. late' \subseteq Sockets
    BY <1>1 DEF UnitedInv, UnitedTypeOK
  <2> QED  BY <1>1, <2>1, <2>2, <2>3, <2>4, <2>5 DEF UnitedInv, UnitedTypeOK
<1>8. SocketInv'
  BY <1>2 DEF SocketInv
<1> HIDE DEF LifeOK
<1>9. QueueInv'
  <2>1. SUFFICES ASSUME NEW l \in Sockets, NEW v \in queued'[l]
                 PROVE  v \in Sockets /\ sock'[v].place = "table" /\ sock'[v].parent = l
    BY DEF QueueInv
  <2>2. l \notin tbr /\ v \in queued[l] /\ v \notin tbc
    BY <1>1
  <2>3. v \in Sockets /\ sock[v].place = "table" /\ sock[v].parent = l
    BY <2>2 DEF UnitedInv, QueueInv
  <2>4. v \notin orphans
    BY <1>3, <2>2, <2>3 DEF UnitedInv, QueueInv, tbr, ToBeRemoved
  <2> QED  BY <1>2, <2>2, <2>3, <2>4
<1>10. ListenerInv'
  <2>1. SUFFICES ASSUME NEW m \in Sockets, listener'[m] # 0
                 PROVE  /\ listener'[m] \in Sockets
                        /\ sock'[listener'[m]].mux = m
                        /\ sock'[listener'[m]].place \in {"table", "closed"}
    BY DEF ListenerInv
  <2>2. listener'[m] = listener[m] /\ listener[m] \notin tbr
    BY <1>1, <2>1 DEF WithoutListeners
  <2>3. /\ listener[m] \in Sockets /\ sock[listener[m]].mux = m
        /\ sock[listener[m]].place \in {"table", "closed"}
    BY <2>1, <2>2 DEF UnitedInv, ListenerInv
  <2> DEFINE u == listener[m]
  <2>4. u \in Sockets /\ u \notin tbr
    BY <2>2, <2>3
  <2> HIDE DEF u
  <2>5. Swept(sock[u], sock'[u])
    BY <1>2, <2>4
  <2>6. sock[u].place \in {"table", "closed"} => /\ sock'[u].mux = sock[u].mux
                                               /\ sock'[u].place \in {"table", "closed"}
    BY <2>5 DEF Swept
  <2> QED  BY <2>2, <2>3, <2>4, <2>6 DEF u
<1>11. WorkerInv'
  <2> SUFFICES ASSUME NEW m \in Sockets
               PROVE  LET w == worker[m]  k == sock'[w.new] IN
        /\ w.pc # "idle" =>
               /\ w.who \in Sockets
               /\ sock'[w.who].place # "deleted" => sock'[w.who].mux = m
        /\ w.pc \notin {"idle", "listen"} => Kept(w.who)'
        /\ w.pc \in Making =>
               /\ w.new \in Sockets
               /\ k.parent = w.who /\ ~k.broken
               /\ \A l \in Sockets : w.new \notin queued'[l]
               /\ IF w.pc = "make" THEN k.place = "born" /\ k.mux = 0 /\ k.st = "INIT"
                  ELSE /\ k.place = IF w.pc = "table" THEN "born" ELSE "table"
                       /\ k.mux = m /\ k.st = "CONNECTED"
        /\ w.pc \in Answering =>
               sock'[w.who].st \in {"CONNECTING", "CONNECTED", "CLOSED"}
        /\ w.pc \in {"complete", "report"} => ~sock'[w.who].connecting
    BY <1>1 DEF WorkerInv
  <2> DEFINE w == worker[m]
  <2>1. w.pc # "idle" => /\ w.who \in Sockets
                         /\ sock[w.who].place # "deleted" => sock[w.who].mux = m
    BY DEF UnitedInv, WorkerInv
  <2>2. w.pc # "idle" /\ sock'[w.who].place # "deleted" => sock'[w.who].mux = m
    BY <1>2, <2>1 DEF Swept
  <2>3. w.pc \notin {"idle", "listen"} => Kept(w.who)
    BY DEF UnitedInv, WorkerInv
  <2>4. ASSUME w.pc \in Making
        PROVE  /\ w.new \in Sockets /\ sock'[w.new] = sock[w.new]
               /\ \A l \in Sockets : w.new \notin queued'[l]
    <3>1. /\ w.new \in Sockets /\ ~sock[w.new].broken
          /\ sock[w.new].place \in {"born", "table"}
          /\ \A l \in Sockets : w.new \notin queued[l]
      BY <2>4 DEF UnitedInv, WorkerInv
    <3>2. w.new \notin orphans /\ w.new \notin tbc
      BY <1>3, <1>4, <3>1 DEF tbr, ToBeRemoved
    <3> QED  BY <1>2, <1>5, <3>1, <3>2 DEF Swept
  <2>5. w.pc \in Making =>
               /\ sock[w.new].parent = w.who /\ ~sock[w.new].broken
               /\ IF w.pc = "make"
                  THEN sock[w.new].place = "born" /\ sock[w.new].mux = 0 /\ sock[w.new].st = "INIT"
                  ELSE /\ sock[w.new].place = IF w.pc = "table" THEN "born" ELSE "table"
                       /\ sock[w.new].mux = m /\ sock[w.new].st = "CONNECTED"
    BY DEF UnitedInv, WorkerInv
  <2>6. w.pc \in Answering => /\ w.who \in Sockets /\ Kept(w.who)
                              /\ sock[w.who].st \in {"CONNECTING", "CONNECTED", "CLOSED"}
    BY DEF UnitedInv, WorkerInv
  <2>7. w.pc \in Answering => sock'[w.who].st \in {"CONNECTING", "CONNECTED", "CLOSED"}
    BY <1>2, <1>6, <2>6 DEF Swept
  <2>8. w.pc \in {"complete", "report"} => ~sock[w.who].connecting
    BY DEF UnitedInv, WorkerInv
  <2>9. w.pc \in {"complete", "report"} => ~sock'[w.who].connecting
    BY <1>2, <1>6, <2>6, <2>8 DEF Swept
  <2>10. w.pc \notin {"idle", "listen"} => Kept(w.who)'
    BY <1>1, <1>6, <2>1, <2>3
  <2> QED  BY <2>1, <2>2, <2>4, <2>5, <2>7, <2>9, <2>10
<1>12. CloserInv'
  <2>1. SUFFICES ASSUME NEW u \in Sockets, <<u, "move">> \in closers
                 PROVE  /\ sock'[u].place \notin {"none", "born"}
                        /\ sock'[u].st # "LISTENING"
                        /\ ~sock'[u].connecting
                        /\ \A l \in Sockets : u \notin queued'[l]
                        /\ \A m \in Sockets : worker[m].pc \in Making => worker[m].new # u
    BY <1>1 DEF CloserInv
  <2>2. /\ sock[u].place \notin {"none", "born"}
        /\ sock[u].st # "LISTENING"
        /\ ~sock[u].connecting
        /\ \A l \in Sockets : u \notin queued[l]
        /\ \A m \in Sockets : worker[m].pc \in Making => worker[m].new # u
    BY <2>1 DEF UnitedInv, CloserInv
  <2>3. sock'[u].place \notin {"none", "born"} /\ sock'[u].st # "LISTENING"
    BY <1>2, <2>2 DEF Swept
  <2>4. ~sock'[u].connecting
    BY <1>2, <2>2 DEF Swept, LifeOK
  <2> QED  BY <1>5, <2>2, <2>3, <2>4
<1>13. AddingInv'
  BY <1>1, <1>6 DEF UnitedInv, AddingInv
<1>14. AcceptInv'
  <2>1. SUFFICES ASSUME NEW a \in Acceptors, acceptor[a].pc \in Accepting
                 PROVE  LET u == acceptor[a].who IN
            /\ u \in Sockets /\ Kept(u)'
            /\ sock'[u].parent = 0 /\ ~sock'[u].connected /\ ~sock'[u].connecting
            /\ sock'[u].st = "LISTENING" \/ (sock'[u].st = "CLOSED" /\ sock'[u].broken)
            /\ <<u, "move">> \notin closers
            /\ \A m \in Sockets : worker[m].pc \in Answering => worker[m].who # u
            /\ acceptor[a].pc = "wait" /\ sock'[u].broken => <<u, "broadcast">> \in closers
    BY <1>1 DEF AcceptInv
  <2> DEFINE u == acceptor[a].who
  <2>2. /\ u \in Sockets /\ Kept(u)
        /\ sock[u].parent = 0 /\ ~sock[u].connected /\ ~sock[u].connecting
        /\ sock[u].st = "LISTENING" \/ (sock[u].st = "CLOSED" /\ sock[u].broken)
        /\ <<u, "move">> \notin closers
        /\ \A m \in Sockets : worker[m].pc \in Answering => worker[m].who # u
        /\ acceptor[a].pc = "wait" /\ sock[u].broken => <<u, "broadcast">> \in closers
    BY <2>1 DEF UnitedInv, AcceptInv
  <2>3. u \notin tbr /\ Kept(u)' /\ Swept(sock[u], sock'[u])
    BY <1>1, <1>2, <1>6, <2>2
  <2>4. sock'[u].st = "LISTENING" \/ (sock'[u].st = "CLOSED" /\ sock'[u].broken)
    BY <2>2, <2>3 DEF Swept
  <2>5. sock'[u].broken => sock[u].broken
    BY <2>2, <2>3 DEF Swept
  <2> QED  BY <2>2, <2>3, <2>4, <2>5 DEF Swept
<1> QED  BY <1>7, <1>8, <1>9, <1>10, <1>11, <1>12, <1>13, <1>14 DEF UnitedInv

\* Whatever step is taken.
LEMMA UnitedStep ==
  ASSUME UnitedInv, [Next]_vars
  PROVE  UnitedInv'
<1>1. CASE UNCHANGED vars
  BY <1>1, Unchanged DEF vars
<1>2. ASSUME NEW u \in Sockets,
             \/ NewSocket(u) \/ Bind(u) \/ Listen(u) \/ Connect(u)
             \/ AddWatch(u) \/ RemoveUsock(u)
             \/ CloseListener(u) \/ CloseSocket(u) \/ CloseLingering(u)
             \/ \E a \in Acceptors : AcceptCall(a, u)
      PROVE  UnitedInv'
  BY <1>2, NewSocketKeeps, BindKeeps, ListenKeeps, ConnectKeeps, AddWatchKeeps,
     RemoveUsockKeeps, CloseListenerKeeps, CloseSocketKeeps, CloseLingeringKeeps,
     AcceptCallKeeps
<1>3. ASSUME NEW a \in Acceptors, AcceptStep(a)
      PROVE  UnitedInv'
  BY <1>3, AcceptClosedKeeps, AcceptTakeKeeps, AcceptEmptyKeeps, AcceptWaitKeeps,
     AcceptWokenKeeps, AcceptReturnKeeps DEF AcceptStep
<1>4. ASSUME NEW m \in Sockets, WorkerStep(m)
      PROVE  UnitedInv'
  BY <1>4, FreedKeeps, RefuseKeeps, MakeKeeps, MakeConnectedKeeps, MakeFailsKeeps, EnterTableKeeps,
     EnterQueueKeeps, TellPollersKeeps, SignalAcceptKeeps, EstablishKeeps, CompleteKeeps,
     ReportKeeps DEF WorkerStep
<1>5. CASE Arrivals
  BY <1>5, RequestKeeps, ReplaceKeeps, AnsweredKeeps, BreakKeeps DEF Arrivals
<1>6. ASSUME NEW u \in Sockets, CloseStep(u) \/ DropFromList(u) \/ Age(u)
      PROVE  UnitedInv'
  BY <1>6, CloseBroadcastKeeps, CloseMoveKeeps, DropFromListKeeps, AgeKeeps DEF CloseStep
<1>7. CASE Collect
  BY <1>7, SweepKeeps DEF Collect
<1>8. CASE AddId \/ AddState
  BY <1>8, AddIdKeeps, AddStateKeeps
<1> QED  BY <1>1, <1>2, <1>3, <1>4, <1>5, <1>6, <1>7, <1>8 DEF Next, Application

\* In the beginning there is nothing.
LEMMA UnitedInit ==
  ASSUME Init
  PROVE  UnitedInv
<1>1. Unborn \in SocketType /\ LifeOK(Unborn) /\ Unborn.place = "none"
  BY DEF Unborn, SocketType
<1> HIDE DEF LifeOK
<1>2. sock = [u \in Sockets |-> Unborn]
  BY DEF Init
<1>3. UnitedTypeOK
  <2>1. sock \in [Sockets -> SocketType]
    BY <1>1, <1>2
  <2>2. worker \in [Sockets -> [pc : WorkerPCs, who : Ids, new : Ids]]
    BY DEF Init, Idle
  <2>3. acceptor \in AcceptorType
    BY DEF Init, Nobody
  <2> QED  BY <2>1, <2>2, <2>3 DEF Init, Nobody, UnitedTypeOK
<1>4. SocketInv
  BY <1>1, <1>2 DEF SocketInv
<1> QED
  BY <1>3, <1>4 DEF Init, Idle, Nobody, UnitedInv, QueueInv, ListenerInv, WorkerInv,
     CloserInv,
     AddingInv, AcceptInv

\* The invariant holds in every behaviour: in particular the collector deletes
\* nothing that an accept(), a close(), an epoll_add_usock or the worker works
\* with, once they have located it.
THEOREM UnitedInvariance == Spec => []UnitedInv
  BY UnitedInit, UnitedStep, PTL DEF Spec

-----------------------------------------------------------------------------
(* The threads in accept(), and who wakes them.                            *)

\* The threads in accept() that will look at u's queue without being woken,
\* and whether the worker has yet to wake one.
Awake(u) == {b \in Acceptors : acceptor[b].who = u /\ acceptor[b].pc \in {"try", "woken"}}
Announced(u) == \E m \in Sockets : worker[m].who = u /\ worker[m].pc \in Announcing

\* Each socket in the queue has a thread that comes for it.
Covered(u) ==
    Cardinality(queued[u]) <= Cardinality(Awake(u)) + (IF Announced(u) THEN 1 ELSE 0)

\* So it is while somebody waits: only so is it enough that the worker wakes one
\* thread for each socket, and wakes nobody when it finds no one waiting.
WakeInv == \A u \in Sockets : Waiting(u) # {} /\ ~sock[u].broken => Covered(u)

-----------------------------------------------------------------------------
(* What United promises.                                                   *)

\* What a step leaves of a socket k that it makes neither known to a poller
\* nor connected, as n.
Calm(k, n) ==
    /\ n.place # "deleted" \/ n.polled => (k.broken => n.broken) /\ (k.closing => n.closing)
    /\ n.polled => k.polled
    /\ n.polled /\ n.connected => k.connected
    /\ n.polled /\ n.place = "table" /\ n.st # "CLOSED" => k.place = "table" /\ k.st # "CLOSED"

\* All steps but those of AddId and Establish are calm.
LEMMA CalmStep ==
  ASSUME UnitedInv, Next, NEW w \in Sockets
  PROVE  Calm(sock[w], sock'[w]) \/ AddId \/ \E m \in Sockets : Establish(m)
<1> USE DEF UnitedInv, UnitedTypeOK, SocketType, SocketInv, Calm
<1>1. ASSUME NEW u \in Sockets, NewSocket(u)
      PROVE  Calm(sock[w], sock'[w])
  BY <1>1 DEF NewSocket, NextIds
<1>2. ASSUME NEW u \in Sockets, Bind(u)
      PROVE  Calm(sock[w], sock'[w])
  <2>1. PICK n \in Sockets : UseMux(u, n)
    BY <1>2 DEF Bind
  <2>2. /\ sock' = [sock EXCEPT ![u].mux = n, ![u].st = "OPENED"]
        /\ sock[u].place = "table" /\ sock[u].st = "INIT"
    BY <1>2, <2>1 DEF Bind, UseMux
  <2>3. sock'[w].broken = sock[w].broken /\ sock'[w].closing = sock[w].closing
    BY <2>2
  <2>4. sock'[w].polled = sock[w].polled /\ sock'[w].connected = sock[w].connected
    BY <2>2
  <2>5. /\ sock'[w].place = sock[w].place
        /\ sock'[w].st = sock[w].st \/ (sock[w].place = "table" /\ sock[w].st = "INIT")
    BY <2>2
  <2> HIDE DEF UnitedInv
  <2> QED  BY <2>3, <2>4, <2>5
<1>3. ASSUME NEW u \in Sockets, Listen(u)
      PROVE  Calm(sock[w], sock'[w])
  BY <1>3 DEF Listen
<1>4. ASSUME NEW u \in Sockets, Connect(u)
      PROVE  Calm(sock[w], sock'[w])
  BY <1>4 DEF Connect
<1>5. ASSUME NEW u \in Sockets, RemoveUsock(u)
      PROVE  Calm(sock[w], sock'[w])
  BY <1>5 DEF RemoveUsock
<1>6. ASSUME NEW u \in Sockets, CloseListener(u)
      PROVE  Calm(sock[w], sock'[w])
  BY <1>6 DEF CloseListener
<1>7. ASSUME NEW u \in Sockets, CloseSocket(u)
      PROVE  Calm(sock[w], sock'[w])
  BY <1>7 DEF CloseSocket, Closed
<1>8. ASSUME NEW u \in Sockets, CloseLingering(u)
      PROVE  Calm(sock[w], sock'[w])
  BY <1>8 DEF CloseLingering
<1>9. ASSUME NEW u \in Sockets, CloseMove(u)
      PROVE  Calm(sock[w], sock'[w])
  BY <1>9 DEF CloseMove
<1>10. ASSUME NEW m \in Sockets, NEW v \in Sockets, Replace(m, v)
       PROVE  Calm(sock[w], sock'[w])
  BY <1>10 DEF Replace
<1>11. ASSUME NEW m \in Sockets, Make(m)
       PROVE  Calm(sock[w], sock'[w])
  BY <1>11 DEF Make, NextIds
<1>12. ASSUME NEW m \in Sockets, MakeConnected(m)
       PROVE  Calm(sock[w], sock'[w])
  BY <1>12 DEF MakeConnected, WorkerInv
<1>23. ASSUME NEW m \in Sockets, MakeFails(m)
       PROVE  Calm(sock[w], sock'[w])
  <2>1. PICK v \in Sockets, k \in SocketType :
          /\ sock' = [sock EXCEPT ![v] = k] /\ k.place = "born" /\ ~k.polled
          /\ k.broken = sock[v].broken /\ (sock[v].closing => k.closing)
    BY <1>23, MakeFailsIs
  <2> QED  BY <2>1
<1>13. ASSUME NEW m \in Sockets, EnterTable(m)
       PROVE  Calm(sock[w], sock'[w])
  BY <1>13 DEF EnterTable, WorkerInv
<1>14. ASSUME NEW m \in Sockets, Complete(m)
       PROVE  Calm(sock[w], sock'[w])
  <2>1. PICK v \in Sockets : v = worker[m].who
    BY <1>14 DEF Complete, WorkerInv
  <2>2. CASE Located(v)
    <3>1. sock' = [sock EXCEPT ![v].st = "CONNECTED"]
      BY <1>14, <2>1, <2>2 DEF Complete
    <3> QED  BY <2>2, <3>1
  <2>3. CASE ~Located(v)
    <3>1. sock' = sock
      BY <1>14, <2>1, <2>3 DEF Complete
    <3> QED  BY <3>1
  <2> QED  BY <2>2, <2>3
<1>15. ASSUME NEW u \in Sockets, Break(u)
       PROVE  Calm(sock[w], sock'[w])
  BY <1>15 DEF Break
<1>16. ASSUME NEW u \in Sockets, DropFromList(u) \/ Age(u)
       PROVE  Calm(sock[w], sock'[w])
  <2>1. CASE DropFromList(u)
    BY <2>1 DEF DropFromList
  <2>2. CASE Age(u)
    BY <2>2 DEF Age
  <2> QED  BY <1>16, <2>1, <2>2
<1>17. ASSUME NEW spared, NEW done \in SUBSET LingersNow, Sweep(spared, done)
       PROVE  Calm(sock[w], sock'[w])
  <2>1. sock[w] \in SocketType
    OBVIOUS
  <2>2. sock'[w] = Removed(sock[w]) \/ Swept(sock[w], sock'[w])
    BY <1>17, SweepEffect
  <2>3. sock'[w] = Removed(sock[w]) => sock'[w].place = "deleted" /\ ~sock'[w].polled
    BY <2>1, RemovedIs
  <2> QED  BY <2>2, <2>3 DEF Swept
<1>18. ASSUME UNCHANGED sock
       PROVE  Calm(sock[w], sock'[w])
  BY <1>18
<1>19. ASSUME NEW u \in Sockets,
              \/ AddWatch(u) \/ Answered(u) \/ CloseBroadcast(u)
              \/ \E a \in Acceptors : AcceptCall(a, u)
       PROVE  UNCHANGED sock
  BY <1>19 DEF AddWatch, Answered, CloseBroadcast, AcceptCall
<1>20. ASSUME NEW a \in Acceptors, AcceptStep(a)
       PROVE  UNCHANGED sock
  BY <1>20 DEF AcceptStep, AcceptClosed, AcceptTake, AcceptEmpty, AcceptWait, AcceptWoken,
         AcceptReturn
<1>21. ASSUME NEW m \in Sockets,
              \/ Freed(m) \/ Refuse(m) \/ EnterQueue(m) \/ TellPollers(m) \/ SignalAccept(m)
              \/ Report(m) \/ Request(m)
       PROVE  UNCHANGED sock
  BY <1>21 DEF Freed, Refuse, EnterQueue, TellPollers, SignalAccept, Report, Request
<1>22. AddState => UNCHANGED sock
  BY DEF AddState
<1> HIDE DEF UnitedInv, UnitedTypeOK, SocketType, SocketInv, Calm
<1> QED
  BY <1>1, <1>2, <1>3, <1>4, <1>5, <1>6, <1>7, <1>8, <1>9, <1>10, <1>11, <1>12, <1>13,
     <1>14,
     <1>15, <1>16, <1>17, <1>18, <1>19, <1>20, <1>21, <1>22, <1>23
  DEF Next, Application, Arrivals, WorkerStep, CloseStep, Collect

\* Every step keeps the count of those who come for a socket.
LEMMA WakeKeeps ==
  ASSUME UnitedInv, UnitedInv', WakeInv, Next
  PROVE  WakeInv'
<1> SUFFICES ASSUME NEW u \in Sockets, Waiting(u)' # {}, ~sock'[u].broken
             PROVE  Covered(u)'
  BY DEF WakeInv
<1> USE DEF Covered
<1>1. ~sock[u].broken
  <2>1. sock'[u].place # "deleted"
    <3>1. PICK a \in Acceptors : acceptor'[a] = [pc |-> "wait", who |-> u]
      BY DEF Waiting
    <3>2. AcceptInv'
      BY DEF UnitedInv
    <3>3. acceptor'[a].pc = "wait" /\ acceptor'[a].who = u
      BY <3>1
    <3>4. Kept(u)'
      BY <3>2, <3>3 DEF AcceptInv
    <3> QED  BY <3>4
  <2>2. CASE Calm(sock[u], sock'[u])
    BY <2>1, <2>2 DEF Calm
  <2>3. CASE AddId
    BY <2>3 DEF AddId, UnitedInv, UnitedTypeOK, AddingInv
  <2>4. ASSUME NEW m \in Sockets, Establish(m)
        PROVE  ~sock[u].broken
    <3>1. PICK v \in Sockets : v = worker[m].who
      BY <2>4 DEF Establish, UnitedInv, WorkerInv
    <3> QED  BY <2>4, <3>1 DEF Establish, UnitedInv, UnitedTypeOK, SocketType
  <2> QED  BY <2>2, <2>3, <2>4, CalmStep
<1>2. /\ IsFiniteSet(queued[u]) /\ IsFiniteSet(Awake(u)) /\ IsFiniteSet(Awake(u)')
      /\ Cardinality(queued[u]) \in Nat /\ Cardinality(queued'[u]) \in Nat
      /\ Cardinality(Awake(u)) \in Nat /\ Cardinality(Awake(u)') \in Nat
  <2>1. queued[u] \subseteq Sockets /\ queued'[u] \subseteq Sockets
    BY DEF UnitedInv, UnitedTypeOK
  <2>2. Awake(u) \subseteq Acceptors /\ Awake(u)' \subseteq Acceptors
    BY DEF Awake
  <2> QED  BY <2>1, <2>2, FS_Subset, FS_CardinalityType
<1>3. Waiting(u) # {} => Covered(u)
  BY <1>1 DEF WakeInv
<1>4. ASSUME Waiting(u) # {}, queued'[u] \subseteq queued[u], Awake(u) \subseteq Awake(u)',
             Announced(u) => Announced(u)'
      PROVE  Covered(u)'
  <2>1. Cardinality(queued'[u]) <= Cardinality(queued[u])
    BY <1>2, <1>4, FS_Subset
  <2>2. Cardinality(Awake(u)) <= Cardinality(Awake(u)')
    BY <1>2, <1>4, FS_Subset
  <2> QED  BY <1>2, <1>3, <1>4, <2>1, <2>2
<1>5. ASSUME queued'[u] = {}
      PROVE  Covered(u)'
  BY <1>2, <1>5, FS_EmptySet
<1>6. ASSUME UNCHANGED acceptor, queued'[u] \subseteq queued[u],
             Announced(u) => Announced(u)'
      PROVE  Covered(u)'
  <2>1. Waiting(u)' = Waiting(u) /\ Awake(u)' = Awake(u)
    BY <1>6 DEF Waiting, Awake
  <2> QED  BY <1>4, <1>6, <2>1
<1>7. ASSUME NEW a \in Acceptors, AcceptTake(a)
      PROVE  Covered(u)'
  <2>1. PICK l \in Sockets : l = acceptor[a].who
    BY <1>7 DEF AcceptTake, UnitedInv, AcceptInv
  <2>2. PICK v \in queued[l] :
             /\ queued' = [queued EXCEPT ![l] = @ \ {v}]
             /\ acceptor' = [acceptor EXCEPT ![a] = [pc |-> "peer", who |-> v]]
             /\ UNCHANGED worker /\ acceptor[a].pc = "try"
    BY <1>7, <2>1 DEF AcceptTake
  <2>3. Waiting(u)' = Waiting(u) /\ Awake(u)' = Awake(u) \ {a}
    BY <2>2 DEF UnitedInv, UnitedTypeOK, Waiting, Awake
  <2>4. Announced(u)' <=> Announced(u)
    BY <2>2 DEF Announced
  <2>5. CASE l = u
    <3>1. a \in Awake(u) /\ v \in queued[u] /\ queued'[u] = queued[u] \ {v}
      BY ZenonT(40), <2>1, <2>2, <2>5 DEF Awake, UnitedInv, UnitedTypeOK
    <3>2. Cardinality(queued'[u]) = Cardinality(queued[u]) - 1
      <4>1. IsFiniteSet(queued[u]) /\ v \in queued[u] /\ queued'[u] = queued[u] \ {v}
        BY <1>2, <3>1
      <4>2. Cardinality(queued[u] \ {v}) = Cardinality(queued[u]) - 1
        BY <4>1, FS_RemoveElement
      <4> QED  BY <4>1, <4>2
    <3>3. Cardinality(Awake(u)') = Cardinality(Awake(u)) - 1
      BY <1>2, <2>3, <3>1, FS_RemoveElement
    <3> QED  BY <1>2, <1>3, <2>3, <2>4, <3>2, <3>3
  <2>6. CASE l # u
    <3>1. a \notin Awake(u)
      BY <2>1, <2>6 DEF Awake
    <3>2. queued'[u] = queued[u]
      BY <2>2, <2>6 DEF UnitedInv, UnitedTypeOK
    <3> QED  BY <1>4, <2>3, <2>4, <3>1, <3>2
  <2> QED  BY <2>5, <2>6
<1>8. ASSUME NEW a \in Acceptors,
             AcceptClosed(a) \/ AcceptEmpty(a) \/ AcceptWait(a)
      PROVE  Covered(u)'
  <2>1. /\ UNCHANGED <<queued, worker>>
        /\ acceptor[a].pc = "try"
        /\ \E k : /\ acceptor' = [acceptor EXCEPT ![a] = k]
                  /\ acceptor[a].who # u => k.who # u \/ k.pc \notin {"try", "woken", "wait"}
        /\ \/ sock[acceptor[a].who].st # "LISTENING" \/ sock[acceptor[a].who].broken
           \/ queued[acceptor[a].who] = {}
    BY <1>8 DEF AcceptClosed, AcceptEmpty, AcceptWait, Nobody, UnitedInv, UnitedTypeOK
  <2>2. CASE acceptor[a].who = u
    <3>1. queued'[u] = {}
      BY <1>1, <2>1, <2>2 DEF UnitedInv, AcceptInv
    <3> QED  BY <1>5, <3>1
  <2>3. CASE acceptor[a].who # u
    <3>1. Waiting(u)' = Waiting(u) /\ Awake(u)' = Awake(u)
      BY <2>1, <2>3 DEF UnitedInv, UnitedTypeOK, Waiting, Awake
    <3>2. Announced(u)' <=> Announced(u)
      BY <2>1 DEF Announced
    <3> QED  BY <1>4, <2>1, <3>1, <3>2
  <2> QED  BY <2>2, <2>3
<1>9. ASSUME NEW a \in Acceptors,
             AcceptWoken(a) \/ AcceptReturn(a) \/ \E l \in Sockets : AcceptCall(a, l)
      PROVE  Covered(u)'
  <2>1. UNCHANGED <<queued, worker>>
    BY <1>9 DEF AcceptWoken, AcceptReturn, AcceptCall
  <2>2. Waiting(u)' = Waiting(u) /\ Awake(u) \subseteq Awake(u)'
    <3>1. CASE AcceptWoken(a)
      BY <3>1 DEF AcceptWoken, UnitedInv, UnitedTypeOK, Waiting, Awake
    <3>2. CASE AcceptReturn(a)
      BY <3>2 DEF AcceptReturn, Nobody, UnitedInv, UnitedTypeOK, Waiting, Awake
    <3>3. ASSUME NEW l \in Sockets, AcceptCall(a, l)
          PROVE  Waiting(u)' = Waiting(u) /\ Awake(u) \subseteq Awake(u)'
      BY <3>3 DEF AcceptCall, Nobody, UnitedInv, UnitedTypeOK, Waiting, Awake
    <3> QED  BY <1>9, <3>1, <3>2, <3>3
  <2>3. Announced(u)' <=> Announced(u)
    BY <2>1 DEF Announced
  <2> QED  BY <1>4, <2>1, <2>2, <2>3
<1>10. ASSUME NEW l \in Sockets, CloseBroadcast(l)
       PROVE  Covered(u)'
  <2>1. /\ UNCHANGED <<queued, worker>>
        /\ acceptor' = [a \in Acceptors |->
               IF acceptor[a] = [pc |-> "wait", who |-> l]
               THEN [pc |-> "woken", who |-> l] ELSE acceptor[a]]
    BY <1>10 DEF CloseBroadcast
  <2>2. Waiting(u)' \subseteq Waiting(u) /\ Awake(u) \subseteq Awake(u)'
    BY <2>1 DEF UnitedInv, UnitedTypeOK, Waiting, Awake
  <2>3. Announced(u)' <=> Announced(u)
    BY <2>1 DEF Announced
  <2> QED  BY <1>4, <2>1, <2>2, <2>3
<1>11. ASSUME NEW m \in Sockets, EnterQueue(m)
       PROVE  Covered(u)'
  <2>1. PICK l \in Sockets : l = worker[m].who
    BY <1>11 DEF EnterQueue, UnitedInv, WorkerInv
  <2>2. /\ queued' = [queued EXCEPT ![l] = @ \cup {worker[m].new}]
        /\ worker' = [worker EXCEPT ![m].pc = "events"]
        /\ worker[m].pc = "queue" /\ UNCHANGED acceptor
    BY <1>11, <2>1 DEF EnterQueue
  <2>3. Waiting(u)' = Waiting(u) /\ Awake(u)' = Awake(u)
    BY <2>2 DEF Waiting, Awake
  <2>4. CASE l = u
    <3>1. sock[u].mux = m
      <4>1. worker[m].who = u /\ worker[m].pc = "queue"
        BY <2>1, <2>2, <2>4
      <4>2. Kept(u) /\ (sock[u].place # "deleted" => sock[u].mux = m)
        BY <4>1 DEF UnitedInv, WorkerInv
      <4> QED  BY <4>2
    <3>2. ~Announced(u)
      <4>1. ASSUME NEW n \in Sockets, worker[n].who = u, worker[n].pc \in Announcing
            PROVE  FALSE
        <5>1. n = m
          BY <3>1, <4>1 DEF UnitedInv, WorkerInv
        <5> QED  BY <2>2, <4>1, <5>1
      <4> QED  BY <4>1 DEF Announced
    <3>3. Announced(u)'
      <4>1. worker'[m].who = u /\ worker'[m].pc = "events"
        <5>1. /\ worker \in [Sockets -> [pc : WorkerPCs, who : Ids, new : Ids]]
              /\ worker' = [worker EXCEPT ![m].pc = "events"] /\ worker[m].who = u
          BY <2>1, <2>2, <2>4 DEF UnitedInv, UnitedTypeOK
        <5> QED  BY <5>1
      <4> QED  BY <4>1 DEF Announced
    <3>4. queued'[u] = queued[u] \cup {worker[m].new}
      BY <2>2, <2>4 DEF UnitedInv, UnitedTypeOK
    <3>5. Cardinality(queued'[u]) <= Cardinality(queued[u]) + 1
      <4>1. Cardinality(queued[u] \cup {worker[m].new}) \in
                {Cardinality(queued[u]), Cardinality(queued[u]) + 1}
        BY <1>2, FS_AddElement
      <4> QED  BY <1>2, <3>4, <4>1
    <3> QED  BY <1>2, <1>3, <2>3, <3>2, <3>3, <3>5
  <2>5. CASE l # u
    <3>1. queued'[u] = queued[u]
      BY <2>2, <2>5 DEF UnitedInv, UnitedTypeOK
    <3>2. Announced(u) => Announced(u)'
      BY <2>2 DEF Announced, UnitedInv, UnitedTypeOK
    <3> QED  BY <1>4, <2>3, <3>1, <3>2
  <2> QED  BY <2>4, <2>5
<1>12. ASSUME NEW m \in Sockets, SignalAccept(m)
       PROVE  Covered(u)'
  <2>1. PICK l \in Sockets : l = worker[m].who
    BY <1>12 DEF SignalAccept, UnitedInv, WorkerInv
  <2>2. /\ UNCHANGED queued /\ worker' = [worker EXCEPT ![m] = Idle]
        /\ IF Waiting(l) # {}
           THEN \E a \in Waiting(l) : acceptor' = [acceptor EXCEPT ![a].pc = "woken"]
           ELSE UNCHANGED acceptor
    BY <1>12, <2>1 DEF SignalAccept, MustWake
  <2>3. CASE l = u /\ Waiting(u) # {}
    <3>1. PICK a \in Waiting(u) : acceptor' = [acceptor EXCEPT ![a].pc = "woken"]
      BY <2>2, <2>3
    <3>2. a \in Acceptors /\ acceptor[a] = [pc |-> "wait", who |-> u]
      BY <3>1 DEF Waiting
    <3>3. a \notin Awake(u) /\ Awake(u)' = Awake(u) \cup {a}
      BY <3>1, <3>2 DEF Awake, UnitedInv, UnitedTypeOK
    <3>4. Cardinality(Awake(u)') = Cardinality(Awake(u)) + 1
      BY <1>2, <3>3, FS_AddElement
    <3> QED  BY <1>2, <1>3, <2>2, <2>3, <3>4
  <2>4. CASE l = u /\ Waiting(u) = {}
    <3>1. Waiting(u)' = {}
      BY <2>2, <2>4 DEF Waiting
    <3> QED  BY <3>1
  <2>5. CASE l # u
    <3>1. Announced(u) => Announced(u)'
      BY <2>1, <2>2, <2>5 DEF Announced, UnitedInv, UnitedTypeOK
    <3>2. Waiting(u)' = Waiting(u) /\ Awake(u)' = Awake(u)
      <4>1. CASE UNCHANGED acceptor
        BY <4>1 DEF Waiting, Awake
      <4>2. ASSUME NEW a \in Waiting(l), acceptor' = [acceptor EXCEPT ![a].pc = "woken"]
            PROVE  Waiting(u)' = Waiting(u) /\ Awake(u)' = Awake(u)
        <5>1. a \in Acceptors /\ acceptor[a].who = l
          BY <4>2 DEF Waiting
        <5>2. \A b \in Acceptors : IF b = a THEN acceptor'[b].who = l
                                   ELSE acceptor'[b] = acceptor[b]
          BY <4>2, <5>1 DEF UnitedInv, UnitedTypeOK
        <5> QED  BY <2>5, <5>1, <5>2 DEF Waiting, Awake
      <4> QED  BY <2>2, <4>1, <4>2
    <3> QED  BY <1>4, <2>2, <3>1, <3>2
  <2> QED  BY <2>3, <2>4, <2>5
<1>13. ASSUME NEW m \in Sockets,
              \/ Freed(m) \/ Refuse(m) \/ Make(m) \/ MakeConnected(m) \/ MakeFails(m)
              \/ EnterTable(m)
              \/ TellPollers(m) \/ Establish(m) \/ Complete(m) \/ Report(m) \/ Request(m)
       PROVE  Covered(u)'
  <2>1. UNCHANGED <<queued, acceptor>>
    BY <1>13, Zenon DEF Freed, Refuse, Make, MakeConnected, MakeFails, EnterTable, TellPollers, Establish,
       Complete, Report, Request
  <2>2. \E k : /\ worker' = worker \/ worker' = [worker EXCEPT ![m] = k]
               /\ worker[m].pc \in Announcing => k.pc \in Announcing /\ k.who = worker[m].who
    <3>1. CASE TellPollers(m)
      <4>1. worker' = [worker EXCEPT ![m] = [worker[m] EXCEPT !.pc = "signal"]]
        BY <3>1 DEF TellPollers
      <4>2. worker[m] \in [pc : WorkerPCs, who : Ids, new : Ids]
        BY DEF UnitedInv, UnitedTypeOK
      <4>3. /\ [worker[m] EXCEPT !.pc = "signal"].pc = "signal"
            /\ [worker[m] EXCEPT !.pc = "signal"].who = worker[m].who
        BY <4>2
      <4> QED  BY <4>1, <4>3
    <3>2. CASE ~TellPollers(m)
      <4>1. worker[m].pc \notin Announcing
        <5>1. Make(m) => worker[m].pc \in {"listen", "replaced"}
          BY DEF Make, Found
        <5>5. Request(m) => worker[m].pc = "idle"
          BY DEF Request, Idle
        <5>2. Freed(m) \/ Refuse(m) => worker[m].pc \in {"listen", "replaced"}
          BY DEF Freed, Refuse
        <5>3. MakeConnected(m) \/ MakeFails(m) \/ EnterTable(m) =>
                  worker[m].pc \in {"make", "table"}
          BY DEF MakeConnected, MakeFails, EnterTable
        <5>4. Establish(m) \/ Complete(m) \/ Report(m) => worker[m].pc \in Answering
          BY DEF Establish, Complete, Report
        <5> QED  BY <1>13, <3>2, <5>1, <5>2, <5>3, <5>4, <5>5
      <4>2. \E k : worker' = worker \/ worker' = [worker EXCEPT ![m] = k]
        BY <1>13, <3>2, Zenon DEF Freed, Refuse, Make, MakeConnected, MakeFails, EnterTable, Establish,
           Complete, Report, Request
      <4> QED  BY <4>1, <4>2
    <3> QED  BY <3>1, <3>2
  <2>3. Announced(u) => Announced(u)'
    BY <2>2 DEF Announced, UnitedInv, UnitedTypeOK
  <2> QED  BY <1>6, <2>1, <2>3
<1>14. ASSUME NEW v \in Sockets, Answered(v)
       PROVE  Covered(u)'
  <2>1. /\ UNCHANGED <<queued, acceptor>>
        /\ worker[sock[v].mux] = Idle
        /\ \E k : worker' = [worker EXCEPT ![sock[v].mux] = k]
    BY <1>14 DEF Answered
  <2>2. Announced(u) => Announced(u)'
    BY <2>1 DEF Announced, UnitedInv, UnitedTypeOK, Idle
  <2> QED  BY <1>6, <2>1, <2>2
<1>15. ASSUME NEW m \in Sockets, NEW v \in Sockets, Replace(m, v)
       PROVE  Covered(u)'
  <2>1. UNCHANGED acceptor /\ queued'[u] \subseteq queued[u]
    BY <1>15 DEF Replace, UnitedInv, UnitedTypeOK
  <2>2. worker' = [worker EXCEPT ![m].pc = "replaced"] /\ worker[m].pc = "listen"
    BY <1>15 DEF Replace
  <2>3. Announced(u) => Announced(u)'
    BY <2>2 DEF Announced, UnitedInv, UnitedTypeOK
  <2> QED  BY <1>6, <2>1, <2>3
<1>16. ASSUME UNCHANGED <<acceptor, worker>>, queued'[u] \subseteq queued[u]
       PROVE  Covered(u)'
  BY <1>6, <1>16 DEF Announced
<1>17. ASSUME NEW spared, NEW done, Sweep(spared, done)
       PROVE  UNCHANGED <<acceptor, worker>> /\ queued'[u] \subseteq queued[u]
  BY <1>17 DEF Sweep, QueueLeft
<1>18. ASSUME NEW v \in Sockets,
              \/ NewSocket(v) \/ Bind(v) \/ Listen(v) \/ Connect(v) \/ AddWatch(v)
              \/ RemoveUsock(v) \/ CloseListener(v) \/ CloseSocket(v) \/ CloseLingering(v)
              \/ CloseMove(v) \/ Break(v) \/ DropFromList(v) \/ Age(v)
       PROVE  UNCHANGED <<acceptor, worker>> /\ queued'[u] \subseteq queued[u]
  BY <1>18 DEF NewSocket, Bind, Listen, Connect, AddWatch, RemoveUsock, CloseListener,
     CloseSocket, CloseLingering, CloseMove, Break, DropFromList, Age
<1>19. ASSUME AddId \/ AddState
       PROVE  UNCHANGED <<acceptor, worker>> /\ queued'[u] \subseteq queued[u]
  BY <1>19 DEF AddId, AddState
<1> QED
  BY <1>7, <1>8, <1>9, <1>10, <1>11, <1>12, <1>13, <1>14, <1>15, <1>16, <1>17, <1>18, <1>19
  DEF Next, Application, Arrivals, WorkerStep, CloseStep, AcceptStep, Collect

\* NoLostAccept is kept: what an accept() clears is the mark of a queue that
\* is empty, and whoever puts a socket in has yet to tell the pollers.
LEMMA NoLostAcceptKeeps ==
  ASSUME UnitedInv, UnitedInv', NoLostAccept, Next
  PROVE  NoLostAccept'
<1> SUFFICES ASSUME NEW l \in watch'["IN"],
                    sock'[l].polled, Located(l)', ~sock'[l].broken, queued'[l] # {},
                    \A m \in Sockets : worker'[m].pc = "events" => worker'[m].who # l
             PROVE  l \in ready'["IN"] \cup late'
  BY DEF NoLostAccept
<1>1. l \in Sockets /\ sock'[l].place = "table" /\ sock'[l].st # "CLOSED"
  OBVIOUS
<1>2. ASSUME Calm(sock[l], sock'[l]), l \in watch["IN"], queued'[l] \subseteq queued[l],
             \A m \in Sockets : worker[m].pc = "events" => worker[m].who # l,
             ready["IN"] \subseteq ready'["IN"],
             l \in late => l \in late'
      PROVE  l \in ready'["IN"] \cup late'
  <2>1. sock[l].polled /\ Located(l) /\ ~sock[l].broken
    BY <1>1, <1>2 DEF Calm
  <2> QED  BY <1>2, <2>1 DEF NoLostAccept
<1>3. ASSUME NEW u \in Sockets, AddWatch(u)
      PROVE  l \in ready'["IN"] \cup late'
  <2>1. UNCHANGED <<sock, queued, worker, ready, late>> /\ ~sock[u].polled
    BY <1>3 DEF AddWatch
  <2>2. l # u
    BY <2>1
  <2>3. watch'["IN"] \subseteq watch["IN"] \cup {u}
    BY <1>3 DEF AddWatch, UnitedInv, UnitedTypeOK
  <2> QED  BY <1>2, <2>1, <2>2, <2>3 DEF Calm
<1>4. CASE AddId
  <2>1. PICK u \in Sockets : u = adding.who
    BY <1>4 DEF AddId, UnitedInv, AddingInv
  <2>2. /\ sock' = [sock EXCEPT ![u].polled = TRUE]
        /\ late' = IF queued[u] # {} THEN late \cup {u} ELSE late
        /\ UNCHANGED <<queued, worker, ready, watch>>
    BY <1>4, <2>1 DEF AddId
  <2>3. CASE l = u
    BY <2>2, <2>3
  <2>4. CASE l # u
    <3>1. sock'[l] = sock[l]
      BY <2>2, <2>4 DEF UnitedInv, UnitedTypeOK
    <3> QED  BY <1>2, <2>2, <3>1 DEF Calm
  <2> QED  BY <2>3, <2>4
<1> HIDE DEF Located, LifeOK
<1>5. ASSUME NEW m \in Sockets, Establish(m)
      PROVE  l \in ready'["IN"] \cup late'
  <2>1. PICK v \in Sockets : v = worker[m].who
    BY <1>5 DEF Establish, UnitedInv, WorkerInv
  <2> DEFINE k == [sock[v] EXCEPT !.connecting = FALSE, !.connected = TRUE, !.onList = TRUE]
  <2>2. /\ sock' = [sock EXCEPT ![v] = k]
        /\ UNCHANGED <<queued, watch, ready, late>>
    BY <1>5, <2>1 DEF Establish
  <2>3. sock[v] \in SocketType /\ DOMAIN sock = Sockets
    BY DEF UnitedInv, UnitedTypeOK
  <2>4. k.place = sock[v].place /\ k.st = sock[v].st
    BY <2>3 DEF SocketType
  <2>5. k.polled = sock[v].polled /\ k.broken = sock[v].broken
    BY <2>3 DEF SocketType
  <2> HIDE DEF k
  <2>6. sock[l].polled /\ Located(l) /\ ~sock[l].broken
    BY <1>1, <2>2, <2>3, <2>4, <2>5 DEF Located
  <2>7. worker' = [worker EXCEPT ![m].pc = "complete"] /\ worker[m].pc = "answered"
    BY <1>5 DEF Establish
  <2>8. \A n \in Sockets : n # m => worker'[n] = worker[n]
    BY <2>7 DEF UnitedInv, UnitedTypeOK
  <2>9. \A n \in Sockets : worker[n].pc = "events" => worker[n].who # l
    BY <2>7, <2>8
  <2> QED  BY SMTT(30), <2>2, <2>6, <2>9 DEF NoLostAccept
<1> SUFFICES ASSUME ~AddId, ~\E m \in Sockets : Establish(m)
             PROVE  l \in ready'["IN"] \cup late'
  BY <1>4, <1>5
<1>6. Calm(sock[l], sock'[l])
  BY <1>1, CalmStep
<1>7. ASSUME NEW u \in Sockets, RemoveUsock(u)
      PROVE  l \in ready'["IN"] \cup late'
  <2>1. /\ sock' = [sock EXCEPT ![u].polled = FALSE]
        /\ watch' = [e \in DOMAIN watch |-> watch[e] \ {u}]
        /\ ready' = [e \in DOMAIN ready |-> ready[e] \ {u}]
        /\ late' = late \ {u}
        /\ UNCHANGED <<queued, worker>>
    BY <1>7 DEF RemoveUsock
  <2>2. l # u
    BY <1>1, <2>1 DEF UnitedInv, UnitedTypeOK
  <2>3. l \in watch["IN"]
    BY <2>1 DEF UnitedInv, UnitedTypeOK
  <2>4. sock'[l] = sock[l]
    BY <1>1, <2>1, <2>2 DEF UnitedInv, UnitedTypeOK
  <2>5. l \in ready["IN"] \cup late
    BY <1>1, <2>1, <2>3, <2>4 DEF NoLostAccept, Located
  <2> QED  BY <2>1, <2>2, <2>5 DEF UnitedInv, UnitedTypeOK
<1>8. ASSUME NEW u \in Sockets, NEW q, Reported(u, q), q = queued'[u],
             UNCHANGED <<watch, worker>>, queued'[l] \subseteq queued[l]
      PROVE  l \in ready'["IN"] \cup late'
  <2>1. CASE q = {}
    <3>1. l # u
      BY <1>8, <2>1
    <3>2. late' = late \ {u} /\ \/ ready' = [ready EXCEPT !["IN"] = @ \ {u}]
                                \/ ready' = ready
      BY <1>8, <2>1 DEF Reported, NoneLeft, Disabled
    <3>3. l \in ready["IN"] \cup late
      BY <1>1, <1>6, <1>8 DEF NoLostAccept, Calm, Located
    <3> QED  BY <3>1, <3>2, <3>3 DEF UnitedInv, UnitedTypeOK
  <2>2. CASE q # {}
    <3>1. UNCHANGED <<ready, late>>
      BY <1>8, <2>2 DEF Reported, NoneLeft
    <3> QED  BY <1>2, <1>6, <1>8, <3>1
  <2> QED  BY <2>1, <2>2
<1>9. ASSUME NEW a \in Acceptors, AcceptStep(a)
      PROVE  l \in ready'["IN"] \cup late'
  <2>1. CASE AcceptClosed(a) \/ AcceptWoken(a) \/ AcceptEmpty(a)
    <3>1. acceptor[a].pc \in Accepting
      BY <2>1 DEF AcceptClosed, AcceptWoken, AcceptEmpty
    <3>2. acceptor[a].who \in Sockets
      BY <3>1 DEF UnitedInv, AcceptInv
    <3>3. UNCHANGED <<watch, worker, queued>>
      BY <2>1 DEF AcceptClosed, AcceptWoken, AcceptEmpty
    <3>4. Reported(acceptor[a].who, queued[acceptor[a].who])
      BY <2>1 DEF AcceptClosed, AcceptWoken, AcceptEmpty
    <3> QED  BY <1>8, <3>2, <3>3, <3>4
  <2>2. CASE AcceptTake(a)
    <3>1. PICK u \in Sockets : u = acceptor[a].who
      BY <2>2 DEF AcceptTake, UnitedInv, AcceptInv
    <3>2. PICK v \in queued[u] : /\ queued' = [queued EXCEPT ![u] = @ \ {v}]
                                 /\ Reported(u, queued[u] \ {v})
      BY <2>2, <3>1 DEF AcceptTake
    <3>3. queued'[u] = queued[u] \ {v} /\ queued'[l] \subseteq queued[l]
      BY <1>1, <3>2 DEF UnitedInv, UnitedTypeOK
    <3>4. UNCHANGED <<watch, worker>>
      BY <2>2 DEF AcceptTake
    <3> QED  BY <1>8, <3>2, <3>3, <3>4
  <2>3. CASE AcceptWait(a) \/ AcceptReturn(a)
    <3>1. UNCHANGED <<watch, worker, queued, ready, late>>
      BY <2>3 DEF AcceptWait, AcceptReturn
    <3> QED  BY <1>2, <1>6, <3>1
  <2> QED  BY <1>9, <2>1, <2>2, <2>3 DEF AcceptStep
<1>10. ASSUME NEW m \in Sockets, EnterQueue(m)
       PROVE  l \in ready'["IN"] \cup late'
  <2>1. PICK u \in Sockets : u = worker[m].who
    BY <1>10 DEF EnterQueue, UnitedInv, WorkerInv
  <2>2. /\ queued' = [queued EXCEPT ![u] = @ \cup {worker[m].new}]
        /\ worker' = [worker EXCEPT ![m].pc = "events"] /\ worker[m].pc = "queue"
        /\ UNCHANGED <<watch, ready, late>>
    BY <1>10, <2>1 DEF EnterQueue
  <2>3. worker'[m].pc = "events" /\ worker'[m].who = u
    BY <2>1, <2>2 DEF UnitedInv, UnitedTypeOK
  <2>4. l # u
    BY <2>3
  <2>5. queued'[l] = queued[l]
    BY <1>1, <2>2, <2>4 DEF UnitedInv, UnitedTypeOK
  <2>6. \A n \in Sockets : worker[n].pc = "events" => worker[n].who # l
    BY <2>2 DEF UnitedInv, UnitedTypeOK
  <2> QED  BY <1>2, <1>6, <2>2, <2>5, <2>6
<1>11. ASSUME NEW m \in Sockets, TellPollers(m)
       PROVE  l \in ready'["IN"] \cup late'
  <2>1. PICK u \in Sockets : u = worker[m].who
    BY <1>11 DEF TellPollers, UnitedInv, WorkerInv
  <2>2. /\ ready' = Enabled("IN", u, ready)
        /\ worker' = [worker EXCEPT ![m].pc = "signal"] /\ worker[m].pc = "events"
        /\ UNCHANGED <<watch, sock, queued, late>>
    BY <1>11, <2>1 DEF TellPollers
  <2>3. CASE l = u
    BY <2>2, <2>3 DEF Enabled, UnitedInv, UnitedTypeOK
  <2>4. CASE l # u
    <3>1. \A n \in Sockets : worker[n].pc = "events" => worker[n].who # l
      <4>1. /\ worker' = [worker EXCEPT ![m].pc = "signal"] /\ worker[m].who # l
            /\ worker \in [Sockets -> [pc : WorkerPCs, who : Ids, new : Ids]]
        BY <2>1, <2>2, <2>4 DEF UnitedInv, UnitedTypeOK
      <4> QED  BY <4>1
    <3>2. ready["IN"] \subseteq ready'["IN"]
      BY <2>2 DEF Enabled, UnitedInv, UnitedTypeOK
    <3> QED  BY <1>2, <1>6, <2>2, <3>1, <3>2
  <2> QED  BY <2>3, <2>4
<1>12. ASSUME NEW m \in Sockets, SignalAccept(m) \/ Report(m)
       PROVE  l \in ready'["IN"] \cup late'
  <2>1. /\ ready' = Enabled("OUT", worker[m].who, ready)
        /\ worker' = [worker EXCEPT ![m] = Idle] /\ worker[m].pc # "events"
        /\ UNCHANGED <<watch, queued, late>>
    BY <1>12 DEF SignalAccept, Report
  <2>2. \A n \in Sockets : worker[n].pc = "events" => worker[n].who # l
    BY <2>1 DEF UnitedInv, UnitedTypeOK
  <2>3. ready["IN"] \subseteq ready'["IN"]
    BY <2>1 DEF Enabled, UnitedInv, UnitedTypeOK
  <2> QED  BY <1>2, <1>6, <2>1, <2>2, <2>3
<1>13. ASSUME NEW m \in Sockets,
              \/ Freed(m) \/ Refuse(m) \/ Make(m) \/ MakeConnected(m) \/ MakeFails(m)
              \/ EnterTable(m)
              \/ Complete(m) \/ Request(m)
       PROVE  l \in ready'["IN"] \cup late'
  <2>1. UNCHANGED <<watch, queued, ready, late>>
    BY <1>13, Zenon DEF Freed, Refuse, Make, MakeConnected, MakeFails, EnterTable, Complete, Request
  <2>2. \E k : worker' = worker \/ worker' = [worker EXCEPT ![m] = k]
    BY <1>13, Zenon DEF Freed, Refuse, Make, MakeConnected, MakeFails, EnterTable, Complete, Request
  <2>3. worker[m].pc # "events"
    <3>1. Make(m) => worker[m].pc \in {"listen", "replaced"}
      BY DEF Make, Found
    <3>2. Request(m) => worker[m].pc = "idle"
      BY DEF Request, Idle
    <3>3. Freed(m) \/ Refuse(m) => worker[m].pc \in {"listen", "replaced"}
      BY DEF Freed, Refuse
    <3>4. MakeConnected(m) \/ MakeFails(m) \/ EnterTable(m) \/ Complete(m) =>
              worker[m].pc \in {"make", "table", "complete"}
      BY DEF MakeConnected, MakeFails, EnterTable, Complete
    <3> QED  BY <1>13, <3>1, <3>2, <3>3, <3>4
  <2>4. \A n \in Sockets : worker[n].pc = "events" => worker[n].who # l
    BY <2>2, <2>3 DEF UnitedInv, UnitedTypeOK
  <2> QED  BY <1>2, <1>6, <2>1, <2>4
<1>14. ASSUME NEW m \in Sockets, NEW v \in Sockets, Replace(m, v)
       PROVE  l \in ready'["IN"] \cup late'
  <2>1. queued'[l] \subseteq queued[l] /\ UNCHANGED <<watch, ready, late>>
    BY <1>14 DEF Replace, UnitedInv, UnitedTypeOK
  <2>2. worker' = [worker EXCEPT ![m].pc = "replaced"] /\ worker[m].pc = "listen"
    BY <1>14 DEF Replace
  <2>3. \A n \in Sockets : worker[n].pc = "events" => worker[n].who # l
    BY SMTT(30), <2>2 DEF UnitedInv, UnitedTypeOK
  <2> QED  BY <1>2, <1>6, <2>1, <2>3
<1>15. ASSUME NEW v \in Sockets, Answered(v)
       PROVE  l \in ready'["IN"] \cup late'
  <2>1. /\ UNCHANGED <<watch, queued, ready, late>>
        /\ worker[sock[v].mux].pc = "idle"
    BY <1>15 DEF Answered, Idle
  <2>2. \E k : worker' = [worker EXCEPT ![sock[v].mux] = k]
    BY <1>15 DEF Answered
  <2>3. \A n \in Sockets : worker[n].pc = "events" => worker[n].who # l
    BY <2>1, <2>2 DEF UnitedInv, UnitedTypeOK
  <2> QED  BY <1>2, <1>6, <2>1, <2>3
<1>16. ASSUME NEW spared, NEW done \in SUBSET LingersNow, Sweep(spared, done)
       PROVE  l \in ready'["IN"] \cup late'
  <2>1. /\ UNCHANGED <<worker, ready>> /\ queued'[l] \subseteq queued[l]
        /\ late' = late \ ToBeRemoved(done)
    BY <1>1, <1>16 DEF Sweep, QueueLeft
  <2>2. watch'["IN"] \subseteq watch["IN"]
    BY <1>16 DEF Sweep, Unwatched, UnitedInv, UnitedTypeOK
  <2>3. sock[l] \in SocketType
    BY <1>1 DEF UnitedInv, UnitedTypeOK
  <2>4. l \notin ToBeRemoved(done)
    BY <1>1, <1>16, <2>3, SweepEffect, RemovedIs
  <2> QED  BY <1>2, <1>6, <2>1, <2>2, <2>4
<1>17. ASSUME NEW v \in Sockets, CloseSocket(v) \/ Break(v)
       PROVE  l \in ready'["IN"] \cup late'
  <2>1. UNCHANGED <<worker, queued, late>>
    BY <1>17 DEF CloseSocket, Break
  <2>2. watch'["IN"] \subseteq watch["IN"]
    BY <1>17 DEF CloseSocket, Break, Unwatched, UnitedInv, UnitedTypeOK
  <2>3. ready["IN"] \subseteq ready'["IN"]
    BY <1>17 DEF CloseSocket, Break, Enabled, UnitedInv, UnitedTypeOK
  <2> QED  BY <1>2, <1>6, <2>1, <2>2, <2>3
<1>18. CASE AddState
  <2>1. UNCHANGED <<worker, queued, watch, late>>
    BY <1>18 DEF AddState
  <2>2. ready["IN"] \subseteq ready'["IN"]
    BY <1>18 DEF AddState, Enabled, UnitedInv, UnitedTypeOK
  <2> QED  BY <1>2, <1>6, <2>1, <2>2
<1>19. ASSUME NEW v \in Sockets,
              \/ NewSocket(v) \/ Bind(v) \/ Listen(v) \/ Connect(v)
              \/ CloseListener(v) \/ CloseLingering(v) \/ CloseMove(v) \/ CloseBroadcast(v)
              \/ DropFromList(v) \/ Age(v) \/ \E a \in Acceptors : AcceptCall(a, v)
       PROVE  l \in ready'["IN"] \cup late'
  <2>1. UNCHANGED <<worker, queued, watch, ready, late>>
    BY <1>19 DEF NewSocket, Bind, Listen, Connect, CloseListener, CloseLingering, CloseMove,
       CloseBroadcast, DropFromList, Age, AcceptCall
  <2> QED  BY <1>2, <1>6, <2>1
<1> QED
  BY <1>3, <1>7, <1>9, <1>10, <1>11, <1>12, <1>13, <1>14, <1>15, <1>16, <1>17, <1>18, <1>19
  DEF Next, Application, Arrivals, WorkerStep, CloseStep, Collect

\* ConnectReported is kept: the call that enters the id looks at the state
\* after, and the worker tells the pollers after it has changed the state.
LEMMA ConnectReportedKeeps ==
  ASSUME UnitedInv, UnitedInv', ConnectReported, Next
  PROVE  ConnectReported'
<1> SUFFICES ASSUME NEW l \in watch'["OUT"],
                    sock'[l].polled, sock'[l].connected, ~sock'[l].broken, ~sock'[l].closing,
                    adding'.who # l,
                    \A m \in Sockets :
                        worker'[m].pc \in {"complete", "report"} => worker'[m].who # l
             PROVE  l \in ready'["OUT"]
  BY DEF ConnectReported
<1> HIDE DEF Located, LifeOK
<1>1. l \in Sockets
  BY DEF UnitedInv, UnitedTypeOK
<1>2. ASSUME Calm(sock[l], sock'[l]), l \in watch["OUT"], adding.who # l,
             \A m \in Sockets :
                 worker[m].pc \in {"complete", "report"} => worker[m].who # l,
             ready["OUT"] \subseteq ready'["OUT"]
      PROVE  l \in ready'["OUT"]
  <2>1. sock[l].polled /\ sock[l].connected /\ ~sock[l].broken /\ ~sock[l].closing
    BY <1>2 DEF Calm
  <2> QED  BY <1>2, <2>1 DEF ConnectReported
<1>3. ASSUME NEW u \in Sockets, AddWatch(u)
      PROVE  l \in ready'["OUT"]
  <2>1. UNCHANGED <<sock, worker, ready>> /\ ~sock[u].polled /\ adding = Nobody
    BY <1>3 DEF AddWatch
  <2>2. l # u /\ l # 0
    BY <1>1, <2>1
  <2>3. l \in watch["OUT"]
    BY <1>3, <2>2 DEF AddWatch, UnitedInv, UnitedTypeOK
  <2> QED  BY <1>2, <2>1, <2>2, <2>3 DEF Calm, Nobody
<1>4. CASE AddId
  <2>1. PICK u \in Sockets : u = adding.who
    BY <1>4 DEF AddId, UnitedInv, AddingInv
  <2>2. /\ sock' = [sock EXCEPT ![u].polled = TRUE]
        /\ adding' = [adding EXCEPT !.pc = "state"]
        /\ UNCHANGED <<worker, ready, watch>>
    BY <1>4, <2>1 DEF AddId
  <2>3. l # u
    BY <2>1, <2>2 DEF UnitedInv, UnitedTypeOK
  <2>4. sock'[l] = sock[l]
    BY <1>1, <2>2, <2>3 DEF UnitedInv, UnitedTypeOK
  <2> QED  BY <1>2, <2>1, <2>2, <2>3, <2>4 DEF Calm
<1>5. ASSUME NEW m \in Sockets, Establish(m)
      PROVE  l \in ready'["OUT"]
  <2>1. PICK v \in Sockets : v = worker[m].who
    BY <1>5 DEF Establish, UnitedInv, WorkerInv
  <2>2. worker' = [worker EXCEPT ![m].pc = "complete"] /\ worker[m].pc = "answered"
    BY <1>5 DEF Establish
  <2>3. l # v
    <3>1. worker'[m].pc = "complete" /\ worker'[m].who = v
      BY <2>1, <2>2 DEF UnitedInv, UnitedTypeOK
    <3> QED  BY <3>1
  <2>4. sock'[l] = sock[l]
    BY <1>1, <1>5, <2>1, <2>3 DEF Establish, UnitedInv, UnitedTypeOK
  <2>5. \A n \in Sockets : worker[n].pc \in {"complete", "report"} => worker[n].who # l
    BY <2>2 DEF UnitedInv, UnitedTypeOK
  <2>6. UNCHANGED <<watch, ready, adding>>
    BY <1>5 DEF Establish
  <2> QED  BY SMTT(30), <1>2, <2>4, <2>5, <2>6 DEF Calm
<1> SUFFICES ASSUME ~AddId, ~\E m \in Sockets : Establish(m)
             PROVE  l \in ready'["OUT"]
  BY <1>4, <1>5
<1>6. Calm(sock[l], sock'[l])
  BY <1>1, CalmStep
<1>7. ASSUME NEW u \in Sockets, RemoveUsock(u)
      PROVE  l \in ready'["OUT"]
  <2>1. /\ sock' = [sock EXCEPT ![u].polled = FALSE]
        /\ watch' = [e \in DOMAIN watch |-> watch[e] \ {u}]
        /\ ready' = [e \in DOMAIN ready |-> ready[e] \ {u}]
        /\ UNCHANGED <<worker, adding>>
    BY <1>7 DEF RemoveUsock
  <2>2. l # u
    BY <1>1, <2>1 DEF UnitedInv, UnitedTypeOK
  <2>3. l \in watch["OUT"]
    BY <2>1 DEF UnitedInv, UnitedTypeOK
  <2>4. sock'[l] = sock[l]
    BY <1>1, <2>1, <2>2 DEF UnitedInv, UnitedTypeOK
  <2>5. l \in ready["OUT"]
    BY <2>1, <2>3, <2>4 DEF ConnectReported
  <2> QED  BY <2>1, <2>2, <2>5 DEF UnitedInv, UnitedTypeOK
<1>8. CASE AddState
  <2>1. PICK u : u = adding.who
    OBVIOUS
  <2>2. /\ ready' = IF sock[u].connected /\ ~sock[u].broken /\ ~sock[u].closing
                    THEN Enabled("OUT", u, ready) ELSE ready
        /\ UNCHANGED <<sock, worker, watch>>
    BY <1>8, <2>1 DEF AddState
  <2>3. CASE l = u
    BY <2>2, <2>3 DEF Enabled, UnitedInv, UnitedTypeOK
  <2>4. CASE l # u
    <3>1. ready["OUT"] \subseteq ready'["OUT"]
      BY <2>2 DEF Enabled, UnitedInv, UnitedTypeOK
    <3> QED  BY <1>2, <1>6, <2>1, <2>2, <2>4, <3>1
  <2> QED  BY <2>3, <2>4
<1>9. ASSUME NEW a \in Acceptors, AcceptStep(a)
      PROVE  l \in ready'["OUT"]
  <2>1. UNCHANGED <<watch, worker, adding>>
    BY <1>9 DEF AcceptStep, AcceptClosed, AcceptTake, AcceptEmpty, AcceptWait, AcceptWoken,
       AcceptReturn
  <2>2. ready' = ready \/ \E u : ready' = [ready EXCEPT !["IN"] = @ \ {u}]
    BY <1>9 DEF AcceptStep, AcceptClosed, AcceptTake, AcceptEmpty, AcceptWait, AcceptWoken,
       AcceptReturn, Reported, Disabled
  <2> QED  BY <1>2, <1>6, <2>1, <2>2 DEF UnitedInv, UnitedTypeOK
<1>10. ASSUME NEW m \in Sockets, Report(m)
       PROVE  l \in ready'["OUT"]
  <2>1. PICK u \in Sockets : u = worker[m].who
    BY <1>10 DEF Report, UnitedInv, WorkerInv
  <2>2. /\ ready' = Enabled("OUT", u, ready)
        /\ UNCHANGED <<watch, adding, sock>>
    BY <1>10, <2>1 DEF Report
  <2>3. CASE l = u
    BY <2>2, <2>3 DEF Enabled, UnitedInv, UnitedTypeOK
  <2>4. CASE l # u
    <3>1. \A n \in Sockets : worker[n].pc \in {"complete", "report"} => worker[n].who # l
      <4>1. /\ worker' = [worker EXCEPT ![m] = Idle] /\ worker[m].who # l
            /\ worker \in [Sockets -> [pc : WorkerPCs, who : Ids, new : Ids]]
        BY <1>10, <2>1, <2>4 DEF Report, UnitedInv, UnitedTypeOK
      <4> QED  BY <4>1
    <3>2. ready["OUT"] \subseteq ready'["OUT"]
      BY <2>2 DEF Enabled, UnitedInv, UnitedTypeOK
    <3> QED  BY <1>2, <1>6, <2>2, <3>1, <3>2
  <2> QED  BY <2>3, <2>4
<1>11. ASSUME NEW m \in Sockets, Complete(m)
       PROVE  l \in ready'["OUT"]
  <2>1. UNCHANGED <<watch, adding, ready>> /\ worker[m].pc = "complete"
    BY <1>11 DEF Complete
  <2>2. worker' = [worker EXCEPT ![m].pc = "report"] \/ worker' = worker
    BY <1>11 DEF Complete
  <2>3. \A n \in Sockets : worker[n].pc \in {"complete", "report"} => worker[n].who # l
    BY <2>2 DEF UnitedInv, UnitedTypeOK
  <2> QED  BY <1>2, <1>6, <2>1, <2>3
<1>12. ASSUME NEW m \in Sockets,
              \/ Freed(m) \/ Refuse(m) \/ Make(m) \/ MakeConnected(m) \/ MakeFails(m)
              \/ EnterTable(m)
              \/ EnterQueue(m) \/ TellPollers(m) \/ SignalAccept(m) \/ Request(m)
              \/ \E v \in Sockets : Replace(m, v)
       PROVE  l \in ready'["OUT"]
  <2>1. UNCHANGED <<watch, adding>>
    BY <1>12, Zenon DEF Freed, Refuse, Make, MakeConnected, MakeFails, EnterTable, EnterQueue, TellPollers,
       SignalAccept, Request, Replace
  <2>2. \E k : worker' = worker \/ worker' = [worker EXCEPT ![m] = k]
    BY <1>12, Zenon DEF Freed, Refuse, Make, MakeConnected, MakeFails, EnterTable, EnterQueue, TellPollers,
       SignalAccept, Request, Replace
  <2>3. worker[m].pc \notin {"complete", "report"}
    <3>1. Make(m) => worker[m].pc \in {"listen", "replaced"}
      BY DEF Make, Found
    <3>2. Request(m) => worker[m].pc = "idle"
      BY DEF Request, Idle
    <3>3. Freed(m) \/ Refuse(m) \/ (\E v \in Sockets : Replace(m, v)) =>
              worker[m].pc \in {"listen", "replaced"}
      BY DEF Freed, Refuse, Replace
    <3>4. MakeConnected(m) \/ MakeFails(m) \/ EnterTable(m) \/ EnterQueue(m) =>
              worker[m].pc \in Making
      BY DEF MakeConnected, MakeFails, EnterTable, EnterQueue
    <3>5. TellPollers(m) \/ SignalAccept(m) => worker[m].pc \in Announcing
      BY DEF TellPollers, SignalAccept
    <3> QED  BY <1>12, <3>1, <3>2, <3>3, <3>4, <3>5
  <2>4. \A n \in Sockets : worker[n].pc \in {"complete", "report"} => worker[n].who # l
    BY <2>2, <2>3 DEF UnitedInv, UnitedTypeOK
  <2>5. ready["OUT"] \subseteq ready'["OUT"]
    <3>1. \/ ready' = ready
          \/ \E e \in {"IN", "OUT"} : ready' = Enabled(e, worker[m].who, ready)
      BY <1>12, Zenon DEF Freed, Refuse, Make, MakeConnected, MakeFails, EnterTable, EnterQueue, TellPollers,
         SignalAccept, Request, Replace
    <3> QED  BY <3>1 DEF Enabled, UnitedInv, UnitedTypeOK
  <2> QED  BY <1>2, <1>6, <2>1, <2>4, <2>5
<1>13. ASSUME NEW v \in Sockets, Answered(v)
       PROVE  l \in ready'["OUT"]
  <2>1. UNCHANGED <<watch, adding, ready>> /\ worker[sock[v].mux].pc = "idle"
    BY <1>13 DEF Answered, Idle
  <2>2. \E k : worker' = [worker EXCEPT ![sock[v].mux] = k]
    BY <1>13 DEF Answered
  <2>3. \A n \in Sockets : worker[n].pc \in {"complete", "report"} => worker[n].who # l
    BY <2>1, <2>2 DEF UnitedInv, UnitedTypeOK
  <2> QED  BY <1>2, <1>6, <2>1, <2>3
<1>14. ASSUME NEW spared, NEW done, Sweep(spared, done)
       PROVE  l \in ready'["OUT"]
  <2>1. UNCHANGED <<worker, ready, adding>>
    BY <1>14 DEF Sweep
  <2>2. watch'["OUT"] \subseteq watch["OUT"]
    BY <1>14 DEF Sweep, Unwatched, UnitedInv, UnitedTypeOK
  <2> QED  BY <1>2, <1>6, <2>1, <2>2
<1>15. ASSUME NEW v \in Sockets, CloseSocket(v) \/ Break(v)
       PROVE  l \in ready'["OUT"]
  <2>1. UNCHANGED <<worker, adding>>
    BY <1>15 DEF CloseSocket, Break
  <2>2. watch'["OUT"] \subseteq watch["OUT"]
    BY <1>15 DEF CloseSocket, Break, Unwatched, UnitedInv, UnitedTypeOK
  <2>3. ready["OUT"] \subseteq ready'["OUT"]
    BY <1>15 DEF CloseSocket, Break, Enabled, UnitedInv, UnitedTypeOK
  <2> QED  BY <1>2, <1>6, <2>1, <2>2, <2>3
<1>16. ASSUME NEW v \in Sockets,
              \/ NewSocket(v) \/ Bind(v) \/ Listen(v) \/ Connect(v)
              \/ CloseListener(v) \/ CloseLingering(v) \/ CloseMove(v) \/ CloseBroadcast(v)
              \/ DropFromList(v) \/ Age(v) \/ \E a \in Acceptors : AcceptCall(a, v)
       PROVE  l \in ready'["OUT"]
  <2>1. UNCHANGED <<worker, adding, watch, ready>>
    BY <1>16 DEF NewSocket, Bind, Listen, Connect, CloseListener, CloseLingering, CloseMove,
       CloseBroadcast, DropFromList, Age, AcceptCall
  <2> QED  BY <1>2, <1>6, <2>1
<1> QED
  BY <1>3, <1>7, <1>8, <1>9, <1>10, <1>11, <1>12, <1>13, <1>14, <1>15, <1>16
  DEF Next, Application, Arrivals, WorkerStep, CloseStep, Collect

\* The sockets that use a multiplexer, and a step that changes nothing of it
\* for k, as n.
Users(m) == {u \in Existing : sock[u].mux = m}
SameUse(k, n) ==
    /\ n.mux = k.mux
    /\ n.mux # 0 => (n.place \in {"born", "table", "closed"}
                         <=> k.place \in {"born", "table", "closed"})

\* MuxCountExact is kept: one socket more where the count goes up, and a sweep
\* takes as many as it removes.
LEMMA MuxCountKeeps ==
  ASSUME UnitedInv, UnitedInv', MuxCountExact, Next
  PROVE  MuxCountExact'
<1> SUFFICES ASSUME NEW m \in Sockets
             PROVE  refs'[m] = Cardinality(Users(m)')
  BY DEF MuxCountExact, Users
<1>1. /\ refs[m] = Cardinality(Users(m)) /\ IsFiniteSet(Users(m))
      /\ Cardinality(Users(m)) \in Nat
  <2>1. Users(m) \subseteq Sockets
    BY DEF Users, Existing
  <2> QED  BY <2>1, FS_Subset, FS_CardinalityType DEF MuxCountExact, Users
<1> HIDE DEF Located, LifeOK
<1>2. ASSUME UNCHANGED refs, \A w \in Sockets : SameUse(sock[w], sock'[w])
      PROVE  refs'[m] = Cardinality(Users(m)')
  <2>1. Users(m)' = Users(m)
    BY <1>2 DEF SameUse, Users, Existing
  <2> QED  BY <1>1, <1>2, <2>1
<1>3. ASSUME NEW u \in Sockets, NEW n \in Sockets,
             refs' = [refs EXCEPT ![n] = @ + 1], sock[u].mux = 0, sock'[u].mux = n,
             u \in Existing',
             \A w \in Sockets \ {u} : SameUse(sock[w], sock'[w])
      PROVE  refs'[m] = Cardinality(Users(m)')
  <2>1. CASE m = n
    <3>1. u \notin Users(m) /\ Users(m)' = Users(m) \cup {u}
      BY <1>3, <2>1 DEF SameUse, Users, Existing
    <3>2. Cardinality(Users(m)') = Cardinality(Users(m)) + 1
      BY <1>1, <3>1, FS_AddElement
    <3>3. refs'[m] = refs[m] + 1
      BY <1>3, <2>1 DEF UnitedInv, UnitedTypeOK
    <3> QED  BY <1>1, <3>2, <3>3
  <2>2. CASE m # n
    <3>1. Users(m)' = Users(m)
      BY <1>3, <2>2 DEF SameUse, Users, Existing
    <3>2. refs'[m] = refs[m]
      BY <1>3, <2>2 DEF UnitedInv, UnitedTypeOK
    <3> QED  BY <1>1, <3>1, <3>2
  <2> QED  BY <2>1, <2>2
<1>4. ASSUME NEW u \in Sockets, Bind(u)
      PROVE  refs'[m] = Cardinality(Users(m)')
  <2>1. PICK n \in Sockets : UseMux(u, n)
    BY <1>4 DEF Bind
  <2>2. /\ sock' = [sock EXCEPT ![u].mux = n, ![u].st = "OPENED"]
        /\ sock[u].place = "table" /\ sock[u].st = "INIT"
        /\ refs' = [refs EXCEPT ![n] = @ + 1]
    BY <1>4, <2>1 DEF Bind, UseMux, Located
  <2>3. sock[u].mux = 0
    BY <2>2 DEF UnitedInv, SocketInv, LifeOK
  <2>4. sock'[u].mux = n /\ u \in Existing'
    BY <2>2 DEF UnitedInv, UnitedTypeOK, SocketType, Existing
  <2>5. \A w \in Sockets \ {u} : sock'[w] = sock[w]
    BY <2>2 DEF UnitedInv, UnitedTypeOK
  <2> QED  BY <1>3, <2>2, <2>3, <2>4, <2>5 DEF SameUse
<1>5. ASSUME NEW n \in Sockets, MakeConnected(n)
      PROVE  refs'[m] = Cardinality(Users(m)')
  <2>1. PICK v \in Sockets : v = worker[n].new
    BY <1>5 DEF MakeConnected, UnitedInv, WorkerInv
  <2>2. worker[n].pc = "make"
    BY <1>5 DEF MakeConnected
  <2>3. /\ sock[worker[n].who].mux = n
        /\ sock[v].mux = 0 /\ sock[v].place = "born"
    BY <2>1, <2>2 DEF UnitedInv, WorkerInv
  <2> DEFINE k == [sock[v] EXCEPT !.mux = n, !.connected = TRUE, !.onList = TRUE,
                                  !.st = "CONNECTED"]
  <2>4. /\ refs' = [refs EXCEPT ![n] = @ + 1]
        /\ sock' = [sock EXCEPT ![v] = k]
    BY <1>5, <2>1, <2>3 DEF MakeConnected
  <2>5. sock[v] \in SocketType /\ DOMAIN sock = Sockets
    BY DEF UnitedInv, UnitedTypeOK
  <2>6. k.mux = n /\ k.place = "born"
    BY <2>3, <2>5 DEF SocketType
  <2> HIDE DEF k
  <2>7. sock'[v].mux = n /\ v \in Existing' /\ \A w \in Sockets \ {v} : sock'[w] = sock[w]
    BY <2>4, <2>5, <2>6 DEF Existing
  <2> QED  BY <1>3, <2>3, <2>4, <2>7 DEF SameUse
<1>22. ASSUME NEW n \in Sockets, MakeFails(n)
      PROVE  refs'[m] = Cardinality(Users(m)')
  <2>1. PICK v \in Sockets, k \in SocketType :
             /\ sock[v].place = "born" /\ sock[v].mux = 0
             /\ sock' = [sock EXCEPT ![v] = k] /\ k.place = "born"
             /\ \/ k.mux = 0 /\ refs' = refs
                \/ k.mux = n /\ refs' = [refs EXCEPT ![n] = @ + 1]
    BY <1>22, MakeFailsIs
  <2>2. DOMAIN sock = Sockets
    BY DEF UnitedInv, UnitedTypeOK
  <2>3. sock'[v] = k /\ v \in Existing' /\ \A w \in Sockets \ {v} : sock'[w] = sock[w]
    BY <2>1, <2>2 DEF Existing
  <2>4. CASE k.mux = 0 /\ refs' = refs
    BY <1>2, <2>1, <2>3, <2>4 DEF SameUse
  <2>5. CASE k.mux = n /\ refs' = [refs EXCEPT ![n] = @ + 1]
    BY <1>3, <2>1, <2>3, <2>5 DEF SameUse
  <2> QED  BY <2>1, <2>4, <2>5
<1>6. ASSUME NEW spared, NEW done \in SUBSET LingersNow, Sweep(spared, done)
      PROVE  refs'[m] = Cardinality(Users(m)')
  <2> DEFINE tbr == ToBeRemoved(done)
             gone == {u \in tbr : sock[u].mux = m}
  <2>1. refs'[m] = refs[m] - Cardinality(gone)
    BY <1>6 DEF Sweep, GiveUpMux
  <2>2. ASSUME NEW u \in Sockets
        PROVE  /\ u \in tbr => sock[u].place = "closed" /\ sock'[u].place = "deleted"
               /\ u \notin tbr => SameUse(sock[u], sock'[u])
    <3>1. sock[u] \in SocketType
      BY DEF UnitedInv, UnitedTypeOK
    <3> QED  BY <1>6, <3>1, SweepEffect, RemovedIs DEF Swept, SameUse
  <2>3. tbr \subseteq Sockets
    BY DEF ToBeRemoved
  <2> HIDE DEF tbr
  <2>4. gone \subseteq Users(m)
    BY <2>2, <2>3 DEF Users, Existing
  <2>5. Users(m)' = Users(m) \ gone
    <3>1. ASSUME NEW u \in Sockets
          PROVE  u \in Users(m)' <=> u \in Users(m) /\ u \notin gone
      <4>1. CASE u \in tbr
        BY <2>2, <4>1 DEF Users, Existing
      <4>2. CASE u \notin tbr
        BY <2>2, <4>2 DEF Users, Existing, SameUse
      <4> QED  BY <4>1, <4>2
    <3>2. Users(m)' \subseteq Sockets /\ Users(m) \subseteq Sockets
      BY DEF Users, Existing
    <3> QED  BY <3>1, <3>2
  <2> HIDE DEF gone
  <2>6. Cardinality(Users(m) \ gone) = Cardinality(Users(m)) - Cardinality(Users(m) \cap gone)
    BY <1>1, FS_Difference
  <2>7. Users(m) \cap gone = gone
    BY <2>4
  <2> QED  BY <1>1, <2>1, <2>5, <2>6, <2>7
<1>7. ASSUME NEW u \in Sockets, NewSocket(u) \/ Listen(u) \/ Connect(u),
             NEW w \in Sockets
      PROVE  SameUse(sock[w], sock'[w]) /\ UNCHANGED refs
  <2>1. CASE NewSocket(u)
    BY <2>1 DEF NewSocket, NextIds, SameUse, UnitedInv, UnitedTypeOK, SocketType,
       SocketInv, LifeOK
  <2>2. CASE Listen(u)
    BY <2>2 DEF Listen, SameUse, UnitedInv, UnitedTypeOK, SocketType
  <2>3. CASE Connect(u)
    BY <2>3 DEF Connect, SameUse, UnitedInv, UnitedTypeOK, SocketType
  <2> QED  BY <1>7, <2>1, <2>2, <2>3
<1>8. ASSUME NEW u \in Sockets, RemoveUsock(u) \/ CloseListener(u) \/ CloseSocket(u),
             NEW w \in Sockets
      PROVE  SameUse(sock[w], sock'[w]) /\ UNCHANGED refs
  <2>1. CASE RemoveUsock(u)
    BY <2>1 DEF RemoveUsock, SameUse, UnitedInv, UnitedTypeOK, SocketType
  <2>2. CASE CloseListener(u)
    BY <2>2 DEF CloseListener, SameUse, UnitedInv, UnitedTypeOK, SocketType
  <2>3. CASE CloseSocket(u)
    BY <2>3 DEF CloseSocket, Closed, SameUse, UnitedInv, UnitedTypeOK, SocketType
  <2> QED  BY <1>8, <2>1, <2>2, <2>3
<1>9. ASSUME NEW u \in Sockets, CloseLingering(u) \/ CloseMove(u) \/ Break(u),
             NEW w \in Sockets
      PROVE  SameUse(sock[w], sock'[w]) /\ UNCHANGED refs
  <2>1. CASE CloseLingering(u)
    BY <2>1 DEF CloseLingering, SameUse, UnitedInv, UnitedTypeOK, SocketType
  <2>2. CASE CloseMove(u)
    BY <2>2 DEF CloseMove, Located, SameUse, UnitedInv, UnitedTypeOK, SocketType
  <2>3. CASE Break(u)
    BY <2>3 DEF Break, SameUse, UnitedInv, UnitedTypeOK, SocketType
  <2> QED  BY <1>9, <2>1, <2>2, <2>3
<1>10. ASSUME NEW u \in Sockets, DropFromList(u) \/ Age(u),
              NEW w \in Sockets
       PROVE  SameUse(sock[w], sock'[w]) /\ UNCHANGED refs
  <2>1. CASE DropFromList(u)
    BY <2>1 DEF DropFromList, SameUse, UnitedInv, UnitedTypeOK, SocketType
  <2>2. CASE Age(u)
    BY <2>2 DEF Age, SameUse, UnitedInv, UnitedTypeOK, SocketType
  <2> QED  BY <1>10, <2>1, <2>2
<1>11. ASSUME NEW n \in Sockets, Make(n) \/ EnterTable(n) \/ \E v \in Sockets : Replace(n,
   v),
              NEW w \in Sockets
       PROVE  SameUse(sock[w], sock'[w]) /\ UNCHANGED refs
  <2>1. CASE Make(n)
    <3>1. PICK v \in Sockets :
              /\ sock[v].place = "none" /\ UNCHANGED refs
              /\ sock' = [sock EXCEPT ![v] = [@ EXCEPT !.place = "born",
                                                     !.parent = worker[n].who]]
      BY <2>1 DEF Make, NextIds
    <3>2. /\ sock[v].mux = 0 /\ sock[v] \in SocketType
      BY <3>1 DEF UnitedInv, UnitedTypeOK, SocketInv, LifeOK
    <3>3. sock'[v].mux = 0 /\ \A x \in Sockets \ {v} : sock'[x] = sock[x]
      BY <3>1, <3>2 DEF UnitedInv, UnitedTypeOK, SocketType
    <3> QED  BY <3>1, <3>2, <3>3 DEF SameUse
  <2>2. CASE EnterTable(n)
    <3>1. PICK v \in Sockets : v = worker[n].new
      BY SMTT(30), <2>2 DEF EnterTable, UnitedInv, WorkerInv
    <3>2. sock[v].place = "born"
      BY <2>2, <3>1 DEF EnterTable, UnitedInv, WorkerInv
    <3>3. sock' = [sock EXCEPT ![v].place = "table"] /\ UNCHANGED refs
      BY <2>2, <3>1 DEF EnterTable
    <3> QED  BY SMTT(30), <3>2, <3>3 DEF SameUse, UnitedInv, UnitedTypeOK, SocketType
  <2>3. ASSUME NEW v \in Sockets, Replace(n, v)
        PROVE  SameUse(sock[w], sock'[w]) /\ UNCHANGED refs
    BY <2>3 DEF Replace, SameUse, UnitedInv, UnitedTypeOK, SocketType
  <2> QED  BY <1>11, <2>1, <2>2, <2>3
<1>12. ASSUME NEW n \in Sockets, Establish(n) \/ Complete(n),
              NEW w \in Sockets
       PROVE  SameUse(sock[w], sock'[w]) /\ UNCHANGED refs
  <2>1. CASE Establish(n)
    BY <2>1 DEF Establish, SameUse, UnitedInv, UnitedTypeOK, SocketType
  <2>2. CASE Complete(n)
    <3>1. PICK v \in Sockets : v = worker[n].who
      BY <2>2 DEF Complete, UnitedInv, WorkerInv
    <3>2. UNCHANGED refs /\ (sock' = [sock EXCEPT ![v].st = "CONNECTED"] \/ sock' = sock)
      BY <2>2, <3>1 DEF Complete
    <3> QED  BY <3>2 DEF SameUse, UnitedInv, UnitedTypeOK, SocketType
  <2> QED  BY <1>12, <2>1, <2>2
<1>13. ASSUME AddId, NEW w \in Sockets
       PROVE  SameUse(sock[w], sock'[w]) /\ UNCHANGED refs
  BY <1>13 DEF AddId, SameUse, UnitedInv, UnitedTypeOK, SocketType
<1>14. ASSUME UNCHANGED <<sock, refs>>
       PROVE  refs'[m] = Cardinality(Users(m)')
  BY <1>2, <1>14 DEF SameUse
<1>15. ASSUME NEW u \in Sockets,
              \/ AddWatch(u) \/ Answered(u) \/ CloseBroadcast(u)
              \/ \E a \in Acceptors : AcceptCall(a, u)
       PROVE  UNCHANGED <<sock, refs>>
  BY <1>15 DEF AddWatch, Answered, CloseBroadcast, AcceptCall
<1>16. ASSUME NEW a \in Acceptors, AcceptStep(a)
       PROVE  UNCHANGED <<sock, refs>>
  BY <1>16 DEF AcceptStep, AcceptClosed, AcceptTake, AcceptEmpty, AcceptWait, AcceptWoken,
         AcceptReturn
<1>17. ASSUME NEW n \in Sockets,
              \/ Freed(n) \/ Refuse(n) \/ EnterQueue(n) \/ TellPollers(n) \/ SignalAccept(n)
              \/ Report(n) \/ Request(n)
       PROVE  UNCHANGED <<sock, refs>>
  BY <1>17 DEF Freed, Refuse, EnterQueue, TellPollers, SignalAccept, Report, Request
<1>18. AddState => UNCHANGED <<sock, refs>>
  BY DEF AddState
<1>19. ASSUME NEW u \in Sockets,
              \/ NewSocket(u) \/ Listen(u) \/ Connect(u) \/ RemoveUsock(u) \/ CloseListener(u)
              \/ CloseSocket(u) \/ CloseLingering(u) \/ CloseMove(u) \/ Break(u)
              \/ DropFromList(u) \/ Age(u)
       PROVE  refs'[m] = Cardinality(Users(m)')
  BY <1>2, <1>7, <1>8, <1>9, <1>10, <1>19
<1>20. ASSUME NEW n \in Sockets,
              \/ Make(n) \/ EnterTable(n) \/ Establish(n) \/ Complete(n)
              \/ \E v \in Sockets : Replace(n, v)
       PROVE  refs'[m] = Cardinality(Users(m)')
  BY <1>2, <1>11, <1>12, <1>20
<1>21. AddId => refs'[m] = Cardinality(Users(m)')
  BY <1>2, <1>13
<1> QED
  BY <1>4, <1>5, <1>6, <1>14, <1>15, <1>16, <1>17, <1>18, <1>19, <1>20, <1>21, <1>22
  DEF Next, Application, Arrivals, WorkerStep, CloseStep, Collect

-----------------------------------------------------------------------------
\* A multiplexer counts the sockets that use it, so it goes with the last of
\* them and no sooner (updateMux, newSocket, removeSocket).
THEOREM MuxCountInvariance == Spec => []MuxCountExact
<1>1. Init => MuxCountExact
  <2> SUFFICES ASSUME Init, NEW m \in Sockets
               PROVE  refs[m] = Cardinality({u \in Existing : sock[u].mux = m})
    BY DEF MuxCountExact
  <2>1. {u \in Existing : sock[u].mux = m} = {}
    BY DEF Init, Unborn, Existing
  <2>2. refs[m] = 0
    BY DEF Init
  <2> QED  BY <2>1, <2>2, FS_EmptySet
<1>2. UnitedInv /\ UnitedInv' /\ MuxCountExact /\ [Next]_vars => MuxCountExact'
  <2>1. UNCHANGED vars /\ MuxCountExact => MuxCountExact'
    BY DEF vars, MuxCountExact, Existing
  <2> QED  BY <2>1, MuxCountKeeps
<1> QED  BY <1>1, <1>2, UnitedInvariance, PTL DEF Spec

\* A socket that waits for accept() is in m_Sockets (newConnection,
\* removeSocket, accept).
THEOREM QueuedInTableInvariance == Spec => []QueuedInTable
<1>1. UnitedInv => QueuedInTable
  BY DEF UnitedInv, QueueInv, QueuedInTable
<1> QED  BY <1>1, UnitedInvariance, PTL

\* A poller that watches a listener is told of connections that wait, unless
\* they waited when it began to watch (update_events in newConnection and in
\* accept, epoll_add_usock).
THEOREM NoLostAcceptInvariance == Spec => []NoLostAccept
<1>1. Init => NoLostAccept
  BY DEF Init, NoLostAccept
<1>2. UnitedInv /\ UnitedInv' /\ NoLostAccept /\ [Next]_vars => NoLostAccept'
  <2>1. UNCHANGED vars /\ NoLostAccept => NoLostAccept'
    BY DEF vars, NoLostAccept
  <2> QED  BY <2>1, NoLostAcceptKeeps
<1> QED  BY <1>1, <1>2, UnitedInvariance, PTL DEF Spec

\* A poller that watches a socket is told of its connection, be it made
\* before, after or while the socket is added (addEPoll, CUDT::connect).
THEOREM ConnectReportedInvariance == Spec => []ConnectReported
<1>1. Init => ConnectReported
  BY DEF Init, ConnectReported
<1>2. UnitedInv /\ UnitedInv' /\ ConnectReported /\ [Next]_vars => ConnectReported'
  <2>1. UNCHANGED vars /\ ConnectReported => ConnectReported'
    BY DEF vars, ConnectReported
  <2> QED  BY <2>1, ConnectReportedKeeps
<1> QED  BY <1>1, <1>2, UnitedInvariance, PTL DEF Spec

\* While somebody waits in accept(), there are threads awake, or about to be
\* woken, for all that wait in the queue.
THEOREM WakeInvariance == Spec => []WakeInv
<1>1. Init => WakeInv
  BY DEF Init, Nobody, WakeInv, Waiting
<1>2. UnitedInv /\ UnitedInv' /\ WakeInv /\ [Next]_vars => WakeInv'
  <2>1. UNCHANGED vars /\ WakeInv => WakeInv'
    BY DEF vars, WakeInv, Covered, Waiting, Awake, Announced
  <2> QED  BY <2>1, WakeKeeps
<1> QED  BY <1>1, <1>2, UnitedInvariance, PTL DEF Spec

\* Nobody waits in accept() for ever while there is a connection to take, or
\* no listener any more (m_AcceptCond: accept, newConnection, close).
THEOREM NoAcceptorStrandedInvariance == Spec => []NoAcceptorStranded
<1>1. UnitedInv /\ WakeInv => NoAcceptorStranded
  <2> SUFFICES ASSUME UnitedInv, WakeInv, NEW a \in Acceptors, NEW u, u = acceptor[a].who,
                      acceptor[a].pc = "wait", queued[u] # {} \/ sock[u].broken
               PROVE  \/ \E b \in Acceptors :
                             acceptor[b] \in {[pc |-> p, who |-> u] : p \in {"try", "woken"}}
                      \/ \E m \in Sockets : /\ worker[m].who = u
                                            /\ worker[m].pc \in {"events", "signal"}
                      \/ <<u, "broadcast">> \in closers
    BY DEF NoAcceptorStranded
  <2>1. u \in Sockets /\ (sock[u].broken => <<u, "broadcast">> \in closers)
    BY DEF UnitedInv, AcceptInv
  <2>2. CASE sock[u].broken
    BY <2>1, <2>2
  <2>3. CASE ~sock[u].broken /\ ~Announced(u)
    <3>1. acceptor \in AcceptorType
      BY DEF UnitedInv, UnitedTypeOK
    <3>2. a \in Waiting(u)
      BY <3>1 DEF Waiting
    <3>3. Cardinality(queued[u]) <= Cardinality(Awake(u)) + 0
      BY <2>1, <2>3, <3>2 DEF WakeInv, Covered
    <3>4. IsFiniteSet(queued[u]) /\ IsFiniteSet(Awake(u))
      <4>1. queued[u] \subseteq Sockets /\ Awake(u) \subseteq Acceptors
        BY <2>1 DEF UnitedInv, UnitedTypeOK, Awake
      <4> QED  BY <4>1, FS_Subset
    <3>5. Awake(u) # {}
      <4>1. Cardinality(queued[u]) \in Nat /\ Cardinality(queued[u]) # 0
        BY <2>3, <3>4, FS_CardinalityType, FS_EmptySet
      <4>2. Cardinality(Awake(u)) \in Nat
        BY <3>4, FS_CardinalityType
      <4>3. Cardinality(Awake(u)) # 0
        BY <3>3, <4>1, <4>2
      <4> QED  BY <4>3, FS_EmptySet
    <3>6. PICK b \in Acceptors : acceptor[b].who = u /\ acceptor[b].pc \in {"try", "woken"}
      BY <3>5 DEF Awake
    <3>7. acceptor[b] = [pc |-> acceptor[b].pc, who |-> u]
      BY <3>1, <3>6
    <3> QED  BY <3>6, <3>7
  <2>4. CASE Announced(u)
    BY <2>4 DEF Announced
  <2> QED  BY <2>2, <2>3, <2>4
<1> QED  BY <1>1, UnitedInvariance, WakeInvariance, PTL
=============================================================================
