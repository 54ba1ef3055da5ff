------------------------------- MODULE United -------------------------------
(***************************************************************************)
(* CUDTUnited, the table of sockets, and the threads that share it: the    *)
(* application's calls, the receiving worker of each multiplexer, which    *)
(* makes the listener's new sockets and completes asynchronous connects,   *)
(* and the garbage collector.  CEPoll rides along, as far as it tells of   *)
(* new and of completed connections.                                       *)
(*                                                                         *)
(* A step is what a thread does under m_ControlLock, m_AcceptLock or       *)
(* m_EPollLock, or between two of them.  A sweep of the collector holds    *)
(* m_ControlLock all the time; a worker it has to join needs no lock any   *)
(* more, or is one that Freed describes.                                   *)
(*                                                                         *)
(* Time: a closed socket is kept for a second, a closed listener for three *)
(* more, "to prevent other methods from accessing invalid address"         *)
(* (api.cpp:849).  Here a socket does not age while a call that has        *)
(* located it is running, so the second is taken to be long enough.        *)
(***************************************************************************)
EXTENDS Integers, FiniteSets

CONSTANTS Sockets,    \* ids, given out downwards
          Acceptors,  \* threads that call accept()
          Backlog,    \* m_uiBackLog
          Plans       \* bound: what the application does, see plan

ASSUME UnitedAssumption ==
    /\ Sockets \subseteq Nat \ {0} /\ IsFiniteSet(Sockets)
    /\ IsFiniteSet(Acceptors)
    /\ Backlog \in Nat \ {0}

VARIABLES
    plan,      \* sockets it opens, threads in accept(), whether accept() blocks
               \* (m_bSynRecving), sockets it polls, whether it listens,
               \* connects and lingers, how many connections break, and
               \* whether making one can fail
    sock,      \* the sockets, in m_Sockets, in m_ClosedSockets or deleted
    queued,    \* m_pQueuedSockets of each listener
    listener,  \* m_pListener of each multiplexer
    refs,      \* m_iRefCount of each multiplexer: zero if there is none
    worker,    \* what each multiplexer's worker is doing
    acceptor,  \* the threads in accept()
    closers,   \* the close() calls that have not finished: socket and next step
    adding,    \* the call of epoll_add_usock
    watch,     \* m_sUDTSocksIn and m_sUDTSocksOut
    ready,     \* m_sUDTReads and m_sUDTWrites
    late,      \* history: listeners that had connections when first watched
    fatal      \* how the process ended, if it did

mux == <<listener, refs, worker>>
epoll == <<adding, watch, ready, late>>
vars == <<plan, sock, queued, mux, acceptor, closers, epoll, fatal>>

\* m_Status, m_bBroken, m_bClosing, m_bConnecting (and being in the
\* rendezvous queue), m_bConnected, m_pRNode->m_bOnList,
\* m_ullLingerExpiration, whether the time since m_TimeStamp is over,
\* m_iMuxID, m_ListenSocket and m_sPollID.
Unborn ==
    [place |-> "none", st |-> "INIT", broken |-> FALSE, closing |-> FALSE,
     connecting |-> FALSE, connected |-> FALSE, onList |-> FALSE,
     linger |-> FALSE, aged |-> FALSE, mux |-> 0, parent |-> 0, polled |-> FALSE]

Nobody == [pc |-> "idle", who |-> 0]
Idle == [pc |-> "idle", who |-> 0, new |-> 0]

Init ==
    /\ plan \in Plans
    /\ sock = [u \in Sockets |-> Unborn]
    /\ queued = [u \in Sockets |-> {}]
    /\ listener = [m \in Sockets |-> 0] /\ refs = [m \in Sockets |-> 0]
    /\ worker = [m \in Sockets |-> Idle]
    /\ acceptor = [a \in Acceptors |-> Nobody]
    /\ closers = {} /\ adding = Nobody
    /\ watch = [e \in {"IN", "OUT"} |-> {}]
    /\ ready = [e \in {"IN", "OUT"} |-> {}]
    /\ late = {} /\ fatal = "no"

Running == fatal = "no"

InTable == {u \in Sockets : sock[u].place = "table"}

\* locate(u)
Located(u) == u \in InTable /\ sock[u].st # "CLOSED"


\* A close() call holds the socket's m_ControlLock.
InClose(u) == \E c \in closers : c[1] = u

\* Sockets the application knows: its own and those accept() has returned.
Held(u) ==
    \/ sock[u].parent = 0
    \/ /\ \A l \in Sockets : u \notin queued[l] /\ worker[l].new # u
       /\ \A a \in Acceptors : acceptor[a].who # u


\* -- m_SocketID: the next id.
NextIds == {u \in Sockets : /\ sock[u].place = "none"
                            /\ \A v \in Sockets : sock[v].place = "none" => v <= u}

-----------------------------------------------------------------------------
(* CEPoll.                                                                 *)

\* update_events(u, its m_sPollID, e, TRUE)
Enabled(e, u, r) ==
    IF sock[u].polled /\ u \in watch[e] THEN [r EXCEPT ![e] = @ \cup {u}] ELSE r

\* update_events(..., FALSE)
Disabled(e, u, r) == IF sock[u].polled THEN [r EXCEPT ![e] = @ \ {u}] ELSE r

\* epoll_add_usock: the watch sets first,
AddWatch(u) ==
    /\ Running /\ u \in plan.polls /\ adding = Nobody
    /\ Located(u) /\ Held(u) /\ ~sock[u].polled
    /\ watch' = [e \in DOMAIN watch |-> watch[e] \cup {u}]
    /\ adding' = [pc |-> "id", who |-> u]
    /\ UNCHANGED <<sock, queued, mux, acceptor, closers, ready, late, fatal, plan>>

\* then CUDT::addEPoll enters the id,
AddId ==
    /\ Running /\ adding.pc = "id"
    /\ LET u == adding.who IN
       /\ sock' = [sock EXCEPT ![u].polled = TRUE]
       /\ late' = IF queued[u] # {} THEN late \cup {u} ELSE late
    /\ adding' = [adding EXCEPT !.pc = "state"]
    /\ UNCHANGED <<queued, mux, acceptor, closers, watch, ready, fatal, plan>>

\* Variant: it does not look whether there is something to report already.
AddStateBlind ==
    /\ Running /\ adding.pc = "state"
    /\ adding' = Nobody
    /\ UNCHANGED <<sock, queued, mux, acceptor, closers, watch, ready, late, fatal, plan>>

\* and last looks whether the socket can be written already (nobody sends
\* here, so the buffer has room for as long as there is a connection).
AddState ==
    /\ Running /\ adding.pc = "state"
    /\ LET u == adding.who  k == sock[u] IN
       ready' = IF k.connected /\ ~k.broken /\ ~k.closing
                THEN Enabled("OUT", u, ready) ELSE ready
    /\ adding' = Nobody
    /\ UNCHANGED <<sock, queued, mux, acceptor, closers, watch, late, fatal, plan>>

\* epoll_remove_usock
RemoveUsock(u) ==
    /\ Running /\ adding.who # u /\ Located(u) /\ sock[u].polled
    /\ watch' = [e \in DOMAIN watch |-> watch[e] \ {u}]
    /\ ready' = [e \in DOMAIN ready |-> ready[e] \ {u}]
    /\ sock' = [sock EXCEPT ![u].polled = FALSE]
    /\ late' = late \ {u}
    /\ UNCHANGED <<queued, mux, acceptor, closers, adding, fatal, plan>>

-----------------------------------------------------------------------------
(* CUDT::close, as it leaves the socket, the listener's place and the      *)
(* watch sets; the sets of ready sockets it leaves alone.                  *)

Closed(k) ==
    IF k.mux = 0 THEN k
    ELSE [k EXCEPT !.closing = TRUE, !.connecting = FALSE, !.connected = FALSE]

WithoutListeners(S) ==
    [m \in Sockets |-> IF listener[m] \in S THEN 0 ELSE listener[m]]

Unwatched(S) ==
    [e \in DOMAIN watch |-> watch[e] \ {u \in S : sock[u].polled /\ sock[u].mux # 0}]

-----------------------------------------------------------------------------
(* The application.                                                        *)

NewSocket(u) ==
    /\ Running /\ u \in NextIds
    /\ Cardinality({v \in Sockets : sock[v].place # "none" /\ sock[v].parent = 0})
           < plan.opened
    /\ sock' = [sock EXCEPT ![u].place = "table"]
    /\ UNCHANGED <<queued, mux, acceptor, closers, epoll, fatal, plan>>

\* updateMux: the multiplexer of the port, if there is one, or a new one.
UseMux(u, m) ==
    /\ refs' = [refs EXCEPT ![m] = @ + 1]
    /\ sock' = [sock EXCEPT ![u].mux = m, ![u].st = "OPENED"]

\* All sockets are bound to one port, with UDT_REUSEADDR.
Bind(u) ==
    /\ Running /\ Located(u) /\ sock[u].st = "INIT" /\ ~InClose(u)
    /\ IF \E m \in Sockets : refs[m] > 0
       THEN \E m \in Sockets : refs[m] > 0 /\ UseMux(u, m)
       ELSE UseMux(u, u)
    /\ UNCHANGED <<queued, listener, worker, acceptor, closers, epoll, fatal, plan>>

Listen(u) ==
    /\ Running /\ plan.listens /\ Located(u) /\ sock[u].st = "OPENED" /\ ~InClose(u)
    /\ listener[sock[u].mux] = 0
    /\ listener' = [listener EXCEPT ![sock[u].mux] = u]
    /\ sock' = [sock EXCEPT ![u].st = "LISTENING"]
    /\ UNCHANGED <<queued, refs, worker, acceptor, closers, epoll, fatal, plan>>

\* An asynchronous connect of a socket that is bound.
Connect(u) ==
    /\ Running /\ plan.connects /\ Located(u) /\ sock[u].st = "OPENED" /\ ~InClose(u)
    /\ sock' = [sock EXCEPT ![u].st = "CONNECTING", ![u].connecting = TRUE]
    /\ UNCHANGED <<queued, mux, acceptor, closers, epoll, fatal, plan>>

\* accept() first locates the listener,
AcceptCall(a, u) ==
    /\ Running /\ a \in plan.acceptors /\ acceptor[a] = Nobody
    /\ Located(u) /\ sock[u].st = "LISTENING"
    /\ acceptor' = [acceptor EXCEPT ![a] = [pc |-> "try", who |-> u]]
    /\ UNCHANGED <<sock, queued, mux, closers, epoll, fatal, plan>>

\* Variant: whoever has taken a connection reports that there is none left.
NoneLeftAfterTake(q) == TRUE

NoneLeft(q) == q = {}

\* The report of an accept() that leaves u's queue as q.
Reported(u, q) ==
    /\ ready' = IF NoneLeft(q) THEN Disabled("IN", u, ready) ELSE ready
    /\ late' = IF NoneLeft(q) THEN late \ {u} ELSE late

\* and then, under m_AcceptLock, gives up if the listener is closed (the
\* thread calls no more: bound),
AcceptClosed(a) ==
    /\ Running /\ acceptor[a].pc = "try"
    /\ LET u == acceptor[a].who IN
       /\ sock[u].st # "LISTENING" \/ sock[u].broken
       /\ Reported(u, queued[u])
    /\ acceptor' = [acceptor EXCEPT ![a] = [pc |-> "done", who |-> 0]]
    /\ UNCHANGED <<sock, queued, mux, closers, adding, watch, fatal, plan>>

\* takes a socket,
AcceptTake(a) ==
    /\ Running /\ acceptor[a].pc = "try"
    /\ LET u == acceptor[a].who IN
       /\ sock[u].st = "LISTENING" /\ ~sock[u].broken
       /\ \E v \in queued[u] :
              /\ \A w \in queued[u] : v <= w
              /\ queued' = [queued EXCEPT ![u] = @ \ {v}]
              /\ Reported(u, queued[u] \ {v})
              /\ acceptor' = [acceptor EXCEPT ![a] = [pc |-> "peer", who |-> v]]
    /\ UNCHANGED <<sock, mux, closers, adding, watch, fatal, plan>>

\* returns empty-handed, if it must not block,
AcceptEmpty(a) ==
    /\ Running /\ acceptor[a].pc = "try" /\ ~plan.blocking
    /\ LET u == acceptor[a].who IN
       /\ sock[u].st = "LISTENING" /\ ~sock[u].broken /\ queued[u] = {}
       /\ Reported(u, {})
    /\ acceptor' = [acceptor EXCEPT ![a] = Nobody]
    /\ UNCHANGED <<sock, queued, mux, closers, adding, watch, fatal, plan>>

\* or waits.
AcceptWait(a) ==
    /\ Running /\ acceptor[a].pc = "try" /\ plan.blocking
    /\ LET u == acceptor[a].who IN
       sock[u].st = "LISTENING" /\ ~sock[u].broken /\ queued[u] = {}
    /\ acceptor' = [acceptor EXCEPT ![a].pc = "wait"]
    /\ UNCHANGED <<sock, queued, mux, closers, epoll, fatal, plan>>

\* Woken, it has the lock again and comes by the report.
AcceptWoken(a) ==
    /\ Running /\ acceptor[a].pc = "woken"
    /\ Reported(acceptor[a].who, queued[acceptor[a].who])
    /\ acceptor' = [acceptor EXCEPT ![a].pc = "try"]
    /\ UNCHANGED <<sock, queued, mux, closers, adding, watch, fatal, plan>>

\* With a socket, it locates it for the peer's address: the socket may have
\* been collected, and locate() has returned NULL.
AcceptReturn(a) ==
    /\ Running /\ acceptor[a].pc = "peer"
    /\ fatal' = IF Located(acceptor[a].who) THEN fatal ELSE "null"
    /\ acceptor' = [acceptor EXCEPT ![a] = Nobody]
    /\ UNCHANGED <<sock, queued, mux, closers, epoll, plan>>

\* close() of a listener only marks it,
CloseListener(u) ==
    /\ Running /\ Located(u) /\ sock[u].st = "LISTENING" /\ ~sock[u].broken
    /\ sock' = [sock EXCEPT ![u].broken = TRUE, ![u].aged = FALSE]
    /\ closers' = closers \cup {<<u, "broadcast">>}
    /\ UNCHANGED <<queued, mux, acceptor, epoll, fatal, plan>>

\* and then wakes all that wait for it.
CloseBroadcast(u) ==
    /\ Running /\ <<u, "broadcast">> \in closers
    /\ acceptor' = [a \in Acceptors |->
           IF acceptor[a] = [pc |-> "wait", who |-> u]
           THEN [pc |-> "woken", who |-> u] ELSE acceptor[a]]
    /\ closers' = closers \ {<<u, "broadcast">>}
    /\ UNCHANGED <<sock, queued, mux, epoll, fatal, plan>>

\* Any other socket is closed,
CloseSocket(u) ==
    /\ Running /\ Located(u) /\ sock[u].st # "LISTENING"
    /\ Held(u) /\ ~InClose(u)
    /\ sock' = [sock EXCEPT ![u] = Closed(@)]
    /\ watch' = Unwatched({u})
    /\ closers' = closers \cup {<<u, "move">>}
    /\ UNCHANGED <<queued, mux, acceptor, adding, ready, late, fatal, plan>>

\* or left to linger, if it sends asynchronously and has data,
CloseLingering(u) ==
    /\ Running /\ plan.lingers /\ Located(u) /\ Held(u) /\ ~InClose(u)
    /\ sock[u].connected /\ ~sock[u].broken
    /\ sock' = [sock EXCEPT ![u].linger = TRUE]
    /\ closers' = closers \cup {<<u, "move">>}
    /\ UNCHANGED <<queued, mux, acceptor, epoll, fatal, plan>>

\* and moved to m_ClosedSockets, unless the collector has done so.
CloseMove(u) ==
    /\ Running /\ <<u, "move">> \in closers
    /\ sock' = IF Located(u)
               THEN [sock EXCEPT ![u].st = "CLOSED", ![u].aged = FALSE,
                                 ![u].place = "closed"]
               ELSE sock
    /\ closers' = closers \ {<<u, "move">>}
    /\ UNCHANGED <<queued, mux, acceptor, epoll, fatal, plan>>

-----------------------------------------------------------------------------
(* The receiving worker of a multiplexer: a request to the listener.       *)

\* It reads m_pListener, without m_LSLock,
Request(m) ==
    /\ Running /\ worker[m] = Idle /\ listener[m] # 0
    /\ ~sock[listener[m]].closing
    /\ worker' = [worker EXCEPT ![m] = [pc |-> "listen", who |-> listener[m], new |-> 0]]
    /\ UNCHANGED <<sock, queued, listener, refs, acceptor, closers, epoll, fatal, plan>>

\* and calls it: meanwhile the collector may have deleted it.
Freed(m) ==
    /\ Running /\ worker[m].pc = "listen"
    /\ sock[worker[m].who].place = "deleted"
    /\ fatal' = "freed"
    /\ UNCHANGED <<sock, queued, mux, acceptor, closers, epoll, plan>>

Full(q) == Cardinality(q) >= Backlog

\* newConnection has located the listener.
Found(m) == \/ worker[m].pc = "replaced"
            \/ worker[m].pc = "listen" /\ Located(worker[m].who)

\* newConnection: a broken socket of the same request is marked closed,
Replace(m, v) ==
    /\ Running /\ worker[m].pc = "listen"
    /\ LET l == worker[m].who IN
       /\ Located(l) /\ v \in InTable
       /\ sock[v].parent = l /\ sock[v].broken /\ sock[v].st # "CLOSED"
       /\ sock' = [sock EXCEPT ![v].st = "CLOSED", ![v].aged = FALSE]
       /\ queued' = [queued EXCEPT ![l] = @ \ {v}]
    /\ worker' = [worker EXCEPT ![m].pc = "replaced"]
    /\ UNCHANGED <<listener, refs, acceptor, closers, epoll, fatal, plan>>

\* the request is refused (also when the bound on sockets is reached),
Refuse(m) ==
    /\ Running /\ worker[m].pc \in {"listen", "replaced"}
    /\ sock[worker[m].who].place # "deleted"
    /\ Found(m) => Full(queued[worker[m].who]) \/ NextIds = {}
    /\ worker' = [worker EXCEPT ![m] = Idle]
    /\ UNCHANGED <<sock, queued, listener, refs, acceptor, closers, epoll, fatal, plan>>

\* or a new socket is made,
Make(m) ==
    /\ Running /\ Found(m)
    /\ LET l == worker[m].who IN
       /\ ~Full(queued[l])
       /\ \E v \in NextIds :
              /\ sock' = [sock EXCEPT ![v] = [@ EXCEPT !.place = "born", !.parent = l]]
              /\ worker' = [worker EXCEPT ![m] = [@ EXCEPT !.pc = "make", !.new = v]]
    /\ UNCHANGED <<queued, listener, refs, acceptor, closers, epoll, fatal, plan>>

\* that shares the listener's multiplexer and is connected,
MakeConnected(m) ==
    /\ Running /\ worker[m].pc = "make"
    /\ LET v == worker[m].new  n == sock[worker[m].who].mux IN
       /\ refs' = [refs EXCEPT ![n] = @ + 1]
       /\ sock' = [sock EXCEPT ![v] =
                       [@ EXCEPT !.mux = n, !.connected = TRUE,
                                 !.onList = TRUE, !.st = "CONNECTED"]]
    /\ worker' = [worker EXCEPT ![m].pc = "table"]
    /\ UNCHANGED <<queued, listener, acceptor, closers, epoll, fatal, plan>>

\* or an exception leaves it in no table, closed, before it has a part in the
\* multiplexer or after, and perhaps on the worker's list: nobody removes it.
\* (The maps' own exceptions, error 2 and 3, are left out.)
MakeFails(m) ==
    /\ Running /\ plan.fails /\ worker[m].pc = "make"
    /\ LET v == worker[m].new  n == sock[worker[m].who].mux IN
       \/ /\ sock' = [sock EXCEPT ![v].st = "CLOSED"]
          /\ UNCHANGED refs
       \/ /\ refs' = [refs EXCEPT ![n] = @ + 1]
          /\ \E listed \in BOOLEAN :
                 sock' = [sock EXCEPT ![v] =
                             [@ EXCEPT !.mux = n, !.closing = TRUE,
                                       !.onList = listed, !.st = "CLOSED"]]
    /\ worker' = [worker EXCEPT ![m] = Idle]
    /\ UNCHANGED <<queued, listener, acceptor, closers, epoll, fatal, plan>>

\* entered in m_Sockets,
EnterTable(m) ==
    /\ Running /\ worker[m].pc = "table"
    /\ sock' = [sock EXCEPT ![worker[m].new].place = "table"]
    /\ worker' = [worker EXCEPT ![m].pc = "queue"]
    /\ UNCHANGED <<queued, listener, refs, acceptor, closers, epoll, fatal, plan>>

\* and in the listener's queue.
EnterQueue(m) ==
    /\ Running /\ worker[m].pc = "queue"
    /\ queued' = [queued EXCEPT ![worker[m].who] = @ \cup {worker[m].new}]
    /\ worker' = [worker EXCEPT ![m].pc = "events"]
    /\ UNCHANGED <<sock, listener, refs, acceptor, closers, epoll, fatal, plan>>

\* The pollers are told,
TellPollers(m) ==
    /\ Running /\ worker[m].pc = "events"
    /\ ready' = Enabled("IN", worker[m].who, ready)
    /\ worker' = [worker EXCEPT ![m].pc = "signal"]
    /\ UNCHANGED <<sock, queued, listener, refs, acceptor, closers, adding,
                   watch, late, fatal, plan>>

Waiting(u) == {a \in Acceptors : acceptor[a] = [pc |-> "wait", who |-> u]}

\* Variant: accept() is only woken for the first connection in the queue.
MustWakeFirst(u) == Waiting(u) # {} /\ Cardinality(queued[u]) <= 1

MustWake(u) == Waiting(u) # {}

\* and one accept() is woken; last, CUDT::listen has an event of its own.
SignalAccept(m) ==
    /\ Running /\ worker[m].pc = "signal"
    /\ LET u == worker[m].who IN
       /\ IF MustWake(u)
          THEN \E a \in Waiting(u) : acceptor' = [acceptor EXCEPT ![a].pc = "woken"]
          ELSE UNCHANGED acceptor
       /\ ready' = Enabled("OUT", u, ready)
    /\ worker' = [worker EXCEPT ![m] = Idle]
    /\ UNCHANGED <<sock, queued, listener, refs, closers, adding, watch, late, fatal, plan>>

-----------------------------------------------------------------------------
(* The receiving worker: the answer to an asynchronous connect.            *)

\* retrieve() finds the socket in the rendezvous queue,
Answered(u) ==
    /\ Running /\ sock[u].connecting /\ worker[sock[u].mux] = Idle
    /\ worker' = [worker EXCEPT ![sock[u].mux] =
                      [pc |-> "answered", who |-> u, new |-> 0]]
    /\ UNCHANGED <<sock, queued, listener, refs, acceptor, closers, epoll, fatal, plan>>

\* connect(response) makes the connection: m_bConnecting was set when it
\* looked, and that the socket is closing it does not ask,
Establish(m) ==
    /\ Running /\ worker[m].pc = "answered"
    /\ sock' = [sock EXCEPT ![worker[m].who] =
                    [@ EXCEPT !.connecting = FALSE, !.connected = TRUE, !.onList = TRUE]]
    /\ worker' = [worker EXCEPT ![m].pc = "complete"]
    /\ UNCHANGED <<queued, listener, refs, acceptor, closers, epoll, fatal, plan>>

\* tells connect_complete, which throws if it cannot locate the socket: the
\* exception leaves a function declared throw(),
Complete(m) ==
    /\ Running /\ worker[m].pc = "complete"
    /\ LET u == worker[m].who IN
       IF Located(u)
       THEN /\ sock' = [sock EXCEPT ![u].st = "CONNECTED"]
            /\ worker' = [worker EXCEPT ![m].pc = "report"]
            /\ UNCHANGED fatal
       ELSE fatal' = "thrown" /\ UNCHANGED <<sock, worker>>
    /\ UNCHANGED <<queued, listener, refs, acceptor, closers, epoll, plan>>

\* and the pollers.
Report(m) ==
    /\ Running /\ worker[m].pc = "report"
    /\ ready' = Enabled("OUT", worker[m].who, ready)
    /\ worker' = [worker EXCEPT ![m] = Idle]
    /\ UNCHANGED <<sock, queued, listener, refs, acceptor, closers, adding,
                   watch, late, fatal, plan>>

\* The peer is gone: checkTimers tells the pollers, a shutdown does not.
Break(u) ==
    /\ Running /\ sock[u].onList /\ worker[sock[u].mux] = Idle
    /\ Cardinality({v \in Sockets : sock[v].broken /\ sock[v].st # "LISTENING"})
           < plan.breaks
    /\ sock[u].connected /\ ~sock[u].broken /\ ~sock[u].closing
    /\ sock' = [sock EXCEPT ![u].broken = TRUE, ![u].closing = TRUE]
    /\ \/ ready' = Enabled("OUT", u, Enabled("IN", u, ready))
       \/ UNCHANGED ready
    /\ UNCHANGED <<queued, mux, acceptor, closers, adding, watch, late, fatal, plan>>

\* Variant: the worker keeps all that are not broken on its list.
LeavesBroken(k) == k.broken

Leaves(k) == k.broken \/ k.closing \/ ~k.connected

\* The worker takes a socket off its list.
DropFromList(u) ==
    /\ Running /\ sock[u].onList /\ worker[sock[u].mux] = Idle /\ Leaves(sock[u])
    /\ sock' = [sock EXCEPT ![u].onList = FALSE]
    /\ UNCHANGED <<queued, mux, acceptor, closers, epoll, fatal, plan>>

-----------------------------------------------------------------------------
(* The collector.                                                          *)

\* A call that works with u.
InCall(u) ==
    \/ InClose(u) \/ adding.who = u
    \/ \E a \in Acceptors : acceptor[a].who = u /\ acceptor[a].pc # "peer"
    \/ \E m \in Sockets : /\ worker[m].pc \notin {"idle", "listen"}
                          /\ u \in {worker[m].who, worker[m].new}

\* A second since the socket was closed, three since its listener was.
Age(u) ==
    /\ Running /\ ~sock[u].aged /\ ~InCall(u)
    /\ \/ sock[u].place = "closed"
       \/ u \in InTable /\ sock[u].st = "LISTENING" /\ sock[u].broken
    /\ sock' = [sock EXCEPT ![u].aged = TRUE]
    /\ UNCHANGED <<queued, mux, acceptor, closers, epoll, fatal, plan>>

\* Broken sockets; one with unread data can be spared for some sweeps.
ToBeClosed(spared) ==
    {u \in InTable : /\ sock[u].broken /\ u \notin spared
                     /\ sock[u].st = "LISTENING" => sock[u].aged}

Lingers(u) == sock[u].place = "closed" /\ sock[u].linger

ToBeRemoved(done) ==
    {u \in Sockets : /\ sock[u].place = "closed" /\ sock[u].aged
                     /\ ~sock[u].onList /\ u \notin done}

\* Variant: a listener's queue keeps the sockets the collector closes.
QueueLeftAsIs(l, tbc) == queued[l]

QueueLeft(l, tbc) == queued[l] \ tbc

\* The un-accepted sockets of listeners that are removed.
Orphans(tbc, tbr) == UNION {QueueLeft(l, tbc) : l \in tbr}

\* Variant: a multiplexer is given up by sockets that are closed, too.
GiveUpMuxClosed(tbc, tbr) == tbc \cup tbr

\* The sockets that give up their multiplexer.
GiveUpMux(tbc, tbr) == tbr

\* removeSocket, as it leaves k.
Removed(k) == [Unborn EXCEPT !.place = "deleted", !.parent = k.parent]

Collected(u, tbc, done, tbr) ==
    LET k == sock[u] IN
    CASE u \in tbr -> Removed(k)
      [] u \in Orphans(tbc, tbr) ->
             [Closed(k) EXCEPT !.broken = TRUE, !.st = "CLOSED",
                               !.place = "closed", !.aged = FALSE]
      [] u \in tbc -> [k EXCEPT !.st = "CLOSED", !.place = "closed", !.aged = FALSE]
      [] u \in done ->
             [k EXCEPT !.linger = FALSE, !.closing = TRUE, !.aged = FALSE]
      [] OTHER -> k

\* checkBrokenSockets: done are the lingering sockets with nothing left to
\* send, or whose time is over.
Sweep(spared, done) ==
    LET tbc == ToBeClosed(spared)
        tbr == ToBeRemoved(done)
        orphans == Orphans(tbc, tbr)
    IN  /\ Running
        /\ tbc \cup tbr \cup done # {}
        /\ sock' = [u \in Sockets |-> Collected(u, tbc, done, tbr)]
        /\ queued' = [l \in Sockets |-> IF l \in tbr THEN {} ELSE QueueLeft(l, tbc)]
        /\ listener' = WithoutListeners(tbr)
        /\ refs' = [m \in Sockets |-> refs[m] - Cardinality({u \in GiveUpMux(tbc, tbr) : sock[u].mux = m})]
        /\ watch' = Unwatched(tbr \cup orphans)
        /\ late' = late \ tbr
        /\ UNCHANGED <<worker, acceptor, closers, adding, ready, fatal, plan>>

\* What has been connected can have unread data.
Sparable == {u \in InTable : sock[u].broken /\ sock[u].connected}

LingersNow == {u \in Sockets : Lingers(u)}

Collect == \E spared \in SUBSET Sparable, done \in SUBSET LingersNow : Sweep(spared, done)

-----------------------------------------------------------------------------
Application ==
    \/ \E u \in Sockets :
           \/ NewSocket(u) \/ Bind(u) \/ Listen(u) \/ Connect(u)
           \/ AddWatch(u) \/ RemoveUsock(u)
           \/ CloseListener(u) \/ CloseSocket(u) \/ CloseLingering(u)
           \/ \E a \in Acceptors : AcceptCall(a, u)

CloseStep(u) == CloseBroadcast(u) \/ CloseMove(u)

AcceptStep(a) == \/ AcceptClosed(a) \/ AcceptTake(a) \/ AcceptEmpty(a)
                 \/ AcceptWait(a) \/ AcceptWoken(a) \/ AcceptReturn(a)

WorkerStep(m) ==
    \/ Freed(m) \/ Refuse(m) \/ Make(m) \/ MakeConnected(m) \/ MakeFails(m)
    \/ EnterTable(m) \/ EnterQueue(m) \/ TellPollers(m) \/ SignalAccept(m)
    \/ Establish(m) \/ Complete(m) \/ Report(m)

Arrivals ==
    \/ \E m \in Sockets : Request(m) \/ \E v \in Sockets : Replace(m, v)
    \/ \E u \in Sockets : Answered(u) \/ Break(u)

Next ==
    \/ Application \/ AddId \/ AddState \/ Arrivals
    \/ \E a \in Acceptors : AcceptStep(a)
    \/ \E m \in Sockets : WorkerStep(m)
    \/ \E u \in Sockets : CloseStep(u) \/ DropFromList(u) \/ Age(u)
    \/ Collect

\* Calls and the worker's steps end.  The worker looks at its list after
\* every packet, time passes whatever calls are made, and the collector
\* sweeps every second; it spares a socket 30 times and lets it linger for
\* a time only.  (What happens to a socket only a few times needs no
\* condition of its own for each.)
Fairness ==
    /\ WF_vars(AddId \/ AddState)
    /\ \A a \in Acceptors : WF_vars(AcceptStep(a))
    /\ \A m \in Sockets : WF_vars(WorkerStep(m))
    /\ WF_vars(\E u \in Sockets : CloseStep(u))
    /\ SF_vars(\E u \in Sockets : DropFromList(u))
    /\ SF_vars(\E u \in Sockets : Age(u))
    /\ WF_vars(Sweep({}, LingersNow))

Spec == Init /\ [][Next]_vars

FairSpec == Spec /\ Fairness

-----------------------------------------------------------------------------
(* What it promises.                                                       *)

Existing == {u \in Sockets : sock[u].place \in {"born", "table", "closed"}}

\* A multiplexer counts the sockets that use it, so it goes with the last of
\* them and no sooner (api.cpp:1297).
MuxCountExact ==
    \A m \in Sockets : refs[m] = Cardinality({u \in Existing : sock[u].mux = m})

\* A socket that waits for accept() is in m_Sockets, where removeSocket takes
\* it from without a look (api.cpp:1272) and accept()'s caller looks for it.
QueuedInTable == \A l \in Sockets : queued[l] \subseteq InTable

\* A poller that watches a listener is told of connections that wait, unless
\* they waited when it began to watch (api.cpp:416, 650).
NoLostAccept ==
    \A l \in watch["IN"] :
        /\ sock[l].polled /\ Located(l) /\ ~sock[l].broken /\ queued[l] # {}
        /\ \A m \in Sockets : worker[m].pc = "events" => worker[m].who # l
        => l \in ready["IN"] \cup late

\* A poller that watches a socket is told of its connection, be it made
\* before, after or while the socket is added (core.cpp:810, 2646).
ConnectReported ==
    \A u \in watch["OUT"] :
        /\ sock[u].polled /\ sock[u].connected
        /\ ~sock[u].broken /\ ~sock[u].closing
        /\ adding.who # u
        /\ \A m \in Sockets : worker[m].pc \in {"complete", "report"} => worker[m].who # u
        => u \in ready["OUT"]

\* Who waits in accept() while there is a connection, or no listener any
\* more, can rely on somebody: a thread that has the lock next, the worker
\* that is about to signal, or the close() that is (api.cpp:429, 827).
NoAcceptorStranded ==
    \A a \in Acceptors : LET u == acceptor[a].who IN
        acceptor[a].pc = "wait" /\ (queued[u] # {} \/ sock[u].broken) =>
            \/ \E b \in Acceptors : acceptor[b] \in {[pc |-> p, who |-> u] : p \in {"try", "woken"}}
            \/ \E m \in Sockets : worker[m].who = u /\ worker[m].pc \in {"events", "signal"}
            \/ <<u, "broadcast">> \in closers

\* What the application has closed, and what has broken, is removed and its
\* multiplexer with it, unless the process has ended before.
ClosedIsRemoved ==
    \A u \in Sockets :
        (sock[u].place = "closed" \/ sock[u].broken)
            ~> (sock[u].place = "deleted" \/ fatal # "no")

=============================================================================
