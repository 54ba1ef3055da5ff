------------------------------- MODULE Connect -------------------------------
(***************************************************************************)
(* How two ends set up a connection: CUDT::connect (its two halves and the *)
(* server's), CUDT::listen, CUDTUnited::newConnection, the handshakes a    *)
(* connected socket answers, CRendezvousQueue, and CRcvQueue, which gives  *)
(* a packet to a socket or stores it for a connect() that waits.           *)
(*                                                                         *)
(* In regular mode all Clients are sockets of host "a", and host "b" has a *)
(* listener.  In rendezvous mode there is a client on each host.           *)
(*                                                                         *)
(* The network is the set of packets ever sent: any of them may arrive     *)
(* never, late, twice or after later ones.  The listener's handlers are    *)
(* one step each: what happens between their locks is in United.           *)
(***************************************************************************)
EXTENDS Integers, Sequences, FiniteSets, Functions

CONSTANTS Clients,     \* ids of the sockets that connect
          ServerIds,   \* ids left for the listener's new sockets
          HalfISN,     \* 2^30, half of the sequence numbers
          MSS,         \* m_iMSS of the sockets of each host
          Backlog,     \* m_uiBackLog
          StoreLimit,  \* 16: more packets than this are not stored
          Scenarios    \* bound: the settings and inputs looked at

Hosts == {"a", "b"}

ASSUME ConnectAssumption ==
    /\ Clients \subseteq Nat \ {0} /\ ServerIds \subseteq Nat \ {0}
    /\ HalfISN \in Nat \ {0}
    /\ MSS \in [Hosts -> Nat] /\ Backlog \in Nat \ {0} /\ StoreLimit \in Nat
    /\ \A s \in Scenarios :
           /\ s.rendezvous \in BOOLEAN
           /\ s.draws \in [Clients -> Seq(0 .. (2 * HalfISN - 1))]
           /\ s.sync \subseteq Clients /\ s.wrong \subseteq Clients
           /\ s.minutes \in Nat /\ s.breaks \in BOOLEAN

VARIABLES
    scenario,    \* what is fixed from the start: see below
    client,      \* the fields of each client's CUDT, and its connect() call
    status,      \* the listener's sockets: absent, live, broken or gone
    server,      \* m_PeerID, m_iISN and m_iMSS of those it made
    queued,      \* m_pQueuedSockets of the listener
    minute,      \* its cookie's time stamp
    net          \* packets sent

vars == <<scenario, client, status, server, queued, minute, net>>

\* Of a scenario: m_bRendezvous of the clients, what rand() has in store for
\* their connect() calls, the clients with m_bSynRecving, those of another
\* m_iSockType than the listener's, the minutes that pass, and whether the
\* connections of the listener may break.
rendezvous == scenario.rendezvous
draws == scenario.draws

Host(c) ==
    IF rendezvous /\ \E d \in Clients : d > c THEN "b" ELSE "a"
Other(h) == IF h = "a" THEN "b" ELSE "a"

NoServer == [peer |-> 0, reqISN |-> 0, mss |-> 0]

\* A handshake: m_iReqType, m_iID, m_iISN, m_iMSS, m_iCookie.
NoHandshake ==
    [kind |-> "none", req |-> 0, sid |-> 0, isn |-> 0, mss |-> 0, cookie |-> 0]
Handshake(to, id, req, sid, isn, mss, cookie) ==
    [kind |-> "hs", to |-> to, id |-> id, req |-> req,
     sid |-> sid, isn |-> isn, mss |-> mss, cookie |-> cookie]

\* Data, or the keep-alive of an idle connection.
Traffic(to, id) == [kind |-> "traffic", to |-> to, id |-> id]

Rejected == 1002
NoCookie == -1

InitClient(c, sync) ==
    [pc |-> "idle", sync |-> sync, result |-> "none", attempts |-> 0,
     connecting |-> FALSE, connected |-> FALSE, closed |-> FALSE,
     entries |-> <<>>, stored |-> <<>>,
     req |-> 1, cookie |-> NoCookie, isn |-> 0, mss |-> MSS[Host(c)],
     res |-> NoHandshake, peer |-> 0, peerISN |-> 0]

Init ==
    /\ scenario \in Scenarios
    /\ client = [c \in Clients |-> InitClient(c, c \in scenario.sync)]
    /\ status = [s \in ServerIds |-> "absent"]
    /\ server = [s \in ServerIds |-> NoServer]
    /\ queued = {} /\ minute = 0 /\ net = {}

-----------------------------------------------------------------------------
(* connect(), the first half, in the application's thread.                 *)

\* What the client asks in its present state.  Only a rendezvous client
\* addresses the socket it has heard of.
Request(c, k) ==
    Handshake(Other(Host(c)), IF rendezvous THEN k.res.sid ELSE 0,
              k.req, c, k.isn, MSS[Host(c)], k.cookie)

\* The entries of the socket in m_lRendezvousID, oldest first, each with
\* whether its m_ullTTL has passed.  remove() takes the oldest.
Registered(k) == k.entries # <<>>
Expired(k) == Registered(k) /\ k.entries[Len(k.entries)]
Unregistered(k) ==
    [k EXCEPT !.entries = IF @ = <<>> THEN @ ELSE Tail(@), !.stored = <<>>]

\* A socket that never connected, or whose blocking connect() failed.
MayConnect(k) ==
    /\ ~k.closed /\ ~k.connecting /\ ~k.connected
    /\ \/ k.pc = "idle"
       \/ k.pc = "done" /\ k.sync /\ k.result # "success"

\* registerConnector and the first request.
ConnectBegin(c) ==
    /\ MayConnect(client[c]) /\ client[c].attempts < Len(draws[c])
    /\ LET n == client[c].attempts + 1
           k == [client[c] EXCEPT
                    !.pc = "sent", !.attempts = n, !.isn = draws[c][n],
                    !.req = IF rendezvous THEN 0 ELSE 1,
                    !.entries = Append(@, FALSE)]
       IN  /\ client' = [client EXCEPT ![c] = k]
           /\ net' = net \cup {[Request(c, k) EXCEPT !.id = 0]}
    /\ UNCHANGED <<scenario, status, server, queued, minute>>

\* m_bConnecting is set after the request is out.
ConnectReady(c) ==
    /\ client[c].pc = "sent"
    /\ client' = [client EXCEPT ![c].connecting = TRUE,
                                ![c].pc = IF client[c].sync THEN "wait" ELSE "done",
                                ![c].result = IF client[c].sync THEN "none" ELSE "background"]
    /\ UNCHANGED <<scenario, status, server, queued, minute, net>>

\* The loop of a blocking connect(), and updateConnStatus for the sockets of
\* the queue, ask again at once after an answer and then every 250 ms.  A
\* connected socket sends data or keep-alives; those that a regular client
\* sends to its server change nothing here.
Sends(c, k) ==
    IF k.connected
    THEN IF rendezvous THEN {Traffic(Other(Host(c)), k.peer)} ELSE {}
    ELSE IF FALSE \in Range(k.entries) THEN {Request(c, k)} ELSE {}

\* The client goes on as k.
Becomes(c, k) ==
    /\ client' = [client EXCEPT ![c] = k]
    /\ net' = net \cup Sends(c, k)
    /\ UNCHANGED <<scenario, status, server, queued, minute>>

\* The 3 seconds of a connection, or the 30 of a rendezvous, go by.
TimePasses(c) ==
    /\ client[c].pc # "sent" /\ FALSE \in Range(client[c].entries)
    /\ client' = [client EXCEPT ![c].entries = [i \in DOMAIN @ |-> TRUE]]
    /\ UNCHANGED <<scenario, status, server, queued, minute, net>>

\* updateConnStatus gives the connection up.  The entry stays in the queue,
\* and gives up the next attempt of the socket too.
ConnTimer(c) ==
    /\ TRUE \in Range(client[c].entries) /\ client[c].connecting
    /\ client' = [client EXCEPT ![c].connecting = FALSE]
    /\ UNCHANGED <<scenario, status, server, queued, minute, net>>

-----------------------------------------------------------------------------
(* connect(response), the second half, in the thread of the application or *)
(* of the receiving worker.                                                *)

Established(k) ==
    [Unregistered(k) EXCEPT
              !.mss = k.res.mss, !.peerISN = k.res.isn, !.peer = k.res.sid,
              !.connecting = FALSE, !.connected = TRUE]

Heard(k, m) == [k EXCEPT !.res = m]

AskAgain(k) == [k EXCEPT !.req = -1]

AskWithCookie(k) == [AskAgain(k) EXCEPT !.cookie = k.res.cookie]

\* m_iType is set in a request; a connected socket that answers leaves it 0.
HasType(h) == h.kind = "hs" /\ h.req # -2

\* Variant: whatever handshake comes completes a rendezvous connection.
ResponseTwoWay(k, m) ==
    IF ~k.connecting \/ m.kind # "hs" THEN [code |-> -1, k |-> k]
    ELSE [code |-> 0, k |-> Established(Heard(k, m))]

\* The answer of connect(response): 0 connected, 1 in progress, -1 an error,
\* and the socket after it.
Response(k, m) ==
    LET h == Heard(k, m) IN
    IF ~k.connecting THEN [code |-> -1, k |-> k]
    ELSE IF m.kind # "hs"
    THEN IF rendezvous /\ HasType(k.res)
         THEN [code |-> 0, k |-> Established(k)]
         ELSE [code |-> -1, k |-> k]
    ELSE IF rendezvous
    THEN IF m.req = 1 THEN [code |-> -1, k |-> h]
         ELSE IF k.req = 0 \/ m.req = 0 THEN [code |-> 1, k |-> AskAgain(h)]
         ELSE [code |-> 0, k |-> Established(h)]
    ELSE IF m.req = 1 THEN [code |-> 1, k |-> AskWithCookie(h)]
    ELSE [code |-> 0, k |-> Established(h)]

\* Variant: the answer to a request of another connect() call is taken.
VerdictUnchecked(k) ==
    IF k.res.req = Rejected THEN "rejected" ELSE "success"

\* What a blocking connect() reports once its loop ends without a time-out.
Verdict(k) ==
    IF k.res.req = Rejected THEN "rejected"
    ELSE IF ~rendezvous /\ k.isn # k.res.isn THEN "insecure"
    ELSE "success"

\* A blocking connect() takes the first packet stored for it.
LoopTake(c) ==
    /\ client[c].pc = "wait" /\ client[c].stored # <<>>
    /\ LET k == [client[c] EXCEPT !.stored = Tail(@)]
           r == Response(k, Head(client[c].stored))
       IN  Becomes(c, IF r.code = 1 THEN r.k
                      ELSE [r.k EXCEPT !.pc = "done", !.result = Verdict(r.k)])

\* It gives up, and leaves m_bConnecting and the queue as they are.
LoopTimeout(c) ==
    /\ client[c].pc = "wait" /\ Expired(client[c])
    /\ client' = [client EXCEPT ![c].pc = "done", ![c].result = "timeout"]
    /\ UNCHANGED <<scenario, status, server, queued, minute, net>>

\* close(): it waits for the lock a connect() call of the socket holds.
Close(c) ==
    /\ client[c].pc \in {"idle", "done"} /\ ~client[c].closed
    /\ LET k == client[c] IN
       client' = [client EXCEPT ![c] =
           [(IF k.connecting THEN Unregistered(k) ELSE k)
               EXCEPT !.closed = TRUE, !.connected = FALSE]]
    /\ UNCHANGED <<scenario, status, server, queued, minute, net>>

-----------------------------------------------------------------------------
(* CRcvQueue::worker on a client's host.                                   *)

\* A pending connection takes the packets that name it, and those that name
\* nobody.
Retrieve(c, id) == Registered(client[c]) /\ id \in {0, c}

Stored(k, m) ==
    IF k.stored # <<>> /\ Len(k.stored) > StoreLimit THEN k
    ELSE [k EXCEPT !.stored = Append(@, m)]

\* The first entry of the queue that fits; clients of one host are entered in
\* any order, but only rendezvous clients are asked without an id.
Deliver(c, m) ==
    /\ m \in net /\ m.to = Host(c)
    /\ ~client[c].connected /\ Retrieve(c, m.id)
    /\ Becomes(c, IF client[c].sync THEN Stored(client[c], m)
                  ELSE Response(client[c], m).k)

\* Variant: the number of the peer is sent back, as a server does.
AnswerPeerNumber(c) ==
    Handshake(Other(Host(c)), client[c].peer, IF rendezvous THEN -2 ELSE -1,
              c, client[c].peerISN, client[c].mss, NoCookie)

Answer(c) ==
    Handshake(Other(Host(c)), client[c].peer, IF rendezvous THEN -2 ELSE -1,
              c, client[c].isn, client[c].mss, NoCookie)

\* A connected socket answers handshakes: processCtrl, type 0.
AnswerAgain(c, m) ==
    /\ m \in net /\ m.to = Host(c) /\ m.id = c /\ m.kind = "hs"
    /\ client[c].connected
    /\ m.req > 0 \/ (rendezvous /\ m.req # -2)
    /\ net' = net \cup {Answer(c)}
    /\ UNCHANGED <<scenario, client, status, server, queued, minute>>

-----------------------------------------------------------------------------
(* The listener.                                                           *)

\* m_SocketID counts down, so that a set begins with its newest socket.
Newest(S) == {s \in S : \A t \in S : s <= t}

\* The key of m_PeerRec, (id << 30) + isn in 32 bits.
PeerKey(id, isn) == (id * HalfISN + isn) % (4 * HalfISN)

\* The sockets still in m_Sockets with that key.  All clients share an
\* address.
Known(id, isn) ==
    {s \in ServerIds : /\ status[s] \in {"live", "broken"}
                       /\ PeerKey(server[s].peer, server[s].reqISN) = PeerKey(id, isn)}

\* locate(peer, id, isn): a set of one socket, or none.
Located(m) == Newest(Known(m.sid, m.isn))

Unused == {s \in ServerIds : status[s] = "absent"}

\* Variant: a repeated request is answered by a new connection.
RepeatedNever(m) == FALSE

Repeated(m) == \E s \in Located(m) : status[s] = "live"

\* The queue without a broken connection of the same request.
Cleared(m) == queued \ Located(m)

Reply(m, req, sid, isn, mss) ==
    Handshake("a", m.sid, req, sid, isn, mss, m.cookie)

\* newConnection for a request that was answered before.
AnswerRepeated(m) ==
    /\ Repeated(m)
    /\ \E s \in Located(m) :
           net' = net \cup {Reply(m, -1, s, server[s].reqISN, server[s].mss)}
    /\ UNCHANGED <<status, server, queued>>

Refuse(m) == net' = net \cup {Reply(m, Rejected, m.sid, m.isn, m.mss)}

AnswerFull(m) ==
    /\ ~Repeated(m) /\ Cardinality(Cleared(m)) >= Backlog
    /\ queued' = Cleared(m)
    /\ Refuse(m)
    /\ UNCHANGED <<status, server>>

Smaller(x, y) == IF x < y THEN x ELSE y

\* A new socket takes the smaller packet size and the client's number.  It
\* talks to its peer without waiting for it.
AnswerNew(m) ==
    /\ ~Repeated(m) /\ Cardinality(Cleared(m)) < Backlog
    /\ \E s \in Unused :
           LET mss == Smaller(MSS["b"], m.mss) IN
           /\ \A t \in Unused : t <= s
           /\ status' = [status EXCEPT ![s] = "live"]
           /\ server' = [server EXCEPT ![s] =
                  [peer |-> m.sid, reqISN |-> m.isn, mss |-> mss]]
           /\ queued' = Cleared(m) \cup {s}
           /\ net' = net \cup
                  {Reply(m, -1, s, m.isn, mss), Traffic("a", m.sid)}

\* CUDT::listen.  Each minute has its cookie; that of the minute before is
\* looked for, but in a string that still begins with the present one.
ListenerRecv(m) ==
    /\ ~rendezvous /\ m \in net /\ m.kind = "hs" /\ m.to = "b" /\ m.id = 0
    /\ \/ /\ m.req = 1
          /\ net' = net \cup {[Reply(m, 1, m.sid, m.isn, m.mss) EXCEPT !.cookie = minute]}
          /\ UNCHANGED <<status, server, queued>>
       \/ /\ m.req # 1 /\ m.cookie = minute
          /\ m.sid \in scenario.wrong
          /\ Refuse(m)
          /\ UNCHANGED <<status, server, queued>>
       \/ /\ m.req # 1 /\ m.cookie = minute
          /\ m.sid \notin scenario.wrong
          /\ AnswerRepeated(m) \/ AnswerFull(m) \/ AnswerNew(m)
    /\ UNCHANGED <<scenario, client, minute>>

MinutePasses ==
    /\ ~rendezvous /\ minute < scenario.minutes
    /\ minute' = minute + 1
    /\ UNCHANGED <<scenario, client, status, server, queued, net>>

Accept ==
    /\ queued # {}
    /\ queued' = queued \ Newest(queued)
    /\ UNCHANGED <<scenario, client, status, server, minute, net>>

\* The connection breaks, and is collected some time after.
Break(s) ==
    /\ status[s] = "live" /\ scenario.breaks
    /\ status' = [status EXCEPT ![s] = "broken"]
    /\ UNCHANGED <<scenario, client, server, queued, minute, net>>

Collect(s) ==
    /\ status[s] = "broken"
    /\ status' = [status EXCEPT ![s] = "gone"]
    /\ queued' = queued \ {s}
    /\ UNCHANGED <<scenario, client, server, minute, net>>

-----------------------------------------------------------------------------
Next ==
    \/ \E c \in Clients :
           \/ ConnectBegin(c) \/ ConnectReady(c) \/ TimePasses(c) \/ ConnTimer(c)
           \/ LoopTake(c) \/ LoopTimeout(c) \/ Close(c)
           \/ \E m \in net : Deliver(c, m) \/ AnswerAgain(c, m)
    \/ \E m \in net : ListenerRecv(m)
    \/ \E s \in ServerIds : Break(s) \/ Collect(s)
    \/ Accept \/ MinutePasses

Spec == Init /\ [][Next]_vars

\* d's request is repeated every 250 ms until d has its answer, so c gets it
\* again and again, and d what c answers.
Repeating(d) == FALSE \in Range(client[d].entries)

Fairness ==
    \A c, d \in Clients :
        c # d =>
            /\ WF_vars(ConnectReady(c)) /\ WF_vars(LoopTake(c))
            /\ SF_vars(Repeating(d) /\ Deliver(c, Request(d, client[d])))
            /\ SF_vars(Repeating(d) /\ AnswerAgain(c, Request(d, client[d])))
            /\ SF_vars(Repeating(d) /\ Deliver(d, Answer(c)))

FairSpec == Spec /\ Fairness
-----------------------------------------------------------------------------
(* Properties.                                                             *)

\* What the agreement of the two ends rests on.  No client draws the number of
\* another that has a key of its own requests: the key keeps two bits of the
\* id, and the listener compares nothing else.  A rendezvous is one of two.
NoTwins ==
    \A z \in Scenarios : \A c, d \in Clients :
        (~z.rendezvous /\ c # d) =>
            \A x, y \in Range(z.draws[c]) :
                y \in Range(z.draws[d]) => PeerKey(c, x) # PeerKey(d, y)
Pairs ==
    \A z \in Scenarios :
        z.rendezvous => \A c, d, e \in Clients : c = d \/ c = e \/ d = e

\* A blocking connect() that returns with its socket connected has the peer
\* it asked for: a socket the listener made for this very request, with the
\* same initial number and the same packet size, whatever old, repeated or
\* foreign answers came in between.
SyncAgrees ==
    \A c \in Clients :
        LET k == client[c] IN
        (~rendezvous /\ k.result = "success" /\ k.connected) =>
            /\ k.peer \in ServerIds /\ status[k.peer] # "absent"
            /\ server[k.peer].peer = c /\ server[k.peer].reqISN = k.isn
            /\ server[k.peer].mss = k.mss

\* The listener never has two working sockets for one request, however often
\* the request is repeated and whichever of its connections have broken.
OneSocketPerRequest ==
    \A s, t \in ServerIds :
        (status[s] = "live" /\ status[t] = "live"
            /\ server[s].peer = server[t].peer
            /\ server[s].reqISN = server[t].reqISN) => s = t

\* Both ends of a rendezvous take each other for the peer and know the number
\* the other starts with: requests and answers that come late, twice or in
\* another order do not pair them wrongly.  Only a peer that timed out and
\* called again, with a new number, may be known by the old one, because in
\* this mode nobody compares numbers.
RendezvousAgrees ==
    rendezvous =>
        \A c, d \in Clients :
            (c # d /\ client[c].connected) =>
                /\ client[c].peer = d
                /\ client[c].peerISN = client[d].isn \/ client[d].attempts > 1

\* connect() returns 0 only when the connection is set up.
SuccessMeansConnected ==
    [][\A c \in Clients :
          (client[c].result # "success" /\ client'[c].result = "success")
              => client'[c].connected]_vars

\* Two rendezvous clients that have begun both get connected, whichever of
\* them hears the other first and whatever is lost, unless the time of one
\* runs out or it is closed.
RendezvousCompletes ==
    (rendezvous /\ \A c \in Clients : client[c].attempts > 0)
        ~> \/ \A c \in Clients : client[c].connected
           \/ \E c \in Clients :
                  client[c].closed \/ TRUE \in Range(client[c].entries)
=============================================================================
