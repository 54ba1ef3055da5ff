--------------------------- MODULE Connect_proofs ---------------------------
(***************************************************************************)
(* The listener has one working socket for a request, and the two ends of  *)
(* a connection mean each other, for every number of clients, sockets and  *)
(* repeated requests.                                                      *)
(***************************************************************************)
EXTENDS Connect, SequenceTheorems, TLAPS

\* The sockets the listener has made.
Statuses == {"absent", "live", "broken", "gone"}
ServerType ==
    /\ status \in [ServerIds -> Statuses]
    /\ server = [s \in ServerIds |-> server[s]]

\* Ids are given out downwards.
CountsDown ==
    \A s, t \in ServerIds :
        (status[s] = "absent" /\ status[t] # "absent") => s < t

KeyOf(s) == PeerKey(server[s].peer, server[s].reqISN)

\* Of the sockets of the table with one key, only the newest may work.
NewestWorks ==
    \A s, t \in ServerIds :
        (status[s] = "live" /\ status[t] \in {"live", "broken"}
            /\ KeyOf(s) = KeyOf(t)) => s <= t

ServerInv == ServerType /\ CountsDown /\ NewestWorks

\* At the start there is none.
LEMMA ServerInvInit == Init => ServerInv
  BY DEF Init, ServerInv, ServerType, Statuses, CountsDown, NewestWorks, NoServer

\* Steps that neither make, break nor collect a socket keep the invariant.
LEMMA ServerInvIdle ==
  ASSUME ServerInv, UNCHANGED <<status, server>>
  PROVE  ServerInv'
  BY DEF ServerInv, ServerType, CountsDown, NewestWorks, KeyOf

\* A new socket is made only when the newest of its key no longer works, and
\* is newer than all others.
LEMMA ServerInvNew ==
  ASSUME NEW m, ServerInv, AnswerNew(m)
  PROVE  ServerInv'
<1> ServerIds \subseteq Nat
  BY ConnectAssumption
<1>1. PICK s \in Unused :
        /\ \A t \in Unused : t <= s
        /\ status' = [status EXCEPT ![s] = "live"]
        /\ server' = [server EXCEPT ![s] =
               [peer |-> m.sid, reqISN |-> m.isn,
                mss |-> Smaller(MSS["b"], m.mss)]]
  BY DEF AnswerNew
<1>2. s \in ServerIds /\ status[s] = "absent"
  BY <1>1 DEF Unused
<1>3. ServerType'
  BY <1>1, <1>2 DEF ServerInv, ServerType, Statuses
<1>4. \A t \in ServerIds : t # s => status'[t] = status[t] /\ server'[t] = server[t]
  BY <1>1, <1>2 DEF ServerInv, ServerType
<1>5. status'[s] = "live" /\ server'[s].peer = m.sid /\ server'[s].reqISN = m.isn
  BY <1>1, <1>2 DEF ServerInv, ServerType
<1>6. CountsDown'
  <2> SUFFICES ASSUME NEW u \in ServerIds, NEW t \in ServerIds,
                      status'[u] = "absent", status'[t] # "absent"
               PROVE  u < t
    BY DEF CountsDown
  <2>1. u # s /\ status[u] = "absent"
    BY <1>4, <1>5
  <2>2. CASE t = s
    <3>1. u <= s
      BY <1>1, <2>1 DEF Unused
    <3> QED BY <2>1, <2>2, <3>1, <1>2
  <2>3. CASE t # s
    BY <2>1, <2>3, <1>4 DEF ServerInv, CountsDown
  <2> QED BY <2>2, <2>3
<1>7. NewestWorks'
  <2> SUFFICES ASSUME NEW u \in ServerIds, NEW t \in ServerIds,
                      status'[u] = "live", status'[t] \in {"live", "broken"},
                      KeyOf(u)' = KeyOf(t)'
               PROVE  u <= t
    BY DEF NewestWorks
  <2>1. CASE u # s /\ t # s
    BY <2>1, <1>4 DEF ServerInv, NewestWorks, KeyOf
  <2>2. CASE u = s
    <3>1. CASE t = s
      BY <2>2, <3>1, <1>2
    <3>2. CASE t # s
      <4>1. status[t] # "absent"
        BY <3>2, <2>2, <1>4
      <4>2. s < t
        BY <4>1, <1>2 DEF ServerInv, CountsDown
      <4> QED BY <4>2, <2>2, <1>2
    <3> QED BY <3>1, <3>2
  <2>3. CASE u # s /\ t = s
    <3>1. status[u] = "live" /\ KeyOf(u) = PeerKey(m.sid, m.isn)
      BY <2>3, <1>4, <1>5 DEF KeyOf
    <3>2. u \in Located(m)
      BY <3>1 DEF ServerInv, NewestWorks, Located, Newest, Known, KeyOf
    <3>3. Repeated(m)
      BY <3>1, <3>2 DEF Repeated
    <3> QED BY <3>3 DEF AnswerNew
  <2> QED BY <2>1, <2>2, <2>3
<1> QED BY <1>3, <1>6, <1>7 DEF ServerInv

\* A socket that breaks or is collected only leaves the working ones, or the
\* table.
LEMMA ServerInvLeave ==
  ASSUME NEW s \in ServerIds, ServerInv, Break(s) \/ Collect(s)
  PROVE  ServerInv'
<1>1. PICK new \in {"broken", "gone"} :
        /\ status' = [status EXCEPT ![s] = new]
        /\ status[s] \in {"live", "broken"} /\ server' = server
        /\ new = "broken" => status[s] = "live"
  BY DEF Break, Collect
<1>2. ServerType'
  BY <1>1 DEF ServerInv, ServerType, Statuses
<1>3. /\ \A t \in ServerIds : status'[t] = IF t = s THEN new ELSE status[t]
      /\ \A t \in ServerIds : KeyOf(t)' = KeyOf(t)
  BY <1>1 DEF ServerInv, ServerType, KeyOf
<1>4. CountsDown'
  BY <1>1, <1>3 DEF ServerInv, CountsDown
<1>5. NewestWorks'
  BY <1>1, <1>3 DEF ServerInv, NewestWorks
<1> QED BY <1>2, <1>4, <1>5 DEF ServerInv

\* Only the listener makes sockets.
LEMMA ServerInvStep ==
  ASSUME ServerInv, [Next]_vars
  PROVE  ServerInv'
<1>1. CASE UNCHANGED <<status, server>>
  BY <1>1, ServerInvIdle
<1>2. CASE \E m \in net : ListenerRecv(m)
  <2>1. PICK m \in net : ListenerRecv(m)
    BY <1>2
  <2>2. CASE AnswerNew(m)
    BY <2>2, ServerInvNew
  <2>3. CASE UNCHANGED <<status, server>>
    BY <2>3, ServerInvIdle
  <2> QED BY <2>1, <2>2, <2>3 DEF ListenerRecv, AnswerRepeated, AnswerFull
<1>3. CASE \E s \in ServerIds : Break(s) \/ Collect(s)
  BY <1>3, ServerInvLeave
<1>4. CASE \E c \in Clients :
             \/ ConnectBegin(c) \/ ConnectReady(c) \/ TimePasses(c) \/ ConnTimer(c)
             \/ LoopTake(c) \/ LoopTimeout(c) \/ Close(c)
             \/ \E m \in net : Deliver(c, m) \/ AnswerAgain(c, m)
  <2>1. UNCHANGED <<status, server>>
    BY ZenonT(40), <1>4 DEF ConnectBegin, ConnectReady, TimePasses, ConnTimer, LoopTake,
                LoopTimeout, Close, Deliver, AnswerAgain, Becomes
  <2> QED BY SMTT(30), <2>1, ServerInvIdle
<1>5. CASE Accept \/ MinutePasses
  BY <1>5, ServerInvIdle DEF Accept, MinutePasses
<1> QED BY <1>1, <1>2, <1>3, <1>4, <1>5 DEF Next, vars

\* However often a client repeats its request, and whichever of the
\* connections made for it have broken, newConnection never leaves it with two
\* working sockets.
THEOREM ListenerKeepsOne == Spec => []OneSocketPerRequest
<1>1. ServerInv => OneSocketPerRequest
  <2> SUFFICES ASSUME ServerInv, NEW s \in ServerIds, NEW t \in ServerIds,
                      status[s] = "live", status[t] = "live",
                      server[s].peer = server[t].peer,
                      server[s].reqISN = server[t].reqISN
               PROVE  s = t
    BY DEF OneSocketPerRequest
  <2>1. s <= t /\ t <= s
    BY DEF ServerInv, NewestWorks, KeyOf
  <2> QED BY <2>1, ConnectAssumption
<1> QED BY <1>1, ServerInvInit, ServerInvStep, PTL DEF Spec
-----------------------------------------------------------------------------
(* What the ends of a connection know of each other.                       *)

Numbers == 0 .. (2 * HalfISN - 1)
Drawn(c) == Range(draws[c])

Handshakes ==
    [kind : {"hs"}, to : Hosts, id : Nat, req : Int,
     sid : Nat, isn : Numbers, mss : Nat, cookie : Int]
Traffics == [kind : {"traffic"}, to : Hosts, id : Nat]
Packets == Handshakes \cup Traffics

ClientFields ==
    [pc : {"idle", "sent", "wait", "done"}, sync : BOOLEAN,
     result : {"none", "background", "success", "rejected", "insecure", "timeout"},
     attempts : Nat, connecting : BOOLEAN, connected : BOOLEAN, closed : BOOLEAN,
     entries : Seq(BOOLEAN), stored : Seq(Packets),
     req : Int, cookie : Int, isn : Numbers, mss : Nat,
     res : Handshakes \cup {NoHandshake}, peer : Nat, peerISN : Numbers]

ConnectTypeOK ==
    /\ scenario \in Scenarios
    /\ client \in [Clients -> ClientFields]
    /\ status \in [ServerIds -> Statuses]
    /\ server \in [ServerIds -> [peer : Nat, reqISN : Numbers, mss : Nat]]
    /\ minute \in Nat
    /\ net \subseteq Packets

\* What may be given to c while it connects, and the handshakes it may know.
ForClient(c) == {m \in net : m.to = Host(c) /\ m.id \in {0, c}}
Answers(c) == {NoHandshake} \cup {m \in ForClient(c) : m.kind = "hs"}

\* A socket with a connect() behind it has drawn the number it uses; a blocking
\* one is connected only when the call is over.
CallOK(c, k) ==
    /\ (k.pc # "idle" \/ k.connecting \/ k.connected \/ k.entries # <<>>)
           => k.attempts >= 1
    /\ k.attempts >= 1 => k.isn \in Drawn(c)
    /\ k.pc = "wait" => k.sync
    /\ (k.sync /\ k.connected) => k.pc = "done"
    /\ k.result = "success" => (k.pc = "done" /\ k.sync)
    /\ k.stored \in Seq(ForClient(c))
    /\ k.res \in Answers(c)

\* The listener's sockets have been asked for.
ServedInv ==
    \A s \in ServerIds :
        status[s] # "absent" =>
            server[s].peer \in Clients /\ server[s].reqISN \in Drawn(server[s].peer)

\* n is the number of client d, or was before d called again.
NumberOf(d, n) ==
    client[d].attempts >= 1 /\ (n = client[d].isn \/ client[d].attempts > 1)

\* What a handshake says is still true: a client's of the client, a server's of
\* the socket it names, which the listener has found for a request of m.id.
Claims(m) ==
    IF rendezvous
    THEN m.sid \in Clients /\ m.to = Other(Host(m.sid)) /\ NumberOf(m.sid, m.isn)
    ELSE /\ m.to = "b" => (m.sid \in Clients /\ m.isn \in Drawn(m.sid))
         /\ (m.to = "a" /\ m.req \notin {1, Rejected}) =>
                /\ m.sid \in ServerIds /\ status[m.sid] # "absent"
                /\ server[m.sid].reqISN = m.isn /\ server[m.sid].mss = m.mss
                /\ m.id \in Clients
                /\ \E x \in Drawn(m.id) : KeyOf(m.sid) = PeerKey(m.id, x)

\* What a connected client knows.
ServedAs(c, k) ==
    /\ k.peer \in ServerIds /\ status[k.peer] # "absent"
    /\ server[k.peer].peer = c /\ server[k.peer].reqISN = k.isn
    /\ server[k.peer].mss = k.mss
PeerOK(c, k) ==
    /\ (NoTwins /\ ~rendezvous /\ k.result = "success" /\ k.connected) => ServedAs(c, k)
    /\ (Pairs /\ rendezvous /\ k.connected) =>
           \A d \in Clients : c # d => (k.peer = d /\ NumberOf(d, k.peerISN))

ConnectInv ==
    /\ ConnectTypeOK
    /\ \A c \in Clients : CallOK(c, client[c])
    /\ ServedInv
    /\ \A m \in net : m.kind = "hs" => Claims(m)
    /\ \A c \in Clients : PeerOK(c, client[c])

\* What no step takes back.
Onwards ==
    /\ scenario' = scenario /\ net \subseteq net'
    /\ \A s \in ServerIds :
           status[s] # "absent" => (status'[s] # "absent" /\ server'[s] = server[s])
    /\ \A d \in Clients :
           client[d].attempts >= 1 =>
               /\ client'[d].attempts >= 1
               /\ \/ client'[d].attempts > 1
                  \/ client'[d].attempts = client[d].attempts
                     /\ client'[d].isn = client[d].isn

\* The assumptions on the constants, in the form the proofs use them.
LEMMA ConnectConstants ==
  /\ Clients \subseteq Nat \ {0} /\ ServerIds \subseteq Nat \ {0}
  /\ HalfISN \in Nat \ {0} /\ MSS["a"] \in Nat /\ MSS["b"] \in Nat
  /\ \A z \in Scenarios : /\ z.draws \in [Clients -> Seq(Numbers)]
                          /\ z.minutes \in Nat
  BY ConnectAssumption DEF Hosts, Numbers

\* Each client is on one of the hosts.
LEMMA HostOf ==
  ASSUME NEW c
  PROVE  Host(c) \in Hosts /\ Other(Host(c)) \in Hosts /\ Other(Host(c)) # Host(c)
  BY DEF Host, Other, Hosts

\* What is said of a client or of a server's socket stays true.
LEMMA ClaimsStay ==
  ASSUME ConnectTypeOK, Onwards, NEW m, m \in Handshakes, Claims(m)
  PROVE  Claims(m)'
<1>1. CASE rendezvous
  BY <1>1 DEF Claims, Onwards, rendezvous, NumberOf, Host
<1>2. CASE ~rendezvous
  <2>1. (m.to = "b" => (m.sid \in Clients /\ m.isn \in Drawn(m.sid)))'
    BY <1>2 DEF Claims, Onwards, rendezvous, Drawn, draws
  <2>2. (m.to = "a" /\ m.req \notin {1, Rejected}) =>
            /\ m.sid \in ServerIds /\ status'[m.sid] # "absent"
            /\ server'[m.sid].reqISN = m.isn /\ server'[m.sid].mss = m.mss
            /\ m.id \in Clients
            /\ \E x \in Drawn(m.id)' : KeyOf(m.sid)' = PeerKey(m.id, x)
    BY <1>2 DEF Claims, Onwards, rendezvous, Drawn, draws, KeyOf
  <2> QED  BY <1>2, <2>1, <2>2 DEF Claims, Onwards, rendezvous
<1> QED  BY <1>1, <1>2

\* What a client knows of its peer stays true.
LEMMA PeerStays ==
  ASSUME ConnectTypeOK, Onwards, NEW c, NEW k, PeerOK(c, k)
  PROVE  PeerOK(c, k)'
<1>1. rendezvous' = rendezvous
  BY DEF Onwards, rendezvous
<1>2. ServedAs(c, k) => ServedAs(c, k)'
  BY DEF Onwards, ServedAs
<1>3. \A d \in Clients : NumberOf(d, k.peerISN) => NumberOf(d, k.peerISN)'
  BY DEF Onwards, NumberOf
<1> QED  BY <1>1, <1>2, <1>3 DEF PeerOK

\* What holds of a call stays true.
LEMMA CallStays ==
  ASSUME Onwards, NEW c, NEW k, CallOK(c, k)
  PROVE  CallOK(c, k)'
<1>1. ForClient(c) \subseteq ForClient(c)' /\ Drawn(c)' = Drawn(c)
  BY DEF Onwards, ForClient, Drawn, draws, Host, rendezvous
<1>2. Seq(ForClient(c)) \subseteq Seq(ForClient(c)')
  BY <1>1
<1>3. Answers(c) \subseteq Answers(c)'
  BY <1>1 DEF Answers
<1> QED  BY <1>1, <1>2, <1>3 DEF CallOK

\* At the start nobody has called.
LEMMA ConnectInvInit == Init => ConnectInv
<1> SUFFICES ASSUME Init PROVE ConnectInv
  OBVIOUS
<1>1. \A c \in Clients : InitClient(c, c \in scenario.sync) \in ClientFields
  <2> SUFFICES ASSUME NEW c \in Clients
               PROVE  InitClient(c, c \in scenario.sync) \in ClientFields
    OBVIOUS
  <2>1. MSS[Host(c)] \in Nat /\ 0 \in Numbers /\ (c \in scenario.sync) \in BOOLEAN
    BY HostOf, ConnectConstants DEF Hosts, Numbers
  <2> QED  BY <2>1 DEF InitClient, ClientFields, NoCookie
<1>2. ConnectTypeOK
  <2>1. client \in [Clients -> ClientFields]
    BY <1>1 DEF Init
  <2>2. NoServer \in [peer : Nat, reqISN : Numbers, mss : Nat]
    BY ConnectConstants DEF NoServer, Numbers
  <2> QED  BY <2>1, <2>2 DEF Init, ConnectTypeOK, Statuses
<1>3. ASSUME NEW c \in Clients
      PROVE  CallOK(c, client[c]) /\ PeerOK(c, client[c])
  <2>1. PICK k : k = client[c]
    OBVIOUS
  <2>2. /\ k.pc = "idle" /\ ~k.connecting /\ ~k.connected /\ k.entries = <<>>
        /\ k.attempts = 0 /\ k.result = "none" /\ k.stored = <<>>
        /\ k.res = NoHandshake
    BY <2>1 DEF Init, InitClient
  <2>3. k.stored \in Seq(ForClient(c))
    BY <2>2
  <2> QED  BY <2>1, <2>2, <2>3 DEF CallOK, PeerOK, Answers
<1> QED  BY <1>2, <1>3 DEF Init, ConnectInv, ServedInv

-----------------------------------------------------------------------------
(* Steps of a client.                                                      *)

\* A packet that c may send as k.
FromClient(c, k, m) ==
    /\ m \in Packets
    /\ m.kind = "hs" =>
           /\ m.sid = c /\ m.to = Other(Host(c)) /\ m.isn = k.isn /\ k.attempts >= 1

\* A step of c alone keeps the invariant when c goes on as k, which is right
\* by itself.
LEMMA ClientStep ==
  ASSUME ConnectInv, NEW c \in Clients, NEW k \in ClientFields,
         client' = [client EXCEPT ![c] = k],
         UNCHANGED <<scenario, status, server, queued, minute>>, net \subseteq net',
         client[c].attempts >= 1 =>
             /\ k.attempts >= 1
             /\ k.attempts > 1 \/ (k.attempts = client[c].attempts /\ k.isn = client[c].isn),
         CallOK(c, k), PeerOK(c, k),
         \A m \in net' : m \in net \/ FromClient(c, k, m)
  PROVE  ConnectInv'
<1>1. client \in [Clients -> ClientFields]
  BY DEF ConnectInv, ConnectTypeOK
<1>2. client'[c] = k /\ \A d \in Clients : d # c => client'[d] = client[d]
  BY <1>1
<1>3. Onwards
  BY <1>2 DEF Onwards
<1>4. ConnectTypeOK /\ ConnectTypeOK'
  BY <1>1 DEF ConnectInv, ConnectTypeOK, FromClient
<1>5. ASSUME NEW d \in Clients
      PROVE  CallOK(d, client[d])' /\ PeerOK(d, client[d])'
  <2>1. PICK j : j = client'[d]
    OBVIOUS
  <2>2. CallOK(d, j) /\ PeerOK(d, j)
    BY <1>2, <2>1 DEF ConnectInv
  <2>3. CallOK(d, j)' /\ PeerOK(d, j)'
    BY <2>2, <1>3, <1>4, CallStays, PeerStays
  <2> QED  BY <2>1, <2>3
<1>6. ServedInv'
  BY <1>3 DEF ConnectInv, ServedInv, Drawn, draws
<1>7. ASSUME NEW m \in net', m.kind = "hs"
      PROVE  Claims(m)'
  <2>1. CASE m \in net
    <3>1. m \in Handshakes /\ Claims(m)
      BY <1>4, <1>7, <2>1 DEF ConnectInv, ConnectTypeOK, Packets, Traffics
    <3> QED  BY <3>1, <1>3, <1>4, ClaimsStay
  <2>2. CASE FromClient(c, k, m)
    <3>1. /\ m.sid = c /\ m.to = Other(Host(c)) /\ m.isn = k.isn /\ k.attempts >= 1
          /\ k.isn \in Drawn(c)
      BY <1>7, <2>2 DEF FromClient, CallOK
    <3>2. CASE rendezvous
      <4>1. rendezvous' /\ Host(c)' = Host(c)
        BY <3>2, <1>3 DEF Onwards, rendezvous, Host
      <4>2. NumberOf(c, k.isn)'
        BY <1>2, <3>1 DEF NumberOf
      <4> QED  BY <3>1, <4>1, <4>2 DEF Claims
    <3>3. CASE ~rendezvous
      <4>1. ~rendezvous' /\ Drawn(c)' = Drawn(c) /\ Other(Host(c)) = "b"
        BY <3>3, <1>3 DEF Onwards, rendezvous, Host, Other, Drawn, draws
      <4> QED  BY <3>1, <4>1 DEF Claims
    <3> QED  BY <3>2, <3>3
  <2> QED  BY <2>1, <2>2
<1> QED  BY <1>4, <1>5, <1>6, <1>7 DEF ConnectInv

\* What a client may send in its present state.
LEMMA RequestFrom ==
  ASSUME ConnectInv, NEW c \in Clients, NEW k \in ClientFields, k.attempts >= 1
  PROVE  /\ FromClient(c, k, Request(c, k))
         /\ FromClient(c, k, [Request(c, k) EXCEPT !.id = 0])
<1>1. /\ (IF rendezvous THEN k.res.sid ELSE 0) \in Nat
      /\ MSS[Host(c)] \in Nat /\ c \in Nat /\ Other(Host(c)) \in Hosts
      /\ k.req \in Int /\ k.isn \in Numbers /\ k.cookie \in Int
  <2>1. k.res.sid \in Nat
    BY DEF ClientFields, Handshakes, NoHandshake
  <2> QED  BY <2>1, HostOf, ConnectConstants DEF ClientFields, Hosts
<1>2. Request(c, k) \in Handshakes
  BY <1>1 DEF Request, Handshake, Handshakes
<1>3. [Request(c, k) EXCEPT !.id = 0] \in Handshakes
  BY <1>2 DEF Handshakes
<1>4. /\ Request(c, k).sid = c /\ Request(c, k).to = Other(Host(c))
      /\ Request(c, k).isn = k.isn
  BY DEF Request, Handshake
<1>5. \A q \in Handshakes : [q EXCEPT !.id = 0].sid = q.sid
                            /\ [q EXCEPT !.id = 0].to = q.to
                            /\ [q EXCEPT !.id = 0].isn = q.isn
  BY DEF Handshakes
<1> QED  BY <1>2, <1>3, <1>4, <1>5 DEF FromClient, Packets

\* The packets a client repeats are its own.
LEMMA SendsFrom ==
  ASSUME ConnectInv, NEW c \in Clients, NEW k \in ClientFields,
         k.entries # <<>> => k.attempts >= 1, NEW m \in Sends(c, k)
  PROVE  FromClient(c, k, m)
<1>1. CASE k.connected
  <2>1. m = Traffic(Other(Host(c)), k.peer)
    BY <1>1 DEF Sends
  <2>2. Other(Host(c)) \in Hosts /\ k.peer \in Nat
    BY HostOf DEF ClientFields
  <2>3. m \in Traffics /\ m.kind = "traffic"
    BY <2>1, <2>2 DEF Traffic, Traffics
  <2> QED  BY <2>3 DEF FromClient, Packets
<1>2. CASE ~k.connected
  <2>1. m = Request(c, k) /\ k.entries # <<>>
    <3>1. \A x : x \notin Range(<<>>)
      BY DEF Range
    <3> QED  BY <1>2, <3>1 DEF Sends
  <2> QED  BY <2>1, RequestFrom
<1> QED  BY <1>1, <1>2

\* Steps in which a client only goes on with its call, or ends it.
LEMMA QuietStep ==
  ASSUME ConnectInv, NEW c \in Clients, NEW k \in ClientFields,
         client' = [client EXCEPT ![c] = k],
         UNCHANGED <<scenario, status, server, queued, minute, net>>,
         k.attempts = client[c].attempts, k.isn = client[c].isn,
         CallOK(c, k), PeerOK(c, k)
  PROVE  ConnectInv'
<1>1. client[c].attempts \in Nat
  BY DEF ConnectInv, ConnectTypeOK, ClientFields
<1> QED  BY <1>1, ClientStep

\* connect() begins.
LEMMA BeginKeeps ==
  ASSUME ConnectInv, NEW c \in Clients, ConnectBegin(c)
  PROVE  ConnectInv'
<1>1. PICK o \in ClientFields : o = client[c]
  BY DEF ConnectInv, ConnectTypeOK
<1>2. PICK n \in Nat : n = o.attempts + 1
  BY DEF ClientFields
<1>3. draws[c] \in Seq(Numbers)
  BY ConnectConstants DEF draws, ConnectInv, ConnectTypeOK
<1>4. n \in 1 .. Len(draws[c]) /\ n >= 1 /\ (o.attempts >= 1 => n > 1)
  BY <1>1, <1>2, <1>3 DEF ConnectBegin, ClientFields
<1>5. PICK x \in Numbers : x = draws[c][n] /\ x \in Drawn(c)
  BY <1>3, <1>4 DEF Drawn, Range
<1>6. PICK e \in Seq(BOOLEAN) : e = Append(o.entries, FALSE)
  <2>1. o.entries \in Seq(BOOLEAN) /\ FALSE \in BOOLEAN
    BY DEF ClientFields
  <2>2. Append(o.entries, FALSE) \in Seq(BOOLEAN)
    BY <2>1, AppendProperties, Zenon
  <2> QED  BY <2>2
<1>7. PICK r \in Int : r = IF rendezvous THEN 0 ELSE 1
  OBVIOUS
<1> DEFINE new == [o EXCEPT !.pc = "sent", !.attempts = n, !.isn = x,
                            !.req = r, !.entries = e]
<1>8. PICK k : k = new
  OBVIOUS
<1>9. /\ k \in ClientFields
      /\ k.pc = "sent" /\ k.attempts = n /\ k.isn = x
      /\ k.sync = o.sync /\ k.connected = o.connected /\ k.result = o.result
      /\ k.stored = o.stored /\ k.res = o.res
  BY <1>4, <1>8 DEF ClientFields
<1>10. /\ client' = [client EXCEPT ![c] = k]
       /\ net' = net \cup {[Request(c, k) EXCEPT !.id = 0]}
       /\ UNCHANGED <<scenario, status, server, queued, minute>>
  <2>1. k = [client[c] EXCEPT
                    !.pc = "sent", !.attempts = client[c].attempts + 1,
                    !.isn = draws[c][client[c].attempts + 1],
                    !.req = IF rendezvous THEN 0 ELSE 1,
                    !.entries = Append(@, FALSE)]
    BY <1>1, <1>2, <1>5, <1>6, <1>7, <1>8, Zenon
  <2> QED  BY <2>1, Zenon DEF ConnectBegin
<1> HIDE DEF new
<1>11. ~k.connected /\ k.result # "success"
  <2>1. CallOK(c, o) /\ MayConnect(o)
    BY <1>1 DEF ConnectInv, ConnectBegin
  <2> QED  BY <2>1, <1>9 DEF MayConnect, CallOK
<1>12. CallOK(c, k) /\ PeerOK(c, k)
  <2>1. CallOK(c, o)
    BY <1>1 DEF ConnectInv
  <2>2. k.attempts >= 1 /\ k.isn \in Drawn(c)
    BY <1>4, <1>5, <1>9
  <2> QED  BY <2>1, <2>2, <1>9, <1>11 DEF CallOK, PeerOK
<1>13. \A m \in net' : m \in net \/ FromClient(c, k, m)
  BY <1>4, <1>9, <1>10, RequestFrom
<1>14. o.attempts >= 1 => (k.attempts >= 1 /\ k.attempts > 1)
  BY <1>4, <1>9
<1> QED  BY <1>1, <1>9, <1>10, <1>12, <1>13, <1>14, ClientStep

\* The first request is out.
LEMMA ReadyKeeps ==
  ASSUME ConnectInv, NEW c \in Clients, ConnectReady(c)
  PROVE  ConnectInv'
<1>1. PICK o \in ClientFields : o = client[c]
  BY DEF ConnectInv, ConnectTypeOK
<1> DEFINE new == [o EXCEPT !.connecting = TRUE,
                            !.pc = IF o.sync THEN "wait" ELSE "done",
                            !.result = IF o.sync THEN "none" ELSE "background"]
<1>2. client' = [client EXCEPT ![c] = new]
  <2>1. client \in [Clients -> ClientFields]
    BY DEF ConnectInv, ConnectTypeOK
  <2> QED  BY <2>1, <1>1 DEF ConnectReady
<1>3. PICK k : k = new
  OBVIOUS
<1>4. /\ k \in ClientFields
      /\ k.pc = (IF o.sync THEN "wait" ELSE "done")
      /\ k.result = (IF o.sync THEN "none" ELSE "background")
      /\ k.attempts = o.attempts /\ k.isn = o.isn /\ k.sync = o.sync
      /\ k.connected = o.connected /\ k.stored = o.stored /\ k.res = o.res
      /\ k.peer = o.peer /\ k.peerISN = o.peerISN /\ k.mss = o.mss
  BY ZenonT(40), <1>3 DEF ClientFields
<1>5. CallOK(c, o) /\ PeerOK(c, o) /\ o.pc = "sent"
  BY <1>1 DEF ConnectInv, ConnectReady
<1>6. CallOK(c, k) /\ PeerOK(c, k)
  <2>1. CallOK(c, k)
    BY <1>4, <1>5 DEF CallOK
  <2>2. PeerOK(c, k)
    BY <1>4, <1>5 DEF PeerOK
  <2> QED  BY <2>1, <2>2
<1> HIDE DEF new
<1> QED  BY <1>1, <1>2, <1>3, <1>4, <1>6, QuietStep DEF ConnectReady

\* The time of a connect() runs out.
LEMMA TimeKeeps ==
  ASSUME ConnectInv, NEW c \in Clients, TimePasses(c)
  PROVE  ConnectInv'
<1>1. PICK o \in ClientFields : o = client[c]
  BY DEF ConnectInv, ConnectTypeOK
<1>2. PICK e \in Seq(BOOLEAN) : e = [i \in DOMAIN o.entries |-> TRUE]
  <2>1. o.entries \in Seq(BOOLEAN)
    BY DEF ClientFields
  <2>2. PICK n \in Nat : DOMAIN o.entries = 1 .. n
    BY <2>1, LenProperties
  <2>3. [i \in 1 .. n |-> TRUE] \in [1 .. n -> BOOLEAN]
    OBVIOUS
  <2>4. [i \in 1 .. n |-> TRUE] \in Seq(BOOLEAN)
    BY <2>3, SeqDef, Zenon
  <2> QED  BY <2>2, <2>4
<1> DEFINE new == [o EXCEPT !.entries = e]
<1>3. PICK k : k = new
  OBVIOUS
<1>4. /\ k \in ClientFields
      /\ k.pc = o.pc /\ k.result = o.result
      /\ k.connecting = o.connecting
      /\ k.attempts = o.attempts /\ k.isn = o.isn /\ k.sync = o.sync
      /\ k.connected = o.connected /\ k.stored = o.stored /\ k.res = o.res
      /\ k.peer = o.peer /\ k.peerISN = o.peerISN /\ k.mss = o.mss
  BY <1>3 DEF ClientFields
<1>5. client' = [client EXCEPT ![c] = k]
  <2>1. client' = [client EXCEPT ![c].entries = [i \in DOMAIN @ |-> TRUE]]
    BY DEF TimePasses
  <2>2. client' = [client EXCEPT
                      ![c] = [client[c] EXCEPT
                                 !.entries = [i \in DOMAIN client[c].entries |-> TRUE]]]
    BY <2>1
  <2> QED  BY <2>2, <1>1, <1>2, <1>3
<1> HIDE DEF new
<1>6. CallOK(c, o) /\ PeerOK(c, o) /\ o.entries # <<>>
  <2>1. \A x : x \notin Range(<<>>)
    BY DEF Range
  <2> QED  BY <1>1, <2>1 DEF ConnectInv, TimePasses
<1>7. CallOK(c, k)
  BY <1>4, <1>6 DEF CallOK
<1>8. PeerOK(c, k)
  BY <1>4, <1>6 DEF PeerOK, ServedAs
<1> QED  BY <1>1, <1>4, <1>5, <1>7, <1>8, QuietStep DEF TimePasses

\* updateConnStatus gives up.
LEMMA TimerKeeps ==
  ASSUME ConnectInv, NEW c \in Clients, ConnTimer(c)
  PROVE  ConnectInv'
<1>1. PICK o \in ClientFields : o = client[c]
  BY DEF ConnectInv, ConnectTypeOK
<1> DEFINE new == [o EXCEPT !.connecting = FALSE]
<1>2. client' = [client EXCEPT ![c] = new]
  <2>1. client \in [Clients -> ClientFields]
    BY DEF ConnectInv, ConnectTypeOK
  <2> QED  BY <2>1, <1>1 DEF ConnTimer
<1>3. PICK k : k = new
  OBVIOUS
<1>4. /\ k \in ClientFields
      /\ k.pc = o.pc /\ k.result = o.result
      /\ ~k.connecting /\ k.entries = o.entries
      /\ k.attempts = o.attempts /\ k.isn = o.isn /\ k.sync = o.sync
      /\ k.connected = o.connected /\ k.stored = o.stored /\ k.res = o.res
      /\ k.peer = o.peer /\ k.peerISN = o.peerISN /\ k.mss = o.mss
  BY <1>3 DEF ClientFields
<1> HIDE DEF new
<1>5. CallOK(c, o) /\ PeerOK(c, o)
  BY <1>1 DEF ConnectInv
<1>6. CallOK(c, k)
  BY <1>4, <1>5 DEF CallOK
<1>7. PeerOK(c, k)
  BY <1>4, <1>5 DEF PeerOK, ServedAs
<1> QED  BY <1>1, <1>2, <1>3, <1>4, <1>6, <1>7, QuietStep DEF ConnTimer

\* A blocking connect() gives up.
LEMMA LoopTimeoutKeeps ==
  ASSUME ConnectInv, NEW c \in Clients, LoopTimeout(c)
  PROVE  ConnectInv'
<1>1. PICK o \in ClientFields : o = client[c]
  BY DEF ConnectInv, ConnectTypeOK
<1> DEFINE new == [o EXCEPT !.pc = "done", !.result = "timeout"]
<1>2. client' = [client EXCEPT ![c] = new]
  <2>1. client \in [Clients -> ClientFields]
    BY DEF ConnectInv, ConnectTypeOK
  <2> QED  BY <2>1, <1>1 DEF LoopTimeout
<1>3. PICK k : k = new
  OBVIOUS
<1>4. /\ k \in ClientFields
      /\ k.pc = "done" /\ k.result = "timeout"
      /\ k.connecting = o.connecting /\ k.entries = o.entries
      /\ k.attempts = o.attempts /\ k.isn = o.isn /\ k.sync = o.sync
      /\ k.connected = o.connected /\ k.stored = o.stored /\ k.res = o.res
      /\ k.peer = o.peer /\ k.peerISN = o.peerISN /\ k.mss = o.mss
  BY <1>3 DEF ClientFields
<1> HIDE DEF new
<1>5. CallOK(c, o) /\ PeerOK(c, o) /\ o.pc = "wait"
  BY <1>1 DEF ConnectInv, LoopTimeout
<1>6. CallOK(c, k)
  BY <1>4, <1>5 DEF CallOK
<1>7. PeerOK(c, k)
  BY <1>4, <1>5 DEF PeerOK, ServedAs
<1> QED  BY <1>1, <1>2, <1>3, <1>4, <1>6, <1>7, QuietStep DEF LoopTimeout

\* What taking a socket out of the rendezvous queue leaves.
LEMMA UnregisteredIs ==
  ASSUME ConnectInv, NEW c \in Clients, NEW o \in ClientFields, CallOK(c, o)
  PROVE  LET k == Unregistered(o) IN
         /\ k \in ClientFields /\ k.stored \in Seq(ForClient(c))
         /\ k.pc = o.pc /\ k.result = o.result /\ k.connecting = o.connecting
         /\ k.attempts = o.attempts /\ k.isn = o.isn /\ k.sync = o.sync
         /\ k.connected = o.connected /\ k.res = o.res /\ k.closed = o.closed
         /\ k.peer = o.peer /\ k.peerISN = o.peerISN /\ k.mss = o.mss
         /\ k.req = o.req /\ k.cookie = o.cookie
         /\ o.entries = <<>> => k.entries = <<>>
<1>1. PICK e \in Seq(BOOLEAN) :
        /\ e = (IF o.entries = <<>> THEN o.entries ELSE Tail(o.entries))
        /\ o.entries = <<>> => e = <<>>
  <2>1. o.entries \in Seq(BOOLEAN)
    BY DEF ClientFields
  <2>2. o.entries # <<>> => Tail(o.entries) \in Seq(BOOLEAN)
    BY <2>1, HeadTailProperties, Zenon
  <2> QED  BY <2>1, <2>2
<1>2. PICK k : k = Unregistered(o)
  OBVIOUS
<1>3. k = [o EXCEPT !.entries = e, !.stored = <<>>]
  BY <1>1, <1>2 DEF Unregistered
<1>4. <<>> \in Seq(Packets) /\ <<>> \in Seq(ForClient(c))
  OBVIOUS
<1>5. /\ k \in ClientFields
      /\ k.pc = o.pc /\ k.result = o.result /\ k.connecting = o.connecting
      /\ k.attempts = o.attempts /\ k.isn = o.isn /\ k.sync = o.sync
      /\ k.connected = o.connected /\ k.res = o.res /\ k.closed = o.closed
      /\ k.peer = o.peer /\ k.peerISN = o.peerISN /\ k.mss = o.mss
      /\ k.req = o.req /\ k.cookie = o.cookie
      /\ k.entries = e /\ k.stored = <<>>
  BY <1>3, <1>4 DEF ClientFields
<1> QED  BY <1>1, <1>2, <1>4, <1>5

\* A client is closed.
LEMMA CloseKeeps ==
  ASSUME ConnectInv, NEW c \in Clients, Close(c)
  PROVE  ConnectInv'
<1>1. PICK o \in ClientFields : o = client[c]
  BY DEF ConnectInv, ConnectTypeOK
<1>2. CallOK(c, o)
  BY <1>1 DEF ConnectInv
<1>3. PICK u \in ClientFields :
        /\ u = (IF o.connecting THEN Unregistered(o) ELSE o)
        /\ u.stored \in Seq(ForClient(c))
        /\ u.pc = o.pc /\ u.result = o.result /\ u.connecting = o.connecting
        /\ u.attempts = o.attempts /\ u.isn = o.isn /\ u.sync = o.sync
        /\ u.res = o.res /\ (o.entries = <<>> => u.entries = <<>>)
  <2>1. o.stored \in Seq(ForClient(c))
    BY <1>2 DEF CallOK
  <2>2. CASE o.connecting
    BY <1>2, <2>2, UnregisteredIs
  <2>3. CASE ~o.connecting
    BY <2>1, <2>3
  <2> QED  BY <2>2, <2>3
<1> DEFINE new == [u EXCEPT !.closed = TRUE, !.connected = FALSE]
<1>4. client' = [client EXCEPT ![c] = new]
  BY <1>1, <1>3 DEF Close
<1>5. PICK k : k = new
  OBVIOUS
<1>6. /\ k \in ClientFields
      /\ k.pc = u.pc /\ k.result = u.result
      /\ k.connecting = u.connecting /\ k.entries = u.entries
      /\ k.attempts = u.attempts /\ k.isn = u.isn /\ k.sync = u.sync
      /\ ~k.connected /\ k.stored = u.stored /\ k.res = u.res
  BY <1>5 DEF ClientFields
<1> HIDE DEF new
<1>7. CallOK(c, k)
  BY <1>2, <1>3, <1>6 DEF CallOK
<1>8. PeerOK(c, k)
  BY <1>6 DEF PeerOK
<1> QED  BY ZenonT(40), <1>1, <1>3, <1>4, <1>5, <1>6, <1>7, <1>8, QuietStep DEF Close

\* k is o after a packet: nothing of its call has changed, and it is connected
\* only to the one whose handshake it keeps.
Answered(c, o, k) ==
    /\ k \in ClientFields
    /\ k.pc = o.pc /\ k.result = o.result /\ k.sync = o.sync
    /\ k.attempts = o.attempts /\ k.isn = o.isn
    /\ (k.connecting \/ k.connected \/ k.entries # <<>>) => k.attempts >= 1
    /\ k.stored \in Seq(ForClient(c)) /\ k.res \in Answers(c)
    /\ k.connected =>
           /\ k.res \in Handshakes
           /\ k.peer = k.res.sid /\ k.peerISN = k.res.isn /\ k.mss = k.res.mss

\* A connection is made with the handshake the client keeps.
LEMMA EstablishedIs ==
  ASSUME ConnectInv, NEW c \in Clients, NEW o \in ClientFields, CallOK(c, o),
         o.res \in Handshakes, o.connecting
  PROVE  Answered(c, o, Established(o)) /\ Established(o).res = o.res
<1>1. PICK u \in ClientFields :
        /\ u = Unregistered(o) /\ u.stored \in Seq(ForClient(c))
        /\ u.pc = o.pc /\ u.result = o.result /\ u.sync = o.sync
        /\ u.attempts = o.attempts /\ u.isn = o.isn /\ u.res = o.res
  BY UnregisteredIs
<1>2. PICK mss \in Nat : mss = o.res.mss
  BY DEF Handshakes
<1>3. PICK isn \in Numbers : isn = o.res.isn
  BY DEF Handshakes
<1>4. PICK sid \in Nat : sid = o.res.sid
  BY DEF Handshakes
<1>5. PICK k : k = [u EXCEPT !.mss = mss, !.peerISN = isn, !.peer = sid,
                             !.connecting = FALSE, !.connected = TRUE]
  OBVIOUS
<1>6. k = Established(o)
  BY <1>1, <1>2, <1>3, <1>4, <1>5 DEF Established
<1>7. /\ k \in ClientFields
      /\ k.pc = u.pc /\ k.result = u.result /\ k.sync = u.sync
      /\ k.attempts = u.attempts /\ k.isn = u.isn
      /\ k.stored = u.stored /\ k.res = u.res
      /\ k.mss = mss /\ k.peer = sid /\ k.peerISN = isn
  BY <1>5 DEF ClientFields
<1>8. o.attempts >= 1 /\ o.res \in Answers(c)
  BY DEF CallOK
<1>9. Answered(c, o, k)
  BY <1>1, <1>2, <1>3, <1>4, <1>7, <1>8 DEF Answered
<1> QED  BY <1>1, <1>6, <1>7, <1>9

\* A client keeps the handshake it has got.
LEMMA HeardIs ==
  ASSUME ConnectInv, NEW c \in Clients, NEW o \in ClientFields, CallOK(c, o),
         NEW m \in ForClient(c), m.kind = "hs", ~o.connected
  PROVE  /\ m \in Handshakes /\ Heard(o, m).res = m /\ CallOK(c, Heard(o, m))
         /\ Answered(c, o, Heard(o, m)) /\ Heard(o, m).connecting = o.connecting
         /\ Heard(o, m).req = o.req /\ ~Heard(o, m).connected
<1>1. m \in Handshakes /\ m \in Answers(c)
  BY DEF ConnectInv, ConnectTypeOK, Packets, Traffics, ForClient, Answers
<1>2. PICK k : k = [o EXCEPT !.res = m]
  OBVIOUS
<1>3. /\ k \in ClientFields /\ k.res = m
      /\ k.pc = o.pc /\ k.result = o.result /\ k.sync = o.sync
      /\ k.attempts = o.attempts /\ k.isn = o.isn /\ k.entries = o.entries
      /\ k.stored = o.stored /\ k.connecting = o.connecting
      /\ k.connected = o.connected /\ k.req = o.req
  BY <1>1, <1>2 DEF ClientFields
<1>4. CallOK(c, k) /\ Answered(c, o, k)
  BY <1>1, <1>3 DEF CallOK, Answered
<1> QED  BY <1>1, <1>2, <1>3, <1>4 DEF Heard

\* Asking again changes what is asked only.
LEMMA AskIs ==
  ASSUME NEW c, NEW o \in ClientFields, NEW h, Answered(c, o, h), ~h.connected
  PROVE  /\ Answered(c, o, AskAgain(h)) /\ ~AskAgain(h).connected
         /\ h.res \in Handshakes =>
                Answered(c, o, AskWithCookie(h)) /\ ~AskWithCookie(h).connected
<1>1. ASSUME NEW k, NEW r \in Int, NEW q \in Int,
             k = [h EXCEPT !.req = r, !.cookie = q] \/ k = [h EXCEPT !.req = r]
      PROVE  Answered(c, o, k) /\ ~k.connected
  <2>1. h \in ClientFields
    BY DEF Answered
  <2>2. /\ k \in ClientFields
        /\ k.pc = h.pc /\ k.result = h.result /\ k.sync = h.sync
        /\ k.attempts = h.attempts /\ k.isn = h.isn /\ k.entries = h.entries
        /\ k.stored = h.stored /\ k.connecting = h.connecting /\ k.res = h.res
        /\ k.connected = h.connected
    BY ZenonT(40), <1>1, <2>1 DEF ClientFields
  <2> QED  BY <2>2 DEF Answered
<1>2. AskAgain(h) = [h EXCEPT !.req = -1]
  BY DEF AskAgain
<1>3. PICK r \in Int : r = -1
  OBVIOUS
<1>4. Answered(c, o, AskAgain(h)) /\ ~AskAgain(h).connected
  BY <1>1, <1>2, <1>3
<1>5. ASSUME h.res \in Handshakes
      PROVE  Answered(c, o, AskWithCookie(h)) /\ ~AskWithCookie(h).connected
  <2>1. PICK q \in Int : q = h.res.cookie
    BY <1>5 DEF Handshakes
  <2>2. h \in ClientFields
    BY DEF Answered
  <2>3. AskWithCookie(h) = [h EXCEPT !.req = r, !.cookie = q]
    BY <1>2, <1>3, <2>1, <2>2 DEF AskWithCookie, ClientFields
  <2> QED  BY <1>1, <2>3
<1> QED  BY <1>4, <1>5

\* What connect(response) does to a socket that is not connected.
LEMMA ResponseIs ==
  ASSUME ConnectInv, NEW c \in Clients, NEW o \in ClientFields, CallOK(c, o),
         NEW m \in ForClient(c), ~o.connected
  PROVE  LET r == Response(o, m) IN
         /\ Answered(c, o, r.k)
         /\ r.code = 1 => ~r.k.connected
         /\ (~rendezvous /\ r.k.connected) =>
                m \in Handshakes /\ r.k.res = m /\ m.req # 1
<1> DEFINE h == Heard(o, m)
<1>1. Answered(c, o, o)
  BY DEF CallOK, Answered
<1>2. CASE ~o.connecting \/ (m.kind # "hs" /\ ~(rendezvous /\ HasType(o.res)))
  <2>1. Response(o, m) = [code |-> -1, k |-> o]
    BY <1>2 DEF Response
  <2> QED  BY <1>1, <2>1
<1>3. CASE o.connecting /\ m.kind # "hs" /\ rendezvous /\ HasType(o.res)
  <2>1. Response(o, m) = [code |-> 0, k |-> Established(o)]
    BY <1>3 DEF Response
  <2>2. o.res \in Handshakes
    BY <1>3 DEF ClientFields, HasType, NoHandshake
  <2> QED  BY <1>3, <2>1, <2>2, EstablishedIs
<1>4. CASE o.connecting /\ m.kind = "hs"
  <2>1. /\ m \in Handshakes /\ h.res = m /\ CallOK(c, h) /\ Answered(c, o, h)
        /\ h.connecting /\ ~h.connected
    BY <1>4, HeardIs
  <2>2. h \in ClientFields
    BY <2>1 DEF Answered
  <2>3. Answered(c, h, Established(h)) /\ Established(h).res = m
    BY <2>1, <2>2, EstablishedIs
  <2>4. Answered(c, o, Established(h))
    BY <2>1, <2>3 DEF Answered
  <2>5. /\ Answered(c, o, AskAgain(h)) /\ ~AskAgain(h).connected
        /\ Answered(c, o, AskWithCookie(h)) /\ ~AskWithCookie(h).connected
    BY <2>1, AskIs
  <2> HIDE DEF h
  <2>6. PICK k :
          /\ \/ Response(o, m) = [code |-> -1, k |-> k] /\ k = h
             \/ Response(o, m) = [code |-> 1, k |-> k] /\ k \in {AskAgain(h), AskWithCookie(h)}
             \/ /\ Response(o, m) = [code |-> 0, k |-> k] /\ k = Established(h)
                /\ rendezvous \/ m.req # 1
    <3> USE DEF h
    <3>1. CASE rendezvous
      BY <1>4, <3>1, <2>1 DEF Response
    <3>2. CASE ~rendezvous
      BY <1>4, <3>2, <2>1 DEF Response
    <3> QED  BY <3>1, <3>2
  <2> QED  BY <2>1, <2>3, <2>4, <2>5, <2>6
<1> QED  BY <1>2, <1>3, <1>4

\* Of two clients in a rendezvous, the one that c hears is the other.
LEMMA RendezvousPeer ==
  ASSUME ConnectInv, NEW c \in Clients, NEW k \in ClientFields,
         Pairs, rendezvous, k.res \in Answers(c), k.res \in Handshakes,
         k.peer = k.res.sid, k.peerISN = k.res.isn,
         NEW d \in Clients, c # d
  PROVE  k.peer = d /\ NumberOf(d, k.peerISN)
<1>1. PICK m : m = k.res
  OBVIOUS
<1>2. m \in net /\ m.to = Host(c) /\ m.kind = "hs"
  BY <1>1 DEF Answers, ForClient, NoHandshake, Handshakes
<1>3. m.sid \in Clients /\ m.to = Other(Host(m.sid)) /\ NumberOf(m.sid, m.isn)
  BY <1>2 DEF ConnectInv, Claims
<1>4. m.sid # c
  BY <1>2, <1>3, HostOf
<1>5. m.sid = d
  <2>1. scenario \in Scenarios /\ scenario.rendezvous
    BY DEF ConnectInv, ConnectTypeOK, rendezvous
  <2> QED  BY <2>1, <1>3, <1>4 DEF Pairs
<1> QED  BY <1>1, <1>3, <1>5

\* A server's socket with the number of c has been made for c.
LEMMA RegularPeer ==
  ASSUME ConnectInv, NEW c \in Clients, NEW k,
         NoTwins, ~rendezvous, NEW m \in ForClient(c), m \in Handshakes,
         m.req # 1, m.req # Rejected, k.isn = m.isn, k.isn \in Drawn(c),
         k.peer = m.sid, k.mss = m.mss
  PROVE  ServedAs(c, k)
<1>1. m \in net /\ m.to = "a" /\ m.kind = "hs" /\ m.id \in {0, c}
  BY DEF ForClient, Host, Handshakes
<1>2. /\ m.sid \in ServerIds /\ status[m.sid] # "absent"
      /\ server[m.sid].reqISN = m.isn /\ server[m.sid].mss = m.mss
      /\ m.id \in Clients
      /\ \E x \in Drawn(m.id) : KeyOf(m.sid) = PeerKey(m.id, x)
  BY <1>1 DEF ConnectInv, Claims
<1>3. m.id = c
  BY <1>1, <1>2, ConnectConstants
<1>4. PICK x \in Drawn(c) : KeyOf(m.sid) = PeerKey(c, x)
  BY <1>2, <1>3
<1>5. PICK d \in Clients : d = server[m.sid].peer /\ k.isn \in Drawn(d)
  BY <1>2 DEF ConnectInv, ServedInv
<1>6. PeerKey(d, k.isn) = PeerKey(c, x)
  BY <1>2, <1>4, <1>5 DEF KeyOf
<1>7. d = c
  <2>1. scenario \in Scenarios /\ ~scenario.rendezvous
    BY DEF ConnectInv, ConnectTypeOK, rendezvous
  <2>2. SUFFICES ASSUME c # d PROVE FALSE
    OBVIOUS
  <2>3. \A v, w \in Range(scenario.draws[c]) :
            w \in Range(scenario.draws[d]) => PeerKey(c, v) # PeerKey(d, w)
    BY <2>1, <2>2 DEF NoTwins
  <2> QED  BY <2>3, <1>4, <1>5, <1>6 DEF Drawn, draws
<1> QED  BY <1>2, <1>5, <1>7 DEF ServedAs

\* A client goes on, and repeats its packets.
LEMMA BecomesKeeps ==
  ASSUME ConnectInv, NEW c \in Clients, NEW k \in ClientFields, Becomes(c, k),
         k.attempts = client[c].attempts, k.isn = client[c].isn,
         CallOK(c, k), PeerOK(c, k)
  PROVE  ConnectInv'
<1>1. /\ client' = [client EXCEPT ![c] = k] /\ net' = net \cup Sends(c, k)
      /\ UNCHANGED <<scenario, status, server, queued, minute>>
  BY DEF Becomes
<1>2. \A m \in net' : m \in net \/ FromClient(c, k, m)
  BY <1>1, SendsFrom DEF CallOK
<1>3. client[c].attempts \in Nat
  BY DEF ConnectInv, ConnectTypeOK, ClientFields
<1> QED  BY <1>1, <1>2, <1>3, ClientStep

\* A packet is given to a client or stored for it.
LEMMA DeliverKeeps ==
  ASSUME ConnectInv, NEW c \in Clients, NEW m, Deliver(c, m)
  PROVE  ConnectInv'
<1>1. PICK o \in ClientFields : o = client[c]
  BY DEF ConnectInv, ConnectTypeOK
<1>2. CallOK(c, o) /\ PeerOK(c, o) /\ ~o.connected
  BY <1>1 DEF ConnectInv, Deliver
<1>3. m \in ForClient(c) /\ m \in Packets
  BY DEF Deliver, ForClient, Retrieve, ConnectInv, ConnectTypeOK
<1>4. CASE o.sync
  <2>1. PICK s \in Seq(Packets) :
          s \in Seq(ForClient(c)) /\ (s = o.stored \/ s = Append(o.stored, m))
                                  /\ (s = o.stored => Stored(o, m) = o)
                                  /\ (s # o.stored => Stored(o, m) = [o EXCEPT !.stored = s])
    <3>1. o.stored \in Seq(ForClient(c)) /\ o.stored \in Seq(Packets)
      BY <1>2 DEF CallOK, ClientFields
    <3>2. Append(o.stored, m) \in Seq(ForClient(c)) /\ Append(o.stored, m) \in Seq(Packets)
      BY <1>3, <3>1, AppendProperties
    <3>3. Append(o.stored, m) # o.stored
      BY <1>3, <3>1, AppendProperties
    <3> QED  BY <3>1, <3>2, <3>3 DEF Stored
  <2>2. PICK k : k = Stored(o, m)
    OBVIOUS
  <2>3. /\ k \in ClientFields /\ k.stored = s
        /\ k.pc = o.pc /\ k.result = o.result
        /\ k.connecting = o.connecting /\ k.entries = o.entries
        /\ k.attempts = o.attempts /\ k.isn = o.isn /\ k.sync = o.sync
        /\ ~k.connected /\ k.res = o.res
    <3>1. CASE s = o.stored
      BY <3>1, <2>1, <2>2, <1>2
    <3>2. CASE s # o.stored
      BY <3>2, <2>1, <2>2, <1>2 DEF ClientFields
    <3> QED  BY <3>1, <3>2
  <2>4. CallOK(c, k) /\ PeerOK(c, k)
    BY <2>1, <2>3, <1>2 DEF CallOK, PeerOK
  <2>5. Becomes(c, k)
    BY <1>1, <1>4, <2>2 DEF Deliver
  <2> QED  BY <1>1, <2>3, <2>4, <2>5, BecomesKeeps
<1>5. CASE ~o.sync
  <2>1. PICK k : k = Response(o, m).k /\ Answered(c, o, k)
    BY <1>2, <1>3, ResponseIs
  <2>2. CallOK(c, k)
    BY <1>2, <1>5, <2>1 DEF CallOK, Answered
  <2>3. PeerOK(c, k)
    <3>1. k.result # "success"
      BY <1>2, <1>5, <2>1 DEF CallOK, Answered
    <3>2. k \in ClientFields /\ k.res \in Answers(c)
          /\ (k.connected => /\ k.res \in Handshakes
                             /\ k.peer = k.res.sid /\ k.peerISN = k.res.isn)
      BY <2>1 DEF Answered
    <3> QED  BY <3>1, <3>2, RendezvousPeer DEF PeerOK
  <2>4. Becomes(c, k)
    BY <1>1, <1>5, <2>1 DEF Deliver
  <2> QED  BY <1>1, <2>1, <2>2, <2>3, <2>4, BecomesKeeps DEF Answered
<1> QED  BY <1>4, <1>5

\* A blocking connect() takes a stored packet.
LEMMA LoopTakeKeeps ==
  ASSUME ConnectInv, NEW c \in Clients, LoopTake(c)
  PROVE  ConnectInv'
<1>1. PICK o \in ClientFields : o = client[c]
  BY DEF ConnectInv, ConnectTypeOK
<1>2. /\ CallOK(c, o) /\ o.pc = "wait" /\ o.stored # <<>> /\ o.sync
      /\ ~o.connected /\ o.result # "success"
  BY <1>1 DEF ConnectInv, LoopTake, CallOK
<1>3. /\ o.stored \in Seq(ForClient(c)) /\ o.stored \in Seq(Packets)
  BY <1>2 DEF CallOK, ClientFields
<1>4. PICK m \in ForClient(c) : m = Head(o.stored)
  BY <1>2, <1>3, HeadTailProperties
<1>5. PICK t \in Seq(Packets) : t = Tail(o.stored) /\ t \in Seq(ForClient(c))
  BY <1>2, <1>3, HeadTailProperties
<1>6. PICK p : p = [o EXCEPT !.stored = t]
  OBVIOUS
<1>7. /\ p \in ClientFields /\ p.stored = t
      /\ p.pc = o.pc /\ p.result = o.result
      /\ p.connecting = o.connecting /\ p.entries = o.entries
      /\ p.attempts = o.attempts /\ p.isn = o.isn /\ p.sync = o.sync
      /\ ~p.connected /\ p.res = o.res
  BY <1>2, <1>6 DEF ClientFields
<1>8. CallOK(c, p)
  BY <1>2, <1>5, <1>7 DEF CallOK
<1>9. PICK r : r = Response(p, m)
  OBVIOUS
<1>10. PICK q : /\ q = r.k /\ Answered(c, p, q)
                /\ r.code = 1 => ~q.connected
                /\ (~rendezvous /\ q.connected) =>
                       m \in Handshakes /\ q.res = m /\ m.req # 1
  BY <1>7, <1>8, <1>9, ResponseIs
<1>11. Becomes(c, IF r.code = 1 THEN q
                  ELSE [q EXCEPT !.pc = "done", !.result = Verdict(q)])
  <2>1. p = [client[c] EXCEPT !.stored = Tail(@)]
    BY <1>1, <1>5, <1>6
  <2>2. r = Response([client[c] EXCEPT !.stored = Tail(@)], Head(client[c].stored))
    BY <2>1, <1>1, <1>4, <1>9
  <2> QED  BY <2>2, <1>10 DEF LoopTake
<1>12. CASE r.code = 1
  <2>1. CallOK(c, q) /\ PeerOK(c, q)
    BY <1>2, <1>7, <1>10, <1>12 DEF CallOK, PeerOK, Answered
  <2> QED  BY <1>1, <1>7, <1>10, <1>11, <1>12, <2>1, BecomesKeeps DEF Answered
<1>13. CASE r.code # 1
  <2>1. PICK v : v = Verdict(q) /\ v \in {"rejected", "insecure", "success"}
    BY DEF Verdict
  <2>2. q \in ClientFields
    BY <1>10 DEF Answered
  <2>3. PICK k : k = [q EXCEPT !.pc = "done", !.result = v]
    OBVIOUS
  <2>4. /\ k \in ClientFields /\ k.pc = "done" /\ k.result = v /\ k.stored = q.stored
        /\ k.connecting = q.connecting /\ k.entries = q.entries
        /\ k.attempts = q.attempts /\ k.isn = q.isn /\ k.sync = q.sync
        /\ k.connected = q.connected /\ k.res = q.res
        /\ k.peer = q.peer /\ k.peerISN = q.peerISN /\ k.mss = q.mss
    BY <2>1, <2>2, <2>3 DEF ClientFields
  <2>5. CallOK(c, k)
    BY <1>2, <1>7, <1>10, <2>4 DEF CallOK, Answered
  <2>6. PeerOK(c, k)
    <3>1. ASSUME NoTwins, ~rendezvous, v = "success", k.connected
          PROVE  ServedAs(c, k)
      <4>1. /\ m \in Handshakes /\ k.res = m /\ m.req # 1
            /\ k.peer = m.sid /\ k.mss = m.mss
        BY <1>10, <2>4, <3>1 DEF Answered
      <4>2. m.req # Rejected /\ k.isn = m.isn
        BY <2>1, <2>4, <3>1, <4>1 DEF Verdict
      <4>3. k.isn \in Drawn(c)
        BY <2>5, <3>1 DEF CallOK
      <4> QED  BY <3>1, <4>1, <4>2, <4>3, RegularPeer
    <3>2. ASSUME Pairs, rendezvous, k.connected, NEW d \in Clients, c # d
          PROVE  k.peer = d /\ NumberOf(d, k.peerISN)
      <4>1. /\ k.res \in Answers(c) /\ k.res \in Handshakes
            /\ k.peer = k.res.sid /\ k.peerISN = k.res.isn
        BY <1>10, <2>4, <3>2 DEF Answered
      <4> QED  BY <2>4, <3>2, <4>1, RendezvousPeer
    <3> QED  BY <2>4, <3>1, <3>2 DEF PeerOK
  <2>7. Becomes(c, k)
    BY <1>11, <1>13, <2>1, <2>3
  <2>8. k.attempts = client[c].attempts /\ k.isn = client[c].isn
    BY <1>1, <1>7, <1>10, <2>4 DEF Answered
  <2> QED  BY <2>4, <2>5, <2>6, <2>7, <2>8, BecomesKeeps
<1> QED  BY <1>12, <1>13

\* A connected socket answers a handshake.
LEMMA AnswerKeeps ==
  ASSUME ConnectInv, NEW c \in Clients, NEW m, AnswerAgain(c, m)
  PROVE  ConnectInv'
<1>1. PICK k \in ClientFields : k = client[c]
  BY DEF ConnectInv, ConnectTypeOK
<1>2. CallOK(c, k) /\ PeerOK(c, k) /\ k.attempts >= 1 /\ k.attempts \in Nat
  BY <1>1 DEF ConnectInv, AnswerAgain, CallOK, ClientFields
<1>3. FromClient(c, k, Answer(c))
  <2>1. /\ Other(Host(c)) \in Hosts /\ k.peer \in Nat /\ c \in Nat
        /\ k.isn \in Numbers /\ k.mss \in Nat /\ NoCookie \in Int
        /\ (IF rendezvous THEN -2 ELSE -1) \in Int
    BY HostOf, ConnectConstants DEF ClientFields, NoCookie
  <2>2. Answer(c) \in Handshakes /\ Answer(c).sid = c
        /\ Answer(c).to = Other(Host(c)) /\ Answer(c).isn = k.isn
    BY <1>1, <2>1 DEF Answer, Handshake, Handshakes
  <2> QED  BY <1>2, <2>2 DEF FromClient, Packets
<1>4. client' = [client EXCEPT ![c] = k]
  BY <1>1 DEF AnswerAgain, ConnectInv, ConnectTypeOK
<1>5. /\ UNCHANGED <<scenario, status, server, queued, minute>>
      /\ net \subseteq net' /\ \A q \in net' : q \in net \/ FromClient(c, k, q)
  BY <1>3 DEF AnswerAgain
<1> QED  BY <1>1, <1>2, <1>4, <1>5, ClientStep

-----------------------------------------------------------------------------
(* Steps of the listener, and of its sockets.                              *)

\* A step without a client keeps the invariant when what it says is true.
LEMMA ServerStep ==
  ASSUME ConnectInv, Onwards, UNCHANGED <<scenario, client>>, minute' \in Nat,
         status' \in [ServerIds -> Statuses],
         server' \in [ServerIds -> [peer : Nat, reqISN : Numbers, mss : Nat]],
         ServedInv',
         \A m \in net' : m \in net \/ (m \in Packets /\ (m.kind = "hs" => Claims(m)'))
  PROVE  ConnectInv'
<1>1. ConnectTypeOK /\ ConnectTypeOK'
  BY DEF ConnectInv, ConnectTypeOK
<1>2. ASSUME NEW d \in Clients
      PROVE  CallOK(d, client[d])' /\ PeerOK(d, client[d])'
  <2>1. PICK j : j = client[d]
    OBVIOUS
  <2>2. CallOK(d, j) /\ PeerOK(d, j)
    BY <2>1 DEF ConnectInv
  <2>3. CallOK(d, j)' /\ PeerOK(d, j)'
    BY <2>2, <1>1, CallStays, PeerStays
  <2> QED  BY <2>1, <2>3
<1>3. ASSUME NEW m \in net', m.kind = "hs"
      PROVE  Claims(m)'
  <2>1. CASE m \in net
    <3>1. m \in Handshakes /\ Claims(m)
      BY <1>1, <1>3, <2>1 DEF ConnectInv, ConnectTypeOK, Packets, Traffics
    <3> QED  BY <3>1, <1>1, ClaimsStay
  <2>2. CASE m \notin net
    BY <1>3, <2>2
  <2> QED  BY <2>1, <2>2
<1> QED  BY <1>1, <1>2, <1>3 DEF ConnectInv

\* The same when the listener's sockets stay as they are.
LEMMA ReplyStep ==
  ASSUME ConnectInv, net \subseteq net', UNCHANGED <<scenario, client, status, server>>,
         minute' \in Nat,
         \A m \in net' : m \in net \/ (m \in Packets /\ (m.kind = "hs" => Claims(m)))
  PROVE  ConnectInv'
<1>1. Onwards
  <2>1. \A d \in Clients : client[d].attempts \in Nat
    BY DEF ConnectInv, ConnectTypeOK, ClientFields
  <2> QED  BY <2>1 DEF Onwards
<1>2. ServedInv'
  BY DEF ConnectInv, ServedInv, Drawn, draws
<1>3. /\ status' \in [ServerIds -> Statuses]
      /\ server' \in [ServerIds -> [peer : Nat, reqISN : Numbers, mss : Nat]]
  BY DEF ConnectInv, ConnectTypeOK
<1>4. ASSUME NEW m \in net', m \notin net
      PROVE  m \in Packets /\ (m.kind = "hs" => Claims(m)')
  <2>1. m \in Packets /\ (m.kind = "hs" => Claims(m))
    BY <1>4
  <2>2. m.kind = "hs" => m \in Handshakes
    BY <2>1 DEF Packets, Traffics
  <2> QED  BY <2>1, <2>2, <1>1, ClaimsStay DEF ConnectInv
<1> QED  BY <1>1, <1>2, <1>3, <1>4, ServerStep

\* A reply with its cookie replaced.
LEMMA CookieIs ==
  ASSUME NEW g \in Handshakes, NEW q \in Int, NEW h, h = [g EXCEPT !.cookie = q]
  PROVE  h \in Handshakes /\ h.to = g.to /\ h.req = g.req
  BY DEF Handshakes

\* A request comes, and is answered with a cookie, a refusal, or a socket.
LEMMA ListenerKeeps ==
  ASSUME ConnectInv, NEW m, ListenerRecv(m)
  PROVE  ConnectInv'
<1>1. /\ m \in Handshakes /\ ~rendezvous /\ m.sid \in Clients /\ m.isn \in Drawn(m.sid)
      /\ m.sid \in Nat /\ m.isn \in Numbers /\ m.mss \in Nat /\ minute \in Nat
  <2>1. m \in net /\ m.kind = "hs" /\ m.to = "b" /\ ~rendezvous
    BY DEF ListenerRecv
  <2>2. m \in Handshakes /\ Claims(m) /\ minute \in Nat
    BY <2>1 DEF ConnectInv, ConnectTypeOK, Packets, Traffics
  <2> QED  BY <2>1, <2>2 DEF Claims, Handshakes
<1>2. UNCHANGED <<scenario, client, minute>>
  BY DEF ListenerRecv
<1>3. CASE /\ net' = net \cup {[Reply(m, 1, m.sid, m.isn, m.mss) EXCEPT !.cookie = minute]}
           /\ UNCHANGED <<status, server>>
  <2>1. PICK g : g = Reply(m, 1, m.sid, m.isn, m.mss)
    OBVIOUS
  <2>2. g \in Handshakes /\ g.to = "a" /\ g.req = 1
    BY <1>1, <2>1 DEF Reply, Handshake, Handshakes, Hosts
  <2>3. PICK q \in Int : q = minute
    BY <1>1
  <2>4. PICK h : h = [g EXCEPT !.cookie = q]
    OBVIOUS
  <2>5. h \in Handshakes /\ h.to = "a" /\ h.req = 1
    BY <2>2, <2>4, CookieIs
  <2>6. h \in Packets /\ Claims(h)
    BY <1>1, <2>5 DEF Claims, Packets
  <2>7. net' = net \cup {h}
    BY <1>3, <2>1, <2>3, <2>4, Zenon
  <2> QED  BY <1>1, <1>2, <1>3, <2>6, <2>7, ReplyStep
<1>4. CASE Refuse(m) /\ UNCHANGED <<status, server>>
  <2>1. PICK h : h = Reply(m, Rejected, m.sid, m.isn, m.mss)
    OBVIOUS
  <2>2. h \in Handshakes /\ h.to = "a" /\ h.req = Rejected
    BY <1>1, <2>1 DEF Rejected, Reply, Handshake, Handshakes, Hosts
  <2>3. h \in Packets /\ Claims(h)
    BY <1>1, <2>2 DEF Claims, Packets
  <2> QED  BY <1>1, <1>2, <1>4, <2>1, <2>3, ReplyStep DEF Refuse
<1>5. CASE AnswerRepeated(m)
  <2>1. PICK s \in Located(m) :
            net' = net \cup {Reply(m, -1, s, server[s].reqISN, server[s].mss)}
    BY <1>5 DEF AnswerRepeated
  <2>2. s \in ServerIds /\ status[s] # "absent" /\ KeyOf(s) = PeerKey(m.sid, m.isn)
    BY <2>1 DEF Located, Newest, Known, KeyOf
  <2>3. s \in Nat /\ server[s].reqISN \in Numbers /\ server[s].mss \in Nat
    BY <2>2, ConnectConstants DEF ConnectInv, ConnectTypeOK
  <2>4. PICK h : h = Reply(m, -1, s, server[s].reqISN, server[s].mss)
    OBVIOUS
  <2>5. /\ h \in Handshakes /\ h.to = "a" /\ h.id = m.sid /\ h.sid = s
        /\ h.isn = server[s].reqISN /\ h.mss = server[s].mss
    BY <1>1, <2>3, <2>4 DEF Reply, Handshake, Handshakes, Hosts
  <2>6. h \in Packets /\ Claims(h)
    BY <1>1, <2>2, <2>5 DEF Claims, Packets
  <2> QED  BY <1>1, <1>2, <1>5, <2>1, <2>4, <2>6, ReplyStep DEF AnswerRepeated
<1>6. CASE AnswerNew(m)
  <2>1. PICK s \in Unused, x \in Nat :
          /\ x = Smaller(MSS["b"], m.mss)
          /\ status' = [status EXCEPT ![s] = "live"]
          /\ server' = [server EXCEPT ![s] =
                 [peer |-> m.sid, reqISN |-> m.isn, mss |-> x]]
          /\ net' = net \cup {Reply(m, -1, s, m.isn, x), Traffic("a", m.sid)}
    BY <1>1, <1>6, ConnectConstants DEF AnswerNew, Smaller
  <2>2. s \in ServerIds /\ status[s] = "absent" /\ s \in Nat
    BY <2>1, ConnectConstants DEF Unused
  <2>3. /\ status \in [ServerIds -> Statuses]
        /\ server \in [ServerIds -> [peer : Nat, reqISN : Numbers, mss : Nat]]
    BY DEF ConnectInv, ConnectTypeOK
  <2>4. /\ status' \in [ServerIds -> Statuses]
        /\ server' \in [ServerIds -> [peer : Nat, reqISN : Numbers, mss : Nat]]
    BY <1>1, <2>1, <2>2, <2>3 DEF Statuses
  <2>5. /\ status'[s] = "live" /\ server'[s].peer = m.sid
        /\ server'[s].reqISN = m.isn /\ server'[s].mss = x
        /\ \A t \in ServerIds : t # s => status'[t] = status[t] /\ server'[t] = server[t]
    BY <2>1, <2>2, <2>3
  <2>6. Onwards
    <3>1. \A d \in Clients : client[d].attempts \in Nat
      BY DEF ConnectInv, ConnectTypeOK, ClientFields
    <3> QED  BY <3>1, <1>2, <2>1, <2>2, <2>5 DEF Onwards
  <2>7. draws' = draws /\ rendezvous' = rendezvous
    BY <1>2 DEF draws, rendezvous
  <2>8. ServedInv'
    BY <1>1, <2>5, <2>7 DEF ConnectInv, ServedInv, Drawn
  <2>9. PICK h : h = Reply(m, -1, s, m.isn, x)
    OBVIOUS
  <2>10. /\ h \in Handshakes /\ h.to = "a" /\ h.id = m.sid /\ h.sid = s
         /\ h.isn = m.isn /\ h.mss = x
    BY <1>1, <2>1, <2>2, <2>9 DEF Reply, Handshake, Handshakes, Hosts
  <2>11. Claims(h)'
    <3>1. KeyOf(s)' = PeerKey(m.sid, m.isn) /\ m.isn \in Drawn(m.sid)'
      BY <1>1, <2>5, <2>7 DEF KeyOf, Drawn
    <3> QED  BY <3>1, <1>1, <2>2, <2>5, <2>7, <2>10 DEF Claims
  <2>12. PICK y : y = Traffic("a", m.sid)
    OBVIOUS
  <2>13. y \in Packets /\ y.kind # "hs"
    BY <1>1, <2>12 DEF Traffic, Packets, Traffics, Hosts
  <2>14. net' = net \cup {h, y} /\ h \in Packets
    BY <2>1, <2>9, <2>10, <2>12 DEF Packets
  <2> QED  BY <1>1, <1>2, <2>4, <2>6, <2>8, <2>11, <2>13, <2>14, ServerStep
<1> QED  BY <1>3, <1>4, <1>5, <1>6 DEF ListenerRecv, AnswerFull

\* A socket of the listener breaks, or is collected.
LEMMA LeaveKeeps ==
  ASSUME ConnectInv, NEW s \in ServerIds, Break(s) \/ Collect(s)
  PROVE  ConnectInv'
<1>1. PICK new \in {"broken", "gone"} :
        /\ status' = [status EXCEPT ![s] = new] /\ status[s] # "absent"
        /\ UNCHANGED <<scenario, client, server, minute, net>>
  BY DEF Break, Collect
<1>2. /\ status \in [ServerIds -> Statuses] /\ minute' \in Nat
      /\ server' \in [ServerIds -> [peer : Nat, reqISN : Numbers, mss : Nat]]
  BY <1>1 DEF ConnectInv, ConnectTypeOK
<1>3. /\ status' \in [ServerIds -> Statuses]
      /\ \A t \in ServerIds : status'[t] # "absent" <=> status[t] # "absent"
  BY <1>1, <1>2 DEF Statuses
<1>4. Onwards
  <2>1. \A d \in Clients : client[d].attempts \in Nat
    BY DEF ConnectInv, ConnectTypeOK, ClientFields
  <2> QED  BY <2>1, <1>1, <1>3 DEF Onwards
<1>5. ServedInv'
  BY <1>1, <1>3 DEF ConnectInv, ServedInv, Drawn, draws
<1> QED  BY <1>1, <1>2, <1>3, <1>4, <1>5, ServerStep

\* Every step keeps what the ends know of each other.
LEMMA ConnectInvStep ==
  ASSUME ConnectInv, [Next]_vars
  PROVE  ConnectInv'
<1>1. ASSUME NEW c \in Clients,
             \/ ConnectBegin(c) \/ ConnectReady(c) \/ TimePasses(c) \/ ConnTimer(c)
             \/ LoopTake(c) \/ LoopTimeout(c) \/ Close(c)
      PROVE  ConnectInv'
  BY <1>1, BeginKeeps, ReadyKeeps, TimeKeeps, TimerKeeps, LoopTakeKeeps,
     LoopTimeoutKeeps, CloseKeeps
<1>2. ASSUME NEW c \in Clients, NEW m \in net, Deliver(c, m) \/ AnswerAgain(c, m)
      PROVE  ConnectInv'
  BY <1>2, DeliverKeeps, AnswerKeeps
<1>3. ASSUME NEW m \in net, ListenerRecv(m)
      PROVE  ConnectInv'
  BY <1>3, ListenerKeeps
<1>4. ASSUME NEW s \in ServerIds, Break(s) \/ Collect(s)
      PROVE  ConnectInv'
  BY <1>4, LeaveKeeps
<1>5. CASE Accept \/ MinutePasses \/ UNCHANGED vars
  <2>1. /\ UNCHANGED <<scenario, client, status, server, net>>
        /\ minute' = minute \/ minute' = minute + 1
    BY <1>5 DEF Accept, MinutePasses, vars
  <2>2. minute' \in Nat
    BY <2>1 DEF ConnectInv, ConnectTypeOK
  <2> QED  BY <2>1, <2>2, ReplyStep
<1> QED  BY <1>1, <1>2, <1>3, <1>4, <1>5 DEF Next

\* The invariant holds throughout.
THEOREM ConnectInvariance == Spec => []ConnectInv
  BY ConnectInvInit, ConnectInvStep, PTL DEF Spec

\* Whatever old, repeated or foreign answers arrive, a blocking connect() that
\* returns with its socket connected has the server's socket that was made for
\* its last request, with its number and packet size, provided the key by which
\* the listener knows a request tells the clients with that number apart.
THEOREM SyncAgreement ==
  ASSUME NoTwins
  PROVE  Spec => []SyncAgrees
<1>1. ConnectInv => SyncAgrees
  <2> SUFFICES ASSUME ConnectInv, NEW c \in Clients, ~rendezvous,
                      client[c].result = "success", client[c].connected
               PROVE  ServedAs(c, client[c])
    BY DEF SyncAgrees, ServedAs
  <2> QED  BY DEF ConnectInv, PeerOK
<1> QED  BY <1>1, ConnectInvariance, PTL

\* The two ends of a rendezvous take each other for the peer and know the
\* other's number, unless the other has called again.
THEOREM RendezvousAgreement ==
  ASSUME Pairs
  PROVE  Spec => []RendezvousAgrees
<1>1. ConnectInv => RendezvousAgrees
  <2> SUFFICES ASSUME ConnectInv, rendezvous, NEW c \in Clients, NEW d \in Clients,
                      c # d, client[c].connected
               PROVE  client[c].peer = d /\ NumberOf(d, client[c].peerISN)
    BY DEF RendezvousAgrees, NumberOf
  <2> QED  BY DEF ConnectInv, PeerOK
<1> QED  BY <1>1, ConnectInvariance, PTL
=============================================================================
