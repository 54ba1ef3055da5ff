-------------------------------- MODULE Poll --------------------------------
(***************************************************************************)
(* Waiting for a connected stream socket: CEPoll, which keeps marks of     *)
(* what is ready, and select and selectEx, which look at the socket        *)
(* itself.  The threads are the application, whose calls do not block      *)
(* (m_bSynSending and m_bSynRecving are FALSE), the receiving worker, and  *)
(* the garbage collector.  There is one poll.                              *)
(*                                                                         *)
(* A step is what runs under m_EPollLock, or a change of a buffer: a       *)
(* buffer is changed, looked at and reported in three steps, and the steps *)
(* of the two threads mix.  So a mark may be cleared although its reason   *)
(* has just come again.  The application here makes up for it: before it   *)
(* waits, it has called recv and send until they had nothing more to do.   *)
(***************************************************************************)
EXTENDS Integers

CONSTANTS RcvBufSize,  \* bound: packets of data the application leaves unread
          SndBufSize   \* m_iSndBufSize

ASSUME PollAssumption == RcvBufSize \in Nat \ {0} /\ SndBufSize \in Nat \ {0}

VARIABLES
    state,   \* "CONNECTED", "BROKEN" (m_bBroken, m_bClosing) or "CLOSED"
    data,    \* getRcvDataSize of the receiving buffer
    buf,     \* getCurrBufSize of the sending buffer
    watch,   \* where the poll watches it: m_sUDTSocksIn, m_sUDTSocksOut
    ready,   \* where it is marked: m_sUDTReads, m_sUDTWrites
    polled,  \* whether m_sPollID holds the poll
    tell,    \* what the worker has changed and not reported yet
    app,     \* the application's thread: pc, and the calls to repeat before it waits
    unheard   \* history: why a break was not reported, if it was not

pollVars == <<state, data, buf, watch, ready, polled, tell, app, unheard>>
socketVars == <<state, data, buf>>
markVars == <<watch, ready, polled>>

Events == {"IN", "OUT"}

PollInit ==
    /\ state = "CONNECTED" /\ data = 0 /\ buf = 0
    /\ watch = {} /\ ready = {} /\ polled = FALSE
    /\ tell = {} /\ app = [pc |-> "free", again |-> {}]
    /\ unheard = "nothing"

\* update_events(..., TRUE) and update_events(..., FALSE), called with m_sPollID
Enabled(e) == IF polled THEN ready \cup (e \cap watch) ELSE ready
Disabled(e) == IF polled THEN ready \ e ELSE ready

HasRoom == buf < SndBufSize

-----------------------------------------------------------------------------
(* The receiving worker.                                                   *)

\* sendCtrl(2) hands packets over to the reader and then reports that.
AckData ==
    /\ state = "CONNECTED" /\ tell = {}
    /\ data' \in data + 1 .. RcvBufSize
    /\ tell' = {"IN"}
    /\ UNCHANGED <<state, buf, markVars, app, unheard>>

\* So does an ACK that releases packets.
Acked ==
    /\ state = "CONNECTED" /\ tell = {} /\ buf > 0
    /\ buf' \in 0 .. buf - 1
    /\ tell' = {"OUT"}
    /\ UNCHANGED <<state, data, markVars, app, unheard>>

\* The EXP timer gives the connection up.
Expire ==
    /\ state = "CONNECTED" /\ tell = {}
    /\ state' = "BROKEN"
    /\ tell' = Events
    /\ UNCHANGED <<data, buf, markVars, app, unheard>>

\* The peer has closed: blocked calls are woken, polls are not told.
Shutdown ==
    /\ state = "CONNECTED" /\ tell = {}
    /\ state' = "BROKEN"
    /\ unheard' = "shutdown"
    /\ UNCHANGED <<data, buf, markVars, tell, app>>

Tell ==
    /\ tell # {}
    /\ ready' = Enabled(tell)
    /\ tell' = {}
    /\ UNCHANGED <<socketVars, watch, polled, app, unheard>>

-----------------------------------------------------------------------------
(* The application.                                                        *)

Goes(pc) == app' = [app EXCEPT !.pc = pc]

\* epoll_add_usock: the watch sets, m_sPollID, and what is ready already.
AddWatch ==
    /\ app.pc = "free" /\ state # "CLOSED"
    /\ \E e \in SUBSET Events \ {{}} : watch' = watch \cup e
    /\ Goes("add id")
    /\ UNCHANGED <<socketVars, ready, polled, tell, unheard>>

AddId ==
    /\ app.pc = "add id"
    /\ polled' = TRUE
    /\ IF state = "CONNECTED" THEN Goes("add in") ELSE Goes("free")
    /\ unheard' = IF state = "CONNECTED" \/ tell # {} THEN unheard ELSE "added late"
    /\ UNCHANGED <<socketVars, watch, ready, tell>>

\* Variant: it does not look whether there is data already.
AddInBlind ==
    /\ app.pc = "add in"
    /\ Goes("add out")
    /\ UNCHANGED <<socketVars, markVars, tell, unheard>>

AddIn ==
    /\ app.pc = "add in"
    /\ ready' = IF data > 0 THEN Enabled({"IN"}) ELSE ready
    /\ Goes("add out")
    /\ UNCHANGED <<socketVars, watch, polled, tell, unheard>>

AddOut ==
    /\ app.pc = "add out"
    /\ ready' = IF HasRoom THEN Enabled({"OUT"}) ELSE ready
    /\ Goes("free")
    /\ UNCHANGED <<socketVars, watch, polled, tell, unheard>>

\* Variant: the watch sets keep the socket.
RemoveWatchKept ==
    /\ app.pc = "free" /\ polled /\ state # "CLOSED"
    /\ Goes("remove marks")
    /\ UNCHANGED <<socketVars, markVars, tell, unheard>>

\* epoll_remove_usock: the watch sets, the marks, m_sPollID.
RemoveWatch ==
    /\ app.pc = "free" /\ polled /\ state # "CLOSED"
    /\ watch' = {}
    /\ Goes("remove marks")
    /\ UNCHANGED <<socketVars, ready, polled, tell, unheard>>

RemoveMarks ==
    /\ app.pc = "remove marks"
    /\ ready' = ready \ Events
    /\ Goes("remove id")
    /\ UNCHANGED <<socketVars, watch, polled, tell, unheard>>

RemoveId ==
    /\ app.pc = "remove id"
    /\ polled' = FALSE
    /\ Goes("free")
    /\ UNCHANGED <<socketVars, watch, ready, tell, unheard>>

\* recv reads, looks whether anything is left, and clears the mark if not.
RecvRead ==
    /\ app.pc = "free" /\ state # "CLOSED" /\ data > 0
    /\ data' \in 0 .. data - 1
    /\ app' = [pc |-> "recv look", again |-> app.again \cup {"IN"}]
    /\ UNCHANGED <<state, buf, markVars, tell, unheard>>

RecvLook ==
    /\ app.pc = "recv look"
    /\ IF data <= 0 THEN Goes("recv clear") ELSE Goes("free")
    /\ UNCHANGED <<socketVars, markVars, tell, unheard>>

RecvClear ==
    /\ app.pc = "recv clear"
    /\ ready' = Disabled({"IN"})
    /\ Goes("free")
    /\ UNCHANGED <<socketVars, watch, polled, tell, unheard>>

\* Without data it throws at once, and on a broken socket it says so.
RecvThrows ==
    /\ app.pc = "free" /\ (data = 0 \/ state = "CLOSED")
    /\ app' = [pc |-> IF state = "CONNECTED" THEN "free" ELSE "informed",
               again |-> app.again \ {"IN"}]
    /\ UNCHANGED <<socketVars, markVars, tell, unheard>>

\* send fills the buffer, and clears the mark if there is no room left.
SendAdd ==
    /\ app.pc = "free" /\ state = "CONNECTED" /\ HasRoom
    /\ buf' \in buf + 1 .. SndBufSize
    /\ app' = [pc |-> "send look", again |-> app.again \cup {"OUT"}]
    /\ UNCHANGED <<state, data, markVars, tell, unheard>>

SendLook ==
    /\ app.pc = "send look"
    /\ IF HasRoom THEN Goes("free") ELSE Goes("send clear")
    /\ UNCHANGED <<socketVars, markVars, tell, unheard>>

SendClear ==
    /\ app.pc = "send clear"
    /\ ready' = Disabled({"OUT"})
    /\ Goes("free")
    /\ UNCHANGED <<socketVars, watch, polled, tell, unheard>>

SendThrows ==
    /\ app.pc = "free" /\ (~HasRoom \/ state # "CONNECTED")
    /\ app' = [pc |-> IF state = "CONNECTED" THEN "free" ELSE "informed",
               again |-> app.again \ {"OUT"}]
    /\ UNCHANGED <<socketVars, markVars, tell, unheard>>

\* epoll_wait, for what the poll watches
Wait ==
    /\ app.pc = "free" /\ polled /\ app.again = {}
    /\ Goes("wait")
    /\ UNCHANGED <<socketVars, markVars, tell, unheard>>

\* returns the marked sockets,
WaitReturns ==
    /\ app.pc = "wait" /\ ready # {}
    /\ app' = [pc |-> "free", again |-> ready]
    /\ UNCHANGED <<socketVars, markVars, tell, unheard>>

\* refuses to wait for nothing for ever,
WaitThrows ==
    /\ app.pc = "wait" /\ watch = {}
    /\ Goes("informed")
    /\ UNCHANGED <<socketVars, markVars, tell, unheard>>

\* or gives up when its time is over.
WaitExpires ==
    /\ app.pc = "wait" /\ ready = {}
    /\ Goes("free")
    /\ UNCHANGED <<socketVars, markVars, tell, unheard>>

\* selectEx tells of a broken socket in a set of its own,
Excepted == state # "CONNECTED"
Readable == ~Excepted /\ data > 0
Writable == ~Excepted /\ HasRoom
SelectedEx ==
    (IF Readable THEN {"IN"} ELSE {}) \cup (IF Writable THEN {"OUT"} ELSE {})

SelectEx ==
    /\ app.pc = "free"
    /\ \/ Excepted /\ Goes("informed")
       \/ SelectedEx # {} /\ app' = [app EXCEPT !.again = @ \cup SelectedEx]
    /\ UNCHANGED <<socketVars, markVars, tell, unheard>>

\* select in both of the others, and refuses a closed one.
Selected == IF Excepted THEN Events ELSE SelectedEx

Select ==
    /\ app.pc = "free"
    /\ \/ state = "CLOSED" /\ Goes("informed")
       \/ /\ state # "CLOSED" /\ Selected # {}
          /\ app' = [app EXCEPT !.again = @ \cup Selected]
    /\ UNCHANGED <<socketVars, markVars, tell, unheard>>

-----------------------------------------------------------------------------
\* The garbage collector closes a broken socket, a second after it was found so
\* and with neither the worker nor a call at it: close takes it off the watch
\* sets, the marks stay.  Removing it from the poll then changes nothing: only
\* a socket that is located has its marks cleared.
Collect ==
    /\ state = "BROKEN" /\ tell = {} /\ app.pc \in {"free", "wait", "informed"}
    /\ state' = "CLOSED"
    /\ watch' = IF polled THEN {} ELSE watch
    /\ UNCHANGED <<data, buf, ready, polled, tell, app, unheard>>

PollNext ==
    \/ AckData \/ Acked \/ Expire \/ Shutdown \/ Tell
    \/ AddWatch \/ AddId \/ AddIn \/ AddOut
    \/ RemoveWatch \/ RemoveMarks \/ RemoveId
    \/ RecvRead \/ RecvLook \/ RecvClear \/ RecvThrows
    \/ SendAdd \/ SendLook \/ SendClear \/ SendThrows
    \/ Wait \/ WaitReturns \/ WaitThrows \/ WaitExpires
    \/ Select \/ SelectEx
    \/ Collect

PollSpec == PollInit /\ [][PollNext]_pollVars

-----------------------------------------------------------------------------
(* Properties.                                                             *)

\* An application that calls recv and send until they have nothing to do does
\* not sleep in epoll_wait beside work: what selectEx would report then is
\* marked, and so is a break, if the worker has no report due.  (Two breaks are
\* never reported: the peer's shutdown, and one before the socket was added.)
SleeperHasNoWork ==
    app.pc = "wait" /\ tell = {} /\ state # "CLOSED" /\ unheard # "added late" =>
        /\ SelectedEx \cap watch \subseteq ready
        /\ Excepted /\ unheard = "nothing" => watch \subseteq ready

\* A socket that was taken off the poll is not marked there, whatever the worker
\* reports meanwhile: "they cannot be set again" (core.cpp:2667).
RemovedIsUnmarked ==
    ~polled /\ app.pc = "free" => ready = {}
=============================================================================
