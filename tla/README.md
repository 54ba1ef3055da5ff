# UDT in TLA+

A specification of the UDT 4 library under `src/udt4/src`: TLA+ modules of its
protocol and data structures, TLC configurations that check them on small
instances, and TLAPS proofs for every value of the constants.

Line numbers refer to `src/udt4/src/` unless a path is given.

## 1. The system

UDT is a reliable byte stream (or message) transport over UDP. One multiplexer
(UDP port) has two worker threads: `CSndQueue::worker`, which sends the next
packet of the socket whose time has come, and `CRcvQueue::worker`, which reads
datagrams, runs the handlers of the socket they belong to, and runs the timers
of every socket on its list. Applications call in from their own threads.

| component | state it keeps | operations | talks to |
|---|---|---|---|
| `CUDT` transfer (core.cpp) | `m_iSndLastAck`, `m_iSndLastDataAck`, `m_iSndCurrSeqNo`, `m_iFlowWindowSize`; `m_iRcvLastAck`, `m_iRcvLastAckAck`, `m_iRcvCurrSeqNo`; timers; `m_bBroken` | `send`, `recv`, `packData`, `processCtrl`, `processData`, `sendCtrl`, `checkTimers` | buffers, loss lists, send list, peer |
| `CSeqNo`, `CMsgNo` (common.h) | none | compare, length, offset, increment on a circle of numbers | everywhere |
| `CSndLossList`, `CRcvLossList` (list.cpp) | ranges of lost numbers in static arrays | insert, remove, take or read the first | `packData`, `processCtrl`, `processData` |
| `CSndBuffer`, `CRcvBuffer` (buffer.cpp) | ring of blocks; ring of packets by offset | write, read next, read at offset, release; store, read, acknowledge, drop a message | `CUDT` |
| `CSndUList`, `CSndQueue` (queue.cpp) | heap of sockets by time | insert, update, pop, remove; worker | `CUDT`, `CTimer` |
| `CRcvQueue`, `CRcvUList`, `CHash` (queue.cpp) | list of sockets by last timer check, id table, stored packets | worker, register, remove | `CUDT`, `CUDTUnited` |
| `CUnitQueue` (queue.cpp) | pool of packet buffers and its count | init, increase, getNextAvailUnit | `CRcvQueue`, `CRcvBuffer` |
| file transfer (core.cpp, buffer.cpp) | offsets, file streams, `m_bPeerHealth` | `sendfile`, `recvfile`, error message | `CUDT`, buffers |
| `CACKWindow` (window.cpp) | circular array of ACKs sent | store, acknowledge | `sendCtrl`, `processCtrl` |
| connection setup (core.cpp, `CRendezvousQueue`) | handshake state, cookie, pending connections | `listen`, `connect`, `updateConnStatus` | `CUDTUnited` |
| `CUDTUnited` (api.cpp) | socket table, states, listener queues, closed sockets | socket, bind, listen, accept, connect, close, collector thread | everything |
| `CEPoll` (epoll.cpp) | subscriptions and ready sets | add, remove, update, wait | `CUDT`, `CUDTUnited` |
| `CCC`, `CUDTCC` (ccc.cpp) | rate and congestion window | onACK, onLoss, onTimeout | `CUDT` |
| `CCache` (cache.h, cache.cpp) | what closed connections measured, by host | lookup, update | `CUDT` |
| `CChannel`, `CPacket`, `CTimer`, `CMD5`, the C and Go wrappers | see `PROJECT.json` | | |

What is hard in it:

* **Concurrency.** A handler of the receiving worker, `packData` in the sending
  worker and `send` in an application thread share the sequence counters with
  few locks: `m_AckLock` covers the release of blocks and the lookup of a lost
  one, `m_ListLock` the send list, nothing the flow window, `m_iSndLastAck` or
  the datagram being sent.
* **The network.** Datagrams are lost, duplicated and reordered, control
  packets too; NAKs are sent once and ACKs stop once an ACK2 has come.
* **Two acknowledgement points** at the sender, because lite ACKs move one only.
* **Wrapping numbers** in every comparison, offset and array index.
* **Timers** that act on the same state as late answers.
* **Setup and teardown.** Handshakes are repeated until answered; a listener's
  new socket passes through two locks while it is already being served; a
  closed one is destroyed by a collector once other threads have let it go.

What makes each part correct: the stream arrives in order and complete; the
sender releases only what the receiver has; what is missing is known exactly
and scheduled; honest peers are never taken for attackers; the loss lists are
sets; wrapping is invisible; everything written is eventually delivered; connected
ends mean each other; tables, backlogs and reference counts agree; no waiting
thread and no poller misses its event; what is closed is destroyed.

## 2. Modules

| module | models | used by |
|---|---|---|
| `Stream` | abstract: a FIFO of blocks | `Transfer` |
| `Transfer` | one direction of a connected stream, three sender threads, the receiver, the network | `TransferLive`, `Transfer_proofs` |
| `TransferLive` | the same with losses for good and fairness | |
| `SeqNo` | `CSeqNo` | `SeqWindow`, `LossWindow` |
| `SeqWindow` | the sender's counters as wrapped numbers beside the true distance | `Structures_proofs`, `MCStructures` |
| `LossWindow` | the stretch of numbers a loss list speaks of | `LossSet`, `LossRanges` |
| `LossSet` | abstract: a loss list as a set | the two lists |
| `LossRanges` | what both lists have in common: ranges in cells of arrays | the two lists |
| `SndLossList`, `RcvLossList` | the array implementations | `LossLists_proofs`, `MCStructures` |
| `Messages` | abstract: messages, each read whole and at most once | `Message` |
| `RcvBuffer` | `CRcvBuffer` in message mode, a ring of units with flags | `Message` |
| `Message` | one direction of a message socket: life time, drop requests, order | `Message_proofs` |
| `SndUList` | the heap of sockets, and `CSndQueue::worker` with its sleep and wait | `Queues_proofs` |
| `Connect` | connection setup in both modes, listener, rendezvous queue, network | `Connect_proofs` |
| `United` | `CUDTUnited` with its threads: accept, close, new connections, collector, and the poll | `United_proofs` |
| `UnitQueue` | `CUnitQueue` with its unlocked count, the worker and the readers | `Structures_proofs`, `MCStructures` |
| `AckWindow` | `CACKWindow` | `Structures_proofs`, `MCStructures` |
| `RcvUList` | `CRcvUList`, `CHash` and the worker's loop over them | `Queues_proofs`, `MCStructures` |
| `Loops` | passes of a loop, as a recursive function of their number | `SndUList`, `RcvUList`, the two loss lists, `Loops_proofs` |
| `InfoCache` | `CCache` of `CInfoBlock`s | `Structures_proofs`, `MCStructures` |
| `CongestionCtl` | the decisions of `CUDTCC` | `Structures_proofs`, `MCStructures` |
| `FileTransfer` | `sendfile`, `recvfile`, the file functions of the buffers | `Structures_proofs`, `MCStructures` |
| `Poll` | waiting for a connected socket: the marks of `CEPoll`, `select`, `selectEx` | `Structures_proofs`, `MCStructures` |
| `MCStructures` | ten parts side by side, one of which runs in a behaviour | |
| other `MC*` | instances for TLC | |
| `*_proofs` | theorems and proofs, beside the module they are about | |

### Transfer

`Transfer` splits the code into steps where another thread can come in.

| code | actions |
|---|---|
| `CUDT::send` | `AppSend` (addBuffer), then `AppUpdate` (CSndUList::update) |
| `CSndQueue::worker` | `Pop` (takes the socket off the list and either a loss or a reading of the window), `PackLost` or `PackNew` (rest of `packData`; reinsertion), `SendTo` (outside every lock) |
| `processCtrl`, lite ACK | `RecvLiteAck` (window), `SetLastAck` (acknowledgement) |
| `processCtrl`, ACK | `RecvAck` (checks, window, ACK2), `SetLastAck`, `AckRelease` (under `m_AckLock`), `HandlerUpdate` |
| `processCtrl`, NAK | `RecvNak`, `HandlerUpdate` |
| `checkTimers` at the sender | `ExpTimer`, `ExpBroken`, then `HandlerUpdate` |
| `processData` | `RecvData`, with the NAK it sends |
| `sendCtrl(2)` | `AckTimer` (full ACK), `LightAck` |
| `processCtrl`, ACK2 | `RecvAck2` |
| `CUDT::recv` | `AppRecv` |

Locals a thread holds between two steps are variables: `sndReg` (the lost
number or the window `packData` has read), `sndPkt` (the packet not yet sent),
`ackReg` (the ACK being processed).

Abstractions, and why they keep the behaviour:

* Sequence numbers are unwrapped, from 1. `SeqWindow` shows `CSeqNo` gives the
  same answers for windows shorter than `m_iSeqNoTH`.
* One block per `send`, one whole block per packet and per `recv`. In stream
  mode blocks have no boundaries that matter and their bytes travel together.
* The loss lists are sets: `SndLossList` and `RcvLossList` show that.
* The congestion window is a constant; timers may expire at any moment, so
  every rate is covered. The time an ACK waits for the round trip, and whether
  an ACK2 is due, are free choices.
* `packData` reads `m_iFlowWindowSize` twice in one expression (2315); the
  model reads it once.
* An ACK2 carries the data ACK that `CACKWindow::acknowledge` finds. That the
  array may have overwritten the entry is covered by the ACK2 never arriving.
* The network is a set of messages that only grows: a message may arrive never,
  late, twice, or after later ones.
* `SendTo` sends what the block holds by then: when the block was released
  meanwhile, any later block may be in its place.

### The loss lists

Each list is a record of the fields of the class, with arrays as functions; the
methods are operators on it. `LossWindow` is the environment: which numbers the
callers can ask about, starting at any number of the circle. A drop request of the
sender may reach beyond what was sent, as `packData` then counts those numbers as
sent (core.cpp:2299); the window bounds them like any others. `call` records
the last call with its arguments and answer, so that the refinement of
`LossSet` relates the effect of a call to that very call; it is left out of the
state TLC compares (`VIEW`), because no step depends on it. Cells without a
range keep stale links in the code and `Nil` here. The loops that walk links or merge
and clear ranges are passes of `Repeat` (`Loops`), as many as there are cells at most.

### Message

`Message` is the data path in message mode with one action per handler:
writing a message, `packData` (a new packet, a retransmission, or a drop request
for an expired message), ACK, NAK, EXP timer, `processData`, the drop request at
the receiver, `recvmsg`. `Transfer` has the interleavings inside the handlers,
the lite ACKs and the ACK2s; here they are left out so that boundaries, life
times and the ring of the receiver fit. `RcvBuffer` holds the operators on the
ring: `AddData`, `AckData`, `DropMsg`, `Scanned` (what `scanMsg` gives back), `Found`
(the message it finds) and `ReadMsg`, with the flags
a unit goes through and the two positions `m_iStartPos` and `m_iLastAckPos`.

Abstractions, and what happens where numbers and blocks part:

* A message has a size in packets and a kind: in order or not, with a life time
  or without. A life time may end at any moment. Unordered messages without one
  are left out of the instance for its size, not of the module.
* `recvmsg` and the receiving worker take turns, although no lock protects
  `CRcvBuffer` from the two (a hazard without a property).
* A buffer of the user is as long as the message.
* `dropMsg` compares the whole word that holds the message number with the
  boundary and order bits, so it tags only the middle units of unordered
  messages; the model does the same.
* A drop request that reaches past the largest number sent moves that number by
  more than the blocks of the message (2299), so numbers and blocks part
  (`~Numbered`). Both ends go on: the sender gives its next block a number that is
  ahead of it, takes ACKs and NAKs of numbers no block has, and looks for the
  block of a skipped number behind `m_pLastBlock` (`RetransmitBeyond`,
  `ExpireBeyond`). What `readData` finds there is the rest of a released block, or a
  block that was never written (`Leftover`), whose message number is 0 and whose
  length and life time are not initialized: any are possible. A drop request made of
  those names the run of blocks with that number, which of blocks never written is
  bounded by `StaleRuns`.
* `overrun`: a drop request may move the largest number beyond the receiver's
  ring, and the next ACK moves `m_iLastAckPos` over `m_iStartPos` (the comment
  at buffer.cpp:479 says one slot stays empty to tell full from empty). Both ends
  go on here too; an ACK of an overrun ring advertises what `getAvailBufSize`
  then comes to.
* `astray` counts the steps the sender makes past either point, up to `MaxAstray`;
  the receiver's are not bounded. Three of the four properties are about blocks
  and their numbers and hold until then; `HonestPeerTrusted` holds throughout.
* `CSndBuffer::increase` is left out: it puts new blocks behind the last one, which
  `Leftover` covers by a block never written.
* `RingStarts`: where earlier messages left the start of the ring, so that few
  messages wrap it.

### SndUList

One multiplexer, several sockets. `heap` is `m_pHeap` up to `m_iLastEntry` with
the `m_iHeapLoc` of every socket, `stamp` the times. The methods of `CSndUList`
are one step each under `m_ListLock`, except that an insertion into the empty
heap signals in a step of its own (`signalling`): the worker can test the heap
in between, since it does so under another lock.

| code | actions |
|---|---|
| `CUDT::send`, ACK, NAK, EXP | `GiveWork` with `Update(s, reschedule)` |
| `CUDT::close` | `CloseRemove` (off the list), `CloseDone` (no longer connected) |
| `worker` | `GetNextProcTime`, `SleepTo` (stores the time), `Wake`, `Pop`; or `Window` (tests the heap, waits) |
| `insert_`, its signal | `Signal` |
| the clock | `Tick` |

A socket has a number of packets to send; after each, the time of the next is
any within `Interval`. That a closed window keeps packets back is in
`Transfer`.

### Connect

The state of `CUDT::connect` is a record per client (its call, the fields of its
`CUDT`, its entries in the rendezvous queue, the packets stored for it); the
listener has its sockets, its backlog and the minute its cookie is made from.
Sequence numbers are 0 to 2 * `HalfISN` - 1, so that the key
`(m_PeerID << 30) + m_iISN` (api.cpp:420) collides as it does in 32 bits.

| code | actions |
|---|---|
| `connect(addr)`, before the first request; its loop; its end | `ConnectBegin`, `ConnectReady`; `LoopTake`, `LoopTimeout` |
| `updateConnStatus`: retries, and giving up | `ConnTimer`, with `TimePasses` |
| `CRcvQueue::worker` for a pending client (`connect(response)` at once, or stored) | `Deliver` |
| `processCtrl`, a handshake for a connected socket | `AnswerAgain` |
| `listen`, `newConnection` | `ListenerRecv`: no cookie, wrong cookie, repeated, full, refused, new |
| `accept`, EXP timer, collector | `Accept`, `Break`, `Collect` |
| `CUDT::close` | `Close` |

In a rendezvous a data or keep-alive packet says that the peer is connected, and
`Response` then takes the kept handshake for the answer, if that has a socket type
(702): a request has, the answer of an already connected peer (2198) leaves
it 0 (`HasType`).

Seen while modelling, and part of the model: an entry of a timed-out connect
that stays in the queue clears `m_bConnecting` of the next attempt (queue.cpp:844);
a rejected asynchronous connect becomes connected, because 1002 is only looked at
by the blocking call (685); the cookie check compares with this minute and the
last one but the caller is not asked to come again (2484); a rendezvous peer that
timed out and called again may be known by its old number. The first three have
no document to disagree with and no property; the last is an exception in
`RendezvousAgrees`.

### United

One step per critical section. `plan` bounds what the application does. A socket
record has the flags of `CUDT` and `CUDTSocket`; `worker` says where each
multiplexer's receiving worker is in `newConnection` or in an asynchronous
`connect`.

| code | actions |
|---|---|
| `newSocket`, `bind`, `listen`, `connect` | `NewSocket`, `Bind`, `Listen`, `Connect` |
| `accept` | `AcceptCall`, `AcceptClosed`, `AcceptTake`, `AcceptEmpty`, `AcceptWait`, `AcceptWoken`, `AcceptReturn` |
| `newConnection` | `Request`, `Replace`, `Refuse`, `Make`, `MakeConnected` or `MakeFails`, `EnterTable`, `EnterQueue`, `TellPollers`, `SignalAccept`, `Answered` |
| asynchronous `connect(response)` | `Establish`, `Complete`, `Report` |
| `close` | `CloseListener`, `CloseBroadcast`, `CloseSocket`, `CloseLingering`, `CloseMove` |
| `epoll_add_usock`, `epoll_remove_usock` | `AddWatch`, `AddId`, `AddState`; `RemoveUsock` |
| EXP timer; the worker's sweep; time | `Break`; `DropFromList`; `Age` |
| `checkBrokenSockets`, `removeSocket` | `Collect` |

`MakeFails` is the exception path of `newConnection` (api.cpp:403, 444) when
`open`, `updateMux` or `connect(peer, hs)` throws: the new socket is closed and
marked, but it is in no table, so the collector never finds it, and when
`updateMux` was done its multiplexer keeps the reference for good.
`MuxCountExact` counts it as a user, and nothing tells it from one but that it is
never destroyed. Exceptions of the tables' own insertions (error 2 and 3) are
left out. `plan.fails` says in which plans it may happen: two of the five.

`AddState` marks a connected socket for output without looking at the room of the
send buffer (core.cpp:2659): here a socket is added to a poll while it connects, when
the buffer is empty. `Poll` has the look (`AddOut`).

The model ends (`fatal`) where the process would: the worker calls `listen` on a
listener already destroyed (`m_pListener` is read without `m_LSLock`,
queue.cpp:1022), `accept` uses the NULL that `locate` returned for its new socket
(api.cpp:716), or `connect_complete` throws through a function declared `throw()`
(api.cpp:796). `NoLostAccept` excepts connections that waited when the listener
was added to the poll: `addEPoll` reports data and room only, not a backlog.

### Poll

One connected stream socket, one poll, an application whose calls do not block,
the receiving worker and the collector. A buffer is changed under its own lock,
looked at without one, and reported under `m_EPollLock`: three steps each.

| code | actions |
|---|---|
| `sendCtrl(2)` (core.cpp:1737), ACK, EXP timer, shutdown by the peer | `AckData`, `Acked`, `Expire`, `Shutdown`; the report is `Tell` |
| `epoll_add_usock`, `CUDT::addEPoll` | `AddWatch`, `AddId`, `AddIn`, `AddOut` |
| `epoll_remove_usock`, `CUDT::removeEPoll` | `RemoveWatch`, `RemoveMarks`, `RemoveId` |
| `recv` | `RecvRead`, `RecvLook`, `RecvClear`, `RecvThrows` |
| `send` | `SendAdd`, `SendLook`, `SendClear`, `SendThrows` |
| `CEPoll::wait` | `Wait`, `WaitReturns`, `WaitThrows`, `WaitExpires` |
| `select`, `selectEx` | `Select`, `SelectEx` |
| `checkBrokenSockets`, `CUDT::close` | `Collect` |

`recv` and `send` look at the buffer and clear the mark in two steps (core.cpp:1116,
1200). When the worker changes the buffer and reports it between them, the clear
takes the new mark away, and a `wait` would sleep beside data. The model has
this, and has the application that is safe from it: one that waits only after
`recv` and `send`, where it used them or was told to, have found nothing to do
(`app.again`). `SleeperHasNoWork` is about that application; one that waits after
a single successful `recv` has no such promise.

What else the model shows as the code has it: a shutdown by the peer (2215)
reports nothing to polls; a socket broken before `addEPoll` gets no mark, since
`addEPoll` returns at once (`unheard` remembers these two); marks may be
spurious; nothing fills `m_sUDTSocksEx`, so no exceptions are reported; a
collected socket keeps its marks. `wait` tests `lwfds` where its comment
(epoll.cpp:181) speaks of all sets; that is about system sockets, which are left
out. The poll of a listener and of a pending connect is in `United`.

### The structures

* `UnitQueue`. The worker's search, its marking of a unit and its update of
  `m_iCount` are steps; so are a reader's clearing of the mark, its load and its
  store of the count. The model shows the count drifting by lost updates and
  `increase` correcting it. The last unit of an entry is never handed out
  (the sentinel of the loop), which `Usable` says.
* `AckWindow`. The ring beside the list of ACKs that may still be confirmed
  (`log`), which is the specification of it.
* `RcvUList`. Only the worker changes the two indexes, so each of its rounds is a
  step; others announce, break and destroy sockets between them.
* `InfoCache`. Identities stand for list iterators. On overflow `item_list`, a
  reference, is assigned the oldest item's chain (cache.h:186): the new item
  cannot be found and a dangling iterator stays. The model ends there (`astray`).
  `clone` copies three of four address words, so IPv6 items hold an arbitrary one;
  negative keys (IPv4 addresses whose last octet is over 127 on little-endian
  machines) are never kept.
* `CongestionCtl`. The sending period `m_dPktSndPeriod` is kept in fractions of a
  microsecond (`Unit`); a decrease of the rate is `ceil(period * 1.125)`
  (`Raised`, ccc.cpp:274 and 291). What the code measures - a receiving rate, a window
  over a round trip, the increase of an ACK - is any of `Periods`. The comment at
  ccc.cpp:290 says that the rate should "not be decreased by more than half within a
  congestion period". With `ceil` that is false for short periods: five raises of
  10 microseconds give 12, 14, 16, 18 and 21. It is true from 22 microseconds on,
  which is what `RateHalvedAtMost` says; `ShortPeriodOverDoubled` is the proof of
  the other half.
* `FileTransfer`. `addBufferFromFile` raises `m_iCount` by the blocks asked for,
  not those read (buffer.cpp:207): after a short read the count never returns to
  zero. The error message of the receiver sets a flag and wakes nobody (2248),
  although the comment above it says that blocked calls return at once; the model
  does what the code does. Sockets that are not synchronous are never signalled
  (1783, 2040), so that these calls, which "always" block
  (`doc/doc/sendfile.htm:80`), would sleep on; they are left out.

`MCStructures` runs them with the loss lists, `SeqWindow` and `Poll`. The variable
`part` names the one that runs, and the others rest in an initial state. None shares
state with another, so nothing is lost by running them apart.

## 3. Runs

| run | instance | shows |
|---|---|---|
| `transfer` | 3 blocks, buffers and windows of 3 | the safety properties and the refinement of `Stream` |
| `transfer_live` | 2 blocks, send buffer 1, receive buffer 2 | delivery under fairness |
| `window_race` (violation) | 4 blocks, send buffer 3, receive buffer 2 | finding 1 |
| `connect` | 2 clients, 2 server sockets, backlog 1, two ISNs a half, nine scenarios (`MCScenarios`) | both ends of a connection agree; one socket per request; rendezvous completes |
| `connect_success` (violation) | one blocking client | finding 5 |
| `united` | 3 sockets, 2 acceptors, backlog 2, five plans (`MCPlans`) | counts, tables, wake-ups, poll events, destruction under fairness |
| `structures` | numbers up to 13, windows and lists up to 5, no drop request over the wrap; pool: entries of 4 units, at most 2, grown from one half, one reader; ACK ring of 4 with 5 numbers; 3 sockets in 2 buckets, stale at age 2; cache of 3 with 6 hosts; congestion control: 4 packets, 7 reports, periods of half, 22 and 30 microseconds; files of 4 packets in blocks of 2; poll: buffers of 2 | each part keeps its promise |
| `rcv_loss_wrap` (violation) | `RcvLossList` with drop requests over the wrap | finding 2 |
| `message` | 3 messages of 1 or 3 packets, 5 blocks, 7 numbers, send buffer 3, ring of 4 starting at 2, 2 steps of the sender astray | the safety properties and the refinement of `Messages` |
| `message_lost` (violation) | the same | finding 3 |
| `snd_u_list` | 3 sockets with a packet each and one more to come, clock from 2 to 3 | positions, wake-ups, sending under fairness |
| `snd_u_list_order` (violation) | 6 sockets with a packet each, clock from 2 to 4 | finding 4 |

Why the bounds are enough. Three blocks give a gap with a packet on each side,
a retransmission while a new packet is under way, an ACK that overtakes another
and a block slot that is released and written again while its old packet is
being sent; buffers of three make the window, the send buffer and the receive
buffer full. Three blocks are
too few to outgrow a window of three, so of `SndLossFits` the run shows that nothing
acknowledged stays on the list, and the theorem shows the rest. The theorems of section 5 hold for every bound. In the live run
the send buffer of one block makes the writer wait for an ACK, and the receive
buffer of two (one packet, since a slot stays empty) makes the window close. A
window of five or six numbers holds three ranges with holes between them, so
every merge of more than two, every split and every position in the list occur,
at every place relative to the wrap and to the end of the arrays, which are
exactly as long as the window. Messages of one and three packets have every
boundary (alone, first, middle, last); five blocks put three messages
behind one another, and a ring of four slots starting at two wraps and
fills while a message is incomplete. A drop request for three packets skips numbers, and
the two steps astray are an expiry that records skipped numbers as lost and
the sending of one, or a number given to the next block and the ACK or NAK of a
skipped one; the theorem has no such bound. Periods of 22 and 30 microseconds can be
raised five times without a short one among them, half a microsecond is
a short one, and an ACK leads from one to another. Three sockets give the heap a root with two
children, so both siftings and the choice of the smaller child occur, and the
sockets can all leave it so that the worker waits when the last packet is given;
the order of the heap needs six, the smallest heap in which the last entry lies
in another subtree than the hole and is earlier than the parent of the hole.
Two clients of one host make their requests interleave at the listener and are the
two ends of a rendezvous; with two server ids and a backlog of one the listener
refuses one, replaces a broken one and runs out; two draws of an initial number
are a second attempt with another. Nothing is stored for a blocking connect
(`StoreLimit` 0, where the code has 16): a dropped packet is a lost one. Three
sockets are a listener with two connections, enough for a full backlog, for a
listener closed with both waiting, and for a connect beside it. Two entries of
the pool make the search go round, and with half full instead of nine tenths it
grows while the first still has free units. Three items are a cache whose
overflow meets the same chain, another one and an empty one.
Both instances of `SndUList` begin (`FirstInit`) where each socket has been given
its first packet before the worker ran, which leaves out only
the orders in which they get there. `CHECK_DEADLOCK FALSE` stands where the system
stops: all blocks are delivered, the connection is broken, a bound ends it, or
the clock and the packets to give are used up.

Properties, in short (each is stated in its module):

* `StreamRefined` - what is read is what was written, in order.
* `HonestPeerTrusted` - no late, repeated or reordered ACK or NAK drops an
  honest peer as "attack or bug" (2000, 2162); in message mode also after drop
  requests that skip numbers, and after an overrun of the receiver's ring.
* `ReleasedIsStored` - the released blocks, the data ACK and the receiver's
  acknowledged prefix agree.
* `StaleCopyRefused` - a packet sent with an overwritten block is one the
  receiver refuses.
* `LossListExact`, `LossScheduled` - the receiver's loss list is exact, and no loss
  is forgotten by the scheduler.
* `SndLossFits` - the sender's losses are not acknowledged yet and lie within one
  first window of the largest number sent; the array holds two.
* `ConfirmedAckIsApplied` - the receiver only falls silent about an ACK that
  the sender has applied.
* `WrittenIsDelivered` - liveness.
* `WrapIsInvisible` - lengths, offsets and order of wrapped numbers are the true ones.
* `SyncAgrees`, `RendezvousAgrees` - a connected end has the peer it asked for,
  with its numbers and packet size, whatever old answers came in between.
* `OneSocketPerRequest` - repeated requests never make a second working socket.
* `RendezvousCompletes` - two rendezvous calls connect, whichever hears first.
* `MuxCountExact`, `QueuedInTable` - a multiplexer goes with its last socket; a
  connection in a backlog can be located.
* `NoLostAccept`, `ConnectReported`, `NoAcceptorStranded` - no event of the poll
  and no wake-up of an acceptor is lost.
* `ClosedIsRemoved` - what is closed or broken is destroyed.
* `FreeUnitIsFound` - however the count drifts, the pool turns away one datagram in
  a row at most while it has a unit to give.
* `AckWindowIsLog` - an ACK2 confirms what its own ACK carried, or nothing.
* `IndexesAgree` - list and table hold the same live sockets, oldest first.
* `HostInfoKept` - a host gets its own last values, up to an overflow.
* `RateHalvedAtMost` - within a congestion period that begins with a sending period of
  22 microseconds or more, the period at most doubles, `ceil` included.
* `OffsetsAccount` - the offsets of `sendfile` and `recvfile` account for every
  packet, however the calls end.
* `MessagesRefined` - messages are read whole, at most once and in order where
  order was asked for (this and the next two until numbers and blocks part).
* `ReleasedIsKept` - a block the sender releases is read, in the receiver's ring
  or named by a drop request.
* `HolesAreLost` - what is neither stored nor dropped below the largest
  number is on the loss list.
* `LocationsExact`, `NoneStranded`, `WorkIsSent`, `ClosedLeaves` - every socket
  is where the heap says, no insertion leaves the worker waiting, what is to be
  sent is sent, and closed sockets leave the heap.
* `SndListIsSet`, `RcvListIsSet` (both lists refine `LossSet`), `SndListWellFormed`,
  `RcvListWellFormed` - the arrays implement the set, count it, keep each range where it
  is looked up, and the sender's cache no dead cell.
* `SleeperHasNoWork`, `RemovedIsUnmarked` - an application that follows the
  discipline of `Poll` does not sleep beside work, and a socket taken off a poll is
  not marked there.

Fairness (`TransferLive`). Weak fairness of the steps of a call or a loop in
progress: the threads of the code run for ever and each holds a lock only for
a bounded time. Weak fairness of `AppRecv`: the application keeps reading.
Weak fairness of the ACK timer, which every pass of the receiving worker
checks; strong fairness of the EXP timer, since the time without a response
from the peer is reset by each message, and the assumption is that silences
recur. Strong fairness of the arrival of a data packet or ACK that is sent again
and again, which is what a lossy network gives. The connections judged are
those the sender does not give up (after 16 expirations and 5 s of silence it
declares the peer dead). Lite ACKs are off there: they only anticipate full ones.

Fairness (`SndUList`). Weak fairness of each step of the worker, whose loop
never ends, of the signal (the thread holds two locks only for the call), of the
clock, and of the end of a close that has begun.

Fairness (`Connect`). Requests are repeated every 250 ms until answered, so while
one side repeats, its request and the answer to it arrive again and again
(strong fairness); a blocking call goes on. Time running out is not fair: it is
an exception in the property.

Fairness (`United`). Weak fairness of calls and of the worker's steps in progress,
which hold locks only briefly; strong fairness of the worker's sweep of its list
and of time passing, which happen again and again between other steps; weak
fairness of the collector's sweep, which runs every second. A sweep may spare a
socket with data left to read, at most 30 times (api.cpp:1199), and one that
lingers, for the time it was given.

## 4. Findings

1. **The window and the acknowledgement are read apart** (core.cpp:2315).
   The comment at 2008 asks for both to be updated together; `packData` reads
   the window, then the acknowledgement, and ACK processing stores both in
   between. The sender then passes every granted right edge. The receiver
   refuses the packet, and it is retransmitted.
2. **A wrapped stretch is not removed completely** (list.cpp:640). The loop
   over the end of the circle stops before `m_iMaxSeqNo`, so a message dropped
   over the wrap leaves that number lost: every ACK names it from then on.
3. **A drop request names one packet too many** (core.cpp:2292). The last number
   it gives is that of the first packet of the next message. The receiver takes
   it off its loss list, and a message without life time, which the
   documentation says is always delivered (`doc/doc/t-msg.htm:30`), is lost.
4. **The heap of sockets loses its order** (queue.cpp:410). `remove_` sifts the
   entry it puts into the hole down, never up. With six sockets or more a socket
   can be due before the root, and sends late.

5. **A successful connect without a connection** (core.cpp:661). A blocking
   `connect` takes any packet for the answer. When data or a keep-alive of the
   server overtakes its handshake, `connect(response)` returns -1, the loop ends with no
   error set, and the checks after it pass on the cookie answer: 0 is returned for a
   socket that is not connected.

## 5. Proofs

Everything listed under "theorems" in `PROJECT.json` holds for every value of the
constants that satisfies the assumptions of the modules:

* `TransferAssumption`, `RcvBufAssumption` - a receive buffer of at least 2, since
  one slot stays empty (and the advertised window is at least 2);
* `SeqNoAssumption`, `MaxFlightAssumption` - windows shorter than `m_iSeqNoTH`,
  which `m_iFlightFlagSize` is;
* `ConnectAssumption` - ids are positive numbers, `HalfISN` too;
* `UnitedAssumption` - finitely many sockets and threads, a backlog of at least one;
* `MessageAssumption`, `PollAssumption` - messages and buffers are not empty;
* `SndUListAssumption`, `RcvUListAssumption` - bounds are natural numbers; socket
  numbers are positive and finitely many, and the hash table has a bucket;
* `InfoCacheAssumption` - an IPv4 address has zeroes behind its first word, as
  `convert` leaves them (cache.cpp:112), and the cache room for an item and one
  to replace it (1024 in the code);

and six hypotheses that theorems name where they need them: `AckSizes` (no more
slots in the ring than numbers to tell them apart), `FileSizes` (sizes are natural
numbers), `UnitSizes` (an entry has the sentinel and one unit more, and the pool
grows before it is full: nine tenths in the code), `NoTwins`, `Pairs` and
`~WrappedDrops` (below).
TLC evaluates the assumptions in every run of their module.

`Transfer_proofs`. None of the properties is inductive. The invariant `IInv`
joins, beside the ranges of the variables (`TypeOK`):

* `SndInv` - the counters of the sender advance together: blocks and numbers
  keep a fixed distance (`sndNext` and `sndCurrSeqNo`, `sndFirst` and
  `sndLastDataAck`), and the loss list lies between acknowledged and sent;
* `ThreadInv` - what each thread holds in its locals while it is between two
  steps (the packet packed agrees with its number; the ACK in progress is one
  the receiver gave);
* `RcvInv` - what is stored under a number is its block, the acknowledged
  prefix is stored or read, the holes are exactly the loss list;
* `NetInv` - every message ever sent is still true of the two ends: a data
  packet carries its own block or is below the receiver's acknowledgement, an
  ACK names a prefix the receiver has, a NAK names numbers that were sent;
* `ConfirmInv` - an ACK that an ACK2 may confirm has been applied, or is the
  one being applied;
* `SchedInv` - a loss has the socket on the send list, in the worker's hands,
  or in those of a handler about to insert it.

`SndLossFits` needs a second invariant beside it, `SpanInv`. TLC found it, and the
property, to hold in the instance of `transfer` with a receive buffer of two, where the
send buffer is larger than the window (1005183 states), and the property to fail there
when `packData` lets one packet too many out. What is not acknowledged is less than the first
window: `packData` may combine an old window with a new acknowledgement (finding 1),
but neither is ever larger than the first one allows. A loss starts at
`m_iSndLastAck` or later, so it was within the window when it was recorded. A new
packet could carry the window on past an old loss; but it is sent only when `pop`
found no loss, and one recorded after that holds the receiving worker at
`m_ListLock`, so that no ACK opens the window before the packet is out. The bound does
not depend on `SndBufSize`: a large `UDT_SNDBUF` against a small `UDT_RCVBUF` of the
peer is safe, although `m_iSndLastDataAck` may then be several windows behind.

There is one lemma per action (`<Action>Keeps`), then `Invariance`, then one
theorem per property and `StreamImplemented`, which maps `AppSend` to `Write`,
`AppRecv` to `Read` and every other step to a stutter.

`Structures_proofs`, on `SeqWindow`: what each operator of `CSeqNo` returns for two numbers a
known distance apart, that the window keeps that distance, and from both that
offset, length and order are exact for every `MaxSeqNo`, 2^31 - 1 included.

`Connect_proofs`: `ListenerKeepsOne`, that no request has two working sockets, for
any number of clients, ids and scenarios. The property is not inductive: whether
a request is known is looked up by a key that several requests may share, and the
one found is the first in a set ordered by id. The invariant `ServerInv` adds that
ids are given out downwards and that of the sockets of the table with one key only
the newest may work: a new socket comes only when the one found is broken, and that
one is always the newest.

`SyncAgreement` and `RendezvousAgreement`, in the same module, are about what a
client knows once it is connected. The network repeats old handshakes, so
`ConnectInv` says of every handshake ever sent that it is still true (`Claims`): a
client's of the client that sent it, a server's of the socket it names, which was
found under a key of the client it answers. `PeerOK` follows for the connected:
a blocking client whose number no other client has under its key is
connected to the socket made for it. The code cannot do without that hypothesis,
`NoTwins`. The key is `(id << 30) + isn` in 32 bits (api.cpp:1160), so two bits of the
id are left in it, and the listener compares nothing but the key and the
address: with clients 3 and 7 of one port that both draw 1, TLC finds the listener to
answer one with the socket of the other, and both calls to succeed. `Pairs` says that
a rendezvous has two ends. The instance of `connect` satisfies both, which
`MCAgreement` in `MCConnect` checks. TLC checked `ConnectInv` on that instance first.

`United_proofs`: `UnitedInvariance`. The invariant `UnitedInv` has a part for each
table and each thread: which flags go with which state and place of a socket
(`SocketInv`), that those in a backlog can be located and were made for that listener
(`QueueInv`), that the listener of a multiplexer uses it and is not deleted
(`ListenerInv`), and what the
socket is like that the worker, a closer, `epoll_add_usock` or an acceptor holds
between two critical sections (`WorkerInv`, `CloserInv`, `AddingInv`, `AcceptInv`).
TLC checked it on the instance of `united` first.

The rest of the module proves from it what `united` checks. For `MuxCountExact` the
count follows the set of the sockets of the multiplexer, step by step. For
`NoAcceptorStranded` the invariant `WakeInv` counts: while somebody waits at a
listener that is not broken, there are no more queued connections than
threads awake there plus the signals announced, so that a waiter left
asleep is never the only one who could take a connection. A signal lost to a thread
that wakes for another reason is the case the count is for.

`Message_proofs`. The invariant `Inv` says that what A has written is a sequence of
messages without gaps (`WrittenOK`), how the numbers of both ends are ordered (`NumInv`),
what each message in the network still promises (`NetInv`), that what was
read was written (`ReadOK`), and of B's ring (`RcvInv`) that for some number
`s` the slot `m_iStartPos` is the place of `s`: acknowledged slots hold their block,
or its message was dropped or read; what lies beyond and is neither stored nor
dropped is exactly the loss list. Where the start is cannot be told from the variables of
the code, hence the quantifier. `Inv` holds as long as nobody is astray (`Regular`).
`HonestReceiverTrusted` has no such condition and needs another invariant,
`Bounded`: every number the receiver has or has sent is one the sender has given or
skipped, and every block or message a packet may name is one that was written, or
the unwritten one. No step can break it, since a drop request never reaches past
the number its sender then moves to (2299). `MessagesImplemented` maps `AppSendMsg` to
`WriteMessage`, an `AppRecvMsg` that finds a message to `ReadMessage`, and all
other steps to a stutter; that no message is read twice or before an ordered one
rests on the flags of the units `scanMsg` has passed. TLC checked `Inv` first.

`Structures_proofs`: `AckWindowAnswers` (the slots from tail to head are the log of
the last ACKs, whose numbers follow each other without a gap, so a number
met in the ring is that ACK's), `OffsetsAccounted` (file, buffer and offsets
are consecutive stretches of one run of packets), `UnitFound` (`m_iCount`, with any
updates lost, never exceeds the number of units, so it is corrected before it keeps
the search from being made, and the search after one that found nothing starts at
the front and sees every unit), and `RateHalved`. For the last, `Stairs` are five whole
numbers of microseconds, each at least an eighth above the one before, the first
above the sending period that the congestion period began with and the fifth at most
twice that. They exist from 22 microseconds on (`StairsExist`), and the invariant
says that after the n-th chance to raise the period it is not above the n-th stair;
ACKs only shorten it. `ceil` cannot go beyond a stair, which is a whole number
(`RaisedBound`), whatever `Unit` is.

In the same module, on `Poll`: `NoWorkAsleep` and `UnmarkedOnceRemoved`, for buffers of any size.
The invariant `PollInv` says where the knowledge of work can be: what there is to
do where the poll watches is marked, due from the worker (`tell`), or known to
the thread, which has it in `again` or is in the middle of the call that will
look (`WorkKnown`). It needs that a thread about to clear a mark is one that will
call again (`Repeating`), that a break leaves its report due (`Breaking`), and
that a removal has emptied the watch sets before the marks (`Removing`).

Also there, on `InfoCache`: `InfoOfTheHost`, for any hosts and size. As long as no
chain is astray, `CacheInv` says that the items have different identities, that an IPv4
host has one item at most, whose identity is in the chain of its bucket and whose info
is what was last stored for it, and that no chain names an item that is gone (`Kept`). So a
search that compares addresses behind identities ends at the item of that very host.
A copy of an IPv6 address differs from it in a word nobody has set, which is why nothing is
said of those.

`Loops_proofs` is about loops. A loop is `Repeat` of a function that makes one pass
and returns its argument once the loop has ended. What a pass keeps, any number of passes
keeps (`RepeatStays`, by induction over a set of numbers, which needs no operator
parameter): that is all an invariant needs to know of a loop. The lemmas on sequences with
an element removed, from the library's definitions, are there too.

`Queues_proofs`, on `SndUList`: `HeapIsIndexed` and `WorkerNotStranded`. The heap and
the positions in the sockets stay inverse to each other (`Located`) through every exchange, a
removal included, where the last node is copied over the hole while the removed socket's
position is still set; so no order of the times matters. `SndListInv` adds that a worker
waiting with an occupied heap has a signal coming. That the root is the earliest
is no part of it: it is not always (finding 4).

On `RcvUList`: `ListAndTableAgree`, for any number of sockets and buckets. The
list is one chain, although neighbours are all a node knows: `Linked` gives the nodes ranks
that grow along the links, so that no node lies on a circle beside the
list, and a sweep from the head meets every stale one. `Hashes` says that a bucket
holds each listed socket of its number once, and `Agreeing` that the nodes' marks, which the
collector waits for, cover the listed ones. A pass of the sweep keeps all three (`CheckFirst`),
and ages fall along the list because a node whose timers are checked starts anew at
the end.

`LossLists_proofs`: `SndLossListWellFormed` and `SndLossListIsSet`, for every `MaxSeqNo`,
every window shorter than `m_iSeqNoTH` and arrays of any size at least as long. In the
fields of the list all numbers are wrapped and all cells are remainders, so nothing in them
orders two ranges. The invariant `SndLossInv` says that there are numbers that do not wrap
which the arrays are the arrays of: the first one `a` of the window, a shift `z`, the
set `D` of the first numbers of the ranges and their ends `e`, such that the range from
`x` is in cell `(x + z) % SndSize` (`Place`), the links follow the order of `D` (`Linked`), and
`m_iLength` is the size of the union (`SndHolds`). The list moves with
its first insertion, which goes to cell 0 and picks a new `z`. What is short about the
window is used twice: no two numbers in it share a cell (`Window <= SndSize`), and
`seqcmp` and `seqoff` give the order and distance of the numbers behind the wrapped ones
(`Window < SeqNoTH`).

Each loop has an invariant of its own. The search keeps a range that starts before the
number and comes closer to it; since the cached position is a range of the list it
finds the same as from the head. The merge (`Merging`) keeps the union of the ranges while
the one that grew may overlap those behind it, with the length counting it as if
it were apart from the rest. The removal (`Clearing`) takes the ranges before the new
head off while the cells behind it are in order. The refinement maps `SendPacket` to
`Grow`, `ReportLoss` to `Report`, `DropMessage` to `Forget`, `Retransmit` to `TakeFirst` and `TakeAck` to
`Slide`; the smallest number is the one at the head because the links are in order.

`RcvLossListWellFormed` and `RcvLossListIsSet` say the same of the receiver's list, which
is linked both ways. `RcvLossInv` has the same
`a`, `z`, `D` and `e`; `Chain` says of the links and the tail what `Linked` says of the
links alone. `insert` is simple here, a report always lies behind the last
range; `remove(seqno)` is not. When the number starts a range, either the range was of that
number only and goes, or what is left of it moves to the next cell with its
links (`ShiftedLeaves`). When it does not, the search back over free cells
ends at the range that starts last before the number (`CellBeforeIs`), and that range keeps
what is before, is cut at its end, or is split in two. Each of the cases gives
the fields of the numbers without the one removed (`Leaves`), while the code has counted
the length down before it. `remove(seqno1, seqno2)` repeats this (`Removing`). When the two
numbers are in order it removes all between; when the range wraps its two loops
leave `m_iMaxSeqNo` (`RangeWithout`), so the list stays well formed but no
longer implements the set. That is finding 2, and why `RcvLossListIsSet` has the hypothesis
`~WrappedDrops` and `RcvLossListWellFormed` has none. `GiveAck` is mapped to `Slide`, a
packet that arrives to `Grow` or, with a gap before it, `Report`, and `Recover` and `DropRequest`
to `Forget`.

TLC cannot evaluate `SndLossInv` and `RcvLossInv`, which speak of functions on all
integers; it checks what the theorems state.

Only model-checked: the liveness properties, since fairness and ENABLED are out of the
prover's reach. Every other property of a passing run is stated by a theorem.

## 6. Plan

1. `cleanup`, and several polls and sockets in `Poll`.
2. Partial reads (`m_iNotch`) and the growth of `CSndBuffer`.

## 7. Not modelled

Datagram encoding and system calls (`CChannel`, `CPacket`): pure I/O, the network
of each module stands for them. Clocks and mutex wrappers (`CTimer`, `CGuard`),
address comparison, MD5: no state of interest. The statistics of
`CPktTimeWindow` and the formulas of `CUDTCC`: arithmetic on measured times in
floating point; the models allow every rate. The C and Go wrappers: one call each.
The Windows branches of the code.
