---------------------------- MODULE CongestionCtl ----------------------------
(***************************************************************************)
(* CUDTCC (ccc.cpp), the default congestion control of a sender.  It is    *)
(* called by the worker of the receiving queue for every ACK, NAK and      *)
(* timeout, while the sending worker moves the number of the last packet   *)
(* sent.  What it takes from measurements is a choice here: whether the    *)
(* window has outgrown its limit, whether the peer has measured a          *)
(* receiving rate, what sending period either comes to, and by how much an *)
(* ACK shortens it; so is the random number drawn at the start of a        *)
(* congestion period.  A sending period is a number of 1/Unit              *)
(* microseconds, and ceil() makes it whole microseconds.                   *)
(***************************************************************************)
EXTENDS Integers

CONSTANTS MaxSent,     \* bound: packets sent
          MaxReports,  \* bound: NAKs of one congestion period
          Unit,        \* bound: fractions of a microsecond
          Periods      \* bound: sending periods that are measured or shortened to

ASSUME CCAssumption == Unit \in Nat \ {0} /\ Periods \subseteq Nat \ {0}

VARIABLES slowStart,      \* m_bSlowStart
          loss,           \* m_bLoss
          sent,           \* m_iSndCurrSeqNo, unwrapped
          lastDecSeq,     \* m_iLastDecSeq
          naks,           \* m_iNAKCount, m_iAvgNAKNum, m_iDecCount, m_iDecRandom
          period,         \* m_dPktSndPeriod
          lastDecPeriod   \* m_dLastDecPeriod

ccVars == <<slowStart, loss, sent, lastDecSeq, naks, period, lastDecPeriod>>

\* init.
CCInit ==
    /\ slowStart = TRUE /\ loss = FALSE
    /\ sent = 0 /\ lastDecSeq = -1
    /\ naks = [count |-> 0, avg |-> 0, decs |-> 0, random |-> 1]
    /\ period = Unit /\ lastDecPeriod = Unit

\* setSndCurrSeqNo, from packData.
PacketSent ==
    /\ sent < MaxSent
    /\ sent' = sent + 1
    /\ UNCHANGED <<slowStart, loss, lastDecSeq, naks, period, lastDecPeriod>>

\* onACK, once in m_iRCInterval: slow start ends, with a period that was measured,
\* when the window has outgrown its limit; after slow start the period is
\* shortened unless a loss was reported meanwhile.
OnACK ==
    /\ \/ slowStart /\ slowStart' = FALSE /\ period' \in Periods
       \/ ~slowStart /\ loss /\ UNCHANGED <<slowStart, period>>
       \/ ~slowStart /\ ~loss /\ UNCHANGED slowStart /\ period' \in {p \in Periods : p < period}
    /\ loss' = FALSE
    /\ UNCHANGED <<sent, lastDecSeq, naks, lastDecPeriod>>

\* onTimeout does no more than to end slow start.
OnTimeout ==
    /\ slowStart' = FALSE
    /\ IF slowStart THEN period' \in Periods ELSE UNCHANGED period
    /\ UNCHANGED <<loss, sent, lastDecSeq, naks, lastDecPeriod>>

\* ceil(p * 1.125).
Raised(p) == Unit * ((9 * p + 8 * Unit - 1) \div (8 * Unit))

\* The mean of the NAKs of a period: an eighth for the last one, rounded up.
Averaged == (7 * naks.avg + naks.count + 7) \div 8

\* onLoss of a packet sent after the last decrease: a new congestion period.
NewPeriod(p) ==
    /\ lastDecSeq' = sent
    /\ lastDecPeriod' = p /\ period' = Raised(p)
    /\ \E r \in 1 .. (IF Averaged < 1 THEN 1 ELSE Averaged) :
        naks' = [count |-> 1, avg |-> Averaged, decs |-> 1, random |-> r]

\* Variant: the decreases of a period are not limited.
AnotherAlways(n) == (n.count + 1) % n.random = 0
Another(n) == n.decs < 5 /\ (n.count + 1) % n.random = 0

\* onLoss of an older packet: one report in naks.random decreases the rate
\* again, while the period has had fewer than five chances of that.
SamePeriod(p) ==
    /\ naks.decs <= MaxReports
    /\ naks' = [naks EXCEPT !.decs = @ + 1, !.count = IF naks.decs < 5 THEN @ + 1 ELSE @]
    /\ period' = IF Another(naks) THEN Raised(p) ELSE p
    /\ lastDecSeq' = IF Another(naks) THEN sent ELSE lastDecSeq
    /\ UNCHANGED lastDecPeriod

\* onLoss.  The first loss ends slow start with a period that was measured: one
\* of the receiving rate is kept as it is.
OnLoss(seq, rcvRateKnown) ==
    /\ seq \in 1 .. sent
    /\ slowStart' = FALSE
    /\ UNCHANGED sent
    /\ IF slowStart /\ rcvRateKnown
       THEN period' \in Periods /\ UNCHANGED <<loss, lastDecSeq, naks, lastDecPeriod>>
       ELSE /\ loss' = TRUE
            /\ \E p \in (IF slowStart THEN Periods ELSE {period}) :
                IF seq > lastDecSeq THEN NewPeriod(p) ELSE SamePeriod(p)

CCNext ==
    \/ PacketSent \/ OnACK \/ OnTimeout
    \/ \E seq \in 1 .. MaxSent, known \in BOOLEAN : OnLoss(seq, known)

CCSpec == CCInit /\ [][CCNext]_ccVars

\* ccc.cpp:290: "rate should not be decreased by more than half within a
\* congestion period".  ceil() makes that false of a period that begins with a
\* short sending period (10, 12, 14, 16, 18, 21 microseconds); from 22
\* microseconds on it is true, however the reports of losses fall between packets
\* sent and ACKs, and whatever number is drawn.
RateHalvedAtMost == lastDecPeriod >= 22 * Unit => period <= 2 * lastDecPeriod
=============================================================================
