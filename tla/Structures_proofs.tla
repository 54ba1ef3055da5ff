--------------------------- MODULE Structures_proofs ---------------------------
(***************************************************************************)
(* Proofs about the smaller parts: sequence numbers, the default           *)
(* congestion control, the ACK window, file transfer, the pool of units,   *)
(* the cache of peers' information and polling.  Each theorem is about     *)
(* that part's own specification, for all its sizes; the sizes a theorem   *)
(* needs are its hypothesis.                                               *)
(***************************************************************************)
EXTENDS AckWindow, CongestionCtl, FileTransfer, UnitQueue, SeqWindow, Poll, InfoCache,
        Loops_proofs

-----------------------------------------------------------------------------
(* CSeqNo's arithmetic is exact for every MaxSeqNo, so for 2^31 - 1: the   *)
(* lemmas say what each operator returns for two numbers a known distance  *)
(* apart, the theorems that the sender's window keeps that distance.       *)

\* The number d places after seq on the circle, for d of at most one turn.
Shift(seq, d) ==
    IF seq + d > MaxSeqNo THEN seq + d - (MaxSeqNo + 1)
    ELSE IF seq + d < 0 THEN seq + d + (MaxSeqNo + 1) ELSE seq + d

Near == (1 - SeqNoTH) .. (SeqNoTH - 1)

\* Shifting stays among the sequence numbers.
LEMMA ShiftType ==
    ASSUME NEW seq \in SeqNos, NEW d \in Near
    PROVE  Shift(seq, d) \in SeqNos
BY SeqNoAssumption DEF Shift, SeqNos, Near

\* seqoff returns the distance between two numbers less than SeqNoTH apart,
\* with its sign, whether or not zero lies between them.
LEMMA SeqoffIsDistance ==
    ASSUME NEW seq \in SeqNos, NEW d \in Near
    PROVE  /\ Seqoff(seq, Shift(seq, d)) = d
           /\ Seqoff(Shift(seq, d), seq) = -d
BY SeqNoAssumption DEF Seqoff, Shift, Abs, SeqNos, Near

\* seqcmp is negative, zero or positive as the first number lies before, at or
\* after the second.
LEMMA SeqcmpIsOrder ==
    ASSUME NEW seq \in SeqNos, NEW d \in Near
    PROVE  /\ (Seqcmp(seq, Shift(seq, d)) < 0) <=> (d > 0)
           /\ (Seqcmp(seq, Shift(seq, d)) = 0) <=> (d = 0)
           /\ (Seqcmp(Shift(seq, d), seq) > 0) <=> (d > 0)
BY SeqNoAssumption DEF Seqcmp, Shift, Abs, SeqNos, Near

\* seqlen counts the numbers from the first to the second, both included.
LEMMA SeqlenIsCount ==
    ASSUME NEW seq \in SeqNos, NEW d \in 0 .. (SeqNoTH - 1)
    PROVE  Seqlen(seq, Shift(seq, d)) = d + 1
BY SeqNoAssumption DEF Seqlen, Shift, SeqNos

\* incseq and decseq step to the neighbours and undo each other.
LEMMA StepIsShift ==
    ASSUME NEW seq \in SeqNos
    PROVE  /\ Incseq(seq) = Shift(seq, 1)
           /\ Incseq(seq) \in SeqNos /\ Decseq(seq) \in SeqNos
           /\ Incseq(Decseq(seq)) = seq /\ Decseq(Incseq(seq)) = seq
BY SeqNoAssumption DEF Incseq, Decseq, Shift, SeqNos

\* incseq(seq, inc) is inc steps of incseq.
LEMMA IncseqByIsShift ==
    ASSUME NEW seq \in SeqNos, NEW n \in 0 .. (SeqNoTH - 1)
    PROVE  IncseqBy(seq, n) = Shift(seq, n) /\ IncseqBy(seq, n) \in SeqNos
BY SeqNoAssumption DEF IncseqBy, Shift, SeqNos

-----------------------------------------------------------------------------

\* The next number to send is inFlight places after the last acknowledged.
SeqInv == SeqTypeOK /\ Incseq(currSeqNo) = Shift(lastAck, inFlight)

\* The distance is kept by every step, wrapping or not.
THEOREM WindowInvariant == SeqSpec => []SeqInv
<1>1. SeqInit => SeqInv
  BY SeqNoAssumption, MaxFlightAssumption
     DEF SeqInit, SeqInv, SeqTypeOK, SeqNos, Incseq, Decseq, Shift
<1>2. SeqInv /\ [SeqNext]_seqVars => SeqInv'
  <2> SUFFICES ASSUME SeqInv, [SeqNext]_seqVars PROVE SeqInv'
    OBVIOUS
  <2>1. CASE SendNew
    BY <2>1, SeqNoAssumption, MaxFlightAssumption
       DEF SendNew, SeqInv, SeqTypeOK, SeqNos, Incseq, Shift
  <2>2. ASSUME NEW n \in 1 .. MaxFlight, SkipMessage(n) PROVE SeqInv'
    BY <2>2, SeqNoAssumption, MaxFlightAssumption
       DEF SkipMessage, SeqInv, SeqTypeOK, SeqNos, Incseq, IncseqBy, Shift
  <2>3. ASSUME NEW n \in 1 .. MaxFlight, Acknowledge(n) PROVE SeqInv'
    BY <2>3, SeqNoAssumption, MaxFlightAssumption
       DEF Acknowledge, SeqInv, SeqTypeOK, SeqNos, Incseq, IncseqBy, Shift
  <2>4. CASE UNCHANGED seqVars
    BY <2>4 DEF seqVars, SeqInv, SeqTypeOK
  <2> QED BY <2>1, <2>2, <2>3, <2>4 DEF SeqNext
<1> QED BY <1>1, <1>2, PTL DEF SeqSpec

\* The window test of packData and the offsets of processCtrl see the true
\* number of packets in flight.
THEOREM OffsetTheorem == SeqSpec => [](OffsetIsFlight /\ LengthIsFlight)
<1>1. SeqInv => OffsetIsFlight /\ LengthIsFlight
  <2> SUFFICES ASSUME SeqInv PROVE OffsetIsFlight /\ LengthIsFlight
    OBVIOUS
  <2>1. lastAck \in SeqNos /\ inFlight \in 0 .. (SeqNoTH - 1) /\ inFlight \in Near
    BY SeqNoAssumption, MaxFlightAssumption DEF SeqInv, SeqTypeOK, Near
  <2>2. OffsetIsFlight
    BY <2>1, SeqoffIsDistance DEF SeqInv, OffsetIsFlight
  <2>3. LengthIsFlight
    BY <2>1, SeqlenIsCount DEF SeqInv, LengthIsFlight
  <2> QED BY <2>2, <2>3
<1> QED BY <1>1, WindowInvariant, PTL

\* An ACK for a packet in flight is in order for every wrap of the counters.
THEOREM CompareTheorem == SeqSpec => []CompareIsOrder
<1>1. SeqInv => CompareIsOrder
  <2> SUFFICES ASSUME SeqInv PROVE CompareIsOrder
    OBVIOUS
  <2>1. ASSUME NEW n \in 0 .. inFlight
        PROVE  Seqcmp(IncseqBy(lastAck, n), Incseq(currSeqNo)) <= 0
    BY SeqNoAssumption, MaxFlightAssumption
       DEF SeqInv, SeqTypeOK, SeqNos, Seqcmp, Abs, IncseqBy, Shift
  <2>2. ASSUME NEW n \in 1 .. inFlight
        PROVE  Seqcmp(IncseqBy(lastAck, n), lastAck) > 0
    BY SeqNoAssumption, MaxFlightAssumption
       DEF SeqInv, SeqTypeOK, SeqNos, Seqcmp, Abs, IncseqBy
  <2> QED BY <2>1, <2>2 DEF CompareIsOrder
<1> QED BY <1>1, WindowInvariant, PTL

\* What CSeqNo says of the sender's counters is true of the packets they count,
\* wherever they wrap.
THEOREM WrapTheorem == SeqSpec => []WrapIsInvisible
<1>1. OffsetIsFlight /\ LengthIsFlight /\ CompareIsOrder => WrapIsInvisible
  BY DEF WrapIsInvisible
<1> QED BY <1>1, OffsetTheorem, CompareTheorem, PTL

-----------------------------------------------------------------------------
(* CUDTCC.                                                                 *)

\* In how many of its five chances a congestion period may have raised the period.
Chances(n) == IF n.decs < 5 THEN n.decs ELSE 5

\* Whole microseconds that five raises of the period p stay below, the last of
\* them at most twice p.
Stairs(s, p) ==
    /\ s \in [1 .. 5 -> Nat]
    /\ 9 * p <= 8 * (s[1] * Unit)
    /\ \A i \in 1 .. 4 : 9 * s[i] <= 8 * s[i + 1]
    /\ s[5] * Unit <= 2 * p

\* A congestion period that began with 22 microseconds or more has such stairs and
\* is no higher than its chances allow; in slow start there was none.
CCInv ==
    /\ sent \in Nat
    /\ naks \in [count : Nat, avg : Nat, decs : Nat, random : Nat]
    /\ period \in Nat /\ lastDecPeriod \in Nat
    /\ slowStart => lastDecPeriod = Unit
    /\ lastDecPeriod >= 22 * Unit =>
           /\ naks.decs >= 1
           /\ \E s : Stairs(s, lastDecPeriod) /\ period <= s[Chances(naks)] * Unit

\* Multiplying by the unit keeps an order.
LEMMA TimesUnit ==
    ASSUME NEW a \in Int, NEW b \in Int, a <= b
    PROVE  a * Unit \in Int /\ b * Unit \in Int /\ a * Unit <= b * Unit
<1>1. Unit \in Nat
  BY CCAssumption
<1>2. PICK c \in Nat : b = a + c
  <2>1. b - a \in Nat /\ b = a + (b - a)
    OBVIOUS
  <2> QED  BY <2>1
<1>3. c * Unit >= 0 /\ b * Unit = a * Unit + c * Unit
  BY <1>1, <1>2
<1> QED  BY <1>1, <1>3

\* ceil() is not above whole microseconds that the raised period is not above.
LEMMA RaisedBound ==
    ASSUME NEW p \in Nat, NEW n \in Nat, 9 * p <= 8 * (n * Unit)
    PROVE  Raised(p) \in Nat /\ Raised(p) <= n * Unit
<1>1. Unit \in Nat /\ Unit >= 1
  BY CCAssumption
<1>2. PICK x, u : x = 9 * p + 8 * Unit - 1 /\ u = 8 * Unit /\ x \in Nat /\ u \in Nat /\ u >= 1
  BY <1>1
<1>3. PICK q : q = x \div u /\ q \in Nat /\ q * u <= x
  BY <1>2
<1>4. Raised(p) = Unit * q
  BY <1>2, <1>3 DEF Raised
<1>5. q <= n
  <2> SUFFICES ASSUME n + 1 <= q
               PROVE  FALSE
    BY <1>3
  <2>1. (n + 1) * Unit <= q * Unit /\ q * Unit \in Int
    BY <1>3, TimesUnit
  <2>2. (n + 1) * Unit = n * Unit + Unit /\ q * u = 8 * (q * Unit)
    BY <1>1, <1>2, <1>3
  <2>3. 8 * (q * Unit) <= 9 * p + 8 * Unit - 1
    BY <1>2, <1>3, <2>2
  <2>4. n * Unit \in Nat
    BY <1>1
  <2> QED  BY <1>1, <2>1, <2>2, <2>3, <2>4
<1>6. q * Unit <= n * Unit
  BY <1>3, <1>5, TimesUnit
<1> QED  BY <1>1, <1>3, <1>4, <1>6

\* ceil() gives the next whole microsecond.
LEMMA RaisedWhole ==
    ASSUME NEW n \in Nat, NEW m \in Nat, 9 * n <= 8 * m, 8 * m <= 9 * n + 7
    PROVE  Raised(n * Unit) = m * Unit
<1>1. Unit \in Nat /\ Unit >= 1
  BY CCAssumption
<1>2. PICK p : p = n * Unit /\ p \in Nat
  BY <1>1
<1>3. PICK x, u : x = 9 * p + 8 * Unit - 1 /\ u = 8 * Unit /\ x \in Nat /\ u \in Nat /\ u >= 1
  BY <1>1, <1>2
<1>4. PICK q : q = x \div u /\ q \in Nat /\ q * u <= x /\ x < q * u + u
  BY <1>3
<1>5. PICK z : z = q * Unit /\ z \in Nat /\ 8 * z <= x /\ x < 8 * z + u
  BY <1>1, <1>3, <1>4
<1>6. PICK y : y = m * Unit /\ y \in Nat /\ 9 * p <= 8 * y /\ 8 * y <= 9 * p + 7 * Unit
  <2>1. (9 * n) * Unit <= (8 * m) * Unit /\ (8 * m) * Unit <= (9 * n + 7) * Unit
    BY TimesUnit
  <2>2. /\ (9 * n) * Unit = 9 * p /\ (8 * m) * Unit = 8 * (m * Unit)
        /\ (9 * n + 7) * Unit = 9 * p + 7 * Unit
    BY <1>1, <1>2
  <2>3. m * Unit \in Nat
    BY <1>1
  <2> QED  BY <2>1, <2>2, <2>3
<1>7. Raised(p) = z
  BY <1>1, <1>3, <1>4, <1>5 DEF Raised
<1>8. z <= y
  BY <1>2, <1>6, <1>7, RaisedBound
<1>9. ~(q + 1 <= m)
  <2> SUFFICES ASSUME q + 1 <= m
               PROVE  FALSE
    OBVIOUS
  <2>1. (q + 1) * Unit <= m * Unit
    BY <1>4, TimesUnit
  <2>2. (q + 1) * Unit = z + Unit
    BY <1>1, <1>4, <1>5
  <2> QED  BY <1>1, <1>2, <1>3, <1>5, <1>6, <2>1, <2>2
<1>10. m * Unit <= q * Unit
  BY <1>4, <1>9, TimesUnit
<1> QED  BY <1>2, <1>5, <1>6, <1>7, <1>8, <1>10

\* The claim of ccc.cpp:290 is not true of every period: five raises of 10
\* microseconds, which one congestion period may make, end at 21.
THEOREM ShortPeriodOverDoubled ==
  Raised(Raised(Raised(Raised(Raised(10 * Unit))))) = 21 * Unit /\ 21 * Unit > 2 * (10 * Unit)
<1>1. Raised(10 * Unit) = 12 * Unit
  BY RaisedWhole
<1>2. Raised(12 * Unit) = 14 * Unit
  BY RaisedWhole
<1>3. Raised(14 * Unit) = 16 * Unit
  BY RaisedWhole
<1>4. Raised(16 * Unit) = 18 * Unit
  BY RaisedWhole
<1>5. Raised(18 * Unit) = 21 * Unit
  BY RaisedWhole
<1>6. 21 * Unit > 2 * (10 * Unit)
  BY CCAssumption
<1> QED  BY <1>1, <1>2, <1>3, <1>4, <1>5, <1>6

\* The first of the stairs decides the others.
LEMMA StairsFrom ==
    ASSUME NEW m \in Nat, m >= 25
    PROVE  \E s \in [1 .. 5 -> Nat] :
               /\ s[1] = m /\ \A i \in 1 .. 4 : 9 * s[i] <= 8 * s[i + 1]
               /\ 9 * s[5] <= 16 * (m - 1) \/ (m = 25 /\ s[5] = 43)
<1> DEFINE Up(n) == (9 * n + 7) \div 8
<1>1. \A n \in Nat : Up(n) \in Nat /\ 9 * n <= 8 * Up(n) /\ 8 * Up(n) <= 9 * n + 7
  OBVIOUS
<1> HIDE DEF Up
<1>2. PICK b \in Nat : b = Up(m) /\ 9 * m <= 8 * b /\ 8 * b <= 9 * m + 7
  BY <1>1
<1>3. PICK c \in Nat : c = Up(b) /\ 9 * b <= 8 * c /\ 8 * c <= 9 * b + 7
  BY <1>1
<1>4. PICK d \in Nat : d = Up(c) /\ 9 * c <= 8 * d /\ 8 * d <= 9 * c + 7
  BY <1>1
<1>5. PICK e \in Nat : e = Up(d) /\ 9 * d <= 8 * e /\ 8 * e <= 9 * d + 7
  BY <1>1
<1>6. 9 * e <= 16 * (m - 1) \/ (m = 25 /\ e = 43)
  BY <1>2, <1>3, <1>4, <1>5
<1>7. PICK s : s = [i \in 1 .. 5 |-> IF i = 1 THEN m ELSE IF i = 2 THEN b ELSE
                                     IF i = 3 THEN c ELSE IF i = 4 THEN d ELSE e]
  OBVIOUS
<1>8. /\ s \in [1 .. 5 -> Nat]
      /\ s[1] = m /\ s[2] = b /\ s[3] = c /\ s[4] = d /\ s[5] = e
  BY <1>7
<1>9. \A i \in 1 .. 4 : 9 * s[i] <= 8 * s[i + 1]
  <2>1. \A i \in 1 .. 4 : i = 1 \/ i = 2 \/ i = 3 \/ i = 4
    OBVIOUS
  <2> QED  BY <1>2, <1>3, <1>4, <1>5, <1>8, <2>1
<1> QED  BY <1>6, <1>8, <1>9

\* From 22 microseconds on there are stairs.
LEMMA StairsExist ==
    ASSUME NEW p \in Nat, p >= 22 * Unit
    PROVE  \E s : Stairs(s, p)
<1>1. Unit \in Nat /\ Unit >= 1
  BY CCAssumption
<1>2. PICK x, u : x = 9 * p + 8 * Unit - 1 /\ u = 8 * Unit /\ x \in Nat /\ u \in Nat /\ u >= 1
  BY <1>1
<1>3. PICK m : m = x \div u /\ m \in Nat /\ m * u <= x /\ x < (m + 1) * u
  BY <1>2
<1>4. m * Unit \in Nat /\ m * u = 8 * (m * Unit) /\ (m + 1) * u = 8 * (m * Unit) + 8 * Unit
  BY <1>1, <1>2, <1>3
<1>5. 9 * p <= 8 * (m * Unit) /\ 8 * (m * Unit) <= 9 * p + 8 * Unit - 1
  BY <1>1, <1>2, <1>3, <1>4
<1>6. m >= 25
  <2> SUFFICES ASSUME m <= 24
               PROVE  FALSE
    BY <1>3
  <2>1. m * Unit <= 24 * Unit
    BY <1>3, TimesUnit
  <2> QED  BY <1>1, <1>4, <1>5, <2>1
<1>7. PICK s \in [1 .. 5 -> Nat] :
               /\ s[1] = m /\ \A i \in 1 .. 4 : 9 * s[i] <= 8 * s[i + 1]
               /\ 9 * s[5] <= 16 * (m - 1) \/ (m = 25 /\ s[5] = 43)
  BY <1>3, <1>6, StairsFrom
<1>8. PICK e \in Nat : e = s[5]
  OBVIOUS
<1>9. e * Unit <= 2 * p
  <2>1. CASE 9 * e <= 16 * (m - 1)
    <3>1. (9 * e) * Unit <= (16 * (m - 1)) * Unit
      BY <1>3, <2>1, TimesUnit
    <3>2. (9 * e) * Unit = 9 * (e * Unit) /\ (16 * (m - 1)) * Unit = 16 * (m * Unit) - 16 * Unit
      BY <1>1, <1>3
    <3>3. e * Unit \in Nat
      BY <1>1
    <3> QED  BY <1>1, <1>4, <1>5, <3>1, <3>2, <3>3
  <2>2. CASE m = 25 /\ e = 43
    BY <1>1, <2>2
  <2> QED  BY <1>7, <1>8, <2>1, <2>2
<1> QED  BY <1>5, <1>7, <1>8, <1>9 DEF Stairs

\* The stairs are higher with every chance.
LEMMA StairsRise ==
    ASSUME NEW p \in Nat, NEW s, Stairs(s, p), NEW i \in 1 .. 5
    PROVE  /\ s[i] \in Nat /\ s[i] * Unit <= s[5] * Unit
           /\ \A j \in 1 .. 5 : j <= i => s[j] * Unit <= s[i] * Unit
<1>1. s \in [1 .. 5 -> Nat] /\ \A j \in 1 .. 4 : 9 * s[j] <= 8 * s[j + 1]
  BY DEF Stairs
<1>2. /\ s[1] \in Nat /\ s[2] \in Nat /\ s[3] \in Nat /\ s[4] \in Nat /\ s[5] \in Nat
      /\ s[1] <= s[2] /\ s[2] <= s[3] /\ s[3] <= s[4] /\ s[4] <= s[5]
  <2>1. 9 * s[1] <= 8 * s[2] /\ 9 * s[2] <= 8 * s[3] /\ 9 * s[3] <= 8 * s[4] /\ 9 * s[4] <= 8 * s[5]
    BY <1>1
  <2> QED  BY <1>1, <2>1
<1>3. \A j \in 1 .. 5 : j = 1 \/ j = 2 \/ j = 3 \/ j = 4 \/ j = 5
  OBVIOUS
<1>4. ASSUME NEW j \in 1 .. 5, NEW k \in 1 .. 5, j <= k
      PROVE  s[j] <= s[k]
  BY <1>2, <1>3, <1>4
<1>5. ASSUME NEW j \in 1 .. 5, NEW k \in 1 .. 5, j <= k
      PROVE  s[j] * Unit <= s[k] * Unit
  <2>1. s[j] \in Int /\ s[k] \in Int /\ s[j] <= s[k]
    BY <1>1, <1>4, <1>5
  <2> QED  BY <2>1, TimesUnit
<1> QED  BY <1>1, <1>5

\* A report of an old loss climbs one stair at most.
LEMMA OneStair ==
    ASSUME NEW l \in Nat, NEW s, Stairs(s, l), NEW p \in Nat, NEW i \in 1 .. 4,
           p <= s[i] * Unit
    PROVE  Raised(p) \in Nat /\ Raised(p) <= s[i + 1] * Unit
<1>1. Unit \in Nat
  BY CCAssumption
<1>2. PICK a, b : a \in Nat /\ b \in Nat /\ a = s[i] /\ b = s[i + 1] /\ 9 * a <= 8 * b
  BY DEF Stairs
<1>3. (9 * a) * Unit <= (8 * b) * Unit
  BY <1>2, TimesUnit
<1>4. (9 * a) * Unit = 9 * (a * Unit) /\ (8 * b) * Unit = 8 * (b * Unit)
  BY <1>1, <1>2
<1>5. a * Unit \in Nat /\ b * Unit \in Nat
  BY <1>1, <1>2
<1>6. 9 * p <= 8 * (b * Unit)
  BY <1>2, <1>3, <1>4, <1>5
<1> QED  BY <1>2, <1>6, RaisedBound

\* However losses and ACKs are reported and whatever is drawn, a congestion period
\* that begins with 22 microseconds or more between packets at most doubles them.
THEOREM RateHalved == CCSpec => []RateHalvedAtMost
<1>1. CCInit => CCInv
  <2> SUFFICES ASSUME CCInit PROVE CCInv
    OBVIOUS
  <2>1. Unit \in Nat /\ Unit >= 1 /\ lastDecPeriod = Unit /\ period = Unit
    BY CCAssumption DEF CCInit
  <2>2. ~(lastDecPeriod >= 22 * Unit)
    BY <2>1
  <2> QED  BY <2>1, <2>2 DEF CCInit, CCInv
<1>2. CCInv /\ [CCNext]_ccVars => CCInv'
  <2> SUFFICES ASSUME CCInv, [CCNext]_ccVars PROVE CCInv'
    OBVIOUS
  <2>1. /\ Unit \in Nat /\ Unit >= 1 /\ Periods \subseteq Nat
        /\ ~(Unit >= 22 * Unit)
    BY CCAssumption
  <2>2. ASSUME UNCHANGED <<naks, lastDecPeriod>>, sent' \in Nat, slowStart' => slowStart,
               period' \in Nat, period' <= period \/ lastDecPeriod = Unit
        PROVE  CCInv'
    <3>1. ASSUME lastDecPeriod >= 22 * Unit
          PROVE  \E s : Stairs(s, lastDecPeriod) /\ period' <= s[Chances(naks)] * Unit
      <4>1. PICK s : Stairs(s, lastDecPeriod) /\ period <= s[Chances(naks)] * Unit
        BY <3>1 DEF CCInv
      <4>2. Chances(naks) \in 1 .. 5
        BY <3>1 DEF CCInv, Chances
      <4>3. PICK n : n \in Nat /\ n = s[Chances(naks)] * Unit
        BY <2>1, <4>1, <4>2 DEF Stairs
      <4>4. period \in Nat /\ period' <= period
        BY <2>1, <2>2, <3>1 DEF CCInv
      <4>5. period' <= n
        BY <2>2, <4>1, <4>3, <4>4
      <4> QED  BY <4>1, <4>3, <4>5
    <3>2. Chances(naks)' = Chances(naks)
      BY <2>2 DEF Chances
    <3>3. \A s : Stairs(s, lastDecPeriod)' <=> Stairs(s, lastDecPeriod)
      BY <2>2 DEF Stairs
    <3> QED  BY <2>2, <3>1, <3>2, <3>3 DEF CCInv
  <2>3. CASE PacketSent
    BY <2>2, <2>3 DEF CCInv, PacketSent
  <2>4. CASE OnACK
    <3>1. UNCHANGED <<naks, lastDecPeriod, sent>> /\ (slowStart' => slowStart)
      BY <2>4 DEF OnACK
    <3>2. CASE slowStart
      BY <2>1, <2>2, <2>4, <3>1, <3>2 DEF CCInv, OnACK
    <3>3. CASE ~slowStart
      <4>1. period' = period \/ (period' \in Periods /\ period' < period)
        BY <2>4, <3>3 DEF OnACK
      <4>2. period' \in Nat /\ period \in Nat /\ period' <= period
        <5>1. period \in Nat
          BY DEF CCInv
        <5>2. period' \in Nat
          BY <2>1, <4>1, <5>1
        <5> QED  BY <4>1, <5>1, <5>2
      <4> QED  BY <2>2, <3>1, <4>2 DEF CCInv
    <3> QED  BY <3>2, <3>3
  <2>5. CASE OnTimeout
    BY <2>1, <2>2, <2>5 DEF CCInv, OnTimeout
  <2>6. ASSUME NEW seq, NEW known, OnLoss(seq, known)
        PROVE  CCInv'
    <3>1. sent' = sent /\ slowStart' = FALSE
      BY <2>6 DEF OnLoss
    <3>2. CASE slowStart /\ known
      BY <2>1, <2>2, <2>6, <3>1, <3>2 DEF CCInv, OnLoss
    <3>3. CASE ~(slowStart /\ known)
      <4>1. PICK p \in Nat : /\ p = period \/ slowStart
                             /\ NewPeriod(p) \/ SamePeriod(p)
        BY <2>1, <2>6, <3>3 DEF CCInv, OnLoss
      <4>2. CASE NewPeriod(p)
        <5>1. Averaged \in Nat
          BY DEF Averaged, CCInv
        <5>2. PICK r \in Nat : naks' = [count |-> 1, avg |-> Averaged, decs |-> 1, random |-> r]
          BY <4>2, <5>1 DEF NewPeriod
        <5>3. /\ naks' \in [count : Nat, avg : Nat, decs : Nat, random : Nat]
              /\ naks'.decs = 1 /\ Chances(naks)' = 1
          BY <5>1, <5>2 DEF Chances
        <5>4. lastDecPeriod' = p /\ period' = Raised(p)
          BY <4>2 DEF NewPeriod
        <5>5. Raised(p) \in Nat
          <6>1. 9 * p <= 8 * ((9 * p) * Unit)
            <7>1. PICK q \in Nat : q = 9 * p
              OBVIOUS
            <7>2. q <= q * Unit
              BY <2>1
            <7>3. q * Unit \in Nat
              BY <2>1
            <7> QED  BY <7>1, <7>2, <7>3
          <6>2. 9 * p \in Nat
            OBVIOUS
          <6> QED  BY <6>1, <6>2, RaisedBound
        <5>6. ASSUME p >= 22 * Unit
              PROVE  \E s : Stairs(s, p) /\ Raised(p) <= s[1] * Unit
          <6>1. PICK s : Stairs(s, p)
            BY <5>6, StairsExist
          <6>2. s[1] \in Nat /\ 9 * p <= 8 * (s[1] * Unit)
            BY <6>1 DEF Stairs
          <6> QED  BY <6>1, <6>2, RaisedBound
        <5>7. \A s : Stairs(s, lastDecPeriod)' <=> Stairs(s, p)
          BY <5>4 DEF Stairs
        <5> QED  BY <3>1, <5>3, <5>4, <5>5, <5>6, <5>7 DEF CCInv
      <4>3. CASE SamePeriod(p)
        <5> DEFINE c == IF naks.decs < 5 THEN naks.count + 1 ELSE naks.count
        <5>1. naks' = [naks EXCEPT !.decs = naks.decs + 1, !.count = c]
          BY <4>3 DEF SamePeriod
        <5>2. c \in Nat /\ naks.decs + 1 \in Nat
          BY DEF CCInv
        <5> HIDE DEF c
        <5>3. /\ naks' \in [count : Nat, avg : Nat, decs : Nat, random : Nat]
              /\ naks'.decs = naks.decs + 1
          BY <5>1, <5>2 DEF CCInv
        <5>4. period' = p \/ (naks.decs < 5 /\ period' = Raised(p))
          BY <4>3 DEF SamePeriod, Another
        <5>5. lastDecPeriod' = lastDecPeriod
          BY <4>3 DEF SamePeriod
        <5>6. Raised(p) \in Nat
          <6>1. 9 * p <= 8 * ((9 * p) * Unit)
            <7>1. PICK q \in Nat : q = 9 * p
              OBVIOUS
            <7>2. q <= q * Unit
              BY <2>1
            <7>3. q * Unit \in Nat
              BY <2>1
            <7> QED  BY <7>1, <7>2, <7>3
          <6>2. 9 * p \in Nat
            OBVIOUS
          <6> QED  BY <6>1, <6>2, RaisedBound
        <5>7. ASSUME lastDecPeriod >= 22 * Unit
              PROVE  /\ naks'.decs >= 1
                     /\ \E s : Stairs(s, lastDecPeriod) /\ period' <= s[Chances(naks')] * Unit
          <6>1. p = period /\ naks.decs \in Nat /\ naks.decs >= 1
            BY <2>1, <4>1, <5>7 DEF CCInv
          <6>2. PICK s : Stairs(s, lastDecPeriod) /\ period <= s[Chances(naks)] * Unit
            BY <5>7 DEF CCInv
          <6>3. PICK i, j : /\ i = Chances(naks) /\ i \in 1 .. 5
                            /\ j = Chances(naks') /\ j \in 1 .. 5 /\ i <= j
                            /\ naks.decs < 5 => i \in 1 .. 4 /\ j = i + 1
            BY <5>3, <6>1 DEF Chances
          <6>4. lastDecPeriod \in Nat
            BY DEF CCInv
          <6>5. CASE period' = p
            <7>1. PICK a, b : a = s[i] * Unit /\ b = s[j] * Unit /\ a \in Nat /\ b \in Nat /\ a <= b
              <8>1. s[i] \in Nat /\ s[j] \in Nat /\ s[i] * Unit <= s[j] * Unit
                BY <6>2, <6>3, <6>4, StairsRise
              <8>2. s[i] * Unit \in Nat /\ s[j] * Unit \in Nat
                BY <2>1, <8>1
              <8> QED  BY <8>1, <8>2
            <7>2. p <= a
              BY <6>1, <6>2, <6>3, <7>1
            <7>3. period' <= b
              BY <6>5, <7>1, <7>2
            <7> QED  BY <5>3, <6>1, <6>2, <6>3, <7>1, <7>3
          <6>6. CASE naks.decs < 5 /\ period' = Raised(p)
            <7>1. Raised(p) <= s[j] * Unit
              <8>1. p <= s[i] * Unit
                BY <6>1, <6>2, <6>3
              <8> QED  BY <6>2, <6>3, <6>4, <6>6, <8>1, OneStair
            <7> QED  BY <5>3, <6>1, <6>2, <6>3, <6>6, <7>1
          <6> QED  BY <5>4, <6>5, <6>6
        <5>8. Chances(naks)' = Chances(naks')
          BY DEF Chances
        <5>9. \A s : Stairs(s, lastDecPeriod)' <=> Stairs(s, lastDecPeriod)
          BY <5>5 DEF Stairs
        <5>10. period' \in Nat
          BY <5>4, <5>6
        <5> QED  BY <3>1, <5>3, <5>5, <5>7, <5>8, <5>9, <5>10 DEF CCInv
      <4> QED  BY <4>1, <4>2, <4>3
    <3> QED  BY <3>2, <3>3
  <2>7. CASE UNCHANGED ccVars
    BY <2>2, <2>7 DEF CCInv, ccVars
  <2> QED  BY <2>3, <2>4, <2>5, <2>6, <2>7 DEF CCNext
<1>3. CCInv => RateHalvedAtMost
  <2> SUFFICES ASSUME CCInv, lastDecPeriod >= 22 * Unit
               PROVE  period <= 2 * lastDecPeriod
    BY DEF RateHalvedAtMost
  <2>1. PICK s : Stairs(s, lastDecPeriod) /\ period <= s[Chances(naks)] * Unit
    BY DEF CCInv
  <2>2. PICK i : i = Chances(naks) /\ i \in 1 .. 5
    BY DEF CCInv, Chances
  <2>3. s[i] \in Nat /\ s[i] * Unit <= s[5] * Unit
    BY <2>1, <2>2, StairsRise DEF CCInv
  <2>4. PICK a, b : a = s[i] * Unit /\ b = s[5] * Unit /\ a \in Nat /\ b \in Nat
    BY <2>1, <2>3, CCAssumption DEF Stairs
  <2>5. period \in Nat /\ lastDecPeriod \in Nat
    BY DEF CCInv
  <2>6. b <= 2 * lastDecPeriod
    BY <2>1, <2>4 DEF Stairs
  <2> QED  BY <2>1, <2>2, <2>3, <2>4, <2>5, <2>6
<1> QED  BY <1>1, <1>2, <1>3, PTL DEF CCSpec

-----------------------------------------------------------------------------
(* CACKWindow.                                                             *)

\* More numbers than cells: the library has 2^31 of them for 1024 cells.
AckSizes ==
    /\ AckWindowSize \in Nat /\ AckWindowSize >= 2
    /\ MaxAckSeqNo \in Nat /\ AckWindowSize <= MaxAckSeqNo + 2

\* The k-th slot of a ring from slot t on.
Slot(t, k) ==
    IF t + k - 1 < AckWindowSize THEN t + k - 1 ELSE t + k - 1 - AckWindowSize

\* How many ACKs lie between tail and head.
Span(h, t) == h - t + (IF h >= t THEN 0 ELSE AckWindowSize)
Length(w) == Span(w.head, w.tail)

\* The slot after i.
Step(i) == IF i + 1 = AckWindowSize THEN 0 ELSE i + 1

\* The number d ACKs before the one numbered a.
NumberBefore(a, d) == IF d <= a THEN a - d ELSE a - d + MaxAckSeqNo + 1
Before(d) == NumberBefore(ackSeqNo, d)

AckTypeOK ==
    /\ window \in [seqNo : [AckSlots -> Int], ack : [AckSlots -> Int],
                   head : AckSlots, tail : AckSlots]
    /\ ackSeqNo \in AckSeqNos
    /\ log \in Seq(AckSeqNos \X DataAcks)

\* The ring holds the log, and the log the last ACKs without a gap.
AckInv ==
    /\ AckTypeOK
    /\ Len(log) = Length(window)
    /\ \A k \in 1 .. Len(log) :
           /\ window.seqNo[Slot(window.tail, k)] = log[k][1]
           /\ window.ack[Slot(window.tail, k)] = log[k][2]
           /\ log[k][1] = Before(Len(log) - k)

\* What the index of the ring, taken modulo its size, is.
LEMMA Modulo ==
  ASSUME AckSizes, NEW x \in 0 .. 2 * AckWindowSize - 1
  PROVE  x % AckWindowSize = IF x < AckWindowSize THEN x ELSE x - AckWindowSize
<1>1. CASE x < AckWindowSize
  BY <1>1 DEF AckSizes
<1>2. CASE x >= AckWindowSize
  BY <1>2 DEF AckSizes
<1> QED  BY <1>1, <1>2 DEF AckSizes

\* Slots between tail t and head h of a ring.
LEMMA RingSlots ==
  ASSUME AckSizes, NEW h \in AckSlots, NEW t \in AckSlots
  PROVE  /\ Span(h, t) \in 0 .. AckWindowSize - 1
         /\ Step(h) = t <=> Span(h, t) + 1 = AckWindowSize
         /\ Slot(t, Span(h, t) + 1) = h
         /\ \A k \in 1 .. Span(h, t) : Slot(t, k) \in AckSlots /\ Slot(t, k) # h
<1>1. /\ h \in Nat /\ t \in Nat /\ h < AckWindowSize /\ t < AckWindowSize
      /\ AckWindowSize \in Nat /\ AckWindowSize >= 2
  BY DEF AckSizes, AckSlots
<1>2. Span(h, t) \in 0 .. AckWindowSize - 1
  BY <1>1 DEF Span
<1>3. Step(h) = t <=> Span(h, t) + 1 = AckWindowSize
  BY <1>1 DEF Span, Step
<1>4. Slot(t, Span(h, t) + 1) = h
  BY <1>1 DEF Span, Slot
<1>5. ASSUME NEW k \in 1 .. Span(h, t)
      PROVE  Slot(t, k) \in AckSlots /\ Slot(t, k) # h
  BY <1>1 DEF Span, Slot, AckSlots
<1> QED  BY <1>2, <1>3, <1>4, <1>5

\* When the head moves on, and the tail with it if it was reached.
LEMMA RingGrows ==
  ASSUME AckSizes, NEW h \in AckSlots, NEW t \in AckSlots,
         NEW d, d = IF Step(h) = t THEN 1 ELSE 0,
         NEW u, u = IF Step(h) = t THEN Step(t) ELSE t
  PROVE  /\ Span(Step(h), u) = Span(h, t) + 1 - d
         /\ \A k \in 1 .. Span(h, t) + 1 - d : Slot(u, k) = Slot(t, k + d)
<1>1. /\ h \in Nat /\ t \in Nat /\ h < AckWindowSize /\ t < AckWindowSize
      /\ AckWindowSize \in Nat /\ AckWindowSize >= 2
  BY DEF AckSizes, AckSlots
<1>2. Span(h, t) \in 0 .. AckWindowSize - 1
  BY RingSlots
<1>3. Span(Step(h), u) = Span(h, t) + 1 - d
  BY <1>1 DEF Span, Step
<1>4. CASE Step(h) = t
  <2>1. d = 1 /\ u = Step(t)
    BY <1>4
  <2>2. ASSUME NEW k \in 1 .. Span(h, t)
        PROVE  Slot(u, k) = Slot(t, k + 1)
    BY <1>1, <1>2, <2>1 DEF Slot, Step
  <2> QED  BY <1>2, <1>3, <2>1, <2>2
<1>5. CASE Step(h) # t
  <2>1. d = 0 /\ u = t
    BY <1>5
  <2> QED  BY <1>2, <1>3, <2>1
<1> QED  BY <1>4, <1>5

\* When the tail moves on beyond the m-th slot.
LEMMA RingShrinks ==
  ASSUME AckSizes, NEW h \in AckSlots, NEW t \in AckSlots, NEW m \in 1 .. Span(h, t)
  PROVE  /\ Span(h, Step(Slot(t, m))) = Span(h, t) - m
         /\ \A k \in 1 .. Span(h, t) - m : Slot(Step(Slot(t, m)), k) = Slot(t, k + m)
         /\ h >= t /\ Slot(t, m) + 1 = h => Span(h, t) = m
<1>1. /\ h \in Nat /\ t \in Nat /\ h < AckWindowSize /\ t < AckWindowSize
      /\ AckWindowSize \in Nat /\ AckWindowSize >= 2
      /\ m \in Nat /\ m >= 1
  BY DEF AckSizes, AckSlots, Span
<1>2. Span(h, t) \in 0 .. AckWindowSize - 1
  BY RingSlots
<1>3. m <= Span(h, t)
  BY <1>1, <1>2
<1>4. Span(h, Step(Slot(t, m))) = Span(h, t) - m
  BY <1>1, <1>3 DEF Span, Step, Slot
<1>5. ASSUME NEW k \in 1 .. Span(h, t) - m
      PROVE  Slot(Step(Slot(t, m)), k) = Slot(t, k + m)
  <2>1. k \in Nat /\ k >= 1 /\ k + m < AckWindowSize
    BY <1>1, <1>2
  <2> QED  BY <1>1, <2>1 DEF Step, Slot
<1>6. h >= t /\ Slot(t, m) + 1 = h => Span(h, t) = m
  BY <1>1, <1>3 DEF Span, Slot
<1> QED  BY <1>4, <1>5, <1>6

\* Numbers as the last one moves on.
LEMMA NumbersMove ==
  ASSUME AckSizes, NEW a \in AckSeqNos, NEW d \in Nat, d <= MaxAckSeqNo
  PROVE  LET s == IF a = MaxAckSeqNo THEN 0 ELSE a + 1
         IN  NumberBefore(s, d + 1) = NumberBefore(a, d) /\ NumberBefore(s, 0) = s
<1> QED  BY DEF AckSizes, AckSeqNos, NumberBefore

\* The slot after one, and the slots between tail and head.
LEMMA Slots ==
  ASSUME AckSizes, AckTypeOK
  PROVE  /\ \A i \in AckSlots : /\ AckAfter(i) \in AckSlots
                                /\ AckAfter(i) = Step(i)
         /\ Length(window) \in 0 .. AckWindowSize - 1
         /\ DOMAIN Held(window) = 1 .. Length(window)
         /\ \A k \in 1 .. Length(window) :
                /\ Held(window)[k] = Slot(window.tail, k)
                /\ Slot(window.tail, k) \in AckSlots
<1> DEFINE h == window.head
           t == window.tail
<1>1. h \in AckSlots /\ t \in AckSlots
  BY DEF AckTypeOK
<1>2. ASSUME NEW i \in AckSlots
      PROVE  /\ AckAfter(i) \in AckSlots
             /\ AckAfter(i) = Step(i)
  <2> DEFINE x == i + 1
  <2>1. x \in 0 .. 2 * AckWindowSize - 1
    BY DEF AckSizes, AckSlots
  <2> HIDE DEF x
  <2>2. x % AckWindowSize = IF x < AckWindowSize THEN x ELSE x - AckWindowSize
    BY <2>1, Modulo
  <2> QED  BY <2>2 DEF AckSizes, AckSlots, AckAfter, Step, x
<1>3. Length(window) \in 0 .. AckWindowSize - 1
  BY <1>1, RingSlots DEF Length
<1>4. DOMAIN Held(window) = 1 .. Length(window)
  BY DEF Held, Length, Span
<1>5. ASSUME NEW k \in 1 .. Length(window)
      PROVE  /\ Held(window)[k] = Slot(t, k)
             /\ Slot(t, k) \in AckSlots
  <2>1. k \in Int /\ 1 <= k /\ k <= AckWindowSize - 1
    BY <1>3 DEF AckSizes
  <2> DEFINE x == t + k - 1
  <2>2. x \in 0 .. 2 * AckWindowSize - 1
    BY <1>1, <2>1 DEF AckSizes, AckSlots
  <2>3. Held(window)[k] = x % AckWindowSize
    BY DEF Held, Length, Span
  <2>4. t \in Int /\ AckWindowSize \in Int
    BY <1>1 DEF AckSlots, AckSizes
  <2> HIDE DEF t
  <2>5. Slot(t, k) = IF x < AckWindowSize THEN x ELSE x - AckWindowSize
    BY <2>1, <2>4 DEF Slot
  <2> HIDE DEF x
  <2>6. x % AckWindowSize = Slot(t, k)
    BY <2>2, <2>5, Modulo
  <2>7. Slot(t, k) \in AckSlots
    BY <1>1, RingSlots DEF Length, t
  <2> QED  BY <2>3, <2>6, <2>7
<1> QED  BY <1>2, <1>3, <1>4, <1>5

\* Two ACKs of the log have different numbers.
LEMMA LogDistinct ==
  ASSUME AckSizes, AckInv, NEW j \in 1 .. Len(log), NEW k \in 1 .. Len(log),
         log[j][1] = log[k][1]
  PROVE  j = k
<1>1. Len(log) \in 0 .. MaxAckSeqNo + 1
  BY Slots DEF AckInv, AckSizes
<1>2. ackSeqNo \in 0 .. MaxAckSeqNo
  BY DEF AckInv, AckTypeOK, AckSeqNos
<1>3. Before(Len(log) - j) = Before(Len(log) - k)
  BY DEF AckInv
<1>4. j \in 1 .. Len(log) /\ k \in 1 .. Len(log)
  OBVIOUS
<1> QED  BY <1>1, <1>2, <1>3, <1>4 DEF Before, NumberBefore, AckSizes

\* The ring and the log know the same numbers, at the same places.
LEMMA SamePlaces ==
  ASSUME AckSizes, AckInv, NEW seq
  PROVE  {k \in DOMAIN Held(window) : window.seqNo[Held(window)[k]] = seq}
             = {k \in DOMAIN log : log[k][1] = seq}
<1>1. DOMAIN log = 1 .. Len(log) /\ DOMAIN Held(window) = 1 .. Len(log)
  BY Slots DEF AckInv, AckTypeOK
<1>2. \A k \in 1 .. Len(log) : window.seqNo[Held(window)[k]] = log[k][1]
  BY Slots DEF AckInv
<1> QED  BY <1>1, <1>2

\* There is at most one place for a number.
LEMMA FoundIs ==
  ASSUME AckSizes, AckInv, NEW seq
  PROVE  \/ Found(window, seq) = 0 /\ ~\E k \in DOMAIN log : log[k][1] = seq
         \/ \E k \in 1 .. Len(log) : /\ log[k][1] = seq /\ Found(window, seq) = k
                                     /\ {j \in DOMAIN log : log[j][1] = seq} = {k}
<1> DEFINE places == {k \in DOMAIN log : log[k][1] = seq}
<1>1. Found(window, seq) = IF places = {} THEN 0
                           ELSE CHOOSE k \in places : \A j \in places : k <= j
  <2>1. {k \in DOMAIN Held(window) : window.seqNo[Held(window)[k]] = seq} = places
    BY SamePlaces
  <2> DEFINE held == {k \in DOMAIN Held(window) : window.seqNo[Held(window)[k]] = seq}
  <2>2. Found(window, seq) = IF held = {} THEN 0
                             ELSE CHOOSE k \in held : \A j \in held : k <= j
    BY Zenon DEF Found
  <2>3. held = places
    BY <2>1
  <2> HIDE DEF places, held
  <2> QED  BY <2>2, <2>3
<1>2. DOMAIN log = 1 .. Len(log) /\ Len(log) \in Nat
  BY DEF AckInv, AckTypeOK
<1>3. CASE places = {}
  BY <1>1, <1>3
<1>4. ASSUME NEW k \in places
      PROVE  Found(window, seq) = k /\ places = {k} /\ k \in 1 .. Len(log)
  <2>1. k \in 1 .. Len(log) /\ log[k][1] = seq
    BY <1>2
  <2>2. \A j \in places : j = k
    BY <1>2, <2>1, LogDistinct
  <2>3. places = {k}
    BY <2>2
  <2> HIDE DEF places
  <2>4. (CHOOSE i \in places : \A j \in places : i <= j) = k
    BY <2>1, <2>3
  <2> QED  BY <1>1, <2>1, <2>3, <2>4
<1> QED  BY <1>3, <1>4

\* An ACK that is sent: the ring and the log grow, and lose their oldest, together.
LEMMA SendAckKeeps ==
  ASSUME AckSizes, AckInv, NEW ack \in DataAcks, SendAck(ack)
  PROVE  AckInv'
<1> DEFINE seq == IF ackSeqNo = MaxAckSeqNo THEN 0 ELSE ackSeqNo + 1
           l == Append(log, <<seq, ack>>)
           h == window.head
           t == window.tail
           n == Len(log)
<1>1. /\ h \in AckSlots /\ t \in AckSlots /\ ackSeqNo \in AckSeqNos
      /\ log \in Seq(AckSeqNos \X DataAcks)
      /\ window.seqNo \in [AckSlots -> Int] /\ window.ack \in [AckSlots -> Int]
  BY DEF AckInv, AckTypeOK
<1>2. seq \in AckSeqNos /\ ackSeqNo' = seq
  BY <1>1 DEF AckSeqNos, AckSizes, SendAck
<1>3. /\ window'.seqNo = [window.seqNo EXCEPT ![h] = seq]
      /\ window'.ack = [window.ack EXCEPT ![h] = ack]
      /\ window'.head = AckAfter(h)
      /\ window'.tail = IF AckAfter(h) = t THEN AckAfter(t) ELSE t
      /\ window' = [seqNo |-> window'.seqNo, ack |-> window'.ack, head |-> window'.head,
                    tail |-> window'.tail]
  BY DEF SendAck, Stored, TailAfter
<1>4. /\ AckAfter(h) \in AckSlots /\ AckAfter(t) \in AckSlots
      /\ AckAfter(h) = Step(h) /\ AckAfter(t) = Step(t)
      /\ n = Span(h, t) /\ n \in 0 .. AckWindowSize - 1
  BY <1>1, Slots DEF AckInv, Length
<1>5. /\ l \in Seq(AckSeqNos \X DataAcks) /\ Len(l) = n + 1
      /\ l[n + 1] = <<seq, ack>> /\ \A k \in 1 .. n : l[k] = log[k]
  <2>1. <<seq, ack>> \in AckSeqNos \X DataAcks
    BY <1>2
  <2> HIDE DEF seq
  <2> QED  BY <1>1, <2>1, AppendProperties
<1>6. log' = IF n + 1 = AckWindowSize THEN Tail(l) ELSE l
  BY <1>5 DEF SendAck
<1>7. AckAfter(h) = t <=> n + 1 = AckWindowSize
  <2>1. Step(h) = t <=> Span(h, t) + 1 = AckWindowSize
    BY <1>1, RingSlots
  <2> HIDE DEF n, h, t
  <2> QED  BY <1>4, <2>1
<1> HIDE DEF l
<1>8. PICK d \in {0, 1} : d = IF n + 1 = AckWindowSize THEN 1 ELSE 0
  OBVIOUS
<1>9. /\ log' \in Seq(AckSeqNos \X DataAcks) /\ Len(log') = n + 1 - d
      /\ \A k \in 1 .. n + 1 - d : log'[k] = l[k + d]
  <2>1. CASE n + 1 = AckWindowSize
    <3>1. l # <<>>
      BY <1>4, <1>5, EmptySeq
    <3> QED  BY <1>5, <1>6, <1>8, <2>1, <3>1, HeadTailProperties
  <2>2. CASE n + 1 # AckWindowSize
    BY <1>4, <1>5, <1>6, <1>8, <2>2
  <2> QED  BY <2>1, <2>2
<1>10. AckTypeOK'
  <2>1. window'.seqNo \in [AckSlots -> Int] /\ window'.ack \in [AckSlots -> Int]
    BY <1>1, <1>2, <1>3 DEF AckSeqNos, DataAcks
  <2>2. window'.head \in AckSlots /\ window'.tail \in AckSlots
    BY <1>1, <1>3, <1>4
  <2> QED  BY <1>2, <1>3, <1>9, <2>1, <2>2 DEF AckTypeOK
<1>11. Len(log') = Length(window')
  <2>1. Span(window'.head, window'.tail) = n + 1 - d
    BY <1>1, <1>3, <1>4, <1>7, <1>8, RingGrows
  <2> QED  BY <1>9, <2>1 DEF Length
<1>12. ASSUME NEW k \in 1 .. Len(log')
       PROVE  /\ window'.seqNo[Slot(window'.tail, k)] = log'[k][1]
              /\ window'.ack[Slot(window'.tail, k)] = log'[k][2]
              /\ log'[k][1] = NumberBefore(ackSeqNo', Len(log') - k)
  <2>1. k \in Nat /\ k >= 1 /\ k <= n + 1 - d /\ log'[k] = l[k + d]
    BY <1>4, <1>8, <1>9
  <2>2. Slot(window'.tail, k) = Slot(t, k + d)
    <3>1. k \in 1 .. Span(h, t) + 1 - d
      BY <1>4, <1>9
    <3> HIDE DEF n
    <3> QED  BY <1>1, <1>3, <1>4, <1>7, <1>8, <3>1, RingGrows
  <2>3. CASE k + d = n + 1
    <3>1. Slot(t, n + 1) = h
      BY <1>1, <1>4, RingSlots
    <3>2. NumberBefore(ackSeqNo', Len(log') - k) = seq
      <4>1. Len(log') - k = 0
        BY <1>4, <1>8, <1>9, <2>1, <2>3
      <4>2. NumberBefore(seq, 0) = seq
        BY <1>1, NumbersMove DEF AckSizes
      <4> HIDE DEF seq
      <4> QED  BY <1>2, <4>1, <4>2 DEF Before
    <3> QED  BY <1>1, <1>3, <1>5, <2>1, <2>2, <2>3, <3>1, <3>2
  <2>4. CASE k + d # n + 1
    <3>1. k + d \in 1 .. n
      BY <1>4, <1>8, <2>1, <2>4
    <3>2. l[k + d] = log[k + d]
      BY <1>5, <3>1
    <3>3. Slot(t, k + d) # h /\ Slot(t, k + d) \in AckSlots
      BY <1>1, <1>4, <3>1, RingSlots
    <3>4. /\ window.seqNo[Slot(t, k + d)] = log[k + d][1]
          /\ window.ack[Slot(t, k + d)] = log[k + d][2]
          /\ log[k + d][1] = Before(n - (k + d))
      BY <3>1 DEF AckInv
    <3>5. NumberBefore(ackSeqNo', Len(log') - k) = Before(n - (k + d))
      <4> DEFINE e == n - (k + d)
      <4>1. e \in Nat /\ e <= MaxAckSeqNo /\ Len(log') - k = e + 1
        BY SMTT(30), <1>4, <1>8, <1>9, <2>1, <3>1 DEF AckSizes
      <4> HIDE DEF e
      <4>2. NumberBefore(seq, e + 1) = NumberBefore(ackSeqNo, e)
        BY <1>1, <4>1, NumbersMove
      <4> HIDE DEF seq
      <4> QED  BY <1>2, <4>1, <4>2 DEF Before, e
    <3> QED  BY SMTT(30), <1>1, <1>3, <2>1, <2>2, <3>2, <3>3, <3>4, <3>5
  <2> QED  BY <2>3, <2>4
<1> HIDE DEF n, h, t, seq
<1> QED  BY <1>10, <1>11, <1>12 DEF AckInv, Before

\* An ACK2 that arrives: both lose the ACK it names and the older ones.
LEMMA ReceiveAck2Keeps ==
  ASSUME AckSizes, AckInv, NEW seq, ReceiveAck2(seq)
  PROVE  AckInv'
<1> DEFINE h == window.head
           t == window.tail
           n == Len(log)
           hits == {k \in DOMAIN log : log[k][1] = seq}
<1>1. /\ h \in AckSlots /\ t \in AckSlots /\ ackSeqNo \in AckSeqNos
      /\ log \in Seq(AckSeqNos \X DataAcks)
      /\ window.seqNo \in [AckSlots -> Int] /\ window.ack \in [AckSlots -> Int]
  BY DEF AckInv, AckTypeOK
<1>2. /\ window' = Confirmed(window, seq) /\ ackSeqNo' = ackSeqNo
      /\ log' = IF hits = {} THEN log
                ELSE SubSeq(log, 1 + CHOOSE k \in hits : \A j \in hits : k <= j, n)
  BY DEF ReceiveAck2
<1>3. CASE hits = {}
  <2>1. Found(window, seq) = 0
    BY <1>3, FoundIs
  <2>2. UNCHANGED <<window, ackSeqNo, log>>
    BY <1>2, <1>3, <2>1 DEF Confirmed
  <2> QED  BY <2>2 DEF AckInv, AckTypeOK, Length, Before
<1>4. ASSUME NEW m \in 1 .. n, log[m][1] = seq, Found(window, seq) = m, hits = {m}
      PROVE  AckInv'
  <2>1. /\ n = Span(h, t) /\ n \in 0 .. AckWindowSize - 1 /\ m \in Nat
        /\ Held(window)[m] = Slot(t, m) /\ Slot(t, m) \in AckSlots
        /\ AckAfter(Slot(t, m)) = Step(Slot(t, m))
        /\ AckAfter(Slot(t, m)) \in AckSlots
    BY <1>4, Slots DEF AckInv, Length
  <2>2. (CHOOSE k \in hits : \A j \in hits : k <= j) = m
    <3> HIDE DEF hits
    <3> QED  BY <1>4, <2>1
  <2>3. log' = SubSeq(log, 1 + m, n)
    BY <1>2, <1>4, <2>2
  <2>4. /\ log' \in Seq(AckSeqNos \X DataAcks) /\ Len(log') = n - m
        /\ \A k \in 1 .. n - m : log'[k] = log[k + m]
    <3>1. /\ \A i \in 1 + m .. n : log[i] \in AckSeqNos \X DataAcks
          /\ 1 + m \in Int /\ n \in Int
      BY <1>1, <2>1
    <3> HIDE DEF n
    <3>2. /\ log' \in Seq(AckSeqNos \X DataAcks)
          /\ Len(log') = IF 1 + m <= n THEN n - (1 + m) + 1 ELSE 0
          /\ \A i \in 1 .. n - (1 + m) + 1 : log'[i] = log[1 + m + i - 1]
      BY <2>1, <2>3, <3>1, SubSeqProperties
    <3> QED  BY <2>1, <3>2
  <2>5. CASE h >= t /\ Slot(t, m) + 1 = h
    <3>1. window' = [window EXCEPT !.head = 0, !.tail = 0, !.seqNo[0] = AckNone]
      BY <1>2, <1>4, <2>1, <2>5 DEF Confirmed
    <3>2. n = m
      BY <1>1, <1>4, <2>1, <2>5, RingShrinks
    <3>3. Len(log') = 0
      BY <2>1, <2>4, <3>2
    <3>4. /\ window' \in [seqNo : [AckSlots -> Int], ack : [AckSlots -> Int],
                          head : AckSlots, tail : AckSlots]
          /\ window'.head = 0 /\ window'.tail = 0
      <4>1. 0 \in AckSlots /\ AckNone \in Int
        BY DEF AckSlots, AckSizes, AckNone
      <4> QED  BY <3>1, <4>1 DEF AckInv, AckTypeOK
    <3>5. Length(window') = 0
      BY <3>4 DEF Length, Span
    <3>6. AckTypeOK'
      BY <1>1, <1>2, <2>4, <3>4 DEF AckTypeOK
    <3>7. 1 .. Len(log') = {}
      BY <3>3
    <3> HIDE DEF h, t, n
    <3> QED  BY <3>3, <3>5, <3>6, <3>7 DEF AckInv
  <2>6. CASE ~(h >= t /\ Slot(t, m) + 1 = h)
    <3>1. window' = [window EXCEPT !.tail = AckAfter(Slot(t, m))]
      BY <1>2, <1>4, <2>1, <2>6 DEF Confirmed
    <3>2. /\ window' \in [seqNo : [AckSlots -> Int], ack : [AckSlots -> Int],
                          head : AckSlots, tail : AckSlots]
          /\ window'.head = h /\ window'.tail = AckAfter(Slot(t, m))
          /\ window'.seqNo = window.seqNo /\ window'.ack = window.ack
      BY <2>1, <3>1 DEF AckInv, AckTypeOK
    <3>3. n - m = Length(window')
      BY <1>1, <1>4, <2>1, <3>2, RingShrinks DEF Length
    <3>4. ASSUME NEW k \in 1 .. Len(log')
          PROVE  /\ window'.seqNo[Slot(window'.tail, k)] = log'[k][1]
                 /\ window'.ack[Slot(window'.tail, k)] = log'[k][2]
                 /\ log'[k][1] = NumberBefore(ackSeqNo', Len(log') - k)
      <4>1. k \in Nat /\ k + m \in 1 .. n /\ log'[k] = log[k + m]
        BY <2>1, <2>4
      <4>2. Slot(window'.tail, k) = Slot(t, k + m)
        <5>1. k \in 1 .. n - m
          BY <2>4
        <5> QED  BY SMTT(30), <1>1, <1>4, <2>1, <3>2, <5>1, RingShrinks
      <4>3. NumberBefore(ackSeqNo', Len(log') - k) = Before(n - (k + m))
        <5>1. Len(log') - k = n - (k + m)
          BY <2>1, <2>4, <4>1
        <5> QED  BY <1>2, <5>1 DEF Before
      <4>4. /\ window.seqNo[Slot(t, k + m)] = log[k + m][1]
            /\ window.ack[Slot(t, k + m)] = log[k + m][2]
            /\ log[k + m][1] = Before(n - (k + m))
        BY <4>1 DEF AckInv
      <4> QED  BY <3>2, <4>1, <4>2, <4>3, <4>4
    <3>5. AckTypeOK'
      BY <1>1, <1>2, <2>4, <3>2 DEF AckTypeOK
    <3> HIDE DEF h, t
    <3> QED  BY <2>4, <3>3, <3>4, <3>5 DEF AckInv, Before
  <2> QED  BY <2>5, <2>6
<1> QED  BY <1>3, <1>4, FoundIs

\* For a ring of any size and numbers that wrap anywhere beyond it: an ACK2 is
\* answered with the data number of its own ACK, while that is among the last
\* and no later one has been confirmed, and otherwise with none.
THEOREM AckWindowAnswers ==
  ASSUME AckSizes
  PROVE  AckSpec => []AckWindowIsLog
<1>1. AckInit => AckInv
  <2> SUFFICES ASSUME AckInit PROVE AckInv
    OBVIOUS
  <2>1. 0 \in AckSlots /\ 0 \in AckSeqNos /\ AckNone \in Int
    BY DEF AckSizes, AckSlots, AckSeqNos, AckNone
  <2>2. AckTypeOK
    BY <2>1 DEF AckInit, AckTypeOK
  <2>3. Len(log) = 0 /\ Length(window) = 0
    BY DEF AckInit, Length, Span
  <2> QED  BY <2>2, <2>3 DEF AckInv
<1>2. AckInv /\ [AckNext]_ackVars => AckInv'
  <2> SUFFICES ASSUME AckInv, [AckNext]_ackVars PROVE AckInv'
    OBVIOUS
  <2>1. CASE UNCHANGED ackVars
    BY <2>1 DEF ackVars, AckInv, AckTypeOK, Length, Before
  <2> QED  BY <2>1, SendAckKeeps, ReceiveAck2Keeps DEF AckNext
<1>3. AckInv => AckWindowIsLog
  <2> SUFFICES ASSUME AckInv PROVE AckWindowIsLog
    OBVIOUS
  <2>1. Len(log) = Len(Held(window)) /\ DOMAIN log = 1 .. Len(log)
    <3>1. Len(log) \in Nat /\ DOMAIN Held(window) = 1 .. Len(log) /\ DOMAIN log = 1 .. Len(log)
      BY Slots DEF AckInv, AckTypeOK
    <3>2. Len(Held(window)) = Len(log)
      <4> DEFINE s == [k \in 1 .. Length(window) |-> (window.tail + k - 1) % AckWindowSize]
      <4>1. Held(window) = s
        BY DEF Held, Length, Span
      <4>2. Length(window) = Len(log)
        BY DEF AckInv
      <4> QED  BY <3>1, <4>1, <4>2
    <3> QED  BY <3>1, <3>2
  <2>2. ASSUME NEW seq \in AckSeqNos
        PROVE  Answered(window, seq) =
                   IF \E k \in DOMAIN log : log[k][1] = seq
                   THEN log[CHOOSE k \in DOMAIN log : log[k][1] = seq][2] ELSE AckNone
    <3>1. CASE Found(window, seq) = 0 /\ ~\E k \in DOMAIN log : log[k][1] = seq
      BY <3>1 DEF Answered
    <3>2. ASSUME NEW k \in 1 .. Len(log), log[k][1] = seq, Found(window, seq) = k,
                 {j \in DOMAIN log : log[j][1] = seq} = {k}
          PROVE  Answered(window, seq) =
                   IF \E i \in DOMAIN log : log[i][1] = seq
                   THEN log[CHOOSE i \in DOMAIN log : log[i][1] = seq][2] ELSE AckNone
      <4>1. \A i \in DOMAIN log : log[i][1] = seq <=> i = k
        BY <2>1, <3>2
      <4>2. (CHOOSE i \in DOMAIN log : log[i][1] = seq) = k
        BY <2>1, <4>1
      <4>3. window.ack[Held(window)[k]] = log[k][2]
        BY Slots DEF AckInv
      <4>4. k # 0
        BY <3>2
      <4> QED  BY <2>1, <3>2, <4>2, <4>3, <4>4 DEF Answered
    <3> QED  BY <3>1, <3>2, FoundIs
  <2> QED  BY <2>1, <2>2 DEF AckWindowIsLog
<1> QED  BY <1>1, <1>2, <1>3, PTL DEF AckSpec

-----------------------------------------------------------------------------
(* sendfile and recvfile.                                                  *)

\* The sizes of a file and of the calls are numbers.
FileSizes ==
    /\ FileLength \in Nat /\ SendSizes \subseteq Nat /\ RecvSize \in Nat
    /\ BlockSize \in Nat

\* s holds the packets after number a, in order.
Run(s, a) == \A i \in 1 .. Len(s) : s[i] = a + i

FileTypeOK ==
    /\ sender \in [pc : {"loop", "asleep", "awake", "returned", "file error", "broken",
                         "peer error"}, tosend : Int, offset : Nat]
    /\ ifs \in [pos : Nat, fail : BOOLEAN]
    /\ sndCount \in Int
    /\ stored \in Seq(Nat) /\ received \in Seq(Nat)
    /\ receiver \in [pc : {"loop", "asleep", "awake", "returned", "file error", "broken"},
                     torecv : Int, offset : Nat]
    /\ ofs \in [written : Seq(Nat), bad : BOOLEAN, fail : BOOLEAN]

\* Where each packet up to the sender's offset is: written, received or stored.
FilePlaces ==
    /\ Run(ofs.written, 0) /\ Run(received, Len(ofs.written))
    /\ Run(stored, Len(ofs.written) + Len(received))
    /\ Len(ofs.written) + Len(received) + Len(stored) = sender.offset
    /\ Len(ofs.written) = receiver.offset

\* The sender's stream; sendfile does not go on with one that has failed.
FileStream ==
    /\ ifs.pos = sender.offset /\ ifs.pos <= FileLength
    /\ sender.pc \in {"asleep", "awake"} => ~ifs.fail /\ sender.tosend > 0
    /\ ~ifs.fail => sndCount = Len(stored)

FileInv == FileTypeOK /\ FilePlaces /\ FileStream

\* The numbers and sequences of the state.
LEMMA FileFacts ==
  ASSUME FileInv
  PROVE  /\ stored \in Seq(Nat) /\ Len(stored) \in Nat
         /\ received \in Seq(Nat) /\ Len(received) \in Nat
         /\ ofs.written \in Seq(Nat) /\ Len(ofs.written) \in Nat
         /\ ifs.pos \in Nat /\ sender.tosend \in Int /\ sender.offset \in Nat
         /\ receiver.torecv \in Int /\ receiver.offset \in Nat /\ sndCount \in Int
<1>1. stored \in Seq(Nat) /\ received \in Seq(Nat) /\ sndCount \in Int
  BY DEF FileInv, FileTypeOK
<1>2. ofs.written \in Seq(Nat)
  BY DEF FileInv, FileTypeOK
<1>3. /\ ifs.pos \in Nat /\ sender.tosend \in Int /\ sender.offset \in Nat
      /\ receiver.torecv \in Int /\ receiver.offset \in Nat
  BY DEF FileInv, FileTypeOK
<1> QED  BY <1>1, <1>2, <1>3, LenProperties

\* The packets of two runs that follow each other make one.
LEMMA RunConcat ==
  ASSUME NEW s \in Seq(Nat), NEW t \in Seq(Nat), NEW a \in Nat, NEW b \in Nat,
         Run(s, a), b = a + Len(s), Run(t, b)
  PROVE  s \o t \in Seq(Nat) /\ Len(s \o t) = Len(s) + Len(t) /\ Run(s \o t, a)
<1>1. s \o t \in Seq(Nat) /\ Len(s \o t) = Len(s) + Len(t)
  BY ConcatProperties
<1>2. ASSUME NEW i \in 1 .. Len(s) + Len(t)
      PROVE  (s \o t)[i] = a + i
  <2>1. (s \o t)[i] = IF i <= Len(s) THEN s[i] ELSE t[i - Len(s)]
    BY ConcatProperties
  <2>2. Len(s) \in Nat /\ Len(t) \in Nat
    OBVIOUS
  <2>3. CASE i <= Len(s)
    BY <2>1, <2>2, <2>3 DEF Run
  <2>4. CASE i > Len(s)
    <3>1. i - Len(s) \in 1 .. Len(t)
      BY <2>2, <2>4
    <3>2. t[i - Len(s)] = b + (i - Len(s))
      BY <3>1 DEF Run
    <3> QED  BY <2>1, <2>2, <2>4, <3>2
  <2> QED  BY <2>2, <2>3, <2>4
<1> QED  BY <1>1, <1>2 DEF Run

\* A run is cut into two.
LEMMA RunCut ==
  ASSUME NEW s \in Seq(Nat), NEW a \in Nat, Run(s, a), NEW n \in 0 .. Len(s)
  PROVE  /\ SubSeq(s, 1, n) \in Seq(Nat) /\ Len(SubSeq(s, 1, n)) = n
         /\ Run(SubSeq(s, 1, n), a)
         /\ SubSeq(s, n + 1, Len(s)) \in Seq(Nat)
         /\ Len(SubSeq(s, n + 1, Len(s))) = Len(s) - n
         /\ Run(SubSeq(s, n + 1, Len(s)), a + n)
<1>1. Len(s) \in Nat /\ n \in Nat /\ n <= Len(s)
  OBVIOUS
<1>2. \A i \in 1 .. Len(s) : s[i] \in Nat
  BY ElementOfSeq
<1>3. /\ SubSeq(s, 1, n) \in Seq(Nat) /\ Len(SubSeq(s, 1, n)) = n
      /\ \A i \in 1 .. n : SubSeq(s, 1, n)[i] = s[i]
  <2>1. \A i \in 1 .. n : s[i] \in Nat
    BY <1>1, <1>2
  <2>2. PICK t : t = SubSeq(s, 1, n)
    OBVIOUS
  <2>3. /\ t \in Seq(Nat)
        /\ Len(t) = IF 1 <= n THEN (n - 1) + 1 ELSE 0
        /\ \A i \in 1 .. ((n - 1) + 1) : t[i] = s[(1 + i) - 1]
    BY <1>1, <2>1, <2>2, SubSeqProperties
  <2>4. Len(t) = n
    BY ONLY <1>1, <2>3
  <2>5. \A i \in 1 .. n : i \in 1 .. ((n - 1) + 1) /\ (1 + i) - 1 = i
    BY ONLY <1>1
  <2>6. \A i \in 1 .. n : t[i] = s[i]
    BY ONLY <2>3, <2>5
  <2> QED  BY ONLY <2>2, <2>3, <2>4, <2>6
<1>4. /\ SubSeq(s, n + 1, Len(s)) \in Seq(Nat)
      /\ Len(SubSeq(s, n + 1, Len(s))) = Len(s) - n
      /\ \A i \in 1 .. Len(s) - n : SubSeq(s, n + 1, Len(s))[i] = s[n + i]
  <2>1. \A i \in n + 1 .. Len(s) : s[i] \in Nat
    BY <1>1, <1>2
  <2>2. PICK k : k = Len(s)
    OBVIOUS
  <2>3. PICK t : t = SubSeq(s, n + 1, k)
    OBVIOUS
  <2>4. /\ t \in Seq(Nat)
        /\ Len(t) = IF n + 1 <= k THEN (k - (n + 1)) + 1 ELSE 0
        /\ \A i \in 1 .. ((k - (n + 1)) + 1) : t[i] = s[((n + 1) + i) - 1]
    BY <1>1, <2>1, <2>2, <2>3, SubSeqProperties
  <2>5. k \in Nat /\ n \in Nat /\ n <= k
    BY ONLY <1>1, <2>2
  <2>6. Len(t) = k - n
    BY ONLY <2>4, <2>5
  <2>7. \A i \in 1 .. (k - n) : i \in 1 .. ((k - (n + 1)) + 1) /\ ((n + 1) + i) - 1 = n + i
    BY ONLY <2>5
  <2>8. \A i \in 1 .. (k - n) : t[i] = s[n + i]
    BY ONLY <2>4, <2>7
  <2> QED  BY ONLY <2>2, <2>3, <2>4, <2>6, <2>8
<1>5. Run(SubSeq(s, 1, n), a)
  BY <1>1, <1>3 DEF Run
<1>6. Run(SubSeq(s, n + 1, Len(s)), a + n)
  BY <1>1, <1>4 DEF Run
<1> QED  BY <1>3, <1>4, <1>5, <1>6

\* What a block read from the file holds.
LEMMA RunRead ==
  ASSUME NEW n \in Nat, NEW a \in Nat
  PROVE  /\ [i \in 1 .. n |-> a + i] \in Seq(Nat) /\ Len([i \in 1 .. n |-> a + i]) = n
         /\ Run([i \in 1 .. n |-> a + i], a)
<1>1. \A i \in 1 .. n : a + i \in Nat
  OBVIOUS
<1>2. /\ [i \in 1 .. n |-> a + i] \in Seq(Nat) /\ Len([i \in 1 .. n |-> a + i]) = n
  BY <1>1, IsASeq
<1> QED  BY <1>2 DEF Run

\* Steps that move no packet.
LEMMA FileCalls ==
  ASSUME FileInv, FileTypeOK', UNCHANGED <<ifs, sndCount, stored, received, ofs>>,
         sender'.offset = sender.offset, receiver'.offset = receiver.offset,
         sender'.pc \in {"asleep", "awake"} => ~ifs.fail /\ sender'.tosend > 0
  PROVE  FileInv'
<1> QED  BY DEF FileInv, FilePlaces, FileStream

\* The packets read from the file come last among those stored.
LEMMA SendBlockKeeps ==
  ASSUME FileSizes, FileInv, SendBlock
  PROVE  FileInv'
<1> DEFINE n == Lesser(BlockSize, sender.tosend)
           got == Lesser(n, FileLength - ifs.pos)
           block == [i \in 1 .. got |-> ifs.pos + i]
<1>1. CASE "snd" \in broken \/ ~peerHealth
  <2>1. /\ sender' \in {[sender EXCEPT !.pc = "broken"], [sender EXCEPT !.pc = "peer error"]}
        /\ UNCHANGED <<ifs, sndCount, stored, receiver, ofs, received>>
    BY <1>1 DEF SendBlock, SendEnds, receiverVars
  <2> QED  BY ZenonT(40), <2>1, FileCalls DEF FileInv, FileTypeOK
<1>2. CASE ~("snd" \in broken \/ ~peerHealth)
  <2>1. /\ stored' = stored \o block /\ sndCount' = sndCount + n
        /\ ifs' = [pos |-> ifs.pos + got, fail |-> got < n]
        /\ sender' = [sender EXCEPT !.pc = "loop", !.tosend = @ - got, !.offset = @ + got]
        /\ UNCHANGED <<receiver, ofs, received>>
    BY <1>2 DEF SendBlock, ReadBlock, receiverVars
  <2>2. n \in Nat /\ got \in Nat /\ got <= n /\ got <= FileLength - ifs.pos
    <3>1. sender.tosend > 0 /\ ifs.pos <= FileLength
      BY DEF SendBlock, FileInv, FileStream
    <3> QED  BY SMTT(30), <3>1, FileFacts DEF FileSizes, Lesser
  <2>3. block \in Seq(Nat) /\ Len(block) = got /\ Run(block, ifs.pos)
    BY <2>2, FileFacts, RunRead
  <2> HIDE DEF n, got, block
  <2>4. ifs.pos = Len(ofs.written) + Len(received) + Len(stored)
    BY DEF FileInv, FilePlaces, FileStream
  <2>5. /\ stored' \in Seq(Nat) /\ Len(stored') = Len(stored) + got
        /\ Run(stored', Len(ofs.written) + Len(received))
    <3>1. /\ stored \in Seq(Nat) /\ ifs.pos \in Nat /\ Len(ofs.written) + Len(received) \in Nat
          /\ Run(stored, Len(ofs.written) + Len(received))
      BY SMTT(30), FileFacts DEF FileInv, FilePlaces
    <3> QED  BY <2>1, <2>3, <2>4, <3>1, RunConcat
  <2>6. FileTypeOK'
    <3>1. sender.tosend - got \in Int /\ sender.offset + got \in Nat
      BY <2>2, FileFacts
    <3>2. sndCount' \in Int /\ ifs.pos + got \in Nat /\ (got < n) \in BOOLEAN
      BY SMTT(30), <2>1, <2>2, FileFacts
    <3> QED  BY <2>1, <2>5, <3>1, <3>2 DEF FileInv, FileTypeOK
  <2>7. sender'.pc = "loop" /\ sender'.offset = sender.offset + got
    BY <2>1 DEF FileInv, FileTypeOK
  <2>8. FilePlaces'
    <3>1. /\ Run(ofs.written, 0) /\ Run(received, Len(ofs.written))
          /\ Len(ofs.written) + Len(received) + Len(stored) = sender.offset
          /\ Len(ofs.written) = receiver.offset
      BY DEF FileInv, FilePlaces
    <3>2. Len(ofs.written) + Len(received) + (Len(stored) + got) = sender.offset + got
      BY <2>2, <3>1, FileFacts
    <3> QED  BY <2>1, <2>5, <2>7, <3>1, <3>2 DEF FilePlaces
  <2>9. FileStream'
    <3>1. ~ifs.fail
      BY DEF SendBlock, FileInv, FileStream
    <3>2. ifs'.pos = ifs.pos + got /\ ifs'.fail = (got < n)
      BY <2>1
    <3>3. ~(got < n) => got = n
      BY <2>2
    <3>4. /\ ifs.pos = sender.offset /\ sndCount = Len(stored)
          /\ ifs.pos + got <= FileLength
      BY <2>2, <3>1, FileFacts DEF FileInv, FileStream, FileSizes
    <3> QED  BY <2>1, <2>5, <2>7, <3>2, <3>3, <3>4 DEF FileStream
  <2> QED  BY <2>6, <2>8, <2>9 DEF FileInv
<1> QED  BY <1>1, <1>2

\* The first packets stored come last among those received.
LEMMA DeliverKeeps ==
  ASSUME FileInv, NEW n \in Nat, Deliver(n)
  PROVE  FileInv'
<1> DEFINE moved == SubSeq(stored, 1, n)
           rest == SubSeq(stored, n + 1, Len(stored))
<1>1. /\ n \in 0 .. Len(stored)
      /\ received' = received \o moved /\ stored' = rest /\ sndCount' = sndCount - n
      /\ sender' \in {sender, [sender EXCEPT !.pc = "awake"]}
      /\ sender.pc # "asleep" => sender' = sender
      /\ receiver' \in {receiver, [receiver EXCEPT !.pc = "awake"]}
      /\ UNCHANGED <<ifs, ofs>>
  BY FileFacts DEF Deliver, WakeSender, WakeReceiver
<1> DEFINE w == Len(ofs.written)
           r == Len(received)
<1>2. /\ w \in Nat /\ r \in Nat /\ Len(stored) \in Nat
      /\ Run(received, w) /\ Run(stored, w + r)
      /\ received \in Seq(Nat) /\ stored \in Seq(Nat)
  BY FileFacts DEF FileInv, FilePlaces
<1>3. /\ moved \in Seq(Nat) /\ Len(moved) = n /\ Run(moved, w + r)
      /\ rest \in Seq(Nat) /\ Len(rest) = Len(stored) - n /\ Run(rest, w + r + n)
  <2>1. w + r \in Nat
    BY <1>2
  <2> HIDE DEF w, r
  <2> QED  BY <1>1, <1>2, <2>1, RunCut
<1> HIDE DEF moved, rest
<1>4. /\ received' \in Seq(Nat) /\ Len(received') = r + n /\ Run(received', w)
  <2>1. w + r \in Nat /\ w + r = w + Len(received)
    BY <1>2
  <2> HIDE DEF w
  <2> QED  BY <1>1, <1>2, <1>3, <2>1, RunConcat
<1>5. FileTypeOK'
  <2>1. sndCount' \in Int
    BY <1>1, FileFacts
  <2>2. sender' \in [pc : {"loop", "asleep", "awake", "returned", "file error", "broken",
                          "peer error"}, tosend : Int, offset : Nat]
    BY <1>1 DEF FileInv, FileTypeOK
  <2>3. receiver' \in [pc : {"loop", "asleep", "awake", "returned", "file error", "broken"},
                       torecv : Int, offset : Nat]
    BY <1>1 DEF FileInv, FileTypeOK
  <2> QED  BY <1>1, <1>3, <1>4, <2>1, <2>2, <2>3 DEF FileInv, FileTypeOK
<1>6. /\ sender'.offset = sender.offset /\ sender'.tosend = sender.tosend
      /\ receiver'.offset = receiver.offset
      /\ sender'.pc \in {"asleep", "awake"} => sender.pc \in {"asleep", "awake"}
  BY <1>1 DEF FileInv, FileTypeOK
<1>7. FilePlaces'
  <2>1. w + (r + n) = w + r + n
    BY <1>1, <1>2
  <2> QED  BY <1>1, <1>2, <1>3, <1>4, <1>6, <2>1 DEF FileInv, FilePlaces
<1>8. FileStream'
  BY <1>1, <1>2, <1>3, <1>6, FileFacts DEF FileInv, FileStream
<1> QED  BY <1>5, <1>7, <1>8 DEF FileInv

\* The first packets received come last among those written.
LEMMA RecvBlockKeeps ==
  ASSUME FileSizes, FileInv, RecvBlock
  PROVE  FileInv'
<1>1. CASE "rcv" \in broken /\ received = <<>>
  <2>1. /\ receiver' = [receiver EXCEPT !.pc = "broken"]
        /\ UNCHANGED <<sender, ifs, sndCount, stored, ofs, received>>
    BY <1>1 DEF RecvBlock, senderVars
  <2> QED  BY <2>1, FileCalls DEF FileInv, FileTypeOK, FileStream
<1>2. CASE ~("rcv" \in broken /\ received = <<>>)
  <2> DEFINE n == Lesser(Lesser(BlockSize, receiver.torecv), Len(received))
  <2>1. PICK k \in 0 .. n : WriteBlock(n, k)
    BY <1>2 DEF RecvBlock
  <2> DEFINE w == Len(ofs.written)
             got == SubSeq(received, 1, k)
             rest == SubSeq(received, k + 1, Len(received))
  <2>2. k \in 0 .. Len(received)
    <3>1. Len(received) \in Nat
      BY FileFacts
    <3>2. n \in Int /\ n <= Len(received)
      BY <3>1, FileFacts DEF Lesser, FileSizes
    <3> HIDE DEF n
    <3> QED  BY <2>1, <3>1, <3>2
  <2>3. /\ ofs' = [ofs EXCEPT !.written = @ \o got, !.fail = k < n]
        /\ received' = rest
        /\ receiver' = [receiver EXCEPT !.pc = "loop", !.torecv = @ - k, !.offset = @ + k]
        /\ UNCHANGED <<sender, ifs, sndCount, stored>>
    BY <2>1, <1>2 DEF RecvBlock, WriteBlock, Taken, senderVars
  <2>4. /\ w \in Nat /\ Run(ofs.written, 0) /\ Run(received, w)
        /\ ofs.written \in Seq(Nat) /\ received \in Seq(Nat)
    BY FileFacts DEF FileInv, FilePlaces
  <2>5. /\ got \in Seq(Nat) /\ Len(got) = k /\ Run(got, w)
        /\ rest \in Seq(Nat) /\ Len(rest) = Len(received) - k /\ Run(rest, w + k)
    BY <2>2, <2>4, RunCut
  <2> HIDE DEF n, got, rest
  <2>6. /\ ofs.written \o got \in Seq(Nat) /\ Len(ofs.written \o got) = w + k
        /\ Run(ofs.written \o got, 0)
    <3> DEFINE f == ofs.written
    <3> HIDE DEF f
    <3>1. f \in Seq(Nat) /\ w = 0 + Len(f) /\ Run(f, 0)
      BY <2>4 DEF f
    <3>2. /\ f \o got \in Seq(Nat) /\ Len(f \o got) = Len(f) + Len(got)
          /\ Run(f \o got, 0)
      BY <2>4, <2>5, <3>1, RunConcat
    <3> QED  BY <2>4, <2>5, <3>1, <3>2 DEF f
  <2>7. /\ ofs'.written = ofs.written \o got
        /\ ofs' \in [written : Seq(Nat), bad : BOOLEAN, fail : BOOLEAN]
    <3>1. (k < n) \in BOOLEAN
      OBVIOUS
    <3> QED  BY <2>3, <2>6, <3>1 DEF FileInv, FileTypeOK
  <2>8. FileTypeOK'
    <3>1. receiver.torecv - k \in Int /\ receiver.offset + k \in Nat
      BY <2>2, FileFacts
    <3> QED  BY <2>3, <2>5, <2>7, <3>1 DEF FileInv, FileTypeOK
  <2>9. FilePlaces'
    <3>1. receiver'.offset = receiver.offset + k
      BY <2>3 DEF FileInv, FileTypeOK
    <3>2. w + k + (Len(received) - k) = w + Len(received)
      BY <2>2, <2>4, FileFacts
    <3> QED  BY <2>2, <2>3, <2>5, <2>6, <2>7, <3>1, <3>2 DEF FileInv, FilePlaces
  <2>10. FileStream'
    BY <2>3 DEF FileInv, FileStream
  <2> QED  BY <2>8, <2>9, <2>10 DEF FileInv
<1> QED  BY <1>1, <1>2

\* Every packet up to the sender's offset is written, waits to be read or waits
\* to be sent, in order, however the calls of sendfile and recvfile end; and
\* m_iCount is what the buffer holds, unless the file was too short.
THEOREM OffsetsAccounted ==
  ASSUME FileSizes
  PROVE  FileSpec => []OffsetsAccount
<1>1. FileInit => FileInv
  <2> SUFFICES ASSUME FileInit PROVE FileInv
    OBVIOUS
  <2>1. PICK size \in SendSizes : sender = [pc |-> "loop", tosend |-> size, offset |-> 0]
    BY DEF FileInit
  <2>2. FileTypeOK
    BY <2>1 DEF FileInit, FileTypeOK, FileSizes
  <2>3. FilePlaces /\ FileStream
    BY <2>1 DEF FileInit, FilePlaces, FileStream, Run, FileSizes
  <2> QED  BY <2>2, <2>3 DEF FileInv
<1>2. FileInv /\ [FileNext]_fileVars => FileInv'
  <2> SUFFICES ASSUME FileInv, [FileNext]_fileVars PROVE FileInv'
    OBVIOUS
  <2>1. CASE SendLoop
    <3>1. /\ sender' = [sender EXCEPT !.pc = sender'.pc]
          /\ sender'.pc \in {"loop", "asleep", "awake", "returned", "file error"}
          /\ sender'.pc \in {"asleep", "awake"} => ~ifs.fail /\ ~(sender.tosend <= 0)
          /\ UNCHANGED <<ifs, sndCount, stored, receiver, ofs, received>>
      BY <2>1 DEF SendLoop, SendEnds, receiverVars, FileInv, FileTypeOK
    <3>2. sender'.tosend = sender.tosend /\ sender'.offset = sender.offset
      BY <3>1 DEF FileInv, FileTypeOK
    <3>3. FileTypeOK'
      BY <3>1 DEF FileInv, FileTypeOK
    <3>4. ~(sender.tosend <= 0) => sender.tosend > 0
      BY FileFacts
    <3> QED  BY <3>1, <3>2, <3>3, <3>4, FileCalls
  <2>2. CASE RecvLoop
    <3>1. /\ receiver' = [receiver EXCEPT !.pc = receiver'.pc]
          /\ receiver'.pc \in {"returned", "file error", "asleep", "awake"}
          /\ UNCHANGED <<sender, ifs, sndCount, stored, ofs, received>>
      BY <2>2 DEF RecvLoop, senderVars, FileInv, FileTypeOK
    <3>2. FileTypeOK' /\ receiver'.offset = receiver.offset
      BY <3>1 DEF FileInv, FileTypeOK
    <3> QED  BY <3>1, <3>2, FileCalls DEF FileInv, FileStream
  <2>3. CASE ReceiveError \/ LoseError
    <3>1. UNCHANGED <<sender, ifs, sndCount, stored, receiver, ofs, received>>
      BY <2>3 DEF ReceiveError, LoseError, senderVars, receiverVars
    <3> QED  BY <3>1, FileCalls DEF FileInv, FileTypeOK, FileStream
  <2>4. CASE DiskFails
    <3>1. /\ ofs' = [ofs EXCEPT !.bad = TRUE]
          /\ UNCHANGED <<sender, ifs, sndCount, stored, receiver, received>>
      BY <2>4 DEF DiskFails, senderVars
    <3>2. ofs'.written = ofs.written /\ FileTypeOK'
      BY <3>1 DEF FileInv, FileTypeOK
    <3> QED  BY <3>1, <3>2 DEF FileInv, FilePlaces, FileStream
  <2>5. ASSUME NEW end \in {"snd", "rcv"}, Break(end)
        PROVE  FileInv'
    <3>1. /\ sender' \in {sender, [sender EXCEPT !.pc = "awake"]}
          /\ sender.pc # "asleep" => sender' = sender
          /\ receiver' \in {receiver, [receiver EXCEPT !.pc = "awake"]}
          /\ UNCHANGED <<ifs, sndCount, stored, ofs, received>>
      BY <2>5 DEF Break, WakeSender, WakeReceiver
    <3>2. /\ sender'.offset = sender.offset /\ sender'.tosend = sender.tosend
          /\ receiver'.offset = receiver.offset
          /\ sender'.pc \in {"asleep", "awake"} => sender.pc \in {"asleep", "awake"}
      BY <3>1 DEF FileInv, FileTypeOK
    <3>3. FileTypeOK'
      BY ZenonT(40), <3>1 DEF FileInv, FileTypeOK
    <3> QED  BY <3>1, <3>2, <3>3, FileCalls DEF FileInv, FileStream
  <2>6. CASE UNCHANGED fileVars
    <3>1. UNCHANGED <<sender, ifs, sndCount, stored, receiver, ofs, received>>
      BY <2>6 DEF fileVars
    <3> QED  BY <3>1, FileCalls DEF FileInv, FileTypeOK, FileStream
  <2> QED
    BY <2>1, <2>2, <2>3, <2>4, <2>5, <2>6, SendBlockKeeps, RecvBlockKeeps, DeliverKeeps
    DEF FileNext
<1>3. FileInv => OffsetsAccount
  <2> SUFFICES ASSUME FileInv PROVE OffsetsAccount
    OBVIOUS
  <2> DEFINE w == ofs.written
             all == (w \o received) \o stored
  <2>1. /\ w \in Seq(Nat) /\ received \in Seq(Nat) /\ stored \in Seq(Nat)
        /\ Len(w) \in Nat /\ Len(received) \in Nat /\ sender.offset \in Nat
        /\ Run(w, 0) /\ Run(received, Len(w)) /\ Run(stored, Len(w) + Len(received))
        /\ Len(w) + Len(received) + Len(stored) = sender.offset
    BY FileFacts DEF FileInv, FilePlaces
  <2> HIDE DEF w
  <2>2. /\ w \o received \in Seq(Nat) /\ Len(w \o received) = Len(w) + Len(received)
        /\ Run(w \o received, 0)
    BY <2>1, RunConcat
  <2>3. all \in Seq(Nat) /\ Len(all) = sender.offset /\ Run(all, 0)
    <3> DEFINE s == w \o received
    <3> HIDE DEF s
    <3>1. /\ s \in Seq(Nat) /\ Len(w) + Len(received) = 0 + Len(s)
          /\ Len(w) + Len(received) \in Nat /\ Run(s, 0)
      BY <2>1, <2>2 DEF s
    <3>2. /\ s \o stored \in Seq(Nat) /\ Len(s \o stored) = Len(s) + Len(stored)
          /\ Run(s \o stored, 0)
      BY <2>1, <3>1, RunConcat
    <3> QED  BY <2>1, <2>2, <3>2 DEF s
  <2> DEFINE to == [i \in 1 .. sender.offset |-> i]
  <2>4. to \in Seq(Nat) /\ Len(to) = sender.offset
    BY <2>1, IsASeq
  <2> HIDE DEF all
  <2>5. all = to
    BY <2>1, <2>3, <2>4, SeqEqual DEF Run
  <2> QED  BY <2>5 DEF OffsetsAccount, FileInv, FilePlaces, FileStream, all, w
<1> QED  BY <1>1, <1>2, <1>3, PTL DEF FileSpec

-----------------------------------------------------------------------------
(* CUnitQueue.                                                             *)

\* Entries with a unit beside the sentinel, and a pool that grows before it is
\* full: the library has 32 units and nine tenths.
UnitSizes ==
    /\ EntrySize \in Nat /\ EntrySize >= 2
    /\ FullNum \in Nat /\ FullDen \in Nat /\ FullNum < FullDen
    /\ MaxDrift \in Nat

PoolOK(p) ==
    /\ p \in [entries : Nat \ {0}, used : SUBSET Usable(p), entry : Nat, avail : Nat]
    /\ p.entry < p.entries

\* The count, and what is loaded of it to be stored again, may be anything
\* below the number of units; only a store of the worker may reach it.
CountOK ==
    /\ count \in Int /\ count <= UnitCount(pool)
    /\ worker.value \in Int /\ worker.value <= UnitCount(pool)
    /\ \A r \in Readers : reader[r] \in Int /\ reader[r] < UnitCount(pool)
    /\ worker.pc \in {"search", "fill"} => count < UnitCount(pool)

UnitInv ==
    /\ PoolOK(pool)
    /\ worker \in [pc : {"look", "search", "fill", "store"}, value : Int]
    /\ reader \in [Readers -> Int]
    /\ CountOK
    /\ worker.pc = "fill" => <<pool.entry, pool.avail>> \in Usable(pool)
    /\ missed = 0 \/ (missed = 1 /\ pool.avail = 0)

\* The number of units as a pool grows.
LEMMA UnitCounts ==
  ASSUME UnitSizes, NEW n \in Nat, NEW m \in Nat, n <= m
  PROVE  n * EntrySize \in Nat /\ n * EntrySize <= m * EntrySize
<1>1. m * EntrySize = n * EntrySize + (m - n) * EntrySize
  BY DEF UnitSizes
<1>2. (m - n) * EntrySize \in Nat /\ n * EntrySize \in Nat
  BY DEF UnitSizes
<1> QED  BY <1>1, <1>2

\* The units that can be used, and the number of those that are.
LEMMA UsedUnits ==
  ASSUME UnitSizes, NEW p, p.entries \in Nat \ {0}
  PROVE  /\ Usable(p) = (0 .. (p.entries - 1)) \X (0 .. (EntrySize - 2))
         /\ UnitCount(p) \in Nat
         /\ \A used \in SUBSET Usable(p) : /\ IsFiniteSet(used) /\ Cardinality(used) \in Nat
                                           /\ Cardinality(used) < UnitCount(p)
<1> DEFINE n == p.entries
           all == (0 .. (n - 1)) \X (0 .. (EntrySize - 2))
<1>1. Usable(p) = all
  <2>1. ASSUME NEW u \in Usable(p)
        PROVE  u \in all
    <3>1. PICK e \in 0 .. (n - 1) : u \in UnitsOf(e)
      BY DEF Usable, UnitsIn
    <3>2. PICK i \in 0 .. (EntrySize - 1) : u = <<e, i>>
      BY <3>1 DEF UnitsOf
    <3>3. i # EntrySize - 1
      BY <3>2 DEF Usable
    <3>4. i \in 0 .. (EntrySize - 2)
      BY <3>3 DEF UnitSizes
    <3> QED  BY <3>2, <3>4
  <2>2. ASSUME NEW e \in 0 .. (n - 1), NEW i \in 0 .. (EntrySize - 2)
        PROVE  <<e, i>> \in Usable(p)
    <3>1. i \in 0 .. (EntrySize - 1) /\ i # EntrySize - 1
      BY DEF UnitSizes
    <3>2. <<e, i>> \in UnitsOf(e)
      BY <3>1 DEF UnitsOf
    <3> QED  BY <3>1, <3>2 DEF Usable, UnitsIn
  <2> QED  BY <2>1, <2>2
<1>2. IsFiniteSet(all) /\ Cardinality(all) = n * (EntrySize - 1)
  <2>1. /\ IsFiniteSet(0 .. (n - 1)) /\ Cardinality(0 .. (n - 1)) = n
        /\ IsFiniteSet(0 .. (EntrySize - 2))
        /\ Cardinality(0 .. (EntrySize - 2)) = EntrySize - 1
    <3> DEFINE a == n - 1
               b == EntrySize - 2
    <3>1. a \in Nat /\ b \in Nat /\ a + 1 = n /\ b + 1 = EntrySize - 1
      BY DEF UnitSizes
    <3> HIDE DEF a, b
    <3>2. \A m \in Nat : IsFiniteSet(0 .. m) /\ Cardinality(0 .. m) = m + 1
      BY FS_Interval
    <3>3. /\ IsFiniteSet(0 .. a) /\ Cardinality(0 .. a) = n
          /\ IsFiniteSet(0 .. b) /\ Cardinality(0 .. b) = EntrySize - 1
      BY <3>1, <3>2
    <3> QED  BY <3>3 DEF a, b
  <2> DEFINE S == 0 .. (n - 1)
             T == 0 .. (EntrySize - 2)
  <2> HIDE DEF S, T
  <2>2. /\ IsFiniteSet(S) /\ Cardinality(S) = n
        /\ IsFiniteSet(T) /\ Cardinality(T) = EntrySize - 1
    BY <2>1 DEF S, T
  <2>3. IsFiniteSet(S \X T) /\ Cardinality(S \X T) = Cardinality(S) * Cardinality(T)
    BY <2>2, FS_Product
  <2> QED  BY <2>2, <2>3 DEF S, T
<1>3. n * (EntrySize - 1) = n * EntrySize - n /\ n * EntrySize \in Nat
  BY DEF UnitSizes
<1>4. ASSUME NEW used \in SUBSET Usable(p)
      PROVE  IsFiniteSet(used) /\ Cardinality(used) \in Nat /\ Cardinality(used) < UnitCount(p)
  <2> HIDE DEF all
  <2>1. IsFiniteSet(used) /\ Cardinality(used) <= Cardinality(all)
    BY <1>1, <1>2, FS_Subset
  <2>2. Cardinality(used) \in Nat
    BY <2>1, FS_CardinalityType
  <2> QED  BY <1>2, <1>3, <2>1, <2>2 DEF UnitCount
<1> QED  BY <1>1, <1>3, <1>4 DEF UnitCount

\* Every usable unit is ahead of a search that begins at the start of an entry.
LEMMA SearchSeesAll ==
  ASSUME UnitSizes, NEW p, PoolOK(p), p.avail = 0, Hits(p) = {}
  PROVE  Usable(p) \subseteq p.used
<1> DEFINE n == p.entries
<1>1. n \in Nat \ {0} /\ p.entry \in Nat /\ p.entry < n
  BY DEF PoolOK
<1> SUFFICES ASSUME NEW u \in Usable(p), u \notin p.used
             PROVE  FALSE
  OBVIOUS
<1>2. PICK e \in 0 .. (n - 1), i \in 0 .. (EntrySize - 2) : u = <<e, i>>
  BY <1>1, UsedUnits
<1>3. PICK k \in 0 .. (n - 1) : Later(p, k) = e
  <2> DEFINE k == IF e >= p.entry THEN e - p.entry ELSE e - p.entry + n
             x == p.entry + k
  <2>1. k \in 0 .. (n - 1)
    BY <1>1
  <2>2. x = e \/ x = e + n
    BY <1>1
  <2> DEFINE m == n
  <2>3. (e % m) = e /\ (e + m) % m = e
    <3>1. m \in Nat /\ m > 0 /\ e \in 0 .. (m - 1)
      BY <1>1
    <3> HIDE DEF m
    <3> QED  BY <3>1
  <2> QED  BY <2>1, <2>2, <2>3 DEF Later
<1>4. Start(p, k) = 0
  BY DEF Start
<1>5. u \in VisitedIn(p, e, 0)
  BY <1>2 DEF VisitedIn
<1>6. u \in FreeAt(p, k)
  BY <1>3, <1>4, <1>5 DEF FreeAt
<1> QED  BY <1>3, <1>6 DEF Hits

\* A search stops at a free usable unit.
LEMMA SearchFinds ==
  ASSUME UnitSizes, NEW p, PoolOK(p), Hits(p) # {},
         NEW k, k = CHOOSE i \in Hits(p) : \A j \in Hits(p) : i <= j,
         NEW u, u = FirstFree(FreeAt(p, k), Start(p, k))
  PROVE  u \in Usable(p) /\ u \notin p.used
<1> DEFINE n == p.entries
           free == FreeAt(p, k)
           ahead == {v \in free : v[2] >= Start(p, k)}
           among == IF ahead = {} THEN free ELSE ahead
<1>1. n \in Nat \ {0} /\ p.entry \in Nat /\ p.entry < n /\ p.avail \in Nat
  BY DEF PoolOK
<1>2. k \in Hits(p)
  <2>1. Hits(p) \in SUBSET (0 .. (n - 1))
    BY DEF Hits
  <2>2. IsFiniteSet(Hits(p)) /\ Hits(p) \in SUBSET Int
    <3> DEFINE m == n - 1
    <3>1. m \in Int
      BY <1>1
    <3> HIDE DEF m
    <3>2. IsFiniteSet(0 .. m) /\ 0 .. m \subseteq Int
      BY <3>1, FS_Interval
    <3>3. Hits(p) \in SUBSET (0 .. m)
      BY <2>1 DEF m
    <3> QED  BY <3>2, <3>3, FS_Subset
  <2>3. \E i \in Hits(p) : \A j \in Hits(p) : i <= j
    BY <2>2, LeastOf
  <2> QED  BY <2>3
<1>3. free # {} /\ k \in 0 .. (n - 1)
  BY <1>2 DEF Hits
<1>4. Later(p, k) \in 0 .. (n - 1)
  <2> DEFINE x == p.entry + k
             m == n
  <2>1. x \in Nat /\ m \in Nat \ {0}
    BY <1>1, <1>3
  <2> HIDE DEF x, m
  <2>2. x % m \in 0 .. (m - 1)
    BY <2>1
  <2> QED  BY <2>2 DEF Later, x, m
<1>5. Start(p, k) \in Nat
  BY <1>1 DEF Start
<1>6. free \in SUBSET Usable(p)
  <2> SUFFICES ASSUME NEW v \in free
               PROVE  v \in Usable(p)
    OBVIOUS
  <2>1. v \in VisitedIn(p, Later(p, k), Start(p, k))
    BY DEF FreeAt
  <2>2. PICK i \in 0 .. (EntrySize - 2) : v = <<Later(p, k), i>>
    <3>1. 0 \in 0 .. (EntrySize - 2)
      BY DEF UnitSizes
    <3>2. \A i \in Start(p, k) .. (EntrySize - 2) : i \in 0 .. (EntrySize - 2)
      BY <1>5 DEF UnitSizes
    <3> QED  BY <2>1, <3>1, <3>2 DEF VisitedIn
  <2> QED  BY <1>1, <1>4, <2>2, UsedUnits
<1>7. among \in SUBSET free /\ among # {}
  BY <1>3
<1>8. u = CHOOSE v \in among : \A w \in among : v[2] <= w[2]
  BY DEF FirstFree
<1> HIDE DEF among
<1>9. \E v \in among : \A w \in among : v[2] <= w[2]
  <2> DEFINE seconds == {v[2] : v \in among}
  <2>1. seconds \in SUBSET (0 .. (EntrySize - 2))
    <3>1. \A v \in among : v \in Usable(p)
      BY <1>6, <1>7
    <3>2. \A v \in Usable(p) : v[2] \in 0 .. (EntrySize - 2)
      BY <1>1, UsedUnits
    <3> QED  BY <3>1, <3>2
  <2>2. IsFiniteSet(seconds) /\ seconds \in SUBSET Int /\ seconds # {}
    <3> DEFINE m == EntrySize - 2
    <3>1. m \in Int
      BY DEF UnitSizes
    <3> HIDE DEF m
    <3>2. IsFiniteSet(0 .. m) /\ 0 .. m \subseteq Int
      BY <3>1, FS_Interval
    <3>3. seconds \in SUBSET (0 .. m)
      BY <2>1 DEF m
    <3>4. seconds # {}
      BY <1>7
    <3> HIDE DEF seconds
    <3> QED  BY <3>2, <3>3, <3>4, FS_Subset
  <2>3. PICK m \in seconds : \A i \in seconds : m <= i
    <3> HIDE DEF seconds
    <3> QED  BY <2>2, LeastOf
  <2>4. PICK v \in among : m = v[2]
    OBVIOUS
  <2> QED  BY <2>3, <2>4
<1>10. u \in among
  BY <1>8, <1>9
<1>11. u \in free
  BY <1>7, <1>10
<1>12. u \notin p.used
  BY <1>11 DEF FreeAt
<1> QED  BY <1>6, <1>11, <1>12

\* What growing leaves of a pool.
LEMMA GrownPool ==
  ASSUME UnitSizes, NEW p, PoolOK(p)
  PROVE  /\ PoolOK(Grown(p)) /\ UnitCount(p) <= UnitCount(Grown(p))
         /\ UnitCount(Grown(p)) \in Nat /\ Grown(p).avail = p.avail
<1>1. CASE Grown(p) = p
  BY <1>1, UsedUnits DEF PoolOK
<1>2. CASE Grown(p) = [p EXCEPT !.entries = @ + 1]
  <2> DEFINE q == [p EXCEPT !.entries = @ + 1]
  <2>1. /\ p.entries \in Nat \ {0} /\ p.entry \in Nat /\ p.avail \in Nat
        /\ p.entry < p.entries /\ p.used \in SUBSET Usable(p)
        /\ p = [entries |-> p.entries, used |-> p.used, entry |-> p.entry,
                avail |-> p.avail]
    BY DEF PoolOK
  <2>2. /\ q.entries = p.entries + 1 /\ q.used = p.used /\ q.entry = p.entry
        /\ q.avail = p.avail
        /\ q = [entries |-> q.entries, used |-> q.used, entry |-> q.entry,
                avail |-> q.avail]
    BY <2>1
  <2> HIDE DEF q
  <2>3. Usable(p) \subseteq Usable(q)
    <3>1. \A e \in 0 .. (p.entries - 1) : e \in 0 .. (q.entries - 1)
      BY <2>1, <2>2
    <3> QED  BY <3>1 DEF Usable, UnitsIn
  <2>4. UnitCount(p) <= UnitCount(q) /\ UnitCount(q) \in Nat
    BY <2>1, <2>2, UnitCounts DEF UnitCount
  <2>5. PoolOK(q)
    <3>1. q.used \in SUBSET Usable(q)
      BY <2>1, <2>2, <2>3
    <3>2. q.entries \in Nat \ {0} /\ q.entry \in Nat /\ q.avail \in Nat
          /\ q.entry < q.entries
      BY <2>1, <2>2
    <3> QED  BY <2>2, <3>1, <3>2 DEF PoolOK
  <2> QED  BY <1>2, <2>2, <2>4, <2>5 DEF q
<1> QED  BY <1>1, <1>2 DEF Grown

\* A search in a pool whose count is below the number of its units.
LEMMA SearchKeeps ==
  ASSUME UnitSizes, UnitInv, Search
  PROVE  UnitInv'
<1> DEFINE c == UnitCount(pool)
<1>1. /\ PoolOK(pool) /\ c \in Nat /\ count \in Int /\ count < c /\ pool.avail \in Nat
      /\ worker \in [pc : {"look", "search", "fill", "store"}, value : Int]
      /\ worker.value \in Int /\ worker.value <= c
      /\ \A r \in Readers : reader[r] \in Int /\ reader[r] < c
      /\ missed = 0 \/ (missed = 1 /\ pool.avail = 0)
      /\ reader' = reader /\ reader \in [Readers -> Int]
  <2>1. PoolOK(pool) /\ worker.pc = "search" /\ reader' = reader
    BY DEF UnitInv, Search
  <2>2. c \in Nat /\ pool.avail \in Nat
    BY <2>1, UsedUnits DEF PoolOK
  <2> QED  BY <2>1, <2>2 DEF UnitInv, CountOK
<1> HIDE DEF c
<1>2. CASE Hits(pool) = {}
  <2> DEFINE p == [pool EXCEPT !.avail = 0]
  <2>1. /\ pool' = Grown(p) /\ count' = Corrected(pool, count)
        /\ missed' = IF Usable(pool) \subseteq pool.used THEN 0 ELSE missed + 1
        /\ worker' = [worker EXCEPT !.pc = "look"]
    BY <1>1, <1>2 DEF Search, Miss, c
  <2>2. /\ p.entries = pool.entries /\ p.used = pool.used /\ p.entry = pool.entry
        /\ p.avail = 0
        /\ p = [entries |-> p.entries, used |-> p.used, entry |-> p.entry,
                avail |-> p.avail]
    BY <1>1 DEF PoolOK
  <2> HIDE DEF p
  <2>3. Usable(p) = Usable(pool) /\ UnitCount(p) = c
    BY <2>2 DEF Usable, UnitsIn, UnitCount, c
  <2>4. PoolOK(p)
    BY <1>1, <2>2, <2>3 DEF PoolOK
  <2>5. PoolOK(pool') /\ c <= UnitCount(pool') /\ UnitCount(pool') \in Nat /\ pool'.avail = 0
    BY <2>1, <2>2, <2>3, <2>4, GrownPool
  <2>6. count' \in Nat /\ count' < c
    BY <1>1, <2>1, UsedUnits DEF Corrected, PoolOK, c
  <2>7. missed' \in {0, 1}
    <3>1. CASE missed = 0
      BY <2>1, <3>1
    <3>2. CASE pool.avail = 0
      BY <1>1, <1>2, <2>1, <3>2, SearchSeesAll
    <3> QED  BY <1>1, <3>1, <3>2
  <2>8. /\ worker'.pc = "look" /\ worker'.value = worker.value
        /\ worker' \in [pc : {"look", "search", "fill", "store"}, value : Int]
    BY <1>1, <2>1
  <2>9. CountOK'
    <3> DEFINE d == UnitCount(pool')
    <3> HIDE DEF d
    <3>1. count' <= d /\ worker'.value <= d /\ \A r \in Readers : reader[r] < d
      BY <1>1, <2>5, <2>6, <2>8 DEF d
    <3> QED  BY <1>1, <2>6, <2>8, <3>1 DEF CountOK, d
  <2> QED  BY <1>1, <2>5, <2>7, <2>8, <2>9 DEF UnitInv
<1>3. CASE Hits(pool) # {}
  <2> DEFINE k == CHOOSE i \in Hits(pool) : \A j \in Hits(pool) : i <= j
             u == FirstFree(FreeAt(pool, k), Start(pool, k))
  <2>1. /\ pool' = [pool EXCEPT !.entry = u[1], !.avail = u[2]]
        /\ worker' = [worker EXCEPT !.pc = "fill"]
        /\ missed' = 0 /\ count' = count
    BY <1>1, <1>3 DEF Search, c
  <2>2. u \in Usable(pool)
    BY <1>1, <1>3, SearchFinds
  <2> HIDE DEF u
  <2>3. PICK e \in 0 .. (pool.entries - 1), i \in 0 .. (EntrySize - 2) : u = <<e, i>>
    BY <1>1, <2>2, UsedUnits DEF PoolOK
  <2>4. pool' = [pool EXCEPT !.entry = e, !.avail = i]
    BY <2>1, <2>3
  <2>5. /\ pool'.entries = pool.entries /\ pool'.used = pool.used /\ pool'.entry = e
        /\ pool'.avail = i
        /\ pool' = [entries |-> pool'.entries, used |-> pool'.used, entry |-> pool'.entry,
                    avail |-> pool'.avail]
    BY <1>1, <2>4 DEF PoolOK
  <2>6. Usable(pool') = Usable(pool) /\ UnitCount(pool') = c
    BY <2>5 DEF Usable, UnitsIn, UnitCount, c
  <2>7. PoolOK(pool')
    <3>1. pool.entries \in Nat \ {0} /\ pool.used \in SUBSET Usable(pool)
      BY <1>1 DEF PoolOK
    <3>2. e \in Nat /\ e < pool.entries /\ i \in Nat
      BY <3>1 DEF UnitSizes
    <3> QED  BY <2>5, <2>6, <3>1, <3>2 DEF PoolOK
  <2>8. /\ worker'.pc = "fill" /\ worker'.value = worker.value
        /\ worker' \in [pc : {"look", "search", "fill", "store"}, value : Int]
    BY <1>1, <2>1
  <2>9. CountOK'
    BY <1>1, <2>1, <2>6, <2>8 DEF CountOK
  <2>10. <<pool'.entry, pool'.avail>> \in Usable(pool')
    BY <2>2, <2>3, <2>5, <2>6
  <2> QED  BY <1>1, <2>1, <2>7, <2>8, <2>9, <2>10 DEF UnitInv
<1> QED  BY <1>2, <1>3

\* Before a search a count that is near the number of units is corrected.
LEMMA LookKeeps ==
  ASSUME UnitSizes, UnitInv, Look
  PROVE  UnitInv'
<1> DEFINE c == UnitCount(pool)
<1>1. /\ PoolOK(pool) /\ c \in Nat /\ count \in Int /\ pool.avail \in Nat
      /\ worker \in [pc : {"look", "search", "fill", "store"}, value : Int]
      /\ worker.value \in Int /\ worker.value <= c
      /\ \A r \in Readers : reader[r] \in Int /\ reader[r] < c
      /\ missed = 0 \/ (missed = 1 /\ pool.avail = 0)
      /\ reader' = reader /\ reader \in [Readers -> Int] /\ missed' = missed
  <2>1. PoolOK(pool) /\ reader' = reader /\ missed' = missed
    BY DEF UnitInv, Look
  <2>2. c \in Nat /\ pool.avail \in Nat
    BY <2>1, UsedUnits DEF PoolOK
  <2> QED  BY <2>1, <2>2 DEF UnitInv, CountOK
<1>2. count' \in Int /\ count' < c
  <2>1. CASE NearlyFull
    <3>1. count' = Cardinality(pool.used)
      BY <2>1 DEF Look, Corrected
    <3> QED  BY <1>1, <3>1, UsedUnits DEF PoolOK
  <2>2. CASE ~NearlyFull
    <3>1. count' = count
      BY <2>2 DEF Look
    <3> HIDE DEF c
    <3>2. c > 0
      BY <1>1, UsedUnits, FS_EmptySet DEF PoolOK, c
    <3>3. ~(count * FullDen > c * FullNum)
      BY <2>2 DEF NearlyFull, c
    <3>4. c * FullDen = c * FullNum + c * (FullDen - FullNum) /\ c * (FullDen - FullNum) > 0
      BY <1>1, <3>2 DEF UnitSizes
    <3>5. count * FullDen < c * FullDen
      BY <1>1, <3>3, <3>4 DEF UnitSizes
    <3>6. count < c
      <4>1. SUFFICES ASSUME count >= c PROVE FALSE
        BY <1>1
      <4>2. count * FullDen = c * FullDen + (count - c) * FullDen
        BY <1>1 DEF UnitSizes
      <4>3. (count - c) * FullDen \in Nat
        BY <1>1, <4>1 DEF UnitSizes
      <4> QED  BY <1>1, <3>5, <4>2, <4>3 DEF UnitSizes
    <3> QED  BY <1>1, <3>1, <3>6
  <2> QED  BY <2>1, <2>2
<1>3. /\ PoolOK(pool') /\ c <= UnitCount(pool') /\ UnitCount(pool') \in Nat
      /\ pool'.avail = pool.avail
  BY <1>1, GrownPool DEF Look
<1> HIDE DEF c
<1>4. /\ worker'.pc = "search" /\ worker'.value = worker.value
      /\ worker' \in [pc : {"look", "search", "fill", "store"}, value : Int]
  BY <1>1 DEF Look
<1>5. CountOK'
  <2> DEFINE d == UnitCount(pool')
  <2> HIDE DEF d
  <2>1. count' < d /\ worker'.value <= d /\ \A r \in Readers : reader[r] < d
    BY <1>1, <1>2, <1>3, <1>4 DEF d
  <2>2. d \in Int
    BY <1>3 DEF d
  <2> QED  BY <1>1, <1>2, <1>4, <2>1, <2>2 DEF CountOK, d
<1> QED  BY <1>1, <1>3, <1>4, <1>5 DEF UnitInv

\* Steps that change neither entries nor the place of the search.
LEMMA MarkKeeps ==
  ASSUME UnitSizes, UnitInv, NEW used \in SUBSET Usable(pool),
         pool' = [pool EXCEPT !.used = used], missed' = missed,
         worker' \in [pc : {"look", "search", "fill", "store"}, value : Int],
         reader' \in [Readers -> Int],
         CountOK /\ UnitCount(pool') = UnitCount(pool) => CountOK',
         worker'.pc = "fill" => worker.pc = "fill"
  PROVE  UnitInv'
<1>1. /\ pool'.entries = pool.entries /\ pool'.used = used /\ pool'.entry = pool.entry
      /\ pool'.avail = pool.avail
      /\ pool' = [entries |-> pool'.entries, used |-> pool'.used, entry |-> pool'.entry,
                  avail |-> pool'.avail]
  BY DEF UnitInv, PoolOK
<1>2. Usable(pool') = Usable(pool) /\ UnitCount(pool') = UnitCount(pool)
  BY <1>1 DEF Usable, UnitsIn, UnitCount
<1>3. PoolOK(pool')
  BY <1>1, <1>2 DEF UnitInv, PoolOK
<1>4. CountOK'
  BY <1>2 DEF UnitInv
<1> QED  BY <1>1, <1>2, <1>3, <1>4 DEF UnitInv

\* However far the count drifts, with any number of readers and units: of the
\* searches that could hand out a unit no two in a row come back empty.
THEOREM UnitFound ==
  ASSUME UnitSizes
  PROVE  UnitSpec => []FreeUnitIsFound
<1>1. UnitInit => UnitInv
  <2> SUFFICES ASSUME UnitInit PROVE UnitInv
    OBVIOUS
  <2>1. pool = [entries |-> 1, used |-> {}, entry |-> 0, avail |-> 0]
    BY DEF UnitInit
  <2>2. UnitCount(pool) = EntrySize /\ PoolOK(pool)
    BY <2>1 DEF UnitCount, PoolOK, UnitSizes
  <2>3. NoValue \in Int /\ NoValue < 0
    BY DEF NoValue, UnitSizes
  <2> QED  BY <2>2, <2>3 DEF UnitInit, UnitInv, CountOK, UnitSizes
<1>2. UnitInv /\ [UnitNext]_unitVars => UnitInv'
  <2> SUFFICES ASSUME UnitInv, [UnitNext]_unitVars PROVE UnitInv'
    OBVIOUS
  <2> DEFINE same == [pool EXCEPT !.used = pool.used]
  <2>1. /\ UnitCount(pool) \in Nat /\ pool = same /\ pool.used \in SUBSET Usable(pool)
    BY UsedUnits DEF UnitInv, PoolOK
  <2>2. CASE Refuse
    BY <2>1, <2>2, MarkKeeps DEF Refuse, UnitInv, CountOK
  <2>3. CASE AddData
    <3>1. count < UnitCount(pool) /\ count + 1 \in Int /\ count + 1 <= UnitCount(pool)
      BY <2>1, <2>3 DEF AddData, UnitInv, CountOK
    <3>2. pool.used \cup {<<pool.entry, pool.avail>>} \in SUBSET Usable(pool)
      BY <2>1, <2>3 DEF AddData, UnitInv
    <3>3. /\ worker'.pc = "store" /\ worker'.value = count + 1
          /\ worker' \in [pc : {"look", "search", "fill", "store"}, value : Int]
      BY <2>3, <3>1 DEF AddData
    <3>4. CountOK /\ UnitCount(pool') = UnitCount(pool) => CountOK'
      BY <2>3, <3>1, <3>3 DEF AddData, CountOK
    <3> QED  BY <2>3, <3>2, <3>3, <3>4, MarkKeeps DEF AddData, UnitInv
  <2>4. CASE StoreCount
    <3>1. /\ worker'.pc = "look" /\ worker'.value = NoValue
          /\ NoValue \in Int /\ NoValue <= UnitCount(pool)
      BY <2>1, <2>4 DEF StoreCount, NoValue, UnitSizes
    <3>2. worker' \in [pc : {"look", "search", "fill", "store"}, value : Int]
      BY <2>4, <3>1 DEF StoreCount
    <3>3. CountOK /\ UnitCount(pool') = UnitCount(pool) => CountOK'
      BY <2>4, <3>1 DEF StoreCount, CountOK
    <3> QED  BY <2>1, <2>4, <3>1, <3>2, <3>3, MarkKeeps DEF StoreCount, UnitInv
  <2>5. ASSUME NEW r \in Readers, NEW u, Free(r, u)
        PROVE  UnitInv'
    <3>1. Freed \in Int /\ Freed < UnitCount(pool)
      BY <2>1 DEF Freed, UnitSizes
    <3>2. reader' = [reader EXCEPT ![r] = Freed] /\ UNCHANGED <<count, worker, missed>>
      BY <2>5 DEF Free
    <3>3. CountOK /\ UnitCount(pool') = UnitCount(pool) => CountOK'
      BY <3>1, <3>2 DEF CountOK, UnitInv
    <3>4. pool' = [pool EXCEPT !.used = pool.used \ {u}]
      BY <2>5 DEF Free
    <3>5. reader' \in [Readers -> Int]
      BY <3>1, <3>2 DEF UnitInv
    <3>6. pool.used \ {u} \in SUBSET Usable(pool)
      BY <2>1
    <3> QED  BY <3>2, <3>3, <3>4, <3>5, <3>6, MarkKeeps DEF UnitInv
  <2>6. ASSUME NEW r \in Readers, LoadFreed(r)
        PROVE  UnitInv'
    <3>1. count - 1 \in Int /\ count - 1 < UnitCount(pool)
      BY <2>1 DEF UnitInv, CountOK
    <3>2. /\ reader' = [reader EXCEPT ![r] = count - 1]
          /\ UNCHANGED <<pool, count, worker, missed>>
      BY <2>6 DEF LoadFreed
    <3>3. CountOK'
      BY <3>1, <3>2 DEF CountOK, UnitInv
    <3>4. reader' \in [Readers -> Int]
      BY <3>1, <3>2 DEF UnitInv
    <3> QED  BY <2>1, <3>2, <3>3, <3>4, MarkKeeps DEF UnitInv
  <2>7. ASSUME NEW r \in Readers, StoreFreed(r)
        PROVE  UnitInv'
    <3>1. NoValue \in Int /\ NoValue < UnitCount(pool)
      BY <2>1 DEF NoValue, UnitSizes
    <3>2. /\ reader' = [reader EXCEPT ![r] = NoValue] /\ count' = reader[r]
          /\ UNCHANGED <<pool, worker, missed>>
      BY <2>7 DEF StoreFreed
    <3>3. reader[r] \in Int /\ reader[r] < UnitCount(pool)
      BY DEF UnitInv, CountOK
    <3>4. CountOK'
      <4>1. count' \in Int /\ count' < UnitCount(pool) /\ count' <= UnitCount(pool)
        BY <2>1, <3>2, <3>3
      <4> QED  BY <3>1, <3>2, <4>1 DEF CountOK, UnitInv
    <3>5. reader' \in [Readers -> Int]
      BY <3>1, <3>2 DEF UnitInv
    <3> QED  BY <2>1, <3>2, <3>4, <3>5, MarkKeeps DEF UnitInv
  <2>8. CASE UNCHANGED unitVars
    BY <2>8 DEF unitVars, UnitInv, CountOK
  <2> QED
    BY <2>2, <2>3, <2>4, <2>5, <2>6, <2>7, <2>8, LookKeeps, SearchKeeps DEF UnitNext
<1>3. UnitInv => FreeUnitIsFound
  BY DEF UnitInv, FreeUnitIsFound
<1> QED  BY <1>1, <1>2, <1>3, PTL DEF UnitSpec

-----------------------------------------------------------------------------
(* CCache.                                                                 *)

Ids == 1 .. (MaxSize + 1)
CacheItems == [id : Ids, host : [ver : {4, 6}, word : Int, rest : Int], info : Infos]
Chains == [0 .. (HashTableSize - 1) -> Seq(Ids)]

\* A set S of items, with the chains C and what is to be known of each host L:
\* an identity is one item's, an IPv4 host too, and its item is in its chain; no
\* chain has the identity of nothing, or of another chain's IPv4 host.
Kept(S, C, L) ==
    /\ S \subseteq CacheItems
    /\ \A x, y \in S : x.id = y.id => x = y
    /\ \A x, y \in S : x.host.ver = 4 /\ x.host = y.host => x = y
    /\ \A x \in S : x.host.ver = 4 =>
          /\ x.host \in Hosts /\ GetKey(x.host) >= 0
          /\ x.id \in Elements(C[Bucket(x.host)]) /\ L[x.host] = x.info
    /\ \A b \in DOMAIN C : \A id \in Elements(C[b]) :
          \E x \in S : x.id = id /\ (x.host.ver = 4 => Bucket(x.host) = b)
    /\ \A h \in Hosts : h.ver = 4 /\ (\A x \in S : x.host # h) => L[h] = NotKept

CacheInv ==
    ~astray =>
      /\ items \in Seq(CacheItems) /\ Distinct(items) /\ Len(items) < MaxSize
      /\ chains \in Chains /\ \A b \in DOMAIN chains : Distinct(chains[b])
      /\ latest \in [Hosts -> Infos \cup {NotKept}]
      /\ Kept(Elements(items), chains, latest)

\* Every address has a bucket, at the chains' places.
LEMMA BucketIs ==
  /\ HashTableSize \in Nat \ {0}
  /\ \A a \in [ver : {4, 6}, word : Int, rest : Int] :
        GetKey(a) \in Int /\ Bucket(a) \in 0 .. (HashTableSize - 1)
<1>1. HashTableSize \in Nat \ {0}
  BY InfoCacheAssumption DEF HashTableSize
<1>2. ASSUME NEW a \in [ver : {4, 6}, word : Int, rest : Int]
      PROVE  GetKey(a) \in Int /\ Bucket(a) \in 0 .. (HashTableSize - 1)
  <2>1. GetKey(a) \in Int
    BY DEF GetKey
  <2> QED  BY <1>1, <2>1 DEF Bucket
<1> QED  BY <1>1, <1>2

\* Two IPv4 hosts of the program are the same if their first words are.
LEMMA SameIPv4 ==
  ASSUME NEW g \in Hosts, NEW h \in Hosts, g.ver = 4, SameHost(g, h)
  PROVE  g = h
<1>1. g \in [ver : {4, 6}, word : Int, rest : Int] /\ h \in [ver : {4, 6}, word : Int, rest : Int]
  BY InfoCacheAssumption
<1>2. g.ver = h.ver /\ g.word = h.word /\ g.rest = h.rest
  BY InfoCacheAssumption DEF SameHost
<1> QED  BY <1>1, <1>2

\* An identity leads to the one item that has it.
LEMMA ItemIs ==
  ASSUME NEW I \in Seq(CacheItems), \A x, y \in Elements(I) : x.id = y.id => x = y,
         NEW x \in Elements(I)
  PROVE  Item(I, x.id) = x
<1>1. DOMAIN I = 1 .. Len(I)
  BY LenProperties
<1>2. PICK c : c = CHOOSE i \in DOMAIN I : I[i].id = x.id
  OBVIOUS
<1>3. c \in DOMAIN I /\ I[c].id = x.id
  BY <1>1, <1>2 DEF Elements
<1>4. I[c] = x
  BY <1>1, <1>3 DEF Elements
<1> QED  BY <1>2, <1>4 DEF Item

\* The least of some places of a sequence.
LEMMA FirstIs ==
  ASSUME NEW n \in Nat, NEW S \in SUBSET (1 .. n), S # {}
  PROVE  FirstOf(S) \in S
<1>1. S \in SUBSET Int /\ IsFiniteSet(S)
  <2>1. IsFiniteSet(1 .. n)
    BY FS_Interval
  <2>2. IsFiniteSet(S)
    BY <2>1, FS_Subset
  <2> QED  BY <2>2
<1>2. \E m \in S : \A j \in S : m <= j
  BY <1>1, LeastOf
<1> QED  BY <1>2 DEF FirstOf

\* The loops over a chain find an item of the host, if the chain has one.
LEMMA MatchIs ==
  ASSUME NEW I \in Seq(CacheItems), \A x, y \in Elements(I) : x.id = y.id => x = y,
         NEW ch \in Seq(Ids), \A id \in Elements(ch) : \E x \in Elements(I) : x.id = id,
         NEW h, NEW hits, hits = Matches(I, ch, h)
  PROVE  /\ hits = {} => \A x \in Elements(I) : x.id \in Elements(ch) => ~SameHost(x.host, h)
         /\ hits # {} => /\ FirstOf(hits) \in 1 .. Len(ch)
                         /\ \E x \in Elements(I) : /\ x.id = ch[FirstOf(hits)]
                                                   /\ Item(I, x.id) = x
                                                   /\ SameHost(x.host, h)
<1>1. DOMAIN ch = 1 .. Len(ch) /\ Len(ch) \in Nat
  BY LenProperties
<1>2. hits = {i \in 1 .. Len(ch) : SameHost(Item(I, ch[i]).host, h)}
  BY <1>1 DEF Matches
<1>3. \A x \in Elements(I) : Item(I, x.id) = x
  BY ItemIs
<1>4. ASSUME hits = {}, NEW x \in Elements(I), x.id \in Elements(ch)
      PROVE  ~SameHost(x.host, h)
  <2>1. PICK i \in 1 .. Len(ch) : ch[i] = x.id
    BY <1>4 DEF Elements
  <2> QED  BY <1>2, <1>3, <1>4, <2>1
<1>5. ASSUME hits # {}
      PROVE  /\ FirstOf(hits) \in 1 .. Len(ch)
             /\ \E x \in Elements(I) : /\ x.id = ch[FirstOf(hits)]
                                       /\ Item(I, x.id) = x
                                       /\ SameHost(x.host, h)
  <2>1. FirstOf(hits) \in hits
    BY <1>1, <1>2, <1>5, FirstIs
  <2>2. PICK k : k = FirstOf(hits)
    OBVIOUS
  <2>3. k \in 1 .. Len(ch) /\ SameHost(Item(I, ch[k]).host, h)
    BY <1>2, <2>1, <2>2
  <2>4. ch[k] \in Elements(ch)
    BY <2>3 DEF Elements
  <2>5. PICK x \in Elements(I) : x.id = ch[k]
    BY <2>4
  <2> QED  BY <1>3, <2>2, <2>3, <2>5
<1> QED  BY <1>4, <1>5

\* There is always an identity that no item has.
LEMMA FreshIs ==
  ASSUME NEW I \in Seq(CacheItems), Len(I) < MaxSize
  PROVE  \E n \in Ids : \A i \in DOMAIN I : I[i].id # n
<1>1. DOMAIN I = 1 .. Len(I) /\ Len(I) \in Nat
  BY LenProperties
<1> SUFFICES ASSUME \A n \in Ids : \E i \in 1 .. Len(I) : I[i].id = n PROVE FALSE
  BY <1>1
<1> DEFINE U == {I[i].id : i \in 1 .. Len(I)}
           f == [i \in 1 .. Len(I) |-> I[i].id]
<1>2. f \in Surjection(1 .. Len(I), U)
  BY DEF Surjection
<1>3. IsFiniteSet(1 .. Len(I)) /\ Cardinality(1 .. Len(I)) = Len(I)
  <2>1. Cardinality(1 .. Len(I)) = IF 1 > Len(I) THEN 0 ELSE Len(I) - 1 + 1
    BY <1>1, FS_Interval
  <2> QED  BY <1>1, <2>1, FS_Interval
<1> HIDE DEF U, f
<1>4. IsFiniteSet(U) /\ Cardinality(U) <= Len(I)
  BY <1>2, <1>3, FS_Surjection
<1>5. Ids \subseteq U
  BY DEF U
<1>6. Cardinality(Ids) <= Cardinality(U) /\ IsFiniteSet(Ids)
  BY <1>4, <1>5, FS_Subset
<1>7. Cardinality(Ids) = MaxSize + 1
  <2>1. MaxSize + 1 \in Int /\ 1 \in Int /\ MaxSize \in Nat
    BY InfoCacheAssumption
  <2>2. PICK m : m = MaxSize + 1
    OBVIOUS
  <2>3. Cardinality(1 .. m) = IF 1 > m THEN 0 ELSE m - 1 + 1
    BY <2>1, <2>2, FS_Interval
  <2> QED  BY <2>1, <2>2, <2>3 DEF Ids
<1>8. Cardinality(U) \in Nat
  BY <1>4, FS_CardinalityType
<1> QED  BY <1>1, <1>4, <1>6, <1>7, <1>8, InfoCacheAssumption

\* A host without an item gets a new one.
LEMMA Enter ==
  ASSUME NEW S, NEW C \in Chains, NEW L, Kept(S, C, L), NEW h \in Hosts, GetKey(h) >= 0,
         NEW new \in CacheItems, \A x \in S : x.id # new.id, new.host.ver = h.ver,
         h.ver = 4 => new.host = h, \A x \in S : h.ver = 4 => x.host # h,
         NEW D \in Chains, NEW M,
         Elements(D[Bucket(h)]) = Elements(C[Bucket(h)]) \cup {new.id},
         \A b \in DOMAIN C : b # Bucket(h) => Elements(D[b]) = Elements(C[b]),
         M[h] = new.info, \A g \in Hosts : g # h => M[g] = L[g]
  PROVE  Kept(S \cup {new}, D, M)
<1>1. DOMAIN C = DOMAIN D /\ Bucket(h) \in DOMAIN C
  <2>1. h \in [ver : {4, 6}, word : Int, rest : Int]
    BY InfoCacheAssumption
  <2> QED  BY <2>1, BucketIs DEF Chains
<1> DEFINE T == S \cup {new}
<1>2. T \subseteq CacheItems /\ \A x, y \in T : x.id = y.id => x = y
  BY DEF Kept
<1>3. \A x, y \in T : x.host.ver = 4 /\ x.host = y.host => x = y
  <2>1. \A x, y \in S : x.host.ver = 4 /\ x.host = y.host => x = y
    BY DEF Kept
  <2> QED  BY <2>1
<1>4. ASSUME NEW x \in T, x.host.ver = 4
      PROVE  /\ x.host \in Hosts /\ GetKey(x.host) >= 0
             /\ x.id \in Elements(D[Bucket(x.host)]) /\ M[x.host] = x.info
  <2>1. CASE x = new
    BY <1>1, <1>4, <2>1
  <2>2. CASE x \in S
    <3>1. /\ x.host \in Hosts /\ GetKey(x.host) >= 0
          /\ x.id \in Elements(C[Bucket(x.host)]) /\ L[x.host] = x.info
      BY <1>4, <2>2 DEF Kept
    <3>2. Bucket(x.host) \in DOMAIN C
      <4>1. x.host \in [ver : {4, 6}, word : Int, rest : Int]
        BY <3>1, InfoCacheAssumption
      <4> QED  BY <4>1, BucketIs DEF Chains
    <3>3. x.host # h
      BY <1>4, <2>2
    <3> QED  BY <3>1, <3>2, <3>3
  <2> QED  BY <2>1, <2>2
<1>5. ASSUME NEW b \in DOMAIN D, NEW id \in Elements(D[b])
      PROVE  \E x \in T : x.id = id /\ (x.host.ver = 4 => Bucket(x.host) = b)
  <2>1. CASE id \in Elements(C[b])
    BY <1>1, <2>1 DEF Kept
  <2>2. CASE b = Bucket(h) /\ id = new.id
    BY <2>2
  <2> QED  BY <1>1, <1>5, <2>1, <2>2
<1>6. ASSUME NEW g \in Hosts, g.ver = 4, \A x \in T : x.host # g
      PROVE  M[g] = NotKept
  BY <1>6 DEF Kept
<1> QED  BY <1>2, <1>3, <1>4, <1>5, <1>6 DEF Kept

\* An item that leaves every chain leaves the list too.
LEMMA Drop ==
  ASSUME NEW S, NEW C \in Chains, NEW L, Kept(S, C, L), NEW old \in S,
         NEW D \in Chains, NEW M,
         \A b \in DOMAIN C : old.id \notin Elements(D[b]) /\ Elements(D[b]) \subseteq Elements(C[b]),
         \A b \in DOMAIN C : \A x \in S :
            x # old /\ x.host.ver = 4 /\ x.id \in Elements(C[b]) => x.id \in Elements(D[b]),
         \A g \in Hosts : g.ver = 4 => M[g] = IF g = old.host THEN NotKept ELSE L[g]
  PROVE  Kept(S \ {old}, D, M)
<1> DEFINE T == S \ {old}
<1>1. DOMAIN C = DOMAIN D
  BY DEF Chains
<1>2. T \subseteq CacheItems /\ \A x, y \in T : x.id = y.id => x = y
  BY DEF Kept
<1>3. \A x, y \in S : x.host.ver = 4 /\ x.host = y.host => x = y
  BY DEF Kept
<1>4. ASSUME NEW x \in T, x.host.ver = 4
      PROVE  /\ x.host \in Hosts /\ GetKey(x.host) >= 0
             /\ x.id \in Elements(D[Bucket(x.host)]) /\ M[x.host] = x.info
  <2>1. /\ x.host \in Hosts /\ GetKey(x.host) >= 0
        /\ x.id \in Elements(C[Bucket(x.host)]) /\ L[x.host] = x.info
    BY <1>4 DEF Kept
  <2>2. Bucket(x.host) \in DOMAIN C
    <3>1. x.host \in [ver : {4, 6}, word : Int, rest : Int]
      BY <2>1, InfoCacheAssumption
    <3> QED  BY <3>1, BucketIs DEF Chains
  <2>3. x.host # old.host
    BY <1>3, <1>4
  <2> QED  BY <1>4, <2>1, <2>2, <2>3
<1>5. ASSUME NEW b \in DOMAIN D, NEW id \in Elements(D[b])
      PROVE  \E x \in T : x.id = id /\ (x.host.ver = 4 => Bucket(x.host) = b)
  <2>1. PICK x \in S : x.id = id /\ (x.host.ver = 4 => Bucket(x.host) = b)
    BY <1>1 DEF Kept
  <2>2. id # old.id
    BY <1>1
  <2> QED  BY <2>1, <2>2
<1>6. ASSUME NEW g \in Hosts, g.ver = 4, \A x \in T : x.host # g
      PROVE  M[g] = NotKept
  BY <1>6 DEF Kept
<1> QED  BY <1>2, <1>3, <1>4, <1>5, <1>6 DEF Kept

\* A host's item gets new information.
LEMMA Renewed ==
  ASSUME NEW S, NEW C \in Chains, NEW L, Kept(S, C, L), NEW h \in Hosts,
         NEW x \in S, SameHost(x.host, h), NEW info \in Infos,
         NEW y \in CacheItems, y.id = x.id, y.host = x.host, y.info = info,
         NEW D \in Chains, NEW M,
         \A b \in DOMAIN C : Elements(D[b]) = Elements(C[b]),
         \A g \in Hosts : M[g] = IF g = h THEN info ELSE L[g]
  PROVE  Kept((S \ {x}) \cup {y}, D, M)
<1> DEFINE T == (S \ {x}) \cup {y}
<1>1. /\ x \in CacheItems /\ y \in CacheItems
      /\ y.id = x.id /\ y.host = x.host /\ y.info = info
  BY DEF Kept
<1>2. DOMAIN C = DOMAIN D
  BY DEF Chains
<1>3. /\ \A v, w \in S : v.id = w.id => v = w
      /\ \A v, w \in S : v.host.ver = 4 /\ v.host = w.host => v = w
      /\ \A v \in S : v.host.ver = 4 =>
          /\ v.host \in Hosts /\ GetKey(v.host) >= 0
          /\ v.id \in Elements(C[Bucket(v.host)]) /\ L[v.host] = v.info
  BY DEF Kept
<1>4. T \subseteq CacheItems /\ \A v, w \in T : v.id = w.id => v = w
  BY <1>1, <1>3 DEF Kept
<1>5. \A v, w \in T : v.host.ver = 4 /\ v.host = w.host => v = w
  BY <1>1, <1>3
<1>6. x.host.ver = h.ver /\ (h.ver = 4 => x.host = h)
  BY <1>3, SameIPv4 DEF SameHost
<1>7. \A v \in S : v.host.ver = 4 => Bucket(v.host) \in DOMAIN C
  <2>1. \A v \in S : v.host.ver = 4 => v.host \in [ver : {4, 6}, word : Int, rest : Int]
    BY <1>3, InfoCacheAssumption
  <2> QED  BY <2>1, BucketIs DEF Chains
<1>8. ASSUME NEW v \in T, v.host.ver = 4
      PROVE  /\ v.host \in Hosts /\ GetKey(v.host) >= 0
             /\ v.id \in Elements(D[Bucket(v.host)]) /\ M[v.host] = v.info
  <2>1. CASE v = y
    BY <1>1, <1>3, <1>6, <1>7, <1>8, <2>1
  <2>2. CASE v \in S /\ v # x
    <3>1. v.host # h
      BY <1>3, <1>6, <1>8, <2>2
    <3> QED  BY <1>3, <1>7, <1>8, <2>2, <3>1
  <2> QED  BY <2>1, <2>2
<1>9. ASSUME NEW b \in DOMAIN D, NEW id \in Elements(D[b])
      PROVE  \E v \in T : v.id = id /\ (v.host.ver = 4 => Bucket(v.host) = b)
  <2>1. PICK v \in S : v.id = id /\ (v.host.ver = 4 => Bucket(v.host) = b)
    BY <1>2 DEF Kept
  <2> QED  BY <1>1, <2>1
<1>10. ASSUME NEW g \in Hosts, g.ver = 4, \A v \in T : v.host # g
       PROVE  M[g] = NotKept
  <2>1. \A v \in S : v.host # g
    BY <1>1, <1>10
  <2>2. g # h
    BY <1>6, <1>10, <2>1
  <2> QED  BY <1>10, <2>1, <2>2 DEF Kept
<1> QED  BY <1>4, <1>5, <1>8, <1>9, <1>10 DEF Kept

\* What lookup and update find of a host.
LEMMA HostIs ==
  ASSUME CacheInv, ~astray, NEW h \in Hosts
  PROVE  /\ Bucket(h) \in DOMAIN chains /\ chains[Bucket(h)] \in Seq(Ids)
         /\ InChain(h) => /\ Place(h) \in 1 .. Len(chains[Bucket(h)])
                          /\ \E x \in Elements(items) : /\ x.id = chains[Bucket(h)][Place(h)]
                                                        /\ Item(items, x.id) = x
                                                        /\ SameHost(x.host, h)
         /\ ~InChain(h) /\ h.ver = 4 => \A x \in Elements(items) : x.host # h
<1>1. /\ items \in Seq(CacheItems) /\ chains \in Chains
      /\ Kept(Elements(items), chains, latest)
  BY DEF CacheInv
<1>2. Bucket(h) \in DOMAIN chains
  <2>1. h \in [ver : {4, 6}, word : Int, rest : Int]
    BY InfoCacheAssumption
  <2> QED  BY <1>1, <2>1, BucketIs DEF Chains
<1>3. PICK ch : ch = chains[Bucket(h)]
  OBVIOUS
<1>4. ch \in Seq(Ids)
  BY <1>1, <1>2, <1>3 DEF Chains
<1>5. /\ \A x, y \in Elements(items) : x.id = y.id => x = y
      /\ \A id \in Elements(ch) : \E x \in Elements(items) : x.id = id
  BY <1>1, <1>2, <1>3 DEF Kept
<1>6. PICK hits : hits = Matches(items, ch, h)
  OBVIOUS
<1>7. /\ hits = {} => \A x \in Elements(items) : x.id \in Elements(ch) => ~SameHost(x.host, h)
      /\ hits # {} => /\ FirstOf(hits) \in 1 .. Len(ch)
                      /\ \E x \in Elements(items) : /\ x.id = ch[FirstOf(hits)]
                                                    /\ Item(items, x.id) = x
                                                    /\ SameHost(x.host, h)
  BY <1>1, <1>4, <1>5, <1>6, MatchIs
<1>8. (InChain(h) <=> hits # {}) /\ Place(h) = FirstOf(hits)
  BY <1>3, <1>6 DEF InChain, Place
<1>9. ASSUME hits = {}, h.ver = 4, NEW x \in Elements(items)
      PROVE  x.host # h
  <2> SUFFICES ASSUME x.host = h PROVE FALSE
    OBVIOUS
  <2>1. x.id \in Elements(ch)
    BY <1>1, <1>3, <1>9 DEF Kept
  <2>2. SameHost(x.host, h)
    BY DEF SameHost
  <2> QED  BY <1>7, <1>9, <2>1, <2>2
<1> QED  BY <1>2, <1>3, <1>4, <1>7, <1>8, <1>9

\* update of a host that is there.
LEMMA RenewKeeps ==
  ASSUME CacheInv, ~astray, NEW h \in Hosts, NEW info \in Infos, Renew(h, info)
  PROVE  CacheInv'
<1>1. PICK I, C, L : I = items /\ C = chains /\ L = latest
  OBVIOUS
<1>2. /\ I \in Seq(CacheItems) /\ Distinct(I) /\ Len(I) < MaxSize
      /\ C \in Chains /\ \A b \in DOMAIN C : Distinct(C[b])
      /\ L \in [Hosts -> Infos \cup {NotKept}] /\ Kept(Elements(I), C, L)
  BY <1>1 DEF CacheInv
<1>3. PICK b, p : b = Bucket(h) /\ p = Place(h)
  OBVIOUS
<1>4. b \in DOMAIN C /\ C[b] \in Seq(Ids) /\ InChain(h)
  BY <1>1, <1>3, HostIs DEF Renew
<1>5. p \in 1 .. Len(C[b])
  BY <1>1, <1>3, <1>4, HostIs
<1>6. PICK x \in Elements(I) : x.id = C[b][p] /\ Item(I, x.id) = x /\ SameHost(x.host, h)
  BY <1>1, <1>3, <1>4, HostIs
<1>7. PICK y : y = [x EXCEPT !.info = info]
  OBVIOUS
<1>8. x \in CacheItems /\ y \in CacheItems /\ y.id = x.id /\ y.host = x.host /\ y.info = info
  <2>1. x \in CacheItems
    BY <1>2 DEF Kept
  <2> QED  BY <1>7, <2>1 DEF CacheItems
<1>9. /\ items' = <<y>> \o RemoveFirst(I, x)
      /\ chains' = [C EXCEPT ![b] = <<x.id>> \o RemoveAt(C[b], p)]
      /\ latest' = [L EXCEPT ![h] = info] /\ astray' = astray
  BY <1>1, <1>3, <1>6, <1>7 DEF Renew
<1>10. /\ items' \in Seq(CacheItems) /\ Distinct(items') /\ Len(items') = Len(I)
       /\ Elements(items') = (Elements(I) \ {x}) \cup {y}
  <2>1. PICK J : J = RemoveFirst(I, x)
    OBVIOUS
  <2>2. /\ J \in Seq(CacheItems) /\ Distinct(J) /\ Elements(J) = Elements(I) \ {x}
        /\ Len(J) = Len(I) - 1
    BY <1>2, <1>6, <2>1, RemovedFirst
  <2>3. y \notin Elements(J)
    BY <1>2, <1>6, <1>8, <2>2 DEF Kept
  <2>4. PICK K : K = <<y>> \o J
    OBVIOUS
  <2>5. /\ K \in Seq(CacheItems) /\ Distinct(K) /\ Elements(K) = Elements(J) \cup {y}
        /\ Len(K) = Len(J) + 1
    BY <1>8, <2>2, <2>3, <2>4, Prepended
  <2>6. Len(I) \in Nat
    BY <1>2, LenProperties
  <2> QED  BY <1>9, <2>1, <2>2, <2>4, <2>5, <2>6
<1>11. PICK D : D = chains'
  OBVIOUS
<1>12. /\ D \in Chains
       /\ \A a \in DOMAIN C : Distinct(D[a]) /\ Elements(D[a]) = Elements(C[a])
  <2>1. PICK s : s = RemoveAt(C[b], p)
    OBVIOUS
  <2>2. s \in Seq(Ids) /\ Distinct(s) /\ Elements(s) = Elements(C[b]) \ {x.id}
    BY <1>2, <1>4, <1>5, <1>6, <2>1, RemovedAt, RemovedDistinct
  <2>3. x.id \in Ids /\ x.id \notin Elements(s) /\ x.id \in Elements(C[b])
    BY <1>5, <1>6, <1>8, <2>2 DEF CacheItems, Elements
  <2>4. PICK t : t = <<x.id>> \o s
    OBVIOUS
  <2>5. t \in Seq(Ids) /\ Distinct(t) /\ Elements(t) = Elements(s) \cup {x.id}
    BY <2>2, <2>3, <2>4, Prepended
  <2>6. D = [C EXCEPT ![b] = t]
    BY <1>9, <1>11, <2>1, <2>4
  <2>7. Elements(t) = Elements(C[b])
    BY <2>2, <2>3, <2>5
  <2> QED  BY <1>2, <1>4, <2>5, <2>6, <2>7 DEF Chains
<1>13. PICK M : M = latest'
  OBVIOUS
<1>14. /\ M \in [Hosts -> Infos \cup {NotKept}]
       /\ \A g \in Hosts : M[g] = IF g = h THEN info ELSE L[g]
  BY <1>2, <1>9, <1>13
<1>15. Kept((Elements(I) \ {x}) \cup {y}, D, M)
  BY <1>2, <1>6, <1>8, <1>12, <1>14, Renewed
<1>16. DOMAIN D = DOMAIN C
  BY <1>2, <1>12 DEF Chains
<1> QED  BY <1>2, <1>10, <1>11, <1>12, <1>13, <1>14, <1>15, <1>16 DEF CacheInv

\* The list and the chains with a new item in front.
Longer(new) == <<new>> \o items
Put(h, new) == [chains EXCEPT ![Bucket(h)] = <<new.id>> \o @]

\* What update makes of a new host.
LEMMA EnteredIs ==
  ASSUME CacheInv, ~astray, NEW h \in Hosts, NEW info \in Infos, NEW rest \in Words,
         GetKey(h) >= 0, ~InChain(h), h.ver = 4 => rest = h.rest,
         NEW new, new = Entered(h, info, rest),
         NEW K, K = Longer(new), NEW put, put = Put(h, new)
  PROVE  /\ new \in CacheItems /\ new.host.ver = h.ver /\ (h.ver = 4 => new.host = h)
         /\ \A x \in Elements(items) : x.id # new.id
         /\ K \in Seq(CacheItems) /\ Distinct(K) /\ Len(K) = Len(items) + 1
         /\ Elements(K) = Elements(items) \cup {new}
         /\ put \in Chains /\ \A b \in DOMAIN put : Distinct(put[b])
         /\ \A M : (\A g \in Hosts : M[g] = IF g = h THEN info ELSE latest[g])
                      => Kept(Elements(K), put, M)
<1>1. PICK I, C, L : I = items /\ C = chains /\ L = latest
  OBVIOUS
<1>2. /\ I \in Seq(CacheItems) /\ Distinct(I) /\ Len(I) < MaxSize
      /\ C \in Chains /\ \A b \in DOMAIN C : Distinct(C[b])
      /\ Kept(Elements(I), C, L)
  BY <1>1 DEF CacheInv
<1>3. PICK b : b = Bucket(h)
  OBVIOUS
<1>4. /\ b \in DOMAIN C /\ C[b] \in Seq(Ids)
      /\ h.ver = 4 => \A x \in Elements(I) : x.host # h
  BY <1>1, <1>3, HostIs
<1>5. FreshId \in Ids /\ \A i \in DOMAIN I : I[i].id # FreshId
  <2>1. \E n \in Ids : \A i \in DOMAIN I : I[i].id # n
    BY <1>2, FreshIs
  <2> QED  BY <1>1, <2>1 DEF FreshId, Ids
<1>6. PICK a : a = [h EXCEPT !.rest = rest]
  OBVIOUS
<1>7. a \in [ver : {4, 6}, word : Int, rest : Int] /\ a.ver = h.ver /\ (h.ver = 4 => a = h)
  <2>1. h \in [ver : {4, 6}, word : Int, rest : Int] /\ rest \in Int
    BY InfoCacheAssumption
  <2> QED  BY <1>6, <2>1
<1>8. new = [id |-> FreshId, host |-> a, info |-> info]
  BY <1>6 DEF Entered
<1>9. new \in CacheItems /\ new.host = a /\ new.id = FreshId /\ new.info = info
  BY <1>5, <1>7, <1>8 DEF CacheItems
<1>10. \A x \in Elements(I) : x.id # new.id
  <2>1. DOMAIN I = 1 .. Len(I)
    BY <1>2, LenProperties
  <2> QED  BY <1>5, <1>9, <2>1 DEF Elements
<1>11. K \in Seq(CacheItems) /\ Distinct(K) /\ Len(K) = Len(I) + 1 /\ Elements(K) = Elements(I) \cup {new}
  <2>1. new \notin Elements(I) /\ K = <<new>> \o I
    BY <1>1, <1>10 DEF Longer
  <2>2. PICK H : H = <<new>> \o I
    OBVIOUS
  <2>3. H \in Seq(CacheItems) /\ Distinct(H) /\ Len(H) = Len(I) + 1 /\ Elements(H) = Elements(I) \cup {new}
    BY <1>2, <1>9, <2>1, <2>2, Prepended
  <2> QED  BY <2>1, <2>2, <2>3
<1>12. PICK t : t = <<new.id>> \o C[b]
  OBVIOUS
<1>13. t \in Seq(Ids) /\ Distinct(t) /\ Elements(t) = Elements(C[b]) \cup {new.id}
  <2>1. new.id \in Ids
    BY <1>9 DEF CacheItems
  <2>2. new.id \notin Elements(C[b])
    BY <1>2, <1>4, <1>10 DEF Kept
  <2>3. PICK s, n : s = C[b] /\ n = new.id
    OBVIOUS
  <2>4. s \in Seq(Ids) /\ Distinct(s) /\ n \in Ids /\ n \notin Elements(s) /\ t = <<n>> \o s
    BY <1>2, <1>4, <1>12, <2>1, <2>2, <2>3
  <2>5. t \in Seq(Ids) /\ Distinct(t) /\ Elements(t) = Elements(s) \cup {n}
    BY <2>4, Prepended
  <2> QED  BY <2>3, <2>5
<1>14. put = [C EXCEPT ![b] = t]
  BY <1>1, <1>3, <1>12 DEF Put
<1>15. /\ put \in Chains /\ DOMAIN put = DOMAIN C
       /\ \A c \in DOMAIN C : put[c] = IF c = b THEN t ELSE C[c]
  BY <1>2, <1>4, <1>13, <1>14 DEF Chains
<1>16. \A c \in DOMAIN put : Distinct(put[c])
  BY <1>2, <1>13, <1>15
<1>17. ASSUME NEW M, \A g \in Hosts : M[g] = IF g = h THEN info ELSE latest[g]
       PROVE  Kept(Elements(K), put, M)
  <2>1. M[h] = new.info /\ \A g \in Hosts : g # h => M[g] = L[g]
    BY <1>1, <1>9, <1>17
  <2>2. /\ Elements(put[Bucket(h)]) = Elements(C[Bucket(h)]) \cup {new.id}
        /\ \A c \in DOMAIN C : c # Bucket(h) => Elements(put[c]) = Elements(C[c])
    BY <1>3, <1>4, <1>13, <1>15
  <2>3. Kept(Elements(I) \cup {new}, put, M)
    <3>1. PICK S : S = Elements(I)
      OBVIOUS
    <3>2. /\ new.host.ver = h.ver /\ (h.ver = 4 => new.host = h)
          /\ \A x \in S : h.ver = 4 => x.host # h
          /\ new \in CacheItems /\ \A x \in S : x.id # new.id
          /\ C \in Chains /\ put \in Chains /\ Kept(S, C, L)
      BY <1>2, <1>4, <1>7, <1>9, <1>10, <1>15, <3>1
    <3>3. h \in Hosts /\ GetKey(h) >= 0
      OBVIOUS
    <3>4. Kept(S \cup {new}, put, M)
      BY ONLY <2>1, <2>2, <3>2, <3>3, Enter
    <3> QED  BY <3>1, <3>4
  <2> QED  BY <1>11, <2>3
<1> QED  BY <1>1, <1>7, <1>9, <1>10, <1>11, <1>15, <1>16, <1>17

\* update of a new host below the limit.
LEMMA AddKeeps ==
  ASSUME CacheInv, ~astray, NEW h \in Hosts, NEW info \in Infos, NEW rest \in Words,
         Add(h, info, rest)
  PROVE  CacheInv'
<1>1. PICK new, K, put : /\ new = Entered(h, info, rest)
                         /\ K = Longer(new) /\ put = Put(h, new)
  OBVIOUS
<1>2. GetKey(h) >= 0 /\ ~InChain(h) /\ (h.ver = 4 => rest = h.rest)
  BY DEF Add
<1>3. /\ K \in Seq(CacheItems) /\ Distinct(K) /\ Len(K) = Len(items) + 1
      /\ put \in Chains /\ \A b \in DOMAIN put : Distinct(put[b])
      /\ \A M : (\A g \in Hosts : M[g] = IF g = h THEN info ELSE latest[g])
                   => Kept(Elements(K), put, M)
  BY <1>1, <1>2, EnteredIs
<1>4. items' = K /\ chains' = put /\ latest' = [latest EXCEPT ![h] = info] /\ Len(items) + 1 < MaxSize
  BY <1>1 DEF Add, Longer, Put
<1>5. PICK M : M = latest'
  OBVIOUS
<1>6. /\ M \in [Hosts -> Infos \cup {NotKept}]
      /\ \A g \in Hosts : M[g] = IF g = h THEN info ELSE latest[g]
  BY <1>4, <1>5 DEF CacheInv
<1>7. Kept(Elements(K), put, M)
  BY <1>3, <1>6
<1> QED  BY <1>3, <1>4, <1>5, <1>6, <1>7 DEF CacheInv

\* update of a new host at the limit, while no chain goes astray.
LEMMA ReplaceKeeps ==
  ASSUME CacheInv, ~astray, NEW h \in Hosts, NEW info \in Infos, NEW rest \in Words,
         Replace(h, info, rest), ~astray'
  PROVE  CacheInv'
<1>1. PICK new, K, put : /\ new = Entered(h, info, rest)
                         /\ K = Longer(new) /\ put = Put(h, new)
  OBVIOUS
<1>2. PICK old, I, b : old = Last(items) /\ I = items /\ b = Bucket(h)
  OBVIOUS
<1>3. /\ GetKey(h) >= 0 /\ ~InChain(h) /\ (h.ver = 4 => rest = h.rest) /\ Len(I) + 1 >= MaxSize
      /\ I \in Seq(CacheItems) /\ Distinct(I) /\ Len(I) < MaxSize /\ Len(I) \in Nat
  BY <1>2, LenProperties DEF Replace, CacheInv
<1>4. /\ new \in CacheItems /\ new.host.ver = h.ver /\ (h.ver = 4 => new.host = h)
      /\ \A x \in Elements(I) : x.id # new.id
      /\ K \in Seq(CacheItems) /\ Elements(K) = Elements(I) \cup {new}
      /\ put \in Chains /\ \A c \in DOMAIN put : Distinct(put[c])
      /\ \A M : (\A g \in Hosts : M[g] = IF g = h THEN info ELSE latest[g])
                   => Kept(Elements(K), put, M)
  BY <1>1, <1>2, <1>3, EnteredIs
<1>5. PICK left : left = Erased(K, put[b], old.host)
  OBVIOUS
<1>6. PICK D, M : D = chains' /\ M = latest'
  OBVIOUS
<1>7. /\ Bucket(old.host) = b
      /\ \A c \in DOMAIN chains : old.id \notin ToSet(D[c])
  BY <1>2, <1>6 DEF Replace
<1>8. /\ items' = <<new>> \o Front(I)
      /\ D = [put EXCEPT ![b] = left]
      /\ M = [g \in Hosts |-> IF g = h THEN info ELSE IF g = old.host THEN NotKept ELSE latest[g]]
  BY <1>1, <1>2, <1>5, <1>6, <1>7 DEF Replace, Longer, Put
<1>9. PICK J : J = Front(I)
  OBVIOUS
<1>10. /\ old \in Elements(I) /\ J \in Seq(CacheItems) /\ Distinct(J)
       /\ Elements(J) = Elements(I) \ {old} /\ Len(J) = Len(I) - 1
  <2>1. Len(I) # 0
    BY <1>3, InfoCacheAssumption
  <2> QED  BY <1>2, <1>3, <1>9, <2>1, RemovedLast
<1>11. /\ items' \in Seq(CacheItems) /\ Distinct(items') /\ Len(items') < MaxSize
       /\ Elements(items') = Elements(K) \ {old}
  <2>1. new \notin Elements(J) /\ new # old
    BY <1>4, <1>10
  <2>2. PICK H : H = <<new>> \o J
    OBVIOUS
  <2>3. H \in Seq(CacheItems) /\ Distinct(H) /\ Len(H) = Len(J) + 1 /\ Elements(H) = Elements(J) \cup {new}
    BY <1>4, <1>10, <2>1, <2>2, Prepended
  <2> QED  BY <1>3, <1>4, <1>8, <1>9, <1>10, <2>1, <2>2, <2>3
<1>12. PICK N : N = [latest EXCEPT ![h] = info]
  OBVIOUS
<1>13. latest \in [Hosts -> Infos \cup {NotKept}] /\ \A g \in Hosts : N[g] = IF g = h THEN info ELSE latest[g]
  BY <1>12 DEF CacheInv
<1>14. Kept(Elements(K), put, N)
  BY <1>4, <1>13
<1>15. b \in DOMAIN put /\ DOMAIN put = DOMAIN chains /\ put[b] \in Seq(Ids) /\ old \in Elements(K)
  <2>1. b \in DOMAIN chains /\ chains \in Chains
    BY <1>2, HostIs DEF CacheInv
  <2> QED  BY <1>4, <1>10, <2>1 DEF Chains
<1>16. /\ \A x, y \in Elements(K) : x.id = y.id => x = y
       /\ \A x, y \in Elements(K) : x.host.ver = 4 /\ x.host = y.host => x = y
       /\ \A x \in Elements(K) : x.host.ver = 4 => x.host \in Hosts
       /\ \A id \in Elements(put[b]) : \E x \in Elements(K) : x.id = id
  BY <1>14, <1>15 DEF Kept
<1>17. PICK s, hits : s = put[b] /\ hits = Matches(K, s, old.host)
  OBVIOUS
<1>18. hits # {} => /\ FirstOf(hits) \in 1 .. Len(s)
                    /\ \E x \in Elements(K) : /\ x.id = s[FirstOf(hits)]
                                              /\ Item(K, x.id) = x
                                              /\ SameHost(x.host, old.host)
  BY <1>4, <1>15, <1>16, <1>17, MatchIs
\* None but the oldest of the IPv4 hosts leaves its chain.
<1>19. /\ left \in Seq(Ids) /\ Distinct(left) /\ Elements(left) \subseteq Elements(s)
       /\ \A x \in Elements(K) : x # old /\ x.host.ver = 4 /\ x.id \in Elements(s)
                                    => x.id \in Elements(left)
  <2>1. s \in Seq(Ids) /\ Distinct(s)
    BY <1>4, <1>15, <1>17
  <2>2. left = IF hits = {} THEN s ELSE RemoveAt(s, FirstOf(hits))
    BY <1>5, <1>17 DEF Erased
  <2>3. CASE hits = {}
    BY <2>1, <2>2, <2>3
  <2>4. CASE hits # {}
    <3>1. PICK k : k = FirstOf(hits)
      OBVIOUS
    <3>2. k \in 1 .. Len(s) /\ left = RemoveAt(s, k)
      BY <1>18, <2>2, <2>4, <3>1
    <3>3. PICK x \in Elements(K) : x.id = s[k] /\ SameHost(x.host, old.host)
      BY <1>18, <2>4, <3>1
    <3>4. x.host.ver = 4 => x = old
      <4> SUFFICES ASSUME x.host.ver = 4 PROVE x = old
        OBVIOUS
      <4>1. old.host.ver = 4
        BY <3>3 DEF SameHost
      <4>2. x.host \in Hosts /\ old.host \in Hosts
        BY <1>15, <1>16, <4>1
      <4>3. x.host = old.host
        BY <3>3, <4>2, SameIPv4
      <4> QED  BY <1>15, <1>16, <4>3
    <3>5. left \in Seq(Ids) /\ Distinct(left) /\ Elements(left) = Elements(s) \ {s[k]}
      BY <2>1, <3>2, RemovedAt, RemovedDistinct
    <3>6. \A y \in Elements(K) : y # old /\ y.host.ver = 4 => y.id # s[k]
      BY <1>16, <3>3, <3>4
    <3> QED  BY <3>5, <3>6
  <2> QED  BY <2>3, <2>4
<1>20. D \in Chains /\ DOMAIN D = DOMAIN put /\ \A c \in DOMAIN put : D[c] = IF c = b THEN left ELSE put[c]
  BY <1>4, <1>8, <1>15, <1>19 DEF Chains
<1>21. Kept(Elements(K) \ {old}, D, M)
  <2>1. \A c \in DOMAIN put : old.id \notin Elements(D[c])
    <3> TAKE c \in DOMAIN put
    <3>1. PICK t : t = D[c]
      OBVIOUS
    <3>2. t \in Seq(Ids) /\ old.id \notin ToSet(t)
      BY <1>7, <1>15, <1>20, <3>1 DEF Chains
    <3>3. DOMAIN t = 1 .. Len(t)
      BY <3>2, LenProperties
    <3> QED  BY <3>1, <3>2, <3>3 DEF Elements, ToSet
  <2>2. \A c \in DOMAIN put : Elements(D[c]) \subseteq Elements(put[c])
    BY <1>17, <1>19, <1>20
  <2>3. \A c \in DOMAIN put : \A x \in Elements(K) :
           x # old /\ x.host.ver = 4 /\ x.id \in Elements(put[c]) => x.id \in Elements(D[c])
    BY <1>17, <1>19, <1>20
  <2>4. \A g \in Hosts : g.ver = 4 => M[g] = IF g = old.host THEN NotKept ELSE N[g]
    <3> TAKE g \in Hosts
    <3> SUFFICES ASSUME g.ver = 4 PROVE M[g] = IF g = old.host THEN NotKept ELSE N[g]
      OBVIOUS
    <3>1. M[g] = IF g = h THEN info ELSE IF g = old.host THEN NotKept ELSE latest[g]
      BY <1>8
    <3>2. g = h => g # old.host
      <4> SUFFICES ASSUME g = h, h = old.host PROVE FALSE
        OBVIOUS
      <4>1. h.ver = 4 /\ old.host.ver = 4 /\ new.host = old.host
        BY <1>4
      <4>2. new \in Elements(K)
        BY <1>4
      <4>3. new = old
        BY <1>15, <1>16, <4>1, <4>2
      <4> QED  BY <1>4, <1>10, <4>3
    <3> QED  BY <1>13, <3>1, <3>2
  <2>5. PICK S : S = Elements(K)
    OBVIOUS
  <2>6. /\ put \in Chains /\ D \in Chains /\ Kept(S, put, N) /\ old \in S
        /\ \A c \in DOMAIN put : old.id \notin Elements(D[c]) /\ Elements(D[c]) \subseteq Elements(put[c])
        /\ \A c \in DOMAIN put : \A x \in S :
              x # old /\ x.host.ver = 4 /\ x.id \in Elements(put[c]) => x.id \in Elements(D[c])
    BY <1>4, <1>14, <1>15, <1>20, <2>1, <2>2, <2>3, <2>5
  <2>7. Kept(S \ {old}, D, M)
    BY ONLY <2>4, <2>6, Drop
  <2> QED  BY <2>5, <2>7
<1>22. M \in [Hosts -> Infos \cup {NotKept}]
  BY <1>8, <1>13
<1>23. \A c \in DOMAIN D : Distinct(D[c])
  BY <1>4, <1>19, <1>20
<1> QED  BY <1>6, <1>11, <1>20, <1>21, <1>22, <1>23 DEF CacheInv

\* For any hosts and any size of the cache: until an overflow puts a chain in
\* another's place, lookup gives an IPv4 host its own last information.
THEOREM InfoOfTheHost == CacheSpec => []HostInfoKept
<1>1. CacheInit => CacheInv
  <2> SUFFICES ASSUME CacheInit PROVE CacheInv
    OBVIOUS
  <2>1. /\ <<>> \in Seq(CacheItems) /\ <<>> \in Seq(Ids) /\ Len(<<>>) = 0
        /\ Elements(<<>>) = {} /\ Distinct(<<>>)
    BY DEF Elements, Distinct
  <2>2. /\ chains \in Chains /\ DOMAIN chains = 0 .. (HashTableSize - 1)
        /\ \A b \in DOMAIN chains : chains[b] = <<>>
    BY <2>1 DEF CacheInit, Chains
  <2>3. latest \in [Hosts -> Infos \cup {NotKept}] /\ \A h \in Hosts : latest[h] = NotKept
    BY DEF CacheInit
  <2>4. Kept({}, chains, latest)
    BY <2>1, <2>2, <2>3 DEF Kept
  <2>5. 0 < MaxSize /\ items = <<>>
    BY InfoCacheAssumption DEF CacheInit
  <2> QED  BY <2>1, <2>2, <2>3, <2>4, <2>5 DEF CacheInv
<1>2. CacheInv /\ [CacheNext]_cacheVars => CacheInv'
  <2> SUFFICES ASSUME CacheInv, [CacheNext]_cacheVars PROVE CacheInv'
    OBVIOUS
  <2>1. CASE UNCHANGED cacheVars
    BY <2>1 DEF cacheVars, CacheInv
  <2>2. CASE CacheNext
    <3>1. PICK h \in Hosts, info \in Infos :
             ~astray /\ \/ Renew(h, info)
                        \/ \E rest \in Words : Add(h, info, rest) \/ Replace(h, info, rest)
      BY <2>2 DEF CacheNext
    <3>2. CASE Renew(h, info)
      BY <3>1, <3>2, RenewKeeps
    <3>3. ASSUME NEW rest \in Words, Add(h, info, rest)
          PROVE  CacheInv'
      BY <3>1, <3>3, AddKeeps
    <3>4. ASSUME NEW rest \in Words, Replace(h, info, rest)
          PROVE  CacheInv'
      <4>1. CASE astray'
        BY <4>1 DEF CacheInv
      <4>2. CASE ~astray'
        BY <3>1, <3>4, <4>2, ReplaceKeeps
      <4> QED  BY <4>1, <4>2
    <3> QED  BY <3>1, <3>2, <3>3, <3>4
  <2> QED  BY <2>1, <2>2
<1>3. CacheInv => HostInfoKept
  <2> SUFFICES ASSUME CacheInv, ~astray, NEW h \in Hosts, h.ver = 4
               PROVE  Looked(h) = IF GetKey(h) < 0 THEN NotKept ELSE latest[h]
    BY DEF HostInfoKept
  <2>1. CASE GetKey(h) < 0
    BY <2>1 DEF Looked
  <2>2. CASE ~(GetKey(h) < 0) /\ ~InChain(h)
    <3>1. \A x \in Elements(items) : x.host # h
      BY <2>2, HostIs
    <3>2. latest[h] = NotKept
      BY <3>1 DEF CacheInv, Kept
    <3> QED  BY <2>2, <3>2 DEF Looked
  <2>3. CASE ~(GetKey(h) < 0) /\ InChain(h)
    <3>1. PICK x \in Elements(items) : /\ x.id = chains[Bucket(h)][Place(h)]
                                       /\ Item(items, x.id) = x /\ SameHost(x.host, h)
      BY <2>3, HostIs
    <3>2. x.host.ver = 4
      BY <3>1 DEF SameHost
    <3>3. x.host \in Hosts /\ latest[x.host] = x.info
      BY <3>2 DEF CacheInv, Kept
    <3>4. x.host = h
      BY <3>1, <3>2, <3>3, SameIPv4
    <3> QED  BY <2>3, <3>1, <3>3, <3>4 DEF Looked
  <2> QED  BY <2>1, <2>2, <2>3
<1> QED  BY <1>1, <1>2, <1>3, PTL DEF CacheSpec

-----------------------------------------------------------------------------
(* CEPoll, for buffers of every size: marks of removed sockets, and        *)
(* sleeping beside work.                                                   *)

PCs == {"free", "wait", "informed", "add id", "add in", "add out",
        "remove marks", "remove id", "recv look", "recv clear",
        "send look", "send clear"}

PollTypeOK ==
    /\ state \in {"CONNECTED", "BROKEN", "CLOSED"}
    /\ data \in Nat /\ buf \in Nat
    /\ watch \subseteq Events /\ ready \subseteq Events /\ tell \subseteq Events
    /\ polled \in BOOLEAN
    /\ app \in [pc : PCs, again : SUBSET Events]
    /\ unheard \in {"nothing", "shutdown", "added late"}

\* Taking a socket off the poll: what each step leaves behind.
Removing ==
    /\ app.pc = "remove marks" => watch = {}
    /\ app.pc = "remove id" => watch = {} /\ ready = {}
    /\ ~polled => ready = {}
    /\ ~polled /\ app.pc # "add id" => watch = {}
    /\ app.pc \in {"add in", "add out", "wait"} => polled

\* What is repeated before the next wait.
Repeating ==
    /\ app.pc \in {"recv look", "recv clear"} => "IN" \in app.again
    /\ app.pc \in {"send look", "send clear"} => "OUT" \in app.again
    /\ app.pc = "wait" => app.again = {}

\* A break: due, reported, or known to be unheard.
Breaking ==
    /\ state = "CLOSED" => tell = {}
    /\ state = "BROKEN" => tell = {} \/ tell = Events
    /\ unheard # "nothing" => state # "CONNECTED"

\* The thread knows of event e, or will look whether there is something.
Aware(e) ==
    \/ e \in app.again \/ app.pc = "informed" \/ app.pc = "add id"
    \/ app.pc = "add in"
    \/ app.pc = "add out" /\ e = "OUT"

\* Where the poll watches, what there is to do is marked, about to be reported,
\* or known.
WorkKnown ==
    unheard # "added late" /\ state # "CLOSED" =>
        \A e \in watch \ (tell \cup ready) :
            /\ IF e = "IN" THEN data # 0 => Aware(e) ELSE HasRoom => Aware(e)
            /\ state = "BROKEN" /\ unheard = "nothing" =>
                  \/ e \in app.again \/ app.pc \in {"informed", "add id"}

PollInv == PollTypeOK /\ Removing /\ Repeating /\ Breaking /\ WorkKnown
-----------------------------------------------------------------------------
\* The initial state: nothing is watched, nothing is there.
LEMMA PollInitial == PollInit => PollInv
<1> SUFFICES ASSUME PollInit PROVE PollInv
  OBVIOUS
<1>1. PollTypeOK
  BY DEF PollInit, PollTypeOK, Events, PCs
<1>2. Removing /\ Repeating /\ Breaking
  BY DEF PollInit, Removing, Repeating, Breaking
<1>3. WorkKnown
  BY DEF PollInit, WorkKnown
<1> QED  BY <1>1, <1>2, <1>3 DEF PollInv

\* What the steps that change a buffer do to its number.
LEMMA Counts ==
  ASSUME PollTypeOK
  PROVE  /\ AckData => data' \in Nat
         /\ Acked => buf' \in Nat
         /\ RecvRead => data' \in Nat
         /\ SendAdd => buf' \in Nat
<1>1. RcvBufSize \in Nat /\ SndBufSize \in Nat
  BY PollAssumption
<1>2. data \in Nat /\ buf \in Nat
  BY DEF PollTypeOK
<1>3. AckData => data' \in Nat
  BY <1>1, <1>2 DEF AckData
<1>4. Acked => buf' \in Nat
  BY <1>1, <1>2 DEF Acked
<1>5. RecvRead => data' \in Nat
  <2>1. RecvRead => data' \in 0 .. data - 1
    BY DEF RecvRead
  <2> QED  BY <1>1, <1>2, <2>1
<1>6. SendAdd => buf' \in Nat
  <2>1. SendAdd => buf' \in buf + 1 .. SndBufSize
    BY DEF SendAdd
  <2> QED  BY <1>1, <1>2, <2>1
<1> QED  BY <1>3, <1>4, <1>5, <1>6

\* The code's test for data, without arithmetic.
LEMMA SomeData == ASSUME PollTypeOK PROVE data > 0 <=> data # 0
<1>1. data \in Nat
  BY DEF PollTypeOK
<1> QED  BY <1>1

\* Every step of the worker, the application and the collector keeps PollInv.
LEMMA PollStep == PollInv /\ [PollNext]_pollVars => PollInv'
<1> SUFFICES ASSUME PollInv, [PollNext]_pollVars PROVE PollInv'
  OBVIOUS
<1> USE PollAssumption DEF PollInv, PollTypeOK, Removing, Repeating, Breaking, WorkKnown,
        Aware, HasRoom, Events, PCs, socketVars, markVars, Goes
<1>1. CASE AckData
  <2>0. data' \in Nat
    BY <1>1, Counts
  <2>1. PollTypeOK'
    BY <1>1, <2>0 DEF AckData
  <2>2. Removing' /\ Repeating' /\ Breaking'
    BY <1>1, <2>0 DEF AckData
  <2>3. WorkKnown'
    BY <1>1, <2>0 DEF AckData
  <2> QED  BY <2>1, <2>2, <2>3
<1>2. CASE Acked
  <2>0. buf' \in Nat
    BY <1>2, Counts
  <2>1. PollTypeOK'
    BY <1>2, <2>0 DEF Acked
  <2>2. Removing' /\ Repeating' /\ Breaking'
    BY <1>2, <2>0 DEF Acked
  <2>3. WorkKnown'
    BY <1>2, <2>0 DEF Acked
  <2> QED  BY <2>1, <2>2, <2>3
<1>3. CASE Expire
  BY <1>3 DEF Expire
<1>4. CASE Shutdown
  <2>1. PollTypeOK'
    BY <1>4 DEF Shutdown
  <2>2. Removing' /\ Repeating' /\ Breaking'
    BY <1>4 DEF Shutdown
  <2>3. WorkKnown'
    BY <1>4 DEF Shutdown
  <2> QED  BY <2>1, <2>2, <2>3
<1>5. CASE Tell
  BY <1>5 DEF Tell, Enabled
<1>6. CASE AddWatch
  BY <1>6 DEF AddWatch
<1>7. CASE AddId
  BY <1>7 DEF AddId
<1>8. CASE AddIn
  BY <1>8, SomeData DEF AddIn, Enabled
<1>9. CASE AddOut
  BY <1>9 DEF AddOut, Enabled
<1>10. CASE RemoveWatch
  BY <1>10 DEF RemoveWatch
<1>11. CASE RemoveMarks
  BY <1>11 DEF RemoveMarks
<1>12. CASE RemoveId
  BY <1>12 DEF RemoveId
<1>13. CASE RecvRead
  <2>0. data' \in Nat
    BY <1>13, Counts
  <2>1. PollTypeOK'
    BY <1>13, <2>0 DEF RecvRead
  <2>2. Removing' /\ Repeating' /\ Breaking'
    BY <1>13, <2>0 DEF RecvRead
  <2>3. WorkKnown'
    BY <1>13, <2>0 DEF RecvRead
  <2> QED  BY <2>1, <2>2, <2>3
<1>14. CASE RecvLook
  BY ZenonT(40), <1>14 DEF RecvLook
<1>15. CASE RecvClear
  BY <1>15 DEF RecvClear, Disabled
<1>16. CASE RecvThrows
  <2>1. PollTypeOK'
    BY <1>16 DEF RecvThrows
  <2>2. Removing' /\ Repeating' /\ Breaking'
    BY <1>16 DEF RecvThrows
  <2>3. WorkKnown'
    <3>1. CASE state = "CONNECTED"
      <4>1. app'.again = app.again \ {"IN"} /\ app.pc = "free"
        BY <1>16 DEF RecvThrows
      <4>2. data = 0
        BY <1>16, <3>1 DEF RecvThrows
      <4>3. UNCHANGED <<socketVars, markVars, tell, unheard>>
        BY <1>16 DEF RecvThrows
      <4> QED  BY <3>1, <4>1, <4>2, <4>3
    <3>2. CASE state # "CONNECTED"
      <4>1. app'.pc = "informed"
        BY <1>16, <3>2 DEF RecvThrows
      <4> QED  BY <1>16, <3>2, <4>1 DEF RecvThrows
    <3> QED  BY <3>1, <3>2
  <2> QED  BY <2>1, <2>2, <2>3
<1>17. CASE SendAdd
  <2>0. buf' \in Nat
    BY <1>17, Counts
  <2>1. PollTypeOK'
    BY <1>17, <2>0 DEF SendAdd
  <2>2. Removing' /\ Repeating' /\ Breaking'
    BY <1>17, <2>0 DEF SendAdd
  <2>3. WorkKnown'
    BY <1>17, <2>0 DEF SendAdd
  <2> QED  BY <2>1, <2>2, <2>3
<1>18. CASE SendLook
  BY ZenonT(40), <1>18 DEF SendLook
<1>19. CASE SendClear
  BY <1>19 DEF SendClear, Disabled
<1>20. CASE SendThrows
  BY <1>20 DEF SendThrows
<1>21. CASE Wait
  BY <1>21 DEF Wait
<1>22. CASE WaitReturns
  BY <1>22 DEF WaitReturns
<1>23. CASE WaitThrows
  BY <1>23 DEF WaitThrows
<1>24. CASE WaitExpires
  BY <1>24 DEF WaitExpires
<1>25. CASE Select
  <2>0. Selected \subseteq Events
    BY <1>25  DEF Selected, SelectedEx
  <2>1. PollTypeOK'
    BY ZenonT(40), <1>25, <2>0 DEF Select
  <2>2. Removing' /\ Repeating' /\ Breaking'
    BY <1>25, <2>0 DEF Select
  <2>3. WorkKnown'
    <3>1. \/ app'.pc = "informed"
          \/ app'.pc = app.pc /\ app.again \subseteq app'.again
      BY <1>25 DEF Select
    <3>2. app.pc = "free"
      BY <1>25 DEF Select
    <3>3. UNCHANGED <<socketVars, markVars, tell, unheard>>
      BY <1>25 DEF Select
    <3> QED  BY <3>1, <3>2, <3>3
  <2> QED  BY <2>1, <2>2, <2>3
<1>26. CASE SelectEx
  <2>0. SelectedEx \subseteq Events
    BY <1>26  DEF SelectedEx
  <2>1. PollTypeOK'
    BY ZenonT(40), <1>26, <2>0 DEF SelectEx
  <2>2. Removing' /\ Repeating' /\ Breaking'
    BY <1>26, <2>0 DEF SelectEx
  <2>3. WorkKnown'
    <3>1. \/ app'.pc = "informed"
          \/ app'.pc = app.pc /\ app.again \subseteq app'.again
      BY ZenonT(40), <1>26 DEF SelectEx
    <3>2. app.pc = "free"
      BY <1>26 DEF SelectEx
    <3>3. UNCHANGED <<socketVars, markVars, tell, unheard>>
      BY <1>26 DEF SelectEx
    <3> QED  BY <3>1, <3>2, <3>3
  <2> QED  BY <2>1, <2>2, <2>3
<1>27. CASE Collect
  BY <1>27 DEF Collect
<1>28. CASE UNCHANGED pollVars
  BY <1>28 DEF pollVars
<1> QED
  BY <1>1, <1>2, <1>3, <1>4, <1>5, <1>6, <1>7, <1>8, <1>9, <1>10,
     <1>11, <1>12, <1>13, <1>14, <1>15, <1>16, <1>17, <1>18, <1>19,
     <1>20, <1>21, <1>22, <1>23, <1>24, <1>25, <1>26,
     <1>27, <1>28 DEF PollNext

\* So the invariant holds all the time.
THEOREM PollInvariance == PollSpec => []PollInv
<1>1. PollInit => PollInv  BY PollInitial
<1>2. PollInv /\ [PollNext]_pollVars => PollInv'  BY PollStep
<1> QED  BY <1>1, <1>2, PTL DEF PollSpec

\* Nobody who waits, and has called recv and send until they had nothing to do,
\* sleeps beside data, room or a break the worker has reported.
THEOREM NoWorkAsleep == PollSpec => []SleeperHasNoWork
<1>1. ASSUME PollInv, app.pc = "wait", state # "CLOSED", unheard # "added late"
      PROVE  \A e \in watch \ (tell \cup ready) :
               /\ IF e = "IN" THEN data = 0 ELSE ~HasRoom
               /\ ~(state = "BROKEN" /\ unheard = "nothing")
  BY <1>1 DEF PollInv, PollTypeOK, Repeating, WorkKnown, Aware
<1>2. ASSUME PollInv
      PROVE  state # "CONNECTED" /\ state # "CLOSED" => state = "BROKEN"
  BY <1>2 DEF PollInv, PollTypeOK
<1>3. ASSUME PollInv
      PROVE  /\ "IN" \in SelectedEx => data # 0
             /\ "OUT" \in SelectedEx => HasRoom
             /\ SelectedEx \subseteq Events
  BY <1>3, SomeData DEF PollInv, SelectedEx, Readable, Writable, Events
<1>4. PollInv => SleeperHasNoWork
  BY <1>1, <1>2, <1>3 DEF SleeperHasNoWork, Excepted, Events
<1> QED  BY <1>4, PollInvariance, PTL

\* A socket taken off the poll is not marked there, whatever the worker reports.
THEOREM UnmarkedOnceRemoved == PollSpec => []RemovedIsUnmarked
<1>1. PollInv => RemovedIsUnmarked
  BY DEF PollInv, Removing, RemovedIsUnmarked
<1> QED  BY <1>1, PollInvariance, PTL
=============================================================================
