--------------------------- MODULE Message_proofs ---------------------------
(***************************************************************************)
(* The safety of a UDT message socket, for every number and size of        *)
(* messages and every size of the receiver's ring: the promise of Messages *)
(* is implemented, and what was read, dropped, lost, stored and released   *)
(* agrees at both ends.                                                    *)
(*                                                                         *)
(* The ring is looked at by number: s is the number of the place at its    *)
(* start, UnitNo(b, s, seq) the unit with number seq.  First come facts    *)
(* about messages and rings, then what scanMsg, readMsg, addData, ackData  *)
(* and dropMsg keep of the invariant, then the steps.                      *)
(***************************************************************************)
EXTENDS Message, SequenceTheorems, FiniteSetTheorems, TLAPS

-----------------------------------------------------------------------------
(* Numbers.                                                                *)

\* A finite set of numbers has a least one: each has a number of its own of
\* smaller ones, and there are as many such numbers as elements.
LEMMA LeastOf ==
  ASSUME NEW S \in SUBSET Int, IsFiniteSet(S), S # {}
  PROVE  \E m \in S : \A n \in S : m <= n
<1> DEFINE below(x) == {y \in S : y < x}
           places == 0 .. (Cardinality(S) - 1)
           f == [x \in S |-> Cardinality(below(x))]
<1>1. Cardinality(S) \in Nat
  BY FS_CardinalityType
<1>2. ASSUME NEW x \in S
      PROVE  IsFiniteSet(below(x)) /\ Cardinality(below(x)) \in places
  <2>1. below(x) \in SUBSET S /\ below(x) # S
    OBVIOUS
  <2> HIDE DEF below
  <2>2. IsFiniteSet(below(x)) /\ Cardinality(below(x)) <= Cardinality(S)
        /\ Cardinality(below(x)) # Cardinality(S)
    BY <2>1, FS_Subset
  <2>3. Cardinality(below(x)) \in Nat
    BY <2>2, FS_CardinalityType
  <2> QED  BY <1>1, <2>2, <2>3
<1>3. ASSUME NEW x \in S, NEW y \in S, x < y
      PROVE  Cardinality(below(x)) # Cardinality(below(y))
  <2>1. below(x) \in SUBSET below(y) /\ below(x) # below(y)
    <3>1. x \in below(y) /\ x \notin below(x)
      BY <1>3
    <3>2. \A z \in below(x) : z \in below(y)
      BY <1>3
    <3> HIDE DEF below
    <3> QED  BY <3>1, <3>2
  <2> HIDE DEF below
  <2> QED  BY <1>2, <2>1, FS_Subset
<1>4. \A x, y \in S : f[x] = f[y] => x = y
  <2> SUFFICES ASSUME NEW x \in S, NEW y \in S, x # y
               PROVE  f[x] # f[y]
    OBVIOUS
  <2>1. x < y \/ y < x
    OBVIOUS
  <2> HIDE DEF below
  <2> QED  BY <1>3, <2>1
<1> HIDE DEF below
<1>5. f \in Injection(S, places)
  BY <1>2, <1>4 DEF Injection, IsInjective
<1>6. IsFiniteSet(places) /\ Cardinality(places) = Cardinality(S)
  BY <1>1, FS_Interval
<1>7. f \in Surjection(S, places)
  <2> HIDE DEF f, places
  <2> QED  BY <1>5, <1>6, FS_Injection
<1>8. Cardinality(S) # 0
  BY FS_EmptySet
<1>9. PICK m \in S : Cardinality(below(m)) = 0
  <2>1. 0 \in places
    BY <1>1, <1>8
  <2> HIDE DEF places
  <2> QED  BY <1>7, <2>1 DEF Surjection
<1>10. below(m) = {}
  BY <1>2, <1>9, FS_EmptySet
<1> QED  BY <1>10 DEF below

\* Numbers that wrap at most once around a ring of n places.
LEMMA Modulo ==
  ASSUME NEW n \in Nat \ {0}, NEW x \in 0 .. 2 * n - 1
  PROVE  x % n = IF x < n THEN x ELSE x - n
<1>1. CASE x < n
  BY <1>1
<1>2. CASE x >= n
  BY <1>2
<1> QED  BY <1>1, <1>2

-----------------------------------------------------------------------------
(* What A has written.                                                     *)

\* What A writes: messages of blocks without a gap, the first from block 1 on.
Written == [blocks : Seq(Nat), order : BOOLEAN, ttl : BOOLEAN]

\* The blocks written.
Blocks == 1 .. (SndEnd - 1)

\* A block is part of message k.
In(block, k) == FirstOf(k) <= block /\ block <= LastOf(k)

\* Messages have blocks in a row, and follow on each other; a block is part of one.
WrittenOK ==
    /\ written \in Seq(Written)
    /\ \A k \in DOMAIN written :
           /\ SizeOf(k) > 0 /\ FirstOf(k) >= 1 /\ LastOf(k) < SndEnd
           /\ \A i \in 1 .. SizeOf(k) : written[k].blocks[i] = FirstOf(k) + i - 1
    /\ \A k, l \in DOMAIN written : k < l => LastOf(k) < FirstOf(l)
    /\ \A block \in Blocks : \E k \in DOMAIN written : In(block, k)

\* The numbers a message begins and ends with.
LEMMA MessageFacts ==
  ASSUME WrittenOK
  PROVE  /\ DOMAIN written = 1 .. Len(written) /\ Len(written) \in Nat
         /\ SndEnd \in Nat \ {0}
         /\ \A k \in DOMAIN written :
                /\ written[k] \in Written /\ SizeOf(k) \in Nat \ {0}
                /\ FirstOf(k) \in Nat /\ LastOf(k) \in Nat
                /\ 1 <= FirstOf(k) /\ FirstOf(k) <= LastOf(k) /\ LastOf(k) < SndEnd
                /\ LastOf(k) = FirstOf(k) + SizeOf(k) - 1
<1>1. written \in Seq(Written)
  BY DEF WrittenOK
<1>2. DOMAIN written = 1 .. Len(written) /\ Len(written) \in Nat
  BY <1>1, LenProperties
<1>3. ASSUME NEW k \in DOMAIN written
      PROVE  /\ written[k] \in Written /\ SizeOf(k) \in Nat \ {0}
             /\ FirstOf(k) \in Nat /\ LastOf(k) \in Nat
             /\ 1 <= FirstOf(k) /\ FirstOf(k) <= LastOf(k) /\ LastOf(k) < SndEnd
             /\ LastOf(k) = FirstOf(k) + SizeOf(k) - 1
  <2>1. written[k] \in Written
    BY <1>1, <1>2, ElementOfSeq
  <2> DEFINE s == written[k].blocks
             n == SizeOf(k)
  <2>2. s \in Seq(Nat) /\ n = Len(s)
    BY <2>1 DEF Written, SizeOf
  <2>3. n > 0 /\ FirstOf(k) >= 1 /\ LastOf(k) < SndEnd
    BY DEF WrittenOK
  <2>4. \A i \in 1 .. n : s[i] = FirstOf(k) + i - 1
    BY DEF WrittenOK
  <2> HIDE DEF s
  <2>5. n \in Nat /\ \A i \in 1 .. n : s[i] \in Nat
    BY <2>2, LenProperties, ElementOfSeq
  <2>6. s[1] = FirstOf(k) /\ s[n] = LastOf(k)
    BY DEF FirstOf, LastOf, s
  <2> HIDE DEF n
  <2>7. /\ FirstOf(k) \in Nat /\ LastOf(k) \in Nat
        /\ LastOf(k) = FirstOf(k) + n - 1
    BY <2>3, <2>4, <2>5, <2>6
  <2> QED  BY <2>1, <2>3, <2>5, <2>7 DEF n
<1>4. SndEnd \in Nat \ {0}
  <2>1. CASE written = <<>>
    BY <2>1 DEF SndEnd
  <2>2. CASE written # <<>>
    <3>1. Len(written) \in DOMAIN written
      BY <1>1, <1>2, <2>2, EmptySeq
    <3> QED  BY <1>3, <2>2, <3>1 DEF SndEnd
  <2> QED  BY <2>1, <2>2
<1> QED  BY <1>2, <1>3, <1>4

\* A block is part of one message.
LEMMA MessageIs ==
  ASSUME WrittenOK, NEW k \in DOMAIN written, NEW block \in Int, In(block, k)
  PROVE  MessageOf(block) = k /\ block \in Blocks
<1>1. \A l \in DOMAIN written : In(block, l) => l = k
  <2> SUFFICES ASSUME NEW l \in DOMAIN written, In(block, l), l # k
               PROVE  FALSE
    OBVIOUS
  <2>1. l \in Int /\ k \in Int
    BY MessageFacts
  <2>2. l < k \/ k < l
    BY <2>1
  <2>3. LastOf(l) < FirstOf(k) \/ LastOf(k) < FirstOf(l)
    BY <2>2 DEF WrittenOK
  <2> QED  BY <2>3, MessageFacts DEF In
<1>2. MessageOf(block) = CHOOSE l \in DOMAIN written : In(block, l)
  BY Zenon DEF MessageOf, In
<1>3. MessageOf(block) = k
  BY <1>1, <1>2
<1> QED  BY <1>3, MessageFacts DEF In, Blocks

\* The message of a block.
LEMMA OfBlock ==
  ASSUME WrittenOK, NEW block \in Blocks
  PROVE  MessageOf(block) \in DOMAIN written /\ In(block, MessageOf(block))
<1>1. PICK k \in DOMAIN written : In(block, k)
  BY DEF WrittenOK
<1>2. block \in Int
  BY MessageFacts DEF Blocks
<1> QED  BY <1>1, <1>2, MessageIs

\* The bits that mark the ends of a message.
LEMMA Boundaries ==
  ASSUME WrittenOK, NEW block \in Blocks
  PROVE  /\ Boundary(block) \in 0 .. 3
         /\ Boundary(block) \in {First, Only} <=> block = FirstOf(MessageOf(block))
         /\ Boundary(block) \in {Last, Only} <=> block = LastOf(MessageOf(block))
BY DEF Boundary, First, Last, Only

\* What follows a message begins one.
LEMMA NextMessage ==
  ASSUME WrittenOK, NEW k \in DOMAIN written, LastOf(k) + 1 \in Blocks
  PROVE  FirstOf(MessageOf(LastOf(k) + 1)) = LastOf(k) + 1
<1> DEFINE block == LastOf(k) + 1
           l == MessageOf(block)
<1>1. l \in DOMAIN written /\ In(block, l)
  BY OfBlock
<1>2. l \in Int /\ k \in Int
  BY <1>1, MessageFacts
<1>3. /\ FirstOf(k) \in Nat /\ LastOf(k) \in Nat /\ FirstOf(k) <= LastOf(k)
      /\ FirstOf(l) \in Nat /\ LastOf(l) \in Nat
  BY <1>1, MessageFacts
<1>4. l # k
  BY <1>1, <1>3 DEF In
<1>5. LastOf(k) < FirstOf(l) \/ LastOf(l) < FirstOf(k)
  BY <1>1, <1>2, <1>4 DEF WrittenOK
<1> QED  BY <1>1, <1>3, <1>5 DEF In

\* The blocks of a message, one by one.
LEMMA BlocksOfMessage ==
  ASSUME WrittenOK, NEW k \in DOMAIN written
  PROVE  written[k].blocks
             = [n \in 1 .. (LastOf(k) - FirstOf(k) + 1) |-> FirstOf(k) + n - 1]
<1> DEFINE s == written[k].blocks
           m == LastOf(k) - FirstOf(k) + 1
           t == [n \in 1 .. m |-> FirstOf(k) + n - 1]
<1>1. written[k] \in Written /\ SizeOf(k) \in Nat \ {0} /\ m = SizeOf(k) /\ FirstOf(k) >= 1
      /\ FirstOf(k) \in Nat
  BY MessageFacts
<1>2. s \in Seq(Nat) /\ Len(s) = SizeOf(k)
  BY <1>1 DEF Written, SizeOf
<1>3. \A i \in 1 .. SizeOf(k) : s[i] = FirstOf(k) + i - 1
  BY DEF WrittenOK
<1>4. s = [i \in 1 .. SizeOf(k) |-> s[i]]
  BY <1>2, LenProperties
<1> HIDE DEF s, m
<1> QED  BY <1>1, <1>3, <1>4 DEF s, m

\* A message that is written comes after all others.
LEMMA WriteKeeps ==
  ASSUME WrittenOK, NEW n \in Nat \ {0}, NEW order \in BOOLEAN, NEW ttl \in BOOLEAN,
         written' = Append(written, [blocks |-> [i \in 1 .. n |-> SndEnd + i - 1],
                                     order |-> order, ttl |-> ttl])
  PROVE  /\ WrittenOK' /\ SndEnd' = SndEnd + n
         /\ Len(written') = Len(written) + 1
         /\ DOMAIN written' = DOMAIN written \cup {Len(written) + 1}
         /\ \A k \in DOMAIN written : /\ written'[k] = written[k]
                                      /\ FirstOf(k)' = FirstOf(k) /\ LastOf(k)' = LastOf(k)
         /\ FirstOf(Len(written))' = SndEnd /\ LastOf(Len(written))' = SndEnd + n - 1
<1> DEFINE m == [blocks |-> [i \in 1 .. n |-> SndEnd + i - 1], order |-> order, ttl |-> ttl]
<1>1. PICK z \in Nat \ {0} : z = Len(written) + 1
  BY MessageFacts
<1>2. SndEnd \in Nat \ {0} /\ DOMAIN written = 1 .. (z - 1)
  BY <1>1, MessageFacts
<1>3. /\ m.blocks \in Seq(Nat) /\ Len(m.blocks) = n
      /\ \A i \in 1 .. n : m.blocks[i] = SndEnd + i - 1
  <2>1. \A i \in 1 .. n : SndEnd + i - 1 \in Nat
    BY <1>2
  <2> QED  BY <2>1, IsASeq
<1>4. m \in Written
  BY <1>3 DEF Written
<1>5. m.blocks[1] = SndEnd /\ m.blocks[n] = SndEnd + n - 1
  BY <1>2, <1>3
<1> HIDE DEF m
<1>6. /\ written' \in Seq(Written) /\ Len(written') = z
      /\ \A k \in 1 .. (z - 1) : written'[k] = written[k]
      /\ written'[z] = m
  <2>1. written \in Seq(Written) /\ written' = Append(written, m)
    BY DEF WrittenOK, m
  <2> QED  BY <1>1, <1>4, <2>1, AppendProperties
<1>7. DOMAIN written' = DOMAIN written \cup {z}
  BY <1>2, <1>6, LenProperties
<1>8. \A k \in DOMAIN written : /\ written'[k] = written[k]
                                /\ SizeOf(k)' = SizeOf(k)
                                /\ FirstOf(k)' = FirstOf(k) /\ LastOf(k)' = LastOf(k)
  BY <1>2, <1>6 DEF SizeOf, FirstOf, LastOf
<1>9. SizeOf(z)' = n /\ FirstOf(z)' = SndEnd /\ LastOf(z)' = SndEnd + n - 1
  BY <1>3, <1>5, <1>6 DEF SizeOf, FirstOf, LastOf
<1>10. SndEnd' = SndEnd + n
  <2>1. written' # <<>>
    BY <1>2, <1>6, EmptySeq
  <2> QED  BY <1>2, <1>6, <1>9, <2>1 DEF SndEnd
<1>11. WrittenOK'
  <2>1. ASSUME NEW k \in DOMAIN written'
        PROVE  /\ SizeOf(k)' > 0 /\ FirstOf(k)' >= 1 /\ LastOf(k)' < SndEnd'
               /\ \A i \in 1 .. SizeOf(k)' : written'[k].blocks[i] = FirstOf(k)' + i - 1
    <3>1. CASE k \in DOMAIN written
      <4>1. LastOf(k) < SndEnd /\ LastOf(k) \in Nat
        BY <3>1, MessageFacts
      <4>2. LastOf(k)' < SndEnd'
        BY <1>2, <1>8, <1>10, <3>1, <4>1
      <4> QED  BY <1>8, <3>1, <4>2 DEF WrittenOK
    <3>2. CASE k = z
      BY <1>2, <1>3, <1>6, <1>9, <1>10, <3>2
    <3> QED  BY <1>7, <3>1, <3>2
  <2>2. ASSUME NEW k \in DOMAIN written', NEW l \in DOMAIN written', k < l
        PROVE  LastOf(k)' < FirstOf(l)'
    <3>1. k \in DOMAIN written
      BY <1>2, <1>7, <2>2
    <3>2. CASE l \in DOMAIN written
      BY <1>8, <2>2, <3>1, <3>2 DEF WrittenOK
    <3>3. CASE l = z
      BY <1>8, <1>9, <3>1, <3>3, MessageFacts
    <3> QED  BY <1>7, <3>2, <3>3
  <2>3. ASSUME NEW block \in 1 .. (SndEnd' - 1)
        PROVE  \E k \in DOMAIN written' : FirstOf(k)' <= block /\ block <= LastOf(k)'
    <3>1. CASE block \in Blocks
      <4>1. PICK k \in DOMAIN written : In(block, k)
        BY <3>1 DEF WrittenOK
      <4> QED  BY <1>7, <1>8, <4>1 DEF In
    <3>2. CASE block \notin Blocks
      <4>1. SndEnd <= block /\ block <= SndEnd + n - 1
        BY <1>2, <1>10, <3>2 DEF Blocks
      <4> QED  BY <1>7, <1>9, <4>1
    <3> QED  BY <3>1, <3>2
  <2> QED  BY <1>6, <2>1, <2>2, <2>3 DEF WrittenOK, Blocks, In
<1> QED  BY <1>1, <1>6, <1>7, <1>8, <1>9, <1>10, <1>11

-----------------------------------------------------------------------------
(* The ring, by its places.                                                *)

\* What a ring holds.
Units == [flag : 0 .. 3, msg : Nat, boundary : 0 .. 3, order : BOOLEAN, block : Nat]

\* Every CRcvBuffer, also one that is overrun.
Buffers == [unit : [Positions -> Units], start : Positions, ack : Positions, max : Nat]

\* The unit j places after the start.
UnitAt(b, j) == b.unit[At(b.start, j)]

\* The ring with another flag for the units at the places of S.
Flagged(b, S, flag) ==
    [b EXCEPT !.unit = [p \in Positions |->
        IF p \in S THEN [b.unit[p] EXCEPT !.flag = flag] ELSE b.unit[p]]]

\* Places and distances are each other's inverse.
LEMMA Places ==
  ASSUME NEW b, b.start \in Positions
  PROVE  /\ \A p \in Positions, n \in Positions :
                At(p, n) = (IF p + n < RcvBufSize THEN p + n ELSE p + n - RcvBufSize)
         /\ \A p \in Positions, n \in Positions : At(p, n) \in Positions
         /\ \A q \in Positions :
                /\ FromStart(b, q) \in Positions
                /\ FromStart(b, q) = (IF q >= b.start THEN q - b.start
                                      ELSE q - b.start + RcvBufSize)
                /\ At(b.start, FromStart(b, q)) = q
         /\ \A j \in Positions : FromStart(b, At(b.start, j)) = j
<1> DEFINE s == b.start
<1>1. /\ RcvBufSize \in Nat \ {0} /\ RcvBufSize \in Nat /\ RcvBufSize >= 2
      /\ s \in Nat /\ s < RcvBufSize /\ s \in Positions
  BY RcvBufAssumption DEF Positions
<1>2. ASSUME NEW p \in Positions, NEW n \in Positions
      PROVE  /\ At(p, n) = (IF p + n < RcvBufSize THEN p + n ELSE p + n - RcvBufSize)
             /\ At(p, n) \in Positions
  <2> DEFINE x == p + n
  <2>1. x \in 0 .. 2 * RcvBufSize - 1 /\ x < 2 * RcvBufSize
    BY <1>1 DEF Positions
  <2>2. At(p, n) = x % RcvBufSize
    BY DEF At
  <2> HIDE DEF x
  <2>3. At(p, n) = (IF x < RcvBufSize THEN x ELSE x - RcvBufSize)
    BY <1>1, <2>1, <2>2, Modulo
  <2>4. At(p, n) \in Positions
    BY <1>1, <2>1, <2>3 DEF Positions
  <2>5. x = p + n
    BY DEF x
  <2> QED  BY <1>1, <2>1, <2>3, <2>4, <2>5 DEF Positions
<1>3. ASSUME NEW q \in Positions
      PROVE  /\ FromStart(b, q) \in Positions
             /\ FromStart(b, q) = (IF q >= s THEN q - s ELSE q - s + RcvBufSize)
  <2> DEFINE x == q - s + RcvBufSize
  <2>1. x \in 0 .. 2 * RcvBufSize - 1 /\ x > 0
    BY <1>1 DEF Positions
  <2>2. FromStart(b, q) = x % RcvBufSize
    BY DEF FromStart
  <2> HIDE DEF x
  <2>3. FromStart(b, q) = (IF x < RcvBufSize THEN x ELSE x - RcvBufSize)
    BY <1>1, <2>1, <2>2, Modulo
  <2> HIDE DEF s
  <2>4. FromStart(b, q) = (IF q >= s THEN q - s ELSE q - s + RcvBufSize)
    BY <1>1, <2>3 DEF Positions, x
  <2> QED  BY <1>1, <2>4 DEF Positions
<1>4. ASSUME NEW q \in Positions
      PROVE  At(s, FromStart(b, q)) = q
  <2> DEFINE j == FromStart(b, q)
             p == At(s, j)
  <2>1. j \in Positions /\ j = (IF q >= s THEN q - s ELSE q - s + RcvBufSize)
    BY <1>3
  <2> HIDE DEF s, j
  <2>2. p = (IF s + j < RcvBufSize THEN s + j ELSE s + j - RcvBufSize)
    BY <1>1, <1>2, <2>1
  <2> HIDE DEF p
  <2>3. p = q
    BY <1>1, <2>1, <2>2 DEF Positions
  <2> QED  BY <2>3 DEF p, j
<1>5. ASSUME NEW j \in Positions
      PROVE  FromStart(b, At(s, j)) = j
  <2> DEFINE q == At(s, j)
             n == FromStart(b, q)
  <2>1. q \in Positions /\ q = (IF s + j < RcvBufSize THEN s + j ELSE s + j - RcvBufSize)
    BY <1>1, <1>2
  <2> HIDE DEF s, q
  <2>2. n = (IF q >= s THEN q - s ELSE q - s + RcvBufSize)
    BY <1>3, <2>1
  <2> HIDE DEF n
  <2>3. n = j
    BY <1>1, <2>1, <2>2 DEF Positions
  <2> QED  BY <2>3 DEF n, q
<1> QED  BY <1>2, <1>3, <1>4, <1>5

\* The ring of a buffer; the first unit that is not acknowledged.
LEMMA Ring ==
  ASSUME NEW b \in Buffers
  PROVE  /\ b.start \in Positions /\ b.ack \in Positions /\ b.max \in Nat
         /\ b.unit \in [Positions -> Units]
         /\ b = [unit |-> b.unit, start |-> b.start, ack |-> b.ack, max |-> b.max]
         /\ RcvDataSize(b) \in Positions
         /\ b.ack = At(b.start, RcvDataSize(b))
         /\ \A j \in Positions : UnitAt(b, j) \in Units
         /\ RcvBufSize \in Nat /\ RcvBufSize >= 2 /\ Positions = 0 .. (RcvBufSize - 1)
<1>1. b.start \in Positions /\ b.ack \in Positions
  BY DEF Buffers
<1>2. RcvDataSize(b) \in Positions /\ b.ack = At(b.start, RcvDataSize(b))
  BY <1>1, Places DEF RcvDataSize
<1>3. \A j \in Positions : UnitAt(b, j) \in Units
  BY <1>1, Places DEF Buffers, UnitAt
<1> QED  BY <1>1, <1>2, <1>3, RcvBufAssumption DEF Buffers, Positions

\* A place beyond the acknowledged units.
LEMMA Ahead ==
  ASSUME NEW b \in Buffers, NEW n \in Nat, RcvDataSize(b) + n < RcvBufSize
  PROVE  At(b.ack, n) = At(b.start, RcvDataSize(b) + n)
<1> DEFINE d == RcvDataSize(b)
           s == b.start
<1>1. /\ d \in Positions /\ s \in Positions /\ b.ack = At(s, d)
      /\ RcvBufSize \in Nat /\ RcvBufSize >= 2
  BY Ring
<1>2. n \in Positions /\ d + n \in Positions
  BY <1>1 DEF Positions
<1>3. b.ack = (IF s + d < RcvBufSize THEN s + d ELSE s + d - RcvBufSize)
  BY <1>1, Places
<1>4. /\ At(b.ack, n) = (IF b.ack + n < RcvBufSize THEN b.ack + n ELSE b.ack + n - RcvBufSize)
      /\ b.ack \in Positions
  BY <1>1, <1>2, Places, Ring
<1>5. At(s, d + n) = (IF s + (d + n) < RcvBufSize THEN s + (d + n)
                      ELSE s + (d + n) - RcvBufSize)
  BY <1>1, <1>2, Places
<1> DEFINE p == At(b.ack, n)
           q == At(s, d + n)
           a == b.ack
<1> HIDE DEF s, d, p, q, a
<1>6. p = (IF a + n < RcvBufSize THEN a + n ELSE a + n - RcvBufSize)
  BY <1>4 DEF p, a
<1>7. a = (IF s + d < RcvBufSize THEN s + d ELSE s + d - RcvBufSize)
  BY <1>3 DEF a
<1>8. q = (IF s + (d + n) < RcvBufSize THEN s + (d + n) ELSE s + (d + n) - RcvBufSize)
  BY <1>5 DEF q
<1>9. d + n < RcvBufSize /\ s \in 0 .. (RcvBufSize - 1) /\ d \in 0 .. (RcvBufSize - 1)
  BY <1>1 DEF d, Positions
<1>10. p = q
  BY <1>1, <1>6, <1>7, <1>8, <1>9
<1> QED  BY <1>10 DEF p, q, s, d

\* addData.
LEMMA AddDataRing ==
  ASSUME NEW b \in Buffers, NEW u \in Units, NEW n \in Nat,
         RcvDataSize(b) + n < RcvBufSize,
         NEW c, c = AddData(b, u, n)
  PROVE  /\ c \in Buffers /\ c.start = b.start /\ c.ack = b.ack
         /\ RcvDataSize(c) = RcvDataSize(b)
         /\ c.max = (IF n > b.max THEN n ELSE b.max)
         /\ \A j \in Positions :
                UnitAt(c, j) = (IF j = RcvDataSize(b) + n THEN u ELSE UnitAt(b, j))
<1> DEFINE d == RcvDataSize(b)
<1>1. /\ b.start \in Positions /\ b.ack \in Positions /\ b.max \in Nat /\ d \in Positions
      /\ b.unit \in [Positions -> Units] /\ RcvBufSize \in Nat
      /\ b = [unit |-> b.unit, start |-> b.start, ack |-> b.ack, max |-> b.max]
  BY Ring
<1>2. d + n \in Positions
  BY <1>1 DEF Positions
<1> DEFINE p == At(b.start, d + n)
<1>3. p \in Positions /\ At(b.ack, n) = p
  BY <1>1, <1>2, Places, Ahead
<1>4. /\ c.unit = [b.unit EXCEPT ![p] = u] /\ c.start = b.start /\ c.ack = b.ack
      /\ c.max = (IF n > b.max THEN n ELSE b.max)
      /\ c = [unit |-> c.unit, start |-> c.start, ack |-> c.ack, max |-> c.max]
  BY <1>1, <1>3 DEF AddData
<1> HIDE DEF p
<1>5. c \in Buffers
  BY <1>1, <1>3, <1>4 DEF Buffers
<1>6. RcvDataSize(c) = d
  BY <1>4 DEF RcvDataSize, FromStart
<1>7. ASSUME NEW j \in Positions
      PROVE  UnitAt(c, j) = IF j = d + n THEN u ELSE UnitAt(b, j)
  <2>1. At(b.start, j) \in Positions /\ (At(b.start, j) = p <=> j = d + n)
    BY <1>1, <1>2, Places DEF p
  <2> QED  BY <1>1, <1>3, <1>4, <2>1 DEF UnitAt
<1> QED  BY <1>4, <1>5, <1>6, <1>7

\* ackData.
LEMMA AckDataRing ==
  ASSUME NEW b \in Buffers, NEW n \in Nat, RcvDataSize(b) + n < RcvBufSize,
         NEW c, c = AckData(b, n)
  PROVE  /\ c \in Buffers /\ c.start = b.start
         /\ RcvDataSize(c) = RcvDataSize(b) + n
         /\ c.max = (IF b.max < n THEN 0 ELSE b.max - n)
         /\ \A j \in Positions : UnitAt(c, j) = UnitAt(b, j)
<1> DEFINE d == RcvDataSize(b)
<1>1. /\ b.start \in Positions /\ b.ack \in Positions /\ b.max \in Nat /\ d \in Positions
      /\ b.unit \in [Positions -> Units] /\ RcvBufSize \in Nat
      /\ b = [unit |-> b.unit, start |-> b.start, ack |-> b.ack, max |-> b.max]
  BY Ring
<1>2. d + n \in Positions
  BY <1>1 DEF Positions
<1>3. At(b.ack, n) = At(b.start, d + n) /\ At(b.ack, n) \in Positions
  BY <1>1, <1>2, Places, Ahead
<1>4. /\ c.unit = b.unit /\ c.start = b.start /\ c.ack = At(b.ack, n)
      /\ c.max = (IF b.max < n THEN 0 ELSE b.max - n)
      /\ c = [unit |-> c.unit, start |-> c.start, ack |-> c.ack, max |-> c.max]
  BY <1>1, Zenon DEF AckData
<1>5. c \in Buffers
  <2>1. c.max \in Nat
    BY <1>1, <1>4
  <2> QED  BY <1>1, <1>3, <1>4, <2>1 DEF Buffers
<1>6. RcvDataSize(c) = d + n
  <2>1. RcvDataSize(c) = FromStart(b, At(b.start, d + n))
    BY <1>3, <1>4 DEF RcvDataSize, FromStart
  <2> QED  BY <1>1, <1>2, <2>1, Places
<1> QED  BY <1>4, <1>5, <1>6 DEF UnitAt

\* ackData, from however far the ring is overrun.
LEMMA AckDataUnits ==
  ASSUME NEW b \in Buffers, NEW n \in Nat
  PROVE  AckData(b, n) \in Buffers /\ AckData(b, n).unit = b.unit
<1>1. PICK c : c = AckData(b, n)
  OBVIOUS
<1>2. /\ b.start \in Positions /\ b.ack \in Positions /\ b.max \in Nat
      /\ b.unit \in [Positions -> Units] /\ RcvBufSize \in Nat /\ RcvBufSize >= 2
      /\ b = [unit |-> b.unit, start |-> b.start, ack |-> b.ack, max |-> b.max]
  BY Ring
<1>3. /\ c.unit = b.unit /\ c.start = b.start /\ c.ack = At(b.ack, n)
      /\ c.max = (IF b.max < n THEN 0 ELSE b.max - n)
      /\ c = [unit |-> c.unit, start |-> c.start, ack |-> c.ack, max |-> c.max]
  BY <1>1, <1>2, Zenon DEF AckData
<1>4. At(b.ack, n) \in Positions
  <2> DEFINE x == b.ack + n
  <2>1. x \in Nat
    BY <1>2 DEF Positions
  <2> HIDE DEF x
  <2>2. x % RcvBufSize \in 0 .. (RcvBufSize - 1)
    BY <1>2, <2>1
  <2> QED  BY <2>2 DEF At, Positions, x
<1>5. c.max \in Nat
  BY <1>2, <1>3
<1> QED  BY <1>1, <1>2, <1>3, <1>4, <1>5 DEF Buffers

\* A buffer whose units have other flags.
LEMMA FlagRing ==
  ASSUME NEW b \in Buffers, NEW flag \in 1 .. 3, NEW S,
         NEW c, c = Flagged(b, S, flag)
  PROVE  /\ c \in Buffers /\ c.start = b.start /\ c.ack = b.ack /\ c.max = b.max
         /\ RcvDataSize(c) = RcvDataSize(b)
         /\ \A j \in Positions :
                UnitAt(c, j) = IF At(b.start, j) \in S THEN [UnitAt(b, j) EXCEPT !.flag = flag]
                               ELSE UnitAt(b, j)
<1>1. /\ b.start \in Positions /\ b.ack \in Positions /\ b.max \in Nat
      /\ b.unit \in [Positions -> Units]
      /\ b = [unit |-> b.unit, start |-> b.start, ack |-> b.ack, max |-> b.max]
  BY Ring
<1> DEFINE units == [p \in Positions |-> IF p \in S THEN [b.unit[p] EXCEPT !.flag = flag]
                                         ELSE b.unit[p]]
<1>2. units \in [Positions -> Units]
  <2>1. ASSUME NEW p \in Positions
        PROVE  [b.unit[p] EXCEPT !.flag = flag] \in Units /\ b.unit[p] \in Units
    BY <1>1 DEF Units
  <2> QED  BY <2>1
<1>3. /\ c.unit = units /\ c.start = b.start /\ c.ack = b.ack /\ c.max = b.max
      /\ c = [unit |-> c.unit, start |-> c.start, ack |-> c.ack, max |-> c.max]
  BY <1>1 DEF Flagged
<1>4. c \in Buffers
  <2> HIDE DEF units
  <2> QED  BY <1>1, <1>2, <1>3 DEF Buffers
<1>5. RcvDataSize(c) = RcvDataSize(b)
  BY <1>3 DEF RcvDataSize, FromStart
<1>6. ASSUME NEW j \in Positions
      PROVE  UnitAt(c, j) = IF At(b.start, j) \in S THEN [UnitAt(b, j) EXCEPT !.flag = flag]
                            ELSE UnitAt(b, j)
  <2>1. At(b.start, j) \in Positions
    BY <1>1, Places
  <2> QED  BY <1>3, <2>1 DEF UnitAt
<1> QED  BY <1>3, <1>4, <1>5, <1>6

\* Units given back from the start on.
LEMMA FreedRing ==
  ASSUME NEW b \in Buffers, NEW n \in 0 .. RcvDataSize(b), NEW c, c = Freed(b, n)
  PROVE  /\ c \in Buffers /\ c.max = b.max
         /\ RcvDataSize(c) = RcvDataSize(b) - n
         /\ \A j \in Positions :
                UnitAt(c, j) = IF j + n < RcvBufSize THEN UnitAt(b, j + n) ELSE NoUnit
<1> DEFINE d == RcvDataSize(b)
           s == b.start
           t == At(s, n)
           units == [p \in Positions |-> IF FromStart(b, p) < n THEN NoUnit ELSE b.unit[p]]
<1>1. /\ s \in Positions /\ b.ack \in Positions /\ b.max \in Nat /\ d \in Positions
      /\ b.unit \in [Positions -> Units] /\ RcvBufSize \in Nat /\ RcvBufSize >= 2
      /\ b = [unit |-> b.unit, start |-> s, ack |-> b.ack, max |-> b.max]
      /\ b.ack = At(s, d)
  BY Ring
<1>2. n \in Positions /\ n \in Nat /\ n <= d
  BY <1>1 DEF Positions
<1>3. t \in Positions
  BY <1>1, <1>2, Places
<1>4. units \in [Positions -> Units]
  <2>1. NoUnit \in Units
    BY DEF NoUnit, Units
  <2> QED  BY <1>1, <2>1
<1>5. /\ c.unit = units /\ c.start = t /\ c.ack = b.ack /\ c.max = b.max
      /\ c = [unit |-> c.unit, start |-> c.start, ack |-> c.ack, max |-> c.max]
  BY <1>1 DEF Freed
<1>6. c \in Buffers
  <2> HIDE DEF units, t
  <2> QED  BY <1>1, <1>3, <1>4, <1>5 DEF Buffers
<1>7. /\ t = (IF s + n < RcvBufSize THEN s + n ELSE s + n - RcvBufSize)
      /\ b.ack = (IF s + d < RcvBufSize THEN s + d ELSE s + d - RcvBufSize)
  BY <1>1, <1>2, Places
<1>8. RcvDataSize(c) = d - n
  <2>1. RcvDataSize(c) = (IF b.ack >= t THEN b.ack - t ELSE b.ack - t + RcvBufSize)
    BY <1>1, <1>3, <1>5, Places DEF RcvDataSize
  <2> HIDE DEF t, d, s
  <2> QED  BY SMTT(30), <1>1, <1>2, <1>7, <2>1 DEF Positions
<1>9. ASSUME NEW j \in Positions
      PROVE  UnitAt(c, j) = IF j + n < RcvBufSize THEN UnitAt(b, j + n) ELSE NoUnit
  <2> DEFINE q == At(t, j)
             i == IF j + n < RcvBufSize THEN j + n ELSE j + n - RcvBufSize
  <2>1. /\ q \in Positions
        /\ q = (IF t + j < RcvBufSize THEN t + j ELSE t + j - RcvBufSize)
    BY <1>1, <1>3, Places
  <2>2. i \in Positions
    BY <1>1, <1>2 DEF Positions
  <2>3. At(s, i) = (IF s + i < RcvBufSize THEN s + i ELSE s + i - RcvBufSize)
    <3> HIDE DEF i
    <3> QED  BY <1>1, <2>2, Places
  <2>4. q = At(s, i)
    <3> DEFINE r == At(s, i)
    <3>1. r = (IF s + i < RcvBufSize THEN s + i ELSE s + i - RcvBufSize)
      BY <2>3
    <3>2. s \in 0 .. (RcvBufSize - 1) /\ j \in 0 .. (RcvBufSize - 1)
      BY <1>1 DEF Positions
    <3>3. n \in 0 .. (RcvBufSize - 1)
      BY <1>2 DEF Positions
    <3> HIDE DEF t, s, q, r
    <3>4. q = r
      BY <1>1, <1>7, <2>1, <3>1, <3>2, <3>3
    <3> QED  BY <3>4 DEF r
  <2>5. FromStart(b, q) = i
    <3> HIDE DEF i, q
    <3> QED  BY <1>1, <2>2, <2>4, Places
  <2>6. UnitAt(c, j) = IF i < n THEN NoUnit ELSE b.unit[At(s, i)]
    <3> HIDE DEF i, t
    <3> QED  BY <1>5, <2>1, <2>4, <2>5 DEF UnitAt
  <2>7. i < n <=> ~(j + n < RcvBufSize)
    BY <1>1, <1>2 DEF Positions
  <2> QED  BY <2>6, <2>7 DEF UnitAt
<1> QED  BY <1>5, <1>6, <1>8, <1>9

-----------------------------------------------------------------------------
(* The ring, by its numbers.                                               *)

\* The unit of a number, when the unit at the start has number s.
UnitNo(b, s, seq) == IF seq - s \in Positions THEN UnitAt(b, seq - s) ELSE NoUnit

\* Message k has been read.
ReadWhole(r, k) == \E i \in DOMAIN r : r[i] = written[k].blocks

\* A drop request named a part of message k.
Doomed(k) == \E block \in FirstOf(k) .. LastOf(k) : DropRequested(block)

\* A unit is what A made of the block; a unit read ahead of the acknowledgement
\* is part of a message read, a dropped one of a message a drop request names.
UnitFits(u, block, r) ==
    /\ block \in Blocks
    /\ u.block = block /\ u.msg = MessageOf(block) /\ u.boundary = Boundary(block)
    /\ u.order = written[MessageOf(block)].order
    /\ u.flag \in {Good, ReadEarly, Dropped}
    /\ u.flag = ReadEarly => ReadWhole(r, MessageOf(block))
    /\ u.flag = Dropped => Doomed(MessageOf(block))

\* Whatever is stored has a place between the start and the end.
RingOK(b, s) ==
    /\ b \in Buffers /\ RcvDataSize(b) + b.max < RcvBufSize
    /\ s \in Nat \ {0}

\* Every unit of the ring is what A made of the block with its number.
UnitsFit(b, s, r) ==
    \A seq \in Int : UnitNo(b, s, seq) # NoUnit => UnitFits(UnitNo(b, s, seq), seq, r)

\* What is acknowledged and neither stored nor given back was dropped.
AckedKept(b, s) ==
    \A seq \in s .. (s + RcvDataSize(b) - 1) :
        UnitNo(b, s, seq) = NoUnit => DropRequested(seq)

\* A message whose first unit is given back was read or can never be.
GoneEnded(s, r) ==
    \A k \in DOMAIN written : FirstOf(k) < s => Doomed(k) \/ ReadWhole(r, k)

\* A message that was read cannot be found again, nor, when it had to be in
\* order, one before it.
ReadMarked(b, s, r) ==
    \A k \in DOMAIN written :
        ReadWhole(r, k) =>
            /\ \A block \in FirstOf(k) .. LastOf(k) :
                   \/ block < s
                   \/ UnitNo(b, s, block) # NoUnit /\ UnitNo(b, s, block).flag # Good
            /\ written[k].order => LastOf(k) < s

\* The ring between the calls of the reader.
RingBase(b, s, r) ==
    RingOK(b, s) /\ UnitsFit(b, s, r) /\ AckedKept(b, s) /\ GoneEnded(s, r)

\* The ring b whose start has number s, when the messages of r have been read.
RingInv(b, s, r) == RingBase(b, s, r) /\ ReadMarked(b, s, r)

\* The loss list is what is missing.
LossInv(b, s, loss, curr) ==
    /\ \A seq \in Int : UnitNo(b, s, seq) # NoUnit => seq <= curr /\ seq \notin loss
    /\ \A seq \in s .. curr :
           UnitNo(b, s, seq) = NoUnit => seq \in loss \/ DropRequested(seq)

\* The units of the numbers.
LEMMA UnitNumbers ==
  ASSUME NEW b \in Buffers, NEW s \in Int
  PROVE  /\ \A seq \in Int : UnitNo(b, s, seq) \in Units
         /\ \A j \in Positions : UnitNo(b, s, s + j) = UnitAt(b, j)
         /\ \A seq \in Int : UnitNo(b, s, seq) # NoUnit =>
                /\ s <= seq /\ seq < s + RcvBufSize
                /\ seq - s \in Positions /\ UnitNo(b, s, seq) = UnitAt(b, seq - s)
<1>1. NoUnit \in Units
  BY DEF NoUnit, Units
<1>2. /\ Positions = 0 .. (RcvBufSize - 1) /\ RcvBufSize \in Nat
      /\ \A j \in Positions : UnitAt(b, j) \in Units
  BY Ring
<1>3. ASSUME NEW j \in Positions
      PROVE  UnitNo(b, s, s + j) = UnitAt(b, j)
  <2> DEFINE x == (s + j) - s
  <2>1. x = j
    BY <1>2
  <2>2. UnitNo(b, s, s + j) = IF x \in Positions THEN UnitAt(b, x) ELSE NoUnit
    BY DEF UnitNo
  <2> HIDE DEF x
  <2> QED  BY <2>1, <2>2
<1>4. \A seq \in Int : seq - s \in Positions => s <= seq /\ seq < s + RcvBufSize
  BY <1>2
<1> QED  BY <1>1, <1>2, <1>3, <1>4 DEF UnitNo

\* A unit stored at a number's place.
LEMMA AddDataNumbers ==
  ASSUME NEW b \in Buffers, NEW s \in Int, NEW u \in Units, NEW n \in Nat,
         RcvDataSize(b) + n < RcvBufSize,
         NEW c, c = AddData(b, u, n)
  PROVE  \A seq \in Int : UnitNo(c, s, seq) = IF seq = s + RcvDataSize(b) + n THEN u
                                              ELSE UnitNo(b, s, seq)
<1> SUFFICES ASSUME NEW seq \in Int
             PROVE  UnitNo(c, s, seq) = IF seq = s + RcvDataSize(b) + n THEN u
                                        ELSE UnitNo(b, s, seq)
  OBVIOUS
<1> DEFINE d == RcvDataSize(b)
<1>1. d \in Positions /\ RcvBufSize \in Nat /\ Positions = 0 .. (RcvBufSize - 1)
  BY Ring
<1>2. \A j \in Positions : UnitAt(c, j) = IF j = d + n THEN u ELSE UnitAt(b, j)
  BY AddDataRing
<1> HIDE DEF d
<1>3. d + n \in Positions
  BY <1>1 DEF d
<1>4. seq - s = d + n <=> seq = s + d + n
  BY <1>1
<1> QED  BY <1>2, <1>3, <1>4 DEF UnitNo, d

\* Units given back.
LEMMA FreedNumbers ==
  ASSUME NEW b \in Buffers, NEW s \in Int, NEW n \in 0 .. RcvDataSize(b),
         NEW c, c = Freed(b, n)
  PROVE  \A seq \in Int : UnitNo(c, s + n, seq) = IF seq < s + n THEN NoUnit
                                                  ELSE UnitNo(b, s, seq)
<1> SUFFICES ASSUME NEW seq \in Int
             PROVE  UnitNo(c, s + n, seq) = IF seq < s + n THEN NoUnit
                                            ELSE UnitNo(b, s, seq)
  OBVIOUS
<1>1. /\ RcvDataSize(b) \in Positions /\ RcvBufSize \in Nat
      /\ Positions = 0 .. (RcvBufSize - 1)
  BY Ring
<1>2. n \in Nat /\ n < RcvBufSize
  BY <1>1
<1> DEFINE j == seq - (s + n)
<1>3. j \in Int /\ j + n = seq - s /\ (seq < s + n <=> j < 0)
  BY <1>2
<1>4. \A i \in Positions :
          UnitAt(c, i) = IF i + n < RcvBufSize THEN UnitAt(b, i + n) ELSE NoUnit
  BY FreedRing
<1>5. UnitNo(c, s + n, seq) = (IF j \in Positions THEN UnitAt(c, j) ELSE NoUnit)
  BY DEF UnitNo
<1>6. UnitNo(b, s, seq) = (IF j + n \in Positions THEN UnitAt(b, j + n) ELSE NoUnit)
  BY <1>3 DEF UnitNo
<1> HIDE DEF j
<1>7. CASE j \in Positions
  <2>1. j >= 0 /\ (j + n < RcvBufSize <=> j + n \in Positions)
    BY <1>1, <1>2, <1>7
  <2> QED  BY <1>1, <1>2, <1>3, <1>4, <1>5, <1>6, <1>7, <2>1
<1>8. CASE j \notin Positions
  <2>1. j < 0 \/ j + n \notin Positions
    BY <1>1, <1>2, <1>3, <1>8
  <2> QED  BY <1>3, <1>5, <1>6, <1>8, <2>1
<1> QED  BY <1>7, <1>8

\* A flag that is set at some places.
LEMMA FlagNumbers ==
  ASSUME NEW b \in Buffers, NEW s \in Int, NEW flag \in 1 .. 3, NEW S,
         NEW c, c = Flagged(b, S, flag)
  PROVE  \A seq \in Int :
             UnitNo(c, s, seq) = IF seq - s \in Positions /\ At(b.start, seq - s) \in S
                                 THEN [UnitNo(b, s, seq) EXCEPT !.flag = flag]
                                 ELSE UnitNo(b, s, seq)
<1>1. \A j \in Positions :
          UnitAt(c, j) = IF At(b.start, j) \in S THEN [UnitAt(b, j) EXCEPT !.flag = flag]
                         ELSE UnitAt(b, j)
  BY FlagRing
<1> QED  BY <1>1 DEF UnitNo

\* What a unit in the ring says.
LEMMA StoredUnit ==
  ASSUME WrittenOK, NEW b, NEW s, NEW r, RingOK(b, s), UnitsFit(b, s, r),
         NEW j \in Positions, UnitAt(b, j) # NoUnit,
         NEW k, k = MessageOf(s + j)
  PROVE  /\ s + j \in Blocks /\ k \in DOMAIN written /\ In(s + j, k)
         /\ UnitAt(b, j).block = s + j /\ UnitAt(b, j).order = written[k].order
         /\ UnitAt(b, j).msg = k
         /\ IsHead(b, At(b.start, j)) <=> s + j = FirstOf(k)
         /\ IsTail(b, At(b.start, j)) <=> s + j = LastOf(k)
         /\ IsGood(b, At(b.start, j)) \/ Doomed(k) \/ ReadWhole(r, k)
<1>1. b \in Buffers /\ s \in Int /\ s + j \in Int
  BY Ring DEF RingOK, Positions
<1>2. UnitNo(b, s, s + j) = UnitAt(b, j)
  BY <1>1, UnitNumbers
<1> DEFINE u == UnitAt(b, j)
<1>3. UnitFits(u, s + j, r)
  BY <1>1, <1>2 DEF UnitsFit
<1>4. s + j \in Blocks /\ k \in DOMAIN written /\ In(s + j, k)
  BY <1>3, OfBlock DEF UnitFits
<1>5. /\ u.block = s + j /\ u.msg = k /\ u.boundary = Boundary(s + j)
      /\ u.order = written[k].order
      /\ u.flag = Good \/ u.flag = ReadEarly \/ u.flag = Dropped
      /\ u.flag = ReadEarly => ReadWhole(r, k)
      /\ u.flag = Dropped => Doomed(k)
  BY <1>3 DEF UnitFits
<1>6. /\ Boundary(s + j) \in {First, Only} <=> s + j = FirstOf(k)
      /\ Boundary(s + j) \in {Last, Only} <=> s + j = LastOf(k)
  BY <1>4, Boundaries
<1>7. u = b.unit[At(b.start, j)]
  BY DEF UnitAt
<1> HIDE DEF u
<1>8. /\ IsHead(b, At(b.start, j)) <=> s + j = FirstOf(k)
      /\ IsTail(b, At(b.start, j)) <=> s + j = LastOf(k)
      /\ IsGood(b, At(b.start, j)) <=> u.flag = Good
  <2>1. /\ IsHead(b, At(b.start, j)) <=> u.boundary \in {First, Only}
        /\ IsTail(b, At(b.start, j)) <=> u.boundary \in {Last, Only}
        /\ IsGood(b, At(b.start, j)) <=> u.flag = Good
    BY <1>7 DEF IsHead, IsTail, IsGood
  <2> QED  BY <1>5, <1>6, <2>1
<1>9. /\ UnitAt(b, j).block = s + j /\ UnitAt(b, j).order = written[k].order
      /\ UnitAt(b, j).msg = k
  BY <1>5 DEF u
<1>10. IsGood(b, At(b.start, j)) \/ Doomed(k) \/ ReadWhole(r, k)
  BY <1>5, <1>8
<1> QED  BY <1>4, <1>8, <1>9, <1>10

\* What an empty place says.
LEMMA EmptyPlace ==
  ASSUME NEW b, NEW j, UnitAt(b, j) = NoUnit
  PROVE  /\ ~IsGood(b, At(b.start, j)) /\ ~IsHead(b, At(b.start, j))
         /\ ~IsTail(b, At(b.start, j))
BY DEF UnitAt, NoUnit, IsGood, IsHead, IsTail, Good, First, Only, Last

\* An empty place among the acknowledged ones, or a marked one, ends its message.
LEMMA NotGood ==
  ASSUME WrittenOK, NEW b, NEW s, NEW r, RingOK(b, s), UnitsFit(b, s, r), AckedKept(b, s),
         NEW k \in DOMAIN written, NEW j \in Positions, j < RcvDataSize(b), In(s + j, k),
         ~IsGood(b, At(b.start, j))
  PROVE  Doomed(k) \/ ReadWhole(r, k)
<1>1. b \in Buffers /\ s \in Int /\ s + j \in Int /\ RcvDataSize(b) \in Int /\ j \in Nat
  BY Ring DEF RingOK, Positions
<1>2. CASE UnitAt(b, j) = NoUnit
  <2>1. UnitNo(b, s, s + j) = NoUnit
    BY <1>1, <1>2, UnitNumbers
  <2>2. s + j \in s .. (s + RcvDataSize(b) - 1)
    BY <1>1
  <2>3. DropRequested(s + j)
    BY <2>1, <2>2 DEF AckedKept
  <2>4. s + j \in FirstOf(k) .. LastOf(k)
    BY <1>1, MessageFacts DEF In
  <2> QED  BY <2>3, <2>4 DEF Doomed
<1>3. CASE UnitAt(b, j) # NoUnit
  <2>1. MessageOf(s + j) = k
    BY <1>1, MessageIs
  <2> QED  BY <1>3, <2>1, StoredUnit
<1> QED  BY <1>2, <1>3

\* A message scanMsg gives up was read, or a drop request names a part of it.
LEMMA KeptNot ==
  ASSUME WrittenOK, NEW b, NEW s, NEW r, RingOK(b, s), UnitsFit(b, s, r), AckedKept(b, s),
         NEW k \in DOMAIN written, NEW i \in Nat, i < RcvDataSize(b), FirstOf(k) = s + i,
         ~Kept(b, i)
  PROVE  Doomed(k) \/ ReadWhole(r, k)
<1> DEFINE d == RcvDataSize(b)
<1>1. b \in Buffers /\ s \in Int /\ d \in Int /\ d \in Positions
      /\ RcvBufSize \in Nat /\ Positions = 0 .. (RcvBufSize - 1)
  BY Ring DEF RingOK, Positions
<1>2. \A j \in 0 .. (d - 1) : j \in Positions
  BY <1>1
<1>3. FirstOf(k) \in Nat /\ LastOf(k) \in Nat /\ FirstOf(k) <= LastOf(k)
  BY MessageFacts
<1>4. SUFFICES ASSUME \A j \in i .. (d - 1) : In(s + j, k) => IsGood(b, At(b.start, j))
               PROVE  FALSE
  <2>1. \A j \in i .. (d - 1) : j \in Positions /\ j < d
    BY <1>1
  <2> QED  BY <2>1, NotGood
<1>5. i \in Positions /\ In(s + i, k) /\ i \in i .. (d - 1) /\ i \in 0 .. (d - 1)
  BY <1>1, <1>3 DEF In
<1>6. IsGood(b, At(b.start, i))
  BY <1>4, <1>5
<1>7. UnitAt(b, i) # NoUnit
  BY <1>6, EmptyPlace
<1>8. MessageOf(s + i) = k
  BY <1>1, <1>5, MessageIs
<1>9. IsHead(b, At(b.start, i))
  BY <1>5, <1>7, <1>8, StoredUnit
<1>10. ~WholeFrom(b, i)
  BY <1>6, <1>9 DEF Kept
<1>11. PICK j \in i .. (d - 1) : /\ ~IsGood(b, At(b.start, j))
                                 /\ \A n \in i .. (j - 1) : ~IsTail(b, At(b.start, n))
  BY <1>10 DEF WholeFrom
<1>12. ~In(s + j, k)
  BY <1>4, <1>11
<1> DEFINE t == LastOf(k) - s
<1>13. t \in Int /\ s + t = LastOf(k) /\ t >= i /\ t <= j - 1 /\ j \in Int /\ i \in Int
  BY <1>1, <1>3, <1>12 DEF In
<1> HIDE DEF t
<1>14. t \in i .. (j - 1) /\ t \in i .. (d - 1) /\ t \in 0 .. (d - 1) /\ In(s + t, k)
  BY <1>1, <1>3, <1>13 DEF In
<1>15. IsGood(b, At(b.start, t)) /\ t \in Positions
  BY <1>2, <1>4, <1>14
<1>16. UnitAt(b, t) # NoUnit
  BY <1>15, EmptyPlace
<1>17. MessageOf(s + t) = k
  BY <1>1, <1>13, <1>14, MessageIs
<1>18. IsTail(b, At(b.start, t))
  BY <1>13, <1>15, <1>16, <1>17, StoredUnit
<1> QED  BY <1>11, <1>14, <1>18

\* What scanMsg gives back: units of messages that can never be read.
LEMMA Prefix ==
  ASSUME NEW b \in Buffers
  PROVE  /\ BadPrefix(b) \in 0 .. RcvDataSize(b)
         /\ BadPrefix(b) = RcvDataSize(b) \/ Kept(b, BadPrefix(b))
         /\ \A i \in 0 .. (BadPrefix(b) - 1) : ~Kept(b, i)
<1> DEFINE d == RcvDataSize(b)
           S == {n \in 0 .. d : n = d \/ Kept(b, n)}
<1>1. d \in Nat
  BY Ring DEF Positions
<1>2. d \in S /\ S \in SUBSET Int /\ S \subseteq 0 .. d
  BY <1>1
<1>3. IsFiniteSet(S)
  <2> HIDE DEF S
  <2>1. IsFiniteSet(0 .. d)
    BY <1>1, FS_Interval
  <2> QED  BY <1>2, <2>1, FS_Subset
<1>4. PICK m \in S : \A n \in S : m <= n
  <2> HIDE DEF S
  <2> QED  BY <1>2, <1>3, LeastOf
<1>5. \A i \in 0 .. (m - 1) : ~Kept(b, i)
  <2> SUFFICES ASSUME NEW i \in 0 .. (m - 1), Kept(b, i)
               PROVE  FALSE
    OBVIOUS
  <2>1. m \in Nat /\ m <= d /\ i \in Nat /\ i < m
    BY <1>1
  <2>2. i \in 0 .. d
    BY <1>1, <2>1
  <2>3. i \in S
    BY <2>2
  <2> QED  BY <1>4, <2>1, <2>3
<1>6. \E n \in 0 .. d : /\ n = d \/ Kept(b, n)
                        /\ \A i \in 0 .. (n - 1) : ~Kept(b, i)
  <2>1. m \in 0 .. d /\ (m = d \/ Kept(b, m))
    BY <1>4
  <2> QED  BY <1>5, <2>1
<1> QED  BY <1>6 DEF BadPrefix

-----------------------------------------------------------------------------
(* scanMsg.                                                                *)

\* Units given back, of messages that were read or can never be.
LEMMA FreeKeeps ==
  ASSUME WrittenOK, NEW b, NEW s, NEW r, RingBase(b, s, r), NEW n \in 0 .. RcvDataSize(b),
         \A k \in DOMAIN written :
             s <= FirstOf(k) /\ FirstOf(k) < s + n => Doomed(k) \/ ReadWhole(r, k),
         NEW c, c = Freed(b, n)
  PROVE  /\ RingBase(c, s + n, r) /\ RcvDataSize(c) = RcvDataSize(b) - n /\ c.max = b.max
         /\ \A seq \in Int : UnitNo(c, s + n, seq) = IF seq < s + n THEN NoUnit
                                                     ELSE UnitNo(b, s, seq)
<1>1. /\ b \in Buffers /\ s \in Nat \ {0} /\ s \in Int /\ RcvDataSize(b) + b.max < RcvBufSize
      /\ RcvDataSize(b) \in Nat /\ n \in Nat /\ n <= RcvDataSize(b) /\ b.max \in Nat
      /\ RcvBufSize \in Nat /\ RcvDataSize(b) \in Int
  BY Ring DEF RingBase, RingOK, Positions
<1>2. c \in Buffers /\ c.max = b.max /\ RcvDataSize(c) = RcvDataSize(b) - n
  BY <1>1, FreedRing
<1>3. \A seq \in Int : UnitNo(c, s + n, seq) = IF seq < s + n THEN NoUnit
                                               ELSE UnitNo(b, s, seq)
  BY <1>1, FreedNumbers
<1>4. RingOK(c, s + n)
  BY <1>1, <1>2 DEF RingOK
<1>5. UnitsFit(c, s + n, r)
  BY <1>3 DEF UnitsFit, RingBase
<1>6. AckedKept(c, s + n)
  <2> SUFFICES ASSUME NEW seq \in (s + n) .. (s + n + RcvDataSize(c) - 1),
                      UnitNo(c, s + n, seq) = NoUnit
               PROVE  DropRequested(seq)
    BY DEF AckedKept
  <2>1. seq \in s .. (s + RcvDataSize(b) - 1) /\ seq \in Int /\ ~(seq < s + n)
    BY <1>1, <1>2
  <2>2. UnitNo(b, s, seq) = NoUnit
    BY <1>3, <2>1
  <2> QED  BY <2>1, <2>2 DEF AckedKept, RingBase
<1>7. GoneEnded(s + n, r)
  <2> SUFFICES ASSUME NEW k \in DOMAIN written, FirstOf(k) < s + n
               PROVE  Doomed(k) \/ ReadWhole(r, k)
    BY DEF GoneEnded
  <2>1. FirstOf(k) < s \/ s <= FirstOf(k)
    BY <1>1, MessageFacts
  <2> QED  BY <2>1 DEF GoneEnded, RingBase
<1> QED  BY <1>2, <1>3, <1>4, <1>5, <1>6, <1>7 DEF RingBase

\* What was read stays marked, or is given back.
LEMMA FreeKeepsRead ==
  ASSUME WrittenOK, NEW b, NEW s \in Int, NEW r, ReadMarked(b, s, r), NEW n \in Nat, NEW c,
         \A seq \in Int : UnitNo(c, s + n, seq) = IF seq < s + n THEN NoUnit
                                                  ELSE UnitNo(b, s, seq)
  PROVE  ReadMarked(c, s + n, r)
<1> SUFFICES ASSUME NEW k \in DOMAIN written, ReadWhole(r, k)
             PROVE  /\ \A block \in FirstOf(k) .. LastOf(k) :
                           \/ block < s + n
                           \/ /\ UnitNo(c, s + n, block) # NoUnit
                              /\ UnitNo(c, s + n, block).flag # Good
                    /\ written[k].order => LastOf(k) < s + n
  BY DEF ReadMarked
<1>1. /\ \A block \in FirstOf(k) .. LastOf(k) :
             \/ block < s
             \/ UnitNo(b, s, block) # NoUnit /\ UnitNo(b, s, block).flag # Good
      /\ written[k].order => LastOf(k) < s
  BY DEF ReadMarked
<1>2. FirstOf(k) \in Nat /\ LastOf(k) \in Nat
  BY MessageFacts
<1>3. ASSUME NEW block \in FirstOf(k) .. LastOf(k), ~(block < s + n)
      PROVE  UnitNo(c, s + n, block) # NoUnit /\ UnitNo(c, s + n, block).flag # Good
  <2>1. block \in Int /\ ~(block < s)
    BY <1>2, <1>3
  <2>2. UnitNo(c, s + n, block) = UnitNo(b, s, block)
    BY <1>3, <2>1
  <2> QED  BY <1>1, <2>1, <2>2
<1>4. LastOf(k) < s => LastOf(k) < s + n
  BY <1>2
<1> QED  BY <1>1, <1>3, <1>4

\* The loss list is as true as before.
LEMMA FreeKeepsLoss ==
  ASSUME NEW b, NEW s \in Int, NEW loss, NEW curr \in Nat,
         LossInv(b, s, loss, curr),
         NEW n \in Nat, NEW c,
         \A seq \in Int : UnitNo(c, s + n, seq) = IF seq < s + n THEN NoUnit
                                                  ELSE UnitNo(b, s, seq)
  PROVE  LossInv(c, s + n, loss, curr)
<1>1. ASSUME NEW seq \in Int, UnitNo(c, s + n, seq) # NoUnit
      PROVE  seq <= curr /\ seq \notin loss
  BY <1>1 DEF LossInv
<1>2. ASSUME NEW seq \in (s + n) .. curr, UnitNo(c, s + n, seq) = NoUnit
      PROVE  seq \in loss \/ DropRequested(seq)
  <2>1. seq \in Int /\ seq \in s .. curr /\ ~(seq < s + n)
    OBVIOUS
  <2>2. UnitNo(b, s, seq) = NoUnit
    BY <1>2, <2>1
  <2> QED  BY <2>1, <2>2 DEF LossInv
<1> QED  BY <1>1, <1>2 DEF LossInv

\* How scanMsg leaves the ring: at its start is a message to be found there as far
\* as it is acknowledged, or nothing acknowledged.
Settled(b) == RcvDataSize(b) = 0 \/ Kept(b, 0)

\* A message that starts at the new start was to be found before.
LEMMA KeptMoves ==
  ASSUME NEW b \in Buffers, NEW n \in Nat, n < RcvDataSize(b), Kept(b, n),
         NEW c, c = Freed(b, n)
  PROVE  Kept(c, 0)
<1> DEFINE d == RcvDataSize(b)
<1>1. d \in Nat /\ d < RcvBufSize /\ RcvBufSize \in Nat /\ Positions = 0 .. (RcvBufSize - 1)
  BY Ring
<1>2. n \in 0 .. d
  BY <1>1
<1>3. /\ RcvDataSize(c) = d - n
      /\ \A j \in Positions :
             UnitAt(c, j) = IF j + n < RcvBufSize THEN UnitAt(b, j + n) ELSE NoUnit
  BY <1>2, FreedRing
<1> HIDE DEF d
<1>4. ASSUME NEW j \in 0 .. (d - n - 1)
      PROVE  UnitAt(c, j) = UnitAt(b, j + n)
  <2>1. j \in Positions /\ j + n < RcvBufSize
    BY <1>1, <1>2
  <2> QED  BY <1>3, <2>1
<1>5. ASSUME NEW j \in 0 .. (d - n - 1)
      PROVE  /\ IsGood(c, At(c.start, j)) <=> IsGood(b, At(b.start, j + n))
             /\ IsHead(c, At(c.start, j)) <=> IsHead(b, At(b.start, j + n))
             /\ IsTail(c, At(c.start, j)) <=> IsTail(b, At(b.start, j + n))
  BY <1>4 DEF UnitAt, IsGood, IsHead, IsTail
<1>6. 0 \in 0 .. (d - n - 1) /\ 0 + n = n
  BY <1>1, <1>2 DEF d
<1>7. /\ IsGood(b, At(b.start, n)) /\ IsHead(b, At(b.start, n))
      /\ WholeFrom(b, n)
  BY DEF Kept
<1>8. ASSUME NEW j \in 0 .. (d - n - 1)
      PROVE  \/ IsGood(c, At(c.start, j))
             \/ \E k \in 0 .. (j - 1) : IsTail(c, At(c.start, k))
  <2>1. j + n \in n .. (d - 1) /\ j \in Nat
    BY <1>1, <1>2
  <2>2. CASE IsGood(b, At(b.start, j + n))
    BY <1>5, <2>2
  <2>3. CASE ~IsGood(b, At(b.start, j + n))
    <3>1. PICK k \in n .. (j + n - 1) : IsTail(b, At(b.start, k))
      <4>1. \A i \in n .. (d - 1) :
                \/ IsGood(b, At(b.start, i))
                \/ \E k \in n .. (i - 1) : IsTail(b, At(b.start, k))
        BY <1>7 DEF WholeFrom, d
      <4> QED  BY <2>1, <2>3, <4>1
    <3>2. PICK m \in Nat : k = m + n /\ m <= j - 1
      <4>1. k - n \in Nat /\ k = (k - n) + n /\ k - n <= j - 1
        BY <2>1
      <4> QED  BY <4>1
    <3>3. m \in 0 .. (d - n - 1) /\ m \in 0 .. (j - 1)
      BY <1>1, <1>2, <2>1, <3>2
    <3> QED  BY <1>5, <3>1, <3>2, <3>3
  <2> QED  BY <2>2, <2>3
<1>9. WholeFrom(c, 0)
  <2>1. RcvDataSize(c) - 1 = d - n - 1
    BY <1>1, <1>3, <1>2
  <2> QED  BY <1>8, <2>1 DEF WholeFrom
<1>10. IsGood(c, At(c.start, 0)) /\ IsHead(c, At(c.start, 0))
  BY <1>5, <1>6, <1>7
<1> QED  BY <1>9, <1>10 DEF Kept

\* scanMsg keeps the ring true, and settles it.
LEMMA ScanKeeps ==
  ASSUME WrittenOK, NEW b, NEW s, NEW r, RingInv(b, s, r),
         NEW loss, NEW curr \in Nat, LossInv(b, s, loss, curr),
         NEW c, c = Scanned(b)
  PROVE  \E n \in 0 .. RcvDataSize(b) :
             /\ RingInv(c, s + n, r) /\ LossInv(c, s + n, loss, curr)
             /\ RcvDataSize(c) = RcvDataSize(b) - n
             /\ Settled(c)
<1>1. /\ b \in Buffers /\ s \in Nat \ {0} /\ s \in Int /\ RcvDataSize(b) \in Nat
      /\ RcvDataSize(b) < RcvBufSize /\ RcvBufSize \in Nat
      /\ Positions = 0 .. (RcvBufSize - 1) /\ b.start \in Positions
  BY Ring DEF RingInv, RingBase, RingOK, Positions
<1>2. CASE b.start = b.ack /\ b.max = 0
  <2>1. c = b
    BY <1>2 DEF Scanned
  <2>2. RcvDataSize(b) = 0
    <3>1. FromStart(b, b.start) = 0
      <4>1. b.start \in Int /\ b.start >= b.start /\ b.start - b.start = 0
        BY <1>1
      <4> QED  BY <1>1, <4>1, Places
    <3> QED  BY <1>2, <3>1 DEF RcvDataSize
  <2>3. s + 0 = s /\ RcvDataSize(b) - 0 = RcvDataSize(b) /\ 0 \in 0 .. RcvDataSize(b)
    BY <1>1
  <2> QED  BY <2>1, <2>2, <2>3 DEF Settled
<1>3. CASE ~(b.start = b.ack /\ b.max = 0)
  <2>1. PICK n : n = BadPrefix(b)
    OBVIOUS
  <2>2. /\ n \in 0 .. RcvDataSize(b) /\ n \in Nat
        /\ n = RcvDataSize(b) \/ Kept(b, n)
        /\ \A i \in 0 .. (n - 1) : ~Kept(b, i)
    BY <1>1, <2>1, Prefix
  <2>3. c = Freed(b, n)
    BY <1>3, <2>1 DEF Scanned
  <2>4. ASSUME NEW k \in DOMAIN written, s <= FirstOf(k), FirstOf(k) < s + n
        PROVE  Doomed(k) \/ ReadWhole(r, k)
    <3>1. PICK i \in Nat : FirstOf(k) = s + i
      <4>1. FirstOf(k) - s \in Nat /\ FirstOf(k) = s + (FirstOf(k) - s)
        BY SMTT(30), <1>1, <2>4, MessageFacts
      <4> QED  BY <4>1
    <3>2. i \in 0 .. (n - 1) /\ i < RcvDataSize(b)
      BY <1>1, <2>2, <2>4, <3>1
    <3>3. ~Kept(b, i)
      BY <2>2, <3>2
    <3> QED  BY <3>1, <3>2, <3>3, KeptNot DEF RingInv, RingBase
  <2>5. RingBase(b, s, r) /\ ReadMarked(b, s, r)
    BY DEF RingInv
  <2>6. /\ RingBase(c, s + n, r) /\ RcvDataSize(c) = RcvDataSize(b) - n /\ c.max = b.max
        /\ \A seq \in Int : UnitNo(c, s + n, seq) = IF seq < s + n THEN NoUnit
                                                    ELSE UnitNo(b, s, seq)
    BY <2>2, <2>3, <2>4, <2>5, FreeKeeps
  <2>7. ReadMarked(c, s + n, r) /\ LossInv(c, s + n, loss, curr)
    BY <1>1, <2>2, <2>5, <2>6, FreeKeepsRead, FreeKeepsLoss
  <2>8. Settled(c)
    <3>1. CASE n = RcvDataSize(b)
      <4>1. RcvDataSize(b) - n = 0
        BY <1>1, <3>1
      <4> QED  BY <2>6, <4>1 DEF Settled
    <3>2. CASE n # RcvDataSize(b) /\ Kept(b, n)
      <4>1. Kept(c, 0)
        BY <1>1, <2>2, <2>3, <3>2, KeptMoves
      <4> QED  BY <4>1 DEF Settled
    <3> QED  BY <2>2, <3>1, <3>2
  <2> QED  BY <2>2, <2>6, <2>7, <2>8 DEF RingInv
<1> QED  BY <1>2, <1>3

\* What scanMsg finds ends before anything else that could be found.
LEMMA FoundMeans ==
  ASSUME NEW b \in Buffers, RcvDataSize(b) + b.max < RcvBufSize, NEW f \in Found(b)
  PROVE  /\ f[1] \in Nat /\ f[2] \in Nat /\ f[1] <= f[2] /\ f[2] <= RcvDataSize(b) + b.max
         /\ f[1] \in Positions /\ f[2] \in Positions
         /\ FoundAt(b, f[1], f[2])
         /\ \A i, j \in 0 .. (RcvDataSize(b) + b.max) :
                i <= j /\ FoundAt(b, i, j) => f[2] <= j
<1> DEFINE all == 0 .. (RcvDataSize(b) + b.max)
           at == {g \in all \X all : g[1] <= g[2] /\ FoundAt(b, g[1], g[2])}
<1>1. f \in at /\ \A g \in at : f[2] <= g[2]
  BY DEF Found
<1>2. /\ RcvDataSize(b) \in Nat /\ b.max \in Nat /\ RcvBufSize \in Nat
      /\ Positions = 0 .. (RcvBufSize - 1)
  BY Ring
<1>3. f[1] \in all /\ f[2] \in all /\ f[1] <= f[2] /\ FoundAt(b, f[1], f[2])
  BY <1>1
<1>4. ASSUME NEW i \in all, NEW j \in all, i <= j, FoundAt(b, i, j)
      PROVE  f[2] <= j
  <2>1. <<i, j>> \in at
    BY <1>4
  <2>2. f[2] <= <<i, j>>[2]
    BY <1>1, <2>1
  <2> QED  BY <2>2
<1> QED  BY <1>2, <1>3, <1>4

\* The places found are those of one message, and its blocks are what is read.
LEMMA FoundMessage ==
  ASSUME WrittenOK, NEW b, NEW s, NEW r, RingBase(b, s, r), NEW f \in Found(b)
  PROVE  \E k \in DOMAIN written :
             /\ FirstOf(k) = s + f[1] /\ LastOf(k) = s + f[2]
             /\ BlocksOf(b, f) = written[k].blocks
             /\ f[2] >= RcvDataSize(b) => ~written[k].order
<1> DEFINE i == f[1]
           j == f[2]
<1>1. /\ b \in Buffers /\ s \in Nat \ {0} /\ s \in Int /\ RcvDataSize(b) + b.max < RcvBufSize
      /\ RingOK(b, s) /\ UnitsFit(b, s, r) /\ RcvDataSize(b) \in Nat
      /\ RcvBufSize \in Nat /\ Positions = 0 .. (RcvBufSize - 1)
  BY Ring DEF RingBase, RingOK
<1>2. /\ i \in Nat /\ j \in Nat /\ i <= j /\ i \in Positions /\ j \in Positions
      /\ FoundAt(b, i, j)
  BY <1>1, FoundMeans
<1> HIDE DEF i, j
<1>3. /\ \A n \in i .. j : IsGood(b, At(b.start, n))
      /\ IsHead(b, At(b.start, i)) /\ IsTail(b, At(b.start, j))
      /\ \A n \in (i + 1) .. j : ~IsHead(b, At(b.start, n))
      /\ MayPass(b, j)
  BY <1>2 DEF FoundAt
<1>4. ASSUME NEW n \in i .. j
      PROVE  n \in Positions /\ UnitAt(b, n) # NoUnit
  <2>1. n \in Positions
    BY <1>1, <1>2
  <2> QED  BY <1>3, <2>1, EmptyPlace
<1>5. PICK k : k = MessageOf(s + i)
  OBVIOUS
<1>6. PICK l : l = MessageOf(s + j)
  OBVIOUS
<1>7. i \in i .. j /\ j \in i .. j
  BY <1>2
<1>8. k \in DOMAIN written /\ FirstOf(k) = s + i /\ In(s + i, k)
  BY <1>1, <1>3, <1>4, <1>5, <1>7, StoredUnit
<1>9. /\ l \in DOMAIN written /\ LastOf(l) = s + j /\ In(s + j, l)
      /\ UnitAt(b, j).order = written[l].order
  BY <1>1, <1>3, <1>4, <1>6, <1>7, StoredUnit
<1>10. k = l
  <2> SUFFICES ASSUME k # l
               PROVE  FALSE
    OBVIOUS
  <2>1. /\ k \in Nat /\ l \in Nat /\ FirstOf(k) \in Nat /\ LastOf(k) \in Nat
        /\ FirstOf(l) \in Nat /\ LastOf(l) \in Nat /\ FirstOf(k) <= LastOf(k)
        /\ FirstOf(l) <= LastOf(l)
    BY <1>8, <1>9, MessageFacts
  <2>2. LastOf(k) < FirstOf(l) \/ LastOf(l) < FirstOf(k)
    BY <1>8, <1>9, <2>1 DEF WrittenOK
  <2>3. LastOf(k) < FirstOf(l)
    BY <1>1, <1>2, <1>8, <1>9, <2>1, <2>2
  <2>4. PICK n \in Int : FirstOf(l) = s + n
    <3>1. FirstOf(l) - s \in Int /\ FirstOf(l) = s + (FirstOf(l) - s)
      BY <1>1, <2>1
    <3> QED  BY <3>1
  <2>5. n \in (i + 1) .. j /\ n \in i .. j
    BY <1>1, <1>2, <1>8, <1>9, <2>1, <2>3, <2>4
  <2>6. MessageOf(s + n) = l
    <3>1. In(s + n, l) /\ s + n \in Int
      BY <1>1, <2>1, <2>4 DEF In
    <3> QED  BY <1>9, <3>1, MessageIs
  <2>7. IsHead(b, At(b.start, n))
    BY <1>1, <1>4, <2>4, <2>5, <2>6, StoredUnit
  <2> QED  BY <1>3, <2>5, <2>7
<1>11. BlocksOf(b, f) = written[k].blocks
  <2>1. \A n \in i .. j : b.unit[At(b.start, n)].block = s + n
    BY <1>1, <1>4, StoredUnit DEF UnitAt
  <2>2. BlocksOf(b, f) = [n \in 1 .. (j - i + 1) |-> b.unit[At(b.start, i + n - 1)].block]
    BY DEF BlocksOf, i, j
  <2>3. ASSUME NEW n \in 1 .. (j - i + 1)
        PROVE  b.unit[At(b.start, i + n - 1)].block = FirstOf(k) + n - 1
    <3>1. i + n - 1 \in i .. j /\ s + (i + n - 1) = (s + i) + n - 1
      BY <1>1, <1>2
    <3> QED  BY <1>8, <2>1, <3>1
  <2>4. LastOf(k) - FirstOf(k) + 1 = j - i + 1
    BY <1>1, <1>2, <1>8, <1>9, <1>10
  <2>5. written[k].blocks = [n \in 1 .. (j - i + 1) |-> FirstOf(k) + n - 1]
    BY <1>8, <2>4, BlocksOfMessage
  <2> QED  BY <2>2, <2>3, <2>5
<1>12. j >= RcvDataSize(b) => ~written[k].order
  <2>1. j < RcvDataSize(b) \/ ~UnitAt(b, j).order
    BY <1>3 DEF MayPass, UnitAt
  <2> QED  BY <1>1, <1>2, <1>9, <1>10, <2>1
<1> QED  BY <1>8, <1>9, <1>10, <1>11, <1>12 DEF i, j

\* A message that can be found has not been read, nor has a later one in order.
LEMMA FoundUnread ==
  ASSUME WrittenOK, NEW b, NEW s, NEW r, RingInv(b, s, r), NEW f \in Found(b),
         NEW k \in DOMAIN written, FirstOf(k) = s + f[1]
  PROVE  /\ ~ReadWhole(r, k)
         /\ \A l \in DOMAIN written : k < l /\ written[l].order => ~ReadWhole(r, l)
<1>1. /\ b \in Buffers /\ s \in Nat \ {0} /\ s \in Int /\ RcvDataSize(b) + b.max < RcvBufSize
      /\ ReadMarked(b, s, r)
  BY Ring DEF RingInv, RingBase, RingOK
<1>2. /\ f[1] \in Nat /\ f[2] \in Nat /\ f[1] <= f[2] /\ f[1] \in Positions
      /\ FoundAt(b, f[1], f[2])
  BY <1>1, FoundMeans
<1>3. IsGood(b, At(b.start, f[1]))
  BY <1>2 DEF FoundAt
<1>4. UnitNo(b, s, s + f[1]) = UnitAt(b, f[1])
  BY <1>1, <1>2, UnitNumbers
<1>5. FirstOf(k) \in Nat /\ LastOf(k) \in Nat /\ FirstOf(k) <= LastOf(k) /\ k \in Nat
  BY MessageFacts
<1>6. ~ReadWhole(r, k)
  <2>1. FirstOf(k) \in FirstOf(k) .. LastOf(k) /\ ~(FirstOf(k) < s)
    BY <1>1, <1>2, <1>5
  <2>2. UnitNo(b, s, FirstOf(k)).flag = Good
    BY <1>3, <1>4 DEF IsGood, UnitAt
  <2> QED  BY <1>1, <2>1, <2>2 DEF ReadMarked
<1>7. ASSUME NEW l \in DOMAIN written, k < l, written[l].order
      PROVE  ~ReadWhole(r, l)
  <2>1. LastOf(k) < FirstOf(l)
    BY <1>7 DEF WrittenOK
  <2>2. FirstOf(l) \in Nat /\ LastOf(l) \in Nat /\ FirstOf(l) <= LastOf(l)
    BY MessageFacts
  <2>3. ~(LastOf(l) < s)
    BY <1>1, <1>2, <1>5, <2>1, <2>2
  <2> QED  BY <1>1, <1>7, <2>3 DEF ReadMarked
<1> QED  BY <1>6, <1>7

\* In a settled ring, what is found among the acknowledged units is at the start.
LEMMA FoundFirst ==
  ASSUME WrittenOK, NEW b, NEW s, NEW r, RingBase(b, s, r), Settled(b), NEW f \in Found(b),
         f[2] < RcvDataSize(b), NEW k \in DOMAIN written, FirstOf(k) = s + f[1]
  PROVE  f[1] = 0
<1> DEFINE d == RcvDataSize(b)
           i == f[1]
           j == f[2]
<1>1. /\ b \in Buffers /\ s \in Nat \ {0} /\ s \in Int /\ d + b.max < RcvBufSize
      /\ RingOK(b, s) /\ UnitsFit(b, s, r) /\ d \in Nat /\ b.max \in Nat
      /\ RcvBufSize \in Nat /\ Positions = 0 .. (RcvBufSize - 1)
  BY Ring DEF RingBase, RingOK
<1>2. /\ i \in Nat /\ j \in Nat /\ i <= j /\ j < d
      /\ \A m, n \in 0 .. (d + b.max) : m <= n /\ FoundAt(b, m, n) => j <= n
  BY <1>1, FoundMeans
<1>3. /\ IsGood(b, At(b.start, 0)) /\ IsHead(b, At(b.start, 0)) /\ WholeFrom(b, 0)
  <2>1. d # 0
    BY <1>1, <1>2
  <2> QED  BY <2>1 DEF Settled, Kept
<1> HIDE DEF i, j
<1> SUFFICES ASSUME i # 0
             PROVE  FALSE
  BY DEF i
<1>4. FirstOf(k) = s + i
  BY DEF i
<1>5. PICK l : l = MessageOf(s + 0)
  OBVIOUS
<1>6. 0 \in Positions /\ s + 0 = s
  BY <1>1
<1>7. UnitAt(b, 0) # NoUnit
  BY <1>3, EmptyPlace
<1>8. l \in DOMAIN written /\ FirstOf(l) = s
  BY <1>1, <1>3, <1>5, <1>6, <1>7, StoredUnit
<1>9. /\ k \in Nat /\ l \in Nat /\ FirstOf(k) \in Nat /\ FirstOf(l) \in Nat
      /\ LastOf(l) \in Nat /\ FirstOf(l) <= LastOf(l) /\ LastOf(k) \in Nat
      /\ FirstOf(k) <= LastOf(k)
  BY <1>8, MessageFacts
<1>10. LastOf(l) < FirstOf(k)
  <2>1. k # l
    BY <1>1, <1>2, <1>4, <1>8
  <2>2. LastOf(k) < FirstOf(l) \/ LastOf(l) < FirstOf(k)
    BY <1>8, <1>9, <2>1 DEF WrittenOK
  <2> QED  BY <1>1, <1>2, <1>4, <1>8, <1>9, <2>2
<1>11. PICK t \in Int : LastOf(l) = s + t
  <2>1. LastOf(l) - s \in Int /\ LastOf(l) = s + (LastOf(l) - s)
    BY <1>1, <1>9
  <2> QED  BY <2>1
<1>12. t \in Nat /\ t < i /\ t < j /\ t < d
  BY <1>1, <1>2, <1>4, <1>8, <1>9, <1>10, <1>11
<1>13. ASSUME NEW n \in 0 .. t
       PROVE  n \in Positions /\ n \in 0 .. (d - 1) /\ MessageOf(s + n) = l
  <2>1. n \in Positions /\ n \in 0 .. (d - 1) /\ s + n \in Int
    BY <1>1, <1>12
  <2>2. In(s + n, l)
    BY <1>1, <1>8, <1>11, <1>12 DEF In
  <2> QED  BY <1>8, <2>1, <2>2, MessageIs
<1>14. ASSUME NEW n \in 0 .. t
       PROVE  IsGood(b, At(b.start, n))
  <2>1. \/ IsGood(b, At(b.start, n))
        \/ \E m \in 0 .. (n - 1) : IsTail(b, At(b.start, m))
    BY <1>3, <1>13 DEF WholeFrom
  <2>2. ASSUME NEW m \in 0 .. (n - 1)
        PROVE  ~IsTail(b, At(b.start, m))
    <3>1. m \in 0 .. t /\ s + m # LastOf(l)
      BY <1>1, <1>11, <1>12
    <3>2. CASE UnitAt(b, m) = NoUnit
      BY <3>2, EmptyPlace
    <3>3. CASE UnitAt(b, m) # NoUnit
      BY <1>1, <1>13, <3>1, <3>3, StoredUnit
    <3> QED  BY <3>2, <3>3
  <2> QED  BY <2>1, <2>2
<1>15. ASSUME NEW n \in 0 .. t
       PROVE  /\ IsHead(b, At(b.start, n)) <=> s + n = s
              /\ IsTail(b, At(b.start, n)) <=> s + n = s + t
  <2>1. UnitAt(b, n) # NoUnit
    BY <1>14, EmptyPlace
  <2>2. n \in Positions /\ l = MessageOf(s + n)
    BY <1>13
  <2>3. /\ IsHead(b, At(b.start, n)) <=> s + n = FirstOf(l)
        /\ IsTail(b, At(b.start, n)) <=> s + n = LastOf(l)
    BY <1>1, <2>1, <2>2, StoredUnit
  <2> QED  BY <1>8, <1>11, <2>3
<1>16. FoundAt(b, 0, t)
  <2>1. t \in 0 .. t /\ 0 \in 0 .. t
    BY <1>12
  <2>2. IsTail(b, At(b.start, t))
    BY <1>15, <2>1
  <2>3. ASSUME NEW n \in (0 + 1) .. t
        PROVE  ~IsHead(b, At(b.start, n))
    <3>1. n \in 0 .. t /\ s + n # s
      BY <1>1, <1>12
    <3> QED  BY <1>15, <3>1
  <2>4. MayPass(b, t)
    BY <1>12 DEF MayPass
  <2> QED  BY <1>3, <1>14, <2>2, <2>3, <2>4 DEF FoundAt
<1>17. 0 \in 0 .. (d + b.max) /\ t \in 0 .. (d + b.max) /\ 0 <= t
  BY <1>1, <1>12
<1> HIDE DEF d
<1>18. j <= t
  BY <1>2, <1>16, <1>17
<1> QED  BY <1>2, <1>12, <1>18

-----------------------------------------------------------------------------
(* readMsg and dropMsg.                                                    *)

\* Messages are known by their blocks.
LEMMA SameBlocks ==
  ASSUME WrittenOK, NEW k \in DOMAIN written, NEW l \in DOMAIN written,
         written[k].blocks = written[l].blocks
  PROVE  k = l
<1>1. FirstOf(k) = FirstOf(l)
  BY DEF FirstOf
<1>2. /\ k \in Nat /\ l \in Nat /\ FirstOf(k) \in Nat /\ FirstOf(l) \in Nat
      /\ LastOf(k) \in Nat /\ LastOf(l) \in Nat
      /\ FirstOf(k) <= LastOf(k) /\ FirstOf(l) <= LastOf(l)
  BY MessageFacts
<1>3. /\ k < l => LastOf(k) < FirstOf(l)
      /\ l < k => LastOf(l) < FirstOf(k)
  BY DEF WrittenOK
<1> QED  BY <1>1, <1>2, <1>3

\* The messages read after one more.
LEMMA ReadOneMore ==
  ASSUME NEW r \in Seq(Seq(Nat)), NEW blocks \in Seq(Nat), NEW q, q = Append(r, blocks)
  PROVE  /\ q \in Seq(Seq(Nat))
         /\ DOMAIN q = DOMAIN r \cup {Len(r) + 1}
         /\ \A i \in DOMAIN r : q[i] = r[i]
         /\ q[Len(r) + 1] = blocks
         /\ \A k : ReadWhole(q, k) <=> ReadWhole(r, k) \/ written[k].blocks = blocks
<1>1. /\ Len(q) = Len(r) + 1 /\ q \in Seq(Seq(Nat)) /\ Len(r) \in Nat
      /\ \A i \in 1 .. Len(r) : q[i] = r[i]
      /\ q[Len(r) + 1] = blocks
  BY AppendProperties, LenProperties
<1>2. DOMAIN r = 1 .. Len(r) /\ DOMAIN q = 1 .. (Len(r) + 1)
  BY <1>1, LenProperties
<1>3. DOMAIN q = DOMAIN r \cup {Len(r) + 1}
  BY <1>1, <1>2
<1> QED  BY <1>1, <1>2, <1>3 DEF ReadWhole

\* More messages read make nothing else false.
LEMMA ReadMore ==
  ASSUME NEW b, NEW s, NEW r, NEW q, RingBase(b, s, r),
         \A k : ReadWhole(r, k) => ReadWhole(q, k)
  PROVE  RingBase(b, s, q)
BY DEF RingBase, UnitsFit, UnitFits, GoneEnded

\* Flags that are set on units of messages read or given up.
LEMMA FlagKeeps ==
  ASSUME NEW b, NEW s, NEW r, RingBase(b, s, r), NEW flag \in {ReadEarly, Dropped}, NEW S,
         \A seq \in Int :
             seq - s \in Positions /\ At(b.start, seq - s) \in S =>
                 /\ UnitNo(b, s, seq) # NoUnit
                 /\ flag = ReadEarly => ReadWhole(r, MessageOf(seq))
                 /\ flag = Dropped => Doomed(MessageOf(seq)),
         NEW c, c = Flagged(b, S, flag)
  PROVE  /\ RingBase(c, s, r) /\ RcvDataSize(c) = RcvDataSize(b)
         /\ \A seq \in Int : UnitNo(c, s, seq) = NoUnit <=> UnitNo(b, s, seq) = NoUnit
         /\ \A seq \in Int :
                \/ UnitNo(c, s, seq) = UnitNo(b, s, seq)
                \/ UnitNo(c, s, seq).flag = flag
         /\ \A seq \in Int : seq - s \in Positions /\ At(b.start, seq - s) \in S =>
                UnitNo(c, s, seq) # NoUnit /\ UnitNo(c, s, seq).flag = flag
<1>1. /\ b \in Buffers /\ s \in Nat \ {0} /\ s \in Int /\ RcvDataSize(b) + b.max < RcvBufSize
      /\ RcvDataSize(b) \in Nat /\ flag \in 1 .. 3 /\ flag # Good
      /\ UnitsFit(b, s, r) /\ AckedKept(b, s) /\ GoneEnded(s, r)
  BY Ring DEF RingBase, RingOK, ReadEarly, Dropped, Good, Positions
<1>2. c \in Buffers /\ c.max = b.max /\ RcvDataSize(c) = RcvDataSize(b)
  BY <1>1, FlagRing
<1> DEFINE at(seq) == seq - s \in Positions /\ At(b.start, seq - s) \in S
<1>3. \A seq \in Int :
          UnitNo(c, s, seq) = IF at(seq) THEN [UnitNo(b, s, seq) EXCEPT !.flag = flag]
                                           ELSE UnitNo(b, s, seq)
  BY <1>1, FlagNumbers
<1>4. \A seq \in Int : UnitNo(b, s, seq) \in Units
  BY <1>1, UnitNumbers
<1>5. \A seq \in Int : at(seq) =>
          /\ UnitNo(b, s, seq) # NoUnit
          /\ flag = ReadEarly => ReadWhole(r, MessageOf(seq))
          /\ flag = Dropped => Doomed(MessageOf(seq))
  OBVIOUS
<1> HIDE DEF at
<1>6. ASSUME NEW seq \in Int, at(seq)
      PROVE  /\ UnitNo(c, s, seq) # NoUnit /\ UnitNo(c, s, seq).flag = flag
             /\ UnitFits(UnitNo(c, s, seq), seq, r)
  <2>1. PICK u \in Units : u = UnitNo(b, s, seq)
    BY <1>4
  <2>2. UnitFits(u, seq, r)
    BY <1>1, <1>5, <1>6, <2>1 DEF UnitsFit
  <2>3. PICK v : v = UnitNo(c, s, seq)
    OBVIOUS
  <2>4. v = [u EXCEPT !.flag = flag]
    BY <1>3, <1>6, <2>1, <2>3
  <2>5. /\ v.flag = flag /\ v.block = u.block /\ v.msg = u.msg /\ v.boundary = u.boundary
        /\ v.order = u.order
    BY <2>4 DEF Units
  <2>6. v # NoUnit
    BY <1>1, <2>5 DEF NoUnit
  <2>7. UnitFits(v, seq, r)
    BY <1>5, <1>6, <2>2, <2>5 DEF UnitFits
  <2> QED  BY <2>3, <2>5, <2>6, <2>7
<1>7. \A seq \in Int : UnitNo(c, s, seq) = NoUnit <=> UnitNo(b, s, seq) = NoUnit
  BY <1>3, <1>5, <1>6
<1>8. RingOK(c, s)
  BY <1>1, <1>2 DEF RingOK
<1>9. UnitsFit(c, s, r)
  BY <1>1, <1>3, <1>6 DEF UnitsFit
<1>10. AckedKept(c, s)
  <2>1. \A seq \in s .. (s + RcvDataSize(b) - 1) : seq \in Int
    OBVIOUS
  <2> QED  BY <1>1, <1>2, <1>7, <2>1 DEF AckedKept
<1>11. RingBase(c, s, r)
  BY <1>1, <1>8, <1>9, <1>10 DEF RingBase
<1>12. \A seq \in Int : \/ UnitNo(c, s, seq) = UnitNo(b, s, seq)
                        \/ UnitNo(c, s, seq).flag = flag
  BY <1>3, <1>6
<1>13. \A seq \in Int : seq - s \in Positions /\ At(b.start, seq - s) \in S =>
           UnitNo(c, s, seq) # NoUnit /\ UnitNo(c, s, seq).flag = flag
  BY <1>6 DEF at
<1> QED  BY <1>2, <1>7, <1>11, <1>12, <1>13

\* And what was read stays marked.
LEMMA FlagKeepsRead ==
  ASSUME WrittenOK, NEW b, NEW s, NEW r, ReadMarked(b, s, r),
         NEW flag \in {ReadEarly, Dropped},
         NEW c,
         \A seq \in Int : UnitNo(c, s, seq) = NoUnit <=> UnitNo(b, s, seq) = NoUnit,
         \A seq \in Int : \/ UnitNo(c, s, seq) = UnitNo(b, s, seq)
                          \/ UnitNo(c, s, seq).flag = flag
  PROVE  ReadMarked(c, s, r)
<1>1. flag # Good
  BY DEF ReadEarly, Dropped, Good
<1>2. \A k \in DOMAIN written : \A block \in FirstOf(k) .. LastOf(k) : block \in Int
  BY MessageFacts
<1> QED  BY <1>1, <1>2 DEF ReadMarked

\* Nor does the flag of a unit matter to the loss list.
LEMMA FlagKeepsLoss ==
  ASSUME NEW b, NEW s \in Int, NEW loss, NEW curr \in Nat, LossInv(b, s, loss, curr), NEW c,
         \A seq \in Int : UnitNo(c, s, seq) = NoUnit <=> UnitNo(b, s, seq) = NoUnit
  PROVE  LossInv(c, s, loss, curr)
<1>1. \A seq \in s .. curr : seq \in Int
  OBVIOUS
<1> QED  BY <1>1 DEF LossInv

\* A drop request marks units of the message it names.
LEMMA DropKeeps ==
  ASSUME WrittenOK, NEW b, NEW s, NEW r, RingInv(b, s, r),
         NEW loss, NEW curr \in Nat, LossInv(b, s, loss, curr),
         NEW k, Doomed(k), NEW c, c = DropMsg(b, k)
  PROVE  RingInv(c, s, r) /\ LossInv(c, s, loss, curr) /\ RcvDataSize(c) = RcvDataSize(b)
<1>1. /\ RingBase(b, s, r) /\ ReadMarked(b, s, r) /\ b \in Buffers /\ s \in Int
      /\ UnitsFit(b, s, r)
  BY DEF RingInv, RingBase, RingOK
<1> DEFINE n == At(RcvDataSize(b), b.max)
           S == {p \in Positions : FromStart(b, p) < n /\ IsTagged(b.unit[p], k)}
<1>2. c = Flagged(b, S, Dropped)
  BY DEF DropMsg, Flagged
<1>3. ASSUME NEW seq \in Int, seq - s \in Positions, At(b.start, seq - s) \in S
      PROVE  UnitNo(b, s, seq) # NoUnit /\ Doomed(MessageOf(seq))
  <2>1. PICK u : u = UnitNo(b, s, seq)
    OBVIOUS
  <2>2. u = b.unit[At(b.start, seq - s)]
    BY <1>3, <2>1 DEF UnitNo, UnitAt
  <2>3. IsTagged(u, k)
    BY <1>3, <2>2
  <2>4. u # NoUnit /\ u.msg = k
    BY <2>3 DEF IsTagged
  <2>5. u.msg = MessageOf(seq)
    BY <1>1, <2>1, <2>4 DEF UnitsFit, UnitFits
  <2> QED  BY <2>1, <2>4, <2>5
<1>4. Dropped # ReadEarly /\ Dropped \in {ReadEarly, Dropped}
  BY DEF Dropped, ReadEarly
<1> HIDE DEF S
<1>5. /\ RingBase(c, s, r) /\ RcvDataSize(c) = RcvDataSize(b)
      /\ \A seq \in Int : UnitNo(c, s, seq) = NoUnit <=> UnitNo(b, s, seq) = NoUnit
      /\ \A seq \in Int : \/ UnitNo(c, s, seq) = UnitNo(b, s, seq)
                          \/ UnitNo(c, s, seq).flag = Dropped
  BY <1>1, <1>2, <1>3, <1>4, FlagKeeps
<1>6. ReadMarked(c, s, r)
  BY <1>1, <1>4, <1>5, FlagKeepsRead
<1>7. LossInv(c, s, loss, curr)
  BY <1>1, <1>5, FlagKeepsLoss
<1> QED  BY <1>5, <1>6, <1>7 DEF RingInv

\* readMsg keeps the ring true: what is read is given back, or marked.
LEMMA ReadKeeps ==
  ASSUME WrittenOK, NEW b, NEW s, NEW r, RingInv(b, s, r),
         NEW loss, NEW curr \in Nat, LossInv(b, s, loss, curr),
         Settled(b), NEW f \in Found(b), NEW c, c = ReadMsg(b, f), NEW q,
         \A l : ReadWhole(q, l) <=> ReadWhole(r, l) \/ written[l].blocks = BlocksOf(b, f)
  PROVE  \E n \in 0 .. RcvDataSize(b) :
             /\ RingInv(c, s + n, q) /\ LossInv(c, s + n, loss, curr)
             /\ RcvDataSize(c) = RcvDataSize(b) - n
<1>1. /\ RingBase(b, s, r) /\ ReadMarked(b, s, r) /\ b \in Buffers
      /\ s \in Nat \ {0} /\ s \in Int
      /\ RcvDataSize(b) + b.max < RcvBufSize /\ RcvDataSize(b) \in Nat /\ b.max \in Nat
      /\ RcvBufSize \in Nat /\ Positions = 0 .. (RcvBufSize - 1) /\ b.start \in Positions
  BY Ring DEF RingInv, RingBase, RingOK, Positions
<1>2. PICK i, j, blocks : i = f[1] /\ j = f[2] /\ blocks = BlocksOf(b, f)
  OBVIOUS
<1>3. PICK k \in DOMAIN written :
          /\ FirstOf(k) = s + i /\ LastOf(k) = s + j
          /\ blocks = written[k].blocks
          /\ j >= RcvDataSize(b) => ~written[k].order
  BY <1>1, <1>2, FoundMessage
<1>4. /\ i \in Nat /\ j \in Nat /\ i <= j
      /\ i \in Positions /\ j \in Positions
      /\ FoundAt(b, i, j)
  BY <1>1, <1>2, FoundMeans
<1>5. \A l : ReadWhole(q, l) <=> ReadWhole(r, l) \/ written[l].blocks = written[k].blocks
  BY <1>3, <1>2
<1>6. \A l \in DOMAIN written : ReadWhole(q, l) => ReadWhole(r, l) \/ l = k
  BY <1>5, SameBlocks
<1>7. RingBase(b, s, q)
  BY <1>1, <1>5, ReadMore
<1>8. /\ FirstOf(k) \in Nat /\ LastOf(k) \in Nat
      /\ \A block \in FirstOf(k) .. LastOf(k) : block \in Int
  BY MessageFacts
<1>9. CASE j < RcvDataSize(b)
  <2>1. i = 0
    BY <1>1, <1>3, <1>9, <1>2, FoundFirst
  <2>2. PICK n : n = j + 1
    OBVIOUS
  <2>3. n \in 0 .. RcvDataSize(b) /\ n \in Nat /\ s + n = LastOf(k) + 1
    BY <1>1, <1>3, <1>4, <1>9, <2>2
  <2>4. c = Freed(b, n)
    BY <1>9, <2>2, <1>2 DEF ReadMsg
  <2>5. ASSUME NEW l \in DOMAIN written, s <= FirstOf(l), FirstOf(l) < s + n
        PROVE  Doomed(l) \/ ReadWhole(q, l)
    <3>1. /\ FirstOf(k) = s /\ FirstOf(l) \in Nat /\ LastOf(l) \in Nat
          /\ FirstOf(l) <= LastOf(l) /\ k \in Nat /\ l \in Nat
      <4>1. FirstOf(k) = s
        BY <1>1, <1>3, <2>1
      <4> QED  BY <4>1, MessageFacts
    <3>2. /\ k < l => LastOf(k) < FirstOf(l)
          /\ l < k => LastOf(l) < FirstOf(k)
      BY DEF WrittenOK
    <3>3. l = k
      BY <1>1, <1>8, <2>3, <2>5, <3>1, <3>2
    <3> QED  BY <1>5, <3>3
  <2>6. /\ RingBase(c, s + n, q) /\ RcvDataSize(c) = RcvDataSize(b) - n
        /\ \A seq \in Int : UnitNo(c, s + n, seq) = IF seq < s + n THEN NoUnit
                                                    ELSE UnitNo(b, s, seq)
    BY <1>7, <2>3, <2>4, <2>5, FreeKeeps
  <2>7. ReadMarked(c, s + n, r) /\ LossInv(c, s + n, loss, curr)
    BY <1>1, <2>3, <2>6, FreeKeepsRead, FreeKeepsLoss
  <2>8. ReadMarked(c, s + n, q)
    <3>1. /\ \A block \in FirstOf(k) .. LastOf(k) : block < s + n
          /\ LastOf(k) < s + n
      BY <1>8, <2>3
    <3> QED  BY <1>6, <2>7, <3>1 DEF ReadMarked
  <2> QED  BY <2>3, <2>6, <2>7, <2>8 DEF RingInv
<1>10. CASE ~(j < RcvDataSize(b))
  <2> DEFINE S == {p \in Positions : FromStart(b, p) \in i .. j}
  <2>1. c = Flagged(b, S, ReadEarly)
    BY <1>10, <1>2 DEF ReadMsg, Flagged
  <2>2. ASSUME NEW seq \in Int, seq - s \in Positions
        PROVE  At(b.start, seq - s) \in S <=> seq \in FirstOf(k) .. LastOf(k)
    <3>1. FromStart(b, At(b.start, seq - s)) = seq - s /\ At(b.start, seq - s) \in Positions
      BY <1>1, <2>2, Places
    <3>2. At(b.start, seq - s) \in S <=> seq - s \in i .. j
      BY <3>1
    <3> QED  BY <1>1, <1>3, <1>4, <3>2
  <2> HIDE DEF S
  <2>3. ASSUME NEW seq \in FirstOf(k) .. LastOf(k)
        PROVE  /\ seq \in Int /\ seq - s \in Positions /\ At(b.start, seq - s) \in S
               /\ UnitNo(b, s, seq) # NoUnit /\ MessageOf(seq) = k
    <3>1. PICK n \in Int : n = seq - s
      BY <1>1, <1>8
    <3>2. n \in Positions /\ n \in i .. j /\ seq = s + n
      BY <1>1, <1>3, <1>4, <1>8, <3>1
    <3>3. IsGood(b, At(b.start, n))
      BY <1>4, <3>2 DEF FoundAt
    <3>4. UnitAt(b, n) # NoUnit
      BY <3>3, EmptyPlace
    <3>5. UnitNo(b, s, seq) = UnitAt(b, n)
      BY <3>1, <3>2 DEF UnitNo
    <3>6. In(seq, k)
      BY <1>8 DEF In
    <3>7. MessageOf(seq) = k
      BY <1>8, <3>6, MessageIs
    <3> QED  BY <1>8, <2>2, <3>1, <3>2, <3>4, <3>5, <3>7
  <2>4. ASSUME NEW seq \in Int, seq - s \in Positions, At(b.start, seq - s) \in S
        PROVE  UnitNo(b, s, seq) # NoUnit /\ ReadWhole(q, MessageOf(seq))
    BY <1>5, <2>2, <2>3, <2>4
  <2>5. ReadEarly # Dropped /\ ReadEarly \in {ReadEarly, Dropped} /\ ReadEarly # Good
    BY DEF Dropped, ReadEarly, Good
  <2>6. /\ RingBase(c, s, q) /\ RcvDataSize(c) = RcvDataSize(b)
        /\ \A seq \in Int : UnitNo(c, s, seq) = NoUnit <=> UnitNo(b, s, seq) = NoUnit
        /\ \A seq \in Int :
               \/ UnitNo(c, s, seq) = UnitNo(b, s, seq)
               \/ UnitNo(c, s, seq).flag = ReadEarly
        /\ \A seq \in Int : seq - s \in Positions /\ At(b.start, seq - s) \in S =>
               UnitNo(c, s, seq) # NoUnit /\ UnitNo(c, s, seq).flag = ReadEarly
    BY <1>7, <2>1, <2>4, <2>5, FlagKeeps
  <2>7. ReadMarked(c, s, r)
    BY <1>1, <2>5, <2>6, FlagKeepsRead
  <2>8. LossInv(c, s, loss, curr)
    BY <1>1, <2>6, FlagKeepsLoss
  <2>9. ReadMarked(c, s, q)
    <3>1. \A block \in FirstOf(k) .. LastOf(k) :
              UnitNo(c, s, block) # NoUnit /\ UnitNo(c, s, block).flag # Good
      BY <2>3, <2>5, <2>6
    <3>2. ~written[k].order
      BY <1>1, <1>3, <1>4, <1>10
    <3> QED  BY <1>6, <2>7, <3>1, <3>2 DEF ReadMarked
  <2>10. 0 \in 0 .. RcvDataSize(b) /\ s + 0 = s /\ RcvDataSize(b) - 0 = RcvDataSize(b)
    BY <1>1
  <2>11. RingInv(c, s, q)
    BY <2>6, <2>9 DEF RingInv
  <2> QED  BY <2>6, <2>8, <2>10, <2>11
<1> QED  BY <1>9, <1>10

-----------------------------------------------------------------------------
(* addData, the loss list, ackData.                                        *)

\* A packet stored keeps the ring true.
LEMMA StoreKeeps ==
  ASSUME WrittenOK, NEW b, NEW s, NEW r, RingInv(b, s, r), NEW seq \in Blocks, NEW n \in Nat,
         seq = s + RcvDataSize(b) + n, n < AvailBufSize(b), ~Occupied(b, At(b.ack, n)),
         NEW c, c = AddData(b, UnitOf(seq), n)
  PROVE  /\ RingInv(c, s, r) /\ RcvDataSize(c) = RcvDataSize(b)
         /\ UnitNo(b, s, seq) = NoUnit /\ UnitNo(c, s, seq) # NoUnit
         /\ \A x \in Int : x # seq => UnitNo(c, s, x) = UnitNo(b, s, x)
<1> DEFINE d == RcvDataSize(b)
           u == UnitOf(seq)
<1>1. /\ b \in Buffers /\ s \in Nat \ {0} /\ s \in Int /\ d + b.max < RcvBufSize
      /\ d \in Nat /\ b.max \in Nat /\ RcvBufSize \in Nat /\ seq \in Int
      /\ Positions = 0 .. (RcvBufSize - 1)
      /\ UnitsFit(b, s, r) /\ AckedKept(b, s) /\ GoneEnded(s, r) /\ ReadMarked(b, s, r)
  BY Ring DEF RingInv, RingBase, RingOK, Positions, Blocks
<1>2. d + n < RcvBufSize /\ d + n \in Positions
  BY <1>1 DEF AvailBufSize
<1>3. /\ MessageOf(seq) \in DOMAIN written
      /\ written[MessageOf(seq)].order \in BOOLEAN /\ MessageOf(seq) \in Nat
      /\ Boundary(seq) \in 0 .. 3 /\ seq \in Nat
  <2>1. MessageOf(seq) \in DOMAIN written
    BY OfBlock
  <2>2. written[MessageOf(seq)] \in Written /\ MessageOf(seq) \in Nat
    BY <2>1, MessageFacts
  <2> QED  BY <2>1, <2>2, Boundaries DEF Written, Blocks
<1>4. u \in Units /\ u # NoUnit /\ UnitFits(u, seq, r) /\ c = AddData(b, u, n)
  BY <1>3 DEF UnitOf, Units, NoUnit, UnitFits, Good, ReadEarly, Dropped
<1> HIDE DEF u
<1>5. c \in Buffers /\ RcvDataSize(c) = d /\ c.max = (IF n > b.max THEN n ELSE b.max)
  BY <1>1, <1>2, <1>4, AddDataRing
<1>6. \A x \in Int : UnitNo(c, s, x) = IF x = seq THEN u ELSE UnitNo(b, s, x)
  <2>1. \A x \in Int : UnitNo(c, s, x) = IF x = s + RcvDataSize(b) + n THEN u
                                           ELSE UnitNo(b, s, x)
    <3>1. /\ b \in Buffers /\ s \in Int /\ u \in Units /\ RcvDataSize(b) + n < RcvBufSize
          /\ c = AddData(b, u, n)
      BY <1>1, <1>2, <1>4
    <3> QED  BY ONLY <3>1, n \in Nat, AddDataNumbers
  <2> QED  BY <2>1
<1>7. UnitNo(b, s, seq) = NoUnit
  <2>1. At(b.ack, n) = At(b.start, d + n)
    BY <1>1, <1>2, Ahead
  <2>2. UnitAt(b, d + n) = NoUnit
    BY <2>1 DEF UnitAt, Occupied
  <2>3. UnitNo(b, s, s + (d + n)) = UnitAt(b, d + n)
    BY <1>1, <1>2, UnitNumbers
  <2>4. seq = s + (d + n)
    BY <1>1
  <2> QED  BY <2>2, <2>3, <2>4
<1>8. UnitNo(c, s, seq) = u
  BY <1>1, <1>6
<1>9. RingOK(c, s)
  <2> HIDE DEF d
  <2> QED  BY <1>1, <1>2, <1>5 DEF RingOK, d
<1>10. UnitsFit(c, s, r)
  BY <1>1, <1>4, <1>6 DEF UnitsFit
<1>11. AckedKept(c, s)
  <2>1. \A x \in s .. (s + d - 1) : x \in Int /\ x # seq
    BY <1>1
  <2> QED  BY <1>1, <1>5, <1>6, <2>1 DEF AckedKept
<1>12. ReadMarked(c, s, r)
  <2>1. \A k \in DOMAIN written : \A block \in FirstOf(k) .. LastOf(k) : block \in Int
    BY MessageFacts
  <2>2. \A k \in DOMAIN written :
            ReadWhole(r, k) =>
                \A block \in FirstOf(k) .. LastOf(k) : block < s \/ block # seq
    BY <1>1, <1>7 DEF ReadMarked
  <2>3. ~(seq < s)
    BY <1>1
  <2> QED  BY <1>1, <1>6, <2>1, <2>2, <2>3 DEF ReadMarked
<1> QED  BY <1>1, <1>4, <1>5, <1>6, <1>7, <1>8, <1>9, <1>10, <1>11, <1>12
         DEF RingInv, RingBase

\* The loss list after a packet.
LEMMA StoreLoss ==
  ASSUME NEW b, NEW c, NEW s \in Nat, NEW seq \in Nat, NEW curr \in Nat, NEW loss,
         \A x \in loss : x <= curr,
         LossInv(b, s, loss, curr), UnitNo(c, s, seq) # NoUnit,
         \A x \in Int : x # seq => UnitNo(c, s, x) = UnitNo(b, s, x)
  PROVE  LossInv(c, s,
                 IF seq > curr THEN loss \cup ((curr + 1) .. (seq - 1)) ELSE loss \ {seq},
                 Larger(curr, seq))
<1> DEFINE after == IF seq > curr THEN loss \cup ((curr + 1) .. (seq - 1)) ELSE loss \ {seq}
           most == Larger(curr, seq)
<1>1. most \in Nat /\ most = (IF curr < seq THEN seq ELSE curr)
  BY DEF Larger
<1>2. seq \notin after
  OBVIOUS
<1>3. ASSUME NEW x \in Int, UnitNo(c, s, x) # NoUnit
      PROVE  x <= most /\ x \notin after
  <2>1. CASE x = seq
    BY <1>1, <1>2, <2>1
  <2>2. CASE x # seq
    <3>1. x <= curr /\ x \notin loss
      BY <1>3, <2>2 DEF LossInv
    <3> QED  BY <1>1, <3>1
  <2> QED  BY <2>1, <2>2
<1>4. ASSUME NEW x \in s .. most, UnitNo(c, s, x) = NoUnit
      PROVE  x \in after \/ DropRequested(x)
  <2>1. x \in Int /\ x # seq
    BY <1>1, <1>4
  <2>2. UnitNo(b, s, x) = NoUnit
    BY <1>4, <2>1
  <2>3. CASE x <= curr
    <3>1. x \in loss \/ DropRequested(x)
      BY <2>1, <2>2, <2>3 DEF LossInv
    <3> QED  BY <2>1, <3>1
  <2>4. CASE curr < x
    BY <1>1, <2>1, <2>4
  <2> QED  BY <2>1, <2>3, <2>4
<1> HIDE DEF after, most
<1>5. LossInv(c, s, after, most)
  BY <1>3, <1>4 DEF LossInv
<1> QED  BY <1>5 DEF after, most

\* The loss list after a drop request.
LEMMA DropLoss ==
  ASSUME NEW b, NEW s \in Nat, NEW curr \in Nat, NEW loss, NEW lo \in Int, NEW hi \in Int,
         LossInv(b, s, loss, curr), \A x \in lo .. hi : DropRequested(x),
         NEW most, most = IF lo <= curr + 1 THEN Larger(curr, hi) ELSE curr
  PROVE  LossInv(b, s, loss \ (lo .. hi), most)
<1>1. most \in Int /\ curr <= most /\ (curr < most => lo <= curr + 1 /\ most = hi)
  BY DEF Larger
<1>2. ASSUME NEW x \in Int, UnitNo(b, s, x) # NoUnit
      PROVE  x <= most /\ x \notin loss \ (lo .. hi)
  <2>1. x <= curr /\ x \notin loss
    BY <1>2 DEF LossInv
  <2> QED  BY <1>1, <2>1
<1>3. ASSUME NEW x \in s .. most, UnitNo(b, s, x) = NoUnit
      PROVE  x \in loss \ (lo .. hi) \/ DropRequested(x)
  <2>1. CASE x <= curr
    <3>1. x \in loss \/ DropRequested(x)
      BY <1>1, <1>3, <2>1 DEF LossInv
    <3> QED  BY <3>1
  <2>2. CASE curr < x
    <3>1. x \in lo .. hi
      BY <1>1, <2>2
    <3> QED  BY <3>1
  <2> QED  BY <1>1, <2>1, <2>2
<1> QED  BY <1>2, <1>3 DEF LossInv

\* An acknowledgement of what is not lost keeps the ring true.
LEMMA AckKeeps ==
  ASSUME WrittenOK, NEW b, NEW s, NEW r, RingInv(b, s, r), NEW loss, NEW curr \in Nat,
         LossInv(b, s, loss, curr), NEW n \in Nat, RcvDataSize(b) + n < RcvBufSize,
         s + RcvDataSize(b) + n <= curr + 1,
         \A x \in loss : s + RcvDataSize(b) + n <= x,
         NEW c, c = AckData(b, n)
  PROVE  /\ RingInv(c, s, r) /\ LossInv(c, s, loss, curr)
         /\ RcvDataSize(c) = RcvDataSize(b) + n
<1> DEFINE d == RcvDataSize(b)
<1>1. /\ b \in Buffers /\ s \in Nat \ {0} /\ s \in Int /\ d + b.max < RcvBufSize
      /\ d \in Nat /\ b.max \in Nat /\ RcvBufSize \in Nat
      /\ UnitsFit(b, s, r) /\ AckedKept(b, s) /\ GoneEnded(s, r) /\ ReadMarked(b, s, r)
  BY Ring DEF RingInv, RingBase, RingOK, Positions
<1>2. /\ c \in Buffers /\ RcvDataSize(c) = d + n
      /\ c.max = (IF b.max < n THEN 0 ELSE b.max - n)
      /\ \A j \in Positions : UnitAt(c, j) = UnitAt(b, j)
  BY <1>1, AckDataRing
<1>3. \A x : UnitNo(c, s, x) = UnitNo(b, s, x)
  BY <1>2 DEF UnitNo
<1>4. RingOK(c, s)
  <2> HIDE DEF d
  <2>1. (d + n) + c.max < RcvBufSize
    BY <1>1, <1>2 DEF d
  <2> QED  BY <1>1, <1>2, <2>1 DEF RingOK
<1>5. AckedKept(c, s)
  <2> SUFFICES ASSUME NEW x \in s .. (s + (d + n) - 1), UnitNo(b, s, x) = NoUnit
               PROVE  DropRequested(x)
    BY <1>2, <1>3 DEF AckedKept
  <2>1. CASE x < s + d
    <3>1. x \in s .. (s + d - 1)
      BY <1>1, <2>1
    <3> QED  BY <1>1, <3>1 DEF AckedKept
  <2>2. CASE ~(x < s + d)
    <3>1. x \in s .. curr /\ x < s + d + n /\ x \in Int
      BY <1>1, <2>2
    <3>2. x \notin loss
      BY <1>1, <3>1
    <3> QED  BY <3>1, <3>2 DEF LossInv
  <2> QED  BY <2>1, <2>2
<1>6. UnitsFit(c, s, r) /\ ReadMarked(c, s, r) /\ LossInv(c, s, loss, curr)
  BY <1>1, <1>3 DEF UnitsFit, ReadMarked, LossInv
<1> QED  BY <1>1, <1>2, <1>4, <1>5, <1>6 DEF RingInv, RingBase

-----------------------------------------------------------------------------
(* The inductive invariant.                                                *)

\* The numbers of both ends: what is acknowledged was received, what was received
\* was sent, and a number with a block was sent before the block is.
NumInv ==
    /\ sndNext \in Nat /\ sndCurrSeqNo \in Nat /\ sndLastAck \in Nat
    /\ rcvLastAck \in Nat /\ rcvCurrSeqNo \in Nat /\ overrun \in BOOLEAN
    /\ sndNext <= SndEnd /\ sndNext <= sndCurrSeqNo + 1
    /\ 1 <= sndLastAck /\ sndLastAck <= rcvLastAck /\ sndLastAck <= sndNext
    /\ rcvLastAck <= rcvCurrSeqNo + 1 /\ rcvCurrSeqNo <= sndCurrSeqNo
    /\ sndLoss \subseteq sndLastAck .. sndCurrSeqNo
    /\ rcvLoss \subseteq rcvLastAck .. rcvCurrSeqNo

\* What a message on its way promises about both ends: a drop request names a
\* whole message and the number after it, and A has passed it.
MsgOK(m) ==
    /\ m.type = "data" => m.seq \in Blocks /\ m.block = m.seq /\ m.seq <= sndCurrSeqNo
    /\ m.type = "ack" => m.ack \in Nat /\ 1 <= m.ack /\ m.ack <= rcvLastAck
    /\ m.type = "nak" => m.lo \in Nat /\ m.hi \in Nat /\ m.hi <= rcvCurrSeqNo
    /\ m.type = "drop" =>
           /\ m.msg \in DOMAIN written /\ m.lo \in Nat /\ In(m.lo, m.msg)
           /\ m.hi = LastOf(m.msg) + 1 /\ m.hi <= sndCurrSeqNo

\* All of them do.
NetInv == \A m \in net : MsgOK(m)

\* What was read are messages that were written.
ReadOK(r) ==
    /\ r \in Seq(Seq(Nat))
    /\ \A i \in DOMAIN r : \E k \in DOMAIN written : r[i] = written[k].blocks

\* B: its ring begins with the number as far before the acknowledgement as the
\* ring holds acknowledged units.
RcvInv ==
    \E s \in Nat : /\ s + RcvDataSize(buf) = rcvLastAck
                   /\ RingInv(buf, s, read) /\ LossInv(buf, s, rcvLoss, rcvCurrSeqNo)

\* ReleasedIsKept, before A goes astray.
AllReleasedKept ==
    \A block \in 1 .. (sndLastAck - 1) :
        \/ block >= SndEnd \/ Stored(block) \/ Delivered(block)
        \/ \E b \in FirstOf(MessageOf(block)) .. LastOf(MessageOf(block)) :
               DropRequested(b)

\* The inductive invariant, as long as no end has gone astray.  In the step that
\* overruns the ring only what was released before counts.
Inv ==
    /\ WrittenOK /\ NumInv /\ NetInv /\ ReadOK(read) /\ HonestPeerTrusted
    /\ buf \in Buffers
    /\ ~overrun => RcvInv
    /\ overrun => AllReleasedKept

\* What A has written only grows.
WrittenGrows ==
    /\ WrittenOK' /\ SndEnd <= SndEnd' /\ DOMAIN written \subseteq DOMAIN written'
    /\ \A k \in DOMAIN written :
           /\ written'[k] = written[k]
           /\ FirstOf(k)' = FirstOf(k) /\ LastOf(k)' = LastOf(k)

\* Facts about messages, in this state and the next.
WrittenFacts ==
    /\ SndEnd \in Nat \ {0}
    /\ \A k \in DOMAIN written :
           /\ FirstOf(k) \in Nat /\ LastOf(k) \in Nat /\ k \in Nat
           /\ FirstOf(k) <= LastOf(k) /\ LastOf(k) < SndEnd
    /\ \A block \in Int, k \in DOMAIN written : In(block, k) => MessageOf(block) = k
    /\ \A k, l \in DOMAIN written : written[k].blocks = written[l].blocks => k = l

\* The facts follow from what A has written.
LEMMA WrittenImplies == WrittenOK => WrittenFacts
<1>1. WrittenOK => /\ SndEnd \in Nat \ {0}
                   /\ \A k \in DOMAIN written :
                          /\ FirstOf(k) \in Nat /\ LastOf(k) \in Nat /\ k \in Nat
                          /\ FirstOf(k) <= LastOf(k) /\ LastOf(k) < SndEnd
  BY MessageFacts
<1>2. WrittenOK =>
          \A block \in Int, k \in DOMAIN written : In(block, k) => MessageOf(block) = k
  BY MessageIs
<1>3. WrittenOK =>
          \A k, l \in DOMAIN written : written[k].blocks = written[l].blocks => k = l
  BY SameBlocks
<1> QED  BY <1>1, <1>2, <1>3 DEF WrittenFacts

\* And in the next state from what it has written then.
LEMMA WrittenImpliesNext == WrittenOK' => WrittenFacts'
BY WrittenImplies, PTL

\* What A has written is the same after a step that does not write.
LEMMA SameWritten ==
  ASSUME WrittenOK, written' = written
  PROVE  /\ WrittenGrows /\ SndEnd' = SndEnd
         /\ \A k : FirstOf(k)' = FirstOf(k) /\ LastOf(k)' = LastOf(k)
<1>1. /\ SndEnd' = SndEnd
      /\ \A k : FirstOf(k)' = FirstOf(k) /\ LastOf(k)' = LastOf(k) /\ SizeOf(k)' = SizeOf(k)
  BY DEF SndEnd, FirstOf, LastOf, SizeOf
<1>2. \A block, k : In(block, k)' <=> In(block, k)
  BY <1>1 DEF In
<1>3. Blocks' = Blocks
  BY <1>1 DEF Blocks
<1>4. WrittenOK'
  BY <1>1, <1>2, <1>3 DEF WrittenOK
<1>5. SndEnd <= SndEnd'
  BY <1>1, MessageFacts
<1> QED  BY <1>1, <1>4, <1>5 DEF WrittenGrows

\* The message of a block stays, and what is marked on its packet.
LEMMA SameMessage ==
  ASSUME WrittenOK, WrittenGrows, NEW block \in Blocks, NEW k, k = MessageOf(block)
  PROVE  /\ block \in Blocks' /\ k \in DOMAIN written /\ MessageOf(block)' = k
         /\ Boundary(block)' = Boundary(block)
<1>1. /\ WrittenOK' /\ SndEnd <= SndEnd' /\ DOMAIN written \subseteq DOMAIN written'
      /\ \A l \in DOMAIN written : FirstOf(l)' = FirstOf(l) /\ LastOf(l)' = LastOf(l)
  BY DEF WrittenGrows
<1>2. k \in DOMAIN written /\ In(block, k)
  BY OfBlock
<1>3. WrittenFacts /\ WrittenFacts'
  BY <1>1, WrittenImplies, WrittenImpliesNext
<1>4. block \in Blocks'
  <2>1. PICK e, f : e = SndEnd /\ f = SndEnd'
    OBVIOUS
  <2>2. e \in Nat /\ f \in Nat /\ e <= f
    BY <1>1, <1>3, <2>1 DEF WrittenFacts
  <2>3. Blocks = 1 .. (e - 1) /\ Blocks' = 1 .. (f - 1)
    BY <2>1 DEF Blocks
  <2> QED  BY <2>2, <2>3
<1>5. FirstOf(k)' = FirstOf(k) /\ LastOf(k)' = LastOf(k) /\ k \in DOMAIN written'
  BY <1>1, <1>2
<1>6. MessageOf(block)' = k
  <2>1. In(block, k)'
    BY <1>2, <1>5 DEF In
  <2>2. block \in Int
    BY DEF Blocks
  <2> QED  BY <1>3, <1>5, <2>1, <2>2 DEF WrittenFacts
<1>7. Boundary(block)' = Boundary(block)
  <2>1. Boundary(block) = (IF block = FirstOf(k) THEN First ELSE 0)
                          + (IF block = LastOf(k) THEN Last ELSE 0)
    BY DEF Boundary
  <2>2. Boundary(block)' = (IF block = FirstOf(k)' THEN First ELSE 0)
                           + (IF block = LastOf(k)' THEN Last ELSE 0)
    BY <1>6 DEF Boundary
  <2> QED  BY <1>5, <2>1, <2>2
<1> QED  BY <1>2, <1>4, <1>6, <1>7

\* More written and more sent leave what is true of the ring true.
LEMMA RingFrame ==
  ASSUME WrittenOK, WrittenGrows, net \subseteq net',
         NEW b, NEW s, NEW r, NEW loss, NEW curr \in Nat, ReadOK(r),
         \A k \in DOMAIN written' \ DOMAIN written : s <= FirstOf(k)',
         RingInv(b, s, r), LossInv(b, s, loss, curr)
  PROVE  RingInv(b, s, r)' /\ LossInv(b, s, loss, curr)'
<1>1. /\ RingOK(b, s) /\ UnitsFit(b, s, r) /\ AckedKept(b, s) /\ GoneEnded(s, r)
      /\ ReadMarked(b, s, r) /\ s \in Nat \ {0} /\ s \in Int
  BY DEF RingInv, RingBase, RingOK
<1>2. /\ WrittenOK' /\ DOMAIN written \subseteq DOMAIN written'
      /\ \A k \in DOMAIN written :
             /\ written'[k] = written[k]
             /\ FirstOf(k)' = FirstOf(k) /\ LastOf(k)' = LastOf(k)
  BY DEF WrittenGrows
<1>3. WrittenFacts' /\ WrittenFacts
  BY <1>2, WrittenImplies, WrittenImpliesNext
<1>4. \A x : DropRequested(x) => DropRequested(x)'
  BY DEF DropRequested
<1>5. \A k \in DOMAIN written : Doomed(k) => Doomed(k)'
  BY <1>2, <1>4 DEF Doomed
<1>6. \A k \in DOMAIN written : ReadWhole(r, k)' <=> ReadWhole(r, k)
  BY <1>2 DEF ReadWhole
<1>7. ASSUME NEW k \in DOMAIN written', k \notin DOMAIN written
      PROVE  ~ReadWhole(r, k)'
  <2> SUFFICES ASSUME NEW i \in DOMAIN r, r[i] = written'[k].blocks
               PROVE  FALSE
    BY DEF ReadWhole
  <2>1. PICK l \in DOMAIN written : r[i] = written[l].blocks
    BY DEF ReadOK
  <2>2. l \in DOMAIN written' /\ written'[l].blocks = written'[k].blocks
    BY <1>2, <2>1
  <2>3. l = k
    BY <1>3, <2>2 DEF WrittenFacts
  <2> QED  BY <1>7, <2>3
<1>8. RingOK(b, s)'
  BY <1>1 DEF RingOK
<1>9. ASSUME NEW seq \in Int, UnitNo(b, s, seq) # NoUnit
      PROVE  UnitFits(UnitNo(b, s, seq), seq, r)'
  <2>1. PICK u : u = UnitNo(b, s, seq)
    OBVIOUS
  <2>2. PICK k : k = MessageOf(seq)
    OBVIOUS
  <2>3. UnitFits(u, seq, r)
    BY <1>1, <1>9, <2>1 DEF UnitsFit
  <2>4. /\ seq \in Blocks' /\ k \in DOMAIN written /\ MessageOf(seq)' = k
        /\ Boundary(seq)' = Boundary(seq)
    BY <2>2, <2>3, SameMessage DEF UnitFits
  <2>5. /\ u.block = seq /\ u.msg = k /\ u.boundary = Boundary(seq)
        /\ u.order = written[k].order /\ u.flag \in {Good, ReadEarly, Dropped}
        /\ u.flag = ReadEarly => ReadWhole(r, k)
        /\ u.flag = Dropped => Doomed(k)
    BY <2>2, <2>3 DEF UnitFits
  <2>6. /\ u.order = written'[k].order
        /\ u.flag = ReadEarly => ReadWhole(r, k)'
        /\ u.flag = Dropped => Doomed(k)'
    BY <1>2, <1>5, <1>6, <2>4, <2>5
  <2>7. UnitFits(u, seq, r)'
    BY <2>4, <2>5, <2>6 DEF UnitFits
  <2> QED  BY <2>1, <2>7
<1>10. UnitsFit(b, s, r)'
  BY <1>9 DEF UnitsFit
<1>11. AckedKept(b, s)'
  BY <1>1, <1>4 DEF AckedKept
<1>12. ASSUME NEW k \in DOMAIN written', FirstOf(k)' < s
       PROVE  Doomed(k)' \/ ReadWhole(r, k)'
  <2>1. k \in DOMAIN written
    <3>1. FirstOf(k)' \in Nat
      BY <1>3 DEF WrittenFacts
    <3> QED  BY <1>1, <1>12, <3>1
  <2> QED  BY <1>1, <1>2, <1>5, <1>6, <1>12, <2>1 DEF GoneEnded
<1>13. GoneEnded(s, r)'
  BY <1>12 DEF GoneEnded
<1>14. ReadMarked(b, s, r)'
  <2> SUFFICES ASSUME NEW k \in DOMAIN written', ReadWhole(r, k)'
               PROVE  /\ \A block \in FirstOf(k)' .. LastOf(k)' :
                             \/ block < s
                             \/ UnitNo(b, s, block) # NoUnit /\ UnitNo(b, s, block).flag # Good
                      /\ written'[k].order => LastOf(k)' < s
    BY DEF ReadMarked
  <2>1. k \in DOMAIN written
    BY <1>7
  <2> QED  BY <1>1, <1>2, <1>6, <2>1 DEF ReadMarked
<1>15. LossInv(b, s, loss, curr)'
  BY <1>4 DEF LossInv
<1> QED  BY <1>8, <1>10, <1>11, <1>13, <1>14, <1>15 DEF RingInv, RingBase

\* Messages sent stay true.
LEMMA NetFrame ==
  ASSUME WrittenOK, WrittenGrows, NumInv, NumInv', sndCurrSeqNo <= sndCurrSeqNo',
         rcvLastAck <= rcvLastAck', rcvCurrSeqNo <= rcvCurrSeqNo', NEW m, MsgOK(m)
  PROVE  MsgOK(m)'
<1>1. /\ DOMAIN written \subseteq DOMAIN written'
      /\ \A k \in DOMAIN written : FirstOf(k)' = FirstOf(k) /\ LastOf(k)' = LastOf(k)
  BY DEF WrittenGrows
<1>2. /\ sndCurrSeqNo \in Nat /\ sndCurrSeqNo' \in Nat /\ rcvLastAck \in Nat
      /\ rcvLastAck' \in Nat /\ rcvCurrSeqNo \in Nat /\ rcvCurrSeqNo' \in Nat
  BY DEF NumInv
<1>3. m.type = "data" => m.seq \in Blocks' /\ m.block = m.seq /\ m.seq <= sndCurrSeqNo'
  <2>1. m.seq \in Blocks => m.seq \in Blocks' /\ m.seq \in Int
    BY SameMessage DEF Blocks
  <2> QED  BY <1>2, <2>1 DEF MsgOK
<1>4. m.type = "ack" => m.ack \in Nat /\ 1 <= m.ack /\ m.ack <= rcvLastAck'
  BY <1>2 DEF MsgOK
<1>5. m.type = "nak" => m.lo \in Nat /\ m.hi \in Nat /\ m.hi <= rcvCurrSeqNo'
  BY <1>2 DEF MsgOK
<1>6. ASSUME m.type = "drop"
      PROVE  /\ m.msg \in DOMAIN written' /\ m.lo \in Nat /\ In(m.lo, m.msg)'
             /\ m.hi = LastOf(m.msg)' + 1 /\ m.hi <= sndCurrSeqNo'
  <2>1. PICK k : k = m.msg
    OBVIOUS
  <2>2. /\ k \in DOMAIN written /\ m.lo \in Nat /\ In(m.lo, k)
        /\ m.hi = LastOf(k) + 1 /\ m.hi <= sndCurrSeqNo
    BY <1>6, <2>1 DEF MsgOK
  <2>3. FirstOf(k)' = FirstOf(k) /\ LastOf(k)' = LastOf(k) /\ k \in DOMAIN written'
    BY <1>1, <2>2
  <2>4. LastOf(k) \in Nat
    BY <2>2, MessageFacts
  <2>5. m.hi = LastOf(k)' + 1 /\ m.hi <= sndCurrSeqNo'
    BY <1>2, <2>2, <2>3, <2>4
  <2>6. In(m.lo, k)'
    BY <2>2, <2>3 DEF In
  <2> QED  BY <2>1, <2>2, <2>3, <2>5, <2>6
<1> QED  BY <1>3, <1>4, <1>5, <1>6 DEF MsgOK

\* What A has released B has, or a drop request named a part of its message.
LEMMA ReleasedFollows ==
  ASSUME WrittenOK, NumInv, RcvInv
  PROVE  AllReleasedKept
<1> SUFFICES ASSUME NEW block \in 1 .. (sndLastAck - 1),
                    ~(block >= SndEnd), ~Stored(block), ~Delivered(block)
             PROVE  \E x \in FirstOf(MessageOf(block)) .. LastOf(MessageOf(block)) :
                        DropRequested(x)
  BY DEF AllReleasedKept
<1>1. PICK s, b, r :
          /\ s \in Nat /\ b = buf /\ r = read /\ s + RcvDataSize(b) = rcvLastAck
          /\ RingInv(b, s, r)
  BY DEF RcvInv
<1>2. /\ RingOK(b, s) /\ UnitsFit(b, s, r) /\ AckedKept(b, s) /\ GoneEnded(s, r)
      /\ b \in Buffers /\ s \in Int /\ RcvDataSize(b) \in Nat
      /\ RcvDataSize(b) < RcvBufSize /\ RcvBufSize \in Nat
      /\ Positions = 0 .. (RcvBufSize - 1) /\ b.start \in Positions
  BY <1>1, Ring DEF RingInv, RingBase, RingOK, Positions
<1>3. SndEnd \in Nat
  BY MessageFacts
<1>4. block \in Blocks /\ block \in Int /\ block < rcvLastAck
  BY <1>3 DEF NumInv, Blocks
<1>5. PICK k : k = MessageOf(block)
  OBVIOUS
<1>6. /\ k \in DOMAIN written /\ In(block, k) /\ FirstOf(k) \in Nat /\ LastOf(k) \in Nat
      /\ block \in FirstOf(k) .. LastOf(k)
  BY <1>4, <1>5, OfBlock, MessageFacts DEF In
<1>7. ~ReadWhole(r, k)
  <2> SUFFICES ASSUME NEW i \in DOMAIN r, r[i] = written[k].blocks
               PROVE  FALSE
    BY DEF ReadWhole
  <2> DEFINE n == block - FirstOf(k) + 1
  <2>1. written[k].blocks = [x \in 1 .. (LastOf(k) - FirstOf(k) + 1) |-> FirstOf(k) + x - 1]
    BY <1>6, BlocksOfMessage
  <2>2. n \in 1 .. (LastOf(k) - FirstOf(k) + 1) /\ FirstOf(k) + n - 1 = block
    BY <1>4, <1>6
  <2> HIDE DEF n
  <2>3. n \in DOMAIN r[i] /\ r[i][n] = block
    BY <2>1, <2>2
  <2> QED  BY <1>1, <2>3 DEF Delivered
<1>8. Doomed(k) => \E x \in FirstOf(MessageOf(block)) .. LastOf(MessageOf(block)) :
                       DropRequested(x)
  BY <1>5 DEF Doomed
<1>9. CASE block < s
  <2>1. FirstOf(k) < s
    BY <1>1, <1>4, <1>6, <1>9
  <2> QED  BY <1>2, <1>6, <1>7, <1>8, <2>1 DEF GoneEnded
<1>10. CASE ~(block < s)
  <2>1. PICK j \in Int : block = s + j
    <3>1. block - s \in Int /\ block = s + (block - s)
      BY <1>2, <1>4
    <3> QED  BY <3>1
  <2>2. j \in Positions /\ j < RcvDataSize(b)
    BY <1>1, <1>2, <1>4, <1>10, <2>1
  <2>3. UnitAt(b, j) = NoUnit
    <3> SUFFICES ASSUME UnitAt(b, j) # NoUnit
                 PROVE  FALSE
      OBVIOUS
    <3>1. UnitAt(b, j).block = block
      BY <1>2, <2>1, <2>2, StoredUnit
    <3>2. At(b.start, j) \in Positions
      BY <1>2, <2>2, Places
    <3> QED  BY <1>1, <3>1, <3>2 DEF UnitAt, Stored
  <2>4. ~IsGood(b, At(b.start, j))
    BY <2>3, EmptyPlace
  <2>5. Doomed(k)
    BY <1>2, <1>6, <1>7, <2>1, <2>2, <2>4, NotGood
  <2> QED  BY <1>8, <2>5
<1> QED  BY <1>9, <1>10

\* Steps of A leave B as it is.
LEMMA SenderKeeps ==
  ASSUME Inv, ~overrun, WrittenGrows, net \subseteq net', UNCHANGED rcvVars, NumInv',
         \A m \in net' : m \in net \/ MsgOK(m)',
         ~broken', sndCurrSeqNo <= sndCurrSeqNo',
         \A k \in DOMAIN written' \ DOMAIN written : rcvLastAck <= FirstOf(k)'
  PROVE  Inv'
<1>1. /\ WrittenOK /\ NumInv /\ NetInv /\ ReadOK(read) /\ buf \in Buffers /\ RcvInv
  BY DEF Inv
<1>2. /\ WrittenOK' /\ DOMAIN written \subseteq DOMAIN written'
      /\ \A k \in DOMAIN written : written'[k] = written[k]
  BY DEF WrittenGrows
<1>3. /\ rcvCurrSeqNo' = rcvCurrSeqNo /\ rcvLastAck' = rcvLastAck /\ rcvLoss' = rcvLoss
      /\ buf' = buf /\ overrun' = overrun /\ read' = read
  BY DEF rcvVars
<1>4. NetInv'
  <2>1. rcvLastAck <= rcvLastAck' /\ rcvCurrSeqNo <= rcvCurrSeqNo'
    BY <1>1, <1>3 DEF NumInv
  <2>2. ASSUME NEW m \in net
        PROVE  MsgOK(m)'
    <3>1. MsgOK(m)
      BY <1>1 DEF NetInv
    <3> QED  BY <1>1, <2>1, <3>1, NetFrame
  <2> QED  BY <2>2 DEF NetInv
<1>5. ReadOK(read)'
  <2>1. \A i \in DOMAIN read : \E k \in DOMAIN written' : read[i] = written'[k].blocks
    BY <1>1, <1>2 DEF ReadOK
  <2> QED  BY <1>1, <1>3, <2>1 DEF ReadOK
<1>6. RcvInv'
  <2>1. PICK s, b, r, loss, curr :
            /\ s \in Nat /\ b = buf /\ r = read
            /\ loss = rcvLoss /\ curr = rcvCurrSeqNo
            /\ s + RcvDataSize(b) = rcvLastAck /\ RingInv(b, s, r) /\ LossInv(b, s, loss, curr)
    BY <1>1 DEF RcvInv
  <2>2. s <= rcvLastAck /\ rcvLastAck \in Nat /\ curr \in Nat
    <3>1. RcvDataSize(b) \in Nat
      BY <1>1, <2>1, Ring DEF Positions
    <3> QED  BY <1>1, <2>1, <3>1 DEF NumInv
  <2>3. \A k \in DOMAIN written' \ DOMAIN written : s <= FirstOf(k)'
    <3>1. \A k \in DOMAIN written' : FirstOf(k)' \in Nat
      BY <1>2, WrittenImpliesNext DEF WrittenFacts
    <3> QED  BY <2>1, <2>2, <3>1
  <2>4. RingInv(b, s, r)' /\ LossInv(b, s, loss, curr)'
    BY <1>1, <2>1, <2>2, <2>3, RingFrame
  <2> QED  BY <1>3, <2>1, <2>4 DEF RcvInv
<1>7. HonestPeerTrusted' /\ ~overrun' /\ buf' \in Buffers
  BY <1>1, <1>3 DEF HonestPeerTrusted
<1> QED  BY <1>2, <1>4, <1>5, <1>6, <1>7 DEF Inv

\* Steps of B leave A as it is.
LEMMA ReceiverKeeps ==
  ASSUME Inv, UNCHANGED sndVars, net \subseteq net', NumInv',
         \A m \in net' : m \in net \/ MsgOK(m)',
         rcvLastAck <= rcvLastAck', rcvCurrSeqNo <= rcvCurrSeqNo', ~overrun',
         NEW b \in Buffers, NEW s \in Nat, NEW r, NEW loss, NEW curr,
         buf' = b, read' = r, rcvLoss' = loss, rcvCurrSeqNo' = curr,
         s + RcvDataSize(b) = rcvLastAck', ReadOK(r),
         RingInv(b, s, r), LossInv(b, s, loss, curr)
  PROVE  Inv'
<1>1. /\ WrittenOK /\ NumInv /\ NetInv /\ HonestPeerTrusted
  BY DEF Inv
<1>2. /\ written' = written /\ broken' = broken /\ sndCurrSeqNo' = sndCurrSeqNo
  BY DEF sndVars
<1>3. WrittenGrows
  BY <1>1, <1>2, SameWritten
<1>4. WrittenOK' /\ DOMAIN written' \ DOMAIN written = {}
  BY <1>2, <1>3 DEF WrittenGrows
<1>5. NetInv'
  <2>1. sndCurrSeqNo <= sndCurrSeqNo'
    BY <1>1, <1>2 DEF NumInv
  <2>2. ASSUME NEW m \in net
        PROVE  MsgOK(m)'
    <3>1. MsgOK(m)
      BY <1>1 DEF NetInv
    <3> QED  BY <1>1, <1>3, <2>1, <3>1, NetFrame
  <2> QED  BY <2>2 DEF NetInv
<1>6. ReadOK(read)'
  BY <1>2 DEF ReadOK
<1>7. RcvInv'
  <2>1. curr \in Nat
    BY DEF NumInv
  <2>2. RingInv(b, s, r)' /\ LossInv(b, s, loss, curr)'
    BY <1>1, <1>3, <1>4, <2>1, RingFrame
  <2> QED  BY <2>2 DEF RcvInv
<1>8. HonestPeerTrusted'
  BY <1>1, <1>2 DEF HonestPeerTrusted
<1> QED  BY <1>4, <1>5, <1>6, <1>7, <1>8 DEF Inv

-----------------------------------------------------------------------------
(* The steps of A.                                                         *)

\* The number Smallest picks is in the list and at most every other.
LEMMA SmallestOf ==
  ASSUME NEW S, NEW i \in Int, NEW j \in Int, S \subseteq i .. j, S # {}
  PROVE  Smallest(S) \in S /\ \A n \in S : Smallest(S) <= n
<1>1. IsFiniteSet(S)
  <2>1. IsFiniteSet(i .. j)
    BY FS_Interval
  <2> QED  BY <2>1, FS_Subset
<1>2. S \in SUBSET Int
  OBVIOUS
<1>3. \E m \in S : \A n \in S : m <= n
  BY <1>1, <1>2, LeastOf
<1> QED  BY <1>3 DEF Smallest

\* The numbers, taken out of the invariant.
LEMMA NumTypes ==
  ASSUME Inv
  PROVE  /\ WrittenOK /\ NumInv
         /\ sndNext \in Nat /\ sndCurrSeqNo \in Nat /\ sndLastAck \in Nat
         /\ rcvLastAck \in Nat /\ rcvCurrSeqNo \in Nat /\ SndEnd \in Nat
         /\ sndNext <= SndEnd /\ sndNext <= sndCurrSeqNo + 1
         /\ 1 <= sndLastAck /\ sndLastAck <= rcvLastAck /\ sndLastAck <= sndNext
         /\ rcvLastAck <= rcvCurrSeqNo + 1 /\ rcvCurrSeqNo <= sndCurrSeqNo
         /\ sndLoss \subseteq sndLastAck .. sndCurrSeqNo
         /\ rcvLoss \subseteq rcvLastAck .. rcvCurrSeqNo
         /\ ~broken /\ \A m \in net : MsgOK(m)
BY MessageFacts DEF Inv, NumInv, HonestPeerTrusted, NetInv

\* A message that is written is sent later: its blocks have no number yet.
LEMMA AppSendMsgKeeps ==
  ASSUME Inv, ~overrun, Numbered, AppSendMsg
  PROVE  Inv'
<1>1. PICK n \in MessageSizes, option \in Options :
          written' = Append(written, [blocks |-> [i \in 1 .. n |-> SndEnd + i - 1],
                                      order |-> option.order, ttl |-> option.ttl])
  BY DEF AppSendMsg
<1>2. n \in Nat \ {0} /\ option.order \in BOOLEAN /\ option.ttl \in BOOLEAN
  BY MessageAssumption
<1>3. /\ UNCHANGED rcvVars /\ net' = net /\ broken' = broken /\ sndLoss' = sndLoss
      /\ sndNext' = sndNext /\ sndCurrSeqNo' = sndCurrSeqNo /\ sndLastAck' = sndLastAck
      /\ rcvCurrSeqNo' = rcvCurrSeqNo /\ rcvLastAck' = rcvLastAck /\ rcvLoss' = rcvLoss
      /\ overrun' = overrun
  BY DEF AppSendMsg, rcvVars
<1>4. PICK e \in Nat, f \in Nat : e = SndEnd /\ f = SndEnd' /\ e <= f
  <2>1. PICK e, f : e = SndEnd /\ f = SndEnd'
    OBVIOUS
  <2>2. f = e + n
    BY <1>1, <1>2, <2>1, NumTypes, WriteKeeps
  <2>3. e \in Nat
    BY <2>1, NumTypes
  <2> QED  BY <1>2, <2>1, <2>2, <2>3
<1>5. /\ WrittenOK' /\ DOMAIN written' = DOMAIN written \cup {Len(written) + 1}
      /\ \A k \in DOMAIN written : /\ written'[k] = written[k]
                                   /\ FirstOf(k)' = FirstOf(k) /\ LastOf(k)' = LastOf(k)
      /\ Len(written') = Len(written) + 1
      /\ FirstOf(Len(written))' = SndEnd
  BY <1>1, <1>2, NumTypes, WriteKeeps
<1>6. WrittenGrows
  BY <1>4, <1>5 DEF WrittenGrows
<1>7. NumInv'
  <2>1. sndNext <= f
    BY <1>4, NumTypes
  <2> QED  BY <1>3, <1>4, <2>1, NumTypes DEF NumInv
<1>8. ASSUME NEW k \in DOMAIN written' \ DOMAIN written
      PROVE  rcvLastAck <= FirstOf(k)'
  <2>1. k = Len(written')
    BY <1>5, <1>8
  <2>2. FirstOf(k)' = e
    BY <1>4, <1>5, <2>1
  <2> QED  BY <1>4, <2>2, NumTypes DEF Numbered
<1> QED  BY <1>3, <1>6, <1>7, <1>8, NumTypes, SenderKeeps

\* The next block is sent with the next number.
LEMMA SendNewKeeps ==
  ASSUME Inv, ~overrun, Numbered, SendNew
  PROVE  Inv'
<1>1. /\ UNCHANGED rcvVars /\ broken' = broken /\ sndLoss' = sndLoss /\ sndLoss = {}
      /\ sndNext' = sndNext + 1 /\ sndCurrSeqNo' = sndCurrSeqNo + 1
      /\ sndLastAck' = sndLastAck /\ written' = written
      /\ rcvCurrSeqNo' = rcvCurrSeqNo /\ rcvLastAck' = rcvLastAck /\ rcvLoss' = rcvLoss
      /\ overrun' = overrun /\ sndNext < SndEnd
      /\ net' = net \cup {Data(sndCurrSeqNo + 1, sndNext)}
  BY DEF SendNew, rcvVars
<1>2. WrittenGrows /\ SndEnd' = SndEnd
  BY <1>1, NumTypes, SameWritten
<1>3. PICK e \in Nat : e = SndEnd /\ e = SndEnd'
  BY <1>2, NumTypes
<1>4. NumInv'
  <2>1. sndNext + 1 <= e /\ sndNext <= sndCurrSeqNo + 1
    BY <1>1, <1>3, NumTypes
  <2> QED  BY <1>1, <1>3, <2>1, NumTypes DEF NumInv
<1>5. PICK x, m : /\ x \in Nat /\ x = sndNext /\ x = sndCurrSeqNo + 1
                          /\ m = Data(x, x) /\ m = Data(sndCurrSeqNo + 1, sndNext)
  BY NumTypes DEF Numbered
<1>6. MsgOK(m)'
  <2>1. x \in 1 .. (e - 1) /\ x <= sndCurrSeqNo'
    BY <1>1, <1>3, <1>5, NumTypes
  <2>2. x \in Blocks'
    BY <1>3, <2>1 DEF Blocks
  <2>3. m.type = "data" /\ m.seq = x /\ m.block = x
    BY <1>5 DEF Data
  <2> QED  BY <2>1, <2>2, <2>3 DEF MsgOK
<1>7. \A l \in net' : l \in net \/ MsgOK(l)'
  BY <1>1, <1>5, <1>6
<1>8. ~broken' /\ sndCurrSeqNo <= sndCurrSeqNo' /\ net \subseteq net'
      /\ DOMAIN written' \ DOMAIN written = {}
  BY <1>1, NumTypes
<1> QED  BY <1>1, <1>2, <1>4, <1>7, <1>8, SenderKeeps

\* A lost number is that of a block.
LEMMA LostBlock ==
  ASSUME Inv, Numbered, sndLoss # {}, NEW seq, seq = Smallest(sndLoss)
  PROVE  /\ seq \in Nat /\ seq \in Blocks /\ seq <= sndCurrSeqNo /\ seq \in sndLoss
         /\ sndLastAck <= seq
<1>1. seq \in sndLoss
  <2>1. /\ sndLastAck \in Int /\ sndCurrSeqNo \in Int
        /\ sndLoss \subseteq sndLastAck .. sndCurrSeqNo
    BY NumTypes
  <2> QED  BY <2>1, SmallestOf
<1>2. seq \in Nat /\ sndLastAck <= seq /\ seq <= sndCurrSeqNo
  BY <1>1, NumTypes
<1>3. PICK e \in Nat : e = SndEnd
  BY NumTypes
<1>4. seq \in 1 .. (e - 1)
  BY <1>2, <1>3, NumTypes DEF Numbered
<1> QED  BY <1>1, <1>2, <1>3, <1>4 DEF Blocks

\* A lost block is sent again with its number.
LEMMA RetransmitKeeps ==
  ASSUME Inv, ~overrun, Numbered, Retransmit
  PROVE  Inv'
<1>1. /\ UNCHANGED rcvVars /\ broken' = broken /\ sndLoss' \subseteq sndLoss
      /\ sndNext' = sndNext /\ sndCurrSeqNo' = sndCurrSeqNo /\ sndLoss # {}
      /\ sndLastAck' = sndLastAck /\ written' = written
      /\ rcvCurrSeqNo' = rcvCurrSeqNo /\ rcvLastAck' = rcvLastAck /\ rcvLoss' = rcvLoss
      /\ overrun' = overrun
      /\ net' = net \cup {Data(Smallest(sndLoss), Smallest(sndLoss))}
  BY DEF Retransmit, rcvVars
<1>2. WrittenGrows /\ SndEnd' = SndEnd
  BY <1>1, NumTypes, SameWritten
<1>3. PICK e \in Nat : e = SndEnd /\ e = SndEnd'
  BY <1>2, NumTypes
<1>4. NumInv'
  <2>1. sndNext <= e /\ sndLoss' \subseteq sndLastAck .. sndCurrSeqNo
    BY <1>1, <1>3, NumTypes
  <2> QED  BY <1>1, <1>3, <2>1, NumTypes DEF NumInv
<1>5. PICK x, m : x = Smallest(sndLoss) /\ m = Data(x, x)
  OBVIOUS
<1>6. MsgOK(m)'
  <2>1. x \in Nat /\ x \in Blocks /\ x <= sndCurrSeqNo'
    BY <1>1, <1>5, LostBlock
  <2>2. x \in Blocks'
    BY <1>2, <2>1, NumTypes, SameMessage
  <2>3. m.type = "data" /\ m.seq = x /\ m.block = x
    BY <1>5 DEF Data
  <2> QED  BY <2>1, <2>2, <2>3 DEF MsgOK
<1>7. \A l \in net' : l \in net \/ MsgOK(l)'
  BY <1>1, <1>5, <1>6
<1>8. ~broken' /\ sndCurrSeqNo <= sndCurrSeqNo' /\ net \subseteq net'
      /\ DOMAIN written' \ DOMAIN written = {}
  BY <1>1, NumTypes
<1> QED  BY <1>1, <1>2, <1>4, <1>7, <1>8, SenderKeeps

\* The drop request of a lost block of an expired message: A skips the rest of
\* the message, and its number passes the end that the request names.
LEMMA ExpireKeeps ==
  ASSUME Inv, ~overrun, Numbered, Expire
  PROVE  Inv'
<1>1. PICK seq, k, hi : seq = Smallest(sndLoss) /\ k = MessageOf(seq) /\ hi = LastOf(k) + 1
  OBVIOUS
<1>2. hi = DropEnd(seq)
  BY <1>1 DEF DropEnd
<1>3. /\ UNCHANGED rcvVars /\ broken' = broken /\ sndLoss # {}
      /\ sndLastAck' = sndLastAck /\ written' = written
      /\ rcvCurrSeqNo' = rcvCurrSeqNo /\ rcvLastAck' = rcvLastAck /\ rcvLoss' = rcvLoss
      /\ overrun' = overrun
      /\ net' = net \cup {Drop(k, seq, hi)}
      /\ sndLoss' \subseteq sndLoss
      /\ sndCurrSeqNo' = Larger(sndCurrSeqNo, hi + 1)
      /\ sndNext' = (IF sndNext \in (seq + 1) .. LastOf(k) THEN LastOf(k) + 1 ELSE sndNext)
  BY <1>1, <1>2 DEF Expire, rcvVars, CurrSeqNoAfter
<1>4. /\ seq \in Nat /\ seq \in Blocks /\ seq <= sndCurrSeqNo
  BY <1>1, <1>3, LostBlock
<1>5. k \in DOMAIN written /\ In(seq, k)
  BY <1>1, <1>4, NumTypes, OfBlock
<1>6. WrittenGrows /\ SndEnd' = SndEnd /\ LastOf(k)' = LastOf(k) /\ FirstOf(k)' = FirstOf(k)
  BY <1>3, NumTypes, SameWritten
<1>7. PICK e \in Nat, last \in Nat : /\ e = SndEnd /\ e = SndEnd' /\ last = LastOf(k)
                                     /\ last = LastOf(k)' /\ last < e
  BY <1>5, <1>6, NumTypes, MessageFacts
<1>8. hi \in Nat /\ hi = last + 1
  BY <1>1, <1>7
<1>9. /\ sndCurrSeqNo' \in Nat /\ sndCurrSeqNo <= sndCurrSeqNo' /\ hi + 1 <= sndCurrSeqNo'
      /\ hi <= sndCurrSeqNo'
  <2>1. sndCurrSeqNo' = IF sndCurrSeqNo < hi + 1 THEN hi + 1 ELSE sndCurrSeqNo
    BY <1>3 DEF Larger
  <2>2. sndCurrSeqNo \in Nat
    BY NumTypes
  <2> QED  BY <1>8, <2>1, <2>2
<1>10. /\ sndNext' \in Nat /\ sndNext <= sndNext' /\ sndNext' <= e
       /\ sndNext' <= sndCurrSeqNo' + 1
  <2>1. sndNext' = (IF sndNext \in (seq + 1) .. last THEN last + 1 ELSE sndNext)
    BY <1>3, <1>7
  <2>2. CASE sndNext \in (seq + 1) .. last
    BY <1>4, <1>7, <1>8, <1>9, <2>1, <2>2, NumTypes
  <2>3. CASE ~(sndNext \in (seq + 1) .. last)
    BY <1>7, <1>9, <2>1, <2>3, NumTypes
  <2> QED  BY <2>2, <2>3
<1>11. NumInv'
  <2>1. sndLoss' \subseteq sndLastAck' .. sndCurrSeqNo'
    BY <1>3, <1>9, NumTypes
  <2>2. sndLastAck' <= sndNext' /\ rcvCurrSeqNo' <= sndCurrSeqNo' /\ 1 <= sndLastAck'
    BY <1>3, <1>9, <1>10, NumTypes
  <2>3. sndNext' <= SndEnd'
    BY <1>7, <1>10
  <2> QED  BY <1>3, <1>9, <1>10, <2>1, <2>2, <2>3, NumTypes DEF NumInv
<1>12. PICK m : m = Drop(k, seq, hi)
  OBVIOUS
<1>13. MsgOK(m)'
  <2>1. m.type = "drop" /\ m.msg = k /\ m.lo = seq /\ m.hi = hi
    BY <1>12 DEF Drop
  <2>2. In(seq, k)'
    BY <1>5, <1>6 DEF In
  <2>3. k \in DOMAIN written' /\ hi = LastOf(k)' + 1
    BY <1>3, <1>5, <1>7, <1>8
  <2> QED  BY <1>4, <1>9, <2>1, <2>2, <2>3 DEF MsgOK
<1>14. \A l \in net' : l \in net \/ MsgOK(l)'
  BY <1>3, <1>12, <1>13
<1>15. ~broken' /\ net \subseteq net' /\ DOMAIN written' \ DOMAIN written = {}
  BY <1>3, NumTypes
<1> QED  BY <1>3, <1>6, <1>9, <1>11, <1>14, <1>15, SenderKeeps

\* An ACK or NAK of B asks for nothing that was not sent, so that A trusts B.
LEMMA SenderHearsKeeps ==
  ASSUME Inv, ~overrun, Numbered, NEW m \in net, RecvAck(m) \/ RecvNak(m)
  PROVE  Inv'
<1>1. /\ UNCHANGED rcvVars /\ net' = net /\ written' = written
      /\ sndNext' = sndNext /\ sndCurrSeqNo' = sndCurrSeqNo
      /\ rcvCurrSeqNo' = rcvCurrSeqNo /\ rcvLastAck' = rcvLastAck /\ rcvLoss' = rcvLoss
      /\ overrun' = overrun
  BY DEF RecvAck, RecvNak, rcvVars
<1>2. WrittenGrows /\ SndEnd' = SndEnd
  BY <1>1, NumTypes, SameWritten
<1>3. PICK e \in Nat : e = SndEnd /\ e = SndEnd'
  BY <1>2, NumTypes
<1>4. MsgOK(m)
  BY NumTypes
<1>5. /\ sndLastAck' \in Nat /\ 1 <= sndLastAck' /\ sndLastAck' <= rcvLastAck
      /\ sndLastAck' <= sndNext /\ sndLoss' \subseteq sndLastAck' .. sndCurrSeqNo /\ ~broken'
  <2>1. CASE RecvAck(m)
    <3>1. m.ack \in Nat /\ 1 <= m.ack /\ m.ack <= rcvLastAck
      BY <1>4, <2>1 DEF MsgOK, RecvAck
    <3>2. m.ack <= sndCurrSeqNo + 1 /\ m.ack <= sndNext
      BY <3>1, NumTypes DEF Numbered
    <3>3. /\ sndLastAck' = m.ack /\ sndLoss' = {s \in sndLoss : s >= m.ack}
          /\ broken' = broken
      BY <2>1, <3>1, <3>2, NumTypes DEF RecvAck
    <3> QED  BY <3>1, <3>2, <3>3, NumTypes
  <2>2. CASE RecvNak(m)
    <3>1. m.lo \in Nat /\ m.hi \in Nat /\ m.hi <= sndCurrSeqNo
      BY <1>4, <2>2, NumTypes DEF MsgOK, RecvNak
    <3>2. /\ sndLoss' = sndLoss \cup (Larger(m.lo, sndLastAck) .. m.hi) /\ broken' = broken
          /\ sndLastAck' = sndLastAck
      BY <2>2, <3>1, NumTypes DEF RecvNak
    <3>3. Larger(m.lo, sndLastAck) \in Nat /\ sndLastAck <= Larger(m.lo, sndLastAck)
      BY <3>1, NumTypes DEF Larger
    <3> QED  BY <3>1, <3>2, <3>3, NumTypes
  <2> QED  BY <2>1, <2>2
<1>6. NumInv'
  <2>1. sndNext <= e
    BY <1>3, NumTypes
  <2> QED  BY <1>1, <1>3, <1>5, <2>1, NumTypes DEF NumInv
<1>7. /\ sndCurrSeqNo <= sndCurrSeqNo' /\ net \subseteq net' /\ net' \subseteq net
      /\ DOMAIN written' \ DOMAIN written = {}
  BY <1>1, NumTypes
<1> QED  BY <1>1, <1>2, <1>5, <1>6, <1>7, SenderKeeps

\* The timer adds to the loss list what was sent and is not acknowledged.
LEMMA ExpTimerKeeps ==
  ASSUME Inv, ~overrun, ExpTimer
  PROVE  Inv'
<1>1. /\ UNCHANGED rcvVars /\ broken' = broken /\ net' = net /\ written' = written
      /\ sndNext' = sndNext /\ sndCurrSeqNo' = sndCurrSeqNo /\ sndLastAck' = sndLastAck
      /\ sndLoss' = sndLastAck .. sndCurrSeqNo
      /\ rcvCurrSeqNo' = rcvCurrSeqNo /\ rcvLastAck' = rcvLastAck /\ rcvLoss' = rcvLoss
      /\ overrun' = overrun
  BY DEF ExpTimer, rcvVars
<1>2. WrittenGrows /\ SndEnd' = SndEnd
  BY <1>1, NumTypes, SameWritten
<1>3. PICK e \in Nat : e = SndEnd /\ e = SndEnd'
  BY <1>2, NumTypes
<1>4. NumInv'
  <2>1. sndNext <= e
    BY <1>3, NumTypes
  <2> QED  BY <1>1, <1>3, <2>1, NumTypes DEF NumInv
<1>5. /\ ~broken' /\ sndCurrSeqNo <= sndCurrSeqNo' /\ net \subseteq net' /\ net' \subseteq net
      /\ DOMAIN written' \ DOMAIN written = {}
  BY <1>1, NumTypes
<1> QED  BY <1>1, <1>2, <1>4, <1>5, SenderKeeps

-----------------------------------------------------------------------------
(* The steps of B.                                                         *)

\* A packet is stored at the place of its number, unless there is one already.
LEMMA RecvDataKeeps ==
  ASSUME Inv, ~overrun, NEW m \in net, RecvData(m)
  PROVE  Inv'
<1>1. PICK seq : seq = m.seq
  OBVIOUS
<1>2. /\ seq \in Nat /\ seq \in Blocks /\ m.block = seq /\ seq <= sndCurrSeqNo
  <2>1. MsgOK(m) /\ m.type = "data"
    BY NumTypes DEF RecvData
  <2>2. seq \in Blocks /\ m.block = seq /\ seq <= sndCurrSeqNo
    BY <1>1, <2>1 DEF MsgOK
  <2> QED  BY <2>2, NumTypes DEF Blocks
<1>3. /\ UNCHANGED sndVars /\ rcvLastAck' = rcvLastAck /\ overrun' = overrun /\ read' = read
      /\ written' = written /\ sndNext' = sndNext /\ sndCurrSeqNo' = sndCurrSeqNo
      /\ sndLastAck' = sndLastAck /\ sndLoss' = sndLoss
      /\ seq >= rcvLastAck /\ seq - rcvLastAck < AvailBufSize(buf)
      /\ ~Occupied(buf, At(buf.ack, seq - rcvLastAck))
      /\ buf' = AddData(buf, UnitOf(seq), seq - rcvLastAck)
      /\ rcvLoss' = LossAfter(seq)
      /\ rcvCurrSeqNo' = Larger(rcvCurrSeqNo, seq)
      /\ net' = IF seq > rcvCurrSeqNo + 1
                THEN net \cup {Nak(rcvCurrSeqNo + 1, seq - 1)} ELSE net
  <2>1. m.block # 0
    BY <1>2 DEF Blocks
  <2> QED  BY <1>1, <1>2, <2>1 DEF RecvData, sndVars, PacketUnit
<1>4. /\ WrittenOK /\ NumInv /\ ReadOK(read) /\ RcvInv
  BY DEF Inv
<1>5. PICK n \in Nat : n = seq - rcvLastAck
  BY <1>2, <1>3, NumTypes
<1>6. PICK s, b, r, loss, curr, last :
          /\ s \in Nat /\ b = buf /\ r = read
          /\ loss = rcvLoss /\ curr = rcvCurrSeqNo /\ last = rcvLastAck
          /\ n = seq - last
          /\ s + RcvDataSize(b) = last /\ RingInv(b, s, r) /\ LossInv(b, s, loss, curr)
  BY <1>4, <1>5 DEF RcvInv
<1>7. /\ curr \in Nat /\ last \in Nat /\ RcvDataSize(b) \in Nat /\ last <= curr + 1
      /\ curr <= sndCurrSeqNo /\ sndCurrSeqNo \in Nat
      /\ loss \subseteq last .. curr /\ \A x \in loss : x <= curr
  <2>1. RcvDataSize(b) \in Nat
    BY <1>6, Ring DEF RingInv, RingBase, RingOK, Positions
  <2> QED  BY <1>6, <2>1, NumTypes
<1>8. seq = s + RcvDataSize(b) + n
  BY <1>2, <1>6, <1>7
<1>9. PICK c : c = AddData(b, UnitOf(seq), n)
  OBVIOUS
<1>10. c = buf'
  BY <1>3, <1>6, <1>9
<1>11. /\ RingInv(c, s, r) /\ RcvDataSize(c) = RcvDataSize(b)
       /\ UnitNo(b, s, seq) = NoUnit /\ UnitNo(c, s, seq) # NoUnit
       /\ \A x \in Int : x # seq => UnitNo(c, s, x) = UnitNo(b, s, x)
  <2>1. n < AvailBufSize(b) /\ ~Occupied(b, At(b.ack, n))
    BY <1>3, <1>6
  <2>2. WrittenOK /\ RingInv(b, s, r) /\ seq \in Blocks /\ n \in Nat
    BY <1>2, <1>4, <1>6
  <2> QED  BY ONLY <1>8, <1>9, <2>1, <2>2, StoreKeeps
<1>12. c \in Buffers
  BY <1>11 DEF RingInv, RingBase, RingOK
<1>13. PICK after, most :
           /\ after = (IF seq > curr THEN loss \cup ((curr + 1) .. (seq - 1))
                       ELSE loss \ {seq})
           /\ most = Larger(curr, seq)
  OBVIOUS
<1>14. after = rcvLoss' /\ most = rcvCurrSeqNo'
  BY <1>3, <1>6, <1>13 DEF LossAfter
<1>15. LossInv(c, s, after, most)
  BY <1>2, <1>6, <1>7, <1>11, <1>13, StoreLoss
<1>16. /\ most \in Nat /\ most = (IF curr < seq THEN seq ELSE curr) /\ curr <= most
       /\ seq <= most /\ most <= sndCurrSeqNo
  <2>1. most = IF curr < seq THEN seq ELSE curr
    BY <1>13 DEF Larger
  <2> QED  BY <1>2, <1>7, <2>1
<1>17. after \subseteq last .. most
  BY <1>2, <1>3, <1>6, <1>7, <1>13, <1>16
<1>18. WrittenGrows /\ SndEnd' = SndEnd
  BY <1>3, <1>4, SameWritten
<1>19. PICK e \in Nat : e = SndEnd /\ e = SndEnd'
  BY <1>18, NumTypes
<1>20. NumInv'
  <2>1. sndNext <= e /\ last <= most + 1
    BY <1>7, <1>16, <1>19, NumTypes
  <2> QED  BY <1>3, <1>6, <1>14, <1>16, <1>17, <1>19, <2>1, NumTypes DEF NumInv
<1>21. ASSUME NEW l \in net', l \notin net
       PROVE  MsgOK(l)'
  <2>1. l = Nak(curr + 1, seq - 1) /\ seq > curr + 1
    BY <1>3, <1>6, <1>21
  <2>2. l.type = "nak" /\ l.lo = curr + 1 /\ l.hi = seq - 1
    BY <2>1 DEF Nak
  <2>3. l.lo \in Nat /\ l.hi \in Nat /\ l.hi <= most
    BY <1>2, <1>7, <1>16, <2>1, <2>2
  <2> QED  BY <1>14, <2>2, <2>3 DEF MsgOK
<1>22. /\ rcvLastAck <= rcvLastAck' /\ rcvCurrSeqNo <= rcvCurrSeqNo' /\ ~overrun'
       /\ s + RcvDataSize(c) = rcvLastAck' /\ net \subseteq net' /\ read' = r /\ ReadOK(r)
  <2>1. rcvCurrSeqNo <= rcvCurrSeqNo'
    BY <1>6, <1>14, <1>16
  <2>2. ~overrun'
    BY <1>3, <1>4 DEF NumInv
  <2> QED  BY <1>3, <1>4, <1>6, <1>7, <1>11, <2>1, <2>2
<1> QED  BY <1>3, <1>6, <1>10, <1>11, <1>12, <1>14, <1>15, <1>20, <1>21, <1>22, ReceiverKeeps

\* A drop request takes the numbers it names off the loss list and marks units.
LEMMA RecvDropKeeps ==
  ASSUME Inv, ~overrun, NEW m \in net, RecvDrop(m)
  PROVE  Inv'
<1>1. PICK k, lo, hi : k = m.msg /\ lo = m.lo /\ hi = m.hi
  OBVIOUS
<1>2. /\ k \in DOMAIN written /\ lo \in Nat /\ hi \in Nat /\ lo \in FirstOf(k) .. LastOf(k)
      /\ lo <= hi /\ hi <= sndCurrSeqNo /\ m.type = "drop"
  <2>1. MsgOK(m) /\ m.type = "drop"
    BY NumTypes DEF RecvDrop
  <2>2. /\ k \in DOMAIN written /\ lo \in Nat /\ In(lo, k)
        /\ hi = LastOf(k) + 1 /\ hi <= sndCurrSeqNo
    BY <1>1, <2>1 DEF MsgOK
  <2>3. FirstOf(k) \in Nat /\ LastOf(k) \in Nat
    BY <2>2, NumTypes, MessageFacts
  <2> QED  BY <2>1, <2>2, <2>3 DEF In
<1>3. \A x \in lo .. hi : DropRequested(x)
  BY <1>1, <1>2 DEF DropRequested
<1>4. Doomed(k)
  <2>1. lo \in lo .. hi
    BY <1>2
  <2> QED  BY <1>2, <1>3, <2>1 DEF Doomed
<1>5. /\ UNCHANGED sndVars /\ rcvLastAck' = rcvLastAck /\ overrun' = overrun /\ read' = read
      /\ written' = written /\ sndNext' = sndNext /\ sndCurrSeqNo' = sndCurrSeqNo
      /\ sndLastAck' = sndLastAck /\ sndLoss' = sndLoss /\ net' = net
      /\ buf' = DropMsg(buf, k)
      /\ rcvLoss' = rcvLoss \ (lo .. hi)
      /\ rcvCurrSeqNo' = IF lo <= rcvCurrSeqNo + 1 THEN Larger(rcvCurrSeqNo, hi)
                         ELSE rcvCurrSeqNo
  BY <1>1 DEF RecvDrop, sndVars
<1>6. /\ WrittenOK /\ NumInv /\ ReadOK(read) /\ RcvInv
  BY DEF Inv
<1>7. PICK s, b, r, loss, curr, last :
          /\ s \in Nat /\ b = buf /\ r = read
          /\ loss = rcvLoss /\ curr = rcvCurrSeqNo /\ last = rcvLastAck
          /\ s + RcvDataSize(b) = last /\ RingInv(b, s, r) /\ LossInv(b, s, loss, curr)
  BY <1>6 DEF RcvInv
<1>8. /\ curr \in Nat /\ last \in Nat /\ last <= curr + 1 /\ curr <= sndCurrSeqNo
      /\ sndCurrSeqNo \in Nat /\ loss \subseteq last .. curr
  BY <1>7, NumTypes
<1>9. PICK c, after, most :
          /\ c = DropMsg(b, k) /\ after = loss \ (lo .. hi)
          /\ most = IF lo <= curr + 1 THEN Larger(curr, hi) ELSE curr
  OBVIOUS
<1>10. c = buf' /\ after = rcvLoss' /\ most = rcvCurrSeqNo'
  BY <1>5, <1>7, <1>9
<1>11. RingInv(c, s, r) /\ LossInv(c, s, loss, curr) /\ RcvDataSize(c) = RcvDataSize(b)
  BY <1>4, <1>6, <1>7, <1>8, <1>9, DropKeeps
<1>12. c \in Buffers
  BY <1>11 DEF RingInv, RingBase, RingOK
<1>13. LossInv(c, s, after, most)
  <2>1. lo \in Int /\ hi \in Int /\ s \in Nat
    BY <1>2, <1>7
  <2>2. LossInv(c, s, loss \ (lo .. hi), most)
    BY ONLY <1>3, <1>8, <1>9, <1>11, <2>1, DropLoss
  <2> QED  BY <1>9, <2>2
<1>14. most \in Nat /\ curr <= most /\ most <= sndCurrSeqNo /\ after \subseteq last .. most
  <2>1. most = curr \/ (most = hi /\ curr < hi)
    BY <1>9 DEF Larger
  <2> QED  BY <1>2, <1>8, <1>9, <2>1
<1>15. WrittenGrows /\ SndEnd' = SndEnd
  BY <1>5, <1>6, SameWritten
<1>16. PICK e \in Nat : e = SndEnd /\ e = SndEnd'
  BY <1>15, NumTypes
<1>17. NumInv'
  <2>1. sndNext <= e /\ last <= most + 1
    BY <1>8, <1>14, <1>16, NumTypes
  <2> QED  BY <1>5, <1>7, <1>10, <1>14, <1>16, <2>1, NumTypes DEF NumInv
<1>18. /\ rcvLastAck <= rcvLastAck' /\ rcvCurrSeqNo <= rcvCurrSeqNo' /\ ~overrun'
       /\ s + RcvDataSize(c) = rcvLastAck' /\ net \subseteq net' /\ net' \subseteq net
       /\ read' = r /\ ReadOK(r)
  <2>1. rcvCurrSeqNo <= rcvCurrSeqNo'
    BY <1>7, <1>10, <1>14
  <2>2. ~overrun'
    BY <1>5, <1>6 DEF NumInv
  <2> QED  BY <1>5, <1>6, <1>7, <1>8, <1>11, <2>1, <2>2
<1> QED  BY <1>5, <1>7, <1>10, <1>11, <1>12, <1>13, <1>17, <1>18, ReceiverKeeps

\* What was released stays where it is when B's units do.
LEMMA ReleasedStays ==
  ASSUME WrittenOK, NumInv, AllReleasedKept, written' = written, read' = read,
         sndLastAck' = sndLastAck, buf'.unit = buf.unit, net \subseteq net'
  PROVE  AllReleasedKept'
<1>1. WrittenGrows /\ SndEnd' = SndEnd
      /\ \A k : FirstOf(k)' = FirstOf(k) /\ LastOf(k)' = LastOf(k)
  BY SameWritten
<1>2. PICK e \in Nat : e = SndEnd /\ e = SndEnd'
  BY <1>1, MessageFacts
<1> SUFFICES ASSUME NEW block \in 1 .. (sndLastAck - 1)
             PROVE  \/ block >= SndEnd' \/ Stored(block)' \/ Delivered(block)'
                    \/ \E x \in FirstOf(MessageOf(block))' .. LastOf(MessageOf(block))' :
                           DropRequested(x)'
  BY DEF AllReleasedKept
<1>3. \/ block >= SndEnd \/ Stored(block) \/ Delivered(block)
      \/ \E x \in FirstOf(MessageOf(block)) .. LastOf(MessageOf(block)) : DropRequested(x)
  BY DEF AllReleasedKept
<1>4. CASE block >= SndEnd
  BY <1>2, <1>4
<1>5. CASE Stored(block)
  BY <1>5 DEF Stored
<1>6. CASE Delivered(block)
  BY <1>6 DEF Delivered
<1>7. CASE /\ ~(block >= SndEnd)
           /\ \E x \in FirstOf(MessageOf(block)) .. LastOf(MessageOf(block)) : DropRequested(x)
  <2>1. PICK k : k = MessageOf(block)
    OBVIOUS
  <2>2. block \in Blocks
    <3>1. sndLastAck \in Nat
      BY DEF NumInv
    <3>2. ~(block >= e)
      BY <1>2, <1>7
    <3>3. block \in 1 .. (e - 1)
      BY <3>1, <3>2
    <3> QED  BY <1>2, <3>3 DEF Blocks
  <2>3. MessageOf(block)' = k
    BY <1>1, <2>1, <2>2, SameMessage
  <2>4. \A x : DropRequested(x) => DropRequested(x)'
    BY DEF DropRequested
  <2>5. PICK f, g : f = FirstOf(k) /\ g = LastOf(k)
    OBVIOUS
  <2>6. \E x \in f .. g : DropRequested(x)'
    BY <1>7, <2>1, <2>4, <2>5
  <2>7. FirstOf(MessageOf(block))' = f /\ LastOf(MessageOf(block))' = g
    <3>1. FirstOf(MessageOf(block))' = FirstOf(k)' /\ LastOf(MessageOf(block))' = LastOf(k)'
      BY <2>3 DEF FirstOf, LastOf, SizeOf
    <3> QED  BY <1>1, <2>5, <3>1
  <2> QED  BY <2>6, <2>7
<1> QED  BY <1>3, <1>4, <1>5, <1>6, <1>7

\* The ACK timer: units up to the first lost number are acknowledged, and the
\* ring may be overrun by it.
LEMMA AckTimerKeeps ==
  ASSUME Inv, ~overrun, AckTimer
  PROVE  Inv'
<1>1. PICK ack, n : ack = AckNo /\ n = ack - rcvLastAck
  OBVIOUS
<1>2. PICK c : c = AckData(buf, n)
  OBVIOUS
<1>3. /\ UNCHANGED sndVars /\ rcvCurrSeqNo' = rcvCurrSeqNo /\ rcvLoss' = rcvLoss
      /\ read' = read /\ written' = written /\ sndNext' = sndNext /\ broken' = broken
      /\ sndCurrSeqNo' = sndCurrSeqNo /\ sndLastAck' = sndLastAck /\ sndLoss' = sndLoss
      /\ n > 0 /\ rcvLastAck' = ack /\ buf' = c
      /\ overrun' = (RcvDataSize(buf) + n >= RcvBufSize)
      /\ \E w : net' = net \cup {Ack(ack, w)}
  BY <1>1, <1>2 DEF AckTimer, sndVars
<1>4. /\ WrittenOK /\ NumInv /\ NetInv /\ ReadOK(read) /\ RcvInv /\ buf \in Buffers
      /\ HonestPeerTrusted
  BY DEF Inv
<1>5. PICK s, b, r, loss, curr, last :
          /\ s \in Nat /\ b = buf /\ r = read
          /\ loss = rcvLoss /\ curr = rcvCurrSeqNo /\ last = rcvLastAck
          /\ s + RcvDataSize(b) = last /\ RingInv(b, s, r) /\ LossInv(b, s, loss, curr)
  BY <1>4 DEF RcvInv
<1>6. /\ curr \in Nat /\ last \in Nat /\ 1 <= last /\ last <= curr + 1
      /\ curr <= sndCurrSeqNo /\ sndCurrSeqNo \in Nat /\ loss \subseteq last .. curr
      /\ RcvDataSize(b) \in Nat /\ RcvBufSize \in Nat /\ b \in Buffers
  <2>1. RcvDataSize(b) \in Nat /\ RcvBufSize \in Nat /\ b \in Buffers
    BY <1>4, <1>5, Ring DEF Positions
  <2> QED  BY <1>5, <2>1, NumTypes
<1>7. ack \in Nat /\ last <= ack /\ ack <= curr + 1 /\ \A x \in loss : ack <= x
  <2>1. CASE loss = {}
    <3>1. ack = curr + 1
      BY <1>1, <1>5, <2>1 DEF AckNo
    <3> QED  BY <1>6, <2>1, <3>1
  <2>2. CASE loss # {}
    <3>1. ack = Smallest(loss)
      BY <1>1, <1>5, <2>2 DEF AckNo
    <3>2. last \in Int /\ curr \in Int
      BY <1>6
    <3>3. ack \in loss /\ \A x \in loss : ack <= x
      BY <1>6, <2>2, <3>1, <3>2, SmallestOf
    <3> QED  BY <1>6, <3>3
  <2> QED  BY <2>1, <2>2
<1>8. n \in Nat /\ ack = last + n
  BY <1>1, <1>5, <1>6, <1>7
<1>9. WrittenGrows /\ SndEnd' = SndEnd
  BY <1>3, <1>4, SameWritten
<1>10. PICK e \in Nat : e = SndEnd /\ e = SndEnd'
  BY <1>9, NumTypes
<1>11. NumInv'
  <2>1. sndNext <= e /\ sndLastAck <= ack /\ loss \subseteq ack .. curr
    BY <1>5, <1>6, <1>7, <1>10, NumTypes
  <2>2. overrun' \in BOOLEAN
    BY <1>3
  <2> QED  BY <1>3, <1>5, <1>6, <1>7, <1>10, <2>1, <2>2, NumTypes DEF NumInv
<1>12. ASSUME NEW l \in net', l \notin net
       PROVE  MsgOK(l)'
  <2>1. PICK w : l = Ack(ack, w)
    BY <1>3, <1>12
  <2>2. l.type = "ack" /\ l.ack = ack
    BY <2>1 DEF Ack
  <2>3. l.ack \in Nat /\ 1 <= l.ack /\ l.ack <= rcvLastAck'
    BY <1>3, <1>6, <1>7, <2>2
  <2> QED  BY <2>2, <2>3 DEF MsgOK
<1>13. /\ rcvLastAck <= rcvLastAck' /\ rcvCurrSeqNo <= rcvCurrSeqNo' /\ net \subseteq net'
  BY <1>3, <1>5, <1>6, <1>7
<1>14. CASE RcvDataSize(b) + n < RcvBufSize
  <2>1. s + RcvDataSize(b) + n <= curr + 1 /\ \A x \in loss : s + RcvDataSize(b) + n <= x
    <3>1. s + RcvDataSize(b) + n = ack
      BY <1>5, <1>6, <1>8
    <3> QED  BY <1>7, <3>1
  <2>2. c = AckData(b, n)
    BY <1>2, <1>5
  <2>3. /\ RingInv(c, s, r) /\ LossInv(c, s, loss, curr)
        /\ RcvDataSize(c) = RcvDataSize(b) + n
    <3>1. /\ WrittenOK /\ RingInv(b, s, r) /\ LossInv(b, s, loss, curr) /\ n \in Nat
          /\ curr \in Nat
      BY <1>4, <1>5, <1>6, <1>8
    <3> QED  BY ONLY <1>14, <2>1, <2>2, <3>1, AckKeeps
  <2>4. c \in Buffers
    BY <2>3 DEF RingInv, RingBase, RingOK
  <2>5. ~overrun'
    <3>1. ~(RcvDataSize(buf) + n >= RcvBufSize)
      BY <1>5, <1>6, <1>8, <1>14
    <3> QED  BY <1>3, <3>1
  <2>6. s + RcvDataSize(c) = rcvLastAck'
    BY <1>3, <1>5, <1>6, <1>8, <2>3
  <2>7. rcvLoss' = loss /\ rcvCurrSeqNo' = curr /\ read' = r /\ ReadOK(r)
    BY <1>3, <1>4, <1>5
  <2> QED  BY <1>3, <1>5, <1>11, <1>12, <1>13, <2>3, <2>4, <2>5, <2>6, <2>7, ReceiverKeeps
<1>15. CASE ~(RcvDataSize(b) + n < RcvBufSize)
  <2>1. overrun'
    <3>1. RcvDataSize(buf) + n >= RcvBufSize
      BY <1>5, <1>6, <1>8, <1>15
    <3> QED  BY <1>3, <3>1
  <2>2. buf' \in Buffers /\ buf'.unit = buf.unit
    BY <1>2, <1>3, <1>4, <1>8, AckDataUnits
  <2>3. AllReleasedKept
    BY <1>4, ReleasedFollows
  <2>4. AllReleasedKept'
    BY <1>3, <1>4, <1>13, <2>2, <2>3, ReleasedStays
  <2>5. NetInv'
    <3>1. sndCurrSeqNo <= sndCurrSeqNo'
      BY <1>3, NumTypes
    <3>2. ASSUME NEW l \in net
          PROVE  MsgOK(l)'
      <4>1. MsgOK(l)
        BY <1>4 DEF NetInv
      <4> QED  BY <1>4, <1>9, <1>11, <1>13, <3>1, <4>1, NetFrame
    <3> QED  BY <1>12, <3>2 DEF NetInv
  <2>6. ReadOK(read)'
    BY <1>3, <1>4 DEF ReadOK
  <2>7. HonestPeerTrusted' /\ WrittenOK'
    BY <1>3, <1>4, <1>9 DEF HonestPeerTrusted, WrittenGrows
  <2> QED  BY <1>11, <2>1, <2>2, <2>4, <2>5, <2>6, <2>7 DEF Inv
<1> QED  BY <1>14, <1>15

\* recvmsg: the ring is scanned, what is found is read, and is marked or given
\* back; in blocking mode it is scanned once more.
LEMMA AppRecvMsgKeeps ==
  ASSUME Inv, ~overrun, AppRecvMsg
  PROVE  Inv'
<1>1. /\ WrittenOK /\ NumInv /\ ReadOK(read) /\ RcvInv
  BY DEF Inv
<1>2. PICK s, b, r, loss, curr, last :
          /\ s \in Nat /\ b = buf /\ r = read
          /\ loss = rcvLoss /\ curr = rcvCurrSeqNo /\ last = rcvLastAck
          /\ s + RcvDataSize(b) = last /\ RingInv(b, s, r) /\ LossInv(b, s, loss, curr)
  BY <1>1 DEF RcvInv
<1>3. /\ curr \in Nat /\ last \in Nat /\ RcvDataSize(b) \in Nat
  <2>1. RcvDataSize(b) \in Nat
    BY <1>2, Ring DEF RingInv, RingBase, RingOK, Positions
  <2> QED  BY <1>2, <2>1, NumTypes
<1>4. PICK c : c = Scanned(b)
  OBVIOUS
<1>5. /\ UNCHANGED sndVars /\ rcvCurrSeqNo' = curr /\ rcvLastAck' = last
      /\ rcvLoss' = loss /\ overrun' = overrun /\ net' = net
      /\ written' = written /\ sndNext' = sndNext /\ sndCurrSeqNo' = sndCurrSeqNo
      /\ sndLastAck' = sndLastAck /\ sndLoss' = sndLoss
  BY <1>2 DEF AppRecvMsg, sndVars
<1>6. \/ \E f \in Found(c) : /\ buf' \in {ReadMsg(c, f), Scanned(ReadMsg(c, f))}
                             /\ read' = Append(r, BlocksOf(c, f))
      \/ buf' = c /\ read' = r
  BY <1>2, <1>4 DEF AppRecvMsg
<1>7. PICK n \in 0 .. RcvDataSize(b) :
          /\ RingInv(c, s + n, r) /\ LossInv(c, s + n, loss, curr)
          /\ RcvDataSize(c) = RcvDataSize(b) - n
          /\ Settled(c)
  BY ONLY <1>1, <1>2, <1>3, <1>4, ScanKeeps
<1>8. PICK t \in Nat : /\ t = s + n /\ RingInv(c, t, r) /\ LossInv(c, t, loss, curr)
                       /\ t + RcvDataSize(c) = last
  <2>1. s + n \in Nat /\ (s + n) + RcvDataSize(c) = last
    BY <1>2, <1>3, <1>7
  <2> QED  BY <1>7, <2>1
<1>9. /\ RcvDataSize(c) \in Nat
  BY <1>8, Ring DEF RingInv, RingBase, RingOK, Positions
<1>10. WrittenGrows /\ SndEnd' = SndEnd
  BY <1>1, <1>5, SameWritten
<1>11. NumInv'
  <2>1. PICK e \in Nat : e = SndEnd /\ e = SndEnd'
    BY <1>10, NumTypes
  <2>2. sndNext <= e
    BY <2>1, NumTypes
  <2> QED  BY <1>1, <1>2, <1>5, <2>1, <2>2, NumTypes DEF NumInv
<1>12. /\ rcvLastAck <= rcvLastAck' /\ rcvCurrSeqNo <= rcvCurrSeqNo' /\ ~overrun'
       /\ net \subseteq net' /\ net' \subseteq net
  BY <1>2, <1>3, <1>5
<1>13. ASSUME NEW d, NEW u \in Nat, NEW q, RingInv(d, u, q), LossInv(d, u, loss, curr),
              u + RcvDataSize(d) = last, buf' = d, read' = q, ReadOK(q)
       PROVE  Inv'
  <2>1. d \in Buffers
    BY <1>13 DEF RingInv, RingBase, RingOK
  <2> QED  BY <1>5, <1>11, <1>12, <1>13, <2>1, ReceiverKeeps
<1>14. CASE buf' = c /\ read' = r
  BY <1>1, <1>2, <1>8, <1>13, <1>14
<1>15. ASSUME NEW f \in Found(c), buf' \in {ReadMsg(c, f), Scanned(ReadMsg(c, f))},
              read' = Append(r, BlocksOf(c, f))
       PROVE  Inv'
  <2>1. PICK blocks, d, q : /\ blocks = BlocksOf(c, f) /\ d = ReadMsg(c, f)
                            /\ q = Append(r, blocks)
    OBVIOUS
  <2>2. RingBase(c, t, r)
    BY <1>8 DEF RingInv
  <2>3. PICK k \in DOMAIN written : blocks = written[k].blocks
    BY ONLY <1>1, <1>15, <2>1, <2>2, FoundMessage
  <2>4. blocks \in Seq(Nat) /\ r \in Seq(Seq(Nat))
    BY <1>1, <1>2, <2>3, MessageFacts DEF Written, ReadOK
  <2>5. /\ q \in Seq(Seq(Nat))
        /\ DOMAIN q = DOMAIN r \cup {Len(r) + 1}
        /\ \A i \in DOMAIN r : q[i] = r[i]
        /\ q[Len(r) + 1] = blocks
    <3>1. blocks \in Seq(Nat) /\ r \in Seq(Seq(Nat)) /\ q = Append(r, blocks)
      BY <2>1, <2>4
    <3> QED  BY <3>1, ReadOneMore
  <2>6. \A l : ReadWhole(q, l) <=> ReadWhole(r, l) \/ written[l].blocks = BlocksOf(c, f)
    <3>1. blocks \in Seq(Nat) /\ r \in Seq(Seq(Nat)) /\ q = Append(r, blocks)
          /\ blocks = BlocksOf(c, f)
      BY <2>1, <2>4
    <3>2. \A l : ReadWhole(q, l) <=> ReadWhole(r, l) \/ written[l].blocks = blocks
      BY <3>1, ReadOneMore
    <3> QED  BY <3>1, <3>2
  <2>7. ReadOK(q)
    <3>1. \A i \in DOMAIN r : \E l \in DOMAIN written : r[i] = written[l].blocks
      BY <1>1, <1>2 DEF ReadOK
    <3> QED  BY <2>3, <2>5, <3>1 DEF ReadOK
  <2>8. PICK m \in 0 .. RcvDataSize(c) :
            /\ RingInv(d, t + m, q) /\ LossInv(d, t + m, loss, curr)
            /\ RcvDataSize(d) = RcvDataSize(c) - m
    <3>1. /\ WrittenOK /\ RingInv(c, t, r) /\ LossInv(c, t, loss, curr) /\ Settled(c)
          /\ curr \in Nat /\ d = ReadMsg(c, f) /\ f \in Found(c)
      BY <1>1, <1>3, <1>7, <1>8, <1>15, <2>1
    <3> QED  BY ONLY <2>6, <3>1, ReadKeeps
  <2>9. PICK u \in Nat : /\ RingInv(d, u, q) /\ LossInv(d, u, loss, curr)
                         /\ u + RcvDataSize(d) = last
    <3>1. t + m \in Nat /\ (t + m) + RcvDataSize(d) = last
      BY <1>3, <1>8, <1>9, <2>8
    <3> QED  BY <2>8, <3>1
  <2>10. CASE buf' = d
    BY <1>13, <1>15, <2>1, <2>7, <2>9, <2>10
  <2>11. CASE buf' = Scanned(d)
    <3>1. PICK z : z = Scanned(d)
      OBVIOUS
    <3>2. PICK i \in 0 .. RcvDataSize(d) :
              /\ RingInv(z, u + i, q) /\ LossInv(z, u + i, loss, curr)
              /\ RcvDataSize(z) = RcvDataSize(d) - i
      BY ONLY <1>1, <1>3, <2>9, <3>1, ScanKeeps
    <3>3. RcvDataSize(d) \in Nat
      BY <2>9, Ring DEF RingInv, RingBase, RingOK, Positions
    <3>4. u + i \in Nat /\ (u + i) + RcvDataSize(z) = last
      BY <1>3, <2>9, <3>2, <3>3
    <3> QED  BY <1>13, <1>15, <2>1, <2>7, <2>11, <3>1, <3>2, <3>4
  <2> QED  BY <1>15, <2>1, <2>10, <2>11
<1> QED  BY <1>6, <1>14, <1>15

-----------------------------------------------------------------------------
(* The invariant and the theorems.                                         *)

\* Where the run starts.
LEMMA InitInv == Init => Inv
<1> SUFFICES ASSUME Init
             PROVE  Inv
  OBVIOUS
<1>1. /\ written = <<>> /\ sndNext = 1 /\ sndCurrSeqNo = 0 /\ sndLastAck = 1
      /\ sndLoss = {} /\ broken = FALSE /\ rcvCurrSeqNo = 0 /\ rcvLastAck = 1
      /\ rcvLoss = {} /\ overrun = FALSE /\ read = <<>> /\ net = {}
  BY DEF Init
<1>2. PICK p, b : p \in Positions /\ b = buf /\ b = EmptyBuffer(p)
  BY MessageAssumption DEF Init
<1>3. SndEnd = 1 /\ DOMAIN written = {} /\ Blocks = {}
  <2>1. SndEnd = 1
    BY <1>1 DEF SndEnd
  <2>2. DOMAIN written = {}
    BY <1>1
  <2> QED  BY <2>1, <2>2 DEF Blocks
<1>4. WrittenOK
  BY <1>1, <1>3, EmptySeq DEF WrittenOK
<1>5. NumInv
  <2>1. overrun \in BOOLEAN
    BY <1>1
  <2>2. /\ sndLoss \subseteq sndLastAck .. sndCurrSeqNo
        /\ rcvLoss \subseteq rcvLastAck .. rcvCurrSeqNo
    BY <1>1
  <2>3. /\ sndNext = 1 /\ sndCurrSeqNo = 0 /\ sndLastAck = 1 /\ rcvCurrSeqNo = 0
        /\ rcvLastAck = 1 /\ SndEnd = 1
    BY <1>1, <1>3
  <2> QED  BY <2>1, <2>2, <2>3 DEF NumInv
<1>6. RcvBufSize \in Nat /\ RcvBufSize >= 2 /\ Positions = 0 .. (RcvBufSize - 1)
  BY RcvBufAssumption DEF Positions
<1>7. /\ b.start = p /\ b.ack = p /\ b.max = 0
      /\ b.unit = [q \in Positions |-> NoUnit]
      /\ b = [unit |-> b.unit, start |-> b.start, ack |-> b.ack, max |-> b.max]
  BY <1>2 DEF EmptyBuffer
<1>8. b \in Buffers
  <2>1. NoUnit \in Units
    BY DEF NoUnit, Units
  <2> QED  BY <1>2, <1>7, <2>1 DEF Buffers
<1>9. RcvDataSize(b) = 0
  <2>1. p \in Nat /\ p >= p /\ p - p = 0
    BY <1>2, <1>6
  <2>2. FromStart(b, p) = (IF p >= b.start THEN p - b.start ELSE p - b.start + RcvBufSize)
    BY <1>2, <1>7, Places
  <2> QED  BY <1>7, <2>1, <2>2 DEF RcvDataSize
<1>10. \A seq \in Int : UnitNo(b, 1, seq) = NoUnit
  <2>1. \A j \in Positions : UnitAt(b, j) = NoUnit
    <3>1. \A j \in Positions : At(b.start, j) \in Positions
      BY <1>2, <1>7, Places
    <3> QED  BY <1>7, <3>1 DEF UnitAt
  <2> QED  BY <2>1 DEF UnitNo
<1>11. RingInv(b, 1, read)
  <2>1. RingOK(b, 1)
    BY <1>6, <1>7, <1>8, <1>9 DEF RingOK
  <2>2. UnitsFit(b, 1, read)
    BY <1>10 DEF UnitsFit
  <2>3. AckedKept(b, 1)
    <3>1. 1 .. (1 + RcvDataSize(b) - 1) = {}
      BY <1>9
    <3> QED  BY <3>1 DEF AckedKept
  <2>4. GoneEnded(1, read) /\ ReadMarked(b, 1, read)
    BY <1>3 DEF GoneEnded, ReadMarked
  <2> QED  BY <2>1, <2>2, <2>3, <2>4 DEF RingInv, RingBase
<1>12. LossInv(b, 1, rcvLoss, rcvCurrSeqNo)
  <2>1. 1 .. rcvCurrSeqNo = {}
    BY <1>1
  <2> QED  BY <1>10, <2>1 DEF LossInv
<1>13. RcvInv
  <2>1. 1 \in Nat /\ 1 + RcvDataSize(buf) = rcvLastAck
    BY <1>1, <1>2, <1>9
  <2> QED  BY <1>2, <1>11, <1>12, <2>1 DEF RcvInv
<1>14. ReadOK(read) /\ NetInv /\ HonestPeerTrusted
  BY <1>1, EmptySeq DEF ReadOK, NetInv, HonestPeerTrusted
<1> QED  BY <1>1, <1>2, <1>4, <1>5, <1>8, <1>13, <1>14 DEF Inv

\* A step that changes nothing.
LEMMA StutterKeeps ==
  ASSUME Inv, UNCHANGED vars
  PROVE  Inv'
<1>1. /\ UNCHANGED sndVars /\ UNCHANGED rcvVars /\ net' = net /\ written' = written
      /\ sndNext' = sndNext /\ sndCurrSeqNo' = sndCurrSeqNo /\ sndLastAck' = sndLastAck
      /\ sndLoss' = sndLoss /\ broken' = broken /\ overrun' = overrun /\ buf' = buf
      /\ rcvCurrSeqNo' = rcvCurrSeqNo /\ rcvLastAck' = rcvLastAck /\ rcvLoss' = rcvLoss
      /\ read' = read
  BY DEF vars, sndVars, rcvVars
<1>2. /\ WrittenOK /\ NumInv /\ NetInv /\ ReadOK(read) /\ HonestPeerTrusted
      /\ buf \in Buffers
  BY DEF Inv
<1>3. WrittenGrows /\ SndEnd' = SndEnd
  BY <1>1, <1>2, SameWritten
<1>4. NumInv'
  <2>1. PICK e \in Nat : e = SndEnd /\ e = SndEnd'
    BY <1>3, NumTypes
  <2>2. sndNext <= e
    BY <2>1, NumTypes
  <2> QED  BY <1>1, <1>2, <2>1, <2>2, NumTypes DEF NumInv
<1>5. /\ sndCurrSeqNo <= sndCurrSeqNo' /\ rcvLastAck <= rcvLastAck'
      /\ rcvCurrSeqNo <= rcvCurrSeqNo'
  BY <1>1, NumTypes
<1>6. CASE ~overrun
  <2>1. ~broken' /\ DOMAIN written' \ DOMAIN written = {}
    BY <1>1, <1>2 DEF HonestPeerTrusted
  <2> QED  BY <1>1, <1>3, <1>4, <1>5, <1>6, <2>1, SenderKeeps
<1>7. CASE overrun
  <2>1. NetInv'
    <3>1. ASSUME NEW m \in net
          PROVE  MsgOK(m)'
      <4>1. MsgOK(m)
        BY <1>2 DEF NetInv
      <4> QED  BY <1>2, <1>3, <1>4, <1>5, <4>1, NetFrame
    <3> QED  BY <1>1, <3>1 DEF NetInv
  <2>2. AllReleasedKept'
    BY <1>1, <1>2, <1>7, ReleasedStays DEF Inv
  <2>3. ReadOK(read)' /\ HonestPeerTrusted' /\ WrittenOK'
    BY <1>1, <1>2, <1>3 DEF ReadOK, HonestPeerTrusted, WrittenGrows
  <2> QED  BY <1>1, <1>2, <1>4, <1>7, <2>1, <2>2, <2>3 DEF Inv
<1> QED  BY <1>6, <1>7

\* A step that leaves nobody astray is one with numbers that belong to blocks,
\* and a ring that is not overrun.
LEMMA RegularStep ==
  ASSUME astray \in Nat, Next
  PROVE  /\ astray' \in Nat
         /\ astray' = 0 => astray = 0 /\ ~overrun /\ (StepOfB \/ (Numbered /\ StepOfA))
<1>1. CASE /\ StepOfA
           /\ IF astray > 0 \/ ~Numbered \/ overrun
              THEN astray < MaxAstray /\ astray' = astray + 1
              ELSE UNCHANGED astray
  <2>1. CASE astray > 0 \/ ~Numbered \/ overrun
    BY <1>1, <2>1
  <2>2. CASE ~(astray > 0 \/ ~Numbered \/ overrun)
    BY <1>1, <2>2
  <2> QED  BY <2>1, <2>2
<1>2. CASE StepOfB /\ astray' = IF overrun /\ astray = 0 THEN 1 ELSE astray
  BY <1>2
<1> QED  BY <1>1, <1>2 DEF Next

\* Every step that leaves nobody astray keeps the invariant.
LEMMA StepKeeps ==
  ASSUME Inv, ~overrun, StepOfB \/ (Numbered /\ StepOfA)
  PROVE  Inv'
<1>1. CASE Numbered /\ StepOfA
  <2>1. CASE AppSendMsg
    BY <1>1, <2>1, AppSendMsgKeeps
  <2>2. CASE SendNew
    BY <1>1, <2>2, SendNewKeeps
  <2>3. CASE Retransmit
    BY <1>1, <2>3, RetransmitKeeps
  <2>4. CASE Expire
    BY <1>1, <2>4, ExpireKeeps
  <2>5. CASE ExpTimer
    BY <2>5, ExpTimerKeeps
  <2>6. CASE \E m \in net : RecvAck(m) \/ RecvNak(m)
    BY <1>1, <2>6, SenderHearsKeeps
  <2>7. ~(RetransmitBeyond \/ ExpireBeyond)
    <3> SUFFICES ASSUME sndLoss # {}, Smallest(sndLoss) >= SndEnd
                 PROVE  FALSE
      BY DEF RetransmitBeyond, ExpireBeyond
    <3>1. PICK seq : seq = Smallest(sndLoss)
      OBVIOUS
    <3>2. seq \in Blocks
      BY <1>1, <3>1, LostBlock
    <3>3. SndEnd \in Nat
      BY NumTypes
    <3> QED  BY <3>1, <3>2, <3>3 DEF Blocks
  <2> QED  BY <1>1, <2>1, <2>2, <2>3, <2>4, <2>5, <2>6, <2>7 DEF StepOfA
<1>2. CASE StepOfB
  <2>1. CASE AckTimer
    BY <2>1, AckTimerKeeps
  <2>2. CASE AppRecvMsg
    BY <2>2, AppRecvMsgKeeps
  <2>3. CASE \E m \in net : RecvData(m)
    BY <2>3, RecvDataKeeps
  <2>4. CASE \E m \in net : RecvDrop(m)
    BY <2>4, RecvDropKeeps
  <2> QED  BY <1>2, <2>1, <2>2, <2>3, <2>4 DEF StepOfB
<1> QED  BY <1>1, <1>2

-----------------------------------------------------------------------------
(* The numbers of both ends, wherever blocks are.                          *)

\* A number in a message is one that A has given, or skipped.
Given(m) ==
    /\ m.type = "data" => m.seq \in Nat /\ m.seq <= sndCurrSeqNo
    /\ m.type = "ack" => m.ack \in Nat /\ m.ack <= sndCurrSeqNo + 1
    /\ m.type = "nak" => m.lo \in Nat /\ m.hi \in Nat /\ m.hi <= sndCurrSeqNo
    /\ m.type = "drop" => m.lo \in Nat /\ m.hi \in Nat /\ m.hi <= sndCurrSeqNo

\* So is every number B has, also when drop requests moved the numbers of both
\* ends, and when the ring is overrun.
Bounded ==
    /\ WrittenOK
    /\ sndCurrSeqNo \in Nat /\ sndLastAck \in Nat /\ 1 <= sndLastAck
    /\ rcvCurrSeqNo \in Nat /\ rcvLastAck \in Nat /\ rcvCurrSeqNo <= sndCurrSeqNo
    /\ sndLoss \subseteq 1 .. sndCurrSeqNo /\ rcvLoss \subseteq 0 .. rcvCurrSeqNo
    /\ \A m \in net : Given(m)
    /\ ~broken

\* A gives numbers in their order: what was given stays given.
LEMMA StillGiven ==
  ASSUME Bounded, sndCurrSeqNo' \in Nat, sndCurrSeqNo <= sndCurrSeqNo'
  PROVE  /\ \A m : Given(m) => Given(m)'
         /\ sndLoss \subseteq 1 .. sndCurrSeqNo'
<1>1. PICK x, y : x \in Nat /\ y \in Nat /\ x = sndCurrSeqNo /\ y = sndCurrSeqNo' /\ x <= y
  BY DEF Bounded
<1>2. ASSUME NEW m, Given(m)
      PROVE  Given(m)'
  BY <1>1, <1>2 DEF Given
<1>3. sndLoss \subseteq 1 .. y
  BY <1>1 DEF Bounded
<1> QED  BY <1>1, <1>2, <1>3

\* A step of A that adds at most one message, of a number that was given.
LEMMA SenderBounded ==
  ASSUME Bounded, UNCHANGED rcvVars, written' = written, ~broken',
         sndCurrSeqNo' \in Nat, sndCurrSeqNo <= sndCurrSeqNo',
         sndLastAck' \in Nat, 1 <= sndLastAck', sndLoss' \subseteq 1 .. sndCurrSeqNo',
         \A m \in net' \ net : Given(m)'
  PROVE  Bounded'
<1>1. WrittenOK'
  BY SameWritten DEF Bounded, WrittenGrows
<1>2. /\ rcvCurrSeqNo' = rcvCurrSeqNo /\ rcvLastAck' = rcvLastAck /\ rcvLoss' = rcvLoss
      /\ rcvCurrSeqNo <= sndCurrSeqNo'
  <2>1. /\ rcvCurrSeqNo \in Nat /\ sndCurrSeqNo \in Nat /\ rcvCurrSeqNo <= sndCurrSeqNo
    BY DEF Bounded
  <2> QED  BY <2>1 DEF rcvVars
<1>3. \A m \in net' : Given(m)'
  BY StillGiven DEF Bounded
<1> QED  BY <1>1, <1>2, <1>3 DEF Bounded

\* Smallest stays within the bounds of its set.
LEMMA LeastWithin ==
  ASSUME NEW S, NEW i \in Nat, NEW j \in Nat, S \subseteq i .. j, S # {}
  PROVE  Smallest(S) \in Nat /\ i <= Smallest(S) /\ Smallest(S) <= j
<1>1. i \in Int /\ j \in Int
  OBVIOUS
<1>2. Smallest(S) \in S
  BY <1>1, SmallestOf
<1>3. PICK least : least = Smallest(S)
  OBVIOUS
<1>4. least \in i .. j
  BY <1>2, <1>3, Zenon
<1>5. least \in Nat /\ i <= least /\ least <= j
  BY ONLY i \in Nat, j \in Nat, <1>4
<1> QED  BY ONLY <1>3, <1>5

\* The least lost number.
LEMMA LostGiven ==
  ASSUME Bounded, sndLoss # {}
  PROVE  /\ Smallest(sndLoss) \in Nat /\ 1 <= Smallest(sndLoss)
         /\ Smallest(sndLoss) <= sndCurrSeqNo
         /\ sndLoss \ {Smallest(sndLoss)} \subseteq 1 .. sndCurrSeqNo
<1>1. /\ 1 \in Nat /\ sndCurrSeqNo \in Nat
      /\ sndLoss \subseteq 1 .. sndCurrSeqNo /\ sndLoss # {}
  BY DEF Bounded
<1>2. /\ Smallest(sndLoss) \in Nat /\ 1 <= Smallest(sndLoss)
      /\ Smallest(sndLoss) <= sndCurrSeqNo
  BY ONLY <1>1, LeastWithin
<1>3. sndLoss \ {Smallest(sndLoss)} \subseteq 1 .. sndCurrSeqNo
  BY ONLY <1>1, Zenon
<1> QED  BY ONLY <1>2, <1>3

\* The last number a drop request names, and the numbers skipped.
LEMMA Skips ==
  ASSUME Bounded, NEW hi \in Nat, NEW seq \in Nat, NEW msg,
         net' = net \cup {Drop(msg, seq, hi)}, sndLoss' = {x \in sndLoss : x > hi},
         sndCurrSeqNo' = CurrSeqNoAfter(hi)
  PROVE  /\ sndCurrSeqNo' \in Nat /\ sndCurrSeqNo <= sndCurrSeqNo' /\ hi <= sndCurrSeqNo'
         /\ sndLoss' \subseteq 1 .. sndCurrSeqNo'
         /\ \A m \in net' \ net : Given(m)'
<1>1. sndCurrSeqNo \in Nat
  BY DEF Bounded
<1>2. sndCurrSeqNo' \in Nat /\ sndCurrSeqNo <= sndCurrSeqNo' /\ hi <= sndCurrSeqNo'
  BY <1>1 DEF CurrSeqNoAfter, Larger
<1>3. sndLoss' \subseteq 1 .. sndCurrSeqNo'
  BY <1>2, StillGiven
<1>4. Given(Drop(msg, seq, hi))'
  BY <1>2 DEF Given, Drop
<1> QED  BY <1>2, <1>3, <1>4

\* Every step of A keeps the bounds, and A hears of no number it did not give.
LEMMA StepOfABounded ==
  ASSUME Bounded, StepOfA
  PROVE  Bounded'
<1>1. /\ WrittenOK /\ sndCurrSeqNo \in Nat /\ sndLastAck \in Nat /\ 1 <= sndLastAck
      /\ sndLoss \subseteq 1 .. sndCurrSeqNo /\ ~broken /\ SndEnd \in Nat
      /\ \A m \in net : Given(m)
  BY MessageFacts DEF Bounded
<1>2. CASE AppSendMsg
  <2>1. PICK n \in MessageSizes, option \in Options :
            written' = Append(written, [blocks |-> [i \in 1 .. n |-> SndEnd + i - 1],
                                        order |-> option.order, ttl |-> option.ttl])
    BY <1>2 DEF AppSendMsg
  <2>2. n \in Nat \ {0} /\ option.order \in BOOLEAN /\ option.ttl \in BOOLEAN
    BY MessageAssumption
  <2>3. WrittenOK'
    BY <1>1, <2>1, <2>2, WriteKeeps
  <2>4. UNCHANGED <<sndCurrSeqNo, sndLastAck, sndLoss, broken, rcvVars, net>>
    BY <1>2 DEF AppSendMsg
  <2>5. \A m : Given(m)' <=> Given(m)
    BY <2>4 DEF Given
  <2> QED  BY <2>3, <2>4, <2>5 DEF Bounded, rcvVars
<1>3. CASE SendNew
  <2>1. /\ UNCHANGED <<written, sndLastAck, sndLoss, broken, rcvVars>>
        /\ sndCurrSeqNo' = sndCurrSeqNo + 1
        /\ net' = net \cup {Data(sndCurrSeqNo + 1, sndNext)}
    BY <1>3 DEF SendNew
  <2>2. sndCurrSeqNo' \in Nat /\ sndCurrSeqNo <= sndCurrSeqNo'
    BY <1>1, <2>1
  <2>3. PICK m : m = Data(sndCurrSeqNo + 1, sndNext)
    OBVIOUS
  <2>4. sndLoss' \subseteq 1 .. sndCurrSeqNo'
    BY <2>1, <2>2, StillGiven
  <2>5. m.type = "data" /\ m.seq = sndCurrSeqNo'
    BY <2>1, <2>3 DEF Data
  <2>6. \A l \in net' \ net : Given(l)'
    <3>1. Given(m)'
      BY <2>2, <2>5 DEF Given
    <3> QED  BY <2>1, <2>3, <3>1
  <2> QED  BY <1>1, <2>1, <2>2, <2>4, <2>6, SenderBounded
<1>4. CASE Retransmit \/ RetransmitBeyond
  <2>1. PICK seq : seq = Smallest(sndLoss)
    OBVIOUS
  <2>2. /\ UNCHANGED <<written, sndCurrSeqNo, sndLastAck, broken, rcvVars>>
        /\ sndLoss # {} /\ sndLoss' = sndLoss \ {seq}
        /\ \/ net' = net
           \/ \E block : net' = net \cup {Data(seq, block)}
    BY <1>4, <2>1 DEF Retransmit, RetransmitBeyond
  <2>3. /\ seq \in Nat /\ seq <= sndCurrSeqNo /\ sndLoss' \subseteq 1 .. sndCurrSeqNo
    BY <2>1, <2>2, LostGiven
  <2>4. \A block : Given(Data(seq, block))'
    BY <2>2, <2>3 DEF Given, Data
  <2>5. \A m \in net' \ net : Given(m)'
    BY <2>2, <2>4
  <2>6. sndCurrSeqNo <= sndCurrSeqNo'
    BY <1>1, <2>2
  <2> QED  BY <1>1, <2>2, <2>3, <2>5, <2>6, SenderBounded
<1>5. CASE Expire
  <2>1. PICK seq, hi : seq = Smallest(sndLoss) /\ hi = DropEnd(seq)
    OBVIOUS
  <2>2. PICK msg :
        /\ UNCHANGED <<written, sndLastAck, broken, rcvVars>>
        /\ sndLoss # {} /\ seq < SndEnd
        /\ net' = net \cup {Drop(msg, seq, hi)}
        /\ sndLoss' = {x \in sndLoss : x > hi}
        /\ sndCurrSeqNo' = CurrSeqNoAfter(hi)
    BY <1>5, <2>1 DEF Expire
  <2>3. seq \in Nat /\ 1 <= seq
    BY <2>1, <2>2, LostGiven
  <2>4. hi \in Nat
    <3>1. seq \in Blocks
      BY <1>1, <2>2, <2>3 DEF Blocks
    <3>2. MessageOf(seq) \in DOMAIN written
      BY <1>1, <3>1, OfBlock
    <3>3. LastOf(MessageOf(seq)) \in Nat
      BY <1>1, <3>2, MessageFacts
    <3> QED  BY <2>1, <3>3 DEF DropEnd
  <2>5. /\ sndCurrSeqNo' \in Nat /\ sndCurrSeqNo <= sndCurrSeqNo' /\ hi <= sndCurrSeqNo'
        /\ sndLoss' \subseteq 1 .. sndCurrSeqNo'
        /\ \A m \in net' \ net : Given(m)'
    BY <2>2, <2>3, <2>4, Skips
  <2> QED  BY <1>1, <2>2, <2>5, SenderBounded
<1>6. CASE ExpireBeyond
  <2>1. PICK seq : seq = Smallest(sndLoss)
    OBVIOUS
  <2>2. PICK block, n, msg, hi :
        /\ block \in Leftover /\ n \in StaleRun(block)
        /\ UNCHANGED <<written, sndLastAck, broken, rcvVars>>
        /\ sndLoss # {} /\ hi = seq + n
        /\ net' = net \cup {Drop(msg, seq, hi)}
        /\ sndLoss' = {x \in sndLoss : x > hi}
        /\ sndCurrSeqNo' = CurrSeqNoAfter(hi)
    BY <1>6, <2>1 DEF ExpireBeyond
  <2>3. seq \in Nat
    BY <2>1, <2>2, LostGiven
  <2>4. n \in Nat
    <3>1. CASE block = 0
      BY <2>2, <3>1, MessageAssumption DEF StaleRun
    <3>2. CASE block # 0
      <4>1. block \in Blocks
        <5>1. SndEnd \in Nat
          BY <1>1, MessageFacts
        <5>2. block \in 0 .. (SndEnd - 1)
          BY <2>2 DEF Leftover
        <5> QED  BY ONLY <3>2, <5>1, <5>2 DEF Blocks
      <4>2. MessageOf(block) \in DOMAIN written /\ In(block, MessageOf(block))
        BY <1>1, <4>1, OfBlock
      <4>3. /\ LastOf(MessageOf(block)) \in Nat /\ block \in Nat
            /\ block <= LastOf(MessageOf(block))
        BY <1>1, <4>1, <4>2, MessageFacts DEF In, Blocks
      <4>4. n = LastOf(MessageOf(block)) - block + 1
        <5>1. CASE written[MessageOf(block)].ttl
          BY <2>2, <3>2, <5>1 DEF StaleRun
        <5>2. CASE ~written[MessageOf(block)].ttl
          BY <2>2, <3>2, <5>2 DEF StaleRun
        <5> QED  BY <5>1, <5>2
      <4> QED  BY <4>3, <4>4
    <3> QED  BY <3>1, <3>2
  <2>5. hi \in Nat
    BY <2>2, <2>3, <2>4
  <2>6. /\ sndCurrSeqNo' \in Nat /\ sndCurrSeqNo <= sndCurrSeqNo' /\ hi <= sndCurrSeqNo'
        /\ sndLoss' \subseteq 1 .. sndCurrSeqNo'
        /\ \A m \in net' \ net : Given(m)'
    BY <2>2, <2>3, <2>5, Skips
  <2> QED  BY <1>1, <2>2, <2>6, SenderBounded
<1>7. CASE ExpTimer
  <2>1. /\ UNCHANGED <<written, sndCurrSeqNo, sndLastAck, broken, rcvVars, net>>
        /\ sndLoss' = sndLastAck .. sndCurrSeqNo
    BY <1>7 DEF ExpTimer
  <2>2. sndLoss' \subseteq 1 .. sndCurrSeqNo' /\ sndCurrSeqNo <= sndCurrSeqNo'
    BY <1>1, <2>1
  <2> QED  BY <1>1, <2>1, <2>2, SenderBounded
<1>8. ASSUME NEW m \in net, RecvAck(m)
      PROVE  Bounded'
  <2>1. m.ack \in Nat /\ m.ack <= sndCurrSeqNo + 1
    BY <1>1, <1>8 DEF RecvAck, Given
  <2>2. /\ m.ack >= sndLastAck /\ sndLastAck' = m.ack /\ broken' = broken
        /\ sndLoss' = {x \in sndLoss : x >= m.ack}
        /\ UNCHANGED <<written, sndCurrSeqNo, rcvVars, net>>
    BY <1>1, <1>8, <2>1 DEF RecvAck
  <2>3. 1 <= sndLastAck' /\ sndCurrSeqNo <= sndCurrSeqNo'
    BY <1>1, <2>1, <2>2
  <2>4. sndLoss' \subseteq 1 .. sndCurrSeqNo'
    BY <1>1, <2>2
  <2> QED  BY <1>1, <2>1, <2>2, <2>3, <2>4, SenderBounded
<1>9. ASSUME NEW m \in net, RecvNak(m)
      PROVE  Bounded'
  <2>1. m.lo \in Nat /\ m.hi \in Nat /\ m.hi <= sndCurrSeqNo
    BY <1>1, <1>9 DEF RecvNak, Given
  <2>2. /\ sndLoss' = sndLoss \cup (Larger(m.lo, sndLastAck) .. m.hi) /\ broken' = broken
        /\ UNCHANGED <<written, sndCurrSeqNo, sndLastAck, rcvVars, net>>
    BY <1>1, <1>9, <2>1 DEF RecvNak
  <2>3. Larger(m.lo, sndLastAck) \in Nat /\ 1 <= Larger(m.lo, sndLastAck)
    BY <1>1, <2>1 DEF Larger
  <2>4. sndCurrSeqNo <= sndCurrSeqNo'
    BY <1>1, <2>2
  <2>5. ASSUME NEW x \in sndLoss'
        PROVE  x \in 1 .. sndCurrSeqNo
    <3>1. CASE x \in sndLoss
      BY <1>1, <3>1
    <3>2. CASE x \in Larger(m.lo, sndLastAck) .. m.hi
      BY <1>1, <2>1, <2>3, <3>2
    <3> QED  BY <2>2, <2>5, <3>1, <3>2
  <2>6. sndLoss' \subseteq 1 .. sndCurrSeqNo'
    BY <2>2, <2>5
  <2> QED  BY <1>1, <2>2, <2>4, <2>6, SenderBounded
<1> QED  BY <1>2, <1>3, <1>4, <1>5, <1>6, <1>7, <1>8, <1>9 DEF StepOfA

\* A step of B that moves no number of A, and answers with numbers that were given.
LEMMA ReceiverBounded ==
  ASSUME Bounded, UNCHANGED sndVars,
         rcvCurrSeqNo' \in Nat, rcvLastAck' \in Nat, rcvCurrSeqNo' <= sndCurrSeqNo,
         rcvLoss' \subseteq 0 .. rcvCurrSeqNo', \A m \in net' \ net : Given(m)
  PROVE  Bounded'
<1>1. /\ written' = written /\ sndCurrSeqNo' = sndCurrSeqNo /\ sndLastAck' = sndLastAck
      /\ sndLoss' = sndLoss /\ broken' = broken
  BY DEF sndVars
<1>2. WrittenOK'
  BY <1>1, SameWritten DEF Bounded, WrittenGrows
<1>3. \A m : Given(m)' <=> Given(m)
  BY <1>1 DEF Given
<1> QED  BY <1>1, <1>2, <1>3 DEF Bounded

\* Every step of B keeps the bounds.
LEMMA StepOfBBounded ==
  ASSUME Bounded, StepOfB
  PROVE  Bounded'
<1>1. /\ sndCurrSeqNo \in Nat /\ rcvCurrSeqNo \in Nat /\ rcvLastAck \in Nat
      /\ rcvCurrSeqNo <= sndCurrSeqNo /\ rcvLoss \subseteq 0 .. rcvCurrSeqNo
      /\ \A m \in net : Given(m)
  BY DEF Bounded
<1>2. CASE AckTimer
  <2>1. PICK ack : ack = AckNo
    OBVIOUS
  <2>2. ack \in Nat /\ ack <= rcvCurrSeqNo + 1
    <3>1. CASE rcvLoss = {}
      BY <1>1, <2>1, <3>1 DEF AckNo
    <3>2. CASE rcvLoss # {}
      <4>1. /\ 0 \in Nat /\ rcvCurrSeqNo \in Nat
            /\ rcvLoss \subseteq 0 .. rcvCurrSeqNo /\ rcvLoss # {}
        BY <1>1, <3>2
      <4>2. /\ Smallest(rcvLoss) \in Nat /\ 0 <= Smallest(rcvLoss)
            /\ Smallest(rcvLoss) <= rcvCurrSeqNo
        BY ONLY <4>1, LeastWithin
      <4>3. ack = Smallest(rcvLoss)
        BY <2>1, <3>2 DEF AckNo
      <4> QED  BY <1>1, <4>2, <4>3
    <3> QED  BY <3>1, <3>2
  <2>3. PICK wnd :
        /\ rcvLastAck' = ack /\ net' = net \cup {Ack(ack, wnd)}
        /\ UNCHANGED <<sndVars, rcvCurrSeqNo, rcvLoss>>
    BY <1>2, <2>1 DEF AckTimer
  <2>4. Given(Ack(ack, wnd))
    BY <1>1, <2>2 DEF Given, Ack
  <2> QED  BY <1>1, <2>2, <2>3, <2>4, ReceiverBounded
<1>3. CASE AppRecvMsg
  <2>1. UNCHANGED <<sndVars, rcvCurrSeqNo, rcvLastAck, rcvLoss, net>>
    BY <1>3 DEF AppRecvMsg
  <2> QED  BY <1>1, <2>1, ReceiverBounded
<1>4. ASSUME NEW m \in net, RecvData(m)
      PROVE  Bounded'
  <2>1. PICK seq : seq = m.seq /\ seq \in Nat /\ seq <= sndCurrSeqNo
    BY <1>1, <1>4 DEF RecvData, Given
  <2>2. /\ UNCHANGED <<sndVars, rcvLastAck>>
        /\ rcvLoss' = LossAfter(seq) /\ rcvCurrSeqNo' = Larger(rcvCurrSeqNo, seq)
        /\ net' = IF seq > rcvCurrSeqNo + 1
                  THEN net \cup {Nak(rcvCurrSeqNo + 1, seq - 1)} ELSE net
    BY <1>4, <2>1 DEF RecvData
  <2>3. /\ rcvCurrSeqNo' \in Nat /\ rcvCurrSeqNo' <= sndCurrSeqNo
        /\ rcvCurrSeqNo <= rcvCurrSeqNo' /\ seq <= rcvCurrSeqNo'
    BY <1>1, <2>1, <2>2 DEF Larger
  <2>4. rcvLoss' \subseteq 0 .. rcvCurrSeqNo'
    <3> SUFFICES ASSUME NEW x \in LossAfter(seq)
                 PROVE  x \in 0 .. rcvCurrSeqNo'
      BY <2>2
    <3>1. x \in rcvLoss \/ (seq > rcvCurrSeqNo /\ x \in (rcvCurrSeqNo + 1) .. (seq - 1))
      BY DEF LossAfter
    <3>2. CASE x \in rcvLoss
      BY <1>1, <2>3, <3>2
    <3>3. CASE seq > rcvCurrSeqNo /\ x \in (rcvCurrSeqNo + 1) .. (seq - 1)
      BY <1>1, <2>1, <2>3, <3>3
    <3> QED  BY <3>1, <3>2, <3>3
  <2>5. ASSUME seq > rcvCurrSeqNo + 1
        PROVE  Given(Nak(rcvCurrSeqNo + 1, seq - 1))
    BY <1>1, <2>1, <2>5 DEF Given, Nak
  <2>6. \A l \in net' \ net : Given(l)
    BY <2>2, <2>5
  <2> QED  BY <1>1, <2>2, <2>3, <2>4, <2>6, ReceiverBounded
<1>5. ASSUME NEW m \in net, RecvDrop(m)
      PROVE  Bounded'
  <2>1. m.lo \in Nat /\ m.hi \in Nat /\ m.hi <= sndCurrSeqNo
    BY <1>1, <1>5 DEF RecvDrop, Given
  <2>2. /\ UNCHANGED <<sndVars, rcvLastAck, net>>
        /\ rcvLoss' = rcvLoss \ (m.lo .. m.hi)
        /\ rcvCurrSeqNo' = IF m.lo <= rcvCurrSeqNo + 1
                           THEN Larger(rcvCurrSeqNo, m.hi) ELSE rcvCurrSeqNo
    BY <1>5 DEF RecvDrop
  <2>3. /\ rcvCurrSeqNo' \in Nat /\ rcvCurrSeqNo' <= sndCurrSeqNo
        /\ rcvCurrSeqNo <= rcvCurrSeqNo'
    BY <1>1, <2>1, <2>2 DEF Larger
  <2>4. rcvLoss' \subseteq 0 .. rcvCurrSeqNo'
    <3> SUFFICES ASSUME NEW x \in rcvLoss'
                 PROVE  x \in 0 .. rcvCurrSeqNo'
      OBVIOUS
    <3>1. x \in rcvLoss
      BY <2>2
    <3> QED  BY <1>1, <2>3, <3>1
  <2> QED  BY <1>1, <2>2, <2>3, <2>4, ReceiverBounded
<1> QED  BY <1>2, <1>3, <1>4, <1>5 DEF StepOfB

\* A receiver that keeps to the protocol is never taken for an attacker, also after
\* drop requests have skipped numbers and the ends went on (core.cpp:2000, 2161).
THEOREM HonestReceiverTrusted == Spec => []HonestPeerTrusted
<1>1. Init => Bounded
  <2> SUFFICES ASSUME Init
               PROVE  Bounded
    OBVIOUS
  <2>1. WrittenOK
    BY InitInv DEF Inv
  <2>2. /\ sndCurrSeqNo = 0 /\ sndLastAck = 1 /\ sndLoss = {} /\ broken = FALSE
        /\ rcvCurrSeqNo = 0 /\ rcvLastAck = 1 /\ rcvLoss = {} /\ net = {}
    BY DEF Init
  <2> QED  BY <2>1, <2>2 DEF Bounded
<1>2. Bounded /\ [Next]_vars => Bounded'
  <2> SUFFICES ASSUME Bounded, [Next]_vars
               PROVE  Bounded'
    OBVIOUS
  <2>1. CASE UNCHANGED vars
    <3>1. UNCHANGED sndVars /\ UNCHANGED <<rcvCurrSeqNo, rcvLastAck, rcvLoss, net>>
      BY <2>1 DEF vars, rcvVars
    <3>2. /\ rcvCurrSeqNo \in Nat /\ rcvLastAck \in Nat /\ rcvCurrSeqNo <= sndCurrSeqNo
          /\ rcvLoss \subseteq 0 .. rcvCurrSeqNo
      BY DEF Bounded
    <3> QED  BY <3>1, <3>2, ReceiverBounded
  <2>2. CASE Next
    BY <2>2, StepOfABounded, StepOfBBounded DEF Next
  <2> QED  BY <2>1, <2>2
<1>3. Bounded => HonestPeerTrusted
  BY DEF Bounded, HonestPeerTrusted
<1> QED  BY <1>1, <1>2, <1>3, PTL DEF Spec

-----------------------------------------------------------------------------
(* The theorems about blocks, where they have the numbers they were given. *)

\* As long as no end has gone astray, the invariant holds.
Regular == astray \in Nat /\ (astray = 0 => Inv)

\* It does in every state.
THEOREM MessageInvariance == Spec => []Regular
<1>1. Init => Regular
  BY InitInv DEF Init, Regular
<1>2. Regular /\ [Next]_vars => Regular'
  <2> SUFFICES ASSUME Regular, [Next]_vars
               PROVE  Regular'
    OBVIOUS
  <2>1. CASE UNCHANGED vars
    <3>1. astray' = astray
      BY <2>1 DEF vars
    <3>2. Inv => Inv'
      BY <2>1, StutterKeeps
    <3> QED  BY <3>1, <3>2 DEF Regular
  <2>2. CASE Next
    <3>1. astray \in Nat
      BY DEF Regular
    <3>2. /\ astray' \in Nat
          /\ astray' = 0 => astray = 0 /\ ~overrun /\ (StepOfB \/ (Numbered /\ StepOfA))
      BY <2>2, <3>1, RegularStep
    <3>3. ASSUME astray' = 0
          PROVE  Inv'
      BY <3>2, <3>3, StepKeeps DEF Regular
    <3> QED  BY <3>2, <3>3 DEF Regular
  <2> QED  BY <2>1, <2>2
<1> QED  BY <1>1, <1>2, PTL DEF Spec

\* What the sender releases from CSndBuffer the receiver has in its ring or has
\* delivered, or a drop request named a part of its message.
THEOREM ReleasedKept == Spec => []ReleasedIsKept
<1>1. Regular => ReleasedIsKept
  <2> SUFFICES ASSUME Inv
               PROVE  AllReleasedKept
    BY DEF Regular, ReleasedIsKept, AllReleasedKept
  <2> QED  BY ReleasedFollows DEF Inv
<1> QED  BY <1>1, MessageInvariance, PTL

\* The loss list of B and its ring agree.
LEMMA HolesFollow == Regular => HolesAreLost
<1> SUFFICES ASSUME Inv, ~overrun, NEW seq \in rcvLastAck .. rcvCurrSeqNo,
                    seq - rcvLastAck < AvailBufSize(buf),
                    NEW u, u = buf.unit[At(buf.ack, seq - rcvLastAck)]
             PROVE  /\ u # NoUnit => u.block = seq /\ seq \notin rcvLoss
                    /\ u = NoUnit => seq \in rcvLoss \/ DropRequested(seq)
  BY DEF HolesAreLost, Regular
<1>1. PICK s, b, r, loss, curr, last :
          /\ s \in Nat /\ b = buf /\ r = read
          /\ loss = rcvLoss /\ curr = rcvCurrSeqNo /\ last = rcvLastAck
          /\ s + RcvDataSize(b) = last /\ RingInv(b, s, r) /\ LossInv(b, s, loss, curr)
  BY DEF Inv, RcvInv
<1>2. PICK d : d = RcvDataSize(b)
  OBVIOUS
<1>3. /\ b \in Buffers /\ RingOK(b, s) /\ UnitsFit(b, s, r) /\ WrittenOK
      /\ curr \in Nat /\ last \in Nat /\ d \in Nat /\ RcvBufSize \in Nat
      /\ Positions = 0 .. (RcvBufSize - 1)
  BY <1>1, <1>2, NumTypes, Ring DEF RingInv, RingBase, RingOK, Positions
<1>4. PICK n \in Nat : seq = last + n
  <2>1. seq - last \in Nat /\ seq = last + (seq - last)
    BY <1>1, <1>3
  <2> QED  BY <2>1
<1>5. seq - last = n /\ n < RcvBufSize - d - 1
  BY <1>1, <1>2, <1>3, <1>4 DEF AvailBufSize
<1>6. d + n \in Positions /\ d + n < RcvBufSize /\ s + (d + n) = seq /\ seq \in s .. curr
  BY <1>1, <1>2, <1>3, <1>4, <1>5
<1>7. u = UnitAt(b, d + n)
  BY <1>1, <1>2, <1>3, <1>5, <1>6, Ahead DEF UnitAt
<1>8. UnitNo(b, s, seq) = u
  <2>1. UnitNo(b, s, s + (d + n)) = UnitAt(b, d + n)
    BY <1>1, <1>3, <1>6, UnitNumbers
  <2> QED  BY <1>6, <1>7, <2>1
<1>9. u # NoUnit => u.block = seq
  BY <1>3, <1>6, <1>7, StoredUnit
<1> QED  BY <1>1, <1>6, <1>8, <1>9 DEF LossInv

\* The loss list of the receiver is what its ring lacks, beyond what is acknowledged.
THEOREM HolesLost == Spec => []HolesAreLost
BY HolesFollow, MessageInvariance, PTL

\* What a step is at the level of Messages.
LEMMA MessagesStep ==
  ASSUME Inv, ~overrun, StepOfB \/ (Numbered /\ StepOfA)
  PROVE  MESSAGES!MessagesNext \/ (written' = written /\ read' = read)
<1>1. CASE AppSendMsg
  <2>1. PICK m : written' = Append(written, m)
    BY <1>1 DEF AppSendMsg
  <2>2. written \in Seq(Written) /\ read' = read
    BY <1>1, NumTypes DEF AppSendMsg, rcvVars, WrittenOK
  <2>3. Len(written') = Len(written) + 1 /\ SubSeq(written', 1, Len(written)) = written
    <3>1. PICK W : W = Written \cup {m}
      OBVIOUS
    <3>2. written \in Seq(W) /\ m \in W
      BY <2>2, <3>1, LenProperties, IsASeq
    <3> QED  BY <2>1, <3>2, AppendProperties
  <2>4. MESSAGES!WriteMessage
    BY <2>2, <2>3 DEF MESSAGES!WriteMessage
  <2> QED  BY <2>4 DEF MESSAGES!MessagesNext
<1>2. CASE AppRecvMsg
  <2>1. written' = written /\ ~overrun
    BY <1>2 DEF AppRecvMsg, sndVars
  <2>2. CASE read' = read
    BY <2>1, <2>2
  <2>3. CASE \E f \in Found(Scanned(buf)) : read' = Append(read, BlocksOf(Scanned(buf), f))
    <3>1. PICK s, b, r, loss, curr :
              /\ s \in Nat /\ b = buf /\ r = read
              /\ loss = rcvLoss /\ curr = rcvCurrSeqNo
              /\ RingInv(b, s, r) /\ LossInv(b, s, loss, curr)
      BY <2>1 DEF Inv, RcvInv
    <3>2. WrittenOK /\ curr \in Nat
      BY <3>1, NumTypes
    <3>3. PICK c : c = Scanned(b)
      OBVIOUS
    <3>4. PICK n \in 0 .. RcvDataSize(b) : RingInv(c, s + n, r)
      BY ONLY <3>1, <3>2, <3>3, ScanKeeps
    <3>5. PICK t : t = s + n
      OBVIOUS
    <3>6. RingInv(c, t, r) /\ RingBase(c, t, r)
      BY <3>4, <3>5 DEF RingInv
    <3>7. PICK f \in Found(c) : read' = Append(r, BlocksOf(c, f))
      BY <2>3, <3>1, <3>3
    <3>8. PICK k \in DOMAIN written : /\ FirstOf(k) = t + f[1]
                                      /\ BlocksOf(c, f) = written[k].blocks
      BY <3>2, <3>6, FoundMessage
    <3>9. /\ ~ReadWhole(r, k)
          /\ \A l \in DOMAIN written : k < l /\ written[l].order => ~ReadWhole(r, l)
      BY <3>2, <3>6, <3>8, FoundUnread
    <3>10. \A l : MESSAGES!IsRead(written[l]) <=> ReadWhole(r, l)
      BY <3>1 DEF MESSAGES!IsRead, ReadWhole
    <3>11. ASSUME NEW l \in (k + 1) .. Len(written)
           PROVE  l \in DOMAIN written /\ k < l
      <4>1. DOMAIN written = 1 .. Len(written) /\ Len(written) \in Nat
        BY <3>2, MessageFacts
      <4>2. k \in Nat /\ k >= 1
        BY <4>1
      <4> QED  BY <4>1, <4>2
    <3>12. MESSAGES!ReadMessage(k)
      BY <2>1, <3>1, <3>7, <3>8, <3>9, <3>10, <3>11 DEF MESSAGES!ReadMessage
    <3> QED  BY <3>12 DEF MESSAGES!MessagesNext
  <2> QED  BY <1>2, <2>2, <2>3 DEF AppRecvMsg
<1>3. CASE \/ SendNew \/ Retransmit \/ Expire \/ ExpTimer
           \/ RetransmitBeyond \/ ExpireBeyond
           \/ \E m \in net : RecvAck(m) \/ RecvNak(m)
  BY <1>3 DEF SendNew, Retransmit, Expire, ExpTimer, RetransmitBeyond, ExpireBeyond, RecvAck, RecvNak, rcvVars
<1>4. CASE AckTimer \/ \E m \in net : RecvData(m) \/ RecvDrop(m)
  BY <1>4 DEF AckTimer, RecvData, RecvDrop, sndVars
<1> QED  BY <1>1, <1>2, <1>3, <1>4 DEF StepOfA, StepOfB

\* The ring, its flags, acknowledgements and drop requests implement the promise of
\* Messages: whole messages, each once, and none after a later one in order.
THEOREM MessagesImplemented == Spec => MessagesRefined
<1>1. Init => MESSAGES!MessagesInit
  BY DEF Init, MESSAGES!MessagesInit
<1>2. Regular /\ [Next]_vars => [MESSAGES!MessagesNext \/ astray' > 0]_<<written, read>>
  <2> SUFFICES ASSUME Regular, [Next]_vars, ~(astray' > 0)
               PROVE  MESSAGES!MessagesNext \/ (written' = written /\ read' = read)
    OBVIOUS
  <2>1. CASE UNCHANGED vars
    BY <2>1 DEF vars, sndVars, rcvVars
  <2>2. CASE Next
    <3>1. astray \in Nat
      BY DEF Regular
    <3>2. /\ astray' \in Nat
          /\ astray' = 0 => astray = 0 /\ ~overrun /\ (StepOfB \/ (Numbered /\ StepOfA))
      BY <2>2, <3>1, RegularStep
    <3>3. Inv /\ ~overrun /\ (StepOfB \/ (Numbered /\ StepOfA))
      BY <3>2 DEF Regular
    <3> QED  BY <3>3, MessagesStep
  <2> QED  BY <2>1, <2>2
<1> QED  BY <1>1, <1>2, MessageInvariance, PTL DEF Spec, MessagesRefined
=============================================================================
