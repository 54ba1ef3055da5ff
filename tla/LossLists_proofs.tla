--------------------------- MODULE LossLists_proofs ---------------------------
(***************************************************************************)
(* Proofs about the loss lists: after any sequence of calls their arrays,  *)
(* links and counts are those of a set of numbers.  They hold for every    *)
(* MaxSeqNo, every window and arrays of any size at least as long.         *)
(***************************************************************************)
EXTENDS SndLossList, RcvLossList, Loops_proofs

-----------------------------------------------------------------------------
(* Numbers that do not wrap, and the sequence numbers and cells they have. *)

Wrap(x) == x % (MaxSeqNo + 1)

\* Two integers that differ by a multiple of m leave the same remainder.
LEMMA OneRemainder ==
  ASSUME NEW m \in Nat \ {0}, NEW p \in Int, NEW q \in Int,
         NEW r \in 0 .. (m - 1), NEW s \in 0 .. (m - 1), (m * p) + r = (m * q) + s
  PROVE  p = q /\ r = s
<1>1. m * (p - q) = s - r
  OBVIOUS
<1>2. CASE p - q >= 1
  <2>1. m * (p - q) >= m
    BY <1>2
  <2> QED  BY <1>1, <2>1
<1>3. CASE p - q <= -1
  <2>1. m * (p - q) <= -m
    BY <1>3
  <2> QED  BY <1>1, <2>1
<1>4. CASE p = q
  BY <1>4
<1> QED  BY <1>2, <1>3, <1>4

\* What division leaves.
LEMMA Divided ==
  ASSUME NEW m \in Nat \ {0}, NEW x \in Int
  PROVE  /\ x = (m * (x \div m)) + (x % m)
         /\ x % m \in 0 .. (m - 1)
         /\ x \div m \in Int
OBVIOUS

\* Remainders can be taken before a sum.
LEMMA RemainderOfSum ==
  ASSUME NEW m \in Nat \ {0}, NEW x \in Int, NEW d \in Int
  PROVE  ((x % m) + d) % m = (x + d) % m
<1>1. PICK r \in 0 .. (m - 1), q \in Int : r = x % m /\ x = (m * q) + r
  BY Divided
<1>2. r + d \in Int /\ x + d \in Int
  OBVIOUS
<1>3. PICK s \in 0 .. (m - 1), p \in Int : s = (r + d) % m /\ r + d = (m * p) + s
  BY <1>2, Divided
<1>4. PICK t \in 0 .. (m - 1), n \in Int : t = (x + d) % m /\ x + d = (m * n) + t
  BY <1>2, Divided
<1>5. (m * (q + p)) + s = (m * n) + t
  <2>1. m * (q + p) = (m * q) + (m * p)
    OBVIOUS
  <2>2. m * q \in Int /\ m * p \in Int /\ m * n \in Int /\ m * (q + p) \in Int
    OBVIOUS
  <2> QED  BY <1>1, <1>3, <1>4, <2>1, <2>2
<1>6. q + p \in Int
  OBVIOUS
<1>7. s = t
  BY <1>5, <1>6, OneRemainder
<1> QED  BY <1>1, <1>3, <1>4, <1>7

\* Two integers with one remainder that lie less than m apart are one.
LEMMA SameRemainder ==
  ASSUME NEW m \in Nat \ {0}, NEW x \in Int, NEW y \in Int, x % m = y % m,
         y - x < m, x - y < m
  PROVE  x = y
<1>1. PICK r \in 0 .. (m - 1), q \in Int : r = x % m /\ x = (m * q) + r
  BY Divided
<1>2. PICK s \in 0 .. (m - 1), p \in Int : s = y % m /\ y = (m * p) + s
  BY Divided
<1>3. r = s
  BY <1>1, <1>2
<1>4. m * (p - q) = y - x /\ p - q \in Int
  <2>1. m * (p - q) = (m * p) - (m * q) /\ m * p \in Int /\ m * q \in Int
    OBVIOUS
  <2> QED  BY <1>1, <1>2, <1>3, <2>1
<1>5. PICK d \in Int : d = p - q
  OBVIOUS
<1>6. CASE d >= 1
  <2>1. m * d >= m
    BY <1>6
  <2> QED  BY <1>4, <1>5, <2>1
<1>7. CASE d <= -1
  <2>1. m * d <= -m
    BY <1>7
  <2> QED  BY <1>4, <1>5, <2>1
<1>8. CASE d = 0
  BY <1>4, <1>5, <1>8
<1> QED  BY <1>6, <1>7, <1>8

\* The remainder that adding something less than m leaves.
LEMMA NearRemainder ==
  ASSUME NEW m \in Nat \ {0}, NEW x \in Int, NEW y \in Int, x <= y, y - x <= m
  PROVE  y % m = IF (x % m) + (y - x) > m - 1 THEN (x % m) + (y - x) - m
                 ELSE (x % m) + (y - x)
<1>1. PICK r \in 0 .. (m - 1), q \in Int : r = x % m /\ x = (m * q) + r
  BY Divided
<1>2. PICK s \in 0 .. (m - 1), p \in Int : s = y % m /\ y = (m * p) + s
  BY Divided
<1>3. PICK d \in Int : d = r + (y - x)
  OBVIOUS
<1>4. m * q \in Int /\ m * p \in Int /\ (m * p) + s = (m * q) + d
  <2>1. PICK n \in Int : n = m * q
    OBVIOUS
  <2>2. PICK k \in Int : k = m * p
    OBVIOUS
  <2>3. x = n + r /\ y = k + s
    BY <1>1, <1>2, <2>1, <2>2
  <2>4. k + s = n + d
    BY <1>3, <2>3
  <2> QED  BY <2>1, <2>2, <2>4
<1>5. CASE d > m - 1
  <2>1. d - m \in 0 .. (m - 1)
    BY <1>3, <1>5
  <2>2. q + 1 \in Int /\ m * (q + 1) = (m * q) + m
    OBVIOUS
  <2>3. (m * p) + s = (m * (q + 1)) + (d - m)
    BY <1>3, <1>4, <2>2
  <2>4. s = d - m
    BY <2>1, <2>2, <2>3, OneRemainder
  <2>5. (x % m) + (y - x) = d
    BY <1>1, <1>3
  <2> QED  BY <1>2, <1>5, <2>4, <2>5
<1>6. CASE d <= m - 1
  <2>1. d \in 0 .. (m - 1)
    BY <1>3, <1>6
  <2>2. s = d
    BY <1>4, <2>1, OneRemainder
  <2> QED  BY <1>1, <1>2, <1>3, <1>6, <2>2
<1> QED  BY <1>3, <1>5, <1>6

\* The sequence numbers of two numbers less than SeqNoTH apart.
LEMMA Wrapped ==
  ASSUME NEW x \in Int, NEW y \in Int, x <= y, y - x <= SeqNoTH
  PROVE  /\ Wrap(x) \in SeqNos /\ Wrap(y) \in SeqNos
         /\ Wrap(y) = IF Wrap(x) + (y - x) > MaxSeqNo
                      THEN Wrap(x) + (y - x) - (MaxSeqNo + 1) ELSE Wrap(x) + (y - x)
<1> DEFINE m == MaxSeqNo + 1
<1>1. m \in Nat \ {0} /\ m = (2 * SeqNoTH) + 2 /\ SeqNoTH \in Nat \ {0} /\ MaxSeqNo = m - 1
  BY SeqNoAssumption
<1> HIDE DEF m
<1>2. PICK r \in 0 .. (m - 1) : r = x % m
  BY <1>1, Divided
<1>3. PICK s \in 0 .. (m - 1) : s = y % m
  BY <1>1, Divided
<1>4. y - x <= m
  BY <1>1
<1>5. s = IF r + (y - x) > m - 1 THEN r + (y - x) - m ELSE r + (y - x)
  BY <1>1, <1>2, <1>3, <1>4, NearRemainder
<1>6. Wrap(x) = r /\ Wrap(y) = s
  BY <1>2, <1>3 DEF Wrap, m
<1> QED  BY <1>1, <1>2, <1>3, <1>5, <1>6 DEF SeqNos

\* On the sequence numbers of numbers less than SeqNoTH apart, CSeqNo computes
\* what the operations on integers do.
LEMMA WrapArith ==
  ASSUME NEW x \in Int, NEW y \in Int, x - y < SeqNoTH, y - x < SeqNoTH
  PROVE  /\ Wrap(x) \in SeqNos /\ Wrap(y) \in SeqNos
         /\ Wrap(x) = Wrap(y) <=> x = y
         /\ Seqcmp(Wrap(x), Wrap(y)) \in Int
         /\ Seqcmp(Wrap(x), Wrap(y)) < 0 <=> x < y
         /\ Seqcmp(Wrap(x), Wrap(y)) > 0 <=> x > y
         /\ Seqoff(Wrap(x), Wrap(y)) = y - x
         /\ x <= y => Seqlen(Wrap(x), Wrap(y)) = y - x + 1
<1>1. SeqNoTH \in Nat \ {0} /\ MaxSeqNo = (2 * SeqNoTH) + 1
  BY SeqNoAssumption
<1>2. PICK u \in SeqNos : u = Wrap(x)
  BY <1>1, Wrapped
<1>3. PICK v \in SeqNos : v = Wrap(y)
  BY <1>1, Wrapped
<1>4. CASE x <= y
  <2>1. v = IF u + (y - x) > MaxSeqNo THEN u + (y - x) - (MaxSeqNo + 1) ELSE u + (y - x)
    <3>1. y - x <= SeqNoTH
      BY <1>1
    <3> QED  BY <1>2, <1>3, <1>4, <3>1, Wrapped
  <2>2. PICK d \in Nat : d = y - x /\ d < SeqNoTH
    BY <1>4
  <2>3. /\ u = v <=> d = 0
        /\ Seqcmp(u, v) \in Int
        /\ Seqcmp(u, v) < 0 <=> d > 0
        /\ ~(Seqcmp(u, v) > 0)
        /\ Seqoff(u, v) = d
        /\ Seqlen(u, v) = d + 1
    BY <1>1, <2>1, <2>2 DEF SeqNos, Seqcmp, Seqoff, Seqlen, Abs
  <2> QED  BY <1>2, <1>3, <1>4, <2>2, <2>3
<1>5. CASE x > y
  <2>1. u = IF v + (x - y) > MaxSeqNo THEN v + (x - y) - (MaxSeqNo + 1) ELSE v + (x - y)
    <3>1. x - y <= SeqNoTH /\ y <= x
      BY <1>1, <1>5
    <3> QED  BY <1>2, <1>3, <3>1, Wrapped
  <2>2. PICK d \in Nat : d = x - y /\ d < SeqNoTH /\ d > 0
    BY <1>5
  <2>3. /\ u # v
        /\ Seqcmp(u, v) \in Int
        /\ ~(Seqcmp(u, v) < 0)
        /\ Seqcmp(u, v) > 0
        /\ Seqoff(u, v) = -d
    BY <1>1, <2>1, <2>2 DEF SeqNos, Seqcmp, Seqoff, Abs
  <2> QED  BY <1>2, <1>3, <1>5, <2>2, <2>3
<1> QED  BY <1>4, <1>5

\* The numbers after and before.
LEMMA WrapSteps ==
  ASSUME NEW x \in Int
  PROVE  /\ Wrap(x) \in SeqNos
         /\ Incseq(Wrap(x)) = Wrap(x + 1)
         /\ Decseq(Wrap(x)) = Wrap(x - 1)
         /\ \A n \in 0 .. SeqNoTH : IncseqBy(Wrap(x), n) = Wrap(x + n)
<1>1. SeqNoTH \in Nat \ {0} /\ MaxSeqNo = (2 * SeqNoTH) + 1
  BY SeqNoAssumption
<1>2. \A w \in Int : Wrap(w) \in SeqNos
  <2> TAKE w \in Int
  <2>1. w <= w /\ w - w <= SeqNoTH
    BY <1>1
  <2> QED  BY <2>1, Wrapped
<1>3. ASSUME NEW n \in 0 .. SeqNoTH
      PROVE  IncseqBy(Wrap(x), n) = Wrap(x + n)
  <2>1. PICK y \in Int : y = x + n
    OBVIOUS
  <2>2. x <= y /\ y - x = n /\ n <= SeqNoTH
    BY <1>1, <2>1
  <2>3. Wrap(y) = IF Wrap(x) + n > MaxSeqNo
                  THEN Wrap(x) + n - (MaxSeqNo + 1) ELSE Wrap(x) + n
    BY <2>2, Wrapped
  <2>4. Wrap(x) \in Int /\ n \in Int
    BY <1>2, <1>1 DEF SeqNos
  <2> QED  BY <1>1, <2>1, <2>3, <2>4 DEF IncseqBy
<1>4. Incseq(Wrap(x)) = Wrap(x + 1)
  <2>1. x <= x + 1 /\ (x + 1) - x = 1 /\ 1 <= SeqNoTH
    BY <1>1
  <2>2. PICK y \in Int : y = x + 1
    OBVIOUS
  <2>3. Wrap(y) = IF Wrap(x) + 1 > MaxSeqNo
                  THEN Wrap(x) + 1 - (MaxSeqNo + 1) ELSE Wrap(x) + 1
    BY <2>1, <2>2, Wrapped
  <2>4. Wrap(x) \in SeqNos
    BY <1>2
  <2> QED  BY <1>1, <2>2, <2>3, <2>4 DEF Incseq, SeqNos
<1>5. Decseq(Wrap(x)) = Wrap(x - 1)
  <2>1. PICK y \in Int : y = x - 1
    OBVIOUS
  <2>2. y <= x /\ x - y = 1 /\ 1 <= SeqNoTH
    BY <1>1, <2>1
  <2>3. Wrap(x) = IF Wrap(y) + 1 > MaxSeqNo
                  THEN Wrap(y) + 1 - (MaxSeqNo + 1) ELSE Wrap(y) + 1
    BY <2>2, Wrapped
  <2>4. Wrap(y) \in SeqNos
    BY <1>2
  <2> QED  BY <1>1, <2>1, <2>3, <2>4 DEF Decseq, SeqNos
<1> QED  BY <1>2, <1>3, <1>4, <1>5

\* Each sequence number is that of a number.
LEMMA WrapSelf ==
  ASSUME NEW s \in SeqNos
  PROVE  s \in Int /\ Wrap(s) = s
<1>1. PICK m \in Nat \ {0} : m = MaxSeqNo + 1 /\ s \in 0 .. (m - 1)
  <2>1. MaxSeqNo + 1 \in Nat \ {0} /\ MaxSeqNo = (MaxSeqNo + 1) - 1
    BY SeqNoAssumption
  <2> QED  BY <2>1 DEF SeqNos
<1> s \in Int
  BY <1>1
<1>2. s % m \in 0 .. (m - 1) /\ s \div m \in Int /\ s = (m * (s \div m)) + (s % m)
  BY Divided
<1>3. s = (m * 0) + s
  BY <1>1
<1>4. s % m = s
  <2>1. PICK q \in Int, r \in 0 .. (m - 1) : r = s % m /\ s = (m * q) + r
    BY <1>2
  <2>2. (m * q) + r = (m * 0) + s
    BY <1>3, <2>1
  <2>3. 0 \in Int
    OBVIOUS
  <2>4. m \in Nat \ {0} /\ q \in Int /\ r \in 0 .. (m - 1) /\ s \in 0 .. (m - 1)
    BY <1>1
  <2>5. r = s
    BY ONLY <2>2, <2>3, <2>4, OneRemainder
  <2> QED  BY <2>1, <2>5
<1> QED  BY <1>1, <1>4 DEF Wrap

-----------------------------------------------------------------------------
(* The cells of an array of m cells.                                       *)

Place(m, z, x) == (x + z) % m

\* Numbers less than m apart have different cells, and the distance between
\* two of them leads from one cell to the other.
LEMMA PlaceArith ==
  ASSUME NEW m \in Nat \ {0}, NEW z \in Int, NEW x \in Int, NEW y \in Int
  PROVE  /\ Place(m, z, x) \in 0 .. (m - 1)
         /\ x - y < m /\ y - x < m => (Place(m, z, x) = Place(m, z, y) <=> x = y)
         /\ (Place(m, z, x) + (y - x)) % m = Place(m, z, y)
         /\ (Place(m, z, x) + (y - x) + m) % m = Place(m, z, y)
<1>1. Place(m, z, x) \in 0 .. (m - 1)
  BY Divided DEF Place
<1>2. ASSUME x - y < m, y - x < m, Place(m, z, x) = Place(m, z, y)
      PROVE  x = y
  <2>1. PICK u \in Int : u = x + z
    OBVIOUS
  <2>2. PICK v \in Int : v = y + z
    OBVIOUS
  <2>3. u % m = v % m /\ v - u < m /\ u - v < m
    BY <1>2, <2>1, <2>2 DEF Place
  <2>4. u = v
    BY <2>3, SameRemainder
  <2> QED  BY <2>1, <2>2, <2>4
<1>3. ASSUME NEW d \in Int, NEW w \in Int, w = (x + z) + d
      PROVE  (Place(m, z, x) + d) % m = w % m
  <2>1. PICK u \in Int : u = x + z
    OBVIOUS
  <2>2. ((u % m) + d) % m = (u + d) % m
    BY RemainderOfSum
  <2> QED  BY <1>3, <2>1, <2>2 DEF Place
<1>4. (Place(m, z, x) + (y - x)) % m = Place(m, z, y)
  <2>1. PICK d \in Int : d = y - x
    OBVIOUS
  <2>2. PICK w \in Int : w = y + z
    OBVIOUS
  <2>3. w = (x + z) + d
    BY <2>1, <2>2
  <2> QED  BY <1>3, <2>1, <2>2, <2>3 DEF Place
<1>5. (Place(m, z, x) + (y - x) + m) % m = Place(m, z, y)
  <2>1. PICK d \in Int : d = (y - x) + m
    OBVIOUS
  <2>2. PICK w \in Int : w = (y + z) + m
    OBVIOUS
  <2>3. w = (x + z) + d
    BY <2>1, <2>2
  <2>4. (Place(m, z, x) + d) % m = w % m
    BY <1>3, <2>3
  <2>5. PICK v \in Int : v = y + z
    OBVIOUS
  <2>6. w % m = v % m
    <3>1. v <= w /\ w - v <= m /\ w - v = m
      BY <2>2, <2>5
    <3>2. PICK r \in 0 .. (m - 1) : r = v % m
      BY Divided
    <3>3. w % m = IF r + (w - v) > m - 1 THEN r + (w - v) - m ELSE r + (w - v)
      BY <3>1, <3>2, NearRemainder
    <3> QED  BY <3>1, <3>2, <3>3
  <2>7. Place(m, z, x) + (y - x) + m = Place(m, z, x) + d
    BY <1>1, <2>1
  <2> QED  BY <2>4, <2>5, <2>6, <2>7 DEF Place
<1> QED  BY <1>1, <1>2, <1>4, <1>5

\* A number can be given the first cell.
LEMMA PlaceFirst ==
  ASSUME NEW m \in Nat \ {0}, NEW x \in Int
  PROVE  \E z \in Int : Place(m, z, x) = 0
<1>1. -x \in Int /\ x + (-x) = 0
  OBVIOUS
<1>2. 0 % m = 0
  <2>1. 0 % m \in 0 .. (m - 1) /\ 0 \div m \in Int /\ 0 = (m * (0 \div m)) + (0 % m)
    BY Divided
  <2>2. 0 = (m * 0) + 0
    OBVIOUS
  <2> QED  BY <2>1, <2>2, OneRemainder
<1> QED  BY <1>1, <1>2 DEF Place

-----------------------------------------------------------------------------
(* The ranges of a list, with numbers that do not wrap out of a window     *)
(* that starts with a: D are their first numbers, and e[x] is the last of  *)
(* the range that starts with x.                                           *)

WindowFrom(a) == a .. (a + Window - 1)

Ranges(a, D, e) ==
    /\ a \in Int /\ D \in SUBSET WindowFrom(a) /\ e \in [Int -> Int]
    /\ \A x \in D : x <= e[x] /\ e[x] \in WindowFrom(a)

Apart(D, e) == \A x, y \in D : x < y => e[x] < y

Numbers(D, e) == UNION {x .. e[x] : x \in D}

FirstIn(D, x) == x \in D /\ \A w \in D : x <= w
NextIn(D, x, y) == y \in D /\ x < y /\ \A w \in D : x < w => y <= w
PriorIn(D, x, y) == x \in D /\ x < y /\ \A w \in D : w < y => w <= x

\* Two numbers of one window are less than Window apart.
LEMMA Near ==
  ASSUME NEW a \in Int, NEW x \in WindowFrom(a), NEW y \in WindowFrom(a)
  PROVE  /\ x \in Int /\ y \in Int
         /\ x - y < Window /\ y - x < Window
         /\ x - y < SeqNoTH /\ y - x < SeqNoTH
BY WindowAssumption, SeqNoAssumption DEF WindowFrom

\* A window is finite, and so is every part of it.
LEMMA WindowFinite ==
  ASSUME NEW a \in Int, NEW S \in SUBSET WindowFrom(a)
  PROVE  /\ IsFiniteSet(S) /\ Cardinality(S) \in Nat /\ Cardinality(S) <= Window
         /\ S \in SUBSET Int
<1>1. IsFiniteSet(WindowFrom(a)) /\ Cardinality(WindowFrom(a)) = Window
  <2>1. a + Window - 1 \in Int /\ Window \in Nat \ {0} /\ a <= a + Window - 1
        /\ (a + Window - 1) - a + 1 = Window
    BY WindowAssumption
  <2>2. /\ IsFiniteSet(a .. (a + Window - 1))
        /\ Cardinality(a .. (a + Window - 1))
             = IF a > a + Window - 1 THEN 0 ELSE (a + Window - 1) - a + 1
    BY <2>1, FS_Interval
  <2> QED  BY <2>1, <2>2 DEF WindowFrom
<1>2. IsFiniteSet(S) /\ Cardinality(S) <= Cardinality(WindowFrom(a))
  BY ONLY <1>1, S \in SUBSET WindowFrom(a), FS_Subset
<1>3. Cardinality(S) \in Nat
  BY <1>2, FS_CardinalityType
<1>4. S \in SUBSET Int
  BY WindowAssumption DEF WindowFrom
<1> QED  BY <1>1, <1>2, <1>3, <1>4

\* The numbers of the ranges lie in the window.
LEMMA NumbersInWindow ==
  ASSUME NEW a, NEW D, NEW e, Ranges(a, D, e)
  PROVE  /\ Numbers(D, e) \in SUBSET WindowFrom(a)
         /\ \A n : n \in Numbers(D, e) <=> \E x \in D : n \in x .. e[x]
         /\ D \in SUBSET Numbers(D, e)
<1>1. \A n : n \in Numbers(D, e) <=> \E x \in D : n \in x .. e[x]
  BY DEF Numbers
<1>2. \A x \in D : x .. e[x] \in SUBSET WindowFrom(a) /\ x \in x .. e[x]
  BY WindowAssumption DEF Ranges, WindowFrom
<1> QED  BY <1>1, <1>2

\* Out of a window there is a first, and one after and before any number
\* that is not the last or the first.
LEMMA Neighbours ==
  ASSUME NEW a \in Int, NEW D \in SUBSET WindowFrom(a)
  PROVE  /\ D = {} \/ \E x \in D : FirstIn(D, x)
         /\ \A x \in Int : (\A w \in D : w <= x) \/ \E y \in D : NextIn(D, x, y)
         /\ \A y \in Int : (\A w \in D : y <= w) \/ \E x \in D : PriorIn(D, x, y)
<1>1. D \in SUBSET Int /\ IsFiniteSet(D)
  BY WindowFinite
<1>2. ASSUME NEW S \in SUBSET D, S # {}
      PROVE  \E m \in S : \A n \in S : m <= n
  <2>1. IsFiniteSet(S) /\ S \in SUBSET Int
    <3>1. IsFiniteSet(S)
      BY ONLY <1>1, S \in SUBSET D, FS_Subset
    <3> QED  BY <1>1, <3>1
  <2> QED  BY <1>2, <2>1, LeastOf
<1>3. ASSUME NEW S \in SUBSET D, S # {}
      PROVE  \E m \in S : \A n \in S : n <= m
  <2> DEFINE f == [n \in S |-> n]
  <2>1. IsFiniteSet(S)
    BY ONLY <1>1, S \in SUBSET D, FS_Subset
  <2>2. \A n \in S : f[n] \in Int
    BY <1>1
  <2>3. \E m \in S : \A n \in S : f[n] <= f[m]
    <3> HIDE DEF f
    <3> QED  BY <1>3, <2>1, <2>2, GreatestBy
  <2> QED  BY <2>3
<1>4. D = {} \/ \E x \in D : FirstIn(D, x)
  BY <1>2 DEF FirstIn
<1>5. ASSUME NEW x \in Int, ~\A w \in D : w <= x
      PROVE  \E y \in D : NextIn(D, x, y)
  <2> DEFINE S == {w \in D : x < w}
  <2>1. S # {}
    BY <1>1, <1>5
  <2>2. PICK y \in S : \A w \in S : y <= w
    <3> HIDE DEF S
    <3>1. S \in SUBSET D
      BY DEF S
    <3> QED  BY <1>2, <2>1, <3>1
  <2> QED  BY <2>2 DEF NextIn
<1>6. ASSUME NEW y \in Int, ~\A w \in D : y <= w
      PROVE  \E x \in D : PriorIn(D, x, y)
  <2> DEFINE S == {w \in D : w < y}
  <2>1. S # {}
    BY <1>1, <1>6
  <2>2. PICK x \in S : \A w \in S : w <= x
    <3> HIDE DEF S
    <3>1. S \in SUBSET D
      BY DEF S
    <3> QED  BY <1>3, <2>1, <3>1
  <2> QED  BY <2>2 DEF PriorIn
<1> QED  BY <1>4, <1>5, <1>6

\* The numbers when a range is added that shares none with the others, and
\* how many they are.
LEMMA CountAdded ==
  ASSUME NEW a \in Int, NEW S \in SUBSET WindowFrom(a),
         NEW lo \in WindowFrom(a), NEW hi \in WindowFrom(a), lo <= hi + 1, S \cap (lo .. hi) = {}
  PROVE  Cardinality(S \cup (lo .. hi)) = Cardinality(S) + (hi - lo + 1)
<1>1. IsFiniteSet(S) /\ Cardinality(S) \in Nat
  BY WindowFinite
<1>2. lo \in Int /\ hi \in Int
  BY Near
<1>3. IsFiniteSet(lo .. hi) /\ Cardinality(lo .. hi) = IF lo > hi THEN 0 ELSE hi - lo + 1
  BY <1>2, FS_Interval
<1>4. Cardinality(S \cup (lo .. hi))
        = Cardinality(S) + Cardinality(lo .. hi) - Cardinality(S \cap (lo .. hi))
  BY <1>1, <1>3, FS_Union
<1>5. Cardinality(S \cap (lo .. hi)) = 0
  BY FS_EmptySet
<1> QED  BY <1>1, <1>2, <1>3, <1>4, <1>5

-----------------------------------------------------------------------------
(* The arrays and links of a list with m cells that hold given ranges.     *)

Second(x, y) == IF y = x THEN Nil ELSE Wrap(y)

Stored(m, z, D, e, d1, d2) ==
    /\ d1 \in [0 .. (m - 1) -> Int] /\ d2 \in [0 .. (m - 1) -> Int]
    /\ \A x \in D : d1[Place(m, z, x)] = Wrap(x) /\ d2[Place(m, z, x)] = Second(x, e[x])
    /\ \A c \in 0 .. (m - 1) : (\A x \in D : c # Place(m, z, x)) => d1[c] = Nil /\ d2[c] = Nil

Linked(m, z, D, nx) ==
    /\ nx \in [0 .. (m - 1) -> (0 .. (m - 1)) \cup {Nil}]
    /\ \A x, y \in D : NextIn(D, x, y) => nx[Place(m, z, x)] = Place(m, z, y)
    /\ \A x \in D : (\A w \in D : w <= x) => nx[Place(m, z, x)] = Nil

\* Cell h is that of the first range.
HeadIs(m, z, D, h) ==
    (D = {} => h = Nil) /\ \A x \in D : FirstIn(D, x) => h = Place(m, z, x)

Size(m) == m \in Nat /\ Window <= m

\* Arrays b1 and b2 are d1 and d2 with a range put in the cell of x, or with
\* that cell free.
ElsewhereSame(m, z, x, d1, d2, b1, b2) ==
    /\ b1 \in [0 .. (m - 1) -> Int] /\ b2 \in [0 .. (m - 1) -> Int]
    /\ \A c \in 0 .. (m - 1) : c # Place(m, z, x) => b1[c] = d1[c] /\ b2[c] = d2[c]
PutIn(m, z, x, y, d1, d2, b1, b2) ==
    /\ ElsewhereSame(m, z, x, d1, d2, b1, b2)
    /\ b1[Place(m, z, x)] = Wrap(x) /\ b2[Place(m, z, x)] = Second(x, y)
TakenOut(m, z, x, d1, d2, b1, b2) ==
    /\ ElsewhereSame(m, z, x, d1, d2, b1, b2)
    /\ b1[Place(m, z, x)] = Nil /\ b2[Place(m, z, x)] = Nil

\* Links nb are nx but in given cells.
LinksSame(m, C, nx, nb) ==
    /\ nb \in [0 .. (m - 1) -> (0 .. (m - 1)) \cup {Nil}]
    /\ \A c \in (0 .. (m - 1)) \ C : nb[c] = nx[c]

\* Two functions agree on a set.
Agree(S, f, e) == \A y \in S : f[y] = e[y]

\* What the cells of two numbers of the window say about them.
LEMMA PlaceNear ==
  ASSUME NEW a \in Int, NEW m, Size(m), NEW z \in Int,
         NEW x \in WindowFrom(a), NEW y \in WindowFrom(a)
  PROVE  /\ m \in Nat \ {0}
         /\ Place(m, z, x) \in 0 .. (m - 1) /\ Place(m, z, x) # Nil
         /\ Place(m, z, x) = Place(m, z, y) <=> x = y
         /\ (Place(m, z, x) + (y - x)) % m = Place(m, z, y)
         /\ (Place(m, z, x) + (y - x) + m) % m = Place(m, z, y)
<1>1. x \in Int /\ y \in Int /\ x - y < Window /\ y - x < Window
  BY Near
<1>2. m \in Nat \ {0} /\ x - y < m /\ y - x < m
  BY <1>1, WindowAssumption DEF Size
<1>3. /\ Place(m, z, x) \in 0 .. (m - 1)
      /\ Place(m, z, x) = Place(m, z, y) <=> x = y
      /\ (Place(m, z, x) + (y - x)) % m = Place(m, z, y)
      /\ (Place(m, z, x) + (y - x) + m) % m = Place(m, z, y)
  BY <1>1, <1>2, PlaceArith
<1>4. Place(m, z, x) # Nil
  BY <1>2, <1>3 DEF Nil
<1> QED  BY <1>2, <1>3, <1>4

\* What CSeqNo says of the sequence numbers of two numbers of the window.
LEMMA WrapNear ==
  ASSUME NEW a \in Int, NEW x \in WindowFrom(a), NEW y \in WindowFrom(a)
  PROVE  /\ x \in Int /\ y \in Int
         /\ Wrap(x) \in SeqNos /\ Wrap(x) \in Int /\ Wrap(x) # Nil
         /\ Wrap(x) = Wrap(y) <=> x = y
         /\ Seqcmp(Wrap(x), Wrap(y)) \in Int
         /\ Seqcmp(Wrap(x), Wrap(y)) < 0 <=> x < y
         /\ Seqcmp(Wrap(x), Wrap(y)) > 0 <=> x > y
         /\ Seqcmp(Wrap(x), Wrap(y)) <= 0 <=> x <= y
         /\ Seqcmp(Wrap(x), Wrap(y)) >= 0 <=> x >= y
         /\ Seqoff(Wrap(x), Wrap(y)) = y - x
         /\ x <= y => Seqlen(Wrap(x), Wrap(y)) = y - x + 1
<1>1. x \in Int /\ y \in Int /\ x - y < SeqNoTH /\ y - x < SeqNoTH
  BY Near
<1>2. /\ Wrap(x) \in SeqNos
      /\ Wrap(x) = Wrap(y) <=> x = y
      /\ Seqcmp(Wrap(x), Wrap(y)) \in Int
      /\ Seqcmp(Wrap(x), Wrap(y)) < 0 <=> x < y
      /\ Seqcmp(Wrap(x), Wrap(y)) > 0 <=> x > y
      /\ Seqoff(Wrap(x), Wrap(y)) = y - x
      /\ x <= y => Seqlen(Wrap(x), Wrap(y)) = y - x + 1
  BY <1>1, WrapArith
<1>3. Wrap(x) \in Int /\ Wrap(x) # Nil
  BY <1>2, SeqNoAssumption DEF SeqNos, Nil
<1>4. PICK d \in Int : d = Seqcmp(Wrap(x), Wrap(y))
  BY <1>2
<1>5. (d <= 0 <=> x <= y) /\ (d >= 0 <=> x >= y)
  BY <1>1, <1>2, <1>4
<1> QED  BY <1>1, <1>2, <1>3, <1>4, <1>5

\* A range is found in the cell of its first number, and nowhere else.
LEMMA Found ==
  ASSUME NEW a, NEW m, Size(m), NEW z \in Int, NEW D, NEW e, Ranges(a, D, e),
         NEW d1, NEW d2, Stored(m, z, D, e, d1, d2), NEW x \in WindowFrom(a)
  PROVE  /\ d1[Place(m, z, x)] = Wrap(x) <=> x \in D
         /\ d1[Place(m, z, x)] # Nil <=> x \in D
         /\ x \notin D => d2[Place(m, z, x)] = Nil
<1>1. a \in Int /\ D \in SUBSET WindowFrom(a)
  BY DEF Ranges
<1>2. Wrap(x) # Nil
  BY <1>1, WrapNear
<1>3. CASE x \in D
  BY <1>2, <1>3 DEF Stored
<1>4. CASE x \notin D
  <2>1. Place(m, z, x) \in 0 .. (m - 1)
    BY <1>1, PlaceNear
  <2>2. \A y \in D : Place(m, z, x) # Place(m, z, y)
    BY <1>1, <1>4, PlaceNear
  <2>3. d1[Place(m, z, x)] = Nil /\ d2[Place(m, z, x)] = Nil
    BY <2>1, <2>2 DEF Stored
  <2> QED  BY <1>2, <1>4, <2>3
<1> QED  BY <1>3, <1>4

\* A range put in, or changed, in its cell.
LEMMA StoredPut ==
  ASSUME NEW a, NEW m, Size(m), NEW z \in Int, NEW D, NEW e, Ranges(a, D, e),
         NEW d1, NEW d2, Stored(m, z, D, e, d1, d2), NEW x \in WindowFrom(a),
         NEW f, Agree(D \ {x}, f, e), NEW b1, NEW b2, PutIn(m, z, x, f[x], d1, d2, b1, b2)
  PROVE  Stored(m, z, D \cup {x}, f, b1, b2)
<1>0. /\ \A y \in D \ {x} : f[y] = e[y]
      /\ b1 \in [0 .. (m - 1) -> Int] /\ b2 \in [0 .. (m - 1) -> Int]
      /\ b1[Place(m, z, x)] = Wrap(x) /\ b2[Place(m, z, x)] = Second(x, f[x])
      /\ \A c \in 0 .. (m - 1) : c # Place(m, z, x) => b1[c] = d1[c] /\ b2[c] = d2[c]
  BY DEF Agree, PutIn, ElsewhereSame
<1>1. a \in Int /\ D \in SUBSET WindowFrom(a)
  BY DEF Ranges
<1>2. ASSUME NEW y \in D \cup {x}
      PROVE  b1[Place(m, z, y)] = Wrap(y) /\ b2[Place(m, z, y)] = Second(y, f[y])
  <2>1. CASE y = x
    BY <1>0, <2>1
  <2>2. CASE y # x
    <3>1. y \in D \ {x} /\ y \in WindowFrom(a)
      BY <1>1, <2>2
    <3>2. Place(m, z, y) \in 0 .. (m - 1) /\ Place(m, z, y) # Place(m, z, x)
      BY <1>1, <2>2, <3>1, PlaceNear
    <3>3. d1[Place(m, z, y)] = Wrap(y) /\ d2[Place(m, z, y)] = Second(y, e[y])
      BY <3>1 DEF Stored
    <3> QED  BY <1>0, <3>1, <3>2, <3>3
  <2> QED  BY <2>1, <2>2
<1>3. ASSUME NEW c \in 0 .. (m - 1), \A y \in D \cup {x} : c # Place(m, z, y)
      PROVE  b1[c] = Nil /\ b2[c] = Nil
  BY <1>0, <1>3 DEF Stored
<1> QED  BY <1>0, <1>2, <1>3 DEF Stored

\* A range taken out of its cell.
LEMMA StoredWithout ==
  ASSUME NEW a, NEW m, Size(m), NEW z \in Int, NEW D, NEW e, Ranges(a, D, e),
         NEW d1, NEW d2, Stored(m, z, D, e, d1, d2), NEW x \in D,
         NEW b1, NEW b2, TakenOut(m, z, x, d1, d2, b1, b2)
  PROVE  Stored(m, z, D \ {x}, e, b1, b2)
<1>0. /\ b1 \in [0 .. (m - 1) -> Int] /\ b2 \in [0 .. (m - 1) -> Int]
      /\ b1[Place(m, z, x)] = Nil /\ b2[Place(m, z, x)] = Nil
      /\ \A c \in 0 .. (m - 1) : c # Place(m, z, x) => b1[c] = d1[c] /\ b2[c] = d2[c]
  BY DEF TakenOut, ElsewhereSame
<1>1. a \in Int /\ D \in SUBSET WindowFrom(a)
  BY DEF Ranges
<1>2. ASSUME NEW y \in D \ {x}
      PROVE  b1[Place(m, z, y)] = Wrap(y) /\ b2[Place(m, z, y)] = Second(y, e[y])
  <2>1. Place(m, z, y) \in 0 .. (m - 1) /\ Place(m, z, y) # Place(m, z, x)
    BY <1>1, PlaceNear
  <2>2. d1[Place(m, z, y)] = Wrap(y) /\ d2[Place(m, z, y)] = Second(y, e[y])
    BY DEF Stored
  <2> QED  BY <1>0, <2>1, <2>2
<1>3. ASSUME NEW c \in 0 .. (m - 1), \A y \in D \ {x} : c # Place(m, z, y)
      PROVE  b1[c] = Nil /\ b2[c] = Nil
  BY <1>0, <1>3 DEF Stored
<1> QED  BY <1>0, <1>2, <1>3 DEF Stored

\* A range linked in after the one before it.
LEMMA LinkedAfter ==
  ASSUME NEW a \in Int, NEW m, Size(m), NEW z \in Int, NEW D \in SUBSET WindowFrom(a),
         NEW nx, Linked(m, z, D, nx), NEW x \in WindowFrom(a), x \notin D,
         NEW p, PriorIn(D, p, x),
         NEW nb, LinksSame(m, {Place(m, z, x), Place(m, z, p)}, nx, nb),
         nb[Place(m, z, p)] = Place(m, z, x), nb[Place(m, z, x)] = nx[Place(m, z, p)]
  PROVE  Linked(m, z, D \cup {x}, nb)
<1> USE DEF LinksSame
<1>1. p \in D /\ p < x /\ (\A w \in D : w < x => w <= p) /\ x \in Int /\ D \in SUBSET Int
  BY WindowFinite DEF PriorIn
<1>2. \A y \in D : Place(m, z, y) \in 0 .. (m - 1) /\ Place(m, z, y) # Place(m, z, x)
                   /\ (y # p => nb[Place(m, z, y)] = nx[Place(m, z, y)])
  <2> TAKE y \in D
  <2>1. Place(m, z, y) \in 0 .. (m - 1) /\ Place(m, z, y) # Place(m, z, x)
        /\ (Place(m, z, y) = Place(m, z, p) <=> y = p)
    BY <1>1, PlaceNear
  <2> QED  BY <2>1
<1>3. ASSUME NEW u \in D \cup {x}, NEW v \in D \cup {x}, NextIn(D \cup {x}, u, v)
      PROVE  nb[Place(m, z, u)] = Place(m, z, v)
  <2>1. u < v /\ \A w \in D \cup {x} : u < w => v <= w
    BY <1>3 DEF NextIn
  <2>2. CASE u = p
    <3>1. v <= x
      BY <1>1, <2>1, <2>2
    <3>2. v \in D => v < x
      BY <1>1, <3>1
    <3>3. v = x
      BY <1>1, <2>1, <2>2, <3>2
    <3> QED  BY <2>2, <3>3
  <2>3. CASE u = x
    <3>1. v \in D /\ p < v /\ x < v
      BY <1>1, <2>1, <2>3
    <3>2. \A w \in D : p < w => v <= w
      BY <1>1, <2>1, <2>3
    <3>3. NextIn(D, p, v)
      BY <3>1, <3>2 DEF NextIn
    <3> QED  BY <1>1, <2>3, <3>1, <3>3 DEF Linked
  <2>4. CASE u # p /\ u # x
    <3>1. u \in D
      BY <2>4
    <3>2. v # x
      <4> SUFFICES ASSUME v = x PROVE FALSE
        OBVIOUS
      <4>1. u < x /\ u <= p /\ u < p
        BY <1>1, <2>1, <2>4, <3>1
      <4>2. x <= p
        BY <1>1, <2>1, <4>1
      <4> QED  BY <1>1, <4>2
    <3>3. NextIn(D, u, v)
      BY <2>1, <3>2 DEF NextIn
    <3>4. nx[Place(m, z, u)] = Place(m, z, v)
      BY <3>1, <3>2, <3>3 DEF Linked
    <3> QED  BY <1>2, <2>4, <3>1, <3>4
  <2> QED  BY <2>2, <2>3, <2>4
<1>4. ASSUME NEW u \in D \cup {x}, \A w \in D \cup {x} : w <= u
      PROVE  nb[Place(m, z, u)] = Nil
  <2>1. x <= u
    BY <1>4
  <2>2. CASE u = x
    <3>1. \A w \in D : w <= p
      BY <1>1, <1>4, <2>2
    <3> QED  BY <1>1, <2>2, <3>1 DEF Linked
  <2>3. CASE u # x
    <3>1. u \in D /\ u # p
      BY <1>1, <2>1, <2>3
    <3>2. nx[Place(m, z, u)] = Nil
      BY <1>4, <3>1 DEF Linked
    <3> QED  BY <1>2, <3>1, <3>2
  <2> QED  BY <2>2, <2>3
<1> QED  BY <1>3, <1>4 DEF Linked

\* A range linked in before all others.
LEMMA LinkedFirst ==
  ASSUME NEW a \in Int, NEW m, Size(m), NEW z \in Int, NEW D \in SUBSET WindowFrom(a),
         NEW nx, Linked(m, z, D, nx), NEW x \in WindowFrom(a), \A w \in D : x < w,
         NEW nb, LinksSame(m, {Place(m, z, x)}, nx, nb), HeadIs(m, z, D, nb[Place(m, z, x)])
  PROVE  Linked(m, z, D \cup {x}, nb)
<1> USE DEF LinksSame, HeadIs
<1>1. x \in Int /\ D \in SUBSET Int
  BY WindowFinite, Near
<1>2. \A y \in D : nb[Place(m, z, y)] = nx[Place(m, z, y)]
  <2> TAKE y \in D
  <2>1. Place(m, z, y) \in 0 .. (m - 1) /\ (Place(m, z, y) = Place(m, z, x) <=> y = x)
    BY PlaceNear
  <2>2. y # x
    BY <1>1
  <2> QED  BY <2>1, <2>2
<1>3. ASSUME NEW u \in D \cup {x}, NEW v \in D \cup {x}, NextIn(D \cup {x}, u, v)
      PROVE  nb[Place(m, z, u)] = Place(m, z, v)
  <2>1. u < v /\ \A w \in D \cup {x} : u < w => v <= w
    BY <1>3 DEF NextIn
  <2>2. v \in D
    BY <1>1, <2>1
  <2>3. CASE u = x
    <3>1. FirstIn(D, v)
      BY <1>1, <2>1, <2>2, <2>3 DEF FirstIn
    <3> QED  BY <2>2, <2>3, <3>1
  <2>4. CASE u # x
    <3>1. u \in D /\ NextIn(D, u, v)
      BY <2>1, <2>2, <2>4 DEF NextIn
    <3>2. nx[Place(m, z, u)] = Place(m, z, v)
      BY <2>2, <3>1 DEF Linked
    <3> QED  BY <1>2, <3>1, <3>2
  <2> QED  BY <2>3, <2>4
<1>4. ASSUME NEW u \in D \cup {x}, \A w \in D \cup {x} : w <= u
      PROVE  nb[Place(m, z, u)] = Nil
  <2>1. CASE u = x
    <3>1. D = {}
      BY <1>1, <1>4, <2>1
    <3> QED  BY <2>1, <3>1
  <2>2. CASE u # x
    <3>1. u \in D /\ nx[Place(m, z, u)] = Nil
      BY <1>4, <2>2 DEF Linked
    <3> QED  BY <1>2, <3>1
  <2> QED  BY <2>1, <2>2
<1> QED  BY <1>3, <1>4 DEF Linked

\* The first range taken off.
LEMMA UnlinkedFirst ==
  ASSUME NEW a \in Int, NEW m, Size(m), NEW z \in Int, NEW D \in SUBSET WindowFrom(a),
         NEW nx, Linked(m, z, D, nx), NEW x, FirstIn(D, x),
         NEW nb, LinksSame(m, {Place(m, z, x)}, nx, nb)
  PROVE  Linked(m, z, D \ {x}, nb)
<1> USE DEF LinksSame
<1>1. x \in D /\ (\A w \in D : x <= w) /\ D \in SUBSET Int
  BY WindowFinite DEF FirstIn
<1>2. \A y \in D \ {x} : nb[Place(m, z, y)] = nx[Place(m, z, y)]
  <2> TAKE y \in D \ {x}
  <2>1. Place(m, z, y) \in 0 .. (m - 1) /\ (Place(m, z, y) = Place(m, z, x) <=> y = x)
    BY <1>1, PlaceNear
  <2> QED  BY <2>1
<1>3. ASSUME NEW u \in D \ {x}, NEW v \in D \ {x}, NextIn(D \ {x}, u, v)
      PROVE  nb[Place(m, z, u)] = Place(m, z, v)
  <2>1. u < v /\ \A w \in D \ {x} : u < w => v <= w
    BY <1>3 DEF NextIn
  <2>2. ~(u < x)
    BY <1>1
  <2>3. NextIn(D, u, v)
    BY <1>1, <2>1, <2>2 DEF NextIn
  <2> QED  BY <1>2, <2>3 DEF Linked
<1>4. ASSUME NEW u \in D \ {x}, \A w \in D \ {x} : w <= u
      PROVE  nb[Place(m, z, u)] = Nil
  <2>1. \A w \in D : w <= u
    BY <1>1, <1>4
  <2> QED  BY <1>2, <2>1 DEF Linked
<1> QED  BY <1>3, <1>4 DEF Linked

\* A range taken out after the one before it.
LEMMA UnlinkedAfter ==
  ASSUME NEW a \in Int, NEW m, Size(m), NEW z \in Int, NEW D \in SUBSET WindowFrom(a),
         NEW nx, Linked(m, z, D, nx), NEW x \in D, NEW p, PriorIn(D, p, x),
         NEW nb, LinksSame(m, {Place(m, z, x), Place(m, z, p)}, nx, nb),
         nb[Place(m, z, p)] = nx[Place(m, z, x)]
  PROVE  Linked(m, z, D \ {x}, nb)
<1> USE DEF LinksSame
<1>1. p \in D /\ p < x /\ (\A w \in D : w < x => w <= p) /\ x \in Int /\ D \in SUBSET Int
  BY WindowFinite DEF PriorIn
<1>2. \A y \in D \ {x} : y # p => nb[Place(m, z, y)] = nx[Place(m, z, y)]
  <2> TAKE y \in D \ {x}
  <2>1. Place(m, z, y) \in 0 .. (m - 1) /\ Place(m, z, y) # Place(m, z, x)
        /\ (Place(m, z, y) = Place(m, z, p) <=> y = p)
    BY <1>1, PlaceNear
  <2> QED  BY <2>1
<1>3. ASSUME NEW u \in D \ {x}, NEW v \in D \ {x}, NextIn(D \ {x}, u, v)
      PROVE  nb[Place(m, z, u)] = Place(m, z, v)
  <2>1. u < v /\ \A w \in D \ {x} : u < w => v <= w
    BY <1>3 DEF NextIn
  <2>2. CASE u = p
    <3>1. x < v
      BY <1>1, <2>1, <2>2
    <3>2. \A w \in D : x < w => v <= w
      BY <1>1, <2>1, <2>2
    <3>3. NextIn(D, x, v)
      BY <3>1, <3>2 DEF NextIn
    <3> QED  BY <2>2, <3>3 DEF Linked
  <2>3. CASE u # p
    <3>1. \A w \in D : u < w => v <= w
      <4> SUFFICES ASSUME u < x, ~(v <= x) PROVE FALSE
        BY <2>1
      <4>1. u <= p /\ u < p
        BY <1>1, <2>3
      <4>2. v <= p
        BY <1>1, <2>1, <4>1
      <4> QED  BY <1>1, <4>2
    <3>2. NextIn(D, u, v)
      BY <2>1, <3>1 DEF NextIn
    <3>3. nx[Place(m, z, u)] = Place(m, z, v)
      BY <3>2 DEF Linked
    <3> QED  BY <1>2, <2>3, <3>3
  <2> QED  BY <2>2, <2>3
<1>4. ASSUME NEW u \in D \ {x}, \A w \in D \ {x} : w <= u
      PROVE  nb[Place(m, z, u)] = Nil
  <2>1. CASE u = p
    <3>1. \A w \in D : w <= x
      BY <1>1, <1>4, <2>1
    <3> QED  BY <2>1, <3>1 DEF Linked
  <2>2. CASE u # p
    <3>1. p <= u /\ p < u /\ x <= u
      BY <1>1, <1>4, <2>2
    <3>2. \A w \in D : w <= u
      BY <1>4, <3>1
    <3>3. nx[Place(m, z, u)] = Nil
      BY <3>2 DEF Linked
    <3> QED  BY <1>2, <2>2, <3>3
  <2> QED  BY <2>1, <2>2
<1> QED  BY <1>3, <1>4 DEF Linked

-----------------------------------------------------------------------------
(* The sender's list.                                                      *)

\* The cells of the ranges, and the cached position on one of them.
SndHeld(l, a, z, D, e) ==
    /\ l \in SndLists /\ z \in Int
    /\ Ranges(a, D, e)
    /\ Stored(SndSize, z, D, e, l.data1, l.data2)
    /\ Linked(SndSize, z, D, l.next)
    /\ l.last = Nil \/ \E x \in D : l.last = Place(SndSize, z, x)

\* The list holds the ranges, apart, from the head on, and counts them.
SndHolds(l, a, z, D, e) ==
    /\ SndHeld(l, a, z, D, e) /\ Apart(D, e)
    /\ HeadIs(SndSize, z, D, l.head)
    /\ l.length = Cardinality(Numbers(D, e))

\* The size of the arrays, and what the fields are.
LEMMA SndFields ==
  ASSUME NEW l \in SndLists
  PROVE  /\ Size(SndSize) /\ SndSize \in Nat \ {0} /\ 0 \in SndCells
         /\ SndCells = 0 .. (SndSize - 1) /\ Nil \notin SndCells
         /\ l.data1 \in [0 .. (SndSize - 1) -> Int] /\ l.data2 \in [0 .. (SndSize - 1) -> Int]
         /\ l.next \in [0 .. (SndSize - 1) -> (0 .. (SndSize - 1)) \cup {Nil}]
         /\ l.head \in SndCells \cup {Nil} /\ l.length \in Int
         /\ l.last \in SndCells \cup {Nil}
BY SndSizeAssumption, WindowAssumption DEF SndLists, SndCells, SndLinks, Size, Nil

\* The end of a range, as the code reads it.
LEMMA EndIs ==
  ASSUME NEW l, NEW a, NEW m, Size(m), NEW z \in Int, NEW D, NEW e, Ranges(a, D, e),
         Stored(m, z, D, e, l.data1, l.data2), NEW x \in D
  PROVE  /\ l.data1[Place(m, z, x)] = Wrap(x)
         /\ End(l, Place(m, z, x)) = Wrap(e[x])
         /\ l.data2[Place(m, z, x)] = Nil <=> e[x] = x
         /\ e[x] # x => l.data2[Place(m, z, x)] = Wrap(e[x])
<1>1. a \in Int /\ e[x] \in WindowFrom(a)
  BY DEF Ranges
<1>2. Wrap(e[x]) # Nil
  BY <1>1, WrapNear
<1> QED  BY <1>2 DEF Stored, End, Second

\* A search along the links ends at the last range that starts before y.
LEMMA SndForward ==
  ASSUME NEW l, NEW a, NEW z, NEW D, NEW e, SndHeld(l, a, z, D, e),
         NEW y \in WindowFrom(a), NEW x \in D, x < y
  PROVE  \E p \in D : /\ PriorIn(D, p, y)
                      /\ Forward(l, Place(SndSize, z, x), Wrap(y)) = Place(SndSize, z, p)
<1> DEFINE P(w) == Place(SndSize, z, w)
           R == [c \in SndCells |-> {k \in Nat : \E w \in D : c = P(w) /\ w < y /\ k = y - w}]
           pass == Ahead(l, Wrap(y))
<1>1. /\ a \in Int /\ z \in Int /\ D \in SUBSET WindowFrom(a) /\ Size(SndSize)
      /\ Stored(SndSize, z, D, e, l.data1, l.data2) /\ Linked(SndSize, z, D, l.next)
      /\ SndCells = 0 .. (SndSize - 1) /\ Nil \notin SndCells /\ SndSize \in Nat
  BY SndFields DEF SndHeld, Ranges
<1>2. \A w \in D : P(w) \in SndCells /\ P(w) # Nil /\ w \in Int /\ l.data1[P(w)] = Wrap(w)
                   /\ (Seqcmp(Wrap(w), Wrap(y)) < 0 <=> w < y)
  <2> TAKE w \in D
  <2>1. w \in WindowFrom(a) /\ l.data1[P(w)] = Wrap(w)
    BY <1>1 DEF Stored
  <2>2. P(w) \in SndCells /\ P(w) # Nil
    BY <1>1, <2>1, PlaceNear
  <2>3. w \in Int /\ (Seqcmp(Wrap(w), Wrap(y)) < 0 <=> w < y)
    BY <1>1, <2>1, WrapNear
  <2> QED  BY <2>1, <2>2, <2>3
<1>3. \A v, w \in D : P(v) = P(w) <=> v = w
  BY <1>1, PlaceNear
<1>4. y \in Int /\ \A w \in D : y - w < Window
  BY <1>1, Near
<1>5. ASSUME NEW w \in D, w < y
      PROVE  \/ pass[P(w)] = P(w) /\ PriorIn(D, w, y)
             \/ pass[P(w)] # P(w) /\ \E v \in D : pass[P(w)] = P(v) /\ w < v /\ v < y
  <2>1. CASE \A v \in D : v <= w
    <3>1. l.next[P(w)] = Nil
      BY <1>1, <2>1 DEF Linked
    <3>2. pass[P(w)] = P(w)
      BY <1>2, <3>1 DEF Ahead
    <3> QED  BY <1>5, <2>1, <3>2 DEF PriorIn
  <2>2. CASE ~\A v \in D : v <= w
    <3>1. PICK v \in D : NextIn(D, w, v)
      BY <1>1, <1>2, <2>2, Neighbours
    <3>2. l.next[P(w)] = P(v) /\ w < v /\ \A u \in D : w < u => v <= u
      BY <1>1, <3>1 DEF Linked, NextIn
    <3>3. pass[P(w)] = IF v < y THEN P(v) ELSE P(w)
      BY <1>2, <3>2 DEF Ahead
    <3>4. CASE v < y
      BY <1>2, <1>3, <3>2, <3>3, <3>4
    <3>5. CASE ~(v < y)
      <4>1. \A u \in D : u < y => u <= w
        BY <1>2, <1>4, <3>2, <3>5
      <4> QED  BY <1>5, <3>3, <3>5, <4>1 DEF PriorIn
    <3> QED  BY <3>4, <3>5
  <2> QED  BY <2>1, <2>2
<1>6. R \in [SndCells -> SUBSET Nat]
  OBVIOUS
<1>7. y - x \in R[P(x)] /\ P(x) \in SndCells /\ y - x <= SndSize
  <2>1. y - x \in Nat /\ y - x < Window /\ Window <= SndSize /\ Window \in Nat
    BY <1>2, <1>4, SndSizeAssumption, WindowAssumption
  <2> QED  BY <1>1, <1>2, <2>1
<1>8. ASSUME NEW c \in SndCells, NEW k \in R[c]
      PROVE  pass[c] = c \/ (pass[c] \in SndCells /\ \E j \in R[pass[c]] : j < k)
  <2>1. PICK w \in D : c = P(w) /\ w < y /\ k = y - w
    OBVIOUS
  <2>2. CASE pass[c] # c
    <3>1. PICK v \in D : pass[c] = P(v) /\ w < v /\ v < y
      BY <1>5, <2>1, <2>2
    <3>2. P(v) \in SndCells /\ y - v \in Nat /\ y - v < k
      BY <1>2, <1>4, <2>1, <3>1
    <3>3. y - v \in R[P(v)]
      BY <3>1, <3>2
    <3> QED  BY <3>1, <3>2, <3>3
  <2> QED  BY <2>2
<1> DEFINE q == Repeat(pass, P(x), SndSize)
<1>9. pass[q] = q /\ q \in SndCells /\ R[q] # {}
  <2>1. PICK m : m = y - x
    OBVIOUS
  <2>2. PICK s : s = P(x)
    OBVIOUS
  <2>3. m \in R[s] /\ s \in SndCells /\ m <= SndSize
    BY <1>7, <2>1, <2>2
  <2>4. q = Repeat(pass, s, SndSize)
    BY <2>2
  <2> HIDE DEF q, R, pass
  <2>5. SndSize \in Nat
    BY <1>1
  <2> QED  BY ONLY <1>6, <1>8, <2>3, <2>4, <2>5, RepeatEnds
<1>10. PICK p \in D : q = P(p) /\ p < y
  <2> HIDE DEF q
  <2> QED  BY <1>9
<1>11. PriorIn(D, p, y)
  <2> HIDE DEF q, pass
  <2> QED  BY <1>5, <1>9, <1>10
<1> QED  BY <1>10, <1>11 DEF Forward

\* The loop that merges a longer range with those it reaches: what it keeps
\* is the numbers, counted as if no others were in that range.
ApartBut(D, e, x) == \A v, w \in D : v < w /\ v # x => e[v] < w
Merging(l, a, z, D, e, x, N) ==
    /\ SndHeld(l, a, z, D, e) /\ x \in D /\ ApartBut(D, e, x)
    /\ Numbers(D, e) = N
    /\ l.length = (e[x] - x + 1) + Cardinality(Numbers(D \ {x}, e))
    /\ l.last = Place(SndSize, z, x)
    /\ HeadIs(SndSize, z, D, l.head)

\* What the merge of two ranges does to the fields.
LEMMA AbsorbedFields ==
  ASSUME NEW l \in SndLists, NEW c \in SndCells, NEW i \in SndCells, c # i,
         NEW ov \in Int, ov = Overlap(l, c, i),
         NEW d \in Int, d = IF Seqcmp(End(l, i), l.data2[c]) > 0 THEN End(l, i) ELSE l.data2[c]
  PROVE  LET b == Absorbed(l, c, i) IN
         /\ b \in SndLists
         /\ b.data1[i] = Nil /\ \A k \in SndCells : k # i => b.data1[k] = l.data1[k]
         /\ b.data2[i] = Nil /\ b.data2[c] = d
         /\ \A k \in SndCells : k # i /\ k # c => b.data2[k] = l.data2[k]
         /\ b.next[c] = l.next[i]
         /\ \A k \in SndCells : k # i /\ k # c => b.next[k] = l.next[k]
         /\ b.length = l.length - ov /\ b.last = l.last /\ b.head = l.head
<1>1. PICK b : b = Absorbed(l, c, i)
  OBVIOUS
<1>2. b = [l EXCEPT !.length = @ - ov, !.data2[c] = d, !.data1[i] = Nil, !.data2[i] = Nil,
                    !.next[c] = l.next[i], !.next[i] = Nil]
  BY <1>1 DEF Absorbed
<1>3. l.next[i] \in SndLinks /\ Nil \in Int /\ Nil \in SndLinks /\ l.length \in Int
  BY DEF SndLists, SndLinks, Nil
<1>4. /\ b.data1 = [l.data1 EXCEPT ![i] = Nil]
      /\ b.data2 = [[l.data2 EXCEPT ![c] = d] EXCEPT ![i] = Nil]
      /\ b.next = [[l.next EXCEPT ![c] = l.next[i]] EXCEPT ![i] = Nil]
      /\ b.length = l.length - ov /\ b.last = l.last /\ b.head = l.head
  BY <1>2 DEF SndLists
<1>5. b \in SndLists
  <2>1. /\ [l.data1 EXCEPT ![i] = Nil] \in [SndCells -> Int]
        /\ [[l.data2 EXCEPT ![c] = d] EXCEPT ![i] = Nil] \in [SndCells -> Int]
        /\ [[l.next EXCEPT ![c] = l.next[i]] EXCEPT ![i] = Nil] \in [SndCells -> SndLinks]
        /\ l.length - ov \in Int /\ l.last \in SndLinks /\ l.head \in SndLinks
    BY <1>3 DEF SndLists
  <2>2. b = [data1 |-> b.data1, data2 |-> b.data2, next |-> b.next, head |-> b.head,
             length |-> b.length, last |-> b.last]
    BY <1>2 DEF SndLists
  <2> QED  BY <1>4, <2>1, <2>2 DEF SndLists
<1> QED  BY <1>1, <1>3, <1>4, <1>5 DEF SndLists

\* The ends when range x swallows range v.
Merged(e, x, v, f) ==
    /\ f \in [Int -> Int] /\ \A u \in Int : u # x => f[u] = e[u]
    /\ f[x] = IF e[v] > e[x] THEN e[v] ELSE e[x]

\* What a merge does to the numbers and their count.
LEMMA MergedNumbers ==
  ASSUME NEW a, NEW D, NEW e, Ranges(a, D, e), NEW x \in D, NEW v \in D, x < v,
         ApartBut(D, e, x), NextIn(D, x, v), v <= e[x] + 1, NEW f, Merged(e, x, v, f)
  PROVE  /\ Ranges(a, D, f) /\ Ranges(a, D \ {v}, f)
         /\ Numbers(D \ {v}, f) = Numbers(D, e)
         /\ Cardinality(Numbers(D \ {x}, e))
              = Cardinality(Numbers((D \ {v}) \ {x}, f)) + (e[v] - v + 1)
<1>1. /\ a \in Int /\ D \in SUBSET WindowFrom(a) /\ D \in SUBSET Int /\ e \in [Int -> Int]
      /\ \A u \in D : u <= e[u] /\ e[u] \in WindowFrom(a) /\ e[u] \in Int
  BY WindowFinite, Near DEF Ranges
<1> DEFINE mx == f[x]
<1> USE DEF ApartBut
<1>2. /\ mx \in WindowFrom(a) /\ mx \in Int /\ x <= mx /\ e[v] <= mx /\ e[x] <= mx
      /\ mx = IF e[v] > e[x] THEN e[v] ELSE e[x]
      /\ f \in [Int -> Int] /\ \A u \in Int : u # x => f[u] = e[u]
  BY <1>1 DEF Merged
<1> HIDE DEF mx
<1> f[x] = mx
  BY DEF mx
<1>3. Ranges(a, D, f)
  <2>1. \A u \in D : u <= f[u] /\ f[u] \in WindowFrom(a)
    <3> TAKE u \in D
    <3>1. CASE u = x
      BY <1>2, <3>1
    <3>2. CASE u # x
      BY <1>1, <1>2, <3>2
    <3> QED  BY <3>1, <3>2
  <2> QED  BY <1>1, <1>2, <2>1 DEF Ranges
<1>4. Ranges(a, D \ {v}, f)
  BY <1>3 DEF Ranges
<1>5. \A n : n \in Numbers(D \ {v}, f) <=> n \in Numbers(D, e)
  <2> TAKE n
  <2>1. ASSUME n \in Numbers(D \ {v}, f)
        PROVE  n \in Numbers(D, e)
    <3>1. PICK u \in D \ {v} : n \in u .. f[u]
      BY <2>1 DEF Numbers
    <3>2. CASE u # x
      BY <1>1, <1>2, <3>1, <3>2 DEF Numbers
    <3>3. CASE u = x
      <4>1. n \in x .. mx
        BY <3>1, <3>3
      <4>2. n \in x .. e[x] \/ n \in v .. e[v]
        BY <1>1, <1>2, <4>1
      <4> QED  BY <4>2 DEF Numbers
    <3> QED  BY <3>2, <3>3
  <2>2. ASSUME n \in Numbers(D, e)
        PROVE  n \in Numbers(D \ {v}, f)
    <3>1. PICK u \in D : n \in u .. e[u]
      BY <2>2 DEF Numbers
    <3>2. CASE u # x /\ u # v
      BY <1>1, <1>2, <3>1, <3>2 DEF Numbers
    <3>3. CASE u = x \/ u = v
      <4>1. n \in x .. mx
        BY <1>1, <1>2, <3>1, <3>3
      <4>2. x \in D \ {v} /\ n \in x .. f[x]
        BY <1>1, <4>1
      <4> QED  BY <4>2 DEF Numbers
    <3> QED  BY <3>2, <3>3
  <2> QED  BY <2>1, <2>2
<1>6. Numbers(D \ {v}, f) = Numbers(D, e)
  <2>1. PICK S : S = Numbers(D \ {v}, f)
    OBVIOUS
  <2>2. PICK T : T = Numbers(D, e)
    OBVIOUS
  <2> QED  BY <1>5, <2>1, <2>2
<1>7. PICK S : S = Numbers((D \ {v}) \ {x}, f)
  OBVIOUS
<1>8. PICK T : T = Numbers(D \ {x}, e)
  OBVIOUS
<1>9. \A n : n \in S <=> \E u \in D : u # v /\ u # x /\ n \in u .. e[u]
  BY <1>1, <1>2, <1>7 DEF Numbers
<1>10. T = S \cup (v .. e[v])
  <2>1. \A n : n \in T <=> \E u \in D : u # x /\ n \in u .. e[u]
    BY <1>8 DEF Numbers
  <2>2. v # x
    BY <1>1
  <2> QED  BY <1>9, <2>1, <2>2
<1>11. S \cap (v .. e[v]) = {}
  <2> SUFFICES ASSUME NEW n \in S, n \in v .. e[v] PROVE FALSE
    OBVIOUS
  <2>1. PICK u \in D : u # v /\ u # x /\ n \in u .. e[u]
    BY <1>9
  <2>2. CASE u < v
    BY <1>1, <2>1, <2>2
  <2>3. CASE v < u
    <3>1. v # x
      BY <1>1
    <3>2. e[v] < u
      BY <2>3, <3>1
    <3> QED  BY <1>1, <2>1, <3>2
  <2> QED  BY <1>1, <2>1, <2>2, <2>3
<1>12. S \in SUBSET WindowFrom(a)
  <2>1. \A u \in D : u .. e[u] \in SUBSET WindowFrom(a)
    BY <1>1, WindowAssumption DEF WindowFrom
  <2> QED  BY <1>9, <2>1
<1>13. Cardinality(T) = Cardinality(S) + (e[v] - v + 1)
  <2>1. PICK h \in WindowFrom(a) : h = e[v]
    BY <1>1
  <2>2. v \in WindowFrom(a) /\ v <= h + 1 /\ S \cap (v .. h) = {} /\ T = S \cup (v .. h)
    BY <1>1, <1>10, <1>11, <2>1
  <2>3. a \in Int /\ h \in WindowFrom(a)
    BY <1>1
  <2>4. Cardinality(T) = Cardinality(S) + (h - v + 1)
    BY ONLY <1>12, <2>2, <2>3, CountAdded
  <2> QED  BY <2>1, <2>4
<1> QED  BY <1>3, <1>4, <1>6, <1>7, <1>8, <1>13

\* A pass of that loop ends it or merges the next range.
LEMMA SwallowStep ==
  ASSUME NEW l, NEW a, NEW z, NEW D, NEW e, NEW x, NEW N, Merging(l, a, z, D, e, x, N)
  PROVE  \/ Swallow(Place(SndSize, z, x))[l] = l /\ Apart(D, e)
         \/ /\ Swallow(Place(SndSize, z, x))[l] # l
            /\ \E v \in D : \E f \in [Int -> Int] :
                  v # x /\ Merging(Swallow(Place(SndSize, z, x))[l], a, z, D \ {v}, f, x, N)
<1> DEFINE P(w) == Place(SndSize, z, w)
           c == P(x)
<1>1. /\ l \in SndLists /\ z \in Int /\ Ranges(a, D, e)
      /\ Stored(SndSize, z, D, e, l.data1, l.data2) /\ Linked(SndSize, z, D, l.next)
      /\ x \in D /\ \A u, w \in D : u < w /\ u # x => e[u] < w
      /\ l.length = (e[x] - x + 1) + Cardinality(Numbers(D \ {x}, e))
      /\ l.last = c /\ HeadIs(SndSize, z, D, l.head) /\ Numbers(D, e) = N
      /\ ApartBut(D, e, x)
  BY DEF Merging, SndHeld, ApartBut
<1>2. /\ a \in Int /\ D \in SUBSET WindowFrom(a) /\ D \in SUBSET Int /\ e \in [Int -> Int]
      /\ \A u \in D : u <= e[u] /\ e[u] \in WindowFrom(a) /\ e[u] \in Int
  BY <1>1, WindowFinite, Near DEF Ranges
<1>3. /\ Size(SndSize) /\ SndCells = 0 .. (SndSize - 1) /\ Nil \notin SndCells
      /\ l.data1 \in [SndCells -> Int] /\ l.data2 \in [SndCells -> Int]
      /\ l.next \in [SndCells -> SndCells \cup {Nil}] /\ l.length \in Int
  BY <1>1, SndFields
<1>4. \A w \in D : P(w) \in SndCells
  BY <1>1, <1>2, <1>3, PlaceNear
<1>5. Swallow(c)[l] =
         LET i == l.next[c]
         IN  IF /\ i # Nil /\ l.data2[c] # Nil
                /\ Seqcmp(l.data1[i], Incseq(l.data2[c])) <= 0
             THEN Absorbed(l, c, i) ELSE l
  BY <1>1 DEF Swallow
<1> HIDE DEF c
<1>6. CASE \A w \in D : w <= x
  <2>1. l.next[c] = Nil
    BY <1>1, <1>6 DEF Linked, c
  <2>2. Swallow(c)[l] = l
    BY <1>5, <2>1
  <2>3. Apart(D, e)
    BY <1>1, <1>2, <1>6 DEF Apart
  <2> QED  BY <2>2, <2>3 DEF c
<1>7. CASE ~\A w \in D : w <= x
  <2>1. PICK v \in D : NextIn(D, x, v)
    BY <1>1, <1>2, <1>7, Neighbours
  <2>2. x < v /\ (\A w \in D : x < w => v <= w) /\ v # x
    BY <1>2, <2>1 DEF NextIn
  <2>3. PICK i \in SndCells : i = P(v)
    BY <1>4
  <2>4. l.next[c] = i /\ i # Nil /\ c \in SndCells /\ c # i
    <3>1. c # P(v)
      BY <1>1, <1>2, <1>3, <2>2, PlaceNear DEF c
    <3> QED  BY <1>1, <1>3, <1>4, <2>1, <2>3, <3>1 DEF Linked, c
  <2>5. /\ l.data1[i] = Wrap(v) /\ End(l, i) = Wrap(e[v])
        /\ l.data2[c] = Nil <=> e[x] = x
        /\ e[x] # x => l.data2[c] = Wrap(e[x])
    <3>1. l.data1[i] = Wrap(v) /\ End(l, i) = Wrap(e[v])
      BY <1>1, <1>3, <2>3, EndIs
    <3>2. l.data2[c] = Second(x, e[x])
      BY <1>1 DEF Stored, c
    <3>3. Wrap(e[x]) # Nil
      BY <1>1, <1>2, WrapNear
    <3> QED  BY <3>1, <3>2, <3>3 DEF Second
  <2>6. e[x] < v => Apart(D, e)
    <3> SUFFICES ASSUME e[x] < v, NEW u \in D, NEW w \in D, u < w PROVE e[u] < w
      BY DEF Apart
    <3> QED  BY <1>1, <1>2, <2>2
  <2>7. CASE e[x] = x
    <3>1. Swallow(c)[l] = l
      BY <1>5, <2>5, <2>7
    <3> QED  BY <2>2, <2>6, <2>7, <3>1 DEF c
  <2>8. CASE e[x] # x
    <3>1. Seqcmp(Wrap(v), Incseq(Wrap(e[x]))) <= 0 <=> v <= e[x] + 1
      <4>1. PICK t \in Int : t = e[x] + 1
        BY <1>1, <1>2
      <4>2. Incseq(Wrap(e[x])) = Wrap(t)
        BY <1>1, <1>2, <4>1, WrapSteps
      <4>3. v - t < SeqNoTH /\ t - v < SeqNoTH /\ v \in Int
        <5>1. v - e[x] < Window /\ e[x] - v < Window
          BY <1>1, <1>2, Near
        <5> QED  BY <1>1, <1>2, <4>1, <5>1, WindowAssumption, SeqNoAssumption
      <4>4. /\ Seqcmp(Wrap(v), Wrap(t)) \in Int
            /\ Seqcmp(Wrap(v), Wrap(t)) > 0 <=> v > t
        BY <4>3, WrapArith
      <4>5. PICK d \in Int : d = Seqcmp(Wrap(v), Wrap(t))
        BY <4>4
      <4>6. d <= 0 <=> v <= t
        BY <4>3, <4>4, <4>5
      <4> QED  BY <4>1, <4>2, <4>5, <4>6
    <3>2. l.data2[c] = Wrap(e[x]) /\ l.data2[c] # Nil
      BY <2>5, <2>8
    <3>3. CASE v > e[x] + 1
      <4>1. ~(Seqcmp(Wrap(v), Incseq(Wrap(e[x]))) <= 0)
        BY <1>1, <1>2, <3>1, <3>3
      <4>2. Swallow(c)[l] = l
        BY <1>5, <2>4, <2>5, <3>2, <4>1
      <4> QED  BY <1>1, <1>2, <2>6, <3>3, <4>2 DEF c
    <3>4. CASE v <= e[x] + 1
      <4>1. PICK b : b = Absorbed(l, c, i)
        OBVIOUS
      <4>2. Swallow(c)[l] = b
        BY <1>5, <2>4, <2>5, <3>1, <3>2, <3>4, <4>1
      <4>3. PICK mx \in Int : mx = IF e[v] > e[x] THEN e[v] ELSE e[x]
        BY <1>1, <1>2
      <4>4. PICK f : /\ f \in [Int -> Int] /\ f[x] = mx /\ \A u \in Int : u # x => f[u] = e[u]
                     /\ Merged(e, x, v, f)
        <5>1. PICK f : f = [e EXCEPT ![x] = mx]
          OBVIOUS
        <5>2. f \in [Int -> Int] /\ f[x] = mx /\ \A u \in Int : u # x => f[u] = e[u]
          BY <1>1, <1>2, <5>1
        <5> QED  BY <4>3, <5>2 DEF Merged
      <4>5. /\ Ranges(a, D, f) /\ Ranges(a, D \ {v}, f)
            /\ Numbers(D \ {v}, f) = N
            /\ Cardinality(Numbers(D \ {x}, e))
                 = Cardinality(Numbers((D \ {v}) \ {x}, f)) + (e[v] - v + 1)
        <5>1. /\ Ranges(a, D, e) /\ x \in D /\ v \in D /\ x < v /\ NextIn(D, x, v)
              /\ ApartBut(D, e, x) /\ Merged(e, x, v, f)
          BY <1>1, <2>1, <2>2, <4>4
        <5>3. /\ Ranges(a, D, f) /\ Ranges(a, D \ {v}, f)
              /\ Numbers(D \ {v}, f) = Numbers(D, e)
              /\ Cardinality(Numbers(D \ {x}, e))
                   = Cardinality(Numbers((D \ {v}) \ {x}, f)) + (e[v] - v + 1)
          BY ONLY SMTT(60), <3>4, <5>1, MergedNumbers
        <5> QED  BY <1>1, <5>3
      <4>6. PICK ov \in Int :
              /\ ov = Overlap(l, c, i)
              /\ ov = IF e[x] < v THEN 0 ELSE (IF e[v] > e[x] THEN e[x] ELSE e[v]) - v + 1
        <5>1. /\ Seqcmp(Wrap(e[x]), Wrap(v)) < 0 <=> e[x] < v
              /\ Seqcmp(Wrap(e[v]), Wrap(e[x])) > 0 <=> e[v] > e[x]
              /\ v <= e[x] => Seqlen(Wrap(v), Wrap(e[x])) = e[x] - v + 1
              /\ Seqlen(Wrap(v), Wrap(e[v])) = e[v] - v + 1
          <6>1. Seqcmp(Wrap(e[x]), Wrap(v)) < 0 <=> e[x] < v
            BY <1>1, <1>2, WrapNear
          <6>2. Seqcmp(Wrap(e[v]), Wrap(e[x])) > 0 <=> e[v] > e[x]
            BY <1>1, <1>2, WrapNear
          <6>3. v <= e[x] => Seqlen(Wrap(v), Wrap(e[x])) = e[x] - v + 1
            BY <1>1, <1>2, WrapNear
          <6>4. Seqlen(Wrap(v), Wrap(e[v])) = e[v] - v + 1
            BY <1>1, <1>2, WrapNear
          <6> QED  BY <6>1, <6>2, <6>3, <6>4
        <5>2. Overlap(l, c, i)
                = IF e[x] < v THEN 0 ELSE (IF e[v] > e[x] THEN e[x] ELSE e[v]) - v + 1
          <6>1. Overlap(l, c, i)
                  = IF Seqcmp(Wrap(e[x]), Wrap(v)) < 0 THEN 0
                    ELSE Seqlen(Wrap(v), IF Seqcmp(Wrap(e[v]), Wrap(e[x])) > 0
                                         THEN Wrap(e[x]) ELSE Wrap(e[v]))
            BY <2>5, <3>2 DEF Overlap
          <6>2. CASE e[x] < v
            BY <5>1, <6>1, <6>2
          <6>3. CASE ~(e[x] < v) /\ e[v] > e[x]
            <7>1. v <= e[x]
              BY <1>1, <1>2, <6>3
            <7> QED  BY <5>1, <6>1, <6>3, <7>1
          <6>4. CASE ~(e[x] < v) /\ ~(e[v] > e[x])
            BY <5>1, <6>1, <6>4
          <6> QED  BY <6>2, <6>3, <6>4
        <5> QED  BY <1>1, <1>2, <5>2
      <4>7. PICK d \in Int :
              /\ d = IF Seqcmp(End(l, i), l.data2[c]) > 0 THEN End(l, i) ELSE l.data2[c]
              /\ d = Wrap(mx)
        <5>1. Seqcmp(Wrap(e[v]), Wrap(e[x])) > 0 <=> e[v] > e[x]
          BY <1>1, <1>2, WrapNear
        <5>2. Wrap(mx) \in Int
          BY <1>1, <1>2, <4>3, WrapNear
        <5> QED  BY <2>5, <3>2, <4>3, <5>1, <5>2
      <4>8. /\ b \in SndLists
            /\ b.data1[i] = Nil /\ \A k \in SndCells : k # i => b.data1[k] = l.data1[k]
            /\ b.data2[i] = Nil /\ b.data2[c] = d
            /\ \A k \in SndCells : k # i /\ k # c => b.data2[k] = l.data2[k]
            /\ b.next[c] = l.next[i]
            /\ \A k \in SndCells : k # i /\ k # c => b.next[k] = l.next[k]
            /\ b.length = l.length - ov /\ b.last = l.last /\ b.head = l.head
        <5>1. /\ l \in SndLists /\ c \in SndCells /\ i \in SndCells /\ c # i
              /\ ov \in Int /\ ov = Overlap(l, c, i)
              /\ d \in Int
              /\ d = IF Seqcmp(End(l, i), l.data2[c]) > 0 THEN End(l, i) ELSE l.data2[c]
          BY <1>1, <2>4, <4>6, <4>7
        <5> QED  BY ONLY <4>1, <5>1, AbsorbedFields
      <4>9. b # l
        <5>1. l.data1[i] # Nil
          BY <1>1, <1>2, <2>5, WrapNear
        <5> QED  BY <4>8, <5>1
      <4>10. Merging(b, a, z, D \ {v}, f, x, N)
        <5>1. Stored(SndSize, z, D \ {v}, f, b.data1, b.data2)
          <6>1. PICK mid \in [SndCells -> Int] :
                  mid[c] = d /\ \A k \in SndCells : k # c => mid[k] = l.data2[k]
            <7>1. [l.data2 EXCEPT ![c] = d] \in [SndCells -> Int]
              BY <1>3
            <7> QED  BY <1>3, <2>4, <7>1
          <6>2. l.data1[c] = Wrap(x) /\ d = Second(x, f[x])
            <7>1. mx # x
              BY <1>1, <1>2, <2>8, <4>3
            <7> QED  BY <1>1, <4>4, <4>7, <7>1 DEF Stored, Second, c
          <6>3. Agree(D \ {x}, f, e)
            BY <1>2, <4>4 DEF Agree
          <6>4. x \in WindowFrom(a)
            BY <1>1, <1>2
          <6>5. Stored(SndSize, z, D \cup {x}, f, l.data1, mid)
            <7>1. /\ Size(SndSize) /\ z \in Int /\ Ranges(a, D, e)
                  /\ Stored(SndSize, z, D, e, l.data1, l.data2)
              BY <1>1, <1>3
            <7>2. PutIn(SndSize, z, x, f[x], l.data1, l.data2, l.data1, mid)
              BY <1>3, <6>1, <6>2 DEF PutIn, ElsewhereSame, c
            <7> QED  BY ONLY <6>3, <6>4, <7>1, <7>2, StoredPut
          <6>6. Stored(SndSize, z, D, f, l.data1, mid)
            <7>1. D \cup {x} = D
              BY <1>1
            <7> QED  BY <6>5, <7>1
          <6>7. b.data1 \in [SndCells -> Int] /\ b.data2 \in [SndCells -> Int]
            BY <4>8, SndFields
          <6>8. \A k \in SndCells : k # i => b.data1[k] = l.data1[k] /\ b.data2[k] = mid[k]
            BY <2>4, <4>8, <6>1
          <6>9. TakenOut(SndSize, z, v, l.data1, mid, b.data1, b.data2)
            BY <1>3, <2>3, <4>8, <6>7, <6>8 DEF TakenOut, ElsewhereSame
          <6>10. Size(SndSize) /\ z \in Int /\ v \in D /\ Ranges(a, D, f)
            BY <1>1, <1>3, <4>5
          <6> QED  BY ONLY <6>6, <6>9, <6>10, StoredWithout
        <5>2. Linked(SndSize, z, D \ {v}, b.next)
          <6>1. PriorIn(D, x, v)
            BY <1>1, <1>2, <2>2 DEF PriorIn
          <6>2. b.next \in [SndCells -> SndCells \cup {Nil}]
            BY <1>3, <4>8, SndFields
          <6>3. /\ a \in Int /\ Size(SndSize) /\ z \in Int /\ D \in SUBSET WindowFrom(a)
                /\ Linked(SndSize, z, D, l.next) /\ v \in D
            BY <1>1, <1>2, <1>3
          <6>4. /\ LinksSame(SndSize, {Place(SndSize, z, v), Place(SndSize, z, x)}, l.next, b.next)
                /\ b.next[Place(SndSize, z, x)] = l.next[Place(SndSize, z, v)]
            BY <1>3, <2>3, <4>8, <6>2 DEF LinksSame, c
          <6> QED  BY ONLY <6>1, <6>3, <6>4, UnlinkedAfter
        <5>3. x \in D \ {v}
          BY <1>1, <2>2
        <5>4. SndHeld(b, a, z, D \ {v}, f)
          BY <1>1, <4>5, <4>8, <5>1, <5>2, <5>3 DEF SndHeld, c
        <5>5. ApartBut(D \ {v}, f, x)
          BY <1>1, <1>2, <4>4 DEF ApartBut
        <5>6. b.length = (f[x] - x + 1) + Cardinality(Numbers((D \ {v}) \ {x}, f))
          <6>1. PICK C \in Nat : C = Cardinality(Numbers((D \ {v}) \ {x}, f))
            <7>1. Ranges(a, (D \ {v}) \ {x}, f)
              BY <4>5 DEF Ranges
            <7>2. Numbers((D \ {v}) \ {x}, f) \in SUBSET WindowFrom(a)
              BY <7>1, NumbersInWindow
            <7> QED  BY <1>2, <7>2, WindowFinite
          <6>2. l.length = (e[x] - x + 1) + (C + (e[v] - v + 1))
            BY <1>1, <4>5, <6>1
          <6>3. x \in Int /\ v \in Int /\ e[x] \in Int /\ e[v] \in Int
            BY <1>1, <1>2
          <6>4. l.length - ov = (mx - x + 1) + C
            <7>1. PICK ex \in Int : ex = e[x]
              BY <6>3
            <7>2. PICK ev \in Int : ev = e[v]
              BY <6>3
            <7>3. mx = (IF ev > ex THEN ev ELSE ex) /\ v <= ex + 1
              BY <3>4, <4>3, <7>1, <7>2
            <7>4. ov = IF ex < v THEN 0 ELSE (IF ev > ex THEN ex ELSE ev) - v + 1
              BY <4>6, <7>1, <7>2
            <7>5. l.length = (ex - x + 1) + (C + (ev - v + 1))
              BY <6>2, <7>1, <7>2
            <7>6. v <= ev
              BY <1>2, <7>2
            <7> QED  BY ONLY <6>3, <7>3, <7>4, <7>5, <7>6, C \in Nat, ex \in Int, ev \in Int
          <6> QED  BY <4>4, <4>8, <6>1, <6>4
        <5>7. HeadIs(SndSize, z, D \ {v}, b.head)
          <6>1. \A u \in D \ {v} : FirstIn(D \ {v}, u) => FirstIn(D, u)
            BY <1>2, <2>2, <5>3 DEF FirstIn
          <6> QED  BY <1>1, <4>8, <5>3, <6>1 DEF HeadIs
        <5> QED  BY <1>1, <4>5, <4>8, <5>3, <5>4, <5>5, <5>6, <5>7 DEF Merging, c
      <4> QED  BY <2>2, <4>2, <4>4, <4>9, <4>10 DEF c
    <3>5. v > e[x] + 1 \/ v <= e[x] + 1
      BY <1>1, <1>2
    <3> QED  BY <3>3, <3>4, <3>5
  <2> QED  BY <2>7, <2>8
<1> QED  BY <1>6, <1>7

\* The numbers without those of one range.
LEMMA NumbersWithout ==
  ASSUME NEW a, NEW D, NEW e, Ranges(a, D, e), Apart(D, e), NEW x \in D
  PROVE  /\ Ranges(a, D \ {x}, e) /\ Apart(D \ {x}, e)
         /\ Numbers(D \ {x}, e) = Numbers(D, e) \ (x .. e[x])
<1>1. /\ a \in Int /\ D \in SUBSET WindowFrom(a) /\ D \in SUBSET Int
      /\ \A u \in D : u <= e[u] /\ e[u] \in WindowFrom(a) /\ e[u] \in Int
      /\ \A u, w \in D : u < w => e[u] < w
  BY WindowFinite, Near DEF Ranges, Apart
<1>2. Ranges(a, D \ {x}, e) /\ Apart(D \ {x}, e)
  BY <1>1 DEF Ranges, Apart
<1>3. PICK S : S = Numbers(D \ {x}, e)
  OBVIOUS
<1>4. PICK T : T = Numbers(D, e)
  OBVIOUS
<1>5. \A n : n \in S <=> \E u \in D : u # x /\ n \in u .. e[u]
  BY <1>3 DEF Numbers
<1>6. T = S \cup (x .. e[x])
  <2>1. \A n : n \in T <=> \E u \in D : n \in u .. e[u]
    BY <1>4 DEF Numbers
  <2> QED  BY <1>5, <2>1
<1>7. S \cap (x .. e[x]) = {}
  <2> SUFFICES ASSUME NEW n \in S, n \in x .. e[x] PROVE FALSE
    OBVIOUS
  <2>1. PICK u \in D : u # x /\ n \in u .. e[u]
    BY <1>5
  <2>2. (u < x => e[u] < x) /\ (x < u => e[x] < u)
    BY <1>1
  <2> QED  BY <1>1, <2>1, <2>2
<1>8. S = T \ (x .. e[x])
  BY <1>6, <1>7
<1> QED  BY <1>2, <1>3, <1>4, <1>8

\* How many the others are.
LEMMA CountWithout ==
  ASSUME NEW a, NEW D, NEW e, Ranges(a, D, e), Apart(D, e), NEW x \in D
  PROVE  Cardinality(Numbers(D, e)) = Cardinality(Numbers(D \ {x}, e)) + (e[x] - x + 1)
<1>1. a \in Int /\ x \in WindowFrom(a) /\ x <= e[x] /\ e[x] \in WindowFrom(a)
  BY DEF Ranges
<1>2. PICK S : S = Numbers(D \ {x}, e)
  OBVIOUS
<1>3. PICK T : T = Numbers(D, e)
  OBVIOUS
<1>4. S = T \ (x .. e[x]) /\ Ranges(a, D \ {x}, e)
  <2>1. Numbers(D \ {x}, e) = Numbers(D, e) \ (x .. e[x])
    BY NumbersWithout
  <2>2. Ranges(a, D \ {x}, e)
    BY DEF Ranges
  <2> QED  BY <1>2, <1>3, <2>1, <2>2
<1>5. x .. e[x] \in SUBSET T
  BY <1>3 DEF Numbers
<1>6. S \in SUBSET WindowFrom(a)
  BY <1>2, <1>4, NumbersInWindow
<1>7. PICK h \in WindowFrom(a) : h = e[x]
  BY <1>1
<1>8. Cardinality(T) = Cardinality(S) + (h - x + 1)
  <2>1. /\ x \in WindowFrom(a) /\ h \in WindowFrom(a) /\ x <= h + 1 /\ a \in Int
        /\ S \cap (x .. h) = {} /\ T = S \cup (x .. h)
    <3>1. x \in Int /\ h \in Int
      BY <1>1, Near
    <3> QED  BY <1>1, <1>4, <1>5, <1>7, <3>1
  <2> QED  BY ONLY <1>6, <2>1, CountAdded
<1> QED  BY <1>2, <1>3, <1>7, <1>8

\* When it has ended, the list holds the same numbers in ranges apart.
LEMMA CoalescedHolds ==
  ASSUME NEW l, NEW a, NEW z, NEW D, NEW e, NEW x, NEW N, Merging(l, a, z, D, e, x, N)
  PROVE  \E S : \E f : /\ SndHolds(Coalesced(l, Place(SndSize, z, x)), a, z, S, f)
                       /\ Numbers(S, f) = N
<1> DEFINE c == Place(SndSize, z, x)
           pass == Swallow(c)
           Merges(b, k) == \E S \in SUBSET Int : \E f \in [Int -> Int] :
                               Merging(b, a, z, S, f, x, N) /\ k = Cardinality(S)
           R == [b \in SndLists |-> {k \in Nat : Merges(b, k)}]
<1>1. ASSUME NEW b, NEW S, NEW f, Merging(b, a, z, S, f, x, N)
      PROVE  /\ b \in SndLists /\ a \in Int /\ S \in SUBSET WindowFrom(a)
             /\ S \in SUBSET Int /\ f \in [Int -> Int] /\ IsFiniteSet(S)
             /\ Cardinality(S) \in Nat /\ Cardinality(S) <= Window
  BY <1>1, WindowFinite DEF Merging, SndHeld, Ranges
<1>2. R \in [SndLists -> SUBSET Nat]
  OBVIOUS
<1>3. ASSUME NEW b \in SndLists, NEW k \in R[b]
      PROVE  pass[b] = b \/ (pass[b] \in SndLists /\ \E j \in R[pass[b]] : j < k)
  <2>1. PICK S \in SUBSET Int, f \in [Int -> Int] :
               Merging(b, a, z, S, f, x, N) /\ k = Cardinality(S)
    OBVIOUS
  <2>2. CASE pass[b] # b
    <3>1. PICK v \in S, g \in [Int -> Int] :
               v # x /\ Merging(pass[b], a, z, S \ {v}, g, x, N)
      BY <2>1, <2>2, SwallowStep
    <3>2. PICK q : q = pass[b]
      OBVIOUS
    <3>3. PICK j : j = Cardinality(S \ {v})
      OBVIOUS
    <3>4. q \in SndLists /\ j \in Nat /\ S \ {v} \in SUBSET Int
      BY <1>1, <3>1, <3>2, <3>3
    <3>5. j < k
      <4>1. IsFiniteSet(S) /\ Cardinality(S) \in Nat
        BY <1>1, <2>1
      <4>2. j = Cardinality(S) - 1
        BY <3>1, <3>3, <4>1, FS_RemoveElement
      <4> QED  BY <2>1, <4>1, <4>2
    <3>6. Merges(q, j)
      BY <3>1, <3>2, <3>3, <3>4
    <3>7. j \in R[q]
      BY <3>4, <3>6
    <3> HIDE DEF R, pass
    <3> QED  BY <3>2, <3>4, <3>5, <3>7
  <2> QED  BY <2>2
<1>4. PICK m \in Nat : m \in R[l] /\ m <= SndSize /\ l \in SndLists
  <2>1. PICK m \in Nat : m = Cardinality(D)
    BY <1>1
  <2>2. m <= SndSize
    BY <1>1, <2>1, SndSizeAssumption, WindowAssumption
  <2>3. l \in SndLists /\ D \in SUBSET Int /\ e \in [Int -> Int]
    BY <1>1
  <2>4. Merges(l, m)
    BY <2>1, <2>3
  <2> HIDE DEF Merges
  <2> QED  BY <2>2, <2>3, <2>4
<1> DEFINE q == Repeat(pass, l, SndSize)
<1>5. pass[q] = q /\ q \in SndLists /\ R[q] # {}
  <2> HIDE DEF R, pass
  <2>1. SndSize \in Nat
    BY SndSizeAssumption
  <2> QED  BY <1>2, <1>3, <1>4, <2>1, RepeatEnds
<1> HIDE DEF q
<1>6. PICK S \in SUBSET Int, f \in [Int -> Int] : Merging(q, a, z, S, f, x, N)
  <2>1. \E k \in R[q] : TRUE
    <3> HIDE DEF R
    <3> QED  BY <1>5
  <2> QED  BY <1>5, <2>1
<1>7. Apart(S, f)
  BY <1>5, <1>6, SwallowStep
<1>8. SndHolds(q, a, z, S, f)
  <2>1. /\ SndHeld(q, a, z, S, f) /\ Ranges(a, S, f) /\ x \in S
        /\ HeadIs(SndSize, z, S, q.head)
        /\ q.length = (f[x] - x + 1) + Cardinality(Numbers(S \ {x}, f))
    BY <1>6 DEF Merging, SndHeld
  <2>2. Cardinality(Numbers(S, f)) = Cardinality(Numbers(S \ {x}, f)) + (f[x] - x + 1)
    BY <1>7, <2>1, CountWithout
  <2>3. Cardinality(Numbers(S \ {x}, f)) \in Nat
    <3>1. Ranges(a, S \ {x}, f) /\ a \in Int
      BY <2>1 DEF Ranges
    <3>2. Numbers(S \ {x}, f) \in SUBSET WindowFrom(a)
      BY <3>1, NumbersInWindow
    <3> QED  BY <3>1, <3>2, WindowFinite
  <2>4. x \in Int /\ f[x] \in Int
    BY <1>6, <2>1
  <2>5. q.length = Cardinality(Numbers(S, f))
    BY <2>1, <2>2, <2>3, <2>4
  <2> QED  BY <1>7, <2>1, <2>5 DEF SndHolds
<1>9. Numbers(S, f) = N
  BY <1>6 DEF Merging
<1>10. Coalesced(l, c) = q
  BY DEF Coalesced, q
<1> QED  BY <1>8, <1>9, <1>10

\* Ranges that the loop would leave as they are.
LEMMA MergedHolds ==
  ASSUME NEW l, NEW a, NEW z, NEW D, NEW e, NEW x, NEW N,
         Merging(l, a, z, D, e, x, N), Apart(D, e)
  PROVE  SndHolds(l, a, z, D, e) /\ Numbers(D, e) = N
<1>1. /\ SndHeld(l, a, z, D, e) /\ Ranges(a, D, e) /\ x \in D
      /\ HeadIs(SndSize, z, D, l.head) /\ Numbers(D, e) = N
      /\ l.length = (e[x] - x + 1) + Cardinality(Numbers(D \ {x}, e))
  BY DEF Merging, SndHeld
<1>2. Cardinality(Numbers(D, e)) = Cardinality(Numbers(D \ {x}, e)) + (e[x] - x + 1)
  BY <1>1, CountWithout
<1>3. Cardinality(Numbers(D \ {x}, e)) \in Nat
  <2>1. Ranges(a, D \ {x}, e) /\ a \in Int
    BY <1>1 DEF Ranges
  <2>2. Numbers(D \ {x}, e) \in SUBSET WindowFrom(a)
    BY <2>1, NumbersInWindow
  <2> QED  BY <2>1, <2>2, WindowFinite
<1>4. x \in Int /\ e[x] \in Int
  BY <1>1, WindowFinite DEF Ranges
<1>5. l.length = Cardinality(Numbers(D, e))
  BY <1>1, <1>2, <1>3, <1>4
<1> QED  BY <1>1, <1>5 DEF SndHolds

\* A list counts nothing when it holds no range.
LEMMA NoNumbers ==
  ASSUME NEW a, NEW D, NEW e, Ranges(a, D, e)
  PROVE  /\ Cardinality(Numbers(D, e)) \in Nat
         /\ Cardinality(Numbers(D, e)) = 0 <=> D = {}
         /\ Numbers(D, e) = {} <=> D = {}
<1>1. PICK N : N = Numbers(D, e)
  OBVIOUS
<1>2. a \in Int /\ N \in SUBSET WindowFrom(a) /\ D \in SUBSET N
  BY <1>1, NumbersInWindow DEF Ranges
<1>3. IsFiniteSet(N) /\ Cardinality(N) \in Nat
  BY <1>2, WindowFinite
<1>4. D = {} => N = {}
  BY <1>1 DEF Numbers
<1>5. Cardinality(N) = 0 <=> N = {}
  BY <1>3, FS_EmptySet
<1> QED  BY <1>1, <1>2, <1>3, <1>4, <1>5

\* The ends when range x is given the end h.
Ending(e, x, h) == [e EXCEPT ![x] = h]

\* What such an end changes.
LEMMA EndingIs ==
  ASSUME NEW e \in [Int -> Int], NEW x \in Int, NEW h \in Int
  PROVE  /\ Ending(e, x, h) \in [Int -> Int] /\ Ending(e, x, h)[x] = h
         /\ \A u \in Int : u # x => Ending(e, x, h)[u] = e[u]
BY DEF Ending

\* The numbers with a range of any cell made to end at h, or a new one.
LEMMA NumbersEnding ==
  ASSUME NEW a, NEW D, NEW e, Ranges(a, D, e), NEW x \in WindowFrom(a), NEW h \in WindowFrom(a),
         x <= h, x \in D => e[x] <= h
  PROVE  /\ Ranges(a, D \cup {x}, Ending(e, x, h))
         /\ Numbers(D \cup {x}, Ending(e, x, h)) = Numbers(D, e) \cup (x .. h)
         /\ Numbers(D \ {x}, Ending(e, x, h)) = Numbers(D \ {x}, e)
         /\ Agree(D \ {x}, Ending(e, x, h), e)
<1>1. /\ a \in Int /\ D \in SUBSET WindowFrom(a) /\ D \in SUBSET Int /\ e \in [Int -> Int]
      /\ \A u \in D : u <= e[u] /\ e[u] \in WindowFrom(a) /\ e[u] \in Int
      /\ x \in Int /\ h \in Int
  BY WindowFinite, Near DEF Ranges
<1>2. PICK f : f = Ending(e, x, h)
  OBVIOUS
<1>3. f \in [Int -> Int] /\ f[x] = h /\ \A u \in Int : u # x => f[u] = e[u]
  BY <1>1, <1>2, EndingIs
<1>4. Ranges(a, D \cup {x}, f)
  <2>1. \A u \in D \cup {x} : u <= f[u] /\ f[u] \in WindowFrom(a)
    <3> TAKE u \in D \cup {x}
    <3>1. CASE u = x
      BY <1>3, <3>1
    <3>2. CASE u # x
      BY <1>1, <1>3, <3>2
    <3> QED  BY <3>1, <3>2
  <2> QED  BY <1>1, <1>3, <2>1 DEF Ranges
<1>5. \A n : n \in Numbers(D \cup {x}, f) <=> n \in Numbers(D, e) \cup (x .. h)
  <2> TAKE n
  <2>1. n \in Numbers(D \cup {x}, f) <=> \E u \in D \cup {x} : n \in u .. f[u]
    BY DEF Numbers
  <2>2. n \in Numbers(D, e) <=> \E u \in D : n \in u .. e[u]
    BY DEF Numbers
  <2>3. ASSUME NEW u \in D \cup {x}, n \in u .. f[u]
        PROVE  n \in Numbers(D, e) \cup (x .. h)
    BY <1>1, <1>3, <2>2, <2>3
  <2>4. ASSUME NEW u \in D, n \in u .. e[u]
        PROVE  \E w \in D \cup {x} : n \in w .. f[w]
    <3>1. CASE u = x
      <4>1. n \in x .. f[x]
        BY <1>1, <1>3, <2>4, <3>1
      <4> QED  BY <4>1
    <3>2. CASE u # x
      BY <1>1, <1>3, <2>4, <3>2
    <3> QED  BY <3>1, <3>2
  <2>5. ASSUME n \in x .. h
        PROVE  \E w \in D \cup {x} : n \in w .. f[w]
    BY <1>3, <2>5
  <2> QED  BY <2>1, <2>2, <2>3, <2>4, <2>5
<1>6. Numbers(D \cup {x}, f) = Numbers(D, e) \cup (x .. h)
  <2>1. PICK S : S = Numbers(D \cup {x}, f)
    OBVIOUS
  <2>2. PICK T : T = Numbers(D, e) \cup (x .. h)
    OBVIOUS
  <2>3. \A n : n \in S <=> n \in T
    BY <1>5, <2>1, <2>2
  <2> QED  BY <2>1, <2>2, <2>3
<1>7. Numbers(D \ {x}, f) = Numbers(D \ {x}, e)
  BY <1>1, <1>3 DEF Numbers
<1>8. Agree(D \ {x}, f, e)
  BY <1>1, <1>3 DEF Agree
<1> QED  BY <1>2, <1>4, <1>6, <1>7, <1>8

\* A new range in its cell, to be merged with those it reaches.
LEMMA NewMerging ==
  ASSUME NEW l, NEW a, NEW z, NEW D, NEW e, SndHolds(l, a, z, D, e),
         NEW x \in WindowFrom(a), NEW h \in WindowFrom(a), x <= h, x \notin D,
         \A w \in D : w < x => e[w] < x,
         NEW b \in SndLists, PutIn(SndSize, z, x, h, l.data1, l.data2, b.data1, b.data2),
         Linked(SndSize, z, D \cup {x}, b.next), HeadIs(SndSize, z, D \cup {x}, b.head),
         b.length = l.length + (h - x + 1), b.last = Place(SndSize, z, x)
  PROVE  Merging(b, a, z, D \cup {x}, Ending(e, x, h), x, Numbers(D, e) \cup (x .. h))
<1>1. /\ Ranges(a, D, e) /\ Apart(D, e) /\ z \in Int
      /\ Stored(SndSize, z, D, e, l.data1, l.data2)
      /\ l.length = Cardinality(Numbers(D, e))
  BY DEF SndHolds, SndHeld
<1>2. /\ a \in Int /\ e \in [Int -> Int] /\ D \in SUBSET Int /\ x \in Int /\ h \in Int
  BY <1>1, WindowFinite, Near DEF Ranges
<1>3. PICK f : f = Ending(e, x, h)
  OBVIOUS
<1>4. f \in [Int -> Int] /\ f[x] = h /\ \A u \in Int : u # x => f[u] = e[u]
  BY <1>2, <1>3, EndingIs
<1>5. /\ Ranges(a, D \cup {x}, f) /\ Numbers(D \cup {x}, f) = Numbers(D, e) \cup (x .. h)
      /\ Numbers(D \ {x}, f) = Numbers(D \ {x}, e)
      /\ Agree(D \ {x}, f, e)
  <2>1. /\ Ranges(a, D, e) /\ x \in WindowFrom(a) /\ h \in WindowFrom(a) /\ x <= h
        /\ x \in D => e[x] <= h
    BY <1>1
  <2>2. /\ Ranges(a, D \cup {x}, Ending(e, x, h))
        /\ Numbers(D \cup {x}, Ending(e, x, h)) = Numbers(D, e) \cup (x .. h)
        /\ Numbers(D \ {x}, Ending(e, x, h)) = Numbers(D \ {x}, e)
        /\ Agree(D \ {x}, Ending(e, x, h), e)
    BY ONLY <2>1, NumbersEnding
  <2> QED  BY <1>3, <2>2
<1>6. Size(SndSize)
  BY SndFields
<1>7. Stored(SndSize, z, D \cup {x}, f, b.data1, b.data2)
  BY <1>1, <1>4, <1>5, <1>6, StoredPut
<1>8. SndHeld(b, a, z, D \cup {x}, f)
  BY <1>1, <1>5, <1>7 DEF SndHeld
<1>9. ApartBut(D \cup {x}, f, x)
  BY <1>1, <1>2, <1>4 DEF ApartBut, Apart
<1>10. b.length = (f[x] - x + 1) + Cardinality(Numbers((D \cup {x}) \ {x}, f))
  <2>1. (D \cup {x}) \ {x} = D /\ D \ {x} = D
    OBVIOUS
  <2>3. Numbers((D \cup {x}) \ {x}, f) = Numbers(D, e)
    BY <1>5, <2>1
  <2>4. PICK C \in Nat : C = Cardinality(Numbers(D, e))
    BY <1>1, NoNumbers
  <2> QED  BY <1>1, <1>2, <1>4, <2>3, <2>4
<1> QED  BY <1>3, <1>5, <1>8, <1>9, <1>10 DEF Merging

\* What a new range in cell c does to the fields.
LEMMA AddedFields ==
  ASSUME NEW l \in SndLists, NEW c \in SndCells, NEW lo \in Int, NEW hi \in Int,
         Seqlen(lo, hi) \in Int
  PROVE  LET b == AddedRange(l, c, lo, hi) IN
         /\ b \in SndLists
         /\ b.data1[c] = lo /\ \A k \in SndCells : k # c => b.data1[k] = l.data1[k]
         /\ b.data2[c] = IF hi = lo THEN l.data2[c] ELSE hi
         /\ \A k \in SndCells : k # c => b.data2[k] = l.data2[k]
         /\ b.next = l.next /\ b.head = l.head
         /\ b.length = l.length + Seqlen(lo, hi) /\ b.last = c
<1>1. PICK b : b = AddedRange(l, c, lo, hi)
  OBVIOUS
<1>2. PICK n \in Int : n = Seqlen(lo, hi)
  OBVIOUS
<1>3. PICK d \in Int : d = IF hi = lo THEN l.data2[c] ELSE hi
  BY DEF SndLists
<1>4. b = [[l EXCEPT !.data1[c] = lo, !.data2[c] = d] EXCEPT !.length = @ + n, !.last = c]
  BY <1>1, <1>2, <1>3 DEF AddedRange, WithRange
<1>5. c \in SndLinks /\ l.length \in Int
  BY DEF SndLists, SndLinks
<1>6. /\ b.data1 = [l.data1 EXCEPT ![c] = lo]
      /\ b.data2 = [l.data2 EXCEPT ![c] = d]
      /\ b.next = l.next /\ b.head = l.head
      /\ b.length = l.length + n /\ b.last = c
  BY <1>4 DEF SndLists
<1>7. b \in SndLists
  <2>1. /\ [l.data1 EXCEPT ![c] = lo] \in [SndCells -> Int]
        /\ [l.data2 EXCEPT ![c] = d] \in [SndCells -> Int]
        /\ l.next \in [SndCells -> SndLinks] /\ l.head \in SndLinks
        /\ l.length + n \in Int
    BY <1>5 DEF SndLists
  <2>2. b = [data1 |-> b.data1, data2 |-> b.data2, next |-> b.next, head |-> b.head,
             length |-> b.length, last |-> b.last]
    BY <1>4 DEF SndLists
  <2> QED  BY <1>5, <1>6, <2>1, <2>2 DEF SndLists
<1> QED  BY <1>1, <1>2, <1>3, <1>5, <1>6, <1>7 DEF SndLists

\* A range made to end at h, or later where it does.
LEMMA ExtendedHolds ==
  ASSUME NEW l, NEW a, NEW z, NEW D, NEW e, SndHolds(l, a, z, D, e), NEW x \in D,
         l.last = Place(SndSize, z, x), NEW h \in WindowFrom(a), x <= h
  PROVE  \E S : \E f : /\ SndHolds(Extended(l, Place(SndSize, z, x), Wrap(h)), a, z, S, f)
                       /\ Numbers(S, f) = Numbers(D, e) \cup (x .. h)
<1> DEFINE c == Place(SndSize, z, x)
<1>1. /\ l \in SndLists /\ z \in Int /\ Ranges(a, D, e) /\ Apart(D, e)
      /\ Stored(SndSize, z, D, e, l.data1, l.data2) /\ Linked(SndSize, z, D, l.next)
      /\ HeadIs(SndSize, z, D, l.head) /\ l.length = Cardinality(Numbers(D, e))
  BY DEF SndHolds, SndHeld
<1>2. /\ a \in Int /\ D \in SUBSET WindowFrom(a) /\ D \in SUBSET Int /\ e \in [Int -> Int]
      /\ x <= e[x] /\ e[x] \in WindowFrom(a) /\ x \in Int /\ e[x] \in Int /\ h \in Int
  BY <1>1, WindowFinite, Near DEF Ranges
<1>3. Size(SndSize) /\ SndCells = 0 .. (SndSize - 1)
  BY <1>1, SndFields
<1>4. c \in SndCells
  BY <1>1, <1>2, <1>3, PlaceNear
<1>5. PICK E : E = End(l, c) /\ E = Wrap(e[x]) /\ l.data1[c] = Wrap(x)
  BY <1>1, <1>3, EndIs
<1>6. Seqcmp(E, Wrap(h)) >= 0 <=> e[x] >= h
  BY <1>2, <1>5, WrapNear
<1>7. CASE e[x] >= h
  <2>1. Extended(l, c, Wrap(h)) = l
    BY <1>5, <1>6, <1>7 DEF Extended
  <2>2. Numbers(D, e) = Numbers(D, e) \cup (x .. h)
    <3>1. x .. h \in SUBSET (x .. e[x])
      BY <1>2, <1>7
    <3> QED  BY <3>1 DEF Numbers
  <2> QED  BY <2>1, <2>2
<1>8. CASE e[x] < h
  <2>1. PICK n \in Int : n = Seqlen(E, Wrap(h)) /\ n = h - e[x] + 1
    <3>1. Seqlen(Wrap(e[x]), Wrap(h)) = h - e[x] + 1
      BY <1>2, <1>8, WrapNear
    <3> QED  BY <1>2, <1>5, <3>1
  <2>2. PICK d \in Int : d = Wrap(h)
    BY <1>2, WrapNear
  <2>3. PICK b : b = [l EXCEPT !.length = @ + n - 1, !.data2[c] = d]
    OBVIOUS
  <2>4. Extended(l, c, Wrap(h)) = Coalesced(b, c)
    <3>1. ~(Seqcmp(E, Wrap(h)) >= 0)
      BY <1>2, <1>6, <1>8
    <3>2. Extended(l, c, Wrap(h)) =
            Coalesced([l EXCEPT !.length = @ + Seqlen(E, Wrap(h)) - 1, !.data2[c] = Wrap(h)], c)
      BY <1>5, <3>1 DEF Extended
    <3> QED  BY <2>1, <2>2, <2>3, <3>2
  <2>5. /\ b \in SndLists /\ b.data1 = l.data1
        /\ b.data2 = [l.data2 EXCEPT ![c] = d]
        /\ b.next = l.next /\ b.head = l.head
        /\ b.length = l.length + n - 1 /\ b.last = l.last
    <3>1. /\ b.data1 = l.data1 /\ b.data2 = [l.data2 EXCEPT ![c] = d]
          /\ b.next = l.next /\ b.head = l.head
          /\ b.length = l.length + n - 1 /\ b.last = l.last
      BY <1>1, <2>3 DEF SndLists
    <3>2. /\ [l.data2 EXCEPT ![c] = d] \in [SndCells -> Int] /\ l.length + n - 1 \in Int
          /\ l.data1 \in [SndCells -> Int] /\ l.next \in [SndCells -> SndLinks]
          /\ l.head \in SndLinks /\ l.last \in SndLinks
      <4>1. /\ l.data2 \in [SndCells -> Int] /\ l.length \in Int
            /\ l.data1 \in [SndCells -> Int] /\ l.next \in [SndCells -> SndLinks]
            /\ l.head \in SndLinks /\ l.last \in SndLinks
        BY <1>1 DEF SndLists
      <4>2. [l.data2 EXCEPT ![c] = d] \in [SndCells -> Int]
        BY <4>1
      <4>3. l.length + n - 1 \in Int
        BY <4>1
      <4> QED  BY <4>1, <4>2, <4>3
    <3>3. b = [data1 |-> b.data1, data2 |-> b.data2, next |-> b.next, head |-> b.head,
               length |-> b.length, last |-> b.last]
      BY <1>1, <2>3 DEF SndLists
    <3> QED  BY <3>1, <3>2, <3>3 DEF SndLists
  <2>6. PICK f : f = Ending(e, x, h)
    OBVIOUS
  <2>7. f \in [Int -> Int] /\ f[x] = h /\ \A u \in Int : u # x => f[u] = e[u]
    BY <1>2, <2>6, EndingIs
  <2>8. /\ Ranges(a, D, f) /\ Numbers(D, f) = Numbers(D, e) \cup (x .. h)
        /\ Numbers(D \ {x}, f) = Numbers(D \ {x}, e) /\ Agree(D \ {x}, f, e)
    <3>1. D \cup {x} = D /\ x \in WindowFrom(a) /\ e[x] <= h
      BY <1>2, <1>8
    <3>2. /\ Ranges(a, D \cup {x}, f) /\ Numbers(D \cup {x}, f) = Numbers(D, e) \cup (x .. h)
          /\ Numbers(D \ {x}, f) = Numbers(D \ {x}, e) /\ Agree(D \ {x}, f, e)
      BY <1>1, <2>6, <3>1, NumbersEnding
    <3> QED  BY <3>1, <3>2
  <2>9. Stored(SndSize, z, D, f, b.data1, b.data2)
    <3>1. d = Second(x, f[x])
      BY <1>2, <1>8, <2>2, <2>7 DEF Second
    <3>2. b.data1 \in [SndCells -> Int] /\ b.data2 \in [SndCells -> Int]
          /\ l.data2 \in [SndCells -> Int]
      BY <1>1, <2>5 DEF SndLists
    <3>3. PutIn(SndSize, z, x, f[x], l.data1, l.data2, b.data1, b.data2)
      BY <1>3, <1>4, <1>5, <2>5, <3>1, <3>2 DEF PutIn, ElsewhereSame
    <3>4. x \in WindowFrom(a) /\ D \cup {x} = D
      BY <1>2
    <3>5. Stored(SndSize, z, D \cup {x}, f, b.data1, b.data2)
      BY ONLY <1>1, <1>3, <2>8, <3>3, <3>4, StoredPut
    <3> QED  BY <3>4, <3>5
  <2>10. SndHeld(b, a, z, D, f)
    BY <1>1, <2>5, <2>8, <2>9 DEF SndHeld
  <2>11. ApartBut(D, f, x)
    BY <1>1, <1>2, <2>7 DEF ApartBut, Apart
  <2>12. b.length = (f[x] - x + 1) + Cardinality(Numbers(D \ {x}, f))
    <3>1. PICK C \in Nat : C = Cardinality(Numbers(D \ {x}, e))
      <4>1. Ranges(a, D \ {x}, e)
        BY <1>1, NumbersWithout
      <4> QED  BY <4>1, NoNumbers
    <3>2. l.length = C + (e[x] - x + 1)
      <4>1. Cardinality(Numbers(D, e)) = Cardinality(Numbers(D \ {x}, e)) + (e[x] - x + 1)
        <5>1. Ranges(a, D, e) /\ Apart(D, e) /\ x \in D
          BY <1>1
        <5> QED  BY ONLY <5>1, CountWithout
      <4> QED  BY <1>1, <3>1, <4>1
    <3> QED  BY <1>2, <2>1, <2>5, <2>7, <2>8, <3>1, <3>2
  <2>13. Merging(b, a, z, D, f, x, Numbers(D, e) \cup (x .. h))
    BY <1>1, <2>5, <2>8, <2>10, <2>11, <2>12 DEF Merging
  <2>14. PICK N : N = Numbers(D, e) \cup (x .. h)
    OBVIOUS
  <2>15. Merging(b, a, z, D, f, x, N)
    BY <2>13, <2>14
  <2>16. \E S : \E g : SndHolds(Coalesced(b, c), a, z, S, g) /\ Numbers(S, g) = N
    BY <2>15, CoalescedHolds
  <2> QED  BY <2>4, <2>14, <2>16
<1> QED  BY <1>2, <1>7, <1>8

\* Where a number's cell is, seen from the head.
LEMMA SndCellIs ==
  ASSUME NEW l, NEW a, NEW z, NEW D, NEW e, SndHolds(l, a, z, D, e), NEW g, FirstIn(D, g),
         NEW x \in WindowFrom(a)
  PROVE  /\ l.head = Place(SndSize, z, g) /\ l.data1[l.head] = Wrap(g)
         /\ SndCell(l, Wrap(x)) = Place(SndSize, z, x)
         /\ Seqoff(l.data1[l.head], Wrap(x)) = x - g
         /\ l.data1[l.head] = Wrap(x) <=> x = g
<1>1. /\ l \in SndLists /\ z \in Int /\ Ranges(a, D, e) /\ a \in Int
      /\ Stored(SndSize, z, D, e, l.data1, l.data2) /\ HeadIs(SndSize, z, D, l.head)
  BY DEF SndHolds, SndHeld, Ranges
<1>2. Size(SndSize)
  BY <1>1, SndFields
<1>3. g \in D /\ g \in WindowFrom(a)
  BY <1>1 DEF FirstIn, Ranges
<1>4. l.head = Place(SndSize, z, g) /\ l.data1[l.head] = Wrap(g)
  BY <1>1, <1>3 DEF HeadIs, Stored
<1>5. Seqoff(Wrap(g), Wrap(x)) = x - g /\ (Wrap(g) = Wrap(x) <=> x = g)
  BY <1>1, <1>3, WrapNear
<1>6. (Place(SndSize, z, g) + (x - g) + SndSize) % SndSize = Place(SndSize, z, x)
  BY <1>1, <1>2, <1>3, PlaceNear
<1> QED  BY <1>4, <1>5, <1>6 DEF SndCell

\* insert adds the numbers of the stretch.
LEMMA SndInsertHolds ==
  ASSUME NEW l, NEW a, NEW z, NEW D, NEW e, SndHolds(l, a, z, D, e),
         NEW x \in WindowFrom(a), NEW h \in WindowFrom(a), x <= h
  PROVE  \E y \in Int : \E S : \E f :
            /\ SndHolds(SndInsert(l, Wrap(x), Wrap(h)), a, y, S, f)
            /\ Numbers(S, f) = Numbers(D, e) \cup (x .. h)
<1> DEFINE P(w) == Place(SndSize, z, w)
<1>1. /\ l \in SndLists /\ z \in Int /\ Ranges(a, D, e) /\ Apart(D, e) /\ SndHeld(l, a, z, D, e)
      /\ Stored(SndSize, z, D, e, l.data1, l.data2) /\ Linked(SndSize, z, D, l.next)
      /\ HeadIs(SndSize, z, D, l.head) /\ l.length = Cardinality(Numbers(D, e))
      /\ l.last = Nil \/ \E w \in D : l.last = P(w)
  BY DEF SndHolds, SndHeld
<1>2. /\ a \in Int /\ D \in SUBSET WindowFrom(a) /\ D \in SUBSET Int /\ e \in [Int -> Int]
      /\ \A w \in D : w <= e[w] /\ e[w] \in WindowFrom(a) /\ e[w] \in Int
      /\ x \in Int /\ h \in Int
  BY <1>1, WindowFinite, Near DEF Ranges
<1>3. /\ Size(SndSize) /\ SndCells = 0 .. (SndSize - 1) /\ 0 \in SndCells /\ SndSize \in Nat \ {0}
      /\ l.data1 \in [SndCells -> Int] /\ l.data2 \in [SndCells -> Int]
      /\ l.next \in [SndCells -> SndCells \cup {Nil}] /\ l.length \in Int
  BY <1>1, SndFields
<1>4. PICK lo \in Int, hi \in Int :
           /\ lo = Wrap(x) /\ hi = Wrap(h) /\ (hi = lo <=> h = x)
           /\ Seqlen(lo, hi) = h - x + 1 /\ Seqlen(lo, hi) \in Int
  <2>1. Wrap(x) \in Int /\ (Wrap(h) = Wrap(x) <=> h = x) /\ Seqlen(Wrap(x), Wrap(h)) = h - x + 1
    BY <1>2, WrapNear
  <2>2. Wrap(h) \in Int /\ h - x + 1 \in Int
    BY <1>2, WrapNear
  <2> QED  BY <2>1, <2>2
\* The fields with a new range in a free cell.
<1>5. ASSUME NEW y \in Int, NEW c \in SndCells, c = Place(SndSize, y, x), x \notin D,
             Stored(SndSize, y, D, e, l.data1, l.data2)
      PROVE  \E b \in SndLists :
                /\ b = AddedRange(l, c, lo, hi)
                /\ PutIn(SndSize, y, x, h, l.data1, l.data2, b.data1, b.data2)
                /\ b.next = l.next /\ b.head = l.head /\ b.last = c
                /\ b.length = l.length + (h - x + 1)
  <2>1. PICK b : b = AddedRange(l, c, lo, hi)
    OBVIOUS
  <2>2. /\ b \in SndLists
        /\ b.data1[c] = lo /\ \A k \in SndCells : k # c => b.data1[k] = l.data1[k]
        /\ b.data2[c] = IF hi = lo THEN l.data2[c] ELSE hi
        /\ \A k \in SndCells : k # c => b.data2[k] = l.data2[k]
        /\ b.next = l.next /\ b.head = l.head
        /\ b.length = l.length + Seqlen(lo, hi) /\ b.last = c
    BY <1>1, <1>4, <2>1, AddedFields
  <2>3. l.data2[c] = Nil
    BY <1>1, <1>3, <1>5, Found
  <2>4. b.data2[c] = Second(x, h)
    BY <1>4, <2>2, <2>3 DEF Second
  <2>5. b.data1 \in [SndCells -> Int] /\ b.data2 \in [SndCells -> Int]
    BY <2>2 DEF SndLists
  <2>6. PutIn(SndSize, y, x, h, l.data1, l.data2, b.data1, b.data2)
    BY <1>3, <1>4, <1>5, <2>2, <2>4, <2>5 DEF PutIn, ElsewhereSame
  <2> QED  BY <1>4, <2>1, <2>2, <2>6
<1>6. CASE D = {}
  <2>1. l.length = 0
    BY <1>1, <1>6, NoNumbers
  <2>2. PICK y \in Int : Place(SndSize, y, x) = 0
    BY <1>2, <1>3, PlaceFirst
  <2>3. Stored(SndSize, y, D, e, l.data1, l.data2)
    <3>1. \A c \in SndCells : l.data1[c] = Nil /\ l.data2[c] = Nil
      BY <1>1, <1>3, <1>6 DEF Stored
    <3> QED  BY <1>3, <1>6, <3>1 DEF Stored
  <2>4. PICK b \in SndLists :
                /\ b = AddedRange(l, 0, lo, hi)
                /\ PutIn(SndSize, y, x, h, l.data1, l.data2, b.data1, b.data2)
                /\ b.next = l.next /\ b.head = l.head /\ b.last = 0
                /\ b.length = l.length + (h - x + 1)
    BY <1>3, <1>5, <1>6, <2>2, <2>3
  <2>5. PICK s : s = [b EXCEPT !.head = 0, !.next[0] = Nil]
    OBVIOUS
  <2>6. SndInsert(l, Wrap(x), Wrap(h)) = s
    BY <1>4, <2>1, <2>4, <2>5 DEF SndInsert
  <2>7. /\ s \in SndLists /\ s.data1 = b.data1 /\ s.data2 = b.data2
        /\ s.next = [b.next EXCEPT ![0] = Nil] /\ s.head = 0
        /\ s.length = b.length /\ s.last = b.last
    BY <1>3, <2>4, <2>5 DEF SndLists, SndLinks
  <2>8. Linked(SndSize, y, D \cup {x}, s.next)
    <3>1. s.next \in [SndCells -> SndCells \cup {Nil}] /\ s.next[0] = Nil
      BY <1>3, <2>4, <2>7
    <3>2. D \cup {x} = {x} /\ ~(x < x)
      BY <1>2, <1>6
    <3>3. \A v, w \in {x} : ~NextIn({x}, v, w)
      BY <1>2 DEF NextIn
    <3> QED  BY <1>3, <2>2, <3>1, <3>2, <3>3 DEF Linked
  <2>9. HeadIs(SndSize, y, D \cup {x}, s.head)
    BY <1>6, <2>2, <2>7 DEF HeadIs
  <2>10. SndHolds(l, a, y, D, e)
    <3>1. Linked(SndSize, y, D, l.next)
      BY <1>3, <1>6 DEF Linked
    <3> QED  BY <1>1, <1>6, <2>3, <3>1 DEF SndHolds, SndHeld, HeadIs
  <2>11. Merging(s, a, y, D \cup {x}, Ending(e, x, h), x, Numbers(D, e) \cup (x .. h))
    <3>1. /\ x \notin D /\ (\A w \in D : w < x => e[w] < x)
          /\ PutIn(SndSize, y, x, h, l.data1, l.data2, s.data1, s.data2)
          /\ s.length = l.length + (h - x + 1) /\ s.last = Place(SndSize, y, x)
      BY <1>6, <2>2, <2>4, <2>7
    <3> QED  BY <2>7, <2>8, <2>9, <2>10, <3>1, NewMerging
  <2>12. Apart(D \cup {x}, Ending(e, x, h))
    BY <1>2, <1>6 DEF Apart
  <2> QED  BY <2>6, <2>11, <2>12, MergedHolds
<1>7. CASE D # {}
  <2>1. l.length # 0
    BY <1>1, <1>7, NoNumbers
  <2>2. PICK g \in D : FirstIn(D, g)
    BY <1>2, <1>7, Neighbours
  <2>3. PICK c \in SndCells : c = P(x)
    BY <1>1, <1>2, <1>3, PlaceNear
  <2>4. /\ l.head = P(g) /\ l.data1[l.head] = Wrap(g) /\ SndCell(l, lo) = c
        /\ Seqoff(l.data1[l.head], lo) = x - g
    BY <1>4, <2>2, <2>3, SndCellIs
  <2>5. l.data1[c] = lo <=> x \in D
    <3>1. l.data1[Place(SndSize, z, x)] = Wrap(x) <=> x \in D
      BY <1>1, <1>3, Found
    <3> QED  BY <1>4, <2>3, <3>1
  <2>6. g \in Int /\ \A w \in D : g <= w
    BY <1>2, <2>2 DEF FirstIn
  <2>7. SndInsert(l, Wrap(x), Wrap(h)) =
            LET p == Prior(l, lo)
            IN  IF Seqoff(l.data1[l.head], lo) < 0
                THEN Coalesced([AddedRange(l, c, lo, hi) EXCEPT !.head = c,
                                                                !.next[c] = l.head], c)
                ELSE IF l.data1[c] = lo THEN Extended([l EXCEPT !.last = c], c, hi)
                ELSE IF Seqcmp(End(l, p), lo) < 0
                THEN Coalesced([AddedRange(l, c, lo, hi) EXCEPT !.next[c] = l.next[p],
                                                                !.next[p] = c], c)
                ELSE Extended([l EXCEPT !.last = p], p, hi)
    BY <1>4, <2>1, <2>4 DEF SndInsert
  \* Where a range is made longer.
  <2>8. ASSUME NEW w \in D, w <= h, NEW k, k = P(w)
        PROVE  \E S : \E f : /\ SndHolds(Extended([l EXCEPT !.last = k], k, hi), a, z, S, f)
                             /\ Numbers(S, f) = Numbers(D, e) \cup (w .. h)
    <3>1. k \in SndLinks
      <4>1. P(w) \in 0 .. (SndSize - 1)
        BY <1>1, <1>2, <1>3, PlaceNear
      <4> QED  BY <1>3, <2>8, <4>1 DEF SndLinks
    <3>2. PICK b : b = [l EXCEPT !.last = k]
      OBVIOUS
    <3>3. /\ b \in SndLists /\ b.data1 = l.data1 /\ b.data2 = l.data2 /\ b.next = l.next
          /\ b.head = l.head /\ b.length = l.length /\ b.last = k
      BY <1>1, <3>1, <3>2 DEF SndLists
    <3>4. SndHolds(b, a, z, D, e)
      BY <1>1, <2>8, <3>3 DEF SndHolds, SndHeld
    <3>5. b.last = Place(SndSize, z, w)
      BY <2>8, <3>3
    <3> HIDE DEF P
    <3>6. \E S : \E f : /\ SndHolds(Extended(b, Place(SndSize, z, w), Wrap(h)), a, z, S, f)
                        /\ Numbers(S, f) = Numbers(D, e) \cup (w .. h)
      BY ONLY <2>8, <3>4, <3>5, ExtendedHolds, h \in WindowFrom(a)
    <3> QED  BY <1>4, <3>2, <3>3, <3>5, <3>6
  \* Where a range is new.
  <2>9. ASSUME NEW s \in SndLists, NEW b \in SndLists, x \notin D,
               \A w \in D : w < x => e[w] < x,
               b = AddedRange(l, c, lo, hi),
               s.data1 = b.data1, s.data2 = b.data2, s.length = b.length, s.last = b.last,
               Linked(SndSize, z, D \cup {x}, s.next), HeadIs(SndSize, z, D \cup {x}, s.head)
        PROVE  \E S : \E f : /\ SndHolds(Coalesced(s, c), a, z, S, f)
                             /\ Numbers(S, f) = Numbers(D, e) \cup (x .. h)
    <3>1. /\ PutIn(SndSize, z, x, h, l.data1, l.data2, b.data1, b.data2)
          /\ b.last = c /\ b.length = l.length + (h - x + 1)
      BY <1>1, <1>5, <2>3, <2>9
    <3>2. /\ PutIn(SndSize, z, x, h, l.data1, l.data2, s.data1, s.data2)
          /\ s.length = l.length + (h - x + 1) /\ s.last = Place(SndSize, z, x)
      BY <2>3, <2>9, <3>1
    <3>3. Merging(s, a, z, D \cup {x}, Ending(e, x, h), x, Numbers(D, e) \cup (x .. h))
      BY <2>9, <3>2, NewMerging
    <3> QED  BY <2>3, <3>3, CoalescedHolds
  <2>10. CASE x < g
    <3>1. PICK b \in SndLists : b = AddedRange(l, c, lo, hi) /\ b.next = l.next
      <4>1. x \notin D
        BY <1>2, <2>6, <2>10
      <4> QED  BY <1>1, <1>5, <2>3, <4>1
    <3>2. PICK s : s = [b EXCEPT !.head = c, !.next[c] = l.head]
      OBVIOUS
    <3>3. l.head \in SndLinks /\ c \in SndLinks
      BY <1>1 DEF SndLists, SndLinks
    <3>4. /\ s \in SndLists /\ s.data1 = b.data1 /\ s.data2 = b.data2
          /\ s.next = [b.next EXCEPT ![c] = l.head] /\ s.head = c
          /\ s.length = b.length /\ s.last = b.last
      BY <3>1, <3>2, <3>3 DEF SndLists
    <3>5. SndInsert(l, Wrap(x), Wrap(h)) = Coalesced(s, c)
      BY <1>2, <2>4, <2>6, <2>7, <2>10, <3>1, <3>2
    <3>6. x \notin D /\ (\A w \in D : x < w) /\ \A w \in D : ~(w < x)
      BY <1>2, <2>6, <2>10
    <3>7. Linked(SndSize, z, D \cup {x}, s.next)
      <4>1. s.next[c] = l.head /\ s.next \in [SndCells -> SndCells \cup {Nil}]
            /\ \A k \in SndCells : k # c => s.next[k] = l.next[k]
        BY <1>3, <3>1, <3>3, <3>4 DEF SndLinks
      <4>2. LinksSame(SndSize, {P(x)}, l.next, s.next)
        BY <1>3, <2>3, <4>1 DEF LinksSame
      <4>3. HeadIs(SndSize, z, D, s.next[P(x)])
        BY <1>1, <2>3, <4>1
      <4> QED  BY <1>1, <1>2, <1>3, <3>6, <4>2, <4>3, LinkedFirst
    <3>8. HeadIs(SndSize, z, D \cup {x}, s.head)
      <4>1. \A w \in D \cup {x} : FirstIn(D \cup {x}, w) => w = x
        BY <1>2, <3>6 DEF FirstIn
      <4> QED  BY <2>3, <3>4, <4>1 DEF HeadIs
    <3> QED  BY <1>1, <2>9, <3>1, <3>4, <3>5, <3>6, <3>7, <3>8
  <2>11. CASE x >= g /\ x \in D
    <3>1. SndInsert(l, Wrap(x), Wrap(h)) = Extended([l EXCEPT !.last = c], c, hi)
      <4>1. ~(x - g < 0)
        BY <1>2, <2>6, <2>11
      <4> QED  BY <2>4, <2>5, <2>7, <2>11, <4>1
    <3> QED  BY <1>1, <2>3, <2>8, <2>11, <3>1
  <2>12. CASE x >= g /\ x \notin D
    <3>1. g < x
      BY <1>2, <2>6, <2>12
    <3>2. PICK q \in D : PriorIn(D, q, x) /\ Prior(l, lo) = P(q)
      <4>1. \A w \in D : l.data1[P(w)] = Wrap(w) /\ (Seqcmp(Wrap(w), lo) < 0 <=> w < x)
        BY <1>1, <1>2, <1>4, WrapNear DEF Stored
      <4>2. CASE \E w \in D : l.last = P(w) /\ w < x
        <5>1. PICK w \in D : l.last = P(w) /\ w < x
          BY <4>2
        <5>2. l.last # Nil
          BY <1>1, <1>2, <1>3, <5>1, PlaceNear
        <5>3. Prior(l, lo) = Forward(l, P(w), lo)
          BY <4>1, <5>1, <5>2 DEF Prior
        <5> QED  BY <1>1, <1>4, <5>1, <5>3, SndForward
      <4>3. CASE ~\E w \in D : l.last = P(w) /\ w < x
        <5>1. ~(l.last # Nil /\ Seqcmp(l.data1[l.last], lo) < 0)
          BY <1>1, <4>1, <4>3
        <5>2. Prior(l, lo) = Forward(l, P(g), lo)
          BY <2>4, <5>1 DEF Prior
        <5> QED  BY <1>1, <1>4, <3>1, <5>2, SndForward
      <4> QED  BY <4>2, <4>3
    <3>3. q \in D /\ q < x /\ \A w \in D : w < x => w <= q
      BY <3>2 DEF PriorIn
    <3>4. PICK p \in SndCells : p = P(q) /\ p # c
      <4>1. q \in WindowFrom(a) /\ q # x
        BY <1>2, <2>12, <3>3
      <4>2. Place(SndSize, z, q) \in 0 .. (SndSize - 1)
            /\ (Place(SndSize, z, q) = Place(SndSize, z, x) <=> q = x)
        <5>1. /\ a \in Int /\ Size(SndSize) /\ z \in Int
              /\ q \in WindowFrom(a) /\ x \in WindowFrom(a)
          BY <1>1, <1>2, <1>3, <4>1
        <5> QED  BY ONLY <5>1, PlaceNear
      <4> QED  BY <1>3, <2>3, <4>1, <4>2
    <3>5. Seqcmp(End(l, p), lo) < 0 <=> e[q] < x
      <4>1. End(l, p) = Wrap(e[q])
        BY <1>1, <1>3, <3>4, EndIs
      <4>2. e[q] \in WindowFrom(a) /\ a \in Int
        BY <1>2, <3>4
      <4>3. Seqcmp(Wrap(e[q]), Wrap(x)) < 0 <=> e[q] < x
        BY ONLY <4>2, WrapNear, x \in WindowFrom(a)
      <4> QED  BY <1>4, <4>1, <4>3
    <3>6. ~(Seqoff(l.data1[l.head], lo) < 0) /\ l.data1[c] # lo
      BY <1>2, <2>4, <2>5, <2>6, <2>12
    <3>7. CASE e[q] < x
      <4>1. PICK b \in SndLists : b = AddedRange(l, c, lo, hi) /\ b.next = l.next /\ b.head = l.head
        BY <1>1, <1>5, <2>3, <2>12
      <4>2. PICK s : s = [b EXCEPT !.next[c] = l.next[p], !.next[p] = c]
        OBVIOUS
      <4>3. l.next[p] \in SndLinks /\ c \in SndLinks
        BY <1>1 DEF SndLists, SndLinks
      <4>4. /\ s \in SndLists /\ s.data1 = b.data1 /\ s.data2 = b.data2
            /\ s.next = [[b.next EXCEPT ![c] = l.next[p]] EXCEPT ![p] = c] /\ s.head = b.head
            /\ s.length = b.length /\ s.last = b.last
        BY <4>1, <4>2, <4>3 DEF SndLists
      <4>5. SndInsert(l, Wrap(x), Wrap(h)) = Coalesced(s, c)
        BY <2>7, <3>2, <3>4, <3>5, <3>6, <3>7, <4>1, <4>2
      <4>6. \A w \in D : w < x => e[w] < x
        <5> TAKE w \in D
        <5>1. w < q => e[w] < q
          BY <1>1 DEF Apart
        <5> QED  BY <1>2, <3>3, <3>7, <5>1
      <4>7. Linked(SndSize, z, D \cup {x}, s.next)
        <5>1. /\ s.next[c] = l.next[p] /\ s.next[p] = c
              /\ s.next \in [SndCells -> SndCells \cup {Nil}]
              /\ \A k \in SndCells : k # c /\ k # p => s.next[k] = l.next[k]
          <6>1. PICK nx \in [SndCells -> SndLinks] : nx = b.next /\ nx = l.next
            BY <1>1, <4>1 DEF SndLists
          <6>2. PICK n \in SndLinks : n = l.next[p]
            BY <4>3
          <6>3. PICK ns : ns = [[nx EXCEPT ![c] = n] EXCEPT ![p] = c]
            OBVIOUS
          <6>4. s.next = ns
            BY <4>4, <6>1, <6>2, <6>3
          <6>5. ns[c] = n /\ ns[p] = c /\ ns \in [SndCells -> SndLinks]
                /\ \A k \in SndCells : k # c /\ k # p => ns[k] = nx[k]
            BY ONLY <3>4, <4>3, <6>3, p \in SndCells, c \in SndCells, n \in SndLinks,
                    nx \in [SndCells -> SndLinks]
          <6> QED  BY <6>1, <6>2, <6>4, <6>5 DEF SndLinks
        <5>2. LinksSame(SndSize, {P(x), P(q)}, l.next, s.next)
          BY <1>3, <2>3, <3>4, <5>1 DEF LinksSame
        <5>3. s.next[P(q)] = P(x) /\ s.next[P(x)] = l.next[P(q)]
          BY <2>3, <3>4, <5>1
        <5> QED  BY <1>1, <1>2, <1>3, <2>12, <3>2, <5>2, <5>3, LinkedAfter
      <4>8. HeadIs(SndSize, z, D \cup {x}, s.head)
        <5>1. \A w \in D \cup {x} : FirstIn(D \cup {x}, w) => w = g
          BY <1>2, <2>6, <3>1 DEF FirstIn
        <5> QED  BY <2>4, <4>1, <4>4, <5>1 DEF HeadIs
      <4> QED  BY <1>1, <2>9, <2>12, <4>1, <4>4, <4>5, <4>6, <4>7, <4>8
    <3>8. CASE ~(e[q] < x)
      <4>1. SndInsert(l, Wrap(x), Wrap(h)) = Extended([l EXCEPT !.last = p], p, hi)
        BY <2>7, <3>2, <3>4, <3>5, <3>6, <3>8
      <4>2. PICK S, f : /\ SndHolds(Extended([l EXCEPT !.last = p], p, hi), a, z, S, f)
                        /\ Numbers(S, f) = Numbers(D, e) \cup (q .. h)
        <5>1. q <= h
          BY <1>2, <3>3
        <5> QED  BY <2>8, <3>3, <3>4, <5>1
      <4>3. Numbers(D, e) \cup (q .. h) = Numbers(D, e) \cup (x .. h)
        <5>1. \A n \in q .. h : n \in q .. e[q] \/ n \in x .. h
          BY <1>2, <3>3, <3>8
        <5>2. x .. h \in SUBSET (q .. h)
          BY <1>2, <3>3
        <5>3. q .. e[q] \in SUBSET Numbers(D, e)
          BY <3>3 DEF Numbers
        <5> QED  BY <5>1, <5>2, <5>3
      <4> QED  BY <1>1, <4>1, <4>2, <4>3
    <3> QED  BY <3>7, <3>8
  <2> QED  BY <1>2, <2>6, <2>10, <2>11, <2>12
<1> QED  BY <1>6, <1>7

-----------------------------------------------------------------------------
(* What takes numbers off the sender's list.                               *)

\* After the first range comes what is first without it.
LEMMA SecondIsFirst ==
  ASSUME NEW a \in Int, NEW m, Size(m), NEW z \in Int, NEW D \in SUBSET WindowFrom(a),
         NEW nx, Linked(m, z, D, nx), NEW g, FirstIn(D, g)
  PROVE  HeadIs(m, z, D \ {g}, nx[Place(m, z, g)])
<1>1. g \in D /\ (\A w \in D : g <= w) /\ D \in SUBSET Int
  BY WindowFinite DEF FirstIn
<1>2. ASSUME D \ {g} = {}
      PROVE  nx[Place(m, z, g)] = Nil
  <2>1. \A w \in D : w <= g
    BY <1>1, <1>2
  <2> QED  BY <1>1, <2>1 DEF Linked
<1>3. ASSUME NEW x \in D \ {g}, FirstIn(D \ {g}, x)
      PROVE  nx[Place(m, z, g)] = Place(m, z, x)
  <2>1. \A w \in D \ {g} : x <= w
    BY <1>3 DEF FirstIn
  <2>2. NextIn(D, g, x)
    BY <1>1, <1>3, <2>1 DEF NextIn
  <2> QED  BY <1>1, <2>2 DEF Linked
<1> QED  BY <1>2, <1>3 DEF HeadIs

\* What freeing a cell does to the fields.
LEMMA EmptiedFields ==
  ASSUME NEW l \in SndLists, NEW c \in SndCells, NEW n \in Int, NEW b, b = Emptied(l, c, n)
  PROVE  /\ b \in SndLists
         /\ b.data1[c] = Nil /\ b.data2[c] = Nil
         /\ \A k \in SndCells : k # c => /\ b.data1[k] = l.data1[k] /\ b.data2[k] = l.data2[k]
                                         /\ b.next[k] = l.next[k]
         /\ b.head = l.head /\ b.length = l.length - n
         /\ b.last = IF l.last = c THEN Nil ELSE l.last
<1>1. PICK t : t = Forgotten(l, c)
  OBVIOUS
<1>2. b = [l EXCEPT !.data1[c] = Nil, !.data2[c] = Nil, !.next[c] = Nil, !.length = @ - n,
                    !.last = t]
  BY <1>1 DEF Emptied
<1>3. /\ l.data1 \in [SndCells -> Int] /\ l.data2 \in [SndCells -> Int]
      /\ l.next \in [SndCells -> SndLinks] /\ l.head \in SndLinks /\ l.last \in SndLinks
      /\ l.length \in Int /\ Nil \in Int /\ Nil \in SndLinks
  BY DEF SndLists, SndLinks, Nil
<1>4. t \in SndLinks /\ t = IF l.last = c THEN Nil ELSE l.last
  BY <1>1, <1>3 DEF Forgotten
<1>5. /\ b.data1 = [l.data1 EXCEPT ![c] = Nil] /\ b.data2 = [l.data2 EXCEPT ![c] = Nil]
      /\ b.next = [l.next EXCEPT ![c] = Nil]
      /\ b.length = l.length - n /\ b.last = t /\ b.head = l.head
  BY <1>2 DEF SndLists
<1>6. b \in SndLists
  <2>1. /\ [l.data1 EXCEPT ![c] = Nil] \in [SndCells -> Int]
        /\ [l.data2 EXCEPT ![c] = Nil] \in [SndCells -> Int]
        /\ [l.next EXCEPT ![c] = Nil] \in [SndCells -> SndLinks]
        /\ l.length - n \in Int
    BY <1>3
  <2>2. b = [data1 |-> b.data1, data2 |-> b.data2, next |-> b.next, head |-> b.head,
             length |-> b.length, last |-> b.last]
    BY <1>2 DEF SndLists
  <2> QED  BY <1>3, <1>4, <1>5, <2>1, <2>2 DEF SndLists
<1> QED  BY <1>3, <1>4, <1>5, <1>6

\* The first range taken off.
LEMMA FirstEmptied ==
  ASSUME NEW l, NEW a, NEW z, NEW D, NEW e, SndHeld(l, a, z, D, e), NEW g, FirstIn(D, g),
         NEW n \in Int, NEW b, b = Emptied(l, Place(SndSize, z, g), n)
  PROVE  /\ SndHeld(b, a, z, D \ {g}, e)
         /\ HeadIs(SndSize, z, D \ {g}, l.next[Place(SndSize, z, g)])
         /\ l.next[Place(SndSize, z, g)] \in SndLinks
         /\ b.head = l.head /\ b.length = l.length - n
<1>1. /\ l \in SndLists /\ z \in Int /\ Ranges(a, D, e) /\ a \in Int /\ D \in SUBSET WindowFrom(a)
      /\ Stored(SndSize, z, D, e, l.data1, l.data2) /\ Linked(SndSize, z, D, l.next)
      /\ l.last = Nil \/ \E x \in D : l.last = Place(SndSize, z, x)
  BY DEF SndHeld, Ranges
<1>2. Size(SndSize) /\ SndCells = 0 .. (SndSize - 1)
      /\ l.next \in [SndCells -> SndLinks] /\ SndLinks = SndCells \cup {Nil}
  BY <1>1, SndFields DEF SndLinks
<1>3. g \in D
  BY DEF FirstIn
<1>4. PICK c \in SndCells : c = Place(SndSize, z, g)
  BY <1>1, <1>2, <1>3, PlaceNear
<1>5. /\ b \in SndLists
      /\ b.data1[c] = Nil /\ b.data2[c] = Nil
      /\ \A k \in SndCells : k # c => /\ b.data1[k] = l.data1[k] /\ b.data2[k] = l.data2[k]
                                      /\ b.next[k] = l.next[k]
      /\ b.head = l.head /\ b.length = l.length - n
      /\ b.last = IF l.last = c THEN Nil ELSE l.last
  <2>1. b = Emptied(l, c, n) /\ l \in SndLists /\ c \in SndCells /\ n \in Int
    BY <1>1, <1>4
  <2> QED  BY ONLY <2>1, EmptiedFields
<1>6. /\ b.data1 \in [SndCells -> Int] /\ b.data2 \in [SndCells -> Int]
      /\ b.next \in [SndCells -> SndCells \cup {Nil}]
  BY <1>2, <1>5 DEF SndLists
<1>7. Stored(SndSize, z, D \ {g}, e, b.data1, b.data2)
  <2>1. TakenOut(SndSize, z, g, l.data1, l.data2, b.data1, b.data2)
    BY <1>2, <1>4, <1>5, <1>6 DEF TakenOut, ElsewhereSame
  <2> QED  BY <1>1, <1>2, <1>3, <2>1, StoredWithout
<1>8. Linked(SndSize, z, D \ {g}, b.next)
  <2>1. LinksSame(SndSize, {Place(SndSize, z, g)}, l.next, b.next)
    BY <1>2, <1>4, <1>5, <1>6 DEF LinksSame
  <2> QED  BY <1>1, <1>2, <2>1, UnlinkedFirst
<1>9. Ranges(a, D \ {g}, e)
  BY <1>1 DEF Ranges
<1>10. b.last = Nil \/ \E x \in D \ {g} : b.last = Place(SndSize, z, x)
  BY <1>1, <1>4, <1>5
<1>11. SndHeld(b, a, z, D \ {g}, e)
  BY <1>1, <1>5, <1>7, <1>8, <1>9, <1>10 DEF SndHeld
<1>12. HeadIs(SndSize, z, D \ {g}, l.next[Place(SndSize, z, g)])
  BY <1>1, <1>2, SecondIsFirst
<1> QED  BY <1>2, <1>4, <1>5, <1>11, <1>12

\* A range put in cell c before all others.
Headed(b, c, lo, hi, k) == [WithRange(b, c, lo, hi) EXCEPT !.next[c] = k, !.head = c]

\* What that does to the fields.
LEMMA PrefixedFields ==
  ASSUME NEW b \in SndLists, NEW c \in SndCells, NEW lo \in Int, NEW hi \in Int,
         NEW k \in SndLinks, b.data2[c] = Nil,
         NEW s, s = Headed(b, c, lo, hi, k)
  PROVE  /\ s \in SndLists
         /\ s.data1[c] = lo /\ s.data2[c] = IF hi = lo THEN Nil ELSE hi
         /\ s.next[c] = k
         /\ \A i \in SndCells : i # c => /\ s.data1[i] = b.data1[i] /\ s.data2[i] = b.data2[i]
                                         /\ s.next[i] = b.next[i]
         /\ s.head = c /\ s.length = b.length /\ s.last = b.last
<1>1. PICK d \in Int : d = IF hi = lo THEN Nil ELSE hi
  BY DEF Nil
<1>2. /\ b.data1 \in [SndCells -> Int] /\ b.data2 \in [SndCells -> Int]
      /\ b.next \in [SndCells -> SndLinks] /\ b.head \in SndLinks /\ b.last \in SndLinks
      /\ b.length \in Int /\ c \in SndLinks
  BY DEF SndLists, SndLinks
<1>3. PICK t : t = WithRange(b, c, lo, hi)
  OBVIOUS
<1>4. t = [b EXCEPT !.data1[c] = lo, !.data2[c] = d]
  <2>1. t = [b EXCEPT !.data1[c] = lo, !.data2[c] = IF hi = lo THEN b.data2[c] ELSE hi]
    BY <1>3 DEF WithRange
  <2> QED  BY <1>1, <2>1
<1>5. s = [t EXCEPT !.next[c] = k, !.head = c]
  BY <1>3 DEF Headed
<1>6. /\ t.data1 = [b.data1 EXCEPT ![c] = lo] /\ t.data2 = [b.data2 EXCEPT ![c] = d]
      /\ t.next = b.next /\ t.head = b.head /\ t.length = b.length /\ t.last = b.last
  BY <1>4 DEF SndLists
<1>7. t = [data1 |-> t.data1, data2 |-> t.data2, next |-> t.next, head |-> t.head,
           length |-> t.length, last |-> t.last]
  BY <1>4 DEF SndLists
<1>8. t \in SndLists
  <2>1. /\ [b.data1 EXCEPT ![c] = lo] \in [SndCells -> Int]
        /\ [b.data2 EXCEPT ![c] = d] \in [SndCells -> Int]
    BY <1>2
  <2> QED  BY <1>2, <1>6, <1>7, <2>1 DEF SndLists
<1>9. /\ s.data1 = t.data1 /\ s.data2 = t.data2 /\ s.next = [t.next EXCEPT ![c] = k]
      /\ s.head = c /\ s.length = t.length /\ s.last = t.last
  BY <1>5, <1>8 DEF SndLists
<1>10. s \in SndLists
  <2>1. [t.next EXCEPT ![c] = k] \in [SndCells -> SndLinks]
    BY <1>2, <1>6
  <2>2. s = [data1 |-> s.data1, data2 |-> s.data2, next |-> s.next, head |-> s.head,
             length |-> s.length, last |-> s.last]
    BY <1>5, <1>8 DEF SndLists
  <2> QED  BY <1>2, <1>8, <1>9, <2>1, <2>2 DEF SndLists
<1> QED  BY <1>1, <1>2, <1>6, <1>9, <1>10

\* A range put in before all others.
LEMMA Prefixed ==
  ASSUME NEW b, NEW a, NEW z, NEW S, NEW e, SndHeld(b, a, z, S, e), Apart(S, e),
         NEW x \in WindowFrom(a), NEW h \in WindowFrom(a), x <= h, \A w \in S : h < w,
         NEW k \in SndLinks, HeadIs(SndSize, z, S, k), NEW c, c = Place(SndSize, z, x),
         NEW s, s = Headed(b, c, Wrap(x), Wrap(h), k)
  PROVE  /\ SndHeld(s, a, z, S \cup {x}, Ending(e, x, h)) /\ Apart(S \cup {x}, Ending(e, x, h))
         /\ HeadIs(SndSize, z, S \cup {x}, s.head) /\ s.length = b.length
         /\ Numbers(S \cup {x}, Ending(e, x, h)) = Numbers(S, e) \cup (x .. h)
<1>1. /\ b \in SndLists /\ z \in Int /\ Ranges(a, S, e) /\ a \in Int /\ S \in SUBSET WindowFrom(a)
      /\ Stored(SndSize, z, S, e, b.data1, b.data2) /\ Linked(SndSize, z, S, b.next)
      /\ b.last = Nil \/ \E w \in S : b.last = Place(SndSize, z, w)
  BY DEF SndHeld, Ranges
<1>2. /\ Size(SndSize) /\ SndCells = 0 .. (SndSize - 1) /\ SndLinks = SndCells \cup {Nil}
      /\ b.data1 \in [SndCells -> Int] /\ b.data2 \in [SndCells -> Int]
  BY <1>1, SndFields DEF SndLinks
<1>3. /\ x \in Int /\ h \in Int /\ S \in SUBSET Int /\ e \in [Int -> Int]
      /\ x \notin S /\ \A w \in S : x < w
  <2>1. x \in Int /\ h \in Int /\ S \in SUBSET Int /\ e \in [Int -> Int]
    BY <1>1, WindowFinite, Near DEF Ranges
  <2> QED  BY <2>1
<1>4. c \in SndCells
  BY <1>1, <1>2, PlaceNear
<1>5. PICK lo \in Int, hi \in Int : lo = Wrap(x) /\ hi = Wrap(h) /\ (hi = lo <=> h = x)
  <2>1. Wrap(x) \in Int /\ (Wrap(h) = Wrap(x) <=> h = x)
    BY <1>1, WrapNear
  <2>2. Wrap(h) \in Int
    BY <1>1, WrapNear
  <2> QED  BY <2>1, <2>2
<1>6. b.data2[c] = Nil
  <2>1. /\ Size(SndSize) /\ z \in Int /\ Ranges(a, S, e) /\ x \in WindowFrom(a)
        /\ Stored(SndSize, z, S, e, b.data1, b.data2) /\ x \notin S
    BY <1>1, <1>2, <1>3
  <2>2. b.data2[Place(SndSize, z, x)] = Nil
    BY ONLY <2>1, Found
  <2> QED  BY <2>2
<1>7. /\ s \in SndLists
      /\ s.data1[c] = lo /\ s.data2[c] = IF hi = lo THEN Nil ELSE hi
      /\ s.next[c] = k
      /\ \A i \in SndCells : i # c => /\ s.data1[i] = b.data1[i] /\ s.data2[i] = b.data2[i]
                                      /\ s.next[i] = b.next[i]
      /\ s.head = c /\ s.length = b.length /\ s.last = b.last
  <2>1. s = Headed(b, c, lo, hi, k)
    BY <1>5
  <2>2. b \in SndLists /\ c \in SndCells /\ lo \in Int /\ hi \in Int /\ k \in SndLinks
    BY <1>1, <1>4
  <2> QED  BY ONLY <1>6, <2>1, <2>2, PrefixedFields
<1>8. /\ s.data1 \in [SndCells -> Int] /\ s.data2 \in [SndCells -> Int]
      /\ s.next \in [SndCells -> SndCells \cup {Nil}]
  BY <1>2, <1>7 DEF SndLists
<1>9. PICK f : f = Ending(e, x, h)
  OBVIOUS
<1>10. f \in [Int -> Int] /\ f[x] = h /\ \A u \in Int : u # x => f[u] = e[u]
  BY ONLY <1>3, <1>9, EndingIs
<1>11. /\ Ranges(a, S \cup {x}, f) /\ Numbers(S \cup {x}, f) = Numbers(S, e) \cup (x .. h)
       /\ Agree(S \ {x}, f, e)
  <2>1. /\ Ranges(a, S, e) /\ x \in WindowFrom(a) /\ h \in WindowFrom(a) /\ x <= h
        /\ x \in S => e[x] <= h
    BY <1>1, <1>3
  <2>2. /\ Ranges(a, S \cup {x}, Ending(e, x, h))
        /\ Numbers(S \cup {x}, Ending(e, x, h)) = Numbers(S, e) \cup (x .. h)
        /\ Agree(S \ {x}, Ending(e, x, h), e)
    BY ONLY <2>1, NumbersEnding
  <2> QED  BY <1>9, <2>2
<1>12. Stored(SndSize, z, S \cup {x}, f, s.data1, s.data2)
  <2>1. s.data2[c] = Second(x, h)
    BY <1>5, <1>7 DEF Second
  <2>2. PutIn(SndSize, z, x, f[x], b.data1, b.data2, s.data1, s.data2)
    BY <1>2, <1>5, <1>7, <1>8, <1>10, <2>1 DEF PutIn, ElsewhereSame
  <2>3. /\ Size(SndSize) /\ z \in Int /\ Ranges(a, S, e) /\ x \in WindowFrom(a)
        /\ Stored(SndSize, z, S, e, b.data1, b.data2)
    BY <1>1, <1>2
  <2> QED  BY ONLY <1>11, <2>2, <2>3, StoredPut
<1>13. Linked(SndSize, z, S \cup {x}, s.next)
  <2>1. LinksSame(SndSize, {Place(SndSize, z, x)}, b.next, s.next)
    BY <1>2, <1>7, <1>8 DEF LinksSame
  <2>2. HeadIs(SndSize, z, S, s.next[Place(SndSize, z, x)])
    BY <1>7
  <2> QED  BY <1>1, <1>2, <1>3, <2>1, <2>2, LinkedFirst
<1>14. SndHeld(s, a, z, S \cup {x}, f)
  BY <1>1, <1>7, <1>11, <1>12, <1>13 DEF SndHeld
<1>15. Apart(S \cup {x}, f)
  <2> SUFFICES ASSUME NEW u \in S \cup {x}, NEW w \in S \cup {x}, u < w PROVE f[u] < w
    BY DEF Apart
  <2>1. CASE u = x
    <3>1. w \in S
      BY <1>3, <2>1
    <3> QED  BY <1>10, <2>1, <3>1
  <2>2. CASE u # x
    <3>1. u \in S /\ w \in S
      BY <1>3, <2>2
    <3> QED  BY <1>3, <1>10, <2>2, <3>1 DEF Apart
  <2> QED  BY <2>1, <2>2
<1>16. HeadIs(SndSize, z, S \cup {x}, s.head)
  <2>1. \A w \in S \cup {x} : FirstIn(S \cup {x}, w) => w = x
    BY <1>3 DEF FirstIn
  <2> QED  BY <1>7, <2>1 DEF HeadIs
<1> QED  BY <1>7, <1>9, <1>11, <1>14, <1>15, <1>16

\* How many numbers there are without one.
LEMMA CountLess ==
  ASSUME NEW a \in Int, NEW N \in SUBSET WindowFrom(a), NEW x \in N
  PROVE  Cardinality(N \ {x}) = Cardinality(N) - 1
<1>1. IsFiniteSet(N)
  BY WindowFinite
<1> QED  BY <1>1, FS_RemoveElement

\* getLostSeq takes the smallest number and returns it.
LEMMA WithoutFirstHolds ==
  ASSUME NEW l, NEW a, NEW z, NEW D, NEW e, SndHolds(l, a, z, D, e), NEW g, FirstIn(D, g)
  PROVE  /\ l.data1[l.head] = Wrap(g)
         /\ \E S : \E f : /\ SndHolds(WithoutFirst(l), a, z, S, f)
                          /\ Numbers(S, f) = Numbers(D, e) \ {g}
<1>1. /\ SndHeld(l, a, z, D, e) /\ l \in SndLists /\ z \in Int /\ Ranges(a, D, e) /\ Apart(D, e)
      /\ Stored(SndSize, z, D, e, l.data1, l.data2) /\ Linked(SndSize, z, D, l.next)
      /\ HeadIs(SndSize, z, D, l.head) /\ l.length = Cardinality(Numbers(D, e))
  BY DEF SndHolds, SndHeld
<1>2. /\ a \in Int /\ D \in SUBSET WindowFrom(a) /\ D \in SUBSET Int /\ e \in [Int -> Int]
      /\ g \in D /\ (\A w \in D : g <= w) /\ g \in Int
      /\ g <= e[g] /\ e[g] \in WindowFrom(a) /\ e[g] \in Int
  BY <1>1, WindowFinite, Near DEF Ranges, FirstIn
<1>3. /\ Size(SndSize) /\ SndCells = 0 .. (SndSize - 1) /\ SndLinks = SndCells \cup {Nil}
  BY <1>1, SndFields DEF SndLinks
<1>4. PICK h \in SndCells : h = Place(SndSize, z, g) /\ h = l.head /\ l.data1[h] = Wrap(g)
  <2>1. Place(SndSize, z, g) \in 0 .. (SndSize - 1)
    BY <1>1, <1>2, <1>3, PlaceNear
  <2> QED  BY <1>1, <1>2, <1>3, <2>1 DEF HeadIs, Stored
<1>5. l.data2[h] = Second(g, e[g]) /\ Wrap(e[g]) # Nil
  <2>1. Wrap(e[g]) # Nil
    BY <1>2, WrapNear
  <2> QED  BY <1>1, <1>2, <1>4, <2>1 DEF Stored
<1>6. PICK b : b = Emptied(l, h, 1)
  OBVIOUS
<1>7. PICK k \in SndLinks : k = l.next[h]
  BY <1>1, <1>4 DEF SndLists
<1>8. /\ SndHeld(b, a, z, D \ {g}, e) /\ HeadIs(SndSize, z, D \ {g}, k)
      /\ b.length = l.length - 1
  <2>1. 1 \in Int /\ b = Emptied(l, Place(SndSize, z, g), 1)
    BY <1>4, <1>6
  <2>2. /\ SndHeld(b, a, z, D \ {g}, e)
        /\ HeadIs(SndSize, z, D \ {g}, l.next[Place(SndSize, z, g)])
        /\ b.length = l.length - 1
    BY ONLY <1>1, <2>1, FirstIn(D, g), FirstEmptied
  <2> QED  BY <1>4, <1>7, <2>2
<1>9. Ranges(a, D \ {g}, e) /\ Apart(D \ {g}, e)
      /\ Numbers(D \ {g}, e) = Numbers(D, e) \ (g .. e[g])
  <2>1. Ranges(a, D \ {g}, e) /\ Apart(D \ {g}, e)
    BY <1>1 DEF Ranges, Apart
  <2>2. Ranges(a, D, e) /\ Apart(D, e) /\ g \in D
    BY <1>1, <1>2
  <2>3. Numbers(D \ {g}, e) = Numbers(D, e) \ (g .. e[g])
    BY ONLY <2>2, NumbersWithout
  <2> QED  BY <2>1, <2>3
<1>10. PICK N : N = Numbers(D, e) /\ g .. e[g] \in SUBSET N /\ g \in N /\ N \in SUBSET WindowFrom(a)
  <2>1. g .. e[g] \in SUBSET Numbers(D, e) /\ g \in g .. e[g]
    BY <1>2 DEF Numbers
  <2>2. Numbers(D, e) \in SUBSET WindowFrom(a)
    BY <1>1, NumbersInWindow
  <2> QED  BY <2>1, <2>2
<1>11. l.length - 1 = Cardinality(N \ {g})
  BY <1>1, <1>2, <1>10, CountLess
<1>12. WithoutFirst(l) =
          LET c == (h + 1) % SndSize
          IN  IF l.data2[h] = Nil THEN [b EXCEPT !.head = k]
              ELSE Headed(b, c, Incseq(l.data1[h]), l.data2[h], k)
  BY <1>4, <1>6, <1>7 DEF WithoutFirst, Headed
<1>13. CASE e[g] = g
  <2>1. PICK s : s = [b EXCEPT !.head = k]
    OBVIOUS
  <2>2. WithoutFirst(l) = s
    BY <1>5, <1>12, <1>13, <2>1 DEF Second
  <2>3. /\ s \in SndLists /\ s.data1 = b.data1 /\ s.data2 = b.data2 /\ s.next = b.next
        /\ s.head = k /\ s.length = b.length /\ s.last = b.last
    BY <1>8, <2>1 DEF SndHeld, SndLists
  <2>4. SndHeld(s, a, z, D \ {g}, e)
    BY <1>8, <2>3 DEF SndHeld
  <2>5. Numbers(D \ {g}, e) = N \ {g}
    <3>1. g .. e[g] = {g}
      BY <1>2, <1>13
    <3> QED  BY <1>9, <1>10, <3>1
  <2>6. SndHolds(s, a, z, D \ {g}, e)
    BY <1>8, <1>9, <1>11, <2>3, <2>4, <2>5 DEF SndHolds
  <2> QED  BY <1>4, <1>10, <2>2, <2>5, <2>6
<1>14. CASE e[g] # g
  <2>1. PICK x \in WindowFrom(a) : x = g + 1 /\ x \in Int /\ x <= e[g]
    <3>1. g + 1 <= e[g] /\ g + 1 \in Int
      BY <1>2, <1>14
    <3>2. g + 1 \in WindowFrom(a)
      BY <1>2, <3>1, WindowAssumption DEF WindowFrom
    <3> QED  BY <3>1, <3>2
  <2>2. PICK y \in WindowFrom(a) : y = e[g]
    BY <1>2
  <2>3. PICK c : c = Place(SndSize, z, x)
    OBVIOUS
  <2>4. (h + 1) % SndSize = c
    <3>1. (Place(SndSize, z, g) + (x - g)) % SndSize = Place(SndSize, z, x)
      BY <1>1, <1>2, <1>3, PlaceNear
    <3>2. x - g = 1
      BY <1>2, <2>1
    <3> QED  BY <1>4, <2>3, <3>1, <3>2
  <2>5. Incseq(l.data1[h]) = Wrap(x) /\ l.data2[h] = Wrap(y) /\ l.data2[h] # Nil
    <3>1. Incseq(Wrap(g)) = Wrap(g + 1)
      BY <1>2, WrapSteps
    <3> QED  BY <1>4, <1>5, <1>14, <2>1, <2>2, <3>1 DEF Second
  <2>6. PICK s : s = Headed(b, c, Wrap(x), Wrap(y), k)
    OBVIOUS
  <2>7. WithoutFirst(l) = s
    BY <1>12, <2>4, <2>5, <2>6
  <2>8. \A w \in D \ {g} : y < w
    <3> TAKE w \in D \ {g}
    <3>1. g < w
      BY <1>2
    <3> QED  BY <1>1, <1>2, <2>2, <3>1 DEF Apart
  <2>9. /\ SndHeld(s, a, z, (D \ {g}) \cup {x}, Ending(e, x, y))
        /\ Apart((D \ {g}) \cup {x}, Ending(e, x, y))
        /\ HeadIs(SndSize, z, (D \ {g}) \cup {x}, s.head) /\ s.length = b.length
        /\ Numbers((D \ {g}) \cup {x}, Ending(e, x, y)) = Numbers(D \ {g}, e) \cup (x .. y)
    <3>1. x <= y
      BY <2>1, <2>2
    <3>2. PICK S : S = D \ {g}
      OBVIOUS
    <3>3. /\ SndHeld(b, a, z, S, e) /\ Apart(S, e) /\ HeadIs(SndSize, z, S, k)
          /\ \A w \in S : y < w
      BY <1>8, <1>9, <2>8, <3>2
    <3>4. /\ SndHeld(s, a, z, S \cup {x}, Ending(e, x, y))
          /\ Apart(S \cup {x}, Ending(e, x, y))
          /\ HeadIs(SndSize, z, S \cup {x}, s.head) /\ s.length = b.length
          /\ Numbers(S \cup {x}, Ending(e, x, y)) = Numbers(S, e) \cup (x .. y)
      BY ONLY <2>3, <2>6, <3>1, <3>3, Prefixed, x \in WindowFrom(a),
              y \in WindowFrom(a), k \in SndLinks
    <3> QED  BY <3>2, <3>4
  <2>10. Numbers((D \ {g}) \cup {x}, Ending(e, x, y)) = N \ {g}
    <3>1. \A n \in g .. e[g] : n \in x .. y <=> n # g
      BY <1>2, <2>1, <2>2
    <3>2. x .. y \in SUBSET (g .. e[g])
      BY <1>2, <2>1, <2>2
    <3>3. g \in g .. e[g]
      BY <1>2
    <3>4. (N \ (g .. e[g])) \cup (x .. y) = N \ {g}
      BY <1>10, <3>1, <3>2, <3>3
    <3> QED  BY <1>9, <1>10, <2>9, <3>4
  <2>11. SndHolds(s, a, z, (D \ {g}) \cup {x}, Ending(e, x, y))
    BY <1>8, <1>11, <2>9, <2>10 DEF SndHolds
  <2> QED  BY <1>4, <1>10, <2>7, <2>10, <2>11
<1> QED  BY <1>13, <1>14

\* The loop that takes the ranges before the head off: those from t on stay,
\* whose numbers are N.
From(D, t) == {w \in D : t <= w}
Clearing(l, c, a, z, D, e, t, N) ==
    /\ SndHeld(l, a, z, D, e) /\ Apart(D, e) /\ t \in Int
    /\ HeadIs(SndSize, z, D, c) /\ HeadIs(SndSize, z, From(D, t), l.head)
    /\ l.length = Cardinality(Numbers(D, e))
    /\ Numbers(From(D, t), e) = N

Clears == [l : SndLists, c : SndLinks]

\* A pass of that loop ends it or takes the first range off.
LEMMA ClearStep ==
  ASSUME NEW r \in Clears, NEW a, NEW z, NEW D, NEW e, NEW t, NEW N,
         Clearing(r.l, r.c, a, z, D, e, t, N)
  PROVE  \/ Clear[r] = r /\ From(D, t) = D
         \/ /\ Clear[r] # r /\ Clear[r] \in Clears
            /\ \E g \in D : Clearing(Clear[r].l, Clear[r].c, a, z, D \ {g}, e, t, N)
<1>1. PICK l \in SndLists, c \in SndLinks : l = r.l /\ c = r.c /\ r = [l |-> l, c |-> c]
  BY DEF Clears
<1>2. /\ SndHeld(l, a, z, D, e) /\ Apart(D, e) /\ t \in Int /\ z \in Int /\ Ranges(a, D, e)
      /\ HeadIs(SndSize, z, D, c) /\ HeadIs(SndSize, z, From(D, t), l.head)
      /\ l.length = Cardinality(Numbers(D, e)) /\ Numbers(From(D, t), e) = N
      /\ Stored(SndSize, z, D, e, l.data1, l.data2) /\ Linked(SndSize, z, D, l.next)
  BY <1>1 DEF Clearing, SndHeld
<1>3. /\ a \in Int /\ D \in SUBSET WindowFrom(a) /\ D \in SUBSET Int
      /\ Size(SndSize) /\ SndCells = 0 .. (SndSize - 1) /\ SndLinks = SndCells \cup {Nil}
  BY <1>2, WindowFinite, SndFields DEF Ranges, SndLinks
<1>4. From(D, t) \in SUBSET D /\ From(D, t) \in SUBSET WindowFrom(a)
  BY <1>3 DEF From
<1>5. Clear[r] = IF c = l.head THEN r
                 ELSE [l |-> Emptied(l, c, Seqlen(l.data1[c], End(l, c))), c |-> l.next[c]]
  BY <1>1 DEF Clear, Clears
<1>6. CASE c = l.head
  <2>1. From(D, t) = D
    <3>1. CASE D = {}
      BY <1>4, <3>1
    <3>2. CASE D # {}
      <4>1. PICK g \in D : FirstIn(D, g)
        BY <1>3, <3>2, Neighbours
      <4>2. c = Place(SndSize, z, g) /\ c # Nil
        BY <1>2, <1>3, <4>1, PlaceNear DEF HeadIs
      <4>3. From(D, t) # {}
        BY <1>2, <1>6, <4>2 DEF HeadIs
      <4>4. PICK k \in From(D, t) : FirstIn(From(D, t), k)
        BY <1>3, <1>4, <4>3, Neighbours
      <4>5. c = Place(SndSize, z, k) /\ k \in D /\ t <= k
        BY <1>2, <1>4, <1>6, <4>4 DEF HeadIs, From
      <4>6. k = g
        <5>1. /\ a \in Int /\ Size(SndSize) /\ z \in Int
              /\ k \in WindowFrom(a) /\ g \in WindowFrom(a)
          BY <1>2, <1>3, <4>1, <4>5
        <5>2. Place(SndSize, z, k) = Place(SndSize, z, g) <=> k = g
          BY ONLY <5>1, PlaceNear
        <5> QED  BY <4>2, <4>5, <5>2
      <4>7. \A w \in D : t <= w
        BY <1>2, <1>3, <4>1, <4>5, <4>6 DEF FirstIn
      <4> QED  BY <4>7 DEF From
    <3> QED  BY <3>1, <3>2
  <2> QED  BY <1>5, <1>6, <2>1
<1>7. CASE c # l.head
  <2>1. D # {}
    <3> SUFFICES ASSUME D = {} PROVE FALSE
      OBVIOUS
    <3>1. From(D, t) = {}
      BY <1>4
    <3> QED  BY <1>2, <1>7, <3>1 DEF HeadIs
  <2>2. PICK g \in D : FirstIn(D, g)
    BY <1>3, <2>1, Neighbours
  <2>3. (\A w \in D : g <= w) /\ g \in Int
    BY <1>3, <2>2 DEF FirstIn
  <2>4. c = Place(SndSize, z, g) /\ c \in SndCells
    <3>1. Place(SndSize, z, g) \in 0 .. (SndSize - 1)
      BY <1>2, <1>3, PlaceNear
    <3> QED  BY <1>2, <1>3, <2>2, <3>1 DEF HeadIs
  <2>5. ~(t <= g)
    <3> SUFFICES ASSUME t <= g PROVE FALSE
      OBVIOUS
    <3>1. g \in From(D, t) /\ FirstIn(From(D, t), g)
      BY <1>4, <2>2 DEF From, FirstIn
    <3> QED  BY <1>2, <1>7, <2>4, <3>1 DEF HeadIs
  <2>6. From(D \ {g}, t) = From(D, t)
    BY <2>5 DEF From
  <2>7. PICK n \in Int : n = Seqlen(l.data1[c], End(l, c)) /\ n = e[g] - g + 1
    <3>1. l.data1[c] = Wrap(g) /\ End(l, c) = Wrap(e[g])
      BY <1>2, <1>3, <2>4, EndIs
    <3>2. g <= e[g] /\ e[g] \in WindowFrom(a) /\ g \in WindowFrom(a)
      BY <1>2, <1>3 DEF Ranges
    <3>3. Seqlen(Wrap(g), Wrap(e[g])) = e[g] - g + 1 /\ e[g] \in Int
      BY <1>3, <3>2, WrapNear
    <3> QED  BY <2>3, <3>1, <3>3
  <2>8. PICK b : b = Emptied(l, c, n)
    OBVIOUS
  <2>9. /\ SndHeld(b, a, z, D \ {g}, e) /\ HeadIs(SndSize, z, D \ {g}, l.next[c])
        /\ l.next[c] \in SndLinks /\ b.head = l.head /\ b.length = l.length - n
    <3>1. b = Emptied(l, Place(SndSize, z, g), n)
      BY <2>4, <2>8
    <3>2. /\ SndHeld(b, a, z, D \ {g}, e)
          /\ HeadIs(SndSize, z, D \ {g}, l.next[Place(SndSize, z, g)])
          /\ l.next[Place(SndSize, z, g)] \in SndLinks
          /\ b.head = l.head /\ b.length = l.length - n
      BY ONLY <1>2, <2>2, <3>1, n \in Int, FirstEmptied
    <3> QED  BY <2>4, <3>2
  <2>10. PICK k \in SndLinks : k = l.next[c]
    BY <2>9
  <2>11. PICK s : s = Clear[r] /\ s = [l |-> b, c |-> k] /\ s \in Clears /\ s.l = b /\ s.c = k
    <3>1. b \in SndLists
      BY <2>9 DEF SndHeld
    <3>2. Clear[r] = [l |-> b, c |-> k]
      BY <1>5, <1>7, <2>7, <2>8, <2>10
    <3> QED  BY <3>1, <3>2 DEF Clears
  <2>12. s # r
    <3>1. b.data1[c] = Nil
      BY <2>4, <2>8, EmptiedFields
    <3>2. l.data1[c] # Nil
      BY <1>2, <1>3, <2>4, WrapNear DEF Stored
    <3> QED  BY <1>1, <2>11, <3>1, <3>2
  <2>13. Apart(D \ {g}, e)
    BY <1>2 DEF Apart
  <2>14. b.length = Cardinality(Numbers(D \ {g}, e))
    <3>1. Cardinality(Numbers(D, e)) = Cardinality(Numbers(D \ {g}, e)) + (e[g] - g + 1)
      BY <1>2, CountWithout
    <3>2. PICK C \in Nat : C = Cardinality(Numbers(D \ {g}, e))
      <4>1. Ranges(a, D \ {g}, e)
        BY <1>2 DEF Ranges
      <4> QED  BY <4>1, NoNumbers
    <3> QED  BY <1>2, <2>7, <2>9, <3>1, <3>2
  <2>15. Clearing(s.l, s.c, a, z, D \ {g}, e, t, N)
    BY <1>2, <2>6, <2>9, <2>10, <2>11, <2>13, <2>14 DEF Clearing
  <2> QED  BY <2>11, <2>12, <2>15
<1> QED  BY <1>6, <1>7

\* When it has ended, the list holds the numbers that were to stay.
LEMMA ClearedHolds ==
  ASSUME NEW l, NEW c \in SndLinks, NEW a, NEW z, NEW D, NEW e, NEW t, NEW N,
         Clearing(l, c, a, z, D, e, t, N)
  PROVE  \E S : SndHolds(Cleared(l, c), a, z, S, e) /\ Numbers(S, e) = N
<1> DEFINE Clearings(r, k) == \E S \in SUBSET Int :
                                  Clearing(r.l, r.c, a, z, S, e, t, N) /\ k = Cardinality(S)
           R == [r \in Clears |-> {k \in Nat : Clearings(r, k)}]
<1>1. ASSUME NEW b, NEW k, NEW S, Clearing(b, k, a, z, S, e, t, N)
      PROVE  /\ b \in SndLists /\ S \in SUBSET Int /\ IsFiniteSet(S)
             /\ Cardinality(S) \in Nat /\ Cardinality(S) <= Window
  BY <1>1, WindowFinite DEF Clearing, SndHeld, Ranges
<1>2. R \in [Clears -> SUBSET Nat]
  OBVIOUS
<1>3. ASSUME NEW r \in Clears, NEW k \in R[r]
      PROVE  Clear[r] = r \/ (Clear[r] \in Clears /\ \E j \in R[Clear[r]] : j < k)
  <2>1. PICK S \in SUBSET Int : Clearing(r.l, r.c, a, z, S, e, t, N) /\ k = Cardinality(S)
    OBVIOUS
  <2>2. CASE Clear[r] # r
    <3>1. PICK q \in Clears, g \in S : q = Clear[r] /\ Clearing(q.l, q.c, a, z, S \ {g}, e, t, N)
      BY <2>1, <2>2, ClearStep
    <3>2. PICK j : j = Cardinality(S \ {g})
      OBVIOUS
    <3>3. j \in Nat /\ S \ {g} \in SUBSET Int
      BY <1>1, <3>1, <3>2
    <3>4. j < k
      <4>1. IsFiniteSet(S) /\ Cardinality(S) \in Nat
        BY <1>1, <2>1
      <4>2. j = Cardinality(S) - 1
        BY <3>1, <3>2, <4>1, FS_RemoveElement
      <4> QED  BY <2>1, <4>1, <4>2
    <3>5. Clearings(q, j)
      BY <3>1, <3>2, <3>3
    <3>6. j \in R[q]
      BY <3>3, <3>5
    <3> HIDE DEF R
    <3> QED  BY <3>1, <3>4, <3>6
  <2> QED  BY <2>2
<1>4. PICK r \in Clears : r = [l |-> l, c |-> c] /\ r.l = l /\ r.c = c
  <2>1. l \in SndLists
    BY <1>1
  <2>2. [l |-> l, c |-> c] \in Clears
    BY <2>1 DEF Clears
  <2> QED  BY <2>2
<1>5. PICK m \in Nat : m \in R[r] /\ m <= SndSize
  <2>1. PICK m \in Nat : m = Cardinality(D)
    BY <1>1
  <2>2. m <= SndSize
    BY <1>1, <2>1, SndSizeAssumption, WindowAssumption
  <2>3. D \in SUBSET Int
    BY <1>1
  <2>4. Clearings(r, m)
    BY <1>4, <2>1, <2>3
  <2> HIDE DEF Clearings
  <2> QED  BY <2>2, <2>4
<1> DEFINE q == Repeat(Clear, r, SndSize)
<1>6. Clear[q] = q /\ q \in Clears /\ R[q] # {}
  <2> HIDE DEF R
  <2>1. SndSize \in Nat
    BY SndSizeAssumption
  <2> QED  BY <1>2, <1>3, <1>5, <2>1, RepeatEnds
<1> HIDE DEF q
<1>7. PICK S \in SUBSET Int : Clearing(q.l, q.c, a, z, S, e, t, N)
  <2>1. \E k \in R[q] : TRUE
    <3> HIDE DEF R
    <3> QED  BY <1>6
  <2> QED  BY <1>6, <2>1
<1>8. From(S, t) = S
  BY <1>6, <1>7, ClearStep
<1>9. SndHolds(q.l, a, z, S, e) /\ Numbers(S, e) = N
  BY <1>7, <1>8 DEF Clearing, SndHolds
<1>10. Cleared(l, c) = q.l
  BY <1>4 DEF Cleared, q
<1> QED  BY <1>9, <1>10

\* What comes after range p is first of those after it.
LEMMA AfterIsFirst ==
  ASSUME NEW a \in Int, NEW m, Size(m), NEW z \in Int, NEW D \in SUBSET WindowFrom(a),
         NEW nx, Linked(m, z, D, nx), NEW p \in D, NEW T, T = {w \in D : p < w}
  PROVE  HeadIs(m, z, T, nx[Place(m, z, p)])
<1>1. D \in SUBSET Int /\ p \in Int
  BY WindowFinite
<1>2. ASSUME T = {}
      PROVE  nx[Place(m, z, p)] = Nil
  <2>1. \A w \in D : w <= p
    BY <1>1, <1>2
  <2> QED  BY <2>1 DEF Linked
<1>3. ASSUME NEW x \in T, FirstIn(T, x)
      PROVE  nx[Place(m, z, p)] = Place(m, z, x)
  <2>1. NextIn(D, p, x)
    BY <1>1, <1>3 DEF NextIn, FirstIn
  <2> QED  BY <2>1 DEF Linked
<1> QED  BY <1>2, <1>3 DEF HeadIs

\* Range c cut, its rest in cell r, which becomes the head.
Halved(l, c, d, r, lo, hi, k) ==
    [WithRange(l, r, lo, hi) EXCEPT !.data2[c] = d, !.next[r] = k, !.next[c] = r, !.head = r]

\* The fields of such a list.
HalvedAs(l, c, d, r, lo, hi, k, s) ==
    /\ s \in SndLists
    /\ s.data1[r] = lo /\ s.data2[r] = IF hi = lo THEN Nil ELSE hi
    /\ \A i \in SndCells : i # r => s.data1[i] = l.data1[i]
    /\ s.data2[c] = d /\ \A i \in SndCells : i # r /\ i # c => s.data2[i] = l.data2[i]
    /\ s.next[r] = k /\ s.next[c] = r
    /\ \A i \in SndCells : i # r /\ i # c => s.next[i] = l.next[i]
    /\ s.head = r /\ s.length = l.length /\ s.last = l.last

\* Cutting a range does that.
LEMMA HalvedFields ==
  ASSUME NEW l \in SndLists, NEW c \in SndCells, NEW d \in Int, NEW r \in SndCells, c # r,
         NEW lo \in Int, NEW hi \in Int, NEW k \in SndLinks, l.data2[r] = Nil,
         NEW s, s = Halved(l, c, d, r, lo, hi, k)
  PROVE  HalvedAs(l, c, d, r, lo, hi, k, s)
<1>1. PICK h \in Int : h = IF hi = lo THEN Nil ELSE hi
  BY DEF Nil
<1>2. /\ l.data1 \in [SndCells -> Int] /\ l.data2 \in [SndCells -> Int]
      /\ l.next \in [SndCells -> SndLinks] /\ l.head \in SndLinks /\ l.last \in SndLinks
      /\ l.length \in Int /\ r \in SndLinks
  BY DEF SndLists, SndLinks
<1>3. PICK t : t = WithRange(l, r, lo, hi)
  OBVIOUS
<1>4. t = [l EXCEPT !.data1[r] = lo, !.data2[r] = h]
  <2>1. t = [l EXCEPT !.data1[r] = lo, !.data2[r] = IF hi = lo THEN l.data2[r] ELSE hi]
    BY <1>3 DEF WithRange
  <2> QED  BY <1>1, <2>1
<1>5. s = [t EXCEPT !.data2[c] = d, !.next[r] = k, !.next[c] = r, !.head = r]
  BY <1>3 DEF Halved
<1>6. /\ t.data1 = [l.data1 EXCEPT ![r] = lo] /\ t.data2 = [l.data2 EXCEPT ![r] = h]
      /\ t.next = l.next /\ t.head = l.head /\ t.length = l.length /\ t.last = l.last
  BY <1>4 DEF SndLists
<1>7. t = [data1 |-> t.data1, data2 |-> t.data2, next |-> t.next, head |-> t.head,
           length |-> t.length, last |-> t.last]
  BY <1>4 DEF SndLists
<1>8. t \in SndLists
  <2>1. /\ [l.data1 EXCEPT ![r] = lo] \in [SndCells -> Int]
        /\ [l.data2 EXCEPT ![r] = h] \in [SndCells -> Int]
    BY <1>2
  <2> QED  BY <1>2, <1>6, <1>7, <2>1 DEF SndLists
<1>9. /\ s.data1 = t.data1 /\ s.data2 = [t.data2 EXCEPT ![c] = d]
      /\ s.next = [[t.next EXCEPT ![r] = k] EXCEPT ![c] = r]
      /\ s.head = r /\ s.length = t.length /\ s.last = t.last
  BY <1>5, <1>8 DEF SndLists
<1>10. s \in SndLists
  <2>1. /\ [[t.next EXCEPT ![r] = k] EXCEPT ![c] = r] \in [SndCells -> SndLinks]
        /\ [t.data2 EXCEPT ![c] = d] \in [SndCells -> Int]
    BY <1>2, <1>6, <1>8 DEF SndLists
  <2>2. s = [data1 |-> s.data1, data2 |-> s.data2, next |-> s.next, head |-> s.head,
             length |-> s.length, last |-> s.last]
    BY <1>5, <1>8 DEF SndLists
  <2> QED  BY <1>2, <1>8, <1>9, <2>1, <2>2 DEF SndLists
<1>11. /\ s.data1[r] = lo /\ \A i \in SndCells : i # r => s.data1[i] = l.data1[i]
  BY <1>2, <1>6, <1>9
<1>12. /\ s.data2[r] = h /\ s.data2[c] = d
       /\ \A i \in SndCells : i # r /\ i # c => s.data2[i] = l.data2[i]
  <2>1. s.data2 = [[l.data2 EXCEPT ![r] = h] EXCEPT ![c] = d]
    BY <1>6, <1>9
  <2> QED  BY <1>2, <2>1
<1>13. /\ s.next[r] = k /\ s.next[c] = r
       /\ \A i \in SndCells : i # r /\ i # c => s.next[i] = l.next[i]
  <2>1. s.next = [[l.next EXCEPT ![r] = k] EXCEPT ![c] = r]
    BY <1>6, <1>9
  <2> QED  BY <1>2, <2>1
<1> QED  BY <1>1, <1>6, <1>9, <1>10, <1>11, <1>12, <1>13 DEF HalvedAs

\* The ends when range p is cut after y and the rest starts with v.
Parted(e, p, y, v, f) ==
    /\ f \in [Int -> Int] /\ f[p] = y /\ f[v] = e[p]
    /\ \A u \in Int : u # p /\ u # v => f[u] = e[u]

\* That leaves the numbers as they are.
LEMMA NumbersParted ==
  ASSUME NEW a, NEW D, NEW e, Ranges(a, D, e), Apart(D, e), NEW p \in D, NEW y \in Int,
         p <= y, y < e[p], NEW v, v = y + 1, NEW f, Parted(e, p, y, v, f)
  PROVE  /\ v \in WindowFrom(a) /\ v \notin D
         /\ Ranges(a, D \cup {v}, f) /\ Apart(D \cup {v}, f)
         /\ Numbers(D \cup {v}, f) = Numbers(D, e)
<1>1. /\ a \in Int /\ D \in SUBSET WindowFrom(a) /\ D \in SUBSET Int /\ e \in [Int -> Int]
      /\ \A u \in D : u <= e[u] /\ e[u] \in WindowFrom(a) /\ e[u] \in Int
      /\ \A u, w \in D : u < w => e[u] < w
  BY WindowFinite, Near DEF Ranges, Apart
<1>2. /\ p \in Int /\ v \in Int /\ p < v /\ v <= e[p] /\ p # v
  BY <1>1
<1>3. v \in WindowFrom(a) /\ y \in WindowFrom(a)
  <2>1. a <= p /\ e[p] <= a + Window - 1 /\ Window \in Int
    BY <1>1, WindowAssumption DEF WindowFrom
  <2> QED  BY <1>1, <1>2, <2>1 DEF WindowFrom
<1>4. v \notin D
  BY <1>1, <1>2
<1>5. /\ f \in [Int -> Int] /\ f[p] = y /\ f[v] = e[p]
      /\ \A u \in D : u # p => f[u] = e[u]
  BY <1>1, <1>4 DEF Parted
<1>6. Ranges(a, D \cup {v}, f)
  <2>1. ASSUME NEW u \in D \cup {v}
        PROVE  u <= f[u] /\ f[u] \in WindowFrom(a)
    <3>1. CASE u = v
      BY <1>1, <1>2, <1>5, <3>1
    <3>2. CASE u = p
      BY <1>3, <1>5, <3>2
    <3>3. CASE u # v /\ u # p
      BY <1>1, <1>5, <3>3
    <3> QED  BY <3>1, <3>2, <3>3
  <2> QED  BY <1>1, <1>3, <1>5, <2>1 DEF Ranges
<1>7. Apart(D \cup {v}, f)
  <2> SUFFICES ASSUME NEW u \in D \cup {v}, NEW w \in D \cup {v}, u < w PROVE f[u] < w
    BY DEF Apart
  <2>1. CASE u = v
    <3>1. w \in D /\ p < w
      BY <1>1, <1>2, <2>1
    <3> QED  BY <1>1, <1>5, <2>1, <3>1
  <2>2. CASE u = p
    <3>1. CASE w = v
      BY <1>1, <1>5, <2>2, <3>1
    <3>2. CASE w # v
      <4>1. w \in D /\ e[p] < w
        BY <1>1, <2>2, <3>2
      <4> QED  BY <1>1, <1>5, <2>2, <4>1
    <3> QED  BY <3>1, <3>2
  <2>3. CASE u # v /\ u # p
    <3>1. u \in D /\ f[u] = e[u]
      BY <1>5, <2>3
    <3>2. CASE w = v
      <4>1. u < p
        <5> SUFFICES ASSUME p < u PROVE FALSE
          BY <1>1, <2>3, <3>1
        <5>1. e[p] < u
          BY <1>1, <3>1
        <5> QED  BY <1>1, <1>2, <3>1, <3>2, <5>1
      <4>2. e[u] < p
        BY <1>1, <3>1, <4>1
      <4> QED  BY <1>1, <1>2, <3>1, <3>2, <4>2
    <3>3. CASE w # v
      BY <1>1, <3>1, <3>3
    <3> QED  BY <3>2, <3>3
  <2> QED  BY <2>1, <2>2, <2>3
<1>8. Numbers(D \cup {v}, f) = Numbers(D, e)
  <2>1. PICK S : S = Numbers(D \cup {v}, f)
    OBVIOUS
  <2>2. PICK T : T = Numbers(D, e)
    OBVIOUS
  <2>3. \A n : n \in S <=> \E u \in D \cup {v} : n \in u .. f[u]
    BY <2>1 DEF Numbers
  <2>4. \A n : n \in T <=> \E u \in D : n \in u .. e[u]
    BY <2>2 DEF Numbers
  <2>5. ASSUME NEW n \in S
        PROVE  n \in T
    <3>1. PICK u \in D \cup {v} : n \in u .. f[u]
      BY <2>3
    <3>2. CASE u = v \/ u = p
      <4>1. n \in p .. e[p]
        BY <1>1, <1>2, <1>5, <3>1, <3>2
      <4> QED  BY <2>4, <4>1
    <3>3. CASE u # v /\ u # p
      BY <1>5, <2>4, <3>1, <3>3
    <3> QED  BY <3>2, <3>3
  <2>6. ASSUME NEW n \in T
        PROVE  n \in S
    <3>1. PICK u \in D : n \in u .. e[u]
      BY <2>4
    <3>2. CASE u = p
      <4>1. n \in p .. f[p] \/ n \in v .. f[v]
        BY <1>1, <1>2, <1>5, <3>1, <3>2
      <4> QED  BY <2>3, <4>1
    <3>3. CASE u # p
      BY <1>5, <2>3, <3>1, <3>3
    <3> QED  BY <3>2, <3>3
  <2> QED  BY <2>1, <2>2, <2>5, <2>6
<1> QED  BY <1>3, <1>4, <1>6, <1>7, <1>8

\* The numbers of the ranges after one that ends by y, or that starts after it.
LEMMA NumbersFrom ==
  ASSUME NEW a, NEW D, NEW e, Ranges(a, D, e), NEW y \in Int, NEW v, v = y + 1,
         \A w \in D : w <= y => e[w] <= y
  PROVE  Numbers(From(D, v), e) = {n \in Numbers(D, e) : n > y}
<1>1. /\ D \in SUBSET Int /\ \A u \in D : u <= e[u] /\ e[u] \in Int
  BY WindowFinite, Near DEF Ranges
<1>2. \A n : n \in Numbers(D, e) <=> \E u \in D : n \in u .. e[u]
  BY DEF Numbers
<1>3. \A n : n \in Numbers(From(D, v), e) <=> \E u \in D : v <= u /\ n \in u .. e[u]
  BY DEF Numbers, From
<1>4. ASSUME NEW n, n \in Numbers(From(D, v), e)
      PROVE  n \in Numbers(D, e) /\ n > y
  <2>1. PICK u \in D : v <= u /\ n \in u .. e[u]
    BY <1>3, <1>4
  <2> QED  BY <1>1, <1>2, <2>1
<1>5. ASSUME NEW n \in Numbers(D, e), n > y
      PROVE  n \in Numbers(From(D, v), e)
  <2>1. PICK u \in D : n \in u .. e[u]
    BY <1>2
  <2>2. ~(u <= y)
    BY <1>1, <1>5, <2>1
  <2> QED  BY <1>1, <1>3, <2>1, <2>2
<1>6. PICK S : S = Numbers(From(D, v), e)
  OBVIOUS
<1>7. PICK T : T = Numbers(D, e)
  OBVIOUS
<1> QED  BY <1>4, <1>5, <1>6, <1>7

\* The cut of range p leaves the list to be cleared up to the numbers after y.
LEMMA CutClearing ==
  ASSUME NEW l, NEW a, NEW z, NEW D, NEW e, SndHolds(l, a, z, D, e),
         NEW y \in WindowFrom(a), NEW p \in D, p <= y, \A w \in D : w <= y => w <= p
  PROVE  \E S : \E f : Clearing(CutAfter(l, Place(SndSize, z, p), Wrap(y)), l.head, a, z, S, f,
                                y + 1, {n \in Numbers(D, e) : n > y})
<1>1. /\ SndHeld(l, a, z, D, e) /\ l \in SndLists /\ z \in Int /\ Ranges(a, D, e) /\ Apart(D, e)
      /\ Stored(SndSize, z, D, e, l.data1, l.data2) /\ Linked(SndSize, z, D, l.next)
      /\ HeadIs(SndSize, z, D, l.head) /\ l.length = Cardinality(Numbers(D, e))
      /\ l.last = Nil \/ \E x \in D : l.last = Place(SndSize, z, x)
  BY DEF SndHolds, SndHeld
<1>2. /\ a \in Int /\ D \in SUBSET WindowFrom(a) /\ D \in SUBSET Int /\ e \in [Int -> Int]
      /\ p \in WindowFrom(a) /\ p \in Int /\ y \in Int
      /\ p <= e[p] /\ e[p] \in WindowFrom(a) /\ e[p] \in Int
  BY <1>1, WindowFinite, Near DEF Ranges
<1>3. /\ Size(SndSize) /\ SndCells = 0 .. (SndSize - 1) /\ SndLinks = SndCells \cup {Nil}
      /\ SndSize \in Nat \ {0}
  BY <1>1, SndFields DEF SndLinks
<1>4. PICK c \in SndCells : c = Place(SndSize, z, p) /\ l.data1[c] = Wrap(p)
                            /\ l.data2[c] = Second(p, e[p]) /\ End(l, c) = Wrap(e[p])
  <2>1. Place(SndSize, z, p) \in 0 .. (SndSize - 1)
    BY <1>1, <1>2, <1>3, PlaceNear
  <2>2. End(l, Place(SndSize, z, p)) = Wrap(e[p])
    BY <1>1, <1>3, EndIs
  <2> QED  BY <1>1, <1>3, <2>1, <2>2 DEF Stored
<1>5. PICK v \in Int : v = y + 1
  BY <1>2
<1>6. PICK k \in SndLinks : k = l.next[c]
  BY <1>1, <1>4 DEF SndLists
<1>7. Seqcmp(Wrap(e[p]), Wrap(y)) <= 0 <=> e[p] <= y
  BY <1>2, WrapNear
<1>8. PICK N : N = {n \in Numbers(D, e) : n > y}
  OBVIOUS
<1>9. PICK T : T = {w \in D : p < w}
  OBVIOUS
<1>10. HeadIs(SndSize, z, T, k)
  BY <1>1, <1>2, <1>3, <1>4, <1>6, <1>9, AfterIsFirst
<1>11. CASE e[p] <= y
  <2>1. PICK s : s = [l EXCEPT !.head = k]
    OBVIOUS
  <2>2. CutAfter(l, c, Wrap(y)) = s
    BY <1>4, <1>6, <1>7, <1>11, <2>1 DEF CutAfter
  <2>3. /\ s \in SndLists /\ s.data1 = l.data1 /\ s.data2 = l.data2 /\ s.next = l.next
        /\ s.head = k /\ s.length = l.length /\ s.last = l.last
    BY <1>1, <2>1 DEF SndLists
  <2>4. SndHeld(s, a, z, D, e)
    BY <1>1, <2>3 DEF SndHeld
  <2>5. From(D, v) = T
    <3>1. \A w \in D : v <= w <=> p < w
      <4> TAKE w \in D
      <4>1. w \in Int /\ (w <= y => w <= p)
        BY <1>2
      <4> QED  BY <1>2, <1>5, <4>1
    <3> QED  BY <1>9, <3>1 DEF From
  <2>6. Numbers(From(D, v), e) = N
    <3>1. \A w \in D : w <= y => e[w] <= y
      <4> TAKE w \in D
      <4> HAVE w <= y
      <4>1. w \in Int /\ e[w] \in Int
        BY <1>2
      <4>2. CASE w = p
        BY <1>11, <4>2
      <4>3. CASE w # p
        <5>1. w < p
          BY <1>2, <4>1, <4>3
        <5>2. e[w] < p
          BY <1>1, <5>1 DEF Apart
        <5> QED  BY <1>2, <4>1, <5>2
      <4> QED  BY <4>2, <4>3
    <3>2. Ranges(a, D, e) /\ y \in Int
      BY <1>1, <1>2
    <3>3. Numbers(From(D, v), e) = {n \in Numbers(D, e) : n > y}
      BY ONLY <1>5, <3>1, <3>2, NumbersFrom
    <3> QED  BY <1>8, <3>3
  <2>7. Clearing(s, l.head, a, z, D, e, v, N)
    BY <1>1, <1>10, <2>3, <2>4, <2>5, <2>6 DEF Clearing
  <2> QED  BY <1>4, <1>5, <1>8, <2>2, <2>7
<1>12. CASE ~(e[p] <= y)
  <2>1. PICK f : Parted(e, p, y, v, f)
    <3>1. PICK f : f = [[e EXCEPT ![p] = y] EXCEPT ![v] = e[p]]
      OBVIOUS
    <3>2. p # v
      BY <1>2, <1>5
    <3>3. f \in [Int -> Int] /\ f[p] = y /\ f[v] = e[p] /\ \A u \in Int : u # p /\ u # v => f[u] = e[u]
      BY <1>2, <1>5, <3>1, <3>2
    <3> QED  BY <3>3 DEF Parted
  <2>2. PICK S : S = D \cup {v}
    OBVIOUS
  <2>3. /\ v \in WindowFrom(a) /\ v \notin D
        /\ Ranges(a, S, f) /\ Apart(S, f) /\ Numbers(S, f) = Numbers(D, e)
    <3>1. y < e[p] /\ p <= y /\ y \in Int /\ p \in D
      BY <1>2, <1>12
    <3>2. /\ v \in WindowFrom(a) /\ v \notin D
          /\ Ranges(a, D \cup {v}, f) /\ Apart(D \cup {v}, f)
          /\ Numbers(D \cup {v}, f) = Numbers(D, e)
      BY ONLY <1>1, <1>5, <2>1, <3>1, NumbersParted
    <3> QED  BY <2>2, <3>2
  <2>4. /\ f \in [Int -> Int] /\ f[p] = y /\ f[v] = e[p] /\ p < v /\ v <= e[p]
        /\ \A u \in D : u # p => f[u] = e[u]
    <3>1. \A u \in D : u \in Int /\ u # v
      BY <1>2, <2>3
    <3> QED  BY <1>2, <1>5, <1>12, <2>1, <3>1 DEF Parted
  <2>5. PICK r \in SndCells : r = Place(SndSize, z, v) /\ r # c /\ l.data2[r] = Nil
    <3>1. Place(SndSize, z, v) \in 0 .. (SndSize - 1)
          /\ (Place(SndSize, z, v) = Place(SndSize, z, p) <=> v = p)
      <4>1. a \in Int /\ Size(SndSize) /\ z \in Int /\ v \in WindowFrom(a) /\ p \in WindowFrom(a)
        BY <1>1, <1>2, <1>3, <2>3
      <4> QED  BY ONLY <4>1, PlaceNear
    <3>2. l.data2[Place(SndSize, z, v)] = Nil
      <4>1. PICK m, d1, d2 : m = SndSize /\ d1 = l.data1 /\ d2 = l.data2
        OBVIOUS
      <4>2. /\ Size(m) /\ z \in Int /\ Ranges(a, D, e) /\ v \in WindowFrom(a)
            /\ Stored(m, z, D, e, d1, d2) /\ v \notin D
        BY <1>1, <1>3, <2>3, <4>1
      <4>3. d2[Place(m, z, v)] = Nil
        BY ONLY <4>2, Found
      <4> QED  BY <4>1, <4>3
    <3>3. p # v
      BY <1>2, <2>4
    <3> QED  BY <1>3, <1>4, <3>1, <3>2, <3>3
  <2>6. (SndCell(l, Wrap(y)) + 1) % SndSize = r
    <3>1. PICK g \in D : FirstIn(D, g)
      BY <1>2, Neighbours
    <3>2. SndCell(l, Wrap(y)) = Place(SndSize, z, y)
      BY <3>1, SndCellIs
    <3>3. (Place(SndSize, z, y) + (v - y)) % SndSize = Place(SndSize, z, v)
      <4>1. a \in Int /\ Size(SndSize) /\ z \in Int /\ v \in WindowFrom(a)
        BY <1>1, <1>2, <1>3, <2>3
      <4> QED  BY ONLY <4>1, PlaceNear, y \in WindowFrom(a)
    <3>4. v - y = 1
      BY <1>2, <1>5
    <3> QED  BY <2>5, <3>2, <3>3, <3>4
  <2>7. PICK lo \in Int, hi \in Int : /\ lo = Wrap(v) /\ hi = Wrap(e[p]) /\ (hi = lo <=> e[p] = v)
                                      /\ Incseq(Wrap(y)) = lo /\ l.data2[c] = hi
    <3>1. Wrap(v) \in Int /\ Wrap(e[p]) \in Int /\ (Wrap(e[p]) = Wrap(v) <=> e[p] = v)
      <4>1. Wrap(v) \in Int
        BY <1>2, <2>3, WrapNear
      <4>2. Wrap(e[p]) \in Int /\ (Wrap(e[p]) = Wrap(v) <=> e[p] = v)
        BY <1>2, <2>3, WrapNear
      <4> QED  BY <4>1, <4>2
    <3>2. Incseq(Wrap(y)) = Wrap(v)
      BY <1>2, <1>5, WrapSteps
    <3>3. e[p] # p
      BY <1>2, <1>12
    <3> QED  BY <1>4, <3>1, <3>2, <3>3 DEF Second
  <2>8. PICK d \in Int : d = (IF l.data1[c] = Wrap(y) THEN Nil ELSE Wrap(y)) /\ d = Second(p, y)
    <3>1. (Wrap(p) = Wrap(y) <=> p = y)
      BY <1>2, WrapNear
    <3>2. Wrap(y) \in Int
      BY <1>2, WrapNear
    <3> QED  BY <1>4, <3>1, <3>2 DEF Second, Nil
  <2>9. PICK s : s = Halved(l, c, d, r, lo, hi, k)
    OBVIOUS
  <2>10. CutAfter(l, c, Wrap(y)) = s
    BY <1>4, <1>6, <1>7, <1>12, <2>6, <2>7, <2>8, <2>9 DEF CutAfter, Halved
  <2>11. /\ s \in SndLists
         /\ s.data1[r] = lo /\ s.data2[r] = IF hi = lo THEN Nil ELSE hi
         /\ \A i \in SndCells : i # r => s.data1[i] = l.data1[i]
         /\ s.data2[c] = d /\ \A i \in SndCells : i # r /\ i # c => s.data2[i] = l.data2[i]
         /\ s.next[r] = k /\ s.next[c] = r
         /\ \A i \in SndCells : i # r /\ i # c => s.next[i] = l.next[i]
         /\ s.head = r /\ s.length = l.length /\ s.last = l.last
    <3>1. /\ l \in SndLists /\ c \in SndCells /\ d \in Int /\ r \in SndCells /\ c # r
          /\ lo \in Int /\ hi \in Int /\ k \in SndLinks /\ l.data2[r] = Nil
      BY <1>1, <2>5
    <3>2. HalvedAs(l, c, d, r, lo, hi, k, s)
      BY ONLY <2>9, <3>1, HalvedFields
    <3> QED  BY <3>2 DEF HalvedAs
  <2>12. /\ s.data1 \in [SndCells -> Int] /\ s.data2 \in [SndCells -> Int]
         /\ s.next \in [SndCells -> SndCells \cup {Nil}]
         /\ l.data1 \in [SndCells -> Int] /\ l.data2 \in [SndCells -> Int]
    BY <1>1, <1>3, <2>11 DEF SndLists
  <2>13. Stored(SndSize, z, S, f, s.data1, s.data2)
    <3>1. PICK fm : fm = Ending(e, p, y)
      OBVIOUS
    <3>2. fm \in [Int -> Int] /\ fm[p] = y /\ \A u \in Int : u # p => fm[u] = e[u]
      BY ONLY <1>2, <3>1, EndingIs
    <3>3. PICK mid \in [SndCells -> Int] : mid[c] = d /\ \A i \in SndCells : i # c => mid[i] = l.data2[i]
      <4>1. [l.data2 EXCEPT ![c] = d] \in [SndCells -> Int]
        BY <2>12
      <4> QED  BY <2>12, <4>1
    <3>4. Ranges(a, D, fm)
      <4>1. y \in WindowFrom(a)
        OBVIOUS
      <4>2. \A u \in D : u <= fm[u] /\ fm[u] \in WindowFrom(a)
        BY <1>1, <1>2, <3>2, <4>1 DEF Ranges
      <4> QED  BY <1>2, <3>2, <4>2 DEF Ranges
    <3>5. Stored(SndSize, z, D, fm, l.data1, mid)
      <4>1. PutIn(SndSize, z, p, fm[p], l.data1, l.data2, l.data1, mid)
        BY <1>3, <1>4, <2>8, <2>12, <3>2, <3>3 DEF PutIn, ElsewhereSame
      <4>2. Agree(D \ {p}, fm, e)
        BY <1>2, <3>2 DEF Agree
      <4>3. /\ Size(SndSize) /\ z \in Int /\ Ranges(a, D, e) /\ p \in WindowFrom(a)
            /\ Stored(SndSize, z, D, e, l.data1, l.data2)
        BY <1>1, <1>2, <1>3
      <4>4. Stored(SndSize, z, D \cup {p}, fm, l.data1, mid)
        BY ONLY <4>1, <4>2, <4>3, StoredPut
      <4>5. D \cup {p} = D
        OBVIOUS
      <4> QED  BY <4>4, <4>5
    <3>6. PutIn(SndSize, z, v, f[v], l.data1, mid, s.data1, s.data2)
      <4>1. s.data2[r] = Second(v, f[v])
        BY <2>4, <2>7, <2>11 DEF Second
      <4>2. \A i \in SndCells : i # r => s.data1[i] = l.data1[i] /\ s.data2[i] = mid[i]
        BY <2>5, <2>11, <3>3
      <4> QED  BY <1>3, <2>5, <2>7, <2>11, <2>12, <4>1, <4>2 DEF PutIn, ElsewhereSame
    <3>7. Agree(D \ {v}, f, fm)
      BY <1>2, <2>4, <3>2 DEF Agree
    <3>8. Size(SndSize) /\ z \in Int /\ v \in WindowFrom(a)
      BY <1>1, <1>3, <2>3
    <3> QED  BY ONLY <2>2, <3>4, <3>5, <3>6, <3>7, <3>8, StoredPut
  <2>14. Linked(SndSize, z, S, s.next)
    <3>1. PriorIn(D, p, v)
      BY <1>2, <1>5, <2>3, <2>4 DEF PriorIn
    <3>2. LinksSame(SndSize, {Place(SndSize, z, v), Place(SndSize, z, p)}, l.next, s.next)
      BY <1>3, <1>4, <2>5, <2>11, <2>12 DEF LinksSame
    <3>3. /\ s.next[Place(SndSize, z, p)] = Place(SndSize, z, v)
          /\ s.next[Place(SndSize, z, v)] = l.next[Place(SndSize, z, p)]
      BY <1>4, <1>6, <2>5, <2>11
    <3>4. /\ a \in Int /\ Size(SndSize) /\ z \in Int /\ D \in SUBSET WindowFrom(a)
          /\ Linked(SndSize, z, D, l.next) /\ v \in WindowFrom(a) /\ v \notin D
      BY <1>1, <1>2, <1>3, <2>3
    <3> QED  BY ONLY <2>2, <3>1, <3>2, <3>3, <3>4, LinkedAfter
  <2>15. SndHeld(s, a, z, S, f)
    <3>1. s.last = Nil \/ \E x \in S : s.last = Place(SndSize, z, x)
      BY <1>1, <2>2, <2>11
    <3> QED  BY <1>1, <2>3, <2>11, <2>13, <2>14, <3>1 DEF SndHeld
  <2>16. From(S, v) = {v} \cup T
    <3>1. \A w \in D : v <= w <=> p < w
      <4> TAKE w \in D
      <4>1. w \in Int /\ (w <= y => w <= p)
        BY <1>2
      <4> QED  BY <1>2, <1>5, <4>1
    <3>2. \A w : w \in From(S, v) <=> w \in {v} \cup T
      BY <1>5, <1>9, <2>2, <3>1 DEF From
    <3> QED  BY <3>2
  <2>17. HeadIs(SndSize, z, From(S, v), s.head)
    <3>1. \A w \in From(S, v) : FirstIn(From(S, v), w) => w = v
      <4>1. v \in From(S, v) /\ From(S, v) \in SUBSET Int /\ \A w \in From(S, v) : v <= w
        <5>1. v \in S /\ v \in Int /\ v <= v /\ S \in SUBSET Int
          BY <1>2, <1>5, <2>2
        <5> QED  BY <5>1 DEF From
      <4> QED  BY <4>1 DEF FirstIn
    <3>2. From(S, v) # {}
      BY <2>16
    <3> QED  BY <2>5, <2>11, <3>1, <3>2 DEF HeadIs
  <2>18. HeadIs(SndSize, z, S, l.head)
    <3>1. \A w \in S : FirstIn(S, w) => w \in D /\ FirstIn(D, w)
      BY <1>2, <2>2, <2>4 DEF FirstIn
    <3> QED  BY <1>1, <2>2, <3>1 DEF HeadIs
  <2>19. Numbers(From(S, v), f) = N
    <3>1. \A w \in S : w <= y => f[w] <= y
      <4> TAKE w \in S
      <4> HAVE w <= y
      <4>1. w \in D /\ w \in Int
        BY <1>2, <1>5, <2>2
      <4>2. CASE w = p
        BY <1>2, <2>4, <4>2
      <4>3. CASE w # p
        <5>1. w < p
          BY <1>2, <4>1, <4>3
        <5>2. e[w] < p /\ f[w] = e[w] /\ e[w] \in Int
          BY <1>1, <1>2, <2>4, <4>1, <5>1 DEF Apart
        <5> QED  BY <1>2, <5>2
      <4> QED  BY <4>2, <4>3
    <3> QED  BY <1>2, <1>5, <1>8, <2>3, <3>1, NumbersFrom
  <2>20. Clearing(s, l.head, a, z, S, f, v, N)
    BY <1>1, <2>3, <2>11, <2>15, <2>17, <2>18, <2>19 DEF Clearing
  <2> QED  BY <1>4, <1>5, <1>8, <2>10, <2>20
<1> QED  BY <1>11, <1>12

\* remove takes off the numbers up to y.
LEMMA SndRemoveHolds ==
  ASSUME NEW l, NEW a, NEW z, NEW D, NEW e, SndHolds(l, a, z, D, e), NEW y \in WindowFrom(a)
  PROVE  \E S : \E f : /\ SndHolds(SndRemove(l, Wrap(y)), a, z, S, f)
                       /\ Numbers(S, f) = {n \in Numbers(D, e) : n > y}
<1>1. /\ SndHeld(l, a, z, D, e) /\ l \in SndLists /\ z \in Int /\ Ranges(a, D, e) /\ Apart(D, e)
      /\ Stored(SndSize, z, D, e, l.data1, l.data2)
      /\ HeadIs(SndSize, z, D, l.head) /\ l.length = Cardinality(Numbers(D, e))
  BY DEF SndHolds, SndHeld
<1>2. /\ a \in Int /\ D \in SUBSET WindowFrom(a) /\ D \in SUBSET Int /\ e \in [Int -> Int]
      /\ y \in Int
  BY <1>1, WindowFinite, Near DEF Ranges
<1>3. /\ Size(SndSize) /\ SndCells = 0 .. (SndSize - 1) /\ SndLinks = SndCells \cup {Nil}
  BY <1>1, SndFields DEF SndLinks
<1>4. \A n : n \in Numbers(D, e) <=> \E u \in D : n \in u .. e[u]
  BY DEF Numbers
<1>5. CASE D = {}
  <2>1. l.length = 0 /\ Numbers(D, e) = {}
    BY <1>1, <1>5, NoNumbers
  <2>2. SndRemove(l, Wrap(y)) = l
    BY <2>1 DEF SndRemove
  <2>3. Numbers(D, e) = {n \in Numbers(D, e) : n > y}
    BY <2>1
  <2> QED  BY <2>2, <2>3
<1>6. CASE D # {}
  <2>1. l.length # 0
    BY <1>1, <1>6, NoNumbers
  <2>2. PICK g \in D : FirstIn(D, g)
    BY <1>2, <1>6, Neighbours
  <2>3. g \in Int /\ g \in WindowFrom(a) /\ \A w \in D : g <= w
    BY <1>2, <2>2 DEF FirstIn
  <2>4. /\ l.head = Place(SndSize, z, g) /\ l.data1[l.head] = Wrap(g)
        /\ SndCell(l, Wrap(y)) = Place(SndSize, z, y)
        /\ Seqoff(l.data1[l.head], Wrap(y)) = y - g
        /\ l.data1[l.head] = Wrap(y) <=> y = g
    BY <2>2, SndCellIs
  <2>5. \A n \in Numbers(D, e) : g <= n /\ n \in Int
    BY <1>2, <1>4, <2>3
  <2>6. CASE y < g
    <3>1. SndRemove(l, Wrap(y)) = l
      BY <1>2, <2>3, <2>4, <2>6 DEF SndRemove
    <3>2. Numbers(D, e) = {n \in Numbers(D, e) : n > y}
      BY <1>2, <2>3, <2>5, <2>6
    <3> QED  BY <3>1, <3>2
  <2>7. CASE y = g
    <3>1. SndRemove(l, Wrap(y)) = WithoutFirst(l)
      <4>1. ~(y - g < 0)
        BY <2>3, <2>7
      <4> QED  BY <2>1, <2>4, <2>7, <4>1 DEF SndRemove
    <3>2. Numbers(D, e) \ {g} = {n \in Numbers(D, e) : n > y}
      BY <2>3, <2>5, <2>7
    <3>3. PICK S, f : /\ SndHolds(WithoutFirst(l), a, z, S, f)
                      /\ Numbers(S, f) = Numbers(D, e) \ {g}
      BY <2>2, WithoutFirstHolds
    <3> QED  BY <3>1, <3>2, <3>3
  <2>8. CASE y > g
    <3>1. PICK p \in D : /\ p <= y /\ \A w \in D : w <= y => w <= p
                         /\ SndRemove(l, Wrap(y))
                              = Cleared(CutAfter(l, Place(SndSize, z, p), Wrap(y)), l.head)
      <4>1. l.data1[Place(SndSize, z, y)] = Wrap(y) <=> y \in D
        BY <1>1, <1>3, Found
      <4>2. SndRemove(l, Wrap(y))
              = LET c == IF l.data1[SndCell(l, Wrap(y))] = Wrap(y) THEN SndCell(l, Wrap(y))
                         ELSE Forward(l, l.head, Wrap(y))
                IN  Cleared(CutAfter(l, c, Wrap(y)), l.head)
        <5>1. ~(y - g < 0) /\ y # g
          BY <1>2, <2>3, <2>8
        <5> QED  BY <2>1, <2>4, <5>1 DEF SndRemove
      <4>3. CASE y \in D
        <5>1. SndRemove(l, Wrap(y))
                = Cleared(CutAfter(l, Place(SndSize, z, y), Wrap(y)), l.head)
          BY <2>4, <4>1, <4>2, <4>3
        <5>2. y <= y /\ \A w \in D : w <= y => w <= y
          BY <1>2
        <5> QED  BY <4>3, <5>1, <5>2
      <4>4. CASE y \notin D
        <5>1. PICK p \in D : /\ PriorIn(D, p, y)
                             /\ Forward(l, Place(SndSize, z, g), Wrap(y)) = Place(SndSize, z, p)
          BY <1>1, <2>8, SndForward
        <5>2. p <= y /\ \A w \in D : w <= y => w <= p
          BY <1>2, <4>4, <5>1 DEF PriorIn
        <5>3. SndRemove(l, Wrap(y))
                = Cleared(CutAfter(l, Place(SndSize, z, p), Wrap(y)), l.head)
          BY <2>4, <4>1, <4>2, <4>4, <5>1
        <5> QED  BY <5>2, <5>3
      <4> QED  BY <4>3, <4>4
    <3>2. PICK s : s = CutAfter(l, Place(SndSize, z, p), Wrap(y))
      OBVIOUS
    <3>3. PICK N : N = {n \in Numbers(D, e) : n > y}
      OBVIOUS
    <3>4. PICK S, f, t : Clearing(s, l.head, a, z, S, f, t, N)
      BY <3>1, <3>2, <3>3, CutClearing
    <3>5. PICK c \in SndLinks : c = l.head
      BY <1>1 DEF SndLists
    <3>6. PICK T : SndHolds(Cleared(s, c), a, z, T, f) /\ Numbers(T, f) = N
      BY <3>4, <3>5, ClearedHolds
    <3> QED  BY <3>1, <3>2, <3>3, <3>5, <3>6
  <2> QED  BY <1>2, <2>3, <2>6, <2>7, <2>8
<1> QED  BY <1>5, <1>6

-----------------------------------------------------------------------------
(* The arrays hold the sequence numbers of the ranges' numbers.            *)

\* The occupied cells are those of the ranges, and what is in the list are
\* the sequence numbers of their numbers.
LEMMA CoveredIs ==
  ASSUME NEW l, NEW a, NEW m, Size(m), NEW z \in Int, NEW D, NEW e, Ranges(a, D, e),
         Stored(m, z, D, e, l.data1, l.data2)
  PROVE  /\ Occupied(l) = {Place(m, z, x) : x \in D}
         /\ Covered(l) = {Wrap(n) : n \in Numbers(D, e)}
<1>1. /\ a \in Int /\ D \in SUBSET WindowFrom(a) /\ D \in SUBSET Int /\ e \in [Int -> Int]
      /\ \A w \in D : w <= e[w] /\ e[w] \in WindowFrom(a) /\ e[w] \in Int
      /\ DOMAIN l.data1 = 0 .. (m - 1)
  BY WindowFinite, Near DEF Ranges, Stored
<1>2. \A x \in D : /\ Place(m, z, x) \in 0 .. (m - 1)
                   /\ l.data1[Place(m, z, x)] = Wrap(x) /\ Wrap(x) # Nil
  <2> TAKE x \in D
  <2>1. Place(m, z, x) \in 0 .. (m - 1)
    BY <1>1, PlaceNear
  <2>2. Wrap(x) # Nil
    BY <1>1, WrapNear
  <2> QED  BY <2>1, <2>2 DEF Stored
<1>3. \A c \in 0 .. (m - 1) : l.data1[c] # Nil => \E x \in D : c = Place(m, z, x)
  BY DEF Stored
<1>4. Occupied(l) = {Place(m, z, x) : x \in D}
  BY <1>1, <1>2, <1>3 DEF Occupied
<1>5. ASSUME NEW x \in D
      PROVE  RangeOf(l, Place(m, z, x)) = {Wrap(n) : n \in x .. e[x]}
  <2>1. l.data1[Place(m, z, x)] = Wrap(x) /\ End(l, Place(m, z, x)) = Wrap(e[x])
    BY EndIs
  <2>2. Seqlen(Wrap(x), Wrap(e[x])) = e[x] - x + 1
    BY <1>1, WrapNear
  <2>3. PICK d \in Nat : d = e[x] - x /\ d <= SeqNoTH
    <3>1. x \in WindowFrom(a) /\ e[x] \in WindowFrom(a) /\ x <= e[x]
      BY <1>1
    <3>2. x \in Int /\ e[x] \in Int /\ e[x] - x < SeqNoTH
      BY <1>1, <3>1, Near
    <3> QED  BY <3>1, <3>2, SeqNoAssumption
  <2>4. \A k \in 0 .. d : IncseqBy(Wrap(x), k) = Wrap(x + k)
    <3>1. \A k \in 0 .. SeqNoTH : IncseqBy(Wrap(x), k) = Wrap(x + k)
      BY <1>1, WrapSteps
    <3>2. \A k \in 0 .. d : k \in 0 .. SeqNoTH
      BY <2>3, SeqNoAssumption
    <3> QED  BY <3>1, <3>2
  <2>5. RangeOf(l, Place(m, z, x)) = {IncseqBy(Wrap(x), k) : k \in 0 .. d}
    <3>1. PICK k \in Int : k = e[x] - x + 1
      BY <1>1
    <3>2. k - 1 = d
      BY <1>1, <2>3, <3>1
    <3> QED  BY <2>1, <2>2, <3>1, <3>2 DEF RangeOf
  <2>6. x \in Int /\ e[x] = x + d
    BY <1>1, <2>3
  <2>7. \A k \in 0 .. d : x + k \in x .. e[x]
    BY <2>3, <2>6
  <2>8. \A n \in x .. e[x] : n - x \in 0 .. d /\ x + (n - x) = n
    BY <2>3, <2>6
  <2> QED  BY <2>4, <2>5, <2>7, <2>8
<1>6. \A n : n \in Numbers(D, e) <=> \E x \in D : n \in x .. e[x]
  BY DEF Numbers
<1>7. \A s : s \in Covered(l) <=> \E x \in D : s \in RangeOf(l, Place(m, z, x))
  BY <1>4 DEF Covered
<1>8. \A s : s \in Covered(l) <=> \E x \in D : \E n \in x .. e[x] : s = Wrap(n)
  BY <1>5, <1>7
<1>9. \A s : s \in Covered(l) <=> \E n \in Numbers(D, e) : s = Wrap(n)
  BY <1>6, <1>8
<1>10. Covered(l) = {Wrap(n) : n \in Numbers(D, e)}
  BY <1>9
<1> QED  BY <1>4, <1>10

\* There are as many of them.
LEMMA CountWrapped ==
  ASSUME NEW a \in Int, NEW N \in SUBSET WindowFrom(a)
  PROVE  /\ IsFiniteSet({Wrap(n) : n \in N})
         /\ Cardinality({Wrap(n) : n \in N}) = Cardinality(N)
<1> DEFINE T == {Wrap(n) : n \in N}
           f == [n \in N |-> Wrap(n)]
<1>1. IsFiniteSet(N)
  BY WindowFinite
<1>2. \A x, y \in N : Wrap(x) = Wrap(y) => x = y
  BY WrapNear
<1>3. f \in Injection(N, T) /\ f \in Surjection(N, T)
  BY <1>2 DEF Injection, Surjection, IsInjective
<1>4. f \in Bijection(N, T)
  BY <1>3 DEF Bijection
<1>5. ExistsBijection(N, T)
  BY <1>4 DEF ExistsBijection
<1> HIDE DEF T
<1>6. IsFiniteSet(T) /\ Cardinality(T) = Cardinality(N)
  BY ONLY <1>1, <1>5, FS_Bijection
<1> QED  BY <1>6 DEF T

\* A list that holds ranges counts them, finds each and keeps them in order.
LEMMA SndWellFormed ==
  ASSUME NEW l, NEW a, NEW z, NEW D, NEW e, SndHolds(l, a, z, D, e)
  PROVE  LengthExact(l) /\ SndNodesInPlace(l) /\ CachedPositionLive(l)
<1> DEFINE P(w) == Place(SndSize, z, w)
<1>1. /\ SndHeld(l, a, z, D, e) /\ l \in SndLists /\ z \in Int /\ Ranges(a, D, e) /\ Apart(D, e)
      /\ Stored(SndSize, z, D, e, l.data1, l.data2) /\ Linked(SndSize, z, D, l.next)
      /\ HeadIs(SndSize, z, D, l.head) /\ l.length = Cardinality(Numbers(D, e))
      /\ l.last = Nil \/ \E x \in D : l.last = P(x)
  BY DEF SndHolds, SndHeld
<1>2. /\ a \in Int /\ D \in SUBSET WindowFrom(a) /\ D \in SUBSET Int /\ e \in [Int -> Int]
      /\ \A w \in D : w <= e[w] /\ e[w] \in WindowFrom(a) /\ e[w] \in Int
  BY <1>1, WindowFinite, Near DEF Ranges
<1>3. Size(SndSize)
  BY <1>1, SndFields
<1>4. /\ Occupied(l) = {P(x) : x \in D}
      /\ Covered(l) = {Wrap(n) : n \in Numbers(D, e)}
  BY <1>1, <1>3, CoveredIs
<1>5. LengthExact(l)
  <2>1. PICK N : N = Numbers(D, e)
    OBVIOUS
  <2>2. N \in SUBSET WindowFrom(a)
    BY <1>1, <2>1, NumbersInWindow
  <2>3. Cardinality({Wrap(n) : n \in N}) = Cardinality(N)
    BY <1>2, <2>2, CountWrapped
  <2> QED  BY <1>1, <1>4, <2>1, <2>3 DEF LengthExact
<1>6. CachedPositionLive(l)
  BY <1>1, <1>4 DEF CachedPositionLive
<1>7. (l.head = Nil \/ l.length = 0) <=> Occupied(l) = {}
  <2>1. l.length = 0 <=> D = {}
    BY <1>1, NoNumbers
  <2>2. Occupied(l) = {} <=> D = {}
    BY <1>4
  <2>3. D # {} => l.head # Nil
    <3>1. ASSUME D # {} PROVE l.head # Nil
      <4>1. PICK g \in D : FirstIn(D, g)
        BY <1>2, <3>1, Neighbours
      <4>2. P(g) # Nil
        BY <1>1, <1>2, <1>3, PlaceNear
      <4> QED  BY <1>1, <4>1, <4>2 DEF HeadIs
    <3> QED  BY <3>1
  <2> QED  BY <2>1, <2>2, <2>3
<1>8. ASSUME NEW x \in D
      PROVE  /\ SndCell(l, l.data1[P(x)]) = P(x)
             /\ LET later == {d \in Occupied(l) : Seqcmp(l.data1[d], l.data1[P(x)]) > 0}
                IN  IF later = {} THEN l.next[P(x)] = Nil
                    ELSE /\ l.next[P(x)] \in later
                         /\ \A d \in later : Seqcmp(l.data1[l.next[P(x)]], l.data1[d]) <= 0
                         /\ Seqcmp(End(l, P(x)), l.data1[l.next[P(x)]]) < 0
  <2> DEFINE later == {d \in Occupied(l) : Seqcmp(l.data1[d], l.data1[P(x)]) > 0}
  <2>1. \A w \in D : l.data1[P(w)] = Wrap(w)
    BY <1>1 DEF Stored
  <2>2. SndCell(l, l.data1[P(x)]) = P(x)
    <3>1. PICK g \in D : FirstIn(D, g)
      BY <1>2, Neighbours
    <3> QED  BY <1>2, <2>1, <3>1, SndCellIs
  <2>3. \A v, w \in D : /\ Seqcmp(Wrap(v), Wrap(w)) > 0 <=> v > w
                        /\ Seqcmp(Wrap(v), Wrap(w)) <= 0 <=> v <= w
    BY <1>2, WrapNear
  <2>4. \A d : d \in later <=> \E w \in D : d = P(w) /\ w > x
    BY <1>4, <2>1, <2>3
  <2> HIDE DEF later
  <2>5. CASE \A w \in D : w <= x
    <3>1. later = {}
      BY <1>2, <2>4, <2>5
    <3>2. l.next[P(x)] = Nil
      BY <1>1, <2>5 DEF Linked
    <3> QED  BY <2>2, <3>1, <3>2 DEF later
  <2>6. CASE ~\A w \in D : w <= x
    <3>1. PICK y \in D : NextIn(D, x, y)
      BY <1>2, <2>6, Neighbours
    <3>2. l.next[P(x)] = P(y) /\ x < y /\ \A w \in D : x < w => y <= w
      BY <1>1, <3>1 DEF Linked, NextIn
    <3>3. P(y) \in later
      BY <1>2, <2>4, <3>2
    <3>4. \A d \in later : Seqcmp(l.data1[P(y)], l.data1[d]) <= 0
      <4>1. \A w \in D : w > x => Seqcmp(l.data1[P(y)], l.data1[P(w)]) <= 0
        BY <1>2, <2>1, <2>3, <3>2
      <4> QED  BY <2>4, <4>1
    <3>5. Seqcmp(End(l, P(x)), l.data1[P(y)]) < 0
      <4>1. End(l, P(x)) = Wrap(e[x])
        BY <1>1, <1>3, EndIs
      <4>2. e[x] < y
        BY <1>1, <3>2 DEF Apart
      <4>3. Seqcmp(Wrap(e[x]), Wrap(y)) < 0
        BY <1>2, <4>2, WrapNear
      <4> QED  BY <2>1, <4>1, <4>3
    <3> QED  BY <2>2, <3>2, <3>3, <3>4, <3>5 DEF later
  <2> QED  BY <2>5, <2>6
<1>9. SndNodesInPlace(l)
  <2>1. \A c \in Occupied(l) : \E x \in D : c = P(x)
    BY <1>4
  <2> QED  BY <1>7, <1>8, <2>1 DEF SndNodesInPlace
<1> QED  BY <1>5, <1>6, <1>9

-----------------------------------------------------------------------------
(* The sender's list as a window moves.                                    *)

\* The list holds numbers out of the k from the first one, f, on.
SndState(f, k, l, a, z, D, e) ==
    /\ SndHolds(l, a, z, D, e) /\ Wrap(a) = f /\ k \in 0 .. Window
    /\ \A n \in Numbers(D, e) : a <= n /\ n < a + k

\* A list with no number holds one from any first one on.
LEMMA EmptyHolds ==
  ASSUME NEW a \in Int
  PROVE  SndHolds(EmptySndList, a, 0, {}, [i \in Int |-> i])
<1>1. EmptySndList \in SndLists
  BY DEF EmptySndList, SndLists, SndLinks, Nil
<1>2. SndCells = 0 .. (SndSize - 1)
  BY DEF SndCells
<1>3. Stored(SndSize, 0, {}, [i \in Int |-> i], EmptySndList.data1, EmptySndList.data2)
  BY <1>2 DEF EmptySndList, Stored, Nil
<1>4. Linked(SndSize, 0, {}, EmptySndList.next)
  BY <1>2 DEF EmptySndList, Linked, Nil
<1>5. Ranges(a, {}, [i \in Int |-> i]) /\ Apart({}, [i \in Int |-> i])
  BY DEF Ranges, Apart
<1>6. EmptySndList.last = Nil /\ EmptySndList.head = Nil /\ EmptySndList.length = 0
  BY DEF EmptySndList
<1>7. Cardinality(Numbers({}, [i \in Int |-> i])) = 0
  BY <1>5, NoNumbers
<1> QED  BY <1>1, <1>3, <1>4, <1>5, <1>6, <1>7 DEF SndHolds, SndHeld, HeadIs

\* What it holds does not depend on where the window starts.
LEMMA Rebased ==
  ASSUME NEW l, NEW a, NEW z, NEW D, NEW e, SndHolds(l, a, z, D, e),
         NEW b \in Int, Numbers(D, e) \in SUBSET WindowFrom(b)
  PROVE  SndHolds(l, b, z, D, e)
<1>1. /\ D \in SUBSET Int /\ e \in [Int -> Int]
      /\ \A w \in D : w <= e[w] /\ e[w] \in Int /\ w \in Int
  <2>1. Ranges(a, D, e)
    BY DEF SndHolds, SndHeld
  <2> QED  BY <2>1, WindowFinite, Near DEF Ranges
<1>2. \A w \in D : w \in Numbers(D, e) /\ e[w] \in Numbers(D, e)
  <2>1. \A w \in D : w \in w .. e[w] /\ e[w] \in w .. e[w]
    BY <1>1
  <2> QED  BY <2>1 DEF Numbers
<1>3. Ranges(b, D, e)
  BY <1>1, <1>2 DEF Ranges
<1> QED  BY <1>3 DEF SndHolds, SndHeld

\* The sequence numbers of a stretch of the window.
LEMMA SpanIs ==
  ASSUME NEW a \in Int, NEW f, f = Wrap(a), NEW i \in 0 .. Window, NEW j \in -1 .. Window
  PROVE  /\ Number(f, i) = Wrap(a + i)
         /\ Span(f, i, j) = {Wrap(n) : n \in (a + i) .. (a + j)}
<1>1. \A n \in 0 .. Window : Number(f, n) = Wrap(a + n)
  <2>1. \A n \in 0 .. Window : n \in 0 .. SeqNoTH
    BY WindowAssumption, SeqNoAssumption
  <2> QED  BY <2>1, WrapSteps DEF Number
<1>2. i .. j \in SUBSET (0 .. Window)
  BY WindowAssumption
<1>3. \A n \in i .. j : Number(f, n) = Wrap(a + n) /\ a + n \in (a + i) .. (a + j)
  BY <1>1, <1>2, WindowAssumption
<1>4. \A n \in (a + i) .. (a + j) : n - a \in i .. j /\ a + (n - a) = n
  BY WindowAssumption
<1>5. Span(f, i, j) = {Wrap(n) : n \in (a + i) .. (a + j)}
  <2>1. \A s : s \in Span(f, i, j) <=> \E n \in i .. j : s = Number(f, n)
    BY DEF Span
  <2>2. \A s \in Span(f, i, j) : s \in {Wrap(n) : n \in (a + i) .. (a + j)}
    BY <1>3, <2>1
  <2>3. ASSUME NEW n \in (a + i) .. (a + j)
        PROVE  Wrap(n) \in Span(f, i, j)
    <3>1. PICK k \in i .. j : k = n - a /\ a + k = n
      BY <1>4
    <3> QED  BY <1>3, <2>1, <3>1
  <2> QED  BY <2>2, <2>3
<1> QED  BY <1>1, <1>5

\* Numbers of one window have different sequence numbers.
LEMMA WrappedOnce ==
  ASSUME NEW a \in Int
  PROVE  \A x, y \in WindowFrom(a) : Wrap(x) = Wrap(y) => x = y
BY WrapNear

\* What a state of the list says.
LEMMA SndStateSays ==
  ASSUME NEW f, NEW k, NEW l, NEW a, NEW z, NEW D, NEW e, SndState(f, k, l, a, z, D, e)
  PROVE  /\ a \in Int /\ f = Wrap(a) /\ k \in 0 .. Window /\ l \in SndLists /\ z \in Int
         /\ Ranges(a, D, e)
         /\ Numbers(D, e) \in SUBSET WindowFrom(a)
         /\ Covered(l) = {Wrap(n) : n \in Numbers(D, e)}
         /\ \A n \in Numbers(D, e) : n \in Int
         /\ LengthExact(l) /\ SndNodesInPlace(l) /\ CachedPositionLive(l)
<1>1. /\ SndHolds(l, a, z, D, e) /\ Ranges(a, D, e) /\ l \in SndLists /\ z \in Int /\ a \in Int
      /\ Stored(SndSize, z, D, e, l.data1, l.data2)
  BY DEF SndState, SndHolds, SndHeld, Ranges
<1>2. Size(SndSize)
  BY <1>1, SndFields
<1>3. Covered(l) = {Wrap(n) : n \in Numbers(D, e)}
  BY <1>1, <1>2, CoveredIs
<1>4. PICK N : N = Numbers(D, e)
  OBVIOUS
<1>5. N \in SUBSET WindowFrom(a)
  BY <1>1, <1>4, NumbersInWindow
<1>6. \A n \in N : n \in Int
  BY <1>1, <1>5, WindowFinite
<1>7. LengthExact(l) /\ SndNodesInPlace(l) /\ CachedPositionLive(l)
  BY <1>1, SndWellFormed
<1> QED  BY <1>1, <1>3, <1>4, <1>5, <1>6, <1>7 DEF SndState

\* The window of a new connection.
LEMMA SndStateFirst ==
  ASSUME NEW f \in SeqNos
  PROVE  /\ SndState(f, 0, EmptySndList, f, 0, {}, [i \in Int |-> i])
         /\ Covered(EmptySndList) = {}
<1>1. f \in Int /\ Wrap(f) = f
  BY WrapSelf
<1>2. SndHolds(EmptySndList, f, 0, {}, [i \in Int |-> i])
  BY <1>1, EmptyHolds
<1>3. Numbers({}, [i \in Int |-> i]) = {}
  BY DEF Numbers
<1>4. 0 \in 0 .. Window
  BY WindowAssumption
<1>5. SndState(f, 0, EmptySndList, f, 0, {}, [i \in Int |-> i])
  BY <1>1, <1>2, <1>3, <1>4 DEF SndState
<1>6. Covered(EmptySndList) = {Wrap(n) : n \in Numbers({}, [i \in Int |-> i])}
  BY <1>5, SndStateSays
<1> QED  BY <1>3, <1>5, <1>6

\* One more number in the window.
LEMMA SndStateGrows ==
  ASSUME NEW f, NEW k, NEW l, NEW a, NEW z, NEW D, NEW e, SndState(f, k, l, a, z, D, e),
         k < Window
  PROVE  SndState(f, k + 1, l, a, z, D, e)
<1>1. a \in Int /\ k \in 0 .. Window /\ \A n \in Numbers(D, e) : n \in Int
  BY SndStateSays
<1>2. k + 1 \in 0 .. Window
  BY <1>1, WindowAssumption
<1>3. \A n \in Numbers(D, e) : a <= n /\ n < a + k
  BY DEF SndState
<1>4. \A n \in Numbers(D, e) : a <= n /\ n < a + (k + 1)
  BY <1>1, <1>3
<1> QED  BY <1>2, <1>4 DEF SndState

\* Or several.
LEMMA SndStateWider ==
  ASSUME NEW f, NEW k, NEW l, NEW a, NEW z, NEW D, NEW e, SndState(f, k, l, a, z, D, e),
         NEW w \in 0 .. Window, k <= w
  PROVE  SndState(f, w, l, a, z, D, e)
<1>1. a \in Int /\ k \in 0 .. Window /\ \A n \in Numbers(D, e) : n \in Int
  BY SndStateSays
<1>2. w \in Int
  OBVIOUS
<1>3. \A n \in Numbers(D, e) : a <= n /\ n < a + k
  BY DEF SndState
<1>4. \A n \in Numbers(D, e) : a <= n /\ n < a + w
  BY <1>1, <1>2, <1>3
<1> QED  BY <1>4 DEF SndState

\* A stretch of it is reported lost.
LEMMA SndStateInsert ==
  ASSUME NEW f, NEW k, NEW l, NEW a, NEW z, NEW D, NEW e, SndState(f, k, l, a, z, D, e),
         NEW i \in Nat, NEW j \in Nat, i <= j, j < k,
         NEW b, b = SndInsert(l, Number(f, i), Number(f, j))
  PROVE  /\ \E y, S, g : SndState(f, k, b, a, y, S, g)
         /\ Covered(b) = Covered(l) \cup Span(f, i, j)
<1>1. /\ a \in Int /\ f = Wrap(a) /\ k \in 0 .. Window /\ SndHolds(l, a, z, D, e)
      /\ Covered(l) = {Wrap(n) : n \in Numbers(D, e)}
      /\ \A n \in Numbers(D, e) : n \in Int /\ a <= n /\ n < a + k
      /\ Numbers(D, e) \in SUBSET WindowFrom(a)
  BY SndStateSays DEF SndState
<1>2. i \in 0 .. Window /\ j \in 0 .. Window /\ j \in -1 .. Window /\ Window \in Nat /\ j < Window
  BY <1>1, WindowAssumption
<1>3. PICK x \in Int, h \in Int : x = a + i /\ h = a + j
  BY <1>1
<1>4. x \in WindowFrom(a) /\ h \in WindowFrom(a) /\ x <= h
  BY <1>1, <1>2, <1>3 DEF WindowFrom
<1>5. /\ Number(f, i) = Wrap(x) /\ Number(f, j) = Wrap(h)
      /\ Span(f, i, j) = {Wrap(n) : n \in x .. h}
  <2>1. Number(f, i) = Wrap(a + i) /\ Span(f, i, j) = {Wrap(n) : n \in (a + i) .. (a + j)}
    BY ONLY <1>1, <1>2, SpanIs
  <2>2. Number(f, j) = Wrap(a + j)
    BY ONLY <1>1, <1>2, SpanIs
  <2> QED  BY <1>3, <2>1, <2>2
<1>6. PICK y \in Int : \E S : \E g : /\ SndHolds(b, a, y, S, g)
                                     /\ Numbers(S, g) = Numbers(D, e) \cup (x .. h)
  BY <1>1, <1>4, <1>5, SndInsertHolds
<1>11. PICK S, g : SndHolds(b, a, y, S, g) /\ Numbers(S, g) = Numbers(D, e) \cup (x .. h)
  BY <1>6
<1>7. \A n \in x .. h : n \in Int /\ a <= n /\ n < a + k
  BY <1>1, <1>3
<1>8. SndState(f, k, b, a, y, S, g)
  BY <1>1, <1>11, <1>7 DEF SndState
<1>9. Covered(b) = {Wrap(n) : n \in Numbers(S, g)}
  BY <1>8, SndStateSays
<1>10. Covered(b) = Covered(l) \cup Span(f, i, j)
  BY <1>1, <1>5, <1>11, <1>9
<1> QED  BY <1>8, <1>10

\* All up to a number are taken off; the window may then start after it.
LEMMA SndStateRemove ==
  ASSUME NEW f, NEW k, NEW l, NEW a, NEW z, NEW D, NEW e, SndState(f, k, l, a, z, D, e),
         NEW j \in Nat, j < k, NEW b, b = SndRemove(l, Number(f, j))
  PROVE  /\ \E y, S, g : SndState(f, k, b, a, y, S, g)
         /\ \E c, y, S, g : SndState(Number(f, j + 1), k - (j + 1), b, c, y, S, g)
         /\ Covered(b) = Covered(l) \ Span(f, 0, j)
         /\ Number(f, j) = Decseq(Number(f, j + 1))
<1>1. /\ a \in Int /\ f = Wrap(a) /\ k \in 0 .. Window /\ SndHolds(l, a, z, D, e)
      /\ Covered(l) = {Wrap(n) : n \in Numbers(D, e)}
      /\ \A n \in Numbers(D, e) : n \in Int /\ a <= n /\ n < a + k
      /\ Numbers(D, e) \in SUBSET WindowFrom(a)
  BY SndStateSays DEF SndState
<1>2. /\ j \in 0 .. Window /\ j \in -1 .. Window /\ j + 1 \in 0 .. Window
      /\ 0 \in 0 .. Window /\ Window \in Nat /\ j < Window
  BY <1>1, WindowAssumption
<1>3. PICK h \in Int : h = a + j
  BY <1>1
<1>4. h \in WindowFrom(a) /\ a <= h
  BY <1>1, <1>2, <1>3 DEF WindowFrom
<1>5. /\ Number(f, j) = Wrap(h)
      /\ Span(f, 0, j) = {Wrap(n) : n \in a .. h}
  <2>1. a + 0 = a
    BY <1>1
  <2>2. Number(f, j) = Wrap(a + j)
    BY ONLY <1>1, <1>2, SpanIs
  <2>3. Span(f, 0, j) = {Wrap(n) : n \in (a + 0) .. (a + j)}
    BY ONLY <1>1, <1>2, SpanIs
  <2> QED  BY <1>3, <2>1, <2>2, <2>3
<1>6. PICK c \in Int : c = h + 1 /\ c = a + (j + 1) /\ c - 1 = h
  BY <1>1, <1>3
<1>7. Number(f, j + 1) = Wrap(c) /\ Decseq(Wrap(c)) = Wrap(h)
  <2>1. Number(f, j + 1) = Wrap(a + (j + 1))
    BY ONLY <1>1, <1>2, SpanIs
  <2>2. Decseq(Wrap(c)) = Wrap(c - 1)
    BY WrapSteps
  <2> QED  BY <1>6, <2>1, <2>2
<1>8. PICK S, g : /\ SndHolds(b, a, z, S, g)
                  /\ Numbers(S, g) = {n \in Numbers(D, e) : n > h}
  BY <1>1, <1>4, <1>5, SndRemoveHolds
<1>9. SndState(f, k, b, a, z, S, g)
  BY <1>1, <1>8 DEF SndState
<1>10. SndState(Number(f, j + 1), k - (j + 1), b, c, z, S, g)
  <2>1. \A n \in Numbers(S, g) : n \in Int /\ c <= n /\ n < c + (k - (j + 1))
    BY <1>1, <1>3, <1>6, <1>8
  <2>2. k - (j + 1) \in 0 .. Window
    BY <1>1, <1>2
  <2>3. \A n \in Numbers(S, g) : n \in WindowFrom(c)
    BY <1>2, <2>1, <2>2 DEF WindowFrom
  <2>4. SndHolds(b, c, z, S, g)
    <3>1. Numbers(S, g) \in SUBSET WindowFrom(c)
      BY <2>3
    <3> QED  BY <1>8, <3>1, Rebased
  <2> QED  BY <1>7, <2>1, <2>2, <2>4 DEF SndState
<1>11. Covered(b) = {Wrap(n) : n \in Numbers(S, g)}
  BY <1>9, SndStateSays
<1>12. PICK N : N = Numbers(D, e)
  OBVIOUS
<1>13. Numbers(S, g) = N \ (a .. h)
  BY <1>1, <1>8, <1>12
<1>14. {Wrap(n) : n \in N \ (a .. h)} = {Wrap(n) : n \in N} \ {Wrap(n) : n \in a .. h}
  <2>1. PICK T : T = a .. h
    OBVIOUS
  <2>2. T \in SUBSET WindowFrom(a) /\ N \in SUBSET WindowFrom(a) /\ a \in Int
    BY <1>1, <1>2, <1>3, <1>12, <2>1 DEF WindowFrom
  <2>3. {Wrap(n) : n \in N \ T} = {Wrap(n) : n \in N} \ {Wrap(n) : n \in T}
    <3>1. \A x \in N : \A y \in T : Wrap(x) = Wrap(y) => x = y
      BY <2>2, WrappedOnce
    <3> QED  BY ONLY <3>1
  <2> QED  BY <2>1, <2>3
<1>15. Covered(b) = Covered(l) \ Span(f, 0, j)
  BY <1>1, <1>5, <1>11, <1>12, <1>13, <1>14
<1> QED  BY <1>5, <1>7, <1>9, <1>10, <1>15

\* The smallest is taken and returned.
LEMMA SndStateTake ==
  ASSUME NEW f, NEW k, NEW l, NEW a, NEW z, NEW D, NEW e, SndState(f, k, l, a, z, D, e),
         l.length # 0
  PROVE  /\ \E y, S, g : SndState(f, k, WithoutFirst(l), a, y, S, g)
         /\ \E n \in 0 .. (k - 1) :
               /\ l.data1[l.head] = Number(f, n) /\ Number(f, n) \in Covered(l)
               /\ Span(f, 0, n - 1) \cap Covered(l) = {}
               /\ Covered(WithoutFirst(l)) = Covered(l) \ {Number(f, n)}
<1>1. /\ a \in Int /\ f = Wrap(a) /\ k \in 0 .. Window /\ SndHolds(l, a, z, D, e)
      /\ Covered(l) = {Wrap(n) : n \in Numbers(D, e)}
      /\ \A n \in Numbers(D, e) : n \in Int /\ a <= n /\ n < a + k
      /\ Numbers(D, e) \in SUBSET WindowFrom(a)
      /\ Ranges(a, D, e) /\ l.length = Cardinality(Numbers(D, e))
  <2>1. SndHolds(l, a, z, D, e) /\ \A n \in Numbers(D, e) : a <= n /\ n < a + k
    BY DEF SndState
  <2>2. l.length = Cardinality(Numbers(D, e))
    BY <2>1 DEF SndHolds
  <2> QED  BY <2>1, <2>2, SndStateSays
<1>2. PICK N : N = Numbers(D, e)
  OBVIOUS
<1>3. D # {} /\ D \in SUBSET WindowFrom(a) /\ D \in SUBSET N
  BY <1>1, <1>2, NoNumbers, NumbersInWindow DEF Ranges
<1>4. PICK g \in D : FirstIn(D, g)
  BY <1>1, <1>3, Neighbours
<1>5. g \in N /\ g \in Int /\ a <= g /\ g < a + k /\ \A n \in N : g <= n
  <2>1. \A w \in D : g <= w /\ w \in Int
    BY <1>1, <1>2, <1>3, <1>4 DEF FirstIn
  <2>2. \A n \in N : \E w \in D : n \in w .. e[w]
    BY <1>2 DEF Numbers
  <2>3. \A w \in D : e[w] \in Int
    BY <1>1, <2>1 DEF Ranges
  <2> QED  BY <1>1, <1>2, <1>3, <2>1, <2>2, <2>3
<1>6. PICK n \in Int : n = g - a
  BY <1>1, <1>5
<1>7. n \in 0 .. (k - 1) /\ n \in 0 .. Window /\ n - 1 \in -1 .. Window /\ a + n = g
      /\ a + (n - 1) = g - 1 /\ Window \in Nat
  BY <1>1, <1>5, <1>6, WindowAssumption
<1>8. PICK d \in Int : d = g - 1
  BY <1>5
<1>9. Number(f, n) = Wrap(g) /\ Span(f, 0, n - 1) = {Wrap(w) : w \in a .. d}
  <2>1. a + 0 = a /\ 0 \in 0 .. Window
    BY <1>1, <1>7
  <2>2. Number(f, n) = Wrap(a + n)
    BY ONLY <1>1, <1>7, SpanIs
  <2>3. Span(f, 0, n - 1) = {Wrap(w) : w \in (a + 0) .. (a + (n - 1))}
    BY ONLY <1>1, <1>7, <2>1, SpanIs
  <2> QED  BY <1>7, <1>8, <2>1, <2>2, <2>3
<1>10. PICK b : b = WithoutFirst(l)
  OBVIOUS
<1>11. /\ l.data1[l.head] = Wrap(g)
       /\ \E S : \E h : SndHolds(b, a, z, S, h) /\ Numbers(S, h) = N \ {g}
  BY <1>1, <1>2, <1>4, <1>10, WithoutFirstHolds
<1>12. PICK S, h : SndHolds(b, a, z, S, h) /\ Numbers(S, h) = N \ {g}
  BY <1>11
<1>13. SndState(f, k, b, a, z, S, h)
  BY <1>1, <1>2, <1>12 DEF SndState
<1>14. Covered(b) = {Wrap(w) : w \in N \ {g}}
  BY <1>12, <1>13, SndStateSays
<1>15. {Wrap(w) : w \in N \ {g}} = {Wrap(w) : w \in N} \ {Wrap(w) : w \in {g}}
  <2>1. PICK T : T = {g}
    OBVIOUS
  <2>2. T \in SUBSET WindowFrom(a) /\ N \in SUBSET WindowFrom(a) /\ a \in Int
    BY <1>1, <1>2, <1>5, <2>1
  <2>3. {Wrap(w) : w \in N \ T} = {Wrap(w) : w \in N} \ {Wrap(w) : w \in T}
    <3>1. \A x \in N : \A y \in T : Wrap(x) = Wrap(y) => x = y
      BY <2>2, WrappedOnce
    <3> QED  BY ONLY <3>1
  <2> QED  BY <2>1, <2>3
<1>16. Covered(b) = Covered(l) \ {Number(f, n)}
  BY <1>1, <1>2, <1>9, <1>14, <1>15
<1>17. Span(f, 0, n - 1) \cap Covered(l) = {}
  <2>1. PICK T : T = a .. d
    OBVIOUS
  <2>2. T \in SUBSET WindowFrom(a) /\ N \in SUBSET WindowFrom(a) /\ a \in Int
    BY <1>1, <1>2, <1>5, <1>7, <1>8, <2>1 DEF WindowFrom
  <2>3. T \cap N = {}
    BY <1>1, <1>2, <1>5, <1>8, <2>1
  <2>4. {Wrap(w) : w \in T \cap N} = {Wrap(w) : w \in T} \cap {Wrap(w) : w \in N}
    <3>1. \A x \in N : \A y \in T : Wrap(x) = Wrap(y) => x = y
      BY <2>2, WrappedOnce
    <3> QED  BY ONLY <3>1
  <2> QED  BY <1>1, <1>2, <1>9, <2>1, <2>3, <2>4
<1>18. Number(f, n) \in Covered(l)
  BY <1>1, <1>2, <1>5, <1>9
<1> QED  BY <1>7, <1>9, <1>10, <1>11, <1>13, <1>16, <1>17, <1>18

\* There are numbers that the list is the list of.
SndLossInv == \E a, z, D, e : SndState(sndFirst, sndFlight, sndList, a, z, D, e)

\* The sender's list starts with none.
LEMMA SndLossInvInit ==
  SndLossInit => SndLossInv
<1> SUFFICES ASSUME SndLossInit PROVE SndLossInv
  OBVIOUS
<1>1. SndState(sndFirst, 0, EmptySndList, sndFirst, 0, {}, [i \in Int |-> i])
  BY SndStateFirst DEF SndLossInit
<1> QED  BY <1>1 DEF SndLossInit, SndLossInv

\* The end of a dropped message is in the window, which may have to grow.
LEMMA DropWidens ==
  ASSUME SndLossInv, NEW j \in 0 .. Window, DropMessage(j)
  PROVE  \E w \in 0 .. Window :
             /\ sndFlight' = w /\ sndFlight <= w /\ j \in Nat /\ j < w
             /\ w \in {sndFlight, j + 2}
<1>1. sndFlight \in 0 .. Window /\ Window \in Nat
  BY SndStateSays, WindowAssumption DEF SndLossInv
<1>2. CASE j + 2 > sndFlight
  <2>1. /\ j + 2 \in 0 .. Window /\ sndFlight' = j + 2 /\ sndFlight <= j + 2
        /\ j \in Nat /\ j < j + 2
    BY <1>1, <1>2 DEF DropMessage
  <2> QED  BY <2>1
<1>3. CASE ~(j + 2 > sndFlight)
  <2>1. sndFlight' = sndFlight /\ sndFlight <= sndFlight /\ j \in Nat /\ j < sndFlight
    BY <1>1, <1>3 DEF DropMessage
  <2> QED  BY <1>1, <2>1
<1> QED  BY <1>2, <1>3

\* Each call leaves the list that of the numbers it should have.
LEMMA SndLossInvStep ==
  SndLossInv /\ [SndLossNext]_sndLossVars => SndLossInv'
<1> SUFFICES ASSUME SndLossInv, [SndLossNext]_sndLossVars PROVE SndLossInv'
  OBVIOUS
<1>1. PICK a, z, D, e : SndState(sndFirst, sndFlight, sndList, a, z, D, e)
  BY DEF SndLossInv
<1>2. sndFlight \in 0 .. Window /\ sndFlight \in Int /\ Window \in Nat
  BY <1>1, SndStateSays, WindowAssumption
<1>3. CASE SendPacket
  BY <1>1, <1>3, SndStateGrows DEF SendPacket, SndLossInv
<1>4. CASE Retransmit
  BY <1>1, <1>4, SndStateTake DEF Retransmit, SndLossInv
<1>5. ASSUME NEW i \in 0 .. Window, NEW j \in 0 .. Window, ReportLoss(i, j)
      PROVE  SndLossInv'
  <2>1. i \in Nat /\ j \in Nat
    BY <1>2
  <2> QED  BY <1>1, <1>5, <2>1, SndStateInsert DEF ReportLoss, SndLossInv, SndNumber
<1>6. ASSUME NEW j \in 0 .. Window, DropMessage(j)
      PROVE  SndLossInv'
  <2>1. PICK w \in 0 .. Window : sndFlight' = w /\ sndFlight <= w /\ j \in Nat /\ j < w
    BY <1>6, DropWidens
  <2>2. SndState(sndFirst, w, sndList, a, z, D, e)
    BY ONLY <1>1, <2>1, SndStateWider
  <2>3. PICK b : b = SndRemove(sndList, Number(sndFirst, j))
    OBVIOUS
  <2>4. \E y, S, g : SndState(sndFirst, w, b, a, y, S, g)
    BY ONLY <2>1, <2>2, <2>3, SndStateRemove
  <2>5. sndList' = b /\ sndFirst' = sndFirst
    BY <1>6, <2>3 DEF DropMessage, SndNumber
  <2> QED  BY <2>1, <2>4, <2>5 DEF SndLossInv
<1>7. ASSUME NEW n \in 1 .. Window, TakeAck(n)
      PROVE  SndLossInv'
  <2>1. PICK j \in Nat : n = j + 1 /\ j < sndFlight
    <3>1. n - 1 \in Nat /\ n = (n - 1) + 1 /\ n <= sndFlight
      BY <1>2, <1>7 DEF TakeAck
    <3>2. n - 1 < sndFlight
      BY <1>2, <3>1
    <3> QED  BY <3>1, <3>2
  <2>2. PICK b : b = SndRemove(sndList, Number(sndFirst, j))
    OBVIOUS
  <2>3. /\ \E c, y, S, g : SndState(Number(sndFirst, j + 1), sndFlight - (j + 1), b, c, y, S, g)
        /\ Number(sndFirst, j) = Decseq(Number(sndFirst, j + 1))
    BY ONLY <1>1, <2>1, <2>2, SndStateRemove
  <2>4. sndFirst' = Number(sndFirst, j + 1) /\ sndFlight' = sndFlight - (j + 1) /\ sndList' = b
    BY <1>7, <2>1, <2>2, <2>3 DEF TakeAck, SndNumber
  <2> QED  BY <2>3, <2>4 DEF SndLossInv
<1>8. CASE UNCHANGED sndLossVars
  BY <1>1, <1>8 DEF sndLossVars, SndLossInv
<1> QED  BY <1>3, <1>4, <1>5, <1>6, <1>7, <1>8 DEF SndLossNext

\* The invariant: whatever the calls of CSndLossList, m_iLength counts the
\* numbers in the list, each range is in the cell where insert and remove look
\* for it, with the links in order, and the cached position is that of a range.
THEOREM SndLossListWellFormed ==
  SndLossSpec => []SndListWellFormed
<1>1. SndLossInv => SndListWellFormed
  BY SndStateSays DEF SndLossInv, SndListWellFormed
<1> QED  BY <1>1, SndLossInvInit, SndLossInvStep, PTL DEF SndLossSpec

\* Each call does to the numbers what the set's operation of its name does.
LEMMA SndLossStepIsSetStep ==
  SndLossInv /\ [SndLossNext]_sndLossVars => [SndSet!LossNext]_(SndSet!lossVars)
<1> SUFFICES ASSUME SndLossInv, [SndLossNext]_sndLossVars
             PROVE  [SndSet!LossNext]_(SndSet!lossVars)
  OBVIOUS
<1>1. PICK a, z, D, e : SndState(sndFirst, sndFlight, sndList, a, z, D, e)
  BY DEF SndLossInv
<1>2. sndFlight \in 0 .. Window /\ sndFlight \in Int /\ Window \in Nat
  BY <1>1, SndStateSays, WindowAssumption
<1>3. /\ \A f, n : SndSet!Number(f, n) = Number(f, n)
      /\ \A f, i, j : SndSet!Span(f, i, j) = Span(f, i, j)
  BY DEF SndSet!Number, Number, SndSet!Span, Span, SndSet!IncseqBy, IncseqBy
<1>4. ASSUME SendPacket
      PROVE  SndSet!LossNext
  <2>1. SndSet!Grow(1) /\ sndCall'[1] = "grow" /\ 1 \in 1 .. Window
    BY <1>2, <1>4, WindowAssumption DEF SendPacket, SndSet!Grow
  <2> QED  BY <2>1 DEF SndSet!LossNext
<1>5. ASSUME Retransmit
      PROVE  SndSet!LossNext
  <2>1. sndList.length # 0 /\ sndList' = WithoutFirst(sndList) /\ UNCHANGED <<sndFirst, sndFlight>>
        /\ sndCall' = <<"take", sndList.data1[sndList.head]>>
    BY <1>5 DEF Retransmit
  <2>2. PICK n \in 0 .. (sndFlight - 1) :
               /\ sndList.data1[sndList.head] = Number(sndFirst, n)
               /\ Number(sndFirst, n) \in Covered(sndList)
               /\ Span(sndFirst, 0, n - 1) \cap Covered(sndList) = {}
               /\ Covered(WithoutFirst(sndList)) = Covered(sndList) \ {Number(sndFirst, n)}
    BY <1>1, <2>1, SndStateTake
  <2>3. Covered(sndList') = Covered(sndList) \ {Number(sndFirst, n)}
    BY <2>1, <2>2
  <2>4. Covered(sndList)' = Covered(sndList')
    BY DEF Covered, Occupied, RangeOf, End
  <2>5. SndSet!TakeFirst
    BY <1>3, <2>1, <2>2, <2>3, <2>4 DEF SndSet!TakeFirst
  <2>6. sndCall'[1] = "take"
    BY <2>1
  <2> QED  BY <2>5, <2>6 DEF SndSet!LossNext
<1>6. ASSUME NEW i \in 0 .. Window, NEW j \in 0 .. Window, ReportLoss(i, j)
      PROVE  SndSet!LossNext
  <2>1. i \in Nat /\ j \in Nat
    BY <1>2
  <2>2. PICK b : b = SndInsert(sndList, Number(sndFirst, i), Number(sndFirst, j))
    OBVIOUS
  <2>3. /\ i <= j /\ j < sndFlight /\ sndList' = b /\ UNCHANGED <<sndFirst, sndFlight>>
        /\ sndCall' = <<"insert", Number(sndFirst, i), Number(sndFirst, j)>>
    BY <1>6, <2>2 DEF ReportLoss, SndNumber
  <2>4. Covered(b) = Covered(sndList) \cup Span(sndFirst, i, j)
    BY <1>1, <2>1, <2>2, <2>3, SndStateInsert
  <2>5. Covered(sndList)' = Covered(sndList')
    BY DEF Covered, Occupied, RangeOf, End
  <2>6. SndSet!Report(i, j)
    BY <1>3, <2>3, <2>4, <2>5 DEF SndSet!Report
  <2>7. sndCall'[1] = "insert"
    BY <2>3
  <2> QED  BY <2>3, <2>6, <2>7 DEF SndSet!LossNext
<1>7. ASSUME NEW j \in 0 .. Window, DropMessage(j)
      PROVE  SndSet!LossNext
  <2>1. 0 \in 0 .. Window /\ 0 <= j
    BY <1>2
  <2>2. PICK b : b = SndRemove(sndList, Number(sndFirst, j))
    OBVIOUS
  <2>3. PICK w \in 0 .. Window :
            /\ sndFlight' = w /\ sndFlight <= w /\ j \in Nat /\ j < w
            /\ w \in {sndFlight, j + 2}
    BY <1>7, DropWidens
  <2>4. /\ sndList' = b /\ sndFirst' = sndFirst
        /\ sndFlight' \in {sndFlight, j + 1, j + 2}
        /\ sndCall' = <<"remove", sndFirst, Number(sndFirst, j)>>
    BY <1>7, <2>2, <2>3 DEF DropMessage, SndNumber
  <2>5. SndState(sndFirst, w, sndList, a, z, D, e)
    BY ONLY <1>1, <2>3, SndStateWider
  <2>6. Covered(b) = Covered(sndList) \ Span(sndFirst, 0, j)
    BY ONLY <2>2, <2>3, <2>5, SndStateRemove
  <2>7. Covered(sndList)' = Covered(sndList')
    BY DEF Covered, Occupied, RangeOf, End
  <2>8. Number(sndFirst, 0) = sndFirst
    <3>1. a \in Int /\ sndFirst = Wrap(a) /\ a + 0 = a
      BY <1>1, SndStateSays
    <3>2. 0 \in 0 .. Window /\ 0 \in -1 .. Window
      BY <1>2
    <3>3. Number(sndFirst, 0) = Wrap(a + 0)
      BY ONLY <3>1, <3>2, SpanIs
    <3> QED  BY <3>1, <3>3
  <2>9. SndSet!Forget(0, j)
    BY <1>3, <2>4, <2>6, <2>7, <2>8 DEF SndSet!Forget
  <2>10. sndCall'[1] = "remove"
    BY <2>4
  <2> QED  BY <2>1, <2>9, <2>10 DEF SndSet!LossNext
<1>8. ASSUME NEW n \in 1 .. Window, TakeAck(n)
      PROVE  SndSet!LossNext
  <2>1. PICK j \in Nat : n = j + 1 /\ n - 1 = j /\ j < sndFlight /\ n \in 0 .. sndFlight
    <3>1. n - 1 \in Nat /\ n = (n - 1) + 1 /\ n <= sndFlight
      BY <1>2, <1>8 DEF TakeAck
    <3>2. n - 1 < sndFlight
      BY <1>2, <3>1
    <3> QED  BY <1>2, <3>1, <3>2
  <2>2. PICK b : b = SndRemove(sndList, Number(sndFirst, j))
    OBVIOUS
  <2>3. /\ Covered(b) = Covered(sndList) \ Span(sndFirst, 0, j)
        /\ Number(sndFirst, j) = Decseq(Number(sndFirst, j + 1))
    BY ONLY <1>1, <2>1, <2>2, SndStateRemove
  <2>4. /\ sndFirst' = Number(sndFirst, n) /\ sndFlight' = sndFlight - n /\ sndList' = b
        /\ sndCall' = <<"slide", n>>
    BY <1>8, <2>1, <2>2, <2>3 DEF TakeAck, SndNumber
  <2>5. Covered(sndList)' = Covered(sndList')
    BY DEF Covered, Occupied, RangeOf, End
  <2>6. SndSet!Slide(n)
    BY <1>3, <2>1, <2>3, <2>4, <2>5 DEF SndSet!Slide
  <2>7. sndCall'[1] = "slide"
    BY <2>4
  <2> QED  BY <2>1, <2>6, <2>7 DEF SndSet!LossNext
<1>9. CASE UNCHANGED sndLossVars
  <2>1. UNCHANGED <<sndFirst, sndFlight, sndList, sndCall>>
    BY <1>9 DEF sndLossVars
  <2>2. Covered(sndList)' = Covered(sndList)
    BY <2>1 DEF Covered, Occupied, RangeOf, End
  <2> QED  BY <2>1, <2>2 DEF SndSet!lossVars
<1> QED  BY <1>4, <1>5, <1>6, <1>7, <1>8, <1>9 DEF SndLossNext

\* The refinement: the arrays implement a set of sequence numbers, from which
\* getLostSeq takes the smallest of the window.
THEOREM SndLossListIsSet ==
  SndLossSpec => SndListIsSet
<1>1. SndLossInit => SndSet!LossInit
  <2> SUFFICES ASSUME SndLossInit PROVE SndSet!LossInit
    OBVIOUS
  <2>1. Covered(EmptySndList) = {}
    BY SndStateFirst DEF SndLossInit
  <2> QED  BY <2>1 DEF SndLossInit, SndSet!LossInit, SndSet!SeqNos, SeqNos
<1> QED
  BY <1>1, SndLossInvInit, SndLossInvStep, SndLossStepIsSetStep, PTL
  DEF SndLossSpec, SndListIsSet, SndSet!LossSpec

-----------------------------------------------------------------------------
(* A list linked both ways.                                                *)

LastIn(D, x) == x \in D /\ \A w \in D : w <= x

Chain(m, z, D, nx, pr, h, t) ==
    /\ nx \in [0 .. (m - 1) -> (0 .. (m - 1)) \cup {Nil}]
    /\ pr \in [0 .. (m - 1) -> (0 .. (m - 1)) \cup {Nil}]
    /\ \A x, y \in D : NextIn(D, x, y) => /\ nx[Place(m, z, x)] = Place(m, z, y)
                                          /\ pr[Place(m, z, y)] = Place(m, z, x)
    /\ \A x \in D : LastIn(D, x) => nx[Place(m, z, x)] = Nil /\ t = Place(m, z, x)
    /\ HeadIs(m, z, D, h)

\* The neighbours when a number is added after another.
LEMMA AddedOrder ==
  ASSUME NEW D \in SUBSET Int, NEW p \in D, NEW v \in Int, PriorIn(D, p, v), v \notin D,
         NEW S, S = D \cup {v}
  PROVE  /\ \A u, w \in S : NextIn(S, u, w) =>
                \/ u = p /\ w = v
                \/ u = v /\ w \in D /\ NextIn(D, p, w)
                \/ u \in D /\ u # p /\ w \in D /\ NextIn(D, u, w)
         /\ \A u \in S : LastIn(S, u) => (u = v /\ LastIn(D, p)) \/ (u # p /\ LastIn(D, u))
         /\ \A u \in S : FirstIn(S, u) => FirstIn(D, u)
<1>1. p < v /\ (\A w \in D : w < v => w <= p) /\ \A w \in D : w < v \/ v < w
  BY DEF PriorIn
<1>2. ASSUME NEW u \in S, NEW w \in S, NextIn(S, u, w)
      PROVE  \/ u = p /\ w = v
             \/ u = v /\ w \in D /\ NextIn(D, p, w)
             \/ u \in D /\ u # p /\ w \in D /\ NextIn(D, u, w)
  <2>1. u < w /\ \A k \in S : u < k => w <= k
    BY <1>2 DEF NextIn
  <2>2. CASE u = v
    <3>1. w \in D
      BY <2>1, <2>2
    <3>2. \A k \in D : p < k => w <= k
      <4> TAKE k \in D
      <4> HAVE p < k
      <4>1. v < k
        BY <1>1
      <4> QED  BY <2>1, <2>2, <4>1
    <3>3. p < w
      BY <1>1, <2>1, <2>2, <3>1
    <3> QED  BY <2>2, <3>1, <3>2, <3>3 DEF NextIn
  <2>3. CASE u = p
    <3>1. w <= v
      BY <1>1, <2>1, <2>3
    <3>2. w \in D => w < v
      BY <1>1, <3>1
    <3> QED  BY <1>1, <2>1, <2>3, <3>2
  <2>4. CASE u # v /\ u # p
    <3>1. u \in D
      BY <2>4
    <3>2. w # v
      <4> SUFFICES ASSUME w = v PROVE FALSE
        OBVIOUS
      <4>1. u <= p /\ u < p
        BY <1>1, <2>1, <2>4, <3>1
      <4> QED  BY <1>1, <2>1, <4>1
    <3> QED  BY <2>1, <2>4, <3>1, <3>2 DEF NextIn
  <2> QED  BY <2>2, <2>3, <2>4
<1>3. ASSUME NEW u \in S, LastIn(S, u)
      PROVE  (u = v /\ LastIn(D, p)) \/ (u # p /\ LastIn(D, u))
  <2>1. \A w \in S : w <= u
    BY <1>3 DEF LastIn
  <2>2. CASE u = v
    BY <1>1, <2>1, <2>2 DEF LastIn
  <2>3. CASE u # v
    BY <1>1, <2>1, <2>3 DEF LastIn
  <2> QED  BY <2>2, <2>3
<1>4. ASSUME NEW u \in S, FirstIn(S, u)
      PROVE  FirstIn(D, u)
  BY <1>1, <1>4 DEF FirstIn
<1> QED  BY <1>2, <1>3, <1>4

\* The neighbours when a number is taken out.
LEMMA LessOrder ==
  ASSUME NEW D \in SUBSET Int, NEW x \in D, NEW S, S = D \ {x}
  PROVE  /\ \A u, w \in S : NextIn(S, u, w) =>
                \/ NextIn(D, u, w)
                \/ NextIn(D, u, x) /\ NextIn(D, x, w)
         /\ \A u \in S : LastIn(S, u) => LastIn(D, u) \/ (NextIn(D, u, x) /\ LastIn(D, x))
         /\ \A u \in S : FirstIn(S, u) => FirstIn(D, u) \/ (FirstIn(D, x) /\ NextIn(D, x, u))
<1>1. \A w \in S : w \in D /\ (w < x \/ x < w)
  OBVIOUS
<1>2. ASSUME NEW u \in S, NEW w \in S, NextIn(S, u, w)
      PROVE  NextIn(D, u, w) \/ (NextIn(D, u, x) /\ NextIn(D, x, w))
  <2>1. u < w /\ \A k \in S : u < k => w <= k
    BY <1>2 DEF NextIn
  <2>2. CASE u < x /\ x < w
    <3>1. \A k \in D : u < k => x <= k
      <4> TAKE k \in D
      <4> HAVE u < k
      <4>1. k # x => w <= k
        BY <2>1
      <4> QED  BY <2>2, <4>1
    <3>2. \A k \in D : x < k => w <= k
      <4> TAKE k \in D
      <4> HAVE x < k
      <4>1. k \in S /\ u < k
        BY <2>2
      <4> QED  BY <2>1, <4>1
    <3> QED  BY <2>2, <3>1, <3>2 DEF NextIn
  <2>3. CASE ~(u < x /\ x < w)
    <3>1. u < x => w <= x
      BY <1>1, <2>3
    <3> QED  BY <1>1, <2>1, <3>1 DEF NextIn
  <2> QED  BY <2>2, <2>3
<1>3. ASSUME NEW u \in S, LastIn(S, u)
      PROVE  LastIn(D, u) \/ (NextIn(D, u, x) /\ LastIn(D, x))
  <2>1. \A w \in S : w <= u
    BY <1>3 DEF LastIn
  <2>2. CASE u < x
    <3>1. \A k \in D : u < k => x <= k
      <4> TAKE k \in D
      <4> HAVE u < k
      <4>1. k \notin S
        BY <2>1
      <4> QED  BY <4>1
    <3>2. \A k \in D : k <= x
      <4> TAKE k \in D
      <4>1. k # x => k <= u
        BY <2>1
      <4> QED  BY <2>2, <4>1
    <3> QED  BY <2>2, <3>1, <3>2 DEF NextIn, LastIn
  <2>3. CASE x < u
    BY <2>1, <2>3 DEF LastIn
  <2> QED  BY <1>1, <2>2, <2>3
<1>4. ASSUME NEW u \in S, FirstIn(S, u)
      PROVE  FirstIn(D, u) \/ (FirstIn(D, x) /\ NextIn(D, x, u))
  <2>1. \A w \in S : u <= w
    BY <1>4 DEF FirstIn
  <2>2. CASE x < u
    <3>1. \A k \in D : x <= k
      <4> TAKE k \in D
      <4>1. k # x => u <= k
        BY <2>1
      <4> QED  BY <2>2, <4>1
    <3>2. \A k \in D : x < k => u <= k
      <4> TAKE k \in D
      <4> HAVE x < k
      <4> QED  BY <2>1
    <3> QED  BY <2>2, <3>1, <3>2 DEF NextIn, FirstIn
  <2>3. CASE u < x
    BY <2>1, <2>3 DEF FirstIn
  <2> QED  BY <1>1, <2>2, <2>3
<1> QED  BY <1>2, <1>3, <1>4

Renames(D, x, v, S) ==
    /\ x \in D /\ v \in Int /\ x < v /\ S = (D \ {x}) \cup {v}
    /\ \A w \in D : x < w => v < w

\* The neighbours when a number is replaced by a larger one before the next.
LEMMA RenamedOrder ==
  ASSUME NEW D \in SUBSET Int, NEW x, NEW v, NEW S, Renames(D, x, v, S)
  PROVE  /\ \A u, w \in S : NextIn(S, u, w) =>
                \/ u = v /\ w \in D \ {x} /\ NextIn(D, x, w)
                \/ u \in D \ {x} /\ w = v /\ NextIn(D, u, x)
                \/ u \in D \ {x} /\ w \in D \ {x} /\ NextIn(D, u, w)
         /\ \A u \in S : LastIn(S, u) => (u = v /\ LastIn(D, x)) \/ (u # v /\ LastIn(D, u))
         /\ \A u \in S : FirstIn(S, u) => (u = v /\ FirstIn(D, x)) \/ (u # v /\ FirstIn(D, u))
<1> USE DEF Renames
<1>1. \A w \in D : w < x \/ w = x \/ (x < w /\ v < w)
  OBVIOUS
<1>2. v \notin D /\ S \in SUBSET Int
  BY <1>1
<1>3. ASSUME NEW u \in S, NEW w \in S, NextIn(S, u, w)
      PROVE  \/ u = v /\ w \in D \ {x} /\ NextIn(D, x, w)
             \/ u \in D \ {x} /\ w = v /\ NextIn(D, u, x)
             \/ u \in D \ {x} /\ w \in D \ {x} /\ NextIn(D, u, w)
  <2>1. u < w /\ \A k \in S : u < k => w <= k
    BY <1>3 DEF NextIn
  <2>2. CASE u = v
    <3>1. w \in D \ {x} /\ x < w
      BY <1>2, <2>1, <2>2
    <3>2. \A k \in D : x < k => w <= k
      BY <1>1, <1>2, <2>1, <2>2
    <3> QED  BY <2>2, <3>1, <3>2 DEF NextIn
  <2>3. CASE w = v
    <3>1. u \in D \ {x} /\ u < x
      BY <1>1, <1>2, <2>1, <2>3
    <3>2. \A k \in D : u < k => x <= k
      <4> TAKE k \in D
      <4> HAVE u < k
      <4>1. k # x => v <= k
        BY <2>1, <2>3
      <4> QED  BY <1>2, <4>1
    <3> QED  BY <2>3, <3>1, <3>2 DEF NextIn
  <2>4. CASE u # v /\ w # v
    <3>1. u \in D \ {x} /\ w \in D \ {x}
      BY <2>4
    <3>2. u < x => w <= x
      <4> SUFFICES ASSUME u < x PROVE w <= x
        OBVIOUS
      <4>1. w <= v
        BY <1>2, <2>1, <3>1
      <4> QED  BY <1>1, <1>2, <2>4, <3>1, <4>1
    <3>3. \A k \in D : u < k => w <= k
      BY <2>1, <3>2
    <3> QED  BY <2>1, <3>1, <3>3 DEF NextIn
  <2> QED  BY <2>2, <2>3, <2>4
<1>4. ASSUME NEW u \in S, LastIn(S, u)
      PROVE  (u = v /\ LastIn(D, x)) \/ (u # v /\ LastIn(D, u))
  <2>1. \A w \in S : w <= u
    BY <1>4 DEF LastIn
  <2>2. CASE u = v
    <3>1. \A w \in D : w <= x
      BY <1>1, <1>2, <2>1, <2>2
    <3> QED  BY <2>2, <3>1 DEF LastIn
  <2>3. CASE u # v
    <3>1. v <= u /\ x <= u
      BY <1>2, <2>1
    <3>2. \A w \in D : w <= u
      BY <2>1, <3>1
    <3> QED  BY <2>3, <3>2 DEF LastIn
  <2> QED  BY <2>2, <2>3
<1>5. ASSUME NEW u \in S, FirstIn(S, u)
      PROVE  (u = v /\ FirstIn(D, x)) \/ (u # v /\ FirstIn(D, u))
  <2>1. \A w \in S : u <= w
    BY <1>5 DEF FirstIn
  <2>2. CASE u = v
    <3>1. \A w \in D : x <= w
      BY <1>1, <1>2, <2>1, <2>2
    <3> QED  BY <2>2, <3>1 DEF FirstIn
  <2>3. CASE u # v
    <3>1. u \in D \ {x} /\ u <= v
      BY <1>2, <2>1, <2>3
    <3>2. u < x
      BY <1>1, <1>2, <2>3, <3>1
    <3>3. \A w \in D : u <= w
      BY <2>1, <3>2
    <3> QED  BY <2>3, <3>1, <3>3 DEF FirstIn
  <2> QED  BY <2>2, <2>3
<1> QED  BY <1>3, <1>4, <1>5

\* Links nb and pb, from cell h to cell t.
LinksTyped(m, nb, pb) ==
    /\ nb \in [0 .. (m - 1) -> (0 .. (m - 1)) \cup {Nil}]
    /\ pb \in [0 .. (m - 1) -> (0 .. (m - 1)) \cup {Nil}]

\* What the cell c of a range at x says about its place in the list.
Located(m, z, D, x, c, nx, pr, h, t) ==
    /\ h = c <=> FirstIn(D, x)
    /\ t = c <=> LastIn(D, x)
    /\ nx[c] = Nil <=> LastIn(D, x)
    /\ FirstIn(D, x) \/ \E u \in D : NextIn(D, u, x) /\ pr[c] = Place(m, z, u)
    /\ LastIn(D, x) \/ \E w \in D : NextIn(D, x, w) /\ nx[c] = Place(m, z, w)

\* It does.
LEMMA ChainAt ==
  ASSUME NEW a \in Int, NEW m, Size(m), NEW z \in Int, NEW D \in SUBSET WindowFrom(a),
         NEW nx, NEW pr, NEW h, NEW t, Chain(m, z, D, nx, pr, h, t), NEW x \in D
  PROVE  Located(m, z, D, x, Place(m, z, x), nx, pr, h, t)
<1>1. D \in SUBSET Int /\ x \in Int
  BY WindowFinite
<1>2. \A u, w \in D : Place(m, z, u) = Place(m, z, w) <=> u = w
  BY PlaceNear
<1>3. \A w \in D : Place(m, z, w) # Nil
  BY PlaceNear
<1>4. ASSUME ~LastIn(D, x)
      PROVE  \E w \in D : /\ NextIn(D, x, w) /\ nx[Place(m, z, x)] = Place(m, z, w)
                          /\ nx[Place(m, z, x)] # Nil
  <2>1. ~\A w \in D : w <= x
    BY <1>4 DEF LastIn
  <2>2. PICK w \in D : NextIn(D, x, w)
    BY <1>1, <2>1, Neighbours
  <2> QED  BY <1>3, <2>2 DEF Chain
<1>5. ASSUME ~FirstIn(D, x)
      PROVE  \E u \in D : NextIn(D, u, x) /\ pr[Place(m, z, x)] = Place(m, z, u)
  <2>1. ~\A w \in D : x <= w
    BY <1>5 DEF FirstIn
  <2>2. PICK u \in D : PriorIn(D, u, x)
    BY <1>1, <2>1, Neighbours
  <2>3. NextIn(D, u, x)
    BY <1>1, <2>2 DEF PriorIn, NextIn
  <2> QED  BY <2>3 DEF Chain
<1>6. PICK g \in D : FirstIn(D, g)
  BY <1>1, Neighbours
<1>7. h = Place(m, z, g) /\ (FirstIn(D, x) <=> x = g)
  BY <1>1, <1>6 DEF Chain, HeadIs, FirstIn
<1>8. PICK k \in D : LastIn(D, k)
  <2>1. \E k \in D : \A w \in D : w <= k
    <3> DEFINE f == [n \in D |-> n]
    <3>1. IsFiniteSet(D)
      BY WindowFinite
    <3>2. \A n \in D : f[n] \in Int
      BY <1>1
    <3>3. \E k \in D : \A n \in D : f[n] <= f[k]
      <4> HIDE DEF f
      <4> QED  BY <3>1, <3>2, GreatestBy
    <3> QED  BY <3>3
  <2> QED  BY <2>1 DEF LastIn
<1>9. t = Place(m, z, k) /\ (LastIn(D, x) <=> x = k)
  BY <1>1, <1>8 DEF Chain, LastIn
<1>10. LastIn(D, x) => nx[Place(m, z, x)] = Nil
  BY DEF Chain
<1> QED  BY <1>2, <1>4, <1>5, <1>7, <1>9, <1>10 DEF Located

\* The links when a range at v comes after that at p.
AddedLinks(m, z, D, p, v, nx, pr, t, nb, pb, tb) ==
    /\ LinksTyped(m, nb, pb)
    /\ nb[Place(m, z, p)] = Place(m, z, v) /\ nb[Place(m, z, v)] = nx[Place(m, z, p)]
    /\ \A w \in D : w # p => nb[Place(m, z, w)] = nx[Place(m, z, w)]
    /\ pb[Place(m, z, v)] = Place(m, z, p)
    /\ \A w \in D : NextIn(D, p, w) => pb[Place(m, z, w)] = Place(m, z, v)
    /\ \A w \in D : ~NextIn(D, p, w) => pb[Place(m, z, w)] = pr[Place(m, z, w)]
    /\ LastIn(D, p) => tb = Place(m, z, v)
    /\ ~LastIn(D, p) => tb = t

\* A range linked in after another.
LEMMA ChainAdded ==
  ASSUME NEW a \in Int, NEW m, Size(m), NEW z \in Int, NEW D \in SUBSET WindowFrom(a),
         NEW nx, NEW pr, NEW h, NEW t, Chain(m, z, D, nx, pr, h, t),
         NEW p \in D, NEW v \in Int, PriorIn(D, p, v), v \notin D, NEW S, S = D \cup {v},
         NEW nb, NEW pb, NEW tb, AddedLinks(m, z, D, p, v, nx, pr, t, nb, pb, tb)
  PROVE  Chain(m, z, S, nb, pb, h, tb)
<1>0. /\ LinksTyped(m, nb, pb)
      /\ nb[Place(m, z, p)] = Place(m, z, v) /\ nb[Place(m, z, v)] = nx[Place(m, z, p)]
      /\ \A w \in D : w # p => nb[Place(m, z, w)] = nx[Place(m, z, w)]
      /\ pb[Place(m, z, v)] = Place(m, z, p)
      /\ \A w \in D : NextIn(D, p, w) => pb[Place(m, z, w)] = Place(m, z, v)
      /\ \A w \in D : ~NextIn(D, p, w) => pb[Place(m, z, w)] = pr[Place(m, z, w)]
      /\ LastIn(D, p) => tb = Place(m, z, v)
      /\ ~LastIn(D, p) => tb = t
  BY DEF AddedLinks
<1> USE <1>0
<1>1. D \in SUBSET Int /\ S # {} /\ D # {}
  BY WindowFinite
<1>2. /\ \A u, w \in S : NextIn(S, u, w) =>
                \/ u = p /\ w = v
                \/ u = v /\ w \in D /\ NextIn(D, p, w)
                \/ u \in D /\ u # p /\ w \in D /\ NextIn(D, u, w)
      /\ \A u \in S : LastIn(S, u) => (u = v /\ LastIn(D, p)) \/ (u # p /\ LastIn(D, u))
      /\ \A u \in S : FirstIn(S, u) => FirstIn(D, u)
  BY ONLY <1>1, AddedOrder, p \in D, v \in Int, PriorIn(D, p, v), v \notin D, S = D \cup {v}
<1>3. ASSUME NEW u \in S, NEW w \in S, NextIn(S, u, w)
      PROVE  nb[Place(m, z, u)] = Place(m, z, w) /\ pb[Place(m, z, w)] = Place(m, z, u)
  <2>1. CASE u = p /\ w = v
    BY <2>1
  <2>2. CASE u = v /\ w \in D /\ NextIn(D, p, w)
    <3>1. nx[Place(m, z, p)] = Place(m, z, w)
      BY <2>2 DEF Chain
    <3> QED  BY <2>2, <3>1
  <2>3. CASE u \in D /\ u # p /\ w \in D /\ NextIn(D, u, w)
    <3>1. nx[Place(m, z, u)] = Place(m, z, w) /\ pr[Place(m, z, w)] = Place(m, z, u)
      BY <2>3 DEF Chain
    <3>2. ~NextIn(D, p, w)
      <4> SUFFICES ASSUME NextIn(D, p, w) PROVE FALSE
        OBVIOUS
      <4>1. u < w /\ p < w /\ (u < p => w <= p) /\ (p < u => w <= u)
        BY <2>3 DEF NextIn
      <4> QED  BY <1>1, <2>3, <4>1
    <3> QED  BY <2>3, <3>1, <3>2
  <2> QED  BY <1>2, <1>3, <2>1, <2>2, <2>3
<1>4. ASSUME NEW u \in S, LastIn(S, u)
      PROVE  nb[Place(m, z, u)] = Nil /\ tb = Place(m, z, u)
  <2>1. CASE u = v /\ LastIn(D, p)
    <3>1. nx[Place(m, z, p)] = Nil
      BY <2>1 DEF Chain
    <3> QED  BY <2>1, <3>1
  <2>2. CASE u # p /\ LastIn(D, u)
    <3>1. u \in D /\ nx[Place(m, z, u)] = Nil /\ t = Place(m, z, u)
      BY <2>2 DEF Chain, LastIn
    <3>2. ~LastIn(D, p)
      BY <1>1, <2>2, <3>1 DEF LastIn
    <3> QED  BY <2>2, <3>1, <3>2
  <2> QED  BY <1>2, <1>4, <2>1, <2>2
<1>5. HeadIs(m, z, S, h)
  <2>1. \A u \in S : FirstIn(S, u) => u \in D /\ FirstIn(D, u)
    BY <1>2 DEF FirstIn
  <2> QED  BY <1>1, <2>1 DEF Chain, HeadIs
<1> QED  BY <1>3, <1>4, <1>5 DEF Chain, LinksTyped

\* The links when the range at x goes, which leaves S.
LessLinks(m, z, D, x, S, nx, pr, h, t, nb, pb, hb, tb) ==
    /\ LinksTyped(m, nb, pb)
    /\ \A w \in S : NextIn(D, w, x) => nb[Place(m, z, w)] = nx[Place(m, z, x)]
    /\ \A w \in S : ~NextIn(D, w, x) => nb[Place(m, z, w)] = nx[Place(m, z, w)]
    /\ ~FirstIn(D, x) => \A w \in S : NextIn(D, x, w) =>
                              pb[Place(m, z, w)] = pr[Place(m, z, x)]
    /\ \A w \in S : ~NextIn(D, x, w) => pb[Place(m, z, w)] = pr[Place(m, z, w)]
    /\ FirstIn(D, x) => hb = nx[Place(m, z, x)]
    /\ ~FirstIn(D, x) => hb = h
    /\ LastIn(D, x) /\ ~FirstIn(D, x) => tb = pr[Place(m, z, x)]
    /\ ~LastIn(D, x) => tb = t

\* A range taken out.
LEMMA ChainLess ==
  ASSUME NEW a \in Int, NEW m, Size(m), NEW z \in Int, NEW D \in SUBSET WindowFrom(a),
         NEW nx, NEW pr, NEW h, NEW t, Chain(m, z, D, nx, pr, h, t),
         NEW x \in D, NEW S, S = D \ {x},
         NEW nb, NEW pb, NEW hb, NEW tb, LessLinks(m, z, D, x, S, nx, pr, h, t, nb, pb, hb, tb)
  PROVE  Chain(m, z, S, nb, pb, hb, tb)
<1>0. /\ LinksTyped(m, nb, pb)
      /\ \A w \in S : NextIn(D, w, x) => nb[Place(m, z, w)] = nx[Place(m, z, x)]
      /\ \A w \in S : ~NextIn(D, w, x) => nb[Place(m, z, w)] = nx[Place(m, z, w)]
      /\ ~FirstIn(D, x) => \A w \in S : NextIn(D, x, w) =>
                                pb[Place(m, z, w)] = pr[Place(m, z, x)]
      /\ \A w \in S : ~NextIn(D, x, w) => pb[Place(m, z, w)] = pr[Place(m, z, w)]
      /\ FirstIn(D, x) => hb = nx[Place(m, z, x)]
      /\ ~FirstIn(D, x) => hb = h
      /\ LastIn(D, x) /\ ~FirstIn(D, x) => tb = pr[Place(m, z, x)]
      /\ ~LastIn(D, x) => tb = t
  BY DEF LessLinks
<1> USE <1>0
<1>1. D \in SUBSET Int
  BY WindowFinite
<1>2. /\ \A u, w \in S : NextIn(S, u, w) => NextIn(D, u, w) \/ (NextIn(D, u, x) /\ NextIn(D, x, w))
      /\ \A u \in S : LastIn(S, u) => LastIn(D, u) \/ (NextIn(D, u, x) /\ LastIn(D, x))
      /\ \A u \in S : FirstIn(S, u) => FirstIn(D, u) \/ (FirstIn(D, x) /\ NextIn(D, x, u))
  BY ONLY <1>1, LessOrder, x \in D, S = D \ {x}
<1>3. \A u \in D : NextIn(D, u, x) => ~FirstIn(D, x)
  BY <1>1 DEF NextIn, FirstIn
<1>4. ASSUME NEW u \in S, NEW w \in S, NextIn(S, u, w)
      PROVE  nb[Place(m, z, u)] = Place(m, z, w) /\ pb[Place(m, z, w)] = Place(m, z, u)
  <2>1. CASE NextIn(D, u, x) /\ NextIn(D, x, w)
    <3>1. nx[Place(m, z, x)] = Place(m, z, w) /\ pr[Place(m, z, x)] = Place(m, z, u)
      BY <2>1 DEF Chain
    <3>2. ~FirstIn(D, x)
      BY <1>3, <2>1
    <3> QED  BY <2>1, <3>1, <3>2
  <2>2. CASE NextIn(D, u, w)
    <3>1. nx[Place(m, z, u)] = Place(m, z, w) /\ pr[Place(m, z, w)] = Place(m, z, u)
      BY <2>2 DEF Chain
    <3>2. ~NextIn(D, u, x) /\ ~NextIn(D, x, w)
      <4>1. \A k \in D : u < k => w <= k
        BY <2>2 DEF NextIn
      <4>2. u \in D /\ w \in D /\ u # x /\ w # x /\ u < w
        BY <2>2 DEF NextIn
      <4>3. ~NextIn(D, u, x)
        <5> SUFFICES ASSUME u < x, \A k \in D : u < k => x <= k PROVE FALSE
          BY DEF NextIn
        <5> QED  BY <1>1, <4>1, <4>2
      <4>4. ~NextIn(D, x, w)
        <5> SUFFICES ASSUME x < w, \A k \in D : x < k => w <= k PROVE FALSE
          BY DEF NextIn
        <5> QED  BY <1>1, <4>1, <4>2
      <4> QED  BY <4>3, <4>4
    <3> QED  BY <3>1, <3>2
  <2> QED  BY <1>2, <1>4, <2>1, <2>2
<1>5. ASSUME NEW u \in S, LastIn(S, u)
      PROVE  nb[Place(m, z, u)] = Nil /\ tb = Place(m, z, u)
  <2>1. CASE NextIn(D, u, x) /\ LastIn(D, x)
    <3>1. nx[Place(m, z, x)] = Nil /\ pr[Place(m, z, x)] = Place(m, z, u)
      BY <2>1 DEF Chain
    <3>2. ~FirstIn(D, x)
      BY <1>3, <2>1
    <3> QED  BY <2>1, <3>1, <3>2
  <2>2. CASE LastIn(D, u)
    <3>1. nx[Place(m, z, u)] = Nil /\ t = Place(m, z, u)
      BY <2>2 DEF Chain
    <3>2. ~NextIn(D, u, x) /\ ~LastIn(D, x)
      BY <1>1, <2>2 DEF NextIn, LastIn
    <3> QED  BY <3>1, <3>2
  <2> QED  BY <1>2, <1>5, <2>1, <2>2
<1>6. HeadIs(m, z, S, hb)
  <2>1. ASSUME NEW u \in S, FirstIn(S, u)
        PROVE  hb = Place(m, z, u)
    <3>1. CASE FirstIn(D, x) /\ NextIn(D, x, u)
      <4>1. nx[Place(m, z, x)] = Place(m, z, u)
        BY <3>1 DEF Chain
      <4> QED  BY <3>1, <4>1
    <3>2. CASE FirstIn(D, u)
      <4>1. ~FirstIn(D, x)
        BY <1>1, <3>2 DEF FirstIn
      <4>2. h = Place(m, z, u)
        BY <3>2 DEF Chain, HeadIs
      <4> QED  BY <4>1, <4>2
    <3> QED  BY <1>2, <2>1, <3>1, <3>2
  <2>2. ASSUME S = {}
        PROVE  hb = Nil
    <3>1. FirstIn(D, x) /\ LastIn(D, x)
      BY <1>1, <2>2 DEF FirstIn, LastIn
    <3>2. nx[Place(m, z, x)] = Nil
      BY <3>1 DEF Chain
    <3> QED  BY <3>1, <3>2
  <2> QED  BY <2>1, <2>2 DEF HeadIs
<1> QED  BY <1>4, <1>5, <1>6 DEF Chain, LinksTyped

\* The links when the range at x starts at v.
RenamedLinks(m, z, D, x, v, nx, pr, h, t, nb, pb, hb, tb) ==
    /\ LinksTyped(m, nb, pb)
    /\ nb[Place(m, z, v)] = nx[Place(m, z, x)] /\ pb[Place(m, z, v)] = pr[Place(m, z, x)]
    /\ \A w \in D \ {x} : NextIn(D, w, x) => nb[Place(m, z, w)] = Place(m, z, v)
    /\ \A w \in D \ {x} : ~NextIn(D, w, x) => nb[Place(m, z, w)] = nx[Place(m, z, w)]
    /\ \A w \in D \ {x} : NextIn(D, x, w) => pb[Place(m, z, w)] = Place(m, z, v)
    /\ \A w \in D \ {x} : ~NextIn(D, x, w) => pb[Place(m, z, w)] = pr[Place(m, z, w)]
    /\ FirstIn(D, x) => hb = Place(m, z, v)
    /\ ~FirstIn(D, x) => hb = h
    /\ LastIn(D, x) => tb = Place(m, z, v)
    /\ ~LastIn(D, x) => tb = t

\* A range moved to the cell of a larger number before the next range.
LEMMA ChainRenamed ==
  ASSUME NEW a \in Int, NEW m, Size(m), NEW z \in Int, NEW D \in SUBSET WindowFrom(a),
         NEW nx, NEW pr, NEW h, NEW t, Chain(m, z, D, nx, pr, h, t),
         NEW x, NEW v, NEW S, Renames(D, x, v, S),
         NEW nb, NEW pb, NEW hb, NEW tb, RenamedLinks(m, z, D, x, v, nx, pr, h, t, nb, pb, hb, tb)
  PROVE  Chain(m, z, S, nb, pb, hb, tb)
<1>0. /\ LinksTyped(m, nb, pb)
      /\ nb[Place(m, z, v)] = nx[Place(m, z, x)] /\ pb[Place(m, z, v)] = pr[Place(m, z, x)]
      /\ \A w \in D \ {x} : NextIn(D, w, x) => nb[Place(m, z, w)] = Place(m, z, v)
      /\ \A w \in D \ {x} : ~NextIn(D, w, x) => nb[Place(m, z, w)] = nx[Place(m, z, w)]
      /\ \A w \in D \ {x} : NextIn(D, x, w) => pb[Place(m, z, w)] = Place(m, z, v)
      /\ \A w \in D \ {x} : ~NextIn(D, x, w) => pb[Place(m, z, w)] = pr[Place(m, z, w)]
      /\ FirstIn(D, x) => hb = Place(m, z, v)
      /\ ~FirstIn(D, x) => hb = h
      /\ LastIn(D, x) => tb = Place(m, z, v)
      /\ ~LastIn(D, x) => tb = t
  BY DEF RenamedLinks
<1> USE <1>0
<1>1. /\ D \in SUBSET Int /\ S # {} /\ x \in D /\ x \in Int /\ v \in Int /\ v \in S
      /\ S = (D \ {x}) \cup {v}
  BY WindowFinite DEF Renames
<1>2. /\ \A u, w \in S : NextIn(S, u, w) =>
                \/ u = v /\ w \in D \ {x} /\ NextIn(D, x, w)
                \/ u \in D \ {x} /\ w = v /\ NextIn(D, u, x)
                \/ u \in D \ {x} /\ w \in D \ {x} /\ NextIn(D, u, w)
      /\ \A u \in S : LastIn(S, u) => (u = v /\ LastIn(D, x)) \/ (u # v /\ LastIn(D, u))
      /\ \A u \in S : FirstIn(S, u) => (u = v /\ FirstIn(D, x)) \/ (u # v /\ FirstIn(D, u))
  <2>1. D \in SUBSET Int /\ Renames(D, x, v, S)
    BY <1>1
  <2> QED  BY ONLY <2>1, RenamedOrder
<1>3. ASSUME NEW u \in S, NEW w \in S, NextIn(S, u, w)
      PROVE  nb[Place(m, z, u)] = Place(m, z, w) /\ pb[Place(m, z, w)] = Place(m, z, u)
  <2>1. CASE u = v /\ w \in D \ {x} /\ NextIn(D, x, w)
    <3>1. nx[Place(m, z, x)] = Place(m, z, w)
      BY <1>1, <2>1 DEF Chain
    <3> QED  BY <1>1, <2>1, <3>1
  <2>2. CASE u \in D \ {x} /\ w = v /\ NextIn(D, u, x)
    <3>1. pr[Place(m, z, x)] = Place(m, z, u)
      BY <1>1, <2>2 DEF Chain
    <3> QED  BY <1>1, <2>2, <3>1
  <2>3. CASE u \in D \ {x} /\ w \in D \ {x} /\ NextIn(D, u, w)
    <3>1. nx[Place(m, z, u)] = Place(m, z, w) /\ pr[Place(m, z, w)] = Place(m, z, u)
      BY <2>3 DEF Chain
    <3>2. ~NextIn(D, u, x) /\ ~NextIn(D, x, w)
      <4>1. \A k \in D : u < k => w <= k
        BY <2>3 DEF NextIn
      <4>2. u \in D /\ w \in D /\ u # x /\ w # x /\ u < w
        BY <2>3 DEF NextIn
      <4>3. ~NextIn(D, u, x)
        <5> SUFFICES ASSUME u < x, \A k \in D : u < k => x <= k PROVE FALSE
          BY DEF NextIn
        <5> QED  BY <1>1, <4>1, <4>2
      <4>4. ~NextIn(D, x, w)
        <5> SUFFICES ASSUME x < w, \A k \in D : x < k => w <= k PROVE FALSE
          BY DEF NextIn
        <5> QED  BY <1>1, <4>1, <4>2
      <4> QED  BY <4>3, <4>4
    <3> QED  BY <2>3, <3>1, <3>2
  <2> QED  BY <1>2, <1>3, <2>1, <2>2, <2>3
<1>4. ASSUME NEW u \in S, LastIn(S, u)
      PROVE  nb[Place(m, z, u)] = Nil /\ tb = Place(m, z, u)
  <2>1. CASE u = v /\ LastIn(D, x)
    <3>1. nx[Place(m, z, x)] = Nil
      BY <1>1, <2>1 DEF Chain
    <3> QED  BY <2>1, <3>1
  <2>2. CASE u # v /\ LastIn(D, u)
    <3>1. u \in D \ {x} /\ nx[Place(m, z, u)] = Nil /\ t = Place(m, z, u)
      <4>1. u \in D \ {x} /\ LastIn(D, u)
        BY <1>1, <2>2
      <4> QED  BY <4>1 DEF Chain
    <3>2. ~NextIn(D, u, x) /\ ~LastIn(D, x)
      BY <1>1, <2>2, <3>1 DEF NextIn, LastIn
    <3> QED  BY <3>1, <3>2
  <2> QED  BY <1>2, <1>4, <2>1, <2>2
<1>5. HeadIs(m, z, S, hb)
  <2>1. ASSUME NEW u \in S, FirstIn(S, u)
        PROVE  hb = Place(m, z, u)
    <3>1. CASE u = v /\ FirstIn(D, x)
      BY <3>1
    <3>2. CASE u # v /\ FirstIn(D, u)
      <4>1. ~FirstIn(D, x)
        BY <1>1, <3>2 DEF FirstIn
      <4>2. h = Place(m, z, u)
        <5>1. u \in D
          BY <3>2 DEF FirstIn
        <5> QED  BY <3>2, <5>1 DEF Chain, HeadIs
      <4> QED  BY <4>1, <4>2
    <3> QED  BY <1>2, <2>1, <3>1, <3>2
  <2> QED  BY <1>1, <2>1 DEF HeadIs
<1> QED  BY <1>3, <1>4, <1>5 DEF Chain, LinksTyped

-----------------------------------------------------------------------------
(* The receiver's list.                                                    *)

\* The list is that of the ranges D to e, apart, in their cells.
RcvHeld(l, a, z, D, e) ==
    /\ l \in RcvLists /\ z \in Int
    /\ Ranges(a, D, e) /\ Apart(D, e)
    /\ Stored(RcvSize, z, D, e, l.data1, l.data2)
    /\ Chain(RcvSize, z, D, l.next, l.prior, l.head, l.tail)

\* It counts their numbers too.
RcvHolds(l, a, z, D, e) ==
    RcvHeld(l, a, z, D, e) /\ l.length = Cardinality(Numbers(D, e))

\* The size of the arrays, and what the fields are.
LEMMA RcvFields ==
  ASSUME NEW l \in RcvLists
  PROVE  /\ Size(RcvSize) /\ RcvSize \in Nat \ {0} /\ 0 \in RcvCells
         /\ RcvCells = 0 .. (RcvSize - 1) /\ Nil \notin RcvCells
         /\ RcvLinks = RcvCells \cup {Nil}
         /\ l.data1 \in [RcvCells -> Int] /\ l.data2 \in [RcvCells -> Int]
         /\ l.next \in [RcvCells -> RcvLinks] /\ l.prior \in [RcvCells -> RcvLinks]
         /\ l.head \in RcvLinks /\ l.tail \in RcvLinks /\ l.length \in Int
BY RcvSizeAssumption, WindowAssumption DEF RcvLists, RcvCells, RcvLinks, Size, Nil

\* A list of ranges, and where they are.
LEMMA RcvParts ==
  ASSUME NEW l, NEW a, NEW z, NEW D, NEW e, RcvHeld(l, a, z, D, e)
  PROVE  /\ l \in RcvLists /\ z \in Int /\ a \in Int
         /\ D \in SUBSET WindowFrom(a) /\ D \in SUBSET Int /\ e \in [Int -> Int]
         /\ \A w \in D : w <= e[w] /\ e[w] \in WindowFrom(a) /\ e[w] \in Int
         /\ Ranges(a, D, e) /\ Apart(D, e)
         /\ Stored(RcvSize, z, D, e, l.data1, l.data2)
         /\ Chain(RcvSize, z, D, l.next, l.prior, l.head, l.tail)
         /\ Size(RcvSize)
<1>1. Ranges(a, D, e) /\ l \in RcvLists
  BY DEF RcvHeld
<1>2. a \in Int /\ D \in SUBSET WindowFrom(a) /\ e \in [Int -> Int]
      /\ \A w \in D : w <= e[w] /\ e[w] \in WindowFrom(a)
  BY <1>1 DEF Ranges
<1>3. D \in SUBSET Int /\ \A w \in D : e[w] \in Int
  BY <1>2, WindowFinite
<1>4. Size(RcvSize)
  BY <1>1, RcvFields
<1> QED  BY <1>1, <1>2, <1>3, <1>4 DEF RcvHeld

\* The cell of a number from the head on.
LEMMA RcvCellIs ==
  ASSUME NEW l, NEW a, NEW z, NEW D, NEW e, RcvHeld(l, a, z, D, e), NEW g, FirstIn(D, g),
         NEW x \in WindowFrom(a)
  PROVE  /\ l.head = Place(RcvSize, z, g) /\ l.data1[l.head] = Wrap(g)
         /\ RcvCell(l, Wrap(x)) = Place(RcvSize, z, x)
         /\ Seqoff(l.data1[l.head], Wrap(x)) = x - g
<1>1. /\ z \in Int /\ a \in Int /\ D \in SUBSET WindowFrom(a) /\ Size(RcvSize)
      /\ Stored(RcvSize, z, D, e, l.data1, l.data2)
      /\ Chain(RcvSize, z, D, l.next, l.prior, l.head, l.tail)
  BY RcvParts
<1>2. g \in D /\ g \in WindowFrom(a)
  BY <1>1 DEF FirstIn
<1>3. l.head = Place(RcvSize, z, g) /\ l.data1[l.head] = Wrap(g)
  BY <1>1, <1>2 DEF Chain, HeadIs, Stored
<1>4. Seqoff(Wrap(g), Wrap(x)) = x - g
  BY <1>1, <1>2, WrapNear
<1>5. (Place(RcvSize, z, g) + (x - g)) % RcvSize = Place(RcvSize, z, x)
  BY <1>1, <1>2, PlaceNear
<1> QED  BY <1>3, <1>4, <1>5 DEF RcvCell

\* The search back from a free cell ends at the range before it.
LEMMA CellBeforeIs ==
  ASSUME NEW l, NEW a, NEW z, NEW D, NEW e, RcvHeld(l, a, z, D, e), NEW y \in WindowFrom(a),
         NEW p, PriorIn(D, p, y)
  PROVE  CellBefore(l, Place(RcvSize, z, y)) = Place(RcvSize, z, p)
<1> DEFINE c == Place(RcvSize, z, y)
           back(k) == (c - k + RcvSize) % RcvSize
           found(k) == /\ l.data1[back(k)] # Nil
                       /\ \A j \in 1 .. (k - 1) : l.data1[back(j)] = Nil
<1>1. /\ z \in Int /\ a \in Int /\ D \in SUBSET WindowFrom(a) /\ Size(RcvSize)
      /\ Ranges(a, D, e) /\ Stored(RcvSize, z, D, e, l.data1, l.data2)
  BY RcvParts
<1>2. /\ p \in D /\ p < y /\ (\A w \in D : w < y => w <= p) /\ p \in Int /\ y \in Int
      /\ y - p < Window /\ p \in WindowFrom(a)
  BY <1>1, Near DEF PriorIn
<1>3. RcvSize \in Nat \ {0} /\ c \in 0 .. (RcvSize - 1) /\ Window <= RcvSize
      /\ Window \in Nat
  BY <1>1, PlaceNear, WindowAssumption DEF Size
<1>4. ASSUME NEW k \in 1 .. (y - p)
      PROVE  /\ back(k) = Place(RcvSize, z, y - k)
             /\ l.data1[back(k)] # Nil <=> y - k \in D
  <2>1. PICK x \in Int : x = y - k
    BY <1>2
  <2>2. x \in WindowFrom(a)
    BY <1>1, <1>2, <2>1, WindowAssumption DEF WindowFrom
  <2>3. (Place(RcvSize, z, y) + (x - y) + RcvSize) % RcvSize = Place(RcvSize, z, x)
    BY <1>1, <2>2, PlaceNear
  <2>4. c + (x - y) + RcvSize = c - k + RcvSize
    BY <1>2, <1>3, <2>1
  <2>5. l.data1[Place(RcvSize, z, x)] # Nil <=> x \in D
    BY <1>1, <2>2, Found
  <2>6. back(k) = Place(RcvSize, z, x)
    BY <2>3, <2>4
  <2> QED  BY <2>1, <2>5, <2>6
<1>5. PICK d \in Int : d = y - p /\ d \in 1 .. RcvSize
  BY <1>2, <1>3
<1>6. found(d)
  <2>1. \A j \in 1 .. (d - 1) : l.data1[back(j)] = Nil
    <3> TAKE j \in 1 .. (d - 1)
    <3>1. j \in 1 .. (y - p) /\ j \in Int /\ y - j > p /\ y - j < y
      BY <1>2, <1>5
    <3>2. y - j \notin D
      BY <1>1, <1>2, <3>1
    <3> HIDE DEF back
    <3> QED  BY <1>4, <3>1, <3>2
  <2>2. l.data1[back(d)] # Nil
    <3>1. d \in 1 .. (y - p) /\ y - d = p
      BY <1>2, <1>5
    <3> HIDE DEF back
    <3> QED  BY <1>2, <1>4, <3>1
  <2> QED  BY <2>1, <2>2
<1>7. ASSUME NEW k \in 1 .. RcvSize, found(k)
      PROVE  k = d
  <2>1. k < d => d - 1 \in Nat /\ k \in 1 .. (d - 1)
    BY <1>3, <1>5
  <2>2. d < k => d \in 1 .. (k - 1)
    BY <1>3, <1>5
  <2>3. ~(k < d) /\ ~(d < k)
    <3> HIDE DEF back
    <3> QED  BY <1>6, <1>7, <2>1, <2>2
  <2> QED  BY <1>3, <1>5, <2>3
<1>8. (CHOOSE k \in 1 .. RcvSize : found(k)) = d
  <2> HIDE DEF found
  <2> QED  BY <1>5, <1>6, <1>7
<1>9. CellBefore(l, c) = back(CHOOSE k \in 1 .. RcvSize : found(k))
  BY DEF CellBefore
<1>10. back(d) = Place(RcvSize, z, p)
  <2>1. d \in 1 .. (y - p) /\ y - d = p
    BY <1>2, <1>5
  <2> HIDE DEF back
  <2> QED  BY <1>4, <2>1
<1> HIDE DEF found, back
<1> QED  BY <1>8, <1>9, <1>10

\* A range loses its last number.
LEMMA NumbersShortened ==
  ASSUME NEW a, NEW D, NEW e, Ranges(a, D, e), Apart(D, e), NEW p \in D, p < e[p],
         NEW f, f = Ending(e, p, e[p] - 1)
  PROVE  /\ Ranges(a, D, f) /\ Apart(D, f)
         /\ f[p] = e[p] - 1 /\ \A u \in Int : u # p => f[u] = e[u]
         /\ Numbers(D, f) = Numbers(D, e) \ {e[p]}
<1>1. /\ a \in Int /\ D \in SUBSET WindowFrom(a) /\ D \in SUBSET Int /\ e \in [Int -> Int]
      /\ \A u \in D : u <= e[u] /\ e[u] \in WindowFrom(a) /\ e[u] \in Int
      /\ \A u, w \in D : u < w => e[u] < w
  BY WindowFinite, Near DEF Ranges, Apart
<1>2. p \in Int /\ e[p] - 1 \in Int
  BY <1>1
<1>3. f \in [Int -> Int] /\ f[p] = e[p] - 1 /\ \A u \in Int : u # p => f[u] = e[u]
  BY <1>1, <1>2, EndingIs
<1>4. Ranges(a, D, f)
  <2>1. e[p] - 1 \in WindowFrom(a) /\ p <= e[p] - 1
    BY <1>1, <1>2, WindowAssumption DEF WindowFrom
  <2>2. ASSUME NEW u \in D
        PROVE  u <= f[u] /\ f[u] \in WindowFrom(a)
    BY <1>1, <1>3, <2>1
  <2> QED  BY <1>1, <1>3, <2>2 DEF Ranges
<1>5. Apart(D, f)
  <2>1. \A u \in D : f[u] <= e[u] /\ f[u] \in Int
    BY <1>1, <1>3
  <2> QED  BY <1>1, <2>1 DEF Apart
<1>6. Numbers(D, f) = Numbers(D, e) \ {e[p]}
  <2>1. PICK S : S = Numbers(D, f)
    OBVIOUS
  <2>2. PICK T : T = Numbers(D, e)
    OBVIOUS
  <2>3. \A n : n \in S <=> \E u \in D : n \in u .. f[u]
    BY <2>1 DEF Numbers
  <2>4. \A n : n \in T <=> \E u \in D : n \in u .. e[u]
    BY <2>2 DEF Numbers
  <2>5. ASSUME NEW n \in S
        PROVE  n \in T /\ n # e[p]
    <3>1. PICK u \in D : n \in u .. f[u]
      BY <2>3
    <3>2. CASE u = p
      <4>1. n \in p .. e[p] /\ n # e[p]
        BY <1>1, <1>2, <1>3, <3>1, <3>2
      <4> QED  BY <2>4, <4>1
    <3>3. CASE u # p
      <4>1. n \in u .. e[u]
        BY <1>1, <1>3, <3>1, <3>3
      <4>2. n # e[p]
        <5>1. CASE u < p
          <6>1. e[u] < p
            BY <1>1, <5>1
          <6> QED  BY <1>1, <1>2, <4>1, <6>1
        <5>2. CASE p < u
          <6>1. e[p] < u
            BY <1>1, <5>2
          <6> QED  BY <1>1, <1>2, <4>1, <6>1
        <5> QED  BY <1>1, <1>2, <3>3, <5>1, <5>2
      <4> QED  BY <2>4, <4>1, <4>2
    <3> QED  BY <3>2, <3>3
  <2>6. ASSUME NEW n \in T, n # e[p]
        PROVE  n \in S
    <3>1. PICK u \in D : n \in u .. e[u]
      BY <2>4
    <3>2. n \in u .. f[u]
      BY <1>1, <1>2, <1>3, <2>6, <3>1
    <3> QED  BY <2>3, <3>2
  <2> QED  BY <2>1, <2>2, <2>5, <2>6
<1> QED  BY <1>3, <1>4, <1>5, <1>6

\* A range loses its first number, and starts one later.
LEMMA NumbersShifted ==
  ASSUME NEW a, NEW D, NEW e, Ranges(a, D, e), Apart(D, e), NEW y \in D, y < e[y],
         NEW v, v = y + 1, NEW S, S = (D \ {y}) \cup {v}, NEW f, f = Ending(e, v, e[y])
  PROVE  /\ v \in WindowFrom(a) /\ v \notin D /\ Renames(D, y, v, S)
         /\ Ranges(a, S, f) /\ Apart(S, f)
         /\ f[v] = e[y] /\ Agree(D \ {y}, f, e)
         /\ Numbers(S, f) = Numbers(D, e) \ {y}
<1>1. /\ a \in Int /\ D \in SUBSET WindowFrom(a) /\ D \in SUBSET Int /\ e \in [Int -> Int]
      /\ \A u \in D : u <= e[u] /\ e[u] \in WindowFrom(a) /\ e[u] \in Int
      /\ \A u, w \in D : u < w => e[u] < w
  BY WindowFinite, Near DEF Ranges, Apart
<1>2. y \in Int /\ v \in Int /\ y < v /\ v <= e[y] /\ v # y
  BY <1>1
<1>3. v \in WindowFrom(a)
  <2>1. a <= y /\ e[y] <= a + Window - 1 /\ Window \in Int
    BY <1>1, WindowAssumption DEF WindowFrom
  <2> QED  BY <1>1, <1>2, <2>1 DEF WindowFrom
<1>4. v \notin D /\ \A w \in D : y < w => v < w
  BY <1>1, <1>2
<1>5. Renames(D, y, v, S)
  BY <1>2, <1>4 DEF Renames
<1>6. f \in [Int -> Int] /\ f[v] = e[y] /\ \A u \in Int : u # v => f[u] = e[u]
  BY <1>1, <1>2, EndingIs
<1>7. Agree(D \ {y}, f, e)
  BY <1>1, <1>4, <1>6 DEF Agree
<1>8. Ranges(a, S, f)
  <2>1. ASSUME NEW u \in S
        PROVE  u \in WindowFrom(a) /\ u <= f[u] /\ f[u] \in WindowFrom(a)
    <3>1. CASE u = v
      BY <1>1, <1>2, <1>3, <1>6, <3>1
    <3>2. CASE u # v
      <4>1. u \in D /\ f[u] = e[u]
        BY <1>1, <1>6, <3>2
      <4> QED  BY <1>1, <4>1
    <3> QED  BY <3>1, <3>2
  <2> QED  BY <1>1, <1>6, <2>1 DEF Ranges
<1>9. Apart(S, f)
  <2> SUFFICES ASSUME NEW u \in S, NEW w \in S, u < w PROVE f[u] < w
    BY DEF Apart
  <2>1. CASE u = v
    <3>1. w \in D /\ y < w
      BY <1>1, <1>2, <2>1
    <3> QED  BY <1>1, <1>6, <2>1, <3>1
  <2>2. CASE u # v
    <3>1. u \in D /\ u # y /\ f[u] = e[u]
      BY <1>1, <1>6, <2>2
    <3>2. CASE w = v
      <4>1. u < y
        BY <1>1, <1>2, <1>4, <3>1, <3>2
      <4>2. e[u] < y
        BY <1>1, <3>1, <4>1
      <4> QED  BY <1>1, <1>2, <3>1, <3>2, <4>2
    <3>3. CASE w # v
      BY <1>1, <3>1, <3>3
    <3> QED  BY <3>2, <3>3
  <2> QED  BY <2>1, <2>2
<1>10. Numbers(S, f) = Numbers(D, e) \ {y}
  <2>1. PICK M : M = Numbers(S, f)
    OBVIOUS
  <2>2. PICK T : T = Numbers(D, e)
    OBVIOUS
  <2>3. \A n : n \in M <=> \E u \in S : n \in u .. f[u]
    BY <2>1 DEF Numbers
  <2>4. \A n : n \in T <=> \E u \in D : n \in u .. e[u]
    BY <2>2 DEF Numbers
  <2>5. ASSUME NEW n \in M
        PROVE  n \in T /\ n # y
    <3>1. PICK u \in S : n \in u .. f[u]
      BY <2>3
    <3>2. CASE u = v
      <4>1. n \in y .. e[y] /\ n # y
        BY <1>1, <1>2, <1>6, <3>1, <3>2
      <4> QED  BY <2>4, <4>1
    <3>3. CASE u # v
      <4>1. u \in D /\ u # y /\ n \in u .. e[u]
        BY <1>1, <1>6, <3>1, <3>3
      <4>2. n # y
        <5>1. u < y => e[u] < y
          BY <1>1, <4>1
        <5> QED  BY <1>1, <1>2, <4>1, <5>1
      <4> QED  BY <2>4, <4>1, <4>2
    <3> QED  BY <3>2, <3>3
  <2>6. ASSUME NEW n \in T, n # y
        PROVE  n \in M
    <3>1. PICK u \in D : n \in u .. e[u]
      BY <2>4
    <3>2. CASE u = y
      <4>1. n \in v .. f[v] /\ v \in S
        BY <1>1, <1>2, <1>6, <2>6, <3>1, <3>2
      <4> QED  BY <2>3, <4>1
    <3>3. CASE u # y
      <4>1. u \in S /\ n \in u .. f[u]
        BY <1>1, <1>4, <1>6, <3>1, <3>3
      <4> QED  BY <2>3, <4>1
    <3> QED  BY <3>2, <3>3
  <2> QED  BY <2>1, <2>2, <2>5, <2>6
<1> QED  BY <1>3, <1>4, <1>5, <1>6, <1>7, <1>8, <1>9, <1>10

\* The ends when the range at p loses the number y and becomes two.
SplitEnds(a, D, e, p, y, v, S, f) ==
    /\ Ranges(a, S, f) /\ Apart(S, f) /\ f \in [Int -> Int]
    /\ f[p] = y - 1 /\ f[v] = e[p] /\ Agree(D \ {p}, f, e)
    /\ Numbers(S, f) = Numbers(D, e) \ {y}

\* A range loses a number in the middle.
LEMMA NumbersSplit ==
  ASSUME NEW a, NEW D, NEW e, Ranges(a, D, e), Apart(D, e), NEW p \in D, NEW y \in Int,
         p < y, y < e[p], NEW v, v = y + 1, NEW S, S = D \cup {v}
  PROVE  /\ v \in WindowFrom(a) /\ v \notin D /\ PriorIn(D, p, v)
         /\ \E f : SplitEnds(a, D, e, p, y, v, S, f)
<1>1. /\ a \in Int /\ D \in SUBSET WindowFrom(a) /\ D \in SUBSET Int /\ e \in [Int -> Int]
      /\ \A u \in D : u <= e[u] /\ e[u] \in WindowFrom(a) /\ e[u] \in Int
      /\ \A u, w \in D : u < w => e[u] < w
  BY WindowFinite, Near DEF Ranges, Apart
<1>2. p \in Int /\ v \in Int /\ p < v /\ v # p /\ v <= e[p]
  BY <1>1
<1>3. PICK h : h = Ending(Ending(e, p, y), v, e[p])
  OBVIOUS
<1>4. PICK k : k = Ending(e, p, y)
  OBVIOUS
<1>5. k \in [Int -> Int] /\ k[p] = y /\ \A u \in Int : u # p => k[u] = e[u]
  BY <1>1, <1>2, <1>4, EndingIs
<1>6. h \in [Int -> Int] /\ h[v] = e[p] /\ \A u \in Int : u # v => h[u] = k[u]
  BY <1>1, <1>2, <1>3, <1>4, <1>5, EndingIs
<1>7. Parted(e, p, y, v, h)
  BY <1>2, <1>5, <1>6 DEF Parted
<1>8. /\ v \in WindowFrom(a) /\ v \notin D
      /\ Ranges(a, D \cup {v}, h) /\ Apart(D \cup {v}, h)
      /\ Numbers(D \cup {v}, h) = Numbers(D, e)
  <2>1. p <= y
    BY <1>1
  <2> QED  BY ONLY <1>7, <2>1, NumbersParted, Ranges(a, D, e), Apart(D, e), p \in D, y \in Int,
              y < e[p], v = y + 1
<1>9. PriorIn(D, p, v)
  <2>1. \A w \in D : w < v => w <= p
    <3> TAKE w \in D
    <3> HAVE w < v
    <3>1. p < w => e[p] < w
      BY <1>1
    <3> QED  BY <1>1, <1>2, <3>1
  <2> QED  BY <1>2, <2>1 DEF PriorIn
<1>10. PICK f : f = Ending(h, p, h[p] - 1)
  OBVIOUS
<1>11. h[p] = y /\ p \in S /\ p < h[p]
  BY <1>2, <1>5, <1>6
<1>12. /\ Ranges(a, S, f) /\ Apart(S, f)
       /\ f[p] = h[p] - 1 /\ (\A u \in Int : u # p => f[u] = h[u])
       /\ Numbers(S, f) = Numbers(S, h) \ {h[p]}
  <2>1. Ranges(a, S, h) /\ Apart(S, h)
    BY <1>8
  <2> QED  BY ONLY <1>10, <1>11, <2>1, NumbersShortened
<1>13. Agree(D \ {p}, f, e)
  <2>1. ASSUME NEW u \in D \ {p}
        PROVE  f[u] = e[u]
    <3>1. u \in Int /\ u # v /\ u # p
      BY <1>1, <1>8
    <3> QED  BY <1>5, <1>6, <1>12, <3>1
  <2> QED  BY <2>1 DEF Agree
<1>14. f \in [Int -> Int] /\ f[p] = y - 1 /\ f[v] = e[p]
  BY <1>2, <1>6, <1>11, <1>12 DEF Ranges
<1>15. Numbers(S, f) = Numbers(D, e) \ {y}
  BY <1>8, <1>11, <1>12
<1> QED  BY <1>8, <1>9, <1>12, <1>13, <1>14, <1>15 DEF SplitEnds

\* A list, made of its fields.
Made(d1, d2, nx, pr, h, t, n) ==
    [data1 |-> d1, data2 |-> d2, next |-> nx, prior |-> pr, head |-> h, tail |-> t, length |-> n]

\* A list with an array changed in one cell.
Put(f, c, v) == [f EXCEPT ![c] = v]

\* Every list is made of its fields.
LEMMA MadeOf ==
  ASSUME NEW l \in RcvLists
  PROVE  l = Made(l.data1, l.data2, l.next, l.prior, l.head, l.tail, l.length)
BY DEF Made, RcvLists

\* The three ways to insert, as lists made of fields.
LEMMA InsertMade ==
  ASSUME NEW d1, NEW d2, NEW nx, NEW pr, NEW h, NEW t, NEW n, NEW lo, NEW hi,
         NEW l, l = Made(d1, d2, nx, pr, h, t, n)
  PROVE  /\ n = 0 => RcvInsert(l, lo, hi) =
              Made(Put(d1, 0, lo), Put(d2, 0, IF hi = lo THEN d2[0] ELSE hi),
                   Put(nx, 0, Nil), Put(pr, 0, Nil), 0, 0, n + Seqlen(lo, hi))
         /\ n # 0 /\ TailReaches(l, lo) => RcvInsert(l, lo, hi) =
              Made(d1, Put(d2, t, hi), nx, pr, h, t, n + Seqlen(lo, hi))
         /\ \A c : n # 0 /\ ~TailReaches(l, lo) /\ c = RcvCell(l, lo) => RcvInsert(l, lo, hi) =
              Made(Put(d1, c, lo), Put(d2, c, IF hi = lo THEN d2[c] ELSE hi),
                   Put(Put(nx, t, c), c, Nil), Put(pr, c, t), h, c, n + Seqlen(lo, hi))
<1>1. PICK len : len = n + Seqlen(lo, hi)
  OBVIOUS
<1>2. PICK m : m = Made(d1, d2, nx, pr, h, t, len)
  OBVIOUS
<1>3. /\ l.data1 = d1 /\ l.data2 = d2 /\ l.next = nx /\ l.prior = pr
      /\ l.head = h /\ l.tail = t /\ l.length = n
  BY DEF Made
<1>4. [l EXCEPT !.length = @ + Seqlen(lo, hi)] = m
  BY <1>1, <1>2 DEF Made
<1>5. ASSUME NEW c
      PROVE  WithRange(m, c, lo, hi) = Made(Put(d1, c, lo),
                  Put(d2, c, IF hi = lo THEN d2[c] ELSE hi), nx, pr, h, t, len)
  <2>1. PICK v : v = IF hi = lo THEN d2[c] ELSE hi
    OBVIOUS
  <2>2. WithRange(m, c, lo, hi) = [m EXCEPT !.data1[c] = lo, !.data2[c] = v]
    BY <1>2, <2>1 DEF Made, WithRange
  <2>3. PICK s : s = [m EXCEPT !.data1[c] = lo, !.data2[c] = v]
    OBVIOUS
  <2>4. /\ s.data1 = [d1 EXCEPT ![c] = lo] /\ s.data2 = [d2 EXCEPT ![c] = v]
        /\ s.next = nx /\ s.prior = pr /\ s.head = h /\ s.tail = t /\ s.length = len
    BY <1>2, <2>3 DEF Made
  <2>5. s = Made(s.data1, s.data2, s.next, s.prior, s.head, s.tail, s.length)
    BY <1>2, <2>3 DEF Made
  <2>6. s = Made(Put(d1, c, lo), Put(d2, c, v), nx, pr, h, t, len)
    BY <2>4, <2>5 DEF Put
  <2> QED  BY <2>1, <2>2, <2>3, <2>6
<1>6. ASSUME n = 0
      PROVE  RcvInsert(l, lo, hi) =
              Made(Put(d1, 0, lo), Put(d2, 0, IF hi = lo THEN d2[0] ELSE hi),
                   Put(nx, 0, Nil), Put(pr, 0, Nil), 0, 0, len)
  <2>1. RcvInsert(l, lo, hi) = [WithRange(m, 0, lo, hi) EXCEPT
             !.head = 0, !.tail = 0, !.next[0] = Nil, !.prior[0] = Nil]
    BY <1>3, <1>4, <1>6 DEF RcvInsert
  <2>2. PICK e1, e2 : /\ e1 = Put(d1, 0, lo)
                      /\ e2 = Put(d2, 0, IF hi = lo THEN d2[0] ELSE hi)
    OBVIOUS
  <2>3. WithRange(m, 0, lo, hi) = Made(e1, e2, nx, pr, h, t, len)
    BY <1>5, <2>2
  <2>4. PICK s : s = RcvInsert(l, lo, hi)
    OBVIOUS
  <2>5. s = [Made(e1, e2, nx, pr, h, t, len) EXCEPT
             !.head = 0, !.tail = 0, !.next[0] = Nil, !.prior[0] = Nil]
    BY <2>1, <2>3, <2>4
  <2>6. /\ s.data1 = e1 /\ s.data2 = e2
        /\ s.next = [nx EXCEPT ![0] = Nil] /\ s.prior = [pr EXCEPT ![0] = Nil]
        /\ s.head = 0 /\ s.tail = 0 /\ s.length = len
    BY <2>5 DEF Made
  <2>7. s = Made(s.data1, s.data2, s.next, s.prior, s.head, s.tail, s.length)
    BY <2>5 DEF Made
  <2> QED  BY <2>2, <2>4, <2>6, <2>7 DEF Put
<1>7. ASSUME n # 0, TailReaches(l, lo)
      PROVE  RcvInsert(l, lo, hi) = Made(d1, Put(d2, t, hi), nx, pr, h, t, len)
  <2>1. RcvInsert(l, lo, hi) = [m EXCEPT !.data2[t] = hi]
    BY <1>3, <1>4, <1>7 DEF RcvInsert
  <2> QED  BY <1>2, <2>1 DEF Made, Put
<1>8. ASSUME n # 0, ~TailReaches(l, lo), NEW c, c = RcvCell(l, lo)
      PROVE  RcvInsert(l, lo, hi) =
              Made(Put(d1, c, lo), Put(d2, c, IF hi = lo THEN d2[c] ELSE hi),
                   Put(Put(nx, t, c), c, Nil), Put(pr, c, t), h, c, len)
  <2>1. RcvInsert(l, lo, hi) = [WithRange(m, c, lo, hi) EXCEPT
             !.next[t] = c, !.prior[c] = t, !.next[c] = Nil, !.tail = c]
    BY <1>3, <1>4, <1>8 DEF RcvInsert
  <2>2. PICK e1, e2 : /\ e1 = Put(d1, c, lo)
                      /\ e2 = Put(d2, c, IF hi = lo THEN d2[c] ELSE hi)
    OBVIOUS
  <2>3. WithRange(m, c, lo, hi) = Made(e1, e2, nx, pr, h, t, len)
    BY <1>5, <2>2
  <2>4. PICK s : s = RcvInsert(l, lo, hi)
    OBVIOUS
  <2>5. s = [Made(e1, e2, nx, pr, h, t, len) EXCEPT
             !.next[t] = c, !.prior[c] = t, !.next[c] = Nil, !.tail = c]
    BY <2>1, <2>3, <2>4
  <2>6. /\ s.data1 = e1 /\ s.data2 = e2
        /\ s.next = [[nx EXCEPT ![t] = c] EXCEPT ![c] = Nil] /\ s.prior = [pr EXCEPT ![c] = t]
        /\ s.head = h /\ s.tail = c /\ s.length = len
    BY <2>5 DEF Made
  <2>7. s = Made(s.data1, s.data2, s.next, s.prior, s.head, s.tail, s.length)
    BY <2>5 DEF Made
  <2> QED  BY <2>2, <2>4, <2>6, <2>7 DEF Put
<1> QED  BY <1>1, <1>6, <1>7, <1>8

\* One number fewer is counted.
LEMMA FewerMade ==
  ASSUME NEW d1, NEW d2, NEW nx, NEW pr, NEW h, NEW t, NEW n,
         NEW l, l = Made(d1, d2, nx, pr, h, t, n)
  PROVE  [l EXCEPT !.length = @ - 1] = Made(d1, d2, nx, pr, h, t, n - 1)
BY DEF Made

\* A range of one number taken out, by the four places it can be in.
LEMMA SingleMade ==
  ASSUME NEW d1, NEW d2, NEW nx, NEW pr, NEW h, NEW t, NEW n,
         NEW l, l = Made(d1, d2, nx, pr, h, t, n), NEW c,
         NEW p, p = pr[c], NEW k, k = nx[c],
         NEW e1, e1 = Put(d1, c, Nil), NEW en, en = Put(nx, c, Nil), NEW ep, ep = Put(pr, c, Nil)
  PROVE  /\ h = c /\ k = Nil => WithoutSingle(l, c) = Made(e1, d2, en, ep, Nil, t, n)
         /\ h = c /\ k # Nil => WithoutSingle(l, c) = Made(e1, d2, en, Put(ep, k, Nil), k, t, n)
         /\ h # c /\ k = Nil => WithoutSingle(l, c) = Made(e1, d2, Put(en, p, Nil), ep, h, p, n)
         /\ h # c /\ k # Nil =>
               WithoutSingle(l, c) = Made(e1, d2, Put(en, p, k), Put(ep, k, p), h, t, n)
<1>1. /\ l.data1 = d1 /\ l.data2 = d2 /\ l.next = nx /\ l.prior = pr
      /\ l.head = h /\ l.tail = t /\ l.length = n
  BY DEF Made
<1>2. PICK m : m = Made(e1, d2, en, ep, h, t, n)
  OBVIOUS
<1>3. [l EXCEPT !.data1[c] = Nil, !.next[c] = Nil, !.prior[c] = Nil] = m
  <2>1. PICK s : s = [l EXCEPT !.data1[c] = Nil, !.next[c] = Nil, !.prior[c] = Nil]
    OBVIOUS
  <2>2. /\ s.data1 = [d1 EXCEPT ![c] = Nil] /\ s.data2 = d2
        /\ s.next = [nx EXCEPT ![c] = Nil] /\ s.prior = [pr EXCEPT ![c] = Nil]
        /\ s.head = h /\ s.tail = t /\ s.length = n
    BY <2>1 DEF Made
  <2>3. s = Made(s.data1, s.data2, s.next, s.prior, s.head, s.tail, s.length)
    BY <2>1 DEF Made
  <2> QED  BY <1>2, <2>1, <2>2, <2>3 DEF Put
<1>4. WithoutSingle(l, c) =
        IF h = c
        THEN IF k = Nil THEN [m EXCEPT !.head = Nil]
             ELSE [m EXCEPT !.head = k, !.prior[k] = Nil]
        ELSE IF k = Nil THEN [m EXCEPT !.next[p] = Nil, !.tail = p]
             ELSE [m EXCEPT !.next[p] = k, !.prior[k] = p]
  BY <1>1, <1>3 DEF WithoutSingle
<1>5. [m EXCEPT !.head = Nil] = Made(e1, d2, en, ep, Nil, t, n)
  BY <1>2 DEF Made
<1>6. [m EXCEPT !.head = k, !.prior[k] = Nil] = Made(e1, d2, en, Put(ep, k, Nil), k, t, n)
  <2>1. PICK s : s = [m EXCEPT !.head = k, !.prior[k] = Nil]
    OBVIOUS
  <2>2. /\ s.data1 = e1 /\ s.data2 = d2 /\ s.next = en /\ s.prior = [ep EXCEPT ![k] = Nil]
        /\ s.head = k /\ s.tail = t /\ s.length = n
    BY <1>2, <2>1 DEF Made
  <2>3. s = Made(s.data1, s.data2, s.next, s.prior, s.head, s.tail, s.length)
    BY <1>2, <2>1 DEF Made
  <2> QED  BY <2>1, <2>2, <2>3 DEF Put
<1>7. [m EXCEPT !.next[p] = Nil, !.tail = p] = Made(e1, d2, Put(en, p, Nil), ep, h, p, n)
  <2>1. PICK s : s = [m EXCEPT !.next[p] = Nil, !.tail = p]
    OBVIOUS
  <2>2. /\ s.data1 = e1 /\ s.data2 = d2 /\ s.next = [en EXCEPT ![p] = Nil] /\ s.prior = ep
        /\ s.head = h /\ s.tail = p /\ s.length = n
    BY <1>2, <2>1 DEF Made
  <2>3. s = Made(s.data1, s.data2, s.next, s.prior, s.head, s.tail, s.length)
    BY <1>2, <2>1 DEF Made
  <2> QED  BY <2>1, <2>2, <2>3 DEF Put
<1>8. [m EXCEPT !.next[p] = k, !.prior[k] = p]
        = Made(e1, d2, Put(en, p, k), Put(ep, k, p), h, t, n)
  <2>1. PICK s : s = [m EXCEPT !.next[p] = k, !.prior[k] = p]
    OBVIOUS
  <2>2. /\ s.data1 = e1 /\ s.data2 = d2
        /\ s.next = [en EXCEPT ![p] = k] /\ s.prior = [ep EXCEPT ![k] = p]
        /\ s.head = h /\ s.tail = t /\ s.length = n
    BY <1>2, <2>1 DEF Made
  <2>3. s = Made(s.data1, s.data2, s.next, s.prior, s.head, s.tail, s.length)
    BY <1>2, <2>1 DEF Made
  <2> QED  BY <2>1, <2>2, <2>3 DEF Put
<1> QED  BY <1>4, <1>5, <1>6, <1>7, <1>8

\* A range moved to the next cell, without its first number.
LEMMA ShiftedMade ==
  ASSUME NEW d1, NEW d2, NEW nx, NEW pr, NEW h, NEW t, NEW n,
         NEW l, l = Made(d1, d2, nx, pr, h, t, n), NEW c, NEW d, d = After(c),
         NEW p, p = pr[c], NEW k, k = nx[c],
         NEW lo, lo = Incseq(d1[c]), NEW hi, hi = d2[c],
         NEW hb, hb = IF h = c THEN d ELSE h, NEW tb, tb = IF t = c THEN d ELSE t,
         NEW nb, nb = IF h = c THEN nx ELSE Put(nx, p, d),
         NEW pb, pb = IF t = c THEN pr ELSE Put(pr, k, d)
  PROVE  Shifted(l, c) =
            Made(Put(Put(d1, d, lo), c, Nil),
                 Put(Put(d2, d, IF hi = lo THEN d2[d] ELSE hi), c, Nil),
                 Put(Put(nb, d, k), c, Nil), Put(Put(pb, d, p), c, Nil), hb, tb, n)
<1>1. /\ l.data1 = d1 /\ l.data2 = d2 /\ l.next = nx /\ l.prior = pr
      /\ l.head = h /\ l.tail = t /\ l.length = n
  BY DEF Made
<1>2. PICK m : m = Made(d1, d2, nb, pb, hb, tb, n)
  OBVIOUS
<1>3. Relinked(l, c, d) = m
  <2>1. PICK b : b = Made(d1, d2, nb, pr, hb, t, n)
    OBVIOUS
  <2>2. (IF h = c THEN [l EXCEPT !.head = d] ELSE [l EXCEPT !.next[p] = d]) = b
    <3>1. [l EXCEPT !.head = d] = Made(d1, d2, nx, pr, d, t, n)
      BY DEF Made
    <3>2. [l EXCEPT !.next[p] = d] = Made(d1, d2, Put(nx, p, d), pr, h, t, n)
      BY DEF Made, Put
    <3> QED  BY <2>1, <3>1, <3>2
  <2>3. (IF t = c THEN [b EXCEPT !.tail = d] ELSE [b EXCEPT !.prior[k] = d]) = m
    <3>1. [b EXCEPT !.tail = d] = Made(d1, d2, nb, pr, hb, d, n)
      BY <2>1 DEF Made
    <3>2. [b EXCEPT !.prior[k] = d] = Made(d1, d2, nb, Put(pr, k, d), hb, t, n)
      BY <2>1 DEF Made, Put
    <3> QED  BY <1>2, <3>1, <3>2
  <2>4. Relinked(l, c, d) =
           LET before == IF h = c THEN [l EXCEPT !.head = d] ELSE [l EXCEPT !.next[p] = d]
           IN  IF t = c THEN [before EXCEPT !.tail = d] ELSE [before EXCEPT !.prior[k] = d]
    BY <1>1 DEF Relinked
  <2> QED  BY <2>2, <2>3, <2>4
<1>4. PICK v : v = IF hi = lo THEN d2[d] ELSE hi
  OBVIOUS
<1>5. PICK e1, e2 : e1 = Put(d1, d, lo) /\ e2 = Put(d2, d, v)
  OBVIOUS
<1>6. WithRange(m, d, lo, hi) = Made(e1, e2, nb, pb, hb, tb, n)
  <2>1. WithRange(m, d, lo, hi) = [m EXCEPT !.data1[d] = lo, !.data2[d] = v]
    BY <1>2, <1>4 DEF Made, WithRange
  <2>2. PICK s : s = [m EXCEPT !.data1[d] = lo, !.data2[d] = v]
    OBVIOUS
  <2>3. /\ s.data1 = [d1 EXCEPT ![d] = lo] /\ s.data2 = [d2 EXCEPT ![d] = v]
        /\ s.next = nb /\ s.prior = pb /\ s.head = hb /\ s.tail = tb /\ s.length = n
    BY <1>2, <2>2 DEF Made
  <2>4. s = Made(s.data1, s.data2, s.next, s.prior, s.head, s.tail, s.length)
    BY <1>2, <2>2 DEF Made
  <2> QED  BY <1>5, <2>1, <2>2, <2>3, <2>4 DEF Put
<1>7. PICK s : s = Shifted(l, c)
  OBVIOUS
<1>8. s = [Made(e1, e2, nb, pb, hb, tb, n) EXCEPT
              !.next[d] = k, !.prior[d] = p,
              !.data1[c] = Nil, !.data2[c] = Nil, !.next[c] = Nil, !.prior[c] = Nil]
  <2>1. l.next[c] = k /\ l.prior[c] = p /\ Incseq(l.data1[c]) = lo /\ l.data2[c] = hi
    BY <1>1
  <2>2. Shifted(l, c) = [WithRange(m, d, lo, hi) EXCEPT
              !.next[d] = k, !.prior[d] = p,
              !.data1[c] = Nil, !.data2[c] = Nil, !.next[c] = Nil, !.prior[c] = Nil]
    BY <1>3, <2>1 DEF Shifted
  <2> QED  BY <1>6, <1>7, <2>2
<1>9. /\ s.data1 = [e1 EXCEPT ![c] = Nil] /\ s.data2 = [e2 EXCEPT ![c] = Nil]
      /\ s.next = [[nb EXCEPT ![d] = k] EXCEPT ![c] = Nil]
      /\ s.prior = [[pb EXCEPT ![d] = p] EXCEPT ![c] = Nil]
      /\ s.head = hb /\ s.tail = tb /\ s.length = n
  BY <1>8 DEF Made
<1>10. s = Made(s.data1, s.data2, s.next, s.prior, s.head, s.tail, s.length)
  BY <1>8 DEF Made
<1> QED  BY <1>4, <1>5, <1>7, <1>9, <1>10 DEF Put

\* A range made to end earlier.
LEMMA ShortenedMade ==
  ASSUME NEW d1, NEW d2, NEW nx, NEW pr, NEW h, NEW t, NEW n,
         NEW l, l = Made(d1, d2, nx, pr, h, t, n), NEW c, NEW seq,
         NEW v, v = IF seq = Incseq(d1[c]) THEN Nil ELSE Decseq(seq)
  PROVE  Shortened(l, c, seq) = Made(d1, Put(d2, c, v), nx, pr, h, t, n)
<1>1. l.data1 = d1
  BY DEF Made
<1>2. Shortened(l, c, seq) = [l EXCEPT !.data2[c] = v]
  BY <1>1 DEF Shortened
<1> QED  BY <1>2 DEF Made, Put

\* A range split in two.
LEMMA SplitMade ==
  ASSUME NEW d1, NEW d2, NEW nx, NEW pr, NEW h, NEW t, NEW n,
         NEW l, l = Made(d1, d2, nx, pr, h, t, n), NEW c, NEW seq,
         NEW v, v = IF seq = Incseq(d1[c]) THEN Nil ELSE Decseq(seq),
         NEW e2, e2 = Put(d2, c, v),
         NEW d, d = After(RcvCell(l, seq)), NEW k, k = nx[c],
         NEW lo, lo = Incseq(seq), NEW hi, hi = d2[c],
         NEW tb, tb = IF t = c THEN d ELSE t,
         NEW pb, pb = IF t = c THEN Put(pr, d, c) ELSE Put(Put(pr, d, c), k, d)
  PROVE  Split(l, c, seq) =
            Made(Put(d1, d, lo), Put(e2, d, IF hi = lo THEN e2[d] ELSE hi),
                 Put(Put(nx, d, k), c, d), pb, h, tb, n)
<1>1. /\ l.data1 = d1 /\ l.data2 = d2 /\ l.next = nx /\ l.prior = pr
      /\ l.head = h /\ l.tail = t /\ l.length = n
  BY DEF Made
<1>2. PICK m : m = Made(d1, e2, nx, pr, h, t, n)
  OBVIOUS
<1>3. Shortened(l, c, seq) = m
  BY <1>2, ShortenedMade
<1>4. PICK u : u = IF hi = lo THEN e2[d] ELSE hi
  OBVIOUS
<1>5. PICK g1, g2 : g1 = Put(d1, d, lo) /\ g2 = Put(e2, d, u)
  OBVIOUS
<1>6. WithRange(m, d, lo, hi) = Made(g1, g2, nx, pr, h, t, n)
  <2>1. WithRange(m, d, lo, hi) = [m EXCEPT !.data1[d] = lo, !.data2[d] = u]
    BY <1>2, <1>4 DEF Made, WithRange
  <2>2. PICK s : s = [m EXCEPT !.data1[d] = lo, !.data2[d] = u]
    OBVIOUS
  <2>3. /\ s.data1 = [d1 EXCEPT ![d] = lo] /\ s.data2 = [e2 EXCEPT ![d] = u]
        /\ s.next = nx /\ s.prior = pr /\ s.head = h /\ s.tail = t /\ s.length = n
    BY <1>2, <2>2 DEF Made
  <2>4. s = Made(s.data1, s.data2, s.next, s.prior, s.head, s.tail, s.length)
    BY <1>2, <2>2 DEF Made
  <2> QED  BY <1>5, <2>1, <2>2, <2>3, <2>4 DEF Put
<1>7. PICK s : s = [Made(g1, g2, nx, pr, h, t, n) EXCEPT
                      !.next[d] = k, !.next[c] = d, !.prior[d] = c, !.tail = tb]
  OBVIOUS
<1>8. s = Made(g1, g2, Put(Put(nx, d, k), c, d), Put(pr, d, c), h, tb, n)
  <2>1. /\ s.data1 = g1 /\ s.data2 = g2
        /\ s.next = [[nx EXCEPT ![d] = k] EXCEPT ![c] = d] /\ s.prior = [pr EXCEPT ![d] = c]
        /\ s.head = h /\ s.tail = tb /\ s.length = n
    BY <1>7 DEF Made
  <2>2. s = Made(s.data1, s.data2, s.next, s.prior, s.head, s.tail, s.length)
    BY <1>7 DEF Made
  <2> QED  BY <2>1, <2>2 DEF Put
<1>9. Split(l, c, seq) = IF t = c THEN s ELSE [s EXCEPT !.prior[k] = d]
  <2>1. TailMoved(l, c, d) = tb
    BY <1>1 DEF TailMoved
  <2>2. Split(l, c, seq) =
           LET halves == [WithRange(m, d, lo, hi) EXCEPT !.next[d] = k, !.next[c] = d,
                             !.prior[d] = c, !.tail = tb]
           IN  IF t = c THEN halves ELSE [halves EXCEPT !.prior[k] = d]
    BY <1>1, <1>3, <2>1 DEF Split
  <2> QED  BY <1>6, <1>7, <2>2
<1>10. [s EXCEPT !.prior[k] = d]
         = Made(g1, g2, Put(Put(nx, d, k), c, d), Put(Put(pr, d, c), k, d), h, tb, n)
  BY <1>8 DEF Made, Put
<1>11. PICK ny : ny = Put(Put(nx, d, k), c, d)
  OBVIOUS
<1>12. Split(l, c, seq) = Made(g1, g2, ny, pb, h, tb, n)
  <2>1. CASE t = c
    BY <1>8, <1>9, <1>11, <2>1
  <2>2. CASE t # c
    BY <1>9, <1>10, <1>11, <2>2
  <2> QED  BY <2>1, <2>2
<1> QED  BY <1>4, <1>5, <1>11, <1>12

\* What is to be shown of a list made of its fields.
LEMMA HeldMade ==
  ASSUME NEW a, NEW z \in Int, NEW S, NEW f, Ranges(a, S, f), Apart(S, f),
         NEW d1, NEW d2, Stored(RcvSize, z, S, f, d1, d2),
         NEW nx, NEW pr, NEW h \in RcvLinks, NEW t \in RcvLinks,
         Chain(RcvSize, z, S, nx, pr, h, t),
         NEW n \in Int, NEW s, s = Made(d1, d2, nx, pr, h, t, n)
  PROVE  RcvHeld(s, a, z, S, f) /\ s.length = n
<1>1. d1 \in [RcvCells -> Int] /\ d2 \in [RcvCells -> Int]
  BY DEF Stored, RcvCells
<1>2. nx \in [RcvCells -> RcvLinks] /\ pr \in [RcvCells -> RcvLinks]
  BY DEF Chain, RcvCells, RcvLinks
<1>3. /\ s \in RcvLists
      /\ s.data1 = d1 /\ s.data2 = d2 /\ s.next = nx /\ s.prior = pr
      /\ s.head = h /\ s.tail = t /\ s.length = n
  BY <1>1, <1>2 DEF Made, RcvLists
<1> QED  BY <1>3 DEF RcvHeld

\* A list, taken apart.
Opened(l, a, z, D, e, d1, d2, nx, pr, h, t, n) ==
    /\ l = Made(d1, d2, nx, pr, h, t, n)
    /\ l.data1 = d1 /\ l.data2 = d2 /\ l.next = nx /\ l.prior = pr
    /\ l.head = h /\ l.tail = t /\ l.length = n
    /\ d1 \in [RcvCells -> Int] /\ d2 \in [RcvCells -> Int]
    /\ nx \in [RcvCells -> RcvLinks] /\ pr \in [RcvCells -> RcvLinks]
    /\ h \in RcvLinks /\ t \in RcvLinks /\ n \in Int
    /\ Stored(RcvSize, z, D, e, d1, d2) /\ Chain(RcvSize, z, D, nx, pr, h, t)

\* Every list that holds ranges can be.
LEMMA RcvOpened ==
  ASSUME NEW l, NEW a, NEW z, NEW D, NEW e, RcvHeld(l, a, z, D, e)
  PROVE  \E d1, d2, nx, pr, h, t, n : Opened(l, a, z, D, e, d1, d2, nx, pr, h, t, n)
<1>1. l \in RcvLists /\ Stored(RcvSize, z, D, e, l.data1, l.data2)
      /\ Chain(RcvSize, z, D, l.next, l.prior, l.head, l.tail)
  BY DEF RcvHeld
<1>2. PICK d1, d2, nx, pr, h, t, n :
         /\ d1 = l.data1 /\ d2 = l.data2 /\ nx = l.next /\ pr = l.prior
         /\ h = l.head /\ t = l.tail /\ n = l.length
  OBVIOUS
<1>3. l = Made(d1, d2, nx, pr, h, t, n)
  BY <1>1, <1>2, MadeOf
<1>4. Opened(l, a, z, D, e, d1, d2, nx, pr, h, t, n)
  BY <1>1, <1>2, <1>3, RcvFields DEF Opened
<1> QED  BY <1>4

\* The first losses go into the first cell.
LEMMA InsertFirst ==
  ASSUME NEW l, NEW a, NEW z, NEW e, RcvHolds(l, a, z, {}, e),
         NEW x \in WindowFrom(a), NEW h \in WindowFrom(a), x <= h
  PROVE  \E y \in Int : \E S, f : /\ RcvHeld(RcvInsert(l, Wrap(x), Wrap(h)), a, y, S, f)
                                  /\ RcvInsert(l, Wrap(x), Wrap(h)).length = l.length + (h - x + 1)
                                  /\ Numbers(S, f) = Numbers({}, e) \cup (x .. h)
<1>1. /\ RcvHeld(l, a, z, {}, e) /\ l.length = Cardinality(Numbers({}, e))
      /\ Ranges(a, {}, e) /\ a \in Int /\ Size(RcvSize) /\ z \in Int /\ e \in [Int -> Int]
  BY RcvParts DEF RcvHolds
<1>2. PICK d1, d2, nx, pr, hd, t, n : Opened(l, a, z, {}, e, d1, d2, nx, pr, hd, t, n)
  BY <1>1, RcvOpened
<1>3. /\ l = Made(d1, d2, nx, pr, hd, t, n) /\ l.length = n /\ n \in Int /\ l \in RcvLists
      /\ d1 \in [RcvCells -> Int] /\ d2 \in [RcvCells -> Int]
      /\ nx \in [RcvCells -> RcvLinks] /\ pr \in [RcvCells -> RcvLinks]
      /\ Stored(RcvSize, z, {}, e, d1, d2)
  BY <1>1, <1>2 DEF Opened, RcvHeld
<1>4. n = 0
  BY <1>1, <1>3, NoNumbers
<1>5. /\ RcvSize \in Nat \ {0} /\ 0 \in RcvCells /\ RcvCells = 0 .. (RcvSize - 1)
      /\ 0 \in RcvLinks /\ Nil \in RcvLinks /\ 0 # Nil /\ Nil \in Int
      /\ RcvLinks = RcvCells \cup {Nil}
  BY <1>3, RcvFields DEF RcvLinks, Nil
<1>6. /\ x \in Int /\ h \in Int /\ Wrap(x) \in Int /\ Wrap(h) \in Int
      /\ (Wrap(x) = Wrap(h) <=> x = h) /\ Seqlen(Wrap(x), Wrap(h)) = h - x + 1
  BY <1>1, WrapNear
<1>7. PICK y \in Int : Place(RcvSize, y, x) = 0
  BY <1>5, <1>6, PlaceFirst
<1>8. PICK v \in Int : v = IF Wrap(h) = Wrap(x) THEN d2[0] ELSE Wrap(h)
  BY <1>3, <1>5, <1>6
<1>9. PICK b1, b2, nb, pb : /\ b1 = Put(d1, 0, Wrap(x)) /\ b2 = Put(d2, 0, v)
                            /\ nb = Put(nx, 0, Nil) /\ pb = Put(pr, 0, Nil)
  OBVIOUS
<1>10. PICK s : s = RcvInsert(l, Wrap(x), Wrap(h))
  OBVIOUS
<1>11. s = Made(b1, b2, nb, pb, 0, 0, n + (h - x + 1))
  BY <1>3, <1>4, <1>6, <1>8, <1>9, <1>10, InsertMade
<1>12. /\ b1 \in [RcvCells -> Int] /\ b1[0] = Wrap(x)
       /\ \A i \in RcvCells : i # 0 => b1[i] = d1[i]
  BY <1>3, <1>5, <1>6, <1>9 DEF Put
<1>13. /\ b2 \in [RcvCells -> Int] /\ b2[0] = v
       /\ \A i \in RcvCells : i # 0 => b2[i] = d2[i]
  BY <1>3, <1>5, <1>8, <1>9 DEF Put
<1>14. nb \in [RcvCells -> RcvLinks] /\ nb[0] = Nil /\ pb \in [RcvCells -> RcvLinks]
  BY <1>3, <1>5, <1>9 DEF Put
<1>15. PICK f : f = Ending(e, x, h)
  OBVIOUS
<1>16. f[x] = h /\ f \in [Int -> Int]
  BY <1>1, <1>6, <1>15, EndingIs
<1>17. PICK S : S = {} \cup {x}
  OBVIOUS
<1>18. /\ Ranges(a, S, f) /\ Numbers(S, f) = Numbers({}, e) \cup (x .. h)
       /\ Agree({} \ {x}, f, e)
  BY <1>1, <1>15, <1>17, NumbersEnding
<1>19. Stored(RcvSize, y, {}, e, d1, d2)
  BY <1>3 DEF Stored
<1>20. v = Second(x, h)
  <2>1. d2[0] = Nil
    BY <1>3, <1>5 DEF Stored
  <2> QED  BY <1>6, <1>8, <2>1 DEF Second
<1>21. PutIn(RcvSize, y, x, f[x], d1, d2, b1, b2)
  BY <1>5, <1>7, <1>12, <1>13, <1>16, <1>20 DEF PutIn, ElsewhereSame
<1>22. Stored(RcvSize, y, S, f, b1, b2)
  BY ONLY <1>1, <1>17, <1>18, <1>19, <1>21, StoredPut, x \in WindowFrom(a), y \in Int
<1>23. Chain(RcvSize, y, S, nb, pb, 0, 0)
  <2>1. S = {x}
    BY <1>17
  <2>2. \A u, w \in S : ~NextIn(S, u, w)
    BY <1>6, <2>1 DEF NextIn
  <2> QED  BY <1>5, <1>7, <1>14, <2>1, <2>2 DEF Chain, HeadIs
<1>24. Apart(S, f)
  BY <1>6, <1>17 DEF Apart
<1>25. RcvHeld(s, a, y, S, f) /\ s.length = n + (h - x + 1)
  <2>1. n + (h - x + 1) \in Int
    BY <1>3, <1>6
  <2> QED  BY <1>5, <1>11, <1>18, <1>22, <1>23, <1>24, <2>1, HeldMade
<1> QED  BY <1>3, <1>10, <1>18, <1>25

\* Where a list that is not empty ends.
LEMMA TailIs ==
  ASSUME NEW l, NEW a, NEW z, NEW D, NEW e, RcvHeld(l, a, z, D, e), D # {},
         NEW x \in WindowFrom(a), \A n \in Numbers(D, e) : n < x
  PROVE  \E p \in D : /\ PriorIn(D, p, x) /\ LastIn(D, p) /\ p < x /\ e[p] < x
                      /\ l.tail = Place(RcvSize, z, p)
                      /\ TailReaches(l, Wrap(x)) <=> (e[p] # p /\ e[p] + 1 = x)
<1>1. /\ l \in RcvLists /\ z \in Int /\ a \in Int /\ x \in Int
      /\ D \in SUBSET WindowFrom(a) /\ D \in SUBSET Int /\ e \in [Int -> Int]
      /\ \A w \in D : w <= e[w] /\ e[w] \in WindowFrom(a) /\ e[w] \in Int
      /\ Ranges(a, D, e) /\ Size(RcvSize)
      /\ Stored(RcvSize, z, D, e, l.data1, l.data2)
      /\ Chain(RcvSize, z, D, l.next, l.prior, l.head, l.tail)
  BY RcvParts, Near
<1>2. \A w \in D : e[w] \in Numbers(D, e) /\ w \in Numbers(D, e)
  BY <1>1, NumbersInWindow
<1>3. PICK p \in D : PriorIn(D, p, x)
  <2>1. (\A w \in D : x <= w) \/ \E u \in D : PriorIn(D, u, x)
    BY <1>1, Neighbours
  <2>2. ~(\A w \in D : x <= w)
    <3>1. PICK w : w \in D
      OBVIOUS
    <3>2. w < x /\ w \in Int
      BY <1>1, <1>2, <3>1
    <3> QED  BY <1>1, <3>1, <3>2
  <2> QED  BY <2>1, <2>2
<1>4. p < x /\ e[p] < x /\ p \in Int /\ e[p] \in Int /\ p \in WindowFrom(a)
      /\ e[p] \in WindowFrom(a)
  BY <1>1, <1>2
<1>5. LastIn(D, p)
  BY <1>1, <1>2, <1>3 DEF LastIn, PriorIn
<1>6. l.tail = Place(RcvSize, z, p)
  BY <1>1, <1>5 DEF Chain
<1>7. PICK s : s = l.data2[Place(RcvSize, z, p)]
  OBVIOUS
<1>8. s = Second(p, e[p])
  BY <1>1, <1>7 DEF Stored
<1>9. TailReaches(l, Wrap(x)) <=> s # Nil /\ Incseq(s) = Wrap(x)
  BY <1>6, <1>7 DEF TailReaches
<1>10. PICK y \in Int : y = e[p] + 1
  BY <1>4
<1>11. Incseq(Wrap(e[p])) = Wrap(y) /\ Wrap(e[p]) # Nil /\ (Wrap(y) = Wrap(x) <=> y = x)
  <2>1. y \in WindowFrom(a)
    BY <1>1, <1>4, <1>10, WindowAssumption DEF WindowFrom
  <2>2. Wrap(y) = Wrap(x) <=> y = x
    BY ONLY <1>1, <2>1, WrapNear, x \in WindowFrom(a)
  <2>3. Wrap(e[p]) # Nil
    BY ONLY <1>1, <1>4, WrapNear
  <2>4. Incseq(Wrap(e[p])) = Wrap(e[p] + 1)
    BY ONLY <1>4, WrapSteps
  <2> QED  BY <1>10, <2>2, <2>3, <2>4
<1>12. TailReaches(l, Wrap(x)) <=> (e[p] # p /\ e[p] + 1 = x)
  BY <1>8, <1>9, <1>10, <1>11 DEF Second
<1> QED  BY <1>3, <1>4, <1>5, <1>6, <1>12

\* A range is made longer.
LEMMA NumbersTo ==
  ASSUME NEW a, NEW D, NEW e, Ranges(a, D, e), NEW p \in WindowFrom(a), NEW h \in WindowFrom(a),
         p <= h, p \in D, e[p] <= h, NEW f, f = Ending(e, p, h)
  PROVE  /\ Ranges(a, D, f) /\ Agree(D \ {p}, f, e)
         /\ Numbers(D, f) = Numbers(D, e) \cup (p .. h)
<1>1. /\ Ranges(a, D, e) /\ p \in WindowFrom(a) /\ h \in WindowFrom(a) /\ p <= h
      /\ p \in D => e[p] <= h
  OBVIOUS
<1>2. /\ Ranges(a, D \cup {p}, Ending(e, p, h))
      /\ Numbers(D \cup {p}, Ending(e, p, h)) = Numbers(D, e) \cup (p .. h)
      /\ Numbers(D \ {p}, Ending(e, p, h)) = Numbers(D \ {p}, e)
      /\ Agree(D \ {p}, Ending(e, p, h), e)
  BY ONLY <1>1, NumbersEnding
<1>3. D \cup {p} = D
  OBVIOUS
<1> QED  BY <1>2, <1>3

\* A range is new.
LEMMA NumbersNew ==
  ASSUME NEW a, NEW D, NEW e, Ranges(a, D, e), NEW x \in WindowFrom(a), NEW h \in WindowFrom(a),
         x <= h, x \notin D, NEW S, S = D \cup {x}, NEW f, f = Ending(e, x, h)
  PROVE  /\ Ranges(a, S, f) /\ Agree(D \ {x}, f, e)
         /\ Numbers(S, f) = Numbers(D, e) \cup (x .. h)
<1>1. /\ Ranges(a, D, e) /\ x \in WindowFrom(a) /\ h \in WindowFrom(a) /\ x <= h
      /\ x \in D => e[x] <= h
  OBVIOUS
<1>2. /\ Ranges(a, D \cup {x}, Ending(e, x, h))
      /\ Numbers(D \cup {x}, Ending(e, x, h)) = Numbers(D, e) \cup (x .. h)
      /\ Numbers(D \ {x}, Ending(e, x, h)) = Numbers(D \ {x}, e)
      /\ Agree(D \ {x}, Ending(e, x, h), e)
  BY ONLY <1>1, NumbersEnding
<1> QED  BY <1>2

\* Losses that go on where the last range ends make it longer.
LEMMA InsertLonger ==
  ASSUME NEW l, NEW a, NEW z, NEW D, NEW e, RcvHolds(l, a, z, D, e), NEW p \in D,
         LastIn(D, p), p < e[p], l.tail = Place(RcvSize, z, p), NEW x, x = e[p] + 1,
         TailReaches(l, Wrap(x)), x \in WindowFrom(a), NEW h \in WindowFrom(a), x <= h
  PROVE  \E S, f : /\ RcvHeld(RcvInsert(l, Wrap(x), Wrap(h)), a, z, S, f)
                   /\ RcvInsert(l, Wrap(x), Wrap(h)).length = l.length + (h - x + 1)
                   /\ Numbers(S, f) = Numbers(D, e) \cup (x .. h)
<1>1. /\ RcvHeld(l, a, z, D, e) /\ l.length = Cardinality(Numbers(D, e))
      /\ l \in RcvLists /\ z \in Int /\ a \in Int
      /\ D \in SUBSET WindowFrom(a) /\ D \in SUBSET Int /\ e \in [Int -> Int]
      /\ \A w \in D : w <= e[w] /\ e[w] \in WindowFrom(a) /\ e[w] \in Int
      /\ Ranges(a, D, e) /\ Apart(D, e) /\ Size(RcvSize)
  BY RcvParts DEF RcvHolds
<1>2. PICK d1, d2, nx, pr, hd, t, n : Opened(l, a, z, D, e, d1, d2, nx, pr, hd, t, n)
  BY <1>1, RcvOpened
<1>3. /\ l = Made(d1, d2, nx, pr, hd, t, n) /\ l.length = n /\ n \in Int /\ l.tail = t
      /\ d1 \in [RcvCells -> Int] /\ d2 \in [RcvCells -> Int]
      /\ hd \in RcvLinks /\ t \in RcvLinks
      /\ Stored(RcvSize, z, D, e, d1, d2) /\ Chain(RcvSize, z, D, nx, pr, hd, t)
  BY <1>2 DEF Opened
<1>4. n # 0
  BY <1>1, <1>3, NoNumbers
<1>5. /\ x \in Int /\ h \in Int /\ Wrap(x) \in Int /\ Wrap(h) \in Int /\ Wrap(h) # Nil
      /\ Seqlen(Wrap(x), Wrap(h)) = h - x + 1
  BY <1>1, WrapNear
<1>6. p \in Int /\ p < x /\ p # h /\ p <= h /\ e[p] <= h /\ e[p] \in Int
      /\ p \in WindowFrom(a)
  BY <1>1, <1>5
<1>7. t \in RcvCells /\ RcvCells = 0 .. (RcvSize - 1) /\ t = Place(RcvSize, z, p)
  <2>1. Place(RcvSize, z, p) \in 0 .. (RcvSize - 1)
    BY <1>1, <1>6, PlaceNear
  <2> QED  BY <1>3, <2>1 DEF RcvCells
<1>8. PICK b2 : b2 = Put(d2, t, Wrap(h))
  OBVIOUS
<1>9. PICK s : s = RcvInsert(l, Wrap(x), Wrap(h))
  OBVIOUS
<1>10. s = Made(d1, b2, nx, pr, hd, t, n + (h - x + 1))
  BY <1>3, <1>4, <1>5, <1>8, <1>9, InsertMade
<1>11. /\ b2 \in [RcvCells -> Int] /\ b2[t] = Wrap(h)
       /\ \A i \in RcvCells : i # t => b2[i] = d2[i]
  BY <1>3, <1>5, <1>7, <1>8 DEF Put
<1>12. PICK f : f = Ending(e, p, h)
  OBVIOUS
<1>13. f[p] = h /\ f \in [Int -> Int] /\ \A u \in Int : u # p => f[u] = e[u]
  BY <1>1, <1>5, <1>6, <1>12, EndingIs
<1>14. /\ Ranges(a, D, f) /\ Numbers(D, f) = Numbers(D, e) \cup (p .. h)
       /\ Agree(D \ {p}, f, e)
  <2>1. /\ Ranges(a, D, e) /\ p \in WindowFrom(a) /\ h \in WindowFrom(a)
        /\ p <= h /\ p \in D /\ e[p] <= h
    BY <1>1, <1>6
  <2>2. /\ Ranges(a, D, f) /\ Agree(D \ {p}, f, e)
        /\ Numbers(D, f) = Numbers(D, e) \cup (p .. h)
    BY ONLY <1>12, <2>1, NumbersTo
  <2> QED  BY <2>2
<1>15. D \cup {p} = D
  OBVIOUS
<1>16. Numbers(D, e) \cup (p .. h) = Numbers(D, e) \cup (x .. h)
  <2>1. p .. e[p] \in SUBSET Numbers(D, e)
    BY <1>1, NumbersInWindow
  <2>2. \A i \in p .. h : i \in p .. e[p] \/ i \in x .. h
    BY <1>5, <1>6
  <2>3. \A i \in x .. h : i \in p .. h
    BY <1>5, <1>6
  <2> QED  BY <2>1, <2>2, <2>3
<1>17. Apart(D, f)
  <2>1. \A w \in D : w <= p
    BY DEF LastIn
  <2> QED  BY <1>1, <1>6, <1>13, <2>1 DEF Apart
<1>18. PutIn(RcvSize, z, p, f[p], d1, d2, d1, b2)
  <2>1. d1[t] = Wrap(p)
    BY <1>3, <1>7 DEF Stored
  <2>2. Second(p, h) = Wrap(h)
    BY <1>6 DEF Second
  <2> QED  BY <1>3, <1>7, <1>11, <1>13, <2>1, <2>2 DEF PutIn, ElsewhereSame
<1>19. Stored(RcvSize, z, D, f, d1, b2)
  <2>1. Stored(RcvSize, z, D \cup {p}, f, d1, b2)
    BY ONLY <1>1, <1>3, <1>6, <1>14, <1>18, StoredPut
  <2> QED  BY <1>15, <2>1
<1>20. RcvHeld(s, a, z, D, f) /\ s.length = n + (h - x + 1)
  <2>1. n + (h - x + 1) \in Int
    BY <1>3, <1>5
  <2> QED  BY ONLY <1>1, <1>3, <1>10, <1>14, <1>17, <1>19, <2>1, HeldMade
<1> QED  BY <1>3, <1>9, <1>14, <1>15, <1>16, <1>20

\* Other losses are a new range, the last.
LEMMA InsertAfter ==
  ASSUME NEW l, NEW a, NEW z, NEW D, NEW e, RcvHolds(l, a, z, D, e), NEW p \in D,
         LastIn(D, p), NEW x \in WindowFrom(a), PriorIn(D, p, x), e[p] < x,
         l.tail = Place(RcvSize, z, p), ~TailReaches(l, Wrap(x)),
         NEW h \in WindowFrom(a), x <= h
  PROVE  \E S, f : /\ RcvHeld(RcvInsert(l, Wrap(x), Wrap(h)), a, z, S, f)
                   /\ RcvInsert(l, Wrap(x), Wrap(h)).length = l.length + (h - x + 1)
                   /\ Numbers(S, f) = Numbers(D, e) \cup (x .. h)
<1>1. /\ RcvHeld(l, a, z, D, e) /\ l.length = Cardinality(Numbers(D, e))
      /\ l \in RcvLists /\ z \in Int /\ a \in Int
      /\ D \in SUBSET WindowFrom(a) /\ D \in SUBSET Int /\ e \in [Int -> Int]
      /\ \A w \in D : w <= e[w] /\ e[w] \in WindowFrom(a) /\ e[w] \in Int
      /\ Ranges(a, D, e) /\ Apart(D, e) /\ Size(RcvSize)
  BY RcvParts DEF RcvHolds
<1>2. PICK d1, d2, nx, pr, hd, t, n : Opened(l, a, z, D, e, d1, d2, nx, pr, hd, t, n)
  BY <1>1, RcvOpened
<1>3. /\ l = Made(d1, d2, nx, pr, hd, t, n) /\ l.length = n /\ n \in Int /\ l.tail = t
      /\ d1 \in [RcvCells -> Int] /\ d2 \in [RcvCells -> Int]
      /\ nx \in [RcvCells -> RcvLinks] /\ pr \in [RcvCells -> RcvLinks]
      /\ hd \in RcvLinks /\ t \in RcvLinks
      /\ Stored(RcvSize, z, D, e, d1, d2) /\ Chain(RcvSize, z, D, nx, pr, hd, t)
  BY <1>2 DEF Opened
<1>4. n # 0
  BY <1>1, <1>3, NoNumbers
<1>5. /\ x \in Int /\ h \in Int /\ Wrap(x) \in Int /\ Wrap(h) \in Int
      /\ (Wrap(x) = Wrap(h) <=> x = h) /\ Seqlen(Wrap(x), Wrap(h)) = h - x + 1
  BY <1>1, WrapNear
<1>6. /\ \A w \in D : w <= p /\ w < x
      /\ p \in Int /\ p < x /\ x \notin D /\ p \in WindowFrom(a)
  BY <1>1, <1>5 DEF LastIn, PriorIn
<1>7. PICK c \in RcvCells : c = Place(RcvSize, z, x) /\ c = RcvCell(l, Wrap(x))
  <2>1. PICK g : FirstIn(D, g)
    BY <1>1, Neighbours
  <2>2. RcvCell(l, Wrap(x)) = Place(RcvSize, z, x)
    BY <1>1, <2>1, RcvCellIs
  <2>3. Place(RcvSize, z, x) \in 0 .. (RcvSize - 1)
    BY <1>1, PlaceNear
  <2> QED  BY <2>2, <2>3 DEF RcvCells
<1>8. /\ RcvCells = 0 .. (RcvSize - 1) /\ c \in RcvLinks /\ Nil \in RcvLinks
      /\ RcvLinks = RcvCells \cup {Nil} /\ Nil \notin RcvCells
      /\ t \in RcvCells /\ t = Place(RcvSize, z, p)
  <2>1. Place(RcvSize, z, p) \in 0 .. (RcvSize - 1)
    BY <1>1, <1>6, PlaceNear
  <2> QED  BY <1>1, <1>3, <1>7, <2>1, RcvFields
<1>9. \A w \in D : Place(RcvSize, z, w) \in RcvCells /\ Place(RcvSize, z, w) # c
                   /\ (Place(RcvSize, z, w) = t <=> w = p)
  <2> TAKE w \in D
  <2>1. w \in WindowFrom(a) /\ w # x
    BY <1>1, <1>6
  <2>2. /\ Place(RcvSize, z, w) \in 0 .. (RcvSize - 1)
        /\ Place(RcvSize, z, w) = Place(RcvSize, z, x) <=> w = x
    BY ONLY <1>1, <2>1, PlaceNear, x \in WindowFrom(a)
  <2>3. Place(RcvSize, z, w) = Place(RcvSize, z, p) <=> w = p
    BY ONLY <1>1, <1>6, <2>1, PlaceNear
  <2> QED  BY <1>7, <1>8, <2>1, <2>2, <2>3
<1>10. PICK v \in Int : v = IF Wrap(h) = Wrap(x) THEN d2[c] ELSE Wrap(h)
  BY <1>3, <1>5, <1>7
<1>11. PICK b1, b2, n1, nb, pb :
          /\ b1 = Put(d1, c, Wrap(x)) /\ b2 = Put(d2, c, v)
          /\ n1 = Put(nx, t, c) /\ nb = Put(n1, c, Nil) /\ pb = Put(pr, c, t)
  OBVIOUS
<1>12. PICK s : s = RcvInsert(l, Wrap(x), Wrap(h))
  OBVIOUS
<1>13. s = Made(b1, b2, nb, pb, hd, c, n + (h - x + 1))
  BY <1>3, <1>4, <1>5, <1>7, <1>10, <1>11, <1>12, InsertMade
<1>14. /\ b1 \in [RcvCells -> Int] /\ b1[c] = Wrap(x)
       /\ \A i \in RcvCells : i # c => b1[i] = d1[i]
  BY <1>3, <1>5, <1>7, <1>11 DEF Put
<1>15. /\ b2 \in [RcvCells -> Int] /\ b2[c] = v
       /\ \A i \in RcvCells : i # c => b2[i] = d2[i]
  BY <1>3, <1>7, <1>10, <1>11 DEF Put
<1>16. /\ n1 \in [RcvCells -> RcvLinks] /\ n1[t] = c
       /\ \A i \in RcvCells : i # t => n1[i] = nx[i]
  BY <1>3, <1>7, <1>8, <1>11 DEF Put
<1>17. /\ nb \in [RcvCells -> RcvLinks] /\ nb[c] = Nil
       /\ \A i \in RcvCells : i # c => nb[i] = n1[i]
  BY <1>7, <1>8, <1>11, <1>16 DEF Put
<1>18. /\ pb \in [RcvCells -> RcvLinks] /\ pb[c] = t
       /\ \A i \in RcvCells : i # c => pb[i] = pr[i]
  BY <1>3, <1>7, <1>8, <1>11 DEF Put
<1>19. PICK S : S = D \cup {x}
  OBVIOUS
<1>20. PICK f : f = Ending(e, x, h)
  OBVIOUS
<1>21. f[x] = h /\ f \in [Int -> Int] /\ \A u \in Int : u # x => f[u] = e[u]
  BY <1>1, <1>5, <1>20, EndingIs
<1>22. /\ Ranges(a, S, f) /\ Numbers(S, f) = Numbers(D, e) \cup (x .. h)
       /\ Agree(D \ {x}, f, e)
  <2>1. /\ Ranges(a, D, e) /\ x \in WindowFrom(a) /\ h \in WindowFrom(a) /\ x <= h
        /\ x \notin D /\ S = D \cup {x} /\ f = Ending(e, x, h)
    BY <1>1, <1>6, <1>19, <1>20
  <2> QED  BY ONLY <2>1, NumbersNew
<1>23. v = Second(x, h)
  <2>1. d2[c] = Nil
    <3>1. d2[Place(RcvSize, z, x)] = Nil
      BY ONLY <1>1, <1>3, <1>6, Found, x \in WindowFrom(a)
    <3> QED  BY <1>7, <3>1
  <2> QED  BY <1>5, <1>10, <2>1 DEF Second
<1>24. PutIn(RcvSize, z, x, f[x], d1, d2, b1, b2)
  BY <1>7, <1>8, <1>14, <1>15, <1>21, <1>23 DEF PutIn, ElsewhereSame
<1>25. Stored(RcvSize, z, S, f, b1, b2)
  BY ONLY <1>1, <1>3, <1>19, <1>22, <1>24, StoredPut, x \in WindowFrom(a)
<1>26. Chain(RcvSize, z, S, nb, pb, hd, c)
  <2>1. LinksTyped(RcvSize, nb, pb)
    BY <1>8, <1>17, <1>18 DEF LinksTyped
  <2>2. nx[Place(RcvSize, z, p)] = Nil
    BY <1>3 DEF Chain
  <2>3. nb[Place(RcvSize, z, p)] = c /\ nb[c] = nx[Place(RcvSize, z, p)]
    BY <1>8, <1>9, <1>16, <1>17, <2>2
  <2>4. \A w \in D : w # p => nb[Place(RcvSize, z, w)] = nx[Place(RcvSize, z, w)]
    BY <1>9, <1>16, <1>17
  <2>5. \A w \in D : ~NextIn(D, p, w)
    BY <1>1, <1>6 DEF NextIn
  <2>6. \A w \in D : pb[Place(RcvSize, z, w)] = pr[Place(RcvSize, z, w)]
    BY <1>9, <1>18
  <2>7. pb[c] = Place(RcvSize, z, p)
    BY <1>8, <1>18
  <2>8. c = Place(RcvSize, z, x) /\ x \in Int
    BY <1>5, <1>7
  <2>9. /\ \A w \in D : NextIn(D, p, w) => pb[Place(RcvSize, z, w)] = Place(RcvSize, z, x)
        /\ \A w \in D : ~NextIn(D, p, w) => pb[Place(RcvSize, z, w)] = pr[Place(RcvSize, z, w)]
    BY <2>5, <2>6
  <2>10. /\ LastIn(D, p) => c = Place(RcvSize, z, x)
         /\ ~LastIn(D, p) => c = t
    BY <2>8
  <2>11. /\ nb[Place(RcvSize, z, p)] = Place(RcvSize, z, x)
         /\ nb[Place(RcvSize, z, x)] = nx[Place(RcvSize, z, p)]
         /\ pb[Place(RcvSize, z, x)] = Place(RcvSize, z, p)
    BY <2>3, <2>7, <2>8
  <2>12. AddedLinks(RcvSize, z, D, p, x, nx, pr, t, nb, pb, c)
    BY <2>1, <2>4, <2>9, <2>10, <2>11 DEF AddedLinks
  <2> QED  BY ONLY <1>1, <1>3, <1>6, <1>19, <2>8, <2>12, ChainAdded, p \in D, PriorIn(D, p, x)
<1>27. Apart(S, f)
  <2> SUFFICES ASSUME NEW u \in S, NEW w \in S, u < w PROVE f[u] < w
    BY DEF Apart
  <2>1. u \in D /\ u # x /\ u \in Int /\ f[u] = e[u]
    BY <1>1, <1>5, <1>6, <1>19, <1>21
  <2>2. CASE w = x
    <3>1. u < p => e[u] < p
      BY <1>1, <2>1 DEF Apart
    <3>2. e[u] < x
      BY <1>1, <1>6, <2>1, <3>1
    <3> QED  BY <2>1, <2>2, <3>2
  <2>3. CASE w # x
    BY <1>1, <1>19, <2>1, <2>3 DEF Apart
  <2> QED  BY <2>2, <2>3
<1>28. RcvHeld(s, a, z, S, f) /\ s.length = n + (h - x + 1)
  <2>1. n + (h - x + 1) \in Int
    BY <1>3, <1>5
  <2>2. z \in Int /\ hd \in RcvLinks /\ c \in RcvLinks
    BY <1>1, <1>3, <1>8
  <2> QED  BY ONLY <1>13, <1>22, <1>25, <1>26, <1>27, <2>1, <2>2, HeldMade
<1> QED  BY <1>3, <1>12, <1>22, <1>28

\* insert adds the gap to the numbers.
LEMMA RcvInsertHolds ==
  ASSUME NEW l, NEW a, NEW z, NEW D, NEW e, RcvHolds(l, a, z, D, e),
         NEW x \in WindowFrom(a), NEW h \in WindowFrom(a), x <= h,
         \A n \in Numbers(D, e) : n < x
  PROVE  \E y \in Int : \E S, f : /\ RcvHolds(RcvInsert(l, Wrap(x), Wrap(h)), a, y, S, f)
                                  /\ Numbers(S, f) = Numbers(D, e) \cup (x .. h)
<1>1. /\ RcvHeld(l, a, z, D, e) /\ l.length = Cardinality(Numbers(D, e))
      /\ z \in Int /\ a \in Int /\ Ranges(a, D, e)
  BY RcvParts DEF RcvHolds
<1>2. PICK N : N = Numbers(D, e) \cup (x .. h)
  OBVIOUS
<1>3. Cardinality(N) = l.length + (h - x + 1)
  <2>1. Numbers(D, e) \in SUBSET WindowFrom(a)
    BY <1>1, NumbersInWindow
  <2>2. Numbers(D, e) \cap (x .. h) = {} /\ x <= h + 1
    <3>1. x \in Int /\ h \in Int
      BY <1>1, Near
    <3>2. ASSUME NEW n \in Numbers(D, e), n \in x .. h
          PROVE  FALSE
      BY <3>1, <3>2
    <3> QED  BY <3>1, <3>2
  <2>3. Cardinality(Numbers(D, e) \cup (x .. h)) = Cardinality(Numbers(D, e)) + (h - x + 1)
    BY ONLY <1>1, <2>1, <2>2, CountAdded, x \in WindowFrom(a), h \in WindowFrom(a)
  <2> QED  BY <1>1, <1>2, <2>3
<1>4. \E y \in Int : \E S, f : /\ RcvHeld(RcvInsert(l, Wrap(x), Wrap(h)), a, y, S, f)
                               /\ RcvInsert(l, Wrap(x), Wrap(h)).length = l.length + (h - x + 1)
                               /\ Numbers(S, f) = N
  <2>1. CASE D = {}
    <3>1. RcvHolds(l, a, z, {}, e) /\ N = Numbers({}, e) \cup (x .. h)
      BY <1>2, <2>1
    <3> QED  BY <3>1, InsertFirst
  <2>2. CASE D # {}
    <3>1. PICK p \in D : /\ PriorIn(D, p, x) /\ LastIn(D, p) /\ p < x /\ e[p] < x
                         /\ l.tail = Place(RcvSize, z, p)
                         /\ TailReaches(l, Wrap(x)) <=> (e[p] # p /\ e[p] + 1 = x)
      BY <1>1, <2>2, TailIs
    <3>2. CASE TailReaches(l, Wrap(x))
      <4>1. p < e[p] /\ x = e[p] + 1
        <5>1. p <= e[p] /\ p \in Int /\ e[p] \in Int
          BY <1>1, <3>1, RcvParts
        <5> QED  BY <3>1, <3>2, <5>1
      <4> QED  BY <1>1, <1>2, <3>1, <3>2, <4>1, InsertLonger
    <3>3. CASE ~TailReaches(l, Wrap(x))
      BY <1>1, <1>2, <3>1, <3>3, InsertAfter
    <3> QED  BY <3>2, <3>3
  <2> QED  BY <2>1, <2>2
<1>5. PICK y \in Int : \E S, f : /\ RcvHeld(RcvInsert(l, Wrap(x), Wrap(h)), a, y, S, f)
                                 /\ RcvInsert(l, Wrap(x), Wrap(h)).length = Cardinality(N)
                                 /\ Numbers(S, f) = N
  BY <1>3, <1>4
<1>6. PICK S, f : /\ RcvHeld(RcvInsert(l, Wrap(x), Wrap(h)), a, y, S, f)
                  /\ RcvInsert(l, Wrap(x), Wrap(h)).length = Cardinality(N)
                  /\ Numbers(S, f) = N
  BY <1>5
<1>7. RcvHolds(RcvInsert(l, Wrap(x), Wrap(h)), a, y, S, f)
  BY <1>6 DEF RcvHolds
<1> QED  BY <1>2, <1>6, <1>7

\* Every number of the window has its own cell.
LEMMA Places ==
  ASSUME NEW a \in Int, NEW z \in Int
  PROVE  /\ Size(RcvSize) /\ RcvCells = 0 .. (RcvSize - 1) /\ Nil \notin RcvCells
         /\ RcvLinks = RcvCells \cup {Nil} /\ Nil \in Int
         /\ \A u, w \in WindowFrom(a) :
               /\ Place(RcvSize, z, u) \in RcvCells
               /\ Place(RcvSize, z, u) = Place(RcvSize, z, w) <=> u = w
<1>1. /\ Size(RcvSize) /\ RcvCells = 0 .. (RcvSize - 1) /\ Nil \notin RcvCells
      /\ RcvLinks = RcvCells \cup {Nil} /\ Nil \in Int
  BY RcvSizeAssumption, WindowAssumption DEF Size, RcvCells, RcvLinks, Nil
<1>2. ASSUME NEW u \in WindowFrom(a), NEW w \in WindowFrom(a)
      PROVE  /\ Place(RcvSize, z, u) \in RcvCells
             /\ Place(RcvSize, z, u) = Place(RcvSize, z, w) <=> u = w
  BY <1>1, PlaceNear
<1> QED  BY <1>1, <1>2

\* What is left when the number y goes.
Leaves(s, a, z, D, e, y, n) ==
    \E S, f : RcvHeld(s, a, z, S, f) /\ s.length = n /\ Numbers(S, f) = Numbers(D, e) \ {y}

\* A range of that number only goes away.
LEMMA SingleLeaves ==
  ASSUME NEW l, NEW a, NEW z, NEW D, NEW e, RcvHeld(l, a, z, D, e), NEW y \in D, e[y] = y,
         NEW c, c = Place(RcvSize, z, y)
  PROVE  Leaves(WithoutSingle(l, c), a, z, D, e, y, l.length)
<1>1. /\ z \in Int /\ a \in Int
      /\ D \in SUBSET WindowFrom(a) /\ D \in SUBSET Int /\ e \in [Int -> Int]
      /\ Ranges(a, D, e) /\ Apart(D, e)
  BY RcvParts
<1>2. PICK d1, d2, nx, pr, h, t, n : Opened(l, a, z, D, e, d1, d2, nx, pr, h, t, n)
  BY RcvOpened
<1>3. /\ l = Made(d1, d2, nx, pr, h, t, n) /\ l.length = n /\ n \in Int
      /\ d1 \in [RcvCells -> Int] /\ d2 \in [RcvCells -> Int]
      /\ nx \in [RcvCells -> RcvLinks] /\ pr \in [RcvCells -> RcvLinks]
      /\ h \in RcvLinks /\ t \in RcvLinks
      /\ Stored(RcvSize, z, D, e, d1, d2) /\ Chain(RcvSize, z, D, nx, pr, h, t)
  BY <1>2 DEF Opened
<1>4. /\ Size(RcvSize) /\ RcvCells = 0 .. (RcvSize - 1) /\ Nil \notin RcvCells
      /\ RcvLinks = RcvCells \cup {Nil} /\ Nil \in Int
      /\ \A u, w \in WindowFrom(a) :
            /\ Place(RcvSize, z, u) \in RcvCells
            /\ Place(RcvSize, z, u) = Place(RcvSize, z, w) <=> u = w
  <2>1. a \in Int /\ z \in Int
    BY <1>1
  <2> QED  BY ONLY <2>1, Places
<1>5. c \in RcvCells /\ y \in WindowFrom(a) /\ \A w \in D : w # y => Place(RcvSize, z, w) # c
  BY <1>1, <1>4
<1>6. PICK p \in RcvLinks, k \in RcvLinks : p = pr[c] /\ k = nx[c]
  BY <1>3, <1>5
<1>7. /\ h = c <=> FirstIn(D, y)
      /\ k = Nil <=> LastIn(D, y)
      /\ FirstIn(D, y) \/ \E u \in D : NextIn(D, u, y) /\ p = Place(RcvSize, z, u)
      /\ LastIn(D, y) \/ \E w \in D : NextIn(D, y, w) /\ k = Place(RcvSize, z, w)
  <2>1. /\ a \in Int /\ Size(RcvSize) /\ z \in Int /\ D \in SUBSET WindowFrom(a)
        /\ Chain(RcvSize, z, D, nx, pr, h, t) /\ y \in D
    BY <1>1, <1>3, <1>4
  <2>2. Located(RcvSize, z, D, y, Place(RcvSize, z, y), nx, pr, h, t)
    BY ONLY <2>1, ChainAt
  <2> QED  BY <1>6, <2>2 DEF Located
<1>8. /\ ~FirstIn(D, y) => p \in RcvCells /\ p # c
      /\ ~LastIn(D, y) => k \in RcvCells /\ k # c
  <2>1. ~FirstIn(D, y) => p \in RcvCells /\ p # c
    <3> HAVE ~FirstIn(D, y)
    <3>1. PICK u \in D : NextIn(D, u, y) /\ p = Place(RcvSize, z, u)
      BY <1>7
    <3>2. u # y
      BY <1>1, <3>1 DEF NextIn
    <3> QED  BY <1>1, <1>4, <1>5, <3>1, <3>2
  <2>2. ~LastIn(D, y) => k \in RcvCells /\ k # c
    <3> HAVE ~LastIn(D, y)
    <3>1. PICK w \in D : NextIn(D, y, w) /\ k = Place(RcvSize, z, w)
      BY <1>7
    <3>2. w # y
      BY <1>1, <3>1 DEF NextIn
    <3> QED  BY <1>1, <1>4, <1>5, <3>1, <3>2
  <2> QED  BY <2>1, <2>2
<1>9. PICK e1, en, ep : e1 = Put(d1, c, Nil) /\ en = Put(nx, c, Nil) /\ ep = Put(pr, c, Nil)
  OBVIOUS
<1>10. PICK q \in RcvLinks : q = IF h = c THEN Nil ELSE p
  BY <1>4
<1>11. PICK nb, pb, hb, tb :
          /\ nb = IF h = c THEN en ELSE Put(en, p, k)
          /\ pb = IF k = Nil THEN ep ELSE Put(ep, k, q)
          /\ hb = IF h = c THEN k ELSE h
          /\ tb = IF h # c /\ k = Nil THEN p ELSE t
  OBVIOUS
<1>12. PICK s : s = WithoutSingle(l, c)
  OBVIOUS
<1>13. s = Made(e1, d2, nb, pb, hb, tb, n)
  <2>1. /\ h = c /\ k = Nil => s = Made(e1, d2, en, ep, Nil, t, n)
        /\ h = c /\ k # Nil => s = Made(e1, d2, en, Put(ep, k, Nil), k, t, n)
        /\ h # c /\ k = Nil => s = Made(e1, d2, Put(en, p, Nil), ep, h, p, n)
        /\ h # c /\ k # Nil => s = Made(e1, d2, Put(en, p, k), Put(ep, k, p), h, t, n)
    BY ONLY <1>3, <1>6, <1>9, <1>12, SingleMade
  <2> QED  BY <1>10, <1>11, <2>1
<1>14. /\ e1 \in [RcvCells -> Int] /\ e1[c] = Nil /\ \A i \in RcvCells : i # c => e1[i] = d1[i]
  BY <1>3, <1>4, <1>5, <1>9 DEF Put
<1>15. /\ en \in [RcvCells -> RcvLinks] /\ \A i \in RcvCells : i # c => en[i] = nx[i]
  BY <1>3, <1>4, <1>5, <1>9 DEF Put
<1>16. /\ ep \in [RcvCells -> RcvLinks] /\ \A i \in RcvCells : i # c => ep[i] = pr[i]
  BY <1>3, <1>4, <1>5, <1>9 DEF Put
<1>17. /\ nb \in [RcvCells -> RcvLinks]
       /\ ~FirstIn(D, y) => nb[p] = k /\ \A i \in RcvCells : i # p => nb[i] = en[i]
       /\ FirstIn(D, y) => nb = en
  <2>1. CASE FirstIn(D, y)
    BY <1>7, <1>11, <1>15, <2>1
  <2>2. CASE ~FirstIn(D, y)
    BY <1>7, <1>8, <1>11, <1>15, <2>2 DEF Put
  <2> QED  BY <2>1, <2>2
<1>18. /\ pb \in [RcvCells -> RcvLinks]
       /\ ~LastIn(D, y) => pb[k] = q /\ \A i \in RcvCells : i # k => pb[i] = ep[i]
       /\ LastIn(D, y) => pb = ep
  <2>1. CASE LastIn(D, y)
    BY <1>7, <1>11, <1>16, <2>1
  <2>2. CASE ~LastIn(D, y)
    BY <1>7, <1>8, <1>11, <1>16, <2>2 DEF Put
  <2> QED  BY <2>1, <2>2
<1>19. PICK S : S = D \ {y}
  OBVIOUS
<1>20. /\ Ranges(a, S, e) /\ Apart(S, e) /\ Numbers(S, e) = Numbers(D, e) \ {y}
  <2>1. /\ Ranges(a, D \ {y}, e) /\ Apart(D \ {y}, e)
        /\ Numbers(D \ {y}, e) = Numbers(D, e) \ (y .. e[y])
    <3>1. Ranges(a, D, e) /\ Apart(D, e) /\ y \in D
      BY <1>1
    <3> QED  BY ONLY <3>1, NumbersWithout
  <2>2. y .. e[y] = {y}
    BY <1>1
  <2> QED  BY <1>19, <2>1, <2>2
<1>21. Stored(RcvSize, z, S, e, e1, d2)
  <2>1. d2[c] = Nil
    BY <1>3 DEF Stored, Second
  <2>2. TakenOut(RcvSize, z, y, d1, d2, e1, d2)
    BY <1>3, <1>4, <1>14, <2>1 DEF TakenOut, ElsewhereSame
  <2> QED  BY ONLY <1>1, <1>3, <1>4, <1>19, <2>2, StoredWithout, y \in D
<1>22. Chain(RcvSize, z, S, nb, pb, hb, tb)
  <2>1. LinksTyped(RcvSize, nb, pb)
    BY <1>4, <1>17, <1>18 DEF LinksTyped
  <2>2. ASSUME NEW w \in S, NextIn(D, w, y)
        PROVE  nb[Place(RcvSize, z, w)] = nx[c]
    <3>1. pr[c] = Place(RcvSize, z, w)
      BY <1>3, <1>19, <2>2 DEF Chain
    <3>2. ~FirstIn(D, y)
      BY <1>1, <1>19, <2>2 DEF NextIn, FirstIn
    <3> QED  BY <1>6, <1>17, <3>1, <3>2
  <2>3. ASSUME NEW w \in S, ~NextIn(D, w, y)
        PROVE  nb[Place(RcvSize, z, w)] = nx[Place(RcvSize, z, w)]
    <3>1. Place(RcvSize, z, w) \in RcvCells /\ Place(RcvSize, z, w) # c /\ w \in D
      BY <1>1, <1>4, <1>5, <1>19
    <3>2. ASSUME ~FirstIn(D, y)
          PROVE  Place(RcvSize, z, w) # p
      <4>1. PICK u \in D : NextIn(D, u, y) /\ p = Place(RcvSize, z, u)
        BY <1>7, <3>2
      <4> QED  BY <1>1, <1>4, <2>3, <3>1, <4>1
    <3> QED  BY <1>15, <1>17, <3>1, <3>2
  <2>4. ASSUME ~FirstIn(D, y), NEW w \in S, NextIn(D, y, w)
        PROVE  pb[Place(RcvSize, z, w)] = pr[c]
    <3>1. nx[c] = Place(RcvSize, z, w)
      BY <1>3, <1>19, <2>4 DEF Chain
    <3>2. ~LastIn(D, y)
      BY <1>1, <1>19, <2>4 DEF NextIn, LastIn
    <3> QED  BY <1>6, <1>7, <1>10, <1>18, <2>4, <3>1, <3>2
  <2>5. ASSUME NEW w \in S, ~NextIn(D, y, w)
        PROVE  pb[Place(RcvSize, z, w)] = pr[Place(RcvSize, z, w)]
    <3>1. Place(RcvSize, z, w) \in RcvCells /\ Place(RcvSize, z, w) # c /\ w \in D
      BY <1>1, <1>4, <1>5, <1>19
    <3>2. ASSUME ~LastIn(D, y)
          PROVE  Place(RcvSize, z, w) # k
      <4>1. PICK u \in D : NextIn(D, y, u) /\ k = Place(RcvSize, z, u)
        BY <1>7, <3>2
      <4> QED  BY <1>1, <1>4, <2>5, <3>1, <4>1
    <3> QED  BY <1>16, <1>18, <3>1, <3>2
  <2>6. /\ FirstIn(D, y) => hb = nx[c]
        /\ ~FirstIn(D, y) => hb = h
        /\ LastIn(D, y) /\ ~FirstIn(D, y) => tb = pr[c]
        /\ ~LastIn(D, y) => tb = t
    BY <1>6, <1>7, <1>11
  <2>7. LessLinks(RcvSize, z, D, y, S, nx, pr, h, t, nb, pb, hb, tb)
    BY <2>1, <2>2, <2>3, <2>4, <2>5, <2>6 DEF LessLinks
  <2> QED  BY ONLY <1>1, <1>3, <1>4, <1>19, <2>7, ChainLess, y \in D
<1>23. hb \in RcvLinks /\ tb \in RcvLinks
  BY <1>3, <1>6, <1>11
<1>24. RcvHeld(s, a, z, S, e) /\ s.length = n
  BY ONLY <1>1, <1>3, <1>13, <1>20, <1>21, <1>22, <1>23, HeldMade
<1> QED  BY <1>3, <1>12, <1>20, <1>24 DEF Leaves

\* A longer range loses its first number.
LEMMA ShiftedLeaves ==
  ASSUME NEW l, NEW a, NEW z, NEW D, NEW e, RcvHeld(l, a, z, D, e), NEW y \in D, y < e[y],
         NEW c, c = Place(RcvSize, z, y)
  PROVE  Leaves(Shifted(l, c), a, z, D, e, y, l.length)
<1>1. /\ z \in Int /\ a \in Int
      /\ D \in SUBSET WindowFrom(a) /\ D \in SUBSET Int /\ e \in [Int -> Int]
      /\ \A w \in D : w <= e[w] /\ e[w] \in WindowFrom(a) /\ e[w] \in Int
      /\ Ranges(a, D, e) /\ Apart(D, e)
  BY RcvParts
<1>2. PICK d1, d2, nx, pr, h, t, n : Opened(l, a, z, D, e, d1, d2, nx, pr, h, t, n)
  BY RcvOpened
<1>3. /\ l = Made(d1, d2, nx, pr, h, t, n) /\ l.length = n /\ n \in Int
      /\ d1 \in [RcvCells -> Int] /\ d2 \in [RcvCells -> Int]
      /\ nx \in [RcvCells -> RcvLinks] /\ pr \in [RcvCells -> RcvLinks]
      /\ h \in RcvLinks /\ t \in RcvLinks
      /\ Stored(RcvSize, z, D, e, d1, d2) /\ Chain(RcvSize, z, D, nx, pr, h, t)
  BY <1>2 DEF Opened
<1>4. /\ Size(RcvSize) /\ RcvCells = 0 .. (RcvSize - 1) /\ Nil \notin RcvCells
      /\ RcvLinks = RcvCells \cup {Nil} /\ Nil \in Int
      /\ \A u, w \in WindowFrom(a) :
            /\ Place(RcvSize, z, u) \in RcvCells
            /\ Place(RcvSize, z, u) = Place(RcvSize, z, w) <=> u = w
  <2>1. a \in Int /\ z \in Int
    BY <1>1
  <2> QED  BY ONLY <2>1, Places
<1>5. c \in RcvCells /\ y \in WindowFrom(a) /\ y \in Int
      /\ \A w \in D : w # y => Place(RcvSize, z, w) # c
  BY <1>1, <1>4
<1>6. PICK p \in RcvLinks, k \in RcvLinks : p = pr[c] /\ k = nx[c]
  BY <1>3, <1>5
<1>7. /\ h = c <=> FirstIn(D, y)
      /\ t = c <=> LastIn(D, y)
      /\ FirstIn(D, y) \/ \E u \in D : NextIn(D, u, y) /\ p = Place(RcvSize, z, u)
      /\ LastIn(D, y) \/ \E w \in D : NextIn(D, y, w) /\ k = Place(RcvSize, z, w)
  <2>1. /\ a \in Int /\ Size(RcvSize) /\ z \in Int /\ D \in SUBSET WindowFrom(a)
        /\ Chain(RcvSize, z, D, nx, pr, h, t) /\ y \in D
    BY <1>1, <1>3, <1>4
  <2>2. Located(RcvSize, z, D, y, Place(RcvSize, z, y), nx, pr, h, t)
    BY ONLY <2>1, ChainAt
  <2> QED  BY <1>6, <2>2 DEF Located
<1>8. PICK v : v = y + 1
  OBVIOUS
<1>9. PICK S : S = (D \ {y}) \cup {v}
  OBVIOUS
<1>10. PICK f : f = Ending(e, v, e[y])
  OBVIOUS
<1>11. /\ v \in WindowFrom(a) /\ v \notin D /\ Renames(D, y, v, S)
       /\ Ranges(a, S, f) /\ Apart(S, f)
       /\ f[v] = e[y] /\ Agree(D \ {y}, f, e)
       /\ Numbers(S, f) = Numbers(D, e) \ {y}
  <2>1. Ranges(a, D, e) /\ Apart(D, e) /\ y \in D /\ y < e[y]
    BY <1>1
  <2> QED  BY ONLY <1>8, <1>9, <1>10, <2>1, NumbersShifted
<1>12. PICK d \in RcvCells : d = Place(RcvSize, z, v) /\ d = After(c) /\ d # c
  <2>1. (Place(RcvSize, z, y) + (v - y)) % RcvSize = Place(RcvSize, z, v)
    BY ONLY <1>1, <1>4, <1>5, <1>11, PlaceNear
  <2>2. After(c) = Place(RcvSize, z, v)
    <3>1. c \in Int /\ Place(RcvSize, z, y) + (v - y) = c + 1
      BY <1>4, <1>5, <1>8
    <3> QED  BY <2>1, <3>1 DEF After
  <2>3. v # y
    BY <1>5, <1>8
  <2> QED  BY <1>4, <1>5, <1>11, <2>2, <2>3
<1>13. \A w \in D : Place(RcvSize, z, w) # d
  <2> TAKE w \in D
  <2>1. w \in WindowFrom(a) /\ w # v
    BY <1>1, <1>11
  <2> QED  BY <1>4, <1>11, <1>12, <2>1
<1>14. /\ ~FirstIn(D, y) => p \in RcvCells /\ p # c /\ p # d
       /\ ~LastIn(D, y) => k \in RcvCells /\ k # c /\ k # d
  <2>1. ~FirstIn(D, y) => p \in RcvCells /\ p # c /\ p # d
    <3> HAVE ~FirstIn(D, y)
    <3>1. PICK u \in D : NextIn(D, u, y) /\ p = Place(RcvSize, z, u)
      BY <1>7
    <3>2. u # y
      BY <1>1, <3>1 DEF NextIn
    <3> QED  BY <1>1, <1>4, <1>5, <1>13, <3>1, <3>2
  <2>2. ~LastIn(D, y) => k \in RcvCells /\ k # c /\ k # d
    <3> HAVE ~LastIn(D, y)
    <3>1. PICK w \in D : NextIn(D, y, w) /\ k = Place(RcvSize, z, w)
      BY <1>7
    <3>2. w # y
      BY <1>1, <3>1 DEF NextIn
    <3> QED  BY <1>1, <1>4, <1>5, <1>13, <3>1, <3>2
  <2> QED  BY <2>1, <2>2
<1>15. PICK lo \in Int, hi \in Int : lo = Incseq(d1[c]) /\ hi = d2[c] /\ lo = Wrap(v)
                                  /\ hi = Wrap(e[y]) /\ (hi = lo <=> e[y] = v)
  <2>1. d1[c] = Wrap(y) /\ d2[c] = Wrap(e[y])
    BY <1>1, <1>3, <1>5 DEF Stored, Second
  <2>2. Incseq(Wrap(y)) = Wrap(v)
    BY <1>5, <1>8, WrapSteps
  <2>3. Wrap(e[y]) \in Int /\ Wrap(v) \in Int /\ (Wrap(e[y]) = Wrap(v) <=> e[y] = v)
    <3>1. e[y] \in WindowFrom(a)
      BY <1>1
    <3> QED  BY ONLY <1>1, <1>11, <3>1, WrapNear
  <2> QED  BY <2>1, <2>2, <2>3
<1>16. PICK hb, tb, n1, p1 :
          /\ hb = IF h = c THEN d ELSE h
          /\ tb = IF t = c THEN d ELSE t
          /\ n1 = IF h = c THEN nx ELSE Put(nx, p, d)
          /\ p1 = IF t = c THEN pr ELSE Put(pr, k, d)
  OBVIOUS
<1>17. PICK v2 \in Int : v2 = IF hi = lo THEN d2[d] ELSE hi
  BY <1>3
<1>18. PICK g1, g2, g3, g4 : /\ g1 = Put(d1, d, lo) /\ g2 = Put(d2, d, v2)
                             /\ g3 = Put(n1, d, k) /\ g4 = Put(p1, d, p)
  OBVIOUS
<1>19. PICK b1, b2, nb, pb : /\ b1 = Put(g1, c, Nil) /\ b2 = Put(g2, c, Nil)
                             /\ nb = Put(g3, c, Nil) /\ pb = Put(g4, c, Nil)
  OBVIOUS
<1>20. PICK s : s = Shifted(l, c)
  OBVIOUS
<1>21. s = Made(b1, b2, nb, pb, hb, tb, n)
  <2>1. s = Made(Put(Put(d1, d, lo), c, Nil),
                 Put(Put(d2, d, IF hi = lo THEN d2[d] ELSE hi), c, Nil),
                 Put(Put(n1, d, k), c, Nil), Put(Put(p1, d, p), c, Nil), hb, tb, n)
    <3>1. /\ l = Made(d1, d2, nx, pr, h, t, n) /\ d = After(c) /\ p = pr[c] /\ k = nx[c]
          /\ lo = Incseq(d1[c]) /\ hi = d2[c]
      BY <1>3, <1>6, <1>12, <1>15
    <3>2. Shifted(l, c) =
            Made(Put(Put(d1, d, lo), c, Nil),
                 Put(Put(d2, d, IF hi = lo THEN d2[d] ELSE hi), c, Nil),
                 Put(Put(n1, d, k), c, Nil), Put(Put(p1, d, p), c, Nil), hb, tb, n)
      BY ONLY <1>16, <3>1, ShiftedMade
    <3> QED  BY <1>20, <3>2
  <2> QED  BY <1>17, <1>18, <1>19, <2>1
<1>22. /\ g1 \in [RcvCells -> Int] /\ g1[d] = lo /\ \A i \in RcvCells : i # d => g1[i] = d1[i]
       /\ g2 \in [RcvCells -> Int] /\ g2[d] = v2 /\ \A i \in RcvCells : i # d => g2[i] = d2[i]
  BY <1>3, <1>18 DEF Put
<1>23. /\ b1 \in [RcvCells -> Int] /\ b1[c] = Nil /\ \A i \in RcvCells : i # c => b1[i] = g1[i]
       /\ b2 \in [RcvCells -> Int] /\ b2[c] = Nil /\ \A i \in RcvCells : i # c => b2[i] = g2[i]
  BY <1>4, <1>5, <1>19, <1>22 DEF Put
<1>24. /\ n1 \in [RcvCells -> RcvLinks]
       /\ ~FirstIn(D, y) => n1[p] = d /\ \A i \in RcvCells : i # p => n1[i] = nx[i]
       /\ FirstIn(D, y) => n1 = nx
  <2>1. CASE FirstIn(D, y)
    BY <1>3, <1>7, <1>16, <2>1
  <2>2. CASE ~FirstIn(D, y)
    BY <1>3, <1>4, <1>7, <1>14, <1>16, <2>2 DEF Put
  <2> QED  BY <2>1, <2>2
<1>25. /\ p1 \in [RcvCells -> RcvLinks]
       /\ ~LastIn(D, y) => p1[k] = d /\ \A i \in RcvCells : i # k => p1[i] = pr[i]
       /\ LastIn(D, y) => p1 = pr
  <2>1. CASE LastIn(D, y)
    BY <1>3, <1>7, <1>16, <2>1
  <2>2. CASE ~LastIn(D, y)
    BY <1>3, <1>4, <1>7, <1>14, <1>16, <2>2 DEF Put
  <2> QED  BY <2>1, <2>2
<1>26. /\ g3 \in [RcvCells -> RcvLinks] /\ g3[d] = k /\ \A i \in RcvCells : i # d => g3[i] = n1[i]
       /\ g4 \in [RcvCells -> RcvLinks] /\ g4[d] = p /\ \A i \in RcvCells : i # d => g4[i] = p1[i]
  BY <1>18, <1>24, <1>25 DEF Put
<1>27. /\ nb \in [RcvCells -> RcvLinks] /\ \A i \in RcvCells : i # c => nb[i] = g3[i]
       /\ pb \in [RcvCells -> RcvLinks] /\ \A i \in RcvCells : i # c => pb[i] = g4[i]
  BY <1>4, <1>5, <1>19, <1>26 DEF Put
<1>28. Stored(RcvSize, z, S, f, b1, b2)
  <2>1. PICK m1, m2 : m1 = Put(d1, c, Nil) /\ m2 = Put(d2, c, Nil)
    OBVIOUS
  <2>2. /\ m1 \in [RcvCells -> Int] /\ m1[c] = Nil /\ \A i \in RcvCells : i # c => m1[i] = d1[i]
        /\ m2 \in [RcvCells -> Int] /\ m2[c] = Nil /\ \A i \in RcvCells : i # c => m2[i] = d2[i]
    BY <1>3, <1>4, <1>5, <2>1 DEF Put
  <2>3. TakenOut(RcvSize, z, y, d1, d2, m1, m2)
    BY <1>4, <2>2 DEF TakenOut, ElsewhereSame
  <2>4. Stored(RcvSize, z, D \ {y}, e, m1, m2)
    <3>1. /\ Size(RcvSize) /\ z \in Int /\ Ranges(a, D, e) /\ Stored(RcvSize, z, D, e, d1, d2)
          /\ y \in D
      BY <1>1, <1>3, <1>4
    <3> QED  BY ONLY <2>3, <3>1, StoredWithout
  <2>5. v2 = Second(v, e[y])
    <3>1. d2[Place(RcvSize, z, v)] = Nil
      <4>1. /\ Size(RcvSize) /\ z \in Int /\ Ranges(a, D, e) /\ Stored(RcvSize, z, D, e, d1, d2)
            /\ v \in WindowFrom(a) /\ v \notin D
        BY <1>1, <1>3, <1>4, <1>11
      <4> QED  BY ONLY <4>1, Found
    <3> QED  BY <1>12, <1>15, <1>17, <3>1 DEF Second
  <2>6. PutIn(RcvSize, z, v, f[v], m1, m2, b1, b2)
    <3>1. b1[d] = Wrap(v) /\ b2[d] = Second(v, f[v])
      BY <1>11, <1>12, <1>15, <1>22, <1>23, <2>5
    <3>2. \A i \in RcvCells : i # d => b1[i] = m1[i] /\ b2[i] = m2[i]
      BY <1>22, <1>23, <2>2
    <3> QED  BY <1>4, <1>12, <1>23, <3>1, <3>2 DEF PutIn, ElsewhereSame
  <2>7. Stored(RcvSize, z, (D \ {y}) \cup {v}, f, b1, b2)
    <3>1. Ranges(a, D \ {y}, e)
      <4>1. Ranges(a, D, e) /\ Apart(D, e) /\ y \in D
        BY <1>1
      <4> QED  BY ONLY <4>1, NumbersWithout
    <3>2. Agree((D \ {y}) \ {v}, f, e)
      BY <1>11 DEF Agree
    <3>3. Size(RcvSize) /\ z \in Int /\ v \in WindowFrom(a)
      BY <1>1, <1>4, <1>11
    <3> QED  BY ONLY <2>4, <2>6, <3>1, <3>2, <3>3, StoredPut
  <2> QED  BY <1>9, <2>7
<1>29. Chain(RcvSize, z, S, nb, pb, hb, tb)
  <2>1. LinksTyped(RcvSize, nb, pb)
    BY <1>4, <1>27 DEF LinksTyped
  <2>2. nb[d] = nx[c] /\ pb[d] = pr[c]
    BY <1>6, <1>12, <1>26, <1>27
  <2>3. \A w \in D \ {y} : /\ Place(RcvSize, z, w) \in RcvCells
                           /\ Place(RcvSize, z, w) # c /\ Place(RcvSize, z, w) # d
    BY <1>1, <1>4, <1>5, <1>13
  <2>4. \A w \in D \ {y} : /\ nb[Place(RcvSize, z, w)] = n1[Place(RcvSize, z, w)]
                           /\ pb[Place(RcvSize, z, w)] = p1[Place(RcvSize, z, w)]
    BY <1>26, <1>27, <2>3
  <2>5. ASSUME NEW w \in D \ {y}, NextIn(D, w, y)
        PROVE  nb[Place(RcvSize, z, w)] = d
    <3>1. pr[c] = Place(RcvSize, z, w)
      BY <1>3, <2>5 DEF Chain
    <3>2. ~FirstIn(D, y)
      BY <1>1, <2>5 DEF NextIn, FirstIn
    <3> QED  BY <1>6, <1>24, <2>4, <3>1, <3>2
  <2>6. ASSUME NEW w \in D \ {y}, ~NextIn(D, w, y)
        PROVE  nb[Place(RcvSize, z, w)] = nx[Place(RcvSize, z, w)]
    <3>1. ASSUME ~FirstIn(D, y)
          PROVE  Place(RcvSize, z, w) # p
      <4>1. PICK u \in D : NextIn(D, u, y) /\ p = Place(RcvSize, z, u)
        BY <1>7, <3>1
      <4> QED  BY <1>1, <1>4, <2>6, <4>1
    <3> QED  BY <1>24, <2>3, <2>4, <3>1
  <2>7. ASSUME NEW w \in D \ {y}, NextIn(D, y, w)
        PROVE  pb[Place(RcvSize, z, w)] = d
    <3>1. nx[c] = Place(RcvSize, z, w)
      BY <1>3, <2>7 DEF Chain
    <3>2. ~LastIn(D, y)
      BY <1>1, <2>7 DEF NextIn, LastIn
    <3> QED  BY <1>6, <1>25, <2>4, <3>1, <3>2
  <2>8. ASSUME NEW w \in D \ {y}, ~NextIn(D, y, w)
        PROVE  pb[Place(RcvSize, z, w)] = pr[Place(RcvSize, z, w)]
    <3>1. ASSUME ~LastIn(D, y)
          PROVE  Place(RcvSize, z, w) # k
      <4>1. PICK u \in D : NextIn(D, y, u) /\ k = Place(RcvSize, z, u)
        BY <1>7, <3>1
      <4> QED  BY <1>1, <1>4, <2>8, <4>1
    <3> QED  BY <1>25, <2>3, <2>4, <3>1
  <2>9. /\ FirstIn(D, y) => hb = d
        /\ ~FirstIn(D, y) => hb = h
        /\ LastIn(D, y) => tb = d
        /\ ~LastIn(D, y) => tb = t
    BY <1>7, <1>16
  <2>10. RenamedLinks(RcvSize, z, D, y, v, nx, pr, h, t, nb, pb, hb, tb)
    BY <1>12, <2>1, <2>2, <2>5, <2>6, <2>7, <2>8, <2>9 DEF RenamedLinks
  <2> QED  BY ONLY <1>1, <1>3, <1>4, <1>11, <2>10, ChainRenamed
<1>30. hb \in RcvLinks /\ tb \in RcvLinks
  BY <1>3, <1>4, <1>16
<1>31. RcvHeld(s, a, z, S, f) /\ s.length = n
  BY ONLY <1>1, <1>3, <1>11, <1>21, <1>28, <1>29, <1>30, HeldMade
<1> QED  BY <1>3, <1>11, <1>20, <1>31 DEF Leaves

\* How the end of a cut range is written down.
LEMMA CutEnd ==
  ASSUME NEW a \in Int, NEW p \in WindowFrom(a), NEW y \in WindowFrom(a), p < y
  PROVE  (IF Wrap(y) = Incseq(Wrap(p)) THEN Nil ELSE Decseq(Wrap(y))) = Second(p, y - 1)
<1>1. p \in Int /\ y \in Int
  BY Near
<1>2. PICK q \in Int : q = p + 1
  BY <1>1
<1>3. q \in WindowFrom(a)
  BY <1>1, <1>2, WindowAssumption DEF WindowFrom
<1>4. Wrap(y) = Wrap(q) <=> y = q
  BY ONLY <1>3, WrapNear, a \in Int, y \in WindowFrom(a)
<1>5. Incseq(Wrap(p)) = Wrap(q) /\ Decseq(Wrap(y)) = Wrap(y - 1)
  BY <1>1, <1>2, WrapSteps
<1>6. y = q <=> y - 1 = p
  BY <1>1, <1>2
<1> QED  BY <1>4, <1>5, <1>6 DEF Second

\* A range loses its last number.
LEMMA ShortenedLeaves ==
  ASSUME NEW l, NEW a, NEW z, NEW D, NEW e, RcvHeld(l, a, z, D, e), NEW p \in D, p < e[p],
         NEW y, y = e[p], NEW c, c = Place(RcvSize, z, p)
  PROVE  Leaves(Shortened(l, c, Wrap(y)), a, z, D, e, y, l.length)
<1>1. /\ z \in Int /\ a \in Int
      /\ D \in SUBSET WindowFrom(a) /\ D \in SUBSET Int /\ e \in [Int -> Int]
      /\ \A w \in D : w <= e[w] /\ e[w] \in WindowFrom(a) /\ e[w] \in Int
      /\ Ranges(a, D, e) /\ Apart(D, e) /\ Size(RcvSize)
  BY RcvParts
<1>2. PICK d1, d2, nx, pr, h, t, n : Opened(l, a, z, D, e, d1, d2, nx, pr, h, t, n)
  BY RcvOpened
<1>3. /\ l = Made(d1, d2, nx, pr, h, t, n) /\ l.length = n /\ n \in Int
      /\ d1 \in [RcvCells -> Int] /\ d2 \in [RcvCells -> Int]
      /\ h \in RcvLinks /\ t \in RcvLinks
      /\ Stored(RcvSize, z, D, e, d1, d2) /\ Chain(RcvSize, z, D, nx, pr, h, t)
  BY <1>2 DEF Opened
<1>4. p \in WindowFrom(a) /\ y \in WindowFrom(a) /\ p \in Int /\ y \in Int /\ p < y
  BY <1>1
<1>5. c \in RcvCells /\ RcvCells = 0 .. (RcvSize - 1) /\ d1[c] = Wrap(p)
  BY <1>1, <1>3, <1>4, Places DEF Stored
<1>6. PICK f : f = Ending(e, p, e[p] - 1)
  OBVIOUS
<1>7. /\ Ranges(a, D, f) /\ Apart(D, f)
      /\ f[p] = e[p] - 1 /\ \A u \in Int : u # p => f[u] = e[u]
      /\ Numbers(D, f) = Numbers(D, e) \ {e[p]}
  <2>1. Ranges(a, D, e) /\ Apart(D, e) /\ p \in D /\ p < e[p]
    BY <1>1
  <2> QED  BY ONLY <1>6, <2>1, NumbersShortened
<1>8. PICK v : v = IF Wrap(y) = Incseq(d1[c]) THEN Nil ELSE Decseq(Wrap(y))
  OBVIOUS
<1>9. v = Second(p, f[p]) /\ v \in Int
  <2>1. v = Second(p, y - 1)
    BY <1>1, <1>4, <1>5, <1>8, CutEnd
  <2>2. Second(p, y - 1) \in Int
    <3>1. Wrap(y - 1) \in SeqNos
      BY <1>4, WrapSteps
    <3> QED  BY <3>1, SeqNoAssumption DEF Second, SeqNos, Nil
  <2> QED  BY <1>7, <2>1, <2>2
<1>10. PICK b2 : b2 = Put(d2, c, v)
  OBVIOUS
<1>11. PICK s : s = Shortened(l, c, Wrap(y))
  OBVIOUS
<1>12. s = Made(d1, b2, nx, pr, h, t, n)
  BY ONLY <1>3, <1>8, <1>10, <1>11, ShortenedMade
<1>13. b2 \in [RcvCells -> Int] /\ b2[c] = v /\ \A i \in RcvCells : i # c => b2[i] = d2[i]
  BY <1>3, <1>5, <1>9, <1>10 DEF Put
<1>14. Stored(RcvSize, z, D, f, d1, b2)
  <2>1. PutIn(RcvSize, z, p, f[p], d1, d2, d1, b2)
    BY <1>3, <1>5, <1>9, <1>13 DEF PutIn, ElsewhereSame
  <2>2. Agree(D \ {p}, f, e)
    BY <1>1, <1>7 DEF Agree
  <2>3. Stored(RcvSize, z, D \cup {p}, f, d1, b2)
    BY ONLY <1>1, <1>3, <1>4, <2>1, <2>2, StoredPut
  <2>4. D \cup {p} = D
    OBVIOUS
  <2> QED  BY <2>3, <2>4
<1>15. RcvHeld(s, a, z, D, f) /\ s.length = n
  BY ONLY <1>1, <1>3, <1>7, <1>12, <1>14, HeldMade
<1> QED  BY <1>3, <1>7, <1>11, <1>15 DEF Leaves

\* A range loses a number in the middle.
LEMMA SplitLeaves ==
  ASSUME NEW l, NEW a, NEW z, NEW D, NEW e, RcvHeld(l, a, z, D, e), NEW p \in D,
         NEW y \in Int, p < y, y < e[p], NEW c, c = Place(RcvSize, z, p)
  PROVE  Leaves(Split(l, c, Wrap(y)), a, z, D, e, y, l.length)
<1>1. /\ z \in Int /\ a \in Int
      /\ D \in SUBSET WindowFrom(a) /\ D \in SUBSET Int /\ e \in [Int -> Int]
      /\ \A w \in D : w <= e[w] /\ e[w] \in WindowFrom(a) /\ e[w] \in Int
      /\ Ranges(a, D, e) /\ Apart(D, e)
  BY RcvParts
<1>2. PICK d1, d2, nx, pr, h, t, n : Opened(l, a, z, D, e, d1, d2, nx, pr, h, t, n)
  BY RcvOpened
<1>3. /\ l = Made(d1, d2, nx, pr, h, t, n) /\ l.length = n /\ n \in Int
      /\ d1 \in [RcvCells -> Int] /\ d2 \in [RcvCells -> Int]
      /\ nx \in [RcvCells -> RcvLinks] /\ pr \in [RcvCells -> RcvLinks]
      /\ h \in RcvLinks /\ t \in RcvLinks
      /\ Stored(RcvSize, z, D, e, d1, d2) /\ Chain(RcvSize, z, D, nx, pr, h, t)
  BY <1>2 DEF Opened
<1>4. /\ Size(RcvSize) /\ RcvCells = 0 .. (RcvSize - 1) /\ Nil \notin RcvCells
      /\ RcvLinks = RcvCells \cup {Nil} /\ Nil \in Int
      /\ \A u, w \in WindowFrom(a) :
            /\ Place(RcvSize, z, u) \in RcvCells
            /\ Place(RcvSize, z, u) = Place(RcvSize, z, w) <=> u = w
  <2>1. a \in Int /\ z \in Int
    BY <1>1
  <2> QED  BY ONLY <2>1, Places
<1>5. /\ p \in WindowFrom(a) /\ p \in Int /\ y \in WindowFrom(a) /\ c \in RcvCells
      /\ \A w \in D : w # p => Place(RcvSize, z, w) # c
  <2>1. p \in WindowFrom(a) /\ p \in Int /\ c \in RcvCells
    BY <1>1, <1>4
  <2>2. y \in WindowFrom(a)
    <3>1. a <= p /\ e[p] <= a + Window - 1 /\ e[p] \in Int /\ Window \in Int
      BY <1>1, WindowAssumption DEF WindowFrom
    <3> QED  BY <1>1, <2>1, <3>1 DEF WindowFrom
  <2> QED  BY <1>1, <1>4, <2>1, <2>2
<1>6. PICK k \in RcvLinks : k = nx[c]
  BY <1>3, <1>5
<1>7. /\ t = c <=> LastIn(D, p)
      /\ LastIn(D, p) \/ \E w \in D : NextIn(D, p, w) /\ k = Place(RcvSize, z, w)
  <2>1. /\ a \in Int /\ Size(RcvSize) /\ z \in Int /\ D \in SUBSET WindowFrom(a)
        /\ Chain(RcvSize, z, D, nx, pr, h, t) /\ p \in D
    BY <1>1, <1>3, <1>4
  <2>2. Located(RcvSize, z, D, p, Place(RcvSize, z, p), nx, pr, h, t)
    BY ONLY <2>1, ChainAt
  <2> QED  BY <1>6, <2>2 DEF Located
<1>8. PICK v : v = y + 1
  OBVIOUS
<1>9. PICK S : S = D \cup {v}
  OBVIOUS
<1>10. /\ v \in WindowFrom(a) /\ v \notin D /\ PriorIn(D, p, v)
       /\ \E f : SplitEnds(a, D, e, p, y, v, S, f)
  <2>1. /\ Ranges(a, D, e) /\ Apart(D, e) /\ p \in D /\ p < y /\ y < e[p] /\ y \in Int
        /\ v = y + 1 /\ S = D \cup {v}
    BY <1>1, <1>8, <1>9
  <2> QED  BY ONLY <2>1, NumbersSplit
<1>11. PICK f : /\ Ranges(a, S, f) /\ Apart(S, f) /\ f \in [Int -> Int]
                /\ f[p] = y - 1 /\ f[v] = e[p] /\ Agree(D \ {p}, f, e)
                /\ Numbers(S, f) = Numbers(D, e) \ {y}
  BY <1>10 DEF SplitEnds
<1>12. PICK d \in RcvCells : d = Place(RcvSize, z, v) /\ d = After(RcvCell(l, Wrap(y))) /\ d # c
  <2>1. (Place(RcvSize, z, y) + (v - y)) % RcvSize = Place(RcvSize, z, v)
    BY ONLY <1>1, <1>4, <1>5, <1>10, PlaceNear
  <2>2. After(Place(RcvSize, z, y)) = Place(RcvSize, z, v)
    <3>1. Place(RcvSize, z, y) \in Int
      BY <1>4, <1>5
    <3>2. Place(RcvSize, z, y) + (v - y) = Place(RcvSize, z, y) + 1
      BY <1>8, <3>1
    <3> QED  BY <2>1, <3>2 DEF After
  <2>3. RcvCell(l, Wrap(y)) = Place(RcvSize, z, y)
    <3>1. PICK g : FirstIn(D, g)
      BY <1>1, Neighbours
    <3> QED  BY <1>5, <3>1, RcvCellIs
  <2>4. v # p
    BY <1>10
  <2> QED  BY <1>4, <1>5, <1>10, <2>2, <2>3, <2>4
<1>13. \A w \in D : Place(RcvSize, z, w) # d
  <2> TAKE w \in D
  <2>1. w \in WindowFrom(a) /\ w # v
    BY <1>1, <1>10
  <2> QED  BY <1>4, <1>10, <1>12, <2>1
<1>14. ~LastIn(D, p) => k \in RcvCells /\ k # c /\ k # d
  <2> HAVE ~LastIn(D, p)
  <2>1. PICK w \in D : NextIn(D, p, w) /\ k = Place(RcvSize, z, w)
    BY <1>7
  <2>2. w # p
    BY <1>1, <2>1 DEF NextIn
  <2> QED  BY <1>1, <1>4, <1>5, <1>13, <2>1, <2>2
<1>15. PICK v1 \in Int : /\ v1 = IF Wrap(y) = Incseq(d1[c]) THEN Nil ELSE Decseq(Wrap(y))
                         /\ v1 = Second(p, f[p])
  <2>1. d1[c] = Wrap(p)
    BY <1>3 DEF Stored
  <2>2. (IF Wrap(y) = Incseq(Wrap(p)) THEN Nil ELSE Decseq(Wrap(y))) = Second(p, y - 1)
    BY <1>1, <1>5, CutEnd
  <2>3. Second(p, y - 1) \in Int
    <3>1. Wrap(y - 1) \in SeqNos
      BY WrapSteps
    <3> QED  BY <3>1, SeqNoAssumption DEF Second, SeqNos, Nil
  <2> QED  BY <1>11, <2>1, <2>2, <2>3
<1>16. PICK lo \in Int, hi \in Int : lo = Incseq(Wrap(y)) /\ hi = d2[c] /\ lo = Wrap(v)
                                  /\ hi = Wrap(e[p]) /\ (hi = lo <=> e[p] = v)
  <2>1. d2[c] = Wrap(e[p])
    <3>1. d2[Place(RcvSize, z, p)] = Second(p, e[p])
      BY <1>3 DEF Stored
    <3>2. e[p] # p
      BY <1>1, <1>5
    <3> QED  BY <3>1, <3>2 DEF Second
  <2>2. Incseq(Wrap(y)) = Wrap(v)
    BY <1>8, WrapSteps
  <2>3. Wrap(e[p]) \in Int /\ Wrap(v) \in Int /\ (Wrap(e[p]) = Wrap(v) <=> e[p] = v)
    <3>1. a \in Int /\ e[p] \in WindowFrom(a) /\ v \in WindowFrom(a)
      BY <1>1, <1>10
    <3>2. Wrap(e[p]) \in Int /\ Wrap(v) \in Int
      BY ONLY <3>1, WrapNear
    <3>3. Wrap(e[p]) = Wrap(v) <=> e[p] = v
      BY ONLY <3>1, WrapNear
    <3> QED  BY <3>2, <3>3
  <2> QED  BY <2>1, <2>2, <2>3
<1>17. PICK e2, g4 : e2 = Put(d2, c, v1) /\ g4 = Put(pr, d, c)
  OBVIOUS
<1>18. PICK v2 \in Int : v2 = IF hi = lo THEN e2[d] ELSE hi
  BY <1>3, <1>4, <1>5, <1>15, <1>17 DEF Put
<1>19. PICK b1, b2, g3, nb, tb, pb :
          /\ b1 = Put(d1, d, lo)
          /\ b2 = Put(e2, d, v2)
          /\ g3 = Put(nx, d, k)
          /\ nb = Put(g3, c, d)
          /\ tb = IF t = c THEN d ELSE t
          /\ pb = IF t = c THEN g4 ELSE Put(g4, k, d)
  OBVIOUS
<1>20. PICK s : s = Split(l, c, Wrap(y))
  OBVIOUS
<1>21. s = Made(b1, b2, nb, pb, h, tb, n)
  <2>1. PICK seq : seq = Wrap(y)
    OBVIOUS
  <2>2. /\ l = Made(d1, d2, nx, pr, h, t, n)
        /\ v1 = IF seq = Incseq(d1[c]) THEN Nil ELSE Decseq(seq)
        /\ e2 = Put(d2, c, v1) /\ d = After(RcvCell(l, seq)) /\ k = nx[c]
        /\ lo = Incseq(seq) /\ hi = d2[c]
        /\ tb = IF t = c THEN d ELSE t
    BY <1>3, <1>6, <1>12, <1>15, <1>16, <1>17, <1>19, <2>1
  <2>3. pb = IF t = c THEN Put(pr, d, c) ELSE Put(Put(pr, d, c), k, d)
    BY <1>17, <1>19
  <2>4. Split(l, c, seq) =
            Made(Put(d1, d, lo), Put(e2, d, IF hi = lo THEN e2[d] ELSE hi),
                 Put(Put(nx, d, k), c, d), pb, h, tb, n)
    BY ONLY <2>2, <2>3, SplitMade
  <2> QED  BY <1>18, <1>19, <1>20, <2>1, <2>4
<1>22. /\ e2 \in [RcvCells -> Int] /\ e2[c] = v1 /\ \A i \in RcvCells : i # c => e2[i] = d2[i]
  BY <1>3, <1>5, <1>15, <1>17 DEF Put
<1>23. /\ b1 \in [RcvCells -> Int] /\ b1[d] = lo /\ \A i \in RcvCells : i # d => b1[i] = d1[i]
       /\ b2 \in [RcvCells -> Int] /\ b2[d] = v2 /\ \A i \in RcvCells : i # d => b2[i] = e2[i]
  BY <1>3, <1>19, <1>22 DEF Put
<1>24. /\ g3 \in [RcvCells -> RcvLinks] /\ g3[d] = k /\ \A i \in RcvCells : i # d => g3[i] = nx[i]
  BY <1>3, <1>19 DEF Put
<1>25. /\ nb \in [RcvCells -> RcvLinks] /\ nb[c] = d /\ \A i \in RcvCells : i # c => nb[i] = g3[i]
  BY <1>4, <1>5, <1>19, <1>24 DEF Put
<1>26. /\ g4 \in [RcvCells -> RcvLinks] /\ g4[d] = c /\ \A i \in RcvCells : i # d => g4[i] = pr[i]
  BY <1>3, <1>4, <1>5, <1>17 DEF Put
<1>27. /\ pb \in [RcvCells -> RcvLinks]
       /\ ~LastIn(D, p) => pb[k] = d /\ \A i \in RcvCells : i # k => pb[i] = g4[i]
       /\ LastIn(D, p) => pb = g4
  <2>1. CASE LastIn(D, p)
    BY <1>7, <1>19, <1>26, <2>1
  <2>2. CASE ~LastIn(D, p)
    BY <1>4, <1>7, <1>14, <1>19, <1>26, <2>2 DEF Put
  <2> QED  BY <2>1, <2>2
<1>28. Stored(RcvSize, z, S, f, b1, b2)
  <2>1. Stored(RcvSize, z, D, f, d1, e2)
    <3>1. d1[c] = Wrap(p)
      BY <1>3 DEF Stored
    <3>2. PutIn(RcvSize, z, p, f[p], d1, d2, d1, e2)
      BY <1>3, <1>4, <1>15, <1>22, <3>1 DEF PutIn, ElsewhereSame
    <3>3. /\ Size(RcvSize) /\ z \in Int /\ Ranges(a, D, e) /\ Stored(RcvSize, z, D, e, d1, d2)
          /\ p \in WindowFrom(a) /\ Agree(D \ {p}, f, e)
      BY <1>1, <1>3, <1>4, <1>5, <1>11
    <3>4. Stored(RcvSize, z, D \cup {p}, f, d1, e2)
      BY ONLY <3>2, <3>3, StoredPut
    <3>5. D \cup {p} = D
      OBVIOUS
    <3> QED  BY <3>4, <3>5
  <2>2. Ranges(a, D, f)
    BY <1>9, <1>11 DEF Ranges
  <2>3. v2 = Second(v, f[v])
    <3>1. d2[Place(RcvSize, z, v)] = Nil
      <4>1. /\ Size(RcvSize) /\ z \in Int /\ Ranges(a, D, e) /\ Stored(RcvSize, z, D, e, d1, d2)
            /\ v \in WindowFrom(a) /\ v \notin D
        BY <1>1, <1>3, <1>4, <1>10
      <4> QED  BY ONLY <4>1, Found
    <3> QED  BY <1>11, <1>12, <1>16, <1>18, <1>22, <3>1 DEF Second
  <2>4. PutIn(RcvSize, z, v, f[v], d1, e2, b1, b2)
    <3>1. b1[d] = Wrap(v) /\ b2[d] = Second(v, f[v])
      BY <1>16, <1>23, <2>3
    <3> QED  BY <1>4, <1>12, <1>23, <3>1 DEF PutIn, ElsewhereSame
  <2>5. Stored(RcvSize, z, D \cup {v}, f, b1, b2)
    <3>1. Agree(D \ {v}, f, f) /\ Size(RcvSize) /\ z \in Int /\ v \in WindowFrom(a)
      BY <1>1, <1>4, <1>10 DEF Agree
    <3> QED  BY ONLY <2>1, <2>2, <2>4, <3>1, StoredPut
  <2> QED  BY <1>9, <2>5
<1>29. Chain(RcvSize, z, S, nb, pb, h, tb)
  <2>1. LinksTyped(RcvSize, nb, pb)
    BY <1>4, <1>25, <1>27 DEF LinksTyped
  <2>2. nb[c] = d /\ nb[d] = nx[c] /\ pb[d] = c
    BY <1>5, <1>6, <1>12, <1>14, <1>24, <1>25, <1>26, <1>27
  <2>3. \A w \in D : Place(RcvSize, z, w) \in RcvCells /\ Place(RcvSize, z, w) # d
    BY <1>1, <1>4, <1>13
  <2>4. \A w \in D : w # p => nb[Place(RcvSize, z, w)] = nx[Place(RcvSize, z, w)]
    BY <1>5, <1>24, <1>25, <2>3
  <2>5. ASSUME NEW w \in D, NextIn(D, p, w)
        PROVE  pb[Place(RcvSize, z, w)] = d
    <3>1. nx[c] = Place(RcvSize, z, w)
      BY <1>3, <2>5 DEF Chain
    <3>2. ~LastIn(D, p)
      BY <1>1, <2>5 DEF NextIn, LastIn
    <3> QED  BY <1>6, <1>27, <3>1, <3>2
  <2>6. ASSUME NEW w \in D, ~NextIn(D, p, w)
        PROVE  pb[Place(RcvSize, z, w)] = pr[Place(RcvSize, z, w)]
    <3>1. ASSUME ~LastIn(D, p)
          PROVE  Place(RcvSize, z, w) # k
      <4>1. PICK u \in D : NextIn(D, p, u) /\ k = Place(RcvSize, z, u)
        BY <1>7, <3>1
      <4> QED  BY <1>1, <1>4, <2>6, <4>1
    <3> QED  BY <1>26, <1>27, <2>3, <3>1
  <2>7. /\ LastIn(D, p) => tb = d
        /\ ~LastIn(D, p) => tb = t
    BY <1>7, <1>19
  <2>8. AddedLinks(RcvSize, z, D, p, v, nx, pr, t, nb, pb, tb)
    BY <1>12, <2>1, <2>2, <2>4, <2>5, <2>6, <2>7 DEF AddedLinks
  <2>9. v \in Int /\ p \in D
    BY <1>8
  <2> QED  BY ONLY <1>1, <1>3, <1>4, <1>9, <1>10, <2>8, <2>9, ChainAdded
<1>30. h \in RcvLinks /\ tb \in RcvLinks
  BY <1>3, <1>4, <1>19
<1>31. RcvHeld(s, a, z, S, f) /\ s.length = n
  BY ONLY <1>1, <1>3, <1>11, <1>21, <1>28, <1>29, <1>30, HeldMade
<1> QED  BY <1>3, <1>11, <1>20, <1>31 DEF Leaves

\* Counting one number fewer moves nothing.
LEMMA FewerHeld ==
  ASSUME NEW l, NEW a, NEW z, NEW D, NEW e, RcvHeld(l, a, z, D, e),
         NEW b, b = [l EXCEPT !.length = @ - 1]
  PROVE  RcvHeld(b, a, z, D, e) /\ b.length = l.length - 1
<1>1. Ranges(a, D, e) /\ Apart(D, e) /\ z \in Int
  BY DEF RcvHeld
<1>2. PICK d1, d2, nx, pr, h, t, n : Opened(l, a, z, D, e, d1, d2, nx, pr, h, t, n)
  BY RcvOpened
<1>3. /\ l = Made(d1, d2, nx, pr, h, t, n) /\ l.length = n /\ n \in Int
      /\ h \in RcvLinks /\ t \in RcvLinks
      /\ Stored(RcvSize, z, D, e, d1, d2) /\ Chain(RcvSize, z, D, nx, pr, h, t)
  BY <1>2 DEF Opened
<1>4. PICK k \in Int : k = n - 1
  BY <1>3
<1>5. b = Made(d1, d2, nx, pr, h, t, k)
  BY <1>3, <1>4, FewerMade
<1>6. RcvHeld(b, a, z, D, e) /\ b.length = k
  BY ONLY <1>1, <1>3, <1>4, <1>5, HeldMade
<1> QED  BY <1>3, <1>4, <1>6

\* A number that starts no range is in the one before it, or in none.
LEMMA InRangeBefore ==
  ASSUME NEW a, NEW D, NEW e, Ranges(a, D, e), Apart(D, e), NEW y \in Int, y \notin D,
         NEW p, PriorIn(D, p, y)
  PROVE  y \in Numbers(D, e) <=> y <= e[p]
<1>1. /\ D \in SUBSET Int /\ p \in D /\ p < y /\ \A w \in D : w < y => w <= p
      /\ \A w \in D : e[w] \in Int /\ w <= e[w]
  <2>1. a \in Int /\ D \in SUBSET WindowFrom(a) /\ \A w \in D : w <= e[w] /\ e[w] \in WindowFrom(a)
    BY DEF Ranges
  <2>2. D \in SUBSET Int /\ \A w \in D : e[w] \in Int
    BY <2>1, WindowFinite
  <2> QED  BY <2>1, <2>2 DEF PriorIn
<1>2. \A n : n \in Numbers(D, e) <=> \E w \in D : n \in w .. e[w]
  BY NumbersInWindow
<1>3. ASSUME y <= e[p]
      PROVE  y \in Numbers(D, e)
  <2>1. y \in p .. e[p]
    BY <1>1, <1>3
  <2> QED  BY <1>1, <1>2, <2>1
<1>4. ASSUME y \in Numbers(D, e)
      PROVE  y <= e[p]
  <2>1. PICK w \in D : y \in w .. e[w]
    BY <1>2, <1>4
  <2>2. w \in Int /\ p \in Int /\ w # y /\ w <= y /\ y <= e[w]
    BY <1>1, <2>1
  <2>3. w <= p
    BY <1>1, <2>2
  <2>4. CASE w = p
    BY <2>2, <2>4
  <2>5. CASE w # p
    <3>1. e[w] < p
      BY <1>1, <2>2, <2>3, <2>5 DEF Apart
    <3> QED  BY <1>1, <2>2, <3>1
  <2> QED  BY <2>4, <2>5
<1> QED  BY <1>3, <1>4

\* What remove(y) does with a list that is not empty and starts no later.
LEMMA RemoveCases ==
  ASSUME NEW l, NEW a, NEW z, NEW D, NEW e, RcvHolds(l, a, z, D, e), NEW g, FirstIn(D, g),
         NEW y \in WindowFrom(a), g <= y
  PROVE  \/ RcvRemove(l, Wrap(y)) = l /\ y \notin Numbers(D, e)
         \/ /\ Leaves(RcvRemove(l, Wrap(y)), a, z, D, e, y, l.length - 1)
            /\ y \in Numbers(D, e)
<1>1. /\ RcvHeld(l, a, z, D, e) /\ l.length = Cardinality(Numbers(D, e))
      /\ l \in RcvLists /\ z \in Int /\ a \in Int
      /\ D \in SUBSET WindowFrom(a) /\ D \in SUBSET Int /\ e \in [Int -> Int]
      /\ \A w \in D : w <= e[w] /\ e[w] \in WindowFrom(a) /\ e[w] \in Int
      /\ Ranges(a, D, e) /\ Apart(D, e) /\ Size(RcvSize)
      /\ Stored(RcvSize, z, D, e, l.data1, l.data2)
  BY RcvParts DEF RcvHolds
<1>2. g \in D /\ g \in Int /\ y \in Int
  BY <1>1, Near DEF FirstIn
<1>3. l.length # 0
  BY <1>1, <1>2, NoNumbers
<1>4. PICK c : c = Place(RcvSize, z, y)
  OBVIOUS
<1>5. ~(Seqoff(l.data1[l.head], Wrap(y)) < 0) /\ RcvCell(l, Wrap(y)) = c
  <2>1. Seqoff(l.data1[l.head], Wrap(y)) = y - g /\ RcvCell(l, Wrap(y)) = Place(RcvSize, z, y)
    BY <1>1, RcvCellIs
  <2> QED  BY <1>2, <1>4, <2>1
<1>6. PICK b : b = [l EXCEPT !.length = @ - 1]
  OBVIOUS
<1>7. RcvHeld(b, a, z, D, e) /\ b.length = l.length - 1
  BY <1>1, <1>6, FewerHeld
<1>8. PICK q : q = CellBefore(l, c)
  OBVIOUS
<1>9. PICK s : s = RcvRemove(l, Wrap(y))
  OBVIOUS
<1>10. s = IF l.data1[c] = Wrap(y)
           THEN IF l.data2[c] = Nil THEN WithoutSingle(b, c) ELSE Shifted(b, c)
           ELSE IF l.data2[q] = Nil \/ Seqcmp(Wrap(y), l.data2[q]) > 0 THEN l
           ELSE IF Wrap(y) = l.data2[q] THEN Shortened(b, q, Wrap(y))
           ELSE Split(b, q, Wrap(y))
  BY <1>3, <1>5, <1>6, <1>8, <1>9 DEF RcvRemove
<1>11. l.data1[c] = Wrap(y) <=> y \in D
  <2>1. /\ Size(RcvSize) /\ z \in Int /\ Ranges(a, D, e) /\ y \in WindowFrom(a)
    BY <1>1
  <2>2. PICK d1, d2 : d1 = l.data1 /\ d2 = l.data2
    OBVIOUS
  <2>3. Stored(RcvSize, z, D, e, d1, d2)
    BY <1>1, <2>2
  <2>4. d1[Place(RcvSize, z, y)] = Wrap(y) <=> y \in D
    BY ONLY <2>1, <2>3, Found
  <2> QED  BY <1>4, <2>2, <2>4
<1>12. CASE y \in D
  <2>1. y \in Numbers(D, e)
    BY <1>1, <1>12, NumbersInWindow
  <2>2. l.data2[c] = Second(y, e[y])
    BY <1>1, <1>4, <1>12 DEF Stored
  <2>3. CASE e[y] = y
    <3>1. s = WithoutSingle(b, c)
      BY <1>10, <1>11, <1>12, <2>2, <2>3 DEF Second
    <3>2. Leaves(WithoutSingle(b, c), a, z, D, e, y, b.length)
      BY <1>4, <1>7, <1>12, <2>3, SingleLeaves
    <3> QED  BY <1>7, <1>9, <2>1, <3>1, <3>2
  <2>4. CASE e[y] # y
    <3>1. Wrap(e[y]) # Nil
      <4>1. e[y] \in WindowFrom(a) /\ a \in Int
        BY <1>1, <1>12
      <4> QED  BY ONLY <4>1, WrapNear
    <3>2. s = Shifted(b, c)
      BY <1>10, <1>11, <1>12, <2>2, <2>4, <3>1 DEF Second
    <3>3. y < e[y]
      BY <1>1, <1>2, <1>12, <2>4
    <3>4. Leaves(Shifted(b, c), a, z, D, e, y, b.length)
      BY <1>4, <1>7, <1>12, <3>3, ShiftedLeaves
    <3> QED  BY <1>7, <1>9, <2>1, <3>2, <3>4
  <2> QED  BY <2>3, <2>4
<1>13. CASE y \notin D
  <2>1. PICK p \in D : PriorIn(D, p, y)
    <3>1. (\A w \in D : y <= w) \/ \E w \in D : PriorIn(D, w, y)
      BY <1>1, <1>2, Neighbours
    <3>2. ~(y <= g)
      BY <1>2, <1>13
    <3> QED  BY <1>2, <3>1, <3>2
  <2>2. p \in Int /\ p < y /\ e[p] \in Int /\ p <= e[p] /\ e[p] \in WindowFrom(a)
    BY <1>1, <2>1 DEF PriorIn
  <2>3. q = Place(RcvSize, z, p)
    BY <1>1, <1>4, <1>8, <2>1, CellBeforeIs
  <2>4. l.data2[q] = Second(p, e[p])
    BY <1>1, <2>3 DEF Stored
  <2>5. y \in Numbers(D, e) <=> y <= e[p]
    BY <1>1, <1>2, <1>13, <2>1, InRangeBefore
  <2>6. /\ Wrap(e[p]) # Nil
        /\ Seqcmp(Wrap(y), Wrap(e[p])) > 0 <=> y > e[p]
        /\ Wrap(y) = Wrap(e[p]) <=> y = e[p]
    <3>1. a \in Int /\ y \in WindowFrom(a) /\ e[p] \in WindowFrom(a)
      BY <1>1, <2>2
    <3>2. Wrap(e[p]) # Nil
      BY ONLY <3>1, WrapNear
    <3>3. Seqcmp(Wrap(y), Wrap(e[p])) > 0 <=> y > e[p]
      BY ONLY <3>1, WrapNear
    <3>4. Wrap(y) = Wrap(e[p]) <=> y = e[p]
      BY ONLY <3>1, WrapNear
    <3> QED  BY <3>2, <3>3, <3>4
  <2>7. CASE e[p] < y
    <3>1. l.data2[q] = Nil \/ Seqcmp(Wrap(y), l.data2[q]) > 0
      BY <2>2, <2>4, <2>6, <2>7 DEF Second
    <3>2. s = l
      BY <1>10, <1>11, <1>13, <3>1
    <3> QED  BY <1>2, <1>9, <2>2, <2>5, <2>7, <3>2
  <2>8. CASE y <= e[p]
    <3>1. l.data2[q] = Wrap(e[p]) /\ p < e[p]
      BY <1>2, <2>2, <2>4, <2>8 DEF Second
    <3>2. ~(l.data2[q] = Nil \/ Seqcmp(Wrap(y), l.data2[q]) > 0)
      BY <1>2, <2>2, <2>6, <2>8, <3>1
    <3>3. CASE y = e[p]
      <4>1. s = Shortened(b, q, Wrap(y))
        BY <1>10, <1>11, <1>13, <2>6, <3>1, <3>2, <3>3
      <4>2. Leaves(Shortened(b, q, Wrap(y)), a, z, D, e, y, b.length)
        BY <1>7, <2>3, <3>1, <3>3, ShortenedLeaves
      <4> QED  BY <1>7, <1>9, <2>5, <2>8, <4>1, <4>2
    <3>4. CASE y # e[p]
      <4>1. s = Split(b, q, Wrap(y))
        BY <1>10, <1>11, <1>13, <2>6, <3>1, <3>2, <3>4
      <4>2. y < e[p]
        BY <1>2, <2>2, <2>8, <3>4
      <4>3. Leaves(Split(b, q, Wrap(y)), a, z, D, e, y, b.length)
        BY <1>2, <1>7, <2>2, <2>3, <4>2, SplitLeaves
      <4> QED  BY <1>7, <1>9, <2>5, <2>8, <4>1, <4>3
    <3> QED  BY <3>3, <3>4
  <2> QED  BY <1>2, <2>2, <2>7, <2>8
<1> QED  BY <1>12, <1>13

\* remove(y) takes y out, and nothing else.
LEMMA RcvRemoveHolds ==
  ASSUME NEW l, NEW a, NEW z, NEW D, NEW e, RcvHolds(l, a, z, D, e), NEW y \in WindowFrom(a)
  PROVE  \E S, f : /\ RcvHolds(RcvRemove(l, Wrap(y)), a, z, S, f)
                   /\ Numbers(S, f) = Numbers(D, e) \ {y}
<1>1. /\ RcvHeld(l, a, z, D, e) /\ l.length = Cardinality(Numbers(D, e))
      /\ z \in Int /\ a \in Int /\ D \in SUBSET Int /\ D \in SUBSET WindowFrom(a)
      /\ Ranges(a, D, e) /\ y \in Int
  BY RcvParts, Near DEF RcvHolds
<1>2. PICK N : N = Numbers(D, e)
  OBVIOUS
<1>3. N \in SUBSET WindowFrom(a) /\ \A n : n \in N <=> \E w \in D : n \in w .. e[w]
  BY <1>1, <1>2, NumbersInWindow
<1>4. ASSUME RcvRemove(l, Wrap(y)) = l, y \notin N
      PROVE  \E S, f : RcvHolds(RcvRemove(l, Wrap(y)), a, z, S, f) /\ Numbers(S, f) = N \ {y}
  <2>1. N \ {y} = N
    BY <1>4
  <2> QED  BY <1>2, <1>4, <2>1
<1>5. ASSUME Leaves(RcvRemove(l, Wrap(y)), a, z, D, e, y, l.length - 1), y \in N
      PROVE  \E S, f : RcvHolds(RcvRemove(l, Wrap(y)), a, z, S, f) /\ Numbers(S, f) = N \ {y}
  <2>1. PICK s : s = RcvRemove(l, Wrap(y))
    OBVIOUS
  <2>2. PICK S, f : /\ RcvHeld(s, a, z, S, f) /\ s.length = l.length - 1
                    /\ Numbers(S, f) = N \ {y}
    BY <1>2, <1>5, <2>1 DEF Leaves
  <2>3. Cardinality(N \ {y}) = Cardinality(N) - 1
    BY ONLY <1>1, <1>3, <1>5, CountLess
  <2>4. RcvHolds(s, a, z, S, f)
    BY <1>1, <1>2, <2>2, <2>3 DEF RcvHolds
  <2> QED  BY <2>1, <2>2, <2>4
<1>6. CASE D = {}
  <2>1. l.length = 0
    BY <1>1, <1>6, NoNumbers
  <2>2. RcvRemove(l, Wrap(y)) = l
    BY <2>1 DEF RcvRemove
  <2>3. y \notin N
    BY <1>3, <1>6
  <2> QED  BY <1>2, <1>4, <2>2, <2>3
<1>7. ASSUME NEW g, FirstIn(D, g)
      PROVE  \E S, f : RcvHolds(RcvRemove(l, Wrap(y)), a, z, S, f) /\ Numbers(S, f) = N \ {y}
  <2>1. g \in D /\ g \in Int /\ \A w \in D : g <= w
    BY <1>1, <1>7 DEF FirstIn
  <2>2. CASE y < g
    <3>1. Seqoff(l.data1[l.head], Wrap(y)) = y - g
      BY <1>1, <1>7, RcvCellIs
    <3>2. Seqoff(l.data1[l.head], Wrap(y)) < 0
      BY <1>1, <2>1, <2>2, <3>1
    <3>3. RcvRemove(l, Wrap(y)) = l
      BY <3>2 DEF RcvRemove
    <3>4. y \notin N
      BY <1>1, <1>3, <2>1, <2>2
    <3> QED  BY <1>4, <3>3, <3>4
  <2>3. CASE g <= y
    BY <1>2, <1>4, <1>5, <1>7, <2>3, RemoveCases
  <2> QED  BY <1>1, <2>1, <2>2, <2>3
<1>8. D = {} \/ \E g \in D : FirstIn(D, g)
  BY <1>1, Neighbours
<1> QED  BY <1>2, <1>6, <1>7, <1>8

-----------------------------------------------------------------------------
(* A stretch of numbers is removed.                                        *)

\* Numbers of the window whose sequence numbers do not wrap, lo to hi.
Straight(a, x, y, lo, hi) ==
    /\ x \in Int /\ y \in Int /\ lo \in Nat /\ hi \in Int
    /\ hi - lo = y - x /\ x <= y + 1 /\ y - x < Window
    /\ \A n \in x .. y : n \in WindowFrom(a) /\ Wrap(n) = lo + (n - x)

\* The loop that removes them one by one, when those before r are out of N.
Removes == [l : RcvLists, seq : Nat]
Without(l, a, z, N) == \E S, f : RcvHolds(l, a, z, S, f) /\ Numbers(S, f) = N
Removing(s, a, z, N, x, lo, r) ==
    /\ s \in Removes /\ s.seq = lo + (r - x)
    /\ Without(s.l, a, z, N \ (x .. (r - 1)))

\* One number removed.
LEMMA WithoutRemoved ==
  ASSUME NEW l, NEW a, NEW z, NEW N, Without(l, a, z, N), NEW r \in WindowFrom(a),
         NEW b, b = RcvRemove(l, Wrap(r))
  PROVE  Without(b, a, z, N \ {r}) /\ b \in RcvLists
<1>1. PICK D, e : RcvHolds(l, a, z, D, e) /\ Numbers(D, e) = N
  BY DEF Without
<1>2. PICK S, f : RcvHolds(b, a, z, S, f) /\ Numbers(S, f) = N \ {r}
  BY <1>1, RcvRemoveHolds
<1> QED  BY <1>2 DEF Without, RcvHolds, RcvHeld

\* A pass of the loop removes the next number or ends.
LEMMA RemoveStep ==
  ASSUME NEW a, NEW x, NEW y, NEW lo, NEW hi, Straight(a, x, y, lo, hi),
         NEW s, NEW z, NEW N, NEW r \in x .. (y + 1), Removing(s, a, z, N, x, lo, r)
  PROVE  \/ r = y + 1 /\ RemoveNext(hi)[s] = s
         \/ /\ r + 1 \in x .. (y + 1) /\ RemoveNext(hi)[s] # s
            /\ Removing(RemoveNext(hi)[s], a, z, N, x, lo, r + 1)
<1>1. /\ x \in Int /\ y \in Int /\ lo \in Nat /\ hi \in Int
      /\ hi - lo = y - x /\ x <= y + 1 /\ r \in Int
  BY DEF Straight
<1>2. PICK l \in RcvLists, q \in Nat : s = [l |-> l, seq |-> q] /\ l = s.l /\ q = s.seq
  BY DEF Removing, Removes
<1>3. q = lo + (r - x) /\ Without(l, a, z, N \ (x .. (r - 1)))
  BY <1>2 DEF Removing
<1>4. s \in [l : RcvLists, seq : Nat]
  BY DEF Removing, Removes
<1>5. RemoveNext(hi)[s] = IF q > hi THEN s
                          ELSE [l |-> RcvRemove(l, q), seq |-> q + 1]
  BY <1>2, <1>4 DEF RemoveNext
<1>6. CASE r = y + 1
  <2>1. q > hi
    BY <1>1, <1>3, <1>6
  <2> QED  BY <1>5, <1>6, <2>1
<1>7. CASE r # y + 1
  <2>1. r \in x .. y /\ r + 1 \in x .. (y + 1) /\ ~(q > hi)
    BY <1>1, <1>3, <1>7
  <2>2. r \in WindowFrom(a) /\ Wrap(r) = q
    BY <1>3, <2>1 DEF Straight
  <2>3. PICK b : b = RcvRemove(l, q)
    OBVIOUS
  <2>4. PICK M : M = N \ (x .. (r - 1))
    OBVIOUS
  <2>5. Without(b, a, z, M \ {r}) /\ b \in RcvLists
    BY <1>3, <2>2, <2>3, <2>4, WithoutRemoved
  <2>6. PICK t \in Removes : t = [l |-> b, seq |-> q + 1] /\ t.l = b /\ t.seq = q + 1
    <3>1. [l |-> b, seq |-> q + 1] \in Removes
      BY <2>5 DEF Removes
    <3> QED  BY <3>1
  <2>7. RemoveNext(hi)[s] = t
    BY <1>5, <2>1, <2>3, <2>6
  <2>8. t # s
    BY <1>2, <2>6
  <2>9. t \in Removes /\ t.seq = lo + ((r + 1) - x)
    BY <1>1, <1>3, <2>5, <2>6 DEF Removes
  <2>10. M \ {r} = N \ (x .. ((r + 1) - 1))
    <3>1. \A n : n \in x .. ((r + 1) - 1) <=> n \in x .. (r - 1) \/ n = r
      BY <1>1, <2>1
    <3> QED  BY <2>4, <3>1
  <2>11. Removing(t, a, z, N, x, lo, r + 1)
    BY <2>5, <2>6, <2>9, <2>10 DEF Removing
  <2> QED  BY <2>1, <2>7, <2>8, <2>11
<1> QED  BY <1>6, <1>7

\* When it has ended, all of them are out.
LEMMA RemovedEach ==
  ASSUME NEW a, NEW x, NEW y, NEW lo, NEW hi, Straight(a, x, y, lo, hi),
         NEW l, NEW z, NEW N, Without(l, a, z, N)
  PROVE  Without(RemoveEach(l, lo, hi), a, z, N \ (x .. y))
<1>1. /\ x \in Int /\ y \in Int /\ lo \in Nat /\ hi \in Int
      /\ hi - lo = y - x /\ x <= y + 1 /\ y - x < Window
  BY DEF Straight
<1> DEFINE Left(s, k) == \E r \in x .. (y + 1) : Removing(s, a, z, N, x, lo, r) /\ k = y + 1 - r
           R == [s \in Removes |-> {k \in Nat : Left(s, k)}]
<1>2. R \in [Removes -> SUBSET Nat]
  OBVIOUS
<1>3. ASSUME NEW s \in Removes, NEW k \in R[s]
      PROVE  \/ RemoveNext(hi)[s] = s
             \/ RemoveNext(hi)[s] \in Removes /\ \E j \in R[RemoveNext(hi)[s]] : j < k
  <2>1. PICK r \in x .. (y + 1) : Removing(s, a, z, N, x, lo, r) /\ k = y + 1 - r
    OBVIOUS
  <2>2. CASE RemoveNext(hi)[s] # s
    <3>1. PICK t : t = RemoveNext(hi)[s]
      OBVIOUS
    <3>2. r + 1 \in x .. (y + 1) /\ Removing(t, a, z, N, x, lo, r + 1)
      BY <2>1, <2>2, <3>1, RemoveStep
    <3>3. t \in Removes
      BY <3>2 DEF Removing
    <3>4. PICK p \in Int : p = r + 1 /\ p \in x .. (y + 1) /\ Removing(t, a, z, N, x, lo, p)
      BY <1>1, <3>2
    <3>5. PICK j \in Nat : j = y + 1 - p /\ j < k
      BY <1>1, <2>1, <3>4
    <3>6. Left(t, j)
      BY <3>4, <3>5
    <3>7. j \in R[t]
      <4> HIDE DEF Left
      <4> QED  BY <3>3, <3>5, <3>6
    <3> HIDE DEF R
    <3> QED  BY <3>1, <3>3, <3>5, <3>7
  <2> QED  BY <2>2
<1>4. PICK s \in Removes : s = [l |-> l, seq |-> lo] /\ s.l = l /\ s.seq = lo
  <2>1. l \in RcvLists
    BY DEF Without, RcvHolds, RcvHeld
  <2>2. [l |-> l, seq |-> lo] \in Removes
    BY <1>1, <2>1 DEF Removes
  <2> QED  BY <2>2
<1>5. Removing(s, a, z, N, x, lo, x) /\ s \in Removes
  <2>1. s \in Removes
    OBVIOUS
  <2>3. lo = lo + (x - x)
    BY <1>1
  <2>4. N \ (x .. (x - 1)) = N
    BY <1>1
  <2> QED  BY <1>4, <2>1, <2>3, <2>4 DEF Removing
<1>6. PICK m \in Nat : m \in R[s] /\ m <= Window
  <2>1. PICK m \in Nat : m = y + 1 - x /\ m <= Window
    BY <1>1, WindowAssumption
  <2>2. x \in x .. (y + 1)
    BY <1>1
  <2>3. Left(s, m)
    BY <1>5, <2>1, <2>2
  <2> HIDE DEF Left
  <2> QED  BY <1>5, <2>1, <2>3
<1> DEFINE q == Repeat(RemoveNext(hi), s, Window)
<1>7. RemoveNext(hi)[q] = q /\ q \in Removes /\ R[q] # {}
  <2> HIDE DEF R
  <2>1. Window \in Nat
    BY WindowAssumption
  <2>2. PICK pass : pass = RemoveNext(hi)
    OBVIOUS
  <2>3. \A t \in Removes : \A k \in R[t] :
             pass[t] = t \/ (pass[t] \in Removes /\ \E j \in R[pass[t]] : j < k)
    BY <1>3, <2>2
  <2>4. /\ pass[Repeat(pass, s, Window)] = Repeat(pass, s, Window)
        /\ Repeat(pass, s, Window) \in Removes
        /\ R[Repeat(pass, s, Window)] # {}
    BY ONLY <1>2, <2>3, <1>5, <1>6, <2>1, RepeatEnds
  <2> QED  BY <2>2, <2>4
<1> HIDE DEF q
<1>8. PICK r \in x .. (y + 1) : Removing(q, a, z, N, x, lo, r)
  <2>1. \E k \in R[q] : TRUE
    <3> HIDE DEF R
    <3> QED  BY <1>7
  <2> QED  BY <1>7, <2>1
<1>9. r = y + 1
  BY <1>7, <1>8, RemoveStep
<1>10. Without(q.l, a, z, N \ (x .. y))
  <2>1. r - 1 = y
    BY <1>1, <1>9
  <2> QED  BY <1>8, <2>1 DEF Removing
<1>11. RemoveEach(l, lo, hi) = q.l
  BY <1>4 DEF RemoveEach, q
<1> QED  BY <1>10, <1>11

\* Stretches of the window without a wrap, and around one.
LEMMA StraightParts ==
  ASSUME NEW a \in Int, NEW x \in WindowFrom(a), NEW y \in WindowFrom(a), x <= y,
         NEW lo, lo = Wrap(x), NEW hi, hi = Wrap(y)
  PROVE  /\ lo <= hi => Straight(a, x, y, lo, hi)
         /\ ~(lo <= hi) => \E w \in x .. y : /\ Straight(a, x, w - 1, lo, MaxSeqNo - 1)
                                             /\ Straight(a, w + 1, y, 0, hi)
<1>1. /\ SeqNoTH \in Nat \ {0} /\ MaxSeqNo = (2 * SeqNoTH) + 1 /\ MaxSeqNo \in Nat
      /\ Window \in Nat \ {0} /\ Window < SeqNoTH
  BY SeqNoAssumption, WindowAssumption
<1>2. x \in Int /\ y \in Int /\ y - x < Window /\ \A n \in x .. y : n \in WindowFrom(a) /\ n \in Int
  BY <1>1 DEF WindowFrom
<1>3. lo \in 0 .. MaxSeqNo /\ hi \in 0 .. MaxSeqNo
  BY WrapNear DEF SeqNos
<1>4. ASSUME NEW n \in x .. y
      PROVE  Wrap(n) = IF lo + (n - x) > MaxSeqNo
                       THEN lo + (n - x) - (MaxSeqNo + 1) ELSE lo + (n - x)
  <2>1. n \in Int /\ x <= n /\ n - x <= SeqNoTH
    BY <1>1, <1>2
  <2>2. PICK d \in Int : d = n - x
    BY <1>2, <2>1
  <2>3. Wrap(n) = IF Wrap(x) + d > MaxSeqNo
                  THEN Wrap(x) + d - (MaxSeqNo + 1) ELSE Wrap(x) + d
    BY <1>2, <2>1, <2>2, Wrapped
  <2> QED  BY <2>2, <2>3
<1>5. PICK k \in Int : k = y - x /\ 0 <= k /\ k < Window /\ y = x + k
  BY <1>2
<1>6. hi = IF lo + k > MaxSeqNo THEN lo + k - (MaxSeqNo + 1) ELSE lo + k
  BY <1>2, <1>4, <1>5
<1>7. ASSUME lo <= hi
      PROVE  Straight(a, x, y, lo, hi)
  <2>1. hi = lo + k /\ lo + k <= MaxSeqNo
    BY <1>1, <1>3, <1>5, <1>6, <1>7
  <2>2. \A n \in x .. y : Wrap(n) = lo + (n - x)
    <3> TAKE n \in x .. y
    <3>1. PICK d \in Int : d = n - x /\ d <= k
      BY <1>2, <1>5
    <3>2. lo + d <= MaxSeqNo
      BY <1>1, <1>3, <1>5, <2>1, <3>1
    <3>3. Wrap(n) = IF lo + d > MaxSeqNo THEN lo + d - (MaxSeqNo + 1) ELSE lo + d
      BY <1>4, <3>1
    <3> QED  BY <1>1, <1>3, <3>1, <3>2, <3>3
  <2>3. hi - lo = y - x /\ x <= y + 1 /\ y - x < Window /\ lo \in Nat /\ hi \in Int
    BY <1>2, <1>3, <1>5, <2>1
  <2> QED  BY <1>2, <2>2, <2>3 DEF Straight
<1>8. ASSUME ~(lo <= hi)
      PROVE  \E w \in x .. y : /\ Straight(a, x, w - 1, lo, MaxSeqNo - 1)
                               /\ Straight(a, w + 1, y, 0, hi)
  <2>1. hi = lo + k - (MaxSeqNo + 1) /\ lo + k > MaxSeqNo
    BY <1>1, <1>3, <1>5, <1>6, <1>8
  <2>2. PICK m \in Int : m = MaxSeqNo - lo /\ 0 <= m /\ m <= k /\ m = k - 1 - hi
    BY <1>1, <1>3, <1>5, <2>1
  <2>3. PICK w \in Int : w = x + m /\ w \in x .. y
    BY <1>2, <1>5, <2>2
  <2>4. PICK u \in Int : u = w - 1
    BY <2>3
  <2>5. PICK v \in Int : v = w + 1
    BY <2>3
  <2>6. Straight(a, x, u, lo, MaxSeqNo - 1)
    <3>1. \A n \in x .. u : n \in WindowFrom(a) /\ Wrap(n) = lo + (n - x)
      <4> TAKE n \in x .. u
      <4>1. n \in x .. y
        BY <1>2, <2>3, <2>4
      <4>2. PICK d \in Int : d = n - x /\ d < m
        BY <1>2, <2>2, <2>3, <2>4
      <4>3. lo + d <= MaxSeqNo
        BY <1>1, <1>3, <2>2, <4>2
      <4>4. Wrap(n) = IF lo + d > MaxSeqNo THEN lo + d - (MaxSeqNo + 1) ELSE lo + d
        BY <1>4, <4>1, <4>2
      <4> QED  BY <1>1, <1>2, <1>3, <4>1, <4>2, <4>3, <4>4
    <3>2. /\ (MaxSeqNo - 1) - lo = u - x /\ x <= u + 1 /\ u - x < Window
          /\ lo \in Nat /\ MaxSeqNo - 1 \in Int
      BY <1>1, <1>2, <1>3, <1>5, <2>2, <2>3, <2>4
    <3> QED  BY <1>2, <2>4, <3>1, <3>2 DEF Straight
  <2>7. Straight(a, v, y, 0, hi)
    <3>1. \A n \in v .. y : n \in WindowFrom(a) /\ Wrap(n) = 0 + (n - v)
      <4> TAKE n \in v .. y
      <4>1. n \in x .. y
        BY <1>2, <2>3, <2>5
      <4>2. PICK d \in Int : d = n - x /\ d > m
        BY <1>2, <2>2, <2>3, <2>5
      <4>3. lo + d > MaxSeqNo
        BY <1>1, <1>3, <2>2, <4>2
      <4>4. Wrap(n) = IF lo + d > MaxSeqNo THEN lo + d - (MaxSeqNo + 1) ELSE lo + d
        BY <1>4, <4>1, <4>2
      <4>5. lo + d - (MaxSeqNo + 1) = 0 + (n - v)
        BY <1>1, <1>2, <1>3, <2>2, <2>3, <2>5, <4>1, <4>2
      <4> QED  BY <1>2, <4>1, <4>3, <4>4, <4>5
    <3>2. hi - 0 = y - v /\ v <= y + 1 /\ y - v < Window /\ 0 \in Nat /\ hi \in Int
      BY <1>1, <1>2, <1>3, <1>5, <2>1, <2>2, <2>3, <2>5
    <3> QED  BY <1>2, <2>5, <3>1, <3>2 DEF Straight
  <2> QED  BY <2>3, <2>4, <2>5, <2>6, <2>7
<1> QED  BY <1>7, <1>8

\* The method removes the stretch; around a wrap one number may be left.
LEMMA RangeWithout ==
  ASSUME NEW a \in Int, NEW x \in WindowFrom(a), NEW y \in WindowFrom(a), x <= y,
         NEW lo, lo = Wrap(x), NEW hi, hi = Wrap(y),
         NEW l, NEW z, NEW N, Without(l, a, z, N), NEW b, b = RemoveRange(l, lo, hi)
  PROVE  /\ lo <= hi => Without(b, a, z, N \ (x .. y))
         /\ \E M \in SUBSET N : Without(b, a, z, M)
<1>1. CASE lo <= hi
  <2>1. Straight(a, x, y, lo, hi)
    BY <1>1, StraightParts
  <2>2. Without(RemoveEach(l, lo, hi), a, z, N \ (x .. y))
    BY <2>1, RemovedEach
  <2>3. b = RemoveEach(l, lo, hi)
    BY <1>1 DEF RemoveRange
  <2>4. N \ (x .. y) \in SUBSET N
    OBVIOUS
  <2> QED  BY <2>2, <2>3, <2>4
<1>2. CASE ~(lo <= hi)
  <2>1. PICK w \in x .. y : /\ Straight(a, x, w - 1, lo, MaxSeqNo - 1)
                            /\ Straight(a, w + 1, y, 0, hi)
    BY <1>2, StraightParts
  <2>2. PICK M : M = N \ (x .. (w - 1))
    OBVIOUS
  <2>3. PICK k : k = RemoveEach(l, lo, MaxSeqNo - 1)
    OBVIOUS
  <2>4. Without(k, a, z, M)
    BY <2>1, <2>2, <2>3, RemovedEach
  <2>5. Without(RemoveEach(k, 0, hi), a, z, M \ ((w + 1) .. y))
    BY <2>1, <2>4, RemovedEach
  <2>6. b = RemoveEach(k, 0, hi)
    BY <1>2, <2>3 DEF RemoveRange
  <2>7. M \ ((w + 1) .. y) \in SUBSET N
    BY <2>2
  <2> QED  BY <1>2, <2>5, <2>6, <2>7
<1> QED  BY <1>1, <1>2

-----------------------------------------------------------------------------
(* What a list that holds ranges is like.                                  *)

\* It counts them, finds each and keeps them in order, both ways.
LEMMA RcvWellFormed ==
  ASSUME NEW l, NEW a, NEW z, NEW D, NEW e, RcvHolds(l, a, z, D, e)
  PROVE  LengthExact(l) /\ RcvNodesInPlace(l)
<1> DEFINE P(w) == Place(RcvSize, z, w)
<1>1. RcvHeld(l, a, z, D, e) /\ l.length = Cardinality(Numbers(D, e))
  BY DEF RcvHolds
<1>2. /\ a \in Int /\ D \in SUBSET WindowFrom(a) /\ D \in SUBSET Int /\ e \in [Int -> Int]
      /\ \A w \in D : w <= e[w] /\ e[w] \in WindowFrom(a) /\ e[w] \in Int
      /\ l \in RcvLists /\ z \in Int /\ Ranges(a, D, e) /\ Apart(D, e)
      /\ Stored(RcvSize, z, D, e, l.data1, l.data2) /\ Size(RcvSize)
      /\ Chain(RcvSize, z, D, l.next, l.prior, l.head, l.tail)
  BY <1>1, RcvParts
<1>3. /\ \A x, y \in D : NextIn(D, x, y) => l.next[P(x)] = P(y) /\ l.prior[P(y)] = P(x)
      /\ \A x \in D : LastIn(D, x) => l.next[P(x)] = Nil /\ l.tail = P(x)
      /\ HeadIs(RcvSize, z, D, l.head)
  BY <1>2 DEF Chain
<1>4. /\ Occupied(l) = {P(x) : x \in D}
      /\ Covered(l) = {Wrap(n) : n \in Numbers(D, e)}
  <2>1. /\ Size(RcvSize) /\ z \in Int /\ Ranges(a, D, e)
        /\ Stored(RcvSize, z, D, e, l.data1, l.data2)
    BY <1>2
  <2>2. Occupied(l) = {Place(RcvSize, z, x) : x \in D}
    BY ONLY <2>1, CoveredIs
  <2>3. Covered(l) = {Wrap(n) : n \in Numbers(D, e)}
    BY ONLY <2>1, CoveredIs
  <2> QED  BY <2>2, <2>3
<1>5. LengthExact(l)
  <2>1. PICK N : N = Numbers(D, e)
    OBVIOUS
  <2>2. N \in SUBSET WindowFrom(a)
    BY <1>2, <2>1, NumbersInWindow
  <2>3. Cardinality({Wrap(n) : n \in N}) = Cardinality(N)
    BY <1>2, <2>2, CountWrapped
  <2> QED  BY <1>1, <1>4, <2>1, <2>3 DEF LengthExact
<1>6. (l.head = Nil \/ l.length = 0) <=> Occupied(l) = {}
  <2>1. l.length = 0 <=> D = {}
    BY <1>1, <1>2, NoNumbers
  <2>2. Occupied(l) = {} <=> D = {}
    BY <1>4
  <2>3. D # {} => l.head # Nil
    <3>1. ASSUME D # {} PROVE l.head # Nil
      <4>1. PICK g \in D : FirstIn(D, g)
        BY <1>2, <3>1, Neighbours
      <4>2. P(g) # Nil
        BY <1>2, PlaceNear
      <4> QED  BY <1>3, <4>1, <4>2 DEF HeadIs
    <3> QED  BY <3>1
  <2> QED  BY <2>1, <2>2, <2>3
<1>7. ASSUME NEW x \in D
      PROVE  /\ RcvCell(l, l.data1[P(x)]) = P(x)
             /\ LET later == {d \in Occupied(l) : Seqcmp(l.data1[d], l.data1[P(x)]) > 0}
                    n == l.next[P(x)]
                IN  IF later = {} THEN n = Nil /\ l.tail = P(x)
                    ELSE /\ n \in later /\ l.prior[n] = P(x)
                         /\ \A d \in later : Seqcmp(l.data1[n], l.data1[d]) <= 0
                         /\ Seqcmp(End(l, P(x)), l.data1[n]) < 0
  <2> DEFINE later == {d \in Occupied(l) : Seqcmp(l.data1[d], l.data1[P(x)]) > 0}
  <2>1. \A w \in D : l.data1[P(w)] = Wrap(w)
    BY <1>2 DEF Stored
  <2>2. RcvCell(l, l.data1[P(x)]) = P(x)
    <3>1. PICK g \in D : FirstIn(D, g)
      BY <1>2, Neighbours
    <3>2. x \in WindowFrom(a)
      BY <1>2
    <3>3. RcvCell(l, Wrap(x)) = P(x)
      BY <1>1, <3>1, <3>2, RcvCellIs
    <3> QED  BY <2>1, <3>3
  <2>3. \A v, w \in D : /\ Seqcmp(Wrap(v), Wrap(w)) > 0 <=> v > w
                        /\ Seqcmp(Wrap(v), Wrap(w)) <= 0 <=> v <= w
    BY <1>2, WrapNear
  <2>4. \A d : d \in later <=> \E w \in D : d = P(w) /\ w > x
    BY <1>4, <2>1, <2>3
  <2> HIDE DEF later
  <2>5. CASE \A w \in D : w <= x
    <3>1. later = {}
      BY <1>2, <2>4, <2>5
    <3>2. l.next[P(x)] = Nil /\ l.tail = P(x)
      <4>1. LastIn(D, x)
        BY <2>5 DEF LastIn
      <4> QED  BY <1>3, <4>1
    <3> QED  BY <2>2, <3>1, <3>2 DEF later
  <2>6. CASE ~\A w \in D : w <= x
    <3>1. PICK y \in D : NextIn(D, x, y)
      BY <1>2, <2>6, Neighbours
    <3>2. x < y /\ \A w \in D : x < w => y <= w
      BY <3>1 DEF NextIn
    <3>3. l.next[P(x)] = P(y) /\ l.prior[P(y)] = P(x)
      BY <1>3, <3>1
    <3>4. P(y) \in later
      BY <1>2, <2>4, <3>2
    <3>5. \A d \in later : Seqcmp(l.data1[P(y)], l.data1[d]) <= 0
      <4>1. \A w \in D : w > x => Seqcmp(l.data1[P(y)], l.data1[P(w)]) <= 0
        BY <1>2, <2>1, <2>3, <3>2
      <4> QED  BY <2>4, <4>1
    <3>6. Seqcmp(End(l, P(x)), l.data1[P(y)]) < 0
      <4>1. End(l, P(x)) = Wrap(e[x])
        BY <1>2, EndIs
      <4>2. e[x] < y
        BY <1>2, <3>2 DEF Apart
      <4>3. Seqcmp(Wrap(e[x]), Wrap(y)) < 0
        BY <1>2, <4>2, WrapNear
      <4> QED  BY <2>1, <4>1, <4>3
    <3>7. PICK n : n = P(y)
      OBVIOUS
    <3> QED  BY <2>2, <3>3, <3>4, <3>5, <3>6, <3>7 DEF later
  <2> QED  BY <2>5, <2>6
<1>8. RcvNodesInPlace(l)
  <2>1. \A c \in Occupied(l) : \E x \in D : c = P(x)
    BY <1>4
  <2> QED  BY <1>6, <1>7, <2>1 DEF RcvNodesInPlace
<1> QED  BY <1>5, <1>8

\* A list with no number holds one from any first one on.
LEMMA EmptyRcvHolds ==
  ASSUME NEW a \in Int
  PROVE  RcvHolds(EmptyRcvList, a, 0, {}, [i \in Int |-> i])
<1>1. RcvCells = 0 .. (RcvSize - 1) /\ RcvLinks = RcvCells \cup {Nil} /\ Nil \in RcvLinks
  BY DEF RcvCells, RcvLinks
<1>2. NoLink \in [RcvCells -> Int] /\ NoLink \in [RcvCells -> RcvLinks]
  BY <1>1 DEF NoLink, Nil
<1>3. EmptyRcvList \in RcvLists
  BY <1>1, <1>2 DEF EmptyRcvList, RcvLists, Nil
<1>4. Stored(RcvSize, 0, {}, [i \in Int |-> i], EmptyRcvList.data1, EmptyRcvList.data2)
  BY <1>1 DEF EmptyRcvList, NoLink, Stored, Nil
<1>5. Chain(RcvSize, 0, {}, EmptyRcvList.next, EmptyRcvList.prior,
            EmptyRcvList.head, EmptyRcvList.tail)
  BY <1>1, <1>2 DEF EmptyRcvList, Chain, HeadIs
<1>6. Ranges(a, {}, [i \in Int |-> i]) /\ Apart({}, [i \in Int |-> i])
  BY DEF Ranges, Apart
<1>7. EmptyRcvList.length = 0
  BY DEF EmptyRcvList
<1>8. Cardinality(Numbers({}, [i \in Int |-> i])) = 0
  BY <1>6, NoNumbers
<1> QED  BY <1>3, <1>4, <1>5, <1>6, <1>7, <1>8 DEF RcvHolds, RcvHeld

\* What it holds does not depend on where the window starts.
LEMMA RcvRebased ==
  ASSUME NEW l, NEW a, NEW z, NEW D, NEW e, RcvHolds(l, a, z, D, e),
         NEW b \in Int, Numbers(D, e) \in SUBSET WindowFrom(b)
  PROVE  RcvHolds(l, b, z, D, e)
<1>1. RcvHeld(l, a, z, D, e)
  BY DEF RcvHolds
<1>2. /\ D \in SUBSET Int /\ e \in [Int -> Int]
      /\ \A w \in D : w <= e[w] /\ e[w] \in Int /\ w \in Int
  BY <1>1, RcvParts
<1>3. \A w \in D : w \in Numbers(D, e) /\ e[w] \in Numbers(D, e)
  <2>1. \A w \in D : w \in w .. e[w] /\ e[w] \in w .. e[w]
    BY <1>2
  <2> QED  BY <2>1 DEF Numbers
<1>4. Ranges(b, D, e)
  BY <1>2, <1>3 DEF Ranges
<1> QED  BY <1>4 DEF RcvHolds, RcvHeld

-----------------------------------------------------------------------------
(* The receiver's list as a window moves.                                  *)

\* The list holds numbers out of the k from the first one, f, on.
RcvState(f, k, l, a, z, D, e) ==
    /\ RcvHolds(l, a, z, D, e) /\ Wrap(a) = f /\ k \in 0 .. Window
    /\ \A n \in Numbers(D, e) : a <= n /\ n < a + k

\* Different numbers of the window have different sequence numbers.
LEMMA WrappedSets ==
  ASSUME NEW a \in Int, NEW N \in SUBSET WindowFrom(a), NEW T \in SUBSET WindowFrom(a)
  PROVE  /\ {Wrap(n) : n \in N \ T} = {Wrap(n) : n \in N} \ {Wrap(n) : n \in T}
         /\ N \cap T = {} => {Wrap(n) : n \in N} \cap {Wrap(n) : n \in T} = {}
<1>1. \A x \in N : \A y \in T : Wrap(x) = Wrap(y) => x = y
  BY WrappedOnce
<1>2. {Wrap(n) : n \in N \ T} = {Wrap(n) : n \in N} \ {Wrap(n) : n \in T}
  BY ONLY <1>1
<1>3. N \cap T = {} => {Wrap(n) : n \in N} \cap {Wrap(n) : n \in T} = {}
  BY ONLY <1>1
<1> QED  BY <1>2, <1>3

\* What a state of the list says.
LEMMA RcvStateSays ==
  ASSUME NEW f, NEW k, NEW l, NEW a, NEW z, NEW D, NEW e, RcvState(f, k, l, a, z, D, e)
  PROVE  /\ a \in Int /\ f = Wrap(a) /\ k \in 0 .. Window /\ k \in Int /\ Window \in Nat
         /\ l \in RcvLists /\ z \in Int /\ RcvHolds(l, a, z, D, e) /\ Ranges(a, D, e)
         /\ Numbers(D, e) \in SUBSET WindowFrom(a)
         /\ Covered(l) = {Wrap(n) : n \in Numbers(D, e)}
         /\ \A n \in Numbers(D, e) : n \in Int /\ a <= n /\ n < a + k
         /\ LengthExact(l) /\ RcvNodesInPlace(l)
<1>1. RcvHolds(l, a, z, D, e) /\ RcvHeld(l, a, z, D, e)
  BY DEF RcvState, RcvHolds
<1>2. /\ Ranges(a, D, e) /\ l \in RcvLists /\ z \in Int /\ a \in Int /\ Size(RcvSize)
      /\ Stored(RcvSize, z, D, e, l.data1, l.data2)
  BY <1>1, RcvParts
<1>3. Covered(l) = {Wrap(n) : n \in Numbers(D, e)}
  BY ONLY <1>2, CoveredIs
<1>4. PICK N : N = Numbers(D, e)
  OBVIOUS
<1>5. N \in SUBSET WindowFrom(a)
  BY <1>2, <1>4, NumbersInWindow
<1>6. \A n \in N : n \in Int
  BY <1>2, <1>5, WindowFinite
<1>7. LengthExact(l) /\ RcvNodesInPlace(l)
  BY <1>1, RcvWellFormed
<1>8. Window \in Nat /\ k \in 0 .. Window /\ k \in Int
  BY WindowAssumption DEF RcvState
<1> QED  BY <1>1, <1>2, <1>3, <1>4, <1>5, <1>6, <1>7, <1>8 DEF RcvState

\* The window of a new connection.
LEMMA RcvStateFirst ==
  ASSUME NEW f \in SeqNos
  PROVE  /\ RcvState(f, 0, EmptyRcvList, f, 0, {}, [i \in Int |-> i])
         /\ Covered(EmptyRcvList) = {}
<1>1. f \in Int /\ Wrap(f) = f
  BY WrapSelf
<1>2. RcvHolds(EmptyRcvList, f, 0, {}, [i \in Int |-> i])
  BY <1>1, EmptyRcvHolds
<1>3. Numbers({}, [i \in Int |-> i]) = {}
  BY DEF Numbers
<1>4. 0 \in 0 .. Window
  BY WindowAssumption
<1>5. RcvState(f, 0, EmptyRcvList, f, 0, {}, [i \in Int |-> i])
  BY <1>1, <1>2, <1>3, <1>4 DEF RcvState
<1>6. Covered(EmptyRcvList) = {Wrap(n) : n \in Numbers({}, [i \in Int |-> i])}
  BY <1>5, RcvStateSays
<1> QED  BY <1>3, <1>5, <1>6

\* More numbers in the window.
LEMMA RcvStateGrows ==
  ASSUME NEW f, NEW k, NEW l, NEW a, NEW z, NEW D, NEW e, RcvState(f, k, l, a, z, D, e),
         NEW m \in 0 .. Window, k <= m
  PROVE  RcvState(f, m, l, a, z, D, e)
<1>1. /\ a \in Int /\ k \in Int /\ Window \in Nat
      /\ \A n \in Numbers(D, e) : n \in Int /\ a <= n /\ n < a + k
  BY RcvStateSays
<1>2. \A n \in Numbers(D, e) : a <= n /\ n < a + m
  BY <1>1
<1> QED  BY <1>2 DEF RcvState

\* The list after a call, with the numbers N of a window of k.
LEMMA RcvStateIs ==
  ASSUME NEW f, NEW k \in 0 .. Window, NEW b, NEW a \in Int, f = Wrap(a), NEW z, NEW N,
         Without(b, a, z, N), \A n \in N : a <= n /\ n < a + k
  PROVE  /\ \E S, g : RcvState(f, k, b, a, z, S, g)
         /\ Covered(b) = {Wrap(n) : n \in N}
<1>1. PICK S, g : RcvHolds(b, a, z, S, g) /\ Numbers(S, g) = N
  BY DEF Without
<1>2. RcvState(f, k, b, a, z, S, g)
  BY <1>1 DEF RcvState
<1>3. Covered(b) = {Wrap(n) : n \in Numbers(S, g)}
  BY <1>2, RcvStateSays
<1> QED  BY <1>1, <1>2, <1>3

\* A packet that comes in n numbers further on: those before it are missing.
Gap(f, k, n) == Span(f, k, k + n - 1)

\* They are put in the list, after all it has.
LEMMA RcvStateInsert ==
  ASSUME NEW f, NEW k, NEW l, NEW a, NEW z, NEW D, NEW e, RcvState(f, k, l, a, z, D, e),
         NEW n \in Nat \ {0}, k + n < Window,
         NEW b, b = RcvInsert(l, Number(f, k), Number(f, k + n - 1))
  PROVE  /\ \E y, S, g : RcvState(f, k + n + 1, b, a, y, S, g)
         /\ Covered(b) = Covered(l) \cup Gap(f, k, n)
<1>1. /\ a \in Int /\ f = Wrap(a) /\ k \in 0 .. Window /\ k \in Int /\ Window \in Nat
      /\ RcvHolds(l, a, z, D, e)
      /\ Covered(l) = {Wrap(i) : i \in Numbers(D, e)}
      /\ \A i \in Numbers(D, e) : i \in Int /\ a <= i /\ i < a + k
  BY RcvStateSays
<1>2. PICK j \in Int : j = k + n - 1
  BY <1>1
<1>3. /\ k \in 0 .. Window /\ j \in 0 .. Window /\ j \in -1 .. Window /\ k + n + 1 \in 0 .. Window
      /\ k <= j /\ j < Window
  BY <1>1, <1>2
<1>4. PICK x \in Int, h \in Int : x = a + k /\ h = a + j
  BY <1>1, <1>2
<1>5. x \in WindowFrom(a) /\ h \in WindowFrom(a) /\ x <= h
  BY <1>1, <1>3, <1>4 DEF WindowFrom
<1>6. /\ Number(f, k) = Wrap(x) /\ Number(f, j) = Wrap(h)
      /\ Span(f, k, j) = {Wrap(i) : i \in x .. h}
  <2>1. Number(f, k) = Wrap(a + k) /\ Span(f, k, j) = {Wrap(i) : i \in (a + k) .. (a + j)}
    BY ONLY <1>1, <1>3, SpanIs
  <2>2. Number(f, j) = Wrap(a + j)
    BY ONLY <1>1, <1>3, SpanIs
  <2> QED  BY <1>4, <2>1, <2>2
<1>7. PICK N : N = Numbers(D, e)
  OBVIOUS
<1>8. PICK y \in Int : \E S, g : /\ RcvHolds(b, a, y, S, g)
                                 /\ Numbers(S, g) = N \cup (x .. h)
  <2>1. \A i \in Numbers(D, e) : i < x
    BY <1>1, <1>4
  <2>2. b = RcvInsert(l, Wrap(x), Wrap(h))
    BY <1>2, <1>6
  <2> QED  BY <1>1, <1>5, <1>7, <2>1, <2>2, RcvInsertHolds
<1>9. Without(b, a, y, N \cup (x .. h))
  BY <1>8 DEF Without
<1>10. \A i \in N \cup (x .. h) : a <= i /\ i < a + (k + n + 1)
  BY <1>1, <1>2, <1>3, <1>4, <1>7
<1>11. /\ \E S, g : RcvState(f, k + n + 1, b, a, y, S, g)
       /\ Covered(b) = {Wrap(i) : i \in N \cup (x .. h)}
  <2>1. PICK m, M : m = k + n + 1 /\ M = N \cup (x .. h)
    OBVIOUS
  <2>2. /\ m \in 0 .. Window /\ a \in Int /\ f = Wrap(a) /\ Without(b, a, y, M)
        /\ \A i \in M : a <= i /\ i < a + m
    BY <1>1, <1>3, <1>9, <1>10, <2>1
  <2>3. (\E S, g : RcvState(f, m, b, a, y, S, g)) /\ Covered(b) = {Wrap(i) : i \in M}
    BY ONLY <2>2, RcvStateIs
  <2> QED  BY <2>1, <2>3
<1>12. Covered(b) = Covered(l) \cup Span(f, k, j)
  BY <1>1, <1>6, <1>7, <1>11
<1> QED  BY <1>2, <1>11, <1>12 DEF Gap

\* A lost one comes in.
LEMMA RcvStateRemove ==
  ASSUME NEW f, NEW k, NEW l, NEW a, NEW z, NEW D, NEW e, RcvState(f, k, l, a, z, D, e),
         NEW i \in Nat, i < k, NEW b, b = RcvRemove(l, Number(f, i))
  PROVE  /\ \E S, g : RcvState(f, k, b, a, z, S, g)
         /\ Covered(b) = Covered(l) \ Span(f, i, i)
<1>1. /\ a \in Int /\ f = Wrap(a) /\ k \in 0 .. Window /\ k \in Int /\ Window \in Nat
      /\ RcvHolds(l, a, z, D, e)
      /\ Numbers(D, e) \in SUBSET WindowFrom(a)
      /\ Covered(l) = {Wrap(n) : n \in Numbers(D, e)}
      /\ \A n \in Numbers(D, e) : n \in Int /\ a <= n /\ n < a + k
  BY RcvStateSays
<1>2. i \in 0 .. Window /\ i \in -1 .. Window
  BY <1>1
<1>3. PICK x \in Int : x = a + i
  BY <1>1
<1>4. x \in WindowFrom(a) /\ x .. x = {x}
  BY <1>1, <1>2, <1>3 DEF WindowFrom
<1>5. Number(f, i) = Wrap(x) /\ Span(f, i, i) = {Wrap(n) : n \in {x}}
  <2>1. Number(f, i) = Wrap(a + i) /\ Span(f, i, i) = {Wrap(n) : n \in (a + i) .. (a + i)}
    BY ONLY <1>1, <1>2, SpanIs
  <2> QED  BY <1>3, <1>4, <2>1
<1>6. PICK N : N = Numbers(D, e)
  OBVIOUS
<1>7. Without(b, a, z, N \ {x})
  <2>1. Without(l, a, z, N)
    BY <1>1, <1>6 DEF Without
  <2>2. b = RcvRemove(l, Wrap(x))
    BY <1>5
  <2> QED  BY <1>4, <2>1, <2>2, WithoutRemoved
<1>8. \A n \in N \ {x} : a <= n /\ n < a + k
  BY <1>1, <1>6
<1>9. /\ \E S, g : RcvState(f, k, b, a, z, S, g)
      /\ Covered(b) = {Wrap(n) : n \in N \ {x}}
  BY <1>1, <1>7, <1>8, RcvStateIs
<1>10. {Wrap(n) : n \in N \ {x}} = {Wrap(n) : n \in N} \ {Wrap(n) : n \in {x}}
  <2>1. PICK T : T = {x}
    OBVIOUS
  <2>2. T \in SUBSET WindowFrom(a) /\ N \in SUBSET WindowFrom(a) /\ a \in Int
    BY <1>1, <1>4, <1>6, <2>1
  <2>3. {Wrap(n) : n \in N \ T} = {Wrap(n) : n \in N} \ {Wrap(n) : n \in T}
    BY ONLY <2>2, WrappedSets
  <2> QED  BY <2>1, <2>3
<1>11. Covered(b) = Covered(l) \ Span(f, i, i)
  BY <1>1, <1>5, <1>6, <1>9, <1>10
<1> QED  BY <1>9, <1>11

\* The peer has dropped a stretch, which may end the window.
LEMMA RcvStateForget ==
  ASSUME NEW f, NEW k, NEW l, NEW a, NEW z, NEW D, NEW e, RcvState(f, k, l, a, z, D, e),
         NEW i \in Nat, NEW j \in Nat, i <= j, j < Window,
         NEW b, b = RemoveRange(l, Number(f, i), Number(f, j)),
         NEW m \in 0 .. Window, k <= m
  PROVE  /\ \E S, g : RcvState(f, m, b, a, z, S, g)
         /\ Number(f, i) <= Number(f, j) => Covered(b) = Covered(l) \ Span(f, i, j)
<1>1. /\ a \in Int /\ f = Wrap(a) /\ k \in 0 .. Window /\ k \in Int /\ Window \in Nat
      /\ RcvHolds(l, a, z, D, e)
      /\ Numbers(D, e) \in SUBSET WindowFrom(a)
      /\ Covered(l) = {Wrap(n) : n \in Numbers(D, e)}
      /\ \A n \in Numbers(D, e) : n \in Int /\ a <= n /\ n < a + k
  BY RcvStateSays
<1>2. i \in 0 .. Window /\ j \in 0 .. Window /\ j \in -1 .. Window /\ m \in Int
  BY <1>1
<1>3. PICK x \in Int, y \in Int : x = a + i /\ y = a + j
  BY <1>1
<1>4. x \in WindowFrom(a) /\ y \in WindowFrom(a) /\ x <= y
  BY <1>1, <1>2, <1>3 DEF WindowFrom
<1>5. /\ Number(f, i) = Wrap(x) /\ Number(f, j) = Wrap(y)
      /\ Span(f, i, j) = {Wrap(n) : n \in x .. y}
  <2>1. Number(f, i) = Wrap(a + i) /\ Span(f, i, j) = {Wrap(n) : n \in (a + i) .. (a + j)}
    BY ONLY <1>1, <1>2, SpanIs
  <2>2. Number(f, j) = Wrap(a + j)
    BY ONLY <1>1, <1>2, SpanIs
  <2> QED  BY <1>3, <2>1, <2>2
<1>6. PICK N : N = Numbers(D, e)
  OBVIOUS
<1>7. PICK lo, hi : lo = Wrap(x) /\ hi = Wrap(y)
  OBVIOUS
<1>8. /\ lo <= hi => Without(b, a, z, N \ (x .. y))
      /\ \E M \in SUBSET N : Without(b, a, z, M)
  <2>1. Without(l, a, z, N)
    BY <1>1, <1>6 DEF Without
  <2>2. b = RemoveRange(l, lo, hi)
    BY <1>5, <1>7
  <2> QED  BY <1>1, <1>4, <1>7, <2>1, <2>2, RangeWithout
<1>9. \A n \in N : a <= n /\ n < a + m
  BY <1>1, <1>2, <1>6
<1>10. \E S, g : RcvState(f, m, b, a, z, S, g)
  <2>1. PICK M \in SUBSET N : Without(b, a, z, M)
    BY <1>8
  <2>2. \A n \in M : a <= n /\ n < a + m
    BY <1>9
  <2> QED  BY <1>1, <2>1, <2>2, RcvStateIs
<1>11. ASSUME lo <= hi
       PROVE  Covered(b) = Covered(l) \ Span(f, i, j)
  <2>1. PICK T : T = x .. y
    OBVIOUS
  <2>2. T \in SUBSET WindowFrom(a) /\ N \in SUBSET WindowFrom(a) /\ a \in Int
    BY <1>1, <1>2, <1>3, <1>4, <1>6, <2>1 DEF WindowFrom
  <2>3. {Wrap(n) : n \in N \ T} = {Wrap(n) : n \in N} \ {Wrap(n) : n \in T}
    BY ONLY <2>2, WrappedSets
  <2>4. PICK M : M = N \ T
    OBVIOUS
  <2>5. Without(b, a, z, M) /\ \A n \in M : a <= n /\ n < a + m
    BY <1>8, <1>9, <1>11, <2>1, <2>4
  <2>6. Covered(b) = {Wrap(n) : n \in M}
    BY <1>1, <2>5, RcvStateIs
  <2> QED  BY <1>1, <1>5, <1>6, <2>1, <2>3, <2>4, <2>6
<1> QED  BY <1>5, <1>7, <1>10, <1>11

\* The ACK moves the window up to the first lost number, or to its end.
LEMMA RcvStateAck ==
  ASSUME NEW f, NEW k, NEW l, NEW a, NEW z, NEW D, NEW e, RcvState(f, k, l, a, z, D, e),
         NEW ack, ack = IF l.length = 0 THEN Number(f, k) ELSE l.data1[l.head],
         NEW n, n = Seqoff(f, ack), n > 0
  PROVE  /\ n \in 0 .. k /\ ack = Number(f, n)
         /\ \E c : RcvState(ack, k - n, l, c, z, D, e)
         /\ Covered(l) = Covered(l) \ Span(f, 0, n - 1)
<1>1. /\ a \in Int /\ f = Wrap(a) /\ k \in 0 .. Window /\ k \in Int /\ Window \in Nat
      /\ RcvHolds(l, a, z, D, e) /\ Ranges(a, D, e)
      /\ Numbers(D, e) \in SUBSET WindowFrom(a)
      /\ Covered(l) = {Wrap(i) : i \in Numbers(D, e)}
      /\ \A i \in Numbers(D, e) : i \in Int /\ a <= i /\ i < a + k
  BY RcvStateSays
<1>2. PICK N : N = Numbers(D, e)
  OBVIOUS
<1>3. \E c \in Int : /\ ack = Wrap(c) /\ a <= c /\ c <= a + k
                     /\ \A i \in N : c <= i
  <2>1. CASE l.length = 0
    <3>1. D = {}
      BY <1>1, <2>1, NoNumbers DEF RcvHolds
    <3>2. N = {}
      BY <1>2, <3>1 DEF Numbers
    <3>3. Number(f, k) = Wrap(a + k)
      <4>1. a \in Int /\ f = Wrap(a) /\ k \in 0 .. Window /\ k \in -1 .. Window
        BY <1>1
      <4> QED  BY ONLY <4>1, SpanIs
    <3>4. PICK c \in Int : c = a + k
      BY <1>1
    <3> QED  BY <1>1, <2>1, <3>2, <3>3, <3>4
  <2>2. CASE l.length # 0
    <3>1. D # {} /\ D \in SUBSET WindowFrom(a) /\ D \in SUBSET N
      BY <1>1, <1>2, <2>2, NoNumbers, NumbersInWindow DEF Ranges, RcvHolds
    <3>2. PICK g \in D : FirstIn(D, g)
      BY <1>1, <3>1, Neighbours
    <3>3. g \in N /\ g \in Int /\ a <= g /\ g < a + k /\ \A i \in N : g <= i
      <4>1. \A w \in D : g <= w /\ w \in Int
        BY <1>1, <1>2, <3>1, <3>2 DEF FirstIn
      <4>2. \A i \in N : \E w \in D : i \in w .. e[w]
        BY <1>2 DEF Numbers
      <4>3. \A w \in D : e[w] \in Int
        BY <1>1, <4>1 DEF Ranges
      <4> QED  BY <1>1, <1>2, <3>1, <4>1, <4>2, <4>3
    <3>4. l.data1[l.head] = Wrap(g)
      <4>1. RcvHeld(l, a, z, D, e) /\ FirstIn(D, g) /\ g \in WindowFrom(a)
        BY <1>1, <3>1, <3>2 DEF RcvHolds
      <4> QED  BY ONLY <4>1, RcvCellIs
    <3> QED  BY <1>1, <2>2, <3>3, <3>4
  <2> QED  BY <2>1, <2>2
<1>4. PICK c \in Int : ack = Wrap(c) /\ a <= c /\ c <= a + k /\ \A i \in N : c <= i
  BY <1>3
<1>5. PICK d \in Nat : d = c - a /\ d <= k /\ c = a + d
  BY <1>1, <1>4
<1>6. n = d
  <2>1. a - c < SeqNoTH /\ c - a < SeqNoTH /\ a \in Int /\ c \in Int
    BY <1>1, <1>5, WindowAssumption, SeqNoAssumption
  <2>2. Seqoff(Wrap(a), Wrap(c)) = c - a
    BY ONLY <2>1, WrapArith
  <2> QED  BY <1>1, <1>4, <1>5, <2>2
<1>7. n \in 0 .. k /\ n \in 0 .. Window /\ n - 1 \in -1 .. Window /\ n > 0 /\ n \in Int
      /\ 0 \in 0 .. Window
  BY <1>1, <1>5, <1>6
<1>8. ack = Number(f, n)
  <2>1. Number(f, n) = Wrap(a + n)
    BY ONLY <1>1, <1>7, SpanIs
  <2> QED  BY <1>4, <1>5, <1>6, <2>1
<1>9. RcvState(ack, k - n, l, c, z, D, e)
  <2>1. k - n \in 0 .. Window /\ k - n \in Int /\ c + (k - n) = a + k
    BY <1>1, <1>5, <1>6, <1>7
  <2>2. \A i \in N : i \in Int /\ c <= i /\ i < c + (k - n)
    BY <1>1, <1>2, <1>4, <2>1
  <2>3. \A i \in N : i \in WindowFrom(c)
    BY <1>1, <2>1, <2>2 DEF WindowFrom
  <2>4. RcvHolds(l, c, z, D, e)
    <3>1. Numbers(D, e) \in SUBSET WindowFrom(c)
      BY <1>2, <2>3
    <3> QED  BY <1>1, <3>1, RcvRebased
  <2> QED  BY <1>2, <1>4, <2>1, <2>2, <2>4 DEF RcvState
<1>10. Covered(l) \cap Span(f, 0, n - 1) = {}
  <2>1. PICK h \in Int : h = c - 1 /\ h = a + (n - 1)
    BY <1>1, <1>5, <1>6
  <2>2. Span(f, 0, n - 1) = {Wrap(i) : i \in a .. h}
    <3>1. Span(f, 0, n - 1) = {Wrap(i) : i \in (a + 0) .. (a + (n - 1))}
      BY ONLY <1>1, <1>7, SpanIs
    <3>2. a + 0 = a
      BY <1>1
    <3> QED  BY <2>1, <3>1, <3>2
  <2>3. PICK T : T = a .. h
    OBVIOUS
  <2>4. T \in SUBSET WindowFrom(a) /\ N \in SUBSET WindowFrom(a) /\ a \in Int
    BY <1>1, <1>2, <1>5, <1>6, <1>7, <2>1, <2>3 DEF WindowFrom
  <2>5. N \cap T = {}
    BY <1>1, <1>2, <1>4, <2>1, <2>3
  <2>6. {Wrap(i) : i \in N} \cap {Wrap(i) : i \in T} = {}
    BY ONLY <2>4, <2>5, WrappedSets
  <2> QED  BY <1>1, <1>2, <2>2, <2>3, <2>6
<1> QED  BY <1>7, <1>8, <1>9, <1>10

\* There are numbers that the list is the list of.
RcvLossInv == \E a, z, D, e : RcvState(rcvFirst, rcvFlight, rcvList, a, z, D, e)

\* The receiver's list starts with none.
LEMMA RcvLossInvInit ==
  RcvLossInit => RcvLossInv
<1> SUFFICES ASSUME RcvLossInit PROVE RcvLossInv
  OBVIOUS
<1>1. RcvState(rcvFirst, 0, EmptyRcvList, rcvFirst, 0, {}, [i \in Int |-> i])
  BY RcvStateFirst DEF RcvLossInit
<1> QED  BY <1>1 DEF RcvLossInit, RcvLossInv

\* The window when an ACK is given.
LEMMA AckGiven ==
  ASSUME NEW a, NEW z, NEW D, NEW e, RcvState(rcvFirst, rcvFlight, rcvList, a, z, D, e), GiveAck
  PROVE  \E n \in 0 .. rcvFlight :
            /\ rcvFirst' = Number(rcvFirst, n) /\ rcvFlight' = rcvFlight - n
            /\ rcvCall' = <<"slide", n>> /\ UNCHANGED rcvList
            /\ \E c : RcvState(rcvFirst', rcvFlight', rcvList, c, z, D, e)
            /\ Covered(rcvList) = Covered(rcvList) \ Span(rcvFirst, 0, n - 1)
<1>1. PICK ack : ack = IF rcvList.length = 0 THEN Number(rcvFirst, rcvFlight)
                       ELSE rcvList.data1[rcvList.head]
  OBVIOUS
<1>2. PICK n : n = Seqoff(rcvFirst, ack)
  OBVIOUS
<1>3. /\ n > 0 /\ rcvFirst' = ack /\ rcvFlight' = rcvFlight - n
      /\ rcvCall' = <<"slide", n>> /\ UNCHANGED rcvList
  BY <1>1, <1>2 DEF GiveAck, RcvNumber
<1>4. /\ n \in 0 .. rcvFlight /\ ack = Number(rcvFirst, n)
      /\ \E c : RcvState(ack, rcvFlight - n, rcvList, c, z, D, e)
      /\ Covered(rcvList) = Covered(rcvList) \ Span(rcvFirst, 0, n - 1)
  BY <1>1, <1>2, <1>3, RcvStateAck
<1> QED  BY <1>3, <1>4

\* The window when a packet comes in.
LEMMA Arrived ==
  ASSUME NEW a, NEW z, NEW D, NEW e, RcvState(rcvFirst, rcvFlight, rcvList, a, z, D, e),
         NEW n \in 0 .. Window, Arrive(n)
  PROVE  /\ \E y, S, g : RcvState(rcvFirst, rcvFlight', rcvList', a, y, S, g)
         /\ rcvFlight' = rcvFlight + n + 1 /\ UNCHANGED rcvFirst
         /\ n = 0 => UNCHANGED rcvList /\ rcvCall' = <<"grow", 1>>
         /\ n # 0 => /\ rcvCall' = <<"insert", RcvNumber(rcvFlight), RcvNumber(rcvFlight + n - 1)>>
                     /\ Covered(rcvList') = Covered(rcvList)
                                              \cup Span(rcvFirst, rcvFlight, rcvFlight + n - 1)
<1>1. rcvFlight \in 0 .. Window /\ rcvFlight \in Int /\ Window \in Nat
  BY RcvStateSays
<1>2. rcvFlight + n < Window /\ rcvFlight' = rcvFlight + n + 1 /\ UNCHANGED rcvFirst
  BY DEF Arrive
<1>3. CASE n = 0
  <2>1. UNCHANGED rcvList /\ rcvCall' = <<"grow", 1>>
    BY <1>3 DEF Arrive
  <2>2. PICK m \in 0 .. Window : m = rcvFlight' /\ rcvFlight <= m
    BY <1>1, <1>2, <1>3
  <2>3. RcvState(rcvFirst, m, rcvList, a, z, D, e)
    BY <2>2, RcvStateGrows
  <2> QED  BY <1>2, <1>3, <2>1, <2>2, <2>3
<1>4. CASE n # 0
  <2>1. n \in Nat \ {0}
    BY <1>1, <1>4
  <2>2. PICK b : b = RcvInsert(rcvList, Number(rcvFirst, rcvFlight),
                               Number(rcvFirst, rcvFlight + n - 1))
    OBVIOUS
  <2>3. /\ rcvList' = b
        /\ rcvCall' = <<"insert", RcvNumber(rcvFlight), RcvNumber(rcvFlight + n - 1)>>
    BY <1>4, <2>2 DEF Arrive, RcvNumber
  <2>4. /\ \E y, S, g : RcvState(rcvFirst, rcvFlight + n + 1, b, a, y, S, g)
        /\ Covered(b) = Covered(rcvList) \cup Span(rcvFirst, rcvFlight, rcvFlight + n - 1)
    <3>1. /\ RcvState(rcvFirst, rcvFlight, rcvList, a, z, D, e)
          /\ n \in Nat \ {0} /\ rcvFlight + n < Window
      BY <1>2, <2>1
    <3>2. \E y, S, g : RcvState(rcvFirst, rcvFlight + n + 1, b, a, y, S, g)
      BY ONLY <2>2, <3>1, RcvStateInsert
    <3>3. Covered(b) = Covered(rcvList) \cup Gap(rcvFirst, rcvFlight, n)
      BY ONLY <2>2, <3>1, RcvStateInsert
    <3> QED  BY <3>2, <3>3 DEF Gap
  <2> QED  BY <1>2, <1>4, <2>3, <2>4
<1> QED  BY <1>3, <1>4

\* The window when a lost packet comes in.
LEMMA Recovered ==
  ASSUME NEW a, NEW z, NEW D, NEW e, RcvState(rcvFirst, rcvFlight, rcvList, a, z, D, e),
         NEW i \in 0 .. Window, Recover(i)
  PROVE  /\ \E S, g : RcvState(rcvFirst, rcvFlight, rcvList', a, z, S, g)
         /\ UNCHANGED <<rcvFirst, rcvFlight>>
         /\ rcvCall' = <<"remove", RcvNumber(i), RcvNumber(i)>>
         /\ Covered(rcvList') = Covered(rcvList) \ Span(rcvFirst, i, i)
<1>1. i \in Nat
  BY WindowAssumption
<1>2. PICK b : b = RcvRemove(rcvList, Number(rcvFirst, i))
  OBVIOUS
<1>3. /\ i < rcvFlight /\ rcvList' = b /\ UNCHANGED <<rcvFirst, rcvFlight>>
      /\ rcvCall' = <<"remove", RcvNumber(i), RcvNumber(i)>>
  BY <1>2 DEF Recover, RcvNumber
<1>4. /\ \E S, g : RcvState(rcvFirst, rcvFlight, b, a, z, S, g)
      /\ Covered(b) = Covered(rcvList) \ Span(rcvFirst, i, i)
  BY <1>1, <1>2, <1>3, RcvStateRemove
<1> QED  BY <1>3, <1>4

\* The window when the peer drops a message.
LEMMA Dropped ==
  ASSUME NEW a, NEW z, NEW D, NEW e, RcvState(rcvFirst, rcvFlight, rcvList, a, z, D, e),
         NEW i \in 0 .. Window, NEW j \in 0 .. Window, DropRequest(i, j)
  PROVE  /\ \E S, g : RcvState(rcvFirst, rcvFlight', rcvList', a, z, S, g)
         /\ rcvFlight' \in {rcvFlight, j + 1} /\ UNCHANGED rcvFirst /\ i <= j
         /\ rcvCall' = <<"remove", RcvNumber(i), RcvNumber(j)>>
         /\ RcvNumber(i) <= RcvNumber(j) =>
               Covered(rcvList') = Covered(rcvList) \ Span(rcvFirst, i, j)
<1>1. rcvFlight \in 0 .. Window /\ rcvFlight \in Int /\ Window \in Nat /\ i \in Nat /\ j \in Nat
  BY RcvStateSays
<1>2. PICK b : b = RemoveRange(rcvList, Number(rcvFirst, i), Number(rcvFirst, j))
  OBVIOUS
<1>3. /\ i <= j /\ j < Window /\ rcvList' = b /\ UNCHANGED rcvFirst
      /\ rcvFlight' = IF i <= rcvFlight /\ j >= rcvFlight THEN j + 1 ELSE rcvFlight
      /\ rcvCall' = <<"remove", RcvNumber(i), RcvNumber(j)>>
  BY <1>2 DEF DropRequest, RcvNumber
<1>4. PICK m \in 0 .. Window : m = rcvFlight' /\ rcvFlight <= m /\ m \in {rcvFlight, j + 1}
  BY <1>1, <1>3
<1>5. /\ \E S, g : RcvState(rcvFirst, m, b, a, z, S, g)
      /\ Number(rcvFirst, i) <= Number(rcvFirst, j) =>
            Covered(b) = Covered(rcvList) \ Span(rcvFirst, i, j)
  <2>1. /\ RcvState(rcvFirst, rcvFlight, rcvList, a, z, D, e) /\ i \in Nat /\ j \in Nat
        /\ m \in 0 .. Window /\ rcvFlight <= m /\ i <= j /\ j < Window
    BY <1>1, <1>3, <1>4
  <2>2. \E S, g : RcvState(rcvFirst, m, b, a, z, S, g)
    BY ONLY <1>2, <2>1, RcvStateForget
  <2>3. Number(rcvFirst, i) <= Number(rcvFirst, j) =>
           Covered(b) = Covered(rcvList) \ Span(rcvFirst, i, j)
    BY ONLY <1>2, <2>1, RcvStateForget
  <2> QED  BY <2>2, <2>3
<1> QED  BY <1>3, <1>4, <1>5 DEF RcvNumber

\* Each call leaves the list that of numbers of the window.
LEMMA RcvLossInvStep ==
  RcvLossInv /\ [RcvLossNext]_rcvLossVars => RcvLossInv'
<1> SUFFICES ASSUME RcvLossInv, [RcvLossNext]_rcvLossVars PROVE RcvLossInv'
  OBVIOUS
<1>1. PICK a, z, D, e : RcvState(rcvFirst, rcvFlight, rcvList, a, z, D, e)
  BY DEF RcvLossInv
<1>2. CASE GiveAck
  BY <1>1, <1>2, AckGiven DEF RcvLossInv
<1>3. ASSUME NEW n \in 0 .. Window, Arrive(n)
      PROVE  RcvLossInv'
  BY <1>1, <1>3, Arrived DEF RcvLossInv
<1>4. ASSUME NEW i \in 0 .. Window, Recover(i)
      PROVE  RcvLossInv'
  BY <1>1, <1>4, Recovered DEF RcvLossInv
<1>5. ASSUME NEW i \in 0 .. Window, NEW j \in 0 .. Window, DropRequest(i, j)
      PROVE  RcvLossInv'
  BY <1>1, <1>5, Dropped DEF RcvLossInv
<1>6. CASE UNCHANGED rcvLossVars
  BY <1>1, <1>6 DEF rcvLossVars, RcvLossInv
<1> QED  BY <1>2, <1>3, <1>4, <1>5, <1>6 DEF RcvLossNext

\* The invariant: whatever the calls of CRcvLossList, drop requests around the
\* wrap too, m_iLength counts the numbers in the list, and each range is in the
\* cell where remove looks for it, linked in order both ways.
THEOREM RcvLossListWellFormed ==
  RcvLossSpec => []RcvListWellFormed
<1>1. RcvLossInv => RcvListWellFormed
  BY RcvStateSays DEF RcvLossInv, RcvListWellFormed
<1> QED  BY <1>1, RcvLossInvInit, RcvLossInvStep, PTL DEF RcvLossSpec

\* Each call does to the numbers what the set's operation of its name does,
\* if no drop request spans the number 0.
LEMMA RcvLossStepIsSetStep ==
  ASSUME ~WrappedDrops
  PROVE  RcvLossInv /\ [RcvLossNext]_rcvLossVars => [RcvSet!LossNext]_(RcvSet!lossVars)
<1> SUFFICES ASSUME RcvLossInv, [RcvLossNext]_rcvLossVars
             PROVE  [RcvSet!LossNext]_(RcvSet!lossVars)
  OBVIOUS
<1>1. PICK a, z, D, e : RcvState(rcvFirst, rcvFlight, rcvList, a, z, D, e)
  BY DEF RcvLossInv
<1>2. rcvFlight \in 0 .. Window /\ rcvFlight \in Int /\ Window \in Nat
  BY <1>1, RcvStateSays
<1>3. /\ \A f, n : RcvSet!Number(f, n) = Number(f, n)
      /\ \A f, i, j : RcvSet!Span(f, i, j) = Span(f, i, j)
      /\ \A n : RcvNumber(n) = Number(rcvFirst, n)
  BY DEF RcvSet!Number, Number, RcvSet!Span, Span, RcvSet!IncseqBy, IncseqBy, RcvNumber
<1>4. Covered(rcvList)' = Covered(rcvList')
  BY DEF Covered, Occupied, RangeOf, End
<1>5. ASSUME GiveAck
      PROVE  RcvSet!LossNext
  <2>1. PICK n \in 0 .. rcvFlight :
               /\ rcvFirst' = Number(rcvFirst, n) /\ rcvFlight' = rcvFlight - n
               /\ rcvCall' = <<"slide", n>> /\ UNCHANGED rcvList
               /\ Covered(rcvList) = Covered(rcvList) \ Span(rcvFirst, 0, n - 1)
    BY <1>1, <1>5, AckGiven
  <2>2. Covered(rcvList)' = Covered(rcvList) \ Span(rcvFirst, 0, n - 1)
    BY <1>4, <2>1
  <2>3. RcvSet!Slide(n)
    BY <1>3, <2>1, <2>2 DEF RcvSet!Slide
  <2>4. rcvCall'[1] = "slide"
    BY <2>1
  <2> QED  BY <2>3, <2>4 DEF RcvSet!LossNext
<1>6. ASSUME NEW n \in 0 .. Window, Arrive(n)
      PROVE  RcvSet!LossNext
  <2>1. /\ rcvFlight' = rcvFlight + n + 1 /\ UNCHANGED rcvFirst
        /\ n = 0 => UNCHANGED rcvList /\ rcvCall' = <<"grow", 1>>
        /\ n # 0 => /\ rcvCall' = <<"insert", RcvNumber(rcvFlight), RcvNumber(rcvFlight + n - 1)>>
                    /\ Covered(rcvList') = Covered(rcvList)
                                             \cup Span(rcvFirst, rcvFlight, rcvFlight + n - 1)
    BY <1>1, <1>6, Arrived
  <2>2. CASE n = 0
    <3>1. UNCHANGED rcvList /\ rcvCall' = <<"grow", 1>> /\ rcvFlight' = rcvFlight + 1
      BY <1>2, <2>1, <2>2
    <3>2. Covered(rcvList)' = Covered(rcvList)
      BY <1>4, <3>1
    <3>3. RcvSet!Grow(1)
      BY <2>1, <3>1, <3>2 DEF RcvSet!Grow
    <3>4. rcvCall'[1] = "grow" /\ 1 \in 1 .. Window
      BY <3>1, WindowAssumption
    <3> QED  BY <3>3, <3>4 DEF RcvSet!LossNext
  <2>3. CASE n # 0
    <3>1. PICK j \in Int : j = rcvFlight + n - 1
      BY <1>2
    <3>2. /\ rcvCall' = <<"insert", Number(rcvFirst, rcvFlight), Number(rcvFirst, j)>>
          /\ Covered(rcvList)' = Covered(rcvList) \cup Span(rcvFirst, rcvFlight, j)
      BY <1>3, <1>4, <2>1, <2>3, <3>1
    <3>3. rcvFlight + n < Window
      BY <1>6 DEF Arrive
    <3>4. /\ rcvFlight' = rcvFlight + (j - rcvFlight) + 2
          /\ j \in 0 .. Window /\ rcvFlight <= j
      BY <1>2, <2>1, <2>3, <3>1, <3>3
    <3>5. RcvSet!Report(rcvFlight, j)
      BY <1>3, <2>1, <3>2, <3>4 DEF RcvSet!Report
    <3>6. rcvCall'[1] = "insert"
      BY <3>2
    <3> QED  BY <1>2, <3>4, <3>5, <3>6 DEF RcvSet!LossNext
  <2> QED  BY <2>2, <2>3
<1>7. ASSUME NEW i \in 0 .. Window, Recover(i)
      PROVE  RcvSet!LossNext
  <2>1. /\ UNCHANGED <<rcvFirst, rcvFlight>>
        /\ rcvCall' = <<"remove", RcvNumber(i), RcvNumber(i)>>
        /\ Covered(rcvList') = Covered(rcvList) \ Span(rcvFirst, i, i)
    BY <1>1, <1>7, Recovered
  <2>2. RcvSet!Forget(i, i)
    BY <1>3, <1>4, <2>1 DEF RcvSet!Forget
  <2>3. rcvCall'[1] = "remove" /\ i <= i
    BY <1>2, <2>1
  <2> QED  BY <2>2, <2>3 DEF RcvSet!LossNext
<1>8. ASSUME NEW i \in 0 .. Window, NEW j \in 0 .. Window, DropRequest(i, j)
      PROVE  RcvSet!LossNext
  <2>1. /\ rcvFlight' \in {rcvFlight, j + 1} /\ UNCHANGED rcvFirst /\ i <= j
        /\ rcvCall' = <<"remove", RcvNumber(i), RcvNumber(j)>>
        /\ RcvNumber(i) <= RcvNumber(j) =>
              Covered(rcvList') = Covered(rcvList) \ Span(rcvFirst, i, j)
    BY <1>1, <1>8, Dropped
  <2>2. RcvNumber(i) <= RcvNumber(j)
    BY <1>8 DEF DropRequest
  <2>3. RcvSet!Forget(i, j)
    BY <1>3, <1>4, <2>1, <2>2 DEF RcvSet!Forget
  <2>4. rcvCall'[1] = "remove"
    BY <2>1
  <2> QED  BY <2>1, <2>3, <2>4 DEF RcvSet!LossNext
<1>9. CASE UNCHANGED rcvLossVars
  <2>1. UNCHANGED <<rcvFirst, rcvFlight, rcvList, rcvCall>>
    BY <1>9 DEF rcvLossVars
  <2>2. Covered(rcvList)' = Covered(rcvList)
    BY <1>4, <2>1
  <2> QED  BY <2>1, <2>2 DEF RcvSet!lossVars
<1> QED  BY <1>5, <1>6, <1>7, <1>8, <1>9 DEF RcvLossNext

\* The refinement: as long as no drop request spans the number 0, the arrays
\* implement the set of the numbers still missing, and an ACK never passes one.
THEOREM RcvLossListIsSet ==
  ASSUME ~WrappedDrops
  PROVE  RcvLossSpec => RcvListIsSet
<1>1. RcvLossInit => RcvSet!LossInit
  <2> SUFFICES ASSUME RcvLossInit PROVE RcvSet!LossInit
    OBVIOUS
  <2>1. Covered(EmptyRcvList) = {}
    BY RcvStateFirst DEF RcvLossInit
  <2> QED  BY <2>1 DEF RcvLossInit, RcvSet!LossInit, RcvSet!SeqNos, SeqNos
<1>2. RcvLossInv /\ [RcvLossNext]_rcvLossVars => [RcvSet!LossNext]_(RcvSet!lossVars)
  BY RcvLossStepIsSetStep
<1> QED
  BY <1>1, <1>2, RcvLossInvInit, RcvLossInvStep, PTL
  DEF RcvLossSpec, RcvListIsSet, RcvSet!LossSpec
=============================================================================
