----------------------------- MODULE Loops_proofs -----------------------------
(***************************************************************************)
(* What the proofs about loops and lists rest on: induction over the       *)
(* numbers, stated for sets; functions defined by recursion, stated for    *)
(* the function that makes a step; sequences that lose an element.         *)
(***************************************************************************)
EXTENDS Loops, Integers, SequencesExt, SequenceTheorems, FiniteSetTheorems, TLAPS

\* A finite set of numbers has a least one: each has a number of its own of
\* smaller ones, and there are as many such numbers as elements.
LEMMA LeastOf ==
  ASSUME NEW S \in SUBSET Int, IsFiniteSet(S), S # {}
  PROVE  \E m \in S : \A n \in S : m <= n
<1> DEFINE below(x) == {y \in S : y < x}
           places == 0 .. (Cardinality(S) - 1)
           f == [x \in S |-> Cardinality(below(x))]
<1>1. Cardinality(S) \in Nat
  BY FS_CardinalityType
<1>2. ASSUME NEW x \in S
      PROVE  IsFiniteSet(below(x)) /\ Cardinality(below(x)) \in places
  <2>1. below(x) \in SUBSET S /\ below(x) # S
    OBVIOUS
  <2> HIDE DEF below
  <2>2. IsFiniteSet(below(x)) /\ Cardinality(below(x)) <= Cardinality(S)
        /\ Cardinality(below(x)) # Cardinality(S)
    BY <2>1, FS_Subset
  <2>3. Cardinality(below(x)) \in Nat
    BY <2>2, FS_CardinalityType
  <2> QED  BY <1>1, <2>2, <2>3
<1>3. ASSUME NEW x \in S, NEW y \in S, x < y
      PROVE  Cardinality(below(x)) # Cardinality(below(y))
  <2>1. below(x) \in SUBSET below(y) /\ below(x) # below(y)
    <3>1. x \in below(y) /\ x \notin below(x)
      BY <1>3
    <3>2. \A z \in below(x) : z \in below(y)
      BY <1>3
    <3> HIDE DEF below
    <3> QED  BY <3>1, <3>2
  <2> HIDE DEF below
  <2> QED  BY <1>2, <2>1, FS_Subset
<1>4. \A x, y \in S : f[x] = f[y] => x = y
  <2> SUFFICES ASSUME NEW x \in S, NEW y \in S, x # y
               PROVE  f[x] # f[y]
    OBVIOUS
  <2>1. x < y \/ y < x
    OBVIOUS
  <2> HIDE DEF below
  <2> QED  BY <1>3, <2>1
<1> HIDE DEF below
<1>5. f \in Injection(S, places)
  BY <1>2, <1>4 DEF Injection, IsInjective
<1>6. IsFiniteSet(places) /\ Cardinality(places) = Cardinality(S)
  BY <1>1, FS_Interval
<1>7. f \in Surjection(S, places)
  <2> HIDE DEF f, places
  <2> QED  BY <1>5, <1>6, FS_Injection
<1>8. Cardinality(S) # 0
  BY FS_EmptySet
<1>9. PICK m \in S : Cardinality(below(m)) = 0
  <2>1. 0 \in places
    BY <1>1, <1>8
  <2> HIDE DEF places
  <2> QED  BY <1>7, <2>1 DEF Surjection
<1>10. below(m) = {}
  BY <1>2, <1>9, FS_EmptySet
<1> QED  BY <1>10 DEF below

\* A finite set has an element that a given measure makes the greatest.
LEMMA GreatestBy ==
  ASSUME NEW S, IsFiniteSet(S), S # {}, NEW f, \A x \in S : f[x] \in Int
  PROVE  \E m \in S : \A n \in S : f[n] <= f[m]
<1> DEFINE T == {-f[x] : x \in S}
           g == [x \in S |-> -f[x]]
<1>1. g \in Surjection(S, T)
  BY DEF Surjection
<1>2. T \in SUBSET Int /\ T # {}
  OBVIOUS
<1>3. PICK k \in T : \A j \in T : k <= j
  <2> HIDE DEF g, T
  <2>1. IsFiniteSet(T)
    BY <1>1, FS_Surjection
  <2> QED  BY <1>2, <2>1, LeastOf
<1>4. PICK m \in S : k = -f[m]
  OBVIOUS
<1>5. \A n \in S : f[n] <= f[m]
  <2> TAKE n \in S
  <2>1. k <= -f[n]
    BY <1>3
  <2> QED  BY <1>4, <2>1
<1> QED  BY <1>5

\* A set of numbers that holds 0 and the successor of each of its elements is
\* the set of all of them.
LEMMA Induction ==
  ASSUME NEW S, 0 \in S, \A n \in Nat : n \in S => n + 1 \in S
  PROVE  \A n \in Nat : n \in S
<1> SUFFICES ASSUME NEW n \in Nat, n \notin S PROVE FALSE
  OBVIOUS
<1> DEFINE T == {m \in 0 .. n : m \notin S}
<1>1. T \in SUBSET Int /\ IsFiniteSet(T) /\ T # {}
  <2>1. IsFiniteSet(0 .. n)
    BY FS_Interval
  <2>2. T \in SUBSET (0 .. n) /\ T \in SUBSET Int /\ n \in T
    OBVIOUS
  <2> HIDE DEF T
  <2> QED  BY <2>1, <2>2, FS_Subset
<1>2. PICK m \in T : \A k \in T : m <= k
  <2> HIDE DEF T
  <2> QED  BY <1>1, LeastOf
<1>3. m \in Nat /\ m <= n /\ m # 0 /\ m \notin S
  OBVIOUS
<1>4. m - 1 \in Nat /\ m - 1 \in S
  <2>1. m - 1 \in 0 .. n
    BY <1>3
  <2>2. ~(m <= m - 1)
    BY <1>3
  <2> QED  BY <1>2, <2>1, <2>2
<1> QED
  <2>1. (m - 1) + 1 \in S
    BY <1>4
  <2> QED  BY <1>3, <2>1

\* A step repeated from a start: there is a function of the number of steps.
LEMMA Iteration ==
  ASSUME NEW X, NEW a \in X, NEW G \in [X -> X]
  PROVE  \E f \in [Nat -> X] : f[0] = a /\ \A n \in Nat : f[n + 1] = G[f[n]]
<1> DEFINE Run(n) == {h \in [0 .. n -> X] :
                        h[0] = a /\ \A i \in 0 .. (n - 1) : h[i + 1] = G[h[i]]}
<1>1. \A n \in Nat : Run(n) # {}
  <2> DEFINE S == {n \in Nat : Run(n) # {}}
  <2>1. 0 \in S
    <3>1. [i \in 0 .. 0 |-> a] \in Run(0)
      OBVIOUS
    <3> QED  BY <3>1
  <2>2. ASSUME NEW n \in Nat, n \in S
        PROVE  n + 1 \in S
    <3>1. PICK h \in Run(n) : TRUE
      BY <2>2
    <3> DEFINE g == [i \in 0 .. (n + 1) |-> IF i <= n THEN h[i] ELSE G[h[n]]]
    <3>2. g \in [0 .. (n + 1) -> X]
      BY <3>1
    <3>3. g[0] = a
      BY <3>1
    <3>4. ASSUME NEW i \in 0 .. ((n + 1) - 1)
          PROVE  g[i + 1] = G[g[i]]
      <4>1. i \in 0 .. n /\ i + 1 \in 0 .. (n + 1)
        OBVIOUS
      <4>2. g[i] = h[i]
        BY <4>1
      <4>3. CASE i = n
        BY <4>1, <4>2, <4>3
      <4>4. CASE i # n
        <5>1. i \in 0 .. (n - 1) /\ i + 1 <= n
          BY <4>1, <4>4
        <5> QED  BY <3>1, <4>1, <4>2, <5>1
      <4> QED  BY <4>3, <4>4
    <3>5. g \in Run(n + 1)
      <4> HIDE DEF g
      <4> QED  BY <3>2, <3>3, <3>4
    <3> QED  BY SMTT(30), <3>5
  <2> HIDE DEF S
  <2>3. \A n \in Nat : n \in S
    BY <2>1, <2>2, Induction
  <2> QED  BY <2>3 DEF S
<1>2. \A i \in Nat : \A n, m \in Nat : \A h \in Run(n), g \in Run(m) :
          i <= n /\ i <= m => h[i] = g[i]
  <2> DEFINE S == {i \in Nat : \A n, m \in Nat : \A h \in Run(n), g \in Run(m) :
                                  i <= n /\ i <= m => h[i] = g[i]}
  <2>1. 0 \in S
    OBVIOUS
  <2>2. ASSUME NEW i \in Nat, i \in S
        PROVE  i + 1 \in S
    <3> SUFFICES ASSUME NEW n \in Nat, NEW m \in Nat, NEW h \in Run(n), NEW g \in Run(m),
                        i + 1 <= n, i + 1 <= m
                 PROVE  h[i + 1] = g[i + 1]
      <4> HIDE DEF Run
      <4> QED  OBVIOUS
    <3>1. h[i] = g[i]
      <4>1. i <= n /\ i <= m
        OBVIOUS
      <4> HIDE DEF Run
      <4> QED  BY <2>2, <4>1
    <3>2. h[i + 1] = G[h[i]]
      <4>1. i \in 0 .. (n - 1)
        OBVIOUS
      <4> QED  BY <4>1
    <3>3. g[i + 1] = G[g[i]]
      <4>1. i \in 0 .. (m - 1)
        OBVIOUS
      <4> QED  BY <4>1
    <3> QED  BY <3>1, <3>2, <3>3
  <2> HIDE DEF S
  <2>3. \A i \in Nat : i \in S
    BY <2>1, <2>2, Induction
  <2> QED  BY <2>3 DEF S
<1> DEFINE run(n) == CHOOSE h \in Run(n) : TRUE
           f == [n \in Nat |-> run(n)[n]]
<1>3. \A n \in Nat : run(n) \in Run(n)
  <2> HIDE DEF Run
  <2> QED  BY <1>1
<1> HIDE DEF run
<1>4. f \in [Nat -> X]
  <2>1. \A n \in Nat : run(n)[n] \in X
    BY <1>3
  <2> QED  BY <2>1
<1>5. f[0] = a
  BY <1>3
<1>6. ASSUME NEW n \in Nat
      PROVE  f[n + 1] = G[f[n]]
  <2>1. run(n + 1) \in Run(n + 1) /\ run(n) \in Run(n)
    BY <1>3
  <2>2. run(n + 1)[n + 1] = G[run(n + 1)[n]]
    <3>1. n \in 0 .. ((n + 1) - 1)
      OBVIOUS
    <3> QED  BY <2>1, <3>1
  <2>3. run(n + 1)[n] = run(n)[n]
    <3>1. n <= n /\ n <= n + 1 /\ n + 1 \in Nat
      OBVIOUS
    <3> HIDE DEF Run
    <3> QED  BY <1>2, <2>1, <3>1
  <2> QED  BY <2>2, <2>3
<1> HIDE DEF f
<1> QED  BY <1>4, <1>5, <1>6

\* The passes of a loop follow one another, and do not leave the set X of what
\* it may work on.
LEMMA RepeatSteps ==
  ASSUME NEW pass, NEW X, NEW start \in X, \A x \in X : pass[x] \in X
  PROVE  /\ Repeat(pass, start, 0) = start
         /\ \A n \in Nat : /\ Repeat(pass, start, n) \in X
                           /\ Repeat(pass, start, n + 1) = pass[Repeat(pass, start, n)]
<1> DEFINE F(g) == [i \in Nat |-> IF i = 0 THEN start ELSE pass[g[i - 1]]]
           after == CHOOSE g : g = F(g)
           G == [x \in X |-> pass[x]]
<1>1. \A n \in Nat : Repeat(pass, start, n) = after[n]
  BY DEF Repeat
<1>2. PICK f \in [Nat -> X] : f[0] = start /\ \A k \in Nat : f[k + 1] = G[f[k]]
  <2>1. PICK H \in [X -> X] : \A x \in X : H[x] = G[x]
    <3>1. G \in [X -> X]
      OBVIOUS
    <3> QED  BY <3>1
  <2> HIDE DEF G
  <2>2. \E f \in [Nat -> X] : f[0] = start /\ \A k \in Nat : f[k + 1] = H[f[k]]
    <3>1. start \in X
      OBVIOUS
    <3> QED  BY ONLY <3>1, H \in [X -> X], Iteration
  <2>3. PICK f \in [Nat -> X] : f[0] = start /\ \A k \in Nat : f[k + 1] = H[f[k]]
    BY <2>2
  <2>4. \A k \in Nat : f[k + 1] = G[f[k]]
    BY <2>1, <2>3
  <2> QED  BY <2>3, <2>4
<1>3. f = F(f)
  <2>1. ASSUME NEW k \in Nat
        PROVE  f[k] = F(f)[k]
    <3>1. CASE k = 0
      BY <1>2, <3>1
    <3>2. CASE k # 0
      <4>1. k - 1 \in Nat /\ (k - 1) + 1 = k
        BY <3>2
      <4>2. f[k] = G[f[k - 1]] /\ f[k - 1] \in X
        BY <1>2, <4>1
      <4> QED  BY <3>2, <4>2
    <3> QED  BY <3>1, <3>2
  <2>2. F(f) = [k \in Nat |-> F(f)[k]] /\ f = [k \in Nat |-> f[k]]
    OBVIOUS
  <2> HIDE DEF F
  <2> QED  BY <2>1, <2>2
<1>4. after = F(after)
  <2> HIDE DEF F
  <2> QED  BY <1>3
<1> HIDE DEF after
<1>5. after[0] = start
  <2>1. F(after)[0] = start
    OBVIOUS
  <2> HIDE DEF F
  <2> QED  BY <1>4, <2>1
<1>6. \A k \in Nat : after[k + 1] = pass[after[k]]
  <2> TAKE k \in Nat
  <2>1. F(after)[k + 1] = pass[after[k]]
    <3>1. k + 1 \in Nat /\ k + 1 # 0 /\ (k + 1) - 1 = k
      OBVIOUS
    <3> QED  BY <3>1
  <2>2. after[k + 1] = F(after)[k + 1]
    <3> HIDE DEF F
    <3> QED  BY <1>4
  <2> HIDE DEF F
  <2> QED  BY <2>1, <2>2
<1> DEFINE S == {k \in Nat : after[k] \in X}
<1>7. \A n \in Nat : after[n] \in X
  <2>1. 0 \in S
    BY <1>5
  <2>2. \A k \in Nat : k \in S => k + 1 \in S
    BY <1>6
  <2> HIDE DEF S
  <2>3. \A n \in Nat : n \in S
    BY <2>1, <2>2, Induction
  <2> QED  BY <2>3 DEF S
<1> HIDE DEF S
<1> QED  BY <1>1, <1>5, <1>6, <1>7

\* What every pass of a loop keeps holds when the loop has ended.
LEMMA RepeatStays ==
  ASSUME NEW pass, NEW X, NEW start \in X, \A x \in X : pass[x] \in X, NEW n \in Nat
  PROVE  Repeat(pass, start, n) \in X
BY RepeatSteps

\* A loop ends when each pass that changes anything lowers a bound on how many
\* there can still be: of what the loop works on, R says which bounds it has.
LEMMA RepeatEnds ==
  ASSUME NEW pass, NEW X, NEW R \in [X -> SUBSET Nat],
         NEW start \in X, NEW m \in R[start],
         \A x \in X : \A k \in R[x] :
             pass[x] = x \/ (pass[x] \in X /\ \E j \in R[pass[x]] : j < k),
         NEW n \in Nat, m <= n
  PROVE  /\ pass[Repeat(pass, start, n)] = Repeat(pass, start, n)
         /\ Repeat(pass, start, n) \in X
         /\ R[Repeat(pass, start, n)] # {}
<1>1. PICK Y : Y = {x \in X : R[x] # {}}
  OBVIOUS
<1>2. start \in Y /\ \A x \in Y : pass[x] \in Y
  BY <1>1
<1>3. /\ Repeat(pass, start, 0) = start
      /\ \A i \in Nat : /\ Repeat(pass, start, i) \in Y
                        /\ Repeat(pass, start, i + 1) = pass[Repeat(pass, start, i)]
  BY ONLY <1>2, RepeatSteps
<1>4. PICK f : f = [i \in Nat |-> Repeat(pass, start, i)]
  OBVIOUS
<1>5. /\ f \in [Nat -> Y] /\ f[0] = start
      /\ \A k \in Nat : f[k + 1] = pass[f[k]]
  <2>1. \A k \in Nat : f[k] = Repeat(pass, start, k)
    BY ONLY <1>4
  <2>2. f \in [Nat -> Y]
    BY ONLY <1>3, <1>4
  <2>3. \A k \in Nat : f[k + 1] = pass[f[k]]
    <3> TAKE k \in Nat
    <3>1. k + 1 \in Nat
      OBVIOUS
    <3> QED  BY ONLY <1>3, <2>1, <3>1
  <2> QED  BY ONLY <1>3, <2>1, <2>2, <2>3
<1>6. PICK S : S = {i \in Nat : pass[f[i]] = f[i] \/ \E k \in R[f[i]] : k + i <= m}
  OBVIOUS
<1>7. 0 \in S
  <2>1. m \in R[f[0]] /\ m \in Nat /\ m + 0 <= m
    BY <1>5
  <2> QED  BY <1>6, <2>1
<1>8. ASSUME NEW i \in Nat, i \in S
      PROVE  i + 1 \in S
  <2>0. f[i + 1] = pass[f[i]] /\ i + 1 \in Nat
    BY <1>5
  <2>1. CASE pass[f[i]] = f[i]
    BY <1>6, <2>0, <2>1
  <2>2. CASE pass[f[i]] # f[i]
    <3>1. PICK k \in R[f[i]] : k + i <= m
      BY <1>6, <1>8, <2>2
    <3>2. f[i] \in X
      BY <1>1, <1>5
    <3>3. PICK j \in R[pass[f[i]]] : j < k
      BY <2>2, <3>2
    <3>4. f[i + 1] \in X
      BY <1>1, <1>5
    <3>5. k \in Nat /\ j \in Nat /\ m \in Nat
      BY <2>0, <3>2, <3>4
    <3>6. j + (i + 1) <= m
      BY <3>1, <3>3, <3>5
    <3> QED  BY <1>6, <2>0, <3>3, <3>6
  <2> QED  BY <2>1, <2>2
<1>9. n \in S
  BY ONLY <1>7, <1>8, n \in Nat, Induction
<1>10. f[n] \in X /\ R[f[n]] # {}
  BY <1>1, <1>5
<1>11. pass[f[n]] = f[n]
  <2> SUFFICES ASSUME pass[f[n]] # f[n] PROVE FALSE
    OBVIOUS
  <2>1. PICK k \in R[f[n]] : k + n <= m
    BY <1>6, <1>9
  <2>2. k \in Nat /\ m \in Nat
    BY <1>10
  <2>3. k = 0
    BY <2>1, <2>2
  <2>4. pass[f[n]] \in X
    BY <1>10
  <2>5. PICK j \in R[pass[f[n]]] : j < k
    BY <1>10
  <2>6. j \in Nat
    BY <2>4
  <2> QED  BY <2>3, <2>5, <2>6
<1>12. Repeat(pass, start, n) = f[n]
  BY <1>4
<1> QED  BY <1>10, <1>11, <1>12

\* A sequence without its k-th element.
LEMMA RemovedAt ==
  ASSUME NEW A, NEW s \in Seq(A), NEW k \in 1 .. Len(s)
  PROVE  /\ RemoveAt(s, k) \in Seq(A)
         /\ Len(RemoveAt(s, k)) = Len(s) - 1
         /\ \A i \in 1 .. (Len(s) - 1) : RemoveAt(s, k)[i] = s[IF i < k THEN i ELSE i + 1]
<1> DEFINE n == Len(s)
           a == SubSeq(s, 1, k - 1)
           b == SubSeq(s, k + 1, n)
           t == a \o b
<1>1. n \in Nat /\ k \in 1 .. n
  BY LenProperties
<1>2. \A i \in 1 .. n : s[i] \in A
  OBVIOUS
<1>3. a \in Seq(A) /\ Len(a) = k - 1 /\ \A i \in 1 .. (k - 1) : a[i] = s[i]
  <2>1. k - 1 \in (1 - 1) .. n
    BY <1>1
  <2>2. \A i \in 1 .. (k - 1) : s[i] \in A
    BY <1>1, <1>2
  <2>3. Len(a) = IF 1 <= k - 1 THEN k - 1 - 1 + 1 ELSE 0
    BY <1>1, <2>1, <2>2, SubSeqProperties
  <2>4. a \in Seq(A) /\ \A i \in 1 .. (k - 1 - 1 + 1) : a[i] = s[1 + i - 1]
    BY <1>1, <2>1, <2>2, SubSeqProperties
  <2> HIDE DEF a, n
  <2>5. Len(a) = k - 1
    BY <1>1, <2>3
  <2>6. \A i \in 1 .. (k - 1) : a[i] = s[i]
    <3> TAKE i \in 1 .. (k - 1)
    <3>1. i \in 1 .. (k - 1 - 1 + 1) /\ 1 + i - 1 = i
      BY <1>1
    <3> QED  BY <2>4, <3>1
  <2> QED  BY <2>4, <2>5, <2>6
<1>4. b \in Seq(A) /\ Len(b) = n - k /\ \A i \in 1 .. (n - k) : b[i] = s[k + i]
  <2>1. n \in ((k + 1) - 1) .. n
    BY <1>1
  <2>2. \A i \in (k + 1) .. n : s[i] \in A
    BY <1>1, <1>2
  <2>3. b \in Seq(A) /\ Len(b) = (IF k + 1 <= n THEN n - (k + 1) + 1 ELSE 0)
        /\ \A i \in 1 .. (n - (k + 1) + 1) : b[i] = s[(k + 1) + i - 1]
    BY <1>1, <2>1, <2>2, SubSeqProperties
  <2> HIDE DEF b, n
  <2>4. Len(b) = n - k
    BY <1>1, <2>3
  <2>5. \A i \in 1 .. (n - k) : b[i] = s[k + i]
    <3> TAKE i \in 1 .. (n - k)
    <3>1. i \in 1 .. (n - (k + 1) + 1) /\ (k + 1) + i - 1 = k + i
      BY <1>1
    <3> QED  BY <2>3, <3>1
  <2> QED  BY <2>3, <2>4, <2>5
<1>5. t \in Seq(A) /\ Len(t) = n - 1
  <2> HIDE DEF a, b, n
  <2>1. t \in Seq(A) /\ Len(t) = Len(a) + Len(b)
    BY <1>3, <1>4, ConcatProperties
  <2> QED  BY <1>1, <1>3, <1>4, <2>1
<1>6. \A i \in 1 .. (n - 1) : t[i] = s[IF i < k THEN i ELSE i + 1]
  <2> HIDE DEF a, b, n
  <2> TAKE i \in 1 .. (n - 1)
  <2>1. t[i] = IF i <= Len(a) THEN a[i] ELSE b[i - Len(a)]
    <3>1. i \in 1 .. (Len(a) + Len(b))
      BY <1>1, <1>3, <1>4
    <3> QED  BY <1>3, <1>4, <3>1, ConcatProperties
  <2>2. CASE i < k
    <3>1. i \in 1 .. (k - 1) /\ i <= Len(a)
      BY <1>1, <1>3, <2>2
    <3> QED  BY <1>3, <2>1, <2>2, <3>1
  <2>3. CASE ~(i < k)
    <3>1. ~(i <= Len(a)) /\ i - Len(a) = i - (k - 1) /\ i - (k - 1) \in 1 .. (n - k)
          /\ k + (i - (k - 1)) = i + 1
      BY <1>1, <1>3, <2>3
    <3> QED  BY <1>4, <2>1, <2>3, <3>1
  <2> QED  BY <2>2, <2>3
<1>7. RemoveAt(s, k) = t
  BY DEF RemoveAt
<1> HIDE DEF t
<1> QED  BY <1>5, <1>6, <1>7 DEF n

\* What the elements of a sequence are, none twice.
Elements(s) == {s[i] : i \in 1 .. Len(s)}
Distinct(s) == \A i, j \in 1 .. Len(s) : s[i] = s[j] => i = j

\* A sequence of distinct elements without the k-th.
LEMMA RemovedDistinct ==
  ASSUME NEW A, NEW s \in Seq(A), Distinct(s), NEW k \in 1 .. Len(s)
  PROVE  /\ Distinct(RemoveAt(s, k))
         /\ Elements(RemoveAt(s, k)) = Elements(s) \ {s[k]}
<1> DEFINE n == Len(s)
<1>1. PICK t : t = RemoveAt(s, k)
  OBVIOUS
<1>2. n \in Nat /\ k \in 1 .. n
  BY LenProperties
<1>3. /\ Len(t) = n - 1
      /\ \A i \in 1 .. (n - 1) : t[i] = s[IF i < k THEN i ELSE i + 1]
  BY <1>1, RemovedAt
<1>4. \A i, j \in 1 .. n : s[i] = s[j] => i = j
  BY DEF Distinct
<1> HIDE DEF n
<1>5. \A i \in 1 .. (n - 1) : (IF i < k THEN i ELSE i + 1) \in (1 .. n) \ {k}
  BY <1>2
<1>6. Distinct(t)
  <2> SUFFICES ASSUME NEW i \in 1 .. (n - 1), NEW j \in 1 .. (n - 1), t[i] = t[j]
               PROVE  i = j
    BY <1>3 DEF Distinct
  <2>1. (IF i < k THEN i ELSE i + 1) = (IF j < k THEN j ELSE j + 1)
    BY <1>3, <1>4, <1>5
  <2> QED  BY <1>2, <2>1
<1>7. \A i \in 1 .. (n - 1) : t[i] \in Elements(s) \ {s[k]}
  <2> TAKE i \in 1 .. (n - 1)
  <2>1. PICK m \in (1 .. n) \ {k} : t[i] = s[m]
    BY <1>3, <1>5
  <2>2. s[m] # s[k]
    BY <1>2, <1>4
  <2> QED  BY <2>1, <2>2 DEF Elements, n
<1>8. \A x \in Elements(s) \ {s[k]} : \E i \in 1 .. (n - 1) : t[i] = x
  <2> TAKE x \in Elements(s) \ {s[k]}
  <2>1. PICK m \in 1 .. n : x = s[m] /\ m # k
    BY DEF Elements, n
  <2>2. CASE m < k
    <3>1. m \in 1 .. (n - 1)
      BY <1>2, <2>2
    <3> QED  BY <1>3, <2>1, <2>2, <3>1
  <2>3. CASE ~(m < k)
    <3>1. m - 1 \in 1 .. (n - 1) /\ ~(m - 1 < k) /\ (m - 1) + 1 = m
      BY <1>2, <2>1, <2>3
    <3>2. t[m - 1] = s[m]
      BY <1>3, <3>1
    <3> QED  BY <2>1, <3>1, <3>2
  <2> QED  BY <2>2, <2>3
<1>9. Elements(t) = Elements(s) \ {s[k]}
  <2>1. Elements(t) = {t[i] : i \in 1 .. (n - 1)}
    BY <1>3 DEF Elements
  <2>2. PICK E : E = Elements(s) \ {s[k]}
    OBVIOUS
  <2> QED  BY <1>7, <1>8, <2>1, <2>2
<1> QED  BY <1>1, <1>6, <1>9

\* A sequence of distinct elements without the first that is e.
LEMMA RemovedFirst ==
  ASSUME NEW A, NEW s \in Seq(A), Distinct(s), NEW e
  PROVE  /\ RemoveFirst(s, e) \in Seq(A)
         /\ Distinct(RemoveFirst(s, e))
         /\ Elements(RemoveFirst(s, e)) = Elements(s) \ {e}
         /\ e \in Elements(s) => Len(RemoveFirst(s, e)) = Len(s) - 1
<1>1. CASE \E i \in 1 .. Len(s) : s[i] = e
  <2> DEFINE I == {i \in 1 .. Len(s) : s[i] = e}
             k == Min(I)
  <2>1. k \in I
    <3>1. I \in SUBSET Int /\ IsFiniteSet(I) /\ I # {}
      <4>1. Len(s) \in Nat
        BY LenProperties
      <4>2. IsFiniteSet(1 .. Len(s))
        BY <4>1, FS_Interval
      <4> QED  BY <1>1, <4>1, <4>2, FS_Subset
    <3> HIDE DEF I
    <3>2. \E m \in I : \A j \in I : m <= j
      BY <3>1, LeastOf
    <3> QED  BY <3>2 DEF Min
  <2>2. RemoveFirst(s, e) = RemoveAt(s, k)
    <3>1. SelectInSeq(s, LAMBDA v : v = e) = k
      BY <1>1 DEF SelectInSeq
    <3> HIDE DEF k
    <3> QED  BY <1>1, <3>1 DEF RemoveFirst
  <2>3. k \in 1 .. Len(s) /\ s[k] = e
    BY <2>1
  <2> HIDE DEF k
  <2> QED  BY <2>2, <2>3, RemovedAt, RemovedDistinct
<1>2. CASE ~\E i \in 1 .. Len(s) : s[i] = e
  <2>1. RemoveFirst(s, e) = s
    BY <1>2 DEF RemoveFirst
  <2>2. e \notin Elements(s)
    BY <1>2 DEF Elements
  <2> QED  BY <2>1, <2>2
<1> QED  BY <1>1, <1>2

\* A sequence of distinct elements without the last.
LEMMA RemovedLast ==
  ASSUME NEW A, NEW s \in Seq(A), Distinct(s), Len(s) # 0
  PROVE  /\ Last(s) \in Elements(s)
         /\ Front(s) \in Seq(A)
         /\ Distinct(Front(s))
         /\ Elements(Front(s)) = Elements(s) \ {Last(s)}
         /\ Len(Front(s)) = Len(s) - 1
<1> DEFINE n == Len(s)
<1>1. n \in Nat /\ n \in 1 .. n /\ 1 \in 1 .. (n + 1) /\ n - 1 \in (1 - 1) .. n
  BY LenProperties
<1>2. Last(s) = s[n]
  BY DEF Last
<1>3. PICK t : t = RemoveAt(s, n)
  OBVIOUS
<1>4. PICK f : f = Front(s)
  OBVIOUS
<1>5. /\ t \in Seq(A) /\ Len(t) = n - 1
      /\ \A i \in 1 .. (n - 1) : t[i] = s[IF i < n THEN i ELSE i + 1]
  BY <1>1, <1>3, RemovedAt
<1>6. f \in Seq(A) /\ Len(f) = n - 1 /\ \A i \in 1 .. (n - 1) : f[i] = s[i]
  <2>1. f = SubSeq(s, 1, n - 1)
    BY <1>4 DEF Front
  <2>2. \A i \in 1 .. (n - 1) : s[i] \in A
    <3>1. \A i \in 1 .. n : s[i] \in A
      BY ElementOfSeq
    <3> HIDE DEF n
    <3> QED  BY <1>1, <3>1
  <2>3. /\ f \in Seq(A) /\ Len(f) = (IF 1 <= n - 1 THEN (n - 1) - 1 + 1 ELSE 0)
        /\ \A i \in 1 .. ((n - 1) - 1 + 1) : f[i] = s[1 + i - 1]
    BY <1>1, <2>1, <2>2, SubSeqProperties
  <2> HIDE DEF n
  <2>4. \A i \in 1 .. (n - 1) : i \in 1 .. ((n - 1) - 1 + 1) /\ 1 + i - 1 = i
    BY <1>1
  <2>5. \A i \in 1 .. (n - 1) : f[i] = s[i]
    BY <2>3, <2>4
  <2> QED  BY <1>1, <2>3, <2>5
<1> HIDE DEF n
<1>7. \A i \in 1 .. (n - 1) : f[i] = t[i]
  BY <1>1, <1>5, <1>6
<1>8. f = t
  BY <1>5, <1>6, <1>7, SeqEqual
<1>9. Distinct(t) /\ Elements(t) = Elements(s) \ {s[n]}
  BY <1>1, <1>3, RemovedDistinct DEF n
<1> QED  BY SMTT(30), <1>1, <1>2, <1>4, <1>5, <1>8, <1>9 DEF Elements, n

\* A sequence of distinct elements with another before them.
LEMMA Prepended ==
  ASSUME NEW A, NEW s \in Seq(A), Distinct(s), NEW e \in A, e \notin Elements(s)
  PROVE  /\ <<e>> \o s \in Seq(A)
         /\ Distinct(<<e>> \o s)
         /\ Elements(<<e>> \o s) = Elements(s) \cup {e}
         /\ Len(<<e>> \o s) = Len(s) + 1
<1> DEFINE n == Len(s)
<1>1. PICK t : t = <<e>> \o s
  OBVIOUS
<1>2. n \in Nat
  BY LenProperties
<1>3. <<e>> \in Seq(A) /\ Len(<<e>>) = 1 /\ <<e>>[1] = e
  OBVIOUS
<1>4. t \in Seq(A) /\ Len(t) = n + 1
  <2>1. t \in Seq(A) /\ Len(t) = Len(<<e>>) + Len(s)
    BY <1>1, <1>3, ConcatProperties
  <2> QED  BY <1>2, <1>3, <2>1
<1>5. t[1] = e
  <2>1. 1 \in 1 .. (Len(<<e>>) + Len(s)) /\ 1 <= Len(<<e>>)
    BY <1>2, <1>3
  <2> QED  BY <1>1, <1>3, <2>1, ConcatProperties
<1>6. \A i \in 1 .. n : t[i + 1] = s[i]
  <2> TAKE i \in 1 .. n
  <2>1. i + 1 \in 1 .. (Len(<<e>>) + Len(s)) /\ ~(i + 1 <= Len(<<e>>)) /\ (i + 1) - Len(<<e>>) = i
    BY <1>2, <1>3
  <2>2. t[i + 1] = s[(i + 1) - Len(<<e>>)]
    BY <1>1, <1>3, <2>1, ConcatProperties
  <2> QED  BY <2>1, <2>2
<1>7. \A i, j \in 1 .. n : s[i] = s[j] => i = j
  BY DEF Distinct
<1>8. \A i \in 1 .. n : s[i] # e
  BY DEF Elements
<1> HIDE DEF n
<1>9. \A i \in 1 .. (n + 1) : i = 1 \/ (i - 1 \in 1 .. n /\ t[i] = s[i - 1])
  <2> TAKE i \in 1 .. (n + 1)
  <2>1. i = 1 \/ (i - 1 \in 1 .. n /\ (i - 1) + 1 = i)
    BY <1>2
  <2> QED  BY <1>6, <2>1
<1>10. Distinct(t)
  <2> SUFFICES ASSUME NEW i \in 1 .. (n + 1), NEW j \in 1 .. (n + 1), t[i] = t[j]
               PROVE  i = j
    BY <1>4 DEF Distinct
  <2>1. CASE i = 1 \/ j = 1
    BY <1>5, <1>8, <1>9, <2>1
  <2>2. CASE i # 1 /\ j # 1
    <3>1. i - 1 = j - 1
      BY <1>7, <1>9, <2>2
    <3> QED  BY <1>2, <3>1
  <2> QED  BY <2>1, <2>2
<1>11. Elements(t) = Elements(s) \cup {e}
  <2>1. \A i \in 1 .. (n + 1) : t[i] \in Elements(s) \cup {e}
    BY <1>5, <1>9 DEF Elements, n
  <2>2. \A i \in 1 .. n : \E j \in 1 .. (n + 1) : t[j] = s[i]
    <3> TAKE i \in 1 .. n
    <3>1. i + 1 \in 1 .. (n + 1)
      BY <1>2
    <3> QED  BY <1>6, <3>1
  <2>3. 1 \in 1 .. (n + 1)
    BY <1>2
  <2> QED  BY <1>4, <1>5, <2>1, <2>2, <2>3 DEF Elements, n
<1> QED  BY <1>1, <1>4, <1>10, <1>11 DEF n
=============================================================================
