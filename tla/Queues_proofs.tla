---------------------------- MODULE Queues_proofs ----------------------------
(***************************************************************************)
(* Proofs about the queues of a multiplexer: the heap of the sending side  *)
(* and its worker.  They hold for every number of sockets, every clock and *)
(* every choice of the time of a packet.                                   *)
(***************************************************************************)
EXTENDS SndUList, RcvUList, Loops_proofs

-----------------------------------------------------------------------------
(* The heap.                                                               *)

Heaps == [node : Seq(Sockets), loc : [Sockets -> Int]]

\* The heap and the positions of its sockets agree; those in X are off the heap
\* and their positions not yet cleared.
Located(h, X) ==
    /\ h \in Heaps
    /\ \A i \in 1 .. Len(h.node) : h.node[i] \notin X /\ h.loc[h.node[i]] = i
    /\ \A s \in Sockets \ X :
           h.loc[s] # NotOnHeap => h.loc[s] \in 1 .. Len(h.node) /\ h.node[h.loc[s]] = s

\* Exchanging two nodes keeps them located.
LEMMA ExchangedLocated ==
  ASSUME NEW X, NEW h, Located(h, X), NEW p \in 1 .. Len(h.node), NEW q \in 1 .. Len(h.node)
  PROVE  /\ Located(Exchanged(h, p, q), X)
         /\ Len(Exchanged(h, p, q).node) = Len(h.node)
<1> DEFINE n == Len(h.node)
           a == h.node
           b == [a EXCEPT ![p] = a[q], ![q] = a[p]]
           l == [h.loc EXCEPT ![a[p]] = q, ![a[q]] = p]
           e == Exchanged(h, p, q)
<1>1. a \in Seq(Sockets) /\ h.loc \in [Sockets -> Int] /\ n \in Nat
  BY LenProperties DEF Located, Heaps
<1>2. a \in [1 .. n -> Sockets]
  BY <1>1, LenProperties
<1>3. b \in [1 .. n -> Sockets]
  <2> HIDE DEF a, n
  <2> QED  BY <1>2 DEF n
<1>4. b \in Seq(Sockets) /\ Len(b) = n
  <2> HIDE DEF b, n
  <2>1. b \in Seq(Sockets)
    BY <1>1, <1>3, SeqDef
  <2> QED  BY <1>1, <1>3, <2>1, LenProperties
<1>5. \A i \in 1 .. n : b[i] = IF i = q THEN a[p] ELSE IF i = p THEN a[q] ELSE a[i]
  <2> HIDE DEF a, n
  <2> QED  BY <1>2 DEF n
<1>6. l \in [Sockets -> Int]
  <2> HIDE DEF a
  <2> QED  BY <1>1, <1>2
<1>7. \A s \in Sockets : l[s] = IF s = a[q] THEN p ELSE IF s = a[p] THEN q ELSE h.loc[s]
  <2> HIDE DEF a
  <2> QED  BY <1>1, <1>2
<1>8. /\ \A i \in 1 .. n : a[i] \notin X /\ h.loc[a[i]] = i
      /\ \A s \in Sockets \ X : h.loc[s] # NotOnHeap => h.loc[s] \in 1 .. n /\ a[h.loc[s]] = s
  BY DEF Located
<1>9. e.node = b /\ e.loc = l /\ e \in Heaps
  <2>1. e = [node |-> b, loc |-> l]
    BY DEF Exchanged
  <2> HIDE DEF b, l, e
  <2> QED  BY <1>4, <1>6, <2>1 DEF Heaps
<1> HIDE DEF a, b, l, e, n
<1>10. p \in 1 .. n /\ q \in 1 .. n
  BY DEF n
<1>11. \A i, j \in 1 .. n : a[i] = a[j] => i = j
  BY <1>8
<1>12. \A i \in 1 .. n : b[i] \notin X /\ l[b[i]] = i
  <2> TAKE i \in 1 .. n
  <2>1. CASE i = q
    BY <1>2, <1>5, <1>7, <1>8, <1>10, <1>11, <2>1
  <2>2. CASE i # q /\ i = p
    BY <1>2, <1>5, <1>7, <1>8, <1>10, <1>11, <2>2
  <2>3. CASE i # q /\ i # p
    BY <1>2, <1>5, <1>7, <1>8, <1>10, <1>11, <2>3
  <2> QED  BY <2>1, <2>2, <2>3
<1>13. \A s \in Sockets \ X : l[s] # NotOnHeap => l[s] \in 1 .. n /\ b[l[s]] = s
  <2> SUFFICES ASSUME NEW s \in Sockets \ X, l[s] # NotOnHeap
               PROVE  l[s] \in 1 .. n /\ b[l[s]] = s
    OBVIOUS
  <2>1. CASE s = a[q]
    <3>1. l[s] = p
      BY <1>7, <2>1
    <3>2. b[p] = a[q]
      BY <1>5, <1>10
    <3> QED  BY <1>10, <2>1, <3>1, <3>2
  <2>2. CASE s # a[q] /\ s = a[p]
    <3>1. l[s] = q
      BY <1>7, <2>2
    <3>2. b[q] = a[p]
      BY <1>5, <1>10
    <3> QED  BY <1>10, <2>2, <3>1, <3>2
  <2>3. CASE s # a[q] /\ s # a[p]
    <3>1. l[s] = h.loc[s]
      BY <1>7, <2>3
    <3>2. l[s] \in 1 .. n /\ a[l[s]] = s
      BY <1>8, <3>1
    <3>3. b[l[s]] = a[l[s]]
      BY <1>5, <2>3, <3>2
    <3> QED  BY <3>2, <3>3
  <2> QED  BY <2>1, <2>2, <2>3
<1>14. Located(e, X) /\ Len(e.node) = n
  BY <1>4, <1>9, <1>12, <1>13 DEF Located
<1> QED  BY <1>14 DEF e, n

\* So the loop of insert_ keeps them located, ...
LEMMA SiftUpLocated ==
  ASSUME NEW X, NEW st, NEW h, Located(h, X), NEW q \in 1 .. Len(h.node)
  PROVE  /\ Located(SiftUp(h, st, q), X)
         /\ Len(SiftUp(h, st, q).node) = Len(h.node)
<1> DEFINE n == Len(h.node)
           Good == {e \in Places : Located(e.h, X) /\ Len(e.h.node) = n /\ e.q \in 1 .. n}
           start == [h |-> h, q |-> q]
<1>1. n \in Nat
  BY LenProperties DEF Located, Heaps
<1>2. start \in Good
  <2>1. start.h = h /\ start.q = q
    OBVIOUS
  <2>2. start \in Places
    BY <1>1 DEF Places, Located, Heaps
  <2> HIDE DEF start
  <2> QED  BY <2>1, <2>2
<1>3. ASSUME NEW e \in Good
      PROVE  Rise(st)[e] \in Good
  <2> DEFINE p == e.q \div 2
             moved == [h |-> Exchanged(e.h, p, e.q), q |-> p]
  <2>1. Rise(st)[e] = IF e.q > 1 /\ st[e.h.node[p]] > st[e.h.node[e.q]] THEN moved ELSE e
    BY DEF Rise
  <2>2. CASE e.q > 1
    <3>1. p \in 1 .. n
      BY <1>1, <2>2
    <3>2. Located(Exchanged(e.h, p, e.q), X) /\ Len(Exchanged(e.h, p, e.q).node) = n
      <4>1. Located(e.h, X) /\ p \in 1 .. Len(e.h.node) /\ e.q \in 1 .. Len(e.h.node)
        BY <3>1
      <4> HIDE DEF p
      <4> QED  BY <4>1, ExchangedLocated
    <3>3. moved.h = Exchanged(e.h, p, e.q) /\ moved.q = p
      OBVIOUS
    <3>4. moved \in Places
      <4>1. p \in Nat
        BY <3>1
      <4>2. Exchanged(e.h, p, e.q) \in Heaps
        BY <3>2 DEF Located
      <4> HIDE DEF p
      <4> QED  BY <4>1, <4>2 DEF Places, Heaps
    <3> HIDE DEF moved, p
    <3> QED  BY <2>1, <3>1, <3>2, <3>3, <3>4
  <2>3. CASE ~(e.q > 1)
    BY <2>1, <2>3
  <2> QED  BY <2>2, <2>3
<1>4. SiftUp(h, st, q) = Repeat(Rise(st), start, n).h
  BY DEF SiftUp, HeapSize
<1> HIDE DEF start, Good
<1>5. Repeat(Rise(st), start, n) \in Good
  BY <1>1, <1>2, <1>3, RepeatStays
<1> QED  BY <1>4, <1>5 DEF Good

\* ... and so does that of remove_.
LEMMA SiftDownLocated ==
  ASSUME NEW X, NEW st, NEW h, Located(h, X), NEW q \in Nat \ {0}
  PROVE  /\ Located(SiftDown(h, st, q), X)
         /\ Len(SiftDown(h, st, q).node) = Len(h.node)
<1> DEFINE n == Len(h.node)
           Good == {e \in Places : Located(e.h, X) /\ Len(e.h.node) = n /\ e.q # 0}
           start == [h |-> h, q |-> q]
<1>1. n \in Nat
  BY LenProperties DEF Located, Heaps
<1>2. start \in Good
  <2>1. start.h = h /\ start.q = q
    OBVIOUS
  <2>2. start \in Places
    BY <1>1 DEF Places, Located, Heaps
  <2> HIDE DEF start
  <2> QED  BY <2>1, <2>2
<1>3. ASSUME NEW e \in Good
      PROVE  Sink(st)[e] \in Good
  <2> DEFINE c == Child(e.h, st, e.q)
             moved == [h |-> Exchanged(e.h, e.q, c), q |-> c]
  <2>1. Sink(st)[e] = IF c <= HeapSize(e.h) /\ st[e.h.node[e.q]] > st[e.h.node[c]]
                      THEN moved ELSE e
    BY DEF Sink
  <2>2. c \in Nat /\ c > e.q /\ e.q \in Nat \ {0}
    <3>1. e.q \in Nat \ {0}
      BY DEF Places
    <3>2. c \in {2 * e.q, 2 * e.q + 1}
      BY DEF Child
    <3> HIDE DEF c
    <3> QED  BY <3>1, <3>2
  <2> HIDE DEF c
  <2>3. CASE c <= HeapSize(e.h)
    <3>1. c \in 1 .. n /\ e.q \in 1 .. n
      BY <1>1, <2>2, <2>3 DEF HeapSize
    <3>2. Located(Exchanged(e.h, e.q, c), X) /\ Len(Exchanged(e.h, e.q, c).node) = n
      <4>1. Located(e.h, X) /\ c \in 1 .. Len(e.h.node) /\ e.q \in 1 .. Len(e.h.node)
        BY <3>1
      <4> QED  BY <4>1, ExchangedLocated
    <3>3. moved.h = Exchanged(e.h, e.q, c) /\ moved.q = c
      OBVIOUS
    <3>4. moved \in Places
      <4>1. Exchanged(e.h, e.q, c) \in Heaps
        BY <3>2 DEF Located
      <4> QED  BY <2>2, <4>1 DEF Places, Heaps
    <3> HIDE DEF moved
    <3> QED  BY <2>1, <2>2, <3>2, <3>3, <3>4
  <2>4. CASE ~(c <= HeapSize(e.h))
    BY <2>1, <2>4
  <2> QED  BY <2>3, <2>4
<1>4. SiftDown(h, st, q) = Repeat(Sink(st), start, n).h
  BY DEF SiftDown, HeapSize
<1> HIDE DEF start, Good
<1>5. Repeat(Sink(st), start, n) \in Good
  BY <1>1, <1>2, <1>3, RepeatStays
<1> QED  BY <1>4, <1>5 DEF Good

\* insert_ of a socket that is not on the heap.
LEMMA InsertedLocated ==
  ASSUME NEW st, NEW h, Located(h, {}), NEW s \in Sockets, ~OnHeap(h, s)
  PROVE  /\ Located(Inserted(h, st, s), {})
         /\ Len(Inserted(h, st, s).node) = Len(h.node) + 1
<1> DEFINE n == Len(h.node)
           b == Append(h.node, s)
           l == [h.loc EXCEPT ![s] = n + 1]
           e == [node |-> b, loc |-> l]
<1>1. h.node \in Seq(Sockets) /\ h.loc \in [Sockets -> Int] /\ n \in Nat
  BY LenProperties DEF Located, Heaps
<1>2. /\ b \in Seq(Sockets) /\ Len(b) = n + 1 /\ b[n + 1] = s
      /\ \A i \in 1 .. n : b[i] = h.node[i]
  BY <1>1, AppendProperties
<1>3. l \in [Sockets -> Int] /\ \A t \in Sockets : l[t] = IF t = s THEN n + 1 ELSE h.loc[t]
  BY <1>1
<1>4. e.node = b /\ e.loc = l /\ e \in Heaps
  <2> HIDE DEF b, l
  <2> QED  BY <1>2, <1>3 DEF Heaps
<1>5. /\ \A i \in 1 .. n : h.node[i] \in Sockets /\ h.loc[h.node[i]] = i
      /\ \A t \in Sockets : h.loc[t] # NotOnHeap => h.loc[t] \in 1 .. n /\ h.node[h.loc[t]] = t
  <2>1. \A i \in 1 .. n : h.node[i] \in Sockets
    BY <1>1
  <2> QED  BY <2>1 DEF Located
<1>6. h.loc[s] = NotOnHeap
  BY DEF OnHeap
<1> HIDE DEF b, l, e, n
<1>7. \A i \in 1 .. n : h.node[i] # s
  <2> SUFFICES ASSUME NEW i \in 1 .. n, h.node[i] = s
               PROVE  FALSE
    OBVIOUS
  <2>1. i = NotOnHeap
    BY <1>5, <1>6
  <2> QED  BY <2>1 DEF NotOnHeap
<1>8. \A i \in 1 .. (n + 1) : l[b[i]] = i
  <2> TAKE i \in 1 .. (n + 1)
  <2>1. CASE i = n + 1
    BY <1>2, <1>3, <2>1
  <2>2. CASE i # n + 1
    <3>1. i \in 1 .. n
      BY <1>1, <2>2
    <3> QED  BY <1>2, <1>3, <1>5, <1>7, <3>1
  <2> QED  BY <2>1, <2>2
<1>9. \A t \in Sockets : l[t] # NotOnHeap => l[t] \in 1 .. (n + 1) /\ b[l[t]] = t
  <2> SUFFICES ASSUME NEW t \in Sockets, l[t] # NotOnHeap
               PROVE  l[t] \in 1 .. (n + 1) /\ b[l[t]] = t
    OBVIOUS
  <2>1. CASE t = s
    <3>1. l[t] = n + 1 /\ n + 1 \in 1 .. (n + 1)
      BY <1>1, <1>3, <2>1
    <3> QED  BY <1>2, <2>1, <3>1
  <2>2. CASE t # s
    <3>1. l[t] = h.loc[t] /\ l[t] \in 1 .. n /\ h.node[l[t]] = t
      BY <1>3, <1>5, <2>2
    <3>2. l[t] \in 1 .. (n + 1) /\ b[l[t]] = h.node[l[t]]
      BY <1>1, <1>2, <3>1
    <3> QED  BY <3>1, <3>2
  <2> QED  BY <2>1, <2>2
<1>10. Located(e, {}) /\ Len(e.node) = n + 1
  BY <1>2, <1>4, <1>8, <1>9 DEF Located
<1> DEFINE m == n + 1
<1>11. m \in 1 .. Len(e.node)
  BY <1>1, <1>10
<1>12. Inserted(h, st, s) = SiftUp(e, st, m)
  BY DEF Inserted, HeapSize, e, b, l, n
<1>13. /\ Located(SiftUp(e, st, m), {})
       /\ Len(SiftUp(e, st, m).node) = Len(e.node)
  <2> HIDE DEF m
  <2> QED  BY <1>10, <1>11, SiftUpLocated
<1> QED  BY <1>10, <1>12, <1>13 DEF n

\* remove_ of a socket that is on the heap.
LEMMA RemovedLocated ==
  ASSUME NEW st, NEW h, Located(h, {}), NEW s \in Sockets, OnHeap(h, s)
  PROVE  /\ Located(Removed(h, st, s), {})
         /\ ~OnHeap(Removed(h, st, s), s)
         /\ Len(Removed(h, st, s).node) = Len(h.node) - 1
<1> DEFINE n == Len(h.node)
           q == h.loc[s]
           last == h.node[n]
           a == [h.node EXCEPT ![q] = last]
           b == SubSeq(a, 1, n - 1)
           l == [h.loc EXCEPT ![last] = q]
           e == [node |-> b, loc |-> l]
<1>1. h.node \in Seq(Sockets) /\ h.loc \in [Sockets -> Int] /\ n \in Nat
  BY LenProperties DEF Located, Heaps
<1>2. h.node \in [1 .. n -> Sockets]
  BY <1>1, LenProperties
<1>3. /\ \A i \in 1 .. n : h.node[i] \in Sockets /\ h.loc[h.node[i]] = i
      /\ \A t \in Sockets : h.loc[t] # NotOnHeap => h.loc[t] \in 1 .. n /\ h.node[h.loc[t]] = t
  <2>1. \A i \in 1 .. n : h.node[i] \in Sockets
    BY <1>1
  <2> QED  BY <2>1 DEF Located
<1>4. q \in 1 .. n /\ h.node[q] = s /\ n \in 1 .. n
  BY <1>1, <1>3 DEF OnHeap
<1>5. last \in Sockets /\ h.loc[last] = n
  BY <1>3, <1>4
<1>6. a \in [1 .. n -> Sockets] /\ \A i \in 1 .. n : a[i] = IF i = q THEN last ELSE h.node[i]
  <2> HIDE DEF last, n, q
  <2> QED  BY <1>2, <1>4, <1>5
<1>7. a \in Seq(Sockets) /\ Len(a) = n
  <2> HIDE DEF a, n
  <2>1. a \in Seq(Sockets)
    BY <1>1, <1>6, SeqDef
  <2> QED  BY <1>1, <1>6, <2>1, LenProperties
<1>8. /\ b \in Seq(Sockets) /\ Len(b) = n - 1
      /\ \A i \in 1 .. (n - 1) : b[i] = a[i]
  <2> HIDE DEF a, n
  <2>1. n - 1 \in (1 - 1) .. Len(a)
    BY <1>1, <1>4, <1>7
  <2>2. \A i \in 1 .. (n - 1) : a[i] \in Sockets
    BY <1>1, <1>6
  <2> QED  BY <1>1, <1>4, <1>7, <2>1, <2>2, SubSeqProperties
<1>9. l \in [Sockets -> Int] /\ \A t \in Sockets : l[t] = IF t = last THEN q ELSE h.loc[t]
  <2> HIDE DEF last, q, n
  <2> QED  BY <1>1, <1>4, <1>5
<1>10. e.node = b /\ e.loc = l /\ e \in Heaps
  <2> HIDE DEF b, l
  <2> QED  BY <1>8, <1>9 DEF Heaps
<1>11. Filled(h, st, s) = SiftDown(e, st, q)
  BY DEF Filled, HeapSize
<1> HIDE DEF e, b, l, a, last, q, n
<1>12. \A i \in 1 .. (n - 1) : b[i] # s /\ l[b[i]] = i
  <2> TAKE i \in 1 .. (n - 1)
  <2>1. i \in 1 .. n /\ i # n
    BY <1>1
  <2>2. b[i] = a[i]
    BY <1>8
  <2>3. CASE i = q
    <3>1. b[i] = last
      BY <1>6, <2>1, <2>2, <2>3
    <3>2. last # s
      BY <1>3, <1>4, <1>5, <2>1, <2>3 DEF q
    <3> QED  BY <1>5, <1>9, <2>3, <3>1, <3>2
  <2>4. CASE i # q
    <3>1. b[i] = h.node[i] /\ h.node[i] \in Sockets /\ h.loc[h.node[i]] = i
      BY <1>3, <1>6, <2>1, <2>2, <2>4
    <3>2. h.node[i] # s
      BY <2>4, <3>1 DEF q
    <3>3. h.node[i] # last
      BY <1>5, <2>1, <3>1
    <3> QED  BY <1>9, <3>1, <3>2, <3>3
  <2> QED  BY <2>3, <2>4
<1>13. \A t \in Sockets \ {s} : l[t] # NotOnHeap => l[t] \in 1 .. (n - 1) /\ b[l[t]] = t
  <2> SUFFICES ASSUME NEW t \in Sockets, t # s, l[t] # NotOnHeap
               PROVE  l[t] \in 1 .. (n - 1) /\ b[l[t]] = t
    OBVIOUS
  <2>1. CASE t = last
    <3>1. l[t] = q
      BY <1>9, <2>1
    <3>2. q # n
      BY <1>4, <2>1 DEF last
    <3>3. q \in 1 .. (n - 1)
      BY <1>1, <1>4, <3>2
    <3> QED  BY <1>4, <1>6, <1>8, <2>1, <3>1, <3>3
  <2>2. CASE t # last
    <3>1. l[t] = h.loc[t] /\ h.loc[t] \in 1 .. n /\ h.node[h.loc[t]] = t
      BY <1>3, <1>9, <2>2
    <3>2. h.loc[t] # n /\ h.loc[t] # q
      BY <1>4, <2>2, <3>1 DEF last
    <3>3. h.loc[t] \in 1 .. (n - 1)
      BY <1>1, <3>1, <3>2
    <3> QED  BY <1>4, <1>6, <1>8, <3>1, <3>2, <3>3
  <2> QED  BY <2>1, <2>2
<1>14. Located(e, {s}) /\ Len(e.node) = n - 1
  BY <1>8, <1>10, <1>12, <1>13 DEF Located
<1> DEFINE f == SiftDown(e, st, q)
<1>15. Located(f, {s}) /\ Len(f.node) = n - 1
  <2>1. q \in Nat \ {0}
    BY <1>4
  <2> HIDE DEF f
  <2>2. Located(SiftDown(e, st, q), {s}) /\ Len(SiftDown(e, st, q).node) = Len(e.node)
    BY <1>14, <2>1, SiftDownLocated
  <2> QED  BY <1>14, <2>2 DEF f
<1> DEFINE r == Removed(h, st, s)
           k == [f.loc EXCEPT ![s] = NotOnHeap]
<1>16. r = [node |-> f.node, loc |-> k]
  BY <1>11 DEF Removed
<1> HIDE DEF f
<1>17. f.node \in Seq(Sockets) /\ f.loc \in [Sockets -> Int]
  BY <1>15 DEF Located, Heaps
<1>18. k \in [Sockets -> Int] /\ \A t \in Sockets : k[t] = IF t = s THEN NotOnHeap ELSE f.loc[t]
  BY <1>17 DEF NotOnHeap
<1> HIDE DEF k, r
<1>19. r \in Heaps /\ r.node = f.node /\ r.loc = k
  BY <1>16, <1>17, <1>18 DEF Heaps
<1>20. \A i \in 1 .. Len(f.node) : f.node[i] \in Sockets
  BY <1>17
<1>21. /\ \A i \in 1 .. Len(f.node) : f.node[i] # s /\ f.loc[f.node[i]] = i
       /\ \A t \in Sockets \ {s} :
              f.loc[t] # NotOnHeap => f.loc[t] \in 1 .. Len(f.node) /\ f.node[f.loc[t]] = t
  BY <1>15 DEF Located
<1>22. Located(r, {})
  <2>1. \A i \in 1 .. Len(r.node) : r.loc[r.node[i]] = i
    BY <1>18, <1>19, <1>20, <1>21
  <2>2. \A t \in Sockets : r.loc[t] # NotOnHeap =>
            r.loc[t] \in 1 .. Len(r.node) /\ r.node[r.loc[t]] = t
    BY <1>18, <1>19, <1>21
  <2> QED  BY <1>19, <2>1, <2>2 DEF Located
<1>23. ~OnHeap(r, s)
  BY <1>18, <1>19 DEF OnHeap
<1> QED  BY <1>15, <1>19, <1>22, <1>23 DEF r, n
-----------------------------------------------------------------------------
(* The list and its worker.                                                *)

\* A worker on the condition variable that nobody is about to signal has an
\* empty heap.  An insertion signals only when it makes the heap one node long,
\* which is enough because the one before it, or the worker itself, left it so.
SndListInv ==
    /\ Located(heap, {})
    /\ pc = "wait" /\ ~signalling => Len(heap.node) = 0

\* An insertion keeps it, whatever was removed before it under the same lock.
LEMMA InsertKeeps ==
  ASSUME NEW h, Located(h, {}), NEW ts, NEW s \in Sockets, NEW alone, ~OnHeap(h, s),
         Insert(h, ts, s, alone)
  PROVE  /\ Located(heap', {})
         /\ Len(h.node) = 0 => signalling'
<1>1. heap' = Inserted(h, stamp', s) /\ signalling' = (HeapSize(heap') = 1)
  BY DEF Insert
<1>2. PICK g : g = Inserted(h, stamp', s)
  OBVIOUS
<1>3. Located(g, {}) /\ Len(g.node) = Len(h.node) + 1
  <2>1. PICK st : st = stamp'
    OBVIOUS
  <2> QED  BY <1>2, <2>1, InsertedLocated
<1>4. heap' = g /\ Len(h.node) \in Nat
  <2>1. h.node \in Seq(Sockets)
    BY DEF Located, Heaps
  <2> QED  BY <1>1, <1>2, <2>1, LenProperties
<1>5. ASSUME Len(h.node) = 0 PROVE signalling'
  <2>1. HeapSize(heap') = 1
    BY <1>3, <1>4, <1>5 DEF HeapSize
  <2> QED  BY <1>1, <2>1
<1> QED  BY <1>3, <1>4, <1>5

\* The first socket is on the heap.
LEMMA RootOnHeap ==
  ASSUME NEW h, Located(h, {}), HeapSize(h) # 0
  PROVE  Root(h) \in Sockets /\ OnHeap(h, Root(h))
<1>1. h.node \in Seq(Sockets) /\ Len(h.node) \in Nat /\ Len(h.node) # 0
  BY LenProperties DEF Located, Heaps, HeapSize
<1>2. 1 \in 1 .. Len(h.node)
  BY <1>1
<1>3. h.node[1] \in Sockets /\ h.loc[h.node[1]] = 1
  BY <1>1, <1>2 DEF Located
<1> QED  BY <1>3 DEF Root, OnHeap, NotOnHeap

\* CSndUList's invariant, and that of its worker, after any step.
LEMMA SndListStep == SndListInv /\ [Next]_vars => SndListInv'
<1> SUFFICES ASSUME SndListInv, [Next]_vars PROVE SndListInv'
  OBVIOUS
<1>0. /\ Located(heap, {}) /\ Len(heap.node) \in Nat
      /\ pc = "wait" /\ ~signalling => Len(heap.node) = 0
  <2>1. Located(heap, {})
    BY DEF SndListInv
  <2>2. Len(heap.node) \in Nat
    BY <2>1, LenProperties DEF Located, Heaps
  <2> QED  BY <2>1, <2>2 DEF SndListInv
<1>1. ASSUME UNCHANGED <<heap, signalling, pc>> PROVE SndListInv'
  BY <1>0, <1>1 DEF SndListInv
<1>2. ASSUME heap' = heap, pc' = "next" PROVE SndListInv'
  BY <1>0, <1>2 DEF SndListInv
<1>3. ASSUME NEW s \in Sockets, NEW reschedule, GiveWork(s, reschedule)
      PROVE  SndListInv'
  <2>1. ~signalling /\ pc' = pc /\ Update(s, reschedule)
    BY <1>3 DEF GiveWork
  <2>2. CASE UpdateOff(s)
    <3>1. ~OnHeap(heap, s) /\ Insert(heap, Immediately, s, FALSE)
      BY <2>2 DEF UpdateOff
    <3>2. Located(heap', {}) /\ (Len(heap.node) = 0 => signalling')
      BY <1>0, <3>1, InsertKeeps
    <3> QED  BY <1>0, <2>1, <3>2 DEF SndListInv
  <2>3. CASE UNCHANGED <<heap, signalling>>
    BY <1>1, <2>1, <2>3
  <2>4. CASE /\ OnHeap(heap, s) /\ Root(heap) # s
             /\ LET h == Removed(heap, stamp, s)
                IN  Insert(h, Immediately, s, HeapSize(h) = 1)
    <3>1. PICK h : h = Removed(heap, stamp, s)
      OBVIOUS
    <3>2. Located(h, {}) /\ ~OnHeap(h, s)
      BY <1>0, <2>4, <3>1, RemovedLocated
    <3>3. Insert(h, Immediately, s, HeapSize(h) = 1)
      BY <2>4, <3>1
    <3>4. Located(heap', {})
      BY <3>2, <3>3, InsertKeeps
    <3>5. Len(heap.node) # 0
      <4>1. heap.loc[s] \in 1 .. Len(heap.node)
        BY <1>0, <2>4 DEF Located, OnHeap
      <4> QED  BY <1>0, <4>1
    <3> QED  BY <1>0, <2>1, <3>4, <3>5 DEF SndListInv
  <2> QED  BY <2>1, <2>2, <2>3, <2>4 DEF Update, listVars
<1>4. ASSUME NEW s \in Sockets, CloseRemove(s)
      PROVE  SndListInv'
  <2>1. /\ heap' = IF OnHeap(heap, s) THEN Removed(heap, stamp, s) ELSE heap
        /\ pc' = pc /\ signalling' = signalling
    BY <1>4 DEF CloseRemove
  <2>2. CASE OnHeap(heap, s)
    <3>1. Located(heap', {}) /\ Len(heap'.node) = Len(heap.node) - 1
      BY <1>0, <2>1, <2>2, RemovedLocated
    <3>2. Len(heap.node) # 0
      <4>1. heap.loc[s] \in 1 .. Len(heap.node)
        BY <1>0, <2>2 DEF Located, OnHeap
      <4> QED  BY <1>0, <4>1
    <3> QED  BY <1>0, <2>1, <3>1, <3>2 DEF SndListInv
  <2>3. CASE ~OnHeap(heap, s)
    BY <1>1, <2>1, <2>3
  <2> QED  BY <2>2, <2>3
<1>5. CASE Pop
  <2>1. pc' = "next"
    BY <1>5 DEF Pop
  <2>2. CASE UNCHANGED heap
    BY <1>2, <2>1, <2>2
  <2>3. ASSUME FirstIsDue, NEW s, NEW h, s = Root(heap), h = Removed(heap, stamp, s),
               \/ heap' = h
               \/ \E ts \in now .. (now + Interval) : ListedAgain(h, s, ts)
        PROVE  SndListInv'
    <3>1. s \in Sockets /\ OnHeap(heap, s)
      BY <1>0, <2>3, RootOnHeap DEF FirstIsDue
    <3>2. Located(h, {}) /\ ~OnHeap(h, s)
      BY <1>0, <2>3, <3>1, RemovedLocated
    <3>3. ASSUME NEW ts, ListedAgain(h, s, ts)
          PROVE  Located(heap', {})
      <4>1. Insert(h, ts, s, HeapSize(h) = 1)
        BY <3>3 DEF ListedAgain
      <4> QED  BY <3>1, <3>2, <4>1, InsertKeeps
    <3>4. Located(heap', {})
      BY <2>3, <3>2, <3>3
    <3> QED  BY <2>1, <3>4 DEF SndListInv
  <2> QED  BY <1>5, <2>2, <2>3 DEF Pop, Unlisted, listVars
<1>6. CASE Window
  <2>1. /\ UNCHANGED <<heap, signalling>>
        /\ pc' = IF Len(heap.node) = 0 THEN "wait" ELSE "next"
    BY <1>6 DEF Window, WaitIfEmpty, HeapSize, listVars
  <2> QED  BY <1>0, <2>1 DEF SndListInv
<1>7. CASE Signal
  <2>1. heap' = heap /\ pc' = IF pc = "wait" THEN "next" ELSE pc
    BY <1>7 DEF Signal
  <2> QED  BY <1>0, <2>1 DEF SndListInv
<1>8. CASE GetNextProcTime \/ SleepTo \/ Wake
  <2>1. UNCHANGED <<heap, signalling>> /\ pc' # "wait"
    BY <1>8 DEF GetNextProcTime, SleepTo, Wake, listVars
  <2> QED  BY <1>0, <2>1 DEF SndListInv
<1>9. CASE Tick \/ \E s \in Sockets : CloseDone(s)
  BY <1>1, <1>9 DEF Tick, CloseDone, listVars
<1>10. CASE UNCHANGED vars
  BY <1>1, <1>10 DEF vars, listVars
<1> QED  BY <1>3, <1>4, <1>5, <1>6, <1>7, <1>8, <1>9, <1>10 DEF Next, Worker

\* CSndUList starts empty.
LEMMA SndListStart == Init => SndListInv
<1> SUFFICES ASSUME Init PROVE SndListInv
  OBVIOUS
<1>1. heap.node = <<>> /\ heap.loc = [s \in Sockets |-> NotOnHeap] /\ pc = "next"
  BY DEF Init
<1>2. heap \in Heaps
  BY DEF Init, Heaps, NotOnHeap
<1> QED  BY <1>1, <1>2 DEF SndListInv, Located

\* m_iHeapLoc is where a socket is on the heap, -1 where it is not, after any
\* insertions, removals and reschedulings: no method moves or removes another
\* socket than the one it is called for.
THEOREM HeapIsIndexed == Spec => []LocationsExact
<1>1. SndListInv => LocationsExact
  <2> SUFFICES ASSUME SndListInv PROVE LocationsExact
    OBVIOUS
  <2>1. heap.node \in Seq(Sockets) /\ DOMAIN heap.node = 1 .. Len(heap.node)
    BY LenProperties DEF SndListInv, Located, Heaps
  <2> QED  BY <2>1 DEF SndListInv, Located, LocationsExact, OnHeap
<1> QED  BY <1>1, SndListStart, SndListStep, PTL DEF Spec

\* The worker waits for a signal only with an empty heap, or with that signal
\* under way: it never sleeps on what an insertion has just brought.
THEOREM WorkerNotStranded == Spec => []NoneStranded
<1>1. SndListInv => NoneStranded
  <2>1. SndListInv => (pc = "wait" /\ ~signalling => Len(heap.node) = 0)
    BY DEF SndListInv
  <2> QED  BY <2>1 DEF NoneStranded, HeapSize
<1> QED  BY <1>1, SndListStart, SndListStep, PTL DEF Spec
-----------------------------------------------------------------------------
(* The list of the receiving side.                                         *)

NodeType == [prev : Links, next : Links, onList : BOOLEAN, age : Nat]
Lists == [n : [RcvSockets -> NodeType], first : Links, last : Links]

\* The links hold the sockets of L, in one chain from the first to the last:
\* the ranks, which rise along the links, exclude a circle beside it.
Chained(l, L, rank) ==
    /\ l \in Lists /\ L \subseteq RcvSockets /\ rank \in [RcvSockets -> Int]
    /\ \A u \in L :
        /\ l.n[u].onList
        /\ l.n[u].prev \in L \cup {NoNode} /\ l.n[u].next \in L \cup {NoNode}
        /\ l.n[u].next = NoNode <=> l.last = u
        /\ l.n[u].prev = NoNode <=> l.first = u
        /\ l.n[u].next # NoNode => /\ l.n[l.n[u].next].prev = u
                                   /\ l.n[u].age >= l.n[l.n[u].next].age
                                   /\ rank[u] < rank[l.n[u].next]
        /\ l.n[u].prev # NoNode => l.n[l.n[u].prev].next = u
    /\ l.first \in L \cup {NoNode} /\ l.last \in L \cup {NoNode}
    /\ l.first = NoNode <=> L = {}
    /\ l.last = NoNode <=> L = {}

Linked(l, L) == \E rank \in [RcvSockets -> Int] : Chained(l, L, rank)

\* A change of the list changes no mark of its nodes.
SameMarks(l, k) == \A u \in RcvSockets : k.n[u].onList = l.n[u].onList

\* No socket has the number 0.
LEMMA NoSocket == NoNode \notin RcvSockets
BY RcvUListAssumption DEF NoNode

\* The chain ends where it has a node that is both first and last.
LEMMA OnlyNode ==
  ASSUME NEW l, NEW L, NEW rank, Chained(l, L, rank), NEW u \in L,
         l.n[u].prev = NoNode, l.n[u].next = NoNode
  PROVE  L = {u}
<1> SUFFICES ASSUME L # {u} PROVE FALSE
  OBVIOUS
<1>1. /\ L \subseteq RcvSockets /\ rank \in [RcvSockets -> Int]
      /\ \A v \in L :
            /\ l.n[v].next \in L \cup {NoNode}
            /\ l.n[v].next = NoNode <=> l.last = v
            /\ l.n[v].next # NoNode => /\ l.n[l.n[v].next].prev = v
                                       /\ rank[v] < rank[l.n[v].next]
  BY DEF Chained
<1>2. PICK K : K = L \ {u}
  OBVIOUS
<1>3. IsFiniteSet(K) /\ K # {} /\ \A w \in K : rank[w] \in Int
  <2>1. K \subseteq L
    BY ONLY <1>2
  <2>2. K \in SUBSET RcvSockets
    BY ONLY <1>1, <2>1
  <2>3. IsFiniteSet(RcvSockets)
    BY RcvUListAssumption
  <2>4. IsFiniteSet(K)
    BY ONLY <2>2, <2>3, FS_Subset
  <2>5. \A w \in K : rank[w] \in Int
    BY ONLY <1>1, <2>2
  <2>6. K # {}
    BY <1>2
  <2> QED  BY ONLY <2>4, <2>5, <2>6
<1>4. PICK v \in K : \A w \in K : rank[w] <= rank[v]
  BY <1>3, GreatestBy
<1>5. l.n[v].next # NoNode
  BY <1>1, <1>2
<1>6. l.n[v].next \in L /\ rank[v] < rank[l.n[v].next]
  BY <1>1, <1>2, <1>5, NoSocket
<1>7. l.n[v].next = u
  <2>1. rank[v] \in Int /\ rank[l.n[v].next] \in Int
    BY <1>1, <1>2, <1>6
  <2> QED  BY <1>2, <1>4, <1>6, <2>1
<1>8. l.n[u].prev = v
  BY <1>1, <1>2, <1>5, <1>7
<1> QED  BY <1>1, <1>2, <1>8, NoSocket

\* A node that leaves the list.
LEMMA RemoveChained ==
  ASSUME NEW l, NEW L, NEW rank, Chained(l, L, rank), NEW u \in L
  PROVE  Chained(RemoveNode(l, u), L \ {u}, rank) /\ SameMarks(l, RemoveNode(l, u))
<1> DEFINE p == l.n[u].prev
           q == l.n[u].next
<1>1. PICK r : r = RemoveNode(l, u)
  OBVIOUS
<1>2. /\ L \subseteq RcvSockets /\ rank \in [RcvSockets -> Int]
      /\ l.n \in [RcvSockets -> NodeType] /\ l.first \in Links /\ l.last \in Links
  BY DEF Chained, Lists
<1>3. \A v \in RcvSockets : /\ l.n[v].prev \in Links /\ l.n[v].next \in Links
                            /\ l.n[v].onList \in BOOLEAN /\ l.n[v].age \in Nat
  BY <1>2 DEF NodeType
<1>4. p \in Links /\ q \in Links
  BY <1>2, <1>3
<1>5. r = [n |-> [v \in RcvSockets |->
                    [l.n[v] EXCEPT
                       !.next = IF v = u THEN NoNode ELSE IF v = p THEN q ELSE @,
                       !.prev = IF v = u THEN NoNode ELSE IF v = q THEN p ELSE @]],
           first |-> IF p = NoNode THEN q ELSE l.first,
           last |-> IF q = NoNode THEN p ELSE l.last]
  BY <1>1, <1>2 DEF RemoveNode
<1> HIDE DEF p, q
<1>6. \A v \in RcvSockets :
         /\ r.n[v].next = (IF v = u THEN NoNode ELSE IF v = p THEN q ELSE l.n[v].next)
         /\ r.n[v].prev = (IF v = u THEN NoNode ELSE IF v = q THEN p ELSE l.n[v].prev)
         /\ r.n[v].onList = l.n[v].onList /\ r.n[v].age = l.n[v].age
  <2> TAKE v \in RcvSockets
  <2>1. l.n[v] \in NodeType
    BY <1>2
  <2>2. r.n[v] = [l.n[v] EXCEPT
                       !.next = IF v = u THEN NoNode ELSE IF v = p THEN q ELSE @,
                       !.prev = IF v = u THEN NoNode ELSE IF v = q THEN p ELSE @]
    BY <1>5
  <2> QED  BY <2>1, <2>2 DEF NodeType
<1>7. r \in Lists
  <2>1. ASSUME NEW v \in RcvSockets PROVE r.n[v] \in NodeType
    <3>1. l.n[v] \in NodeType
      BY <1>2
    <3>2. r.n[v] = [l.n[v] EXCEPT
                         !.next = IF v = u THEN NoNode ELSE IF v = p THEN q ELSE @,
                         !.prev = IF v = u THEN NoNode ELSE IF v = q THEN p ELSE @]
      BY <1>5
    <3> QED  BY <1>4, <3>1, <3>2 DEF NodeType, Links
  <2>2. r.first \in Links /\ r.last \in Links
    BY <1>2, <1>4, <1>5
  <2>3. r.n \in [RcvSockets -> NodeType]
    BY <1>5, <2>1
  <2> QED  BY <1>5, <2>2, <2>3 DEF Lists
<1>8. r.first = (IF p = NoNode THEN q ELSE l.first) /\ r.last = (IF q = NoNode THEN p ELSE l.last)
  BY <1>5
<1>9. /\ \A v \in L :
            /\ l.n[v].onList
            /\ l.n[v].prev \in L \cup {NoNode} /\ l.n[v].next \in L \cup {NoNode}
            /\ l.n[v].next = NoNode <=> l.last = v
            /\ l.n[v].prev = NoNode <=> l.first = v
            /\ l.n[v].next # NoNode => /\ l.n[l.n[v].next].prev = v
                                       /\ l.n[v].age >= l.n[l.n[v].next].age
                                       /\ rank[v] < rank[l.n[v].next]
            /\ l.n[v].prev # NoNode => l.n[l.n[v].prev].next = v
      /\ l.first \in L \cup {NoNode} /\ l.last \in L \cup {NoNode}
      /\ l.first = NoNode <=> L = {}
      /\ l.last = NoNode <=> L = {}
  BY DEF Chained
<1>10. /\ p \in L \cup {NoNode} /\ q \in L \cup {NoNode}
       /\ p # NoNode => l.n[p].next = u
       /\ q # NoNode => l.n[q].prev = u /\ l.n[u].age >= l.n[q].age /\ rank[u] < rank[q]
       /\ p # NoNode => l.n[p].age >= l.n[u].age /\ rank[p] < rank[u]
       /\ q = NoNode <=> l.last = u
       /\ p = NoNode <=> l.first = u
  <2>1. /\ p \in L \cup {NoNode} /\ q \in L \cup {NoNode}
        /\ p # NoNode => l.n[p].next = u
        /\ q # NoNode => l.n[q].prev = u /\ l.n[u].age >= l.n[q].age /\ rank[u] < rank[q]
        /\ q = NoNode <=> l.last = u
        /\ p = NoNode <=> l.first = u
    BY <1>9 DEF p, q
  <2>2. u # NoNode
    BY <1>2, NoSocket
  <2>3. p # NoNode => l.n[p].age >= l.n[u].age /\ rank[p] < rank[u]
    BY <1>9, <2>1, <2>2
  <2> QED  BY <2>1, <2>3
<1>11. \A v \in RcvSockets : rank[v] \in Int
  BY <1>2
<1>12. p # u /\ q # u /\ (p = q => p = NoNode)
  <2>1. u # NoNode /\ u \in RcvSockets
    BY <1>2, NoSocket
  <2>2. p # NoNode => p \in RcvSockets
    BY <1>2, <1>10
  <2>3. q # NoNode => q \in RcvSockets
    BY <1>2, <1>10
  <2> QED  BY <1>10, <1>11, <2>1, <2>2, <2>3
<1>13. p = NoNode /\ q = NoNode => L = {u}
  BY OnlyNode DEF p, q
<1>14. NoNode \notin L
  BY <1>2, NoSocket
<1>15. ASSUME NEW v \in L \ {u}
       PROVE  /\ r.n[v].onList
              /\ r.n[v].prev \in (L \ {u}) \cup {NoNode} /\ r.n[v].next \in (L \ {u}) \cup {NoNode}
              /\ r.n[v].next = NoNode <=> r.last = v
              /\ r.n[v].prev = NoNode <=> r.first = v
              /\ r.n[v].next # NoNode => /\ r.n[r.n[v].next].prev = v
                                         /\ r.n[v].age >= r.n[r.n[v].next].age
                                         /\ rank[v] < rank[r.n[v].next]
              /\ r.n[v].prev # NoNode => r.n[r.n[v].prev].next = v
  <2>1. v \in RcvSockets /\ v # NoNode
    BY <1>2, <1>14
  <2>2. /\ r.n[v].next = (IF v = p THEN q ELSE l.n[v].next)
        /\ r.n[v].prev = (IF v = q THEN p ELSE l.n[v].prev)
        /\ r.n[v].onList = l.n[v].onList /\ r.n[v].age = l.n[v].age
    BY <1>6, <2>1
  <2>3. l.n[v].onList
    BY <1>9
  <2>4. v # p => l.n[v].next # u
    BY <1>9, <1>14 DEF p
  <2>5. v # q => l.n[v].prev # u
    BY <1>9, <1>14 DEF q
  <2>6. r.n[v].prev \in (L \ {u}) \cup {NoNode} /\ r.n[v].next \in (L \ {u}) \cup {NoNode}
    BY <1>9, <1>10, <1>12, <2>2, <2>4, <2>5
  <2>7. r.n[v].next = NoNode <=> r.last = v
    <3>1. l.n[v].next = NoNode <=> l.last = v
      BY <1>9
    <3>2. CASE v = p
      <4>1. l.last # v
        BY <1>2, <1>10, <1>14, <2>1, <3>1, <3>2
      <4> QED  BY <1>8, <2>1, <2>2, <3>2, <4>1
    <3>3. CASE v # p
      <4>1. q = NoNode => l.last # v
        BY <1>10
      <4> QED  BY <1>8, <2>2, <3>1, <3>3, <4>1
    <3> QED  BY <3>2, <3>3
  <2>8. r.n[v].prev = NoNode <=> r.first = v
    <3>1. l.n[v].prev = NoNode <=> l.first = v
      BY <1>9
    <3>2. CASE v = q
      <4>1. l.first # v
        BY <1>2, <1>10, <1>14, <2>1, <3>1, <3>2
      <4> QED  BY <1>8, <2>1, <2>2, <3>2, <4>1
    <3>3. CASE v # q
      <4>1. p = NoNode => l.first # v
        BY <1>10
      <4> QED  BY <1>8, <2>2, <3>1, <3>3, <4>1
    <3> QED  BY <3>2, <3>3
  <2>9. ASSUME r.n[v].next # NoNode
        PROVE  /\ r.n[r.n[v].next].prev = v
               /\ r.n[v].age >= r.n[r.n[v].next].age
               /\ rank[v] < rank[r.n[v].next]
    <3>1. PICK w : w = r.n[v].next
      OBVIOUS
    <3>2. w \in L \ {u} /\ w \in RcvSockets
      BY <1>2, <2>6, <2>9, <3>1
    <3>3. r.n[w].prev = (IF w = q THEN p ELSE l.n[w].prev) /\ r.n[w].age = l.n[w].age
      BY <1>6, <3>2
    <3>4. CASE v = p
      <4>1. w = q /\ q # NoNode
        BY <2>2, <2>9, <3>1, <3>4
      <4>2. l.n[p].age >= l.n[u].age /\ l.n[u].age >= l.n[q].age /\ rank[p] < rank[u] /\ rank[u] < rank[q]
        BY <1>10, <2>1, <3>4, <4>1
      <4>3. l.n[p].age \in Nat /\ l.n[u].age \in Nat /\ l.n[q].age \in Nat
            /\ rank[p] \in Int /\ rank[u] \in Int /\ rank[q] \in Int
        BY <1>2, <1>3, <1>11, <2>1, <3>2, <3>4, <4>1
      <4>4. l.n[p].age >= l.n[q].age /\ rank[p] < rank[q]
        BY ONLY <4>2, <4>3
      <4> QED  BY <2>2, <3>1, <3>3, <3>4, <4>1, <4>4
    <3>5. CASE v # p
      <4>1. w = l.n[v].next /\ w # NoNode
        BY <2>2, <2>9, <3>1, <3>5
      <4>2. l.n[w].prev = v /\ l.n[v].age >= l.n[w].age /\ rank[v] < rank[w]
        BY <1>9, <4>1
      <4>3. w # q
        BY <1>10, <2>1, <4>1, <4>2
      <4> QED  BY <2>2, <3>1, <3>3, <4>2, <4>3
    <3> QED  BY <3>4, <3>5
  <2>10. ASSUME r.n[v].prev # NoNode
         PROVE  r.n[r.n[v].prev].next = v
    <3>1. PICK w : w = r.n[v].prev
      OBVIOUS
    <3>2. w \in L \ {u} /\ w \in RcvSockets
      BY <1>2, <2>6, <2>10, <3>1
    <3>3. r.n[w].next = (IF w = p THEN q ELSE l.n[w].next)
      BY <1>6, <3>2
    <3>4. CASE v = q
      BY <2>2, <3>1, <3>3, <3>4
    <3>5. CASE v # q
      <4>1. w = l.n[v].prev /\ w # NoNode
        BY <2>2, <2>10, <3>1, <3>5
      <4>2. l.n[w].next = v
        BY <1>9, <4>1
      <4>3. w # p
        BY <1>10, <4>1, <4>2
      <4> QED  BY <3>1, <3>3, <4>2, <4>3
    <3> QED  BY <3>4, <3>5
  <2> QED  BY <2>2, <2>3, <2>6, <2>7, <2>8, <2>9, <2>10
<1>16. /\ r.first \in (L \ {u}) \cup {NoNode} /\ r.last \in (L \ {u}) \cup {NoNode}
       /\ r.first = NoNode <=> L \ {u} = {}
       /\ r.last = NoNode <=> L \ {u} = {}
  <2>1. CASE p = NoNode /\ q = NoNode
    BY <1>8, <1>13, <2>1
  <2>2. CASE p = NoNode /\ q # NoNode
    <3>1. q \in L \ {u} /\ r.first = q /\ r.last = l.last /\ l.last # u
      BY <1>8, <1>10, <1>12, <2>2
    <3> QED  BY <1>9, <2>2, <3>1
  <2>3. CASE p # NoNode /\ q = NoNode
    <3>1. p \in L \ {u} /\ r.last = p /\ r.first = l.first /\ l.first # u
      BY <1>8, <1>10, <1>12, <2>3
    <3> QED  BY <1>9, <2>3, <3>1
  <2>4. CASE p # NoNode /\ q # NoNode
    <3>1. p \in L \ {u} /\ r.last = l.last /\ r.first = l.first /\ l.first # u /\ l.last # u
      BY <1>8, <1>10, <1>12, <2>4
    <3> QED  BY <1>9, <3>1
  <2> QED  BY <2>1, <2>2, <2>3, <2>4
<1>17. Chained(r, L \ {u}, rank)
  BY <1>2, <1>7, <1>15, <1>16 DEF Chained
<1> QED  BY <1>1, <1>6, <1>17 DEF SameMarks
\* A node that joins the list at its end, whatever its links were.
LEMMA InsertLinked ==
  ASSUME NEW l, NEW L, Linked(l, L), NEW u \in RcvSockets \ L, l.n[u].onList
  PROVE  Linked(InsertNode(l, u), L \cup {u}) /\ SameMarks(l, InsertNode(l, u))
<1> PICK rank \in [RcvSockets -> Int] : Chained(l, L, rank)
  BY DEF Linked
<1> DEFINE z == l.last
<1>1. PICK r : r = InsertNode(l, u)
  OBVIOUS
<1>2. /\ L \subseteq RcvSockets
      /\ l.n \in [RcvSockets -> NodeType] /\ l.first \in Links /\ l.last \in Links
  BY DEF Chained, Lists
<1>3. \A v \in RcvSockets : /\ l.n[v].prev \in Links /\ l.n[v].next \in Links
                            /\ l.n[v].onList \in BOOLEAN /\ l.n[v].age \in Nat
  BY <1>2 DEF NodeType
<1>4. /\ \A v \in L :
            /\ l.n[v].onList
            /\ l.n[v].prev \in L \cup {NoNode} /\ l.n[v].next \in L \cup {NoNode}
            /\ l.n[v].next = NoNode <=> l.last = v
            /\ l.n[v].prev = NoNode <=> l.first = v
            /\ l.n[v].next # NoNode => /\ l.n[l.n[v].next].prev = v
                                       /\ l.n[v].age >= l.n[l.n[v].next].age
                                       /\ rank[v] < rank[l.n[v].next]
            /\ l.n[v].prev # NoNode => l.n[l.n[v].prev].next = v
      /\ l.first \in L \cup {NoNode} /\ l.last \in L \cup {NoNode}
      /\ l.first = NoNode <=> L = {}
      /\ l.last = NoNode <=> L = {}
  BY DEF Chained
<1>5. NoNode \notin L /\ u # NoNode /\ u \in RcvSockets /\ u \notin L
  BY <1>2, NoSocket
<1>6. /\ r.n \in [RcvSockets -> NodeType]
      /\ \A v \in RcvSockets :
            /\ r.n[v].next = (IF v = u THEN NoNode ELSE IF v = z THEN u ELSE l.n[v].next)
            /\ r.n[v].prev = (IF v = u THEN z ELSE l.n[v].prev)
            /\ r.n[v].onList = l.n[v].onList
            /\ r.n[v].age = (IF v = u THEN 0 ELSE l.n[v].age)
      /\ r.first = (IF L = {} THEN u ELSE l.first) /\ r.last = u
      /\ r = [n |-> r.n, first |-> r.first, last |-> r.last]
  <2> DEFINE a == [l.n[u] EXCEPT !.prev = z, !.next = NoNode, !.age = 0]
             b == [l.n[z] EXCEPT !.next = u]
  <2>1. /\ a \in NodeType /\ a.prev = z /\ a.next = NoNode /\ a.age = 0
        /\ a.onList = l.n[u].onList
    <3>1. l.n[u] \in NodeType
      BY <1>2, <1>5
    <3> QED  BY <1>2, <3>1 DEF NodeType, Links
  <2>2. CASE L = {}
    <3>1. z = NoNode /\ l.first = NoNode
      BY <1>4, <2>2
    <3>2. r = [n |-> [l.n EXCEPT ![u] = a], first |-> u, last |-> u]
      BY <1>1, <3>1 DEF InsertNode, AtEnd
    <3> HIDE DEF a
    <3>3. /\ r.n \in [RcvSockets -> NodeType]
          /\ \A v \in RcvSockets : r.n[v] = IF v = u THEN a ELSE l.n[v]
      BY <1>2, <1>5, <2>1, <3>2
    <3> QED  BY <1>5, <2>1, <2>2, <3>1, <3>2, <3>3, NoSocket
  <2>3. CASE L # {}
    <3>1. z \in L /\ l.first # NoNode /\ z \in RcvSockets /\ z # u
      BY <1>2, <1>4, <1>5, <2>3
    <3>2. b \in NodeType /\ b.prev = l.n[z].prev /\ b.next = u /\ b.age = l.n[z].age
          /\ b.onList = l.n[z].onList
      <4>1. l.n[z] \in NodeType
        BY <1>2, <3>1
      <4> QED  BY <1>5, <4>1 DEF NodeType, Links
    <3>3. r = [n |-> [l.n EXCEPT ![u] = a, ![z] = b], first |-> l.first, last |-> u]
      <4>1. r = [n |-> [l.n EXCEPT ![u] = AtEnd(l.n[u], z), ![z] = [l.n[z] EXCEPT !.next = u]],
                 first |-> l.first, last |-> u]
        <5>1. r = [n |-> [l.n EXCEPT ![u] = AtEnd(@, z), ![z] = [@ EXCEPT !.next = u]],
                   first |-> l.first, last |-> u]
          BY <1>1, <3>1 DEF InsertNode
        <5> QED  BY <3>1, <5>1, Zenon
      <4> QED  BY <4>1 DEF AtEnd
    <3> HIDE DEF a, b
    <3>4. /\ r.n \in [RcvSockets -> NodeType]
          /\ \A v \in RcvSockets : r.n[v] = IF v = z THEN b ELSE IF v = u THEN a ELSE l.n[v]
      BY <1>2, <1>5, <2>1, <3>1, <3>2, <3>3
    <3> QED  BY <1>5, <2>1, <2>3, <3>1, <3>2, <3>3, <3>4
  <2> QED  BY <2>2, <2>3
<1>7. r \in Lists
  <2>1. r.first \in Links /\ r.last \in Links
    BY <1>2, <1>5, <1>6 DEF Links
  <2> QED  BY <1>6, <2>1 DEF Lists
<1> DEFINE above == IF L = {} THEN 0 ELSE rank[z] + 1
           ord == [v \in RcvSockets |-> IF v = u THEN above ELSE rank[v]]
<1>8. z \in L \cup {NoNode} /\ (z = NoNode <=> L = {})
  BY <1>4
<1>9. /\ ord \in [RcvSockets -> Int] /\ ord[u] = above
      /\ \A v \in L : ord[v] = rank[v] /\ rank[v] \in Int
  <2>1. above \in Int
    BY <1>2, <1>8
  <2> HIDE DEF above
  <2> QED  BY <1>2, <1>5, <2>1
<1>10. L # {} => rank[z] < above
  BY <1>2, <1>8
<1> HIDE DEF ord, above
<1>11. ASSUME NEW v \in L
       PROVE  /\ r.n[v].onList
              /\ r.n[v].prev \in (L \cup {u}) \cup {NoNode} /\ r.n[v].next \in (L \cup {u}) \cup {NoNode}
              /\ r.n[v].next = NoNode <=> r.last = v
              /\ r.n[v].prev = NoNode <=> r.first = v
              /\ r.n[v].next # NoNode => /\ r.n[r.n[v].next].prev = v
                                         /\ r.n[v].age >= r.n[r.n[v].next].age
                                         /\ ord[v] < ord[r.n[v].next]
              /\ r.n[v].prev # NoNode => r.n[r.n[v].prev].next = v
  <2>1. v \in RcvSockets /\ v # NoNode /\ v # u
    BY <1>2, <1>5
  <2>2. /\ r.n[v].next = (IF v = z THEN u ELSE l.n[v].next)
        /\ r.n[v].prev = l.n[v].prev
        /\ r.n[v].onList = l.n[v].onList /\ r.n[v].age = l.n[v].age
    BY <1>6, <2>1
  <2>3. /\ r.n[v].onList
        /\ r.n[v].prev \in (L \cup {u}) \cup {NoNode} /\ r.n[v].next \in (L \cup {u}) \cup {NoNode}
        /\ r.n[v].next = NoNode <=> r.last = v
    BY <1>4, <1>5, <1>6, <2>1, <2>2
  <2>4. r.n[v].prev = NoNode <=> r.first = v
    BY <1>4, <1>6, <2>2
  <2>5. ASSUME r.n[v].next # NoNode
        PROVE  /\ r.n[r.n[v].next].prev = v
               /\ r.n[v].age >= r.n[r.n[v].next].age
               /\ ord[v] < ord[r.n[v].next]
    <3>1. CASE v = z
      <4>1. r.n[v].next = u
        BY <2>2, <3>1
      <4>2. r.n[u].prev = v /\ r.n[u].age = 0 /\ l.n[v].age \in Nat
        BY <1>3, <1>5, <1>6, <2>1, <3>1
      <4>3. ord[v] < ord[u]
        BY <1>8, <1>9, <1>10, <3>1
      <4>4. r.n[v].age >= 0
        BY <2>2, <4>2
      <4> QED  BY <4>1, <4>2, <4>3, <4>4
    <3>2. CASE v # z
      <4>1. PICK w : w = l.n[v].next
        OBVIOUS
      <4>2. w \in L /\ w \in RcvSockets /\ w # u /\ r.n[v].next = w
        BY <1>2, <1>4, <1>5, <2>2, <2>5, <3>2, <4>1
      <4>3. l.n[w].prev = v /\ l.n[v].age >= l.n[w].age /\ rank[v] < rank[w]
        BY <1>4, <1>5, <4>1, <4>2
      <4>4. r.n[w].prev = v /\ r.n[w].age = l.n[w].age
        BY <1>6, <4>2, <4>3
      <4> QED  BY <1>9, <2>2, <4>2, <4>3, <4>4
    <3> QED  BY <3>1, <3>2
  <2>6. ASSUME r.n[v].prev # NoNode
        PROVE  r.n[r.n[v].prev].next = v
    <3>1. PICK w : w = l.n[v].prev
      OBVIOUS
    <3>2. w \in L /\ w \in RcvSockets /\ w # u /\ l.n[w].next = v
      BY <1>2, <1>4, <1>5, <2>2, <2>6, <3>1
    <3>3. w # z
      BY <1>4, <1>5, <3>2
    <3> QED  BY <1>6, <2>2, <3>1, <3>2, <3>3
  <2> QED  BY <2>3, <2>4, <2>5, <2>6
<1>12. /\ r.n[u].onList
       /\ r.n[u].prev \in (L \cup {u}) \cup {NoNode} /\ r.n[u].next = NoNode
       /\ r.last = u
       /\ r.n[u].prev = NoNode <=> r.first = u
       /\ r.n[u].prev # NoNode => r.n[r.n[u].prev].next = u
  <2>1. /\ r.n[u].next = NoNode /\ r.n[u].prev = z /\ r.n[u].onList = l.n[u].onList
        /\ r.last = u
    BY <1>5, <1>6
  <2>2. z = NoNode <=> r.first = u
    BY <1>4, <1>5, <1>6, <1>8
  <2>3. z # NoNode => r.n[z].next = u
    BY <1>2, <1>5, <1>6, <1>8
  <2> QED  BY <1>8, <2>1, <2>2, <2>3
<1>13. /\ r.first \in (L \cup {u}) \cup {NoNode} /\ r.last \in (L \cup {u}) \cup {NoNode}
       /\ r.first # NoNode /\ r.last # NoNode /\ L \cup {u} # {}
  BY <1>4, <1>5, <1>6
<1>14. L \cup {u} \subseteq RcvSockets
  BY <1>2, <1>5
<1>15. Chained(r, L \cup {u}, ord)
  <2>1. \A v \in L \cup {u} :
            /\ r.n[v].onList
            /\ r.n[v].prev \in (L \cup {u}) \cup {NoNode} /\ r.n[v].next \in (L \cup {u}) \cup {NoNode}
            /\ r.n[v].next = NoNode <=> r.last = v
            /\ r.n[v].prev = NoNode <=> r.first = v
            /\ r.n[v].next # NoNode => /\ r.n[r.n[v].next].prev = v
                                       /\ r.n[v].age >= r.n[r.n[v].next].age
                                       /\ ord[v] < ord[r.n[v].next]
            /\ r.n[v].prev # NoNode => r.n[r.n[v].prev].next = v
    <3> TAKE v \in L \cup {u}
    <3>1. CASE v \in L
      BY <1>11, <3>1
    <3>2. CASE v = u
      BY <1>12, <3>2
    <3> QED  BY <3>1, <3>2
  <2> QED  BY <1>7, <1>9, <1>13, <1>14, <2>1 DEF Chained
<1> QED  BY <1>1, <1>6, <1>9, <1>15 DEF Linked, SameMarks
\* The same links, whatever becomes of the nodes off the list, with ages that
\* fall along them.
LEMMA SameLinks ==
  ASSUME NEW l, NEW L, Linked(l, L), NEW k \in Lists, k.first = l.first, k.last = l.last,
         \A v \in L : /\ k.n[v].prev = l.n[v].prev /\ k.n[v].next = l.n[v].next
                      /\ k.n[v].onList = l.n[v].onList
                      /\ l.n[v].next # NoNode => k.n[v].age >= k.n[l.n[v].next].age
  PROVE  Linked(k, L)
<1> PICK rank \in [RcvSockets -> Int] : Chained(l, L, rank)
  BY DEF Linked
<1>1. /\ L \subseteq RcvSockets
      /\ \A v \in L :
            /\ l.n[v].onList
            /\ l.n[v].prev \in L \cup {NoNode} /\ l.n[v].next \in L \cup {NoNode}
            /\ l.n[v].next = NoNode <=> l.last = v
            /\ l.n[v].prev = NoNode <=> l.first = v
            /\ l.n[v].next # NoNode => /\ l.n[l.n[v].next].prev = v
                                       /\ rank[v] < rank[l.n[v].next]
            /\ l.n[v].prev # NoNode => l.n[l.n[v].prev].next = v
      /\ l.first \in L \cup {NoNode} /\ l.last \in L \cup {NoNode}
      /\ l.first = NoNode <=> L = {}
      /\ l.last = NoNode <=> L = {}
  BY DEF Chained
<1>2. \A v \in L :
          /\ k.n[v].onList
          /\ k.n[v].prev \in L \cup {NoNode} /\ k.n[v].next \in L \cup {NoNode}
          /\ k.n[v].next = NoNode <=> k.last = v
          /\ k.n[v].prev = NoNode <=> k.first = v
          /\ k.n[v].next # NoNode => /\ k.n[k.n[v].next].prev = v
                                     /\ k.n[v].age >= k.n[k.n[v].next].age
                                     /\ rank[v] < rank[k.n[v].next]
          /\ k.n[v].prev # NoNode => k.n[k.n[v].prev].next = v
  <2> TAKE v \in L
  <2>1. PICK w : w = l.n[v].next
    OBVIOUS
  <2>2. PICK p : p = l.n[v].prev
    OBVIOUS
  <2>3. w # NoNode => w \in L /\ k.n[w].prev = v /\ k.n[v].age >= k.n[w].age /\ rank[v] < rank[w]
    BY <1>1, <2>1
  <2>4. p # NoNode => p \in L /\ k.n[p].next = v
    BY <1>1, <2>2
  <2> QED  BY <1>1, <2>1, <2>2, <2>3, <2>4
<1>3. Chained(k, L, rank)
  BY <1>1, <1>2 DEF Chained
<1> QED  BY <1>3 DEF Linked

\* A list with another node in place of one.
LEMMA WithNodeIs ==
  ASSUME NEW l \in Lists, NEW u \in RcvSockets, NEW node \in NodeType
  PROVE  /\ WithNode(l, u, node) \in Lists
         /\ \A v \in RcvSockets : WithNode(l, u, node).n[v] = IF v = u THEN node ELSE l.n[v]
         /\ WithNode(l, u, node).first = l.first /\ WithNode(l, u, node).last = l.last
BY DEF WithNode, Lists

\* A node whose timers were checked.
LEMMA UpdateLinked ==
  ASSUME NEW l, NEW L, Linked(l, L), NEW u \in L
  PROVE  Linked(UpdateNode(l, u), L) /\ SameMarks(l, UpdateNode(l, u))
<1> PICK rank \in [RcvSockets -> Int] : Chained(l, L, rank)
  BY DEF Linked
<1>1. /\ L \subseteq RcvSockets /\ l.n[u].onList /\ l \in Lists /\ u \in RcvSockets
      /\ \A v \in RcvSockets : l.n[v] \in NodeType
      /\ \A v \in L : l.n[v].next \in L \cup {NoNode}
      /\ \A v \in L : l.n[v].next # NoNode => l.n[v].age >= l.n[l.n[v].next].age
  BY DEF Chained, Lists
<1>2. CASE l.n[u].next = NoNode
  <2>1. PICK node : node = [l.n[u] EXCEPT !.age = 0]
    OBVIOUS
  <2>2. /\ node \in NodeType /\ node.prev = l.n[u].prev /\ node.next = l.n[u].next
        /\ node.onList = l.n[u].onList /\ node.age = 0
    BY <1>1, <2>1 DEF NodeType
  <2>3. PICK k : k = WithNode(l, u, node)
    OBVIOUS
  <2>4. UpdateNode(l, u) = k
    BY <1>1, <1>2, <2>1, <2>3 DEF UpdateNode
  <2>5. /\ k \in Lists /\ k.first = l.first /\ k.last = l.last
        /\ \A v \in RcvSockets : k.n[v] = IF v = u THEN node ELSE l.n[v]
    BY <1>1, <2>2, <2>3, WithNodeIs
  <2>6. \A v \in L : /\ k.n[v].prev = l.n[v].prev /\ k.n[v].next = l.n[v].next
                     /\ k.n[v].onList = l.n[v].onList
                     /\ l.n[v].next # NoNode => k.n[v].age >= k.n[l.n[v].next].age
    <3> TAKE v \in L
    <3>1. /\ k.n[v].prev = l.n[v].prev /\ k.n[v].next = l.n[v].next
          /\ k.n[v].onList = l.n[v].onList
      BY <1>1, <2>2, <2>5
    <3>2. ASSUME l.n[v].next # NoNode PROVE k.n[v].age >= k.n[l.n[v].next].age
      <4>1. PICK w : w = l.n[v].next
        OBVIOUS
      <4>2. w \in L /\ w \in RcvSockets /\ v # u /\ v \in RcvSockets
        BY <1>1, <1>2, <3>2, <4>1
      <4>3. k.n[v].age = l.n[v].age /\ l.n[v].age \in Nat
        BY <1>1, <2>5, <4>2 DEF NodeType
      <4>4. CASE w = u
        <5>1. k.n[w].age = 0
          BY <2>2, <2>5, <4>2, <4>4
        <5>2. k.n[v].age >= 0
          BY <4>3
        <5> QED  BY <4>1, <5>1, <5>2
      <4>5. CASE w # u
        <5>1. k.n[w].age = l.n[w].age
          BY <2>5, <4>2, <4>5
        <5> QED  BY <1>1, <3>2, <4>1, <4>3, <5>1
      <4> QED  BY <4>4, <4>5
    <3> QED  BY <3>1, <3>2
  <2>7. Linked(k, L)
    BY <2>5, <2>6, SameLinks
  <2>8. SameMarks(l, k)
    BY <2>2, <2>5 DEF SameMarks
  <2> QED  BY <2>4, <2>7, <2>8
<1>3. CASE l.n[u].next # NoNode
  <2>1. PICK r : r = RemoveNode(l, u)
    OBVIOUS
  <2>2. Chained(r, L \ {u}, rank) /\ SameMarks(l, r)
    BY <2>1, RemoveChained
  <2>3. PICK K : K = L \ {u}
    OBVIOUS
  <2>4. Linked(r, K) /\ u \in RcvSockets \ K /\ r.n[u].onList /\ K \cup {u} = L
    BY <1>1, <2>2, <2>3 DEF Linked, SameMarks
  <2>5. Linked(InsertNode(r, u), K \cup {u}) /\ SameMarks(r, InsertNode(r, u))
    BY <2>4, InsertLinked
  <2>6. UpdateNode(l, u) = InsertNode(r, u)
    BY <1>1, <1>3, <2>1 DEF UpdateNode
  <2> QED  BY <2>2, <2>4, <2>5, <2>6 DEF SameMarks
<1> QED  BY <1>2, <1>3

\* A socket that is no longer served leaves the list, and its node says so.
LEMMA OffLinked ==
  ASSUME NEW l, NEW L, Linked(l, L), NEW u \in L
  PROVE  /\ Linked(Off(l, u), L \ {u})
         /\ \A v \in RcvSockets : Off(l, u).n[v].onList => l.n[v].onList
<1> PICK rank \in [RcvSockets -> Int] : Chained(l, L, rank)
  BY DEF Linked
<1>1. PICK r : r = RemoveNode(l, u)
  OBVIOUS
<1>2. PICK K : K = L \ {u}
  OBVIOUS
<1>3. Chained(r, K, rank) /\ SameMarks(l, r) /\ u \in RcvSockets /\ u \notin K
  <2>1. Chained(r, K, rank) /\ SameMarks(l, r)
    BY <1>1, <1>2, RemoveChained
  <2>2. u \in RcvSockets
    BY DEF Chained
  <2> QED  BY <1>2, <2>1, <2>2
<1>4. r \in Lists /\ K \subseteq RcvSockets /\ r.n[u] \in NodeType
      /\ \A v \in K : r.n[v].next # NoNode => /\ r.n[v].next \in K
                                               /\ r.n[v].age >= r.n[r.n[v].next].age
  BY <1>3 DEF Chained, Lists
<1>5. PICK node : node = [r.n[u] EXCEPT !.onList = FALSE]
  OBVIOUS
<1>6. node \in NodeType /\ ~node.onList
  BY <1>4, <1>5 DEF NodeType
<1>7. PICK k : k = WithNode(r, u, node)
  OBVIOUS
<1>8. Off(l, u) = k
  BY <1>1, <1>5, <1>7 DEF Off
<1>9. /\ k \in Lists /\ k.first = r.first /\ k.last = r.last
      /\ \A v \in RcvSockets : k.n[v] = IF v = u THEN node ELSE r.n[v]
  BY <1>3, <1>4, <1>6, <1>7, WithNodeIs
<1>10. \A v \in K : k.n[v] = r.n[v]
  BY <1>3, <1>4, <1>9
<1>11. Linked(r, K)
  BY <1>3 DEF Linked
<1>12. Linked(k, K)
  <2>1. \A v \in K : /\ k.n[v].prev = r.n[v].prev /\ k.n[v].next = r.n[v].next
                     /\ k.n[v].onList = r.n[v].onList
                     /\ r.n[v].next # NoNode => k.n[v].age >= k.n[r.n[v].next].age
    BY <1>4, <1>10
  <2> QED  BY <1>9, <1>11, <2>1, SameLinks
<1>13. \A v \in RcvSockets : k.n[v].onList => l.n[v].onList
  BY <1>3, <1>6, <1>9 DEF SameMarks
<1> QED  BY <1>2, <1>8, <1>12, <1>13

-----------------------------------------------------------------------------
(* The hash table, and the two together.                                   *)

\* The chains hold the sockets of L, each once and where its number says.
Hashes(b, L) ==
    /\ b \in [0 .. (HashSize - 1) -> Seq(RcvSockets)]
    /\ \A c \in 0 .. (HashSize - 1) : Distinct(b[c])
    /\ L \subseteq RcvSockets
    /\ \A u \in RcvSockets : u \in L <=> u \in Elements(b[Chain(u)])

\* A socket's chain is one of them.
LEMMA ChainIs == \A u \in RcvSockets : Chain(u) \in 0 .. (HashSize - 1)
<1> TAKE u \in RcvSockets
<1>1. u \in Nat /\ HashSize \in Nat \ {0}
  BY RcvUListAssumption
<1> QED  BY <1>1 DEF Chain

\* A lookup finds what is in the set.
LEMMA LookupIs ==
  ASSUME NEW b, NEW L, Hashes(b, L), NEW u \in RcvSockets
  PROVE  Lookup(b, u) <=> u \in L
<1>1. b[Chain(u)] \in Seq(RcvSockets)
  BY ChainIs DEF Hashes
<1>2. DOMAIN b[Chain(u)] = 1 .. Len(b[Chain(u)])
  BY <1>1, LenProperties
<1> QED  BY <1>2 DEF Lookup, Hashes, Elements

\* A socket is put in its chain, ...
LEMMA HashedHashes ==
  ASSUME NEW b, NEW L, Hashes(b, L), NEW u \in RcvSockets \ L
  PROVE  Hashes(Hashed(b, u), L \cup {u})
<1>1. PICK c : c = Chain(u)
  OBVIOUS
<1>2. c \in 0 .. (HashSize - 1) /\ b[c] \in Seq(RcvSockets) /\ Distinct(b[c]) /\ u \notin Elements(b[c])
  BY <1>1, ChainIs DEF Hashes
<1>3. PICK s : s = <<u>> \o b[c]
  OBVIOUS
<1>4. s \in Seq(RcvSockets) /\ Distinct(s) /\ Elements(s) = Elements(b[c]) \cup {u}
  BY <1>2, <1>3, Prepended
<1>5. PICK d : d = Hashed(b, u)
  OBVIOUS
<1>6. d = [b EXCEPT ![c] = s]
  BY <1>1, <1>3, <1>5 DEF Hashed
<1>7. /\ d \in [0 .. (HashSize - 1) -> Seq(RcvSockets)]
      /\ \A e \in 0 .. (HashSize - 1) : d[e] = IF e = c THEN s ELSE b[e]
  BY <1>2, <1>4, <1>6 DEF Hashes
<1>8. \A v \in RcvSockets : v \in L \cup {u} <=> v \in Elements(d[Chain(v)])
  BY <1>1, <1>4, <1>7, ChainIs DEF Hashes
<1>9. \A e \in 0 .. (HashSize - 1) : Distinct(d[e])
  BY <1>4, <1>7 DEF Hashes
<1> QED  BY <1>5, <1>7, <1>8, <1>9 DEF Hashes

\* ... and taken out.
LEMMA UnhashedHashes ==
  ASSUME NEW b, NEW L, Hashes(b, L), NEW u \in RcvSockets
  PROVE  Hashes(Unhashed(b, u), L \ {u})
<1>1. PICK c : c = Chain(u)
  OBVIOUS
<1>2. c \in 0 .. (HashSize - 1) /\ b[c] \in Seq(RcvSockets) /\ Distinct(b[c])
  BY <1>1, ChainIs DEF Hashes
<1>3. PICK s : s = RemoveFirst(b[c], u)
  OBVIOUS
<1>4. s \in Seq(RcvSockets) /\ Distinct(s) /\ Elements(s) = Elements(b[c]) \ {u}
  BY <1>2, <1>3, RemovedFirst
<1>5. PICK d : d = Unhashed(b, u)
  OBVIOUS
<1>6. d = [b EXCEPT ![c] = s]
  BY <1>1, <1>3, <1>5 DEF Unhashed
<1>7. /\ d \in [0 .. (HashSize - 1) -> Seq(RcvSockets)]
      /\ \A e \in 0 .. (HashSize - 1) : d[e] = IF e = c THEN s ELSE b[e]
  BY <1>2, <1>4, <1>6 DEF Hashes
<1>8. \A v \in RcvSockets : v \in L \ {u} <=> v \in Elements(d[Chain(v)])
  BY <1>1, <1>4, <1>7, ChainIs DEF Hashes
<1>9. \A e \in 0 .. (HashSize - 1) : Distinct(d[e])
  BY <1>4, <1>7 DEF Hashes
<1> QED  BY <1>5, <1>7, <1>8, <1>9 DEF Hashes

\* The list and the table hold the same sockets; a node says that it is on the
\* list, or about to be, from when its socket is announced until it is swept,
\* and meanwhile nothing destroys it.
Agreeing(l, b, f) ==
    /\ \E L \in SUBSET RcvSockets : Linked(l, L) /\ Hashes(b, L)
    /\ \A u \in RcvSockets : l.n[u].onList => f[u] \notin {"new", "gone"}

RcvInv ==
    /\ Agreeing(Both, bucket, fate)
    /\ fate \in [RcvSockets -> {"new", "queued", "served", "broken", "gone"}]

\* A pass of the sweep keeps that.
LEMMA CheckFirstAgrees ==
  ASSUME NEW e \in Indexes, Agreeing(e.l, e.b, fate)
  PROVE  CheckFirst[e] \in Indexes /\ Agreeing(CheckFirst[e].l, CheckFirst[e].b, fate)
<1>1. PICK L \in SUBSET RcvSockets : Linked(e.l, L) /\ Hashes(e.b, L)
  BY DEF Agreeing
<1>2. \A u \in RcvSockets : e.l.n[u].onList => fate[u] \notin {"new", "gone"}
  BY DEF Agreeing
<1>3. PICK l : l = e.l
  OBVIOUS
<1>4. PICK b : b = e.b
  OBVIOUS
<1>5. PICK u : u = l.first
  OBVIOUS
<1>6. CheckFirst[e] = IF u = NoNode \/ l.n[u].age < Stale THEN e
                      ELSE IF fate[u] = "served" THEN [l |-> UpdateNode(l, u), b |-> b]
                      ELSE [l |-> Off(l, u), b |-> Unhashed(b, u)]
  BY <1>3, <1>4, <1>5 DEF CheckFirst
<1>7. u \in L \cup {NoNode}
  BY <1>1, <1>3, <1>5 DEF Linked, Chained
<1>8. ASSUME NEW k, NEW d, NEW K \in SUBSET RcvSockets, Linked(k, K), Hashes(d, K),
             \A v \in RcvSockets : k.n[v].onList => l.n[v].onList,
             CheckFirst[e] = [l |-> k, b |-> d]
      PROVE  CheckFirst[e] \in Indexes /\ Agreeing(CheckFirst[e].l, CheckFirst[e].b, fate)
  <2>1. k \in Lists /\ d \in [0 .. (HashSize - 1) -> Seq(RcvSockets)]
    BY <1>8 DEF Linked, Chained, Hashes
  <2>2. CheckFirst[e] \in Indexes
    BY <1>8, <2>1 DEF Indexes, Lists, NodeType
  <2>3. Agreeing(k, d, fate)
    BY <1>2, <1>3, <1>8 DEF Agreeing
  <2>4. CheckFirst[e].l = k /\ CheckFirst[e].b = d
    BY <1>8
  <2> QED  BY <2>2, <2>3, <2>4
<1>9. CASE u = NoNode \/ l.n[u].age < Stale
  BY <1>6, <1>9
<1>10. CASE ~(u = NoNode \/ l.n[u].age < Stale) /\ fate[u] = "served"
  <2>1. Linked(UpdateNode(l, u), L) /\ SameMarks(l, UpdateNode(l, u))
    BY <1>1, <1>3, <1>7, <1>10, UpdateLinked
  <2> QED  BY <1>1, <1>4, <1>6, <1>8, <1>10, <2>1 DEF SameMarks
<1>11. CASE ~(u = NoNode \/ l.n[u].age < Stale) /\ fate[u] # "served"
  <2>1. u \in L /\ u \in RcvSockets
    BY <1>7, <1>11
  <2>2. /\ Linked(Off(l, u), L \ {u})
        /\ \A v \in RcvSockets : Off(l, u).n[v].onList => l.n[v].onList
    BY <1>1, <1>3, <2>1, OffLinked
  <2>3. Hashes(Unhashed(b, u), L \ {u})
    BY <1>1, <1>4, <2>1, UnhashedHashes
  <2>4. L \ {u} \in SUBSET RcvSockets
    OBVIOUS
  <2> QED  BY <1>6, <1>8, <1>11, <2>2, <2>3, <2>4
<1> QED  BY <1>9, <1>10, <1>11
\* The worker starts with both empty.
LEMMA RcvStart == RcvInit => RcvInv
<1> SUFFICES ASSUME RcvInit PROVE RcvInv
  OBVIOUS
<1>1. PICK l : l = Both
  OBVIOUS
<1>2. /\ l = [n |-> nodes, first |-> NoNode, last |-> NoNode]
      /\ nodes = [u \in RcvSockets |->
                     [prev |-> NoNode, next |-> NoNode, onList |-> FALSE, age |-> 0]]
      /\ bucket = [b \in 0 .. (HashSize - 1) |-> <<>>]
      /\ fate \in [RcvSockets -> {"new", "queued", "served", "broken", "gone"}]
  BY <1>1 DEF RcvInit, Both
<1>3. l \in Lists
  BY <1>2 DEF Lists, NodeType, Links
<1>4. Linked(l, {})
  <2> DEFINE rank == [u \in RcvSockets |-> 0]
  <2>1. Chained(l, {}, rank)
    BY <1>2, <1>3 DEF Chained
  <2>2. rank \in [RcvSockets -> Int]
    OBVIOUS
  <2> HIDE DEF rank
  <2> QED  BY <2>1, <2>2 DEF Linked
<1>5. Hashes(bucket, {})
  <2>1. <<>> \in Seq(RcvSockets) /\ Len(<<>>) = 0
    OBVIOUS
  <2>2. Distinct(<<>>) /\ Elements(<<>>) = {}
    BY <2>1 DEF Distinct, Elements
  <2> QED  BY <1>2, <2>1, <2>2, ChainIs DEF Hashes
<1> QED  BY <1>1, <1>2, <1>4, <1>5 DEF RcvInv, Agreeing

\* Each of its steps, and each of the other threads', keeps them in agreement.
LEMMA RcvStep == RcvInv /\ [RcvNext]_rcvVars => RcvInv'
<1> SUFFICES ASSUME RcvInv, [RcvNext]_rcvVars PROVE RcvInv'
  OBVIOUS
<1> DEFINE Fates == {"new", "queued", "served", "broken", "gone"}
<1>1. PICK L \in SUBSET RcvSockets : Linked(Both, L) /\ Hashes(bucket, L)
  BY DEF RcvInv, Agreeing
<1>2. PICK l : l = Both
  OBVIOUS
<1>3. /\ Linked(l, L) /\ l \in Lists
      /\ l.n = nodes /\ l.first = uList.first /\ l.last = uList.last
      /\ l.n \in [RcvSockets -> NodeType]
      /\ \A u \in RcvSockets : l.n[u] \in NodeType
      /\ \A u \in L : l.n[u].onList
  <2>1. Linked(l, L)
    BY <1>1, <1>2
  <2>2. l \in Lists /\ \A u \in L : l.n[u].onList
    BY <2>1 DEF Linked, Chained
  <2> QED  BY <1>2, <2>1, <2>2 DEF Lists, Both
<1>4. /\ \A u \in RcvSockets : l.n[u].onList => fate[u] \notin {"new", "gone"}
      /\ fate \in [RcvSockets -> Fates]
  BY <1>2 DEF RcvInv, Agreeing
<1>5. ASSUME NEW k, NEW K \in SUBSET RcvSockets, NEW d, Linked(k, K), Hashes(d, K),
             nodes' = k.n, uList'.first = k.first, uList'.last = k.last, bucket' = d,
             \A u \in RcvSockets : k.n[u].onList => fate'[u] \notin {"new", "gone"},
             fate' \in [RcvSockets -> Fates]
      PROVE  RcvInv'
  <2>1. k = [n |-> k.n, first |-> k.first, last |-> k.last]
    <3>1. k \in Lists
      BY <1>5 DEF Linked, Chained
    <3> QED  BY <3>1 DEF Lists
  <2>2. Both' = k
    BY <1>5, <2>1 DEF Both
  <2>3. PICK f : f = fate'
    OBVIOUS
  <2>4. Agreeing(k, d, f)
    BY <1>5, <2>3 DEF Agreeing
  <2>5. Agreeing(Both', bucket', fate')
    BY <1>5, <2>2, <2>3, <2>4
  <2> QED  BY <1>5, <2>5 DEF RcvInv
<1>6. ASSUME UNCHANGED <<nodes, uList, bucket>>,
             \A u \in RcvSockets : l.n[u].onList => fate'[u] \notin {"new", "gone"},
             fate' \in [RcvSockets -> Fates]
      PROVE  RcvInv'
  <2>1. nodes' = l.n /\ uList'.first = l.first /\ uList'.last = l.last
    BY <1>3, <1>6
  <2> QED  BY <1>1, <1>3, <1>5, <1>6, <2>1
<1>7. ASSUME NEW u \in RcvSockets, Announce(u)
      PROVE  RcvInv'
  <2>1. fate[u] = "new" /\ u \notin L
    BY <1>3, <1>4, <1>7 DEF Announce
  <2>2. PICK node : node = [l.n[u] EXCEPT !.onList = TRUE]
    OBVIOUS
  <2>3. node \in NodeType
    BY <1>3, <2>2 DEF NodeType
  <2>4. PICK k : k = WithNode(l, u, node)
    OBVIOUS
  <2>5. /\ k \in Lists /\ k.first = l.first /\ k.last = l.last
        /\ \A v \in RcvSockets : k.n[v] = IF v = u THEN node ELSE l.n[v]
    <3>1. k = [n |-> [l.n EXCEPT ![u] = node], first |-> l.first, last |-> l.last]
      BY <2>4 DEF WithNode
    <3>2. l \in Lists /\ u \in RcvSockets
      BY <1>3
    <3> QED  BY ONLY <2>3, <3>1, <3>2 DEF Lists
  <2>6. Linked(k, L)
    <3>1. \A v \in L : k.n[v] = l.n[v]
      BY <2>1, <2>5
    <3>2. \A v \in L : l.n[v].next # NoNode => l.n[v].next \in L /\ l.n[v].age >= l.n[l.n[v].next].age
      BY <1>3 DEF Linked, Chained
    <3>3. \A v \in L : /\ k.n[v].prev = l.n[v].prev /\ k.n[v].next = l.n[v].next
                       /\ k.n[v].onList = l.n[v].onList
                       /\ l.n[v].next # NoNode => k.n[v].age >= k.n[l.n[v].next].age
      BY <3>1, <3>2
    <3> QED  BY <1>3, <2>5, <3>3, SameLinks
  <2>7. nodes' = k.n
    <3>1. nodes' = [nodes EXCEPT ![u].onList = TRUE]
      BY <1>7 DEF Announce
    <3>2. nodes' = [nodes EXCEPT ![u] = [nodes[u] EXCEPT !.onList = TRUE]]
      BY <3>1, Zenon
    <3>3. k.n = [l.n EXCEPT ![u] = node]
      BY <2>4 DEF WithNode
    <3> QED  BY <1>3, <2>2, <3>2, <3>3
  <2>8. bucket' = bucket /\ uList'.first = k.first /\ uList'.last = k.last
    BY <1>3, <1>7, <2>5 DEF Announce
  <2>9. /\ \A v \in RcvSockets : k.n[v].onList => fate'[v] \notin {"new", "gone"}
        /\ fate' \in [RcvSockets -> Fates]
    <3>1. fate' = [fate EXCEPT ![u] = "queued"]
      BY <1>7 DEF Announce
    <3>2. fate' \in [RcvSockets -> Fates] /\ fate'[u] = "queued"
          /\ \A v \in RcvSockets : v # u => fate'[v] = fate[v]
      BY <1>4, <3>1
    <3> QED  BY <1>4, <2>5, <3>2
  <2> HIDE DEF Fates
  <2> QED  BY <1>1, <1>5, <2>6, <2>7, <2>8, <2>9
<1>8. ASSUME NEW u \in RcvSockets, TakeNewEntry(u)
      PROVE  RcvInv'
  <2>1. l.n[u].onList /\ u \notin L
    BY <1>1, <1>3, <1>8, LookupIs DEF TakeNewEntry
  <2>2. PICK k : k = InsertNode(l, u)
    OBVIOUS
  <2>3. Linked(k, L \cup {u}) /\ SameMarks(l, k)
    BY <1>3, <2>1, <2>2, InsertLinked
  <2>4. Hashes(Hashed(bucket, u), L \cup {u})
    BY <1>1, <2>1, HashedHashes
  <2>5. /\ nodes' = k.n /\ uList'.first = k.first /\ uList'.last = k.last
        /\ bucket' = Hashed(bucket, u)
        /\ fate' = [fate EXCEPT ![u] = IF @ = "queued" THEN "served" ELSE @]
    BY <1>2, <1>8, <2>2 DEF TakeNewEntry, SetList
  <2>6. /\ \A v \in RcvSockets : k.n[v].onList => fate'[v] \notin {"new", "gone"}
        /\ fate' \in [RcvSockets -> Fates]
    <3>1. /\ fate' \in [RcvSockets -> Fates] /\ fate'[u] \in {"served", fate[u]}
          /\ \A v \in RcvSockets : v # u => fate'[v] = fate[v]
      BY <1>4, <2>5
    <3> QED  BY <1>4, <2>3, <3>1 DEF SameMarks
  <2>7. L \cup {u} \in SUBSET RcvSockets
    OBVIOUS
  <2> HIDE DEF Fates
  <2> QED  BY <1>5, <2>3, <2>4, <2>5, <2>6, <2>7
<1>9. ASSUME NEW u \in RcvSockets, Packet(u)
      PROVE  RcvInv'
  <2>1. u \in L
    BY <1>1, <1>9, LookupIs DEF Packet
  <2>2. PICK k : k = UpdateNode(l, u)
    OBVIOUS
  <2>3. Linked(k, L) /\ SameMarks(l, k)
    BY <1>3, <2>1, <2>2, UpdateLinked
  <2>4. /\ nodes' = k.n /\ uList'.first = k.first /\ uList'.last = k.last
        /\ bucket' = bucket /\ fate' = fate
    BY <1>2, <1>9, <2>2 DEF Packet, SetList
  <2>5. /\ \A v \in RcvSockets : k.n[v].onList => fate'[v] \notin {"new", "gone"}
        /\ fate' \in [RcvSockets -> Fates]
    BY <1>4, <2>3, <2>4 DEF SameMarks
  <2> HIDE DEF Fates
  <2> QED  BY <1>1, <1>5, <2>3, <2>4, <2>5
<1>10. ASSUME NEW u \in RcvSockets, BreakSocket(u) \/ Destroy(u)
       PROVE  RcvInv'
  <2>1. UNCHANGED <<nodes, uList, bucket>>
    BY <1>10 DEF BreakSocket, Destroy
  <2>2. \/ fate' = [fate EXCEPT ![u] = "broken"]
        \/ fate' = [fate EXCEPT ![u] = "gone"] /\ ~l.n[u].onList
    BY <1>3, <1>10 DEF BreakSocket, Destroy
  <2>3. /\ \A v \in RcvSockets : l.n[v].onList => fate'[v] \notin {"new", "gone"}
        /\ fate' \in [RcvSockets -> Fates]
    BY <1>4, <2>2
  <2> HIDE DEF Fates
  <2> QED  BY <1>6, <2>1, <2>3
<1>11. CASE Sweep
  <2>1. PICK pass : pass = CheckFirst
    OBVIOUS
  <2>2. PICK f : f = fate
    OBVIOUS
  <2> DEFINE Good == {e \in Indexes : Agreeing(e.l, e.b, f)}
             n == Cardinality(RcvSockets)
  <2>3. PICK start : start = [l |-> Both, b |-> bucket]
    OBVIOUS
  <2>4. start \in Good
    <3>1. start.l = Both /\ start.b = bucket
      BY <2>3
    <3>2. Agreeing(start.l, start.b, f)
      BY <2>2, <3>1 DEF RcvInv
    <3>3. bucket \in [0 .. (HashSize - 1) -> Seq(RcvSockets)]
      BY <1>1 DEF Hashes
    <3>4. start \in Indexes
      BY <1>2, <1>3, <2>3, <3>3 DEF Indexes, Lists, NodeType
    <3> QED  BY <3>2, <3>4
  <2>5. \A e \in Good : pass[e] \in Good
    BY <2>1, <2>2, CheckFirstAgrees
  <2>6. n \in Nat
    BY RcvUListAssumption, FS_CardinalityType
  <2>7. PICK swept : swept = Repeat(CheckFirst, [l |-> Both, b |-> bucket], Cardinality(RcvSockets))
    OBVIOUS
  <2>8. swept \in Good
    <3>1. swept = Repeat(pass, start, n)
      BY <2>1, <2>3, <2>7
    <3> HIDE DEF Good, n
    <3> QED  BY <2>4, <2>5, <2>6, <3>1, RepeatStays
  <2>9. PICK K \in SUBSET RcvSockets : Linked(swept.l, K) /\ Hashes(swept.b, K)
    BY <2>8 DEF Agreeing
  <2>10. /\ nodes' = swept.l.n /\ uList'.first = swept.l.first /\ uList'.last = swept.l.last
         /\ bucket' = swept.b /\ fate' = fate
    BY <1>11, <2>7 DEF Sweep, SetList
  <2>11. /\ \A v \in RcvSockets : swept.l.n[v].onList => fate'[v] \notin {"new", "gone"}
         /\ fate' \in [RcvSockets -> Fates]
    BY <1>4, <2>2, <2>8, <2>10 DEF Agreeing
  <2> HIDE DEF Fates, Good, n
  <2> QED  BY <1>5, <2>9, <2>10, <2>11
<1>12. CASE TimePasses
  <2>1. /\ nodes' = [u \in RcvSockets |->
                        [l.n[u] EXCEPT !.age = IF Lookup(bucket, u) /\ @ < Stale
                                               THEN @ + 1 ELSE @]]
        /\ uList' = uList /\ bucket' = bucket /\ fate' = fate
    BY <1>3, <1>12 DEF TimePasses
  <2>2. PICK m : m = nodes'
    OBVIOUS
  <2>3. PICK k : k = [n |-> m, first |-> l.first, last |-> l.last]
    OBVIOUS
  <2>4. \A u \in RcvSockets :
            m[u] = [l.n[u] EXCEPT !.age = IF u \in L /\ @ < Stale THEN @ + 1 ELSE @]
    <3> TAKE u \in RcvSockets
    <3>1. m[u] = [l.n[u] EXCEPT !.age = IF Lookup(bucket, u) /\ @ < Stale THEN @ + 1 ELSE @]
      BY <2>1, <2>2
    <3>2. Lookup(bucket, u) <=> u \in L
      BY <1>1, LookupIs
    <3> QED  BY <3>1, <3>2
  <2>5. \A u \in RcvSockets :
            /\ m[u] \in NodeType
            /\ m[u].prev = l.n[u].prev /\ m[u].next = l.n[u].next /\ m[u].onList = l.n[u].onList
            /\ m[u].age = IF u \in L /\ l.n[u].age < Stale THEN l.n[u].age + 1 ELSE l.n[u].age
    <3> TAKE u \in RcvSockets
    <3>1. PICK x : x = l.n[u]
      OBVIOUS
    <3>2. PICK a : a = IF u \in L /\ x.age < Stale THEN x.age + 1 ELSE x.age
      OBVIOUS
    <3>3. x \in NodeType /\ a \in Nat
      <4>1. x \in NodeType
        BY <1>3, <3>1
      <4> QED  BY <3>2, <4>1 DEF NodeType
    <3>4. m[u] = [x EXCEPT !.age = a]
      BY <2>4, <3>1, <3>2, Zenon
    <3>5. /\ m[u] \in NodeType
          /\ m[u].prev = x.prev /\ m[u].next = x.next /\ m[u].onList = x.onList
          /\ m[u].age = a
      BY ONLY <3>3, <3>4 DEF NodeType
    <3> QED  BY <3>1, <3>2, <3>5
  <2>6. k \in Lists /\ k.n = m /\ k.first = l.first /\ k.last = l.last
    <3>1. m \in [RcvSockets -> NodeType]
      BY <2>1, <2>2, <2>5
    <3> QED  BY <1>3, <2>3, <3>1 DEF Lists
  <2>7. Linked(k, L)
    <3>1. \A v \in L : l.n[v].next # NoNode => l.n[v].next \in L /\ l.n[v].age >= l.n[l.n[v].next].age
      BY <1>3 DEF Linked, Chained
    <3>2. \A v \in L : l.n[v].next # NoNode => k.n[v].age >= k.n[l.n[v].next].age
      <4> SUFFICES ASSUME NEW v \in L, l.n[v].next # NoNode
                   PROVE  k.n[v].age >= k.n[l.n[v].next].age
        OBVIOUS
      <4>1. PICK w : w = l.n[v].next
        OBVIOUS
      <4>2. w \in L /\ l.n[v].age >= l.n[w].age
        BY <3>1, <4>1
      <4>3. l.n[v].age \in Nat /\ l.n[w].age \in Nat
        BY <1>3, <4>2 DEF NodeType
      <4>4. /\ m[v].age = IF l.n[v].age < Stale THEN l.n[v].age + 1 ELSE l.n[v].age
            /\ m[w].age = IF l.n[w].age < Stale THEN l.n[w].age + 1 ELSE l.n[w].age
        BY <2>5, <4>2
      <4>5. m[v].age >= m[w].age
        BY <4>2, <4>3, <4>4, RcvUListAssumption
      <4> QED  BY <2>6, <4>1, <4>5
    <3>3. \A v \in L : /\ k.n[v].prev = l.n[v].prev /\ k.n[v].next = l.n[v].next
                       /\ k.n[v].onList = l.n[v].onList
      BY <2>5, <2>6
    <3> QED  BY <1>3, <2>6, <3>2, <3>3, SameLinks
  <2>8. \A v \in RcvSockets : k.n[v].onList => fate'[v] \notin {"new", "gone"}
    BY <1>4, <2>1, <2>5, <2>6
  <2>9. nodes' = k.n /\ uList'.first = k.first /\ uList'.last = k.last /\ bucket' = bucket
        /\ fate' \in [RcvSockets -> Fates]
    BY <1>3, <1>4, <2>1, <2>2, <2>6
  <2> HIDE DEF Fates
  <2> QED  BY <1>1, <1>5, <2>7, <2>8, <2>9
<1>13. CASE UNCHANGED rcvVars
  BY <1>4, <1>6, <1>13 DEF rcvVars
<1> QED  BY <1>7, <1>8, <1>9, <1>10, <1>11, <1>12, <1>13 DEF RcvNext

\* The list and the hash table of the receiving side hold the same sockets,
\* none of them destroyed, linked both ways in the order of age: after any
\* packets, sweeps and failures, for any number of sockets and of chains.
THEOREM ListAndTableAgree == RcvSpec => []IndexesAgree
<1>1. RcvInv => IndexesAgree
  <2> SUFFICES ASSUME RcvInv PROVE IndexesAgree
    OBVIOUS
  <2>1. PICK L \in SUBSET RcvSockets : Linked(Both, L) /\ Hashes(bucket, L)
    BY DEF RcvInv, Agreeing
  <2>2. Listed = L
    BY <2>1, LookupIs DEF Listed
  <2>3. PICK rank : Chained(Both, L, rank)
    BY <2>1 DEF Linked
  <2>4. /\ \A u \in L :
             /\ nodes[u].onList
             /\ nodes[u].prev \in L \cup {NoNode} /\ nodes[u].next \in L \cup {NoNode}
             /\ nodes[u].next = NoNode <=> uList.last = u
             /\ nodes[u].prev = NoNode <=> uList.first = u
             /\ nodes[u].next # NoNode => /\ nodes[nodes[u].next].prev = u
                                          /\ nodes[u].age >= nodes[nodes[u].next].age
        /\ uList.first = NoNode <=> L = {}
    BY <2>3 DEF Chained, Both
  <2>5. \A u \in L : fate[u] # "gone"
    <3>1. \A u \in RcvSockets : nodes[u].onList => fate[u] \notin {"new", "gone"}
      BY DEF RcvInv, Agreeing, Both
    <3> QED  BY <2>4, <3>1
  <2>6. \A b \in DOMAIN bucket : \A i, j \in DOMAIN bucket[b] :
            bucket[b][i] = bucket[b][j] => i = j
    <3>1. /\ DOMAIN bucket = 0 .. (HashSize - 1)
          /\ \A b \in 0 .. (HashSize - 1) : bucket[b] \in Seq(RcvSockets) /\ Distinct(bucket[b])
      BY <2>1 DEF Hashes
    <3>2. \A b \in 0 .. (HashSize - 1) : DOMAIN bucket[b] = 1 .. Len(bucket[b])
      BY <3>1, LenProperties
    <3> QED  BY <3>1, <3>2 DEF Distinct
  <2> QED  BY <2>2, <2>4, <2>5, <2>6 DEF IndexesAgree
<1> QED  BY <1>1, RcvStart, RcvStep, PTL DEF RcvSpec
=============================================================================
