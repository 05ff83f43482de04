-------------------------- MODULE A314DriverProofs --------------------------
(***************************************************************************)
(* What the handlers of a314.device keep, whatever the requests and the    *)
(* packets they are given: lemmas that A314SystemProofs puts together with *)
(* those about the daemon.                                                 *)
(***************************************************************************)
EXTENDS A314Driver, FoldLemmas

-----------------------------------------------------------------------------
(* Sequences in which nothing occurs twice.                                *)

Once(q) == \A i, j \in 1 .. Len(q) : q[i] = q[j] => i = j
Among(q, x) == \E i \in 1 .. Len(q) : q[i] = x

LEMMA SeqFacts ==
  ASSUME NEW S, NEW q \in Seq(S)
  PROVE  /\ Len(q) \in Nat /\ DOMAIN q = 1 .. Len(q)
         /\ \A i \in 1 .. Len(q) : q[i] \in S
         /\ \A x : Among(q, x) => x \in S
         /\ q = <<>> <=> Len(q) = 0
<1>1. Len(q) \in Nat /\ DOMAIN q = 1 .. Len(q) /\ \A i \in 1 .. Len(q) : q[i] \in S
  BY LenProperties, ElementOfSeq
<1>2. q = <<>> <=> Len(q) = 0
  BY EmptySeq
<1> QED
  BY <1>1, <1>2 DEF Among

LEMMA AppendFacts ==
  ASSUME NEW S, NEW q \in Seq(S), NEW x \in S, NEW r, r = Append(q, x)
  PROVE  /\ r \in Seq(S) /\ Len(r) = Len(q) + 1 /\ r # <<>>
         /\ \A i \in 1 .. Len(q) : r[i] = q[i]
         /\ r[Len(q) + 1] = x
         /\ \A y : Among(r, y) <=> Among(q, y) \/ y = x
         /\ Once(q) /\ ~Among(q, x) => Once(r)
<1> DEFINE n == Len(q)
<1>1. n \in Nat /\ n + 1 \in 1 .. n + 1 /\ \A i \in 1 .. n : i \in 1 .. n + 1
  BY LenProperties
<1>2. /\ r \in Seq(S) /\ Len(r) = n + 1 /\ \A i \in 1 .. n : r[i] = q[i]
      /\ r[n + 1] = x
  BY AppendProperties
<1>3. r # <<>>
  BY <1>1, <1>2, SeqFacts
<1> HIDE DEF n
<1>4. \A i \in 1 .. n + 1 : i \in 1 .. n \/ i = n + 1
  BY <1>1
<1>5. \A y : Among(r, y) <=> Among(q, y) \/ y = x
  BY <1>1, <1>2, <1>4 DEF Among, n
<1>6. Once(q) /\ ~Among(q, x) => Once(r)
  BY <1>1, <1>2, <1>4 DEF Among, Once, n
<1> QED
  BY <1>2, <1>3, <1>5, <1>6 DEF n

LEMMA TailFacts ==
  ASSUME NEW S, NEW q \in Seq(S), q # <<>>, NEW r, r = Tail(q)
  PROVE  /\ r \in Seq(S) /\ Len(r) = Len(q) - 1 /\ Len(q) \in Nat \ {0}
         /\ \A i \in 1 .. Len(r) : r[i] = q[i + 1] /\ i + 1 \in 1 .. Len(q)
         /\ Head(q) = q[1] /\ Head(q) \in S /\ 1 \in 1 .. Len(q)
         /\ \A y : Among(q, y) <=> Among(r, y) \/ y = Head(q)
         /\ Once(q) => Once(r) /\ ~Among(r, Head(q))
<1> DEFINE n == Len(q)
<1>1. n \in Nat /\ n >= 1 /\ 1 \in 1 .. n
  BY SeqFacts
<1>2. /\ r \in Seq(S) /\ Len(r) = n - 1 /\ \A i \in 1 .. n - 1 : r[i] = q[i + 1]
      /\ Head(q) = q[1] /\ Head(q) \in S
  <2>1. r \in Seq(S) /\ Len(r) = n - 1 /\ \A i \in 1 .. Len(r) : r[i] = q[i + 1]
    BY HeadTailProperties
  <2>2. Head(q) = q[1]
    OBVIOUS
  <2> QED
    BY <1>1, <2>1, <2>2, SeqFacts
<1> HIDE DEF n
<1>3. /\ \A i \in 1 .. n - 1 : i + 1 \in 1 .. n /\ i + 1 # 1
      /\ \A i \in 1 .. n : i = 1 \/ (i - 1 \in 1 .. n - 1 /\ (i - 1) + 1 = i)
      /\ \A i, j \in 1 .. n - 1 : i + 1 = j + 1 => i = j
  BY <1>1
<1>4. \A y : Among(q, y) <=> Among(r, y) \/ y = q[1]
  BY <1>1, <1>2, <1>3 DEF Among, n
<1>5. Once(q) => Once(r) /\ ~Among(r, q[1])
  BY <1>1, <1>2, <1>3 DEF Among, Once, n
<1> QED
  BY <1>1, <1>2, <1>3, <1>4, <1>5 DEF n

\* Taking an element out of a sequence in which it occurs once.
LEMMA RemoveFirstFacts ==
  ASSUME NEW S, NEW q \in Seq(S), Once(q), NEW x, Among(q, x),
         NEW r, r = RemoveFirst(q, x)
  PROVE  /\ r \in Seq(S) /\ Once(r)
         /\ \A y : Among(r, y) <=> Among(q, y) /\ y # x
<1> DEFINE n == Len(q)
           I == {i \in 1 .. n : q[i] = x}
           h == Min(I)
<1>1. n \in Nat
  BY LenProperties
<1>2. I \subseteq Nat /\ I # {}
  BY DEF Among
<1>3. h \in I
  <2> HIDE DEF I
  <2> QED
    BY <1>2, MinOfSet
<1>4. r = SubSeq(q, 1, h - 1) \o SubSeq(q, h + 1, n)
  BY <1>2 DEF RemoveFirst, RemoveAt, SelectInSeq, Among
<1> HIDE DEF h
<1>5. h \in 1 .. n /\ q[h] = x
  BY <1>3
<1> HIDE DEF I, n
<1> DEFINE a == h - 1
           y == h + 1
           none == << >>
           A == SubSeq(q, 1, a)
           B == SubSeq(q, y, n)
<1>6. a \in 0 .. n /\ y \in 1 .. n + 1 /\ y = a + 2 /\ y - 1 = a + 1 /\ n \in Nat
  BY <1>1, <1>5
<1>7. none \in Seq(S) /\ Len(none) = 0
  BY EmptySeq
<1>8. r = A \o none \o B
  <2>1. \A i \in 1 .. a : q[i] \in S
    BY <1>6, SeqFacts DEF n
  <2>2. A \in Seq(S)
    BY <1>6, <2>1, SubSeqProperties
  <2>3. A \o none = A
    BY <2>2, ConcatEmptySeq
  <2> QED
    BY <1>4, <2>3
<1> HIDE DEF A, B, none
<1>9. A = SubSeq(q, 1, a) /\ B = SubSeq(q, y, Len(q)) /\ n = Len(q)
  BY DEF A, B, n
<1> HIDE DEF a, y
<1>10. r = SubSeq(q, 1, a) \o none \o SubSeq(q, y, Len(q))
  BY <1>8, <1>9
<1>11. a = a + Len(none) /\ a \in 0 .. Len(q) /\ y \in 1 .. Len(q) + 1
  BY <1>6, <1>7, <1>9
<1>12. Spliced(S, q, none, a, y, r, a)
  BY ONLY <1>7, <1>10, <1>11, SpliceElements, q \in Seq(S)
<1>13. /\ r \in Seq(S) /\ Len(r) = a + (n - y + 1)
       /\ \A i \in 1 .. a : r[i] = q[i]
       /\ \A i \in a + 1 .. a + (n - y + 1) : r[i] = q[(i - a) + (y - 1)]
  BY <1>9, <1>12 DEF Spliced
<1> DEFINE to == [i \in 1 .. n - 1 |-> IF i <= a THEN i ELSE i + 1]
<1>14. Len(r) = n - 1 /\ h = a + 1 /\ h \in 1 .. n
  BY <1>5, <1>6, <1>13 DEF a
<1>15. \A i \in 1 .. n - 1 : r[i] = q[to[i]] /\ to[i] \in 1 .. n /\ to[i] # h
  <2> SUFFICES ASSUME NEW i \in 1 .. n - 1
               PROVE  r[i] = q[to[i]] /\ to[i] \in 1 .. n /\ to[i] # h
    OBVIOUS
  <2>1. CASE i <= a
    <3>1. i \in 1 .. a /\ i \in 1 .. n /\ i # h /\ to[i] = i
      BY <1>6, <1>14, <2>1
    <3> QED
      BY <1>13, <3>1
  <2>2. CASE ~(i <= a)
    <3>1. /\ i \in a + 1 .. a + (n - y + 1) /\ (i - a) + (y - 1) = i + 1
          /\ i + 1 \in 1 .. n /\ i + 1 # h /\ to[i] = i + 1
      BY <1>6, <1>14, <2>2
    <3> QED
      BY <1>13, <3>1
  <2> QED
    BY <2>1, <2>2
<1>16. \A i, j \in 1 .. n - 1 : to[i] = to[j] => i = j
  BY <1>6
<1>17. \A i \in 1 .. n : i = h \/ \E j \in 1 .. n - 1 : to[j] = i
  <2> SUFFICES ASSUME NEW i \in 1 .. n, i # h PROVE \E j \in 1 .. n - 1 : to[j] = i
    OBVIOUS
  <2>1. CASE i <= a
    BY <1>6, <1>14, <2>1
  <2>2. CASE ~(i <= a)
    <3>1. i - 1 \in 1 .. n - 1 /\ ~(i - 1 <= a) /\ (i - 1) + 1 = i
      BY <1>6, <1>14, <2>2
    <3> QED
      BY <3>1
  <2> QED
    BY <2>1, <2>2
<1> HIDE DEF to
<1>18. \A i \in 1 .. n : q[i] = x => i = h
  BY <1>5, <1>9 DEF Once
<1>19. /\ \A i, j \in 1 .. n : q[i] = q[j] => i = j
       /\ Once(r) <=> \A i, j \in 1 .. n - 1 : r[i] = r[j] => i = j
       /\ \A z : Among(r, z) <=> \E i \in 1 .. n - 1 : r[i] = z
       /\ \A z : Among(q, z) <=> \E i \in 1 .. n : q[i] = z
  BY <1>9, <1>14 DEF Once, Among
<1>20. Once(r)
  BY ONLY <1>15, <1>16, <1>19
<1>21. \A z : Among(r, z) <=> Among(q, z) /\ z # x
  <2>1. ASSUME NEW z, Among(r, z) PROVE Among(q, z) /\ z # x
    <3>1. PICK i \in 1 .. n - 1 : r[i] = z
      BY <1>19, <2>1
    <3>2. q[to[i]] = z /\ to[i] \in 1 .. n /\ to[i] # h
      BY <1>15, <3>1
    <3> QED
      BY ONLY <1>18, <1>19, <3>2
  <2>2. ASSUME NEW z, Among(q, z), z # x PROVE Among(r, z)
    <3>1. PICK i \in 1 .. n : q[i] = z
      BY <1>19, <2>2
    <3>2. i # h
      BY <1>5, <2>2, <3>1
    <3>3. PICK j \in 1 .. n - 1 : to[j] = i
      BY <1>17, <3>2
    <3>4. r[j] = z
      BY <1>15, <3>1, <3>3
    <3> QED
      BY ONLY <1>19, <3>4
  <2> QED
    BY <2>1, <2>2
<1> QED
  BY <1>13, <1>20, <1>21

-----------------------------------------------------------------------------
(* The bytes that packets take in a ring.                                  *)

Sums(q, f) ==
  /\ f \in [0 .. Len(q) -> Nat] /\ f[0] = 0
  /\ \A i \in 1 .. Len(q) : f[i] = f[i - 1] + HeaderBytes + q[i].len

LEMMA BytesIsSum ==
  ASSUME NEW S, \A p \in S : p.len \in Nat, NEW q \in Seq(S)
  PROVE  \E f : Sums(q, f) /\ Bytes(q) = f[Len(q)]
<1> DEFINE n == Len(q)
           R(h) == h = [t \in SUBSET DOMAIN q |->
                          IF t = {} THEN 0
                          ELSE h[t \ {Max(t)}] + HeaderBytes + q[Max(t)].len]
           F == CHOOSE h : R(h)
           step == [i \in 1 .. n |-> [x \in Nat |-> x + HeaderBytes + q[i].len]]
           f == [i \in 0 .. n |-> F[1 .. i]]
<1>1. n \in Nat /\ DOMAIN q = 1 .. n /\ \A i \in 1 .. n : q[i].len \in Nat
  BY SeqFacts
<1>2. Bytes(q) = F[1 .. n]
  BY <1>1 DEF Bytes, FoldLeft, MapThenFoldSet
<1>3. step \in [1 .. n -> [Nat -> Nat]]
  BY <1>1 DEF HeaderBytes
<1>4. \A i \in 1 .. n, x \in Nat : step[i][x] = x + HeaderBytes + q[i].len
  OBVIOUS
<1> HIDE DEF step
<1>5. PICK h : Folded(n, Nat, 0, step, h)
  <2>1. 0 \in Nat
    OBVIOUS
  <2> QED
    BY <1>1, <1>3, <2>1, FoldExists
<1>6. R(h)
  <2>1. ASSUME NEW t \in SUBSET (1 .. n), t # {}
        PROVE  step[Max(t)][h[t \ {Max(t)}]]
                 = h[t \ {Max(t)}] + HeaderBytes + q[Max(t)].len
    <3>1. Max(t) \in 1 .. n
      BY <1>1, <2>1, MaxOfSet
    <3>2. h[t \ {Max(t)}] \in Nat
      BY <1>5 DEF Folded
    <3> QED
      BY <1>4, <3>1, <3>2
  <2>2. DOMAIN h = SUBSET (1 .. n) /\ h = [t \in SUBSET (1 .. n) |-> h[t]]
    BY <1>5 DEF Folded
  <2>3. \A t \in SUBSET (1 .. n) :
          h[t] = IF t = {} THEN 0 ELSE h[t \ {Max(t)}] + HeaderBytes + q[Max(t)].len
    BY <1>5, <2>1 DEF Folded
  <2> QED
    BY <1>1, <2>2, <2>3
<1>7. R(F)
  <2> HIDE DEF R
  <2> QED
    BY <1>6, Zenon
<1> HIDE DEF F
<1>8. f[0] = 0
  <2>1. 1 .. 0 = {} /\ {} \in SUBSET DOMAIN q
    OBVIOUS
  <2> QED
    BY <1>1, <1>7, <2>1
<1>9. ASSUME NEW i \in 1 .. n PROVE f[i] = f[i - 1] + HeaderBytes + q[i].len
  <2>1. Max(1 .. i) = i /\ (1 .. i) \ {i} = 1 .. i - 1
    BY MaxOfInterval
  <2>2. 1 .. i \in SUBSET DOMAIN q /\ 1 .. i # {}
    <3>1. i \in 1 .. i /\ 1 .. i \subseteq 1 .. n
      BY ONLY <1>1, i \in 1 .. n
    <3> QED
      BY ONLY <1>1, <3>1
  <2>3. F[1 .. i] = F[1 .. i - 1] + HeaderBytes + q[i].len
    BY <1>7, <2>1, <2>2
  <2> QED
    BY <1>1, <2>3
<1>10. \A i \in 0 .. n : f[i] \in Nat
  <2>1. f[0] \in Nat
    BY <1>8
  <2> HIDE DEF f
  <2>2. ASSUME NEW i \in 1 .. n, f[i - 1] \in Nat PROVE f[i] \in Nat
    <3>1. f[i] = f[i - 1] + HeaderBytes + q[i].len /\ q[i].len \in Nat
      BY <1>1, <1>9
    <3> QED
      BY <2>2, <3>1 DEF HeaderBytes
  <2> QED
    BY <1>1, <2>1, <2>2, FoldAlong
<1>11. f \in [0 .. n -> Nat] /\ f[n] = Bytes(q)
  BY <1>1, <1>2, <1>10
<1> HIDE DEF f
<1>12. Sums(q, f)
  BY <1>8, <1>9, <1>11 DEF Sums
<1> QED
  BY <1>11, <1>12

\* There is only one way to add up.
LEMMA SumsUnique ==
  ASSUME NEW S, \A p \in S : p.len \in Nat, NEW q \in Seq(S), NEW f, Sums(q, f)
  PROVE  Bytes(q) = f[Len(q)] /\ Bytes(q) \in Nat
<1>1. PICK g : Sums(q, g) /\ Bytes(q) = g[Len(q)]
  BY BytesIsSum
<1> DEFINE T == {i \in Nat : i <= Len(q) => f[i] = g[i]}
<1>2. Len(q) \in Nat
  BY SeqFacts
<1>3. 0 \in T
  BY <1>1 DEF Sums
<1>4. ASSUME NEW i \in Nat, i \in T PROVE i + 1 \in T
  <2>1. CASE i + 1 <= Len(q)
    <3>1. i + 1 \in 1 .. Len(q) /\ (i + 1) - 1 = i /\ f[i] = g[i]
      BY <1>2, <1>4, <2>1
    <3>2. f[i + 1] = f[(i + 1) - 1] + HeaderBytes + q[i + 1].len
      BY <3>1 DEF Sums
    <3>3. g[i + 1] = g[(i + 1) - 1] + HeaderBytes + q[i + 1].len
      BY <1>1, <3>1 DEF Sums
    <3> QED
      BY <3>1, <3>2, <3>3
  <2>2. CASE ~(i + 1 <= Len(q))
    BY <2>2
  <2> QED
    BY <2>1, <2>2
<1> HIDE DEF T
<1>5. \A i \in Nat : i \in T
  BY <1>3, <1>4, SetInduction
<1> QED
  BY <1>1, <1>2, <1>5 DEF T, Sums

LEMMA BytesOfNone == Bytes(<<>>) = 0
<1> DEFINE f == [i \in 0 .. 0 |-> 0]
           S == {[len |-> 0]}
<1>1. <<>> \in Seq(S) /\ Len(<<>>) = 0 /\ \A p \in S : p.len \in Nat
  BY EmptySeq
<1>2. Sums(<<>>, f)
  BY <1>1 DEF Sums
<1>3. f[0] = 0
  OBVIOUS
<1> HIDE DEF f, S
<1> QED
  BY <1>1, <1>2, <1>3, SumsUnique

LEMMA BytesOfAppend ==
  ASSUME NEW S, \A p \in S : p.len \in Nat, NEW q \in Seq(S), NEW p \in S,
         NEW r, r = Append(q, p)
  PROVE  Bytes(r) = Bytes(q) + HeaderBytes + p.len /\ Bytes(q) \in Nat
<1>1. PICK f : Sums(q, f) /\ Bytes(q) = f[Len(q)]
  BY BytesIsSum
<1> DEFINE n == Len(q)
           g == [i \in 0 .. n + 1 |->
                   IF i = n + 1 THEN f[n] + HeaderBytes + p.len ELSE f[i]]
<1>2. /\ r \in Seq(S) /\ Len(r) = n + 1 /\ n \in Nat
      /\ \A i \in 1 .. n : r[i] = q[i]
      /\ r[n + 1] = p /\ p.len \in Nat
  BY AppendFacts, SeqFacts
<1>3. /\ f \in [0 .. n -> Nat] /\ f[0] = 0
      /\ \A i \in 1 .. n : f[i] = f[i - 1] + HeaderBytes + q[i].len
  BY <1>1 DEF Sums
<1> HIDE DEF n
<1>4. f[n] + HeaderBytes + p.len \in Nat /\ f[n] \in Nat
  BY <1>2, <1>3 DEF HeaderBytes
<1>5. g \in [0 .. n + 1 -> Nat] /\ g[0] = 0 /\ g[n + 1] = f[n] + HeaderBytes + p.len
  BY <1>2, <1>3, <1>4
<1>6. ASSUME NEW i \in 1 .. n + 1 PROVE g[i] = g[i - 1] + HeaderBytes + r[i].len
  <2>1. CASE i = n + 1
    <3>1. i - 1 = n /\ i - 1 # n + 1 /\ i - 1 \in 0 .. n + 1 /\ i \in 0 .. n + 1
      BY <1>2, <2>1
    <3>2. g[i - 1] = f[n] /\ r[i] = p
      BY <1>2, <2>1, <3>1
    <3> QED
      BY <1>5, <2>1, <3>2
  <2>2. CASE i # n + 1
    <3>1. /\ i \in 1 .. n /\ i - 1 # n + 1 /\ i - 1 \in 0 .. n + 1
          /\ i \in 0 .. n + 1
      BY <1>2, <2>2
    <3>2. g[i] = f[i] /\ g[i - 1] = f[i - 1] /\ r[i] = q[i]
      BY <1>2, <2>2, <3>1
    <3> QED
      BY <1>3, <3>1, <3>2
  <2> QED
    BY <2>1, <2>2
<1> HIDE DEF g
<1>7. Sums(r, g)
  BY <1>2, <1>5, <1>6 DEF Sums
<1>8. Bytes(r) = g[n + 1]
  BY <1>2, <1>7, SumsUnique
<1> QED
  BY <1>1, <1>4, <1>5, <1>8 DEF n

LEMMA BytesOfTail ==
  ASSUME NEW S, \A p \in S : p.len \in Nat, NEW q \in Seq(S), q # <<>>,
         NEW r, r = Tail(q)
  PROVE  /\ Bytes(q) = Bytes(r) + (HeaderBytes + Head(q).len)
         /\ Bytes(q) \in Nat /\ Bytes(r) \in Nat /\ Head(q).len \in Nat
<1>1. PICK f : Sums(r, f) /\ Bytes(r) = f[Len(r)]
  BY BytesIsSum, TailFacts
<1> DEFINE n == Len(r)
           l == Head(q).len
           g == [i \in 0 .. n + 1 |->
                   IF i = 0 THEN 0 ELSE f[i - 1] + (HeaderBytes + l)]
<1>2. /\ r \in Seq(S) /\ n = Len(q) - 1 /\ Len(q) \in Nat \ {0} /\ l \in Nat
      /\ \A i \in 1 .. n : r[i] = q[i + 1]
      /\ q[1] = Head(q)
  BY TailFacts
<1>3. n \in Nat /\ n + 1 = Len(q) /\ HeaderBytes \in Nat
  BY <1>2 DEF HeaderBytes
<1>4. /\ f \in [0 .. n -> Nat] /\ f[0] = 0
      /\ \A i \in 1 .. n : f[i] = f[i - 1] + HeaderBytes + r[i].len
  BY <1>1 DEF Sums
<1> HIDE DEF n, l
<1>5. \A i \in 1 .. n + 1 : i - 1 \in 0 .. n /\ f[i - 1] \in Nat
  BY <1>3, <1>4
<1>6. /\ g \in [0 .. n + 1 -> Nat] /\ g[0] = 0 /\ g[n + 1] = f[n] + (HeaderBytes + l)
      /\ \A i \in 1 .. n + 1 : g[i] = f[i - 1] + (HeaderBytes + l)
  BY <1>2, <1>3, <1>5
<1>7. ASSUME NEW i \in 1 .. n + 1 PROVE g[i] = g[i - 1] + HeaderBytes + q[i].len
  <2>1. CASE i = 1
    <3>1. g[i - 1] = 0 /\ g[i] = 0 + (HeaderBytes + l) /\ q[i].len = l
      BY <1>2, <1>3, <1>4, <1>6, <2>1 DEF l
    <3> QED
      BY <1>2, <1>3, <3>1
  <2>2. CASE i # 1
    <3>1. i - 1 \in 1 .. n /\ i - 1 \in 1 .. n + 1 /\ (i - 1) + 1 = i
      BY <1>3, <2>2
    <3>2. /\ f[i - 1] = f[(i - 1) - 1] + HeaderBytes + q[i].len
          /\ g[i - 1] = f[(i - 1) - 1] + (HeaderBytes + l)
          /\ g[i] = f[i - 1] + (HeaderBytes + l)
      BY <1>2, <1>4, <1>6, <3>1
    <3>3. f[(i - 1) - 1] \in Nat /\ f[i - 1] \in Nat
      BY <1>5, <3>1
    <3>4. i \in 1 .. Len(q)
      BY <1>3
    <3>5. q[i].len \in Nat
      BY <3>4, SeqFacts
    <3> DEFINE a == f[(i - 1) - 1]
               b == f[i - 1]
               c == q[i].len
    <3>6. b = a + HeaderBytes + c /\ g[i - 1] = a + (HeaderBytes + l)
          /\ g[i] = b + (HeaderBytes + l) /\ a \in Nat /\ b \in Nat /\ c \in Nat
      BY <3>2, <3>3, <3>5
    <3> HIDE DEF a, b, c
    <3>7. g[i] = g[i - 1] + HeaderBytes + c
      BY ONLY <1>2, <1>3, <3>6
    <3> QED
      BY <3>7 DEF c
  <2> QED
    BY <2>1, <2>2
<1> HIDE DEF g
<1>8. Sums(q, g)
  BY <1>3, <1>6, <1>7 DEF Sums
<1>9. Bytes(q) = g[n + 1] /\ Bytes(q) \in Nat
  BY <1>3, <1>8, SumsUnique
<1>10. f[n] \in Nat
  BY <1>3, <1>4
<1> QED
  BY <1>1, <1>2, <1>6, <1>9, <1>10 DEF n, l

-----------------------------------------------------------------------------
(* What the driver's sockets, queue and requests have to agree on.         *)

DriverFields == {"sockets", "send_queue", "next_stream_id", "ior", "a2r",
                 "serious_error", "hist"}

SocketFields == {"stream_id", "conv", "flags", "pending_connect", "pending_read",
                 "pending_write", "required_length", "rq"}

\* Packets from the Amiga, and requests that the driver holds.
AmigaPacket ==
  [type : {"CONNECT", "DATA", "EOS", "RESET"}, id : 1 .. StreamIds, len : Nat,
   val : Names \cup {NoName} \cup Nat, conv : Conversations]

Asked ==
  {q \in [at : {"driver"}, command : Commands, key : Keys, len : Nat, val : Nat,
          name : Names \cup {NoName}] :
     /\ q.command = "CONNECT" => q.val \in Conversations
     /\ q.command = "EOS" => q.len = 0}

AllRequests == [Requests -> Asked \cup {AtApplication}]

\* A pending request of the socket of k.
Held(r, k, cmds, requests) ==
  \/ r = NoRequest
  \/ /\ r \in Requests /\ requests[r].at = "driver"
     /\ requests[r].key = k /\ requests[r].command \in cmds

Waiting(s) ==
  \/ s.pending_connect # NoRequest \/ s.pending_write # NoRequest
  \/ "SHOULD_SEND_RESET" \in s.flags

WaitLen(s, requests) ==
  IF s.pending_connect # NoRequest THEN requests[s.pending_connect].len
  ELSE IF s.pending_write # NoRequest THEN requests[s.pending_write].len ELSE 0

NonePending(s) ==
  /\ s.pending_connect = NoRequest /\ s.pending_read = NoRequest
  /\ s.pending_write = NoRequest

SlotsOK(s, k, requests) ==
  /\ Held(s.pending_connect, k, {"CONNECT"}, requests)
  /\ Held(s.pending_read, k, {"READ"}, requests)
  /\ Held(s.pending_write, k, {"WRITE", "EOS"}, requests)
  /\ s.pending_connect # NoRequest =>
       s.pending_read = NoRequest /\ s.pending_write = NoRequest

SocketOK(s, k, requests, queued) ==
  /\ DOMAIN s = SocketFields /\ s.conv \in Conversations
  /\ SlotsOK(s, k, requests)
  /\ queued <=> "IN_SEND_QUEUE" \in s.flags
  /\ queued => Waiting(s) /\ s.required_length = WaitLen(s, requests)
  /\ s.pending_write # NoRequest \/ "SHOULD_SEND_RESET" \in s.flags => queued
  /\ "CLOSED" \in s.flags <=> "SHOULD_SEND_RESET" \in s.flags
  /\ "CLOSED" \in s.flags => NonePending(s) /\ s.rq = <<>>

HasId(q, id) == \E i \in 1 .. Len(q) : q[i].id = id

\* A socket whose CONNECT waits for room has an id nobody has seen: W holds the
\* ids the daemon knows.
Unsent(d, k, W) ==
  d.sockets[k].pending_connect # NoRequest /\ Among(d.send_queue, k) =>
    d.sockets[k].stream_id \notin W /\ ~HasId(d.a2r, d.sockets[k].stream_id)

InSlot(d, k, r) ==
  /\ k \in DOMAIN d.sockets
  /\ \/ d.sockets[k].pending_connect = r \/ d.sockets[k].pending_read = r
     \/ d.sockets[k].pending_write = r

\* What holds of each key.  P is the set of requests that wait in the port or
\* are being handled; any other is in a slot of the socket it is for.
KeyOK(d, k, P, W) ==
  /\ k \notin DOMAIN d.sockets => ~Among(d.send_queue, k)
  /\ k \in DOMAIN d.sockets =>
       /\ SocketOK(d.sockets[k], k, d.ior, Among(d.send_queue, k))
       /\ Unsent(d, k, W)
  /\ \A r \in Requests :
       d.ior[r].at = "driver" /\ d.ior[r].key = k => (r \in P <=> ~InSlot(d, k, r))

\* The ids below n have been given out.
RingOK(q, n) ==
  /\ q \in Seq(AmigaPacket) /\ Bytes(q) <= RingSize - 1
  /\ \A i \in 1 .. Len(q) : q[i].id < n

IdsOK(d, n) ==
  /\ n \in 1 .. StreamIds + 1
  /\ d.next_stream_id = IF n = StreamIds + 1 THEN 1 ELSE n
  /\ \A k \in DOMAIN d.sockets :
       d.sockets[k].stream_id \in Nat \ {0} /\ d.sockets[k].stream_id < n
  /\ \A j, k \in DOMAIN d.sockets :
       d.sockets[j].stream_id = d.sockets[k].stream_id => j = k

QueueOK(d) ==
  /\ DOMAIN d = DriverFields /\ DOMAIN d.sockets \subseteq Keys
  /\ d.send_queue \in Seq(Keys) /\ Once(d.send_queue)

DriverInv(d, P, n, W) ==
  /\ QueueOK(d) /\ RingOK(d.a2r, n) /\ IdsOK(d, n)
  /\ d.ior \in AllRequests
  /\ P \subseteq Requests /\ \A r \in P : d.ior[r].at = "driver"
  /\ \A k \in Keys : KeyOK(d, k, P, W)

-----------------------------------------------------------------------------
(* A step changes one socket.                                              *)

\* e is d but for the socket of k and its place in the queue.
OthersKept(d, e, k) ==
  \A j \in Keys \ {k} :
    /\ Among(e.send_queue, j) <=> Among(d.send_queue, j)
    /\ j \in DOMAIN e.sockets <=> j \in DOMAIN d.sockets
    /\ j \in DOMAIN d.sockets => e.sockets[j] = d.sockets[j]

\* Requests on k may have been answered; those in P and not in Q are answered or
\* in a slot of k.
RequestsKept(d, e, k, P, Q) ==
  /\ e.ior \in AllRequests /\ Q \subseteq P
  /\ \A r \in Requests : e.ior[r].at = "driver" => e.ior[r] = d.ior[r]
  /\ \A r \in Requests : d.ior[r].at = "driver" /\ d.ior[r].key # k =>
       e.ior[r] = d.ior[r] /\ (r \in Q <=> r \in P)
  /\ \A r \in Q : e.ior[r].at = "driver"

\* What is new in the ring is of the socket of k, or of the next id.
PacketsOf(d, e, k, n) ==
  \A id : HasId(e.a2r, id) =>
    \/ HasId(d.a2r, id) \/ id = n
    \/ k \in DOMAIN d.sockets /\ id = d.sockets[k].stream_id

LEMMA OneSocket ==
  ASSUME NEW d, NEW e, NEW k \in Keys, NEW P, NEW Q, NEW n, NEW m, NEW W,
         DriverInv(d, P, n, W), QueueOK(e), RingOK(e.a2r, m), IdsOK(e, m),
         OthersKept(d, e, k), RequestsKept(d, e, k, P, Q), PacketsOf(d, e, k, n),
         KeyOK(e, k, Q, W)
  PROVE  DriverInv(e, Q, m, W)
<1>1. Q \subseteq Requests /\ e.ior \in AllRequests /\ \A r \in Q : e.ior[r].at = "driver"
  BY DEF DriverInv, RequestsKept
<1>2. ASSUME NEW j \in Keys, j # k PROVE KeyOK(e, j, Q, W)
  <2>1. /\ Among(e.send_queue, j) <=> Among(d.send_queue, j)
        /\ j \in DOMAIN e.sockets <=> j \in DOMAIN d.sockets
        /\ j \in DOMAIN d.sockets => e.sockets[j] = d.sockets[j]
    BY <1>2 DEF OthersKept
  <2>2. KeyOK(d, j, P, W)
    BY DEF DriverInv
  <2>3. \A r \in Requests : d.ior[r].at = "driver" /\ d.ior[r].key = j =>
          e.ior[r] = d.ior[r] /\ (r \in Q <=> r \in P)
    BY <1>2 DEF RequestsKept
  <2>4. \A r \in Requests : e.ior[r].at = "driver" => e.ior[r] = d.ior[r]
    BY DEF RequestsKept
  <2>5. ASSUME NEW r \in Requests, e.ior[r].at = "driver", e.ior[r].key = j
        PROVE  r \in Q <=> ~InSlot(e, j, r)
    <3>1. e.ior[r] = d.ior[r] /\ (r \in Q <=> r \in P)
      BY <2>3, <2>4, <2>5
    <3>2. r \in P <=> ~InSlot(d, j, r)
      BY <2>2, <2>5, <3>1 DEF KeyOK
    <3>3. InSlot(e, j, r) <=> InSlot(d, j, r)
      BY <2>1 DEF InSlot
    <3> QED
      BY <3>1, <3>2, <3>3
  <2>6. ASSUME j \in DOMAIN d.sockets
        PROVE  SocketOK(e.sockets[j], j, e.ior, Among(e.send_queue, j))
    <3> DEFINE s == d.sockets[j]
               old == d.ior
               new == e.ior
               was == Among(d.send_queue, j)
               is == Among(e.send_queue, j)
    <3>1. SocketOK(s, j, old, was) /\ e.sockets[j] = s /\ (is <=> was)
      BY <2>1, <2>2, <2>6 DEF KeyOK
    <3>2. \A r, cmds : Held(r, j, cmds, old) =>
            Held(r, j, cmds, new) /\ (r # NoRequest => new[r] = old[r])
      BY <2>3 DEF Held
    <3> HIDE DEF s, old, new, was, is
    <3>3. SlotsOK(s, j, old)
      BY <3>1 DEF SocketOK
    <3>4. SlotsOK(s, j, new) /\ WaitLen(s, new) = WaitLen(s, old)
      BY <3>2, <3>3 DEF SlotsOK, WaitLen
    <3>5. SocketOK(s, j, new, is)
      BY <3>1, <3>4 DEF SocketOK
    <3> QED
      BY <3>1, <3>5 DEF s, new, is
  <2>7. ASSUME j \in DOMAIN d.sockets PROVE Unsent(e, j, W)
    <3> DEFINE id == d.sockets[j].stream_id
    <3>1. Unsent(d, j, W) /\ e.sockets[j] = d.sockets[j]
      BY <2>1, <2>2, <2>7 DEF KeyOK
    <3>2. IdsOK(d, n)
      BY DEF DriverInv
    <3>3. id # n
      BY <2>7, <3>2 DEF IdsOK
    <3>4. k \in DOMAIN d.sockets => id # d.sockets[k].stream_id
      BY <1>2, <2>7, <3>2 DEF IdsOK
    <3>5. HasId(e.a2r, id) => HasId(d.a2r, id)
      BY <3>3, <3>4 DEF PacketsOf
    <3> QED
      BY <2>1, <3>1, <3>5 DEF Unsent
  <2>8. j \notin DOMAIN e.sockets => ~Among(e.send_queue, j)
    BY <2>1, <2>2 DEF KeyOK
  <2> QED
    BY <2>1, <2>5, <2>6, <2>7, <2>8 DEF KeyOK
<1>3. \A j \in Keys : KeyOK(e, j, Q, W)
  BY <1>2
<1> QED
  BY <1>1, <1>3 DEF DriverInv

-----------------------------------------------------------------------------
(* Parts of handlers.                                                      *)

LEMMA DriverFacts ==
  ASSUME NEW d, NEW P, NEW n, NEW W, DriverInv(d, P, n, W)
  PROVE  /\ QueueOK(d) /\ RingOK(d.a2r, n) /\ IdsOK(d, n) /\ d.ior \in AllRequests
         /\ DOMAIN d = DriverFields /\ DOMAIN d.sockets \subseteq Keys
         /\ d.send_queue \in Seq(Keys) /\ Once(d.send_queue)
         /\ P \subseteq Requests /\ \A r \in P : d.ior[r] \in Asked
         /\ \A k \in Keys : KeyOK(d, k, P, W)
<1>1. \A r \in P : d.ior[r] \in Asked
  BY DEF DriverInv, AllRequests, AtApplication
<1> QED
  BY <1>1 DEF DriverInv, QueueOK

LEMMA SocketFacts ==
  ASSUME NEW d, NEW P, NEW n, NEW W, DriverInv(d, P, n, W), NEW k \in DOMAIN d.sockets
  PROVE  /\ k \in Keys /\ KeyOK(d, k, P, W) /\ Unsent(d, k, W)
         /\ SocketOK(d.sockets[k], k, d.ior, Among(d.send_queue, k))
         /\ DOMAIN d.sockets[k] = SocketFields
         /\ d.sockets[k].conv \in Conversations
         /\ d.sockets[k].stream_id \in 1 .. StreamIds /\ d.sockets[k].stream_id < n
<1>1. k \in Keys
  BY DriverFacts
<1>2. KeyOK(d, k, P, W) /\ IdsOK(d, n)
  BY <1>1, DriverFacts
<1>3. d.sockets[k].stream_id \in 1 .. StreamIds /\ d.sockets[k].stream_id < n
  BY <1>2, DriverAssumption DEF IdsOK
<1> QED
  BY <1>1, <1>2, <1>3 DEF KeyOK, SocketOK

\* serious_error and hist are not looked at.
LEMMA SameDriver ==
  ASSUME NEW d, NEW P, NEW n, NEW W, DriverInv(d, P, n, W), NEW e,
         DOMAIN e = DriverFields, e.sockets = d.sockets, e.send_queue = d.send_queue,
         e.next_stream_id = d.next_stream_id, e.ior = d.ior, e.a2r = d.a2r
  PROVE  DriverInv(e, P, n, W)
<1>1. QueueOK(e) /\ RingOK(e.a2r, n) /\ IdsOK(e, n)
  BY DEF DriverInv, QueueOK, IdsOK
<1>2. \A k \in Keys : KeyOK(e, k, P, W)
  BY DEF DriverInv, KeyOK, Unsent, InSlot
<1> QED
  BY <1>1, <1>2 DEF DriverInv

\* The slots of a socket are looked up in the requests, and nothing else.
LEMMA SocketKept ==
  ASSUME NEW s, NEW k, NEW old, NEW new, NEW queued, SocketOK(s, k, old, queued),
         \A r \in Requests :
           r = s.pending_connect \/ r = s.pending_read \/ r = s.pending_write
             => new[r] = old[r]
  PROVE  SocketOK(s, k, new, queued)
<1>1. SlotsOK(s, k, old)
  BY DEF SocketOK
<1>2. SlotsOK(s, k, new) /\ WaitLen(s, new) = WaitLen(s, old)
  BY <1>1 DEF SlotsOK, WaitLen, Held
<1> QED
  BY <1>2 DEF SocketOK

LEMMA ReplyKeeps ==
  ASSUME NEW d, NEW P, NEW n, NEW W, DriverInv(d, P, n, W), NEW r \in P,
         NEW e, e = Reply(d, r)
  PROVE  /\ DriverInv(e, P \ {r}, n, W) /\ e.sockets = d.sockets
         /\ e.send_queue = d.send_queue /\ e.a2r = d.a2r
         /\ e.next_stream_id = d.next_stream_id
<1> DEFINE k == d.ior[r].key
           Q == P \ {r}
<1>1. r \in Requests /\ d.ior[r] \in Asked /\ k \in Keys /\ d.ior \in AllRequests
  BY DriverFacts DEF Asked
<1>2. /\ DOMAIN e = DriverFields /\ e.sockets = d.sockets
      /\ e.send_queue = d.send_queue /\ e.a2r = d.a2r
      /\ e.next_stream_id = d.next_stream_id
      /\ e.ior = [d.ior EXCEPT ![r] = AtApplication]
  BY DriverFacts DEF Reply, DriverFields
<1>3. /\ e.ior \in AllRequests /\ e.ior[r].at = "application"
      /\ \A x \in Requests : x # r => e.ior[x] = d.ior[x]
  BY <1>1, <1>2 DEF AllRequests, AtApplication
<1>4. \A x \in P : d.ior[x].at = "driver" /\ x \in Requests
  BY DEF DriverInv
<1> HIDE DEF k
<1>5. QueueOK(e) /\ RingOK(e.a2r, n) /\ IdsOK(e, n)
  BY <1>2, DriverFacts DEF QueueOK, IdsOK
<1>6. OthersKept(d, e, k) /\ PacketsOf(d, e, k, n)
  BY <1>2 DEF OthersKept, PacketsOf
<1>7. RequestsKept(d, e, k, P, Q)
  BY <1>1, <1>3, <1>4 DEF RequestsKept, k
<1>8. KeyOK(e, k, Q, W)
  <2>1. KeyOK(d, k, P, W)
    BY <1>1, DriverFacts
  <2>2. ~InSlot(d, k, r)
    BY <1>1, <1>4, <2>1 DEF KeyOK, k
  <2>3. ASSUME k \in DOMAIN d.sockets
        PROVE  SocketOK(e.sockets[k], k, e.ior, Among(e.send_queue, k))
    <3>1. SocketOK(d.sockets[k], k, d.ior, Among(d.send_queue, k))
      BY <2>1, <2>3 DEF KeyOK
    <3>2. \A x \in Requests :
            \/ x = d.sockets[k].pending_connect \/ x = d.sockets[k].pending_read
            \/ x = d.sockets[k].pending_write
            => e.ior[x] = d.ior[x]
      BY <1>3, <2>2, <2>3 DEF InSlot
    <3> DEFINE s == d.sockets[k]
               old == d.ior
               new == e.ior
               queued == Among(d.send_queue, k)
    <3> HIDE DEF s, old, new, queued
    <3>3. SocketOK(s, k, old, queued)
      BY <3>1 DEF s, old, queued
    <3>4. \A x \in Requests :
            x = s.pending_connect \/ x = s.pending_read \/ x = s.pending_write
              => new[x] = old[x]
      BY <3>2 DEF s, old, new
    <3>5. SocketOK(s, k, new, queued)
      BY ONLY <3>3, <3>4, SocketKept
    <3> QED
      BY <1>2, <3>5 DEF s, new, queued
  <2>4. k \in DOMAIN d.sockets => Unsent(e, k, W)
    BY <1>2, <2>1 DEF KeyOK, Unsent
  <2>5. ASSUME NEW x \in Requests, e.ior[x].at = "driver", e.ior[x].key = k
        PROVE  x \in Q <=> ~InSlot(e, k, x)
    <3>1. x # r /\ e.ior[x] = d.ior[x]
      BY <1>3, <2>5
    <3>2. x \in P <=> ~InSlot(d, k, x)
      BY <2>1, <2>5, <3>1 DEF KeyOK
    <3> QED
      BY <1>2, <3>1, <3>2 DEF InSlot
  <2> QED
    BY <1>2, <2>1, <2>3, <2>4, <2>5 DEF KeyOK
<1>9. DriverInv(e, Q, n, W)
  BY <1>1, <1>5, <1>6, <1>7, <1>8, OneSocket
<1> QED
  BY <1>2, <1>9

\* T is S but for k.
Beside(S, T, k) ==
  DOMAIN T = DOMAIN S /\ \A j \in DOMAIN S : j # k => T[j] = S[j]

\* e is d but for what the socket of k is and which requests on it are answered.
SocketStep(d, e, k, P, Q) ==
  LET s == d.sockets[k]
      t == e.sockets[k]
  IN /\ k \in DOMAIN d.sockets /\ Beside(d.sockets, e.sockets, k)
     /\ DOMAIN e = DriverFields /\ e.send_queue = d.send_queue
     /\ e.next_stream_id = d.next_stream_id /\ e.a2r = d.a2r
     /\ RequestsKept(d, e, k, P, Q) /\ t.stream_id = s.stream_id
     /\ t.pending_connect # NoRequest => t.pending_connect = s.pending_connect
     /\ SocketOK(t, k, e.ior, Among(d.send_queue, k))
     /\ \A x \in Requests : e.ior[x].at = "driver" /\ e.ior[x].key = k =>
          (x \in Q <=> x # t.pending_connect /\ x # t.pending_read
                        /\ x # t.pending_write)

LEMMA SocketChanged ==
  ASSUME NEW d, NEW P, NEW n, NEW W, DriverInv(d, P, n, W),
         NEW e, NEW k, NEW Q, SocketStep(d, e, k, P, Q)
  PROVE  DriverInv(e, Q, n, W)
<1> DEFINE t == e.sockets[k]
<1>0. /\ k \in DOMAIN d.sockets /\ Beside(d.sockets, e.sockets, k)
      /\ DOMAIN e = DriverFields /\ e.send_queue = d.send_queue
      /\ e.next_stream_id = d.next_stream_id /\ e.a2r = d.a2r
      /\ RequestsKept(d, e, k, P, Q) /\ t.stream_id = d.sockets[k].stream_id
      /\ t.pending_connect # NoRequest =>
           t.pending_connect = d.sockets[k].pending_connect
      /\ SocketOK(t, k, e.ior, Among(d.send_queue, k))
      /\ \A x \in Requests : e.ior[x].at = "driver" /\ e.ior[x].key = k =>
          (x \in Q <=> x # t.pending_connect /\ x # t.pending_read
                        /\ x # t.pending_write)
  BY DEF SocketStep
<1>1. /\ k \in Keys /\ k \in DOMAIN e.sockets /\ KeyOK(d, k, P, W)
      /\ DOMAIN e.sockets = DOMAIN d.sockets
  BY <1>0, SocketFacts DEF Beside
<1>2. QueueOK(e) /\ RingOK(e.a2r, n)
  BY <1>0, <1>1, DriverFacts DEF QueueOK
<1>3. IdsOK(e, n)
  <2>1. IdsOK(d, n)
    BY DriverFacts
  <2>2. \A j \in DOMAIN d.sockets : e.sockets[j].stream_id = d.sockets[j].stream_id
    BY <1>0 DEF Beside
  <2> QED
    BY <1>0, <1>1, <2>1, <2>2 DEF IdsOK
<1>4. OthersKept(d, e, k) /\ PacketsOf(d, e, k, n)
  BY <1>0, <1>1 DEF OthersKept, PacketsOf, Beside
<1>5. Unsent(e, k, W)
  BY <1>0, <1>1 DEF KeyOK, Unsent
<1>6. KeyOK(e, k, Q, W)
  BY <1>0, <1>1, <1>5 DEF KeyOK, InSlot
<1> QED
  BY <1>0, <1>1, <1>2, <1>3, <1>4, <1>6, OneSocket

\* The requests of the other keys are as they were when no request is answered.
LEMMA NoneAnswered ==
  ASSUME NEW d, NEW P, NEW n, NEW W, DriverInv(d, P, n, W), NEW k,
         NEW e, e.ior = d.ior, NEW Q, Q \subseteq P,
         \A r \in P : r \in Q \/ d.ior[r].key = k
  PROVE  RequestsKept(d, e, k, P, Q)
BY DEF DriverInv, RequestsKept

\* e is d but for fields fs of the socket of k, and fields gs of the driver.
Touched(d, e, k, fs, gs) ==
  /\ DOMAIN e = DriverFields /\ Beside(d.sockets, e.sockets, k)
  /\ \A g \in DriverFields : g \in gs \/ g \in {"sockets", "hist"} \/ e[g] = d[g]
  /\ DOMAIN e.sockets[k] = SocketFields
  /\ \A g \in SocketFields : g \in fs \/ e.sockets[k][g] = d.sockets[k][g]

\* Flags that say how far the EOS has come, and what has been received.
LEMMA FlagKeeps ==
  ASSUME NEW d, NEW P, NEW n, NEW W, DriverInv(d, P, n, W),
         NEW k \in DOMAIN d.sockets,
         NEW f \in {"RCVD_EOS_FROM_APP", "RCVD_EOS_FROM_RPI", "SENT_EOS_TO_APP",
                    "SENT_EOS_TO_RPI"},
         NEW e, Touched(d, e, k, {"flags"}, {}),
         e.sockets[k].flags = d.sockets[k].flags \cup {f}
  PROVE  DriverInv(e, P, n, W)
<1> DEFINE s == d.sockets[k]
           t == e.sockets[k]
<1>1. /\ DOMAIN s = SocketFields /\ SocketOK(s, k, d.ior, Among(d.send_queue, k))
      /\ k \in Keys /\ KeyOK(d, k, P, W) /\ DOMAIN d = DriverFields
  BY SocketFacts, DriverFacts
<1>2. /\ DOMAIN e = DriverFields /\ Beside(d.sockets, e.sockets, k)
      /\ \A g \in DriverFields : g \in {"sockets", "hist"} \/ e[g] = d[g]
      /\ DOMAIN t = SocketFields /\ t.flags = s.flags \cup {f}
      /\ \A g \in SocketFields : g # "flags" => t[g] = s[g]
  BY DEF Touched, DriverFields, SocketFields
<1>3. /\ e.send_queue = d.send_queue /\ e.next_stream_id = d.next_stream_id
      /\ e.a2r = d.a2r /\ e.ior = d.ior
  BY <1>2 DEF DriverFields
<1>4. /\ t.stream_id = s.stream_id /\ t.conv = s.conv
      /\ t.pending_connect = s.pending_connect
      /\ t.pending_read = s.pending_read /\ t.pending_write = s.pending_write
      /\ t.required_length = s.required_length /\ t.rq = s.rq
  BY <1>2 DEF SocketFields
<1>5. /\ "CLOSED" \in t.flags <=> "CLOSED" \in s.flags
      /\ "IN_SEND_QUEUE" \in t.flags <=> "IN_SEND_QUEUE" \in s.flags
      /\ "SHOULD_SEND_RESET" \in t.flags <=> "SHOULD_SEND_RESET" \in s.flags
  BY <1>2
<1> DEFINE queued == Among(d.send_queue, k)
<1> HIDE DEF s, t, queued
<1>6. SocketOK(t, k, d.ior, queued)
  <2>1. SocketOK(s, k, d.ior, queued)
    BY <1>1 DEF queued
  <2> QED
    BY <1>2, <1>4, <1>5, <2>1 DEF SocketOK, SlotsOK, Waiting, WaitLen, NonePending
<1>7. RequestsKept(d, e, k, P, P)
  BY <1>3, NoneAnswered
<1>8. \A x \in Requests : e.ior[x].at = "driver" /\ e.ior[x].key = k =>
           (x \in P <=> x # t.pending_connect /\ x # t.pending_read
                         /\ x # t.pending_write)
  BY <1>1, <1>3, <1>4 DEF KeyOK, InSlot, s
<1>9. SocketStep(d, e, k, P, P)
  BY <1>2, <1>3, <1>4, <1>6, <1>7, <1>8 DEF s, t, queued, SocketStep
<1> QED
  BY <1>9, SocketChanged

\* The received data of an open socket.
LEMMA RqKeeps ==
  ASSUME NEW d, NEW P, NEW n, NEW W, DriverInv(d, P, n, W),
         NEW k \in DOMAIN d.sockets, "CLOSED" \notin d.sockets[k].flags,
         NEW e, Touched(d, e, k, {"rq"}, {})
  PROVE  DriverInv(e, P, n, W)
<1> DEFINE s == d.sockets[k]
           t == e.sockets[k]
           queued == Among(d.send_queue, k)
<1>1. SocketOK(s, k, d.ior, queued) /\ k \in Keys /\ KeyOK(d, k, P, W)
  BY SocketFacts
<1>2. /\ DOMAIN e = DriverFields /\ Beside(d.sockets, e.sockets, k)
      /\ e.send_queue = d.send_queue /\ e.next_stream_id = d.next_stream_id
      /\ e.a2r = d.a2r /\ e.ior = d.ior
  BY DEF Touched, DriverFields
<1>3. /\ DOMAIN t = SocketFields
      /\ t.stream_id = s.stream_id /\ t.conv = s.conv /\ t.flags = s.flags
      /\ t.pending_connect = s.pending_connect
      /\ t.pending_read = s.pending_read /\ t.pending_write = s.pending_write
      /\ t.required_length = s.required_length
  BY DEF Touched, SocketFields
<1>4. "CLOSED" \notin s.flags
  OBVIOUS
<1>5. RequestsKept(d, e, k, P, P)
  BY <1>2, NoneAnswered
<1>6. \A x \in Requests : e.ior[x].at = "driver" /\ e.ior[x].key = k =>
           (x \in P <=> x # t.pending_connect /\ x # t.pending_read
                         /\ x # t.pending_write)
  BY <1>1, <1>2, <1>3 DEF KeyOK, InSlot
<1>7. SocketOK(t, k, e.ior, queued)
  <2> HIDE DEF s, t, queued
  <2> QED
    BY <1>1, <1>2, <1>3, <1>4 DEF SocketOK, SlotsOK, Waiting, WaitLen, NonePending
<1>8. SocketStep(d, e, k, P, P)
  BY <1>2, <1>3, <1>5, <1>6, <1>7 DEF SocketStep
<1> QED
  BY <1>8, SocketChanged

\* A READ that has to wait.
LEMMA ReadPending ==
  ASSUME NEW d, NEW P, NEW n, NEW W, DriverInv(d, P, n, W),
         NEW k \in DOMAIN d.sockets, "CLOSED" \notin d.sockets[k].flags,
         d.sockets[k].pending_connect = NoRequest,
         d.sockets[k].pending_read = NoRequest,
         NEW r \in P, d.ior[r].key = k, d.ior[r].command = "READ",
         NEW e, e = [d EXCEPT !.sockets[k].pending_read = r]
  PROVE  DriverInv(e, P \ {r}, n, W)
<1> DEFINE s == d.sockets[k]
           t == e.sockets[k]
           queued == Among(d.send_queue, k)
           Q == P \ {r}
<1>1. /\ SocketOK(s, k, d.ior, queued) /\ k \in Keys /\ KeyOK(d, k, P, W)
      /\ DOMAIN s = SocketFields /\ DOMAIN d = DriverFields
  BY SocketFacts, DriverFacts
<1>2. Touched(d, e, k, {"pending_read"}, {}) /\ t.pending_read = r
  BY <1>1 DEF Touched, Beside, DriverFields, SocketFields
<1>3. /\ DOMAIN e = DriverFields /\ Beside(d.sockets, e.sockets, k)
      /\ e.send_queue = d.send_queue /\ e.next_stream_id = d.next_stream_id
      /\ e.a2r = d.a2r /\ e.ior = d.ior
  BY <1>2 DEF Touched, DriverFields
<1>4. /\ DOMAIN t = SocketFields
      /\ t.stream_id = s.stream_id /\ t.conv = s.conv /\ t.flags = s.flags
      /\ t.pending_connect = s.pending_connect /\ t.pending_write = s.pending_write
      /\ t.required_length = s.required_length /\ t.rq = s.rq
  BY <1>2 DEF Touched, SocketFields
<1>5. /\ "CLOSED" \notin s.flags /\ s.pending_connect = NoRequest
      /\ s.pending_read = NoRequest /\ r \in Requests /\ r # NoRequest
      /\ d.ior[r].at = "driver" /\ d.ior[r].key = k /\ d.ior[r].command = "READ"
  BY DriverFacts, DriverAssumption DEF Asked
<1>6. RequestsKept(d, e, k, P, Q)
  BY <1>3, NoneAnswered
<1>7. \A x \in Requests : e.ior[x].at = "driver" /\ e.ior[x].key = k =>
           (x \in Q <=> x # t.pending_connect /\ x # t.pending_read
                         /\ x # t.pending_write)
  <2>1. ASSUME NEW x \in Requests, e.ior[x].at = "driver", e.ior[x].key = k
        PROVE  x \in Q <=> x # t.pending_connect /\ x # t.pending_read
                            /\ x # t.pending_write
    <3>1. x \in P <=> ~InSlot(d, k, x)
      BY <1>1, <1>3, <2>1 DEF KeyOK
    <3>2. InSlot(d, k, x) <=> x = s.pending_connect \/ x = s.pending_read
                               \/ x = s.pending_write
      BY DEF InSlot
    <3>3. x # NoRequest
      BY DriverAssumption
    <3> QED
      BY <1>2, <1>4, <1>5, <3>1, <3>2, <3>3
  <2> QED
    BY <2>1
<1>8. SocketOK(t, k, e.ior, queued)
  <2>1. t.pending_read = r
    BY <1>2
  <2> HIDE DEF s, t, queued
  <2> QED
    BY <1>1, <1>3, <1>4, <1>5, <2>1 DEF SocketOK, SlotsOK, Waiting, WaitLen, Held
<1>9. SocketStep(d, e, k, P, Q)
  BY <1>3, <1>4, <1>6, <1>7, <1>8 DEF SocketStep
<1> QED
  BY <1>9, SocketChanged

\* The answer to a READ, or to a CONNECT that has been sent.
LEMMA PendingAnswered ==
  ASSUME NEW d, NEW P, NEW n, NEW W, DriverInv(d, P, n, W),
         NEW k \in DOMAIN d.sockets, NEW f \in {"pending_read", "pending_connect"},
         NEW r, r = d.sockets[k][f], r # NoRequest,
         f = "pending_connect" => ~Among(d.send_queue, k),
         NEW e, Touched(d, e, k, {f}, {"ior"}), e.sockets[k][f] = NoRequest,
         e.ior = [d.ior EXCEPT ![r] = AtApplication]
  PROVE  DriverInv(e, P, n, W)
<1> DEFINE s == d.sockets[k]
           t == e.sockets[k]
           queued == Among(d.send_queue, k)
<1>1. /\ SocketOK(s, k, d.ior, queued) /\ k \in Keys /\ KeyOK(d, k, P, W)
      /\ d.ior \in AllRequests
  BY SocketFacts, DriverFacts
<1>2. SlotsOK(s, k, d.ior)
  BY <1>1 DEF SocketOK
<1>3. r \in Requests /\ d.ior[r].at = "driver" /\ d.ior[r].key = k /\ InSlot(d, k, r)
  BY <1>2 DEF SlotsOK, Held, InSlot
<1>4. /\ DOMAIN e = DriverFields /\ Beside(d.sockets, e.sockets, k)
      /\ e.send_queue = d.send_queue /\ e.next_stream_id = d.next_stream_id
      /\ e.a2r = d.a2r
  BY DEF Touched, DriverFields
<1>5. /\ DOMAIN t = SocketFields
      /\ t.stream_id = s.stream_id /\ t.conv = s.conv /\ t.flags = s.flags
      /\ t.pending_write = s.pending_write
      /\ t.required_length = s.required_length /\ t.rq = s.rq
      /\ t[f] = NoRequest
      /\ f = "pending_read" => t.pending_connect = s.pending_connect
      /\ f = "pending_connect" => t.pending_read = s.pending_read
  BY DEF Touched, SocketFields
<1>6. /\ e.ior \in AllRequests /\ e.ior[r].at = "application"
      /\ \A x \in Requests : x # r => e.ior[x] = d.ior[x]
  BY <1>1, <1>3 DEF AllRequests, AtApplication
<1>7. r \notin P /\ \A x \in P : d.ior[x].at = "driver" /\ x \in Requests
  BY <1>1, <1>3 DEF KeyOK, DriverInv
<1>8. RequestsKept(d, e, k, P, P)
  BY <1>3, <1>6, <1>7 DEF RequestsKept
<1>9. \A x \in Requests : e.ior[x].at = "driver" /\ e.ior[x].key = k =>
           (x \in P <=> x # t.pending_connect /\ x # t.pending_read
                         /\ x # t.pending_write)
  <2>1. ASSUME NEW x \in Requests, e.ior[x].at = "driver", e.ior[x].key = k
        PROVE  x \in P <=> x # t.pending_connect /\ x # t.pending_read
                            /\ x # t.pending_write
    <3>1. x # r /\ e.ior[x] = d.ior[x] /\ x # NoRequest
      BY <1>6, <2>1, DriverAssumption
    <3>2. x \in P <=> ~InSlot(d, k, x)
      BY <1>1, <2>1, <3>1 DEF KeyOK
    <3>3. InSlot(d, k, x) <=> x = s.pending_connect \/ x = s.pending_read
                               \/ x = s.pending_write
      BY DEF InSlot
    <3>4. CASE f = "pending_read"
      BY <1>5, <3>1, <3>2, <3>3, <3>4
    <3>5. CASE f = "pending_connect"
      BY <1>5, <3>1, <3>2, <3>3, <3>5
    <3> QED
      BY <3>4, <3>5
  <2> QED
    BY <2>1
<1>10. SocketOK(t, k, e.ior, queued)
  <2> DEFINE old == d.ior
             new == e.ior
  <2>1. \A x, cmds : x # r /\ Held(x, k, cmds, old) => Held(x, k, cmds, new)
    BY <1>6 DEF Held
  <2>2. \A x : x # r /\ x # NoRequest /\ x \in Requests => new[x].len = old[x].len
    BY <1>6
  <2>3. Held(NoRequest, k, {"READ"}, new) /\ Held(NoRequest, k, {"CONNECT"}, new)
    BY DEF Held
  <2>4. SocketOK(s, k, old, queued) /\ SlotsOK(s, k, old)
    BY <1>1, <1>2
  <2> HIDE DEF old, new
  <2>5. CASE f = "pending_read"
    <3>1. s.pending_read = r /\ t.pending_read = NoRequest
          /\ t.pending_connect = s.pending_connect
      BY <1>5, <2>5
    <3>2. old[r].command = "READ"
      BY <2>4, <3>1, DriverAssumption DEF SlotsOK, Held
    <3>3. s.pending_connect # r /\ s.pending_write # r
      BY <2>4, <3>1, <3>2 DEF SlotsOK, Held
    <3>4. /\ s.pending_connect = NoRequest \/ s.pending_connect \in Requests
          /\ s.pending_write = NoRequest \/ s.pending_write \in Requests
      BY <2>4 DEF SlotsOK, Held
    <3> HIDE DEF s, t, queued
    <3>5. SlotsOK(t, k, new)
      BY <1>5, <2>1, <2>3, <2>4, <3>1, <3>3 DEF SlotsOK
    <3>6. WaitLen(t, new) = WaitLen(s, old) /\ (Waiting(t) <=> Waiting(s))
      BY <1>5, <2>2, <3>1, <3>3, <3>4 DEF WaitLen, Waiting
    <3>7. SocketOK(t, k, new, queued)
      BY <1>5, <2>4, <3>1, <3>5, <3>6 DEF SocketOK, NonePending
    <3> QED
      BY <3>7 DEF new
  <2>6. CASE f = "pending_connect"
    <3>1. /\ s.pending_connect = r /\ t.pending_connect = NoRequest
          /\ t.pending_read = s.pending_read /\ ~queued
      BY <1>5, <2>6
    <3>2. /\ s.pending_read = NoRequest /\ s.pending_write = NoRequest
      BY <2>4, <3>1 DEF SlotsOK
    <3>3. Held(NoRequest, k, {"WRITE", "EOS"}, new)
      BY DEF Held
    <3> HIDE DEF s, t, queued
    <3>4. SlotsOK(t, k, new)
      BY <1>5, <2>3, <3>1, <3>2, <3>3 DEF SlotsOK
    <3>5. SocketOK(t, k, new, queued)
      BY <1>5, <2>4, <3>1, <3>2, <3>4 DEF SocketOK, NonePending
    <3> QED
      BY <3>5 DEF new
  <2> QED
    BY <2>5, <2>6
<1>11. t.pending_connect # NoRequest => t.pending_connect = s.pending_connect
  BY <1>5
<1>12. SocketStep(d, e, k, P, P)
  BY <1>4, <1>5, <1>8, <1>9, <1>10, <1>11 DEF SocketStep
<1> QED
  BY <1>12, SocketChanged

\* One more packet in A2R.
LEMMA RingAppend ==
  ASSUME NEW q, NEW n, RingOK(q, n), NEW p \in AmigaPacket, p.id < n,
         Room(q, p.len), NEW r, r = Append(q, p)
  PROVE  RingOK(r, n) /\ \A id : HasId(r, id) => HasId(q, id) \/ id = p.id
<1>1. q \in Seq(AmigaPacket) /\ \A x \in AmigaPacket : x.len \in Nat
  BY DEF RingOK, AmigaPacket
<1>2. /\ r \in Seq(AmigaPacket) /\ Len(r) = Len(q) + 1 /\ Len(q) \in Nat
      /\ \A i \in 1 .. Len(q) : r[i] = q[i]
      /\ r[Len(q) + 1] = p
  BY <1>1, AppendFacts, SeqFacts
<1>3. Bytes(r) <= RingSize - 1
  BY <1>1, BytesOfAppend DEF Room
<1>4. \A i \in 1 .. Len(r) : i \in 1 .. Len(q) \/ i = Len(q) + 1
  BY <1>2
<1> QED
  BY <1>2, <1>3, <1>4 DEF RingOK, HasId

LEMMA PacketIsAmigas ==
  ASSUME NEW d, NEW P, NEW n, NEW W, DriverInv(d, P, n, W),
         NEW k \in DOMAIN d.sockets, NEW type \in {"CONNECT", "DATA", "EOS", "RESET"},
         NEW len \in Nat, NEW val \in Names \cup {NoName} \cup Nat,
         NEW p, p = Packet(type, d.sockets[k].stream_id, len, val, d.sockets[k].conv)
  PROVE  /\ p \in AmigaPacket /\ p.id = d.sockets[k].stream_id /\ p.len = len
         /\ p.id < n
<1>1. /\ d.sockets[k].conv \in Conversations
      /\ d.sockets[k].stream_id \in 1 .. StreamIds /\ d.sockets[k].stream_id < n
  BY SocketFacts
<1> DEFINE id == d.sockets[k].stream_id
           v == d.sockets[k].conv
           vals == Names \cup {NoName} \cup Nat
<1>2. /\ v \in Conversations /\ id \in 1 .. StreamIds /\ id < n /\ val \in vals
      /\ p = [type |-> type, id |-> id, len |-> len, val |-> val, conv |-> v]
  BY <1>1 DEF Packet
<1> HIDE DEF id, v, vals
<1>3. p \in [type : {"CONNECT", "DATA", "EOS", "RESET"}, id : 1 .. StreamIds,
             len : Nat, val : vals, conv : Conversations]
  BY <1>2
<1>4. p.id = id /\ p.len = len
  BY <1>2
<1>5. p \in AmigaPacket
  BY ONLY <1>3 DEF AmigaPacket, vals
<1>6. p.id = id /\ p.len = len /\ p.id < n
  BY ONLY <1>2, <1>4
<1> QED
  BY <1>5, <1>6 DEF id

LEMMA AppendKeeps ==
  ASSUME NEW d, NEW P, NEW n, NEW W, DriverInv(d, P, n, W),
         NEW k \in DOMAIN d.sockets, NEW type \in {"CONNECT", "DATA", "EOS", "RESET"},
         NEW len \in Nat, NEW val \in Names \cup {NoName} \cup Nat,
         Room(d.a2r, len),
         d.sockets[k].pending_connect = NoRequest \/ ~Among(d.send_queue, k),
         NEW e, DOMAIN e = DriverFields,
         \A g \in DriverFields : g \in {"a2r", "hist"} \/ e[g] = d[g],
         e.a2r = Append(d.a2r, Packet(type, d.sockets[k].stream_id, len, val,
                                      d.sockets[k].conv))
  PROVE  DriverInv(e, P, n, W)
<1> DEFINE p == Packet(type, d.sockets[k].stream_id, len, val, d.sockets[k].conv)
<1>0. p = Packet(type, d.sockets[k].stream_id, len, val, d.sockets[k].conv)
  OBVIOUS
<1> HIDE DEF p
<1>1. p \in AmigaPacket /\ p.id = d.sockets[k].stream_id /\ p.len = len /\ p.id < n
  BY <1>0, PacketIsAmigas
<1>2. e.a2r = Append(d.a2r, p) /\ Room(d.a2r, p.len)
  BY <1>0, <1>1
<1>3. /\ e.sockets = d.sockets /\ e.send_queue = d.send_queue
      /\ e.next_stream_id = d.next_stream_id /\ e.ior = d.ior
  BY DEF DriverFields
<1>4. RingOK(d.a2r, n) /\ k \in Keys /\ KeyOK(d, k, P, W)
  BY DriverFacts, SocketFacts
<1>5. RingOK(e.a2r, n) /\ \A id : HasId(e.a2r, id) => HasId(d.a2r, id) \/ id = p.id
  BY ZenonT(60), <1>1, <1>2, <1>4, RingAppend
<1>6. QueueOK(e) /\ IdsOK(e, n)
  BY <1>3, DriverFacts DEF QueueOK, IdsOK
<1>7. OthersKept(d, e, k) /\ PacketsOf(d, e, k, n)
  BY <1>1, <1>3, <1>5 DEF OthersKept, PacketsOf
<1>8. RequestsKept(d, e, k, P, P)
  BY <1>3, NoneAnswered
<1>9. KeyOK(e, k, P, W)
  BY <1>3, <1>4 DEF KeyOK, Unsent, InSlot
<1> QED
  BY <1>4, <1>5, <1>6, <1>7, <1>8, <1>9, OneSocket

-----------------------------------------------------------------------------
(* The end of a socket, and its place in the queue.                        *)

\* What RemoveFromSendQueue leaves.
Removed(d, e, k) ==
  /\ DOMAIN e = DriverFields
  /\ \A g \in DriverFields : g \in {"sockets", "send_queue"} \/ e[g] = d[g]
  /\ Beside(d.sockets, e.sockets, k)
  /\ DOMAIN e.sockets[k] = SocketFields
  /\ \A g \in SocketFields : g = "flags" \/ e.sockets[k][g] = d.sockets[k][g]
  /\ e.sockets[k].flags = d.sockets[k].flags \ {"IN_SEND_QUEUE"}
  /\ e.send_queue \in Seq(Keys) /\ Once(e.send_queue)
  /\ \A j : Among(e.send_queue, j) <=> Among(d.send_queue, j) /\ j # k

LEMMA RemoveFacts ==
  ASSUME NEW d, DOMAIN d = DriverFields, NEW k \in DOMAIN d.sockets,
         DOMAIN d.sockets[k] = SocketFields,
         d.send_queue \in Seq(Keys), Once(d.send_queue),
         Among(d.send_queue, k) <=> "IN_SEND_QUEUE" \in d.sockets[k].flags,
         NEW e, e = RemoveFromSendQueue(d, k)
  PROVE  Removed(d, e, k)
<1>1. CASE "IN_SEND_QUEUE" \in d.sockets[k].flags
  <2>1. e = [d EXCEPT !.send_queue = RemoveFirst(@, k),
                      !.sockets[k].flags = @ \ {"IN_SEND_QUEUE"}]
    BY <1>1 DEF RemoveFromSendQueue
  <2>2. /\ DOMAIN e = DriverFields
        /\ \A g \in DriverFields : g \in {"sockets", "send_queue"} \/ e[g] = d[g]
        /\ e.send_queue = RemoveFirst(d.send_queue, k)
        /\ Beside(d.sockets, e.sockets, k)
    BY <2>1 DEF DriverFields, Beside
  <2>3. /\ DOMAIN e.sockets[k] = SocketFields
        /\ \A g \in SocketFields : g = "flags" \/ e.sockets[k][g] = d.sockets[k][g]
        /\ e.sockets[k].flags = d.sockets[k].flags \ {"IN_SEND_QUEUE"}
    BY <2>1 DEF DriverFields, SocketFields
  <2>4. /\ e.send_queue \in Seq(Keys) /\ Once(e.send_queue)
        /\ \A j : Among(e.send_queue, j) <=> Among(d.send_queue, j) /\ j # k
    BY <1>1, <2>2, RemoveFirstFacts
  <2> QED
    BY <2>2, <2>3, <2>4 DEF Removed
<1>2. CASE "IN_SEND_QUEUE" \notin d.sockets[k].flags
  <2>1. e = d
    BY <1>2 DEF RemoveFromSendQueue
  <2>2. d.sockets[k].flags \ {"IN_SEND_QUEUE"} = d.sockets[k].flags
    BY <1>2
  <2> QED
    BY <1>2, <2>1, <2>2 DEF Removed, Beside
<1> QED
  BY <1>1, <1>2

\* All that is pending on the socket of k has been answered.
Answered(d, e, k) ==
  /\ e.ior \in AllRequests
  /\ \A r \in Requests :
       e.ior[r] = IF InSlot(d, k, r) THEN AtApplication ELSE d.ior[r]

LEMMA AnsweredFacts ==
  ASSUME NEW d, NEW P, NEW n, NEW W, DriverInv(d, P, n, W),
         NEW k \in DOMAIN d.sockets, NEW e, Answered(d, e, k)
  PROVE  /\ RequestsKept(d, e, k, P, P)
         /\ \A r \in Requests :
              e.ior[r].at = "driver" /\ e.ior[r].key = k => r \in P
<1>1. k \in Keys /\ KeyOK(d, k, P, W) /\ SlotsOK(d.sockets[k], k, d.ior)
  BY SocketFacts DEF SocketOK
<1>2. \A r \in Requests : InSlot(d, k, r) => d.ior[r].at = "driver" /\ d.ior[r].key = k
  BY <1>1, DriverAssumption DEF InSlot, SlotsOK, Held
<1>3. \A r \in Requests : InSlot(d, k, r) => r \notin P
  BY <1>1, <1>2 DEF KeyOK
<1>4. \A r \in Requests :
        e.ior[r].at = "driver" => ~InSlot(d, k, r) /\ e.ior[r] = d.ior[r]
  BY DEF Answered, AtApplication
<1>5. \A r \in Requests :
        d.ior[r].at = "driver" /\ d.ior[r].key # k => e.ior[r] = d.ior[r]
  BY <1>2 DEF Answered
<1>6. \A r \in P : r \in Requests /\ d.ior[r].at = "driver" /\ e.ior[r] = d.ior[r]
  BY <1>3 DEF DriverInv, Answered
<1>7. RequestsKept(d, e, k, P, P)
  BY <1>4, <1>5, <1>6 DEF RequestsKept, Answered
<1>8. \A r \in Requests :
        e.ior[r].at = "driver" /\ e.ior[r].key = k => r \in P
  BY <1>1, <1>4 DEF KeyOK
<1> QED
  BY <1>7, <1>8

\* The socket of k is gone, after a last packet or without.
Deleted(d, e, k, n) ==
  /\ QueueOK(e) /\ RingOK(e.a2r, n) /\ e.next_stream_id = d.next_stream_id
  /\ DOMAIN e.sockets = DOMAIN d.sockets \ {k}
  /\ \A j \in DOMAIN e.sockets : e.sockets[j] = d.sockets[j]
  /\ \A j : Among(e.send_queue, j) <=> Among(d.send_queue, j) /\ j # k
  /\ \A id : HasId(e.a2r, id) =>
               HasId(d.a2r, id) \/ id = d.sockets[k].stream_id

LEMMA DeletedKeeps ==
  ASSUME NEW d, NEW P, NEW n, NEW W, DriverInv(d, P, n, W),
         NEW k \in DOMAIN d.sockets, NEW e, Deleted(d, e, k, n), Answered(d, e, k)
  PROVE  DriverInv(e, P, n, W)
<1>1. QueueOK(e) /\ RingOK(e.a2r, n) /\ k \in Keys /\ IdsOK(d, n)
  BY SocketFacts, DriverFacts DEF Deleted
<1>2. IdsOK(e, n)
  BY <1>1 DEF IdsOK, Deleted
<1>3. OthersKept(d, e, k) /\ PacketsOf(d, e, k, n)
  BY DEF OthersKept, PacketsOf, Deleted
<1>4. RequestsKept(d, e, k, P, P) /\ KeyOK(e, k, P, W)
  BY AnsweredFacts DEF KeyOK, InSlot, Deleted
<1> QED
  BY <1>1, <1>2, <1>3, <1>4, OneSocket

\* The RESET of the socket of k waits for room.
ResetWaits(d, e, k) ==
  LET t == e.sockets[k] IN
  /\ DOMAIN e = DriverFields /\ Beside(d.sockets, e.sockets, k)
  /\ e.next_stream_id = d.next_stream_id /\ e.a2r = d.a2r
  /\ e.send_queue \in Seq(Keys) /\ Once(e.send_queue)
  /\ \A j : Among(e.send_queue, j) <=> Among(d.send_queue, j) \/ j = k
  /\ DOMAIN t = SocketFields /\ NonePending(t) /\ t.rq = <<>>
  /\ t.stream_id = d.sockets[k].stream_id /\ t.conv = d.sockets[k].conv
  /\ {"CLOSED", "SHOULD_SEND_RESET", "IN_SEND_QUEUE"} \subseteq t.flags
  /\ t.required_length = 0

LEMMA ResetWaitsKeeps ==
  ASSUME NEW d, NEW P, NEW n, NEW W, DriverInv(d, P, n, W),
         NEW k \in DOMAIN d.sockets, NEW e, ResetWaits(d, e, k), Answered(d, e, k)
  PROVE  DriverInv(e, P, n, W)
<1> DEFINE t == e.sockets[k]
<1>1. /\ DOMAIN e = DriverFields /\ Beside(d.sockets, e.sockets, k)
      /\ e.next_stream_id = d.next_stream_id /\ e.a2r = d.a2r
      /\ e.send_queue \in Seq(Keys) /\ Once(e.send_queue)
      /\ \A j : Among(e.send_queue, j) <=> Among(d.send_queue, j) \/ j = k
      /\ DOMAIN t = SocketFields /\ NonePending(t) /\ t.rq = <<>>
      /\ t.stream_id = d.sockets[k].stream_id /\ t.conv = d.sockets[k].conv
      /\ {"CLOSED", "SHOULD_SEND_RESET", "IN_SEND_QUEUE"} \subseteq t.flags
      /\ t.required_length = 0
  BY DEF ResetWaits
<1>2. /\ k \in Keys /\ IdsOK(d, n) /\ RingOK(d.a2r, n) /\ k \in DOMAIN e.sockets
      /\ DOMAIN d.sockets \subseteq Keys /\ t.conv \in Conversations
  BY <1>1, SocketFacts, DriverFacts DEF Beside
<1>3. QueueOK(e) /\ RingOK(e.a2r, n)
  BY <1>1, <1>2 DEF QueueOK, Beside
<1>4. IdsOK(e, n)
  <2>1. \A j \in DOMAIN d.sockets : e.sockets[j].stream_id = d.sockets[j].stream_id
    BY <1>1 DEF Beside
  <2> QED
    BY <1>1, <1>2, <2>1 DEF IdsOK, Beside
<1>5. OthersKept(d, e, k) /\ PacketsOf(d, e, k, n)
  BY <1>1 DEF OthersKept, PacketsOf, Beside
<1>6. SocketOK(t, k, e.ior, Among(e.send_queue, k))
  <2>1. Among(e.send_queue, k)
    BY <1>1
  <2>2. /\ "CLOSED" \in t.flags /\ "SHOULD_SEND_RESET" \in t.flags
        /\ "IN_SEND_QUEUE" \in t.flags
    BY <1>1
  <2>3. SlotsOK(t, k, e.ior)
    BY <1>1 DEF SlotsOK, NonePending, Held
  <2>4. Waiting(t) /\ WaitLen(t, e.ior) = 0
    BY <1>1, <2>2 DEF Waiting, WaitLen, NonePending
  <2> HIDE DEF t
  <2> QED
    BY <1>1, <1>2, <2>1, <2>2, <2>3, <2>4 DEF SocketOK
<1>7. Unsent(e, k, W) /\ \A r \in Requests : ~InSlot(e, k, r)
  BY <1>1, DriverAssumption DEF Unsent, InSlot, NonePending
<1>8. RequestsKept(d, e, k, P, P) /\ KeyOK(e, k, P, W)
  BY <1>2, <1>6, <1>7, AnsweredFacts DEF KeyOK
<1> QED
  BY <1>2, <1>3, <1>4, <1>5, <1>8, OneSocket

\* What AddToSendQueue makes of a socket that is not queued.
Added(d, e, k, len) ==
  /\ DOMAIN e = DriverFields
  /\ \A g \in DriverFields : g \in {"sockets", "send_queue"} \/ e[g] = d[g]
  /\ Beside(d.sockets, e.sockets, k)
  /\ DOMAIN e.sockets[k] = SocketFields
  /\ \A g \in SocketFields :
       g \in {"flags", "required_length"} \/ e.sockets[k][g] = d.sockets[k][g]
  /\ e.sockets[k].flags = d.sockets[k].flags \cup {"IN_SEND_QUEUE"}
  /\ e.sockets[k].required_length = len
  /\ e.send_queue \in Seq(Keys) /\ Once(e.send_queue)
  /\ \A j : Among(e.send_queue, j) <=> Among(d.send_queue, j) \/ j = k

LEMMA AddFacts ==
  ASSUME NEW d, DOMAIN d = DriverFields, NEW k \in DOMAIN d.sockets, k \in Keys,
         DOMAIN d.sockets[k] = SocketFields,
         d.send_queue \in Seq(Keys), Once(d.send_queue), ~Among(d.send_queue, k),
         NEW len, NEW e, e = AddToSendQueue(d, k, len)
  PROVE  Added(d, e, k, len)
<1>1. e = [d EXCEPT !.sockets[k].required_length = len, !.send_queue = Append(@, k),
                    !.sockets[k].flags = @ \cup {"IN_SEND_QUEUE"}]
  BY DEF AddToSendQueue
<1>2. /\ DOMAIN e = DriverFields
      /\ \A g \in DriverFields : g \in {"sockets", "send_queue"} \/ e[g] = d[g]
      /\ e.send_queue = Append(d.send_queue, k)
      /\ Beside(d.sockets, e.sockets, k)
  BY <1>1 DEF DriverFields, Beside
<1>3. /\ DOMAIN e.sockets[k] = SocketFields
      /\ \A g \in SocketFields :
           g \in {"flags", "required_length"} \/ e.sockets[k][g] = d.sockets[k][g]
      /\ e.sockets[k].flags = d.sockets[k].flags \cup {"IN_SEND_QUEUE"}
      /\ e.sockets[k].required_length = len
  BY <1>1 DEF DriverFields, SocketFields
<1>4. /\ e.send_queue \in Seq(Keys) /\ Once(e.send_queue)
      /\ \A j : Among(e.send_queue, j) <=> Among(d.send_queue, j) \/ j = k
  <2> DEFINE q == d.send_queue
             r == e.send_queue
  <2>1. q \in Seq(Keys) /\ Once(q) /\ ~Among(q, k) /\ r = Append(q, k)
    BY <1>2
  <2> HIDE DEF q, r
  <2>2. /\ r \in Seq(Keys) /\ Once(r)
        /\ \A j : Among(r, j) <=> Among(q, j) \/ j = k
    BY ONLY ZenonT(60), <2>1, AppendFacts, k \in Keys
  <2> QED
    BY <2>2 DEF q, r
<1> QED
  BY <1>2, <1>3, <1>4 DEF Added

LEMMA CloseKeeps ==
  ASSUME NEW d, NEW P, NEW n, NEW W, DriverInv(d, P, n, W),
         NEW k \in DOMAIN d.sockets, NEW b \in BOOLEAN,
         NEW e, e = CloseSocket(d, k, b)
  PROVE  DriverInv(e, P, n, W)
<1> DEFINE s == d.sockets[k]
           pending == {s.pending_connect, s.pending_read, s.pending_write}
           ans == [r \in Requests |->
                     IF r \in pending THEN AtApplication ELSE d.ior[r]]
           d0 == AnswerPending(d, k)
           d1 == RemoveFromSendQueue(d0, k)
           c == Emptied(d, k, b)
           g1 == DeleteSocket(c, k)
           g2 == DeleteSocket(AppendPacket(c, k, "RESET", 0, 0), k)
           g3 == AddToSendQueue(
                   [c EXCEPT !.sockets[k].flags = @ \cup {"SHOULD_SEND_RESET"}], k, 0)
<1>1. e = IF ~b THEN g1 ELSE IF MaySendNow(c, 0) THEN g2 ELSE g3
  BY DEF CloseSocket
<1>2. /\ QueueOK(d) /\ RingOK(d.a2r, n) /\ DOMAIN d = DriverFields
      /\ DOMAIN d.sockets \subseteq Keys /\ d.send_queue \in Seq(Keys)
      /\ Once(d.send_queue) /\ d.ior \in AllRequests
  BY DriverFacts
<1>3. /\ k \in Keys /\ DOMAIN s = SocketFields
      /\ SocketOK(s, k, d.ior, Among(d.send_queue, k))
  BY SocketFacts
<1>4. ans \in AllRequests /\ \A r \in Requests :
        ans[r] = IF InSlot(d, k, r) THEN AtApplication ELSE d.ior[r]
  BY <1>2 DEF AllRequests, InSlot
<1>5. /\ DOMAIN d0 = DriverFields /\ d0.ior = ans
      /\ \A g \in DriverFields : g = "ior" \/ d0[g] = d[g]
  <2>1. d0 = [d EXCEPT !.ior = ans]
    BY DEF AnswerPending
  <2> HIDE DEF ans
  <2> QED
    BY <1>2, <2>1 DEF DriverFields
<1> HIDE DEF ans
<1>6. d0.sockets = d.sockets /\ d0.send_queue = d.send_queue
  BY <1>5 DEF DriverFields
<1> HIDE DEF d0
<1>7. Removed(d0, d1, k)
  BY <1>2, <1>3, <1>5, <1>6, RemoveFacts DEF SocketOK
<1> HIDE DEF d1
<1>8. /\ DOMAIN d1 = DriverFields /\ d1.ior = ans /\ d1.a2r = d.a2r
      /\ d1.next_stream_id = d.next_stream_id
      /\ Beside(d.sockets, d1.sockets, k)
      /\ d1.send_queue \in Seq(Keys) /\ Once(d1.send_queue)
      /\ \A j : Among(d1.send_queue, j) <=> Among(d.send_queue, j) /\ j # k
  BY <1>5, <1>6, <1>7 DEF Removed, DriverFields
<1>9. /\ DOMAIN d1.sockets[k] = SocketFields
      /\ d1.sockets[k].stream_id = s.stream_id /\ d1.sockets[k].conv = s.conv
  BY <1>6, <1>7 DEF Removed, SocketFields
<1>0. c = [d1 EXCEPT
             !.sockets[k].pending_connect = NoRequest,
             !.sockets[k].pending_read = NoRequest,
             !.sockets[k].pending_write = NoRequest,
             !.sockets[k].rq = <<>>,
             !.sockets[k].flags = @ \cup {"CLOSED"},
             !.hist[s.conv].app_reset = @ \/ b]
  BY DEF Emptied, d1, d0
<1> HIDE DEF c
<1>10. /\ DOMAIN c = DriverFields
       /\ \A g \in DriverFields : g \in {"sockets", "hist"} \/ c[g] = d1[g]
       /\ Beside(d1.sockets, c.sockets, k)
  BY SMTT(30), <1>0, <1>8 DEF DriverFields, Beside
<1>11. /\ DOMAIN c.sockets[k] = SocketFields /\ NonePending(c.sockets[k])
       /\ c.sockets[k].rq = <<>> /\ "CLOSED" \in c.sockets[k].flags
       /\ c.sockets[k].stream_id = s.stream_id /\ c.sockets[k].conv = s.conv
  <2>1. k \in DOMAIN d1.sockets
    BY <1>8 DEF Beside
  <2> DEFINE u == d1.sockets[k]
             v == [u EXCEPT !.pending_connect = NoRequest, !.pending_read = NoRequest,
                     !.pending_write = NoRequest, !.rq = <<>>,
                     !.flags = @ \cup {"CLOSED"}]
  <2>2. c.sockets[k] = v
    BY <1>0, <1>8, <2>1 DEF DriverFields
  <2>3. DOMAIN u = SocketFields /\ u.stream_id = s.stream_id /\ u.conv = s.conv
    BY <1>9
  <2> HIDE DEF u, c, s
  <2>4. /\ DOMAIN v = SocketFields /\ NonePending(v) /\ v.rq = <<>>
        /\ "CLOSED" \in v.flags /\ v.stream_id = s.stream_id /\ v.conv = s.conv
    BY <2>3 DEF SocketFields, NonePending
  <2> QED
    BY <2>2, <2>4
<1> HIDE DEF c
<1>12. /\ c.ior = ans /\ c.a2r = d.a2r /\ c.next_stream_id = d.next_stream_id
       /\ c.send_queue = d1.send_queue /\ Beside(d.sockets, c.sockets, k)
       /\ k \in DOMAIN c.sockets
  BY <1>8, <1>10 DEF DriverFields, Beside
<1>13. CASE ~b
  <2>1. /\ DOMAIN g1 = DriverFields
        /\ g1.sockets = [j \in DOMAIN c.sockets \ {k} |-> c.sockets[j]]
        /\ \A g \in DriverFields : g = "sockets" \/ g1[g] = c[g]
    BY <1>10 DEF DeleteSocket, DriverFields
  <2> HIDE DEF g1
  <2>2. /\ g1.ior = ans /\ g1.a2r = d.a2r /\ g1.next_stream_id = d.next_stream_id
        /\ g1.send_queue = d1.send_queue
    BY <1>12, <2>1 DEF DriverFields
  <2>3. Deleted(d, g1, k, n)
    BY <1>2, <1>8, <1>12, <2>1, <2>2 DEF Deleted, QueueOK, Beside
  <2>4. Answered(d, g1, k)
    BY <1>4, <2>2 DEF Answered
  <2> QED
    BY <1>1, <1>13, <2>3, <2>4, DeletedKeeps
<1>14. CASE b /\ MaySendNow(c, 0)
  <2> DEFINE p == Packet("RESET", s.stream_id, 0, 0, s.conv)
             a == AppendPacket(c, k, "RESET", 0, 0)
  <2>1. /\ DOMAIN a = DriverFields /\ a.a2r = Append(d.a2r, p)
        /\ \A g \in DriverFields : g = "a2r" \/ a[g] = c[g]
    BY <1>10, <1>11, <1>12 DEF AppendPacket, DriverFields
  <2>2. p = Packet("RESET", d.sockets[k].stream_id, 0, 0, d.sockets[k].conv)
    OBVIOUS
  <2> HIDE DEF p, a
  <2>3. /\ DOMAIN g2 = DriverFields
        /\ g2.sockets = [j \in DOMAIN a.sockets \ {k} |-> a.sockets[j]]
        /\ \A g \in DriverFields : g = "sockets" \/ g2[g] = a[g]
    BY <2>1 DEF DeleteSocket, DriverFields, a
  <2> HIDE DEF g2
  <2>4. /\ g2.ior = ans /\ g2.a2r = Append(d.a2r, p)
        /\ g2.next_stream_id = d.next_stream_id /\ g2.send_queue = d1.send_queue
        /\ g2.sockets = [j \in DOMAIN c.sockets \ {k} |-> c.sockets[j]]
    BY <1>12, <2>1, <2>3 DEF DriverFields
  <2>5. p \in AmigaPacket /\ p.id = s.stream_id /\ p.len = 0 /\ p.id < n
    <3>1. 0 \in Nat /\ 0 \in Names \cup {NoName} \cup Nat
      OBVIOUS
    <3> QED
      BY <2>2, <3>1, PacketIsAmigas
  <2>6. Room(d.a2r, p.len)
    BY <1>12, <1>14, <2>5 DEF MaySendNow
  <2>7. RingOK(g2.a2r, n)
        /\ \A id : HasId(g2.a2r, id) => HasId(d.a2r, id) \/ id = s.stream_id
    BY ZenonT(60), <1>2, <2>4, <2>5, <2>6, RingAppend
  <2>8. Deleted(d, g2, k, n)
    BY <1>2, <1>8, <1>12, <2>3, <2>4, <2>7 DEF Deleted, QueueOK, Beside
  <2>9. Answered(d, g2, k)
    BY <1>4, <2>4 DEF Answered
  <2> QED
    BY <1>1, <1>14, <2>8, <2>9, DeletedKeeps
<1>15. CASE b /\ ~MaySendNow(c, 0)
  <2> DEFINE a == [c EXCEPT !.sockets[k].flags = @ \cup {"SHOULD_SEND_RESET"}]
  <2>1. /\ DOMAIN a = DriverFields /\ Beside(c.sockets, a.sockets, k)
        /\ \A g \in DriverFields : g = "sockets" \/ a[g] = c[g]
        /\ DOMAIN a.sockets[k] = SocketFields
        /\ \A g \in SocketFields : g = "flags" \/ a.sockets[k][g] = c.sockets[k][g]
        /\ a.sockets[k].flags = c.sockets[k].flags \cup {"SHOULD_SEND_RESET"}
    BY <1>10, <1>11, <1>12 DEF DriverFields, SocketFields, Beside
  <2> HIDE DEF a
  <2>2. /\ a.ior = ans /\ a.a2r = d.a2r /\ a.next_stream_id = d.next_stream_id
        /\ a.send_queue = d1.send_queue /\ k \in DOMAIN a.sockets
        /\ Beside(d.sockets, a.sockets, k)
    BY <1>12, <2>1 DEF DriverFields, Beside
  <2>3. g3 = AddToSendQueue(a, k, 0)
    BY DEF a
  <2> HIDE DEF g3
  <2>4. Added(a, g3, k, 0)
    BY <1>3, <1>8, <2>1, <2>2, <2>3, AddFacts
  <2>5. /\ DOMAIN g3 = DriverFields /\ g3.ior = ans /\ g3.a2r = d.a2r
        /\ g3.next_stream_id = d.next_stream_id
        /\ Beside(d.sockets, g3.sockets, k)
        /\ g3.send_queue \in Seq(Keys) /\ Once(g3.send_queue)
        /\ \A j : Among(g3.send_queue, j) <=> Among(d.send_queue, j) \/ j = k
    BY <1>8, <2>2, <2>4 DEF Added, DriverFields, Beside
  <2> DEFINE t == g3.sockets[k]
  <2>6. /\ DOMAIN t = SocketFields /\ t.required_length = 0
        /\ t.flags = a.sockets[k].flags \cup {"IN_SEND_QUEUE"}
        /\ t.pending_connect = a.sockets[k].pending_connect
        /\ t.pending_read = a.sockets[k].pending_read
        /\ t.pending_write = a.sockets[k].pending_write
        /\ t.stream_id = a.sockets[k].stream_id /\ t.conv = a.sockets[k].conv
        /\ t.rq = a.sockets[k].rq
    BY <2>4 DEF Added, SocketFields
  <2>7. /\ NonePending(t) /\ t.rq = <<>>
        /\ t.stream_id = s.stream_id /\ t.conv = s.conv
        /\ {"CLOSED", "SHOULD_SEND_RESET", "IN_SEND_QUEUE"} \subseteq t.flags
    BY <1>11, <2>1, <2>6 DEF NonePending, SocketFields
  <2>8. ResetWaits(d, g3, k)
    BY <2>5, <2>6, <2>7 DEF ResetWaits
  <2>9. Answered(d, g3, k)
    BY <1>4, <2>5 DEF Answered
  <2> QED
    BY <1>1, <1>15, <2>8, <2>9, ResetWaitsKeeps
<1> QED
  BY <1>13, <1>14, <1>15

-----------------------------------------------------------------------------
(* Requests.                                                               *)

LEMMA CloseIfBothEosKeeps ==
  ASSUME NEW d, NEW P, NEW n, NEW W, DriverInv(d, P, n, W),
         NEW k \in DOMAIN d.sockets, NEW e, e = CloseIfBothEos(d, k)
  PROVE  DriverInv(e, P, n, W)
<1>1. e = CloseSocket(d, k, FALSE) \/ e = d
  BY DEF CloseIfBothEos
<1> QED
  BY <1>1, CloseKeeps

LEMMA EosToAppKeeps ==
  ASSUME NEW d, NEW P, NEW n, NEW W, DriverInv(d, P, n, W),
         NEW k \in DOMAIN d.sockets, NEW e, e = EosToApp(d, k)
  PROVE  DriverInv(e, P, n, W)
<1> DEFINE a == [d EXCEPT !.sockets[k].flags = @ \cup {"SENT_EOS_TO_APP"},
                          !.hist[d.sockets[k].conv].read_eos = TRUE]
<1>1. e = CloseIfBothEos(a, k)
  BY DEF EosToApp
<1>2. DOMAIN d = DriverFields /\ DOMAIN d.sockets[k] = SocketFields
  BY DriverFacts, SocketFacts
<1>3. /\ Touched(d, a, k, {"flags"}, {}) /\ k \in DOMAIN a.sockets
      /\ a.sockets[k].flags = d.sockets[k].flags \cup {"SENT_EOS_TO_APP"}
  BY <1>2 DEF Touched, Beside, DriverFields, SocketFields
<1> HIDE DEF a
<1>4. DriverInv(a, P, n, W)
  BY <1>3, FlagKeeps
<1> QED
  BY <1>1, <1>3, <1>4, CloseIfBothEosKeeps

\* A socket that is not queued sends its EOS.
LEMMA EosToRpiKeeps ==
  ASSUME NEW d, NEW P, NEW n, NEW W, DriverInv(d, P, n, W),
         NEW k \in DOMAIN d.sockets, ~Among(d.send_queue, k), Room(d.a2r, 0),
         NEW e, e = EosToRpi(d, k)
  PROVE  DriverInv(e, P, n, W)
<1> DEFINE s == d.sockets[k]
           a == AppendPacket(d, k, "EOS", 0, 0)
           b == [a EXCEPT !.sockets[k].flags = @ \cup {"SENT_EOS_TO_RPI"}]
<1>1. e = CloseIfBothEos(b, k)
  BY DEF EosToRpi
<1>2. DOMAIN d = DriverFields /\ DOMAIN s = SocketFields
  BY DriverFacts, SocketFacts
<1>3. /\ DOMAIN a = DriverFields
      /\ \A g \in DriverFields : g = "a2r" \/ a[g] = d[g]
      /\ a.a2r = Append(d.a2r, Packet("EOS", d.sockets[k].stream_id, 0, 0,
                                      d.sockets[k].conv))
  BY <1>2 DEF AppendPacket, DriverFields
<1> HIDE DEF a
<1>4. a.sockets = d.sockets
  BY <1>3 DEF DriverFields
<1>5. DriverInv(a, P, n, W)
  <2>1. 0 \in Nat /\ 0 \in Names \cup {NoName} \cup Nat
    OBVIOUS
  <2> QED
    BY <1>3, <2>1, AppendKeeps
<1>6. /\ Touched(a, b, k, {"flags"}, {}) /\ k \in DOMAIN b.sockets
      /\ b.sockets[k].flags = a.sockets[k].flags \cup {"SENT_EOS_TO_RPI"}
  BY <1>2, <1>3, <1>4 DEF Touched, Beside, DriverFields, SocketFields
<1> HIDE DEF b
<1>7. DriverInv(b, P, n, W)
  BY <1>4, <1>5, <1>6, FlagKeeps
<1> QED
  BY <1>1, <1>6, <1>7, CloseIfBothEosKeeps

LEMMA DataToRpiKeeps ==
  ASSUME NEW d, NEW P, NEW n, NEW W, DriverInv(d, P, n, W),
         NEW k \in DOMAIN d.sockets, ~Among(d.send_queue, k),
         NEW q \in Asked, Room(d.a2r, q.len), NEW e, e = DataToRpi(d, k, q)
  PROVE  DriverInv(e, P, n, W)
<1> DEFINE a == AppendPacket(d, k, "DATA", q.len, q.val)
<1>1. DOMAIN d = DriverFields /\ q.len \in Nat /\ q.val \in Nat
  BY DriverFacts DEF Asked
<1>2. /\ DOMAIN a = DriverFields
      /\ \A g \in DriverFields : g = "a2r" \/ a[g] = d[g]
      /\ a.a2r = Append(d.a2r, Packet("DATA", d.sockets[k].stream_id, q.len, q.val,
                                      d.sockets[k].conv))
  BY <1>1 DEF AppendPacket, DriverFields
<1>3. e = [a EXCEPT !.hist[d.sockets[k].conv].written = Append(@, q.val)]
  BY DEF DataToRpi
<1> HIDE DEF a
<1>4. /\ DOMAIN e = DriverFields
      /\ \A g \in DriverFields : g \in {"a2r", "hist"} \/ e[g] = d[g]
      /\ e.a2r = Append(d.a2r, Packet("DATA", d.sockets[k].stream_id, q.len, q.val,
                                      d.sockets[k].conv))
  BY <1>2, <1>3 DEF DriverFields
<1>5. q.val \in Names \cup {NoName} \cup Nat
  BY <1>1
<1> QED
  BY <1>1, <1>4, <1>5, AppendKeeps

LEMMA MisuseKeeps ==
  ASSUME NEW d, NEW P, NEW n, NEW W, DriverInv(d, P, n, W), NEW r \in P,
         NEW k \in DOMAIN d.sockets, NEW e, e = Misuse(d, r, k)
  PROVE  DriverInv(e, P \ {r}, n, W)
<1> DEFINE a == Reply(d, r)
<1>1. e = CloseSocket(a, k, TRUE)
  BY DEF Misuse
<1>2. DriverInv(a, P \ {r}, n, W) /\ a.sockets = d.sockets
  BY ReplyKeeps
<1> HIDE DEF a
<1> QED
  BY <1>1, <1>2, CloseKeeps

LEMMA ReadKeeps ==
  ASSUME NEW d, NEW P, NEW n, NEW W, DriverInv(d, P, n, W), NEW r \in P,
         NEW q, q = d.ior[r], q.command = "READ",
         NEW e, e = HandleAppRead(d, r, q)
  PROVE  DriverInv(e, P \ {r}, n, W)
<1> DEFINE k == q.key
           s == d.sockets[k]
           a == Reply(d, r)
           b == [a EXCEPT !.sockets[k].rq = Tail(@),
                          !.hist[s.conv].read = Append(@, Head(s.rq).val)]
           c == [d EXCEPT !.sockets[k].pending_read = r]
<1>1. e = IF NoOpenSocket(d, k) THEN a
          ELSE IF s.pending_connect # NoRequest \/ s.pending_read # NoRequest
          THEN Misuse(d, r, k)
          ELSE IF s.rq # <<>>
          THEN IF q.len < Head(s.rq).len THEN Misuse(d, r, k) ELSE b
          ELSE IF "RCVD_EOS_FROM_RPI" \in s.flags THEN EosToApp(a, k) ELSE c
  BY DEF HandleAppRead
<1>2. DriverInv(a, P \ {r}, n, W) /\ a.sockets = d.sockets
  BY ReplyKeeps
<1> HIDE DEF a
<1>3. CASE NoOpenSocket(d, k)
  BY <1>1, <1>2, <1>3
<1>4. CASE ~NoOpenSocket(d, k)
  <2>1. k \in DOMAIN d.sockets /\ "CLOSED" \notin s.flags
    BY <1>4 DEF NoOpenSocket
  <2>2. DriverInv(Misuse(d, r, k), P \ {r}, n, W)
    BY <2>1, MisuseKeeps
  <2>3. DriverInv(EosToApp(a, k), P \ {r}, n, W)
    BY <1>2, <2>1, EosToAppKeeps
  <2>4. DriverInv(b, P \ {r}, n, W)
    <3>1. DOMAIN a = DriverFields /\ DOMAIN a.sockets[k] = SocketFields
      BY <1>2, <2>1, DriverFacts, SocketFacts
    <3>2. Touched(a, b, k, {"rq"}, {})
      BY <1>2, <2>1, <3>1 DEF Touched, Beside, DriverFields, SocketFields
    <3> HIDE DEF b
    <3> QED
      BY <1>2, <2>1, <3>2, RqKeeps
  <2>5. CASE s.pending_connect = NoRequest /\ s.pending_read = NoRequest
    <3>1. DriverInv(c, P \ {r}, n, W)
      BY <2>1, <2>5, ReadPending
    <3> HIDE DEF b, c, k
    <3> QED
      BY <1>1, <1>4, <2>2, <2>3, <2>4, <2>5, <3>1
  <2>6. CASE ~(s.pending_connect = NoRequest /\ s.pending_read = NoRequest)
    BY <1>1, <1>4, <2>2, <2>6
  <2> QED
    BY <2>5, <2>6
<1> QED
  BY <1>3, <1>4

\* A socket that is not queued has no WRITE or EOS, and no RESET, that waits.
LEMMA NotQueued ==
  ASSUME NEW d, NEW P, NEW n, NEW W, DriverInv(d, P, n, W),
         NEW k \in DOMAIN d.sockets
  PROVE  /\ d.send_queue = <<>> => ~Among(d.send_queue, k)
         /\ /\ "CLOSED" \notin d.sockets[k].flags
            /\ d.sockets[k].pending_connect = NoRequest
            /\ d.sockets[k].pending_write = NoRequest
            => ~Among(d.send_queue, k)
<1>1. d.send_queue \in Seq(Keys)
  BY DriverFacts
<1>2. d.send_queue = <<>> => ~Among(d.send_queue, k)
  BY <1>1, SeqFacts DEF Among
<1>3. SocketOK(d.sockets[k], k, d.ior, Among(d.send_queue, k))
  BY SocketFacts
<1> QED
  BY <1>2, <1>3 DEF SocketOK, Waiting

\* A WRITE or an EOS that has to wait for room.
LEMMA SendLaterKeeps ==
  ASSUME NEW d, NEW P, NEW n, NEW W, DriverInv(d, P, n, W),
         NEW k \in DOMAIN d.sockets, "CLOSED" \notin d.sockets[k].flags,
         d.sockets[k].pending_connect = NoRequest,
         d.sockets[k].pending_write = NoRequest,
         NEW r \in P, d.ior[r].key = k, d.ior[r].command \in {"WRITE", "EOS"},
         NEW len, len = d.ior[r].len,
         NEW e, e = AddToSendQueue([d EXCEPT !.sockets[k].pending_write = r], k, len)
  PROVE  DriverInv(e, P \ {r}, n, W)
<1> DEFINE s == d.sockets[k]
           a == [d EXCEPT !.sockets[k].pending_write = r]
           t == e.sockets[k]
           Q == P \ {r}
<1>1. /\ SocketOK(s, k, d.ior, Among(d.send_queue, k)) /\ k \in Keys
      /\ KeyOK(d, k, P, W) /\ DOMAIN s = SocketFields /\ DOMAIN d = DriverFields
      /\ DOMAIN d.sockets \subseteq Keys
      /\ d.send_queue \in Seq(Keys) /\ Once(d.send_queue)
      /\ RingOK(d.a2r, n) /\ IdsOK(d, n)
  BY SocketFacts, DriverFacts
<1>2. ~Among(d.send_queue, k)
  BY NotQueued
<1>3. /\ DOMAIN a = DriverFields /\ Beside(d.sockets, a.sockets, k)
      /\ \A g \in DriverFields : g = "sockets" \/ a[g] = d[g]
      /\ DOMAIN a.sockets[k] = SocketFields
      /\ \A g \in SocketFields : g = "pending_write" \/ a.sockets[k][g] = s[g]
      /\ a.sockets[k].pending_write = r
  BY <1>1 DEF DriverFields, SocketFields, Beside
<1>4. e = AddToSendQueue(a, k, len)
  OBVIOUS
<1> HIDE DEF a
<1>5. k \in DOMAIN a.sockets /\ a.send_queue = d.send_queue
  BY <1>3 DEF DriverFields, Beside
<1>6. Added(a, e, k, len)
  BY <1>1, <1>2, <1>3, <1>4, <1>5, AddFacts
<1>7. /\ DOMAIN e = DriverFields /\ Beside(d.sockets, e.sockets, k)
      /\ e.ior = d.ior /\ e.a2r = d.a2r /\ e.next_stream_id = d.next_stream_id
      /\ e.send_queue \in Seq(Keys) /\ Once(e.send_queue)
      /\ \A j : Among(e.send_queue, j) <=> Among(d.send_queue, j) \/ j = k
  <2>1. /\ DOMAIN e = DriverFields /\ Beside(a.sockets, e.sockets, k)
        /\ e.ior = a.ior /\ e.a2r = a.a2r /\ e.next_stream_id = a.next_stream_id
        /\ e.send_queue \in Seq(Keys) /\ Once(e.send_queue)
        /\ \A j : Among(e.send_queue, j) <=> Among(a.send_queue, j) \/ j = k
    BY <1>6 DEF Added, DriverFields
  <2>2. /\ a.ior = d.ior /\ a.a2r = d.a2r /\ a.next_stream_id = d.next_stream_id
    BY <1>3 DEF DriverFields
  <2>3. Beside(d.sockets, e.sockets, k)
    BY <1>3, <2>1 DEF Beside
  <2> QED
    BY <1>5, <2>1, <2>2, <2>3
<1>8. /\ DOMAIN t = SocketFields /\ t.required_length = len
      /\ t.flags = s.flags \cup {"IN_SEND_QUEUE"}
      /\ t.pending_connect = s.pending_connect /\ t.pending_read = s.pending_read
      /\ t.pending_write = r /\ t.rq = s.rq
      /\ t.stream_id = s.stream_id /\ t.conv = s.conv
  <2>1. /\ DOMAIN t = SocketFields /\ t.required_length = len
        /\ t.flags = a.sockets[k].flags \cup {"IN_SEND_QUEUE"}
        /\ \A g \in SocketFields :
             g \in {"flags", "required_length"} \/ t[g] = a.sockets[k][g]
    BY <1>6 DEF Added
  <2> HIDE DEF t, s
  <2> QED
    BY <1>3, <2>1 DEF SocketFields
<1>9. /\ r \in Requests /\ r # NoRequest /\ d.ior[r].at = "driver"
      /\ \A x \in Requests : x # NoRequest
  BY DriverFacts, DriverAssumption DEF Asked
<1>10. k \in DOMAIN e.sockets /\ DOMAIN e.sockets = DOMAIN d.sockets
  BY <1>7 DEF Beside
<1>11. QueueOK(e) /\ RingOK(e.a2r, n)
  BY <1>1, <1>7, <1>10 DEF QueueOK
<1>12. IdsOK(e, n)
  <2>1. ASSUME NEW j \in DOMAIN d.sockets
        PROVE  e.sockets[j].stream_id = d.sockets[j].stream_id
    BY <1>7, <1>8 DEF Beside
  <2>2. IdsOK(d, n) /\ e.next_stream_id = d.next_stream_id
        /\ DOMAIN e.sockets = DOMAIN d.sockets
    BY <1>1, <1>7, <1>10
  <2> QED
    BY ONLY <2>1, <2>2 DEF IdsOK
<1>13. OthersKept(d, e, k) /\ PacketsOf(d, e, k, n)
  BY <1>7 DEF OthersKept, PacketsOf, Beside
<1>14. RequestsKept(d, e, k, P, Q)
  BY <1>7, NoneAnswered
<1>15. SocketOK(t, k, e.ior, Among(e.send_queue, k))
  <2> DEFINE io == d.ior
             queued == Among(e.send_queue, k)
  <2>1. queued /\ e.ior = io /\ SocketOK(s, k, io, Among(d.send_queue, k))
    BY <1>1, <1>7
  <2>2. "CLOSED" \notin s.flags /\ s.pending_connect = NoRequest /\ len = io[r].len
        /\ io[r].at = "driver" /\ io[r].key = k /\ io[r].command \in {"WRITE", "EOS"}
    BY <1>9
  <2> HIDE DEF s, t, io, queued
  <2>3. SlotsOK(t, k, io)
    BY <1>8, <1>9, <2>1, <2>2 DEF SocketOK, SlotsOK, Held
  <2>4. Waiting(t) /\ WaitLen(t, io) = len
    BY <1>8, <1>9, <2>2 DEF Waiting, WaitLen
  <2>5. SocketOK(t, k, io, queued)
    BY <1>8, <2>1, <2>2, <2>3, <2>4 DEF SocketOK
  <2> QED
    BY <2>1, <2>5 DEF queued
<1>16. Unsent(e, k, W)
  BY <1>8 DEF Unsent
<1>17. ASSUME NEW x \in Requests, e.ior[x].at = "driver", e.ior[x].key = k
       PROVE  x \in Q <=> ~InSlot(e, k, x)
  <2>1. x \in P <=> ~InSlot(d, k, x)
    BY <1>1, <1>7, <1>17 DEF KeyOK
  <2>2. InSlot(d, k, x) <=> x = s.pending_connect \/ x = s.pending_read
                             \/ x = s.pending_write
    BY DEF InSlot
  <2>3. InSlot(e, k, x) <=> x = t.pending_connect \/ x = t.pending_read
                             \/ x = t.pending_write
    BY <1>10 DEF InSlot
  <2> QED
    BY <1>8, <1>9, <2>1, <2>2, <2>3
<1>18. KeyOK(e, k, Q, W)
  BY <1>10, <1>15, <1>16, <1>17 DEF KeyOK
<1> QED
  BY <1>1, <1>11, <1>12, <1>13, <1>14, <1>18, OneSocket

LEMMA WriteKeeps ==
  ASSUME NEW d, NEW P, NEW n, NEW W, DriverInv(d, P, n, W), NEW r \in P,
         NEW q, q = d.ior[r], q.command = "WRITE",
         NEW e, e = HandleAppWrite(d, r, q)
  PROVE  DriverInv(e, P \ {r}, n, W)
<1> DEFINE k == q.key
           s == d.sockets[k]
           a == Reply(d, r)
           b == DataToRpi(a, k, q)
           c == AddToSendQueue([d EXCEPT !.sockets[k].pending_write = r], k, q.len)
<1>1. e = IF NoOpenSocket(d, k) THEN a
          ELSE IF MayNotWrite(s) \/ q.len + HeaderBytes > RingSize - 1
          THEN Misuse(d, r, k)
          ELSE IF MaySendNow(d, q.len) THEN b ELSE c
  BY DEF HandleAppWrite
<1>2. /\ DriverInv(a, P \ {r}, n, W) /\ a.sockets = d.sockets
      /\ a.send_queue = d.send_queue /\ a.a2r = d.a2r
  BY ReplyKeeps
<1>3. q \in Asked
  BY DriverFacts
<1> HIDE DEF a
<1>4. CASE NoOpenSocket(d, k)
  BY <1>1, <1>2, <1>4
<1>5. CASE ~NoOpenSocket(d, k)
  <2>1. k \in DOMAIN d.sockets /\ "CLOSED" \notin s.flags
    BY <1>5 DEF NoOpenSocket
  <2>2. CASE MayNotWrite(s) \/ q.len + HeaderBytes > RingSize - 1
    <3>1. DriverInv(Misuse(d, r, k), P \ {r}, n, W)
      BY <2>1, MisuseKeeps
    <3> QED
      BY <1>1, <1>5, <2>2, <3>1
  <2>3. CASE ~(MayNotWrite(s) \/ q.len + HeaderBytes > RingSize - 1)
    <3>1. s.pending_connect = NoRequest /\ s.pending_write = NoRequest
      BY <2>3 DEF MayNotWrite
    <3>2. CASE MaySendNow(d, q.len)
      <4>1. Room(a.a2r, q.len) /\ ~Among(a.send_queue, k) /\ k \in DOMAIN a.sockets
        BY <1>2, <2>1, <3>1, <3>2, NotQueued DEF MaySendNow
      <4>2. DriverInv(b, P \ {r}, n, W)
        BY <1>2, <1>3, <4>1, DataToRpiKeeps
      <4> QED
        BY <1>1, <1>5, <2>3, <3>2, <4>2
    <3>3. CASE ~MaySendNow(d, q.len)
      <4>1. DriverInv(c, P \ {r}, n, W)
        BY <2>1, <3>1, SendLaterKeeps
      <4> QED
        BY <1>1, <1>5, <2>3, <3>3, <4>1
    <3> QED
      BY <3>2, <3>3
  <2> QED
    BY <2>2, <2>3
<1> QED
  BY <1>4, <1>5

LEMMA EosKeeps ==
  ASSUME NEW d, NEW P, NEW n, NEW W, DriverInv(d, P, n, W), NEW r \in P,
         NEW q, q = d.ior[r], q.command = "EOS",
         NEW e, e = HandleAppEos(d, r, q)
  PROVE  DriverInv(e, P \ {r}, n, W)
<1> DEFINE k == q.key
           s == d.sockets[k]
           a == Reply(d, r)
           f == [d EXCEPT !.sockets[k].flags = @ \cup {"RCVD_EOS_FROM_APP"}]
           g == Reply(f, r)
           b == EosToRpi(g, k)
           c == AddToSendQueue([f EXCEPT !.sockets[k].pending_write = r], k, 0)
<1>1. e = IF NoOpenSocket(d, k) THEN a
          ELSE IF MayNotWrite(s) THEN Misuse(d, r, k)
          ELSE IF MaySendNow(f, 0) THEN b ELSE c
  BY DEF HandleAppEos
<1>2. DriverInv(a, P \ {r}, n, W)
  BY ReplyKeeps
<1>3. q \in Asked /\ q.len = 0
  BY DriverFacts DEF Asked
<1> HIDE DEF a
<1>4. CASE NoOpenSocket(d, k)
  BY <1>1, <1>2, <1>4
<1>5. CASE ~NoOpenSocket(d, k)
  <2>1. k \in DOMAIN d.sockets /\ "CLOSED" \notin s.flags
    BY <1>5 DEF NoOpenSocket
  <2>2. CASE MayNotWrite(s)
    <3>1. DriverInv(Misuse(d, r, k), P \ {r}, n, W)
      BY <2>1, MisuseKeeps
    <3> QED
      BY <1>1, <1>5, <2>2, <3>1
  <2>3. CASE ~MayNotWrite(s)
    <3>1. s.pending_connect = NoRequest /\ s.pending_write = NoRequest
      BY <2>3 DEF MayNotWrite
    <3>2. DOMAIN d = DriverFields /\ DOMAIN s = SocketFields
      BY <2>1, DriverFacts, SocketFacts
    <3>3. /\ Touched(d, f, k, {"flags"}, {}) /\ k \in DOMAIN f.sockets
          /\ f.sockets[k].flags = s.flags \cup {"RCVD_EOS_FROM_APP"}
      BY <2>1, <3>2 DEF Touched, Beside, DriverFields, SocketFields
    <3> HIDE DEF f
    <3>4. DriverInv(f, P, n, W)
      BY <2>1, <3>3, FlagKeeps
    <3>5. /\ f.ior = d.ior
          /\ f.sockets[k].pending_connect = NoRequest
          /\ f.sockets[k].pending_write = NoRequest
          /\ "CLOSED" \notin f.sockets[k].flags
      BY <2>1, <3>1, <3>3 DEF Touched, DriverFields, SocketFields
    <3>6. CASE MaySendNow(f, 0)
      <4>1. /\ DriverInv(g, P \ {r}, n, W) /\ g.sockets = f.sockets
            /\ g.send_queue = f.send_queue /\ g.a2r = f.a2r
        BY <3>4, ReplyKeeps
      <4> HIDE DEF g
      <4>2. Room(g.a2r, 0) /\ ~Among(g.send_queue, k) /\ k \in DOMAIN g.sockets
        BY <3>3, <3>4, <3>6, <4>1, NotQueued DEF MaySendNow
      <4>3. DriverInv(b, P \ {r}, n, W)
        BY <4>1, <4>2, EosToRpiKeeps
      <4> QED
        BY <1>1, <1>5, <2>3, <3>6, <4>3
    <3>7. CASE ~MaySendNow(f, 0)
      <4>1. f.ior[r].key = k /\ f.ior[r].command \in {"WRITE", "EOS"} /\ 0 = f.ior[r].len
        BY <1>3, <3>5
      <4>2. DriverInv(c, P \ {r}, n, W)
        BY <3>3, <3>4, <3>5, <4>1, SendLaterKeeps
      <4> QED
        BY <1>1, <1>5, <2>3, <3>7, <4>2
    <3> QED
      BY <3>6, <3>7
  <2> QED
    BY <2>2, <2>3
<1> QED
  BY <1>4, <1>5

LEMMA ResetKeeps ==
  ASSUME NEW d, NEW P, NEW n, NEW W, DriverInv(d, P, n, W), NEW r \in P,
         NEW q, NEW e, e = HandleAppReset(d, r, q)
  PROVE  DriverInv(e, P \ {r}, n, W)
<1>1. e = Reply(d, r) \/ (q.key \in DOMAIN d.sockets /\ e = Misuse(d, r, q.key))
  BY DEF HandleAppReset, NoOpenSocket
<1> QED
  BY <1>1, ReplyKeeps, MisuseKeeps

-----------------------------------------------------------------------------
(* A new socket.                                                           *)

\* While ids are fresh the next one is free.
LEMMA NextIsAllocated ==
  ASSUME NEW d, NEW n \in 1 .. StreamIds, IdsOK(d, n)
  PROVE  AllocatedId(d) = n
<1> DEFINE after == [i \in 0 .. StreamIds - 1 |->
                       ((d.next_stream_id - 1 + i) % StreamIds) + 1]
           T(i) == /\ after[i] \notin IdsInUse(d)
                   /\ \A j \in 0 .. i - 1 : after[j] \in IdsInUse(d)
           c == CHOOSE i \in DOMAIN after : T(i)
<1>1. d.next_stream_id = n /\ n \notin IdsInUse(d)
  BY DriverAssumption DEF IdsOK, IdsInUse
<1>2. 0 \in DOMAIN after /\ DOMAIN after = 0 .. StreamIds - 1
  BY DriverAssumption
<1>3. after[0] = n
  <2>1. (n - 1) % StreamIds = n - 1
    BY DriverAssumption
  <2> QED
    BY <1>1, <1>2, <2>1
<1>4. AllocatedId(d) = after[c]
  BY DEF AllocatedId
<1> HIDE DEF after
<1>5. T(0)
  BY <1>1, <1>3
<1>6. c \in DOMAIN after /\ T(c)
  BY <1>2, <1>5
<1>7. c = 0
  BY <1>1, <1>2, <1>3, <1>6
<1> QED
  BY <1>3, <1>4, <1>7

LEMMA FreshInRing ==
  ASSUME NEW n \in 1 .. StreamIds, NEW q, RingOK(q, n)
  PROVE  RingOK(q, n + 1) /\ ~HasId(q, n)
<1>1. q \in Seq(AmigaPacket) /\ \A i \in 1 .. Len(q) : q[i].id < n
  BY DEF RingOK
<1>2. \A i \in 1 .. Len(q) : q[i].id \in Nat
  <2>1. \A p \in AmigaPacket : p.id \in Nat
    BY DEF AmigaPacket
  <2> QED
    BY <1>1, <2>1, SeqFacts
<1>3. \A i \in 1 .. Len(q) : q[i].id < n + 1 /\ q[i].id # n
  BY <1>1, <1>2
<1> QED
  BY <1>3 DEF RingOK, HasId

\* e is d with a socket of k that r asks for, whose CONNECT is sent or queued.
Connecting(d, e, k, r, n) ==
  LET t == e.sockets[k] IN
  /\ DOMAIN e = DriverFields /\ DOMAIN e.sockets = DOMAIN d.sockets \cup {k}
  /\ \A j \in DOMAIN d.sockets : e.sockets[j] = d.sockets[j]
  /\ e.next_stream_id = NextId(n) /\ e.ior = d.ior
  /\ DOMAIN t = SocketFields /\ t.stream_id = n /\ t.conv = d.ior[r].val
  /\ t.pending_connect = r /\ t.pending_read = NoRequest
  /\ t.pending_write = NoRequest /\ t.rq = <<>>
  /\ \/ /\ e.a2r = d.a2r /\ t.flags = {"IN_SEND_QUEUE"}
        /\ t.required_length = d.ior[r].len
        /\ e.send_queue \in Seq(Keys) /\ Once(e.send_queue)
        /\ \A j : Among(e.send_queue, j) <=> Among(d.send_queue, j) \/ j = k
     \/ /\ e.send_queue = d.send_queue /\ t.flags = {}
        /\ RingOK(e.a2r, n + 1)
        /\ \A id : HasId(e.a2r, id) => HasId(d.a2r, id) \/ id = n

LEMMA ConnectingKeeps ==
  ASSUME NEW d, NEW P, NEW n \in 1 .. StreamIds, NEW W, DriverInv(d, P, n, W),
         n \notin W, NEW r \in P, d.ior[r].command = "CONNECT",
         NEW k, k = d.ior[r].key, k \notin DOMAIN d.sockets,
         NEW e, Connecting(d, e, k, r, n)
  PROVE  DriverInv(e, P \ {r}, n + 1, W)
<1> DEFINE t == e.sockets[k]
           Q == P \ {r}
<1>1. /\ DOMAIN e = DriverFields /\ DOMAIN e.sockets = DOMAIN d.sockets \cup {k}
      /\ \A j \in DOMAIN d.sockets : e.sockets[j] = d.sockets[j]
      /\ e.next_stream_id = NextId(n) /\ e.ior = d.ior
      /\ DOMAIN t = SocketFields /\ t.stream_id = n /\ t.conv = d.ior[r].val
      /\ t.pending_connect = r /\ t.pending_read = NoRequest
      /\ t.pending_write = NoRequest /\ t.rq = <<>>
      /\ \/ /\ e.a2r = d.a2r /\ t.flags = {"IN_SEND_QUEUE"}
            /\ t.required_length = d.ior[r].len
            /\ e.send_queue \in Seq(Keys) /\ Once(e.send_queue)
            /\ \A j : Among(e.send_queue, j) <=> Among(d.send_queue, j) \/ j = k
         \/ /\ e.send_queue = d.send_queue /\ t.flags = {}
            /\ RingOK(e.a2r, n + 1)
            /\ \A id : HasId(e.a2r, id) => HasId(d.a2r, id) \/ id = n
  BY DEF Connecting
<1>2. /\ r \in Requests /\ r # NoRequest /\ d.ior[r].at = "driver"
      /\ d.ior[r].val \in Conversations /\ k \in Keys
      /\ \A x \in Requests : x # NoRequest
  BY DriverFacts, DriverAssumption DEF Asked
<1>3. KeyOK(d, k, P, W) /\ RingOK(d.a2r, n) /\ IdsOK(d, n) /\ ~Among(d.send_queue, k)
      /\ DOMAIN d.sockets \subseteq Keys
      /\ d.send_queue \in Seq(Keys) /\ Once(d.send_queue)
  BY <1>2, DriverFacts DEF KeyOK
<1>4. RingOK(d.a2r, n + 1) /\ ~HasId(d.a2r, n)
  BY <1>3, FreshInRing
<1>5. QueueOK(e) /\ RingOK(e.a2r, n + 1)
  BY <1>1, <1>2, <1>3, <1>4 DEF QueueOK
<1>6. IdsOK(e, n + 1)
  <2>1. n + 1 \in 1 .. StreamIds + 1 /\ n < n + 1
    BY DriverAssumption
  <2>2. e.next_stream_id = IF n + 1 = StreamIds + 1 THEN 1 ELSE n + 1
    BY SMTT(30), <1>1, DriverAssumption DEF NextId
  <2>3. ASSUME NEW j \in DOMAIN e.sockets
        PROVE  /\ e.sockets[j].stream_id \in Nat \ {0} /\ e.sockets[j].stream_id < n + 1
               /\ j # k => e.sockets[j].stream_id # n
    <3>1. CASE j = k
      BY SMTT(30), <1>1, <3>1
    <3>2. CASE j # k
      <4>1. j \in DOMAIN d.sockets /\ e.sockets[j] = d.sockets[j]
        BY <1>1, <3>2
      <4>2. d.sockets[j].stream_id \in Nat \ {0} /\ d.sockets[j].stream_id < n
        BY <1>3, <4>1 DEF IdsOK
      <4> QED
        BY <4>1, <4>2
    <3> QED
      BY <3>1, <3>2
  <2>4. ASSUME NEW i \in DOMAIN e.sockets, NEW j \in DOMAIN e.sockets,
               e.sockets[i].stream_id = e.sockets[j].stream_id
        PROVE  i = j
    <3>1. CASE i = k \/ j = k
      BY <1>1, <2>3, <2>4, <3>1
    <3>2. CASE i # k /\ j # k
      BY SMTT(30), <1>1, <1>3, <2>4, <3>2 DEF IdsOK
    <3> QED
      BY <3>1, <3>2
  <2> QED
    BY <2>1, <2>2, <2>3, <2>4 DEF IdsOK
<1>7. OthersKept(d, e, k) /\ PacketsOf(d, e, k, n)
  BY <1>1 DEF OthersKept, PacketsOf
<1>8. RequestsKept(d, e, k, P, Q)
  BY <1>1, NoneAnswered
<1>9. SocketOK(t, k, e.ior, Among(e.send_queue, k))
  <2> DEFINE io == d.ior
             queued == Among(e.send_queue, k)
  <2>1. e.ior = io /\ io[r].at = "driver" /\ io[r].key = k /\ io[r].command = "CONNECT"
        /\ t.conv \in Conversations
    BY <1>1, <1>2
  <2>2. /\ queued <=> "IN_SEND_QUEUE" \in t.flags
        /\ queued => t.required_length = io[r].len
        /\ "CLOSED" \notin t.flags /\ "SHOULD_SEND_RESET" \notin t.flags
    BY <1>1, <1>3
  <2>3. DOMAIN t = SocketFields /\ t.pending_connect = r
        /\ t.pending_read = NoRequest /\ t.pending_write = NoRequest /\ t.rq = <<>>
    BY <1>1
  <2> HIDE DEF t, io, queued
  <2>4. SlotsOK(t, k, io)
    BY <1>2, <2>1, <2>3 DEF SlotsOK, Held
  <2>5. Waiting(t) /\ WaitLen(t, io) = io[r].len
    BY <1>2, <2>3 DEF Waiting, WaitLen
  <2>6. SocketOK(t, k, io, queued)
    BY <2>1, <2>2, <2>3, <2>4, <2>5 DEF SocketOK
  <2> QED
    BY <2>1, <2>6 DEF queued
<1>10. Unsent(e, k, W)
  <2>1. CASE e.a2r = d.a2r
    BY <1>1, <1>4, <2>1 DEF Unsent
  <2>2. CASE e.send_queue = d.send_queue
    BY <1>3, <2>2 DEF Unsent
  <2> QED
    BY <1>1, <2>1, <2>2
<1>11. ASSUME NEW x \in Requests, e.ior[x].at = "driver", e.ior[x].key = k
       PROVE  x \in Q <=> ~InSlot(e, k, x)
  <2>1. x \in P
    BY <1>1, <1>3, <1>11 DEF KeyOK, InSlot
  <2>2. InSlot(e, k, x) <=> x = r
    BY <1>1, <1>2 DEF InSlot
  <2> QED
    BY <2>1, <2>2
<1>12. KeyOK(e, k, Q, W)
  BY <1>1, <1>9, <1>10, <1>11 DEF KeyOK
<1> QED
  BY <1>2, <1>5, <1>6, <1>7, <1>8, <1>12, OneSocket

\* Whether a CONNECT makes a socket.
Connects(d, q) == q.command = "CONNECT" /\ ~ConnectRefused(d, q)

LEMMA ConnectKeeps ==
  ASSUME NEW d, NEW P, NEW n \in 1 .. StreamIds, NEW W, DriverInv(d, P, n, W),
         n \notin W, NEW r \in P, NEW q, q = d.ior[r], Connects(d, q),
         NEW e, e = HandleAppConnect(d, r, q)
  PROVE  DriverInv(e, P \ {r}, n + 1, W)
<1> DEFINE k == q.key
           new == NewSocket(n, q.val)
           c == CreateSocket(d, k, q.val)
           f == [c EXCEPT !.sockets[k].pending_connect = r]
           a == AppendPacket(f, k, "CONNECT", q.len, q.name)
           b == AddToSendQueue(f, k, q.len)
           p == Packet("CONNECT", n, q.len, q.name, q.val)
<1>1. e = IF MaySendNow(f, q.len) THEN a ELSE b
  BY DEF HandleAppConnect, Connects
<1>2. /\ q \in Asked /\ q.command = "CONNECT" /\ k \notin DOMAIN d.sockets /\ k \in Keys
      /\ q.len \in Nat /\ q.val \in Conversations /\ q.name \in Names \cup {NoName}
  BY DriverFacts DEF Connects, ConnectRefused, Asked
<1>3. /\ DOMAIN d = DriverFields /\ RingOK(d.a2r, n) /\ IdsOK(d, n)
      /\ DOMAIN d.sockets \subseteq Keys
      /\ d.send_queue \in Seq(Keys) /\ Once(d.send_queue)
  BY DriverFacts
<1>4. /\ DOMAIN c = DriverFields
      /\ c.sockets = [j \in DOMAIN d.sockets \cup {k} |->
                        IF j = k THEN new ELSE d.sockets[j]]
      /\ c.next_stream_id = NextId(n)
      /\ \A g \in DriverFields : g \in {"sockets", "next_stream_id"} \/ c[g] = d[g]
  <2>1. c = [d EXCEPT !.sockets = With(@, k, new), !.next_stream_id = NextId(n)]
    BY <1>3, NextIsAllocated DEF CreateSocket
  <2>2. With(d.sockets, k, new) = [j \in DOMAIN d.sockets \cup {k} |->
                                     IF j = k THEN new ELSE d.sockets[j]]
    BY DEF With
  <2> HIDE DEF new, c
  <2> QED
    BY <1>3, <2>1, <2>2 DEF DriverFields
<1>5. /\ DOMAIN new = SocketFields /\ new.stream_id = n /\ new.conv = q.val
      /\ new.flags = {} /\ new.pending_connect = NoRequest
      /\ new.pending_read = NoRequest /\ new.pending_write = NoRequest
      /\ new.required_length = 0 /\ new.rq = <<>>
  BY DEF NewSocket, SocketFields
<1> HIDE DEF new, c
<1>6. /\ DOMAIN f = DriverFields /\ DOMAIN f.sockets = DOMAIN d.sockets \cup {k}
      /\ \A g \in DriverFields : g = "sockets" \/ f[g] = c[g]
      /\ \A j \in DOMAIN d.sockets : f.sockets[j] = d.sockets[j]
      /\ f.sockets[k] = [new EXCEPT !.pending_connect = r]
  BY <1>2, <1>4 DEF DriverFields
<1> HIDE DEF f
<1>7. /\ f.send_queue = d.send_queue /\ f.a2r = d.a2r /\ f.ior = d.ior
      /\ f.next_stream_id = NextId(n)
  BY <1>4, <1>6 DEF DriverFields
<1> DEFINE u == f.sockets[k]
<1>8. /\ DOMAIN u = SocketFields /\ u.stream_id = n /\ u.conv = q.val
      /\ u.flags = {} /\ u.pending_connect = r
      /\ u.pending_read = NoRequest /\ u.pending_write = NoRequest /\ u.rq = <<>>
  BY <1>5, <1>6 DEF SocketFields
<1> HIDE DEF u
<1>9. KeyOK(d, k, P, W) /\ ~Among(d.send_queue, k)
  BY <1>2, DriverFacts DEF KeyOK
<1>10. CASE MaySendNow(f, q.len)
  <2>1. /\ DOMAIN a = DriverFields
        /\ \A g \in DriverFields : g = "a2r" \/ a[g] = f[g]
        /\ a.a2r = Append(d.a2r, p)
    BY <1>6, <1>7, <1>8 DEF AppendPacket, DriverFields, u
  <2> HIDE DEF a
  <2>2. p \in AmigaPacket /\ p.id = n /\ p.len = q.len
    BY <1>2 DEF Packet, AmigaPacket
  <2>3. RingOK(d.a2r, n + 1) /\ Room(d.a2r, p.len) /\ p.id < n + 1
    BY <1>3, <1>7, <1>10, <2>2, FreshInRing DEF MaySendNow
  <2> DEFINE m == n + 1
  <2>4. RingOK(d.a2r, m) /\ p.id < m
    BY <2>3
  <2> DEFINE old == d.a2r
             ring == a.a2r
  <2> HIDE DEF m, p
  <2>5. RingOK(ring, m) /\ \A id : HasId(ring, id) => HasId(old, id) \/ id = n
    <3>1. /\ RingOK(old, m) /\ p \in AmigaPacket /\ p.id < m /\ Room(old, p.len)
          /\ ring = Append(old, p)
      BY <2>1, <2>2, <2>3, <2>4
    <3> HIDE DEF old, ring
    <3>2. RingOK(ring, m) /\ \A id : HasId(ring, id) => HasId(old, id) \/ id = p.id
      BY ONLY <3>1, RingAppend
    <3> QED
      BY <2>2, <3>2
  <2>6. /\ a.sockets = f.sockets /\ a.send_queue = d.send_queue /\ a.ior = d.ior
        /\ a.next_stream_id = NextId(n)
    BY <1>7, <2>1 DEF DriverFields
  <2>7. Connecting(d, a, k, r, n)
    BY <1>6, <1>8, <2>1, <2>5, <2>6 DEF Connecting, m, u
  <2>8. DriverInv(a, P \ {r}, n + 1, W)
    BY <1>2, <2>7, ConnectingKeeps
  <2> QED
    BY <1>1, <1>10, <2>8
<1>11. CASE ~MaySendNow(f, q.len)
  <2>1. b = AddToSendQueue(f, k, q.len) /\ k \in DOMAIN f.sockets
    BY <1>6
  <2> HIDE DEF b
  <2>2. Added(f, b, k, q.len)
    BY <1>2, <1>3, <1>6, <1>7, <1>8, <1>9, <2>1, AddFacts DEF u
  <2> DEFINE t == b.sockets[k]
  <2>3. /\ DOMAIN b = DriverFields /\ DOMAIN b.sockets = DOMAIN d.sockets \cup {k}
        /\ \A j \in DOMAIN d.sockets : b.sockets[j] = d.sockets[j]
        /\ b.next_stream_id = NextId(n) /\ b.ior = d.ior /\ b.a2r = d.a2r
        /\ b.send_queue \in Seq(Keys) /\ Once(b.send_queue)
        /\ \A j : Among(b.send_queue, j) <=> Among(d.send_queue, j) \/ j = k
    <3>1. /\ DOMAIN b = DriverFields /\ Beside(f.sockets, b.sockets, k)
          /\ b.next_stream_id = f.next_stream_id /\ b.ior = f.ior /\ b.a2r = f.a2r
          /\ b.send_queue \in Seq(Keys) /\ Once(b.send_queue)
          /\ \A j : Among(b.send_queue, j) <=> Among(f.send_queue, j) \/ j = k
      BY <2>2 DEF Added, DriverFields
    <3>2. DOMAIN b.sockets = DOMAIN d.sockets \cup {k}
          /\ \A j \in DOMAIN d.sockets : b.sockets[j] = d.sockets[j]
      BY <1>2, <1>6, <3>1 DEF Beside
    <3> QED
      BY <1>7, <3>1, <3>2
  <2>4. /\ DOMAIN t = SocketFields /\ t.stream_id = n /\ t.conv = q.val
        /\ t.pending_connect = r /\ t.pending_read = NoRequest
        /\ t.pending_write = NoRequest /\ t.rq = <<>>
        /\ t.flags = {"IN_SEND_QUEUE"} /\ t.required_length = q.len
    <3>1. /\ DOMAIN t = SocketFields /\ t.required_length = q.len
          /\ t.flags = u.flags \cup {"IN_SEND_QUEUE"}
          /\ \A g \in SocketFields : g \in {"flags", "required_length"} \/ t[g] = u[g]
      BY <2>2 DEF Added, u
    <3> HIDE DEF t
    <3> QED
      BY <1>8, <3>1 DEF SocketFields
  <2>5. Connecting(d, b, k, r, n)
    BY <2>3, <2>4 DEF Connecting
  <2>6. DriverInv(b, P \ {r}, n + 1, W)
    BY <1>2, <2>5, ConnectingKeeps
  <2> QED
    BY <1>1, <1>11, <2>6
<1> QED
  BY <1>10, <1>11

\* Whatever an application asks for, and a CONNECT that makes a socket takes the
\* next id.
LEMMA RequestKeeps ==
  ASSUME NEW d, NEW P, NEW n, NEW W, DriverInv(d, P, n, W), NEW r \in P,
         NEW m, m = IF Connects(d, d.ior[r]) THEN n + 1 ELSE n,
         Connects(d, d.ior[r]) => n \in 1 .. StreamIds /\ n \notin W,
         NEW e, e = HandleAppRequest(d, r)
  PROVE  DriverInv(e, P \ {r}, m, W)
<1> DEFINE q == d.ior[r]
<1>1. q \in Asked /\ q.command \in Commands
  BY DriverFacts DEF Asked
<1>2. e = CASE q.command = "CONNECT" -> HandleAppConnect(d, r, q)
            [] q.command = "READ"    -> HandleAppRead(d, r, q)
            [] q.command = "WRITE"   -> HandleAppWrite(d, r, q)
            [] q.command = "EOS"     -> HandleAppEos(d, r, q)
            [] q.command = "RESET"   -> HandleAppReset(d, r, q)
  BY DEF HandleAppRequest
<1>3. q = d.ior[r]
  OBVIOUS
<1> HIDE DEF q
<1>4. CASE q.command = "READ"
  BY <1>2, <1>3, <1>4, ReadKeeps DEF Connects
<1>5. CASE q.command = "WRITE"
  BY <1>2, <1>3, <1>5, WriteKeeps DEF Connects
<1>6. CASE q.command = "EOS"
  BY <1>2, <1>3, <1>6, EosKeeps DEF Connects
<1>7. CASE q.command = "RESET"
  BY <1>2, <1>3, <1>7, ResetKeeps DEF Connects
<1>8. CASE q.command = "CONNECT" /\ ConnectRefused(d, q)
  <2>1. e = Reply(d, r) /\ m = n
    BY <1>2, <1>3, <1>8 DEF HandleAppConnect, Connects
  <2> QED
    BY <2>1, ReplyKeeps
<1>9. CASE q.command = "CONNECT" /\ ~ConnectRefused(d, q)
  <2>1. e = HandleAppConnect(d, r, q) /\ Connects(d, q) /\ m = n + 1
        /\ n \in 1 .. StreamIds /\ n \notin W
    BY <1>2, <1>3, <1>9 DEF Connects
  <2>2. DriverInv(e, P \ {r}, n + 1, W)
    BY ONLY <1>3, <2>1, ConnectKeeps, DriverInv(d, P, n, W), r \in P
  <2> QED
    BY <2>1, <2>2
<1> QED
  BY <1>1, <1>4, <1>5, <1>6, <1>7, <1>8, <1>9 DEF Commands

-----------------------------------------------------------------------------
(* Packets from the Raspberry.                                             *)

\* The daemon answers a CONNECT once it has seen it: it has been sent.
LEMMA ConnectResponseKeeps ==
  ASSUME NEW d, NEW P, NEW n, NEW W, DriverInv(d, P, n, W),
         NEW k \in DOMAIN d.sockets, d.sockets[k].stream_id \in W,
         NEW p, NEW e, e = R2aConnectResponse(d, k, p)
  PROVE  DriverInv(e, P, n, W)
<1> DEFINE s == d.sockets[k]
           r == s.pending_connect
           a == [Reply(d, r) EXCEPT !.sockets[k].pending_connect = NoRequest]
           b == [d EXCEPT !.serious_error = TRUE]
           f == "pending_connect"
<1>1. e = IF r = NoRequest THEN b
          ELSE IF p.val = "CONNECT_OK" THEN a ELSE CloseSocket(a, k, FALSE)
  BY DEF R2aConnectResponse
<1>2. DOMAIN d = DriverFields /\ DOMAIN s = SocketFields /\ d.ior \in AllRequests
  BY DriverFacts, SocketFacts
<1>3. CASE r = NoRequest
  <2>1. /\ DOMAIN b = DriverFields /\ b.sockets = d.sockets
        /\ b.send_queue = d.send_queue /\ b.next_stream_id = d.next_stream_id
        /\ b.ior = d.ior /\ b.a2r = d.a2r
    BY <1>2 DEF DriverFields
  <2> HIDE DEF b, a
  <2>2. DriverInv(b, P, n, W)
    BY <2>1, SameDriver
  <2> QED
    BY <1>1, <1>3, <2>2
<1>4. CASE r # NoRequest
  <2>1. ~Among(d.send_queue, k)
    BY <1>4, SocketFacts DEF Unsent
  <2>2. /\ Touched(d, a, k, {f}, {"ior"}) /\ a.sockets[k][f] = NoRequest
        /\ a.ior = [d.ior EXCEPT ![r] = AtApplication] /\ k \in DOMAIN a.sockets
    BY <1>2 DEF Touched, Beside, DriverFields, SocketFields, Reply
  <2>3. f \in {"pending_read", "pending_connect"} /\ r = s[f]
    OBVIOUS
  <2> HIDE DEF a, f
  <2>4. DriverInv(a, P, n, W)
    BY <1>4, <2>1, <2>2, <2>3, PendingAnswered
  <2>5. DriverInv(CloseSocket(a, k, FALSE), P, n, W)
    BY <2>2, <2>4, CloseKeeps
  <2> QED
    BY <1>1, <1>4, <2>4, <2>5
<1> QED
  BY <1>3, <1>4

LEMMA DataKeeps ==
  ASSUME NEW d, NEW P, NEW n, NEW W, DriverInv(d, P, n, W),
         NEW k \in DOMAIN d.sockets, "CLOSED" \notin d.sockets[k].flags,
         NEW p, NEW e, e = R2aData(d, k, p)
  PROVE  DriverInv(e, P, n, W)
<1> DEFINE s == d.sockets[k]
           r == s.pending_read
           a == [d EXCEPT !.sockets[k].rq = Append(@, p)]
           b == [Reply(d, r) EXCEPT !.sockets[k].pending_read = NoRequest,
                                    !.hist[s.conv].read = Append(@, p.val)]
           f == "pending_read"
<1>1. \/ r = NoRequest /\ e = a
      \/ e = CloseSocket(d, k, TRUE)
      \/ r # NoRequest /\ e = b
  BY DEF R2aData
<1>2. DOMAIN d = DriverFields /\ DOMAIN s = SocketFields /\ d.ior \in AllRequests
  BY DriverFacts, SocketFacts
<1>3. CASE e = a
  <2>1. Touched(d, a, k, {"rq"}, {})
    BY <1>2 DEF Touched, Beside, DriverFields, SocketFields
  <2> HIDE DEF a
  <2> QED
    BY <1>3, <2>1, RqKeeps
<1>4. CASE e = CloseSocket(d, k, TRUE)
  BY <1>4, CloseKeeps
<1>5. CASE r # NoRequest /\ e = b
  <2>1. /\ Touched(d, b, k, {f}, {"ior"}) /\ b.sockets[k][f] = NoRequest
        /\ b.ior = [d.ior EXCEPT ![r] = AtApplication]
    BY <1>2 DEF Touched, Beside, DriverFields, SocketFields, Reply
  <2>2. f \in {"pending_read", "pending_connect"} /\ r = s[f] /\ f # "pending_connect"
    OBVIOUS
  <2> HIDE DEF b, f
  <2> QED
    BY <1>5, <2>1, <2>2, PendingAnswered
<1> QED
  BY <1>1, <1>3, <1>4, <1>5

LEMMA R2aEosKeeps ==
  ASSUME NEW d, NEW P, NEW n, NEW W, DriverInv(d, P, n, W),
         NEW k \in DOMAIN d.sockets, NEW e, e = R2aEos(d, k)
  PROVE  DriverInv(e, P, n, W)
<1> DEFINE s == d.sockets[k]
           r == s.pending_read
           a == [d EXCEPT !.sockets[k].flags = @ \cup {"RCVD_EOS_FROM_RPI"}]
           b == [Reply(a, r) EXCEPT !.sockets[k].pending_read = NoRequest]
           f == "pending_read"
<1>1. \/ r = NoRequest /\ e = a
      \/ r # NoRequest /\ e = EosToApp(b, k)
  BY DEF R2aEos
<1>2. DOMAIN d = DriverFields /\ DOMAIN s = SocketFields
  BY DriverFacts, SocketFacts
<1>3. /\ Touched(d, a, k, {"flags"}, {}) /\ k \in DOMAIN a.sockets
      /\ a.sockets[k].flags = s.flags \cup {"RCVD_EOS_FROM_RPI"}
  BY <1>2 DEF Touched, Beside, DriverFields, SocketFields
<1>4. a.sockets[k].pending_read = r
  BY <1>3 DEF Touched, SocketFields
<1> HIDE DEF a
<1>5. DriverInv(a, P, n, W)
  BY <1>3, FlagKeeps
<1>6. CASE r = NoRequest /\ e = a
  BY <1>5, <1>6
<1>7. CASE r # NoRequest /\ e = EosToApp(b, k)
  <2>1. DOMAIN a = DriverFields /\ DOMAIN a.sockets[k] = SocketFields
    BY <1>3, <1>5, DriverFacts, SocketFacts
  <2>2. /\ Touched(a, b, k, {f}, {"ior"}) /\ b.sockets[k][f] = NoRequest
        /\ b.ior = [a.ior EXCEPT ![r] = AtApplication] /\ k \in DOMAIN b.sockets
    BY <1>3, <2>1 DEF Touched, Beside, DriverFields, SocketFields, Reply
  <2>3. /\ f \in {"pending_read", "pending_connect"} /\ r = a.sockets[k][f]
        /\ f # "pending_connect"
    BY <1>4
  <2> HIDE DEF b, f
  <2>4. DriverInv(b, P, n, W)
    BY <1>3, <1>5, <1>7, <2>2, <2>3, PendingAnswered
  <2> QED
    BY <1>7, <2>2, <2>4, EosToAppKeeps
<1> QED
  BY <1>1, <1>6, <1>7

R2aTypes == {"CONNECT_RESPONSE", "DATA", "EOS", "RESET"}

\* Whatever packet arrives on a stream the daemon knows.
LEMMA R2aPacketKeeps ==
  ASSUME NEW d, NEW P, NEW n, NEW W, DriverInv(d, P, n, W),
         NEW p, p.type \in R2aTypes, p.id \in W, NEW e, e = HandleR2aPacket(d, p)
  PROVE  DriverInv(e, P, n, W)
<1> DEFINE ks == KeysOfStream(d, p.id)
           k == CHOOSE k \in ks : TRUE
           s == d.sockets[k]
           a == [d EXCEPT !.hist[s.conv].told_app = @ \/ "CLOSED" \notin s.flags]
<1>1. CASE ks = {}
  BY <1>1 DEF HandleR2aPacket
<1>2. CASE ks # {}
  <2>1. e = IF p.type = "RESET" THEN CloseSocket(a, k, FALSE)
            ELSE IF "CLOSED" \in s.flags THEN d
            ELSE CASE p.type = "CONNECT_RESPONSE" -> R2aConnectResponse(d, k, p)
                   [] p.type = "DATA"             -> R2aData(d, k, p)
                   [] p.type = "EOS"              -> R2aEos(d, k)
    BY <1>2 DEF HandleR2aPacket
  <2>2. k \in ks
    <3> HIDE DEF ks
    <3> QED
      BY <1>2
  <2>3. k \in DOMAIN d.sockets /\ s.stream_id \in W
    BY <2>2 DEF KeysOfStream
  <2> HIDE DEF ks, k
  <2>4. CASE p.type = "RESET"
    <3>1. /\ DOMAIN a = DriverFields /\ a.sockets = d.sockets
          /\ a.send_queue = d.send_queue /\ a.next_stream_id = d.next_stream_id
          /\ a.ior = d.ior /\ a.a2r = d.a2r
      BY DriverFacts DEF DriverFields
    <3> HIDE DEF a
    <3>2. DriverInv(a, P, n, W)
      BY <3>1, SameDriver
    <3>3. DriverInv(CloseSocket(a, k, FALSE), P, n, W)
      BY <2>3, <3>1, <3>2, CloseKeeps
    <3> QED
      BY <2>1, <2>4, <3>3
  <2>5. CASE p.type # "RESET" /\ "CLOSED" \in s.flags
    BY <2>1, <2>5
  <2>6. CASE p.type # "RESET" /\ "CLOSED" \notin s.flags
    <3>1. DriverInv(R2aConnectResponse(d, k, p), P, n, W)
      BY <2>3, ConnectResponseKeeps
    <3>2. DriverInv(R2aData(d, k, p), P, n, W)
      BY <2>3, <2>6, DataKeeps
    <3>3. DriverInv(R2aEos(d, k), P, n, W)
      BY <2>3, R2aEosKeeps
    <3> QED
      BY <2>1, <2>6, <3>1, <3>2, <3>3 DEF R2aTypes
  <2> QED
    BY <2>4, <2>5, <2>6
<1> QED
  BY <1>1, <1>2

-----------------------------------------------------------------------------
(* The head of the send queue.                                             *)

\* The socket of k has left the queue, and its WRITE or EOS is answered.
Dequeued(d, e, k) ==
  LET s == d.sockets[k]
      t == e.sockets[k]
  IN /\ DOMAIN e = DriverFields /\ Beside(d.sockets, e.sockets, k)
     /\ e.a2r = d.a2r /\ e.next_stream_id = d.next_stream_id
     /\ e.send_queue \in Seq(Keys) /\ Once(e.send_queue)
     /\ \A j : Among(e.send_queue, j) <=> Among(d.send_queue, j) /\ j # k
     /\ DOMAIN t = SocketFields /\ t.stream_id = s.stream_id /\ t.conv = s.conv
     /\ t.flags = s.flags \ {"IN_SEND_QUEUE"} /\ t.rq = s.rq
     /\ t.pending_connect = s.pending_connect /\ t.pending_read = s.pending_read
     /\ t.pending_write = NoRequest
     /\ e.ior \in AllRequests
     /\ \A r \in Requests :
          e.ior[r] = IF r = s.pending_write THEN AtApplication ELSE d.ior[r]

LEMMA DequeuedKeeps ==
  ASSUME NEW d, NEW P, NEW n, NEW W, DriverInv(d, P, n, W),
         NEW k \in DOMAIN d.sockets, "CLOSED" \notin d.sockets[k].flags,
         NEW e, Dequeued(d, e, k)
  PROVE  DriverInv(e, P, n, W)
<1> DEFINE s == d.sockets[k]
           t == e.sockets[k]
<1>1. /\ DOMAIN e = DriverFields /\ Beside(d.sockets, e.sockets, k)
      /\ e.a2r = d.a2r /\ e.next_stream_id = d.next_stream_id
      /\ e.send_queue \in Seq(Keys) /\ Once(e.send_queue)
      /\ \A j : Among(e.send_queue, j) <=> Among(d.send_queue, j) /\ j # k
      /\ DOMAIN t = SocketFields /\ t.stream_id = s.stream_id /\ t.conv = s.conv
      /\ t.flags = s.flags \ {"IN_SEND_QUEUE"} /\ t.rq = s.rq
      /\ t.pending_connect = s.pending_connect /\ t.pending_read = s.pending_read
      /\ t.pending_write = NoRequest
      /\ e.ior \in AllRequests
      /\ \A r \in Requests :
           e.ior[r] = IF r = s.pending_write THEN AtApplication ELSE d.ior[r]
  BY DEF Dequeued
<1>2. /\ k \in Keys /\ KeyOK(d, k, P, W) /\ IdsOK(d, n) /\ RingOK(d.a2r, n)
      /\ SocketOK(s, k, d.ior, Among(d.send_queue, k))
      /\ DOMAIN d.sockets \subseteq Keys /\ k \in DOMAIN e.sockets
      /\ DOMAIN e.sockets = DOMAIN d.sockets
  BY <1>1, SocketFacts, DriverFacts DEF Beside
<1>3. QueueOK(e) /\ RingOK(e.a2r, n)
  BY <1>1, <1>2 DEF QueueOK
<1>4. IdsOK(e, n)
  <2>1. ASSUME NEW j \in DOMAIN d.sockets
        PROVE  e.sockets[j].stream_id = d.sockets[j].stream_id
    BY <1>1 DEF Beside
  <2>2. IdsOK(d, n) /\ e.next_stream_id = d.next_stream_id
        /\ DOMAIN e.sockets = DOMAIN d.sockets
    BY <1>1, <1>2
  <2> QED
    BY ONLY <2>1, <2>2 DEF IdsOK
<1>5. OthersKept(d, e, k) /\ PacketsOf(d, e, k, n)
  BY <1>1 DEF OthersKept, PacketsOf, Beside
<1>6. SlotsOK(s, k, d.ior) /\ \A x \in Requests : x # NoRequest
  BY <1>2, DriverAssumption DEF SocketOK
<1>7. /\ s.pending_write # NoRequest =>
           /\ s.pending_write \in Requests /\ InSlot(d, k, s.pending_write)
           /\ d.ior[s.pending_write].at = "driver"
           /\ d.ior[s.pending_write].key = k /\ s.pending_write \notin P
           /\ s.pending_connect = NoRequest
           /\ s.pending_read # s.pending_write
  BY <1>2, <1>6 DEF SlotsOK, Held, InSlot, KeyOK
<1>8. \A x \in P : d.ior[x].at = "driver" /\ x \in Requests
  BY DriverFacts DEF Asked
<1>9. AtApplication.at # "driver"
  BY DEF AtApplication
<1>10. RequestsKept(d, e, k, P, P)
  BY <1>1, <1>6, <1>7, <1>8, <1>9 DEF RequestsKept
<1>11. SocketOK(t, k, e.ior, Among(e.send_queue, k))
  <2> DEFINE old == d.ior
             new == e.ior
             was == Among(d.send_queue, k)
             is == Among(e.send_queue, k)
  <2>1. SocketOK(s, k, old, was) /\ ~is /\ SlotsOK(s, k, old)
    BY <1>1, <1>2, <1>6
  <2>2. /\ Held(s.pending_connect, k, {"CONNECT"}, new)
        /\ Held(s.pending_read, k, {"READ"}, new)
        /\ Held(NoRequest, k, {"WRITE", "EOS"}, new)
    BY <1>1, <1>6, <1>7, <2>1 DEF SlotsOK, Held
  <2>3. "CLOSED" \notin s.flags
    OBVIOUS
  <2> HIDE DEF s, t, old, new, was, is
  <2>4. SlotsOK(t, k, new)
    BY <1>1, <2>1, <2>2 DEF SlotsOK
  <2>5. SocketOK(t, k, new, is)
    BY <1>1, <2>1, <2>3, <2>4 DEF SocketOK
  <2> QED
    BY <2>5 DEF new, is
<1>12. Unsent(e, k, W)
  BY <1>1 DEF Unsent
<1>13. ASSUME NEW x \in Requests, e.ior[x].at = "driver", e.ior[x].key = k
       PROVE  x \in P <=> ~InSlot(e, k, x)
  <2>1. x # s.pending_write /\ e.ior[x] = d.ior[x] /\ x # NoRequest
    BY <1>1, <1>6, <1>9, <1>13
  <2>2. x \in P <=> ~InSlot(d, k, x)
    BY <1>2, <1>13, <2>1 DEF KeyOK
  <2>3. InSlot(d, k, x) <=> x = s.pending_connect \/ x = s.pending_read
                             \/ x = s.pending_write
    BY DEF InSlot
  <2>4. InSlot(e, k, x) <=> x = t.pending_connect \/ x = t.pending_read
                             \/ x = t.pending_write
    BY <1>2 DEF InSlot
  <2> QED
    BY <1>1, <2>1, <2>2, <2>3, <2>4
<1>14. KeyOK(e, k, P, W)
  BY <1>2, <1>11, <1>12, <1>13 DEF KeyOK
<1> QED
  BY <1>2, <1>3, <1>4, <1>5, <1>10, <1>14, OneSocket

\* A RESET of its own is the last that a socket sends.
LEMMA LastPacketKeeps ==
  ASSUME NEW d, NEW P, NEW n, NEW W, DriverInv(d, P, n, W),
         NEW k \in DOMAIN d.sockets, NonePending(d.sockets[k]), Room(d.a2r, 0),
         NEW c, Removed(d, c, k),
         NEW e, e = DeleteSocket(AppendPacket(c, k, "RESET", 0, 0), k)
  PROVE  DriverInv(e, P, n, W)
<1> DEFINE s == d.sockets[k]
           p == Packet("RESET", s.stream_id, 0, 0, s.conv)
           a == AppendPacket(c, k, "RESET", 0, 0)
<1>1. /\ DOMAIN c = DriverFields
      /\ c.a2r = d.a2r /\ c.ior = d.ior /\ c.next_stream_id = d.next_stream_id
      /\ Beside(d.sockets, c.sockets, k)
      /\ c.sockets[k].stream_id = s.stream_id /\ c.sockets[k].conv = s.conv
      /\ c.send_queue \in Seq(Keys) /\ Once(c.send_queue)
      /\ \A j : Among(c.send_queue, j) <=> Among(d.send_queue, j) /\ j # k
  BY DEF Removed, DriverFields, SocketFields
<1>2. /\ RingOK(d.a2r, n) /\ d.ior \in AllRequests /\ DOMAIN d.sockets \subseteq Keys
  BY DriverFacts
<1>3. /\ DOMAIN a = DriverFields /\ a.a2r = Append(d.a2r, p)
      /\ \A g \in DriverFields : g = "a2r" \/ a[g] = c[g]
  BY <1>1 DEF AppendPacket, DriverFields
<1>4. e = DeleteSocket(a, k)
  OBVIOUS
<1>5. p \in AmigaPacket /\ p.id = s.stream_id /\ p.len = 0 /\ p.id < n
  <2>1. 0 \in Nat /\ 0 \in Names \cup {NoName} \cup Nat
    OBVIOUS
  <2>2. p = Packet("RESET", d.sockets[k].stream_id, 0, 0, d.sockets[k].conv)
    OBVIOUS
  <2> HIDE DEF p
  <2>3. /\ p \in AmigaPacket /\ p.id = d.sockets[k].stream_id /\ p.len = 0
        /\ p.id < n
    BY ONLY <2>1, <2>2, PacketIsAmigas, DriverInv(d, P, n, W), k \in DOMAIN d.sockets
  <2> QED
    BY <2>3
<1> HIDE DEF a, p
<1>6. /\ DOMAIN e = DriverFields
      /\ e.sockets = [j \in DOMAIN a.sockets \ {k} |-> a.sockets[j]]
      /\ \A g \in DriverFields : g = "sockets" \/ e[g] = a[g]
  BY <1>3, <1>4 DEF DeleteSocket, DriverFields
<1>7. /\ e.ior = d.ior /\ e.a2r = Append(d.a2r, p)
      /\ e.next_stream_id = d.next_stream_id /\ e.send_queue = c.send_queue
      /\ e.sockets = [j \in DOMAIN c.sockets \ {k} |-> c.sockets[j]]
  BY <1>1, <1>3, <1>6 DEF DriverFields
<1>8. RingOK(e.a2r, n)
      /\ \A id : HasId(e.a2r, id) => HasId(d.a2r, id) \/ id = s.stream_id
  BY SMTT(30), <1>2, <1>5, <1>7, RingAppend
<1>9. Deleted(d, e, k, n)
  BY <1>1, <1>2, <1>6, <1>7, <1>8 DEF Deleted, QueueOK, Beside
<1>10. Answered(d, e, k)
  BY <1>2, <1>7, DriverAssumption DEF Answered, InSlot, NonePending
<1> QED
  BY <1>9, <1>10, DeletedKeeps

LEMMA SendQueuedKeeps ==
  ASSUME NEW d, NEW P, NEW n, NEW W, DriverInv(d, P, n, W), HeadFits(d),
         NEW e, e = SendQueued(d)
  PROVE  DriverInv(e, P, n, W)
<1> DEFINE k == Head(d.send_queue)
           s == d.sockets[k]
           c == RemoveFromSendQueue(d, k)
           r == s.pending_write
           f == [Reply(c, r) EXCEPT !.sockets[k].pending_write = NoRequest]
           x == d.ior[s.pending_connect]
           a == AppendPacket(c, k, "CONNECT", x.len, x.name)
           b == DeleteSocket(AppendPacket(c, k, "RESET", 0, 0), k)
<1>1. e = IF s.pending_connect # NoRequest THEN a
          ELSE IF r # NoRequest
          THEN IF d.ior[r].command = "WRITE" THEN DataToRpi(f, k, d.ior[r])
               ELSE EosToRpi(f, k)
          ELSE IF "SHOULD_SEND_RESET" \in s.flags THEN b
          ELSE [c EXCEPT !.serious_error = TRUE]
  BY DEF SendQueued
<1>2. /\ d.send_queue \in Seq(Keys) /\ Once(d.send_queue) /\ d.send_queue # <<>>
      /\ DOMAIN d = DriverFields /\ d.ior \in AllRequests
  BY DriverFacts DEF HeadFits
<1>3. k \in Keys /\ Among(d.send_queue, k)
  BY <1>2, TailFacts
<1>4. Room(d.a2r, s.required_length)
  BY DEF HeadFits
<1> HIDE DEF k
<1>5. k \in DOMAIN d.sockets
  BY <1>3, DriverFacts DEF KeyOK
<1>6. SocketOK(s, k, d.ior, Among(d.send_queue, k)) /\ DOMAIN s = SocketFields
  BY <1>5, SocketFacts
<1>7. /\ Waiting(s) /\ s.required_length = WaitLen(s, d.ior)
      /\ "IN_SEND_QUEUE" \in s.flags /\ SlotsOK(s, k, d.ior)
      /\ "CLOSED" \in s.flags <=> "SHOULD_SEND_RESET" \in s.flags
      /\ "CLOSED" \in s.flags => NonePending(s)
  BY <1>3, <1>6 DEF SocketOK
<1>8. Removed(d, c, k)
  BY <1>2, <1>3, <1>5, <1>6, <1>7, RemoveFacts
<1> HIDE DEF c
<1>9. \A y \in Requests : d.ior[y].at = "driver" => d.ior[y] \in Asked
  BY <1>2 DEF AllRequests, AtApplication
<1>10. CASE s.pending_connect # NoRequest
  <2>1. /\ "CLOSED" \notin s.flags /\ r = NoRequest /\ x \in Asked
        /\ s.required_length = x.len
    BY <1>7, <1>9, <1>10 DEF NonePending, SlotsOK, Held, WaitLen
  <2>2. /\ DOMAIN c = DriverFields /\ Beside(d.sockets, c.sockets, k)
        /\ c.a2r = d.a2r /\ c.next_stream_id = d.next_stream_id /\ c.ior = d.ior
        /\ c.send_queue \in Seq(Keys) /\ Once(c.send_queue)
        /\ \A j : Among(c.send_queue, j) <=> Among(d.send_queue, j) /\ j # k
    BY <1>8 DEF Removed, DriverFields
  <2> DEFINE t == c.sockets[k]
  <2>3. /\ DOMAIN t = SocketFields /\ t.stream_id = s.stream_id /\ t.conv = s.conv
        /\ t.flags = s.flags \ {"IN_SEND_QUEUE"} /\ t.rq = s.rq
        /\ t.pending_connect = s.pending_connect /\ t.pending_read = s.pending_read
        /\ t.pending_write = NoRequest
    <3>1. /\ DOMAIN t = SocketFields /\ t.flags = s.flags \ {"IN_SEND_QUEUE"}
          /\ \A g \in SocketFields : g = "flags" \/ t[g] = s[g]
      BY <1>8 DEF Removed
    <3> HIDE DEF t, s
    <3>2. r = NoRequest
      BY <2>1
    <3> QED
      BY <3>1, <3>2 DEF SocketFields
  <2>4. \A y \in Requests :
          c.ior[y] = IF y = s.pending_write THEN AtApplication ELSE d.ior[y]
    BY <2>1, <2>2, DriverAssumption
  <2>5. Dequeued(d, c, k)
    BY <1>2, <2>2, <2>3, <2>4 DEF Dequeued
  <2>6. DriverInv(c, P, n, W)
    BY <1>5, <2>1, <2>5, DequeuedKeeps
  <2>7. k \in DOMAIN c.sockets /\ ~Among(c.send_queue, k)
    BY <1>5, <2>2 DEF Beside
  <2>8. x.len \in Nat /\ x.name \in Names \cup {NoName} \cup Nat /\ Room(c.a2r, x.len)
    BY <1>4, <2>1, <2>2 DEF Asked
  <2>9. /\ DOMAIN a = DriverFields
        /\ \A g \in DriverFields : g \in {"a2r", "hist"} \/ a[g] = c[g]
        /\ a.a2r = Append(c.a2r, Packet("CONNECT", c.sockets[k].stream_id, x.len,
                                        x.name, c.sockets[k].conv))
    BY <2>2 DEF AppendPacket, DriverFields
  <2> HIDE DEF a, x
  <2>10. DriverInv(a, P, n, W)
    BY <2>6, <2>7, <2>8, <2>9, AppendKeeps
  <2> QED
    BY <1>1, <1>10, <2>10
<1>11. CASE s.pending_connect = NoRequest /\ r # NoRequest
  <2> DEFINE q == d.ior[r]
  <2>1. /\ "CLOSED" \notin s.flags /\ q \in Asked /\ r \in Requests
        /\ s.required_length = q.len /\ q.command \in {"WRITE", "EOS"}
    BY <1>7, <1>9, <1>11 DEF NonePending, SlotsOK, Held, WaitLen
  <2>2. /\ DOMAIN c = DriverFields /\ Beside(d.sockets, c.sockets, k)
        /\ c.a2r = d.a2r /\ c.next_stream_id = d.next_stream_id /\ c.ior = d.ior
        /\ c.send_queue \in Seq(Keys) /\ Once(c.send_queue)
        /\ \A j : Among(c.send_queue, j) <=> Among(d.send_queue, j) /\ j # k
        /\ DOMAIN c.sockets[k] = SocketFields
        /\ c.sockets[k].flags = s.flags \ {"IN_SEND_QUEUE"}
        /\ \A g \in SocketFields : g = "flags" \/ c.sockets[k][g] = s[g]
    BY <1>8 DEF Removed, DriverFields
  <2>3. /\ DOMAIN f = DriverFields /\ Beside(d.sockets, f.sockets, k)
        /\ f.a2r = d.a2r /\ f.next_stream_id = d.next_stream_id
        /\ f.ior = [d.ior EXCEPT ![r] = AtApplication]
        /\ f.send_queue = c.send_queue
        /\ f.sockets[k] = [c.sockets[k] EXCEPT !.pending_write = NoRequest]
    BY <1>5, <2>2 DEF Reply, DriverFields, Beside
  <2> HIDE DEF f
  <2> DEFINE t == f.sockets[k]
             u == c.sockets[k]
  <2>4. /\ DOMAIN t = SocketFields /\ t.stream_id = s.stream_id /\ t.conv = s.conv
        /\ t.flags = s.flags \ {"IN_SEND_QUEUE"} /\ t.rq = s.rq
        /\ t.pending_connect = s.pending_connect /\ t.pending_read = s.pending_read
        /\ t.pending_write = NoRequest
    <3>1. /\ t = [u EXCEPT !.pending_write = NoRequest] /\ DOMAIN u = SocketFields
          /\ u.flags = s.flags \ {"IN_SEND_QUEUE"}
          /\ \A g \in SocketFields : g = "flags" \/ u[g] = s[g]
      BY <2>2, <2>3
    <3> HIDE DEF t, u, s
    <3> QED
      BY <3>1 DEF SocketFields
  <2>5. /\ f.ior \in AllRequests
        /\ \A y \in Requests :
             f.ior[y] = IF y = s.pending_write THEN AtApplication ELSE d.ior[y]
    BY <1>2, <2>1, <2>3 DEF AllRequests
  <2>6. Dequeued(d, f, k)
    BY <2>2, <2>3, <2>4, <2>5 DEF Dequeued
  <2>7. DriverInv(f, P, n, W)
    BY <1>5, <2>1, <2>6, DequeuedKeeps
  <2>8. /\ k \in DOMAIN f.sockets /\ ~Among(f.send_queue, k) /\ Room(f.a2r, q.len)
        /\ q.command = "EOS" => q.len = 0
    BY <1>4, <1>5, <2>1, <2>2, <2>3 DEF Beside, Asked
  <2> HIDE DEF q
  <2>9. DriverInv(DataToRpi(f, k, q), P, n, W)
    BY <2>1, <2>7, <2>8, DataToRpiKeeps
  <2>10. q.command = "EOS" => DriverInv(EosToRpi(f, k), P, n, W)
    BY <2>7, <2>8, EosToRpiKeeps
  <2> QED
    BY <1>1, <1>11, <2>1, <2>9, <2>10 DEF q
<1>12. CASE s.pending_connect = NoRequest /\ r = NoRequest
  <2>1. "SHOULD_SEND_RESET" \in s.flags /\ NonePending(s) /\ s.required_length = 0
    BY <1>7, <1>12 DEF Waiting, WaitLen
  <2>2. DriverInv(b, P, n, W)
    BY <1>4, <1>5, <1>8, <2>1, LastPacketKeeps
  <2> QED
    BY <1>1, <1>12, <2>1, <2>2
<1> QED
  BY <1>10, <1>11, <1>12

-----------------------------------------------------------------------------
(* Requests sent, and ids that are known.                                  *)

LEMMA SubmitKeeps ==
  ASSUME NEW d, NEW P, NEW n, NEW W, DriverInv(d, P, n, W),
         NEW r \in Requests, d.ior[r].at # "driver", NEW q \in Asked,
         NEW e, e = [d EXCEPT !.ior[r] = q]
  PROVE  DriverInv(e, P \cup {r}, n, W)
<1> DEFINE Q == P \cup {r}
<1>1. /\ DOMAIN d = DriverFields /\ d.ior \in AllRequests
      /\ QueueOK(d) /\ RingOK(d.a2r, n) /\ IdsOK(d, n)
      /\ P \subseteq Requests /\ \A x \in P : d.ior[x].at = "driver"
      /\ \A k \in Keys : KeyOK(d, k, P, W)
  BY DriverFacts DEF Asked
<1>2. /\ DOMAIN e = DriverFields /\ e.ior = [d.ior EXCEPT ![r] = q]
      /\ e.sockets = d.sockets /\ e.send_queue = d.send_queue
      /\ e.next_stream_id = d.next_stream_id /\ e.a2r = d.a2r
  BY <1>1 DEF DriverFields
<1>3. /\ e.ior \in AllRequests /\ e.ior[r] = q /\ q.at = "driver"
      /\ \A x \in Requests : x # r => e.ior[x] = d.ior[x]
  BY <1>1, <1>2 DEF AllRequests, Asked
<1>4. QueueOK(e) /\ RingOK(e.a2r, n) /\ IdsOK(e, n)
  BY <1>1, <1>2 DEF QueueOK, IdsOK
<1>5. ASSUME NEW k \in Keys PROVE KeyOK(e, k, Q, W)
  <2>1. KeyOK(d, k, P, W)
    BY <1>1
  <2>2. ~InSlot(d, k, r)
    <3>1. SUFFICES ASSUME k \in DOMAIN d.sockets PROVE ~InSlot(d, k, r)
      BY DEF InSlot
    <3>2. SlotsOK(d.sockets[k], k, d.ior) /\ r # NoRequest
      BY <2>1, <3>1, DriverAssumption DEF KeyOK, SocketOK
    <3> QED
      BY <3>2 DEF SlotsOK, Held, InSlot
  <2>3. ASSUME k \in DOMAIN d.sockets
        PROVE  SocketOK(e.sockets[k], k, e.ior, Among(e.send_queue, k))
    <3> DEFINE s == d.sockets[k]
               old == d.ior
               new == e.ior
               queued == Among(d.send_queue, k)
    <3>1. SocketOK(s, k, old, queued)
      BY <2>1, <2>3 DEF KeyOK
    <3>2. \A x \in Requests :
            x = s.pending_connect \/ x = s.pending_read \/ x = s.pending_write
              => new[x] = old[x]
      BY <1>3, <2>2, <2>3 DEF InSlot
    <3> HIDE DEF s, old, new, queued
    <3>3. SocketOK(s, k, new, queued)
      BY ONLY <3>1, <3>2, SocketKept
    <3> QED
      BY <1>2, <3>3 DEF s, new, queued
  <2>4. k \in DOMAIN d.sockets => Unsent(e, k, W)
    BY <1>2, <2>1 DEF KeyOK, Unsent
  <2>5. ASSUME NEW x \in Requests, e.ior[x].at = "driver", e.ior[x].key = k
        PROVE  x \in Q <=> ~InSlot(e, k, x)
    <3>1. InSlot(e, k, x) <=> InSlot(d, k, x)
      BY <1>2 DEF InSlot
    <3>2. CASE x = r
      BY <2>2, <3>1, <3>2
    <3>3. CASE x # r
      BY <1>3, <2>1, <2>5, <3>1, <3>3 DEF KeyOK
    <3> QED
      BY <3>2, <3>3
  <2> QED
    BY <1>2, <2>1, <2>3, <2>4, <2>5 DEF KeyOK
<1>6. Q \subseteq Requests /\ \A x \in Q : e.ior[x].at = "driver"
  BY <1>1, <1>3
<1> QED
  BY <1>3, <1>4, <1>5, <1>6 DEF DriverInv

\* What the daemon knows may go, or come from A2R, when it empties it.
LEMMA KnownKeeps ==
  ASSUME NEW d, NEW P, NEW n, NEW W, DriverInv(d, P, n, W),
         NEW e, DOMAIN e = DriverFields, e.sockets = d.sockets,
         e.send_queue = d.send_queue, e.next_stream_id = d.next_stream_id,
         e.ior = d.ior, e.a2r = d.a2r \/ e.a2r = <<>>,
         NEW V, \A id \in V : id \in W \/ HasId(d.a2r, id)
  PROVE  DriverInv(e, P, n, V)
<1>1. QueueOK(e) /\ IdsOK(e, n)
  BY DEF DriverInv, QueueOK, IdsOK
<1>2. RingOK(e.a2r, n) /\ \A id : HasId(e.a2r, id) => HasId(d.a2r, id)
  <2>1. <<>> \in Seq(AmigaPacket) /\ Len(<<>>) = 0
    BY EmptySeq
  <2>2. RingOK(<<>>, n) /\ \A id : ~HasId(<<>>, id)
    BY <2>1, BytesOfNone, LinkAssumption DEF RingOK, HasId, HeaderBytes
  <2> QED
    BY <2>2 DEF DriverInv
<1>3. \A k \in Keys : KeyOK(e, k, P, V)
  BY <1>2 DEF DriverInv, KeyOK, Unsent, InSlot
<1> QED
  BY <1>1, <1>2, <1>3 DEF DriverInv

-----------------------------------------------------------------------------
(* The driver answers requests, and changes nothing else about them.       *)

Plain(d) == DOMAIN d = DriverFields /\ DOMAIN d.ior = Requests

Answers(d, e) ==
  /\ Plain(e)
  /\ \A x \in Requests : e.ior[x] = d.ior[x] \/ e.ior[x] = AtApplication

LEMMA AnswersMore ==
  ASSUME NEW d, NEW e, NEW f, Answers(d, e), Answers(e, f)
  PROVE  Answers(d, f)
BY DEF Answers

LEMMA AnswersNone ==
  ASSUME NEW d, Plain(d), NEW e, DOMAIN e = DriverFields, e.ior = d.ior
  PROVE  Answers(d, e)
BY DEF Answers, Plain

LEMMA AnswersOne ==
  ASSUME NEW d, Plain(d), NEW e, DOMAIN e = DriverFields, NEW r,
         e.ior = [d.ior EXCEPT ![r] = AtApplication]
  PROVE  Answers(d, e)
BY DEF Answers, Plain

LEMMA ReplyAnswers ==
  ASSUME NEW d, Plain(d), NEW r, NEW e, e = Reply(d, r)
  PROVE  Answers(d, e)
<1>1. DOMAIN e = DriverFields /\ e.ior = [d.ior EXCEPT ![r] = AtApplication]
  BY DEF Reply, Plain, DriverFields
<1> QED
  BY <1>1, AnswersOne

\* The parts of handlers that answer nothing.
LEMMA PartsAnswerNone ==
  ASSUME NEW d, Plain(d), NEW k, NEW e,
         \/ e = DeleteSocket(d, k)
         \/ e = RemoveFromSendQueue(d, k)
         \/ \E len : e = AddToSendQueue(d, k, len)
         \/ \E type, len, val : e = AppendPacket(d, k, type, len, val)
         \/ \E conv : e = CreateSocket(d, k, conv)
         \/ \E q : e = DataToRpi(d, k, q)
  PROVE  Answers(d, e)
<1>1. CASE e = DeleteSocket(d, k)
  <2>1. DOMAIN e = DriverFields /\ e.ior = d.ior
    BY <1>1 DEF DeleteSocket, Plain, DriverFields
  <2> QED
    BY <2>1, AnswersNone
<1>2. CASE e = RemoveFromSendQueue(d, k)
  <2>1. DOMAIN e = DriverFields /\ e.ior = d.ior
    BY <1>2 DEF RemoveFromSendQueue, Plain, DriverFields
  <2> QED
    BY <2>1, AnswersNone
<1>3. ASSUME NEW len, e = AddToSendQueue(d, k, len) PROVE Answers(d, e)
  <2>1. DOMAIN e = DriverFields /\ e.ior = d.ior
    BY <1>3 DEF AddToSendQueue, Plain, DriverFields
  <2> QED
    BY <2>1, AnswersNone
<1>4. ASSUME NEW type, NEW len, NEW val, e = AppendPacket(d, k, type, len, val)
      PROVE  Answers(d, e)
  <2>1. DOMAIN e = DriverFields /\ e.ior = d.ior
    BY <1>4 DEF AppendPacket, Plain, DriverFields
  <2> QED
    BY <2>1, AnswersNone
<1>5. ASSUME NEW conv, e = CreateSocket(d, k, conv) PROVE Answers(d, e)
  <2>1. DOMAIN e = DriverFields /\ e.ior = d.ior
    BY <1>5 DEF CreateSocket, Plain, DriverFields
  <2> QED
    BY <2>1, AnswersNone
<1>6. ASSUME NEW q, e = DataToRpi(d, k, q) PROVE Answers(d, e)
  <2>1. DOMAIN e = DriverFields /\ e.ior = d.ior
    BY <1>6 DEF DataToRpi, AppendPacket, Plain, DriverFields
  <2> QED
    BY <2>1, AnswersNone
<1> QED
  BY <1>1, <1>2, <1>3, <1>4, <1>5, <1>6

LEMMA EmptiedAnswers ==
  ASSUME NEW d, Plain(d), NEW k, NEW b, NEW e, e = Emptied(d, k, b)
  PROVE  Answers(d, e)
<1> DEFINE a == AnswerPending(d, k)
           c == RemoveFromSendQueue(a, k)
<1>1. Answers(d, a)
  BY DEF AnswerPending, Answers, Plain, DriverFields
<1>2. e = [c EXCEPT
             !.sockets[k].pending_connect = NoRequest,
             !.sockets[k].pending_read = NoRequest,
             !.sockets[k].pending_write = NoRequest,
             !.sockets[k].rq = <<>>,
             !.sockets[k].flags = @ \cup {"CLOSED"},
             !.hist[d.sockets[k].conv].app_reset = @ \/ b]
  BY DEF Emptied
<1>3. c = RemoveFromSendQueue(a, k)
  OBVIOUS
<1> HIDE DEF a, c
<1>4. Answers(a, c)
  BY <1>1, <1>3, PartsAnswerNone DEF Answers
<1>5. DOMAIN e = DriverFields /\ e.ior = c.ior
  BY <1>2, <1>4 DEF Answers, Plain, DriverFields
<1>6. Answers(c, e)
  BY <1>4, <1>5, AnswersNone DEF Answers
<1> QED
  BY <1>1, <1>4, <1>6, AnswersMore

LEMMA CloseAnswers ==
  ASSUME NEW d, Plain(d), NEW k, NEW b \in BOOLEAN, NEW e, e = CloseSocket(d, k, b)
  PROVE  Answers(d, e)
<1> DEFINE c == Emptied(d, k, b)
           p == AppendPacket(c, k, "RESET", 0, 0)
           f == [c EXCEPT !.sockets[k].flags = @ \cup {"SHOULD_SEND_RESET"}]
<1>1. /\ c = Emptied(d, k, b) /\ p = AppendPacket(c, k, "RESET", 0, 0)
      /\ f = [c EXCEPT !.sockets[k].flags = @ \cup {"SHOULD_SEND_RESET"}]
      /\ \/ e = DeleteSocket(c, k) \/ e = DeleteSocket(p, k)
         \/ e = AddToSendQueue(f, k, 0)
  BY DEF CloseSocket
<1> HIDE DEF c, p, f
<1>2. Answers(d, c)
  BY <1>1, EmptiedAnswers
<1>3. Answers(c, p)
  BY <1>1, <1>2, PartsAnswerNone DEF Answers
<1>4. DOMAIN f = DriverFields /\ f.ior = c.ior
  BY <1>1, <1>2 DEF Answers, Plain, DriverFields
<1>5. Answers(c, f)
  BY <1>2, <1>4, AnswersNone DEF Answers
<1>6. Plain(c) /\ Plain(p) /\ Plain(f)
  BY <1>2, <1>3, <1>5 DEF Answers
<1>7. Answers(d, p) /\ Answers(d, f)
  BY <1>2, <1>3, <1>5, AnswersMore
<1>8. CASE e = DeleteSocket(c, k)
  BY <1>2, <1>6, <1>8, PartsAnswerNone, AnswersMore
<1>9. CASE e = DeleteSocket(p, k)
  BY <1>7, <1>6, <1>9, PartsAnswerNone, AnswersMore
<1>10. CASE e = AddToSendQueue(f, k, 0)
  <2>1. Answers(f, e)
    BY <1>6, <1>10, PartsAnswerNone
  <2> QED
    BY <1>7, <2>1, AnswersMore
<1> QED
  BY <1>1, <1>8, <1>9, <1>10

LEMMA BothEosAnswers ==
  ASSUME NEW d, Plain(d), NEW k, NEW e, e = CloseIfBothEos(d, k)
  PROVE  Answers(d, e)
BY CloseAnswers, AnswersNone DEF CloseIfBothEos, Plain

LEMMA EosAnswers ==
  ASSUME NEW d, Plain(d), NEW k, NEW e, e = EosToApp(d, k) \/ e = EosToRpi(d, k)
  PROVE  Answers(d, e)
<1> DEFINE a == [d EXCEPT !.sockets[k].flags = @ \cup {"SENT_EOS_TO_APP"},
                          !.hist[d.sockets[k].conv].read_eos = TRUE]
           b == [AppendPacket(d, k, "EOS", 0, 0) EXCEPT
                   !.sockets[k].flags = @ \cup {"SENT_EOS_TO_RPI"}]
<1>1. /\ DOMAIN a = DriverFields /\ a.ior = d.ior
      /\ DOMAIN b = DriverFields /\ b.ior = d.ior
  BY DEF AppendPacket, Plain, DriverFields
<1>2. e = CloseIfBothEos(a, k) \/ e = CloseIfBothEos(b, k)
  BY DEF EosToApp, EosToRpi
<1> HIDE DEF a, b
<1>3. Answers(d, a) /\ Answers(d, b)
  BY <1>1, AnswersNone
<1>4. Answers(a, e) \/ Answers(b, e)
  BY <1>2, <1>3, BothEosAnswers DEF Answers
<1> QED
  BY <1>3, <1>4, AnswersMore

LEMMA MisuseAnswers ==
  ASSUME NEW d, Plain(d), NEW r, NEW k, NEW e, e = Misuse(d, r, k)
  PROVE  Answers(d, e)
<1> DEFINE a == Reply(d, r)
<1>1. Answers(d, a) /\ e = CloseSocket(a, k, TRUE)
  BY ReplyAnswers DEF Misuse
<1> HIDE DEF a
<1>2. Plain(a) /\ e = CloseSocket(a, k, TRUE) /\ TRUE \in BOOLEAN
  BY <1>1 DEF Answers
<1>3. Answers(a, e)
  BY <1>2, CloseAnswers
<1> QED
  BY <1>1, <1>3, AnswersMore

LEMMA ConnectAnswers ==
  ASSUME NEW d, Plain(d), NEW r, NEW q, NEW e, e = HandleAppConnect(d, r, q)
  PROVE  Answers(d, e)
<1> DEFINE k == q.key
           c == CreateSocket(d, k, q.val)
           f == [c EXCEPT !.sockets[k].pending_connect = r]
<1>1. /\ c = CreateSocket(d, k, q.val) /\ f = [c EXCEPT !.sockets[k].pending_connect = r]
      /\ \/ e = Reply(d, r) \/ e = AppendPacket(f, k, "CONNECT", q.len, q.name)
         \/ e = AddToSendQueue(f, k, q.len)
  BY DEF HandleAppConnect
<1> HIDE DEF c, f, k
<1>2. Answers(d, c)
  BY <1>1, PartsAnswerNone
<1>3. DOMAIN f = DriverFields /\ f.ior = c.ior
  BY <1>1, <1>2 DEF Answers, Plain, DriverFields
<1>4. Answers(c, f)
  BY <1>2, <1>3, AnswersNone DEF Answers
<1>5. Answers(d, f) /\ Plain(f)
  BY <1>2, <1>4, AnswersMore DEF Answers
<1>6. CASE e = Reply(d, r)
  BY <1>6, ReplyAnswers
<1>7. CASE e = AppendPacket(f, k, "CONNECT", q.len, q.name)
  <2>1. Answers(f, e)
    BY <1>5, <1>7, PartsAnswerNone
  <2> QED
    BY <1>5, <2>1, AnswersMore
<1>8. CASE e = AddToSendQueue(f, k, q.len)
  <2>1. Answers(f, e)
    BY <1>5, <1>8, PartsAnswerNone
  <2> QED
    BY <1>5, <2>1, AnswersMore
<1> QED
  BY <1>1, <1>6, <1>7, <1>8

LEMMA ReadAnswers ==
  ASSUME NEW d, Plain(d), NEW r, NEW q, NEW e, e = HandleAppRead(d, r, q)
  PROVE  Answers(d, e)
<1> DEFINE k == q.key
           s == d.sockets[k]
           a == Reply(d, r)
           b == [a EXCEPT !.sockets[k].rq = Tail(@),
                          !.hist[s.conv].read = Append(@, Head(s.rq).val)]
           c == [d EXCEPT !.sockets[k].pending_read = r]
<1>1. /\ a = Reply(d, r)
      /\ e = a \/ e = Misuse(d, r, k) \/ e = b \/ e = EosToApp(a, k) \/ e = c
  BY DEF HandleAppRead
<1>2. Answers(d, a)
  BY ReplyAnswers
<1>3. DOMAIN a = DriverFields
  BY <1>2 DEF Answers, Plain
<1>4. /\ DOMAIN b = DriverFields /\ b.ior = a.ior
      /\ DOMAIN c = DriverFields /\ c.ior = d.ior
  <2> HIDE DEF a
  <2> QED
    BY <1>3 DEF Plain, DriverFields
<1> HIDE DEF a, b, c, k, s
<1>5. Answers(a, b) /\ Answers(d, c) /\ Plain(a)
  BY <1>2, <1>4, AnswersNone DEF Answers
<1>6. Answers(d, b)
  BY <1>2, <1>5, AnswersMore
<1>7. CASE e = Misuse(d, r, k)
  BY <1>7, MisuseAnswers
<1>8. CASE e = EosToApp(a, k)
  <2>1. Answers(a, e)
    BY <1>5, <1>8, EosAnswers
  <2> QED
    BY <1>2, <2>1, AnswersMore
<1> QED
  BY <1>1, <1>2, <1>5, <1>6, <1>7, <1>8

\* HandleAppWrite, HandleAppEos and HandleAppReset.
LEMMA SendAnswers ==
  ASSUME NEW d, Plain(d), NEW r, NEW q,
         NEW e, \/ e = HandleAppWrite(d, r, q) \/ e = HandleAppEos(d, r, q)
                \/ e = HandleAppReset(d, r, q)
  PROVE  Answers(d, e)
<1> DEFINE k == q.key
           a == Reply(d, r)
           f == [d EXCEPT !.sockets[k].flags = @ \cup {"RCVD_EOS_FROM_APP"}]
           g == Reply(f, r)
           b == [d EXCEPT !.sockets[k].pending_write = r]
           c == [f EXCEPT !.sockets[k].pending_write = r]
<1>1. /\ a = Reply(d, r) /\ g = Reply(f, r)
      /\ \/ e = a \/ e = Misuse(d, r, k) \/ e = DataToRpi(a, k, q)
         \/ e = EosToRpi(g, k)
         \/ e = AddToSendQueue(b, k, q.len) \/ e = AddToSendQueue(c, k, 0)
  <2>1. CASE e = HandleAppWrite(d, r, q)
    BY <2>1 DEF HandleAppWrite
  <2>2. CASE e = HandleAppEos(d, r, q)
    BY <2>2 DEF HandleAppEos
  <2>3. CASE e = HandleAppReset(d, r, q)
    BY <2>3 DEF HandleAppReset
  <2> QED
    BY <2>1, <2>2, <2>3
<1>2. /\ DOMAIN f = DriverFields /\ f.ior = d.ior
      /\ DOMAIN b = DriverFields /\ b.ior = d.ior
      /\ DOMAIN c = DriverFields /\ c.ior = d.ior
  BY DEF Plain, DriverFields
<1> HIDE DEF a, b, c, f, g, k
<1>3. Answers(d, f) /\ Answers(d, b) /\ Answers(d, c) /\ Answers(d, a)
  BY <1>1, <1>2, AnswersNone, ReplyAnswers
<1>4. Plain(a) /\ Plain(b) /\ Plain(c) /\ Plain(f)
  BY <1>3 DEF Answers
<1>5. Answers(f, g)
  BY <1>1, <1>4, ReplyAnswers
<1>6. Answers(d, g) /\ Plain(g)
  BY <1>3, <1>5, AnswersMore DEF Answers
<1>7. CASE e = Misuse(d, r, k)
  BY <1>7, MisuseAnswers
<1>8. CASE e = DataToRpi(a, k, q)
  <2>1. Answers(a, e)
    BY <1>4, <1>8, PartsAnswerNone
  <2> QED
    BY <1>3, <2>1, AnswersMore
<1>9. CASE e = EosToRpi(g, k)
  <2>1. Answers(g, e)
    BY <1>6, <1>9, EosAnswers
  <2> QED
    BY <1>6, <2>1, AnswersMore
<1>10. CASE e = AddToSendQueue(b, k, q.len)
  <2>1. Answers(b, e)
    BY <1>4, <1>10, PartsAnswerNone
  <2> QED
    BY <1>3, <2>1, AnswersMore
<1>11. CASE e = AddToSendQueue(c, k, 0)
  <2>1. Answers(c, e)
    BY <1>4, <1>11, PartsAnswerNone
  <2> QED
    BY <1>3, <2>1, AnswersMore
<1> QED
  BY <1>1, <1>3, <1>7, <1>8, <1>9, <1>10, <1>11

LEMMA RequestAnswers ==
  ASSUME NEW d, Plain(d), NEW r, d.ior[r].command \in Commands,
         NEW e, e = HandleAppRequest(d, r)
  PROVE  Answers(d, e)
<1> DEFINE q == d.ior[r]
<1>1. \/ e = HandleAppConnect(d, r, q) \/ e = HandleAppRead(d, r, q)
      \/ e = HandleAppWrite(d, r, q) \/ e = HandleAppEos(d, r, q)
      \/ e = HandleAppReset(d, r, q)
  BY DEF HandleAppRequest, Commands
<1> HIDE DEF q
<1> QED
  BY <1>1, ConnectAnswers, ReadAnswers, SendAnswers

LEMMA PacketAnswers ==
  ASSUME NEW d, Plain(d), NEW p, p.type \in R2aTypes, NEW e, e = HandleR2aPacket(d, p)
  PROVE  Answers(d, e)
<1> DEFINE k == CHOOSE k \in KeysOfStream(d, p.id) : TRUE
           s == d.sockets[k]
           t == [d EXCEPT !.hist[s.conv].told_app = @ \/ "CLOSED" \notin s.flags]
           r == s.pending_connect
           o == [Reply(d, r) EXCEPT !.sockets[k].pending_connect = NoRequest]
           w == [d EXCEPT !.serious_error = TRUE]
           x == s.pending_read
           y == [d EXCEPT !.sockets[k].rq = Append(@, p)]
           z == [Reply(d, x) EXCEPT !.sockets[k].pending_read = NoRequest,
                                    !.hist[s.conv].read = Append(@, p.val)]
           f == [d EXCEPT !.sockets[k].flags = @ \cup {"RCVD_EOS_FROM_RPI"}]
           g == [Reply(f, x) EXCEPT !.sockets[k].pending_read = NoRequest]
<1>1. \/ e = d \/ e = CloseSocket(t, k, FALSE) \/ e = w \/ e = o
      \/ e = CloseSocket(o, k, FALSE) \/ e = y \/ e = CloseSocket(d, k, TRUE)
      \/ e = z \/ e = f \/ e = EosToApp(g, k)
  BY DEF HandleR2aPacket, R2aConnectResponse, R2aData, R2aEos, R2aTypes
<1>2. /\ DOMAIN t = DriverFields /\ t.ior = d.ior
      /\ DOMAIN w = DriverFields /\ w.ior = d.ior
      /\ DOMAIN y = DriverFields /\ y.ior = d.ior
      /\ DOMAIN f = DriverFields /\ f.ior = d.ior
  BY DEF Plain, DriverFields
<1>3. Answers(d, Reply(d, r)) /\ Answers(d, Reply(d, x))
  BY ReplyAnswers
<1>4. /\ DOMAIN o = DriverFields /\ o.ior = Reply(d, r).ior
      /\ DOMAIN z = DriverFields /\ z.ior = Reply(d, x).ior
  BY <1>3 DEF Answers, Plain, DriverFields
<1>5. Answers(d, o) /\ Answers(d, z)
  BY <1>3, <1>4 DEF Answers, Plain
<1>6. Answers(d, t) /\ Answers(d, w) /\ Answers(d, y) /\ Answers(d, f)
  <2> HIDE DEF t, w, y, f
  <2> QED
    BY <1>2, AnswersNone
<1>7. Answers(f, Reply(f, x))
  <2> HIDE DEF f, x
  <2>1. Plain(f)
    BY <1>6 DEF Answers
  <2> QED
    BY <2>1, ReplyAnswers
<1>8. DOMAIN g = DriverFields /\ g.ior = Reply(f, x).ior
  <2> HIDE DEF f, x, k
  <2> QED
    BY <1>7 DEF Answers, Plain, DriverFields
<1>9. Answers(f, g)
  BY <1>7, <1>8 DEF Answers, Plain
<1> HIDE DEF t, o, w, y, z, f, g, k, s, r, x
<1>10. Answers(d, g) /\ Answers(d, d)
  BY <1>6, <1>9, AnswersMore DEF Answers, Plain
<1>11. Plain(t) /\ Plain(o) /\ Plain(g) /\ TRUE \in BOOLEAN /\ FALSE \in BOOLEAN
  BY <1>5, <1>6, <1>10 DEF Answers
<1>12. CASE e = CloseSocket(t, k, FALSE)
  <2>1. Answers(t, e)
    BY <1>11, <1>12, CloseAnswers
  <2> QED
    BY <1>6, <2>1, AnswersMore
<1>13. CASE e = CloseSocket(o, k, FALSE)
  <2>1. Answers(o, e)
    BY <1>11, <1>13, CloseAnswers
  <2> QED
    BY <1>5, <2>1, AnswersMore
<1>14. CASE e = CloseSocket(d, k, TRUE)
  BY <1>11, <1>14, CloseAnswers
<1>15. CASE e = EosToApp(g, k)
  <2>1. Answers(g, e)
    BY <1>11, <1>15, EosAnswers
  <2> QED
    BY <1>10, <2>1, AnswersMore
<1> QED
  BY <1>1, <1>5, <1>6, <1>10, <1>12, <1>13, <1>14, <1>15

LEMMA QueuedAnswers ==
  ASSUME NEW d, Plain(d), NEW e, e = SendQueued(d)
  PROVE  Answers(d, e)
<1> DEFINE k == Head(d.send_queue)
           c == RemoveFromSendQueue(d, k)
           s == d.sockets[k]
           r == s.pending_write
           a == Reply(c, r)
           f == [a EXCEPT !.sockets[k].pending_write = NoRequest]
           p == AppendPacket(c, k, "RESET", 0, 0)
           w == [c EXCEPT !.serious_error = TRUE]
<1>1. /\ c = RemoveFromSendQueue(d, k) /\ a = Reply(c, r)
      /\ f = [a EXCEPT !.sockets[k].pending_write = NoRequest]
      /\ p = AppendPacket(c, k, "RESET", 0, 0) /\ w = [c EXCEPT !.serious_error = TRUE]
      /\ \/ \E len, val : e = AppendPacket(c, k, "CONNECT", len, val)
         \/ \E q : e = DataToRpi(f, k, q)
         \/ e = EosToRpi(f, k) \/ e = DeleteSocket(p, k) \/ e = w
  BY DEF SendQueued
<1> HIDE DEF k, c, s, r, a, f, p, w
<1>2. Answers(d, c) /\ Plain(c)
  <2>1. Answers(d, c)
    BY <1>1, PartsAnswerNone
  <2> QED
    BY <2>1 DEF Answers
<1>3. Answers(c, a) /\ Answers(c, p)
  BY <1>1, <1>2, ReplyAnswers, PartsAnswerNone
<1>4. /\ DOMAIN f = DriverFields /\ f.ior = a.ior
      /\ DOMAIN w = DriverFields /\ w.ior = c.ior
  BY <1>1, <1>2, <1>3 DEF Answers, Plain, DriverFields
<1>5. Answers(c, f) /\ Answers(c, w)
  BY <1>2, <1>3, <1>4 DEF Answers, Plain
<1>6. /\ Answers(d, f) /\ Answers(d, w) /\ Answers(d, p)
      /\ Plain(f) /\ Plain(p)
  BY <1>2, <1>3, <1>5, AnswersMore DEF Answers
<1>7. ASSUME NEW len, NEW val, e = AppendPacket(c, k, "CONNECT", len, val)
      PROVE  Answers(d, e)
  <2>1. Answers(c, e)
    BY <1>2, <1>7, PartsAnswerNone
  <2> QED
    BY <1>2, <2>1, AnswersMore
<1>8. ASSUME NEW q, e = DataToRpi(f, k, q) PROVE Answers(d, e)
  <2>1. Answers(f, e)
    BY <1>6, <1>8, PartsAnswerNone
  <2> QED
    BY <1>6, <2>1, AnswersMore
<1>9. CASE e = EosToRpi(f, k)
  <2>1. Answers(f, e)
    BY <1>6, <1>9, EosAnswers
  <2> QED
    BY <1>6, <2>1, AnswersMore
<1>10. CASE e = DeleteSocket(p, k)
  <2>1. Answers(p, e)
    BY <1>6, <1>10, PartsAnswerNone
  <2> QED
    BY <1>6, <2>1, AnswersMore
<1> QED
  BY <1>1, <1>6, <1>7, <1>8, <1>9, <1>10

-----------------------------------------------------------------------------
(* Only CONNECT makes a socket wait for the Raspberry's answer, and only    *)
(* that answer lets it go on: every other step leaves it waiting, or closed. *)

Formed(d) ==
  /\ DOMAIN d = DriverFields
  /\ \A k \in DOMAIN d.sockets : DOMAIN d.sockets[k] = SocketFields

\* A socket that is open after the step was open before, and waits as it did.
StillWaits(s, t) ==
  /\ DOMAIN t = SocketFields /\ t.stream_id = s.stream_id
  /\ "CLOSED" \notin t.flags =>
       "CLOSED" \notin s.flags /\ t.pending_connect = s.pending_connect

Evolves(d, e) ==
  /\ Formed(e) /\ e.serious_error = d.serious_error
  /\ \A k \in DOMAIN e.sockets :
       k \in DOMAIN d.sockets /\ StillWaits(d.sockets[k], e.sockets[k])

Quiet(d, e) == Evolves(d, e) /\ e.a2r = d.a2r

\* At most one packet is sent, and it is no CONNECT.
Says(d, e) ==
  /\ Evolves(d, e)
  /\ e.a2r = d.a2r \/ \E p : p.type # "CONNECT" /\ e.a2r = Append(d.a2r, p)

LEMMA QuietThen ==
  ASSUME NEW d, NEW e, NEW f, Quiet(d, e)
  PROVE  /\ Says(d, e) /\ Formed(e)
         /\ Quiet(e, f) => Quiet(d, f) /\ Says(d, f)
         /\ Says(e, f) => Says(d, f)
<1>1. Evolves(e, f) => Evolves(d, f)
  BY DEF Quiet, Evolves, StillWaits
<1> QED
  BY <1>1 DEF Quiet, Says, Evolves

LEMMA SaysThen ==
  ASSUME NEW d, NEW e, NEW f, Says(d, e), Quiet(e, f)
  PROVE  Says(d, f)
<1>1. Evolves(d, f)
  BY DEF Says, Quiet, Evolves, StillWaits
<1> QED
  BY <1>1 DEF Says, Quiet

\* A step that changes at most the socket of k.
LEMMA OneEvolves ==
  ASSUME NEW d, Formed(d), NEW e, DOMAIN e = DriverFields,
         e.serious_error = d.serious_error,
         \/ e.sockets = d.sockets
         \/ \E s : \E k \in DOMAIN d.sockets :
              e.sockets = [d.sockets EXCEPT ![k] = s] /\ StillWaits(d.sockets[k], s)
         \/ \E k : e.sockets = [j \in DOMAIN d.sockets \ {k} |-> d.sockets[j]]
  PROVE  Evolves(d, e)
<1>1. \A k \in DOMAIN d.sockets : StillWaits(d.sockets[k], d.sockets[k])
  BY DEF Formed, StillWaits
<1>2. CASE e.sockets = d.sockets
  BY <1>1, <1>2 DEF Evolves, Formed
<1>3. ASSUME NEW k \in DOMAIN d.sockets, NEW s,
             e.sockets = [d.sockets EXCEPT ![k] = s], StillWaits(d.sockets[k], s)
      PROVE  Evolves(d, e)
  <2>1. /\ DOMAIN e.sockets = DOMAIN d.sockets
        /\ \A j \in DOMAIN d.sockets : e.sockets[j] = IF j = k THEN s ELSE d.sockets[j]
    BY <1>3
  <2>2. DOMAIN s = SocketFields
    BY <1>3 DEF StillWaits
  <2> QED
    BY <1>1, <1>3, <2>1, <2>2 DEF Evolves, Formed
<1>4. ASSUME NEW k, e.sockets = [j \in DOMAIN d.sockets \ {k} |-> d.sockets[j]]
      PROVE  Evolves(d, e)
  BY <1>1, <1>4 DEF Evolves, Formed
<1> QED
  BY <1>2, <1>3, <1>4

LEMMA PartsQuiet ==
  ASSUME NEW d, Formed(d), NEW k, NEW e,
         \/ \E r : e = Reply(d, r)
         \/ e = DeleteSocket(d, k)
         \/ k \in DOMAIN d.sockets /\ e = RemoveFromSendQueue(d, k)
         \/ k \in DOMAIN d.sockets /\ \E len : e = AddToSendQueue(d, k, len)
  PROVE  Quiet(d, e)
<1>1. ASSUME NEW r, e = Reply(d, r) PROVE Quiet(d, e)
  <2>1. /\ DOMAIN e = DriverFields /\ e.serious_error = d.serious_error
        /\ e.sockets = d.sockets /\ e.a2r = d.a2r
    BY <1>1 DEF Reply, Formed, DriverFields
  <2> QED
    BY <2>1, OneEvolves DEF Quiet
<1>2. CASE e = DeleteSocket(d, k)
  <2>1. /\ DOMAIN e = DriverFields /\ e.serious_error = d.serious_error
        /\ e.sockets = [j \in DOMAIN d.sockets \ {k} |-> d.sockets[j]] /\ e.a2r = d.a2r
    BY <1>2 DEF DeleteSocket, Formed, DriverFields
  <2> QED
    BY <2>1, OneEvolves DEF Quiet
<1>3. CASE k \in DOMAIN d.sockets /\ e = RemoveFromSendQueue(d, k)
  <2>1. CASE "IN_SEND_QUEUE" \in d.sockets[k].flags
    <3> DEFINE s == [d.sockets[k] EXCEPT !.flags = @ \ {"IN_SEND_QUEUE"}]
    <3>1. /\ DOMAIN e = DriverFields /\ e.serious_error = d.serious_error
          /\ e.sockets = [d.sockets EXCEPT ![k] = s] /\ e.a2r = d.a2r
      BY <1>3, <2>1 DEF RemoveFromSendQueue, Formed, DriverFields
    <3>2. StillWaits(d.sockets[k], s)
      <4>1. DOMAIN d.sockets[k] = SocketFields
        BY <1>3 DEF Formed
      <4> QED
        BY <4>1 DEF StillWaits, SocketFields
    <3> HIDE DEF s
    <3> QED
      BY <1>3, <3>1, <3>2, OneEvolves DEF Quiet
  <2>2. CASE "IN_SEND_QUEUE" \notin d.sockets[k].flags
    <3>1. e = d
      BY <1>3, <2>2 DEF RemoveFromSendQueue
    <3> QED
      BY <3>1, OneEvolves DEF Quiet, Formed
  <2> QED
    BY <2>1, <2>2
<1>4. ASSUME k \in DOMAIN d.sockets, NEW len, e = AddToSendQueue(d, k, len)
      PROVE  Quiet(d, e)
  <2> DEFINE s == [d.sockets[k] EXCEPT !.required_length = len,
                                       !.flags = @ \cup {"IN_SEND_QUEUE"}]
  <2>1. DOMAIN d.sockets[k] = SocketFields
    BY <1>4 DEF Formed
  <2>2. /\ DOMAIN e = DriverFields /\ e.serious_error = d.serious_error
        /\ e.sockets = [d.sockets EXCEPT ![k] = s] /\ e.a2r = d.a2r
    BY <1>4, <2>1 DEF AddToSendQueue, Formed, DriverFields, SocketFields
  <2>3. StillWaits(d.sockets[k], s)
    BY <2>1 DEF StillWaits, SocketFields
  <2> HIDE DEF s
  <2> QED
    BY <1>4, <2>2, <2>3, OneEvolves DEF Quiet
<1> QED
  BY <1>1, <1>2, <1>3, <1>4

LEMMA AppendSays ==
  ASSUME NEW d, Formed(d), NEW k, NEW type, type # "CONNECT", NEW len, NEW val,
         NEW e, e = AppendPacket(d, k, type, len, val)
  PROVE  Says(d, e)
<1> DEFINE p == Packet(type, d.sockets[k].stream_id, len, val, d.sockets[k].conv)
<1>1. /\ DOMAIN e = DriverFields /\ e.serious_error = d.serious_error
      /\ e.sockets = d.sockets /\ e.a2r = Append(d.a2r, p)
  BY DEF AppendPacket, Formed, DriverFields
<1>2. p.type # "CONNECT"
  BY DEF Packet
<1> HIDE DEF p
<1> QED
  BY <1>1, <1>2, OneEvolves DEF Says

LEMMA EmptiedQuiet ==
  ASSUME NEW d, Formed(d), NEW k \in DOMAIN d.sockets, NEW b, NEW e, e = Emptied(d, k, b)
  PROVE  Quiet(d, e) /\ k \in DOMAIN e.sockets
<1> DEFINE a == AnswerPending(d, k)
           c == RemoveFromSendQueue(a, k)
<1>1. /\ DOMAIN a = DriverFields /\ a.serious_error = d.serious_error
      /\ a.sockets = d.sockets /\ a.a2r = d.a2r
  BY DEF AnswerPending, Formed, DriverFields
<1>2. e = [c EXCEPT
             !.sockets[k].pending_connect = NoRequest,
             !.sockets[k].pending_read = NoRequest,
             !.sockets[k].pending_write = NoRequest,
             !.sockets[k].rq = <<>>,
             !.sockets[k].flags = @ \cup {"CLOSED"},
             !.hist[d.sockets[k].conv].app_reset = @ \/ b]
  BY DEF Emptied
<1>3. c = RemoveFromSendQueue(a, k) /\ DOMAIN c.sockets = DOMAIN d.sockets
  BY <1>1 DEF RemoveFromSendQueue, DriverFields
<1> HIDE DEF a, c
<1>4. Quiet(d, a)
  BY <1>1, OneEvolves DEF Quiet
<1>5. Formed(a)
  BY <1>4, QuietThen
<1>6. Quiet(a, c)
  BY <1>1, <1>3, <1>5, PartsQuiet
<1>7. Formed(c)
  BY <1>6, QuietThen
<1> DEFINE s == [c.sockets[k] EXCEPT
                   !.pending_connect = NoRequest, !.pending_read = NoRequest,
                   !.pending_write = NoRequest, !.rq = <<>>,
                   !.flags = @ \cup {"CLOSED"}]
<1>8. k \in DOMAIN c.sockets /\ DOMAIN c.sockets[k] = SocketFields
  BY <1>3, <1>7 DEF Formed
<1>9. /\ DOMAIN e = DriverFields /\ e.serious_error = c.serious_error
      /\ e.sockets = [c.sockets EXCEPT ![k] = s] /\ e.a2r = c.a2r
  BY SMTT(30), <1>2, <1>7, <1>8 DEF Formed, DriverFields, SocketFields
<1>10. StillWaits(c.sockets[k], s)
  BY <1>8 DEF StillWaits, SocketFields
<1> HIDE DEF s
<1>11. Quiet(c, e)
  BY <1>7, <1>8, <1>9, <1>10, OneEvolves DEF Quiet
<1>12. k \in DOMAIN e.sockets
  BY <1>8, <1>9
<1> QED
  BY <1>4, <1>6, <1>11, <1>12, QuietThen

LEMMA CloseSays ==
  ASSUME NEW d, Formed(d), NEW k \in DOMAIN d.sockets, NEW b \in BOOLEAN,
         NEW e, e = CloseSocket(d, k, b)
  PROVE  Says(d, e)
<1> DEFINE c == Emptied(d, k, b)
           p == AppendPacket(c, k, "RESET", 0, 0)
           f == [c EXCEPT !.sockets[k].flags = @ \cup {"SHOULD_SEND_RESET"}]
<1>1. /\ c = Emptied(d, k, b) /\ p = AppendPacket(c, k, "RESET", 0, 0)
      /\ f = [c EXCEPT !.sockets[k].flags = @ \cup {"SHOULD_SEND_RESET"}]
      /\ \/ e = DeleteSocket(c, k) \/ e = DeleteSocket(p, k)
         \/ e = AddToSendQueue(f, k, 0)
  BY DEF CloseSocket
<1> HIDE DEF c, p, f
<1>2. Quiet(d, c) /\ k \in DOMAIN c.sockets /\ Formed(c)
  <2>1. Quiet(d, c) /\ k \in DOMAIN c.sockets
    BY <1>1, EmptiedQuiet
  <2> QED
    BY <2>1, QuietThen
<1>3. Says(c, p) /\ Formed(p)
  <2>1. Says(c, p)
    BY <1>1, <1>2, AppendSays
  <2> QED
    BY <2>1 DEF Says, Evolves
<1>4. Quiet(c, f) /\ k \in DOMAIN f.sockets /\ Formed(f)
  <2> DEFINE s == [c.sockets[k] EXCEPT !.flags = @ \cup {"SHOULD_SEND_RESET"}]
  <2>1. DOMAIN c.sockets[k] = SocketFields
    BY <1>2 DEF Formed
  <2>2. /\ DOMAIN f = DriverFields /\ f.serious_error = c.serious_error
        /\ f.sockets = [c.sockets EXCEPT ![k] = s] /\ f.a2r = c.a2r
    BY <1>1, <1>2 DEF Formed, DriverFields
  <2>3. StillWaits(c.sockets[k], s)
    BY <2>1 DEF StillWaits, SocketFields
  <2> HIDE DEF s
  <2>4. Quiet(c, f) /\ k \in DOMAIN f.sockets
    BY <1>2, <2>2, <2>3, OneEvolves DEF Quiet
  <2> QED
    BY <2>4, QuietThen
<1>5. CASE e = DeleteSocket(c, k)
  <2>1. Quiet(c, e)
    BY <1>2, <1>5, PartsQuiet
  <2> QED
    BY <1>2, <2>1, QuietThen
<1>6. CASE e = DeleteSocket(p, k)
  <2>1. Quiet(p, e)
    BY <1>3, <1>6, PartsQuiet
  <2>2. Says(c, e)
    BY <1>3, <2>1, SaysThen
  <2> QED
    BY <1>2, <2>2, QuietThen
<1>7. CASE e = AddToSendQueue(f, k, 0)
  <2>1. Quiet(f, e)
    BY <1>4, <1>7, PartsQuiet
  <2>2. Quiet(c, e)
    BY <1>4, <2>1, QuietThen
  <2> QED
    BY <1>2, <2>2, QuietThen
<1> QED
  BY <1>1, <1>5, <1>6, <1>7

\* Without a RESET of its own nothing is sent.
LEMMA CloseQuiet ==
  ASSUME NEW d, Formed(d), NEW k \in DOMAIN d.sockets,
         NEW e, e = CloseSocket(d, k, FALSE)
  PROVE  Quiet(d, e)
<1> DEFINE c == Emptied(d, k, FALSE)
<1>1. c = Emptied(d, k, FALSE) /\ e = DeleteSocket(c, k)
  BY DEF CloseSocket
<1> HIDE DEF c
<1>2. Quiet(d, c) /\ Formed(c)
  BY <1>1, EmptiedQuiet, QuietThen
<1>3. Quiet(c, e)
  BY <1>1, <1>2, PartsQuiet
<1> QED
  BY <1>2, <1>3, QuietThen

LEMMA BothEosQuiet ==
  ASSUME NEW d, Formed(d), NEW k \in DOMAIN d.sockets, NEW e, e = CloseIfBothEos(d, k)
  PROVE  Quiet(d, e)
<1>1. CASE e = CloseSocket(d, k, FALSE)
  BY <1>1, CloseQuiet
<1>2. CASE e = d
  BY <1>2, OneEvolves DEF Quiet, Formed
<1> QED
  BY <1>1, <1>2 DEF CloseIfBothEos

\* A flag is raised, a request is put into a slot or taken out, or packets are taken.
LEMMA FieldQuiet ==
  ASSUME NEW d, Formed(d), NEW k \in DOMAIN d.sockets,
         NEW f \in SocketFields \ {"stream_id", "pending_connect"}, NEW x,
         f = "flags" => d.sockets[k].flags \subseteq x,
         NEW e, DOMAIN e = DriverFields, e.serious_error = d.serious_error,
         e.a2r = d.a2r, e.sockets = [d.sockets EXCEPT ![k] = [@ EXCEPT ![f] = x]]
  PROVE  Quiet(d, e) /\ k \in DOMAIN e.sockets
<1> DEFINE s == [d.sockets[k] EXCEPT ![f] = x]
<1>1. DOMAIN d.sockets[k] = SocketFields
  BY DEF Formed
<1>2. StillWaits(d.sockets[k], s)
  BY <1>1 DEF StillWaits, SocketFields
<1>3. e.sockets = [d.sockets EXCEPT ![k] = s]
  OBVIOUS
<1> HIDE DEF s
<1> QED
  BY <1>2, <1>3, OneEvolves DEF Quiet

LEMMA FlagQuiet ==
  ASSUME NEW d, Formed(d), NEW k \in DOMAIN d.sockets, NEW flag,
         NEW e, DOMAIN e = DriverFields, e.serious_error = d.serious_error,
         e.a2r = d.a2r,
         e.sockets = [d.sockets EXCEPT ![k] =
                        [@ EXCEPT !.flags = d.sockets[k].flags \cup {flag}]]
  PROVE  Quiet(d, e) /\ k \in DOMAIN e.sockets
<1> DEFINE x == d.sockets[k].flags \cup {flag}
<1>1. /\ "flags" \in SocketFields \ {"stream_id", "pending_connect"}
      /\ d.sockets[k].flags \subseteq x
      /\ e.sockets = [d.sockets EXCEPT ![k] = [@ EXCEPT !["flags"] = x]]
  BY DEF SocketFields
<1> HIDE DEF x
<1> QED
  BY <1>1, FieldQuiet

LEMMA EosToAppQuiet ==
  ASSUME NEW d, Formed(d), NEW k \in DOMAIN d.sockets, NEW e, e = EosToApp(d, k)
  PROVE  Quiet(d, e)
<1> DEFINE a == [d EXCEPT !.sockets[k].flags = @ \cup {"SENT_EOS_TO_APP"},
                          !.hist[d.sockets[k].conv].read_eos = TRUE]
<1>1. e = CloseIfBothEos(a, k)
  BY DEF EosToApp
<1>2. /\ DOMAIN a = DriverFields /\ a.serious_error = d.serious_error /\ a.a2r = d.a2r
      /\ a.sockets = [d.sockets EXCEPT ![k] =
                        [@ EXCEPT !.flags = d.sockets[k].flags \cup {"SENT_EOS_TO_APP"}]]
  BY DEF Formed, DriverFields
<1> HIDE DEF a
<1>3. Quiet(d, a) /\ k \in DOMAIN a.sockets
  BY <1>2, FlagQuiet
<1>4. Formed(a)
  BY <1>3, QuietThen
<1>5. Quiet(a, e)
  BY <1>1, <1>3, <1>4, BothEosQuiet
<1> QED
  BY <1>3, <1>5, QuietThen

LEMMA EosToRpiSays ==
  ASSUME NEW d, Formed(d), NEW k \in DOMAIN d.sockets, NEW e, e = EosToRpi(d, k)
  PROVE  Says(d, e)
<1> DEFINE p == AppendPacket(d, k, "EOS", 0, 0)
           b == [p EXCEPT !.sockets[k].flags = @ \cup {"SENT_EOS_TO_RPI"}]
<1>1. e = CloseIfBothEos(b, k) /\ p = AppendPacket(d, k, "EOS", 0, 0)
      /\ p.sockets = d.sockets
  BY DEF EosToRpi, AppendPacket, Formed, DriverFields
<1> HIDE DEF p
<1>2. Says(d, p)
  BY <1>1, AppendSays
<1>3. Formed(p) /\ k \in DOMAIN p.sockets
  BY <1>1, <1>2 DEF Says, Evolves
<1>4. /\ DOMAIN b = DriverFields /\ b.serious_error = p.serious_error /\ b.a2r = p.a2r
      /\ b.sockets = [p.sockets EXCEPT ![k] =
                        [@ EXCEPT !.flags = p.sockets[k].flags \cup {"SENT_EOS_TO_RPI"}]]
  BY <1>3 DEF Formed, DriverFields
<1> HIDE DEF b
<1>5. Quiet(p, b) /\ k \in DOMAIN b.sockets
  BY <1>3, <1>4, FlagQuiet
<1>6. Formed(b)
  BY <1>5, QuietThen
<1>7. Quiet(b, e)
  BY <1>1, <1>5, <1>6, BothEosQuiet
<1>8. Quiet(p, e)
  BY <1>5, <1>7, QuietThen
<1> QED
  BY <1>2, <1>8, SaysThen

LEMMA DataSays ==
  ASSUME NEW d, Formed(d), NEW k, NEW q, NEW e, e = DataToRpi(d, k, q)
  PROVE  Says(d, e)
<1> DEFINE p == AppendPacket(d, k, "DATA", q.len, q.val)
<1>1. e = [p EXCEPT !.hist[d.sockets[k].conv].written = Append(@, q.val)]
  BY DEF DataToRpi
<1>2. Says(d, p)
  BY AppendSays
<1> HIDE DEF p
<1>3. Formed(p)
  BY <1>2 DEF Says, Evolves
<1>4. /\ DOMAIN e = DriverFields /\ e.serious_error = p.serious_error
      /\ e.sockets = p.sockets /\ e.a2r = p.a2r
  BY <1>1, <1>3 DEF Formed, DriverFields
<1>5. Quiet(p, e)
  BY <1>3, <1>4, OneEvolves DEF Quiet
<1> QED
  BY <1>2, <1>5, SaysThen

\* Answering a request touches no socket.
LEMMA ReplyQuiet ==
  ASSUME NEW d, Formed(d), NEW r, NEW e, e = Reply(d, r)
  PROVE  Quiet(d, e) /\ Formed(e) /\ e.sockets = d.sockets
<1>1. e.sockets = d.sockets
  BY DEF Reply, Formed, DriverFields
<1>2. Quiet(d, e)
  BY PartsQuiet
<1> QED
  BY <1>1, <1>2, QuietThen

LEMMA MisuseSays ==
  ASSUME NEW d, Formed(d), NEW r, NEW k \in DOMAIN d.sockets, NEW e, e = Misuse(d, r, k)
  PROVE  Says(d, e)
<1> DEFINE a == Reply(d, r)
<1>1. a = Reply(d, r) /\ e = CloseSocket(a, k, TRUE) /\ TRUE \in BOOLEAN
  BY DEF Misuse
<1> HIDE DEF a
<1>2. Quiet(d, a) /\ Formed(a) /\ k \in DOMAIN a.sockets
  BY <1>1, ReplyQuiet
<1>3. Says(a, e)
  BY <1>1, <1>2, CloseSays
<1> QED
  BY <1>2, <1>3, QuietThen

LEMMA ReadSays ==
  ASSUME NEW d, Formed(d), NEW r, NEW q, NEW e, e = HandleAppRead(d, r, q)
  PROVE  Says(d, e)
<1> DEFINE k == q.key
           s == d.sockets[k]
           a == Reply(d, r)
           b == [a EXCEPT !.sockets[k].rq = Tail(@),
                          !.hist[s.conv].read = Append(@, Head(s.rq).val)]
           c == [d EXCEPT !.sockets[k].pending_read = r]
<1>1. /\ a = Reply(d, r)
      /\ \/ e = a
         \/ k \in DOMAIN d.sockets /\ (e = Misuse(d, r, k) \/ e = b \/ e = EosToApp(a, k)
                                       \/ e = c)
  BY DEF HandleAppRead, NoOpenSocket
<1>2. Quiet(d, a) /\ Formed(a) /\ a.sockets = d.sockets
  BY ReplyQuiet
<1>3. CASE e = a
  BY <1>2, <1>3, QuietThen
<1>4. CASE k \in DOMAIN d.sockets /\ e = Misuse(d, r, k)
  BY <1>4, MisuseSays
<1>5. CASE k \in DOMAIN d.sockets /\ e = b
  <2> DEFINE x == Tail(a.sockets[k].rq)
  <2>1. /\ DOMAIN b = DriverFields /\ b.serious_error = a.serious_error
        /\ b.a2r = a.a2r
        /\ b.sockets = [a.sockets EXCEPT ![k] = [@ EXCEPT !["rq"] = x]]
    <3> HIDE DEF a
    <3> QED
      BY <1>2 DEF Formed, DriverFields
  <2>2. "rq" \in SocketFields \ {"stream_id", "pending_connect"} /\ "rq" # "flags"
    BY DEF SocketFields
  <2> HIDE DEF x, b, a, k
  <2>3. Quiet(a, b)
    BY <1>2, <1>5, <2>1, <2>2, FieldQuiet
  <2> QED
    BY <1>2, <1>5, <2>3, QuietThen
<1>6. CASE k \in DOMAIN d.sockets /\ e = EosToApp(a, k)
  <2> HIDE DEF a, k
  <2>1. Quiet(a, e)
    BY <1>2, <1>6, EosToAppQuiet
  <2> QED
    BY <1>2, <2>1, QuietThen
<1>7. CASE k \in DOMAIN d.sockets /\ e = c
  <2>1. /\ DOMAIN c = DriverFields /\ c.serious_error = d.serious_error
        /\ c.a2r = d.a2r
        /\ c.sockets = [d.sockets EXCEPT ![k] = [@ EXCEPT !["pending_read"] = r]]
    BY DEF Formed, DriverFields
  <2>2. /\ "pending_read" \in SocketFields \ {"stream_id", "pending_connect"}
        /\ "pending_read" # "flags"
    BY DEF SocketFields
  <2> HIDE DEF c, k
  <2>3. Quiet(d, c)
    BY <1>7, <2>1, <2>2, FieldQuiet
  <2> QED
    BY <1>7, <2>3, QuietThen
<1> QED
  BY <1>1, <1>3, <1>4, <1>5, <1>6, <1>7

\* HandleAppWrite, HandleAppEos and HandleAppReset.
LEMMA SendSays ==
  ASSUME NEW d, Formed(d), NEW r, NEW q,
         NEW e, \/ e = HandleAppWrite(d, r, q) \/ e = HandleAppEos(d, r, q)
                \/ e = HandleAppReset(d, r, q)
  PROVE  Says(d, e)
<1> DEFINE k == q.key
           a == Reply(d, r)
           f == [d EXCEPT !.sockets[k].flags = @ \cup {"RCVD_EOS_FROM_APP"}]
           g == Reply(f, r)
           b == [d EXCEPT !.sockets[k].pending_write = r]
           c == [f EXCEPT !.sockets[k].pending_write = r]
<1>1. /\ a = Reply(d, r) /\ g = Reply(f, r)
      /\ \/ e = a
         \/ /\ k \in DOMAIN d.sockets
            /\ \/ e = Misuse(d, r, k) \/ e = DataToRpi(a, k, q) \/ e = EosToRpi(g, k)
               \/ e = AddToSendQueue(b, k, q.len) \/ e = AddToSendQueue(c, k, 0)
  <2>1. CASE e = HandleAppWrite(d, r, q)
    BY <2>1 DEF HandleAppWrite, NoOpenSocket
  <2>2. CASE e = HandleAppEos(d, r, q)
    BY <2>2 DEF HandleAppEos, NoOpenSocket
  <2>3. CASE e = HandleAppReset(d, r, q)
    BY <2>3 DEF HandleAppReset, NoOpenSocket
  <2> QED
    BY <2>1, <2>2, <2>3
<1>2. Quiet(d, a) /\ Formed(a) /\ a.sockets = d.sockets
  BY ReplyQuiet
<1>3. CASE e = a
  BY <1>2, <1>3, QuietThen
<1>4. ASSUME k \in DOMAIN d.sockets
      PROVE  /\ Quiet(d, f) /\ Formed(f) /\ k \in DOMAIN f.sockets
             /\ Quiet(d, b) /\ Formed(b) /\ k \in DOMAIN b.sockets
             /\ Quiet(d, c) /\ Formed(c) /\ k \in DOMAIN c.sockets
  <2>1. /\ DOMAIN f = DriverFields /\ f.serious_error = d.serious_error
        /\ f.a2r = d.a2r
        /\ f.sockets = [d.sockets EXCEPT ![k] =
             [@ EXCEPT !.flags = d.sockets[k].flags \cup {"RCVD_EOS_FROM_APP"}]]
    BY DEF Formed, DriverFields
  <2>2. /\ DOMAIN b = DriverFields /\ b.serious_error = d.serious_error
        /\ b.a2r = d.a2r
        /\ b.sockets = [d.sockets EXCEPT ![k] = [@ EXCEPT !["pending_write"] = r]]
    BY DEF Formed, DriverFields
  <2>3. DOMAIN f = DriverFields =>
          /\ DOMAIN c = DriverFields /\ c.serious_error = f.serious_error
          /\ c.a2r = f.a2r
          /\ c.sockets = [f.sockets EXCEPT ![k] = [@ EXCEPT !["pending_write"] = r]]
    <3> HIDE DEF f
    <3> QED
      BY DEF DriverFields
  <2>4. /\ "pending_write" \in SocketFields \ {"stream_id", "pending_connect"}
        /\ "pending_write" # "flags"
    BY DEF SocketFields
  <2> HIDE DEF b, c, f, k
  <2>5. Quiet(d, f) /\ k \in DOMAIN f.sockets
    BY <1>4, <2>1, FlagQuiet
  <2>6. Quiet(d, b) /\ k \in DOMAIN b.sockets
    BY <1>4, <2>2, <2>4, FieldQuiet
  <2>7. Formed(f) /\ Formed(b)
    BY <2>5, <2>6, QuietThen
  <2>8. Quiet(f, c) /\ k \in DOMAIN c.sockets
    <3>1. /\ DOMAIN c = DriverFields /\ c.serious_error = f.serious_error
          /\ c.a2r = f.a2r
          /\ c.sockets = [f.sockets EXCEPT ![k] = [@ EXCEPT !["pending_write"] = r]]
      BY <2>1, <2>3
    <3> QED
      BY ONLY <2>4, <2>5, <2>7, <3>1, FieldQuiet
  <2>9. Quiet(d, c)
    BY <2>5, <2>8, QuietThen
  <2>10. Formed(c)
    BY <2>9, QuietThen
  <2> QED
    BY <2>5, <2>6, <2>7, <2>8, <2>9, <2>10
<1> HIDE DEF a, b, c, f, g, k
<1>5. ASSUME k \in DOMAIN d.sockets, e = Misuse(d, r, k) PROVE Says(d, e)
  BY <1>5, MisuseSays
<1>6. ASSUME k \in DOMAIN d.sockets, e = DataToRpi(a, k, q) PROVE Says(d, e)
  <2>1. Says(a, e)
    BY <1>2, <1>6, DataSays
  <2> QED
    BY <1>2, <2>1, QuietThen
<1>7. ASSUME k \in DOMAIN d.sockets, e = EosToRpi(g, k) PROVE Says(d, e)
  <2>1. Quiet(f, g) /\ Formed(g) /\ k \in DOMAIN g.sockets
    BY <1>1, <1>4, <1>7, ReplyQuiet
  <2>2. Says(g, e)
    BY <1>7, <2>1, EosToRpiSays
  <2>3. Says(f, e)
    BY <2>1, <2>2, QuietThen
  <2> QED
    BY <1>4, <1>7, <2>3, QuietThen
<1>8. ASSUME k \in DOMAIN d.sockets, e = AddToSendQueue(b, k, q.len) PROVE Says(d, e)
  <2>1. Quiet(b, e)
    BY <1>4, <1>8, PartsQuiet
  <2> QED
    BY <1>4, <1>8, <2>1, QuietThen
<1>9. ASSUME k \in DOMAIN d.sockets, e = AddToSendQueue(c, k, 0) PROVE Says(d, e)
  <2>1. Quiet(c, e)
    BY <1>4, <1>9, PartsQuiet
  <2> QED
    BY <1>4, <1>9, <2>1, QuietThen
<1> QED
  BY <1>1, <1>3, <1>5, <1>6, <1>7, <1>8, <1>9

\* Every open socket of the stream id waits for the answer to its CONNECT.
Waits(d, id) ==
  \A k \in DOMAIN d.sockets :
    d.sockets[k].stream_id = id /\ "CLOSED" \notin d.sockets[k].flags =>
      d.sockets[k].pending_connect # NoRequest

\* The first packet of a stream whose id neither side has seen.
FirstPacket(d, e, p, W) ==
  /\ e.a2r = Append(d.a2r, p) /\ p.id \notin W /\ ~HasId(d.a2r, p.id)
  /\ Waits(e, p.id)

\* A CONNECT is sent or queued.
Asks(d, e, W) ==
  /\ Formed(e) /\ e.serious_error = d.serious_error
  /\ \A k \in DOMAIN e.sockets :
       \/ k \in DOMAIN d.sockets /\ StillWaits(d.sockets[k], e.sockets[k])
       \/ e.sockets[k].pending_connect # NoRequest
  /\ e.a2r = d.a2r \/ \E p : FirstPacket(d, e, p, W)

LEMMA QueuedWaits ==
  ASSUME NEW d, Formed(d), NEW k \in DOMAIN d.sockets, NEW len,
         NEW e, e = AddToSendQueue(d, k, len)
  PROVE  e.sockets[k].pending_connect = d.sockets[k].pending_connect
<1> DEFINE s == [d.sockets[k] EXCEPT !.required_length = len,
                                     !.flags = @ \cup {"IN_SEND_QUEUE"}]
<1>1. DOMAIN d.sockets[k] = SocketFields
  BY DEF Formed
<1>2. e.sockets = [d.sockets EXCEPT ![k] = s]
  BY <1>1 DEF AddToSendQueue, Formed, DriverFields, SocketFields
<1>3. s.pending_connect = d.sockets[k].pending_connect
  BY <1>1 DEF SocketFields
<1> HIDE DEF s
<1> QED
  BY <1>2, <1>3

LEMMA ConnectAsks ==
  ASSUME NEW d, NEW P, NEW n \in 1 .. StreamIds, NEW W, DriverInv(d, P, n, W),
         n \notin W, NEW r \in P, NEW q, q = d.ior[r], Connects(d, q),
         NEW e, e = HandleAppConnect(d, r, q)
  PROVE  Asks(d, e, W)
<1> DEFINE k == q.key
           new == NewSocket(n, q.val)
           t == [new EXCEPT !.pending_connect = r]
           c == CreateSocket(d, k, q.val)
           f == [c EXCEPT !.sockets[k].pending_connect = r]
           a == AppendPacket(f, k, "CONNECT", q.len, q.name)
<1>1. e = a \/ e = AddToSendQueue(f, k, q.len)
  BY DEF HandleAppConnect, Connects
<1>2. /\ k \notin DOMAIN d.sockets /\ r # NoRequest /\ RingOK(d.a2r, n)
      /\ DOMAIN d = DriverFields /\ IdsOK(d, n)
  BY DriverFacts, DriverAssumption DEF Connects, ConnectRefused, Asked
<1>3. ~HasId(d.a2r, n)
  BY <1>2, FreshInRing
<1>4. /\ \A j \in DOMAIN d.sockets : /\ StillWaits(d.sockets[j], d.sockets[j])
                                     /\ d.sockets[j].stream_id # n
                                     /\ DOMAIN d.sockets[j] = SocketFields
  BY SocketFacts DEF StillWaits
<1>5. /\ DOMAIN c = DriverFields /\ c.serious_error = d.serious_error /\ c.a2r = d.a2r
      /\ c.sockets = [j \in DOMAIN d.sockets \cup {k} |->
                        IF j = k THEN new ELSE d.sockets[j]]
  <2>1. c = [d EXCEPT !.sockets = With(@, k, new), !.next_stream_id = NextId(n)]
    BY <1>2, NextIsAllocated DEF CreateSocket
  <2>2. With(d.sockets, k, new) = [j \in DOMAIN d.sockets \cup {k} |->
                                     IF j = k THEN new ELSE d.sockets[j]]
    BY DEF With
  <2> HIDE DEF new, c
  <2> QED
    BY <1>2, <2>1, <2>2 DEF DriverFields
<1>6. /\ DOMAIN new = SocketFields /\ new.stream_id = n
      /\ DOMAIN t = SocketFields /\ t.stream_id = n /\ t.pending_connect = r
  BY DEF NewSocket, SocketFields
<1> HIDE DEF c
<1>7. /\ DOMAIN f = DriverFields /\ f.serious_error = d.serious_error /\ f.a2r = d.a2r
      /\ f.sockets = [j \in DOMAIN d.sockets \cup {k} |->
                        IF j = k THEN t ELSE d.sockets[j]]
  <2> HIDE DEF new
  <2> QED
    BY <1>2, <1>5 DEF DriverFields
<1> HIDE DEF f, t, new
<1>8. Formed(f)
  BY <1>4, <1>6, <1>7 DEF Formed
<1>9. CASE e = a
  <2> DEFINE p == Packet("CONNECT", f.sockets[k].stream_id, q.len, q.name,
                         f.sockets[k].conv)
  <2>1. /\ DOMAIN e = DriverFields /\ e.serious_error = d.serious_error
        /\ e.sockets = f.sockets /\ e.a2r = Append(d.a2r, p)
    BY <1>7, <1>9 DEF AppendPacket, DriverFields
  <2>2. p.id = n
    BY <1>6, <1>7 DEF Packet
  <2> HIDE DEF p
  <2>3. /\ \A j \in DOMAIN e.sockets :
             j = k \/ (j \in DOMAIN d.sockets /\ e.sockets[j] = d.sockets[j])
        /\ k \in DOMAIN e.sockets /\ e.sockets[k] = t
    BY <1>7, <2>1
  <2>4. Formed(e)
    BY <1>8, <2>1 DEF Formed
  <2>5. Waits(e, n)
    BY <1>2, <1>4, <1>6, <2>3 DEF Waits
  <2>6. FirstPacket(d, e, p, W)
    BY <1>3, <2>1, <2>2, <2>5 DEF FirstPacket
  <2> QED
    BY <1>2, <1>4, <1>6, <2>1, <2>3, <2>4, <2>6 DEF Asks
<1>10. CASE e = AddToSendQueue(f, k, q.len)
  <2>1. k \in DOMAIN f.sockets /\ f.sockets[k] = t
    BY <1>7
  <2>2. Quiet(f, e)
    BY <1>8, <1>10, <2>1, PartsQuiet
  <2>3. /\ Formed(e) /\ e.serious_error = d.serious_error /\ e.a2r = d.a2r
    BY <1>7, <2>2, QuietThen DEF Quiet, Evolves
  <2>4. ASSUME NEW j \in DOMAIN e.sockets
        PROVE  \/ j \in DOMAIN d.sockets /\ StillWaits(d.sockets[j], e.sockets[j])
               \/ e.sockets[j].pending_connect # NoRequest
    <3>1. j \in DOMAIN f.sockets /\ StillWaits(f.sockets[j], e.sockets[j])
      BY <2>2 DEF Quiet, Evolves
    <3>2. CASE j = k
      <4>1. e.sockets[k].pending_connect = f.sockets[k].pending_connect
        BY <1>8, <1>10, <2>1, QueuedWaits
      <4> QED
        BY <1>2, <1>6, <2>1, <3>2, <4>1
    <3>3. CASE j # k
      BY <1>7, <3>1, <3>3
    <3> QED
      BY <3>2, <3>3
  <2> QED
    BY <2>3, <2>4 DEF Asks
<1> QED
  BY <1>1, <1>9, <1>10

LEMMA SaysAsks ==
  ASSUME NEW d, NEW e, NEW W, Evolves(d, e),
         e.a2r = d.a2r \/ \E p : FirstPacket(d, e, p, W)
  PROVE  Asks(d, e, W)
BY DEF Evolves, Asks

\* Whatever an application asks for.
LEMMA RequestSays ==
  ASSUME NEW d, NEW P, NEW n, NEW W, DriverInv(d, P, n, W), NEW r \in P,
         Connects(d, d.ior[r]) => n \in 1 .. StreamIds /\ n \notin W,
         NEW e, e = HandleAppRequest(d, r)
  PROVE  Says(d, e) \/ Asks(d, e, W)
<1> DEFINE q == d.ior[r]
<1>1. q \in Asked /\ q.command \in Commands
  BY DriverFacts DEF Asked
<1>2. \/ q.command = "CONNECT" /\ e = HandleAppConnect(d, r, q)
      \/ e = HandleAppRead(d, r, q) \/ e = HandleAppWrite(d, r, q)
      \/ e = HandleAppEos(d, r, q) \/ e = HandleAppReset(d, r, q)
  BY <1>1 DEF HandleAppRequest, Commands
<1>3. Formed(d)
  BY DriverFacts, SocketFacts DEF Formed
<1>4. CASE q.command = "CONNECT" /\ e = HandleAppConnect(d, r, q)
  <2>1. CASE Connects(d, q)
    BY <1>4, <2>1, ConnectAsks
  <2>2. CASE ~Connects(d, q)
    <3>1. e = Reply(d, r)
      BY <1>4, <2>2 DEF Connects, HandleAppConnect
    <3> QED
      BY <1>3, <3>1, ReplyQuiet, QuietThen
  <2> QED
    BY <2>1, <2>2
<1> HIDE DEF q
<1> QED
  BY <1>2, <1>3, <1>4, ReadSays, SendSays

\* What the send queue sends first.
LEMMA QueuedSays ==
  ASSUME NEW d, NEW P, NEW n, NEW W, DriverInv(d, P, n, W), HeadFits(d),
         NEW e, e = SendQueued(d)
  PROVE  Says(d, e) \/ Asks(d, e, W)
<1> DEFINE k == Head(d.send_queue)
           s == d.sockets[k]
           c == RemoveFromSendQueue(d, k)
           r == s.pending_write
           g == Reply(c, r)
           f == [g EXCEPT !.sockets[k].pending_write = NoRequest]
           x == d.ior[s.pending_connect]
           a == AppendPacket(c, k, "CONNECT", x.len, x.name)
           z == AppendPacket(c, k, "RESET", 0, 0)
           b == DeleteSocket(z, k)
<1>1. e = IF s.pending_connect # NoRequest THEN a
          ELSE IF r # NoRequest
          THEN IF d.ior[r].command = "WRITE" THEN DataToRpi(f, k, d.ior[r])
               ELSE EosToRpi(f, k)
          ELSE IF "SHOULD_SEND_RESET" \in s.flags THEN b
          ELSE [c EXCEPT !.serious_error = TRUE]
  BY DEF SendQueued
<1>2. /\ d.send_queue \in Seq(Keys) /\ Once(d.send_queue) /\ d.send_queue # <<>>
      /\ DOMAIN d = DriverFields /\ d.ior \in AllRequests
      /\ \A i, j \in DOMAIN d.sockets :
           d.sockets[i].stream_id = d.sockets[j].stream_id => i = j
  BY DriverFacts DEF HeadFits, IdsOK
<1>3. k \in Keys /\ Among(d.send_queue, k)
  BY <1>2, TailFacts
<1> HIDE DEF k
<1>4. /\ k \in DOMAIN d.sockets /\ SocketOK(s, k, d.ior, Among(d.send_queue, k))
      /\ Unsent(d, k, W)
  BY <1>3, SocketFacts DEF DriverInv, KeyOK
<1>5. Waiting(s)
  BY <1>3, <1>4 DEF SocketOK
<1>6. Formed(d)
  BY <1>2, SocketFacts DEF Formed
<1>7. Quiet(d, c) /\ Formed(c)
  <2>1. Quiet(d, c)
    BY <1>4, <1>6, PartsQuiet
  <2> QED
    BY <2>1, QuietThen
<1>8. DOMAIN c.sockets = DOMAIN d.sockets
  BY <1>2 DEF RemoveFromSendQueue, DriverFields
<1> HIDE DEF c, s
<1>9. CASE s.pending_connect # NoRequest
  <2> DEFINE p == Packet("CONNECT", c.sockets[k].stream_id, x.len, x.name,
                         c.sockets[k].conv)
  <2>1. /\ DOMAIN e = DriverFields /\ e.serious_error = c.serious_error
        /\ e.sockets = c.sockets /\ e.a2r = Append(c.a2r, p)
    BY <1>1, <1>7, <1>9 DEF AppendPacket, Formed, DriverFields
  <2>2. p.id = c.sockets[k].stream_id
    BY DEF Packet
  <2> HIDE DEF p
  <2>3. /\ StillWaits(d.sockets[k], c.sockets[k]) /\ c.a2r = d.a2r
        /\ \A j \in DOMAIN c.sockets : StillWaits(d.sockets[j], c.sockets[j])
    BY <1>4, <1>7, <1>8 DEF Quiet, Evolves
  <2>4. p.id \notin W /\ ~HasId(d.a2r, p.id)
    BY <1>3, <1>4, <1>9, <2>2, <2>3 DEF Unsent, StillWaits, s
  <2>5. Waits(e, p.id)
    <3> SUFFICES ASSUME NEW j \in DOMAIN e.sockets, e.sockets[j].stream_id = p.id,
                        "CLOSED" \notin e.sockets[j].flags
                 PROVE  e.sockets[j].pending_connect # NoRequest
      BY DEF Waits
    <3>1. j = k
      BY <1>2, <1>4, <1>8, <2>1, <2>2, <2>3 DEF StillWaits
    <3> QED
      BY <1>9, <2>1, <2>3, <3>1 DEF StillWaits, s
  <2>6. FirstPacket(d, e, p, W)
    BY <2>1, <2>3, <2>4, <2>5 DEF FirstPacket
  <2>7. Evolves(d, e)
    BY <1>7, <2>1 DEF Quiet, Evolves, Formed
  <2> QED
    BY <2>6, <2>7, SaysAsks
<1>10. CASE s.pending_connect = NoRequest /\ r # NoRequest
  <2>1. Quiet(c, g) /\ Formed(g) /\ g.sockets = c.sockets
    BY <1>7, ReplyQuiet
  <2> HIDE DEF g
  <2>2. /\ DOMAIN f = DriverFields /\ f.serious_error = g.serious_error
        /\ f.a2r = g.a2r
        /\ f.sockets = [g.sockets EXCEPT ![k] = [@ EXCEPT !["pending_write"] = NoRequest]]
    BY <2>1 DEF Formed, DriverFields
  <2>3. /\ "pending_write" \in SocketFields \ {"stream_id", "pending_connect"}
        /\ "pending_write" # "flags"
    BY DEF SocketFields
  <2> HIDE DEF f
  <2>4. Quiet(g, f) /\ k \in DOMAIN f.sockets
    BY <1>4, <1>8, <2>1, <2>2, <2>3, FieldQuiet
  <2>5. Quiet(d, f) /\ Formed(f)
    <3>1. Quiet(d, g)
      BY <1>7, <2>1, QuietThen
    <3>2. Quiet(d, f)
      BY <2>4, <3>1, QuietThen
    <3> QED
      BY <3>2, QuietThen
  <2>6. e = DataToRpi(f, k, d.ior[r]) \/ e = EosToRpi(f, k)
    BY <1>1, <1>10
  <2>7. Says(f, e)
    BY <2>4, <2>5, <2>6, DataSays, EosToRpiSays
  <2> QED
    BY <2>5, <2>7, QuietThen
<1>11. CASE s.pending_connect = NoRequest /\ r = NoRequest
  <2>1. e = b
    BY <1>1, <1>5, <1>11 DEF Waiting
  <2>2. Says(c, z)
    BY <1>7, AppendSays
  <2> HIDE DEF z
  <2>3. Formed(z)
    BY <2>2 DEF Says, Evolves
  <2>4. Quiet(z, e)
    BY <2>1, <2>3, PartsQuiet
  <2>5. Says(c, e)
    BY <2>2, <2>4, SaysThen
  <2> QED
    BY <1>7, <2>5, QuietThen
<1> QED
  BY <1>9, <1>10, <1>11

\* DATA.
LEMMA R2aDataSays ==
  ASSUME NEW d, Formed(d), NEW k \in DOMAIN d.sockets, NEW p,
         NEW e, e = R2aData(d, k, p)
  PROVE  Says(d, e)
<1> DEFINE s == d.sockets[k]
           r == s.pending_read
           x == Append(s.rq, p)
           a == [d EXCEPT !.sockets[k].rq = Append(@, p)]
           g == Reply(d, r)
           b == [g EXCEPT !.sockets[k].pending_read = NoRequest,
                          !.hist[s.conv].read = Append(@, p.val)]
<1>1. e = a \/ e = CloseSocket(d, k, TRUE) \/ e = b
  BY DEF R2aData
<1>2. CASE e = a
  <2>1. /\ DOMAIN e = DriverFields /\ e.serious_error = d.serious_error
        /\ e.a2r = d.a2r
        /\ e.sockets = [d.sockets EXCEPT ![k] = [@ EXCEPT !["rq"] = x]]
    BY <1>2 DEF Formed, DriverFields
  <2>2. "rq" \in SocketFields \ {"stream_id", "pending_connect"} /\ "rq" # "flags"
    BY DEF SocketFields
  <2> HIDE DEF x, a
  <2>3. Quiet(d, e)
    BY <2>1, <2>2, FieldQuiet
  <2> QED
    BY <2>3, QuietThen
<1>3. CASE e = CloseSocket(d, k, TRUE)
  <2>1. TRUE \in BOOLEAN
    OBVIOUS
  <2> QED
    BY <1>3, <2>1, CloseSays
<1>4. CASE e = b
  <2>1. Quiet(d, g) /\ Formed(g) /\ g.sockets = d.sockets
    BY ReplyQuiet
  <2> HIDE DEF g
  <2>2. /\ DOMAIN e = DriverFields /\ e.serious_error = g.serious_error
        /\ e.a2r = g.a2r
        /\ e.sockets = [g.sockets EXCEPT ![k] = [@ EXCEPT !["pending_read"] = NoRequest]]
    BY <1>4, <2>1 DEF Formed, DriverFields
  <2>3. /\ "pending_read" \in SocketFields \ {"stream_id", "pending_connect"}
        /\ "pending_read" # "flags"
    BY DEF SocketFields
  <2>4. Quiet(g, e)
    BY <2>1, <2>2, <2>3, FieldQuiet
  <2> QED
    BY <2>1, <2>4, QuietThen
<1> QED
  BY <1>1, <1>2, <1>3, <1>4

LEMMA R2aEosSays ==
  ASSUME NEW d, Formed(d), NEW k \in DOMAIN d.sockets, NEW e, e = R2aEos(d, k)
  PROVE  Says(d, e)
<1> DEFINE r == d.sockets[k].pending_read
           a == [d EXCEPT !.sockets[k].flags = @ \cup {"RCVD_EOS_FROM_RPI"}]
           g == Reply(a, r)
           b == [g EXCEPT !.sockets[k].pending_read = NoRequest]
<1>1. e = a \/ e = EosToApp(b, k)
  BY DEF R2aEos
<1>2. /\ DOMAIN a = DriverFields /\ a.serious_error = d.serious_error
      /\ a.a2r = d.a2r
      /\ a.sockets = [d.sockets EXCEPT ![k] =
           [@ EXCEPT !.flags = d.sockets[k].flags \cup {"RCVD_EOS_FROM_RPI"}]]
  BY DEF Formed, DriverFields
<1> HIDE DEF a
<1>3. Quiet(d, a) /\ k \in DOMAIN a.sockets
  BY <1>2, FlagQuiet
<1>4. Formed(a)
  BY <1>3, QuietThen
<1>5. Quiet(a, g) /\ Formed(g) /\ g.sockets = a.sockets
  BY <1>4, ReplyQuiet
<1> HIDE DEF g
<1>6. /\ DOMAIN b = DriverFields /\ b.serious_error = g.serious_error
      /\ b.a2r = g.a2r
      /\ b.sockets = [g.sockets EXCEPT ![k] = [@ EXCEPT !["pending_read"] = NoRequest]]
  BY <1>5 DEF Formed, DriverFields
<1>7. /\ "pending_read" \in SocketFields \ {"stream_id", "pending_connect"}
      /\ "pending_read" # "flags"
  BY DEF SocketFields
<1> HIDE DEF b
<1>8. Quiet(g, b) /\ k \in DOMAIN b.sockets
  BY <1>3, <1>5, <1>6, <1>7, FieldQuiet
<1>9. Formed(b)
  BY <1>8, QuietThen
<1>10. CASE e = a
  BY <1>3, <1>10, QuietThen
<1>11. CASE e = EosToApp(b, k)
  <2>1. Quiet(b, e)
    BY <1>8, <1>9, <1>11, EosToAppQuiet
  <2>2. Quiet(g, e)
    BY <1>8, <2>1, QuietThen
  <2>3. Quiet(a, e)
    BY <1>5, <2>2, QuietThen
  <2> QED
    BY <1>3, <2>3, QuietThen
<1> QED
  BY <1>1, <1>10, <1>11

\* The answer to the CONNECT of id has come.
AnswerTaken(d, e, id) ==
  /\ Formed(e) /\ e.serious_error = d.serious_error /\ e.a2r = d.a2r
  /\ \A k \in DOMAIN e.sockets :
       /\ k \in DOMAIN d.sockets
       /\ \/ StillWaits(d.sockets[k], e.sockets[k])
          \/ d.sockets[k].stream_id = id /\ e.sockets[k].stream_id = id

LEMMA ResponseAnswers ==
  ASSUME NEW d, Formed(d), NEW k \in DOMAIN d.sockets, "CLOSED" \notin d.sockets[k].flags,
         NEW p, d.sockets[k].stream_id = p.id, Waits(d, p.id),
         NEW e, e = R2aConnectResponse(d, k, p)
  PROVE  AnswerTaken(d, e, p.id)
<1> DEFINE r == d.sockets[k].pending_connect
           g == Reply(d, r)
           b == [g EXCEPT !.sockets[k].pending_connect = NoRequest]
           t == [d.sockets[k] EXCEPT !.pending_connect = NoRequest]
<1>1. r # NoRequest
  BY DEF Waits
<1>2. e = b \/ e = CloseSocket(b, k, FALSE)
  BY <1>1 DEF R2aConnectResponse
<1>3. Quiet(d, g) /\ Formed(g) /\ g.sockets = d.sockets
  BY ReplyQuiet
<1>4. DOMAIN d.sockets[k] = SocketFields
  BY DEF Formed
<1>5. DOMAIN t = SocketFields /\ t.stream_id = p.id
  BY <1>4 DEF SocketFields
<1> HIDE DEF g
<1>6. /\ DOMAIN b = DriverFields /\ b.serious_error = d.serious_error
      /\ b.a2r = d.a2r /\ b.sockets = [d.sockets EXCEPT ![k] = t]
  BY <1>3 DEF Formed, DriverFields, Quiet, Evolves
<1> HIDE DEF t, b
<1>7. /\ DOMAIN b.sockets = DOMAIN d.sockets
      /\ \A j \in DOMAIN d.sockets : b.sockets[j] = IF j = k THEN t ELSE d.sockets[j]
  BY <1>6
<1>8. Formed(b)
  BY <1>5, <1>6, <1>7 DEF Formed
<1>9. CASE e = b
  <2>1. \A j \in DOMAIN d.sockets : StillWaits(d.sockets[j], d.sockets[j])
    BY DEF Formed, StillWaits
  <2> QED
    BY <1>5, <1>6, <1>7, <1>8, <1>9, <2>1 DEF AnswerTaken
<1>10. CASE e = CloseSocket(b, k, FALSE)
  <2>1. Quiet(b, e) /\ Formed(e)
    <3>1. Quiet(b, e)
      BY <1>7, <1>8, <1>10, CloseQuiet
    <3> QED
      BY <3>1, QuietThen
  <2>2. ASSUME NEW j \in DOMAIN e.sockets
        PROVE  /\ j \in DOMAIN d.sockets
               /\ \/ StillWaits(d.sockets[j], e.sockets[j])
                  \/ d.sockets[j].stream_id = p.id /\ e.sockets[j].stream_id = p.id
    <3>1. j \in DOMAIN d.sockets /\ StillWaits(b.sockets[j], e.sockets[j])
      BY <1>7, <2>1 DEF Quiet, Evolves
    <3>2. CASE j = k
      BY <1>5, <1>7, <3>1, <3>2 DEF StillWaits
    <3>3. CASE j # k
      BY <1>7, <3>1, <3>3
    <3> QED
      BY <3>1, <3>2, <3>3
  <2> QED
    BY <1>6, <2>1, <2>2 DEF AnswerTaken, Quiet, Evolves
<1> QED
  BY <1>2, <1>9, <1>10

LEMMA PacketSays ==
  ASSUME NEW d, Formed(d), NEW p, p.type \in R2aTypes,
         p.type = "CONNECT_RESPONSE" => Waits(d, p.id),
         NEW e, e = HandleR2aPacket(d, p)
  PROVE  \/ Says(d, e)
         \/ p.type = "CONNECT_RESPONSE" /\ AnswerTaken(d, e, p.id)
<1> DEFINE k == CHOOSE k \in KeysOfStream(d, p.id) : TRUE
           s == d.sockets[k]
           a == [d EXCEPT !.hist[s.conv].told_app = @ \/ "CLOSED" \notin s.flags]
<1>1. e = IF KeysOfStream(d, p.id) = {} THEN d
          ELSE IF p.type = "RESET" THEN CloseSocket(a, k, FALSE)
          ELSE IF "CLOSED" \in s.flags THEN d
          ELSE CASE p.type = "CONNECT_RESPONSE" -> R2aConnectResponse(d, k, p)
                 [] p.type = "DATA"             -> R2aData(d, k, p)
                 [] p.type = "EOS"              -> R2aEos(d, k)
  BY DEF HandleR2aPacket
<1>2. KeysOfStream(d, p.id) # {} => k \in DOMAIN d.sockets /\ s.stream_id = p.id
  BY DEF KeysOfStream
<1>3. /\ DOMAIN a = DriverFields /\ a.serious_error = d.serious_error
      /\ a.sockets = d.sockets /\ a.a2r = d.a2r
  BY DEF Formed, DriverFields
<1> HIDE DEF a, k
<1>4. Quiet(d, a)
  BY <1>3, OneEvolves DEF Quiet
<1>5. Formed(a)
  BY <1>4, QuietThen
<1>6. Says(d, d)
  BY OneEvolves DEF Formed, Says
<1>7. CASE e = d
  BY <1>6, <1>7
<1>8. CASE KeysOfStream(d, p.id) # {} /\ e = CloseSocket(a, k, FALSE)
  <2>1. Quiet(a, e)
    BY <1>2, <1>3, <1>5, <1>8, CloseQuiet
  <2> QED
    BY <1>4, <2>1, QuietThen
<1>9. CASE /\ KeysOfStream(d, p.id) # {} /\ "CLOSED" \notin s.flags
           /\ p.type = "CONNECT_RESPONSE" /\ e = R2aConnectResponse(d, k, p)
  BY <1>2, <1>9, ResponseAnswers
<1>10. CASE KeysOfStream(d, p.id) # {} /\ e = R2aData(d, k, p)
  BY <1>2, <1>10, R2aDataSays
<1>11. CASE KeysOfStream(d, p.id) # {} /\ e = R2aEos(d, k)
  BY <1>2, <1>11, R2aEosSays
<1> QED
  BY <1>1, <1>7, <1>8, <1>9, <1>10, <1>11 DEF R2aTypes

\* Who waits goes on waiting.
LEMMA WaitsOn ==
  ASSUME NEW d, NEW e, NEW id, Waits(d, id)
  PROVE  /\ Says(d, e) => Waits(e, id)
         /\ \A W : Asks(d, e, W) => Waits(e, id)
         /\ \A x : AnswerTaken(d, e, x) /\ x # id => Waits(e, id)
<1>1. ASSUME NEW k \in DOMAIN e.sockets, k \in DOMAIN d.sockets,
             StillWaits(d.sockets[k], e.sockets[k])
      PROVE  e.sockets[k].stream_id = id /\ "CLOSED" \notin e.sockets[k].flags =>
               e.sockets[k].pending_connect # NoRequest
  BY <1>1 DEF Waits, StillWaits
<1>2. Says(d, e) => Waits(e, id)
  BY <1>1 DEF Says, Evolves, Waits
<1>3. \A W : Asks(d, e, W) => Waits(e, id)
  BY <1>1 DEF Asks, Waits
<1>4. \A x : AnswerTaken(d, e, x) /\ x # id => Waits(e, id)
  BY <1>1 DEF AnswerTaken, Waits
<1> QED
  BY <1>2, <1>3, <1>4
=============================================================================
