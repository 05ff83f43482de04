--------------------------- MODULE A314MemoryProofs ---------------------------
(***************************************************************************)
(* The Amiga's memory list, for every layout of memory: splitting a region *)
(* neither loses memory nor gives it out twice, and after it MEMF_A314 is  *)
(* on exactly the memory the Raspberry Pi shares.                          *)
(*                                                                         *)
(* The argument has three layers: what an operation does to the chunks of  *)
(* one region, what it does to the list of regions, and what follows for   *)
(* the memory as a whole, where every address is held once.                *)
(***************************************************************************)
EXTENDS A314Memory, FoldLemmas

-----------------------------------------------------------------------------
(* Lists of chunks.                                                        *)

Chunk == [start : Nat, bytes : Nat \ {0}]

End(c) == c.start + c.bytes

\* In address order, with room between them, between lo and hi.
ChunkList(lo, hi) ==
  {s \in Seq(Chunk) :
     /\ \A i \in 1 .. Len(s) : lo <= s[i].start /\ End(s[i]) <= hi
     /\ \A i, j \in 1 .. Len(s) : i < j => End(s[i]) < s[j].start}

\* Address a is free in the list.
FreeIn(s, a) == \E i \in 1 .. Len(s) : a \in Of(s[i])

\* f holds what the first 0, 1, ... chunks add up to.
Sums(s, f) ==
  /\ f \in [0 .. Len(s) -> Nat] /\ f[0] = 0
  /\ \A i \in 1 .. Len(s) : f[i] = f[i - 1] + s[i].bytes

LEMMA ChunkFacts ==
  ASSUME NEW s \in Seq(Chunk)
  PROVE  /\ Len(s) \in Nat /\ DOMAIN s = 1 .. Len(s)
         /\ \A i \in 1 .. Len(s) : /\ s[i] \in Chunk /\ s[i].start \in Nat
                                   /\ s[i].bytes \in Nat \ {0} /\ End(s[i]) \in Nat
                                   /\ s[i] = [start |-> s[i].start, bytes |-> s[i].bytes]
<1>1. Len(s) \in Nat /\ DOMAIN s = 1 .. Len(s)
  BY LenProperties
<1>2. \A i \in 1 .. Len(s) : s[i] \in Chunk
  BY ElementOfSeq
<1> QED
  BY <1>1, <1>2 DEF Chunk, End

LEMMA ChunkEnds ==
  ASSUME NEW c \in Chunk
  PROVE  /\ c.start \in Nat /\ End(c) \in Nat /\ c.start < End(c)
         /\ c.bytes \in Nat \ {0} /\ End(c) = c.start + c.bytes
         /\ c = [start |-> c.start, bytes |-> c.bytes]
         /\ Of(c) = c.start .. End(c) - 1
BY DEF Chunk, End, Of, Span

LEMMA BytesIsSum ==
  ASSUME NEW s \in Seq(Chunk)
  PROVE  \E f : Sums(s, f) /\ Bytes(s) = f[Len(s)]
<1> DEFINE n == Len(s)
           R(h) == h = [t \in SUBSET DOMAIN s |->
                          IF t = {} THEN 0 ELSE h[t \ {Max(t)}] + s[Max(t)].bytes]
           F == CHOOSE h : R(h)
           step == [i \in 1 .. n |-> [x \in Nat |-> x + s[i].bytes]]
           f == [i \in 0 .. n |-> F[1 .. i]]
<1>1. n \in Nat /\ DOMAIN s = 1 .. n /\ \A i \in 1 .. n : s[i].bytes \in Nat
  BY ChunkFacts
<1>2. Bytes(s) = F[1 .. n]
  BY <1>1 DEF Bytes, FoldLeft, MapThenFoldSet
<1>3. step \in [1 .. n -> [Nat -> Nat]]
  BY <1>1
<1>4. \A i \in 1 .. n, x \in Nat : step[i][x] = x + s[i].bytes
  OBVIOUS
<1> HIDE DEF step
<1>5. PICK h : Folded(n, Nat, 0, step, h)
  <2>1. 0 \in Nat
    OBVIOUS
  <2> QED
    BY <1>1, <1>3, <2>1, FoldExists
<1>6. R(h)
  <2>1. ASSUME NEW t \in SUBSET (1 .. n), t # {}
        PROVE  step[Max(t)][h[t \ {Max(t)}]] = h[t \ {Max(t)}] + s[Max(t)].bytes
    <3>1. Max(t) \in 1 .. n
      BY <1>1, <2>1, MaxOfSet
    <3>2. h[t \ {Max(t)}] \in Nat
      BY <1>5 DEF Folded
    <3> QED
      BY <1>4, <3>1, <3>2
  <2>2. DOMAIN h = SUBSET (1 .. n) /\ h = [t \in SUBSET (1 .. n) |-> h[t]]
    BY <1>5 DEF Folded
  <2>3. \A t \in SUBSET (1 .. n) :
          h[t] = IF t = {} THEN 0 ELSE h[t \ {Max(t)}] + s[Max(t)].bytes
    BY <1>5, <2>1 DEF Folded
  <2> QED
    BY <1>1, <2>2, <2>3
<1>7. R(F)
  <2> HIDE DEF R
  <2> QED
    BY <1>6, Zenon
<1> HIDE DEF F
<1>8. f[0] = 0
  <2>1. 1 .. 0 = {} /\ {} \in SUBSET DOMAIN s
    OBVIOUS
  <2> QED
    BY <1>1, <1>7, <2>1
<1>9. ASSUME NEW i \in 1 .. n PROVE f[i] = f[i - 1] + s[i].bytes
  <2>1. Max(1 .. i) = i /\ (1 .. i) \ {i} = 1 .. i - 1
    BY MaxOfInterval
  <2>2. 1 .. i \in SUBSET DOMAIN s /\ 1 .. i # {}
    BY <1>1
  <2>3. F[1 .. i] = F[1 .. i - 1] + s[i].bytes
    BY <1>7, <2>1, <2>2
  <2> QED
    BY <1>1, <2>3
<1>10. \A i \in 0 .. n : f[i] \in Nat
  <2>1. f[0] \in Nat
    BY <1>8
  <2> HIDE DEF f
  <2>2. ASSUME NEW i \in 1 .. n, f[i - 1] \in Nat PROVE f[i] \in Nat
    <3>1. f[i] = f[i - 1] + s[i].bytes /\ s[i].bytes \in Nat
      BY <1>1, <1>9
    <3> QED
      BY <2>2, <3>1
  <2> QED
    BY <1>1, <2>1, <2>2, FoldAlong
<1>11. f \in [0 .. n -> Nat] /\ f[n] = Bytes(s)
  BY <1>1, <1>2, <1>10
<1> HIDE DEF f
<1>12. Sums(s, f)
  BY <1>8, <1>9, <1>11 DEF Sums
<1> QED
  BY <1>11, <1>12

\* There is only one way to add up.
LEMMA SumsUnique ==
  ASSUME NEW s \in Seq(Chunk), NEW f, Sums(s, f)
  PROVE  Bytes(s) = f[Len(s)] /\ Bytes(s) \in Nat
<1>1. PICK g : Sums(s, g) /\ Bytes(s) = g[Len(s)]
  BY BytesIsSum
<1> DEFINE S == {i \in Nat : i <= Len(s) => f[i] = g[i]}
<1>2. Len(s) \in Nat
  BY ChunkFacts
<1>3. 0 \in S
  BY <1>1 DEF Sums
<1>4. ASSUME NEW i \in Nat, i \in S PROVE i + 1 \in S
  <2>1. CASE i + 1 <= Len(s)
    <3>1. i + 1 \in 1 .. Len(s) /\ (i + 1) - 1 = i /\ f[i] = g[i]
      BY <1>2, <1>4, <2>1
    <3>2. f[i + 1] = f[(i + 1) - 1] + s[i + 1].bytes
      BY <3>1 DEF Sums
    <3>3. g[i + 1] = g[(i + 1) - 1] + s[i + 1].bytes
      BY <1>1, <3>1 DEF Sums
    <3> QED
      BY <3>1, <3>2, <3>3
  <2>2. CASE ~(i + 1 <= Len(s))
    BY <2>2
  <2> QED
    BY <2>1, <2>2
<1> HIDE DEF S
<1>5. \A i \in Nat : i \in S
  BY <1>3, <1>4, SetInduction
<1> QED
  BY <1>1, <1>2, <1>5 DEF S, Sums

LEMMA BytesOfNone == Bytes(<<>>) = 0
<1> DEFINE f == [i \in 0 .. 0 |-> 0]
<1>1. <<>> \in Seq(Chunk) /\ Len(<<>>) = 0
  BY EmptySeq
<1>2. Sums(<<>>, f)
  BY <1>1 DEF Sums
<1>3. f[0] = 0
  OBVIOUS
<1> HIDE DEF f
<1> QED
  BY <1>1, <1>2, <1>3, SumsUnique

LEMMA BytesOfOne ==
  ASSUME NEW c \in Chunk
  PROVE  << c >> \in Seq(Chunk) /\ Bytes(<< c >>) = c.bytes
<1> DEFINE s == << c >>
           f == [i \in 0 .. 1 |-> IF i = 0 THEN 0 ELSE c.bytes]
<1>1. s \in Seq(Chunk) /\ Len(s) = 1 /\ s[1] = c
  OBVIOUS
<1>2. c.bytes \in Nat
  BY DEF Chunk
<1> HIDE DEF s
<1>3. Sums(s, f) /\ f[1] = c.bytes
  BY <1>1, <1>2 DEF Sums
<1> HIDE DEF f
<1>4. Bytes(s) = c.bytes
  BY <1>1, <1>3, SumsUnique
<1> QED
  BY <1>1, <1>4 DEF s

LEMMA BytesOfJoin ==
  ASSUME NEW s \in Seq(Chunk), NEW t \in Seq(Chunk)
  PROVE  /\ s \o t \in Seq(Chunk) /\ Bytes(s \o t) = Bytes(s) + Bytes(t)
         /\ Bytes(s) \in Nat /\ Bytes(t) \in Nat
<1>1. PICK f : Sums(s, f)
  BY BytesIsSum
<1>2. PICK g : Sums(t, g)
  BY BytesIsSum
<1> DEFINE x == Len(s)
           y == Len(t)
           u == s \o t
           h == [i \in 0 .. x + y |-> IF i <= x THEN f[i] ELSE f[x] + g[i - x]]
<1>3. /\ x \in Nat /\ y \in Nat /\ u \in Seq(Chunk) /\ Len(u) = x + y
      /\ \A i \in 1 .. x : u[i] = s[i]
      /\ \A i \in x + 1 .. x + y : u[i] = t[i - x]
  BY LenProperties, ConcatProperties
<1>4. /\ f[0] = 0 /\ \A i \in 0 .. x : f[i] \in Nat
      /\ \A i \in 1 .. x : f[i] = f[i - 1] + s[i].bytes
  BY <1>1 DEF Sums
<1>5. /\ g[0] = 0 /\ \A i \in 0 .. y : g[i] \in Nat
      /\ \A i \in 1 .. y : g[i] = g[i - 1] + t[i].bytes
  BY <1>2 DEF Sums
<1>6. /\ Bytes(s) = f[x] /\ Bytes(t) = g[y] /\ Bytes(s) \in Nat /\ Bytes(t) \in Nat
  BY <1>1, <1>2, SumsUnique
<1> HIDE DEF u, x, y
<1>7. f[x] \in Nat
  BY <1>3, <1>4
<1>8. h \in [0 .. x + y -> Nat] /\ h[0] = 0
  <2>1. ASSUME NEW i \in 0 .. x + y PROVE h[i] \in Nat
    <3>1. CASE i <= x
      BY <1>3, <1>4, <3>1
    <3>2. CASE ~(i <= x)
      <4>1. i - x \in 0 .. y
        BY <1>3, <3>2
      <4> QED
        BY <1>5, <1>7, <3>2, <4>1
    <3> QED
      BY <3>1, <3>2
  <2> QED
    BY <1>3, <1>4, <2>1
<1>9. ASSUME NEW i \in 1 .. x + y PROVE h[i] = h[i - 1] + u[i].bytes
  <2>1. CASE i <= x
    <3>1. i \in 1 .. x /\ i - 1 <= x /\ i - 1 \in 0 .. x + y /\ i \in 0 .. x + y
      BY <1>3, <2>1
    <3>2. h[i] = f[i] /\ h[i - 1] = f[i - 1]
      BY <2>1, <3>1
    <3>3. f[i] = f[i - 1] + s[i].bytes /\ u[i] = s[i]
      BY <1>3, <1>4, <3>1
    <3> HIDE DEF h
    <3> QED
      BY <3>2, <3>3
  <2>2. CASE i = x + 1
    <3>1. 1 \in 1 .. y /\ i - x = 1 /\ i - 1 = x /\ ~(i <= x) /\ i - 1 <= x
      BY <1>3, <2>2
    <3>3. u[i] = t[1]
      <4>1. i \in x + 1 .. x + y
        BY <1>3, <2>2
      <4>2. u[i] = t[i - x]
        BY <1>3, <4>1
      <4> QED
        BY <3>1, <4>2
    <3>4. h[i] = f[x] + g[1]
      BY <1>3, <3>1
    <3>5. h[i - 1] = f[x]
      BY <1>3, <3>1
    <3>2. g[1] = t[1].bytes
      <4>1. g[1] = g[0] + t[1].bytes /\ g[1] \in Nat
        BY <1>5, <3>1
      <4>2. t[1].bytes \in Nat
        BY <3>1, ChunkFacts DEF y
      <4> QED
        BY <1>5, <4>1, <4>2
    <3> HIDE DEF h
    <3> QED
      BY <3>2, <3>3, <3>4, <3>5
  <2>3. CASE i > x + 1
    <3>1. i - x \in 1 .. y /\ (i - x) - 1 = (i - 1) - x /\ ~(i <= x) /\ ~(i - 1 <= x)
      BY <1>3, <2>3
    <3>2. g[i - x] = g[(i - x) - 1] + t[i - x].bytes /\ t[i - x].bytes \in Nat
      BY <1>5, <3>1, ChunkFacts DEF y
    <3>3. g[(i - 1) - x] \in Nat
      <4>1. (i - 1) - x \in 0 .. y
        BY <1>3, <2>3
      <4> QED
        BY <1>5, <4>1
    <3>4. u[i] = t[i - x]
      BY <1>3, <2>3
    <3>5. h[i] = f[x] + g[i - x] /\ h[i - 1] = f[x] + g[(i - 1) - x]
      BY <1>3, <3>1
    <3> QED
      BY <1>7, <3>1, <3>2, <3>3, <3>4, <3>5
  <2> QED
    BY <1>3, <2>1, <2>2, <2>3
<1>10. Sums(u, h)
  BY <1>3, <1>8, <1>9 DEF Sums
<1>11. h[x + y] = f[x] + g[y]
  <2>1. CASE y = 0
    BY <1>3, <1>5, <1>7, <2>1
  <2>2. CASE y # 0
    BY <1>3, <2>2
  <2> QED
    BY <2>1, <2>2
<1> HIDE DEF h
<1>12. Bytes(u) = f[x] + g[y]
  BY <1>3, <1>10, <1>11, SumsUnique
<1> QED
  BY <1>3, <1>6, <1>12 DEF u

\* r is s with mid in place of the chunks between x and y.
Replaced(s, mid, x, y, lo, hi, r) ==
  /\ r \in ChunkList(lo, hi)
  /\ \A a : FreeIn(r, a) <=> \/ \E i \in 1 .. x : a \in Of(s[i])
                            \/ FreeIn(mid, a)
                            \/ \E i \in y .. Len(s) : a \in Of(s[i])

LEMMA ChunkSplice ==
  ASSUME NEW lo \in Nat, NEW hi \in Nat, NEW s \in ChunkList(lo, hi),
         NEW mid \in ChunkList(lo, hi),
         NEW x \in 0 .. Len(s), NEW y \in x + 1 .. Len(s) + 1,
         \A i \in 1 .. x, j \in 1 .. Len(mid) : End(s[i]) < mid[j].start,
         \A i \in y .. Len(s), j \in 1 .. Len(mid) : End(mid[j]) < s[i].start,
         NEW r, r = SubSeq(s, 1, x) \o mid \o SubSeq(s, y, Len(s))
  PROVE  Replaced(s, mid, x, y, lo, hi, r)
<1> DEFINE z == Len(s)
           k == Len(mid)
           m == x + k
           n == m + (z - y + 1)
           w == y - 1
<1>1. /\ s \in Seq(Chunk) /\ mid \in Seq(Chunk) /\ z \in Nat /\ k \in Nat
      /\ \A i \in 1 .. z : lo <= s[i].start /\ End(s[i]) <= hi
      /\ \A i, j \in 1 .. z : i < j => End(s[i]) < s[j].start
      /\ \A i \in 1 .. k : lo <= mid[i].start /\ End(mid[i]) <= hi
      /\ \A i, j \in 1 .. k : i < j => End(mid[i]) < mid[j].start
  BY ChunkFacts DEF ChunkList
<1>2. /\ \A i \in 1 .. z : s[i].start \in Nat /\ End(s[i]) \in Nat /\ s[i].start < End(s[i])
      /\ \A i \in 1 .. k : mid[i].start \in Nat /\ End(mid[i]) \in Nat /\ mid[i].start < End(mid[i])
  <2>1. \A i \in 1 .. z : s[i] \in Chunk
    BY <1>1, ChunkFacts
  <2>2. \A i \in 1 .. k : mid[i] \in Chunk
    BY <1>1, ChunkFacts
  <2> QED
    BY <2>1, <2>2, ChunkEnds
<1>3. /\ x \in Nat /\ y \in Nat /\ w \in Nat /\ m \in Nat /\ n \in Nat
      /\ x <= z /\ x <= w /\ w <= z /\ y = w + 1 /\ y \in 1 .. z + 1
  <2>1. z \in Nat /\ k \in Nat /\ x \in 0 .. z /\ y \in x + 1 .. z + 1
    BY ONLY <1>1, x \in 0 .. Len(s), y \in x + 1 .. Len(s) + 1
  <2> HIDE DEF z, k
  <2>2. x \in Nat /\ y \in Nat /\ x <= z /\ x + 1 <= y /\ y <= z + 1
    BY ONLY <2>1
  <2> QED
    BY ONLY <2>1, <2>2
<1>4. /\ r \in Seq(Chunk) /\ Len(r) = n
      /\ \A i \in 1 .. x : r[i] = s[i]
      /\ \A i \in x + 1 .. m : r[i] = mid[i - x]
      /\ \A i \in m + 1 .. n : r[i] = s[(i - m) + w]
  <2>1. /\ r \in Seq(Chunk) /\ Len(r) = m + (z - y + 1)
        /\ \A i \in 1 .. x : r[i] = s[i]
        /\ \A i \in x + 1 .. m : r[i] = mid[i - x]
        /\ \A i \in m + 1 .. m + (z - y + 1) : r[i] = s[(i - m) + (y - 1)]
    <3>1. r = SubSeq(s, 1, x) \o mid \o SubSeq(s, y, Len(s)) /\ m = x + Len(mid)
      OBVIOUS
    <3>2. s \in Seq(Chunk) /\ mid \in Seq(Chunk) /\ x \in 0 .. Len(s) /\ y \in 1 .. Len(s) + 1
      BY <1>1, <1>3
    <3> HIDE DEF m
    <3>3. Spliced(Chunk, s, mid, x, y, r, m)
      BY ONLY <3>1, <3>2, SpliceElements
    <3> QED
      BY <3>3 DEF Spliced
  <2> QED
    BY <2>1
<1>5. /\ \A i \in x + 1 .. m : i - x \in 1 .. k
      /\ \A i \in m + 1 .. n : (i - m) + w \in y .. z
      /\ \A i \in 1 .. x : i \in 1 .. z
      /\ \A i \in y .. z : i \in 1 .. z /\ (i - w) + m \in m + 1 .. n
                            /\ (((i - w) + m) - m) + w = i
      /\ \A i \in 1 .. k : i + x \in x + 1 .. m /\ (i + x) - x = i
      /\ \A i \in 1 .. n : i \in 1 .. x \/ i \in x + 1 .. m \/ i \in m + 1 .. n
      /\ \A i \in 1 .. x : i \in 1 .. n
      /\ \A i \in x + 1 .. m : i \in 1 .. n
      /\ \A i \in m + 1 .. n : i \in 1 .. n
  BY <1>1, <1>3
<1> HIDE DEF z, k, m, n, w
<1>6. ASSUME NEW i \in 1 .. n PROVE lo <= r[i].start /\ End(r[i]) <= hi
  <2>1. CASE i \in 1 .. x
    BY <1>1, <1>4, <1>5, <2>1
  <2>2. CASE i \in x + 1 .. m
    BY <1>1, <1>4, <1>5, <2>2
  <2>3. CASE i \in m + 1 .. n
    <3>1. (i - m) + w \in 1 .. z
      BY <1>5, <2>3
    <3> QED
      BY <1>1, <1>4, <2>3, <3>1
  <2> QED
    BY <1>5, <2>1, <2>2, <2>3
<1>7. ASSUME NEW i \in 1 .. n, NEW j \in 1 .. n, i < j PROVE End(r[i]) < r[j].start
  <2>1. CASE i \in 1 .. x /\ j \in 1 .. x
    BY <1>1, <1>4, <1>5, <1>7, <2>1
  <2>2. CASE i \in 1 .. x /\ j \in x + 1 .. m
    BY <1>4, <1>5, <2>2 DEF k
  <2>3. CASE i \in 1 .. x /\ j \in m + 1 .. n
    <3>1. (j - m) + w \in y .. z /\ (j - m) + w \in 1 .. z /\ i \in 1 .. z
      BY <1>5, <2>3
    <3>2. i < (j - m) + w
      BY <1>1, <1>3, <2>3, <3>1
    <3> QED
      BY <1>1, <1>4, <2>3, <3>1, <3>2
  <2>4. CASE i \in x + 1 .. m /\ j \in x + 1 .. m
    <3>1. i - x \in 1 .. k /\ j - x \in 1 .. k /\ i - x < j - x
      <4>1. i \in Nat /\ j \in Nat
        BY <1>3, <2>4
      <4>2. i - x \in 1 .. k /\ j - x \in 1 .. k
        BY <1>5, <2>4
      <4> QED
        BY <1>3, <1>7, <4>1, <4>2
    <3> QED
      BY <1>1, <1>4, <2>4, <3>1
  <2>5. CASE i \in x + 1 .. m /\ j \in m + 1 .. n
    <3>1. i - x \in 1 .. k /\ (j - m) + w \in y .. z
      BY <1>5, <2>5
    <3> QED
      BY <1>4, <2>5, <3>1 DEF k, z
  <2>6. CASE i \in m + 1 .. n /\ j \in m + 1 .. n
    <3>1. (i - m) + w \in 1 .. z /\ (j - m) + w \in 1 .. z /\ (i - m) + w < (j - m) + w
      <4>1. i \in Nat /\ j \in Nat
        BY <1>3, <2>6
      <4>2. (i - m) + w \in 1 .. z /\ (j - m) + w \in 1 .. z
        BY <1>5, <2>6
      <4> QED
        BY <1>3, <1>7, <4>1, <4>2
    <3> QED
      BY <1>1, <1>4, <2>6, <3>1
  <2>7. ~(j \in 1 .. x /\ i \notin 1 .. x) /\ ~(i \in m + 1 .. n /\ j \notin m + 1 .. n)
    <3>1. i \in Nat /\ j \in Nat
      BY <1>3
    <3> QED
      BY <1>3, <1>7, <3>1
  <2> QED
    BY <1>5, <2>1, <2>2, <2>3, <2>4, <2>5, <2>6, <2>7
<1>8. r \in ChunkList(lo, hi)
  BY <1>4, <1>6, <1>7 DEF ChunkList
<1>9. ASSUME NEW a
      PROVE  FreeIn(r, a) <=> \/ \E i \in 1 .. x : a \in Of(s[i])
                              \/ FreeIn(mid, a)
                              \/ \E i \in y .. z : a \in Of(s[i])
  <2>1. ASSUME NEW i \in 1 .. n, a \in Of(r[i])
        PROVE  \/ \E j \in 1 .. x : a \in Of(s[j])
               \/ \E j \in 1 .. k : a \in Of(mid[j])
               \/ \E j \in y .. z : a \in Of(s[j])
    <3>1. CASE i \in 1 .. x
      BY <1>4, <2>1, <3>1
    <3>2. CASE i \in x + 1 .. m
      BY <1>4, <1>5, <2>1, <3>2
    <3>3. CASE i \in m + 1 .. n
      BY <1>4, <1>5, <2>1, <3>3
    <3> QED
      BY <1>5, <3>1, <3>2, <3>3
  <2>2. ASSUME NEW j \in 1 .. x, a \in Of(s[j]) PROVE \E i \in 1 .. n : a \in Of(r[i])
    BY <1>4, <1>5, <2>2
  <2>3. ASSUME NEW j \in 1 .. k, a \in Of(mid[j]) PROVE \E i \in 1 .. n : a \in Of(r[i])
    <3>1. j + x \in 1 .. n /\ r[j + x] = mid[j]
      BY <1>4, <1>5
    <3> QED
      BY <2>3, <3>1
  <2>4. ASSUME NEW j \in y .. z, a \in Of(s[j]) PROVE \E i \in 1 .. n : a \in Of(r[i])
    <3>1. (j - w) + m \in 1 .. n /\ r[(j - w) + m] = s[j]
      BY <1>4, <1>5
    <3> QED
      BY <2>4, <3>1
  <2> QED
    BY <1>4, <2>1, <2>2, <2>3, <2>4 DEF FreeIn, k
<1> QED
  BY <1>8, <1>9 DEF z, Replaced

\* c is what was replaced.
BytesMoved(s, mid, r, c) ==
  /\ c \in Seq(Chunk) /\ Bytes(r) + Bytes(c) = Bytes(s) + Bytes(mid)
  /\ Bytes(r) \in Nat /\ Bytes(s) \in Nat /\ Bytes(mid) \in Nat /\ Bytes(c) \in Nat

LEMMA SpliceBytes ==
  ASSUME NEW s \in Seq(Chunk), NEW mid \in Seq(Chunk),
         NEW x \in 0 .. Len(s), NEW y \in x + 1 .. Len(s) + 1,
         NEW r, r = SubSeq(s, 1, x) \o mid \o SubSeq(s, y, Len(s))
  PROVE  BytesMoved(s, mid, r, SubSeq(s, x + 1, y - 1))
<1> DEFINE z == Len(s)
           a == SubSeq(s, 1, x)
           b == SubSeq(s, y, z)
           c == SubSeq(s, x + 1, y - 1)
<1>1. z \in Nat /\ x \in Nat /\ y \in Nat /\ y \in 1 .. z + 1
  BY ChunkFacts
<1>2. \A i \in 1 .. z : s[i] \in Chunk
  BY ChunkFacts
<1>3. a \in Seq(Chunk) /\ b \in Seq(Chunk)
  BY <1>1, SpliceElements DEF Spliced
<1>4. c \in Seq(Chunk)
  <2>1. \A i \in x + 1 .. y - 1 : s[i] \in Chunk
    BY <1>1, <1>2
  <2> QED
    BY <1>1, <2>1, SubSeqProperties
<1>5. a \o c = SubSeq(s, 1, y - 1)
  <2>1. x + 1 - 1 = x /\ 1 \in 1 .. z + 1 /\ x \in 1 - 1 .. z /\ y - 1 \in x .. z
    BY <1>1
  <2> QED
    BY <2>1, ConcatAdjacentSubSeq
<1>6. SubSeq(s, 1, y - 1) \o b = s
  <2>1. 1 \in 1 .. z + 1 /\ y - 1 \in 1 - 1 .. z /\ z \in y - 1 .. z /\ (y - 1) + 1 = y
    BY <1>1
  <2>2. SubSeq(s, 1, y - 1) \o SubSeq(s, (y - 1) + 1, z) = SubSeq(s, 1, z)
    BY <2>1, ConcatAdjacentSubSeq
  <2> QED
    BY <2>1, <2>2, SubSeqFull
<1> HIDE DEF a, b, c
<1>7. s = (a \o c) \o b /\ r = (a \o mid) \o b
  BY <1>5, <1>6 DEF a, b, z
<1>8. /\ a \o c \in Seq(Chunk) /\ Bytes(a \o c) = Bytes(a) + Bytes(c)
      /\ a \o mid \in Seq(Chunk) /\ Bytes(a \o mid) = Bytes(a) + Bytes(mid)
      /\ Bytes(a) \in Nat /\ Bytes(c) \in Nat /\ Bytes(mid) \in Nat
  BY <1>3, <1>4, BytesOfJoin
<1>9. /\ Bytes(s) = Bytes(a \o c) + Bytes(b) /\ Bytes(r) = Bytes(a \o mid) + Bytes(b)
      /\ Bytes(b) \in Nat
  <2>1. /\ Bytes((a \o c) \o b) = Bytes(a \o c) + Bytes(b) /\ Bytes(b) \in Nat
        /\ Bytes((a \o mid) \o b) = Bytes(a \o mid) + Bytes(b)
    BY <1>3, <1>8, BytesOfJoin
  <2> QED
    BY <1>7, <2>1
<1>10. /\ c \in Seq(Chunk) /\ Bytes(r) + Bytes(c) = Bytes(s) + Bytes(mid)
       /\ Bytes(r) \in Nat /\ Bytes(s) \in Nat /\ Bytes(mid) \in Nat /\ Bytes(c) \in Nat
  BY SMTT(30), <1>4, <1>8, <1>9
<1> QED
  BY <1>10 DEF c, BytesMoved

LEMMA ListOfNone ==
  ASSUME NEW lo \in Nat, NEW hi \in Nat
  PROVE  << >> \in ChunkList(lo, hi) /\ \A a : ~FreeIn(<< >>, a)
<1>1. << >> \in Seq(Chunk) /\ Len(<< >>) = 0
  BY EmptySeq
<1> QED
  BY <1>1 DEF ChunkList, FreeIn

LEMMA ListOfOne ==
  ASSUME NEW lo \in Nat, NEW hi \in Nat, NEW c \in Chunk, lo <= c.start, End(c) <= hi,
         NEW s, s = << c >>
  PROVE  s \in ChunkList(lo, hi) /\ \A a : FreeIn(s, a) <=> a \in Of(c)
<1>1. s \in Seq(Chunk) /\ Len(s) = 1 /\ s[1] = c
  OBVIOUS
<1>2. \A i \in 1 .. Len(s) : i = 1
  BY <1>1
<1>3. 1 \in 1 .. Len(s)
  BY <1>1
<1> QED
  BY <1>1, <1>2, <1>3 DEF ChunkList, FreeIn

\* The chunks of a list are in order and share no address.
LEMMA ListFacts ==
  ASSUME NEW lo \in Nat, NEW hi \in Nat, NEW s \in ChunkList(lo, hi)
  PROVE  /\ s \in Seq(Chunk) /\ Len(s) \in Nat /\ DOMAIN s = 1 .. Len(s)
         /\ \A i \in 1 .. Len(s) :
              /\ s[i] \in Chunk /\ s[i].start \in Nat /\ End(s[i]) \in Nat
              /\ s[i].start < End(s[i]) /\ s[i].bytes \in Nat \ {0}
              /\ End(s[i]) = s[i].start + s[i].bytes
              /\ lo <= s[i].start /\ End(s[i]) <= hi
              /\ Of(s[i]) = s[i].start .. End(s[i]) - 1
         /\ \A i, j \in 1 .. Len(s) : i < j => End(s[i]) < s[j].start
<1>1. /\ s \in Seq(Chunk)
      /\ \A i \in 1 .. Len(s) : lo <= s[i].start /\ End(s[i]) <= hi
      /\ \A i, j \in 1 .. Len(s) : i < j => End(s[i]) < s[j].start
  BY DEF ChunkList
<1>2. Len(s) \in Nat /\ DOMAIN s = 1 .. Len(s)
  BY <1>1, ChunkFacts
<1>3. \A i \in 1 .. Len(s) : s[i] \in Chunk
  BY <1>1, ChunkFacts
<1> QED
  BY <1>1, <1>2, <1>3, ChunkEnds

LEMMA ChunksApart ==
  ASSUME NEW lo \in Nat, NEW hi \in Nat, NEW s \in ChunkList(lo, hi),
         NEW i \in 1 .. Len(s), NEW j \in 1 .. Len(s), i # j, NEW a, a \in Of(s[i])
  PROVE  a \notin Of(s[j])
<1>1. /\ Of(s[i]) = s[i].start .. End(s[i]) - 1 /\ Of(s[j]) = s[j].start .. End(s[j]) - 1
      /\ s[i].start \in Nat /\ s[j].start \in Nat /\ End(s[i]) \in Nat /\ End(s[j]) \in Nat
  BY ListFacts
<1>2. i < j \/ j < i
  OBVIOUS
<1>3. End(s[i]) < s[j].start \/ End(s[j]) < s[i].start
  BY <1>2, ListFacts
<1> QED
  BY <1>1, <1>3

\* What AllocMem does to the chunks: size addresses from "at" on were free and
\* are no longer.
Taken(s, r, lo, hi, at, size) ==
  /\ r \in ChunkList(lo, hi)
  /\ Bytes(s) \in Nat /\ Bytes(r) \in Nat /\ Bytes(r) = Bytes(s) - size
  /\ at \in Nat /\ lo <= at /\ at + size <= hi
  /\ \A a \in Span(at, at + size) : FreeIn(s, a)
  /\ \A a : FreeIn(r, a) <=> FreeIn(s, a) /\ a \notin Span(at, at + size)

LEMMA ChunkTaken ==
  ASSUME NEW lo \in Nat, NEW hi \in Nat, NEW s \in ChunkList(lo, hi),
         NEW size \in Nat \ {0}, NEW i \in 1 .. Len(s), s[i].bytes >= size,
         NEW rest, rest = IF s[i].bytes = size THEN << >>
                          ELSE <<[start |-> s[i].start + size, bytes |-> s[i].bytes - size]>>,
         NEW r, r = SubSeq(s, 1, i - 1) \o rest \o SubSeq(s, i + 1, Len(s))
  PROVE  Taken(s, r, lo, hi, s[i].start, size)
<1>0. /\ s[i] \in Chunk /\ s[i].start \in Nat /\ s[i].bytes \in Nat \ {0}
      /\ End(s[i]) = s[i].start + s[i].bytes /\ lo <= s[i].start /\ End(s[i]) <= hi
      /\ Of(s[i]) = s[i].start .. End(s[i]) - 1 /\ End(s[i]) \in Nat
      /\ s \in Seq(Chunk)
  BY ONLY s \in ChunkList(lo, hi), lo \in Nat, hi \in Nat, i \in 1 .. Len(s), ListFacts
<1> DEFINE c == s[i]
           d == [start |-> c.start + size, bytes |-> c.bytes - size]
           at == c.start
<1>1. /\ c \in Chunk /\ c.start \in Nat /\ c.bytes \in Nat \ {0}
      /\ End(c) = c.start + c.bytes /\ lo <= c.start /\ End(c) <= hi
      /\ Of(c) = c.start .. End(c) - 1 /\ End(c) \in Nat
      /\ s \in Seq(Chunk)
  BY ONLY <1>0
<1> DEFINE n == Len(s)
<1>n. n \in Nat /\ i \in Nat /\ i >= 1 /\ i <= n /\ i \in 1 .. n
  BY ListFacts
<1>s. size \in Nat /\ size >= 1 /\ size <= c.bytes
  BY <1>1
<1> HIDE DEF n
<1>c. c.start \in Nat /\ c.bytes \in Nat \ {0} /\ at \in Nat /\ at = c.start /\ c \in Chunk
  BY <1>1
<1>e. /\ End(c) = at + c.bytes /\ End(c) \in Nat /\ at + size <= End(c)
      /\ lo <= at /\ End(c) <= hi /\ Of(c) = at .. End(c) - 1
  BY <1>1, <1>s
<1>r. rest = IF c.bytes = size THEN << >> ELSE << d >>
  OBVIOUS
<1> HIDE DEF c, at, d
<1>d. c.bytes # size => /\ d \in Chunk /\ d.start = at + size /\ d.bytes = c.bytes - size
                        /\ End(d) = End(c)
  BY ONLY <1>c, <1>s DEF Chunk, End, d
<1>2. /\ rest \in ChunkList(lo, hi) /\ Bytes(rest) = c.bytes - size
      /\ \A a : FreeIn(rest, a) <=> a \in at + size .. End(c) - 1
      /\ \A j \in 1 .. Len(rest) : at + size <= rest[j].start /\ End(rest[j]) <= End(c)
  <2>1. CASE c.bytes = size
    <3>1. rest = << >>
      BY <1>r, <2>1
    <3>2. at + size .. End(c) - 1 = {} /\ c.bytes - size = 0
      BY ONLY <1>c, <1>s, <1>e, <2>1
    <3>3. Len(<< >>) = 0
      BY EmptySeq
    <3> QED
      BY <3>1, <3>2, <3>3, ListOfNone, BytesOfNone
  <2>2. CASE c.bytes # size
    <3>1. rest = << d >>
      BY <1>r, <2>2
    <3>2. d \in Chunk /\ d.start = at + size /\ d.bytes = c.bytes - size /\ End(d) = End(c)
      BY <1>d, <2>2
    <3>3. Of(d) = at + size .. End(c) - 1
      BY <3>2, ChunkEnds
    <3>4. lo <= d.start /\ End(d) <= hi /\ at + size <= d.start /\ End(d) <= End(c)
      <4>1. lo <= at + size /\ End(c) <= hi /\ at + size <= at + size /\ End(c) <= End(c)
        BY ONLY SMTT(30), <1>s, <1>c, <1>e, lo \in Nat
      <4> QED
        BY ONLY <3>2, <4>1
    <3>5. rest \in ChunkList(lo, hi) /\ \A a : FreeIn(rest, a) <=> a \in Of(d)
      BY <3>1, <3>2, <3>4, ListOfOne
    <3>6. Bytes(rest) = d.bytes
      BY <3>1, <3>2, BytesOfOne
    <3>7. \A j \in 1 .. Len(rest) : rest[j] = d
      BY <3>1, <3>2, OneElement
    <3> QED
      BY <3>2, <3>3, <3>4, <3>5, <3>6, <3>7
  <2> QED
    BY <2>1, <2>2
<1> DEFINE x == i - 1
           y == i + 1
<1>3. /\ x \in 0 .. n /\ y \in x + 1 .. n + 1
      /\ x + 1 = i /\ y - 1 = i
      /\ \A j \in 1 .. x : j \in 1 .. n /\ j < i /\ j # i
      /\ \A j \in y .. n : j \in 1 .. n /\ i < j /\ j # i
      /\ \A j : j \in 1 .. n <=> j \in 1 .. x \/ j = i \/ j \in y .. n
  BY ONLY <1>n
<1> HIDE DEF x, y
<1>L. /\ \A j \in 1 .. n : s[j].start \in Nat /\ End(s[j]) \in Nat
      /\ \A j, k \in 1 .. n : j < k => End(s[j]) < s[k].start
  BY ListFacts DEF n
<1>4. /\ \A j \in 1 .. x, k \in 1 .. Len(rest) : End(s[j]) < rest[k].start
      /\ \A j \in y .. n, k \in 1 .. Len(rest) : End(rest[k]) < s[j].start
  <2>1. \A k \in 1 .. Len(rest) : rest[k].start \in Nat /\ End(rest[k]) \in Nat
    BY <1>2, ListFacts
  <2>2. ASSUME NEW j \in 1 .. x, NEW k \in 1 .. Len(rest) PROVE End(s[j]) < rest[k].start
    <3>1. End(s[j]) < at /\ End(s[j]) \in Nat
      BY <1>n, <1>3, <1>L DEF at, c
    <3> QED
      BY SMTT(30), <1>c, <1>s, <1>2, <2>1, <3>1
  <2>3. ASSUME NEW j \in y .. n, NEW k \in 1 .. Len(rest) PROVE End(rest[k]) < s[j].start
    <3>1. End(c) < s[j].start /\ s[j].start \in Nat
      BY <1>n, <1>3, <1>L DEF c
    <3> QED
      BY <1>e, <1>2, <2>1, <3>1
  <2> QED
    BY <2>2, <2>3
<1>5. r = SubSeq(s, 1, x) \o rest \o SubSeq(s, y, n)
  BY DEF x, y, n
<1>6. /\ r \in ChunkList(lo, hi)
      /\ \A a : FreeIn(r, a) <=> \/ \E j \in 1 .. x : a \in Of(s[j])
                                 \/ FreeIn(rest, a)
                                 \/ \E j \in y .. n : a \in Of(s[j])
  <2>1. Replaced(s, rest, x, y, lo, hi, r)
    BY <1>2, <1>3, <1>4, <1>5, ChunkSplice DEF n
  <2> QED
    BY <2>1 DEF Replaced, n
<1>7. Bytes(r) = Bytes(s) - size /\ Bytes(r) \in Nat /\ Bytes(s) \in Nat
  <2>1. rest \in Seq(Chunk) /\ s \in Seq(Chunk)
    BY <1>1, <1>2 DEF ChunkList
  <2>2. BytesMoved(s, rest, r, SubSeq(s, x + 1, y - 1))
    BY <1>3, <1>5, <2>1, SpliceBytes DEF n
  <2>3. SubSeq(s, x + 1, y - 1) = << c >>
    BY <1>3, <1>n, <2>1, SubSeqOfOne DEF c, n
  <2>4. Bytes(<< c >>) = c.bytes
    BY <1>c, BytesOfOne
  <2>5. Bytes(r) + c.bytes = Bytes(s) + (c.bytes - size)
    BY <1>2, <2>2, <2>3, <2>4 DEF BytesMoved
  <2>6. Bytes(r) \in Nat /\ Bytes(s) \in Nat
    BY <2>2 DEF BytesMoved
  <2> QED
    BY ONLY SMTT(30), <1>c, <1>s, <2>5, <2>6
<1> DEFINE f == at + size
<1>f. f \in Nat /\ f = at + size /\ at <= f /\ f <= End(c)
  BY <1>c, <1>s, <1>e
<1> HIDE DEF f
<1>8. Span(at, f) \subseteq Of(c) /\ f .. End(c) - 1 = Of(c) \ Span(at, f)
  <2>1. End(c) \in Nat /\ at \in Nat /\ Of(c) = at .. End(c) - 1
    BY <1>c, <1>e
  <2> QED
    BY ONLY <2>1, <1>f DEF Span
<1>9. ASSUME NEW a \in Span(at, f) PROVE FreeIn(s, a)
  BY <1>8, <1>n DEF FreeIn, c, n
<1>10. ASSUME NEW a PROVE FreeIn(r, a) <=> FreeIn(s, a) /\ a \notin Span(at, f)
  <2>1. FreeIn(rest, a) <=> a \in Of(c) /\ a \notin Span(at, f)
    BY <1>2, <1>8, <1>f
  <2>2. FreeIn(s, a) <=> \/ \E j \in 1 .. x : a \in Of(s[j])
                         \/ a \in Of(c)
                         \/ \E j \in y .. n : a \in Of(s[j])
    BY <1>3 DEF FreeIn, c, n
  <2>3. ASSUME NEW j \in 1 .. n, j # i, a \in Of(s[j]) PROVE a \notin Span(at, f)
    <3>1. a \notin Of(c)
      BY <2>3, ChunksApart DEF c, n
    <3> QED
      BY <1>8, <3>1
  <2> QED
    BY <1>3, <1>6, <2>1, <2>2, <2>3
<1>11. lo <= at /\ at + size <= hi
  BY <1>e, <1>s, <1>c
<1> QED
  BY <1>c, <1>f, <1>6, <1>7, <1>9, <1>10, <1>11 DEF Taken, c

\* What FreeMem does to them: the addresses of b are free too.
Freed(s, r, lo, hi, b) ==
  /\ r \in ChunkList(lo, hi)
  /\ Bytes(s) \in Nat /\ Bytes(r) = Bytes(s) + b.bytes
  /\ \A a : FreeIn(r, a) <=> FreeIn(s, a) \/ a \in Of(b)

LEMMA ChunkFreed ==
  ASSUME NEW lo \in Nat, NEW hi \in Nat, NEW s \in ChunkList(lo, hi),
         NEW b, b.start \in Nat, b.bytes \in Nat \ {0},
         lo <= b.start, b.start + b.bytes <= hi,
         \A a \in Of(b) : ~FreeIn(s, a)
  PROVE  Freed(s, FreeChunk(s, b), lo, hi, b)
<1> DEFINE n == Len(s)
           from == b.start
           to == from + b.bytes
           above == {j \in DOMAIN s : s[j].start > from}
           i == IF above = {} THEN n + 1 ELSE Min(above)
           down == i > 1 /\ s[i - 1].start + s[i - 1].bytes = from
           up == above # {} /\ to = s[i].start
           left == IF down THEN s[i - 1].start ELSE from
           right == IF up THEN s[i].start + s[i].bytes ELSE to
           c == [start |-> left, bytes |-> right - left]
           x == IF down THEN i - 2 ELSE i - 1
           y == IF up THEN i + 1 ELSE i
           r == FreeChunk(s, b)
<1>b. /\ from \in Nat /\ to \in Nat /\ from < to /\ lo <= from /\ to <= hi
      /\ Of(b) = from .. to - 1 /\ to = from + b.bytes /\ b.bytes \in Nat
  BY DEF Of, Span
<1>n. n \in Nat /\ DOMAIN s = 1 .. n /\ s \in Seq(Chunk)
  BY ListFacts
<1>L. /\ \A j \in 1 .. n : /\ s[j].start \in Nat /\ End(s[j]) \in Nat /\ s[j].start < End(s[j])
                           /\ lo <= s[j].start /\ End(s[j]) <= hi
                           /\ End(s[j]) = s[j].start + s[j].bytes /\ s[j] \in Chunk
                           /\ Of(s[j]) = s[j].start .. End(s[j]) - 1 /\ s[j].bytes \in Nat
      /\ \A j, k \in 1 .. n : j < k => End(s[j]) < s[k].start
  BY SMTT(30), ListFacts
<1>a. \A a, j : a \in Of(b) /\ j \in 1 .. n => a \notin Of(s[j])
  BY DEF FreeIn
<1>r. r = SubSeq(s, 1, x) \o << c >> \o SubSeq(s, y, n)
  BY DEF FreeChunk
<1> HIDE DEF n, from, to, r
\* The chunks before i end before b, the others start after it.
<1>i. /\ i \in 1 .. n + 1 /\ (above # {} <=> i <= n)
      /\ \A j \in 1 .. n : j < i => s[j].start <= from
      /\ \A j \in 1 .. n : i <= j => from < s[j].start
  <2>1. above \subseteq Nat /\ above \subseteq 1 .. n
    BY <1>n
  <2>2. CASE above = {}
    <3>1. i = n + 1 /\ \A j \in 1 .. n : ~(from < s[j].start)
      BY <1>n, <2>2
    <3> HIDE DEF above, i
    <3>2. \A j \in 1 .. n : s[j].start <= from
      BY <1>b, <1>L, <3>1
    <3>3. i \in 1 .. n + 1 /\ ~(i <= n) /\ \A j \in 1 .. n : ~(i <= j)
      BY <1>n, <3>1
    <3> QED
      BY <2>2, <3>1, <3>2, <3>3
  <2>3. CASE above # {}
    <3>1. i = Min(above)
      BY <2>3
    <3>2. i \in above /\ \A j \in above : i <= j
      <4> HIDE DEF above, i
      <4> QED
        BY <2>1, <2>3, <3>1, MinOfSet
    <3>3. i \in 1 .. n /\ from < s[i].start /\ \A j \in 1 .. n : from < s[j].start => i <= j
      BY <1>n, <3>2
    <3> HIDE DEF above, i
    <3>4. \A j \in 1 .. n : i < j => from < s[j].start
      <4>1. ASSUME NEW j \in 1 .. n, i < j PROVE from < s[j].start
        <5>1. /\ End(s[i]) < s[j].start /\ from < s[i].start /\ s[i].start < End(s[i])
              /\ End(s[i]) \in Nat /\ s[i].start \in Nat /\ s[j].start \in Nat
          BY <1>L, <3>3, <4>1
        <5> QED
          BY ONLY <1>b, <5>1
      <4> QED
        BY <4>1
    <3>5. \A j \in 1 .. n : j < i => s[j].start <= from
      <4>1. ASSUME NEW j \in 1 .. n, j < i PROVE s[j].start <= from
        <5>1. ~(from < s[j].start)
          BY <1>n, <3>3, <4>1
        <5> QED
          BY <1>b, <1>L, <5>1
      <4> QED
        BY <4>1
    <3>6. \A j \in 1 .. n : i <= j => i = j \/ i < j
      BY <1>n, <3>3
    <3> QED
      BY <1>n, <2>3, <3>3, <3>4, <3>5, <3>6
  <2> QED
    BY <2>2, <2>3
<1>u. up <=> i <= n /\ to = s[i].start
  BY <1>i
<1> HIDE DEF above, i
<1> HIDE DEF up
<1>1. /\ \A j \in 1 .. n : j < i => End(s[j]) <= from
      /\ \A j \in 1 .. n : i <= j => to <= s[j].start
  <2>1. ASSUME NEW j \in 1 .. n, j < i PROVE End(s[j]) <= from
    <3>1. from \in Of(b)
      BY <1>b
    <3>2. from \notin Of(s[j]) /\ s[j].start <= from
      BY <1>a, <1>i, <2>1, <3>1
    <3> QED
      BY <1>b, <1>L, <3>2
  <2>2. ASSUME NEW j \in 1 .. n, i <= j PROVE to <= s[j].start
    <3>1. s[j].start \in Of(s[j]) /\ from < s[j].start
      BY <1>i, <1>L, <2>2
    <3>2. s[j].start \notin Of(b) /\ s[j].start \in Nat
      BY <1>a, <1>L, <3>1
    <3>3. s[j].start \notin from .. to - 1
      BY <1>b, <3>2
    <3> QED
      BY ONLY <1>b, <3>1, <3>2, <3>3
  <2> QED
    BY <2>1, <2>2
\* i is a number between 1 and n + 1.
<1>2. /\ i \in Nat /\ 1 <= i /\ i <= n + 1
      /\ i > 1 => i - 1 \in 1 .. n /\ i - 1 < i
      /\ i <= n => i \in 1 .. n /\ i <= i
  BY <1>n, <1>i
<1>3. down => i > 1 /\ i - 1 \in 1 .. n /\ End(s[i - 1]) = from
  BY <1>2, <1>L
<1>4. ~down /\ i > 1 => End(s[i - 1]) < from
  <2>1. ASSUME ~down, i > 1 PROVE End(s[i - 1]) < from
    <3>1. End(s[i - 1]) <= from /\ End(s[i - 1]) # from /\ End(s[i - 1]) \in Nat
      BY <1>1, <1>2, <1>L, <2>1
    <3> QED
      BY <1>b, <3>1
  <2> QED
    BY <2>1
<1>5. up => i \in 1 .. n /\ s[i].start = to
  BY <1>2, <1>u
<1>6. ~up /\ i <= n => to < s[i].start
  <2>1. ASSUME ~up, i <= n PROVE to < s[i].start
    <3>1. to <= s[i].start /\ s[i].start # to /\ s[i].start \in Nat
      BY <1>1, <1>2, <1>L, <1>u, <2>1
    <3> QED
      BY <1>b, <3>1
  <2> QED
    BY <2>1
<1>l. /\ down => left = s[i - 1].start
      /\ ~down => left = from
      /\ left \in Nat /\ lo <= left /\ left <= from
  <2>1. CASE down
    BY <1>3, <1>L, <1>b, <2>1
  <2>2. CASE ~down
    BY <1>b, <2>2
  <2> QED
    BY <2>1, <2>2
<1>g. /\ up => right = End(s[i])
      /\ ~up => right = to
      /\ right \in Nat /\ right <= hi /\ to <= right
  <2>1. CASE up
    <3>1. /\ s[i].start = to /\ End(s[i]) = s[i].start + s[i].bytes /\ s[i].bytes \in Nat
          /\ End(s[i]) \in Nat /\ End(s[i]) <= hi
      BY <1>5, <1>L, <2>1
    <3>2. right = End(s[i])
      BY <2>1, <3>1
    <3>3. to <= End(s[i])
      BY ONLY <1>b, <3>1
    <3> QED
      BY ONLY <2>1, <3>1, <3>2, <3>3
  <2>2. CASE ~up
    BY <1>b, <2>2
  <2> QED
    BY <2>1, <2>2
<1>x. /\ x \in 0 .. n /\ x \in Nat /\ x <= i - 1
      /\ down => x = i - 2 /\ x + 1 = i - 1
      /\ ~down => x = i - 1 /\ x + 1 = i
  BY <1>2, <1>3, <1>n
<1>y. /\ y \in 1 .. n + 1 /\ y \in Nat /\ i <= y /\ y \in x + 1 .. n + 1
      /\ up => y = i + 1 /\ y - 1 = i
      /\ ~up => y = i /\ y - 1 = i - 1
  BY <1>2, <1>5, <1>n, <1>x
<1> DEFINE mid == << c >>
<1> HIDE DEF left, right, down, x, y
<1>c. c \in Chunk /\ End(c) = right /\ c.start = left /\ Of(c) = left .. right - 1 /\ c.bytes = right - left
  <2>1. right - left \in Nat \ {0} /\ left + (right - left) = right
    BY <1>l, <1>g, <1>b
  <2>2. c.start = left /\ c.bytes = right - left
    OBVIOUS
  <2>3. c \in Chunk
    BY <1>l, <2>1 DEF Chunk
  <2> QED
    BY <2>1, <2>2, <2>3 DEF End, Of, Span
<1> HIDE DEF c
<1>m. /\ mid \in ChunkList(lo, hi) /\ \A a : FreeIn(mid, a) <=> a \in Of(c)
      /\ Bytes(mid) = right - left /\ mid \in Seq(Chunk)
      /\ \A j \in 1 .. Len(mid) : mid[j] = c
  <2>1. mid \in ChunkList(lo, hi) /\ \A a : FreeIn(mid, a) <=> a \in Of(c)
    BY <1>c, <1>l, <1>g, ListOfOne
  <2>2. Bytes(mid) = right - left /\ mid \in Seq(Chunk)
    BY <1>c, BytesOfOne
  <2>3. \A j \in 1 .. Len(mid) : mid[j] = c
    BY <1>c, OneElement
  <2> QED
    BY <2>1, <2>2, <2>3
<1>q. r = SubSeq(s, 1, x) \o mid \o SubSeq(s, y, n)
  BY <1>r DEF x, y, c, left, right, down
<1> HIDE DEF mid
<1>7. \A j \in 1 .. x : j \in 1 .. n /\ j < i /\ End(s[j]) < left
  <2>1. ASSUME NEW j \in 1 .. x PROVE j \in 1 .. n /\ j < i /\ End(s[j]) < left
    <3>1. j \in 1 .. n /\ j < i /\ j \in Nat /\ i > 1
      BY <1>2, <1>n, <1>x
    <3>2. CASE down
      <4>1. j < i - 1
        BY <1>2, <1>x, <3>1, <3>2
      <4> QED
        BY <1>3, <1>l, <1>L, <3>1, <3>2, <4>1
    <3>3. CASE ~down
      <4>1. CASE j = i - 1
        BY <1>4, <1>l, <3>1, <3>3, <4>1
      <4>2. CASE j # i - 1
        <5>1. j < i - 1 /\ i - 1 \in 1 .. n
          BY <1>2, <3>1, <4>2
        <5>2. End(s[j]) < s[i - 1].start /\ s[i - 1].start <= from
          BY <1>i, <1>2, <1>L, <3>1, <5>1
        <5> QED
          BY <1>l, <1>b, <1>L, <3>1, <3>3, <5>1, <5>2
      <4> QED
        BY <4>1, <4>2
    <3> QED
      BY <3>1, <3>2, <3>3
  <2> QED
    BY <2>1
<1>8. \A j \in y .. n : j \in 1 .. n /\ i <= j /\ right < s[j].start
  <2>1. ASSUME NEW j \in y .. n PROVE j \in 1 .. n /\ i <= j /\ right < s[j].start
    <3>1. j \in 1 .. n /\ i <= j /\ j \in Nat /\ i <= n
      BY <1>2, <1>n, <1>y
    <3>2. CASE up
      <4>1. i < j
        BY <1>2, <1>y, <3>1, <3>2
      <4> QED
        BY <1>5, <1>g, <1>L, <3>1, <3>2, <4>1
    <3>3. CASE ~up
      <4>1. CASE j = i
        BY <1>6, <1>g, <3>1, <3>3, <4>1
      <4>2. CASE j # i
        <5>1. i < j /\ i \in 1 .. n
          BY <1>2, <3>1, <4>2
        <5>2. /\ End(s[i]) < s[j].start /\ to < s[i].start /\ s[i].start < End(s[i])
              /\ s[i].start \in Nat /\ End(s[i]) \in Nat /\ s[j].start \in Nat
          BY <1>6, <1>L, <3>1, <3>3, <5>1
        <5>3. right = to /\ right \in Nat
          BY <1>g, <3>3
        <5>4. right < s[j].start
          BY ONLY <5>2, <5>3
        <5> QED
          BY <3>1, <5>4
      <4> QED
        BY <4>1, <4>2
    <3> QED
      BY <3>1, <3>2, <3>3
  <2> QED
    BY <2>1
<1>9. /\ r \in ChunkList(lo, hi)
      /\ \A a : FreeIn(r, a) <=> \/ \E j \in 1 .. x : a \in Of(s[j])
                                 \/ a \in Of(c)
                                 \/ \E j \in y .. n : a \in Of(s[j])
  <2>1. /\ \A j \in 1 .. x, k \in 1 .. Len(mid) : End(s[j]) < mid[k].start
        /\ \A j \in y .. n, k \in 1 .. Len(mid) : End(mid[k]) < s[j].start
    BY <1>c, <1>m, <1>7, <1>8
  <2>2. Replaced(s, mid, x, y, lo, hi, r)
    BY <1>m, <1>q, <1>x, <1>y, <2>1, ChunkSplice DEF n
  <2> QED
    BY <1>m, <2>2 DEF Replaced, n
<1>10. ASSUME NEW a PROVE FreeIn(r, a) <=> FreeIn(s, a) \/ a \in Of(b)
  <2>1. a \in Of(c) <=> \/ down /\ a \in Of(s[i - 1])
                        \/ a \in Of(b)
                        \/ up /\ a \in Of(s[i])
    <3>1. a \in Of(c) <=> \/ a \in left .. from - 1
                          \/ a \in from .. to - 1
                          \/ a \in to .. right - 1
      BY SMTT(30), <1>b, <1>c, <1>l, <1>g
    <3>2. a \in left .. from - 1 <=> down /\ a \in Of(s[i - 1])
      <4>1. CASE down
        BY <1>3, <1>l, <1>L, <4>1
      <4>2. CASE ~down
        BY <1>b, <1>l, <4>2
      <4> QED
        BY <4>1, <4>2
    <3>3. a \in to .. right - 1 <=> up /\ a \in Of(s[i])
      <4>1. CASE up
        BY <1>5, <1>g, <1>L, <4>1
      <4>2. CASE ~up
        BY <1>b, <1>g, <4>2
      <4> QED
        BY <4>1, <4>2
    <3> QED
      BY <1>b, <3>1, <3>2, <3>3
  <2>2. \A j : j \in 1 .. n <=> \/ j \in 1 .. x \/ (down /\ j = i - 1)
                                \/ (up /\ j = i) \/ j \in y .. n
    <3>1. CASE down
      <4>1. CASE up
        BY <1>n, <1>2, <1>3, <1>5, <1>x, <1>y, <3>1, <4>1
      <4>2. CASE ~up
        BY <1>n, <1>2, <1>3, <1>x, <1>y, <3>1, <4>2
      <4> QED
        BY <4>1, <4>2
    <3>2. CASE ~down
      <4>1. CASE up
        BY <1>n, <1>2, <1>5, <1>x, <1>y, <3>2, <4>1
      <4>2. CASE ~up
        BY <1>n, <1>2, <1>x, <1>y, <3>2, <4>2
      <4> QED
        BY <4>1, <4>2
    <3> QED
      BY <3>1, <3>2
  <2>3. FreeIn(s, a) <=> \/ \E j \in 1 .. x : a \in Of(s[j])
                         \/ down /\ a \in Of(s[i - 1])
                         \/ up /\ a \in Of(s[i])
                         \/ \E j \in y .. n : a \in Of(s[j])
    BY <2>2 DEF FreeIn, n
  <2> QED
    BY <1>9, <2>1, <2>3
<1>11. Bytes(s) \in Nat /\ Bytes(r) = Bytes(s) + b.bytes
  <2> DEFINE d == SubSeq(s, x + 1, i - 1)
             e == SubSeq(s, i, y - 1)
  <2>1. SubSeq(s, x + 1, y - 1) = d \o e
    <3>1. x + 1 \in 1 .. n + 1 /\ i - 1 \in (x + 1) - 1 .. n /\ y - 1 \in i - 1 .. n
          /\ (i - 1) + 1 = i
      BY <1>n, <1>2, <1>x, <1>y
    <3>2. SubSeq(s, x + 1, i - 1) \o SubSeq(s, (i - 1) + 1, y - 1) = SubSeq(s, x + 1, y - 1)
      BY <1>n, <3>1, ConcatAdjacentSubSeq DEF n
    <3> QED
      BY <3>1, <3>2
  <2>2. d \in Seq(Chunk) /\ Bytes(d) = from - left
    <3>1. CASE down
      <4>1. d = << s[i - 1] >>
        BY <1>n, <1>3, <1>x, <3>1, SubSeqOfOne DEF n
      <4>2. Bytes(<< s[i - 1] >>) = s[i - 1].bytes /\ << s[i - 1] >> \in Seq(Chunk)
        BY <1>3, <1>L, <3>1, BytesOfOne
      <4>3. s[i - 1].bytes = from - left
        <5>1. /\ End(s[i - 1]) = s[i - 1].start + s[i - 1].bytes /\ s[i - 1].bytes \in Nat
              /\ s[i - 1].start \in Nat /\ from = End(s[i - 1]) /\ left = s[i - 1].start
          BY <1>3, <1>l, <1>L, <3>1
        <5> QED
          BY ONLY <5>1
      <4> QED
        BY <4>1, <4>2, <4>3
    <3>2. CASE ~down
      <4>1. d = << >>
        BY <1>n, <1>2, <1>x, <3>2, SubSeqOfNone
      <4>2. from - left = 0
        BY <1>b, <1>l, <3>2
      <4> QED
        BY <4>1, <4>2, BytesOfNone, EmptySeq
    <3> QED
      BY <3>1, <3>2
  <2>3. e \in Seq(Chunk) /\ Bytes(e) = right - to
    <3>1. CASE up
      <4>1. e = << s[i] >>
        BY <1>n, <1>5, <1>y, <3>1, SubSeqOfOne DEF n
      <4>2. Bytes(<< s[i] >>) = s[i].bytes /\ << s[i] >> \in Seq(Chunk)
        BY <1>5, <1>L, <3>1, BytesOfOne
      <4>3. s[i].bytes = right - to
        <5>1. /\ End(s[i]) = s[i].start + s[i].bytes /\ s[i].bytes \in Nat
              /\ s[i].start \in Nat /\ right = End(s[i]) /\ to = s[i].start
          BY <1>5, <1>g, <1>L, <3>1
        <5> QED
          BY ONLY <5>1
      <4> QED
        BY <4>1, <4>2, <4>3
    <3>2. CASE ~up
      <4>1. e = << >>
        BY <1>n, <1>2, <1>y, <3>2, SubSeqOfNone
      <4>2. right - to = 0
        BY <1>b, <1>g, <3>2
      <4> QED
        BY <4>1, <4>2, BytesOfNone, EmptySeq
    <3> QED
      BY <3>1, <3>2
  <2> HIDE DEF d, e
  <2>4. Bytes(d \o e) = (from - left) + (right - to)
    BY <2>2, <2>3, BytesOfJoin
  <2>5. BytesMoved(s, mid, r, SubSeq(s, x + 1, y - 1))
    BY <1>n, <1>m, <1>q, <1>x, <1>y, SpliceBytes DEF n
  <2>6. Bytes(r) + Bytes(d \o e) = Bytes(s) + (right - left) /\ Bytes(r) \in Nat /\ Bytes(s) \in Nat
    BY <1>m, <2>1, <2>5 DEF BytesMoved
  <2>7. /\ from \in Nat /\ to \in Nat /\ b.bytes \in Nat /\ to = from + b.bytes
        /\ left \in Nat /\ right \in Nat
    BY <1>b, <1>l, <1>g
  <2>8. Bytes(r) + ((from - left) + (right - to)) = Bytes(s) + (right - left)
    BY <2>4, <2>6
  <2>9. Bytes(r) \in Nat /\ Bytes(s) \in Nat
    BY <2>6
  <2> QED
    BY ONLY <2>7, <2>8, <2>9
<1> QED
  BY <1>9, <1>10, <1>11 DEF Freed, r

\* What SplitChunk leaves of a chunk between L and H.
PartOf(part, mc, L, H) ==
  \/ part = << >> /\ \A a \in Of(mc) : a \notin L .. H - 1
  \/ \E c \in Chunk :
       /\ part = << c >>
       /\ mc.start <= c.start /\ End(c) <= End(mc) /\ L <= c.start /\ End(c) <= H
       /\ \A a : a \in Of(c) <=> a \in Of(mc) /\ a \in L .. H - 1

LEMMA ChunkParts ==
  ASSUME NEW lo \in Nat, NEW hi \in Nat, NEW at \in Nat,
         NEW mc \in Chunk, lo <= mc.start, End(mc) <= hi
  PROVE  /\ PartOf(SplitChunk(mc, at).ll, mc, lo, at)
         /\ PartOf(SplitChunk(mc, at).ul, mc, at, hi)
<1> DEFINE low == [start |-> mc.start, bytes |-> at - mc.start]
           high == [start |-> at, bytes |-> End(mc) - at]
<1>1. /\ mc.start \in Nat /\ End(mc) \in Nat /\ mc.start < End(mc) /\ mc.bytes \in Nat \ {0}
      /\ mc = [start |-> mc.start, bytes |-> mc.bytes]
      /\ Of(mc) = mc.start .. End(mc) - 1
  BY ChunkEnds
<1>2. CASE End(mc) <= at
  <2>1. SplitChunk(mc, at) = [ll |-> <<mc>>, ul |-> << >>]
    BY <1>2 DEF SplitChunk, End
  <2>2. \A a \in Of(mc) : a \in lo .. at - 1 /\ a \notin at .. hi - 1
    BY <1>1, <1>2
  <2>3. mc.start <= mc.start /\ End(mc) <= End(mc)
    BY <1>1
  <2> QED
    BY <1>2, <2>1, <2>2, <2>3 DEF PartOf
<1>3. CASE at <= mc.start
  <2>1. ~(End(mc) <= at)
    BY <1>1, <1>3
  <2>2. SplitChunk(mc, at) = [ll |-> << >>, ul |-> <<mc>>]
    BY <1>3, <2>1 DEF SplitChunk, End
  <2>3. \A a \in Of(mc) : a \notin lo .. at - 1 /\ a \in at .. hi - 1
    BY <1>1, <1>3
  <2>4. mc.start <= mc.start /\ End(mc) <= End(mc)
    BY <1>1
  <2> QED
    BY <1>3, <2>2, <2>3, <2>4 DEF PartOf
<1>4. CASE mc.start < at /\ at < End(mc)
  <2>1. ~(End(mc) <= at) /\ ~(at <= mc.start)
    BY <1>1, <1>4
  <2>2. [mc EXCEPT !.bytes = at - mc.start] = low
    <3>1. [[start |-> mc.start, bytes |-> mc.bytes] EXCEPT !.bytes = at - mc.start] = low
      OBVIOUS
    <3> QED
      BY <1>1, <3>1
  <2>3. SplitChunk(mc, at) = [ll |-> <<low>>, ul |-> <<high>>]
    BY <2>1, <2>2 DEF SplitChunk, End
  <2>4. low \in Chunk /\ low.start = mc.start /\ End(low) = at /\ Of(low) = mc.start .. at - 1
    <3>1. at - mc.start \in Nat \ {0} /\ mc.start + (at - mc.start) = at
      BY <1>1, <1>4
    <3>2. low.start = mc.start /\ low.bytes = at - mc.start
      OBVIOUS
    <3>3. low \in Chunk
      BY <1>1, <3>1 DEF Chunk
    <3> QED
      BY <3>1, <3>2, <3>3 DEF End, Of, Span
  <2>5. high \in Chunk /\ high.start = at /\ End(high) = End(mc) /\ Of(high) = at .. End(mc) - 1
    <3>1. End(mc) - at \in Nat \ {0} /\ at + (End(mc) - at) = End(mc)
      BY <1>1, <1>4
    <3>2. high.start = at /\ high.bytes = End(mc) - at
      OBVIOUS
    <3>3. high \in Chunk
      BY <3>1 DEF Chunk
    <3> HIDE DEF high
    <3>4. Of(high) = high.start .. End(high) - 1 /\ End(high) = high.start + high.bytes
      BY <3>3, ChunkEnds
    <3> QED
      BY <3>1, <3>2, <3>3, <3>4
  <2> HIDE DEF low, high
  <2>6. /\ \A a : a \in Of(low) <=> a \in Of(mc) /\ a \in lo .. at - 1
        /\ \A a : a \in Of(high) <=> a \in Of(mc) /\ a \in at .. hi - 1
    BY <1>1, <1>4, <2>4, <2>5
  <2>7. PartOf(<<low>>, mc, lo, at)
    <3>1. mc.start <= low.start /\ End(low) <= End(mc) /\ lo <= low.start /\ End(low) <= at
      BY <1>1, <1>4, <2>4
    <3> QED
      BY <2>4, <2>6, <3>1 DEF PartOf
  <2>8. PartOf(<<high>>, mc, at, hi)
    <3>1. mc.start <= high.start /\ End(high) <= End(mc) /\ at <= high.start /\ End(high) <= hi
      BY <1>1, <1>4, <2>5
    <3> QED
      BY <2>5, <2>6, <3>1 DEF PartOf
  <2> QED
    BY <2>3, <2>7, <2>8
<1> QED
  BY <1>1, <1>2, <1>3, <1>4

LEMMA PartIsChunks ==
  ASSUME NEW mc, NEW L, NEW H, NEW part, PartOf(part, mc, L, H)
  PROVE  part \in Seq(Chunk)
<1>1. << >> \in Seq(Chunk)
  BY EmptySeq
<1>2. \A c \in Chunk : << c >> \in Seq(Chunk)
  BY OneElement
<1> QED
  BY <1>1, <1>2 DEF PartOf

\* r is the list s with c, which lies above it, at its end.
Appended(s, c, lo, hi, r) ==
  /\ r \in ChunkList(lo, hi)
  /\ \A a : FreeIn(r, a) <=> FreeIn(s, a) \/ a \in Of(c)
  /\ \A j \in 1 .. Len(r) : r[j] = c \/ \E k \in 1 .. Len(s) : r[j] = s[k]

LEMMA ChunkAppend ==
  ASSUME NEW lo \in Nat, NEW hi \in Nat, NEW s \in ChunkList(lo, hi), NEW c \in Chunk,
         lo <= c.start, End(c) <= hi,
         \A j \in 1 .. Len(s) : End(s[j]) < c.start,
         NEW r, r = s \o << c >>
  PROVE  Appended(s, c, lo, hi, r)
<1> DEFINE n == Len(s)
<1>1. /\ s \in Seq(Chunk) /\ n \in Nat
      /\ \A i \in 1 .. n : lo <= s[i].start /\ End(s[i]) <= hi
      /\ \A i, j \in 1 .. n : i < j => End(s[i]) < s[j].start
  BY ListFacts
<1>2. /\ r \in Seq(Chunk) /\ Len(r) = n + 1
      /\ \A i \in 1 .. n : r[i] = s[i]
      /\ r[n + 1] = c
  <2> DEFINE t == << c >>
  <2>1. t \in Seq(Chunk) /\ Len(t) = 1 /\ t[1] = c
    BY OneElement
  <2> HIDE DEF t
  <2>2. r = s \o t
    BY DEF t
  <2>3. /\ r \in Seq(Chunk) /\ Len(r) = n + 1
        /\ \A i \in 1 .. n + 1 : r[i] = IF i <= n THEN s[i] ELSE t[i - n]
    BY <1>1, <2>1, <2>2, ConcatProperties
  <2>4. n + 1 \in 1 .. n + 1 /\ ~(n + 1 <= n) /\ (n + 1) - n = 1
    BY <1>1
  <2>5. r[n + 1] = c
    BY <2>1, <2>3, <2>4
  <2>6. \A i \in 1 .. n : i \in 1 .. n + 1 /\ i <= n
    BY <1>1
  <2> QED
    BY <2>3, <2>5, <2>6
<1>n. \A j \in 1 .. n : End(s[j]) < c.start
  OBVIOUS
<1> HIDE DEF n
<1>3. \A i : i \in 1 .. n + 1 <=> i \in 1 .. n \/ i = n + 1
  BY <1>1
<1>4. \A i \in 1 .. Len(r) : lo <= r[i].start /\ End(r[i]) <= hi
  BY <1>1, <1>2, <1>3
<1>5. ASSUME NEW i \in 1 .. Len(r), NEW j \in 1 .. Len(r), i < j
      PROVE  End(r[i]) < r[j].start
  <2>1. i \in 1 .. n /\ r[i] = s[i]
    BY <1>1, <1>2, <1>5
  <2>2. CASE j = n + 1
    BY <1>n, <1>2, <2>1, <2>2
  <2>3. CASE j \in 1 .. n
    BY <1>1, <1>2, <1>5, <2>1, <2>3
  <2> QED
    BY <1>2, <1>3, <2>2, <2>3
<1>6. r \in ChunkList(lo, hi)
  BY <1>2, <1>4, <1>5 DEF ChunkList
<1>7. \A a : FreeIn(r, a) <=> FreeIn(s, a) \/ a \in Of(c)
  BY <1>2, <1>3 DEF FreeIn, n
<1>8. \A j \in 1 .. Len(r) : r[j] = c \/ \E k \in 1 .. Len(s) : r[j] = s[k]
  BY <1>2, <1>3 DEF n
<1> QED
  BY <1>6, <1>7, <1>8 DEF Appended

\* f holds what Side has collected after 0, 1, ... chunks.
Sides(s, at, l, f) ==
  /\ f[0] = << >>
  /\ \A i \in 1 .. Len(s) : f[i] = f[i - 1] \o SplitChunk(s[i], at)[l]
  /\ Side(s, at, l) = f[Len(s)]

LEMMA SideIsFold ==
  ASSUME NEW s \in Seq(Chunk), NEW at \in Nat, NEW l \in {"ll", "ul"}
  PROVE  \E f : Sides(s, at, l, f)
<1> DEFINE n == Len(s)
           T == Seq(Chunk)
           part == [i \in 1 .. n |-> SplitChunk(s[i], at)[l]]
           R(h) == h = [t \in SUBSET DOMAIN s |->
                          IF t = {} THEN << >>
                          ELSE h[t \ {Max(t)}] \o SplitChunk(s[Max(t)], at)[l]]
           F == CHOOSE h : R(h)
           step == [i \in 1 .. n |-> [x \in T |-> x \o part[i]]]
           f == [i \in 0 .. n |-> F[1 .. i]]
<1>1. n \in Nat /\ DOMAIN s = 1 .. n /\ \A i \in 1 .. n : s[i] \in Chunk
  BY ChunkFacts
<1>2. Side(s, at, l) = F[1 .. n]
  BY <1>1 DEF Side, FoldLeft, MapThenFoldSet
<1>3. \A i \in 1 .. n : part[i] \in T /\ part[i] = SplitChunk(s[i], at)[l]
  <2>1. ASSUME NEW i \in 1 .. n PROVE SplitChunk(s[i], at)[l] \in T
    <3>1. s[i] \in Chunk /\ s[i].start \in Nat /\ End(s[i]) \in Nat
      BY <1>1, ChunkEnds
    <3>2. s[i].start <= s[i].start /\ End(s[i]) <= End(s[i])
      BY <3>1
    <3>3. /\ PartOf(SplitChunk(s[i], at).ll, s[i], s[i].start, at)
          /\ PartOf(SplitChunk(s[i], at).ul, s[i], at, End(s[i]))
      BY <3>1, <3>2, ChunkParts
    <3>4. SplitChunk(s[i], at).ll \in T /\ SplitChunk(s[i], at).ul \in T
      BY <3>3, PartIsChunks
    <3> QED
      BY <3>4
  <2> QED
    BY <2>1
<1> HIDE DEF part
<1>4. step \in [1 .. n -> [T -> T]] /\ \A i \in 1 .. n, x \in T : step[i][x] = x \o part[i]
  <2>1. \A i \in 1 .. n, x \in T : x \o part[i] \in T
    BY <1>3, ConcatProperties
  <2> QED
    BY <2>1
<1> HIDE DEF step
<1>5. PICK h : Folded(n, T, << >>, step, h)
  <2>1. << >> \in T
    BY EmptySeq
  <2> QED
    BY <1>1, <1>4, <2>1, FoldExists
<1>6. R(h)
  <2>1. ASSUME NEW t \in SUBSET (1 .. n), t # {}
        PROVE  step[Max(t)][h[t \ {Max(t)}]]
                 = h[t \ {Max(t)}] \o SplitChunk(s[Max(t)], at)[l]
    <3>1. Max(t) \in 1 .. n
      BY <1>1, <2>1, MaxOfSet
    <3>2. h[t \ {Max(t)}] \in T
      BY <1>5 DEF Folded
    <3> DEFINE m == Max(t)
               g == h[t \ {Max(t)}]
    <3> HIDE DEF m, g
    <3>3. m \in 1 .. n /\ g \in T
      BY <3>1, <3>2 DEF m, g
    <3>4. step[m][g] = g \o part[m] /\ part[m] = SplitChunk(s[m], at)[l]
      BY <1>3, <1>4, <3>3
    <3>5. step[m][g] = g \o SplitChunk(s[m], at)[l]
      BY <3>4
    <3> QED
      BY <3>5 DEF m, g
  <2>2. DOMAIN h = SUBSET (1 .. n) /\ h = [t \in SUBSET (1 .. n) |-> h[t]]
    BY <1>5 DEF Folded
  <2>3. \A t \in SUBSET (1 .. n) :
          h[t] = IF t = {} THEN << >>
                 ELSE h[t \ {Max(t)}] \o SplitChunk(s[Max(t)], at)[l]
    BY <1>5, <2>1 DEF Folded
  <2> QED
    BY <1>1, <2>2, <2>3
<1>7. R(F)
  <2> HIDE DEF R
  <2> QED
    BY <1>6, Zenon
<1> HIDE DEF F
<1>8. f[0] = << >>
  <2>1. 1 .. 0 = {} /\ {} \in SUBSET DOMAIN s
    OBVIOUS
  <2> QED
    BY <1>1, <1>7, <2>1
<1>9. ASSUME NEW i \in 1 .. n PROVE f[i] = f[i - 1] \o SplitChunk(s[i], at)[l]
  <2>1. Max(1 .. i) = i /\ (1 .. i) \ {i} = 1 .. i - 1
    BY MaxOfInterval
  <2>2. 1 .. i \in SUBSET DOMAIN s /\ 1 .. i # {}
    BY <1>1
  <2>3. F[1 .. i] = F[1 .. i - 1] \o SplitChunk(s[i], at)[l]
    BY <1>7, <2>1, <2>2
  <2>4. i \in 0 .. n /\ i - 1 \in 0 .. n
    BY <1>1
  <2>5. f[i] = F[1 .. i] /\ f[i - 1] = F[1 .. i - 1]
    BY <2>4
  <2> HIDE DEF f
  <2> QED
    BY <2>3, <2>5
<1>10. Side(s, at, l) = f[n]
  BY <1>1, <1>2
<1> HIDE DEF f
<1>11. Sides(s, at, l, f)
  BY <1>8, <1>9, <1>10 DEF Sides
<1> QED
  BY <1>11

\* r is what of s lies between L and H.
Parted(s, r, L, H) ==
  /\ r \in ChunkList(L, H)
  /\ \A a : FreeIn(r, a) <=> FreeIn(s, a) /\ a \in L .. H - 1

LEMMA SideParts ==
  ASSUME NEW lo \in Nat, NEW hi \in Nat, NEW s \in ChunkList(lo, hi),
         NEW at \in Nat, NEW l \in {"ll", "ul"}, NEW L \in Nat, NEW H \in Nat,
         \A i \in 1 .. Len(s) : PartOf(SplitChunk(s[i], at)[l], s[i], L, H)
  PROVE  Parted(s, Side(s, at, l), L, H)
<1> DEFINE n == Len(s)
<1>1. /\ s \in Seq(Chunk) /\ n \in Nat
      /\ \A i \in 1 .. n : s[i].start \in Nat /\ End(s[i]) \in Nat
      /\ \A i, j \in 1 .. n : i < j => End(s[i]) < s[j].start
  BY ListFacts
<1>2. PICK f : Sides(s, at, l, f)
  BY <1>1, SideIsFold
<1> DEFINE In(i, a) == \E m \in 1 .. i : a \in Of(s[m])
           P(i) == /\ f[i] \in ChunkList(L, H)
                   /\ \A j \in 1 .. Len(f[i]), k \in i + 1 .. n : End(f[i][j]) < s[k].start
                   /\ \A a : FreeIn(f[i], a) <=> In(i, a) /\ a \in L .. H - 1
           S == {i \in Nat : i <= n => P(i)}
<1>3. 0 \in S
  <2>1. f[0] = << >> /\ Len(<< >>) = 0
    BY <1>2, EmptySeq DEF Sides
  <2>2. f[0] \in ChunkList(L, H) /\ \A a : ~FreeIn(f[0], a)
    BY <2>1, ListOfNone
  <2>3. \A a : ~In(0, a)
    OBVIOUS
  <2>4. P(0)
    BY <2>1, <2>2, <2>3
  <2> HIDE DEF P
  <2> QED
    BY <2>4
<1>4. ASSUME NEW i \in Nat, i \in S PROVE i + 1 \in S
  <2> SUFFICES ASSUME i + 1 <= n PROVE P(i + 1)
    BY <1>1
  <2>1. P(i)
    <3>1. i <= n
      BY <1>1
    <3> HIDE DEF P
    <3> QED
      BY <1>4, <3>1
  <2> DEFINE k == i + 1
             g == f[i]
             r == f[k]
             part == SplitChunk(s[k], at)[l]
  <2>2. k \in 1 .. n /\ k \in Nat /\ k = i + 1 /\ k - 1 = i
    BY <1>1
  <2>3. r = g \o part /\ PartOf(part, s[k], L, H)
    BY <1>2, <2>2 DEF Sides
  <2>4. /\ g \in ChunkList(L, H)
        /\ \A j \in 1 .. Len(g), m \in k .. n : End(g[j]) < s[m].start
        /\ \A a : FreeIn(g, a) <=> In(i, a) /\ a \in L .. H - 1
    BY <2>1
  <2>5. \A a : In(k, a) <=> In(i, a) \/ a \in Of(s[k])
    <3>1. \A m : m \in 1 .. k <=> m \in 1 .. i \/ m = k
      BY <2>2
    <3> HIDE DEF k
    <3> QED
      BY <3>1
  <2>6. \A m \in k + 1 .. n : m \in k .. n /\ m \in 1 .. n /\ k < m
    BY <1>1, <2>2
  <2>7. \A j \in 1 .. Len(g) : End(g[j]) \in Nat
    BY <2>4, ListFacts
  <2>8. k \in k .. n
    BY <1>1, <2>2
  <2> HIDE DEF In, g, r, part, k
  <2>9. CASE part = << >> /\ \A a \in Of(s[k]) : a \notin L .. H - 1
    <3>1. r = g
      <4>1. g \in Seq(Chunk)
        BY <2>4 DEF ChunkList
      <4> QED
        BY <2>3, <2>9, <4>1, ConcatEmptySeq
    <3>2. \A a : FreeIn(r, a) <=> In(k, a) /\ a \in L .. H - 1
      BY <2>4, <2>5, <2>9, <3>1
    <3>3. \A j \in 1 .. Len(r), m \in k + 1 .. n : End(r[j]) < s[m].start
      BY <2>4, <2>6, <3>1
    <3> QED
      BY <2>4, <3>1, <3>2, <3>3 DEF r, k, In
  <2>10. CASE \E c \in Chunk :
               /\ part = << c >>
               /\ s[k].start <= c.start /\ End(c) <= End(s[k]) /\ L <= c.start /\ End(c) <= H
               /\ \A a : a \in Of(c) <=> a \in Of(s[k]) /\ a \in L .. H - 1
    <3>1. PICK c \in Chunk :
               /\ part = << c >>
               /\ s[k].start <= c.start /\ End(c) <= End(s[k]) /\ L <= c.start /\ End(c) <= H
               /\ \A a : a \in Of(c) <=> a \in Of(s[k]) /\ a \in L .. H - 1
      BY <2>10
    <3>2. c.start \in Nat /\ End(c) \in Nat
      BY ChunkEnds
    <3>3. \A j \in 1 .. Len(g) : End(g[j]) < c.start
      <4>1. ASSUME NEW j \in 1 .. Len(g) PROVE End(g[j]) < c.start
        <5>1. End(g[j]) < s[k].start /\ s[k].start \in Nat /\ End(g[j]) \in Nat
          BY <1>1, <2>2, <2>4, <2>7, <2>8
        <5> QED
          BY <3>1, <3>2, <5>1
      <4> QED
        BY <4>1
    <3>4. r = g \o << c >>
      BY <2>3, <3>1
    <3>5. /\ r \in ChunkList(L, H)
          /\ \A a : FreeIn(r, a) <=> FreeIn(g, a) \/ a \in Of(c)
          /\ \A j \in 1 .. Len(r) : r[j] = c \/ \E m \in 1 .. Len(g) : r[j] = g[m]
      <4>1. Appended(g, c, L, H, r)
        BY <2>4, <3>1, <3>3, <3>4, ChunkAppend
      <4> QED
        BY <4>1 DEF Appended
    <3>6. \A a : FreeIn(r, a) <=> In(k, a) /\ a \in L .. H - 1
      BY <2>4, <2>5, <3>1, <3>5
    <3>7. \A m \in k + 1 .. n : End(c) < s[m].start
      <4>1. ASSUME NEW m \in k + 1 .. n PROVE End(c) < s[m].start
        <5>1. End(s[k]) < s[m].start /\ s[m].start \in Nat /\ End(s[k]) \in Nat
          BY <1>1, <2>2, <2>6
        <5> QED
          BY <3>1, <3>2, <5>1
      <4> QED
        BY <4>1
    <3>8. \A j \in 1 .. Len(r), m \in k + 1 .. n : End(r[j]) < s[m].start
      BY <2>4, <2>6, <3>5, <3>7
    <3> QED
      BY <3>5, <3>6, <3>8 DEF r, k, In
  <2> QED
    BY <2>3, <2>9, <2>10 DEF PartOf
<1> HIDE DEF S
<1>5. n \in S
  BY <1>1, <1>3, <1>4, SetInduction
<1>6. P(n)
  <2> HIDE DEF P
  <2> QED
    BY <1>1, <1>5 DEF S
<1>7. Side(s, at, l) = f[n]
  BY <1>2 DEF Sides
<1>8. \A a : FreeIn(s, a) <=> In(n, a)
  BY DEF FreeIn
<1> HIDE DEF n, In
<1> QED
  BY <1>6, <1>7, <1>8 DEF Parted

-----------------------------------------------------------------------------
(* Regions.                                                                *)

\* struct MemHeader: the free list is sound and the region is not empty.
RegionType ==
  [lower : Nat, upper : Nat, pri : Int, a314 : BOOLEAN, free : Nat, first : Seq(Chunk)]

Regions ==
  {mh \in RegionType :
     /\ mh.lower < mh.upper /\ mh.upper <= Top
     /\ mh.first \in ChunkList(mh.lower, mh.upper)
     /\ mh.free = Bytes(mh.first)}

LEMMA RegionFacts ==
  ASSUME NEW mh \in Regions
  PROVE  /\ mh.lower \in Nat /\ mh.upper \in Nat /\ mh.pri \in Int
         /\ mh.a314 \in BOOLEAN /\ mh.free \in Nat /\ mh.free = Bytes(mh.first)
         /\ mh.lower < mh.upper /\ mh.upper <= Top
         /\ mh.first \in ChunkList(mh.lower, mh.upper)
         /\ mh \in RegionType
BY DEF Regions, RegionType

\* r is mh with another free list.
SameRegion(mh, r) ==
  r.lower = mh.lower /\ r.upper = mh.upper /\ r.pri = mh.pri /\ r.a314 = mh.a314

\* The two parts of mh: regions themselves, and what was free still is.
RegionSplit(mh, at, cut) ==
  /\ cut.lower \in Regions /\ cut.upper \in Regions
  /\ cut.lower.lower = mh.lower /\ cut.lower.upper = at
  /\ cut.upper.lower = at /\ cut.upper.upper = mh.upper
  /\ cut.lower.a314 = mh.a314 /\ cut.upper.a314 = mh.a314
  /\ \A a : FreeIn(mh.first, a) <=> FreeIn(cut.lower.first, a) \/ FreeIn(cut.upper.first, a)

LEMMA SplitRegion ==
  ASSUME NEW mh \in Regions, NEW at \in Nat, mh.lower < at, at < mh.upper,
         NEW cut, cut = split_region(mh, at)
  PROVE  RegionSplit(mh, at, cut)
<1> DEFINE s == mh.first
           ll == Side(s, at, "ll")
           ul == Side(s, at, "ul")
           lo == mh.lower
           hi == mh.upper
<1>1. /\ lo \in Nat /\ hi \in Nat /\ s \in ChunkList(lo, hi) /\ mh.pri \in Int
      /\ mh.a314 \in BOOLEAN /\ hi <= Top /\ mh \in RegionType
  BY RegionFacts
<1>2. \A i \in 1 .. Len(s) : s[i] \in Chunk /\ lo <= s[i].start /\ End(s[i]) <= hi
  BY <1>1, ListFacts
<1>3. \A i \in 1 .. Len(s) : /\ PartOf(SplitChunk(s[i], at).ll, s[i], lo, at)
                             /\ PartOf(SplitChunk(s[i], at).ul, s[i], at, hi)
  BY <1>1, <1>2, ChunkParts
<1>4. Parted(s, ll, lo, at)
  BY <1>1, <1>3, SideParts
<1>5. Parted(s, ul, at, hi)
  BY <1>1, <1>3, SideParts
<1>6. Bytes(ll) \in Nat /\ Bytes(ul) \in Nat /\ ll \in Seq(Chunk) /\ ul \in Seq(Chunk)
  <2>1. ll \in Seq(Chunk) /\ ul \in Seq(Chunk)
    BY <1>4, <1>5 DEF Parted, ChunkList
  <2>2. \A t \in Seq(Chunk) : Bytes(t) \in Nat
    BY BytesIsSum, SumsUnique
  <2> QED
    BY <2>1, <2>2
<1>7. cut = [lower |-> [mh EXCEPT !.upper = at, !.first = ll, !.free = Bytes(ll)],
             upper |-> [mh EXCEPT !.lower = at, !.first = ul, !.free = Bytes(ul)]]
  BY DEF split_region
<1> HIDE DEF ll, ul
<1>8. cut.lower \in Regions /\ cut.lower.lower = lo /\ cut.lower.upper = at
      /\ cut.lower.a314 = mh.a314 /\ cut.lower.first = ll
  <2> DEFINE e == [mh EXCEPT !.upper = at, !.first = ll, !.free = Bytes(ll)]
  <2>1. /\ e \in RegionType /\ e.lower = mh.lower /\ e.upper = at /\ e.a314 = mh.a314
        /\ e.first = ll /\ e.free = Bytes(ll)
    BY <1>1, <1>6 DEF RegionType
  <2>2. lo < at /\ at <= Top
    BY <1>1, MemoryAssumption
  <2>3. e \in Regions
    BY <1>4, <2>1, <2>2 DEF Regions, Parted
  <2> HIDE DEF e
  <2>4. cut.lower = e
    BY <1>7 DEF e
  <2> QED
    BY <2>1, <2>3, <2>4
<1>9. cut.upper \in Regions /\ cut.upper.lower = at /\ cut.upper.upper = hi
      /\ cut.upper.a314 = mh.a314 /\ cut.upper.first = ul
  <2> DEFINE e == [mh EXCEPT !.lower = at, !.first = ul, !.free = Bytes(ul)]
  <2>1. /\ e \in RegionType /\ e.lower = at /\ e.upper = mh.upper /\ e.a314 = mh.a314
        /\ e.first = ul /\ e.free = Bytes(ul)
    BY <1>1, <1>6 DEF RegionType
  <2>2. e \in Regions
    BY <1>1, <1>5, <2>1 DEF Regions, Parted
  <2> HIDE DEF e
  <2>3. cut.upper = e
    BY <1>7 DEF e
  <2> QED
    BY <2>1, <2>2, <2>3
<1>11. \A a : FreeIn(s, a) <=> FreeIn(ll, a) \/ FreeIn(ul, a)
  <2>1. ASSUME NEW a, FreeIn(s, a) PROVE a \in lo .. at - 1 \/ a \in at .. hi - 1
    <3>1. PICK i \in 1 .. Len(s) : a \in Of(s[i])
      BY <2>1 DEF FreeIn
    <3>2. /\ s[i].start \in Nat /\ End(s[i]) \in Nat /\ lo <= s[i].start /\ End(s[i]) <= hi
          /\ Of(s[i]) = s[i].start .. End(s[i]) - 1
      BY <1>1, ListFacts
    <3> QED
      BY <1>1, <3>1, <3>2
  <2> QED
    BY <1>4, <1>5, <2>1 DEF Parted
<1> QED
  BY <1>8, <1>9, <1>11 DEF RegionSplit

LEMMA FreeInside ==
  ASSUME NEW mh \in Regions, NEW a, FreeIn(mh.first, a)
  PROVE  a \in Nat /\ mh.lower <= a /\ a < mh.upper
<1>1. mh.lower \in Nat /\ mh.upper \in Nat /\ mh.first \in ChunkList(mh.lower, mh.upper)
  BY RegionFacts
<1>2. PICK i \in 1 .. Len(mh.first) : a \in Of(mh.first[i])
  BY DEF FreeIn
<1>3. /\ mh.first[i].start \in Nat /\ End(mh.first[i]) \in Nat
      /\ mh.lower <= mh.first[i].start /\ End(mh.first[i]) <= mh.upper
      /\ Of(mh.first[i]) = mh.first[i].start .. End(mh.first[i]) - 1
  BY <1>1, ListFacts
<1> QED
  BY <1>1, <1>2, <1>3

-----------------------------------------------------------------------------
(* The list of regions.                                                    *)

\* Two regions share no address.
Below(mh, r) == mh.upper <= r.lower \/ r.upper <= mh.lower

Apart(list) == \A i, j \in 1 .. Len(list) : i # j => Below(list[i], list[j])

\* Address a is free in some region.
FreeAt(list, a) == \E i \in 1 .. Len(list) : FreeIn(list[i].first, a)

\* l2 is the list with other free chunks.
SameRegions(list, l2) ==
  /\ l2 \in Seq(Regions) /\ Len(l2) = Len(list)
  /\ \A i \in 1 .. Len(list) : SameRegion(list[i], l2[i])

LEMMA RegionsOf ==
  ASSUME NEW list \in Seq(Regions)
  PROVE  /\ Len(list) \in Nat /\ DOMAIN list = 1 .. Len(list)
         /\ \A i \in 1 .. Len(list) : list[i] \in Regions
BY LenProperties, ElementOfSeq

LEMMA SameApart ==
  ASSUME NEW list, NEW l2, SameRegions(list, l2), Apart(list)
  PROVE  Apart(l2)
BY DEF SameRegions, SameRegion, Apart, Below

LEMMA FreeOnce ==
  ASSUME NEW list \in Seq(Regions), Apart(list),
         NEW i \in 1 .. Len(list), NEW j \in 1 .. Len(list), i # j,
         NEW a, FreeIn(list[i].first, a)
  PROVE  ~(list[j].lower <= a /\ a < list[j].upper)
<1>1. list[i] \in Regions /\ list[j] \in Regions
  BY RegionsOf
<1>2. /\ list[i].lower \in Nat /\ list[i].upper \in Nat
      /\ list[j].lower \in Nat /\ list[j].upper \in Nat
  BY <1>1, RegionFacts
<1>3. a \in Nat /\ list[i].lower <= a /\ a < list[i].upper
  BY <1>1, FreeInside
<1>4. list[i].upper <= list[j].lower \/ list[j].upper <= list[i].lower
  BY DEF Apart, Below
<1> QED
  BY <1>2, <1>3, <1>4

\* One region of the list gets another free list.
Changed(list, n, mh, l2) ==
  /\ SameRegions(list, l2)
  /\ \A a : FreeAt(l2, a) <=> \/ FreeIn(mh.first, a)
                              \/ \E i \in 1 .. Len(list) : i # n /\ FreeIn(list[i].first, a)

LEMMA RegionChanged ==
  ASSUME NEW list \in Seq(Regions), NEW n \in 1 .. Len(list),
         NEW mh \in Regions, SameRegion(list[n], mh),
         NEW l2, l2 = [list EXCEPT ![n] = mh]
  PROVE  Changed(list, n, mh, l2)
<1>1. Len(list) \in Nat /\ DOMAIN list = 1 .. Len(list)
      /\ \A i \in 1 .. Len(list) : list[i] \in Regions
  BY RegionsOf
<1>2. l2 \in Seq(Regions) /\ Len(l2) = Len(list)
  BY ExceptSeq
<1>3. l2[n] = mh /\ \A i \in 1 .. Len(list) : i # n => l2[i] = list[i]
  BY <1>1
<1>4. \A i \in 1 .. Len(list) : SameRegion(list[i], l2[i])
  BY <1>3 DEF SameRegion
<1>5. \A a : FreeAt(l2, a) <=> \/ FreeIn(mh.first, a)
                               \/ \E i \in 1 .. Len(list) : i # n /\ FreeIn(list[i].first, a)
  BY <1>2, <1>3 DEF FreeAt
<1> QED
  BY <1>2, <1>4, <1>5 DEF Changed, SameRegions

\* What AllocMem gives: size addresses of one region, free before and not after.
Allocated(list, l2, at, size, a314) ==
  /\ SameRegions(list, l2)
  /\ at \in Nat
  /\ \A a \in Span(at, at + size) : FreeAt(list, a)
  /\ \A a : FreeAt(l2, a) <=> FreeAt(list, a) /\ a \notin Span(at, at + size)
  /\ \E i \in 1 .. Len(list) : /\ a314 => list[i].a314
                               /\ list[i].lower <= at /\ at + size <= list[i].upper

LEMMA Allocates ==
  ASSUME NEW list \in Seq(Regions), Apart(list), NEW size \in Nat \ {0},
         NEW a314 \in BOOLEAN,
         NEW got, got = AllocMem(list, size, a314)
  PROVE  IF got.at = NULL THEN got.list = list
         ELSE Allocated(list, got.list, got.at, size, a314)
<1> DEFINE fit == {n \in DOMAIN list : Fits(list[n], size, a314)}
           n == Min(fit)
           mh == list[n]
           s == mh.first
           big == {j \in DOMAIN s : s[j].bytes >= size}
           i == Min(big)
           c == s[i]
           rest == IF c.bytes = size THEN <<>>
                   ELSE <<[start |-> c.start + size, bytes |-> c.bytes - size]>>
           r == SubSeq(s, 1, i - 1) \o rest \o SubSeq(s, i + 1, Len(s))
           l2 == [list EXCEPT ![n].first = SubSeq(@, 1, i - 1) \o rest
                                             \o SubSeq(@, i + 1, Len(@)),
                              ![n].free = @ - size]
<1>1. CASE fit = {}
  <2>1. got = [list |-> list, at |-> NULL]
    BY <1>1 DEF AllocMem
  <2> QED
    BY <2>1
<1>2. CASE fit # {}
  <2>1. got = [at |-> c.start, list |-> l2]
    BY <1>2 DEF AllocMem
  <2>2. n \in 1 .. Len(list) /\ Fits(mh, size, a314)
    <3>1. fit \subseteq Nat /\ fit \subseteq 1 .. Len(list)
      BY RegionsOf
    <3>2. n \in fit
      <4> HIDE DEF fit
      <4> QED
        BY <1>2, <3>1, MinOfSet
    <3> QED
      BY <3>1, <3>2
  <2>3. mh \in Regions /\ SameRegion(mh, mh)
    BY <2>2, RegionsOf DEF SameRegion
  <2>4. /\ mh.lower \in Nat /\ mh.upper \in Nat /\ s \in ChunkList(mh.lower, mh.upper)
        /\ mh.free = Bytes(s) /\ mh \in RegionType
        /\ mh.lower < mh.upper /\ mh.upper <= Top
    BY <2>3, RegionFacts
  <2>5. i \in 1 .. Len(s) /\ c.bytes >= size
    <3>1. DOMAIN s = 1 .. Len(s) /\ Len(s) \in Nat
      BY <2>4, ListFacts
    <3>2. big \subseteq Nat /\ big # {}
      <4>1. big \subseteq 1 .. Len(s)
        BY <3>1
      <4>2. \E j \in DOMAIN s : s[j].bytes >= size
        <5> HIDE DEF mh
        <5> QED
          BY <2>2 DEF Fits
      <4>3. PICK j : j \in big
        BY <4>2
      <4>4. big \subseteq Nat
        <5> HIDE DEF big
        <5> QED
          BY <3>1, <4>1
      <4> HIDE DEF big
      <4> QED
        BY <4>3, <4>4
    <3>3. i \in big
      <4> HIDE DEF big
      <4> QED
        BY <3>2, MinOfSet
    <3> QED
      BY <3>1, <3>3
  <2> HIDE DEF fit, n, big, i
  <2>6. Taken(s, r, mh.lower, mh.upper, c.start, size)
    <3> HIDE DEF mh
    <3> QED
      BY <2>4, <2>5, ChunkTaken
  <2> DEFINE m2 == [mh EXCEPT !.first = r, !.free = Bytes(r)]
  <2>7. m2 \in Regions /\ SameRegion(mh, m2) /\ m2.first = r
    <3>1. r \in ChunkList(mh.lower, mh.upper) /\ r \in Seq(Chunk) /\ Bytes(r) \in Nat
      BY <2>6 DEF Taken, ChunkList
    <3> HIDE DEF r, mh
    <3>2. /\ m2 \in RegionType /\ m2.first = r /\ m2.free = Bytes(r) /\ m2.lower = mh.lower
          /\ m2.upper = mh.upper /\ m2.pri = mh.pri /\ m2.a314 = mh.a314
      BY <2>4, <3>1 DEF RegionType
    <3> HIDE DEF m2
    <3> QED
      BY <2>4, <3>1, <3>2 DEF Regions, SameRegion
  <2>8. l2 = [list EXCEPT ![n] = m2]
    <3>1. Bytes(r) = mh.free - size
      BY <2>4, <2>6 DEF Taken
    <3>2. l2 = [list EXCEPT ![n].first = r, ![n].free = mh.free - size]
      <4> HIDE DEF rest
      <4> QED
        BY <2>2, RegionsOf
    <3> HIDE DEF r, l2
    <3> QED
      BY <2>2, <3>1, <3>2, RegionsOf
  <2>9. Changed(list, n, m2, l2)
    <3> HIDE DEF m2, l2
    <3> QED
      BY <2>2, <2>7, <2>8, RegionChanged
  <2> HIDE DEF l2, r, m2, c
  <2>10. /\ \A a \in Span(c.start, c.start + size) : FreeIn(s, a)
         /\ \A a : FreeIn(r, a) <=> FreeIn(s, a) /\ a \notin Span(c.start, c.start + size)
         /\ c.start \in Nat /\ mh.lower <= c.start /\ c.start + size <= mh.upper
    BY <2>6 DEF Taken
  <2>11. \A a \in Span(c.start, c.start + size) : FreeAt(list, a)
    BY <2>2, <2>10 DEF FreeAt
  <2>12. ASSUME NEW a
         PROVE  FreeAt(l2, a) <=> FreeAt(list, a) /\ a \notin Span(c.start, c.start + size)
    <3>1. FreeAt(l2, a) <=> \/ FreeIn(r, a)
                            \/ \E j \in 1 .. Len(list) : j # n /\ FreeIn(list[j].first, a)
      BY <2>7, <2>9 DEF Changed
    <3>2. FreeAt(list, a) <=> \/ FreeIn(s, a)
                              \/ \E j \in 1 .. Len(list) : j # n /\ FreeIn(list[j].first, a)
      BY <2>2 DEF FreeAt
    <3>3. ASSUME NEW j \in 1 .. Len(list), j # n, FreeIn(list[j].first, a)
          PROVE  a \notin Span(c.start, c.start + size)
      <4>1. ~(mh.lower <= a /\ a < mh.upper)
        BY <2>2, <3>3, FreeOnce
      <4>2. \A b \in Span(c.start, c.start + size) : mh.lower <= b /\ b < mh.upper
        BY <2>4, <2>10 DEF Span
      <4> QED
        BY <4>1, <4>2
    <3> QED
      BY <2>10, <3>1, <3>2, <3>3
  <2>13. a314 => mh.a314
    BY <2>2 DEF Fits
  <2>14. Allocated(list, l2, c.start, size, a314)
    BY <2>2, <2>9, <2>10, <2>11, <2>12, <2>13 DEF Allocated, Changed
  <2>15. c.start # NULL
    BY <2>10 DEF NULL
  <2> QED
    BY <2>1, <2>14, <2>15
<1> QED
  BY <1>1, <1>2

\* q is the list without its n-th region.
WithoutRegion(list, n, q) ==
  /\ q \in Seq(Regions) /\ Len(q) + 1 = Len(list)
  /\ \A j \in 1 .. Len(q) : q[j] = list[IF j < n THEN j ELSE j + 1]

LEMMA RegionRemoved ==
  ASSUME NEW list \in Seq(Regions), NEW n \in 1 .. Len(list), NEW q, q = RemoveAt(list, n)
  PROVE  WithoutRegion(list, n, q)
<1> DEFINE z == Len(list)
           x == n - 1
           y == n + 1
           none == SubSeq(list, 1, 0)
<1>1. z \in Nat /\ n \in Nat /\ 1 <= n /\ n <= z
  BY RegionsOf
<1>2. x \in 0 .. z /\ y \in 1 .. z + 1 /\ x + 0 = x
  BY ONLY <1>1
<1>3. none = << >> /\ none \in Seq(Regions) /\ Len(none) = 0
  <2>1. none = << >>
    BY SubSeqOfNone
  <2> QED
    BY <2>1, EmptySeq
<1>4. q = SubSeq(list, 1, x) \o none \o SubSeq(list, y, z)
  <2>1. q = SubSeq(list, 1, x) \o SubSeq(list, y, z)
    BY DEF RemoveAt
  <2>2. \A j \in 1 .. x : list[j] \in Regions
    BY <1>1, RegionsOf
  <2>3. SubSeq(list, 1, x) \in Seq(Regions)
    BY <1>1, <2>2, SubSeqProperties
  <2>4. SubSeq(list, 1, x) \o none = SubSeq(list, 1, x)
    BY <1>3, <2>3, ConcatEmptySeq
  <2> QED
    BY <2>1, <2>4
<1>5. z = Len(list)
  OBVIOUS
<1> HIDE DEF z, x, y, none
<1>6. Spliced(Regions, list, none, x, y, q, x + Len(none))
  BY <1>2, <1>3, <1>4, <1>5, SpliceElements
<1>7. x + Len(none) = x /\ z - y + 1 = z - n /\ x = n - 1 /\ y = n + 1
  BY <1>1, <1>3 DEF x, y
<1>8. /\ q \in Seq(Regions) /\ Len(q) = x + (z - n)
      /\ \A j \in 1 .. x : q[j] = list[j]
      /\ \A j \in x + 1 .. x + (z - n) : q[j] = list[(j - x) + (y - 1)]
  BY <1>5, <1>6, <1>7 DEF Spliced
<1>9. Len(q) + 1 = z
  BY <1>1, <1>7, <1>8
<1>10. ASSUME NEW j \in 1 .. Len(q) PROVE q[j] = list[IF j < n THEN j ELSE j + 1]
  <2>1. CASE j < n
    <3>1. j \in 1 .. x
      BY <1>1, <1>7, <2>1
    <3> QED
      BY <1>8, <2>1, <3>1
  <2>2. CASE ~(j < n)
    <3>1. j \in x + 1 .. x + (z - n) /\ (j - x) + (y - 1) = j + 1
      BY <1>1, <1>7, <1>8, <2>2
    <3> QED
      BY <1>8, <2>2, <3>1
  <2> QED
    BY <2>1, <2>2
<1> QED
  BY <1>5, <1>8, <1>9, <1>10 DEF WithoutRegion

\* q is the list with mh as its n-th region.
WithRegion(list, n, mh, q) ==
  /\ q \in Seq(Regions) /\ Len(q) = Len(list) + 1
  /\ n \in 1 .. Len(list) + 1 /\ q[n] = mh
  /\ \A j \in 1 .. Len(list) : q[IF j < n THEN j ELSE j + 1] = list[j]

LEMMA RegionAdded ==
  ASSUME NEW list \in Seq(Regions), NEW mh \in Regions, NEW q, q = Enqueue(list, mh)
  PROVE  \E n \in Nat : WithRegion(list, n, mh, q)
<1> DEFINE z == Len(list)
           lower == {i \in DOMAIN list : list[i].pri < mh.pri}
           n == IF lower = {} THEN z + 1 ELSE Min(lower)
           x == n - 1
           mid == << mh >>
<1>1. z \in Nat /\ DOMAIN list = 1 .. z
  BY RegionsOf
<1>2. n \in Nat /\ 1 <= n /\ n <= z + 1
  <2>1. CASE lower = {}
    BY <1>1, <2>1
  <2>2. CASE lower # {}
    <3>1. lower \subseteq Nat /\ lower \subseteq 1 .. z
      BY <1>1
    <3>2. n = Min(lower)
      BY <2>2
    <3> HIDE DEF lower, n
    <3>3. n \in 1 .. z
      BY <2>2, <3>1, <3>2, MinOfSet
    <3> QED
      BY <1>1, <3>3
  <2> QED
    BY <2>1, <2>2
<1>3. q = SubSeq(list, 1, x) \o mid \o SubSeq(list, n, z)
  BY DEF Enqueue
<1>4. mid \in Seq(Regions) /\ Len(mid) = 1 /\ mid[1] = mh
  BY OneElement
<1>5. z = Len(list)
  OBVIOUS
<1> HIDE DEF z, lower, n, mid
<1>6. x \in 0 .. z /\ n \in 1 .. z + 1 /\ x = n - 1 /\ x + Len(mid) = n /\ z - n + 1 = (z + 1) - n
  BY <1>1, <1>2, <1>4
<1> HIDE DEF x
<1>7. Spliced(Regions, list, mid, x, n, q, n)
  BY <1>3, <1>4, <1>5, <1>6, SpliceElements
<1>8. /\ q \in Seq(Regions) /\ Len(q) = n + (z - n + 1)
      /\ \A j \in 1 .. x : q[j] = list[j]
      /\ \A j \in x + 1 .. n : q[j] = mid[j - x]
      /\ \A j \in n + 1 .. n + (z - n + 1) : q[j] = list[(j - n) + (n - 1)]
  BY <1>5, <1>7 DEF Spliced
<1>9. Len(q) = z + 1
  BY <1>1, <1>2, <1>8
<1>10. q[n] = mh
  <2>1. n \in x + 1 .. n /\ n - x = 1
    BY <1>2, <1>6
  <2> QED
    BY <1>4, <1>8, <2>1
<1>11. ASSUME NEW j \in 1 .. z PROVE q[IF j < n THEN j ELSE j + 1] = list[j]
  <2>1. CASE j < n
    <3>1. j \in 1 .. x
      BY <1>1, <1>2, <1>6, <2>1
    <3> QED
      BY <1>8, <2>1, <3>1
  <2>2. CASE ~(j < n)
    <3>1. j + 1 \in n + 1 .. n + (z - n + 1) /\ ((j + 1) - n) + (n - 1) = j
      BY <1>1, <1>2, <2>2
    <3> QED
      BY <1>8, <2>2, <3>1
  <2> QED
    BY <2>1, <2>2
<1>12. WithRegion(list, n, mh, q)
  BY <1>5, <1>6, <1>8, <1>9, <1>10, <1>11 DEF WithRegion
<1> QED
  BY <1>2, <1>12

-----------------------------------------------------------------------------
(* The memory as a whole: free addresses and blocks in use.                *)

Block == [start : Nat, bytes : Nat \ {0}, a314 : BOOLEAN]

FreeSet(list) == {a \in 0 .. Top - 1 : FreeAt(list, a)}

FreeOf(mh) == {a \in 0 .. Top - 1 : FreeIn(mh.first, a)}

\* Every address is free, or in one block.
Conserved(free, bs) ==
  /\ bs \subseteq Block /\ free \subseteq 0 .. Top - 1
  /\ \A b \in bs : b.start + b.bytes <= Top
  /\ \A b, c \in bs : b # c => Of(b) \cap Of(c) = {}
  /\ \A a \in 0 .. Top - 1 : a \in free <=> \A b \in bs : a \notin Of(b)

LEMMA BlockFacts ==
  ASSUME NEW b \in Block
  PROVE  /\ b.start \in Nat /\ b.bytes \in Nat \ {0} /\ b.a314 \in BOOLEAN
         /\ b.start + b.bytes \in Nat /\ b.start < b.start + b.bytes
         /\ Of(b) = b.start .. b.start + b.bytes - 1
         /\ Of(b) = Span(b.start, b.start + b.bytes)
         /\ b.start \in Of(b)
<1>1. /\ b.start \in Nat /\ b.bytes \in Nat \ {0} /\ b.a314 \in BOOLEAN
  BY DEF Block
<1> QED
  BY <1>1 DEF Of, Span

LEMMA TakeBlock ==
  ASSUME NEW free, NEW bs, Conserved(free, bs), NEW b \in Block, Of(b) \subseteq free,
         NEW f2, f2 = free \ Of(b)
  PROVE  Conserved(f2, bs \cup {b})
<1>1. Top \in Nat
  BY MemoryAssumption
<1>2. b.start + b.bytes <= Top
  <2>1. b.start + b.bytes - 1 \in Of(b)
    BY BlockFacts
  <2>2. b.start + b.bytes - 1 \in 0 .. Top - 1
    BY <2>1 DEF Conserved
  <2> QED
    BY <1>1, <2>2, BlockFacts
<1>3. \A c \in bs : Of(b) \cap Of(c) = {}
  BY DEF Conserved
<1>4. ASSUME NEW a \in 0 .. Top - 1
      PROVE  a \in f2 <=> \A c \in bs \cup {b} : a \notin Of(c)
  BY DEF Conserved
<1>5. /\ bs \cup {b} \subseteq Block /\ f2 \subseteq 0 .. Top - 1
      /\ \A c \in bs \cup {b} : c.start + c.bytes <= Top
  BY <1>2 DEF Conserved
<1>6. \A c, d \in bs \cup {b} : c # d => Of(c) \cap Of(d) = {}
  BY <1>3 DEF Conserved
<1> QED
  BY <1>4, <1>5, <1>6 DEF Conserved

LEMMA GiveBack ==
  ASSUME NEW free, NEW bs, Conserved(free, bs), NEW b \in bs,
         NEW f2, f2 = free \cup Of(b)
  PROVE  Conserved(f2, bs \ {b})
<1>1. b \in Block /\ b.start + b.bytes <= Top /\ Top \in Nat
  BY MemoryAssumption DEF Conserved
<1>2. Of(b) \subseteq 0 .. Top - 1
  BY SMTT(30), <1>1, BlockFacts
<1>3. ASSUME NEW a \in 0 .. Top - 1
      PROVE  a \in f2 <=> \A c \in bs \ {b} : a \notin Of(c)
  BY DEF Conserved
<1>4. /\ bs \ {b} \subseteq Block /\ f2 \subseteq 0 .. Top - 1
      /\ \A c \in bs \ {b} : c.start + c.bytes <= Top
      /\ \A c, d \in bs \ {b} : c # d => Of(c) \cap Of(d) = {}
  BY <1>2 DEF Conserved
<1> QED
  BY <1>3, <1>4 DEF Conserved

\* The list and the blocks, and with a region that is off the list.
Layout(list, bs) ==
  /\ list \in Seq(Regions) /\ Apart(list)
  /\ Conserved(FreeSet(list), bs)

LayoutWith(list, mh, bs) ==
  /\ list \in Seq(Regions) /\ Apart(list) /\ mh \in Regions
  /\ \A i \in 1 .. Len(list) : Below(list[i], mh)
  /\ Conserved(FreeSet(list) \cup FreeOf(mh), bs)

\* MEMF_A314 is on the region exactly when it is shared.
Placed(mh, from, to) ==
  IF mh.a314 THEN from <= mh.lower /\ mh.upper <= to
  ELSE mh.upper <= from \/ to <= mh.lower

AllPlaced(list, from, to) == \A i \in 1 .. Len(list) : Placed(list[i], from, to)

\* q is the list when its n-th region is off it.
TakenOff(list, n, q) ==
  /\ q \in Seq(Regions) /\ Apart(q)
  /\ \A j \in 1 .. Len(q) : Below(q[j], list[n])
  /\ FreeSet(list) = FreeSet(q) \cup FreeOf(list[n])
  /\ \A j \in 1 .. Len(q) : \E i \in 1 .. Len(list) : i # n /\ q[j] = list[i]
  /\ \A i \in 1 .. Len(list) : i # n => \E j \in 1 .. Len(q) : q[j] = list[i]

LEMMA TakeOffList ==
  ASSUME NEW list \in Seq(Regions), Apart(list), NEW n \in 1 .. Len(list),
         NEW q, q = RemoveAt(list, n)
  PROVE  TakenOff(list, n, q)
<1> DEFINE at == [j \in 1 .. Len(q) |-> IF j < n THEN j ELSE j + 1]
<1>2. WithoutRegion(list, n, q)
  BY RegionRemoved
<1>3. /\ q \in Seq(Regions) /\ Len(q) + 1 = Len(list) /\ Len(q) \in Nat /\ Len(list) \in Nat
      /\ list[n] \in Regions /\ n \in Nat
  BY <1>2, RegionsOf DEF WithoutRegion
<1>4. /\ \A j \in 1 .. Len(q) : at[j] \in 1 .. Len(list) /\ at[j] # n
      /\ \A i, j \in 1 .. Len(q) : i # j => at[i] # at[j]
  BY <1>3
<1>5. \A j \in 1 .. Len(q) : q[j] = list[at[j]]
  BY <1>2 DEF WithoutRegion
<1>6. ASSUME NEW i \in 1 .. Len(list), i # n PROVE \E j \in 1 .. Len(q) : at[j] = i
  <2>1. CASE i < n
    <3>1. i \in 1 .. Len(q) /\ at[i] = i
      BY <1>3, <2>1
    <3> QED
      BY <3>1
  <2>2. CASE ~(i < n)
    <3>1. i - 1 \in 1 .. Len(q) /\ ~(i - 1 < n) /\ (i - 1) + 1 = i
      BY <1>3, <1>6, <2>2
    <3>2. at[i - 1] = i
      BY <3>1
    <3> QED
      BY <3>1, <3>2
  <2> QED
    BY <2>1, <2>2
<1> HIDE DEF at
<1>7. Apart(q) /\ \A j \in 1 .. Len(q) : Below(q[j], list[n])
  <2>1. ASSUME NEW i \in 1 .. Len(q), NEW j \in 1 .. Len(q), i # j PROVE Below(q[i], q[j])
    <3>1. Below(list[at[i]], list[at[j]])
      BY <1>4, <2>1 DEF Apart
    <3> QED
      BY <1>5, <3>1
  <2>2. ASSUME NEW j \in 1 .. Len(q) PROVE Below(q[j], list[n])
    <3>1. Below(list[at[j]], list[n])
      BY <1>4 DEF Apart
    <3> QED
      BY <1>5, <3>1
  <2> QED
    BY <2>1, <2>2 DEF Apart
<1>8. FreeSet(list) = FreeSet(q) \cup FreeOf(list[n])
  <2>1. ASSUME NEW a
        PROVE  FreeAt(list, a) <=> FreeAt(q, a) \/ FreeIn(list[n].first, a)
    <3>1. ASSUME FreeAt(list, a) PROVE FreeAt(q, a) \/ FreeIn(list[n].first, a)
      BY <1>5, <1>6, <3>1 DEF FreeAt
    <3>2. ASSUME FreeAt(q, a) PROVE FreeAt(list, a)
      BY <1>4, <1>5, <3>2 DEF FreeAt
    <3>3. ASSUME FreeIn(list[n].first, a) PROVE FreeAt(list, a)
      BY <3>3 DEF FreeAt
    <3> QED
      BY <3>1, <3>2, <3>3
  <2> QED
    BY <2>1 DEF FreeSet, FreeOf
<1>9. /\ \A j \in 1 .. Len(q) : \E i \in 1 .. Len(list) : i # n /\ q[j] = list[i]
      /\ \A i \in 1 .. Len(list) : i # n => \E j \in 1 .. Len(q) : q[j] = list[i]
  BY <1>4, <1>5, <1>6
<1> QED
  BY <1>3, <1>7, <1>8, <1>9 DEF TakenOff

\* q is the list when mh is on it.
PutOn(list, mh, q) ==
  /\ q \in Seq(Regions) /\ Apart(q)
  /\ FreeSet(q) = FreeSet(list) \cup FreeOf(mh)
  /\ \A j \in 1 .. Len(q) : q[j] = mh \/ \E i \in 1 .. Len(list) : q[j] = list[i]
  /\ \A i \in 1 .. Len(list) : \E j \in 1 .. Len(q) : q[j] = list[i]
  /\ \E j \in 1 .. Len(q) : q[j] = mh

LEMMA PutOnList ==
  ASSUME NEW list \in Seq(Regions), Apart(list), NEW mh \in Regions,
         \A i \in 1 .. Len(list) : Below(list[i], mh),
         NEW q, q = Enqueue(list, mh)
  PROVE  PutOn(list, mh, q)
<1>1. /\ list \in Seq(Regions) /\ Apart(list) /\ mh \in Regions
      /\ \A i \in 1 .. Len(list) : Below(list[i], mh)
  OBVIOUS
<1>2. PICK n \in Nat : WithRegion(list, n, mh, q)
  BY <1>1, RegionAdded
<1> DEFINE at == [j \in 1 .. Len(list) |-> IF j < n THEN j ELSE j + 1]
<1>3. /\ q \in Seq(Regions) /\ Len(q) = Len(list) + 1 /\ Len(q) \in Nat /\ Len(list) \in Nat
      /\ n \in 1 .. Len(q) /\ q[n] = mh
  BY <1>1, <1>2, RegionsOf DEF WithRegion
<1>4. \A j \in 1 .. Len(list) : at[j] \in 1 .. Len(q) /\ at[j] # n
  BY <1>3
<1>5. \A j \in 1 .. Len(list) : q[at[j]] = list[j]
  BY <1>2 DEF WithRegion
<1>6. ASSUME NEW i \in 1 .. Len(q), i # n PROVE \E j \in 1 .. Len(list) : at[j] = i
  <2>1. CASE i < n
    <3>1. i \in 1 .. Len(list) /\ at[i] = i
      BY <1>3, <2>1
    <3> QED
      BY <3>1
  <2>2. CASE ~(i < n)
    <3>1. i - 1 \in 1 .. Len(list) /\ ~(i - 1 < n) /\ (i - 1) + 1 = i
      BY <1>3, <1>6, <2>2
    <3>2. at[i - 1] = i
      BY <3>1
    <3> QED
      BY <3>1, <3>2
  <2> QED
    BY <2>1, <2>2
<1> HIDE DEF at
<1>7. Apart(q)
  <2> SUFFICES ASSUME NEW i \in 1 .. Len(q), NEW j \in 1 .. Len(q), i # j
               PROVE  Below(q[i], q[j])
    BY DEF Apart
  <2>1. CASE i = n
    <3>1. PICK k \in 1 .. Len(list) : at[k] = j
      BY <1>6, <2>1
    <3>2. Below(list[k], mh) /\ q[j] = list[k]
      BY <1>1, <1>5, <3>1
    <3> QED
      BY <1>3, <2>1, <3>2 DEF Below
  <2>2. CASE j = n
    <3>1. PICK k \in 1 .. Len(list) : at[k] = i
      BY <1>6, <2>2
    <3>2. Below(list[k], mh) /\ q[i] = list[k]
      BY <1>1, <1>5, <3>1
    <3> QED
      BY <1>3, <2>2, <3>2
  <2>3. CASE i # n /\ j # n
    <3>1. PICK k \in 1 .. Len(list) : at[k] = i
      BY <1>6, <2>3
    <3>2. PICK m \in 1 .. Len(list) : at[m] = j
      BY <1>6, <2>3
    <3>3. Below(list[k], list[m]) /\ q[i] = list[k] /\ q[j] = list[m]
      BY <1>1, <1>5, <3>1, <3>2 DEF Apart
    <3> QED
      BY <3>3
  <2> QED
    BY <2>1, <2>2, <2>3
<1>8. FreeSet(q) = FreeSet(list) \cup FreeOf(mh)
  <2>1. ASSUME NEW a
        PROVE  FreeAt(q, a) <=> FreeAt(list, a) \/ FreeIn(mh.first, a)
    <3>1. ASSUME FreeAt(q, a) PROVE FreeAt(list, a) \/ FreeIn(mh.first, a)
      <4>1. PICK i \in 1 .. Len(q) : FreeIn(q[i].first, a)
        BY <3>1 DEF FreeAt
      <4>2. CASE i = n
        BY <1>3, <4>1, <4>2
      <4>3. CASE i # n
        BY <1>5, <1>6, <4>1, <4>3 DEF FreeAt
      <4> QED
        BY <4>2, <4>3
    <3>2. ASSUME FreeAt(list, a) PROVE FreeAt(q, a)
      <4>1. PICK k \in 1 .. Len(list) : FreeIn(list[k].first, a)
        BY <3>2 DEF FreeAt
      <4> QED
        BY <1>4, <1>5, <4>1 DEF FreeAt
    <3>3. ASSUME FreeIn(mh.first, a) PROVE FreeAt(q, a)
      BY <1>3, <3>3 DEF FreeAt
    <3> QED
      BY <3>1, <3>2, <3>3
  <2> QED
    BY <2>1 DEF FreeSet, FreeOf
<1>10. \A j \in 1 .. Len(q) : q[j] = mh \/ \E i \in 1 .. Len(list) : q[j] = list[i]
  <2>1. ASSUME NEW j \in 1 .. Len(q), j # n PROVE \E i \in 1 .. Len(list) : q[j] = list[i]
    <3>1. PICK i \in 1 .. Len(list) : at[i] = j
      BY <1>6, <2>1
    <3> QED
      BY <1>5, <3>1
  <2> QED
    BY <1>3, <2>1
<1>11. /\ \A i \in 1 .. Len(list) : \E j \in 1 .. Len(q) : q[j] = list[i]
       /\ \E j \in 1 .. Len(q) : q[j] = mh
  BY <1>3, <1>4, <1>5
<1> QED
  BY <1>3, <1>7, <1>8, <1>10, <1>11 DEF PutOn

-----------------------------------------------------------------------------
(* Marking the shared memory.                                              *)

MarkState == [list : Seq(Regions), blocks : SUBSET Block, wild : BOOLEAN,
              mh : Regions \cup {NULL}]

\* Marking allocates headers only, never memory with MEMF_A314.
Grown(bs, b2) == \A b \in b2 : b \in bs \/ (b \in Block /\ ~b.a314)

\* The header is taken from the list; x is what is free elsewhere.
HeaderTaken(s, t, x) ==
  /\ t \in MarkState /\ t.mh = s.mh /\ SameRegions(s.list, t.list)
  /\ Conserved(FreeSet(t.list) \cup x, t.blocks) /\ Grown(s.blocks, t.blocks)

LEMMA FreeDisjoint ==
  ASSUME NEW list \in Seq(Regions), NEW mh \in Regions,
         \A i \in 1 .. Len(list) : Below(list[i], mh)
  PROVE  FreeOf(mh) \cap FreeSet(list) = {}
<1> SUFFICES ASSUME NEW a, FreeIn(mh.first, a), FreeAt(list, a) PROVE FALSE
  BY DEF FreeOf, FreeSet
<1>1. PICK i \in 1 .. Len(list) : FreeIn(list[i].first, a)
  BY DEF FreeAt
<1>2. list[i] \in Regions
  BY RegionsOf
<1>3. a \in Nat /\ mh.lower <= a /\ a < mh.upper /\ list[i].lower <= a /\ a < list[i].upper
  BY <1>1, <1>2, FreeInside
<1>4. /\ mh.lower \in Nat /\ mh.upper \in Nat
      /\ list[i].lower \in Nat /\ list[i].upper \in Nat
  BY <1>2, RegionFacts
<1>5. list[i].upper <= mh.lower \/ mh.upper <= list[i].lower
  BY DEF Below
<1> QED
  BY <1>3, <1>4, <1>5

\* The addresses a task is given become a block of its own.
BlockTaken(b, l2, at, size, a314, x, bs) ==
  /\ b \in Block /\ b.start = at /\ b.bytes = size /\ b.a314 = a314
  /\ Conserved(FreeSet(l2) \cup x, bs \cup {b})

LEMMA AllocatedIsTaken ==
  ASSUME NEW list \in Seq(Regions), NEW l2, NEW at, NEW size \in Nat \ {0},
         NEW a314 \in BOOLEAN, Allocated(list, l2, at, size, a314),
         NEW x, x \cap FreeSet(list) = {}, NEW bs, Conserved(FreeSet(list) \cup x, bs),
         NEW b, b = [start |-> at, bytes |-> size, a314 |-> a314]
  PROVE  BlockTaken(b, l2, at, size, a314, x, bs)
<1>1. b.start = at /\ b.bytes = size /\ b.a314 = a314 /\ b \in Block
  BY DEF Block, Allocated
<1>2. Of(b) = Span(at, at + size)
  BY <1>1 DEF Of
<1>3. /\ \A a \in Of(b) : FreeAt(list, a)
      /\ \A a : FreeAt(l2, a) <=> FreeAt(list, a) /\ a \notin Of(b)
  BY <1>2 DEF Allocated
<1>4. \A a : FreeAt(list, a) => a \in 0 .. Top - 1
  <2>1. ASSUME NEW i \in 1 .. Len(list), NEW a, FreeIn(list[i].first, a)
        PROVE  a \in 0 .. Top - 1
    <3>1. list[i] \in Regions /\ Top \in Nat
      BY RegionsOf, MemoryAssumption
    <3>2. a \in Nat /\ a < list[i].upper /\ list[i].upper <= Top /\ list[i].upper \in Nat
      BY <2>1, <3>1, FreeInside, RegionFacts
    <3> QED
      BY <3>1, <3>2
  <2> QED
    BY <2>1 DEF FreeAt
<1>5. Of(b) \subseteq FreeSet(list)
  BY <1>3, <1>4 DEF FreeSet
<1>6. FreeSet(l2) = FreeSet(list) \ Of(b)
  BY <1>3 DEF FreeSet
<1>7. FreeSet(l2) \cup x = (FreeSet(list) \cup x) \ Of(b)
  BY <1>5, <1>6
<1>8. Of(b) \subseteq FreeSet(list) \cup x
  BY <1>5
<1>9. Conserved(FreeSet(l2) \cup x, bs \cup {b})
  BY <1>1, <1>7, <1>8, TakeBlock
<1> QED
  BY <1>1, <1>9 DEF BlockTaken

LEMMA SplitTakesHeader ==
  ASSUME NEW s \in MarkState, Apart(s.list), NEW x, x \cap FreeSet(s.list) = {},
         Conserved(FreeSet(s.list) \cup x, s.blocks),
         NEW at, NEW t, t = Split(s, at)
  PROVE  HeaderTaken(s, t, x)
<1> DEFINE list == s.list
           got == AllocMem(list, HeaderSize, FALSE)
           b == [start |-> got.at, bytes |-> HeaderSize, a314 |-> FALSE]
           bs == IF got.at = NULL THEN s.blocks ELSE s.blocks \cup {b}
           w == s.wild \/ got.at = NULL
<1>1. /\ s.list \in Seq(Regions) /\ s.blocks \subseteq Block /\ s.wild \in BOOLEAN
      /\ s.mh \in Regions \cup {NULL} /\ HeaderSize \in Nat \ {0} /\ Top \in Nat
  BY MemoryAssumption DEF MarkState
<1>2. t = [s EXCEPT !.list = got.list, !.blocks = bs, !.wild = w]
  BY DEF Split
<1>3. IF got.at = NULL THEN got.list = list
      ELSE Allocated(list, got.list, got.at, HeaderSize, FALSE)
  <2>1. FALSE \in BOOLEAN
    OBVIOUS
  <2> QED
    BY <1>1, <2>1, Allocates
<1> HIDE DEF got
<1>4. /\ SameRegions(list, got.list) /\ bs \subseteq Block
      /\ Conserved(FreeSet(got.list) \cup x, bs) /\ Grown(s.blocks, bs)
  <2>1. CASE got.at = NULL
    <3>1. got.list = list /\ bs = s.blocks
      BY <1>3, <2>1
    <3> QED
      BY <1>1, <3>1 DEF SameRegions, SameRegion, Grown
  <2>2. CASE got.at # NULL
    <3>1. Allocated(list, got.list, got.at, HeaderSize, FALSE) /\ bs = s.blocks \cup {b}
      BY <1>3, <2>2
    <3>2. b \in Block /\ b.a314 = FALSE /\ Conserved(FreeSet(got.list) \cup x, s.blocks \cup {b})
      <4>1. FALSE \in BOOLEAN
        OBVIOUS
      <4>2. b = [start |-> got.at, bytes |-> HeaderSize, a314 |-> FALSE]
        OBVIOUS
      <4> HIDE DEF b, list
      <4>3. list \in Seq(Regions) /\ x \cap FreeSet(list) = {}
            /\ Conserved(FreeSet(list) \cup x, s.blocks)
        BY <1>1 DEF list
      <4>4. BlockTaken(b, got.list, got.at, HeaderSize, FALSE, x, s.blocks)
        BY <1>1, <3>1, <4>1, <4>2, <4>3, AllocatedIsTaken
      <4> QED
        BY <4>4 DEF BlockTaken
    <3> HIDE DEF b
    <3>10. bs \subseteq Block
      BY <1>1, <3>1, <3>2
    <3>11. Grown(s.blocks, bs)
      BY <3>1, <3>2 DEF Grown
    <3> QED
      BY <3>1, <3>2, <3>10, <3>11 DEF Allocated
  <2> QED
    BY <2>1, <2>2
<1>5. w \in BOOLEAN /\ got.list \in Seq(Regions)
  BY <1>4 DEF SameRegions
<1> HIDE DEF bs, w
<1>6. t \in MarkState /\ t.mh = s.mh /\ t.list = got.list /\ t.blocks = bs
  BY <1>2, <1>4, <1>5 DEF MarkState
<1> QED
  BY <1>4, <1>6 DEF HeaderTaken

\* Region n of the list is cut at "at": its lower part stays, the upper is off.
CutAt(list, n, upper, l2) ==
  /\ l2 \in Seq(Regions) /\ Apart(l2)
  /\ \A j \in 1 .. Len(l2) : Below(l2[j], upper)
  /\ FreeSet(list) = FreeSet(l2) \cup FreeOf(upper)
  /\ Len(l2) = Len(list) /\ \A j \in 1 .. Len(list) : j # n => l2[j] = list[j]

LEMMA CutOffUpper ==
  ASSUME NEW list \in Seq(Regions), Apart(list), NEW n \in 1 .. Len(list),
         NEW low \in Regions, NEW upper \in Regions,
         low.lower = list[n].lower, low.upper = upper.lower, upper.upper = list[n].upper,
         \A a : FreeIn(list[n].first, a) <=> FreeIn(low.first, a) \/ FreeIn(upper.first, a),
         NEW l2, l2 = [list EXCEPT ![n] = low]
  PROVE  CutAt(list, n, upper, l2)
<1>1. /\ l2 \in Seq(Regions) /\ Len(l2) = Len(list) /\ l2[n] = low
      /\ \A j \in 1 .. Len(list) : j # n => l2[j] = list[j]
  <2>1. l2 \in Seq(Regions) /\ Len(l2) = Len(list)
    BY ExceptSeq
  <2> QED
    BY <2>1, RegionsOf
<1>2. \A j \in 1 .. Len(list) : list[j].lower \in Nat /\ list[j].upper \in Nat
  BY RegionsOf, RegionFacts
<1>3. /\ low.lower \in Nat /\ low.upper \in Nat /\ low.lower < low.upper
      /\ upper.lower \in Nat /\ upper.upper \in Nat /\ upper.lower < upper.upper
  BY RegionFacts
<1>4. \A j \in 1 .. Len(list) : j # n => Below(list[j], list[n]) /\ Below(list[n], list[j])
  BY DEF Apart
<1>5. ASSUME NEW j \in 1 .. Len(list), j # n
      PROVE  Below(list[j], low) /\ Below(low, list[j]) /\ Below(list[j], upper)
  <2>1. list[j].upper <= list[n].lower \/ list[n].upper <= list[j].lower
    BY <1>4, <1>5 DEF Below
  <2>2. /\ list[j].lower \in Nat /\ list[j].upper \in Nat
        /\ list[n].lower \in Nat /\ list[n].upper \in Nat
    BY <1>2
  <2> QED
    BY <1>3, <2>1, <2>2 DEF Below
<1>6. Below(low, upper)
  BY <1>3 DEF Below
<1>7. Apart(l2)
  <2> SUFFICES ASSUME NEW i \in 1 .. Len(list), NEW j \in 1 .. Len(list), i # j
               PROVE  Below(l2[i], l2[j])
    BY <1>1 DEF Apart
  <2>1. CASE i = n
    BY <1>1, <1>5, <2>1
  <2>2. CASE j = n
    BY <1>1, <1>5, <2>2
  <2>3. CASE i # n /\ j # n
    BY <1>1, <2>3 DEF Apart
  <2> QED
    BY <2>1, <2>2, <2>3
<1>8. \A j \in 1 .. Len(l2) : Below(l2[j], upper)
  BY <1>1, <1>5, <1>6
<1>9. FreeSet(list) = FreeSet(l2) \cup FreeOf(upper)
  <2>1. ASSUME NEW a
        PROVE  FreeAt(list, a) <=> FreeAt(l2, a) \/ FreeIn(upper.first, a)
    <3>1. ASSUME FreeAt(list, a) PROVE FreeAt(l2, a) \/ FreeIn(upper.first, a)
      <4>1. PICK i \in 1 .. Len(list) : FreeIn(list[i].first, a)
        BY <3>1 DEF FreeAt
      <4>2. CASE i = n
        BY <1>1, <4>1, <4>2 DEF FreeAt
      <4>3. CASE i # n
        BY <1>1, <4>1, <4>3 DEF FreeAt
      <4> QED
        BY <4>2, <4>3
    <3>2. ASSUME FreeAt(l2, a) PROVE FreeAt(list, a)
      <4>1. PICK i \in 1 .. Len(list) : FreeIn(l2[i].first, a)
        BY <1>1, <3>2 DEF FreeAt
      <4>2. CASE i = n
        BY <1>1, <4>1, <4>2 DEF FreeAt
      <4>3. CASE i # n
        BY <1>1, <4>1, <4>3 DEF FreeAt
      <4> QED
        BY <4>2, <4>3
    <3>3. ASSUME FreeIn(upper.first, a) PROVE FreeAt(list, a)
      BY <3>3 DEF FreeAt
    <3> QED
      BY <3>1, <3>2, <3>3
  <2> QED
    BY <2>1 DEF FreeSet, FreeOf
<1> QED
  BY <1>1, <1>7, <1>8, <1>9 DEF CutAt

\* What CutBelow leaves: mh starts in the shared memory, the rest is placed.
BelowCut(s, u, from, to) ==
  /\ u \in MarkState
  /\ LayoutWith(u.list, u.mh, u.blocks) /\ AllPlaced(u.list, from, to)
  /\ from <= u.mh.lower /\ u.mh.lower < to
  /\ Grown(s.blocks, u.blocks)

LEMMA CutsBelow ==
  ASSUME NEW s \in MarkState, Layout(s.list, s.blocks), NEW n \in 1 .. Len(s.list),
         NEW from \in Nat, NEW to \in Nat, from < to,
         overlap(s.list[n], from, to),
         \A j \in 1 .. Len(s.list) : j # n => Placed(s.list[j], from, to),
         NEW u, u = CutBelow(s, n, from)
  PROVE  BelowCut(s, u, from, to)
<1>1. /\ s.list \in Seq(Regions) /\ Apart(s.list) /\ Conserved(FreeSet(s.list), s.blocks)
      /\ s.blocks \subseteq Block /\ s.wild \in BOOLEAN /\ s.mh \in Regions \cup {NULL}
  BY DEF Layout, MarkState
<1>2. /\ s.list[n] \in Regions
      /\ s.list[n].lower \in Nat /\ s.list[n].upper \in Nat
      /\ from < s.list[n].upper /\ s.list[n].lower < to
  BY <1>1, RegionsOf, RegionFacts DEF overlap
<1>3. CASE s.list[n].lower < from
  <2> DEFINE t == Split(s, from)
             r == [t.list[n] EXCEPT !.a314 = FALSE]
             cut == split_region(r, from)
  <2>1. u = [t EXCEPT !.mh = cut.upper, !.list[n] = cut.lower]
    BY <1>3 DEF CutBelow
  <2>2. HeaderTaken(s, t, {})
    <3>1. {} \cap FreeSet(s.list) = {} /\ FreeSet(s.list) \cup {} = FreeSet(s.list)
      OBVIOUS
    <3>2. Conserved(FreeSet(s.list) \cup {}, s.blocks)
      BY <1>1, <3>1
    <3> HIDE DEF t
    <3>3. t = Split(s, from)
      BY DEF t
    <3> QED
      BY <1>1, <3>1, <3>2, <3>3, SplitTakesHeader
  <2> HIDE DEF t
  <2>3. /\ t \in MarkState /\ t.list \in Seq(Regions) /\ Len(t.list) = Len(s.list)
        /\ Conserved(FreeSet(t.list), t.blocks) /\ Grown(s.blocks, t.blocks)
        /\ \A i \in 1 .. Len(s.list) : SameRegion(s.list[i], t.list[i])
        /\ Apart(t.list)
    <3>1. FreeSet(t.list) \cup {} = FreeSet(t.list)
      OBVIOUS
    <3>2. SameRegions(s.list, t.list) /\ Conserved(FreeSet(t.list) \cup {}, t.blocks)
      BY <2>2 DEF HeaderTaken
    <3> QED
      BY <1>1, <2>2, <3>1, <3>2, SameApart DEF HeaderTaken, SameRegions
  <2>4. /\ r \in Regions /\ r.a314 = FALSE /\ r.lower = s.list[n].lower
        /\ r.upper = s.list[n].upper /\ r.first = t.list[n].first
    <3>1. t.list[n] \in Regions /\ SameRegion(s.list[n], t.list[n])
      BY <2>3, RegionsOf
    <3> DEFINE m == t.list[n]
    <3> HIDE DEF m
    <3>2. m \in Regions /\ m \in RegionType /\ m.lower = s.list[n].lower
          /\ m.upper = s.list[n].upper /\ m.lower < m.upper /\ m.upper <= Top
          /\ m.first \in ChunkList(m.lower, m.upper) /\ m.free = Bytes(m.first)
      BY <3>1, RegionFacts DEF m, SameRegion
    <3> DEFINE e == [m EXCEPT !.a314 = FALSE]
    <3>3. /\ e \in RegionType /\ e.a314 = FALSE /\ e.lower = m.lower /\ e.upper = m.upper
          /\ e.first = m.first /\ e.free = m.free
      BY <3>2 DEF RegionType
    <3>4. e = r
      BY DEF m
    <3> HIDE DEF e, r
    <3>5. e \in Regions
      BY <3>2, <3>3 DEF Regions
    <3> QED
      BY <3>2, <3>3, <3>4, <3>5 DEF m
  <2> HIDE DEF r
  <2>5. /\ cut.lower \in Regions /\ cut.upper \in Regions
        /\ cut.lower.lower = r.lower /\ cut.lower.upper = from
        /\ cut.upper.lower = from /\ cut.upper.upper = r.upper
        /\ cut.lower.a314 = FALSE
        /\ \A a : FreeIn(r.first, a) <=> FreeIn(cut.lower.first, a) \/ FreeIn(cut.upper.first, a)
    <3>1. RegionSplit(r, from, cut)
      BY <1>2, <1>3, <2>4, SplitRegion
    <3> QED
      BY <2>4, <3>1 DEF RegionSplit
  <2> HIDE DEF cut
  <2> DEFINE l2 == [t.list EXCEPT ![n] = cut.lower]
  <2>6. CutAt(t.list, n, cut.upper, l2)
    <3>1. n \in 1 .. Len(t.list)
      BY <2>3
    <3>2. r.lower = t.list[n].lower /\ r.upper = t.list[n].upper
      BY <2>3, <2>4 DEF SameRegion
    <3>3. \A a : FreeIn(t.list[n].first, a)
                   <=> FreeIn(cut.lower.first, a) \/ FreeIn(cut.upper.first, a)
      BY <2>4, <2>5
    <3>4. l2 = [t.list EXCEPT ![n] = cut.lower]
      OBVIOUS
    <3> HIDE DEF l2
    <3> QED
      BY <2>3, <2>5, <3>1, <3>2, <3>3, <3>4, CutOffUpper
  <2>7. u \in MarkState /\ u.list = l2 /\ u.mh = cut.upper /\ u.blocks = t.blocks
    <3>1. l2 \in Seq(Regions)
      BY <2>6 DEF CutAt
    <3>2. u = [t EXCEPT !.mh = cut.upper, !.list = l2]
      BY <2>1, <2>3 DEF MarkState
    <3> HIDE DEF l2
    <3> QED
      BY <2>3, <2>5, <3>1, <3>2 DEF MarkState
  <2>8. LayoutWith(u.list, u.mh, u.blocks)
    BY <2>3, <2>5, <2>6, <2>7 DEF LayoutWith, CutAt
  <2>9. AllPlaced(u.list, from, to)
    <3>1. ASSUME NEW j \in 1 .. Len(l2) PROVE Placed(l2[j], from, to)
      <4>1. j \in 1 .. Len(s.list) /\ n \in 1 .. Len(t.list) /\ DOMAIN t.list = 1 .. Len(t.list)
        BY <2>3, <2>6, RegionsOf DEF CutAt
      <4>2. CASE j = n
        <5>1. l2[j] = cut.lower
          BY <4>1, <4>2
        <5>2. cut.lower.upper <= from
          BY <2>5
        <5> QED
          BY <2>5, <5>1, <5>2 DEF Placed
      <4>3. CASE j # n
        <5>1. l2[j] = t.list[j] /\ SameRegion(s.list[j], t.list[j])
              /\ Placed(s.list[j], from, to)
          BY <2>3, <2>6, <4>1, <4>3 DEF CutAt
        <5> HIDE DEF l2
        <5> QED
          BY <5>1 DEF Placed, SameRegion
      <4> QED
        BY <4>2, <4>3
    <3> QED
      BY <2>7, <3>1 DEF AllPlaced
  <2>10. from <= u.mh.lower /\ u.mh.lower < to
    BY <2>5, <2>7
  <2> QED
    BY <2>3, <2>7, <2>8, <2>9, <2>10 DEF BelowCut
<1>4. CASE ~(s.list[n].lower < from)
  <2> DEFINE q == RemoveAt(s.list, n)
  <2>1. u = [s EXCEPT !.mh = s.list[n], !.list = q]
    BY <1>4 DEF CutBelow
  <2>2. q = RemoveAt(s.list, n)
    OBVIOUS
  <2> HIDE DEF q
  <2>3. TakenOff(s.list, n, q)
    BY <1>1, <2>2, TakeOffList
  <2>4. u \in MarkState /\ u.list = q /\ u.mh = s.list[n] /\ u.blocks = s.blocks
    <3>1. q \in Seq(Regions)
      BY <2>3 DEF TakenOff
    <3> QED
      BY <1>2, <2>1, <3>1 DEF MarkState
  <2>5. LayoutWith(u.list, u.mh, u.blocks)
    BY <1>1, <1>2, <2>3, <2>4 DEF LayoutWith, TakenOff
  <2>6. AllPlaced(u.list, from, to)
    BY <2>3, <2>4 DEF AllPlaced, TakenOff
  <2>7. from <= u.mh.lower /\ u.mh.lower < to
    BY <1>2, <1>4, <2>4
  <2> QED
    BY <2>4, <2>5, <2>6, <2>7 DEF BelowCut, Grown
<1> QED
  BY <1>3, <1>4

\* What CutAbove leaves: mh lies in the shared memory.
AboveCut(s, u, from, to) ==
  /\ u \in MarkState
  /\ LayoutWith(u.list, u.mh, u.blocks) /\ AllPlaced(u.list, from, to)
  /\ from <= u.mh.lower /\ u.mh.upper <= to
  /\ Grown(s.blocks, u.blocks)

LEMMA CutsAbove ==
  ASSUME NEW s \in MarkState, LayoutWith(s.list, s.mh, s.blocks),
         NEW from \in Nat, NEW to \in Nat, from < to,
         AllPlaced(s.list, from, to), from <= s.mh.lower, s.mh.lower < to,
         NEW u, u = CutAbove(s, to)
  PROVE  AboveCut(s, u, from, to)
<1>1. /\ s.list \in Seq(Regions) /\ Apart(s.list) /\ s.mh \in Regions
      /\ Conserved(FreeSet(s.list) \cup FreeOf(s.mh), s.blocks)
      /\ \A i \in 1 .. Len(s.list) : Below(s.list[i], s.mh)
      /\ s.blocks \subseteq Block /\ s.wild \in BOOLEAN
  BY DEF LayoutWith, MarkState
<1>2. /\ s.mh.lower \in Nat /\ s.mh.upper \in Nat
  BY <1>1, RegionFacts
<1>3. CASE to < s.mh.upper
  <2> DEFINE t == Split(s, to)
             cut == split_region(t.mh, to)
             up == [cut.upper EXCEPT !.a314 = FALSE]
             q == Enqueue(t.list, up)
  <2>1. u = [t EXCEPT !.mh = cut.lower, !.list = q]
    BY <1>3 DEF CutAbove
  <2>2. HeaderTaken(s, t, FreeOf(s.mh))
    <3>1. FreeOf(s.mh) \cap FreeSet(s.list) = {}
      BY <1>1, FreeDisjoint
    <3>2. t = Split(s, to)
      OBVIOUS
    <3> HIDE DEF t
    <3> QED
      BY <1>1, <3>1, <3>2, SplitTakesHeader
  <2> HIDE DEF t
  <2>3. /\ t \in MarkState /\ t.list \in Seq(Regions) /\ Len(t.list) = Len(s.list)
        /\ t.mh = s.mh
        /\ Conserved(FreeSet(t.list) \cup FreeOf(s.mh), t.blocks) /\ Grown(s.blocks, t.blocks)
        /\ \A i \in 1 .. Len(s.list) : SameRegion(s.list[i], t.list[i])
        /\ Apart(t.list)
    BY <1>1, <2>2, SameApart DEF HeaderTaken, SameRegions
  <2>4. /\ cut.lower \in Regions /\ cut.upper \in Regions
        /\ cut.lower.lower = s.mh.lower /\ cut.lower.upper = to
        /\ cut.upper.lower = to /\ cut.upper.upper = s.mh.upper
        /\ \A a : FreeIn(s.mh.first, a) <=> FreeIn(cut.lower.first, a) \/ FreeIn(cut.upper.first, a)
    <3>1. RegionSplit(s.mh, to, cut)
      BY <1>1, <1>2, <1>3, <2>3, SplitRegion
    <3> QED
      BY <3>1 DEF RegionSplit
  <2> HIDE DEF cut
  <2>5. up \in Regions /\ up.a314 = FALSE /\ up.lower = to /\ up.upper = s.mh.upper
        /\ up.first = cut.upper.first
    <3> DEFINE m == cut.upper
    <3>1. m \in Regions /\ m \in RegionType /\ m.lower < m.upper /\ m.upper <= Top
          /\ m.first \in ChunkList(m.lower, m.upper) /\ m.free = Bytes(m.first)
      BY <2>4, RegionFacts
    <3> HIDE DEF m
    <3> DEFINE e == [m EXCEPT !.a314 = FALSE]
    <3>2. /\ e \in RegionType /\ e.a314 = FALSE /\ e.lower = m.lower /\ e.upper = m.upper
          /\ e.first = m.first /\ e.free = m.free
      BY <3>1 DEF RegionType
    <3>3. e = up
      BY DEF m
    <3> HIDE DEF e, up
    <3>4. e \in Regions
      BY <3>1, <3>2 DEF Regions
    <3> QED
      BY <2>4, <3>2, <3>3, <3>4 DEF m
  <2>6. q = Enqueue(t.list, up)
    OBVIOUS
  <2> HIDE DEF up, q
  <2>7. ASSUME NEW j \in 1 .. Len(t.list)
        PROVE  Below(t.list[j], up) /\ Below(t.list[j], cut.lower)
    <3>1. /\ Below(s.list[j], s.mh) /\ SameRegion(s.list[j], t.list[j])
      BY <1>1, <2>3
    <3>2. t.list[j].upper <= s.mh.lower \/ s.mh.upper <= t.list[j].lower
      BY <3>1 DEF Below, SameRegion
    <3>3. t.list[j].lower \in Nat /\ t.list[j].upper \in Nat
      BY <2>3, RegionsOf, RegionFacts
    <3>4. t.list[j].upper <= to \/ s.mh.upper <= t.list[j].lower
      BY <1>2, <3>2, <3>3
    <3>5. t.list[j].upper <= s.mh.lower \/ to <= t.list[j].lower
      BY <1>2, <1>3, <3>2, <3>3
    <3> QED
      BY <2>4, <2>5, <3>4, <3>5 DEF Below
  <2>8. PutOn(t.list, up, q)
    BY <2>3, <2>5, <2>6, <2>7, PutOnList
  <2>9. u \in MarkState /\ u.list = q /\ u.mh = cut.lower /\ u.blocks = t.blocks
    <3>1. q \in Seq(Regions)
      BY <2>8 DEF PutOn
    <3> QED
      BY <2>1, <2>3, <2>4, <3>1 DEF MarkState
  <2>10. Conserved(FreeSet(q) \cup FreeOf(cut.lower), t.blocks)
    <3>1. FreeOf(s.mh) = FreeOf(cut.lower) \cup FreeOf(up)
      BY <2>4, <2>5 DEF FreeOf
    <3>2. FreeSet(q) = FreeSet(t.list) \cup FreeOf(up)
      BY <2>8 DEF PutOn
    <3>3. FreeSet(q) \cup FreeOf(cut.lower) = FreeSet(t.list) \cup FreeOf(s.mh)
      BY <3>1, <3>2
    <3> QED
      BY <2>3, <3>3
  <2>11. \A j \in 1 .. Len(q) : Below(q[j], cut.lower)
    <3>1. Below(up, cut.lower)
      BY <1>2, <2>4, <2>5 DEF Below
    <3> QED
      BY <2>7, <2>8, <3>1 DEF PutOn
  <2>12. LayoutWith(u.list, u.mh, u.blocks)
    BY <2>4, <2>8, <2>9, <2>10, <2>11 DEF LayoutWith, PutOn
  <2>13. AllPlaced(u.list, from, to)
    <3>1. Placed(up, from, to)
      BY <2>5 DEF Placed
    <3>2. \A j \in 1 .. Len(t.list) : Placed(t.list[j], from, to)
      BY <2>3 DEF AllPlaced, Placed, SameRegion
    <3> QED
      BY <2>8, <2>9, <3>1, <3>2 DEF AllPlaced, PutOn
  <2>14. from <= u.mh.lower /\ u.mh.upper <= to
    BY <2>4, <2>9
  <2> QED
    BY <2>3, <2>9, <2>12, <2>13, <2>14 DEF AboveCut
<1>4. CASE ~(to < s.mh.upper)
  <2>1. u = s
    BY <1>4 DEF CutAbove
  <2>2. s.mh.upper <= to
    BY <1>2, <1>4
  <2> QED
    BY <2>1, <2>2 DEF AboveCut, Grown
<1> QED
  BY <1>3, <1>4

\* Before the memory is marked: no region has the attribute, and one of them
\* holds all of the shared memory.
Unshared(list, from, to) ==
  /\ \A i \in 1 .. Len(list) : list[i].a314 = FALSE
  /\ \E i \in 1 .. Len(list) : list[i].lower <= from /\ to <= list[i].upper

\* What marking leaves: every region has the attribute it should have.
MarkedState(s, u, from, to) ==
  /\ Layout(u.list, u.blocks) /\ AllPlaced(u.list, from, to)
  /\ Grown(s.blocks, u.blocks) /\ u.wild \in BOOLEAN

LEMMA Marks ==
  ASSUME NEW s \in MarkState, Layout(s.list, s.blocks),
         NEW from \in Nat, NEW size \in Nat \ {0}, NEW to, to = from + size,
         AllPlaced(s.list, from, to) \/ Unshared(s.list, from, to),
         NEW u, u = mark_region_a314(s, from, size)
  PROVE  MarkedState(s, u, from, to)
<1> DEFINE hit == {i \in DOMAIN s.list : overlap(s.list[i], from, from + size)}
           n == Min(hit)
<1>1. /\ s.list \in Seq(Regions) /\ Apart(s.list) /\ Conserved(FreeSet(s.list), s.blocks)
      /\ s.wild \in BOOLEAN /\ to \in Nat /\ from < to
  BY DEF Layout, MarkState
<1>2. \A i \in 1 .. Len(s.list) : s.list[i].lower \in Nat /\ s.list[i].upper \in Nat
  BY <1>1, RegionsOf, RegionFacts
<1>3. DOMAIN s.list = 1 .. Len(s.list) /\ Len(s.list) \in Nat
  BY <1>1, RegionsOf
<1>4. CASE hit = {}
  <2>1. u = s
    BY <1>4 DEF mark_region_a314
  <2>2. AllPlaced(s.list, from, to)
    <3>1. ASSUME Unshared(s.list, from, to) PROVE FALSE
      <4>1. PICK k \in 1 .. Len(s.list) : s.list[k].lower <= from /\ to <= s.list[k].upper
        BY <3>1 DEF Unshared
      <4>2. s.list[k].lower \in Nat /\ s.list[k].upper \in Nat
        BY <1>2
      <4>3. s.list[k].lower < to /\ from < s.list[k].upper
        BY <1>1, <4>1, <4>2
      <4>4. k \in hit
        BY <1>3, <4>3 DEF overlap
      <4> QED
        BY <1>4, <4>4
    <3> QED
      BY <3>1
  <2> QED
    BY <1>1, <2>1, <2>2 DEF Grown, MarkedState
<1>5. CASE hit # {}
  <2> DEFINE t == CutBelow(s, n, from)
             v == CutAbove(t, from + size)
             m == [v.mh EXCEPT !.a314 = TRUE]
             q == Enqueue(v.list, m)
  <2>1. u = [v EXCEPT !.list = q]
    BY <1>5 DEF mark_region_a314
  <2>2. n \in 1 .. Len(s.list) /\ overlap(s.list[n], from, to)
    <3>1. hit \subseteq Nat
      BY <1>3
    <3>2. n \in hit
      <4> HIDE DEF hit
      <4> QED
        BY <1>5, <3>1, MinOfSet
    <3> QED
      BY <1>3, <3>2
  <2> HIDE DEF hit, n
  <2>3. \A j \in 1 .. Len(s.list) : j # n => Placed(s.list[j], from, to)
    <3>1. CASE AllPlaced(s.list, from, to)
      BY <3>1 DEF AllPlaced
    <3>2. CASE Unshared(s.list, from, to)
      <4>1. PICK k \in 1 .. Len(s.list) : s.list[k].lower <= from /\ to <= s.list[k].upper
        BY <3>2 DEF Unshared
      <4>2. from < s.list[n].upper /\ s.list[n].lower < to
        BY <2>2 DEF overlap
      <4>3. k = n
        <5>1. ASSUME k # n PROVE FALSE
          <6>1. s.list[n].upper <= s.list[k].lower \/ s.list[k].upper <= s.list[n].lower
            BY <1>1, <2>2, <5>1 DEF Apart, Below
          <6>2. /\ s.list[k].lower \in Nat /\ s.list[k].upper \in Nat
                /\ s.list[n].lower \in Nat /\ s.list[n].upper \in Nat
            BY <1>2, <2>2
          <6> QED
            BY SMTT(30), <1>1, <4>1, <4>2, <6>1, <6>2
        <5> QED
          BY <5>1
      <4>4. ASSUME NEW j \in 1 .. Len(s.list), j # n PROVE Placed(s.list[j], from, to)
        <5>1. s.list[j].upper <= s.list[n].lower \/ s.list[n].upper <= s.list[j].lower
          BY <1>1, <2>2, <4>4 DEF Apart, Below
        <5>2. /\ s.list[j].lower \in Nat /\ s.list[j].upper \in Nat
              /\ s.list[n].lower \in Nat /\ s.list[n].upper \in Nat
              /\ s.list[n].lower <= from /\ to <= s.list[n].upper
          BY <1>2, <2>2, <4>1, <4>3
        <5>3. s.list[j].upper <= from \/ to <= s.list[j].lower
          BY ONLY SMTT(30), <5>1, <5>2, from \in Nat, to \in Nat
        <5> QED
          BY <3>2, <5>3 DEF Placed, Unshared
      <4> QED
        BY <4>4
    <3> QED
      BY <3>1, <3>2
  <2>4. BelowCut(s, t, from, to)
    <3>1. t = CutBelow(s, n, from)
      OBVIOUS
    <3> HIDE DEF t
    <3> QED
      BY <1>1, <2>2, <2>3, <3>1, CutsBelow
  <2> HIDE DEF t
  <2>5. AboveCut(t, v, from, to)
    <3>1. v = CutAbove(t, to)
      OBVIOUS
    <3> HIDE DEF v
    <3> QED
      BY <1>1, <2>4, <3>1, CutsAbove DEF BelowCut
  <2> HIDE DEF v
  <2>6. /\ v \in MarkState /\ v.list \in Seq(Regions) /\ Apart(v.list) /\ v.mh \in Regions
        /\ \A i \in 1 .. Len(v.list) : Below(v.list[i], v.mh)
        /\ Conserved(FreeSet(v.list) \cup FreeOf(v.mh), v.blocks)
        /\ AllPlaced(v.list, from, to) /\ from <= v.mh.lower /\ v.mh.upper <= to
    BY <2>5 DEF AboveCut, LayoutWith
  <2>7. /\ m \in Regions /\ m.a314 = TRUE /\ m.lower = v.mh.lower /\ m.upper = v.mh.upper
        /\ m.first = v.mh.first
    <3> DEFINE r == v.mh
    <3>1. r \in Regions /\ r \in RegionType /\ r.lower < r.upper /\ r.upper <= Top
          /\ r.first \in ChunkList(r.lower, r.upper) /\ r.free = Bytes(r.first)
      BY <2>6, RegionFacts
    <3> HIDE DEF r
    <3> DEFINE e == [r EXCEPT !.a314 = TRUE]
    <3>2. /\ e \in RegionType /\ e.a314 = TRUE /\ e.lower = r.lower /\ e.upper = r.upper
          /\ e.first = r.first /\ e.free = r.free
      BY <3>1 DEF RegionType
    <3>3. e = m
      BY DEF r
    <3> HIDE DEF e, m
    <3>4. e \in Regions
      BY <3>1, <3>2 DEF Regions
    <3> QED
      BY <3>2, <3>3, <3>4 DEF r
  <2>8. q = Enqueue(v.list, m)
    OBVIOUS
  <2> HIDE DEF m, q
  <2>9. \A i \in 1 .. Len(v.list) : Below(v.list[i], m)
    BY <2>6, <2>7 DEF Below
  <2>10. PutOn(v.list, m, q)
    BY <2>6, <2>7, <2>8, <2>9, PutOnList
  <2>11. /\ u.list = q /\ u.blocks = v.blocks /\ u.wild \in BOOLEAN
    BY <2>1, <2>6 DEF MarkState
  <2>12. Layout(u.list, u.blocks)
    <3>1. FreeOf(m) = FreeOf(v.mh)
      BY <2>7 DEF FreeOf
    <3> QED
      BY <2>6, <2>10, <2>11, <3>1 DEF Layout, PutOn
  <2>13. AllPlaced(u.list, from, to)
    <3>1. Placed(m, from, to)
      BY <2>6, <2>7 DEF Placed
    <3> QED
      BY <2>6, <2>10, <2>11, <3>1 DEF AllPlaced, PutOn
  <2>14. Grown(s.blocks, u.blocks)
    BY <2>4, <2>5, <2>11 DEF BelowCut, AboveCut, Grown
  <2> QED
    BY <2>11, <2>12, <2>13, <2>14 DEF MarkedState
<1> QED
  BY <1>4, <1>5

-----------------------------------------------------------------------------
(* The inductive invariant.                                                *)

MemoryInv ==
  /\ ca.mem_base \in Nat /\ ca.mem_size \in Nat \ {0}
  /\ marked \in BOOLEAN /\ wild \in BOOLEAN
  /\ Layout(memlist, blocks)
  /\ IF marked THEN AllPlaced(memlist, ca.mem_base, ca.mem_base + ca.mem_size)
     ELSE Unshared(memlist, ca.mem_base, ca.mem_base + ca.mem_size)
  /\ \A b \in blocks : b.a314 => /\ ca.mem_base <= b.start
                                 /\ b.start + b.bytes <= ca.mem_base + ca.mem_size

\* A region that is one free chunk.
Whole(mh, lo, hi) ==
  /\ mh \in Regions /\ mh.lower = lo /\ mh.upper = hi /\ mh.a314 = FALSE
  /\ \A a : FreeIn(mh.first, a) <=> a \in lo .. hi - 1

LEMMA WholeRegion ==
  ASSUME NEW lo \in Nat, NEW hi \in Nat, lo < hi, hi <= Top, NEW pri \in Int,
         NEW mh, mh = Region(lo, hi, pri)
  PROVE  Whole(mh, lo, hi)
<1> DEFINE c == [start |-> lo, bytes |-> hi - lo]
           s == << c >>
<1>1. hi - lo \in Nat \ {0} /\ lo + (hi - lo) = hi
  OBVIOUS
<1>2. c.start = lo /\ c.bytes = hi - lo /\ c \in Chunk
  BY <1>1 DEF Chunk
<1>3. End(c) = hi /\ Of(c) = lo .. hi - 1
  BY <1>1, <1>2 DEF End, Of, Span
<1>4. mh = [lower |-> lo, upper |-> hi, pri |-> pri, a314 |-> FALSE, free |-> hi - lo,
            first |-> s]
  BY DEF Region
<1> HIDE DEF c
<1>5. s \in ChunkList(lo, hi) /\ \A a : FreeIn(s, a) <=> a \in Of(c)
  BY <1>2, <1>3, ListOfOne
<1>6. s \in Seq(Chunk) /\ Bytes(s) = hi - lo
  BY <1>2, BytesOfOne
<1> HIDE DEF s
<1>7. mh \in RegionType /\ mh.lower = lo /\ mh.upper = hi /\ mh.a314 = FALSE
      /\ mh.first = s /\ mh.free = Bytes(s)
  BY <1>1, <1>4, <1>6 DEF RegionType
<1> QED
  BY <1>3, <1>5, <1>7 DEF Regions, Whole

LEMMA MemoryInit == Init => MemoryInv
<1> SUFFICES ASSUME Init PROVE MemoryInv
  OBVIOUS
<1> DEFINE x == Region(ChipSize, Top, 0)
           y == Region(0, ChipSize, -10)
           from == ca.mem_base
           to == ca.mem_base + ca.mem_size
<1>1. ChipSize \in Nat \ {0} /\ Top \in Nat \ {0} /\ ChipSize < Top
  BY MemoryAssumption
<1>2. /\ x \in Regions /\ x.lower = ChipSize /\ x.upper = Top /\ x.a314 = FALSE
      /\ \A a : FreeIn(x.first, a) <=> a \in ChipSize .. Top - 1
  <2>1. Top <= Top /\ 0 \in Int
    BY <1>1
  <2>2. x = Region(ChipSize, Top, 0)
    OBVIOUS
  <2> HIDE DEF x
  <2>3. Whole(x, ChipSize, Top)
    BY <1>1, <2>1, <2>2, WholeRegion
  <2> QED
    BY <2>3 DEF Whole
<1>3. /\ y \in Regions /\ y.lower = 0 /\ y.upper = ChipSize /\ y.a314 = FALSE
      /\ \A a : FreeIn(y.first, a) <=> a \in 0 .. ChipSize - 1
  <2>1. 0 < ChipSize /\ ChipSize <= Top /\ -10 \in Int /\ 0 \in Nat
    BY <1>1
  <2>2. y = Region(0, ChipSize, -10)
    OBVIOUS
  <2> HIDE DEF y
  <2>3. Whole(y, 0, ChipSize)
    BY <1>1, <2>1, <2>2, WholeRegion
  <2> QED
    BY <2>3 DEF Whole
<1>4. memlist = << x, y >> /\ blocks = {} /\ marked = FALSE /\ wild = FALSE
  BY DEF Init
<1>5. /\ ca.mem_base \in Nat /\ ca.mem_size \in Nat \ {0} /\ ChipSize <= from /\ to <= Top
  BY <1>1 DEF Init
<1> HIDE DEF x, y
<1>6. /\ memlist \in Seq(Regions) /\ Len(memlist) = 2 /\ memlist[1] = x /\ memlist[2] = y
  BY <1>2, <1>3, <1>4
<1>7. \A i \in 1 .. Len(memlist) : i = 1 \/ i = 2
  BY <1>6
<1>8. Apart(memlist)
  <2>1. Below(x, y) /\ Below(y, x)
    BY <1>1, <1>2, <1>3 DEF Below
  <2> QED
    BY <1>6, <1>7, <2>1 DEF Apart
<1>9. FreeSet(memlist) = 0 .. Top - 1
  <2>1. 1 \in 1 .. Len(memlist) /\ 2 \in 1 .. Len(memlist)
    BY <1>6
  <2>2. ASSUME NEW a \in 0 .. Top - 1 PROVE FreeAt(memlist, a)
    <3>1. a \in ChipSize .. Top - 1 \/ a \in 0 .. ChipSize - 1
      BY <1>1
    <3>2. FreeIn(memlist[1].first, a) \/ FreeIn(memlist[2].first, a)
      BY <1>2, <1>3, <1>6, <3>1
    <3> QED
      BY <2>1, <3>2 DEF FreeAt
  <2> QED
    BY <2>2 DEF FreeSet
<1>10. Layout(memlist, blocks)
  BY <1>4, <1>6, <1>8, <1>9 DEF Layout, Conserved
<1>11. Unshared(memlist, from, to)
  <2>1. \A i \in 1 .. Len(memlist) : memlist[i].a314 = FALSE
    BY <1>2, <1>3, <1>6, <1>7
  <2>2. 1 \in 1 .. Len(memlist) /\ memlist[1].lower <= from /\ to <= memlist[1].upper
    BY <1>2, <1>5, <1>6
  <2> QED
    BY <2>1, <2>2 DEF Unshared
<1> QED
  BY <1>4, <1>5, <1>10, <1>11 DEF MemoryInv

LEMMA SameUnshared ==
  ASSUME NEW list, NEW l2, SameRegions(list, l2), NEW from, NEW to
  PROVE  /\ AllPlaced(list, from, to) => AllPlaced(l2, from, to)
         /\ Unshared(list, from, to) => Unshared(l2, from, to)
BY DEF SameRegions, SameRegion, AllPlaced, Placed, Unshared

LEMMA AllocKeeps ==
  ASSUME MemoryInv, NEW size \in 1 .. Top, NEW a314 \in BOOLEAN, Alloc(size, a314)
  PROVE  MemoryInv'
<1> DEFINE got == AllocMem(memlist, size, a314)
           b == [start |-> got.at, bytes |-> size, a314 |-> a314]
           from == ca.mem_base
           to == ca.mem_base + ca.mem_size
<1>1. /\ got.at # NULL /\ memlist' = got.list /\ blocks' = blocks \cup {b}
      /\ ca' = ca /\ marked' = marked /\ wild' = wild
  BY DEF Alloc
<1>2. /\ memlist \in Seq(Regions) /\ Apart(memlist) /\ Conserved(FreeSet(memlist), blocks)
      /\ size \in Nat \ {0} /\ from \in Nat /\ to \in Nat
  BY MemoryAssumption DEF MemoryInv, Layout
<1>3. Allocated(memlist, got.list, got.at, size, a314)
  <2>1. got = AllocMem(memlist, size, a314)
    OBVIOUS
  <2> HIDE DEF got
  <2> QED
    BY <1>1, <1>2, <2>1, Allocates
<1>4. b = [start |-> got.at, bytes |-> size, a314 |-> a314]
  OBVIOUS
<1> HIDE DEF got, b
<1>5. BlockTaken(b, got.list, got.at, size, a314, {}, blocks)
  <2>1. {} \cap FreeSet(memlist) = {} /\ FreeSet(memlist) \cup {} = FreeSet(memlist)
    OBVIOUS
  <2>2. Conserved(FreeSet(memlist) \cup {}, blocks)
    BY <1>2, <2>1
  <2> QED
    BY <1>2, <1>3, <1>4, <2>1, <2>2, AllocatedIsTaken
<1>6. /\ b \in Block /\ b.start = got.at /\ b.bytes = size /\ b.a314 = a314
      /\ Conserved(FreeSet(got.list), blocks \cup {b})
  <2>1. FreeSet(got.list) \cup {} = FreeSet(got.list)
    OBVIOUS
  <2> QED
    BY <1>5, <2>1 DEF BlockTaken
<1>7. Layout(memlist', blocks')
  <2>1. SameRegions(memlist, got.list)
    BY <1>3 DEF Allocated
  <2> QED
    BY <1>1, <1>2, <1>6, <2>1, SameApart DEF Layout, SameRegions
<1>8. IF marked THEN AllPlaced(got.list, from, to) ELSE Unshared(got.list, from, to)
  BY <1>3, SameUnshared DEF MemoryInv, Allocated
<1>9. b.a314 => from <= b.start /\ b.start + b.bytes <= to
  <2> SUFFICES ASSUME a314 PROVE from <= got.at /\ got.at + size <= to
    BY <1>6
  <2>1. PICK i \in 1 .. Len(memlist) :
            memlist[i].a314 /\ memlist[i].lower <= got.at /\ got.at + size <= memlist[i].upper
    BY <1>3 DEF Allocated
  <2>2. from <= memlist[i].lower /\ memlist[i].upper <= to
    BY <2>1 DEF MemoryInv, AllPlaced, Placed, Unshared
  <2>3. memlist[i].lower \in Nat /\ memlist[i].upper \in Nat /\ got.at \in Nat
    BY <1>2, <1>3, RegionsOf, RegionFacts DEF Allocated
  <2> QED
    BY <1>2, <2>1, <2>2, <2>3
<1>10. \A c \in blocks' : c.a314 => from <= c.start /\ c.start + c.bytes <= to
  BY <1>1, <1>9 DEF MemoryInv
<1> QED
  BY <1>1, <1>7, <1>8, <1>10 DEF MemoryInv

LEMMA FreeKeeps ==
  ASSUME MemoryInv, NEW b \in blocks, Free(b)
  PROVE  MemoryInv'
<1>1. PICK i \in DOMAIN memlist :
         /\ memlist[i].lower <= b.start /\ b.start + b.bytes <= memlist[i].upper
         /\ memlist' = [memlist EXCEPT ![i].first = FreeChunk(@, b), ![i].free = @ + b.bytes]
  BY DEF Free
<1>2. /\ blocks' = blocks \ {b} /\ ca' = ca /\ marked' = marked /\ wild' = wild
  BY DEF Free
<1>3. /\ memlist \in Seq(Regions) /\ Apart(memlist) /\ Conserved(FreeSet(memlist), blocks)
      /\ i \in 1 .. Len(memlist) /\ memlist[i] \in Regions
  BY RegionsOf DEF MemoryInv, Layout
<1>4. b \in Block /\ b.start \in Nat /\ b.bytes \in Nat \ {0}
  BY <1>3, BlockFacts DEF Conserved
<1> DEFINE mh == memlist[i]
           r == FreeChunk(mh.first, b)
           m2 == [mh EXCEPT !.first = r, !.free = Bytes(r)]
           l2 == [memlist EXCEPT ![i] = m2]
<1>5. /\ mh \in RegionType /\ mh.lower \in Nat /\ mh.upper \in Nat
      /\ mh.lower < mh.upper /\ mh.upper <= Top /\ Top \in Nat
      /\ mh.first \in ChunkList(mh.lower, mh.upper) /\ mh.free = Bytes(mh.first)
  BY <1>3, RegionFacts, MemoryAssumption
<1>6. \A a \in Of(b) : ~FreeIn(mh.first, a)
  <2>1. ASSUME NEW a \in Of(b), FreeIn(mh.first, a) PROVE FALSE
    <3>1. a \in Nat /\ a < mh.upper
      BY <1>3, <2>1, FreeInside
    <3>2. FreeAt(memlist, a)
      BY <1>3, <2>1 DEF FreeAt
    <3>3. a \in 0 .. Top - 1 /\ a \in FreeSet(memlist)
      BY <1>5, <3>1, <3>2 DEF FreeSet
    <3> QED
      BY <1>3, <3>3 DEF Conserved
  <2> QED
    BY <2>1
<1>7. Freed(mh.first, r, mh.lower, mh.upper, b)
  <2> HIDE DEF mh
  <2>1. mh.lower <= b.start /\ b.start + b.bytes <= mh.upper
    BY <1>1 DEF mh
  <2> QED
    BY <1>4, <1>5, <1>6, <2>1, ChunkFreed
<1>8. m2 \in Regions /\ SameRegion(mh, m2) /\ m2.first = r
  <2>1. r \in ChunkList(mh.lower, mh.upper) /\ r \in Seq(Chunk) /\ Bytes(r) \in Nat
    BY <1>4, <1>7 DEF Freed, ChunkList
  <2> HIDE DEF r, mh
  <2>2. /\ m2 \in RegionType /\ m2.first = r /\ m2.free = Bytes(r) /\ m2.lower = mh.lower
        /\ m2.upper = mh.upper /\ m2.pri = mh.pri /\ m2.a314 = mh.a314
    BY <1>5, <2>1 DEF RegionType
  <2> HIDE DEF m2
  <2> QED
    BY <1>5, <2>1, <2>2 DEF Regions, SameRegion
<1>9. memlist' = l2
  <2>1. Bytes(r) = mh.free + b.bytes
    BY <1>5, <1>7 DEF Freed
  <2>2. memlist' = [memlist EXCEPT ![i].first = r, ![i].free = mh.free + b.bytes]
    BY <1>1, <1>3
  <2> HIDE DEF r
  <2> QED
    BY <1>3, <2>1, <2>2, RegionsOf
<1>10. Changed(memlist, i, m2, l2)
  <2> HIDE DEF m2
  <2>1. l2 = [memlist EXCEPT ![i] = m2]
    OBVIOUS
  <2> HIDE DEF l2
  <2> QED
    BY <1>3, <1>8, <2>1, RegionChanged
<1> HIDE DEF l2, m2, r
<1>11. FreeSet(l2) = FreeSet(memlist) \cup Of(b)
  <2>1. ASSUME NEW a PROVE FreeAt(l2, a) <=> FreeAt(memlist, a) \/ a \in Of(b)
    <3>1. FreeAt(l2, a) <=> \/ FreeIn(r, a)
                            \/ \E j \in 1 .. Len(memlist) : j # i /\ FreeIn(memlist[j].first, a)
      BY <1>8, <1>10 DEF Changed
    <3>2. FreeAt(memlist, a) <=> \/ FreeIn(mh.first, a)
                                 \/ \E j \in 1 .. Len(memlist) : j # i /\ FreeIn(memlist[j].first, a)
      BY <1>3 DEF FreeAt
    <3>3. FreeIn(r, a) <=> FreeIn(mh.first, a) \/ a \in Of(b)
      BY <1>7 DEF Freed
    <3> QED
      BY <3>1, <3>2, <3>3
  <2>2. Of(b) \subseteq 0 .. Top - 1
    <3>1. b.start + b.bytes <= Top /\ Of(b) = b.start .. b.start + b.bytes - 1 /\ Top \in Nat
      BY <1>3, <1>4, <1>5, BlockFacts DEF Conserved
    <3> QED
      BY <1>4, <3>1
  <2> QED
    BY <2>1, <2>2 DEF FreeSet
<1>12. Conserved(FreeSet(l2), blocks \ {b})
  BY <1>3, <1>11, GiveBack
<1>13. SameRegions(memlist, l2)
  BY <1>10 DEF Changed
<1>14. Layout(memlist', blocks')
  BY <1>2, <1>3, <1>9, <1>12, <1>13, SameApart DEF Layout, SameRegions
<1>15. IF marked THEN AllPlaced(l2, ca.mem_base, ca.mem_base + ca.mem_size)
       ELSE Unshared(l2, ca.mem_base, ca.mem_base + ca.mem_size)
  BY <1>13, SameUnshared DEF MemoryInv
<1> QED
  BY <1>2, <1>9, <1>14, <1>15 DEF MemoryInv

LEMMA MarkKeeps ==
  ASSUME MemoryInv, fix_memory
  PROVE  MemoryInv'
<1> DEFINE s == [list |-> memlist, blocks |-> blocks, wild |-> wild, mh |-> NULL]
           u == mark_region_a314(s, ca.mem_base, ca.mem_size)
           from == ca.mem_base
           to == ca.mem_base + ca.mem_size
<1>1. /\ memlist' = u.list /\ blocks' = u.blocks /\ wild' = u.wild /\ marked' = TRUE
      /\ ca' = ca
  BY DEF fix_memory
<1>2. /\ Layout(memlist, blocks) /\ from \in Nat /\ ca.mem_size \in Nat \ {0}
      /\ wild \in BOOLEAN /\ marked \in BOOLEAN
      /\ AllPlaced(memlist, from, to) \/ Unshared(memlist, from, to)
  BY DEF MemoryInv
<1>3. s \in MarkState /\ s.list = memlist /\ s.blocks = blocks
  BY <1>2 DEF MarkState, Layout, Conserved
<1>4. u = mark_region_a314(s, from, ca.mem_size) /\ to = from + ca.mem_size
  OBVIOUS
<1> HIDE DEF s, u
<1>5. /\ Layout(u.list, u.blocks) /\ AllPlaced(u.list, from, to)
      /\ Grown(blocks, u.blocks) /\ u.wild \in BOOLEAN
  <2> HIDE DEF to, from
  <2>1. MarkedState(s, u, from, to)
    BY <1>2, <1>3, <1>4, Marks
  <2> QED
    BY <1>3, <2>1 DEF MarkedState
<1>6. \A b \in u.blocks : b.a314 => from <= b.start /\ b.start + b.bytes <= to
  BY <1>5 DEF MemoryInv, Grown
<1> QED
  BY <1>1, <1>2, <1>5, <1>6 DEF MemoryInv

LEMMA MemoryInductive == MemoryInv /\ [Next]_vars => MemoryInv'
<1> SUFFICES ASSUME MemoryInv, [Next]_vars PROVE MemoryInv'
  OBVIOUS
<1>1. CASE fix_memory
  BY <1>1, MarkKeeps
<1>2. CASE \E size \in 1 .. Top, a314 \in BOOLEAN : Alloc(size, a314)
  BY <1>2, AllocKeeps
<1>3. CASE \E b \in blocks : Free(b)
  BY <1>3, FreeKeeps
<1>4. CASE UNCHANGED vars
  BY <1>4 DEF MemoryInv, vars
<1> QED
  BY <1>1, <1>2, <1>3, <1>4 DEF Next

LEMMA MemoryInvariant == Spec => []MemoryInv
BY MemoryInit, MemoryInductive, PTL DEF Spec

-----------------------------------------------------------------------------
(* What follows from it.                                                   *)

LEMMA ChunksOfList ==
  ASSUME memlist \in Seq(Regions)
  PROVE  \A p : p \in Chunks <=> \E i \in 1 .. Len(memlist) :
                                    \E j \in 1 .. Len(memlist[i].first) : p = memlist[i].first[j]
<1>1. DOMAIN memlist = 1 .. Len(memlist)
  BY RegionsOf
<1>2. \A i \in 1 .. Len(memlist) : DOMAIN memlist[i].first = 1 .. Len(memlist[i].first)
  BY RegionsOf, RegionFacts, ListFacts
<1> QED
  BY <1>1, <1>2 DEF Chunks, ToSet

LEMMA SoundLists ==
  ASSUME MemoryInv PROVE FreeListsSound
<1>1. /\ memlist \in Seq(Regions) /\ Apart(memlist) /\ Conserved(FreeSet(memlist), blocks)
  BY DEF MemoryInv, Layout
<1>2. \A i \in 1 .. Len(memlist) :
         /\ memlist[i] \in Regions /\ memlist[i].lower \in Nat /\ memlist[i].upper \in Nat
         /\ memlist[i].first \in ChunkList(memlist[i].lower, memlist[i].upper)
         /\ memlist[i].free = Bytes(memlist[i].first)
  BY <1>1, RegionsOf, RegionFacts
<1>3. DOMAIN memlist = 1 .. Len(memlist)
  BY <1>1, RegionsOf
\* An address of a chunk is free.
<1>4. ASSUME NEW p \in Chunks
      PROVE  Of(p) \subseteq FreeSet(memlist) /\ p \in Chunk /\ p.start \in Of(p)
  <2>1. PICK i \in 1 .. Len(memlist) :
               \E j \in 1 .. Len(memlist[i].first) : p = memlist[i].first[j]
    BY <1>1, <1>4, ChunksOfList
  <2>2. PICK j \in 1 .. Len(memlist[i].first) : p = memlist[i].first[j]
    BY <2>1
  <2>3. /\ p \in Chunk /\ Of(p) = p.start .. End(p) - 1 /\ p.start \in Nat
        /\ End(p) \in Nat /\ p.start < End(p)
    <3> DEFINE s == memlist[i].first
               lo == memlist[i].lower
               hi == memlist[i].upper
    <3>1. s \in ChunkList(lo, hi) /\ lo \in Nat /\ hi \in Nat
      BY <1>2
    <3>2. j \in 1 .. Len(s) /\ p = s[j]
      BY <2>2
    <3> HIDE DEF s, lo, hi
    <3>3. p \in Chunk
      BY <3>1, <3>2, ListFacts
    <3> QED
      BY <3>3, ChunkEnds
  <2>4. ASSUME NEW a \in Of(p) PROVE a \in FreeSet(memlist)
    <3>1. FreeIn(memlist[i].first, a)
      BY <2>2 DEF FreeIn
    <3>2. a \in Nat /\ a < memlist[i].upper /\ memlist[i].upper <= Top /\ Top \in Nat
      BY <1>2, <3>1, FreeInside, RegionFacts, MemoryAssumption
    <3>3. a \in 0 .. Top - 1
      BY <1>2, <3>2
    <3> QED
      BY <3>1, <3>3 DEF FreeSet, FreeAt
  <2>5. p.start \in Of(p)
    BY <2>3
  <2> QED
    BY <2>3, <2>4, <2>5
<1>5. ASSUME NEW b \in blocks
      PROVE  Of(b) \subseteq 0 .. Top - 1 /\ Of(b) \cap FreeSet(memlist) = {}
             /\ b \in Block /\ b.start \in Of(b)
  <2>1. b \in Block /\ b.start + b.bytes <= Top /\ Top \in Nat
    BY <1>1, MemoryAssumption DEF Conserved
  <2>2. Of(b) \subseteq 0 .. Top - 1 /\ b.start \in Of(b)
    BY SMTT(30), <2>1, BlockFacts
  <2>3. Of(b) \cap FreeSet(memlist) = {}
    BY <1>1, <2>2 DEF Conserved
  <2> QED
    BY <2>1, <2>2, <2>3
<1>6. UNION {Of(p) : p \in Chunks \cup blocks} = Span(0, Top)
  <2>1. ASSUME NEW p \in Chunks \cup blocks PROVE Of(p) \subseteq Span(0, Top)
    <3>1. Span(0, Top) = 0 .. Top - 1
      BY DEF Span
    <3>2. CASE p \in Chunks
      BY <1>1, <1>4, <3>1, <3>2 DEF Conserved
    <3>3. CASE p \in blocks
      BY <1>5, <3>1, <3>3
    <3> QED
      BY <3>2, <3>3
  <2>2. ASSUME NEW a \in Span(0, Top) PROVE \E p \in Chunks \cup blocks : a \in Of(p)
    <3>1. a \in 0 .. Top - 1
      BY DEF Span
    <3>2. CASE a \in FreeSet(memlist)
      <4>1. PICK i \in 1 .. Len(memlist) : FreeIn(memlist[i].first, a)
        BY <3>2 DEF FreeSet, FreeAt
      <4>2. PICK j \in 1 .. Len(memlist[i].first) : a \in Of(memlist[i].first[j])
        BY <4>1 DEF FreeIn
      <4>3. memlist[i].first[j] \in Chunks
        BY <1>1, ChunksOfList
      <4> QED
        BY <4>2, <4>3
    <3>3. CASE a \notin FreeSet(memlist)
      BY <1>1, <3>1, <3>3 DEF Conserved
    <3> QED
      BY <3>2, <3>3
  <2> QED
    BY <2>1, <2>2
<1>7. ASSUME NEW p \in Chunks \cup blocks, NEW q \in Chunks \cup blocks, p # q
      PROVE  Of(p) \cap Of(q) = {}
  <2>1. CASE p \in Chunks /\ q \in Chunks
    <3>1. PICK i \in 1 .. Len(memlist) :
                 \E j \in 1 .. Len(memlist[i].first) : p = memlist[i].first[j]
      BY <1>1, <2>1, ChunksOfList
    <3>2. PICK j \in 1 .. Len(memlist[i].first) : p = memlist[i].first[j]
      BY <3>1
    <3>3. PICK k \in 1 .. Len(memlist) :
                 \E m \in 1 .. Len(memlist[k].first) : q = memlist[k].first[m]
      BY <1>1, <2>1, ChunksOfList
    <3>4. PICK m \in 1 .. Len(memlist[k].first) : q = memlist[k].first[m]
      BY <3>3
    <3>5. CASE i = k
      <4>1. j # m
        BY <1>7, <3>2, <3>4, <3>5
      <4>2. \A a \in Of(memlist[i].first[j]) : a \notin Of(memlist[i].first[m])
        BY <1>2, <3>4, <3>5, <4>1, ChunksApart
      <4> QED
        BY <3>2, <3>4, <3>5, <4>2
    <3>6. CASE i # k
      <4>1. ASSUME NEW a, a \in Of(p), a \in Of(q) PROVE FALSE
        <5>1. FreeIn(memlist[i].first, a) /\ FreeIn(memlist[k].first, a)
          BY <3>2, <3>4, <4>1 DEF FreeIn
        <5>2. memlist[k].lower <= a /\ a < memlist[k].upper
          BY <1>2, <5>1, FreeInside
        <5> QED
          BY <1>1, <3>6, <5>1, <5>2, FreeOnce
      <4> QED
        BY <4>1
    <3> QED
      BY <3>5, <3>6
  <2>2. CASE p \in Chunks /\ q \in blocks
    BY <1>4, <1>5, <2>2
  <2>3. CASE p \in blocks /\ q \in Chunks
    BY <1>4, <1>5, <2>3
  <2>4. CASE p \in blocks /\ q \in blocks
    BY <1>1, <1>7, <2>4 DEF Conserved
  <2> QED
    BY <2>1, <2>2, <2>3, <2>4
<1>8. Chunks \cap {[start |-> b.start, bytes |-> b.bytes] : b \in blocks} = {}
  <2> SUFFICES ASSUME NEW b \in blocks,
                      [start |-> b.start, bytes |-> b.bytes] \in Chunks
               PROVE  FALSE
    OBVIOUS
  <2> DEFINE c == [start |-> b.start, bytes |-> b.bytes]
  <2>1. c.start = b.start
    OBVIOUS
  <2>2. c \in Chunks
    OBVIOUS
  <2> HIDE DEF c
  <2> QED
    BY <1>4, <1>5, <2>1, <2>2
<1>9. MemoryConserved
  BY <1>6, <1>7, <1>8 DEF MemoryConserved
<1>10. RegionsSound
  <2> SUFFICES ASSUME NEW i \in 1 .. Len(memlist)
               PROVE  LET mh == memlist[i] IN
                      /\ mh.free = Bytes(mh.first)
                      /\ \A j \in DOMAIN mh.first : /\ mh.lower <= mh.first[j].start
                                                    /\ mh.first[j].start + mh.first[j].bytes <= mh.upper
                      /\ \A j \in 1 .. Len(mh.first) - 1 :
                            mh.first[j].start + mh.first[j].bytes < mh.first[j + 1].start
    BY <1>3 DEF RegionsSound
  <2> DEFINE s == memlist[i].first
             lo == memlist[i].lower
             hi == memlist[i].upper
  <2>1. s \in ChunkList(lo, hi) /\ lo \in Nat /\ hi \in Nat /\ memlist[i].free = Bytes(s)
    BY <1>2
  <2> HIDE DEF s, lo, hi
  <2>2. /\ DOMAIN s = 1 .. Len(s) /\ Len(s) \in Nat
        /\ \A j \in 1 .. Len(s) : lo <= s[j].start /\ s[j].start + s[j].bytes <= hi
        /\ \A j, k \in 1 .. Len(s) : j < k => s[j].start + s[j].bytes < s[k].start
    BY <2>1, ListFacts DEF End
  <2>3. \A j \in 1 .. Len(s) - 1 : j \in 1 .. Len(s) /\ j + 1 \in 1 .. Len(s) /\ j < j + 1
    BY <2>2
  <2>4. \A j \in 1 .. Len(s) - 1 : s[j].start + s[j].bytes < s[j + 1].start
    BY <2>2, <2>3
  <2> QED
    BY <2>1, <2>2, <2>4 DEF s, lo, hi
<1> QED
  BY <1>9, <1>10 DEF FreeListsSound

-----------------------------------------------------------------------------
(* Marking what is marked.                                                 *)

\* The same regions are on the list, and nothing was taken from it.
MarkedAgain(s, u) ==
  ToSet(u.list) = ToSet(s.list) /\ u.blocks = s.blocks /\ u.wild = s.wild

LEMMA MarksAgain ==
  ASSUME NEW s \in MarkState, Layout(s.list, s.blocks),
         NEW from \in Nat, NEW size \in Nat \ {0}, NEW to, to = from + size,
         AllPlaced(s.list, from, to),
         NEW u, u = mark_region_a314(s, from, size)
  PROVE  MarkedAgain(s, u)
<1> DEFINE hit == {i \in DOMAIN s.list : overlap(s.list[i], from, from + size)}
           n == Min(hit)
<1>1. s.list \in Seq(Regions) /\ Apart(s.list) /\ to \in Nat /\ from < to
  BY DEF Layout
<1>2. DOMAIN s.list = 1 .. Len(s.list) /\ Len(s.list) \in Nat
  BY <1>1, RegionsOf
<1>3. CASE hit = {}
  <2>1. u = s
    BY <1>3 DEF mark_region_a314
  <2> QED
    BY <2>1 DEF MarkedAgain
<1>4. CASE hit # {}
  <2> DEFINE r == s.list[n]
             p == RemoveAt(s.list, n)
             t == CutBelow(s, n, from)
             v == CutAbove(t, from + size)
             m == [v.mh EXCEPT !.a314 = TRUE]
             q == Enqueue(v.list, m)
  <2>1. u = [v EXCEPT !.list = q]
    BY <1>4 DEF mark_region_a314
  <2>2. n \in 1 .. Len(s.list) /\ overlap(s.list[n], from, to)
    <3>1. hit \subseteq Nat
      BY <1>2
    <3>2. n \in hit
      <4> HIDE DEF hit
      <4> QED
        BY <1>4, <3>1, MinOfSet
    <3> QED
      BY <1>2, <3>2
  <2> HIDE DEF hit, n
  <2>3. r \in Regions /\ r \in RegionType /\ r.lower \in Nat /\ r.upper \in Nat
    BY <1>1, <2>2, RegionsOf, RegionFacts
  <2>4. r.a314 = TRUE /\ from <= r.lower /\ r.upper <= to
    <3>1. Placed(r, from, to) /\ from < r.upper /\ r.lower < to /\ r.a314 \in BOOLEAN
      BY <2>2, <2>3, RegionFacts DEF AllPlaced, overlap
    <3> HIDE DEF r
    <3> QED
      BY <1>1, <2>3, <3>1 DEF Placed
  \* The region is taken off the list, whole.
  <2>5. t = [s EXCEPT !.mh = r, !.list = p]
    <3>1. ~(r.lower < from)
      <4> HIDE DEF r
      <4> QED
        BY <2>3, <2>4
    <3> QED
      BY <3>1 DEF CutBelow
  <2>6. t.mh = r /\ t.list = p /\ t.blocks = s.blocks /\ t.wild = s.wild
        /\ t = [list |-> p, blocks |-> s.blocks, wild |-> s.wild, mh |-> r]
    <3> HIDE DEF r, p, t
    <3> QED
      BY <2>5 DEF MarkState
  <2> HIDE DEF t
  <2>7. v = t
    <3>1. ~(from + size < t.mh.upper)
      <4> HIDE DEF r
      <4> QED
        BY <1>1, <2>3, <2>4, <2>6
    <3> QED
      BY <3>1 DEF CutAbove
  <2> HIDE DEF v
  \* And put back as it was.
  <2>8. m = r
    <3> HIDE DEF r
    <3>1. [r EXCEPT !.a314 = TRUE] = r
      BY <2>3, <2>4 DEF RegionType
    <3> QED
      BY <2>6, <2>7, <3>1
  <2>9. TakenOff(s.list, n, p)
    <3>1. p = RemoveAt(s.list, n)
      OBVIOUS
    <3> HIDE DEF p
    <3> QED
      BY <1>1, <2>2, <3>1, TakeOffList
  <2>10. p \in Seq(Regions) /\ Apart(p) /\ \A i \in 1 .. Len(p) : Below(p[i], r)
    BY <2>9 DEF TakenOff
  <2>11. q = Enqueue(p, r)
    BY <2>6, <2>7, <2>8
  <2> HIDE DEF p, r, m, q
  <2>12. PutOn(p, r, q)
    BY <2>3, <2>10, <2>11, PutOnList
  <2>13. q \in Seq(Regions) /\ DOMAIN q = 1 .. Len(q)
    BY <2>12, RegionsOf DEF PutOn
  <2>14. \A j \in 1 .. Len(q) : \E i \in 1 .. Len(s.list) : q[j] = s.list[i]
    <3> SUFFICES ASSUME NEW j \in 1 .. Len(q)
                 PROVE  \E i \in 1 .. Len(s.list) : q[j] = s.list[i]
      OBVIOUS
    <3>1. CASE q[j] = r
      BY <2>2, <3>1 DEF r
    <3>2. CASE \E i \in 1 .. Len(p) : q[j] = p[i]
      BY <2>9, <3>2 DEF TakenOff
    <3> QED
      BY <2>12, <3>1, <3>2 DEF PutOn
  <2>15. \A i \in 1 .. Len(s.list) : \E j \in 1 .. Len(q) : q[j] = s.list[i]
    <3> SUFFICES ASSUME NEW i \in 1 .. Len(s.list)
                 PROVE  \E j \in 1 .. Len(q) : q[j] = s.list[i]
      OBVIOUS
    <3>1. CASE i = n
      BY <2>12, <3>1 DEF PutOn, r
    <3>2. CASE i # n
      <4>1. PICK k \in 1 .. Len(p) : p[k] = s.list[i]
        BY <2>9, <3>2 DEF TakenOff
      <4> QED
        BY <2>12, <4>1 DEF PutOn
    <3> QED
      BY <3>1, <3>2
  <2>16. ToSet(q) = ToSet(s.list)
    BY <1>2, <2>13, <2>14, <2>15 DEF ToSet
  <2>17. u.list = q /\ u.blocks = s.blocks /\ u.wild = s.wild
    <3>1. u = [t EXCEPT !.list = q]
      BY <2>1, <2>7
    <3> QED
      BY <2>6, <3>1
  <2> QED
    BY <2>16, <2>17 DEF MarkedAgain
<1> QED
  BY <1>3, <1>4

LEMMA MarkedAgainStep ==
  ASSUME MemoryInv, marked, fix_memory
  PROVE  ToSet(memlist') = ToSet(memlist) /\ UNCHANGED <<blocks, wild>>
<1> DEFINE s == [list |-> memlist, blocks |-> blocks, wild |-> wild, mh |-> NULL]
           u == mark_region_a314(s, ca.mem_base, ca.mem_size)
           from == ca.mem_base
           size == ca.mem_size
           to == ca.mem_base + ca.mem_size
<1>1. memlist' = u.list /\ blocks' = u.blocks /\ wild' = u.wild
  BY DEF fix_memory
<1>2. /\ Layout(memlist, blocks) /\ from \in Nat /\ size \in Nat \ {0}
      /\ wild \in BOOLEAN /\ AllPlaced(memlist, from, to)
  BY DEF MemoryInv
<1>3. s \in MarkState /\ s.list = memlist /\ s.blocks = blocks /\ s.wild = wild
  BY <1>2 DEF MarkState, Layout, Conserved
<1>4. u = mark_region_a314(s, from, size) /\ to = from + size
  OBVIOUS
<1> HIDE DEF s, u, from, size, to
<1>5. MarkedAgain(s, u)
  BY <1>2, <1>3, <1>4, MarksAgain
<1> QED
  BY <1>1, <1>3, <1>5 DEF MarkedAgain

-----------------------------------------------------------------------------
(* The theorems.                                                           *)

\* Whatever the sizes of the memories, of the shared part and of a MemHeader,
\* allocating, freeing and fix_memory's splits keep exec's free lists sound,
\* and every address is in exactly one free chunk or one block in use.
THEOREM ListsAlwaysSound == Spec => []FreeListsSound
<1>1. MemoryInv => FreeListsSound
  BY SoundLists
<1> QED
  BY <1>1, MemoryInvariant, PTL

\* Once fix_memory has run, MEMF_A314 is on the regions in the memory the
\* Raspberry Pi sees and on no other, wherever that memory lies.
THEOREM RegionsAlwaysExact == Spec => []A314RegionsExact
<1>1. ASSUME MemoryInv PROVE A314RegionsExact
  <2> SUFFICES ASSUME marked, NEW i \in DOMAIN memlist
               PROVE  IF memlist[i].a314
                      THEN Span(memlist[i].lower, memlist[i].upper) \subseteq Shared
                      ELSE Span(memlist[i].lower, memlist[i].upper) \cap Shared = {}
    BY DEF A314RegionsExact
  <2> DEFINE mh == memlist[i]
             from == ca.mem_base
             to == ca.mem_base + ca.mem_size
  <2>1. /\ memlist \in Seq(Regions) /\ AllPlaced(memlist, from, to)
        /\ from \in Nat /\ to \in Nat
    BY <1>1 DEF MemoryInv, Layout
  <2>2. mh \in Regions /\ Placed(mh, from, to)
    BY <2>1, RegionsOf DEF AllPlaced
  <2>3. mh.lower \in Nat /\ mh.upper \in Nat
    BY <2>2, RegionFacts
  <2>4. Shared = from .. to - 1 /\ Span(mh.lower, mh.upper) = mh.lower .. mh.upper - 1
    BY DEF Shared, Span
  <2> HIDE DEF mh, from, to
  <2>5. IF mh.a314 THEN Span(mh.lower, mh.upper) \subseteq Shared
        ELSE Span(mh.lower, mh.upper) \cap Shared = {}
    <3>1. CASE mh.a314
      BY <2>1, <2>2, <2>3, <2>4, <3>1 DEF Placed
    <3>2. CASE ~mh.a314
      BY <2>1, <2>2, <2>3, <2>4, <3>2 DEF Placed
    <3> QED
      BY <3>1, <3>2
  <2> QED
    BY <2>5 DEF mh
<1> QED
  BY <1>1, MemoryInvariant, PTL

\* A buffer a task got with MEMF_A314 lies in the shared memory from its first
\* address to its last, so translate_address_a314 accepts both.
THEOREM BuffersAlwaysTranslate == Spec => []A314BuffersTranslate
<1>1. ASSUME MemoryInv PROVE A314BuffersTranslate
  <2> SUFFICES ASSUME NEW b \in blocks, b.a314
               PROVE  /\ translate_address_a314(b.start) # NULL
                      /\ translate_address_a314(b.start + b.bytes - 1) # NULL
                      /\ translate_address_a314(b.start + b.bytes - 1)
                           = translate_address_a314(b.start) + b.bytes - 1
    BY DEF A314BuffersTranslate
  <2> DEFINE from == ca.mem_base
             size == ca.mem_size
             at == b.start
             n == b.bytes
  <2>1. /\ from \in Nat /\ size \in Nat /\ at \in Nat /\ n \in Nat \ {0}
        /\ from <= at /\ at + n <= from + size
    BY <1>1, BlockFacts DEF MemoryInv, Layout, Conserved
  <2> HIDE DEF from, size, at, n
  <2>2. /\ at >= from /\ at - from < size /\ at - from \in Nat
        /\ at + n - 1 >= from /\ at + n - 1 - from < size /\ at + n - 1 - from \in Nat
        /\ at + n - 1 - from = at - from + n - 1
    BY <2>1
  <2>3. /\ translate_address_a314(at) = at - from
        /\ translate_address_a314(at + n - 1) = at + n - 1 - from
    <3>1. ASSUME NEW x, x >= from, x - from < size
          PROVE  translate_address_a314(x) = x - from
      BY <3>1 DEF translate_address_a314, from, size
    <3>2. translate_address_a314(at) = at - from
      BY <2>2, <3>1
    <3> DEFINE y == at + n - 1
    <3>3. y >= from /\ y - from < size
      BY <2>1, <2>2
    <3> HIDE DEF y
    <3>4. translate_address_a314(y) = y - from
      BY <3>1, <3>3
    <3> QED
      BY <2>1, <3>2, <3>4 DEF y
  <2>4. /\ translate_address_a314(at) # NULL
        /\ translate_address_a314(at + n - 1) # NULL
        /\ translate_address_a314(at + n - 1) = translate_address_a314(at) + n - 1
    BY <2>1, <2>2, <2>3 DEF NULL
  <2> QED
    BY <2>4 DEF at, n
<1> QED
  BY <1>1, MemoryInvariant, PTL

\* However often fix_memory runs, it splits and allocates only the first time:
\* later runs take the shared region off the list and put it back.
THEOREM MarkingIsIdempotent == Spec => MarkedOnce
<1>1. MemoryInv /\ [Next]_vars
        => [marked /\ fix_memory => /\ ToSet(memlist') = ToSet(memlist)
                                    /\ UNCHANGED <<blocks, wild>>]_vars
  BY MarkedAgainStep
<1> QED
  BY <1>1, MemoryInvariant, PTL DEF Spec, MarkedOnce
=============================================================================
