---------------------------- MODULE A314RingProofs ----------------------------
(***************************************************************************)
(* The rings of an a314 physical channel, for every ring size and every    *)
(* set of packets: no published byte is overwritten, and every packet      *)
(* crosses whole, once and in order.                                       *)
(*                                                                         *)
(* The argument follows the bytes.  A stretch of bytes holds a sequence of *)
(* packets when there are boundaries that cut it into them.  Both rings    *)
(* and both of the daemon's buffers hold packets at all times; what each   *)
(* side writes lies outside of what the other may still read, because the  *)
(* copies it has of the indices only lag behind.                           *)
(***************************************************************************)
EXTENDS A314Ring, FoldLemmas

-----------------------------------------------------------------------------
(* Stretches of bytes that hold packets.                                   *)

\* The boundaries b cut the first n bytes of f into the packets of q.
Boundaries(f, n, q, b) ==
  /\ b \in [0 .. Len(q) -> 0 .. n] /\ b[0] = 0 /\ b[Len(q)] = n
  /\ \A i \in 0 .. Len(q), j \in 0 .. Len(q) : i <= j => b[i] <= b[j]
  /\ \A i \in 1 .. Len(q) :
       /\ b[i] = b[i - 1] + Len(q[i])
       /\ \A k \in 1 .. Len(q[i]) : f[b[i - 1] + k] = q[i][k]

Holds(f, n, q) == \E b : Boundaries(f, n, q, b)

\* A set of packets.
Packets(P) == \A p \in P : IsPacket(p)

LEMMA PacketLength ==
  ASSUME NEW P, Packets(P), NEW q \in Seq(P)
  PROVE  \A i \in 1 .. Len(q) : /\ q[i] \in P /\ q[i] \in Seq(Nat) /\ Len(q[i]) \in Nat
                                /\ Len(q[i]) >= HeaderBytes
                                /\ Len(q[i]) = HeaderBytes + q[i][1]
BY ElementOfSeq, LenProperties DEF Packets, IsPacket

LEMMA HoldsNone ==
  ASSUME NEW f
  PROVE  Holds(f, 0, <<>>)
<1> DEFINE b == [i \in 0 .. 0 |-> 0]
<1>1. Len(<<>>) = 0
  BY EmptySeq
<1>2. Boundaries(f, 0, <<>>, b)
  BY <1>1 DEF Boundaries
<1> QED
  BY <1>2 DEF Holds

LEMMA HoldsOne ==
  ASSUME NEW p, IsPacket(p)
  PROVE  Holds(p, Len(p), <<p>>)
<1> DEFINE b == [i \in 0 .. 1 |-> IF i = 0 THEN 0 ELSE Len(p)]
           q == <<p>>
<1>1. Len(p) \in Nat
  BY LenProperties DEF IsPacket
<1>2. Len(q) = 1 /\ q[1] = p
  OBVIOUS
<1> HIDE DEF q
<1>3. Boundaries(p, Len(p), q, b)
  BY <1>1, <1>2 DEF Boundaries
<1>4. Holds(p, Len(p), q)
  BY <1>3 DEF Holds
<1> QED
  BY <1>4 DEF q

\* Only the first n bytes matter.
LEMMA HoldsSame ==
  ASSUME NEW P, Packets(P), NEW q \in Seq(P), NEW n \in Nat, NEW f, NEW g,
         Holds(f, n, q), \A k \in 1 .. n : g[k] = f[k]
  PROVE  Holds(g, n, q)
<1>1. PICK b : Boundaries(f, n, q, b)
  BY DEF Holds
<1>2. Len(q) \in Nat
  BY LenProperties
<1>3. ASSUME NEW i \in 1 .. Len(q), NEW k \in 1 .. Len(q[i])
      PROVE  g[b[i - 1] + k] = q[i][k]
  <2>1. Len(q[i]) \in Nat
    BY PacketLength
  <2>2. b[i - 1] \in 0 .. n /\ b[i] \in 0 .. n /\ b[i] = b[i - 1] + Len(q[i])
    BY <1>1, <1>2 DEF Boundaries
  <2>3. b[i - 1] + k \in 1 .. n
    BY <2>1, <2>2
  <2> QED
    BY <1>1, <2>3 DEF Boundaries
<1>4. Boundaries(g, n, q, b)
  BY <1>1, <1>3 DEF Boundaries
<1> QED
  BY <1>4 DEF Holds

\* A stretch and the next one.
LEMMA HoldsJoin ==
  ASSUME NEW P, Packets(P), NEW q \in Seq(P), NEW r \in Seq(P),
         NEW n \in Nat, NEW m \in Nat, NEW f, NEW g, NEW h,
         Holds(f, n, q), Holds(g, m, r),
         \A k \in 1 .. n : h[k] = f[k],
         \A k \in 1 .. m : h[n + k] = g[k]
  PROVE  q \o r \in Seq(P) /\ Holds(h, n + m, q \o r)
<1>1. PICK b : Boundaries(f, n, q, b)
  BY DEF Holds
<1>2. PICK c : Boundaries(g, m, r, c)
  BY DEF Holds
<1> DEFINE x == Len(q)
           y == Len(r)
           s == q \o r
           d == [i \in 0 .. x + y |-> IF i <= x THEN b[i] ELSE n + c[i - x]]
<1>3. /\ x \in Nat /\ y \in Nat /\ s \in Seq(P) /\ Len(s) = x + y
      /\ \A i \in 1 .. x : s[i] = q[i]
      /\ \A i \in x + 1 .. x + y : s[i] = r[i - x]
  BY LenProperties, ConcatProperties
<1>4. /\ b \in [0 .. x -> 0 .. n] /\ b[0] = 0 /\ b[x] = n
      /\ \A i \in 0 .. x, j \in 0 .. x : i <= j => b[i] <= b[j]
  BY <1>1 DEF Boundaries
<1>5. /\ c \in [0 .. y -> 0 .. m] /\ c[0] = 0 /\ c[y] = m
      /\ \A i \in 0 .. y, j \in 0 .. y : i <= j => c[i] <= c[j]
  BY <1>2 DEF Boundaries
<1> HIDE DEF s, x, y
<1>6. (\A i \in 0 .. x : b[i] \in 0 .. n) /\ (\A i \in 0 .. y : c[i] \in 0 .. m)
  BY <1>4, <1>5
<1>7. \A i \in x .. x + y : d[i] = n + c[i - x] /\ i - x \in 0 .. y
  BY <1>3, <1>4, <1>5
<1>8. \A i \in 0 .. x : d[i] = b[i]
  BY <1>3
<1> HIDE DEF d
<1>9. /\ d \in [0 .. Len(s) -> 0 .. n + m] /\ d[0] = 0 /\ d[Len(s)] = n + m
  <2>1. \A i \in 0 .. x + y : d[i] \in 0 .. n + m
    <3> SUFFICES ASSUME NEW i \in 0 .. x + y PROVE d[i] \in 0 .. n + m
      OBVIOUS
    <3>1. CASE i <= x
      <4>1. i \in 0 .. x /\ b[i] \in 0 .. n /\ d[i] = b[i]
        BY <1>3, <1>6, <1>8, <3>1
      <4> QED
        BY <4>1
    <3>2. CASE i > x
      <4>1. i \in x .. x + y /\ i - x \in 0 .. y
        BY <1>3, <3>2
      <4>2. c[i - x] \in 0 .. m /\ d[i] = n + c[i - x]
        BY <1>6, <1>7, <4>1
      <4> QED
        BY <4>2
    <3> QED
      BY <1>3, <3>1, <3>2
  <2>2. d[0] = 0 /\ d[x + y] = n + m
    BY <1>3, <1>4, <1>5, <1>7, <1>8
  <2>3. d = [i \in 0 .. x + y |-> d[i]]
    BY DEF d
  <2> QED
    BY <1>3, <2>1, <2>2, <2>3
<1>10. \A i \in 0 .. x + y, j \in 0 .. x + y : i <= j => d[i] <= d[j]
  <2> SUFFICES ASSUME NEW i \in 0 .. x + y, NEW j \in 0 .. x + y, i <= j
               PROVE  d[i] <= d[j]
    OBVIOUS
  <2>1. CASE j <= x
    BY <1>3, <1>4, <1>8, <2>1
  <2>2. CASE i > x
    <3>1. i \in x .. x + y /\ j \in x .. x + y /\ i - x \in 0 .. y /\ j - x \in 0 .. y
          /\ i - x <= j - x
      BY <1>3, <2>2
    <3>2. c[i - x] <= c[j - x] /\ c[i - x] \in Int /\ c[j - x] \in Int
      BY <1>5, <1>6, <3>1
    <3>3. d[i] = n + c[i - x] /\ d[j] = n + c[j - x]
      BY <1>7, <3>1
    <3> QED
      BY <3>2, <3>3
  <2>3. CASE i <= x /\ j > x
    <3>1. i \in 0 .. x /\ j \in x .. x + y /\ j - x \in 0 .. y
      BY <1>3, <2>3
    <3>2. b[i] \in 0 .. n /\ c[j - x] \in 0 .. m
      BY <1>6, <3>1
    <3>3. d[i] = b[i] /\ d[j] = n + c[j - x]
      BY <1>7, <1>8, <3>1
    <3> QED
      BY <3>2, <3>3
  <2> QED
    BY <1>3, <2>1, <2>2, <2>3
<1>11. ASSUME NEW i \in 1 .. x + y
       PROVE  /\ d[i] = d[i - 1] + Len(s[i])
              /\ \A k \in 1 .. Len(s[i]) : h[d[i - 1] + k] = s[i][k]
  <2>1. CASE i <= x
    <3>1. i \in 1 .. x /\ i - 1 \in 0 .. x /\ i \in 0 .. x
      BY <1>3, <2>1
    <3>2. s[i] = q[i] /\ d[i] = b[i] /\ d[i - 1] = b[i - 1] /\ Len(q[i]) \in Nat
      BY <1>3, <1>8, <3>1, PacketLength DEF x
    <3>3. b[i] = b[i - 1] + Len(q[i]) /\ b[i] \in 0 .. n /\ b[i - 1] \in 0 .. n
      BY <1>1, <1>4, <3>1 DEF Boundaries, x
    <3>4. ASSUME NEW k \in 1 .. Len(q[i]) PROVE h[b[i - 1] + k] = q[i][k]
      <4>1. b[i - 1] + k \in 1 .. n
        BY <3>2, <3>3
      <4>2. f[b[i - 1] + k] = q[i][k]
        BY <1>1, <3>1 DEF Boundaries, x
      <4> QED
        BY <4>1, <4>2
    <3> QED
      BY <3>2, <3>3, <3>4
  <2>2. CASE i > x
    <3> DEFINE j == i - x
    <3>1. j \in 1 .. y /\ i \in x + 1 .. x + y /\ i \in x .. x + y /\ i - 1 \in x .. x + y
          /\ (i - 1) - x = j - 1
      BY <1>3, <2>2
    <3>2. d[i] = n + c[j] /\ d[i - 1] = n + c[j - 1] /\ s[i] = r[j]
      BY <1>3, <1>7, <3>1
    <3> HIDE DEF j
    <3>3. Len(r[j]) \in Nat
      BY <3>1, PacketLength DEF y
    <3>4. c[j] = c[j - 1] + Len(r[j]) /\ c[j] \in 0 .. m /\ c[j - 1] \in 0 .. m
      <4>1. j \in 1 .. y /\ j \in 0 .. y /\ j - 1 \in 0 .. y
        BY <1>3, <3>1
      <4>2. c[j] = c[j - 1] + Len(r[j])
        BY <1>2, <4>1 DEF Boundaries, y
      <4> QED
        BY <1>6, <4>1, <4>2
    <3>5. ASSUME NEW k \in 1 .. Len(r[j]) PROVE h[d[i - 1] + k] = r[j][k]
      <4>1. c[j - 1] + k \in 1 .. m
        <5> DEFINE e == c[j - 1]
                   l == Len(r[j])
        <5>1. e \in 0 .. m /\ e + l \in 0 .. m /\ k \in 1 .. l /\ l \in Nat
          BY <3>3, <3>4
        <5> HIDE DEF e, l
        <5>2. e + k \in 1 .. m
          BY <5>1
        <5> QED
          BY <5>2 DEF e
      <4>2. g[c[j - 1] + k] = r[j][k]
        BY <1>2, <3>1 DEF Boundaries, y
      <4>3. h[n + (c[j - 1] + k)] = g[c[j - 1] + k]
        BY <4>1
      <4>4. d[i - 1] + k = n + (c[j - 1] + k)
        BY <3>2, <3>3, <3>4
      <4> QED
        BY <4>2, <4>3, <4>4
    <3> QED
      BY <3>2, <3>3, <3>4, <3>5
  <2> QED
    BY <1>3, <2>1, <2>2
<1>12. Boundaries(h, n + m, s, d)
  BY <1>3, <1>9, <1>10, <1>11 DEF Boundaries
<1>13. s \in Seq(P) /\ Holds(h, n + m, s)
  BY <1>3, <1>12 DEF Holds
<1> QED
  BY <1>13 DEF s

\* The packet at the front of a stretch, and what is behind it.
LEMMA HoldsFirst ==
  ASSUME NEW P, Packets(P), NEW q \in Seq(P), NEW n \in Nat, NEW f,
         Holds(f, n, q)
  PROVE  /\ n = 0 <=> q = <<>>
         /\ n # 0 => /\ Len(q) >= 1 /\ q[1] \in P /\ q[1] \in Seq(Nat)
                     /\ Len(q[1]) \in 1 .. n /\ Len(q[1]) = HeaderBytes + q[1][1]
                     /\ \A k \in 1 .. Len(q[1]) : f[k] = q[1][k]
<1>1. PICK b : Boundaries(f, n, q, b)
  BY DEF Holds
<1>2. Len(q) \in Nat /\ (q = <<>> <=> Len(q) = 0)
  BY EmptySeq, LenProperties
<1>3. CASE Len(q) = 0
  BY <1>1, <1>2, <1>3 DEF Boundaries
<1>4. CASE Len(q) # 0
  <2>1. 1 \in 1 .. Len(q) /\ 0 \in 0 .. Len(q) /\ 1 \in 0 .. Len(q)
    BY <1>2, <1>4
  <2>2. /\ q[1] \in P /\ q[1] \in Seq(Nat) /\ Len(q[1]) \in Nat
        /\ Len(q[1]) >= HeaderBytes /\ Len(q[1]) = HeaderBytes + q[1][1]
    BY <2>1, PacketLength
  <2>3. b[1] = Len(q[1]) /\ b[1] \in 0 .. n /\ b[0] = 0
    BY <1>1, <2>1, <2>2 DEF Boundaries
  <2>4. \A k \in 1 .. Len(q[1]) : f[k] = q[1][k]
    <3> SUFFICES ASSUME NEW k \in 1 .. Len(q[1]) PROVE f[k] = q[1][k]
      OBVIOUS
    <3>1. f[b[1 - 1] + k] = q[1][k]
      BY <1>1, <2>1 DEF Boundaries
    <3>2. b[1 - 1] + k = k
      BY <2>2, <2>3
    <3> QED
      BY <3>1, <3>2
  <2> QED
    BY <1>2, <1>4, <2>2, <2>3, <2>4 DEF HeaderBytes
<1> QED
  BY <1>3, <1>4

LEMMA HoldsRest ==
  ASSUME NEW P, Packets(P), NEW q \in Seq(P), NEW n \in Nat \ {0}, NEW f, NEW g,
         Holds(f, n, q), \A k \in 1 .. n - Len(q[1]) : g[k] = f[Len(q[1]) + k]
  PROVE  Tail(q) \in Seq(P) /\ Holds(g, n - Len(q[1]), Tail(q))
<1>1. PICK b : Boundaries(f, n, q, b)
  BY DEF Holds
<1> DEFINE l == Len(q[1])
           x == Len(q)
           r == Tail(q)
           c == [i \in 0 .. x - 1 |-> b[i + 1] - l]
<1>2. q # <<>> /\ l \in 1 .. n
  BY HoldsFirst, EmptySeq
<1>3. /\ x \in Nat /\ x >= 1 /\ r \in Seq(P) /\ Len(r) = x - 1
      /\ \A i \in 1 .. x - 1 : r[i] = q[i + 1]
  BY <1>2, HeadTailProperties, LenProperties, EmptySeq
<1>4. \A i \in 0 .. x : b[i] \in 0 .. n
  BY <1>1 DEF Boundaries
<1>5. /\ b[0] = 0 /\ b[1] = l /\ b[x] = n
      /\ \A i \in 0 .. x, j \in 0 .. x : i <= j => b[i] <= b[j]
  <2>1. b[1] = b[1 - 1] + l /\ b[0] = 0 /\ b[x] = n
    BY <1>1, <1>3 DEF Boundaries
  <2> QED
    BY <1>1, <1>2, <2>1 DEF Boundaries
<1>6. \A i \in 1 .. x : b[i] \in l .. n
  BY <1>2, <1>3, <1>4, <1>5
<1>7. \A i \in 0 .. x - 1 : c[i] = b[i + 1] - l /\ c[i] \in 0 .. n - l
  <2> SUFFICES ASSUME NEW i \in 0 .. x - 1 PROVE b[i + 1] - l \in 0 .. n - l
    OBVIOUS
  <2>1. i + 1 \in 1 .. x
    BY <1>3
  <2>2. b[i + 1] \in l .. n
    BY <1>6, <2>1
  <2> QED
    BY <1>2, <2>2
<1>8. c \in [0 .. x - 1 -> 0 .. n - l]
  BY <1>7
<1>9. c[0] = 0 /\ c[x - 1] = n - l
  BY <1>2, <1>3, <1>5, <1>7
<1> HIDE DEF c
<1>10. \A i \in 0 .. x - 1, j \in 0 .. x - 1 : i <= j => c[i] <= c[j]
  <2> SUFFICES ASSUME NEW i \in 0 .. x - 1, NEW j \in 0 .. x - 1, i <= j
               PROVE  c[i] <= c[j]
    OBVIOUS
  <2>1. i + 1 \in 0 .. x /\ j + 1 \in 0 .. x /\ i + 1 <= j + 1
    BY <1>3
  <2>2. b[i + 1] <= b[j + 1] /\ b[i + 1] \in Int /\ b[j + 1] \in Int /\ l \in Int
    BY <1>2, <1>4, <1>5, <2>1
  <2> QED
    BY <1>7, <2>2
<1>11. ASSUME NEW i \in 1 .. x - 1
       PROVE  /\ c[i] = c[i - 1] + Len(r[i])
              /\ \A k \in 1 .. Len(r[i]) : g[c[i - 1] + k] = r[i][k]
  <2>1. i + 1 \in 1 .. x /\ i \in 1 .. x /\ i - 1 \in 0 .. x - 1 /\ i \in 0 .. x - 1
        /\ (i - 1) + 1 = i /\ (i + 1) - 1 = i
    BY <1>3
  <2>2. r[i] = q[i + 1] /\ Len(q[i + 1]) \in Nat
    BY <1>3, <2>1, PacketLength
  <2>3. b[i + 1] = b[i] + Len(q[i + 1]) /\ b[i] \in l .. n /\ b[i + 1] \in l .. n
    BY <1>1, <1>6, <2>1 DEF Boundaries
  <2>4. c[i] = b[i + 1] - l /\ c[i - 1] = b[i] - l
    BY <1>7, <2>1
  <2>5. ASSUME NEW k \in 1 .. Len(q[i + 1]) PROVE g[c[i - 1] + k] = q[i + 1][k]
    <3>1. c[i - 1] + k \in 1 .. n - l /\ l + (c[i - 1] + k) = b[i] + k
      <4> DEFINE e == b[i]
                 m == Len(q[i + 1])
      <4>1. e \in l .. n /\ e + m \in l .. n /\ m \in Nat /\ k \in 1 .. m
            /\ l \in Nat /\ c[i - 1] = e - l
        BY <1>2, <2>2, <2>3, <2>4
      <4> HIDE DEF e, m, l
      <4>2. (e - l) + k \in 1 .. n - l /\ l + ((e - l) + k) = e + k
        BY <4>1
      <4> QED
        BY <4>1, <4>2 DEF e
    <3>2. g[c[i - 1] + k] = f[l + (c[i - 1] + k)]
      BY <3>1
    <3>3. f[b[i] + k] = q[i + 1][k]
      BY <1>1, <2>1 DEF Boundaries
    <3> QED
      BY <3>1, <3>2, <3>3
  <2> QED
    BY <1>2, <2>2, <2>3, <2>4, <2>5
<1> HIDE DEF r, l, x
<1>12. Boundaries(g, n - l, r, c)
  BY <1>3, <1>8, <1>9, <1>10, <1>11 DEF Boundaries
<1>13. r \in Seq(P) /\ Holds(g, n - l, r)
  BY <1>3, <1>12 DEF Holds
<1> QED
  BY <1>13 DEF r, l

-----------------------------------------------------------------------------
(* Decoding.                                                               *)

\* Where the packet at k of the bytes s ends, and Decode's recursion.
PacketEnd(s, k) == k + HeaderBytes + s[k + 1]

Unfold(s, h, k) ==
  IF k = Len(s) THEN <<>>
  ELSE IF PacketEnd(s, k) > Len(s) THEN << SubSeq(s, k + 1, Len(s)) >>
  ELSE << SubSeq(s, k + 1, PacketEnd(s, k)) >> \o h[PacketEnd(s, k)]

LEMMA DecodeExists ==
  ASSUME NEW s \in Seq(Nat)
  PROVE  \E h : h = [k \in 0 .. Len(s) |-> Unfold(s, h, k)]
<1> DEFINE n == Len(s)
           Q(m) == \E h : \A k \in 0 .. n : k >= n - m => h[k] = Unfold(s, h, k)
           S == {m \in Nat : Q(m)}
<1>1. n \in Nat /\ \A k \in 0 .. n : k # n => PacketEnd(s, k) \in Nat /\ PacketEnd(s, k) > k
  BY LenProperties, ElementOfSeq DEF PacketEnd, HeaderBytes
<1>2. Q(0)
  <2> DEFINE h == [k \in 0 .. n |-> <<>>]
  <2>1. \A k \in 0 .. n : k >= n - 0 => h[k] = Unfold(s, h, k)
    BY <1>1 DEF Unfold
  <2> QED
    BY <2>1
<1>3. ASSUME NEW m \in Nat, Q(m) PROVE Q(m + 1)
  <2>1. PICK h : \A k \in 0 .. n : k >= n - m => h[k] = Unfold(s, h, k)
    BY <1>3
  <2> DEFINE g == [k \in 0 .. n |-> IF k < n - m THEN Unfold(s, h, k) ELSE h[k]]
  <2>2. ASSUME NEW k \in 0 .. n, k >= n - (m + 1) PROVE g[k] = Unfold(s, g, k)
    <3>1. g[k] = Unfold(s, h, k)
      BY <1>1, <2>1
    <3>2. CASE k = n
      BY <3>1, <3>2 DEF Unfold
    <3>3. CASE k # n /\ PacketEnd(s, k) > n
      BY <3>1, <3>3 DEF Unfold
    <3>4. CASE k # n /\ ~(PacketEnd(s, k) > n)
      <4>1. PacketEnd(s, k) \in 0 .. n /\ ~(PacketEnd(s, k) < n - m)
        BY <1>1, <2>2, <3>4
      <4>2. g[PacketEnd(s, k)] = h[PacketEnd(s, k)]
        BY <4>1
      <4> QED
        BY <3>1, <4>2 DEF Unfold
    <3> QED
      BY <3>2, <3>3, <3>4
  <2> HIDE DEF g
  <2>3. \A k \in 0 .. n : k >= n - (m + 1) => g[k] = Unfold(s, g, k)
    BY <2>2
  <2> QED
    BY <2>3
<1> HIDE DEF Q
<1>4. 0 \in S /\ \A m \in Nat : m \in S => m + 1 \in S
  BY <1>2, <1>3
<1> HIDE DEF S
<1>5. \A m \in Nat : m \in S
  BY <1>4, SetInduction
<1>6. PICK h : \A k \in 0 .. n : k >= n - n => h[k] = Unfold(s, h, k)
  BY <1>1, <1>5 DEF Q, S
<1> DEFINE g == [k \in 0 .. n |-> h[k]]
<1>7. ASSUME NEW k \in 0 .. n PROVE g[k] = Unfold(s, g, k)
  <2>1. g[k] = Unfold(s, h, k)
    BY <1>1, <1>6
  <2>2. CASE k = n \/ PacketEnd(s, k) > n
    BY <2>1, <2>2 DEF Unfold
  <2>3. CASE k # n /\ ~(PacketEnd(s, k) > n)
    <3>1. PacketEnd(s, k) \in 0 .. n
      BY <1>1, <2>3
    <3>2. g[PacketEnd(s, k)] = h[PacketEnd(s, k)]
      BY <3>1
    <3> QED
      BY <2>1, <3>2 DEF Unfold
  <2> QED
    BY <2>2, <2>3
<1>8. g = [k \in 0 .. n |-> Unfold(s, g, k)]
  BY <1>7
<1> HIDE DEF g
<1> QED
  BY <1>8

\* Bytes that hold packets are decoded into them.
LEMMA HoldsDecode ==
  ASSUME NEW P, Packets(P), NEW q \in Seq(P), NEW s \in Seq(Nat), Holds(s, Len(s), q)
  PROVE  Decode(s) = q
<1> DEFINE n == Len(s)
           x == Len(q)
           R(h) == h = [k \in 0 .. n |-> Unfold(s, h, k)]
           F == CHOOSE h : R(h)
<1>1. PICK b : Boundaries(s, n, q, b)
  BY DEF Holds
<1> DEFINE S == {m \in Nat : m <= x => F[b[x - m]] = SubSeq(q, x - m + 1, x)}
<1>2. n \in Nat /\ x \in Nat /\ SubSeq(q, 1, x) = q /\ SubSeq(q, x + 1, x) = <<>>
  BY LenProperties, SubSeqFull, SubSeqEmpty
<1>3. R(F)
  <2>1. \E h : R(h)
    BY DecodeExists
  <2> HIDE DEF R
  <2> QED
    BY <2>1, Zenon
<1>4. Decode(s) = F[0]
  BY DEF Decode, Unfold, PacketEnd
<1> HIDE DEF F
<1>5. \A k \in 0 .. n : F[k] = Unfold(s, F, k)
  BY <1>3
<1>6. 0 \in S
  <2>1. b[x] = n
    BY <1>1 DEF Boundaries
  <2>2. F[n] = <<>>
    <3>1. n \in 0 .. n
      BY <1>2
    <3>2. F[n] = Unfold(s, F, n)
      BY <1>5, <3>1
    <3> QED
      BY <3>2 DEF Unfold
  <2>3. x - 0 = x
    BY <1>2
  <2> QED
    BY <1>2, <2>1, <2>2, <2>3
<1>7. ASSUME NEW m \in Nat, m \in S PROVE m + 1 \in S
  <2> SUFFICES ASSUME m + 1 <= x
               PROVE  F[b[x - (m + 1)]] = SubSeq(q, x - (m + 1) + 1, x)
    OBVIOUS
  <2> DEFINE i == x - m
             k == b[i - 1]
             l == Len(q[i])
             e == b[i]
  <2>1. i \in 1 .. x /\ i - 1 \in 0 .. x /\ i \in 0 .. x /\ x - (m + 1) = i - 1
        /\ x - (m + 1) + 1 = i /\ x - m + 1 = i + 1 /\ m <= x
    BY <1>2
  <2>2. F[b[i]] = SubSeq(q, i + 1, x)
    BY <1>7, <2>1
  <2> HIDE DEF i
  <2>3. q[i] \in P /\ q[i] \in Seq(Nat) /\ l \in Nat /\ l >= HeaderBytes
        /\ l = HeaderBytes + q[i][1]
    BY <2>1, PacketLength
  <2>4. k \in 0 .. n /\ e \in 0 .. n /\ e = k + l
    BY <1>1, <2>1 DEF Boundaries
  <2>5. \A j \in 1 .. l : s[k + j] = q[i][j]
    BY <1>1, <2>1 DEF Boundaries
  <2> HIDE DEF k, l, e
  <2>6. PacketEnd(s, k) = e /\ k # n /\ ~(e > n)
    <3>1. 1 \in 1 .. l /\ l \in Nat /\ l >= 3
      BY <2>3 DEF HeaderBytes
    <3>2. s[k + 1] = q[i][1] /\ q[i][1] \in Nat
      BY <2>3, <2>5, <3>1, ElementOfSeq DEF l
    <3>3. PacketEnd(s, k) = (k + HeaderBytes) + q[i][1]
      BY <3>2 DEF PacketEnd
    <3>4. k \in Int /\ e \in Int /\ n \in Nat /\ e <= n /\ e = k + l
      BY <1>2, <2>4
    <3> HIDE DEF n
    <3>5. l = HeaderBytes + q[i][1]
      BY <2>3
    <3>6. PacketEnd(s, k) = e
      <4> DEFINE w == q[i][1]
      <4>1. w \in Nat /\ l = HeaderBytes + w /\ HeaderBytes = 3
        BY <3>2, <3>5 DEF HeaderBytes
      <4>2. PacketEnd(s, k) = (k + HeaderBytes) + w
        BY <3>3
      <4> HIDE DEF w
      <4>3. (k + HeaderBytes) + w = e
        BY ONLY <3>4, <4>1
      <4> QED
        BY <4>2, <4>3
    <3>7. k # n /\ ~(e > n)
      BY ONLY <3>1, <3>4
    <3> QED
      BY <3>6, <3>7
  <2>7. SubSeq(s, k + 1, e) = q[i]
    <3> DEFINE t == SubSeq(s, k + 1, e)
    <3>1. \A j \in k + 1 .. e : s[j] \in Nat
      BY <1>2, <2>4, ElementOfSeq
    <3>2. k + 1 \in Int /\ e \in Int
      BY <2>4
    <3>3. /\ t \in Seq(Nat) /\ Len(t) = IF k + 1 <= e THEN e - (k + 1) + 1 ELSE 0
          /\ \A j \in 1 .. e - (k + 1) + 1 : t[j] = s[(k + 1) + j - 1]
      BY <3>1, <3>2, SubSeqProperties
    <3> HIDE DEF t
    <3>4. Len(t) = l /\ \A j \in 1 .. l : t[j] = s[k + j]
      <4>1. e - (k + 1) + 1 = l /\ (k + 1 <= e \/ l = 0)
        <5>1. k \in Int /\ e = k + l
          BY <1>2, <2>4
        <5>2. l \in Nat
          BY <2>3
        <5> QED
          BY ONLY <5>1, <5>2
      <4>2. \A j \in 1 .. l : (k + 1) + j - 1 = k + j
        BY <1>2, <2>3, <2>4
      <4> QED
        BY <3>3, <4>1, <4>2
    <3>5. \A j \in 1 .. Len(t) : t[j] = q[i][j]
      BY <2>5, <3>4
    <3>6. t = q[i]
      BY <2>3, <3>3, <3>4, <3>5, SeqEqual DEF l
    <3> QED
      BY <3>6 DEF t
  <2>8. F[k] = << q[i] >> \o F[e]
    BY <1>5, <2>4, <2>6, <2>7 DEF Unfold
  <2>9. SubSeq(q, i, x) = << q[i] >> \o SubSeq(q, i + 1, x)
    <3>1. x \in i .. Len(q)
      BY <1>2, <2>1
    <3> QED
      BY <2>1, <3>1, SubSeqRecursiveFirst
  <2> QED
    BY <2>1, <2>2, <2>8, <2>9 DEF k, e
<1>8. \A m \in Nat : m \in S
  <2> HIDE DEF S
  <2> QED
    BY <1>6, <1>7, SetInduction
<1>9. F[b[x - x]] = SubSeq(q, x - x + 1, x)
  <2>1. x \in S /\ x <= x
    <3> HIDE DEF S, x
    <3>1. x \in Nat
      BY <1>2
    <3>2. x \in S
      BY ONLY <3>1, <1>8
    <3>3. x <= x
      BY ONLY <3>1
    <3> QED
      BY <3>2, <3>3
  <2> QED
    BY <2>1
<1>10. b[0] = 0 /\ x - x = 0 /\ x - x + 1 = 1
  BY <1>1, <1>2 DEF Boundaries
<1> QED
  BY <1>2, <1>4, <1>9, <1>10

-----------------------------------------------------------------------------
(* Several packets, one behind the other.                                  *)

Joined(q, h, i) == IF i = 1 THEN q[i] ELSE h[i - 1] \o q[i]

LEMMA FlattenExists ==
  ASSUME NEW q, Len(q) \in Nat
  PROVE  \E h : h = [i \in 1 .. Len(q) |-> Joined(q, h, i)]
<1> DEFINE n == Len(q)
           Q(m) == \E h : \A i \in 1 .. n : i <= m => h[i] = Joined(q, h, i)
           S == {m \in Nat : Q(m)}
<1>1. Q(0)
  OBVIOUS
<1>2. ASSUME NEW m \in Nat, Q(m) PROVE Q(m + 1)
  <2>1. PICK h : \A i \in 1 .. n : i <= m => h[i] = Joined(q, h, i)
    BY <1>2
  <2> DEFINE g == [i \in 1 .. n |-> IF i > m THEN Joined(q, h, i) ELSE h[i]]
  <2>2. ASSUME NEW i \in 1 .. n, i <= m + 1 PROVE g[i] = Joined(q, g, i)
    <3>1. g[i] = Joined(q, h, i)
      BY <2>1
    <3>2. CASE i = 1
      BY <3>1, <3>2 DEF Joined
    <3>3. CASE i # 1
      <4>1. i - 1 \in 1 .. n /\ ~(i - 1 > m)
        BY <2>2, <3>3
      <4>2. g[i - 1] = h[i - 1]
        BY <4>1
      <4> QED
        BY <3>1, <4>2 DEF Joined
    <3> QED
      BY <3>2, <3>3
  <2> HIDE DEF g
  <2>3. \A i \in 1 .. n : i <= m + 1 => g[i] = Joined(q, g, i)
    BY <2>2
  <2> QED
    BY <2>3
<1> HIDE DEF Q
<1>3. 0 \in S /\ \A m \in Nat : m \in S => m + 1 \in S
  BY <1>1, <1>2
<1> HIDE DEF S
<1>4. \A m \in Nat : m \in S
  BY <1>3, SetInduction
<1>5. PICK h : \A i \in 1 .. n : i <= n => h[i] = Joined(q, h, i)
  BY <1>4 DEF Q, S
<1> DEFINE g == [i \in 1 .. n |-> h[i]]
<1>6. ASSUME NEW i \in 1 .. n PROVE g[i] = Joined(q, g, i)
  <2>1. g[i] = Joined(q, h, i)
    BY <1>5
  <2>2. CASE i = 1
    BY <2>1, <2>2 DEF Joined
  <2>3. CASE i # 1
    <3>1. i - 1 \in 1 .. n
      BY <2>3
    <3>2. g[i - 1] = h[i - 1]
      BY <3>1
    <3> QED
      BY <2>1, <3>2 DEF Joined
  <2> QED
    BY <2>2, <2>3
<1>7. g = [i \in 1 .. n |-> Joined(q, g, i)]
  BY <1>6
<1> HIDE DEF g
<1> QED
  BY <1>7

LEMMA HoldsFlatten ==
  ASSUME NEW P, Packets(P), NEW q \in Seq(P)
  PROVE  FlattenSeq(q) \in Seq(Nat) /\ Holds(FlattenSeq(q), Len(FlattenSeq(q)), q)
<1> DEFINE n == Len(q)
           R(h) == h = [i \in 1 .. n |-> Joined(q, h, i)]
           F == CHOOSE h : R(h)
           G(i) == F[i] \in Seq(Nat) /\ Holds(F[i], Len(F[i]), SubSeq(q, 1, i))
           S == {m \in Nat : m + 1 <= n => G(m + 1)}
<1>1. n \in Nat /\ SubSeq(q, 1, n) = q
  BY LenProperties, SubSeqFull
<1>2. CASE n = 0
  <2>1. q = <<>>
    BY <1>2, EmptySeq
  <2>2. FlattenSeq(q) = <<>>
    BY <1>2, <2>1 DEF FlattenSeq
  <2> QED
    BY <2>1, <2>2, HoldsNone, EmptySeq
<1>3. CASE n # 0
  <2>1. R(F)
    <3>1. \E h : R(h)
      BY <1>1, FlattenExists
    <3> HIDE DEF R
    <3> QED
      BY <3>1, Zenon
  <2>2. FlattenSeq(q) = F[n]
    BY <1>3 DEF FlattenSeq, Joined
  <2> HIDE DEF F
  <2>3. \A i \in 1 .. n : F[i] = Joined(q, F, i)
    BY <2>1
  <2>4. \A i \in 1 .. n : q[i] \in P /\ IsPacket(q[i])
    BY ElementOfSeq DEF Packets
  <2>5. G(1)
    <3>1. 1 \in 1 .. n /\ 1 \in 1 .. Len(q) /\ n \in 1 .. Len(q)
      BY <1>1, <1>3
    <3>2. F[1] = q[1]
      BY <2>3, <3>1 DEF Joined
    <3>3. SubSeq(q, 1, 1) = << q[1] >>
      <4>1. SubSeq(q, 1, 0) = <<>> /\ << q[1] >> \in Seq(P)
        BY <2>4, <3>1, SubSeqEmpty
      <4>2. SubSeq(q, 1, 1) = SubSeq(q, 1, 1 - 1) \o << q[1] >>
        <5>1. 1 \in 1 .. Len(q) /\ 1 \in 1 .. 1
          BY <3>1
        <5> QED
          BY <5>1, SubSeqRecursiveSecond
      <4>3. 1 - 1 = 0
        OBVIOUS
      <4>4. <<>> \o << q[1] >> = << q[1] >>
        BY <4>1, ConcatEmptySeq
      <4> QED
        BY <4>1, <4>2, <4>3, <4>4
    <3>4. Holds(q[1], Len(q[1]), << q[1] >>) /\ q[1] \in Seq(Nat)
      BY <2>4, <3>1, HoldsOne DEF IsPacket
    <3> QED
      BY <3>2, <3>3, <3>4
  <2>6. ASSUME NEW m \in Nat, m \in S PROVE m + 1 \in S
    <3> SUFFICES ASSUME (m + 1) + 1 <= n PROVE G((m + 1) + 1)
      OBVIOUS
    <3> DEFINE i == (m + 1) + 1
               p == q[i]
               f == F[i - 1]
               r == SubSeq(q, 1, i - 1)
    <3>1. i \in 1 .. n /\ i # 1 /\ i - 1 = m + 1 /\ i - 1 \in 1 .. n
      BY <1>1
    <3>2. f \in Seq(Nat) /\ Holds(f, Len(f), r)
      BY <2>6, <3>1
    <3> HIDE DEF i
    <3>3. p \in P /\ p \in Seq(Nat) /\ Holds(p, Len(p), << p >>) /\ << p >> \in Seq(P)
      BY <2>4, <3>1, HoldsOne DEF IsPacket
    <3>4. F[i] = f \o p
      BY <2>3, <3>1 DEF Joined
    <3>5. SubSeq(q, 1, i) = r \o << p >>
      <4>1. 1 \in 1 .. Len(q) /\ i \in 1 .. Len(q)
        BY <1>1, <3>1
      <4> QED
        BY <4>1, SubSeqRecursiveSecond
    <3>6. r \in Seq(P)
      <4>1. \A j \in 1 .. i - 1 : q[j] \in P
        BY <2>4, <3>1
      <4> QED
        BY <3>1, <4>1, SubSeqProperties
    <3> HIDE DEF p, f, r
    <3>7. /\ f \o p \in Seq(Nat) /\ Len(f \o p) = Len(f) + Len(p)
          /\ Len(f) \in Nat /\ Len(p) \in Nat
          /\ \A k \in 1 .. Len(f) : (f \o p)[k] = f[k]
          /\ \A k \in 1 .. Len(p) : (f \o p)[Len(f) + k] = p[k]
      BY <3>2, <3>3, ConcatProperties, LenProperties
    <3>8. Holds(f \o p, Len(f) + Len(p), r \o << p >>)
      BY <3>2, <3>3, <3>6, <3>7, HoldsJoin
    <3>9. G(i)
      BY <3>4, <3>5, <3>7, <3>8
    <3> QED
      BY <3>9 DEF i
  <2>7. 0 \in S
    BY <2>5
  <2> HIDE DEF S
  <2>8. \A m \in Nat : m \in S
    BY <2>6, <2>7, SetInduction
  <2>9. n - 1 \in S /\ n - 1 \in Nat /\ (n - 1) + 1 = n
    BY <1>1, <1>3, <2>8
  <2>10. G(n)
    BY <2>9 DEF S
  <2> QED
    BY <1>1, <2>2, <2>10
<1> QED
  BY <1>2, <1>3

LEMMA BatchIsSeq ==
  ASSUME NEW P, NEW q \in BoundedSeq(P, MaxBatch)
  PROVE  q \in Seq(P)
BY BatchAssumption, SeqDef DEF BoundedSeq, SeqOf

-----------------------------------------------------------------------------
(* Indices.                                                                *)

\* The bytes of a ring from index i on.
Ring(buffer, i) == [k \in 1 .. Size |-> buffer[Advance(i, k - 1) + 1]]

LEMMA UsedValue ==
  ASSUME NEW i \in Index, NEW j \in Index
  PROVE  /\ Used(j, i) = IF j >= i THEN j - i ELSE j - i + Size
         /\ Used(j, i) \in 0 .. Size - 1
<1>1. i \in Int /\ j \in Int /\ Size \in Nat /\ 0 <= i /\ i < Size /\ 0 <= j /\ j < Size
  BY RingSizeAssumption DEF Index
<1>2. CASE j >= i
  <2>1. (j - i + Size) % Size = j - i
    BY <1>1, <1>2
  <2> QED
    BY <1>1, <1>2, <2>1 DEF Used
<1>3. CASE j < i
  <2>1. (j - i + Size) % Size = j - i + Size
    BY <1>1, <1>3
  <2> QED
    BY <1>1, <1>3, <2>1 DEF Used
<1> QED
  BY <1>1, <1>2, <1>3

LEMMA UsedIsNat ==
  ASSUME NEW i \in Index, NEW j \in Index
  PROVE  Used(j, i) \in Nat
BY UsedValue, RingSizeAssumption

LEMMA AdvanceValue ==
  ASSUME NEW i \in Index, NEW n \in 0 .. Size
  PROVE  /\ Advance(i, n) = IF i + n < Size THEN i + n ELSE i + n - Size
         /\ Advance(i, n) \in Index
<1>1. i \in Int /\ n \in Int /\ Size \in Nat /\ 0 <= i /\ i < Size /\ 0 <= n /\ n <= Size
  BY RingSizeAssumption DEF Index
<1>2. CASE i + n < Size
  <2>1. (i + n) % Size = i + n
    BY <1>1, <1>2
  <2> QED
    BY <1>1, <1>2, <2>1 DEF Advance, Index
<1>3. CASE i + n >= Size
  <2>1. (i + n) % Size = i + n - Size
    BY <1>1, <1>3
  <2> QED
    BY <1>1, <1>3, <2>1 DEF Advance, Index
<1> QED
  BY <1>1, <1>2, <1>3

LEMMA AdvanceUsed ==
  ASSUME NEW i \in Index, NEW j \in Index
  PROVE  Advance(i, Used(j, i)) = j
<1>1. Size \in Nat /\ i \in 0 .. Size - 1 /\ j \in 0 .. Size - 1
  BY RingSizeAssumption DEF Index
<1> DEFINE u == Used(j, i)
<1>2. u \in 0 .. Size /\ u = IF j >= i THEN j - i ELSE j - i + Size
  BY <1>1, UsedValue
<1> HIDE DEF u
<1>3. Advance(i, u) = IF i + u < Size THEN i + u ELSE i + u - Size
  BY <1>2, AdvanceValue
<1>4. Advance(i, u) = j
  BY <1>1, <1>2, <1>3
<1> QED
  BY <1>4 DEF u

LEMMA AdvanceNone ==
  ASSUME NEW i \in Index
  PROVE  Advance(i, 0) = i
<1>1. Size \in Nat /\ i \in 0 .. Size - 1
  BY RingSizeAssumption DEF Index
<1>2. 0 \in 0 .. Size /\ i + 0 = i /\ i + 0 < Size
  BY <1>1
<1> QED
  BY <1>2, AdvanceValue

LEMMA AdvanceMore ==
  ASSUME NEW i \in Index, NEW c \in Nat, c < Size
  PROVE  Advance(Advance(i, c), 1) = Advance(i, c + 1)
<1>1. Size \in Nat /\ Size > 3 /\ i \in 0 .. Size - 1
  BY RingSizeAssumption DEF Index, HeaderBytes
<1> DEFINE a == Advance(i, c)
<1>2. a \in Index /\ a = (IF i + c < Size THEN i + c ELSE i + c - Size) /\ c \in 0 .. Size
  BY <1>1, AdvanceValue
<1> HIDE DEF a
<1>3. a \in 0 .. Size - 1 /\ 1 \in 0 .. Size /\ c + 1 \in 0 .. Size
  BY <1>1, <1>2 DEF Index
<1>4. /\ Advance(a, 1) = IF a + 1 < Size THEN a + 1 ELSE a + 1 - Size
      /\ Advance(i, c + 1) = IF i + (c + 1) < Size THEN i + (c + 1) ELSE i + (c + 1) - Size
  BY <1>2, <1>3, AdvanceValue
<1>5. Advance(a, 1) = Advance(i, c + 1)
  BY <1>1, <1>2, <1>3, <1>4
<1> QED
  BY <1>5 DEF a

LEMMA UsedMore ==
  ASSUME NEW i \in Index, NEW j \in Index, NEW n \in Nat, Used(j, i) + n < Size
  PROVE  /\ Used(Advance(j, n), i) = Used(j, i) + n
         /\ Advance(j, n) \in Index
<1> DEFINE u == Used(j, i)
           a == Advance(j, n)
           v == Used(a, i)
<1>1. Size \in Nat /\ i \in 0 .. Size - 1 /\ j \in 0 .. Size - 1
  BY RingSizeAssumption DEF Index
<1>2. u \in 0 .. Size - 1 /\ u = (IF j >= i THEN j - i ELSE j - i + Size) /\ n \in 0 .. Size
  BY <1>1, UsedValue
<1>3. a \in Index /\ a = IF j + n < Size THEN j + n ELSE j + n - Size
  BY <1>1, <1>2, AdvanceValue
<1>4. v = IF a >= i THEN a - i ELSE a - i + Size
  BY <1>3, UsedValue
<1> HIDE DEF u, a, v
<1>5. u + n < Size
  BY DEF u
<1>6. a \in 0 .. Size - 1
  BY <1>3 DEF Index
<1>7. v = u + n
  BY <1>1, <1>2, <1>3, <1>4, <1>5, <1>6
<1> QED
  BY <1>3, <1>7 DEF u, a, v

\* Different distances lead to different places.
LEMMA AdvanceApart ==
  ASSUME NEW i \in Index, NEW c \in Nat, NEW d \in Nat, c < d, d < Size
  PROVE  Advance(i, c) + 1 # Advance(i, d) + 1
<1>1. Size \in Nat /\ i \in 0 .. Size - 1 /\ c \in 0 .. Size /\ d \in 0 .. Size
  BY RingSizeAssumption DEF Index
<1>2. /\ Advance(i, c) = IF i + c < Size THEN i + c ELSE i + c - Size
      /\ Advance(i, d) = IF i + d < Size THEN i + d ELSE i + d - Size
  BY <1>1, AdvanceValue
<1> QED
  BY <1>1, <1>2

LEMMA AdvanceCell ==
  ASSUME NEW i \in Index, NEW c \in 0 .. Size
  PROVE  Advance(i, c) + 1 \in 1 .. Size
<1>1. Size \in Nat /\ Advance(i, c) \in 0 .. Size - 1
  BY AdvanceValue, RingSizeAssumption DEF Index
<1> QED
  BY <1>1

\* Further along, the same bytes.
LEMMA RingShift ==
  ASSUME NEW buffer, NEW i \in Index, NEW j \in Index, NEW n \in 0 .. Size,
         j = Advance(i, n)
  PROVE  \A k \in 1 .. Size - n : Ring(buffer, i)[n + k] = Ring(buffer, j)[k]
<1> SUFFICES ASSUME NEW k \in 1 .. Size - n
             PROVE  Ring(buffer, i)[n + k] = Ring(buffer, j)[k]
  OBVIOUS
<1>1. Size \in Nat /\ i \in 0 .. Size - 1 /\ j \in 0 .. Size - 1
  BY RingSizeAssumption DEF Index
<1>2. n + k \in 1 .. Size /\ k \in 1 .. Size /\ (n + k) - 1 \in 0 .. Size /\ k - 1 \in 0 .. Size
  BY <1>1
<1>3. Advance(i, (n + k) - 1) = Advance(j, k - 1)
  BY <1>1, <1>2, AdvanceValue
<1> QED
  BY <1>2, <1>3 DEF Ring

\* The cells from i to j are not the ones that follow them.
LEMMA CellsApart ==
  ASSUME NEW i \in Index, NEW j \in Index, NEW c \in Nat, Used(j, i) + c < Size,
         NEW k \in 1 .. Used(j, i)
  PROVE  Advance(i, k - 1) + 1 # Advance(j, c) + 1
<1>1. Size \in Nat /\ i \in 0 .. Size - 1 /\ j \in 0 .. Size - 1
  BY RingSizeAssumption DEF Index
<1> DEFINE u == Used(j, i)
           e == k - 1
<1>2. u \in 0 .. Size - 1 /\ u = (IF j >= i THEN j - i ELSE j - i + Size)
      /\ e \in 0 .. u - 1 /\ e \in 0 .. Size /\ c \in 0 .. Size /\ u + c < Size
  BY <1>1, UsedValue
<1>3. Advance(i, k - 1) # Advance(j, c)
  <2> HIDE DEF u, e
  <2>1. /\ Advance(i, e) = IF i + e < Size THEN i + e ELSE i + e - Size
        /\ Advance(j, c) = IF j + c < Size THEN j + c ELSE j + c - Size
    BY <1>2, AdvanceValue
  <2>2. Advance(i, e) # Advance(j, c)
    BY <1>1, <1>2, <2>1
  <2> QED
    BY <2>2 DEF e
<1>4. Advance(i, k - 1) \in Int /\ Advance(j, c) \in Int
  BY <1>1, <1>2, AdvanceValue DEF Index
<1> QED
  BY <1>3, <1>4

LEMMA RingCells ==
  ASSUME NEW buffer, NEW i \in Index
  PROVE  \A k \in 1 .. Size :
           Ring(buffer, i)[k] = buffer[IF i + k <= Size THEN i + k ELSE i + k - Size]
<1> SUFFICES ASSUME NEW k \in 1 .. Size
             PROVE  Ring(buffer, i)[k]
                      = buffer[IF i + k <= Size THEN i + k ELSE i + k - Size]
  OBVIOUS
<1>1. Size \in Nat /\ i \in 0 .. Size - 1
  BY RingSizeAssumption DEF Index
<1>2. k - 1 \in 0 .. Size
  BY <1>1
<1>3. Advance(i, k - 1) + 1 = IF i + k <= Size THEN i + k ELSE i + k - Size
  BY <1>1, <1>2, AdvanceValue
<1> QED
  BY <1>3 DEF Ring

LEMMA BytesOfRing ==
  ASSUME NEW buffer \in [1 .. Size -> Nat], NEW i \in Index, NEW j \in Index
  PROVE  /\ Bytes(buffer, i, j) \in Seq(Nat)
         /\ Len(Bytes(buffer, i, j)) = Used(j, i)
         /\ \A k \in 1 .. Used(j, i) : Bytes(buffer, i, j)[k] = Ring(buffer, i)[k]
<1> DEFINE d == buffer \o buffer
           n == Used(j, i)
<1>1. Size \in Nat /\ i \in 0 .. Size - 1 /\ n \in 0 .. Size - 1
  BY RingSizeAssumption, UsedValue DEF Index
<1>2. buffer \in Seq(Nat) /\ Len(buffer) = Size
  BY <1>1, SeqDef
<1>3. /\ d \in Seq(Nat) /\ Len(d) = Size + Size
      /\ \A k \in 1 .. Size + Size : d[k] = IF k <= Size THEN buffer[k] ELSE buffer[k - Size]
  BY <1>2, ConcatProperties
<1> HIDE DEF d, n
<1>4. i + 1 \in Int /\ i + n \in Int /\ \A k \in i + 1 .. i + n : d[k] \in Nat
  <2>1. \A k \in i + 1 .. i + n : k \in 1 .. Len(d)
    BY <1>1, <1>3
  <2> QED
    BY <1>1, <1>3, <2>1, ElementOfSeq
<1>5. /\ SubSeq(d, i + 1, i + n) \in Seq(Nat)
      /\ Len(SubSeq(d, i + 1, i + n)) = IF i + 1 <= i + n THEN (i + n) - (i + 1) + 1 ELSE 0
      /\ \A k \in 1 .. (i + n) - (i + 1) + 1 :
           SubSeq(d, i + 1, i + n)[k] = d[(i + 1) + k - 1]
  BY <1>4, SubSeqProperties
<1>6. Bytes(buffer, i, j) = SubSeq(d, i + 1, i + n)
  BY DEF Bytes, d, n
<1>7. ASSUME NEW k \in 1 .. n
      PROVE  Bytes(buffer, i, j)[k] = Ring(buffer, i)[k]
  <2> DEFINE e == i + k
  <2>1. k \in 1 .. (i + n) - (i + 1) + 1 /\ (i + 1) + k - 1 = e /\ e \in 1 .. Size + Size
        /\ k \in 1 .. Size
    BY <1>1
  <2>2. Ring(buffer, i)[k] = buffer[IF i + k <= Size THEN i + k ELSE i + k - Size]
    BY <2>1, RingCells
  <2>3. i + k = e
    OBVIOUS
  <2> HIDE DEF e
  <2>4. Bytes(buffer, i, j)[k] = d[e]
    BY <1>5, <1>6, <2>1
  <2>5. d[e] = IF e <= Size THEN buffer[e] ELSE buffer[e - Size]
    BY <1>3, <2>1
  <2>6. CASE e <= Size
    BY <1>1, <2>1, <2>2, <2>3, <2>4, <2>5, <2>6
  <2>7. CASE ~(e <= Size)
    BY <1>1, <2>1, <2>2, <2>3, <2>4, <2>5, <2>7
  <2> QED
    BY <2>6, <2>7
<1>8. Bytes(buffer, i, j) \in Seq(Nat) /\ Len(Bytes(buffer, i, j)) = n
  <2>1. (IF i + 1 <= i + n THEN (i + n) - (i + 1) + 1 ELSE 0) = n
    BY ONLY <1>1
  <2> QED
    BY ONLY <1>5, <1>6, <2>1
<1> QED
  BY <1>7, <1>8 DEF n

-----------------------------------------------------------------------------
(* The invariant.                                                          *)

Types ==
  /\ a2r_tail \in Index /\ a2r_head \in Index /\ r2a_tail \in Index /\ r2a_head \in Index
  /\ a2r_buffer \in [1 .. Size -> Nat] /\ r2a_buffer \in [1 .. Size -> Nat]
  /\ task_pc \in {"idle", "append", "read"}
  /\ task \in [packet : Seq(Nat), index : Index, count : Nat]
  /\ task.count <= Len(task.packet)
  /\ d_pc \in {"idle", "receive", "copy rest", "parse", "flush", "send", "send rest",
               "publish tail", "publish head"}
  /\ channel_status \in [a2r_tail : Index, r2a_head : Index, r2a_tail : Index,
                         a2r_head : Index]
  /\ updated \in BOOLEAN
  /\ recv_buf \in Seq(Nat) /\ recv_pos \in 0 .. Size
  /\ send_buf \in Seq(Nat) /\ Len(send_buf) < Size

Copying == d_pc \in {"receive", "copy rest", "parse"}

\* The daemon's copies of A2R's indices lie, in this order, between the head and
\* the tail.
A2RIndices ==
  /\ Used(channel_status.a2r_head, a2r_head)
       + Used(channel_status.a2r_tail, channel_status.a2r_head)
       + Used(a2r_tail, channel_status.a2r_tail) = Used(a2r_tail, a2r_head)
  /\ ~Copying => channel_status.a2r_head = channel_status.a2r_tail
  /\ Copying \/ d_pc = "idle" \/ (d_pc = "flush" /\ ~updated)
       => a2r_head = channel_status.a2r_head

\* The driver writes behind A2R's tail, where there is room for its packet.
A2RAppending ==
  task_pc = "append" =>
    /\ task.packet \in AmigaPackets
    /\ task.index = Advance(a2r_tail, task.count)
    /\ Used(a2r_tail, a2r_head) + Len(task.packet) < Size
    /\ \A k \in 1 .. task.count : Ring(a2r_buffer, a2r_tail)[k] = task.packet[k]

\* What the daemon has copied.
A2RCopied ==
  /\ d_pc = "copy rest" =>
       /\ channel_status.a2r_head >= channel_status.a2r_tail /\ RecvLen # 0
       /\ Len(recv_buf) = Size - channel_status.a2r_head
       /\ recv_pos = 0
       /\ \A k \in 1 .. Size - channel_status.a2r_head :
            recv_buf[k] = Ring(a2r_buffer, channel_status.a2r_head)[k]
  /\ d_pc = "parse" => Len(recv_buf) = RecvLen /\ recv_pos \in 0 .. RecvLen

\* recv_buf from the parser's place on.
Unparsed == [k \in 1 .. RecvLen - recv_pos |-> recv_buf[recv_pos + k]]

\* The packets on their way to the Raspberry: q is behind the daemon's copy of
\* the tail, p is what it is copying or parsing.
A2RPending(p, q) ==
  /\ p \in Seq(AmigaPackets) /\ q \in Seq(AmigaPackets)
  /\ Holds(Ring(a2r_buffer, channel_status.a2r_tail),
           Used(a2r_tail, channel_status.a2r_tail), q)
  /\ d_pc \in {"receive", "copy rest"} =>
       Holds(Ring(a2r_buffer, channel_status.a2r_head), RecvLen, p)
  /\ d_pc = "parse" => Holds(Unparsed, RecvLen - recv_pos, p)
  /\ ~Copying => p = <<>>

A2RInv == A2RIndices /\ A2RAppending /\ A2RCopied /\ \E p, q : A2RPending(p, q)

\* The daemon's copies of R2A's indices lie around the head and the tail.
R2AIndices ==
  /\ Used(r2a_head, channel_status.r2a_head) + Used(r2a_tail, r2a_head)
       + Used(channel_status.r2a_tail, r2a_tail)
     = Used(channel_status.r2a_tail, channel_status.r2a_head)
  /\ d_pc # "publish tail" => channel_status.r2a_tail = r2a_tail

\* What the driver has read is the start of the first packet.
R2AReading(p) ==
  task_pc = "read" =>
    /\ Used(r2a_tail, r2a_head) # 0
    /\ Len(task.packet) <= Len(p[1])
    /\ task.index = Advance(r2a_head, Len(task.packet))
    /\ \A k \in 1 .. Len(task.packet) : task.packet[k] = Ring(r2a_buffer, r2a_head)[k]

\* What the daemon has stored behind R2A's tail.
R2AStored ==
  d_pc = "send rest" =>
    /\ Size - r2a_tail < Len(send_buf)
    /\ \A k \in 1 .. Size - r2a_tail : Ring(r2a_buffer, r2a_tail)[k] = send_buf[k]

R2ASending ==
  d_pc \in {"send", "send rest"} =>
    /\ Len(send_buf) \in 1 .. SendRoom
    /\ \E q \in Seq(PiPackets) : Holds(send_buf, Len(send_buf), q)

\* The packets on their way to the Amiga: p is published, q is stored and not yet
\* published.
R2APending(p, q) ==
  /\ p \in Seq(PiPackets) /\ q \in Seq(PiPackets)
  /\ Holds(Ring(r2a_buffer, r2a_head), Used(r2a_tail, r2a_head), p)
  /\ Holds(Ring(r2a_buffer, r2a_tail), Used(channel_status.r2a_tail, r2a_tail), q)
  /\ R2AReading(p)

R2AInv == R2AIndices /\ R2AStored /\ R2ASending /\ \E p, q : R2APending(p, q)

LEMMA PacketSets ==
  /\ Packets(AmigaPackets) /\ Packets(PiPackets)
  /\ \A p \in AmigaPackets \union PiPackets :
       /\ p \in Seq(Nat) /\ Len(p) \in HeaderBytes .. Size - 1
       /\ Len(p) = HeaderBytes + p[1] /\ \A k \in 1 .. Len(p) : p[k] \in Nat
<1> SUFFICES ASSUME NEW p \in AmigaPackets \union PiPackets
             PROVE  /\ p \in Seq(Nat) /\ Len(p) \in HeaderBytes .. Size - 1
                    /\ Len(p) = HeaderBytes + p[1] /\ \A k \in 1 .. Len(p) : p[k] \in Nat
  BY RingPacketAssumption DEF Packets
<1>1. IsPacket(p) /\ Len(p) < Size
  BY RingPacketAssumption
<1> QED
  BY <1>1, RingSizeAssumption, LenProperties, ElementOfSeq DEF IsPacket, HeaderBytes

\* The indices, as numbers.
LEMMA IndexTypes ==
  ASSUME Types
  PROVE  /\ Size \in Nat /\ Size > 3
         /\ a2r_tail \in 0 .. Size - 1 /\ a2r_head \in 0 .. Size - 1
         /\ r2a_tail \in 0 .. Size - 1 /\ r2a_head \in 0 .. Size - 1
         /\ channel_status.a2r_tail \in 0 .. Size - 1
         /\ channel_status.a2r_head \in 0 .. Size - 1
         /\ channel_status.r2a_tail \in 0 .. Size - 1
         /\ channel_status.r2a_head \in 0 .. Size - 1
         /\ task.index \in 0 .. Size - 1
         /\ RecvLen \in 0 .. Size - 1 /\ SendRoom \in 0 .. Size - 1
<1>1. /\ channel_status.a2r_tail \in Index /\ channel_status.a2r_head \in Index
      /\ channel_status.r2a_tail \in Index /\ channel_status.r2a_head \in Index
      /\ task.index \in Index
  BY DEF Types
<1>2. RecvLen \in 0 .. Size - 1
  BY <1>1, UsedValue DEF RecvLen
<1>3. Size \in Nat /\ Size > 3
  BY RingSizeAssumption DEF HeaderBytes
<1>4. SendRoom \in 0 .. Size - 1
  <2> DEFINE u == Used(channel_status.r2a_tail, channel_status.r2a_head)
  <2>1. u \in 0 .. Size - 1
    BY <1>1, UsedValue
  <2> HIDE DEF u
  <2>2. Size - 1 - u \in 0 .. Size - 1
    BY <1>3, <2>1
  <2> QED
    BY <2>2 DEF SendRoom, u
<1>5. /\ a2r_tail \in Index /\ a2r_head \in Index /\ r2a_tail \in Index /\ r2a_head \in Index
  BY DEF Types
<1> QED
  BY <1>1, <1>2, <1>3, <1>4, <1>5 DEF Index

-----------------------------------------------------------------------------
(* From the Amiga to the Raspberry: one lemma for each step that matters.  *)

\* The state of A2R after a step, when p and q are on their way.
A2RNext(p, q) == A2RIndices' /\ A2RAppending' /\ A2RCopied' /\ A2RPending(p, q)'

\* Steps that touch neither the ring nor the daemon's place in it.
LEMMA A2RSame ==
  ASSUME A2RIndices, A2RCopied, NEW p, NEW q, A2RPending(p, q),
         UNCHANGED <<a2rVars, recvVars>>, A2RAppending',
         channel_status'.a2r_tail = channel_status.a2r_tail,
         channel_status'.a2r_head = channel_status.a2r_head,
         \/ UNCHANGED <<d_pc, updated>>
         \/ /\ d_pc \in {"flush", "idle", "send", "send rest", "publish tail"}
            /\ d_pc' \in {"idle", "send", "send rest", "publish tail", "publish head"}
            /\ d_pc' = "idle" => (d_pc = "flush" /\ ~updated) \/ d_pc = "idle"
  PROVE  A2RNext(p, q)
<1>1. Unparsed' = Unparsed /\ RecvLen' = RecvLen
  BY DEF Unparsed, RecvLen, Used, recvVars
<1>2. (Copying' <=> Copying) /\ (Copying => d_pc' = d_pc) /\ (Copying' => d_pc' = d_pc)
  BY DEF Copying
<1>3. A2RIndices'
  BY <1>2 DEF A2RIndices, Used, Copying, a2rVars
<1>4. A2RCopied'
  <2>1. d_pc' \in {"copy rest", "parse"} => d_pc' = d_pc
    BY <1>2 DEF Copying
  <2>2. Ring(a2r_buffer, channel_status.a2r_head)'
          = Ring(a2r_buffer, channel_status.a2r_head)
    BY DEF Ring, a2rVars
  <2> QED
    BY <1>1, <2>1, <2>2 DEF A2RCopied, recvVars
<1>5. A2RPending(p, q)'
  <2>1. /\ Ring(a2r_buffer, channel_status.a2r_head)'
             = Ring(a2r_buffer, channel_status.a2r_head)
        /\ Ring(a2r_buffer, channel_status.a2r_tail)'
             = Ring(a2r_buffer, channel_status.a2r_tail)
        /\ Used(a2r_tail, channel_status.a2r_tail)'
             = Used(a2r_tail, channel_status.a2r_tail)
    BY DEF Ring, a2rVars, Used
  <2>2. (d_pc' \in {"receive", "copy rest"} => d_pc \in {"receive", "copy rest"})
        /\ (d_pc' = "parse" => d_pc = "parse")
    BY <1>2 DEF Copying
  <2> QED
    BY <1>1, <1>2, <2>1, <2>2 DEF A2RPending, recvVars
<1> QED
  BY <1>3, <1>4, <1>5 DEF A2RNext

LEMMA A2RTaskAppend ==
  ASSUME Types, A2RIndices, A2RCopied, NEW p, NEW q, A2RPending(p, q), TaskAppend
  PROVE  A2RNext(p, q)
<1>1. PICK x \in AmigaPackets :
        room_in_a2r(x) /\ task' = [packet |-> x, index |-> a2r_tail, count |-> 0]
  BY DEF TaskAppend
<1>2. /\ x \in Seq(Nat) /\ Len(x) \in Nat /\ Used(a2r_tail, a2r_head) \in Nat
      /\ Advance(a2r_tail, 0) = a2r_tail
  <2>1. a2r_tail \in Index /\ a2r_head \in Index /\ x \in Seq(Nat)
    BY PacketSets DEF Types
  <2>2. Used(a2r_tail, a2r_head) \in 0 .. Size - 1
    BY <2>1, UsedValue
  <2> QED
    BY <2>1, <2>2, AdvanceNone, LenProperties
<1>3. Used(a2r_tail, a2r_head) + Len(x) < Size
  BY <1>1, <1>2, RingSizeAssumption DEF room_in_a2r
<1>4. A2RAppending'
  BY <1>1, <1>2, <1>3 DEF TaskAppend, A2RAppending, a2rVars, Used
<1> QED
  BY <1>4, A2RSame DEF TaskAppend, daemonVars

LEMMA UsedNone ==
  ASSUME NEW i \in Index
  PROVE  Used(i, i) = 0
<1>1. i \in Int /\ Size \in Nat /\ i >= i
  BY RingSizeAssumption DEF Index
<1>2. i - i = 0
  BY <1>1
<1> QED
  BY <1>1, <1>2, UsedValue

\* The distances between A2R's indices.
LEMMA A2RDistances ==
  ASSUME Types, A2RIndices
  PROVE  /\ Used(a2r_tail, a2r_head) \in 0 .. Size - 1
         /\ Used(a2r_tail, channel_status.a2r_tail) \in 0 .. Used(a2r_tail, a2r_head)
         /\ RecvLen \in 0 .. Size - 1
         /\ Copying => /\ channel_status.a2r_head = a2r_head
                       /\ RecvLen + Used(a2r_tail, channel_status.a2r_tail)
                            = Used(a2r_tail, channel_status.a2r_head)
         /\ ~Copying => RecvLen = 0
<1> DEFINE u == Used(a2r_tail, a2r_head)
           v == Used(a2r_tail, channel_status.a2r_tail)
           w == Used(channel_status.a2r_head, a2r_head)
           n == RecvLen
<1>1. /\ u \in 0 .. Size - 1 /\ v \in 0 .. Size - 1 /\ w \in 0 .. Size - 1
      /\ n \in 0 .. Size - 1 /\ (w + n) + v = u
  BY UsedValue DEF Types, RecvLen, A2RIndices
<1>2. Copying => channel_status.a2r_head = a2r_head /\ w = 0
  BY UsedNone DEF A2RIndices, Types
<1>3. ~Copying => n = 0
  BY UsedNone DEF A2RIndices, Types, RecvLen
<1> HIDE DEF u, v, w, n
<1>4. v \in 0 .. u /\ (w = 0 => n + v = u)
  BY <1>1, RingSizeAssumption
<1> QED
  BY <1>1, <1>2, <1>3, <1>4 DEF u, v, w, n

\* A stored byte lies behind the tail.
LEMMA A2RTaskStore ==
  ASSUME Types, A2RInv, NEW p, NEW q, A2RPending(p, q), TaskStore
  PROVE  A2RNext(p, q)
<1> DEFINE H == channel_status.a2r_head
           T == channel_status.a2r_tail
           c == task.count
           x == task.packet[task.count + 1]
<1>1. /\ Size \in Nat /\ Size > 3 /\ H \in Index /\ T \in Index
      /\ a2r_tail \in Index /\ a2r_head \in Index
  BY IndexTypes DEF Types
<1>2. /\ task_pc = "append" /\ c \in Nat /\ c < Len(task.packet) /\ Len(task.packet) \in Nat
      /\ task.packet \in AmigaPackets /\ task.index = Advance(a2r_tail, c)
      /\ Used(a2r_tail, a2r_head) + Len(task.packet) < Size
      /\ \A k \in 1 .. c : Ring(a2r_buffer, a2r_tail)[k] = task.packet[k]
  BY LenProperties DEF TaskStore, A2RInv, A2RAppending, Types
<1>3. Used(a2r_tail, a2r_head) \in Nat /\ Used(a2r_tail, a2r_head) + c < Size
      /\ c < Size /\ c \in 0 .. Size /\ c + 1 <= Len(task.packet)
  <2> DEFINE u == Used(a2r_tail, a2r_head)
             l == Len(task.packet)
  <2>1. u \in 0 .. Size - 1 /\ c \in Nat /\ l \in Nat /\ c < l /\ u + l < Size
    BY <1>1, <1>2, UsedValue
  <2> HIDE DEF u, l, c
  <2>2. u \in Nat /\ u + c < Size /\ c < Size /\ c \in 0 .. Size /\ c + 1 <= l
    BY <1>1, <2>1
  <2> QED
    BY <2>2 DEF u, l, c
<1>4. /\ a2r_buffer' = [a2r_buffer EXCEPT ![Advance(a2r_tail, c) + 1] = x]
      /\ task'.packet = task.packet /\ task'.count = c + 1
      /\ task'.index = Advance(Advance(a2r_tail, c), 1)
      /\ UNCHANGED <<a2r_tail, a2r_head, task_pc, daemonVars>>
  BY <1>2 DEF TaskStore, Types
<1>5. a2r_buffer \in [1 .. Size -> Nat] /\ Advance(a2r_tail, c) + 1 \in 1 .. Size
  BY <1>1, <1>3, AdvanceCell DEF Types
<1> HIDE DEF x, c
<1>6. ASSUME NEW i \in Index, Used(a2r_tail, i) <= Used(a2r_tail, a2r_head)
      PROVE  \A k \in 1 .. Used(a2r_tail, i) :
               Ring(a2r_buffer', i)[k] = Ring(a2r_buffer, i)[k]
  <2> SUFFICES ASSUME NEW k \in 1 .. Used(a2r_tail, i)
               PROVE  Ring(a2r_buffer', i)[k] = Ring(a2r_buffer, i)[k]
    OBVIOUS
  <2>1. k \in 1 .. Size /\ k - 1 \in 0 .. Size /\ Used(a2r_tail, i) + c < Size
    <3> DEFINE u == Used(a2r_tail, i)
               v == Used(a2r_tail, a2r_head)
    <3>1. u \in 0 .. Size - 1 /\ v \in Nat /\ u <= v /\ v + c < Size /\ k \in 1 .. u /\ c \in Nat
      BY <1>1, <1>2, <1>3, <1>6, UsedValue
    <3> HIDE DEF u, v
    <3>2. k \in 1 .. Size /\ k - 1 \in 0 .. Size /\ u + c < Size
      BY <1>1, <3>1
    <3> QED
      BY <3>2 DEF u
  <2>2. Advance(i, k - 1) + 1 # Advance(a2r_tail, c) + 1
    BY <1>1, <1>2, <2>1, CellsApart
  <2>3. a2r_buffer'[Advance(i, k - 1) + 1] = a2r_buffer[Advance(i, k - 1) + 1]
    <3>1. Advance(i, k - 1) + 1 \in 1 .. Size
      BY <2>1, AdvanceCell
    <3> QED
      BY <1>4, <1>5, <2>2, <3>1
  <2> QED
    BY <2>1, <2>3 DEF Ring
<1>7. \A k \in 1 .. c + 1 : Ring(a2r_buffer', a2r_tail)[k] = task.packet[k]
  <2> SUFFICES ASSUME NEW k \in 1 .. c + 1
               PROVE  Ring(a2r_buffer', a2r_tail)[k] = task.packet[k]
    OBVIOUS
  <2>1. k \in 1 .. Size /\ k - 1 \in 0 .. Size /\ k - 1 \in Nat
    BY <1>1, <1>2, <1>3
  <2>2. Advance(a2r_tail, k - 1) + 1 \in 1 .. Size
    BY <1>1, <2>1, AdvanceCell
  <2>3. CASE k = c + 1
    <3>1. k - 1 = c
      BY <1>2, <2>3
    <3>2. a2r_buffer'[Advance(a2r_tail, c) + 1] = x
      BY <1>4, <1>5
    <3> QED
      BY <2>1, <2>3, <3>1, <3>2 DEF Ring, x, c
  <2>4. CASE k # c + 1
    <3>1. k \in 1 .. c /\ k - 1 < c
      BY <1>2, <2>4
    <3>2. Advance(a2r_tail, k - 1) + 1 # Advance(a2r_tail, c) + 1
      BY <1>1, <1>2, <1>3, <2>1, <3>1, AdvanceApart
    <3>3. a2r_buffer'[Advance(a2r_tail, k - 1) + 1]
            = a2r_buffer[Advance(a2r_tail, k - 1) + 1]
      BY <1>4, <1>5, <2>2, <3>2
    <3>4. Ring(a2r_buffer, a2r_tail)[k] = task.packet[k]
      BY <1>2, <3>1
    <3> QED
      BY <2>1, <3>3, <3>4 DEF Ring
  <2> QED
    BY <2>3, <2>4
<1>8. A2RAppending'
  <2>1. Advance(Advance(a2r_tail, c), 1) = Advance(a2r_tail, c + 1)
    BY <1>1, <1>2, <1>3, AdvanceMore
  <2> QED
    BY <1>2, <1>4, <1>7, <2>1 DEF A2RAppending, Used
<1>9. /\ Used(a2r_tail, T) <= Used(a2r_tail, a2r_head)
      /\ Copying => /\ H = a2r_head /\ RecvLen <= Used(a2r_tail, H)
                    /\ RecvLen \in Nat
      /\ Used(a2r_tail, T) \in Nat
  <2> DEFINE u == Used(a2r_tail, a2r_head)
             v == Used(a2r_tail, T)
             w == Used(a2r_tail, H)
             n == RecvLen
  <2>1. /\ u \in 0 .. Size - 1 /\ v \in 0 .. u /\ n \in 0 .. Size - 1
        /\ Copying => H = a2r_head /\ n + v = w
    BY A2RDistances DEF A2RInv
  <2> HIDE DEF u, v, w, n
  <2>2. v <= u /\ v \in Nat /\ n \in Nat /\ (n + v = w => n <= w)
    BY <1>1, <2>1
  <2> QED
    BY <2>1, <2>2 DEF u, v, w, n
<1>10. UNCHANGED <<H, T, RecvLen, Unparsed, Copying>>
  BY <1>4 DEF daemonVars, recvVars, RecvLen, Used, Unparsed, Copying
<1>11. A2RIndices'
  BY <1>4, <1>10 DEF A2RInv, A2RIndices, Used, daemonVars, Copying
<1>12. A2RCopied'
  <2>1. CASE d_pc = "copy rest"
    <3>1. /\ H >= T /\ RecvLen # 0 /\ Len(recv_buf) = Size - H /\ recv_pos = 0
          /\ \A k \in 1 .. Size - H : recv_buf[k] = Ring(a2r_buffer, H)[k]
      BY <2>1 DEF A2RInv, A2RCopied
    <3>2. \A k \in 1 .. Size - H : k \in 1 .. Used(a2r_tail, H)
      <4> DEFINE n == RecvLen
                 w == Used(a2r_tail, H)
      <4>1. n = (IF T >= H THEN T - H ELSE T - H + Size) /\ n \in 0 .. Size - 1
            /\ w \in 0 .. Size - 1 /\ n <= w
        BY <1>1, <1>9, <2>1, UsedValue DEF RecvLen, Copying
      <4>2. n # 0 /\ H >= T
        BY <3>1
      <4>3. H \in 0 .. Size - 1 /\ T \in 0 .. Size - 1
        BY <1>1 DEF Index
      <4> HIDE DEF n, w
      <4>4. Size - H <= w
        BY <1>1, <4>1, <4>2, <4>3
      <4>5. \A k \in 1 .. Size - H : k \in 1 .. w
        BY <1>1, <4>1, <4>3, <4>4
      <4> QED
        BY <4>5 DEF w
    <3>3. Used(a2r_tail, H) <= Used(a2r_tail, a2r_head)
      <4>1. H = a2r_head /\ Used(a2r_tail, a2r_head) \in Nat
        BY <1>3, <1>9, <2>1 DEF Copying
      <4> QED
        BY <4>1
    <3>4. \A k \in 1 .. Size - H : recv_buf[k] = Ring(a2r_buffer', H)[k]
      BY <1>1, <1>6, <3>1, <3>2, <3>3
    <3>5. Ring(a2r_buffer, H)' = Ring(a2r_buffer', H)
      BY <1>10 DEF Ring
    <3>6. d_pc' = "copy rest" /\ recv_buf' = recv_buf /\ recv_pos' = recv_pos
      BY <1>4, <2>1 DEF daemonVars, recvVars
    <3> QED
      BY <1>10, <3>1, <3>4, <3>5, <3>6 DEF A2RCopied
  <2>2. CASE d_pc # "copy rest"
    BY <1>4, <1>10, <2>2 DEF A2RCopied, daemonVars, recvVars, A2RInv
  <2> QED
    BY <2>1, <2>2
<1>13. A2RPending(p, q)'
  <2>1. Holds(Ring(a2r_buffer', T), Used(a2r_tail, T), q)
    <3>1. \A k \in 1 .. Used(a2r_tail, T) : Ring(a2r_buffer', T)[k] = Ring(a2r_buffer, T)[k]
      BY <1>1, <1>6, <1>9
    <3>2. Holds(Ring(a2r_buffer, T), Used(a2r_tail, T), q) /\ q \in Seq(AmigaPackets)
      BY DEF A2RPending
    <3> QED
      BY <1>9, <3>1, <3>2, HoldsSame, PacketSets
  <2>2. ASSUME d_pc \in {"receive", "copy rest"}
        PROVE  Holds(Ring(a2r_buffer', H), RecvLen, p)
    <3>1. H = a2r_head /\ RecvLen <= Used(a2r_tail, H) /\ RecvLen \in Nat
          /\ Used(a2r_tail, H) \in Nat /\ Used(a2r_tail, H) <= Used(a2r_tail, a2r_head)
      <4>1. H = a2r_head /\ RecvLen <= Used(a2r_tail, H) /\ RecvLen \in Nat
        BY <1>9, <2>2 DEF Copying
      <4>2. Used(a2r_tail, H) = Used(a2r_tail, a2r_head)
        BY <4>1
      <4> QED
        BY <1>3, <4>1, <4>2
    <3>2. \A k \in 1 .. RecvLen : k \in 1 .. Used(a2r_tail, H)
      BY <3>1
    <3>3. \A k \in 1 .. RecvLen : Ring(a2r_buffer', H)[k] = Ring(a2r_buffer, H)[k]
      BY <1>1, <1>6, <3>1, <3>2
    <3>4. Holds(Ring(a2r_buffer, H), RecvLen, p) /\ p \in Seq(AmigaPackets)
      BY <2>2 DEF A2RPending
    <3> QED
      BY <3>1, <3>3, <3>4, HoldsSame, PacketSets
  <2>3. /\ Ring(a2r_buffer, T)' = Ring(a2r_buffer', T)
        /\ Ring(a2r_buffer, H)' = Ring(a2r_buffer', H)
        /\ Used(a2r_tail, T)' = Used(a2r_tail, T)
        /\ d_pc' = d_pc /\ recv_pos' = recv_pos
    BY <1>4, <1>10 DEF Ring, Used, daemonVars, recvVars
  <2> QED
    BY <1>10, <2>1, <2>2, <2>3 DEF A2RPending
<1> QED
  BY <1>8, <1>11, <1>12, <1>13 DEF A2RNext

\* The driver's packet joins those behind the tail.
LEMMA A2RTaskPublish ==
  ASSUME Types, A2RInv, NEW p, NEW q, A2RPending(p, q), TaskPublish,
         NEW x, x = task.packet
  PROVE  x \in AmigaPackets /\ A2RNext(p, Append(q, x))
<1> DEFINE H == channel_status.a2r_head
           T == channel_status.a2r_tail
           l == Len(x)
           u == Used(a2r_tail, a2r_head)
           v == Used(a2r_tail, T)
<1>1. /\ Size \in Nat /\ Size > 3 /\ H \in Index /\ T \in Index
      /\ a2r_tail \in Index /\ a2r_head \in Index
  BY IndexTypes DEF Types
<1>2. /\ x \in AmigaPackets /\ l \in Nat /\ x \in Seq(Nat) /\ task.index = Advance(a2r_tail, l)
      /\ u + l < Size
      /\ \A k \in 1 .. l : Ring(a2r_buffer, a2r_tail)[k] = x[k]
  BY LenProperties DEF TaskPublish, A2RInv, A2RAppending, Types
<1>3. /\ u \in 0 .. Size - 1 /\ v \in 0 .. u /\ v \in Nat /\ v + l \in 0 .. Size /\ v + l < Size
      /\ l \in 0 .. Size - v /\ v \in 0 .. Size
  <2>1. u \in 0 .. Size - 1 /\ v \in 0 .. u /\ l \in Nat /\ u + l < Size
    BY <1>2, A2RDistances DEF A2RInv
  <2> HIDE DEF u, v, l
  <2> QED
    BY <1>1, <2>1
<1>4. /\ a2r_tail' = Advance(a2r_tail, l)
      /\ UNCHANGED <<a2r_buffer, a2r_head, H, T, d_pc, updated, recv_buf, recv_pos>>
      /\ task_pc' = "idle"
  BY <1>2 DEF TaskPublish, daemonVars, recvVars
<1>5. Used(a2r_tail', a2r_head) = u + l /\ Used(a2r_tail', T) = v + l
  BY <1>1, <1>2, <1>3, <1>4, UsedMore
<1>6. RecvLen' = RecvLen /\ Unparsed' = Unparsed /\ (Copying' <=> Copying)
  BY <1>4 DEF RecvLen, Unparsed, Copying, Used
<1>7. A2RIndices'
  <2>1. Used(H, a2r_head) + Used(T, H) + (v + l) = u + l
    <3> DEFINE e == Used(H, a2r_head)
               f == Used(T, H)
    <3>1. /\ e + f + v = u /\ e \in 0 .. Size - 1 /\ f \in 0 .. Size - 1
          /\ v \in Nat /\ u \in 0 .. Size - 1 /\ l \in Nat
      BY <1>1, <1>2, <1>3, UsedValue DEF A2RInv, A2RIndices
    <3> HIDE DEF e, f, u, v, l
    <3>2. e + f + (v + l) = u + l
      BY <3>1, <1>1
    <3> QED
      BY <3>2 DEF e, f
  <2>2. /\ Used(H, a2r_head)' = Used(H, a2r_head) /\ Used(T, H)' = Used(T, H)
        /\ Used(a2r_tail, T)' = v + l /\ Used(a2r_tail, a2r_head)' = u + l
    BY <1>4, <1>5 DEF Used
  <2>3. Used(H, a2r_head)' + Used(T, H)' + Used(a2r_tail, T)' = Used(a2r_tail, a2r_head)'
    BY <2>1, <2>2
  <2>4. /\ ~Copying => H = T
        /\ Copying \/ d_pc = "idle" \/ (d_pc = "flush" /\ ~updated) => a2r_head = H
    BY DEF A2RInv, A2RIndices
  <2> HIDE DEF u, v, l
  <2> QED
    BY <1>4, <1>6, <2>3, <2>4 DEF A2RIndices
<1>8. A2RAppending'
  BY <1>4 DEF A2RAppending
<1>9. A2RCopied'
  <2>1. Ring(a2r_buffer, H)' = Ring(a2r_buffer, H)
    BY <1>4 DEF Ring
  <2> QED
    BY <1>4, <1>6, <2>1 DEF A2RInv, A2RCopied
<1>10. A2RPending(p, q \o << x >>)'
  <2>1. Holds(Ring(a2r_buffer, T), v, q) /\ q \in Seq(AmigaPackets)
    BY DEF A2RPending
  <2>2. Holds(x, l, << x >>) /\ << x >> \in Seq(AmigaPackets)
    BY <1>2, PacketSets, HoldsOne DEF Packets
  <2>3. \A k \in 1 .. l : Ring(a2r_buffer, T)[v + k] = x[k]
    <3>1. a2r_tail = Advance(T, v)
      BY <1>1, AdvanceUsed
    <3>2. \A k \in 1 .. Size - v : Ring(a2r_buffer, T)[v + k] = Ring(a2r_buffer, a2r_tail)[k]
      BY <1>1, <1>3, <3>1, RingShift
    <3>3. \A k \in 1 .. l : k \in 1 .. Size - v
      <4> HIDE DEF v, l
      <4> QED
        BY <1>1, <1>3
    <3> QED
      BY <1>2, <3>2, <3>3
  <2> HIDE DEF v, l
  <2>4. q \o << x >> \in Seq(AmigaPackets) /\ Holds(Ring(a2r_buffer, T), v + l, q \o << x >>)
    BY <1>2, <1>3, <2>1, <2>2, <2>3, HoldsJoin, PacketSets
  <2>5. /\ Ring(a2r_buffer, T)' = Ring(a2r_buffer, T)
        /\ Ring(a2r_buffer, H)' = Ring(a2r_buffer, H)
    BY <1>4 DEF Ring
  <2>6. Used(a2r_tail, T)' = v + l
    BY <1>4, <1>5 DEF Used
  <2> QED
    BY <1>4, <1>6, <2>4, <2>5, <2>6 DEF A2RPending
<1>11. q \o << x >> = Append(q, x)
  BY <1>2, AppendIsConcat DEF A2RPending
<1> QED
  BY <1>2, <1>7, <1>8, <1>9, <1>10, <1>11 DEF A2RNext

LEMMA A2RDaemonReadStatus ==
  ASSUME Types, A2RInv, NEW p, NEW q, A2RPending(p, q), DaemonReadStatus
  PROVE  p = <<>> /\ A2RNext(q, <<>>)
<1> DEFINE H == channel_status.a2r_head
           T == channel_status.a2r_tail
<1>1. /\ H \in Index /\ T \in Index /\ a2r_tail \in Index /\ a2r_head \in Index
      /\ Used(a2r_tail, a2r_head) \in Nat
  BY UsedIsNat DEF Types
<1>2. H = T /\ H = a2r_head /\ p = <<>> /\ q \in Seq(AmigaPackets)
  BY DEF DaemonReadStatus, A2RInv, A2RIndices, A2RPending, Copying
<1>3. /\ channel_status'.a2r_tail = a2r_tail /\ channel_status'.a2r_head = a2r_head
      /\ d_pc' = "receive" /\ UNCHANGED <<a2rVars, taskVars>>
  BY DEF DaemonReadStatus
<1>4. Used(a2r_tail, a2r_tail) = 0 /\ Used(a2r_head, a2r_head) = 0
  BY <1>1, UsedNone
<1>5. RecvLen' = Used(a2r_tail, a2r_head)
  BY <1>3 DEF RecvLen, Used
<1>6. A2RIndices'
  <2>1. /\ Used(channel_status.a2r_head, a2r_head)' = 0
        /\ Used(channel_status.a2r_tail, channel_status.a2r_head)' = Used(a2r_tail, a2r_head)
        /\ Used(a2r_tail, channel_status.a2r_tail)' = 0
        /\ Used(a2r_tail, a2r_head)' = Used(a2r_tail, a2r_head)
    BY <1>3, <1>4 DEF Used, a2rVars
  <2>2. 0 + Used(a2r_tail, a2r_head) + 0 = Used(a2r_tail, a2r_head)
    BY <1>1
  <2>3. Copying'
    BY <1>3 DEF Copying
  <2> QED
    BY <1>3, <2>1, <2>2, <2>3 DEF A2RIndices, a2rVars
<1>7. A2RAppending' /\ A2RCopied'
  <2>1. A2RAppending'
    BY <1>3 DEF A2RAppending, a2rVars, taskVars, Used, Ring, A2RInv
  <2>2. A2RCopied'
    BY <1>3 DEF A2RCopied
  <2> QED
    BY <2>1, <2>2
<1>8. A2RPending(q, <<>>)'
  <2>1. Holds(Ring(a2r_buffer, a2r_head), Used(a2r_tail, a2r_head), q)
    BY <1>2 DEF A2RPending
  <2>2. Holds(Ring(a2r_buffer, a2r_tail), 0, <<>>) /\ <<>> \in Seq(AmigaPackets)
    BY HoldsNone, EmptySeq
  <2>3. /\ Ring(a2r_buffer, channel_status.a2r_tail)' = Ring(a2r_buffer, a2r_tail)
        /\ Ring(a2r_buffer, channel_status.a2r_head)' = Ring(a2r_buffer, a2r_head)
        /\ Used(a2r_tail, channel_status.a2r_tail)' = 0
    BY <1>3, <1>4 DEF Ring, a2rVars, Used
  <2>4. d_pc' # "parse" /\ Copying'
    BY <1>3 DEF Copying
  <2> QED
    BY <1>2, <1>5, <2>1, <2>2, <2>3, <2>4 DEF A2RPending
<1> QED
  BY <1>2, <1>6, <1>7, <1>8 DEF A2RNext

\* Nothing is left to copy or to parse.
LEMMA A2RDaemonDone ==
  ASSUME Types, A2RInv, NEW p, NEW q, A2RPending(p, q),
         DaemonNothingReceived \/ DaemonParsed
  PROVE  p = <<>> /\ A2RNext(p, q)
<1> DEFINE H == channel_status.a2r_head
           T == channel_status.a2r_tail
<1>1. /\ H \in Index /\ T \in Index /\ a2r_tail \in Index /\ a2r_head \in Index
      /\ Used(a2r_tail, T) \in Nat /\ RecvLen \in Nat
  BY UsedIsNat DEF Types, RecvLen
<1>2. /\ Copying /\ H = a2r_head /\ p \in Seq(AmigaPackets) /\ q \in Seq(AmigaPackets)
      /\ Holds(Ring(a2r_buffer, T), Used(a2r_tail, T), q)
  BY DEF DaemonNothingReceived, DaemonParsed, A2RInv, A2RIndices, A2RPending, Copying
<1>3. /\ channel_status'.a2r_tail = T
      /\ channel_status'.a2r_head = T
      /\ d_pc' = "flush" /\ UNCHANGED <<a2rVars, taskVars>>
      /\ (updated' = FALSE => channel_status' = channel_status)
  <2>1. CASE DaemonNothingReceived
    <3>1. H = T
      <4>1. Advance(H, 0) = H /\ Advance(H, RecvLen) = T
        BY <1>1, AdvanceNone, AdvanceUsed DEF RecvLen
      <4> QED
        BY <2>1, <4>1 DEF DaemonNothingReceived
    <3> QED
      BY <2>1, <3>1 DEF DaemonNothingReceived
  <2>2. CASE DaemonParsed
    BY <2>2 DEF DaemonParsed, Types
  <2> QED
    BY <2>1, <2>2
<1>4. p = <<>>
  <2>1. CASE DaemonNothingReceived
    <3>1. Holds(Ring(a2r_buffer, H), 0, p)
      BY <2>1 DEF DaemonNothingReceived, A2RPending
    <3> QED
      BY <1>2, <3>1, HoldsFirst, PacketSets
  <2>2. CASE DaemonParsed
    <3>1. recv_pos \in 0 .. RecvLen /\ recv_pos >= RecvLen /\ Holds(Unparsed, RecvLen - recv_pos, p)
      BY <2>2 DEF DaemonParsed, A2RPending, A2RInv, A2RCopied
    <3>2. RecvLen - recv_pos = 0
      BY <1>1, <3>1
    <3>3. Holds(Unparsed, 0, p)
      BY <3>1, <3>2
    <3> QED
      BY <1>2, <3>3, HoldsFirst, PacketSets
  <2> QED
    BY <2>1, <2>2
<1>5. updated' = FALSE => H = T
  BY <1>3
<1>6. A2RIndices'
  <2>1. /\ Used(channel_status.a2r_head, a2r_head)' = Used(T, H)
        /\ Used(channel_status.a2r_tail, channel_status.a2r_head)' = Used(T, T)
        /\ Used(a2r_tail, channel_status.a2r_tail)' = Used(a2r_tail, T)
        /\ Used(a2r_tail, a2r_head)' = Used(a2r_tail, H)
    BY <1>2, <1>3 DEF Used, a2rVars
  <2>2. Used(T, H) + Used(T, T) + Used(a2r_tail, T) = Used(a2r_tail, H)
    <3>1. RecvLen + Used(a2r_tail, T) = Used(a2r_tail, H)
      BY <1>2, A2RDistances DEF A2RInv
    <3>2. Used(T, T) = 0 /\ RecvLen = Used(T, H)
      BY <1>1, UsedNone DEF RecvLen
    <3>3. RecvLen + 0 = RecvLen
      BY <1>1
    <3> QED
      BY <3>1, <3>2, <3>3
  <2>3. ~Copying' /\ d_pc' # "idle" /\ channel_status'.a2r_head = channel_status'.a2r_tail
    BY <1>3 DEF Copying
  <2>4. ~updated' => a2r_head' = channel_status'.a2r_head
    <3>1. updated' \in BOOLEAN
      BY DEF DaemonNothingReceived, DaemonParsed, Types
    <3> QED
      BY <1>2, <1>3, <1>5, <3>1 DEF a2rVars
  <2>5. (Used(channel_status.a2r_head, a2r_head)
           + Used(channel_status.a2r_tail, channel_status.a2r_head)
           + Used(a2r_tail, channel_status.a2r_tail) = Used(a2r_tail, a2r_head))'
    BY <2>1, <2>2
  <2> QED
    BY <2>3, <2>4, <2>5 DEF A2RIndices
<1>7. A2RAppending' /\ A2RCopied'
  <2>1. A2RAppending'
    BY <1>3 DEF A2RAppending, a2rVars, taskVars, Used, Ring, A2RInv
  <2>2. A2RCopied'
    BY <1>3 DEF A2RCopied
  <2> QED
    BY <2>1, <2>2
<1>8. A2RPending(p, q)'
  <2>1. /\ Ring(a2r_buffer, channel_status.a2r_tail)' = Ring(a2r_buffer, T)
        /\ Used(a2r_tail, channel_status.a2r_tail)' = Used(a2r_tail, T)
    BY <1>3 DEF Ring, a2rVars, Used
  <2>2. d_pc' \notin {"receive", "copy rest", "parse"}
    BY <1>3
  <2> QED
    BY <1>2, <1>4, <2>1, <2>2 DEF A2RPending
<1> QED
  BY <1>4, <1>6, <1>7, <1>8 DEF A2RNext

LEMMA A2RDaemonPublishHead ==
  ASSUME Types, A2RInv, NEW p, NEW q, A2RPending(p, q), DaemonPublishHead
  PROVE  A2RNext(p, q)
<1> DEFINE H == channel_status.a2r_head
           T == channel_status.a2r_tail
           u == Used(a2r_tail, a2r_head)
           v == Used(a2r_tail, T)
<1>1. /\ H \in Index /\ T \in Index /\ a2r_tail \in Index /\ a2r_head \in Index
      /\ u \in 0 .. Size - 1 /\ v \in 0 .. u
  BY IndexTypes, A2RDistances DEF Types, A2RInv
<1>2. H = T /\ ~Copying
  BY DEF DaemonPublishHead, A2RInv, A2RIndices, Copying
<1>3. /\ d_pc' = "idle" /\ UNCHANGED <<a2r_buffer, a2r_tail, taskVars, channel_status>>
      /\ a2r_head' = H
  BY DEF DaemonPublishHead
<1>4. A2RIndices'
  <2>1. Used(H, H) = 0 /\ Used(T, H) = 0 /\ Used(a2r_tail, H) = v
    BY <1>1, <1>2, UsedNone
  <2>2. /\ Used(channel_status.a2r_head, a2r_head)' = 0
        /\ Used(channel_status.a2r_tail, channel_status.a2r_head)' = 0
        /\ Used(a2r_tail, channel_status.a2r_tail)' = v
        /\ Used(a2r_tail, a2r_head)' = v
    BY <1>3, <2>1 DEF Used
  <2>3. 0 + 0 + v = v
    <3> HIDE DEF v, u
    <3> QED
      BY <1>1, RingSizeAssumption
  <2>4. (Used(channel_status.a2r_head, a2r_head)
           + Used(channel_status.a2r_tail, channel_status.a2r_head)
           + Used(a2r_tail, channel_status.a2r_tail) = Used(a2r_tail, a2r_head))'
    BY <2>2, <2>3
  <2> QED
    BY <1>2, <1>3, <2>4 DEF A2RIndices
<1>5. A2RAppending'
  <2>1. ASSUME task_pc = "append"
        PROVE  /\ task.packet \in AmigaPackets
               /\ task.index = Advance(a2r_tail, task.count)
               /\ v + Len(task.packet) < Size
               /\ \A k \in 1 .. task.count : Ring(a2r_buffer, a2r_tail)[k] = task.packet[k]
    <3> DEFINE l == Len(task.packet)
    <3>1. u + l < Size /\ l \in Nat
      BY <2>1, LenProperties DEF A2RInv, A2RAppending, Types
    <3>2. v + l < Size
      <4> HIDE DEF u, v, l
      <4> QED
        BY <1>1, <3>1, RingSizeAssumption
    <3> QED
      BY <2>1, <3>2 DEF A2RInv, A2RAppending
  <2>2. Used(a2r_tail, a2r_head)' = v
    BY <1>2, <1>3 DEF Used
  <2> QED
    BY <1>3, <2>1, <2>2 DEF A2RAppending, taskVars, Ring
<1>6. A2RCopied'
  BY <1>3 DEF A2RCopied
<1>7. A2RPending(p, q)'
  <2>1. /\ Ring(a2r_buffer, channel_status.a2r_tail)' = Ring(a2r_buffer, T)
        /\ Used(a2r_tail, channel_status.a2r_tail)' = v
    BY <1>3 DEF Ring, Used
  <2>2. d_pc' \notin {"receive", "copy rest", "parse"}
    BY <1>3
  <2> QED
    BY <1>2, <2>1, <2>2 DEF A2RPending
<1> QED
  BY <1>4, <1>5, <1>6, <1>7 DEF A2RNext

\* A run of n bytes from array index i on.
LEMMA RunOfBytes ==
  ASSUME NEW buffer \in [1 .. Size -> Nat], NEW i \in Index, NEW n \in Nat, i + n <= Size,
         NEW j, j = i + n
  PROVE  /\ SubSeq(buffer, i + 1, j) \in Seq(Nat)
         /\ Len(SubSeq(buffer, i + 1, j)) = n
         /\ \A k \in 1 .. n : SubSeq(buffer, i + 1, j)[k] = buffer[i + k]
         /\ \A k \in 1 .. n : Ring(buffer, i)[k] = buffer[i + k]
<1>1. Size \in Nat /\ i \in 0 .. Size - 1 /\ j \in Int
  BY RingSizeAssumption DEF Index
<1>2. i + 1 \in Int /\ \A k \in i + 1 .. j : buffer[k] \in Nat
  BY <1>1
<1>3. /\ SubSeq(buffer, i + 1, j) \in Seq(Nat)
      /\ Len(SubSeq(buffer, i + 1, j)) = IF i + 1 <= j THEN j - (i + 1) + 1 ELSE 0
      /\ \A k \in 1 .. j - (i + 1) + 1 : SubSeq(buffer, i + 1, j)[k] = buffer[(i + 1) + k - 1]
  BY <1>1, <1>2, SubSeqProperties
<1>4. j - (i + 1) + 1 = n /\ (i + 1 <= j \/ n = 0)
  BY <1>1
<1>5. \A k \in 1 .. n : (i + 1) + k - 1 = i + k /\ i + k <= Size /\ k \in 1 .. Size
  BY <1>1
<1>6. \A k \in 1 .. n : SubSeq(buffer, i + 1, j)[k] = buffer[i + k]
  BY <1>3, <1>4, <1>5
<1>7. Len(SubSeq(buffer, i + 1, j)) = n
  BY <1>3, <1>4
<1>8. \A k \in 1 .. n : Ring(buffer, i)[k] = buffer[i + k]
  BY <1>5, RingCells
<1> QED
  BY <1>3, <1>6, <1>7, <1>8

\* All bytes are copied.
LEMMA A2RCopyDone ==
  ASSUME Types, A2RInv, NEW p, NEW q, A2RPending(p, q), d_pc \in {"receive", "copy rest"},
         UNCHANGED <<a2rVars, taskVars, channel_status>>, d_pc' = "parse", recv_pos' = 0,
         Len(recv_buf') = RecvLen,
         \A k \in 1 .. RecvLen :
           recv_buf'[k] = Ring(a2r_buffer, channel_status.a2r_head)[k]
  PROVE  A2RNext(p, q)
<1> DEFINE H == channel_status.a2r_head
           T == channel_status.a2r_tail
           n == RecvLen
<1>1. /\ H \in Index /\ T \in Index /\ n \in Nat
  BY UsedIsNat DEF Types, RecvLen
<1>2. Copying /\ Copying'
  BY DEF Copying
<1>3. A2RIndices'
  BY <1>2 DEF A2RInv, A2RIndices, a2rVars, Used
<1>4. A2RAppending'
  BY DEF A2RAppending, a2rVars, taskVars, Used, Ring, A2RInv
<1>5. RecvLen' = n
  BY DEF RecvLen, Used
<1>6. A2RCopied'
  <2> HIDE DEF n
  <2>1. 0 \in 0 .. n
    <3>1. n \in Nat
      BY <1>1
    <3> QED
      BY ONLY <3>1
  <2> QED
    BY <1>5, <2>1 DEF A2RCopied, n
<1>7. A2RPending(p, q)'
  <2>1. Holds(Ring(a2r_buffer, H), n, p) /\ p \in Seq(AmigaPackets)
    BY DEF A2RPending
  <2>2. n - 0 = n /\ \A k \in 1 .. n : 0 + k = k
    <3> HIDE DEF n
    <3>1. n \in Nat
      BY <1>1
    <3> QED
      BY ONLY <3>1
  <2>3. Unparsed' = [k \in 1 .. n - 0 |-> recv_buf'[0 + k]]
    BY <1>5 DEF Unparsed
  <2>4. \A k \in 1 .. n : Unparsed'[k] = Ring(a2r_buffer, H)[k]
    BY <2>2, <2>3
  <2>5. Holds(Unparsed', n, p)
    BY <1>1, <2>1, <2>4, HoldsSame, PacketSets
  <2>6. (RecvLen - recv_pos)' = n
    BY <1>5, <2>2
  <2>7. /\ Ring(a2r_buffer, T)' = Ring(a2r_buffer, T)
        /\ Used(a2r_tail, T)' = Used(a2r_tail, T)
    BY DEF Ring, a2rVars, Used
  <2> HIDE DEF n
  <2> QED
    BY <1>2, <2>5, <2>6, <2>7 DEF A2RPending
<1> QED
  BY <1>3, <1>4, <1>6, <1>7 DEF A2RNext

LEMMA A2RDaemonCopy ==
  ASSUME Types, A2RInv, NEW p, NEW q, A2RPending(p, q), DaemonCopy
  PROVE  recv_buf' \in Seq(Nat) /\ A2RNext(p, q)
<1> DEFINE H == channel_status.a2r_head
           T == channel_status.a2r_tail
           n == RecvLen
<1>1. /\ Size \in Nat /\ Size > 3 /\ H \in Index /\ T \in Index
      /\ H \in 0 .. Size - 1 /\ T \in 0 .. Size - 1
  BY IndexTypes DEF Types
<1>2. n = (IF T >= H THEN T - H ELSE T - H + Size) /\ n # 0
  BY <1>1, UsedValue DEF DaemonCopy, RecvLen
<1>3. /\ UNCHANGED <<a2rVars, taskVars, channel_status>> /\ d_pc = "receive" /\ recv_pos' = 0
      /\ a2r_buffer \in [1 .. Size -> Nat]
  BY DEF DaemonCopy, Types
<1> HIDE DEF n
<1>4. CASE H < T
  <2>1. n \in Nat /\ H + n <= Size /\ H + n = H + n
    BY <1>1, <1>2, <1>4
  <2>2. recv_buf' = SubSeq(a2r_buffer, H + 1, H + n) /\ d_pc' = "parse"
    BY <1>4 DEF DaemonCopy, n
  <2>3. /\ recv_buf' \in Seq(Nat) /\ Len(recv_buf') = n
        /\ \A k \in 1 .. n : recv_buf'[k] = Ring(a2r_buffer, H)[k]
    <3> HIDE DEF H, T
    <3>1. /\ SubSeq(a2r_buffer, H + 1, H + n) \in Seq(Nat)
          /\ Len(SubSeq(a2r_buffer, H + 1, H + n)) = n
          /\ \A k \in 1 .. n : SubSeq(a2r_buffer, H + 1, H + n)[k] = a2r_buffer[H + k]
          /\ \A k \in 1 .. n : Ring(a2r_buffer, H)[k] = a2r_buffer[H + k]
      BY <1>1, <1>3, <2>1, RunOfBytes
    <3> QED
      BY <2>2, <3>1
  <2>4. A2RNext(p, q)
    BY <1>3, <2>2, <2>3, A2RCopyDone DEF n
  <2> QED
    BY <2>3, <2>4
<1>5. CASE ~(H < T)
  <2> DEFINE m == Size - H
  <2>1. m \in Nat /\ H + m <= Size /\ Size = H + m /\ (T = 0 => n = m)
    BY <1>1, <1>2, <1>5
  <2>2. recv_buf' = SubSeq(a2r_buffer, H + 1, Size)
        /\ d_pc' = IF T # 0 THEN "copy rest" ELSE "parse"
    BY <1>5 DEF DaemonCopy
  <2> HIDE DEF m
  <2>3. /\ recv_buf' \in Seq(Nat) /\ Len(recv_buf') = m
        /\ \A k \in 1 .. m : recv_buf'[k] = Ring(a2r_buffer, H)[k]
    <3> HIDE DEF H, T
    <3>1. /\ SubSeq(a2r_buffer, H + 1, Size) \in Seq(Nat)
          /\ Len(SubSeq(a2r_buffer, H + 1, Size)) = m
          /\ \A k \in 1 .. m : SubSeq(a2r_buffer, H + 1, Size)[k] = a2r_buffer[H + k]
          /\ \A k \in 1 .. m : Ring(a2r_buffer, H)[k] = a2r_buffer[H + k]
      <4>1. /\ SubSeq(a2r_buffer, H + 1, H + m) \in Seq(Nat)
            /\ Len(SubSeq(a2r_buffer, H + 1, H + m)) = m
            /\ \A k \in 1 .. m : SubSeq(a2r_buffer, H + 1, H + m)[k] = a2r_buffer[H + k]
            /\ \A k \in 1 .. m : Ring(a2r_buffer, H)[k] = a2r_buffer[H + k]
        BY <1>1, <1>3, <2>1, RunOfBytes
      <4> QED
        BY <2>1, <4>1
    <3> QED
      BY <2>2, <3>1
  <2>4. CASE T = 0
    <3>1. A2RNext(p, q)
      BY <1>3, <2>1, <2>2, <2>3, <2>4, A2RCopyDone DEF n
    <3> QED
      BY <2>3, <3>1
  <2>5. CASE T # 0
    <3>1. d_pc' = "copy rest" /\ Copying /\ Copying'
      BY <1>3, <2>2, <2>5 DEF Copying
    <3>2. A2RIndices'
      BY <1>3, <3>1 DEF A2RInv, A2RIndices, a2rVars, Used
    <3>3. A2RAppending'
      BY <1>3 DEF A2RAppending, a2rVars, taskVars, Used, Ring, A2RInv
    <3>4. A2RCopied'
      <4>1. H >= T /\ n # 0 /\ Len(recv_buf') = Size - H /\ recv_pos' = 0
        BY <1>1, <1>2, <1>3, <1>5, <2>3 DEF m
      <4>2. RecvLen' = n /\ channel_status' = channel_status
            /\ Ring(a2r_buffer, H)' = Ring(a2r_buffer, H)
        BY <1>3 DEF RecvLen, Used, Ring, a2rVars, n
      <4> QED
        BY <2>3, <3>1, <4>1, <4>2 DEF A2RCopied, m
    <3>5. A2RPending(p, q)'
      <4>1. RecvLen' = RecvLen
        BY <1>3 DEF RecvLen, Used
      <4>2. /\ Ring(a2r_buffer, H)' = Ring(a2r_buffer, H)
            /\ Ring(a2r_buffer, T)' = Ring(a2r_buffer, T)
            /\ Used(a2r_tail, T)' = Used(a2r_tail, T)
        BY <1>3 DEF Ring, a2rVars, Used
      <4> QED
        BY <1>3, <3>1, <4>1, <4>2 DEF A2RPending
    <3> QED
      BY <2>3, <3>2, <3>3, <3>4, <3>5 DEF A2RNext
  <2> QED
    BY <2>4, <2>5
<1> QED
  BY <1>4, <1>5

LEMMA A2RDaemonCopyRest ==
  ASSUME Types, A2RInv, NEW p, NEW q, A2RPending(p, q), DaemonCopyRest
  PROVE  recv_buf' \in Seq(Nat) /\ A2RNext(p, q)
<1> DEFINE H == channel_status.a2r_head
           T == channel_status.a2r_tail
           n == RecvLen
           m == Size - H
           x == SubSeq(recv_buf, 1, n - T)
           y == SubSeq(a2r_buffer, 1, T)
<1>1. /\ Size \in Nat /\ Size > 3 /\ H \in Index /\ T \in Index /\ 0 \in Index
      /\ H \in 0 .. Size - 1 /\ T \in 0 .. Size - 1
  <2>1. Size \in Nat /\ Size > 3 /\ H \in Index /\ T \in Index
    BY IndexTypes DEF Types
  <2> HIDE DEF H, T
  <2> QED
    BY <2>1 DEF Index
<1>2. /\ H >= T /\ n # 0 /\ Len(recv_buf) = m
      /\ \A k \in 1 .. m : recv_buf[k] = Ring(a2r_buffer, H)[k]
  BY DEF DaemonCopyRest, A2RInv, A2RCopied
<1>3. n = IF T >= H THEN T - H ELSE T - H + Size
  BY <1>1, UsedValue DEF RecvLen
<1>4. /\ UNCHANGED <<a2rVars, taskVars, channel_status, recv_pos>> /\ d_pc = "copy rest"
      /\ a2r_buffer \in [1 .. Size -> Nat] /\ recv_buf' = x \o y /\ d_pc' = "parse"
      /\ recv_pos = 0
  BY DEF DaemonCopyRest, Types, A2RInv, A2RCopied
<1>5. n - T = m /\ m \in Nat /\ n = m + T /\ T \in Nat /\ 0 + T = T /\ 0 + T <= Size /\ 0 + 1 = 1
      /\ n \in Nat /\ m + H = Size
  <2> HIDE DEF n, m, H, T
  <2>1. m = Size - H
    BY DEF m
  <2> QED
    BY <1>1, <1>2, <1>3, <2>1
<1>6. x = recv_buf
  BY <1>2, <1>5, SubSeqFull DEF Types
<1>7. /\ y \in Seq(Nat) /\ Len(y) = T
      /\ \A k \in 1 .. T : y[k] = a2r_buffer[0 + k]
  <2> DEFINE z == 0
  <2>1. z \in Index /\ z + T <= Size /\ z + T = T /\ z + 1 = 1
    BY <1>1, <1>5
  <2> HIDE DEF T, z
  <2>2. /\ SubSeq(a2r_buffer, z + 1, z + T) \in Seq(Nat)
        /\ Len(SubSeq(a2r_buffer, z + 1, z + T)) = T
        /\ \A k \in 1 .. T : SubSeq(a2r_buffer, z + 1, z + T)[k] = a2r_buffer[z + k]
    <3>1. z \in Index /\ T \in Nat /\ z + T <= Size
      BY <1>5, <2>1
    <3>2. a2r_buffer \in [1 .. Size -> Nat]
      BY <1>4
    <3>3. \A j : j = z + T =>
            /\ SubSeq(a2r_buffer, z + 1, j) \in Seq(Nat)
            /\ Len(SubSeq(a2r_buffer, z + 1, j)) = T
            /\ \A k \in 1 .. T : SubSeq(a2r_buffer, z + 1, j)[k] = a2r_buffer[z + k]
            /\ \A k \in 1 .. T : Ring(a2r_buffer, z)[k] = a2r_buffer[z + k]
      BY ONLY <3>1, <3>2, RunOfBytes
    <3> QED
      BY <3>3
  <2> QED
    BY <2>1, <2>2 DEF y, z
<1> HIDE DEF n, x, y, m
<1>8. /\ recv_buf' \in Seq(Nat) /\ Len(recv_buf') = n
      /\ \A k \in 1 .. m + T : recv_buf'[k] = IF k <= m THEN recv_buf[k] ELSE y[k - m]
  <2> HIDE DEF T
  <2>1. recv_buf \in Seq(Nat)
    BY DEF Types
  <2>2. /\ recv_buf \o y \in Seq(Nat) /\ Len(recv_buf \o y) = Len(recv_buf) + Len(y)
        /\ \A k \in 1 .. Len(recv_buf) + Len(y) :
             (recv_buf \o y)[k] = IF k <= Len(recv_buf) THEN recv_buf[k]
                                  ELSE y[k - Len(recv_buf)]
    BY <1>7, <2>1, ConcatProperties
  <2> QED
    BY <1>2, <1>4, <1>5, <1>6, <1>7, <2>2
<1>9. ASSUME NEW k \in 1 .. n
      PROVE  recv_buf'[k] = Ring(a2r_buffer, H)[k]
  <2>1. CASE k <= m
    <3>1. k \in 1 .. m /\ k \in 1 .. m + T
      BY <1>5, <2>1
    <3>2. recv_buf'[k] = recv_buf[k]
      BY ONLY <1>8, <2>1, <3>1
    <3> QED
      BY ONLY <1>2, <3>1, <3>2
  <2>2. CASE k > m
    <3> DEFINE j == k - m
    <3>1. j \in 1 .. T /\ 0 + j = j /\ k \in 1 .. Size /\ ~(H + k <= Size) /\ H + k - Size = j
      BY SMTT(30), <1>1, <1>2, <1>5, <2>2
    <3>2. recv_buf'[k] = y[j]
      BY <1>5, <1>8, <2>2
    <3> HIDE DEF j
    <3>3. Ring(a2r_buffer, H)[k] = a2r_buffer[j]
      BY <1>1, <3>1, RingCells
    <3> QED
      BY <1>7, <3>1, <3>2, <3>3
  <2> QED
    BY <1>5, <2>1, <2>2
<1>10. A2RNext(p, q)
  BY <1>4, <1>8, <1>9, A2RCopyDone DEF n
<1> QED
  BY <1>8, <1>10

\* The first packet of those that are not parsed is the one handed over.
LEMMA A2RDaemonParse ==
  ASSUME Types, A2RInv, NEW p, NEW q, A2RPending(p, q), DaemonParse
  PROVE  /\ p # <<>> /\ pi_got' = Head(p) /\ pi_got' \in AmigaPackets
         /\ recv_pos' \in 0 .. Size
         /\ A2RNext(Tail(p), q)
<1> DEFINE H == channel_status.a2r_head
           T == channel_status.a2r_tail
           n == RecvLen - recv_pos
           l == Len(p[1])
           x == SubSeq(recv_buf, recv_pos + 1, recv_pos + l)
<1>1. /\ d_pc = "parse" /\ recv_pos \in 0 .. RecvLen /\ recv_pos < RecvLen
      /\ Len(recv_buf) = RecvLen /\ recv_buf \in Seq(Nat) /\ RecvLen \in 0 .. Size - 1
      /\ p \in Seq(AmigaPackets) /\ Holds(Unparsed, n, p) /\ Size \in Nat
  BY IndexTypes DEF DaemonParse, A2RInv, A2RCopied, A2RPending, Types
<1>2. n \in Nat /\ n # 0
  BY <1>1
<1>3. /\ p # <<>> /\ Len(p) >= 1 /\ p[1] \in AmigaPackets /\ p[1] \in Seq(Nat)
      /\ l \in 1 .. n /\ l = HeaderBytes + p[1][1]
      /\ \A k \in 1 .. l : Unparsed[k] = p[1][k]
  <2> HIDE DEF n
  <2>1. Packets(AmigaPackets) /\ p \in Seq(AmigaPackets) /\ n \in Nat /\ n # 0
        /\ Holds(Unparsed, n, p)
    BY <1>1, <1>2, PacketSets
  <2> QED
    BY ONLY <2>1, HoldsFirst
<1>4. \A k \in 1 .. n : Unparsed[k] = recv_buf[recv_pos + k]
  BY DEF Unparsed
<1>5. HeaderBytes + recv_buf[recv_pos + 1] = l
  <2>1. 1 \in 1 .. n /\ 1 \in 1 .. l
    BY <1>2, <1>3
  <2> QED
    BY <1>3, <1>4, <2>1
<1>6. pi_got' = x /\ recv_pos' = recv_pos + l
  BY <1>5 DEF DaemonParse
<1>7. /\ UNCHANGED <<a2rVars, taskVars, d_pc, channel_status, updated, recv_buf>>
  BY DEF DaemonParse
<1> HIDE DEF n, l
<1>8. n = RecvLen - recv_pos
  BY DEF n
<1>9. x = p[1]
  <2>1. \A k \in recv_pos + 1 .. recv_pos + l : recv_buf[k] \in Nat
    <3>1. \A k \in recv_pos + 1 .. recv_pos + l : k \in 1 .. Len(recv_buf)
      BY <1>1, <1>2, <1>3, <1>8
    <3> QED
      BY <1>1, <3>1, ElementOfSeq
  <2>2. recv_pos + 1 \in Int /\ recv_pos + l \in Int
    BY <1>1, <1>2, <1>3
  <2>3. /\ x \in Seq(Nat)
        /\ Len(x) = IF recv_pos + 1 <= recv_pos + l
                    THEN (recv_pos + l) - (recv_pos + 1) + 1 ELSE 0
        /\ \A k \in 1 .. (recv_pos + l) - (recv_pos + 1) + 1 :
             x[k] = recv_buf[(recv_pos + 1) + k - 1]
    BY <2>1, <2>2, SubSeqProperties
  <2> HIDE DEF x
  <2>4. (recv_pos + l) - (recv_pos + 1) + 1 = l /\ recv_pos + 1 <= recv_pos + l
    BY <1>1, <1>2, <1>3
  <2>5. Len(x) = l
    BY <2>3, <2>4
  <2>6. \A k \in 1 .. l : x[k] = p[1][k]
    <3> SUFFICES ASSUME NEW k \in 1 .. l PROVE x[k] = p[1][k]
      OBVIOUS
    <3>1. k \in 1 .. n /\ (recv_pos + 1) + k - 1 = recv_pos + k
      BY <1>1, <1>2, <1>3
    <3>2. x[k] = recv_buf[recv_pos + k]
      BY <2>3, <2>4, <3>1
    <3> QED
      BY <1>3, <1>4, <3>1, <3>2
  <2> QED
    BY <1>3, <2>3, <2>5, <2>6, SeqEqual DEF l
<1>10. /\ recv_pos + l \in 0 .. RecvLen /\ recv_pos + l \in 0 .. Size
       /\ RecvLen - (recv_pos + l) = n - l /\ n - l \in Nat
  <2> DEFINE r == RecvLen
  <2>1. n = r - recv_pos /\ r \in 0 .. Size - 1
    BY <1>1, <1>8
  <2> HIDE DEF r
  <2>2. /\ recv_pos + l \in 0 .. r /\ recv_pos + l \in 0 .. Size
        /\ r - (recv_pos + l) = n - l /\ n - l \in Nat
    <3>1. recv_pos \in Nat /\ Size \in Nat /\ l \in 1 .. n /\ n \in Nat
      BY <1>1, <1>2, <1>3, <2>1 DEF r
    <3> QED
      BY ONLY <2>1, <3>1
  <2> QED
    BY <2>2 DEF r
<1>11. RecvLen' = RecvLen
  BY <1>7 DEF RecvLen, Used
<1>12. A2RIndices'
  BY <1>7 DEF A2RInv, A2RIndices, a2rVars, Used, Copying
<1>13. A2RAppending'
  BY <1>7 DEF A2RAppending, a2rVars, taskVars, Used, Ring, A2RInv
<1>14. A2RCopied'
  BY <1>1, <1>6, <1>7, <1>10, <1>11 DEF A2RCopied
<1>15. A2RPending(Tail(p), q)'
  <2>1. Unparsed' = [k \in 1 .. n - l |-> recv_buf[(recv_pos + l) + k]]
    BY <1>6, <1>7, <1>10, <1>11 DEF Unparsed
  <2>2. \A k \in 1 .. n - l : Unparsed'[k] = Unparsed[l + k]
    <3> SUFFICES ASSUME NEW k \in 1 .. n - l PROVE Unparsed'[k] = Unparsed[l + k]
      OBVIOUS
    <3>1. l + k \in 1 .. n /\ (recv_pos + l) + k = recv_pos + (l + k)
      <4>1. recv_pos \in Nat /\ l \in 1 .. n /\ n \in Nat /\ k \in 1 .. n - l
        BY <1>1, <1>2, <1>3
      <4> QED
        BY ONLY <4>1
    <3> QED
      BY <1>4, <2>1, <3>1
  <2>3. Tail(p) \in Seq(AmigaPackets) /\ Holds(Unparsed', n - l, Tail(p))
    <3>1. n \in Nat \ {0}
      BY <1>2
    <3>2. Packets(AmigaPackets)
      BY PacketSets
    <3>3. \A k \in 1 .. n - Len(p[1]) : Unparsed'[k] = Unparsed[Len(p[1]) + k]
      BY <2>2 DEF l
    <3>4. Holds(Unparsed, n, p)
      BY <1>1 DEF n
    <3>5. Tail(p) \in Seq(AmigaPackets) /\ Holds(Unparsed', n - Len(p[1]), Tail(p))
      BY <1>1, <3>1, <3>2, <3>3, <3>4, HoldsRest
    <3> QED
      BY <3>5 DEF l
  <2>4. (RecvLen - recv_pos)' = n - l
    BY <1>6, <1>10, <1>11
  <2>5. /\ Ring(a2r_buffer, T)' = Ring(a2r_buffer, T)
        /\ Used(a2r_tail, T)' = Used(a2r_tail, T)
    BY <1>7 DEF Ring, a2rVars, Used
  <2>6. d_pc' = "parse" /\ Copying'
    BY <1>1, <1>7 DEF Copying
  <2> QED
    BY <1>1, <2>3, <2>4, <2>5, <2>6 DEF A2RPending
<1>16. Head(p) = p[1]
  BY <1>1
<1> QED
  BY <1>3, <1>6, <1>9, <1>10, <1>12, <1>13, <1>14, <1>15, <1>16 DEF A2RNext

-----------------------------------------------------------------------------
(* From the Raspberry to the Amiga.                                        *)

\* Bytes b stored in one run, c places behind index t: what is before them, and
\* what lies between an index i and t, stays.
LEMMA OverlayRing ==
  ASSUME NEW buffer \in [1 .. Size -> Nat], NEW t \in Index, NEW c \in Nat,
         NEW b \in Seq(Nat), NEW a, a = Advance(t, c), a + Len(b) <= Size,
         c + Len(b) <= Size, c < Size
  PROVE  /\ Overlay(buffer, a, b) \in [1 .. Size -> Nat]
         /\ \A k \in 1 .. c : Ring(Overlay(buffer, a, b), t)[k] = Ring(buffer, t)[k]
         /\ \A k \in 1 .. Len(b) : Ring(Overlay(buffer, a, b), t)[c + k] = b[k]
         /\ \A i \in Index : Used(t, i) + c + Len(b) <= Size =>
              \A k \in 1 .. Used(t, i) :
                Ring(Overlay(buffer, a, b), i)[k] = Ring(buffer, i)[k]
<1> DEFINE o == Overlay(buffer, a, b)
           n == Len(b)
<1>1. /\ Size \in Nat /\ t \in 0 .. Size - 1 /\ n \in Nat /\ c \in 0 .. Size /\ a \in Index
      /\ a \in 0 .. Size - 1 /\ a + n <= Size /\ c + n <= Size
  <2>1. Size \in Nat /\ t \in 0 .. Size - 1 /\ n \in Nat
    BY RingSizeAssumption, LenProperties DEF Index
  <2>2. c \in 0 .. Size
    BY <2>1
  <2>3. a \in Index
    BY <2>2, AdvanceValue
  <2> QED
    BY <2>1, <2>2, <2>3 DEF Index
<1>2. a = IF t + c < Size THEN t + c ELSE t + c - Size
  BY <1>1, AdvanceValue
<1>3. \A m \in 1 .. Size : o[m] = IF m \in a + 1 .. a + n THEN b[m - a] ELSE buffer[m]
  BY DEF Overlay
<1>4. o \in [1 .. Size -> Nat]
  <2>1. ASSUME NEW m \in a + 1 .. a + n PROVE b[m - a] \in Nat
    <3>1. m - a \in 1 .. Len(b)
      <4> HIDE DEF n
      <4>1. a \in Int /\ n \in Nat /\ m \in a + 1 .. a + n
        BY <1>1
      <4>2. m - a \in 1 .. n
        BY ONLY <4>1
      <4> QED
        BY <4>2 DEF n
    <3> QED
      BY <3>1, ElementOfSeq
  <2>2. o = [m \in 1 .. Size |-> o[m]]
    BY DEF Overlay
  <2>3. \A m \in 1 .. Size : buffer[m] \in Nat
    OBVIOUS
  <2> HIDE DEF o
  <2>4. \A m \in 1 .. Size : o[m] \in Nat
    BY <1>3, <2>1, <2>3
  <2> QED
    BY <2>2, <2>4
<1> HIDE DEF o, n
<1>5. ASSUME NEW j \in 1 .. n
      PROVE  /\ c + j - 1 \in Nat /\ c + j - 1 < Size /\ c + j - 1 \in 0 .. Size
             /\ Advance(t, c + j - 1) + 1 = a + j
  <2> DEFINE d == c + j - 1
  <2>1. d \in Nat /\ d < Size /\ d \in 0 .. Size
    BY <1>1
  <2> HIDE DEF d
  <2>2. Advance(t, d) = IF t + d < Size THEN t + d ELSE t + d - Size
    BY <2>1, AdvanceValue
  <2>3. Advance(t, d) + 1 = a + j
    <3>1. d = c + j - 1
      BY DEF d
    <3> QED
      BY <1>1, <1>2, <2>1, <2>2, <3>1
  <2> QED
    BY <2>1, <2>3 DEF d
<1>6. ASSUME NEW k \in 1 .. c
      PROVE  Ring(o, t)[k] = Ring(buffer, t)[k]
  <2> DEFINE m == Advance(t, k - 1) + 1
  <2>1. k \in 1 .. Size /\ k - 1 \in 0 .. Size /\ k - 1 \in Nat
    BY <1>1
  <2>2. m \in 1 .. Size
    BY <2>1, AdvanceCell
  <2>3. m \notin a + 1 .. a + n
    <3> SUFFICES ASSUME m \in a + 1 .. a + n PROVE FALSE
      OBVIOUS
    <3> DEFINE j == m - a
    <3> HIDE DEF m
    <3>1. j \in 1 .. n /\ m = a + j
      <4>1. a \in Int /\ n \in Nat /\ m \in a + 1 .. a + n /\ j = m - a
        BY <1>1
      <4> QED
        BY ONLY <4>1
    <3> HIDE DEF j
    <3>2. /\ c + j - 1 \in Nat /\ c + j - 1 < Size /\ m = Advance(t, c + j - 1) + 1
          /\ k - 1 < c + j - 1
      BY <1>1, <1>5, <3>1
    <3>3. Advance(t, k - 1) + 1 # Advance(t, c + j - 1) + 1
      BY <2>1, <3>2, AdvanceApart
    <3> QED
      BY <3>2, <3>3 DEF m
  <2>4. o[m] = buffer[m]
    BY <1>3, <2>2, <2>3
  <2> QED
    BY <2>1, <2>4 DEF Ring
<1>7. ASSUME NEW k \in 1 .. n
      PROVE  Ring(o, t)[c + k] = b[k]
  <2>1. c + k \in 1 .. Size /\ (c + k) - 1 = c + k - 1
    BY <1>1
  <2>2. Ring(o, t)[c + k] = o[a + k]
    BY <1>5, <2>1 DEF Ring
  <2>3. a + k \in 1 .. Size /\ a + k \in a + 1 .. a + n /\ (a + k) - a = k
    <3>1. a \in Nat /\ n \in Nat /\ Size \in Nat /\ a + n <= Size /\ k \in 1 .. n
      BY <1>1
    <3> QED
      BY ONLY <3>1
  <2> DEFINE m == a + k
  <2>4. o[m] = IF m \in a + 1 .. a + n THEN b[m - a] ELSE buffer[m]
    BY <1>3, <2>3
  <2>5. o[a + k] = b[k]
    BY <2>3, <2>4
  <2> QED
    BY <2>2, <2>5
<1>8. ASSUME NEW i \in Index, Used(t, i) + c + n <= Size, NEW k \in 1 .. Used(t, i)
      PROVE  Ring(o, i)[k] = Ring(buffer, i)[k]
  <2> DEFINE m == Advance(i, k - 1) + 1
             u == Used(t, i)
  <2>1. u \in 0 .. Size - 1
    BY UsedValue
  <2>2. k \in 1 .. Size /\ k - 1 \in 0 .. Size /\ k - 1 \in Nat
    <3> HIDE DEF u
    <3>1. k \in 1 .. u
      BY DEF u
    <3> QED
      BY <1>1, <2>1, <3>1
  <2>3. m \in 1 .. Size
    BY <2>2, AdvanceCell
  <2>4. m \notin a + 1 .. a + n
    <3> SUFFICES ASSUME m \in a + 1 .. a + n PROVE FALSE
      OBVIOUS
    <3> DEFINE j == m - a
    <3> HIDE DEF m
    <3>1. j \in 1 .. n /\ m = a + j
      <4>1. a \in Int /\ n \in Nat /\ m \in a + 1 .. a + n /\ j = m - a
        BY <1>1
      <4> QED
        BY ONLY <4>1
    <3> HIDE DEF j
    <3>2. /\ c + j - 1 \in Nat /\ c + j - 1 < Size /\ m = Advance(t, c + j - 1) + 1
      BY <1>5, <3>1
    <3>3. Used(t, i) + (c + j - 1) < Size
      <4>1. u + c + n <= Size
        BY <1>8
      <4> HIDE DEF u
      <4>2. u + (c + j - 1) < Size
        BY <1>1, <2>1, <3>1, <4>1
      <4> QED
        BY <4>2 DEF u
    <3>4. Advance(i, k - 1) + 1 # Advance(t, c + j - 1) + 1
      BY <3>2, <3>3, CellsApart
    <3> QED
      BY <3>2, <3>4 DEF m
  <2>5. o[m] = buffer[m]
    BY <1>3, <2>3, <2>4
  <2> QED
    BY <2>2, <2>5 DEF Ring
<1> QED
  BY <1>4, <1>6, <1>7, <1>8 DEF o, n

LEMMA OverlayAtIndex ==
  ASSUME NEW buffer \in [1 .. Size -> Nat], NEW t \in Index, NEW b \in Seq(Nat),
         t + Len(b) <= Size
  PROVE  /\ Overlay(buffer, t, b) \in [1 .. Size -> Nat]
         /\ \A k \in 1 .. Len(b) : Ring(Overlay(buffer, t, b), t)[k] = b[k]
         /\ \A i \in Index : Used(t, i) + Len(b) <= Size =>
              \A k \in 1 .. Used(t, i) :
                Ring(Overlay(buffer, t, b), i)[k] = Ring(buffer, i)[k]
<1> DEFINE c == 0
           n == Len(b)
<1>1. /\ Size \in Nat /\ Size > 3 /\ t \in 0 .. Size - 1 /\ n \in Nat
      /\ \A i \in Index : Used(t, i) \in Nat
  BY RingSizeAssumption, LenProperties, UsedIsNat DEF Index, HeaderBytes
<1>2. t = Advance(t, c)
  BY AdvanceNone
<1>3. c \in Nat /\ c + n <= Size /\ c < Size /\ \A k \in 1 .. n : c + k = k
  <2> HIDE DEF n
  <2>1. Size \in Nat /\ Size > 3 /\ t \in 0 .. Size - 1 /\ n \in Nat /\ t + n <= Size
    BY <1>1 DEF n
  <2> QED
    BY ONLY <2>1
<1>4. \A i \in Index : Used(t, i) + n <= Size => Used(t, i) + c + n <= Size
  <2> SUFFICES ASSUME NEW i \in Index, Used(t, i) + n <= Size
               PROVE  Used(t, i) + c + n <= Size
    OBVIOUS
  <2> DEFINE u == Used(t, i)
  <2>1. u \in Nat /\ u + n <= Size /\ n \in Nat /\ Size \in Nat
    BY <1>1
  <2> HIDE DEF u, n
  <2>2. u + c + n <= Size
    BY ONLY <2>1 DEF c
  <2> QED
    BY <2>2 DEF u
<1> HIDE DEF c
<1>5. /\ Overlay(buffer, t, b) \in [1 .. Size -> Nat]
      /\ \A k \in 1 .. Len(b) : Ring(Overlay(buffer, t, b), t)[c + k] = b[k]
      /\ \A i \in Index : Used(t, i) + c + Len(b) <= Size =>
           \A k \in 1 .. Used(t, i) :
             Ring(Overlay(buffer, t, b), i)[k] = Ring(buffer, i)[k]
  BY <1>2, <1>3, OverlayRing
<1> QED
  BY <1>3, <1>4, <1>5

\* The state of R2A after a step, when p and q are on their way.
R2ANext(p, q) == R2AIndices' /\ R2AStored' /\ R2ASending' /\ R2APending(p, q)'

\* Steps that touch neither the ring nor the daemon's copies of its indices.
LEMMA R2ASame ==
  ASSUME R2AInv, NEW p, NEW q, R2APending(p, q), UNCHANGED r2aVars, R2AReading(p)',
         channel_status'.r2a_tail = channel_status.r2a_tail,
         channel_status'.r2a_head = channel_status.r2a_head,
         \/ UNCHANGED <<d_pc, send_buf>>
         \/ d_pc # "publish tail" /\ d_pc' \notin {"send", "send rest"}
  PROVE  R2ANext(p, q)
<1>1. R2AIndices'
  BY DEF R2AInv, R2AIndices, Used, r2aVars
<1>2. R2AStored'
  BY DEF R2AInv, R2AStored, r2aVars, Ring
<1>3. R2ASending'
  <2>1. SendRoom' = SendRoom
    BY DEF SendRoom, Used
  <2> QED
    BY <2>1 DEF R2AInv, R2ASending
<1>4. R2APending(p, q)'
  <2>1. /\ Ring(r2a_buffer, r2a_head)' = Ring(r2a_buffer, r2a_head)
        /\ Ring(r2a_buffer, r2a_tail)' = Ring(r2a_buffer, r2a_tail)
        /\ Used(r2a_tail, r2a_head)' = Used(r2a_tail, r2a_head)
        /\ Used(channel_status.r2a_tail, r2a_tail)' = Used(channel_status.r2a_tail, r2a_tail)
    BY DEF Ring, r2aVars, Used
  <2> QED
    BY <2>1 DEF R2APending
<1> QED
  BY <1>1, <1>2, <1>3, <1>4 DEF R2ANext

LEMMA R2ADaemonReadStatus ==
  ASSUME Types, R2AInv, NEW p, NEW q, R2APending(p, q), DaemonReadStatus
  PROVE  R2ANext(p, q)
<1> DEFINE u == Used(r2a_tail, r2a_head)
<1>1. /\ r2a_tail \in Index /\ r2a_head \in Index /\ u \in Nat
      /\ Used(r2a_tail, r2a_tail) = 0 /\ Used(r2a_head, r2a_head) = 0
  BY UsedIsNat, UsedNone DEF Types
<1>2. /\ channel_status'.r2a_tail = r2a_tail /\ channel_status'.r2a_head = r2a_head
      /\ d_pc = "idle" /\ d_pc' = "receive" /\ UNCHANGED <<r2aVars, taskVars>>
  BY DEF DaemonReadStatus
<1>3. channel_status.r2a_tail = r2a_tail
  BY <1>2 DEF R2AInv, R2AIndices
<1>4. R2AIndices'
  <2>1. /\ Used(r2a_head, channel_status.r2a_head)' = 0
        /\ Used(r2a_tail, r2a_head)' = u
        /\ Used(channel_status.r2a_tail, r2a_tail)' = 0
        /\ Used(channel_status.r2a_tail, channel_status.r2a_head)' = u
    BY <1>1, <1>2 DEF Used, r2aVars
  <2>2. 0 + u + 0 = u
    <3> HIDE DEF u
    <3> QED
      BY <1>1
  <2>3. (Used(r2a_head, channel_status.r2a_head) + Used(r2a_tail, r2a_head)
           + Used(channel_status.r2a_tail, r2a_tail)
         = Used(channel_status.r2a_tail, channel_status.r2a_head))'
    BY <2>1, <2>2
  <2> QED
    BY <1>2, <2>3 DEF R2AIndices, r2aVars
<1>5. R2AStored' /\ R2ASending'
  BY <1>2 DEF R2AStored, R2ASending
<1>6. R2APending(p, q)'
  <2>1. R2AReading(p)'
    BY <1>2 DEF R2APending, R2AReading, r2aVars, taskVars, Used, Ring
  <2>2. /\ Ring(r2a_buffer, r2a_head)' = Ring(r2a_buffer, r2a_head)
        /\ Ring(r2a_buffer, r2a_tail)' = Ring(r2a_buffer, r2a_tail)
        /\ Used(r2a_tail, r2a_head)' = Used(r2a_tail, r2a_head)
        /\ Used(channel_status.r2a_tail, r2a_tail)' = Used(channel_status.r2a_tail, r2a_tail)
    BY <1>2, <1>3 DEF Ring, r2aVars, Used
  <2> QED
    BY <2>1, <2>2 DEF R2APending
<1> QED
  BY <1>4, <1>5, <1>6 DEF R2ANext

\* There is a first packet to read.
LEMMA R2ATaskReceive ==
  ASSUME Types, R2AInv, NEW p, NEW q, R2APending(p, q), TaskReceive
  PROVE  R2ANext(p, q)
<1> DEFINE u == Used(r2a_tail, r2a_head)
<1>1. /\ u # 0 /\ u \in Nat /\ r2a_head \in Index
      /\ Holds(Ring(r2a_buffer, r2a_head), u, p) /\ p \in Seq(PiPackets)
  BY UsedIsNat DEF TaskReceive, Types, R2APending
<1>2. /\ UNCHANGED <<r2aVars, d_pc, send_buf, channel_status>>
      /\ task_pc' = "read" /\ task'.packet = <<>> /\ task'.index = r2a_head
  BY DEF TaskReceive, daemonVars, NoPacket
<1>3. Len(p[1]) \in Nat
  <2> HIDE DEF u
  <2>1. Packets(PiPackets) /\ p \in Seq(PiPackets) /\ u \in Nat /\ u # 0
        /\ Holds(Ring(r2a_buffer, r2a_head), u, p)
    BY <1>1, PacketSets
  <2>2. Len(p[1]) \in 1 .. u
    BY ONLY <2>1, HoldsFirst
  <2> QED
    BY <1>1, <2>2
<1>4. R2AReading(p)'
  <2>1. Len(<<>>) = 0 /\ 0 <= Len(p[1]) /\ Advance(r2a_head, 0) = r2a_head
    BY <1>1, <1>3, AdvanceNone
  <2>2. Used(r2a_tail, r2a_head)' = u
    BY <1>2 DEF Used, r2aVars
  <2>3. \A k \in 1 .. 0 : FALSE
    OBVIOUS
  <2> HIDE DEF u
  <2> QED
    BY <1>1, <1>2, <2>1, <2>2, <2>3 DEF R2AReading, r2aVars
<1> QED
  BY <1>2, <1>4, R2ASame

\* The driver's copy is the start of the first packet, so that it is whole only
\* when it is that packet.
LEMMA R2AFirst ==
  ASSUME Types, R2AInv, NEW p, NEW q, R2APending(p, q), task_pc = "read"
  PROVE  /\ p # <<>> /\ p[1] \in PiPackets /\ p[1] \in Seq(Nat)
         /\ Len(p[1]) \in 1 .. Used(r2a_tail, r2a_head)
         /\ Len(task.packet) \in 0 .. Len(p[1])
         /\ \A k \in 1 .. Len(task.packet) : task.packet[k] = p[1][k]
         /\ \A k \in 1 .. Len(p[1]) : Ring(r2a_buffer, r2a_head)[k] = p[1][k]
         /\ Whole(task.packet) <=> Len(task.packet) = Len(p[1])
         /\ Whole(task.packet) => task.packet = p[1]
<1> DEFINE u == Used(r2a_tail, r2a_head)
           f == Ring(r2a_buffer, r2a_head)
           l == Len(p[1])
           m == Len(task.packet)
<1>1. /\ u # 0 /\ u \in Nat /\ m <= l /\ m \in Nat /\ task.packet \in Seq(Nat)
      /\ \A k \in 1 .. m : task.packet[k] = f[k]
  BY UsedIsNat, LenProperties DEF Types, R2APending, R2AReading
<1>2. /\ p # <<>> /\ p[1] \in PiPackets /\ p[1] \in Seq(Nat) /\ l \in 1 .. u
      /\ l = HeaderBytes + p[1][1] /\ \A k \in 1 .. l : f[k] = p[1][k]
  <2>1. Packets(PiPackets) /\ p \in Seq(PiPackets) /\ u \in Nat /\ u # 0 /\ Holds(f, u, p)
    BY <1>1, PacketSets DEF R2APending
  <2> HIDE DEF u, f
  <2>2. u = 0 <=> p = <<>>
    BY ONLY <2>1, HoldsFirst
  <2>3. /\ Len(p) >= 1 /\ p[1] \in PiPackets /\ p[1] \in Seq(Nat) /\ l \in 1 .. u
        /\ l = HeaderBytes + p[1][1] /\ \A k \in 1 .. l : f[k] = p[1][k]
    BY ONLY <2>1, HoldsFirst
  <2> QED
    BY <2>1, <2>2, <2>3
<1>3. \A k \in 1 .. m : task.packet[k] = p[1][k] /\ k \in 1 .. l
  <2> HIDE DEF l, m, f
  <2>1. \A k \in 1 .. m : k \in 1 .. l
    BY <1>1, <1>2
  <2> QED
    BY <1>1, <1>2, <2>1
<1>4. l >= HeaderBytes
  BY <1>2, PacketSets DEF HeaderBytes
<1>5. Whole(task.packet) <=> m = l
  <2>1. ASSUME m = l PROVE Whole(task.packet)
    <3>1. 1 \in 1 .. m /\ m >= HeaderBytes
      BY <1>1, <1>2, <1>4, <2>1
    <3>2. task.packet[1] = p[1][1]
      BY <1>3, <3>1
    <3> QED
      BY <1>2, <2>1, <3>1, <3>2 DEF Whole
  <2>2. ASSUME Whole(task.packet) PROVE m = l
    <3>1. m >= HeaderBytes /\ m = HeaderBytes + task.packet[1]
      BY <2>2 DEF Whole
    <3>2. 1 \in 1 .. m
      BY <1>1, <3>1 DEF HeaderBytes
    <3>3. task.packet[1] = p[1][1]
      BY <1>3, <3>2
    <3> QED
      BY <1>2, <3>1, <3>3
  <2> QED
    BY <2>1, <2>2
<1>6. m = l => task.packet = p[1]
  BY <1>1, <1>2, <1>3, SeqEqual
<1>7. m \in 0 .. l
  <2> HIDE DEF m, l
  <2> QED
    BY <1>1, <1>2
<1> QED
  BY <1>2, <1>3, <1>5, <1>6, <1>7

LEMMA R2ATaskLoad ==
  ASSUME Types, R2AInv, NEW p, NEW q, R2APending(p, q), TaskLoad
  PROVE  /\ R2ANext(p, q) /\ task'.packet \in Seq(Nat)
         /\ task'.index \in Index /\ task'.count = task.count
         /\ Len(task'.packet) >= Len(task.packet)
<1> DEFINE u == Used(r2a_tail, r2a_head)
           f == Ring(r2a_buffer, r2a_head)
           l == Len(p[1])
           m == Len(task.packet)
           x == r2a_buffer[task.index + 1]
<1>1. /\ task_pc = "read" /\ task_pc' = "read" /\ ~Whole(task.packet)
      /\ UNCHANGED <<r2aVars, d_pc, send_buf, channel_status>>
      /\ task'.packet = Append(task.packet, x) /\ task'.index = Advance(task.index, 1)
      /\ task'.count = task.count
  BY DEF TaskLoad, Types, daemonVars
<1>2. /\ l \in 1 .. u /\ m \in 0 .. l /\ m # l
      /\ \A k \in 1 .. l : f[k] = p[1][k]
      /\ \A k \in 1 .. m : task.packet[k] = p[1][k]
  BY <1>1, R2AFirst
<1>3. /\ u \in 0 .. Size - 1 /\ Size \in Nat /\ r2a_head \in Index /\ Size > 3
      /\ task.packet \in Seq(Nat) /\ u # 0 /\ task.index \in Index
      /\ task.index = Advance(r2a_head, m) /\ r2a_buffer \in [1 .. Size -> Nat]
  <2>1. u \in 0 .. Size - 1
    BY UsedValue DEF Types
  <2> QED
    BY <1>1, <2>1, IndexTypes DEF Types, R2APending, R2AReading
<1>4. m \in Nat /\ m + 1 \in 1 .. l /\ m < Size /\ m + 1 \in 1 .. Size /\ (m + 1) - 1 = m
      /\ m \in 0 .. Size /\ m + 1 <= l /\ 1 \in 0 .. Size /\ m + 1 >= m
  <2> HIDE DEF u, l, m
  <2>1. u \in Nat /\ l \in 1 .. u /\ m \in 0 .. l /\ m # l /\ u < Size /\ Size \in Nat
    BY <1>2, <1>3
  <2> QED
    BY ONLY <2>1
<1>5. x = f[m + 1] /\ x \in Nat
  <2>1. f[m + 1] = r2a_buffer[Advance(r2a_head, m) + 1]
    BY <1>4 DEF Ring
  <2>2. Advance(r2a_head, m) + 1 \in 1 .. Size
    BY <1>3, <1>4, AdvanceCell
  <2> QED
    BY <1>3, <2>1, <2>2
<1> HIDE DEF x
<1>6. /\ task'.packet \in Seq(Nat) /\ Len(task'.packet) = m + 1
      /\ \A k \in 1 .. m : task'.packet[k] = task.packet[k]
      /\ task'.packet[m + 1] = x
  BY <1>1, <1>3, <1>5, AppendProperties
<1>7. task'.index = Advance(r2a_head, m + 1) /\ task'.index \in Index
  <2>1. Advance(task.index, 1) \in Index
    BY <1>3, <1>4, AdvanceValue
  <2> QED
    BY <1>1, <1>3, <1>4, <2>1, AdvanceMore
<1>8. R2AReading(p)'
  <2>1. \A k \in 1 .. m + 1 : task'.packet[k] = f[k]
    <3> SUFFICES ASSUME NEW k \in 1 .. m + 1 PROVE task'.packet[k] = f[k]
      OBVIOUS
    <3>1. CASE k = m + 1
      BY <1>5, <1>6, <3>1
    <3>2. CASE k # m + 1
      <4>1. k \in 1 .. m /\ k \in 1 .. l
        <5> HIDE DEF l, m
        <5>1. m \in Nat /\ m + 1 \in 1 .. l /\ k \in 1 .. m + 1 /\ k # m + 1
          BY <1>4, <3>2
        <5> QED
          BY <1>2, <5>1
      <4> QED
        BY <1>2, <1>6, <4>1
    <3> QED
      BY <3>1, <3>2
  <2>2. Used(r2a_tail, r2a_head)' = u /\ Ring(r2a_buffer, r2a_head)' = f
    BY <1>1 DEF Used, r2aVars, Ring
  <2>3. r2a_head' = r2a_head
    BY <1>1 DEF r2aVars
  <2> HIDE DEF u, f, m, l
  <2>4. m + 1 <= Len(p[1])
    BY <1>4 DEF l
  <2> QED
    BY <1>3, <1>6, <1>7, <2>1, <2>2, <2>3, <2>4 DEF R2AReading
<1>9. R2ANext(p, q)
  BY <1>1, <1>8, R2ASame
<1> QED
  BY <1>1, <1>4, <1>6, <1>7, <1>9

LEMMA UsedLess ==
  ASSUME NEW i \in Index, NEW j \in Index, NEW n \in 0 .. Used(j, i)
  PROVE  /\ Used(j, Advance(i, n)) = Used(j, i) - n
         /\ Advance(i, n) \in Index
<1> DEFINE u == Used(j, i)
           a == Advance(i, n)
           v == Used(j, a)
<1>1. Size \in Nat /\ i \in 0 .. Size - 1 /\ j \in 0 .. Size - 1
  BY RingSizeAssumption DEF Index
<1>2. u \in 0 .. Size - 1 /\ u = (IF j >= i THEN j - i ELSE j - i + Size) /\ n \in 0 .. u
  BY <1>1, UsedValue
<1>3. n \in 0 .. Size
  <2> HIDE DEF u
  <2> QED
    BY <1>1, <1>2
<1>4. a \in Index /\ a = IF i + n < Size THEN i + n ELSE i + n - Size
  BY <1>3, AdvanceValue
<1>5. v = IF j >= a THEN j - a ELSE j - a + Size
  BY <1>4, UsedValue
<1> HIDE DEF u, a, v
<1>6. a \in 0 .. Size - 1
  BY <1>4 DEF Index
<1>7. v = u - n
  BY <1>1, <1>2, <1>3, <1>4, <1>5, <1>6
<1> QED
  BY <1>4, <1>7 DEF u, a, v

\* The distances between R2A's indices.
LEMMA R2ADistances ==
  ASSUME Types, R2AIndices
  PROVE  /\ Used(r2a_tail, r2a_head) \in 0 .. Size - 1
         /\ Used(r2a_head, channel_status.r2a_head) + Used(r2a_tail, r2a_head) < Size
         /\ Used(channel_status.r2a_tail, r2a_tail)
              \in 0 .. Size - 1 - Used(r2a_tail, r2a_head)
         /\ Used(r2a_tail, r2a_head) + SendRoom < Size
         /\ SendRoom \in 0 .. Size - 1
         /\ d_pc # "publish tail" => Used(channel_status.r2a_tail, r2a_tail) = 0
<1> DEFINE u == Used(r2a_tail, r2a_head)
           v == Used(channel_status.r2a_tail, r2a_tail)
           w == Used(r2a_head, channel_status.r2a_head)
           s == Used(channel_status.r2a_tail, channel_status.r2a_head)
<1>1. /\ u \in 0 .. Size - 1 /\ v \in 0 .. Size - 1 /\ w \in 0 .. Size - 1
      /\ s \in 0 .. Size - 1 /\ (w + u) + v = s /\ SendRoom = Size - 1 - s
  BY UsedValue DEF Types, R2AIndices, SendRoom
<1>2. d_pc # "publish tail" => v = 0
  BY UsedNone DEF R2AIndices, Types
<1> HIDE DEF u, v, w, s
<1>3. /\ w + u < Size /\ v \in 0 .. Size - 1 - u /\ u + SendRoom < Size
      /\ SendRoom \in 0 .. Size - 1
  BY <1>1, RingSizeAssumption
<1> QED
  BY <1>1, <1>2, <1>3 DEF u, v, w, s

\* The driver hands over the first packet and gives its bytes back.
LEMMA R2ATaskTake ==
  ASSUME Types, R2AInv, NEW p, NEW q, R2APending(p, q), TaskTake
  PROVE  /\ p # <<>> /\ amiga_got' = Head(p) /\ amiga_got' \in PiPackets
         /\ R2ANext(Tail(p), q)
<1> DEFINE u == Used(r2a_tail, r2a_head)
           w == Used(r2a_head, channel_status.r2a_head)
           f == Ring(r2a_buffer, r2a_head)
           g == Ring(r2a_buffer, task.index)
           l == Len(p[1])
<1>1. /\ task_pc = "read" /\ Whole(task.packet) /\ task_pc' = "idle"
      /\ UNCHANGED <<r2a_buffer, r2a_tail, d_pc, send_buf, channel_status>>
      /\ r2a_head' = task.index /\ amiga_got' = task.packet
  BY DEF TaskTake, daemonVars
<1>2. /\ p # <<>> /\ p[1] \in PiPackets /\ task.packet = p[1] /\ l \in 1 .. u
      /\ p \in Seq(PiPackets)
  BY <1>1, R2AFirst DEF R2APending
<1>3. /\ r2a_head \in Index /\ r2a_tail \in Index /\ channel_status.r2a_head \in Index
      /\ task.index = Advance(r2a_head, l) /\ Size \in Nat
      /\ u \in 0 .. Size - 1 /\ w \in 0 .. Size - 1 /\ w + u < Size
      /\ Holds(f, u, p)
  BY <1>1, <1>2, IndexTypes, UsedValue, R2ADistances
     DEF Types, R2AInv, R2APending, R2AReading
<1>4. l \in Nat /\ l \in 0 .. u /\ w + l < Size /\ u \in Nat \ {0} /\ l \in 0 .. Size
      /\ u - l \in Nat /\ u - l <= Size - l /\ (w + l) + (u - l) = w + u
  <2> HIDE DEF u, w, l
  <2>1. l \in 1 .. u /\ u \in 0 .. Size - 1 /\ w \in 0 .. Size - 1 /\ w + u < Size /\ Size \in Nat
    BY <1>2, <1>3
  <2> QED
    BY ONLY <2>1
<1>5. Used(r2a_tail, task.index) = u - l /\ task.index \in Index
  BY <1>3, <1>4, UsedLess
<1>6. Used(task.index, channel_status.r2a_head) = w + l
  BY <1>3, <1>4, UsedMore
<1>7. R2AIndices'
  <2>1. /\ Used(r2a_head, channel_status.r2a_head)' = w + l
        /\ Used(r2a_tail, r2a_head)' = u - l
        /\ Used(channel_status.r2a_tail, r2a_tail)'
             = Used(channel_status.r2a_tail, r2a_tail)
        /\ Used(channel_status.r2a_tail, channel_status.r2a_head)'
             = Used(channel_status.r2a_tail, channel_status.r2a_head)
    BY <1>1, <1>5, <1>6 DEF Used
  <2>2. w + u + Used(channel_status.r2a_tail, r2a_tail)
          = Used(channel_status.r2a_tail, channel_status.r2a_head)
    BY DEF R2AInv, R2AIndices
  <2>3. (w + l) + (u - l) + Used(channel_status.r2a_tail, r2a_tail)
          = Used(channel_status.r2a_tail, channel_status.r2a_head)
    BY <1>4, <2>2
  <2>4. (Used(r2a_head, channel_status.r2a_head) + Used(r2a_tail, r2a_head)
           + Used(channel_status.r2a_tail, r2a_tail)
         = Used(channel_status.r2a_tail, channel_status.r2a_head))'
    BY <2>1, <2>3
  <2> QED
    BY <1>1, <2>4 DEF R2AInv, R2AIndices
<1>8. R2AStored' /\ R2ASending'
  <2>1. SendRoom' = SendRoom
    BY <1>1 DEF SendRoom, Used
  <2>2. Ring(r2a_buffer, r2a_tail)' = Ring(r2a_buffer, r2a_tail)
    BY <1>1 DEF Ring
  <2> QED
    BY <1>1, <2>1, <2>2 DEF R2AInv, R2AStored, R2ASending
<1>9. R2APending(Tail(p), q)'
  <2>1. Tail(p) \in Seq(PiPackets) /\ Holds(g, u - l, Tail(p))
    <3>1. \A k \in 1 .. Size - l : f[l + k] = g[k]
      BY <1>3, <1>4, <1>5, RingShift
    <3>2. \A k \in 1 .. u - l : k \in 1 .. Size - l
      <4> HIDE DEF u, l
      <4> QED
        BY <1>3, <1>4
    <3>3. \A k \in 1 .. u - Len(p[1]) : g[k] = f[Len(p[1]) + k]
      BY <3>1, <3>2
    <3>4. Packets(PiPackets) /\ p \in Seq(PiPackets) /\ u \in Nat \ {0} /\ Holds(f, u, p)
      BY <1>2, <1>3, <1>4, PacketSets
    <3> HIDE DEF u, f, g
    <3> QED
      BY ONLY <3>3, <3>4, HoldsRest
  <2>2. /\ Ring(r2a_buffer, r2a_head)' = g
        /\ Used(r2a_tail, r2a_head)' = u - l
        /\ Ring(r2a_buffer, r2a_tail)' = Ring(r2a_buffer, r2a_tail)
        /\ Used(channel_status.r2a_tail, r2a_tail)'
             = Used(channel_status.r2a_tail, r2a_tail)
    BY <1>1, <1>5 DEF Used, Ring
  <2>3. R2AReading(Tail(p))'
    BY <1>1 DEF R2AReading
  <2> HIDE DEF u, g, l
  <2> QED
    BY <2>1, <2>2, <2>3 DEF R2APending
<1>10. Head(p) = p[1]
  BY <1>2
<1> QED
  BY <1>1, <1>2, <1>7, <1>8, <1>9, <1>10 DEF R2ANext

\* The batch fits behind what is published.
LEMMA R2ADaemonFlush ==
  ASSUME Types, R2AInv, NEW p, NEW q, R2APending(p, q), DaemonFlush
  PROVE  /\ send_buf' \in Seq(Nat) /\ Len(send_buf') < Size
         /\ R2ANext(p, q)
<1>1. PICK batch \in BoundedSeq(PiPackets, MaxBatch) :
        send_buf' = FlattenSeq(batch) /\ Len(send_buf') <= SendRoom
  BY DEF DaemonFlush
<1>2. /\ d_pc \in {"flush", "idle"} /\ d_pc' \in {"send", "publish tail", "idle"}
      /\ d_pc' = "send" => send_buf' # <<>>
      /\ UNCHANGED <<r2aVars, taskVars, channel_status>>
  BY DEF DaemonFlush
<1>3. /\ batch \in Seq(PiPackets) /\ send_buf' \in Seq(Nat) /\ Len(send_buf') \in Nat
      /\ Holds(send_buf', Len(send_buf'), batch)
  BY <1>1, BatchIsSeq, HoldsFlatten, PacketSets, LenProperties
<1>4. SendRoom \in 0 .. Size - 1 /\ Size \in Nat /\ Len(send_buf') < Size
  <2>1. SendRoom \in 0 .. Size - 1 /\ Size \in Nat
    BY IndexTypes
  <2> QED
    BY <1>1, <1>3, <2>1
<1>5. SendRoom' = SendRoom
  BY <1>2 DEF SendRoom, Used
<1>6. R2AIndices'
  BY <1>2 DEF R2AInv, R2AIndices, Used, r2aVars
<1>7. R2ASending'
  <2>1. ASSUME d_pc' = "send" PROVE Len(send_buf') \in 1 .. SendRoom
    <3>1. Len(send_buf') # 0
      BY <1>2, <1>3, <2>1, EmptySeq
    <3> QED
      BY <1>1, <1>3, <1>4, <3>1
  <2> QED
    BY <1>2, <1>3, <1>5, <2>1 DEF R2ASending
<1>8. R2AStored'
  BY <1>2 DEF R2AStored
<1>9. R2APending(p, q)'
  BY <1>2 DEF R2APending, R2AReading, r2aVars, taskVars, Ring, Used
<1> QED
  BY <1>3, <1>4, <1>6, <1>7, <1>8, <1>9 DEF R2ANext

\* What is read stays the start of the first packet when its bytes stay.
LEMMA R2AReadingKept ==
  ASSUME Types, R2AInv, NEW p, NEW q, R2APending(p, q),
         UNCHANGED <<r2a_tail, r2a_head, taskVars>>,
         \A k \in 1 .. Used(r2a_tail, r2a_head) :
           Ring(r2a_buffer', r2a_head)[k] = Ring(r2a_buffer, r2a_head)[k]
  PROVE  R2AReading(p)'
<1> SUFFICES ASSUME task_pc = "read" PROVE R2AReading(p)'
  BY DEF R2AReading, taskVars
<1> DEFINE u == Used(r2a_tail, r2a_head)
           l == Len(p[1])
           m == Len(task.packet)
<1>1. l \in 1 .. u /\ m \in 0 .. l /\ u \in Nat
  BY R2AFirst, UsedIsNat DEF Types
<1>2. \A k \in 1 .. m : k \in 1 .. u
  <2> HIDE DEF u, l, m
  <2> QED
    BY <1>1
<1>3. /\ u # 0 /\ m <= l /\ task.index = Advance(r2a_head, m)
      /\ \A k \in 1 .. m : task.packet[k] = Ring(r2a_buffer, r2a_head)[k]
  BY DEF R2APending, R2AReading
<1>4. \A k \in 1 .. m : task.packet[k] = Ring(r2a_buffer', r2a_head)[k]
  BY <1>2, <1>3
<1>5. Used(r2a_tail, r2a_head)' = u /\ Ring(r2a_buffer, r2a_head)' = Ring(r2a_buffer', r2a_head)
      /\ task' = task /\ r2a_head' = r2a_head
  BY DEF Used, Ring, taskVars
<1> HIDE DEF u
<1> QED
  BY <1>3, <1>4, <1>5 DEF R2AReading

\* All bytes are stored.
LEMMA R2ASent ==
  ASSUME Types, R2AInv, NEW p, NEW q, R2APending(p, q), d_pc \in {"send", "send rest"},
         UNCHANGED <<r2a_tail, r2a_head, taskVars>>, d_pc' = "publish tail",
         channel_status'.r2a_head = channel_status.r2a_head,
         channel_status'.r2a_tail = Advance(r2a_tail, Len(send_buf)),
         \A k \in 1 .. Used(r2a_tail, r2a_head) :
           Ring(r2a_buffer', r2a_head)[k] = Ring(r2a_buffer, r2a_head)[k],
         \A k \in 1 .. Len(send_buf) : Ring(r2a_buffer', r2a_tail)[k] = send_buf[k]
  PROVE  \E r : R2ANext(p, r)
<1> DEFINE u == Used(r2a_tail, r2a_head)
           w == Used(r2a_head, channel_status.r2a_head)
           s == Used(r2a_tail, channel_status.r2a_head)
           l == Len(send_buf)
<1>1. PICK r \in Seq(PiPackets) : Holds(send_buf, l, r) /\ l \in 1 .. SendRoom
  BY DEF R2AInv, R2ASending
<1>2. /\ r2a_head \in Index /\ r2a_tail \in Index /\ channel_status.r2a_head \in Index
      /\ Size \in Nat /\ channel_status.r2a_tail = r2a_tail
      /\ SendRoom = Size - 1 - s
      /\ u \in 0 .. Size - 1 /\ w \in 0 .. Size - 1 /\ s \in 0 .. Size - 1
      /\ Used(r2a_tail, r2a_tail) = 0
  BY IndexTypes, UsedValue, UsedNone DEF Types, R2AInv, R2AIndices, SendRoom
<1>3. w + u + 0 = s
  BY <1>2 DEF R2AInv, R2AIndices
<1>4. l \in Nat /\ s + l < Size /\ 0 + l < Size /\ w + u + l = s + l /\ 0 + l = l
  <2> DEFINE x == SendRoom
  <2>1. /\ l \in 1 .. x /\ x = Size - 1 - s /\ Size \in Nat /\ u \in 0 .. Size - 1
        /\ w \in 0 .. Size - 1 /\ s \in 0 .. Size - 1 /\ w + u + 0 = s
    BY <1>1, <1>2, <1>3
  <2> HIDE DEF u, w, s, l, x
  <2> QED
    BY ONLY <2>1
<1>5. /\ Used(Advance(r2a_tail, l), channel_status.r2a_head) = s + l
      /\ Used(Advance(r2a_tail, l), r2a_tail) = l
  BY <1>2, <1>4, UsedMore
<1>6. R2AIndices'
  <2>1. /\ Used(r2a_head, channel_status.r2a_head)' = w
        /\ Used(r2a_tail, r2a_head)' = u
        /\ Used(channel_status.r2a_tail, r2a_tail)' = l
        /\ Used(channel_status.r2a_tail, channel_status.r2a_head)' = s + l
    BY <1>5 DEF Used
  <2>2. (Used(r2a_head, channel_status.r2a_head) + Used(r2a_tail, r2a_head)
           + Used(channel_status.r2a_tail, r2a_tail)
         = Used(channel_status.r2a_tail, channel_status.r2a_head))'
    BY <1>4, <2>1
  <2> QED
    BY <2>2 DEF R2AIndices
<1>7. R2AStored' /\ R2ASending'
  BY DEF R2AStored, R2ASending
<1>8. R2APending(p, r)'
  <2>1. p \in Seq(PiPackets) /\ Holds(Ring(r2a_buffer, r2a_head), u, p)
    BY DEF R2APending
  <2>2. u \in Nat /\ Packets(PiPackets)
    BY <1>2, UsedIsNat, PacketSets
  <2>3. Holds(Ring(r2a_buffer', r2a_head), u, p)
    BY <2>1, <2>2, HoldsSame
  <2>4. Holds(Ring(r2a_buffer', r2a_tail), l, r)
    <3>1. Holds(send_buf, l, r)
      BY <1>1
    <3> QED
      BY <1>4, <2>2, <3>1, HoldsSame
  <2>5. R2AReading(p)'
    BY R2AReadingKept
  <2>6. /\ Ring(r2a_buffer, r2a_head)' = Ring(r2a_buffer', r2a_head)
        /\ Ring(r2a_buffer, r2a_tail)' = Ring(r2a_buffer', r2a_tail)
        /\ Used(r2a_tail, r2a_head)' = u
        /\ Used(channel_status.r2a_tail, r2a_tail)' = l
    BY <1>5 DEF Ring, Used
  <2> HIDE DEF u, l
  <2> QED
    BY <2>1, <2>3, <2>4, <2>5, <2>6 DEF R2APending
<1> QED
  BY <1>6, <1>7, <1>8 DEF R2ANext

LEMMA R2ADaemonSend ==
  ASSUME Types, R2AInv, NEW p, NEW q, R2APending(p, q), DaemonSend
  PROVE  /\ r2a_buffer' \in [1 .. Size -> Nat]
         /\ channel_status' \in [a2r_tail : Index, r2a_head : Index, r2a_tail : Index,
                                 a2r_head : Index]
         /\ \A k \in 1 .. Used(r2a_tail, r2a_head) :
              Ring(r2a_buffer', r2a_head)[k] = Ring(r2a_buffer, r2a_head)[k]
         /\ \E r : R2ANext(p, r)
<1> DEFINE t == r2a_tail
           u == Used(r2a_tail, r2a_head)
           l == Len(send_buf)
           e == Size - r2a_tail
<1>1. /\ t \in Index /\ r2a_head \in Index /\ Size \in Nat /\ t \in 0 .. Size - 1
      /\ r2a_buffer \in [1 .. Size -> Nat] /\ send_buf \in Seq(Nat)
      /\ channel_status.r2a_tail = t /\ l \in 1 .. SendRoom /\ l \in Nat
      /\ u \in 0 .. Size - 1 /\ u + SendRoom < Size /\ SendRoom \in 0 .. Size - 1
  BY IndexTypes, R2ADistances, LenProperties
     DEF Types, DaemonSend, R2AInv, R2AIndices, R2ASending
<1>2. /\ t = Advance(t, 0) /\ l \in 0 .. Size
      /\ u + l <= Size /\ e \in Nat
  <2>1. t = Advance(t, 0)
    BY <1>1, AdvanceNone
  <2> HIDE DEF u, l
  <2> QED
    BY <1>1, <2>1
<1>3. Advance(t, l) \in Index
  BY <1>1, <1>2, AdvanceValue
<1>4. d_pc = "send" /\ UNCHANGED <<r2a_tail, r2a_head, taskVars>>
  BY DEF DaemonSend
<1>5. CASE ~(e < l)
  <2>1. /\ r2a_buffer' = Overlay(r2a_buffer, t, send_buf)
        /\ channel_status' = [channel_status EXCEPT !.r2a_tail = Advance(t, l)]
        /\ d_pc' = "publish tail"
    BY <1>1, <1>5 DEF DaemonSend
  <2>2. t + l <= Size
    <3> HIDE DEF l
    <3> QED
      BY <1>1, <1>5
  <2>3. /\ r2a_buffer' \in [1 .. Size -> Nat]
        /\ \A i \in Index : Used(t, i) + l <= Size =>
             \A k \in 1 .. Used(t, i) : Ring(r2a_buffer', i)[k] = Ring(r2a_buffer, i)[k]
    BY ZenonT(60), <1>1, <2>1, <2>2, OverlayAtIndex
  <2>4. \A k \in 1 .. l : Ring(r2a_buffer', t)[k] = send_buf[k]
    BY <1>1, <2>1, <2>2, OverlayAtIndex
  <2>5. \A k \in 1 .. u : Ring(r2a_buffer', r2a_head)[k] = Ring(r2a_buffer, r2a_head)[k]
    BY <1>1, <1>2, <2>3
  <2>6. /\ channel_status' \in [a2r_tail : Index, r2a_head : Index, r2a_tail : Index,
                                a2r_head : Index]
        /\ channel_status'.r2a_head = channel_status.r2a_head
        /\ channel_status'.r2a_tail = Advance(t, l)
    BY <1>3, <2>1 DEF Types
  <2>7. \E r : R2ANext(p, r)
    BY <1>4, <2>1, <2>4, <2>5, <2>6, R2ASent
  <2> QED
    BY <2>3, <2>5, <2>6, <2>7
<1>6. CASE e < l
  <2> DEFINE b == SubSeq(send_buf, 1, e)
  <2>1. /\ r2a_buffer' = Overlay(r2a_buffer, t, b)
        /\ UNCHANGED <<channel_status, send_buf>>
        /\ d_pc' = "send rest"
    BY <1>1, <1>6 DEF DaemonSend
  <2>2. /\ b \in Seq(Nat) /\ Len(b) = e /\ \A k \in 1 .. e : b[k] = send_buf[k]
    <3> HIDE DEF e
    <3>1. \A k \in 1 .. e : send_buf[k] \in Nat
      <4>1. \A k \in 1 .. e : k \in 1 .. l
        <5> HIDE DEF l
        <5> QED
          BY <1>1, <1>2, <1>6
      <4> QED
        BY <1>1, <4>1, ElementOfSeq
    <3>2. 1 \in Int /\ e \in Int /\ (IF 1 <= e THEN e - 1 + 1 ELSE 0) = e /\ e - 1 + 1 = e
      BY <1>2
    <3>3. \A k \in 1 .. e : 1 + k - 1 = k
      OBVIOUS
    <3>4. /\ b \in Seq(Nat) /\ Len(b) = (IF 1 <= e THEN e - 1 + 1 ELSE 0)
          /\ \A k \in 1 .. e - 1 + 1 : b[k] = send_buf[1 + k - 1]
      BY <3>1, <3>2, SubSeqProperties
    <3> QED
      BY <3>2, <3>3, <3>4
  <2>3. t + Len(b) <= Size /\ u + Len(b) <= Size
    <3> HIDE DEF b, l, u
    <3> QED
      BY <1>1, <1>2, <1>6, <2>2
  <2> HIDE DEF b
  <2>4. /\ r2a_buffer' \in [1 .. Size -> Nat]
        /\ \A i \in Index : Used(t, i) + Len(b) <= Size =>
             \A k \in 1 .. Used(t, i) : Ring(r2a_buffer', i)[k] = Ring(r2a_buffer, i)[k]
    <3>1. /\ Overlay(r2a_buffer, t, b) \in [1 .. Size -> Nat]
          /\ \A k \in 1 .. Len(b) : Ring(Overlay(r2a_buffer, t, b), t)[k] = b[k]
          /\ \A i \in Index : Used(t, i) + Len(b) <= Size =>
               \A k \in 1 .. Used(t, i) :
                 Ring(Overlay(r2a_buffer, t, b), i)[k] = Ring(r2a_buffer, i)[k]
      BY <1>1, <2>2, <2>3, OverlayAtIndex
    <3> QED
      BY <2>1, <3>1
  <2>5. \A k \in 1 .. e : Ring(r2a_buffer', t)[k] = send_buf[k]
    <3>1. \A k \in 1 .. Len(b) : Ring(r2a_buffer', t)[k] = b[k]
      BY <1>1, <2>1, <2>2, <2>3, OverlayAtIndex
    <3> QED
      BY <2>2, <3>1
  <2>6. \A k \in 1 .. u : Ring(r2a_buffer', r2a_head)[k] = Ring(r2a_buffer, r2a_head)[k]
    BY <1>1, <2>3, <2>4
  <2>7. R2AIndices'
    BY <1>4, <2>1 DEF R2AInv, R2AIndices, Used
  <2>8. R2AStored'
    <3>1. Ring(r2a_buffer, r2a_tail)' = Ring(r2a_buffer', t)
      BY <1>4 DEF Ring
    <3>2. Size - r2a_tail' = e /\ Len(send_buf') = l /\ send_buf' = send_buf
      BY <1>4, <2>1
    <3> HIDE DEF e, l
    <3> QED
      BY <1>6, <2>5, <3>1, <3>2 DEF R2AStored
  <2>9. R2ASending'
    <3>1. SendRoom' = SendRoom
      BY <2>1 DEF SendRoom, Used
    <3> QED
      BY <1>4, <2>1, <3>1 DEF R2AInv, R2ASending
  <2>10. R2APending(p, q)'
    <3>1. Used(channel_status.r2a_tail, t) = 0
      BY <1>1, UsedNone
    <3>2. Holds(Ring(r2a_buffer', r2a_head), u, p)
      <4>1. u \in Nat /\ Packets(PiPackets) /\ p \in Seq(PiPackets)
            /\ Holds(Ring(r2a_buffer, r2a_head), u, p)
        BY <1>1, PacketSets DEF R2APending
      <4> QED
        BY <2>6, <4>1, HoldsSame
    <3>3. Holds(Ring(r2a_buffer', t), 0, q)
      <4>1. 0 \in Nat /\ Packets(PiPackets) /\ q \in Seq(PiPackets)
            /\ Holds(Ring(r2a_buffer, t), 0, q)
        BY <3>1, PacketSets DEF R2APending
      <4>2. \A k \in 1 .. 0 : Ring(r2a_buffer', t)[k] = Ring(r2a_buffer, t)[k]
        OBVIOUS
      <4> QED
        BY <4>1, <4>2, HoldsSame
    <3>4. R2AReading(p)'
      BY <1>4, <2>6, R2AReadingKept
    <3>5. /\ Ring(r2a_buffer, r2a_head)' = Ring(r2a_buffer', r2a_head)
          /\ Ring(r2a_buffer, r2a_tail)' = Ring(r2a_buffer', t)
          /\ Used(r2a_tail, r2a_head)' = u
          /\ Used(channel_status.r2a_tail, r2a_tail)' = 0
      BY <1>4, <2>1, <3>1 DEF Ring, Used
    <3> HIDE DEF u
    <3> QED
      BY <3>2, <3>3, <3>4, <3>5 DEF R2APending
  <2> QED
    BY <2>1, <2>4, <2>6, <2>7, <2>8, <2>9, <2>10 DEF R2ANext, Types
<1> QED
  BY <1>5, <1>6

LEMMA R2ADaemonSendRest ==
  ASSUME Types, R2AInv, NEW p, NEW q, R2APending(p, q), DaemonSendRest
  PROVE  /\ r2a_buffer' \in [1 .. Size -> Nat]
         /\ channel_status' \in [a2r_tail : Index, r2a_head : Index, r2a_tail : Index,
                                 a2r_head : Index]
         /\ \A k \in 1 .. Used(r2a_tail, r2a_head) :
              Ring(r2a_buffer', r2a_head)[k] = Ring(r2a_buffer, r2a_head)[k]
         /\ \E r : R2ANext(p, r)
<1> DEFINE t == r2a_tail
           u == Used(r2a_tail, r2a_head)
           l == Len(send_buf)
           e == Size - r2a_tail
           rest == SubSeq(send_buf, e + 1, l)
           a == 0
<1>1. /\ t \in Index /\ r2a_head \in Index /\ Size \in Nat /\ Size > 3 /\ t \in 0 .. Size - 1
      /\ r2a_buffer \in [1 .. Size -> Nat] /\ send_buf \in Seq(Nat)
      /\ channel_status.r2a_tail = t /\ l \in 1 .. SendRoom /\ l \in Nat
      /\ u \in 0 .. Size - 1 /\ u + SendRoom < Size /\ SendRoom \in 0 .. Size - 1
      /\ e < l /\ \A k \in 1 .. e : Ring(r2a_buffer, t)[k] = send_buf[k]
  BY IndexTypes, R2ADistances, LenProperties
     DEF Types, DaemonSendRest, R2AInv, R2AIndices, R2ASending, R2AStored
<1>2. /\ e \in Nat /\ e < Size /\ e \in 0 .. Size /\ a \in Index
      /\ l \in Nat /\ l - e \in Nat /\ l - e < Size /\ a + (l - e) <= Size
      /\ e + (l - e) <= Size /\ u + e + (l - e) <= Size /\ l \in 0 .. Size
      /\ l - e \in 0 .. Size /\ a + (l - e) = l - e
  <2> DEFINE s == SendRoom
  <2>1. /\ l \in 1 .. s /\ s \in 0 .. Size - 1 /\ u \in 0 .. Size - 1 /\ u + s < Size
        /\ e = Size - t /\ t \in 0 .. Size - 1 /\ Size \in Nat /\ Size > 3 /\ e < l
    BY <1>1
  <2>2. a \in Index
    BY <1>1 DEF Index
  <2> HIDE DEF t, u, l, e, s
  <2>3. /\ e \in Nat /\ e < Size /\ e \in 0 .. Size
        /\ l \in Nat /\ l - e \in Nat /\ l - e < Size /\ 0 + (l - e) <= Size
        /\ e + (l - e) <= Size /\ u + e + (l - e) <= Size /\ l \in 0 .. Size
        /\ l - e \in 0 .. Size /\ 0 + (l - e) = l - e
    BY ONLY <2>1
  <2> QED
    BY <2>2, <2>3
<1>3. a = Advance(t, e) /\ Advance(a, l - e) = l - e /\ Advance(t, l) = l - e
      /\ Advance(t, l) \in Index
  <2>1. /\ Advance(t, e) = IF t + e < Size THEN t + e ELSE t + e - Size
        /\ Advance(a, l - e) = IF a + (l - e) < Size THEN a + (l - e) ELSE a + (l - e) - Size
        /\ Advance(t, l) = IF t + l < Size THEN t + l ELSE t + l - Size
        /\ Advance(t, l) \in Index
    BY <1>1, <1>2, AdvanceValue
  <2>2. ~(t + e < Size) /\ t + e - Size = 0 /\ ~(t + l < Size) /\ t + l - Size = l - e
    <3>1. /\ e = Size - t /\ t \in 0 .. Size - 1 /\ Size \in Nat /\ e < l /\ l \in Nat
      BY <1>1, <1>2
    <3> HIDE DEF t, l, e
    <3> QED
      BY ONLY <3>1
  <2> HIDE DEF t, l, e
  <2> QED
    BY <1>2, <2>1, <2>2
<1>4. /\ d_pc = "send rest" /\ UNCHANGED <<r2a_tail, r2a_head, taskVars>>
      /\ d_pc' = "publish tail"
      /\ r2a_buffer' = Overlay(r2a_buffer, 0, rest)
      /\ channel_status' = [channel_status EXCEPT !.r2a_tail = Advance(0, Len(rest))]
  BY <1>1 DEF DaemonSendRest
<1>5. /\ rest \in Seq(Nat) /\ Len(rest) = l - e
      /\ \A k \in 1 .. l - e : rest[k] = send_buf[e + k]
  <2>1. e + 1 \in Int /\ l \in Int /\ (IF e + 1 <= l THEN l - (e + 1) + 1 ELSE 0) = l - e
        /\ l - (e + 1) + 1 = l - e /\ \A k \in 1 .. l - e : (e + 1) + k - 1 = e + k
    <3>1. e \in Nat /\ l \in Nat /\ e < l
      BY <1>1, <1>2
    <3> HIDE DEF e, l
    <3> QED
      BY ONLY <3>1
  <2>2. \A k \in e + 1 .. l : send_buf[k] \in Nat
    <3>1. \A k \in e + 1 .. l : k \in 1 .. l
      <4> HIDE DEF e, l
      <4> QED
        BY <1>2
    <3> QED
      BY <1>1, <3>1, ElementOfSeq
  <2> HIDE DEF e, l
  <2>3. /\ rest \in Seq(Nat) /\ Len(rest) = (IF e + 1 <= l THEN l - (e + 1) + 1 ELSE 0)
        /\ \A k \in 1 .. l - (e + 1) + 1 : rest[k] = send_buf[(e + 1) + k - 1]
    BY <2>1, <2>2, SubSeqProperties
  <2> QED
    BY <2>1, <2>3
<1>6. /\ Overlay(r2a_buffer, a, rest) \in [1 .. Size -> Nat]
      /\ \A k \in 1 .. e : Ring(Overlay(r2a_buffer, a, rest), t)[k] = Ring(r2a_buffer, t)[k]
      /\ \A k \in 1 .. Len(rest) : Ring(Overlay(r2a_buffer, a, rest), t)[e + k] = rest[k]
      /\ \A i \in Index : Used(t, i) + e + Len(rest) <= Size =>
           \A k \in 1 .. Used(t, i) :
             Ring(Overlay(r2a_buffer, a, rest), i)[k] = Ring(r2a_buffer, i)[k]
  <2> HIDE DEF a, e, rest, t, l
  <2>1. /\ r2a_buffer \in [1 .. Size -> Nat] /\ t \in Index /\ e \in Nat
        /\ rest \in Seq(Nat) /\ a = Advance(t, e) /\ a + Len(rest) <= Size
        /\ e + Len(rest) <= Size /\ e < Size
    BY <1>1, <1>2, <1>3, <1>5
  <2> QED
    BY ONLY <2>1, OverlayRing
<1> HIDE DEF rest
<1>7. r2a_buffer' = Overlay(r2a_buffer, a, rest)
  BY <1>4
<1>8. \A k \in 1 .. u : Ring(r2a_buffer', r2a_head)[k] = Ring(r2a_buffer, r2a_head)[k]
  BY <1>1, <1>2, <1>5, <1>6, <1>7
<1>9. \A k \in 1 .. l : Ring(r2a_buffer', t)[k] = send_buf[k]
  <2> SUFFICES ASSUME NEW k \in 1 .. l PROVE Ring(r2a_buffer', t)[k] = send_buf[k]
    OBVIOUS
  <2>1. CASE k <= e
    <3>1. k \in 1 .. e
      <4> HIDE DEF l, e
      <4> QED
        BY <1>2, <2>1
    <3> QED
      BY <1>1, <1>6, <1>7, <3>1
  <2>2. CASE k > e
    <3> DEFINE j == k - e
    <3>1. j \in 1 .. l - e /\ e + j = k
      <4> HIDE DEF l, e
      <4> QED
        BY <1>2, <2>2
    <3> HIDE DEF j
    <3>2. Ring(r2a_buffer', t)[e + j] = rest[j] /\ rest[j] = send_buf[e + j]
      BY <1>5, <1>6, <1>7, <3>1
    <3> QED
      BY <3>1, <3>2
  <2>3. k <= e \/ k > e
    <3> HIDE DEF l, e
    <3> QED
      BY <1>2
  <2> QED
    BY <2>1, <2>2, <2>3
<1>10. /\ channel_status' \in [a2r_tail : Index, r2a_head : Index, r2a_tail : Index,
                               a2r_head : Index]
       /\ channel_status'.r2a_head = channel_status.r2a_head
       /\ channel_status'.r2a_tail = Advance(t, l)
  <2>1. Advance(0, Len(rest)) = Advance(t, l)
    BY <1>3, <1>5
  <2> HIDE DEF l, t
  <2> QED
    BY <1>3, <1>4, <2>1 DEF Types
<1>11. \E r : R2ANext(p, r)
  BY <1>4, <1>8, <1>9, <1>10, R2ASent
<1> QED
  BY <1>6, <1>7, <1>8, <1>10, <1>11

\* What was stored joins what is published.
LEMMA R2ADaemonPublishTail ==
  ASSUME Types, R2AInv, NEW p, NEW q, R2APending(p, q), DaemonPublishTail
  PROVE  R2ANext(p \o q, <<>>) /\ p \o q \in Seq(PiPackets)
<1> DEFINE t == r2a_tail
           T == channel_status.r2a_tail
           h == r2a_head
           u == Used(t, h)
           v == Used(T, t)
           w == Used(h, channel_status.r2a_head)
<1>1. /\ t \in Index /\ h \in Index /\ T \in Index /\ channel_status.r2a_head \in Index
      /\ Size \in Nat
      /\ u \in 0 .. Size - 1 /\ v \in 0 .. Size - 1 - u /\ w \in Nat
      /\ p \in Seq(PiPackets) /\ q \in Seq(PiPackets)
      /\ Holds(Ring(r2a_buffer, h), u, p) /\ Holds(Ring(r2a_buffer, t), v, q)
  BY IndexTypes, R2ADistances, UsedIsNat DEF Types, R2AInv, R2APending
<1>2. /\ r2a_tail' = T /\ d_pc' = "publish head"
      /\ UNCHANGED <<r2a_buffer, r2a_head, taskVars, channel_status>>
  BY DEF DaemonPublishTail
<1>3. /\ u \in Nat /\ v \in Nat /\ u + v < Size /\ u \in 0 .. Size
      /\ w + (u + v) + 0 = w + u + v
  <2> HIDE DEF u, v, w
  <2> QED
    BY <1>1
<1>4. T = Advance(t, v) /\ t = Advance(h, u)
  BY <1>1, AdvanceUsed
<1>5. Used(T, h) = u + v /\ Used(T, T) = 0
  BY <1>1, <1>3, <1>4, UsedMore, UsedNone
<1>6. R2AIndices'
  <2>1. /\ Used(r2a_head, channel_status.r2a_head)' = w
        /\ Used(r2a_tail, r2a_head)' = u + v
        /\ Used(channel_status.r2a_tail, r2a_tail)' = 0
        /\ Used(channel_status.r2a_tail, channel_status.r2a_head)'
             = Used(T, channel_status.r2a_head)
    BY <1>2, <1>5 DEF Used
  <2>2. w + u + v = Used(T, channel_status.r2a_head)
    BY DEF R2AInv, R2AIndices
  <2>3. (Used(r2a_head, channel_status.r2a_head) + Used(r2a_tail, r2a_head)
           + Used(channel_status.r2a_tail, r2a_tail)
         = Used(channel_status.r2a_tail, channel_status.r2a_head))'
    BY <1>3, <2>1, <2>2
  <2>4. channel_status'.r2a_tail = r2a_tail'
    BY <1>2
  <2> QED
    BY <2>3, <2>4 DEF R2AIndices
<1>7. R2AStored' /\ R2ASending'
  BY <1>2 DEF R2AStored, R2ASending
<1>8. p \o q \in Seq(PiPackets) /\ Holds(Ring(r2a_buffer, h), u + v, p \o q)
  <2>1. \A k \in 1 .. v : Ring(r2a_buffer, h)[u + k] = Ring(r2a_buffer, t)[k]
    <3>1. \A k \in 1 .. Size - u : Ring(r2a_buffer, h)[u + k] = Ring(r2a_buffer, t)[k]
      BY <1>1, <1>3, <1>4, RingShift
    <3>2. \A k \in 1 .. v : k \in 1 .. Size - u
      <4> HIDE DEF u, v
      <4> QED
        BY <1>1, <1>3
    <3> QED
      BY <3>1, <3>2
  <2> DEFINE f == Ring(r2a_buffer, h)
             g == Ring(r2a_buffer, t)
  <2>2. /\ Packets(PiPackets) /\ p \in Seq(PiPackets) /\ q \in Seq(PiPackets)
        /\ u \in Nat /\ v \in Nat /\ Holds(f, u, p) /\ Holds(g, v, q)
        /\ \A k \in 1 .. u : f[k] = f[k] /\ \A j \in 1 .. v : f[u + j] = g[j]
    BY <1>1, <1>3, <2>1, PacketSets
  <2>3. \A k \in 1 .. v : f[u + k] = g[k]
    BY <2>1
  <2> HIDE DEF f, g, u, v
  <2>4. p \o q \in Seq(PiPackets) /\ Holds(f, u + v, p \o q)
    BY ONLY <2>2, <2>3, HoldsJoin
  <2> QED
    BY <2>4 DEF f
<1>9. R2AReading(p \o q)'
  <2> SUFFICES ASSUME task_pc = "read" PROVE R2AReading(p \o q)'
    BY <1>2 DEF R2AReading, taskVars
  <2>1. /\ p # <<>> /\ Len(task.packet) \in 0 .. Len(p[1]) /\ Len(p[1]) \in 1 .. u
    BY R2AFirst
  <2>2. (p \o q)[1] = p[1]
    <3>1. Len(p) \in Nat /\ Len(q) \in Nat /\ Len(p) # 0
      BY <1>1, <2>1, LenProperties, EmptySeq
    <3>2. 1 \in 1 .. Len(p) + Len(q) /\ 1 <= Len(p)
      BY <3>1
    <3> QED
      BY <1>1, <3>2, ConcatProperties
  <2>3. /\ task.index = Advance(h, Len(task.packet)) /\ u # 0
        /\ \A k \in 1 .. Len(task.packet) : task.packet[k] = Ring(r2a_buffer, h)[k]
    BY DEF R2APending, R2AReading
  <2>4. u + v # 0 /\ Len(task.packet) <= Len(p[1])
    <3> DEFINE l == Len(p[1])
               m == Len(task.packet)
    <3>1. u \in Nat /\ v \in Nat /\ u # 0 /\ m \in 0 .. l /\ l \in 1 .. u
      BY <1>3, <2>1, <2>3
    <3> HIDE DEF u, v, l, m
    <3>2. u + v # 0 /\ m <= l
      BY ONLY <3>1
    <3> QED
      BY <3>2 DEF l, m
  <2>5. Used(r2a_tail, r2a_head)' = u + v /\ Ring(r2a_buffer, r2a_head)' = Ring(r2a_buffer, h)
        /\ task' = task /\ r2a_head' = h
    BY <1>2, <1>5 DEF Used, Ring, taskVars
  <2> HIDE DEF u, v
  <2> QED
    BY <2>2, <2>3, <2>4, <2>5 DEF R2AReading
<1>10. R2APending(p \o q, <<>>)'
  <2>1. /\ Ring(r2a_buffer, r2a_head)' = Ring(r2a_buffer, h)
        /\ Used(r2a_tail, r2a_head)' = u + v
        /\ Used(channel_status.r2a_tail, r2a_tail)' = 0
    BY <1>2, <1>5 DEF Ring, Used
  <2>2. Holds(Ring(r2a_buffer, r2a_tail)', 0, <<>>) /\ <<>> \in Seq(PiPackets)
    BY HoldsNone, EmptySeq
  <2> HIDE DEF u, v
  <2> QED
    BY <1>8, <1>9, <2>1, <2>2 DEF R2APending
<1> QED
  BY <1>6, <1>7, <1>8, <1>10 DEF R2ANext
-----------------------------------------------------------------------------
(* Every step preserves the invariant.                                     *)

Got == amiga_got \in PiPackets \union {<<>>} /\ pi_got \in AmigaPackets \union {<<>>}

RingInv == Types /\ Got /\ A2RInv /\ R2AInv

\* A2R carries the same packets on.
A2RKeeps == \A p, q : A2RPending(p, q) => \E r, s : A2RNext(r, s) /\ r \o s = p \o q

\* R2A carries the same published packets on.
R2AKeeps == \A p, q : R2APending(p, q) => \E s : R2ANext(p, s)

LEMMA InitPending == Init => A2RPending(<<>>, <<>>) /\ R2APending(<<>>, <<>>)
<1>1. Used(0, 0) = 0
  BY RingSizeAssumption, UsedNone DEF Index, HeaderBytes
<1>2. Init => A2RPending(<<>>, <<>>)
  BY <1>1, HoldsNone, EmptySeq DEF Init, A2RPending, Copying
<1>3. Init => R2APending(<<>>, <<>>)
  BY <1>1, HoldsNone, EmptySeq DEF Init, R2APending, R2AReading
<1> QED
  BY <1>2, <1>3

LEMMA InitRingInv == Init => RingInv
<1> SUFFICES ASSUME Init PROVE RingInv
  OBVIOUS
<1>1. Size \in Nat /\ Size > 3 /\ 0 \in Index /\ Used(0, 0) = 0 /\ 0 + 0 + 0 = 0
  BY RingSizeAssumption, UsedNone DEF Index, HeaderBytes
<1>2. Types
  <2>1. task \in [packet : Seq(Nat), index : Index, count : Nat] /\ task.count = 0
        /\ Len(task.packet) = 0
    BY <1>1, EmptySeq DEF Init, NoPacket
  <2>2. /\ channel_status \in [a2r_tail : Index, r2a_head : Index, r2a_tail : Index,
                               a2r_head : Index]
        /\ recv_buf \in Seq(Nat) /\ send_buf \in Seq(Nat) /\ Len(send_buf) = 0
        /\ recv_pos \in 0 .. Size
    BY <1>1, EmptySeq DEF Init
  <2>3. a2r_buffer \in [1 .. Size -> Nat] /\ r2a_buffer \in [1 .. Size -> Nat]
    BY DEF Init
  <2>4. /\ a2r_tail \in Index /\ a2r_head \in Index /\ r2a_tail \in Index
        /\ r2a_head \in Index /\ updated \in BOOLEAN
        /\ task_pc \in {"idle", "append", "read"} /\ d_pc = "idle"
    BY <1>1 DEF Init
  <2>5. task.count <= Len(task.packet) /\ Len(send_buf) < Size
    BY <1>1, <2>1, <2>2
  <2> QED
    BY <2>1, <2>2, <2>3, <2>4, <2>5 DEF Types
<1>3. Got
  BY DEF Init, Got
<1>4. A2RInv
  <2>1. A2RPending(<<>>, <<>>)
    BY InitPending
  <2>2. A2RIndices
    BY <1>1 DEF Init, A2RIndices, Copying
  <2> QED
    BY <2>1, <2>2 DEF Init, A2RInv, A2RAppending, A2RCopied
<1>5. R2AInv
  <2>1. R2APending(<<>>, <<>>)
    BY InitPending
  <2>2. R2AIndices
    BY <1>1 DEF Init, R2AIndices
  <2> QED
    BY <2>1, <2>2 DEF Init, R2AInv, R2AStored, R2ASending
<1> QED
  BY <1>2, <1>3, <1>4, <1>5 DEF RingInv

\* The driver's steps on R2A, and the daemon's, leave A2R alone.
LEMMA A2RKeptByOthers ==
  ASSUME RingInv,
         \/ TaskReceive \/ TaskLoad \/ TaskTake \/ DaemonFlush \/ DaemonSend
         \/ DaemonSendRest \/ DaemonPublishTail
  PROVE  A2RKeeps
<1> SUFFICES ASSUME NEW p, NEW q, A2RPending(p, q) PROVE A2RNext(p, q)
  BY DEF A2RKeeps
<1>1. UNCHANGED <<a2rVars, recvVars>>
  BY DEF TaskReceive, TaskLoad, TaskTake, DaemonFlush, DaemonSend, DaemonSendRest,
         DaemonPublishTail, daemonVars
<1>2. A2RAppending'
  <2>1. task_pc' = "append" => UNCHANGED <<task, task_pc>>
    BY DEF TaskReceive, TaskLoad, TaskTake, DaemonFlush, DaemonSend, DaemonSendRest,
           DaemonPublishTail, taskVars
  <2> QED
    BY <1>1, <2>1 DEF RingInv, A2RInv, A2RAppending, a2rVars, Ring, Used
<1>3. /\ channel_status'.a2r_tail = channel_status.a2r_tail
      /\ channel_status'.a2r_head = channel_status.a2r_head
  BY DEF TaskReceive, TaskLoad, TaskTake, DaemonFlush, DaemonSend, DaemonSendRest,
         DaemonPublishTail, daemonVars, RingInv, Types
<1>4. \/ UNCHANGED <<d_pc, updated>>
      \/ /\ d_pc \in {"flush", "idle", "send", "send rest", "publish tail"}
         /\ d_pc' \in {"idle", "send", "send rest", "publish tail", "publish head"}
         /\ d_pc' = "idle" => (d_pc = "flush" /\ ~updated) \/ d_pc = "idle"
  BY DEF TaskReceive, TaskLoad, TaskTake, DaemonFlush, DaemonSend, DaemonSendRest,
         DaemonPublishTail, daemonVars
<1> QED
  BY <1>1, <1>2, <1>3, <1>4, A2RSame DEF RingInv, A2RInv

LEMMA ConcatNone ==
  ASSUME NEW S, NEW q \in Seq(S)
  PROVE  <<>> \o q = q /\ q \o <<>> = q
BY ConcatEmptySeq

\* The steps on A2R that begin and end no packet's way.
LEMMA A2RKept ==
  ASSUME RingInv,
         \/ TaskAppend \/ TaskStore
         \/ DaemonReadStatus \/ DaemonNothingReceived \/ DaemonCopy \/ DaemonCopyRest
         \/ DaemonParsed \/ DaemonPublishHead
  PROVE  A2RKeeps
<1> SUFFICES ASSUME NEW p, NEW q, A2RPending(p, q)
             PROVE  \E r, s : A2RNext(r, s) /\ r \o s = p \o q
  BY DEF A2RKeeps
<1>1. Types /\ A2RInv /\ A2RIndices /\ A2RCopied
  BY DEF RingInv, A2RInv
<1>2. CASE TaskAppend
  BY <1>1, <1>2, A2RTaskAppend
<1>3. CASE TaskStore
  BY <1>1, <1>3, A2RTaskStore
<1>4. CASE DaemonReadStatus
  <2>1. p = <<>> /\ A2RNext(q, <<>>)
    BY <1>1, <1>4, A2RDaemonReadStatus
  <2>2. q \in Seq(AmigaPackets)
    BY DEF A2RPending
  <2>3. q \o <<>> = p \o q
    BY <2>1, <2>2, ConcatNone
  <2> QED
    BY <2>1, <2>3
<1>5. CASE DaemonNothingReceived \/ DaemonParsed
  BY <1>1, <1>5, A2RDaemonDone
<1>6. CASE DaemonCopy
  BY <1>1, <1>6, A2RDaemonCopy
<1>7. CASE DaemonCopyRest
  BY <1>1, <1>7, A2RDaemonCopyRest
<1>8. CASE DaemonPublishHead
  BY <1>1, <1>8, A2RDaemonPublishHead
<1> QED
  BY <1>2, <1>3, <1>4, <1>5, <1>6, <1>7, <1>8

\* The steps on A2R leave R2A alone.
LEMMA R2AKeptByOthers ==
  ASSUME RingInv,
         \/ TaskAppend \/ TaskStore \/ TaskPublish
         \/ DaemonNothingReceived \/ DaemonCopy \/ DaemonCopyRest \/ DaemonParse
         \/ DaemonParsed \/ DaemonPublishHead
  PROVE  R2AKeeps
<1> SUFFICES ASSUME NEW p, NEW q, R2APending(p, q) PROVE R2ANext(p, q)
  BY DEF R2AKeeps
<1>1. UNCHANGED <<r2aVars, send_buf>>
  BY DEF TaskAppend, TaskStore, TaskPublish, DaemonNothingReceived, DaemonCopy,
         DaemonCopyRest, DaemonParse, DaemonParsed, DaemonPublishHead, daemonVars
<1>2. R2AReading(p)'
  <2>1. task_pc' = "read" => UNCHANGED <<task, task_pc>>
    BY DEF TaskAppend, TaskStore, TaskPublish, DaemonNothingReceived, DaemonCopy,
           DaemonCopyRest, DaemonParse, DaemonParsed, DaemonPublishHead, taskVars
  <2> QED
    BY <1>1, <2>1 DEF R2APending, R2AReading, r2aVars, Ring, Used
<1>3. /\ channel_status'.r2a_tail = channel_status.r2a_tail
      /\ channel_status'.r2a_head = channel_status.r2a_head
  BY DEF TaskAppend, TaskStore, TaskPublish, DaemonNothingReceived, DaemonCopy,
         DaemonCopyRest, DaemonParse, DaemonParsed, DaemonPublishHead, daemonVars,
         RingInv, Types
<1>4. \/ UNCHANGED <<d_pc, send_buf>>
      \/ d_pc # "publish tail" /\ d_pc' \notin {"send", "send rest"}
  BY DEF TaskAppend, TaskStore, TaskPublish, DaemonNothingReceived, DaemonCopy,
         DaemonCopyRest, DaemonParse, DaemonParsed, DaemonPublishHead, daemonVars
<1> QED
  BY <1>1, <1>2, <1>3, <1>4, R2ASame DEF RingInv

\* The steps on R2A that publish nothing and take nothing.
LEMMA R2AKept ==
  ASSUME RingInv,
         \/ TaskReceive \/ TaskLoad \/ DaemonReadStatus \/ DaemonFlush
         \/ DaemonSend \/ DaemonSendRest
  PROVE  R2AKeeps
<1> SUFFICES ASSUME NEW p, NEW q, R2APending(p, q) PROVE \E s : R2ANext(p, s)
  BY DEF R2AKeeps
<1>1. Types /\ R2AInv
  BY DEF RingInv
<1>2. CASE TaskReceive
  BY <1>1, <1>2, R2ATaskReceive
<1>3. CASE TaskLoad
  BY <1>1, <1>3, R2ATaskLoad
<1>4. CASE DaemonReadStatus
  BY <1>1, <1>4, R2ADaemonReadStatus
<1>5. CASE DaemonFlush
  BY <1>1, <1>5, R2ADaemonFlush
<1>6. CASE DaemonSend
  BY <1>1, <1>6, R2ADaemonSend
<1>7. CASE DaemonSendRest
  BY <1>1, <1>7, R2ADaemonSendRest
<1> QED
  BY <1>2, <1>3, <1>4, <1>5, <1>6, <1>7

LEMMA TypesNext ==
  ASSUME RingInv, Next
  PROVE  Types' /\ Got'
<1>1. Types /\ A2RInv /\ R2AInv /\ Got
  BY DEF RingInv
<1>2. PICK p, q : A2RPending(p, q)
  BY <1>1 DEF A2RInv
<1>3. PICK r, s : R2APending(r, s)
  BY <1>1 DEF R2AInv
<1>0. 0 \in Index /\ 0 \in 0 .. Size /\ <<>> \in Seq(Nat) /\ Len(<<>>) = 0
  <2>1. <<>> \in Seq(Nat) /\ Len(<<>>) = 0
    BY EmptySeq
  <2>2. 0 \in 0 .. Size /\ 0 \in Index
    BY RingSizeAssumption DEF Index, HeaderBytes
  <2> QED
    BY <2>1, <2>2
<1>4. CASE TaskAppend
  <2>1. PICK x \in AmigaPackets : task' = [packet |-> x, index |-> a2r_tail, count |-> 0]
    BY <1>4 DEF TaskAppend
  <2>2. x \in Seq(Nat) /\ Len(x) \in Nat /\ a2r_tail \in Index
    BY <1>1, PacketSets, LenProperties DEF Types
  <2>3. task' \in [packet : Seq(Nat), index : Index, count : Nat]
        /\ task'.count <= Len(task'.packet)
    BY <2>1, <2>2
  <2> QED
    BY <1>1, <1>4, <2>3
       DEF TaskAppend, Types, Got, a2rVars, r2aVars, daemonVars, recvVars, gotVars
<1>5. CASE TaskStore
  <2> DEFINE l == Len(task.packet)
             c == task.count
             x == task.packet[c + 1]
  <2>1. /\ l \in Nat /\ c \in Nat /\ c < l /\ task.packet \in Seq(Nat) /\ task.index \in Index
    BY <1>1, <1>5, LenProperties DEF TaskStore, Types
  <2>2. c + 1 \in 1 .. l /\ c + 1 \in Nat /\ c + 1 <= l
    <3> HIDE DEF l, c
    <3> QED
      BY <2>1
  <2>3. x \in Nat /\ Advance(task.index, 1) \in Index
    <3>1. 1 \in 0 .. Size
      BY RingSizeAssumption DEF HeaderBytes
    <3> QED
      BY <2>1, <2>2, <3>1, ElementOfSeq, AdvanceValue
  <2>4. /\ a2r_buffer' \in [1 .. Size -> Nat]
        /\ task' \in [packet : Seq(Nat), index : Index, count : Nat]
        /\ task'.count = c + 1 /\ task'.packet = task.packet
    BY <1>1, <1>5, <2>2, <2>3 DEF TaskStore, Types
  <2> QED
    BY <1>1, <1>5, <2>2, <2>4
       DEF TaskStore, Types, Got, r2aVars, daemonVars, recvVars, gotVars
<1>6. CASE TaskPublish \/ TaskReceive \/ TaskTake
  <2>1. task' \in [packet : Seq(Nat), index : Index, count : Nat]
        /\ task'.count <= Len(task'.packet)
    <3>1. PICK i \in Index : task' = [packet |-> <<>>, index |-> i, count |-> 0]
      BY <1>1, <1>6, <1>0 DEF Types, TaskPublish, TaskReceive, TaskTake, NoPacket
    <3>2. task'.packet = <<>> /\ task'.count = 0
      BY <3>1
    <3> QED
      BY <1>0, <3>1, <3>2
  <2>2. a2r_tail' \in Index /\ r2a_head' \in Index
    BY <1>1, <1>6 DEF TaskPublish, TaskReceive, TaskTake, Types, a2rVars, r2aVars
  <2>3. Got'
    BY <1>1, <1>3, <1>6, R2ATaskTake DEF TaskPublish, TaskReceive, TaskTake, Got, gotVars
  <2> QED
    BY <1>1, <1>6, <2>1, <2>2, <2>3
       DEF TaskPublish, TaskReceive, TaskTake, Types, a2rVars, r2aVars, daemonVars, recvVars
<1>7. CASE TaskLoad
  <2>1. /\ task'.packet \in Seq(Nat) /\ task'.index \in Index /\ task'.count = task.count
        /\ Len(task'.packet) >= Len(task.packet)
    BY <1>1, <1>3, <1>7, R2ATaskLoad
  <2>2. /\ task.count \in Nat /\ task.count <= Len(task.packet) /\ Len(task.packet) \in Nat
        /\ Len(task'.packet) \in Nat
    BY <1>1, <2>1, LenProperties DEF Types
  <2>3. task'.count <= Len(task'.packet)
    BY <2>1, <2>2
  <2>4. task' \in [packet : Seq(Nat), index : Index, count : Nat]
    <3>1. task' = [packet |-> task'.packet, index |-> task'.index, count |-> task'.count]
      BY <1>1, <1>7 DEF TaskLoad, Types
    <3> QED
      BY <2>1, <2>2, <3>1
  <2> QED
    BY <1>1, <1>7, <2>3, <2>4
       DEF TaskLoad, Types, Got, a2rVars, r2aVars, daemonVars, recvVars, gotVars
<1>8. CASE DaemonReadStatus
  BY <1>1, <1>8 DEF DaemonReadStatus, Types, Got, a2rVars, r2aVars, taskVars, recvVars, gotVars
<1>9. CASE DaemonNothingReceived
  BY <1>1, <1>9
     DEF DaemonNothingReceived, Types, Got, a2rVars, r2aVars, taskVars, recvVars, gotVars
<1>10. CASE DaemonCopy
  <2>1. recv_buf' \in Seq(Nat) /\ recv_pos' \in 0 .. Size
    <3>1. recv_buf' \in Seq(Nat)
      BY <1>1, <1>2, <1>10, A2RDaemonCopy
    <3>2. recv_pos' = 0
      BY <1>10 DEF DaemonCopy
    <3> QED
      BY ONLY <1>0, <3>1, <3>2
  <2>2. d_pc' \in {"copy rest", "parse"}
    BY <1>10 DEF DaemonCopy
  <2> QED
    BY <1>1, <1>10, <2>1, <2>2
       DEF DaemonCopy, Types, Got, a2rVars, r2aVars, taskVars, gotVars
<1>11. CASE DaemonCopyRest
  <2>1. recv_buf' \in Seq(Nat)
    BY <1>1, <1>2, <1>11, A2RDaemonCopyRest
  <2> QED
    BY <1>1, <1>11, <2>1
       DEF DaemonCopyRest, Types, Got, a2rVars, r2aVars, taskVars, gotVars
<1>12. CASE DaemonParse
  <2>1. recv_pos' \in 0 .. Size /\ pi_got' \in AmigaPackets
    BY <1>1, <1>2, <1>12, A2RDaemonParse
  <2> QED
    BY <1>1, <1>12, <2>1
       DEF DaemonParse, Types, Got, a2rVars, r2aVars, taskVars, gotVars
<1>13. CASE DaemonParsed
  <2>1. channel_status' \in [a2r_tail : Index, r2a_head : Index, r2a_tail : Index,
                             a2r_head : Index]
    BY <1>1, <1>13 DEF DaemonParsed, Types
  <2>2. recv_buf' \in Seq(Nat) /\ recv_pos' \in 0 .. Size
    BY <1>0, <1>13 DEF DaemonParsed
  <2> QED
    BY <1>1, <1>13, <2>1, <2>2
       DEF DaemonParsed, Types, Got, a2rVars, r2aVars, taskVars, gotVars
<1>14. CASE DaemonFlush
  <2>1. send_buf' \in Seq(Nat) /\ Len(send_buf') < Size
    BY <1>1, <1>3, <1>14, R2ADaemonFlush
  <2>2. d_pc' \in {"send", "publish tail", "idle"}
    BY <1>14 DEF DaemonFlush
  <2> QED
    BY <1>1, <1>14, <2>1, <2>2
       DEF DaemonFlush, Types, Got, a2rVars, r2aVars, taskVars, recvVars, gotVars
<1>15. CASE DaemonSend \/ DaemonSendRest
  <2>1. /\ r2a_buffer' \in [1 .. Size -> Nat]
        /\ channel_status' \in [a2r_tail : Index, r2a_head : Index, r2a_tail : Index,
                                a2r_head : Index]
    BY <1>1, <1>3, <1>15, R2ADaemonSend, R2ADaemonSendRest
  <2>2. /\ send_buf' \in Seq(Nat) /\ Len(send_buf') < Size /\ updated' \in BOOLEAN
        /\ d_pc' \in {"send rest", "publish tail"}
    <3>1. <<>> \in Seq(Nat) /\ Len(<<>>) < Size
      BY RingSizeAssumption, EmptySeq DEF HeaderBytes
    <3> QED
      BY <1>1, <1>15, <3>1 DEF DaemonSend, DaemonSendRest, Types
  <2> QED
    BY <1>1, <1>15, <2>1, <2>2
       DEF DaemonSend, DaemonSendRest, Types, Got, a2rVars, taskVars, recvVars, gotVars
<1>16. CASE DaemonPublishTail \/ DaemonPublishHead
  BY <1>1, <1>16
     DEF DaemonPublishTail, DaemonPublishHead, Types, Got, a2rVars, r2aVars, taskVars,
         recvVars, gotVars
<1> QED
  BY <1>4, <1>5, <1>6, <1>7, <1>8, <1>9, <1>10, <1>11, <1>12, <1>13, <1>14, <1>15, <1>16
     DEF Next, Task, Daemon

LEMMA StutterKeeps ==
  ASSUME RingInv, UNCHANGED <<a2rVars, r2aVars, taskVars, daemonVars>>
  PROVE  A2RKeeps /\ R2AKeeps
<1>1. A2RInv /\ R2AInv
  BY DEF RingInv
<1>2. A2RKeeps
  <2> SUFFICES ASSUME NEW p, NEW q, A2RPending(p, q) PROVE A2RNext(p, q)
    BY DEF A2RKeeps
  <2>1. A2RAppending'
    BY <1>1 DEF A2RInv, A2RAppending, a2rVars, taskVars, Ring, Used
  <2> QED
    BY <1>1, <2>1, A2RSame DEF A2RInv, daemonVars
<1>3. R2AKeeps
  <2> SUFFICES ASSUME NEW p, NEW q, R2APending(p, q) PROVE R2ANext(p, q)
    BY DEF R2AKeeps
  <2>1. R2AReading(p)'
    BY DEF R2APending, R2AReading, r2aVars, taskVars, Ring, Used
  <2> QED
    BY <1>1, <2>1, R2ASame DEF daemonVars
<1> QED
  BY <1>2, <1>3

LEMMA RingInvNext ==
  ASSUME RingInv, [Next]_vars
  PROVE  RingInv'
<1>1. A2RInv /\ R2AInv /\ Types
  BY DEF RingInv
<1>2. CASE Next
  <2>1. Types' /\ Got'
    BY <1>2, TypesNext
  <2>2. A2RInv'
    <3>1. PICK p, q : A2RPending(p, q)
      BY <1>1 DEF A2RInv
    <3>2. \E r, s : A2RNext(r, s)
      <4>1. CASE TaskPublish
        BY <1>1, <3>1, <4>1, A2RTaskPublish
      <4>2. CASE DaemonParse
        BY <1>1, <3>1, <4>2, A2RDaemonParse
      <4>3. CASE ~TaskPublish /\ ~DaemonParse
        <5>1. A2RKeeps
          BY <1>2, <4>3, A2RKept, A2RKeptByOthers DEF Next, Task, Daemon
        <5> QED
          BY <3>1, <5>1 DEF A2RKeeps
      <4> QED
        BY <4>1, <4>2, <4>3
    <3> QED
      BY <3>2 DEF A2RNext, A2RInv
  <2>3. R2AInv'
    <3>1. PICK p, q : R2APending(p, q)
      BY <1>1 DEF R2AInv
    <3>2. \E r, s : R2ANext(r, s)
      <4>1. CASE TaskTake
        BY <1>1, <3>1, <4>1, R2ATaskTake
      <4>2. CASE DaemonPublishTail
        BY <1>1, <3>1, <4>2, R2ADaemonPublishTail
      <4>3. CASE ~TaskTake /\ ~DaemonPublishTail
        <5>1. R2AKeeps
          BY <1>2, <4>3, R2AKept, R2AKeptByOthers DEF Next, Task, Daemon
        <5> QED
          BY <3>1, <5>1 DEF R2AKeeps
      <4> QED
        BY <4>1, <4>2, <4>3
    <3> QED
      BY <3>2 DEF R2ANext, R2AInv
  <2> QED
    BY <2>1, <2>2, <2>3 DEF RingInv
<1>3. CASE UNCHANGED vars
  <2>1. UNCHANGED <<a2rVars, r2aVars, taskVars, daemonVars, gotVars>>
    BY <1>3 DEF vars
  <2>2. Types' /\ Got'
    BY <1>1, <2>1 DEF RingInv, Types, Got, a2rVars, r2aVars, taskVars, daemonVars, gotVars,
       recvVars
  <2>3. A2RKeeps /\ R2AKeeps
    BY <2>1, StutterKeeps
  <2>4. A2RInv'
    BY <1>1, <2>3 DEF A2RInv, A2RKeeps, A2RNext
  <2>5. R2AInv'
    BY <1>1, <2>3 DEF R2AInv, R2AKeeps, R2ANext
  <2> QED
    BY <2>2, <2>4, <2>5 DEF RingInv
<1> QED
  BY <1>2, <1>3

LEMMA RingInvAlways == Spec => []RingInv
<1>1. Init => RingInv
  BY InitRingInv
<1>2. RingInv /\ [Next]_vars => RingInv'
  BY RingInvNext
<1> QED
  BY <1>1, <1>2, PTL DEF Spec

-----------------------------------------------------------------------------
(* What holds of it.                                                       *)

\* Indices stay inside their rings, buffers and send_buf inside their sizes, and
\* what handle_r2a_packet and handle_received_pkt get is a packet that was sent.
THEOREM TypesAlwaysOK == Spec => []TypeOK
<1>1. RingInv => TypeOK
  <2> SUFFICES ASSUME RingInv PROVE TypeOK
    OBVIOUS
  <2>1. Types /\ Got
    BY DEF RingInv
  <2>2. channel_status \in [{"a2r_tail", "r2a_head", "r2a_tail", "a2r_head"} -> Index]
    <3>1. /\ channel_status = [a2r_tail |-> channel_status.a2r_tail,
                               r2a_head |-> channel_status.r2a_head,
                               r2a_tail |-> channel_status.r2a_tail,
                               a2r_head |-> channel_status.a2r_head]
          /\ channel_status.a2r_tail \in Index /\ channel_status.r2a_head \in Index
          /\ channel_status.r2a_tail \in Index /\ channel_status.a2r_head \in Index
      BY <2>1 DEF Types
    <3> QED
      BY <3>1
  <2>3. task.packet \in Seq(Nat) /\ task.count \in 0 .. Len(task.packet)
        /\ task.index \in Index
    <3>1. /\ task.packet \in Seq(Nat) /\ task.index \in Index /\ task.count \in Nat
          /\ task.count <= Len(task.packet)
      BY <2>1 DEF Types
    <3>2. Len(task.packet) \in Nat
      BY <3>1, LenProperties
    <3> DEFINE l == Len(task.packet)
               c == task.count
    <3>3. c \in 0 .. l
      <4> HIDE DEF l, c
      <4>1. l \in Nat /\ c \in Nat /\ c <= l
        BY <3>1, <3>2 DEF l, c
      <4> QED
        BY ONLY <4>1
    <3> QED
      BY <3>1, <3>3
  <2> QED
    BY <2>1, <2>2, <2>3 DEF Types, Got, TypeOK
<1> QED
  BY <1>1, RingInvAlways, PTL

\* No byte between a head and its tail changes before its reader has given it
\* back: the driver stores behind A2R's tail only, and the daemon in the room that
\* its old copy of the driver's head leaves in R2A.
THEOREM PublishedNeverTouched == Spec => PublishedUntouched
<1> DEFINE A == /\ \A i \in Cells(a2r_head, a2r_tail) : a2r_buffer'[i] = a2r_buffer[i]
                /\ \A i \in Cells(r2a_head, r2a_tail) : r2a_buffer'[i] = r2a_buffer[i]
<1>1. ASSUME RingInv, [Next]_vars
      PROVE  [A]_vars
  <2> SUFFICES ASSUME Next PROVE A
    BY <1>1
  <2>1. Types /\ A2RInv /\ R2AInv
    BY <1>1 DEF RingInv
  <2>2. ASSUME NEW i \in Index, NEW j \in Index, NEW c \in Cells(i, j)
        PROVE  /\ c \in 1 .. Size
               /\ \E k \in 1 .. Used(j, i) : k \in 1 .. Size /\ c = Advance(i, k - 1) + 1
    <3> DEFINE u == Used(j, i)
    <3>1. PICK m \in 0 .. u - 1 : c = Advance(i, m) + 1
      BY <2>2 DEF Cells
    <3>2. u \in 0 .. Size - 1 /\ Size \in Nat
      BY UsedValue, RingSizeAssumption
    <3> HIDE DEF u
    <3>3. m + 1 \in 1 .. u /\ m + 1 \in 1 .. Size /\ (m + 1) - 1 = m
      BY <3>1, <3>2
    <3>4. \E k \in 1 .. u : k \in 1 .. Size /\ c = Advance(i, k - 1) + 1
      BY <3>1, <3>3
    <3>5. c \in 1 .. Size
      <4>1. m \in 0 .. Size
        BY <3>1, <3>2
      <4> DEFINE a == Advance(i, m)
      <4>2. a \in 0 .. Size - 1
        BY <4>1, AdvanceValue DEF Index
      <4> HIDE DEF a
      <4>3. a + 1 \in 1 .. Size
        BY <3>2, <4>2
      <4> QED
        BY <3>1, <4>3 DEF a
    <3> QED
      BY <3>4, <3>5 DEF u
  <2>3. ASSUME NEW i \in Cells(a2r_head, a2r_tail)
        PROVE  a2r_buffer'[i] = a2r_buffer[i]
    <3>1. CASE TaskStore
      <4> DEFINE u == Used(a2r_tail, a2r_head)
                 c == task.count
                 l == Len(task.packet)
      <4>1. /\ a2r_tail \in Index /\ a2r_head \in Index /\ c \in Nat /\ c < l /\ l \in Nat
            /\ u + l < Size /\ u \in Nat /\ Size \in Nat /\ task.index = Advance(a2r_tail, c)
        BY <2>1, <3>1, LenProperties, UsedIsNat, RingSizeAssumption
           DEF TaskStore, Types, A2RInv, A2RAppending
      <4>2. u + c < Size
        <5> HIDE DEF u, c, l
        <5> QED
          BY <4>1
      <4>3. PICK k \in 1 .. u : i = Advance(a2r_head, k - 1) + 1
        BY <2>2, <2>3, <4>1
      <4>4. i \in 1 .. Size /\ a2r_buffer \in [1 .. Size -> Nat]
        BY <2>1, <2>2, <2>3, <4>1 DEF Types
      <4>5. i # Advance(a2r_tail, c) + 1
        BY <4>1, <4>2, <4>3, CellsApart
      <4> QED
        BY <3>1, <4>1, <4>4, <4>5 DEF TaskStore
    <3>2. CASE ~TaskStore
      <4>1. a2r_buffer' = a2r_buffer
        BY <3>2 DEF Next, Task, Daemon, TaskAppend, TaskPublish, TaskReceive, TaskLoad,
           TaskTake, DaemonReadStatus, DaemonNothingReceived, DaemonCopy, DaemonCopyRest,
           DaemonParse, DaemonParsed, DaemonFlush, DaemonSend, DaemonSendRest,
           DaemonPublishTail, DaemonPublishHead, a2rVars
      <4> QED
        BY <4>1
    <3> QED
      BY <3>1, <3>2
  <2>4. ASSUME NEW i \in Cells(r2a_head, r2a_tail)
        PROVE  r2a_buffer'[i] = r2a_buffer[i]
    <3>1. CASE DaemonSend \/ DaemonSendRest
      <4>1. PICK p, q : R2APending(p, q)
        BY <2>1 DEF R2AInv
      <4>2. \A k \in 1 .. Used(r2a_tail, r2a_head) :
              Ring(r2a_buffer', r2a_head)[k] = Ring(r2a_buffer, r2a_head)[k]
        BY <2>1, <3>1, <4>1, R2ADaemonSend, R2ADaemonSendRest
      <4>3. PICK k \in 1 .. Used(r2a_tail, r2a_head) :
              k \in 1 .. Size /\ i = Advance(r2a_head, k - 1) + 1
        <5>1. r2a_head \in Index /\ r2a_tail \in Index
          BY <2>1 DEF Types
        <5> QED
          BY <2>2, <2>4, <5>1
      <4>4. Ring(r2a_buffer', r2a_head)[k] = r2a_buffer'[i]
            /\ Ring(r2a_buffer, r2a_head)[k] = r2a_buffer[i]
        BY <4>3 DEF Ring
      <4> QED
        BY <4>2, <4>4
    <3>2. CASE ~DaemonSend /\ ~DaemonSendRest
      <4>1. r2a_buffer' = r2a_buffer
        BY <3>2 DEF Next, Task, Daemon, TaskAppend, TaskStore, TaskPublish, TaskReceive,
           TaskLoad, TaskTake, DaemonReadStatus, DaemonNothingReceived, DaemonCopy,
           DaemonCopyRest, DaemonParse, DaemonParsed, DaemonFlush, DaemonPublishTail,
           DaemonPublishHead, r2aVars
      <4> QED
        BY <4>1
    <3> QED
      BY <3>1, <3>2
  <2> QED
    BY <2>3, <2>4
<1>2. RingInv /\ [Next]_vars => [A]_vars
  BY <1>1
<1> QED
  BY <1>2, RingInvAlways, PTL DEF Spec, PublishedUntouched

-----------------------------------------------------------------------------
(* The rings are two links of packets.                                     *)

LEMMA DecodeBytes ==
  ASSUME NEW P, Packets(P), NEW q \in Seq(P), NEW buffer \in [1 .. Size -> Nat],
         NEW i \in Index, NEW j \in Index, Holds(Ring(buffer, i), Used(j, i), q)
  PROVE  Decode(Bytes(buffer, i, j)) = q
<1> DEFINE s == Bytes(buffer, i, j)
           f == Ring(buffer, i)
           n == Used(j, i)
<1>1. s \in Seq(Nat) /\ Len(s) = n /\ n \in Nat /\ \A k \in 1 .. n : s[k] = f[k]
  BY BytesOfRing, UsedIsNat
<1>2. Holds(f, n, q)
  OBVIOUS
<1> HIDE DEF s, f, n
<1>3. Holds(s, n, q)
  BY <1>1, <1>2, HoldsSame
<1>4. Decode(s) = q
  BY <1>1, <1>3, HoldsDecode
<1> QED
  BY <1>4 DEF s

\* What A2RPending and R2APending mean for the two links.
A2RMeans == \A p, q : A2RPending(p, q) => InA2R = p \o q

R2AMeans == \A p, q : R2APending(p, q) => InR2A = p

LEMMA R2ALink == RingInv => R2AMeans
<1> SUFFICES ASSUME RingInv, NEW p, NEW q, R2APending(p, q) PROVE InR2A = p
  BY DEF R2AMeans
<1>1. /\ r2a_buffer \in [1 .. Size -> Nat] /\ r2a_head \in Index /\ r2a_tail \in Index
      /\ p \in Seq(PiPackets) /\ Packets(PiPackets)
      /\ Holds(Ring(r2a_buffer, r2a_head), Used(r2a_tail, r2a_head), p)
  BY PacketSets DEF RingInv, Types, R2APending
<1>2. Decode(Bytes(r2a_buffer, r2a_head, r2a_tail)) = p
  BY ONLY <1>1, DecodeBytes
<1> QED
  BY <1>2 DEF InR2A

LEMMA A2RLink == RingInv => A2RMeans
<1> SUFFICES ASSUME RingInv, NEW p, NEW q, A2RPending(p, q) PROVE InA2R = p \o q
  BY DEF A2RMeans
<1> DEFINE H == channel_status.a2r_head
           T == channel_status.a2r_tail
           n == RecvLen
           v == Used(a2r_tail, T)
           f == Ring(a2r_buffer, H)
           g == Ring(a2r_buffer, T)
           y == Bytes(a2r_buffer, T, a2r_tail)
<1>1. /\ Types /\ A2RIndices /\ A2RCopied /\ H \in Index /\ T \in Index /\ a2r_tail \in Index
      /\ a2r_buffer \in [1 .. Size -> Nat]
  BY DEF RingInv, A2RInv, Types
<1>2. /\ p \in Seq(AmigaPackets) /\ q \in Seq(AmigaPackets) /\ Packets(AmigaPackets)
      /\ Holds(g, v, q)
  BY PacketSets DEF A2RPending
<1>3. /\ n \in 0 .. Size - 1 /\ v \in Nat /\ Size \in Nat /\ T = Advance(H, n)
      /\ y \in Seq(Nat) /\ Len(y) = v /\ \A k \in 1 .. v : y[k] = g[k]
  BY <1>1, IndexTypes, UsedIsNat, AdvanceUsed, BytesOfRing DEF RecvLen
<1>4. CASE d_pc = "parse"
  <2> DEFINE m == n - recv_pos
             u == Unparsed
             x == SubSeq(recv_buf, recv_pos + 1, Len(recv_buf))
             s == x \o y
  <2>1. /\ recv_pos \in 0 .. n /\ Len(recv_buf) = n /\ recv_buf \in Seq(Nat)
        /\ Holds(u, m, p)
    BY <1>1, <1>4 DEF A2RCopied, A2RPending, Types
  <2>2. \A k \in 1 .. m : u[k] = recv_buf[recv_pos + k]
    BY DEF Unparsed
  <2> HIDE DEF u, n, v
  <2>3. m \in Nat /\ m = IF recv_pos + 1 <= n THEN n - (recv_pos + 1) + 1 ELSE 0
    BY <1>3, <2>1
  <2>4. /\ x \in Seq(Nat) /\ Len(x) = m
        /\ \A k \in 1 .. m : x[k] = recv_buf[recv_pos + k]
    <3>1. recv_pos + 1 \in Int /\ n \in Int /\ n - (recv_pos + 1) + 1 = m
      BY <1>3, <2>1
    <3>2. \A k \in recv_pos + 1 .. n : recv_buf[k] \in Nat
      <4>1. \A k \in recv_pos + 1 .. n : k \in 1 .. Len(recv_buf)
        BY <1>3, <2>1
      <4> QED
        BY <2>1, <4>1, ElementOfSeq
    <3>3. /\ SubSeq(recv_buf, recv_pos + 1, n) \in Seq(Nat)
          /\ Len(SubSeq(recv_buf, recv_pos + 1, n))
               = IF recv_pos + 1 <= n THEN n - (recv_pos + 1) + 1 ELSE 0
          /\ \A k \in 1 .. n - (recv_pos + 1) + 1 :
               SubSeq(recv_buf, recv_pos + 1, n)[k] = recv_buf[(recv_pos + 1) + k - 1]
      BY <3>1, <3>2, SubSeqProperties
    <3>4. \A k \in 1 .. m : (recv_pos + 1) + k - 1 = recv_pos + k
      BY <2>1, <2>3
    <3> QED
      BY <2>1, <2>3, <3>1, <3>3, <3>4
  <2> HIDE DEF m, x, y
  <2>5. /\ s \in Seq(Nat) /\ Len(s) = m + v
        /\ \A k \in 1 .. m : s[k] = u[k]
        /\ \A k \in 1 .. v : s[m + k] = g[k]
    <3>1. /\ s \in Seq(Nat) /\ Len(s) = Len(x) + Len(y)
          /\ \A k \in 1 .. Len(x) + Len(y) :
               s[k] = IF k <= Len(x) THEN x[k] ELSE y[k - Len(x)]
      BY <1>3, <2>4, ConcatProperties
    <3>2. /\ \A k \in 1 .. m : k \in 1 .. m + v /\ k <= m
          /\ \A k \in 1 .. v : m + k \in 1 .. m + v /\ ~(m + k <= m) /\ (m + k) - m = k
      BY <1>3, <2>3
    <3> HIDE DEF s, g
    <3>3. /\ s \in Seq(Nat) /\ Len(s) = m + v
          /\ \A k \in 1 .. m + v : s[k] = IF k <= m THEN x[k] ELSE y[k - m]
      BY <1>3, <2>4, <3>1
    <3>4. \A k \in 1 .. m : x[k] = u[k]
      BY <2>2, <2>4
    <3>5. \A k \in 1 .. m : s[k] = u[k]
      BY ONLY <3>2, <3>3, <3>4
    <3>6. \A k \in 1 .. v : s[m + k] = g[k]
      <4> SUFFICES ASSUME NEW k \in 1 .. v PROVE s[m + k] = g[k]
        OBVIOUS
      <4>1. s[m + k] = y[k]
        BY <3>2, <3>3
      <4>2. y[k] = g[k]
        BY <1>3
      <4> QED
        BY <4>1, <4>2
    <3> QED
      BY <3>3, <3>5, <3>6
  <2> HIDE DEF s, g
  <2>6. p \o q \in Seq(AmigaPackets) /\ Holds(s, m + v, p \o q)
    BY ONLY <1>2, <1>3, <2>1, <2>3, <2>5, HoldsJoin
  <2>7. Decode(s) = p \o q
    BY ONLY <1>2, <2>5, <2>6, HoldsDecode
  <2> QED
    BY <1>4, <2>7 DEF InA2R, s, x, y
<1>5. CASE d_pc \in {"receive", "copy rest"}
  <2> DEFINE s == Bytes(a2r_buffer, H, a2r_tail)
             w == Used(a2r_tail, H)
  <2>1. Holds(f, n, p) /\ n + v = w
    BY <1>1, <1>5, A2RDistances DEF A2RPending, Copying
  <2>2. /\ s \in Seq(Nat) /\ Len(s) = w /\ \A k \in 1 .. w : s[k] = f[k]
        /\ w \in 0 .. Size - 1
    BY <1>1, BytesOfRing, UsedValue
  <2>3. \A k \in 1 .. Size - n : f[n + k] = g[k]
    <3>1. n \in 0 .. Size
      <4> HIDE DEF n
      <4> QED
        BY <1>3
    <3> QED
      BY <1>1, <1>3, <3>1, RingShift
  <2> HIDE DEF n, v, w, s, f, g
  <2>4. n \in Nat /\ (\A k \in 1 .. n : s[k] = f[k]) /\ \A k \in 1 .. v : s[n + k] = g[k]
    <3>1. /\ n \in Nat /\ \A k \in 1 .. n : k \in 1 .. w
          /\ \A k \in 1 .. v : n + k \in 1 .. w /\ k \in 1 .. Size - n
      BY <1>3, <2>1, <2>2
    <3> QED
      BY <2>2, <2>3, <3>1
  <2>5. p \o q \in Seq(AmigaPackets) /\ Holds(s, n + v, p \o q)
    BY ONLY ZenonT(60), <1>2, <1>3, <2>1, <2>4, HoldsJoin
  <2>6. Decode(s) = p \o q
    BY ONLY <1>2, <2>1, <2>2, <2>5, HoldsDecode
  <2> QED
    BY <1>5, <2>6 DEF InA2R, s
<1>6. CASE ~Copying
  <2>1. p = <<>> /\ H = T /\ d_pc # "parse"
    BY <1>1, <1>6 DEF A2RPending, A2RIndices, Copying
  <2>2. Decode(y) = q
    BY ONLY <1>1, <1>2, DecodeBytes
  <2>3. p \o q = q
    BY <1>2, <2>1, ConcatNone
  <2> QED
    BY <2>1, <2>2, <2>3 DEF InA2R
<1> QED
  BY <1>4, <1>5, <1>6 DEF Copying

LEMMA A2RLinkKept ==
  ASSUME RingInv, RingInv', A2RKeeps
  PROVE  InA2R' = InA2R
<1>1. A2RMeans /\ A2RMeans'
  <2>1. RingInv' => A2RMeans'
    BY A2RLink, PTL
  <2> QED
    BY <2>1, A2RLink
<1>2. PICK p, q : A2RPending(p, q)
  BY DEF RingInv, A2RInv
<1>3. PICK r, s : A2RNext(r, s) /\ r \o s = p \o q
  BY <1>2 DEF A2RKeeps
<1>4. InA2R = p \o q
  BY <1>1, <1>2 DEF A2RMeans
<1>5. InA2R' = r \o s
  BY <1>1, <1>3 DEF A2RMeans, A2RNext
<1> QED
  BY <1>3, <1>4, <1>5

LEMMA R2ALinkKept ==
  ASSUME RingInv, RingInv', R2AKeeps
  PROVE  InR2A' = InR2A
<1>1. R2AMeans /\ R2AMeans'
  <2>1. RingInv' => R2AMeans'
    BY R2ALink, PTL
  <2> QED
    BY <2>1, R2ALink
<1>2. PICK p, q : R2APending(p, q)
  BY DEF RingInv, R2AInv
<1>3. PICK s : R2ANext(p, s)
  BY <1>2 DEF R2AKeeps
<1> QED
  BY <1>1, <1>2, <1>3 DEF R2AMeans, R2ANext

LEMMA HeadOfConcat ==
  ASSUME NEW S, NEW p \in Seq(S), NEW q \in Seq(S), p # <<>>
  PROVE  p \o q # <<>> /\ Head(p \o q) = Head(p) /\ Tail(p \o q) = Tail(p) \o q
<1>1. Len(p) \in Nat /\ Len(p) # 0 /\ Len(q) \in Nat
  BY EmptySeq, LenProperties
<1> QED
  BY <1>1

\* Every step is a step of the links, or none of theirs.
LEMMA LinkStep ==
  ASSUME RingInv, RingInv', [Next]_vars
  PROVE  [Link!Next]_(Link!vars)
<1>1. Types /\ A2RInv /\ R2AInv /\ A2RMeans /\ R2AMeans
  BY A2RLink, R2ALink DEF RingInv
<1>2. A2RMeans' /\ R2AMeans'
  <2>1. (RingInv' => A2RMeans') /\ (RingInv' => R2AMeans')
    BY A2RLink, R2ALink, PTL
  <2> QED
    BY <2>1
<1>3. PICK p, q : A2RPending(p, q)
  BY <1>1 DEF A2RInv
<1>4. PICK r, s : R2APending(r, s)
  BY <1>1 DEF R2AInv
<1>5. /\ InA2R = p \o q /\ p \in Seq(AmigaPackets) /\ q \in Seq(AmigaPackets)
      /\ InR2A = r /\ r \in Seq(PiPackets) /\ s \in Seq(PiPackets)
  BY <1>1, <1>3, <1>4 DEF A2RMeans, R2AMeans, A2RPending, R2APending
<1>6. CASE TaskPublish
  <2>1. PICK x : x = task.packet
    OBVIOUS
  <2>2. x \in AmigaPackets /\ A2RNext(p, Append(q, x))
    BY <1>1, <1>3, <1>6, <2>1, A2RTaskPublish
  <2>3. InA2R' = p \o Append(q, x)
    BY <1>2, <2>2 DEF A2RMeans, A2RNext
  <2>4. InA2R' = Append(InA2R, x)
    <3>1. p \o Append(q, x) = Append(p \o q, x)
      BY <1>5, <2>2, AppendProperties, ConcatProperties
    <3> QED
      BY <1>5, <2>3, <3>1
  <2>5. InR2A' = InR2A
    BY <1>6, R2AKeptByOthers, R2ALinkKept
  <2>6. UNCHANGED <<pi_got, amiga_got>>
    BY <1>6 DEF TaskPublish, gotVars
  <2>7. Link!AmigaSends
    BY <2>2, <2>4, <2>5, <2>6 DEF Link!AmigaSends
  <2> QED
    BY <2>7 DEF Link!Next
<1>7. CASE DaemonParse
  <2>1. p # <<>> /\ pi_got' = Head(p) /\ A2RNext(Tail(p), q)
    BY <1>1, <1>3, <1>7, A2RDaemonParse
  <2>2. InA2R' = Tail(p) \o q
    BY <1>2, <2>1 DEF A2RMeans, A2RNext
  <2>3. InA2R # <<>> /\ pi_got' = Head(InA2R) /\ InA2R' = Tail(InA2R)
    BY <1>5, <2>1, <2>2, HeadOfConcat
  <2>4. InR2A' = InR2A
    BY <1>7, R2AKeptByOthers, R2ALinkKept
  <2>5. amiga_got' = amiga_got
    BY <1>7 DEF DaemonParse
  <2>6. Link!PiReceives
    BY <2>3, <2>4, <2>5 DEF Link!PiReceives
  <2> QED
    BY <2>6 DEF Link!Next
<1>8. CASE TaskTake
  <2>1. r # <<>> /\ amiga_got' = Head(r) /\ R2ANext(Tail(r), s)
    BY <1>1, <1>4, <1>8, R2ATaskTake
  <2>2. InR2A' = Tail(r)
    BY <1>2, <2>1 DEF R2AMeans, R2ANext
  <2>3. InA2R' = InA2R
    BY <1>8, A2RKeptByOthers, A2RLinkKept
  <2>4. pi_got' = pi_got
    BY <1>8 DEF TaskTake
  <2>5. Link!AmigaReceives
    BY <1>5, <2>1, <2>2, <2>3, <2>4 DEF Link!AmigaReceives
  <2> QED
    BY <2>5 DEF Link!Next
<1>9. CASE DaemonPublishTail
  <2>1. R2ANext(r \o s, <<>>)
    BY <1>1, <1>4, <1>9, R2ADaemonPublishTail
  <2>2. InR2A' = r \o s
    BY <1>2, <2>1 DEF R2AMeans, R2ANext
  <2>3. InA2R' = InA2R
    BY <1>9, A2RKeptByOthers, A2RLinkKept
  <2>4. UNCHANGED <<pi_got, amiga_got>>
    BY <1>9 DEF DaemonPublishTail, gotVars
  <2>5. CASE s = <<>>
    <3>1. InR2A' = InR2A
      BY <1>5, <2>2, <2>5, ConcatNone
    <3> QED
      BY <2>3, <2>4, <3>1 DEF Link!vars
  <2>6. CASE s # <<>>
    <3> DEFINE x == Len(r)
               y == Len(s)
               z == r \o s
    <3>1. /\ x \in Nat /\ y \in Nat /\ y # 0 /\ z \in Seq(PiPackets) /\ Len(z) = x + y
          /\ \A i \in 1 .. x : z[i] = r[i]
      BY <1>5, <2>6, EmptySeq, LenProperties, ConcatProperties
    <3>2. \A i \in 1 .. Len(z) : z[i] \in PiPackets
      BY <3>1, ElementOfSeq
    <3>3. SubSeq(r, 1, x) = r
      BY <1>5, SubSeqFull
    <3> HIDE DEF x, y, z
    <3>4. SubSeq(z, 1, x) = r
      <4>1. x <= x + y /\ x \in 0 .. Len(z)
        BY <3>1
      <4>2. /\ SubSeq(z, 1, x) \in Seq(PiPackets) /\ Len(SubSeq(z, 1, x)) = x
            /\ \A i \in 1 .. x : SubSeq(z, 1, x)[i] = z[i]
        <5>1. \A i \in 1 .. x : z[i] \in PiPackets
          BY <3>1, <3>2
        <5>2. 1 \in Int /\ x \in Int /\ x - 1 + 1 = x /\ (1 <= x \/ x = 0)
              /\ \A i \in 1 .. x : 1 + i - 1 = i
          BY <3>1
        <5>3. /\ SubSeq(z, 1, x) \in Seq(PiPackets)
              /\ Len(SubSeq(z, 1, x)) = IF 1 <= x THEN x - 1 + 1 ELSE 0
              /\ \A i \in 1 .. x - 1 + 1 : SubSeq(z, 1, x)[i] = z[1 + i - 1]
          BY <5>1, <5>2, SubSeqProperties
        <5> QED
          BY <3>1, <5>2, <5>3
      <4> QED
        BY <1>5, <3>1, <4>2, SeqEqual DEF x
    <3>5. Link!IsStrictPrefix(r, z)
      <4>1. x <= Len(z) /\ Len(z) # x
        BY <3>1
      <4>2. r # z
        BY <4>1 DEF x
      <4>3. SubSeq(r, 1, Len(r)) = SubSeq(z, 1, Len(r)) /\ Len(r) <= Len(z)
        BY <3>3, <3>4, <4>1 DEF x
      <4> QED
        BY <4>2, <4>3 DEF Link!IsStrictPrefix, Link!IsPrefix
    <3>6. \A i \in x + 1 .. Len(z) : z[i] \in PiPackets
      <4>1. \A i \in x + 1 .. Len(z) : i \in 1 .. Len(z)
        BY <3>1
      <4> QED
        BY <3>2, <4>1
    <3>7. Link!PiSends
      <4>1. InR2A = r /\ InR2A' = z
        BY <1>5, <2>2 DEF z
      <4>2. Link!IsStrictPrefix(r, z) /\ \A i \in Len(r) + 1 .. Len(z) : z[i] \in PiPackets
        BY <3>5, <3>6 DEF x
      <4> QED
        BY ONLY <2>3, <2>4, <4>1, <4>2 DEF Link!PiSends
    <3> QED
      BY <3>7 DEF Link!Next
  <2> QED
    BY <2>5, <2>6
<1>10. CASE ~TaskPublish /\ ~DaemonParse /\ ~TaskTake /\ ~DaemonPublishTail
  <2>1. A2RKeeps /\ R2AKeeps
    <3>1. CASE Next
      BY <1>10, <3>1, A2RKept, A2RKeptByOthers, R2AKept, R2AKeptByOthers
         DEF Next, Task, Daemon
    <3>2. CASE UNCHANGED vars
      BY <3>2, StutterKeeps DEF vars
    <3> QED
      BY <3>1, <3>2
  <2>2. InA2R' = InA2R /\ InR2A' = InR2A
    BY <2>1, A2RLinkKept, R2ALinkKept
  <2>3. UNCHANGED <<pi_got, amiga_got>>
    BY <1>10 DEF vars, gotVars, Next, Task, Daemon, TaskAppend, TaskStore, TaskReceive,
       TaskLoad, DaemonReadStatus, DaemonNothingReceived, DaemonCopy, DaemonCopyRest,
       DaemonParsed, DaemonFlush, DaemonSend, DaemonSendRest, DaemonPublishHead
  <2> QED
    BY <2>2, <2>3 DEF Link!vars
<1> QED
  BY <1>6, <1>7, <1>8, <1>9, <1>10

\* Whatever the size of the rings and the packets: every packet that the driver's
\* task publishes reaches handle_received_pkt whole, once and in order, and every
\* packet that flush_send_queue publishes reaches handle_r2a_packet, wherever a
\* ring wraps and however the accesses of the two sides interleave.
THEOREM PacketsAlwaysCross == Spec => PacketsCross
<1>1. Init => Link!Init
  <2> SUFFICES ASSUME Init PROVE Link!Init
    OBVIOUS
  <2>1. InA2R = <<>> \o <<>> /\ InR2A = <<>>
    BY InitPending, InitRingInv, A2RLink, R2ALink DEF A2RMeans, R2AMeans
  <2>2. <<>> \o <<>> = <<>>
    BY EmptySeq, ConcatNone
  <2> QED
    BY <2>1, <2>2 DEF Link!Init, Init
<1>2. RingInv /\ RingInv' /\ [Next]_vars => [Link!Next]_(Link!vars)
  BY LinkStep
<1> QED
  BY <1>1, <1>2, RingInvAlways, PTL DEF Spec, PacketsCross, Link!Spec

=============================================================================
