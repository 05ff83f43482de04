----------------------------- MODULE FoldLemmas -----------------------------
(***************************************************************************)
(* Lemmas about the operators on numbers and sequences that the models are *)
(* built from: induction over a set of numbers, least and greatest         *)
(* elements, folds of a sequence, and the removal of an element.           *)
(*                                                                         *)
(* A fold is defined by recursion over the subsets of the sequence's       *)
(* domain.  FoldExists says that the recursion has a solution when each    *)
(* step keeps a set T of values; the steps are a function, so that the     *)
(* lemma can be used for every operator.                                   *)
(***************************************************************************)
EXTENDS Integers, Sequences, SequencesExt, SequenceTheorems,
        WellFoundedInduction, TLAPS

LEMMA SetInduction ==
  ASSUME NEW S, 0 \in S, \A n \in Nat : n \in S => n + 1 \in S
  PROVE  \A n \in Nat : n \in S
<1> DEFINE T == Nat \ S
<1>1. ASSUME T # {} PROVE FALSE
  <2>1. PICK x \in T : \A y \in T : <<y, x>> \notin OpToRel(<, Nat)
    BY <1>1, WFMin, NatLessThanWellFounded
  <2>2. x \in Nat /\ x \notin S
    BY <2>1
  <2>3. x # 0
    BY <2>2
  <2>4. x - 1 \in Nat /\ (x - 1) + 1 = x
    BY <2>2, <2>3
  <2>5. <<x - 1, x>> \in OpToRel(<, Nat)
    BY <2>2, <2>4 DEF OpToRel
  <2>6. x - 1 \in S
    BY <2>1, <2>4, <2>5
  <2> QED
    BY <2>2, <2>4, <2>6
<1> QED
  BY <1>1

\* The least of a set of numbers.
LEMMA MinOfSet ==
  ASSUME NEW S, S \subseteq Nat, S # {}
  PROVE  Min(S) \in S /\ \A y \in S : Min(S) <= y
<1>1. PICK x \in S : \A y \in S : <<y, x>> \notin OpToRel(<, Nat)
  BY WFMin, NatLessThanWellFounded
<1>2. ASSUME NEW y \in S PROVE x <= y
  <2>1. ~(y < x)
    BY <1>1 DEF OpToRel
  <2>2. x \in Nat /\ y \in Nat
    OBVIOUS
  <2> QED
    BY <2>1, <2>2
<1> QED
  BY <1>1, <1>2 DEF Min

\* The greatest of a set of numbers that has a bound.
LEMMA MaxOfSet ==
  ASSUME NEW n \in Nat, NEW S, S \subseteq 1 .. n, S # {}
  PROVE  Max(S) \in S /\ \A y \in S : Max(S) >= y
<1> DEFINE U == {m \in Nat : n - m \in S}
<1>1. U \subseteq Nat /\ U # {}
  <2>1. PICK y : y \in S
    OBVIOUS
  <2>2. n - y \in Nat /\ n - (n - y) = y
    BY <2>1
  <2> QED
    BY <2>1, <2>2
<1>2. Min(U) \in U /\ \A y \in U : Min(U) <= y
  <2> HIDE DEF U
  <2> QED
    BY <1>1, MinOfSet
<1> DEFINE m == Min(U)
<1>3. m \in Nat /\ n - m \in S
  BY <1>2
<1> HIDE DEF m
<1>4. ASSUME NEW y \in S PROVE n - m >= y
  <2>1. n - y \in Nat /\ n - (n - y) = y
    OBVIOUS
  <2>2. n - y \in U
    BY <2>1
  <2>3. m <= n - y
    BY <1>2, <2>2 DEF m
  <2> QED
    BY <1>3, <2>3
<1> QED
  BY <1>3, <1>4 DEF Max

LEMMA MaxOfInterval ==
  ASSUME NEW i \in Nat \ {0}
  PROVE  Max(1 .. i) = i /\ (1 .. i) \ {i} = 1 .. i - 1
<1>1. i \in 1 .. i /\ \A y \in 1 .. i : i >= y
  OBVIOUS
<1>2. \A x \in 1 .. i : (\A y \in 1 .. i : x >= y) => x = i
  BY <1>1
<1>3. Max(1 .. i) = i
  BY <1>1, <1>2 DEF Max
<1> QED
  BY <1>3

-----------------------------------------------------------------------------
(* Folds.                                                                  *)

\* The values of a recursion over 0 .. n whose steps keep T.
Steps(n, T, base, step, h) ==
  /\ h \in [0 .. n -> T]
  /\ h[0] = base /\ \A i \in 1 .. n : h[i] = step[i][h[i - 1]]

LEMMA PrefixExists ==
  ASSUME NEW n \in Nat, NEW T, NEW base \in T, NEW step \in [1 .. n -> [T -> T]]
  PROVE  \E h : Steps(n, T, base, step, h)
<1> DEFINE P(m, h) == h[0] = base /\ \A i \in 1 .. m : h[i] = step[i][h[i - 1]]
           S == {m \in Nat : m <= n => \E h \in [0 .. m -> T] : P(m, h)}
<1>1. 0 \in S
  <2> DEFINE h == [i \in 0 .. 0 |-> base]
  <2>1. h \in [0 .. 0 -> T] /\ P(0, h)
    OBVIOUS
  <2> QED
    BY <2>1
<1>2. ASSUME NEW m \in Nat, m \in S PROVE m + 1 \in S
  <2> SUFFICES ASSUME m + 1 <= n PROVE \E h \in [0 .. m + 1 -> T] : P(m + 1, h)
    OBVIOUS
  <2>1. PICK h \in [0 .. m -> T] : P(m, h)
    BY <1>2
  <2> DEFINE g == [i \in 0 .. m + 1 |-> IF i = m + 1 THEN step[m + 1][h[m]] ELSE h[i]]
  <2>2. h[m] \in T /\ m + 1 \in 1 .. n
    OBVIOUS
  <2>3. step[m + 1] \in [T -> T]
    BY <2>2
  <2>4. step[m + 1][h[m]] \in T
    BY <2>2, <2>3
  <2>5. g \in [0 .. m + 1 -> T]
    BY <2>4
  <2>6. g[0] = base
    BY <2>1
  <2>7. ASSUME NEW i \in 1 .. m + 1 PROVE g[i] = step[i][g[i - 1]]
    <3>1. CASE i = m + 1
      BY <3>1
    <3>2. CASE i # m + 1
      BY <2>1, <3>2
    <3> QED
      BY <3>1, <3>2
  <2> HIDE DEF g
  <2> QED
    BY <2>5, <2>6, <2>7
<1> HIDE DEF S
<1>3. n \in S
  BY <1>1, <1>2, SetInduction
<1>4. PICK h \in [0 .. n -> T] : P(n, h)
  BY <1>3 DEF S
<1>5. Steps(n, T, base, step, h)
  BY <1>4 DEF Steps
<1> QED
  BY <1>5

\* What holds of the first value and is kept by each step holds of the last.
LEMMA FoldAlong ==
  ASSUME NEW n \in Nat, NEW T, NEW f, f[0] \in T,
         \A i \in 1 .. n : f[i - 1] \in T => f[i] \in T
  PROVE  \A i \in 0 .. n : f[i] \in T
<1> DEFINE S == {m \in Nat : m <= n => f[m] \in T}
<1>1. 0 \in S
  OBVIOUS
<1>2. ASSUME NEW m \in Nat, m \in S PROVE m + 1 \in S
  <2>1. CASE m + 1 <= n
    <3>1. m + 1 \in 1 .. n /\ (m + 1) - 1 = m /\ f[m] \in T
      BY <1>2, <2>1
    <3>2. f[m + 1] \in T
      BY <3>1
    <3> QED
      BY <3>2
  <2>2. CASE ~(m + 1 <= n)
    BY <2>2
  <2> QED
    BY <2>1, <2>2
<1> HIDE DEF S
<1>3. \A m \in Nat : m \in S
  BY <1>1, <1>2, SetInduction
<1> QED
  BY <1>3 DEF S

\* The recursion of FoldLeft: each subset of the domain is folded on its own,
\* the elements that are not in it change nothing.
StepsIn(n, T, base, step, s, g) ==
  /\ g \in [0 .. n -> T] /\ g[0] = base
  /\ \A i \in 1 .. n : /\ i \in s => g[i] = step[i][g[i - 1]]
                       /\ i \notin s => g[i] = g[i - 1]

LEMMA SubsetExists ==
  ASSUME NEW n \in Nat, NEW T, NEW base \in T, NEW step \in [1 .. n -> [T -> T]],
         NEW s \in SUBSET (1 .. n)
  PROVE  \E g : StepsIn(n, T, base, step, s, g)
<1> DEFINE Skip == [x \in T |-> x]
           z == [i \in 1 .. n |-> IF i \in s THEN step[i] ELSE Skip]
<1>1. z \in [1 .. n -> [T -> T]]
  OBVIOUS
<1>2. \A i \in 1 .. n : /\ i \in s => z[i] = step[i]
                        /\ i \notin s => \A x \in T : z[i][x] = x
  OBVIOUS
<1> HIDE DEF z
<1>3. PICK g : Steps(n, T, base, z, g)
  BY <1>1, PrefixExists
<1>4. \A i \in 1 .. n : g[i - 1] \in T
  BY <1>3 DEF Steps
<1>5. \A i \in 1 .. n : i \notin s => g[i] = g[i - 1]
  BY <1>2, <1>3, <1>4 DEF Steps
<1>6. \A i \in 1 .. n : i \in s => g[i] = step[i][g[i - 1]]
  BY <1>2, <1>3 DEF Steps
<1>7. StepsIn(n, T, base, step, s, g)
  BY <1>3, <1>5, <1>6 DEF Steps, StepsIn
<1> QED
  BY <1>7

Folded(n, T, base, step, h) ==
  /\ h \in [SUBSET (1 .. n) -> T]
  /\ \A s \in SUBSET (1 .. n) :
       h[s] = IF s = {} THEN base ELSE step[Max(s)][h[s \ {Max(s)}]]

LEMMA FoldExists ==
  ASSUME NEW n \in Nat, NEW T, NEW base \in T, NEW step \in [1 .. n -> [T -> T]]
  PROVE  \E h : Folded(n, T, base, step, h)
<1>1. \A s \in SUBSET (1 .. n) : \E g : StepsIn(n, T, base, step, s, g)
  BY SubsetExists
<1> DEFINE G == [s \in SUBSET (1 .. n) |->
                   CHOOSE g : StepsIn(n, T, base, step, s, g)]
           h == [s \in SUBSET (1 .. n) |-> G[s][n]]
<1>2. \A s \in SUBSET (1 .. n) : StepsIn(n, T, base, step, s, G[s])
  BY <1>1
<1> HIDE DEF G
<1>3. ASSUME NEW s \in SUBSET (1 .. n)
      PROVE  /\ G[s] \in [0 .. n -> T] /\ G[s][0] = base
             /\ \A i \in 1 .. n : /\ i \in s => G[s][i] = step[i][G[s][i - 1]]
                                  /\ i \notin s => G[s][i] = G[s][i - 1]
  BY <1>2 DEF StepsIn
\* After the last element of s nothing changes.
<1>4. ASSUME NEW s \in SUBSET (1 .. n), NEW m \in 0 .. n, \A i \in s : i <= m
      PROVE  G[s][n] = G[s][m]
  <2> DEFINE f == [i \in 0 .. n |-> IF i <= m THEN G[s][m] ELSE G[s][i]]
             U == {G[s][m]}
  <2>1. f[0] \in U
    OBVIOUS
  <2>2. ASSUME NEW i \in 1 .. n, f[i - 1] \in U PROVE f[i] \in U
    <3>1. CASE i <= m
      BY <3>1
    <3>2. CASE i > m
      <4>1. i \notin s
        BY <1>4, <3>2
      <4>2. G[s][i] = G[s][i - 1]
        BY <1>3, <4>1
      <4>3. f[i - 1] = G[s][i - 1]
        <5>1. CASE i - 1 = m
          BY <5>1
        <5>2. CASE i - 1 # m
          <6>1. ~(i - 1 <= m)
            BY <3>2, <5>2
          <6> QED
            BY <6>1
        <5> QED
          BY <5>1, <5>2
      <4>4. f[i] = G[s][i]
        BY <3>2
      <4> QED
        BY <2>2, <4>2, <4>3, <4>4
    <3> QED
      BY <3>1, <3>2
  <2> HIDE DEF f, U
  <2>3. \A i \in 0 .. n : f[i] \in U
    BY <2>1, <2>2, FoldAlong
  <2>4. f[n] = G[s][n]
    BY DEF f
  <2> QED
    BY <2>3, <2>4 DEF U
\* Up to an element that only s has, s and t have the same values.
<1>5. ASSUME NEW s \in SUBSET (1 .. n), NEW t \in SUBSET (1 .. n), NEW m \in 0 .. n,
             \A i \in 1 .. m : i \in s <=> i \in t
      PROVE  G[s][m] = G[t][m]
  <2> DEFINE S == {i \in Nat : i <= m => G[s][i] = G[t][i]}
  <2>1. 0 \in S
    BY <1>3
  <2>2. ASSUME NEW i \in Nat, i \in S PROVE i + 1 \in S
    <3>1. CASE i + 1 <= m
      <4>1. i + 1 \in 1 .. m /\ i + 1 \in 1 .. n /\ (i + 1) - 1 = i
        BY <3>1
      <4>2. G[s][i] = G[t][i]
        BY <2>2, <3>1
      <4>3. i + 1 \in s <=> i + 1 \in t
        BY <1>5, <4>1
      <4>4. G[s][i + 1] = G[t][i + 1]
        BY <1>3, <4>1, <4>2, <4>3
      <4> QED
        BY <4>4
    <3>2. CASE ~(i + 1 <= m)
      BY <3>2
    <3> QED
      BY <3>1, <3>2
  <2> HIDE DEF S
  <2>3. m \in S
    BY <2>1, <2>2, SetInduction
  <2> QED
    BY <2>3 DEF S
<1>6. ASSUME NEW s \in SUBSET (1 .. n)
      PROVE  h[s] = IF s = {} THEN base ELSE step[Max(s)][h[s \ {Max(s)}]]
  <2>1. CASE s = {}
    <3>1. G[s][n] = G[s][0]
      BY <1>4, <2>1
    <3> QED
      BY <1>3, <2>1, <3>1
  <2>2. CASE s # {}
    <3> DEFINE m == Max(s)
               t == s \ {m}
    <3>1. m \in s /\ \A y \in s : m >= y
      BY <2>2, MaxOfSet
    <3> HIDE DEF m
    <3>2. m \in 1 .. n /\ m - 1 \in 0 .. n /\ m \in 0 .. n
      BY <3>1
    <3>3. G[s][n] = G[s][m]
      BY <1>4, <3>1, <3>2
    <3>4. G[s][m] = step[m][G[s][m - 1]]
      BY <1>3, <3>1, <3>2
    <3>5. t \in SUBSET (1 .. n) /\ \A i \in t : i <= m - 1
      <4>1. \A i \in t : i \in 1 .. n /\ i <= m /\ i # m
        BY <3>1
      <4> QED
        BY <3>2, <4>1
    <3>6. G[t][n] = G[t][m - 1]
      BY <1>4, <3>2, <3>5
    <3>7. \A i \in 1 .. m - 1 : i \in s <=> i \in t
      BY <3>2
    <3>8. G[s][m - 1] = G[t][m - 1]
      BY <1>5, <3>2, <3>5, <3>7
    <3>9. h[s] = step[m][h[t]]
      BY <3>3, <3>4, <3>5, <3>6, <3>8
    <3> QED
      BY <2>2, <3>9 DEF m
  <2> QED
    BY <2>1, <2>2
<1>7. h \in [SUBSET (1 .. n) -> T]
  BY <1>3
<1> HIDE DEF h
<1>8. Folded(n, T, base, step, h)
  BY <1>6, <1>7 DEF Folded
<1> QED
  BY <1>8

-----------------------------------------------------------------------------
(* Sequences of which a part is replaced.                                  *)

LEMMA OneElement ==
  ASSUME NEW S, NEW c \in S, NEW s, s = << c >>
  PROVE  /\ s \in Seq(S) /\ Len(s) = 1 /\ s[1] = c
         /\ 1 \in 1 .. Len(s) /\ \A j \in 1 .. Len(s) : j = 1 /\ s[j] = c
<1>1. s \in Seq(S) /\ Len(s) = 1 /\ s[1] = c
  OBVIOUS
<1>2. \A j \in 1 .. 1 : j = 1
  OBVIOUS
<1> QED
  BY <1>1, <1>2

LEMMA SubSeqOfOne ==
  ASSUME NEW S, NEW s \in Seq(S), NEW i \in 1 .. Len(s)
  PROVE  SubSeq(s, i, i) = << s[i] >>
<1>1. i \in Nat /\ i >= 1 /\ i <= Len(s) /\ Len(s) \in Nat
  BY LenProperties
<1>2. s[i] \in S
  BY ElementOfSeq
<1> DEFINE t == SubSeq(s, i, i)
           u == << s[i] >>
<1>3. t \in Seq(S) /\ Len(t) = 1 /\ t[1] = s[i]
  <2>1. \A j \in i .. i : s[j] \in S
    BY <1>1, <1>2
  <2>2. i - i + 1 = 1 /\ i <= i /\ i + 1 - 1 = i /\ 1 \in 1 .. i - i + 1 /\ i \in Int
    BY <1>1
  <2>3. /\ t \in Seq(S) /\ Len(t) = (IF i <= i THEN i - i + 1 ELSE 0)
        /\ \A j \in 1 .. i - i + 1 : t[j] = s[i + j - 1]
    BY <2>1, <2>2, SubSeqProperties
  <2> QED
    BY <2>2, <2>3
<1>4. u \in Seq(S) /\ Len(u) = 1 /\ u[1] = s[i] 
  BY <1>2, OneElement
<1> HIDE DEF t, u
<1>5. \A j \in 1 .. Len(t) : t[j] = u[j]
  BY <1>3, <1>4
<1>6. t = u
  BY <1>3, <1>4, <1>5, SeqEqual
<1> QED
  BY <1>6 DEF t, u

LEMMA SubSeqOfNone ==
  ASSUME NEW s, NEW i \in Nat, NEW j \in Nat, j = i - 1
  PROVE  SubSeq(s, i, j) = << >>
<1>1. i - j = 1 /\ i > j /\ i \in Int /\ j \in Int
  OBVIOUS
<1> QED
  BY <1>1, SubSeqEmpty

\* q is the first x elements of s, those of mid, and those of s from y on; l is
\* where the last part begins.
Spliced(S, s, mid, x, y, q, l) ==
  /\ q \in Seq(S) /\ Len(q) = l + (Len(s) - y + 1)
  /\ SubSeq(s, 1, x) \in Seq(S) /\ SubSeq(s, y, Len(s)) \in Seq(S)
  /\ \A i \in 1 .. x : q[i] = s[i]
  /\ \A i \in x + 1 .. l : q[i] = mid[i - x]
  /\ \A i \in l + 1 .. l + (Len(s) - y + 1) : q[i] = s[(i - l) + (y - 1)]

LEMMA SpliceElements ==
  ASSUME NEW S, NEW s \in Seq(S), NEW mid \in Seq(S),
         NEW x \in 0 .. Len(s), NEW y \in 1 .. Len(s) + 1,
         NEW q, q = SubSeq(s, 1, x) \o mid \o SubSeq(s, y, Len(s)),
         NEW l, l = x + Len(mid)
  PROVE  Spliced(S, s, mid, x, y, q, l)
<1> DEFINE z == Len(s)
           k == Len(mid)
           a == SubSeq(s, 1, x)
           b == SubSeq(s, y, z)
           c == a \o mid
           r == c \o b
           m == x + k
           n == m + (z - y + 1)
<1>1. z \in Nat /\ k \in Nat /\ x \in Nat /\ y \in Nat /\ z - y + 1 \in Nat /\ x <= z /\ 1 <= y
  BY LenProperties
<1>2. \A i \in 1 .. z : s[i] \in S
  BY ElementOfSeq
<1>3. a \in Seq(S) /\ Len(a) = x /\ \A i \in 1 .. x : a[i] = s[i]
  <2>1. \A i \in 1 .. x : s[i] \in S
    BY <1>1, <1>2
  <2>2. /\ a \in Seq(S) /\ Len(a) = IF 1 <= x THEN x - 1 + 1 ELSE 0
        /\ \A i \in 1 .. x - 1 + 1 : a[i] = s[1 + i - 1]
    BY <1>1, <2>1, SubSeqProperties
  <2> QED
    BY <1>1, <2>2
<1>4. b \in Seq(S) /\ Len(b) = z - y + 1 /\ \A i \in 1 .. z - y + 1 : b[i] = s[i + (y - 1)]
  <2>1. \A i \in y .. z : s[i] \in S
    BY <1>1, <1>2
  <2>2. /\ b \in Seq(S) /\ Len(b) = IF y <= z THEN z - y + 1 ELSE 0
        /\ \A i \in 1 .. z - y + 1 : b[i] = s[y + i - 1]
    BY <1>1, <2>1, SubSeqProperties
  <2>3. \A i \in 1 .. z - y + 1 : y + i - 1 = i + (y - 1)
    BY <1>1
  <2>4. Len(b) = z - y + 1
    BY <1>1, <2>2
  <2> QED
    BY <2>2, <2>3, <2>4
<1> HIDE DEF a, b, z, k
<1>5. /\ c \in Seq(S) /\ Len(c) = m
      /\ \A i \in 1 .. m : c[i] = IF i <= x THEN a[i] ELSE mid[i - x]
  BY <1>3, ConcatProperties DEF k
<1> HIDE DEF c
<1>6. /\ r \in Seq(S) /\ Len(r) = m + (z - y + 1)
      /\ \A i \in 1 .. m + (z - y + 1) : r[i] = IF i <= m THEN c[i] ELSE b[i - m]
  <2>1. /\ r \in Seq(S) /\ Len(r) = Len(c) + Len(b)
        /\ \A i \in 1 .. Len(c) + Len(b) : r[i] = IF i <= Len(c) THEN c[i] ELSE b[i - Len(c)]
    BY <1>4, <1>5, ConcatProperties
  <2>2. Len(c) = m /\ Len(b) = z - y + 1
    BY <1>4, <1>5
  <2> HIDE DEF r, m
  <2> QED
    BY ONLY <2>1, <2>2
<1> HIDE DEF r
<1>7. ASSUME NEW i \in 1 .. x PROVE r[i] = s[i]
  <2>1. i \in 1 .. m /\ i <= x /\ i <= m /\ i \in 1 .. m + (z - y + 1)
    BY <1>1
  <2> QED
    BY <1>3, <1>5, <1>6, <2>1
<1>8. ASSUME NEW i \in x + 1 .. m PROVE r[i] = mid[i - x]
  <2>1. i \in 1 .. m /\ ~(i <= x) /\ i <= m /\ i \in 1 .. m + (z - y + 1)
    BY <1>1
  <2> QED
    BY <1>5, <1>6, <2>1
<1>9. ASSUME NEW i \in m + 1 .. n PROVE r[i] = s[(i - m) + (y - 1)]
  <2>1. ~(i <= m) /\ i \in 1 .. m + (z - y + 1) /\ i - m \in 1 .. z - y + 1
    BY <1>1
  <2>2. r[i] = b[i - m]
    BY <1>6, <2>1
  <2> QED
    BY <1>4, <2>1, <2>2
<1>10. a = SubSeq(s, 1, x) /\ b = SubSeq(s, y, Len(s)) /\ m = l
       /\ n = l + (Len(s) - y + 1) /\ r = q
  BY DEF a, b, c, r, k, z
<1> HIDE DEF m, n
<1>11. /\ r \in Seq(S) /\ Len(r) = n
       /\ a \in Seq(S) /\ b \in Seq(S)
       /\ \A i \in 1 .. x : r[i] = s[i]
       /\ \A i \in x + 1 .. m : r[i] = mid[i - x]
       /\ \A i \in m + 1 .. n : r[i] = s[(i - m) + (y - 1)]
  BY <1>3, <1>4, <1>6, <1>7, <1>8, <1>9 DEF m, n
<1> QED
  BY ONLY <1>10, <1>11 DEF Spliced
=============================================================================
