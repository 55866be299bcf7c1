---------------------------- MODULE SequenceFacts ----------------------------
(* What the operators of SequencesExt that the models use compute, and how *)
(* a fact about all elements of a sequence is shown.  A fold is a recursive*)
(* function, that is, a CHOOSE: it is unfolded here once, for every        *)
(* operation; a module that folds an operation instantiates this one with  *)
(* it.                                                                     *)
EXTENDS Integers, SequencesExt, SequenceTheorems, NaturalsInduction,
        WellFoundedInduction, TLAPS

CONSTANT Op(_, _)  \* what FoldLeft folds

Folded(base, seq) == FoldLeft(Op, base, seq)

(* Every set of natural numbers that is not empty has a least element.     *)
LEMMA LeastNatural ==
    ASSUME NEW S \in SUBSET Nat, S # {}
    PROVE  \E n \in S : \A m \in S : n <= m
<1> DEFINE Less == {ss \in Nat \X Nat : ss[1] < ss[2]}
<1>1. IsWellFoundedOn(Less, Nat)
    BY NatLessThanWellFounded, Zenon DEF OpToRel
<1> HIDE DEF Less
<1>2. PICK n \in S : \A m \in S : ~(<<m, n>> \in Less)
    BY <1>1, WFMin, Zenon
<1>3. ASSUME NEW m \in S PROVE n <= m
  <2>1. m \in Nat /\ n \in Nat
      OBVIOUS
  <2>2. m < n => <<m, n>> \in Less
      BY <2>1 DEF Less
  <2> QED
      BY <1>2, <2>1, <2>2
<1> QED
    BY <1>3

(* The greatest number of a set that has one.                              *)
LEMMA MaxIs ==
    ASSUME NEW S \in SUBSET Int, NEW x \in S, \A y \in S : y <= x
    PROVE  Max(S) = x
<1>1. \E m \in S : \A y \in S : m >= y
    BY x \in S
<1>2. Max(S) \in S /\ \A y \in S : Max(S) >= y
    BY <1>1, Zenon DEF Max
<1>3. Max(S) <= x /\ Max(S) >= x /\ Max(S) \in Int /\ x \in Int
    BY <1>2
<1> QED
    BY <1>3

(* Induction up to a bound, with the set of the numbers of which the       *)
(* statement holds in the place of the statement.                          *)
LEMMA UpTo ==
    ASSUME NEW n \in Nat, NEW S, 0 \in S, \A k \in 0 .. n - 1 : k \in S => k + 1 \in S
    PROVE  \A k \in 0 .. n : k \in S
<1> DEFINE Missing == {k \in Nat : k <= n /\ k \notin S}
<1>1. Missing = {}
  <2> SUFFICES ASSUME Missing # {} PROVE FALSE
      OBVIOUS
  <2>1. PICK k \in Missing : \A m \in Missing : k <= m
      BY LeastNatural
  <2>2. k # 0 /\ k \in Nat /\ k <= n /\ k \notin S
      OBVIOUS
  <2>3. k - 1 \in 0 .. n - 1 /\ k - 1 \notin Missing
      BY <2>1, <2>2
  <2>4. k - 1 \in S
      BY <2>3
  <2>5. (k - 1) + 1 \in S
      BY <2>3, <2>4
  <2> QED
      BY <2>2, <2>5
<1> QED
    BY <1>1

(* FoldLeft goes through the results of the prefixes, one element further  *)
(* at a time.                                                              *)
LEMMA FoldLeftRun ==
    ASSUME NEW base, NEW n \in Nat, NEW seq, DOMAIN seq = 1 .. n
    PROVE  \E g : /\ g[0] = base
                  /\ \A k \in 1 .. n : g[k] = Op(g[k - 1], seq[k])
                  /\ Folded(base, seq) = g[n]
<1> DEFINE Value(h, s) == IF s = {} THEN base ELSE Op(h[s \ {Max(s)}], seq[Max(s)])
           Rec(h, k)   == h = [s \in SUBSET (1 .. k) |-> Value(h, s)]
           Missing     == {k \in Nat : ~\E h : Rec(h, k)}
           iter        == CHOOSE h : Rec(h, n)
<1>1. Folded(base, seq) = iter[1 .. n]
    BY DEF Folded, FoldLeft, MapThenFoldSet
<1>2. Rec([s \in SUBSET (1 .. 0) |-> base], 0)
    OBVIOUS
<1>3. ASSUME NEW k \in Nat, NEW h, Rec(h, k) PROVE \E f : Rec(f, k + 1)
  <2> DEFINE f == [s \in SUBSET (1 .. k + 1) |->
                      IF k + 1 \in s THEN Op(h[s \ {k + 1}], seq[k + 1]) ELSE h[s]]
  <2>1. ASSUME NEW s \in SUBSET (1 .. k + 1), k + 1 \in s
        PROVE  f[s] = Value(f, s)
    <3>1. Max(s) = k + 1
        BY <2>1, MaxIs
    <3>2. s \ {k + 1} \in SUBSET (1 .. k)
        OBVIOUS
    <3>3. s \ {k + 1} \in SUBSET (1 .. k + 1) /\ k + 1 \notin s \ {k + 1}
        OBVIOUS
    <3>4. f[s \ {k + 1}] = h[s \ {k + 1}]
        BY <3>3
    <3>5. f[s] = Op(h[s \ {k + 1}], seq[k + 1])
        BY <2>1
    <3> QED
        BY <2>1, <3>1, <3>4, <3>5
  <2>2. ASSUME NEW s \in SUBSET (1 .. k + 1), k + 1 \notin s, s # {}
        PROVE  f[s] = Value(f, s)
    <3>1. s \in SUBSET (1 .. k)
        BY <2>2
    <3>2. s \ {Max(s)} \in SUBSET (1 .. k + 1) /\ k + 1 \notin s \ {Max(s)}
        BY <2>2
    <3>3. f[s \ {Max(s)}] = h[s \ {Max(s)}]
        BY <3>2
    <3>4. h[s] = Value(h, s)
        BY <1>3, <3>1
    <3>5. f[s] = h[s]
        BY <2>2
    <3> QED
        BY <2>2, <3>3, <3>4, <3>5
  <2>3. f[{}] = Value(f, {})
    <3>1. {} \in SUBSET (1 .. k) /\ {} \in SUBSET (1 .. k + 1)
        OBVIOUS
    <3>2. h[{}] = Value(h, {})
        BY <1>3, <3>1
    <3> QED
        BY <3>1, <3>2
  <2> HIDE DEF Value
  <2>4. \A s \in SUBSET (1 .. k + 1) : f[s] = Value(f, s)
      BY <2>1, <2>2, <2>3
  <2>5. f = [s \in SUBSET (1 .. k + 1) |-> Value(f, s)]
      BY <2>4
  <2> QED
      BY <2>5
<1> HIDE DEF Rec
<1>4. Missing = {}
  <2> SUFFICES ASSUME Missing # {} PROVE FALSE
      OBVIOUS
  <2>1. PICK k \in Missing : \A m \in Missing : k <= m
      BY LeastNatural
  <2>2. k # 0
      BY <1>2
  <2>3. k - 1 \in Nat /\ k - 1 \notin Missing
      BY <2>1, <2>2
  <2>4. \E h : Rec(h, k - 1)
      BY <2>3
  <2>5. \E h : Rec(h, (k - 1) + 1)
      BY <1>3, <2>3, <2>4
  <2> QED
      BY <2>5
<1>5. Rec(iter, n)
    BY <1>4
<1> DEFINE g == [k \in 0 .. n |-> iter[1 .. k]]
<1>6. \A s \in SUBSET (1 .. n) : iter[s] = Value(iter, s)
    BY <1>5 DEF Rec
<1> HIDE DEF iter
<1>7. g[0] = base
  <2>1. 1 .. 0 = {} /\ {} \in SUBSET (1 .. n) /\ 0 \in 0 .. n
      OBVIOUS
  <2> QED
      BY <1>6, <2>1
<1>8. ASSUME NEW k \in 1 .. n PROVE g[k] = Op(g[k - 1], seq[k])
  <2> DEFINE t == 1 .. k
  <2>1. t \in SUBSET (1 .. n) /\ t # {}
    <3>1. k \in t /\ \A m \in t : m \in 1 .. n
        OBVIOUS
    <3> QED
        BY <3>1
  <2>2. Max(t) = k
    <3>1. t \in SUBSET Int /\ k \in t /\ \A m \in t : m <= k
        OBVIOUS
    <3> QED
        BY <3>1, MaxIs
  <2>3. t \ {k} = 1 .. k - 1
      OBVIOUS
  <2> HIDE DEF t
  <2>4. iter[t] = Op(iter[1 .. k - 1], seq[k])
      BY <1>6, <2>1, <2>2, <2>3
  <2> USE DEF t
  <2> QED
      BY <2>4
<1>9. Folded(base, seq) = g[n]
    BY <1>1
<1> QED
    BY <1>7, <1>8, <1>9

(* A function defined on the natural numbers by recursion: Op(f, n) is its *)
(* value at n, which depends on its values below n only.                   *)
LEMMA RecursionOnNat ==
    ASSUME \A n \in Nat : \A g, h : (\A k \in 0 .. n - 1 : g[k] = h[k]) => Op(g, n) = Op(h, n)
    PROVE  \E f : f = [n \in Nat |-> Op(f, n)]
<1> DEFINE Rec(h, n) == \A k \in 0 .. n : h[k] = Op(h, k)
           Missing   == {n \in Nat : ~\E h : Rec(h, n)}
<1>1. \E h : Rec(h, 0)
  <2> DEFINE h == [k \in 0 .. 0 |-> Op(k, 0)]
  <2>1. Rec(h, 0)
    <3>1. Op(h, 0) = Op(0, 0)
        OBVIOUS
    <3> QED
        BY <3>1
  <2> HIDE DEF h, Rec
  <2> QED
      BY <2>1
<1>2. ASSUME NEW n \in Nat, NEW h, Rec(h, n) PROVE \E g : Rec(g, n + 1)
  <2> DEFINE g == [k \in 0 .. n + 1 |-> IF k = n + 1 THEN Op(h, n + 1) ELSE h[k]]
  <2>1. \A k \in 0 .. n : g[k] = h[k]
      OBVIOUS
  <2>2. g[n + 1] = Op(h, n + 1)
      OBVIOUS
  <2> HIDE DEF g
  <2>3. ASSUME NEW k \in 0 .. n + 1 PROVE g[k] = Op(g, k)
    <3>1. k \in Nat /\ \A j \in 0 .. k - 1 : j \in 0 .. n
        OBVIOUS
    <3>2. \A j \in 0 .. k - 1 : g[j] = h[j]
        BY <2>1, <3>1
    <3>3. Op(g, k) = Op(h, k)
        BY <3>1, <3>2
    <3>4. g[k] = Op(h, k)
      <4>1. CASE k = n + 1
          BY <2>2, <4>1
      <4>2. CASE k \in 0 .. n
          BY <1>2, <2>1, <4>2
      <4> QED
          BY <4>1, <4>2
    <3> QED
        BY <3>3, <3>4
  <2>4. Rec(g, n + 1)
      BY <2>3
  <2> HIDE DEF Rec
  <2> QED
      BY <2>4
<1> HIDE DEF Rec
<1>3. Missing = {}
  <2> SUFFICES ASSUME Missing # {} PROVE FALSE
      OBVIOUS
  <2>1. PICK n \in Missing : \A m \in Missing : n <= m
      BY LeastNatural
  <2>2. n # 0
      BY <1>1
  <2>3. n - 1 \in Nat /\ n - 1 \notin Missing
      BY <2>1, <2>2
  <2>4. \E h : Rec(h, n - 1)
      BY <2>3
  <2>5. \E g : Rec(g, (n - 1) + 1)
      BY <1>2, <2>3, <2>4
  <2> QED
      BY <2>5
<1>4. ASSUME NEW n \in Nat, NEW g, NEW h, Rec(g, n), Rec(h, n)
      PROVE  \A k \in 0 .. n : g[k] = h[k]
  <2> DEFINE Apart == {k \in 0 .. n : g[k] # h[k]}
  <2> SUFFICES ASSUME Apart # {} PROVE FALSE
      OBVIOUS
  <2>1. Apart \in SUBSET Nat
      OBVIOUS
  <2>2. PICK k \in Apart : \A m \in Apart : k <= m
      BY <2>1, LeastNatural
  <2>3. k \in 0 .. n /\ k \in Nat /\ \A j \in 0 .. k - 1 : j \in 0 .. n /\ j \notin Apart
      BY <2>2
  <2>4. \A j \in 0 .. k - 1 : g[j] = h[j]
      BY <2>3
  <2>5. Op(g, k) = Op(h, k)
      BY <2>3, <2>4
  <2>6. g[k] = h[k]
      BY <1>4, <2>3, <2>5 DEF Rec
  <2> QED
      BY <2>2, <2>6
<1> DEFINE table(n) == CHOOSE h : Rec(h, n)
           f        == [n \in Nat |-> table(n)[n]]
<1>5. \A n \in Nat : Rec(table(n), n)
    BY <1>3
<1>6. \A n \in Nat : f[n] = table(n)[n]
    OBVIOUS
<1>7. DOMAIN f = Nat /\ f = [n \in Nat |-> f[n]]
    OBVIOUS
<1> HIDE DEF table, f
<1>8. ASSUME NEW n \in Nat PROVE f[n] = Op(f, n)
  <2>1. ASSUME NEW k \in 0 .. n - 1 PROVE f[k] = table(n)[k]
    <3>1. k \in Nat /\ k \in 0 .. k /\ \A j \in 0 .. k : j \in 0 .. n
        OBVIOUS
    <3>2. Rec(table(k), k) /\ Rec(table(n), n)
        BY <1>5, <3>1
    <3>3. Rec(table(n), k)
        BY <3>1, <3>2 DEF Rec
    <3>4. table(k)[k] = table(n)[k]
        BY <1>4, <3>1, <3>2, <3>3
    <3> QED
        BY <1>6, <3>1, <3>4
  <2>2. Op(f, n) = Op(table(n), n)
      BY <2>1
  <2>3. n \in 0 .. n
      OBVIOUS
  <2>4. table(n)[n] = Op(table(n), n)
      BY <1>5, <2>3 DEF Rec
  <2> QED
      BY <1>6, <2>2, <2>4
<1>9. f = [n \in Nat |-> Op(f, n)]
    BY <1>7, <1>8
<1> QED
    BY <1>9

-----------------------------------------------------------------------------
(* A sequence is told by its length and its elements.                      *)
LEMMA SameSeq ==
    ASSUME NEW S, NEW s \in Seq(S), NEW m \in Nat, NEW f, Len(s) = m,
           f = [n \in 1 .. m |-> f[n]], \A n \in 1 .. m : s[n] = f[n]
    PROVE  s = f
<1>1. s = [n \in 1 .. m |-> s[n]]
    OBVIOUS
<1> QED
    BY <1>1

(* A part of a sequence.                                                   *)
LEMMA Part ==
    ASSUME NEW S, NEW s \in Seq(S), NEW m \in Int, NEW k \in Int, 1 <= m, k <= Len(s), m <= k + 1
    PROVE  /\ SubSeq(s, m, k) \in Seq(S) /\ Len(SubSeq(s, m, k)) = (k - m) + 1
           /\ \A n \in 1 .. (k - m) + 1 : SubSeq(s, m, k)[n] = s[(m + n) - 1]
OBVIOUS

(* An element inserted before the k-th one, and the k-th one removed.      *)
LEMMA InsertedAt ==
    ASSUME NEW S, NEW s \in Seq(S), NEW k \in 1 .. Len(s) + 1, NEW x \in S
    PROVE  InsertAt(s, k, x) =
              [n \in 1 .. Len(s) + 1 |-> IF n < k THEN s[n] ELSE IF n = k THEN x ELSE s[n - 1]]
<1> DEFINE a == SubSeq(s, 1, k - 1)
           b == <<x>>
           c == SubSeq(s, k, Len(s))
           m == Len(s)
           r == [n \in 1 .. m + 1 |-> IF n < k THEN s[n] ELSE IF n = k THEN x ELSE s[n - 1]]
<1>1. m \in Nat /\ k \in Int /\ 1 <= k /\ k <= m + 1
    OBVIOUS
<1>2. a \in Seq(S) /\ Len(a) = k - 1 /\ \A n \in 1 .. k - 1 : a[n] = s[n]
  <2>1. (k - 1) - 1 + 1 = k - 1 /\ \A n \in 1 .. k - 1 : (1 + n) - 1 = n
      BY <1>1
  <2> QED
      BY <1>1, <2>1, Part
<1>3. c \in Seq(S) /\ Len(c) = (m - k) + 1 /\ \A n \in 1 .. (m - k) + 1 : c[n] = s[(k + n) - 1]
    BY <1>1, Part
<1>4. b \in Seq(S) /\ Len(b) = 1 /\ b[1] = x
    OBVIOUS
<1> HIDE DEF a, b, c, m
<1>5. a \o b \in Seq(S) /\ Len(a \o b) = k /\ \A n \in 1 .. k : (a \o b)[n] = IF n < k THEN s[n] ELSE x
  <2>1. (k - 1) + 1 = k /\ \A n \in 1 .. k : (n <= k - 1 <=> n < k) /\ (~(n < k) => n - (k - 1) = 1)
      BY <1>1
  <2>2. /\ a \o b \in Seq(S) /\ Len(a \o b) = (k - 1) + 1
        /\ \A n \in 1 .. (k - 1) + 1 : (a \o b)[n] = IF n <= k - 1 THEN a[n] ELSE b[n - (k - 1)]
    <3>1. a \in Seq(S) /\ b \in Seq(S)
        BY <1>2, <1>4
    <3>2. /\ a \o b \in Seq(S) /\ Len(a \o b) = Len(a) + Len(b)
          /\ \A n \in 1 .. Len(a) + Len(b) :
                (a \o b)[n] = IF n <= Len(a) THEN a[n] ELSE b[n - Len(a)]
        BY <3>1, ConcatProperties, Zenon
    <3> QED
        BY <1>2, <1>4, <3>2
  <2>3. ASSUME NEW n \in 1 .. k PROVE (a \o b)[n] = IF n < k THEN s[n] ELSE x
    <3>1. (a \o b)[n] = IF n <= k - 1 THEN a[n] ELSE b[n - (k - 1)]
        BY <2>1, <2>2
    <3>2. n < k => n \in 1 .. k - 1
        BY <1>1
    <3> QED
        BY <1>2, <1>4, <2>1, <3>1, <3>2
  <2> QED
      BY <2>1, <2>2, <2>3
<1>6. /\ (a \o b) \o c \in Seq(S) /\ Len((a \o b) \o c) = m + 1
      /\ \A n \in 1 .. m + 1 : ((a \o b) \o c)[n] = IF n <= k THEN (a \o b)[n] ELSE c[n - k]
  <2>1. k + ((m - k) + 1) = m + 1
      BY <1>1
  <2> DEFINE ab == a \o b
  <2> HIDE DEF ab
  <2>2. /\ ab \o c \in Seq(S) /\ Len(ab \o c) = k + ((m - k) + 1)
        /\ \A n \in 1 .. k + ((m - k) + 1) : (ab \o c)[n] = IF n <= k THEN ab[n] ELSE c[n - k]
    <3>1. /\ ab \in Seq(S) /\ Len(ab) = k /\ k \in Nat
          /\ c \in Seq(S) /\ Len(c) = (m - k) + 1 /\ (m - k) + 1 \in Nat
        BY <1>1, <1>3, <1>5 DEF ab
    <3> HIDE DEF r
    <3> QED
        BY <3>1
  <2> QED
      BY <2>1, <2>2 DEF ab
<1>7. ASSUME NEW n \in 1 .. m + 1 PROVE ((a \o b) \o c)[n] = r[n]
  <2>1. n \in Int /\ 1 <= n /\ n <= m + 1
      BY <1>1
  <2>2. CASE n <= k
    <3>1. n \in 1 .. k /\ (~(n < k) => n = k)
        BY <1>1, <2>1, <2>2
    <3> QED
        BY <1>5, <1>6, <2>2, <3>1
  <2>3. CASE n > k
    <3>1. n - k \in 1 .. (m - k) + 1 /\ (k + (n - k)) - 1 = n - 1 /\ ~(n <= k) /\ ~(n < k) /\ n # k
        BY <1>1, <2>1, <2>3
    <3> QED
        BY <1>3, <1>6, <3>1
  <2>4. n <= k \/ n > k
      BY <1>1, <2>1
  <2> QED
      BY <2>2, <2>3, <2>4
<1> DEFINE abc == (a \o b) \o c
<1>8. abc \in Seq(S) /\ Len(abc) = m + 1 /\ m + 1 \in Nat
    BY <1>1, <1>6
<1>9. r = [n \in 1 .. m + 1 |-> r[n]]
    OBVIOUS
<1> HIDE DEF r, abc
<1>10. \A n \in 1 .. m + 1 : abc[n] = r[n]
    BY <1>7 DEF abc
<1>11. abc = r
    BY <1>8, <1>9, <1>10, SameSeq
<1> QED
    BY <1>11 DEF InsertAt, a, b, c, m, r, abc

LEMMA RemovedAt ==
    ASSUME NEW S, NEW s \in Seq(S), NEW k \in 1 .. Len(s)
    PROVE  RemoveAt(s, k) =
              [n \in 1 .. Len(s) - 1 |-> IF n < k THEN s[n] ELSE s[n + 1]]
<1> DEFINE a == SubSeq(s, 1, k - 1)
           c == SubSeq(s, k + 1, Len(s))
           m == Len(s)
           r == [n \in 1 .. m - 1 |-> IF n < k THEN s[n] ELSE s[n + 1]]
<1>1. m \in Nat /\ k \in Int /\ 1 <= k /\ k <= m
    OBVIOUS
<1>2. a \in Seq(S) /\ Len(a) = k - 1 /\ \A n \in 1 .. k - 1 : a[n] = s[n]
  <2>1. (k - 1) - 1 + 1 = k - 1 /\ \A n \in 1 .. k - 1 : (1 + n) - 1 = n
      BY <1>1
  <2> QED
      BY <1>1, <2>1, Part
<1>3. c \in Seq(S) /\ Len(c) = m - k /\ \A n \in 1 .. m - k : c[n] = s[k + n]
  <2>1. (m - (k + 1)) + 1 = m - k /\ \A n \in 1 .. m - k : ((k + 1) + n) - 1 = k + n
      BY <1>1
  <2>2. k + 1 \in Int /\ 1 <= k + 1 /\ m <= Len(s) /\ k + 1 <= m + 1 /\ m \in Int
      BY <1>1
  <2>3. /\ c \in Seq(S) /\ Len(c) = (m - (k + 1)) + 1
        /\ \A n \in 1 .. (m - (k + 1)) + 1 : c[n] = s[((k + 1) + n) - 1]
      BY <2>2, Part
  <2> HIDE DEF c, m
  <2> QED
      BY <2>1, <2>3
<1> HIDE DEF a, c, m
<1>4. /\ a \o c \in Seq(S) /\ Len(a \o c) = m - 1
      /\ \A n \in 1 .. m - 1 : (a \o c)[n] = IF n <= k - 1 THEN a[n] ELSE c[n - (k - 1)]
  <2>1. a \in Seq(S) /\ c \in Seq(S)
      BY <1>2, <1>3
  <2>2. /\ a \o c \in Seq(S) /\ Len(a \o c) = Len(a) + Len(c)
        /\ \A n \in 1 .. Len(a) + Len(c) :
              (a \o c)[n] = IF n <= Len(a) THEN a[n] ELSE c[n - Len(a)]
      BY <2>1, ConcatProperties, Zenon
  <2>3. Len(a) = k - 1 /\ Len(c) = m - k /\ (k - 1) + (m - k) = m - 1
      BY <1>1, <1>2, <1>3
  <2> QED
      BY <2>2, <2>3
<1>5. ASSUME NEW n \in 1 .. m - 1 PROVE (a \o c)[n] = r[n]
  <2>1. n \in Int /\ 1 <= n /\ n <= m - 1
      BY <1>1
  <2>2. CASE n < k
    <3>1. n \in 1 .. k - 1 /\ n <= k - 1
        BY <1>1, <2>1, <2>2
    <3> QED
        BY <1>2, <1>4, <2>2, <3>1
  <2>3. CASE ~(n < k)
    <3>1. n - (k - 1) \in 1 .. m - k /\ k + (n - (k - 1)) = n + 1 /\ ~(n <= k - 1)
        BY <1>1, <2>1, <2>3
    <3> QED
        BY <1>3, <1>4, <2>3, <3>1
  <2> QED
      BY <2>2, <2>3
<1> DEFINE ac == a \o c
<1>6. ac \in Seq(S) /\ Len(ac) = m - 1 /\ m - 1 \in Nat
    BY <1>1, <1>4
<1>7. r = [n \in 1 .. m - 1 |-> r[n]]
    OBVIOUS
<1> HIDE DEF r, ac
<1>8. \A n \in 1 .. m - 1 : ac[n] = r[n]
    BY <1>5 DEF ac
<1>9. ac = r
    BY <1>6, <1>7, <1>8, SameSeq
<1> QED
    BY <1>9 DEF RemoveAt, a, c, m, r, ac
=============================================================================
