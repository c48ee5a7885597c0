-------------------------------- MODULE Facts --------------------------------
(***************************************************************************)
(* Facts about naturals and sequences that proofs of several components    *)
(* cite.                                                                   *)
(***************************************************************************)
EXTENDS Integers, Sequences, SequenceTheorems, FiniteSetTheorems, WellFoundedInduction, TLAPS

(* Every nonempty set of naturals has a least element.                       *)
LEMMA NatMin ==
    ASSUME NEW T, T \subseteq Nat, T # {}
    PROVE  \E x \in T : \A y \in T : x <= y
<1> DEFINE Seg == {0..k : k \in T}
<1>1. Seg # {}
  OBVIOUS
<1>2. Seg \subseteq FiniteSubsetsOf(Nat)
  <2>1. \A k \in T : IsFiniteSet(0..k) /\ 0..k \subseteq Nat
    BY FS_Interval
  <2> QED
    BY <2>1 DEF FiniteSubsetsOf
<1>3. PICK s \in Seg : \A r \in Seg : ~ (<<r, s>> \in StrictSubsetOrdering(Nat))
  <2> HIDE DEF Seg
  <2> QED
    BY <1>1, <1>2, FS_StrictSubsetOrderingWellFounded, WFMin
<1>4. PICK x \in T : s = 0..x
  OBVIOUS
<1>5. ASSUME NEW y \in T, y < x PROVE FALSE
  <2>1. 0..y \subseteq 0..x /\ x \in 0..x /\ x \notin 0..y
    BY <1>5
  <2>2. 0..y \in SUBSET Nat /\ 0..x \in SUBSET Nat
    OBVIOUS
  <2>3. <<0..y, 0..x>> \in StrictSubsetOrdering(Nat)
    BY <2>1, <2>2 DEF StrictSubsetOrdering
  <2> QED
    BY <2>3, <1>3, <1>4
<1> QED
  BY <1>5

(* So has a bounded one a greatest.                                          *)
LEMMA NatMax ==
    ASSUME NEW n \in Nat, NEW T, T \subseteq 0..n, T # {}
    PROVE  \E x \in T : \A y \in T : y <= x
<1> DEFINE Rest == {n - y : y \in T}
<1>1. Rest \subseteq Nat /\ Rest # {}
  OBVIOUS
<1>2. PICK r \in Rest : \A q \in Rest : r <= q
  <2> HIDE DEF Rest
  <2> QED
    BY <1>1, NatMin
<1>3. PICK x \in T : r = n - x
  OBVIOUS
<1>4. ASSUME NEW y \in T PROVE y <= x
  <2>1. n - x <= n - y
    BY <1>2, <1>3
  <2> QED
    BY <2>1
<1> QED
  BY <1>4

-----------------------------------------------------------------------------
(* What is left of a sequence after its first n elements.                    *)
LEMMA Remainder ==
    ASSUME NEW S, NEW s \in Seq(S), NEW n \in 0..Len(s)
    PROVE  LET rest == SubSeq(s, n + 1, Len(s)) IN
           /\ rest \in Seq(S)
           /\ Len(rest) = Len(s) - n
           /\ \A i \in 1..(Len(s) - n) : rest[i] = s[n + i]
<1>1. Len(s) \in Nat /\ \A i \in (n + 1)..Len(s) : s[i] \in S
  BY LenProperties, ElementOfSeq
<1>2. /\ SubSeq(s, n + 1, Len(s)) \in Seq(S)
      /\ Len(SubSeq(s, n + 1, Len(s))) = IF n + 1 <= Len(s) THEN Len(s) - (n + 1) + 1 ELSE 0
      /\ \A i \in 1..(Len(s) - (n + 1) + 1) : SubSeq(s, n + 1, Len(s))[i] = s[(n + 1) + i - 1]
  BY <1>1, SubSeqProperties
<1> QED
  BY <1>1, <1>2

LEMMA Beginning ==
    ASSUME NEW S, NEW s \in Seq(S), NEW n \in 0..Len(s)
    PROVE  /\ SubSeq(s, 1, n) \in Seq(S)
           /\ Len(SubSeq(s, 1, n)) = n
           /\ \A i \in 1..n : SubSeq(s, 1, n)[i] = s[i]
<1>1. Len(s) \in Nat /\ \A i \in 1..n : s[i] \in S
  BY LenProperties, ElementOfSeq
<1> QED
  BY <1>1, SubSeqProperties

(* The two parts together.                                                   *)
LEMMA Parted ==
    ASSUME NEW S, NEW s \in Seq(S), NEW n \in 0..Len(s)
    PROVE  SubSeq(s, 1, n) \o SubSeq(s, n + 1, Len(s)) = s
<1>1. Len(s) \in Nat
  BY LenProperties
<1>2. 1 \in 1..(Len(s) + 1) /\ n \in (1 - 1)..Len(s) /\ Len(s) \in n..Len(s)
  BY <1>1
<1> QED
  BY <1>2, ConcatAdjacentSubSeq, SubSeqFull

LEMMA Associative ==
    ASSUME NEW S
    PROVE  \A u, v, w \in Seq(S) : (u \o v) \o w = u \o (v \o w)
BY ConcatAssociative

LEMMA ConcatAppend ==
    ASSUME NEW S, NEW s \in Seq(S), NEW t \in Seq(S), NEW x \in S
    PROVE  s \o Append(t, x) = Append(s \o t, x)
<1>1. <<x>> \in Seq(S) /\ Append(t, x) = t \o <<x>>
  BY AppendIsConcat
<1>2. s \o t \in Seq(S)
  BY ConcatProperties
<1>3. Append(s \o t, x) = (s \o t) \o <<x>>
  BY <1>2, AppendIsConcat
<1>4. (s \o t) \o <<x>> = s \o (t \o <<x>>)
  BY <1>1, Associative
<1> QED
  BY <1>1, <1>3, <1>4

(* Dropping the first n elements, with another sequence behind or without.   *)
Behind(s, rest, n) ==
    /\ Len(rest) = Len(s) - n
    /\ \A i \in 1..(Len(s) - n) : rest[i] = s[n + i]

LEMMA BehindConcat ==
    ASSUME NEW S, NEW s \in Seq(S), NEW t \in Seq(S), NEW rest \in Seq(S),
           NEW n, n \in 0..Len(s), Behind(s, rest, n)
    PROVE  rest \o t \in Seq(S) /\ Behind(s \o t, rest \o t, n)
<1>1. /\ Len(rest) = Len(s) - n
      /\ \A i \in 1..(Len(s) - n) : rest[i] = s[n + i]
  BY DEF Behind
<1>2. Len(s) \in Nat /\ Len(t) \in Nat
  BY LenProperties
<1>3. /\ rest \o t \in Seq(S) /\ Len(rest \o t) = Len(rest) + Len(t)
      /\ \A i \in 1..(Len(rest) + Len(t)) :
            (rest \o t)[i] = IF i <= Len(rest) THEN rest[i] ELSE t[i - Len(rest)]
  BY <1>1, ConcatProperties
<1>4. /\ Len(s \o t) = Len(s) + Len(t)
      /\ \A i \in 1..(Len(s) + Len(t)) :
            (s \o t)[i] = IF i <= Len(s) THEN s[i] ELSE t[i - Len(s)]
  BY ConcatProperties
<1>5. Len(rest \o t) = Len(s \o t) - n
  BY <1>1, <1>2, <1>3, <1>4
<1>6. ASSUME NEW i \in 1..(Len(s \o t) - n) PROVE (rest \o t)[i] = (s \o t)[n + i]
  <2>1. i \in 1..(Len(rest) + Len(t)) /\ n + i \in 1..(Len(s) + Len(t))
    BY <1>1, <1>2, <1>4
  <2>2. CASE i <= Len(rest)
    <3>1. n + i <= Len(s) /\ i \in 1..(Len(s) - n)
      <4>1. n \in Nat /\ i \in Nat /\ i >= 1 /\ i <= Len(s) - n
        BY <1>1, <1>2, <2>1, <2>2
      <4> QED
        BY <1>2, <4>1
    <3>2. (rest \o t)[i] = rest[i]
      BY <1>3, <2>1, <2>2
    <3>3. (s \o t)[n + i] = s[n + i]
      BY <1>4, <2>1, <3>1
    <3> QED
      BY <1>1, <3>1, <3>2, <3>3
  <2>3. CASE ~(i <= Len(rest))
    <3>1. ~(n + i <= Len(s)) /\ i - Len(rest) = n + i - Len(s)
      BY <1>1, <1>2, <2>1, <2>3
    <3>2. (rest \o t)[i] = t[i - Len(rest)]
      BY <1>3, <2>1, <2>3
    <3>3. (s \o t)[n + i] = t[n + i - Len(s)]
      BY <1>4, <2>1, <3>1
    <3> QED
      BY <3>1, <3>2, <3>3
  <2> QED
    BY <2>2, <2>3
<1> QED
  BY <1>3, <1>5, <1>6 DEF Behind

-----------------------------------------------------------------------------
(* Induction, for a set of naturals.                                         *)
LEMMA NatInd ==
    ASSUME NEW X, 0 \in X, \A k \in Nat : k \in X => k + 1 \in X
    PROVE  Nat \subseteq X
<1> SUFFICES ASSUME Nat \ X # {} PROVE FALSE
  OBVIOUS
<1>1. PICK k \in Nat \ X : \A j \in Nat \ X : k <= j
  BY NatMin
<1>2. k # 0 /\ k - 1 \in Nat /\ ~(k <= k - 1)
  BY <1>1
<1>3. k - 1 \in X
  BY <1>1, <1>2
<1> QED
  BY <1>1, <1>2, <1>3

(* The same, up to a bound.                                                  *)
LEMMA UpTo ==
    ASSUME NEW n \in Nat, NEW X, 0 \in X, \A k \in 0..(n - 1) : k \in X => k + 1 \in X
    PROVE  0..n \subseteq X
<1> DEFINE Y == X \cup {k \in Nat : k > n}
<1>1. 0 \in Y
  OBVIOUS
<1>2. ASSUME NEW k \in Nat, k \in Y PROVE k + 1 \in Y
  BY <1>2
<1>3. Nat \subseteq Y
  <2> HIDE DEF Y
  <2> QED
    BY <1>1, <1>2, NatInd
<1> QED
  BY <1>3

(* A function on the naturals may be defined from each one to the next.      *)
Runs(D, base, step) ==
    \E f \in [Nat -> D] : f[0] = base /\ \A k \in Nat : f[k + 1] = step[<<k, f[k]>>]

(* Such a function exists; so what a definition chooses is one.              *)
LEMMA Recursion ==
    ASSUME NEW D, NEW base, base \in D, NEW step, step \in [Nat \X D -> D]
    PROVE  Runs(D, base, step)
<1> DEFINE Part(n, f) == /\ f \in [0..n -> D] /\ f[0] = base
                         /\ \A k \in 0..(n - 1) : f[k + 1] = step[<<k, f[k]>>]
           Has == {n \in Nat : \E f : Part(n, f)}
           g == [n \in Nat |-> CHOOSE f : Part(n, f)]
           F == [n \in Nat |-> g[n][n]]
<1>1. 0 \in Has
  <2> DEFINE f == [k \in 0..0 |-> base]
  <2>1. Part(0, f)
    OBVIOUS
  <2> HIDE DEF Part
  <2> QED
    BY <2>1
<1>2. ASSUME NEW n \in Nat, n \in Has PROVE n + 1 \in Has
  <2>1. PICK f : Part(n, f)
    BY <1>2
  <2> DEFINE h == [k \in 0..(n + 1) |-> IF k = n + 1 THEN step[<<n, f[n]>>] ELSE f[k]]
  <2>2. f[n] \in D
    BY <2>1
  <2>3. h \in [0..(n + 1) -> D] /\ h[0] = base
    BY <2>1, <2>2
  <2>6. /\ \A j \in 0..n : h[j] = f[j]
        /\ h[n + 1] = step[<<n, f[n]>>]
    <3>1. \A j \in 0..n : j \in 0..(n + 1) /\ j # n + 1
      OBVIOUS
    <3> QED
      BY <3>1
  <2> HIDE DEF h
  <2>4. ASSUME NEW k \in 0..n PROVE h[k + 1] = step[<<k, h[k]>>]
    <3>1. CASE k = n
      BY <2>6, <3>1
    <3>2. CASE k # n
      <4>1. k \in 0..(n - 1) /\ k + 1 \in 0..n
        BY <3>2
      <4>2. f[k + 1] = step[<<k, f[k]>>]
        BY <2>1, <4>1
      <4> QED
        BY <2>6, <4>1, <4>2
    <3> QED
      BY <3>1, <3>2
  <2>5. Part(n + 1, h)
    <3>1. (n + 1) - 1 = n
      OBVIOUS
    <3> QED
      BY <2>3, <2>4, <3>1
  <2> HIDE DEF Part
  <2> QED
    BY <2>5
<1>3. Nat \subseteq Has
  <2> HIDE DEF Has
  <2> QED
    BY <1>1, <1>2, NatInd
<1>4. \A n \in Nat : Part(n, g[n])
  <2> HIDE DEF Part
  <2> QED
    BY <1>3
<1>5. ASSUME NEW n \in Nat PROVE g[n][n] = g[n + 1][n]
  <2> DEFINE a == g[n]
             b == g[n + 1]
             Same == {k \in 0..n : a[k] = b[k]}
  <2>1. Part(n, a) /\ Part(n + 1, b)
    <3>1. n + 1 \in Nat
      OBVIOUS
    <3> HIDE DEF Part, g
    <3> QED
      BY <1>4, <3>1
  <2> HIDE DEF g, a, b
  <2>2. 0 \in Same
    BY <2>1
  <2>3. ASSUME NEW k \in 0..(n - 1), k \in Same PROVE k + 1 \in Same
    <3>1. k \in 0..((n + 1) - 1) /\ k + 1 \in 0..n
      BY <2>3
    <3>2. a[k + 1] = step[<<k, a[k]>>] /\ b[k + 1] = step[<<k, b[k]>>]
      BY <2>1, <3>1
    <3> QED
      BY <2>3, <3>1, <3>2
  <2>4. 0..n \subseteq Same
    <3> HIDE DEF Same
    <3> QED
      BY <2>2, <2>3, UpTo
  <2> QED
    BY <2>4 DEF a, b
<1>6. ASSUME NEW n \in Nat PROVE F[n] \in D /\ F[n + 1] = step[<<n, F[n]>>]
  <2>1. g[n][n] \in D
    <3>1. Part(n, g[n])
      BY <1>4
    <3> HIDE DEF g
    <3> QED
      BY <3>1
  <2>2. g[n + 1][n + 1] = step[<<n, g[n + 1][n]>>]
    <3>1. Part(n + 1, g[n + 1])
      <4>1. n + 1 \in Nat
        OBVIOUS
      <4> HIDE DEF Part, g
      <4> QED
        BY <1>4, <4>1
    <3>2. n \in 0..((n + 1) - 1)
      OBVIOUS
    <3> HIDE DEF g
    <3> QED
      BY <3>1, <3>2
  <2>3. F[n] = g[n][n] /\ F[n + 1] = g[n + 1][n + 1]
    OBVIOUS
  <2> HIDE DEF F, g
  <2> QED
    BY <1>5, <2>1, <2>2, <2>3
<1>7. F[0] = base
  <2>1. Part(0, g[0])
    BY <1>4
  <2> HIDE DEF g
  <2> QED
    BY <2>1
<1>8. F \in [Nat -> D]
  BY <1>6
<1> HIDE DEF F
<1> QED
  BY <1>6, <1>7, <1>8 DEF Runs
=============================================================================
