--------------------------- MODULE ProtocolProofs ---------------------------
(***************************************************************************)
(* Proofs about Protocol for any sizes of a byte, an integer, a message    *)
(* and the sockets: what is written is read back, the bytes between two    *)
(* ends stay in order, the server takes exactly the requests out of them,  *)
(* print_response shows what the writers wrote, and so a client is shown   *)
(* exactly the responses to its requests.                                  *)
(***************************************************************************)
EXTENDS Protocol, Facts

-----------------------------------------------------------------------------
(* FlattenSeq, one sequence after the other.                                 *)
LEMMA FlatIs ==
    ASSUME NEW X, NEW ss, ss \in Seq(Seq(X)), ss # << >>
    PROVE  \E fl \in [1..Len(ss) -> Seq(X)] :
              /\ fl[1] = ss[1]
              /\ \A i \in 1..(Len(ss) - 1) : fl[i + 1] = fl[i] \o ss[i + 1]
              /\ FlattenSeq(ss) = fl[Len(ss)]
<1> DEFINE n == Len(ss)
           Is(f) == f = [i \in 1..n |-> IF i = 1 THEN ss[i] ELSE f[i - 1] \o ss[i]]
           D == Seq(X)
           step == [p \in Nat \X D |-> IF p[1] \in 1..n - 1 THEN p[2] \o ss[p[1] + 1] ELSE p[2]]
<1>1. n \in Nat /\ n > 0 /\ \A i \in 1..n : ss[i] \in D
  BY LenProperties, EmptySeq, ElementOfSeq
<1>2. \E f : Is(f)
  <2>1. step \in [Nat \X D -> D]
    <3>1. ASSUME NEW p \in Nat \X D, p[1] \in 1..n - 1 PROVE p[2] \o ss[p[1] + 1] \in D
      <4>1. p[2] \in D /\ p[1] + 1 \in 1..n
        BY <1>1, <3>1
      <4> QED
        BY <1>1, <4>1, ConcatProperties
    <3> QED
      BY <3>1
  <2> DEFINE start == [p \in Nat \X D |-> IF p[1] = 0 THEN ss[1] ELSE step[p]]
  <2>2. start \in [Nat \X D -> D] /\ << >> \in D
    BY <1>1, <2>1, EmptySeq
  <2> HIDE DEF start, step, D
  <2>3. PICK g \in [Nat -> D] : \A k \in Nat : g[k + 1] = start[<<k, g[k]>>]
    <3>1. Runs(D, << >>, start)
      BY <2>2, Recursion
    <3> QED
      BY <3>1 DEF Runs
  <2> DEFINE f == [i \in 1..n |-> g[i]]
  <2>4. g[1] = ss[1]
    <3>1. g[0 + 1] = start[<<0, g[0]>>] /\ <<0, g[0]>> \in Nat \X D
      BY <2>3
    <3> QED
      BY <3>1 DEF start
  <2>5. ASSUME NEW i \in 1..n, i # 1 PROVE g[i] = g[i - 1] \o ss[i]
    <3>1. i - 1 \in 1..n - 1 /\ i - 1 # 0 /\ (i - 1) + 1 = i /\ i - 1 \in Nat
      BY <1>1, <2>5
    <3> DEFINE j == i - 1
    <3> HIDE DEF j
    <3>2. j \in 1..n - 1 /\ j # 0 /\ j + 1 = i /\ j \in Nat
      BY <3>1 DEF j
    <3>3. <<j, g[j]>> \in Nat \X D
      BY <2>3, <3>2
    <3>4. start[<<j, g[j]>>] = step[<<j, g[j]>>]
      BY <3>2, <3>3 DEF start
    <3>5. step[<<j, g[j]>>] = g[j] \o ss[j + 1]
      BY <3>2, <3>3 DEF step
    <3>6. g[j + 1] = start[<<j, g[j]>>]
      BY <2>3, <3>2
    <3> QED
      BY <3>2, <3>4, <3>5, <3>6 DEF j
  <2>6. Is(f)
    <3>1. ASSUME NEW i \in 1..n, i # 1 PROVE i - 1 \in 1..n
      BY <1>1, <3>1
    <3> QED
      BY <2>4, <2>5, <3>1
  <2> QED
    BY <2>6
<1> DEFINE fl == CHOOSE f : Is(f)
<1>3. Is(fl)
  <2> HIDE DEF Is
  <2> QED
    BY <1>2
<1>4. FlattenSeq(ss) = fl[n]
  BY <1>1 DEF FlattenSeq
<1> HIDE DEF fl
<1>5. /\ fl[1] = ss[1] /\ DOMAIN fl = 1..n /\ fl = [i \in DOMAIN fl |-> fl[i]]
      /\ \A i \in 1..n - 1 : fl[i + 1] = fl[i] \o ss[i + 1]
  <2>1. fl[1] = ss[1] /\ DOMAIN fl = 1..n /\ fl = [i \in DOMAIN fl |-> fl[i]]
    BY <1>1, <1>3
  <2>2. ASSUME NEW i \in 1..n - 1 PROVE fl[i + 1] = fl[i] \o ss[i + 1]
    <3>1. i + 1 \in 1..n /\ i + 1 # 1 /\ (i + 1) - 1 = i
      BY <1>1, <2>2
    <3> DEFINE j == i + 1
    <3> HIDE DEF j
    <3>2. j \in 1..n /\ j # 1 /\ j - 1 = i
      BY <3>1 DEF j
    <3>3. fl[j] = fl[j - 1] \o ss[j]
      BY <1>3, <3>2
    <3> QED
      BY <3>2, <3>3 DEF j
  <2> QED
    BY <2>1, <2>2
<1> DEFINE Good == {i \in 0..n : i = 0 \/ fl[i] \in D}
<1>6. 0..n \subseteq Good
  <2>1. 0 \in Good
    BY <1>1
  <2>2. ASSUME NEW k \in 0..(n - 1), k \in Good PROVE k + 1 \in Good
    <3>1. CASE k = 0
      BY <1>1, <1>5, <3>1
    <3>2. CASE k # 0
      <4>1. k \in 1..n - 1 /\ k + 1 \in 1..n /\ fl[k] \in D
        BY <1>1, <2>2, <3>2
      <4>2. fl[k] \o ss[k + 1] \in D
        BY <1>1, <4>1, ConcatProperties
      <4>3. fl[k + 1] = fl[k] \o ss[k + 1]
        BY <1>5, <4>1
      <4>4. k + 1 \in 0..n
        BY <1>1, <4>1
      <4> QED
        BY <4>2, <4>3, <4>4
    <3> QED
      BY <3>1, <3>2
  <2> HIDE DEF Good
  <2> QED
    BY <1>1, <2>1, <2>2, UpTo
<1>7. fl \in [1..n -> D]
  <2>1. \A i \in 1..n : i \in 0..n /\ i # 0
    BY <1>1
  <2>2. \A i \in 1..n : fl[i] \in D
    BY <1>6, <2>1
  <2> QED
    BY <1>5, <2>2
<1> QED
  BY <1>4, <1>5, <1>7

(* Of none it is none.                                                       *)
LEMMA FlatEmpty == FlattenSeq(<< >>) = << >>
BY EmptySeq DEF FlattenSeq

(* It has the elements of its parts.                                         *)
LEMMA FlatType ==
    ASSUME NEW X, NEW ss, ss \in Seq(Seq(X))
    PROVE  FlattenSeq(ss) \in Seq(X)
<1>1. CASE ss = << >>
  BY <1>1, FlatEmpty, EmptySeq
<1>2. CASE ss # << >>
  <2>1. PICK fl \in [1..Len(ss) -> Seq(X)] : FlattenSeq(ss) = fl[Len(ss)]
    BY <1>2, FlatIs
  <2>2. Len(ss) \in 1..Len(ss)
    BY <1>2, LenProperties, EmptySeq
  <2> QED
    BY <2>1, <2>2
<1> QED
  BY <1>1, <1>2

(* One more at the end is one more behind.                                   *)
LEMMA FlatAppend ==
    ASSUME NEW X, NEW ss, ss \in Seq(Seq(X)), NEW s, s \in Seq(X)
    PROVE  /\ Append(ss, s) \in Seq(Seq(X))
           /\ FlattenSeq(Append(ss, s)) = FlattenSeq(ss) \o s
<1> DEFINE tt == Append(ss, s)
           n == Len(ss)
<1>1. /\ tt \in Seq(Seq(X)) /\ Len(tt) = n + 1 /\ tt[n + 1] = s /\ n \in Nat
      /\ \A i \in 1..n : tt[i] = ss[i]
      /\ tt # << >>
  <2>1. tt \in Seq(Seq(X)) /\ Len(tt) = n + 1 /\ tt[n + 1] = s /\ n \in Nat
        /\ \A i \in 1..n : tt[i] = ss[i]
    BY AppendProperties, LenProperties
  <2> HIDE DEF tt, n
  <2> QED
    BY <2>1, EmptySeq
<1> HIDE DEF tt
<1>2. PICK g \in [1..n + 1 -> Seq(X)] :
              /\ g[1] = tt[1]
              /\ \A i \in 1..n : g[i + 1] = g[i] \o tt[i + 1]
              /\ FlattenSeq(tt) = g[n + 1]
  <2>1. PICK g \in [1..Len(tt) -> Seq(X)] :
              /\ g[1] = tt[1]
              /\ \A i \in 1..(Len(tt) - 1) : g[i + 1] = g[i] \o tt[i + 1]
              /\ FlattenSeq(tt) = g[Len(tt)]
    BY <1>1, FlatIs
  <2> HIDE DEF n
  <2>2. Len(tt) = n + 1 /\ Len(tt) - 1 = n
    BY <1>1
  <2> QED
    BY <2>1, <2>2
<1>3. CASE ss = << >>
  <2>1. n = 0
    BY <1>3, EmptySeq
  <2>2. FlattenSeq(tt) = s
    BY <1>1, <1>2, <2>1
  <2> QED
    BY <1>1, <1>3, <2>2, FlatEmpty, ConcatEmptySeq DEF tt
<1>4. CASE ss # << >>
  <2>0. n > 0
    BY <1>1, <1>4, EmptySeq
  <2> HIDE DEF n
  <2>1. PICK f \in [1..n -> Seq(X)] :
              /\ f[1] = ss[1]
              /\ \A i \in 1..(n - 1) : f[i + 1] = f[i] \o ss[i + 1]
              /\ FlattenSeq(ss) = f[n]
    BY <1>4, FlatIs DEF n
  <2> DEFINE Same == {i \in 0..n : i = 0 \/ f[i] = g[i]}
  <2>2. 0 \in Same
    BY <1>1
  <2>3. ASSUME NEW k \in 0..(n - 1), k \in Same PROVE k + 1 \in Same
    <3>1. CASE k = 0
      BY <1>1, <1>2, <2>0, <2>1, <3>1
    <3>2. CASE k # 0
      <4>1. k \in 1..(n - 1) /\ k \in 1..n /\ k + 1 \in 1..n /\ f[k] = g[k]
        BY <1>1, <2>3, <3>2
      <4>2. f[k + 1] = f[k] \o ss[k + 1] /\ g[k + 1] = g[k] \o tt[k + 1] /\ tt[k + 1] = ss[k + 1]
        BY <1>1, <1>2, <2>1, <4>1
      <4>3. k + 1 \in 0..n
        BY <1>1, <4>1
      <4> QED
        BY <4>1, <4>2, <4>3
    <3> QED
      BY <3>1, <3>2
  <2>4. n \in Same
    <3>1. 0..n \subseteq Same
      <4> HIDE DEF Same
      <4>1. n \in Nat
        BY <1>1
      <4> QED
        BY <2>2, <2>3, <4>1, UpTo
    <3>2. n \in 0..n
      BY <1>1
    <3> QED
      BY <3>1, <3>2
  <2>5. g[n + 1] = g[n] \o tt[n + 1] /\ f[n] = g[n]
    <3>1. n \in 1..n /\ n # 0
      BY <1>1, <2>0
    <3> QED
      BY <1>2, <2>4, <3>1
  <2> QED
    BY <1>1, <1>2, <2>1, <2>5 DEF tt
<1> QED
  BY <1>3, <1>4

-----------------------------------------------------------------------------
(* Integers in bytes: x % Base and x \div Base, digit by digit.               *)
LEMMA Divided ==
    ASSUME NEW x \in Nat
    PROVE  /\ x \div Base \in Nat /\ x % Base \in Byte
           /\ x = (x % Base) + Base * (x \div Base)
<1>1. Base \in Nat /\ Base > 0
  BY ProtocolAssumption
<1> QED
  BY <1>1 DEF Byte

(* For Digit: what is left of a multiple.                                    *)
LEMMA Multiples ==
    ASSUME NEW v \in Nat, NEW q \in Nat, v < q
    PROVE  Base * v + Base <= Base * q
<1>1. Base \in Nat /\ Base > 0
  BY ProtocolAssumption
<1>2. q - v - 1 \in Nat /\ q = v + 1 + (q - v - 1)
  OBVIOUS
<1>3. Base * q = Base * v + Base + Base * (q - v - 1)
  BY <1>1, <1>2
<1>4. Base * (q - v - 1) \in Nat /\ Base * v \in Nat
  BY <1>1, <1>2
<1> QED
  BY <1>1, <1>3, <1>4

(* A digit in front comes off again.                                         *)
LEMMA Digit ==
    ASSUME NEW d \in Byte, NEW v \in Nat
    PROVE  /\ d + Base * v \in Nat
           /\ (d + Base * v) \div Base = v /\ (d + Base * v) % Base = d
<1>1. Base \in Nat /\ Base > 0 /\ d \in Nat /\ d < Base
  BY ProtocolAssumption DEF Byte
<1> DEFINE x == d + Base * v
           q == x \div Base
           r == x % Base
<1>2. x \in Nat /\ Base * v \in Nat
  BY <1>1
<1> HIDE DEF x
<1>3. q \in Nat /\ r \in Byte /\ x = r + Base * q
  BY <1>2, Divided
<1> HIDE DEF q, r
<1>4. Base * q \in Nat /\ Base * v \in Nat /\ r \in Nat /\ r < Base
  BY <1>1, <1>3 DEF Byte
<1>5. r + Base * q = d + Base * v
  BY <1>3 DEF x
<1>6. ~(v < q)
  <2> SUFFICES ASSUME v < q PROVE FALSE
    OBVIOUS
  <2>1. Base * v + Base <= Base * q
    BY <1>3, Multiples
  <2> QED
    BY <1>1, <1>4, <1>5, <2>1
<1>7. ~(q < v)
  <2> SUFFICES ASSUME q < v PROVE FALSE
    OBVIOUS
  <2>1. Base * q + Base <= Base * v
    BY <1>3, Multiples
  <2> QED
    BY <1>1, <1>4, <1>5, <2>1
<1>8. q = v /\ r = d
  <2>1. q = v
    BY <1>3, <1>6, <1>7
  <2> QED
    BY <1>1, <1>4, <1>5, <2>1
<1> QED
  BY <1>2, <1>8 DEF q, r, x

(* Power is what its definition says.                                        *)
LEMMA PowerLaw ==
    /\ Power \in [Nat -> Nat] /\ Power[0] = 1
    /\ \A i \in Nat : Power[i + 1] = Base * Power[i]
<1> DEFINE Is(f) == f = [i \in Nat |-> IF i = 0 THEN 1 ELSE Base * f[i - 1]]
           step == [p \in Nat \X Nat |-> Base * p[2]]
<1>1. \E f : Is(f)
  <2>1. step \in [Nat \X Nat -> Nat]
    BY ProtocolAssumption
  <2> HIDE DEF step
  <2>2. Runs(Nat, 1, step)
    BY <2>1, Recursion
  <2>3. PICK f \in [Nat -> Nat] : f[0] = 1 /\ \A k \in Nat : f[k + 1] = step[<<k, f[k]>>]
    BY <2>2 DEF Runs
  <2>4. ASSUME NEW i \in Nat, i # 0 PROVE f[i] = Base * f[i - 1]
    <3>1. PICK j \in Nat : i = j + 1 /\ i - 1 = j
      <4>1. i - 1 \in Nat /\ i = (i - 1) + 1
        BY <2>4
      <4> QED
        BY <4>1
    <3>2. <<j, f[j]>> \in Nat \X Nat
      BY <2>3
    <3> QED
      BY <2>3, <3>1, <3>2 DEF step
  <2>5. f = [i \in Nat |-> f[i]]
    OBVIOUS
  <2>6. Is(f)
    BY <2>3, <2>4, <2>5
  <2> QED
    BY <2>6
<1>2. Is(Power)
  <2> DEFINE g == CHOOSE f : Is(f)
  <2>1. Power = g
    BY DEF Power
  <2>2. Is(g)
    <3> HIDE DEF Is
    <3> QED
      BY <1>1
  <2> HIDE DEF g
  <2> QED
    BY <2>1, <2>2
<1>3. Power[0] = 1 /\ DOMAIN Power = Nat
  BY <1>2
<1>4. ASSUME NEW i \in Nat PROVE Power[i + 1] = Base * Power[i]
  <2>1. PICK j \in Nat : j = i + 1 /\ j # 0 /\ j - 1 = i
    OBVIOUS
  <2>2. Power[j] = Base * Power[j - 1]
    BY <1>2, <2>1
  <2> QED
    BY <2>1, <2>2
<1> DEFINE Good == {i \in Nat : Power[i] \in Nat}
<1>5. Nat \subseteq Good
  <2>1. 0 \in Good
    BY <1>3
  <2>2. ASSUME NEW k \in Nat, k \in Good PROVE k + 1 \in Good
    <3>1. Base \in Nat /\ Power[k] \in Nat /\ k + 1 \in Nat
      BY <2>2, ProtocolAssumption
    <3>2. Base * Power[k] \in Nat
      BY <3>1
    <3> QED
      BY <1>4, <3>1, <3>2
  <2> HIDE DEF Good
  <2> QED
    BY <2>1, <2>2, NatInd
<1>6. Power = [i \in Nat |-> Power[i]]
  BY <1>2
<1> QED
  BY <1>3, <1>4, <1>5, <1>6

(* The recursive functions inside U32 and Num are what they are meant to be. *)
LEMMA U32Is ==
    ASSUME NEW n \in Nat
    PROVE  \E rest \in [0..Width -> Nat] :
              /\ rest[0] = n
              /\ \A i \in 0..(Width - 1) : rest[i + 1] = rest[i] \div Base
              /\ U32(n) = [i \in 1..Width |-> rest[i - 1] % Base]
<1> DEFINE Is(f) == f = [i \in 0..Width |-> IF i = 0 THEN n ELSE f[i - 1] \div Base]
           step == [p \in Nat \X Nat |-> p[2] \div Base]
           rest == CHOOSE f : Is(f)
<1>0. Width \in Nat /\ Width > 0
  BY ProtocolAssumption
<1>1. \E f \in [0..Width -> Nat] :
         Is(f) /\ f[0] = n /\ \A i \in 0..(Width - 1) : f[i + 1] = f[i] \div Base
  <2>1. step \in [Nat \X Nat -> Nat]
    BY Divided
  <2> HIDE DEF step
  <2>2. Runs(Nat, n, step)
    BY <2>1, Recursion
  <2>3. PICK g \in [Nat -> Nat] : g[0] = n /\ \A k \in Nat : g[k + 1] = step[<<k, g[k]>>]
    BY <2>2 DEF Runs
  <2>4. ASSUME NEW k \in Nat PROVE g[k + 1] = g[k] \div Base
    <3>1. <<k, g[k]>> \in Nat \X Nat
      BY <2>3
    <3> QED
      BY <2>3, <3>1 DEF step
  <2> DEFINE f == [i \in 0..Width |-> g[i]]
  <2>5. f \in [0..Width -> Nat] /\ f[0] = n
    BY <1>0, <2>3
  <2>6. ASSUME NEW i \in 0..(Width - 1) PROVE f[i + 1] = f[i] \div Base
    <3>1. i \in 0..Width /\ i + 1 \in 0..Width /\ i \in Nat
      BY <1>0
    <3> QED
      BY <2>4, <3>1
  <2>7. ASSUME NEW i \in 0..Width, i # 0 PROVE f[i] = f[i - 1] \div Base
    <3>1. PICK j : j = i - 1
      OBVIOUS
    <3>2. j \in 0..(Width - 1) /\ j + 1 = i
      BY <1>0, <2>7, <3>1
    <3> HIDE DEF f
    <3> QED
      BY <2>6, <3>1, <3>2
  <2>8. f = [i \in 0..Width |-> f[i]]
    OBVIOUS
  <2> HIDE DEF f
  <2>9. Is(f)
    BY <2>5, <2>7, <2>8
  <2> HIDE DEF Is
  <2> QED
    BY <2>5, <2>6, <2>9
<1>2. \A f : Is(f) => f = [i \in 0..Width |-> f[i]] /\ f[0] = n
                     /\ \A i \in 0..(Width - 1) : f[i + 1] = f[i] \div Base
  <2> SUFFICES ASSUME NEW f, Is(f)
               PROVE  f = [i \in 0..Width |-> f[i]] /\ f[0] = n
                      /\ \A i \in 0..(Width - 1) : f[i + 1] = f[i] \div Base
    OBVIOUS
  <2>1. f = [i \in 0..Width |-> f[i]] /\ f[0] = n
    BY <1>0
  <2>2. ASSUME NEW i \in 0..(Width - 1) PROVE f[i + 1] = f[i] \div Base
    <3>1. PICK j : j = i + 1
      OBVIOUS
    <3>2. j \in 0..Width /\ j # 0 /\ j - 1 = i
      BY <1>0, <3>1
    <3>3. f[j] = f[j - 1] \div Base
      BY <3>2
    <3> QED
      BY <3>1, <3>2, <3>3
  <2> QED
    BY <2>1, <2>2
<1>3. Is(rest)
  <2> HIDE DEF Is
  <2> QED
    BY <1>1
<1>4. U32(n) = [i \in 1..Width |-> rest[i - 1] % Base]
  BY DEF U32
<1> HIDE DEF rest
<1>5. /\ rest = [i \in 0..Width |-> rest[i]] /\ rest[0] = n
      /\ \A i \in 0..(Width - 1) : rest[i + 1] = rest[i] \div Base
  <2> HIDE DEF Is
  <2> QED
    BY <1>2, <1>3
<1> DEFINE Good == {i \in 0..Width : rest[i] \in Nat}
<1>6. 0..Width \subseteq Good
  <2>1. 0 \in Good
    BY <1>0, <1>5
  <2>2. ASSUME NEW k \in 0..(Width - 1), k \in Good PROVE k + 1 \in Good
    <3>1. k + 1 \in 0..Width /\ rest[k] \in Nat
      BY <1>0, <2>2
    <3> QED
      BY <1>5, <3>1, Divided
  <2> HIDE DEF Good
  <2> QED
    BY <1>0, <2>1, <2>2, UpTo
<1>7. rest \in [0..Width -> Nat]
  <2>1. \A i \in 0..Width : rest[i] \in Nat
    BY <1>6
  <2> QED
    BY <1>5, <2>1
<1> HIDE DEF Is
<1> QED
  BY <1>4, <1>5, <1>7

LEMMA NumIs ==
    ASSUME NEW b, b \in Seq(Byte)
    PROVE  \E num \in [0..Len(b) -> Nat] :
              /\ num[0] = 0
              /\ \A i \in 0..(Len(b) - 1) : num[i + 1] = b[Len(b) - i] + Base * num[i]
              /\ Num(b) = num[Len(b)]
<1> DEFINE n == Len(b)
           Is(f) == f = [i \in 0..Len(b) |->
                           IF i = 0 THEN 0 ELSE b[Len(b) + 1 - i] + Base * f[i - 1]]
           step == [p \in Nat \X Nat |-> IF p[1] < n THEN b[n - p[1]] + Base * p[2] ELSE 0]
           num == CHOOSE f : Is(f)
<1>0. n \in Nat /\ \A i \in 1..n : b[i] \in Byte
  BY LenProperties, ElementOfSeq
<1>1. \E f : Is(f)
  <2>1. step \in [Nat \X Nat -> Nat]
    <3>1. ASSUME NEW p \in Nat \X Nat, p[1] < n PROVE b[n - p[1]] + Base * p[2] \in Nat
      <4>1. n - p[1] \in 1..n /\ p[2] \in Nat
        BY <1>0, <3>1
      <4> HIDE DEF n
      <4> QED
        BY <1>0, <4>1, Digit
    <3> HIDE DEF n
    <3> QED
      BY <3>1
  <2> HIDE DEF step
  <2>2. Runs(Nat, 0, step)
    BY <2>1, Recursion
  <2>3. PICK g \in [Nat -> Nat] : g[0] = 0 /\ \A k \in Nat : g[k + 1] = step[<<k, g[k]>>]
    BY <2>2 DEF Runs
  <2> DEFINE f == [i \in 0..n |-> g[i]]
  <2>4. ASSUME NEW i \in 0..n, i # 0 PROVE g[i] = b[n + 1 - i] + Base * g[i - 1]
    <3>1. PICK j : j = i - 1
      OBVIOUS
    <3> HIDE DEF n
    <3>2. j \in Nat /\ j < n /\ j + 1 = i /\ n - j = n + 1 - i
      BY <1>0, <2>4, <3>1
    <3>3. <<j, g[j]>> \in Nat \X Nat
      BY <2>3, <3>2
    <3>4. step[<<j, g[j]>>] = b[n - j] + Base * g[j]
      BY <3>2, <3>3 DEF step
    <3> QED
      BY <2>3, <3>1, <3>2, <3>4
  <2>5. Is(f)
    <3>1. ASSUME NEW i \in 0..n, i # 0 PROVE i - 1 \in 0..n
      BY <1>0, <3>1
    <3>2. 0 \in 0..n
      BY <1>0
    <3> QED
      BY <2>3, <2>4, <3>1, <3>2
  <2> QED
    BY <2>5
<1>3. Is(num)
  <2> HIDE DEF Is
  <2> QED
    BY <1>1
<1>4. Num(b) = num[n]
  BY DEF Num
<1> HIDE DEF num
<1>5. /\ num = [i \in 0..n |-> num[i]] /\ num[0] = 0
  BY <1>0, <1>3
<1>6. \A i \in 0..(n - 1) : num[i + 1] = b[n - i] + Base * num[i]
  <2> SUFFICES ASSUME NEW i \in 0..(n - 1) PROVE num[i + 1] = b[n - i] + Base * num[i]
    OBVIOUS
  <2>1. PICK j : j = i + 1
    OBVIOUS
  <2>2. j \in 0..n /\ j # 0 /\ j - 1 = i /\ n + 1 - j = n - i
    <3> HIDE DEF n
    <3> QED
      BY <1>0, <2>1
  <2>3. num[j] = b[n + 1 - j] + Base * num[j - 1]
    BY <1>3, <2>2
  <2> HIDE DEF n
  <2> QED
    BY <2>1, <2>2, <2>3
<1> DEFINE Good == {i \in 0..n : num[i] \in Nat}
<1>7. 0..n \subseteq Good
  <2> HIDE DEF n
  <2>1. 0 \in Good
    BY <1>0, <1>5
  <2>2. ASSUME NEW k \in 0..(n - 1), k \in Good PROVE k + 1 \in Good
    <3>1. k + 1 \in 0..n /\ num[k] \in Nat /\ n - k \in 1..n
      BY <1>0, <2>2
    <3>2. b[n - k] + Base * num[k] \in Nat
      BY <1>0, <3>1, Digit
    <3> QED
      BY <1>6, <3>1, <3>2
  <2> HIDE DEF Good
  <2> QED
    BY <1>0, <2>1, <2>2, UpTo
<1>8. num \in [0..n -> Nat]
  <2>1. \A i \in 0..n : num[i] \in Nat
    BY <1>7
  <2> HIDE DEF n
  <2> QED
    BY <1>5, <2>1
<1> HIDE DEF Is
<1> QED
  BY <1>4, <1>5, <1>6, <1>8

(* buf_append_u32 and read_u32 are each other's inverse.                     *)
LEMMA U32Type ==
    ASSUME NEW n \in Nat
    PROVE  U32(n) \in Seq(Byte) /\ Len(U32(n)) = Width /\ Width \in Nat /\ Width > 0
<1>0. Width \in Nat /\ Width > 0
  BY ProtocolAssumption
<1>1. PICK rest \in [0..Width -> Nat] : U32(n) = [i \in 1..Width |-> rest[i - 1] % Base]
  BY U32Is
<1>2. ASSUME NEW i \in 1..Width PROVE rest[i - 1] % Base \in Byte
  <2>1. i - 1 \in 0..Width
    BY <1>0
  <2> QED
    BY <2>1, Divided
<1> QED
  BY <1>0, <1>1, <1>2, IsASeq

LEMMA U32Num ==
    ASSUME NEW b, b \in Seq(Byte), Len(b) = Width
    PROVE  Num(b) \in Nat /\ U32(Num(b)) = b
<1>0. Width \in Nat /\ Width > 0 /\ \A i \in 1..Width : b[i] \in Byte
  BY ProtocolAssumption, ElementOfSeq
<1>1. PICK num \in [0..Width -> Nat] :
              /\ \A i \in 0..(Width - 1) : num[i + 1] = b[Width - i] + Base * num[i]
              /\ Num(b) = num[Width]
  BY NumIs
<1>2. Num(b) \in Nat
  BY <1>0, <1>1
<1>3. PICK rest \in [0..Width -> Nat] :
              /\ rest[0] = Num(b)
              /\ \A i \in 0..(Width - 1) : rest[i + 1] = rest[i] \div Base
              /\ U32(Num(b)) = [i \in 1..Width |-> rest[i - 1] % Base]
  BY <1>2, U32Is
<1>4. ASSUME NEW i \in 0..(Width - 1)
      PROVE  num[Width - i] \div Base = num[Width - (i + 1)] /\ num[Width - i] % Base = b[i + 1]
  <2>1. PICK j : j = Width - (i + 1)
    OBVIOUS
  <2>2. j \in 0..(Width - 1) /\ j \in 0..Width /\ j + 1 = Width - i /\ Width - j = i + 1
        /\ i + 1 \in 1..Width
    BY <1>0, <2>1
  <2>3. num[j + 1] = b[i + 1] + Base * num[j]
    BY <1>1, <2>2
  <2>4. b[i + 1] \in Byte /\ num[j] \in Nat
    BY <1>0, <1>1, <2>2
  <2> QED
    BY <2>1, <2>2, <2>3, <2>4, Digit
<1> DEFINE Good == {i \in 0..Width : rest[i] = num[Width - i]}
<1>5. 0..Width \subseteq Good
  <2>1. 0 \in Good
    BY <1>0, <1>1, <1>3
  <2>2. ASSUME NEW k \in 0..(Width - 1), k \in Good PROVE k + 1 \in Good
    <3>1. k + 1 \in 0..Width
      BY <1>0
    <3>2. rest[k] = num[Width - k]
      BY <2>2
    <3> QED
      BY <1>3, <1>4, <3>1, <3>2
  <2> HIDE DEF Good
  <2> QED
    BY <1>0, <2>1, <2>2, UpTo
<1>6. ASSUME NEW i \in 1..Width PROVE rest[i - 1] % Base = b[i]
  <2>1. PICK j : j = i - 1
    OBVIOUS
  <2>2. j \in 0..(Width - 1) /\ j \in 0..Width /\ j + 1 = i
    BY <1>0, <2>1
  <2> QED
    BY <1>4, <1>5, <2>1, <2>2
<1>7. U32(Num(b)) = [i \in 1..Width |-> b[i]]
  BY <1>3, <1>6
<1>8. b = [i \in 1..Width |-> b[i]]
  BY LenProperties
<1> QED
  BY <1>2, <1>7, <1>8

(* A number that fits stays below the bound when a digit is taken off.       *)
LEMMA Below ==
    ASSUME NEW x \in Nat, NEW p \in Nat, x < Base * p
    PROVE  x \div Base < p
<1>1. Base \in Nat /\ Base > 0
  BY ProtocolAssumption
<1> DEFINE q == x \div Base
<1>2. q \in Nat /\ x % Base \in Nat /\ x = (x % Base) + Base * q
  BY <1>1, Divided DEF Byte
<1> HIDE DEF q
<1>3. Base * q \in Nat /\ Base * p \in Nat /\ Base * q <= x
  BY <1>1, <1>2
<1>4. ~(p < q)
  <2> SUFFICES ASSUME p < q PROVE FALSE
    OBVIOUS
  <2>1. Base * p + Base <= Base * q
    BY <1>2, Multiples
  <2> QED
    BY <1>1, <1>3, <2>1
<1>5. p # q
  BY <1>3
<1> QED
  BY <1>2, <1>4, <1>5 DEF q

(* A number below Power[Width] is read as it was written.                    *)
LEMMA NumU32 ==
    ASSUME NEW n \in Nat, n < Power[Width]
    PROVE  Num(U32(n)) = n
<1> DEFINE b == U32(n)
<1>0. /\ Width \in Nat /\ Width > 0 /\ b \in Seq(Byte) /\ Len(b) = Width
      /\ \A k \in Nat : Power[k] \in Nat /\ Power[k + 1] = Base * Power[k]
      /\ Power[0] = 1
  BY U32Type, PowerLaw
<1>1. PICK rest \in [0..Width -> Nat] :
              /\ rest[0] = n
              /\ \A i \in 0..(Width - 1) : rest[i + 1] = rest[i] \div Base
              /\ b = [i \in 1..Width |-> rest[i - 1] % Base]
  BY U32Is
<1> HIDE DEF b
<1>2. PICK num \in [0..Width -> Nat] :
              /\ num[0] = 0
              /\ \A i \in 0..(Width - 1) : num[i + 1] = b[Width - i] + Base * num[i]
              /\ Num(b) = num[Width]
  BY <1>0, NumIs
<1> DEFINE Small == {i \in 0..Width : rest[i] < Power[Width - i]}
<1>3. 0..Width \subseteq Small
  <2>1. 0 \in Small
    <3>1. 0 \in 0..Width /\ Width - 0 = Width
      BY <1>0
    <3> QED
      BY <1>1, <3>1
  <2>2. ASSUME NEW k \in 0..(Width - 1), k \in Small PROVE k + 1 \in Small
    <3>1. PICK j : j = Width - (k + 1)
      OBVIOUS
    <3>2. k \in 0..Width /\ k + 1 \in 0..Width /\ j \in Nat /\ Width - k = j + 1
      BY <1>0, <3>1
    <3>3. rest[k] < Base * Power[j] /\ rest[k] \in Nat /\ Power[j] \in Nat
      BY <1>0, <1>1, <2>2, <3>2
    <3>4. rest[k] \div Base < Power[j]
      BY <3>3, Below
    <3> QED
      BY <1>1, <3>1, <3>2, <3>4
  <2> HIDE DEF Small
  <2> QED
    BY <1>0, <2>1, <2>2, UpTo
<1>4. rest[Width] = 0
  <2>1. Width \in 0..Width /\ Width - Width = 0
    BY <1>0
  <2>2. rest[Width] < 1 /\ rest[Width] \in Nat
    BY <1>0, <1>1, <1>3, <2>1
  <2> QED
    BY <2>2
<1> DEFINE Good == {i \in 0..Width : num[i] = rest[Width - i]}
<1>5. 0..Width \subseteq Good
  <2>1. 0 \in Good
    BY <1>0, <1>2, <1>4
  <2>2. ASSUME NEW k \in 0..(Width - 1), k \in Good PROVE k + 1 \in Good
    <3>1. PICK j : j = Width - (k + 1)
      OBVIOUS
    <3>2. /\ k + 1 \in 0..Width /\ j \in 0..(Width - 1) /\ j \in 0..Width
          /\ Width - k = j + 1 /\ j + 1 \in 1..Width /\ (j + 1) - 1 = j
      BY <1>0, <3>1
    <3>3. num[k] = rest[j + 1] /\ rest[j + 1] = rest[j] \div Base /\ rest[j] \in Nat
      BY <1>1, <2>2, <3>2
    <3>4. b[Width - k] = rest[j] % Base
      BY <1>1, <3>2
    <3>5. rest[j] = (rest[j] % Base) + Base * (rest[j] \div Base)
      BY <3>3, Divided
    <3>6. num[k + 1] = b[Width - k] + Base * num[k]
      BY <1>2
    <3> QED
      BY <3>1, <3>2, <3>3, <3>4, <3>5, <3>6
  <2> HIDE DEF Good
  <2> QED
    BY <1>0, <2>1, <2>2, UpTo
<1>6. num[Width] = rest[0]
  <2>1. Width \in 0..Width /\ Width - Width = 0
    BY <1>0
  <2> QED
    BY <1>5, <2>1
<1> QED
  BY <1>1, <1>2, <1>6 DEF b

(* The parts of a sequence put together from three.                          *)
LEMMA Middle ==
    ASSUME NEW X, NEW u \in Seq(X), NEW v \in Seq(X), NEW w \in Seq(X)
    PROVE  LET data == (u \o v) \o w IN
           /\ data \in Seq(X) /\ Len(data) = Len(u) + Len(v) + Len(w)
           /\ Len(u) \in Nat /\ Len(v) \in Nat /\ Len(w) \in Nat
           /\ SubSeq(data, Len(u) + 1, Len(u) + Len(v)) = v
<1> DEFINE data == (u \o v) \o w
           s == SubSeq(data, Len(u) + 1, Len(u) + Len(v))
<1>1. /\ Len(u) \in Nat /\ Len(v) \in Nat /\ Len(w) \in Nat
  BY LenProperties
<1>2. /\ u \o v \in Seq(X) /\ Len(u \o v) = Len(u) + Len(v)
      /\ \A i \in 1..(Len(u) + Len(v)) : (u \o v)[i] = IF i <= Len(u) THEN u[i] ELSE v[i - Len(u)]
  BY ConcatProperties
<1>3. /\ data \in Seq(X) /\ Len(data) = Len(u) + Len(v) + Len(w)
      /\ \A i \in 1..(Len(u) + Len(v)) : data[i] = (u \o v)[i]
  <2>1. /\ data \in Seq(X) /\ Len(data) = Len(u \o v) + Len(w)
        /\ \A i \in 1..(Len(u \o v) + Len(w)) :
              data[i] = IF i <= Len(u \o v) THEN (u \o v)[i] ELSE w[i - Len(u \o v)]
    BY <1>2, ConcatProperties
  <2> HIDE DEF data
  <2> QED
    BY <1>1, <1>2, <2>1
<1> HIDE DEF data
<1>4. ASSUME NEW i \in (Len(u) + 1)..(Len(u) + Len(v)) PROVE data[i] \in X
  <2>1. i \in 1..Len(data)
    BY <1>1, <1>3
  <2> QED
    BY <1>3, <2>1, ElementOfSeq
<1>5. /\ s \in Seq(X) /\ Len(s) = Len(v)
      /\ \A i \in 1..Len(v) : s[i] = data[Len(u) + i]
  <2>1. Len(u) + 1 \in Int /\ Len(u) + Len(v) \in Int
    BY <1>1
  <2>2. /\ s \in Seq(X)
        /\ Len(s) = IF Len(u) + 1 <= Len(u) + Len(v) THEN Len(u) + Len(v) - (Len(u) + 1) + 1 ELSE 0
        /\ \A i \in 1..(Len(u) + Len(v) - (Len(u) + 1) + 1) : s[i] = data[(Len(u) + 1) + i - 1]
    BY <1>4, <2>1, SubSeqProperties
  <2> HIDE DEF s
  <2> QED
    BY <1>1, <2>2
<1> HIDE DEF s
<1>6. ASSUME NEW i \in 1..Len(v) PROVE s[i] = v[i]
  <2>1. PICK j : j = Len(u) + i
    OBVIOUS
  <2>2. j \in 1..(Len(u) + Len(v)) /\ ~(j <= Len(u)) /\ j - Len(u) = i
    BY <1>1, <2>1
  <2>3. s[i] = data[j] /\ data[j] = (u \o v)[j] /\ (u \o v)[j] = v[j - Len(u)]
    BY <1>2, <1>3, <1>5, <2>1, <2>2
  <2> QED
    BY <2>2, <2>3
<1>7. s = v
  BY <1>5, <1>6, SeqEqual
<1> QED
  BY <1>1, <1>3, <1>7 DEF data, s

(* ... and from two.                                                         *)
LEMMA First ==
    ASSUME NEW X, NEW u \in Seq(X), NEW w \in Seq(X)
    PROVE  /\ u \o w \in Seq(X) /\ Len(u \o w) = Len(u) + Len(w)
           /\ Len(u) \in Nat /\ Len(w) \in Nat
           /\ SubSeq(u \o w, 1, Len(u)) = u
           /\ SubSeq(u \o w, Len(u) + 1, Len(u \o w)) = w
<1>1. << >> \in Seq(X) /\ Len(<< >>) = 0 /\ << >> \o u = u /\ (u \o w) \o << >> = u \o w
      /\ u \o w \in Seq(X) /\ Len(u) \in Nat /\ Len(w) \in Nat /\ Len(u \o w) = Len(u) + Len(w)
  BY EmptySeq, ConcatEmptySeq, ConcatProperties, LenProperties
<1>2. SubSeq((<< >> \o u) \o w, Len(<< >>) + 1, Len(<< >>) + Len(u)) = u
  BY <1>1, Middle
<1>3. SubSeq((u \o w) \o << >>, Len(u) + 1, Len(u) + Len(w)) = w
  BY <1>1, Middle
<1>4. 0 + 1 = 1 /\ 0 + Len(u) = Len(u)
  BY <1>1
<1> QED
  BY <1>1, <1>2, <1>3, <1>4

-----------------------------------------------------------------------------
(* The sequences before one of a flattened sequence, that one, and the rest. *)
LEMMA FlatParts ==
    ASSUME NEW X, NEW ss, ss \in Seq(Seq(X)), NEW k \in 0..Len(ss)
    PROVE  \E rest \in Seq(X) : FlattenSeq(ss) = FlattenSeq(SubSeq(ss, 1, k)) \o rest
<1> DEFINE n == Len(ss)
           f(j) == FlattenSeq(SubSeq(ss, 1, j))
           Good == {j \in 0..n : \E rest \in Seq(X) : FlattenSeq(ss) = f(n - j) \o rest}
<1>1. n \in Nat /\ FlattenSeq(ss) \in Seq(X) /\ SubSeq(ss, 1, n) = ss /\ << >> \in Seq(X)
  BY LenProperties, FlatType, SubSeqFull, EmptySeq
<1>2. 0 \in Good
  <2>1. f(n - 0) = FlattenSeq(ss) /\ FlattenSeq(ss) \o << >> = FlattenSeq(ss)
    <3>1. n - 0 = n
      BY <1>1
    <3> QED
      BY <1>1, <3>1, ConcatEmptySeq
  <2>2. 0 \in 0..n
    BY <1>1
  <2>3. \E rest \in Seq(X) : FlattenSeq(ss) = f(n - 0) \o rest
    <3> DEFINE a == f(n - 0)
    <3>1. FlattenSeq(ss) = a \o << >>
      BY <2>1
    <3> HIDE DEF a
    <3>2. \E rest \in Seq(X) : FlattenSeq(ss) = a \o rest
      BY <1>1, <3>1
    <3> QED
      BY <3>2 DEF a
  <2> QED
    BY <2>2, <2>3
<1>3. ASSUME NEW j \in 0..(n - 1), j \in Good PROVE j + 1 \in Good
  <2> DEFINE i == n - j
  <2>1. i \in 1..n /\ n - (j + 1) = i - 1 /\ i - 1 \in 0..n /\ j + 1 \in 0..n
    <3> HIDE DEF n
    <3> QED
      BY <1>1
  <2>2. PICK rest \in Seq(X) : FlattenSeq(ss) = f(i) \o rest
    BY <1>3
  <2>3. f(i) = f(i - 1) \o ss[i] /\ f(i - 1) \in Seq(X) /\ ss[i] \in Seq(X)
    <3> HIDE DEF i
    <3>1. SubSeq(ss, 1, i - 1) \in Seq(Seq(X)) /\ ss[i] \in Seq(X)
      BY <2>1, Beginning, ElementOfSeq
    <3>2. SubSeq(ss, 1, i) = Append(SubSeq(ss, 1, i - 1), ss[i])
      <4>1. 1 \in 1..Len(ss) /\ i \in 1..Len(ss)
        BY <1>1, <2>1
      <4>2. SubSeq(ss, 1, i) = SubSeq(ss, 1, i - 1) \o <<ss[i]>>
        BY <4>1, SubSeqRecursiveSecond
      <4> QED
        BY <3>1, <4>2, AppendIsConcat
    <3> QED
      BY <3>1, <3>2, FlatAppend, FlatType
  <2> HIDE DEF f, i, n
  <2>4. ss[i] \o rest \in Seq(X) /\ FlattenSeq(ss) = f(i - 1) \o (ss[i] \o rest)
    <3>1. ss[i] \o rest \in Seq(X)
      BY <2>3, ConcatProperties
    <3>2. (f(i - 1) \o ss[i]) \o rest = f(i - 1) \o (ss[i] \o rest)
      <4> DEFINE a == f(i - 1)
                 b == ss[i]
      <4>1. a \in Seq(X) /\ b \in Seq(X)
        BY <2>3
      <4> HIDE DEF a, b
      <4>2. (a \o b) \o rest = a \o (b \o rest)
        BY <4>1, Associative
      <4> QED
        BY <4>2 DEF a, b
    <3> QED
      BY <2>2, <2>3, <3>1, <3>2
  <2> QED
    BY <2>1, <2>4
<1>4. 0..n \subseteq Good
  <2> HIDE DEF Good, n
  <2> QED
    BY <1>1, <1>2, <1>3, UpTo
<1>5. n - k \in 0..n /\ n - (n - k) = k
  BY <1>1
<1>6. PICK rest \in Seq(X) : FlattenSeq(ss) = f(n - (n - k)) \o rest
  <2> HIDE DEF f, n
  <2> QED
    BY <1>4, <1>5
<1> QED
  BY <1>5, <1>6

(* What stands behind the first k strings begins with the next one.          *)
LEMMA FlatNext ==
    ASSUME NEW X, NEW ss, ss \in Seq(Seq(X)), NEW k \in 0..(Len(ss) - 1)
    PROVE  /\ SubSeq(ss, 1, k) \in Seq(Seq(X)) /\ ss[k + 1] \in Seq(X)
           /\ SubSeq(ss, 1, k + 1) = Append(SubSeq(ss, 1, k), ss[k + 1])
           /\ FlattenSeq(SubSeq(ss, 1, k)) \in Seq(X)
           /\ FlattenSeq(SubSeq(ss, 1, k + 1)) = FlattenSeq(SubSeq(ss, 1, k)) \o ss[k + 1]
<1>1. Len(ss) \in Nat /\ k + 1 \in 1..Len(ss) /\ 1 \in 1..Len(ss) /\ k \in 0..Len(ss)
  BY LenProperties
<1>2. SubSeq(ss, 1, k) \in Seq(Seq(X)) /\ ss[k + 1] \in Seq(X)
  BY <1>1, Beginning, ElementOfSeq
<1>3. SubSeq(ss, 1, k + 1) = Append(SubSeq(ss, 1, k), ss[k + 1])
  <2> DEFINE i == k + 1
  <2>1. i - 1 = k /\ i \in 1..Len(ss)
    BY <1>1
  <2> HIDE DEF i
  <2>2. SubSeq(ss, 1, i) = SubSeq(ss, 1, i - 1) \o <<ss[i]>>
    BY <1>1, <2>1, SubSeqRecursiveSecond
  <2>3. i = k + 1
    BY DEF i
  <2> QED
    BY <1>2, <2>1, <2>2, <2>3, AppendIsConcat
<1> QED
  BY <1>2, <1>3, FlatAppend, FlatType

(* A string on the wire.                                                     *)
LEMMA StrType ==
    ASSUME NEW s \in Seq(Byte)
    PROVE  /\ Str(s) \in Seq(Byte) /\ Len(Str(s)) = Width + Len(s) /\ Len(s) \in Nat
           /\ U32(Len(s)) \in Seq(Byte) /\ Len(U32(Len(s))) = Width
<1>1. Len(s) \in Nat
  BY LenProperties
<1> QED
  <2> DEFINE u == U32(Len(s))
  <2>1. u \in Seq(Byte) /\ Len(u) = Width
    BY <1>1, U32Type
  <2> HIDE DEF u
  <2>2. u \o s \in Seq(Byte) /\ Len(u \o s) = Len(u) + Len(s)
    BY <2>1, ConcatProperties
  <2> QED
    BY <1>1, <2>1, <2>2 DEF Str, u

Strs(cmd) == [i \in DOMAIN cmd |-> Str(cmd[i])]

LEMMA StrsType ==
    ASSUME NEW cmd \in Cmds
    PROVE  /\ Strs(cmd) \in Seq(Seq(Byte)) /\ Len(Strs(cmd)) = Len(cmd)
           /\ Len(cmd) \in Nat /\ DOMAIN cmd = 1..Len(cmd)
           /\ \A i \in 1..Len(cmd) : cmd[i] \in Seq(Byte) /\ Strs(cmd)[i] = Str(cmd[i])
<1>1. Len(cmd) \in Nat /\ DOMAIN cmd = 1..Len(cmd) /\ \A i \in 1..Len(cmd) : cmd[i] \in Seq(Byte)
  BY LenProperties, ElementOfSeq DEF Cmds
<1>2. \A i \in 1..Len(cmd) : Str(cmd[i]) \in Seq(Byte)
  BY <1>1, StrType
<1>3. Strs(cmd) = [i \in 1..Len(cmd) |-> Str(cmd[i])]
  BY <1>1 DEF Strs
<1>4. Strs(cmd) \in Seq(Seq(Byte)) /\ Len(Strs(cmd)) = Len(cmd)
  <2> DEFINE n == Len(cmd)
             g == [i \in 1..n |-> Str(cmd[i])]
  <2>1. n \in Nat /\ g \in [1..n -> Seq(Byte)]
    BY <1>1, <1>2
  <2>2. Strs(cmd) = g
    BY <1>3
  <2> HIDE DEF g, n
  <2>3. g \in Seq(Seq(Byte)) /\ Len(g) = n
    BY <2>1
  <2> QED
    BY <2>2, <2>3 DEF n
<1> QED
  BY <1>1, <1>3, <1>4

LEMMA StrsAppend ==
    ASSUME NEW cmd \in Cmds, NEW s \in Seq(Byte)
    PROVE  /\ Append(cmd, s) \in Cmds /\ Len(Append(cmd, s)) = Len(cmd) + 1
           /\ Strs(Append(cmd, s)) = Append(Strs(cmd), Str(s))
<1> DEFINE n == Len(cmd)
           tt == Append(cmd, s)
           a == Strs(tt)
           b == Append(Strs(cmd), Str(s))
<1>1. /\ tt \in Cmds /\ Len(tt) = n + 1 /\ n \in Nat /\ tt[n + 1] = s
      /\ \A i \in 1..n : tt[i] = cmd[i]
  BY AppendProperties, LenProperties DEF Cmds
<1> HIDE DEF tt
<1>2. /\ a \in Seq(Seq(Byte)) /\ Len(a) = n + 1
      /\ \A i \in 1..(n + 1) : a[i] = Str(tt[i])
  <2>1. /\ Strs(tt) \in Seq(Seq(Byte)) /\ Len(Strs(tt)) = Len(tt)
        /\ \A i \in 1..Len(tt) : Strs(tt)[i] = Str(tt[i])
    BY <1>1, StrsType
  <2> QED
    BY <1>1, <2>1
<1>3. /\ b \in Seq(Seq(Byte)) /\ Len(b) = n + 1 /\ b[n + 1] = Str(s)
      /\ \A i \in 1..n : b[i] = Str(cmd[i])
  <2>1. /\ Strs(cmd) \in Seq(Seq(Byte)) /\ Len(Strs(cmd)) = n /\ Str(s) \in Seq(Byte)
        /\ \A i \in 1..n : Strs(cmd)[i] = Str(cmd[i])
    BY StrsType, StrType
  <2> HIDE DEF n
  <2> QED
    BY <2>1, AppendProperties
<1> HIDE DEF a, b
<1>4. ASSUME NEW i \in 1..(n + 1) PROVE a[i] = b[i]
  <2>1. i \in 1..n \/ i = n + 1
    <3> HIDE DEF n
    <3> QED
      BY <1>1
  <2> HIDE DEF n
  <2> QED
    BY <1>1, <1>2, <1>3, <2>1
<1>5. a = b
  BY <1>2, <1>3, <1>4, SeqEqual
<1> QED
  BY <1>1, <1>5 DEF a, b, tt

(* What send_req writes.                                                     *)
LEMMA BodyIs ==
    ASSUME NEW cmd \in Cmds
    PROVE  /\ RequestBody(cmd) = U32(Len(cmd)) \o FlattenSeq(Strs(cmd))
           /\ RequestBody(cmd) \in Seq(Byte)
           /\ Len(RequestBody(cmd)) = Width + Len(FlattenSeq(Strs(cmd)))
           /\ FlattenSeq(Strs(cmd)) \in Seq(Byte) /\ Len(FlattenSeq(Strs(cmd))) \in Nat
           /\ U32(Len(cmd)) \in Seq(Byte) /\ Len(U32(Len(cmd))) = Width
<1>1. /\ U32(Len(cmd)) \in Seq(Byte) /\ Len(U32(Len(cmd))) = Width
      /\ FlattenSeq(Strs(cmd)) \in Seq(Byte)
  BY StrsType, U32Type, FlatType
<1>2. RequestBody(cmd) = U32(Len(cmd)) \o FlattenSeq(Strs(cmd))
  BY DEF RequestBody, Strs
<1> QED
  BY <1>1, <1>2, ConcatProperties, LenProperties

-----------------------------------------------------------------------------
Read == [cur : Nat, out : Cmds]

(* NULL is none of what is read.                                             *)
LEMMA NullApart ==
    /\ NULL \notin Nat /\ NULL \notin Seq(Byte) /\ NULL \notin Cmds
    /\ NULL \notin Conns /\ NULL \notin Read /\ NULL \notin [val : Values, size : Nat]
BY ProtocolAssumption DEF Read

(* read_u32 and read_str in the middle of a buffer.                          *)
LEMMA U32Read ==
    ASSUME NEW data \in Seq(Byte), NEW cur \in Nat
    PROVE  /\ read_u32(data, cur) = NULL \/ read_u32(data, cur) \in Nat
           /\ cur + Width > Len(data) => read_u32(data, cur) = NULL
           /\ cur + Width <= Len(data) =>
                /\ read_u32(data, cur) = Num(SubSeq(data, cur + 1, cur + Width))
                /\ SubSeq(data, cur + 1, cur + Width) \in Seq(Byte)
                /\ U32(read_u32(data, cur)) = SubSeq(data, cur + 1, cur + Width)
                /\ read_u32(data, cur) \in Nat
<1>1. Len(data) \in Nat /\ Width \in Nat /\ Width > 0
  BY LenProperties, ProtocolAssumption
<1>2. CASE cur + Width <= Len(data)
  <2>1. \A i \in (cur + 1)..(cur + Width) : data[i] \in Byte
    <3>1. \A i \in (cur + 1)..(cur + Width) : i \in 1..Len(data)
      BY <1>1, <1>2
    <3> QED
      BY <3>1, ElementOfSeq
  <2> DEFINE s == SubSeq(data, cur + 1, cur + Width)
  <2>2. s \in Seq(Byte) /\ Len(s) = Width
    <3>1. s \in Seq(Byte) /\ Len(s) = Width
      <4> DEFINE m == cur + 1
                 w == cur + Width
      <4>1. m \in Int /\ w \in Int /\ \A i \in m..w : data[i] \in Byte
        BY <1>1, <2>1
      <4> HIDE DEF m, w
      <4>2. /\ SubSeq(data, m, w) \in Seq(Byte)
            /\ Len(SubSeq(data, m, w)) = IF m <= w THEN w - m + 1 ELSE 0
        BY <4>1, SubSeqProperties
      <4>3. s = SubSeq(data, m, w)
        BY DEF m, w
      <4> HIDE DEF s
      <4>4. m <= w /\ w - m + 1 = Width
        BY <1>1 DEF m, w
      <4> QED
        BY <4>2, <4>3, <4>4
    <3> HIDE DEF s
    <3> QED
      BY <1>1, <3>1
  <2>3. read_u32(data, cur) = Num(s)
    BY <1>1, <1>2 DEF read_u32
  <2> HIDE DEF s
  <2>4. Num(s) \in Nat /\ U32(Num(s)) = s
    BY <2>2, U32Num
  <2>5. ~(cur + Width > Len(data))
    BY <1>1, <1>2
  <2> QED
    BY <1>2, <2>2, <2>3, <2>4, <2>5 DEF s
<1>3. CASE ~(cur + Width <= Len(data))
  <2>1. cur + Width > Len(data)
    BY <1>1, <1>3
  <2> QED
    BY <1>3, <2>1 DEF read_u32
<1> QED
  BY <1>2, <1>3

LEMMA StrRead ==
    ASSUME NEW data \in Seq(Byte), NEW cur \in Nat, NEW n \in Nat
    PROVE  /\ cur + n > Len(data) => read_str(data, cur, n) = NULL
           /\ cur + n <= Len(data) =>
                /\ read_str(data, cur, n) = SubSeq(data, cur + 1, cur + n)
                /\ read_str(data, cur, n) # NULL
                /\ SubSeq(data, cur + 1, cur + n) \in Seq(Byte)
                /\ Len(SubSeq(data, cur + 1, cur + n)) = n
<1>1. Len(data) \in Nat
  BY LenProperties
<1>2. CASE cur + n <= Len(data)
  <2>1. \A i \in (cur + 1)..(cur + n) : data[i] \in Byte
    <3>1. \A i \in (cur + 1)..(cur + n) : i \in 1..Len(data)
      BY <1>1, <1>2
    <3> QED
      BY <3>1, ElementOfSeq
  <2> DEFINE s == SubSeq(data, cur + 1, cur + n)
  <2>2. s \in Seq(Byte) /\ Len(s) = n
    <3>1. s \in Seq(Byte) /\ Len(s) = IF cur + 1 <= cur + n THEN cur + n - (cur + 1) + 1 ELSE 0
      <4>1. cur + 1 \in Int /\ cur + n \in Int
        OBVIOUS
      <4> QED
        BY <2>1, <4>1, SubSeqProperties
    <3> HIDE DEF s
    <3> QED
      BY <3>1
  <2>3. read_str(data, cur, n) = s
    BY <1>1, <1>2 DEF read_str
  <2>5. ~(cur + n > Len(data))
    BY <1>1, <1>2
  <2> HIDE DEF s
  <2>4. s # NULL
    BY <2>2, NullApart
  <2> QED
    BY <1>2, <2>2, <2>3, <2>4, <2>5 DEF s
<1>3. CASE ~(cur + n <= Len(data))
  <2>1. cur + n > Len(data)
    BY <1>1, <1>3
  <2> QED
    BY <1>3, <2>1 DEF read_str
<1> QED
  BY <1>2, <1>3

(* One iteration of the loop: a failure, or one more string.                 *)
LEMMA OneParsed ==
    ASSUME NEW data \in Seq(Byte), NEW r \in Read \cup {NULL}
    PROVE  /\ ParseOne(data, r) \in Read \cup {NULL}
           /\ ParseOne(data, r) # NULL =>
                 /\ r \in Read
                 /\ \E s \in Seq(Byte) :
                       /\ ParseOne(data, r) = [cur |-> r.cur + Width + Len(s), out |-> Append(r.out, s)]
                       /\ r.cur + Width + Len(s) <= Len(data)
                       /\ SubSeq(data, r.cur + 1, r.cur + Width) = U32(Len(s))
                       /\ SubSeq(data, r.cur + Width + 1, r.cur + Width + Len(s)) = s
<1>1. CASE r = NULL
  BY <1>1 DEF ParseOne
<1>2. CASE r # NULL
  <2>0. r \in Read /\ Len(data) \in Nat /\ Width \in Nat /\ Width > 0
    BY <1>2, LenProperties, ProtocolAssumption
  <2> DEFINE len == read_u32(data, r.cur)
             s == read_str(data, r.cur + Width, len)
  <2>1. ParseOne(data, r) = IF len = NULL \/ s = NULL THEN NULL
                            ELSE [cur |-> r.cur + Width + len, out |-> Append(r.out, s)]
    BY <1>2 DEF ParseOne
  <2>2. CASE len = NULL \/ s = NULL
    BY <2>1, <2>2
  <2>3. CASE ~(len = NULL \/ s = NULL)
    <3>1. r.cur \in Nat /\ r.cur + Width \in Nat /\ r.out \in Cmds
      BY <2>0 DEF Read
    <3>2. r.cur + Width <= Len(data) /\ len \in Nat
          /\ U32(len) = SubSeq(data, r.cur + 1, r.cur + Width)
      <4>1. ~(r.cur + Width > Len(data))
        BY <2>3, <3>1, U32Read
      <4> QED
        BY <2>0, <3>1, <4>1, U32Read
    <3> HIDE DEF len
    <3>3. /\ r.cur + Width + len <= Len(data)
          /\ s = SubSeq(data, r.cur + Width + 1, r.cur + Width + len)
          /\ s \in Seq(Byte) /\ Len(s) = len
      <4>1. ~(r.cur + Width + len > Len(data))
        BY <2>3, <3>1, <3>2, StrRead
      <4>2. r.cur + Width + len <= Len(data)
        BY <2>0, <3>1, <3>2, <4>1
      <4> QED
        BY <3>1, <3>2, <4>2, StrRead
    <3> HIDE DEF s
    <3>4. ParseOne(data, r) = [cur |-> r.cur + Width + Len(s), out |-> Append(r.out, s)]
      BY <2>1, <2>3, <3>3
    <3>5. Append(r.out, s) \in Cmds /\ r.cur + Width + Len(s) \in Nat
      <4>1. Append(r.out, s) \in Cmds
        BY <3>1, <3>3, AppendProperties DEF Cmds
      <4>2. r.cur + Width + Len(s) \in Nat
        <5>1. PICK c : c = r.cur + Width
          OBVIOUS
        <5>2. c \in Nat /\ Len(s) \in Nat
          BY <3>1, <3>2, <3>3, <5>1
        <5>3. c + Len(s) \in Nat
          BY <5>2
        <5> QED
          BY <5>1, <5>3
      <4> QED
        BY <4>1, <4>2
    <3>6. ParseOne(data, r) \in Read
      BY <3>4, <3>5 DEF Read
    <3> QED
      BY <2>0, <3>2, <3>3, <3>4, <3>6
  <2> QED
    BY <2>2, <2>3
<1> QED
  BY <1>1, <1>2

(* The loop of parse_req, however often it runs.                             *)
LEMMA ParsedIs ==
    ASSUME NEW data \in Seq(Byte)
    PROVE  \E p \in [Nat -> Read \cup {NULL}] :
              /\ p[0] = [cur |-> Width, out |-> << >>]
              /\ \A k \in Nat : p[k + 1] = ParseOne(data, p[k])
              /\ \A n \in Nat : Parsed(data, n) = p[n]
<1> DEFINE start == [cur |-> Width, out |-> << >>]
           Is(f) == f = [k \in Nat |-> IF k = 0 THEN start ELSE ParseOne(data, f[k - 1])]
           Rs == Read \cup {NULL}
           step == [q \in Nat \X Rs |-> ParseOne(data, q[2])]
           p == CHOOSE f : Is(f)
<1>0. start \in Rs
  BY EmptySeq, ProtocolAssumption DEF Read, Cmds
<1>1. \E f : Is(f)
  <2>1. step \in [Nat \X Rs -> Rs]
    BY OneParsed
  <2> HIDE DEF step, start, Rs
  <2>2. Runs(Rs, start, step)
    BY <1>0, <2>1, Recursion
  <2>3. PICK f \in [Nat -> Rs] : f[0] = start /\ \A k \in Nat : f[k + 1] = step[<<k, f[k]>>]
    BY <2>2 DEF Runs
  <2>4. ASSUME NEW i \in Nat, i # 0 PROVE f[i] = ParseOne(data, f[i - 1])
    <3>1. PICK j \in Nat : i = j + 1 /\ i - 1 = j
      <4>1. i - 1 \in Nat /\ i = (i - 1) + 1
        BY <2>4
      <4> QED
        BY <4>1
    <3>2. <<j, f[j]>> \in Nat \X Rs
      BY <2>3
    <3> QED
      BY <2>3, <3>1, <3>2 DEF step
  <2>5. f = [i \in Nat |-> f[i]]
    OBVIOUS
  <2>6. Is(f)
    BY <2>3, <2>4, <2>5
  <2> QED
    BY <2>6
<1>3. Is(p)
  <2> HIDE DEF Is
  <2> QED
    BY <1>1
<1>4. \A n \in Nat : Parsed(data, n) = p[n]
  BY DEF Parsed
<1> HIDE DEF p
<1>5. p[0] = start /\ DOMAIN p = Nat /\ p = [k \in Nat |-> p[k]]
  <2> HIDE DEF start
  <2> QED
    BY <1>3
<1>6. ASSUME NEW k \in Nat PROVE p[k + 1] = ParseOne(data, p[k])
  <2>1. PICK j \in Nat : j = k + 1 /\ j # 0 /\ j - 1 = k
    OBVIOUS
  <2>2. p[j] = ParseOne(data, p[j - 1])
    BY <1>3, <2>1
  <2> QED
    BY <2>1, <2>2
<1> DEFINE Good == {k \in Nat : p[k] \in Rs}
<1>7. Nat \subseteq Good
  <2>1. 0 \in Good
    BY <1>0, <1>5
  <2>2. ASSUME NEW k \in Nat, k \in Good PROVE k + 1 \in Good
    <3>1. ParseOne(data, p[k]) \in Rs /\ k + 1 \in Nat
      BY <2>2, OneParsed
    <3>2. p[k + 1] \in Rs
      BY <1>6, <3>1
    <3> HIDE DEF Rs
    <3> QED
      BY <3>1, <3>2
  <2> HIDE DEF Good
  <2> QED
    BY <2>1, <2>2, NatInd
<1>8. p \in [Nat -> Rs]
  <2>1. \A k \in Nat : p[k] \in Rs
    BY <1>7
  <2> HIDE DEF Rs
  <2> QED
    BY <1>5, <2>1
<1> HIDE DEF Is
<1> QED
  BY <1>4, <1>5, <1>6, <1>8

(* Buffers are joined in any order.                                          *)
LEMMA BytesAssociative ==
    \A u, v, w \in Seq(Byte) : (u \o v) \o w = u \o (v \o w)
BY ConcatAssociative

(* What parse_req accepts is a request that send_req would have written so.  *)
LEMMA Rejoined ==
    ASSUME NEW data \in Seq(Byte), parse_req(data) # NULL
    PROVE  parse_req(data) \in Cmds /\ RequestBody(parse_req(data)) = data
<1> DEFINE n == read_u32(data, 0)
           L == Len(data)
           One(r, k) == /\ r \in Read /\ Len(r.out) = k
                        /\ Width <= r.cur /\ r.cur <= L
                        /\ SubSeq(data, Width + 1, r.cur) = FlattenSeq(Strs(r.out))
<1>0. L \in Nat /\ Width \in Nat /\ Width > 0
  BY LenProperties, ProtocolAssumption
<1>1. PICK p \in [Nat -> Read \cup {NULL}] :
              /\ p[0] = [cur |-> Width, out |-> << >>]
              /\ \A k \in Nat : p[k + 1] = ParseOne(data, p[k])
              /\ \A k \in Nat : Parsed(data, k) = p[k]
  BY ParsedIs
<1>2. n # NULL /\ Parsed(data, n) # NULL /\ Parsed(data, n).cur = L
      /\ parse_req(data) = Parsed(data, n).out
  BY DEF parse_req
<1>3. n \in Nat /\ U32(n) = SubSeq(data, 1, Width) /\ Width <= L
  <2>1. 0 \in Nat /\ 0 + Width = Width /\ 0 + 1 = 1
    BY <1>0
  <2>2. ~(Width > L)
    BY <1>2, <2>1, U32Read
  <2>3. Width <= L
    BY <1>0, <2>2
  <2> QED
    BY <2>1, <2>3, U32Read
<1> HIDE DEF n
<1> DEFINE Good == {k \in Nat : p[k] # NULL => One(p[k], k)}
<1>4. 0 \in Good
  <2> DEFINE r == [cur |-> Width, out |-> << >>]
  <2>1. r \in Read /\ Len(r.out) = 0 /\ r.cur = Width /\ r.out = << >> /\ << >> \in Cmds
    BY <1>0, EmptySeq DEF Read, Cmds
  <2>2. Strs(<< >>) = << >>
    BY <2>1, StrsType, EmptySeq
  <2>3. SubSeq(data, Width + 1, Width) = << >>
    <3>1. Width + 1 \in Int /\ Width \in Int /\ Width < Width + 1
      BY <1>0
    <3> QED
      BY <3>1, SubSeqEmpty
  <2> HIDE DEF r
  <2>4. One(r, 0)
    <3>1. SubSeq(data, Width + 1, r.cur) = << >> /\ FlattenSeq(Strs(r.out)) = << >>
      BY <2>1, <2>2, <2>3, FlatEmpty
    <3>2. Width <= r.cur /\ r.cur <= L
      BY <1>0, <1>3, <2>1
    <3> QED
      BY <2>1, <3>1, <3>2
  <2> HIDE DEF One
  <2>5. p[0] = r
    BY <1>1 DEF r
  <2> QED
    BY <2>4, <2>5
<1>5. ASSUME NEW k \in Nat, k \in Good PROVE k + 1 \in Good
  <2> SUFFICES ASSUME p[k + 1] # NULL PROVE One(p[k + 1], k + 1)
    <3> HIDE DEF One
    <3> QED
      OBVIOUS
  <2> DEFINE r == p[k]
             q == p[k + 1]
  <2>1. q = ParseOne(data, r) /\ r \in Read \cup {NULL}
    BY <1>1
  <2>2. r \in Read /\ r # NULL
    <3> HIDE DEF r, q
    <3>1. ParseOne(data, r) # NULL
      BY <2>1 DEF q
    <3> QED
      BY <2>1, <3>1, OneParsed, NullApart
  <2>3. One(r, k)
    BY <1>5, <2>2
  <2>4. PICK s \in Seq(Byte) :
              /\ q = [cur |-> r.cur + Width + Len(s), out |-> Append(r.out, s)]
              /\ r.cur + Width + Len(s) <= L
              /\ SubSeq(data, r.cur + 1, r.cur + Width) = U32(Len(s))
              /\ SubSeq(data, r.cur + Width + 1, r.cur + Width + Len(s)) = s
    <3>1. ParseOne(data, r) # NULL
      BY <2>1
    <3> HIDE DEF r
    <3>2. \E s \in Seq(Byte) :
              /\ ParseOne(data, r) = [cur |-> r.cur + Width + Len(s), out |-> Append(r.out, s)]
              /\ r.cur + Width + Len(s) <= L
              /\ SubSeq(data, r.cur + 1, r.cur + Width) = U32(Len(s))
              /\ SubSeq(data, r.cur + Width + 1, r.cur + Width + Len(s)) = s
      BY <2>1, <3>1, OneParsed
    <3> HIDE DEF q
    <3> QED
      BY <2>1, <3>2
  <2>5. PICK c : c = r.cur
    OBVIOUS
  <2>6. PICK d : d = c + Width
    OBVIOUS
  <2>7. PICK e : e = c + Width + Len(s)
    OBVIOUS
  <2> DEFINE out == r.out
  <2>8. /\ out \in Cmds /\ Len(out) = k /\ Width <= c /\ c <= L /\ c \in Nat
        /\ SubSeq(data, Width + 1, c) = FlattenSeq(Strs(out))
    BY <2>3, <2>5 DEF Read
  <2>9. /\ e <= L /\ q = [cur |-> e, out |-> Append(out, s)]
        /\ SubSeq(data, c + 1, d) = U32(Len(s)) /\ SubSeq(data, d + 1, e) = s
    BY <2>4, <2>5, <2>6, <2>7
  <2>10. Len(s) \in Nat /\ d \in Nat /\ e \in Nat /\ c <= d /\ d <= e
    <3>1. Len(s) \in Nat
      BY LenProperties
    <3> QED
      BY <1>0, <2>6, <2>7, <2>8, <3>1
  <2> HIDE DEF r, out, q
  <2>11. FlattenSeq(Strs(Append(out, s))) = FlattenSeq(Strs(out)) \o Str(s)
    <3>1. /\ Strs(Append(out, s)) = Append(Strs(out), Str(s))
          /\ Strs(out) \in Seq(Seq(Byte)) /\ Str(s) \in Seq(Byte)
      BY <2>8, StrsAppend, StrsType, StrType
    <3>2. FlattenSeq(Append(Strs(out), Str(s))) = FlattenSeq(Strs(out)) \o Str(s)
      BY <3>1, FlatAppend
    <3> QED
      BY <3>1, <3>2
  <2>12. Str(s) = SubSeq(data, c + 1, e)
    <3>1. c + 1 \in 1..(L + 1) /\ d \in ((c + 1) - 1)..L /\ e \in d..L
      BY <1>0, <2>8, <2>9, <2>10
    <3>2. SubSeq(data, c + 1, d) \o SubSeq(data, d + 1, e) = SubSeq(data, c + 1, e)
      BY <3>1, ConcatAdjacentSubSeq
    <3> QED
      BY <2>9, <3>2 DEF Str
  <2>13. SubSeq(data, Width + 1, e) = FlattenSeq(Strs(Append(out, s)))
    <3>1. Width + 1 \in 1..(L + 1) /\ c \in ((Width + 1) - 1)..L /\ e \in c..L
      BY <1>0, <2>8, <2>9, <2>10
    <3>2. SubSeq(data, Width + 1, c) \o SubSeq(data, c + 1, e) = SubSeq(data, Width + 1, e)
      BY <3>1, ConcatAdjacentSubSeq
    <3> QED
      BY <2>8, <2>11, <2>12, <3>2
  <2>14. Append(out, s) \in Cmds /\ Len(Append(out, s)) = k + 1
    BY <2>8, StrsAppend
  <2>15. q.cur = e /\ q.out = Append(out, s) /\ q \in Read
    BY <2>9, <2>10, <2>14 DEF Read
  <2>16. Width <= e
    BY <1>0, <2>8, <2>10
  <2>17. One(q, k + 1)
    BY <2>9, <2>13, <2>14, <2>15, <2>16
  <2> QED
    BY <2>17 DEF q
<1>6. One(p[n], n)
  <2>1. Nat \subseteq Good
    <3> HIDE DEF Good
    <3> QED
      BY <1>4, <1>5, NatInd
  <2> HIDE DEF One
  <2> QED
    BY <1>1, <1>2, <1>3, <2>1
<1> DEFINE cmd == p[n].out
<1>7. /\ cmd \in Cmds /\ Len(cmd) = n /\ parse_req(data) = cmd
      /\ SubSeq(data, Width + 1, L) = FlattenSeq(Strs(cmd))
  BY <1>1, <1>2, <1>3, <1>6 DEF Read
<1> HIDE DEF cmd
<1>8. RequestBody(cmd) = SubSeq(data, 1, Width) \o SubSeq(data, Width + 1, L)
  BY <1>3, <1>7, BodyIs
<1>9. SubSeq(data, 1, Width) \o SubSeq(data, Width + 1, L) = data
  <2>1. Width \in 0..L
    BY <1>0, <1>3
  <2> QED
    BY <2>1, Parted
<1> QED
  BY <1>7, <1>8, <1>9

-----------------------------------------------------------------------------
(* What send_req writes is read again, string by string.                     *)
LEMMA NumBack ==
    ASSUME NEW n \in Nat, n <= MaxMsg
    PROVE  Num(U32(n)) = n
<1>1. MaxMsg \in Nat /\ MaxMsg < Power[Width] /\ Power[Width] \in Nat
  BY ProtocolAssumption, PowerLaw
<1>2. n < Power[Width]
  BY <1>1
<1> QED
  BY <1>2, NumU32

(* The k-th string of a request begins and ends where parse_req looks for it.*)
LEMMA StringAt ==
    ASSUME NEW cmd \in Cmds, Fits(cmd), NEW k \in 0..(Len(cmd) - 1)
    PROVE  LET data == RequestBody(cmd)
               cur == Width + Len(FlattenSeq(SubSeq(Strs(cmd), 1, k)))
               s == cmd[k + 1] IN
           /\ cur \in Nat /\ s \in Seq(Byte) /\ Len(s) \in Nat
           /\ Width + Len(FlattenSeq(SubSeq(Strs(cmd), 1, k + 1))) = cur + Width + Len(s)
           /\ cur + Width + Len(s) <= Len(data)
           /\ read_u32(data, cur) = Len(s)
           /\ SubSeq(data, cur + Width + 1, cur + Width + Len(s)) = s
<1> DEFINE data == RequestBody(cmd)
           n == Len(cmd)
           ss == Strs(cmd)
           f == FlattenSeq(SubSeq(ss, 1, k))
           u == U32(n) \o f
           s == cmd[k + 1]
           v == U32(Len(s))
<1>0. Width \in Nat /\ Width > 0 /\ MaxMsg \in Nat
  BY ProtocolAssumption
<1>1. /\ ss \in Seq(Seq(Byte)) /\ Len(ss) = n /\ n \in Nat
      /\ k + 1 \in 1..n /\ s \in Seq(Byte) /\ ss[k + 1] = Str(s)
  <2>1. n \in Nat /\ Len(ss) = n /\ ss \in Seq(Seq(Byte))
    BY StrsType
  <2>2. k + 1 \in 1..n
    BY <2>1
  <2> QED
    BY <2>1, <2>2, StrsType
<1>2. /\ data = U32(n) \o FlattenSeq(ss) /\ data \in Seq(Byte)
      /\ U32(n) \in Seq(Byte) /\ Len(U32(n)) = Width
  BY BodyIs
<1>3. /\ v \in Seq(Byte) /\ Len(v) = Width /\ Len(s) \in Nat /\ Str(s) = v \o s
      /\ Str(s) \in Seq(Byte) /\ Len(Str(s)) = Width + Len(s)
  BY <1>1, StrType DEF Str
<1> HIDE DEF data, n, ss, s, v
<1>4. /\ f \in Seq(Byte) /\ Len(f) \in Nat
      /\ FlattenSeq(SubSeq(ss, 1, k + 1)) = f \o Str(s)
  BY <1>1, FlatNext, LenProperties DEF n
<1>5. PICK rest \in Seq(Byte) : FlattenSeq(ss) = (f \o Str(s)) \o rest
  <2>1. k + 1 \in 0..Len(ss)
    BY <1>1
  <2> HIDE DEF f
  <2>2. \E rest \in Seq(Byte) : FlattenSeq(ss) = FlattenSeq(SubSeq(ss, 1, k + 1)) \o rest
    BY <1>1, <2>1, FlatParts
  <2> QED
    BY <1>4, <2>2
<1> HIDE DEF f
<1>6. u \in Seq(Byte) /\ Len(u) = Width + Len(f)
  BY <1>2, <1>4, ConcatProperties
<1> DEFINE w == s \o rest
<1>7. w \in Seq(Byte) /\ Len(w) = Len(s) + Len(rest) /\ Len(rest) \in Nat
  BY <1>1, ConcatProperties, LenProperties
<1>8. data = (u \o v) \o w
  <2>1. f \o Str(s) \in Seq(Byte) /\ Str(s) \o rest \in Seq(Byte)
    BY <1>3, <1>4, ConcatProperties
  <2>2. (f \o Str(s)) \o rest = f \o (Str(s) \o rest)
    BY <1>3, <1>4, BytesAssociative
  <2>3. U32(n) \o (f \o (Str(s) \o rest)) = u \o (Str(s) \o rest)
    <3> DEFINE z == Str(s) \o rest
               h == U32(n)
    <3> HIDE DEF z, h
    <3>1. z \in Seq(Byte) /\ h \in Seq(Byte)
      BY <1>2, <2>1 DEF z, h
    <3>2. (h \o f) \o z = h \o (f \o z)
      BY <1>4, <3>1, BytesAssociative
    <3> QED
      BY <3>2 DEF z, h
  <2> HIDE DEF u
  <2>4. Str(s) \o rest = v \o (s \o rest)
    <3>1. (v \o s) \o rest = v \o (s \o rest)
      BY <1>1, <1>3, BytesAssociative
    <3> QED
      BY <1>3, <3>1
  <2>5. u \o (v \o w) = (u \o v) \o w
    BY <1>3, <1>6, <1>7, BytesAssociative
  <2> QED
    BY <1>2, <1>5, <2>2, <2>3, <2>4, <2>5
<1>14. SubSeq(data, Len(u) + Width + 1, Len(u) + Width + Len(s)) = s
  <2> HIDE DEF u
  <2>1. u \o v \in Seq(Byte) /\ Len(u \o v) = Len(u) + Width
    BY <1>3, <1>6, ConcatProperties
  <2> DEFINE g == u \o v
  <2> HIDE DEF g
  <2>2. g \in Seq(Byte) /\ Len(g) = Len(u) + Width
    BY <2>1 DEF g
  <2>3. data = (g \o s) \o rest
    BY <1>1, <1>8, <2>2, BytesAssociative DEF g, w
  <2>4. SubSeq((g \o s) \o rest, Len(g) + 1, Len(g) + Len(s)) = s
    <3>1. g \in Seq(Byte) /\ s \in Seq(Byte) /\ rest \in Seq(Byte)
      BY <1>1, <2>2
    <3> HIDE DEF g
    <3> QED
      BY <3>1, Middle
  <2> QED
    BY <2>2, <2>3, <2>4
<1> HIDE DEF u, w
<1>9. /\ Len(data) = Len(u) + Len(v) + Len(w)
      /\ SubSeq(data, Len(u) + 1, Len(u) + Len(v)) = v
  <2>1. /\ Len((u \o v) \o w) = Len(u) + Len(v) + Len(w)
        /\ SubSeq((u \o v) \o w, Len(u) + 1, Len(u) + Len(v)) = v
    <3>1. u \in Seq(Byte) /\ v \in Seq(Byte) /\ w \in Seq(Byte)
      BY <1>3, <1>6, <1>7
    <3> QED
      BY <3>1, Middle
  <2> QED
    BY <1>8, <2>1
<1>10. Len(data) <= MaxMsg
  BY DEF Fits, data
<1> DEFINE cur == Width + Len(f)
<1>11. /\ cur \in Nat /\ cur + Width + Len(s) <= Len(data) /\ Len(s) <= MaxMsg
       /\ cur + Width <= Len(data) /\ Len(u) = cur
  BY <1>0, <1>3, <1>4, <1>6, <1>7, <1>9, <1>10
<1>12. read_u32(data, cur) = Len(s)
  <2> HIDE DEF cur
  <2>1. SubSeq(data, cur + 1, cur + Width) = v
    BY <1>3, <1>9, <1>11
  <2>2. read_u32(data, cur) = Num(v)
    BY <1>2, <1>11, <2>1, U32Read
  <2>3. Num(v) = Len(s)
    BY <1>3, <1>11, NumBack DEF v
  <2> QED
    BY <2>2, <2>3
<1>13. Width + Len(FlattenSeq(SubSeq(ss, 1, k + 1))) = cur + Width + Len(s)
  <2>1. Len(f \o Str(s)) = Len(f) + Len(Str(s))
    BY <1>3, <1>4, ConcatProperties
  <2>2. PICK a, b \in Nat : a = Len(f) /\ b = Len(s)
    BY <1>3, <1>4
  <2>3. Len(FlattenSeq(SubSeq(ss, 1, k + 1))) = a + (Width + b)
    BY <1>3, <1>4, <2>1, <2>2
  <2>4. Width + (a + (Width + b)) = (Width + a) + Width + b
    BY <1>0
  <2> QED
    BY <2>2, <2>3, <2>4
<1> QED
  BY <1>1, <1>3, <1>11, <1>12, <1>13, <1>14 DEF data, n, ss, s, f

(* One iteration on a request that send_req wrote.                           *)
LEMMA OneAccepted ==
    ASSUME NEW cmd \in Cmds, Fits(cmd), NEW k \in 0..(Len(cmd) - 1), NEW r \in Read,
           r.cur = Width + Len(FlattenSeq(SubSeq(Strs(cmd), 1, k)))
    PROVE  LET q == ParseOne(RequestBody(cmd), r) IN
           /\ q \in Read
           /\ q.cur = Width + Len(FlattenSeq(SubSeq(Strs(cmd), 1, k + 1)))
           /\ q.cur >= r.cur + Width
           /\ q.out = Append(r.out, cmd[k + 1])
<1> DEFINE data == RequestBody(cmd)
           s == cmd[k + 1]
           new == Width + Len(FlattenSeq(SubSeq(Strs(cmd), 1, k + 1)))
           q == ParseOne(data, r)
<1>0. data \in Seq(Byte) /\ Width \in Nat /\ r # NULL
  BY BodyIs, ProtocolAssumption, NullApart
<1>1. PICK c : c = r.cur
  OBVIOUS
<1>2. /\ c \in Nat /\ s \in Seq(Byte) /\ Len(s) \in Nat /\ new = c + Width + Len(s)
      /\ c + Width + Len(s) <= Len(data) /\ read_u32(data, c) = Len(s)
      /\ SubSeq(data, c + Width + 1, c + Width + Len(s)) = s
  BY <1>1, StringAt
<1> HIDE DEF data, s, new
<1>3. read_str(data, c + Width, Len(s)) # NULL /\ read_str(data, c + Width, Len(s)) = s
  <2>1. c + Width \in Nat
    BY <1>0, <1>2
  <2> QED
    BY <1>0, <1>2, <2>1, StrRead
<1>4. Len(s) # NULL
  BY <1>2, NullApart
<1>5. q = [cur |-> c + Width + Len(s), out |-> Append(r.out, read_str(data, c + Width, Len(s)))]
  BY <1>0, <1>1, <1>2, <1>3, <1>4 DEF ParseOne
<1>6. q.cur = new
  BY <1>2, <1>5
<1>7. q \in Read
  <2>1. q \in Read \cup {NULL}
    BY <1>0, OneParsed
  <2>2. r.out \in Cmds /\ read_str(data, c + Width, Len(s)) \in Seq(Byte)
    <3>1. c + Width \in Nat
      BY <1>0, <1>2
    <3> QED
      BY <1>0, <1>2, <3>1, StrRead DEF Read
  <2>3. Append(r.out, read_str(data, c + Width, Len(s))) \in Cmds
    BY <2>2, StrsAppend
  <2>4. c + Width + Len(s) \in Nat
    BY <1>0, <1>2
  <2> HIDE DEF q
  <2> QED
    BY <1>5, <2>3, <2>4 DEF Read
<1>8. q.cur >= c + Width
  BY <1>0, <1>2, <1>6
<1> QED
  BY <1>1, <1>3, <1>5, <1>6, <1>7, <1>8 DEF data, new, s

(* parse_req finds in what send_req writes the strings that it was given.    *)
LEMMA Accepted ==
    ASSUME NEW cmd \in Cmds, Fits(cmd)
    PROVE  parse_req(RequestBody(cmd)) = cmd /\ cmd # NULL
<1> DEFINE data == RequestBody(cmd)
           n == Len(cmd)
           ss == Strs(cmd)
           end(k) == Width + Len(FlattenSeq(SubSeq(ss, 1, k)))
<1>0. /\ Width \in Nat /\ Width > 0 /\ MaxMsg \in Nat /\ MaxArgs \in Nat
      /\ MaxArgs * Width >= MaxMsg /\ n \in Nat
  BY ProtocolAssumption, StrsType
<1>1. /\ ss \in Seq(Seq(Byte)) /\ Len(ss) = n
      /\ data = U32(n) \o FlattenSeq(ss) /\ data \in Seq(Byte)
      /\ U32(n) \in Seq(Byte) /\ Len(U32(n)) = Width
      /\ FlattenSeq(ss) \in Seq(Byte)
      /\ Len(data) = Width + Len(FlattenSeq(ss)) /\ Len(data) <= MaxMsg
  BY StrsType, BodyIs DEF Fits
<1>2. PICK p \in [Nat -> Read \cup {NULL}] :
              /\ p[0] = [cur |-> Width, out |-> << >>]
              /\ \A k \in Nat : p[k + 1] = ParseOne(data, p[k])
              /\ \A k \in Nat : Parsed(data, k) = p[k]
  BY <1>1, ParsedIs
<1> DEFINE Good == {k \in 0..n : /\ p[k] \in Read /\ p[k].cur = end(k) /\ p[k].cur >= Width + k * Width
                                 /\ p[k].out = SubSeq(cmd, 1, k)}
<1>3. 0 \in Good
  <2>1. p[0] \in Read /\ p[0].cur = Width
    BY <1>0, <1>2, EmptySeq DEF Read, Cmds
  <2>2. end(0) = Width
    <3>1. SubSeq(ss, 1, 0) = << >>
      BY SubSeqEmpty
    <3>2. Len(FlattenSeq(SubSeq(ss, 1, 0))) = 0
      BY <3>1, FlatEmpty, EmptySeq
    <3> QED
      BY <1>0, <3>2
  <2>3. Width >= Width + 0 * Width /\ 0 \in 0..n
    BY <1>0
  <2>4. p[0].out = SubSeq(cmd, 1, 0)
    BY <1>2, SubSeqEmpty
  <2> HIDE DEF end, n
  <2> QED
    BY <2>1, <2>2, <2>3, <2>4
<1>4. ASSUME NEW k \in 0..(n - 1), k \in Good PROVE k + 1 \in Good
  <2> DEFINE r == p[k]
             q == p[k + 1]
  <2>1. r \in Read /\ r.cur = end(k) /\ r.cur >= Width + k * Width /\ r.out = SubSeq(cmd, 1, k)
    BY <1>4
  <2>2. q = ParseOne(data, r) /\ k \in Nat /\ k + 1 \in 0..n
    BY <1>0, <1>2
  <2> HIDE DEF r, q
  <2>3. q \in Read /\ q.cur = end(k + 1) /\ q.cur >= r.cur + Width /\ q.out = Append(r.out, cmd[k + 1])
    BY <2>1, <2>2, OneAccepted
  <2>5. q.out = SubSeq(cmd, 1, k + 1)
    <3>1. cmd \in Seq(Seq(Byte)) /\ k \in 0..(Len(cmd) - 1)
      BY DEF Cmds
    <3> QED
      BY <2>1, <2>3, <3>1, FlatNext
  <2>4. q.cur >= Width + (k + 1) * Width
    <3>1. PICK c \in Nat, d \in Nat : c = r.cur /\ d = q.cur
      BY <2>1, <2>3 DEF Read
    <3>2. (k + 1) * Width = k * Width + Width /\ k * Width \in Nat
      BY <1>0, <2>2
    <3>3. c >= Width + k * Width /\ d >= c + Width
      BY <2>1, <2>3, <3>1
    <3> QED
      BY <1>0, <3>1, <3>2, <3>3
  <2> HIDE DEF end, n
  <2> QED
    BY <2>2, <2>3, <2>4, <2>5 DEF q
<1>5. n \in Good
  <2>1. 0..n \subseteq Good
    <3> HIDE DEF Good, n
    <3> QED
      BY <1>0, <1>3, <1>4, UpTo
  <2>2. n \in 0..n
    BY <1>0
  <2> HIDE DEF Good
  <2> QED
    BY <2>1, <2>2
<1>6. p[n] \in Read /\ p[n].cur = Len(data) /\ Len(data) >= Width + n * Width /\ p[n].out = cmd
  <2>1. SubSeq(ss, 1, n) = ss
    BY <1>1, SubSeqFull
  <2>2. end(n) = Len(data)
    BY <1>1, <2>1
  <2>3. SubSeq(cmd, 1, n) = cmd
    BY SubSeqFull DEF Cmds
  <2> HIDE DEF end, n, data, ss
  <2> QED
    BY <1>5, <2>2, <2>3
<1>7. Len(data) \in Nat /\ n * Width \in Nat
  <2>1. Len(data) \in Nat
    BY <1>1, LenProperties
  <2> QED
    BY <1>0, <2>1
<1>8. n * Width <= MaxMsg
  <2> HIDE DEF data, n
  <2> QED
    BY <1>0, <1>1, <1>6, <1>7
<1>9. n <= MaxMsg
  <2> HIDE DEF n
  <2>1. Width - 1 \in Nat /\ n * Width = n + n * (Width - 1) /\ n * (Width - 1) \in Nat
    BY <1>0
  <2> QED
    BY <1>0, <1>8, <2>1
<1>10. n <= MaxArgs
  <2> HIDE DEF n
  <2> SUFFICES ASSUME n > MaxArgs PROVE FALSE
    BY <1>0
  <2>1. PICK e \in Nat : n = MaxArgs + 1 + e
    <3>1. n - MaxArgs - 1 \in Nat /\ n = MaxArgs + 1 + (n - MaxArgs - 1)
      BY <1>0
    <3> QED
      BY <3>1
  <2>2. n * Width = MaxArgs * Width + Width + e * Width /\ e * Width \in Nat
    BY <1>0, <2>1
  <2>3. n * Width <= MaxArgs * Width
    BY <1>0, <1>7, <1>8
  <2> QED
    BY <1>0, <2>2, <2>3
<1>11. read_u32(data, 0) = n
  <2>1. SubSeq(data, 1, Width) = U32(n)
    BY <1>1, First
  <2>2. 0 + 1 = 1 /\ 0 + Width = Width /\ 0 + Width <= Len(data) /\ 0 \in Nat
    <3> HIDE DEF data, n
    <3> QED
      BY <1>0, <1>6, <1>7
  <2>3. read_u32(data, 0) = Num(SubSeq(data, 1, Width))
    <3> HIDE DEF data
    <3> QED
      BY <1>1, <2>2, U32Read
  <2> HIDE DEF data, n
  <2> QED
    BY <1>0, <1>9, <2>1, <2>3, NumBack
<1>12. n # NULL /\ p[n] # NULL /\ Parsed(data, n) = p[n] /\ p[n].out # NULL
  <2>1. n # NULL
    BY <1>0, NullApart
  <2>2. p[n] # NULL /\ p[n].out \in Cmds
    BY <1>6, NullApart DEF Read
  <2> QED
    BY <1>0, <1>2, <2>1, <2>2, NullApart
<1> HIDE DEF data, n
<1>13. ~(n > MaxArgs)
  BY <1>0, <1>10
<1>14. parse_req(data) = p[n].out
  BY <1>6, <1>11, <1>12, <1>13 DEF parse_req
<1> QED
  BY <1>6, <1>12, <1>14 DEF data

(* A frame is its length and its body, in bytes.                             *)
LEMMA FrameIs ==
    ASSUME NEW cmd \in Cmds
    PROVE  /\ Frame(cmd) \in Seq(Byte) /\ RequestBody(cmd) \in Seq(Byte)
           /\ U32(Len(RequestBody(cmd))) \in Seq(Byte) /\ Len(U32(Len(RequestBody(cmd)))) = Width
           /\ Len(RequestBody(cmd)) \in Nat /\ Len(Frame(cmd)) = Width + Len(RequestBody(cmd))
           /\ Frame(cmd) = U32(Len(RequestBody(cmd))) \o RequestBody(cmd)
<1>1. RequestBody(cmd) \in Seq(Byte) /\ Len(RequestBody(cmd)) \in Nat
  BY BodyIs, LenProperties
<1>2. U32(Len(RequestBody(cmd))) \in Seq(Byte) /\ Len(U32(Len(RequestBody(cmd)))) = Width
  BY <1>1, U32Type
<1> QED
  BY <1>1, <1>2, ConcatProperties DEF Frame

(* A buffer that begins with a request of send_req is not taken for anything *)
(* else.                                                                     *)
LEMMA FrameFirst ==
    ASSUME NEW cmd \in Cmds, Fits(cmd), NEW rest \in Seq(Byte)
    PROVE  LET b == Frame(cmd) \o rest IN
           /\ b \in Seq(Byte) /\ ~TooLong(b) /\ HasMessage(b) /\ Message(b) = RequestBody(cmd)
           /\ parse_req(Message(b)) = cmd /\ cmd # NULL
<1> DEFINE m == RequestBody(cmd)
           u == U32(Len(m))
           b == Frame(cmd) \o rest
<1>0. Width \in Nat /\ MaxMsg \in Nat /\ Len(m) <= MaxMsg
  BY ProtocolAssumption DEF Fits
<1>1. /\ u \in Seq(Byte) /\ m \in Seq(Byte) /\ Len(u) = Width /\ Len(m) \in Nat
      /\ Frame(cmd) = u \o m /\ parse_req(m) = cmd /\ cmd # NULL
  BY FrameIs, Accepted
<1>2. Num(u) = Len(m)
  BY <1>0, <1>1, NumBack
<1> HIDE DEF m, u
<1>3. /\ b \in Seq(Byte) /\ Len(b) = Len(u) + Len(m) + Len(rest) /\ Len(rest) \in Nat
      /\ SubSeq(b, Len(u) + 1, Len(u) + Len(m)) = m
  <2>1. u \in Seq(Byte) /\ m \in Seq(Byte) /\ rest \in Seq(Byte)
    BY <1>1
  <2>2. LET data == (u \o m) \o rest IN
        /\ data \in Seq(Byte) /\ Len(data) = Len(u) + Len(m) + Len(rest) /\ Len(rest) \in Nat
        /\ SubSeq(data, Len(u) + 1, Len(u) + Len(m)) = m
    BY <2>1, Middle
  <2> QED
    BY <1>1, <2>2
<1>4. SubSeq(b, 1, Width) = u
  <2>1. b = u \o (m \o rest) /\ m \o rest \in Seq(Byte)
    BY <1>1, BytesAssociative, ConcatProperties
  <2>2. SubSeq(u \o (m \o rest), 1, Len(u)) = u
    BY <1>1, <2>1, First
  <2> QED
    BY <1>1, <2>1, <2>2
<1> HIDE DEF b
<1>5. Num(SubSeq(b, 1, Width)) = Len(m) /\ Len(b) >= Width + Len(m) /\ Len(b) \in Nat
  <2>1. PICK i, j \in Nat : i = Len(m) /\ j = Len(rest)
    BY <1>1, <1>3
  <2>2. Len(b) = Width + i + j
    BY <1>1, <1>3, <2>1
  <2>3. Len(b) >= Width + i /\ Len(b) \in Nat
    BY <1>0, <2>2
  <2> QED
    BY <1>2, <1>4, <2>1, <2>3
<1>6. Message(b) = m
  BY <1>1, <1>3, <1>5 DEF Message
<1>7. ~TooLong(b) /\ HasMessage(b)
  BY <1>0, <1>1, <1>5 DEF TooLong, HasMessage
<1> QED
  BY <1>1, <1>3, <1>6, <1>7 DEF b, m

(* A prefix, with what follows it.                                           *)
LEMMA PrefixIs ==
    ASSUME NEW s \in Seq(Byte), NEW t \in Seq(Byte), IsPrefix(s, t)
    PROVE  \E rest \in Seq(Byte) : t = s \o rest
<1>1. Len(s) \in Nat /\ Len(t) \in Nat /\ Len(s) <= Len(t)
  BY LenProperties DEF IsPrefix
<1>2. SubSeq(t, 1, Len(s)) = s
  BY SubSeqFull DEF IsPrefix
<1>3. Len(s) \in 0..Len(t)
  BY <1>1
<1>4. SubSeq(t, Len(s) + 1, Len(t)) \in Seq(Byte)
  BY <1>3, Remainder
<1>5. SubSeq(t, 1, Len(s)) \o SubSeq(t, Len(s) + 1, Len(t)) = t
  BY <1>3, Parted
<1> QED
  BY <1>2, <1>4, <1>5

(* A frame that is in the buffer is complete and no reason to reject.        *)
LEMMA FrameWaited ==
    ASSUME NEW cmd \in Cmds, Fits(cmd), NEW b \in Seq(Byte),
           IsPrefix(Frame(cmd), b)
    PROVE  ~TooLong(b) /\ HasMessage(b) /\ parse_req(Message(b)) # NULL
<1>1. PICK rest \in Seq(Byte) : b = Frame(cmd) \o rest
  BY FrameIs, PrefixIs
<1> QED
  BY <1>1, FrameFirst

(* Nor one that may still become such a request.                             *)
LEMMA FrameBegun ==
    ASSUME NEW cmd \in Cmds, Fits(cmd), NEW b \in Seq(Byte),
           IsPrefix(b, Frame(cmd))
    PROVE  ~TooLong(b) /\ (HasMessage(b) => parse_req(Message(b)) # NULL)
<1> DEFINE m == RequestBody(cmd)
           u == U32(Len(m))
           f == Frame(cmd)
<1>0. Width \in Nat /\ Width > 0 /\ MaxMsg \in Nat /\ Len(m) <= MaxMsg
  BY ProtocolAssumption DEF Fits
<1>1. /\ u \in Seq(Byte) /\ m \in Seq(Byte) /\ Len(u) = Width /\ Len(m) \in Nat
      /\ f = u \o m /\ f \in Seq(Byte) /\ Len(f) = Width + Len(m)
  BY FrameIs
<1>2. Num(u) = Len(m)
  BY <1>0, <1>1, NumBack
<1>3. PICK rest \in Seq(Byte) : f = b \o rest
  BY <1>1, PrefixIs
<1> HIDE DEF m, u, f
<1>4. Len(b) \in Nat /\ Len(rest) \in Nat /\ Len(f) = Len(b) + Len(rest)
  BY <1>3, ConcatProperties, LenProperties
<1>5. ASSUME Len(b) >= Width PROVE Num(SubSeq(b, 1, Width)) = Len(m)
  <2>1. 1 \in 1..Len(b) /\ Width \in 1..Len(b)
    BY <1>0, <1>4, <1>5
  <2>2. SubSeq(f, 1, Width) = SubSeq(b, 1, Width)
    BY <1>3, <2>1, SubSeqOfConcat1
  <2>3. SubSeq(f, 1, Width) = u
    BY <1>1, First
  <2> QED
    BY <1>2, <2>2, <2>3
<1>6. ~TooLong(b)
  BY <1>0, <1>1, <1>5 DEF TooLong
<1>7. ASSUME HasMessage(b) PROVE parse_req(Message(b)) # NULL
  <2>1. Len(b) >= Width /\ Width + Len(m) <= Len(b)
    BY <1>5, <1>7 DEF HasMessage
  <2>2. Len(rest) = 0
    BY <1>0, <1>1, <1>4, <2>1
  <2>3. rest = << >>
    BY <2>2, EmptySeq
  <2>4. b = Frame(cmd) \o << >>
    BY <1>3, <2>3, ConcatEmptySeq DEF f
  <2> QED
    BY <2>4, FrameFirst, EmptySeq
<1> QED
  BY <1>6, <1>7

(* try_one_request takes the whole request, and no more.                     *)
LEMMA FrameTaken ==
    ASSUME NEW b \in Seq(Byte), ~TooLong(b), HasMessage(b), parse_req(Message(b)) # NULL
    PROVE  LET cmd == parse_req(Message(b))
               rest == Drop(b, Width + Len(Message(b))) IN
           /\ cmd \in Cmds /\ Fits(cmd) /\ rest \in Seq(Byte) /\ b = Frame(cmd) \o rest
<1> DEFINE n == Num(SubSeq(b, 1, Width))
           h == SubSeq(b, 1, Width)
           m == Message(b)
<1>0. Width \in Nat /\ Width > 0 /\ Len(b) \in Nat /\ Len(b) >= Width /\ Width \in 0..Len(b)
  BY ProtocolAssumption, LenProperties DEF HasMessage
<1>1. h \in Seq(Byte) /\ Len(h) = Width
  BY <1>0, Beginning
<1>2. n \in Nat /\ U32(n) = h
  <2> HIDE DEF h
  <2>1. Num(h) \in Nat /\ U32(Num(h)) = h
    BY <1>1, U32Num
  <2> QED
    BY <2>1 DEF h
<1>3. Width + n <= Len(b) /\ m = SubSeq(b, Width + 1, Width + n)
  BY DEF HasMessage, Message
<1>11. n <= MaxMsg
  BY <1>0, <1>2, ProtocolAssumption DEF TooLong
<1> HIDE DEF n, h, m
<1>4. m \in Seq(Byte) /\ Len(m) = n
  <2>1. Width + n <= Len(b) => /\ SubSeq(b, Width + 1, Width + n) \in Seq(Byte)
                               /\ Len(SubSeq(b, Width + 1, Width + n)) = n
    BY <1>0, <1>2, StrRead
  <2> QED
    BY <1>3, <2>1
<1> DEFINE cmd == parse_req(m)
           e == Width + n
           rest == SubSeq(b, e + 1, Len(b))
<1>5. cmd \in Cmds /\ RequestBody(cmd) = m
  <2>1. parse_req(m) # NULL
    BY DEF m
  <2> QED
    BY <1>4, <2>1, Rejoined
<1> HIDE DEF cmd
<1>12. Fits(cmd)
  BY <1>4, <1>5, <1>11 DEF Fits
<1>6. Frame(cmd) = h \o m
  BY <1>2, <1>4, <1>5, FrameIs
<1>7. e \in 0..Len(b) /\ e \in Nat
  BY <1>0, <1>2, <1>3
<1> HIDE DEF e
<1>8. rest \in Seq(Byte) /\ SubSeq(b, 1, e) \o rest = b
  BY <1>7, Remainder, Parted
<1>9. SubSeq(b, 1, e) = h \o m
  <2>1. 1 \in 1..(Len(b) + 1) /\ Width \in (1 - 1)..Len(b) /\ e \in Width..Len(b)
    BY <1>0, <1>2, <1>3 DEF e
  <2>2. SubSeq(b, 1, Width) \o SubSeq(b, Width + 1, e) = SubSeq(b, 1, e)
    BY <2>1, ConcatAdjacentSubSeq
  <2> QED
    BY <1>3, <2>2 DEF h, e
<1>10. Drop(b, Width + Len(m)) = rest
  BY <1>4 DEF Drop, e
<1> QED
  BY <1>5, <1>6, <1>8, <1>9, <1>10, <1>12 DEF cmd, m

(* What begins with one request begins with no other.                        *)
LEMMA OneFirst ==
    ASSUME NEW c \in Cmds, Fits(c), NEW d \in Cmds, Fits(d),
           NEW x \in Seq(Byte), NEW y \in Seq(Byte), Frame(c) \o x = Frame(d) \o y
    PROVE  c = d
<1>1. parse_req(Message(Frame(c) \o x)) = c
  BY FrameFirst
<1>2. parse_req(Message(Frame(d) \o y)) = d
  BY FrameFirst
<1> QED
  BY <1>1, <1>2

(* What the writers append is bytes.                                         *)
LEMMA TagType ==
    /\ Tag("TAG_NIL") \in Byte /\ Tag("TAG_ERR") \in Byte /\ Tag("TAG_STR") \in Byte
    /\ Tag("TAG_INT") \in Byte /\ Tag("TAG_DBL") \in Byte /\ Tag("TAG_ARR") \in Byte
<1>1. 0..5 \subseteq Byte
  BY ProtocolAssumption DEF Byte
<1> QED
  BY <1>1 DEF Tag

LEMMA OneByte ==
    ASSUME NEW x \in Byte
    PROVE  <<x>> \in Seq(Byte) /\ Len(<<x>>) = 1
OBVIOUS

LEMMA ScalarType ==
    ASSUME NEW v \in Plain
    PROVE  Scalar(v) \in Seq(Byte)
<1>1. CASE v = out_nil
  <2>1. v[1] = "TAG_NIL" /\ Scalar(v) = <<Tag("TAG_NIL")>>
    BY <1>1 DEF out_nil, Scalar
  <2> QED
    BY <2>1, TagType, OneByte
<1>2. CASE v \in {"TAG_ERR"} \X ((0..(Power[Width] - 1)) \X Seq(Byte))
  <2>1. /\ v[1] = "TAG_ERR" /\ v[2][1] \in 0..(Power[Width] - 1) /\ v[2][2] \in Seq(Byte)
    BY <1>2
  <2>2. v[2][1] \in Nat
    BY <2>1, ProtocolAssumption, PowerLaw
  <2>3. Scalar(v) = (<<Tag("TAG_ERR")>> \o U32(v[2][1])) \o Str(v[2][2])
    BY <2>1 DEF Scalar
  <2>4. <<Tag("TAG_ERR")>> \in Seq(Byte) /\ U32(v[2][1]) \in Seq(Byte) /\ Str(v[2][2]) \in Seq(Byte)
    BY <2>1, <2>2, TagType, OneByte, U32Type, StrType
  <2>5. <<Tag("TAG_ERR")>> \o U32(v[2][1]) \in Seq(Byte)
    BY <2>4, ConcatProperties
  <2> QED
    BY <2>3, <2>4, <2>5, ConcatProperties
<1>3. CASE v \in {"TAG_STR"} \X Seq(Byte)
  <2>1. v[1] = "TAG_STR" /\ v[2] \in Seq(Byte)
    BY <1>3
  <2>3. Scalar(v) = <<Tag("TAG_STR")>> \o Str(v[2])
    BY <2>1 DEF Scalar
  <2>4. <<Tag("TAG_STR")>> \in Seq(Byte) /\ Str(v[2]) \in Seq(Byte)
    BY <2>1, TagType, OneByte, StrType
  <2> QED
    BY <2>3, <2>4, ConcatProperties
<1>4. CASE v \in {"TAG_INT", "TAG_DBL"} \X [1..(2 * Width) -> Byte]
  <2>1. v[1] \in {"TAG_INT", "TAG_DBL"} /\ v[2] \in [1..(2 * Width) -> Byte]
    BY <1>4
  <2>2. v[2] \in Seq(Byte)
    <3>1. 2 * Width \in Nat
      BY ProtocolAssumption
    <3> QED
      BY <2>1, <3>1
  <2>3. Scalar(v) = <<Tag(v[1])>> \o v[2]
    BY <2>1 DEF Scalar
  <2>4. <<Tag(v[1])>> \in Seq(Byte)
    BY <2>1, TagType, OneByte
  <2> QED
    BY <2>2, <2>3, <2>4, ConcatProperties
<1> QED
  BY <1>1, <1>2, <1>3, <1>4 DEF Plain

LEMMA ScalarsType ==
    ASSUME NEW vs \in Seq(Plain)
    PROVE  Scalars(vs) \in Seq(Byte) /\ Len(vs) \in Nat
<1>1. Len(vs) \in Nat /\ DOMAIN vs = 1..Len(vs) /\ \A i \in 1..Len(vs) : vs[i] \in Plain
  BY LenProperties, ElementOfSeq
<1> DEFINE n == Len(vs)
           ss == [i \in DOMAIN vs |-> Scalar(vs[i])]
<1>2. ss \in [1..n -> Seq(Byte)]
  BY <1>1, ScalarType
<1> HIDE DEF ss, n
<1>3. ss \in Seq(Seq(Byte))
  BY <1>1, <1>2 DEF n
<1>4. FlattenSeq(ss) \in Seq(Byte)
  BY <1>3, FlatType
<1> QED
  BY <1>1, <1>4 DEF Scalars, ss

(* memcpy over a u32.                                                        *)
LEMMA Patched ==
    ASSUME NEW out \in Seq(Byte), NEW d \in Seq(Byte), NEW m \in Nat, NEW n \in Nat
    PROVE  Patch((out \o U32(m)) \o d, Len(out), n) = (out \o U32(n)) \o d
<1> DEFINE o == Len(out)
           a == (out \o U32(m)) \o d
           b == (out \o U32(n)) \o d
           u == U32(m)
           w == U32(n)
           p == Patch(a, o, n)
<1>1. /\ o \in Nat /\ Len(d) \in Nat /\ Width \in Nat
      /\ u \in Seq(Byte) /\ Len(u) = Width /\ w \in Seq(Byte) /\ Len(w) = Width
  BY LenProperties, U32Type
<1> DEFINE L == o + Width + Len(d)
<1>2. ASSUME NEW h \in Seq(Byte), Len(h) = Width
      PROVE  /\ (out \o h) \o d \in Seq(Byte) /\ Len((out \o h) \o d) = L
             /\ \A i \in 1..L : ((out \o h) \o d)[i] =
                   IF i <= o THEN out[i] ELSE IF i <= o + Width THEN h[i - o] ELSE d[i - o - Width]
  <2> DEFINE g == out \o h
             e == g \o d
  <2>1. /\ g \in Seq(Byte) /\ Len(g) = o + Width
        /\ \A i \in 1..(o + Width) : g[i] = IF i <= o THEN out[i] ELSE h[i - o]
    BY <1>2, ConcatProperties
  <2> HIDE DEF g, o
  <2>2. /\ e \in Seq(Byte) /\ Len(e) = L
        /\ \A i \in 1..L : e[i] = IF i <= o + Width THEN g[i] ELSE d[i - (o + Width)]
    BY <2>1, ConcatProperties
  <2> HIDE DEF e
  <2>3. ASSUME NEW i \in 1..L
        PROVE e[i] = IF i <= o THEN out[i] ELSE IF i <= o + Width THEN h[i - o] ELSE d[i - o - Width]
    <3>1. CASE i <= o + Width
      <4>1. i \in 1..(o + Width)
        BY <1>1, <3>1
      <4> HIDE DEF L
      <4>2. e[i] = g[i]
        BY <2>2, <3>1
      <4>3. i <= o => i <= o + Width
        BY <1>1
      <4> QED
        BY <2>1, <3>1, <4>1, <4>2
    <3>2. CASE ~(i <= o + Width)
      <4>1. ~(i <= o) /\ i - (o + Width) = i - o - Width
        BY <1>1, <3>2
      <4> HIDE DEF L
      <4> QED
        BY <2>2, <3>2, <4>1
    <3> QED
      BY <3>1, <3>2
  <2> HIDE DEF L
  <2> QED
    BY <2>2, <2>3 DEF e, g
<1>3. /\ a \in Seq(Byte) /\ Len(a) = L
      /\ \A i \in 1..L : a[i] =
            IF i <= o THEN out[i] ELSE IF i <= o + Width THEN u[i - o] ELSE d[i - o - Width]
  <2> HIDE DEF L, o
  <2> QED
    BY <1>1, <1>2
<1>4. /\ b \in Seq(Byte) /\ Len(b) = L
      /\ \A i \in 1..L : b[i] =
            IF i <= o THEN out[i] ELSE IF i <= o + Width THEN w[i - o] ELSE d[i - o - Width]
  <2> HIDE DEF L, o
  <2> QED
    BY <1>1, <1>2
<1> HIDE DEF a, b, u, o
<1>5. DOMAIN a = 1..L /\ L \in Nat
  BY <1>1, <1>3, LenProperties
<1>6. p = [i \in 1..L |-> IF i \in (o + 1)..(o + Width) THEN w[i - o] ELSE a[i]]
  BY <1>5 DEF Patch
<1> HIDE DEF p, w
<1>7. ASSUME NEW i \in 1..L PROVE p[i] = b[i]
  <2>1. p[i] = IF i \in (o + 1)..(o + Width) THEN w[i - o] ELSE a[i]
    BY <1>6
  <2>2. CASE i <= o
    <3>1. ~(i \in (o + 1)..(o + Width))
      BY <1>1, <2>2
    <3> HIDE DEF L
    <3> QED
      BY <1>3, <1>4, <2>1, <2>2, <3>1
  <2>3. CASE ~(i <= o) /\ i <= o + Width
    <3>1. i \in (o + 1)..(o + Width)
      BY <1>1, <2>3
    <3> HIDE DEF L
    <3> QED
      BY <1>4, <2>1, <2>3, <3>1
  <2>4. CASE ~(i <= o) /\ ~(i <= o + Width)
    <3>1. ~(i \in (o + 1)..(o + Width))
      BY <1>1, <2>4
    <3> HIDE DEF L
    <3> QED
      BY <1>3, <1>4, <2>1, <2>4, <3>1
  <2> QED
    BY <2>2, <2>3, <2>4
<1>8. DOMAIN p = 1..L /\ p = [i \in 1..L |-> p[i]]
  BY <1>6
<1>9. b = [i \in 1..L |-> b[i]]
  BY <1>4, LenProperties
<1> HIDE DEF L
<1>10. p = b
  BY <1>7, <1>8, <1>9
<1> QED
  BY <1>10 DEF p, a, b, o

-----------------------------------------------------------------------------
(* The data of a response.                                                   *)
Data(v) == IF v[1] = "TAG_ARR" THEN ArrKnown(<< >>, v[2]) ELSE Scalar(v)

(* Both ways of writing an array append the same.                            *)
LEMMA ArraysAgree ==
    ASSUME NEW out \in Seq(Byte), NEW vs \in Seq(Plain)
    PROVE  /\ ArrKnown(<< >>, vs) \in Seq(Byte)
           /\ ArrKnown(out, vs) = out \o ArrKnown(<< >>, vs)
           /\ ArrCounted(out, vs) = ArrKnown(out, vs)
<1> DEFINE t == <<Tag("TAG_ARR")>>
           n == Len(vs)
           u == U32(n)
           z == U32(0)
           d == Scalars(vs)
           x == out \o t
<1>1. /\ t \in Seq(Byte) /\ n \in Nat /\ u \in Seq(Byte) /\ z \in Seq(Byte) /\ d \in Seq(Byte)
      /\ Len(z) = Width /\ Width \in Nat
  <2>1. n \in Nat /\ d \in Seq(Byte) /\ t \in Seq(Byte)
    BY ScalarsType, TagType, OneByte
  <2> QED
    BY <2>1, U32Type
<1>2. ArrKnown(<< >>, vs) = (t \o u) \o d /\ (t \o u) \o d \in Seq(Byte)
  <2> HIDE DEF t, u, d
  <2>1. << >> \o t = t
    BY <1>1, ConcatEmptySeq
  <2>2. t \o u \in Seq(Byte)
    BY <1>1, ConcatProperties
  <2>3. (t \o u) \o d \in Seq(Byte)
    BY <1>1, <2>2, ConcatProperties
  <2> QED
    BY <2>1, <2>3 DEF ArrKnown, t, u, d
<1>3. ArrKnown(out, vs) = (x \o u) \o d
  BY DEF ArrKnown
<1>4. (x \o u) \o d = out \o ((t \o u) \o d)
  <2> HIDE DEF t, u, d
  <2>1. t \o u \in Seq(Byte) /\ x \o u = out \o (t \o u)
    BY <1>1, BytesAssociative, ConcatProperties
  <2>2. (out \o (t \o u)) \o d = out \o ((t \o u) \o d)
    BY <1>1, <2>1, BytesAssociative
  <2> QED
    BY <2>1, <2>2
<1>5. ArrCounted(out, vs) = Patch((x \o z) \o d, Len(x \o z) - Width, n)
  BY DEF ArrCounted
<1>6. x \in Seq(Byte) /\ Len(x) \in Nat
  BY <1>1, ConcatProperties, LenProperties
<1> HIDE DEF x
<1>7. Len(x \o z) - Width = Len(x)
  <2> HIDE DEF z
  <2>1. Len(x \o z) = Len(x) + Len(z)
    BY <1>1, <1>6, ConcatProperties
  <2>2. PICK a, b \in Nat : a = Len(x) /\ b = Width
    BY <1>1, <1>6
  <2>3. Len(x \o z) = a + b
    BY <1>1, <2>1, <2>2
  <2> QED
    BY <2>2, <2>3
<1>8. Patch((x \o z) \o d, Len(x), n) = (x \o u) \o d
  <2> HIDE DEF d, n
  <2>1. Patch((x \o U32(0)) \o d, Len(x), n) = (x \o U32(n)) \o d
    <3>1. 0 \in Nat /\ n \in Nat /\ d \in Seq(Byte) /\ x \in Seq(Byte)
      BY <1>1, <1>6
    <3> QED
      BY <3>1, Patched
  <2> QED
    BY <2>1
<1> HIDE DEF t, u, z, d, n
<1> QED
  BY <1>2, <1>3, <1>4, <1>5, <1>7, <1>8

(* do_request appends the same bytes with either writer of arrays.           *)
LEMMA Appended ==
    ASSUME NEW out \in Seq(Byte), NEW v \in Values
    PROVE  Data(v) \in Seq(Byte) /\ do_request(out, v) = {out \o Data(v)}
<1>1. CASE v \in {"TAG_ARR"} \X Seq(Plain)
  <2>1. v[1] = "TAG_ARR" /\ v[2] \in Seq(Plain)
    BY <1>1
  <2>2. do_request(out, v) = {ArrKnown(out, v[2]), ArrCounted(out, v[2])} /\ Data(v) = ArrKnown(<< >>, v[2])
    BY <2>1 DEF do_request, Data
  <2> QED
    BY <2>1, <2>2, ArraysAgree
<1>2. CASE v \in Plain
  <2>1. v[1] # "TAG_ARR"
    BY <1>2 DEF Plain, out_nil
  <2>2. do_request(out, v) = {out \o Scalar(v)} /\ Data(v) = Scalar(v)
    BY <2>1 DEF do_request, Data
  <2> QED
    BY <1>2, <2>2, ScalarType
<1> QED
  BY <1>1, <1>2 DEF Values

(* What a client is to see fits, and is one frame.                           *)
LEMMA VisibleIs ==
    ASSUME NEW v \in Values
    PROVE  /\ Visible(v) \in Values /\ too_big \in Plain /\ Data(too_big) = Scalar(too_big)
           /\ Visible(v) = IF Len(Data(v)) <= MaxMsg THEN v ELSE too_big
           /\ ReplyFrame(v) = U32(Len(Data(Visible(v)))) \o Data(Visible(v))
           /\ ReplyFrame(v) \in Seq(Byte)
<1>1. too_big \in Plain /\ Data(too_big) = Scalar(too_big)
  <2>1. ErrTooBig \in 0..(Power[Width] - 1) /\ TooBigText \in Seq(Byte)
    BY ProtocolAssumption
  <2>2. too_big[1] = "TAG_ERR"
    BY DEF too_big, out_err
  <2>3. too_big \in Plain
    BY <2>1 DEF too_big, out_err, Plain
  <2> QED
    BY <2>2, <2>3 DEF Data
<1>2. ASSUME NEW x \in Values PROVE do_request(<< >>, x) = {Data(x)} /\ Data(x) \in Seq(Byte)
  <2>1. << >> \in Seq(Byte)
    BY EmptySeq
  <2>2. do_request(<< >>, x) = {<< >> \o Data(x)} /\ Data(x) \in Seq(Byte)
    BY <2>1, Appended
  <2> QED
    BY <2>2, ConcatEmptySeq
<1>3. Visible(v) = IF Len(Data(v)) <= MaxMsg THEN v ELSE too_big
  BY <1>2 DEF Visible
<1>4. Visible(v) \in Values
  BY <1>1, <1>3 DEF Values
<1>5. ReplyFrame(v) = U32(Len(Data(Visible(v)))) \o Data(Visible(v))
  BY <1>2, <1>4 DEF ReplyFrame
<1>6. ReplyFrame(v) \in Seq(Byte)
  <2> DEFINE d == Data(Visible(v))
  <2>1. d \in Seq(Byte) /\ Len(d) \in Nat
    BY <1>2, <1>4, LenProperties
  <2> HIDE DEF d
  <2>2. U32(Len(d)) \in Seq(Byte)
    BY <2>1, U32Type
  <2>3. U32(Len(d)) \o d \in Seq(Byte)
    BY <2>1, <2>2, ConcatProperties
  <2> QED
    BY <1>5, <2>3 DEF d
<1> QED
  BY <1>1, <1>3, <1>4, <1>5, <1>6

(* A response is appended whole, in its frame, or as the error that it is    *)
(* too big.                                                                  *)
LEMMA Replied ==
    ASSUME NEW out \in Seq(Byte), NEW v \in Values,
           NEW o, o \in do_request(response_begin(out), v)
    PROVE  response_end(o, Len(out)) = out \o ReplyFrame(v)
<1> DEFINE z == U32(0)
           d == Data(v)
           h == Len(out)
           x == out \o z
           e == Scalar(too_big)
<1>1. /\ z \in Seq(Byte) /\ Len(z) = Width /\ Width \in Nat /\ d \in Seq(Byte) /\ e \in Seq(Byte)
      /\ h \in Nat /\ Len(d) \in Nat /\ Len(e) \in Nat /\ MaxMsg \in Nat
  <2>1. d \in Seq(Byte)
    BY Appended
  <2>2. e \in Seq(Byte)
    BY VisibleIs, ScalarType
  <2>3. z \in Seq(Byte) /\ Len(z) = Width /\ Width \in Nat
    BY U32Type
  <2> HIDE DEF z, d, e
  <2> QED
    BY <2>1, <2>2, <2>3, LenProperties, ProtocolAssumption
<1> HIDE DEF z, d, e, h
<1>2. x \in Seq(Byte) /\ Len(x) = h + Width
  BY <1>1, ConcatProperties DEF h
<1>3. o = x \o d
  <2>1. response_begin(out) = x
    BY DEF response_begin, z
  <2>2. do_request(x, v) = {x \o d}
    BY <1>2, Appended DEF d
  <2> QED
    BY <2>1, <2>2
<1>4. ASSUME NEW t \in Seq(Byte), Len(t) \in Nat
      PROVE  /\ response_size(x \o t, h) = Len(t)
             /\ Patch(x \o t, h, Len(t)) = out \o (U32(Len(t)) \o t)
  <2>1. Len(x \o t) = h + Width + Len(t)
    BY <1>2, <1>4, ConcatProperties
  <2>2. response_size(x \o t, h) = Len(t)
    BY <1>1, <1>4, <2>1 DEF response_size
  <2>3. Patch((out \o U32(0)) \o t, Len(out), Len(t)) = (out \o U32(Len(t))) \o t
    BY <1>4, Patched
  <2>4. U32(Len(t)) \in Seq(Byte)
    BY <1>4, U32Type
  <2>5. (out \o U32(Len(t))) \o t = out \o (U32(Len(t)) \o t)
    BY <2>4, BytesAssociative
  <2> QED
    BY <2>2, <2>3, <2>5 DEF h, z
<1>5. SubSeq(o, 1, h + Width) = x
  BY <1>1, <1>2, <1>3, First
<1> HIDE DEF x
<1>6. CASE Len(d) <= MaxMsg
  <2>1. Visible(v) = v
    BY <1>6, VisibleIs DEF d
  <2>2. ReplyFrame(v) = U32(Len(d)) \o d
    BY <2>1, VisibleIs DEF d
  <2>3. response_size(o, h) = Len(d)
    BY <1>1, <1>3, <1>4
  <2>4. response_end(o, h) = Patch(o, h, response_size(o, h))
    BY <1>6, <2>3 DEF response_end
  <2> QED
    BY <1>1, <1>3, <1>4, <2>2, <2>3, <2>4 DEF h
<1>7. CASE ~(Len(d) <= MaxMsg)
  <2>1. Visible(v) = too_big /\ Data(too_big) = e
    BY <1>7, VisibleIs DEF d, e
  <2>2. ReplyFrame(v) = U32(Len(e)) \o e
    BY <2>1, VisibleIs
  <2>3. response_size(o, h) = Len(d) /\ response_size(x \o e, h) = Len(e)
    BY <1>1, <1>3, <1>4
  <2>4. response_end(o, h) = Patch(x \o e, h, response_size(x \o e, h))
    BY <1>5, <1>7, <2>3 DEF response_end, e
  <2> QED
    BY <1>1, <1>4, <2>2, <2>3, <2>4 DEF h
<1> QED
  BY <1>6, <1>7

-----------------------------------------------------------------------------
(* The inductive invariant.  The types, as far as they matter here;          *)
Entries == [cmd : Cmds, response : Values]

Shapes ==
    /\ script \in Seq(Cmds) /\ stream \in Seq(Byte) /\ asked \in 0..Len(script)
    /\ wbuf \in Seq(Byte) /\ c2s \in Seq(Byte) /\ s2c \in Seq(Byte)
    /\ cpc = "stream" => rbuf \in Seq(Byte)
    /\ served \in Seq(Entries)
    /\ conn \in Conns \cup {NULL}

(* a request is sent only when the one before is written;                    *)
Turns ==
    /\ spc \in {"poll", "requests", "respond", "closed"}
    /\ spc = "closed" <=> conn = NULL
    /\ cpc = "send" => wbuf = << >> /\ asked < Len(script)

(* no byte is lost, doubled or out of place, in either direction;            *)
InOrder ==
    conn # NULL /\ ~broken =>
        /\ stream \o Frames(SubSeq(script, 1, asked))
              = Frames(Executed) \o conn.incoming \o c2s \o wbuf
        /\ cpc = "stream" => ReplyFrames = rbuf \o s2c \o conn.outgoing

(* and the handlers return to poll() with nothing left to do in the buffer.  *)
Rejected(b) == TooLong(b) \/ (HasMessage(b) /\ parse_req(Message(b)) = NULL)
Waiting(b) == ~TooLong(b) /\ ~HasMessage(b)

Phases ==
    /\ spc = "poll" => Waiting(conn.incoming) /\ ~conn.want_close
    /\ spc = "requests" => ~conn.want_close
    /\ spc = "respond" => IF conn.want_close THEN Rejected(conn.incoming) ELSE Waiting(conn.incoming)

PInv == Shapes /\ Turns /\ InOrder /\ Phases

-----------------------------------------------------------------------------
(* Bytes that leave one buffer and enter the one before it.                  *)
LEMMA Moved ==
    ASSUME NEW x \in Seq(Byte), NEW t \in Seq(Byte), NEW n \in 0..Len(t)
    PROVE  /\ SubSeq(t, 1, n) \in Seq(Byte) /\ Drop(t, n) \in Seq(Byte)
           /\ x \o SubSeq(t, 1, n) \in Seq(Byte)
           /\ (x \o SubSeq(t, 1, n)) \o Drop(t, n) = x \o t
           /\ \A y \in Seq(Byte) : (y \o (x \o SubSeq(t, 1, n))) \o Drop(t, n) = (y \o x) \o t
<1> DEFINE p == SubSeq(t, 1, n)
           q == Drop(t, n)
<1>1. p \in Seq(Byte) /\ q \in Seq(Byte) /\ p \o q = t
  BY Beginning, Remainder, Parted DEF Drop
<1> HIDE DEF p, q
<1>2. x \o p \in Seq(Byte) /\ (x \o p) \o q = x \o t
  <2>1. (x \o p) \o q = x \o (p \o q)
    BY <1>1, BytesAssociative
  <2> QED
    BY <1>1, <2>1, ConcatProperties
<1>3. ASSUME NEW y \in Seq(Byte) PROVE (y \o (x \o p)) \o q = (y \o x) \o t
  <2>1. (y \o (x \o p)) \o q = y \o ((x \o p) \o q)
    BY <1>1, <1>2, BytesAssociative
  <2>2. (y \o x) \o t = y \o (x \o t)
    BY BytesAssociative
  <2> QED
    BY <1>2, <2>1, <2>2
<1> QED
  BY <1>1, <1>2, <1>3 DEF p, q

(* read() and write() move what is there.                                    *)
LEMMA Within ==
    ASSUME NEW i \in Nat, NEW j \in Int, NEW n \in 1..Smaller(i, j)
    PROVE  n \in 0..i
BY DEF Smaller

(* The frames of some requests, and of one more.                             *)
LEMMA FramesAppend ==
    ASSUME NEW cmds \in Seq(Cmds), NEW cmd \in Cmds
    PROVE  /\ Frames(cmds) \in Seq(Byte) /\ Frame(cmd) \in Seq(Byte)
           /\ Append(cmds, cmd) \in Seq(Cmds)
           /\ Frames(Append(cmds, cmd)) = Frames(cmds) \o Frame(cmd)
<1> DEFINE n == Len(cmds)
           tt == Append(cmds, cmd)
           ss == [i \in DOMAIN cmds |-> Frame(cmds[i])]
           a == [i \in DOMAIN tt |-> Frame(tt[i])]
           b == Append(ss, Frame(cmd))
<1>1. /\ tt \in Seq(Cmds) /\ Len(tt) = n + 1 /\ n \in Nat /\ tt[n + 1] = cmd
      /\ DOMAIN tt = 1..n + 1 /\ DOMAIN cmds = 1..n
      /\ \A i \in 1..n : tt[i] = cmds[i] /\ cmds[i] \in Cmds
  <2>1. /\ tt \in Seq(Cmds) /\ Len(tt) = n + 1 /\ n \in Nat /\ tt[n + 1] = cmd
        /\ \A i \in 1..n : tt[i] = cmds[i] /\ cmds[i] \in Cmds
    BY AppendProperties, LenProperties, ElementOfSeq
  <2> HIDE DEF tt
  <2>2. DOMAIN tt = 1..n + 1 /\ DOMAIN cmds = 1..n
    BY <2>1, LenProperties
  <2> QED
    BY <2>1, <2>2
<1> HIDE DEF tt, n
<1>2. \A c \in Cmds : Frame(c) \in Seq(Byte)
  BY FrameIs
<1>3. ss \in [1..n -> Seq(Byte)]
  BY <1>1, <1>2
<1>4. a \in [1..n + 1 -> Seq(Byte)]
  <2>1. ASSUME NEW i \in 1..n + 1 PROVE tt[i] \in Cmds
    BY <1>1, <2>1, ElementOfSeq
  <2> QED
    BY <1>1, <1>2, <2>1
<1>5. ss \in Seq(Seq(Byte)) /\ Len(ss) = n /\ a \in Seq(Seq(Byte)) /\ Len(a) = n + 1
  <2> HIDE DEF ss, a
  <2> QED
    BY <1>1, <1>3, <1>4
<1>6. a = b
  <2>1. /\ b \in Seq(Seq(Byte)) /\ Len(b) = n + 1 /\ b[n + 1] = Frame(cmd)
        /\ \A i \in 1..n : b[i] = ss[i]
    <3> HIDE DEF ss
    <3> QED
      BY <1>2, <1>5, AppendProperties
  <2>2. ASSUME NEW i \in 1..n + 1 PROVE a[i] = b[i]
    <3>1. a[i] = Frame(tt[i])
      BY <1>1
    <3>2. CASE i \in 1..n
      <4>1. ss[i] = Frame(cmds[i])
        BY <1>1, <3>2
      <4> HIDE DEF ss, a, b
      <4> QED
        BY <1>1, <2>1, <3>1, <3>2, <4>1
    <3>3. CASE i = n + 1
      <4> HIDE DEF ss, a, b
      <4> QED
        BY <1>1, <2>1, <3>1, <3>3
    <3> QED
      BY <1>1, <3>2, <3>3
  <2> HIDE DEF a, b
  <2> QED
    BY <1>5, <2>1, <2>2, SeqEqual
<1>7. FlattenSeq(b) = FlattenSeq(ss) \o Frame(cmd) /\ FlattenSeq(ss) \in Seq(Byte)
  <2> HIDE DEF ss
  <2> QED
    BY <1>2, <1>5, FlatAppend, FlatType
<1>8. Frames(tt) = FlattenSeq(a) /\ Frames(cmds) = FlattenSeq(ss)
  BY DEF Frames
<1> HIDE DEF a, b, ss
<1> QED
  BY <1>1, <1>2, <1>6, <1>7, <1>8 DEF tt

(* The frames of the responses, and one more.                                *)
LEMMA ServedAppend ==
    ASSUME NEW old \in Seq(Entries), NEW e \in Entries
    PROVE  LET new == Append(old, e)
               cmds(s) == [i \in DOMAIN s |-> s[i].cmd]
               replies(s) == FlattenSeq([i \in DOMAIN s |-> ReplyFrame(s[i].response)]) IN
           /\ new \in Seq(Entries) /\ cmds(old) \in Seq(Cmds) /\ cmds(new) = Append(cmds(old), e.cmd)
           /\ replies(old) \in Seq(Byte) /\ ReplyFrame(e.response) \in Seq(Byte)
           /\ replies(new) = replies(old) \o ReplyFrame(e.response)
<1> DEFINE n == Len(old)
           new == Append(old, e)
           cs == [i \in DOMAIN old |-> old[i].cmd]
           cn == [i \in DOMAIN new |-> new[i].cmd]
           ss == [i \in DOMAIN old |-> ReplyFrame(old[i].response)]
           sn == [i \in DOMAIN new |-> ReplyFrame(new[i].response)]
           f == ReplyFrame(e.response)
<1>1. /\ new \in Seq(Entries) /\ n \in Nat /\ new[n + 1] = e
      /\ DOMAIN new = 1..n + 1 /\ DOMAIN old = 1..n
      /\ \A i \in 1..n : new[i] = old[i] /\ old[i] \in Entries
  <2>1. /\ new \in Seq(Entries) /\ Len(new) = n + 1 /\ n \in Nat /\ new[n + 1] = e
        /\ \A i \in 1..n : new[i] = old[i] /\ old[i] \in Entries
    BY AppendProperties, LenProperties, ElementOfSeq
  <2> HIDE DEF new
  <2>2. DOMAIN new = 1..n + 1 /\ DOMAIN old = 1..n
    BY <2>1, LenProperties
  <2> QED
    BY <2>1, <2>2
<1> HIDE DEF new, n
<1>2. \A x \in Entries : x.cmd \in Cmds /\ x.response \in Values /\ ReplyFrame(x.response) \in Seq(Byte)
  <2>1. \A x \in Entries : x.cmd \in Cmds /\ x.response \in Values
    BY DEF Entries
  <2> QED
    BY <2>1, VisibleIs
<1>3. ss \in [1..n -> Seq(Byte)] /\ cs \in [1..n -> Cmds]
  BY <1>1, <1>2
<1>4. \A i \in 1..n + 1 : new[i] \in Entries
  <2> SUFFICES ASSUME NEW i \in 1..n + 1 PROVE new[i] \in Entries
    OBVIOUS
  <2>1. i \in 1..n \/ i = n + 1
    BY <1>1
  <2> QED
    BY <1>1, <2>1
<1>5. sn \in [1..n + 1 -> Seq(Byte)] /\ cn \in [1..n + 1 -> Cmds]
  BY <1>1, <1>2, <1>4
<1>6. /\ ss \in Seq(Seq(Byte)) /\ Len(ss) = n /\ cs \in Seq(Cmds) /\ Len(cs) = n
      /\ sn \in Seq(Seq(Byte)) /\ Len(sn) = n + 1 /\ cn \in Seq(Cmds) /\ Len(cn) = n + 1
  <2> HIDE DEF ss, cs, sn, cn
  <2> QED
    BY <1>1, <1>3, <1>5
<1>7. /\ \A i \in 1..n : ss[i] = sn[i] /\ cs[i] = cn[i]
      /\ sn[n + 1] = f /\ cn[n + 1] = e.cmd
  <2>1. n + 1 \in 1..n + 1 /\ \A i \in 1..n : i \in 1..n + 1
    BY <1>1
  <2> QED
    BY <1>1, <2>1
<1> HIDE DEF ss, cs, sn, cn, f
<1>8. f \in Seq(Byte) /\ e.cmd \in Cmds
  BY <1>2 DEF f
<1>9. sn = Append(ss, f)
  <2> DEFINE b == Append(ss, f)
  <2>1. /\ b \in Seq(Seq(Byte)) /\ Len(b) = n + 1 /\ b[n + 1] = f
        /\ \A i \in 1..n : b[i] = ss[i]
    BY <1>6, <1>8, AppendProperties
  <2> HIDE DEF b
  <2>2. ASSUME NEW i \in 1..n + 1 PROVE sn[i] = b[i]
    <3>1. i \in 1..n \/ i = n + 1
      BY <1>1
    <3> QED
      BY <1>7, <2>1, <3>1
  <2>3. sn = b
    BY <1>6, <2>1, <2>2, SeqEqual
  <2> QED
    BY <2>3 DEF b
<1>10. cn = Append(cs, e.cmd)
  <2> DEFINE b == Append(cs, e.cmd)
  <2>1. /\ b \in Seq(Cmds) /\ Len(b) = n + 1 /\ b[n + 1] = e.cmd
        /\ \A i \in 1..n : b[i] = cs[i]
    BY <1>6, <1>8, AppendProperties
  <2> HIDE DEF b
  <2>2. ASSUME NEW i \in 1..n + 1 PROVE cn[i] = b[i]
    <3>1. i \in 1..n \/ i = n + 1
      BY <1>1
    <3> QED
      BY <1>7, <2>1, <3>1
  <2>3. cn = b
    BY <1>6, <2>1, <2>2, SeqEqual
  <2> QED
    BY <2>3 DEF b
<1>11. FlattenSeq(sn) = FlattenSeq(ss) \o f /\ FlattenSeq(ss) \in Seq(Byte)
  BY <1>6, <1>8, <1>9, FlatAppend, FlatType
<1> QED
  BY <1>1, <1>6, <1>8, <1>10, <1>11 DEF new, ss, cs, sn, cn, f

(* The history and the connection are what the definitions expect.           *)
LEMMA HistoryType ==
    ASSUME served \in Seq(Entries)
    PROVE  Executed \in Seq(Cmds) /\ Frames(Executed) \in Seq(Byte) /\ ReplyFrames \in Seq(Byte)
<1> DEFINE e == [cmd |-> << >>, response |-> out_nil]
<1>1. e \in Entries /\ << >> \in Cmds
  <2>1. << >> \in Cmds
    BY EmptySeq DEF Cmds
  <2>2. out_nil \in Values
    BY DEF Values, Plain
  <2> QED
    BY <2>1, <2>2 DEF Entries
<1> HIDE DEF e
<1>2. Executed \in Seq(Cmds) /\ ReplyFrames \in Seq(Byte)
  BY <1>1, ServedAppend DEF Executed, ReplyFrames
<1> QED
  BY <1>1, <1>2, FramesAppend

LEMMA ConnType ==
    ASSUME NEW c \in Conns
    PROVE  /\ c.incoming \in Seq(Byte) /\ c.outgoing \in Seq(Byte) /\ c.want_close \in BOOLEAN
           /\ c # NULL
           /\ \A b \in Seq(Byte), w \in BOOLEAN :
                 /\ [c EXCEPT !.incoming = b] \in Conns /\ [c EXCEPT !.outgoing = b] \in Conns
                 /\ [c EXCEPT !.want_close = w] \in Conns
BY NullApart DEF Conns

(* A step of the client that touches neither requests nor the server.        *)
LEMMA PassiveStep ==
    ASSUME PInv, UNCHANGED <<script, stream, asked, wbuf, c2s, broken, conn, spc, served>>,
           cpc' \notin {"send", "stream"}, s2c' \in Seq(Byte)
    PROVE  PInv'
<1>1. Shapes' /\ Turns'
  BY DEF PInv, Shapes, Turns
<1>2. Executed' = Executed
  BY DEF Executed
<1>3. InOrder'
  BY <1>2 DEF PInv, InOrder
<1>4. Phases'
  BY DEF PInv, Phases
<1> QED
  BY <1>1, <1>3, <1>4 DEF PInv

LEMMA StutterStep ==
    ASSUME PInv, UNCHANGED vars
    PROVE  PInv'
<1>1. Shapes' /\ Turns'
  BY DEF PInv, Shapes, Turns, vars, client, server
<1>2. Executed' = Executed /\ ReplyFrames' = ReplyFrames
  BY DEF Executed, ReplyFrames, vars, server
<1>3. InOrder'
  BY <1>2 DEF PInv, InOrder, vars, client, server
<1>4. Phases'
  BY DEF PInv, Phases, vars, server
<1> QED
  BY <1>1, <1>3, <1>4 DEF PInv

(* The client of a script: read_full, and the ends of its run.               *)
LEMMA ReadFullStep ==
    ASSUME PInv, NEW n \in 1..SndCap, ReadFull(n)
    PROVE  PInv'
<1>1. s2c' = Drop(s2c, n) /\ s2c \in Seq(Byte)
  BY DEF ReadFull, PInv, Shapes
<1>2. s2c' \in Seq(Byte)
  <2>1. Len(s2c) \in Nat /\ n \in Nat /\ n >= 1 /\ \A i \in (n + 1)..Len(s2c) : i \in 1..Len(s2c)
    BY <1>1, LenProperties, ProtocolAssumption
  <2>2. \A i \in (n + 1)..Len(s2c) : s2c[i] \in Byte
    BY <1>1, <2>1, ElementOfSeq
  <2>3. n + 1 \in Int /\ Len(s2c) \in Int
    BY <2>1
  <2>4. SubSeq(s2c, n + 1, Len(s2c)) \in Seq(Byte)
    BY <2>2, <2>3, SubSeqProperties
  <2> QED
    BY <1>1, <2>4 DEF Drop
<1>3. cpc' \notin {"send", "stream"}
  <2>1. cpc \in {"header", "body"}
    BY DEF ReadFull
  <2>2. cpc' = cpc \/ cpc' = "done" \/ cpc' = "body" \/ cpc' = "header"
    <3> DEFINE b == rbuf \o SubSeq(s2c, 1, n)
    <3>1. cpc' = cpc \/ HeaderRead(b) \/ BodyRead(b)
      BY DEF ReadFull
    <3> HIDE DEF b
    <3>2. HeaderRead(b) => cpc' = "done" \/ cpc' = "body"
      BY DEF HeaderRead, End
    <3>3. BodyRead(b) => cpc' = "done" \/ cpc' = "header"
      BY DEF BodyRead, End
    <3> QED
      BY <3>1, <3>2, <3>3
  <2> QED
    BY <2>1, <2>2
<1> QED
  BY <1>2, <1>3, PassiveStep DEF ReadFull, server

LEMMA EndStep ==
    ASSUME PInv, WriteFails \/ ReadFails \/ PeerCloses
    PROVE  PInv'
<1>1. /\ UNCHANGED <<script, stream, asked, wbuf, c2s, broken, conn, spc, served>>
      /\ cpc' = "done" /\ s2c' = s2c
  BY DEF WriteFails, ReadFails, PeerCloses, End, server
<1>2. s2c' \in Seq(Byte)
  BY <1>1 DEF PInv, Shapes
<1> QED
  BY <1>1, <1>2, PassiveStep

(* send_req puts a frame behind the stream.                                  *)
LEMMA SendReqStep ==
    ASSUME PInv, send_req
    PROVE  PInv'
<1> DEFINE cmd == script[asked + 1]
<1>1. CASE ~Fits(cmd)
  <2>1. /\ UNCHANGED <<script, stream, asked, wbuf, c2s, broken, conn, spc, served, s2c>>
        /\ cpc' = "done"
    BY <1>1 DEF send_req, End, server
  <2>2. s2c' \in Seq(Byte)
    BY <2>1 DEF PInv, Shapes
  <2> QED
    BY <2>1, <2>2, PassiveStep
<1>2. CASE Fits(cmd)
  <2>1. /\ asked' = asked + 1 /\ wbuf' = Frame(cmd) /\ cpc' = "write" /\ cpc = "send"
        /\ UNCHANGED <<script, stream, rbuf, c2s, s2c, broken, conn, spc, served>>
    BY <1>2 DEF send_req, End, server
  <2>2. /\ script \in Seq(Cmds) /\ stream \in Seq(Byte) /\ asked \in 0..Len(script)
        /\ asked < Len(script) /\ wbuf = << >> /\ c2s \in Seq(Byte)
    BY <2>1 DEF PInv, Shapes, Turns
  <2>3. asked + 1 \in 1..Len(script) /\ Len(script) \in Nat /\ cmd \in Cmds
    <3>1. asked + 1 \in 1..Len(script) /\ Len(script) \in Nat
      BY <2>2, LenProperties
    <3> QED
      BY <2>2, <3>1, ElementOfSeq
  <2> DEFINE k == asked
  <2>4. SubSeq(script, 1, k) \in Seq(Cmds) /\ SubSeq(script, 1, k + 1) = Append(SubSeq(script, 1, k), cmd)
    <3>1. SubSeq(script, 1, k) \in Seq(Cmds)
      BY <2>2, Beginning
    <3>2. PICK i : i = k + 1
      OBVIOUS
    <3>3. i \in 1..Len(script) /\ 1 \in 1..Len(script) /\ i - 1 = k
      BY <2>2, <2>3, <3>2
    <3>4. SubSeq(script, 1, i) = SubSeq(script, 1, i - 1) \o <<script[i]>>
      BY <2>2, <3>3, SubSeqRecursiveSecond
    <3>5. SubSeq(script, 1, i) = SubSeq(script, 1, k) \o <<cmd>>
      BY <3>2, <3>3, <3>4
    <3> QED
      BY <2>3, <3>1, <3>2, <3>5, AppendIsConcat
  <2> HIDE DEF cmd
  <2>5. /\ Frames(SubSeq(script, 1, k)) \in Seq(Byte) /\ Frame(cmd) \in Seq(Byte)
        /\ Frames(SubSeq(script, 1, k + 1)) = Frames(SubSeq(script, 1, k)) \o Frame(cmd)
    BY <2>3, <2>4, FramesAppend
  <2>6. Shapes'
    BY <2>1, <2>2, <2>3, <2>5 DEF PInv, Shapes
  <2>7. Turns' /\ Phases'
    BY <2>1 DEF PInv, Turns, Phases
  <2>8. InOrder'
    <3> SUFFICES ASSUME conn # NULL, ~broken
                 PROVE  stream \o Frames(SubSeq(script, 1, k + 1))
                           = Frames(Executed) \o conn.incoming \o c2s \o Frame(cmd)
      <4>1. Executed' = Executed
        BY <2>1 DEF Executed
      <4> QED
        BY <2>1, <4>1 DEF InOrder
    <3> DEFINE a == Frames(SubSeq(script, 1, k))
               z == Frames(Executed) \o conn.incoming \o c2s
    <3>1. z \in Seq(Byte)
      <4>1. conn.incoming \in Seq(Byte) /\ Frames(Executed) \in Seq(Byte)
        BY ConnType, HistoryType DEF PInv, Shapes
      <4>2. Frames(Executed) \o conn.incoming \in Seq(Byte)
        BY <4>1, ConcatProperties
      <4> QED
        BY <2>2, <4>2, ConcatProperties
    <3>2. stream \o a = z \o << >>
      BY <2>2 DEF PInv, InOrder
    <3>3. stream \o (a \o Frame(cmd)) = (stream \o a) \o Frame(cmd)
      <4> HIDE DEF a
      <4>1. a \in Seq(Byte)
        BY <2>5 DEF a
      <4> QED
        BY <2>2, <2>5, <4>1, BytesAssociative
    <3>4. z \o << >> = z
      BY <3>1, ConcatEmptySeq
    <3> QED
      BY <2>5, <3>2, <3>3, <3>4
  <2> QED
    BY <2>6, <2>7, <2>8 DEF PInv
<1> QED
  BY <1>1, <1>2

(* write_all and the reads of a peer move bytes along.                       *)
LEMMA WriteAllStep ==
    ASSUME PInv, NEW n \in 1..RcvCap, WriteAll(n)
    PROVE  PInv'
<1>1. /\ wbuf \in Seq(Byte) /\ c2s \in Seq(Byte) /\ Len(wbuf) \in Nat /\ Len(c2s) \in Nat
      /\ asked \in 0..Len(script) /\ Len(script) \in Nat
  BY LenProperties DEF PInv, Shapes
<1>2. n \in 0..Len(wbuf)
  <2>1. n \in 1..Smaller(Len(wbuf), RcvCap - Len(c2s)) /\ RcvCap - Len(c2s) \in Int
    BY <1>1, ProtocolAssumption DEF WriteAll
  <2> QED
    BY <1>1, <2>1, Within
<1>3. /\ c2s' = c2s \o SubSeq(wbuf, 1, n) /\ wbuf' = Drop(wbuf, n)
      /\ cpc' = IF wbuf' = << >> /\ cpc = "write" THEN AfterWrite ELSE cpc
      /\ UNCHANGED <<script, stream, asked, rbuf, s2c, broken, conn, spc, served>>
      /\ cpc \in {"write", "stream"}
  BY DEF WriteAll, server
<1>4. /\ c2s' \in Seq(Byte) /\ wbuf' \in Seq(Byte)
      /\ \A y \in Seq(Byte) : (y \o c2s') \o wbuf' = (y \o c2s) \o wbuf
  <2> DEFINE p == c2s \o SubSeq(wbuf, 1, n)
             q == Drop(wbuf, n)
  <2>1. p \in Seq(Byte) /\ q \in Seq(Byte) /\ \A y \in Seq(Byte) : (y \o p) \o q = (y \o c2s) \o wbuf
    BY <1>1, <1>2, Moved
  <2> HIDE DEF p, q
  <2>2. c2s' = p /\ wbuf' = q
    BY <1>3 DEF p, q
  <2> QED
    BY <2>1, <2>2
<1>5. cpc' = "stream" => cpc = "stream"
  BY <1>3 DEF AfterWrite
<1>6. cpc' = "send" => wbuf' = << >> /\ asked < Len(script)
  BY <1>3 DEF AfterWrite
<1>7. Shapes' /\ Turns' /\ Phases'
  BY <1>3, <1>4, <1>5, <1>6 DEF PInv, Shapes, Turns, Phases
<1>8. InOrder'
  <2>1. Executed' = Executed /\ ReplyFrames' = ReplyFrames
    BY <1>3 DEF Executed, ReplyFrames
  <2> SUFFICES ASSUME conn # NULL, ~broken
               PROVE  /\ stream \o Frames(SubSeq(script, 1, asked))
                            = Frames(Executed) \o conn.incoming \o c2s' \o wbuf'
                      /\ cpc' = "stream" => ReplyFrames = rbuf \o s2c \o conn.outgoing
    BY <1>3, <2>1 DEF InOrder
  <2>2. Frames(Executed) \o conn.incoming \in Seq(Byte)
    <3>1. conn.incoming \in Seq(Byte) /\ Frames(Executed) \in Seq(Byte)
      BY ConnType, HistoryType DEF PInv, Shapes
    <3> QED
      BY <3>1, ConcatProperties
  <2>3. /\ stream \o Frames(SubSeq(script, 1, asked))
              = Frames(Executed) \o conn.incoming \o c2s \o wbuf
        /\ cpc = "stream" => ReplyFrames = rbuf \o s2c \o conn.outgoing
    BY DEF PInv, InOrder
  <2> QED
    BY <1>4, <1>5, <2>2, <2>3
<1> QED
  BY <1>7, <1>8 DEF PInv

LEMMA PeerReadsStep ==
    ASSUME PInv, NEW n \in 1..SndCap, PeerReads(n)
    PROVE  PInv'
<1>1. cpc = "stream" /\ rbuf \in Seq(Byte) /\ s2c \in Seq(Byte) /\ Len(s2c) \in Nat
  BY LenProperties DEF PInv, Shapes, PeerReads
<1>2. n \in 0..Len(s2c)
  BY <1>1 DEF PeerReads
<1>3. /\ s2c' = Drop(s2c, n) /\ rbuf' = rbuf \o SubSeq(s2c, 1, n)
      /\ UNCHANGED <<script, stream, asked, cpc, wbuf, c2s, broken, conn, spc, served>>
  BY DEF PeerReads, server
<1>4. s2c' \in Seq(Byte) /\ rbuf' \in Seq(Byte) /\ rbuf' \o s2c' = rbuf \o s2c
  BY <1>1, <1>2, <1>3, Moved
<1>5. Shapes' /\ Turns' /\ Phases'
  BY <1>3, <1>4 DEF PInv, Shapes, Turns, Phases
<1>6. InOrder'
  <2>1. Executed' = Executed /\ ReplyFrames' = ReplyFrames
    BY <1>3 DEF Executed, ReplyFrames
  <2> QED
    BY <1>3, <1>4, <2>1 DEF PInv, InOrder
<1> QED
  BY <1>5, <1>6 DEF PInv

(* After a reset nothing is claimed of the streams.                          *)
LEMMA FailStep ==
    ASSUME PInv, Fail
    PROVE  PInv'
<1>1. s2c \in Seq(Byte) /\ << >> \in Seq(Byte)
  BY EmptySeq DEF PInv, Shapes
<1>2. s2c' \in Seq(Byte)
  <2>1. PICK n \in 0..Len(s2c) : s2c' = SubSeq(s2c, 1, n)
    BY DEF Fail
  <2> QED
    BY <1>1, <2>1, Beginning
<1>3. /\ broken' = TRUE /\ c2s' = << >>
      /\ UNCHANGED <<script, stream, asked, cpc, wbuf, rbuf, conn, spc, served>>
  BY DEF Fail, client, server
<1>4. Shapes' /\ Turns' /\ Phases' /\ InOrder'
  BY <1>1, <1>2, <1>3 DEF PInv, Shapes, Turns, Phases, InOrder
<1> QED
  BY <1>4 DEF PInv

(* Back in the event loop the connection is gone, or as the handler left it. *)
LEMMA HandledIs ==
    ASSUME NEW c \in Conns, Handled(c)
    PROVE  \/ conn' = NULL /\ spc' = "closed"
           \/ conn' = c /\ spc' = "poll" /\ ~c.want_close
BY DEF Handled, conn_destroy

(* A connection that is gone is owed nothing.                                *)
LEMMA ClosedStep ==
    ASSUME PInv, conn' = NULL, spc' = "closed",
           UNCHANGED <<script, stream, asked, cpc, wbuf, rbuf, served, broken>>,
           c2s' \in Seq(Byte), s2c' \in Seq(Byte)
    PROVE  PInv'
BY DEF PInv, Shapes, Turns, Phases, InOrder

(* handle_read takes bytes from the socket, or ends the connection.          *)
LEMMA handle_readStep ==
    ASSUME PInv, handle_read
    PROVE  PInv'
<1>1. /\ conn \in Conns /\ c2s \in Seq(Byte) /\ Len(c2s) \in Nat /\ s2c \in Seq(Byte)
      /\ spc = "poll" /\ conn # NULL /\ ~conn.want_close
      /\ UNCHANGED <<script, stream, asked, cpc, wbuf, rbuf, s2c, served, broken>>
  BY LenProperties DEF PInv, Shapes, Turns, Phases, handle_read, client
<1>2. CASE conn_destroy /\ UNCHANGED c2s
  BY <1>1, <1>2, ClosedStep DEF conn_destroy
<1>3. CASE \E n \in 1..Len(c2s) :
             /\ conn' = [conn EXCEPT !.incoming = @ \o SubSeq(c2s, 1, n)]
             /\ c2s' = Drop(c2s, n)
             /\ spc' = "requests"
  <2>1. PICK n \in 1..Len(c2s) :
             /\ conn' = [conn EXCEPT !.incoming = conn.incoming \o SubSeq(c2s, 1, n)]
             /\ c2s' = Drop(c2s, n)
             /\ spc' = "requests"
    BY <1>3
  <2>2. n \in 0..Len(c2s) /\ conn.incoming \in Seq(Byte)
    BY <1>1, ConnType
  <2> DEFINE p == conn.incoming \o SubSeq(c2s, 1, n)
             q == Drop(c2s, n)
  <2>3. p \in Seq(Byte) /\ q \in Seq(Byte)
        /\ \A y \in Seq(Byte) : (y \o p) \o q = (y \o conn.incoming) \o c2s
    <3>1. PICK x \in Seq(Byte) : x = conn.incoming
      BY <2>2
    <3>2. /\ x \o SubSeq(c2s, 1, n) \in Seq(Byte) /\ q \in Seq(Byte)
          /\ \A y \in Seq(Byte) : (y \o (x \o SubSeq(c2s, 1, n))) \o q = (y \o x) \o c2s
      BY <1>1, <2>2, Moved
    <3> QED
      BY <3>1, <3>2
  <2>4. conn' = [conn EXCEPT !.incoming = p] /\ c2s' = q
    BY <2>1
  <2> HIDE DEF p, q
  <2>5. conn' \in Conns /\ conn' # NULL
    BY <1>1, <2>3, <2>4, ConnType
  <2>6. conn'.incoming = p /\ conn'.outgoing = conn.outgoing /\ conn'.want_close = conn.want_close
    BY <1>1, <2>4 DEF Conns
  <2>7. Shapes' /\ Turns' /\ Phases'
    BY <1>1, <2>1, <2>3, <2>4, <2>5, <2>6 DEF PInv, Shapes, Turns, Phases
  <2>8. InOrder'
    <3>1. Executed' = Executed /\ ReplyFrames' = ReplyFrames
      BY <1>1 DEF Executed, ReplyFrames
    <3>2. Frames(Executed) \in Seq(Byte)
      BY HistoryType DEF PInv, Shapes
    <3> QED
      BY <1>1, <2>3, <2>4, <2>6, <3>1, <3>2 DEF PInv, InOrder
  <2> QED
    BY <2>7, <2>8 DEF PInv
<1> QED
  BY <1>2, <1>3 DEF handle_read

(* What the server takes is one request; what it appends is its response.    *)
LEMMA try_one_requestStep ==
    ASSUME PInv, try_one_request
    PROVE  PInv'
<1> DEFINE b == conn.incoming
<1>1. /\ conn \in Conns /\ c2s \in Seq(Byte) /\ s2c \in Seq(Byte) /\ wbuf \in Seq(Byte)
      /\ served \in Seq(Entries)
      /\ spc = "requests" /\ conn # NULL /\ ~conn.want_close
      /\ UNCHANGED <<script, stream, asked, cpc, wbuf, rbuf, c2s, s2c, broken>>
  BY DEF PInv, Shapes, Turns, Phases, try_one_request, client
<1>2. b \in Seq(Byte) /\ conn.outgoing \in Seq(Byte)
  BY <1>1, ConnType
<1> HIDE DEF b
<1>3. CASE /\ Rejected(b) /\ conn' = [conn EXCEPT !.want_close = TRUE]
           /\ spc' = "respond" /\ UNCHANGED served
  <2>1. conn' \in Conns /\ conn' # NULL
    BY <1>1, <1>3, ConnType
  <2>2. conn'.incoming = b /\ conn'.outgoing = conn.outgoing /\ conn'.want_close
    BY <1>1, <1>3 DEF Conns, b
  <2>3. Shapes' /\ Turns' /\ Phases'
    BY <1>1, <1>3, <2>1, <2>2 DEF PInv, Shapes, Turns, Phases
  <2>4. InOrder'
    <3>1. Executed' = Executed /\ ReplyFrames' = ReplyFrames
      BY <1>3 DEF Executed, ReplyFrames
    <3> QED
      BY <1>1, <2>2, <3>1 DEF PInv, InOrder, b
  <2> QED
    BY <2>3, <2>4 DEF PInv
<1>4. CASE Waiting(b) /\ spc' = "respond" /\ UNCHANGED <<conn, served>>
  <2>1. Shapes' /\ Turns' /\ Phases'
    BY <1>1, <1>4 DEF PInv, Shapes, Turns, Phases, b
  <2>2. InOrder'
    <3>1. Executed' = Executed /\ ReplyFrames' = ReplyFrames
      BY <1>4 DEF Executed, ReplyFrames
    <3> QED
      BY <1>1, <1>4, <3>1 DEF PInv, InOrder
  <2> QED
    BY <2>1, <2>2 DEF PInv
<1>5. CASE /\ ~TooLong(b) /\ HasMessage(b) /\ parse_req(Message(b)) # NULL
           /\ \E v \in Responses : \E out \in do_request(response_begin(conn.outgoing), v) :
                 /\ conn' = [conn EXCEPT !.outgoing = response_end(out, Len(conn.outgoing)),
                                         !.incoming = Drop(b, Width + Len(Message(b)))]
                 /\ served' = Append(served, [cmd |-> parse_req(Message(b)), response |-> v])
           /\ UNCHANGED spc
  <2>0. PICK v \in Responses : \E out \in do_request(response_begin(conn.outgoing), v) :
                 /\ conn' = [conn EXCEPT !.outgoing = response_end(out, Len(conn.outgoing)),
                                         !.incoming = Drop(b, Width + Len(Message(b)))]
                 /\ served' = Append(served, [cmd |-> parse_req(Message(b)), response |-> v])
    BY <1>5
  <2>1. PICK out \in do_request(response_begin(conn.outgoing), v) :
                 /\ conn' = [conn EXCEPT !.outgoing = response_end(out, Len(conn.outgoing)),
                                         !.incoming = Drop(b, Width + Len(Message(b)))]
                 /\ served' = Append(served, [cmd |-> parse_req(Message(b)), response |-> v])
    BY <2>0
  <2>2. v \in Values
    BY ProtocolAssumption
  <2> DEFINE cmd == parse_req(Message(b))
             rest == Drop(b, Width + Len(Message(b)))
             reply == ReplyFrame(v)
             e == [cmd |-> cmd, response |-> v]
             new == conn.outgoing \o reply
  <2>3. cmd \in Cmds /\ rest \in Seq(Byte) /\ b = Frame(cmd) \o rest
    BY <1>2, <1>5, FrameTaken
  <2>4. response_end(out, Len(conn.outgoing)) = new
    BY <1>2, <2>2, Replied
  <2>5. e \in Entries
    BY <2>2, <2>3 DEF Entries
  <2>6. conn' = [conn EXCEPT !.outgoing = new, !.incoming = rest] /\ served' = Append(served, e)
    BY <2>1, <2>4
  <2> HIDE DEF cmd, rest
  <2>7. /\ served' \in Seq(Entries) /\ Executed \in Seq(Cmds) /\ Executed' = Append(Executed, cmd)
        /\ ReplyFrames \in Seq(Byte) /\ reply \in Seq(Byte) /\ ReplyFrames' = ReplyFrames \o reply
    <3>1. e.cmd = cmd /\ e.response = v
      OBVIOUS
    <3> HIDE DEF e
    <3> QED
      BY <1>1, <2>5, <2>6, <3>1, ServedAppend DEF Executed, ReplyFrames
  <2> HIDE DEF reply, e
  <2>8. /\ Frames(Executed) \in Seq(Byte) /\ Frame(cmd) \in Seq(Byte)
        /\ Frames(Executed') = Frames(Executed) \o Frame(cmd)
    BY <2>3, <2>7, FramesAppend
  <2>9. new \in Seq(Byte)
    BY <1>2, <2>7, ConcatProperties
  <2>10. /\ conn' \in Conns /\ conn' # NULL /\ conn'.incoming = rest /\ conn'.outgoing = new
         /\ conn'.want_close = conn.want_close
    <3> HIDE DEF new
    <3>1. conn' \in Conns
      BY <1>1, <2>3, <2>6, <2>9 DEF Conns
    <3> QED
      BY <1>1, <2>6, <3>1, NullApart DEF Conns
  <2>11. Shapes' /\ Turns' /\ Phases'
    BY <1>1, <1>5, <2>7, <2>10 DEF PInv, Shapes, Turns, Phases
  <2>12. InOrder'
    <3> SUFFICES ASSUME ~broken
                 PROVE  /\ stream \o Frames(SubSeq(script, 1, asked))
                              = Frames(Executed') \o rest \o c2s \o wbuf
                        /\ cpc = "stream" => ReplyFrames' = rbuf \o s2c \o new
      BY <1>1, <2>10 DEF InOrder
    <3>1. (Frames(Executed) \o Frame(cmd)) \o rest = Frames(Executed) \o b
      <4> DEFINE a == Frames(Executed)
                 f == Frame(cmd)
      <4>1. a \in Seq(Byte) /\ f \in Seq(Byte)
        BY <2>8
      <4> HIDE DEF a, f
      <4>2. (a \o f) \o rest = a \o (f \o rest)
        BY <2>3, <4>1, BytesAssociative
      <4> QED
        BY <2>3, <4>2 DEF a, f
    <3>2. stream \o Frames(SubSeq(script, 1, asked)) = Frames(Executed') \o rest \o c2s \o wbuf
      BY <1>1, <2>8, <3>1 DEF PInv, InOrder, b
    <3>3. ASSUME cpc = "stream" PROVE ReplyFrames' = rbuf \o s2c \o new
      <4>1. ReplyFrames = (rbuf \o s2c) \o conn.outgoing /\ rbuf \o s2c \in Seq(Byte)
        <5>1. rbuf \in Seq(Byte)
          BY <3>3 DEF PInv, Shapes
        <5>2. rbuf \o s2c \in Seq(Byte)
          BY <1>1, <5>1, ConcatProperties
        <5> QED
          BY <1>1, <3>3, <5>2 DEF PInv, InOrder
      <4> DEFINE a == rbuf \o s2c
                 o == conn.outgoing
      <4>2. a \in Seq(Byte) /\ o \in Seq(Byte)
        BY <1>2, <4>1
      <4> HIDE DEF a, o
      <4>3. (a \o o) \o reply = a \o (o \o reply)
        BY <2>7, <4>2, BytesAssociative
      <4> QED
        BY <2>7, <4>1, <4>3 DEF a, o
    <3> QED
      BY <3>2, <3>3
  <2> QED
    BY <2>11, <2>12 DEF PInv
<1> QED
  BY <1>3, <1>4, <1>5 DEF try_one_request, Rejected, Waiting, b

-----------------------------------------------------------------------------
(* The end of a handler of a connection whose buffer holds no whole request. *)
LEMMA WaitingStep ==
    ASSUME PInv, conn \in Conns, NEW c \in Conns, Handled(c),
           UNCHANGED <<script, stream, asked, cpc, wbuf, rbuf, c2s, served, broken>>,
           s2c' \in Seq(Byte), c.incoming = conn.incoming,
           ~c.want_close => Waiting(c.incoming),
           ~broken /\ rbuf \in Seq(Byte) => (rbuf \o s2c') \o c.outgoing = (rbuf \o s2c) \o conn.outgoing
    PROVE  PInv'
<1>1. CASE conn' = NULL /\ spc' = "closed"
  <2>1. c2s' \in Seq(Byte)
    BY DEF PInv, Shapes
  <2> QED
    BY <1>1, <2>1, ClosedStep
<1>2. CASE conn' = c /\ spc' = "poll" /\ ~c.want_close
  <2>1. conn' # NULL /\ conn # NULL
    BY <1>2, ConnType
  <2>2. Shapes' /\ Turns' /\ Phases'
    BY <1>2, <2>1 DEF PInv, Shapes, Turns, Phases
  <2>3. InOrder'
    <3>1. Executed' = Executed /\ ReplyFrames' = ReplyFrames
      BY DEF Executed, ReplyFrames
    <3> SUFFICES ASSUME ~broken
                 PROVE  /\ stream \o Frames(SubSeq(script, 1, asked))
                              = Frames(Executed) \o c.incoming \o c2s \o wbuf
                        /\ cpc = "stream" => ReplyFrames = rbuf \o s2c' \o c.outgoing
      BY <1>2, <2>1, <3>1 DEF InOrder
    <3>2. cpc = "stream" => rbuf \in Seq(Byte)
      BY DEF PInv, Shapes
    <3>3. /\ stream \o Frames(SubSeq(script, 1, asked))
                = Frames(Executed) \o conn.incoming \o c2s \o wbuf
          /\ cpc = "stream" => ReplyFrames = rbuf \o s2c \o conn.outgoing
      BY <2>1 DEF PInv, InOrder
    <3> QED
      BY <3>2, <3>3
  <2> QED
    BY <2>2, <2>3 DEF PInv
<1> QED
  BY <1>1, <1>2, HandledIs

(* handle_write, which keeps the streams and returns to the event loop.      *)
LEMMA handle_writeStep ==
    ASSUME PInv, conn \in Conns, NEW c \in Conns, handle_write(c),
           UNCHANGED <<script, stream, asked, cpc, wbuf, rbuf, c2s, served, broken>>,
           c.incoming = conn.incoming, c.outgoing = conn.outgoing,
           ~c.want_close => Waiting(c.incoming)
    PROVE  PInv'
<1>0. s2c \in Seq(Byte) /\ Len(s2c) \in Nat
  BY LenProperties DEF PInv, Shapes
<1>1. CASE broken /\ Handled([c EXCEPT !.want_close = TRUE]) /\ UNCHANGED s2c
  <2> DEFINE d == [c EXCEPT !.want_close = TRUE]
  <2>1. d \in Conns /\ d.incoming = c.incoming /\ d.want_close
    BY ConnType DEF Conns
  <2>2. Handled(d)
    BY <1>1
  <2> HIDE DEF d
  <2>3. s2c' \in Seq(Byte)
    BY <1>0, <1>1
  <2> QED
    BY <1>1, <2>1, <2>2, <2>3, WaitingStep
<1>2. CASE ~broken /\ Handled(c) /\ UNCHANGED s2c
  <2>1. s2c' \in Seq(Byte) /\ (rbuf \o s2c') \o c.outgoing = (rbuf \o s2c) \o conn.outgoing
    BY <1>0, <1>2
  <2> QED
    BY <1>2, <2>1, WaitingStep
<1>3. CASE /\ ~broken
           /\ \E n \in 1..Smaller(Len(c.outgoing), SndCap - Len(s2c)) :
                 LET rest == Drop(c.outgoing, n) IN
                 /\ s2c' = s2c \o SubSeq(c.outgoing, 1, n)
                 /\ Handled([c EXCEPT !.outgoing = rest,
                                      !.want_read = IF rest = << >> THEN TRUE ELSE @,
                                      !.want_write = IF rest = << >> THEN FALSE ELSE @])
  <2> DEFINE out == c.outgoing
  <2>1. PICK n \in 1..Smaller(Len(out), SndCap - Len(s2c)) :
                 /\ s2c' = s2c \o SubSeq(out, 1, n)
                 /\ Handled([c EXCEPT !.outgoing = Drop(out, n),
                                      !.want_read = IF Drop(out, n) = << >> THEN TRUE ELSE c.want_read,
                                      !.want_write = IF Drop(out, n) = << >> THEN FALSE ELSE c.want_write])
    BY <1>3
  <2>2. out \in Seq(Byte) /\ Len(out) \in Nat
    BY ConnType, LenProperties
  <2> HIDE DEF out
  <2>3. n \in 0..Len(out)
    <3>1. SndCap - Len(s2c) \in Int
      BY <1>0, ProtocolAssumption
    <3> QED
      BY <2>2, <3>1, Within
  <2> DEFINE p == s2c \o SubSeq(out, 1, n)
             q == Drop(out, n)
             d == [c EXCEPT !.outgoing = q,
                            !.want_read = IF q = << >> THEN TRUE ELSE c.want_read,
                            !.want_write = IF q = << >> THEN FALSE ELSE c.want_write]
  <2>4. p \in Seq(Byte) /\ q \in Seq(Byte)
        /\ \A y \in Seq(Byte) : (y \o p) \o q = (y \o s2c) \o out
    BY <1>0, <2>2, <2>3, Moved
  <2>5. s2c' = p /\ Handled(d)
    BY <2>1
  <2> HIDE DEF p, q
  <2>6. d \in Conns /\ d.incoming = c.incoming /\ d.outgoing = q /\ d.want_close = c.want_close
    <3>1. (IF q = << >> THEN TRUE ELSE c.want_read) \in BOOLEAN
          /\ (IF q = << >> THEN FALSE ELSE c.want_write) \in BOOLEAN
      BY DEF Conns
    <3> QED
      BY <2>4, <3>1 DEF Conns
  <2> HIDE DEF d
  <2>7. /\ s2c' \in Seq(Byte)
        /\ rbuf \in Seq(Byte) => (rbuf \o s2c') \o d.outgoing = (rbuf \o s2c) \o conn.outgoing
    BY <2>4, <2>5, <2>6 DEF out
  <2> QED
    BY <2>5, <2>6, <2>7, WaitingStep
<1> QED
  BY <1>1, <1>2, <1>3 DEF handle_write

(* Its two callers.                                                          *)
LEMMA RespondStep ==
    ASSUME PInv, Respond
    PROVE  PInv'
<1>1. /\ conn \in Conns /\ spc = "respond" /\ s2c \in Seq(Byte)
      /\ UNCHANGED <<script, stream, asked, cpc, wbuf, rbuf, c2s, served, broken>>
      /\ ~conn.want_close => Waiting(conn.incoming)
  BY DEF PInv, Shapes, Turns, Phases, Respond, client
<1>2. CASE handle_write([conn EXCEPT !.want_read = FALSE, !.want_write = TRUE])
  <2> DEFINE c == [conn EXCEPT !.want_read = FALSE, !.want_write = TRUE]
  <2>1. c \in Conns /\ c.incoming = conn.incoming /\ c.outgoing = conn.outgoing
        /\ c.want_close = conn.want_close
    BY <1>1 DEF Conns
  <2>2. handle_write(c)
    BY <1>2
  <2> HIDE DEF c
  <2> QED
    BY <1>1, <2>1, <2>2, handle_writeStep
<1>3. CASE Handled(conn) /\ UNCHANGED s2c
  <2>1. s2c' \in Seq(Byte) /\ (rbuf \o s2c') \o conn.outgoing = (rbuf \o s2c) \o conn.outgoing
    BY <1>1, <1>3
  <2> QED
    BY <1>1, <1>3, <2>1, WaitingStep
<1> QED
  BY <1>2, <1>3 DEF Respond

LEMMA WritableStep ==
    ASSUME PInv, Writable
    PROVE  PInv'
<1>1. /\ conn \in Conns
      /\ UNCHANGED <<script, stream, asked, cpc, wbuf, rbuf, c2s, served, broken>>
      /\ Waiting(conn.incoming) /\ handle_write(conn)
  BY DEF PInv, Shapes, Turns, Phases, Writable, client
<1> QED
  BY <1>1, handle_writeStep

LEMMA IdleTimeoutStep ==
    ASSUME PInv, IdleTimeout
    PROVE  PInv'
<1>1. /\ UNCHANGED <<script, stream, asked, cpc, wbuf, rbuf, c2s, s2c, served, broken>>
      /\ conn' = NULL /\ spc' = "closed"
  BY DEF IdleTimeout, conn_destroy, client
<1>2. c2s' \in Seq(Byte) /\ s2c' \in Seq(Byte)
  BY <1>1 DEF PInv, Shapes
<1> QED
  BY <1>1, <1>2, ClosedStep

-----------------------------------------------------------------------------
(* PInv holds at first,                                                      *)
LEMMA Initially ==
    ASSUME Init
    PROVE  PInv
<1>1. /\ << >> \in Seq(Byte) /\ << >> \in Seq(Cmds) /\ << >> \in Seq(Entries) /\ Len(<< >>) = 0
      /\ Scripts \subseteq Seq(Cmds) \ {<< >>} /\ Streams \subseteq Seq(Byte)
  BY EmptySeq, ProtocolAssumption
<1>2. /\ script \in Seq(Cmds) /\ stream \in Seq(Byte) /\ wbuf = stream /\ asked = 0
      /\ cpc = "send" => wbuf = << >> /\ script # << >>
  BY <1>1 DEF Init
<1>3. Len(script) \in Nat /\ (cpc = "send" => 0 < Len(script))
  BY <1>2, EmptySeq, LenProperties
<1>4. NewConn \in Conns /\ NewConn # NULL /\ NewConn.incoming = << >> /\ NewConn.outgoing = << >>
      /\ ~NewConn.want_close
  <2>1. NewConn \in Conns
    BY <1>1 DEF NewConn, Conns
  <2> QED
    BY <2>1, NullApart DEF NewConn
<1>5. /\ conn = NewConn /\ spc = "poll" /\ served = << >> /\ c2s = << >> /\ s2c = << >> /\ rbuf = << >>
  BY DEF Init
<1>6. Shapes /\ Turns
  BY <1>1, <1>2, <1>3, <1>4, <1>5 DEF Shapes, Turns
<1>7. Phases
  <2>1. ~(Len(<< >>) >= Width)
    BY <1>1, ProtocolAssumption
  <2> QED
    BY <1>4, <1>5, <2>1 DEF Phases, Waiting, TooLong, HasMessage
<1>8. InOrder
  <2>1. SubSeq(script, 1, 0) = << >>
    BY SubSeqEmpty
  <2>2. Frames(<< >>) = << >> /\ Executed = << >> /\ ReplyFrames = << >>
    <3>1. \A f : DOMAIN f = {} => f = << >>
      OBVIOUS
    <3> QED
      BY <1>5, FlatEmpty DEF Frames, Executed, ReplyFrames
  <2>3. \A s \in Seq(Byte) : s \o << >> = s /\ << >> \o s = s
    BY ConcatEmptySeq
  <2>4. << >> \o << >> = << >>
    BY <1>1, <2>3
  <2>5. stream \o << >> = stream /\ << >> \o stream = stream
    BY <1>2, <2>3
  <2> QED
    BY <1>2, <1>4, <1>5, <2>1, <2>2, <2>4, <2>5 DEF InOrder
<1> QED
  BY <1>6, <1>7, <1>8 DEF PInv

(* every step keeps it,                                                      *)
LEMMA Step ==
    ASSUME PInv, [Next]_vars
    PROVE  PInv'
<1>1. ASSUME Client PROVE PInv'
  BY <1>1, SendReqStep, WriteAllStep, EndStep, ReadFullStep DEF Client
<1>2. ASSUME Peer PROVE PInv'
  BY <1>2, PeerReadsStep, EndStep DEF Peer
<1>3. ASSUME Server PROVE PInv'
  BY <1>3, handle_readStep, try_one_requestStep, RespondStep, WritableStep DEF Server
<1>4. ASSUME IdleTimeout PROVE PInv'
  BY <1>4, IdleTimeoutStep
<1>5. ASSUME Fail PROVE PInv'
  BY <1>5, FailStep
<1>6. ASSUME UNCHANGED vars PROVE PInv'
  BY <1>6, StutterStep
<1> QED
  BY <1>1, <1>2, <1>3, <1>4, <1>5, <1>6 DEF Next

(* and it says more than FramesExact.                                        *)
LEMMA Exact ==
    ASSUME PInv
    PROVE  FramesExact
<1> SUFFICES ASSUME conn # NULL, ~broken
             PROVE  /\ stream \o Frames(SubSeq(script, 1, asked))
                          = Frames(Executed) \o conn.incoming \o c2s \o wbuf
                    /\ cpc = "stream" => ReplyFrames = rbuf \o s2c \o conn.outgoing
                    /\ spc = "poll" => \A f \in RequestFrames : ~IsPrefix(f, conn.incoming)
                    /\ conn.want_close => \A f \in RequestFrames :
                          ~IsPrefix(f, conn.incoming) /\ ~IsPrefix(conn.incoming, f)
  BY DEF FramesExact
<1>1. conn.incoming \in Seq(Byte) /\ conn \in Conns
  BY ConnType DEF PInv, Shapes
<1>2. ASSUME NEW f \in RequestFrames
      PROVE  /\ IsPrefix(f, conn.incoming) => ~Waiting(conn.incoming) /\ ~Rejected(conn.incoming)
             /\ IsPrefix(conn.incoming, f) => ~Rejected(conn.incoming)
  <2>1. PICK cmd \in Cmds : Fits(cmd) /\ f = Frame(cmd)
    BY ProtocolAssumption DEF RequestFrames
  <2> QED
    BY <1>1, <2>1, FrameWaited, FrameBegun DEF Waiting, Rejected
<1>3. conn.want_close => Rejected(conn.incoming)
  <2>1. spc \in {"poll", "requests", "respond"}
    BY DEF PInv, Turns
  <2> QED
    BY <2>1 DEF PInv, Phases
<1> QED
  BY <1>2, <1>3 DEF PInv, InOrder, Phases

-----------------------------------------------------------------------------
(* FramesExact, for any widths, limits, socket sizes, requests and streams:  *)
(* try_one_request and parse_req execute exactly the requests that the bytes *)
(* taken so far begin with, answer each behind the one before, sleep on none *)
(* that is complete and reject only what cannot become one.                  *)
THEOREM FramesCorrect == Spec => []FramesExact
<1>1. Init => PInv
  BY Initially
<1>2. PInv /\ [Next]_vars => PInv'
  BY Step
<1>3. PInv => FramesExact
  BY Exact
<1> QED
  BY <1>1, <1>2, <1>3, PTL DEF Spec

-----------------------------------------------------------------------------
(* print_response shows what the writers wrote.                              *)

(* The bytes of q stand in data from offset at on.                           *)
Holds(data, at, q) ==
    /\ at + Len(q) <= Len(data)
    /\ \A i \in 1..Len(q) : data[at + i] = q[i]

LEMMA HoldsAll ==
    ASSUME NEW data \in Seq(Byte)
    PROVE  Holds(data, 0, data)
<1>1. Len(data) \in Nat
  BY LenProperties
<1>2. \A i \in 1..Len(data) : 0 + i = i
  BY <1>1
<1> QED
  BY <1>1, <1>2 DEF Holds

LEMMA HoldsParts ==
    ASSUME NEW data \in Seq(Byte), NEW at \in Nat, NEW q \in Seq(Byte), NEW r \in Seq(Byte),
           Holds(data, at, q \o r)
    PROVE  /\ Holds(data, at, q) /\ Holds(data, at + Len(q), r)
           /\ at + Len(q) \in Nat
<1>1. /\ q \o r \in Seq(Byte) /\ Len(q \o r) = Len(q) + Len(r)
      /\ \A i \in 1..(Len(q) + Len(r)) : (q \o r)[i] = IF i <= Len(q) THEN q[i] ELSE r[i - Len(q)]
      /\ Len(q) \in Nat /\ Len(r) \in Nat /\ Len(data) \in Nat
  BY ConcatProperties, LenProperties
<1> DEFINE v == q \o r
<1>2. at + Len(v) <= Len(data) /\ \A i \in 1..Len(v) : data[at + i] = v[i]
  BY DEF Holds
<1>3. /\ Len(v) = Len(q) + Len(r)
      /\ \A i \in 1..(Len(q) + Len(r)) : v[i] = IF i <= Len(q) THEN q[i] ELSE r[i - Len(q)]
  BY <1>1
<1> HIDE DEF v
<1>4. Holds(data, at, q)
  <2>1. ASSUME NEW i \in 1..Len(q) PROVE data[at + i] = q[i]
    <3>1. i \in 1..(Len(q) + Len(r)) /\ i <= Len(q)
      BY <1>1
    <3> QED
      BY <1>2, <1>3, <3>1
  <2> QED
    BY <1>1, <1>2, <1>3, <2>1 DEF Holds
<1>5. Holds(data, at + Len(q), r)
  <2>1. ASSUME NEW i \in 1..Len(r) PROVE data[(at + Len(q)) + i] = r[i]
    <3>1. PICK j : j = Len(q) + i
      OBVIOUS
    <3>2. j \in 1..(Len(q) + Len(r)) /\ ~(j <= Len(q)) /\ j - Len(q) = i /\ at + j = (at + Len(q)) + i
      BY <1>1, <3>1
    <3>3. v[j] = r[i] /\ data[at + j] = v[j]
      BY <1>2, <1>3, <3>2
    <3> QED
      BY <3>2, <3>3
  <2>2. (at + Len(q)) + Len(r) <= Len(data)
    BY <1>1, <1>2, <1>3
  <2> QED
    BY <2>1, <2>2 DEF Holds
<1> QED
  BY <1>1, <1>4, <1>5

LEMMA HoldsSub ==
    ASSUME NEW data \in Seq(Byte), NEW at \in Nat, NEW q \in Seq(Byte), Holds(data, at, q)
    PROVE  SubSeq(data, at + 1, at + Len(q)) = q
<1>1. Len(q) \in Nat /\ Len(data) \in Nat /\ at + Len(q) <= Len(data)
  BY LenProperties DEF Holds
<1> DEFINE sub == SubSeq(data, at + 1, at + Len(q))
<1>2. /\ SubSeq(data, at + 1, at + Len(q)) \in Seq(Byte)
      /\ Len(SubSeq(data, at + 1, at + Len(q))) =
            IF at + 1 <= at + Len(q) THEN at + Len(q) - (at + 1) + 1 ELSE 0
      /\ \A i \in 1..(at + Len(q) - (at + 1) + 1) :
            SubSeq(data, at + 1, at + Len(q))[i] = data[at + 1 + i - 1]
  <2>1. \A i \in (at + 1)..(at + Len(q)) : data[i] \in Byte
    <3>1. \A i \in (at + 1)..(at + Len(q)) : i \in 1..Len(data)
      BY <1>1
    <3> QED
      BY <3>1, ElementOfSeq
  <2>2. at + 1 \in Int /\ at + Len(q) \in Int
    BY <1>1
  <2> QED
    BY <2>1, <2>2, SubSeqProperties
<1>3. sub \in Seq(Byte) /\ Len(sub) = Len(q)
  BY <1>1, <1>2
<1>4. ASSUME NEW i \in 1..Len(q) PROVE sub[i] = q[i]
  <2>1. i \in 1..(at + Len(q) - (at + 1) + 1) /\ at + 1 + i - 1 = at + i
    BY <1>1
  <2> QED
    BY <1>2, <2>1 DEF Holds
<1> HIDE DEF sub
<1>5. sub = q
  BY <1>3, <1>4, SeqEqual
<1> QED
  BY <1>5 DEF sub

(* A tag, a number or a text found at an offset.                           *)
LEMMA TagAt ==
    ASSUME NEW data \in Seq(Byte), NEW at \in Nat, NEW b \in Byte, NEW q \in Seq(Byte),
           Holds(data, at, <<b>> \o q)
    PROVE  data[at + 1] = b /\ at + 1 \in Nat /\ Holds(data, at + 1, q) /\ Len(<<b>> \o q) = 1 + Len(q)
<1>1. <<b>> \in Seq(Byte) /\ Len(<<b>>) = 1 /\ <<b>>[1] = b
  BY OneByte
<1>2. Holds(data, at, <<b>>) /\ Holds(data, at + 1, q)
  BY <1>1, HoldsParts
<1>3. data[at + 1] = b
  BY <1>1, <1>2 DEF Holds
<1> QED
  BY <1>1, <1>2, <1>3, ConcatProperties

LEMMA NumAt ==
    ASSUME NEW data \in Seq(Byte), NEW at \in Nat, NEW n \in Nat, n < Power[Width],
           NEW q \in Seq(Byte), Holds(data, at, U32(n) \o q)
    PROVE  /\ Num(SubSeq(data, at + 1, at + Width)) = n
           /\ at + Width \in Nat /\ Holds(data, at + Width, q)
           /\ Len(U32(n) \o q) = Width + Len(q)
<1> DEFINE u == U32(n)
<1>1. u \in Seq(Byte) /\ Len(u) = Width /\ Width \in Nat /\ Num(u) = n
  BY U32Type, NumU32
<1> HIDE DEF u
<1>2. Holds(data, at, u) /\ Holds(data, at + Width, q)
  BY <1>1, HoldsParts DEF u
<1>3. SubSeq(data, at + 1, at + Width) = u
  BY <1>1, <1>2, HoldsSub
<1>4. Len(u \o q) = Width + Len(q)
  BY <1>1, ConcatProperties
<1>5. at + Width \in Nat
  BY <1>1
<1>6. Holds(data, at + Width, q)
  BY <1>1, <1>2
<1>7. Num(SubSeq(data, at + 1, at + Width)) = n
  BY <1>1, <1>3, Zenon
<1> QED
  BY <1>4, <1>5, <1>6, <1>7 DEF u

LEMMA TextAt ==
    ASSUME NEW data \in Seq(Byte), Len(data) <= MaxMsg, NEW at \in Nat, NEW s \in Seq(Byte),
           Holds(data, at, Str(s))
    PROVE  /\ Num(SubSeq(data, at + 1, at + Width)) = Len(s)
           /\ SubSeq(data, at + Width + 1, at + Width + Len(s)) = s
           /\ at + Width + Len(s) <= Len(data)
<1>0. /\ Len(s) \in Nat /\ Width \in Nat /\ Len(data) \in Nat /\ Str(s) = U32(Len(s)) \o s
      /\ MaxMsg \in Nat /\ MaxMsg < Power[Width] /\ Power[Width] \in Nat
  BY StrType, LenProperties, ProtocolAssumption, PowerLaw DEF Str
<1>1. at + Len(Str(s)) <= Len(data) /\ Len(Str(s)) = Width + Len(s)
  BY StrType DEF Holds
<1>2. Len(s) < Power[Width]
  BY <1>0, <1>1
<1>3. /\ Num(SubSeq(data, at + 1, at + Width)) = Len(s)
      /\ at + Width \in Nat /\ Holds(data, at + Width, s)
  BY <1>0, <1>2, NumAt
<1>4. SubSeq(data, at + Width + 1, at + Width + Len(s)) = s
  BY <1>3, HoldsSub
<1> QED
  BY <1>0, <1>1, <1>3, <1>4

(* The tags differ.                                                          *)
LEMMA TagsDiffer ==
    /\ Tag("TAG_NIL") = 0 /\ Tag("TAG_ERR") = 1 /\ Tag("TAG_STR") = 2
    /\ Tag("TAG_INT") = 3 /\ Tag("TAG_DBL") = 4 /\ Tag("TAG_ARR") = 5
BY DEF Tag

(* One value of each kind, as PrintOne reads it.                           *)
LEMMA PrintNil ==
    ASSUME NEW data \in Seq(Byte), NEW at \in Nat, NEW inner, Holds(data, at, Scalar(out_nil))
    PROVE  PrintOne(data, at, inner) = took(out_nil, Len(Scalar(out_nil))) /\ Len(Scalar(out_nil)) = 1
<1> DEFINE t == Tag("TAG_NIL")
<1>1. Scalar(out_nil) = <<t>>
  BY DEF out_nil, Scalar
<1>2. t \in Byte /\ t = 0 /\ Len(<<t>>) = 1 /\ <<t>>[1] = t
  BY TagType, TagsDiffer
<1> HIDE DEF t
<1>3. data[at + 1] = t /\ at + 1 <= Len(data)
  BY <1>1, <1>2 DEF Holds
<1>4. Len(data) \in Nat /\ ~(Len(data) - at < 1)
  BY <1>3, LenProperties
<1>5. PrintOne(data, at, inner) = took(out_nil, 1)
  BY <1>2, <1>3, <1>4, TagsDiffer DEF PrintOne
<1> QED
  BY <1>1, <1>2, <1>5

LEMMA PrintStr ==
    ASSUME NEW data \in Seq(Byte), Len(data) <= MaxMsg, NEW at \in Nat, NEW inner,
           NEW s \in Seq(Byte), Holds(data, at, Scalar(out_str(s)))
    PROVE  /\ PrintOne(data, at, inner) = took(out_str(s), Len(Scalar(out_str(s))))
           /\ Len(Scalar(out_str(s))) \in Nat \ {0}
<1> DEFINE t == Tag("TAG_STR")
           n == Len(s)
<1>1. Scalar(out_str(s)) = <<t>> \o Str(s)
  BY DEF out_str, Scalar
<1>2. /\ t \in Byte /\ t = 2 /\ Str(s) \in Seq(Byte) /\ Len(Str(s)) = Width + n /\ n \in Nat
      /\ Width \in Nat /\ Len(data) \in Nat
  BY TagType, TagsDiffer, StrType, ProtocolAssumption, LenProperties
<1> HIDE DEF t, n
<1>3. /\ data[at + 1] = t /\ at + 1 \in Nat /\ Holds(data, at + 1, Str(s))
      /\ Len(<<t>> \o Str(s)) = 1 + (Width + n)
  BY <1>1, <1>2, TagAt
<1>4. /\ Num(SubSeq(data, at + 1 + 1, at + 1 + Width)) = n
      /\ SubSeq(data, at + 1 + Width + 1, at + 1 + Width + n) = s
      /\ at + 1 + Width + n <= Len(data)
  BY <1>3, TextAt DEF n
<1>5. /\ ~(Len(data) - at < 1) /\ ~(Len(data) - at < 1 + Width) /\ ~(Len(data) - at < 1 + Width + n)
      /\ at + (1 + Width) + 1 = at + 1 + Width + 1 /\ at + (1 + Width) + n = at + 1 + Width + n
      /\ 1 + Width + n = 1 + (Width + n)
  BY <1>2, <1>4
<1>6. PrintOne(data, at, inner) = took(out_str(s), 1 + Width + n)
  <2> DEFINE head == Num(SubSeq(data, at + 1 + 1, at + 1 + Width))
             text == SubSeq(data, at + (1 + Width) + 1, at + (1 + Width) + head)
  <2>1. data[at + 1] = 2 /\ head = n /\ text = s
    BY <1>2, <1>3, <1>4, <1>5
  <2>2. PrintOne(data, at, inner) =
          IF Len(data) - at < 1 THEN NULL
          ELSE IF Len(data) - at < 1 + Width \/ Len(data) - at < 1 + Width + head THEN NULL
          ELSE took(out_str(text), 1 + Width + head)
    <3> HIDE DEF head
    <3> QED
      BY <2>1, TagsDiffer DEF PrintOne, head
  <2> HIDE DEF head, text
  <2> QED
    BY <1>5, <2>1, <2>2
<1>7. 1 + Width + n \in Nat \ {0}
  BY <1>2
<1> QED
  BY <1>1, <1>3, <1>5, <1>6, <1>7

LEMMA PrintErr ==
    ASSUME NEW data \in Seq(Byte), Len(data) <= MaxMsg, NEW at \in Nat, NEW inner,
           NEW c \in Nat, c < Power[Width],
           NEW s \in Seq(Byte), Holds(data, at, Scalar(out_err(<<c, s>>)))
    PROVE  /\ PrintOne(data, at, inner) = took(out_err(<<c, s>>), Len(Scalar(out_err(<<c, s>>))))
           /\ Len(Scalar(out_err(<<c, s>>))) \in Nat \ {0}
<1> DEFINE t == Tag("TAG_ERR")
           n == Len(s)
           p == <<t>> \o U32(c)
           q == Str(s)
<1>1. Scalar(out_err(<<c, s>>)) = p \o q
  BY DEF out_err, Scalar
<1>2. /\ t \in Byte /\ t = 1 /\ q \in Seq(Byte) /\ Len(q) = Width + n /\ n \in Nat
      /\ Width \in Nat /\ Len(data) \in Nat
      /\ U32(c) \in Seq(Byte) /\ Len(U32(c)) = Width /\ Len(<<t>>) = 1 /\ <<t>> \in Seq(Byte)
  BY TagType, TagsDiffer, StrType, U32Type, ProtocolAssumption, LenProperties, OneByte
<1>3. p \in Seq(Byte) /\ Len(p) = 1 + Width
  BY <1>2, ConcatProperties
<1> HIDE DEF t, n
<1>4. Holds(data, at, p) /\ Holds(data, at + (1 + Width), q) /\ Len(p \o q) = (1 + Width) + (Width + n)
  <2>1. Holds(data, at, p \o q)
    BY <1>1
  <2>2. Len(p \o q) = Len(p) + Len(q)
    BY <1>2, <1>3, ConcatProperties
  <2> HIDE DEF p, q
  <2> QED
    BY <1>2, <1>3, <2>1, <2>2, HoldsParts
<1>5. data[at + 1] = t /\ at + 1 \in Nat /\ Holds(data, at + 1, U32(c))
  BY <1>2, <1>4, TagAt
<1>6. Num(SubSeq(data, at + 1 + 1, at + 1 + Width)) = c
  <2>1. SubSeq(data, (at + 1) + 1, (at + 1) + Len(U32(c))) = U32(c)
    BY <1>2, <1>5, HoldsSub
  <2>2. Num(U32(c)) = c
    BY NumU32
  <2> QED
    BY <1>2, <2>1, <2>2
<1>7. /\ Num(SubSeq(data, at + (1 + Width) + 1, at + (1 + Width) + Width)) = n
      /\ SubSeq(data, at + (1 + Width) + Width + 1, at + (1 + Width) + Width + n) = s
      /\ at + (1 + Width) + Width + n <= Len(data)
  <2>1. at + (1 + Width) \in Nat
    BY <1>2
  <2> QED
    BY <1>4, <2>1, TextAt DEF n
<1>8. /\ ~(Len(data) - at < 1) /\ ~(Len(data) - at < 1 + 2 * Width) /\ ~(Len(data) - at < 1 + 2 * Width + n)
      /\ at + (1 + 2 * Width) + 1 = at + (1 + Width) + Width + 1
      /\ at + (1 + 2 * Width) + n = at + (1 + Width) + Width + n
      /\ 1 + 2 * Width + n = (1 + Width) + (Width + n) /\ 1 + 2 * Width + n \in Nat \ {0}
  BY <1>2, <1>7
<1>9. PrintOne(data, at, inner) = took(out_err(<<c, s>>), 1 + 2 * Width + n)
  <2> DEFINE code == Num(SubSeq(data, at + 1 + 1, at + 1 + Width))
             head == Num(SubSeq(data, at + (1 + Width) + 1, at + (1 + Width) + Width))
             text == SubSeq(data, at + (1 + 2 * Width) + 1, at + (1 + 2 * Width) + head)
  <2>1. data[at + 1] = 1 /\ code = c /\ head = n /\ text = s
    BY <1>2, <1>5, <1>6, <1>7, <1>8
  <2>2. PrintOne(data, at, inner) =
          IF Len(data) - at < 1 THEN NULL
          ELSE IF Len(data) - at < 1 + 2 * Width \/ Len(data) - at < 1 + 2 * Width + head THEN NULL
          ELSE took(out_err(<<code, text>>), 1 + 2 * Width + head)
    <3> HIDE DEF head, code
    <3> QED
      BY <2>1, TagsDiffer DEF PrintOne, head, code
  <2> HIDE DEF head, text, code
  <2> QED
    BY <1>8, <2>1, <2>2
<1> QED
  BY <1>1, <1>4, <1>8, <1>9

(* A tag and the bytes of a number.                                          *)
LEMMA PrintNum ==
    ASSUME NEW data \in Seq(Byte), NEW at \in Nat, NEW inner,
           NEW x \in [1..(2 * Width) -> Byte], NEW f \in {out_int(x), out_dbl(x)}, Holds(data, at, Scalar(f))
    PROVE  PrintOne(data, at, inner) = took(f, Len(Scalar(f))) /\ Len(Scalar(f)) \in Nat \ {0}
<1> DEFINE t == Tag(f[1])
<1>1. f = out_int(x) \/ f = out_dbl(x)
  OBVIOUS
<1>2. Scalar(f) = <<t>> \o x /\ t \in {3, 4} /\ t = (IF f = out_int(x) THEN 3 ELSE 4)
  <2>1. f[1] \in {"TAG_INT", "TAG_DBL"} /\ f[2] = x
    BY <1>1 DEF out_int, out_dbl
  <2>2. Scalar(f) = <<t>> \o x
    BY <2>1 DEF Scalar
  <2>3. out_int(x) # out_dbl(x) /\ out_int(x)[1] = "TAG_INT" /\ out_dbl(x)[1] = "TAG_DBL"
    BY DEF out_int, out_dbl
  <2>4. CASE f = out_int(x)
    BY <2>2, <2>3, <2>4, TagsDiffer
  <2>5. CASE f = out_dbl(x)
    BY <2>2, <2>3, <2>5, TagsDiffer
  <2> QED
    BY <1>1, <2>4, <2>5
<1>3. /\ t \in Byte /\ x \in Seq(Byte) /\ Len(x) = 2 * Width
      /\ Width \in Nat /\ Len(data) \in Nat /\ 2 * Width \in Nat
  BY <1>1, TagType, LenProperties, ProtocolAssumption DEF out_int, out_dbl
<1> HIDE DEF t
<1>4. data[at + 1] = t /\ at + 1 \in Nat /\ Holds(data, at + 1, x) /\ Len(<<t>> \o x) = 1 + 2 * Width
  BY <1>2, <1>3, TagAt
<1>5. SubSeq(data, at + 1 + 1, at + 1 + 2 * Width) = x
  BY <1>3, <1>4, HoldsSub
<1>6. ~(Len(data) - at < 1) /\ ~(Len(data) - at < 1 + 2 * Width) /\ 1 + 2 * Width \in Nat \ {0}
  BY <1>3, <1>4 DEF Holds
<1> DEFINE text == SubSeq(data, at + 1 + 1, at + 1 + 2 * Width)
<1>7. CASE f = out_int(x)
  <2>1. data[at + 1] = 3
    BY <1>2, <1>4, <1>7
  <2>2. PrintOne(data, at, inner) =
          IF Len(data) - at < 1 THEN NULL ELSE IF Len(data) - at < 1 + 2 * Width THEN NULL
          ELSE took(out_int(text), 1 + 2 * Width)
    BY <2>1, TagsDiffer DEF PrintOne
  <2> HIDE DEF text
  <2>3. text = x
    BY <1>5 DEF text
  <2> QED
    BY <1>2, <1>4, <1>6, <1>7, <2>2, <2>3
<1>8. CASE f = out_dbl(x) /\ f # out_int(x)
  <2>1. data[at + 1] = 4
    BY <1>2, <1>4, <1>8
  <2>2. PrintOne(data, at, inner) =
          IF Len(data) - at < 1 THEN NULL ELSE IF Len(data) - at < 1 + 2 * Width THEN NULL
          ELSE took(out_dbl(text), 1 + 2 * Width)
    BY <2>1, TagsDiffer DEF PrintOne
  <2> HIDE DEF text
  <2>3. text = x
    BY <1>5 DEF text
  <2> QED
    BY <1>2, <1>4, <1>6, <1>8, <2>2, <2>3
<1> QED
  BY <1>1, <1>7, <1>8

(* So for any value that is not an array.                                  *)
LEMMA PrintScalar ==
    ASSUME NEW data \in Seq(Byte), Len(data) <= MaxMsg, NEW at \in Nat, NEW inner,
           NEW x \in Plain, Holds(data, at, Scalar(x))
    PROVE  PrintOne(data, at, inner) = took(x, Len(Scalar(x))) /\ Len(Scalar(x)) \in Nat \ {0}
<1>1. CASE x = out_nil
  <2>1. Holds(data, at, Scalar(out_nil))
    BY <1>1
  <2>2. PrintOne(data, at, inner) = took(out_nil, Len(Scalar(out_nil))) /\ Len(Scalar(out_nil)) = 1
    BY <2>1, PrintNil
  <2> QED
    BY <1>1, <2>2
<1>2. CASE x \in {"TAG_ERR"} \X ((0..(Power[Width] - 1)) \X Seq(Byte))
  <2>1. PICK c \in 0..(Power[Width] - 1), s \in Seq(Byte) : x = out_err(<<c, s>>)
    BY <1>2 DEF out_err
  <2>2. c \in Nat /\ c < Power[Width]
    <3>1. Width \in Nat
      BY ProtocolAssumption
    <3>2. Power[Width] \in Nat
      BY <3>1, PowerLaw
    <3> QED
      BY <3>2
  <2> QED
    BY <2>1, <2>2, PrintErr
<1>3. CASE x \in {"TAG_STR"} \X Seq(Byte)
  <2>1. PICK s \in Seq(Byte) : x = out_str(s)
    BY <1>3 DEF out_str
  <2> QED
    BY <2>1, PrintStr
<1>4. CASE x \in {"TAG_INT", "TAG_DBL"} \X [1..(2 * Width) -> Byte]
  <2>1. PICK y \in [1..(2 * Width) -> Byte] : x \in {out_int(y), out_dbl(y)}
    BY <1>4 DEF out_int, out_dbl
  <2> QED
    BY <2>1, PrintNum
<1> QED
  BY <1>1, <1>2, <1>3, <1>4 DEF Plain

(* Where each element of an array begins.                                    *)
IsOffsets(off, vs) ==
    /\ off \in [0..Len(vs) -> Nat] /\ off[0] = 0 /\ off[Len(vs)] = Len(Scalars(vs))
    /\ \A k \in 0..(Len(vs) - 1) : off[k + 1] = off[k] + Len(Scalar(vs[k + 1]))

LEMMA Offsets ==
    ASSUME NEW data \in Seq(Byte), NEW base \in Nat, NEW vs \in Seq(Plain),
           Holds(data, base, Scalars(vs))
    PROVE  \E off : /\ IsOffsets(off, vs)
                    /\ \A k \in 0..(Len(vs) - 1) : Holds(data, base + off[k], Scalar(vs[k + 1]))
<1> DEFINE n == Len(vs)
           ss == [i \in DOMAIN vs |-> Scalar(vs[i])]
           pre(k) == FlattenSeq(SubSeq(ss, 1, k))
           off == [k \in 0..n |-> Len(pre(k))]
<1>1. n \in Nat /\ DOMAIN vs = 1..n /\ \A i \in 1..n : vs[i] \in Plain
  BY LenProperties, ElementOfSeq
<1>2. ss \in [1..n -> Seq(Byte)] /\ \A i \in 1..n : ss[i] = Scalar(vs[i])
  BY <1>1, ScalarType
<1>3. FlattenSeq(ss) = Scalars(vs)
  BY DEF Scalars
<1> HIDE DEF ss, n
<1>4. ss \in Seq(Seq(Byte)) /\ Len(ss) = n
  BY <1>1, <1>2
<1>5. ASSUME NEW k \in 0..(n - 1)
      PROVE  pre(k) \in Seq(Byte) /\ ss[k + 1] \in Seq(Byte) /\ pre(k + 1) = pre(k) \o ss[k + 1]
             /\ ss[k + 1] = Scalar(vs[k + 1])
  <2>1. k + 1 \in 1..n
    BY <1>1
  <2> QED
    BY <1>2, <1>4, <2>1, FlatNext
<1>6. ASSUME NEW k \in 0..n PROVE pre(k) \in Seq(Byte) /\ \E rest \in Seq(Byte) : Scalars(vs) = pre(k) \o rest
  <2>1. \E rest \in Seq(Byte) : FlattenSeq(ss) = pre(k) \o rest
    BY <1>4, FlatParts
  <2>2. SubSeq(ss, 1, k) \in Seq(Seq(Byte))
    <3>1. \A i \in 1..k : ss[i] \in Seq(Byte)
      BY <1>1, <1>2
    <3>2. k \in Int
      BY <1>1
    <3> QED
      BY <3>1, <3>2, SubSeqProperties
  <2> QED
    BY <1>3, <2>1, <2>2, FlatType
<1>7. pre(0) = << >> /\ pre(n) = Scalars(vs)
  <2>1. SubSeq(ss, 1, 0) = << >>
    BY <1>4
  <2>2. SubSeq(ss, 1, n) = ss
    BY <1>1, <1>4
  <2> QED
    BY <1>3, <2>1, <2>2, FlatEmpty
<1> HIDE DEF pre
<1>8. off \in [0..n -> Nat] /\ off[0] = 0 /\ off[n] = Len(Scalars(vs))
  BY <1>1, <1>6, <1>7, LenProperties
<1>9. ASSUME NEW k \in 0..(n - 1)
      PROVE  off[k + 1] = off[k] + Len(Scalar(vs[k + 1])) /\ Holds(data, base + off[k], Scalar(vs[k + 1]))
  <2>1. k \in 0..n /\ k + 1 \in 0..n /\ k + 1 \in 1..n
    BY <1>1
  <2>2. off[k] = Len(pre(k)) /\ off[k + 1] = Len(pre(k + 1))
    BY <2>1
  <2>3. Len(pre(k) \o ss[k + 1]) = Len(pre(k)) + Len(ss[k + 1])
    BY <1>5, ConcatProperties
  <2>4. PICK rest \in Seq(Byte) : Scalars(vs) = (pre(k) \o ss[k + 1]) \o rest
    BY <1>5, <1>6, <2>1
  <2>5. pre(k) \o ss[k + 1] \in Seq(Byte)
    BY <1>5, ConcatProperties
  <2>6. Holds(data, base, pre(k) \o ss[k + 1])
    BY <2>4, <2>5, HoldsParts
  <2>7. Holds(data, base + Len(pre(k)), ss[k + 1])
    BY <1>5, <2>6, HoldsParts
  <2> HIDE DEF off
  <2> QED
    BY <1>5, <2>2, <2>3, <2>7
<1> HIDE DEF off
<1> QED
  BY <1>8, <1>9 DEF IsOffsets, n

(* arr_bytes runs through these offsets.                                     *)
LEMMA ArrBytesIs ==
    ASSUME NEW at \in Nat, NEW vs \in Seq(Plain), NEW off, IsOffsets(off, vs), NEW inner,
           \A k \in 0..(Len(vs) - 1) :
              inner[at + (1 + Width + off[k])] = took(vs[k + 1], Len(Scalar(vs[k + 1])))
    PROVE  ArrBytes(at, inner, Len(vs)) = [i \in 0..Len(vs) |-> 1 + Width + off[i]]
<1> DEFINE n == Len(vs)
           g == [i \in 0..n |-> 1 + Width + off[i]]
           Is(f) == f = [i \in 0..n |->
                           IF i = 0 THEN 1 + Width
                           ELSE LET before == f[i - 1] IN
                                IF before = NULL \/ inner[at + before] = NULL THEN NULL
                                ELSE before + inner[at + before].size]
           bytes == CHOOSE f : Is(f)
<1>0. n \in Nat /\ Width \in Nat /\ \A i \in 1..n : vs[i] \in Plain
  BY LenProperties, ElementOfSeq, ProtocolAssumption
<1>1. \A i \in 0..n : off[i] \in Nat
  BY DEF IsOffsets
<1>2. ASSUME NEW k \in 0..(n - 1)
      PROVE  /\ g[k] # NULL /\ inner[at + g[k]] # NULL
             /\ g[k + 1] = g[k] + inner[at + g[k]].size
  <2>1. k \in 0..n /\ k + 1 \in 0..n /\ k + 1 \in 1..n
    BY <1>0
  <2>2. g[k] = 1 + Width + off[k] /\ g[k + 1] = 1 + Width + off[k + 1] /\ off[k] \in Nat /\ off[k + 1] \in Nat
    BY <1>1, <2>1
  <2>3. inner[at + g[k]] = took(vs[k + 1], Len(Scalar(vs[k + 1])))
    BY <2>2
  <2>4. Len(Scalar(vs[k + 1])) \in Nat /\ vs[k + 1] \in Values
    BY <1>0, <2>1, ScalarType, LenProperties DEF Values
  <2>5. took(vs[k + 1], Len(Scalar(vs[k + 1]))) \in [val : Values, size : Nat]
    BY <2>4 DEF took
  <2>6. took(vs[k + 1], Len(Scalar(vs[k + 1]))).size = Len(Scalar(vs[k + 1]))
    BY DEF took
  <2>7. off[k + 1] = off[k] + Len(Scalar(vs[k + 1]))
    BY DEF IsOffsets
  <2>8. g[k] \in Nat
    BY <1>0, <2>2
  <2> HIDE DEF g
  <2> QED
    BY <1>0, <2>2, <2>3, <2>4, <2>5, <2>6, <2>7, <2>8, NullApart
<1>3. g[0] = 1 + Width
  BY <1>0, <1>1 DEF IsOffsets
<1>4. g = [i \in 0..n |-> g[i]]
  OBVIOUS
<1> HIDE DEF g, n
<1>5. Is(g)
  <2>1. ASSUME NEW i \in 0..n
        PROVE  g[i] = IF i = 0 THEN 1 + Width
                      ELSE LET before == g[i - 1] IN
                           IF before = NULL \/ inner[at + before] = NULL THEN NULL
                           ELSE before + inner[at + before].size
    <3>1. CASE i # 0
      <4>1. PICK k : k = i - 1
        OBVIOUS
      <4>2. k \in 0..(n - 1) /\ k + 1 = i
        BY <1>0, <3>1, <4>1
      <4> QED
        BY <1>2, <3>1, <4>1, <4>2
    <3> QED
      BY <1>3, <3>1
  <2> QED
    BY <1>4, <2>1
<1>6. Is(bytes)
  BY <1>5
<1> HIDE DEF bytes
<1>7. ASSUME NEW i \in 0..n
      PROVE  bytes[i] = IF i = 0 THEN 1 + Width
                        ELSE LET before == bytes[i - 1] IN
                             IF before = NULL \/ inner[at + before] = NULL THEN NULL
                             ELSE before + inner[at + before].size
  BY <1>6
<1>8. 0..n \subseteq {i \in 0..n : bytes[i] = g[i]}
  <2> DEFINE X == {i \in 0..n : bytes[i] = g[i]}
  <2>1. 0 \in X
    BY <1>0, <1>3, <1>7
  <2>2. ASSUME NEW k \in 0..(n - 1), k \in X PROVE k + 1 \in X
    <3>1. k + 1 \in 0..n /\ k + 1 # 0 /\ (k + 1) - 1 = k
      BY <1>0
    <3> QED
      BY <1>2, <1>7, <2>2, <3>1
  <2> HIDE DEF X
  <2> QED
    BY <1>0, <2>1, <2>2, UpTo DEF X
<1>9. bytes = [i \in 0..n |-> bytes[i]]
  BY <1>6
<1>10. bytes = g
  BY <1>4, <1>8, <1>9
<1>11. ArrBytes(at, inner, n) = bytes
  BY DEF ArrBytes, bytes
<1> QED
  BY <1>10, <1>11 DEF g, n

(* The loop over an array shows its elements.                              *)
LEMMA PrintArrIs ==
    ASSUME NEW at \in Nat, NEW vs \in Seq(Plain), NEW off, IsOffsets(off, vs), NEW inner,
           \A k \in 0..(Len(vs) - 1) :
              inner[at + (1 + Width + off[k])] = took(vs[k + 1], Len(Scalar(vs[k + 1])))
    PROVE  PrintArr(at, inner, Len(vs)) = took(out_arr(vs), 1 + Width + Len(Scalars(vs)))
<1> DEFINE n == Len(vs)
           bytes == ArrBytes(at, inner, n)
           shows == [i \in 1..n |-> inner[at + bytes[i - 1]].val]
<1>0. n \in Nat /\ Width \in Nat /\ vs \in [1..n -> Plain]
  BY LenProperties, ProtocolAssumption
<1>1. bytes = [i \in 0..n |-> 1 + Width + off[i]]
  BY ArrBytesIs
<1> HIDE DEF bytes, n
<1>2. bytes[n] = 1 + Width + Len(Scalars(vs)) /\ bytes[n] \in Nat
  BY <1>0, <1>1 DEF IsOffsets, n
<1>3. ASSUME NEW i \in 1..n PROVE inner[at + bytes[i - 1]].val = vs[i]
  <2>1. PICK k : k = i - 1
    OBVIOUS
  <2>2. k \in 0..(n - 1) /\ k \in 0..n /\ k + 1 = i
    BY <1>0, <2>1
  <2>3. inner[at + bytes[k]] = took(vs[i], Len(Scalar(vs[i])))
    BY <1>1, <2>2 DEF n
  <2>4. inner[at + bytes[k]].val = vs[i]
    BY <2>3 DEF took
  <2> QED
    BY <2>1, <2>4
<1>4. shows = [i \in 1..n |-> vs[i]]
  BY <1>3
<1>5. vs = [i \in 1..n |-> vs[i]]
  BY <1>0
<1>6. shows = vs
  BY <1>4, <1>5
<1>7. bytes[n] # NULL
  BY <1>2, NullApart
<1>8. PrintArr(at, inner, n) = IF bytes[n] = NULL THEN NULL ELSE took(out_arr(shows), bytes[n])
  BY DEF PrintArr, bytes
<1> HIDE DEF shows
<1>9. PrintArr(at, inner, n) = took(out_arr(vs), 1 + Width + Len(Scalars(vs)))
  BY <1>2, <1>6, <1>7, <1>8
<1> QED
  BY <1>9 DEF n

(* Every element takes a byte at least.                                      *)
LEMMA ManyBytes ==
    ASSUME NEW vs \in Seq(Plain), NEW off, IsOffsets(off, vs),
           \A x \in Plain : Len(Scalar(x)) \in Nat \ {0}
    PROVE  Len(vs) <= Len(Scalars(vs))
<1> DEFINE n == Len(vs)
           X == {k \in 0..n : k <= off[k]}
<1>0. n \in Nat /\ \A i \in 1..n : vs[i] \in Plain
  BY LenProperties, ElementOfSeq
<1>1. off \in [0..n -> Nat] /\ off[0] = 0 /\ off[n] = Len(Scalars(vs))
      /\ \A k \in 0..(n - 1) : off[k + 1] = off[k] + Len(Scalar(vs[k + 1]))
  BY DEF IsOffsets
<1> HIDE DEF n
<1>2. 0 \in X
  BY <1>0, <1>1
<1>3. ASSUME NEW k \in 0..(n - 1), k \in X PROVE k + 1 \in X
  <2>1. k + 1 \in 1..n /\ k + 1 \in 0..n /\ k \in 0..n
    BY <1>0
  <2>2. Len(Scalar(vs[k + 1])) \in Nat \ {0}
    BY <1>0, <2>1
  <2> QED
    BY <1>1, <1>3, <2>1, <2>2
<1>4. 0..n \subseteq X
  <2> HIDE DEF X
  <2> QED
    BY <1>0, <1>2, <1>3, UpTo
<1>5. n \in X
  <2>1. n \in 0..n
    BY <1>0
  <2> QED
    BY <1>4, <2>1
<1>6. n <= off[n]
  BY <1>5
<1> QED
  BY <1>1, <1>6 DEF n

LEMMA ScalarLen ==
    ASSUME NEW x \in Plain
    PROVE  Len(Scalar(x)) \in Nat \ {0}
<1>1. ASSUME NEW q \in Seq(Byte), NEW b \in Byte PROVE Len(<<b>> \o q) \in Nat \ {0}
  <2>1. Len(<<b>> \o q) = 1 + Len(q) /\ Len(q) \in Nat
    BY <1>1, OneByte, ConcatProperties, LenProperties
  <2> QED
    BY <2>1
<1>2. CASE x = out_nil
  <2>1. Scalar(x) = <<Tag("TAG_NIL")>>
    BY <1>2 DEF out_nil, Scalar
  <2> QED
    BY <2>1
<1>3. CASE x \in {"TAG_ERR"} \X ((0..(Power[Width] - 1)) \X Seq(Byte))
  <2>1. x[1] = "TAG_ERR" /\ x[2][1] \in Nat /\ x[2][2] \in Seq(Byte)
    BY <1>3
  <2> DEFINE t == Tag("TAG_ERR")
             u == U32(x[2][1])
             q == Str(x[2][2])
  <2>2. Scalar(x) = (<<t>> \o u) \o q
    BY <2>1 DEF Scalar
  <2>3. t \in Byte /\ u \in Seq(Byte) /\ q \in Seq(Byte) /\ <<t>> \in Seq(Byte) /\ Len(<<t>>) = 1
    BY <2>1, TagType, U32Type, StrType, OneByte
  <2> HIDE DEF t, u, q
  <2>4. <<t>> \o u \in Seq(Byte) /\ Len(<<t>> \o u) = 1 + Len(u) /\ Len(u) \in Nat /\ Len(q) \in Nat
    BY <2>3, ConcatProperties, LenProperties
  <2>5. Len((<<t>> \o u) \o q) = Len(<<t>> \o u) + Len(q)
    BY <2>3, <2>4, ConcatProperties
  <2>6. Len((<<t>> \o u) \o q) \in Nat \ {0}
    BY <2>4, <2>5
  <2> QED
    BY <2>2, <2>6
<1>4. CASE x \in {"TAG_STR"} \X Seq(Byte)
  <2>1. x[1] = "TAG_STR" /\ Str(x[2]) \in Seq(Byte)
    BY <1>4, StrType
  <2>2. Scalar(x) = <<Tag("TAG_STR")>> \o Str(x[2])
    BY <2>1 DEF Scalar
  <2> QED
    BY <1>1, <2>1, <2>2, TagType
<1>5. CASE x \in {"TAG_INT", "TAG_DBL"} \X [1..(2 * Width) -> Byte]
  <2>1. x[1] \in {"TAG_INT", "TAG_DBL"} /\ x[2] \in Seq(Byte)
    <3>1. x[2] \in [1..(2 * Width) -> Byte] /\ 2 * Width \in Nat /\ x[1] \in {"TAG_INT", "TAG_DBL"}
      BY <1>5, ProtocolAssumption
    <3> QED
      BY <3>1
  <2>2. Scalar(x) = <<Tag(x[1])>> \o x[2] /\ Tag(x[1]) \in Byte
    BY <2>1, TagType DEF Scalar
  <2> QED
    BY <1>1, <2>1, <2>2
<1> QED
  BY <1>2, <1>3, <1>4, <1>5 DEF Plain

(* An array, as PrintOne reads it.                                         *)
LEMMA PrintArray ==
    ASSUME NEW data \in Seq(Byte), Len(data) <= MaxMsg, NEW at \in Nat, NEW deeper, NEW inner,
           inner = [a \in Nat |-> PrintOne(data, a, deeper)],
           NEW vs \in Seq(Plain), Holds(data, at, ArrKnown(<< >>, vs))
    PROVE  PrintOne(data, at, inner) = took(out_arr(vs), Len(ArrKnown(<< >>, vs)))
<1> DEFINE t == Tag("TAG_ARR")
           n == Len(vs)
           u == U32(n)
           p == <<t>> \o u
           q == Scalars(vs)
<1>0. /\ t \in Byte /\ t = 5 /\ <<t>> \in Seq(Byte) /\ Len(<<t>>) = 1
      /\ n \in Nat /\ u \in Seq(Byte) /\ Len(u) = Width /\ Width \in Nat
      /\ q \in Seq(Byte) /\ Len(q) \in Nat /\ Len(data) \in Nat
      /\ MaxMsg \in Nat /\ MaxMsg < Power[Width]
  BY TagType, TagsDiffer, OneByte, U32Type, ScalarsType, LenProperties, ProtocolAssumption
<1>1. ArrKnown(<< >>, vs) = p \o q
  <2>1. << >> \o <<t>> = <<t>>
    BY <1>0
  <2>2. ArrKnown(<< >>, vs) = ((<< >> \o <<t>>) \o u) \o q
    BY DEF ArrKnown
  <2> QED
    BY <2>1, <2>2
<1> HIDE DEF t, n, u, q
<1>2. p \in Seq(Byte) /\ Len(p) = 1 + Width
  BY <1>0, ConcatProperties
<1>3. Holds(data, at, p) /\ Holds(data, at + (1 + Width), q) /\ Len(p \o q) = (1 + Width) + Len(q)
  <2>1. Holds(data, at, p \o q)
    BY <1>1
  <2>2. Len(p \o q) = Len(p) + Len(q)
    BY <1>0, <1>2, ConcatProperties
  <2> HIDE DEF p
  <2> QED
    BY <1>0, <1>2, <2>1, <2>2, HoldsParts
<1>4. data[at + 1] = t /\ at + 1 \in Nat /\ Holds(data, at + 1, u)
  BY <1>0, <1>3, TagAt
<1>5. at + (1 + Width) \in Nat
  BY <1>0
<1>6. PICK off : IsOffsets(off, vs)
                 /\ \A k \in 0..(Len(vs) - 1) : Holds(data, at + (1 + Width) + off[k], Scalar(vs[k + 1]))
  BY <1>3, <1>5, Offsets DEF q
<1>7. n <= Len(q) /\ at + (1 + Width) + Len(q) <= Len(data)
  BY <1>3, <1>6, ScalarLen, ManyBytes DEF Holds, q, n
<1>8. Num(SubSeq(data, at + 1 + 1, at + 1 + Width)) = n
  <2>1. SubSeq(data, (at + 1) + 1, (at + 1) + Len(u)) = u
    BY <1>0, <1>4, HoldsSub
  <2>2. n < Power[Width]
    <3>1. Power[Width] \in Nat
      BY <1>0, PowerLaw
    <3> QED
      BY <1>0, <1>7, <3>1
  <2>3. Num(u) = n
    BY <1>0, <2>2, NumU32 DEF u
  <2> QED
    BY <1>0, <2>1, <2>3
<1>9. ASSUME NEW k \in 0..(Len(vs) - 1)
      PROVE  inner[at + (1 + Width + off[k])] = took(vs[k + 1], Len(Scalar(vs[k + 1])))
  <2>1. k \in 0..Len(vs) /\ k + 1 \in 1..Len(vs)
    BY <1>0 DEF n
  <2>2. off[k] \in Nat /\ vs[k + 1] \in Plain
    BY <1>6, <2>1, ElementOfSeq DEF IsOffsets
  <2>3. PICK a \in Nat : a = at + (1 + Width) + off[k]
    BY <1>5, <2>2
  <2>4. at + (1 + Width + off[k]) = a
    <3>1. PICK w \in Nat : w = off[k]
      BY <2>2
    <3>2. at + (1 + Width + w) = at + (1 + Width) + w
      BY <1>0
    <3> QED
      BY <2>3, <3>1, <3>2
  <2>5. Holds(data, a, Scalar(vs[k + 1]))
    BY <1>6, <2>3
  <2>6. PrintOne(data, a, deeper) = took(vs[k + 1], Len(Scalar(vs[k + 1])))
    BY <2>2, <2>5, PrintScalar
  <2>7. inner[a] = PrintOne(data, a, deeper)
    OBVIOUS
  <2> QED
    BY <2>4, <2>6, <2>7
<1>10. PrintArr(at, inner, n) = took(out_arr(vs), 1 + Width + Len(q))
  BY <1>6, <1>9, PrintArrIs DEF n, q
<1>11. ~(Len(data) - at < 1) /\ ~(Len(data) - at < 1 + Width)
  BY <1>0, <1>7
<1>12. PrintOne(data, at, inner) =
          IF Len(data) - at < 1 THEN NULL ELSE IF Len(data) - at < 1 + Width THEN NULL
          ELSE PrintArr(at, inner, Num(SubSeq(data, at + 1 + 1, at + 1 + Width)))
  <2>1. data[at + 1] = 5
    BY <1>0, <1>4
  <2> QED
    BY <2>1, TagsDiffer DEF PrintOne
<1>13. PrintOne(data, at, inner) = PrintArr(at, inner, n)
  BY <1>8, <1>11, <1>12
<1>14. 1 + Width + Len(q) = (1 + Width) + Len(q)
  BY <1>0
<1> QED
  BY <1>1, <1>3, <1>10, <1>13, <1>14

(* The calls of print_response down to some depth.                           *)
Row(data, depth, below) == [at \in Nat |-> IF depth = 0 THEN NULL ELSE PrintOne(data, at, below)]

LEMMA RowZero ==
    ASSUME NEW data, NEW x, NEW y
    PROVE  Row(data, 0, x) = Row(data, 0, y)
BY DEF Row

(* They exist: from each depth to the next.                                *)
LEMMA PrintRows ==
    ASSUME NEW data, NEW n \in Nat
    PROVE  \E f : f = [depth \in 0..n |-> Row(data, depth, f[depth - 1])]
<1> DEFINE Is(f, k) == f = [depth \in 0..k |-> Row(data, depth, f[depth - 1])]
           X == {k \in 0..n : \E f : Is(f, k)}
<1>1. 0 \in X
  <2> DEFINE f == [depth \in 0..0 |-> Row(data, depth, 0)]
  <2>1. ASSUME NEW depth \in 0..0 PROVE f[depth] = Row(data, depth, f[depth - 1])
    <3>1. depth = 0
      OBVIOUS
    <3>2. f[0] = Row(data, 0, 0)
      OBVIOUS
    <3> HIDE DEF f
    <3> QED
      BY <3>1, <3>2, RowZero
  <2>2. f = [depth \in 0..0 |-> f[depth]]
    OBVIOUS
  <2> HIDE DEF f
  <2>3. Is(f, 0)
    BY <2>1, <2>2
  <2>4. 0 \in 0..n
    OBVIOUS
  <2> QED
    BY <2>3, <2>4
<1>2. ASSUME NEW k \in 0..(n - 1), k \in X PROVE k + 1 \in X
  <2>1. PICK f : Is(f, k)
    BY <1>2
  <2> DEFINE g == [depth \in 0..(k + 1) |-> IF depth = k + 1 THEN Row(data, k + 1, f[k]) ELSE f[depth]]
  <2>2. k \in Nat /\ k + 1 \in 0..n
    OBVIOUS
  <2>3. \A depth \in 0..k : f[depth] = Row(data, depth, f[depth - 1])
    BY <2>1
  <2>4. \A depth \in 0..k : g[depth] = f[depth]
    BY <2>2
  <2>5. g[k + 1] = Row(data, k + 1, f[k])
    BY <2>2
  <2>6. g = [depth \in 0..(k + 1) |-> g[depth]]
    OBVIOUS
  <2> HIDE DEF g
  <2>7. ASSUME NEW depth \in 0..(k + 1) PROVE g[depth] = Row(data, depth, g[depth - 1])
    <3>1. CASE depth = k + 1
      <4>1. depth - 1 = k /\ k \in 0..k
        BY <2>2, <3>1
      <4>2. g[depth - 1] = f[k]
        BY <2>4, <4>1
      <4> QED
        BY <2>5, <3>1, <4>2
    <3>2. CASE depth = 0
      <4>1. 0 \in 0..k
        BY <2>2
      <4>2. g[0] = Row(data, 0, f[0 - 1])
        BY <2>3, <2>4, <4>1
      <4> QED
        BY <3>2, <4>2, RowZero
    <3>3. CASE depth # k + 1 /\ depth # 0
      <4>1. PICK j : j = depth - 1
        OBVIOUS
      <4>2. j \in 0..k /\ depth \in 0..k
        BY <2>2, <3>3, <4>1
      <4> QED
        BY <2>3, <2>4, <4>1, <4>2
    <3> QED
      BY <3>1, <3>2, <3>3
  <2>8. Is(g, k + 1)
    BY <2>6, <2>7
  <2> QED
    BY <2>2, <2>8
<1>3. 0..n \subseteq X
  <2> HIDE DEF X
  <2> QED
    BY <1>1, <1>2, UpTo
<1>4. n \in X
  BY <1>3
<1> QED
  BY <1>4

(* print_response is PrintOne with calls of PrintOne inside.                 *)
LEMMA PrintIs ==
    ASSUME NEW data \in Seq(Byte), Len(data) > 0
    PROVE  \E inner, deeper : /\ inner = [at \in Nat |-> PrintOne(data, at, deeper)]
                              /\ print_response(data) = PrintOne(data, 0, inner)
<1> DEFINE n == Len(data) + 1
           Is(f) == f = [depth \in 0..n |->
                           [at \in Nat |-> IF depth = 0 THEN NULL ELSE PrintOne(data, at, f[depth - 1])]]
           print == CHOOSE f : Is(f)
<1>1. Len(data) \in Nat /\ n \in Nat /\ n - 1 \in 0..n /\ n - 1 # 0 /\ n # 0 /\ n \in 0..n
  BY LenProperties
<1>2. \E f : Is(f)
  <2>1. PICK f : f = [depth \in 0..n |-> Row(data, depth, f[depth - 1])]
    BY <1>1, PrintRows
  <2>2. Is(f)
    BY <2>1 DEF Row
  <2> QED
    BY <2>2
<1>3. Is(print)
  BY <1>2
<1>4. print_response(data) = print[n][0]
  BY DEF print_response
<1> HIDE DEF print
<1>5. \A depth \in 0..n : print[depth] = Row(data, depth, print[depth - 1])
  BY <1>3 DEF Row
<1>6. print[n - 1] = Row(data, n - 1, print[(n - 1) - 1]) /\ print[n] = Row(data, n, print[n - 1])
  BY <1>1, <1>5
<1> DEFINE inner == print[n - 1]
           deeper == print[(n - 1) - 1]
<1>7. inner = [at \in Nat |-> PrintOne(data, at, deeper)]
  BY <1>1, <1>6 DEF Row
<1>8. print[n] = [at \in Nat |-> PrintOne(data, at, inner)]
  BY <1>1, <1>6 DEF Row
<1>9. print[n][0] = PrintOne(data, 0, inner)
  BY <1>8
<1> HIDE DEF inner, deeper, n
<1> QED
  BY <1>4, <1>7, <1>9

(* What print_response shows of the bytes of a value is that value, and it   *)
(* takes them all.                                                           *)
LEMMA Shows ==
    ASSUME NEW v \in Values, Len(Data(v)) <= MaxMsg
    PROVE  /\ print_response(Data(v)) = took(v, Len(Data(v)))
           /\ took(v, Len(Data(v))) # NULL /\ Len(Data(v)) \in Nat
<1> DEFINE data == Data(v)
<1>1. data \in Seq(Byte) /\ Len(data) \in Nat
  <2>1. << >> \in Seq(Byte)
    OBVIOUS
  <2>2. data \in Seq(Byte)
    BY <2>1, Appended
  <2> QED
    BY <2>2, LenProperties
<1>0. took(v, Len(data)) # NULL
  <2>1. took(v, Len(data)) \in [val : Values, size : Nat]
    BY <1>1 DEF took
  <2> QED
    BY <2>1, NullApart
<1>2. CASE v \in {"TAG_ARR"} \X Seq(Plain)
  <2>1. PICK vs \in Seq(Plain) : v = out_arr(vs)
    BY <1>2 DEF out_arr
  <2>2. data = ArrKnown(<< >>, vs)
    BY <2>1 DEF Data, out_arr
  <2>3. Len(data) > 0
    <3> DEFINE p == (<< >> \o <<Tag("TAG_ARR")>>) \o U32(Len(vs))
    <3>1. Len(vs) \in Nat /\ Scalars(vs) \in Seq(Byte) /\ Width \in Nat
      BY ScalarsType, ProtocolAssumption
    <3>2. p \in Seq(Byte) /\ Len(p) = 1 + Width
      <4>1. << >> \o <<Tag("TAG_ARR")>> = <<Tag("TAG_ARR")>>
        BY TagType, OneByte
      <4>2. Len(<<Tag("TAG_ARR")>>) = 1 /\ <<Tag("TAG_ARR")>> \in Seq(Byte)
        BY TagType, OneByte
      <4> QED
        BY <3>1, <4>1, <4>2, U32Type, ConcatProperties
    <3>3. data = p \o Scalars(vs)
      BY <2>2 DEF ArrKnown
    <3> HIDE DEF p
    <3>4. Len(p \o Scalars(vs)) = Len(p) + Len(Scalars(vs)) /\ Len(Scalars(vs)) \in Nat
      BY <3>1, <3>2, ConcatProperties, LenProperties
    <3> QED
      BY <3>1, <3>2, <3>3, <3>4
  <2>4. PICK inner, deeper : /\ inner = [at \in Nat |-> PrintOne(data, at, deeper)]
                             /\ print_response(data) = PrintOne(data, 0, inner)
    BY <1>1, <2>3, PrintIs
  <2>5. Holds(data, 0, ArrKnown(<< >>, vs))
    BY <1>1, <2>2, HoldsAll
  <2> HIDE DEF data
  <2>6. PrintOne(data, 0, inner) = took(out_arr(vs), Len(ArrKnown(<< >>, vs)))
    BY <1>1, <2>4, <2>5, PrintArray DEF data
  <2>7. print_response(data) = took(v, Len(data))
    BY <2>1, <2>2, <2>4, <2>6
  <2> QED
    BY <1>0, <1>1, <2>7 DEF data
<1>3. CASE v \in Plain
  <2>1. v[1] # "TAG_ARR"
    BY <1>3 DEF Plain, out_nil
  <2>2. data = Scalar(v)
    BY <2>1 DEF Data
  <2>3. Len(data) > 0
    BY <1>3, <2>2, ScalarLen
  <2>4. PICK inner : print_response(data) = PrintOne(data, 0, inner)
    BY <1>1, <2>3, PrintIs
  <2>5. Holds(data, 0, Scalar(v))
    BY <1>1, <2>2, HoldsAll
  <2> HIDE DEF data
  <2>6. PrintOne(data, 0, inner) = took(v, Len(Scalar(v)))
    BY <1>1, <1>3, <2>5, PrintScalar DEF data
  <2>7. print_response(data) = took(v, Len(data))
    BY <2>2, <2>4, <2>6
  <2> QED
    BY <1>0, <1>1, <2>7 DEF data
<1> QED
  BY <1>2, <1>3 DEF Values

(* Every response reaches the client in a message it accepts.                *)
LEMMA VisibleFits ==
    ASSUME NEW v \in Values
    PROVE  /\ Visible(v) \in Values /\ Data(Visible(v)) \in Seq(Byte)
           /\ Len(Data(Visible(v))) \in Nat /\ Len(Data(Visible(v))) <= MaxMsg
<1>1. Visible(v) \in Values /\ Visible(v) = (IF Len(Data(v)) <= MaxMsg THEN v ELSE too_big)
      /\ Data(too_big) = Scalar(too_big)
  BY VisibleIs
<1>2. Data(Visible(v)) \in Seq(Byte)
  <2>1. << >> \in Seq(Byte)
    OBVIOUS
  <2> QED
    BY <1>1, <2>1, Appended
<1>3. Len(Scalar(too_big)) <= MaxMsg
  <2> DEFINE t == Tag("TAG_ERR")
             u == U32(ErrTooBig)
             q == Str(TooBigText)
  <2>1. Scalar(too_big) = (<<t>> \o u) \o q
    BY DEF too_big, out_err, Scalar
  <2>2. /\ ErrTooBig \in Nat /\ TooBigText \in Seq(Byte)
        /\ 1 + 2 * Width + Len(TooBigText) <= MaxMsg /\ Width \in Nat /\ MaxMsg \in Nat
    BY ProtocolAssumption
  <2>3. /\ <<t>> \in Seq(Byte) /\ Len(<<t>>) = 1 /\ u \in Seq(Byte) /\ Len(u) = Width
        /\ q \in Seq(Byte) /\ Len(q) = Width + Len(TooBigText) /\ Len(TooBigText) \in Nat
    BY <2>2, TagType, OneByte, U32Type, StrType
  <2> HIDE DEF t, u, q
  <2>4. <<t>> \o u \in Seq(Byte) /\ Len(<<t>> \o u) = 1 + Width
    BY <2>3, ConcatProperties
  <2>5. Len((<<t>> \o u) \o q) = (1 + Width) + (Width + Len(TooBigText))
    BY <2>3, <2>4, ConcatProperties
  <2> QED
    BY <2>1, <2>2, <2>3, <2>5
<1>4. Len(Data(Visible(v))) <= MaxMsg
  BY <1>1, <1>3
<1> QED
  BY <1>1, <1>2, <1>4, LenProperties

LEMMA PrefixMade ==
    ASSUME NEW s \in Seq(Byte), NEW rest \in Seq(Byte)
    PROVE  IsPrefix(s, s \o rest)
<1>1. /\ s \o rest \in Seq(Byte) /\ Len(s \o rest) = Len(s) + Len(rest)
      /\ Len(s) \in Nat /\ Len(rest) \in Nat /\ SubSeq(s \o rest, 1, Len(s)) = s
  BY First
<1>2. Len(s) <= Len(s \o rest)
  BY <1>1
<1>3. SubSeq(s, 1, Len(s)) = s
  OBVIOUS
<1> QED
  BY <1>1, <1>2, <1>3 DEF IsPrefix

LEMMA Cancel ==
    ASSUME NEW u \in Seq(Byte), NEW x \in Seq(Byte), NEW y \in Seq(Byte), u \o x = u \o y
    PROVE  x = y
<1>1. SubSeq(u \o x, Len(u) + 1, Len(u \o x)) = x
  BY First
<1>2. SubSeq(u \o y, Len(u) + 1, Len(u \o y)) = y
  BY First
<1> QED
  BY <1>1, <1>2

(* What was answered, and what of it the client has shown.                   *)
Answers == [i \in DOMAIN served |-> ReplyFrame(served[i].response)]
FirstReplies(p) == FlattenSeq(SubSeq(Answers, 1, p))

LEMMA AnswersType ==
    ASSUME served \in Seq(Entries)
    PROVE  /\ Answers \in Seq(Seq(Byte)) /\ Len(Answers) = Len(served) /\ Len(served) \in Nat
           /\ ReplyFrames = FlattenSeq(Answers) /\ ReplyFrames \in Seq(Byte)
           /\ \A p \in 0..Len(served) : FirstReplies(p) \in Seq(Byte)
           /\ \A p \in 0..(Len(served) - 1) :
                 /\ served[p + 1].response \in Values
                 /\ FirstReplies(p + 1) = FirstReplies(p) \o ReplyFrame(served[p + 1].response)
<1> DEFINE n == Len(served)
<1>1. n \in Nat /\ DOMAIN served = 1..n /\ \A i \in 1..n : served[i] \in Entries
  BY LenProperties, ElementOfSeq
<1>2. \A i \in 1..n : served[i].response \in Values
  BY <1>1 DEF Entries
<1> HIDE DEF n
<1>3. Answers \in [1..n -> Seq(Byte)] /\ \A i \in 1..n : Answers[i] = ReplyFrame(served[i].response)
  BY <1>1, <1>2, VisibleIs DEF Answers
<1>4. Answers \in Seq(Seq(Byte)) /\ Len(Answers) = n
  BY <1>1, <1>3
<1>5. ReplyFrames = FlattenSeq(Answers) /\ ReplyFrames \in Seq(Byte)
  BY HistoryType DEF ReplyFrames, Answers
<1>6. ASSUME NEW p \in 0..n PROVE FirstReplies(p) \in Seq(Byte)
  <2>1. SubSeq(Answers, 1, p) \in Seq(Seq(Byte))
    BY <1>4, Beginning
  <2> QED
    BY <2>1, FlatType DEF FirstReplies
<1>7. ASSUME NEW p \in 0..(n - 1)
      PROVE  /\ served[p + 1].response \in Values
             /\ FirstReplies(p + 1) = FirstReplies(p) \o ReplyFrame(served[p + 1].response)
  <2>1. p + 1 \in 1..n
    BY <1>1
  <2>2. FirstReplies(p + 1) = FirstReplies(p) \o Answers[p + 1]
    BY <1>4, FlatNext DEF FirstReplies
  <2> QED
    BY <1>2, <1>3, <2>1, <2>2
<1> QED
  BY <1>1, <1>4, <1>5, <1>6, <1>7 DEF n

LEMMA FirstBytes ==
    ASSUME NEW b \in Seq(Byte), NEW y \in Seq(Byte), NEW w \in 0..Len(b)
    PROVE  SubSeq(b, 1, w) = SubSeq(b \o y, 1, w)
<1> DEFINE c == b \o y
<1>1. /\ c \in Seq(Byte) /\ Len(c) = Len(b) + Len(y) /\ Len(b) \in Nat /\ Len(y) \in Nat
      /\ \A i \in 1..w : c[i] = b[i]
  BY ConcatProperties, LenProperties
<1> HIDE DEF c
<1>2. w \in 0..Len(c)
  BY <1>1
<1>3. SubSeq(b, 1, w) \in Seq(Byte) /\ Len(SubSeq(b, 1, w)) = w
      /\ \A i \in 1..w : SubSeq(b, 1, w)[i] = b[i]
  BY Beginning
<1>4. SubSeq(c, 1, w) \in Seq(Byte) /\ Len(SubSeq(c, 1, w)) = w
      /\ \A i \in 1..w : SubSeq(c, 1, w)[i] = c[i]
  BY <1>1, <1>2, Beginning
<1>5. SubSeq(b, 1, w) = SubSeq(c, 1, w)
  BY <1>1, <1>3, <1>4, SeqEqual
<1> QED
  BY <1>5 DEF c

(* The bytes behind those shown begin with the next response.                *)
LEMMA NextReply ==
    ASSUME served \in Seq(Entries), NEW p \in 0..Len(served), NEW b \in Seq(Byte), NEW y \in Seq(Byte),
           ReplyFrames = FirstReplies(p) \o (b \o y), Len(b) >= Width
    PROVE  LET d == Data(Visible(served[p + 1].response)) IN
           /\ p < Len(served) /\ served[p + 1].response \in Values
           /\ Num(SubSeq(b, 1, Width)) = Len(d)
           /\ Len(b) = Width + Len(d) => Drop(b, Width) = d /\ FirstReplies(p + 1) \o y = ReplyFrames
<1> DEFINE r == ReplyFrame(served[p + 1].response)
           d == Data(Visible(served[p + 1].response))
           u == U32(Len(d))
<1>0. /\ Answers \in Seq(Seq(Byte)) /\ Len(Answers) = Len(served) /\ Len(served) \in Nat
      /\ ReplyFrames = FlattenSeq(Answers) /\ ReplyFrames \in Seq(Byte) /\ FirstReplies(p) \in Seq(Byte)
      /\ Width \in Nat /\ Width > 0
  <2>1. /\ Answers \in Seq(Seq(Byte)) /\ Len(Answers) = Len(served) /\ Len(served) \in Nat
        /\ ReplyFrames = FlattenSeq(Answers) /\ ReplyFrames \in Seq(Byte)
    BY AnswersType
  <2>2. FirstReplies(p) \in Seq(Byte)
    BY AnswersType
  <2>3. Width \in Nat /\ Width > 0
    BY ProtocolAssumption
  <2> QED
    BY <2>1, <2>2, <2>3
<1>1. b \o y \in Seq(Byte) /\ Len(b \o y) = Len(b) + Len(y) /\ Len(b) \in Nat /\ Len(y) \in Nat
  BY ConcatProperties, LenProperties
<1>2. p < Len(served)
  <2> SUFFICES ASSUME p = Len(served) PROVE FALSE
    BY <1>0
  <2>1. SubSeq(Answers, 1, p) = Answers
    BY <1>0
  <2>2. FirstReplies(p) = ReplyFrames
    BY <1>0, <2>1 DEF FirstReplies
  <2>3. Len(FirstReplies(p) \o (b \o y)) = Len(FirstReplies(p)) + Len(b \o y)
    BY <1>0, <1>1, ConcatProperties
  <2>4. Len(ReplyFrames) \in Nat
    BY <1>0, LenProperties
  <2> QED
    BY <1>0, <1>1, <2>2, <2>3, <2>4
<1>3. /\ served[p + 1].response \in Values /\ FirstReplies(p + 1) = FirstReplies(p) \o r
  <2>1. p \in 0..(Len(served) - 1)
    BY <1>0, <1>2
  <2> QED
    BY <2>1, AnswersType
<1>4. /\ d \in Seq(Byte) /\ Len(d) \in Nat /\ Len(d) <= MaxMsg
      /\ u \in Seq(Byte) /\ Len(u) = Width /\ r = u \o d /\ r \in Seq(Byte)
  BY <1>3, VisibleFits, VisibleIs, U32Type
<1>5. Num(u) = Len(d)
  <2>1. Power[Width] \in Nat /\ MaxMsg \in Nat /\ MaxMsg < Power[Width]
    BY <1>0, PowerLaw, ProtocolAssumption
  <2>2. Len(d) < Power[Width]
    BY <1>4, <2>1
  <2> QED
    BY <1>4, <2>2, NumU32
<1> HIDE DEF r, d, u
<1>6. PICK rest \in Seq(Byte) : b \o y = r \o rest
  <2>1. p + 1 \in 0..Len(Answers)
    BY <1>0, <1>2
  <2>2. PICK rest \in Seq(Byte) : ReplyFrames = FirstReplies(p + 1) \o rest
    <3>1. \E rest \in Seq(Byte) : FlattenSeq(Answers) = FlattenSeq(SubSeq(Answers, 1, p + 1)) \o rest
      BY <1>0, <2>1, FlatParts
    <3> QED
      BY <1>0, <3>1 DEF FirstReplies
  <2>3. ReplyFrames = FirstReplies(p) \o (r \o rest)
    <3>0. FirstReplies(p) \in Seq(Byte) /\ r \in Seq(Byte) /\ rest \in Seq(Byte)
      BY <1>0, <1>4
    <3>1. (FirstReplies(p) \o r) \o rest = FirstReplies(p) \o (r \o rest)
      BY <3>0, BytesAssociative
    <3> QED
      BY <1>3, <2>2, <3>1
  <2>4. r \o rest \in Seq(Byte)
    BY <1>4, ConcatProperties
  <2>5. b \o y = r \o rest
    BY <1>0, <1>1, <2>3, <2>4, Cancel
  <2> QED
    BY <2>5
<1>7. SubSeq(b, 1, Width) = u
  <2>1. b \o y = u \o (d \o rest) /\ d \o rest \in Seq(Byte)
    <3>0. u \in Seq(Byte) /\ d \in Seq(Byte) /\ rest \in Seq(Byte)
      BY <1>4
    <3>1. (u \o d) \o rest = u \o (d \o rest)
      BY <3>0, BytesAssociative
    <3>2. d \o rest \in Seq(Byte)
      BY <1>4, ConcatProperties
    <3> QED
      BY <1>4, <1>6, <3>1, <3>2
  <2>2. SubSeq(b \o y, 1, Width) = u
    BY <1>4, <2>1, First
  <2>3. SubSeq(b, 1, Width) = SubSeq(b \o y, 1, Width)
    BY <1>0, <1>1, FirstBytes
  <2> QED
    BY <2>2, <2>3
<1>8. ASSUME Len(b) = Width + Len(d) PROVE Drop(b, Width) = d /\ FirstReplies(p + 1) \o y = ReplyFrames
  <2>1. Len(r) = Len(b)
    BY <1>4, <1>8, ConcatProperties
  <2>2. SubSeq(b \o y, 1, Len(b)) = b
    BY First
  <2>3. SubSeq(r \o rest, 1, Len(r)) = r
    <3>1. r \in Seq(Byte) /\ rest \in Seq(Byte)
      BY <1>4
    <3> QED
      BY <3>1, First
  <2>4. b = r
    BY <1>6, <2>1, <2>2, <2>3
  <2>5. SubSeq(u \o d, Len(u) + 1, Len(u \o d)) = d
    BY <1>4, First
  <2>6. Drop(b, Width) = d
    BY <1>4, <2>4, <2>5 DEF Drop
  <2>7. FirstReplies(p + 1) \o y = ReplyFrames
    <3>1. (FirstReplies(p) \o b) \o y = FirstReplies(p) \o (b \o y)
      BY <1>0, BytesAssociative
    <3> QED
      BY <1>3, <2>4, <3>1
  <2> QED
    BY <2>6, <2>7
<1> QED
  BY <1>2, <1>3, <1>5, <1>7, <1>8 DEF d

-----------------------------------------------------------------------------
(* The invariant of the refinement, for a peer that is a client: it has sent *)
(* requests that fit,                                                        *)
ClientState ==
    /\ stream = << >> /\ rbuf \in Seq(Byte)
    /\ cpc \in {"send", "write", "header", "body", "done"}
    /\ outcome = "running" <=> cpc # "done"
    /\ cpc = "body" => Len(rbuf) >= Width
    /\ \A i \in 1..asked : Fits(script[i])

(* the server has executed the first of them and holds nothing but the       *)
(* beginning of the others, even when the connection is broken,              *)
ExecutedInOrder ==
    /\ Len(served) <= asked
    /\ Executed = SubSeq(script, 1, Len(served))
    /\ broken => c2s = << >>
    /\ conn # NULL => IsPrefix(Frames(Executed) \o conn.incoming, Frames(SubSeq(script, 1, asked)))

(* and what is on its way back continues what was shown.                     *)
AnsweredInOrder ==
    /\ Len(shown) <= Len(served)
    /\ IsPrefix(FirstReplies(Len(shown)) \o (rbuf \o s2c), ReplyFrames)
    /\ conn # NULL /\ ~broken =>
          ReplyFrames = (FirstReplies(Len(shown)) \o (rbuf \o s2c)) \o conn.outgoing

SInv == ClientState /\ ExecutedInOrder /\ AnsweredInOrder /\ shown \in Seq(Values)

SessionStep == [S!Execute \/ S!Show \/ S!Break]_(S!sessionVars)

(* Steps that leave most of it alone.                                      *)
LEMMA KeepsExecuted ==
    ASSUME ExecutedInOrder, UNCHANGED <<served, asked, script, broken, c2s>>,
           conn' = NULL \/ (conn # NULL /\ conn'.incoming = conn.incoming)
    PROVE  ExecutedInOrder'
BY DEF ExecutedInOrder, Executed

LEMMA KeepsAnswered ==
    ASSUME AnsweredInOrder, UNCHANGED <<shown, served, rbuf, s2c, broken>>,
           conn' = NULL \/ (conn # NULL /\ conn'.outgoing = conn.outgoing)
    PROVE  AnsweredInOrder'
BY DEF AnsweredInOrder, FirstReplies, Answers, ReplyFrames

LEMMA Quiet ==
    ASSUME UNCHANGED <<script, served, shown, outcome>>
    PROVE  SessionStep
BY DEF SessionStep, S!sessionVars

LEMMA SentType ==
    ASSUME PInv, SInv
    PROVE  /\ FirstReplies(Len(shown)) \in Seq(Byte) /\ ReplyFrames \in Seq(Byte)
           /\ rbuf \in Seq(Byte) /\ s2c \in Seq(Byte) /\ rbuf \o s2c \in Seq(Byte)
           /\ FirstReplies(Len(shown)) \o (rbuf \o s2c) \in Seq(Byte)
           /\ Len(shown) \in 0..Len(served) /\ Len(served) \in Nat
<1>1. served \in Seq(Entries) /\ rbuf \in Seq(Byte) /\ s2c \in Seq(Byte) /\ shown \in Seq(Values)
      /\ Len(shown) <= Len(served)
  BY DEF PInv, Shapes, SInv, ClientState, AnsweredInOrder
<1>2. Len(shown) \in 0..Len(served)
  BY <1>1, LenProperties
<1>3. FirstReplies(Len(shown)) \in Seq(Byte) /\ ReplyFrames \in Seq(Byte) /\ Len(served) \in Nat
  BY <1>1, <1>2, AnswersType
<1>4. rbuf \o s2c \in Seq(Byte)
  BY <1>1, ConcatProperties
<1>5. FirstReplies(Len(shown)) \o (rbuf \o s2c) \in Seq(Byte)
  BY <1>3, <1>4, ConcatProperties
<1> QED
  BY <1>1, <1>2, <1>3, <1>4, <1>5

LEMMA BreakStep ==
    ASSUME SInv, cpc # "done", UNCHANGED <<script, served, shown>>,
           outcome' \in {"eof", "error"} \/ (outcome' = "refused" /\ \E i \in DOMAIN script : ~Fits(script[i]))
    PROVE  SessionStep
<1>1. outcome = "running"
  BY DEF SInv, ClientState
<1>2. S!Break
  BY <1>1 DEF S!Break
<1> QED
  BY <1>2 DEF SessionStep

-----------------------------------------------------------------------------
(* Each step keeps the invariant and is a step of Session or none.         *)
LEMMA SendReqSession ==
    ASSUME PInv, SInv, send_req
    PROVE  SInv' /\ SessionStep
<1> USE DEF SInv
<1>1. /\ cpc = "send" /\ asked < Len(script) /\ script \in Seq(Cmds) /\ asked \in 0..Len(script)
      /\ UNCHANGED <<script, stream, rbuf, shown, c2s, s2c, broken, server>>
  BY DEF PInv, Shapes, Turns, send_req
<1>2. AnsweredInOrder'
  BY <1>1, KeepsAnswered DEF server
<1>3. CASE /\ ~Fits(script[asked + 1]) /\ End("refused") /\ UNCHANGED <<asked, wbuf>>
  <2>1. ClientState'
    BY <1>1, <1>3 DEF ClientState, End
  <2>2. ExecutedInOrder'
    BY <1>1, <1>3, KeepsExecuted DEF server
  <2>3. asked + 1 \in DOMAIN script
    BY <1>1, LenProperties
  <2>4. SessionStep
    BY <1>1, <1>3, <2>3, BreakStep DEF End, server
  <2> QED
    BY <1>1, <1>2, <2>1, <2>2, <2>4
<1>4. CASE /\ Fits(script[asked + 1])
           /\ asked' = asked + 1 /\ wbuf' = Frame(script[asked + 1]) /\ cpc' = "write"
           /\ UNCHANGED <<outcome, c_closed>>
  <2>1. ClientState'
    <3>1. ASSUME NEW i \in 1..(asked + 1) PROVE Fits(script[i])
      <4>1. i = asked + 1 \/ i \in 1..asked
        BY <1>1
      <4> QED
        BY <1>4, <4>1 DEF ClientState
    <3> QED
      BY <1>1, <1>4, <3>1 DEF ClientState
  <2>2. ExecutedInOrder'
    <3>1. asked \in 0..(Len(script) - 1) /\ Len(script) \in Nat
      BY <1>1, LenProperties
    <3>2. /\ SubSeq(script, 1, asked) \in Seq(Cmds) /\ script[asked + 1] \in Cmds
          /\ SubSeq(script, 1, asked + 1) = Append(SubSeq(script, 1, asked), script[asked + 1])
      BY <1>1, <3>1, Beginning, ElementOfSeq
    <3> DEFINE old == Frames(SubSeq(script, 1, asked))
               frame == Frame(script[asked + 1])
    <3>3. old \in Seq(Byte) /\ frame \in Seq(Byte) /\ Frames(SubSeq(script, 1, asked + 1)) = old \o frame
      BY <3>2, FramesAppend
    <3> HIDE DEF old, frame
    <3>4. ASSUME conn # NULL
          PROVE  IsPrefix(Frames(Executed) \o conn.incoming, Frames(SubSeq(script, 1, asked + 1)))
      <4> DEFINE had == Frames(Executed) \o conn.incoming
      <4>1. had \in Seq(Byte) /\ IsPrefix(had, old)
        <5>1. Frames(Executed) \in Seq(Byte) /\ conn.incoming \in Seq(Byte)
          BY <3>4, HistoryType, ConnType DEF PInv, Shapes
        <5>2. had \in Seq(Byte)
          BY <5>1, ConcatProperties
        <5> QED
          BY <3>4, <5>2 DEF ExecutedInOrder, old
      <4> HIDE DEF had
      <4>2. PICK more \in Seq(Byte) : old = had \o more
        BY <3>3, <4>1, PrefixIs
      <4>3. old \o frame = had \o (more \o frame) /\ more \o frame \in Seq(Byte)
        BY <3>3, <4>1, <4>2, BytesAssociative, ConcatProperties
      <4>4. IsPrefix(had, old \o frame)
        BY <4>1, <4>3, PrefixMade
      <4> QED
        BY <3>3, <4>4 DEF had
    <3>5. Len(served) \in Nat /\ asked \in Nat
      BY <1>1, LenProperties DEF PInv, Shapes
    <3> QED
      BY <1>1, <1>4, <3>4, <3>5 DEF ExecutedInOrder, Executed, server
  <2>3. SessionStep
    BY <1>1, <1>4, Quiet DEF server
  <2> QED
    BY <1>1, <1>2, <2>1, <2>2, <2>3
<1> QED
  BY <1>3, <1>4 DEF send_req

LEMMA WriteAllSession ==
    ASSUME PInv, SInv, NEW n \in 1..RcvCap, WriteAll(n)
    PROVE  SInv' /\ SessionStep
<1> USE DEF SInv
<1>1. /\ cpc = "write" /\ ~broken
      /\ UNCHANGED <<script, stream, asked, rbuf, shown, outcome, c_closed, s2c, broken, server>>
      /\ cpc' \in {"write", "send", "header"}
  BY DEF WriteAll, ClientState, AfterWrite
<1>2. AnsweredInOrder'
  BY <1>1, KeepsAnswered DEF server
<1>3. ClientState'
  BY <1>1 DEF ClientState
<1>4. ExecutedInOrder'
  BY <1>1 DEF ExecutedInOrder, Executed, server
<1> QED
  BY <1>1, <1>2, <1>3, <1>4, Quiet DEF server

LEMMA EndSession ==
    ASSUME PInv, SInv, WriteFails \/ ReadFails
    PROVE  SInv' /\ SessionStep
<1> USE DEF SInv
<1>1. /\ cpc # "done" /\ cpc' = "done" /\ outcome' \in {"eof", "error"}
      /\ UNCHANGED <<script, stream, asked, wbuf, rbuf, shown, c2s, s2c, broken, server>>
  BY DEF WriteFails, ReadFails, End
<1>2. ClientState'
  BY <1>1 DEF ClientState
<1>3. ExecutedInOrder' /\ AnsweredInOrder'
  BY <1>1, KeepsExecuted, KeepsAnswered DEF server
<1> QED
  BY <1>1, <1>2, <1>3, BreakStep DEF server

LEMMA PeerSession ==
    ASSUME SInv, Peer
    PROVE  FALSE
BY DEF SInv, ClientState, Peer, PeerReads, PeerCloses

(* Concatenation is associative: a predicate, to name the instances needed.  *)
Regroups(u, v, w) == (u \o v) \o w = u \o (v \o w)

LEMMA Regrouped == \A u, v, w \in Seq(Byte) : Regroups(u, v, w)
BY BytesAssociative DEF Regroups

LEMMA PrefixParts ==
    ASSUME NEW x \in Seq(Byte), NEW r \in Seq(Byte), NEW p \in Seq(Byte), NEW q \in Seq(Byte),
           NEW t \in Seq(Byte), IsPrefix(x \o (r \o (p \o q)), t)
    PROVE  IsPrefix(x \o (r \o p), t)
<1>1. r \o p \in Seq(Byte) /\ p \o q \in Seq(Byte)
  BY ConcatProperties
<1>2. x \o (r \o p) \in Seq(Byte) /\ r \o (p \o q) \in Seq(Byte)
  BY <1>1, ConcatProperties
<1>3. x \o (r \o (p \o q)) \in Seq(Byte)
  BY <1>2, ConcatProperties
<1>4. PICK l \in Seq(Byte) : t = (x \o (r \o (p \o q))) \o l
  BY <1>3, PrefixIs
<1>5. q \o l \in Seq(Byte)
  BY ConcatProperties
<1>6. Regroups(r, p, q) /\ Regroups(x, r \o p, q) /\ Regroups(x \o (r \o p), q, l)
  BY <1>1, <1>2, Regrouped
<1>7. t = (x \o (r \o p)) \o (q \o l)
  BY <1>4, <1>6, Zenon DEF Regroups
<1> QED
  BY <1>2, <1>5, <1>7, PrefixMade

(* What a reset leaves of the bytes on their way.                          *)
LEMMA PrefixCut ==
    ASSUME NEW x \in Seq(Byte), NEW r \in Seq(Byte), NEW s \in Seq(Byte), NEW t \in Seq(Byte),
           NEW n \in 0..Len(s), IsPrefix(x \o (r \o s), t)
    PROVE  IsPrefix(x \o (r \o SubSeq(s, 1, n)), t)
<1> DEFINE p == SubSeq(s, 1, n)
           q == Drop(s, n)
<1>1. p \in Seq(Byte) /\ q \in Seq(Byte) /\ p \o q = s
  BY Beginning, Remainder, Parted DEF Drop
<1> HIDE DEF p, q
<1>2. IsPrefix(x \o (r \o p), t)
  <2>1. IsPrefix(x \o (r \o (p \o q)), t)
    BY <1>1
  <2> QED
    BY <1>1, <2>1, PrefixParts
<1> QED
  BY <1>2 DEF p

LEMMA FailSession ==
    ASSUME PInv, SInv, Fail
    PROVE  SInv' /\ SessionStep
<1> USE DEF SInv
<1>1. broken' = TRUE /\ c2s' = << >> /\ UNCHANGED <<client, server>>
  BY DEF Fail
<1>2. PICK n \in 0..Len(s2c) : s2c' = SubSeq(s2c, 1, n)
  BY DEF Fail
<1> DEFINE sent == FirstReplies(Len(shown))
<1>3. /\ sent \in Seq(Byte) /\ ReplyFrames \in Seq(Byte) /\ rbuf \in Seq(Byte) /\ s2c \in Seq(Byte)
      /\ IsPrefix(sent \o (rbuf \o s2c), ReplyFrames) /\ sent \o (rbuf \o s2c) \in Seq(Byte)
  BY SentType DEF AnsweredInOrder
<1>4. IsPrefix(sent \o (rbuf \o s2c'), ReplyFrames)
  BY <1>2, <1>3, PrefixCut
<1>5. AnsweredInOrder'
  BY <1>1, <1>4 DEF AnsweredInOrder, FirstReplies, Answers, ReplyFrames, client, server
<1>6. ClientState'
  BY <1>1 DEF ClientState, client
<1>7. ExecutedInOrder'
  BY <1>1 DEF ExecutedInOrder, Executed, client, server
<1> QED
  BY <1>1, <1>5, <1>6, <1>7, Quiet DEF client, server

LEMMA IdleTimeoutSession ==
    ASSUME SInv, IdleTimeout
    PROVE  SInv' /\ SessionStep
<1> USE DEF SInv
<1>1. conn' = NULL /\ UNCHANGED <<client, served, c2s, s2c, broken>>
  BY DEF IdleTimeout, conn_destroy
<1>2. ClientState'
  BY <1>1 DEF ClientState, client
<1>3. ExecutedInOrder' /\ AnsweredInOrder'
  BY <1>1, KeepsExecuted, KeepsAnswered DEF client
<1> QED
  BY <1>1, <1>2, <1>3, Quiet DEF client

LEMMA handle_readSession ==
    ASSUME PInv, SInv, PInv', handle_read
    PROVE  SInv' /\ SessionStep
<1> USE DEF SInv
<1>1. /\ UNCHANGED <<client, s2c, broken, served>>
      /\ \/ conn' = NULL /\ UNCHANGED c2s
         \/ \E n \in 1..Len(c2s) : /\ conn' = [conn EXCEPT !.incoming = @ \o SubSeq(c2s, 1, n)]
                                   /\ c2s' = Drop(c2s, n)
  BY DEF handle_read, conn_destroy
<1>2. ClientState'
  BY <1>1 DEF ClientState, client
<1>3. SessionStep
  BY <1>1, Quiet DEF client
<1>4. CASE conn' = NULL /\ UNCHANGED c2s
  BY <1>1, <1>2, <1>3, <1>4, KeepsExecuted, KeepsAnswered DEF client
<1>5. ASSUME NEW n \in 1..Len(c2s), conn' = [conn EXCEPT !.incoming = @ \o SubSeq(c2s, 1, n)]
      PROVE  ExecutedInOrder' /\ AnsweredInOrder'
  <2>1. conn # NULL /\ conn \in Conns /\ c2s \in Seq(Byte) /\ served \in Seq(Entries) /\ script \in Seq(Cmds)
        /\ asked \in 0..Len(script) /\ wbuf \in Seq(Byte)
    BY DEF handle_read, PInv, Turns, Shapes
  <2>2. ~broken /\ ~broken'
    BY <1>1, <1>5, <2>1 DEF ExecutedInOrder
  <2>3. conn' \in Conns /\ conn' # NULL /\ conn'.outgoing = conn.outgoing
    <3>1. conn.incoming \o SubSeq(c2s, 1, n) \in Seq(Byte)
      <4>1. conn.incoming \in Seq(Byte)
        BY <2>1, ConnType
      <4>2. n \in 0..Len(c2s)
        BY <1>5
      <4>3. SubSeq(c2s, 1, n) \in Seq(Byte)
        BY <2>1, <4>2, Beginning
      <4> QED
        BY <4>1, <4>3, ConcatProperties
    <3>2. conn' = [conn EXCEPT !.incoming = conn.incoming \o SubSeq(c2s, 1, n)]
      BY <1>5
    <3>3. conn' \in Conns
      BY <2>1, <3>1, <3>2, ConnType
    <3>4. conn' # NULL
      BY <3>3, NullApart
    <3>5. conn'.outgoing = conn.outgoing
      BY <2>1, <3>2 DEF Conns
    <3> QED
      BY <3>3, <3>4, <3>5
  <2>4. AnsweredInOrder'
    BY <1>1, <2>1, <2>3, KeepsAnswered DEF client
  <2>5. IsPrefix(Frames(Executed) \o conn'.incoming, Frames(SubSeq(script, 1, asked)))
    <3> DEFINE had == Frames(Executed) \o conn'.incoming
               all == Frames(SubSeq(script, 1, asked))
    <3>1. << >> \o all = Frames(Executed) \o conn'.incoming \o c2s' \o wbuf
      <4>1. stream' \o Frames(SubSeq(script', 1, asked'))
              = (Frames(Executed))' \o conn'.incoming \o c2s' \o wbuf'
        BY <2>2, <2>3 DEF PInv, InOrder
      <4>2. (Frames(Executed))' = Frames(Executed)
        BY <1>1 DEF Executed
      <4> QED
        BY <1>1, <4>1, <4>2 DEF client, ClientState
    <3>2. had \in Seq(Byte) /\ c2s' \in Seq(Byte) /\ wbuf \in Seq(Byte)
      <4>1. Frames(Executed) \in Seq(Byte) /\ conn'.incoming \in Seq(Byte)
        BY <2>1, <2>3, HistoryType, ConnType
      <4>2. c2s' \in Seq(Byte)
        BY DEF PInv, Shapes
      <4> QED
        BY <2>1, <4>1, <4>2, ConcatProperties
    <3>3. all \in Seq(Byte)
      <4>1. SubSeq(script, 1, asked) \in Seq(Cmds)
        BY <2>1, Beginning
      <4>2. << >> \in Cmds
        BY DEF Cmds
      <4> QED
        BY <4>1, <4>2, FramesAppend
    <3> HIDE DEF had, all
    <3>4. << >> \o all = all
      BY <3>3
    <3>5. all = (had \o c2s') \o wbuf
      BY <3>1, <3>4 DEF had
    <3>6. (had \o c2s') \o wbuf = had \o (c2s' \o wbuf) /\ c2s' \o wbuf \in Seq(Byte)
      BY <3>2, BytesAssociative, ConcatProperties
    <3>7. IsPrefix(had, all)
      BY <3>2, <3>5, <3>6, PrefixMade
    <3> QED
      BY <3>7 DEF had, all
  <2>6. ExecutedInOrder'
    <3>1. (Frames(Executed))' = Frames(Executed) /\ Executed' = Executed
      BY <1>1 DEF Executed
    <3> QED
      BY <1>1, <2>2, <2>5, <3>1 DEF ExecutedInOrder, client
  <2> QED
    BY <2>4, <2>6
<1> QED
  BY <1>1, <1>2, <1>3, <1>4, <1>5 DEF client

(* What the server sends comes behind what it sent before.                   *)
LEMMA handle_writeSession ==
    ASSUME PInv, SInv, conn \in Conns, NEW c \in Conns, handle_write(c),
           c.incoming = conn.incoming, c.outgoing = conn.outgoing,
           UNCHANGED <<client, served, c2s, broken>>
    PROVE  ExecutedInOrder' /\ AnsweredInOrder'
<1> USE DEF SInv
<1>1. conn # NULL
  BY ConnType
<1>2. ASSUME NEW d \in Conns, Handled(d), d.incoming = conn.incoming
      PROVE  ExecutedInOrder'
  <2>1. conn' = NULL \/ conn' = d
    BY <1>2, HandledIs
  <2> QED
    BY <1>1, <1>2, <2>1, KeepsExecuted DEF client
<1>3. ASSUME NEW d \in Conns, Handled(d), d.outgoing = conn.outgoing, UNCHANGED s2c
      PROVE  AnsweredInOrder'
  <2>1. conn' = NULL \/ conn' = d
    BY <1>3, HandledIs
  <2> QED
    BY <1>1, <1>3, <2>1, KeepsAnswered DEF client
<1>4. CASE broken /\ Handled([c EXCEPT !.want_close = TRUE]) /\ UNCHANGED s2c
  <2> DEFINE d == [c EXCEPT !.want_close = TRUE]
  <2>1. d \in Conns /\ d.incoming = c.incoming /\ d.outgoing = c.outgoing
    BY DEF Conns
  <2> HIDE DEF d
  <2>2. Handled(d)
    BY <1>4 DEF d
  <2> QED
    BY <1>2, <1>3, <1>4, <2>1, <2>2
<1>5. CASE ~broken /\ Handled(c) /\ UNCHANGED s2c
  BY <1>2, <1>3, <1>5
<1>6. CASE /\ ~broken
           /\ \E n \in 1..Smaller(Len(c.outgoing), SndCap - Len(s2c)) :
                 LET rest == Drop(c.outgoing, n) IN
                 /\ s2c' = s2c \o SubSeq(c.outgoing, 1, n)
                 /\ Handled([c EXCEPT !.outgoing = rest,
                                      !.want_read = IF rest = << >> THEN TRUE ELSE @,
                                      !.want_write = IF rest = << >> THEN FALSE ELSE @])
  <2>1. PICK n \in 1..Smaller(Len(c.outgoing), SndCap - Len(s2c)) :
            /\ s2c' = s2c \o SubSeq(c.outgoing, 1, n)
            /\ Handled([c EXCEPT !.outgoing = Drop(c.outgoing, n),
                                 !.want_read = IF Drop(c.outgoing, n) = << >> THEN TRUE ELSE @,
                                 !.want_write = IF Drop(c.outgoing, n) = << >> THEN FALSE ELSE @])
    BY <1>6
  <2> DEFINE rest == Drop(c.outgoing, n)
             part == SubSeq(c.outgoing, 1, n)
             d == [c EXCEPT !.outgoing = rest,
                            !.want_read = IF rest = << >> THEN TRUE ELSE @,
                            !.want_write = IF rest = << >> THEN FALSE ELSE @]
             sent == FirstReplies(Len(shown))
  <2>2. /\ sent \in Seq(Byte) /\ ReplyFrames \in Seq(Byte) /\ rbuf \in Seq(Byte) /\ s2c \in Seq(Byte)
        /\ rbuf \o s2c \in Seq(Byte) /\ sent \o (rbuf \o s2c) \in Seq(Byte)
        /\ c.outgoing \in Seq(Byte)
    BY SentType, ConnType
  <2>3. n \in 0..Len(c.outgoing)
    <3>1. Len(c.outgoing) \in Nat /\ SndCap - Len(s2c) \in Int
      BY <2>2, LenProperties, ProtocolAssumption
    <3> QED
      BY <3>1, Within
  <2>4. /\ part \in Seq(Byte) /\ rest \in Seq(Byte)
        /\ ((sent \o (rbuf \o s2c)) \o part) \o rest = (sent \o (rbuf \o s2c)) \o c.outgoing
    <3> DEFINE t == c.outgoing
               u == sent \o (rbuf \o s2c)
    <3>1. t \in Seq(Byte) /\ u \in Seq(Byte) /\ n \in 0..Len(t)
      BY <2>2, <2>3
    <3> HIDE DEF t, u
    <3>2. /\ SubSeq(t, 1, n) \in Seq(Byte) /\ Drop(t, n) \in Seq(Byte)
          /\ (u \o SubSeq(t, 1, n)) \o Drop(t, n) = u \o t
      BY <3>1, Moved, Zenon
    <3> QED
      BY <3>2 DEF t, u
  <2>5. d \in Conns /\ d.incoming = c.incoming /\ d.outgoing = rest
    BY <2>4 DEF Conns
  <2> HIDE DEF d, rest, part, sent
  <2>6. Handled(d) /\ s2c' = s2c \o part
    BY <2>1 DEF d, rest, part
  <2>7. ExecutedInOrder'
    BY <1>2, <2>5, <2>6
  <2>8. ReplyFrames = (sent \o (rbuf \o s2c)) \o c.outgoing
    BY <1>1, <1>6 DEF AnsweredInOrder, sent
  <2>9. sent \o (rbuf \o s2c') = (sent \o (rbuf \o s2c)) \o part
    <3>0. /\ sent \in Seq(Byte) /\ rbuf \in Seq(Byte) /\ s2c \in Seq(Byte)
          /\ rbuf \o s2c \in Seq(Byte) /\ part \in Seq(Byte)
      BY <2>2, <2>4
    <3>1. rbuf \o (s2c \o part) = (rbuf \o s2c) \o part
      BY <3>0, BytesAssociative, Zenon
    <3>2. sent \o ((rbuf \o s2c) \o part) = (sent \o (rbuf \o s2c)) \o part
      BY <3>0, BytesAssociative, Zenon
    <3> QED
      BY <2>6, <3>1, <3>2
  <2>10. ReplyFrames = (sent \o (rbuf \o s2c')) \o rest
    BY <2>4, <2>8, <2>9
  <2>11. sent \o (rbuf \o s2c') \in Seq(Byte)
    BY <2>2, <2>4, <2>9, ConcatProperties
  <2>12. IsPrefix(sent \o (rbuf \o s2c'), ReplyFrames)
    BY <2>4, <2>10, <2>11, PrefixMade
  <2>13. conn' = NULL \/ conn' = d
    BY <2>5, <2>6, HandledIs
  <2>14. AnsweredInOrder'
    <3>1. sent' = sent /\ ReplyFrames' = ReplyFrames
      BY DEF sent, FirstReplies, Answers, ReplyFrames, client
    <3>2. FirstReplies(Len(shown))' = sent
      BY <3>1 DEF sent
    <3> QED
      BY <2>5, <2>10, <2>12, <2>13, <3>1, <3>2 DEF AnsweredInOrder, client
  <2> QED
    BY <2>7, <2>14
<1> QED
  BY <1>4, <1>5, <1>6 DEF handle_write

LEMMA WriterSession ==
    ASSUME PInv, SInv, Respond \/ Writable
    PROVE  SInv' /\ SessionStep
<1> USE DEF SInv
<1>1. UNCHANGED <<client, served, c2s, broken>>
  BY DEF Respond, Writable
<1>2. conn # NULL /\ conn \in Conns
  BY DEF Respond, Writable, PInv, Shapes, Turns
<1>3. ExecutedInOrder' /\ AnsweredInOrder'
  <2>1. CASE Writable
    BY <1>1, <1>2, <2>1, handle_writeSession DEF Writable
  <2>2. CASE Respond /\ conn.outgoing # << >>
    <3> DEFINE c == [conn EXCEPT !.want_read = FALSE, !.want_write = TRUE]
    <3>1. c \in Conns /\ c.incoming = conn.incoming /\ c.outgoing = conn.outgoing
      BY <1>2 DEF Conns
    <3>2. handle_write(c)
      BY <2>2 DEF Respond
    <3> HIDE DEF c
    <3> QED
      BY <1>1, <1>2, <3>1, <3>2, handle_writeSession
  <2>3. CASE Respond /\ conn.outgoing = << >>
    <3>1. Handled(conn) /\ UNCHANGED s2c
      BY <2>3 DEF Respond
    <3>2. conn' = NULL \/ conn' = conn
      BY <1>2, <3>1, HandledIs
    <3> QED
      BY <1>1, <1>2, <3>1, <3>2, KeepsExecuted, KeepsAnswered DEF client
  <2> QED
    BY <2>1, <2>2, <2>3
<1>4. ClientState'
  BY <1>1 DEF ClientState, client
<1> QED
  BY <1>1, <1>3, <1>4, Quiet DEF client

(* What a read takes from the socket, and what is behind it.                 *)
LEMMA ReadOn ==
    ASSUME PInv, SInv, NEW n \in 0..Len(s2c)
    PROVE  LET b == rbuf \o SubSeq(s2c, 1, n)
               rest == Drop(s2c, n) IN
           /\ b \in Seq(Byte) /\ rest \in Seq(Byte) /\ b \o rest = rbuf \o s2c
           /\ Len(b) = Len(rbuf) + n
           /\ \E lost \in Seq(Byte) :
                 /\ conn # NULL /\ ~broken => lost = conn.outgoing
                 /\ ReplyFrames = FirstReplies(Len(shown)) \o (b \o (rest \o lost))
<1> DEFINE part == SubSeq(s2c, 1, n)
           rest == Drop(s2c, n)
           sent == FirstReplies(Len(shown))
           b == rbuf \o part
<1>1. /\ sent \in Seq(Byte) /\ ReplyFrames \in Seq(Byte) /\ rbuf \in Seq(Byte) /\ s2c \in Seq(Byte)
      /\ rbuf \o s2c \in Seq(Byte) /\ sent \o (rbuf \o s2c) \in Seq(Byte)
  BY SentType
<1>2. part \in Seq(Byte) /\ rest \in Seq(Byte) /\ part \o rest = s2c /\ Len(part) = n
  BY <1>1, Beginning, Remainder, Parted DEF Drop
<1>3. PICK lost \in Seq(Byte) : /\ conn # NULL /\ ~broken => lost = conn.outgoing
                                /\ ReplyFrames = (sent \o (rbuf \o s2c)) \o lost
  <2>1. CASE conn # NULL /\ ~broken
    <3>1. conn.outgoing \in Seq(Byte)
      BY <2>1, ConnType DEF PInv, Shapes
    <3>2. ReplyFrames = (sent \o (rbuf \o s2c)) \o conn.outgoing
      BY <2>1 DEF SInv, AnsweredInOrder
    <3> QED
      BY <3>1, <3>2
  <2>2. CASE ~(conn # NULL /\ ~broken)
    <3>1. IsPrefix(sent \o (rbuf \o s2c), ReplyFrames)
      BY DEF SInv, AnsweredInOrder
    <3>2. PICK lost \in Seq(Byte) : ReplyFrames = (sent \o (rbuf \o s2c)) \o lost
      BY <1>1, <3>1, PrefixIs
    <3> QED
      BY <2>2, <3>2
  <2> QED
    BY <2>1, <2>2
<1> HIDE DEF part, rest, sent
<1>4. b \in Seq(Byte) /\ Len(b) = Len(rbuf) + n
  BY <1>1, <1>2, ConcatProperties
<1>5. b \o rest = rbuf \o s2c
  <2>1. Regroups(rbuf, part, rest)
    BY <1>1, <1>2, Regrouped
  <2> QED
    BY <1>2, <2>1 DEF Regroups
<1> HIDE DEF b
<1>6. ReplyFrames = sent \o (b \o (rest \o lost))
  <2>1. b \o rest \in Seq(Byte)
    BY <1>1, <1>5
  <2>2. Regroups(sent, b \o rest, lost) /\ Regroups(b, rest, lost)
    BY <1>1, <1>2, <1>4, <2>1, Regrouped
  <2> QED
    BY <1>3, <1>5, <2>2, Zenon DEF Regroups
<1> QED
  BY <1>2, <1>3, <1>4, <1>5, <1>6 DEF b, part, rest, sent

(* Show: the body of a response is complete.  It is never refused.         *)
LEMMA ReadFullSession ==
    ASSUME PInv, SInv, NEW n \in 1..SndCap, ReadFull(n)
    PROVE  SInv' /\ SessionStep
<1> DEFINE b == rbuf \o SubSeq(s2c, 1, n)
           rest == Drop(s2c, n)
           p == Len(shown)
           sent == FirstReplies(p)
           v == served[p + 1].response
           d == Data(Visible(v))
<1>1. /\ cpc \in {"header", "body"} /\ s2c' = rest
      /\ n \in 1..Smaller(Len(s2c), Awaited - Len(rbuf))
      /\ UNCHANGED <<script, stream, asked, wbuf, c2s, broken, server>>
  BY DEF ReadFull
<1>2. /\ served \in Seq(Entries) /\ Len(served) \in Nat /\ p \in 0..Len(served)
      /\ rbuf \in Seq(Byte) /\ Len(rbuf) \in Nat /\ Width \in Nat /\ Width > 0 /\ s2c \in Seq(Byte)
      /\ shown \in Seq(Values) /\ sent \in Seq(Byte)
  BY SentType, LenProperties, ProtocolAssumption DEF PInv, Shapes, SInv
<1>3. n \in 0..Len(s2c) /\ n > 0
  <2>1. Smaller(Len(s2c), Awaited - Len(rbuf)) = Len(s2c) \/ ~(Len(s2c) < Awaited - Len(rbuf))
    BY DEF Smaller
  <2>2. Awaited - Len(rbuf) \in Int
    <3>1. CASE cpc = "header"
      BY <1>2, <3>1 DEF Awaited
    <3>2. CASE cpc = "body"
      <4>1. SubSeq(rbuf, 1, Width) \in Seq(Byte) /\ Len(SubSeq(rbuf, 1, Width)) = Width
        BY <1>2, <3>2, Beginning DEF SInv, ClientState
      <4>2. Num(SubSeq(rbuf, 1, Width)) \in Nat
        BY <4>1, U32Num
      <4> QED
        BY <1>2, <3>2, <4>2 DEF Awaited
    <3> QED
      BY <1>1, <3>1, <3>2
  <2>3. Len(s2c) \in Nat
    BY <1>2, LenProperties
  <2>4. n \in 0..Len(s2c)
    BY <1>1, <2>2, <2>3, Within
  <2> QED
    BY <2>4
<1>4. /\ b \in Seq(Byte) /\ rest \in Seq(Byte) /\ b \o rest = rbuf \o s2c
      /\ Len(b) = Len(rbuf) + n
  BY <1>3, ReadOn
<1>5. PICK lost \in Seq(Byte) : /\ conn # NULL /\ ~broken => lost = conn.outgoing
                                /\ ReplyFrames = sent \o (b \o (rest \o lost))
  BY <1>3, ReadOn
<1>6. ExecutedInOrder'
  BY <1>1, KeepsExecuted DEF SInv, server
<1>7. /\ ReplyFrames' = ReplyFrames /\ \A k \in Nat : FirstReplies(k)' = FirstReplies(k)
      /\ served' = served /\ conn' = conn /\ broken' = broken
  BY <1>1 DEF ReplyFrames, FirstReplies, Answers, server
<1>8. ASSUME rbuf' = b, shown' = shown PROVE AnsweredInOrder'
  <2>1. rbuf' \o s2c' = rbuf \o s2c
    BY <1>1, <1>4, <1>8
  <2>2. FirstReplies(Len(shown))' = FirstReplies(Len(shown))
    BY <1>1, <1>8 DEF FirstReplies, Answers, server
  <2> QED
    BY <1>7, <1>8, <2>1, <2>2 DEF SInv, AnsweredInOrder
<1>9. rest \o lost \in Seq(Byte)
  BY <1>4, ConcatProperties
<1>10. ASSUME Len(b) >= Width
       PROVE  /\ p < Len(served) /\ v \in Values /\ Num(SubSeq(b, 1, Width)) = Len(d)
              /\ Len(b) = Width + Len(d) => Drop(b, Width) = d /\ FirstReplies(p + 1) \o (rest \o lost) = ReplyFrames
              /\ Visible(v) \in Values /\ Len(d) \in Nat /\ Len(d) <= MaxMsg
              /\ print_response(d) = took(Visible(v), Len(d)) /\ took(Visible(v), Len(d)) # NULL
  <2> HIDE DEF b, rest
  <2>1. /\ p < Len(served) /\ v \in Values /\ Num(SubSeq(b, 1, Width)) = Len(d)
        /\ Len(b) = Width + Len(d) => Drop(b, Width) = d /\ FirstReplies(p + 1) \o (rest \o lost) = ReplyFrames
    BY <1>2, <1>4, <1>5, <1>9, <1>10, NextReply
  <2>2. Visible(v) \in Values /\ Len(d) \in Nat /\ Len(d) <= MaxMsg
    BY <2>1, VisibleFits
  <2> QED
    BY <2>1, <2>2, Shows
<1> HIDE DEF b, rest, v
<1>11. CASE /\ Len(b) < Awaited /\ rbuf' = b
            /\ UNCHANGED <<cpc, shown, outcome, c_closed>>
  <2>1. ClientState'
    BY <1>1, <1>2, <1>3, <1>4, <1>11 DEF SInv, ClientState
  <2> QED
    BY <1>1, <1>6, <1>8, <1>11, <2>1, Quiet DEF SInv, server
<1>12. CASE Len(b) = Awaited /\ cpc = "header" /\ HeaderRead(b)
  <2>1. Len(b) = Width /\ SubSeq(b, 1, Width) = b
    <3>1. Len(b) = Width
      BY <1>12 DEF Awaited
    <3>2. SubSeq(b, 1, Len(b)) = b
      BY <1>4
    <3> QED
      BY <3>1, <3>2
  <2>2. ~(Num(b) > MaxMsg)
    <3>1. Len(b) >= Width
      BY <1>2, <2>1
    <3>2. Num(SubSeq(b, 1, Width)) = Len(d) /\ Len(d) <= MaxMsg /\ Len(d) \in Nat
      BY <1>10, <3>1
    <3>3. Num(b) <= MaxMsg /\ Num(b) \in Nat /\ MaxMsg \in Nat
      BY <2>1, <3>2, ProtocolAssumption
    <3> QED
      BY <3>3
  <2>3. rbuf' = b /\ cpc' = "body" /\ UNCHANGED <<shown, outcome, c_closed>>
    BY <1>12, <2>2 DEF HeaderRead
  <2>4. ClientState'
    BY <1>1, <1>2, <1>4, <2>1, <2>3 DEF SInv, ClientState
  <2> QED
    BY <1>1, <1>6, <1>8, <2>3, <2>4, Quiet DEF SInv, server
<1>13. CASE Len(b) = Awaited /\ cpc = "body" /\ BodyRead(b)
  <2>1. Len(rbuf) >= Width /\ outcome = "running"
    BY <1>13 DEF SInv, ClientState
  <2>2. SubSeq(rbuf, 1, Width) = SubSeq(b, 1, Width)
    <3>1. Width \in 0..Len(rbuf) /\ SubSeq(s2c, 1, n) \in Seq(Byte)
      BY <1>2, <1>3, <2>1, Beginning
    <3> QED
      BY <1>2, <3>1, FirstBytes DEF b
  <2>3. Len(b) >= Width
    BY <1>2, <1>3, <1>4, <2>1
  <2>4. Len(b) = Width + Len(d) /\ Len(b) - Width = Len(d)
    <3>1. Len(b) = Num(SubSeq(rbuf, 1, Width)) + Width
      BY <1>13 DEF Awaited
    <3>2. Num(SubSeq(b, 1, Width)) = Len(d) /\ Len(d) \in Nat
      BY <1>10, <2>3
    <3>3. Len(b) = Len(d) + Width
      BY <2>2, <3>1, <3>2
    <3> QED
      BY <1>2, <3>2, <3>3
  <2>5. /\ Drop(b, Width) = d /\ FirstReplies(p + 1) \o (rest \o lost) = ReplyFrames
        /\ p < Len(served) /\ Visible(v) \in Values
    BY <1>10, <2>3, <2>4
  <2>6. print_response(Drop(b, Width)) = took(Visible(v), Len(d)) /\ took(Visible(v), Len(d)) # NULL
    BY <1>10, <2>3, <2>5
  <2>7. /\ rbuf' = << >> /\ shown' = Append(shown, Visible(v))
        /\ IF Len(shown') = Len(script) THEN End("answered")
           ELSE cpc' = "header" /\ UNCHANGED <<outcome, c_closed>>
    <3> DEFINE printed == print_response(Drop(b, Width))
    <3>1. printed # NULL /\ printed.val = Visible(v) /\ printed.size = Len(b) - Width
      BY <2>4, <2>6 DEF took
    <3>2. /\ rbuf' = << >>
          /\ shown' = IF printed = NULL THEN shown ELSE Append(shown, printed.val)
          /\ IF printed = NULL \/ printed.size # Len(b) - Width THEN End("bad_response")
             ELSE IF Len(shown') = Len(script) THEN End("answered")
             ELSE cpc' = "header" /\ UNCHANGED <<outcome, c_closed>>
      BY <1>13 DEF BodyRead
    <3> HIDE DEF printed
    <3> QED
      BY <3>1, <3>2
  <2>8. shown' \in Seq(Values) /\ Len(shown') = p + 1
    BY <1>2, <2>5, <2>7
  <2>9. ClientState'
    <3>1. rbuf' \in Seq(Byte) /\ cpc' \in {"header", "done"} /\ (outcome' = "running" <=> cpc' # "done")
      BY <2>1, <2>7 DEF End
    <3> QED
      BY <1>1, <3>1 DEF SInv, ClientState
  <2>10. AnsweredInOrder'
    <3> DEFINE new == FirstReplies(p + 1)
    <3>1. p + 1 \in 0..Len(served) /\ p + 1 <= Len(served)
      BY <1>2, <2>5
    <3>2. new \in Seq(Byte)
      BY <1>2, <3>1, AnswersType
    <3>3. FirstReplies(Len(shown))' = new
      BY <1>1, <2>8 DEF FirstReplies, Answers, server
    <3> HIDE DEF new
    <3>4. << >> \o rest = rest
      BY <1>4
    <3>5. ReplyFrames = (new \o rest) \o lost /\ new \o rest \in Seq(Byte)
      <4>1. Regroups(new, rest, lost)
        BY <1>4, <3>2, Regrouped
      <4>2. new \o (rest \o lost) = ReplyFrames
        BY <2>5 DEF new
      <4> QED
        BY <1>4, <3>2, <4>1, <4>2, ConcatProperties DEF Regroups
    <3>6. IsPrefix(new \o rest, ReplyFrames)
      BY <3>5, PrefixMade
    <3>7. rbuf' \o s2c' = rest
      BY <1>1, <2>7, <3>4
    <3> QED
      BY <1>5, <1>7, <2>8, <3>1, <3>3, <3>5, <3>6, <3>7 DEF AnsweredInOrder
  <2>11. S!Show
    <3>1. outcome' = IF Len(shown') = Len(script) THEN "answered" ELSE "running"
      BY <2>1, <2>7 DEF End
    <3> QED
      BY <1>1, <2>1, <2>5, <2>7, <3>1 DEF S!Show, server, v
  <2> QED
    BY <1>6, <2>8, <2>9, <2>10, <2>11 DEF SInv, SessionStep
<1> QED
  BY <1>11, <1>12, <1>13 DEF ReadFull, b

(* The frames of the first k requests of some.                               *)
LEMMA FirstFrames ==
    ASSUME NEW cmds \in Seq(Cmds), NEW n \in 0..Len(cmds), NEW k \in 0..n
    PROVE  /\ Frames(SubSeq(cmds, 1, k)) \in Seq(Byte)
           /\ \E more \in Seq(Byte) : Frames(SubSeq(cmds, 1, n)) = Frames(SubSeq(cmds, 1, k)) \o more
<1> DEFINE all == [i \in DOMAIN cmds |-> Frame(cmds[i])]
           most == SubSeq(all, 1, n)
<1>1. /\ Len(cmds) \in Nat /\ DOMAIN cmds = 1..Len(cmds)
      /\ \A i \in 1..Len(cmds) : cmds[i] \in Cmds /\ Frame(cmds[i]) \in Seq(Byte)
  BY LenProperties, ElementOfSeq, FrameIs
<1>2. all \in Seq(Seq(Byte)) /\ Len(all) = Len(cmds) /\ \A i \in 1..Len(cmds) : all[i] = Frame(cmds[i])
  <2>1. all \in [1..Len(cmds) -> Seq(Byte)]
    BY <1>1
  <2> QED
    BY <1>1, <2>1
<1> HIDE DEF all
<1>3. n \in Nat /\ k \in Nat /\ k <= n /\ n <= Len(cmds) /\ k \in 0..Len(cmds)
  BY <1>1
<1>4. ASSUME NEW j \in 0..Len(cmds)
      PROVE  Frames(SubSeq(cmds, 1, j)) = FlattenSeq(SubSeq(all, 1, j)) /\ SubSeq(all, 1, j) \in Seq(Seq(Byte))
  <2> DEFINE c == SubSeq(cmds, 1, j)
             a == SubSeq(all, 1, j)
  <2>1. c \in Seq(Cmds) /\ Len(c) = j /\ \A i \in 1..j : c[i] = cmds[i]
    BY Beginning
  <2>2. a \in Seq(Seq(Byte)) /\ Len(a) = j /\ \A i \in 1..j : a[i] = all[i]
    BY <1>2, Beginning
  <2> HIDE DEF c, a
  <2>3. DOMAIN c = 1..j /\ DOMAIN a = 1..j /\ a = [i \in 1..j |-> a[i]]
    BY <2>1, <2>2, LenProperties
  <2>4. [i \in DOMAIN c |-> Frame(c[i])] = a
    <3>1. \A i \in 1..j : Frame(c[i]) = a[i]
      <4>1. \A i \in 1..j : i \in 1..Len(cmds)
        BY <1>1
      <4> QED
        BY <1>2, <2>1, <2>2, <4>1
    <3> QED
      BY <2>3, <3>1
  <2>5. Frames(c) = FlattenSeq(a)
    BY <2>4 DEF Frames
  <2> QED
    BY <2>2, <2>5 DEF c, a
<1>5. most \in Seq(Seq(Byte)) /\ Len(most) = n /\ \A i \in 1..n : most[i] = all[i]
  BY <1>2, <1>3, Beginning
<1>6. SubSeq(most, 1, k) = SubSeq(all, 1, k)
  <2> HIDE DEF most
  <2>1. SubSeq(most, 1, k) \in Seq(Seq(Byte)) /\ Len(SubSeq(most, 1, k)) = k
        /\ \A i \in 1..k : SubSeq(most, 1, k)[i] = most[i]
    BY <1>3, <1>5, Beginning
  <2>2. SubSeq(all, 1, k) \in Seq(Seq(Byte)) /\ Len(SubSeq(all, 1, k)) = k
        /\ \A i \in 1..k : SubSeq(all, 1, k)[i] = all[i]
    BY <1>2, <1>3, Beginning
  <2>3. \A i \in 1..k : most[i] = all[i]
    BY <1>3, <1>5
  <2> QED
    BY <2>1, <2>2, <2>3, SeqEqual
<1>7. \E more \in Seq(Byte) : FlattenSeq(most) = FlattenSeq(SubSeq(most, 1, k)) \o more
  <2> HIDE DEF most
  <2> QED
    BY <1>3, <1>5, FlatParts
<1>8. Frames(SubSeq(cmds, 1, k)) \in Seq(Byte)
  BY <1>3, <1>4, FlatType
<1> QED
  BY <1>4, <1>3, <1>6, <1>7, <1>8

(* A request found behind those executed is the next one sent.               *)
LEMMA NextRequest ==
    ASSUME script \in Seq(Cmds), asked \in 0..Len(script), NEW m \in 0..asked,
           \A i \in 1..asked : Fits(script[i]),
           NEW cmd \in Cmds, Fits(cmd), NEW rest \in Seq(Byte),
           IsPrefix(Frames(SubSeq(script, 1, m)) \o (Frame(cmd) \o rest), Frames(SubSeq(script, 1, asked)))
    PROVE  /\ m < asked /\ cmd = script[m + 1]
           /\ SubSeq(script, 1, m + 1) = Append(SubSeq(script, 1, m), cmd)
           /\ IsPrefix(Frames(SubSeq(script, 1, m + 1)) \o rest, Frames(SubSeq(script, 1, asked)))
<1> DEFINE had == Frames(SubSeq(script, 1, m))
           all == Frames(SubSeq(script, 1, asked))
           f == Frame(cmd)
           next == script[m + 1]
<1>1. Len(script) \in Nat /\ asked \in Nat /\ m \in Nat /\ m <= asked /\ asked <= Len(script)
  BY LenProperties
<1>2. had \in Seq(Byte) /\ all \in Seq(Byte)
  BY <1>1, FirstFrames
<1>3. f \in Seq(Byte) /\ Len(f) \in Nat /\ Len(f) > 0
  <2>1. f \in Seq(Byte) /\ Len(f) = Width + Len(RequestBody(cmd)) /\ Len(RequestBody(cmd)) \in Nat
    BY FrameIs
  <2> QED
    BY <2>1, ProtocolAssumption
<1>4. f \o rest \in Seq(Byte)
  BY <1>3, ConcatProperties
<1>5. had \o (f \o rest) \in Seq(Byte)
  BY <1>2, <1>4, ConcatProperties
<1>6. PICK l \in Seq(Byte) : all = (had \o (f \o rest)) \o l
  BY <1>2, <1>5, PrefixIs
<1> HIDE DEF had, all, f
<1>7. m < asked
  <2> SUFFICES ASSUME m = asked PROVE FALSE
    BY <1>1
  <2>1. had = all
    BY DEF had, all
  <2>2. Len((had \o (f \o rest)) \o l) = Len(had) + (Len(f) + Len(rest)) + Len(l)
    <3>1. Len(f \o rest) = Len(f) + Len(rest)
      BY <1>3, ConcatProperties
    <3>2. Len(had \o (f \o rest)) = Len(had) + Len(f \o rest)
      BY <1>2, <1>4, ConcatProperties
    <3>3. Len((had \o (f \o rest)) \o l) = Len(had \o (f \o rest)) + Len(l)
      BY <1>5, ConcatProperties
    <3> QED
      BY <3>1, <3>2, <3>3
  <2>3. Len(had) \in Nat /\ Len(rest) \in Nat /\ Len(l) \in Nat
    BY <1>2, LenProperties
  <2> QED
    BY <1>3, <1>6, <2>1, <2>2, <2>3
<1>8. /\ next \in Cmds /\ Fits(next)
      /\ SubSeq(script, 1, m + 1) = Append(SubSeq(script, 1, m), next)
      /\ Frames(SubSeq(script, 1, m + 1)) = had \o Frame(next) /\ Frame(next) \in Seq(Byte)
  <2>1. m + 1 \in 1..asked /\ m \in 0..(Len(script) - 1) /\ m + 1 \in 1..Len(script)
    BY <1>1, <1>7
  <2>2. next \in Cmds /\ Fits(next)
    BY <2>1, ElementOfSeq
  <2>3. SubSeq(script, 1, m + 1) = Append(SubSeq(script, 1, m), next) /\ SubSeq(script, 1, m) \in Seq(Cmds)
    BY <1>1, <2>1, Beginning
  <2> QED
    BY <2>2, <2>3, FramesAppend DEF had
<1>9. PICK more \in Seq(Byte) : all = (had \o Frame(next)) \o more
  <2>1. asked \in 0..Len(script) /\ m + 1 \in 0..asked
    BY <1>1, <1>7
  <2>2. \E more \in Seq(Byte) : all = Frames(SubSeq(script, 1, m + 1)) \o more
    BY <2>1, FirstFrames DEF all
  <2> QED
    BY <1>8, <2>2
<1> HIDE DEF next
<1>10. f \o (rest \o l) = Frame(next) \o more /\ rest \o l \in Seq(Byte)
  <2>1. rest \o l \in Seq(Byte) /\ f \o (rest \o l) \in Seq(Byte) /\ Frame(next) \o more \in Seq(Byte)
    <3>1. rest \o l \in Seq(Byte)
      BY ConcatProperties
    <3> QED
      BY <1>3, <1>8, <3>1, ConcatProperties
  <2>2. Regroups(had, f \o rest, l) /\ Regroups(f, rest, l) /\ Regroups(had, Frame(next), more)
    BY <1>2, <1>3, <1>4, <1>8, Regrouped
  <2>3. had \o (f \o (rest \o l)) = had \o (Frame(next) \o more)
    BY <1>6, <1>9, <2>2, Zenon DEF Regroups
  <2> QED
    BY <1>2, <2>1, <2>3, Cancel
<1>11. cmd = next
  BY <1>8, <1>10, OneFirst DEF f
<1>12. IsPrefix((had \o Frame(next)) \o rest, all)
  <2>1. had \o f \in Seq(Byte) /\ (had \o f) \o rest \in Seq(Byte)
    <3>1. had \o f \in Seq(Byte)
      BY <1>2, <1>3, ConcatProperties
    <3> QED
      BY <3>1, ConcatProperties
  <2>2. Regroups(had, f, rest)
    BY <1>2, <1>3, Regrouped
  <2>3. all = ((had \o f) \o rest) \o l
    BY <1>6, <2>2 DEF Regroups
  <2>4. IsPrefix((had \o f) \o rest, all)
    BY <2>1, <2>3, PrefixMade
  <2> QED
    BY <1>11, <2>4 DEF f
<1> QED
  BY <1>7, <1>8, <1>11, <1>12 DEF next, all

LEMMA RepliesOf ==
    ASSUME NEW s \in Seq(Entries)
    PROVE  LET r == [i \in DOMAIN s |-> ReplyFrame(s[i].response)] IN
           r \in Seq(Seq(Byte)) /\ Len(r) = Len(s)
<1>1. Len(s) \in Nat /\ DOMAIN s = 1..Len(s) /\ \A i \in 1..Len(s) : s[i].response \in Values
  <2>1. Len(s) \in Nat /\ DOMAIN s = 1..Len(s) /\ \A i \in 1..Len(s) : s[i] \in Entries
    BY LenProperties, ElementOfSeq
  <2> QED
    BY <2>1 DEF Entries
<1>2. [i \in DOMAIN s |-> ReplyFrame(s[i].response)] \in [1..Len(s) -> Seq(Byte)]
  BY <1>1, VisibleIs
<1> QED
  BY <1>1, <1>2

(* Execute: the request is the next one, whatever the bytes were cut into. *)
LEMMA try_one_requestSession ==
    ASSUME PInv, SInv, try_one_request
    PROVE  SInv' /\ SessionStep
<1> USE DEF SInv
<1> DEFINE b == conn.incoming
           m == Len(served)
<1>1. /\ conn \in Conns /\ conn # NULL /\ served \in Seq(Entries) /\ script \in Seq(Cmds)
      /\ asked \in 0..Len(script) /\ b \in Seq(Byte) /\ conn.outgoing \in Seq(Byte)
      /\ UNCHANGED <<client, s_closed, c2s, s2c, broken>>
  <2>1. conn \in Conns /\ conn # NULL /\ served \in Seq(Entries) /\ script \in Seq(Cmds) /\ asked \in 0..Len(script)
    BY DEF PInv, Shapes, Turns, try_one_request
  <2>2. UNCHANGED <<client, s_closed, c2s, s2c, broken>>
    BY DEF try_one_request
  <2> QED
    BY <2>1, <2>2, ConnType
<1>2. ClientState'
  BY <1>1 DEF ClientState, client
<1>3. CASE conn' = [conn EXCEPT !.want_close = TRUE] /\ UNCHANGED served
  <2>1. conn'.incoming = conn.incoming /\ conn'.outgoing = conn.outgoing
    BY <1>1, <1>3 DEF Conns
  <2>2. ExecutedInOrder' /\ AnsweredInOrder'
    BY <1>1, <1>3, <2>1, KeepsExecuted, KeepsAnswered DEF client
  <2> QED
    BY <1>1, <1>2, <1>3, <2>2, Quiet DEF client
<1>4. CASE UNCHANGED <<conn, served>>
  BY <1>1, <1>2, <1>4, KeepsExecuted, KeepsAnswered, Quiet DEF client
<1>5. CASE /\ ~TooLong(b) /\ HasMessage(b) /\ parse_req(Message(b)) # NULL
           /\ \E v \in Responses : \E out \in do_request(response_begin(conn.outgoing), v) :
                 /\ conn' = [conn EXCEPT !.outgoing = response_end(out, Len(conn.outgoing)),
                                         !.incoming = Drop(b, Width + Len(Message(b)))]
                 /\ served' = Append(served, [cmd |-> parse_req(Message(b)), response |-> v])
  <2>1. PICK v \in Responses : \E out \in do_request(response_begin(conn.outgoing), v) :
                 /\ conn' = [conn EXCEPT !.outgoing = response_end(out, Len(conn.outgoing)),
                                         !.incoming = Drop(b, Width + Len(Message(b)))]
                 /\ served' = Append(served, [cmd |-> parse_req(Message(b)), response |-> v])
    BY <1>5
  <2>2. PICK out \in do_request(response_begin(conn.outgoing), v) :
                 /\ conn' = [conn EXCEPT !.outgoing = response_end(out, Len(conn.outgoing)),
                                         !.incoming = Drop(b, Width + Len(Message(b)))]
                 /\ served' = Append(served, [cmd |-> parse_req(Message(b)), response |-> v])
    BY <2>1
  <2> DEFINE cmd == parse_req(Message(b))
             rest == Drop(b, Width + Len(Message(b)))
             reply == ReplyFrame(v)
             e == [cmd |-> cmd, response |-> v]
             new == conn.outgoing \o reply
  <2>3. cmd \in Cmds /\ Fits(cmd) /\ rest \in Seq(Byte) /\ b = Frame(cmd) \o rest
    BY <1>1, <1>5, FrameTaken
  <2>4. v \in Values
    BY ProtocolAssumption
  <2>5. response_end(out, Len(conn.outgoing)) = new
    BY <1>1, <2>4, Replied
  <2>6. conn' = [conn EXCEPT !.outgoing = new, !.incoming = rest] /\ served' = Append(served, e)
    BY <2>2, <2>5
  <2>7. conn'.outgoing = new /\ conn'.incoming = rest
    BY <1>1, <2>6 DEF Conns
  <2>8. e \in Entries /\ e.cmd = cmd /\ e.response = v
    BY <2>3, <2>4 DEF Entries
  <2> HIDE DEF cmd, rest, e, b
  <2>9. /\ served' \in Seq(Entries) /\ Executed \in Seq(Cmds) /\ Executed' = Append(Executed, cmd)
        /\ ReplyFrames \in Seq(Byte) /\ reply \in Seq(Byte) /\ ReplyFrames' = ReplyFrames \o reply
    BY <1>1, <2>6, <2>8, ServedAppend DEF Executed, ReplyFrames
  <2>10. m \in 0..asked /\ m \in Nat /\ Len(served') = m + 1
    BY <1>1, <2>6, LenProperties DEF ExecutedInOrder
  <2>11. Executed = SubSeq(script, 1, m) /\ \A i \in 1..asked : Fits(script[i])
    BY DEF ExecutedInOrder, ClientState
  <2>12. /\ m < asked /\ cmd = script[m + 1]
         /\ SubSeq(script, 1, m + 1) = Append(SubSeq(script, 1, m), cmd)
         /\ IsPrefix(Frames(SubSeq(script, 1, m + 1)) \o rest, Frames(SubSeq(script, 1, asked)))
    <3>1. IsPrefix(Frames(Executed) \o b, Frames(SubSeq(script, 1, asked)))
      BY <1>1 DEF ExecutedInOrder, b
    <3>2. IsPrefix(Frames(SubSeq(script, 1, m)) \o (Frame(cmd) \o rest), Frames(SubSeq(script, 1, asked)))
      BY <2>3, <2>11, <3>1
    <3> HIDE DEF m
    <3> QED
      BY <1>1, <2>3, <2>10, <2>11, <3>2, NextRequest
  <2>13. ExecutedInOrder'
    <3>1. Executed' = SubSeq(script, 1, m + 1)
      BY <2>9, <2>11, <2>12
    <3>2. (Frames(Executed))' = Frames(SubSeq(script, 1, m + 1))
      BY <3>1
    <3> QED
      BY <1>1, <2>7, <2>10, <2>12, <3>1, <3>2 DEF ExecutedInOrder, client
  <2>14. AnsweredInOrder'
    <3> DEFINE sent == FirstReplies(Len(shown))
               on == sent \o (rbuf \o s2c)
    <3>1. /\ sent \in Seq(Byte) /\ on \in Seq(Byte) /\ Len(shown) \in 0..m
      BY SentType
    <3>2. FirstReplies(Len(shown))' = sent
      <4>1. Answers \in Seq(Seq(Byte)) /\ Len(Answers) = m
        BY <1>1, AnswersType
      <4>2. Answers' \in Seq(Seq(Byte)) /\ Len(Answers') = m + 1
        <5>1. served' \in Seq(Entries)
          BY <2>9
        <5>2. Answers' \in Seq(Seq(Byte)) /\ Len(Answers') = Len(served')
          BY <5>1, RepliesOf DEF Answers
        <5> QED
          BY <2>10, <5>2
      <4>3. ASSUME NEW i \in 1..m PROVE Answers'[i] = Answers[i]
        <5>1. i \in 1..(m + 1) /\ DOMAIN served = 1..m /\ DOMAIN served' = 1..(m + 1)
          BY <1>1, <2>9, <2>10, LenProperties
        <5>2. served'[i] = served[i]
          BY <1>1, <2>6, <2>8, <5>1, AppendProperties
        <5> QED
          BY <5>1, <5>2 DEF Answers
      <4>4. SubSeq(Answers', 1, Len(shown)) = SubSeq(Answers, 1, Len(shown))
        <5> DEFINE p == Len(shown)
        <5>1. p \in 0..m /\ p \in 0..(m + 1) /\ \A i \in 1..p : i \in 1..m
          BY <2>10, <3>1
        <5> HIDE DEF p, m
        <5>2. SubSeq(Answers, 1, p) \in Seq(Seq(Byte)) /\ Len(SubSeq(Answers, 1, p)) = p
              /\ \A i \in 1..p : SubSeq(Answers, 1, p)[i] = Answers[i]
          BY <4>1, <5>1, Beginning
        <5>3. SubSeq(Answers', 1, p) \in Seq(Seq(Byte)) /\ Len(SubSeq(Answers', 1, p)) = p
              /\ \A i \in 1..p : SubSeq(Answers', 1, p)[i] = Answers'[i]
          BY <4>2, <5>1, Beginning
        <5>4. \A i \in 1..p : Answers'[i] = Answers[i]
          BY <4>3, <5>1
        <5>5. SubSeq(Answers', 1, p) = SubSeq(Answers, 1, p)
          BY <5>2, <5>3, <5>4, SeqEqual
        <5> QED
          BY <5>5 DEF p
      <4>5. shown' = shown
        BY <1>1 DEF client
      <4> QED
        BY <4>4, <4>5 DEF FirstReplies
    <3> HIDE DEF sent
    <3>3. IsPrefix(on, ReplyFrames \o reply)
      <4> HIDE DEF on, reply
      <4>1. IsPrefix(on, ReplyFrames)
        BY DEF AnsweredInOrder, on, sent
      <4>2. PICK lost \in Seq(Byte) : ReplyFrames = on \o lost
        BY <2>9, <3>1, <4>1, PrefixIs
      <4>3. Regroups(on, lost, reply) /\ lost \o reply \in Seq(Byte)
        BY <2>9, <3>1, Regrouped, ConcatProperties
      <4>4. ReplyFrames \o reply = on \o (lost \o reply)
        BY <4>2, <4>3 DEF Regroups
      <4> QED
        BY <3>1, <4>3, <4>4, PrefixMade
    <3>4. ASSUME ~broken PROVE ReplyFrames \o reply = on \o new
      <4>1. ReplyFrames = on \o conn.outgoing
        BY <1>1, <3>4 DEF AnsweredInOrder, on, sent
      <4> HIDE DEF on, reply
      <4>2. Regroups(on, conn.outgoing, reply)
        BY <1>1, <2>9, <3>1, Regrouped
      <4> QED
        BY <4>1, <4>2 DEF Regroups
    <3>5. UNCHANGED <<rbuf, s2c, shown, broken>>
      BY <1>1 DEF client
    <3>6. Len(shown) <= m + 1
      BY <2>10, <3>1
    <3> QED
      BY <2>7, <2>9, <2>10, <3>2, <3>3, <3>4, <3>5, <3>6 DEF AnsweredInOrder
  <2>15. S!Execute
    <3>1. m < Len(script) /\ Fits(script[m + 1])
      <4>1. Len(script) \in Nat /\ m + 1 \in 1..asked
        BY <1>1, <2>10, <2>12, LenProperties
      <4> QED
        BY <1>1, <2>10, <2>11, <2>12, <4>1
    <3>2. served' = Append(served, [cmd |-> script[m + 1], response |-> v])
      BY <2>6, <2>12 DEF e
    <3> QED
      BY <1>1, <3>1, <3>2 DEF S!Execute, client
  <2> QED
    BY <1>1, <1>2, <2>13, <2>14, <2>15 DEF SessionStep, client
<1> QED
  BY <1>3, <1>4, <1>5 DEF try_one_request

(* The initial states correspond, and so does every step.                  *)
LEMMA SessionBegins ==
    ASSUME Init, script # << >>
    PROVE  SInv /\ S!SessionInit
<1>1. /\ script \in Scripts /\ stream = << >> /\ cpc = "send" /\ wbuf = << >>
      /\ asked = 0 /\ rbuf = << >> /\ shown = << >> /\ outcome = "running"
      /\ c2s = << >> /\ s2c = << >> /\ broken = FALSE
      /\ conn = NewConn /\ spc = "poll" /\ served = << >>
  BY DEF Init
<1>2. ClientState
  BY <1>1 DEF ClientState
<1>3. Executed = << >> /\ ReplyFrames = << >> /\ FirstReplies(0) = << >>
  <2>1. Answers = << >> /\ Executed = << >>
    BY <1>1 DEF Answers, Executed
  <2>2. SubSeq(Answers, 1, 0) = << >>
    BY <2>1
  <2> QED
    BY <1>1, <2>1, <2>2, FlatEmpty DEF ReplyFrames, FirstReplies, Answers
<1>4. << >> \o << >> = << >> /\ IsPrefix(<< >>, << >>)
  BY DEF IsPrefix
<1>5. SubSeq(script, 1, 0) = << >>
  BY <1>1, ProtocolAssumption
<1>6. Frames(<< >>) = << >>
  BY FlatEmpty DEF Frames
<1>7. ExecutedInOrder
  <2>1. Len(served) = 0 /\ conn.incoming = << >> /\ SubSeq(script, 1, asked) = << >>
        /\ SubSeq(script, 1, Len(served)) = << >>
    BY <1>1, <1>5 DEF NewConn
  <2>2. Frames(Executed) \o conn.incoming = << >> /\ Frames(SubSeq(script, 1, asked)) = << >>
    BY <1>3, <1>4, <1>6, <2>1
  <2> QED
    BY <1>1, <1>3, <1>4, <2>1, <2>2 DEF ExecutedInOrder
<1>8. AnsweredInOrder
  BY <1>1, <1>3, <1>4 DEF AnsweredInOrder, NewConn
<1> QED
  BY <1>1, <1>2, <1>7, <1>8 DEF SInv, S!SessionInit

LEMMA SessionSteps ==
    ASSUME PInv, PInv', SInv, [Next]_vars
    PROVE  SInv' /\ SessionStep
<1>1. CASE Client
  BY <1>1, SendReqSession, WriteAllSession, EndSession, ReadFullSession DEF Client
<1>2. CASE Peer
  BY <1>2, PeerSession
<1>3. CASE Server
  BY <1>3, handle_readSession, try_one_requestSession, WriterSession DEF Server
<1>4. CASE IdleTimeout
  BY <1>4, IdleTimeoutSession
<1>5. CASE Fail
  BY <1>5, FailSession
<1>6. CASE UNCHANGED vars
  <2>1. UNCHANGED <<client, server, c2s, s2c, broken>>
    BY <1>6 DEF vars
  <2>2. ClientState' /\ ExecutedInOrder' /\ AnsweredInOrder'
    BY <2>1, KeepsExecuted, KeepsAnswered DEF SInv, ClientState, client, server
  <2> QED
    BY <2>1, <2>2, Quiet DEF SInv, client, server
<1> QED
  BY <1>1, <1>2, <1>3, <1>4, <1>5, <1>6 DEF Next

-----------------------------------------------------------------------------
(* For any widths, limits, sockets and requests: a peer that is a client is  *)
(* shown the responses to its own requests, whole, in order, whatever is too *)
(* big, or it learns that the connection is gone.                            *)
THEOREM SessionImplemented == Spec /\ script # << >> => ImplementsSession
<1>1. Init => PInv
  BY Initially
<1>2. PInv /\ [Next]_vars => PInv'
  BY Step
<1>3. Init /\ script # << >> => SInv /\ S!SessionInit
  BY SessionBegins
<1>4. PInv /\ PInv' /\ SInv /\ [Next]_vars => SInv' /\ [S!Execute \/ S!Show \/ S!Break]_(S!sessionVars)
  BY SessionSteps DEF SessionStep
<1> QED
  BY <1>1, <1>2, <1>3, <1>4, PTL DEF Spec, ImplementsSession, S!SessionSpec
=============================================================================
