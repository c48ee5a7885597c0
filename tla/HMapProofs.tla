----------------------------- MODULE HMapProofs -----------------------------
(***************************************************************************)
(* Proofs about the hashtable for any number of nodes, any hash codes, any *)
(* load factor and any amount of migration per call.                       *)
(*                                                                         *)
(* First what the operations on one table do to the set of its nodes, then *)
(* the two tables, then what their users see of them.                      *)
(***************************************************************************)
EXTENDS HMap, FiniteSetTheorems, SequenceTheorems, TLAPS

Slots(htab) == 0..(htab.slots - 1)

(* Every node of a table is in its slot, in one place, and counted.          *)
TabOK(htab) ==
    /\ HTabOK(htab)
    /\ \A s \in Slots(htab) : \A i \in 1..Len(htab.tab[s]) :
          Slot(htab, HashOf[htab.tab[s][i]]) = s
    /\ \A s \in Slots(htab) : \A i, j \in 1..Len(htab.tab[s]) :
          htab.tab[s][i] = htab.tab[s][j] => i = j
    /\ IsFiniteSet(NodesOf(htab))
    /\ htab.size = Cardinality(NodesOf(htab))

-----------------------------------------------------------------------------
(* Chains.                                                                   *)
LEMMA HashType == \A n \in Nodes : HashOf[n] \in Nat
BY HMapAssumption

LEMMA SlotType ==
    ASSUME NEW htab, htab.slots \in Nat \ {0}, NEW c \in Nat
    PROVE  Slot(htab, c) \in Slots(htab)
BY DEF Slot, Slots

LEMMA ChainType ==
    ASSUME NEW htab, HTabOK(htab), NEW s \in Slots(htab)
    PROVE  /\ htab.tab[s] \in Seq(Nodes)
           /\ Len(htab.tab[s]) \in Nat
           /\ DOMAIN htab.tab[s] = 1..Len(htab.tab[s])
           /\ \A i \in 1..Len(htab.tab[s]) : htab.tab[s][i] \in Nodes
           /\ htab.tab[s] # << >> <=> Len(htab.tab[s]) > 0
BY EmptySeq DEF HTabOK, Slots

LEMMA Member ==
    ASSUME NEW htab, HTabOK(htab)
    PROVE  /\ \A n : n \in NodesOf(htab) <=>
                 \E s \in Slots(htab) : \E i \in 1..Len(htab.tab[s]) : n = htab.tab[s][i]
           /\ NodesOf(htab) \subseteq Nodes
<1>1. \A n : n \in NodesOf(htab) <=>
          \E s \in Slots(htab) : \E i \in DOMAIN htab.tab[s] : n = htab.tab[s][i]
  BY DEF NodesOf, Slots
<1>2. \A s \in Slots(htab) : /\ DOMAIN htab.tab[s] = 1..Len(htab.tab[s])
                             /\ \A i \in 1..Len(htab.tab[s]) : htab.tab[s][i] \in Nodes
  BY ChainType
<1> HIDE DEF Slots
<1> QED
  BY <1>1, <1>2

LEMMA PrependChain ==
    ASSUME NEW c \in Seq(Nodes), NEW n \in Nodes
    PROVE  /\ <<n>> \o c \in Seq(Nodes)
           /\ Len(<<n>> \o c) = Len(c) + 1
           /\ (<<n>> \o c)[1] = n
           /\ \A i \in 2..(Len(c) + 1) : (<<n>> \o c)[i] = c[i - 1]
<1>1. <<n>> \in Seq(Nodes) /\ Len(<<n>>) = 1 /\ <<n>>[1] = n /\ Len(c) \in Nat
  OBVIOUS
<1> QED
  BY <1>1, ConcatProperties

LEMMA WithoutChain ==
    ASSUME NEW c \in Seq(Nodes), NEW i \in 1..Len(c)
    PROVE  /\ Without(c, i) \in Seq(Nodes)
           /\ Len(Without(c, i)) = Len(c) - 1
           /\ \A j \in 1..(Len(c) - 1) :
                 Without(c, i)[j] = IF j < i THEN c[j] ELSE c[j + 1]
<1> DEFINE l == SubSeq(c, 1, i - 1)
           r == SubSeq(c, i + 1, Len(c))
<1>1. Len(c) \in Nat /\ \A j \in 1..Len(c) : c[j] \in Nodes
  OBVIOUS
<1>2. /\ l \in Seq(Nodes) /\ Len(l) = i - 1
      /\ \A j \in 1..(i - 1) : l[j] = c[j]
  <2>1. \A j \in 1..(i - 1) : c[j] \in Nodes
    BY <1>1
  <2>2. /\ l \in Seq(Nodes) /\ Len(l) = IF 1 <= i - 1 THEN i - 1 - 1 + 1 ELSE 0
        /\ \A j \in 1..(i - 1 - 1 + 1) : l[j] = c[1 + j - 1]
    BY <2>1, SubSeqProperties
  <2> QED
    BY <2>2, <1>1
<1>3. /\ r \in Seq(Nodes) /\ Len(r) = Len(c) - i
      /\ \A j \in 1..(Len(c) - i) : r[j] = c[i + j]
  <2>1. \A j \in (i + 1)..Len(c) : c[j] \in Nodes
    BY <1>1
  <2>2. /\ r \in Seq(Nodes)
        /\ Len(r) = IF i + 1 <= Len(c) THEN Len(c) - (i + 1) + 1 ELSE 0
        /\ \A j \in 1..(Len(c) - (i + 1) + 1) : r[j] = c[i + 1 + j - 1]
    BY <1>1, <2>1, SubSeqProperties
  <2> QED
    BY <2>2, <1>1
<1> HIDE DEF l, r
<1>4. /\ l \o r \in Seq(Nodes)
      /\ Len(l \o r) = Len(l) + Len(r)
      /\ \A j \in 1..(Len(l) + Len(r)) :
            (l \o r)[j] = IF j <= Len(l) THEN l[j] ELSE r[j - Len(l)]
  BY <1>2, <1>3, ConcatProperties
<1>5. Without(c, i) = l \o r
  BY DEF Without, l, r
<1>6. ASSUME NEW j \in 1..(Len(c) - 1)
      PROVE  (l \o r)[j] = IF j < i THEN c[j] ELSE c[j + 1]
  <2>1. CASE j < i
    BY <1>1, <1>2, <1>3, <1>4, <2>1
  <2>2. CASE ~(j < i)
    <3>1. (l \o r)[j] = r[j - (i - 1)]
      BY <1>1, <1>2, <1>3, <1>4, <2>2
    <3>2. j - (i - 1) \in 1..(Len(c) - i) /\ i + (j - (i - 1)) = j + 1
      BY <1>1, <2>2
    <3> QED
      BY <1>3, <2>2, <3>1, <3>2
  <2> QED
    BY <2>1, <2>2
<1>7. Len(l \o r) = Len(c) - 1
  BY <1>1, <1>2, <1>3, <1>4
<1> QED
  BY <1>4, <1>5, <1>6, <1>7
-----------------------------------------------------------------------------
(* h_init, h_insert and h_detach keep a table in order and change its nodes  *)
(* by none or by one.                                                        *)
LEMMA InitTab ==
    ASSUME NEW k \in Nat
    PROVE  /\ TabOK(h_init(k))
           /\ NodesOf(h_init(k)) = {}
           /\ h_init(k).slots = k /\ h_init(k).size = 0
<1> DEFINE g == h_init(k)
<1>1. /\ g = [tab |-> g.tab, slots |-> g.slots, size |-> g.size]
      /\ g.tab = [s \in 0..(k - 1) |-> << >>] /\ g.slots = k /\ g.size = 0
  BY DEF h_init
<1> HIDE DEF g
<1>2. \A s \in Slots(g) : g.tab[s] = << >>
  BY <1>1 DEF Slots
<1>3. HTabOK(g)
  BY <1>1 DEF HTabOK
<1>4. \A s \in Slots(g) : Len(g.tab[s]) = 0
  BY <1>2
<1>5. NodesOf(g) = {}
  BY <1>3, <1>4, Member
<1>6. TabOK(g)
  <2>1. \A s \in Slots(g) : \A i \in 1..Len(g.tab[s]) : FALSE
    BY <1>4
  <2>2. IsFiniteSet(NodesOf(g)) /\ g.size = Cardinality(NodesOf(g))
    BY <1>1, <1>5, FS_EmptySet
  <2> QED
    BY <1>3, <2>1, <2>2 DEF TabOK
<1> QED
  BY <1>1, <1>5, <1>6 DEF g

LEMMA InsertTab ==
    ASSUME NEW h, TabOK(h), Exists(h), NEW n \in Nodes, n \notin NodesOf(h)
    PROVE  /\ TabOK(h_insert(h, n))
           /\ NodesOf(h_insert(h, n)) = NodesOf(h) \cup {n}
           /\ h_insert(h, n).slots = h.slots
           /\ h_insert(h, n).size = h.size + 1
<1> DEFINE g == h_insert(h, n)
           p == Slot(h, HashOf[n])
           c == <<n>> \o h.tab[p]
<1>1. HTabOK(h) /\ h.slots \in Nat \ {0} /\ HashOf[n] \in Nat
  BY HashType DEF TabOK, HTabOK, Exists
<1>2. p \in Slots(h)
  BY <1>1, SlotType
<1>3. /\ g = [tab |-> g.tab, slots |-> g.slots, size |-> g.size]
      /\ g.tab = [h.tab EXCEPT ![p] = c]
      /\ g.slots = h.slots /\ g.size = h.size + 1
  BY <1>1 DEF h_insert, HTabOK
<1>4. /\ c \in Seq(Nodes) /\ Len(c) = Len(h.tab[p]) + 1 /\ c[1] = n
      /\ \A i \in 2..Len(c) : c[i] = h.tab[p][i - 1]
  BY <1>1, <1>2, ChainType, PrependChain
<1> HIDE DEF g, c, p
<1>5. /\ g.tab[p] = c
      /\ \A s \in Slots(h) : s # p => g.tab[s] = h.tab[s]
  BY <1>1, <1>2, <1>3 DEF HTabOK, Slots
<1>6. HTabOK(g)
  BY <1>1, <1>2, <1>3, <1>4 DEF HTabOK, Slots
<1>7. Slots(g) = Slots(h) /\ \A k : Slot(g, k) = Slot(h, k)
  BY <1>3 DEF Slots, Slot
<1>8. NodesOf(g) = NodesOf(h) \cup {n}
  <2>1. ASSUME NEW s \in Slots(h), NEW i \in 1..Len(g.tab[s])
        PROVE  g.tab[s][i] \in NodesOf(h) \cup {n}
    <3>1. CASE s # p
      BY <1>1, <1>5, <2>1, <3>1, Member
    <3>2. CASE s = p /\ i # 1
      <4>1. i - 1 \in 1..Len(h.tab[s]) /\ g.tab[s][i] = h.tab[s][i - 1]
        BY <1>1, <1>2, <1>4, <1>5, <2>1, <3>2, ChainType
      <4> QED
        BY <1>1, <4>1, Member
    <3> QED
      BY <1>4, <1>5, <3>1, <3>2
  <2>2. ASSUME NEW s \in Slots(h), NEW i \in 1..Len(h.tab[s])
        PROVE  \E j \in 1..Len(g.tab[s]) : g.tab[s][j] = h.tab[s][i]
    <3>1. CASE s # p
      BY <1>5, <3>1
    <3>2. CASE s = p
      <4>1. /\ i + 1 \in 2..Len(c) /\ i + 1 \in 1..Len(c) /\ (i + 1) - 1 = i
        BY <1>1, <1>2, <1>4, <3>2, ChainType
      <4>2. g.tab[s][i + 1] = h.tab[s][i]
        BY <1>4, <1>5, <3>2, <4>1
      <4> QED
        BY <1>5, <3>2, <4>1, <4>2
    <3> QED
      BY <3>1, <3>2
  <2>3. 1 \in 1..Len(g.tab[p]) /\ g.tab[p][1] = n
    BY <1>1, <1>2, <1>4, <1>5, ChainType
  <2>4. \A m : m \in NodesOf(g) <=>
            \E s \in Slots(h) : \E i \in 1..Len(g.tab[s]) : m = g.tab[s][i]
    BY <1>6, <1>7, Member
  <2>5. \A m : m \in NodesOf(h) <=>
            \E s \in Slots(h) : \E i \in 1..Len(h.tab[s]) : m = h.tab[s][i]
    BY <1>1, Member
  <2> QED
    BY <1>2, <2>1, <2>2, <2>3, <2>4, <2>5
<1>9. ASSUME NEW s \in Slots(g), NEW i \in 1..Len(g.tab[s])
      PROVE  Slot(g, HashOf[g.tab[s][i]]) = s
  <2>1. CASE s # p
    BY <1>5, <1>7, <1>9, <2>1 DEF TabOK
  <2>2. CASE s = p /\ i # 1
    <3>1. i - 1 \in 1..Len(h.tab[s]) /\ g.tab[s][i] = h.tab[s][i - 1]
      BY <1>1, <1>2, <1>4, <1>5, <1>9, <2>2, ChainType
    <3> QED
      BY <1>7, <3>1 DEF TabOK
  <2>3. CASE s = p /\ i = 1
    BY <1>4, <1>5, <1>7, <2>3 DEF p
  <2> QED
    BY <2>1, <2>2, <2>3
<1>10. ASSUME NEW s \in Slots(g), NEW i \in 1..Len(g.tab[s]), NEW j \in 1..Len(g.tab[s]),
              g.tab[s][i] = g.tab[s][j]
       PROVE  i = j
  <2>1. CASE s # p
    BY <1>5, <1>7, <1>10, <2>1 DEF TabOK
  <2>2. CASE s = p
    <3>1. \A k \in 2..Len(c) : /\ k - 1 \in 1..Len(h.tab[s]) /\ c[k] = h.tab[s][k - 1]
                               /\ c[k] # n
      <4>1. \A k \in 2..Len(c) : k - 1 \in 1..Len(h.tab[s]) /\ c[k] = h.tab[s][k - 1]
        BY <1>1, <1>2, <1>4, <2>2, ChainType
      <4> QED
        BY <1>1, <1>2, <2>2, <4>1, Member
    <3>2. i \in 1..Len(c) /\ j \in 1..Len(c) /\ c[i] = c[j]
      BY <1>5, <1>10, <2>2
    <3>3. Len(c) \in Nat
      BY <1>4
    <3>4. CASE i = 1 \/ j = 1
      BY <1>4, <3>1, <3>2, <3>3, <3>4
    <3>5. CASE i # 1 /\ j # 1
      <4>1. i \in 2..Len(c) /\ j \in 2..Len(c)
        BY <3>2, <3>3, <3>5
      <4>2. i - 1 = j - 1
        BY <1>7, <3>1, <3>2, <4>1 DEF TabOK
      <4> QED
        BY <4>1, <4>2
    <3> QED
      BY <3>4, <3>5
  <2> QED
    BY <2>1, <2>2
<1>11. /\ IsFiniteSet(NodesOf(g)) /\ Cardinality(NodesOf(g)) = Cardinality(NodesOf(h)) + 1
  BY <1>8, FS_AddElement DEF TabOK
<1>12. TabOK(g)
  BY <1>3, <1>6, <1>9, <1>10, <1>11 DEF TabOK
<1> QED
  BY <1>3, <1>8, <1>12 DEF g
LEMMA DetachTab ==
    ASSUME NEW h, TabOK(h), NEW p \in Slots(h), NEW k \in 1..Len(h.tab[p])
    PROVE  /\ TabOK(h_detach(h, p, k))
           /\ NodesOf(h_detach(h, p, k)) = NodesOf(h) \ {h.tab[p][k]}
           /\ h_detach(h, p, k).slots = h.slots
           /\ h_detach(h, p, k).size = h.size - 1
           /\ \A s \in Slots(h) : h.tab[s] = << >> => h_detach(h, p, k).tab[s] = << >>
           /\ h.tab[p][k] \in NodesOf(h) /\ h.size > 0
<1> DEFINE g == h_detach(h, p, k)
           c == Without(h.tab[p], k)
           n == h.tab[p][k]
<1>1. HTabOK(h)
  BY DEF TabOK
<1>2. n \in NodesOf(h)
  BY <1>1, Member
<1>3. /\ IsFiniteSet(NodesOf(h) \ {n})
      /\ Cardinality(NodesOf(h) \ {n}) = h.size - 1
      /\ h.size \in Nat /\ h.size > 0
  <2>1. IsFiniteSet(NodesOf(h)) /\ h.size = Cardinality(NodesOf(h))
    BY DEF TabOK
  <2>2. /\ IsFiniteSet(NodesOf(h) \ {n})
        /\ Cardinality(NodesOf(h) \ {n}) = h.size - 1
    BY <1>2, <2>1, FS_RemoveElement
  <2>3. h.size \in Nat /\ h.size # 0
    BY <1>2, <2>1, FS_CardinalityType, FS_EmptySet
  <2> QED
    BY <2>2, <2>3
<1>4. /\ g = [tab |-> g.tab, slots |-> g.slots, size |-> g.size]
      /\ g.tab = [h.tab EXCEPT ![p] = c]
      /\ g.slots = h.slots /\ g.size = h.size - 1
  <2>1. h = [tab |-> h.tab, slots |-> h.slots, size |-> h.size]
    BY <1>1 DEF HTabOK
  <2>2. g = [h EXCEPT !.tab[p] = c, !.size = @ - 1]
    BY DEF h_detach
  <2> HIDE DEF g, c
  <2>3. g = [tab |-> [h.tab EXCEPT ![p] = c], slots |-> h.slots, size |-> h.size - 1]
    BY <1>1, <2>1, <2>2 DEF HTabOK
  <2> QED
    BY <2>3
<1>5. /\ h.tab[p] \in Seq(Nodes) /\ Len(h.tab[p]) \in Nat
      /\ c \in Seq(Nodes) /\ Len(c) = Len(h.tab[p]) - 1
      /\ \A j \in 1..Len(c) : c[j] = IF j < k THEN h.tab[p][j] ELSE h.tab[p][j + 1]
  <2>1. h.tab[p] \in Seq(Nodes) /\ Len(h.tab[p]) \in Nat
    BY <1>1, ChainType
  <2> QED
    BY <2>1, WithoutChain
<1> HIDE DEF g, c, n
<1>6. /\ g.tab[p] = c
      /\ \A s \in Slots(h) : s # p => g.tab[s] = h.tab[s]
  BY <1>1, <1>4 DEF HTabOK, Slots
<1>7. HTabOK(g)
  BY <1>1, <1>3, <1>4, <1>5 DEF HTabOK, Slots
<1>8. Slots(g) = Slots(h) /\ \A x : Slot(g, x) = Slot(h, x)
  BY <1>4 DEF Slots, Slot
(* The place in h of what stands at j in the shortened chain.                *)
<1> DEFINE o(j) == IF j < k THEN j ELSE j + 1
<1>9. /\ \A j \in 1..Len(c) : o(j) \in 1..Len(h.tab[p]) /\ o(j) # k /\ c[j] = h.tab[p][o(j)]
      /\ \A i \in 1..Len(h.tab[p]) : i # k => \E j \in 1..Len(c) : i = o(j)
      /\ \A i, j \in 1..Len(c) : o(i) = o(j) => i = j
  <2>1. \A j \in 1..Len(c) : o(j) \in 1..Len(h.tab[p]) /\ o(j) # k /\ c[j] = h.tab[p][o(j)]
    BY <1>5
  <2>2. ASSUME NEW i \in 1..Len(h.tab[p]), i # k
        PROVE  \E j \in 1..Len(c) : i = o(j)
    <3>1. CASE i < k
      BY <1>5, <3>1
    <3>2. CASE i > k
      <4>1. i - 1 \in 1..Len(c) /\ i = o(i - 1)
        BY <1>5, <3>2
      <4> QED
        BY <4>1
    <3> QED
      BY <1>5, <2>2, <3>1, <3>2
  <2> QED
    BY <1>5, <2>1, <2>2
<1> HIDE DEF o
<1>10. ASSUME NEW s \in Slots(h), NEW i \in 1..Len(h.tab[s]), h.tab[s][i] = n
       PROVE  s = p /\ i = k
  <2>1. Slot(h, HashOf[h.tab[s][i]]) = s /\ Slot(h, HashOf[h.tab[p][k]]) = p
    BY DEF TabOK
  <2>2. s = p
    BY <1>10, <2>1 DEF n
  <2> QED
    BY <1>10, <2>2 DEF TabOK, n
<1>11. NodesOf(g) = NodesOf(h) \ {n}
  <2>1. ASSUME NEW s \in Slots(h), NEW i \in 1..Len(g.tab[s])
        PROVE  g.tab[s][i] \in NodesOf(h) /\ g.tab[s][i] # n
    <3>1. CASE s # p
      BY <1>1, <1>6, <1>10, <2>1, <3>1, Member
    <3>2. CASE s = p
      <4>1. /\ o(i) \in 1..Len(h.tab[s]) /\ o(i) # k
            /\ g.tab[s][i] = h.tab[s][o(i)]
        BY <1>6, <1>9, <3>2
      <4> QED
        BY <1>1, <1>10, <4>1, Member
    <3> QED
      BY <3>1, <3>2
  <2>2. ASSUME NEW s \in Slots(h), NEW i \in 1..Len(h.tab[s]), h.tab[s][i] # n
        PROVE  \E j \in 1..Len(g.tab[s]) : g.tab[s][j] = h.tab[s][i]
    <3>1. CASE s # p
      BY <1>6, <3>1
    <3>2. CASE s = p
      <4>1. i # k
        BY <2>2, <3>2 DEF n
      <4> QED
        BY <1>6, <1>9, <3>2, <4>1
    <3> QED
      BY <3>1, <3>2
  <2>3. \A m : m \in NodesOf(g) <=>
            \E s \in Slots(h) : \E i \in 1..Len(g.tab[s]) : m = g.tab[s][i]
    BY <1>7, <1>8, Member
  <2>4. \A m : m \in NodesOf(h) <=>
            \E s \in Slots(h) : \E i \in 1..Len(h.tab[s]) : m = h.tab[s][i]
    BY <1>1, Member
  <2>5. ASSUME NEW m \in NodesOf(g) PROVE m \in NodesOf(h) \ {n}
    BY <2>1, <2>3, <2>5
  <2>6. ASSUME NEW m \in NodesOf(h) \ {n} PROVE m \in NodesOf(g)
    <3>1. PICK s \in Slots(h) : \E i \in 1..Len(h.tab[s]) : m = h.tab[s][i]
      BY <2>4, <2>6
    <3>2. PICK i \in 1..Len(h.tab[s]) : m = h.tab[s][i]
      BY <3>1
    <3>3. h.tab[s][i] # n
      BY <2>6, <3>2
    <3>4. \E j \in 1..Len(g.tab[s]) : g.tab[s][j] = m
      BY <2>2, <3>2, <3>3
    <3> QED
      BY <2>3, <3>4
  <2> QED
    BY <2>5, <2>6
<1>12. ASSUME NEW s \in Slots(g), NEW i \in 1..Len(g.tab[s])
       PROVE  Slot(g, HashOf[g.tab[s][i]]) = s
  <2>1. CASE s # p
    BY <1>6, <1>8, <2>1 DEF TabOK
  <2>2. CASE s = p
    BY <1>6, <1>8, <1>9, <2>2 DEF TabOK
  <2> QED
    BY <2>1, <2>2
<1>13. ASSUME NEW s \in Slots(g), NEW i \in 1..Len(g.tab[s]), NEW j \in 1..Len(g.tab[s]),
              g.tab[s][i] = g.tab[s][j]
       PROVE  i = j
  <2>1. CASE s # p
    BY <1>6, <1>8, <1>13, <2>1 DEF TabOK
  <2>2. CASE s = p
    <3>1. /\ o(i) \in 1..Len(h.tab[p]) /\ o(j) \in 1..Len(h.tab[p])
          /\ h.tab[p][o(i)] = h.tab[p][o(j)]
      BY <1>6, <1>9, <1>13, <2>2
    <3>2. o(i) = o(j)
      BY <3>1 DEF TabOK
    <3> QED
      BY <1>6, <1>9, <2>2, <3>2
  <2> QED
    BY <2>1, <2>2
<1>14. TabOK(g)
  BY <1>3, <1>4, <1>7, <1>11, <1>12, <1>13 DEF TabOK
<1>15. \A s \in Slots(h) : h.tab[s] = << >> => g.tab[s] = << >>
  <2>1. h.tab[p] # << >>
    BY <1>1, ChainType
  <2> QED
    BY <1>6, <2>1
<1> QED
  BY <1>2, <1>3, <1>4, <1>11, <1>14, <1>15 DEF g, n

(* A table has nodes exactly if its size is not 0.                           *)
LEMMA SizeCounts ==
    ASSUME NEW h, TabOK(h)
    PROVE  /\ h.size \in Nat
           /\ h.size = 0 <=> NodesOf(h) = {}
           /\ h.size > 0 => \E s \in Slots(h) : h.tab[s] # << >>
<1>1. h.size \in Nat /\ (h.size = 0 <=> NodesOf(h) = {})
  BY FS_CardinalityType, FS_EmptySet DEF TabOK
<1>2. ASSUME h.size > 0 PROVE \E s \in Slots(h) : h.tab[s] # << >>
  <2>1. PICK n : n \in NodesOf(h)
    BY <1>1, <1>2
  <2>2. PICK s \in Slots(h) : \E i \in 1..Len(h.tab[s]) : n = h.tab[s][i]
    BY <2>1, Member DEF TabOK
  <2>3. Len(h.tab[s]) > 0
    BY <2>2, ChainType DEF TabOK
  <2> QED
    BY <2>3, ChainType DEF TabOK
<1> QED
  BY <1>1, <1>2
-----------------------------------------------------------------------------
(* Looking up.                                                               *)
KeysDiffer(S) == \A m, n \in S : KeyOf[m] = KeyOf[n] => m = n

LEMMA TargetFacts ==
    ASSUME NEW t \in Targets
    PROVE  /\ t.hcode \in Nat
           /\ t.eq \subseteq Nodes
           /\ \A m \in t.eq : HashOf[m] = t.hcode
           /\ \A m, n \in t.eq : KeyOf[m] = KeyOf[n]
<1>1. CASE t \in {[hcode |-> HashOf[n], eq |-> {m \in Nodes : KeyOf[m] = KeyOf[n]}] : n \in Nodes}
  <2>1. PICK n \in Nodes :
            t = [hcode |-> HashOf[n], eq |-> {m \in Nodes : KeyOf[m] = KeyOf[n]}]
    BY <1>1
  <2>2. t.hcode = HashOf[n] /\ t.eq = {m \in Nodes : KeyOf[m] = KeyOf[n]}
    BY <2>1
  <2> QED
    BY <2>2, HMapAssumption
<1>2. CASE t \in {[hcode |-> HashOf[n], eq |-> {n}] : n \in Nodes}
  <2>1. PICK n \in Nodes : t = [hcode |-> HashOf[n], eq |-> {n}]
    BY <1>2
  <2>2. t.hcode = HashOf[n] /\ t.eq = {n}
    BY <2>1
  <2> QED
    BY <2>2, HMapAssumption
<1> QED
  BY <1>1, <1>2 DEF Targets

(* One chain is enough to search: h_lookup finds a node exactly if the table *)
(* has one that is looked for, and only nodes of the table.                  *)
LEMMA LookupTab ==
    ASSUME NEW h, TabOK(h), KeysDiffer(NodesOf(h)), NEW t \in Targets
    PROVE  /\ Hits(h, t) = {} <=> NodesOf(h) \cap t.eq = {}
           /\ Hits(h, t) # {} =>
                /\ Slot(h, t.hcode) \in Slots(h)
                /\ FirstHit(h, t) \in 1..Len(h.tab[Slot(h, t.hcode)])
                /\ h_lookup(h, t) \in NodesOf(h) \cap t.eq
<1> DEFINE p == Slot(h, t.hcode)
           c == h.tab[p]
<1>1. HTabOK(h) /\ h.slots \in Nat
  BY DEF TabOK, HTabOK
<1>2. CASE ~Exists(h)
  <2>1. Slots(h) = {}
    BY <1>2 DEF Exists, Slots
  <2>2. NodesOf(h) = {} /\ Hits(h, t) = {}
    BY <1>1, <1>2, <2>1, Member DEF Hits
  <2> QED
    BY <2>2
<1>3. CASE Exists(h)
  <2>1. h.slots \in Nat \ {0} /\ t.hcode \in Nat
    BY <1>1, <1>3, TargetFacts DEF Exists
  <2>2. p \in Slots(h)
    BY <2>1, SlotType
  <2>3. DOMAIN c = 1..Len(c)
    BY <1>1, <2>2, ChainType
  <2>4. Hits(h, t) = {i \in 1..Len(c) : HashOf[c[i]] = t.hcode /\ c[i] \in t.eq}
    BY <1>3, <2>3 DEF Hits
  <2>5. \A i \in Hits(h, t) : i \in 1..Len(c) /\ c[i] \in NodesOf(h) /\ c[i] \in t.eq
    BY <1>1, <2>2, <2>4, Member
  <2>6. ASSUME NodesOf(h) \cap t.eq # {} PROVE Hits(h, t) # {}
    <3>1. PICK n \in NodesOf(h) : n \in t.eq
      BY <2>6
    <3>2. PICK s \in Slots(h) : \E i \in 1..Len(h.tab[s]) : n = h.tab[s][i]
      BY <1>1, Member
    <3>3. PICK i \in 1..Len(h.tab[s]) : n = h.tab[s][i]
      BY <3>2
    <3>4. HashOf[n] = t.hcode
      BY <3>1, TargetFacts
    <3>5. s = p
      BY <3>3, <3>4 DEF TabOK
    <3>6. i \in Hits(h, t)
      BY <2>4, <3>1, <3>3, <3>4, <3>5
    <3> QED
      BY <3>6
  <2>7. ASSUME NEW i \in Hits(h, t), NEW j \in Hits(h, t) PROVE i = j
    <3>1. c[i] = c[j]
      BY <2>5, TargetFacts DEF KeysDiffer
    <3> QED
      BY <2>2, <2>5, <3>1 DEF TabOK
  <2>8. ASSUME Hits(h, t) # {} PROVE FirstHit(h, t) \in Hits(h, t)
    <3>1. PICK i \in Hits(h, t) : TRUE
      BY <2>8
    <3>2. \A j \in Hits(h, t) : i <= j
      BY <2>5, <2>7, <3>1
    <3> QED
      BY <3>1, <3>2 DEF FirstHit
  <2> QED
    BY <2>2, <2>5, <2>6, <2>8 DEF h_lookup
<1> QED
  BY <1>2, <1>3

-----------------------------------------------------------------------------
(* The two tables.                                                           *)
All == NodesOf(newer) \cup NodesOf(older)

Calls == [op : {"lookup", "delete"}, target : Targets] \cup [op : {"insert"}]

ControlInv ==
    /\ TabOK(newer) /\ TabOK(older)
    /\ Exists(older) => newer.slots = 2 * older.slots
    /\ migrate_pos \in Nat
    /\ pc \in {"idle", "help"}
    /\ nwork \in 0..K_REHASHING_WORK
    /\ pc = "help" => call \in Calls

NodesInv == NodesOf(newer) \cap NodesOf(older) = {} /\ KeysDiffer(All)

(* Two nodes of the older table make room for an insertion into the newer    *)
(* one, as long as each call moves at least one.                             *)
LoadInv ==
    /\ pc = "idle" /\ Exists(newer) => newer.size < Threshold(newer)
    /\ pc = "idle" /\ Exists(older) =>
          /\ newer.size + 2 * older.size < Threshold(newer)
          /\ older.size = 0 => newer.size + 1 < Threshold(newer)
    /\ pc = "help" /\ Exists(older) =>
          /\ newer.size + 2 * older.size + nwork <= Threshold(newer)
          /\ nwork = 0 /\ older.size = 0 => newer.size < Threshold(newer)
    /\ pc = "help" /\ Exists(newer) /\ ~Exists(older) => newer.size < Threshold(newer)

IInv == ControlInv /\ NodesInv /\ MigratedEmpty /\ LoadInv

LEMMA Sizes ==
    ASSUME ControlInv
    PROVE  /\ newer.size \in Nat /\ older.size \in Nat
           /\ newer.slots \in Nat /\ older.slots \in Nat
           /\ HTabOK(newer) /\ HTabOK(older)
           /\ Threshold(newer) \in Nat
           /\ ~Exists(older) => older.size = 0 /\ NodesOf(older) = {}
           /\ ~Exists(newer) => newer.size = 0 /\ NodesOf(newer) = {}
           /\ Exists(older) => Exists(newer)
           /\ nwork \in Nat
           /\ K_REHASHING_WORK \in Nat \ {0}
<1>1. /\ HTabOK(newer) /\ HTabOK(older)
      /\ newer.slots \in Nat /\ older.slots \in Nat
      /\ newer.size \in Nat /\ older.size \in Nat
  BY DEF ControlInv, TabOK, HTabOK
<1>2. ASSUME NEW h, TabOK(h), ~Exists(h) PROVE h.size = 0 /\ NodesOf(h) = {}
  <2>1. Slots(h) = {}
    BY <1>2 DEF Slots, Exists
  <2>2. NodesOf(h) = {}
    BY <1>2, <2>1, Member DEF TabOK
  <2> QED
    BY <1>2, <2>2, SizeCounts
<1>3. Threshold(newer) \in Nat
  BY <1>1, HMapAssumption DEF Threshold
<1> QED
  BY <1>1, <1>2, <1>3, HMapAssumption DEF ControlInv, Exists

(* The slot that migration has reached is a slot as long as nodes are left.  *)
LEMMA PosInRange ==
    ASSUME ControlInv, MigratedEmpty, older.size > 0
    PROVE  migrate_pos \in Slots(older)
<1>1. PICK s \in Slots(older) : older.tab[s] # << >>
  BY SizeCounts DEF ControlInv
<1>2. ~(s < migrate_pos)
  BY <1>1 DEF MigratedEmpty, Slots
<1> QED
  BY <1>2, Sizes DEF ControlInv, Slots

LEMMA NoTabFacts == TabOK(NoTab) /\ NodesOf(NoTab) = {} /\ NoTab.slots = 0 /\ NoTab.size = 0
BY InitTab DEF NoTab

LEMMA InitIInv == Init => IInv /\ All = {}
<1> SUFFICES ASSUME Init PROVE IInv /\ All = {}
  OBVIOUS
<1>1. newer = NoTab /\ older = NoTab /\ ~Exists(NoTab)
  BY NoTabFacts DEF Init, Exists
<1>2. ControlInv
  BY <1>1, NoTabFacts, HMapAssumption DEF Init, ControlInv
<1>3. NodesInv /\ All = {}
  BY <1>1, NoTabFacts DEF NodesInv, KeysDiffer, All
<1>4. MigratedEmpty
  BY <1>1, NoTabFacts DEF MigratedEmpty
<1>5. LoadInv
  BY <1>1 DEF Init, LoadInv
<1> QED
  BY <1>2, <1>3, <1>4, <1>5 DEF IInv
-----------------------------------------------------------------------------
(* What each step does to the invariant and to the nodes in the two tables.  *)
LEMMA StartKeeps ==
    ASSUME IInv, NEW t \in Targets, Lookup(t) \/ Delete(t)
    PROVE  IInv' /\ All' = All
<1>1. /\ pc = "idle" /\ pc' = "help" /\ nwork' = 0 /\ call' \in Calls
      /\ UNCHANGED <<newer, older, migrate_pos>>
  BY DEF Lookup, Delete, Help, Calls
<1>2. ControlInv'
  BY <1>1, HMapAssumption DEF IInv, ControlInv
<1>3. NodesInv' /\ All' = All /\ MigratedEmpty'
  BY <1>1 DEF IInv, NodesInv, All, MigratedEmpty
<1>4. LoadInv'
  BY <1>1, Sizes DEF IInv, LoadInv
<1> QED
  BY <1>2, <1>3, <1>4 DEF IInv

LEMMA InsertKeeps ==
    ASSUME IInv, NEW n \in Nodes, Insert(n)
    PROVE  IInv' /\ All' = All \cup {n} /\ (\A m \in All : KeyOf[m] # KeyOf[n])
<1> DEFINE b == IF Exists(newer) THEN newer ELSE h_init(InitSlots)
           g == h_insert(b, n)
<1>1. /\ pc = "idle" /\ pc' = "help" /\ nwork' = 0 /\ call' \in Calls
      /\ \A m \in All : KeyOf[m] # KeyOf[n]
      /\ \/ /\ ~Exists(older) /\ g.size >= Threshold(g)
            /\ older' = g /\ newer' = h_init(g.slots * 2) /\ migrate_pos' = 0
         \/ /\ Exists(older) \/ ~(g.size >= Threshold(g))
            /\ newer' = g /\ UNCHANGED <<older, migrate_pos>>
  BY DEF Insert, Help, Calls, hm_trigger_rehashing, All
<1>2. ControlInv /\ NodesInv /\ MigratedEmpty /\ LoadInv
  BY DEF IInv
<1>3. /\ TabOK(b) /\ Exists(b) /\ NodesOf(b) = NodesOf(newer) /\ b.size = newer.size
      /\ b.slots \in Nat \ {0} /\ newer.size \in Nat
      /\ Exists(newer) => b = newer
      /\ ~Exists(newer) => b.slots = InitSlots /\ ~Exists(older)
  <2>1. CASE Exists(newer)
    BY <1>2, <2>1, Sizes DEF ControlInv, Exists
  <2>2. CASE ~Exists(newer)
    <3>1. /\ TabOK(h_init(InitSlots)) /\ NodesOf(h_init(InitSlots)) = {}
          /\ h_init(InitSlots).slots = InitSlots /\ h_init(InitSlots).size = 0
      BY InitTab, HMapAssumption
    <3> QED
      BY <1>2, <2>2, <3>1, Sizes, HMapAssumption DEF Exists
  <2> QED
    BY <2>1, <2>2
<1> HIDE DEF b
<1>4. n \notin NodesOf(newer) /\ n \notin NodesOf(older)
  BY <1>1 DEF All
<1>5. /\ TabOK(g) /\ NodesOf(g) = NodesOf(newer) \cup {n}
      /\ g.slots = b.slots /\ g.size = newer.size + 1
  BY <1>3, <1>4, InsertTab
<1> HIDE DEF g
<1>6. /\ Threshold(b) \in Nat /\ Threshold(g) = Threshold(b)
      /\ ~Exists(newer) => Threshold(b) >= 2
  <2>1. b.slots * K_MAX_LOAD_FACTOR \in Nat
    BY <1>3, HMapAssumption
  <2>2. InitSlots \in Nat /\ InitSlots >= 2 /\ K_MAX_LOAD_FACTOR \in Nat /\ K_MAX_LOAD_FACTOR >= 1
    BY HMapAssumption
  <2>3. InitSlots * K_MAX_LOAD_FACTOR >= 2
    BY <2>2
  <2> QED
    BY <1>3, <1>5, <2>1, <2>3 DEF Threshold
<1>7. KeysDiffer(All \cup {n})
  BY <1>1, <1>2 DEF NodesInv, KeysDiffer
<1>8. CASE /\ ~Exists(older) /\ g.size >= Threshold(g)
           /\ older' = g /\ newer' = h_init(g.slots * 2) /\ migrate_pos' = 0
  <2>1. /\ TabOK(newer') /\ NodesOf(newer') = {} /\ newer'.size = 0
        /\ newer'.slots = 2 * older'.slots /\ Exists(older') /\ Exists(newer')
    BY <1>3, <1>5, <1>8, InitTab DEF Exists
  <2>2. NodesOf(older) = {}
    BY <1>2, <1>8, Sizes
  <2>3. ControlInv'
    BY <1>1, <1>5, <1>8, <2>1, HMapAssumption DEF ControlInv
  <2>4. All' = All \cup {n}
    BY <1>5, <1>8, <2>1, <2>2 DEF All
  <2>5. NodesInv'
    BY <1>7, <2>1, <2>4 DEF NodesInv
  <2>6. MigratedEmpty'
    BY <1>8 DEF MigratedEmpty
  <2>7. LoadInv'
    <3>1. Exists(newer) /\ g.size = Threshold(g)
      <4>1. newer.size + 1 >= Threshold(b)
        BY <1>5, <1>6, <1>8
      <4>2. Exists(newer)
        BY <1>2, <1>6, <4>1, Sizes
      <4>3. newer.size < Threshold(b)
        BY <1>1, <1>2, <1>3, <4>2 DEF LoadInv
      <4> QED
        BY <1>3, <1>5, <1>6, <4>1, <4>2, <4>3
    <3>2. Threshold(newer)' = 2 * Threshold(g)
      <4>1. \A x, y \in Nat : 2 * x * y = 2 * (x * y)
        OBVIOUS
      <4> QED
        BY <1>3, <1>5, <1>8, <2>1, <4>1, HMapAssumption DEF Threshold
    <3>3. /\ newer'.size + 2 * older'.size + nwork' <= 2 * Threshold(g)
          /\ older'.size # 0
      BY <1>1, <1>3, <1>5, <1>6, <1>8, <2>1, <3>1
    <3> QED
      BY <1>1, <2>1, <3>2, <3>3 DEF LoadInv
  <2> QED
    BY <1>1, <2>3, <2>4, <2>5, <2>6, <2>7 DEF IInv
<1>9. CASE /\ Exists(older) \/ ~(g.size >= Threshold(g))
           /\ newer' = g /\ UNCHANGED <<older, migrate_pos>>
  <2>1. ControlInv'
    BY <1>1, <1>2, <1>3, <1>5, <1>9, Sizes, HMapAssumption DEF ControlInv
  <2>2. All' = All \cup {n}
    BY <1>5, <1>9 DEF All
  <2>3. NodesInv'
    BY <1>2, <1>4, <1>5, <1>7, <1>9, <2>2 DEF NodesInv
  <2>4. MigratedEmpty'
    BY <1>2, <1>9 DEF MigratedEmpty
  <2>5. LoadInv'
    <3>1. /\ Threshold(newer)' = Threshold(b) /\ newer'.size = newer.size + 1
          /\ older' = older /\ nwork' = 0 /\ pc' = "help"
      BY <1>1, <1>5, <1>6, <1>9
    <3>2. CASE Exists(older)
      <4>1. /\ Threshold(b) = Threshold(newer)
            /\ newer.size + 2 * older.size < Threshold(newer)
            /\ older.size = 0 => newer.size + 1 < Threshold(newer)
            /\ older.size \in Nat
        BY <1>1, <1>2, <1>3, <3>2, Sizes DEF LoadInv
      <4> QED
        BY <1>3, <1>6, <3>1, <3>2, <4>1 DEF LoadInv
    <3>3. CASE ~Exists(older)
      <4>1. newer.size + 1 < Threshold(b)
        BY <1>3, <1>5, <1>6, <1>9, <3>3
      <4> QED
        BY <3>1, <3>3, <4>1 DEF LoadInv
    <3> QED
      BY <3>2, <3>3
  <2> QED
    BY <1>1, <2>1, <2>2, <2>3, <2>4, <2>5 DEF IInv
<1> QED
  BY <1>1, <1>8, <1>9

LEMMA ClearKeeps ==
    ASSUME IInv, Clear
    PROVE  IInv' /\ All' = {}
<1>1. /\ newer' = NoTab /\ older' = NoTab /\ ~Exists(NoTab) /\ migrate_pos' = 0
      /\ pc = "idle" /\ UNCHANGED <<pc, nwork, call>>
  BY NoTabFacts DEF Clear, Exists
<1>2. ControlInv'
  BY <1>1, NoTabFacts DEF IInv, ControlInv
<1>3. NodesInv' /\ All' = {}
  BY <1>1, NoTabFacts DEF NodesInv, KeysDiffer, All
<1>4. MigratedEmpty'
  BY <1>1, NoTabFacts DEF MigratedEmpty
<1>5. LoadInv'
  BY <1>1 DEF LoadInv
<1> QED
  BY <1>2, <1>3, <1>4, <1>5 DEF IInv

LEMMA SkipKeeps ==
    ASSUME IInv, SkipSlot
    PROVE  IInv' /\ All' = All
<1>1. /\ older.tab[migrate_pos] = << >> /\ migrate_pos' = migrate_pos + 1
      /\ UNCHANGED <<newer, older, pc, nwork, call>>
  BY DEF SkipSlot
<1>2. ControlInv'
  BY <1>1 DEF IInv, ControlInv
<1>3. NodesInv' /\ All' = All /\ LoadInv'
  BY <1>1 DEF IInv, NodesInv, All, LoadInv
<1>4. MigratedEmpty'
  <2>1. SUFFICES ASSUME NEW s \in 0..(older.slots - 1), s < migrate_pos + 1
                 PROVE  older.tab[s] = << >>
    BY <1>1 DEF MigratedEmpty
  <2>2. s < migrate_pos \/ s = migrate_pos
    BY <2>1 DEF IInv, ControlInv
  <2> QED
    BY <1>1, <2>1, <2>2 DEF IInv, MigratedEmpty
<1> QED
  BY <1>2, <1>3, <1>4 DEF IInv

LEMMA MoveKeeps ==
    ASSUME IInv, MoveNode
    PROVE  IInv' /\ All' = All
<1> DEFINE n == older.tab[migrate_pos][1]
<1>1. /\ pc = "help" /\ nwork < K_REHASHING_WORK /\ older.size > 0
      /\ older.tab[migrate_pos] # << >>
      /\ newer' = h_insert(newer, n)
      /\ older' = h_detach(older, migrate_pos, 1)
      /\ nwork' = nwork + 1
      /\ UNCHANGED <<migrate_pos, pc, call>>
  BY DEF MoveNode, Helping
<1>2. ControlInv /\ NodesInv /\ MigratedEmpty /\ LoadInv
  BY DEF IInv
<1>3. migrate_pos \in Slots(older)
  BY <1>1, <1>2, PosInRange
<1>4. TabOK(older) /\ HTabOK(older) /\ TabOK(newer)
  BY <1>2, Sizes DEF ControlInv
<1>5. 1 \in 1..Len(older.tab[migrate_pos])
  BY <1>1, <1>3, <1>4, ChainType
<1>6. /\ TabOK(older') /\ NodesOf(older') = NodesOf(older) \ {n}
      /\ older'.slots = older.slots /\ older'.size = older.size - 1
      /\ \A s \in Slots(older) : older.tab[s] = << >> => older'.tab[s] = << >>
      /\ n \in NodesOf(older)
  BY <1>1, <1>3, <1>4, <1>5, DetachTab
<1>7. n \in Nodes /\ n \notin NodesOf(newer)
  BY <1>2, <1>4, <1>6, Member DEF NodesInv
<1>8. Exists(older) /\ Exists(newer)
  BY <1>1, <1>2, Sizes
<1> HIDE DEF n
<1>9. /\ TabOK(newer') /\ NodesOf(newer') = NodesOf(newer) \cup {n}
      /\ newer'.slots = newer.slots /\ newer'.size = newer.size + 1
  BY <1>1, <1>4, <1>7, <1>8, InsertTab
<1>10. ControlInv'
  <2>1. nwork' \in 0..K_REHASHING_WORK
    BY <1>1, <1>2, HMapAssumption DEF ControlInv
  <2> QED
    BY <1>1, <1>2, <1>6, <1>8, <1>9, <2>1 DEF ControlInv
<1>11. All' = All
  BY <1>6, <1>9 DEF All
<1>12. NodesInv'
  BY <1>2, <1>6, <1>9, <1>11 DEF NodesInv
<1>13. MigratedEmpty'
  BY <1>1, <1>2, <1>6 DEF MigratedEmpty, Slots
<1>14. LoadInv'
  <2>1. /\ Threshold(newer)' = Threshold(newer) /\ Exists(older')
        /\ newer'.size + 2 * older'.size + nwork' = newer.size + 2 * older.size + nwork
        /\ nwork' # 0
    <3>1. newer.size \in Nat /\ older.size \in Nat /\ nwork \in Nat
      BY <1>2, Sizes
    <3>2. Threshold(newer)' = Threshold(newer) /\ Exists(older')
      BY <1>6, <1>8, <1>9 DEF Threshold, Exists
    <3>3. /\ newer'.size = newer.size + 1 /\ older'.size = older.size - 1
          /\ nwork' = nwork + 1
      BY <1>1, <1>6, <1>9
    <3>4. \A a, b, w \in Nat : (a + 1) + 2 * (b - 1) + (w + 1) = a + 2 * b + w
      OBVIOUS
    <3> QED
      BY <3>1, <3>2, <3>3, <3>4
  <2>2. newer.size + 2 * older.size + nwork <= Threshold(newer)
    BY <1>1, <1>2, <1>8 DEF LoadInv
  <2> QED
    BY <1>1, <2>1, <2>2 DEF LoadInv
<1> QED
  BY <1>10, <1>11, <1>12, <1>13, <1>14 DEF IInv
(* The old table after the loop: discarded if it has no nodes left.          *)
LEMMA DrainedFacts ==
    ASSUME IInv
    PROVE  /\ TabOK(Drained) /\ NodesOf(Drained) = NodesOf(older)
           /\ Drained.size = older.size
           /\ Exists(Drained) => Drained = older /\ older.size > 0
           /\ older.size # 0 => Drained = older
           /\ \A s \in 0..(Drained.slots - 1) :
                 s < migrate_pos => Drained.tab[s] = << >>
<1>1. TabOK(older) /\ older.size \in Nat
  BY Sizes DEF IInv, ControlInv
<1>2. CASE older.size = 0
  <2>1. Drained = NoTab
    BY <1>2 DEF Drained
  <2> QED
    BY <1>1, <1>2, <2>1, NoTabFacts, SizeCounts DEF Exists
<1>3. CASE older.size # 0
  <2>1. Drained = older
    BY <1>3 DEF Drained
  <2> QED
    BY <1>1, <1>3, <2>1 DEF IInv, MigratedEmpty
<1> QED
  BY <1>2, <1>3

(* When the loop has ended there is room for another insertion, or two nodes *)
(* were in the old table.                                                    *)
LEMMA LoopEndLoad ==
    ASSUME IInv, pc = "help", ~Helping
    PROVE  /\ Exists(newer) => newer.size < Threshold(newer)
           /\ Exists(Drained) =>
                 newer.size + 2 * older.size < Threshold(newer) /\ Exists(older)
<1>1. /\ newer.size \in Nat /\ older.size \in Nat /\ nwork \in Nat
      /\ Threshold(newer) \in Nat
      /\ nwork # 0 \/ older.size = 0
  <2>1. ControlInv /\ K_REHASHING_WORK \in Nat \ {0} /\ nwork \in Nat /\ older.size \in Nat
    BY Sizes DEF IInv
  <2>2. nwork >= K_REHASHING_WORK \/ older.size = 0
    BY <2>1 DEF Helping
  <2> QED
    BY <2>1, <2>2, Sizes
<1>2. CASE Exists(older)
  <2>1. /\ newer.size + 2 * older.size + nwork <= Threshold(newer)
        /\ nwork = 0 /\ older.size = 0 => newer.size < Threshold(newer)
    BY <1>2 DEF IInv, LoadInv
  <2>2. newer.size < Threshold(newer)
    BY <1>1, <2>1
  <2>3. older.size # 0 => newer.size + 2 * older.size < Threshold(newer)
    BY <1>1, <2>1
  <2> QED
    BY <1>2, <2>2, <2>3, DrainedFacts, <1>1
<1>3. CASE ~Exists(older)
  <2>1. older.size = 0
    BY <1>3, Sizes DEF IInv
  <2>2. ~Exists(Drained)
    BY <2>1, DrainedFacts, <1>1
  <2> QED
    BY <1>3, <2>2 DEF IInv, LoadInv
<1> QED
  BY <1>2, <1>3

(* The end of a call that takes nothing out of the tables.                   *)
LEMMA QuietEndKeeps ==
    ASSUME IInv, HelpEnds, older' = Drained, newer' = newer
    PROVE  IInv' /\ All' = All
<1>1. /\ pc = "help" /\ ~Helping /\ pc' = "idle" /\ nwork' = 0 /\ migrate_pos' = migrate_pos
  BY DEF HelpEnds
<1>2. ControlInv'
  BY <1>1, DrainedFacts, HMapAssumption DEF IInv, ControlInv
<1>3. All' = All
  BY DrainedFacts DEF All
<1>4. NodesInv'
  BY <1>3, DrainedFacts DEF IInv, NodesInv
<1>5. MigratedEmpty'
  BY <1>1, DrainedFacts DEF MigratedEmpty
<1>6. LoadInv'
  <2>1. Threshold(newer)' = Threshold(newer) /\ older.size \in Nat
    BY Sizes DEF IInv, Threshold
  <2> QED
    BY <1>1, <2>1, LoopEndLoad, DrainedFacts DEF LoadInv
<1> QED
  BY <1>2, <1>3, <1>4, <1>5, <1>6 DEF IInv

LEMMA KeysDifferSubset ==
    ASSUME NEW S, KeysDiffer(S), NEW T \in SUBSET S PROVE KeysDiffer(T)
BY DEF KeysDiffer

(* hm_delete finds what it deletes in the newer table ...                    *)
LEMMA DeleteNewerKeeps ==
    ASSUME IInv, pc = "help", ~Helping, NEW t \in Targets, Hits(newer, t) # {},
           newer' = h_detach(newer, Slot(newer, t.hcode), FirstHit(newer, t)),
           older' = Drained, pc' = "idle", nwork' = 0, migrate_pos' = migrate_pos
    PROVE  /\ IInv'
           /\ h_lookup(newer, t) \in NodesOf(newer) \cap t.eq
           /\ All' = All \ {h_lookup(newer, t)}
<1> DEFINE p == Slot(newer, t.hcode)
           k == FirstHit(newer, t)
           n == h_lookup(newer, t)
<1>1. ControlInv /\ NodesInv /\ TabOK(newer) /\ KeysDiffer(NodesOf(newer))
  BY KeysDifferSubset DEF IInv, ControlInv, NodesInv, All
<1>2. /\ p \in Slots(newer) /\ k \in 1..Len(newer.tab[p])
      /\ n \in NodesOf(newer) \cap t.eq /\ n = newer.tab[p][k]
  BY <1>1, LookupTab DEF h_lookup
<1>3. /\ TabOK(newer') /\ NodesOf(newer') = NodesOf(newer) \ {n}
      /\ newer'.slots = newer.slots /\ newer'.size = newer.size - 1
  BY <1>1, <1>2, DetachTab
<1> HIDE DEF n, p, k
<1>4. ControlInv'
  BY <1>1, <1>3, DrainedFacts, HMapAssumption DEF ControlInv
<1>5. All' = All \ {n}
  BY <1>1, <1>2, <1>3, DrainedFacts DEF All, NodesInv
<1>6. NodesInv'
  BY <1>1, <1>3, <1>5, DrainedFacts, KeysDifferSubset DEF NodesInv
<1>7. MigratedEmpty'
  BY DrainedFacts DEF MigratedEmpty
<1>8. LoadInv'
  <2>1. /\ Threshold(newer)' = Threshold(newer) /\ (Exists(newer') <=> Exists(newer))
        /\ older.size \in Nat /\ newer.size \in Nat /\ Threshold(newer) \in Nat
    BY <1>1, <1>3, Sizes DEF Threshold, Exists
  <2> QED
    BY <1>3, <2>1, LoopEndLoad, DrainedFacts DEF LoadInv
<1> QED
  BY <1>2, <1>4, <1>5, <1>6, <1>7, <1>8 DEF IInv, n

(* ... or in the older one.                                                  *)
LEMMA DeleteOlderKeeps ==
    ASSUME IInv, pc = "help", ~Helping, NEW t \in Targets, Hits(Drained, t) # {},
           older' = h_detach(older, Slot(older, t.hcode), FirstHit(older, t)),
           newer' = newer, pc' = "idle", nwork' = 0, migrate_pos' = migrate_pos
    PROVE  /\ IInv'
           /\ h_lookup(older, t) \in NodesOf(older) \cap t.eq
           /\ All' = All \ {h_lookup(older, t)}
<1> DEFINE p == Slot(older, t.hcode)
           k == FirstHit(older, t)
           n == h_lookup(older, t)
<1>1. ControlInv /\ NodesInv /\ TabOK(older) /\ KeysDiffer(NodesOf(older))
  BY KeysDifferSubset DEF IInv, ControlInv, NodesInv, All
<1>2. /\ Exists(Drained) /\ Drained = older
      /\ older.size \in Nat /\ newer.size \in Nat /\ Threshold(newer) \in Nat
  BY <1>1, DrainedFacts, Sizes DEF Hits
<1>3. /\ p \in Slots(older) /\ k \in 1..Len(older.tab[p])
      /\ n \in NodesOf(older) \cap t.eq /\ n = older.tab[p][k]
  BY <1>1, <1>2, LookupTab DEF h_lookup
<1>4. /\ TabOK(older') /\ NodesOf(older') = NodesOf(older) \ {n}
      /\ older'.slots = older.slots /\ older'.size = older.size - 1
      /\ \A s \in Slots(older) : older.tab[s] = << >> => older'.tab[s] = << >>
      /\ older.size > 0
  BY <1>1, <1>3, DetachTab
<1> HIDE DEF n, p, k
<1>5. ControlInv'
  BY <1>1, <1>4, HMapAssumption DEF ControlInv, Exists
<1>6. All' = All \ {n}
  BY <1>1, <1>3, <1>4 DEF All, NodesInv
<1>7. NodesInv'
  BY <1>1, <1>4, <1>6, KeysDifferSubset DEF NodesInv
<1>8. MigratedEmpty'
  BY <1>4 DEF IInv, MigratedEmpty, Slots
<1>9. LoadInv'
  <2>1. Threshold(newer)' = Threshold(newer)
    BY DEF Threshold
  <2>2. newer.size + 2 * older.size < Threshold(newer) /\ newer.size < Threshold(newer)
    BY <1>1, <1>2, LoopEndLoad, Sizes
  <2>3. /\ newer.size + 2 * older'.size < Threshold(newer)
        /\ newer.size + 1 < Threshold(newer)
    BY <1>2, <1>4, <2>2
  <2> QED
    BY <2>1, <2>2, <2>3 DEF LoadInv
<1> QED
  BY <1>3, <1>5, <1>6, <1>7, <1>8, <1>9 DEF IInv, n
-----------------------------------------------------------------------------
(* The node that hm_lookup and hm_delete hand out is the one that is asked   *)
(* for, wherever migration has put it.                                       *)
LEMMA MatchUnique ==
    ASSUME IInv, NEW t \in Targets
    PROVE  /\ All \cap t.eq = {} => NS!Match(t) = NULL
           /\ \A n \in All \cap t.eq : NS!Match(t) = n
<1>1. \A m, n \in All \cap t.eq : m = n
  BY TargetFacts DEF IInv, NodesInv, KeysDiffer
<1> QED
  BY <1>1 DEF NS!Match, All

LEMMA FinishLookupView ==
    ASSUME IInv, HelpEnds, FinishLookup
    PROVE  IInv' /\ All' = All /\ \E t \in Targets : NS!Lookup(t)
<1> DEFINE t == call.target
<1>1. IInv' /\ All' = All
  BY QuietEndKeeps DEF FinishLookup
<1>2. pc = "help" /\ call.op = "lookup" /\ t \in Targets
  BY DEF HelpEnds, FinishLookup, IInv, ControlInv, Calls
<1>3. /\ TabOK(newer) /\ TabOK(older) /\ TabOK(Drained)
      /\ KeysDiffer(NodesOf(newer)) /\ KeysDiffer(NodesOf(older))
      /\ NodesOf(Drained) = NodesOf(older)
  BY DrainedFacts, KeysDifferSubset DEF IInv, ControlInv, NodesInv, All
<1>4. result' = [op |-> "lookup", target |-> t,
                 node |-> IF Hits(newer, t) # {} THEN h_lookup(newer, t)
                          ELSE IF Hits(Drained, t) # {} THEN h_lookup(older, t)
                          ELSE NULL]
  BY <1>2 DEF FinishLookup, Answer
<1> HIDE DEF t
<1>5. CASE Hits(newer, t) # {}
  <2>1. h_lookup(newer, t) \in All \cap t.eq
    BY <1>2, <1>3, <1>5, LookupTab DEF All
  <2>2. result' = [op |-> "lookup", target |-> t, node |-> NS!Match(t)]
    BY <1>2, <1>4, <1>5, <2>1, MatchUnique
  <2> QED
    BY <1>1, <1>2, <2>2 DEF NS!Lookup, All
<1>6. CASE Hits(newer, t) = {} /\ Hits(Drained, t) # {}
  <2>1. Drained = older
    BY <1>6, DrainedFacts DEF Hits
  <2>2. h_lookup(older, t) \in All \cap t.eq
    BY <1>2, <1>3, <1>6, <2>1, LookupTab DEF All
  <2>3. result' = [op |-> "lookup", target |-> t, node |-> NS!Match(t)]
    BY <1>2, <1>4, <1>6, <2>2, MatchUnique
  <2> QED
    BY <1>1, <1>2, <2>3 DEF NS!Lookup, All
<1>7. CASE Hits(newer, t) = {} /\ Hits(Drained, t) = {}
  <2>1. All \cap t.eq = {}
    BY <1>2, <1>3, <1>7, LookupTab DEF All
  <2>2. result' = [op |-> "lookup", target |-> t, node |-> NS!Match(t)]
    BY <1>2, <1>4, <1>7, <2>1, MatchUnique
  <2> QED
    BY <1>1, <1>2, <2>2 DEF NS!Lookup, All
<1> QED
  BY <1>5, <1>6, <1>7

LEMMA FinishDeleteView ==
    ASSUME IInv, HelpEnds, FinishDelete
    PROVE  IInv' /\ \E t \in Targets : NS!Delete(t)
<1> DEFINE t == call.target
<1>1. /\ pc = "help" /\ ~Helping /\ pc' = "idle" /\ nwork' = 0 /\ migrate_pos' = migrate_pos
      /\ call.op = "delete" /\ t \in Targets
  BY DEF HelpEnds, FinishDelete, IInv, ControlInv, Calls
<1>2. /\ TabOK(newer) /\ TabOK(older) /\ TabOK(Drained)
      /\ KeysDiffer(NodesOf(newer)) /\ KeysDiffer(NodesOf(older))
      /\ NodesOf(Drained) = NodesOf(older)
  BY DrainedFacts, KeysDifferSubset DEF IInv, ControlInv, NodesInv, All
<1>3. ASSUME NEW n, IInv', n \in All \cap t.eq, All' = All \ {n}, Answer(n)
      PROVE  NS!Delete(t)
  <2>1. NS!Match(t) = n
    BY <1>1, <1>3, MatchUnique
  <2>2. result' = [op |-> "delete", target |-> t, node |-> n]
    BY <1>1, <1>3 DEF Answer
  <2> QED
    BY <1>3, <2>1, <2>2 DEF NS!Delete, All
<1>4. CASE /\ Hits(newer, t) # {}
           /\ Answer(h_lookup(newer, t))
           /\ newer' = h_detach(newer, Slot(newer, t.hcode), FirstHit(newer, t))
           /\ older' = Drained
  <2> HIDE DEF t
  <2>1. /\ IInv' /\ h_lookup(newer, t) \in NodesOf(newer) \cap t.eq
        /\ All' = All \ {h_lookup(newer, t)}
    BY <1>1, <1>4, DeleteNewerKeeps
  <2> QED
    BY <1>1, <1>3, <1>4, <2>1 DEF All
<1>5. CASE /\ Hits(newer, t) = {} /\ Hits(Drained, t) # {}
           /\ Answer(h_lookup(older, t))
           /\ older' = h_detach(older, Slot(older, t.hcode), FirstHit(older, t))
           /\ UNCHANGED newer
  <2> HIDE DEF t
  <2>1. /\ IInv' /\ h_lookup(older, t) \in NodesOf(older) \cap t.eq
        /\ All' = All \ {h_lookup(older, t)}
    BY <1>1, <1>5, DeleteOlderKeeps
  <2> QED
    BY <1>1, <1>3, <1>5, <2>1 DEF All
<1>6. CASE /\ Hits(newer, t) = {} /\ Hits(Drained, t) = {}
           /\ Answer(NULL)
           /\ older' = Drained
           /\ UNCHANGED newer
  <2>1. IInv' /\ All' = All
    BY <1>6, QuietEndKeeps
  <2>2. result' = [op |-> "delete", target |-> t, node |-> NULL]
    BY <1>1, <1>6 DEF Answer
  <2> HIDE DEF t
  <2>3. All \cap t.eq = {}
    BY <1>1, <1>2, <1>6, LookupTab DEF All
  <2>4. NS!Match(t) = NULL /\ NULL \notin All
    <3>1. NodesOf(newer) \subseteq Nodes /\ NodesOf(older) \subseteq Nodes
      BY <1>2, Member DEF TabOK
    <3> QED
      BY <1>1, <2>3, <3>1, MatchUnique, HMapAssumption DEF All
  <2> QED
    BY <1>1, <2>1, <2>2, <2>4 DEF NS!Delete, All
<1> QED
  BY <1>1, <1>4, <1>5, <1>6 DEF FinishDelete

(* The number that hm_size announces is the number of nodes hm_foreach meets.*)
LEMMA ListView ==
    ASSUME IInv, List
    PROVE  IInv' /\ NS!List
<1>1. UNCHANGED <<newer, older, migrate_pos, pc, nwork, call>>
  BY DEF List
<1>2. IInv'
  BY <1>1 DEF IInv, ControlInv, NodesInv, All, MigratedEmpty, LoadInv
<1>3. hm_size = Cardinality(All)
  <2>1. /\ IsFiniteSet(NodesOf(newer)) /\ newer.size = Cardinality(NodesOf(newer))
        /\ IsFiniteSet(NodesOf(older)) /\ older.size = Cardinality(NodesOf(older))
        /\ NodesOf(newer) \cap NodesOf(older) = {}
        /\ newer.size \in Nat /\ older.size \in Nat
    BY Sizes DEF IInv, ControlInv, NodesInv, TabOK
  <2>2. Cardinality(All) = newer.size + older.size - Cardinality({})
    BY <2>1, FS_Union DEF All
  <2> QED
    BY <2>1, <2>2, FS_EmptySet DEF hm_size
<1>4. result' = [size |-> hm_size, listed |-> All]
  BY DEF List, All
<1>5. NS!Cardinality(All) = Cardinality(All)
  BY DEF NS!Cardinality, Cardinality
<1> QED
  BY <1>1, <1>2, <1>3, <1>4, <1>5 DEF NS!List, All

(* Every step, with what the users see of it.                                *)
LEMMA StepView ==
    ASSUME IInv, [Next]_vars
    PROVE  IInv' /\ [NS!NSNext]_(NS!nsVars)
<1> USE DEF NS!nsVars, NS!NSNext
<1>1. ASSUME NEW n \in Nodes, Insert(n) PROVE IInv' /\ NS!Insert(n)
  <2>1. /\ IInv' /\ All' = All \cup {n} /\ (\A m \in All : KeyOf[m] # KeyOf[n])
        /\ result' = result
    BY <1>1, InsertKeeps DEF Insert
  <2> QED
    BY <2>1 DEF NS!Insert, All
<1>2. ASSUME NEW t \in Targets, Lookup(t) \/ Delete(t)
      PROVE  IInv' /\ UNCHANGED NS!nsVars
  <2>1. IInv' /\ All' = All /\ result' = result
    BY <1>2, StartKeeps DEF Lookup, Delete
  <2> QED
    BY <2>1 DEF All
<1>3. CASE List
  BY <1>3, ListView
<1>4. CASE Clear
  <2>1. IInv' /\ All' = {} /\ result' = result
    BY <1>4, ClearKeeps DEF Clear
  <2> QED
    BY <2>1 DEF NS!Clear, All
<1>5. CASE SkipSlot
  <2>1. IInv' /\ All' = All /\ result' = result
    BY <1>5, SkipKeeps DEF SkipSlot
  <2> QED
    BY <2>1 DEF All
<1>6. CASE MoveNode
  <2>1. IInv' /\ All' = All /\ result' = result
    BY <1>6, MoveKeeps DEF MoveNode
  <2> QED
    BY <2>1 DEF All
<1>7. CASE HelpEnds
  <2>1. CASE FinishLookup
    BY <1>7, <2>1, FinishLookupView
  <2>2. CASE FinishDelete
    BY <1>7, <2>2, FinishDeleteView
  <2>3. CASE FinishInsert
    <3>1. IInv' /\ All' = All /\ result' = result
      BY <1>7, <2>3, QuietEndKeeps DEF FinishInsert
    <3> QED
      BY <3>1 DEF All
  <2> QED
    BY <1>7, <2>1, <2>2, <2>3 DEF HelpEnds
<1>8. CASE UNCHANGED vars
  <2>1. UNCHANGED <<newer, older, migrate_pos, pc, nwork, call, result>>
    BY <1>8 DEF vars
  <2>2. IInv'
    BY <2>1 DEF IInv, ControlInv, NodesInv, All, MigratedEmpty, LoadInv
  <2> QED
    BY <2>1, <2>2
<1> QED
  BY <1>1, <1>2, <1>3, <1>4, <1>5, <1>6, <1>7, <1>8 DEF Next

LEMMA HMapInvariant == Spec => []IInv
<1>1. Init => IInv
  BY InitIInv
<1>2. IInv /\ [Next]_vars => IInv'
  BY StepView
<1> QED
  BY <1>1, <1>2, PTL DEF Spec
-----------------------------------------------------------------------------
(* The fields keep their types, the older table stays half as large as the   *)
(* newer one, and hm_help_rehashing never reads a slot that is not there.    *)
THEOREM TypeCorrect == Spec => []TypeOK
<1>1. IInv => TypeOK
  <2> SUFFICES ASSUME IInv PROVE TypeOK
    OBVIOUS
  <2>1. ASSUME Helping PROVE migrate_pos < older.slots
    BY <2>1, PosInRange, Sizes DEF Helping, IInv, ControlInv, Slots
  <2> QED
    BY <2>1, Sizes DEF TypeOK, IInv, ControlInv
<1> QED
  BY <1>1, HMapInvariant, PTL

(* Whatever has been inserted, migrated or deleted: each node is in one slot *)
(* of one table, where h_lookup looks for it, and HTab::size counts it once. *)
THEOREM PlacesCorrect == Spec => []NodesInPlace
<1>1. ASSUME NEW h, TabOK(h)
      PROVE  /\ \A p \in Places(h) : p[1] = Slot(h, HashOf[h.tab[p[1]][p[2]]])
             /\ h.size = Cardinality(Places(h))
  <2>1. HTabOK(h) /\ IsFiniteSet(NodesOf(h)) /\ h.size = Cardinality(NodesOf(h))
    BY <1>1 DEF TabOK
  <2>2. \A s \in Slots(h) : DOMAIN h.tab[s] = 1..Len(h.tab[s]) /\ Len(h.tab[s]) \in Nat
    BY <2>1, ChainType
  <2>3. \A p \in Places(h) : p[1] \in Slots(h) /\ p[2] \in 1..Len(h.tab[p[1]])
    BY <2>2 DEF Places, Slots
  <2>4. ASSUME NEW s \in Slots(h) PROVE Len(h.tab[s]) <= h.size
    <3> DEFINE D == 1..Len(h.tab[s])
               f == [i \in D |-> h.tab[s][i]]
    <3>1. \A i \in D : h.tab[s][i] \in NodesOf(h)
      BY <2>1, Member
    <3>2. f \in Injection(D, NodesOf(h))
      BY <1>1, <3>1 DEF Injection, IsInjective, TabOK
    <3>3. Cardinality(D) <= Cardinality(NodesOf(h))
      BY <2>1, <3>2, FS_Injection
    <3>4. Cardinality(D) = Len(h.tab[s])
      BY <2>2, FS_Interval
    <3> QED
      BY <2>1, <3>3, <3>4
  <2> DEFINE f == [p \in Places(h) |-> h.tab[p[1]][p[2]]]
  <2>5. \A p \in Places(h) : f[p] \in NodesOf(h)
    BY <2>1, <2>3, Member
  <2>6. ASSUME NEW p \in Places(h), NEW q \in Places(h), f[p] = f[q] PROVE p = q
    <3>1. p[1] = q[1]
      BY <1>1, <2>3, <2>6 DEF TabOK
    <3>2. p[2] = q[2]
      BY <1>1, <2>3, <2>6, <3>1 DEF TabOK
    <3> QED
      BY <3>1, <3>2 DEF Places
  <2>7. ASSUME NEW n \in NodesOf(h) PROVE \E p \in Places(h) : f[p] = n
    <3>1. PICK s \in Slots(h) : \E i \in 1..Len(h.tab[s]) : n = h.tab[s][i]
      BY <2>1, Member
    <3>2. PICK i \in 1..Len(h.tab[s]) : n = h.tab[s][i]
      BY <3>1
    <3>3. i \in 1..h.size /\ i \in DOMAIN h.tab[s]
      BY <2>1, <2>2, <2>4, FS_CardinalityType
    <3>4. <<s, i>> \in Places(h)
      BY <3>3 DEF Places, Slots
    <3>5. f[<<s, i>>] = n
      BY <3>2, <3>4
    <3> QED
      BY <3>4, <3>5
  <2>8. f \in Injection(Places(h), NodesOf(h)) /\ f \in Surjection(Places(h), NodesOf(h))
    BY <2>5, <2>6, <2>7 DEF Injection, IsInjective, Surjection
  <2> HIDE DEF f
  <2>9. Cardinality(Places(h)) = Cardinality(NodesOf(h))
    BY <2>1, <2>8, FS_Injection
  <2>10. \A p \in Places(h) : p[1] = Slot(h, HashOf[h.tab[p[1]][p[2]]])
    BY <1>1, <2>3 DEF TabOK
  <2> QED
    BY <2>1, <2>9, <2>10
<1>2. IInv => NodesInPlace
  <2> SUFFICES ASSUME IInv PROVE NodesInPlace
    OBVIOUS
  <2>1. ASSUME NEW h \in {newer, older}
        PROVE  /\ \A p \in Places(h) : p[1] = Slot(h, HashOf[h.tab[p[1]][p[2]]])
               /\ h.size = Cardinality(NodesOf(h))
               /\ h.size = Cardinality(Places(h))
    <3>1. TabOK(h)
      BY DEF IInv, ControlInv
    <3> QED
      BY <1>1, <3>1 DEF TabOK
  <2> QED
    BY <2>1 DEF NodesInPlace, IInv, NodesInv
<1> QED
  BY <1>2, HMapInvariant, PTL

(* free(hmap->older.tab) never frees the chains of nodes that are still in   *)
(* use: behind migrate_pos there are none.                                   *)
THEOREM NothingLeftBehind == Spec => []MigratedEmpty
<1>1. IInv => MigratedEmpty
  BY DEF IInv
<1> QED
  BY <1>1, HMapInvariant, PTL

(* For any load factor and any K_REHASHING_WORK of at least 1, migration is  *)
(* over before the newer table is full.                                      *)
THEOREM LoadStaysBounded == Spec => []LoadBounded
<1>1. IInv => LoadBounded
  BY DEF IInv, LoadInv, LoadBounded
<1> QED
  BY <1>1, HMapInvariant, PTL

(* Two tables and a migration between them answer like one set of nodes.     *)
THEOREM HMapRefinesNodeSet == Spec => ImplementsNodeSet
<1>1. Init => NS!NSInit
  BY InitIInv DEF Init, NS!NSInit, All
<1>2. IInv /\ [Next]_vars => [NS!NSNext]_(NS!nsVars)
  BY StepView
<1> QED
  BY <1>1, <1>2, HMapInvariant, PTL DEF Spec, ImplementsNodeSet, NS!NSSpec
=============================================================================
