--------------------------- MODULE TTLHeapProofs ---------------------------
(***************************************************************************)
(* Proofs about the TTL heap for any number of entries and deadlines.      *)
(*                                                                         *)
(* What holds between two calls is not inductive: while a loop runs the    *)
(* hole at `pos' holds a stale copy, so the invariant speaks of the live   *)
(* positions and says where the item in hand may go.                       *)
(***************************************************************************)
EXTENDS TTLHeap, Facts

Busy == pc # "idle"
Live(i) == i \in 0..(len - 1) /\ (Busy => i # pos)

(* Back pointers, with the item in hand and the entry being cleared apart.   *)
RefInv ==
    /\ \A i \in 0..(len - 1) : Live(i) =>
          /\ heap_idx[heap[i].ref] = i
          /\ Busy => heap[i].ref # t.ref /\ heap[i].ref # del
    /\ Busy => t.ref # del
    /\ \A e \in Entries :
          heap_idx[e] # NoIdx /\ ~(Busy /\ (e = t.ref \/ e = del)) =>
             /\ Live(heap_idx[e])
             /\ heap[heap_idx[e]].ref = e

(* The kids of the hole are ordered with its parent, and with the item in    *)
(* hand on the side the loop does not look at.                               *)
OrderInv ==
    /\ \A i \in 1..(len - 1) :
          Live(i) /\ Live(heap_parent(i)) => heap[heap_parent(i)].val <= heap[i].val
    /\ Busy => \A i \in 1..(len - 1) : heap_parent(i) = pos =>
          /\ pos > 0 => heap[heap_parent(pos)].val <= heap[i].val
          /\ pc = "up" => t.val <= heap[i].val
    /\ pc = "down" /\ pos > 0 => heap[heap_parent(pos)].val <= t.val

IInv == TypeOK /\ RefInv /\ OrderInv

-----------------------------------------------------------------------------
(* Index arithmetic of heap_parent, heap_left and heap_right.                *)
LEMMA ParentBelow ==
    \A i \in Nat \ {0} : heap_parent(i) \in Nat /\ heap_parent(i) < i
BY DEF heap_parent

LEMMA ParentOfKids ==
    \A i \in Nat \ {0}, p \in Nat :
        heap_parent(i) = p <=> i = heap_left(p) \/ i = heap_right(p)
BY DEF heap_parent, heap_left, heap_right

LEMMA KidsAbove ==
    \A p \in Nat : /\ heap_left(p) \in Nat /\ heap_right(p) \in Nat
                   /\ p < heap_left(p) /\ heap_left(p) < heap_right(p)
BY DEF heap_left, heap_right

(* Items carry natural numbers and entries.                                  *)
LEMMA ItemType ==
    \A x \in HeapItem : x.val \in Nat /\ x.val \in Times /\ x.ref \in Entries
BY TTLHeapAssumption DEF HeapItem

(* The vector operations keep arrays of items.                               *)
LEMMA VectorType ==
    ASSUME NEW n \in Nat, NEW h \in [0..(n - 1) -> HeapItem], NEW x \in HeapItem
    PROVE  /\ PushBack(h, n, x) \in [0..(n + 1 - 1) -> HeapItem]
           /\ n > 0 => PopBack(h, n) \in [0..(n - 1 - 1) -> HeapItem]
           /\ \A p \in 0..(n - 1) : [h EXCEPT ![p] = x] \in [0..(n - 1) -> HeapItem]
BY DEF PushBack, PopBack

(* What heap_down's choice of the smaller kid guarantees.                    *)
LEMMA MinPosChoice ==
    ASSUME TypeOK, pc = "down"
    PROVE  /\ MinPos \in Nat
           /\ MinPos # pos =>
                /\ MinPos \in 1..(len - 1)
                /\ pos < MinPos
                /\ heap_parent(MinPos) = pos
                /\ heap[MinPos].val < t.val
                /\ \A i \in 1..(len - 1) :
                       heap_parent(i) = pos => heap[MinPos].val <= heap[i].val
           /\ MinPos = pos =>
                \A i \in 1..(len - 1) : heap_parent(i) = pos => t.val <= heap[i].val
<1> DEFINE l == heap_left(pos)
           r == heap_right(pos)
<1>1. /\ len \in Nat /\ pos \in Nat /\ t.val \in Nat
      /\ \A i \in 0..(len - 1) : heap[i].val \in Nat
  BY ItemType DEF TypeOK
<1>2. l \in Nat /\ r \in Nat /\ pos < l /\ l < r
  BY <1>1, KidsAbove
<1>3. \A i \in 1..(len - 1) : heap_parent(i) = pos <=> i = l \/ i = r
  BY <1>1, ParentOfKids
<1>4. MinPos = LET m == IF l < len /\ heap[l].val < t.val THEN l ELSE pos
                   min_val == IF m = l THEN heap[l].val ELSE t.val
               IN  IF r < len /\ heap[r].val < min_val THEN r ELSE m
  BY DEF MinPos
<1> HIDE DEF l, r
<1> QED
  BY <1>1, <1>2, <1>3, <1>4
-----------------------------------------------------------------------------
(* What a caller of heap_upsert or heap_delete starts from.                  *)
LEMMA IdleFacts ==
    ASSUME IInv, pc = "idle"
    PROVE  /\ \A i \in 0..(len - 1) : heap[i] \in HeapItem /\ heap_idx[heap[i].ref] = i
           /\ \A e \in Entries : heap_idx[e] # NoIdx =>
                  heap_idx[e] \in 0..(len - 1) /\ heap[heap_idx[e]].ref = e
           /\ \A i \in 1..(len - 1) : heap[heap_parent(i)].val <= heap[i].val
<1>1. \A i \in 0..(len - 1) : Live(i)
  BY DEF Live, Busy
<1>2. \A i \in 1..(len - 1) : i \in 0..(len - 1) /\ heap_parent(i) \in 0..(len - 1)
  BY ParentBelow DEF IInv, TypeOK
<1>3. \A i \in 0..(len - 1) : heap[i] \in HeapItem
  BY DEF IInv, TypeOK
<1>4. \A e \in Entries : heap_idx[e] # NoIdx =>
          Live(heap_idx[e]) /\ heap[heap_idx[e]].ref = e
  BY DEF IInv, RefInv, Busy
<1> QED
  BY <1>1, <1>2, <1>3, <1>4 DEF IInv, RefInv, OrderInv, Live

(* heap_update: if the array is right but for the item at p, which is        *)
(* anything, then the loop that is entered starts inside the invariant.      *)
LEMMA StartSift ==
    ASSUME NEW n \in Nat, NEW h \in [0..(n - 1) -> HeapItem], NEW p \in 0..(n - 1),
           TypeOK, heap_update(h, n, p), heap_idx' = heap_idx,
           del' \in Entries \cup {NULL}, fired' \in Entries \cup {NULL},
           h[p].ref # del',
           \A i \in 0..(n - 1) : i # p =>
               heap_idx[h[i].ref] = i /\ h[i].ref # h[p].ref /\ h[i].ref # del',
           \A e \in Entries : heap_idx[e] # NoIdx /\ e # h[p].ref /\ e # del' =>
               heap_idx[e] \in 0..(n - 1) /\ heap_idx[e] # p /\ h[heap_idx[e]].ref = e,
           \A i \in 1..(n - 1) : i # p /\ heap_parent(i) # p =>
               h[heap_parent(i)].val <= h[i].val,
           \A i \in 1..(n - 1) : heap_parent(i) = p /\ p > 0 =>
               h[heap_parent(p)].val <= h[i].val
    PROVE  IInv'
<1>1. /\ heap' = h /\ len' = n /\ pos' = p /\ t' = h[p]
      /\ pc' \in {"up", "down"}
      /\ pc' = "up" => p > 0 /\ h[heap_parent(p)].val > h[p].val
      /\ pc' = "down" => ~(p > 0 /\ h[heap_parent(p)].val > h[p].val)
  BY DEF heap_update
<1>2. Busy' /\ \A i : Live(i)' <=> i \in 0..(n - 1) /\ i # p
  BY <1>1 DEF Busy, Live
<1>3. \A i \in 0..(n - 1) : h[i] \in HeapItem /\ h[i].val \in Nat
  BY ItemType
<1>4. p > 0 => heap_parent(p) \in 0..(n - 1)
  BY ParentBelow
<1>5. TypeOK'
  BY <1>1, <1>3 DEF TypeOK
<1>6. RefInv'
  BY <1>1, <1>2 DEF RefInv
<1>7. OrderInv'
  <2>1. ASSUME NEW i \in 1..(n - 1), i # p, heap_parent(i) # p
        PROVE  h[heap_parent(i)].val <= h[i].val
    BY <2>1
  <2>2. ASSUME NEW i \in 1..(n - 1), heap_parent(i) = p
        PROVE  /\ p > 0 => h[heap_parent(p)].val <= h[i].val
               /\ pc' = "up" => h[p].val <= h[i].val
    BY <2>2, <1>1, <1>3, <1>4
  <2>3. pc' = "down" /\ p > 0 => h[heap_parent(p)].val <= h[p].val
    BY <1>1, <1>3, <1>4
  <2> QED
    BY <1>1, <1>2, <2>1, <2>2, <2>3 DEF OrderInv
<1> QED
  BY <1>5, <1>6, <1>7 DEF IInv
-----------------------------------------------------------------------------
LEMMA SetTTLKeeps ==
    ASSUME IInv, NEW e \in Entries, NEW v \in Times, SetTTL(e, v)
    PROVE  IInv'
<1> DEFINE x == NewItem(e, v)
<1>1. /\ pc = "idle" /\ del = NULL /\ TypeOK /\ len \in Nat
      /\ heap \in [0..(len - 1) -> HeapItem]
      /\ heap_idx' = heap_idx /\ del' = NULL /\ fired' \in Entries \cup {NULL}
      /\ NULL \notin Entries
  BY TTLHeapAssumption DEF SetTTL, IInv, TypeOK
<1>2. x \in HeapItem /\ x.ref = e
  BY DEF NewItem, HeapItem
<1>3. /\ \A i \in 0..(len - 1) : heap[i] \in HeapItem /\ heap[i].ref \in Entries
                                  /\ heap_idx[heap[i].ref] = i
      /\ \A f \in Entries : heap_idx[f] # NoIdx =>
             heap_idx[f] \in 0..(len - 1) /\ heap[heap_idx[f]].ref = f
      /\ \A i \in 1..(len - 1) : heap[heap_parent(i)].val <= heap[i].val
  BY <1>1, IdleFacts, ItemType
<1>4. \A i \in 0..(len - 1) : heap[i].val \in Nat
  BY <1>3, ItemType
<1>5. CASE heap_idx[e] \in 0..(len - 1)
  <2> DEFINE p == heap_idx[e]
             h == [heap EXCEPT ![p] = x]
  <2>1. h \in [0..(len - 1) -> HeapItem] /\ p \in 0..(len - 1) /\ h[p] = x
    BY <1>1, <1>2, <1>5
  <2>2. \A i \in 0..(len - 1) : i # p => h[i] = heap[i]
    BY <1>1
  <2>3. heap_update(h, len, p)
    BY <1>5 DEF SetTTL, heap_upsert
  <2>4. \A i \in 0..(len - 1) : i # p =>
            heap_idx[h[i].ref] = i /\ h[i].ref # h[p].ref /\ h[i].ref # del'
    BY <1>1, <1>2, <1>3, <2>1, <2>2
  <2>5. \A f \in Entries : heap_idx[f] # NoIdx /\ f # h[p].ref /\ f # del' =>
            heap_idx[f] \in 0..(len - 1) /\ heap_idx[f] # p /\ h[heap_idx[f]].ref = f
    <3>1. SUFFICES ASSUME NEW f \in Entries, heap_idx[f] # NoIdx, f # e
                   PROVE  /\ heap_idx[f] \in 0..(len - 1) /\ heap_idx[f] # p
                          /\ h[heap_idx[f]].ref = f
      BY <1>2, <2>1
    <3>2. heap_idx[f] \in 0..(len - 1) /\ heap[heap_idx[f]].ref = f
      BY <1>3, <3>1
    <3>3. heap[p].ref = e
      BY <1>3, <1>5, <1>1 DEF NoIdx
    <3> QED
      BY <2>2, <3>1, <3>2, <3>3
  <2>6. \A i \in 1..(len - 1) : i # p /\ heap_parent(i) # p =>
            h[heap_parent(i)].val <= h[i].val
    BY <1>1, <1>3, <2>2, ParentBelow
  <2>7. \A i \in 1..(len - 1) : heap_parent(i) = p /\ p > 0 =>
            h[heap_parent(p)].val <= h[i].val
    <3>1. SUFFICES ASSUME NEW i \in 1..(len - 1), heap_parent(i) = p, p > 0
                   PROVE  h[heap_parent(p)].val <= h[i].val
      OBVIOUS
    <3>2. /\ heap_parent(p) \in 0..(len - 1) /\ heap_parent(p) # p /\ i # p
          /\ p \in 1..(len - 1) /\ i \in 0..(len - 1) /\ p \in 0..(len - 1)
      BY <1>1, <2>1, <3>1, ParentBelow
    <3>3. heap[heap_parent(p)].val <= heap[p].val /\ heap[p].val <= heap[i].val
      BY <1>3, <3>1, <3>2
    <3>4. h[heap_parent(p)] = heap[heap_parent(p)] /\ h[i] = heap[i]
      BY <2>2, <3>2
    <3> QED
      BY <1>4, <3>2, <3>3, <3>4
  <2>8. h[p].ref # del'
    BY <1>1, <1>2, <2>1
  <2> HIDE DEF h, p
  <2> QED
    BY <1>1, <2>1, <2>3, <2>4, <2>5, <2>6, <2>7, <2>8, StartSift
<1>6. CASE heap_idx[e] \notin 0..(len - 1)
  <2> DEFINE h == PushBack(heap, len, x)
             n == len + 1
  <2>1. h \in [0..(n - 1) -> HeapItem] /\ h[len] = x /\ n \in Nat /\ len \in 0..(n - 1)
    BY <1>1, <1>2, VectorType DEF PushBack
  <2>2. \A i \in 0..(n - 1) : i # len => h[i] = heap[i] /\ i \in 0..(len - 1)
    BY <1>1 DEF PushBack
  <2>3. heap_update(h, n, len)
    BY <1>6 DEF SetTTL, heap_upsert
  <2>4. \A i \in 0..(n - 1) : i # len =>
            heap_idx[h[i].ref] = i /\ h[i].ref # h[len].ref /\ h[i].ref # del'
    BY <1>1, <1>2, <1>3, <1>6, <2>1, <2>2
  <2>5. \A f \in Entries : heap_idx[f] # NoIdx /\ f # h[len].ref /\ f # del' =>
            heap_idx[f] \in 0..(n - 1) /\ heap_idx[f] # len /\ h[heap_idx[f]].ref = f
    BY <1>1, <1>3, <2>2
  <2>6. \A i \in 1..(n - 1) : i # len /\ heap_parent(i) # len =>
            h[heap_parent(i)].val <= h[i].val
    <3>1. SUFFICES ASSUME NEW i \in 1..(n - 1), i # len
                   PROVE  h[heap_parent(i)].val <= h[i].val
      OBVIOUS
    <3>2. i \in 1..(len - 1) /\ heap_parent(i) \in 0..(len - 1)
      BY <1>1, <3>1, ParentBelow
    <3>3. h[i] = heap[i] /\ h[heap_parent(i)] = heap[heap_parent(i)]
      BY <1>1, <2>2, <3>2
    <3> QED
      BY <1>3, <3>2, <3>3
  <2>7. \A i \in 1..(n - 1) : heap_parent(i) # len
    BY <1>1, ParentBelow
  <2>8. h[len].ref # del'
    BY <1>1, <1>2, <2>1
  <2> HIDE DEF h, n
  <2> QED
    BY <1>1, <2>1, <2>3, <2>4, <2>5, <2>6, <2>7, <2>8, StartSift
<1> QED
  BY <1>5, <1>6
LEMMA DeleteKeeps ==
    ASSUME IInv, pc = "idle", NEW e \in Entries, heap_idx[e] # NoIdx,
           heap_delete(heap_idx[e], e), fired' \in Entries \cup {NULL}
    PROVE  IInv'
<1> DEFINE p == heap_idx[e]
           n == len - 1
           h == PopBack([heap EXCEPT ![p] = heap[n]], len)
<1>1. /\ del = NULL /\ TypeOK /\ len \in Nat /\ heap \in [0..(len - 1) -> HeapItem]
      /\ heap_idx \in [Entries -> Nat \cup {NoIdx}] /\ NULL \notin Entries
      /\ pos \in Nat
  BY TTLHeapAssumption DEF IInv, TypeOK
<1>2. /\ \A i \in 0..n : heap[i] \in HeapItem /\ heap[i].ref \in Entries
                         /\ heap[i].val \in Nat /\ heap_idx[heap[i].ref] = i
      /\ \A f \in Entries : heap_idx[f] # NoIdx =>
             heap_idx[f] \in 0..n /\ heap[heap_idx[f]].ref = f
      /\ \A i \in 1..n : heap[heap_parent(i)].val <= heap[i].val
  BY <1>1, IdleFacts, ItemType
<1>3. p \in 0..n /\ n \in Nat /\ heap[p].ref = e
  BY <1>1, <1>2
<1>4. [heap EXCEPT ![p] = heap[n]] \in [0..n -> HeapItem]
  BY <1>1, <1>2, <1>3
<1>5. h \in [0..(n - 1) -> HeapItem]
  BY <1>1, <1>3, <1>4 DEF PopBack
<1>6. /\ \A i \in 0..(n - 1) : i # p => h[i] = heap[i]
      /\ p < n => h[p] = heap[n]
  BY <1>1, <1>3 DEF PopBack
<1>7. /\ p < n => heap_update(h, n, p) /\ del' = e /\ heap_idx' = heap_idx
      /\ ~(p < n) => /\ heap' = h /\ len' = n
                     /\ heap_idx' = [heap_idx EXCEPT ![e] = NoIdx]
                     /\ UNCHANGED <<pc, pos, t, del>>
  BY <1>1, <1>3 DEF heap_delete, sift, heap_update
<1> HIDE DEF h, n, p
<1>8. CASE p < n
  <2>1. heap_update(h, n, p) /\ del' = e /\ heap_idx' = heap_idx
    BY <1>7, <1>8
  <2>2. h[p].ref # del' /\ heap_idx[h[p].ref] = n
    BY <1>2, <1>3, <1>6, <1>8, <2>1
  <2>3. \A i \in 0..(n - 1) : i # p =>
            heap_idx[h[i].ref] = i /\ h[i].ref # h[p].ref /\ h[i].ref # del'
    BY <1>2, <1>3, <1>6, <2>1, <2>2
  <2>4. \A f \in Entries : heap_idx[f] # NoIdx /\ f # h[p].ref /\ f # del' =>
            heap_idx[f] \in 0..(n - 1) /\ heap_idx[f] # p /\ h[heap_idx[f]].ref = f
    BY <1>2, <1>3, <1>6, <1>8, <2>1
  <2>5. \A i \in 1..(n - 1) : i # p /\ heap_parent(i) # p =>
            h[heap_parent(i)].val <= h[i].val
    <3>1. SUFFICES ASSUME NEW i \in 1..(n - 1), i # p, heap_parent(i) # p
                   PROVE  h[heap_parent(i)].val <= h[i].val
      OBVIOUS
    <3>2. heap_parent(i) \in 0..(n - 1) /\ i \in 1..n
      BY <1>3, ParentBelow
    <3> QED
      BY <1>2, <1>6, <3>1, <3>2
  <2>6. \A i \in 1..(n - 1) : heap_parent(i) = p /\ p > 0 =>
            h[heap_parent(p)].val <= h[i].val
    <3>1. SUFFICES ASSUME NEW i \in 1..(n - 1), heap_parent(i) = p, p > 0
                   PROVE  h[heap_parent(p)].val <= h[i].val
      OBVIOUS
    <3>2. /\ heap_parent(p) \in 0..(n - 1) /\ heap_parent(p) # p /\ i # p
          /\ p \in 1..n /\ i \in 1..n /\ p \in 0..n /\ i \in 0..n
          /\ heap_parent(p) \in 0..n
      BY <1>3, <1>8, <3>1, ParentBelow
    <3>3. heap[heap_parent(p)].val <= heap[p].val /\ heap[p].val <= heap[i].val
      BY <1>2, <3>1, <3>2
    <3>4. h[heap_parent(p)] = heap[heap_parent(p)] /\ h[i] = heap[i]
      BY <1>6, <3>2
    <3> QED
      BY <1>2, <3>2, <3>3, <3>4
  <2>7. p \in 0..(n - 1) /\ del' \in Entries \cup {NULL}
    BY <1>3, <1>8, <2>1
  <2>8. TypeOK /\ n \in Nat /\ fired' \in Entries \cup {NULL} /\ h[p].ref # del'
    BY <1>1, <1>3, <2>2
  <2> QED
    BY <1>5, <2>1, <2>3, <2>4, <2>5, <2>6, <2>7, <2>8, StartSift
<1>9. CASE ~(p < n)
  <2>1. /\ heap' = h /\ len' = n /\ heap_idx' = [heap_idx EXCEPT ![e] = NoIdx]
        /\ UNCHANGED <<pc, pos, t, del>>
    BY <1>7, <1>9
  <2>2. p = n /\ \A i \in 0..(n - 1) : h[i] = heap[i] /\ i \in 0..n
    BY <1>3, <1>6, <1>9
  <2>3. \A i : Live(i)' <=> i \in 0..(n - 1)
    BY <2>1 DEF Live, Busy
  <2>4. ~Busy'
    BY <2>1 DEF Busy
  <2>5. TypeOK'
    BY <1>1, <1>3, <1>5, <2>1 DEF TypeOK, NoIdx
  <2>6. RefInv'
    <3>1. \A i \in 0..(n - 1) : heap_idx'[heap'[i].ref] = i
      BY <1>1, <1>2, <1>3, <2>1, <2>2
    <3>2. \A f \in Entries : heap_idx'[f] # NoIdx =>
              heap_idx'[f] \in 0..(n - 1) /\ heap'[heap_idx'[f]].ref = f
      BY <1>1, <1>2, <1>3, <2>1, <2>2
    <3> QED
      BY <2>1, <2>3, <2>4, <3>1, <3>2 DEF RefInv
  <2>7. OrderInv'
    <3>1. \A i \in 1..(n - 1) : heap'[heap_parent(i)].val <= heap'[i].val
      <4>1. SUFFICES ASSUME NEW i \in 1..(n - 1)
                     PROVE  h[heap_parent(i)].val <= h[i].val
        BY <2>1
      <4>2. heap_parent(i) \in 0..(n - 1) /\ i \in 0..(n - 1) /\ i \in 1..n
        BY <1>3, ParentBelow
      <4> QED
        BY <1>2, <2>2, <4>2
    <3> QED
      BY <2>1, <2>4, <3>1 DEF OrderInv
  <2> QED
    BY <2>5, <2>6, <2>7 DEF IInv
<1> QED
  BY <1>8, <1>9
-----------------------------------------------------------------------------
(* Both loops move one item into the hole and take its place.                *)
LEMMA MoveKeepsRefs ==
    ASSUME TypeOK, RefInv, Busy, NEW q \in 0..(len - 1), q # pos,
           heap' = [heap EXCEPT ![pos] = heap[q]],
           heap_idx' = [heap_idx EXCEPT ![heap[q].ref] = pos],
           pos' = q, UNCHANGED <<len, pc, t, del, fired>>
    PROVE  TypeOK' /\ RefInv'
<1> DEFINE r == heap[q].ref
<1>1. /\ len \in Nat /\ pos \in 0..(len - 1) /\ heap \in [0..(len - 1) -> HeapItem]
      /\ heap_idx \in [Entries -> Nat \cup {NoIdx}]
      /\ \A i \in 0..(len - 1) : heap[i] \in HeapItem /\ heap[i].ref \in Entries
  BY ItemType DEF TypeOK, Busy
<1>2. Busy' /\ \A i : Live(i)' <=> i \in 0..(len - 1) /\ i # q
  BY DEF Busy, Live
<1>3. \A i : Live(i) <=> i \in 0..(len - 1) /\ i # pos
  BY DEF Live
<1>4. /\ r \in Entries /\ r # t.ref /\ r # del /\ heap_idx[r] = q
      /\ heap_idx'[r] = pos /\ heap'[pos] = heap[q]
      /\ \A e \in Entries : e # r => heap_idx'[e] = heap_idx[e]
      /\ \A i \in 0..(len - 1) : i # pos => heap'[i] = heap[i]
  BY <1>1, <1>3 DEF RefInv
<1>5. TypeOK'
  BY <1>1 DEF TypeOK
<1>6. ASSUME NEW i \in 0..(len - 1), i # q
      PROVE  /\ heap_idx'[heap'[i].ref] = i
             /\ heap'[i].ref # t.ref /\ heap'[i].ref # del
  <2>1. CASE i = pos
    BY <1>4, <2>1
  <2>2. CASE i # pos
    BY <1>1, <1>3, <1>4, <1>6, <2>2 DEF RefInv
  <2> QED
    BY <2>1, <2>2
<1>7. ASSUME NEW e \in Entries, heap_idx'[e] # NoIdx, e # t.ref, e # del
      PROVE  heap_idx'[e] \in 0..(len - 1) /\ heap_idx'[e] # q
             /\ heap'[heap_idx'[e]].ref = e
  <2>1. CASE e = r
    BY <1>1, <1>4, <2>1
  <2>2. CASE e # r
    <3>1. heap_idx[e] \in 0..(len - 1) /\ heap_idx[e] # pos /\ heap[heap_idx[e]].ref = e
      BY <1>3, <1>4, <1>7, <2>2 DEF RefInv
    <3> QED
      BY <1>4, <2>2, <3>1
  <2> QED
    BY <2>1, <2>2
<1>8. t'.ref # del'
  BY DEF RefInv
<1> HIDE DEF r
<1> QED
  BY <1>2, <1>5, <1>6, <1>7, <1>8 DEF RefInv

LEMMA UpStepKeeps ==
    ASSUME IInv, UpStep
    PROVE  IInv'
<1> DEFINE q == heap_parent(pos)
<1>1. /\ Busy /\ TypeOK /\ RefInv /\ OrderInv /\ len \in Nat
      /\ pos \in 1..(len - 1) /\ heap \in [0..(len - 1) -> HeapItem] /\ t.val \in Nat
      /\ pc = "up" /\ pc' = "up" /\ len' = len /\ t' = t
      /\ heap[q].val > t.val /\ pos' = q /\ q < pos
  BY ItemType, ParentBelow DEF UpStep, IInv, TypeOK, Busy
<1>2. \A i \in 0..(len - 1) : heap[i].val \in Nat
  BY <1>1, ItemType
<1>3. q \in 0..(len - 1) /\ q # pos
  BY <1>1, ParentBelow
<1>4. TypeOK' /\ RefInv'
  BY <1>1, <1>3, MoveKeepsRefs DEF UpStep
<1>5. /\ heap'[pos] = heap[q]
      /\ \A i \in 0..(len - 1) : i # pos => heap'[i] = heap[i]
  BY <1>1 DEF UpStep
<1>6. /\ \A i : Live(i) <=> i \in 0..(len - 1) /\ i # pos
      /\ \A i : Live(i)' <=> i \in 0..(len - 1) /\ i # q
      /\ Busy'
  BY <1>1 DEF Live, Busy
<1>0. \A i \in 1..(len - 1) : heap_parent(i) \in 0..(len - 1) /\ heap_parent(i) < i
  BY <1>1, ParentBelow
<1>7. \A i \in 1..(len - 1) :
          /\ heap_parent(i) \in 0..(len - 1) /\ heap_parent(i) < i
          /\ i # pos /\ heap_parent(i) # pos => heap[heap_parent(i)].val <= heap[i].val
          /\ heap_parent(i) = pos => heap[q].val <= heap[i].val
  <2>1. \A i \in 1..(len - 1) : i \in 0..(len - 1)
    BY <1>1
  <2>2. \A i \in 1..(len - 1) :
            i # pos /\ heap_parent(i) # pos => heap[heap_parent(i)].val <= heap[i].val
    BY <1>0, <1>1, <1>6, <2>1 DEF OrderInv
  <2>3. \A i \in 1..(len - 1) : heap_parent(i) = pos => heap[q].val <= heap[i].val
    BY <1>1 DEF OrderInv
  <2> QED
    BY <1>0, <2>2, <2>3
<1> HIDE DEF q
<1>8. ASSUME NEW i \in 1..(len - 1), i # q, heap_parent(i) # q
      PROVE  heap'[heap_parent(i)].val <= heap'[i].val
  <2>1. i # pos
    BY <1>8 DEF q
  <2> QED
    BY <1>5, <1>7, <2>1
<1>9. ASSUME NEW i \in 1..(len - 1), heap_parent(i) = q
      PROVE  /\ q > 0 => heap'[heap_parent(q)].val <= heap'[i].val
             /\ t.val <= heap'[i].val
  <2>1. heap[q].val <= heap'[i].val
    BY <1>2, <1>3, <1>5, <1>7, <1>9
  <2>2. heap'[i].val \in Nat
    BY <1>2, <1>3, <1>5
  <2>3. t.val <= heap'[i].val
    BY <1>1, <1>2, <1>3, <2>1, <2>2
  <2>4. ASSUME q > 0 PROVE heap'[heap_parent(q)].val <= heap'[i].val
    <3>1. q \in 1..(len - 1)
      BY <1>3, <2>4
    <3>2. heap_parent(q) \in 0..(len - 1) /\ heap_parent(q) # pos
      BY <1>1, <1>7, <3>1
    <3>3. heap[heap_parent(q)].val <= heap[q].val
      BY <1>3, <1>7, <3>1, <3>2
    <3> QED
      BY <1>2, <1>3, <1>5, <2>1, <2>2, <3>2, <3>3
  <2> QED
    BY <2>3, <2>4
<1>10. OrderInv'
  BY <1>1, <1>6, <1>8, <1>9 DEF OrderInv
<1> QED
  BY <1>4, <1>10 DEF IInv

LEMMA DownStepKeeps ==
    ASSUME IInv, DownStep
    PROVE  IInv'
<1> DEFINE m == MinPos
<1>1. /\ Busy /\ TypeOK /\ RefInv /\ OrderInv /\ len \in Nat
      /\ pos \in 0..(len - 1) /\ heap \in [0..(len - 1) -> HeapItem] /\ t.val \in Nat
      /\ pc = "down" /\ pc' = "down" /\ len' = len /\ t' = t /\ pos' = m
  BY ItemType DEF DownStep, IInv, TypeOK, Busy
<1>2. \A i \in 0..(len - 1) : heap[i].val \in Nat
  BY <1>1, ItemType
<1>3. /\ m \in 1..(len - 1) /\ pos < m /\ heap_parent(m) = pos
      /\ heap[m].val < t.val
      /\ \A i \in 1..(len - 1) : heap_parent(i) = pos => heap[m].val <= heap[i].val
  BY <1>1, MinPosChoice DEF DownStep
<1>4. TypeOK' /\ RefInv'
  <2>1. /\ heap' = [heap EXCEPT ![pos] = heap[m]]
        /\ heap_idx' = [heap_idx EXCEPT ![heap[m].ref] = pos]
        /\ pos' = m /\ UNCHANGED <<len, pc, t, del, fired>>
    BY DEF DownStep
  <2>2. m \in 0..(len - 1) /\ m # pos
    BY <1>1, <1>3
  <2> HIDE DEF m
  <2> QED
    BY <1>1, <2>1, <2>2, MoveKeepsRefs
<1>5. /\ heap'[pos] = heap[m]
      /\ \A i \in 0..(len - 1) : i # pos => heap'[i] = heap[i]
  BY <1>1 DEF DownStep
<1>6. /\ \A i : Live(i) <=> i \in 0..(len - 1) /\ i # pos
      /\ \A i : Live(i)' <=> i \in 0..(len - 1) /\ i # m
      /\ Busy'
  BY <1>1 DEF Live, Busy
<1> HIDE DEF m
<1>7. \A i \in 1..(len - 1) :
          /\ heap_parent(i) \in 0..(len - 1) /\ heap_parent(i) < i
          /\ i # pos /\ heap_parent(i) # pos => heap[heap_parent(i)].val <= heap[i].val
          /\ heap_parent(i) = pos /\ pos > 0 => heap[heap_parent(pos)].val <= heap[i].val
  BY <1>1, <1>6, ParentBelow DEF OrderInv
<1>8. ASSUME NEW i \in 1..(len - 1), i # m, heap_parent(i) # m
      PROVE  heap'[heap_parent(i)].val <= heap'[i].val
  <2>1. CASE i = pos
    BY <1>1, <1>3, <1>5, <1>7, <2>1
  <2>2. CASE i # pos
    BY <1>3, <1>5, <1>7, <2>2
  <2> QED
    BY <2>1, <2>2
<1>9. ASSUME NEW i \in 1..(len - 1), heap_parent(i) = m
      PROVE  heap'[heap_parent(m)].val <= heap'[i].val
  <2>1. m < i /\ i # pos
    BY <1>1, <1>3, <1>7, <1>9
  <2> QED
    BY <1>1, <1>3, <1>5, <1>7, <1>9, <2>1
<1>10. heap'[heap_parent(m)].val <= t.val
  BY <1>1, <1>2, <1>3, <1>5
<1>11. OrderInv'
  BY <1>1, <1>6, <1>8, <1>9, <1>10 DEF OrderInv
<1> QED
  BY <1>4, <1>11 DEF IInv

LEMMA SiftDoneKeeps ==
    ASSUME IInv, SiftDone
    PROVE  IInv'
<1>1. /\ Busy /\ TypeOK /\ RefInv /\ OrderInv /\ len \in Nat
      /\ pos \in 0..(len - 1) /\ heap \in [0..(len - 1) -> HeapItem]
      /\ t \in HeapItem /\ t.val \in Nat /\ t.ref \in Entries
      /\ heap_idx \in [Entries -> Nat \cup {NoIdx}] /\ NULL \notin Entries
      /\ pc' = "idle" /\ len' = len /\ del' = NULL
  BY ItemType, TTLHeapAssumption DEF SiftDone, SiftEnds, IInv, TypeOK, Busy
<1>2. \A i \in 0..(len - 1) : /\ heap[i] \in HeapItem /\ heap[i].val \in Nat
                              /\ heap[i].ref \in Entries
  BY <1>1, ItemType
<1>3. /\ heap'[pos] = t
      /\ \A i \in 0..(len - 1) : i # pos => heap'[i] = heap[i]
      /\ \A e \in Entries : heap_idx'[e] = IF e = del THEN NoIdx
                                           ELSE IF e = t.ref THEN pos
                                           ELSE heap_idx[e]
  BY <1>1 DEF SiftDone
<1>4. /\ \A i : Live(i) <=> i \in 0..(len - 1) /\ i # pos
      /\ \A i : Live(i)' <=> i \in 0..(len - 1)
      /\ ~Busy'
  BY <1>1 DEF Live, Busy
<1>5. TypeOK'
  BY <1>1 DEF TypeOK, SiftDone, NoIdx, EmptyItem
<1>6. RefInv'
  <2>1. \A i \in 0..(len - 1) : heap_idx'[heap'[i].ref] = i
    BY <1>1, <1>2, <1>3, <1>4 DEF RefInv
  <2>2. \A e \in Entries : heap_idx'[e] # NoIdx =>
            heap_idx'[e] \in 0..(len - 1) /\ heap'[heap_idx'[e]].ref = e
    BY <1>1, <1>2, <1>3, <1>4 DEF RefInv
  <2> QED
    BY <1>1, <1>4, <2>1, <2>2 DEF RefInv
<1>7. \A i \in 1..(len - 1) :
          /\ heap_parent(i) \in 0..(len - 1) /\ heap_parent(i) < i
          /\ i # pos /\ heap_parent(i) # pos => heap[heap_parent(i)].val <= heap[i].val
  <2>1. \A i \in 1..(len - 1) :
            i \in 0..(len - 1) /\ heap_parent(i) \in 0..(len - 1) /\ heap_parent(i) < i
    BY <1>1, ParentBelow
  <2>2. \A i \in 1..(len - 1) :
            Live(i) /\ Live(heap_parent(i)) => heap[heap_parent(i)].val <= heap[i].val
    BY <1>1 DEF OrderInv
  <2> QED
    BY <1>4, <2>1, <2>2
<1>8. pos > 0 => heap[heap_parent(pos)].val <= t.val
  <2>1. CASE pc = "up"
    BY <1>1, <1>2, <1>7, <2>1 DEF SiftDone, SiftEnds
  <2>2. CASE pc = "down"
    BY <1>1, <2>2 DEF OrderInv
  <2> QED
    BY <1>1, <2>1, <2>2 DEF SiftDone, SiftEnds
<1>9. \A i \in 1..(len - 1) : heap_parent(i) = pos => t.val <= heap[i].val
  <2>1. CASE pc = "up"
    BY <1>1, <2>1 DEF OrderInv
  <2>2. CASE pc = "down"
    BY <1>1, <2>2, MinPosChoice DEF SiftDone, SiftEnds
  <2> QED
    BY <1>1, <2>1, <2>2 DEF SiftDone, SiftEnds
<1>10. \A i \in 1..(len - 1) : heap'[heap_parent(i)].val <= heap'[i].val
  <2>1. SUFFICES ASSUME NEW i \in 1..(len - 1)
                 PROVE  heap'[heap_parent(i)].val <= heap'[i].val
    OBVIOUS
  <2>2. CASE i = pos
    BY <1>3, <1>7, <1>8, <2>2
  <2>3. CASE i # pos
    BY <1>3, <1>7, <1>9, <2>3
  <2> QED
    BY <2>2, <2>3
<1>11. OrderInv'
  BY <1>1, <1>4, <1>10 DEF OrderInv
<1> QED
  BY <1>5, <1>6, <1>11 DEF IInv
-----------------------------------------------------------------------------
LEMMA InitIInv == Init => IInv
<1> SUFFICES ASSUME Init PROVE IInv
  OBVIOUS
<1>1. TypeOK
  BY DEF Init, TypeOK, EmptyItem, NoIdx
<1>2. RefInv /\ OrderInv
  BY TTLHeapAssumption DEF Init, RefInv, OrderInv, Live, Busy, NoIdx, EmptyItem
<1> QED
  BY <1>1, <1>2 DEF IInv

LEMMA StepIInv == IInv /\ [Next]_vars => IInv'
<1> SUFFICES ASSUME IInv, [Next]_vars PROVE IInv'
  OBVIOUS
<1>1. ASSUME NEW e \in Entries, NEW v \in Times, SetTTL(e, v) PROVE IInv'
  BY <1>1, SetTTLKeeps
<1>2. ASSUME NEW e \in Entries, ClearTTL(e) PROVE IInv'
  <2>1. /\ pc = "idle" /\ heap_idx[e] # NoIdx /\ heap_delete(heap_idx[e], e)
        /\ fired' \in Entries \cup {NULL}
    BY <1>2 DEF ClearTTL, IInv, TypeOK
  <2> QED
    BY <2>1, DeleteKeeps
<1>3. ASSUME NEW now \in Times, Expire(now) PROVE IInv'
  <2> DEFINE e == heap[0].ref
  <2>1. pc = "idle" /\ heap_idx[e] # NoIdx /\ heap_delete(heap_idx[e], e) /\ fired' = e
    BY <1>3 DEF Expire
  <2>2. e \in Entries
    BY <1>3, ItemType DEF Expire, IInv, TypeOK
  <2> HIDE DEF e
  <2> QED
    BY <2>1, <2>2, DeleteKeeps
<1>4. CASE Sift
  BY <1>4, UpStepKeeps, DownStepKeeps, SiftDoneKeeps DEF Sift
<1>5. CASE UNCHANGED vars
  <2>1. UNCHANGED <<heap, len, heap_idx, pc, pos, t, del, fired>>
    BY <1>5 DEF vars
  <2>2. TypeOK'
    BY <2>1 DEF IInv, TypeOK
  <2>3. RefInv'
    BY <2>1 DEF IInv, RefInv, Live, Busy
  <2>4. OrderInv'
    BY <2>1 DEF IInv, OrderInv, Live, Busy
  <2> QED
    BY <2>2, <2>3, <2>4 DEF IInv
<1> QED
  BY <1>1, <1>2, <1>3, <1>4, <1>5 DEF Next

(* The inductive invariant holds in every reachable state, for any number of *)
(* entries and any set of deadlines (heap.cpp, entry_set_ttl).               *)
THEOREM HeapInvariant == Spec => []IInv
BY InitIInv, StepIInv, PTL DEF Spec

(* Every field of the heap and of the loops keeps its type; in particular    *)
(* the hole stays inside the array.                                          *)
THEOREM TypeCorrect == Spec => []TypeOK
<1>1. IInv => TypeOK
  BY DEF IInv
<1> QED
  BY <1>1, HeapInvariant, PTL

(* heap_upsert and heap_delete leave a heap behind, whatever the order of    *)
(* the calls and the positions they name.                                    *)
THEOREM HeapCorrect == Spec => []HeapOrdered
<1>1. IInv => HeapOrdered
  BY IdleFacts DEF HeapOrdered
<1> QED
  BY <1>1, HeapInvariant, PTL

(* Entry::heap_idx is the position of the entry's deadline after every call, *)
(* so entry_set_ttl and do_ttl always touch their own item.                  *)
THEOREM RefsCorrect == Spec => []RefsExact
<1>1. IInv => RefsExact
  BY IdleFacts DEF RefsExact
<1> QED
  BY <1>1, HeapInvariant, PTL

(* Every iteration of heap_up and heap_down makes progress inside the array, *)
(* so the loops end after at most len iterations.                            *)
THEOREM SiftProgress == Spec => SiftAdvances
<1> DEFINE A == /\ pc = "up" /\ pc' = "up" => pos' < pos
                /\ pc = "down" /\ pc' = "down" => pos < pos' /\ pos' < len
<1>1. IInv /\ [Next]_vars => [A]_vars
  <2> SUFFICES ASSUME IInv, Next PROVE A
    OBVIOUS
  <2>1. CASE pc = "idle"
    BY <2>1
  <2>2. CASE UpStep
    BY <2>2, ParentBelow DEF UpStep, IInv, TypeOK
  <2>3. CASE DownStep
    BY <2>3, MinPosChoice DEF DownStep, IInv, TypeOK
  <2>4. CASE SiftDone
    BY <2>4 DEF SiftDone
  <2> QED
    BY <2>1, <2>2, <2>3, <2>4 DEF Next, Sift, SetTTL, ClearTTL, Expire
<1> QED
  BY <1>1, HeapInvariant, PTL DEF Spec, SiftAdvances

-----------------------------------------------------------------------------
(* The order along parents carries over to the top: take the first position  *)
(* that would be below it.                                                   *)
LEMMA TopLeast ==
    ASSUME IInv, pc = "idle"
    PROVE  \A i \in 0..(len - 1) : heap[0].val <= heap[i].val
<1> DEFINE Bad == {i \in 0..(len - 1) : ~(heap[0].val <= heap[i].val)}
<1>1. SUFFICES ASSUME Bad # {} PROVE FALSE
  OBVIOUS
<1>2. len \in Nat /\ \A i \in 0..(len - 1) : heap[i].val \in Nat
  BY ItemType DEF IInv, TypeOK
<1>3. PICK x \in Bad : \A y \in Bad : x <= y
  <2>1. Bad \subseteq Nat
    BY <1>2
  <2> HIDE DEF Bad
  <2> QED
    BY <1>1, <2>1, NatMin
<1>4. x \in 1..(len - 1) /\ 0 \in 0..(len - 1)
  BY <1>2, <1>3
<1>5. heap_parent(x) \in 0..(len - 1) /\ heap_parent(x) < x
  BY <1>2, <1>4, ParentBelow
<1>6. heap[0].val <= heap[heap_parent(x)].val
  BY <1>3, <1>4, <1>5
<1>7. heap[heap_parent(x)].val <= heap[x].val
  BY <1>4, IdleFacts
<1> QED
  BY <1>2, <1>3, <1>4, <1>5, <1>6, <1>7

(* heap[0] is the earliest deadline of all: next_timer_ms never sleeps past  *)
(* a deadline hidden deeper, and process_timers stops too early for none.    *)
THEOREM EarliestOnTop == Spec => []TopIsEarliest
<1>1. IInv => TopIsEarliest
  BY TopLeast DEF TopIsEarliest
<1> QED
  BY <1>1, HeapInvariant, PTL
-----------------------------------------------------------------------------
(* The refinement of TimerQueue.                                             *)
LEMMA SetTTLArms ==
    ASSUME IInv, NEW e \in Entries, NEW v \in Times, SetTTL(e, v)
    PROVE  /\ DeadlineOf(e)' = v
           /\ \A f \in Entries : f # e => DeadlineOf(f)' = DeadlineOf(f)
           /\ fired' = fired
<1>1. /\ pc = "idle" /\ del = NULL /\ del' = NULL /\ len \in Nat /\ NULL \notin Entries
      /\ heap \in [0..(len - 1) -> HeapItem]
      /\ heap_idx' = heap_idx /\ fired' = fired /\ e # del'
  BY TTLHeapAssumption DEF SetTTL, IInv, TypeOK
<1>2. /\ \A i \in 0..(len - 1) : heap_idx[heap[i].ref] = i
      /\ \A f \in Entries : heap_idx[f] # NoIdx =>
             heap_idx[f] \in 0..(len - 1) /\ heap[heap_idx[f]].ref = f
  BY <1>1, IdleFacts
<1>3. /\ pc' \in {"up", "down"} /\ t' = NewItem(e, v)
      /\ \A f \in Entries : f # e /\ heap_idx[f] # NoIdx => heap'[heap_idx[f]] = heap[heap_idx[f]]
  <2>1. CASE heap_idx[e] \in 0..(len - 1)
    <3>1. /\ pc' \in {"up", "down"}
          /\ heap' = [heap EXCEPT ![heap_idx[e]] = NewItem(e, v)]
          /\ t' = [heap EXCEPT ![heap_idx[e]] = NewItem(e, v)][heap_idx[e]]
      BY <2>1 DEF SetTTL, heap_upsert, heap_update
    <3>2. \A f \in Entries : f # e /\ heap_idx[f] # NoIdx => heap_idx[f] # heap_idx[e]
      BY <1>2, <2>1 DEF NoIdx
    <3> QED
      BY <1>1, <1>2, <2>1, <3>1, <3>2
  <2>2. CASE heap_idx[e] \notin 0..(len - 1)
    <3>1. /\ pc' \in {"up", "down"}
          /\ heap' = PushBack(heap, len, NewItem(e, v))
          /\ t' = PushBack(heap, len, NewItem(e, v))[len]
      BY <2>2 DEF SetTTL, heap_upsert, heap_update
    <3> QED
      BY <1>1, <1>2, <3>1 DEF PushBack
  <2> QED
    BY <2>1, <2>2
<1>4. t'.ref = e /\ t'.val = v
  BY <1>3 DEF NewItem
<1> QED
  BY <1>1, <1>3, <1>4 DEF DeadlineOf

LEMMA DeleteDisarms ==
    ASSUME IInv, pc = "idle", NEW e \in Entries, heap_idx[e] # NoIdx,
           heap_delete(heap_idx[e], e)
    PROVE  /\ DeadlineOf(e) = heap[heap_idx[e]].val
           /\ DeadlineOf(e)' = NoIdx
           /\ \A f \in Entries : f # e => DeadlineOf(f)' = DeadlineOf(f)
<1> DEFINE p == heap_idx[e]
           n == len - 1
           h == PopBack([heap EXCEPT ![p] = heap[n]], len)
<1>1. /\ del = NULL /\ len \in Nat /\ heap \in [0..n -> HeapItem]
      /\ heap_idx \in [Entries -> Nat \cup {NoIdx}] /\ NULL \notin Entries
  BY TTLHeapAssumption DEF IInv, TypeOK
<1>2. /\ \A i \in 0..n : heap_idx[heap[i].ref] = i /\ heap[i].ref \in Entries
      /\ \A f \in Entries : heap_idx[f] # NoIdx =>
             heap_idx[f] \in 0..n /\ heap[heap_idx[f]].ref = f
  BY <1>1, IdleFacts, ItemType
<1>3. p \in 0..n /\ n \in Nat /\ heap[p].ref = e
  BY <1>1, <1>2
<1>4. /\ \A i \in 0..(n - 1) : i # p => h[i] = heap[i]
      /\ p < n => h[p] = heap[n]
  BY <1>1, <1>3 DEF PopBack
<1>5. /\ p < n => /\ heap' = h /\ t' = h[p] /\ pc' \in {"up", "down"}
                  /\ del' = e /\ heap_idx' = heap_idx
      /\ ~(p < n) => /\ heap' = h /\ heap_idx' = [heap_idx EXCEPT ![e] = NoIdx]
                     /\ UNCHANGED <<pc, pos, t, del>>
  BY <1>1, <1>3 DEF heap_delete, sift, heap_update
<1> HIDE DEF h, n
<1>6. \A f \in Entries : DeadlineOf(f) = IF heap_idx[f] = NoIdx THEN NoIdx
                                         ELSE heap[heap_idx[f]].val
  BY <1>1 DEF DeadlineOf
<1>7. \A f \in Entries : f # e /\ heap_idx[f] # NoIdx => heap_idx[f] # p
  BY <1>2, <1>3
<1>8. CASE p < n
  <2>1. /\ t' = heap[n] /\ t'.ref # e /\ pc' # "idle" /\ del' = e
        /\ heap_idx' = heap_idx /\ heap' = h
    BY <1>2, <1>3, <1>4, <1>5, <1>8
  <2>2. DeadlineOf(e)' = NoIdx
    BY <2>1 DEF DeadlineOf
  <2>3. ASSUME NEW f \in Entries, f # e PROVE DeadlineOf(f)' = DeadlineOf(f)
    <3>1. CASE t'.ref = f
      <4>1. heap_idx[f] = n /\ n # NoIdx
        BY <1>2, <1>3, <2>1, <3>1 DEF NoIdx
      <4> QED
        BY <1>6, <2>1, <3>1, <4>1 DEF DeadlineOf
    <3>2. CASE t'.ref # f /\ heap_idx[f] # NoIdx
      <4>1. heap_idx[f] \in 0..(n - 1) /\ heap_idx[f] # p
        BY <1>2, <1>3, <1>7, <2>1, <2>3, <3>2
      <4> QED
        BY <1>4, <1>6, <2>1, <2>3, <3>2, <4>1 DEF DeadlineOf
    <3>3. CASE t'.ref # f /\ heap_idx[f] = NoIdx
      BY <1>6, <2>1, <3>3 DEF DeadlineOf
    <3> QED
      BY <3>1, <3>2, <3>3
  <2> QED
    BY <1>6, <2>2, <2>3
<1>9. CASE ~(p < n)
  <2>1. /\ heap' = h /\ heap_idx' = [heap_idx EXCEPT ![e] = NoIdx]
        /\ pc' = "idle" /\ del' = NULL /\ p = n
    BY <1>1, <1>3, <1>5, <1>9
  <2>2. DeadlineOf(e)' = NoIdx
    BY <1>1, <2>1 DEF DeadlineOf
  <2>3. ASSUME NEW f \in Entries, f # e PROVE DeadlineOf(f)' = DeadlineOf(f)
    <3>1. heap_idx'[f] = heap_idx[f]
      BY <1>1, <2>1, <2>3
    <3>2. heap_idx[f] # NoIdx => heap'[heap_idx[f]] = heap[heap_idx[f]]
      BY <1>2, <1>3, <1>4, <1>7, <2>1, <2>3
    <3> QED
      BY <1>1, <1>6, <2>1, <3>1, <3>2 DEF DeadlineOf
  <2> QED
    BY <1>6, <2>2, <2>3
<1> QED
  BY <1>8, <1>9

LEMMA SiftKeepsDeadlines ==
    ASSUME IInv, Sift
    PROVE  UNCHANGED fired /\ \A f \in Entries : DeadlineOf(f)' = DeadlineOf(f)
<1>1. /\ Busy /\ len \in Nat /\ pos \in 0..(len - 1) /\ t.ref \in Entries /\ NULL \notin Entries
      /\ heap \in [0..(len - 1) -> HeapItem] /\ heap_idx \in [Entries -> Nat \cup {NoIdx}]
  BY ItemType, TTLHeapAssumption DEF Sift, UpStep, DownStep, SiftDone, SiftEnds, IInv, TypeOK, Busy
<1>2. /\ t.ref # del
      /\ \A i \in 0..(len - 1) : i # pos =>
             heap_idx[heap[i].ref] = i /\ heap[i].ref # t.ref /\ heap[i].ref # del
             /\ heap[i].ref \in Entries
      /\ \A e \in Entries : heap_idx[e] # NoIdx /\ e # t.ref /\ e # del =>
             /\ heap_idx[e] \in 0..(len - 1) /\ heap_idx[e] # pos
             /\ heap[heap_idx[e]].ref = e
  BY <1>1, ItemType DEF IInv, RefInv, Live
<1>3. \A f \in Entries : DeadlineOf(f) = IF t.ref = f THEN t.val
                                         ELSE IF heap_idx[f] = NoIdx \/ f = del THEN NoIdx
                                         ELSE heap[heap_idx[f]].val
  BY <1>1 DEF DeadlineOf, Busy
<1>4. ASSUME NEW q \in 0..(len - 1), q # pos,
             heap' = [heap EXCEPT ![pos] = heap[q]],
             heap_idx' = [heap_idx EXCEPT ![heap[q].ref] = pos],
             UNCHANGED <<pc, t, del>>
      PROVE  \A f \in Entries : DeadlineOf(f)' = DeadlineOf(f)
  <2>1. SUFFICES ASSUME NEW f \in Entries, f # t.ref, f # del
                 PROVE  DeadlineOf(f)' = DeadlineOf(f)
    BY <1>1, <1>2, <1>4 DEF DeadlineOf, Busy
  <2>2. DeadlineOf(f)' = IF heap_idx'[f] = NoIdx THEN NoIdx ELSE heap'[heap_idx'[f]].val
    BY <1>1, <1>4, <2>1 DEF DeadlineOf, Busy
  <2>3. DeadlineOf(f) = IF heap_idx[f] = NoIdx THEN NoIdx ELSE heap[heap_idx[f]].val
    BY <1>3, <2>1
  <2>4. CASE f = heap[q].ref
    <3>1. /\ heap_idx[f] = q /\ heap_idx'[f] = pos /\ heap'[pos] = heap[q]
          /\ q # NoIdx /\ pos # NoIdx
      BY <1>1, <1>2, <1>4, <2>4 DEF NoIdx
    <3> QED
      BY <2>2, <2>3, <3>1
  <2>5. CASE f # heap[q].ref
    <3>1. heap_idx'[f] = heap_idx[f]
      BY <1>1, <1>4, <2>5
    <3>2. heap_idx[f] # NoIdx => heap'[heap_idx[f]] = heap[heap_idx[f]]
      BY <1>1, <1>2, <1>4, <2>1
    <3> QED
      BY <2>2, <2>3, <3>1, <3>2
  <2> QED
    BY <2>4, <2>5
<1>5. CASE UpStep
  <2>1. heap_parent(pos) \in 0..(len - 1) /\ heap_parent(pos) # pos
    BY <1>1, <1>5, ParentBelow DEF UpStep
  <2> QED
    BY <1>4, <1>5, <2>1 DEF UpStep
<1>6. CASE DownStep
  <2> DEFINE m == MinPos
  <2>1. m \in 0..(len - 1) /\ m # pos
    BY <1>1, <1>6, MinPosChoice DEF DownStep, IInv
  <2>2. /\ heap' = [heap EXCEPT ![pos] = heap[m]]
        /\ heap_idx' = [heap_idx EXCEPT ![heap[m].ref] = pos]
        /\ UNCHANGED <<len, pc, t, del, fired>>
    BY <1>6 DEF DownStep
  <2> HIDE DEF m
  <2> QED
    BY <1>4, <2>1, <2>2
<1>7. CASE SiftDone
  <2>1. SUFFICES ASSUME NEW f \in Entries PROVE DeadlineOf(f)' = DeadlineOf(f)
    BY <1>7 DEF SiftDone
  <2>2. /\ DeadlineOf(f)' = IF heap_idx'[f] = NoIdx THEN NoIdx ELSE heap'[heap_idx'[f]].val
        /\ heap_idx'[f] = IF f = del THEN NoIdx ELSE IF f = t.ref THEN pos ELSE heap_idx[f]
        /\ heap'[pos] = t
        /\ \A i \in 0..(len - 1) : i # pos => heap'[i] = heap[i]
    BY <1>1, <1>7, <2>1 DEF SiftDone, DeadlineOf
  <2>3. pos # NoIdx
    BY <1>1 DEF NoIdx
  <2> QED
    BY <1>2, <1>3, <2>1, <2>2, <2>3
<1> QED
  BY <1>5, <1>6, <1>7 DEF Sift, UpStep, DownStep

(* The array with its back pointers is nothing but a set of deadlines from   *)
(* which process_timers takes the earliest: every step of the heap is a step *)
(* of TimerQueue or leaves it alone.                                         *)
THEOREM HeapRefinesTimerQueue == Spec => ImplementsTimerQueue
<1> DEFINE D == [e \in Entries |-> DeadlineOf(e)]
<1>1. Init => TQ!TQInit
  BY TTLHeapAssumption DEF Init, TQ!TQInit, DeadlineOf, NoIdx, TQ!NoTTL
<1>2. IInv /\ [Next]_vars => [TQ!TQNext]_(TQ!tqVars)
  <2> SUFFICES ASSUME IInv, [Next]_vars PROVE [TQ!TQNext]_(TQ!tqVars)
    OBVIOUS
  <2>1. ASSUME NEW e \in Entries, NEW v \in Times, SetTTL(e, v)
        PROVE  TQ!Arm(e, v) /\ UNCHANGED fired
    <3>1. D' = [D EXCEPT ![e] = v] /\ fired' = fired
      BY <2>1, SetTTLArms
    <3> QED
      BY <3>1 DEF TQ!Arm
  <2>2. ASSUME NEW e \in Entries, pc = "idle", heap_idx[e] # NoIdx,
               heap_delete(heap_idx[e], e)
        PROVE  D' = [D EXCEPT ![e] = NoIdx] /\ D[e] # NoIdx
    <3>1. heap_idx[e] \in 0..(len - 1) /\ heap[heap_idx[e]].val \in Nat
      BY <2>2, IdleFacts, ItemType
    <3>2. /\ DeadlineOf(e) = heap[heap_idx[e]].val /\ DeadlineOf(e)' = NoIdx
          /\ \A f \in Entries : f # e => DeadlineOf(f)' = DeadlineOf(f)
      BY <2>2, DeleteDisarms
    <3>3. D[e] # NoIdx
      BY <3>1, <3>2 DEF NoIdx
    <3> QED
      BY <3>2, <3>3
  <2>3. ASSUME NEW e \in Entries, ClearTTL(e)
        PROVE  TQ!Disarm(e) /\ UNCHANGED fired
    <3>1. D' = [D EXCEPT ![e] = NoIdx] /\ D[e] # NoIdx /\ fired' = fired
      BY <2>2, <2>3 DEF ClearTTL
    <3> QED
      BY <3>1 DEF TQ!Disarm, TQ!NoTTL, NoIdx
  <2>4. ASSUME NEW now \in Times, Expire(now)
        PROVE  /\ heap[0].ref \in Entries /\ TQ!Fire(heap[0].ref, now)
               /\ fired' = heap[0].ref
    <3> DEFINE e == heap[0].ref
    <3>1. /\ pc = "idle" /\ len > 0 /\ heap[0].val < now /\ heap_idx[e] # NoIdx
          /\ heap_delete(heap_idx[e], e) /\ fired' = e
      BY <2>4 DEF Expire
    <3>2. len \in Nat /\ 0 \in 0..(len - 1) /\ del = NULL /\ NULL \notin Entries
      BY <3>1, TTLHeapAssumption DEF IInv, TypeOK
    <3>3. e \in Entries /\ heap_idx[e] = 0
      BY <3>1, <3>2, IdleFacts, ItemType
    <3>4. \A f \in Entries : D[f] = IF heap_idx[f] = NoIdx THEN NoIdx
                                    ELSE heap[heap_idx[f]].val
      BY <3>1, <3>2 DEF DeadlineOf
    <3>5. \A f \in Entries : D[f] # NoIdx => heap[0].val <= D[f]
      BY <3>1, <3>2, <3>4, IdleFacts, TopLeast
    <3>6. D[e] = heap[0].val
      BY <3>1, <3>3, <3>4
    <3>7. D' = [D EXCEPT ![e] = NoIdx] /\ D[e] # NoIdx
      BY <2>2, <3>1, <3>3
    <3> HIDE DEF D
    <3> QED
      BY <3>1, <3>3, <3>5, <3>6, <3>7 DEF TQ!Fire, TQ!Disarm, TQ!NoTTL, NoIdx, D
  <2>5. ASSUME Sift PROVE UNCHANGED TQ!tqVars
    BY <2>5, SiftKeepsDeadlines DEF TQ!tqVars
  <2>6. ASSUME UNCHANGED vars PROVE UNCHANGED TQ!tqVars
    BY <2>6 DEF vars, TQ!tqVars, DeadlineOf
  <2> QED
    BY <2>1, <2>3, <2>4, <2>5, <2>6 DEF Next, TQ!TQNext
<1> QED
  BY <1>1, <1>2, HeapInvariant, PTL DEF Spec, ImplementsTimerQueue, TQ!TQSpec
=============================================================================
