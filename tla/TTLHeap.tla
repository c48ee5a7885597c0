------------------------------ MODULE TTLHeap ------------------------------
(***************************************************************************)
(* The TTL heap of the server: lib/server/heap.cpp and its only writer,    *)
(* entry_set_ttl of lib/server/key_value.cpp.                              *)
(*                                                                         *)
(* The heap is an array (std::vector<HeapItem>) of deadlines ordered as a  *)
(* binary heap.  Each item points back at the heap_idx field of its entry, *)
(* and the code that moves an item must store the item's new position      *)
(* through that pointer, or pttl, pexpire and del would later touch        *)
(* somebody else's deadline.                                               *)
(*                                                                         *)
(* A call is one step that does everything up to the loop of heap_up or    *)
(* heap_down, then one step per iteration of that loop: in between, `t' is *)
(* the item in hand and `pos' the hole it is to fill.                      *)
(***************************************************************************)
EXTENDS Integers

CONSTANTS Entries,  (* the key-value entries (addresses of their heap_idx) *)
          Times,    (* the instants the clock and the deadlines take       *)
          NULL      (* the null pointer                                    *)

ASSUME TTLHeapAssumption == Times \subseteq Nat /\ NULL \notin Entries

VARIABLES heap,      (* the array: position -> HeapItem                     *)
          len,       (* heap.size()                                         *)
          heap_idx,  (* Entry::heap_idx of every entry                      *)
          pc,        (* "idle", or the sifting loop that runs: "up", "down" *)
          pos, t,    (* the loop's locals                                   *)
          del,       (* entry whose heap_idx is reset when the call returns *)
          fired      (* history: the entry the timer loop took last         *)

sift == <<pc, pos, t>>
vars == <<heap, len, heap_idx, pc, pos, t, del, fired>>

NoIdx == -1   \* (size_t)-1
HeapItem == [val : Times, ref : Entries]
EmptyItem == [val |-> 0, ref |-> NULL]

heap_parent(i) == (i + 1) \div 2 - 1
heap_left(i)   == i * 2 + 1
heap_right(i)  == i * 2 + 2

-----------------------------------------------------------------------------
(* std::vector operations on an array h of n items.                          *)
PushBack(h, n, x) == [i \in 0..n |-> IF i = n THEN x ELSE h[i]]
PopBack(h, n)     == [i \in 0..(n - 2) |-> h[i]]

(* Mutant: only heap_down is ever tried.                                     *)
Mut_update_DownOnly(h, n, p) ==
    /\ heap' = h
    /\ len' = n
    /\ pos' = p
    /\ t' = h[p]
    /\ pc' = "down"

(* heap_update: choose the direction and load the item in hand.              *)
heap_update(h, n, p) ==
    /\ heap' = h
    /\ len' = n
    /\ pos' = p
    /\ t' = h[p]
    /\ pc' = IF p > 0 /\ h[heap_parent(p)].val > h[p].val THEN "up" ELSE "down"

(* Mutant: the item is pushed without its back pointer.                      *)
Mut_NewItem_NoRef(e, v) == [val |-> v, ref |-> NULL]

NewItem(e, v) == [val |-> v, ref |-> e]

heap_upsert(p, x) ==
    \/ /\ p \in 0..(len - 1)
       /\ heap_update([heap EXCEPT ![p] = x], len, p)
    \/ /\ p \notin 0..(len - 1)
       /\ heap_update(PushBack(heap, len, x), len + 1, len)

(* heap_delete, on behalf of entry_set_ttl(e, -1), which then resets         *)
(* e->heap_idx: at once when nothing has to be sifted, else in SiftDone.     *)
heap_delete(p, e) ==
    LET h == PopBack([heap EXCEPT ![p] = heap[len - 1]], len) IN
    \/ /\ p < len - 1
       /\ heap_update(h, len - 1, p)
       /\ del' = e
       /\ UNCHANGED heap_idx
    \/ /\ p >= len - 1
       /\ heap' = h
       /\ len' = len - 1
       /\ heap_idx' = [heap_idx EXCEPT ![e] = NoIdx]
       /\ UNCHANGED <<sift, del>>

-----------------------------------------------------------------------------
(* entry_set_ttl(e, ttl >= 0): do_expire computed the deadline v.            *)
SetTTL(e, v) ==
    /\ pc = "idle"
    /\ heap_upsert(heap_idx[e], NewItem(e, v))
    /\ UNCHANGED <<heap_idx, del, fired>>

(* entry_set_ttl(e, -1): from entry_del, or pexpire with a negative TTL.     *)
ClearTTL(e) ==
    /\ pc = "idle"
    /\ heap_idx[e] # NoIdx
    /\ heap_delete(heap_idx[e], e)
    /\ UNCHANGED fired

(* Mutant: the top item is taken whether or not it is due.                   *)
Mut_Expire_NotDue(now) ==
    /\ pc = "idle"
    /\ len > 0
    /\ LET e == heap[0].ref IN
       /\ heap_delete(heap_idx[e], e)
       /\ fired' = e

(* One round of process_timers: the top item is due, and entry_del(ent)      *)
(* removes the item at ent->heap_idx (not "item 0").                         *)
Expire(now) ==
    /\ pc = "idle"
    /\ len > 0
    /\ heap[0].val < now
    /\ LET e == heap[0].ref IN
       /\ heap_idx[e] # NoIdx
       /\ heap_delete(heap_idx[e], e)
       /\ fired' = e

(* Mutant: `pos' is not moved along with the item.                           *)
Mut_UpStep_StandsStill ==
    /\ pc = "up"
    /\ pos > 0
    /\ heap[heap_parent(pos)].val > t.val
    /\ heap' = [heap EXCEPT ![pos] = heap[heap_parent(pos)]]
    /\ heap_idx' = [heap_idx EXCEPT ![heap[heap_parent(pos)].ref] = pos]
    /\ UNCHANGED <<len, pos, pc, t, del, fired>>

(* heap_up, one iteration: pull the parent down into the hole.               *)
UpStep ==
    /\ pc = "up"
    /\ pos > 0
    /\ heap[heap_parent(pos)].val > t.val
    /\ heap' = [heap EXCEPT ![pos] = heap[heap_parent(pos)]]
    /\ heap_idx' = [heap_idx EXCEPT ![heap[heap_parent(pos)].ref] = pos]
    /\ pos' = heap_parent(pos)
    /\ UNCHANGED <<len, pc, t, del, fired>>

(* The smaller kid of the hole, when it is smaller than the item in hand.    *)
MinPos ==
    LET l == heap_left(pos)
        r == heap_right(pos)
        m == IF l < len /\ heap[l].val < t.val THEN l ELSE pos
        min_val == IF m = l THEN heap[l].val ELSE t.val
    IN  IF r < len /\ heap[r].val < min_val THEN r ELSE m

(* Mutant: the moved item's back pointer is not updated.                     *)
Mut_DownStep_StaleRef ==
    /\ pc = "down"
    /\ MinPos # pos
    /\ heap' = [heap EXCEPT ![pos] = heap[MinPos]]
    /\ pos' = MinPos
    /\ UNCHANGED <<len, heap_idx, pc, t, del, fired>>

(* heap_down, one iteration: pull the smaller kid up into the hole.          *)
DownStep ==
    /\ pc = "down"
    /\ MinPos # pos
    /\ heap' = [heap EXCEPT ![pos] = heap[MinPos]]
    /\ heap_idx' = [heap_idx EXCEPT ![heap[MinPos].ref] = pos]
    /\ pos' = MinPos
    /\ UNCHANGED <<len, pc, t, del, fired>>

SiftEnds ==
    \/ pc = "up" /\ ~(pos > 0 /\ heap[heap_parent(pos)].val > t.val)
    \/ pc = "down" /\ MinPos = pos

(* The loop ends: store the item in hand, then return to entry_set_ttl.      *)
SiftDone ==
    /\ SiftEnds
    /\ heap' = [heap EXCEPT ![pos] = t]
    /\ heap_idx' = [e \in Entries |-> IF e = del THEN NoIdx
                                      ELSE IF e = t.ref THEN pos
                                      ELSE heap_idx[e]]
    /\ pc' = "idle"
    /\ pos' = 0
    /\ t' = EmptyItem
    /\ del' = NULL
    /\ UNCHANGED <<len, fired>>

Sift == UpStep \/ DownStep \/ SiftDone

Init ==
    /\ heap = [i \in 0..-1 |-> EmptyItem]
    /\ len = 0
    /\ heap_idx = [e \in Entries |-> NoIdx]
    /\ pc = "idle"
    /\ pos = 0
    /\ t = EmptyItem
    /\ del = NULL
    /\ fired = NULL

Next ==
    \/ \E e \in Entries, v \in Times : SetTTL(e, v)
    \/ \E e \in Entries : ClearTTL(e)
    \/ \E now \in Times : Expire(now)
    \/ Sift

Spec == Init /\ [][Next]_vars

-----------------------------------------------------------------------------
TypeOK ==
    /\ len \in Nat
    /\ heap \in [0..(len - 1) -> HeapItem]
    /\ heap_idx \in [Entries -> Nat \cup {NoIdx}]
    /\ pc \in {"idle", "up", "down"}
    /\ pos \in Nat
    /\ pc # "idle" => pos < len
    /\ t \in HeapItem \cup {EmptyItem}
    /\ pc # "idle" => t \in HeapItem
    /\ del \in Entries \cup {NULL}
    /\ pc = "idle" => del = NULL
    /\ fired \in Entries \cup {NULL}

(* Between two calls the array is a heap.                                    *)
HeapOrdered ==
    pc = "idle" => \A i \in 1..(len - 1) : heap[heap_parent(i)].val <= heap[i].val

(* next_timer_ms and process_timers look at item 0 alone: nothing is due     *)
(* before it.                                                                *)
TopIsEarliest ==
    pc = "idle" => \A i \in 0..(len - 1) : heap[0].val <= heap[i].val

(* Between two calls an entry's heap_idx is exactly the position of its item:*)
(* every item is found through its entry, and an entry with an index has an  *)
(* item there.                                                               *)
RefsExact ==
    pc = "idle" =>
        /\ \A i \in 0..(len - 1) : heap_idx[heap[i].ref] = i
        /\ \A e \in Entries : heap_idx[e] # NoIdx =>
                /\ heap_idx[e] \in 0..(len - 1)
                /\ heap[heap_idx[e]].ref = e

(* The loops of heap_up and heap_down end: each iteration moves the hole      *)
(* strictly towards the root, or strictly away from it within the array.     *)
SiftAdvances ==
    [][/\ pc = "up" /\ pc' = "up" => pos' < pos
       /\ pc = "down" /\ pc' = "down" => pos < pos' /\ pos' < len]_vars

(* The deadlines the array stands for, the item in hand included.            *)
DeadlineOf(e) ==
    IF pc # "idle" /\ t.ref = e THEN t.val
    ELSE IF heap_idx[e] = NoIdx \/ e = del THEN NoIdx
    ELSE heap[heap_idx[e]].val

TQ == INSTANCE TimerQueue WITH deadline <- [e \in Entries |-> DeadlineOf(e)]

(* The heap, positions and sifting included, is a set of deadlines from      *)
(* which the timer loop always takes the earliest.                           *)
ImplementsTimerQueue == TQ!TQSpec
=============================================================================
