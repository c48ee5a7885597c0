------------------------------- MODULE DList -------------------------------
(***************************************************************************)
(* The intrusive list of inc/server/list.h: L maps each node, the head     *)
(* among them, to its two pointers.                                        *)
(***************************************************************************)

dlist_init(L, node) == [L EXCEPT ![node] = [prev |-> node, next |-> node]]

dlist_empty(L, node) == L[node].next = node

(* Mutant: the way back is not corrected.                                   *)
Mut_dlist_detach_OneWay(L, node) == [L EXCEPT ![L[node].prev].next = L[node].next]

(* The node itself keeps its pointers.                                      *)
dlist_detach(L, node) ==
    LET prev == L[node].prev
        next == L[node].next
    IN  [L EXCEPT ![prev].next = next, ![next].prev = prev]

dlist_insert_before(L, target, rookie) ==
    LET prev == L[target].prev
    IN  [L EXCEPT ![prev].next = rookie,
                  ![rookie] = [prev |-> prev, next |-> target],
                  ![target].prev = rookie]
=============================================================================
