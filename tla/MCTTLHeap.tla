----------------------------- MODULE MCTTLHeap -----------------------------
(* A small instance of TTLHeap for TLC.                                      *)
EXTENDS TTLHeap, TLC

CONSTANTS MaxTime

MCTimes == 0..MaxTime
Symmetry == Permutations(Entries)
=============================================================================
