----------------------------- MODULE MCKeyspace -----------------------------
(* A small instance of Keyspace for TLC.                                     *)
EXTENDS Keyspace, TLC

CONSTANTS MaxTime, MaxTTL

MCTimes == 0..MaxTime
MCTTLs == -1..MaxTTL
MCOffsets == -1..1
Symmetry == Permutations(Entries) \cup Permutations(Keys)

(* No action reads the last request or its reply: states that differ in them *)
(* only are explored once.  Each step's own request and reply are compared   *)
(* with KVStore's all the same.                                              *)
Unasked == <<db, mem, deadline, queue, task, now, pc, now_ms, nworks>>
=============================================================================
