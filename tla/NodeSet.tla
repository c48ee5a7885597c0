------------------------------ MODULE NodeSet ------------------------------
(***************************************************************************)
(* What the users of the hashtable rely on: a set of nodes in which at     *)
(* most one answers to a key.  No slots, no chains, no second table.       *)
(***************************************************************************)
EXTENDS FiniteSets

CONSTANTS Nodes,    (* the HNodes that exist                             *)
          Targets,  (* what may be looked for: [hcode, eq], see HMap     *)
          KeyOf,    (* node -> its key                                   *)
          NULL      (* nothing found                                     *)

VARIABLES nodes,    (* the nodes in the table                            *)
          result    (* history: the last question and its answer         *)

nsVars == <<nodes, result>>

Match(t) == IF nodes \cap t.eq = {} THEN NULL ELSE CHOOSE n \in nodes \cap t.eq : TRUE

Insert(n) ==
    /\ \A m \in nodes : KeyOf[m] # KeyOf[n]
    /\ nodes' = nodes \cup {n}
    /\ UNCHANGED result

Lookup(t) ==
    /\ result' = [op |-> "lookup", target |-> t, node |-> Match(t)]
    /\ UNCHANGED nodes

Delete(t) ==
    /\ result' = [op |-> "delete", target |-> t, node |-> Match(t)]
    /\ nodes' = nodes \ {Match(t)}

(* hm_size with hm_foreach: the number announced is the number delivered.   *)
List ==
    /\ result' = [size |-> Cardinality(nodes), listed |-> nodes]
    /\ UNCHANGED nodes

Clear ==
    /\ nodes' = {}
    /\ UNCHANGED result

NSInit == nodes = {} /\ result = NULL

NSNext ==
    \/ \E n \in Nodes : Insert(n)
    \/ \E t \in Targets : Lookup(t) \/ Delete(t)
    \/ List
    \/ Clear

NSSpec == NSInit /\ [][NSNext]_nsVars
=============================================================================
