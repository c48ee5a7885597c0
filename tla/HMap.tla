-------------------------------- MODULE HMap --------------------------------
(***************************************************************************)
(* The hashtable of lib/server/HashTable.cpp: two tables of chains, from   *)
(* the older of which every call moves a bounded number of nodes to the    *)
(* newer one.                                                              *)
(*                                                                         *)
(* A call first does what precedes hm_help_rehashing, then one step per    *)
(* iteration of its loop, then the rest.  Slots are counted from 0.        *)
(***************************************************************************)
EXTENDS Integers, Sequences, FiniteSets

CONSTANTS Nodes,     (* the HNodes of keys or members                      *)
          KeyOf,     (* node -> the string it is found under               *)
          HashOf,    (* node -> its hcode                                  *)
          InitSlots,           (* slots of the first table                 *)
          K_MAX_LOAD_FACTOR, K_REHASHING_WORK,
          NULL

ASSUME HMapAssumption ==
    /\ HashOf \in [Nodes -> Nat]
    /\ \A m, n \in Nodes : KeyOf[m] = KeyOf[n] => HashOf[m] = HashOf[n]
    /\ NULL \notin Nodes
    /\ InitSlots \in Nat \ {0, 1}   (* a power of 2: % is the mask then *)
    /\ K_MAX_LOAD_FACTOR \in Nat \ {0} /\ K_REHASHING_WORK \in Nat \ {0}

VARIABLES newer, older,   (* HTab: chains by slot, number of slots, size   *)
          migrate_pos,    (* HMap::migrate_pos                             *)
          pc,             (* "idle", or "help": in hm_help_rehashing       *)
          nwork,          (* its count of moved nodes                      *)
          call,           (* what remains to be done after it              *)
          result          (* history: the last question and its answer     *)

vars == <<newer, older, migrate_pos, pc, nwork, call, result>>

(* The `key' and `eq' of a call: the hash code, and the nodes that eq takes  *)
(* for the key: those with its string, or, for hnode_same, the node itself.  *)
Targets ==
    {[hcode |-> HashOf[n], eq |-> {m \in Nodes : KeyOf[m] = KeyOf[n]}] : n \in Nodes}
    \cup {[hcode |-> HashOf[n], eq |-> {n}] : n \in Nodes}

h_init(n) == [tab |-> [i \in 0..(n - 1) |-> << >>], slots |-> n, size |-> 0]

NoTab == h_init(0)                   \* HTab{}, with tab == NULL
Exists(htab) == htab.slots # 0       \* tab != NULL

Slot(htab, hcode) == hcode % htab.slots            \* hcode & mask

h_insert(htab, n) ==
    [htab EXCEPT !.tab[Slot(htab, HashOf[n])] = <<n>> \o @, !.size = @ + 1]

(* The i-th node of a chain goes.                                            *)
Without(chain, i) == SubSeq(chain, 1, i - 1) \o SubSeq(chain, i + 1, Len(chain))
h_detach(htab, s, i) == [htab EXCEPT !.tab[s] = Without(@, i), !.size = @ - 1]

(* The places in the one chain that h_lookup walks where it would stop.      *)
Hits(htab, t) ==
    IF ~Exists(htab) THEN {}
    ELSE LET chain == htab.tab[Slot(htab, t.hcode)] IN
         {i \in DOMAIN chain : HashOf[chain[i]] = t.hcode /\ chain[i] \in t.eq}

FirstHit(htab, t) == CHOOSE i \in Hits(htab, t) : \A j \in Hits(htab, t) : i <= j
h_lookup(htab, t) == htab.tab[Slot(htab, t.hcode)][FirstHit(htab, t)]

(* The nodes that h_foreach visits.                                          *)
NodesOf(htab) ==
    UNION {{htab.tab[s][i] : i \in DOMAIN htab.tab[s]} : s \in 0..(htab.slots - 1)}

Threshold(htab) == htab.slots * K_MAX_LOAD_FACTOR

-----------------------------------------------------------------------------
(* What a call does before it helps.                                         *)
Help(c) ==
    /\ pc' = "help"
    /\ nwork' = 0
    /\ call' = c

Lookup(t) ==
    /\ pc = "idle"
    /\ Help([op |-> "lookup", target |-> t])
    /\ UNCHANGED <<newer, older, migrate_pos, result>>

Delete(t) ==
    /\ pc = "idle"
    /\ Help([op |-> "delete", target |-> t])
    /\ UNCHANGED <<newer, older, migrate_pos, result>>

(* Mutant: the old position is kept.                                         *)
Mut_trigger_KeepsPos(htab) ==
    /\ older' = htab
    /\ newer' = h_init(htab.slots * 2)
    /\ UNCHANGED migrate_pos

hm_trigger_rehashing(htab) ==
    /\ older' = htab
    /\ newer' = h_init(htab.slots * 2)
    /\ migrate_pos' = 0

(* The callers insert only after a lookup of the key that found nothing.     *)
Insert(n) ==
    LET htab == h_insert(IF Exists(newer) THEN newer ELSE h_init(InitSlots), n) IN
    /\ pc = "idle"
    /\ \A m \in NodesOf(newer) \cup NodesOf(older) : KeyOf[m] # KeyOf[n]
    /\ \/ /\ ~Exists(older) /\ htab.size >= Threshold(htab)
          /\ hm_trigger_rehashing(htab)
       \/ /\ ~(~Exists(older) /\ htab.size >= Threshold(htab))
          /\ newer' = htab
          /\ UNCHANGED <<older, migrate_pos>>
    /\ Help([op |-> "insert"])
    /\ UNCHANGED result

(* hm_size, then hm_foreach, as do_keys calls them.                          *)
hm_size == newer.size + older.size

List ==
    /\ pc = "idle"
    /\ result' = [size |-> hm_size, listed |-> NodesOf(newer) \cup NodesOf(older)]
    /\ UNCHANGED <<newer, older, migrate_pos, pc, nwork, call>>

Clear ==
    /\ pc = "idle"
    /\ newer' = NoTab /\ older' = NoTab /\ migrate_pos' = 0
    /\ UNCHANGED <<pc, nwork, call, result>>

-----------------------------------------------------------------------------
(* hm_help_rehashing.                                                        *)
Helping == pc = "help" /\ nwork < K_REHASHING_WORK /\ older.size > 0

SkipSlot ==
    /\ Helping
    /\ older.tab[migrate_pos] = << >>
    /\ migrate_pos' = migrate_pos + 1
    /\ UNCHANGED <<newer, older, pc, nwork, call, result>>

(* Mutant: the node stays in the slot of the same number.                    *)
Mut_MoveNode_SameSlot ==
    /\ Helping
    /\ older.tab[migrate_pos] # << >>
    /\ newer' = [newer EXCEPT !.tab[migrate_pos] = <<older.tab[migrate_pos][1]>> \o @,
                              !.size = @ + 1]
    /\ older' = h_detach(older, migrate_pos, 1)
    /\ nwork' = nwork + 1
    /\ UNCHANGED <<migrate_pos, pc, call, result>>

MoveNode ==
    /\ Helping
    /\ older.tab[migrate_pos] # << >>
    /\ newer' = h_insert(newer, older.tab[migrate_pos][1])
    /\ older' = h_detach(older, migrate_pos, 1)
    /\ nwork' = nwork + 1
    /\ UNCHANGED <<migrate_pos, pc, call, result>>

(* Mutant: the old table is not discarded.                                   *)
Mut_Drained_Keeps == older

(* The old table when the loop has ended.                                    *)
Drained == IF older.size = 0 THEN NoTab ELSE older

Answer(n) == result' = [op |-> call.op, target |-> call.target, node |-> n]

(* Mutant: only the newer table is searched.                                 *)
Mut_FinishLookup_NewerOnly ==
    /\ call.op = "lookup"
    /\ Answer(IF Hits(newer, call.target) # {} THEN h_lookup(newer, call.target) ELSE NULL)
    /\ older' = Drained
    /\ UNCHANGED newer

(* What hm_lookup and hm_delete do after it.                                 *)
FinishLookup ==
    /\ call.op = "lookup"
    /\ Answer(IF Hits(newer, call.target) # {} THEN h_lookup(newer, call.target)
              ELSE IF Hits(Drained, call.target) # {} THEN h_lookup(older, call.target)
              ELSE NULL)
    /\ older' = Drained
    /\ UNCHANGED newer

FinishDelete ==
    LET t == call.target IN
    /\ call.op = "delete"
    /\ \/ /\ Hits(newer, t) # {}
          /\ Answer(h_lookup(newer, t))
          /\ newer' = h_detach(newer, Slot(newer, t.hcode), FirstHit(newer, t))
          /\ older' = Drained
       \/ /\ Hits(newer, t) = {} /\ Hits(Drained, t) # {}
          /\ Answer(h_lookup(older, t))
          /\ older' = h_detach(older, Slot(older, t.hcode), FirstHit(older, t))
          /\ UNCHANGED newer
       \/ /\ Hits(newer, t) = {} /\ Hits(Drained, t) = {}
          /\ Answer(NULL)
          /\ older' = Drained
          /\ UNCHANGED newer

FinishInsert ==
    /\ call.op = "insert"
    /\ older' = Drained
    /\ UNCHANGED <<newer, result>>

HelpEnds ==
    /\ pc = "help" /\ ~Helping
    /\ FinishLookup \/ FinishDelete \/ FinishInsert
    /\ pc' = "idle" /\ nwork' = 0 /\ call' = NULL
    /\ UNCHANGED migrate_pos

-----------------------------------------------------------------------------
Init ==
    /\ newer = NoTab /\ older = NoTab /\ migrate_pos = 0
    /\ pc = "idle" /\ nwork = 0 /\ call = NULL /\ result = NULL

Next ==
    \/ \E n \in Nodes : Insert(n)
    \/ \E t \in Targets : Lookup(t) \/ Delete(t)
    \/ List \/ Clear
    \/ SkipSlot \/ MoveNode \/ HelpEnds

Spec == Init /\ [][Next]_vars

-----------------------------------------------------------------------------
HTabOK(htab) ==
    /\ htab = [tab |-> htab.tab, slots |-> htab.slots, size |-> htab.size]
    /\ htab.slots \in Nat
    /\ htab.tab \in [0..(htab.slots - 1) -> Seq(Nodes)]
    /\ htab.size \in Nat

(* The older table is half as large as the newer one, and the loop of        *)
(* hm_help_rehashing never reads beyond its last slot.                       *)
TypeOK ==
    /\ HTabOK(newer) /\ HTabOK(older)
    /\ Exists(older) => newer.slots = 2 * older.slots
    /\ migrate_pos \in Nat
    /\ Helping => migrate_pos < older.slots
    /\ pc \in {"idle", "help"}
    /\ nwork \in 0..K_REHASHING_WORK

Places(htab) ==
    {p \in (0..(htab.slots - 1)) \X (1..htab.size) : p[2] \in DOMAIN htab.tab[p[1]]}

(* Every node is in one place only, in the chain where its hash code says a  *)
(* lookup will look, and the sizes that decide on rehashing are exact.       *)
NodesInPlace ==
    /\ \A htab \in {newer, older} :
          /\ \A p \in Places(htab) :
                p[1] = Slot(htab, HashOf[htab.tab[p[1]][p[2]]])
          /\ htab.size = Cardinality(NodesOf(htab))
          /\ htab.size = Cardinality(Places(htab))
    /\ NodesOf(newer) \cap NodesOf(older) = {}

(* What hm_help_rehashing has passed stays empty, so that nothing is left    *)
(* behind when the old table is freed.                                       *)
MigratedEmpty ==
    \A s \in 0..(older.slots - 1) : s < migrate_pos => older.tab[s] = << >>

(* The newer table does not fill up before the older one is drained: every   *)
(* call ends below the load factor, although rehashing starts only when no   *)
(* other is under way.                                                       *)
LoadBounded == pc = "idle" /\ Exists(newer) => newer.size < Threshold(newer)

(* Migration is invisible: lookups, deletions and listings between any two   *)
(* steps of it answer as if there were one set of nodes.                     *)
NS == INSTANCE NodeSet WITH nodes <- NodesOf(newer) \cup NodesOf(older)

ImplementsNodeSet == NS!NSSpec
=============================================================================
