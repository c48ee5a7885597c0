-------------------------------- MODULE ZSet --------------------------------
(***************************************************************************)
(* The sorted set of lib/server/zset.cpp: an AVL tree (avl.cpp) ordered by *)
(* score and name, and a hashtable of the same nodes by name.              *)
(*                                                                         *)
(* A call does everything up to its first loop in one step, then one step  *)
(* per iteration: `search' is the descent of tree_insert, `succ' the one   *)
(* of avl_del to the successor, `fix' the way of avl_fix to the root.      *)
(* rot_left and rot_right, avl_fix_left and avl_fix_right are mirror       *)
(* images and are written once, with a side for a parameter.               *)
(***************************************************************************)
EXTENDS Ranks, Sequences, Functions

CONSTANTS Names,    (* the names, numbered in the order of memcmp and length *)
          Scores,
          NULL

ASSUME ZSetAssumption ==
    /\ Names \subseteq Nat /\ Scores \subseteq Int
    /\ NULL \notin Names /\ NULL \notin {"idle", "swap", "unlinked"}

VARIABLES root,     (* ZSet::root                                          *)
          tree,     (* the AVLNodes of the allocated ZNodes, by name       *)
          score,    (* their ZNode::score                                  *)
          hmap,     (* ZSet::hmap: the names that are found in it          *)
          pc, at, up, victim,    (* where the call is, its local pointers  *)
          then,     (* what follows the loop of avl_fix                    *)
          op        (* the call                                            *)

vars == <<root, tree, score, hmap, pc, at, up, victim, then, op>>

Sides == {"left", "right"}
Other(side) == IF side = "left" THEN "right" ELSE "left"

(* avl_init.                                                                 *)
NewNode == [parent |-> NULL, left |-> NULL, right |-> NULL, height |-> 1, cnt |-> 1]

avl_height(T, n) == IF n = NULL THEN 0 ELSE T[n].height
avl_cnt(T, n)    == IF n = NULL THEN 0 ELSE T[n].cnt

Larger(i, j) == IF i < j THEN j ELSE i

avl_update(T, n) ==
    [T EXCEPT ![n].height = 1 + Larger(avl_height(T, T[n].left), avl_height(T, T[n].right)),
              ![n].cnt = 1 + avl_cnt(T, T[n].left) + avl_cnt(T, T[n].right)]

SetParent(T, n, p) == IF n = NULL THEN T ELSE [T EXCEPT ![n].parent = p]

(* `from': the link of parent p that leads to n.                             *)
SideOf(T, p, n) == IF T[p].left = n THEN "left" ELSE "right"
Replace(T, p, n, m) == IF p = NULL THEN T ELSE [T EXCEPT ![p][SideOf(T, p, n)] = m]

(* rot_left or rot_right, without the link to the node that comes out on top.*)
Rotate(T, n, side) ==
    LET m == T[n][Other(side)]
        inner == T[m][side]
        turned == [T EXCEPT ![n][Other(side)] = inner, ![n].parent = m,
                            ![m][side] = n, ![m].parent = T[n].parent]
    IN  avl_update(avl_update(SetParent(turned, inner, n), n), m)

(* Mutant: never the double rotation.                                        *)
Mut_StraightenKid_Not(T, n, side) == T

(* The first half of avl_fix_left and avl_fix_right.                         *)
StraightenKid(T, n, side) ==
    LET kid == T[n][side]
        inner == T[kid][Other(side)]
    IN  IF avl_height(T, T[kid][side]) < avl_height(T, inner)
        THEN [Rotate(T, kid, side) EXCEPT ![n][side] = inner]
        ELSE T

(* n with the subtree on that side taller by 2; p is the parent of n.        *)
avl_fix_side(T, n, side, p) ==
    LET straight == StraightenKid(T, n, side)
        turned == Rotate(straight, n, Other(side))
    IN  [tree |-> Replace(turned, p, n, straight[n][side]), top |-> straight[n][side]]

(* One iteration of avl_fix: the tree after it, and the top of the subtree.  *)
Fixed(T, n) ==
    LET updated == avl_update(T, n)
        l == avl_height(updated, updated[n].left)
        r == avl_height(updated, updated[n].right)
    IN  CASE l = r + 2 -> avl_fix_side(updated, n, "left", T[n].parent)
          [] l + 2 = r -> avl_fix_side(updated, n, "right", T[n].parent)
          [] OTHER     -> [tree |-> updated, top |-> n]

(* Mutant: equal scores are not told apart by name.                          *)
Mut_zless_ScoreOnly(s, n, t, m) == s < t

zless(s, n, t, m) == IF s # t THEN s < t ELSE n < m

-----------------------------------------------------------------------------
(* avl_del_easy, up to its call of avl_fix.                                  *)
avl_del_easy(n, next) ==
    LET child == IF tree[n].left # NULL THEN tree[n].left ELSE tree[n].right
        parent == tree[n].parent
    IN
    /\ tree' = Replace(SetParent(tree, child, parent), parent, n, child)
    /\ \/ /\ parent = NULL
          /\ root' = child /\ pc' = next /\ at' = NULL /\ then' = NULL
       \/ /\ parent # NULL
          /\ pc' = "fix" /\ at' = parent /\ then' = next
          /\ UNCHANGED root

avl_del(n) ==
    \/ /\ tree[n].left = NULL \/ tree[n].right = NULL
       /\ avl_del_easy(n, "unlinked")
    \/ /\ tree[n].left # NULL /\ tree[n].right # NULL
       /\ pc' = "succ" /\ at' = tree[n].right
       /\ UNCHANGED <<root, tree, then>>

NextSucc ==
    /\ pc = "succ" /\ tree[at].left # NULL
    /\ at' = tree[at].left
    /\ UNCHANGED <<root, tree, score, hmap, pc, up, victim, then, op>>

DetachSucc ==
    /\ pc = "succ" /\ tree[at].left = NULL
    /\ victim' = at
    /\ avl_del_easy(at, "swap")
    /\ UNCHANGED <<score, hmap, up, op>>

(* Mutant: the kids keep their parent.                                       *)
Mut_SwapSucc_OldParent ==
    LET n == op.node IN
    /\ pc = "swap"
    /\ tree' = Replace([tree EXCEPT ![victim] = tree[n]], tree[n].parent, n, victim)
    /\ root' = IF tree[n].parent = NULL THEN victim ELSE root
    /\ pc' = "unlinked" /\ victim' = NULL
    /\ UNCHANGED <<score, hmap, at, up, then, op>>

(* The successor takes the place of the node.                                *)
SwapSucc ==
    LET n == op.node
        copied == [tree EXCEPT ![victim] = tree[n]]
        adopted == SetParent(SetParent(copied, tree[n].left, victim), tree[n].right, victim)
    IN
    /\ pc = "swap"
    /\ tree' = Replace(adopted, tree[n].parent, n, victim)
    /\ root' = IF tree[n].parent = NULL THEN victim ELSE root
    /\ pc' = "unlinked" /\ victim' = NULL
    /\ UNCHANGED <<score, hmap, at, up, then, op>>

FixStep ==
    LET fixed == Fixed(tree, at) IN
    /\ pc = "fix"
    /\ tree' = fixed.tree
    /\ \/ /\ tree[at].parent # NULL
          /\ at' = tree[at].parent
          /\ UNCHANGED <<root, pc, then, op>>
       \/ /\ tree[at].parent = NULL
          /\ root' = fixed.top
          /\ pc' = then /\ at' = NULL /\ then' = NULL
          /\ op' = IF then = "idle" THEN NULL ELSE op
    /\ UNCHANGED <<score, hmap, up, victim>>

-----------------------------------------------------------------------------
(* tree_insert, before its loop.                                             *)
tree_insert == pc' = "search" /\ at' = root /\ up' = NULL /\ UNCHANGED root

Descend ==
    LET n == op.node IN
    /\ pc = "search" /\ at # NULL
    /\ up' = at
    /\ at' = IF zless(score[n], n, score[at], at) THEN tree[at].left ELSE tree[at].right
    /\ UNCHANGED <<root, tree, score, hmap, pc, victim, then, op>>

Attach ==
    LET n == op.node IN
    /\ pc = "search" /\ at = NULL
    /\ \/ /\ up = NULL
          /\ tree' = [tree EXCEPT ![n].parent = NULL]
          /\ root' = n
       \/ /\ up # NULL
          /\ LET side == IF zless(score[n], n, score[up], up) THEN "left" ELSE "right" IN
             tree' = [tree EXCEPT ![up][side] = n, ![n].parent = up]
          /\ UNCHANGED root
    /\ pc' = "fix" /\ at' = n /\ up' = NULL /\ then' = "idle"
    /\ UNCHANGED <<score, hmap, victim, op>>

-----------------------------------------------------------------------------
zset_lookup(n) == root # NULL /\ n \in hmap

(* zset_insert of a new name, with znode_new and hm_insert.                  *)
zset_insert(n, s) ==
    /\ pc = "idle" /\ ~zset_lookup(n)
    /\ hmap' = hmap \cup {n}
    /\ tree' = [m \in DOMAIN tree \cup {n} |-> IF m = n THEN NewNode ELSE tree[m]]
    /\ score' = [m \in DOMAIN score \cup {n} |-> IF m = n THEN s ELSE score[m]]
    /\ op' = [call |-> "insert", node |-> n, score |-> s]
    /\ tree_insert
    /\ UNCHANGED <<victim, then>>

(* zset_update; with the score it has the node stays as it is.               *)
zset_update(n, s) ==
    /\ pc = "idle" /\ zset_lookup(n) /\ score[n] # s
    /\ op' = [call |-> "update", node |-> n, score |-> s]
    /\ avl_del(n)
    /\ UNCHANGED <<score, hmap, up, victim>>

Reinsert ==
    LET n == op.node IN
    /\ pc = "unlinked" /\ op.call = "update"
    /\ tree' = [tree EXCEPT ![n] = NewNode]
    /\ score' = [score EXCEPT ![n] = op.score]
    /\ tree_insert
    /\ UNCHANGED <<hmap, victim, then, op>>

zset_delete(n) ==
    /\ pc = "idle" /\ zset_lookup(n)
    /\ hmap' = hmap \ {n}
    /\ op' = [call |-> "delete", node |-> n]
    /\ avl_del(n)
    /\ UNCHANGED <<score, up, victim>>

Free ==
    /\ pc = "unlinked" /\ op.call = "delete"
    /\ tree' = Restrict(tree, DOMAIN tree \ {op.node})
    /\ score' = Restrict(score, DOMAIN tree \ {op.node})
    /\ pc' = "idle" /\ op' = NULL
    /\ UNCHANGED <<root, hmap, at, up, victim, then>>

(* The names below a node, in the order of the tree.                         *)
InOrder(T) ==
    LET below[n \in DOMAIN T \cup {NULL}] ==
            IF n = NULL THEN << >> ELSE below[T[n].left] \o <<n>> \o below[T[n].right]
    IN  below[root]

zset_clear ==
    LET freed == Range(InOrder(tree)) IN       \* tree_dispose
    /\ pc = "idle"
    /\ hmap' = {}
    /\ tree' = Restrict(tree, DOMAIN tree \ freed)
    /\ score' = Restrict(score, DOMAIN tree \ freed)
    /\ root' = NULL
    /\ UNCHANGED <<pc, at, up, victim, then, op>>

-----------------------------------------------------------------------------
(* The queries.                                                              *)
zset_seekge(s, n) ==
    LET Link == DOMAIN tree \cup {NULL}
        seek[m \in Link] ==
            [found \in Link |->
                IF m = NULL THEN found
                ELSE IF zless(score[m], m, s, n) THEN seek[tree[m].right][found]
                ELSE seek[tree[m].left][m]]
    IN  seek[root][NULL]

(* Mutant: the last node of the right subtree is taken to be outside.        *)
Mut_avl_offset_Strict(n, offset) ==
    LET cnt(m) == avl_cnt(tree, m)
        walk[m \in DOMAIN tree] ==
            LET l == tree[m].left   r == tree[m].right   p == tree[m].parent IN
            [pos \in Int |->
                CASE pos = offset -> m
                  [] pos < offset /\ pos + cnt(r) > offset -> walk[r][pos + cnt(tree[r].left) + 1]
                  [] pos > offset /\ pos - cnt(l) <= offset -> walk[l][pos - (cnt(tree[l].right) + 1)]
                  [] OTHER -> IF p = NULL THEN NULL
                              ELSE IF tree[p].right = m THEN walk[p][pos - (cnt(l) + 1)]
                              ELSE walk[p][pos + cnt(r) + 1]]
    IN  walk[n][0]

avl_offset(n, offset) ==
    LET cnt(m) == avl_cnt(tree, m)
        walk[m \in DOMAIN tree] ==
            LET l == tree[m].left   r == tree[m].right   p == tree[m].parent IN
            [pos \in Int |->
                CASE pos = offset -> m
                  [] pos < offset /\ pos + cnt(r) >= offset -> walk[r][pos + cnt(tree[r].left) + 1]
                  [] pos > offset /\ pos - cnt(l) <= offset -> walk[l][pos - (cnt(tree[l].right) + 1)]
                  [] OTHER -> IF p = NULL THEN NULL
                              ELSE IF tree[p].right = m THEN walk[p][pos - (cnt(l) + 1)]
                              ELSE walk[p][pos + cnt(r) + 1]]
    IN  walk[n][0]

znode_offset(n, offset) == IF n = NULL THEN NULL ELSE avl_offset(n, offset)

(* The tuples that do_zquery puts out; its count n goes up by 2 for each.    *)
do_zquery(s, name, offset, limit) ==
    LET out[m \in DOMAIN tree \cup {NULL}] ==
            [n \in Nat |-> IF m = NULL \/ n >= limit THEN << >>
                           ELSE <<m>> \o out[znode_offset(m, 1)][n + 2]]
    IN  IF limit <= 0 THEN << >> ELSE out[znode_offset(zset_seekge(s, name), offset)][0]

-----------------------------------------------------------------------------
Init ==
    /\ root = NULL /\ tree = << >> /\ score = << >> /\ hmap = {}
    /\ pc = "idle" /\ at = NULL /\ up = NULL /\ victim = NULL /\ then = NULL /\ op = NULL

Next ==
    \/ \E n \in Names, s \in Scores : zset_insert(n, s) \/ zset_update(n, s)
    \/ \E n \in Names : zset_delete(n)
    \/ zset_clear
    \/ NextSucc \/ DetachSucc \/ SwapSucc \/ FixStep
    \/ Descend \/ Attach \/ Reinsert \/ Free

Spec == Init /\ [][Next]_vars

-----------------------------------------------------------------------------
Allocated == DOMAIN tree

(* Nothing that is linked has been freed, in the middle of a call either.    *)
TypeOK ==
    LET Link == Allocated \cup {NULL} IN
    /\ Allocated \subseteq Names
    /\ tree \in [Allocated -> [parent : Link, left : Link, right : Link,
                               height : Nat, cnt : Nat]]
    /\ score \in [Allocated -> Scores]
    /\ root \in Link /\ at \in Link /\ up \in Link /\ victim \in Link
    /\ pc \in {"idle", "search", "succ", "fix", "swap", "unlinked"}
    /\ then \in {NULL, "idle", "swap", "unlinked"}

(* Between two calls both indexes hold the same nodes, all that are          *)
(* allocated; the tree has them in order; every link has its way back.       *)
IndexesAgree ==
    pc = "idle" =>
        LET s == InOrder(tree) IN
        /\ hmap = Allocated /\ Range(s) = Allocated
        /\ \A i, j \in DOMAIN s : i < j => Before(score[s[i]], s[i], score[s[j]], s[j])
        /\ root # NULL => tree[root].parent = NULL
        /\ \A n \in Allocated, side \in Sides :
              tree[n][side] # NULL => tree[tree[n][side]].parent = n

Diff(T, n) == avl_height(T, T[n].left) - avl_height(T, T[n].right)

(* Between two calls the heights of siblings differ by at most one and the   *)
(* counts are exact; on the way to the root they never differ by more than   *)
(* the two that avl_fix is written for.                                      *)
Balanced ==
    /\ pc = "idle" => \A n \in Allocated :
          Diff(tree, n) \in -1..1 /\ tree[n] = avl_update(tree, n)[n]
    /\ pc = "fix" => Diff(tree, at) \in -2..2

NodeAt(k) ==
    LET there == {n \in Allocated : Rank(score, n) = k}
    IN  IF there = {} THEN NULL ELSE CHOOSE n \in there : TRUE

(* Seeking, walking by any offset in either direction and paging answer as   *)
(* the ranks of the members say, from whatever node the walk starts.         *)
QueriesRight ==
    pc = "idle" =>
        LET size == Cardinality(Allocated) IN
        /\ \A n \in Allocated, d \in -(size + 1)..(size + 1) :
              avl_offset(n, d) = NodeAt(Rank(score, n) + d)
        /\ \A s \in Scores, n \in Names :
              /\ zset_seekge(s, n) = NodeAt(Below(score, s, n))
              /\ \A offset \in -1..1, limit \in -2..4 :
                    do_zquery(s, n, offset, limit) = Page(score, s, n, offset, limit)
=============================================================================
