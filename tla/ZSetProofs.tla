----------------------------- MODULE ZSetProofs -----------------------------
(***************************************************************************)
(* Proofs about the sorted set for any names and scores: after every step  *)
(* of every call its tree is a search tree of all nodes but the one or two *)
(* that the call holds, balanced but for the way that avl_fix has left;    *)
(* between two calls it is as shallow as that makes it, and the queries    *)
(* answer what the ranks of the nodes say.                                 *)
(***************************************************************************)
EXTENDS ZSet, Facts

-----------------------------------------------------------------------------
(***************************************************************************)
(* What the operations of avl.cpp do to a tree: rotations, the way of      *)
(* avl_fix to the root, linking and unlinking a node, the descents.        *)
(***************************************************************************)
(* Links lead to allocated nodes, those of unlinked nodes as well.           *)
Node(A) == [parent : A \cup {NULL}, left : A \cup {NULL}, right : A \cup {NULL},
            height : Nat, cnt : Nat]
Typed(T, A) == T \in [A -> Node(A)] /\ NULL \notin A

Kid(T, n, side) == T[n][side]
Par(T, n)       == T[n].parent

(* m belongs on that side of n.                                              *)
On(sc, side, m, n) ==
    IF side = "left" THEN Before(sc[m], m, sc[n], n) ELSE Before(sc[n], n, sc[m], m)

Keys(L, sc) == L \subseteq Names /\ \A n \in L : sc[n] \in Int

(* L are the nodes of the tree with root r, S[n] those of the subtree of n.  *)
Sub(S, n) == IF n = NULL THEN {} ELSE S[n]

IsTree(T, A, L, sc, r, S) ==
    /\ Typed(T, A) /\ L \subseteq A /\ IsFiniteSet(L) /\ Keys(L, sc)
    /\ S \in [L -> SUBSET L]
    /\ \A n \in L : S[n] = {n} \cup Sub(S, Kid(T, n, "left")) \cup Sub(S, Kid(T, n, "right"))
    /\ \A n \in L, side \in Sides :
          LET k == Kid(T, n, side) IN
          k # NULL => /\ k \in L /\ Par(T, k) = n
                      /\ \A m \in S[k] : On(sc, side, m, n)
    /\ r \in L \cup {NULL} /\ Sub(S, r) = L
    /\ r # NULL => Par(T, r) = NULL

-----------------------------------------------------------------------------
(* The order.                                                                *)
LEMMA Ordinals == Names \subseteq Int /\ Scores \subseteq Int
BY ZSetAssumption

LEMMA OnOrder ==
    ASSUME NEW L, NEW sc, Keys(L, sc), NEW side \in Sides, NEW m \in L, NEW n \in L
    PROVE  /\ Other(side) \in Sides /\ Other(Other(side)) = side
           /\ On(sc, side, m, n) <=> On(sc, Other(side), n, m)
           /\ ~On(sc, side, m, m)
           /\ m # n => On(sc, side, m, n) \/ On(sc, Other(side), m, n)
           /\ ~(On(sc, side, m, n) /\ On(sc, Other(side), m, n))
           /\ \A k \in L : On(sc, side, m, n) /\ On(sc, side, n, k) => On(sc, side, m, k)
<1>1. m \in Int /\ n \in Int /\ sc[m] \in Int /\ sc[n] \in Int
  BY Ordinals DEF Keys
<1>2. \A k \in L : k \in Int /\ sc[k] \in Int
  BY Ordinals DEF Keys
<1>3. CASE side = "left"
  BY <1>1, <1>2, <1>3 DEF On, Before, Other, Sides
<1>4. CASE side = "right"
  BY <1>1, <1>2, <1>4 DEF On, Before, Other, Sides
<1> QED
  BY <1>3, <1>4 DEF Sides

LEMMA TwoSides ==
    /\ "left" \in Sides /\ "right" \in Sides
    /\ Other("left") = "right" /\ Other("right") = "left"
    /\ \A side \in Sides : /\ Other(side) \in Sides /\ Other(Other(side)) = side
                           /\ Other(side) # side
                           /\ \A s \in Sides : s = side \/ s = Other(side)
                           /\ side = "left" \/ side = "right"
BY DEF Other, Sides

-----------------------------------------------------------------------------
(* The tree, node by node.                                                   *)
LEMMA TreeNode ==
    ASSUME NEW T, NEW A, NEW L, NEW sc, NEW r, NEW S, IsTree(T, A, L, sc, r, S),
           NEW n \in L, NEW side \in Sides
    PROVE  /\ n \in A /\ n # NULL /\ n \in S[n] /\ S[n] \subseteq L
           /\ Other(side) \in Sides /\ Other(Other(side)) = side
           /\ Kid(T, n, side) \in L \cup {NULL}
           /\ S[n] = {n} \cup Sub(S, Kid(T, n, side)) \cup Sub(S, Kid(T, n, Other(side)))
           /\ \A m \in Sub(S, Kid(T, n, side)) : m \in L /\ m \in S[n] /\ On(sc, side, m, n)
           /\ n \notin Sub(S, Kid(T, n, side))
           /\ \A m \in Sub(S, Kid(T, n, side)) : m \notin Sub(S, Kid(T, n, Other(side)))
           /\ Kid(T, n, side) # NULL => /\ Par(T, Kid(T, n, side)) = n
                                   /\ Kid(T, n, side) # n
                                   /\ Kid(T, n, side) # Kid(T, n, Other(side))
                                   /\ Kid(T, n, side) \in S[Kid(T, n, side)]
<1>0. n \in A /\ NULL \notin A /\ S[n] \subseteq L /\ Keys(L, sc)
  BY DEF IsTree, Typed
<1>1. \A s \in Sides : /\ Kid(T, n, s) \in L \cup {NULL}
                       /\ \A m \in Sub(S, Kid(T, n, s)) : m \in L /\ On(sc, s, m, n)
                       /\ Kid(T, n, s) # NULL => Par(T, Kid(T, n, s)) = n
  BY DEF IsTree, Sub
<1>2. Other(side) \in Sides /\ Other(Other(side)) = side
  BY TwoSides
<1>3. S[n] = {n} \cup Sub(S, Kid(T, n, side)) \cup Sub(S, Kid(T, n, Other(side)))
  <2>1. S[n] = {n} \cup Sub(S, Kid(T, n, "left")) \cup Sub(S, Kid(T, n, "right"))
    BY DEF IsTree
  <2>2. CASE side = "left"
    BY <2>1, <2>2, TwoSides
  <2>3. CASE side = "right"
    BY <2>1, <2>3, TwoSides
  <2> QED
    BY <2>2, <2>3, TwoSides
<1>4. n \notin Sub(S, Kid(T, n, side))
  BY <1>0, <1>1, OnOrder
<1>5. \A m \in Sub(S, Kid(T, n, side)) : m \notin Sub(S, Kid(T, n, Other(side)))
  BY <1>0, <1>1, <1>2, OnOrder
<1>6. \A k \in L : k \in S[k] /\ k \in A
  BY DEF IsTree
<1>7. Kid(T, n, side) # NULL => /\ Kid(T, n, side) \in S[Kid(T, n, side)]
                           /\ Kid(T, n, side) \in Sub(S, Kid(T, n, side))
  BY <1>1, <1>6 DEF Sub
<1>8. Kid(T, n, side) # NULL => Kid(T, n, side) # n /\ Kid(T, n, side) # Kid(T, n, Other(side))
  BY <1>4, <1>5, <1>7
<1> QED
  BY <1>0, <1>1, <1>2, <1>3, <1>4, <1>5, <1>6, <1>7, <1>8

(* Induction from the leaves to the root.                                    *)
LEMMA TreeInduct ==
    ASSUME NEW T, NEW A, NEW L, NEW sc, NEW r, NEW S, IsTree(T, A, L, sc, r, S),
           NEW Q,
           \A n \in L : (\A side \in Sides : Kid(T, n, side) \in Q \cup {NULL}) => n \in Q
    PROVE  L \subseteq Q
<1> SUFFICES ASSUME L \ Q # {} PROVE FALSE
  OBVIOUS
<1> DEFINE size(n) == Cardinality(S[n])
           sizes == {size(n) : n \in L \ Q}
<1>1. \A n \in L : IsFiniteSet(S[n]) /\ size(n) \in Nat
  <2>1. \A n \in L : S[n] \in SUBSET L /\ IsFiniteSet(L)
    BY DEF IsTree
  <2> QED
    BY <2>1, FS_Subset, FS_CardinalityType
<1>2. PICK least \in sizes : \A k \in sizes : least <= k
  <2>1. sizes \subseteq Nat /\ sizes # {}
    BY <1>1
  <2> HIDE DEF sizes
  <2> QED
    BY <2>1, NatMin
<1>3. PICK n \in L \ Q : least = size(n)
  BY <1>2
<1>4. \A m \in L \ Q : size(n) <= size(m)
  BY <1>2, <1>3
<1>5. PICK side \in Sides : Kid(T, n, side) \notin Q \cup {NULL}
  BY <1>3
<1> DEFINE k == Kid(T, n, side)
<1>6. k \in L \ Q /\ S[k] \subseteq S[n] /\ n \in S[n] \ S[k]
  <2>1. k \in L /\ Sub(S, k) = S[k]
    BY <1>3, <1>5, TreeNode DEF Sub
  <2> QED
    BY <1>3, <1>5, <2>1, TreeNode
<1>7. size(k) <= size(n) /\ size(k) # size(n)
  BY <1>1, <1>6, FS_Subset
<1> HIDE DEF size, k
<1>8. size(n) <= size(k) /\ size(n) \in Nat /\ size(k) \in Nat
  BY <1>1, <1>4, <1>6
<1> QED
  BY <1>7, <1>8

(* A subtree holds the subtrees of its nodes; below its root, their parents. *)
LEMMA SubClosed ==
    ASSUME NEW T, NEW A, NEW L, NEW sc, NEW r, NEW S, IsTree(T, A, L, sc, r, S)
    PROVE  \A b \in L : \A a \in S[b] :
              /\ S[a] \subseteq S[b]
              /\ a # b => /\ Par(T, a) \in S[b]
                          /\ \E side \in Sides : Kid(T, Par(T, a), side) = a
<1> DEFINE Good(b) == \A a \in S[b] :
              /\ S[a] \subseteq S[b]
              /\ a # b => /\ Par(T, a) \in S[b]
                          /\ \E side \in Sides : Kid(T, Par(T, a), side) = a
           Q == {b \in L : Good(b)}
<1>1. ASSUME NEW n \in L, \A side \in Sides : Kid(T, n, side) \in Q \cup {NULL} PROVE Good(n)
  <2> SUFFICES ASSUME NEW a \in S[n], a # n
               PROVE  /\ S[a] \subseteq S[n] /\ Par(T, a) \in S[n]
                      /\ \E side \in Sides : Kid(T, Par(T, a), side) = a
    OBVIOUS
  <2>1. PICK side \in Sides : a \in Sub(S, Kid(T, n, side))
    <3>1. "left" \in Sides /\ Other("left") \in Sides
      BY DEF Sides, Other
    <3> QED
      BY <3>1, TreeNode
  <2> DEFINE k == Kid(T, n, side)
  <2>2. k # NULL /\ a \in S[k] /\ Good(k) /\ S[k] \subseteq S[n] /\ Par(T, k) = n /\ n \in S[n]
    <3>1. k # NULL /\ a \in S[k] /\ Sub(S, k) = S[k]
      BY <2>1 DEF Sub
    <3>2. Good(k)
      BY <1>1, <3>1
    <3> HIDE DEF Good
    <3> QED
      BY <3>1, <3>2, TreeNode
  <2>3. CASE a = k
    BY <2>2, <2>3
  <2>4. CASE a # k
    BY <2>2, <2>4
  <2> QED
    BY <2>3, <2>4
<1>2. L \subseteq Q
  <2> HIDE DEF Good
  <2>1. \A n \in L : (\A side \in Sides : Kid(T, n, side) \in Q \cup {NULL}) => n \in Q
    BY <1>1
  <2> HIDE DEF Q
  <2> QED
    BY <2>1, TreeInduct
<1> QED
  BY <1>2

LEMMA SubOf ==
    ASSUME NEW T, NEW A, NEW L, NEW sc, NEW r, NEW S, IsTree(T, A, L, sc, r, S),
           NEW b \in L, NEW a \in S[b]
    PROVE  /\ a \in L /\ S[a] \subseteq S[b]
           /\ a # b => /\ b \notin S[a]
                       /\ Par(T, a) \in S[b]
                       /\ \E side \in Sides : a \in Sub(S, Kid(T, b, side))
<1>1. a \in L /\ S[a] \subseteq S[b] /\ (a # b => Par(T, a) \in S[b])
  BY SubClosed, TreeNode DEF Sides
<1>2. ASSUME a # b PROVE b \notin S[a] /\ \E side \in Sides : a \in Sub(S, Kid(T, b, side))
  <2>1. PICK side \in Sides : a \in Sub(S, Kid(T, b, side))
    <3>1. "left" \in Sides /\ Other("left") \in Sides
      BY DEF Sides, Other
    <3> QED
      BY <1>2, <3>1, TreeNode
  <2>2. Kid(T, b, side) \in L /\ Sub(S, Kid(T, b, side)) = S[Kid(T, b, side)]
    BY <2>1, TreeNode DEF Sub
  <2>3. S[a] \subseteq S[Kid(T, b, side)]
    BY <2>1, <2>2, SubClosed
  <2>4. b \notin Sub(S, Kid(T, b, side))
    BY TreeNode
  <2> QED
    BY <2>1, <2>2, <2>3, <2>4
<1> QED
  BY <1>1, <1>2

(* The way back: a node's parent is in the tree and has it for a kid.        *)
LEMMA ParentOf ==
    ASSUME NEW T, NEW A, NEW L, NEW sc, NEW r, NEW S, IsTree(T, A, L, sc, r, S), NEW n \in L
    PROVE  LET p == Par(T, n) IN
           /\ r \in L /\ S[r] = L
           /\ p = NULL <=> n = r
           /\ p # NULL => /\ p \in L /\ n \in S[p] /\ p \notin S[n] /\ p # n
                          /\ SideOf(T, p, n) \in Sides /\ Kid(T, p, SideOf(T, p, n)) = n
                          /\ Kid(T, p, Other(SideOf(T, p, n))) # n
<1> DEFINE p == Par(T, n)
<1>1. r \in L /\ S[r] = L /\ Par(T, r) = NULL /\ NULL \notin L
  BY DEF IsTree, Sub, Typed
<1>2. ASSUME n # r PROVE p \in L /\ \E side \in Sides : Kid(T, p, side) = n
  BY <1>1, <1>2, SubClosed
<1>3. ASSUME p # NULL PROVE /\ p \in L /\ n \in S[p] /\ p \notin S[n] /\ p # n
                            /\ SideOf(T, p, n) \in Sides /\ Kid(T, p, SideOf(T, p, n)) = n
                            /\ Kid(T, p, Other(SideOf(T, p, n))) # n
  <2>1. PICK side \in Sides : Kid(T, p, side) = n
    BY <1>1, <1>2, <1>3
  <2>2. p \in L /\ n # NULL
    BY <1>1, <1>2, <1>3
  <2>3. Kid(T, p, Other(side)) # n /\ n \in S[p] /\ n # p
    <3>1. n \in S[n] /\ Sub(S, n) = S[n]
      BY <2>2, TreeNode DEF Sub, Sides
    <3> QED
      BY <2>1, <2>2, <3>1, TreeNode
  <2>4. SideOf(T, p, n) = side
    <3>1. SideOf(T, p, n) = IF Kid(T, p, "left") = n THEN "left" ELSE "right"
      BY DEF SideOf, Kid
    <3>2. CASE side = "left"
      BY <2>1, <2>3, <3>1, <3>2
    <3>3. CASE side = "right"
      BY <2>1, <2>3, <3>1, <3>3, TwoSides
    <3> QED
      BY <3>2, <3>3, TwoSides
  <2>5. p \notin S[n]
    BY <2>2, <2>3, SubOf
  <2> QED
    BY <2>1, <2>2, <2>3, <2>4, <2>5
<1> QED
  BY <1>1, <1>2, <1>3

LEMMA ParentIn ==
    ASSUME NEW T, NEW A, NEW L, NEW sc, NEW r, NEW S, IsTree(T, A, L, sc, r, S),
           NEW n \in L, Par(T, n) # NULL
    PROVE  Par(T, n) \in L /\ Par(T, n) # n
BY ParentOf

(* What is outside a subtree is before or after all of it.                   *)
LEMMA Convex ==
    ASSUME NEW T, NEW A, NEW L, NEW sc, NEW r, NEW S, IsTree(T, A, L, sc, r, S)
    PROVE  \A a \in L : \A m \in L \ S[a] :
              \E side \in Sides : \A x \in S[a] : On(sc, side, x, m)
<1> DEFINE Good(b) == \A a \in S[b] : \A m \in S[b] \ S[a] :
                         \E side \in Sides : \A x \in S[a] : On(sc, side, x, m)
           Q == {b \in L : Good(b)}
<1>1. ASSUME NEW n \in L, \A side \in Sides : Kid(T, n, side) \in Q \cup {NULL} PROVE Good(n)
  <2> SUFFICES ASSUME NEW a \in S[n], NEW m \in S[n] \ S[a]
               PROVE  \E side \in Sides : \A x \in S[a] : On(sc, side, x, m)
    OBVIOUS
  <2>1. a # n
    OBVIOUS
  <2>2. PICK side \in Sides : a \in Sub(S, Kid(T, n, side))
    BY <2>1, SubOf
  <2> DEFINE k == Kid(T, n, side)
             o == Other(side)
  <2>3. /\ k # NULL /\ a \in S[k] /\ Sub(S, k) = S[k] /\ k \in L /\ Good(k)
        /\ S[n] = {n} \cup S[k] \cup Sub(S, Kid(T, n, o))
    <3>1. k # NULL /\ a \in S[k] /\ Sub(S, k) = S[k]
      BY <2>2 DEF Sub
    <3>2. Good(k) /\ k \in L
      BY <1>1, <3>1
    <3> HIDE DEF Good
    <3> QED
      BY <3>1, <3>2, TreeNode
  <2>4. \A x \in S[a] : x \in S[k] /\ x \in L /\ On(sc, side, x, n)
    <3>1. S[a] \subseteq S[k]
      BY <2>3, SubOf
    <3> HIDE DEF Good
    <3> QED
      BY <2>3, <3>1, TreeNode
  <2>5. CASE m \in S[k]
    BY <2>3, <2>5
  <2>6. CASE m = n
    BY <2>4, <2>6
  <2>7. CASE m \in Sub(S, Kid(T, n, o))
    <3>1. m \in L /\ On(sc, o, m, n) /\ o \in Sides
      BY <2>7, TreeNode
    <3>2. Keys(L, sc)
      BY DEF IsTree
    <3>3. On(sc, side, n, m)
      BY <3>1, <3>2, OnOrder
    <3>4. \A x \in S[a] : On(sc, side, x, m)
      <4> HIDE DEF k, o
      <4> QED
        BY <2>4, <3>1, <3>2, <3>3, OnOrder
    <3> QED
      BY <3>4
  <2> QED
    BY <2>3, <2>5, <2>6, <2>7
<1>2. L \subseteq Q
  <2> HIDE DEF Good
  <2>1. \A n \in L : (\A side \in Sides : Kid(T, n, side) \in Q \cup {NULL}) => n \in Q
    BY <1>1
  <2> HIDE DEF Q
  <2> QED
    BY <2>1, TreeInduct
<1>3. ASSUME NEW a \in L PROVE r \in L /\ S[r] = L
  BY DEF IsTree, Sub
<1> QED
  BY <1>2, <1>3

-----------------------------------------------------------------------------
(* What the operations on links do, field by field.                          *)
LEMMA Fields ==
    ASSUME NEW T, NEW A, Typed(T, A), NEW n \in A
    PROVE  /\ n # NULL /\ Par(T, n) \in A \cup {NULL}
           /\ \A side \in Sides : Kid(T, n, side) \in A \cup {NULL}
           /\ T[n].parent = Par(T, n)
           /\ T[n].left = Kid(T, n, "left") /\ T[n].right = Kid(T, n, "right")
           /\ T[n].height = avl_height(T, n) /\ T[n].cnt = avl_cnt(T, n)
<1>1. T[n] \in Node(A) /\ n # NULL
  BY DEF Typed
<1>2. T[n].height = avl_height(T, n) /\ T[n].cnt = avl_cnt(T, n)
  BY <1>1 DEF avl_height, avl_cnt
<1>3. T[n].left = Kid(T, n, "left") /\ T[n].right = Kid(T, n, "right") /\ T[n].parent = Par(T, n)
  BY DEF Kid, Par
<1>4. Par(T, n) \in A \cup {NULL}
  BY <1>1 DEF Par, Node
<1>5. \A side \in Sides : Kid(T, n, side) \in A \cup {NULL}
  <2>1. Kid(T, n, "left") \in A \cup {NULL}
    BY <1>1 DEF Kid, Node
  <2>2. Kid(T, n, "right") \in A \cup {NULL}
    BY <1>1 DEF Kid, Node
  <2> QED
    BY <2>1, <2>2, TwoSides
<1> QED
  BY <1>1, <1>2, <1>3, <1>4, <1>5

LEMMA Heights ==
    ASSUME NEW T, NEW A, Typed(T, A), NEW n \in A \cup {NULL}
    PROVE  /\ avl_height(T, n) \in Nat /\ avl_cnt(T, n) \in Nat
           /\ n = NULL => avl_height(T, n) = 0 /\ avl_cnt(T, n) = 0
BY DEF Typed, Node, avl_height, avl_cnt

(* Everything but what the operation is there for stays.                     *)
SameKids(T, U, A)    == \A k \in A : \A side \in Sides : Kid(U, k, side) = Kid(T, k, side)
SameParents(T, U, A) == \A k \in A : Par(U, k) = Par(T, k)
SameHeights(T, U, A) == \A k \in A \cup {NULL} : /\ avl_height(U, k) = avl_height(T, k)
                                                 /\ avl_cnt(U, k) = avl_cnt(T, k)

(* U is what T is after the operation.                                       *)
PutsSide(T, U, n, side, m) == U = [T EXCEPT ![n][side] = m]
PutsParent(T, U, n, p)     == U = [T EXCEPT ![n].parent = p]
Updates(T, U, n)           == U = avl_update(T, n)
Adopts(T, U, n, p)         == U = SetParent(T, n, p)
Replaces(T, U, p, n, m)    == U = Replace(T, p, n, m)
Rotates(T, U, n, side)     == U = Rotate(T, n, side)

LEMMA SidePut ==
    ASSUME NEW T, NEW U, NEW n, NEW side, NEW m, PutsSide(T, U, n, side, m),
           NEW A, Typed(T, A), n \in A, side \in Sides, m \in A \cup {NULL}
    PROVE  /\ Typed(U, A) /\ SameParents(T, U, A) /\ SameHeights(T, U, A)
           /\ \A k \in A : \A s \in Sides :
                 Kid(U, k, s) = IF k = n /\ s = side THEN m ELSE Kid(T, k, s)
<1>1. CASE side = "left"
  <2>1. /\ Typed(U, A)
        /\ U[n].left = m /\ U[n].right = T[n].right
        /\ U[n].parent = T[n].parent /\ U[n].height = T[n].height /\ U[n].cnt = T[n].cnt
        /\ \A k \in A \ {n} : U[k] = T[k]
    BY <1>1 DEF PutsSide, Typed, Node
  <2>2. SameParents(T, U, A)
    BY <2>1 DEF SameParents, Par
  <2>3. SameHeights(T, U, A)
    BY <2>1 DEF SameHeights, avl_height, avl_cnt
  <2>4. Kid(U, n, "left") = m /\ Kid(U, n, "right") = Kid(T, n, "right")
    BY <2>1 DEF Kid
  <2>5. \A k \in A \ {n} : \A s \in Sides : Kid(U, k, s) = Kid(T, k, s)
    BY <2>1 DEF Kid
  <2> QED
    BY <1>1, <2>1, <2>2, <2>3, <2>4, <2>5, TwoSides
<1>2. CASE side = "right"
  <2>1. /\ Typed(U, A)
        /\ U[n].right = m /\ U[n].left = T[n].left
        /\ U[n].parent = T[n].parent /\ U[n].height = T[n].height /\ U[n].cnt = T[n].cnt
        /\ \A k \in A \ {n} : U[k] = T[k]
    BY <1>2 DEF PutsSide, Typed, Node
  <2>2. SameParents(T, U, A)
    BY <2>1 DEF SameParents, Par
  <2>3. SameHeights(T, U, A)
    BY <2>1 DEF SameHeights, avl_height, avl_cnt
  <2>4. Kid(U, n, "right") = m /\ Kid(U, n, "left") = Kid(T, n, "left")
    BY <2>1 DEF Kid
  <2>5. \A k \in A \ {n} : \A s \in Sides : Kid(U, k, s) = Kid(T, k, s)
    BY <2>1 DEF Kid
  <2> QED
    BY <1>2, <2>1, <2>2, <2>3, <2>4, <2>5, TwoSides
<1> QED
  BY <1>1, <1>2, TwoSides

LEMMA ParentPut ==
    ASSUME NEW T, NEW U, NEW n, NEW p, PutsParent(T, U, n, p),
           NEW A, Typed(T, A), n \in A, p \in A \cup {NULL}
    PROVE  /\ Typed(U, A) /\ SameKids(T, U, A) /\ SameHeights(T, U, A)
           /\ \A k \in A : Par(U, k) = IF k = n THEN p ELSE Par(T, k)
<1>1. /\ Typed(U, A)
      /\ U[n].left = T[n].left /\ U[n].right = T[n].right
      /\ U[n].parent = p /\ U[n].height = T[n].height /\ U[n].cnt = T[n].cnt
      /\ \A k \in A \ {n} : U[k] = T[k]
  BY DEF PutsParent, Typed, Node
<1>2. \A k \in A : Par(U, k) = IF k = n THEN p ELSE Par(T, k)
  BY <1>1 DEF Par
<1>3. SameHeights(T, U, A)
  BY <1>1 DEF SameHeights, avl_height, avl_cnt
<1>4. SameKids(T, U, A)
  <2>1. Kid(U, n, "left") = Kid(T, n, "left") /\ Kid(U, n, "right") = Kid(T, n, "right")
    BY <1>1 DEF Kid
  <2>2. \A k \in A \ {n} : \A s \in Sides : Kid(U, k, s) = Kid(T, k, s)
    BY <1>1 DEF Kid
  <2> QED
    BY <2>1, <2>2, TwoSides DEF SameKids
<1> QED
  BY <1>1, <1>2, <1>3, <1>4

LEMMA LargerType ==
    ASSUME NEW i \in Nat, NEW j \in Nat
    PROVE  Larger(i, j) \in Nat /\ Larger(i, j) = Larger(j, i)
BY DEF Larger

HeightOf(T, n, side) ==
    1 + Larger(avl_height(T, Kid(T, n, side)), avl_height(T, Kid(T, n, Other(side))))
CntOf(T, n, side) ==
    1 + avl_cnt(T, Kid(T, n, side)) + avl_cnt(T, Kid(T, n, Other(side)))

(* The two sides count alike.                                                *)
LEMMA SidesAlike ==
    ASSUME NEW T, NEW A, Typed(T, A), NEW n \in A, NEW side \in Sides
    PROVE  /\ HeightOf(T, n, side) \in Nat /\ HeightOf(T, n, side) = HeightOf(T, n, "left")
           /\ CntOf(T, n, side) \in Nat /\ CntOf(T, n, side) = CntOf(T, n, "left")
<1> DEFINE a == avl_height(T, Kid(T, n, side))
           b == avl_height(T, Kid(T, n, Other(side)))
           c == avl_cnt(T, Kid(T, n, side))
           d == avl_cnt(T, Kid(T, n, Other(side)))
<1>1. a \in Nat /\ b \in Nat /\ c \in Nat /\ d \in Nat
  <2>1. Kid(T, n, side) \in A \cup {NULL} /\ Kid(T, n, Other(side)) \in A \cup {NULL}
    BY Fields, TwoSides
  <2> QED
    BY <2>1, Heights
<1>2. Larger(a, b) \in Nat /\ Larger(a, b) = Larger(b, a) /\ 1 + c + d = 1 + d + c
  BY <1>1, LargerType
<1>3. HeightOf(T, n, side) = 1 + Larger(a, b) /\ CntOf(T, n, side) = 1 + c + d
  BY DEF HeightOf, CntOf
<1>4. HeightOf(T, n, side) \in Nat /\ CntOf(T, n, side) \in Nat
  BY <1>1, <1>2, <1>3
<1>5. CASE side = "left"
  BY <1>4, <1>5
<1>6. CASE side = "right"
  <2>1. HeightOf(T, n, "left") = 1 + Larger(b, a) /\ CntOf(T, n, "left") = 1 + d + c
    BY <1>6, TwoSides DEF HeightOf, CntOf
  <2> QED
    BY <1>2, <1>3, <1>4, <2>1
<1> QED
  BY <1>5, <1>6, TwoSides

LEMMA Updated ==
    ASSUME NEW T, NEW U, NEW n, Updates(T, U, n), NEW A, Typed(T, A), n \in A
    PROVE  /\ Typed(U, A) /\ SameKids(T, U, A) /\ SameParents(T, U, A)
           /\ \A side \in Sides : /\ avl_height(U, n) = HeightOf(T, n, side)
                                  /\ avl_cnt(U, n) = CntOf(T, n, side)
           /\ \A k \in A \cup {NULL} : k # n => /\ avl_height(U, k) = avl_height(T, k)
                                                /\ avl_cnt(U, k) = avl_cnt(T, k)
<1> DEFINE h == HeightOf(T, n, "left")
           c == CntOf(T, n, "left")
<1>1. h \in Nat /\ c \in Nat /\ \A side \in Sides : h = HeightOf(T, n, side) /\ c = CntOf(T, n, side)
  BY SidesAlike, TwoSides
<1>2. U = [T EXCEPT ![n].height = h, ![n].cnt = c]
  <2>1. Kid(T, n, "left") = T[n].left /\ Kid(T, n, "right") = T[n].right
    BY DEF Kid
  <2>2. /\ h = 1 + Larger(avl_height(T, T[n].left), avl_height(T, T[n].right))
        /\ c = 1 + avl_cnt(T, T[n].left) + avl_cnt(T, T[n].right)
    BY <2>1, TwoSides DEF HeightOf, CntOf
  <2> HIDE DEF h, c
  <2> QED
    BY <2>2 DEF Updates, avl_update
<1> HIDE DEF h, c
<1> DEFINE V == [T EXCEPT ![n].height = h]
<1>3. /\ Typed(V, A) /\ V[n].height = h
      /\ V[n].parent = T[n].parent /\ V[n].left = T[n].left /\ V[n].right = T[n].right
      /\ \A k \in A \ {n} : V[k] = T[k]
  BY <1>1 DEF Typed, Node
<1>4. U = [V EXCEPT ![n].cnt = c]
  BY <1>2
<1> HIDE DEF V
<1>5. /\ Typed(U, A) /\ U[n].height = V[n].height /\ U[n].cnt = c
      /\ U[n].parent = V[n].parent /\ U[n].left = V[n].left /\ U[n].right = V[n].right
      /\ \A k \in A \ {n} : U[k] = V[k]
  BY <1>1, <1>3, <1>4 DEF Typed, Node
<1>6. avl_height(U, n) = h /\ avl_cnt(U, n) = c
  BY <1>3, <1>5, Fields
<1>7. \A k \in A \cup {NULL} : k # n => /\ avl_height(U, k) = avl_height(T, k)
                                        /\ avl_cnt(U, k) = avl_cnt(T, k)
  BY <1>3, <1>5 DEF avl_height, avl_cnt
<1>8. SameParents(T, U, A)
  BY <1>3, <1>5 DEF SameParents, Par
<1>9. SameKids(T, U, A)
  <2>1. Kid(U, n, "left") = Kid(T, n, "left") /\ Kid(U, n, "right") = Kid(T, n, "right")
    BY <1>3, <1>5 DEF Kid
  <2>2. \A k \in A \ {n} : \A s \in Sides : Kid(U, k, s) = Kid(T, k, s)
    BY <1>3, <1>5 DEF Kid
  <2> QED
    BY <2>1, <2>2, TwoSides DEF SameKids
<1> QED
  BY <1>1, <1>5, <1>6, <1>7, <1>8, <1>9

LEMMA Adopted ==
    ASSUME NEW T, NEW U, NEW n, NEW p, Adopts(T, U, n, p),
           NEW A, Typed(T, A), n \in A \cup {NULL}, p \in A \cup {NULL}
    PROVE  /\ Typed(U, A) /\ SameKids(T, U, A) /\ SameHeights(T, U, A)
           /\ \A k \in A : Par(U, k) = IF k = n THEN p ELSE Par(T, k)
<1>1. CASE n = NULL
  <2>1. U = T
    BY <1>1 DEF Adopts, SetParent
  <2>2. NULL \notin A
    BY DEF Typed
  <2> QED
    BY <1>1, <2>1, <2>2 DEF SameKids, SameHeights
<1>2. CASE n # NULL
  <2>1. PutsParent(T, U, n, p) /\ n \in A
    BY <1>2 DEF Adopts, SetParent, PutsParent
  <2> QED
    BY <2>1, ParentPut
<1> QED
  BY <1>1, <1>2

LEMMA Replaced ==
    ASSUME NEW T, NEW U, NEW p, NEW n, NEW m, Replaces(T, U, p, n, m),
           NEW A, Typed(T, A), p \in A \cup {NULL}, m \in A \cup {NULL}
    PROVE  /\ Typed(U, A) /\ SameParents(T, U, A) /\ SameHeights(T, U, A)
           /\ \A k \in A : \A s \in Sides :
                 Kid(U, k, s) = IF k = p /\ s = SideOf(T, p, n) THEN m ELSE Kid(T, k, s)
<1>1. CASE p = NULL
  <2>1. U = T
    BY <1>1 DEF Replaces, Replace
  <2>2. NULL \notin A
    BY DEF Typed
  <2> QED
    BY <1>1, <2>1, <2>2 DEF SameParents, SameHeights
<1>2. CASE p # NULL
  <2>1. SideOf(T, p, n) \in Sides
    BY DEF SideOf, Sides
  <2>2. PutsSide(T, U, p, SideOf(T, p, n), m) /\ p \in A
    BY <1>2 DEF Replaces, Replace, PutsSide
  <2> QED
    BY <2>1, <2>2, SidePut
<1> QED
  BY <1>1, <1>2

(* Rotate leaves the link from above to its caller.                          *)
LEMMA Rotated ==
    ASSUME NEW T, NEW U, NEW n, NEW side, Rotates(T, U, n, side),
           NEW A, Typed(T, A), n \in A, side \in Sides,
           LET m == Kid(T, n, Other(side))
               inner == Kid(T, m, side)
           IN  m # NULL /\ m # n /\ inner # n /\ inner # m /\ Kid(T, m, Other(side)) # n
    PROVE  LET o == Other(side)
               m == Kid(T, n, o)
               inner == Kid(T, m, side)
           IN
           /\ Typed(U, A)
           /\ \A k \in A : \A s \in Sides :
                 Kid(U, k, s) = IF k = n /\ s = o THEN inner
                                ELSE IF k = m /\ s = side THEN n ELSE Kid(T, k, s)
           /\ \A k \in A :
                 Par(U, k) = IF k = n THEN m ELSE IF k = m THEN Par(T, n)
                             ELSE IF k = inner THEN n ELSE Par(T, k)
           /\ avl_height(U, n) = 1 + Larger(avl_height(T, Kid(T, n, side)), avl_height(T, inner))
           /\ avl_cnt(U, n) = 1 + avl_cnt(T, Kid(T, n, side)) + avl_cnt(T, inner)
           /\ avl_height(U, m) = 1 + Larger(avl_height(U, n), avl_height(T, Kid(T, m, o)))
           /\ avl_cnt(U, m) = 1 + avl_cnt(U, n) + avl_cnt(T, Kid(T, m, o))
           /\ \A k \in A \cup {NULL} : k # n /\ k # m => /\ avl_height(U, k) = avl_height(T, k)
                                                         /\ avl_cnt(U, k) = avl_cnt(T, k)
<1> DEFINE o == Other(side)
           m == Kid(T, n, o)
           inner == Kid(T, m, side)
           p == Par(T, n)
           A1 == [T EXCEPT ![n][o] = inner]
           A2 == [A1 EXCEPT ![n].parent = m]
           A3 == [A2 EXCEPT ![m][side] = n]
           A4 == [A3 EXCEPT ![m].parent = p]
           A5 == SetParent(A4, inner, n)
           A6 == avl_update(A5, n)
<1>1. /\ PutsSide(T, A1, n, o, inner) /\ PutsParent(A1, A2, n, m)
      /\ PutsSide(A2, A3, m, side, n) /\ PutsParent(A3, A4, m, p)
      /\ Adopts(A4, A5, inner, n) /\ Updates(A5, A6, n)
  BY DEF PutsSide, PutsParent, Adopts, Updates
<1>0. Updates(A6, U, m)
  BY DEF Rotates, Updates, Rotate, Kid, Par
<1> HIDE DEF A1, A2, A3, A4, A5, A6
<1>2. /\ o \in Sides /\ side \in Sides /\ Other(o) = side /\ o # side
      /\ m \in A /\ inner \in A \cup {NULL} /\ p \in A \cup {NULL} /\ n # NULL
      /\ Kid(T, m, o) \in A \cup {NULL} /\ Kid(T, n, side) \in A \cup {NULL}
      /\ \A s \in Sides : s = side \/ s = o
  BY Fields, TwoSides
<1>3. /\ Typed(A1, A) /\ SameParents(T, A1, A) /\ SameHeights(T, A1, A)
      /\ \A k \in A : \A s \in Sides :
            Kid(A1, k, s) = IF k = n /\ s = o THEN inner ELSE Kid(T, k, s)
  BY <1>1, <1>2, SidePut
<1>4. /\ Typed(A2, A) /\ SameKids(A1, A2, A) /\ SameHeights(A1, A2, A)
      /\ \A k \in A : Par(A2, k) = IF k = n THEN m ELSE Par(A1, k)
  BY <1>1, <1>2, <1>3, ParentPut
<1>5. /\ Typed(A3, A) /\ SameParents(A2, A3, A) /\ SameHeights(A2, A3, A)
      /\ \A k \in A : \A s \in Sides :
            Kid(A3, k, s) = IF k = m /\ s = side THEN n ELSE Kid(A2, k, s)
  BY <1>1, <1>2, <1>4, SidePut
<1>6. /\ Typed(A4, A) /\ SameKids(A3, A4, A) /\ SameHeights(A3, A4, A)
      /\ \A k \in A : Par(A4, k) = IF k = m THEN p ELSE Par(A3, k)
  BY <1>1, <1>2, <1>5, ParentPut
<1>7. /\ Typed(A5, A) /\ SameKids(A4, A5, A) /\ SameHeights(A4, A5, A)
      /\ \A k \in A : Par(A5, k) = IF k = inner THEN n ELSE Par(A4, k)
  BY <1>1, <1>2, <1>6, Adopted
<1>8. /\ \A k \in A : \A s \in Sides :
            Kid(A5, k, s) = IF k = n /\ s = o THEN inner
                            ELSE IF k = m /\ s = side THEN n ELSE Kid(T, k, s)
      /\ \A k \in A :
            Par(A5, k) = IF k = n THEN m ELSE IF k = m THEN p
                         ELSE IF k = inner THEN n ELSE Par(T, k)
      /\ \A k \in A \cup {NULL} : /\ avl_height(A5, k) = avl_height(T, k)
                                  /\ avl_cnt(A5, k) = avl_cnt(T, k)
  <2>1. \A k \in A : \A s \in Sides :
            Kid(A5, k, s) = IF k = n /\ s = o THEN inner
                            ELSE IF k = m /\ s = side THEN n ELSE Kid(T, k, s)
    BY <1>2, <1>3, <1>4, <1>5, <1>6, <1>7 DEF SameKids
  <2>2. \A k \in A :
            Par(A5, k) = IF k = n THEN m ELSE IF k = m THEN p
                         ELSE IF k = inner THEN n ELSE Par(T, k)
    BY <1>2, <1>3, <1>4, <1>5, <1>6, <1>7 DEF SameParents
  <2>3. \A k \in A \cup {NULL} : /\ avl_height(A5, k) = avl_height(T, k)
                                 /\ avl_cnt(A5, k) = avl_cnt(T, k)
    BY <1>3, <1>4, <1>5, <1>6, <1>7 DEF SameHeights
  <2> QED
    BY <2>1, <2>2, <2>3
<1>9. /\ Typed(A6, A) /\ SameKids(A5, A6, A) /\ SameParents(A5, A6, A)
      /\ avl_height(A6, n) = HeightOf(A5, n, side) /\ avl_cnt(A6, n) = CntOf(A5, n, side)
      /\ \A k \in A \cup {NULL} : k # n => /\ avl_height(A6, k) = avl_height(A5, k)
                                           /\ avl_cnt(A6, k) = avl_cnt(A5, k)
  BY <1>1, <1>2, <1>7, Updated
<1>10. /\ Typed(U, A) /\ SameKids(A6, U, A) /\ SameParents(A6, U, A)
       /\ avl_height(U, m) = HeightOf(A6, m, side) /\ avl_cnt(U, m) = CntOf(A6, m, side)
       /\ \A k \in A \cup {NULL} : k # m => /\ avl_height(U, k) = avl_height(A6, k)
                                            /\ avl_cnt(U, k) = avl_cnt(A6, k)
  BY <1>0, <1>2, <1>9, Updated
<1>11. /\ Kid(A5, n, side) = Kid(T, n, side) /\ Kid(A5, n, o) = inner
       /\ Kid(A6, m, side) = n /\ Kid(A6, m, o) = Kid(T, m, o)
  BY <1>2, <1>8, <1>9 DEF SameKids
<1>12. /\ avl_height(U, n) = 1 + Larger(avl_height(T, Kid(T, n, side)), avl_height(T, inner))
       /\ avl_cnt(U, n) = 1 + avl_cnt(T, Kid(T, n, side)) + avl_cnt(T, inner)
  BY <1>2, <1>8, <1>9, <1>10, <1>11 DEF HeightOf, CntOf
<1>13. avl_height(U, n) = avl_height(A6, n) /\ avl_cnt(U, n) = avl_cnt(A6, n)
  BY <1>10
<1>14. /\ avl_height(A6, Kid(T, m, o)) = avl_height(T, Kid(T, m, o))
       /\ avl_cnt(A6, Kid(T, m, o)) = avl_cnt(T, Kid(T, m, o))
  BY <1>2, <1>8, <1>9
<1>15. /\ avl_height(U, m) = 1 + Larger(avl_height(U, n), avl_height(T, Kid(T, m, o)))
       /\ avl_cnt(U, m) = 1 + avl_cnt(U, n) + avl_cnt(T, Kid(T, m, o))
  BY <1>10, <1>11, <1>13, <1>14 DEF HeightOf, CntOf
<1>16. \A k \in A \cup {NULL} : k # n /\ k # m => /\ avl_height(U, k) = avl_height(T, k)
                                                  /\ avl_cnt(U, k) = avl_cnt(T, k)
  BY <1>8, <1>9, <1>10
<1>17. /\ \A k \in A : \A s \in Sides :
             Kid(U, k, s) = IF k = n /\ s = o THEN inner
                            ELSE IF k = m /\ s = side THEN n ELSE Kid(T, k, s)
       /\ \A k \in A :
             Par(U, k) = IF k = n THEN m ELSE IF k = m THEN p
                         ELSE IF k = inner THEN n ELSE Par(T, k)
  BY <1>8, <1>9, <1>10 DEF SameKids, SameParents
<1> QED
  BY <1>10, <1>12, <1>15, <1>16, <1>17

-----------------------------------------------------------------------------
(* A rotation keeps the tree.                                                *)

(* U is T with n turned under its kid m on the other side, and m where n was.*)
Turned(T, U, A, n, side) ==
    LET o == Other(side)
        m == Kid(T, n, o)
        inner == Kid(T, m, side)
        p == Par(T, n)
    IN
    /\ Typed(U, A)
    /\ \A k \in A : \A s \in Sides :
          Kid(U, k, s) = IF k = n /\ s = o THEN inner
                         ELSE IF k = m /\ s = side THEN n
                         ELSE IF k = p /\ s = SideOf(T, p, n) THEN m ELSE Kid(T, k, s)
    /\ \A k \in A :
          Par(U, k) = IF k = n THEN m ELSE IF k = m THEN p
                      ELSE IF k = inner THEN n ELSE Par(T, k)
    /\ avl_height(U, n) = 1 + Larger(avl_height(T, Kid(T, n, side)), avl_height(T, inner))
    /\ avl_cnt(U, n) = 1 + avl_cnt(T, Kid(T, n, side)) + avl_cnt(T, inner)
    /\ avl_height(U, m) = 1 + Larger(avl_height(U, n), avl_height(T, Kid(T, m, o)))
    /\ avl_cnt(U, m) = 1 + avl_cnt(U, n) + avl_cnt(T, Kid(T, m, o))
    /\ \A k \in A \cup {NULL} : k # n /\ k # m => /\ avl_height(U, k) = avl_height(T, k)
                                                  /\ avl_cnt(U, k) = avl_cnt(T, k)

(* Who is who around a node and its kid.                                     *)
LEMMA Around ==
    ASSUME NEW T, NEW A, NEW L, NEW sc, NEW r, NEW S, IsTree(T, A, L, sc, r, S),
           NEW n, NEW side, n \in L, side \in Sides, Kid(T, n, Other(side)) # NULL
    PROVE  LET o == Other(side)
               m == Kid(T, n, o)
               inner == Kid(T, m, side)
               p == Par(T, n)
           IN  /\ Typed(T, A) /\ n \in A /\ m \in A /\ m \in L /\ m # NULL /\ m # n
               /\ inner \in L \cup {NULL} /\ inner # n /\ inner # m
               /\ Kid(T, m, o) # n /\ Kid(T, m, o) # m
               /\ p \in L \cup {NULL} /\ p # n /\ p # m /\ (p # NULL => p # inner)
               /\ Kid(T, m, o) # NULL => Kid(T, m, o) # inner
<1> DEFINE o == Other(side)
           m == Kid(T, n, o)
           inner == Kid(T, m, side)
           p == Par(T, n)
<1>1. o \in Sides /\ Other(o) = side
  BY TwoSides
<1>2. Typed(T, A) /\ L \subseteq A
  BY DEF IsTree
<1>3. m \in L /\ m # n /\ m # NULL /\ Par(T, m) = n /\ n \notin S[m] /\ S[m] \subseteq S[n]
  <2>1. m \in L /\ m # NULL
    BY <1>1, TreeNode
  <2>2. Sub(S, m) = S[m]
    BY <2>1 DEF Sub
  <2> QED
    BY <1>1, <2>1, <2>2, TreeNode
<1>4. \A s \in Sides : Kid(T, m, s) # NULL => Kid(T, m, s) \in L /\ Kid(T, m, s) \in S[m]
  <2>1. \A s \in Sides : Kid(T, m, s) # NULL =>
            /\ Kid(T, m, s) \in L /\ Kid(T, m, s) \in S[Kid(T, m, s)]
            /\ Sub(S, Kid(T, m, s)) = S[Kid(T, m, s)]
    BY <1>3, TreeNode DEF Sub
  <2> QED
    BY <1>3, <2>1, TreeNode
<1>5. \A s \in Sides : Kid(T, m, s) # m /\ Kid(T, m, s) # n
  <2>1. \A s \in Sides : Kid(T, m, s) # NULL => Kid(T, m, s) # m
    BY <1>3, TreeNode
  <2>2. n # NULL
    BY <1>2 DEF Typed
  <2> QED
    BY <1>3, <1>4, <2>1, <2>2
<1>6. p \in L \cup {NULL} /\ p # n /\ (p # NULL => p \notin S[n])
  <2>1. n # NULL
    BY <1>2 DEF Typed
  <2> QED
    BY <2>1, ParentOf
<1>7. p # m /\ (p # NULL => p # inner)
  <2>1. m \in S[n] /\ (inner # NULL => inner \in S[n])
    <3>1. m \in S[m]
      BY <1>1, <1>3, TreeNode
    <3> QED
      BY <1>1, <1>3, <1>4, <3>1
  <2> QED
    BY <1>3, <1>6, <2>1
<1>8. Kid(T, m, o) # NULL => Kid(T, m, o) # inner
  BY <1>1, <1>3, TreeNode
<1> QED
  BY <1>1, <1>2, <1>3, <1>4, <1>5, <1>6, <1>7, <1>8

LEMMA RotateTurns ==
    ASSUME NEW T, NEW A, NEW L, NEW sc, NEW r, NEW S, IsTree(T, A, L, sc, r, S),
           NEW n, NEW side, n \in L, side \in Sides, Kid(T, n, Other(side)) # NULL,
           NEW V, Rotates(T, V, n, side),
           NEW U, Replaces(V, U, Par(T, n), n, Kid(T, n, Other(side)))
    PROVE  Turned(T, U, A, n, side)
<1> DEFINE o == Other(side)
           m == Kid(T, n, o)
           inner == Kid(T, m, side)
           p == Par(T, n)
<1>1. /\ Typed(T, A) /\ n \in A /\ m \in A /\ m # NULL /\ m # n
      /\ inner # n /\ inner # m /\ Kid(T, m, o) # n
      /\ p # n /\ p # m /\ (p # NULL => p # inner) /\ p \in A \cup {NULL}
  <2>1. L \subseteq A
    BY DEF IsTree
  <2> QED
    BY <2>1, Around
<1>2. /\ Typed(V, A)
      /\ \A k \in A : \A s \in Sides :
            Kid(V, k, s) = IF k = n /\ s = o THEN inner
                           ELSE IF k = m /\ s = side THEN n ELSE Kid(T, k, s)
      /\ \A k \in A :
            Par(V, k) = IF k = n THEN m ELSE IF k = m THEN p
                        ELSE IF k = inner THEN n ELSE Par(T, k)
      /\ avl_height(V, n) = 1 + Larger(avl_height(T, Kid(T, n, side)), avl_height(T, inner))
      /\ avl_cnt(V, n) = 1 + avl_cnt(T, Kid(T, n, side)) + avl_cnt(T, inner)
      /\ avl_height(V, m) = 1 + Larger(avl_height(V, n), avl_height(T, Kid(T, m, o)))
      /\ avl_cnt(V, m) = 1 + avl_cnt(V, n) + avl_cnt(T, Kid(T, m, o))
      /\ \A k \in A \cup {NULL} : k # n /\ k # m => /\ avl_height(V, k) = avl_height(T, k)
                                                    /\ avl_cnt(V, k) = avl_cnt(T, k)
  BY <1>1, Rotated
<1>3. p # NULL => SideOf(V, p, n) = SideOf(T, p, n)
  <2>1. p # NULL => Kid(V, p, "left") = Kid(T, p, "left")
    BY <1>1, <1>2, TwoSides
  <2>2. /\ SideOf(V, p, n) = IF Kid(V, p, "left") = n THEN "left" ELSE "right"
        /\ SideOf(T, p, n) = IF Kid(T, p, "left") = n THEN "left" ELSE "right"
    BY DEF SideOf, Kid
  <2> QED
    BY <2>1, <2>2
<1>4. /\ Typed(U, A) /\ SameParents(V, U, A) /\ SameHeights(V, U, A)
      /\ \A k \in A : \A s \in Sides :
            Kid(U, k, s) = IF k = p /\ s = SideOf(V, p, n) THEN m ELSE Kid(V, k, s)
  BY <1>1, <1>2, Replaced
<1>5. NULL \notin A
  BY <1>1 DEF Typed
<1>6. \A k \in A : \A s \in Sides :
          Kid(U, k, s) = IF k = n /\ s = o THEN inner
                         ELSE IF k = m /\ s = side THEN n
                         ELSE IF k = p /\ s = SideOf(T, p, n) THEN m ELSE Kid(T, k, s)
  BY <1>1, <1>2, <1>3, <1>4, <1>5
<1>7. \A k \in A :
          Par(U, k) = IF k = n THEN m ELSE IF k = m THEN p
                      ELSE IF k = inner THEN n ELSE Par(T, k)
  BY <1>2, <1>4 DEF SameParents
<1>8. \A k \in A \cup {NULL} : avl_height(U, k) = avl_height(V, k) /\ avl_cnt(U, k) = avl_cnt(V, k)
  BY <1>4 DEF SameHeights
<1>9. /\ avl_height(U, n) = 1 + Larger(avl_height(T, Kid(T, n, side)), avl_height(T, inner))
      /\ avl_cnt(U, n) = 1 + avl_cnt(T, Kid(T, n, side)) + avl_cnt(T, inner)
      /\ avl_height(U, m) = 1 + Larger(avl_height(U, n), avl_height(T, Kid(T, m, o)))
      /\ avl_cnt(U, m) = 1 + avl_cnt(U, n) + avl_cnt(T, Kid(T, m, o))
      /\ \A k \in A \cup {NULL} : k # n /\ k # m => /\ avl_height(U, k) = avl_height(T, k)
                                                    /\ avl_cnt(U, k) = avl_cnt(T, k)
  BY <1>1, <1>2, <1>8
<1> QED
  BY <1>4, <1>6, <1>7, <1>9 DEF Turned

(* Only the nodes that are linked matter.                                    *)
LEMMA SameTree ==
    ASSUME NEW T, NEW A, NEW L, NEW sc, NEW r, NEW S, IsTree(T, A, L, sc, r, S),
           NEW U, NEW B, NEW sc2, Typed(U, B), L \subseteq B,
           \A k \in L : sc2[k] = sc[k] /\ Par(U, k) = Par(T, k),
           \A k \in L : \A side \in Sides : Kid(U, k, side) = Kid(T, k, side)
    PROVE  IsTree(U, B, L, sc2, r, S)
<1>1. IsFiniteSet(L) /\ Keys(L, sc) /\ S \in [L -> SUBSET L] /\ r \in L \cup {NULL} /\ Sub(S, r) = L
  BY DEF IsTree
<1>2. Keys(L, sc2)
  BY <1>1 DEF Keys
<1>3. \A n \in L : S[n] = {n} \cup Sub(S, Kid(U, n, "left")) \cup Sub(S, Kid(U, n, "right"))
  <2>1. \A n \in L : S[n] = {n} \cup Sub(S, Kid(T, n, "left")) \cup Sub(S, Kid(T, n, "right"))
    BY DEF IsTree
  <2> QED
    BY <2>1, TwoSides
<1>4. r # NULL => Par(U, r) = NULL
  BY <1>1 DEF IsTree
<1>5. ASSUME NEW n \in L, NEW side \in Sides, Kid(U, n, side) # NULL
      PROVE  /\ Kid(U, n, side) \in L /\ Par(U, Kid(U, n, side)) = n
             /\ \A m \in S[Kid(U, n, side)] : On(sc2, side, m, n)
  <2> DEFINE k == Kid(T, n, side)
  <2>1. k = Kid(U, n, side) /\ k \in L /\ Par(T, k) = n /\ \A m \in S[k] : On(sc, side, m, n)
    BY <1>5 DEF IsTree
  <2>2. \A m \in S[k] : m \in L
    BY <1>1, <2>1
  <2>3. \A m \in S[k] : On(sc2, side, m, n)
    BY <2>1, <2>2 DEF On
  <2> QED
    BY <2>1, <2>3
<1> QED
  BY <1>1, <1>2, <1>3, <1>4, <1>5 DEF IsTree

(* Rotating keeps the tree; what was below the one is now below the other.   *)
TurnedSub(T, S, n, side) ==
    LET m == Kid(T, n, Other(side)) IN
    [S EXCEPT ![n] = {n} \cup Sub(S, Kid(T, n, side)) \cup Sub(S, Kid(T, m, side)), ![m] = S[n]]

LEMMA RotateTree ==
    ASSUME NEW T, NEW A, NEW L, NEW sc, NEW r, NEW S, IsTree(T, A, L, sc, r, S),
           NEW n, NEW side, n \in L, side \in Sides, Kid(T, n, Other(side)) # NULL,
           NEW U, Turned(T, U, A, n, side)
    PROVE  IsTree(U, A, L, sc, IF Par(T, n) = NULL THEN Kid(T, n, Other(side)) ELSE r,
                  TurnedSub(T, S, n, side))
<1> DEFINE o == Other(side)
           m == Kid(T, n, o)
           inner == Kid(T, m, side)
           outer == Kid(T, n, side)
           far == Kid(T, m, o)
           p == Par(T, n)
           R == TurnedSub(T, S, n, side)
           top == IF p = NULL THEN m ELSE r
<1>1. /\ Typed(T, A) /\ n \in A /\ m \in A /\ m \in L /\ m # NULL /\ m # n
      /\ inner \in L \cup {NULL} /\ inner # n /\ inner # m
      /\ far # n /\ far # m
      /\ p \in L \cup {NULL} /\ p # n /\ p # m /\ (p # NULL => p # inner)
      /\ far # NULL => far # inner
  BY Around
<1>2. /\ o \in Sides /\ Other(o) = side /\ o # side /\ \A s \in Sides : s = side \/ s = o
      /\ NULL \notin L /\ L \subseteq A /\ IsFiniteSet(L) /\ Keys(L, sc)
      /\ S \in [L -> SUBSET L] /\ Typed(U, A)
  BY TwoSides DEF IsTree, Typed, Turned
<1>3. /\ \A k \in A : \A s \in Sides :
            Kid(U, k, s) = IF k = n /\ s = o THEN inner
                           ELSE IF k = m /\ s = side THEN n
                           ELSE IF k = p /\ s = SideOf(T, p, n) THEN m ELSE Kid(T, k, s)
      /\ \A k \in A :
            Par(U, k) = IF k = n THEN m ELSE IF k = m THEN p
                        ELSE IF k = inner THEN n ELSE Par(T, k)
  BY DEF Turned
(* The subtrees.                                                             *)
<1>4. /\ S[n] = {n} \cup Sub(S, outer) \cup S[m]
      /\ S[m] = {m} \cup Sub(S, inner) \cup Sub(S, far)
      /\ outer \in L \cup {NULL} /\ far \in L \cup {NULL} /\ outer # n /\ outer # m
      /\ outer # NULL => Par(T, outer) = n
      /\ inner # NULL => Par(T, inner) = m
      /\ far # NULL => Par(T, far) = m
  <2>1. Sub(S, m) = S[m]
    BY <1>1 DEF Sub
  <2>2. S[n] = {n} \cup Sub(S, outer) \cup Sub(S, m)
    BY TreeNode
  <2>3. S[m] = {m} \cup Sub(S, inner) \cup Sub(S, far)
    BY <1>1, TreeNode
  <2>4. /\ outer \in L \cup {NULL}
        /\ outer # NULL => Par(T, outer) = n /\ outer # n /\ outer # m
    BY TreeNode
  <2>5. far \in L \cup {NULL} /\ (far # NULL => Par(T, far) = m)
    BY <1>1, <1>2, TreeNode
  <2>6. inner # NULL => Par(T, inner) = m
    BY <1>1, TreeNode
  <2>7. outer # n /\ outer # m
    BY <1>1, <1>2, <2>4
  <2> QED
    BY <2>1, <2>2, <2>3, <2>4, <2>5, <2>6, <2>7
<1>5. /\ \A x \in Sub(S, outer) : x \in L /\ On(sc, side, x, n)
      /\ \A x \in S[m] : x \in L /\ On(sc, o, x, n)
      /\ \A x \in Sub(S, inner) : x \in L /\ On(sc, side, x, m)
      /\ \A x \in Sub(S, far) : x \in L /\ On(sc, o, x, m)
      /\ m \in S[m]
  <2>1. Sub(S, m) = S[m]
    BY <1>1 DEF Sub
  <2>2. \A x \in Sub(S, outer) : x \in L /\ On(sc, side, x, n)
    BY TreeNode
  <2>3. \A x \in S[m] : x \in L /\ On(sc, o, x, n)
    BY <1>2, <2>1, TreeNode
  <2>4. \A x \in Sub(S, inner) : x \in L /\ On(sc, side, x, m)
    BY <1>1, TreeNode
  <2>5. \A x \in Sub(S, far) : x \in L /\ On(sc, o, x, m)
    BY <1>1, <1>2, TreeNode
  <2> QED
    BY <1>4, <2>2, <2>3, <2>4, <2>5
<1>6. \A x \in {n} \cup Sub(S, outer) \cup Sub(S, inner) : x \in L /\ On(sc, side, x, m)
  <2>1. On(sc, o, m, n)
    BY <1>5
  <2> HIDE DEF o, m, outer, inner
  <2>2. On(sc, side, n, m)
    BY <1>1, <1>2, <2>1, OnOrder
  <2>3. \A x \in L : On(sc, side, x, n) => On(sc, side, x, m)
    BY <1>1, <1>2, <2>2, OnOrder
  <2> QED
    BY <1>5, <2>2, <2>3
<1>7. /\ R \in [L -> SUBSET L]
      /\ R[n] = {n} \cup Sub(S, outer) \cup Sub(S, inner) /\ R[m] = S[n]
      /\ \A k \in L \ {n, m} : R[k] = S[k]
      /\ \A k \in (L \cup {NULL}) \ {n, m} : Sub(R, k) = Sub(S, k)
  <2>1. R = [S EXCEPT ![n] = {n} \cup Sub(S, outer) \cup Sub(S, inner), ![m] = S[n]]
    BY DEF TurnedSub
  <2>2. {n} \cup Sub(S, outer) \cup Sub(S, inner) \in SUBSET L /\ S[n] \in SUBSET L
    BY <1>2, <1>5
  <2> HIDE DEF R, outer, inner, m
  <2>3. /\ R \in [L -> SUBSET L]
        /\ R[n] = {n} \cup Sub(S, outer) \cup Sub(S, inner) /\ R[m] = S[n]
        /\ \A k \in L \ {n, m} : R[k] = S[k]
    BY <1>1, <1>2, <2>1, <2>2
  <2>4. \A k \in (L \cup {NULL}) \ {n, m} : Sub(R, k) = Sub(S, k)
    BY <2>3 DEF Sub
  <2> QED
    BY <2>3, <2>4
<1>8. p # NULL => SideOf(T, p, n) \in Sides /\ Kid(T, p, SideOf(T, p, n)) = n /\ n \in S[p]
                  /\ Kid(T, p, Other(SideOf(T, p, n))) # n
  BY ParentOf
<1> HIDE DEF R
(* Node by node.                                                             *)
<1> DEFINE NodeOK(k) ==
        /\ R[k] = {k} \cup Sub(R, Kid(U, k, "left")) \cup Sub(R, Kid(U, k, "right"))
        /\ \A s \in Sides :
              Kid(U, k, s) # NULL => /\ Kid(U, k, s) \in L /\ Par(U, Kid(U, k, s)) = k
                                     /\ \A x \in R[Kid(U, k, s)] : On(sc, s, x, k)
<1>9. NodeOK(n)
  <2>1. Kid(U, n, side) = outer /\ Kid(U, n, o) = inner
    BY <1>1, <1>2, <1>3
  <2>2. R[n] = {n} \cup Sub(R, Kid(U, n, side)) \cup Sub(R, Kid(U, n, o))
    BY <1>1, <1>4, <1>7, <2>1
  <2>3. R[n] = {n} \cup Sub(R, Kid(U, n, "left")) \cup Sub(R, Kid(U, n, "right"))
    BY <2>2, TwoSides
  <2>4. outer # NULL => /\ outer \in L /\ Par(U, outer) = n
                        /\ \A x \in R[outer] : On(sc, side, x, n)
    <3>1. ASSUME outer # NULL PROVE outer \in L /\ R[outer] = Sub(S, outer) /\ outer # inner
      <4>1. outer # inner
        BY <1>1, <1>4, <3>1
      <4> QED
        BY <1>1, <1>4, <1>7, <3>1, <4>1 DEF Sub
    <3> QED
      BY <1>2, <1>3, <1>4, <1>5, <3>1
  <2>5. inner # NULL => /\ inner \in L /\ Par(U, inner) = n
                        /\ \A x \in R[inner] : On(sc, o, x, n)
    <3>1. ASSUME inner # NULL PROVE inner \in L /\ R[inner] = Sub(S, inner)
      BY <1>1, <1>7, <3>1 DEF Sub
    <3>2. \A x \in Sub(S, inner) : On(sc, o, x, n)
      BY <1>4, <1>5
    <3> QED
      BY <1>1, <1>2, <1>3, <3>1, <3>2
  <2> HIDE DEF outer, inner, m, o
  <2> QED
    BY <1>2, <2>1, <2>3, <2>4, <2>5
<1>10. NodeOK(m)
  <2>1. Kid(U, m, side) = n /\ Kid(U, m, o) = far
    BY <1>1, <1>2, <1>3
  <2>2. Sub(R, n) = R[n] /\ Sub(R, far) = Sub(S, far)
    BY <1>1, <1>2, <1>4, <1>7 DEF Sub
  <2>3. R[m] = {m} \cup Sub(R, Kid(U, m, side)) \cup Sub(R, Kid(U, m, o))
    BY <1>4, <1>7, <2>1, <2>2
  <2>4. R[m] = {m} \cup Sub(R, Kid(U, m, "left")) \cup Sub(R, Kid(U, m, "right"))
    BY <2>3, TwoSides
  <2>5. far # NULL => /\ far \in L /\ Par(U, far) = m
                      /\ \A x \in R[far] : On(sc, o, x, m)
    <3>1. ASSUME far # NULL PROVE far \in L /\ R[far] = Sub(S, far) /\ Par(U, far) = m
      BY <1>1, <1>2, <1>3, <1>4, <1>7, <3>1 DEF Sub
    <3> QED
      BY <1>5, <3>1
  <2>6. n \in L /\ Par(U, n) = m /\ \A x \in R[n] : On(sc, side, x, m)
    BY <1>1, <1>3, <1>6, <1>7
  <2> HIDE DEF outer, inner, far, m, o
  <2> QED
    BY <1>2, <2>1, <2>4, <2>5, <2>6
<1>11. ASSUME NEW k \in L \ {n, m} PROVE NodeOK(k)
  <2>1. \A s \in Sides : Kid(T, k, s) \in L \cup {NULL} /\ Kid(T, k, s) # m
    <3>1. \A s \in Sides : Kid(T, k, s) \in L \cup {NULL} /\ (Kid(T, k, s) # NULL => Par(T, Kid(T, k, s)) = k)
      BY TreeNode
    <3>2. Par(T, m) = n
      BY <1>1, <1>2, TreeNode
    <3> QED
      BY <1>1, <3>1, <3>2
  <2>2. \A s \in Sides : Kid(U, k, s) = IF Kid(T, k, s) = n THEN m ELSE Kid(T, k, s)
    <3>1. \A s \in Sides : Kid(T, k, s) = n => k = p /\ s = SideOf(T, p, n)
      <4>1. \A s \in Sides : Kid(T, k, s) = n => k = p
        BY <1>2, TreeNode
      <4> QED
        BY <1>2, <1>8, <4>1, TwoSides
    <3>2. k = p => p # NULL
      BY <1>2
    <3> QED
      BY <1>2, <1>3, <1>8, <3>1, <3>2
  <2>3. \A s \in Sides : Sub(R, Kid(U, k, s)) = Sub(S, Kid(T, k, s))
    <3>1. Sub(R, m) = Sub(S, n)
      BY <1>1, <1>2, <1>7 DEF Sub
    <3> QED
      BY <1>7, <2>1, <2>2, <3>1
  <2>4. R[k] = {k} \cup Sub(R, Kid(U, k, "left")) \cup Sub(R, Kid(U, k, "right"))
    <3>1. R[k] = S[k] /\ S[k] = {k} \cup Sub(S, Kid(T, k, "left")) \cup Sub(S, Kid(T, k, "right"))
      BY <1>7 DEF IsTree
    <3> QED
      BY <2>3, <3>1, TwoSides
  <2>5. ASSUME NEW s \in Sides, Kid(U, k, s) # NULL
        PROVE  /\ Kid(U, k, s) \in L /\ Par(U, Kid(U, k, s)) = k
               /\ \A x \in R[Kid(U, k, s)] : On(sc, s, x, k)
    <3>1. \A x \in Sub(S, Kid(T, k, s)) : On(sc, s, x, k)
      BY TreeNode
    <3>2. R[Kid(U, k, s)] = Sub(S, Kid(T, k, s))
      BY <2>3, <2>5 DEF Sub
    <3>3. CASE Kid(T, k, s) = n
      <4>1. p = k
        BY <1>2, <3>3, TreeNode
      <4>2. Par(U, m) = k /\ Kid(U, k, s) = m
        BY <1>1, <1>3, <2>2, <3>3, <4>1
      <4> QED
        BY <1>1, <3>1, <3>2, <4>2
    <3>4. CASE Kid(T, k, s) # n
      <4> DEFINE q == Kid(T, k, s)
      <4>1. Kid(U, k, s) = q /\ q # NULL /\ q \in L /\ q # m /\ q # n /\ Par(T, q) = k
        BY <2>1, <2>2, <2>5, <3>4, TreeNode
      <4>2. q # inner
        BY <1>4, <4>1
      <4>3. Par(U, q) = k
        BY <1>2, <1>3, <4>1, <4>2
      <4> QED
        BY <3>1, <3>2, <4>1, <4>3
    <3> QED
      BY <3>3, <3>4
  <2> QED
    BY <2>4, <2>5
<1>12. \A k \in L : NodeOK(k)
  BY <1>9, <1>10, <1>11
(* The root.                                                                 *)
<1>13. top \in L \cup {NULL} /\ Sub(R, top) = L /\ (top # NULL => Par(U, top) = NULL)
  <2>1. r \in L /\ S[r] = L /\ (p = NULL <=> n = r) /\ Par(T, r) = NULL
    <3>1. r \in L /\ S[r] = L /\ (p = NULL <=> n = r)
      BY ParentOf
    <3> QED
      BY <1>2, <3>1 DEF IsTree
  <2>2. CASE p = NULL
    BY <1>1, <1>3, <1>7, <2>1, <2>2 DEF Sub
  <2>3. CASE p # NULL
    <3>1. r # n /\ r # m
      <4>1. Par(T, m) = n
        BY <1>1, <1>2, TreeNode
      <4> QED
        BY <1>1, <1>2, <2>1, <2>3, <4>1
    <3>2. r # inner
      BY <1>1, <1>2, <1>4, <2>1
    <3>3. R[r] = L /\ Par(U, r) = NULL
      BY <1>2, <1>3, <1>7, <2>1, <3>1, <3>2
    <3> QED
      BY <1>2, <2>1, <2>3, <3>3 DEF Sub
  <2> QED
    BY <2>2, <2>3
<1> HIDE DEF top
<1>14. \A k \in L : \A s \in Sides :
          Kid(U, k, s) # NULL => /\ Kid(U, k, s) \in L /\ Par(U, Kid(U, k, s)) = k
                                 /\ \A x \in R[Kid(U, k, s)] : On(sc, s, x, k)
  BY <1>12
<1>15. \A k \in L : R[k] = {k} \cup Sub(R, Kid(U, k, "left")) \cup Sub(R, Kid(U, k, "right"))
  BY <1>12
<1>16. IsTree(U, A, L, sc, top, R)
  <2> HIDE DEF NodeOK
  <2> QED
    BY <1>2, <1>7, <1>13, <1>14, <1>15 DEF IsTree
<1> QED
  BY <1>16 DEF top, R

-----------------------------------------------------------------------------
(* The balance.                                                              *)
Close(i, j) == i <= j + 1 /\ j <= i + 1

Even(T, n) ==
    /\ avl_height(T, n) = HeightOf(T, n, "left") /\ avl_cnt(T, n) = CntOf(T, n, "left")
    /\ Close(avl_height(T, Kid(T, n, "left")), avl_height(T, Kid(T, n, "right")))

LEMMA EvenSides ==
    ASSUME NEW T, NEW A, Typed(T, A), NEW n \in A, NEW side \in Sides
    PROVE  Even(T, n) <=>
              /\ avl_height(T, n) = HeightOf(T, n, side) /\ avl_cnt(T, n) = CntOf(T, n, side)
              /\ Close(avl_height(T, Kid(T, n, side)), avl_height(T, Kid(T, n, Other(side))))
<1>1. HeightOf(T, n, side) = HeightOf(T, n, "left") /\ CntOf(T, n, side) = CntOf(T, n, "left")
  BY SidesAlike
<1>2. CASE side = "left"
  BY <1>1, <1>2, TwoSides DEF Even
<1>3. CASE side = "right"
  <2>1. \A i, j : Close(i, j) <=> Close(j, i)
    BY DEF Close
  <2> QED
    BY <1>1, <1>3, <2>1, TwoSides DEF Even
<1> QED
  BY <1>2, <1>3, TwoSides

(* A node with the kids, heights and counts it had is as even as it was.     *)
LEMMA SameEven ==
    ASSUME NEW T, NEW A, Typed(T, A), NEW U, NEW B, Typed(U, B), NEW n, n \in A, n \in B,
           avl_height(U, n) = avl_height(T, n), avl_cnt(U, n) = avl_cnt(T, n),
           \A side \in Sides :
              LET k == Kid(T, n, side) IN
              /\ Kid(U, n, side) = k
              /\ avl_height(U, k) = avl_height(T, k) /\ avl_cnt(U, k) = avl_cnt(T, k)
    PROVE  Even(U, n) <=> Even(T, n)
<1>1. \A side \in Sides : HeightOf(U, n, side) = HeightOf(T, n, side) /\ CntOf(U, n, side) = CntOf(T, n, side)
  BY TwoSides DEF HeightOf, CntOf
<1>2. /\ avl_height(U, Kid(U, n, "left")) = avl_height(T, Kid(T, n, "left"))
      /\ avl_height(U, Kid(U, n, "right")) = avl_height(T, Kid(T, n, "right"))
  BY TwoSides
<1> QED
  BY <1>1, <1>2, TwoSides DEF Even

(* What a rotation does to the balance.                                      *)
LEMMA RotateHeights ==
    ASSUME NEW T, NEW A, NEW L, NEW sc, NEW r, NEW S, IsTree(T, A, L, sc, r, S),
           NEW n, NEW side, n \in L, side \in Sides, Kid(T, n, Other(side)) # NULL,
           NEW U, Turned(T, U, A, n, side)
    PROVE  LET o == Other(side)
               m == Kid(T, n, o)
               inner == Kid(T, m, side)
               outer == Kid(T, n, side)
               far == Kid(T, m, o)
           IN
           /\ \A k \in L \ {n, m, Par(T, n)} : Even(T, k) => Even(U, k)
           /\ avl_height(U, n) = 1 + Larger(avl_height(T, outer), avl_height(T, inner))
           /\ avl_height(U, m) = 1 + Larger(avl_height(U, n), avl_height(T, far))
           /\ Close(avl_height(T, outer), avl_height(T, inner)) => Even(U, n)
           /\ Close(avl_height(U, n), avl_height(T, far)) => Even(U, m)
<1> DEFINE o == Other(side)
           m == Kid(T, n, o)
           inner == Kid(T, m, side)
           outer == Kid(T, n, side)
           far == Kid(T, m, o)
           p == Par(T, n)
<1>1. /\ Typed(T, A) /\ n \in A /\ m \in A /\ m \in L /\ m # NULL /\ m # n
      /\ inner \in L \cup {NULL} /\ inner # n /\ inner # m /\ far # n /\ far # m
      /\ p # n /\ p # m
  BY Around
<1>2. /\ o \in Sides /\ Other(o) = side /\ o # side /\ Typed(U, A) /\ L \subseteq A
      /\ NULL \notin A
  BY <1>1, TwoSides DEF IsTree, Turned, Typed
<1>3. /\ \A k \in A : \A s \in Sides :
            Kid(U, k, s) = IF k = n /\ s = o THEN inner
                           ELSE IF k = m /\ s = side THEN n
                           ELSE IF k = p /\ s = SideOf(T, p, n) THEN m ELSE Kid(T, k, s)
      /\ avl_height(U, n) = 1 + Larger(avl_height(T, outer), avl_height(T, inner))
      /\ avl_cnt(U, n) = 1 + avl_cnt(T, outer) + avl_cnt(T, inner)
      /\ avl_height(U, m) = 1 + Larger(avl_height(U, n), avl_height(T, far))
      /\ avl_cnt(U, m) = 1 + avl_cnt(U, n) + avl_cnt(T, far)
      /\ \A k \in A \cup {NULL} : k # n /\ k # m => /\ avl_height(U, k) = avl_height(T, k)
                                                    /\ avl_cnt(U, k) = avl_cnt(T, k)
  BY DEF Turned
<1>4. /\ outer \in L \cup {NULL} /\ far \in L \cup {NULL} /\ outer # n /\ outer # m
      /\ Par(T, m) = n
  <2>1. outer \in L \cup {NULL} /\ (outer # NULL => outer # n /\ outer # m)
    BY TreeNode
  <2>2. far \in L \cup {NULL}
    BY <1>1, <1>2, TreeNode
  <2>3. Par(T, m) = n
    BY <1>1, <1>2, TreeNode
  <2> QED
    BY <1>1, <1>2, <2>1, <2>2, <2>3
<1>5. Kid(U, n, side) = outer /\ Kid(U, n, o) = inner /\ Kid(U, m, side) = n /\ Kid(U, m, o) = far
  BY <1>1, <1>2, <1>3
<1>6. /\ avl_height(U, outer) = avl_height(T, outer) /\ avl_cnt(U, outer) = avl_cnt(T, outer)
      /\ avl_height(U, inner) = avl_height(T, inner) /\ avl_cnt(U, inner) = avl_cnt(T, inner)
      /\ avl_height(U, far) = avl_height(T, far) /\ avl_cnt(U, far) = avl_cnt(T, far)
  BY <1>1, <1>2, <1>3, <1>4
<1>7. ASSUME NEW k \in L \ {n, m, p} PROVE Even(T, k) => Even(U, k)
  <2>1. k \in A /\ avl_height(U, k) = avl_height(T, k) /\ avl_cnt(U, k) = avl_cnt(T, k)
    BY <1>2, <1>3
  <2>2. ASSUME NEW s \in Sides
        PROVE  /\ Kid(U, k, s) = Kid(T, k, s)
               /\ avl_height(U, Kid(T, k, s)) = avl_height(T, Kid(T, k, s))
               /\ avl_cnt(U, Kid(T, k, s)) = avl_cnt(T, Kid(T, k, s))
    <3>1. Kid(U, k, s) = Kid(T, k, s)
      BY <1>2, <1>3
    <3>2. /\ Kid(T, k, s) \in L \cup {NULL}
          /\ Kid(T, k, s) # NULL => Par(T, Kid(T, k, s)) = k
      BY TreeNode
    <3>3. Kid(T, k, s) # n /\ Kid(T, k, s) # m /\ Kid(T, k, s) \in A \cup {NULL}
      BY <1>1, <1>2, <1>4, <3>2
    <3> QED
      BY <1>3, <3>1, <3>3
  <2> HIDE DEF m, p
  <2> QED
    BY <1>1, <1>2, <2>1, <2>2, SameEven
<1>8. ASSUME Close(avl_height(T, outer), avl_height(T, inner)) PROVE Even(U, n)
  <2>1. /\ avl_height(U, n) = HeightOf(U, n, side) /\ avl_cnt(U, n) = CntOf(U, n, side)
        /\ Close(avl_height(U, Kid(U, n, side)), avl_height(U, Kid(U, n, Other(side))))
    BY <1>3, <1>5, <1>6, <1>8 DEF HeightOf, CntOf
  <2> QED
    BY <1>1, <1>2, <2>1, EvenSides
<1>9. ASSUME Close(avl_height(U, n), avl_height(T, far)) PROVE Even(U, m)
  <2>1. /\ avl_height(U, m) = HeightOf(U, m, side) /\ avl_cnt(U, m) = CntOf(U, m, side)
        /\ Close(avl_height(U, Kid(U, m, side)), avl_height(U, Kid(U, m, Other(side))))
    BY <1>3, <1>5, <1>6, <1>9 DEF HeightOf, CntOf
  <2> QED
    BY <1>1, <1>2, <2>1, EvenSides
<1> QED
  BY <1>3, <1>7, <1>8, <1>9

-----------------------------------------------------------------------------
(* Straightening the taller kid, then turning the node.                      *)
LEMMA Straightened ==
    ASSUME NEW T, NEW A, NEW L, NEW sc, NEW r, NEW S, IsTree(T, A, L, sc, r, S),
           NEW n, NEW side, n \in L, side \in Sides, Kid(T, n, side) # NULL,
           NEW W, W = StraightenKid(T, n, side)
    PROVE  LET kid == Kid(T, n, side)
               inner == Kid(T, kid, Other(side))
               taller == avl_height(T, Kid(T, kid, side)) < avl_height(T, inner)
           IN  /\ ~taller => W = T
               /\ taller => /\ inner # NULL /\ kid \in L /\ Par(T, kid) = n
                            /\ Turned(T, W, A, kid, side)
<1> DEFINE o == Other(side)
           kid == Kid(T, n, side)
           inner == Kid(T, kid, o)
           taller == avl_height(T, Kid(T, kid, side)) < avl_height(T, inner)
           V == Rotate(T, kid, side)
<1>1. W = IF taller THEN [V EXCEPT ![n][side] = inner] ELSE T
  BY DEF StraightenKid, Kid
<1>2. /\ kid \in L /\ Par(T, kid) = n /\ kid # n /\ o \in Sides /\ Other(o) = side /\ o # side
      /\ Typed(T, A) /\ L \subseteq A /\ NULL \notin A
  <2>1. kid \in L /\ Par(T, kid) = n /\ kid # n
    BY TreeNode
  <2> QED
    BY <2>1, TwoSides DEF IsTree, Typed
<1>3. ASSUME taller PROVE inner # NULL /\ Turned(T, W, A, kid, side)
  <2>1. inner # NULL
    <3>1. Kid(T, kid, side) \in A \cup {NULL}
      BY <1>2, TreeNode
    <3>2. avl_height(T, Kid(T, kid, side)) \in Nat
      BY <1>2, <3>1, Heights
    <3>3. inner = NULL => avl_height(T, inner) = 0
      BY DEF avl_height
    <3> HIDE DEF inner, kid
    <3> QED
      BY <1>3, <3>2, <3>3
  <2>2. Rotates(T, V, kid, side)
    BY DEF Rotates
  <2>3. /\ kid \in A /\ inner \in A /\ inner # kid
        /\ Kid(T, inner, side) # kid /\ Kid(T, inner, side) # inner /\ Kid(T, inner, o) # kid
        /\ n # kid /\ n # inner
    BY <1>2, <2>1, Around
  <2> HIDE DEF V
  <2>4. \A k \in A : \A s \in Sides :
           Kid(V, k, s) = IF k = kid /\ s = o THEN Kid(T, inner, side)
                          ELSE IF k = inner /\ s = side THEN kid ELSE Kid(T, k, s)
    <3> HIDE DEF taller
    <3> QED
      BY <1>2, <2>1, <2>2, <2>3, Rotated
  <2>5. SideOf(V, n, kid) = side
    <3>1. SideOf(V, n, kid) = IF Kid(V, n, "left") = kid THEN "left" ELSE "right"
      BY DEF SideOf, Kid
    <3>2. \A s \in Sides : Kid(V, n, s) = Kid(T, n, s)
      BY <1>2, <2>3, <2>4
    <3>3. Kid(T, n, o) # kid
      BY TreeNode
    <3>4. CASE side = "left"
      BY <3>1, <3>2, <3>4
    <3>5. CASE side = "right"
      BY <3>1, <3>2, <3>3, <3>5, TwoSides
    <3> QED
      BY <3>4, <3>5, TwoSides
  <2>6. Replaces(V, W, Par(T, kid), kid, inner)
    <3>1. W = [V EXCEPT ![n][side] = inner]
      BY <1>1, <1>3
    <3>2. n # NULL
      BY <1>2
    <3> HIDE DEF kid, inner, taller
    <3> QED
      BY <1>2, <2>5, <3>1, <3>2 DEF Replaces, Replace
  <2> QED
    BY <1>2, <2>1, <2>2, <2>6, RotateTurns
<1> QED
  BY <1>1, <1>2, <1>3

(* The subtree of n has another top; the rest is as it was.                  *)
Topped(T, U, A, S, n, top) ==
    LET p == Par(T, n) IN
    /\ Par(U, top) = p
    /\ \A k \in (A \cup {NULL}) \ S[n] : /\ avl_height(U, k) = avl_height(T, k)
                                         /\ avl_cnt(U, k) = avl_cnt(T, k)
    /\ p # NULL => \A s \in Sides :
          Kid(U, p, s) = IF s = SideOf(T, p, n) THEN top ELSE Kid(T, p, s)

LEMMA TurnedTops ==
    ASSUME NEW T, NEW A, NEW L, NEW sc, NEW r, NEW S, IsTree(T, A, L, sc, r, S),
           NEW n, NEW side, n \in L, side \in Sides, Kid(T, n, Other(side)) # NULL,
           NEW U, Turned(T, U, A, n, side)
    PROVE  Topped(T, U, A, S, n, Kid(T, n, Other(side)))
<1> DEFINE o == Other(side)
           m == Kid(T, n, o)
           inner == Kid(T, m, side)
           p == Par(T, n)
<1>1. /\ n \in A /\ m \in A /\ m # n /\ m # NULL /\ p \in A \cup {NULL} /\ p # n /\ p # m
  <2>1. L \subseteq A
    BY DEF IsTree
  <2> QED
    BY <2>1, Around
<1>2. /\ \A k \in A : \A s \in Sides :
            Kid(U, k, s) = IF k = n /\ s = o THEN inner
                           ELSE IF k = m /\ s = side THEN n
                           ELSE IF k = p /\ s = SideOf(T, p, n) THEN m ELSE Kid(T, k, s)
      /\ Par(U, m) = p
      /\ \A k \in A \cup {NULL} : k # n /\ k # m => /\ avl_height(U, k) = avl_height(T, k)
                                                    /\ avl_cnt(U, k) = avl_cnt(T, k)
  BY <1>1 DEF Turned
<1>3. n \in S[n] /\ m \in S[n]
  <2>1. o \in Sides
    BY TwoSides
  <2>2. m \in S[m] /\ Sub(S, m) = S[m]
    BY <1>1, <2>1, TreeNode DEF Sub
  <2> QED
    BY <2>1, <2>2, TreeNode
<1>4. p # NULL => \A s \in Sides : Kid(U, p, s) = IF s = SideOf(T, p, n) THEN m ELSE Kid(T, p, s)
  BY <1>1, <1>2
<1> QED
  BY <1>2, <1>3, <1>4 DEF Topped

LEMMA SideFixed ==
    ASSUME NEW T, NEW A, NEW L, NEW sc, NEW r, NEW S, IsTree(T, A, L, sc, r, S),
           NEW n, NEW side, n \in L, side \in Sides,
           avl_height(T, Kid(T, n, side)) = avl_height(T, Kid(T, n, Other(side))) + 2,
           NEW U, NEW top, avl_fix_side(T, n, side, Par(T, n)) = [tree |-> U, top |-> top]
    PROVE  /\ \E R : IsTree(U, A, L, sc, IF Par(T, n) = NULL THEN top ELSE r, R)
           /\ top \in L /\ Topped(T, U, A, S, n, top)
           /\ (\A k \in L \ {n, Par(T, n)} : Even(T, k)) =>
                 /\ \A k \in L \ {Par(T, n)} : Even(U, k)
                 /\ avl_height(U, top) \in {avl_height(T, Kid(T, n, Other(side))) + 2,
                                            avl_height(T, Kid(T, n, Other(side))) + 3}
<1> DEFINE o == Other(side)
           p == Par(T, n)
           kid == Kid(T, n, side)
           outer == Kid(T, n, o)
           x == avl_height(T, outer)
           W == StraightenKid(T, n, side)
           V == Rotate(W, n, o)
           mid == Kid(T, kid, o)
           end == Kid(T, kid, side)
           taller == avl_height(T, end) < avl_height(T, mid)
<1>1. /\ o \in Sides /\ Other(o) = side /\ o # side /\ Typed(T, A) /\ L \subseteq A /\ NULL \notin A
      /\ outer \in L \cup {NULL} /\ kid \in L \cup {NULL} /\ p \in L \cup {NULL} /\ n \in A
  <2>1. o \in Sides /\ Other(o) = side /\ o # side /\ Typed(T, A) /\ L \subseteq A /\ NULL \notin A
    BY TwoSides DEF IsTree, Typed
  <2>2. outer \in L \cup {NULL} /\ kid \in L \cup {NULL}
    BY <2>1, TreeNode
  <2>3. p \in L \cup {NULL}
    BY ParentOf
  <2> QED
    BY <2>1, <2>2, <2>3
<1>2. x \in Nat /\ avl_height(T, kid) = x + 2 /\ kid # NULL /\ kid \in L
  <2>1. x \in Nat
    BY <1>1, Heights
  <2>2. kid = NULL => avl_height(T, kid) = 0
    BY DEF avl_height
  <2> HIDE DEF kid, outer
  <2> QED
    BY <1>1, <2>1, <2>2 DEF kid, outer
<1>3. /\ ~taller => W = T
      /\ taller => mid # NULL /\ Par(T, kid) = n /\ Turned(T, W, A, kid, side)
  BY <1>2, Straightened
<1>4. U = Replace(V, p, n, top) /\ top = Kid(W, n, side)
  BY DEF avl_fix_side, Kid
<1>5. Rotates(W, V, n, o)
  BY DEF Rotates
<1> HIDE DEF W, V
<1>6. Replaces(V, U, p, n, top)
  BY <1>4 DEF Replaces
<1>7. /\ kid \in A /\ mid \in L \cup {NULL} /\ end \in L \cup {NULL}
      /\ avl_height(T, mid) \in Nat /\ avl_height(T, end) \in Nat
  <2>1. mid \in L \cup {NULL} /\ end \in L \cup {NULL}
    BY <1>1, <1>2, TreeNode
  <2> QED
    BY <1>1, <1>2, <2>1, Heights
<1>8. Even(T, kid) => /\ x + 2 = 1 + Larger(avl_height(T, end), avl_height(T, mid))
                      /\ Close(avl_height(T, end), avl_height(T, mid))
  BY <1>1, <1>2, <1>7, EvenSides DEF HeightOf
(* The second turn, from wherever the first has left the tree.               *)
<1>9. ASSUME NEW R, IsTree(W, A, L, sc, r, R), R[n] = S[n], Par(W, n) = p,
             Kid(W, n, side) # NULL
      PROVE  /\ Turned(W, U, A, n, o)
             /\ \E Q : IsTree(U, A, L, sc, IF p = NULL THEN top ELSE r, Q)
             /\ top \in L /\ Topped(W, U, A, R, n, top)
  <2>1. Turned(W, U, A, n, o)
    BY <1>1, <1>4, <1>5, <1>6, <1>9, RotateTurns
  <2>2. IsTree(U, A, L, sc, IF p = NULL THEN top ELSE r, TurnedSub(W, R, n, o))
    BY <1>1, <1>4, <1>9, <2>1, RotateTree
  <2>3. top \in L
    BY <1>4, <1>9, TreeNode
  <2>4. Topped(W, U, A, R, n, top)
    BY <1>1, <1>4, <1>9, <2>1, TurnedTops
  <2> QED
    BY <2>1, <2>2, <2>3, <2>4
<1> HIDE DEF x
<1>10. ASSUME ~taller
       PROVE  /\ \E R : IsTree(U, A, L, sc, IF p = NULL THEN top ELSE r, R)
              /\ top \in L /\ Topped(T, U, A, S, n, top)
              /\ (\A k \in L \ {n, p} : Even(T, k)) =>
                    /\ \A k \in L \ {p} : Even(U, k)
                    /\ avl_height(U, top) \in {x + 2, x + 3}
  <2>1. /\ W = T /\ top = kid /\ Turned(T, U, A, n, o)
        /\ \E Q : IsTree(U, A, L, sc, IF p = NULL THEN top ELSE r, Q)
        /\ top \in L /\ Topped(T, U, A, S, n, top)
    <3>1. W = T /\ top = kid
      BY <1>3, <1>4, <1>10
    <3> HIDE DEF kid, p, taller
    <3> QED
      BY <1>2, <1>9, <3>1 DEF kid, p
  <2>2. ASSUME \A k \in L \ {n, p} : Even(T, k)
        PROVE  (\A k \in L \ {p} : Even(U, k)) /\ avl_height(U, top) \in {x + 2, x + 3}
    <3>1. /\ \A k \in L \ {n, kid, p} : Even(T, k) => Even(U, k)
          /\ avl_height(U, n) = 1 + Larger(avl_height(T, outer), avl_height(T, mid))
          /\ avl_height(U, kid) = 1 + Larger(avl_height(U, n), avl_height(T, end))
          /\ Close(avl_height(T, outer), avl_height(T, mid)) => Even(U, n)
          /\ Close(avl_height(U, n), avl_height(T, end)) => Even(U, kid)
      BY <1>1, <1>2, <2>1, RotateHeights
    <3>2. Even(T, kid)
      <4>1. kid # n /\ kid # p
        BY <1>1, <1>2, Around
      <4> QED
        BY <1>2, <2>2, <4>1
    <3> DEFINE e == avl_height(T, end)
               i == avl_height(T, mid)
               hn == avl_height(U, n)
               hk == avl_height(U, kid)
    <3>3. /\ e \in Nat /\ i \in Nat /\ x \in Nat /\ x + 2 = 1 + Larger(e, i) /\ Close(e, i)
          /\ ~(e < i) /\ hn = 1 + Larger(x, i) /\ hk = 1 + Larger(hn, e)
      BY <1>2, <1>7, <1>8, <1>10, <3>1, <3>2 DEF x
    <3>4. Close(x, i) /\ Close(hn, e) /\ hk \in {x + 2, x + 3}
      <4> HIDE DEF e, i, hn, hk
      <4> QED
        BY <3>3 DEF Larger, Close
    <3>5. Even(U, n) /\ Even(U, kid)
      BY <3>1, <3>4 DEF x
    <3> QED
      BY <2>1, <2>2, <3>1, <3>4, <3>5
  <2> QED
    BY <2>1, <2>2
<1>11. ASSUME taller
       PROVE  /\ \E R : IsTree(U, A, L, sc, IF p = NULL THEN top ELSE r, R)
              /\ top \in L /\ Topped(T, U, A, S, n, top)
              /\ (\A k \in L \ {n, p} : Even(T, k)) =>
                    /\ \A k \in L \ {p} : Even(U, k)
                    /\ avl_height(U, top) \in {x + 2, x + 3}
  <2> DEFINE R == TurnedSub(T, S, kid, side)
             far == Kid(T, mid, o)     \* the kids of mid
             near == Kid(T, mid, side)
  <2>1. mid # NULL /\ Par(T, kid) = n /\ Turned(T, W, A, kid, side)
    BY <1>3, <1>11
  <2>2. /\ mid \in A /\ kid # mid /\ n # kid /\ n # mid
        /\ near \in L \cup {NULL} /\ near # kid /\ near # mid
        /\ far # kid /\ far # mid
        /\ (n # NULL => n # near)
    BY <1>1, <1>2, <2>1, Around
  <2>3. IsTree(W, A, L, sc, r, R)
    <3>1. Par(T, kid) # NULL
      BY <1>1, <2>1
    <3> HIDE DEF R, taller
    <3> QED
      BY <1>1, <1>2, <2>1, <3>1, RotateTree DEF R
  <2>4. R[n] = S[n] /\ n # NULL
    <3>1. R = [S EXCEPT ![kid] = {kid} \cup Sub(S, end) \cup Sub(S, near), ![mid] = S[kid]]
      BY DEF TurnedSub
    <3> HIDE DEF R
    <3>2. n # NULL /\ DOMAIN S = L
      BY <1>1 DEF IsTree
    <3> QED
      BY <2>2, <3>1, <3>2
  <2>5. /\ \A k \in A : \A s \in Sides :
              Kid(W, k, s) = IF k = kid /\ s = o THEN near
                             ELSE IF k = mid /\ s = side THEN kid
                             ELSE IF k = n /\ s = SideOf(T, n, kid) THEN mid ELSE Kid(T, k, s)
        /\ \A k \in A :
              Par(W, k) = IF k = kid THEN mid ELSE IF k = mid THEN n
                          ELSE IF k = near THEN kid ELSE Par(T, k)
        /\ \A k \in A \cup {NULL} : k # kid /\ k # mid => /\ avl_height(W, k) = avl_height(T, k)
                                                          /\ avl_cnt(W, k) = avl_cnt(T, k)
    BY <2>1 DEF Turned
  <2>6. SideOf(T, n, kid) = side
    <3>1. SideOf(T, n, kid) = IF Kid(T, n, "left") = kid THEN "left" ELSE "right"
      BY DEF SideOf, Kid
    <3>2. Kid(T, n, o) # kid
      BY <1>2, TreeNode
    <3>3. CASE side = "left"
      BY <3>1, <3>3
    <3>4. CASE side = "right"
      BY <3>1, <3>2, <3>4, TwoSides
    <3> QED
      BY <3>3, <3>4, TwoSides
  <2> HIDE DEF R, taller
  <2>7. /\ Par(W, n) = p /\ Kid(W, n, side) = mid /\ Kid(W, n, o) = outer
        /\ Kid(W, mid, side) = kid
    <3> HIDE DEF mid, near, kid
    <3> QED
      BY <1>1, <2>1, <2>2, <2>4, <2>5, <2>6
  <2>8. Kid(W, mid, o) = far
    <3> HIDE DEF mid, near, kid
    <3> QED
      BY <1>1, <2>2, <2>5 DEF far
  <2>9. /\ Turned(W, U, A, n, o) /\ top = mid
        /\ \E Q : IsTree(U, A, L, sc, IF p = NULL THEN top ELSE r, Q)
        /\ top \in L /\ Topped(W, U, A, R, n, top)
    <3>1. Kid(W, n, side) # NULL /\ top = mid
      BY <1>4, <2>1, <2>7
    <3> HIDE DEF mid, p
    <3> QED
      BY <1>9, <2>3, <2>4, <2>7, <3>1
  <2>10. Topped(T, U, A, S, n, top)
    <3>1. kid \in S[n] /\ mid \in S[n]
      <4>1. kid \in S[kid] /\ Sub(S, kid) = S[kid] /\ mid \in L
        BY <1>2, <1>7, <2>1, TreeNode DEF Sub
      <4>2. mid \in S[mid] /\ Sub(S, mid) = S[mid]
        BY <2>1, <4>1, TreeNode DEF Sub
      <4>3. mid \in S[kid]
        BY <1>1, <1>2, <4>2, TreeNode
      <4> QED
        BY <4>1, <4>3, TreeNode
    <3>2. p # NULL => SideOf(W, p, n) = SideOf(T, p, n)
                      /\ \A s \in Sides : Kid(W, p, s) = Kid(T, p, s)
      <4>1. p # NULL => p # n /\ p \notin S[n] /\ p \in A
        BY <1>1, ParentOf
      <4>2. p # NULL => \A s \in Sides : Kid(W, p, s) = Kid(T, p, s)
        BY <2>5, <3>1, <4>1
      <4>3. /\ SideOf(W, p, n) = IF Kid(W, p, "left") = n THEN "left" ELSE "right"
            /\ SideOf(T, p, n) = IF Kid(T, p, "left") = n THEN "left" ELSE "right"
        BY DEF SideOf, Kid
      <4> QED
        BY <4>2, <4>3, TwoSides
    <3>3. \A k \in (A \cup {NULL}) \ S[n] : /\ avl_height(U, k) = avl_height(W, k)
                                            /\ avl_cnt(U, k) = avl_cnt(W, k)
      BY <2>4, <2>9 DEF Topped
    <3>4. \A k \in (A \cup {NULL}) \ S[n] : /\ avl_height(U, k) = avl_height(T, k)
                                            /\ avl_cnt(U, k) = avl_cnt(T, k)
      BY <2>5, <3>1, <3>3
    <3>5. Par(U, top) = p /\ (p # NULL => \A s \in Sides :
             Kid(U, p, s) = IF s = SideOf(W, p, n) THEN top ELSE Kid(W, p, s))
      BY <2>7, <2>9 DEF Topped
    <3> QED
      BY <3>2, <3>4, <3>5 DEF Topped
  <2>11. ASSUME \A k \in L \ {n, p} : Even(T, k)
         PROVE  (\A k \in L \ {p} : Even(U, k)) /\ avl_height(U, top) \in {x + 2, x + 3}
    <3>1. /\ \A k \in L \ {kid, mid, n} : Even(T, k) => Even(W, k)
          /\ avl_height(W, kid) = 1 + Larger(avl_height(T, end), avl_height(T, near))
          /\ avl_height(W, mid) = 1 + Larger(avl_height(W, kid), avl_height(T, far))
          /\ Close(avl_height(T, end), avl_height(T, near)) => Even(W, kid)
      BY <1>1, <1>2, <2>1, RotateHeights
    <3>2. /\ \A k \in L \ {n, mid, p} : Even(W, k) => Even(U, k)
          /\ avl_height(U, n) = 1 + Larger(avl_height(W, outer), avl_height(W, far))
          /\ avl_height(U, mid) = 1 + Larger(avl_height(U, n), avl_height(W, kid))
          /\ Close(avl_height(W, outer), avl_height(W, far)) => Even(U, n)
          /\ Close(avl_height(U, n), avl_height(W, kid)) => Even(U, mid)
      <4> HIDE DEF mid, kid, far, outer, p, o, end, near
      <4> QED
        BY <1>1, <2>1, <2>3, <2>7, <2>8, <2>9, RotateHeights
    <3>3. kid # p /\ mid # p /\ mid \in L
      <4>1. kid # p
        BY <1>1, <1>2, Around
      <4>2. mid \in L
        BY <1>7, <2>1
      <4>3. mid # p
        <5>1. p = NULL => mid # p
          BY <2>1
        <5>2. p # NULL => Par(W, mid) = n /\ p # n /\ mid \in A
          BY <2>2, <2>5, ParentOf
        <5>3. Kid(W, n, Other(o)) # NULL
          BY <1>1, <2>1, <2>7
        <5>4. Par(W, n) # Kid(W, n, Other(o))
          BY <1>1, <2>3, <5>3, Around
        <5> QED
          BY <1>1, <2>7, <5>4
      <4> QED
        BY <4>1, <4>2, <4>3
    <3>4. Even(T, kid) /\ Even(T, mid)
      BY <1>2, <2>2, <2>11, <3>3
    <3> DEFINE e == avl_height(T, end)
               i == avl_height(T, mid)
               a == avl_height(T, near)
               b == avl_height(T, far)
               hk == avl_height(W, kid)
               hn == avl_height(U, n)
               hm == avl_height(U, mid)
    <3>5. far \in L \cup {NULL} /\ a \in Nat /\ b \in Nat
      <4>1. far \in L \cup {NULL}
        BY <1>1, <3>3, TreeNode
      <4> QED
        BY <1>1, <2>2, <4>1, Heights
    <3>6. i = 1 + Larger(a, b) /\ Close(a, b)
      BY <1>1, <2>2, <3>4, EvenSides DEF HeightOf
    <3>7. avl_height(W, outer) = x /\ avl_height(W, far) = b
      <4>1. outer # kid /\ outer # mid
        <5>1. outer # NULL => outer # kid /\ Par(T, outer) = n
          BY <1>1, <1>2, TreeNode
        <5>2. Par(T, mid) = kid
          BY <1>1, <1>2, <2>1, TreeNode
        <5> QED
          BY <1>2, <2>1, <2>2, <5>1, <5>2
      <4> QED
        BY <1>1, <2>2, <2>5, <3>5, <4>1 DEF x
    <3>8. /\ e \in Nat /\ i \in Nat /\ x \in Nat /\ x + 2 = 1 + Larger(e, i) /\ Close(e, i)
          /\ e < i /\ hk = 1 + Larger(e, a) /\ hn = 1 + Larger(x, b) /\ hm = 1 + Larger(hn, hk)
      BY <1>2, <1>7, <1>8, <1>11, <3>1, <3>2, <3>4, <3>7 DEF taller
    <3>9. Close(e, a) /\ Close(x, b) /\ Close(hn, hk) /\ hm = x + 2
      <4> HIDE DEF e, i, a, b, hk, hn, hm
      <4> QED
        BY <3>5, <3>6, <3>8 DEF Larger, Close
    <3>10. Even(U, n) /\ Even(U, mid)
      BY <3>2, <3>7, <3>9
    <3>11. \A k \in L \ {n, mid, p} : Even(U, k)
      <4>1. Even(W, kid)
        BY <3>1, <3>9
      <4> QED
        BY <2>11, <3>1, <3>2, <4>1
    <3> QED
      BY <2>9, <3>9, <3>10, <3>11
  <2> QED
    BY <2>9, <2>10, <2>11
<1> QED
  BY <1>10, <1>11 DEF x

-----------------------------------------------------------------------------
(* One iteration of avl_fix.                                                 *)

(* n's height was h before one of its kids' heights changed by at most one,  *)
(* or n has just been put in where nothing was.                              *)
Due(T, n, h) ==
    \/ h = 0 /\ \A side \in Sides : avl_height(T, Kid(T, n, side)) = 0
    \/ \E side \in Sides, x \in Nat :
          LET y == avl_height(T, Kid(T, n, Other(side))) IN
          /\ h = 1 + Larger(x, y) /\ Close(x, y)
          /\ Close(x, avl_height(T, Kid(T, n, side)))

(* The way to the root is balanced below n, and above it as long as n counts *)
(* for the height it had.                                                    *)
Fixing(T, L, n, h) ==
    LET p == Par(T, n) IN
    /\ \A k \in L \ {n, p} : Even(T, k)
    /\ p # NULL => LET y == avl_height(T, Kid(T, p, Other(SideOf(T, p, n)))) IN
                   avl_height(T, p) = 1 + Larger(h, y) /\ Close(h, y)
    /\ Due(T, n, h)

LEMMA UpdateKeeps ==
    ASSUME NEW T, NEW A, NEW L, NEW sc, NEW r, NEW S, IsTree(T, A, L, sc, r, S),
           NEW n, n \in L, NEW U, Updates(T, U, n)
    PROVE  /\ IsTree(U, A, L, sc, r, S) /\ Topped(T, U, A, S, n, n)
           /\ \A k \in A : Par(U, k) = Par(T, k)
           /\ \A k \in A : \A side \in Sides : Kid(U, k, side) = Kid(T, k, side)
           /\ \A side \in Sides : /\ avl_height(U, Kid(T, n, side)) = avl_height(T, Kid(T, n, side))
                                  /\ avl_height(U, n) = HeightOf(T, n, side)
           /\ \A k \in L \ {n, Par(T, n)} : Even(T, k) => Even(U, k)
           /\ Close(avl_height(T, Kid(T, n, "left")), avl_height(T, Kid(T, n, "right"))) => Even(U, n)
<1>1. /\ Typed(T, A) /\ L \subseteq A /\ n \in A /\ n \in S[n]
      /\ \A k \in L : \A side \in Sides :
            /\ Kid(T, k, side) \in A \cup {NULL} /\ Kid(T, k, side) # k
            /\ Kid(T, k, side) = n => k = Par(T, n)
      /\ \A k \in L : k \in A /\ k # NULL
  <2>1. Typed(T, A) /\ L \subseteq A
    BY DEF IsTree
  <2>2. \A k \in L : k # NULL
    BY <2>1 DEF Typed
  <2>3. \A k \in L : \A side \in Sides :
            /\ Kid(T, k, side) \in L \cup {NULL}
            /\ Kid(T, k, side) # NULL => Kid(T, k, side) # k /\ Par(T, Kid(T, k, side)) = k
    BY TreeNode
  <2> QED
    BY <2>1, <2>2, <2>3, TreeNode, TwoSides
<1>2. /\ Typed(U, A) /\ SameKids(T, U, A) /\ SameParents(T, U, A)
      /\ \A side \in Sides : /\ avl_height(U, n) = HeightOf(T, n, side)
                             /\ avl_cnt(U, n) = CntOf(T, n, side)
      /\ \A k \in A \cup {NULL} : k # n => /\ avl_height(U, k) = avl_height(T, k)
                                           /\ avl_cnt(U, k) = avl_cnt(T, k)
  BY <1>1, Updated
<1>3. /\ \A k \in A : Par(U, k) = Par(T, k)
      /\ \A k \in A : \A side \in Sides : Kid(U, k, side) = Kid(T, k, side)
  BY <1>2 DEF SameKids, SameParents
<1>4. IsTree(U, A, L, sc, r, S)
  BY <1>1, <1>2, <1>3, SameTree
<1>5. Topped(T, U, A, S, n, n)
  <2>1. Par(T, n) # NULL => Par(T, n) \in A /\ Kid(T, Par(T, n), SideOf(T, Par(T, n), n)) = n
    BY <1>1, ParentOf
  <2> QED
    BY <1>1, <1>2, <1>3, <2>1 DEF Topped
<1>6. \A side \in Sides : /\ avl_height(U, Kid(T, n, side)) = avl_height(T, Kid(T, n, side))
                          /\ avl_cnt(U, Kid(T, n, side)) = avl_cnt(T, Kid(T, n, side))
  BY <1>1, <1>2
<1>7. ASSUME NEW k \in L \ {n, Par(T, n)} PROVE Even(T, k) => Even(U, k)
  <2>1. k \in A /\ avl_height(U, k) = avl_height(T, k) /\ avl_cnt(U, k) = avl_cnt(T, k)
    BY <1>1, <1>2
  <2>2. ASSUME NEW s \in Sides
        PROVE  /\ Kid(U, k, s) = Kid(T, k, s)
               /\ avl_height(U, Kid(T, k, s)) = avl_height(T, Kid(T, k, s))
               /\ avl_cnt(U, Kid(T, k, s)) = avl_cnt(T, Kid(T, k, s))
    BY <1>1, <1>2, <1>3, <2>1
  <2> QED
    BY <1>1, <1>2, <2>1, <2>2, SameEven
<1>8. ASSUME Close(avl_height(T, Kid(T, n, "left")), avl_height(T, Kid(T, n, "right")))
      PROVE  Even(U, n)
  <2>1. /\ avl_height(U, n) = HeightOf(T, n, "left") /\ avl_cnt(U, n) = CntOf(T, n, "left")
        /\ Kid(U, n, "left") = Kid(T, n, "left") /\ Kid(U, n, "right") = Kid(T, n, "right")
    BY <1>1, <1>2, <1>3, TwoSides
  <2>2. /\ avl_height(U, Kid(T, n, "left")) = avl_height(T, Kid(T, n, "left"))
        /\ avl_height(U, Kid(T, n, "right")) = avl_height(T, Kid(T, n, "right"))
        /\ avl_cnt(U, Kid(T, n, "left")) = avl_cnt(T, Kid(T, n, "left"))
        /\ avl_cnt(U, Kid(T, n, "right")) = avl_cnt(T, Kid(T, n, "right"))
    BY <1>6, TwoSides
  <2>3. HeightOf(U, n, "left") = HeightOf(T, n, "left") /\ CntOf(U, n, "left") = CntOf(T, n, "left")
    BY <2>1, <2>2, TwoSides DEF HeightOf, CntOf
  <2> QED
    BY <1>8, <2>1, <2>2, <2>3 DEF Even
<1> QED
  BY <1>1, <1>2, <1>3, <1>4, <1>5, <1>6, <1>7, <1>8

(* What a height that is due can have become.                                *)
LEMMA DueHeights ==
    ASSUME NEW T, NEW A, Typed(T, A), NEW n \in A, NEW h, Due(T, n, h)
    PROVE  LET l == avl_height(T, Kid(T, n, "left"))
               r == avl_height(T, Kid(T, n, "right"))
           IN  /\ h \in Nat /\ l \in Nat /\ r \in Nat
               /\ l - r \in -2..2
               /\ Close(l, r) => Close(h, 1 + Larger(l, r))
               /\ l = r + 2 => Close(h, r + 2) /\ Close(h, r + 3)
               /\ l + 2 = r => Close(h, l + 2) /\ Close(h, l + 3)
<1> DEFINE l == avl_height(T, Kid(T, n, "left"))
           r == avl_height(T, Kid(T, n, "right"))
<1>1. l \in Nat /\ r \in Nat
  <2>1. Kid(T, n, "left") \in A \cup {NULL} /\ Kid(T, n, "right") \in A \cup {NULL}
    BY Fields, TwoSides
  <2> QED
    BY <2>1, Heights
<1>2. \/ h = 0 /\ l = 0 /\ r = 0
      \/ \E x \in Nat : /\ h = 1 + Larger(x, r) /\ Close(x, r) /\ Close(x, l)
      \/ \E x \in Nat : /\ h = 1 + Larger(x, l) /\ Close(x, l) /\ Close(x, r)
  BY TwoSides DEF Due
<1> HIDE DEF l, r
<1>3. CASE h = 0 /\ l = 0 /\ r = 0
  BY <1>3 DEF l, r, Close, Larger
<1>4. ASSUME NEW x \in Nat, h = 1 + Larger(x, r) /\ Close(x, r) /\ Close(x, l)
      PROVE  /\ h \in Nat /\ l - r \in -2..2
             /\ Close(l, r) => Close(h, 1 + Larger(l, r))
             /\ l = r + 2 => Close(h, r + 2) /\ Close(h, r + 3)
             /\ l + 2 = r => Close(h, l + 2) /\ Close(h, l + 3)
  BY <1>1, <1>4 DEF Close, Larger
<1>5. ASSUME NEW x \in Nat, h = 1 + Larger(x, l) /\ Close(x, l) /\ Close(x, r)
      PROVE  /\ h \in Nat /\ l - r \in -2..2
             /\ Close(l, r) => Close(h, 1 + Larger(l, r))
             /\ l = r + 2 => Close(h, r + 2) /\ Close(h, r + 3)
             /\ l + 2 = r => Close(h, l + 2) /\ Close(h, l + 3)
  BY <1>1, <1>5 DEF Close, Larger
<1>6. /\ h \in Nat /\ l - r \in -2..2
      /\ Close(l, r) => Close(h, 1 + Larger(l, r))
      /\ l = r + 2 => Close(h, r + 2) /\ Close(h, r + 3)
      /\ l + 2 = r => Close(h, l + 2) /\ Close(h, l + 3)
  <2>1. CASE h = 0 /\ l = 0 /\ r = 0
    BY <2>1 DEF Close, Larger
  <2> QED
    BY <1>2, <1>4, <1>5, <2>1
<1> QED
  BY <1>1, <1>6 DEF l, r

LEMMA FixKeeps ==
    ASSUME NEW T, NEW A, NEW L, NEW sc, NEW r, NEW S, IsTree(T, A, L, sc, r, S),
           NEW n, n \in L, NEW U, NEW top, Fixed(T, n) = [tree |-> U, top |-> top]
    PROVE  /\ \E R : IsTree(U, A, L, sc, IF Par(T, n) = NULL THEN top ELSE r, R)
           /\ top \in L /\ Topped(T, U, A, S, n, top)
           /\ \A h : Fixing(T, L, n, h) =>
                 /\ \A k \in L \ {Par(T, n)} : Even(U, k)
                 /\ h \in Nat /\ Close(h, avl_height(U, top)) /\ avl_height(U, top) \in Nat
<1> DEFINE V == avl_update(T, n)
           p == Par(T, n)
           l == avl_height(T, Kid(T, n, "left"))
           q == avl_height(T, Kid(T, n, "right"))
           new == avl_height(U, top)
<1>0. Updates(T, V, n)
  BY DEF Updates
<1>1. /\ IsTree(V, A, L, sc, r, S) /\ Topped(T, V, A, S, n, n)
      /\ \A k \in A : Par(V, k) = Par(T, k)
      /\ \A k \in A : \A side \in Sides : Kid(V, k, side) = Kid(T, k, side)
      /\ \A side \in Sides : /\ avl_height(V, Kid(T, n, side)) = avl_height(T, Kid(T, n, side))
                             /\ avl_height(V, n) = HeightOf(T, n, side)
      /\ \A k \in L \ {n, p} : Even(T, k) => Even(V, k)
      /\ Close(l, q) => Even(V, n)
  <2> HIDE DEF V
  <2> QED
    BY <1>0, UpdateKeeps
<1>2. /\ Typed(T, A) /\ L \subseteq A /\ n \in A /\ n # p /\ NULL \notin A
      /\ r \in L /\ (p = NULL <=> n = r) /\ p \in L \cup {NULL}
  <2>1. Typed(T, A) /\ L \subseteq A /\ NULL \notin A
    BY DEF IsTree, Typed
  <2> QED
    BY <2>1, ParentOf
<1>3. Fixed(T, n) = IF l = q + 2 THEN avl_fix_side(V, n, "left", p)
                    ELSE IF l + 2 = q THEN avl_fix_side(V, n, "right", p)
                    ELSE [tree |-> V, top |-> n]
  <2>1. /\ avl_height(V, V[n].left) = l /\ avl_height(V, V[n].right) = q /\ T[n].parent = p
    <3>1. V[n].left = Kid(V, n, "left") /\ V[n].right = Kid(V, n, "right") /\ T[n].parent = p
      BY DEF Kid, Par
    <3> HIDE DEF V
    <3> QED
      BY <1>1, <1>2, <3>1, TwoSides
  <2> DEFINE F(i, j, m) == CASE i = j + 2 -> avl_fix_side(V, n, "left", m)
                             [] j = i + 2 -> avl_fix_side(V, n, "right", m)
                             [] OTHER     -> [tree |-> V, top |-> n]
  <2>2. Fixed(T, n) = F(avl_height(V, V[n].left), avl_height(V, V[n].right), T[n].parent)
    BY DEF Fixed
  <2> HIDE DEF V, l, q, p
  <2>3. F(l, q, p) = IF l = q + 2 THEN avl_fix_side(V, n, "left", p)
                     ELSE IF q = l + 2 THEN avl_fix_side(V, n, "right", p)
                     ELSE [tree |-> V, top |-> n]
    <3>1. l \in Nat /\ q \in Nat
      BY <1>2, Fields, Heights, TwoSides DEF l, q
    <3> QED
      BY <3>1
  <2> HIDE DEF F
  <2> QED
    BY <2>1, <2>2, <2>3
<1> HIDE DEF V
(* What is due.                                                              *)
<1>4. ASSUME NEW h, Fixing(T, L, n, h)
      PROVE  /\ h \in Nat /\ l \in Nat /\ q \in Nat /\ l - q \in -2..2
             /\ Close(l, q) => Close(h, 1 + Larger(l, q))
             /\ l = q + 2 => Close(h, q + 2) /\ Close(h, q + 3)
             /\ l + 2 = q => Close(h, l + 2) /\ Close(h, l + 3)
             /\ \A k \in L \ {n, p} : Even(V, k)
  <2>1. Due(T, n, h) /\ \A k \in L \ {n, p} : Even(T, k)
    BY <1>4 DEF Fixing
  <2> QED
    BY <1>1, <1>2, <2>1, DueHeights
<1>5. ASSUME NEW side \in Sides, avl_fix_side(V, n, side, p) = [tree |-> U, top |-> top],
             avl_height(T, Kid(T, n, side)) = avl_height(T, Kid(T, n, Other(side))) + 2
      PROVE  /\ \E R : IsTree(U, A, L, sc, IF p = NULL THEN top ELSE r, R)
             /\ top \in L /\ Topped(T, U, A, S, n, top)
             /\ (\A k \in L \ {n, p} : Even(V, k)) =>
                   /\ \A k \in L \ {p} : Even(U, k)
                   /\ new \in {avl_height(T, Kid(T, n, Other(side))) + 2,
                               avl_height(T, Kid(T, n, Other(side))) + 3}
  <2>1. /\ avl_height(V, Kid(V, n, side)) = avl_height(T, Kid(T, n, side))
        /\ avl_height(V, Kid(V, n, Other(side))) = avl_height(T, Kid(T, n, Other(side)))
        /\ Par(V, n) = p
    BY <1>1, <1>2, TwoSides
  <2>2. /\ \E R : IsTree(U, A, L, sc, IF p = NULL THEN top ELSE r, R)
        /\ top \in L /\ Topped(V, U, A, S, n, top)
        /\ (\A k \in L \ {n, p} : Even(V, k)) =>
              /\ \A k \in L \ {p} : Even(U, k)
              /\ new \in {avl_height(T, Kid(T, n, Other(side))) + 2,
                          avl_height(T, Kid(T, n, Other(side))) + 3}
    <3> HIDE DEF p, new
    <3> QED
      BY <1>1, <1>5, <2>1, SideFixed DEF new
  <2>3. p # NULL => SideOf(V, p, n) = SideOf(T, p, n)
                    /\ \A s \in Sides : Kid(V, p, s) = Kid(T, p, s)
    <3>1. p # NULL => \A s \in Sides : Kid(V, p, s) = Kid(T, p, s)
      BY <1>1, <1>2
    <3>2. /\ SideOf(V, p, n) = IF Kid(V, p, "left") = n THEN "left" ELSE "right"
          /\ SideOf(T, p, n) = IF Kid(T, p, "left") = n THEN "left" ELSE "right"
      BY DEF SideOf, Kid
    <3> QED
      BY <3>1, <3>2, TwoSides
  <2>4. Topped(T, U, A, S, n, top)
    BY <1>1, <2>1, <2>2, <2>3 DEF Topped
  <2> QED
    BY <2>2, <2>4
<1>6. CASE l = q + 2
  <2>1. /\ avl_fix_side(V, n, "left", p) = [tree |-> U, top |-> top]
        /\ avl_height(T, Kid(T, n, "left")) = avl_height(T, Kid(T, n, Other("left"))) + 2
    BY <1>3, <1>6, TwoSides
  <2>2. /\ \E R : IsTree(U, A, L, sc, IF p = NULL THEN top ELSE r, R)
        /\ top \in L /\ Topped(T, U, A, S, n, top)
        /\ (\A k \in L \ {n, p} : Even(V, k)) =>
              /\ \A k \in L \ {p} : Even(U, k)
              /\ new \in {q + 2, q + 3}
    BY <1>5, <2>1, TwoSides
  <2>3. ASSUME NEW h, Fixing(T, L, n, h)
        PROVE  (\A k \in L \ {p} : Even(U, k)) /\ h \in Nat /\ Close(h, new) /\ new \in Nat
    <3> HIDE DEF l, q, new
    <3> QED
      BY <1>4, <1>6, <2>2, <2>3
  <2> QED
    BY <2>2, <2>3
<1>7. CASE l # q + 2 /\ l + 2 = q
  <2>1. /\ avl_fix_side(V, n, "right", p) = [tree |-> U, top |-> top]
        /\ avl_height(T, Kid(T, n, "right")) = avl_height(T, Kid(T, n, Other("right"))) + 2
    BY <1>3, <1>7, TwoSides
  <2>2. /\ \E R : IsTree(U, A, L, sc, IF p = NULL THEN top ELSE r, R)
        /\ top \in L /\ Topped(T, U, A, S, n, top)
        /\ (\A k \in L \ {n, p} : Even(V, k)) =>
              /\ \A k \in L \ {p} : Even(U, k)
              /\ new \in {l + 2, l + 3}
    BY <1>5, <2>1, TwoSides
  <2>3. ASSUME NEW h, Fixing(T, L, n, h)
        PROVE  (\A k \in L \ {p} : Even(U, k)) /\ h \in Nat /\ Close(h, new) /\ new \in Nat
    <3> HIDE DEF l, q, new
    <3> QED
      BY <1>4, <1>7, <2>2, <2>3
  <2> QED
    BY <2>2, <2>3
<1>8. CASE l # q + 2 /\ l + 2 # q
  <2>1. U = V /\ top = n
    BY <1>3, <1>8
  <2>2. \E R : IsTree(U, A, L, sc, IF p = NULL THEN top ELSE r, R)
    <3>1. r = IF p = NULL THEN top ELSE r
      BY <1>2, <2>1
    <3> HIDE DEF p
    <3> QED
      BY <1>1, <2>1, <3>1
  <2>3. ASSUME NEW h, Fixing(T, L, n, h)
        PROVE  (\A k \in L \ {p} : Even(U, k)) /\ h \in Nat /\ Close(h, new) /\ new \in Nat
    <3>1. Close(l, q)
      <4> HIDE DEF l, q
      <4> QED
        BY <1>4, <1>8, <2>3 DEF Close
    <3>2. new = 1 + Larger(l, q)
      BY <1>1, <2>1, TwoSides DEF HeightOf
    <3>3. \A k \in L \ {p} : Even(U, k)
      BY <1>1, <1>4, <2>1, <2>3, <3>1
    <3>4. new \in Nat
      <4>1. l \in Nat /\ q \in Nat
        BY <1>4, <2>3
      <4> HIDE DEF l, q, new
      <4> QED
        BY <3>2, <4>1 DEF Larger
    <3>5. h \in Nat /\ Close(h, new)
      <4>1. h \in Nat /\ (Close(l, q) => Close(h, 1 + Larger(l, q)))
        BY <1>4, <2>3
      <4> QED
        BY <3>1, <3>2, <4>1
    <3> QED
      BY <3>3, <3>4, <3>5
  <2> QED
    BY <1>1, <1>2, <2>1, <2>2, <2>3
<1> QED
  BY <1>6, <1>7, <1>8

(* What a balanced parent counts for a node is what the node has.            *)
LEMMA AboveEven ==
    ASSUME NEW T, NEW A, NEW L, NEW sc, NEW r, NEW S, IsTree(T, A, L, sc, r, S),
           NEW n, n \in L, Par(T, n) # NULL, Even(T, Par(T, n))
    PROVE  LET p == Par(T, n)
               y == avl_height(T, Kid(T, p, Other(SideOf(T, p, n))))
           IN  avl_height(T, p) = 1 + Larger(avl_height(T, n), y) /\ Close(avl_height(T, n), y)
<1> DEFINE p == Par(T, n)
           side == SideOf(T, p, n)
<1>1. p \in L /\ side \in Sides /\ Kid(T, p, side) = n
  BY ParentOf
<1>2. Typed(T, A) /\ p \in A
  BY <1>1 DEF IsTree
<1>3. /\ avl_height(T, p) = HeightOf(T, p, side)
      /\ Close(avl_height(T, Kid(T, p, side)), avl_height(T, Kid(T, p, Other(side))))
  BY <1>1, <1>2, EvenSides
<1> QED
  BY <1>1, <1>3 DEF HeightOf

(* The next iteration, at the parent.                                        *)
LEMMA FixNext ==
    ASSUME NEW T, NEW A, NEW L, NEW sc, NEW r, NEW S, IsTree(T, A, L, sc, r, S),
           NEW n, n \in L, NEW h, Fixing(T, L, n, h), Par(T, n) # NULL,
           NEW U, NEW top, Topped(T, U, A, S, n, top),
           NEW q, NEW R, IsTree(U, A, L, sc, q, R),
           \A k \in L \ {Par(T, n)} : Even(U, k),
           h \in Nat, Close(h, avl_height(U, top))
    PROVE  Fixing(U, L, Par(T, n), avl_height(T, Par(T, n)))
<1> DEFINE p == Par(T, n)
           pp == Par(U, p)
           side == SideOf(T, p, n)
           sib == Kid(T, p, Other(side))
           hp == avl_height(T, p)
<1>1. /\ p \in L /\ side \in Sides /\ Kid(T, p, side) = n /\ p \notin S[n]
      /\ L \subseteq A /\ NULL \notin A /\ Typed(U, A) /\ S[n] \subseteq L
  <2>1. L \subseteq A /\ NULL \notin A /\ Typed(U, A) /\ S[n] \subseteq L
    BY DEF IsTree, Typed
  <2> QED
    BY <2>1, ParentOf
<1>2. hp = 1 + Larger(h, avl_height(T, sib)) /\ Close(h, avl_height(T, sib))
  BY <1>1 DEF Fixing
<1>3. sib \in L \cup {NULL} /\ sib \notin S[n]
  <2>1. sib \in L \cup {NULL} /\ \A m \in Sub(S, n) : m \notin Sub(S, sib)
    BY <1>1, TreeNode
  <2>2. sib # NULL => sib \in Sub(S, sib)
    BY <1>1, <2>1, TreeNode DEF Sub
  <2>3. Sub(S, n) = S[n]
    BY <1>1 DEF Sub
  <2> QED
    BY <1>1, <2>1, <2>2, <2>3
<1>4. /\ avl_height(U, sib) = avl_height(T, sib) /\ avl_height(U, p) = hp
      /\ Kid(U, p, side) = top /\ Kid(U, p, Other(side)) = sib
  BY <1>1, <1>3, TwoSides DEF Topped
<1>5. Due(U, p, hp)
  <2>1. /\ hp = 1 + Larger(h, avl_height(U, Kid(U, p, Other(side))))
        /\ Close(h, avl_height(U, Kid(U, p, Other(side))))
        /\ Close(h, avl_height(U, Kid(U, p, side)))
    BY <1>2, <1>4
  <2> HIDE DEF p, side, sib, hp
  <2> QED
    BY <1>1, <2>1, Zenon DEF Due
<1>6. \A k \in L \ {p, pp} : Even(U, k)
  OBVIOUS
<1>7. pp # NULL => LET y == avl_height(U, Kid(U, pp, Other(SideOf(U, pp, p)))) IN
                   avl_height(U, pp) = 1 + Larger(hp, y) /\ Close(hp, y)
  <2> SUFFICES ASSUME pp # NULL
               PROVE  LET y == avl_height(U, Kid(U, pp, Other(SideOf(U, pp, p)))) IN
                      avl_height(U, pp) = 1 + Larger(hp, y) /\ Close(hp, y)
    OBVIOUS
  <2>1. /\ pp \in L /\ pp # p /\ SideOf(U, pp, p) \in Sides
        /\ Kid(U, pp, SideOf(U, pp, p)) = p
    BY <1>1, ParentOf
  <2>2. Even(U, pp)
    BY <1>1, <2>1
  <2> QED
    BY <1>1, <1>4, <2>2, AboveEven
<1> QED
  BY <1>5, <1>6, <1>7 DEF Fixing

-----------------------------------------------------------------------------
(* avl_del_easy: the only kid of n, if it has one, takes the place of n.     *)
LEMMA EasyLinks ==
    ASSUME NEW T, NEW A, NEW L, NEW sc, NEW r, NEW S, IsTree(T, A, L, sc, r, S),
           NEW n, NEW side, n \in L, side \in Sides, Kid(T, n, Other(side)) = NULL,
           NEW V, Adopts(T, V, Kid(T, n, side), Par(T, n)),
           NEW U, Replaces(V, U, Par(T, n), n, Kid(T, n, side))
    PROVE  LET p == Par(T, n)
               child == Kid(T, n, side)
           IN
           /\ Typed(U, A) /\ SameHeights(T, U, A)
           /\ \A k \in L \ {n} : \A s \in Sides :
                 Kid(U, k, s) = IF Kid(T, k, s) = n THEN child ELSE Kid(T, k, s)
           /\ \A k \in L \ {n} : Par(U, k) = IF Par(T, k) = n THEN p ELSE Par(T, k)
<1> DEFINE p == Par(T, n)
           child == Kid(T, n, side)
<1>1. /\ Typed(T, A) /\ L \subseteq A /\ NULL \notin A /\ n \in A
      /\ child \in L \cup {NULL} /\ p \in L \cup {NULL} /\ p # n /\ child # n
      /\ child # NULL => Par(T, child) = n
      /\ child # NULL => p # child
  <2>1. Typed(T, A) /\ L \subseteq A /\ NULL \notin A /\ n \in A
    BY DEF IsTree, Typed
  <2>2. /\ child \in L \cup {NULL} /\ (child # NULL => Par(T, child) = n /\ child # n)
        /\ child # NULL => child \in S[child] /\ Sub(S, child) = S[child]
    BY TreeNode DEF Sub
  <2>3. p \in L \cup {NULL} /\ (p # NULL => p # n /\ p \notin S[n])
    BY ParentOf
  <2>4. child # NULL => child \in S[n]
    BY <2>2, TreeNode
  <2> QED
    BY <2>1, <2>2, <2>3, <2>4
<1>2. /\ Typed(V, A) /\ SameKids(T, V, A) /\ SameHeights(T, V, A)
      /\ \A k \in A : Par(V, k) = IF k = child THEN p ELSE Par(T, k)
  <2> HIDE DEF p, child
  <2> QED
    BY <1>1, Adopted DEF p, child
<1>3. /\ Typed(U, A) /\ SameParents(V, U, A) /\ SameHeights(V, U, A)
      /\ \A k \in A : \A s \in Sides :
            Kid(U, k, s) = IF k = p /\ s = SideOf(V, p, n) THEN child ELSE Kid(V, k, s)
  <2> HIDE DEF p, child
  <2> QED
    BY <1>1, <1>2, Replaced DEF p, child
<1>4. SameHeights(T, U, A)
  BY <1>2, <1>3 DEF SameHeights
<1>5. ASSUME NEW k \in L \ {n} PROVE Par(U, k) = IF Par(T, k) = n THEN p ELSE Par(T, k)
  <2>1. Par(U, k) = IF k = child THEN p ELSE Par(T, k)
    BY <1>1, <1>2, <1>3 DEF SameParents
  <2>2. Par(T, k) = n => k = child
    <3>1. k # NULL /\ n # NULL
      BY <1>1
    <3>2. Par(T, k) # NULL => \E s \in Sides : Kid(T, Par(T, k), s) = k
      BY ParentOf
    <3> QED
      BY <3>1, <3>2, TwoSides
  <2>3. k = child => Par(T, k) = n
    BY <1>1
  <2> QED
    BY <2>1, <2>2, <2>3
<1>6. ASSUME NEW k \in L \ {n}, NEW s \in Sides
      PROVE  Kid(U, k, s) = IF Kid(T, k, s) = n THEN child ELSE Kid(T, k, s)
  <2>1. Kid(V, k, s) = Kid(T, k, s) /\ (k = p => SideOf(V, p, n) = SideOf(T, p, n))
    <3>1. k \in A /\ \A t \in Sides : Kid(V, k, t) = Kid(T, k, t)
      BY <1>1, <1>2 DEF SameKids
    <3>2. /\ SideOf(V, k, n) = IF Kid(V, k, "left") = n THEN "left" ELSE "right"
          /\ SideOf(T, k, n) = IF Kid(T, k, "left") = n THEN "left" ELSE "right"
      BY DEF SideOf, Kid
    <3> QED
      BY <3>1, <3>2, TwoSides
  <2>2. Kid(T, k, s) = n => k = p
    BY <1>1, TreeNode
  <2>3. k = p => (Kid(T, k, s) = n <=> s = SideOf(T, p, n))
    <3>1. p # NULL => /\ SideOf(T, p, n) \in Sides /\ Kid(T, p, SideOf(T, p, n)) = n
                      /\ Kid(T, p, Other(SideOf(T, p, n))) # n
      BY ParentOf
    <3>2. k # NULL
      BY <1>1
    <3> QED
      BY <3>1, <3>2, TwoSides
  <2>4. Kid(U, k, s) = IF k = p /\ s = SideOf(V, p, n) THEN child ELSE Kid(V, k, s)
    BY <1>1, <1>3
  <2> QED
    BY <2>1, <2>2, <2>3, <2>4
<1> QED
  BY <1>3, <1>4, <1>5, <1>6

(* The subtrees without n.                                                   *)
Without(L, S, n) == [k \in L \ {n} |-> S[k] \ {n}]

LEMMA EasyTree ==
    ASSUME NEW T, NEW A, NEW L, NEW sc, NEW r, NEW S, IsTree(T, A, L, sc, r, S),
           NEW n, NEW side, n \in L, side \in Sides, Kid(T, n, Other(side)) = NULL,
           NEW V, Adopts(T, V, Kid(T, n, side), Par(T, n)),
           NEW U, Replaces(V, U, Par(T, n), n, Kid(T, n, side))
    PROVE  IsTree(U, A, L \ {n}, sc, IF Par(T, n) = NULL THEN Kid(T, n, side) ELSE r,
                  Without(L, S, n))
<1> DEFINE p == Par(T, n)
           child == Kid(T, n, side)
           M == L \ {n}
           R == [k \in M |-> S[k] \ {n}]
           top == IF p = NULL THEN child ELSE r
<1>1. /\ Typed(U, A)
      /\ \A k \in M : \A s \in Sides :
            Kid(U, k, s) = IF Kid(T, k, s) = n THEN child ELSE Kid(T, k, s)
      /\ \A k \in M : Par(U, k) = IF Par(T, k) = n THEN p ELSE Par(T, k)
  BY EasyLinks
<1>2. /\ L \subseteq A /\ NULL \notin A /\ IsFiniteSet(L) /\ Keys(L, sc) /\ S \in [L -> SUBSET L]
      /\ n # NULL
  BY DEF IsTree, Typed
<1>3. /\ child \in L \cup {NULL} /\ child # n /\ (child # NULL => Par(T, child) = n)
      /\ Sub(S, n) \ {n} = Sub(S, child) /\ n \notin Sub(S, child)
  <2>1. /\ child \in L \cup {NULL} /\ (child # NULL => Par(T, child) = n /\ child # n)
        /\ S[n] = {n} \cup Sub(S, child) \cup Sub(S, Kid(T, n, Other(side)))
        /\ n \notin Sub(S, child)
    BY TreeNode
  <2>2. Sub(S, Kid(T, n, Other(side))) = {} /\ Sub(S, n) = S[n]
    BY <1>2 DEF Sub
  <2> QED
    BY <1>2, <2>1, <2>2
<1>4. R \in [M -> SUBSET M] /\ IsFiniteSet(M) /\ Keys(M, sc)
  <2>1. IsFiniteSet(M)
    BY <1>2, FS_Subset
  <2> QED
    BY <1>2, <2>1 DEF Keys
<1>5. \A k \in M \cup {NULL} : Sub(R, k) = Sub(S, k) \ {n}
  BY <1>2 DEF Sub
<1>6. ASSUME NEW k \in M, NEW s \in Sides
      PROVE  /\ Sub(R, Kid(U, k, s)) = Sub(S, Kid(T, k, s)) \ {n}
             /\ Kid(U, k, s) # NULL => Kid(U, k, s) \in M /\ Par(U, Kid(U, k, s)) = k
  <2>1. Kid(T, k, s) \in L \cup {NULL} /\ (Kid(T, k, s) # NULL => Par(T, Kid(T, k, s)) = k)
    BY TreeNode
  <2>2. CASE Kid(T, k, s) = n
    <3>1. Kid(U, k, s) = child /\ p = k
      BY <1>1, <1>2, <2>1, <2>2
    <3>2. Sub(R, child) = Sub(S, n) \ {n}
      BY <1>3, <1>5
    <3>3. child # NULL => child \in M /\ Par(U, child) = k
      BY <1>1, <1>3, <3>1
    <3> HIDE DEF R, child, p
    <3> QED
      BY <2>2, <3>1, <3>2, <3>3
  <2>3. CASE Kid(T, k, s) # n
    <3>1. Kid(U, k, s) = Kid(T, k, s) /\ Kid(T, k, s) \in M \cup {NULL}
      BY <1>1, <2>1, <2>3
    <3>2. Kid(T, k, s) # NULL => Par(U, Kid(T, k, s)) = k
      BY <1>1, <2>1, <2>3
    <3> HIDE DEF R
    <3> QED
      BY <1>5, <3>1, <3>2
  <2> QED
    BY <2>2, <2>3
<1>7. ASSUME NEW k \in M
      PROVE  R[k] = {k} \cup Sub(R, Kid(U, k, "left")) \cup Sub(R, Kid(U, k, "right"))
  <2>1. S[k] = {k} \cup Sub(S, Kid(T, k, "left")) \cup Sub(S, Kid(T, k, "right"))
    BY DEF IsTree
  <2>2. R[k] = S[k] \ {n} /\ k # n
    OBVIOUS
  <2> HIDE DEF R
  <2> QED
    BY <1>6, <2>1, <2>2, TwoSides
<1>8. ASSUME NEW k \in M, NEW s \in Sides, Kid(U, k, s) # NULL
      PROVE  \A m \in R[Kid(U, k, s)] : On(sc, s, m, k)
  <2>1. \A m \in Sub(S, Kid(T, k, s)) : On(sc, s, m, k)
    BY TreeNode
  <2>2. R[Kid(U, k, s)] = Sub(R, Kid(U, k, s))
    BY <1>8 DEF Sub
  <2> HIDE DEF R
  <2> QED
    BY <1>6, <2>1, <2>2
<1>9. top \in M \cup {NULL} /\ Sub(R, top) = M /\ (top # NULL => Par(U, top) = NULL)
  <2>1. r \in L /\ S[r] = L /\ (p = NULL <=> n = r) /\ Par(T, r) = NULL
    <3>1. r \in L /\ S[r] = L /\ (p = NULL <=> n = r)
      BY ParentOf
    <3> QED
      BY <1>2, <3>1 DEF IsTree
  <2>2. CASE p = NULL
    <3>1. top = child /\ Sub(S, n) = L
      BY <1>2, <2>1, <2>2 DEF Sub
    <3>2. Sub(R, child) = L \ {n}
      BY <1>3, <1>5, <3>1
    <3>3. child # NULL => Par(U, child) = NULL
      BY <1>1, <1>3, <2>2
    <3> HIDE DEF R, child
    <3> QED
      BY <1>3, <3>1, <3>2, <3>3
  <2>3. CASE p # NULL
    <3>1. top = r /\ r \in M /\ Sub(S, r) = L
      BY <1>2, <2>1, <2>3 DEF Sub
    <3>2. Par(U, r) = NULL
      BY <1>1, <1>2, <2>1, <3>1
    <3> HIDE DEF R, top
    <3> QED
      BY <1>5, <3>1, <3>2
  <2> QED
    BY <2>2, <2>3
<1>10. IsTree(U, A, M, sc, top, R)
  <2>1. M \subseteq A
    BY <1>2
  <2> HIDE DEF R, top, M
  <2> QED
    BY <1>1, <1>4, <1>6, <1>7, <1>8, <1>9, <2>1 DEF IsTree
<1> QED
  BY <1>10 DEF Without

(* The balance after it.                                                     *)
LEMMA EasyEven ==
    ASSUME NEW T, NEW A, NEW L, NEW sc, NEW r, NEW S, IsTree(T, A, L, sc, r, S),
           NEW n, NEW side, n \in L, side \in Sides, Kid(T, n, Other(side)) = NULL,
           NEW V, Adopts(T, V, Kid(T, n, side), Par(T, n)),
           NEW U, Replaces(V, U, Par(T, n), n, Kid(T, n, side)),
           \A k \in L : Even(T, k)
    PROVE  /\ \A k \in L \ {n, Par(T, n)} : Even(U, k)
           /\ Par(T, n) # NULL => Fixing(U, L \ {n}, Par(T, n), avl_height(T, Par(T, n)))
<1> DEFINE p == Par(T, n)
           child == Kid(T, n, side)
           M == L \ {n}
<1>1. /\ Typed(U, A) /\ SameHeights(T, U, A)
      /\ \A k \in M : \A s \in Sides :
            Kid(U, k, s) = IF Kid(T, k, s) = n THEN child ELSE Kid(T, k, s)
      /\ \A k \in M : Par(U, k) = IF Par(T, k) = n THEN p ELSE Par(T, k)
  BY EasyLinks
<1>2. /\ Typed(T, A) /\ L \subseteq A /\ NULL \notin A /\ n # NULL /\ n \in A
      /\ p \in L \cup {NULL} /\ p # n
      /\ child \in L \cup {NULL}
  <2>1. Typed(T, A) /\ L \subseteq A /\ NULL \notin A /\ n # NULL /\ n \in A
    BY DEF IsTree, Typed
  <2> QED
    BY <2>1, ParentOf, TreeNode
<1>3. \A k \in A \cup {NULL} : avl_height(U, k) = avl_height(T, k) /\ avl_cnt(U, k) = avl_cnt(T, k)
  BY <1>1 DEF SameHeights
<1>4. ASSUME NEW k \in L \ {n, p} PROVE Even(U, k)
  <2>1. \A s \in Sides : Kid(T, k, s) \in A \cup {NULL} /\ Kid(T, k, s) # n
    <3>1. \A s \in Sides : Kid(T, k, s) \in L \cup {NULL}
                           /\ (Kid(T, k, s) # NULL => Par(T, Kid(T, k, s)) = k)
      BY TreeNode
    <3> QED
      BY <1>2, <3>1
  <2>2. Even(U, k) <=> Even(T, k)
    <3>1. k \in A /\ \A s \in Sides : Kid(U, k, s) = Kid(T, k, s)
      BY <1>1, <1>2, <2>1
    <3> QED
      BY <1>1, <1>2, <1>3, <2>1, <3>1, SameEven
  <2> QED
    BY <2>2
<1>5. ASSUME p # NULL PROVE Fixing(U, M, p, avl_height(T, p))
  <2> DEFINE t == SideOf(T, p, n)
             sib == Kid(T, p, Other(t))
             hp == avl_height(T, p)
             hn == avl_height(T, n)
  <2>1. p \in M /\ t \in Sides /\ Kid(T, p, t) = n /\ Kid(T, p, Other(t)) # n /\ p \in A
    BY <1>2, <1>5, ParentOf
  <2>2. hp = 1 + Larger(hn, avl_height(T, sib)) /\ Close(hn, avl_height(T, sib))
    BY <1>2, <1>5, AboveEven
  <2>3. hn \in Nat /\ Close(hn, avl_height(T, child))
    <3>1. /\ hn = HeightOf(T, n, side) /\ avl_height(T, Kid(T, n, Other(side))) = 0
      BY <1>2, EvenSides DEF avl_height
    <3>2. hn = 1 + Larger(avl_height(T, child), 0) /\ avl_height(T, child) \in Nat /\ hn \in Nat
      BY <1>2, <3>1, Heights DEF HeightOf
    <3> HIDE DEF hn, child
    <3> QED
      BY <3>2 DEF Larger, Close
  <2>4. Kid(U, p, t) = child /\ Kid(U, p, Other(t)) = sib /\ sib \in A \cup {NULL}
    <3>1. sib \in L \cup {NULL}
      BY <1>2, <2>1, TreeNode, TwoSides
    <3> QED
      BY <1>1, <1>2, <2>1, <3>1, TwoSides
  <2>5. Due(U, p, hp)
    <3>1. /\ hp = 1 + Larger(hn, avl_height(U, Kid(U, p, Other(t))))
          /\ Close(hn, avl_height(U, Kid(U, p, Other(t))))
          /\ Close(hn, avl_height(U, Kid(U, p, t)))
      BY <1>2, <1>3, <2>2, <2>3, <2>4
    <3> HIDE DEF p, t, hp, hn
    <3> QED
      BY <2>1, <2>3, <3>1, Zenon DEF Due
  <2>6. \A k \in M \ {p, Par(U, p)} : Even(U, k)
    BY <1>4
  <2>7. ASSUME Par(U, p) # NULL
        PROVE  LET y == avl_height(U, Kid(U, Par(U, p), Other(SideOf(U, Par(U, p), p)))) IN
               avl_height(U, Par(U, p)) = 1 + Larger(hp, y) /\ Close(hp, y)
    <3> DEFINE top == IF p = NULL THEN child ELSE r
               R == Without(L, S, n)
    <3>1. IsTree(U, A, M, sc, top, R)
      BY EasyTree
    <3>2. Par(U, p) \in M /\ Par(U, p) # p
      <4>1. p \in M
        BY <2>1
      <4> HIDE DEF p, M, child, top, R
      <4> QED
        BY <2>7, <3>1, <4>1, ParentIn
    <3>3. Even(U, Par(U, p)) /\ avl_height(U, p) = hp
      BY <1>2, <1>3, <1>4, <2>1, <3>2
    <3> HIDE DEF p, M, child, hp, top, R
    <3> QED
      BY <2>1, <2>7, <3>1, <3>3, AboveEven
  <2> QED
    BY <2>5, <2>6, <2>7 DEF Fixing
<1> QED
  BY <1>4, <1>5

-----------------------------------------------------------------------------
(* The way down.                                                             *)
Toward(sc, n, m) == IF zless(sc[n], n, sc[m], m) THEN "left" ELSE "right"

(* The search for the place of n has left u for a: of all the nodes that u   *)
(* is below, n is on the same side as u.                                     *)
Seek(T, L, sc, S, r, n, u, a) ==
    /\ u = NULL => a = r
    /\ u # NULL => u \in L /\ a = Kid(T, u, Toward(sc, n, u))
    /\ \A k \in L, side \in Sides : u \in Sub(S, Kid(T, k, side)) => On(sc, side, n, k)

LEMMA Towards ==
    ASSUME NEW sc, NEW n \in Names, NEW m \in Names, n # m, sc[n] \in Int, sc[m] \in Int
    PROVE  Toward(sc, n, m) \in Sides /\ On(sc, Toward(sc, n, m), n, m)
<1>1. n \in Int /\ m \in Int
  BY ZSetAssumption
<1> QED
  BY <1>1 DEF Toward, zless, On, Before, Sides

(* The first node.                                                           *)
LEMMA AttachFirst ==
    ASSUME NEW T, NEW A, Typed(T, A), NEW n, n \in A, n \in Names,
           NEW sc, sc[n] \in Int, T[n] = NewNode,
           NEW U, PutsParent(T, U, n, NULL)
    PROVE  /\ \E R : IsTree(U, A, {n}, sc, n, R)
           /\ Fixing(U, {n}, n, 0)
<1>1. /\ Typed(U, A) /\ Par(U, n) = NULL /\ n # NULL /\ NULL \notin A
      /\ \A s \in Sides : Kid(U, n, s) = NULL
  <2>1. \A s \in Sides : Kid(T, n, s) = NULL
    BY DEF Kid, Sides, NewNode
  <2>2. Typed(U, A) /\ SameKids(T, U, A) /\ Par(U, n) = NULL
    BY ParentPut
  <2>3. NULL \notin A
    BY DEF Typed
  <2> QED
    BY <2>1, <2>2, <2>3 DEF SameKids
<1> DEFINE R == [k \in {n} |-> {n}]
<1>2. IsTree(U, A, {n}, sc, n, R)
  <2>1. IsFiniteSet({n}) /\ Keys({n}, sc) /\ {n} \subseteq A
    BY FS_Singleton DEF Keys
  <2>2. R \in [{n} -> SUBSET {n}] /\ R[n] = {n}
    OBVIOUS
  <2>3. Sub(R, n) = {n} /\ Sub(R, NULL) = {}
    BY <1>1, <2>2 DEF Sub
  <2> HIDE DEF R
  <2> QED
    BY <1>1, <2>1, <2>2, <2>3, TwoSides DEF IsTree
<1>3. Fixing(U, {n}, n, 0)
  <2>1. Due(U, n, 0)
    BY <1>1 DEF Due, avl_height
  <2> QED
    BY <1>1, <2>1 DEF Fixing
<1> QED
  BY <1>2, <1>3

(* The subtrees with n below u.                                              *)
With(L, S, n, u) ==
    [k \in L \cup {n} |-> IF k = n THEN {n} ELSE IF u \in S[k] THEN S[k] \cup {n} ELSE S[k]]

LEMMA AttachLinks ==
    ASSUME NEW T, NEW A, NEW L, NEW sc, NEW r, NEW S, IsTree(T, A, L, sc, r, S),
           NEW n, n \in A, n \notin L, n \in Names, sc[n] \in Int, T[n] = NewNode,
           NEW u, u \in L, NEW side, side \in Sides, Kid(T, u, side) = NULL,
           NEW V, PutsSide(T, V, u, side, n), NEW U, PutsParent(V, U, n, u)
    PROVE  /\ Typed(U, A) /\ SameHeights(T, U, A)
           /\ \A k \in A : \A s \in Sides :
                 Kid(U, k, s) = IF k = u /\ s = side THEN n ELSE Kid(T, k, s)
           /\ \A k \in A : Par(U, k) = IF k = n THEN u ELSE Par(T, k)
           /\ \A s \in Sides : Kid(T, n, s) = NULL
           /\ avl_height(T, n) = 1
<1>1. Typed(T, A) /\ u \in A /\ n \in A \cup {NULL} /\ n # NULL
  BY DEF IsTree, Typed
<1>2. /\ Typed(V, A) /\ SameParents(T, V, A) /\ SameHeights(T, V, A)
      /\ \A k \in A : \A s \in Sides :
            Kid(V, k, s) = IF k = u /\ s = side THEN n ELSE Kid(T, k, s)
  BY <1>1, SidePut
<1>3. /\ Typed(U, A) /\ SameKids(V, U, A) /\ SameHeights(V, U, A)
      /\ \A k \in A : Par(U, k) = IF k = n THEN u ELSE Par(V, k)
  BY <1>1, <1>2, ParentPut
<1>4. SameHeights(T, U, A)
  BY <1>2, <1>3 DEF SameHeights
<1>5. \A k \in A : Par(U, k) = IF k = n THEN u ELSE Par(T, k)
  BY <1>2, <1>3 DEF SameParents
<1>6. \A k \in A : \A s \in Sides :
         Kid(U, k, s) = IF k = u /\ s = side THEN n ELSE Kid(T, k, s)
  BY <1>2, <1>3 DEF SameKids
<1>7. (\A s \in Sides : Kid(T, n, s) = NULL) /\ avl_height(T, n) = 1
  BY <1>1 DEF Kid, Sides, NewNode, avl_height
<1> QED
  BY <1>3, <1>4, <1>5, <1>6, <1>7

LEMMA AttachTree ==
    ASSUME NEW T, NEW A, NEW L, NEW sc, NEW r, NEW S, IsTree(T, A, L, sc, r, S),
           NEW n, n \in A, n \notin L, n \in Names, sc[n] \in Int, T[n] = NewNode,
           NEW u, u \in L, NEW side, side \in Sides, Kid(T, u, side) = NULL, On(sc, side, n, u),
           \A k \in L, s \in Sides : u \in Sub(S, Kid(T, k, s)) => On(sc, s, n, k),
           NEW V, PutsSide(T, V, u, side, n), NEW U, PutsParent(V, U, n, u)
    PROVE  IsTree(U, A, L \cup {n}, sc, r, With(L, S, n, u))
<1> DEFINE R == With(L, S, n, u)
           M == L \cup {n}
<1>1. /\ Typed(U, A)
      /\ \A k \in A : \A s \in Sides :
            Kid(U, k, s) = IF k = u /\ s = side THEN n ELSE Kid(T, k, s)
      /\ \A k \in A : Par(U, k) = IF k = n THEN u ELSE Par(T, k)
      /\ \A s \in Sides : Kid(T, n, s) = NULL
  BY AttachLinks
<1>2. /\ L \subseteq A /\ NULL \notin A /\ IsFiniteSet(L) /\ Keys(L, sc) /\ S \in [L -> SUBSET L]
      /\ n # u /\ NULL \notin M
  BY DEF IsTree, Typed
<1>3. IsFiniteSet(M) /\ Keys(M, sc) /\ M \subseteq A
  <2>1. IsFiniteSet(M)
    BY <1>2, FS_AddElement
  <2> QED
    BY <1>2, <2>1 DEF Keys
<1>4. /\ R \in [M -> SUBSET M] /\ R[n] = {n}
      /\ \A k \in L : R[k] = IF u \in S[k] THEN S[k] \cup {n} ELSE S[k]
  BY <1>2 DEF With
<1>5. /\ Sub(R, n) = {n}
      /\ \A k \in L \cup {NULL} : Sub(R, k) = IF u \in Sub(S, k) THEN Sub(S, k) \cup {n} ELSE Sub(S, k)
  <2> HIDE DEF R
  <2> QED
    BY <1>2, <1>4 DEF Sub
<1>6. ASSUME NEW k \in L, NEW s \in Sides
      PROVE  /\ Kid(U, k, s) # NULL => /\ Kid(U, k, s) \in M /\ Par(U, Kid(U, k, s)) = k
             /\ Sub(R, Kid(U, k, s)) \subseteq M
             /\ \A m \in Sub(R, Kid(U, k, s)) : On(sc, s, m, k)
             /\ Sub(R, Kid(U, k, s)) \ {n} = Sub(S, Kid(T, k, s))
             /\ n \in Sub(R, Kid(U, k, s)) <=>
                   u \in Sub(S, Kid(T, k, s)) \/ (k = u /\ s = side)
  <2>1. /\ Kid(T, k, s) \in L \cup {NULL} /\ (Kid(T, k, s) # NULL => Par(T, Kid(T, k, s)) = k)
        /\ \A m \in Sub(S, Kid(T, k, s)) : m \in L /\ On(sc, s, m, k)
        /\ k \in A
    BY TreeNode
  <2>2. CASE k = u /\ s = side
    <3>1. Kid(U, k, s) = n /\ Par(U, n) = k /\ Sub(S, Kid(T, k, s)) = {}
      BY <1>1, <2>1, <2>2 DEF Sub
    <3> HIDE DEF R
    <3> QED
      BY <1>5, <2>2, <3>1
  <2>3. CASE ~(k = u /\ s = side)
    <3>1. Kid(U, k, s) = Kid(T, k, s) /\ (Kid(T, k, s) # NULL => Par(U, Kid(T, k, s)) = k)
      BY <1>1, <1>2, <2>1, <2>3
    <3>2. /\ Sub(R, Kid(U, k, s)) \ {n} = Sub(S, Kid(T, k, s))
          /\ n \in Sub(R, Kid(U, k, s)) <=> u \in Sub(S, Kid(T, k, s))
      <4> HIDE DEF R
      <4> QED
        BY <1>5, <2>1, <3>1
    <3>3. u \in Sub(S, Kid(T, k, s)) => On(sc, s, n, k)
      OBVIOUS
    <3> HIDE DEF R
    <3> QED
      BY <2>1, <2>3, <3>1, <3>2, <3>3
  <2> QED
    BY <2>2, <2>3
<1>7. ASSUME NEW k \in L
      PROVE  R[k] = {k} \cup Sub(R, Kid(U, k, "left")) \cup Sub(R, Kid(U, k, "right"))
  <2>1. S[k] = {k} \cup Sub(S, Kid(T, k, "left")) \cup Sub(S, Kid(T, k, "right"))
    BY DEF IsTree
  <2>2. R[k] \ {n} = S[k] /\ (n \in R[k] <=> u \in S[k])
    <3>1. n \notin S[k]
      BY <1>2
    <3> HIDE DEF R
    <3> QED
      BY <1>4, <3>1
  <2>3. n \in R[k] <=> n \in Sub(R, Kid(U, k, "left")) \/ n \in Sub(R, Kid(U, k, "right"))
    <3>1. u \in S[k] <=> k = u \/ u \in Sub(S, Kid(T, k, "left")) \/ u \in Sub(S, Kid(T, k, "right"))
      BY <2>1
    <3> HIDE DEF R
    <3> QED
      BY <1>6, <2>2, <3>1, TwoSides
  <2>4. /\ Sub(R, Kid(U, k, "left")) \ {n} = Sub(S, Kid(T, k, "left"))
        /\ Sub(R, Kid(U, k, "right")) \ {n} = Sub(S, Kid(T, k, "right"))
    BY <1>6, TwoSides
  <2> HIDE DEF R
  <2> QED
    BY <2>1, <2>2, <2>3, <2>4
<1>8. (\A s \in Sides : Kid(U, n, s) = NULL) /\ Sub(R, NULL) = {}
  BY <1>1, <1>2 DEF Sub
<1>9. r \in M /\ Sub(R, r) = M /\ Par(U, r) = NULL
  <2>1. r \in L /\ Sub(S, r) = L /\ Par(T, r) = NULL
    BY <1>2, ParentOf DEF IsTree, Sub
  <2>2. Sub(R, r) = M
    <3> HIDE DEF R
    <3> QED
      BY <1>5, <2>1
  <2> QED
    BY <1>1, <1>2, <2>1, <2>2
<1>10. ASSUME NEW k \in M
       PROVE  /\ R[k] = {k} \cup Sub(R, Kid(U, k, "left")) \cup Sub(R, Kid(U, k, "right"))
              /\ \A s \in Sides :
                    LET c == Kid(U, k, s) IN
                    c # NULL => c \in M /\ Par(U, c) = k /\ \A m \in R[c] : On(sc, s, m, k)
  <2>1. CASE k = n
    <3> HIDE DEF R
    <3> QED
      BY <1>4, <1>8, <2>1, TwoSides
  <2>2. CASE k \in L
    <3>1. \A c \in M : Sub(R, c) = R[c]
      BY <1>2 DEF Sub
    <3> HIDE DEF R, M
    <3> QED
      BY <1>6, <1>7, <2>2, <3>1
  <2> QED
    BY <2>1, <2>2
<1>11. IsTree(U, A, M, sc, r, R)
  <2> HIDE DEF R, M
  <2> QED
    BY <1>1, <1>3, <1>4, <1>9, <1>10 DEF IsTree
<1> QED
  BY <1>11

LEMMA AttachEven ==
    ASSUME NEW T, NEW A, NEW L, NEW sc, NEW r, NEW S, IsTree(T, A, L, sc, r, S),
           NEW n, n \in A, n \notin L, n \in Names, sc[n] \in Int, T[n] = NewNode,
           NEW u, u \in L, NEW side, side \in Sides, Kid(T, u, side) = NULL,
           NEW V, PutsSide(T, V, u, side, n), NEW U, PutsParent(V, U, n, u),
           \A k \in L : Even(T, k)
    PROVE  Fixing(U, L \cup {n}, n, 0)
<1>1. /\ Typed(U, A) /\ SameHeights(T, U, A)
      /\ \A k \in A : \A s \in Sides :
            Kid(U, k, s) = IF k = u /\ s = side THEN n ELSE Kid(T, k, s)
      /\ Par(U, n) = u
      /\ \A s \in Sides : Kid(T, n, s) = NULL
  BY AttachLinks
<1>2. Typed(T, A) /\ L \subseteq A /\ NULL \notin A /\ n # u /\ u \in A
  BY DEF IsTree, Typed
<1>3. \A k \in A \cup {NULL} : avl_height(U, k) = avl_height(T, k) /\ avl_cnt(U, k) = avl_cnt(T, k)
  BY <1>1 DEF SameHeights
<1>4. ASSUME NEW k \in L \ {u} PROVE Even(U, k)
  <2>1. \A s \in Sides : Kid(U, k, s) = Kid(T, k, s) /\ Kid(T, k, s) \in A \cup {NULL}
    BY <1>1, <1>2, TreeNode
  <2> QED
    BY <1>1, <1>2, <1>3, <2>1, SameEven
<1>5. SideOf(U, u, n) = side
  <2>1. SideOf(U, u, n) = IF Kid(U, u, "left") = n THEN "left" ELSE "right"
    BY DEF SideOf, Kid
  <2>2. Kid(T, u, "left") # n
    BY <1>2, TreeNode, TwoSides
  <2> QED
    BY <1>1, <1>2, <2>1, <2>2, TwoSides
<1> DEFINE y == avl_height(U, Kid(U, u, Other(side)))
<1>6. avl_height(U, u) = 1 + Larger(0, y) /\ Close(0, y)
  <2>1. y = avl_height(T, Kid(T, u, Other(side)))
    <3>1. Kid(T, u, Other(side)) \in A \cup {NULL}
      BY <1>2, TreeNode
    <3> QED
      BY <1>1, <1>2, <1>3, <3>1, TwoSides
  <2>2. avl_height(T, Kid(T, u, side)) = 0
    BY DEF avl_height
  <2>3. avl_height(T, u) = HeightOf(T, u, side)
        /\ Close(avl_height(T, Kid(T, u, side)), avl_height(T, Kid(T, u, Other(side))))
    BY <1>2, EvenSides
  <2> QED
    BY <1>2, <1>3, <2>1, <2>2, <2>3 DEF HeightOf
<1>7. Due(U, n, 0)
  <2>1. \A s \in Sides : Kid(U, n, s) = NULL
    BY <1>1, <1>2
  <2> QED
    BY <2>1 DEF Due, avl_height
<1>8. \A k \in (L \cup {n}) \ {n, u} : Even(U, k)
  BY <1>4
<1>9. LET z == avl_height(U, Kid(U, Par(U, n), Other(SideOf(U, Par(U, n), n)))) IN
      avl_height(U, Par(U, n)) = 1 + Larger(0, z) /\ Close(0, z)
  BY <1>1, <1>5, <1>6
<1> QED
  BY <1>1, <1>7, <1>8, <1>9 DEF Fixing

-----------------------------------------------------------------------------
LEMMA SeekStart ==
    ASSUME NEW T, NEW A, NEW L, NEW sc, NEW r, NEW S, IsTree(T, A, L, sc, r, S), NEW n
    PROVE  Seek(T, L, sc, S, r, n, NULL, r)
<1>1. \A k \in L, side \in Sides : NULL \notin Sub(S, Kid(T, k, side))
  <2>1. NULL \notin L
    BY DEF IsTree, Typed
  <2> QED
    BY <2>1, TreeNode
<1> QED
  BY <1>1 DEF Seek

LEMMA SeekStep ==
    ASSUME NEW T, NEW A, NEW L, NEW sc, NEW r, NEW S, IsTree(T, A, L, sc, r, S),
           NEW n, n \notin L, n \in Names, sc[n] \in Int,
           NEW u, NEW a, Seek(T, L, sc, S, r, n, u, a), a # NULL
    PROVE  /\ a \in L /\ Toward(sc, n, a) \in Sides
           /\ Seek(T, L, sc, S, r, n, a, Kid(T, a, Toward(sc, n, a)))
<1>1. L \subseteq Names /\ \A k \in L : sc[k] \in Int /\ k # n /\ NULL # k
  BY DEF IsTree, Keys, Typed
<1>2. CASE u = NULL
  <2>1. a = r /\ a \in L /\ Par(T, a) = NULL
    BY <1>2 DEF Seek, IsTree
  <2>2. ASSUME NEW k \in L, NEW side \in Sides PROVE a \notin Sub(S, Kid(T, k, side))
    <3> SUFFICES ASSUME a \in Sub(S, Kid(T, k, side)) PROVE FALSE
      OBVIOUS
    <3>1. Kid(T, k, side) \in L /\ Sub(S, Kid(T, k, side)) = S[Kid(T, k, side)] /\ Par(T, Kid(T, k, side)) = k
      BY TreeNode DEF Sub
    <3>2. a = Kid(T, k, side) \/ Par(T, a) \in S[Kid(T, k, side)]
      BY <3>1, SubOf
    <3>3. NULL \notin S[Kid(T, k, side)]
      BY <1>1, <3>1, TreeNode
    <3> QED
      BY <1>1, <2>1, <3>1, <3>2, <3>3
  <2>3. Toward(sc, n, a) \in Sides
    BY <1>1, <2>1, Towards
  <2> QED
    BY <1>1, <2>1, <2>2, <2>3 DEF Seek
<1>3. CASE u # NULL
  <2> DEFINE side == Toward(sc, n, u)
  <2>1. u \in L /\ a = Kid(T, u, side) /\ side \in Sides /\ On(sc, side, n, u)
    <3>1. u \in L /\ a = Kid(T, u, side)
      BY <1>3 DEF Seek
    <3> QED
      BY <1>1, <3>1, Towards
  <2>2. a \in L /\ Par(T, a) = u /\ Kid(T, u, Other(side)) # a
    <3> HIDE DEF side
    <3> QED
      BY <2>1, TreeNode
  <2>3. ASSUME NEW k \in L, NEW s \in Sides, a \in Sub(S, Kid(T, k, s)) PROVE On(sc, s, n, k)
    <3>1. /\ Kid(T, k, s) \in L /\ Sub(S, Kid(T, k, s)) = S[Kid(T, k, s)]
          /\ Par(T, Kid(T, k, s)) = k
      BY <2>3, TreeNode DEF Sub
    <3>2. CASE a = Kid(T, k, s)
      <4>1. k = u /\ s = side
        <5> HIDE DEF side
        <5> QED
          BY <2>1, <2>2, <3>1, <3>2, TwoSides
      <4> QED
        BY <2>1, <4>1
    <3>3. CASE a # Kid(T, k, s)
      <4>1. u \in Sub(S, Kid(T, k, s))
        BY <2>2, <2>3, <3>1, <3>3, SubOf
      <4> QED
        BY <1>3, <4>1 DEF Seek
    <3> QED
      BY <3>2, <3>3
  <2>4. Toward(sc, n, a) \in Sides
    BY <1>1, <2>2, Towards
  <2> QED
    BY <1>1, <2>2, <2>3, <2>4 DEF Seek
<1> QED
  BY <1>2, <1>3

(* The successor of n is a or below it.                                      *)
Succ(T, L, sc, S, n, a) ==
    /\ a \in Sub(S, Kid(T, n, "right"))
    /\ \A m \in L : On(sc, "right", m, n) => m \in S[a] \/ On(sc, "right", m, a)

(* Whatever is on one side of n is on that side of v.                        *)
Twins(L, sc, n, v) ==
    \A m \in L \ {n}, side \in Sides : On(sc, side, m, n) => On(sc, side, m, v)

LEMMA SuccStart ==
    ASSUME NEW T, NEW A, NEW L, NEW sc, NEW r, NEW S, IsTree(T, A, L, sc, r, S),
           NEW n, n \in L, Kid(T, n, "right") # NULL
    PROVE  Succ(T, L, sc, S, n, Kid(T, n, "right"))
<1> DEFINE a == Kid(T, n, "right")
<1>1. a \in L /\ a \in Sub(S, a) /\ Sub(S, a) = S[a] /\ On(sc, "right", a, n) /\ Keys(L, sc)
  <2>1. a \in L /\ a \in Sub(S, a) /\ Sub(S, a) = S[a] /\ On(sc, "right", a, n)
    BY TreeNode, TwoSides DEF Sub
  <2> QED
    BY <2>1 DEF IsTree
<1>2. ASSUME NEW m \in L, On(sc, "right", m, n), m \notin S[a] PROVE On(sc, "right", m, a)
  <2>1. m \notin S[n]
    <3>1. /\ S[n] = {n} \cup Sub(S, a) \cup Sub(S, Kid(T, n, "left"))
          /\ \A x \in Sub(S, Kid(T, n, "left")) : On(sc, "left", x, n)
      BY TreeNode, TwoSides
    <3>2. ~On(sc, "right", n, n) /\ ~On(sc, "left", m, n)
      BY <1>1, <1>2, OnOrder, TwoSides
    <3> HIDE DEF a
    <3> QED
      BY <1>1, <1>2, <3>1, <3>2
  <2>2. PICK side \in Sides : \A x \in S[n] : On(sc, side, x, m)
    BY <2>1, Convex
  <2>3. n \in S[n] /\ a \in S[n]
    BY <1>1, TreeNode, TwoSides
  <2>4. On(sc, side, n, m) /\ On(sc, side, a, m)
    BY <2>2, <2>3
  <2>5. On(sc, "left", n, m) /\ ~On(sc, "right", n, m)
    BY <1>1, <1>2, OnOrder, TwoSides
  <2>6. side = "left"
    BY <2>4, <2>5, TwoSides
  <2> QED
    BY <1>1, <2>4, <2>6, OnOrder, TwoSides
<1> QED
  BY <1>1, <1>2 DEF Succ

LEMMA SuccStep ==
    ASSUME NEW T, NEW A, NEW L, NEW sc, NEW r, NEW S, IsTree(T, A, L, sc, r, S),
           NEW n, n \in L, NEW a, Succ(T, L, sc, S, n, a), Kid(T, a, "left") # NULL
    PROVE  /\ Kid(T, a, "left") \in L
           /\ Succ(T, L, sc, S, n, Kid(T, a, "left"))
<1> DEFINE k == Kid(T, n, "right")
           b == Kid(T, a, "left")
<1>1. k \in L /\ Sub(S, k) = S[k] /\ a \in S[k]
  <2>1. k \in L /\ Sub(S, k) = S[k]
    BY TreeNode, TwoSides DEF Succ, Sub
  <2> QED
    BY <2>1 DEF Succ
<1>2. a \in L /\ S[a] \subseteq S[k]
  <2> HIDE DEF k
  <2> QED
    BY <1>1, SubOf
<1>3. /\ b \in L /\ b \in S[b] /\ S[b] \subseteq S[a]
      /\ S[a] = {a} \cup S[b] \cup Sub(S, Kid(T, a, "right"))
      /\ On(sc, "left", b, a)
      /\ \A m \in Sub(S, Kid(T, a, "right")) : m \in L /\ On(sc, "right", m, a)
      /\ Keys(L, sc)
  <2>1. b \in L /\ b \in S[b] /\ Sub(S, b) = S[b] /\ On(sc, "left", b, a)
    BY <1>2, TreeNode, TwoSides DEF Sub
  <2>2. S[a] = {a} \cup Sub(S, b) \cup Sub(S, Kid(T, a, "right"))
    BY <1>2, TreeNode, TwoSides
  <2>3. \A m \in Sub(S, Kid(T, a, "right")) : m \in L /\ On(sc, "right", m, a)
    BY <1>2, TreeNode, TwoSides
  <2>4. Keys(L, sc)
    BY DEF IsTree
  <2> HIDE DEF b
  <2> QED
    BY <2>1, <2>2, <2>3, <2>4
<1>4. ASSUME NEW m \in L, On(sc, "right", m, n), m \notin S[b] PROVE On(sc, "right", m, b)
  <2>1. On(sc, "right", a, b)
    BY <1>2, <1>3, OnOrder, TwoSides
  <2>2. On(sc, "right", m, a) \/ m = a
    <3>1. m \in S[a] \/ On(sc, "right", m, a)
      BY <1>4 DEF Succ
    <3> HIDE DEF b
    <3> QED
      BY <1>3, <1>4, <3>1
  <2> HIDE DEF b
  <2> QED
    BY <1>2, <1>3, <2>1, <2>2, OnOrder, TwoSides
<1> HIDE DEF b, k
<1>5. b \in S[k]
  BY <1>2, <1>3
<1>6. b \in L /\ Succ(T, L, sc, S, n, b)
  <2>1. Sub(S, Kid(T, n, "right")) = S[k]
    BY <1>1 DEF k
  <2> QED
    BY <1>3, <1>4, <1>5, <2>1 DEF Succ
<1> QED
  BY <1>6 DEF b

LEMMA SuccTwins ==
    ASSUME NEW T, NEW A, NEW L, NEW sc, NEW r, NEW S, IsTree(T, A, L, sc, r, S),
           NEW n, n \in L, NEW a, Succ(T, L, sc, S, n, a), Kid(T, a, "left") = NULL
    PROVE  a \in L \ {n} /\ Twins(L \ {a}, sc, n, a)
<1>1. a \in L /\ On(sc, "right", a, n) /\ Keys(L, sc)
  <2>1. a \in L /\ On(sc, "right", a, n)
    BY TreeNode, TwoSides DEF Succ
  <2> QED
    BY <2>1 DEF IsTree
<1>2. a # n
  BY <1>1, OnOrder, TwoSides
<1>3. \A m \in S[a] : m = a \/ On(sc, "right", m, a)
  <2>1. S[a] = {a} \cup Sub(S, Kid(T, a, "left")) \cup Sub(S, Kid(T, a, "right"))
    BY <1>1, TreeNode, TwoSides
  <2>2. \A m \in Sub(S, Kid(T, a, "right")) : On(sc, "right", m, a)
    BY <1>1, TreeNode, TwoSides
  <2> QED
    BY <2>1, <2>2 DEF Sub
<1>4. ASSUME NEW m \in (L \ {a}) \ {n}, NEW side \in Sides, On(sc, side, m, n)
      PROVE  On(sc, side, m, a)
  <2>1. CASE side = "right"
    BY <1>3, <1>4, <2>1 DEF Succ
  <2>2. CASE side = "left"
    <3>1. On(sc, "left", n, a)
      BY <1>1, OnOrder, TwoSides
    <3> QED
      BY <1>1, <1>4, <2>2, <3>1, OnOrder, TwoSides
  <2> QED
    BY <2>1, <2>2, TwoSides
<1> QED
  BY <1>1, <1>2, <1>4 DEF Twins

-----------------------------------------------------------------------------
(* The successor v takes the place of n.                                     *)
As(n, v, x) == IF x = n THEN v ELSE x
Image(n, v, X) == {As(n, v, x) : x \in X}

Copies(T, C, n, v) == C = [T EXCEPT ![v] = T[n]]

LEMMA Copied ==
    ASSUME NEW T, NEW C, NEW n, NEW v, Copies(T, C, n, v),
           NEW A, Typed(T, A), n \in A, v \in A
    PROVE  /\ Typed(C, A)
           /\ \A k \in A : /\ Par(C, k) = Par(T, As(v, n, k))
                           /\ \A s \in Sides : Kid(C, k, s) = Kid(T, As(v, n, k), s)
                           /\ avl_height(C, k) = avl_height(T, As(v, n, k))
                           /\ avl_cnt(C, k) = avl_cnt(T, As(v, n, k))
<1>1. T \in [A -> Node(A)] /\ NULL \notin A
  BY DEF Typed
<1>2. C \in [A -> Node(A)] /\ \A k \in A : C[k] = T[As(v, n, k)]
  BY <1>1 DEF As, Copies
<1>3. ASSUME NEW k \in A
      PROVE  /\ Par(C, k) = Par(T, As(v, n, k))
             /\ \A s \in Sides : Kid(C, k, s) = Kid(T, As(v, n, k), s)
             /\ avl_height(C, k) = avl_height(T, As(v, n, k))
             /\ avl_cnt(C, k) = avl_cnt(T, As(v, n, k))
  <2>1. PICK x : x = As(v, n, k)
    OBVIOUS
  <2>2. C[k] = T[x] /\ k # NULL /\ x # NULL
    BY <1>1, <1>2, <2>1 DEF As
  <2>3. /\ Par(C, k) = Par(T, x) /\ avl_height(C, k) = avl_height(T, x)
        /\ \A s \in Sides : Kid(C, k, s) = Kid(T, x, s)
        /\ avl_cnt(C, k) = avl_cnt(T, x)
    BY <2>2 DEF Par, Kid, avl_height, avl_cnt
  <2> QED
    BY <2>1, <2>3
<1> QED
  BY <1>1, <1>2, <1>3 DEF Typed

LEMMA SwapLinks ==
    ASSUME NEW T, NEW A, NEW L, NEW sc, NEW r, NEW S, IsTree(T, A, L, sc, r, S),
           NEW n, n \in L, NEW v, v \in A, v \notin L,
           NEW C, Copies(T, C, n, v),
           NEW D, Adopts(C, D, Kid(T, n, "left"), v),
           NEW E, Adopts(D, E, Kid(T, n, "right"), v),
           NEW U, Replaces(E, U, Par(T, n), n, v)
    PROVE  /\ Typed(U, A)
           /\ \A k \in L : /\ Par(U, As(n, v, k)) = As(n, v, Par(T, k))
                           /\ \A s \in Sides : Kid(U, As(n, v, k), s) = As(n, v, Kid(T, k, s))
           /\ \A k \in L \cup {NULL} : /\ avl_height(U, As(n, v, k)) = avl_height(T, k)
                                       /\ avl_cnt(U, As(n, v, k)) = avl_cnt(T, k)
<1> DEFINE p == Par(T, n)
           a == Kid(T, n, "left")
           b == Kid(T, n, "right")
<1>1. /\ Typed(T, A) /\ L \subseteq A /\ NULL \notin A /\ n # NULL /\ n \in A /\ v # NULL /\ v # n
      /\ p \in L \cup {NULL} /\ p # n /\ p # v
      /\ a \in L \cup {NULL} /\ b \in L \cup {NULL} /\ a # v /\ b # v
  <2>1. Typed(T, A) /\ L \subseteq A /\ NULL \notin A
    BY DEF IsTree, Typed
  <2>2. p \in L \cup {NULL} /\ p # n
    BY <2>1, ParentOf
  <2>3. a \in L \cup {NULL} /\ b \in L \cup {NULL}
    BY TreeNode, TwoSides
  <2> HIDE DEF p, a, b
  <2> QED
    BY <2>1, <2>2, <2>3
<1>2. /\ Typed(C, A)
      /\ \A k \in A : /\ Par(C, k) = Par(T, As(v, n, k))
                      /\ \A s \in Sides : Kid(C, k, s) = Kid(T, As(v, n, k), s)
                      /\ avl_height(C, k) = avl_height(T, As(v, n, k))
                      /\ avl_cnt(C, k) = avl_cnt(T, As(v, n, k))
  BY <1>1, Copied
<1>3. /\ Typed(D, A) /\ SameKids(C, D, A) /\ SameHeights(C, D, A)
      /\ \A k \in A : Par(D, k) = IF k = a THEN v ELSE Par(C, k)
  <2>1. a \in A \cup {NULL} /\ v \in A \cup {NULL}
    BY <1>1
  <2> QED
    BY <1>2, <2>1, Adopted
<1>4. /\ Typed(E, A) /\ SameKids(D, E, A) /\ SameHeights(D, E, A)
      /\ \A k \in A : Par(E, k) = IF k = b THEN v ELSE Par(D, k)
  <2>1. b \in A \cup {NULL} /\ v \in A \cup {NULL}
    BY <1>1
  <2> QED
    BY <1>3, <2>1, Adopted
<1>5. /\ Typed(U, A) /\ SameParents(E, U, A) /\ SameHeights(E, U, A)
      /\ \A k \in A : \A s \in Sides :
            Kid(U, k, s) = IF k = p /\ s = SideOf(E, p, n) THEN v ELSE Kid(E, k, s)
  <2>1. p \in A \cup {NULL} /\ v \in A \cup {NULL}
    BY <1>1
  <2> QED
    BY <1>4, <2>1, Replaced
<1>6. \A k \in A : \A s \in Sides : Kid(E, k, s) = Kid(T, As(v, n, k), s)
  BY <1>2, <1>3, <1>4, Zenon DEF SameKids
<1>7. \A k \in A : Par(U, k) = IF k = a \/ k = b THEN v ELSE Par(T, As(v, n, k))
  <2> HIDE DEF a, b, p
  <2>1. \A k \in A : Par(U, k) = Par(E, k)
    BY <1>5 DEF SameParents
  <2> QED
    BY <1>2, <1>3, <1>4, <2>1
<1>8. \A k \in A : /\ avl_height(U, k) = avl_height(T, As(v, n, k))
                   /\ avl_cnt(U, k) = avl_cnt(T, As(v, n, k))
  BY <1>2, <1>3, <1>4, <1>5, Zenon DEF SameHeights
<1>9. p # NULL => SideOf(E, p, n) = SideOf(T, p, n)
  <2>1. p # NULL => Kid(E, p, "left") = Kid(T, p, "left")
    BY <1>1, <1>6, TwoSides DEF As
  <2> QED
    BY <2>1 DEF SideOf, Kid
<1> HIDE DEF p, a, b
<1>10. ASSUME NEW k \in L, NEW s \in Sides PROVE Kid(U, As(n, v, k), s) = As(n, v, Kid(T, k, s))
  <2>1. CASE k = n
    <3>1. Kid(U, v, s) = Kid(T, n, s)
      BY <1>1, <1>5, <1>6 DEF As
    <3>2. Kid(T, n, s) # n
      BY <1>1, TreeNode
    <3> QED
      BY <2>1, <3>1, <3>2 DEF As
  <2>2. CASE k # n
    <3>1. As(n, v, k) = k /\ As(v, n, k) = k /\ k \in A /\ k # NULL
      BY <1>1, <2>2 DEF As
    <3>2. Kid(U, k, s) = IF k = p /\ s = SideOf(T, p, n) THEN v ELSE Kid(T, k, s)
      BY <1>5, <1>6, <1>9, <3>1
    <3>3. Kid(T, k, s) = n <=> k = p /\ s = SideOf(T, p, n)
      <4>1. Kid(T, k, s) = n => Par(T, n) = k
        BY <1>1, TreeNode
      <4>2. p # NULL => /\ SideOf(T, p, n) \in Sides /\ Kid(T, p, SideOf(T, p, n)) = n
                        /\ Kid(T, p, Other(SideOf(T, p, n))) # n
        BY ParentOf DEF p
      <4> QED
        BY <3>1, <4>1, <4>2, TwoSides DEF p
    <3> QED
      BY <3>1, <3>2, <3>3 DEF As
  <2> QED
    BY <2>1, <2>2
<1>11. ASSUME NEW k \in L PROVE Par(U, As(n, v, k)) = As(n, v, Par(T, k))
  <2>1. CASE k = n
    <3>1. Par(U, v) = p
      BY <1>1, <1>7 DEF As, p
    <3> QED
      BY <1>1, <2>1, <3>1 DEF As, p
  <2>2. CASE k # n
    <3>1. As(n, v, k) = k /\ As(v, n, k) = k /\ k \in A /\ k # NULL
      BY <1>1, <2>2 DEF As
    <3>2. Par(U, k) = IF k = a \/ k = b THEN v ELSE Par(T, k)
      BY <1>7, <3>1
    <3>3. Par(T, k) = n <=> k = a \/ k = b
      <4>1. k = a \/ k = b => Par(T, k) = n
        BY <3>1, TreeNode, TwoSides DEF a, b
      <4>2. Par(T, k) = n => \E s \in Sides : Kid(T, n, s) = k
        BY <1>1, ParentOf
      <4> QED
        BY <4>1, <4>2, TwoSides DEF a, b
    <3> QED
      BY <3>1, <3>2, <3>3 DEF As
  <2> QED
    BY <2>1, <2>2
<1>12. ASSUME NEW k \in L \cup {NULL}
       PROVE  /\ avl_height(U, As(n, v, k)) = avl_height(T, k)
              /\ avl_cnt(U, As(n, v, k)) = avl_cnt(T, k)
  <2>1. CASE k = NULL
    BY <1>1, <2>1 DEF As, avl_height, avl_cnt
  <2>2. CASE k \in L
    <3>1. As(n, v, k) \in A /\ As(v, n, As(n, v, k)) = k
      BY <1>1, <2>2 DEF As
    <3> QED
      BY <1>8, <3>1
  <2> QED
    BY <2>1, <2>2
<1> QED
  BY <1>5, <1>10, <1>11, <1>12

LEMMA Images ==
    ASSUME NEW n, NEW v
    PROVE  /\ \A X, Y : Image(n, v, X \cup Y) = Image(n, v, X) \cup Image(n, v, Y)
           /\ \A x : Image(n, v, {x}) = {As(n, v, x)}
           /\ Image(n, v, {}) = {}
           /\ \A X : \A y : y \in Image(n, v, X) <=> \E x \in X : y = As(n, v, x)
BY DEF Image

RenamedSub(L, S, n, v) == [k \in Image(n, v, L) |-> Image(n, v, S[As(v, n, k)])]

LEMMA RenamedOn ==
    ASSUME NEW L, NEW sc, Keys(L, sc), NEW n, NEW v, n \in L, v \in Names, sc[v] \in Int,
           v \notin L, Twins(L, sc, n, v),
           NEW s \in Sides, NEW y \in L, NEW k \in L, On(sc, s, y, k)
    PROVE  On(sc, s, As(n, v, y), As(n, v, k))
<1>1. y # k
  BY OnOrder
<1>2. Keys(L \cup {v}, sc)
  BY DEF Keys
<1>3. CASE y = n
  <2>1. k # n /\ Other(s) \in Sides /\ On(sc, Other(s), k, n)
    BY <1>1, <1>3, OnOrder
  <2>2. On(sc, Other(s), k, v)
    BY <2>1 DEF Twins
  <2>3. v \in L \cup {v} /\ k \in L \cup {v} /\ Other(Other(s)) = s
    BY TwoSides
  <2>4. On(sc, Other(Other(s)), v, k)
    BY ONLY <1>2, <2>1, <2>2, <2>3, OnOrder
  <2> QED
    BY <1>3, <2>1, <2>3, <2>4 DEF As
<1>4. CASE k = n /\ y # n
  BY <1>4 DEF Twins, As
<1>5. CASE k # n /\ y # n
  BY <1>5 DEF As
<1> QED
  BY <1>3, <1>4, <1>5

LEMMA SwapTree ==
    ASSUME NEW T, NEW A, NEW L, NEW sc, NEW r, NEW S, IsTree(T, A, L, sc, r, S),
           NEW n, n \in L, NEW v, v \in A, v \notin L, v \in Names, sc[v] \in Int,
           Twins(L, sc, n, v),
           NEW U, Typed(U, A),
           \A k \in L : /\ Par(U, As(n, v, k)) = As(n, v, Par(T, k))
                        /\ \A s \in Sides : Kid(U, As(n, v, k), s) = As(n, v, Kid(T, k, s))
    PROVE  IsTree(U, A, (L \ {n}) \cup {v}, sc, IF Par(T, n) = NULL THEN v ELSE r,
                  RenamedSub(L, S, n, v))
<1> DEFINE M == (L \ {n}) \cup {v}
           R == RenamedSub(L, S, n, v)
           F(x) == As(n, v, x)
           top == IF Par(T, n) = NULL THEN v ELSE r
<1>1. /\ L \subseteq A /\ NULL \notin A /\ IsFiniteSet(L) /\ Keys(L, sc) /\ S \in [L -> SUBSET L]
      /\ n # v /\ n # NULL /\ v # NULL /\ NULL \notin M
  BY DEF IsTree, Typed
<1>2. /\ \A k \in L : F(k) \in M /\ As(v, n, F(k)) = k
      /\ \A k \in M : \E x \in L : k = F(x)
      /\ F(NULL) = NULL /\ Image(n, v, L) = M
  <2>1. /\ \A k \in L : F(k) \in M /\ As(v, n, F(k)) = k
        /\ F(NULL) = NULL
    BY <1>1 DEF As
  <2>2. ASSUME NEW k \in M PROVE \E x \in L : k = F(x)
    <3>1. CASE k = v
      <4>1. F(n) = v
        BY DEF As
      <4> QED
        BY <3>1, <4>1
    <3>2. CASE k # v
      <4>1. F(k) = k /\ k \in L
        BY <3>2 DEF As
      <4> QED
        BY <4>1
    <3> QED
      BY <3>1, <3>2
  <2> HIDE DEF F, M
  <2>3. \A y : y \in Image(n, v, L) <=> \E x \in L : y = F(x)
    BY DEF Image, F
  <2> QED
    BY <2>1, <2>2, <2>3
<1>3. IsFiniteSet(M) /\ Keys(M, sc) /\ M \subseteq A
  <2>1. IsFiniteSet(L \ {n})
    BY <1>1, FS_Subset
  <2>2. IsFiniteSet(M)
    BY <2>1, FS_AddElement
  <2> QED
    BY <1>1, <2>2 DEF Keys
<1>4. \A k \in L \cup {NULL} : Sub(R, F(k)) = Image(n, v, Sub(S, k))
  <2>1. ASSUME NEW k \in L PROVE Sub(R, F(k)) = Image(n, v, Sub(S, k))
    <3>1. F(k) # NULL /\ F(k) \in Image(n, v, L) /\ k # NULL
      BY <1>1, <1>2
    <3>2. R[F(k)] = Image(n, v, S[As(v, n, F(k))])
      BY <3>1 DEF RenamedSub
    <3> HIDE DEF R, F
    <3> QED
      BY <1>2, <3>1, <3>2 DEF Sub
  <2>2. Sub(R, F(NULL)) = Image(n, v, Sub(S, NULL))
    <3> HIDE DEF R, F
    <3> QED
      BY <1>2, Images DEF Sub
  <2> QED
    BY <2>1, <2>2
<1>5. R \in [M -> SUBSET M]
  <2>1. R = [k \in M |-> Image(n, v, S[As(v, n, k)])]
    BY <1>2 DEF RenamedSub
  <2>2. ASSUME NEW k \in M PROVE Image(n, v, S[As(v, n, k)]) \in SUBSET M
    <3>1. PICK x \in L : k = F(x)
      BY <1>2
    <3>2. S[As(v, n, k)] \subseteq L
      <4> HIDE DEF F
      <4> QED
        BY <1>1, <1>2, <3>1
    <3> HIDE DEF F, M
    <3>3. \A y \in L : As(n, v, y) \in M
      BY <1>2 DEF F
    <3> QED
      BY <3>2, <3>3 DEF Image
  <2> HIDE DEF R, M
  <2> QED
    BY <2>1, <2>2
<1>6. ASSUME NEW k \in L
      PROVE  R[F(k)] = {F(k)} \cup Sub(R, Kid(U, F(k), "left")) \cup Sub(R, Kid(U, F(k), "right"))
  <2> DEFINE a == Kid(T, k, "left")
             b == Kid(T, k, "right")
  <2>1. S[k] = ({k} \cup Sub(S, a)) \cup Sub(S, b) /\ a \in L \cup {NULL} /\ b \in L \cup {NULL}
    BY TreeNode, TwoSides
  <2>2. Kid(U, F(k), "left") = F(a) /\ Kid(U, F(k), "right") = F(b)
    BY TwoSides
  <2>3. R[F(k)] = Sub(R, F(k)) /\ Sub(S, k) = S[k]
    BY <1>1, <1>2 DEF Sub
  <2> HIDE DEF a, b, R
  <2>4. Sub(R, F(a)) = Image(n, v, Sub(S, a)) /\ Sub(R, F(b)) = Image(n, v, Sub(S, b))
        /\ Sub(R, F(k)) = Image(n, v, S[k])
    BY <1>4, <2>1, <2>3
  <2>5. Image(n, v, S[k]) = ({F(k)} \cup Image(n, v, Sub(S, a))) \cup Image(n, v, Sub(S, b))
    <3>1. /\ \A X, Y : Image(n, v, X \cup Y) = Image(n, v, X) \cup Image(n, v, Y)
          /\ Image(n, v, {k}) = {As(n, v, k)}
      BY DEF Image
    <3> HIDE DEF F
    <3>2. Image(n, v, S[k]) = Image(n, v, {k} \cup Sub(S, a)) \cup Image(n, v, Sub(S, b))
      BY <2>1, <3>1, Zenon
    <3>3. Image(n, v, {k} \cup Sub(S, a)) = Image(n, v, {k}) \cup Image(n, v, Sub(S, a))
      BY ONLY <3>1, Zenon
    <3>4. Image(n, v, {k}) = {F(k)}
      BY ONLY <3>1 DEF F
    <3> QED
      BY ONLY <3>2, <3>3, <3>4, Zenon
  <2> QED
    BY <2>2, <2>3, <2>4, <2>5
<1>7. ASSUME NEW k \in L, NEW s \in Sides, Kid(U, F(k), s) # NULL
      PROVE  /\ Kid(U, F(k), s) \in M /\ Par(U, Kid(U, F(k), s)) = F(k)
             /\ \A m \in R[Kid(U, F(k), s)] : On(sc, s, m, F(k))
  <2> DEFINE c == Kid(T, k, s)
  <2>1. Kid(U, F(k), s) = F(c)
    OBVIOUS
  <2>2. c \in L /\ Par(T, c) = k /\ \A m \in Sub(S, c) : m \in L /\ On(sc, s, m, k)
    <3>1. c # NULL
      BY <1>2, <1>7, <2>1
    <3>2. c \in L \cup {NULL} /\ Par(T, c) = k /\ \A m \in Sub(S, c) : m \in L /\ On(sc, s, m, k)
      BY <3>1, TreeNode
    <3> QED
      BY <3>1, <3>2
  <2> HIDE DEF c
  <2>3. F(c) \in M /\ Par(U, F(c)) = F(k) /\ F(c) # NULL
    BY <1>1, <1>2, <2>2
  <2>4. R[F(c)] = Image(n, v, Sub(S, c))
    <3>1. R[F(c)] = Sub(R, F(c))
      BY <2>3 DEF Sub
    <3> HIDE DEF R, F
    <3> QED
      BY <1>4, <2>2, <3>1
  <2>5. ASSUME NEW m \in R[F(c)] PROVE On(sc, s, m, F(k))
    <3>1. PICK y \in Sub(S, c) : m = F(y)
      <4> HIDE DEF R
      <4> QED
        BY <2>4 DEF Image
    <3>2. On(sc, s, F(y), F(k))
      BY <1>1, <2>2, RenamedOn
    <3> QED
      BY <3>1, <3>2
  <2> QED
    BY <2>1, <2>3, <2>5
<1>8. top \in M /\ Sub(R, top) = M /\ Par(U, top) = NULL
  <2>1. r \in L /\ Sub(S, r) = L /\ Par(T, r) = NULL /\ (Par(T, n) = NULL <=> n = r)
    <3>1. r \in L /\ S[r] = L /\ (Par(T, n) = NULL <=> n = r)
      BY ParentOf
    <3> QED
      BY <1>1, <3>1 DEF IsTree, Sub
  <2>2. top = F(r)
    BY <2>1 DEF As
  <2>3. F(r) \in M /\ Par(U, F(r)) = F(NULL)
    BY <1>2, <2>1
  <2>4. Sub(R, F(r)) = M
    <3> HIDE DEF R, F, M
    <3> QED
      BY <1>2, <1>4, <2>1
  <2> QED
    BY <1>2, <2>2, <2>3, <2>4
<1>9. ASSUME NEW k \in M
      PROVE  /\ R[k] = {k} \cup Sub(R, Kid(U, k, "left")) \cup Sub(R, Kid(U, k, "right"))
             /\ \A s \in Sides :
                   LET c == Kid(U, k, s) IN
                   c # NULL => c \in M /\ Par(U, c) = k /\ \A m \in R[c] : On(sc, s, m, k)
  <2>1. PICK x \in L : k = F(x)
    BY <1>2
  <2> HIDE DEF R, F, M
  <2> QED
    BY <1>6, <1>7, <2>1
<1>10. IsTree(U, A, M, sc, top, R)
  <2> HIDE DEF R, M, top
  <2> QED
    BY <1>3, <1>5, <1>8, <1>9 DEF IsTree
<1> QED
  BY <1>10

LEMMA SwapEven ==
    ASSUME NEW T, NEW A, NEW L, NEW sc, NEW r, NEW S, IsTree(T, A, L, sc, r, S),
           NEW n, n \in L, NEW v,
           NEW U,
           \A k \in L : \A s \in Sides : Kid(U, As(n, v, k), s) = As(n, v, Kid(T, k, s)),
           \A k \in L \cup {NULL} : /\ avl_height(U, As(n, v, k)) = avl_height(T, k)
                                    /\ avl_cnt(U, As(n, v, k)) = avl_cnt(T, k),
           \A k \in L : Even(T, k)
    PROVE  \A k \in (L \ {n}) \cup {v} : Even(U, k)
<1>1. ASSUME NEW k \in L PROVE Even(U, As(n, v, k))
  <2> DEFINE a == Kid(T, k, "left")
             b == Kid(T, k, "right")
             x == As(n, v, k)
  <2>1. a \in L \cup {NULL} /\ b \in L \cup {NULL}
    BY TreeNode, TwoSides
  <2>2. Kid(U, x, "left") = As(n, v, a) /\ Kid(U, x, "right") = As(n, v, b)
    BY TwoSides
  <2> HIDE DEF a, b
  <2>3. /\ avl_height(U, As(n, v, a)) = avl_height(T, a) /\ avl_cnt(U, As(n, v, a)) = avl_cnt(T, a)
        /\ avl_height(U, As(n, v, b)) = avl_height(T, b) /\ avl_cnt(U, As(n, v, b)) = avl_cnt(T, b)
        /\ avl_height(U, x) = avl_height(T, k) /\ avl_cnt(U, x) = avl_cnt(T, k)
    BY <2>1
  <2> HIDE DEF x
  <2>4. HeightOf(U, x, "left") = HeightOf(T, k, "left") /\ CntOf(U, x, "left") = CntOf(T, k, "left")
    BY <2>2, <2>3, TwoSides DEF HeightOf, CntOf, a, b
  <2>5. Even(T, k)
    OBVIOUS
  <2>6. Even(U, x)
    BY <2>2, <2>3, <2>4, <2>5 DEF Even, a, b
  <2> QED
    BY <2>6 DEF x
<1>2. As(n, v, n) = v /\ \A k \in L \ {n} : As(n, v, k) = k
  BY DEF As
<1> QED
  BY <1>1, <1>2

-----------------------------------------------------------------------------
(* The names in the order of the tree.                                       *)
Ordered(sc, s) == \A i, j \in DOMAIN s : i < j => On(sc, "left", s[i], s[j])

LEMMA Joined ==
    ASSUME NEW X, NEW sc, NEW s, s \in Seq(X), NEW t, t \in Seq(X),
           Ordered(sc, s), Ordered(sc, t),
           \A x \in Range(s), y \in Range(t) : On(sc, "left", x, y)
    PROVE  s \o t \in Seq(X) /\ Range(s \o t) = Range(s) \cup Range(t) /\ Ordered(sc, s \o t)
<1> DEFINE j == s \o t
           m == Len(s)
           n == Len(t)
<1>1. /\ j \in Seq(X) /\ m \in Nat /\ n \in Nat /\ Len(j) = m + n
      /\ \A i \in 1..(m + n) : j[i] = IF i <= m THEN s[i] ELSE t[i - m]
  BY ConcatProperties, LenProperties
<1>2. DOMAIN j = 1..(m + n) /\ DOMAIN s = 1..m /\ DOMAIN t = 1..n
  BY <1>1, LenProperties
<1> HIDE DEF j, m, n
<1>3. \A i \in 1..m : i \in 1..(m + n) /\ j[i] = s[i]
  BY <1>1
<1>4. \A i \in 1..n : i + m \in 1..(m + n) /\ j[i + m] = t[i]
  BY <1>1
<1>5. \A i \in 1..(m + n) : i \in 1..m \/ (i - m \in 1..n /\ i = (i - m) + m)
  BY <1>1
<1>6. \A i \in 1..m : s[i] \in Range(s)
  BY <1>2 DEF Range
<1>7. \A i \in 1..n : t[i] \in Range(t)
  BY <1>2 DEF Range
<1>8. ASSUME NEW i \in DOMAIN j, NEW k \in DOMAIN j, i < k PROVE On(sc, "left", j[i], j[k])
  <2>0. i \in Int /\ k \in Int
    BY <1>1, <1>2
  <2>1. CASE k \in 1..m
    <3>1. i \in 1..m
      BY <1>1, <1>2, <1>8, <2>1
    <3>2. On(sc, "left", s[i], s[k])
      BY <1>2, <1>8, <2>1, <3>1 DEF Ordered
    <3> QED
      BY <1>3, <2>1, <3>1, <3>2
  <2>2. CASE i \in 1..m /\ k - m \in 1..n
    <3>1. j[k] = t[k - m]
      BY <1>2, <1>4, <1>5, <2>2, <2>0, <1>1
    <3> QED
      BY <1>3, <1>6, <1>7, <2>2, <3>1
  <2>3. CASE i - m \in 1..n /\ k - m \in 1..n
    <3>1. i - m < k - m
      BY <1>1, <1>8, <2>0
    <3>2. On(sc, "left", t[i - m], t[k - m])
      BY <1>2, <2>3, <3>1 DEF Ordered
    <3>3. (i - m) + m = i /\ (k - m) + m = k
      BY <1>1, <2>0
    <3>4. j[i] = t[i - m] /\ j[k] = t[k - m]
      BY <1>4, <2>3, <3>3
    <3> QED
      BY <3>2, <3>4
  <2> QED
    BY <1>2, <1>5, <2>1, <2>2, <2>3
<1>9. Range(j) = Range(s) \cup Range(t)
  <2>1. ASSUME NEW x \in Range(j) PROVE x \in Range(s) \cup Range(t)
    <3>1. PICK i \in 1..(m + n) : x = j[i]
      BY <1>2 DEF Range
    <3> QED
      BY <1>3, <1>4, <1>5, <1>6, <1>7, <3>1
  <2>2. ASSUME NEW x \in Range(s) PROVE x \in Range(j)
    <3>1. PICK i \in 1..m : x = s[i]
      BY <1>2 DEF Range
    <3> QED
      BY <1>2, <1>3, <3>1 DEF Range
  <2>3. ASSUME NEW x \in Range(t) PROVE x \in Range(j)
    <3>1. PICK i \in 1..n : x = t[i]
      BY <1>2 DEF Range
    <3> QED
      BY <1>2, <1>4, <3>1 DEF Range
  <2> QED
    BY <2>1, <2>2, <2>3
<1>10. Ordered(sc, j)
  BY <1>8 DEF Ordered
<1> QED
  BY <1>1, <1>9, <1>10 DEF j

(* f lists the names below the nodes of D, in order.                         *)
Lists(T, D, f) ==
    /\ DOMAIN f = D \cup {NULL} /\ f[NULL] = << >>
    /\ \A n \in D : f[n] = f[Kid(T, n, "left")] \o <<n>> \o f[Kid(T, n, "right")]

(* What any such function must be.                                           *)
LEMMA ListsRight ==
    ASSUME NEW T, NEW A, NEW L, NEW sc, NEW r, NEW S, IsTree(T, A, L, sc, r, S),
           NEW f, Lists(T, L, f)
    PROVE  \A n \in L \cup {NULL} : /\ f[n] \in Seq(L) /\ Range(f[n]) = Sub(S, n)
                                    /\ Ordered(sc, f[n])
<1> DEFINE Good(n) == f[n] \in Seq(L) /\ Range(f[n]) = Sub(S, n) /\ Ordered(sc, f[n])
           Q == {n \in L : Good(n)}
<1>1. Good(NULL)
  <2>1. << >> \in Seq(L) /\ DOMAIN << >> = {}
    BY EmptySeq
  <2>2. Range(<< >>) = {} /\ Ordered(sc, << >>)
    BY <2>1 DEF Range, Ordered
  <2> QED
    BY <2>1, <2>2 DEF Lists, Sub
<1>2. ASSUME NEW n \in L, \A side \in Sides : Kid(T, n, side) \in Q \cup {NULL} PROVE Good(n)
  <2> DEFINE a == Kid(T, n, "left")
             b == Kid(T, n, "right")
  <2>1. Good(a) /\ Good(b)
    <3> HIDE DEF Good
    <3> QED
      BY <1>1, <1>2, TwoSides
  <2>2. f[n] = (f[a] \o <<n>>) \o f[b]
    BY DEF Lists
  <2>3. /\ S[n] = {n} \cup Sub(S, a) \cup Sub(S, b) /\ n # NULL /\ Keys(L, sc)
        /\ \A m \in Sub(S, a) : m \in L /\ On(sc, "left", m, n)
        /\ \A m \in Sub(S, b) : m \in L /\ On(sc, "right", m, n)
    <3>1. /\ S[n] = {n} \cup Sub(S, a) \cup Sub(S, b) /\ n # NULL
          /\ \A m \in Sub(S, a) : m \in L /\ On(sc, "left", m, n)
      BY TreeNode, TwoSides
    <3>2. \A m \in Sub(S, b) : m \in L /\ On(sc, "right", m, n)
      BY TreeNode, TwoSides
    <3>3. Keys(L, sc)
      BY DEF IsTree
    <3> QED
      BY <3>1, <3>2, <3>3
  <2> HIDE DEF a, b
  <2>4. <<n>> \in Seq(L) /\ Range(<<n>>) = {n} /\ Ordered(sc, <<n>>)
    <3>1. <<n>> \in Seq(L) /\ DOMAIN <<n>> = {1} /\ <<n>>[1] = n
      OBVIOUS
    <3> QED
      BY <3>1 DEF Range, Ordered
  <2>5. /\ f[a] \o <<n>> \in Seq(L) /\ Range(f[a] \o <<n>>) = Sub(S, a) \cup {n}
        /\ Ordered(sc, f[a] \o <<n>>)
    <3>1. \A x \in Range(f[a]), y \in Range(<<n>>) : On(sc, "left", x, y)
      BY <2>1, <2>3, <2>4
    <3>2. f[a] \in Seq(L) /\ Ordered(sc, f[a]) /\ Range(f[a]) = Sub(S, a)
      BY <2>1
    <3> DEFINE u == f[a]
               w == <<n>>
    <3>3. /\ u \in Seq(L) /\ Ordered(sc, u) /\ Range(u) = Sub(S, a)
          /\ w \in Seq(L) /\ Ordered(sc, w) /\ Range(w) = {n}
          /\ \A x \in Range(u), y \in Range(w) : On(sc, "left", x, y)
      BY <2>4, <3>1, <3>2
    <3> HIDE DEF u, w
    <3>4. u \o w \in Seq(L) /\ Range(u \o w) = Sub(S, a) \cup {n} /\ Ordered(sc, u \o w)
      BY <3>3, Joined
    <3> QED
      BY <3>4 DEF u, w
  <2>6. \A x \in Sub(S, a) \cup {n}, y \in Sub(S, b) : On(sc, "left", x, y)
    <3> SUFFICES ASSUME NEW x \in Sub(S, a) \cup {n}, NEW y \in Sub(S, b)
                 PROVE  On(sc, "left", x, y)
      OBVIOUS
    <3>1. y \in L /\ On(sc, "left", n, y)
      BY <2>3, OnOrder, TwoSides
    <3> QED
      BY <2>3, <3>1, OnOrder, TwoSides
  <2>7. /\ f[n] \in Seq(L) /\ Range(f[n]) = (Sub(S, a) \cup {n}) \cup Sub(S, b)
        /\ Ordered(sc, f[n])
    <3>1. f[b] \in Seq(L) /\ Ordered(sc, f[b]) /\ Range(f[b]) = Sub(S, b)
      BY <2>1
    <3> DEFINE u == f[a] \o <<n>>
               w == f[b]
    <3>2. /\ u \in Seq(L) /\ Ordered(sc, u) /\ Range(u) = Sub(S, a) \cup {n}
          /\ w \in Seq(L) /\ Ordered(sc, w) /\ Range(w) = Sub(S, b) /\ f[n] = u \o w
      BY <2>2, <2>5, <3>1
    <3> HIDE DEF u, w
    <3>3. \A x \in Range(u), y \in Range(w) : On(sc, "left", x, y)
      BY <2>6, <3>2
    <3>4. /\ u \o w \in Seq(L) /\ Range(u \o w) = (Sub(S, a) \cup {n}) \cup Sub(S, b)
          /\ Ordered(sc, u \o w)
      BY <3>2, <3>3, Joined
    <3> QED
      BY <3>2, <3>4
  <2>8. Sub(S, n) = (Sub(S, a) \cup {n}) \cup Sub(S, b)
    BY <2>3 DEF Sub
  <2> QED
    BY <2>7, <2>8
<1>3. L \subseteq Q
  <2> HIDE DEF Good
  <2>1. \A n \in L : (\A side \in Sides : Kid(T, n, side) \in Q \cup {NULL}) => n \in Q
    BY <1>2
  <2> HIDE DEF Q
  <2> QED
    BY <2>1, TreeInduct
<1> QED
  BY <1>1, <1>3

(* There is one: the kids' lists make the list of their parent.              *)
LEMMA ListsExist ==
    ASSUME NEW T, NEW A, NEW L, NEW sc, NEW r, NEW S, IsTree(T, A, L, sc, r, S)
    PROVE  \E f : Lists(T, L, f)
<1> DEFINE Q == {n \in L : \E f : Lists(T, S[n], f)}
<1>0. \E f : Lists(T, {}, f)
  <2> DEFINE f == [n \in {NULL} |-> << >>]
  <2>1. Lists(T, {}, f)
    BY DEF Lists
  <2> QED
    BY <2>1
<1>1. ASSUME NEW n \in L, \A side \in Sides : Kid(T, n, side) \in Q \cup {NULL}
      PROVE  \E f : Lists(T, S[n], f)
  <2> DEFINE a == Kid(T, n, "left")
             b == Kid(T, n, "right")
             X == Sub(S, a)
             Y == Sub(S, b)
  <2>1. /\ \E g : Lists(T, X, g)
        /\ \E g : Lists(T, Y, g)
    <3>1. ASSUME NEW c \in Q \cup {NULL} PROVE \E g : Lists(T, Sub(S, c), g)
      BY <1>0 DEF Sub
    <3> HIDE DEF Q
    <3> QED
      BY <1>1, <3>1, TwoSides
  <2>2. PICK g : Lists(T, X, g)
    BY <2>1
  <2>3. PICK h : Lists(T, Y, h)
    BY <2>1
  <2>4. /\ S[n] = {n} \cup X \cup Y /\ n \notin X /\ n \notin Y /\ n # NULL
        /\ X \subseteq L /\ Y \subseteq L /\ NULL \notin L
        /\ \A m \in X : m \notin Y
        /\ a \in X \cup {NULL} /\ b \in Y \cup {NULL}
    <3>1. /\ S[n] = {n} \cup X \cup Y /\ n \notin X /\ n # NULL
          /\ \A m \in X : m \in L /\ m \notin Y
          /\ a # NULL => a \in S[a]
      BY TreeNode, TwoSides
    <3>2. /\ n \notin Y
          /\ \A m \in Y : m \in L
          /\ b # NULL => b \in S[b]
      BY TreeNode, TwoSides
    <3>3. NULL \notin L
      BY DEF IsTree, Typed
    <3>4. (a # NULL => X = S[a]) /\ (b # NULL => Y = S[b])
      BY DEF Sub
    <3> HIDE DEF a, b, X, Y
    <3> QED
      BY <3>1, <3>2, <3>3, <3>4
  <2>5. ASSUME NEW c \in L, NEW m \in Sub(S, c), NEW s \in Sides
        PROVE  Kid(T, m, s) \in Sub(S, c) \cup {NULL}
    <3>1. c # NULL /\ m \in S[c] /\ Sub(S, c) = S[c]
      BY <2>4, <2>5 DEF Sub
    <3>2. m \in L /\ S[m] \subseteq S[c]
      BY <3>1, SubOf
    <3>3. Kid(T, m, s) # NULL => Kid(T, m, s) \in S[m]
      <4>1. /\ S[m] = {m} \cup Sub(S, Kid(T, m, s)) \cup Sub(S, Kid(T, m, Other(s)))
            /\ Kid(T, m, s) # NULL => Kid(T, m, s) \in S[Kid(T, m, s)]
        BY <3>2, TreeNode
      <4>2. Kid(T, m, s) # NULL => Sub(S, Kid(T, m, s)) = S[Kid(T, m, s)]
        BY DEF Sub
      <4> QED
        BY <4>1, <4>2
    <3> QED
      BY <3>1, <3>2, <3>3
  <2>6. /\ \A m \in X, s \in Sides : Kid(T, m, s) \in X \cup {NULL}
        /\ \A m \in Y, s \in Sides : Kid(T, m, s) \in Y \cup {NULL}
    <3>1. (X # {} => a \in L) /\ (Y # {} => b \in L)
      BY <2>4 DEF Sub
    <3> QED
      BY <2>5, <3>1
  <2> DEFINE f == [m \in S[n] \cup {NULL} |->
                      IF m = NULL THEN << >> ELSE IF m \in X THEN g[m] ELSE IF m \in Y THEN h[m]
                      ELSE g[a] \o <<n>> \o h[b]]
  <2> HIDE DEF a, b, X, Y
  <2>7. /\ \A m \in X \cup {NULL} : f[m] = g[m]
        /\ \A m \in Y \cup {NULL} : f[m] = h[m]
        /\ f[n] = g[a] \o <<n>> \o h[b]
        /\ DOMAIN f = S[n] \cup {NULL}
        /\ f[NULL] = << >>
    <3>1. g[NULL] = << >> /\ h[NULL] = << >>
      BY <2>2, <2>3 DEF Lists
    <3> QED
      BY <2>4, <3>1
  <2> HIDE DEF f
  <2>8. ASSUME NEW m \in S[n]
        PROVE  f[m] = f[Kid(T, m, "left")] \o <<m>> \o f[Kid(T, m, "right")]
    <3>1. CASE m = n
      BY <2>4, <2>7, <3>1 DEF a, b
    <3>2. CASE m \in X
      <4>1. g[m] = g[Kid(T, m, "left")] \o <<m>> \o g[Kid(T, m, "right")]
        BY <2>2, <3>2 DEF Lists
      <4>2. Kid(T, m, "left") \in X \cup {NULL} /\ Kid(T, m, "right") \in X \cup {NULL}
        BY <2>6, <3>2, TwoSides
      <4> QED
        BY <2>7, <3>2, <4>1, <4>2
    <3>3. CASE m \in Y
      <4>1. h[m] = h[Kid(T, m, "left")] \o <<m>> \o h[Kid(T, m, "right")]
        BY <2>3, <3>3 DEF Lists
      <4>2. Kid(T, m, "left") \in Y \cup {NULL} /\ Kid(T, m, "right") \in Y \cup {NULL}
        BY <2>6, <3>3, TwoSides
      <4> QED
        BY <2>7, <3>3, <4>1, <4>2
    <3> QED
      BY <2>4, <3>1, <3>2, <3>3
  <2>9. Lists(T, S[n], f)
    BY <2>7, <2>8 DEF Lists
  <2> QED
    BY <2>9
<1>2. L \subseteq Q
  <2>1. \A n \in L : (\A side \in Sides : Kid(T, n, side) \in Q \cup {NULL}) => n \in Q
    BY <1>1
  <2> HIDE DEF Q
  <2> QED
    BY <2>1, TreeInduct
<1>3. CASE L = {}
  BY <1>0, <1>3
<1>4. CASE L # {}
  <2>1. r \in L /\ S[r] = L
    BY <1>4, ParentOf
  <2> QED
    BY <1>2, <2>1
<1> QED
  BY <1>3, <1>4

LEMMA InOrderRight ==
    ASSUME NEW T, NEW sc, NEW S, IsTree(T, DOMAIN T, DOMAIN T, sc, root, S)
    PROVE  LET s == InOrder(T) IN
           s \in Seq(DOMAIN T) /\ Range(s) = DOMAIN T /\ Ordered(sc, s)
<1> DEFINE L == DOMAIN T
           Is(f) == f = [n \in DOMAIN T \cup {NULL} |->
                           IF n = NULL THEN << >> ELSE f[T[n].left] \o <<n>> \o f[T[n].right]]
           below == CHOOSE f : Is(f)
<1>1. NULL \notin L /\ root \in L \cup {NULL} /\ Sub(S, root) = L
  BY Zenon DEF IsTree, Typed
<1>2. \A f : Is(f) => Lists(T, L, f)
  BY <1>1, Zenon DEF Lists, Kid
<1>3. \E f : Is(f)
  <2>1. PICK f : Lists(T, L, f)
    BY ListsExist
  <2> DEFINE h == [n \in DOMAIN T \cup {NULL} |-> f[n]]
  <2>2. \A n \in L : T[n].left \in L \cup {NULL} /\ T[n].right \in L \cup {NULL}
    BY TreeNode, TwoSides DEF Kid
  <2>3. h = [n \in DOMAIN T \cup {NULL} |->
                IF n = NULL THEN << >> ELSE h[T[n].left] \o <<n>> \o h[T[n].right]]
    BY <2>1, <2>2 DEF Lists, Kid
  <2> QED
    BY <2>3
<1>4. Is(below)
  <2> HIDE DEF Is
  <2> QED
    BY <1>3
<1>5. InOrder(T) = below[root]
  BY DEF InOrder
<1> HIDE DEF below, Is
<1>6. /\ below[root] \in Seq(L) /\ Range(below[root]) = Sub(S, root)
      /\ Ordered(sc, below[root])
  BY <1>1, <1>2, <1>4, ListsRight
<1> QED
  BY <1>1, <1>5, <1>6

-----------------------------------------------------------------------------
(* The inductive invariant.  Until SwapSucc the successor is out of the tree *)
(* and then, until the call ends, the node that the call is about.           *)
Swapping == pc = "swap" \/ then = "swap"
Cut == pc \in {"search", "unlinked"} \/ then = "unlinked"
Linked ==
    Allocated \ (IF Swapping THEN {victim} ELSE IF Cut THEN {op.node} ELSE {})

(* The tree is sound at every step; a descent is where the order sends it.   *)
TreeInv(S) ==
    /\ IsTree(tree, Allocated, Linked, score, root, S)
    /\ pc = "search" => Seek(tree, Linked, score, S, root, op.node, up, at)
    /\ pc = "succ" => Succ(tree, Linked, score, S, op.node, at)

(* Only the way from `at' to the root is out of balance, and by one at most. *)
HeightInv ==
    IF pc = "fix" THEN \E h \in Nat : Fixing(tree, Linked, at, h)
    ELSE \A n \in Linked : Even(tree, n)

(* What a call has left to do.                                               *)
Calls ==
    pc # "idle" =>
        /\ op.node \in Allocated
        /\ op.call \in (IF pc = "search" \/ then = "idle" THEN {"insert", "update"}
                        ELSE {"update", "delete"})
        /\ op.call = "update" => op.score \in Scores
        /\ hmap = Allocated \ (IF op.call = "delete" THEN {op.node} ELSE {})

ControlInv ==
    /\ pc \in {"idle", "search", "succ", "fix", "swap", "unlinked"}
    /\ Allocated \subseteq Names /\ score \in [Allocated -> Scores]
    /\ then \in (IF pc = "fix" THEN {"idle", "swap", "unlinked"} ELSE {NULL})
    /\ pc \notin {"search", "succ", "fix"} => at = NULL
    /\ pc = "fix" => at \in Linked
    /\ pc # "search" => up = NULL
    /\ pc = "idle" => hmap = Allocated
    /\ Calls
    /\ IF Swapping THEN /\ victim \in Allocated \ {op.node}
                        /\ Twins(Linked, score, op.node, victim)
       ELSE victim = NULL
    /\ pc = "search" => tree[op.node] = NewNode

IInv == ControlInv /\ (\E S : TreeInv(S)) /\ HeightInv

-----------------------------------------------------------------------------
(* What avl_del_easy leaves behind.                                          *)
Deleted(A, L, n, next) ==
    /\ \E R : IsTree(tree', A, L \ {n}, score, root', R)
    /\ \/ /\ pc' = next /\ at' = NULL /\ then' = NULL
          /\ \A k \in L \ {n} : Even(tree', k)
       \/ /\ pc' = "fix" /\ at' \in L \ {n} /\ then' = next
          /\ \E h \in Nat : Fixing(tree', L \ {n}, at', h)

LEMMA DelEasy ==
    ASSUME NEW A, NEW L, NEW S, IsTree(tree, A, L, score, root, S),
           NEW n, n \in L, tree[n].left = NULL \/ tree[n].right = NULL,
           NEW next, avl_del_easy(n, next), \A k \in L : Even(tree, k)
    PROVE  Deleted(A, L, n, next)
<1> DEFINE p == Par(tree, n)
           Child(side) == Kid(tree, n, side)
<1>1. PICK side \in Sides :
         /\ Kid(tree, n, Other(side)) = NULL
         /\ Child(side) = IF tree[n].left # NULL THEN tree[n].left ELSE tree[n].right
  <2>1. CASE tree[n].left # NULL
    <3>1. Kid(tree, n, Other("left")) = NULL /\ Child("left") = tree[n].left
      BY <2>1, TwoSides DEF Kid
    <3> QED
      BY <2>1, <3>1, TwoSides
  <2>2. CASE tree[n].left = NULL
    <3>1. Kid(tree, n, Other("right")) = NULL /\ Child("right") = tree[n].right
      BY <2>2, TwoSides DEF Kid
    <3> QED
      BY <2>2, <3>1, TwoSides
  <2> QED
    BY <2>1, <2>2
<1> DEFINE c == Child(side)
           V == SetParent(tree, c, p)
<1>2. /\ tree' = Replace(V, p, n, c)
      /\ \/ p = NULL /\ root' = c /\ pc' = next /\ at' = NULL /\ then' = NULL
         \/ p # NULL /\ pc' = "fix" /\ at' = p /\ then' = next /\ root' = root
  BY <1>1 DEF avl_del_easy, Par
<1>3. Adopts(tree, V, Kid(tree, n, side), Par(tree, n))
  BY DEF Adopts
<1>4. Replaces(V, tree', Par(tree, n), n, Kid(tree, n, side))
  BY <1>2 DEF Replaces
<1> HIDE DEF V, c, Child, p
<1>5. IsTree(tree', A, L \ {n}, score,
             IF Par(tree, n) = NULL THEN Kid(tree, n, side) ELSE root, Without(L, S, n))
  BY <1>1, <1>3, <1>4, EasyTree
<1>6. /\ \A k \in L \ {n, Par(tree, n)} : Even(tree', k)
      /\ Par(tree, n) # NULL => Fixing(tree', L \ {n}, Par(tree, n), avl_height(tree, Par(tree, n)))
  BY <1>1, <1>3, <1>4, EasyEven
<1>7. root' = IF Par(tree, n) = NULL THEN Kid(tree, n, side) ELSE root
  BY <1>2 DEF p, c, Child
<1>8. \E R : IsTree(tree', A, L \ {n}, score, root', R)
  BY <1>5, <1>7
<1>9. CASE p = NULL
  <2>1. \A k \in L \ {n} : Even(tree', k)
    <3>1. NULL \notin L
      BY DEF IsTree, Typed
    <3> QED
      BY <1>6, <1>9, <3>1 DEF p
  <2> QED
    BY <1>2, <1>8, <1>9, <2>1 DEF Deleted
<1>10. CASE p # NULL
  <2>1. p \in L \ {n} /\ avl_height(tree, p) \in Nat
    <3>1. p \in L /\ p # n
      BY <1>10, ParentIn DEF p
    <3>2. Typed(tree, A) /\ L \subseteq A
      BY DEF IsTree
    <3> QED
      BY <3>1, <3>2, Heights
  <2>2. \E h \in Nat : Fixing(tree', L \ {n}, p, h)
    BY <1>6, <1>10, <2>1 DEF p
  <2> QED
    BY <1>2, <1>8, <1>10, <2>1, <2>2 DEF Deleted
<1> QED
  BY <1>9, <1>10

-----------------------------------------------------------------------------
(* Between two calls every node is linked and balanced.                      *)
LEMMA Allocations ==
    ASSUME IInv
    PROVE  Allocated \subseteq Names /\ score \in [Allocated -> Scores]
BY DEF IInv, ControlInv

LEMMA AtRest ==
    ASSUME IInv, pc = "idle"
    PROVE  /\ ~Swapping /\ ~Cut /\ Linked = Allocated
           /\ then = NULL /\ at = NULL /\ up = NULL /\ victim = NULL /\ hmap = Allocated
           /\ score \in [Allocated -> Scores]
           /\ \E S : IsTree(tree, Allocated, Allocated, score, root, S)
           /\ \A k \in Allocated : Even(tree, k)
<1>1. /\ ~Swapping /\ ~Cut
      /\ then = NULL /\ at = NULL /\ up = NULL /\ victim = NULL /\ hmap = Allocated
      /\ score \in [Allocated -> Scores]
  BY ZSetAssumption DEF IInv, ControlInv, Swapping, Cut
<1>2. Linked = Allocated
  BY <1>1 DEF Linked
<1> QED
  BY <1>1, <1>2 DEF IInv, TreeInv, HeightInv

(* The nodes of L are kept as they are.                                      *)
LEMMA Kept ==
    ASSUME NEW T, NEW A, NEW L, NEW sc, NEW r, NEW S, IsTree(T, A, L, sc, r, S),
           NEW U, NEW B, NEW sc2, Typed(U, B), L \subseteq B,
           \A k \in L : sc2[k] = sc[k] /\ U[k] = T[k]
    PROVE  /\ IsTree(U, B, L, sc2, r, S)
           /\ \A k \in L : Even(T, k) => Even(U, k)
<1>1. \A k \in L : /\ sc2[k] = sc[k] /\ Par(U, k) = Par(T, k)
                   /\ \A side \in Sides : Kid(U, k, side) = Kid(T, k, side)
  BY DEF Par, Kid
<1>2. IsTree(U, B, L, sc2, r, S)
  BY <1>1, SameTree
<1>3. Typed(T, A) /\ L \subseteq A /\ NULL \notin L
  BY DEF IsTree, Typed
<1>4. \A k \in L \cup {NULL} : avl_height(U, k) = avl_height(T, k) /\ avl_cnt(U, k) = avl_cnt(T, k)
  BY <1>3 DEF avl_height, avl_cnt
<1>5. ASSUME NEW k \in L, Even(T, k) PROVE Even(U, k)
  <2>1. \A side \in Sides : Kid(U, k, side) = Kid(T, k, side) /\ Kid(T, k, side) \in L \cup {NULL}
    BY <1>1, TreeNode
  <2> QED
    BY <1>3, <1>4, <1>5, <2>1, SameEven
<1> QED
  BY <1>2, <1>5

LEMMA FreshNode ==
    ASSUME NEW A
    PROVE  NewNode \in Node(A)
BY DEF NewNode, Node

(* A call that goes on to look for the place of the node it is about.        *)
LEMMA StartSearch ==
    ASSUME NEW A, NEW L, NEW S, NEW n, NEW U, NEW sc,
           IsTree(U, A, L, sc, root, S), \A k \in L : Even(U, k), U[n] = NewNode,
           tree' = U, score' = sc, A = Allocated', L = A \ {n}, n \in A, op'.node = n,
           op'.call \in {"insert", "update"}, op'.call = "update" => op'.score \in Scores,
           A \subseteq Names, sc \in [A -> Scores], hmap' = A,
           then' = NULL, victim' = NULL, tree_insert
    PROVE  IInv'
<1>1. pc' = "search" /\ at' = root /\ up' = NULL /\ root' = root
  BY DEF tree_insert
<1>2. ~Swapping' /\ Cut' /\ Linked' = L
  <2>1. ~Swapping' /\ Cut'
    BY <1>1, ZSetAssumption DEF Swapping, Cut
  <2> QED
    BY <2>1 DEF Linked
<1>3. Seek(U, L, sc, S, root, n, NULL, root)
  BY SeekStart
<1>4. TreeInv(S)'
  BY <1>1, <1>2, <1>3 DEF TreeInv
<1>5. HeightInv'
  BY <1>1, <1>2 DEF HeightInv
<1>6. Calls'
  BY <1>1 DEF Calls
<1>7. ControlInv'
  BY <1>1, <1>2, <1>6 DEF ControlInv
<1> QED
  BY <1>4, <1>5, <1>7 DEF IInv

LEMMA InsertKeeps ==
    ASSUME IInv, NEW n \in Names, NEW s \in Scores, zset_insert(n, s)
    PROVE  IInv'
<1> PICK A : A = Allocated
  OBVIOUS
<1>1. /\ pc = "idle" /\ ~zset_lookup(n) /\ hmap' = hmap \cup {n}
      /\ tree' = [m \in A \cup {n} |-> IF m = n THEN NewNode ELSE tree[m]]
      /\ score' = [m \in DOMAIN score \cup {n} |-> IF m = n THEN s ELSE score[m]]
      /\ op' = [call |-> "insert", node |-> n, score |-> s]
      /\ tree_insert /\ victim' = victim /\ then' = then
  BY DEF zset_insert, Allocated
<1>2. PICK S : IsTree(tree, A, A, score, root, S)
  BY <1>1, AtRest
<1>3. /\ then = NULL /\ victim = NULL /\ hmap = A /\ score \in [A -> Scores]
      /\ \A k \in A : Even(tree, k)
  BY <1>1, AtRest
<1>4. n \notin A /\ A \subseteq Names /\ Typed(tree, A)
  BY <1>1, <1>2, <1>3 DEF zset_lookup, IsTree, Sub, Keys
<1> DEFINE B == A \cup {n}
           U == [m \in B |-> IF m = n THEN NewNode ELSE tree[m]]
           sc == [m \in B |-> IF m = n THEN s ELSE score[m]]
<1>5. /\ tree' = U /\ score' = sc /\ B = Allocated' /\ A = B \ {n} /\ U[n] = NewNode
      /\ sc \in [B -> Scores] /\ hmap' = B /\ op'.node = n /\ op'.call = "insert"
  BY <1>1, <1>3, <1>4 DEF Allocated
<1>6. \A k \in A : sc[k] = score[k] /\ U[k] = tree[k]
  BY <1>4
<1>7. Typed(U, B)
  <2>1. NULL \notin B
    BY <1>4, ZSetAssumption DEF Typed
  <2>2. \A m \in A : tree[m] \in Node(B)
    BY <1>4 DEF Typed, Node
  <2>3. NewNode \in Node(B)
    BY FreshNode
  <2> QED
    BY <1>4, <2>1, <2>2, <2>3 DEF Typed
<1> HIDE DEF U, sc
<1>8. IsTree(U, B, A, sc, root, S) /\ \A k \in A : Even(U, k)
  BY <1>2, <1>3, <1>6, <1>7, Kept
<1> HIDE DEF B
<1>9. n \in B /\ B \subseteq Names
  BY <1>4 DEF B
<1> QED
  BY <1>1, <1>3, <1>5, <1>8, <1>9, Allocations, StartSearch

LEMMA ReinsertKeeps ==
    ASSUME IInv, Reinsert
    PROVE  IInv'
<1> PICK A, n : A = Allocated /\ n = op.node
  OBVIOUS
<1> DEFINE L == A \ {n}
           U == [tree EXCEPT ![n] = NewNode]
           sc == [score EXCEPT ![n] = op.score]
<1>1. /\ pc = "unlinked" /\ op.call = "update" /\ tree' = U /\ score' = sc /\ tree_insert
      /\ hmap' = hmap /\ victim' = victim /\ then' = then /\ op' = op
  BY DEF Reinsert
<1>2. /\ then = NULL /\ ~Swapping /\ Cut /\ victim = NULL /\ score \in [A -> Scores]
      /\ n \in A /\ op.score \in Scores /\ hmap = A
  BY <1>1, ZSetAssumption DEF IInv, ControlInv, Calls, Swapping, Cut
<1>3. Linked = L
  BY <1>2 DEF Linked
<1>4. PICK S : IsTree(tree, A, L, score, root, S)
  BY <1>3 DEF IInv, TreeInv
<1>5. \A k \in L : Even(tree, k)
  BY <1>1, <1>3 DEF IInv, HeightInv
<1>6. Typed(tree, A)
  BY <1>4 DEF IsTree
<1>7. Typed(U, A) /\ U[n] = NewNode
  <2>1. NewNode \in Node(A)
    BY FreshNode
  <2> QED
    BY <1>2, <1>6, <2>1 DEF Typed
<1>8. \A k \in L : sc[k] = score[k] /\ U[k] = tree[k]
  BY <1>2, <1>6 DEF Typed
<1>9. sc \in [A -> Scores] /\ DOMAIN U = A
  BY <1>2, <1>6 DEF Typed
<1> HIDE DEF U, sc
<1>10. IsTree(U, A, L, sc, root, S) /\ \A k \in L : Even(U, k)
  BY <1>4, <1>5, <1>7, <1>8, Kept
<1>11. A = Allocated' /\ op'.node = n /\ op'.call \in {"insert", "update"} /\ op'.score \in Scores
  BY <1>1, <1>2, <1>9 DEF Allocated
<1> QED
  BY <1>1, <1>2, <1>7, <1>9, <1>10, <1>11, Allocations, StartSearch

LEMMA FreeKeeps ==
    ASSUME IInv, Free
    PROVE  IInv'
<1> PICK A, n : A = Allocated /\ n = op.node
  OBVIOUS
<1> DEFINE L == A \ {n}
           U == [k \in L |-> tree[k]]
           sc == [k \in L |-> score[k]]
<1>1. /\ pc = "unlinked" /\ op.call = "delete" /\ tree' = U /\ score' = sc
      /\ pc' = "idle" /\ root' = root /\ hmap' = hmap /\ at' = at /\ up' = up
      /\ victim' = victim /\ then' = then
  BY DEF Free, Restrict, Allocated
<1>2. /\ then = NULL /\ ~Swapping /\ Cut /\ victim = NULL /\ at = NULL /\ up = NULL
      /\ score \in [A -> Scores] /\ n \in A /\ hmap = L
  BY <1>1, ZSetAssumption DEF IInv, ControlInv, Calls, Swapping, Cut
<1>3. Linked = L
  BY <1>2 DEF Linked
<1>4. PICK S : IsTree(tree, A, L, score, root, S)
  BY <1>3 DEF IInv, TreeInv
<1>5. \A k \in L : Even(tree, k)
  BY <1>1, <1>3 DEF IInv, HeightInv
<1>6. Typed(U, L)
  <2>1. ASSUME NEW k \in L PROVE tree[k] \in Node(L)
    <3>1. tree[k] \in Node(A) /\ k # NULL
      BY <1>4 DEF IsTree, Typed
    <3>2. /\ Kid(tree, k, "left") \in L \cup {NULL} /\ Kid(tree, k, "right") \in L \cup {NULL}
          /\ Par(tree, k) \in L \cup {NULL}
      BY <1>4, TreeNode, ParentOf, TwoSides
    <3> QED
      BY <3>1, <3>2 DEF Node, Kid, Par
  <2> QED
    BY <1>4, <2>1 DEF Typed, IsTree
<1>7. \A k \in L : sc[k] = score[k] /\ U[k] = tree[k]
  OBVIOUS
<1>8. sc \in [L -> Scores] /\ DOMAIN U = L /\ L \subseteq Names
  BY <1>2, Allocations
<1> HIDE DEF U, sc, L
<1>9. IsTree(U, L, L, sc, root, S) /\ \A k \in L : Even(U, k)
  <2>1. L \subseteq L
    OBVIOUS
  <2>2. IsTree(U, L, L, sc, root, S) /\ \A k \in L : Even(tree, k) => Even(U, k)
    BY <1>4, <1>6, <1>7, <2>1, Kept
  <2> QED
    BY <1>5, <2>2
<1>10. Allocated' = L /\ ~Swapping' /\ ~Cut'
  BY <1>1, <1>2, <1>8, ZSetAssumption DEF Allocated, Swapping, Cut
<1>11. Linked' = L
  BY <1>10 DEF Linked
<1>12. TreeInv(S)' /\ HeightInv'
  BY <1>1, <1>9, <1>10, <1>11 DEF TreeInv, HeightInv
<1>13. Calls' /\ ControlInv'
  BY <1>1, <1>2, <1>8, <1>10, Allocations DEF Calls, ControlInv
<1> QED
  BY <1>12, <1>13 DEF IInv

LEMMA ClearKeeps ==
    ASSUME IInv, zset_clear
    PROVE  IInv'
<1> PICK A : A = Allocated
  OBVIOUS
<1>1. PICK S : IsTree(tree, A, A, score, root, S)
  BY AtRest DEF zset_clear
<1>2. Range(InOrder(tree)) = DOMAIN tree
  <2>1. DOMAIN tree = A
    BY DEF Allocated
  <2> QED
    BY <1>1, <2>1, InOrderRight
<1> DEFINE None == [k \in {} |-> {}]
<1>3. /\ pc = "idle" /\ pc' = pc /\ hmap' = {} /\ root' = NULL
      /\ at' = at /\ up' = up /\ victim' = victim /\ then' = then /\ op' = op
      /\ DOMAIN tree' = {} /\ tree' = [k \in {} |-> tree[k]]
      /\ score' = [k \in {} |-> score[k]]
  BY <1>2, Zenon DEF zset_clear, Restrict
<1>4. then = NULL /\ at = NULL /\ up = NULL /\ victim = NULL /\ ~Swapping /\ ~Cut
  BY <1>3, AtRest
<1>5. ~Swapping' /\ ~Cut' /\ Allocated' = {} /\ Linked' = {}
  BY <1>3, <1>4 DEF Swapping, Cut, Allocated, Linked
<1>6. IsTree(tree', {}, {}, score', NULL, None)
  <2>1. Typed(tree', {})
    BY <1>3 DEF Typed
  <2>2. IsFiniteSet({}) /\ Keys({}, score') /\ Sub(None, NULL) = {} /\ None \in [{} -> SUBSET {}]
    BY FS_EmptySet DEF Keys, Sub
  <2> HIDE DEF None
  <2> QED
    BY <2>1, <2>2 DEF IsTree
<1>7. TreeInv(None)' /\ HeightInv'
  <2> HIDE DEF None
  <2> QED
    BY <1>3, <1>5, <1>6 DEF TreeInv, HeightInv
<1>8. score' \in [{} -> Scores]
  BY <1>3
<1>9. ControlInv'
  BY <1>3, <1>4, <1>5, <1>8 DEF ControlInv, Calls
<1> QED
  BY <1>7, <1>9 DEF IInv

-----------------------------------------------------------------------------
(* The node n is being unlinked, for an update or a deletion.                *)
LEMMA UnlinkKeeps ==
    ASSUME IInv, pc = "idle", NEW n, n \in Allocated, avl_del(n),
           score' = score, up' = up, victim' = victim,
           op'.node = n, op'.call \in {"update", "delete"},
           op'.call = "update" => op'.score \in Scores,
           hmap' = Allocated \ (IF op'.call = "delete" THEN {n} ELSE {})
    PROVE  IInv'
<1> PICK A : A = Allocated
  OBVIOUS
<1>1. PICK S : IsTree(tree, A, A, score, root, S)
  BY AtRest
<1>2. /\ then = NULL /\ victim = NULL /\ up = NULL /\ score \in [A -> Scores] /\ n \in A
      /\ \A k \in A : Even(tree, k)
  BY AtRest
<1>3. CASE (tree[n].left = NULL \/ tree[n].right = NULL) /\ avl_del_easy(n, "unlinked")
  <2>1. Deleted(A, A, n, "unlinked")
    BY <1>1, <1>2, <1>3, DelEasy
  <2>2. PICK R : IsTree(tree', A, A \ {n}, score, root', R)
    BY <2>1 DEF Deleted
  <2>3. Allocated' = A
    BY <2>2 DEF IsTree, Typed, Allocated
  <2>4. \/ /\ pc' = "unlinked" /\ at' = NULL /\ then' = NULL
           /\ \A k \in A \ {n} : Even(tree', k)
        \/ /\ pc' = "fix" /\ at' \in A \ {n} /\ then' = "unlinked"
           /\ \E h \in Nat : Fixing(tree', A \ {n}, at', h)
    BY <2>1 DEF Deleted
  <2>5. ~Swapping' /\ Cut'
    BY <2>4, ZSetAssumption DEF Swapping, Cut
  <2>6. Linked' = A \ {n}
    BY <2>3, <2>5 DEF Linked
  <2>7. TreeInv(R)'
    BY <2>2, <2>3, <2>4, <2>6 DEF TreeInv
  <2>8. HeightInv'
    BY <2>4, <2>6 DEF HeightInv
  <2>9. Calls'
    BY <1>2, <2>3, <2>4, ZSetAssumption DEF Calls
  <2>10. ControlInv'
    BY <1>2, <2>3, <2>4, <2>5, <2>6, <2>9, Allocations DEF ControlInv
  <2> QED
    BY <2>7, <2>8, <2>10 DEF IInv
<1>4. CASE /\ tree[n].left # NULL /\ tree[n].right # NULL
           /\ pc' = "succ" /\ at' = tree[n].right
           /\ root' = root /\ tree' = tree /\ then' = then
  <2>1. Allocated' = A /\ ~Swapping' /\ ~Cut'
    BY <1>2, <1>4, ZSetAssumption DEF Allocated, Swapping, Cut
  <2>2. Linked' = A
    BY <2>1 DEF Linked
  <2>3. Succ(tree, A, score, S, n, at')
    BY <1>1, <1>2, <1>4, SuccStart DEF Kid
  <2>4. TreeInv(S)'
    BY <1>1, <1>4, <2>1, <2>2, <2>3 DEF TreeInv
  <2>5. HeightInv'
    BY <1>2, <1>4, <2>2 DEF HeightInv
  <2>6. Calls'
    BY <1>2, <1>4, <2>1, ZSetAssumption DEF Calls
  <2>7. ControlInv'
    BY <1>2, <1>4, <2>1, <2>2, <2>6, Allocations DEF ControlInv
  <2> QED
    BY <2>4, <2>5, <2>7 DEF IInv
<1> QED
  BY <1>3, <1>4 DEF avl_del

LEMMA UpdateCallKeeps ==
    ASSUME IInv, NEW n \in Names, NEW s \in Scores, zset_update(n, s)
    PROVE  IInv'
<1>1. /\ pc = "idle" /\ zset_lookup(n) /\ op' = [call |-> "update", node |-> n, score |-> s]
      /\ avl_del(n) /\ score' = score /\ hmap' = hmap /\ up' = up /\ victim' = victim
  BY DEF zset_update
<1>2. hmap = Allocated /\ n \in Allocated
  BY <1>1, AtRest DEF zset_lookup
<1>3. op'.node = n /\ op'.call = "update" /\ op'.score \in Scores
  BY <1>1
<1> QED
  BY <1>1, <1>2, <1>3, UnlinkKeeps

LEMMA DeleteKeeps ==
    ASSUME IInv, NEW n \in Names, zset_delete(n)
    PROVE  IInv'
<1>1. /\ pc = "idle" /\ zset_lookup(n) /\ op' = [call |-> "delete", node |-> n]
      /\ avl_del(n) /\ score' = score /\ hmap' = hmap \ {n} /\ up' = up /\ victim' = victim
  BY DEF zset_delete
<1>2. hmap = Allocated /\ n \in Allocated
  BY <1>1, AtRest DEF zset_lookup
<1>3. op'.node = n /\ op'.call = "delete"
  BY <1>1
<1> QED
  BY <1>1, <1>2, <1>3, UnlinkKeeps

(* On the way to the successor nothing has been unlinked.                    *)
LEMMA AtSucc ==
    ASSUME IInv, pc = "succ"
    PROVE  /\ ~Swapping /\ ~Cut /\ Linked = Allocated
           /\ then = NULL /\ up = NULL /\ victim = NULL
           /\ op.node \in Allocated /\ op.call \in {"update", "delete"}
           /\ score \in [Allocated -> Scores]
           /\ \E S : /\ IsTree(tree, Allocated, Allocated, score, root, S)
                     /\ Succ(tree, Allocated, score, S, op.node, at)
           /\ \A k \in Allocated : Even(tree, k)
<1>1. /\ ~Swapping /\ ~Cut /\ then = NULL /\ up = NULL /\ victim = NULL
      /\ op.node \in Allocated /\ op.call \in {"update", "delete"}
      /\ score \in [Allocated -> Scores]
  BY ZSetAssumption DEF IInv, ControlInv, Calls, Swapping, Cut
<1>2. Linked = Allocated
  BY <1>1 DEF Linked
<1> QED
  BY <1>1, <1>2 DEF IInv, TreeInv, HeightInv

LEMMA NextSuccKeeps ==
    ASSUME IInv, NextSucc
    PROVE  IInv'
<1> PICK A : A = Allocated
  OBVIOUS
<1>1. /\ pc = "succ" /\ tree[at].left # NULL /\ at' = tree[at].left
      /\ root' = root /\ tree' = tree /\ score' = score /\ hmap' = hmap /\ pc' = pc
      /\ up' = up /\ victim' = victim /\ then' = then /\ op' = op
  BY DEF NextSucc
<1>2. PICK S : IsTree(tree, A, A, score, root, S) /\ Succ(tree, A, score, S, op.node, at)
  BY <1>1, AtSucc
<1>3. ~Swapping /\ ~Cut /\ Linked = A /\ op.node \in A /\ \A k \in A : Even(tree, k)
  BY <1>1, AtSucc
<1>4. ~Swapping' /\ ~Cut' /\ Allocated' = A
  BY <1>1, <1>3 DEF Swapping, Cut, Allocated
<1>5. Linked' = A
  BY <1>4 DEF Linked
<1>6. Succ(tree, A, score, S, op.node, at')
  BY <1>1, <1>2, <1>3, SuccStep DEF Kid
<1>7. TreeInv(S)' /\ HeightInv'
  BY <1>1, <1>2, <1>3, <1>4, <1>5, <1>6 DEF TreeInv, HeightInv
<1>8. Calls' /\ ControlInv'
  BY <1>1, <1>3, <1>4 DEF IInv, ControlInv, Calls
<1> QED
  BY <1>7, <1>8 DEF IInv

LEMMA DetachSuccKeeps ==
    ASSUME IInv, DetachSucc
    PROVE  IInv'
<1> PICK A, n, v : A = Allocated /\ n = op.node /\ v = at
  OBVIOUS
<1>1. /\ pc = "succ" /\ tree[v].left = NULL /\ victim' = v /\ avl_del_easy(v, "swap")
      /\ score' = score /\ hmap' = hmap /\ up' = up /\ op' = op
  BY DEF DetachSucc
<1>2. PICK S : IsTree(tree, A, A, score, root, S) /\ Succ(tree, A, score, S, n, v)
  BY <1>1, AtSucc
<1>3. /\ n \in A /\ up = NULL /\ then = NULL /\ score \in [A -> Scores]
      /\ \A k \in A : Even(tree, k)
  BY <1>1, AtSucc
<1>4. v \in A \ {n} /\ Twins(A \ {v}, score, n, v)
  BY <1>1, <1>2, <1>3, SuccTwins DEF Kid
<1>5. Deleted(A, A, v, "swap")
  BY <1>1, <1>2, <1>3, <1>4, DelEasy
<1>6. PICK R : IsTree(tree', A, A \ {v}, score, root', R)
  BY <1>5 DEF Deleted
<1>7. \/ /\ pc' = "swap" /\ at' = NULL /\ then' = NULL
         /\ \A k \in A \ {v} : Even(tree', k)
      \/ /\ pc' = "fix" /\ at' \in A \ {v} /\ then' = "swap"
         /\ \E h \in Nat : Fixing(tree', A \ {v}, at', h)
  BY <1>5 DEF Deleted
<1>8. Allocated' = A /\ Swapping'
  <2>1. Allocated' = A
    BY <1>6 DEF IsTree, Typed, Allocated
  <2> QED
    BY <1>7, <2>1 DEF Swapping
<1>9. Linked' = A \ {v}
  BY <1>1, <1>8 DEF Linked
<1>10. TreeInv(R)' /\ HeightInv'
  BY <1>1, <1>6, <1>7, <1>8, <1>9 DEF TreeInv, HeightInv
<1>11. Calls'
  BY <1>1, <1>7, <1>8, ZSetAssumption DEF IInv, ControlInv, Calls
<1>12. ControlInv'
  BY <1>1, <1>3, <1>4, <1>7, <1>8, <1>9, <1>11, Allocations DEF ControlInv
<1> QED
  BY <1>10, <1>12 DEF IInv

LEMMA SwapSuccKeeps ==
    ASSUME IInv, SwapSucc
    PROVE  IInv'
<1> PICK A, n, v : A = Allocated /\ n = op.node /\ v = victim
  OBVIOUS
<1> DEFINE L == A \ {v}
           C == [tree EXCEPT ![v] = tree[n]]
           D == SetParent(C, tree[n].left, v)
           E == SetParent(D, tree[n].right, v)
<1>1. /\ pc = "swap" /\ tree' = Replace(E, tree[n].parent, n, v)
      /\ root' = IF tree[n].parent = NULL THEN v ELSE root
      /\ pc' = "unlinked" /\ victim' = NULL
      /\ score' = score /\ hmap' = hmap /\ at' = at /\ up' = up /\ then' = then /\ op' = op
  BY DEF SwapSucc
<1>2. /\ Swapping /\ then = NULL /\ at = NULL /\ up = NULL
      /\ n \in A /\ v \in A \ {n} /\ Twins(Linked, score, n, v)
      /\ op.call \in {"update", "delete"}
  BY <1>1, ZSetAssumption DEF IInv, ControlInv, Calls, Swapping
<1>3. Linked = L
  BY <1>2 DEF Linked
<1>4. PICK S : IsTree(tree, A, L, score, root, S)
  BY <1>3 DEF IInv, TreeInv
<1>5. \A k \in L : Even(tree, k)
  BY <1>1, <1>3 DEF IInv, HeightInv
<1>6. v \in A /\ v \notin L /\ n \in L /\ v \in Names /\ score[v] \in Int
      /\ Twins(L, score, n, v)
  BY <1>2, <1>3, Allocations, ZSetAssumption
<1>7. /\ Copies(tree, C, n, v)
      /\ Adopts(C, D, Kid(tree, n, "left"), v)
      /\ Adopts(D, E, Kid(tree, n, "right"), v)
      /\ Replaces(E, tree', Par(tree, n), n, v)
  BY <1>1 DEF Copies, Adopts, Replaces, Kid, Par
<1> HIDE DEF C, D, E, L
<1>8. /\ Typed(tree', A)
      /\ \A k \in L : /\ Par(tree', As(n, v, k)) = As(n, v, Par(tree, k))
                      /\ \A s \in Sides : Kid(tree', As(n, v, k), s) = As(n, v, Kid(tree, k, s))
      /\ \A k \in L \cup {NULL} : /\ avl_height(tree', As(n, v, k)) = avl_height(tree, k)
                                  /\ avl_cnt(tree', As(n, v, k)) = avl_cnt(tree, k)
  BY <1>4, <1>6, <1>7, SwapLinks
<1>9. IsTree(tree', A, (L \ {n}) \cup {v}, score, IF Par(tree, n) = NULL THEN v ELSE root,
             RenamedSub(L, S, n, v))
  BY <1>4, <1>6, <1>8, SwapTree
<1>10. \A k \in (L \ {n}) \cup {v} : Even(tree', k)
  <2>1. \A k \in L : \A s \in Sides : Kid(tree', As(n, v, k), s) = As(n, v, Kid(tree, k, s))
    BY <1>8
  <2>2. \A k \in L \cup {NULL} : /\ avl_height(tree', As(n, v, k)) = avl_height(tree, k)
                                 /\ avl_cnt(tree', As(n, v, k)) = avl_cnt(tree, k)
    BY <1>8
  <2>3. n \in L
    BY <1>6
  <2> QED
    BY ONLY <1>4, <1>5, <2>1, <2>2, <2>3, SwapEven
<1>11. Allocated' = A /\ ~Swapping' /\ Cut'
  <2>1. Allocated' = A
    BY <1>8 DEF Typed, Allocated
  <2> QED
    BY <1>1, <1>2, <2>1, ZSetAssumption DEF Swapping, Cut
<1>12. Linked' = (L \ {n}) \cup {v}
  <2>1. Linked' = A \ {n}
    BY <1>1, <1>11 DEF Linked
  <2> QED
    BY <1>2, <2>1 DEF L
<1>13. \E R : TreeInv(R)'
  <2>1. root' = IF Par(tree, n) = NULL THEN v ELSE root
    BY <1>1 DEF Par
  <2>2. \E R : IsTree(tree', A, (L \ {n}) \cup {v}, score, root', R)
    BY <1>9, <2>1
  <2> QED
    BY <1>1, <1>11, <1>12, <2>2 DEF TreeInv
<1>14. HeightInv'
  BY <1>1, <1>10, <1>12 DEF HeightInv
<1>15. Calls'
  BY <1>1, <1>2, <1>11, ZSetAssumption DEF IInv, ControlInv, Calls
<1>16. ControlInv'
  BY <1>1, <1>2, <1>11, <1>15, Allocations DEF ControlInv
<1> QED
  BY <1>13, <1>14, <1>16 DEF IInv

(* What fixing the node that `at' leads to changes.                          *)
LEMMA FixStepKeeps ==
    ASSUME IInv, FixStep
    PROVE  IInv'
<1> PICK A, L, n : A = Allocated /\ L = Linked /\ n = at
  OBVIOUS
<1> DEFINE U == Fixed(tree, n).tree
           top == Fixed(tree, n).top
           p == Par(tree, n)
<1>1. /\ pc = "fix" /\ tree' = U
      /\ \/ p # NULL /\ at' = p /\ root' = root /\ pc' = pc /\ then' = then /\ op' = op
         \/ /\ p = NULL /\ root' = top /\ pc' = then /\ at' = NULL /\ then' = NULL
            /\ op' = IF then = "idle" THEN NULL ELSE op
      /\ score' = score /\ hmap' = hmap /\ up' = up /\ victim' = victim
  BY DEF FixStep, Par
<1>2. /\ n \in L /\ then \in {"idle", "swap", "unlinked"} /\ up = NULL
      /\ L = A \ (IF then = "swap" THEN {victim} ELSE IF then = "unlinked" THEN {op.node} ELSE {})
  BY <1>1 DEF IInv, ControlInv, Linked, Swapping, Cut
<1>3. PICK S : IsTree(tree, A, L, score, root, S)
  BY DEF IInv, TreeInv
<1>4. PICK h \in Nat : Fixing(tree, L, n, h)
  BY <1>1 DEF IInv, HeightInv
<1>5. Fixed(tree, n) = [tree |-> U, top |-> top]
  BY DEF Fixed, avl_fix_side
<1> HIDE DEF U, top
<1>6. /\ \E R : IsTree(U, A, L, score, IF p = NULL THEN top ELSE root, R)
      /\ top \in L /\ Topped(tree, U, A, S, n, top)
      /\ \A k \in L \ {p} : Even(U, k)
      /\ Close(h, avl_height(U, top))
  <2> HIDE DEF p
  <2>1. /\ \E R : IsTree(U, A, L, score, IF Par(tree, n) = NULL THEN top ELSE root, R)
        /\ top \in L /\ Topped(tree, U, A, S, n, top)
        /\ \A g : Fixing(tree, L, n, g) =>
              /\ \A k \in L \ {Par(tree, n)} : Even(U, k)
              /\ g \in Nat /\ Close(g, avl_height(U, top)) /\ avl_height(U, top) \in Nat
    BY <1>2, <1>3, <1>5, FixKeeps
  <2> QED
    BY <1>4, <2>1 DEF p
<1>7. PICK R : IsTree(U, A, L, score, IF p = NULL THEN top ELSE root, R)
  BY <1>6
<1>8. Allocated' = A /\ NULL \notin L
  BY <1>1, <1>7 DEF IsTree, Typed, Allocated
<1>9. CASE p # NULL
  <2>1. /\ at' = p /\ root' = root /\ pc' = "fix" /\ then' = then /\ op' = op
    BY <1>1, <1>9
  <2>2. p \in L /\ avl_height(tree, p) \in Nat
    <3>1. p \in L
      BY <1>2, <1>3, <1>9, ParentIn
    <3>2. Typed(tree, A) /\ L \subseteq A
      BY <1>3 DEF IsTree
    <3> QED
      BY <3>1, <3>2, Heights
  <2>3. Swapping' <=> Swapping
    BY <1>1, <2>1 DEF Swapping
  <2>4. Cut' <=> Cut
    BY <1>1, <2>1 DEF Cut
  <2>5. Linked' = L
    BY <1>1, <1>8, <2>1, <2>3, <2>4 DEF Linked
  <2>6. IsTree(U, A, L, score, root, R)
    BY <1>7, <1>9
  <2>7. TreeInv(R)'
    BY <1>1, <1>8, <2>1, <2>5, <2>6 DEF TreeInv
  <2>8. Fixing(U, L, Par(tree, n), avl_height(tree, Par(tree, n)))
    BY <1>2, <1>3, <1>4, <1>6, <1>9, <2>6, FixNext
  <2>9. HeightInv'
    BY <1>1, <2>1, <2>2, <2>5, <2>8 DEF HeightInv
  <2>10. Calls'
    BY <1>1, <1>8, <2>1 DEF IInv, ControlInv, Calls
  <2>11. ControlInv'
    BY <1>1, <1>2, <1>8, <2>1, <2>2, <2>3, <2>5, <2>10 DEF IInv, ControlInv
  <2> QED
    BY <2>7, <2>9, <2>11 DEF IInv
<1>10. CASE p = NULL
  <2>1. /\ root' = top /\ pc' = then /\ at' = NULL /\ then' = NULL
        /\ (then # "idle" => op' = op)
    BY <1>1, <1>10
  <2>2. Swapping' <=> then = "swap"
    BY <2>1, ZSetAssumption DEF Swapping
  <2>3. Cut' <=> then = "unlinked"
    BY <1>2, <2>1, ZSetAssumption DEF Cut
  <2>4. Linked' = L
    BY <1>1, <1>2, <1>8, <2>1, <2>2, <2>3 DEF Linked
  <2>5. IsTree(U, A, L, score, top, R)
    BY <1>7, <1>10
  <2>6. TreeInv(R)'
    BY <1>1, <1>2, <1>8, <2>1, <2>4, <2>5 DEF TreeInv
  <2>7. HeightInv'
    BY <1>1, <1>2, <1>6, <1>8, <1>10, <2>1, <2>4 DEF HeightInv
  <2>8. Calls'
    BY <1>1, <1>2, <1>8, <2>1, ZSetAssumption DEF IInv, ControlInv, Calls
  <2>9. then = "idle" => hmap = A
    BY <1>1, <1>2, ZSetAssumption DEF IInv, ControlInv, Calls
  <2>10. IF then = "swap" THEN victim \in A \ {op.node} /\ Twins(L, score, op.node, victim)
         ELSE victim = NULL
    BY <1>1 DEF IInv, ControlInv, Swapping
  <2>11. ControlInv'
    BY <1>1, <1>2, <1>8, <2>1, <2>2, <2>4, <2>8, <2>9, <2>10, Allocations DEF ControlInv
  <2> QED
    BY <2>6, <2>7, <2>11 DEF IInv
<1> QED
  BY <1>9, <1>10

(* The search goes on in a tree without the node that it is for.             *)
LEMMA AtSearch ==
    ASSUME IInv, pc = "search"
    PROVE  /\ ~Swapping /\ Cut /\ Linked = Allocated \ {op.node}
           /\ then = NULL /\ victim = NULL
           /\ op.node \in Allocated /\ op.call \in {"insert", "update"} /\ hmap = Allocated
           /\ op.node \in Names /\ score[op.node] \in Int /\ tree[op.node] = NewNode
           /\ \E S : /\ IsTree(tree, Allocated, Linked, score, root, S)
                     /\ Seek(tree, Linked, score, S, root, op.node, up, at)
           /\ \A k \in Linked : Even(tree, k)
<1>1. /\ ~Swapping /\ Cut /\ then = NULL /\ victim = NULL
      /\ op.node \in Allocated /\ op.call \in {"insert", "update"} /\ hmap = Allocated
      /\ tree[op.node] = NewNode
  BY ZSetAssumption DEF IInv, ControlInv, Calls, Swapping, Cut
<1>2. Linked = Allocated \ {op.node}
  BY <1>1 DEF Linked
<1>3. op.node \in Names /\ score[op.node] \in Int
  BY <1>1, Allocations, ZSetAssumption
<1> QED
  BY <1>1, <1>2, <1>3 DEF IInv, TreeInv, HeightInv

LEMMA DescendKeeps ==
    ASSUME IInv, Descend
    PROVE  IInv'
<1> PICK A, L, n : A = Allocated /\ L = Linked /\ n = op.node
  OBVIOUS
<1>1. /\ pc = "search" /\ at # NULL /\ up' = at
      /\ at' = IF zless(score[n], n, score[at], at) THEN tree[at].left ELSE tree[at].right
      /\ root' = root /\ tree' = tree /\ score' = score /\ hmap' = hmap /\ pc' = pc
      /\ victim' = victim /\ then' = then /\ op' = op
  BY DEF Descend
<1>2. /\ L = A \ {n} /\ n \in Names /\ score[n] \in Int
      /\ \A k \in L : Even(tree, k)
  BY <1>1, AtSearch
<1>3. PICK S : /\ IsTree(tree, A, L, score, root, S)
               /\ Seek(tree, L, score, S, root, n, up, at)
  BY <1>1, AtSearch
<1>4. at' = Kid(tree, at, Toward(score, n, at))
  BY <1>1 DEF Toward, Kid
<1>5. Seek(tree, L, score, S, root, n, up', at')
  <2>1. n \notin L
    BY <1>2
  <2>2. Seek(tree, L, score, S, root, n, at, Kid(tree, at, Toward(score, n, at)))
    BY <1>1, <1>2, <1>3, <2>1, SeekStep
  <2> QED
    BY <1>1, <1>4, <2>2
<1>6. /\ Swapping' <=> Swapping
      /\ Cut' <=> Cut
      /\ Allocated' = A
  BY <1>1 DEF Swapping, Cut, Allocated
<1>7. Linked' = L
  BY <1>1, <1>6 DEF Linked
<1>8. TreeInv(S)' /\ HeightInv'
  BY <1>1, <1>2, <1>3, <1>5, <1>6, <1>7 DEF TreeInv, HeightInv
<1>9. Calls' /\ ControlInv'
  BY <1>1, <1>6, <1>7 DEF IInv, ControlInv, Calls
<1> QED
  BY <1>8, <1>9 DEF IInv

LEMMA AttachKeeps ==
    ASSUME IInv, Attach
    PROVE  IInv'
<1> PICK A, L, n : A = Allocated /\ L = Linked /\ n = op.node
  OBVIOUS
<1>1. /\ pc = "search" /\ at = NULL
      /\ pc' = "fix" /\ at' = n /\ up' = NULL /\ then' = "idle"
      /\ score' = score /\ hmap' = hmap /\ victim' = victim /\ op' = op
      /\ \/ up = NULL /\ tree' = [tree EXCEPT ![n].parent = NULL] /\ root' = n
         \/ /\ up # NULL /\ root' = root
            /\ tree' = [tree EXCEPT ![up][Toward(score, n, up)] = n, ![n].parent = up]
  BY DEF Attach, Toward
<1>2. /\ L = A \ {n} /\ n \in A /\ n \in Names /\ score[n] \in Int /\ tree[n] = NewNode
      /\ victim = NULL /\ op.call \in {"insert", "update"} /\ hmap = A
      /\ \A k \in L : Even(tree, k)
  BY <1>1, AtSearch
<1>3. PICK S : /\ IsTree(tree, A, L, score, root, S)
               /\ Seek(tree, L, score, S, root, n, up, at)
  BY <1>1, AtSearch
<1>4. Typed(tree, A) /\ NULL \notin A
  BY <1>3 DEF IsTree, Typed
<1>5. /\ \E R : IsTree(tree', A, A, score, root', R)
      /\ Fixing(tree', A, n, 0)
  <2>1. CASE up = NULL
    <3>1. root = NULL
      BY <1>1, <1>3, <2>1 DEF Seek
    <3>2. L = {}
      BY <1>3, <3>1 DEF IsTree, Sub
    <3>3. A = {n}
      BY <1>2, <3>2
    <3>4. PutsParent(tree, tree', n, NULL) /\ root' = n
      BY <1>1, <2>1 DEF PutsParent
    <3> QED
      BY <1>2, <1>4, <3>3, <3>4, AttachFirst
  <2>2. CASE up # NULL
    <3> DEFINE side == Toward(score, n, up)
               V == [tree EXCEPT ![up][side] = n]
    <3>1. /\ up \in L /\ Kid(tree, up, side) = NULL
          /\ \A k \in L, s \in Sides : up \in Sub(S, Kid(tree, k, s)) => On(score, s, n, k)
      BY <1>1, <1>3, <2>2 DEF Seek
    <3>2. side \in Sides /\ On(score, side, n, up)
      <4>1. up \in Names /\ n # up /\ score[up] \in Int
        BY <1>2, <1>3, <3>1 DEF IsTree, Keys
      <4> QED
        BY <1>2, <4>1, Towards
    <3>3. PutsSide(tree, V, up, side, n) /\ PutsParent(V, tree', n, up) /\ root' = root
      BY <1>1, <2>2 DEF PutsSide, PutsParent
    <3> HIDE DEF side, V
    <3>4. A = L \cup {n} /\ n \notin L
      BY <1>2
    <3>5. IsTree(tree', A, L \cup {n}, score, root, With(L, S, n, up))
      BY <1>2, <1>3, <3>1, <3>2, <3>3, <3>4, AttachTree
    <3>6. Fixing(tree', L \cup {n}, n, 0)
      BY <1>2, <1>3, <3>1, <3>2, <3>3, <3>4, AttachEven
    <3> QED
      BY <3>3, <3>4, <3>5, <3>6
  <2> QED
    BY <2>1, <2>2
<1>6. PICK R : IsTree(tree', A, A, score, root', R)
  BY <1>5
<1>7. ~Swapping' /\ ~Cut' /\ Allocated' = A
  <2>1. Allocated' = A
    BY <1>6 DEF IsTree, Typed, Allocated
  <2> QED
    BY <1>1, <2>1 DEF Swapping, Cut
<1>8. Linked' = A
  BY <1>7 DEF Linked
<1>9. TreeInv(R)' /\ HeightInv'
  BY <1>1, <1>5, <1>6, <1>7, <1>8 DEF TreeInv, HeightInv
<1>10. Calls'
  BY <1>1, <1>2, <1>7 DEF IInv, ControlInv, Calls
<1>11. ControlInv'
  BY <1>1, <1>2, <1>7, <1>8, <1>10, Allocations DEF ControlInv
<1> QED
  BY <1>9, <1>11 DEF IInv

-----------------------------------------------------------------------------
LEMMA Initially ==
    ASSUME Init
    PROVE  IInv
<1> DEFINE None == [k \in {} |-> {}]
<1>1. Allocated = {} /\ Linked = {} /\ tree \in [{} -> Node({})] /\ score \in [{} -> Scores]
  BY DEF Init, Allocated, Linked
<1>2. ~Swapping
  BY ZSetAssumption DEF Init, Swapping
<1>3. IsTree(tree, {}, {}, score, NULL, None)
  <2>1. Typed(tree, {})
    BY <1>1 DEF Typed
  <2>2. IsFiniteSet({}) /\ Keys({}, score) /\ Sub(None, NULL) = {} /\ None \in [{} -> SUBSET {}]
    BY FS_EmptySet DEF Keys, Sub
  <2> HIDE DEF None
  <2> QED
    BY <2>1, <2>2 DEF IsTree
<1>4. TreeInv(None) /\ HeightInv
  <2> HIDE DEF None
  <2> QED
    BY <1>1, <1>3 DEF TreeInv, HeightInv, Init
<1>5. ControlInv
  BY <1>1, <1>2 DEF ControlInv, Calls, Init
<1> QED
  BY <1>4, <1>5 DEF IInv

LEMMA StepIInv ==
    ASSUME IInv, [Next]_vars
    PROVE  IInv'
<1>1. ASSUME NEW n \in Names, NEW s \in Scores, zset_insert(n, s) PROVE IInv'
  BY <1>1, InsertKeeps
<1>2. ASSUME NEW n \in Names, NEW s \in Scores, zset_update(n, s) PROVE IInv'
  BY <1>2, UpdateCallKeeps
<1>3. ASSUME NEW n \in Names, zset_delete(n) PROVE IInv'
  BY <1>3, DeleteKeeps
<1>4. CASE zset_clear
  BY <1>4, ClearKeeps
<1>5. CASE NextSucc
  BY <1>5, NextSuccKeeps
<1>6. CASE DetachSucc
  BY <1>6, DetachSuccKeeps
<1>7. CASE SwapSucc
  BY <1>7, SwapSuccKeeps
<1>8. CASE FixStep
  BY <1>8, FixStepKeeps
<1>9. CASE Descend
  BY <1>9, DescendKeeps
<1>10. CASE Attach
  BY <1>10, AttachKeeps
<1>11. CASE Reinsert
  BY <1>11, ReinsertKeeps
<1>12. CASE Free
  BY <1>12, FreeKeeps
<1>13. CASE UNCHANGED vars
  BY <1>13 DEF vars, IInv, ControlInv, Calls, TreeInv, HeightInv, Linked, Swapping, Cut, Allocated
<1> QED
  BY <1>1, <1>2, <1>3, <1>4, <1>5, <1>6, <1>7, <1>8, <1>9, <1>10, <1>11, <1>12, <1>13 DEF Next

LEMMA Invariance == Spec => []IInv
<1>1. Init => IInv
  BY Initially
<1>2. IInv /\ [Next]_vars => IInv'
  BY StepIInv
<1> QED
  BY <1>1, <1>2, PTL DEF Spec

(* Whatever a call is doing, no link and no local pointer leads to a node    *)
(* that has been freed.                                                      *)
THEOREM TypeCorrect == Spec => []TypeOK
<1>1. ASSUME IInv PROVE TypeOK
  <2> PICK A, L : A = Allocated /\ L = Linked
    OBVIOUS
  <2>1. PICK S : /\ IsTree(tree, A, L, score, root, S)
                 /\ pc = "search" => Seek(tree, L, score, S, root, op.node, up, at)
                 /\ pc = "succ" => Succ(tree, L, score, S, op.node, at)
    BY <1>1 DEF IInv, TreeInv
  <2>2. /\ Typed(tree, A) /\ L \subseteq A /\ root \in L \cup {NULL}
    BY <2>1 DEF IsTree
  <2>3. at \in A \cup {NULL} /\ up \in A \cup {NULL}
    <3>1. CASE pc = "search"
      <4>1. Seek(tree, L, score, S, root, op.node, up, at)
        BY <2>1, <3>1
      <4>2. CASE up = NULL
        BY <2>2, <4>1, <4>2 DEF Seek
      <4>3. CASE up # NULL
        <5>1. up \in L /\ at = Kid(tree, up, Toward(score, op.node, up))
          BY <4>1, <4>3 DEF Seek
        <5>2. Toward(score, op.node, up) \in Sides
          BY DEF Toward, Sides
        <5>3. Kid(tree, up, Toward(score, op.node, up)) \in L \cup {NULL}
          BY <2>1, <5>1, <5>2, TreeNode
        <5> QED
          BY <2>2, <5>1, <5>3
      <4> QED
        BY <4>2, <4>3
    <3>2. CASE pc = "succ"
      <4>1. Succ(tree, L, score, S, op.node, at) /\ L = A /\ op.node \in A /\ up = NULL
        BY <1>1, <2>1, <3>2, AtSucc
      <4>2. at \in L
        BY <2>1, <4>1, TreeNode, TwoSides DEF Succ
      <4> QED
        BY <2>2, <4>1, <4>2
    <3>3. CASE pc \notin {"search", "succ"}
      BY <1>1, <2>2, <3>3 DEF IInv, ControlInv
    <3> QED
      BY <3>1, <3>2, <3>3
  <2>4. victim \in A \cup {NULL} /\ A \subseteq Names /\ score \in [A -> Scores]
    BY <1>1 DEF IInv, ControlInv
  <2>5. /\ pc \in {"idle", "search", "succ", "fix", "swap", "unlinked"}
        /\ then \in {NULL, "idle", "swap", "unlinked"}
    BY <1>1 DEF IInv, ControlInv
  <2>6. tree \in [A -> [parent : A \cup {NULL}, left : A \cup {NULL}, right : A \cup {NULL},
                        height : Nat, cnt : Nat]]
    BY <2>2 DEF Typed, Node
  <2> QED
    BY <2>2, <2>3, <2>4, <2>5, <2>6 DEF TypeOK
<1> QED
  BY <1>1, Invariance, PTL

(* Between two calls the hashtable and the tree hold the same nodes, the     *)
(* tree has them in the order of score and name, and every link of it has    *)
(* its way back: what zset_insert, zset_update and zset_delete change in     *)
(* one of the indexes they change in the other.                              *)
THEOREM IndexesCorrect == Spec => []IndexesAgree
<1>1. ASSUME IInv PROVE IndexesAgree
  <2> SUFFICES ASSUME pc = "idle"
               PROVE  LET s == InOrder(tree) IN
                      /\ hmap = Allocated /\ Range(s) = Allocated
                      /\ \A i, j \in DOMAIN s :
                            i < j => Before(score[s[i]], s[i], score[s[j]], s[j])
                      /\ root # NULL => tree[root].parent = NULL
                      /\ \A n \in Allocated, side \in Sides :
                            tree[n][side] # NULL => tree[tree[n][side]].parent = n
    BY DEF IndexesAgree
  <2> DEFINE s == InOrder(tree)
             A == Allocated
  <2>1. PICK S : IsTree(tree, A, A, score, root, S)
    BY <1>1, AtRest
  <2>2. hmap = A
    BY <1>1, AtRest
  <2>3. Range(s) = A /\ Ordered(score, s)
    BY <2>1, InOrderRight DEF Allocated
  <2>4. \A i, j \in DOMAIN s : i < j => Before(score[s[i]], s[i], score[s[j]], s[j])
    <3> HIDE DEF s
    <3> QED
      BY <2>3 DEF Ordered, On
  <2>5. root # NULL => tree[root].parent = NULL
    BY <2>1 DEF IsTree, Par
  <2>6. \A n \in A, side \in Sides : tree[n][side] # NULL => tree[tree[n][side]].parent = n
    <3> HIDE DEF A
    <3>1. ASSUME NEW n \in A, NEW side \in Sides, Kid(tree, n, side) # NULL
          PROVE  Par(tree, Kid(tree, n, side)) = n
      BY <2>1, <3>1, TreeNode
    <3> QED
      BY <3>1 DEF Kid, Par
  <2> QED
    BY <2>2, <2>3, <2>4, <2>5, <2>6
<1> QED
  BY <1>1, Invariance, PTL

(* A node that is even is what avl_update would make of it.                  *)
LEMMA EvenNode ==
    ASSUME NEW T, NEW A, Typed(T, A), NEW n, n \in A, Even(T, n)
    PROVE  Diff(T, n) \in -1..1 /\ T[n] = avl_update(T, n)[n]
<1> DEFINE U == avl_update(T, n)
           l == avl_height(T, Kid(T, n, "left"))
           r == avl_height(T, Kid(T, n, "right"))
<1>1. Diff(T, n) \in -1..1
  <2>1. Kid(T, n, "left") \in A \cup {NULL} /\ Kid(T, n, "right") \in A \cup {NULL}
    BY Fields, TwoSides
  <2>2. l \in Nat /\ r \in Nat
    BY <2>1, Heights
  <2>3. Close(l, r) /\ Diff(T, n) = l - r
    BY DEF Even, Diff, Kid
  <2> HIDE DEF l, r
  <2> QED
    BY <2>2, <2>3 DEF Close
<1>2. Updates(T, U, n)
  BY DEF Updates
<1> HIDE DEF U
<1>3. /\ Typed(U, A) /\ SameKids(T, U, A) /\ SameParents(T, U, A)
      /\ avl_height(U, n) = HeightOf(T, n, "left") /\ avl_cnt(U, n) = CntOf(T, n, "left")
  BY <1>2, Updated, TwoSides
<1>4. /\ U[n].left = T[n].left /\ U[n].right = T[n].right
      /\ U[n].parent = T[n].parent /\ U[n].height = T[n].height /\ U[n].cnt = T[n].cnt
  <2>1. /\ Kid(U, n, "left") = Kid(T, n, "left") /\ Kid(U, n, "right") = Kid(T, n, "right")
        /\ Par(U, n) = Par(T, n)
        /\ avl_height(U, n) = avl_height(T, n) /\ avl_cnt(U, n) = avl_cnt(T, n)
    BY <1>3, TwoSides DEF SameKids, SameParents, Even
  <2>2. /\ U[n].left = Kid(U, n, "left") /\ U[n].right = Kid(U, n, "right")
        /\ U[n].parent = Par(U, n)
        /\ U[n].height = avl_height(U, n) /\ U[n].cnt = avl_cnt(U, n)
    BY <1>3, Fields
  <2>3. /\ T[n].left = Kid(T, n, "left") /\ T[n].right = Kid(T, n, "right")
        /\ T[n].parent = Par(T, n)
        /\ T[n].height = avl_height(T, n) /\ T[n].cnt = avl_cnt(T, n)
    BY Fields
  <2> QED
    BY <2>1, <2>2, <2>3
<1>5. U[n] \in Node(A) /\ T[n] \in Node(A)
  BY <1>3 DEF Typed
<1>6. U[n] = T[n]
  BY <1>4, <1>5 DEF Node
<1> QED
  BY <1>1, <1>6 DEF U

(* Between two calls the tree is balanced and its counts are exact; on the   *)
(* way to the root avl_fix never meets a difference of more than 2, the one  *)
(* that its rotations are written for.                                       *)
THEOREM BalanceCorrect == Spec => []Balanced
<1>1. ASSUME IInv PROVE Balanced
  <2> PICK A, L : A = Allocated /\ L = Linked
    OBVIOUS
  <2>1. PICK S : IsTree(tree, A, L, score, root, S)
    BY <1>1 DEF IInv, TreeInv
  <2>2. Typed(tree, A) /\ L \subseteq A
    BY <2>1 DEF IsTree
  <2>3. ASSUME pc = "idle"
        PROVE  \A n \in A : Diff(tree, n) \in -1..1 /\ tree[n] = avl_update(tree, n)[n]
    <3>1. \A n \in A : Even(tree, n)
      BY <1>1, <2>3, AtRest
    <3> QED
      BY <2>2, <3>1, EvenNode
  <2>4. ASSUME pc = "fix" PROVE Diff(tree, at) \in -2..2
    <3>1. PICK h \in Nat : Fixing(tree, L, at, h)
      BY <1>1, <2>4 DEF IInv, HeightInv
    <3>2. at \in A /\ Due(tree, at, h)
      BY <1>1, <2>2, <2>4, <3>1 DEF IInv, ControlInv, Fixing
    <3>3. avl_height(tree, Kid(tree, at, "left")) - avl_height(tree, Kid(tree, at, "right")) \in -2..2
      BY <2>2, <3>2, DueHeights
    <3> QED
      BY <3>3 DEF Diff, Kid
  <2> QED
    BY <2>3, <2>4 DEF Balanced
<1> QED
  BY <1>1, Invariance, PTL

-----------------------------------------------------------------------------
(* The queries.  Between two calls: the subtrees S, balanced and counted.    *)
Settled(S) ==
    /\ IsTree(tree, Allocated, Allocated, score, root, S)
    /\ score \in [Allocated -> Scores]
    /\ \A n \in Allocated : Even(tree, n)

Left(n)  == Kid(tree, n, "left")
Right(n) == Kid(tree, n, "right")
Cnt(n)   == avl_cnt(tree, n)

LEMMA SettledNode ==
    ASSUME NEW S, Settled(S), NEW n \in Allocated
    PROVE  /\ n # NULL /\ NULL \notin Allocated /\ n \in S[n] /\ S[n] \subseteq Allocated
           /\ Left(n) \in Allocated \cup {NULL} /\ Right(n) \in Allocated \cup {NULL}
           /\ S[n] = {n} \cup Sub(S, Left(n)) \cup Sub(S, Right(n))
           /\ n \notin Sub(S, Left(n)) /\ n \notin Sub(S, Right(n))
           /\ Sub(S, Left(n)) \cap Sub(S, Right(n)) = {}
           /\ \A m \in Sub(S, Left(n)) : m \in Allocated /\ On(score, "left", m, n)
           /\ \A m \in Sub(S, Right(n)) : m \in Allocated /\ On(score, "right", m, n)
           /\ Left(n) # NULL => Par(tree, Left(n)) = n /\ Left(n) # Right(n)
           /\ Right(n) # NULL => Par(tree, Right(n)) = n /\ Left(n) # Right(n)
<1>1. IsTree(tree, Allocated, Allocated, score, root, S)
  BY DEF Settled
<1>2. NULL \notin Allocated
  BY <1>1 DEF IsTree, Typed
<1> QED
  BY <1>1, <1>2, TreeNode, TwoSides DEF Left, Right

LEMMA SettledKeys ==
    ASSUME NEW S, Settled(S)
    PROVE  /\ IsFiniteSet(Allocated) /\ Keys(Allocated, score) /\ DOMAIN score = Allocated
           /\ \A n \in Allocated : n \in Int /\ score[n] \in Int
           /\ \A n \in Allocated : S[n] \subseteq Allocated
<1>1. IsTree(tree, Allocated, Allocated, score, root, S) /\ score \in [Allocated -> Scores]
  BY DEF Settled
<1>2. IsFiniteSet(Allocated) /\ Keys(Allocated, score)
  BY <1>1 DEF IsTree
<1>3. \A n \in Allocated : S[n] \subseteq Allocated
  BY SettledNode
<1> QED
  BY <1>1, <1>2, <1>3, Ordinals DEF Keys

(* The counts are the sizes of the subtrees.                                 *)
LEMMA Counted ==
    ASSUME NEW S, Settled(S)
    PROVE  \A n \in Allocated \cup {NULL} :
              IsFiniteSet(Sub(S, n)) /\ Cnt(n) \in Nat /\ Cnt(n) = Cardinality(Sub(S, n))
<1> DEFINE Good(n) == IsFiniteSet(Sub(S, n)) /\ Cnt(n) \in Nat /\ Cnt(n) = Cardinality(Sub(S, n))
           Q == {n \in Allocated : Good(n)}
<1>1. Good(NULL)
  BY FS_EmptySet DEF Sub, Cnt, avl_cnt
<1>2. ASSUME NEW n \in Allocated, \A side \in Sides : Kid(tree, n, side) \in Q \cup {NULL}
      PROVE  Good(n)
  <2> DEFINE X == Sub(S, Left(n))
             Y == Sub(S, Right(n))
  <2>1. Good(Left(n)) /\ Good(Right(n))
    <3>1. \A m \in Q \cup {NULL} : Good(m)
      BY <1>1
    <3> HIDE DEF Good, Q
    <3> QED
      BY <1>2, <3>1, TwoSides DEF Left, Right
  <2>2. S[n] = {n} \cup X \cup Y /\ n \notin X /\ n \notin Y /\ X \cap Y = {} /\ n # NULL
    BY SettledNode
  <2>3. Cnt(n) = 1 + Cnt(Left(n)) + Cnt(Right(n))
    <3>1. Even(tree, n)
      BY DEF Settled
    <3> QED
      BY <3>1, TwoSides DEF Even, CntOf, Cnt, Left, Right
  <2>4. IsFiniteSet(X) /\ IsFiniteSet(Y) /\ Cardinality(X) = Cnt(Left(n)) /\ Cardinality(Y) = Cnt(Right(n))
        /\ Cnt(Left(n)) \in Nat /\ Cnt(Right(n)) \in Nat
    BY <2>1
  <2> HIDE DEF X, Y
  <2>5. IsFiniteSet(X \cup Y) /\ Cardinality(X \cup Y) = Cnt(Left(n)) + Cnt(Right(n))
    <3>1. Cardinality(X \cap Y) = 0
      BY <2>2, FS_EmptySet
    <3>2. /\ IsFiniteSet(X \cup Y)
          /\ Cardinality(X \cup Y) = Cardinality(X) + Cardinality(Y) - Cardinality(X \cap Y)
      BY <2>4, FS_Union
    <3> QED
      BY <2>4, <3>1, <3>2
  <2>6. n \notin X \cup Y /\ S[n] = (X \cup Y) \cup {n}
    BY <2>2
  <2>7. IsFiniteSet(S[n]) /\ Cardinality(S[n]) = Cnt(Left(n)) + Cnt(Right(n)) + 1
    BY <2>5, <2>6, FS_AddElement
  <2>8. Sub(S, n) = S[n]
    BY <2>2 DEF Sub
  <2> QED
    BY <2>3, <2>4, <2>7, <2>8
<1>3. Allocated \subseteq Q
  <2>1. \A n \in Allocated : (\A side \in Sides : Kid(tree, n, side) \in Q \cup {NULL}) => n \in Q
    <3> HIDE DEF Good
    <3> QED
      BY <1>2
  <2>2. IsTree(tree, Allocated, Allocated, score, root, S)
    BY DEF Settled
  <2> HIDE DEF Q
  <2> QED
    BY <2>1, <2>2, TreeInduct
<1> QED
  BY <1>1, <1>3

-----------------------------------------------------------------------------
(* Ranks.                                                                    *)
Earlier(x, n) == {m \in Allocated : Before(score[m], m, x, n)}

LEMMA Ranked ==
    ASSUME NEW S, Settled(S), NEW x \in Int, NEW n \in Int
    PROVE  /\ IsFiniteSet(Earlier(x, n)) /\ Earlier(x, n) \subseteq Allocated
           /\ Below(score, x, n) = Cardinality(Earlier(x, n))
           /\ Below(score, x, n) \in 0..Cardinality(Allocated) /\ Cardinality(Allocated) \in Nat
<1>1. IsFiniteSet(Allocated) /\ DOMAIN score = Allocated
  BY SettledKeys
<1>2. Earlier(x, n) \in SUBSET Allocated
  BY DEF Earlier
<1>3. /\ IsFiniteSet(Earlier(x, n)) /\ Cardinality(Earlier(x, n)) \in Nat
      /\ Cardinality(Allocated) \in Nat /\ Cardinality(Earlier(x, n)) <= Cardinality(Allocated)
  BY <1>1, <1>2, FS_Subset, FS_CardinalityType
<1>4. Below(score, x, n) = Cardinality(Earlier(x, n))
  BY <1>1 DEF Below, Earlier
<1> QED
  BY <1>2, <1>3, <1>4

(* Later keys have more members before them; strictly so for members.        *)
LEMMA RankedLater ==
    ASSUME NEW S, Settled(S), NEW m \in Allocated, NEW x \in Int, NEW n \in Int,
           Before(score[m], m, x, n)
    PROVE  Rank(score, m) < Below(score, x, n)
<1>1. m \in Int /\ score[m] \in Int /\ \A k \in Allocated : k \in Int /\ score[k] \in Int
  BY SettledKeys
<1>2. Earlier(score[m], m) \subseteq Earlier(x, n)
  <2> SUFFICES ASSUME NEW k \in Allocated, Before(score[k], k, score[m], m)
               PROVE  Before(score[k], k, x, n)
    BY DEF Earlier
  <2>1. k \in Int /\ score[k] \in Int
    BY <1>1
  <2> QED
    BY <1>1, <2>1 DEF Before
<1>3. m \in Earlier(x, n) /\ m \notin Earlier(score[m], m)
  BY <1>1 DEF Earlier, Before
<1>4. /\ IsFiniteSet(Earlier(x, n))
      /\ Below(score, x, n) = Cardinality(Earlier(x, n)) /\ Below(score, x, n) \in Nat
      /\ Rank(score, m) = Cardinality(Earlier(score[m], m)) /\ Rank(score, m) \in Nat
  <2>1. /\ Below(score, score[m], m) = Cardinality(Earlier(score[m], m))
        /\ Below(score, score[m], m) \in 0..Cardinality(Allocated) /\ Cardinality(Allocated) \in Nat
    BY <1>1, Ranked
  <2>2. /\ IsFiniteSet(Earlier(x, n)) /\ Below(score, x, n) = Cardinality(Earlier(x, n))
        /\ Below(score, x, n) \in 0..Cardinality(Allocated)
    BY Ranked
  <2> QED
    BY <2>1, <2>2 DEF Rank
<1>5. Cardinality(Earlier(score[m], m)) <= Cardinality(Earlier(x, n))
      /\ Cardinality(Earlier(score[m], m)) # Cardinality(Earlier(x, n))
  BY <1>2, <1>3, <1>4, FS_Subset
<1> QED
  BY <1>4, <1>5

LEMMA RankType ==
    ASSUME NEW S, Settled(S), NEW n \in Allocated
    PROVE  /\ Rank(score, n) \in Nat /\ Cardinality(Allocated) \in Nat
           /\ Rank(score, n) < Cardinality(Allocated)
           /\ \A m \in Allocated : m # n => Rank(score, m) # Rank(score, n)
<1>1. \A k \in Allocated : k \in Int /\ score[k] \in Int
  BY SettledKeys
<1>2. \A k \in Allocated : /\ Rank(score, k) = Cardinality(Earlier(score[k], k))
                           /\ Rank(score, k) \in Nat /\ Cardinality(Allocated) \in Nat
                           /\ Cardinality(Earlier(score[k], k)) <= Cardinality(Allocated)
  <2> TAKE k \in Allocated
  <2>1. /\ Below(score, score[k], k) = Cardinality(Earlier(score[k], k))
        /\ Below(score, score[k], k) \in 0..Cardinality(Allocated) /\ Cardinality(Allocated) \in Nat
    BY <1>1, Ranked
  <2> QED
    BY <2>1 DEF Rank
<1>3. Cardinality(Earlier(score[n], n)) # Cardinality(Allocated)
  <2>1. n \notin Earlier(score[n], n) /\ Earlier(score[n], n) \in SUBSET Allocated
    BY <1>1 DEF Earlier, Before
  <2>2. IsFiniteSet(Allocated)
    BY SettledKeys
  <2> QED
    BY <2>1, <2>2, FS_Subset
<1>4. ASSUME NEW m \in Allocated, m # n PROVE Rank(score, m) # Rank(score, n)
  <2>1. Before(score[m], m, score[n], n) \/ Before(score[n], n, score[m], m)
    BY <1>1, <1>4 DEF Before
  <2>2. Rank(score, m) < Rank(score, n) \/ Rank(score, n) < Rank(score, m)
    BY <1>1, <2>1, RankedLater DEF Rank
  <2> QED
    BY <1>2, <2>2
<1> QED
  BY <1>2, <1>3, <1>4

(* Between a node and its kid are the kid's nodes on the inner side.         *)
LEMMA EarlierRight ==
    ASSUME NEW S, Settled(S), NEW n \in Allocated, Right(n) # NULL
    PROVE  LET k == Right(n) IN
           Earlier(score[k], k) = (Earlier(score[n], n) \cup {n}) \cup Sub(S, Left(k))
<1> DEFINE k == Right(n)
<1>1. k \in Allocated /\ k \in S[n] /\ n \in S[n] /\ On(score, "right", k, n) /\ Sub(S, k) = S[k]
  <2>1. k \in Allocated /\ Sub(S, k) = S[k] /\ k \in S[k]
    BY SettledNode DEF Sub
  <2> QED
    BY <2>1, SettledNode
<1>2. Keys(Allocated, score)
  BY SettledKeys
<1>3. \A m \in Sub(S, Left(k)) : m \in Allocated /\ On(score, "left", m, k)
                                 /\ On(score, "right", m, n)
  <2>1. S[k] = {k} \cup Sub(S, Left(k)) \cup Sub(S, Right(k))
        /\ \A m \in Sub(S, Left(k)) : m \in Allocated /\ On(score, "left", m, k)
    BY <1>1, SettledNode
  <2>2. \A m \in S[k] : On(score, "right", m, n)
    BY <1>1, SettledNode
  <2> QED
    BY <2>1, <2>2
<1>4. ASSUME NEW m \in Allocated, On(score, "left", m, k), m # n, ~On(score, "left", m, n)
      PROVE  m \in Sub(S, Left(k))
  <2>1. On(score, "right", m, n)
    BY <1>2, <1>4, OnOrder, TwoSides
  <2>2. m \in S[n]
    <3> SUFFICES ASSUME m \notin S[n] PROVE FALSE
      OBVIOUS
    <3>1. PICK side \in Sides : \A x \in S[n] : On(score, side, x, m)
      <4>1. IsTree(tree, Allocated, Allocated, score, root, S)
        BY DEF Settled
      <4> QED
        BY <4>1, Convex
    <3>2. On(score, side, n, m) /\ On(score, side, k, m)
      BY <1>1, <3>1
    <3>3. On(score, "left", n, m) /\ On(score, "right", k, m)
      BY <1>1, <1>2, <1>4, <2>1, OnOrder, TwoSides
    <3> QED
      BY <1>1, <1>2, <3>2, <3>3, OnOrder, TwoSides
  <2>3. m \in S[k]
    <3>1. S[n] = {n} \cup Sub(S, Left(n)) \cup Sub(S, k)
          /\ \A x \in Sub(S, Left(n)) : On(score, "left", x, n)
      BY SettledNode
    <3> QED
      BY <1>1, <1>4, <2>2, <3>1
  <2>4. m # k /\ ~On(score, "right", m, k)
    BY <1>1, <1>2, <1>4, OnOrder, TwoSides
  <2>5. S[k] = {k} \cup Sub(S, Left(k)) \cup Sub(S, Right(k))
        /\ \A x \in Sub(S, Right(k)) : On(score, "right", x, k)
    BY <1>1, SettledNode
  <2> QED
    BY <2>3, <2>4, <2>5
<1>5. \A m \in Allocated : On(score, "left", m, n) => On(score, "left", m, k)
  <2>1. On(score, "left", n, k)
    BY <1>1, <1>2, OnOrder, TwoSides
  <2> QED
    BY <1>1, <1>2, <2>1, OnOrder, TwoSides
<1>6. On(score, "left", n, k)
  BY <1>1, <1>2, OnOrder, TwoSides
<1>7. \A x \in Allocated : Earlier(score[x], x) = {m \in Allocated : On(score, "left", m, x)}
  BY DEF Earlier, On
<1> HIDE DEF k
<1> QED
  BY <1>1, <1>3, <1>4, <1>5, <1>6, <1>7 DEF k

LEMMA EarlierLeft ==
    ASSUME NEW S, Settled(S), NEW n \in Allocated, Left(n) # NULL
    PROVE  LET k == Left(n) IN
           Earlier(score[n], n) = (Earlier(score[k], k) \cup {k}) \cup Sub(S, Right(k))
<1> DEFINE k == Left(n)
<1>1. k \in Allocated /\ k \in S[n] /\ n \in S[n] /\ On(score, "left", k, n) /\ Sub(S, k) = S[k]
  <2>1. k \in Allocated /\ Sub(S, k) = S[k] /\ k \in S[k]
    BY SettledNode DEF Sub
  <2> QED
    BY <2>1, SettledNode
<1>2. Keys(Allocated, score)
  BY SettledKeys
<1>3. \A m \in Sub(S, Right(k)) : m \in Allocated /\ On(score, "right", m, k)
                                 /\ On(score, "left", m, n)
  <2>1. S[k] = {k} \cup Sub(S, Left(k)) \cup Sub(S, Right(k))
        /\ \A m \in Sub(S, Right(k)) : m \in Allocated /\ On(score, "right", m, k)
    BY <1>1, SettledNode
  <2>2. \A m \in S[k] : On(score, "left", m, n)
    BY <1>1, SettledNode
  <2> QED
    BY <2>1, <2>2
<1>4. ASSUME NEW m \in Allocated, On(score, "left", m, n), m # k, ~On(score, "left", m, k)
      PROVE  m \in Sub(S, Right(k))
  <2>1. On(score, "right", m, k)
    BY <1>1, <1>2, <1>4, OnOrder, TwoSides
  <2>2. m \in S[n]
    <3> SUFFICES ASSUME m \notin S[n] PROVE FALSE
      OBVIOUS
    <3>1. PICK side \in Sides : \A x \in S[n] : On(score, side, x, m)
      <4>1. IsTree(tree, Allocated, Allocated, score, root, S)
        BY DEF Settled
      <4> QED
        BY <4>1, Convex
    <3>2. On(score, side, n, m) /\ On(score, side, k, m)
      BY <1>1, <3>1
    <3>3. On(score, "left", k, m) /\ On(score, "right", n, m)
      BY <1>1, <1>2, <1>4, <2>1, OnOrder, TwoSides
    <3> QED
      BY <1>1, <1>2, <3>2, <3>3, OnOrder, TwoSides
  <2>3. m \in S[k]
    <3>1. S[n] = {n} \cup Sub(S, k) \cup Sub(S, Right(n))
          /\ \A x \in Sub(S, Right(n)) : On(score, "right", x, n)
      BY SettledNode
    <3>2. m # n /\ ~On(score, "right", m, n)
      BY <1>1, <1>2, <1>4, OnOrder, TwoSides
    <3> QED
      BY <1>1, <2>2, <3>1, <3>2
  <2>5. S[k] = {k} \cup Sub(S, Left(k)) \cup Sub(S, Right(k))
        /\ \A x \in Sub(S, Left(k)) : On(score, "left", x, k)
    BY <1>1, SettledNode
  <2> QED
    BY <1>4, <2>3, <2>5
<1>5. \A m \in Allocated : On(score, "left", m, k) => On(score, "left", m, n)
  BY <1>1, <1>2, OnOrder, TwoSides
<1>7. \A x \in Allocated : Earlier(score[x], x) = {m \in Allocated : On(score, "left", m, x)}
  BY DEF Earlier, On
<1> HIDE DEF k
<1> QED
  BY <1>1, <1>3, <1>4, <1>5, <1>7 DEF k

(* What avl_offset adds to pos or takes from it, going down or up.           *)
LEMMA RankKid ==
    ASSUME NEW S, Settled(S), NEW n \in Allocated
    PROVE  /\ Right(n) # NULL => Rank(score, Right(n)) = Rank(score, n) + (Cnt(Left(Right(n))) + 1)
           /\ Left(n) # NULL => Rank(score, Left(n)) = Rank(score, n) - (Cnt(Right(Left(n))) + 1)
<1>1. ASSUME NEW a \in Allocated, NEW b \in Allocated, NEW c \in Allocated \cup {NULL},
             Earlier(score[b], b) = (Earlier(score[a], a) \cup {a}) \cup Sub(S, c),
             \A m \in Sub(S, c) : m # a /\ ~On(score, "left", m, a)
      PROVE  Rank(score, b) = Rank(score, a) + (Cnt(c) + 1)
  <2> DEFINE X == Earlier(score[a], a)
             Y == Sub(S, c)
  <2>1. \A x \in Allocated : x \in Int /\ score[x] \in Int
    BY SettledKeys
  <2>2. /\ IsFiniteSet(X) /\ Below(score, score[a], a) = Cardinality(X)
        /\ Below(score, score[b], b) = Cardinality(Earlier(score[b], b))
    BY <2>1, Ranked
  <2>3. Rank(score, a) = Cardinality(X) /\ Rank(score, b) = Cardinality(Earlier(score[b], b))
        /\ Rank(score, a) \in Nat
    BY <2>2, RankType DEF Rank
  <2>4. IsFiniteSet(Y) /\ Cnt(c) = Cardinality(Y) /\ Cnt(c) \in Nat
    BY Counted
  <2>5. a \notin X
    BY <2>1 DEF Earlier, Before
  <2>6. (X \cup {a}) \cap Y = {}
    BY <1>1 DEF Earlier, On
  <2>7. Earlier(score[b], b) = (X \cup {a}) \cup Y
    BY <1>1
  <2> HIDE DEF X, Y
  <2>8. IsFiniteSet(X \cup {a}) /\ Cardinality(X \cup {a}) = Cardinality(X) + 1
    BY <2>2, <2>5, FS_AddElement
  <2>9. Cardinality((X \cup {a}) \cup Y)
          = Cardinality(X \cup {a}) + Cardinality(Y) - Cardinality((X \cup {a}) \cap Y)
    BY <2>4, <2>8, FS_Union
  <2>10. Cardinality((X \cup {a}) \cap Y) = 0
    BY <2>6, FS_EmptySet
  <2> QED
    BY <2>3, <2>4, <2>7, <2>8, <2>9, <2>10
<1>2. Keys(Allocated, score)
  BY SettledKeys
<1>3. ASSUME Right(n) # NULL
      PROVE  Rank(score, Right(n)) = Rank(score, n) + (Cnt(Left(Right(n))) + 1)
  <2> DEFINE k == Right(n)
  <2>1. k \in Allocated /\ Left(k) \in Allocated \cup {NULL}
    BY <1>3, SettledNode
  <2>2. Earlier(score[k], k) = (Earlier(score[n], n) \cup {n}) \cup Sub(S, Left(k))
    BY <1>3, EarlierRight
  <2>3. \A m \in Sub(S, Left(k)) : m \in Allocated /\ On(score, "right", m, n)
    <3>1. S[k] = {k} \cup Sub(S, Left(k)) \cup Sub(S, Right(k)) /\ Sub(S, k) = S[k]
      BY <1>3, <2>1, SettledNode DEF Sub
    <3>2. \A m \in Sub(S, k) : m \in Allocated /\ On(score, "right", m, n)
      BY SettledNode
    <3> QED
      BY <3>1, <3>2
  <2>4. \A m \in Sub(S, Left(k)) : m # n /\ ~On(score, "left", m, n)
    BY <1>2, <2>3, OnOrder, TwoSides
  <2> HIDE DEF k
  <2>5. Rank(score, k) = Rank(score, n) + (Cnt(Left(k)) + 1)
    BY <1>1, <2>1, <2>2, <2>4
  <2> QED
    BY <2>5 DEF k
<1>4. ASSUME Left(n) # NULL
      PROVE  Rank(score, Left(n)) = Rank(score, n) - (Cnt(Right(Left(n))) + 1)
  <2> DEFINE k == Left(n)
  <2>1. k \in Allocated /\ Right(k) \in Allocated \cup {NULL}
    BY <1>4, SettledNode
  <2>2. Earlier(score[n], n) = (Earlier(score[k], k) \cup {k}) \cup Sub(S, Right(k))
    BY <1>4, EarlierLeft
  <2>3. \A m \in Sub(S, Right(k)) : m \in Allocated /\ On(score, "right", m, k)
    BY <2>1, SettledNode
  <2>4. \A m \in Sub(S, Right(k)) : m # k /\ ~On(score, "left", m, k)
    BY <1>2, <2>1, <2>3, OnOrder, TwoSides
  <2> HIDE DEF k
  <2>5. Rank(score, n) = Rank(score, k) + (Cnt(Right(k)) + 1)
    BY <1>1, <2>1, <2>2, <2>4
  <2>6. Rank(score, n) \in Nat /\ Rank(score, k) \in Nat /\ Cnt(Right(k)) \in Nat
    BY <2>1, RankType, Counted
  <2>7. Rank(score, k) = Rank(score, n) - (Cnt(Right(k)) + 1)
    BY <2>5, <2>6
  <2> QED
    BY <2>7 DEF k
<1> QED
  BY <1>3, <1>4

(* The whole tree is below the root.                                         *)
LEMMA RankRoot ==
    ASSUME NEW S, Settled(S), root # NULL
    PROVE  /\ root \in Allocated /\ Par(tree, root) = NULL
           /\ Rank(score, root) = Cnt(Left(root))
           /\ Cardinality(Allocated) = Cnt(Left(root)) + Cnt(Right(root)) + 1
<1>1. root \in Allocated /\ Par(tree, root) = NULL /\ S[root] = Allocated /\ Sub(S, root) = S[root]
  BY DEF Settled, IsTree, Sub
<1>2. Keys(Allocated, score) /\ \A x \in Allocated : x \in Int /\ score[x] \in Int
  BY SettledKeys
<1>3. Earlier(score[root], root) = Sub(S, Left(root))
  <2>1. /\ Allocated = {root} \cup Sub(S, Left(root)) \cup Sub(S, Right(root))
        /\ \A m \in Sub(S, Left(root)) : m \in Allocated /\ On(score, "left", m, root)
        /\ \A m \in Sub(S, Right(root)) : m \in Allocated /\ On(score, "right", m, root)
    BY <1>1, SettledNode
  <2>2. ~On(score, "left", root, root)
    BY <1>1, <1>2, OnOrder, TwoSides
  <2>3. \A m \in Sub(S, Right(root)) : ~On(score, "left", m, root)
    BY <1>1, <1>2, <2>1, OnOrder, TwoSides
  <2>4. Earlier(score[root], root) = {m \in Allocated : On(score, "left", m, root)}
    BY DEF Earlier, On
  <2> QED
    BY <2>1, <2>2, <2>3, <2>4
<1>4. Rank(score, root) = Cnt(Left(root))
  <2>1. Below(score, score[root], root) = Cardinality(Earlier(score[root], root))
    BY <1>1, <1>2, Ranked
  <2>2. Left(root) \in Allocated \cup {NULL}
    BY <1>1, SettledNode
  <2>3. Cnt(Left(root)) = Cardinality(Sub(S, Left(root)))
    BY <2>2, Counted
  <2> QED
    BY <1>3, <2>1, <2>3 DEF Rank
<1>5. Cardinality(Allocated) = Cnt(root)
  BY <1>1, Counted
<1>6. Cnt(root) = 1 + Cnt(Left(root)) + Cnt(Right(root))
  <2>1. Even(tree, root)
    BY <1>1 DEF Settled
  <2> QED
    BY <2>1, TwoSides DEF Even, CntOf, Cnt, Left, Right
<1>7. Cnt(Left(root)) \in Nat /\ Cnt(Right(root)) \in Nat
  BY <1>1, SettledNode, Counted
<1> QED
  BY <1>1, <1>4, <1>5, <1>6, <1>7

(* Every rank is some member's.                                              *)
LEMMA NodeAtRank ==
    ASSUME NEW S, Settled(S)
    PROVE  /\ \A n \in Allocated : NodeAt(Rank(score, n)) = n
           /\ \A k \in 0..(Cardinality(Allocated) - 1) :
                 NodeAt(k) \in Allocated /\ Rank(score, NodeAt(k)) = k
           /\ \A k : k \notin 0..(Cardinality(Allocated) - 1) => NodeAt(k) = NULL
<1> DEFINE size == Cardinality(Allocated)
           Places == 0..(size - 1)
           f == [n \in Allocated |-> Rank(score, n)]
<1>1. \A n \in Allocated : /\ Rank(score, n) \in Nat /\ size \in Nat /\ Rank(score, n) < size
                           /\ \A m \in Allocated : m # n => Rank(score, m) # Rank(score, n)
  BY RankType
<1>2. IsFiniteSet(Allocated) /\ size \in Nat
  BY SettledKeys, FS_CardinalityType
<1>3. f \in Injection(Allocated, Places)
  <2>1. f \in [Allocated -> Places]
    BY <1>1
  <2>2. \A a, b \in Allocated : f[a] = f[b] => a = b
    BY <1>1
  <2> QED
    BY <2>1, <2>2 DEF Injection, IsInjective
<1>4. IsFiniteSet(Places) /\ Cardinality(Places) = size
  BY <1>2, FS_Interval
<1>5. f \in Surjection(Allocated, Places)
  <2> HIDE DEF f, Places, size
  <2> QED
    BY <1>3, <1>4, FS_Injection DEF size
<1>6. \A k \in Places : \E n \in Allocated : Rank(score, n) = k
  <2>1. \A k \in Places : \E n \in Allocated : f[n] = k
    <3> HIDE DEF f, Places
    <3> QED
      BY <1>5 DEF Surjection
  <2> QED
    BY <2>1
<1>7. ASSUME NEW n \in Allocated PROVE NodeAt(Rank(score, n)) = n
  <2>1. {m \in Allocated : Rank(score, m) = Rank(score, n)} = {n}
    BY <1>1
  <2> QED
    BY <2>1 DEF NodeAt
<1>8. ASSUME NEW k \in Places PROVE NodeAt(k) \in Allocated /\ Rank(score, NodeAt(k)) = k
  <2>1. PICK n \in Allocated : Rank(score, n) = k
    BY <1>6
  <2> QED
    BY <1>7, <2>1
<1>9. ASSUME NEW k, k \notin Places PROVE NodeAt(k) = NULL
  <2>1. {m \in Allocated : Rank(score, m) = k} = {}
    BY <1>1, <1>9
  <2> QED
    BY <2>1 DEF NodeAt
<1> QED
  BY <1>7, <1>8, <1>9

(* avl_offset.  One iteration of its loop, from m at pos; f is what follows. *)
Walk(f, m, pos, offset) ==
    CASE pos = offset -> m
      [] pos < offset /\ pos + Cnt(Right(m)) >= offset ->
            f[Right(m)][pos + Cnt(Left(Right(m))) + 1]
      [] pos > offset /\ pos - Cnt(Left(m)) <= offset ->
            f[Left(m)][pos - (Cnt(Right(Left(m))) + 1)]
      [] OTHER -> IF Par(tree, m) = NULL THEN NULL
                  ELSE IF Right(Par(tree, m)) = m THEN f[Par(tree, m)][pos - (Cnt(Left(m)) + 1)]
                  ELSE f[Par(tree, m)][pos + Cnt(Right(m)) + 1]

Walks(f, offset) == \A m \in Allocated, pos \in Int : f[m][pos] = Walk(f, m, pos, offset)

(* The rank that is looked for, when m is pos away from the start.           *)
Target(m, pos, offset) == Rank(score, m) + offset - pos

Inside(m, pos, offset) ==
    /\ Rank(score, m) - Cnt(Left(m)) <= Target(m, pos, offset)
    /\ Target(m, pos, offset) <= Rank(score, m) + Cnt(Right(m))

(* Every branch of the loop keeps the target; the way down, in sight.        *)
LEMMA WalkDown ==
    ASSUME NEW S, Settled(S), NEW m \in Allocated, NEW pos \in Int, NEW offset \in Int
    PROVE  /\ pos < offset /\ pos + Cnt(Right(m)) >= offset =>
                 /\ Right(m) \in Allocated /\ pos + Cnt(Left(Right(m))) + 1 \in Int
                 /\ Target(Right(m), pos + Cnt(Left(Right(m))) + 1, offset) = Target(m, pos, offset)
                 /\ Inside(Right(m), pos + Cnt(Left(Right(m))) + 1, offset)
           /\ pos > offset /\ pos - Cnt(Left(m)) <= offset =>
                 /\ Left(m) \in Allocated /\ pos - (Cnt(Right(Left(m))) + 1) \in Int
                 /\ Target(Left(m), pos - (Cnt(Right(Left(m))) + 1), offset) = Target(m, pos, offset)
                 /\ Inside(Left(m), pos - (Cnt(Right(Left(m))) + 1), offset)
<1>0. Left(m) \in Allocated \cup {NULL} /\ Right(m) \in Allocated \cup {NULL}
  BY SettledNode
<1>1. Cnt(NULL) = 0 /\ \A k \in Allocated \cup {NULL} : Cnt(k) \in Nat
  BY Counted DEF Cnt, avl_cnt
<1>2. \A k \in Allocated : /\ Rank(score, k) \in Nat
                           /\ Cnt(k) = 1 + Cnt(Left(k)) + Cnt(Right(k))
                           /\ Cnt(Left(k)) \in Nat /\ Cnt(Right(k)) \in Nat
  <2> TAKE k \in Allocated
  <2>1. Rank(score, k) \in Nat
    BY RankType
  <2>2. Even(tree, k)
    BY DEF Settled
  <2>3. Cnt(k) = 1 + Cnt(Left(k)) + Cnt(Right(k))
    BY <2>2, TwoSides DEF Even, CntOf, Cnt, Left, Right
  <2>4. Left(k) \in Allocated \cup {NULL} /\ Right(k) \in Allocated \cup {NULL}
    BY SettledNode
  <2> QED
    BY <1>1, <2>1, <2>3, <2>4
<1>3. ASSUME pos < offset, pos + Cnt(Right(m)) >= offset
      PROVE  /\ Right(m) \in Allocated /\ pos + Cnt(Left(Right(m))) + 1 \in Int
             /\ Target(Right(m), pos + Cnt(Left(Right(m))) + 1, offset) = Target(m, pos, offset)
             /\ Inside(Right(m), pos + Cnt(Left(Right(m))) + 1, offset)
  <2> DEFINE k == Right(m)
  <2>1. k \in Allocated
    BY <1>0, <1>1, <1>3
  <2>2. k # NULL
    BY <2>1, SettledNode
  <2>3. Rank(score, k) = Rank(score, m) + (Cnt(Left(k)) + 1)
    BY <2>2, RankKid
  <2>4. /\ Rank(score, m) \in Nat /\ Rank(score, k) \in Nat
        /\ Cnt(k) = 1 + Cnt(Left(k)) + Cnt(Right(k)) /\ Cnt(Left(k)) \in Nat /\ Cnt(Right(k)) \in Nat
    BY <1>2, <2>1
  <2>5. pos + Cnt(k) >= offset
    BY <1>3
  <2> HIDE DEF k
  <2>6. /\ pos + Cnt(Left(k)) + 1 \in Int
        /\ Target(k, pos + Cnt(Left(k)) + 1, offset) = Target(m, pos, offset)
    BY <2>3, <2>4 DEF Target
  <2>7. Inside(k, pos + Cnt(Left(k)) + 1, offset)
    BY <1>3, <2>3, <2>4, <2>5 DEF Inside, Target
  <2> QED
    BY <2>1, <2>6, <2>7 DEF k
<1>4. ASSUME pos > offset, pos - Cnt(Left(m)) <= offset
      PROVE  /\ Left(m) \in Allocated /\ pos - (Cnt(Right(Left(m))) + 1) \in Int
             /\ Target(Left(m), pos - (Cnt(Right(Left(m))) + 1), offset) = Target(m, pos, offset)
             /\ Inside(Left(m), pos - (Cnt(Right(Left(m))) + 1), offset)
  <2> DEFINE k == Left(m)
  <2>1. k \in Allocated
    BY <1>0, <1>1, <1>4
  <2>2. k # NULL
    BY <2>1, SettledNode
  <2>3. Rank(score, k) = Rank(score, m) - (Cnt(Right(k)) + 1)
    BY <2>2, RankKid
  <2>4. /\ Rank(score, m) \in Nat /\ Rank(score, k) \in Nat
        /\ Cnt(k) = 1 + Cnt(Left(k)) + Cnt(Right(k)) /\ Cnt(Left(k)) \in Nat /\ Cnt(Right(k)) \in Nat
    BY <1>2, <2>1
  <2>5. pos - Cnt(k) <= offset
    BY <1>4
  <2> HIDE DEF k
  <2>6. /\ pos - (Cnt(Right(k)) + 1) \in Int
        /\ Target(k, pos - (Cnt(Right(k)) + 1), offset) = Target(m, pos, offset)
    BY <2>3, <2>4 DEF Target
  <2>7. Inside(k, pos - (Cnt(Right(k)) + 1), offset)
    BY <1>4, <2>3, <2>4, <2>5 DEF Inside, Target
  <2> QED
    BY <2>1, <2>6, <2>7 DEF k
<1> QED
  BY <1>3, <1>4

LEMMA WalkUp ==
    ASSUME NEW S, Settled(S), NEW m \in Allocated, NEW pos \in Int, NEW offset \in Int
    PROVE  LET p == Par(tree, m) IN
           /\ p = NULL <=> m = root
           /\ p # NULL =>
                 /\ p \in Allocated /\ (Left(p) = m \/ Right(p) = m)
                 /\ Right(p) = m => /\ pos - (Cnt(Left(m)) + 1) \in Int
                                    /\ Target(p, pos - (Cnt(Left(m)) + 1), offset) = Target(m, pos, offset)
                 /\ Right(p) # m => /\ pos + Cnt(Right(m)) + 1 \in Int
                                    /\ Target(p, pos + Cnt(Right(m)) + 1, offset) = Target(m, pos, offset)
<1> DEFINE p == Par(tree, m)
<1>1. p = NULL <=> m = root
  BY ParentOf DEF Settled
<1>2. ASSUME p # NULL PROVE p \in Allocated /\ (Left(p) = m \/ Right(p) = m)
  <2>1. p \in Allocated /\ SideOf(tree, p, m) \in Sides /\ Kid(tree, p, SideOf(tree, p, m)) = m
    BY <1>2, ParentOf DEF Settled
  <2> HIDE DEF p
  <2> QED
    BY <2>1, TwoSides DEF Left, Right, Sides
<1>3. /\ Rank(score, m) \in Nat /\ Cnt(Left(m)) \in Nat /\ Cnt(Right(m)) \in Nat /\ m # NULL
  BY RankType, SettledNode, Counted
<1>4. ASSUME p # NULL, Right(p) = m
      PROVE  /\ pos - (Cnt(Left(m)) + 1) \in Int
             /\ Target(p, pos - (Cnt(Left(m)) + 1), offset) = Target(m, pos, offset)
  <2>1. Rank(score, p) \in Nat /\ Rank(score, m) = Rank(score, p) + (Cnt(Left(m)) + 1)
    BY <1>2, <1>3, <1>4, RankKid, RankType
  <2> HIDE DEF p
  <2> QED
    BY <1>3, <2>1 DEF Target
<1>5. ASSUME p # NULL, Right(p) # m
      PROVE  /\ pos + Cnt(Right(m)) + 1 \in Int
             /\ Target(p, pos + Cnt(Right(m)) + 1, offset) = Target(m, pos, offset)
  <2>1. Rank(score, p) \in Nat /\ Rank(score, m) = Rank(score, p) - (Cnt(Right(m)) + 1)
    BY <1>2, <1>3, <1>5, RankKid, RankType
  <2> HIDE DEF p
  <2> QED
    BY <1>3, <2>1 DEF Target
<1> QED
  BY <1>1, <1>2, <1>4, <1>5

(* Ranks that the root has not in sight are nobody's.                        *)
LEMMA OutOfSight ==
    ASSUME NEW S, Settled(S), root \in Allocated, NEW pos \in Int, NEW offset \in Int,
           ~Inside(root, pos, offset)
    PROVE  NodeAt(Target(root, pos, offset)) = NULL
<1>1. root # NULL
  BY SettledNode
<1>2. /\ Rank(score, root) = Cnt(Left(root))
      /\ Cardinality(Allocated) = Cnt(Left(root)) + Cnt(Right(root)) + 1
  BY <1>1, RankRoot
<1>3. Cnt(Left(root)) \in Nat /\ Cnt(Right(root)) \in Nat
  BY SettledNode, Counted
<1>4. Target(root, pos, offset) \notin 0..(Cardinality(Allocated) - 1)
  BY <1>2, <1>3 DEF Inside, Target
<1> QED
  BY <1>4, NodeAtRank

LEMMA SeesIt ==
    ASSUME NEW S, Settled(S), NEW m \in Allocated, NEW pos \in Int, NEW offset \in Int
    PROVE  Inside(m, pos, offset) <=>
              \/ pos = offset
              \/ pos < offset /\ pos + Cnt(Right(m)) >= offset
              \/ pos > offset /\ pos - Cnt(Left(m)) <= offset
<1>1. /\ Rank(score, m) \in Nat /\ Cnt(Left(m)) \in Nat /\ Cnt(Right(m)) \in Nat
  BY RankType, SettledNode, Counted
<1> QED
  BY <1>1 DEF Inside, Target

(* The function that answers every target with the node of that rank is one. *)
LEMMA WalkExists ==
    ASSUME NEW S, Settled(S), NEW offset \in Int, NEW f,
           \A m \in Allocated, pos \in Int : f[m][pos] = NodeAt(Target(m, pos, offset))
    PROVE  Walks(f, offset)
<1> SUFFICES ASSUME NEW m \in Allocated, NEW pos \in Int
             PROVE  NodeAt(Target(m, pos, offset)) = Walk(f, m, pos, offset)
  BY DEF Walks
<1>0. Inside(m, pos, offset) <=>
              \/ pos = offset
              \/ pos < offset /\ pos + Cnt(Right(m)) >= offset
              \/ pos > offset /\ pos - Cnt(Left(m)) <= offset
  BY SeesIt
<1>1. CASE pos = offset
  <2>1. Target(m, pos, offset) = Rank(score, m)
    <3>1. Rank(score, m) \in Nat
      BY RankType
    <3> QED
      BY <1>1, <3>1 DEF Target
  <2>2. NodeAt(Rank(score, m)) = m
    BY NodeAtRank
  <2> QED
    BY <1>1, <2>1, <2>2 DEF Walk
<1>2. CASE pos < offset /\ pos + Cnt(Right(m)) >= offset
  <2>1. /\ Right(m) \in Allocated /\ pos + Cnt(Left(Right(m))) + 1 \in Int
        /\ Target(Right(m), pos + Cnt(Left(Right(m))) + 1, offset) = Target(m, pos, offset)
    BY <1>2, WalkDown
  <2>2. ~(pos = offset) /\ ~(pos > offset)
    BY <1>2
  <2>3. Walk(f, m, pos, offset) = f[Right(m)][pos + Cnt(Left(Right(m))) + 1]
    BY <1>2, <2>2 DEF Walk
  <2> QED
    BY <2>1, <2>3
<1>3. CASE pos > offset /\ pos - Cnt(Left(m)) <= offset
  <2>1. /\ Left(m) \in Allocated /\ pos - (Cnt(Right(Left(m))) + 1) \in Int
        /\ Target(Left(m), pos - (Cnt(Right(Left(m))) + 1), offset) = Target(m, pos, offset)
    BY <1>3, WalkDown
  <2>2. ~(pos = offset) /\ ~(pos < offset)
    BY <1>3
  <2>3. Walk(f, m, pos, offset) = f[Left(m)][pos - (Cnt(Right(Left(m))) + 1)]
    BY <1>3, <2>2 DEF Walk
  <2> QED
    BY <2>1, <2>3
<1>4. CASE ~Inside(m, pos, offset)
  <2> DEFINE p == Par(tree, m)
  <2>1. Walk(f, m, pos, offset) =
            IF p = NULL THEN NULL
            ELSE IF Right(p) = m THEN f[p][pos - (Cnt(Left(m)) + 1)] ELSE f[p][pos + Cnt(Right(m)) + 1]
    BY <1>0, <1>4 DEF Walk
  <2>2. CASE p = NULL
    <3>1. m = root
      BY <2>2, WalkUp
    <3> QED
      BY <1>4, <2>1, <2>2, <3>1, OutOfSight
  <2>3. CASE p # NULL
    <3>1. /\ p \in Allocated
          /\ Right(p) = m => /\ pos - (Cnt(Left(m)) + 1) \in Int
                             /\ Target(p, pos - (Cnt(Left(m)) + 1), offset) = Target(m, pos, offset)
          /\ Right(p) # m => /\ pos + Cnt(Right(m)) + 1 \in Int
                             /\ Target(p, pos + Cnt(Right(m)) + 1, offset) = Target(m, pos, offset)
      BY <2>3, WalkUp
    <3> HIDE DEF p
    <3> QED
      BY <2>1, <2>3, <3>1
  <2> QED
    BY <2>2, <2>3
<1> QED
  BY <1>0, <1>1, <1>2, <1>3, <1>4

(* Induction from the root to the leaves.                                    *)
LEMMA TreeDescend ==
    ASSUME NEW T, NEW A, NEW L, NEW sc, NEW r, NEW S, IsTree(T, A, L, sc, r, S),
           NEW Q, r \in Q, \A n \in L : Par(T, n) \in Q \cap L => n \in Q
    PROVE  L \subseteq Q
<1> DEFINE Down == {n \in L : n \in Q => S[n] \subseteq Q}
<1>1. ASSUME NEW n \in L, \A side \in Sides : Kid(T, n, side) \in Down \cup {NULL}, n \in Q
      PROVE  S[n] \subseteq Q
  <2>1. ASSUME NEW side \in Sides PROVE Sub(S, Kid(T, n, side)) \subseteq Q
    <3> DEFINE k == Kid(T, n, side)
    <3>1. CASE k = NULL
      BY <3>1 DEF Sub
    <3>2. CASE k # NULL
      <4>1. k \in L /\ Par(T, k) = n
        BY <3>2, TreeNode
      <4>2. k \in Q /\ k \in Down
        BY <1>1, <3>2, <4>1
      <4> QED
        BY <3>2, <4>2 DEF Sub
    <3> QED
      BY <3>1, <3>2
  <2>2. S[n] = {n} \cup Sub(S, Kid(T, n, "left")) \cup Sub(S, Kid(T, n, "right"))
    BY DEF IsTree
  <2>3. Sub(S, Kid(T, n, "left")) \subseteq Q /\ Sub(S, Kid(T, n, "right")) \subseteq Q
    BY <2>1, TwoSides
  <2> QED
    BY <1>1, <2>2, <2>3
<1>2. L \subseteq Down
  <2>1. \A n \in L : (\A side \in Sides : Kid(T, n, side) \in Down \cup {NULL}) => n \in Down
    BY <1>1
  <2> HIDE DEF Down
  <2> QED
    BY <2>1, TreeInduct
<1>3. CASE L = {}
  BY <1>3
<1>4. CASE L # {}
  <2>1. r \in L /\ S[r] = L
    BY <1>4, ParentOf
  <2> QED
    BY <1>2, <2>1
<1> QED
  BY <1>3, <1>4

(* Any function that does what the loop does answers like that: first down,  *)
(* from the nodes that have the target in sight, then up, from all.          *)
LEMMA WalkRight ==
    ASSUME NEW S, Settled(S), NEW offset \in Int, NEW f, Walks(f, offset)
    PROVE  \A m \in Allocated, pos \in Int : f[m][pos] = NodeAt(Target(m, pos, offset))
<1> DEFINE Good(m, pos) == f[m][pos] = NodeAt(Target(m, pos, offset))
           Q == {m \in Allocated : \A pos \in Int : Inside(m, pos, offset) => Good(m, pos)}
           R == {m \in Allocated : \A pos \in Int : Good(m, pos)}
<1>0. \A m \in Allocated, pos \in Int : f[m][pos] = Walk(f, m, pos, offset)
  BY DEF Walks
<1>1. ASSUME NEW m \in Allocated, \A side \in Sides : Kid(tree, m, side) \in Q \cup {NULL},
             NEW pos \in Int, Inside(m, pos, offset)
      PROVE  Good(m, pos)
  <2>0. \/ pos = offset
        \/ pos < offset /\ pos + Cnt(Right(m)) >= offset
        \/ pos > offset /\ pos - Cnt(Left(m)) <= offset
    BY <1>1, SeesIt
  <2>1. CASE pos = offset
    <3>1. Target(m, pos, offset) = Rank(score, m)
      <4>1. Rank(score, m) \in Nat
        BY RankType
      <4> QED
        BY <2>1, <4>1 DEF Target
    <3>2. NodeAt(Rank(score, m)) = m
      BY NodeAtRank
    <3>3. Walk(f, m, pos, offset) = m
      BY <2>1 DEF Walk
    <3> QED
      BY <1>0, <3>1, <3>2, <3>3
  <2>2. CASE pos < offset /\ pos + Cnt(Right(m)) >= offset
    <3> DEFINE k == Right(m)
               q == pos + Cnt(Left(Right(m))) + 1
    <3>1. /\ k \in Allocated /\ q \in Int
          /\ Target(k, q, offset) = Target(m, pos, offset) /\ Inside(k, q, offset)
      BY <2>2, WalkDown
    <3>2. ~(pos = offset) /\ ~(pos > offset)
      BY <2>2
    <3>3. Walk(f, m, pos, offset) = f[k][q]
      BY <2>2, <3>2 DEF Walk
    <3>4. k \in Q
      <4>1. k # NULL
        BY <3>1, SettledNode
      <4> HIDE DEF Q
      <4> QED
        BY <1>1, <4>1, TwoSides DEF Right
    <3> HIDE DEF k, q
    <3> QED
      BY <1>0, <3>1, <3>3, <3>4
  <2>3. CASE pos > offset /\ pos - Cnt(Left(m)) <= offset
    <3> DEFINE k == Left(m)
               q == pos - (Cnt(Right(Left(m))) + 1)
    <3>1. /\ k \in Allocated /\ q \in Int
          /\ Target(k, q, offset) = Target(m, pos, offset) /\ Inside(k, q, offset)
      BY <2>3, WalkDown
    <3>2. ~(pos = offset) /\ ~(pos < offset)
      BY <2>3
    <3>3. Walk(f, m, pos, offset) = f[k][q]
      BY <2>3, <3>2 DEF Walk
    <3>4. k \in Q
      <4>1. k # NULL
        BY <3>1, SettledNode
      <4> HIDE DEF Q
      <4> QED
        BY <1>1, <4>1, TwoSides DEF Left
    <3> HIDE DEF k, q
    <3> QED
      BY <1>0, <3>1, <3>3, <3>4
  <2> QED
    BY <2>0, <2>1, <2>2, <2>3
<1>2. Allocated \subseteq Q
  <2> HIDE DEF Good
  <2>1. \A m \in Allocated : (\A side \in Sides : Kid(tree, m, side) \in Q \cup {NULL}) => m \in Q
    BY <1>1
  <2>2. IsTree(tree, Allocated, Allocated, score, root, S)
    BY DEF Settled
  <2> HIDE DEF Q
  <2> QED
    BY <2>1, <2>2, TreeInduct
<1>3. ASSUME NEW m \in Allocated, m = root \/ Par(tree, m) \in R, NEW pos \in Int,
             ~Inside(m, pos, offset)
      PROVE  Good(m, pos)
  <2> DEFINE p == Par(tree, m)
  <2>1. f[m][pos] =
            IF p = NULL THEN NULL
            ELSE IF Right(p) = m THEN f[p][pos - (Cnt(Left(m)) + 1)] ELSE f[p][pos + Cnt(Right(m)) + 1]
    <3>1. ~(\/ pos = offset
            \/ pos < offset /\ pos + Cnt(Right(m)) >= offset
            \/ pos > offset /\ pos - Cnt(Left(m)) <= offset)
      BY <1>3, SeesIt
    <3> QED
      BY <1>0, <3>1 DEF Walk
  <2>2. CASE m = root
    <3>1. p = NULL
      BY <2>2, WalkUp
    <3>2. NodeAt(Target(m, pos, offset)) = NULL
      BY <1>3, <2>2, OutOfSight
    <3> QED
      BY <2>1, <3>1, <3>2
  <2>3. CASE m # root
    <3>1. /\ p # NULL /\ p \in Allocated /\ p \in R
          /\ Right(p) = m => /\ pos - (Cnt(Left(m)) + 1) \in Int
                             /\ Target(p, pos - (Cnt(Left(m)) + 1), offset) = Target(m, pos, offset)
          /\ Right(p) # m => /\ pos + Cnt(Right(m)) + 1 \in Int
                             /\ Target(p, pos + Cnt(Right(m)) + 1, offset) = Target(m, pos, offset)
      <4> HIDE DEF R
      <4> QED
        BY <1>3, <2>3, WalkUp
    <3>2. \A q \in Int : f[p][q] = NodeAt(Target(p, q, offset))
      BY <3>1
    <3> HIDE DEF p, R
    <3> QED
      BY <2>1, <3>1, <3>2
  <2> QED
    BY <2>2, <2>3
<1>4. ASSUME NEW m \in Allocated, m = root \/ Par(tree, m) \in R PROVE m \in R
  <2>1. ASSUME NEW pos \in Int PROVE Good(m, pos)
    <3>1. CASE Inside(m, pos, offset)
      <4> HIDE DEF Good
      <4> QED
        BY <1>2, <3>1
    <3>2. CASE ~Inside(m, pos, offset)
      <4> HIDE DEF Good, R
      <4> QED
        BY <1>3, <1>4, <3>2
    <3> QED
      BY <3>1, <3>2
  <2> HIDE DEF Good
  <2> QED
    BY <2>1
<1>5. Allocated \subseteq R
  <2>1. IsTree(tree, Allocated, Allocated, score, root, S)
    BY DEF Settled
  <2>2. CASE Allocated = {}
    BY <2>2
  <2>3. CASE Allocated # {}
    <3>1. root \in Allocated
      BY <2>1, <2>3, ParentOf
    <3> HIDE DEF R
    <3>2. root \in R
      BY <1>4, <3>1
    <3> QED
      BY <1>4, <2>1, <3>2, TreeDescend
  <2> QED
    BY <2>2, <2>3
<1> QED
  BY <1>5

(* So does avl_offset, from whatever node, by any offset.                    *)
LEMMA OffsetRight ==
    ASSUME NEW S, Settled(S), NEW n \in Allocated, NEW offset \in Int
    PROVE  avl_offset(n, offset) = NodeAt(Rank(score, n) + offset)
<1> DEFINE cnt(m) == avl_cnt(tree, m)
           Is(f) == f =
             [m \in DOMAIN tree |->
                LET l == tree[m].left   r == tree[m].right   p == tree[m].parent IN
                [pos \in Int |->
                    CASE pos = offset -> m
                      [] pos < offset /\ pos + cnt(r) >= offset -> f[r][pos + cnt(tree[r].left) + 1]
                      [] pos > offset /\ pos - cnt(l) <= offset -> f[l][pos - (cnt(tree[l].right) + 1)]
                      [] OTHER -> IF p = NULL THEN NULL
                                  ELSE IF tree[p].right = m THEN f[p][pos - (cnt(l) + 1)]
                                  ELSE f[p][pos + cnt(r) + 1]]]
           walk == CHOOSE f : Is(f)
<1>1. avl_offset(n, offset) = walk[n][0]
  BY Zenon DEF avl_offset
<1>2. \A f : Is(f) <=> f = [m \in Allocated |-> [pos \in Int |-> Walk(f, m, pos, offset)]]
  BY DEF Walk, Cnt, Left, Right, Par, Kid, Allocated
<1> HIDE DEF Is
<1>3. \E f : Is(f)
  <2> DEFINE f == [m \in Allocated |-> [pos \in Int |-> NodeAt(Target(m, pos, offset))]]
  <2>1. \A m \in Allocated, pos \in Int : f[m][pos] = NodeAt(Target(m, pos, offset))
    OBVIOUS
  <2>2. f = [m \in Allocated |-> [pos \in Int |-> f[m][pos]]]
    OBVIOUS
  <2> HIDE DEF f
  <2>3. \A m \in Allocated, pos \in Int : f[m][pos] = Walk(f, m, pos, offset)
    BY <2>1, WalkExists DEF Walks
  <2>4. f = [m \in Allocated |-> [pos \in Int |-> Walk(f, m, pos, offset)]]
    BY <2>2, <2>3
  <2> QED
    BY <1>2, <2>4
<1>4. Is(walk)
  BY <1>3
<1> HIDE DEF walk
<1>5. walk = [m \in Allocated |-> [pos \in Int |-> Walk(walk, m, pos, offset)]]
  BY <1>2, <1>4
<1>6. Walks(walk, offset)
  BY <1>5 DEF Walks
<1>7. walk[n][0] = NodeAt(Target(n, 0, offset))
  BY <1>6, WalkRight
<1>8. Target(n, 0, offset) = Rank(score, n) + offset
  <2>1. Rank(score, n) \in Nat
    BY RankType
  <2> QED
    BY <2>1 DEF Target
<1> QED
  BY <1>1, <1>7, <1>8

(* zset_seekge.  What is before a key has a rank below the key's, no other.  *)
LEMMA KeyRank ==
    ASSUME NEW S, Settled(S), NEW m \in Allocated, NEW s \in Int, NEW n \in Int
    PROVE  /\ Below(score, s, n) \in Nat
           /\ zless(score[m], m, s, n) <=> Rank(score, m) < Below(score, s, n)
<1>1. m \in Int /\ score[m] \in Int /\ \A k \in Allocated : k \in Int /\ score[k] \in Int
  BY SettledKeys
<1>2. Below(score, s, n) \in Nat /\ Below(score, s, n) = Cardinality(Earlier(s, n))
      /\ IsFiniteSet(Earlier(s, n))
  BY Ranked
<1>3. Below(score, score[m], m) \in Nat /\ Below(score, score[m], m) = Cardinality(Earlier(score[m], m))
      /\ IsFiniteSet(Earlier(score[m], m))
  <2>1. score[m] \in Int /\ m \in Int
    BY <1>1
  <2>2. /\ IsFiniteSet(Earlier(score[m], m))
        /\ Below(score, score[m], m) = Cardinality(Earlier(score[m], m))
        /\ Below(score, score[m], m) \in 0..Cardinality(Allocated) /\ Cardinality(Allocated) \in Nat
    BY <2>1, Ranked
  <2> QED
    BY <2>2
<1>4. zless(score[m], m, s, n) <=> Before(score[m], m, s, n)
  BY <1>1 DEF zless, Before
<1>5. ASSUME Before(score[m], m, s, n) PROVE Rank(score, m) < Below(score, s, n)
  BY <1>5, RankedLater
<1>6. ASSUME ~Before(score[m], m, s, n) PROVE Below(score, s, n) <= Rank(score, m)
  <2>1. Earlier(s, n) \subseteq Earlier(score[m], m)
    <3> SUFFICES ASSUME NEW k \in Allocated, Before(score[k], k, s, n)
                 PROVE  Before(score[k], k, score[m], m)
      BY DEF Earlier
    <3>1. k \in Int /\ score[k] \in Int
      BY <1>1
    <3> QED
      BY <1>1, <1>6, <3>1 DEF Before
  <2>2. Cardinality(Earlier(s, n)) <= Cardinality(Earlier(score[m], m))
    BY <1>3, <2>1, FS_Subset
  <2> QED
    BY <1>2, <1>3, <2>2 DEF Rank
<1>7. Rank(score, m) \in Nat
  BY <1>3 DEF Rank
<1> QED
  BY <1>2, <1>4, <1>5, <1>6, <1>7

(* The ranks are in the order of the tree.                                   *)
LEMMA RankSides ==
    ASSUME NEW S, Settled(S), NEW n \in Allocated
    PROVE  /\ \A m \in Sub(S, Left(n)) : m \in Allocated /\ Rank(score, m) < Rank(score, n)
           /\ \A m \in Sub(S, Right(n)) : m \in Allocated /\ Rank(score, n) < Rank(score, m)
<1>1. \A m \in Allocated : m \in Int /\ score[m] \in Int
  BY SettledKeys
<1>2. ASSUME NEW a \in Allocated, NEW b \in Allocated, Before(score[a], a, score[b], b)
      PROVE  Rank(score, a) < Rank(score, b)
  <2>1. Rank(score, a) < Below(score, score[b], b)
    BY <1>1, <1>2, RankedLater
  <2> QED
    BY <2>1 DEF Rank
<1>3. /\ \A m \in Sub(S, Left(n)) : m \in Allocated /\ Before(score[m], m, score[n], n)
      /\ \A m \in Sub(S, Right(n)) : m \in Allocated /\ Before(score[n], n, score[m], m)
  <2>1. /\ \A m \in Sub(S, Left(n)) : m \in Allocated /\ On(score, "left", m, n)
        /\ \A m \in Sub(S, Right(n)) : m \in Allocated /\ On(score, "right", m, n)
    BY SettledNode
  <2> QED
    BY <2>1 DEF On
<1> QED
  BY <1>2, <1>3

(* The nodes of X whose ranks are not below t, and the first of them.        *)
From(X, t) == {m \in X : t <= Rank(score, m)}
First(X) == CHOOSE k \in X : \A j \in X : Rank(score, k) <= Rank(score, j)

LEMMA FirstIs ==
    ASSUME NEW S, Settled(S), NEW X, X \subseteq Allocated
    PROVE  /\ X # {} => First(X) \in X /\ \A j \in X : Rank(score, First(X)) <= Rank(score, j)
           /\ \A k \in X : (\A j \in X : Rank(score, k) <= Rank(score, j)) => First(X) = k
<1>1. \A k \in Allocated : /\ Rank(score, k) \in Nat
                           /\ \A j \in Allocated : j # k => Rank(score, j) # Rank(score, k)
  BY RankType
<1>2. ASSUME X # {} PROVE \E k \in X : \A j \in X : Rank(score, k) <= Rank(score, j)
  <2> DEFINE N == {Rank(score, k) : k \in X}
  <2>1. N \subseteq Nat /\ N # {}
    BY <1>1, <1>2
  <2>2. PICK r \in N : \A q \in N : r <= q
    <3> HIDE DEF N
    <3> QED
      BY <2>1, NatMin
  <2>3. PICK k \in X : r = Rank(score, k)
    BY <2>2
  <2> QED
    BY <2>2, <2>3
<1>3. ASSUME X # {} PROVE First(X) \in X /\ \A j \in X : Rank(score, First(X)) <= Rank(score, j)
  BY <1>2, <1>3 DEF First
<1>4. ASSUME NEW k \in X, \A j \in X : Rank(score, k) <= Rank(score, j) PROVE First(X) = k
  <2>1. First(X) \in X /\ Rank(score, First(X)) <= Rank(score, k)
    BY <1>3
  <2>2. Rank(score, k) <= Rank(score, First(X))
    BY <1>4, <2>1
  <2>3. First(X) \in Allocated /\ k \in Allocated
    BY <2>1
  <2> QED
    BY <1>1, <2>1, <2>2, <2>3
<1> QED
  BY <1>3, <1>4

(* One iteration of the loop, and what it answers: the first candidate.      *)
SeekOn(f, m, found, s, n) ==
    IF m = NULL THEN found
    ELSE IF zless(score[m], m, s, n) THEN f[Right(m)][found]
    ELSE f[Left(m)][m]

Found(S, m, found, t) == IF From(Sub(S, m), t) = {} THEN found ELSE First(From(Sub(S, m), t))

LEMMA FoundStep ==
    ASSUME NEW S, Settled(S), NEW m \in Allocated, NEW found, NEW t \in Nat
    PROVE  Found(S, m, found, t) = IF Rank(score, m) < t THEN Found(S, Right(m), found, t)
                                   ELSE Found(S, Left(m), m, t)
<1> DEFINE X == Sub(S, Left(m))
           Y == Sub(S, Right(m))
           r == Rank(score, m)
           Z == Sub(S, m)
<1>1. Z = {m} \cup X \cup Y /\ Z \subseteq Allocated
  BY SettledNode DEF Sub
<1>2. r \in Nat /\ \A k \in Allocated : Rank(score, k) \in Nat
  BY RankType
<1>3. /\ \A k \in X : k \in Allocated /\ Rank(score, k) < r
      /\ \A k \in Y : k \in Allocated /\ r < Rank(score, k)
  BY RankSides
<1> HIDE DEF X, Y, r, Z
<1>4. CASE r < t
  <2>1. From(Z, t) = From(Y, t)
    <3>1. \A k \in X : ~(t <= Rank(score, k))
      BY <1>2, <1>3, <1>4
    <3>2. ~(t <= Rank(score, m))
      BY <1>2, <1>4 DEF r
    <3> QED
      BY <1>1, <3>1, <3>2 DEF From
  <2> QED
    BY <1>4, <2>1 DEF Found, Z, Y, r
<1>5. CASE ~(r < t)
  <2>1. m \in From(Z, t) /\ From(Z, t) \subseteq Allocated
    BY <1>1, <1>2, <1>5 DEF From, r
  <2>2. CASE From(X, t) = {}
    <3>1. \A j \in From(Z, t) : Rank(score, m) <= Rank(score, j)
      <4> TAKE j \in From(Z, t)
      <4>1. j = m \/ j \in Y
        BY <1>1, <2>2 DEF From
      <4>2. CASE j = m
        BY <1>2, <4>2 DEF r
      <4>3. CASE j \in Y
        BY <1>2, <1>3, <4>3 DEF r
      <4> QED
        BY <4>1, <4>2, <4>3
    <3>2. First(From(Z, t)) = m
      BY <2>1, <3>1, FirstIs
    <3> QED
      BY <1>5, <2>1, <2>2, <3>2 DEF Found, Z, X, r
  <2>3. CASE From(X, t) # {}
    <3> DEFINE k == First(From(X, t))
    <3>1. k \in From(X, t) /\ \A j \in From(X, t) : Rank(score, k) <= Rank(score, j)
      <4>1. From(X, t) \subseteq Allocated
        BY <1>3 DEF From
      <4> QED
        BY <2>3, <4>1, FirstIs
    <3> HIDE DEF k
    <3>2. k \in X /\ k \in From(Z, t) /\ Rank(score, k) < r /\ Rank(score, k) \in Nat
      BY <1>1, <1>2, <1>3, <3>1 DEF From
    <3>3. \A j \in From(Z, t) : Rank(score, k) <= Rank(score, j)
      <4> TAKE j \in From(Z, t)
      <4>1. j = m \/ j \in Y \/ j \in From(X, t)
        BY <1>1 DEF From
      <4>2. CASE j = m
        BY <1>2, <3>2, <4>2 DEF r
      <4>3. CASE j \in Y
        <5>1. Rank(score, j) \in Nat /\ r < Rank(score, j)
          BY <1>2, <1>3, <4>3
        <5> QED
          BY <1>2, <3>2, <5>1
      <4> QED
        BY <3>1, <4>1, <4>2, <4>3
    <3>4. First(From(Z, t)) = k
      BY <2>1, <3>2, <3>3, FirstIs
    <3> QED
      BY <1>5, <2>1, <2>3, <3>4 DEF Found, Z, X, r, k
  <2> QED
    BY <2>2, <2>3
<1> QED
  BY <1>4, <1>5

LEMMA SeekRight ==
    ASSUME NEW S, Settled(S), NEW s \in Int, NEW n \in Int, NEW f,
           \A m, found \in Allocated \cup {NULL} : f[m][found] = SeekOn(f, m, found, s, n)
    PROVE  \A m, found \in Allocated \cup {NULL} :
              f[m][found] = Found(S, m, found, Below(score, s, n))
<1> DEFINE t == Below(score, s, n)
           Good(m) == \A found \in Allocated \cup {NULL} : f[m][found] = Found(S, m, found, t)
           Q == {m \in Allocated : Good(m)}
<1>1. Good(NULL)
  <2>1. \A found : Found(S, NULL, found, t) = found
    BY DEF Found, From, Sub
  <2>2. \A found \in Allocated \cup {NULL} : f[NULL][found] = found
    BY DEF SeekOn
  <2> QED
    BY <2>1, <2>2
<1>2. ASSUME NEW m \in Allocated, \A side \in Sides : Kid(tree, m, side) \in Q \cup {NULL},
             NEW found \in Allocated \cup {NULL}
      PROVE  f[m][found] = Found(S, m, found, t)
  <2>1. Good(Left(m)) /\ Good(Right(m))
    <3>1. \A k \in Q \cup {NULL} : Good(k)
      BY <1>1
    <3> HIDE DEF Good, Q
    <3> QED
      BY <1>2, <3>1, TwoSides DEF Left, Right
  <2>2. m # NULL /\ t \in Nat /\ (zless(score[m], m, s, n) <=> Rank(score, m) < t)
    BY KeyRank, SettledNode
  <2>3. f[m][found] = IF Rank(score, m) < t THEN f[Right(m)][found] ELSE f[Left(m)][m]
    BY <2>2 DEF SeekOn
  <2>4. f[Right(m)][found] = Found(S, Right(m), found, t) /\ f[Left(m)][m] = Found(S, Left(m), m, t)
    BY <2>1
  <2>5. Found(S, m, found, t) = IF Rank(score, m) < t THEN Found(S, Right(m), found, t)
                                ELSE Found(S, Left(m), m, t)
    BY <2>2, FoundStep
  <2> HIDE DEF t
  <2> QED
    BY <2>3, <2>4, <2>5
<1>3. Allocated \subseteq Q
  <2>1. \A m \in Allocated : (\A side \in Sides : Kid(tree, m, side) \in Q \cup {NULL}) => m \in Q
    <3> HIDE DEF t
    <3> QED
      BY <1>2
  <2>2. IsTree(tree, Allocated, Allocated, score, root, S)
    BY DEF Settled
  <2> HIDE DEF Q
  <2> QED
    BY <2>1, <2>2, TreeInduct
<1> QED
  BY <1>1, <1>3

LEMMA SeekgeRight ==
    ASSUME NEW S, Settled(S), NEW s \in Int, NEW n \in Int
    PROVE  zset_seekge(s, n) = NodeAt(Below(score, s, n))
<1> DEFINE t == Below(score, s, n)
           Nodes == Allocated \cup {NULL}
           Is(f) == f = LET Link == DOMAIN tree \cup {NULL} IN
             [m \in Link |->
                [found \in Link |->
                    IF m = NULL THEN found
                    ELSE IF zless(score[m], m, s, n) THEN f[tree[m].right][found]
                    ELSE f[tree[m].left][m]]]
           seek == CHOOSE f : Is(f)
<1>0. NULL \in Nodes /\ root \in Nodes /\ Sub(S, root) = Allocated
  BY DEF Settled, IsTree
<1>1. zset_seekge(s, n) = seek[root][NULL]
  BY Zenon DEF zset_seekge
<1>2. \A f : Is(f) <=> f = [m \in Nodes |-> [found \in Nodes |-> SeekOn(f, m, found, s, n)]]
  BY DEF SeekOn, Left, Right, Kid, Allocated
<1> HIDE DEF Is
<1>3. \E f : Is(f)
  <2> DEFINE f == [m \in Nodes |-> [found \in Nodes |-> Found(S, m, found, t)]]
  <2>1. \A m, found \in Nodes : f[m][found] = Found(S, m, found, t)
    OBVIOUS
  <2>2. f = [m \in Nodes |-> [found \in Nodes |-> f[m][found]]]
    OBVIOUS
  <2> HIDE DEF f
  <2>3. ASSUME NEW m \in Nodes, NEW found \in Nodes PROVE f[m][found] = SeekOn(f, m, found, s, n)
    <3>1. CASE m = NULL
      <4>1. Found(S, NULL, found, t) = found
        BY DEF Found, From, Sub
      <4> QED
        BY <2>1, <3>1, <4>1 DEF SeekOn
    <3>2. CASE m # NULL
      <4>1. m \in Allocated /\ Left(m) \in Nodes /\ Right(m) \in Nodes
        BY <3>2, SettledNode
      <4>2. t \in Nat /\ (zless(score[m], m, s, n) <=> Rank(score, m) < t)
        BY <4>1, KeyRank
      <4>3. Found(S, m, found, t) = IF Rank(score, m) < t THEN Found(S, Right(m), found, t)
                                    ELSE Found(S, Left(m), m, t)
        BY <4>1, <4>2, FoundStep
      <4>4. SeekOn(f, m, found, s, n) = IF Rank(score, m) < t THEN f[Right(m)][found] ELSE f[Left(m)][m]
        BY <3>2, <4>2 DEF SeekOn
      <4>5. /\ f[m][found] = Found(S, m, found, t)
            /\ f[Right(m)][found] = Found(S, Right(m), found, t)
            /\ f[Left(m)][m] = Found(S, Left(m), m, t)
        BY <2>1, <4>1
      <4> QED
        BY <4>3, <4>4, <4>5
    <3> QED
      BY <3>1, <3>2
  <2>4. f = [m \in Nodes |-> [found \in Nodes |-> SeekOn(f, m, found, s, n)]]
    BY <2>2, <2>3
  <2> QED
    BY <1>2, <2>4
<1>4. Is(seek)
  BY <1>3
<1> HIDE DEF seek
<1>5. seek = [m \in Nodes |-> [found \in Nodes |-> SeekOn(seek, m, found, s, n)]]
  BY <1>2, <1>4
<1>6. seek[root][NULL] = Found(S, root, NULL, t)
  <2>1. \A m, found \in Allocated \cup {NULL} : seek[m][found] = SeekOn(seek, m, found, s, n)
    BY <1>5
  <2> QED
    BY <1>0, <2>1, SeekRight
<1>7. t \in 0..Cardinality(Allocated) /\ Cardinality(Allocated) \in Nat
  BY Ranked
<1>8. \A k \in Allocated : Rank(score, k) \in Nat /\ Rank(score, k) < Cardinality(Allocated)
  BY RankType
<1> HIDE DEF t
<1>9. CASE t = Cardinality(Allocated)
  <2>1. From(Allocated, t) = {}
    BY <1>7, <1>8, <1>9 DEF From
  <2>2. NodeAt(t) = NULL
    BY <1>7, <1>9, NodeAtRank
  <2> QED
    BY <1>0, <1>1, <1>6, <2>1, <2>2 DEF Found, t
<1>10. CASE t # Cardinality(Allocated)
  <2>1. t \in 0..(Cardinality(Allocated) - 1)
    BY <1>7, <1>10
  <2>2. NodeAt(t) \in Allocated /\ Rank(score, NodeAt(t)) = t
    BY <2>1, NodeAtRank
  <2>3. NodeAt(t) \in From(Allocated, t) /\ From(Allocated, t) \subseteq Allocated
    BY <1>7, <2>2 DEF From
  <2>4. \A j \in From(Allocated, t) : Rank(score, NodeAt(t)) <= Rank(score, j)
    BY <2>2 DEF From
  <2>5. First(From(Allocated, t)) = NodeAt(t)
    BY <2>3, <2>4, FirstIs
  <2> QED
    BY <1>0, <1>1, <1>6, <2>3, <2>5 DEF Found, t
<1> QED
  BY <1>9, <1>10

(* do_zquery.  The nodes of k ranks from r on, and how many it puts out from *)
(* there when it has counted n: all there are, or half of what n lacks.      *)
ListFrom(r, k) == [i \in 1..k |-> NodeAt(r + i - 1)]

Listed(r, n, limit) ==
    LET rest == Cardinality(Allocated) - r
        half == (limit - n + 1) \div 2
    IN  IF n >= limit THEN 0 ELSE IF rest <= half THEN rest ELSE half

LEMMA ListedType ==
    ASSUME NEW size \in Nat, size = Cardinality(Allocated),
           NEW r \in 0..size, NEW n \in Nat, NEW limit \in Int
    PROVE  /\ Listed(r, n, limit) \in Nat
           /\ r = size => Listed(r, n, limit) = 0
           /\ n >= limit => Listed(r, n, limit) = 0
           /\ r < size /\ n < limit => Listed(r, n, limit) = Listed(r + 1, n + 2, limit) + 1
<1>1. n < limit => (limit - n + 1) \div 2 \in Nat /\ (limit - n + 1) \div 2 >= 1
  OBVIOUS
<1>2. (limit - (n + 2) + 1) \div 2 = (limit - n + 1) \div 2 - 1
  OBVIOUS
<1>3. n + 2 >= limit /\ n < limit => (limit - n + 1) \div 2 = 1
  OBVIOUS
<1> QED
  BY <1>1, <1>2, <1>3 DEF Listed

LEMMA ListFromSeq ==
    ASSUME NEW S, Settled(S), NEW r \in Int, NEW k \in Nat
    PROVE  /\ ListFrom(r, k) \in Seq(Allocated \cup {NULL}) /\ Len(ListFrom(r, k)) = k
           /\ \A i \in 1..k : ListFrom(r, k)[i] = NodeAt(r + i - 1)
           /\ k = 0 => ListFrom(r, k) = << >>
<1>1. \A i \in Int : NodeAt(i) \in Allocated \cup {NULL}
  BY NodeAtRank
<1>2. ListFrom(r, k) \in [1..k -> Allocated \cup {NULL}]
  BY <1>1 DEF ListFrom
<1>3. \A i \in 1..k : ListFrom(r, k)[i] = NodeAt(r + i - 1)
  BY DEF ListFrom
<1> HIDE DEF ListFrom
<1>4. ListFrom(r, k) \in Seq(Allocated \cup {NULL}) /\ Len(ListFrom(r, k)) = k
  BY <1>2
<1>5. k = 0 => ListFrom(r, k) = << >>
  BY <1>4, EmptySeq
<1> QED
  BY <1>3, <1>4, <1>5

LEMMA ListFromNext ==
    ASSUME NEW S, Settled(S), NEW r \in Int, NEW k \in Nat
    PROVE  <<NodeAt(r)>> \o ListFrom(r + 1, k) = ListFrom(r, k + 1)
<1> DEFINE X == Allocated \cup {NULL}
           s == <<NodeAt(r)>>
           t == ListFrom(r + 1, k)
           u == ListFrom(r, k + 1)
<1>1. s \in Seq(X) /\ Len(s) = 1 /\ s[1] = NodeAt(r)
  <2>1. NodeAt(r) \in X
    BY NodeAtRank
  <2> QED
    BY <2>1
<1>2. r + 1 \in Int /\ k + 1 \in Nat
  OBVIOUS
<1>3. t \in Seq(X) /\ Len(t) = k /\ \A i \in 1..k : t[i] = NodeAt((r + 1) + i - 1)
  BY <1>2, ListFromSeq
<1>4. u \in Seq(X) /\ Len(u) = k + 1 /\ \A i \in 1..(k + 1) : u[i] = NodeAt(r + i - 1)
  BY <1>2, ListFromSeq
<1> HIDE DEF s, t, u, X
<1>5. /\ s \o t \in Seq(X) /\ Len(s \o t) = Len(s) + Len(t)
      /\ \A i \in 1..(Len(s) + Len(t)) : (s \o t)[i] = IF i <= Len(s) THEN s[i] ELSE t[i - Len(s)]
  BY <1>1, <1>3, ConcatProperties
<1>6. ASSUME NEW i \in 1..(k + 1) PROVE (s \o t)[i] = u[i]
  <2>1. (s \o t)[i] = IF i <= 1 THEN s[i] ELSE t[i - 1]
    BY <1>1, <1>3, <1>5
  <2>2. CASE i = 1
    <3>1. r + i - 1 = r
      BY <2>2
    <3> QED
      BY <1>1, <1>4, <2>1, <2>2, <3>1
  <2>3. CASE i # 1
    <3>1. i - 1 \in 1..k /\ (r + 1) + (i - 1) - 1 = r + i - 1 /\ ~(i <= 1)
      BY <2>3
    <3>2. t[i - 1] = NodeAt((r + 1) + (i - 1) - 1)
      BY <1>3, <3>1
    <3> QED
      BY <1>4, <2>1, <3>1, <3>2
  <2> QED
    BY <2>2, <2>3
<1>7. Len(s \o t) = k + 1
  BY <1>1, <1>3, <1>5
<1>8. s \o t = u
  BY <1>4, <1>5, <1>6, <1>7, SeqEqual
<1> QED
  BY <1>8 DEF s, t, u

(* One iteration.                                                            *)
PutOut(f, m, n, limit) ==
    IF m = NULL \/ n >= limit THEN << >> ELSE <<m>> \o f[znode_offset(m, 1)][n + 2]

LEMMA NextNode ==
    ASSUME NEW S, Settled(S), NEW size \in Nat, size = Cardinality(Allocated), NEW r \in 0..(size - 1)
    PROVE  /\ NodeAt(r) \in Allocated /\ NodeAt(r) # NULL
           /\ znode_offset(NodeAt(r), 1) = NodeAt(r + 1)
<1>1. NodeAt(r) \in Allocated /\ Rank(score, NodeAt(r)) = r
  BY NodeAtRank
<1>2. NodeAt(r) # NULL
  BY <1>1, SettledNode
<1>3. avl_offset(NodeAt(r), 1) = NodeAt(Rank(score, NodeAt(r)) + 1)
  BY <1>1, OffsetRight
<1> QED
  BY <1>1, <1>2, <1>3 DEF znode_offset

LEMMA PutOutRight ==
    ASSUME NEW S, Settled(S), NEW size \in Nat, size = Cardinality(Allocated), NEW limit \in Int, NEW f,
           \A m \in Allocated \cup {NULL}, n \in Nat : f[m][n] = PutOut(f, m, n, limit)
    PROVE  \A r \in 0..size, n \in Nat : f[NodeAt(r)][n] = ListFrom(r, Listed(r, n, limit))
<1> DEFINE Good(r) == \A n \in Nat : f[NodeAt(r)][n] = ListFrom(r, Listed(r, n, limit))
           X == {j \in 0..size : Good(size - j)}
<1>1. Good(size)
  <2> TAKE n \in Nat
  <2>1. NodeAt(size) = NULL
    BY NodeAtRank
  <2>2. f[NULL][n] = << >>
    BY DEF PutOut
  <2>3. Listed(size, n, limit) = 0
    BY ListedType
  <2>4. ListFrom(size, 0) = << >>
    BY ListFromSeq
  <2> QED
    BY <2>1, <2>2, <2>3, <2>4
<1>2. ASSUME NEW r \in 0..(size - 1), Good(r + 1), NEW n \in Nat
      PROVE  f[NodeAt(r)][n] = ListFrom(r, Listed(r, n, limit))
  <2>1. NodeAt(r) \in Allocated /\ NodeAt(r) # NULL /\ znode_offset(NodeAt(r), 1) = NodeAt(r + 1)
    BY NextNode
  <2>2. f[NodeAt(r)][n] = IF n >= limit THEN << >> ELSE <<NodeAt(r)>> \o f[NodeAt(r + 1)][n + 2]
    BY <2>1 DEF PutOut
  <2>3. CASE n >= limit
    <3>1. Listed(r, n, limit) = 0
      BY <2>3, ListedType
    <3>2. ListFrom(r, 0) = << >>
      BY ListFromSeq
    <3> QED
      BY <2>2, <2>3, <3>1, <3>2
  <2>4. CASE ~(n >= limit)
    <3> DEFINE k == Listed(r + 1, n + 2, limit)
    <3>1. r \in 0..size /\ r + 1 \in 0..size /\ n + 2 \in Nat /\ r < size /\ n < limit
      BY <2>4
    <3>2. k \in Nat /\ Listed(r, n, limit) = k + 1
      BY <3>1, ListedType
    <3>3. f[NodeAt(r + 1)][n + 2] = ListFrom(r + 1, k)
      BY <1>2, <3>1
    <3> HIDE DEF k
    <3>4. <<NodeAt(r)>> \o ListFrom(r + 1, k) = ListFrom(r, k + 1)
      <4>1. r \in Int
        OBVIOUS
      <4> QED
        BY <3>2, <4>1, ListFromNext
    <3> QED
      BY <2>2, <2>4, <3>2, <3>3, <3>4
  <2> QED
    BY <2>3, <2>4
<1>3. 0..size \subseteq X
  <2>1. 0 \in X
    <3>1. size - 0 = size
      OBVIOUS
    <3> HIDE DEF Good
    <3> QED
      BY <1>1, <3>1
  <2>2. ASSUME NEW j \in 0..(size - 1), j \in X PROVE j + 1 \in X
    <3> DEFINE r == size - (j + 1)
    <3>1. r \in 0..(size - 1) /\ r + 1 = size - j /\ j + 1 \in 0..size
      OBVIOUS
    <3> HIDE DEF r
    <3>2. Good(r + 1)
      <4> HIDE DEF Good
      <4> QED
        BY <2>2, <3>1
    <3>3. Good(r)
      BY <1>2, <3>1, <3>2
    <3> HIDE DEF Good
    <3> QED
      BY <3>1, <3>3 DEF r
  <2> HIDE DEF X
  <2> QED
    BY <2>1, <2>2, UpTo
<1>4. ASSUME NEW r \in 0..size PROVE Good(r)
  <2>1. size - r \in 0..size /\ size - (size - r) = r
    OBVIOUS
  <2> HIDE DEF Good
  <2> QED
    BY <1>3, <2>1
<1> QED
  BY <1>4

(* Such a function exists.                                                   *)
LEMMA PutOutExists ==
    ASSUME NEW S, Settled(S), NEW size \in Nat, size = Cardinality(Allocated), NEW limit \in Int
    PROVE  \E f : f = [m \in Allocated \cup {NULL} |-> [n \in Nat |-> PutOut(f, m, n, limit)]]
<1> DEFINE Nodes == Allocated \cup {NULL}
           rank(m) == IF m = NULL THEN size ELSE Rank(score, m)
           f == [m \in Nodes |-> [n \in Nat |-> ListFrom(rank(m), Listed(rank(m), n, limit))]]
<1>1. \A m \in Nodes, n \in Nat : f[m][n] = ListFrom(rank(m), Listed(rank(m), n, limit))
  OBVIOUS
<1>2. f = [m \in Nodes |-> [n \in Nat |-> f[m][n]]]
  OBVIOUS
<1> HIDE DEF f
<1>3. \A r \in 0..size : NodeAt(r) \in Nodes /\ rank(NodeAt(r)) = r
  <2> TAKE r \in 0..size
  <2>1. CASE r = size
    <3>1. NodeAt(r) = NULL
      BY <2>1, NodeAtRank
    <3> QED
      BY <2>1, <3>1
  <2>2. CASE r # size
    <3>1. r \in 0..(size - 1)
      BY <2>2
    <3>2. NodeAt(r) \in Allocated /\ Rank(score, NodeAt(r)) = r /\ NodeAt(r) # NULL
      BY <3>1, NodeAtRank, SettledNode
    <3> QED
      BY <3>2
  <2> QED
    BY <2>1, <2>2
<1>4. \A m \in Nodes : rank(m) \in 0..size /\ (m # NULL => rank(m) \in 0..(size - 1)) /\ NodeAt(rank(m)) = m
  <2> TAKE m \in Nodes
  <2>1. CASE m = NULL
    <3>1. NodeAt(size) = NULL
      BY NodeAtRank
    <3> QED
      BY <2>1, <3>1
  <2>2. CASE m # NULL
    <3>1. m \in Allocated
      BY <2>2
    <3>2. Rank(score, m) \in Nat /\ Rank(score, m) < size /\ NodeAt(Rank(score, m)) = m
      BY <3>1, NodeAtRank, RankType
    <3> QED
      BY <2>2, <3>2
  <2> QED
    BY <2>1, <2>2
<1> HIDE DEF rank
<1>5. ASSUME NEW m \in Nodes, NEW n \in Nat PROVE f[m][n] = PutOut(f, m, n, limit)
  <2> DEFINE r == rank(m)
  <2>0. r \in 0..size /\ f[m][n] = ListFrom(r, Listed(r, n, limit)) /\ (m # NULL => r \in 0..(size - 1))
        /\ NodeAt(r) = m
    BY <1>1, <1>4
  <2>00. m = NULL => r = size
    BY DEF rank
  <2> HIDE DEF r
  <2>1. CASE m = NULL \/ n >= limit
    <3>1. Listed(r, n, limit) = 0
      BY <2>0, <2>00, <2>1, ListedType
    <3>2. ListFrom(r, 0) = << >>
      <4>1. r \in Int
        BY <2>0
      <4> QED
        BY <4>1, ListFromSeq
    <3> QED
      BY <2>0, <2>1, <3>1, <3>2 DEF PutOut
  <2>2. CASE m # NULL /\ ~(n >= limit)
    <3> DEFINE k == Listed(r + 1, n + 2, limit)
    <3>1. r \in 0..(size - 1) /\ r + 1 \in 0..size /\ n + 2 \in Nat /\ r < size /\ n < limit
      BY <2>0, <2>2
    <3>2. k \in Nat /\ Listed(r, n, limit) = k + 1
      BY <2>0, <3>1, ListedType
    <3>3. znode_offset(m, 1) = NodeAt(r + 1)
      BY <2>0, <3>1, NextNode
    <3>4. f[NodeAt(r + 1)][n + 2] = ListFrom(r + 1, k)
      BY <1>1, <1>3, <3>1
    <3> HIDE DEF k
    <3>5. <<NodeAt(r)>> \o ListFrom(r + 1, k) = ListFrom(r, k + 1)
      <4>1. r \in Int
        BY <2>0
      <4> QED
        BY <3>2, <4>1, ListFromNext
    <3> QED
      BY <2>0, <2>2, <3>2, <3>3, <3>4, <3>5 DEF PutOut
  <2> QED
    BY <2>1, <2>2
<1>6. f = [m \in Nodes |-> [n \in Nat |-> PutOut(f, m, n, limit)]]
  BY <1>2, <1>5
<1> QED
  BY <1>6

(* The members of k ranks from r on.                                         *)
OfRanks(r, k) == {m \in Allocated : Rank(score, m) \in r..(r + k - 1)}

LEMMA RanksListed ==
    ASSUME NEW S, Settled(S), NEW size \in Nat, size = Cardinality(Allocated),
           NEW r \in Nat, NEW k \in Nat, r + k <= size
    PROVE  /\ Cardinality(OfRanks(r, k)) = k
           /\ \A i \in 1..k : (CHOOSE m \in OfRanks(r, k) : Rank(score, m) = r + i - 1) = NodeAt(r + i - 1)
<1> DEFINE f == [i \in 1..k |-> NodeAt(r + i - 1)]
           X == OfRanks(r, k)
<1>1. ASSUME NEW i \in 1..k
      PROVE  /\ r + i - 1 \in r..(r + k - 1)
             /\ NodeAt(r + i - 1) \in Allocated /\ Rank(score, NodeAt(r + i - 1)) = r + i - 1
  <2>1. r + i - 1 \in 0..(size - 1) /\ r + i - 1 \in r..(r + k - 1)
    OBVIOUS
  <2> QED
    BY <2>1, NodeAtRank
<1>2. \A i \in 1..k : NodeAt(r + i - 1) \in X /\ Rank(score, NodeAt(r + i - 1)) = r + i - 1
  BY <1>1 DEF OfRanks
<1>3. \A m \in X : m \in Allocated /\ Rank(score, m) \in r..(r + k - 1) /\ NodeAt(Rank(score, m)) = m
  BY NodeAtRank DEF OfRanks
<1> HIDE DEF X
<1>4. f \in [1..k -> X]
  BY <1>2
<1>5. \A i \in 1..k : f[i] = NodeAt(r + i - 1)
  OBVIOUS
<1> HIDE DEF f
<1>6. ASSUME NEW i \in 1..k, NEW j \in 1..k, f[i] = f[j] PROVE i = j
  <2>1. r + i - 1 = r + j - 1
    BY <1>2, <1>5, <1>6
  <2> QED
    BY <2>1
<1>7. ASSUME NEW m \in X PROVE \E i \in 1..k : f[i] = m
  <2>1. Rank(score, m) \in r..(r + k - 1) /\ NodeAt(Rank(score, m)) = m
    BY <1>3
  <2>2. PICK i \in 1..k : r + i - 1 = Rank(score, m)
    <3>1. Rank(score, m) - r + 1 \in 1..k /\ r + (Rank(score, m) - r + 1) - 1 = Rank(score, m)
      BY <2>1
    <3> QED
      BY <3>1
  <2> QED
    BY <1>5, <2>1, <2>2
<1>8. ExistsBijection(1..k, X)
  <2>1. f \in Bijection(1..k, X)
    BY <1>4, <1>6, <1>7 DEF Bijection, Injection, Surjection, IsInjective
  <2> QED
    BY <2>1 DEF ExistsBijection
<1>9. Cardinality(X) = k
  BY <1>8, FS_CountingElements
<1>10. ASSUME NEW i \in 1..k
       PROVE  (CHOOSE m \in X : Rank(score, m) = r + i - 1) = NodeAt(r + i - 1)
  <2>1. NodeAt(r + i - 1) \in X /\ Rank(score, NodeAt(r + i - 1)) = r + i - 1
    BY <1>2
  <2>2. \A m \in X : Rank(score, m) = r + i - 1 => m = NodeAt(r + i - 1)
    BY <1>3
  <2> DEFINE P(m) == Rank(score, m) = r + i - 1
  <2>3. (CHOOSE m \in X : P(m)) \in X /\ P(CHOOSE m \in X : P(m))
    BY <2>1
  <2> QED
    BY <2>2, <2>3
<1> QED
  BY <1>9, <1>10 DEF X

(* What is to be listed when it does not start at a member, and when it does. *)
LEMMA PageIs ==
    ASSUME NEW S, Settled(S), NEW size \in Nat, size = Cardinality(Allocated),
           NEW s \in Int, NEW n \in Int, NEW offset \in Int, NEW limit \in Int
    PROVE  LET first == Below(score, s, n)
               r == first + offset
           IN  /\ limit <= 0 \/ first = size \/ r \notin 0..(size - 1)
                     => Page(score, s, n, offset, limit) = << >>
               /\ limit > 0 /\ first < size /\ r \in 0..(size - 1)
                     => Page(score, s, n, offset, limit) = ListFrom(r, Listed(r, 0, limit))
<1> DEFINE first == Below(score, s, n)
           r == first + offset
           last == r + (limit + 1) \div 2 - 1
           listed == {m \in Allocated : first < size /\ r >= 0 /\ Rank(score, m) \in r..last}
           Numbered(X) == [i \in 1..Cardinality(X) |-> CHOOSE m \in X : Rank(score, m) = r + i - 1]
<1>1. first \in 0..size /\ r \in Int /\ last \in Int
  <2>1. first \in 0..size
    BY Ranked
  <2> HIDE DEF first
  <2>2. r \in Int /\ (limit + 1) \div 2 \in Int
    BY <2>1
  <2> HIDE DEF r
  <2> QED
    BY <2>1, <2>2
<1>2. DOMAIN score = Allocated
  BY SettledKeys
<1>3. \A m \in Allocated : Rank(score, m) \in Nat /\ Rank(score, m) < size
  BY RankType
<1>4. Page(score, s, n, offset, limit) = Numbered(listed)
  BY <1>2 DEF Page
<1>5. ASSUME limit <= 0 \/ first = size \/ r \notin 0..(size - 1)
      PROVE  Page(score, s, n, offset, limit) = << >>
  <2>1. limit <= 0 => last < r
    BY <1>1
  <2>2. listed = {}
    <3> HIDE DEF first, r, last
    <3> QED
      BY <1>1, <1>3, <1>5, <2>1
  <2>3. Cardinality(listed) = 0
    <3> HIDE DEF listed
    <3> QED
      BY <2>2, FS_EmptySet
  <2> HIDE DEF listed
  <2>4. 1..0 = {}
    OBVIOUS
  <2>5. Page(score, s, n, offset, limit) = [i \in {} |-> CHOOSE m \in listed : Rank(score, m) = r + i - 1]
    BY <1>4, <2>3, <2>4
  <2>6. << >> = [i \in {} |-> CHOOSE m \in listed : Rank(score, m) = r + i - 1]
    OBVIOUS
  <2> QED
    BY <2>5, <2>6
<1>6. ASSUME limit > 0, first < size, r \in 0..(size - 1)
      PROVE  Page(score, s, n, offset, limit) = ListFrom(r, Listed(r, 0, limit))
  <2> DEFINE k == Listed(r, 0, limit)
             half == (limit + 1) \div 2
  <2>1. half \in Nat /\ limit - 0 + 1 = limit + 1
    BY <1>6
  <2>2. k = IF size - r <= half THEN size - r ELSE half
    BY <1>6, <2>1 DEF Listed
  <2>3. k \in Nat /\ r \in Nat /\ r + k <= size
    <3> HIDE DEF k, half, r, first
    <3> QED
      BY <1>6, <2>1, <2>2
  <2>4. last = r + half - 1
    OBVIOUS
  <2>5. listed = OfRanks(r, k)
    <3> HIDE DEF k, half, r, first, last
    <3>1. \A m \in Allocated : Rank(score, m) \in r..last <=> Rank(score, m) \in r..(r + k - 1)
      BY <1>3, <2>1, <2>2, <2>3, <2>4
    <3> QED
      BY <1>6, <2>3, <3>1 DEF OfRanks
  <2>6. Page(score, s, n, offset, limit) = Numbered(OfRanks(r, k))
    <3> HIDE DEF k, r, first, last, listed, Numbered
    <3> QED
      BY <1>4, <2>5
  <2> HIDE DEF k, half, r, first, last, listed
  <2>7. Page(score, s, n, offset, limit) = [i \in 1..k |-> NodeAt(r + i - 1)]
    <3>1. /\ Cardinality(OfRanks(r, k)) = k
          /\ \A i \in 1..k : (CHOOSE m \in OfRanks(r, k) : Rank(score, m) = r + i - 1) = NodeAt(r + i - 1)
      BY <2>3, RanksListed
    <3> QED
      BY <2>6, <3>1
  <2> QED
    BY <2>7 DEF ListFrom, k
<1> HIDE DEF listed, last
<1> QED
  BY <1>5, <1>6 DEF first, r

LEMMA ZqueryRight ==
    ASSUME NEW S, Settled(S), NEW s \in Int, NEW n \in Int, NEW offset \in Int, NEW limit \in Int
    PROVE  do_zquery(s, n, offset, limit) = Page(score, s, n, offset, limit)
<1> DEFINE size == Cardinality(Allocated)
           first == Below(score, s, n)
           r == first + offset
           Is(f) == f = [m \in DOMAIN tree \cup {NULL} |->
                           [k \in Nat |-> IF m = NULL \/ k >= limit THEN << >>
                                          ELSE <<m>> \o f[znode_offset(m, 1)][k + 2]]]
           out == CHOOSE f : Is(f)
<1>0. first \in 0..size /\ size \in Nat /\ r \in Int
  BY Ranked
<1>1. do_zquery(s, n, offset, limit) =
        IF limit <= 0 THEN << >> ELSE out[znode_offset(zset_seekge(s, n), offset)][0]
  BY Zenon DEF do_zquery
<1>2. \A f : Is(f) <=> f = [m \in Allocated \cup {NULL} |-> [k \in Nat |-> PutOut(f, m, k, limit)]]
  BY DEF PutOut, Allocated
<1> HIDE DEF Is, size
<1>3. \E f : Is(f)
  BY <1>0, <1>2, PutOutExists DEF size
<1>4. Is(out)
  BY <1>3
<1> HIDE DEF out
<1>5. \A m \in Allocated \cup {NULL}, k \in Nat : out[m][k] = PutOut(out, m, k, limit)
  <2>1. out = [m \in Allocated \cup {NULL} |-> [k \in Nat |-> PutOut(out, m, k, limit)]]
    BY <1>2, <1>4
  <2> QED
    BY <2>1
<1>6. out[NULL][0] = << >>
  BY <1>5 DEF PutOut
<1>7. /\ zset_seekge(s, n) = NodeAt(first) /\ NodeAt(size) = NULL
      /\ \A k \in Int \ 0..(size - 1) : NodeAt(k) = NULL
      /\ \A k \in 0..(size - 1) : NodeAt(k) \in Allocated /\ Rank(score, NodeAt(k)) = k /\ NodeAt(k) # NULL
  <2>1. zset_seekge(s, n) = NodeAt(first)
    BY SeekgeRight
  <2>2. \A k : k \notin 0..(size - 1) => NodeAt(k) = NULL
    BY NodeAtRank DEF size
  <2>3. \A k \in 0..(size - 1) : NodeAt(k) \in Allocated /\ Rank(score, NodeAt(k)) = k
    BY NodeAtRank DEF size
  <2>4. \A k \in 0..(size - 1) : NodeAt(k) # NULL
    BY <2>3, SettledNode
  <2>5. size \notin 0..(size - 1)
    BY <1>0
  <2> QED
    BY <2>1, <2>2, <2>3, <2>4, <2>5
<1>8. /\ limit <= 0 \/ first = size \/ r \notin 0..(size - 1) => Page(score, s, n, offset, limit) = << >>
      /\ limit > 0 /\ first < size /\ r \in 0..(size - 1)
            => Page(score, s, n, offset, limit) = ListFrom(r, Listed(r, 0, limit))
  BY <1>0, PageIs DEF size
<1>9. first < size => znode_offset(NodeAt(first), offset) = NodeAt(r)
  <2> SUFFICES ASSUME first < size PROVE znode_offset(NodeAt(first), offset) = NodeAt(r)
    OBVIOUS
  <2>1. first \in 0..(size - 1)
    BY <1>0
  <2> HIDE DEF first
  <2>2. NodeAt(first) \in Allocated /\ Rank(score, NodeAt(first)) = first /\ NodeAt(first) # NULL
    BY <1>7, <2>1
  <2>3. avl_offset(NodeAt(first), offset) = NodeAt(Rank(score, NodeAt(first)) + offset)
    BY <2>2, OffsetRight
  <2> QED
    BY <2>2, <2>3 DEF znode_offset
<1>10. CASE limit <= 0
  BY <1>1, <1>8, <1>10
<1>11. CASE limit > 0 /\ first = size
  <2>1. znode_offset(zset_seekge(s, n), offset) = NULL
    BY <1>7, <1>11 DEF znode_offset
  <2> QED
    BY <1>1, <1>6, <1>8, <1>11, <2>1
<1>12. CASE limit > 0 /\ first < size /\ r \notin 0..(size - 1)
  <2>1. znode_offset(zset_seekge(s, n), offset) = NULL
    <3> HIDE DEF first, r
    <3> QED
      BY <1>0, <1>7, <1>9, <1>12
  <2> HIDE DEF first, r
  <2> QED
    BY <1>1, <1>6, <1>8, <1>12, <2>1
<1>13. CASE limit > 0 /\ first < size /\ r \in 0..(size - 1)
  <2> HIDE DEF first, r
  <2>1. znode_offset(zset_seekge(s, n), offset) = NodeAt(r)
    BY <1>7, <1>9, <1>13
  <2>2. out[NodeAt(r)][0] = ListFrom(r, Listed(r, 0, limit))
    <3>1. r \in 0..size
      BY <1>0, <1>13
    <3> QED
      BY <1>0, <1>5, <3>1, PutOutRight DEF size
  <2> QED
    BY <1>1, <1>8, <1>13, <2>1, <2>2
<1> HIDE DEF first, r
<1> QED
  BY <1>0, <1>10, <1>11, <1>12, <1>13

(* Walking from any member by any offset, seeking any pair, a member or not, *)
(* and paging with any offset and limit, all without bounds.                 *)
QueriesExact ==
    pc = "idle" =>
        /\ \A n \in Allocated, d \in Int : avl_offset(n, d) = NodeAt(Rank(score, n) + d)
        /\ \A s \in Int, n \in Int :
              /\ zset_seekge(s, n) = NodeAt(Below(score, s, n))
              /\ \A offset \in Int, limit \in Int :
                    do_zquery(s, n, offset, limit) = Page(score, s, n, offset, limit)

(* Between two calls avl_offset, zset_seekge and do_zquery answer from the   *)
(* tree's links and counts what the ranks of the members say, for every      *)
(* member, key, offset and limit.                                            *)
THEOREM QueriesExactCorrect == Spec => []QueriesExact
<1>1. ASSUME IInv PROVE QueriesExact
  <2> SUFFICES ASSUME pc = "idle"
               PROVE  /\ \A n \in Allocated, d \in Int : avl_offset(n, d) = NodeAt(Rank(score, n) + d)
                      /\ \A s \in Int, n \in Int :
                            /\ zset_seekge(s, n) = NodeAt(Below(score, s, n))
                            /\ \A offset \in Int, limit \in Int :
                                  do_zquery(s, n, offset, limit) = Page(score, s, n, offset, limit)
    BY DEF QueriesExact
  <2>1. PICK S : Settled(S)
    BY <1>1, AtRest DEF Settled
  <2> QED
    BY <2>1, OffsetRight, SeekgeRight, ZqueryRight
<1> QED
  BY <1>1, Invariance, PTL

(* Between two calls, the answers of avl_offset, zset_seekge and do_zquery   *)
(* are those of the ranks, at the bounds that the run checks.                *)
THEOREM QueriesCorrect == Spec => []QueriesRight
<1>1. QueriesExact => QueriesRight
  <2>1. /\ \A d \in -(Cardinality(Allocated) + 1)..(Cardinality(Allocated) + 1) : d \in Int
        /\ \A d \in -1..1 : d \in Int
        /\ \A d \in -2..4 : d \in Int
    OBVIOUS
  <2> QED
    BY <2>1, Ordinals DEF QueriesExact, QueriesRight
<1> QED
  BY <1>1, QueriesExactCorrect, PTL

(* The cost.                                                                 *)
TwoTo[k \in Nat] == IF k = 0 THEN 1 ELSE 2 * TwoTo[k - 1]

LEMMA TwoToLaw ==
    /\ TwoTo \in [Nat -> Nat] /\ TwoTo[0] = 1
    /\ \A k \in Nat : TwoTo[k + 1] = 2 * TwoTo[k]
<1> DEFINE Is(f) == f = [k \in Nat |-> IF k = 0 THEN 1 ELSE 2 * f[k - 1]]
           step == [p \in Nat \X Nat |-> 2 * p[2]]
<1>1. \E f : Is(f)
  <2>1. step \in [Nat \X Nat -> Nat] /\ \A k, j \in Nat : step[<<k, j>>] = 2 * j
    OBVIOUS
  <2> HIDE DEF step
  <2>2. PICK f \in [Nat -> Nat] : f[0] = 1 /\ \A k \in Nat : f[k + 1] = step[<<k, f[k]>>]
    <3>1. Runs(Nat, 1, step)
      BY <2>1, Recursion
    <3> QED
      BY <3>1 DEF Runs
  <2>3. ASSUME NEW k \in Nat PROVE f[k] = IF k = 0 THEN 1 ELSE 2 * f[k - 1]
    <3>1. CASE k = 0
      BY <2>2, <3>1
    <3>2. CASE k # 0
      <4>1. k - 1 \in Nat /\ (k - 1) + 1 = k
        BY <3>2
      <4>2. f[(k - 1) + 1] = step[<<k - 1, f[k - 1]>>] /\ f[k - 1] \in Nat
        BY <2>2, <4>1
      <4> QED
        BY <2>1, <3>2, <4>1, <4>2
    <3> QED
      BY <3>1, <3>2
  <2>4. f = [k \in Nat |-> f[k]]
    BY <2>2
  <2> QED
    BY <2>3, <2>4
<1>2. Is(TwoTo)
  <2>1. TwoTo = CHOOSE f : Is(f)
    BY Zenon DEF TwoTo
  <2> HIDE DEF Is
  <2> QED
    BY <1>1, <2>1
<1> HIDE DEF TwoTo
<1>3. \A k \in Nat : TwoTo[k] = IF k = 0 THEN 1 ELSE 2 * TwoTo[k - 1]
  BY <1>2
<1>4. TwoTo[0] = 1
  BY <1>3
<1>5. \A k \in Nat : TwoTo[k + 1] = 2 * TwoTo[k]
  <2> TAKE k \in Nat
  <2>1. k + 1 \in Nat /\ k + 1 # 0 /\ (k + 1) - 1 = k
    OBVIOUS
  <2> QED
    BY <1>3, <2>1
<1>6. Nat \subseteq {k \in Nat : TwoTo[k] \in Nat}
  <2> DEFINE X == {k \in Nat : TwoTo[k] \in Nat}
  <2>1. 0 \in X
    BY <1>4
  <2>2. ASSUME NEW k \in Nat, k \in X PROVE k + 1 \in X
    BY <1>5, <2>2
  <2> HIDE DEF X
  <2>3. Nat \subseteq X
    BY <2>1, <2>2, NatInd
  <2> QED
    BY <2>3 DEF X
<1>7. TwoTo \in [Nat -> Nat]
  <2>1. DOMAIN TwoTo = Nat /\ TwoTo = [k \in Nat |-> TwoTo[k]]
    BY <1>2
  <2> QED
    BY <1>6, <2>1
<1> QED
  BY <1>4, <1>5, <1>7

(* A subtree has as many nodes as its height asks for.                       *)
LEMMA Filled ==
    ASSUME NEW S, Settled(S)
    PROVE  \A n \in Allocated \cup {NULL} :
              /\ avl_height(tree, n) \in Nat /\ Cnt(n) \in Nat
              /\ TwoTo[avl_height(tree, n) \div 2] <= Cnt(n) + 1
<1> DEFINE h(n) == avl_height(tree, n)
           Good(n) == h(n) \in Nat /\ Cnt(n) \in Nat /\ TwoTo[h(n) \div 2] <= Cnt(n) + 1
           Q == {n \in Allocated : Good(n)}
<1>1. Good(NULL)
  <2>1. 0 \div 2 = 0
    OBVIOUS
  <2> QED
    BY <2>1, TwoToLaw DEF Cnt, avl_cnt, avl_height
<1>2. ASSUME NEW n \in Allocated, \A side \in Sides : Kid(tree, n, side) \in Q \cup {NULL}
      PROVE  Good(n)
  <2> DEFINE l == h(Left(n))
             r == h(Right(n))
             k == h(n) \div 2
  <2>1. Good(Left(n)) /\ Good(Right(n))
    <3>1. \A m \in Q \cup {NULL} : Good(m)
      BY <1>1
    <3> HIDE DEF Good, Q
    <3> QED
      BY <1>2, <3>1, TwoSides DEF Left, Right
  <2>2. /\ h(n) = 1 + Larger(l, r) /\ Close(l, r)
        /\ Cnt(n) = 1 + Cnt(Left(n)) + Cnt(Right(n))
    <3>1. Even(tree, n)
      BY DEF Settled
    <3> QED
      BY <3>1, TwoSides DEF Even, HeightOf, CntOf, Cnt, Left, Right
  <2> HIDE DEF h, Q, l, r, k
  <2>3. l \in Nat /\ r \in Nat /\ TwoTo[l \div 2] <= Cnt(Left(n)) + 1 /\ TwoTo[r \div 2] <= Cnt(Right(n)) + 1
        /\ Cnt(Left(n)) \in Nat /\ Cnt(Right(n)) \in Nat
    BY <2>1 DEF l, r
  <2>4. /\ h(n) \in Nat /\ h(n) >= 1
        /\ l \in {h(n) - 1, h(n) - 2} /\ r \in {h(n) - 1, h(n) - 2}
    BY <2>2, <2>3 DEF Larger, Close
  <2>5. Cnt(n) \in Nat /\ Cnt(n) + 1 = (Cnt(Left(n)) + 1) + (Cnt(Right(n)) + 1)
    BY <2>2, <2>3
  <2>6. CASE k = 0
    BY <2>4, <2>5, <2>6, TwoToLaw DEF k
  <2>7. CASE k # 0
    <3>1. k \in Nat /\ k - 1 \in Nat /\ (k - 1) + 1 = k
      BY <2>4, <2>7 DEF k
    <3>2. l \div 2 \in {k - 1, k} /\ r \div 2 \in {k - 1, k}
      <4>1. \A i \in Nat : i >= 1 => (i - 1) \div 2 \in {i \div 2 - 1, i \div 2} /\ (i - 2) \div 2 = i \div 2 - 1
        OBVIOUS
      <4>2. /\ (h(n) - 1) \div 2 \in {h(n) \div 2 - 1, h(n) \div 2}
            /\ (h(n) - 2) \div 2 = h(n) \div 2 - 1
        BY <2>4, <4>1
      <4>3. CASE l = h(n) - 1
        <5>1. l \div 2 \in {k - 1, k}
          BY <4>2, <4>3 DEF k
        <5> QED
          BY <2>4, <4>2, <5>1 DEF k
      <4>4. CASE l = h(n) - 2
        <5>1. l \div 2 \in {k - 1, k}
          BY <4>2, <4>4 DEF k
        <5> QED
          BY <2>4, <4>2, <5>1 DEF k
      <4> QED
        BY <2>4, <4>3, <4>4
    <3>3. TwoTo[k] = 2 * TwoTo[k - 1] /\ TwoTo[k - 1] \in Nat
      BY <3>1, TwoToLaw
    <3>4. TwoTo[l \div 2] >= TwoTo[k - 1] /\ TwoTo[r \div 2] >= TwoTo[k - 1]
      BY <3>2, <3>3
    <3>5. TwoTo[l \div 2] \in Nat /\ TwoTo[r \div 2] \in Nat
      <4>1. l \div 2 \in Nat /\ r \div 2 \in Nat
        BY <2>3
      <4> QED
        BY <4>1, TwoToLaw
    <3>6. TwoTo[k] <= Cnt(n) + 1
      BY <2>3, <2>5, <3>3, <3>4, <3>5
    <3> QED
      BY <2>4, <2>5, <3>6 DEF k
  <2> QED
    BY <2>6, <2>7
<1>3. Allocated \subseteq Q
  <2>1. IsTree(tree, Allocated, Allocated, score, root, S)
    BY DEF Settled
  <2>2. ASSUME NEW n \in Allocated, \A side \in Sides : Kid(tree, n, side) \in Q \cup {NULL} PROVE n \in Q
    BY <1>2, <2>2
  <2> HIDE DEF Q
  <2> QED
    BY <2>1, <2>2, TreeInduct
<1> QED
  BY <1>1, <1>3

(* A way down the tree is no longer than the height of the node it starts    *)
(* at; the height of the root is at most twice the binary logarithm of the   *)
(* size, plus 1.                                                             *)
Shallow ==
    pc = "idle" =>
        /\ TwoTo[avl_height(tree, root) \div 2] <= Cardinality(Allocated) + 1
        /\ \A n \in Allocated, side \in Sides :
              avl_height(tree, Kid(tree, n, side)) < avl_height(tree, n)

(* The comment on avl_offset: "the worst-case is O(log N)".  Between two     *)
(* calls the tree is as shallow as that asks for: what insertions and        *)
(* deletions leave of the balance bounds every descent by the size.          *)
THEOREM ShallowCorrect == Spec => []Shallow
<1>1. ASSUME IInv PROVE Shallow
  <2> SUFFICES ASSUME pc = "idle"
               PROVE  /\ TwoTo[avl_height(tree, root) \div 2] <= Cardinality(Allocated) + 1
                      /\ \A n \in Allocated, side \in Sides :
                            avl_height(tree, Kid(tree, n, side)) < avl_height(tree, n)
    BY DEF Shallow
  <2>1. PICK S : Settled(S)
    BY <1>1, AtRest DEF Settled
  <2>2. root \in Allocated \cup {NULL} /\ Sub(S, root) = Allocated
    BY <2>1 DEF Settled, IsTree
  <2>3. Cnt(root) = Cardinality(Allocated)
    BY <2>1, <2>2, Counted
  <2>4. TwoTo[avl_height(tree, root) \div 2] <= Cardinality(Allocated) + 1
    BY <2>1, <2>2, <2>3, Filled
  <2>5. ASSUME NEW n \in Allocated, NEW side \in Sides
        PROVE  avl_height(tree, Kid(tree, n, side)) < avl_height(tree, n)
    <3>1. Left(n) \in Allocated \cup {NULL} /\ Right(n) \in Allocated \cup {NULL}
      BY <2>1, SettledNode
    <3>2. avl_height(tree, Left(n)) \in Nat /\ avl_height(tree, Right(n)) \in Nat
      BY <2>1, <3>1, Filled
    <3>3. avl_height(tree, n) = 1 + Larger(avl_height(tree, Left(n)), avl_height(tree, Right(n)))
      <4>1. Even(tree, n)
        BY <2>1 DEF Settled
      <4> QED
        BY <4>1, TwoSides DEF Even, HeightOf, Left, Right
    <3>4. Kid(tree, n, side) \in {Left(n), Right(n)}
      BY TwoSides DEF Left, Right, Sides
    <3> QED
      BY <3>2, <3>3, <3>4 DEF Larger
  <2> QED
    BY <2>4, <2>5
<1> QED
  BY <1>1, Invariance, PTL
=============================================================================
