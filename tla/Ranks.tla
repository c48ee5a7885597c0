------------------------------- MODULE Ranks -------------------------------
(***************************************************************************)
(* A sorted set as what it is to a client: a function z from its members   *)
(* to their scores, ranked by score and, among equals, by name.  Names are *)
(* numbers in the order of memcmp and length.                              *)
(***************************************************************************)
EXTENDS Integers, FiniteSets

(* The members of a set that is given with none for everything else.         *)
Members(z, none) == [m \in {m \in DOMAIN z : z[m] # none} |-> z[m]]

Before(x, m, y, n) == x < y \/ (x = y /\ m < n)

(* How many members are before (x, n), which need not be a member.          *)
Below(z, x, n) == Cardinality({m \in DOMAIN z : Before(z[m], m, x, n)})
Rank(z, n)     == Below(z, z[n], n)

(* The members that ZQUERY lists, in order: from the one offset places after *)
(* the first that is not before (x, n), if there are such, half of limit,    *)
(* rounded up.                                                               *)
Page(z, x, n, offset, limit) ==
    LET size == Cardinality(DOMAIN z)
        first == Below(z, x, n)
        from == first + offset
        last == from + (limit + 1) \div 2 - 1
        listed == {m \in DOMAIN z : first < size /\ from >= 0 /\ Rank(z, m) \in from..last}
    IN  [i \in 1..Cardinality(listed) |-> CHOOSE m \in listed : Rank(z, m) = from + i - 1]
=============================================================================
