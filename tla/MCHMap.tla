------------------------------- MODULE MCHMap -------------------------------
(* A small instance of HMap for TLC: five keys, one of them with two nodes   *)
(* (allocated one after the other), and hash codes that collide in the small *)
(* tables, in all tables, or altogether.                                     *)
EXTENDS HMap

CONSTANTS a, a2, b, c, d, e

MCNodes == {a, a2, b, c, d, e}
MCKeyOf == [n \in MCNodes |-> IF n = a2 THEN a ELSE n]
MCHashOf == [n \in MCNodes |->
    CASE n \in {a, a2} -> 0
      [] n = b -> 4
      [] n = c -> 8
      [] n = d -> 8
      [] n = e -> 1]
=============================================================================
