------------------------------ MODULE Replies ------------------------------
(* The values a command answers with: the tagged data that the out_*         *)
(* functions of lib/server/buffer.cpp append to a response.                  *)

EXTENDS Integers, SequencesExt

out_nil    == <<"TAG_NIL">>
out_err(c) == <<"TAG_ERR", c>>
out_str(s) == <<"TAG_STR", s>>
out_int(n) == <<"TAG_INT", n>>
out_dbl(x) == <<"TAG_DBL", x>>
out_arr(S) == <<"TAG_ARR", S>>

(* What do_keys may answer for a set of keys: the table has its own order.    *)
Listings(keys) == {out_arr([i \in DOMAIN s |-> out_str(s[i])]) : s \in SetToSeqs(keys)}

(* The array that do_zquery begins and ends: names, each with its score in z. *)
out_tuples(z, names) ==
    out_arr([i \in 1..(2 * Len(names)) |->
                IF i % 2 = 1 THEN out_str(names[(i + 1) \div 2]) ELSE out_dbl(z[names[i \div 2]])])
=============================================================================
