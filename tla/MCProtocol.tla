----------------------------- MODULE MCProtocol -----------------------------
(* Requests, responses and byte streams for TLC.                             *)
EXTENDS Protocol

(* Responses of every kind; arrays below the limit, at it, and above it.     *)
MCResponses ==
    {out_nil, out_err(<<4, <<3>>>>), out_str(<<1>>), out_int(<<1, 0, 0, 2>>),
     out_arr(<< >>), out_arr(<<out_str(<<1, 2>>)>>), out_arr(<<out_str(<<1, 2, 3>>)>>),
     out_arr(<<out_str(<<1>>), out_dbl(<<0, 5, 0, 1>>)>>)}

(* Enough to tell responses apart, and one that is cut.                      *)
MCTwoResponses == {out_nil, out_arr(<<out_str(<<1, 2, 3>>)>>)}

MCTooBigText == <<2>>

(* One request of every shape, at the limit and above; two in a row.         *)
None  == << >>
One   == <<<<1>>>>
Two   == <<<<1>>, <<0>>>>
AtLimit == <<<<1, 2, 0, 3>>>>
Over  == <<<<1>>, <<0, 2>>>>
MCScripts == {<<c>> : c \in {None, One, Two, AtLimit, Over}} \cup {<<One, None>>, <<None, Over>>}

(* All requests over a few bytes that are short enough.                      *)
Bytes == 0..2
Strings(max) == UNION {[1..n -> Bytes] : n \in 0..max}
MCRequests == {cmd \in UNION {[1..n -> Strings(4)] : n \in 0..1} \cup [1..2 -> Strings(2)]
                        \cup [1..3 -> Strings(0)] : Fits(cmd)}

(* Anything short; and two requests with one byte changed.                   *)
Changed(s) == {[s EXCEPT ![i] = b] : i \in DOMAIN s, b \in Bytes}
MCStreams == UNION {[1..n -> Bytes] : n \in 0..5}
               \cup UNION {Changed(Frame(c) \o Frame(d)) : c, d \in {None, One, << << >> >>}}
=============================================================================
