------------------------------ MODULE KVStore ------------------------------
(***************************************************************************)
(* What a client of the server may count on: a dictionary from keys to     *)
(* strings and sorted sets, each key with at most one expiry instant, and  *)
(* commands that take effect at once.  No entries, no memory, no heap, no  *)
(* thread pool: a key whose instant has passed simply goes away some time  *)
(* later.                                                                  *)
(***************************************************************************)
EXTENDS Replies, Ranks

CONSTANTS Keys, Strings, Names, Scores,
          TTLs,     (* the ttl_ms argument of PEXPIRE *)
          Offsets, Limits,  (* those of ZQUERY *)
          NULL      (* no value; an argument that does not parse *)

NoTTL == -1

VARIABLES store,    (* key -> Str(s), ZSet(members) or NULL         *)
          expires,  (* key -> instant or NoTTL                      *)
          now,      (* the monotonic clock                          *)
          request,  (* the last command, with its arguments         *)
          reply     (* and its response                             *)

kvVars == <<store, expires, now, request, reply>>

Str(s)  == [type |-> "T_STR", val |-> s]
ZSet(z) == [type |-> "T_ZSET", val |-> z]
NoNames == [n \in Names |-> NULL]

IsStr(k)  == store[k] # NULL /\ store[k].type = "T_STR"
IsZSet(k) == store[k] # NULL /\ store[k].type = "T_ZSET"
(* A missing key reads as an empty sorted set.                              *)
ZSetOf(k) == IF store[k] = NULL THEN NoNames ELSE store[k].val

Answer(r) ==
    /\ reply' = r
    /\ UNCHANGED <<store, expires, now>>

(* The key's value changes, its expiry instant does not.                    *)
Put(k, x, r) ==
    /\ store' = [store EXCEPT ![k] = x]
    /\ reply' = r
    /\ UNCHANGED <<expires, now>>

Get(k) ==
    \/ store[k] = NULL /\ Answer(out_nil)
    \/ IsZSet(k) /\ Answer(out_err("ERR_BAD_TYP"))
    \/ IsStr(k) /\ Answer(out_str(store[k].val))

Set(k, s) ==
    \/ IsZSet(k) /\ Answer(out_err("ERR_BAD_TYP"))
    \/ ~IsZSet(k) /\ Put(k, Str(s), out_nil)

Del(k) ==
    \/ store[k] = NULL /\ Answer(out_int(0))
    \/ /\ store[k] # NULL
       /\ store' = [store EXCEPT ![k] = NULL]
       /\ expires' = [expires EXCEPT ![k] = NoTTL]
       /\ reply' = out_int(1)
       /\ UNCHANGED now

ListKeys == \E r \in Listings({k \in Keys : store[k] # NULL}) : Answer(r)

ZAdd(k, x, n) ==
    \/ x = NULL /\ Answer(out_err("ERR_BAD_ARG"))
    \/ x # NULL /\ IsStr(k) /\ Answer(out_err("ERR_BAD_TYP"))
    \/ /\ x # NULL /\ ~IsStr(k)
       /\ Put(k, ZSet([ZSetOf(k) EXCEPT ![n] = x]),
              out_int(IF ZSetOf(k)[n] = NULL THEN 1 ELSE 0))

ZRem(k, n) ==
    \/ IsStr(k) /\ Answer(out_err("ERR_BAD_TYP"))
    \/ ~IsStr(k) /\ ZSetOf(k)[n] = NULL /\ Answer(out_int(0))
    \/ /\ ~IsStr(k) /\ ZSetOf(k)[n] # NULL
       /\ Put(k, ZSet([ZSetOf(k) EXCEPT ![n] = NULL]), out_int(1))

ZScore(k, n) ==
    \/ IsStr(k) /\ Answer(out_err("ERR_BAD_TYP"))
    \/ ~IsStr(k) /\ Answer(IF ZSetOf(k)[n] = NULL THEN out_nil ELSE out_dbl(ZSetOf(k)[n]))

ZQuery(k, x, n, offset, limit) ==
    \/ NULL \in {x, offset, limit} /\ Answer(out_err("ERR_BAD_ARG"))
    \/ NULL \notin {x, offset, limit} /\ IsStr(k) /\ Answer(out_err("ERR_BAD_TYP"))
    \/ /\ NULL \notin {x, offset, limit} /\ ~IsStr(k)
       /\ LET z == Members(ZSetOf(k), NULL)
          IN  Answer(out_tuples(z, Page(z, x, n, offset, limit)))

PExpire(k, ttl) ==
    \/ ttl = NULL /\ Answer(out_err("ERR_BAD_ARG"))
    \/ ttl # NULL /\ store[k] = NULL /\ Answer(out_int(0))
    \/ /\ ttl # NULL /\ store[k] # NULL
       /\ expires' = [expires EXCEPT ![k] = IF ttl < 0 THEN NoTTL ELSE now + ttl]
       /\ reply' = out_int(1)
       /\ UNCHANGED <<store, now>>

PTTL(k) ==
    \/ store[k] = NULL /\ Answer(out_int(-2))
    \/ store[k] # NULL /\ expires[k] = NoTTL /\ Answer(out_int(-1))
    \/ /\ store[k] # NULL /\ expires[k] # NoTTL
       /\ Answer(out_int(IF expires[k] > now THEN expires[k] - now ELSE 0))

(* Only a key whose instant has passed goes away by itself, and everything  *)
(* about it at once.                                                        *)
Evict(k) ==
    /\ expires[k] # NoTTL
    /\ expires[k] < now
    /\ store' = [store EXCEPT ![k] = NULL]
    /\ expires' = [expires EXCEPT ![k] = NoTTL]
    /\ UNCHANGED <<now, request, reply>>

Tick ==
    /\ now' = now + 1
    /\ UNCHANGED <<store, expires, request, reply>>

KVInit ==
    /\ store = [k \in Keys |-> NULL]
    /\ expires = [k \in Keys |-> NoTTL]
    /\ now = 0
    /\ request = << >>
    /\ reply = out_nil

(* A command answers the request it was given.                              *)
KVCommand ==
    \/ request' = <<"keys">> /\ ListKeys
    \/ \E k \in Keys :
          \/ request' = <<"get", k>> /\ Get(k)
          \/ request' = <<"del", k>> /\ Del(k)
          \/ request' = <<"pttl", k>> /\ PTTL(k)
          \/ \E s \in Strings : request' = <<"set", k, s>> /\ Set(k, s)
          \/ \E ttl \in TTLs \cup {NULL} :
                request' = <<"pexpire", k, ttl>> /\ PExpire(k, ttl)
    \/ \E k \in Keys, n \in Names :
          \/ request' = <<"zrem", k, n>> /\ ZRem(k, n)
          \/ request' = <<"zscore", k, n>> /\ ZScore(k, n)
          \/ \E x \in Scores \cup {NULL} :
                request' = <<"zadd", k, x, n>> /\ ZAdd(k, x, n)
          \/ \E x \in Scores \cup {NULL}, offset \in Offsets \cup {NULL}, limit \in Limits \cup {NULL} :
                request' = <<"zquery", k, x, n, offset, limit>> /\ ZQuery(k, x, n, offset, limit)

KVNext == KVCommand \/ Tick \/ \E k \in Keys : Evict(k)

KVSpec == KVInit /\ [][KVNext]_kvVars
=============================================================================
