------------------------------ MODULE Keyspace ------------------------------
(***************************************************************************)
(* The key-value layer: lib/server/key_value.cpp and the TTL half of       *)
(* process_timers in lib/server/timer.cpp.                                 *)
(*                                                                         *)
(* An Entry is a piece of memory that is reachable from up to three places *)
(* at once: the top-level hashtable, the TTL heap (by a pointer into the   *)
(* entry) and, when it held a large sorted set, the queue of the thread    *)
(* pool that is going to delete it.  Addresses are used again after they   *)
(* are freed.  The heap is taken at its specification, TimerQueue, and the *)
(* pool at its own, TaskPool; the hashtable is a function.                 *)
(*                                                                         *)
(* A command handler runs to its end in the event loop's thread: one       *)
(* action.  The workers of the pool run beside it.                         *)
(***************************************************************************)
EXTENDS Replies, Ranks

CONSTANTS Keys, Strings, Names, Scores,
          Entries,    (* addresses an Entry can be allocated at             *)
          Workers,    (* threads of the pool                                *)
          Times,      (* instants of the monotonic clock                    *)
          TTLs,       (* the ttl_ms arguments of PEXPIRE                    *)
          Offsets, Limits,  (* the last arguments of ZQUERY                 *)
          LargeSize,  (* k_large_container_size                             *)
          MaxWorks,   (* K_MAX_WORKS                                        *)
          NULL

(* struct Entry, without the fields that index it in db and heap.            *)
Entry == [key : Keys, type : {"T_STR", "T_ZSET"}, str : Strings \cup {NULL},
          zset : [Names -> Scores \cup {NULL}]]

ASSUME KeyspaceAssumption ==
    /\ NULL \notin Keys \cup Strings \cup Names \cup Scores \cup Entries
                    \cup TTLs \cup Offsets \cup Limits
    /\ NULL \notin Entry
    /\ NULL \notin [type : {"T_STR", "T_ZSET"},
                   val : Strings \cup {NULL} \cup [Names -> Scores \cup {NULL}]]
    /\ Times \subseteq Nat /\ 0 \in Times
    /\ TTLs \cup Offsets \cup Limits \subseteq Int
    /\ LargeSize \in Nat /\ MaxWorks \in Nat

VARIABLES db,        (* g_data.db: key -> address of its Entry, or NULL     *)
          mem,       (* address -> the Entry there, or NULL when free       *)
          deadline,  (* g_data.heap: address -> its item's val, or NoTTL    *)
          queue, task,             (* g_data.thread_pool, see TaskPool      *)
          now,       (* the monotonic clock                                 *)
          pc,        (* "serve" requests, or "timers": in process_timers    *)
          now_ms,    (* process_timers' snapshot of the clock               *)
          nworks,    (* its count of deleted keys                           *)
          request,   (* history: the last command, with its arguments       *)
          reply      (* and its response                                    *)

pool  == <<queue, task>>
loop  == <<pc, now_ms, nworks>>
io    == <<request, reply>>
vars  == <<db, mem, deadline, queue, task, now, pc, now_ms, nworks, request, reply>>

TQ   == INSTANCE TimerQueue WITH fired <- NULL
Pool == INSTANCE TaskPool WITH Tasks <- Entries
NoTTL == TQ!NoTTL

k_empty_zset == [n \in Names |-> NULL]
Card(z) == Cardinality({n \in Names : z[n] # NULL})   \* hm_size(&zset.hmap)

IsType(k, type) == db[k] # NULL /\ mem[db[k]].type = type

Answer(r) ==
    /\ reply' = r
    /\ UNCHANGED <<db, mem, deadline, pool, now, loop>>

-----------------------------------------------------------------------------
(* Mutant: the new Entry is not given its key.                               *)
Mut_Insert_NoKey(k, type, str, zset) ==
    \E e \in Entries :
        /\ mem[e] = NULL
        /\ mem' = [mem EXCEPT ![e] = [key |-> NULL, type |-> type, str |-> str, zset |-> zset]]
        /\ db' = [db EXCEPT ![k] = e]

(* entry_new and hm_insert: a fresh Entry, not in the heap, enters the table.*)
Insert(k, type, str, zset) ==
    \E e \in Entries :
        /\ mem[e] = NULL
        /\ mem' = [mem EXCEPT ![e] = [key |-> k, type |-> type, str |-> str, zset |-> zset]]
        /\ db' = [db EXCEPT ![k] = e]

(* Mutants: a large sorted set is handed over and deleted as well; or it is  *)
(* neither handed over nor deleted.                                          *)
Mut_Dispose_Both(e) ==
    /\ mem' = [mem EXCEPT ![e] = NULL]
    /\ IF mem[e].type = "T_ZSET" /\ Card(mem[e].zset) > LargeSize
       THEN Pool!Submit(e) ELSE UNCHANGED pool

Mut_Dispose_Leaks(e) ==
    /\ mem' = IF mem[e].type = "T_ZSET" /\ Card(mem[e].zset) > LargeSize
              THEN mem ELSE [mem EXCEPT ![e] = NULL]
    /\ UNCHANGED pool

(* The destructor: at once, or by a worker for a large sorted set.           *)
Dispose(e) ==
    \/ /\ mem[e].type = "T_ZSET" /\ Card(mem[e].zset) > LargeSize
       /\ Pool!Submit(e)
       /\ UNCHANGED mem
    \/ /\ ~(mem[e].type = "T_ZSET" /\ Card(mem[e].zset) > LargeSize)
       /\ mem' = [mem EXCEPT ![e] = NULL]
       /\ UNCHANGED pool

(* entry_set_ttl(e, -1)                                                      *)
ClearTTL(e) == IF deadline[e] = NoTTL THEN UNCHANGED deadline ELSE TQ!Disarm(e)

(* Mutant: the heap item is left behind.                                     *)
Mut_entry_del_KeepsTTL(e) == UNCHANGED deadline /\ Dispose(e)

entry_del(e) == ClearTTL(e) /\ Dispose(e)

(* Mutant: a TTL of zero is taken for "no TTL".                              *)
Mut_set_ttl_ZeroClears(e, ttl) ==
    \/ ttl <= 0 /\ ClearTTL(e)
    \/ ttl > 0 /\ now + ttl \in Times /\ TQ!Arm(e, now + ttl)

(* entry_set_ttl                                                             *)
entry_set_ttl(e, ttl) ==
    \/ ttl < 0 /\ ClearTTL(e)
    \/ ttl >= 0 /\ now + ttl \in Times /\ TQ!Arm(e, now + ttl)

-----------------------------------------------------------------------------
(* The commands.                                                             *)
Get(k) ==
    /\ pc = "serve"
    /\ \/ db[k] = NULL /\ Answer(out_nil)
       \/ db[k] # NULL /\ ~IsType(k, "T_STR") /\ Answer(out_err("ERR_BAD_TYP"))
       \/ IsType(k, "T_STR") /\ Answer(out_str(mem[db[k]].str))

Set(k, s) ==
    /\ pc = "serve"
    /\ \/ /\ db[k] # NULL /\ ~IsType(k, "T_STR")
          /\ Answer(out_err("ERR_BAD_TYP"))
       \/ /\ IsType(k, "T_STR")
          /\ mem' = [mem EXCEPT ![db[k]].str = s]
          /\ reply' = out_nil
          /\ UNCHANGED <<db, deadline, pool, now, loop>>
       \/ /\ db[k] = NULL
          /\ Insert(k, "T_STR", s, k_empty_zset)
          /\ reply' = out_nil
          /\ UNCHANGED <<deadline, pool, now, loop>>

(* Mutant: the entry is deleted but stays in the hashtable.                  *)
Mut_Del_StaysLinked(k) ==
    /\ pc = "serve"
    /\ db[k] # NULL
    /\ entry_del(db[k])
    /\ reply' = out_int(1)
    /\ UNCHANGED <<db, now, loop>>

Del(k) ==
    /\ pc = "serve"
    /\ \/ db[k] = NULL /\ Answer(out_int(0))
       \/ /\ db[k] # NULL
          /\ db' = [db EXCEPT ![k] = NULL]
          /\ entry_del(db[k])
          /\ reply' = out_int(1)
          /\ UNCHANGED <<now, loop>>

ListKeys ==
    /\ pc = "serve"
    /\ \E r \in Listings({k \in Keys : db[k] # NULL}) : Answer(r)

(* x = NULL: an argument that str2dbl rejects.                               *)
ZAdd(k, x, n) ==
    /\ pc = "serve"
    /\ \/ x = NULL /\ Answer(out_err("ERR_BAD_ARG"))
       \/ /\ x # NULL /\ db[k] # NULL /\ ~IsType(k, "T_ZSET")
          /\ Answer(out_err("ERR_BAD_TYP"))
       \/ /\ x # NULL /\ IsType(k, "T_ZSET")
          /\ mem' = [mem EXCEPT ![db[k]].zset[n] = x]
          /\ reply' = out_int(IF mem[db[k]].zset[n] = NULL THEN 1 ELSE 0)
          /\ UNCHANGED <<db, deadline, pool, now, loop>>
       \/ /\ x # NULL /\ db[k] = NULL
          /\ Insert(k, "T_ZSET", NULL, [k_empty_zset EXCEPT ![n] = x])
          /\ reply' = out_int(1)
          /\ UNCHANGED <<deadline, pool, now, loop>>

(* expect_zset, for a key that does not hold a string.                       *)
expect_zset(k) == IF db[k] = NULL THEN k_empty_zset ELSE mem[db[k]].zset

ZRem(k, n) ==
    /\ pc = "serve"
    /\ \/ /\ db[k] # NULL /\ ~IsType(k, "T_ZSET")
          /\ Answer(out_err("ERR_BAD_TYP"))
       \/ /\ db[k] = NULL \/ IsType(k, "T_ZSET")
          /\ expect_zset(k)[n] = NULL
          /\ Answer(out_int(0))
       \/ /\ IsType(k, "T_ZSET")
          /\ expect_zset(k)[n] # NULL
          /\ mem' = [mem EXCEPT ![db[k]].zset[n] = NULL]
          /\ reply' = out_int(1)
          /\ UNCHANGED <<db, deadline, pool, now, loop>>

ZScore(k, n) ==
    /\ pc = "serve"
    /\ \/ /\ db[k] # NULL /\ ~IsType(k, "T_ZSET")
          /\ Answer(out_err("ERR_BAD_TYP"))
       \/ /\ db[k] = NULL \/ IsType(k, "T_ZSET")
          /\ Answer(IF expect_zset(k)[n] = NULL THEN out_nil ELSE out_dbl(expect_zset(k)[n]))

(* The walk over the tree is in ZSet; its answer is Page.  NULL: an argument *)
(* that str2dbl or str2int rejects.                                          *)
ZQuery(k, x, n, offset, limit) ==
    /\ pc = "serve"
    /\ \/ /\ NULL \in {x, offset, limit}
          /\ Answer(out_err("ERR_BAD_ARG"))
       \/ /\ NULL \notin {x, offset, limit}
          /\ db[k] # NULL /\ ~IsType(k, "T_ZSET")
          /\ Answer(out_err("ERR_BAD_TYP"))
       \/ /\ NULL \notin {x, offset, limit}
          /\ db[k] = NULL \/ IsType(k, "T_ZSET")
          /\ LET z == Members(expect_zset(k), NULL)
             IN  Answer(out_tuples(z, Page(z, x, n, offset, limit)))

(* ttl = NULL: an argument that str2int rejects.                             *)
PExpire(k, ttl) ==
    /\ pc = "serve"
    /\ \/ ttl = NULL /\ Answer(out_err("ERR_BAD_ARG"))
       \/ ttl # NULL /\ db[k] = NULL /\ Answer(out_int(0))
       \/ /\ ttl # NULL /\ db[k] # NULL
          /\ entry_set_ttl(db[k], ttl)
          /\ reply' = out_int(1)
          /\ UNCHANGED <<db, mem, pool, now, loop>>

PTTL(k) ==
    /\ pc = "serve"
    /\ \/ db[k] = NULL /\ Answer(out_int(-2))
       \/ db[k] # NULL /\ deadline[db[k]] = NoTTL /\ Answer(out_int(-1))
       \/ /\ db[k] # NULL /\ deadline[db[k]] # NoTTL
          /\ Answer(out_int(IF deadline[db[k]] > now THEN deadline[db[k]] - now ELSE 0))

-----------------------------------------------------------------------------
(* process_timers, the TTL loop: one action per round, so that the clock and *)
(* the workers may move in between.                                          *)
(* Mutant: the clock is not read again.                                      *)
Mut_BeginTimers_OldClock ==
    /\ pc = "serve"
    /\ pc' = "timers"
    /\ nworks' = 0
    /\ UNCHANGED <<db, mem, deadline, pool, now, now_ms, io>>

BeginTimers ==
    /\ pc = "serve"
    /\ pc' = "timers"
    /\ now_ms' = now
    /\ nworks' = 0
    /\ UNCHANGED <<db, mem, deadline, pool, now, io>>

Due == {e \in Entries : deadline[e] # NoTTL /\ deadline[e] < now_ms}

Return == pc' = "serve" /\ now_ms' = 0 /\ nworks' = 0

(* hm_delete looks for this very node (hnode_same) under the entry's key.    *)
Unlink(e) == [db EXCEPT ![mem[e].key] = IF @ = e THEN NULL ELSE @]

ExpireKey(e) ==
    /\ pc = "timers"
    /\ TQ!Fire(e, now_ms)
    /\ db' = Unlink(e)
    /\ Dispose(e)
    /\ IF nworks >= MaxWorks THEN Return
       ELSE nworks' = nworks + 1 /\ UNCHANGED <<pc, now_ms>>
    /\ UNCHANGED <<now, io>>

EndTimers ==
    /\ pc = "timers"
    /\ Due = {}
    /\ Return
    /\ UNCHANGED <<db, mem, deadline, pool, now, io>>

(* A worker of the pool, and entry_del_func in it.                           *)
WorkerTake(w) ==
    /\ Pool!Take(w)
    /\ UNCHANGED <<db, mem, deadline, now, loop, io>>

(* Mutant: the worker drops the entry without deleting it.                   *)
Mut_WorkerFree_Drops(w) ==
    /\ Pool!Finish(w)
    /\ UNCHANGED <<db, mem, deadline, now, loop, io>>

WorkerFree(w) ==
    /\ Pool!Finish(w)
    /\ mem' = [mem EXCEPT ![task[w]] = NULL]
    /\ UNCHANGED <<db, deadline, now, loop, io>>

Tick ==
    /\ now + 1 \in Times
    /\ now' = now + 1
    /\ UNCHANGED <<db, mem, deadline, pool, loop, io>>

-----------------------------------------------------------------------------
Init ==
    /\ db = [k \in Keys |-> NULL]
    /\ mem = [e \in Entries |-> NULL]
    /\ deadline = [e \in Entries |-> NoTTL]
    /\ Pool!TPInit
    /\ now = 0
    /\ pc = "serve"
    /\ now_ms = 0
    /\ nworks = 0
    /\ request = << >>
    /\ reply = out_nil

(* do_request                                                                *)
Command ==
    \/ ListKeys /\ request' = <<"keys">>
    \/ \E k \in Keys :
          \/ Get(k) /\ request' = <<"get", k>>
          \/ Del(k) /\ request' = <<"del", k>>
          \/ PTTL(k) /\ request' = <<"pttl", k>>
          \/ \E s \in Strings : Set(k, s) /\ request' = <<"set", k, s>>
          \/ \E ttl \in TTLs \cup {NULL} :
                PExpire(k, ttl) /\ request' = <<"pexpire", k, ttl>>
    \/ \E k \in Keys, n \in Names :
          \/ ZRem(k, n) /\ request' = <<"zrem", k, n>>
          \/ ZScore(k, n) /\ request' = <<"zscore", k, n>>
          \/ \E x \in Scores \cup {NULL} :
                ZAdd(k, x, n) /\ request' = <<"zadd", k, x, n>>
          \/ \E x \in Scores \cup {NULL}, offset \in Offsets \cup {NULL}, limit \in Limits \cup {NULL} :
                ZQuery(k, x, n, offset, limit) /\ request' = <<"zquery", k, x, n, offset, limit>>

Timers == BeginTimers \/ EndTimers \/ \E e \in Entries : ExpireKey(e)
Worker(w) == WorkerTake(w) \/ WorkerFree(w)

Next == Command \/ Timers \/ Tick \/ \E w \in Workers : Worker(w)

Spec == Init /\ [][Next]_vars

(* The event loop comes back to process_timers and finishes it: poll() has a *)
(* timeout and every handler returns.  The threads of the pool keep running. *)
FairSpec == Spec /\ WF_vars(Timers) /\ \A w \in Workers : WF_vars(Worker(w))

-----------------------------------------------------------------------------
TypeOK ==
    /\ db \in [Keys -> Entries \cup {NULL}]
    /\ mem \in [Entries -> Entry \cup {NULL}]
    /\ deadline \in [Entries -> Times \cup {NoTTL}]
    /\ queue \in Seq(Entries)
    /\ task \in [Workers -> Entries \cup {NULL}]
    /\ now \in Times /\ now_ms \in Times
    /\ pc \in {"serve", "timers"}
    /\ nworks \in 0..MaxWorks

Queued  == {queue[i] : i \in DOMAIN queue}
InHand  == {task[w] : w \in Workers} \ {NULL}
Doomed  == Queued \cup InHand
Indexed == {db[k] : k \in Keys} \ {NULL}

(* What the hashtable holds is allocated, under its own key, and nobody is   *)
(* about to delete it.                                                       *)
DbSound ==
    \A k \in Keys : db[k] # NULL =>
        mem[db[k]] # NULL /\ mem[db[k]].key = k /\ db[k] \notin Doomed

(* assert(node == &ent->node) in process_timers: whatever has a deadline is  *)
(* in the hashtable, so a heap item never points into freed memory.          *)
TimersSound ==
    \A e \in Entries : deadline[e] # NoTTL => mem[e] # NULL /\ db[mem[e].key] = e

(* What the pool has to delete is allocated and in one place only: no double *)
(* delete.                                                                   *)
PoolSound ==
    /\ \A e \in Doomed : mem[e] # NULL
    /\ Queued \cap InHand = {}
    /\ \A i, j \in DOMAIN queue : queue[i] = queue[j] => i = j
    /\ \A v, w \in Workers : task[v] = task[w] /\ task[v] # NULL => v = w

(* Nothing leaks: what is allocated is in the hashtable or with the pool.    *)
NoLeak == \A e \in Entries : mem[e] # NULL => e \in Indexed \cup Doomed

(* A key that is due does not stay: the batches of process_timers get to it, *)
(* unless it is deleted or given another deadline first.                     *)
DueKeysGo ==
    \A k \in Keys, d \in Times :
        (db[k] # NULL /\ deadline[db[k]] = d /\ d < now)
            ~> ~(db[k] # NULL /\ deadline[db[k]] = d)

(* Every entry given to the pool is deleted.                                 *)
DoomedAreFreed == \A e \in Entries : e \in Doomed ~> mem[e] = NULL

(* The commands implement the dictionary of KVStore: reuse of addresses,     *)
(* late deletion and batches of timers are invisible to clients.             *)
Value(k) ==
    IF db[k] = NULL THEN NULL
    ELSE LET ent == mem[db[k]] IN
         [type |-> ent.type, val |-> IF ent.type = "T_STR" THEN ent.str ELSE ent.zset]

kvStore   == [k \in Keys |-> Value(k)]
kvExpires == [k \in Keys |-> IF db[k] = NULL THEN NoTTL ELSE deadline[db[k]]]

KV == INSTANCE KVStore WITH store <- kvStore, expires <- kvExpires

ImplementsKVStore == KV!KVSpec
=============================================================================
