--------------------------- MODULE KeyspaceProofs ---------------------------
(***************************************************************************)
(* Proofs about the lifetime of entries, for any number of keys, addresses *)
(* and workers, any clock and any size of batches and of large sorted sets.*)
(*                                                                         *)
(* The commands and the timers do only a handful of things to the table,   *)
(* the memory, the heap and the pool.  The changes are named first, each   *)
(* command is shown to be one of them, and the invariant is proved once    *)
(* per change.  The second half compares the responses with KVStore's.     *)
(***************************************************************************)
EXTENDS Keyspace, FiniteSetTheorems, TLAPS

data == <<db, mem, deadline, pool>>

(* A value is written in place: the entry stays where it is, under its key.  *)
Overwrite ==
    /\ mem' \in [Entries -> Entry \cup {NULL}]
    /\ \A e \in Entries :
          /\ mem'[e] = NULL <=> mem[e] = NULL
          /\ mem[e] # NULL => mem'[e].key = mem[e].key
    /\ UNCHANGED <<db, deadline, pool>>

Create ==
    /\ \E k \in Keys, type \in {"T_STR", "T_ZSET"}, str \in Strings \cup {NULL},
          zset \in [Names -> Scores \cup {NULL}] : db[k] = NULL /\ Insert(k, type, str, zset)
    /\ UNCHANGED <<deadline, pool>>

Retime ==
    /\ \E k \in Keys, d \in Times \cup {NoTTL} :
          db[k] # NULL /\ deadline' = [deadline EXCEPT ![db[k]] = d]
    /\ UNCHANGED <<db, mem, pool>>

RemoveKey(k) ==
    /\ db[k] # NULL
    /\ db' = [db EXCEPT ![k] = NULL]
    /\ deadline' = [deadline EXCEPT ![db[k]] = NoTTL]
    /\ Dispose(db[k])

Change == UNCHANGED data \/ Overwrite \/ Create \/ Retime \/ \E k \in Keys : RemoveKey(k)

Lifetime == DbSound /\ TimersSound /\ PoolSound /\ NoLeak
IInv == TypeOK /\ Lifetime

-----------------------------------------------------------------------------
(* Every command is one of the changes.                                      *)
LEMMA ClearIsRetime ==
    ASSUME TypeOK, NEW e \in Entries, ClearTTL(e)
    PROVE  deadline' = [deadline EXCEPT ![e] = NoTTL]
BY DEF TypeOK, ClearTTL, TQ!Disarm, NoTTL, TQ!NoTTL

LEMMA InPlace ==
    ASSUME IInv, NEW e \in Entries, mem[e] \in Entry,
           NEW r \in Entry, r.key = mem[e].key,
           mem' = [mem EXCEPT ![e] = r], UNCHANGED <<db, deadline, pool>>
    PROVE  Change
<1>1. mem \in [Entries -> Entry \cup {NULL}] /\ NULL \notin Entry
  BY KeyspaceAssumption DEF IInv, TypeOK
<1>2. mem' \in [Entries -> Entry \cup {NULL}]
  BY <1>1
<1>3. \A f \in Entries : f # e => mem'[f] = mem[f]
  BY <1>1
<1>4. mem'[e] = r
  BY <1>1
<1> QED
  BY <1>1, <1>2, <1>3, <1>4 DEF Overwrite, Change

LEMMA GetChange == ASSUME NEW k \in Keys, Get(k) PROVE Change
BY DEF Get, Answer, Change, data

LEMMA ListChange == ListKeys => Change
BY DEF ListKeys, Answer, Change, data

LEMMA ScoreChange == ASSUME NEW k \in Keys, NEW n \in Names, ZScore(k, n) PROVE Change
BY DEF ZScore, Answer, Change, data

LEMMA QueryChange ==
    ASSUME NEW k \in Keys, NEW x, NEW n, NEW offset, NEW limit, ZQuery(k, x, n, offset, limit)
    PROVE  Change
BY DEF ZQuery, Answer, Change, data

LEMMA PTTLChange == ASSUME NEW k \in Keys, PTTL(k) PROVE Change
BY DEF PTTL, Answer, Change, data

LEMMA SetChange == ASSUME IInv, NEW k \in Keys, NEW s \in Strings, Set(k, s) PROVE Change
<1>1. CASE UNCHANGED <<db, mem, deadline, pool>>
  BY <1>1 DEF Change, data
<1>2. CASE IsType(k, "T_STR") /\ mem' = [mem EXCEPT ![db[k]].str = s]
           /\ UNCHANGED <<db, deadline, pool>>
  <2>1. db[k] \in Entries /\ mem[db[k]] \in Entry
    BY <1>2 DEF IInv, Lifetime, DbSound, TypeOK, IsType
  <2>2. mem' = [mem EXCEPT ![db[k]] = [mem[db[k]] EXCEPT !.str = s]]
    BY <1>2
  <2>3. /\ [mem[db[k]] EXCEPT !.str = s] \in Entry
        /\ [mem[db[k]] EXCEPT !.str = s].key = mem[db[k]].key
    BY <2>1 DEF Entry
  <2> QED
    BY <1>2, <2>1, <2>2, <2>3, InPlace
<1>3. CASE db[k] = NULL /\ Insert(k, "T_STR", s, k_empty_zset) /\ UNCHANGED <<deadline, pool>>
  <2>1. k_empty_zset \in [Names -> Scores \cup {NULL}]
    BY DEF k_empty_zset
  <2> QED
    BY <1>3, <2>1 DEF Create, Change
<1> QED
  BY <1>1, <1>2, <1>3 DEF Set, Answer

LEMMA AddChange ==
    ASSUME IInv, NEW k \in Keys, NEW x \in Scores \cup {NULL}, NEW n \in Names, ZAdd(k, x, n)
    PROVE  Change
<1>1. CASE UNCHANGED <<db, mem, deadline, pool>>
  BY <1>1 DEF Change, data
<1>2. CASE IsType(k, "T_ZSET") /\ mem' = [mem EXCEPT ![db[k]].zset[n] = x]
           /\ UNCHANGED <<db, deadline, pool>>
  <2>1. db[k] \in Entries /\ mem[db[k]] \in Entry
    BY <1>2 DEF IInv, Lifetime, DbSound, TypeOK, IsType
  <2>2. mem' = [mem EXCEPT ![db[k]] = [mem[db[k]] EXCEPT !.zset = [mem[db[k]].zset EXCEPT ![n] = x]]]
    BY <1>2
  <2>3. /\ [mem[db[k]] EXCEPT !.zset = [mem[db[k]].zset EXCEPT ![n] = x]] \in Entry
        /\ [mem[db[k]] EXCEPT !.zset = [mem[db[k]].zset EXCEPT ![n] = x]].key = mem[db[k]].key
    BY <2>1 DEF Entry
  <2> QED
    BY <1>2, <2>1, <2>2, <2>3, InPlace
<1>3. CASE /\ x # NULL /\ db[k] = NULL
           /\ Insert(k, "T_ZSET", NULL, [k_empty_zset EXCEPT ![n] = x])
           /\ UNCHANGED <<deadline, pool>>
  <2>1. [k_empty_zset EXCEPT ![n] = x] \in [Names -> Scores \cup {NULL}]
    BY DEF k_empty_zset
  <2> QED
    BY <1>3, <2>1 DEF Create, Change
<1> QED
  BY <1>1, <1>2, <1>3 DEF ZAdd, Answer

LEMMA RemChange ==
    ASSUME IInv, NEW k \in Keys, NEW n \in Names, ZRem(k, n)
    PROVE  Change
<1>1. CASE UNCHANGED <<db, mem, deadline, pool>>
  BY <1>1 DEF Change, data
<1>2. CASE IsType(k, "T_ZSET") /\ mem' = [mem EXCEPT ![db[k]].zset[n] = NULL]
           /\ UNCHANGED <<db, deadline, pool>>
  <2>1. db[k] \in Entries /\ mem[db[k]] \in Entry
    BY <1>2 DEF IInv, Lifetime, DbSound, TypeOK, IsType
  <2>2. mem' = [mem EXCEPT ![db[k]] = [mem[db[k]] EXCEPT !.zset = [mem[db[k]].zset EXCEPT ![n] = NULL]]]
    BY <1>2
  <2>3. /\ [mem[db[k]] EXCEPT !.zset = [mem[db[k]].zset EXCEPT ![n] = NULL]] \in Entry
        /\ [mem[db[k]] EXCEPT !.zset = [mem[db[k]].zset EXCEPT ![n] = NULL]].key = mem[db[k]].key
    BY <2>1 DEF Entry
  <2> QED
    BY <1>2, <2>1, <2>2, <2>3, InPlace
<1> QED
  BY <1>1, <1>2 DEF ZRem, Answer
LEMMA DelChange == ASSUME IInv, NEW k \in Keys, Del(k) PROVE Change
<1>1. CASE UNCHANGED <<db, mem, deadline, pool>>
  BY <1>1 DEF Change, data
<1>2. CASE db[k] # NULL /\ db' = [db EXCEPT ![k] = NULL] /\ entry_del(db[k])
  <2>1. db[k] \in Entries
    BY <1>2 DEF IInv, TypeOK
  <2>2. deadline' = [deadline EXCEPT ![db[k]] = NoTTL]
    BY <1>2, <2>1, ClearIsRetime DEF entry_del, IInv
  <2> QED
    BY <1>2, <2>2 DEF entry_del, RemoveKey, Change
<1> QED
  BY <1>1, <1>2 DEF Del, Answer

LEMMA ExpireChange == ASSUME IInv, NEW e \in Entries, ExpireKey(e) PROVE Change
<1>1. /\ deadline[e] # NoTTL /\ deadline' = [deadline EXCEPT ![e] = NoTTL]
      /\ db' = Unlink(e) /\ Dispose(e)
  BY DEF ExpireKey, TQ!Fire, TQ!Disarm, NoTTL
<1>2. mem[e] # NULL /\ db[mem[e].key] = e
  BY <1>1 DEF IInv, Lifetime, TimersSound
<1>3. mem[e].key \in Keys /\ e # NULL
  BY <1>2, KeyspaceAssumption DEF IInv, TypeOK, Entry
<1>4. db' = [db EXCEPT ![mem[e].key] = NULL]
  BY <1>1, <1>2 DEF Unlink
<1>5. RemoveKey(mem[e].key)
  BY <1>1, <1>2, <1>3, <1>4 DEF RemoveKey
<1> QED
  BY <1>3, <1>5 DEF Change

LEMMA PExpireChange ==
    ASSUME IInv, NEW k \in Keys, NEW ttl \in TTLs \cup {NULL}, PExpire(k, ttl)
    PROVE  Change
<1>1. CASE UNCHANGED <<db, mem, deadline, pool>>
  BY <1>1 DEF Change, data
<1>2. CASE ttl # NULL /\ db[k] # NULL /\ entry_set_ttl(db[k], ttl) /\ UNCHANGED <<db, mem, pool>>
  <2>1. db[k] \in Entries
    BY <1>2 DEF IInv, TypeOK
  <2>2. PICK d \in Times \cup {NoTTL} : deadline' = [deadline EXCEPT ![db[k]] = d]
    BY <1>2, <2>1, ClearIsRetime DEF entry_set_ttl, TQ!Arm, IInv
  <2> QED
    BY <1>2, <2>2 DEF Retime, Change
<1> QED
  BY <1>1, <1>2 DEF PExpire, Answer

LEMMA CommandChange == IInv /\ Command => Change
BY GetChange, ListChange, ScoreChange, QueryChange, PTTLChange, SetChange, AddChange, RemChange,
   DelChange, PExpireChange DEF Command

-----------------------------------------------------------------------------
(* The pool's side of a change: what Submit, Take and Finish do to the sets  *)
(* that the invariant speaks of.                                             *)
NoRepeat(q) == \A i, j \in DOMAIN q : q[i] = q[j] => i = j

LEMMA Submitted ==
    ASSUME queue \in Seq(Entries), NEW e \in Entries, Pool!Submit(e)
    PROVE  /\ queue' \in Seq(Entries)
           /\ Queued' = Queued \cup {e}
           /\ NoRepeat(queue) /\ e \notin Queued => NoRepeat(queue')
<1>1. /\ queue' \in Seq(Entries)
      /\ DOMAIN queue = 1..Len(queue) /\ Len(queue) \in Nat
      /\ DOMAIN queue' = 1..(Len(queue) + 1)
      /\ \A i \in 1..Len(queue) : queue'[i] = queue[i]
      /\ queue'[Len(queue) + 1] = e
  BY DEF Pool!Submit
<1>2. Queued' = Queued \cup {e}
  BY <1>1 DEF Queued
<1>3. ASSUME NoRepeat(queue), e \notin Queued PROVE NoRepeat(queue')
  BY <1>1, <1>3 DEF NoRepeat, Queued
<1> QED
  BY <1>1, <1>2, <1>3

LEMMA Popped ==
    ASSUME queue \in Seq(Entries), queue # << >>, queue' = Tail(queue), NoRepeat(queue)
    PROVE  /\ queue' \in Seq(Entries)
           /\ Head(queue) \in Queued
           /\ Queued' = Queued \ {Head(queue)}
           /\ NoRepeat(queue')
<1>1. /\ queue' \in Seq(Entries)
      /\ DOMAIN queue = 1..Len(queue) /\ Len(queue) \in Nat \ {0}
      /\ DOMAIN queue' = 1..(Len(queue) - 1)
      /\ \A i \in 1..(Len(queue) - 1) : queue'[i] = queue[i + 1]
      /\ Head(queue) = queue[1]
  OBVIOUS
<1>2. Head(queue) \in Queued
  BY <1>1 DEF Queued
<1>3. NoRepeat(queue')
  BY <1>1 DEF NoRepeat
<1>4. Queued' \subseteq Queued \ {Head(queue)}
  BY <1>1 DEF NoRepeat, Queued
<1>5. ASSUME NEW i \in DOMAIN queue, queue[i] # Head(queue) PROVE queue[i] \in Queued'
  <2>1. i - 1 \in DOMAIN queue' /\ queue'[i - 1] = queue[i]
    BY <1>1, <1>5
  <2> QED
    BY <2>1 DEF Queued
<1>6. Queued \ {Head(queue)} \subseteq Queued'
  <2> SUFFICES ASSUME NEW x \in Queued, x # Head(queue) PROVE x \in Queued'
    OBVIOUS
  <2>1. PICK i \in DOMAIN queue : queue[i] = x
    BY DEF Queued
  <2> QED
    BY <1>5, <2>1
<1> QED
  BY <1>1, <1>2, <1>3, <1>4, <1>6
-----------------------------------------------------------------------------
(* The lifetime of entries survives each change.                             *)
LEMMA StutterLifetime == ASSUME Lifetime, UNCHANGED data PROVE Lifetime'
BY DEF Lifetime, data, pool, DbSound, TimersSound, PoolSound, NoLeak,
       Doomed, Queued, InHand, Indexed

LEMMA OverwriteLifetime == ASSUME IInv, Overwrite PROVE Lifetime'
<1>1. UNCHANGED <<db, deadline, queue, task>>
  BY DEF Overwrite, pool
<1>2. UNCHANGED <<Doomed, Indexed, Queued, InHand>>
  BY <1>1 DEF Doomed, Queued, InHand, Indexed
<1>3. \A e \in Entries : /\ mem'[e] = NULL <=> mem[e] = NULL
                         /\ mem[e] # NULL => mem'[e].key = mem[e].key
  BY DEF Overwrite
<1>4. /\ Doomed \subseteq Entries
      /\ \A k \in Keys : db[k] # NULL => db[k] \in Entries
  BY DEF IInv, TypeOK, Doomed, Queued, InHand
<1>5. DbSound'
  BY <1>1, <1>2, <1>3, <1>4 DEF DbSound, IInv, Lifetime
<1>6. TimersSound'
  BY <1>1, <1>3 DEF TimersSound, IInv, Lifetime
<1>7. PoolSound'
  BY <1>1, <1>2, <1>3, <1>4 DEF PoolSound, IInv, Lifetime
<1>8. NoLeak'
  BY <1>2, <1>3 DEF NoLeak, IInv, Lifetime
<1> QED
  BY <1>5, <1>6, <1>7, <1>8 DEF Lifetime

LEMMA CreateLifetime == ASSUME IInv, Create PROVE Lifetime'
<1>1. UNCHANGED <<deadline, queue, task>>
  BY DEF Create, pool
<1>2. UNCHANGED <<Doomed, Queued, InHand>>
  BY <1>1 DEF Doomed, Queued, InHand
<1>3. PICK k \in Keys, e \in Entries, r \in Entry :
        /\ db[k] = NULL /\ mem[e] = NULL /\ r.key = k
        /\ mem' = [mem EXCEPT ![e] = r]
        /\ db' = [db EXCEPT ![k] = e]
  BY DEF Create, Insert, Entry
<1>4. /\ mem'[e] = r /\ r # NULL /\ e # NULL
      /\ \A f \in Entries : f # e => mem'[f] = mem[f]
      /\ db'[k] = e
      /\ \A l \in Keys : l # k => db'[l] = db[l]
  BY <1>3, KeyspaceAssumption DEF IInv, TypeOK
<1>5. e \notin Doomed
  BY <1>3 DEF IInv, Lifetime, PoolSound
<1>6. \A l \in Keys : db[l] # NULL => db[l] \in Entries /\ db[l] # e
  BY <1>3 DEF IInv, TypeOK, Lifetime, DbSound
<1>7. deadline[e] = NoTTL
  BY <1>3 DEF IInv, Lifetime, TimersSound
<1>8. Indexed' = Indexed \cup {e}
  BY <1>3, <1>4 DEF Indexed
<1>9. DbSound'
  BY <1>2, <1>3, <1>4, <1>5, <1>6 DEF DbSound, IInv, Lifetime
<1>10. TimersSound'
  <2> SUFFICES ASSUME NEW f \in Entries, deadline[f] # NoTTL
               PROVE  mem'[f] # NULL /\ db'[mem'[f].key] = f
    BY <1>1 DEF TimersSound
  <2>1. f # e /\ mem[f] # NULL /\ db[mem[f].key] = f
    BY <1>7 DEF IInv, Lifetime, TimersSound
  <2>2. mem[f].key \in Keys /\ f # NULL
    BY <2>1, KeyspaceAssumption DEF IInv, TypeOK, Entry
  <2> QED
    BY <1>3, <1>4, <2>1, <2>2
<1>11. PoolSound'
  <2>1. Doomed \subseteq Entries
    BY DEF IInv, TypeOK, Doomed, Queued, InHand
  <2> QED
    BY <1>1, <1>2, <1>4, <1>5, <2>1 DEF PoolSound, IInv, Lifetime
<1>12. NoLeak'
  BY <1>2, <1>4, <1>8 DEF NoLeak, IInv, Lifetime
<1> QED
  BY <1>9, <1>10, <1>11, <1>12 DEF Lifetime

LEMMA RetimeLifetime == ASSUME IInv, Retime PROVE Lifetime'
<1>1. UNCHANGED <<db, mem, queue, task>>
  BY DEF Retime, pool
<1>2. UNCHANGED <<Doomed, Indexed, Queued, InHand>>
  BY <1>1 DEF Doomed, Queued, InHand, Indexed
<1>3. PICK k \in Keys, d \in Times \cup {NoTTL} :
        db[k] # NULL /\ deadline' = [deadline EXCEPT ![db[k]] = d]
  BY DEF Retime
<1>4. mem[db[k]] # NULL /\ db[mem[db[k]].key] = db[k]
  BY <1>3 DEF IInv, Lifetime, DbSound
<1>5. TimersSound'
  BY <1>1, <1>3, <1>4 DEF TimersSound, IInv, Lifetime, TypeOK
<1>6. DbSound' /\ PoolSound' /\ NoLeak'
  BY <1>1, <1>2 DEF DbSound, PoolSound, NoLeak, IInv, Lifetime
<1> QED
  BY <1>5, <1>6 DEF Lifetime
(* The entry leaves the table and the heap in the step that frees it or      *)
(* hands it to the pool.                                                     *)
LEMMA RemoveLifetime == ASSUME IInv, NEW k \in Keys, RemoveKey(k) PROVE Lifetime'
<1> DEFINE e == db[k]
<1>1. /\ e \in Entries /\ e # NULL /\ mem[e] # NULL /\ mem[e].key = k /\ e \notin Doomed
  BY KeyspaceAssumption DEF RemoveKey, IInv, TypeOK, Lifetime, DbSound
<1>2. /\ db' = [db EXCEPT ![k] = NULL]
      /\ deadline' = [deadline EXCEPT ![e] = NoTTL]
      /\ task' = task
  BY DEF RemoveKey, Dispose, Pool!Submit, pool
<1>3. /\ db'[k] = NULL
      /\ \A l \in Keys : l # k => db'[l] = db[l]
      /\ \A l \in Keys : l # k /\ db[l] # NULL => db[l] # e /\ db[l] \in Entries
      /\ Indexed' = Indexed \ {e}
      /\ InHand' = InHand
  <2>1. \A l \in Keys : l # k /\ db[l] # NULL => db[l] # e /\ db[l] \in Entries
    BY <1>1 DEF IInv, TypeOK, Lifetime, DbSound
  <2>2. db'[k] = NULL /\ \A l \in Keys : l # k => db'[l] = db[l]
    BY <1>2 DEF IInv, TypeOK
  <2>3. Indexed' = Indexed \ {e}
    BY <2>1, <2>2 DEF Indexed
  <2> QED
    BY <1>2, <2>1, <2>2, <2>3 DEF InHand
<1>4. \A f \in Entries : f # e => (deadline'[f] = deadline[f])
  BY <1>1, <1>2 DEF IInv, TypeOK
<1>5. deadline'[e] = NoTTL
  BY <1>1, <1>2 DEF IInv, TypeOK
<1>6. Doomed \subseteq Entries /\ queue \in Seq(Entries) /\ NoRepeat(queue)
  BY DEF IInv, TypeOK, Doomed, Queued, InHand, Lifetime, PoolSound, NoRepeat
<1>7. \A f \in Entries : f # e /\ deadline[f] # NoTTL =>
          mem[f] # NULL /\ db'[mem[f].key] = f
  <2> SUFFICES ASSUME NEW f \in Entries, f # e, deadline[f] # NoTTL
               PROVE  mem[f] # NULL /\ db'[mem[f].key] = f
    OBVIOUS
  <2>1. mem[f] # NULL /\ db[mem[f].key] = f
    BY DEF IInv, Lifetime, TimersSound
  <2>2. mem[f].key \in Keys
    BY <2>1 DEF IInv, TypeOK, Entry
  <2> QED
    BY <1>3, <2>1, <2>2
<1>8. CASE Pool!Submit(e) /\ UNCHANGED mem
  <2>1. queue' \in Seq(Entries) /\ Queued' = Queued \cup {e} /\ NoRepeat(queue')
    BY <1>1, <1>6, <1>8, Submitted DEF Doomed
  <2>2. Doomed' = Doomed \cup {e}
    BY <1>3, <2>1 DEF Doomed
  <2>3. DbSound'
    BY <1>3, <1>8, <2>2 DEF DbSound, IInv, Lifetime
  <2>4. TimersSound'
    BY <1>4, <1>5, <1>7, <1>8 DEF TimersSound
  <2>5. PoolSound'
    BY <1>1, <1>2, <1>3, <1>8, <2>1, <2>2 DEF PoolSound, IInv, Lifetime, NoRepeat, Doomed
  <2>6. NoLeak'
    BY <1>3, <1>8, <2>2 DEF NoLeak, IInv, Lifetime
  <2> QED
    BY <2>3, <2>4, <2>5, <2>6 DEF Lifetime
<1>9. CASE mem' = [mem EXCEPT ![e] = NULL] /\ UNCHANGED pool
  <2>1. /\ Doomed' = Doomed /\ Queued' = Queued /\ queue' = queue
    BY <1>3, <1>9 DEF Doomed, Queued, pool
  <2>2. mem'[e] = NULL /\ \A f \in Entries : f # e => mem'[f] = mem[f]
    BY <1>1, <1>9 DEF IInv, TypeOK
  <2>3. DbSound'
    BY <1>3, <2>1, <2>2 DEF DbSound, IInv, Lifetime
  <2>4. TimersSound'
    BY <1>4, <1>5, <1>7, <2>2 DEF TimersSound
  <2>5. PoolSound'
    BY <1>1, <1>2, <1>3, <1>6, <2>1, <2>2 DEF PoolSound, IInv, Lifetime
  <2>6. NoLeak'
    BY <1>3, <2>1, <2>2 DEF NoLeak, IInv, Lifetime
  <2> QED
    BY <2>3, <2>4, <2>5, <2>6 DEF Lifetime
<1> QED
  BY <1>8, <1>9 DEF RemoveKey, Dispose

LEMMA TakeLifetime == ASSUME IInv, NEW w \in Workers, WorkerTake(w) PROVE Lifetime'
<1>1. /\ task[w] = NULL /\ queue # << >> /\ queue' = Tail(queue)
      /\ task' = [task EXCEPT ![w] = Head(queue)]
      /\ UNCHANGED <<db, mem, deadline>>
  BY DEF WorkerTake, Pool!Take
<1>2. queue \in Seq(Entries) /\ NoRepeat(queue)
  BY DEF IInv, TypeOK, Lifetime, PoolSound, NoRepeat
<1>3. /\ Head(queue) \in Queued /\ Queued' = Queued \ {Head(queue)} /\ NoRepeat(queue')
  BY <1>1, <1>2, Popped
<1>4. Queued \subseteq Entries /\ NULL \notin Queued
  BY <1>2, KeyspaceAssumption DEF Queued
<1>5. /\ task'[w] = Head(queue)
      /\ \A v \in Workers : v # w => task'[v] = task[v]
  BY <1>1 DEF IInv, TypeOK
<1>6. InHand' = InHand \cup {Head(queue)}
  BY <1>1, <1>3, <1>4, <1>5 DEF InHand
<1>7. Doomed' = Doomed
  BY <1>3, <1>6 DEF Doomed
<1>8. Indexed' = Indexed
  BY <1>1 DEF Indexed
<1>9. PoolSound'
  <2>1. Queued' \cap InHand' = {}
    BY <1>3, <1>6 DEF IInv, Lifetime, PoolSound
  <2>2. \A u, v \in Workers : task'[u] = task'[v] /\ task'[u] # NULL => u = v
    BY <1>3, <1>5 DEF IInv, Lifetime, PoolSound, InHand
  <2> QED
    BY <1>1, <1>3, <1>7, <2>1, <2>2 DEF PoolSound, IInv, Lifetime, NoRepeat
<1> QED
  BY <1>1, <1>7, <1>8, <1>9 DEF Lifetime, DbSound, TimersSound, NoLeak, IInv

LEMMA FreeLifetime == ASSUME IInv, NEW w \in Workers, WorkerFree(w) PROVE Lifetime'
<1> DEFINE e == task[w]
<1>1. /\ e # NULL /\ task' = [task EXCEPT ![w] = NULL]
      /\ mem' = [mem EXCEPT ![e] = NULL]
      /\ UNCHANGED <<db, deadline, queue>>
  BY DEF WorkerFree, Pool!Finish
<1>2. e \in Entries /\ e \in InHand /\ e \notin Queued
  BY <1>1 DEF IInv, TypeOK, InHand, Lifetime, PoolSound
<1>3. /\ task'[w] = NULL
      /\ \A v \in Workers : v # w => task'[v] = task[v] /\ task[v] # e
  BY <1>1 DEF IInv, TypeOK, Lifetime, PoolSound
<1>4. InHand' = InHand \ {e}
  BY <1>3 DEF InHand
<1>5. Queued' = Queued /\ Indexed' = Indexed /\ Doomed' = Doomed \ {e}
  BY <1>1, <1>2, <1>4 DEF Queued, Indexed, Doomed
<1>6. mem'[e] = NULL /\ \A f \in Entries : f # e => mem'[f] = mem[f]
  BY <1>1, <1>2 DEF IInv, TypeOK
<1>7. /\ \A k \in Keys : db[k] # NULL => db[k] # e /\ db[k] \in Entries
      /\ Doomed \subseteq Entries
  BY <1>2 DEF IInv, TypeOK, Lifetime, DbSound, Doomed, Queued, InHand
<1>8. deadline[e] = NoTTL
  <2> SUFFICES ASSUME deadline[e] # NoTTL PROVE FALSE
    OBVIOUS
  <2>1. mem[e] # NULL /\ db[mem[e].key] = e
    BY <1>2 DEF IInv, Lifetime, TimersSound
  <2>2. mem[e].key \in Keys
    BY <1>2, <2>1 DEF IInv, TypeOK, Entry
  <2> QED
    BY <1>1, <1>7, <2>1, <2>2
<1>9. DbSound'
  BY <1>1, <1>5, <1>6, <1>7 DEF DbSound, IInv, Lifetime
<1>10. TimersSound'
  BY <1>1, <1>6, <1>8 DEF TimersSound, IInv, Lifetime
<1>11. PoolSound'
  BY <1>1, <1>3, <1>4, <1>5, <1>6, <1>7 DEF PoolSound, IInv, Lifetime
<1>12. NoLeak'
  BY <1>5, <1>6 DEF NoLeak, IInv, Lifetime
<1> QED
  BY <1>9, <1>10, <1>11, <1>12 DEF Lifetime
-----------------------------------------------------------------------------
(* Types.                                                                    *)
DataType ==
    /\ db \in [Keys -> Entries \cup {NULL}]
    /\ mem \in [Entries -> Entry \cup {NULL}]
    /\ deadline \in [Entries -> Times \cup {NoTTL}]
    /\ queue \in Seq(Entries)
    /\ task \in [Workers -> Entries \cup {NULL}]

LoopType ==
    /\ now \in Times /\ now_ms \in Times
    /\ pc \in {"serve", "timers"}
    /\ nworks \in 0..MaxWorks

LEMMA TypeSplit == TypeOK <=> DataType /\ LoopType
BY DEF TypeOK, DataType, LoopType

LEMMA ChangeType == ASSUME IInv, Change PROVE DataType'
<1>1. DataType
  BY TypeSplit DEF IInv
<1>2. CASE UNCHANGED data
  BY <1>1, <1>2 DEF DataType, data, pool
<1>3. CASE Overwrite
  BY <1>1, <1>3 DEF DataType, Overwrite, pool
<1>4. CASE Create
  <2>1. PICK k \in Keys, e \in Entries, r \in Entry :
          mem' = [mem EXCEPT ![e] = r] /\ db' = [db EXCEPT ![k] = e]
    BY <1>4 DEF Create, Insert, Entry
  <2>2. UNCHANGED <<deadline, queue, task>>
    BY <1>4 DEF Create, pool
  <2> QED
    BY <1>1, <2>1, <2>2 DEF DataType
<1>5. CASE Retime
  BY <1>1, <1>5 DEF DataType, Retime, pool
<1>6. ASSUME NEW k \in Keys, RemoveKey(k) PROVE DataType'
  <2>1. db[k] \in Entries
    BY <1>1, <1>6 DEF RemoveKey, DataType
  <2>2. db' \in [Keys -> Entries \cup {NULL}] /\ deadline' \in [Entries -> Times \cup {NoTTL}]
    BY <1>1, <1>6, <2>1 DEF RemoveKey, DataType
  <2>3. queue' \in Seq(Entries) /\ task' = task /\ mem' \in [Entries -> Entry \cup {NULL}]
    <3>1. CASE Pool!Submit(db[k]) /\ UNCHANGED mem
      BY <1>1, <2>1, <3>1, Submitted DEF DataType, Pool!Submit
    <3>2. CASE mem' = [mem EXCEPT ![db[k]] = NULL] /\ UNCHANGED pool
      BY <1>1, <2>1, <3>2 DEF DataType, pool
    <3> QED
      BY <1>6, <3>1, <3>2 DEF RemoveKey, Dispose
  <2> QED
    BY <1>1, <2>2, <2>3 DEF DataType
<1> QED
  BY <1>2, <1>3, <1>4, <1>5, <1>6 DEF Change

LEMMA WorkerType == ASSUME IInv, NEW w \in Workers, Worker(w) PROVE DataType'
<1>1. DataType
  BY TypeSplit DEF IInv
<1>2. CASE WorkerTake(w)
  <2>1. queue' \in Seq(Entries) /\ Head(queue) \in Entries
    BY <1>1, <1>2 DEF WorkerTake, Pool!Take, DataType
  <2> QED
    BY <1>1, <1>2, <2>1 DEF WorkerTake, Pool!Take, DataType
<1>3. CASE WorkerFree(w)
  BY <1>1, <1>3 DEF WorkerFree, Pool!Finish, DataType
<1> QED
  BY <1>2, <1>3 DEF Worker

(* A command touches neither the clock nor the state of process_timers.      *)
LEMMA CommandLoop == Command => UNCHANGED <<now, loop>>
<1> USE DEF Answer
<1>1. ASSUME NEW k \in Keys, Get(k) \/ Del(k) \/ PTTL(k) PROVE UNCHANGED <<now, loop>>
  BY <1>1 DEF Get, Del, PTTL
<1>2. ASSUME NEW k \in Keys, NEW s \in Strings, Set(k, s) PROVE UNCHANGED <<now, loop>>
  BY <1>2 DEF Set
<1>3. ASSUME NEW k \in Keys, NEW n \in Names, ZRem(k, n) \/ ZScore(k, n)
      PROVE  UNCHANGED <<now, loop>>
  BY <1>3 DEF ZRem, ZScore
<1>4. ASSUME NEW k \in Keys, NEW n \in Names, NEW x \in Scores \cup {NULL}, ZAdd(k, x, n)
      PROVE  UNCHANGED <<now, loop>>
  BY <1>4 DEF ZAdd
<1>5. ASSUME NEW k \in Keys, NEW ttl \in TTLs \cup {NULL}, PExpire(k, ttl)
      PROVE  UNCHANGED <<now, loop>>
  BY <1>5 DEF PExpire
<1>6. ListKeys => UNCHANGED <<now, loop>>
  BY DEF ListKeys
<1>7. ASSUME NEW k \in Keys, NEW x, NEW n, NEW offset, NEW limit, ZQuery(k, x, n, offset, limit)
      PROVE  UNCHANGED <<now, loop>>
  BY <1>7 DEF ZQuery
<1> QED
  BY <1>1, <1>2, <1>3, <1>4, <1>5, <1>6, <1>7 DEF Command

LEMMA ExpireLoop == ASSUME LoopType, NEW e \in Entries, ExpireKey(e) PROVE LoopType'
BY KeyspaceAssumption DEF ExpireKey, Return, LoopType

-----------------------------------------------------------------------------
LEMMA InitIInv == Init => IInv
<1> SUFFICES ASSUME Init PROVE IInv
  OBVIOUS
<1>1. TypeOK
  BY KeyspaceAssumption DEF Init, TypeOK, Pool!TPInit
<1>2. Lifetime
  BY DEF Init, Pool!TPInit, Lifetime, DbSound, TimersSound, PoolSound, NoLeak,
         Doomed, Queued, InHand, Indexed
<1> QED
  BY <1>1, <1>2 DEF IInv

LEMMA ChangeIInv == ASSUME IInv, Change, LoopType' PROVE IInv'
<1>1. Lifetime'
  BY StutterLifetime, OverwriteLifetime, CreateLifetime, RetimeLifetime, RemoveLifetime
     DEF Change, IInv
<1>2. TypeOK'
  BY ChangeType DEF TypeOK, DataType, LoopType
<1> QED
  BY <1>1, <1>2 DEF IInv

LEMMA StepIInv == IInv /\ [Next]_vars => IInv'
<1> SUFFICES ASSUME IInv, [Next]_vars PROVE IInv'
  OBVIOUS
<1>1. LoopType
  BY TypeSplit DEF IInv
<1>2. CASE Command
  <2>1. LoopType'
    BY <1>1, <1>2, CommandLoop DEF LoopType, loop
  <2> QED
    BY <1>2, <2>1, CommandChange, ChangeIInv
<1>3. CASE BeginTimers
  <2>1. LoopType' /\ UNCHANGED data
    BY <1>1, <1>3, KeyspaceAssumption DEF BeginTimers, LoopType, data
  <2> QED
    BY <2>1, ChangeIInv DEF Change
<1>4. CASE EndTimers
  <2>1. LoopType' /\ UNCHANGED data
    BY <1>1, <1>4, KeyspaceAssumption DEF EndTimers, Return, LoopType, data
  <2> QED
    BY <2>1, ChangeIInv DEF Change
<1>5. ASSUME NEW e \in Entries, ExpireKey(e) PROVE IInv'
  BY <1>1, <1>5, ExpireChange, ExpireLoop, ChangeIInv
<1>6. CASE Tick
  <2>1. LoopType' /\ UNCHANGED data
    BY <1>1, <1>6 DEF Tick, LoopType, loop, data
  <2> QED
    BY <2>1, ChangeIInv DEF Change
<1>7. ASSUME NEW w \in Workers, Worker(w) PROVE IInv'
  <2>1. LoopType'
    BY <1>1, <1>7 DEF Worker, WorkerTake, WorkerFree, LoopType, loop
  <2>2. TypeOK'
    BY <1>7, <2>1, WorkerType DEF TypeOK, DataType, LoopType
  <2>3. Lifetime'
    BY <1>7, TakeLifetime, FreeLifetime DEF Worker
  <2> QED
    BY <2>2, <2>3 DEF IInv
<1>8. CASE UNCHANGED vars
  <2>1. LoopType' /\ UNCHANGED data
    BY <1>1, <1>8 DEF vars, LoopType, data, pool
  <2> QED
    BY <2>1, ChangeIInv DEF Change
<1> QED
  BY <1>2, <1>3, <1>4, <1>5, <1>6, <1>7, <1>8 DEF Next, Timers

LEMMA Invariant == Spec => []IInv
BY InitIInv, StepIInv, PTL DEF Spec

(* Whatever clients and timers do, in whatever order: the table, the memory, *)
(* the heap and the pool hold what they are meant to hold.                   *)
THEOREM TypeCorrect == Spec => []TypeOK
<1>1. IInv => TypeOK
  BY DEF IInv
<1> QED
  BY <1>1, Invariant, PTL

(* A lookup never returns freed memory, the wrong key's entry, or one that a *)
(* worker is about to delete.                                                *)
THEOREM TableSound == Spec => []DbSound
<1>1. IInv => DbSound
  BY DEF IInv, Lifetime
<1> QED
  BY <1>1, Invariant, PTL

(* assert(node == &ent->node) of process_timers: the heap points to entries  *)
(* of the table only, so hm_delete finds the very node it is asked for.      *)
THEOREM HeapPointsToLive == Spec => []TimersSound
<1>1. IInv => TimersSound
  BY DEF IInv, Lifetime
<1> QED
  BY <1>1, Invariant, PTL

(* entry_del_func deletes what is allocated, and deletes it once.            *)
THEOREM NoDoubleDelete == Spec => []PoolSound
<1>1. IInv => PoolSound
  BY DEF IInv, Lifetime
<1> QED
  BY <1>1, Invariant, PTL

(* del, expiry and the workers lose no memory.                               *)
THEOREM NothingLeaks == Spec => []NoLeak
<1>1. IInv => NoLeak
  BY DEF IInv, Lifetime
<1> QED
  BY <1>1, Invariant, PTL
-----------------------------------------------------------------------------
(* What clients see.  First how kvStore and kvExpires follow from the table  *)
(* and the memory, and what each change does to them.                        *)
LEMMA ViewOfKey ==
    ASSUME IInv, NEW k \in Keys
    PROVE  /\ kvStore[k] = NULL <=> db[k] = NULL
           /\ db[k] = NULL => kvExpires[k] = NoTTL
           /\ db[k] # NULL =>
                 /\ db[k] \in Entries /\ mem[db[k]] \in Entry
                 /\ kvStore[k] = [type |-> mem[db[k]].type,
                                  val |-> IF mem[db[k]].type = "T_STR"
                                          THEN mem[db[k]].str ELSE mem[db[k]].zset]
                 /\ kvExpires[k] = deadline[db[k]]
<1>1. CASE db[k] = NULL
  BY <1>1 DEF kvStore, kvExpires, Value
<1>2. CASE db[k] # NULL
  <2>1. db[k] \in Entries /\ mem[db[k]] \in Entry
    BY <1>2 DEF IInv, TypeOK, Lifetime, DbSound
  <2>2. /\ kvStore[k] = [type |-> mem[db[k]].type,
                         val |-> IF mem[db[k]].type = "T_STR"
                                 THEN mem[db[k]].str ELSE mem[db[k]].zset]
        /\ kvExpires[k] = deadline[db[k]]
    BY <1>2 DEF kvStore, kvExpires, Value
  <2>3. /\ mem[db[k]].type \in {"T_STR", "T_ZSET"}
        /\ mem[db[k]].str \in Strings \cup {NULL}
        /\ mem[db[k]].zset \in [Names -> Scores \cup {NULL}]
    BY <2>1 DEF Entry
  <2>4. kvStore[k] # NULL
    BY <2>2, <2>3, KeyspaceAssumption
  <2> QED
    BY <1>2, <2>1, <2>2, <2>4
<1> QED
  BY <1>1, <1>2

LEMMA ViewOfType ==
    ASSUME IInv, NEW k \in Keys
    PROVE  /\ IsType(k, "T_STR") <=> KV!IsStr(k)
           /\ IsType(k, "T_ZSET") <=> KV!IsZSet(k)
           /\ db[k] # NULL => (~IsType(k, "T_STR") <=> IsType(k, "T_ZSET"))
           /\ IsType(k, "T_STR") => kvStore[k].val = mem[db[k]].str
           /\ ~IsType(k, "T_STR") => KV!ZSetOf(k) = expect_zset(k)
<1>1. CASE db[k] = NULL
  <2>1. kvStore[k] = NULL
    BY <1>1, ViewOfKey
  <2> QED
    BY <1>1, <2>1 DEF IsType, expect_zset, k_empty_zset, KV!IsStr, KV!IsZSet,
                      KV!ZSetOf, KV!NoNames
<1>2. CASE db[k] # NULL
  <2>1. /\ kvStore[k] # NULL
        /\ mem[db[k]].type \in {"T_STR", "T_ZSET"}
        /\ kvStore[k].type = mem[db[k]].type
        /\ kvStore[k].val = IF mem[db[k]].type = "T_STR"
                            THEN mem[db[k]].str ELSE mem[db[k]].zset
    <3>1. /\ mem[db[k]] \in Entry
          /\ kvStore[k] # NULL
          /\ kvStore[k] = [type |-> mem[db[k]].type,
                           val |-> IF mem[db[k]].type = "T_STR"
                                   THEN mem[db[k]].str ELSE mem[db[k]].zset]
      BY <1>2, ViewOfKey
    <3>2. mem[db[k]].type \in {"T_STR", "T_ZSET"}
      BY <3>1 DEF Entry
    <3> QED
      BY <3>1, <3>2
  <2> QED
    BY <1>2, <2>1 DEF IsType, expect_zset, KV!IsStr, KV!IsZSet, KV!ZSetOf
<1> QED
  BY <1>1, <1>2

LEMMA ViewFunction ==
    /\ kvStore = [k \in Keys |-> kvStore[k]]
    /\ kvExpires = [k \in Keys |-> kvExpires[k]]
BY DEF kvStore, kvExpires

LEMMA SameView == UNCHANGED <<db, mem, deadline>> => UNCHANGED <<kvStore, kvExpires>>
BY DEF kvStore, kvExpires, Value

(* set, zadd and zrem: the key gets a value, in a new entry or in its old one*)
(* An Entry r is stored at e under the key k, in place or as a new one.      *)
Stored(k, e, r) ==
    /\ \/ db[k] = e /\ db' = db
       \/ db[k] = NULL /\ mem[e] = NULL /\ db' = [db EXCEPT ![k] = e]
    /\ mem' = [mem EXCEPT ![e] = r]
    /\ UNCHANGED deadline

LEMMA PutView ==
    ASSUME IInv, NEW k \in Keys, NEW e \in Entries, NEW r \in Entry, Stored(k, e, r)
    PROVE  /\ kvStore' = [kvStore EXCEPT ![k] =
                 [type |-> r.type, val |-> IF r.type = "T_STR" THEN r.str ELSE r.zset]]
           /\ UNCHANGED kvExpires
<1>0. /\ \/ db[k] = e /\ db' = db
         \/ db[k] = NULL /\ mem[e] = NULL /\ db' = [db EXCEPT ![k] = e]
      /\ mem' = [mem EXCEPT ![e] = r]
      /\ UNCHANGED deadline
  BY DEF Stored
<1>1. e # NULL /\ mem'[e] = r /\ \A f \in Entries : f # e => mem'[f] = mem[f]
  BY <1>0, KeyspaceAssumption DEF IInv, TypeOK
<1>2. db'[k] = e /\ \A l \in Keys : l # k => db'[l] = db[l]
  BY <1>0 DEF IInv, TypeOK
<1>3. \A l \in Keys : l # k /\ db[l] # NULL => db[l] # e /\ db[l] \in Entries
  BY <1>0, <1>1 DEF IInv, TypeOK, Lifetime, DbSound
<1>4. \A l \in Keys : l # k => Value(l)' = Value(l)
  BY <1>1, <1>2, <1>3 DEF Value
<1>5. Value(k)' = [type |-> r.type, val |-> IF r.type = "T_STR" THEN r.str ELSE r.zset]
  BY <1>1, <1>2 DEF Value
<1>6. kvStore' = [kvStore EXCEPT ![k] =
                    [type |-> r.type, val |-> IF r.type = "T_STR" THEN r.str ELSE r.zset]]
  BY <1>4, <1>5 DEF kvStore
<1>7. db[k] = NULL => deadline[e] = NoTTL
  <2>1. CASE db[k] = NULL
    <3>1. mem[e] = NULL
      BY <1>0, <1>1, <2>1
    <3> QED
      BY <3>1 DEF IInv, Lifetime, TimersSound
  <2> QED
    BY <2>1
<1>8. kvExpires' = kvExpires
  BY <1>0, <1>1, <1>2, <1>3, <1>7 DEF kvExpires
<1> QED
  BY <1>6, <1>8

LEMMA PutStr ==
    ASSUME IInv, NEW k \in Keys, NEW e \in Entries, NEW r \in Entry, Stored(k, e, r),
           NEW s, r.type = "T_STR", r.str = s
    PROVE  kvStore' = [kvStore EXCEPT ![k] = KV!Str(s)] /\ UNCHANGED kvExpires
<1>1. [type |-> r.type, val |-> IF r.type = "T_STR" THEN r.str ELSE r.zset] = KV!Str(s)
  BY DEF KV!Str
<1> QED
  BY <1>1, PutView

LEMMA PutMembers ==
    ASSUME IInv, NEW k \in Keys, NEW e \in Entries, NEW r \in Entry, Stored(k, e, r),
           NEW z, r.type = "T_ZSET", r.zset = z
    PROVE  kvStore' = [kvStore EXCEPT ![k] = KV!ZSet(z)] /\ UNCHANGED kvExpires
<1>1. [type |-> r.type, val |-> IF r.type = "T_STR" THEN r.str ELSE r.zset] = KV!ZSet(z)
  BY DEF KV!ZSet
<1> QED
  BY <1>1, PutView

(* del and expiry.                                                           *)
LEMMA RemoveView ==
    ASSUME IInv, NEW k \in Keys, RemoveKey(k)
    PROVE  /\ kvStore' = [kvStore EXCEPT ![k] = NULL]
           /\ kvExpires' = [kvExpires EXCEPT ![k] = NoTTL]
<1>1. db[k] \in Entries /\ db[k] # NULL
  BY DEF IInv, TypeOK, RemoveKey
<1>2. db'[k] = NULL /\ \A l \in Keys : l # k => db'[l] = db[l]
  BY DEF IInv, TypeOK, RemoveKey
<1>3. \A l \in Keys : l # k /\ db[l] # NULL => db[l] # db[k] /\ db[l] \in Entries
  BY <1>1 DEF IInv, TypeOK, Lifetime, DbSound
<1>4. \A f \in Entries : f # db[k] => mem'[f] = mem[f] /\ deadline'[f] = deadline[f]
  BY <1>1 DEF IInv, TypeOK, RemoveKey, Dispose
<1>5. \A l \in Keys : l # k => Value(l)' = Value(l)
  BY <1>2, <1>3, <1>4 DEF Value
<1>6. Value(k)' = NULL
  BY <1>2 DEF Value
<1> QED
  BY <1>2, <1>3, <1>4, <1>5, <1>6 DEF kvStore, kvExpires

(* pexpire: one key's instant, since no two keys share an entry.             *)
LEMMA RetimeView ==
    ASSUME IInv, NEW k \in Keys, db[k] # NULL, NEW d,
           deadline' = [deadline EXCEPT ![db[k]] = d], UNCHANGED <<db, mem>>
    PROVE  /\ UNCHANGED kvStore
           /\ kvExpires' = [kvExpires EXCEPT ![k] = d]
<1>1. db[k] \in Entries
  BY DEF IInv, TypeOK
<1>2. deadline'[db[k]] = d /\ \A f \in Entries : f # db[k] => deadline'[f] = deadline[f]
  BY <1>1 DEF IInv, TypeOK
<1>3. \A l \in Keys : l # k /\ db[l] # NULL => db[l] # db[k] /\ db[l] \in Entries
  BY <1>1 DEF IInv, TypeOK, Lifetime, DbSound
<1>4. UNCHANGED kvStore
  BY DEF kvStore, Value
<1> QED
  BY <1>2, <1>3, <1>4 DEF kvExpires

(* A worker frees only what no key refers to.                                *)
LEMMA WorkerView ==
    ASSUME IInv, NEW w \in Workers, Worker(w)
    PROVE  UNCHANGED <<kvStore, kvExpires, now, request, reply>>
<1>1. CASE WorkerTake(w)
  BY <1>1, SameView DEF WorkerTake, io
<1>2. CASE WorkerFree(w)
  <2>1. /\ task[w] # NULL /\ mem' = [mem EXCEPT ![task[w]] = NULL]
        /\ UNCHANGED <<db, deadline, now, request, reply>>
    BY <1>2 DEF WorkerFree, Pool!Finish, io
  <2>2. task[w] \in Doomed /\ task[w] \in Entries
    BY <2>1 DEF IInv, TypeOK, Doomed, InHand
  <2>3. \A k \in Keys : db[k] # NULL => db[k] \in Entries /\ db[k] # task[w]
    BY <2>2 DEF IInv, TypeOK, Lifetime, DbSound
  <2>4. \A f \in Entries : f # task[w] => mem'[f] = mem[f]
    BY <2>1, <2>2 DEF IInv, TypeOK
  <2>5. \A k \in Keys : Value(k)' = Value(k)
    BY <2>1, <2>3, <2>4 DEF Value
  <2> QED
    BY <2>1, <2>5 DEF kvStore, kvExpires
<1> QED
  BY <1>1, <1>2 DEF Worker
-----------------------------------------------------------------------------
(* Each command is the dictionary's command of the same name.                *)
USE DEF out_nil, out_str, out_int, out_dbl, out_err, out_arr,
        KV!out_nil, KV!out_str, KV!out_int, KV!out_dbl, KV!out_err, KV!out_arr

(* KVStore lists and pages as Keyspace does.                                 *)
LEMMA SameListings == ASSUME NEW S PROVE KV!Listings(S) = Listings(S)
BY DEF Listings, KV!Listings, SetToSeqs, KV!SetToSeqs, Cardinality, KV!Cardinality

LEMMA SamePage ==
    ASSUME NEW z, NEW x, NEW n, NEW offset, NEW limit
    PROVE  /\ KV!Members(z, NULL) = Members(z, NULL)
           /\ KV!Page(z, x, n, offset, limit) = Page(z, x, n, offset, limit)
           /\ KV!out_tuples(z, n) = out_tuples(z, n)
<1>1. KV!Members(z, NULL) = Members(z, NULL)
  BY DEF Members, KV!Members
<1>2. KV!Page(z, x, n, offset, limit) = Page(z, x, n, offset, limit)
  BY DEF Page, KV!Page, Rank, KV!Rank, Below, KV!Below, Before, KV!Before,
         Cardinality, KV!Cardinality
<1>3. KV!out_tuples(z, n) = out_tuples(z, n)
  BY DEF out_tuples, KV!out_tuples
<1> QED
  BY <1>1, <1>2, <1>3

LEMMA AnswerView == ASSUME NEW r, Answer(r) PROVE KV!Answer(r)
BY SameView DEF Answer, KV!Answer

LEMMA GetView == ASSUME IInv, NEW k \in Keys, Get(k) PROVE KV!Get(k)
<1>1. CASE db[k] = NULL /\ Answer(out_nil)
  BY <1>1, ViewOfKey, AnswerView DEF KV!Get
<1>2. CASE db[k] # NULL /\ ~IsType(k, "T_STR") /\ Answer(out_err("ERR_BAD_TYP"))
  BY <1>2, ViewOfType, AnswerView DEF KV!Get
<1>3. CASE IsType(k, "T_STR") /\ Answer(out_str(mem[db[k]].str))
  <2>1. KV!IsStr(k) /\ Answer(out_str(kvStore[k].val))
    BY <1>3, ViewOfType
  <2> QED
    BY <2>1, AnswerView DEF KV!Get
<1> QED
  BY <1>1, <1>2, <1>3 DEF Get

LEMMA ListView == ASSUME IInv, ListKeys PROVE KV!ListKeys
<1>1. {k \in Keys : db[k] # NULL} = {k \in Keys : kvStore[k] # NULL}
  BY ViewOfKey
<1> QED
  BY <1>1, SameListings, AnswerView DEF ListKeys, KV!ListKeys

LEMMA ScoreView ==
    ASSUME IInv, NEW k \in Keys, NEW n \in Names, ZScore(k, n)
    PROVE  KV!ZScore(k, n)
<1>1. CASE db[k] # NULL /\ ~IsType(k, "T_ZSET") /\ Answer(out_err("ERR_BAD_TYP"))
  BY <1>1, ViewOfType, AnswerView DEF KV!ZScore
<1>2. CASE /\ db[k] = NULL \/ IsType(k, "T_ZSET")
           /\ Answer(IF expect_zset(k)[n] = NULL THEN out_nil ELSE out_dbl(expect_zset(k)[n]))
  <2>1. ~IsType(k, "T_STR")
    BY <1>2 DEF IsType
  <2>2. ~KV!IsStr(k) /\ KV!ZSetOf(k) = expect_zset(k)
    BY <2>1, ViewOfType
  <2> QED
    BY <1>2, <2>2, AnswerView DEF KV!ZScore
<1> QED
  BY <1>1, <1>2 DEF ZScore

LEMMA QueryView ==
    ASSUME IInv, NEW k \in Keys, NEW x, NEW n, NEW offset, NEW limit,
           ZQuery(k, x, n, offset, limit)
    PROVE  KV!ZQuery(k, x, n, offset, limit)
<1> DEFINE z == Members(expect_zset(k), NULL)
           page == out_tuples(z, Page(z, x, n, offset, limit))
<1>1. CASE NULL \in {x, offset, limit} /\ Answer(out_err("ERR_BAD_ARG"))
  BY <1>1, AnswerView DEF KV!ZQuery
<1>2. CASE /\ NULL \notin {x, offset, limit} /\ db[k] # NULL /\ ~IsType(k, "T_ZSET")
           /\ Answer(out_err("ERR_BAD_TYP"))
  BY <1>2, ViewOfType, AnswerView DEF KV!ZQuery
<1>3. CASE /\ NULL \notin {x, offset, limit}
           /\ db[k] = NULL \/ IsType(k, "T_ZSET")
           /\ Answer(page)
  <2>1. ~IsType(k, "T_STR")
    BY <1>3 DEF IsType
  <2>2. ~KV!IsStr(k) /\ KV!ZSetOf(k) = expect_zset(k)
    BY <2>1, ViewOfType
  <2>3. KV!Answer(page)
    BY <1>3, AnswerView
  <2> QED
    <3> DEFINE m == KV!Members(KV!ZSetOf(k), NULL)
    <3>1. KV!out_tuples(m, KV!Page(m, x, n, offset, limit)) = page
      BY <2>2, SamePage
    <3>2. KV!Answer(KV!out_tuples(m, KV!Page(m, x, n, offset, limit)))
      <4> HIDE DEF m, page
      <4> QED
        BY <2>3, <3>1
    <3> QED
      BY <1>3, <2>2, <3>2, Zenon DEF KV!ZQuery
<1> QED
  BY <1>1, <1>2, <1>3 DEF ZQuery

LEMMA PTTLView == ASSUME IInv, NEW k \in Keys, PTTL(k) PROVE KV!PTTL(k)
<1>1. CASE db[k] = NULL /\ Answer(out_int(-2))
  BY <1>1, ViewOfKey, AnswerView DEF KV!PTTL
<1>2. CASE db[k] # NULL /\ deadline[db[k]] = NoTTL /\ Answer(out_int(-1))
  BY <1>2, ViewOfKey, AnswerView DEF KV!PTTL, KV!NoTTL, NoTTL, TQ!NoTTL
<1>3. CASE /\ db[k] # NULL /\ deadline[db[k]] # NoTTL
           /\ Answer(out_int(IF deadline[db[k]] > now THEN deadline[db[k]] - now ELSE 0))
  <2>1. kvStore[k] # NULL /\ kvExpires[k] = deadline[db[k]]
    BY <1>3, ViewOfKey
  <2>2. kvExpires[k] # KV!NoTTL
    BY <1>3, <2>1 DEF KV!NoTTL, NoTTL, TQ!NoTTL
  <2> QED
    BY <1>3, <2>1, <2>2, AnswerView DEF KV!PTTL
<1> QED
  BY <1>1, <1>2, <1>3 DEF PTTL

LEMMA DelView == ASSUME IInv, NEW k \in Keys, Del(k) PROVE KV!Del(k)
<1>1. CASE db[k] = NULL /\ Answer(out_int(0))
  BY <1>1, ViewOfKey, AnswerView DEF KV!Del
<1>2. CASE /\ db[k] # NULL /\ db' = [db EXCEPT ![k] = NULL] /\ entry_del(db[k])
           /\ reply' = out_int(1) /\ UNCHANGED <<now, loop>>
  <2>1. db[k] \in Entries
    BY <1>2 DEF IInv, TypeOK
  <2>2. RemoveKey(k)
    BY <1>2, <2>1, ClearIsRetime DEF entry_del, IInv, RemoveKey
  <2>3. kvStore[k] # NULL
    BY <1>2, ViewOfKey
  <2>4. NoTTL = KV!NoTTL
    BY DEF KV!NoTTL, NoTTL, TQ!NoTTL
  <2> QED
    BY <1>2, <2>2, <2>3, <2>4, RemoveView DEF KV!Del
<1> QED
  BY <1>1, <1>2 DEF Del

LEMMA PExpireView ==
    ASSUME IInv, NEW k \in Keys, NEW ttl \in TTLs \cup {NULL}, PExpire(k, ttl)
    PROVE  KV!PExpire(k, ttl)
<1>1. CASE ttl = NULL /\ Answer(out_err("ERR_BAD_ARG"))
  BY <1>1, AnswerView DEF KV!PExpire
<1>2. CASE ttl # NULL /\ db[k] = NULL /\ Answer(out_int(0))
  BY <1>2, ViewOfKey, AnswerView DEF KV!PExpire
<1>3. CASE /\ ttl # NULL /\ db[k] # NULL /\ entry_set_ttl(db[k], ttl)
           /\ reply' = out_int(1) /\ UNCHANGED <<db, mem, pool, now, loop>>
  <2>1. db[k] \in Entries /\ kvStore[k] # NULL /\ ttl \in Int
    BY <1>3, ViewOfKey, KeyspaceAssumption
  <2>2. deadline' = [deadline EXCEPT ![db[k]] = IF ttl < 0 THEN KV!NoTTL ELSE now + ttl]
    <3>1. CASE ttl < 0 /\ ClearTTL(db[k])
      BY <2>1, <3>1, ClearIsRetime DEF IInv, KV!NoTTL, NoTTL, TQ!NoTTL
    <3>2. CASE ttl >= 0 /\ TQ!Arm(db[k], now + ttl)
      <4>1. ~(ttl < 0)
        BY <2>1, <3>2
      <4> QED
        BY <3>2, <4>1 DEF TQ!Arm
    <3> QED
      BY <1>3, <3>1, <3>2 DEF entry_set_ttl
  <2>3. /\ UNCHANGED kvStore
        /\ kvExpires' = [kvExpires EXCEPT ![k] = IF ttl < 0 THEN KV!NoTTL ELSE now + ttl]
    BY <1>3, <2>2, RetimeView
  <2> QED
    BY <1>3, <2>1, <2>3 DEF KV!PExpire
<1> QED
  BY <1>1, <1>2, <1>3 DEF PExpire
LEMMA SetView == ASSUME IInv, NEW k \in Keys, NEW s \in Strings, Set(k, s) PROVE KV!Set(k, s)
<1>1. CASE db[k] # NULL /\ ~IsType(k, "T_STR") /\ Answer(out_err("ERR_BAD_TYP"))
  BY <1>1, ViewOfType, AnswerView DEF KV!Set
<1>2. CASE IsType(k, "T_STR") /\ mem' = [mem EXCEPT ![db[k]].str = s] /\ reply' = out_nil
           /\ UNCHANGED <<db, deadline, pool, now, loop>>
  <2>1. db[k] # NULL /\ db[k] \in Entries /\ mem[db[k]] \in Entry /\ mem[db[k]].type = "T_STR"
    BY <1>2, ViewOfKey DEF IsType
  <2> DEFINE r == [mem[db[k]] EXCEPT !.str = s]
  <2>2. r \in Entry /\ r.type = "T_STR" /\ r.str = s
    BY <2>1 DEF Entry
  <2>3. mem' = [mem EXCEPT ![db[k]] = r]
    BY <1>2
  <2> HIDE DEF r
  <2>4. kvStore' = [kvStore EXCEPT ![k] = KV!Str(s)] /\ UNCHANGED kvExpires
    <3>1. Stored(k, db[k], r)
      BY <1>2, <2>3 DEF Stored
    <3> QED
      BY <2>1, <2>2, <3>1, PutStr
  <2>5. ~KV!IsZSet(k)
    BY <2>1, ViewOfType DEF IsType
  <2> QED
    BY <1>2, <2>4, <2>5 DEF KV!Set, KV!Put
<1>3. CASE db[k] = NULL /\ Insert(k, "T_STR", s, k_empty_zset) /\ reply' = out_nil
           /\ UNCHANGED <<deadline, pool, now, loop>>
  <2>1. PICK e \in Entries, r \in Entry :
          /\ mem[e] = NULL /\ r.type = "T_STR" /\ r.str = s
          /\ mem' = [mem EXCEPT ![e] = r] /\ db' = [db EXCEPT ![k] = e]
    BY <1>3 DEF Insert, Entry, k_empty_zset
  <2>2. kvStore' = [kvStore EXCEPT ![k] = KV!Str(s)] /\ UNCHANGED kvExpires
    <3>1. Stored(k, e, r)
      BY <1>3, <2>1 DEF Stored
    <3> QED
      BY <2>1, <3>1, PutStr
  <2>3. ~KV!IsZSet(k)
    BY <1>3, ViewOfType DEF IsType
  <2> QED
    BY <1>3, <2>2, <2>3 DEF KV!Set, KV!Put
<1> QED
  BY <1>1, <1>2, <1>3 DEF Set

(* A sorted set is written: the members of the key change as the code says.  *)
LEMMA PutZSet ==
    ASSUME IInv, NEW k \in Keys, NEW z \in [Names -> Scores \cup {NULL}], NEW n,
           IsType(k, "T_ZSET"),
           mem' = [mem EXCEPT ![db[k]] = [mem[db[k]] EXCEPT !.zset = z]],
           reply' = out_int(n), UNCHANGED <<db, deadline, now>>
    PROVE  KV!Put(k, KV!ZSet(z), out_int(n))
<1>1. db[k] # NULL /\ db[k] \in Entries /\ mem[db[k]] \in Entry /\ mem[db[k]].type = "T_ZSET"
  BY ViewOfKey DEF IsType
<1> DEFINE r == [mem[db[k]] EXCEPT !.zset = z]
<1>2. r \in Entry /\ r.type = "T_ZSET" /\ r.zset = z
  BY <1>1 DEF Entry
<1>3. kvStore' = [kvStore EXCEPT ![k] = KV!ZSet(z)] /\ UNCHANGED kvExpires
  <2> HIDE DEF r
  <2>1. Stored(k, db[k], r)
    BY DEF r, Stored
  <2> QED
    BY <1>1, <1>2, <2>1, PutMembers
<1> QED
  BY <1>3 DEF KV!Put

LEMMA AddView ==
    ASSUME IInv, NEW k \in Keys, NEW x \in Scores \cup {NULL}, NEW n \in Names, ZAdd(k, x, n)
    PROVE  KV!ZAdd(k, x, n)
<1>1. CASE x = NULL /\ Answer(out_err("ERR_BAD_ARG"))
  BY <1>1, AnswerView DEF KV!ZAdd
<1>2. CASE x # NULL /\ db[k] # NULL /\ ~IsType(k, "T_ZSET") /\ Answer(out_err("ERR_BAD_TYP"))
  BY <1>2, ViewOfType, AnswerView DEF KV!ZAdd
<1>3. CASE /\ x # NULL /\ IsType(k, "T_ZSET")
           /\ mem' = [mem EXCEPT ![db[k]].zset[n] = x]
           /\ reply' = out_int(IF mem[db[k]].zset[n] = NULL THEN 1 ELSE 0)
           /\ UNCHANGED <<db, deadline, pool, now, loop>>
  <2>1. /\ mem[db[k]] \in Entry /\ ~KV!IsStr(k)
        /\ KV!ZSetOf(k) = mem[db[k]].zset
    BY <1>3, ViewOfKey, ViewOfType DEF IsType, expect_zset
  <2>2. [mem[db[k]].zset EXCEPT ![n] = x] \in [Names -> Scores \cup {NULL}]
    BY <2>1 DEF Entry
  <2>3. mem' = [mem EXCEPT ![db[k]] =
                  [mem[db[k]] EXCEPT !.zset = [mem[db[k]].zset EXCEPT ![n] = x]]]
    BY <1>3
  <2>4. KV!Put(k, KV!ZSet([KV!ZSetOf(k) EXCEPT ![n] = x]),
               out_int(IF KV!ZSetOf(k)[n] = NULL THEN 1 ELSE 0))
    BY <1>3, <2>1, <2>2, <2>3, PutZSet
  <2> QED
    BY <1>3, <2>1, <2>4 DEF KV!ZAdd
<1>4. CASE /\ x # NULL /\ db[k] = NULL
           /\ Insert(k, "T_ZSET", NULL, [k_empty_zset EXCEPT ![n] = x])
           /\ reply' = out_int(1)
           /\ UNCHANGED <<deadline, pool, now, loop>>
  <2> DEFINE z == [k_empty_zset EXCEPT ![n] = x]
  <2>1. /\ ~KV!IsStr(k) /\ KV!ZSetOf(k) = k_empty_zset /\ k_empty_zset[n] = NULL
        /\ z \in [Names -> Scores \cup {NULL}]
    BY <1>4, ViewOfType DEF IsType, expect_zset, k_empty_zset
  <2>2. PICK e \in Entries : /\ mem[e] = NULL /\ db' = [db EXCEPT ![k] = e]
                             /\ mem' = [mem EXCEPT ![e] = [key |-> k, type |-> "T_ZSET",
                                                            str |-> NULL, zset |-> z]]
    BY <1>4 DEF Insert
  <2> DEFINE r == [key |-> k, type |-> "T_ZSET", str |-> NULL, zset |-> z]
  <2> HIDE DEF z
  <2>3. r \in Entry /\ r.type = "T_ZSET" /\ r.zset = z
    BY <2>1 DEF Entry
  <2> HIDE DEF r
  <2>4. kvStore' = [kvStore EXCEPT ![k] = KV!ZSet(z)] /\ UNCHANGED kvExpires
    <3>1. Stored(k, e, r)
      BY <1>4, <2>2 DEF r, Stored
    <3> QED
      BY <2>3, <3>1, PutMembers
  <2> QED
    BY <1>4, <2>1, <2>4 DEF KV!ZAdd, KV!Put, z
<1> QED
  BY <1>1, <1>2, <1>3, <1>4 DEF ZAdd

LEMMA RemView ==
    ASSUME IInv, NEW k \in Keys, NEW n \in Names, ZRem(k, n)
    PROVE  KV!ZRem(k, n)
<1>1. CASE db[k] # NULL /\ ~IsType(k, "T_ZSET") /\ Answer(out_err("ERR_BAD_TYP"))
  BY <1>1, ViewOfType, AnswerView DEF KV!ZRem
<1>2. CASE /\ db[k] = NULL \/ IsType(k, "T_ZSET")
           /\ expect_zset(k)[n] = NULL /\ Answer(out_int(0))
  <2>1. ~IsType(k, "T_STR")
    BY <1>2 DEF IsType
  <2>2. ~KV!IsStr(k) /\ KV!ZSetOf(k) = expect_zset(k)
    BY <2>1, ViewOfType
  <2> QED
    BY <1>2, <2>2, AnswerView DEF KV!ZRem
<1>3. CASE /\ IsType(k, "T_ZSET") /\ expect_zset(k)[n] # NULL
           /\ mem' = [mem EXCEPT ![db[k]].zset[n] = NULL]
           /\ reply' = out_int(1)
           /\ UNCHANGED <<db, deadline, pool, now, loop>>
  <2>1. /\ mem[db[k]] \in Entry /\ ~KV!IsStr(k)
        /\ KV!ZSetOf(k) = mem[db[k]].zset /\ KV!ZSetOf(k)[n] # NULL
    BY <1>3, ViewOfKey, ViewOfType DEF IsType, expect_zset
  <2>2. [mem[db[k]].zset EXCEPT ![n] = NULL] \in [Names -> Scores \cup {NULL}]
    BY <2>1 DEF Entry
  <2>3. mem' = [mem EXCEPT ![db[k]] =
                  [mem[db[k]] EXCEPT !.zset = [mem[db[k]].zset EXCEPT ![n] = NULL]]]
    BY <1>3
  <2>4. KV!Put(k, KV!ZSet([KV!ZSetOf(k) EXCEPT ![n] = NULL]), out_int(1))
    BY <1>3, <2>1, <2>2, <2>3, PutZSet
  <2> QED
    BY <2>1, <2>4 DEF KV!ZRem
<1> QED
  BY <1>1, <1>2, <1>3 DEF ZRem

LEMMA CommandView == IInv /\ Command => KV!KVCommand
BY GetView, ListView, ScoreView, QueryView, PTTLView, DelView, PExpireView, SetView, AddView, RemView
   DEF Command, KV!KVCommand
(* The snapshot of the clock in process_timers is never ahead of the clock.  *)
ClockInv == now_ms <= now

LEMMA ExpireView ==
    ASSUME IInv, ClockInv, NEW e \in Entries, ExpireKey(e)
    PROVE  KV!Evict(mem[e].key) /\ mem[e].key \in Keys
<1> DEFINE k == mem[e].key
<1>1. /\ deadline[e] # NoTTL /\ deadline[e] < now_ms
      /\ deadline' = [deadline EXCEPT ![e] = NoTTL]
      /\ db' = Unlink(e) /\ Dispose(e) /\ UNCHANGED <<now, request, reply>>
  BY DEF ExpireKey, TQ!Fire, TQ!Disarm, NoTTL, io
<1>2. mem[e] # NULL /\ db[k] = e /\ e # NULL
  BY <1>1, KeyspaceAssumption DEF IInv, Lifetime, TimersSound
<1>3. k \in Keys
  BY <1>2 DEF IInv, TypeOK, Entry
<1>4. RemoveKey(k)
  <2>1. db' = [db EXCEPT ![k] = NULL]
    BY <1>1, <1>2 DEF Unlink
  <2> QED
    BY <1>1, <1>2, <2>1 DEF RemoveKey
<1>5. kvExpires[k] = deadline[e]
  BY <1>2, <1>3, ViewOfKey
<1>6. deadline[e] < now
  <2>1. deadline[e] \in Times /\ now \in Times /\ now_ms \in Times
    BY <1>1 DEF IInv, TypeOK
  <2>2. \A t \in Times : t \in Int
    BY KeyspaceAssumption
  <2>3. deadline[e] \in Int /\ now \in Int /\ now_ms \in Int
    BY <2>1, <2>2
  <2>4. deadline[e] < now_ms /\ now_ms <= now
    BY <1>1 DEF ClockInv
  <2> QED
    BY <2>3, <2>4
<1>7. NoTTL = KV!NoTTL
  BY DEF KV!NoTTL, NoTTL, TQ!NoTTL
<1>8. kvStore' = [kvStore EXCEPT ![k] = NULL] /\ kvExpires' = [kvExpires EXCEPT ![k] = NoTTL]
  BY <1>3, <1>4, RemoveView
<1> QED
  BY <1>1, <1>3, <1>5, <1>6, <1>7, <1>8 DEF KV!Evict

LEMMA StepClockInv == IInv /\ ClockInv /\ [Next]_vars => ClockInv'
<1> SUFFICES ASSUME IInv, ClockInv, [Next]_vars PROVE ClockInv'
  OBVIOUS
<1>1. now \in Nat /\ now_ms \in Nat
  BY KeyspaceAssumption DEF IInv, TypeOK
<1>2. CASE Command
  BY <1>2, CommandLoop DEF ClockInv, loop
<1>3. CASE BeginTimers
  BY <1>1, <1>3 DEF BeginTimers, ClockInv
<1>4. CASE EndTimers
  BY <1>1, <1>4 DEF EndTimers, Return, ClockInv
<1>5. ASSUME NEW e \in Entries, ExpireKey(e) PROVE ClockInv'
  BY <1>1, <1>5 DEF ExpireKey, Return, ClockInv
<1>6. CASE Tick
  BY <1>1, <1>6 DEF Tick, ClockInv, loop
<1>7. ASSUME NEW w \in Workers, Worker(w) PROVE ClockInv'
  BY <1>7 DEF Worker, WorkerTake, WorkerFree, ClockInv, loop
<1>8. CASE UNCHANGED vars
  BY <1>8 DEF vars, ClockInv
<1> QED
  BY <1>2, <1>3, <1>4, <1>5, <1>6, <1>7, <1>8 DEF Next, Timers

(* Clients see a dictionary: entries that share, outlive or lose their       *)
(* addresses, batches of expiry and the workers are invisible to them, and   *)
(* every response is the one the dictionary gives to the same request.       *)
THEOREM KeyspaceRefinesKVStore == Spec => ImplementsKVStore
<1>1. Init => KV!KVInit
  <2> SUFFICES ASSUME Init PROVE KV!KVInit
    OBVIOUS
  <2>1. kvStore = [k \in Keys |-> NULL] /\ kvExpires = [k \in Keys |-> KV!NoTTL]
    BY DEF Init, kvStore, kvExpires, Value, KV!NoTTL, NoTTL, TQ!NoTTL
  <2> QED
    BY <2>1 DEF Init, KV!KVInit
<1>2. Init => ClockInv
  BY DEF Init, ClockInv
<1>3. IInv /\ ClockInv /\ [Next]_vars => [KV!KVNext]_(KV!kvVars)
  <2> SUFFICES ASSUME IInv, ClockInv, [Next]_vars PROVE [KV!KVNext]_(KV!kvVars)
    OBVIOUS
  <2>1. CASE Command
    BY <2>1, CommandView DEF KV!KVNext
  <2>2. CASE BeginTimers \/ EndTimers
    BY <2>2, SameView DEF BeginTimers, EndTimers, io, KV!kvVars
  <2>3. ASSUME NEW e \in Entries, ExpireKey(e) PROVE KV!KVNext
    BY <2>3, ExpireView DEF KV!KVNext
  <2>4. CASE Tick
    BY <2>4, SameView DEF Tick, io, KV!Tick, KV!KVNext
  <2>5. ASSUME NEW w \in Workers, Worker(w) PROVE UNCHANGED KV!kvVars
    BY <2>5, WorkerView DEF KV!kvVars
  <2>6. CASE UNCHANGED vars
    BY <2>6, SameView DEF vars, KV!kvVars
  <2> QED
    BY <2>1, <2>2, <2>3, <2>4, <2>5, <2>6 DEF Next, Timers
<1> QED
  BY <1>1, <1>2, <1>3, StepClockInv, Invariant, PTL DEF Spec, ImplementsKVStore, KV!KVSpec
=============================================================================
