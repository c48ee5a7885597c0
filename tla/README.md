# Greenis in TLA+

Greenis is a small Redis in C++: a single-threaded event loop over `poll()`, a
key-value layer with TTLs and sorted sets, and a pool of threads that frees large
values. This directory models it in TLA+, checks the models with TLC and proves
theorems about them with TLAPS. Paths below are relative to the repository.

`PROJECT.json` lists every run, the lines each definition stands for, the hazards
the properties are aimed at and, for each property, a mutation of the code's model
that breaks it (the `Mut_...` operators in the modules, which nothing else uses).

## 1. The system

| component | source | state | operations |
|---|---|---|---|
| event loop | `server.cpp` | `poll_args`, the timeout | prepare, `poll`, accept, serve each ready connection, timers |
| connections | `lib/server/conn.cpp` | `fd2conn`, per `Conn`: interests, two buffers, time stamp | `handle_accept`, `handle_read`, `handle_write`, `try_one_request`, `conn_destroy` |
| timers | `lib/server/timer.cpp` | `idle_list`, `heap` | `next_timer_ms`, `process_timers` |
| TTL heap | `lib/server/heap.cpp` | array of (deadline, pointer to `Entry::heap_idx`) | `heap_upsert`, `heap_delete`, `heap_update` |
| key-value layer | `lib/server/key_value.cpp` | `db`, the entries | `do_*`, `entry_set_ttl`, `entry_del` |
| thread pool | `lib/server/thread_pool.cpp` | deque, mutex, condition variable | `worker`, `thread_pool_queue` |
| hashtable | `lib/server/HashTable.cpp` | two tables, `migrate_pos` | `hm_lookup/insert/delete`, progressive rehashing |
| sorted set | `zset.cpp`, `avl.cpp` | AVL tree and hashtable over the same nodes | insert, update, delete, seek, offset |
| protocol | `response.cpp`, `buffer.cpp`, `utils.cpp` | byte buffers | `parse_req`, `response_begin/end`, `out_*` |
| client | `client.cpp`, `lib/client/query.cpp` | a blocking socket | `send_req`, `read_res` |

How they meet. The loop's thread does everything except freeing: a readable
connection makes `handle_read` append to `incoming` and answer every complete
request there; a request runs one `do_*` to its end. `pexpire`, `del` and expiry
change the heap through `entry_set_ttl`, and the heap writes positions back into the
entries. `entry_del` frees an entry at once or, for a sorted set of more than 1000
members, queues it for the pool: the only data two threads ever share. The timeout
of `poll()` comes from the head of the idle list and the top of the heap.

What is hard, and what makes each part correct:

* **Heap.** Positions live twice, in the array and in the entries. Correct: heap
  order, exact back pointers, and every operation changes one entry's deadline only.
* **Key-value layer.** An entry is reachable from the table, the heap and the pool;
  addresses are reused. Correct: nobody holds a pointer to a freed entry, nothing is
  freed twice or leaked, and clients see a dictionary.
* **Thread pool.** Lost wakeups, the mutex inside `pthread_cond_wait`, false
  wakeups. Correct: every task runs exactly once, in order of submission.
* **Event loop.** Requests cut or bundled by the network, partial writes, failing
  sockets, descriptors reused, events gathered before and used after other handlers
  ran. Correct: the loop's assertions, ordered and complete answers, no connection
  left waiting, timers that are neither missed nor overslept.
* **Hashtable.** Every call moves a few nodes from one table to the other, so nodes are
  looked up while they migrate. Correct: no node is lost, doubled or missed, nothing is
  left in a table that is freed, and migration ends before the next one is due.
* **Sorted set.** A tree with parent links that rotates under insertion and deletion, over
  the same nodes as a hashtable. Correct: the tree is ordered by score and name and stays
  balanced, both indexes hold the same nodes, seeking and walking by rank answer as a
  sorted list would.
* **Protocol and client.** Requests and responses arrive in pieces or in one piece,
  responses have a size limit, a peer may send anything. Correct: the client is shown whole
  responses, its own, in order; the server executes exactly what the bytes begin with and
  rejects only what cannot become a request; the two never wait for each other.

## 2. Modules

| module | role |
|---|---|
| `TTLHeap` | `heap.cpp`, one step per loop iteration, with its callers in `entry_set_ttl` and `process_timers` |
| `TimerQueue` | what the heap promises: a map from entries to deadlines, the earliest is taken first |
| `ThreadPool` | `thread_pool.cpp`, one step per stretch between two operations on the mutex or the condition variable |
| `TaskPool` | what the pool promises: a queue and the task each worker has in hand |
| `Keyspace` | `key_value.cpp` and the TTL half of `process_timers`, over `TimerQueue` and `TaskPool` |
| `KVStore` | what the key-value layer promises to clients: a dictionary with TTLs |
| `Replies` | the responses (`out_*` of `buffer.cpp`) as tagged values |
| `Ranks` | a sorted set as a client sees it: members ranked by score and name, and the pages `zquery` lists |
| `HMap` | `HashTable.cpp`, one step per iteration of `hm_help_rehashing` |
| `NodeSet` | what the hashtable promises: a set of nodes, found by key |
| `ZSet` | `zset.cpp` and `avl.cpp`, one step per loop iteration, and the walk of `do_zquery` |
| `DList` | the intrusive list of `list.h` |
| `EventLoop` | `server.cpp`, `conn.cpp`, `timer.cpp` against the kernel's sockets, over `DList` |
| `Protocol` | one connection byte by byte: `query.cpp` and `client.cpp`, the sockets, `parse_req`, `response.cpp`, `buffer.cpp`, the handlers of `conn.cpp` |
| `Session` | what a client may count on: its requests executed in order, their responses shown in order |
| `MCTTLHeap`, `MCKeyspace`, `MCHMap`, `MCProtocol` | clock ranges, symmetry sets, hash codes, requests and streams for TLC |
| `TTLHeapProofs`, `ThreadPoolProofs`, `KeyspaceProofs`, `HMapProofs`, `EventLoopProofs`, `ZSetProofs`, `ProtocolProofs` | the theorems about these seven modules |
| `Facts` | lemmas on natural numbers, sequences, finite sets, and functions defined from each number to the next |

Composition: `TTLHeap` is shown to implement `TimerQueue` and `ThreadPool` to
implement `TaskPool`; `Keyspace` uses these two specifications' actions in place of
the details (`TQ!Arm`, `TQ!Disarm`, `TQ!Fire`, `Pool!Submit`, `Pool!Take`,
`Pool!Finish`) and implements `KVStore` in turn. The page that `ZQUERY` returns is defined
once, in `Ranks`: `Keyspace` answers with it and `ZSet` shows that the code's walk finds it.
`EventLoop` keeps of the keys what it can see of them: the earliest deadline. `Protocol`
takes any of a set of responses for what a command answers, and implements `Session`.

### TTLHeap

`heap` is `g_data.heap`, `heap_idx[e]` the field the item of `e` points to. A call
does everything up to the sifting loop in one step (`SetTTL`, `ClearTTL`, `Expire`),
then `UpStep` or `DownStep` per iteration and `SiftDone` for what follows the loop.
In between `pos` is the hole and `t` the item in hand, the locals of `heap_up` and
`heap_down`; `del` remembers the entry whose `heap_idx` the caller resets after
`heap_delete` returned. The steps of one call are not interrupted in the program;
they are separate so that each iteration can be reasoned about.

### ThreadPool

`wpc` says where a worker is: before the lock, testing the deque with the mutex held,
asleep in `pthread_cond_wait`, woken and waiting for the mutex, or running a task.
`SpuriousWakeup` is what POSIX allows. `todo` and `ran` are history.

### Keyspace

`db` maps keys to addresses, `mem` addresses to entries (`NULL`: free), `deadline` is
the heap seen through `TimerQueue`. A command is one action, since the handlers run
to their end; `process_timers` is one action per deleted key with `now_ms` fixed, so
that the clock and the workers move in between. Strings are model values; scores and names
are numbers, since `ZQUERY` orders them. An argument that `str2dbl` or `str2int` rejects is
`NULL`, which the handlers find out before they look up the key.
`do_keys` lists the table in the order of its slots, so any order is possible (`Listings`). `request` and `reply` keep the last command with its arguments and its response,
so that the refinement compares each answer with its question. `LargeSize` is `k_large_container_size`, `MaxWorks` is `K_MAX_WORKS`.
As the code has it: a batch deletes up to `K_MAX_WORKS + 1` keys (the counter is
compared before it is incremented); SET on an existing key keeps its TTL; ZREM of the
last member leaves an empty sorted set under its key; GET may return a value whose
deadline has passed but which no round of timers has taken yet.

### HMap

`newer`, `older` and `migrate_pos` are the fields of `HMap`; a table is its chains by slot,
the number of slots (`mask + 1`) and its size. Every call but `hm_foreach`, `hm_size` and
`hm_clear` goes through `hm_help_rehashing`: an action per call does what precedes it
(`Insert`, `Lookup`, `Delete`; insertion may trigger rehashing), `SkipSlot` and `MoveNode`
are the iterations of its loop, and `HelpEnds` frees the drained table and does the rest of
the call. What is looked for (`Targets`) is a hash code with the nodes that the caller's
comparison accepts: those with the same string or, for `hnode_same`, the node itself. A
node is inserted only if no node with its key is there, as the callers see to by a lookup.
`InitSlots` is the literal 4 of `hm_insert`; it is a power of 2, so that taking the
remainder is masking.

### ZSet

A node is known by its name; names are numbers in the order of `memcmp` and length, which is
how `zless` compares them. `tree` maps each allocated node to its `AVLNode`, `hmap` is the
set of names found in the hashtable, which `HMap` is shown to provide. `search`
(`Descend`, `Attach`) is the loop of `tree_insert`, `succ` (`NextSucc`, `DetachSucc`) the
descent of `avl_del` to the successor, `fix` (`FixStep`) the way of `avl_fix` to the root;
`SwapSucc` then puts the successor in the node's place, links, height and count included,
which were all brought up to date while the node was still in the tree. `Reinsert` and
`Free` are what `zset_update` and `zset_delete` do with the node that was unlinked.
Mirror images in the code (`rot_left` and `rot_right`, `avl_fix_left` and `avl_fix_right`)
are written once with a side for a parameter. `zset_update` with the score that the node
already has changes nothing and is no step. `zset_seekge`, `avl_offset` and `do_zquery`
change nothing either; they are recursive functions, from nodes to functions of the loop's
other variable, and `QueriesRight` compares what they return with `Ranks`.

### EventLoop

`pc` walks through one round: `prepare` (build `poll_args`, compute the timeout),
`poll`, `accept`, `io` (one `Serve` per reported descriptor, in ascending order),
`timers`. `idle_node` is the ring through `idle_list` (`IdleHead`) and the `idle_node` of each
connection, whose pointers stay what they were when a connection is unlinked. `process_timers`
takes the clock once (`now_ms`) and then destroys one idle connection per step (`CloseIdle`)
until the oldest is still young enough (`EndTimers`). A socket is two streams, an end and an error flag; the client's and the
kernel's actions may happen between any two steps. A request arrives in two parts so
that a read may end inside one or bring several; it is known by its number, as is its
response. `handle_read` and `handle_write` are sets of outcomes: any prefix may be
read or written. A served request may leave any deadline of `TTLs` first in the heap.

### Protocol and Session

A byte has `Base` values and a `u32` takes `Width` bytes, 256 and 4 in the code; the values of
the tags are those of `defs.h`. `cpc` is where the client is: it sends the requests of its
`script` with `send_req` and `write_all`, then reads with `read_full`, first a header and
then a body, for every request it sent. `client.cpp` sends one request; the functions serve as
well for a client that sends two before it reads, and such scripts are included. Any other
peer (`cpc = "stream"`) sends any bytes of `Streams` and reads or closes when it likes. `spc`
is where the server's handler is: in `poll()`, in the loop of `try_one_request`, or at the end of
`handle_read`. Every `read()` and `write()` moves some of the bytes that could be moved. The
two sockets have room for `RcvCap` and `SndCap` bytes. `Fail` resets the connection at any
time, `IdleTimeout` closes it from `process_timers`. `served` is history.
`print_response` is modelled by the value it shows and the bytes it takes, reading an array's
elements from wherever the one before ended.

## 3. Runs

| run | instance | shows |
|---|---|---|
| `TTLHeap` | 6 entries, instants 0..2, symmetric entries | `HeapOrdered`, `RefsExact`, `SiftAdvances`, refinement of `TimerQueue` |
| `ThreadPool` | 3 tasks, 3 workers, 1 spurious wakeup | `MutualExclusion`, `ExactlyOnce`, `NoIdleBesideWork`, `EveryTaskRuns`, refinement of `TaskPool` |
| `Keyspace` | 2 keys, 3 addresses, 2 names, 2 workers, clock 0..2 | `DbSound`, `TimersSound`, `PoolSound`, `NoLeak`, refinement of `KVStore` |
| `KeyspaceLive` | 2 keys, 2 addresses, 1 name | `DueKeysGo`, `DoomedAreFreed` |
| `HMap` | 5 keys, one of them with 2 nodes; first table of 2 slots | `NodesInPlace`, `MigratedEmpty`, `LoadBounded`, refinement of `NodeSet` |
| `ZSet` | 7 names, 2 scores | `IndexesAgree`, `Balanced`, `QueriesRight` |
| `EventLoop` | 2 descriptors, 1 request each, clock 0..2, keys' deadlines at 1 and 2 | `MapIsExact`, `ReportsStillWanted`, `IdleListExact`, `NoOversleep` |
| `EventLoopPipelining` | 1 descriptor, 4 requests, room for 2 responses | `NobodyStranded`, `AnsweredInOrder` |
| `EventLoopLive` | 1 descriptor, 2 requests | `RequestsAnswered`, `IdleConnsGo` |
| `Protocol` | 7 scripts of one or two requests, 8 responses; messages of at most 8 bytes | refinement of `Session`, `ClientEnds` |
| `ProtocolStreams` | every stream of up to 5 bytes, and two requests with a byte changed | `FramesExact` |
| `EventLoopInt32` | deadlines beyond the range of `int32_t` (2 stands for 2^31) | violated: `ForeverMeansNoTimers`, see section 6 |

Why the bounds are enough:

* Six entries are the fewest for which the item that `heap_delete` moves into the hole
  has to go *up* (position 5 into the subtree of position 1); three instants give
  earlier, equal and later.
* Three workers and three tasks let a worker sleep while another runs and a third
  competes for the mutex, and two signals fall to one waiter.
* In `Keyspace` three addresses for two keys: one entry with the worker, one freed and
  reused, one in the table. `LargeSize` is 1 with two names, so sorted sets are small
  and large; `MaxWorks` is 0, so that a batch ends with another key still due.
  `PExpire` is bounded by the last instant of the clock (`now + ttl \in Times`). One score
  is enough, the orders by score are tried in `ZSet`; offsets are -1..1, limits none, one and
  two members.
* `HMap`: two slots, load factor 1 and one node moved per call, against 4, 8 and 128 in the
  code. So tables fill up at once, a migration spans several calls of every kind, and the
  ratio of work to growth is the worst that still keeps up. Six nodes are enough for tables
  of 2, 4 and 8 slots and two migrations, the second right after the first. Hash codes collide
  in the two smaller tables (0 and 4), in all three (0 and 8), or altogether (8 twice).
* `ZSet`: seven nodes make every tree of height 3 and the smallest of height 4: all four
  rotations at the root and below it, with subtrees to hand over, and more than one level of
  `avl_fix`; a successor deep in the right subtree or right below the node, and a node that
  is itself rotated while its successor is detached. Two scores make nodes that differ in
  name only and updates that move a node past others. Walks are tried by every offset up to
  one past either end.
* `EventLoop`: two descriptors are needed for the order of the idle list, for a
  descriptor freed in one round and reused in the next while the other one is in use, and for a
  handler that runs between another connection's report and its turn. One descriptor suffices for what concerns a single
  stream. `SndCap` is smaller than the number of responses, so that writes are partial,
  and so that in `EventLoopLive` a client that never reads leaves the server with a response it cannot write.
  `MaxReq`, `MaxTime` and `MaxSpurious` bound requests per connection, the clock, and
  false readiness plus interrupted calls. Keys' deadlines at 1 and 2 are before, at and after
  those of idle connections.
* `Protocol`: six is the least `Base` in which the tags are bytes, two the least `Width` for which
  an integer can be cut. With messages of at most 8 bytes there are requests of no, one and
  two strings, one at the limit and one above, and responses of every kind below,
  at and above the limit. Both sockets hold less than a message, so that every message is cut and
  both sides block in the middle of one.
* `ProtocolStreams`: 5 bytes hold a header and a body with everything wrong that can be (a length
  above the limit, a count above `MaxArgs`, a string that is too long, bytes left over); two
  requests with one byte changed put a faulty one behind a good one, or make the first swallow part
  of the second. `Requests` are all over three byte values that are short enough.

`Keyspace` and `KeyspaceLive` use `VIEW Unasked`: no action reads `request` and `reply`, so
states that differ in them only are explored once; each step is compared with `KVStore`'s
before it is recognised as old.

Deadlock is checked everywhere except in `ThreadPool` and `Protocol`: once every task is
done the workers sleep and the client need not come back; and a client's program ends.

Fairness. `ThreadPool`: each worker and the client inside `thread_pool_queue` take
their enabled steps (a thread that can run does); weak fairness on `Lock` is enough,
because at most three short critical sections compete in the instance. Neither calls nor
spurious wakeups are fair. `Keyspace`: the loop comes back to `process_timers` because
`poll()` has a timeout and no handler blocks; the pool's threads run. `EventLoop`: the
loop's thread runs; clients need not send, connect, read or close, the clock need not advance.
`RequestsAnswered` alone assumes, in its own statement (`ClientsRead`), that a client reads the responses it was
sent; `IdleConnsGo` holds without that, so it covers a client that never reads and keeps the server waiting for
room. `Protocol`: the client's process and the
server's loop run; other peers do as they like, resets and idle timeouts need not come, so
`ClientEnds` does not rest on them.

## 4. Proofs

Everything below holds for every value of the constants that satisfies the named
assumption of the module.

### TTL heap (`TTLHeapProofs`)

| theorem | states |
|---|---|
| `TypeCorrect` | `Spec => []TypeOK` |
| `HeapCorrect` | `Spec => []HeapOrdered` |
| `RefsCorrect` | `Spec => []RefsExact` |
| `EarliestOnTop` | `Spec => []TopIsEarliest`: item 0 is the earliest deadline |
| `SiftProgress` | `Spec => SiftAdvances`: the hole moves strictly, so both loops end |
| `HeapRefinesTimerQueue` | `Spec => ImplementsTimerQueue` |

Assumption (`TTLHeapAssumption`): instants are natural numbers and `NULL` is no entry.

`HeapOrdered` and `RefsExact` speak of the moments between two calls and say nothing
of the array inside a sifting loop, so they are not inductive. `IInv` adds what holds
there:

* `RefInv`: every position but the hole is exact, `t.ref` is nobody else's item, and
  an entry outside the heap has no index; the entry being deleted (`del`) has left the
  array although its `heap_idx` still stands.
* `OrderInv`: heap order at every pair of parent and kid that avoids the hole, order
  from the hole's parent to the hole's kids across it, and a side condition per
  direction: going up, the item in hand is smaller than everything below the hole;
  going down, it is not smaller than the hole's parent.

The proof has a lemma per action and, for arithmetic, lemmas about `heap_parent`,
`heap_left` and `heap_right` (each position is a kid of its parent, and of no other).
`EarliestOnTop` needs an induction along the path to the root; it takes the smallest
offending position and compares it with its parent. The refinement maps `SetTTL` to
`Arm`, `ClearTTL` to `Disarm`, `Expire` to `Fire` (which needs `EarliestOnTop`) and
every sifting step to a stutter.

### Thread pool (`ThreadPoolProofs`)

| theorem | states |
|---|---|
| `TypeCorrect` | `Spec => []TypeOK` |
| `MutexCorrect` | `Spec => []MutualExclusion` |
| `TasksOnce` | `Spec => []ExactlyOnce` |
| `NoWakeupLost` | `Spec => []NoIdleBesideWork` |
| `PoolRefinesTaskPool` | `Spec => ImplementsTaskPool` |

Assumption (`ThreadPoolAssumption`): there is a finite, non-empty set of workers, and
`NULL` and the client are none of the other things.

`MInv` is the type with `LockInv`: the holder of the mutex is the thread in a critical
section and nobody holds it outside one, a worker has a task in hand exactly while it runs one, the client has an argument
while it is inside the call. It is inductive by itself. `ExactlyOnce` counts over three
places and is not convenient to preserve; `PlaceInv` says instead that the deque and the
hands hold no task twice and that a task is with the client, in the deque, in somebody's
hands or done, never in two of these. `IdleInv` generalises `NoIdleBesideWork` to the
moment between the push and its signal, where one task may be waiting for a wakeup that
has not been sent yet; every signal then either finds nobody asleep or adds one worker to
those on their way.

### Key-value layer (`KeyspaceProofs`)

| theorem | states |
|---|---|
| `TypeCorrect` | `Spec => []TypeOK` |
| `TableSound` | `Spec => []DbSound` |
| `HeapPointsToLive` | `Spec => []TimersSound` |
| `NoDoubleDelete` | `Spec => []PoolSound` |
| `NothingLeaks` | `Spec => []NoLeak` |
| `KeyspaceRefinesKVStore` | `Spec => ImplementsKVStore` |

Assumption (`KeyspaceAssumption`): instants are natural numbers with 0 among them, TTLs,
offsets and limits are integers, `LargeSize` and `MaxWorks` are natural numbers, and `NULL` is
none of the values it stands beside.

The four lifetime properties are inductive only together (`IInv`): that `del` may free an
entry at once needs `TimersSound` for the heap and `DbSound` for the pool; that a worker
may free what it took needs `DbSound`, or a key would still lead to it; that expiry finds
the entry under its key needs `TimersSound`; that a fresh address is nowhere else needs all
of them. The proof first reduces every command and timer step to one of four changes
(`Overwrite`, `Create`, `Retime`, `RemoveKey`) or none, then takes each change once, then the
two steps of a worker.

The refinement maps `kvStore` and `kvExpires` by following the table into the memory.
Lemmas `PutView`, `RemoveView`, `RetimeView` and `WorkerView` say what a change does to
them; that it concerns one key only rests on `DbSound`, since no two keys share an entry.
Each command is then shown to be the dictionary's command of the same name with the same
response (`SameListings` and `SamePage` for the two that list things), `ExpireKey` to be `Evict` (with `ClockInv`: the snapshot `now_ms` is never ahead
of the clock), and all other steps to be stutters or `Tick`.

### Hashtable (`HMapProofs`)

| theorem | states |
|---|---|
| `TypeCorrect` | `Spec => []TypeOK` |
| `PlacesCorrect` | `Spec => []NodesInPlace` |
| `NothingLeftBehind` | `Spec => []MigratedEmpty` |
| `LoadStaysBounded` | `Spec => []LoadBounded` |
| `HMapRefinesNodeSet` | `Spec => ImplementsNodeSet` |

Assumption (`HMapAssumption`): hash codes are natural numbers, nodes with the same key have
the same hash code, the first table has at least two slots, the load factor and the
work per call are at least 1, and `NULL` is no node.

`TabOK` is what one table is: every node in its slot, no node twice in a chain, as many
nodes as `size` says. Lemmas `InsertTab` and `DetachTab` show that `h_insert` and `h_detach`
keep it and change the set of nodes by one, `LookupTab` that one chain is enough to search.
For the two tables, `IInv` adds that they share no node, that their keys differ, and
`MigratedEmpty`. That the loop stays within the older table then follows: if nodes are left
there is a slot that is not empty, and it is not behind `migrate_pos`.

`LoadBounded` is not inductive. `LoadInv` says why migration keeps up: the newer table has
twice the slots of the older, which held half its threshold when rehashing began, and every
call moves a node for the one it may insert; so the newer table's size plus twice the
older's never exceeds the threshold, and the nodes moved by the call in progress come off
that budget. A table emptied by `hm_delete` is discarded by the next call only, hence the
condition for `older.size = 0`.

The refinement maps the nodes of both tables to one set. `hm_lookup` and `hm_delete` take
effect when the loop has ended, insertion and `hm_clear` at once, and migration is a stutter.

### Event loop (`EventLoopProofs`)

| theorem | states |
|---|---|
| `TypeCorrect` | `Spec => []TypeOK` |
| `MapCorrect` | `Spec => []MapIsExact` |
| `ReportsCorrect` | `Spec => []ReportsStillWanted` |
| `NobodyIsStranded` | `Spec => []NobodyStranded` |
| `RepliesInOrder` | `Spec => []AnsweredInOrder` |
| `IdleListCorrect` | `Spec => []IdleListExact` |
| `SleepsInTime` | `IdleTimeout < Half`: `Spec /\ []Near => []NoOversleep` |
| `SleepsInTimeEarly` | `IdleTimeout < Half`, all `TTLs` below `Half`: `Spec => []NoOversleep` |
| `ForeverOnlyWithoutTimers` | `IdleTimeout < Half`: `Spec /\ []Near => []ForeverMeansNoTimers` |

Assumption (`EventLoopAssumption`): descriptors, deadlines and bounds are natural numbers,
the send buffer holds at least one response, and `NULL` is none of the values it stands beside.

`IInv` has a conjunct per thing that a handler can spoil:

* `ConnInv` says of each connection between two handlers that it wants to read or to write
  and never both (`Wants`), that its buffer starts with nothing that could be answered or must
  be rejected (`Clean`), and what is in its four queues (`StreamOf`): the responses on their way
  continue those received, the parts on their way continue the requests answered, up to a
  malformed one. `NobodyStranded` is the first two, `AnsweredInOrder` a part of the third. One
  connection is enough: `handle_read` and `handle_write` are shown to keep it by `ReadKeeps` and
  `WriteKeeps`, over any cutting of the stream, and what the client does by `StreamSend` and
  `StreamReceive`.
* `ReportInv` carries what `poll()` reported past the handlers of other connections; that none of
  them touches this connection, nor its entry of the map, is what `ReportsStillWanted` comes to.
* `RingInv`: some sequence of descriptors is the ring of `idle_list`, doubly linked, through
  exactly the open connections, the longest idle first. `RingInsert` and `RingDetach` say what
  `dlist_insert_before` and `dlist_detach` do to any such ring (`ListMove` is one after the other).
  `IdleListExact` follows it from the head; that it does so for every length is an induction
  over the positions of the sequence, done by its smallest exception.
* `ClockInv`: no time stamp is ahead of the clock, so a connection moved to the end keeps the
  list sorted.

`NoOversleep` needs two hypotheses, which is the point of it. `Half` stands for 2^31: the idle
timeout of 5000 ms is below it, and `Near` says that the first deadline of a key is less than
2^31 ms away. Without `Near` it is false: that is the run `EventLoopInt32` and section 6.
`SleepsInTimeEarly` replaces `Near` by a condition on the deadlines that clients ask for, so the
two hypotheses are the only way to oversleep.

### Sorted set (`ZSetProofs`)

| theorem | states |
|---|---|
| `TypeCorrect` | `Spec => []TypeOK`: no link and no local pointer leads to a freed node |
| `IndexesCorrect` | `Spec => []IndexesAgree` |
| `BalanceCorrect` | `Spec => []Balanced` |
| `QueriesCorrect` | `Spec => []QueriesRight` |
| `QueriesExactCorrect` | `Spec => []QueriesExact`: `QueriesRight` for every integer as key, offset and limit |
| `ShallowCorrect` | `Spec => []Shallow`: between two calls, for a tree of `N` nodes and height `h`, `2^(h div 2) <= N + 1` |

Assumption (`ZSetAssumption`): names are natural numbers, scores are integers, and `NULL` is no
name and no value of `pc`.

`IndexesAgree` is about the moments between two calls, `Balanced` about these and one
difference of heights; in between, nodes hang outside the tree and the tree is out of balance. `IInv` says what
holds there, without asking which call it is:

* `TreeInv`: at every step, the nodes of `Linked` form a search tree (`IsTree`). These are all
  allocated nodes but the one in hand: the successor from its detachment to `SwapSucc`, then the
  node that was deleted, or the new one that has not been attached. `IsTree` takes the subtrees as a function `S`
  from nodes to sets, which spares a recursive definition: a node's set is itself and the sets of
  its kids, the kids' sets are on their sides of it in the order, and each kid's parent is the node.
  While `tree_insert` or `avl_del` descends, `Seek` and `Succ` say which nodes the descent has left behind on which side.
* `HeightInv`: heights and counts are exact and balanced (`Even`) everywhere but on the way from
  `at` to the root, where they are as if the subtree at `at` had still the height `h` that it had
  before the change, which is one off at most (`Fixing`, `Due`).
* `Calls`, in `ControlInv`: the hashtable holds exactly the allocated nodes but the one a deletion holds. `Twins` says that the
  node and its detached successor are neighbours in the order, so the other nodes are on the same sides of both and
  one can stand in for the other.

The first part has a lemma per operation of `avl.cpp`: rotation keeps the tree and only changes two subtrees
(`RotateTree`), what it does to heights (`RotateHeights`), one iteration of `avl_fix` with each
of its cases (`SideFixed`, `FixKeeps`), `avl_del_easy` (`EasyTree`, `EasyEven`), attaching
(`AttachTree`, `AttachEven`), putting one node in another's place (`SwapTree`, `SwapEven`). Where
an argument goes from the leaves to the root, `TreeInduct` stands for the induction: a set that contains every node whose kids
it contains contains them all, by the smallest subtree of an exception. With it, `InOrderRight` shows
what the traversal of `IndexesAgree` lists: that the recursive function exists (`ListsExist`) and what any such function returns (`ListsRight`).
The second part then takes one lemma per action.

The third part is about the moments between two calls (`Settled`: a search tree with exact heights and counts)
and needs no invariant of its own, only what `IInv` says there.

* Ranks are counts. The counts are the sizes of the subtrees (`Counted`), a node's rank and that of its kid
  differ by the kid's subtree on the inner side (`RankKid`), and ranks number the
  nodes from 0 without a gap (`NodeAtRank`), by a bijection onto `0..size-1`.
* The queries are recursive functions, in the model defined by a choice: one says what any function with
  the equations of the loop returns, and that there is one, which is shown by giving the answers themselves as the function.
  One iteration of `avl_offset` leaves the rank it looks for unchanged (`WalkDown`, `WalkUp`), so
  its answer depends on that rank alone. Once this rank is in the subtree of the node at hand
  (`Inside`) the loop only goes down, which `TreeInduct` covers; before that it may go up, which
  `TreeDescend`, the induction from the root, covers (`WalkRight`). `zset_seekge` finds the first
  node of the subtree whose rank is not below the key's, or keeps what it found before
  (`SeekRight`). `do_zquery` puts out one node per rank until the last one or until its
  count reaches the limit, an induction over the ranks left (`PutOutRight`); `PageIs` says that `Page` lists the same.
* `Shallow` is the comment on `avl_offset` (`avl.cpp:157`, "the worst-case is O(log N)"): siblings that differ by one at
  most make a subtree two levels higher at least twice as full (`Filled`), and every step to a kid lowers the
  height. The bound is on the height; no theorem counts the iterations of a loop.

### Protocol (`ProtocolProofs`)

| theorem | states |
|---|---|
| `FramesCorrect` | `Spec => []FramesExact` |
| `SessionImplemented` | `Spec /\ script # << >> => ImplementsSession` |

Assumption (`ProtocolAssumption`): a byte has at least six values, so that the tags are bytes; a
message's length fits into a `u32`, and `MaxArgs` strings need no less than a longest message, so
that the limit on their number alone rejects nothing that fits (200 * 1000 against 4096 bytes in the code); the error that replaces
a response fits; requests, streams and responses are made of bytes; `NULL` is none of the values it
stands beside.

`script # << >>` says that the peer is a client. Other peers have a stream of bytes in its place; no
session is promised to them, and `FramesCorrect` is about both.

The proof of `FramesCorrect` has three parts.

* What is written is read back. `U32Num` and `NumU32` say that `U32` and `Num` are each other's inverse on
  `Width` bytes; `U32Read` and `StrRead` say what the two readers find in the middle of a buffer. From there `Accepted`
  shows that `parse_req` accepts whatever `send_req` writes, and `Rejoined` the converse: what it
  accepts is, byte for byte, what `send_req` would have written for the strings it returns. So the
  server's idea of a request is exactly the client's, and a rejected message is no request at all, nor
  the beginning of one (`FrameWaited`, `FrameBegun`). On the way back, `Patched`, `ArraysAgree` and `Replied` show that
  `out_begin_arr` with `out_end_arr` writes what `out_arr` writes, and that `response_end` leaves one
  frame behind the earlier responses, whatever its size.
* Nothing is lost on the way. `PInv` has `InOrder`, the first two conjuncts of `FramesExact`: the
  executed requests, the buffers and the bytes on their way, one behind the other, are what the peer has sent; and likewise the responses.
  `Moved` is why it does not matter how many bytes a `read()` or `write()` takes.
* Nothing is left lying. The other two conjuncts of `FramesExact` are about requests, `PInv` about buffers
  (`Phases`): when the handler is back in `poll()` its buffer holds no complete message
  (`Waiting`), and when the connection is to be closed the buffer starts with one that is too long or
  cannot be parsed (`Rejected`).

Functions that are defined from each number to the next (the loop of `parse_req`, the digits of an
integer, `FlattenSeq`) exist by `Recursion` in `Facts`: each is a partial function that can always be taken one step
further. What they return is then shown for each length by `UpTo`, whose set is the lengths for which it
holds; this replaces an induction rule with an operator for a parameter.

`SessionImplemented` needs two things more.

* What is shown is what was meant. `Shows` says that `print_response`, given the bytes the writers wrote
  for a value, shows that value and takes exactly these bytes: first for the scalars (`PrintScalar`),
  then for arrays, where each element is read from where the one before ended (`Offsets`, `PrintArray`).
  That the recursive calls exist to any depth is `PrintRows`, and `PrintIs` unfolds two of them, one for the array
  and one for an element.
  `VisibleFits` adds that what replaces a response above the limit fits, and `NextReply` that a body which was read whole is
  that of the next response due. So the client never meets a response that it refuses to print.
* Both ends agree on where they are. `PInv` compares the bytes only while the connection stands; the
  client goes on reading after the server closed it, and learns of a reset later. `SInv` says what lasts:
  the executed requests are the first of those the client has sent, also after a reset, and what
  it has shown, what it has read of the next response and what is on its way are a prefix of the response frames in their order.
  TLC has checked `SInv` on the instance of the run `Protocol` before it was proved.

One lemma per action (`...Session`) shows that `SInv` is kept and which step of `Session` is taken. `Execute` is
the branch of `try_one_request` that calls `do_request`: the request it parsed is the next of the script
(`NextRequest`). `Show` is the client's body read to its end (`ReadFullSession`). `Break` is each
way for the client to end early: `send_req` refuses a request that is too long, a `read()` or
`write()` fails, or the server has closed. Every other step leaves `Session` as it is.

### What is model-checked only

* All liveness (`EveryTaskRuns`, `DueKeysGo`, `DoomedAreFreed`, `RequestsAnswered`,
  `IdleConnsGo`, `ClientEnds`), since the prover has no rule for fairness and `ENABLED`.

Every invariant, every action property and every refinement that a passing run checks is also a theorem.

## 5. Not modelled, and why

* `Keyspace` takes a sorted set as a function from names to scores; what it assumes is what
  `ZSet` checks. `zset_clear` is one step in `ZSet`, because nothing else can reach the set
  while `tree_dispose` runs. Where `str2dbl` and `str2int` draw the line between arguments is
  not modelled, only that some are rejected.
* `Keyspace` takes the table `db` as a function; what it assumes of the hashtable is what
  `HMap` is shown to do. The two are not composed: the pointers of a chain (`next`) are a
  sequence, and hash codes are given, not computed by `str_hash`.
* An unknown command, or a known one with the wrong number of arguments: the answer is an
  error and nothing changes.
* `Protocol` and `Keyspace` meet in the set of responses only. A response above the limit is,
  in `Session`, an error of its own kind (`Visible`); the command has been executed all the same.
* A client that pipelines more than the buffers hold. `handle_read` stops reading while there are
  responses to send (`conn.cpp:171`), so if such a client does not read before it has sent
  everything, both wait until the connection is closed as idle. The server's half of this is in
  `EventLoop`, where `IdleConnsGo` shows that it ends; the client's blocked `write()` is not. `client.cpp`
  sends one request, and `ClientEnds` claims no more than that.
* The storage of `Buffer` (`buffer.cpp` over `std::vector`): a sequence stands for it. Opening and
  connecting sockets (`utils.cpp`): connections exist or are accepted.
* Logging and diagnostics (`debug.cpp`, `debug.h`) and the build.
* Failures that end the process: `die()`, exhausted memory, `poll()` errors other than
  `EINTR`. A write to a socket that the peer has closed raises `SIGPIPE`, and the code leaves
  that signal at its default, which ends the process. The model takes the error return that `handle_write` is
  written for, as it comes when whoever starts the server has the signal ignored.
* Start-up and shut-down: the server never leaves its loop.
* Nothing is persisted, so there is no recovery to model.

## 6. Disagreements

* `next_timer_ms` casts the distance to the next deadline to `int32_t`. For 2^31 ms or
  more it becomes negative, which `poll()` takes as "no timeout", while the comment
  beside the other negative value reads "no timers, no timeouts". The server then
  sleeps past the deadline until some other event wakes it (`EventLoopInt32`).

Seen while modelling, and modelled as they are: `next_timer_ms` counts a deadline equal
to the present as missed (`<=`) while `process_timers` waits until it is past (`<`), so
the loop spins for up to a millisecond; `zquery` counts two per tuple against its limit
and returns one element more for an odd one (`QueriesRight` states it so); `str2int` accepts the empty string.

## 7. Plan

1. (done) `TTLHeap`, `ThreadPool`, `Keyspace`, `EventLoop`, their abstract
   specifications, and the theorems about the first three.
2. (done) `HMap` and `NodeSet`, with the theorems about them.
3. (done) `ZSet`: insertion, update, deletion, seek, rank walk and paging; `zquery` among the
   commands of `Keyspace` and `KVStore`, with `Ranks` between the two.
4. (done) `Protocol` and `Session`; `DList` under `EventLoop`.
5. (done) Proofs: the safety of `EventLoop`, with its ring of idle connections and the lemmas about
   `DList`; the search tree, its balance and the hashtable in step with it in `ZSet`; in `Protocol`, that
   the server executes exactly what the stream begins with, no byte is lost in either direction, and
   that it implements `Session`.
6. (done) Proofs: the queries of `ZSet`, for every key, offset and limit, and the height of its tree.
   Of what the runs check, only liveness is left to TLC.
