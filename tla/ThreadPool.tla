----------------------------- MODULE ThreadPool -----------------------------
(***************************************************************************)
(* lib/server/thread_pool.cpp: a deque behind a mutex, a condition         *)
(* variable for "not empty", workers that loop forever and one client, the *)
(* event loop's thread, that queues work.                                  *)
(*                                                                         *)
(* One action per stretch of code between two operations on the mutex or   *)
(* the condition variable.  pthread_cond_wait releases the mutex and       *)
(* sleeps in one step; a waiter may also wake up without a signal.         *)
(***************************************************************************)
EXTENDS Integers, Sequences, FiniteSets

CONSTANTS Tasks,       (* Work items; the client queues each at most once   *)
          Workers,     (* the threads made by thread_pool_init              *)
          Client,      (* the thread that calls thread_pool_queue           *)
          NULL,
          MaxSpurious  (* bound: wakeups without a signal                   *)

ASSUME ThreadPoolAssumption ==
    /\ NULL \notin Tasks \cup Workers \cup {Client}
    /\ Client \notin Workers
    /\ Workers # {} /\ IsFiniteSet(Workers)
    /\ MaxSpurious \in Nat

VARIABLES mu,        (* the thread that holds the mutex, or NULL            *)
          queue,     (* the deque of Work                                   *)
          wpc,       (* where each worker is in worker()                    *)
          task,      (* its local w, or NULL                                *)
          cpc,       (* where the client is in thread_pool_queue()          *)
          arg,       (* the Work it is queuing                              *)
          todo,      (* history: the tasks not yet submitted                *)
          ran,       (* history: how often w.f(w.arg) was called            *)
          spurious   (* wakeups without a signal so far                     *)

vars == <<mu, queue, wpc, task, cpc, arg, todo, ran, spurious>>

Sleeping == {w \in Workers : wpc[w] = "wait"}

-----------------------------------------------------------------------------
(* worker()                                                                  *)


(* pthread_mutex_lock, or the re-acquisition at the end of cond_wait.        *)
Lock(w) ==
    /\ wpc[w] \in {"lock", "woken"}
    /\ mu = NULL
    /\ mu' = w
    /\ wpc' = [wpc EXCEPT ![w] = "test"]
    /\ UNCHANGED <<queue, task, cpc, arg, todo, ran, spurious>>

(* while (queue.empty()) pthread_cond_wait                                   *)
Wait(w) ==
    /\ wpc[w] = "test"
    /\ queue = << >>
    /\ mu' = NULL
    /\ wpc' = [wpc EXCEPT ![w] = "wait"]
    /\ UNCHANGED <<queue, task, cpc, arg, todo, ran, spurious>>

(* Mutants: the mutex is kept while the task runs; queue.front() without     *)
(* queue.pop_front(); the newest task first.                                 *)
Mut_Pop_KeepsMutex(w) ==
    /\ wpc[w] = "test"
    /\ queue # << >>
    /\ task' = [task EXCEPT ![w] = Head(queue)]
    /\ queue' = Tail(queue)
    /\ wpc' = [wpc EXCEPT ![w] = "run"]
    /\ UNCHANGED <<mu, cpc, arg, todo, ran, spurious>>

Mut_Pop_LeavesFront(w) ==
    /\ wpc[w] = "test"
    /\ queue # << >>
    /\ task' = [task EXCEPT ![w] = Head(queue)]
    /\ mu' = NULL
    /\ wpc' = [wpc EXCEPT ![w] = "run"]
    /\ UNCHANGED <<queue, cpc, arg, todo, ran, spurious>>

Mut_Pop_Newest(w) ==
    /\ wpc[w] = "test"
    /\ queue # << >>
    /\ task' = [task EXCEPT ![w] = queue[Len(queue)]]
    /\ queue' = SubSeq(queue, 1, Len(queue) - 1)
    /\ mu' = NULL
    /\ wpc' = [wpc EXCEPT ![w] = "run"]
    /\ UNCHANGED <<cpc, arg, todo, ran, spurious>>

Pop(w) ==
    /\ wpc[w] = "test"
    /\ queue # << >>
    /\ task' = [task EXCEPT ![w] = Head(queue)]
    /\ queue' = Tail(queue)
    /\ mu' = NULL
    /\ wpc' = [wpc EXCEPT ![w] = "run"]
    /\ UNCHANGED <<cpc, arg, todo, ran, spurious>>

Run(w) ==
    /\ wpc[w] = "run"
    /\ ran' = [ran EXCEPT ![task[w]] = @ + 1]
    /\ task' = [task EXCEPT ![w] = NULL]
    /\ wpc' = [wpc EXCEPT ![w] = "lock"]
    /\ UNCHANGED <<mu, queue, cpc, arg, todo, spurious>>

SpuriousWakeup(w) ==
    /\ wpc[w] = "wait"
    /\ spurious < MaxSpurious
    /\ spurious' = spurious + 1
    /\ wpc' = [wpc EXCEPT ![w] = "woken"]
    /\ UNCHANGED <<mu, queue, task, cpc, arg, todo, ran>>

-----------------------------------------------------------------------------
(* thread_pool_queue()                                                       *)
Call(x) ==
    /\ cpc = "idle"
    /\ x \in todo
    /\ arg' = x
    /\ todo' = todo \ {x}
    /\ cpc' = "lock"
    /\ UNCHANGED <<mu, queue, wpc, task, ran, spurious>>

ClientLock ==
    /\ cpc = "lock"
    /\ mu = NULL
    /\ mu' = Client
    /\ cpc' = "push"
    /\ UNCHANGED <<queue, wpc, task, arg, todo, ran, spurious>>

(* Mutant: the work is queued before its argument is filled in.              *)
Mut_Push_Unset ==
    /\ cpc = "push"
    /\ queue' = Append(queue, NULL)
    /\ cpc' = "signal"
    /\ UNCHANGED <<mu, wpc, task, arg, todo, ran, spurious>>

Push ==
    /\ cpc = "push"
    /\ queue' = Append(queue, arg)
    /\ cpc' = "signal"
    /\ UNCHANGED <<mu, wpc, task, arg, todo, ran, spurious>>

(* Mutants: no signal at all; a signal only when the deque was empty.        *)
Mut_Signal_Never ==
    /\ cpc = "signal"
    /\ cpc' = "unlock"
    /\ UNCHANGED <<mu, queue, wpc, task, arg, todo, ran, spurious>>

Mut_Signal_WhenEmpty ==
    /\ cpc = "signal"
    /\ IF Sleeping = {} \/ Len(queue) > 1 THEN UNCHANGED wpc
       ELSE \E w \in Sleeping : wpc' = [wpc EXCEPT ![w] = "woken"]
    /\ cpc' = "unlock"
    /\ UNCHANGED <<mu, queue, task, arg, todo, ran, spurious>>

(* pthread_cond_signal wakes one waiter, if there is any.                    *)
Signal ==
    /\ cpc = "signal"
    /\ IF Sleeping = {} THEN UNCHANGED wpc
       ELSE \E w \in Sleeping : wpc' = [wpc EXCEPT ![w] = "woken"]
    /\ cpc' = "unlock"
    /\ UNCHANGED <<mu, queue, task, arg, todo, ran, spurious>>

ClientUnlock ==
    /\ cpc = "unlock"
    /\ mu' = NULL
    /\ arg' = NULL
    /\ cpc' = "idle"
    /\ UNCHANGED <<queue, wpc, task, todo, ran, spurious>>

-----------------------------------------------------------------------------
Init ==
    /\ mu = NULL
    /\ queue = << >>
    /\ wpc = [w \in Workers |-> "lock"]
    /\ task = [w \in Workers |-> NULL]
    /\ cpc = "idle"
    /\ arg = NULL
    /\ todo = Tasks
    /\ ran = [x \in Tasks |-> 0]
    /\ spurious = 0

WorkerStep(w) == Lock(w) \/ Wait(w) \/ Pop(w) \/ Run(w)
ClientStep == ClientLock \/ Push \/ Signal \/ ClientUnlock

Next ==
    \/ \E w \in Workers : WorkerStep(w) \/ SpuriousWakeup(w)
    \/ \E x \in Tasks : Call(x)
    \/ ClientStep

Spec == Init /\ [][Next]_vars

(* Threads that can run do run; nobody has to call thread_pool_queue, and no *)
(* waiter is owed a wakeup without a signal.                                 *)
FairSpec ==
    /\ Spec
    /\ \A w \in Workers : WF_vars(WorkerStep(w))
    /\ WF_vars(ClientStep)

-----------------------------------------------------------------------------
TypeOK ==
    /\ mu \in Workers \cup {Client, NULL}
    /\ queue \in Seq(Tasks)
    /\ wpc \in [Workers -> {"lock", "test", "wait", "woken", "run"}]
    /\ task \in [Workers -> Tasks \cup {NULL}]
    /\ cpc \in {"idle", "lock", "push", "signal", "unlock"}
    /\ arg \in Tasks \cup {NULL}
    /\ todo \subseteq Tasks
    /\ ran \in [Tasks -> Nat]
    /\ spurious \in 0..MaxSpurious

(* The threads between a lock and the matching unlock or cond_wait.          *)
InCritical ==
    {w \in Workers : wpc[w] = "test"}
        \cup (IF cpc \in {"push", "signal", "unlock"} THEN {Client} ELSE {})

(* The deque is only touched by the thread that holds the mutex, also when   *)
(* waiters come back from pthread_cond_wait; and no thread holds it anywhere *)
(* else: a worker that runs a long task, or sleeps, keeps nobody from the    *)
(* deque.                                                                    *)
MutualExclusion == \A p \in Workers \cup {Client} : mu = p <=> p \in InCritical

(* A task is in one place at a time: with the client, in the deque, in one   *)
(* worker's hands, or done.  It is never lost and never run twice.           *)
ExactlyOnce ==
    \A x \in Tasks :
        (IF x \in todo \/ (x = arg /\ cpc \in {"lock", "push"}) THEN 1 ELSE 0)
          + Cardinality({i \in DOMAIN queue : queue[i] = x})
          + Cardinality({w \in Workers : task[w] = x})
          + ran[x] = 1

(* While a worker sleeps, every queued task has a worker of its own that is  *)
(* awake and on its way to the deque: one signal per push is enough for the  *)
(* pool never to leave a worker idle beside waiting work.                    *)
NoIdleBesideWork ==
    cpc # "signal" /\ Sleeping # {} =>
        Cardinality({w \in Workers : wpc[w] \in {"lock", "woken", "test"}})
            >= Len(queue)

(* Every call of thread_pool_queue returns and every task it queues is run   *)
(* by some worker: no wakeup is lost, no waiter sleeps with the mutex.       *)
EveryTaskRuns == \A x \in Tasks : x \notin todo ~> ran[x] = 1

TP == INSTANCE TaskPool
(* The pool is a queue of tasks for its workers, taken in order.             *)
ImplementsTaskPool == TP!TPSpec
=============================================================================
