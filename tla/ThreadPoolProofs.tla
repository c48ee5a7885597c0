-------------------------- MODULE ThreadPoolProofs --------------------------
(***************************************************************************)
(* Proofs about the thread pool for any number of workers and tasks.       *)
(***************************************************************************)
EXTENDS ThreadPool, FiniteSetTheorems, TLAPS

-----------------------------------------------------------------------------
(* The mutex: only the thread that is between lock and unlock holds it, and  *)
(* the locals say what they should at each place of the code.                *)
LockInv ==
    /\ MutualExclusion
    /\ \A w \in Workers : task[w] # NULL <=> wpc[w] = "run"
    /\ cpc # "idle" => arg \in Tasks

MInv == TypeOK /\ LockInv

LEMMA InitMInv == Init => MInv
BY ThreadPoolAssumption DEF Init, MInv, TypeOK, LockInv, MutualExclusion, InCritical

LEMMA StepMInv == MInv /\ [Next]_vars => MInv'
<1> SUFFICES ASSUME MInv, [Next]_vars PROVE MInv'
  OBVIOUS
<1> USE ThreadPoolAssumption DEF MInv, TypeOK, LockInv, MutualExclusion, InCritical
<1>1. ASSUME NEW w \in Workers, Lock(w) PROVE MInv'
  BY <1>1 DEF Lock
<1>2. ASSUME NEW w \in Workers, Wait(w) PROVE MInv'
  BY <1>2 DEF Wait
<1>3. ASSUME NEW w \in Workers, Pop(w) PROVE MInv'
  BY <1>3 DEF Pop
<1>4. ASSUME NEW w \in Workers, Run(w) PROVE MInv'
  BY <1>4 DEF Run
<1>5. ASSUME NEW w \in Workers, SpuriousWakeup(w) PROVE MInv'
  BY <1>5 DEF SpuriousWakeup
<1>6. ASSUME NEW x \in Tasks, Call(x) PROVE MInv'
  BY <1>6 DEF Call
<1>7. CASE ClientLock
  BY <1>7 DEF ClientLock
<1>8. CASE Push
  BY <1>8 DEF Push
<1>9. CASE Signal
  BY <1>9 DEF Signal, Sleeping
<1>10. CASE ClientUnlock
  BY <1>10 DEF ClientUnlock
<1>11. CASE UNCHANGED vars
  BY <1>11 DEF vars
<1> QED
  BY <1>1, <1>2, <1>3, <1>4, <1>5, <1>6, <1>7, <1>8, <1>9, <1>10, <1>11
     DEF Next, WorkerStep, ClientStep

LEMMA LockInvariant == Spec => []MInv
BY InitMInv, StepMInv, PTL DEF Spec

(* Every variable of the pool keeps its type; in particular the deque holds  *)
(* nothing but submitted work.                                               *)
THEOREM TypeCorrect == Spec => []TypeOK
<1>1. MInv => TypeOK
  BY DEF MInv
<1> QED
  BY <1>1, LockInvariant, PTL

(* thread_pool_queue and worker touch the deque under the mutex only, with   *)
(* any number of workers coming back from pthread_cond_wait, and hold it     *)
(* nowhere else, least of all while w.f(w.arg) runs.                         *)
THEOREM MutexCorrect == Spec => []MutualExclusion
<1>1. MInv => MutualExclusion
  BY DEF MInv, LockInv
<1> QED
  BY <1>1, LockInvariant, PTL
-----------------------------------------------------------------------------
(* The deque with its mutex is an abstract queue: the push inside the lock   *)
(* is the submission, the pop is the hand-over, and everything else,         *)
(* wakeups included, changes nothing a client of the pool can see.           *)
THEOREM PoolRefinesTaskPool == Spec => ImplementsTaskPool
<1>1. Init => TP!TPInit
  BY DEF Init, TP!TPInit
<1>2. MInv /\ [Next]_vars => [TP!TPNext]_(TP!tpVars)
  <2> SUFFICES ASSUME MInv, Next PROVE [TP!TPNext]_(TP!tpVars)
    BY DEF vars, TP!tpVars
  <2> USE DEF TP!tpVars, TP!TPNext
  <2>1. ASSUME NEW w \in Workers, Pop(w) PROVE TP!Take(w)
    BY <2>1, ThreadPoolAssumption DEF Pop, TP!Take, MInv, LockInv
  <2>2. ASSUME NEW w \in Workers, Run(w) PROVE TP!Finish(w)
    BY <2>2 DEF Run, TP!Finish, MInv, LockInv
  <2>3. CASE Push
    <3>1. arg \in Tasks
      BY <2>3 DEF Push, MInv, LockInv
    <3> QED
      BY <2>3, <3>1 DEF Push, TP!Submit
  <2>4. ASSUME NEW w \in Workers, Lock(w) \/ Wait(w) \/ SpuriousWakeup(w)
        PROVE  UNCHANGED <<queue, task>>
    BY <2>4 DEF Lock, Wait, SpuriousWakeup
  <2>5. ASSUME NEW x \in Tasks, Call(x) PROVE UNCHANGED <<queue, task>>
    BY <2>5 DEF Call
  <2>6. CASE ClientLock \/ Signal \/ ClientUnlock
    BY <2>6 DEF ClientLock, Signal, ClientUnlock
  <2> QED
    BY <2>1, <2>2, <2>3, <2>4, <2>5, <2>6 DEF Next, WorkerStep, ClientStep
<1> QED
  BY <1>1, <1>2, LockInvariant, PTL DEF Spec, ImplementsTaskPool, TP!TPSpec

-----------------------------------------------------------------------------
(* Where a task is.  ExactlyOnce counts; what is inductive is that each      *)
(* count is at most one and that exactly one of the places is taken.         *)
WithClient(x) == x \in todo \/ (x = arg /\ cpc \in {"lock", "push"})
InDeque(x)    == \E i \in DOMAIN queue : queue[i] = x
InHands(x)    == \E w \in Workers : task[w] = x

PlaceInv ==
    /\ \A i, j \in DOMAIN queue : queue[i] = queue[j] => i = j
    /\ \A v, w \in Workers : task[v] = task[w] /\ task[v] # NULL => v = w
    /\ \A x \in Tasks :
          /\ ran[x] \in {0, 1}
          /\ WithClient(x) => ~InDeque(x) /\ ~InHands(x) /\ ran[x] = 0
          /\ InDeque(x) => ~InHands(x) /\ ran[x] = 0
          /\ InHands(x) => ran[x] = 0
          /\ ran[x] = 0 => WithClient(x) \/ InDeque(x) \/ InHands(x)
    /\ cpc # "idle" => arg \notin todo

LEMMA InitPlaceInv == Init => PlaceInv
BY ThreadPoolAssumption DEF Init, PlaceInv, WithClient, InDeque, InHands

LEMMA StepPlaceInv == MInv /\ PlaceInv /\ [Next]_vars => PlaceInv'
<1> SUFFICES ASSUME MInv, PlaceInv, [Next]_vars PROVE PlaceInv'
  OBVIOUS
<1> USE ThreadPoolAssumption DEF PlaceInv, WithClient, InDeque, InHands
<1>1. ASSUME NEW w \in Workers, Lock(w) \/ Wait(w) \/ SpuriousWakeup(w) PROVE PlaceInv'
  BY <1>1 DEF Lock, Wait, SpuriousWakeup
<1>2. ASSUME NEW w \in Workers, Pop(w) PROVE PlaceInv'
  <2> HIDE DEF PlaceInv, WithClient, InDeque, InHands
  <2>1. /\ queue \in Seq(Tasks) /\ queue # << >> /\ queue' = Tail(queue)
        /\ task' = [task EXCEPT ![w] = queue[1]]
        /\ task \in [Workers -> Tasks \cup {NULL}] /\ task[w] = NULL
        /\ UNCHANGED <<cpc, arg, todo, ran>>
    BY <1>2 DEF Pop, MInv, LockInv, TypeOK
  <2>2. /\ DOMAIN queue = 1..Len(queue) /\ Len(queue) \in Nat \ {0}
        /\ DOMAIN queue' = 1..(Len(queue) - 1)
        /\ \A i \in 1..(Len(queue) - 1) : queue'[i] = queue[i + 1]
        /\ queue[1] \in Tasks
    BY <2>1
  <2>front. PICK y \in Tasks : y = queue[1]
    BY <2>2
  <2>3. \A i, j \in DOMAIN queue : queue[i] = queue[j] => i = j
    BY DEF PlaceInv
  <2>4. InDeque(y) /\ ~InDeque(y)'
    BY <2>2, <2>front, <2>3 DEF InDeque
  <2>5. \A x : x # y => (InDeque(x)' <=> InDeque(x))
    <3>1. SUFFICES ASSUME NEW x, x # y PROVE InDeque(x)' <=> InDeque(x)
      OBVIOUS
    <3>2. ASSUME NEW i \in DOMAIN queue, queue[i] = x
          PROVE  i - 1 \in DOMAIN queue' /\ queue'[i - 1] = x
      BY <2>2, <2>front, <3>1, <3>2
    <3>3. ASSUME NEW i \in DOMAIN queue', queue'[i] = x
          PROVE  i + 1 \in DOMAIN queue /\ queue[i + 1] = x
      BY <2>2, <3>3
    <3> QED
      BY <3>2, <3>3 DEF InDeque
  <2>6. \A x \in Tasks : InHands(x)' <=> InHands(x) \/ x = y
    BY <2>1, <2>front, ThreadPoolAssumption DEF InHands
  <2>7. \A x : WithClient(x)' <=> WithClient(x)
    BY <2>1 DEF WithClient
  <2>8. \A i, j \in DOMAIN queue' : queue'[i] = queue'[j] => i = j
    BY <2>2, <2>3
  <2>9. \A v, u \in Workers : task'[v] = task'[u] /\ task'[v] # NULL => v = u
    BY <2>1, <2>front, <2>4, ThreadPoolAssumption DEF PlaceInv, InHands
  <2> QED
    BY <2>1, <2>2, <2>4, <2>5, <2>6, <2>7, <2>8, <2>9 DEF PlaceInv
<1>3. ASSUME NEW w \in Workers, Run(w) PROVE PlaceInv'
  BY <1>3 DEF Run, MInv, LockInv, TypeOK
<1>4. ASSUME NEW x \in Tasks, Call(x) PROVE PlaceInv'
  BY <1>4 DEF Call
<1>5. CASE Push
  <2> HIDE DEF PlaceInv, WithClient, InDeque, InHands
  <2>1. /\ queue \in Seq(Tasks) /\ arg \in Tasks /\ queue' = Append(queue, arg)
        /\ cpc = "push" /\ cpc' = "signal"
        /\ UNCHANGED <<task, arg, todo, ran>>
    BY <1>5 DEF Push, MInv, LockInv, TypeOK
  <2>2. /\ DOMAIN queue = 1..Len(queue) /\ Len(queue) \in Nat
        /\ DOMAIN queue' = 1..(Len(queue) + 1)
        /\ \A i \in 1..Len(queue) : queue'[i] = queue[i]
        /\ queue'[Len(queue) + 1] = arg
    BY <2>1
  <2>3. /\ WithClient(arg) /\ ~InDeque(arg) /\ arg \notin todo
        /\ \A i, j \in DOMAIN queue : queue[i] = queue[j] => i = j
    BY <2>1 DEF PlaceInv, WithClient
  <2>4. \A x : InDeque(x)' <=> InDeque(x) \/ x = arg
    BY <2>2 DEF InDeque
  <2>5. \A x : WithClient(x)' <=> WithClient(x) /\ x # arg
    BY <2>1, <2>3 DEF WithClient
  <2>6. \A x : InHands(x)' <=> InHands(x)
    BY <2>1 DEF InHands
  <2>7. \A i, j \in DOMAIN queue' : queue'[i] = queue'[j] => i = j
    BY <2>2, <2>3 DEF InDeque
  <2> QED
    BY <2>1, <2>3, <2>4, <2>5, <2>6, <2>7 DEF PlaceInv
<1>6. CASE ClientLock \/ Signal \/ ClientUnlock
  BY <1>6 DEF ClientLock, Signal, ClientUnlock
<1>7. CASE UNCHANGED vars
  BY <1>7 DEF vars
<1> QED
  BY <1>1, <1>2, <1>3, <1>4, <1>5, <1>6, <1>7 DEF Next, WorkerStep, ClientStep
LEMMA PlaceInvariant == Spec => []PlaceInv
<1>1. Init => PlaceInv
  BY InitPlaceInv
<1>2. MInv /\ PlaceInv /\ [Next]_vars => PlaceInv'
  BY StepPlaceInv
<1> QED
  BY <1>1, <1>2, LockInvariant, PTL DEF Spec

(* A set that holds one element or none.                                     *)
LEMMA AtMostOne ==
    ASSUME NEW S, \A a, b \in S : a = b
    PROVE  Cardinality(S) = IF S = {} THEN 0 ELSE 1
<1>1. CASE S = {}
  BY <1>1, FS_EmptySet
<1>2. CASE S # {}
  <2>1. PICK a \in S : S = {a}
    BY <1>2
  <2> QED
    BY <2>1, FS_Singleton
<1> QED
  BY <1>1, <1>2

(* No task is lost between thread_pool_queue and w.f(w.arg), and none is run *)
(* a second time, whichever workers compete for the deque.                   *)
THEOREM TasksOnce == Spec => []ExactlyOnce
<1>1. MInv /\ PlaceInv => ExactlyOnce
  <2> SUFFICES ASSUME MInv, PlaceInv, NEW x \in Tasks
               PROVE  (IF x \in todo \/ (x = arg /\ cpc \in {"lock", "push"}) THEN 1 ELSE 0)
                        + Cardinality({i \in DOMAIN queue : queue[i] = x})
                        + Cardinality({w \in Workers : task[w] = x})
                        + ran[x] = 1
    BY DEF ExactlyOnce
  <2>1. Cardinality({i \in DOMAIN queue : queue[i] = x}) = IF InDeque(x) THEN 1 ELSE 0
    <3> DEFINE S == {i \in DOMAIN queue : queue[i] = x}
    <3>1. \A a, b \in S : a = b
      BY DEF PlaceInv
    <3>2. S = {} <=> ~InDeque(x)
      BY DEF InDeque
    <3> QED
      BY <3>1, <3>2, AtMostOne
  <2>2. Cardinality({w \in Workers : task[w] = x}) = IF InHands(x) THEN 1 ELSE 0
    <3> DEFINE S == {w \in Workers : task[w] = x}
    <3>1. \A a, b \in S : a = b
      BY ThreadPoolAssumption DEF PlaceInv
    <3>2. S = {} <=> ~InHands(x)
      BY DEF InHands
    <3> QED
      BY <3>1, <3>2, AtMostOne
  <2>3. (x \in todo \/ (x = arg /\ cpc \in {"lock", "push"})) <=> WithClient(x)
    BY DEF WithClient
  <2>4. /\ ran[x] \in {0, 1}
        /\ WithClient(x) => ~InDeque(x) /\ ~InHands(x) /\ ran[x] = 0
        /\ InDeque(x) => ~InHands(x) /\ ran[x] = 0
        /\ InHands(x) => ran[x] = 0
        /\ ran[x] = 0 => WithClient(x) \/ InDeque(x) \/ InHands(x)
    BY DEF PlaceInv
  <2> QED
    BY <2>1, <2>2, <2>3, <2>4
<1> QED
  BY <1>1, LockInvariant, PlaceInvariant, PTL

-----------------------------------------------------------------------------
(* NoIdleBesideWork does not hold between the push and its signal; there one *)
(* task may be waiting for the wakeup that is about to come.                 *)
Awake == {w \in Workers : wpc[w] \in {"lock", "woken", "test"}}
IdleInv ==
    Sleeping # {} =>
        Cardinality(Awake) + (IF cpc = "signal" THEN 1 ELSE 0) >= Len(queue)

LEMMA AwakeFinite ==
    IsFiniteSet(Awake) /\ Cardinality(Awake) \in Nat
<1>1. IsFiniteSet(Awake)
  BY ThreadPoolAssumption, FS_Subset DEF Awake
<1> QED
  BY <1>1, FS_CardinalityType

LEMMA StepIdleInv == MInv /\ IdleInv /\ [Next]_vars => IdleInv'
<1> SUFFICES ASSUME MInv, IdleInv, [Next]_vars PROVE IdleInv'
  OBVIOUS
<1>0. /\ Len(queue) \in Nat /\ queue \in Seq(Tasks)
      /\ wpc \in [Workers -> {"lock", "test", "wait", "woken", "run"}]
      /\ IsFiniteSet(Awake) /\ Cardinality(Awake) \in Nat
  BY AwakeFinite DEF MInv, TypeOK
<1>1. ASSUME NEW w \in Workers, Lock(w) PROVE IdleInv'
  <2>1. Awake' = Awake /\ Sleeping' = Sleeping /\ cpc' = cpc /\ queue' = queue
    BY <1>0, <1>1 DEF Lock, Awake, Sleeping
  <2> QED
    BY <2>1 DEF IdleInv
<1>2. ASSUME NEW w \in Workers, Wait(w) PROVE IdleInv'
  <2>1. queue' = << >>
    BY <1>2 DEF Wait
  <2>2. Cardinality(Awake') \in Nat
    <3>1. Awake' \subseteq Workers
      BY DEF Awake
    <3> QED
      BY <3>1, ThreadPoolAssumption, FS_Subset, FS_CardinalityType
  <2> QED
    BY <2>1, <2>2 DEF IdleInv
<1>3. ASSUME NEW w \in Workers, Pop(w) PROVE IdleInv'
  <2>1. Awake' = Awake \ {w} /\ w \in Awake /\ Sleeping' = Sleeping /\ cpc' = cpc
    BY <1>0, <1>3 DEF Pop, Awake, Sleeping
  <2>2. Len(queue') = Len(queue) - 1
    BY <1>0, <1>3 DEF Pop
  <2>3. Cardinality(Awake') = Cardinality(Awake) - 1
    BY <1>0, <2>1, FS_RemoveElement
  <2> QED
    BY <1>0, <2>1, <2>2, <2>3 DEF IdleInv
<1>4. ASSUME NEW w \in Workers, Run(w) PROVE IdleInv'
  <2>1. Awake' = Awake \cup {w} /\ w \notin Awake /\ Sleeping' = Sleeping
        /\ cpc' = cpc /\ queue' = queue
    BY <1>0, <1>4 DEF Run, Awake, Sleeping
  <2>2. Cardinality(Awake') = Cardinality(Awake) + 1
    BY <1>0, <2>1, FS_AddElement
  <2> QED
    BY <1>0, <2>1, <2>2 DEF IdleInv
<1>5. ASSUME NEW w \in Workers, SpuriousWakeup(w) PROVE IdleInv'
  <2>1. Awake' = Awake \cup {w} /\ w \notin Awake /\ Sleeping # {}
        /\ cpc' = cpc /\ queue' = queue
    BY <1>0, <1>5 DEF SpuriousWakeup, Awake, Sleeping
  <2>2. Cardinality(Awake') = Cardinality(Awake) + 1
    BY <1>0, <2>1, FS_AddElement
  <2> QED
    BY <1>0, <2>1, <2>2 DEF IdleInv
<1>6. ASSUME NEW x \in Tasks, Call(x) PROVE IdleInv'
  BY <1>6 DEF Call, IdleInv, Awake, Sleeping
<1>7. CASE ClientLock \/ ClientUnlock
  BY <1>7 DEF ClientLock, ClientUnlock, IdleInv, Awake, Sleeping
<1>8. CASE Push
  <2>1. Awake' = Awake /\ Sleeping' = Sleeping /\ cpc = "push" /\ cpc' = "signal"
        /\ Len(queue') = Len(queue) + 1
    BY <1>0, <1>8 DEF Push, Awake, Sleeping
  <2> QED
    BY <1>0, <2>1 DEF IdleInv
<1>9. CASE Signal
  <2>1. cpc = "signal" /\ cpc' = "unlock" /\ queue' = queue
    BY <1>9 DEF Signal
  <2>2. CASE Sleeping = {}
    BY <1>9, <2>2 DEF Signal, IdleInv, Sleeping
  <2>3. CASE Sleeping # {}
    <3>1. PICK w \in Sleeping : wpc' = [wpc EXCEPT ![w] = "woken"]
      BY <1>9, <2>3 DEF Signal
    <3>2. Awake' = Awake \cup {w} /\ w \notin Awake
      BY <1>0, <3>1 DEF Awake, Sleeping
    <3>3. Cardinality(Awake') = Cardinality(Awake) + 1
      BY <1>0, <3>2, FS_AddElement
    <3> QED
      BY <1>0, <2>1, <2>3, <3>3 DEF IdleInv
  <2> QED
    BY <2>2, <2>3
<1>10. CASE UNCHANGED vars
  BY <1>10 DEF vars, IdleInv, Awake, Sleeping
<1> QED
  BY <1>1, <1>2, <1>3, <1>4, <1>5, <1>6, <1>7, <1>8, <1>9, <1>10
     DEF Next, WorkerStep, ClientStep

(* One pthread_cond_signal per push is enough, for any number of workers and *)
(* any number of wakeups without a signal: no worker sleeps while tasks      *)
(* outnumber the workers that are on their way to the deque.                 *)
THEOREM NoWakeupLost == Spec => []NoIdleBesideWork
<1>1. Init => IdleInv
  BY DEF Init, IdleInv, Sleeping
<1>2. MInv /\ IdleInv => NoIdleBesideWork
  <2> SUFFICES ASSUME MInv, IdleInv, cpc # "signal", Sleeping # {}
               PROVE  Cardinality(Awake) >= Len(queue)
    BY DEF NoIdleBesideWork, Awake
  <2>1. Len(queue) \in Nat
    BY DEF MInv, TypeOK
  <2>2. Cardinality(Awake) \in Nat
    BY AwakeFinite
  <2> QED
    BY <2>1, <2>2 DEF IdleInv
<1> QED
  BY <1>1, <1>2, StepIdleInv, LockInvariant, PTL DEF Spec
=============================================================================
