------------------------------ MODULE TaskPool ------------------------------
(***************************************************************************)
(* What the server relies on when it hands work to the thread pool: tasks  *)
(* are taken in the order of submission, each by one worker, once.  No     *)
(* mutex, no condition variable.                                           *)
(***************************************************************************)
EXTENDS Sequences

CONSTANTS Tasks,    (* the work items a client can submit *)
          Workers,  (* the threads of the pool            *)
          NULL      (* no task                            *)

VARIABLES queue,  (* TheadPool::queue                        *)
          task    (* the task each worker has in hand, or NULL *)

tpVars == <<queue, task>>

TPInit ==
    /\ queue = << >>
    /\ task = [w \in Workers |-> NULL]

Submit(x) ==
    /\ queue' = Append(queue, x)
    /\ UNCHANGED task

Take(w) ==
    /\ task[w] = NULL
    /\ queue # << >>
    /\ task' = [task EXCEPT ![w] = Head(queue)]
    /\ queue' = Tail(queue)

Finish(w) ==
    /\ task[w] # NULL
    /\ task' = [task EXCEPT ![w] = NULL]
    /\ UNCHANGED queue

TPNext ==
    \/ \E x \in Tasks : Submit(x)
    \/ \E w \in Workers : Take(w) \/ Finish(w)

TPSpec == TPInit /\ [][TPNext]_tpVars
=============================================================================
