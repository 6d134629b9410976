------------------------- MODULE BackgroundExecutor -------------------------
(* The shared bounded executor (backend/src/agents/background.py): a thread  *)
(* pool behind a semaphore that counts the tasks accepted and not yet over.  *)
(* A permit is taken by the caller and given back by the task, or by the     *)
(* caller when the task will never run.                                      *)
EXTENDS Integers, FiniteSets

CONSTANTS Tasks,      \* calls of submit_background_task and run_with_timeout
          Workers,    \* _MAX_WORKERS
          Capacity    \* _MAX_QUEUED

ASSUME ExecutorBounds == /\ {Workers, Capacity} \subseteq Nat \ {0}
                         /\ Workers <= Capacity /\ IsFiniteSet(Tasks)

VARIABLES permits,    \* _CAPACITY
          task        \* where each task is

executor == <<permits, task>>

TaskStates == {"new", "queued", "running", "over", "cancelled", "refused"}

ExecutorTypeOK == /\ permits \in Int
                  /\ task \in [Tasks -> TaskStates]

ExecutorInit == /\ permits = Capacity
                /\ task = [t \in Tasks |-> "new"]

Running == {t \in Tasks : task[t] = "running"}
Accepted == {t \in Tasks : task[t] \in {"queued", "running"}}

(* The non-blocking acquire, and the submission to the pool *)
Submit(t) == /\ task[t] = "new" /\ permits > 0
             /\ permits' = permits - 1
             /\ task' = [task EXCEPT ![t] = "queued"]

Refuse(t) == /\ task[t] = "new" /\ permits = 0
             /\ task' = [task EXCEPT ![t] = "refused"]
             /\ UNCHANGED permits

(* A free thread of the pool takes the task up *)
Take(t) == /\ task[t] = "queued" /\ Cardinality(Running) < Workers
           /\ task' = [task EXCEPT ![t] = "running"]
           /\ UNCHANGED permits

(* _run: the finally gives the permit back, whoever still waits *)
Finish(t) == /\ task[t] = "running"
             /\ task' = [task EXCEPT ![t] = "over"]
             /\ permits' = permits + 1

(* Mutant: whoever times out gives the permit back *)
TimeOutReleases(t) == /\ task[t] \in {"queued", "running"}
                      /\ task' = [task EXCEPT ![t] = IF @ = "queued" THEN "cancelled" ELSE @]
                      /\ permits' = permits + 1

(* The caller of run_with_timeout stops waiting.  cancel() succeeds only     *)
(* before the pool took the task; a running one keeps its permit.            *)
TimeOut(t) == IF task[t] = "queued"
              THEN /\ task' = [task EXCEPT ![t] = "cancelled"]
                   /\ permits' = permits + 1
              ELSE task[t] = "running" /\ UNCHANGED executor

(* A permit for every task accepted and not over: none is lost, so that the  *)
(* executor never refuses for ever, and none is given back twice, so that    *)
(* the queue keeps its bound (the hand-over between the caller that times    *)
(* out and the task that finishes, background.py:61-68).                     *)
PermitsBalance == permits = Capacity - Cardinality(Accepted)
=============================================================================
