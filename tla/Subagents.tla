----------------------------- MODULE Subagents -----------------------------
(***************************************************************************)
(* Background subagent tasks: subagents/executor.py (the task registry, the *)
(* scheduler and execution pools, timeouts, cancellation, cleanup) and the  *)
(* polling loop of tools/builtins/task_tool.py.                             *)
(*                                                                          *)
(* Per task there are three threads: the tool call that polls, the          *)
(* scheduler worker that runs run_task, and the execution worker that runs  *)
(* _aexecute.  They share one SubagentResult object, which the execution    *)
(* worker writes without the registry lock and keeps a reference to after   *)
(* the registry entry is gone.  One Tick is one poll interval (5 s): work   *)
(* between two sleeps takes less than a tick, an LLM stream may take        *)
(* forever.                                                                 *)
(***************************************************************************)
EXTENDS Naturals, Sequences, FiniteSets

CONSTANTS
    Tasks,       \* tool-call ids, each used for one task
    Threads,     \* conversation threads
    ThreadOf,    \* the conversation thread a task belongs to
    MaxWorkers,  \* MAX_CONCURRENT_SUBAGENTS: workers in each of the two pools
    Timeout,     \* config.timeout_seconds, in poll intervals
    Buffer       \* the 60 s added to it for polling, in poll intervals

ASSUME SubagentsAssumption ==
    /\ ThreadOf \in [Tasks -> Threads]
    /\ MaxWorkers \in Nat \ {0}
    /\ Timeout \in Nat \ {0}
    /\ Buffer \in Nat

VARIABLES
    registry,    \* keys of _background_tasks
    status, result, completed_at, cancel_requested,  \* the SubagentResult objects
    schedQ, sched, waited, delay, \* scheduler pool: queue, run_task's place, its timer, ticks queued
    execQ, exec, age,        \* execution pool: queue, _aexecute's place, asyncio.timeout's timer
    poller, polls, verdict   \* the polling loop: its place, poll_count, what the tool call reported

object == <<status, result, completed_at, cancel_requested>>
scheduler == <<schedQ, sched, waited, delay>>
execution == <<execQ, exec, age>>
polling == <<poller, polls, verdict>>
vars == <<registry, object, scheduler, execution, polling>>

Statuses == {"pending", "running", "completed", "failed", "timed_out"}
Terminal == {"completed", "failed", "timed_out"}
SchedStates == {"none", "queued", "waiting", "expiring", "done"}
ExecStates == {"none", "queued", "streaming", "answered", "returned", "cancelled"}
PollStates == {"idle", "polling", "sleeping", "awake", "cleaning", "done"}
Verdicts == {"none", "completed", "failed", "timed_out", "disappeared", "poll_timeout"}

\* One type invariant for the registry, the shared objects and the three threads of a task.
TypeOK ==
    /\ registry \subseteq Tasks
    /\ status \in [Tasks -> Statuses]
    /\ result \in [Tasks -> BOOLEAN]
    /\ completed_at \in [Tasks -> BOOLEAN]
    /\ cancel_requested \in [Tasks -> BOOLEAN]
    /\ schedQ \in Seq(Tasks)
    /\ sched \in [Tasks -> SchedStates]
    /\ waited \in [Tasks -> 0 .. Timeout]
    /\ delay \in [Tasks -> Nat]
    /\ execQ \in Seq(Tasks)
    /\ exec \in [Tasks -> ExecStates]
    /\ age \in [Tasks -> 0 .. Timeout]
    /\ poller \in [Tasks -> PollStates]
    /\ polls \in [Tasks -> 0 .. Timeout + Buffer + 1]
    /\ verdict \in [Tasks -> Verdicts]

Init ==
    /\ registry = {}
    /\ status = [t \in Tasks |-> "pending"]
    /\ result = [t \in Tasks |-> FALSE]
    /\ completed_at = [t \in Tasks |-> FALSE]
    /\ cancel_requested = [t \in Tasks |-> FALSE]
    /\ schedQ = <<>>
    /\ sched = [t \in Tasks |-> "none"]
    /\ waited = [t \in Tasks |-> 0]
    /\ delay = [t \in Tasks |-> 0]
    /\ execQ = <<>>
    /\ exec = [t \in Tasks |-> "none"]
    /\ age = [t \in Tasks |-> 0]
    /\ poller = [t \in Tasks |-> "idle"]
    /\ polls = [t \in Tasks |-> 0]
    /\ verdict = [t \in Tasks |-> "none"]

SchedBusy == {t \in Tasks : sched[t] \in {"waiting", "expiring"}}
ExecBusy == {t \in Tasks : exec[t] \in {"streaming", "answered"}}
SchedWorkerFree == Cardinality(SchedBusy) < MaxWorkers
ExecWorkerFree == Cardinality(ExecBusy) < MaxWorkers

\* Mutant: the buffer is forgotten.
MaxPollCountNoBuffer == Timeout

\* max_poll_count of the polling loop.
MaxPollCount == Timeout + Buffer

(***************************************************************************)
(* The scheduler pool: execute_async and run_task.                          *)
(***************************************************************************)

\* The tool call registers the task, submits run_task and starts polling.
ExecuteAsync(t) ==
    /\ poller[t] = "idle"
    /\ registry' = registry \cup {t}
    /\ schedQ' = Append(schedQ, t)
    /\ sched' = [sched EXCEPT ![t] = "queued"]
    /\ poller' = [poller EXCEPT ![t] = "polling"]
    /\ UNCHANGED <<object, waited, delay, execution, polls, verdict>>

\* A scheduler worker takes run_task: the status is set whatever it was, a
\* missing entry raises KeyError and ends the job.
RunTask(t) ==
    /\ schedQ # <<>> /\ t = Head(schedQ)
    /\ SchedWorkerFree
    /\ schedQ' = Tail(schedQ)
    /\ \/ /\ t \in registry
          /\ status' = [status EXCEPT ![t] = "running"]
          /\ sched' = [sched EXCEPT ![t] = "waiting"]
          /\ execQ' = Append(execQ, t)
          /\ exec' = [exec EXCEPT ![t] = "queued"]
       \/ /\ t \notin registry
          /\ sched' = [sched EXCEPT ![t] = "done"]
          /\ UNCHANGED <<status, execQ, exec>>
    /\ UNCHANGED <<registry, result, completed_at, cancel_requested, waited, delay, age, polling>>

\* Mutant: cancel_requested is not looked at again.
WriteBackUnchecked(t) ==
    IF t \notin registry
    THEN UNCHANGED <<status, completed_at>>
    ELSE completed_at' = [completed_at EXCEPT ![t] = TRUE] /\ UNCHANGED status

\* The scheduler's write-back: exec_result is the registered object itself, so
\* without a cancel only completed_at is stamped; without an entry it raises.
WriteBack(t) ==
    IF t \notin registry
    THEN UNCHANGED <<status, completed_at>>
    ELSE /\ status' = IF cancel_requested[t]
                      THEN [status EXCEPT ![t] = "failed"] ELSE status
         /\ completed_at' = [completed_at EXCEPT ![t] = TRUE]

\* Mutant: the executor removes the entry of a task it has finished.
RunTaskFinishAndRemove(t) ==
    /\ sched[t] = "waiting" /\ exec[t] = "returned"
    /\ registry' = registry \ {t}
    /\ sched' = [sched EXCEPT ![t] = "done"]
    /\ UNCHANGED <<object, schedQ, waited, delay, execution, polling>>

\* future.result() returned in time.
RunTaskFinish(t) ==
    /\ sched[t] = "waiting" /\ exec[t] = "returned"
    /\ WriteBack(t)
    /\ sched' = [sched EXCEPT ![t] = "done"]
    /\ UNCHANGED <<registry, result, cancel_requested, schedQ, waited, delay, execution, polling>>

\* Mutant: future.result() without a timeout.
RunTaskTimeoutNever(t) == FALSE

\* future.result() raised TimeoutError; the lock is not taken yet.
RunTaskTimeout(t) ==
    /\ sched[t] = "waiting" /\ waited[t] = Timeout /\ exec[t] # "returned"
    /\ sched' = [sched EXCEPT ![t] = "expiring"]
    /\ UNCHANGED <<registry, object, schedQ, waited, delay, execution, polling>>

\* Mutant: the future is not cancelled.
CancelFutureNot(t) == exec' = exec

\* future.cancel() only stops work that no worker has taken.
CancelFuture(t) ==
    exec' = IF exec[t] = "queued" THEN [exec EXCEPT ![t] = "cancelled"] ELSE exec

\* The timeout is recorded under the lock and the future is cancelled; with no
\* entry the KeyError skips the cancel.
RunTaskExpire(t) ==
    /\ sched[t] = "expiring"
    /\ sched' = [sched EXCEPT ![t] = "done"]
    /\ \/ /\ t \in registry
          /\ status' = [status EXCEPT ![t] = "timed_out"]
          /\ completed_at' = [completed_at EXCEPT ![t] = TRUE]
          /\ CancelFuture(t)
       \/ /\ t \notin registry
          /\ UNCHANGED <<status, completed_at, exec>>
    /\ UNCHANGED <<registry, result, cancel_requested, schedQ, waited, delay, execQ, age, polling>>

(***************************************************************************)
(* The execution pool: _aexecute, without the registry lock.                *)
(***************************************************************************)

\* An execution worker takes the next future and drops it if it was cancelled.
ExecStart(t) ==
    /\ execQ # <<>> /\ t = Head(execQ)
    /\ ExecWorkerFree
    /\ execQ' = Tail(execQ)
    /\ exec' = IF exec[t] = "queued" THEN [exec EXCEPT ![t] = "streaming"] ELSE exec
    /\ UNCHANGED <<registry, object, scheduler, age, polling>>

\* _aexecute ends without an answer.
ExecEnd(t, st) ==
    /\ status' = [status EXCEPT ![t] = st]
    /\ completed_at' = [completed_at EXCEPT ![t] = TRUE]
    /\ exec' = [exec EXCEPT ![t] = "returned"]
    /\ UNCHANGED <<registry, result, cancel_requested, scheduler, execQ, age, polling>>

\* A chunk, or the end of the stream, finds cancel_requested set.
ExecSeesCancel(t) ==
    /\ exec[t] = "streaming" /\ cancel_requested[t]
    /\ ExecEnd(t, "failed")

\* The agent raised.
ExecError(t) ==
    /\ exec[t] = "streaming"
    /\ ExecEnd(t, "failed")

\* asyncio.timeout fired inside the stream.
ExecTimeout(t) ==
    /\ exec[t] = "streaming" /\ age[t] = Timeout
    /\ ExecEnd(t, "timed_out")

\* Mutant: an empty final state stores no answer.
ExecAnswerNothing(t) ==
    /\ exec[t] = "streaming" /\ ~cancel_requested[t]
    /\ exec' = [exec EXCEPT ![t] = "answered"]
    /\ UNCHANGED <<registry, object, scheduler, execQ, age, polling>>

\* The stream ended, no cancel was seen, and the answer is stored.
ExecAnswer(t) ==
    /\ exec[t] = "streaming" /\ ~cancel_requested[t]
    /\ result' = [result EXCEPT ![t] = TRUE]
    /\ exec' = [exec EXCEPT ![t] = "answered"]
    /\ UNCHANGED <<registry, status, completed_at, cancel_requested, scheduler, execQ, age, polling>>

\* Then the status is published, with no second look at cancel_requested.
ExecComplete(t) ==
    /\ exec[t] = "answered"
    /\ ExecEnd(t, "completed")

(***************************************************************************)
(* Cancellation and the polling loop.                                       *)
(***************************************************************************)

\* The entries cancel_background_tasks_for_thread marks.
Cancellable(th) == {t \in registry : ThreadOf[t] = th /\ status[t] \notin Terminal}

\* The user stops a conversation thread.
CancelThread(th) ==
    /\ Cancellable(th) # {}
    /\ cancel_requested' = [t \in Tasks |-> cancel_requested[t] \/ t \in Cancellable(th)]
    /\ status' = [t \in Tasks |-> IF t \in Cancellable(th) THEN "failed" ELSE status[t]]
    /\ completed_at' = [t \in Tasks |-> completed_at[t] \/ t \in Cancellable(th)]
    /\ UNCHANGED <<registry, result, scheduler, execution, polling>>

\* One turn of the loop: a missing entry or a terminal status is the verdict.
Poll(t) ==
    /\ poller[t] = "polling"
    /\ \/ /\ t \notin registry
          /\ verdict' = [verdict EXCEPT ![t] = "disappeared"]
          /\ poller' = [poller EXCEPT ![t] = "done"]
       \/ /\ t \in registry /\ status[t] \in Terminal
          /\ verdict' = [verdict EXCEPT ![t] = status[t]]
          /\ poller' = [poller EXCEPT ![t] = "cleaning"]
       \/ /\ t \in registry /\ status[t] \notin Terminal
          /\ poller' = [poller EXCEPT ![t] = "sleeping"]
          /\ UNCHANGED verdict
    /\ UNCHANGED <<registry, object, scheduler, execution, polls>>

\* cleanup_background_task after a verdict.
Cleanup(t) ==
    /\ poller[t] = "cleaning"
    /\ registry' = IF status[t] \in Terminal \/ completed_at[t]
                   THEN registry \ {t} ELSE registry
    /\ poller' = [poller EXCEPT ![t] = "done"]
    /\ UNCHANGED <<object, scheduler, execution, polls, verdict>>

\* The sleep is over: count it, and past the limit give up without a cleanup.
PollWake(t) ==
    /\ poller[t] = "awake"
    /\ polls' = [polls EXCEPT ![t] = @ + 1]
    /\ IF polls[t] + 1 > MaxPollCount
       THEN /\ verdict' = [verdict EXCEPT ![t] = "poll_timeout"]
            /\ poller' = [poller EXCEPT ![t] = "done"]
       ELSE /\ poller' = [poller EXCEPT ![t] = "polling"]
            /\ UNCHANGED verdict
    /\ UNCHANGED <<registry, object, scheduler, execution>>

(***************************************************************************)
(* Time.                                                                    *)
(***************************************************************************)

\* No thread has work that takes less than a tick: pollers sleep, free workers
\* have no queued job, and no scheduler is about to wake.
Quiescent ==
    /\ \A t \in Tasks : poller[t] \in {"idle", "sleeping", "done"}
    /\ schedQ = <<>> \/ ~SchedWorkerFree
    /\ execQ = <<>> \/ ~ExecWorkerFree
    /\ \A t \in SchedBusy :
          sched[t] = "waiting" /\ waited[t] < Timeout /\ exec[t] # "returned"

Tick ==
    /\ Quiescent
    /\ \E t \in Tasks : \/ poller[t] = "sleeping"
                        \/ sched[t] \in {"queued", "waiting"}
                        \/ exec[t] = "streaming" /\ age[t] < Timeout
    /\ poller' = [t \in Tasks |-> IF poller[t] = "sleeping" THEN "awake" ELSE poller[t]]
    /\ waited' = [t \in Tasks |-> IF sched[t] = "waiting" THEN waited[t] + 1 ELSE waited[t]]
    /\ delay' = [t \in Tasks |-> IF sched[t] = "queued" THEN delay[t] + 1 ELSE delay[t]]
    /\ age' = [t \in Tasks |-> IF exec[t] = "streaming" /\ age[t] < Timeout
                               THEN age[t] + 1 ELSE age[t]]
    /\ UNCHANGED <<registry, object, schedQ, sched, execQ, exec, polls, verdict>>

----------------------------------------------------------------------------
SchedulerStep(t) ==
    RunTask(t) \/ RunTaskFinish(t) \/ RunTaskTimeout(t) \/ RunTaskExpire(t)

ExecutionStep(t) ==
    \/ ExecStart(t) \/ ExecSeesCancel(t) \/ ExecError(t)
    \/ ExecTimeout(t) \/ ExecAnswer(t) \/ ExecComplete(t)

PollerStep(t) == Poll(t) \/ Cleanup(t) \/ PollWake(t)

Next ==
    \/ \E t \in Tasks : ExecuteAsync(t) \/ SchedulerStep(t) \/ ExecutionStep(t) \/ PollerStep(t)
    \/ \E th \in Threads : CancelThread(th)
    \/ Tick

Spec == Init /\ [][Next]_vars

\* Of the threads that have a step some one goes on, and time passes; nothing
\* makes an LLM stream end.
ThreadStep(t) == SchedulerStep(t) \/ PollerStep(t) \/ ExecStart(t) \/ ExecComplete(t)
Fairness == WF_vars(\E t \in Tasks : ThreadStep(t)) /\ WF_vars(Tick)

FairSpec == Spec /\ Fairness

----------------------------------------------------------------------------
(* Properties.                                                              *)

\* A tool call that reports success has an answer to report: the execution
\* worker stores the result before it publishes the status, and every other
\* writer of the shared object leaves a published answer alone
\* (executor.py:354-383, task_tool.py:621).
SuccessHasResult ==
    \A t \in Tasks : status[t] = "completed" \/ verdict[t] = "completed" => result[t]

\* A cancel that raced with the last lines of the execution is healed: once
\* run_task wrote its result back, a cancelled task still in the registry is
\* failed, unless the scheduler had already given up on it (executor.py:480-485).
SettledCancelIsFailed ==
    \A t \in registry :
        /\ sched[t] = "done" /\ cancel_requested[t]
        /\ waited[t] < Timeout
        => status[t] = "failed"

\* A tool call never loses its task: only its own cleanup removes the entry
\* (executor.py:556-590, task_tool.py:455-459).
NeverDisappears == \A t \in Tasks : verdict[t] # "disappeared"

\* The polling limit is a net below the scheduler's timeout: it is reached only
\* by a task that sat in the scheduler queue for at least the buffer
\* (task_tool.py:377-380, 735-741).
PollTimeoutMeansQueued ==
    \A t \in Tasks : verdict[t] = "poll_timeout" => delay[t] >= Buffer

\* Once the scheduler has let go of a task, no execution of it begins, unless
\* the task was cancelled, which the execution notices at once: a future that
\* is still queued is cancelled with it (executor.py:492-499).
NoOrphanStart ==
    [][\A t \in Tasks : exec[t] # "streaming" /\ exec'[t] = "streaming"
          => sched[t] # "done" \/ cancel_requested[t]]_vars

\* No queued task starves: a scheduler worker is held for one timeout at most,
\* even by executions that never end (executor.py:479, 492-499).
QueuedTasksRun == \A t \in Tasks : sched[t] = "queued" ~> sched[t] # "queued"

\* What the docstring of cancel_background_tasks_for_thread promises: a
\* cancelled task shows a terminal failed result to its poller from then on
\* (executor.py:537-539).
CancelledShowsFailed ==
    \A t \in registry : cancel_requested[t] => status[t] = "failed"
=============================================================================
