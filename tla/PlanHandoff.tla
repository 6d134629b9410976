----------------------------- MODULE PlanHandoff -----------------------------
(* The plan of one thread, from the planner's draft to the Work Mode run     *)
(* that executes it (backend/src/agents/middlewares: planner_middleware.py,  *)
(* plan_execution.py, work_run_handoff.py, and /plan/execute, /plan/clarify  *)
(* of gateway/routers/steering.py).  The plan is one value of the thread's   *)
(* state: everybody reads it, computes, and writes it whole.  There are two  *)
(* ways to execute it: a run created on the LangGraph server by the gateway, *)
(* and a daemon spawned by the planner.  Runs of the server take turns on a  *)
(* thread (external); nothing else does.                                     *)
EXTENDS BackgroundExecutor

CONSTANTS NTurns,        \* bound: turns of the planner (_MAX_DRAFT_REVISIONS)
          NRequests,     \* bound: /plan/execute and /plan/clarify requests
          NQuestions,    \* bound: clarifications of a plan
          NRuns,         \* bound: Work Mode runs created
          MaxAttempts,   \* 1 + work_handoff_retry_attempts
          MaxStale,      \* bound: marks that outlive the five-minute TTL
          Workloads      \* what happens to the thread, of the above: how many of
                         \* each, and the tasks that others give the executor

ASSUME HandoffBounds ==
  /\ {NTurns, NRequests, NRuns, MaxAttempts} \subseteq Nat \ {0}
  /\ {NQuestions, MaxStale} \subseteq Nat
  /\ \A l \in Workloads : /\ l.turns \in 0..NTurns /\ l.requests \in 0..NRequests
                          /\ l.questions \in 0..NQuestions /\ l.runs \in 0..NRuns
                          /\ l.stale \in 0..MaxStale /\ l.others \subseteq Tasks \ (1..NTurns)

Requests == 1..NRequests
Runs == 1..NRuns
Daemons == 1..NTurns         \* a turn spawns at most one
ASSUME DaemonsAreTasks == Daemons \subseteq Tasks

VARIABLES plan,      \* values["plan"]
          active,    \* values["work_mode"]["active"]
          turn,      \* the planner's run
          request,   \* the gateway's handlers
          run,       \* the Work Mode runs of the server
          mark,      \* _IN_FLIGHT_HANDOFFS[thread_id]
          daemon,    \* the hand-off daemons
          stale,     \* marks that expired so far
          handed,    \* a hand-off of some plan succeeded
          workload   \* chosen once

thread == <<plan, active, turn, run, handed>>
handoff == <<mark, daemon, stale>>
vars == <<permits, task, plan, active, turn, request, run, mark, daemon, stale, handed,
          workload>>

Draft(rev, asked) == [rev |-> rev, status |-> "draft", asked |-> asked,
                      index |-> 0, pending |-> asked > 0,
                      started |-> FALSE, failed |-> FALSE]
NoPlan == [Draft(0, 0) EXCEPT !.status = "none"]
Statuses == {"none", "draft", "approved", "executing", "completed"}
Plans == [rev : 0..NTurns, status : Statuses, asked : 0..NQuestions,
          index : 0..NQuestions, pending : BOOLEAN, started : BOOLEAN, failed : BOOLEAN]

TypeOK ==
  /\ ExecutorTypeOK
  /\ plan \in Plans /\ active \in BOOLEAN /\ handed \in BOOLEAN
  /\ turn \in [n : 0..NTurns, pc : {"idle", "planning", "persist"}, auto : BOOLEAN,
               plan : Plans]
  /\ request \in [Requests -> [pc : {"new", "write", "create", "succeed", "clarify", "done"},
                               plan : Plans,
                               out : {"none", "accepted", "duplicate", "conflict", "failed"}]]
  /\ run \in [Runs -> [pc : {"none", "queued", "running", "over"}, plan : Plans]]
  /\ mark \in [by : {0} \cup Daemons, old : BOOLEAN]
  /\ daemon \in [Daemons -> [pc : {"none", "read", "work", "reread", "write", "over"},
                             plan : Plans, attempt : 0..MaxAttempts, ok : BOOLEAN]]
  /\ stale \in 0..MaxStale /\ workload \in Workloads

Unmarked == [by |-> 0, old |-> FALSE]
NoDaemon == [pc |-> "none", plan |-> NoPlan, attempt |-> 0, ok |-> FALSE]

Init ==
  /\ ExecutorInit
  /\ plan = NoPlan /\ active = FALSE /\ handed = FALSE
  /\ turn = [n |-> 0, pc |-> "idle", auto |-> FALSE, plan |-> NoPlan]
  /\ request = [q \in Requests |-> [pc |-> "new", plan |-> NoPlan, out |-> "none"]]
  /\ run = [r \in Runs |-> [pc |-> "none", plan |-> NoPlan]]
  /\ mark = Unmarked
  /\ daemon = [d \in Daemons |-> NoDaemon]
  /\ stale = 0 /\ workload \in Workloads

-----------------------------------------------------------------------------
(* plan_execution.py *)

HandoffAlreadyStarted(p) == ~p.failed /\ p.started

WorkExecutionUnderway(p) == active \/ p.status \in {"executing", "completed"}

(* Mutant: every plan past its draft counts as executed *)
DuplicateByStatus(p) == p.status # "draft"

ShouldDuplicate(p) == HandoffAlreadyStarted(p) /\ WorkExecutionUnderway(p)

MarkRequested(p) == [p EXCEPT !.failed = FALSE]

MarkSucceeded(p) ==
  [p EXCEPT !.status = IF @ = "approved" THEN "executing" ELSE @,
            !.started = TRUE, !.failed = FALSE]

MarkFailed(p) == [p EXCEPT !.started = FALSE, !.failed = TRUE]

AllResolved(p) == p.asked = 0 \/ ~p.pending \/ p.index >= p.asked

IsExecutable(p) == /\ p.status = "approved"
                   /\ ~HandoffAlreadyStarted(p)
                   /\ ~(p.pending /\ ~AllResolved(p))

(* An answer to the current question moves to the next, or ends the asking *)
ClarificationProgress(p) ==
  [p EXCEPT !.index = @ + 1, !.pending = p.index + 1 < p.asked]

ApproveIfAuto(p, auto) ==
  IF auto /\ p.status = "draft" THEN [p EXCEPT !.status = "approved"] ELSE p

-----------------------------------------------------------------------------
(* The server: runs on the thread take turns *)

ServerFree == turn.pc = "idle" /\ \A r \in Runs : run[r].pc # "running"

(* runs.create; the run waits its turn *)
Create(r) ==    /\ run[r].pc = "none"
                /\ r <= workload.runs
                /\ \A s \in Runs : s < r => run[s].pc # "none"
                /\ run' = [run EXCEPT ![r] = [pc |-> "queued", plan |-> NoPlan]]

Ended(r) == run' = [run EXCEPT ![r] = [pc |-> "over", plan |-> NoPlan]]

(* The run's first pass through the Work Mode middleware, on the state it    *)
(* was given; a plan that is not approved is left alone.                     *)
WorkBegin(r) ==
  /\ run[r].pc = "queued" /\ ServerFree
  /\ LET drives == plan.status \in {"approved", "executing", "completed"}
         mine == [plan EXCEPT !.status = IF @ = "approved" THEN "executing" ELSE @]
     IN /\ plan' = mine
        /\ active' = (active \/ drives)
        /\ IF drives THEN run' = [run EXCEPT ![r] = [pc |-> "running", plan |-> mine]]
                     ELSE Ended(r)
  /\ UNCHANGED <<executor, turn, request, handoff, handed>>

(* Its todos are done: it writes its own copy of the plan *)
WorkComplete(r) ==
  /\ run[r].pc = "running"
  /\ plan' = [run[r].plan EXCEPT !.status = "completed"]
  /\ Ended(r)
  /\ UNCHANGED <<executor, active, turn, request, handoff, handed>>

(* It ends before its todos are: an error, the recursion limit, the user.    *)
(* Nothing of the plan or of work_mode is reset.                             *)
WorkStop(r) ==
  /\ run[r].pc = "running"
  /\ Ended(r)
  /\ UNCHANGED <<executor, plan, active, turn, request, handoff, handed>>

-----------------------------------------------------------------------------
(* work_run_handoff.py *)

(* The process stalls, or a hand-off runs, for longer than the TTL *)
MarkExpires ==
  /\ mark.by # 0 /\ ~mark.old /\ stale < workload.stale
  /\ mark' = [mark EXCEPT !.old = TRUE]
  /\ stale' = stale + 1
  /\ UNCHANGED <<executor, thread, request, daemon>>

(* Mutant: the age of the mark is compared the wrong way round *)
InFlightAfterTTL == mark.by # 0 /\ mark.old

InFlight == mark.by # 0 /\ ~mark.old

(* spawn_work_mode_handoff: no hand-off in flight, and room in the executor; *)
(* a refused submission takes its mark off again.                            *)
Spawn(d) ==
  \/ InFlight /\ UNCHANGED <<executor, mark, daemon>>
  \/ /\ ~InFlight /\ Submit(d)
     /\ mark' = [by |-> d, old |-> FALSE]
     /\ daemon' = [daemon EXCEPT ![d].pc = "read"]
  \/ ~InFlight /\ Refuse(d) /\ mark' = Unmarked /\ UNCHANGED daemon

At(d, pc) == task[d] = "running" /\ daemon[d].pc = pc
Others == UNCHANGED <<executor, active, turn, request, run, mark, stale>>

(* The pool starts it; the delay; the read before each attempt *)
DaemonTake(d) == /\ Take(d)
                 /\ UNCHANGED <<thread, request, handoff>>

DaemonRead(d) ==
  /\ At(d, "read")
  /\ daemon' = [daemon EXCEPT ![d].pc = "work", ![d].attempt = @ + 1, ![d].plan = plan]
  /\ Others /\ UNCHANGED <<plan, handed>>

(* The agent's invocation returns, or raises: another attempt while there is *)
(* one left.                                                                 *)
DaemonWork(d) ==
  /\ At(d, "work")
  /\ \E ok \in BOOLEAN :
       daemon' = [daemon EXCEPT ![d].ok = ok,
         ![d].pc = IF ok \/ daemon[d].attempt = MaxAttempts THEN "reread" ELSE "read"]
  /\ Others /\ UNCHANGED <<plan, handed>>

(* The latest plan is read again; if that fails, the one before the work is  *)
(* used after a success, and none after a failure.                           *)
DaemonReread(d) ==
  /\ At(d, "reread")
  /\ \/ daemon' = [daemon EXCEPT ![d].pc = "write", ![d].plan = plan]
     \/ daemon' = IF daemon[d].ok THEN [daemon EXCEPT ![d].pc = "write"]
                  ELSE [daemon EXCEPT ![d].pc = "over", ![d].plan = NoPlan]
  /\ Others /\ UNCHANGED <<plan, handed>>

(* The outcome is written into it, unless the server refuses (only logged) *)
DaemonWrite(d) ==
  /\ At(d, "write")
  /\ \/ /\ daemon[d].plan.status # "none"
        /\ plan' = IF daemon[d].ok THEN MarkSucceeded(daemon[d].plan)
                                   ELSE MarkFailed(daemon[d].plan)
     \/ plan' = plan
  /\ handed' = (handed \/ daemon[d].ok)
  /\ daemon' = [daemon EXCEPT ![d].pc = "over", ![d].plan = NoPlan]
  /\ Others

(* The finally: whoever wrote the mark, it goes *)
DaemonEnd(d) ==
  /\ At(d, "over") /\ Finish(d)
  /\ mark' = Unmarked
  /\ daemon' = [daemon EXCEPT ![d] = NoDaemon]
  /\ UNCHANGED <<thread, request, stale>>

(* The pool's other users: summaries of web searches, follow-ups *)
OtherTask(t) ==
  /\ \/ Submit(t) \/ Refuse(t) \/ Take(t) \/ Finish(t) \/ TimeOut(t)
  /\ UNCHANGED <<thread, request, handoff>>

-----------------------------------------------------------------------------
(* The planner's before_model *)

(* A message of the user starts a run in plan mode, on the state as it is.   *)
(* A pending question, or a thread that used its revisions up, is not        *)
(* planned again.                                                            *)
TurnBegin ==
  /\ turn.pc = "idle" /\ ServerFree /\ turn.n < workload.turns
  /\ \E auto \in BOOLEAN :
       turn' = [n |-> turn.n + 1, pc |-> "planning", auto |-> auto, plan |-> plan]
  /\ UNCHANGED <<executor, plan, active, request, run, handoff, handed>>

(* plan_foreground with an executable plan: the hand-off is requested before *)
(* the payload that says so is persisted.                                    *)
Propose(p, foreground) ==
  IF foreground /\ IsExecutable(p)
  THEN /\ Spawn(turn.n)
       /\ turn' = [turn EXCEPT !.pc = "persist", !.plan = MarkRequested(p)]
  ELSE /\ turn' = [turn EXCEPT !.pc = "persist", !.plan = p]
       /\ UNCHANGED <<executor, mark, daemon>>

(* The message answers the pending question *)
TurnAnswer ==
  /\ turn.pc = "planning" /\ turn.plan.pending
  /\ LET p == ClarificationProgress(turn.plan)
     IN \E foreground \in BOOLEAN :
          Propose(IF p.pending THEN p ELSE ApproveIfAuto(p, turn.auto), foreground)
  /\ UNCHANGED <<plan, active, request, run, stale, handed>>

(* The model returns a plan: the next revision, with questions or without *)
TurnPlan ==
  /\ turn.pc = "planning" /\ ~turn.plan.pending
  /\ \E asked \in 0..workload.questions, foreground \in BOOLEAN :
       LET p == Draft(turn.plan.rev + 1, asked)
       IN Propose(IF p.pending THEN p ELSE ApproveIfAuto(p, turn.auto), foreground)
  /\ UNCHANGED <<plan, active, request, run, stale, handed>>

(* It raises or stays silent, or the message is no answer: nothing is planned *)
TurnSkip ==
  /\ turn.pc = "planning"
  /\ turn' = [turn EXCEPT !.pc = "idle", !.auto = FALSE, !.plan = NoPlan]
  /\ UNCHANGED <<executor, plan, active, request, run, handoff, handed>>

(* The server persists what before_model returned, over what is there *)
TurnPersist ==
  /\ turn.pc = "persist"
  /\ plan' = turn.plan
  /\ turn' = [turn EXCEPT !.pc = "idle", !.auto = FALSE, !.plan = NoPlan]
  /\ UNCHANGED <<executor, active, request, run, handoff, handed>>

-----------------------------------------------------------------------------
(* The gateway's handlers: between two awaits everybody else may act.  Reads *)
(* are the latest state; the plan written is the one read, changed.          *)

Answer(q, out) ==
  request' = [request EXCEPT ![q] = [pc |-> "done", plan |-> NoPlan, out |-> out]]
Gateway == UNCHANGED <<executor, active, turn, handoff>>

(* execute_plan: the read and what is decided on it.  No plan, or a question *)
(* that the transcript does not answer: refused.  (A re-plan keeps its       *)
(* plan_id, so that comparing the ids tells no two revisions apart.)         *)
ExecuteRefused(q) ==
  /\ request[q].pc = "new"
  /\ plan.status = "none" \/ (plan.status = "draft" /\ plan.pending)
  /\ Answer(q, "conflict")
  /\ Gateway /\ UNCHANGED <<plan, run, handed>>

ExecuteDuplicate(q) ==
  /\ request[q].pc = "new" /\ plan.status \in {"approved", "executing", "completed"}
  /\ ShouldDuplicate(plan)
  /\ Answer(q, "duplicate")
  /\ Gateway /\ UNCHANGED <<plan, run, handed>>

(* A plan that was approved before is requested again *)
ExecuteRetry(q) ==
  /\ request[q].pc = "new" /\ plan.status \in {"approved", "executing", "completed"}
  /\ ~ShouldDuplicate(plan)
  /\ request' = [request EXCEPT ![q].pc = "write", ![q].plan = MarkRequested(plan)]
  /\ Gateway /\ UNCHANGED <<plan, run, handed>>

(* A draft is approved, after its last question was answered *)
ExecuteDraft(q) ==
  /\ request[q].pc = "new" /\ plan.status = "draft"
  /\ LET p == IF plan.pending THEN ClarificationProgress(plan) ELSE plan
     IN request' = [request EXCEPT ![q].pc = "write", ![q].plan =
          IF p.pending THEN p ELSE MarkRequested([p EXCEPT !.status = "approved"])]
  /\ Gateway /\ UNCHANGED <<plan, run, handed>>

(* The first update_state; it may fail *)
ExecuteWrite(q) ==
  /\ request[q].pc = "write"
  /\ \/ /\ plan' = request[q].plan
        /\ IF plan'.pending THEN Answer(q, "conflict")
                            ELSE request' = [request EXCEPT ![q].pc = "create"]
     \/ plan' = plan /\ Answer(q, "failed")
  /\ Gateway /\ UNCHANGED <<run, handed>>

(* runs.create; if it fails the plan stays approved, and requested *)
ExecuteCreate(q) ==
  /\ request[q].pc = "create"
  /\ \/ /\ \E r \in Runs : Create(r)
        /\ request' = [request EXCEPT ![q].pc = "succeed"]
        /\ handed' = TRUE
     \/ Answer(q, "failed") /\ UNCHANGED <<run, handed>>
  /\ Gateway /\ UNCHANGED plan

(* The second update_state writes the plan read at the beginning *)
ExecuteSucceed(q) ==
  /\ request[q].pc = "succeed"
  /\ \/ plan' = MarkSucceeded(request[q].plan) /\ Answer(q, "accepted")
     \/ plan' = plan /\ Answer(q, "failed")
  /\ Gateway /\ UNCHANGED <<run, handed>>

(* clarify_plan: an answer to the question at the index it was shown *)
ClarifyRead(q) ==
  /\ request[q].pc = "new" /\ plan.pending /\ plan.index < plan.asked
  /\ request' = [request EXCEPT ![q].pc = "clarify", ![q].plan = ClarificationProgress(plan)]
  /\ Gateway /\ UNCHANGED <<plan, run, handed>>

ClarifyWrite(q) ==
  /\ request[q].pc = "clarify"
  /\ \/ plan' = request[q].plan /\ Answer(q, "accepted")
     \/ plan' = plan /\ Answer(q, "failed")
  /\ Gateway /\ UNCHANGED <<run, handed>>

-----------------------------------------------------------------------------
Execute(q) == \/ ExecuteRefused(q) \/ ExecuteDuplicate(q) \/ ExecuteRetry(q)
              \/ ExecuteDraft(q) \/ ExecuteWrite(q) \/ ExecuteCreate(q)
              \/ ExecuteSucceed(q)
Clarify(q) == ClarifyRead(q) \/ ClarifyWrite(q)
Daemon(d) == \/ DaemonTake(d) \/ DaemonRead(d) \/ DaemonWork(d)
             \/ DaemonReread(d) \/ DaemonWrite(d) \/ DaemonEnd(d)
Turn == TurnAnswer \/ TurnPlan \/ TurnSkip \/ TurnPersist

Next ==
  /\ UNCHANGED workload
  /\ \/ TurnBegin \/ Turn \/ MarkExpires
     \/ \E q \in 1..workload.requests : Execute(q) \/ Clarify(q)
     \/ \E r \in Runs : WorkBegin(r) \/ WorkComplete(r) \/ WorkStop(r)
     \/ \E d \in Daemons : Daemon(d)
     \/ \E t \in workload.others : OtherTask(t)

(* The pool's threads run and tasks end: an attempt is bounded by the        *)
(* recursion limit and the model's timeouts.                                 *)
Fairness ==
  /\ \A d \in Daemons : WF_vars(Daemon(d) /\ UNCHANGED workload)
  /\ \A t \in Tasks \ Daemons :
       WF_vars((Take(t) \/ Finish(t)) /\ UNCHANGED <<thread, request, handoff, workload>>)

Spec == Init /\ [][Next]_vars /\ Fairness
-----------------------------------------------------------------------------
(* Every copy of the plan, the ones computed and not yet written included *)
Copies == {plan, turn.plan} \cup {request[q].plan : q \in Requests}
          \cup {run[r].plan : r \in Runs} \cup {daemon[d].plan : d \in Daemons}

(* A plan is past its draft only when each of its questions was answered,    *)
(* whoever answered them and whoever approved it: a message to the planner,  *)
(* /plan/clarify, /plan/execute, the auto mode (steering.py:550-563,         *)
(* planner_middleware.py:786-787, 869).                                      *)
AnsweredBeforeApproved ==
  \A p \in Copies : p.status \notin {"none", "draft"} => ~p.pending /\ p.index = p.asked

(* The guard of the hand-off daemons (work_run_handoff.py:32-42, 398-415):   *)
(* one at a time, and one more for each mark that outlived the TTL; the mark *)
(* that a late daemon takes from its successor does not add to it.           *)
LiveHandoffs == {d \in Daemons : task[d] \in {"queued", "running"}}
OneHandoffPerWindow == Cardinality(LiveHandoffs) <= 1 + stale

(* "Already executed" is answered only if some hand-off on the thread really *)
(* succeeded: a request whose run could not be created, or a daemon whose    *)
(* attempts failed, leaves a plan that the user can execute again            *)
(* (plan_execution.py:84-105, steering.py:519, 604).                         *)
DuplicateMeansHandedOff ==
  \A q \in Requests : request[q].out = "duplicate" => handed

(* plan_execution.py:104: "Duplicate only when a handoff succeeded and work  *)
(* is actually running."                                                     *)
WorkIsRunning == LiveHandoffs # {} \/ \E r \in Runs : run[r].pc \in {"queued", "running"}
DuplicateOnlyWhileRunning ==
  [][\A q \in Requests : request[q].out = "none" /\ request'[q].out = "duplicate"
       => WorkIsRunning]_vars

(* The mark of a hand-off goes away: it ended, or it was never accepted by   *)
(* the executor (work_run_handoff.py:413-423).                               *)
MarkIsCleared == mark.by # 0 ~> mark.by = 0
=============================================================================
