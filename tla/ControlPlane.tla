---------------------------- MODULE ControlPlane ----------------------------
(* Pipeline runs, their approvals, the scheduler and one autoresearch        *)
(* objective (backend/src/control_plane: service.py, services/approvals.py,  *)
(* services/scheduler.py, agents/autoresearch_agent.py).  All of it lives in *)
(* one state file; each ControlPlaneStore.mutate rewrites it under a lock    *)
(* and is one step.  Handlers run on the event loop, which they occupy to    *)
(* their end; an iteration of an objective runs in a daemon thread.  A run   *)
(* has one step.  The process may die between any two steps.                 *)
EXTENDS Integers, FiniteSets, FiniteSetsExt

CONSTANTS NRuns,      \* bound: runs ever created
          NJobs,      \* bound: scheduler jobs ever created
          NEntries,   \* bound: times the objective is created
          NThreads,   \* bound: daemon threads alive together
          MaxPhases,  \* phases of an iteration
          MaxOcc,     \* bound: times a job falls due
          Workloads   \* what is asked of the service: the groups of requests
                      \* that arrive, and how often the process dies

ASSUME ControlBounds ==
  /\ {NRuns, NJobs, NEntries, NThreads, MaxPhases, MaxOcc} \subseteq Nat \ {0}
  /\ \A l \in Workloads : /\ l.requests \subseteq
                             {"runs", "jobs", "iterations", "objective"}
                          /\ {l.threads, l.crashes} \subseteq Nat

Runs == 1..NRuns
Jobs == 1..NJobs
Threads == 1..NThreads
Loop == 0               \* the event loop, when it executes a run itself
Executors == Threads \cup {Loop}

VARIABLES run,        \* snapshot.runs
          approval,   \* snapshot.approvals, by the run they are about
          jobs,       \* snapshot.runtime_scheduler_jobs and scheduler_jobs
          objective,  \* snapshot.autoresearch_objectives, for one objective_id
          ledger,     \* the iterations the question ledger of it records
          stops,      \* _stop_requested_run_ids
          exec,       \* who is inside start_run, and where
          loop,       \* what the event loop is in the middle of
          crashes,
          workload    \* chosen once

vars == <<run, approval, jobs, objective, ledger, stops, exec, loop, crashes, workload>>
store == <<run, approval, jobs, objective>>

Terminal == {"completed", "failed", "cancelled", "rejected"}
RunStatuses == {"none", "pending_approval", "approved", "running", "gone"} \cup Terminal
StepStatuses == {"pending", "running", "completed", "failed", "cancelled"}
Pcs == {"idle", "read", "mark", "begin", "phase", "clearStop",
        "clearActivity", "stepOff", "finalize", "after", "schedule", "insert",
        "link", "objective", "disable"}

NoRun == [st |-> "none", step |-> "pending", needs |-> FALSE,
          kind |-> "plain", first |-> FALSE, job |-> 0, occ |-> 0]
NoJob == [st |-> "none", auto |-> FALSE, needs |-> FALSE, due |-> FALSE, occ |-> 0]
NoObjective == [entry |-> 0, status |-> "none", running |-> 0, job |-> 0, iter |-> 0]
Statuses == {"none", "active", "paused_denied", "completed_endpoint"}
Idle == [pc |-> "idle", run |-> 0, phase |-> 0, entry |-> 0, iter |-> 0,
         out |-> "none", stop |-> FALSE, job |-> 0, made |-> 0]
Free == [pc |-> "idle", set |-> {}, arg |-> "none", occ |-> [j \in Jobs |-> 0]]

Init == /\ run = [r \in Runs |-> NoRun]
        /\ approval = [r \in Runs |-> "none"]
        /\ jobs = [j \in Jobs |-> NoJob]
        /\ objective = NoObjective
        /\ ledger = 0
        /\ stops = {}
        /\ exec = [x \in Executors |-> Idle]
        /\ loop = Free
        /\ crashes = 0
        /\ workload \in Workloads

Exists(r) == run[r].st \notin {"none", "gone"}
Here(j) == jobs[j].st \in {"on", "off"}
Active == {j \in Jobs : jobs[j].st = "on"}
AutoJobs == {j \in Jobs : Here(j) /\ jobs[j].auto}
Present == objective.status # "none"
FreshRuns == {r \in Runs : run[r].st = "none"}
IdleThreads == {x \in Threads : x <= workload.threads /\ exec[x].pc = "idle"}

\* The event loop is between two handlers.
Serving == loop.pc = "idle" /\ exec[Loop].pc = "idle"

----------------------------------------------------------------------------
(* Runs and approvals.                                                       *)

NewRun(kind, needs) == [NoRun EXCEPT !.kind = kind, !.needs = needs]
FirstRun == [NoRun EXCEPT !.kind = "iteration", !.first = TRUE]

\* create_run: the run and, when it needs one, its approval, in one mutate.
Created(r, new) ==
  /\ r \in FreshRuns /\ \A q \in FreshRuns : r <= q
  /\ run' = [run EXCEPT ![r] =
       [new EXCEPT !.st = IF new.needs THEN "pending_approval" ELSE "approved"]]
  /\ approval' = [approval EXCEPT ![r] = IF new.needs THEN "pending" ELSE "none"]

Enter(r) == [Idle EXCEPT !.pc = "read", !.run = r]

\* start_run on the event loop.
StartHere(r) == exec' = [exec EXCEPT ![Loop] = Enter(r)]

\* start_run_in_background.
StartThread(r) == \E x \in IdleThreads : /\ \A y \in IdleThreads : x <= y
                                         /\ exec' = [exec EXCEPT ![x] = Enter(r)]

\* How the handlers that create a run start it: an iteration in a thread,
\* anything else on the loop, and what needs an approval not at all.
Launch(r, new) == IF new.needs THEN UNCHANGED exec
                  ELSE IF new.kind = "iteration" THEN StartThread(r)
                  ELSE StartHere(r)

\* POST /pipelines/runs, with or without auto_start.
CreateRun(r, kind, needs) ==
  /\ Serving
  /\ Created(r, NewRun(kind, needs))
  /\ UNCHANGED exec \/ (~needs /\ StartHere(r))
  /\ UNCHANGED <<jobs, objective, ledger, stops, loop, crashes>>

\* POST /pipelines/runs/{id}/start.
StartRun(r) == /\ Serving
               /\ StartHere(r)
               /\ UNCHANGED <<store, ledger, stops, loop, crashes>>

\* resolve_approval: the approval and its run together; then perhaps the start.
ResolveApproval(r, approve) ==
  /\ Serving
  /\ approval[r] = "pending"
  /\ approval' = [approval EXCEPT ![r] = IF approve THEN "approved" ELSE "rejected"]
  /\ run' = [run EXCEPT ![r].st = IF approve THEN "approved" ELSE "rejected"]
  /\ UNCHANGED exec \/ (approve /\ StartHere(r))
  /\ UNCHANGED <<jobs, objective, ledger, stops, loop, crashes>>

\* The runs whose approval ran out before they were executed.
Cancelled(rs, late) == [r \in Runs |-> IF r \in late /\ rs[r].st = "pending_approval"
                                       THEN [rs[r] EXCEPT !.st = "cancelled"] ELSE rs[r]]

\* list_approvals: the pending ones past the deadline expire first.
ListApprovals ==
  /\ Serving
  /\ \E late \in SUBSET {r \in Runs : approval[r] = "pending"} :
       /\ late # {}
       /\ approval' = [r \in Runs |-> IF r \in late THEN "expired" ELSE approval[r]]
       /\ run' = Cancelled(run, late)
  /\ UNCHANGED <<jobs, objective, ledger, stops, exec, loop, crashes>>

\* _delete_runs.
Deleted(rs) ==
  /\ run' = [r \in Runs |-> IF r \in rs THEN [NoRun EXCEPT !.st = "gone"] ELSE run[r]]
  /\ approval' = [r \in Runs |-> IF r \in rs THEN "none" ELSE approval[r]]

\* cleanup_old_scheduled_runs: what the scheduler created and is over.
CleanupScheduled ==
  /\ Serving
  /\ \E rs \in SUBSET {r \in Runs : run[r].job # 0 /\ run[r].st \in Terminal} :
       rs # {} /\ Deleted(rs)
  /\ UNCHANGED <<jobs, objective, ledger, stops, exec, loop, crashes>>

----------------------------------------------------------------------------
(* start_run, on a daemon thread or on the event loop, for x.                *)

At(x, pc) == loop.pc # "down" /\ exec[x].pc = pc
Goto(x, pc) == exec' = [exec EXCEPT ![x].pc = pc]
Leave(x) == exec' = [exec EXCEPT ![x] = Idle]
R(x) == exec[x].run
Iteration(x) == run[R(x)].kind = "iteration"

\* Mutant of Startable: what waits for its approval is started too.
StartableAny(st) == st \in {"approved", "pending_approval"}

Startable(st) == st = "approved"

\* get_run and the checks of its status.
ReadStatus(x) ==
  /\ At(x, "read")
  /\ IF Startable(run[R(x)].st) THEN Goto(x, "mark") ELSE Leave(x)
  /\ UNCHANGED <<store, ledger, stops, loop, crashes>>

\* mark_running, and its step with it: the status is not looked at again.  A
\* run that is gone is a KeyError here and in each of the steps below.
MarkRunning(x) ==
  /\ At(x, "mark")
  /\ IF Exists(R(x)) THEN /\ run' = [run EXCEPT ![R(x)].st = "running",
                                               ![R(x)].step = "running"]
                          /\ Goto(x, "begin")
                     ELSE Leave(x) /\ UNCHANGED run
  /\ UNCHANGED <<approval, jobs, objective, ledger, stops, loop, crashes>>

\* _execute_step.  A plain step ends at once, one way or the other; an
\* iteration looks its objective up and writes its own id into it.
Begin(x) ==
  /\ At(x, "begin")
  /\ IF ~Exists(R(x)) THEN Leave(x) /\ UNCHANGED objective
     ELSE IF Iteration(x)
     THEN /\ exec' = [exec EXCEPT ![x].pc = "phase",
                                   ![x].entry = IF Present THEN objective.entry ELSE 0]
          /\ objective' = IF Present THEN [objective EXCEPT !.running = R(x)]
                          ELSE objective
     ELSE /\ \E o \in {"completed", "failed"} :
               exec' = [exec EXCEPT ![x].pc = "stepOff", ![x].out = o]
          /\ UNCHANGED objective
  /\ UNCHANGED <<run, approval, jobs, ledger, stops, loop, crashes>>

\* _progress: the activity of this iteration, if its objective is still there.
Emitted(x, ob, r) == IF ob.status # "none" /\ ob.entry = exec[x].entry
                     THEN [ob EXCEPT !.running = r] ELSE ob

\* run_one_iteration is over with outcome o and, in its summary, iteration n.
Ended(e, o, n) == [e EXCEPT !.pc = "clearStop", !.out = o, !.iter = n, !.phase = 0]

\* A phase of run_one_iteration: the stop flag, or the work.  The first one
\* reads how many iterations the ledger has; any of them may raise.
Phase(x) ==
  /\ At(x, "phase")
  /\ \/ /\ R(x) \in stops
        /\ exec' = [exec EXCEPT ![x] = Ended(@, "cancelled", 0)]
        /\ UNCHANGED <<objective, ledger>>
     \/ /\ exec' = [exec EXCEPT ![x] = Ended(@, "failed", 0)]
        /\ UNCHANGED <<objective, ledger>>
     \/ /\ R(x) \notin stops
        /\ exec[x].phase < MaxPhases
        /\ objective' = Emitted(x, objective, R(x))
        /\ exec' = [exec EXCEPT ![x].phase = @ + 1,
                                ![x].iter = IF exec[x].phase = 0 THEN ledger + 1 ELSE @]
        /\ UNCHANGED ledger
     \/ /\ exec[x].phase = MaxPhases   \* record_iteration
        /\ ledger' = Max({ledger, exec[x].iter})
        /\ \E s \in BOOLEAN :
             exec' = [exec EXCEPT ![x] = [Ended(@, "completed", @.iter)
                                          EXCEPT !.stop = s]]
        /\ UNCHANGED objective
     \/ /\ exec[x].phase = 1           \* the generator returned nothing
        /\ exec' = [exec EXCEPT ![x] = Ended(@, "completed", @.iter - 1)]
        /\ UNCHANGED <<objective, ledger>>
  /\ UNCHANGED <<run, approval, jobs, stops, loop, crashes>>

ClearStop(x) ==
  /\ At(x, "clearStop")
  /\ stops' = stops \ {R(x)}
  /\ Goto(x, "clearActivity")
  /\ UNCHANGED <<store, ledger, loop, crashes>>

\* The finally: running_run_id is cleared, whoever wrote it.
ClearActivity(x) ==
  /\ At(x, "clearActivity")
  /\ objective' = Emitted(x, objective, 0)
  /\ exec' = [exec EXCEPT ![x].pc = "stepOff", ![x].entry = 0]
  /\ UNCHANGED <<run, approval, jobs, ledger, stops, loop, crashes>>

\* The step's status; a failure may leave the run to complete (stop_on_error).
StepOff(x) ==
  /\ At(x, "stepOff")
  /\ IF ~Exists(R(x)) THEN Leave(x) /\ UNCHANGED run
     ELSE /\ run' = [run EXCEPT ![R(x)].step = exec[x].out]
          /\ \E o \in IF exec[x].out = "failed" /\ ~Iteration(x)
                      THEN {"failed", "completed"} ELSE {exec[x].out} :
               exec' = [exec EXCEPT ![x].pc = "finalize", ![x].out = o]
  /\ UNCHANGED <<approval, jobs, objective, ledger, stops, loop, crashes>>

\* _finalize_run: the status is written, whatever it is by now.
Finalize(x) ==
  /\ At(x, "finalize")
  /\ IF Exists(R(x)) THEN /\ run' = [run EXCEPT ![R(x)].st = exec[x].out]
                          /\ IF Iteration(x) THEN Goto(x, "after") ELSE Leave(x)
                     ELSE Leave(x) /\ UNCHANGED run
  /\ UNCHANGED <<approval, jobs, objective, ledger, stops, loop, crashes>>

----------------------------------------------------------------------------
(* update_after_run, still on the executor.                                  *)

\* Reads the objective; the first run that completes schedules the next ones.
\* What the objective says of its job is from here on as it was read here.
After(x) ==
  /\ At(x, "after")
  /\ IF ~Present THEN Leave(x)
     ELSE exec' = [exec EXCEPT
            ![x].entry = objective.entry, ![x].job = objective.job,
            ![x].pc = IF run[R(x)].first /\ exec[x].out = "completed"
                      THEN "schedule" ELSE "objective"]
  /\ UNCHANGED <<store, ledger, stops, loop, crashes>>

Mine(x) == Present /\ objective.entry = exec[x].entry
Linked(x, j) == IF Mine(x) THEN [objective EXCEPT !.job = j] ELSE objective

\* _upsert_daily_schedule: the jobs of this objective.  With one, it is taken,
\* the others disabled; without, a job is made, if none came up meanwhile.
Schedule(x) ==
  /\ At(x, "schedule")
  /\ IF AutoJobs = {} THEN Goto(x, "insert") /\ UNCHANGED <<jobs, objective>>
     ELSE LET primary == Min(AutoJobs) IN
       /\ jobs' = [j \in Jobs |->
            IF j \notin AutoJobs THEN jobs[j]
            ELSE IF j = primary THEN [jobs[j] EXCEPT !.st = "on", !.due = FALSE]
            ELSE [jobs[j] EXCEPT !.st = "off"]]
       /\ objective' = Linked(x, primary)
       /\ exec' = [exec EXCEPT ![x].pc = "objective", ![x].made = primary]
  /\ UNCHANGED <<run, approval, ledger, stops, loop, crashes>>

NextJob == {j \in Jobs : /\ jobs[j].st = "none"
                         /\ \A k \in Jobs : k < j => jobs[k].st # "none"}

\* create_runtime_scheduler_job: what another executor has made since is a
\* duplicate if the check came after it, and stays unseen if it came before.
Insert(x) ==
  /\ At(x, "insert")
  /\ \/ \E j \in NextJob :
          /\ jobs' = [jobs EXCEPT ![j] = [NoJob EXCEPT !.st = "on", !.auto = TRUE]]
          /\ exec' = [exec EXCEPT ![x].pc = "link", ![x].made = j]
     \/ /\ AutoJobs # {} \/ NextJob = {}   \* past the bound it fails too
        /\ Leave(x)
        /\ UNCHANGED jobs
  /\ UNCHANGED <<run, approval, objective, ledger, stops, loop, crashes>>

Link(x) ==
  /\ At(x, "link")
  /\ objective' = Linked(x, exec[x].made)
  /\ Goto(x, "objective")
  /\ UNCHANGED <<run, approval, jobs, ledger, stops, loop, crashes>>

\* An older run's late summary must not take the count back.
Iterations(had, new) == Max({had, new})

\* The summary goes into the objective; a saturated one is over.
UpdateObjective(x) ==
  /\ At(x, "objective")
  /\ objective' =
       IF ~Mine(x) THEN objective
       ELSE [objective EXCEPT
               !.iter = IF exec[x].out = "completed" THEN Iterations(@, exec[x].iter) ELSE @,
               !.job = IF exec[x].made # 0 THEN exec[x].made ELSE @,
               !.status = IF exec[x].stop THEN "completed_endpoint" ELSE @]
  /\ IF exec[x].stop /\ exec[x].job # 0 THEN Goto(x, "disable") ELSE Leave(x)
  /\ UNCHANGED <<run, approval, jobs, ledger, stops, loop, crashes>>

\* set_runtime_scheduler_job_enabled: a job that changes has its due time
\* recomputed when enabled.
Enabled(js, j, on) ==
  IF j = 0 \/ js[j].st \notin {"on", "off"} \/ (js[j].st = "on") = on THEN js
  ELSE [js EXCEPT ![j].st = IF on THEN "on" ELSE "off", ![j].due = @ /\ ~on]

DisableJob(x) ==
  /\ At(x, "disable")
  /\ jobs' = Enabled(jobs, exec[x].job, FALSE)
  /\ Leave(x)
  /\ UNCHANGED <<run, approval, objective, ledger, stops, loop, crashes>>

Execute(x) ==
  \/ ReadStatus(x) \/ MarkRunning(x) \/ Begin(x) \/ Phase(x)
  \/ ClearStop(x) \/ ClearActivity(x) \/ StepOff(x) \/ Finalize(x)
  \/ After(x) \/ Schedule(x) \/ Insert(x) \/ Link(x) \/ UpdateObjective(x)
  \/ DisableJob(x)

----------------------------------------------------------------------------
(* The scheduler, on the event loop.                                         *)

CreateJob(j, needs) ==
  /\ Serving
  /\ j \in NextJob
  /\ jobs' = [jobs EXCEPT ![j] = [NoJob EXCEPT !.st = "on", !.needs = needs]]
  /\ UNCHANGED <<run, approval, objective, ledger, stops, exec, loop, crashes>>

DeleteJob(j) ==
  /\ Serving
  /\ Here(j)
  /\ jobs' = [jobs EXCEPT ![j] = [NoJob EXCEPT !.st = "gone"]]
  /\ UNCHANGED <<run, approval, objective, ledger, stops, exec, loop, crashes>>

\* update_runtime_scheduler_job: a new time, the next one of it to come.
UpdateJob(j) ==
  /\ Serving
  /\ jobs[j].st = "on" /\ jobs[j].due
  /\ jobs' = [jobs EXCEPT ![j].due = FALSE]
  /\ UNCHANGED <<run, approval, objective, ledger, stops, exec, loop, crashes>>

\* next_run_at of a job comes and goes by.
FallDue(j) ==
  /\ Here(j) /\ ~jobs[j].due /\ jobs[j].occ < MaxOcc
  /\ jobs' = [jobs EXCEPT ![j].due = TRUE, ![j].occ = @ + 1]
  /\ UNCHANGED <<run, approval, objective, ledger, stops, exec, loop, crashes>>

\* Mutant of Advanced: next_run_at moves only after the run was created.
NotAdvanced(js, due) == js

Advanced(js, due) == [j \in Jobs |-> IF j \in due THEN [js[j] EXCEPT !.due = FALSE]
                                     ELSE js[j]]

\* run_scheduler_tick: the due jobs are moved to their next time in one
\* mutate; then each of them gets its run, for the time that had come by then.
Tick ==
  /\ Serving
  /\ LET due == {j \in Active : jobs[j].due} IN
       /\ due # {}
       /\ Cardinality(due) <= Cardinality(FreshRuns)
       /\ Cardinality(due \cap AutoJobs) <= Cardinality(IdleThreads)
       /\ jobs' = Advanced(jobs, due)
       /\ loop' = [Free EXCEPT !.pc = "tick", !.set = due, !.occ = [j \in Jobs |-> jobs[j].occ]]
  /\ UNCHANGED <<run, approval, objective, ledger, stops, exec, crashes>>

JobRun(j) == NewRun(IF jobs[j].auto THEN "iteration" ELSE "plain", jobs[j].needs)

TickJob ==
  /\ loop.pc = "tick" /\ exec[Loop].pc = "idle"
  /\ LET j == Min(loop.set)
         new == [JobRun(j) EXCEPT !.job = j, !.occ = loop.occ[j]] IN
       /\ \E r \in Runs : Created(r, new) /\ Launch(r, new)
       /\ loop' = IF loop.set = {j} THEN Free ELSE [loop EXCEPT !.set = @ \ {j}]
  /\ UNCHANGED <<jobs, objective, ledger, stops, crashes>>

\* run_scheduler_job_now: an objective's job is enabled for it, a disabled one
\* of another template is refused.
RunJob(j) ==
  /\ Serving
  /\ Here(j) /\ (jobs[j].auto \/ jobs[j].st = "on")
  /\ jobs' = Enabled(jobs, j, TRUE)
  /\ LET new == [JobRun(j) EXCEPT !.job = j] IN
       \E r \in Runs : Created(r, new) /\ Launch(r, new)
  /\ UNCHANGED <<objective, ledger, stops, loop, crashes>>

----------------------------------------------------------------------------
(* Recovery, and the objective's handlers on the event loop.                 *)

Orphans == {r \in Runs : Exists(r) /\ "running" \in {run[r].st, run[r].step}}

\* _seed_from_config ends with _recover_orphaned_runs: what is running is
\* read, then failed in a second step.  `then` is where the handler goes on.
Seed(then) == loop' = [Free EXCEPT !.pc = "recover", !.set = Orphans, !.arg = then]

\* Mutant of Recovered: nothing is recovered.
NotRecovered(rs, orphans) == rs

Recovered(rs, orphans) ==
  [r \in Runs |-> IF r \notin orphans THEN rs[r]
     ELSE [rs[r] EXCEPT !.st = IF @ = "running" THEN "failed" ELSE @,
                        !.step = IF @ = "running" THEN "failed" ELSE @]]

Recover ==
  /\ loop.pc = "recover"
  /\ run' = Recovered(run, loop.set)
  /\ objective' = IF objective.running \in loop.set
                  THEN [objective EXCEPT !.running = 0] ELSE objective
  /\ loop' = [Free EXCEPT !.pc = loop.arg]
  /\ UNCHANGED <<approval, jobs, ledger, stops, exec, crashes>>

\* GET /pipelines: list_templates seeds again.
ListTemplates == /\ Serving
                 /\ Seed("idle")
                 /\ UNCHANGED <<store, ledger, stops, exec, crashes>>

\* start_objective begins with list_templates.
StartObjective == /\ Serving
                  /\ FreshRuns # {} /\ IdleThreads # {}
                  /\ Present \/ objective.entry < NEntries
                  /\ Seed("start")
                  /\ UNCHANGED <<store, ledger, stops, exec, crashes>>

\* A new objective, or the old one's job enabled again.
StartFound ==
  /\ loop.pc = "start"
  /\ IF Present
     THEN /\ jobs' = Enabled(jobs, objective.job, TRUE)
          /\ loop' = [Free EXCEPT !.pc = "status", !.arg = "bootstrap"]
          /\ UNCHANGED objective
     ELSE /\ objective' = [NoObjective EXCEPT !.entry = objective.entry + 1,
                                              !.status = "active"]
          /\ loop' = [Free EXCEPT !.pc = "bootstrap"]
          /\ UNCHANGED jobs
  /\ UNCHANGED <<run, approval, ledger, stops, exec, crashes>>

Bootstrap ==
  /\ loop.pc = "bootstrap"
  /\ \E r \in Runs : Created(r, FirstRun) /\ StartThread(r)
  /\ loop' = Free
  /\ UNCHANGED <<jobs, objective, ledger, stops, crashes>>

\* pause_objective, resume_objective: the job first, then the objective.
PauseOrResume(status) ==
  /\ Serving
  /\ Present
  /\ jobs' = Enabled(jobs, objective.job, status = "active")
  /\ loop' = [Free EXCEPT !.pc = "status", !.arg = status]
  /\ UNCHANGED <<run, approval, objective, ledger, stops, exec, crashes>>

SetStatus ==
  /\ loop.pc = "status"
  /\ objective' = [objective EXCEPT !.status = IF loop.arg = "bootstrap" THEN "active"
                                               ELSE loop.arg]
  /\ loop' = IF loop.arg = "bootstrap" THEN [Free EXCEPT !.pc = "bootstrap"] ELSE Free
  /\ UNCHANGED <<run, approval, jobs, ledger, stops, exec, crashes>>

\* run_objective_now: its job's run, or without a job another first run.
RunObjectiveNow ==
  /\ Serving
  /\ Present
  /\ IF objective.job # 0 THEN RunJob(objective.job)
     ELSE /\ \E r \in Runs : Created(r, FirstRun) /\ StartThread(r)
          /\ loop' = [Free EXCEPT !.pc = "status", !.arg = "active"]
          /\ UNCHANGED <<jobs, objective, ledger, stops, crashes>>

StopObjective ==
  /\ Serving
  /\ Present /\ objective.running # 0
  /\ stops' = stops \cup {objective.running}
  /\ UNCHANGED <<store, ledger, exec, loop, crashes>>

\* delete_objective: its jobs, as read now, then its vault directory and the
\* entry itself.  cleanup_autoresearch does the same and deletes the runs.
DeleteObjective(then) ==
  /\ Serving
  /\ Present
  /\ loop' = [Free EXCEPT !.pc = "delete", !.set = AutoJobs \cup ({objective.job} \ {0}),
                          !.arg = then]
  /\ UNCHANGED <<store, ledger, stops, exec, crashes>>

DeleteJobs ==
  /\ loop.pc = "delete"
  /\ jobs' = [j \in Jobs |-> IF j \in loop.set /\ Here(j) THEN [NoJob EXCEPT !.st = "gone"]
                              ELSE jobs[j]]
  /\ loop' = [loop EXCEPT !.pc = "pop"]
  /\ UNCHANGED <<run, approval, objective, ledger, stops, exec, crashes>>

PopObjective ==
  /\ loop.pc = "pop"
  /\ objective' = [NoObjective EXCEPT !.entry = objective.entry]
  /\ ledger' = 0
  /\ loop' = [Free EXCEPT !.pc = loop.arg]
  /\ UNCHANGED <<run, approval, jobs, stops, exec, crashes>>

CleanupRuns ==
  /\ loop.pc = "runs"
  /\ Deleted({r \in Runs : Exists(r) /\ run[r].kind = "iteration"})
  /\ loop' = Free
  /\ UNCHANGED <<jobs, objective, ledger, stops, exec, crashes>>

\* cleanup_autoresearch, for an objective that is gone already.
CleanupAutoresearch ==
  /\ Serving
  /\ ~Present /\ \E r \in Runs : Exists(r) /\ run[r].kind = "iteration"
  /\ loop' = [Free EXCEPT !.pc = "runs"]
  /\ UNCHANGED <<store, ledger, stops, exec, crashes>>

----------------------------------------------------------------------------
(* Death of the process; the state file and the ledger stay.                 *)

Crash == /\ loop.pc # "down"
         /\ crashes < workload.crashes
         /\ crashes' = crashes + 1
         /\ exec' = [x \in Executors |-> Idle]
         /\ stops' = {}
         /\ loop' = [Free EXCEPT !.pc = "down"]
         /\ UNCHANGED <<store, ledger>>

\* The service is constructed: _seed_from_config.
Boot == /\ loop.pc = "down"
        /\ Seed("idle")
        /\ UNCHANGED <<store, ledger, stops, exec, crashes>>

GoOn == TickJob \/ Recover \/ StartFound \/ Bootstrap \/ SetStatus
        \/ DeleteJobs \/ PopObjective \/ CleanupRuns

RunRequest ==
  \/ \E r \in Runs : \/ \E kind \in {"plain", "iteration"}, needs \in BOOLEAN :
                            CreateRun(r, kind, needs)
                     \/ StartRun(r)
                     \/ \E approve \in BOOLEAN : ResolveApproval(r, approve)
  \/ ListApprovals \/ CleanupScheduled \/ CleanupAutoresearch

JobRequest ==
  \E j \in Jobs : \/ \E needs \in BOOLEAN : CreateJob(j, needs)
                  \/ DeleteJob(j) \/ UpdateJob(j) \/ RunJob(j)

IterationRequest == StartObjective \/ RunObjectiveNow \/ StopObjective

ObjectiveRequest ==
  \/ \E status \in {"active", "paused_denied"} : PauseOrResume(status)
  \/ \E then \in {"idle", "runs"} : DeleteObjective(then)

Request == \/ ListTemplates
           \/ "runs" \in workload.requests /\ RunRequest
           \/ "jobs" \in workload.requests /\ JobRequest
           \/ "iterations" \in workload.requests /\ IterationRequest
           \/ "objective" \in workload.requests /\ ObjectiveRequest

Same == UNCHANGED workload

Next == \/ (Request \/ Tick \/ GoOn \/ Crash \/ Boot) /\ Same
        \/ \E x \in Executors : Execute(x) /\ Same
        \/ \E j \in Jobs : FallDue(j) /\ Same

\* A handler that began and a thread that was started go on; a process that
\* died is started again.  Nobody has to ask for anything.
Spec == /\ Init /\ [][Next]_vars
        /\ \A x \in Executors : WF_vars(Execute(x) /\ Same)
        /\ WF_vars(GoOn /\ Same) /\ WF_vars(Boot /\ Same)

----------------------------------------------------------------------------
(* Properties.                                                               *)

\* The variables have their types.
TypeOK ==
  /\ run \in [Runs -> [st : RunStatuses, step : StepStatuses, needs : BOOLEAN,
                       kind : {"plain", "iteration"}, first : BOOLEAN,
                       job : Jobs \cup {0}, occ : 0..MaxOcc]]
  /\ approval \in [Runs -> {"none", "pending", "approved", "rejected", "expired"}]
  /\ jobs \in [Jobs -> [st : {"none", "on", "off", "gone"}, auto : BOOLEAN,
                        needs : BOOLEAN, due : BOOLEAN, occ : 0..MaxOcc]]
  /\ objective \in [entry : 0..NEntries, status : Statuses, running : Runs \cup {0},
                    job : Jobs \cup {0}, iter : Nat]
  /\ ledger \in Nat
  /\ stops \subseteq Runs
  /\ exec \in [Executors -> [pc : Pcs, run : Runs \cup {0}, phase : 0..MaxPhases,
                             entry : 0..NEntries, iter : Nat,
                             out : {"none", "completed", "failed", "cancelled"},
                             stop : BOOLEAN, job : Jobs \cup {0}, made : Jobs \cup {0}]]
  /\ loop.set \subseteq Runs \cup Jobs /\ loop.occ \in [Jobs -> 0..MaxOcc]
  /\ crashes <= workload.crashes

\* No step of a run that needs an approval begins before it is approved: not
\* by a start between the check and mark_running, not after a rejection, an
\* expiry, a recovery or a restart.
StepsNeedApproval ==
  \A r \in Runs : run[r].needs /\ (run[r].step # "pending" \/ run[r].st = "running")
                  => approval[r] = "approved"

\* A run waits for its approval exactly as long as the approval is pending: no
\* run waits for an answer that was given, expired or deleted, and no answer
\* can be given for a run that is gone or went on.
PendingTogether ==
  \A r \in Runs : run[r].st = "pending_approval" <=> approval[r] = "pending"

\* An occurrence of a scheduled job makes at most one run, also when the
\* process dies between moving the job on and creating the run.
OncePerOccurrence ==
  \A r, q \in Runs : r # q /\ run[r].occ # 0 => <<run[r].job, run[r].occ>>
                                              # <<run[q].job, run[q].occ>>

\* The iteration count of an objective never goes back, in whatever order the
\* summaries of iterations that ran side by side arrive.
IterationMonotone ==
  [][objective'.entry = objective.entry /\ Present /\ objective'.status # "none"
     => objective'.iter >= objective.iter]_vars

\* A run that is running ends or is deleted, also when the process dies.
RunsEnd == \A r \in Runs : run[r].st = "running" ~> run[r].st # "running"

\* Nothing runs unapproved, and runs and approvals agree.
ApprovalsHold == TypeOK /\ StepsNeedApproval /\ PendingTogether

\* Runs end, and iterations count upwards.
RunsGoOn == IterationMonotone /\ RunsEnd

\* What recovery fails is no longer executed by anyone: a run whose state is
\* "running" cannot still be in flight (_recover_orphaned_runs).
RecoversOnlyDead ==
  [][\A r \in Runs, x \in Executors :
       /\ loop.pc = "recover" /\ loop'.pc \notin {"recover", "down"}
       /\ run[r].st = "running" /\ run'[r].st = "failed"
       => exec[x].run # r]_vars

----------------------------------------------------------------------------
(* The instance for TLC.                                                     *)

Load(asked, threads, deaths) ==
  [requests |-> asked, threads |-> threads, crashes |-> deaths]

\* Approvals and the scheduler with a death of the process; iterations of an
\* objective with one; with the objective deleted meanwhile; two at once.
AllWorkloads == {Load({"runs", "jobs"}, 1, 1), Load({"iterations"}, 1, 1),
                 Load({"iterations", "objective"}, 1, 0), Load({"iterations"}, 2, 0)}
=============================================================================
