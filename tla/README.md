# Verification of CapyHome

CapyHome is a LangGraph-based agent harness: a web frontend and a FastAPI gateway in front of a LangGraph
server whose agents call tools, start subagents, work in container sandboxes and hand plans over from a plan
mode to a work mode. Beside the agents run a control plane (scheduled and approved pipelines), a memory
updater, the ingest jobs of a knowledge vault, a generation poller and chat channels. This directory holds
TLA+ models of the parts in which threads, processes, requests, files and the browser meet. TLC checks them on
small instances; TLAPS proves what matters most for every instance. Paths below are relative to
`src/backend/src` unless they begin with `src/`.

`PROJECT.json` lists the source lines that the definitions stand for (constants and helpers whose lines a
neighbouring definition names are left out), the runs, the hazards with the
properties that watch them, and for each property a mutated definition, one plausible bug of the code, that
makes the run fail.

    tlc -config <run>.cfg <Module>        a run of section 4
    tlapm <Module>.tla                    the proofs of section 6

## 1. Inventory

| Component | State | Operations | What is hard | What makes it correct |
|---|---|---|---|---|
| Subagent executor, task tool (`subagents/executor.py`, `tools/builtins/task_tool.py`) | task registry, one shared result object per task, two worker pools | submit, run, time out, cancel by conversation, poll, clean up | three threads per task share an object that one of them writes without the lock; two timeouts and a polling limit race | a success has an answer; a cancel is not lost; no task is lost, orphaned or starved |
| Run records (`agents/middlewares/runtime_events.py`, `activity_timeline_middleware.py`, `execution_trace_middleware.py`, `trajectory_middleware.py`) | event queue of a run, lines and traces in the thread's state | emit, drain before and after the model, around tools, at the end | three readers drain one queue; tool calls in parallel; retries | every call's record is closed; what is streamed is streamed once |
| Agent assembly (`agents/common/middleware_registry.py`, `agents/work_agent/agent.py`) | registry of middlewares with before/after constraints | register, sort, build, thresholds | cycles, missing names, the kill switch | constraints hold, nothing is lost or doubled |
| Batch workflow skill (`src/skills/batch-workflow/scripts`) | progress file, results file | init, mark, write, status | interruptions and torn files between two scripts | what is done has its row; the list ends when all is there |
| Turn hooks (pivot, model timeout, evaluator, title, clarification middlewares) | counters, marks and the title in the thread's state | before and after model, end of run | state that outlives a run, timeouts | each nudge once, bounded evaluation, one title |
| Tool catalog, MCP tools (`tools/`, `mcp/`) | catalog files, shared tool objects, MCP cache | build, switch, hide, report | four filters, a fallback, two modes in one process | an agent is offered what its mode, groups and switches allow |
| Container sandbox provider (`community/aio_sandbox`, `sandbox/`) | entries in use, warm pool, activity times, thread and file locks, containers, ports | acquire, get, release, destroy, evict, idle check, shutdown, discover | check under a lock and act after it; several processes; crashes; containers outlive processes | an entry names a live container; no container is forgotten; ports come back |
| Sandbox provisioner (`src/docker/provisioner/app.py`, `community/aio_sandbox/remote_backend.py`) | pods and services | create, get, delete | two objects per sandbox, partial failures, lost answers | every service is known to some client or in use |
| Integration services (`control_plane/service.py`, `gateway/routers/integrations.py`, `src/scripts/local-stack.sh`) | startup jobs, pid file | start, stop, read | a job's thread, a stop and a restart at once | one startup; a running process is named |
| Steering queue (`src/frontend/src/core/threads/hooks.ts`, `gateway/routers/steering.py`, `agents/steering_queue_store.py`, `agents/middlewares/steering_middleware.py`) | browser queue and lock, SQLite table, reminder in a model turn | steer, retry, send, dismiss, store, claim, checkpoint | lost answers, retries, two runs on a thread, a run that dies | a text reaches the thread at most once, in order; an accepted one is not dropped |
| Thread compaction, automatic summarization (`gateway/routers/steering.py`, `agents/middlewares/summarization_middleware.py`) | the thread's messages | search a cutoff, rescue, write a summary back, defer | tool calls and results must stay together; malformed histories; a merging reducer | largest safe cutoff; requests and newest skills survive |
| Thread handoff (`gateway/routers/handoff.py`) | thread state and folder, package | pack, copy, create, cut over | failure at each call, agents at work, restart | who is sent on finds its whole package |
| Knowledge vault (`control_plane/service.py`, `control_plane/vault_learning/`) | queue, manifest, pages, registry of names | enqueue, ingest with workers, lint, refresh, dismiss, review | leases, two jobs, whole-file saves, crashes between saves | claims are held; nothing is ingested without its source; decisions last |
| Control plane (`control_plane/service.py`, `store.py`, `services/`, `autoresearch_loop/`) | one snapshot file: runs, steps, approvals, jobs, objectives; daemon threads | create, approve, reject, expire, start, step, finish, delete, recover; scheduler tick; research iterations | every mutation is atomic, but decisions are taken on earlier reads; restarts | no step before its approval; an occurrence is run at most once; a count never goes back |
| Plan approval and hand-off, plan making (`agents/middlewares/planner_middleware.py`, `plan_execution.py`, `plan_evaluator_middleware.py`, `todo_dag_middleware.py`, `work_run_handoff.py`, `gateway/routers/steering.py`, `clarifications.py`) | plan, todo graph, questions, marks in thread state; in-flight table with a TTL; `plan.md` | plan, evaluate, ask, clarify, execute, hand off, mark | read, decide and write in separate requests; a TTL shorter than a run | one hand-off per window; answers before approval; graphs stay sound |
| Background executor (`agents/background.py`) | permits, pool | submit, run with timeout | permit released by the worker or by the canceller | permits out = tasks in the executor |
| Run guards, Work Mode driver (`agents/middlewares/loop_detection_middleware.py`, `todo_failure_retry_middleware.py`, `subagent_limit_middleware.py`, `work_mode_middleware.py`) | counters of a run, todo statuses | before and after model and tool calls | thresholds, stopped runs | bounded retries; completed means done |
| Memory (`agents/memory/`) | queue with timers, file, index, caches of two processes | add, fire, process, edit, forget, reload | timer against worker, caches against writers | no update lost, none applied over another |
| Settings file and embedded client (`config/extensions_config.py`, `gateway/routers/`, `skills/curation.py`, `client.py`) | one JSON file, cached copies | save a section, read, stream | whole file saved from a copy | a save keeps the other sections; copies catch up |
| Chat channels, generation jobs, repository overview (`channels/`, `generation/`, `gateway/routers/workspace_io.py`) | inbound queue, topic map, job files, refresh tasks | dispatch, reply, submit, poll, list, refresh, publish, recover | concurrent messages, crash between remote call and store, restart | one thread per topic; every end heard of; only reviewed mirrors published |
| Proposals, templates, triggers and feedback of the control plane; retries of model calls; other sandboxes; the rest of the frontend; configuration and file transfer | see `PROJECT.json` | | single records or pure I/O | not modelled |

How they interact: the browser talks to the gateway over HTTP; the gateway reads and writes LangGraph thread
state (`get_state`, `update_state`, `runs.create`); runs call the middlewares, which claim steering intents,
drive the plan, guard the turn, release sandboxes and queue memory updates; the task tool runs in a tool call
of a run and polls the subagent executor; hand-offs and other daemons share the background executor; the
gateway's lifespan starts scheduler, poller, channels and recovery and takes them all down with it; agents,
gateway and embedded client share the settings, memory and vault files without a common lock.

## 2. How the models are organised

One module per component; a module that composes several for TLC begins with `MC`, holds the definitions that
its `.cfg` names, and states the conjunctions that a run checks. Where components share no state (a part of
the composition that nobody else writes), a behaviour of the composition is about one of them and the others
rest in an initial state: the run is then the sum, not the product, of its parts. Where they do share state,
they are really composed (`BackgroundExecutor` under `PlanHandoff`, `WorkMode` with `RunGuards`,
`MemoryScope` under `MemoryQueue`, `ExtensionsFile` under `EmbeddedClient`, and the services of the gateway,
which die together).

Data is abstracted to what properties tell apart: texts, prompts and payloads are model values or kinds; a
todo is a name with a status; time is a counter in the unit at which the code decides (a poll interval, a TTL
window) or a flag (idle longer than the limit). Every bound is a constant or named in a workload record, that
is, what users and failures may do in one behaviour.

### Subagents (`Subagents`)
One task has three threads: the tool call that polls (`poller`), the scheduler worker in `run_task` (`sched`)
and the execution worker in `_aexecute` (`exec`). `status`, `result`, `completed_at` and `cancel_requested` are
the shared `SubagentResult`; `registry` holds the keys of `_background_tasks`. Actions: `ExecuteAsync`,
`RunTask`, `RunTaskFinish`, `RunTaskTimeout`, `RunTaskExpire` (the handler runs after the timeout has fired),
`ExecStart`, `ExecEnd` with its four outcomes (the answer is stored in one step and published in the next, as
the code does without the lock), `CancelThread`, `Poll`, `Cleanup`, `PollWake`, `Tick`. A tick is one poll
interval of five seconds: code between two sleeps takes less, so `Tick` waits for steps that are ready; a
model's stream may take any time.

### What else serves an agent (`RunRecords`, `MiddlewareOrder`, `BatchRun`, `TurnHooks`, `ToolCatalog`)
`RunRecords`: the queue of a run's events with its three readers (trajectory file, trace, timeline), the tool
calls in parallel, retries, and what each reader saves and streams. `MiddlewareOrder`: `MwSort` is Kahn's
algorithm step by step over every registry of up to three middlewares, beside the work agent's own, and the
compaction thresholds over several context windows. `BatchRun`: the scripts `--init`, `--mark` and
`write_result` with the two files, an interruption between any two writes and a torn file. `TurnHooks`: what
the pivot, timeout, evaluation, question and title hooks keep over the runs of one thread. `ToolCatalog`:
the lead, plan and subagent factories over a catalog that is good, overridden, unreadable or broken, with MCP
servers, while switches are written (`json_driven_tools` on, its default; the legacy path is not modelled).

### Sandboxes (`SandboxProvider`, `HostPorts`, `SandboxPods`, `IntegrationServices`)
A sandbox id is a hash of its thread id, so a thread stands for its sandbox and its container's name. `running`
is the container; `active`, `warm`, `stale` are a provider's entries; `doomed` holds entries popped under the
lock whose container is stopped after it; `threadLock` and `fileLock` are the two locks of acquire. An acquire
is a chain of actions with others in between: `Acquire`, `TakeFileLock`, `Discover`, `Adopt`, or
`CountReplicas`, `EvictWarm`, `StopEvicted`, `StartContainer`, `RegisterCreated`, `GetAcquired`, `ToolDone`.
The idle checker scans, verifies and destroys in three steps; `Crash` restarts a process while its containers
go on. `HostPorts` is the local backend below it: reserve a port, let Docker refuse it, retry, register,
discover, destroy. `unstopped` names the containers Docker refused to stop; `cut` and `later` are histories of
the tool calls and the idle checker, for `ServesWhileUsed` only. `SandboxPods` is the other backend: a pod and a service per sandbox, created and deleted in
two calls that may fail, be lost or time out at the client, with restarts of the provisioner.
`IntegrationServices` is the startup job of the gateway with its thread, the script and the pid file.

### Steering (`SteeringQueue`, `SteeringIntents`)
`status`, `lock`, `timer`, `req` are the browser; `posts` the requests on the wire; `rows` and `consumed` the
table; `held` what a run claimed and has not checkpointed; `injected` and `said` what the thread got. A request
may fail before or after the gateway stored the intent; `Kill` is a run that dies between `Claim` and
`Checkpoint`. `SteeringIntents` is the promise (wait in line, taken once, oldest first, injected at most once,
lost only with its run); `KeepsPromise` is the refinement with `line` the unclaimed rows and `taken` what the
runs hold.

### Threads (`Compaction`, `Summarization`, `WorkspaceFork`)
A message is the set of calls it makes and the call it answers. One turn of `_safe_compaction_cutoff` is one
action (`MoveBack`, `SkipOrphan`, `Found`); `WriteBack` goes through the reducer of the `messages` channel.
`CutoffIsBest` is the reference definition of its result. `Summarization` is the middleware in a run:
trigger, grace deferrals, partition at a request, rescue of skills within their count and token budget and of operational results, forced compaction
and patch of dangling calls. `WorkspaceFork` is the handoff of a thread: manifest, package, copy item by item,
new thread, cut over, with agents editing beside it, a failure at each call and a restart.

### Knowledge vault (`VaultIngest`, `VaultPages`, `CanonicalNames`)
`VaultIngest`: claims with leases, workers, chunks, whole-file saves of queue and manifest, cancel, wipe,
crash, the stale sweep and the forced rescue; `unseen` and `dropped` are histories of what a job has not read and
of what its saves lost. `VaultPages`: the manifest's links, Phase 0b's cleanup, explorer
refresh, prune, dismissal and restore beside jobs. `CanonicalNames`: the registry of names under lint passes,
judge verdicts, reviews, splits and demotions; `Resolve` follows what the code follows.

### Control plane (`ControlPlane`)
`runs`, `jobs`, `objective` are the snapshot; `exec` the threads that execute runs or iterations; `loop` the
scheduler's tick (which moves every due job on before it creates their runs). `Crash` leaves the snapshot and
forgets the threads; recovery runs on start and when templates are listed. A plain step, an approval step and
an iteration's phases are what a run consists of.

### Plans (`PlanHandoff`, `BackgroundExecutor`, `PlanReview`)
`PlanHandoff` is the plan of one thread between the planner's turn, both routes (clarify and execute), the
hand-off daemon and the work runs; each request reads in one step and writes in another. The in-flight table
forgets an entry after the TTL (`Expire`). `BackgroundExecutor` holds the permits of the daemons' pool.
`PlanReview` is the making of a plan: the todo graph with its patches (`Replace`, `Splice`, ...), evaluation,
questions in batches, `plan.md` edited by the user and the hand-off's override.

### Agent runs (`WorkMode`, `RunGuards`, `MCAgentLoop`)
`MCAgentLoop` is the graph of the lead agent: driver before the model, loop detection, todo recovery and
subagent limit after it, tools, again, with models that repeat themselves, obey, or answer anything from a set.
`Split` goes through the calls of a reply one by one as the code does, a function of how many it has seen.

### Memory and settings (`MemoryScope`, `MemoryQueue`, `ExtensionsFile`, `EmbeddedClient`)
`MemoryScope` is the file with its index and caches; `MemoryQueue` adds the debounce timers (also one that fires
although replaced), the batch and the immediate updates. A failure of the model, of a reply half digested, of a
save or of the index leaves what was done until then (`ModelFails`, `ApplyFails`, `WriteFails`, `IndexFails`). `ExtensionsFile` is the settings file with every
endpoint that rewrites it and the copies of three processes; `EmbeddedClient` streams and saves. A request that failed
to load or to write ends as `failed`, one that went through as `over`: only the latter replaces the client's agent.

### Services of the gateway (`Channels`, `Generation`, `RepoOverview`, `MCGatewayServices`)
Dispatch with permits, thread lookup and creation, the topic map and its file, retries of replies; submission, polling, ends and their
sequence; analysis, refresh tasks with attempts, publication, mount changes. `Restart` takes them all.

## 3. Fairness

Safety needs none. For liveness each run assumes only what the scheduler of the code gives: the threads of a pool
and the tasks of an event loop go on (weak fairness of a thread's next step, `SchedulerStep`, `WorkerStep`,
`Execute`, `Daemon`, `HandlerStep`, `Poller`, `Refresh`), timers fire (`Fire`, `TimerFires`, `LockExpires`,
`Tick`; of the subagents' and the ingest's threads only that some one of them goes on), and a request over HTTP returns, fails or times out (`Network`, `Serve`). A model's call that the code
awaits without a timeout is assumed to return, whatever it answers (`Answers` of the memory update, `Step` of
the agent's graph, `SeatStep` of the planner), with one exception: a subagent's execution need not end, and
`QueuedTasksRun` rests on the code's own timeout. Users never have to act, a failed call never has to succeed.
Strong fairness appears twice, where a step is enabled again and again while others disable it: a permit of the
channels' semaphore goes to one of several waiting messages (`Serve`), and a model that obeys marks its todo
as completed sooner or later (`Completes`, under `TurnsEnd`).

## 4. The runs

| Run (module) | Distinct states | Instance | What it shows |
|---|---|---|---|
| `subagents` (`MCSubagents`) | 774 262 | 2 tasks of 2 conversations, 1 worker per pool, timeout of 2 ticks, buffer 1; a task call and a command call, 1 signal, report and retry; registries of up to 3 middlewares; a list of 2 with a stop and a torn file; 3 runs of a thread; 4 tools, 2 servers, 1 switch | `SuccessHasResult`, `SettledCancelIsFailed`, `NeverDisappears`, `PollTimeoutMeansQueued`, `NoOrphanStart`, `QueuedTasksRun` of the tasks; `RecordsAreWhole`, `AssemblyIsSound`, `ResultsMatch`, `TurnsAreBounded`, `OfferIsSound` of the other parts |
| `sandbox` (`MCSandbox`) | 1 349 290 | 2 threads of one process, or 2 runs of one thread there, with failing health checks and stops, or 1 thread in 2 processes with a crash; 1 replica, 2 starts; 3 creators, 3 ports, 2 tries; 2 pods, 4 requests, 3 faults; 3 startups, a stop, a restart | `ContainersAreSound`, `PortsAreSound`, `PodsAreKnown`, `StartupsAreSound`; no deadlock |
| `steering` (`SteeringQueue`) | 61 112 | 2 messages, 2 runs, 3 failed requests, 1 killed run | `AtMostOnce`, `SteeredIsStored`, `StoredIsInjected`; `KeepsPromise`, the refinement of `SteeringIntents` |
| `compaction` (`MCThreadHistory`) | 532 524 | every history of up to 6 messages over 2 call ids (exchangeable, so that the first used alone is called a), keep 3, at least 4; runs of 7 messages, trigger 4, keep 3, grace 2, skill blocks of 1 to 3 tokens, at most 2 of them with 2 tokens kept; 2 handoffs over 3 threads with an edit or a restart | `CutoffIsBest`, `HistoryIsWhole`, `GraceIsBounded`, `HandoffsEnd` |
| `vault_ingest` (`MCVaultLife`) | 599 638 | 1 item, 2 attempts, 1 job of 2 workers or 2 of 1 with a fault, or 1 of 1 with 2 (`Extent`); 1 source, 2 jobs or a job and 2 calls; 5 surfaces, 2 passes, 2 calls | `QueueIsSound`, `PagesStay`, `DecisionsStay`, `RunnersEnd` |
| `control_plane` (`ControlPlane`) | 783 012 | 2 runs, 1 job with 2 occurrences, 2 threads, 1 phase; four workloads: runs and jobs with a crash, iterations with a crash, iterations and requests on the objective, iterations on two threads | `ApprovalsHold`, `OncePerOccurrence`, `RunsGoOn`; no deadlock |
| `plan_life` (`MCPlanLife`) | 353 871 | 1 worker, 2 permits, 3 turns, 2 requests, 1 question, 2 runs, 1 stale mark; graphs under patches, 2 questions, 2 batches | `PermitsBalance`, `OneHandoffPerWindow`, `PlanIsSound`, `PlanGoesOn` |
| `agent_loop` (`MCAgentLoop`) | 159 564 | 3 todos, the third after the first two; 2 runs; 53 models | `TurnsAreGuarded`, `TurnsEnd` |
| `user_files` (`MCUserFiles`) | 283 609 | 2 facts, 2 rules, 2 threads, 1 immediate update, edits; 3 saves of the settings, a mishap | `FilesAreSound`, `UpdatesSurvive` |
| `gateway_services` (`MCGatewayServices`) | 123 922 | 4 messages, 2 permits, 2 sends; 2 jobs, pages of 1; 2 attempts, 2 analyses; restarts | `ServicesAgree`, `ServicesGoOn` |
| `settings_loss_doc` (`MCUserFiles`) | violation | one switched tool | `OnlyTheToolsSection`, see section 5 |
| `overview_recovery_doc` (`MCGatewayServices`) | violation | an analysis cut by a restart | `RecoveryFailsForWant`, see section 5 |

Why the bounds are enough to meet the hazards: two of everything that races (tasks, runs, requests, workers,
processes, messages of a topic, saves), one more where the third matters (three creators for two processes, three
todos for a join in the graph, three ports for two tries); one fault more than the code repairs without being
asked; and each threshold (retries, grace, attempts, loop limits) small enough to be passed within a run. Counters of the
code that grow without bound (versions, sequence numbers, iteration counts) are bounded by the workload that
feeds them. `sandbox` counts states that differ by a swap of the two runs with their threads or processes once
(`Alike`; it checks no liveness). Deadlock is checked where something can always go on (`sandbox`, `control_plane`); elsewhere a
behaviour ends when its workload is used up and nothing waits.

Each property of a passing run is a conjunction of named parts, stated beside the component it speaks of, and
has a mutant that breaks it.

## 5. Findings

* `settings_loss_doc`: switching a community tool writes the settings file without the user's model endpoints
  and the vault's settings, though the function says that it "updates only the communityTools section"
  (`gateway/routers/community_tools.py:47-61`).
* `overview_recovery_doc`: a refresh that a restart cut is failed for want of an index that is there: it is
  looked for in `.docs` and written to `.analyse` (`gateway/routers/workspace_io.py:224`, 1195).

Claims of docs and comments that other models refute, as TLC shows when the formula named is checked (each
stands in its module with the text it comes from): `Terminates` and `ThreadIsCompacted` (`Compaction`: the
search loops for ever on a history with an orphaned result at its end, and the write-back through the merging
reducer removes nothing), `DuplicateOnlyWhileRunning` (`PlanHandoff`), `DestroyStops` (`SandboxProvider`),
`StreamedIsSaved` and `NobodyStarves` (`RunRecords`), `ContractOfItsMode`, `WithinGroups` and
`HiddenFromSubagents` (`ToolCatalog`), `RecoversOnlyDead` (`ControlPlane`). Stated from the docs and
not model-checked: `AnswersThisTurn` and `LastText` (`EmbeddedClient`), `ResumesAfterDone` (`BatchRun`),
`TimeoutIsPickedUp` (`TurnHooks`).

### Seen while reading, not shown by a run

*Subagents, steering.* `run_task` sets RUNNING over a terminal status that a cancel in the queue set
(`subagents/executor.py:469`, docstring 537-539). Entries of calls that reached the polling limit are never removed
(`task_tool.py:741`, comment 738-740). A retry while the steering lock is held does nothing and keeps its mark
(`hooks.ts:1426`). A submission that is rejected goes back to the queue, also when the server had taken it
(`hooks.ts:1548`), and its message is then said twice; `SendFails` and `AtMostOnce` are about those that the server
did not take. Steering is at most once, although the store's docstring says exactly once: a run may die between
claim and checkpoint.

*Records and assembly.* The timeline's first drain in `before_model` finds the queue emptied by the trace.
Lines made in a call whose tool returns a message are streamed and never saved. `compaction_count`, merged with
`max`, stays 1. A thread's first trajectory file is reused by later runs. With the kill switch on, the clarification
middleware is not last (comment at `work_agent/agent.py:596-598`). Keeping 32 000 tokens is no compaction for windows
up to 40 000.

*Batch, hooks, tools.* The skill never calls `--init`, so an interrupted run does not restart from the last
completed task (`SKILL.md:27`). Checkpoint and results are rewritten in place. A timed-out model call ends the run
instead of "its next iteration" (`model_timeout_middleware.py:14-15`). The pivot counts the thread's messages
against a limit of the run. The evaluator's `eval_attempts` is never reset. A custom agent's tool groups are
ignored for catalog tools. Building an agent of the other mode rewrites shared tool descriptions. An unreadable
catalog offers every built-in tool. One server's failed OAuth drops all bulk servers.

*Sandboxes, services.* A container popped from the warm pool can be found again before eviction stops it
(`aio_sandbox_provider.py:489-490`). A discovered sandbox without id is left running by destroy, and so is one that
Docker fails to stop (`local_backend.py:285-286`): no provider knows it any more. A tool's container can be stopped
under it: the idle checker lets its lock go between looking again and destroying, a tool call may outlast the idle
timeout, and the end of another run of the thread parks the entry, which eviction then stops (`TakesAway`). A refused
delete of a pod is only logged. A startup job "succeeds" whatever happened, since `_core_services_readiness` returns an
empty list. A command's timeout is only looked at when a line is printed. A stop beside a start's script can lose
the pid.

*Threads.* The second compaction takes the first summary for the user's request. A forced compaction can leave a
call without its result. A skill block above the token budget is summarised even when it is the newest. A failed
handoff leaves its new thread behind; a second one empties the source's `.handoff`; an agent that writes meanwhile
tears the copy.

*Plans.* Two execute requests at once create two runs. The second `update_state` writes the plan read before the
first. Marks of the duplicate check outlive the run (`plan_execution.py:105`). With the executor full a plan stays
approved though "plan_handoff_started" was sent. After one expiry of the TTL two hand-offs can coexist. Two
questions in one reply each see the old queue. `plan.md` stays draft after auto-approval and can replace the approved
plan. A cyclic patch raises outside the `try`. Removing and adding a todo strips its rich fields.

*Agent loop.* A reply that calls one tool ten times is never stopped, and two alternating tools reset the second
layer. After a warning the subagent limit is not applied; deferred calls are dropped when new ones come. Two
`write_todos` calls in one reply fail the run.

*Memory, settings.* `queue_immediate` drops the pending entry (docstring `queue.py:172-176`). Gateway edits take no
lock. A failed save leaves the change in the cache, as does a reply that `_apply_updates` cannot digest to its
end (`updater.py:311`): the next save stores it. An error of SQLite is swallowed after the file was saved, and the
index stays behind. The index's key lacks the scope. Every save of a section drops the
sections its writer does not know. Overlapping writers can leave garbled JSON, a crash an empty file. The
client's `chat()` returns the previous turn's answer when a turn has no text.

*Vault.* With two jobs at work the older one's save takes sources out of the manifest whose entries stay ingested
(`dropped`; `IngestedHasSource` excuses just these). The forced rescue takes live claims. Reset and commit take two
locks in opposite order. Reingestion never writes the references by which the next job's cleanup keeps pages.
Dismissed entities' pages come back. Verdicts are keyed by slug only. A review approved before a crash between its
two saves is lost. A corrupt table is replaced by an empty one.

*Control plane.* A finished run can be reopened by a second start or by the executor of a recovered one. A second
daily job can exist for one objective. `run_now` twice runs two iterations of one number (ledger docstring,
`ledger.py:79-86`). `running_run_id` is stranded after a recovery and a crash. The stop flag leaks past a clear.

*Channels, generation, overview.* A Telegram reply's topic is never a stored key, so each reply starts a thread;
two messages of one topic can create two. A failed save of the topic map keeps the new thread in memory until
the process stops, when the topic gets another (`OneThreadPerTopic` excuses it). A restarted Slack channel loses the queue it is said to replay and keeps
the listener of its stopped instance. Poller and router use two stores with two locks on one file. A crash between
submission and store orphans a prompt. Publishing during an analysis copies a half-written mirror.

## 6. What is proved

Each `*Proofs` module extends the components it is about; the proofs about `Compaction` stand in it. Proofs rest
only on the named assumptions of the modules (sizes are numbers, pools are not empty, workloads are of their
type) and on the library's theorems on finite sets and sequences.

| Theorem | Property of a run | Statement |
|---|---|---|
| `TypeCorrect`, `SuccessIsReal`, `CancelIsHealed`, `TasksStay`, `PollLimitIsANet`, `NoOrphans` (`AgentProofs`) | `SuccessHasResult`, `SettledCancelIsFailed`, `NeverDisappears`, `PollTimeoutMeansQueued`, `NoOrphanStart` | for any tasks, pools, timeout and buffer: types; a success has its answer; a settled cancel is failed; a polled task is in the registry; the polling limit is reached only by a task that queued for the whole buffer; no execution starts for a task its scheduler has let go |
| `BoundedTurns`, `TitleStays`, `CheckpointAgrees` (`AgentProofs`) | `TurnsAreBounded`, `ResultsMatch` | thresholds fire once and evaluations are bounded over all runs of a thread; a shown title stays; for a list of any length what is done has its one row |
| `RecordsStayWhole` (`AgentProofs`) | `RecordsAreWhole` | for any calls, signals, reports and retries: each of the three readers is given every event once and in order from its first drain on; what the trace saves was streamed, nothing twice; a call that has begun has one end unless it runs |
| `SearchIsBest`, `OnlyOrphansGo` (`Compaction`) | `CutoffIsBest`, a part of `HistoryIsWhole` | on any well-formed history the search ends only at the largest cutoff that keeps the recent messages and every result with its call; on any history it goes beyond the desired cutoff only where a result has no call |
| `AtMostOnceAlways`, `SteeredIsKept`, `PromiseIsKept` (`QueueProofs`) | `AtMostOnce`, `SteeredIsStored`, `KeepsPromise` | for any messages, runs, failures and kills: at most once; an answer "steered" is true; the queue implements `SteeringIntents` |
| `FilesStaySound` (`QueueProofs`) | `FilesAreSound` | for any facts, threads, updates, savers and workloads: nothing pending is left without a timer; once those at work are done the memory's index and caches agree with its file, unless an edit met an update or a failure left something half done (a reply digested in part, a save, a write of the index); settings saved one after the other are all kept, and copies catch up; a stream yields each message once; a kept agent knows its client's saves |
| `UpdatesAreKept` (`QueueProofs`) | a part of `UpdatesSurvive` (`NoLostUpdate`) | what a save stores is the file with exactly what its operation took away and added, as long as no edit met an update and no failure left something half done |
| `ServicesStartOnce`, `PortsComeBack`, `PodsStayKnown` (`SandboxProofs`) | `StartupsAreSound`, `PortsAreSound`, `PodsAreKnown` | one unfinished startup, a running process is named; every reserved port is in use by a call under way or will be given back; at rest a living pod has its service unless a request failed half-way, and some client knows what is there |
| `ContainersStaySound` (`SandboxProofs`) | `ContainersAreSound` | for any threads, processes, replicas and starts: an entry with its container's id is alive; none is both in use and parked; as long as health checks succeed no two processes start one container; without a crash every container that Docker did not refuse to stop is in an entry, with a call, or about to be stopped; a container that a provider started runs as long as a tool works in it, unless its entry was taken away (`TakesAway`) |
| `QueueStaysSound`, `SourcesAreThere` (`VaultProofs`) | `QueueIsSound`, a part of `PagesStay` | runners are counted, claims have a holder, reprocessing waits for the chunks; what is marked ingested has its source in the manifest, unless a job beside it that had not seen the source saved its own copy |
| `OwnPagesRemain`, `ConceptPagesRemain` (`VaultProofs`) | parts of `PagesStay` | unless a save or a deletion went over what it had not seen, what the manifest records has its page and so has every concept its records name |
| `VerdictsStay`, `DismissalsStick` (`VaultProofs`) | parts of `DecisionsStay` | an ended job keeps its verdict; a dismissed entity comes back by restoring it only |
| `PlanTypes`, `PermitsAreBalanced`, `HandoffsAreGuarded`, `AnswersComeFirst`, `DuplicatesAreReal` (`PlanProofs`) | `PermitsBalance`, `OneHandoffPerWindow` | permits out are the unfinished tasks; a window holds one hand-off of a revision; no approval with pending questions; who skips planning was handed over |
| `TurnsStayGuarded` (`PlanProofs`) | `TurnsAreGuarded` | for any todo graph, tools, replies, models and limits, through stops and restarts: types; a completed plan has no open todo; reminders of a turn stay within the two bounds; what is executed has no more task calls, and no more on the primary endpoint, than allowed, unless it carries a warning |
| `ApprovalsAlwaysHold`, `OneRunPerTime`, `IterationsCountUp` (`ControlProofs`) | `ApprovalsHold`, `OncePerOccurrence` | no step before its approval and a run waits just while its approval is pending; one run per time of a job, through crashes; an objective's count never goes back |
| `ServicesStayInOrder` (`ServiceProofs`) | `ServicesAgree` | for any messages, jobs and workloads, through restarts: a topic has the threads it was given, an end of a job that the frontend is past was told, the record of a refresh is live just while its task is, and what is published unforced was reviewed; each unless the code let two steps cross, as the property says |

How the arguments go:

* **Subagents.** `IInv` is `TypeOK` with `QueueInv` (who is in which pool), `LifeInv` (what each of the three
  threads' positions says of the shared object), `ObjectInv` (status, answer and completion time together) and
  `TimeInv`, which the polling limit needs: the poll count is at most the ticks the task has waited, queued and
  run, and the code's own timeouts bound all but the queueing.
* **Agents.** `TurnInv` relates the thread's marks to what the current run has done; `BatchInv` relates the two
  files to the point the script has reached (`RowsAreRight`, `NothingLost`, `AtATask`).
* **Records.** `RrInv`: the queue holds the last events that were born, and the report of the task tool behind each of
  its entries was streamed (`Queue`). What a reader was given ends with the event before its cursor (`Gets`): compaction
  moves the cursors and the events together and so leaves the number of that event alone (`CompactedFacts`), a new
  event goes behind it, a drain appends what lies between. New trace numbers lie above all that were streamed
  (`Streams`); a call that runs has one start more than ends (`CallsAreClosed` is inductive with `Files`).
* **Compaction.** `Tight`: every cutoff above the current one is unsafe. A step back keeps it because the message at
  the cutoff answers a call before it; skipping an orphan cannot happen in a well-formed history
  (`OrphanSpan`). The nearest call is found as the greatest element of a finite set, not by recursion. On a
  malformed history `Excused`: the search is beyond the desired cutoff only at, or on its way back from, a
  result that nobody called for.
* **Steering.** What was never steered is unknown beyond the browser (`Untouched`), what was said left the
  queue once (`SaidOnce`), claims are exclusive (`Claimed`). For the refinement each action maps to one of
  the abstract ones or a stutter; the order of taking comes from the rows' increasing ids.
* **Memory and settings.** `FilesInv` is `MemoryInv`, `SettingsInv` and `ClientInv`, which share nothing but the
  requests' savers. In `MemoryInv` an update holds the lock of its scope from reading the memory to storing it
  (`Exclusive`), so updates do not overlap; as long as nothing crossed one (`Clean`), what an operation will store is
  the file with its own changes (`Edited`), and one at a time is behind the file with the index and knows what the index
  lacks (`Indexes`). In `SettingsInv` a copy that is as new as the file holds what the file resolves to (`CopyOK`,
  `ReadOf`), a saver that is alone has nobody at work beside it (`Alone`) and has seen the last of every section
  (`SaverOK`), so that the file `Agrees` with what was saved when nobody writes. `ClientInv` needs that a saver of the client moves
  to its end through the step that drops the agent only (`Moves`). A stream's list and the queue without a thread are
  recursive functions over a list of any length, for which `FilteredUpto` finds the first place where a property fails
  and shows that there is none.
* **Sandboxes.** For the ports (`NoLeakedPort`, `CallsAreRight`): a reserved port has an owner among the calls under
  way or the entries, and a call's tried ports are no longer candidates. For the services: the slot's job, its
  thread and the pid file move together except while a stop crosses (`Staged`, `SlotIsTheirs`, `Tracked`,
  `AtRest`). For the pods `PdInv`: which step of a request means which of the two objects is there (`Serving`,
  `Waited`, `Paired`, `ServiceFirst`), and who will see to one that is left (`Cared`).
* **Provider.** `PvInv`: an acquire that is past the two locks holds them and finds nothing cached (`LocksHeld`);
  a container found belongs to the thread (`Found`); a popped entry has one holder that stops it
  (`HeldRuns`, `OneHolder`, `RunsAreHeld`). For `ServesWhileUsed`: a tool that was not cut has its entry
  (`ToolHasEntry`), and what the checker verified is stale or was used since (`Checked`).
* **Vault, queue.** `VInv`: what a worker's place says of what it holds and of its job (`Shaped`), the places of a
  job are distinct (`Apart`), the job's counter covers all that have not drained (`CountedDown`), the job that is shown
  was started (`JobIsTheirs`). Every worker step has one form, `Runs(k, new)`, for which the unaffected parts are shown
  once. For the sources, what a job holds covers what it has seen of the file (`Covers`), so that a save drops only
  what its job had not seen (`SaveCovers`).
* **Vault, pages.** `PgInv`: a copy that is being worked on has the hashes and dismissals it was read with
  (`Copies`); a hash belongs to a recorded source and to a content shown (`Shown`); a route at its second step has
  the pages for itself or has missed a runner (`Watched`); as long as nothing was lost the manifest is not ahead of
  a job's copy (`NotAhead`), the page of what is being ingested is written (`PageIsWritten`), and so are the pages of the
  concepts that will be recorded (`NamesHavePages`). All routes that save go through one lemma (`RouteSaves`).
* **Plans.** `Balanced` (permits), `Shaped` (types and which fields belong to which step of a request), `Noted`
  (what an entry of the in-flight table and a daemon say of each other within a window), `Explained` (a
  duplicate's marks were set by a hand-off).
* **Agent runs.** `LoopInv`: the driver completes a plan only when it saw every todo completed, and healing never takes
  that back (`WorkInv`); the reminders of a turn are at most what its two counters say (`Counted`), which a warning and a
  new message start again; a reply that loop detection is about to see has one of the known hashes (`KnownReply`).
  `BurstBounded` rests on `SplitIsSound`: the recursion of `Split` has a solution (`PlacingExists`, by the least length
  without one), and after each call the counters are the numbers of tasks and primary tasks kept, within their limits,
  what is deferred is tasks, and nothing deferred means everything kept in its order (`PlaceKeeps`). The deferred calls come
  first, so that the reply's own calls count no more than the whole (`SuffixCounts`, by an injection). The proof assumes
  of the replies that their tools are known and their todo updates name a todo and a status (`RepliesAssumption`,
  `AnswersAssumption`).
* **Control plane.** `IInv` is `Typed /\ Approvals /\ Occurrences`. Since most actions touch few of the
  variables, "forms" lemmas (`RunSteps`, `JobSteps`, `ObjectiveSteps`, `ExecSteps`, `LoopSteps`, `StopSteps`) first say which
  changes of each variable there are; each part of the invariant is then shown for these. `Occurrences` says
  that a time of a job that was or is about to be turned into a run lies before the job's next time, and that the
  tick's list and the runs made hold no time twice.
* **Services.** One invariant for each, since they share nothing but the process. `ChInv`: the permits that are out
  are those of the messages at work (`PermitsOut`), a queued message is in the queue once (`QueuedOnce`), and the
  threads that a topic's chats ran in, with those it is mapped to in memory and in the file, are at most one more than `/new` made
  (`Accounted`, a bound on cardinalities). `GenInv`: every copy of the job file, stored or being changed, gives the ended
  jobs distinct numbers and exactly those below the next one (`StoreIsSound`, so there is no gap for a reader to
  wait at); a copy being changed is the file's as long as no two changes overlapped. `RvInv`: the job with a task is the
  last of the file (`TaskIsLatest`), and as long as no analysis met anything else (`Undisturbed`) an idle mirror with
  an index is whole and, if the last refresh succeeded, has a report of its own version.

Finite sets are put in order by the well-founded choice of a least element (`SomeLeast`), where a recursion
would otherwise be needed.

## 7. What is only model-checked

* Liveness (`QueuedTasksRun`, `StoredIsInjected`, `GraceIsBounded`'s and `HandoffsEnd`'s ends, `RunnersEnd`,
  `RunsGoOn`, `PlanGoesOn`, `TurnsEnd`, `UpdatesSurvive`'s second half, `ServicesGoOn`): fairness and `ENABLED` are out of the
  prover's reach.
* What rests on recursion or on filtered sequences: `AssemblyIsSound` (a topological sort by repeated filtering),
  `OfferIsSound` (filters of tool lists), `HistoryIsWhole` beyond the endpoint's search (partition and rescue by
  folds over the messages), `PlanIsSound` (paths in the todo graph, patches). `SelectSeq` and `RECURSIVE` are opaque to the
  provers, and the induction theorems cannot be instantiated.
* The registry of names: the parts of `PagesStay` and `DecisionsStay` about it (`NothingSettledIsAsked`,
  `PassMakesNoChain`, `ResolvesOnce`, `ReviewedStays`), since a name is resolved along a recursive function.

## 8. What is not modelled

Proposals, templates, triggers and feedback of the control plane (single records, one synchronous handler
each), retries of model calls (nothing shared between calls), the local sandbox provider (one directory, no
state), the rest of the frontend, configuration, models, skills, uploads and artifacts (loading, formatting,
file transfer). Within the modelled parts, `PROJECT.json` names what each component leaves out. Hooks and
permissions of tools are read, not modelled: their decisions are local to one call.

## 9. What comes next

In this order: the memory's batch (`NoLostUpdate`), the todo graph's gates (`PlanIsSound`).
