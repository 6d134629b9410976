------------------------- MODULE IntegrationServices -------------------------
(* Starting and stopping the integration services from the gateway           *)
(* (control_plane/service.py, scripts/local-stack.sh): a start is a job in a *)
(* thread of its own, one at a time; a stop runs its command at once, while  *)
(* a job may be under way.  ComfyUI is a process that a pid file names, web  *)
(* search a compose project that Docker keeps single.                        *)
EXTENDS Integers, FiniteSets

CONSTANTS Startups,     \* bound: startup jobs
          SteadyLooks,  \* looks in a row that make a startup a success
          MaxStops,     \* bound: requests to stop a service
          MaxRestarts   \* bound: restarts of the gateway

ASSUME StartupsAssumption ==
  Startups \subseteq Nat \ {0} /\ SteadyLooks \in Nat \ {0} /\ {MaxStops, MaxRestarts} \subseteq Nat

VARIABLES processes,    \* ComfyUI processes that run, by the job that started each
          pidFile,      \* the job whose process the pid file names, 0 without
          webUp,        \* the compose project is up
          startups,     \* _startup_jobs: [status, target, pc, looks]
          activeStartup,\* _active_startup_job_id, 0 without
          shown,        \* _service_state: services a job has asked to start
          stopping,     \* the stop command: its next step, and the pid it read
          spent,        \* [stops, restarts] so far
          stopCrossed   \* history: a stop and the script of a job overlapped

integrations == <<processes, pidFile, webUp, startups, activeStartup, shown, stopping, spent, stopCrossed>>

Catalog == {"comfyui", "websearch"}
NoStartup == [status |-> "none", target |-> {}, pc |-> "none", looks |-> 0]
NoStop == [pc |-> "none", pid |-> 0]
Asked == {j \in Startups : startups[j].status # "none"}
Unfinished == {j \in Startups : startups[j].status \in {"queued", "running"}}
InScript == {j \in Startups : startups[j].pc \in {"look", "launch", "pid"}}

InTypeOK ==
  /\ processes \subseteq Startups /\ pidFile \in Startups \cup {0} /\ webUp \in BOOLEAN
  /\ \A j \in Startups :
       /\ startups[j].status \in {"none", "queued", "running", "success", "lost"}
       /\ startups[j].target \subseteq Catalog /\ startups[j].looks \in 0..SteadyLooks
       /\ startups[j].pc \in {"none", "queued", "look", "launch", "pid", "watch", "settled", "over"}
  /\ activeStartup \in Startups \cup {0} /\ shown \subseteq Catalog
  /\ stopping.pc \in {"none", "check", "kill", "remove"} /\ stopCrossed \in BOOLEAN

InInit == /\ processes = {} /\ pidFile = 0 /\ webUp = FALSE
          /\ startups = [j \in Startups |-> NoStartup]
          /\ activeStartup = 0 /\ shown = {} /\ stopping = NoStop /\ stopCrossed = FALSE
          /\ spent = [stops |-> 0, restarts |-> 0]

\* _enqueue_startup_job, for one service or for all; refused while the active job
\* is unfinished.  The routes are coroutines that never yield, so that no request
\* is served during a stop.
StartServices(target) ==
  /\ stopping = NoStop
  /\ IF activeStartup \in Unfinished THEN UNCHANGED <<startups, activeStartup>>
     ELSE \E j \in Startups \ Asked :
            /\ \A k \in Startups : k < j => k \in Asked
            /\ startups' = [startups EXCEPT ![j] = [NoStartup EXCEPT !.status = "queued",
                                                      !.target = target, !.pc = "queued"]]
            /\ activeStartup' = j
  /\ UNCHANGED <<processes, pidFile, webUp, shown, stopping, spent, stopCrossed>>

\* _run_startup_job: running, a step for each service, then the command.
StartupBegins(j) ==
  /\ startups[j].pc = "queued"
  /\ startups' = [startups EXCEPT ![j].status = "running", ![j].pc = "look"]
  /\ shown' = shown \cup startups[j].target
  /\ stopCrossed' = (stopCrossed \/ stopping # NoStop)
  /\ UNCHANGED <<processes, pidFile, webUp, activeStartup, stopping, spent>>

\* is_pid_running
NotRunning == pidFile \notin processes

\* start_optional_process: a process that the pid file names is enough; without a
\* command or a directory it is skipped.  docker compose up.
ScriptLooks(j) ==
  LET target == startups[j].target IN
  /\ startups[j].pc = "look"
  /\ \/ "comfyui" \in target /\ NotRunning /\ startups' = [startups EXCEPT ![j].pc = "launch"]
     \/ startups' = [startups EXCEPT ![j].pc = "watch"]
  /\ webUp' = (webUp \/ "websearch" \in target)
  /\ UNCHANGED <<processes, pidFile, activeStartup, shown, stopping, spent, stopCrossed>>

ScriptLaunches(j) == /\ startups[j].pc = "launch"
                     /\ processes' = processes \cup {j}
                     /\ startups' = [startups EXCEPT ![j].pc = "pid"]
                     /\ UNCHANGED <<pidFile, webUp, activeStartup, shown, stopping, spent, stopCrossed>>

WritesPid(j) == /\ startups[j].pc = "pid" /\ pidFile' = j
                /\ startups' = [startups EXCEPT ![j].pc = "watch"]
                /\ UNCHANGED <<processes, webUp, activeStartup, shown, stopping, spent, stopCrossed>>

\* _run_local_stack_command: the script fails, or its output comes too late; the
\* job goes on to the checks all the same.
ScriptFails(j) == /\ startups[j].pc = "look"
                  /\ startups' = [startups EXCEPT ![j].pc = "watch"]
                  /\ UNCHANGED <<processes, pidFile, webUp, activeStartup, shown, stopping, spent, stopCrossed>>

\* The list of core services is empty, so that every look finds them healthy.
Watches(j) ==
  LET looks == startups[j].looks + 1 IN
  /\ startups[j].pc = "watch"
  /\ startups' = [startups EXCEPT ![j].looks = looks,
                    ![j].pc = IF looks = SteadyLooks THEN "settled" ELSE @,
                    ![j].status = IF looks = SteadyLooks THEN "success" ELSE @]
  /\ UNCHANGED <<processes, pidFile, webUp, activeStartup, shown, stopping, spent, stopCrossed>>

\* Mutated: the slot is cleared whoever has it.
ClearedAlways(j) == 0

Cleared(j) == IF activeStartup = j THEN 0 ELSE activeStartup

\* finally
StartupEnds(j) == /\ startups[j].pc = "settled"
                  /\ startups' = [startups EXCEPT ![j].pc = "over"]
                  /\ activeStartup' = Cleared(j)
                  /\ UNCHANGED <<processes, pidFile, webUp, shown, stopping, spent, stopCrossed>>

\* stop_integration_service: compose down, or stop_optional_process.
StopAsked == /\ stopping = NoStop /\ spent.stops < MaxStops
           /\ spent' = [spent EXCEPT !.stops = @ + 1]

StopWebSearch == /\ StopAsked /\ webUp' = FALSE
                 /\ UNCHANGED <<processes, pidFile, startups, activeStartup, shown, stopping, stopCrossed>>

StopComfy == /\ StopAsked /\ stopping' = [NoStop EXCEPT !.pc = "check"]
             /\ stopCrossed' = (stopCrossed \/ InScript # {})
             /\ UNCHANGED <<processes, pidFile, webUp, startups, activeStartup, shown>>

StopReads == /\ stopping.pc = "check"
             /\ stopping' = IF pidFile \in processes THEN [pc |-> "kill", pid |-> pidFile]
                            ELSE [pc |-> "remove", pid |-> 0]
             /\ UNCHANGED <<processes, pidFile, webUp, startups, activeStartup, shown, spent, stopCrossed>>

StopKills == /\ stopping.pc = "kill"
             /\ processes' = processes \ {stopping.pid}
             /\ stopping' = [stopping EXCEPT !.pc = "remove"]
             /\ UNCHANGED <<pidFile, webUp, startups, activeStartup, shown, spent, stopCrossed>>

StopRemoves == /\ stopping.pc = "remove" /\ pidFile' = 0 /\ stopping' = NoStop
               /\ UNCHANGED <<processes, webUp, startups, activeStartup, shown, spent, stopCrossed>>

\* ComfyUI ends by itself.
ComfyDies(j) == /\ j \in processes /\ processes' = processes \ {j}
                /\ UNCHANGED <<pidFile, webUp, startups, activeStartup, shown, stopping, spent, stopCrossed>>

\* The gateway dies: jobs and their threads are gone, what they started is not.
InRestart ==
  /\ spent.restarts < MaxRestarts /\ spent' = [spent EXCEPT !.restarts = @ + 1]
  /\ startups' = [j \in Startups |->
                    IF startups[j].pc \in {"none", "over"} THEN startups[j]
                    ELSE [NoStartup EXCEPT !.status = "lost"]]
  /\ activeStartup' = 0 /\ shown' = {} /\ stopping' = NoStop
  /\ stopCrossed' = (stopCrossed \/ InScript # {} \/ stopping # NoStop)
  /\ UNCHANGED <<processes, pidFile, webUp>>

InNext ==
  \/ \E j \in Startups : \/ StartupBegins(j) \/ ScriptLooks(j) \/ ScriptLaunches(j)
                         \/ WritesPid(j) \/ ScriptFails(j) \/ Watches(j) \/ StartupEnds(j)
                         \/ ComfyDies(j)
  \/ \E target \in {{"comfyui"}, {"websearch"}, Catalog} : StartServices(target)
  \/ StopComfy \/ StopWebSearch \/ StopReads \/ StopKills \/ StopRemoves \/ InRestart

InSpec == InInit /\ [][InNext]_integrations

----------------------------------------------------------------------------
(* Properties.                                                               *)

\* At most one startup is under way, also when a job is asked for between the end
\* of the previous one and the moment it leaves its slot.
OneStartup == Cardinality(Unfinished) <= 1

\* A ComfyUI process that runs is the one the pid file names, or a job is about to
\* write it there: a stop finds it.  A stop beside a job's script may lose it.
ProcessIsNamed ==
  ~stopCrossed => \A j \in processes : pidFile = j \/ startups[j].pc = "pid"

\* One startup at a time, and what it started can be found again.
StartupsAreSound == InTypeOK /\ OneStartup /\ ProcessIsNamed
=============================================================================
