-------------------------- MODULE SandboxProvider --------------------------
(***************************************************************************)
(* The container sandboxes of community/aio_sandbox: AioSandboxProvider     *)
(* (acquire, get, release, destroy, eviction, the idle checker, shutdown),  *)
(* LocalContainerBackend, and their callers ensure_sandbox_initialized and  *)
(* SandboxMiddleware.after_agent.                                           *)
(*                                                                          *)
(* The sandbox id is a hash of the thread id, so a thread stands for its    *)
(* sandbox and for its container's name.  A thread's mapping in             *)
(* _thread_sandboxes, _sandboxes and _sandbox_infos is written and removed  *)
(* under one lock and is one entry here.  Time is a flag: an entry is stale *)
(* when it has been idle longer than idle_timeout.                          *)
(***************************************************************************)
EXTENDS Naturals, FiniteSets

CONSTANTS
    Procs,       \* backend processes, each with a provider of its own
    Threads,     \* conversation threads
    Runs,        \* agent runs that call tools
    Placements,  \* which process and thread a run may be of, and the faults met
    Borrowers,   \* runs with release_on_exit=False (subagents)
    Replicas,    \* config replicas, the soft limit
    MaxStarts    \* bound: container starts per thread

Free == "free"  \* no holder: no run has this name

ASSUME SandboxAssumption ==
    /\ Free \notin Runs
    /\ Placements \subseteq [procOf : [Runs -> Procs], threadOf : [Runs -> Threads],
                              flaky : BOOLEAN, refuses : BOOLEAN, maxCrashes : Nat]
    /\ Borrowers \subseteq Runs
    /\ Replicas \in Nat /\ MaxStarts \in Nat

\* SandboxInfo: which start of the container it names, and whether it carries
\* the container_id (a discovered container comes without one).
Info == [inc : Nat, owned : BOOLEAN]
None == [inc |-> 0, owned |-> FALSE]

VARIABLES
    running,     \* the container of a thread: 0, or the number of its start
    starts,      \* containers started so far, per thread
    active, warm, stale,  \* per process and thread: the entry in use, the parked one, its age
    doomed,      \* per process: <<thread, info>> popped, backend.destroy still to come
    scanned, verified,    \* per process: what the idle checker found and re-verified
    shut,        \* per process: _shutdown_called
    threadLock, fileLock, \* their holders
    pc, known, info,      \* per run: its place, sandbox in its state, the info at hand
    crashes,
    placement,   \* the placement of this behaviour
    unstopped,   \* history: threads whose container runs on though Docker was to stop it
    later,       \* history, per process: threads served since the idle checker looked again
    cut          \* history, per run: the entry was taken away while its tool works

ProcOf == placement.procOf
ThreadOf == placement.threadOf
Flaky == placement.flaky    \* may a health check of a running container fail?
Refuses == placement.refuses    \* may Docker fail to stop a container?

provider == <<active, warm, stale>>
checker == <<doomed, scanned, verified, shut>>
locks == <<threadLock, fileLock>>
runs == <<pc, known, info>>
vars == <<running, unstopped, starts, provider, checker, locks, runs, crashes, placement, later, cut>>

Places == {"idle", "filelock", "discover", "adopt", "count", "evict", "stop",
           "start", "ready", "have", "using"}

\* One type invariant for the containers, the providers and the runs.
TypeOK ==
    /\ running \in [Threads -> Nat] /\ starts \in [Threads -> Nat]
    /\ active \in [Procs -> [Threads -> Info]]
    /\ warm \in [Procs -> [Threads -> Info]]
    /\ stale \in [Procs -> [Threads -> BOOLEAN]]
    /\ doomed \in [Procs -> SUBSET (Threads \X Info)]
    /\ scanned \in [Procs -> SUBSET Threads] /\ verified \in [Procs -> SUBSET Threads]
    /\ shut \in [Procs -> BOOLEAN]
    /\ threadLock \in [Procs -> [Threads -> Runs \cup {Free}]]
    /\ fileLock \in [Threads -> Runs \cup {Free}]
    /\ pc \in [Runs -> Places] /\ known \in [Runs -> BOOLEAN]
    /\ info \in [Runs -> Threads \X Info]
    /\ crashes \in Nat /\ placement \in Placements
    /\ unstopped \subseteq Threads
    /\ later \in [Procs -> SUBSET Threads] /\ cut \in [Runs -> BOOLEAN]

Init ==
    /\ placement \in Placements
    /\ running = [th \in Threads |-> 0] /\ starts = [th \in Threads |-> 0]
    /\ active = [p \in Procs |-> [th \in Threads |-> None]]
    /\ warm = [p \in Procs |-> [th \in Threads |-> None]]
    /\ stale = [p \in Procs |-> [th \in Threads |-> FALSE]]
    /\ doomed = [p \in Procs |-> {}]
    /\ scanned = [p \in Procs |-> {}] /\ verified = [p \in Procs |-> {}]
    /\ shut = [p \in Procs |-> FALSE]
    /\ threadLock = [p \in Procs |-> [th \in Threads |-> Free]]
    /\ fileLock = [th \in Threads |-> Free]
    /\ pc = [r \in Runs |-> "idle"] /\ known = [r \in Runs |-> FALSE]
    /\ info = [r \in Runs |-> <<ThreadOf[r], None>>]
    /\ crashes = 0 /\ unstopped = {}
    /\ later = [p \in Procs |-> {}] /\ cut = [r \in Runs |-> FALSE]

Active(p) == {th \in Threads : active[p][th] # None}
Warm(p) == {th \in Threads : warm[p][th] # None}

Goto(r, place) == pc' = [pc EXCEPT ![r] = place]
Hold(r, th, i) == info' = [info EXCEPT ![r] = <<th, i>>]
SetActive(p, th, i) ==
    /\ active' = [active EXCEPT ![p][th] = i]
    /\ stale' = [stale EXCEPT ![p][th] = FALSE]

\* LocalContainerBackend.destroy: the container is stopped by its id, or Docker
\* fails and nobody is told; a discovered one, whose info has no id, runs on.
BackendDestroy(th, i) ==
    LET mine == i.owned /\ running[th] = i.inc IN
    \/ mine /\ running' = [running EXCEPT ![th] = 0] /\ unstopped' = unstopped \ {th}
    \/ mine /\ Refuses /\ UNCHANGED running /\ unstopped' = unstopped \cup {th}
    \/ ~mine /\ UNCHANGED <<running, unstopped>>

Unlock(r) ==
    /\ threadLock' = [threadLock EXCEPT ![ProcOf[r]][ThreadOf[r]] = Free]
    /\ fileLock' = IF fileLock[ThreadOf[r]] = r
                   THEN [fileLock EXCEPT ![ThreadOf[r]] = Free] ELSE fileLock

(***************************************************************************)
(* A tool call: ensure_sandbox_initialized and acquire.                     *)
(***************************************************************************)

\* The in-process lookup, before and again under the file lock: the thread's
\* entry, or the warm container moved back into use.
Lookup(p, th) ==
    \/ th \in Active(p) /\ SetActive(p, th, active[p][th]) /\ UNCHANGED warm
    \/ /\ th \notin Active(p) /\ th \in Warm(p)
       /\ SetActive(p, th, warm[p][th])
       /\ warm' = [warm EXCEPT ![p][th] = None]

Miss(p, th) == th \notin Active(p) /\ th \notin Warm(p) /\ UNCHANGED provider

\* The sandbox named in the run's state is still there.
UseKnown(r) ==
    LET p == ProcOf[r]  th == ThreadOf[r] IN
    /\ pc[r] = "idle" /\ known[r] /\ th \in Active(p)
    /\ SetActive(p, th, active[p][th])
    /\ Hold(r, th, active[p][th]) /\ Goto(r, "using")
    /\ UNCHANGED <<running, unstopped, starts, warm, checker, locks, known, crashes>>

\* Otherwise acquire: the thread's lock, then the caches.
Acquire(r) ==
    LET p == ProcOf[r]  th == ThreadOf[r] IN
    /\ pc[r] = "idle" /\ ~(known[r] /\ th \in Active(p))
    /\ threadLock[p][th] = Free
    /\ \/ Lookup(p, th) /\ Goto(r, "have") /\ UNCHANGED threadLock
       \/ /\ Miss(p, th) /\ Goto(r, "filelock")
          /\ threadLock' = [threadLock EXCEPT ![p][th] = r]
    /\ UNCHANGED <<running, unstopped, starts, checker, fileLock, known, info, crashes>>

\* The cross-process lock, and the caches again.
TakeFileLock(r) ==
    LET p == ProcOf[r]  th == ThreadOf[r] IN
    /\ pc[r] = "filelock" /\ fileLock[th] = Free
    /\ \/ Lookup(p, th) /\ Goto(r, "have") /\ Unlock(r)
       \/ /\ Miss(p, th) /\ Goto(r, "discover")
          /\ fileLock' = [fileLock EXCEPT ![th] = r] /\ UNCHANGED threadLock
    /\ UNCHANGED <<running, unstopped, starts, checker, known, info, crashes>>

\* backend.discover: a running, healthy container under the deterministic name.
Discover(r) ==
    LET th == ThreadOf[r] IN
    /\ pc[r] = "discover"
    /\ \/ /\ running[th] # 0
          /\ Hold(r, th, [inc |-> running[th], owned |-> FALSE])
          /\ Goto(r, "adopt")
       \/ /\ running[th] = 0 \/ Flaky
          /\ Goto(r, "count") /\ UNCHANGED info
    /\ UNCHANGED <<running, unstopped, starts, provider, checker, locks, known, crashes>>

\* The discovered container becomes the thread's sandbox.
Adopt(r) ==
    /\ pc[r] = "adopt"
    /\ SetActive(ProcOf[r], ThreadOf[r], info[r][2])
    /\ Unlock(r) /\ Goto(r, "have")
    /\ UNCHANGED <<running, unstopped, starts, warm, checker, known, info, crashes>>

(***************************************************************************)
(* _create_sandbox.                                                         *)
(***************************************************************************)

CountReplicas(r) ==
    LET p == ProcOf[r] IN
    /\ pc[r] = "count"
    /\ Goto(r, IF Cardinality(Active(p)) + Cardinality(Warm(p)) >= Replicas
               THEN "evict" ELSE "start")
    /\ UNCHANGED <<running, unstopped, starts, provider, checker, locks, known, info, crashes>>

\* _evict_oldest_warm under the lock; which one is oldest is left open.
EvictWarm(r) ==
    LET p == ProcOf[r] IN
    /\ pc[r] = "evict"
    /\ \/ \E v \in Warm(p) :
             /\ Hold(r, v, warm[p][v])
             /\ warm' = [warm EXCEPT ![p][v] = None]
             /\ Goto(r, "stop")
       \/ Warm(p) = {} /\ Goto(r, "start") /\ UNCHANGED <<warm, info>>
    /\ UNCHANGED <<running, unstopped, starts, active, stale, checker, locks, known, crashes>>

\* Its container is stopped after the lock is released.
StopEvicted(r) ==
    /\ pc[r] = "stop"
    /\ BackendDestroy(info[r][1], info[r][2])
    /\ Hold(r, ThreadOf[r], None) /\ Goto(r, "start")
    /\ UNCHANGED <<starts, provider, checker, locks, known, crashes>>

\* backend.create: a new container, or the one that has the name already, or
\* Docker fails and acquire raises.
StartContainer(r) ==
    LET th == ThreadOf[r] IN
    /\ pc[r] = "start"
    /\ \/ /\ running[th] = 0 /\ starts[th] < MaxStarts
          /\ starts' = [starts EXCEPT ![th] = @ + 1]
          /\ running' = [running EXCEPT ![th] = starts[th] + 1]
          /\ Hold(r, th, [inc |-> starts[th] + 1, owned |-> TRUE])
          /\ Goto(r, "ready") /\ UNCHANGED <<unstopped, locks>>
       \/ /\ running[th] # 0
          /\ Hold(r, th, [inc |-> running[th], owned |-> FALSE])
          /\ Goto(r, "ready") /\ UNCHANGED <<running, unstopped, starts, locks>>
       \/ Goto(r, "idle") /\ Unlock(r) /\ UNCHANGED <<running, unstopped, starts, info>>
    /\ UNCHANGED <<provider, checker, known, crashes>>

\* The container answers and is registered, or it is destroyed and acquire raises.
RegisterCreated(r) ==
    /\ pc[r] = "ready"
    /\ \/ /\ SetActive(ProcOf[r], ThreadOf[r], info[r][2])
          /\ Goto(r, "have") /\ UNCHANGED <<running, unstopped>>
       \/ /\ Flaky
          /\ BackendDestroy(ThreadOf[r], info[r][2])
          /\ Goto(r, "idle") /\ UNCHANGED <<active, stale>>
    /\ Unlock(r)
    /\ UNCHANGED <<starts, warm, checker, known, info, crashes>>

\* ensure_sandbox_initialized stores the id and looks the sandbox up again.
GetAcquired(r) ==
    LET p == ProcOf[r]  th == ThreadOf[r] IN
    /\ pc[r] = "have"
    /\ known' = [known EXCEPT ![r] = TRUE]
    /\ \/ /\ th \in Active(p)
          /\ SetActive(p, th, active[p][th])
          /\ Hold(r, th, active[p][th]) /\ Goto(r, "using")
       \/ /\ th \notin Active(p)
          /\ Goto(r, "idle") /\ UNCHANGED <<active, stale, info>>
    /\ UNCHANGED <<running, unstopped, starts, warm, checker, locks, crashes>>

\* The tool returns; the sandbox stays with the run.
ToolDone(r) ==
    /\ pc[r] = "using" /\ Goto(r, "idle")
    /\ UNCHANGED <<running, unstopped, starts, provider, checker, locks, known, info, crashes>>

(***************************************************************************)
(* release, destroy, the idle checker, shutdown.                            *)
(***************************************************************************)

\* after_agent of a run that owns its sandbox: the entry is parked.
Release(r) ==
    LET p == ProcOf[r]  th == ThreadOf[r] IN
    /\ pc[r] = "idle" /\ known[r] /\ r \notin Borrowers
    /\ th \in Active(p)
    /\ active' = [active EXCEPT ![p][th] = None]
    /\ warm' = [warm EXCEPT ![p][th] = IF th \in Warm(p) THEN @ ELSE active[p][th]]
    /\ stale' = [stale EXCEPT ![p][th] = FALSE]
    /\ UNCHANGED <<running, unstopped, starts, checker, locks, runs, crashes>>

\* destroy() under the lock: the entry goes, its container is to be stopped.
PopForDestroy(p, th) ==
    LET i == IF th \in Active(p) THEN active[p][th] ELSE warm[p][th] IN
    /\ active' = [active EXCEPT ![p][th] = None]
    /\ warm' = [warm EXCEPT ![p][th] = None]
    /\ doomed' = IF i = None THEN doomed ELSE [doomed EXCEPT ![p] = @ \cup {<<th, i>>}]

\* Time passes for an entry that nobody touches.
Age(p, th) ==
    /\ th \in Active(p) \cup Warm(p) /\ ~stale[p][th]
    /\ stale' = [stale EXCEPT ![p][th] = TRUE]
    /\ UNCHANGED <<running, unstopped, starts, active, warm, checker, locks, runs, crashes>>

\* The idle checker notes stale entries in use and pops stale parked ones.
IdleScan(p) ==
    LET old == {th \in Warm(p) : stale[p][th]} IN
    /\ ~shut[p] /\ doomed[p] = {} /\ scanned[p] = {} /\ verified[p] = {}
    /\ \E th \in Active(p) \cup Warm(p) : stale[p][th]
    /\ scanned' = [scanned EXCEPT ![p] = {th \in Active(p) : stale[p][th]}]
    /\ doomed' = [doomed EXCEPT ![p] = {<<th, warm[p][th]>> : th \in old}]
    /\ warm' = [warm EXCEPT ![p] = [th \in Threads |-> IF th \in old THEN None ELSE @[th]]]
    /\ UNCHANGED <<running, unstopped, starts, active, stale, verified, shut, locks, runs, crashes>>

\* Mutant: only whether the entry is still there is looked at again.
VerifyPresence(p, th) ==
    /\ th \in scanned[p] /\ verified[p] = {}
    /\ scanned' = [scanned EXCEPT ![p] = @ \ {th}]
    /\ verified' = IF th \in Active(p) THEN [verified EXCEPT ![p] = {th}] ELSE verified
    /\ UNCHANGED <<running, unstopped, starts, provider, doomed, shut, locks, runs, crashes>>

\* It looks again before it destroys, and lets the lock go in between.
IdleVerify(p, th) ==
    /\ th \in scanned[p] /\ verified[p] = {}
    /\ scanned' = [scanned EXCEPT ![p] = @ \ {th}]
    /\ verified' = IF th \in Active(p) /\ stale[p][th]
                   THEN [verified EXCEPT ![p] = {th}] ELSE verified
    /\ UNCHANGED <<running, unstopped, starts, provider, doomed, shut, locks, runs, crashes>>

IdleDestroy(p, th) ==
    /\ th \in verified[p] /\ ~shut[p]
    /\ PopForDestroy(p, th)
    /\ verified' = [verified EXCEPT ![p] = {}]
    /\ UNCHANGED <<running, unstopped, starts, stale, scanned, shut, locks, runs, crashes>>

\* shutdown(): the parked containers are doomed, the ones in use listed.
Shutdown(p) ==
    /\ ~shut[p]
    /\ shut' = [shut EXCEPT ![p] = TRUE]
    /\ doomed' = [doomed EXCEPT ![p] = @ \cup {<<th, warm[p][th]>> : th \in Warm(p)}]
    /\ warm' = [warm EXCEPT ![p] = [th \in Threads |-> None]]
    /\ verified' = [verified EXCEPT ![p] = Active(p)]
    /\ scanned' = [scanned EXCEPT ![p] = {}]
    /\ UNCHANGED <<running, unstopped, starts, active, stale, locks, runs, crashes>>

ShutdownDestroy(p, th) ==
    /\ th \in verified[p] /\ shut[p]
    /\ PopForDestroy(p, th)
    /\ verified' = [verified EXCEPT ![p] = @ \ {th}]
    /\ UNCHANGED <<running, unstopped, starts, stale, scanned, shut, locks, runs, crashes>>

\* backend.destroy of a popped entry, after the lock is released.
StopDoomed(p) ==
    \E d \in doomed[p] :
        /\ BackendDestroy(d[1], d[2])
        /\ doomed' = [doomed EXCEPT ![p] = @ \ {d}]
        /\ UNCHANGED <<starts, provider, scanned, verified, shut, locks, runs, crashes>>

\* A process dies and starts again; containers outlive it, its runs begin anew.
Crash(p) ==
    LET mine == {r \in Runs : ProcOf[r] = p} IN
    /\ crashes < placement.maxCrashes /\ crashes' = crashes + 1
    /\ active' = [active EXCEPT ![p] = [th \in Threads |-> None]]
    /\ warm' = [warm EXCEPT ![p] = [th \in Threads |-> None]]
    /\ stale' = [stale EXCEPT ![p] = [th \in Threads |-> FALSE]]
    /\ doomed' = [doomed EXCEPT ![p] = {}]
    /\ scanned' = [scanned EXCEPT ![p] = {}] /\ verified' = [verified EXCEPT ![p] = {}]
    /\ shut' = [shut EXCEPT ![p] = FALSE]
    /\ threadLock' = [threadLock EXCEPT ![p] = [th \in Threads |-> Free]]
    /\ fileLock' = [th \in Threads |-> IF fileLock[th] \in mine THEN Free ELSE fileLock[th]]
    /\ pc' = [r \in Runs |-> IF r \in mine THEN "idle" ELSE pc[r]]
    /\ info' = [r \in Runs |-> IF r \in mine THEN <<ThreadOf[r], None>> ELSE info[r]]
    /\ UNCHANGED <<running, unstopped, starts, known>>

----------------------------------------------------------------------------
RunStep(r) ==
    \/ UseKnown(r) \/ Acquire(r) \/ TakeFileLock(r) \/ Discover(r) \/ Adopt(r)
    \/ CountReplicas(r) \/ EvictWarm(r) \/ StopEvicted(r) \/ StartContainer(r)
    \/ RegisterCreated(r) \/ GetAcquired(r) \/ ToolDone(r) \/ Release(r)

ProcStep(p) ==
    \/ \E th \in Threads : \/ Age(p, th) \/ IdleVerify(p, th)
                           \/ IdleDestroy(p, th) \/ ShutdownDestroy(p, th)
    \/ IdleScan(p) \/ Shutdown(p) \/ StopDoomed(p) \/ Crash(p)

\* The processes that run something.
Up == {ProcOf[r] : r \in Runs}

Steps == (\E r \in Runs : RunStep(r)) \/ (\E p \in Up : ProcStep(p))

\* A step takes the entry of run r's thread away: by the end of another run of the
\* thread, by shutdown, or by the idle checker, which found it stale when it looked
\* again, be it that the tool call outlasts the timeout or that it began after that.
TakesAway(r) ==
    LET p == ProcOf[r]  th == ThreadOf[r] IN
    /\ th \in Active(p) /\ th \notin Active(p)'
    /\ th \in Warm(p)' \/ shut[p] \/ stale[p][th] \/ th \in later[p]

\* The history of the tool calls and of the idle checker.
Witness ==
    /\ cut' = [r \in Runs |-> pc'[r] = "using" /\ (cut[r] \/ TakesAway(r))]
    /\ later' = [p \in Procs |->
                   {th \in verified[p] \cap verified'[p] :
                      th \in later[p] \/ (stale[p][th] /\ ~stale'[p][th])}]

Next == Steps /\ UNCHANGED placement /\ Witness

Spec == Init /\ [][Next]_vars

----------------------------------------------------------------------------
(* Properties.                                                              *)

\* An entry that carries its container's id is alive: whoever pops an entry to
\* destroy it takes it out of use first, a reacquired container comes back
\* without its id, and a late destroy cannot hit a newer container
\* (aio_sandbox_provider.py:245-293, 443-461, 526-579; local_backend.py:153-156).
OwnedIsAlive ==
    \A p \in Procs, th \in Threads :
        /\ active[p][th].owned => running[th] = active[p][th].inc
        /\ warm[p][th].owned => running[th] = warm[p][th].inc

\* A sandbox is in use or parked, never both: else eviction could stop a
\* container from the warm pool that the cache still hands out.
ActiveXorWarm == \A p \in Procs : Active(p) \cap Warm(p) = {}

\* As long as health checks succeed, no two processes start the same thread's
\* container: the file lock spans discovery and creation
\* (aio_sandbox_provider.py:386-389).
NoNameConflict == \A r \in Runs : pc[r] = "start" /\ ~Flaky => running[ThreadOf[r]] = 0

\* Without a crash, and as long as Docker stops what it is asked to stop, no
\* container is forgotten: some provider can stop it, or is about to.  The warning
\* of local_backend.py:286 is all that is left of one Docker did not stop.
NoForgottenContainer ==
    crashes = 0 =>
    \A th \in Threads \ unstopped : running[th] # 0 =>
        LET it == [inc |-> running[th], owned |-> TRUE] IN
        \/ \E p \in Procs : it \in {active[p][th], warm[p][th]} \/ <<th, it>> \in doomed[p]
        \/ \E r \in Runs : pc[r] \in {"stop", "ready"} /\ info[r] = <<th, it>>

\* A container that a provider started runs as long as a tool works in it, through
\* evictions, starts and the idle checker of every process, unless the entry was
\* taken away meanwhile (TakesAway); what only discovered its container has no such
\* promise ("we never forcibly stop a container that is actively serving a thread",
\* aio_sandbox_provider.py:490-491; re-verified at 268-281).
ServesWhileUsed ==
    \A r \in Runs : pc[r] = "using" /\ info[r][2].owned /\ ~cut[r] =>
                      running[ThreadOf[r]] = info[r][2].inc

\* A container has one holder, a name and a place in one of the pools; it is not
\* forgotten, and not stopped under a tool but in the ways named above.
ContainersAreSound ==
    TypeOK /\ OwnedIsAlive /\ ActiveXorWarm /\ NoForgottenContainer /\ NoNameConflict
    /\ ServesWhileUsed

\* What the docstrings of destroy say: the container is stopped
\* (aio_sandbox_provider.py:553-556, local_backend.py:154).
DestroyStops ==
    [][\A p \in Procs : \A d \in doomed[p] :
          d \notin doomed'[p] /\ crashes' = crashes => running'[d[1]] # d[2].inc]_vars
=============================================================================
