---------------------------- MODULE VaultIngest ----------------------------
(* The knowledge-vault ingest job of the gateway: one call of                *)
(* start_vault_ingest_job spawns worker threads that share one job record,   *)
(* one queue file and one manifest (control_plane/service.py and             *)
(* control_plane/vault_learning).  A worker rescues claims left behind,      *)
(* claims chunks of the queue, does the slow work outside the locks, commits *)
(* under the manifest lock and marks the queue under the queue lock; worker  *)
(* 0 waits for all of them and reprocesses the old sources.  The event loop  *)
(* starts and cancels jobs, takes clips, rejects the queued items and wipes  *)
(* the vault.  The process may die: the queue and the manifest are files.    *)
EXTENDS Integers, FiniteSets

CONSTANTS NItems,       \* queue entries that may ever be clipped
          NWorkers,     \* runner threads that may be alive together
          MaxSize,      \* the largest number of workers asked for
          Chunk,        \* QUEUE_CLAIM_CHUNK
          MaxAttempts,  \* max_ingest_attempts
          MaxStarts,    \* bound: jobs started in one life of the process
          MaxFaults     \* bound: deaths of the process and wipes of the vault

ASSUME BoundsAssumption ==
  /\ {NItems, NWorkers, MaxSize, Chunk, MaxAttempts, MaxStarts} \subseteq Nat \ {0}
  /\ MaxFaults \in Nat

Items == 1..NItems
Workers == 1..NWorkers
Jobs == 0..MaxStarts
Loop == NWorkers + 1    \* the event-loop thread, as a holder of locks
NoOne == 0

VARIABLES queue,      \* the queue file: per item its status, lease and attempts
          recorded,   \* items whose source the manifest on disk records
          mem,        \* per job, the manifest its manager holds in memory
          job,        \* _vault_ingest_job: id, status, cancel_requested
          size,       \* worker_count of each job of this process
          remaining,  \* queue_workers_remaining of each job
          runners,    \* _VaultCoordination.active_runners
          w,          \* the runner threads
          queueLock, manifestLock,
          loop,       \* what the event loop is in the middle of
          faults,     \* how often each fault has happened
          unseen,     \* history: per job, what the others recorded since it last
                      \* read or saved the manifest
          dropped     \* history: sources lost to the save of a job that had not
                      \* seen them

history == <<unseen, dropped>>
vars == <<queue, recorded, mem, job, size, remaining, runners, w, queueLock,
          manifestLock, loop, faults, history>>

\* One more fault of kind f, within the bound on all of them together.
Fault(f) == /\ faults["crash"] + faults["wipe"] + faults["lease"] < MaxFaults
            /\ faults' = [faults EXCEPT ![f] = @ + 1]

Statuses == {"absent", "queued", "claimed", "ingested", "rejected", "gone"}
Outcomes == {"ingested", "rejected", "retry"}
Pcs == {"off", "boot", "rescue", "drain", "prefetch", "commit",
        "compileFailed", "undo", "drained", "wait", "tail", "raise", "exit"}

Idle == [pc |-> "off", job |-> 0, idx |-> 0, first |-> FALSE, held |-> {},
         out |-> [i \in {} |-> "retry"], exn |-> "none"]
Faults == {"crash", "wipe", "lease"}
NewJob(id) == [id |-> id, status |-> IF id = 0 THEN "idle" ELSE "running",
               cancel |-> FALSE]

Init ==
  /\ queue = [i \in Items |-> [status |-> "absent", live |-> FALSE, tries |-> 0]]
  /\ recorded = {}
  /\ mem = [j \in Jobs |-> {}]
  /\ job = NewJob(0)
  /\ size = [j \in Jobs |-> 0]
  /\ remaining = [j \in Jobs |-> 0]
  /\ runners = 0
  /\ w = [k \in Workers |-> Idle]
  /\ queueLock = NoOne
  /\ manifestLock = NoOne
  /\ loop = "idle"
  /\ faults = [f \in Faults |-> 0]
  /\ unseen = [j \in Jobs |-> {}] /\ dropped = {}

----------------------------------------------------------------------------
(* The queue file.  Every operation is one _queue_txn.                       *)

\* An entry goes back to the queue, its claim and lease dropped.
Requeued(e) == [e EXCEPT !.status = "queued", !.live = FALSE]

\* Mutant of GivenBack: the attempts are not looked at.
GivenBackForEver(q, held) ==
  [i \in Items |-> IF i \in held /\ q[i].status = "claimed" THEN Requeued(q[i])
                   ELSE q[i]]

\* requeue_claimed_items: only what is still claimed, and not for ever.
GivenBack(q, held) ==
  [i \in Items |->
     IF i \notin held \/ q[i].status # "claimed" THEN q[i]
     ELSE IF q[i].tries >= MaxAttempts
          THEN [q[i] EXCEPT !.status = "rejected", !.live = FALSE]
          ELSE Requeued(q[i])]

\* requeue_all_claimed_items: the claims whose lease ran out, or all of them.
Rescued(q, force) ==
  [i \in Items |-> IF q[i].status = "claimed" /\ (force \/ ~q[i].live)
                   THEN Requeued(q[i]) ELSE q[i]]

Claimable(q) == {i \in Items : \/ q[i].status = "queued"
                               \/ q[i].status = "claimed" /\ ~q[i].live}

\* The first Chunk claimable entries of the file.
NextChunk(q) ==
  {i \in Claimable(q) : Cardinality({k \in Claimable(q) : k <= i}) <= Chunk}

Claimed(q, is) ==
  [i \in Items |->
     IF i \in is THEN [status |-> "claimed", live |-> TRUE,
                       tries |-> IF q[i].tries < MaxAttempts
                                 THEN q[i].tries + 1 ELSE MaxAttempts]
     ELSE q[i]]

\* Mutant of Marked: what is to be retried is not given back.
MarkedOnly(q, out) ==
  [i \in Items |-> IF i \in DOMAIN out /\ out[i] # "retry" /\ q[i].status # "gone"
                   THEN [q[i] EXCEPT !.status = out[i], !.live = FALSE] ELSE q[i]]

\* _mark_queue_items, then requeue_claimed_items for what is to be retried.
\* A mark does not look at the entry's status.
Marked(q, out) ==
  LET done == {i \in DOMAIN out : out[i] # "retry" /\ q[i].status # "gone"}
      q1 == [i \in Items |-> IF i \in done
                             THEN [q[i] EXCEPT !.status = out[i], !.live = FALSE]
                             ELSE q[i]]
  IN GivenBack(q1, {i \in DOMAIN out : out[i] = "retry"})

----------------------------------------------------------------------------
(* The manifest: one file, and a copy of it in memory for each job.          *)

\* Job j takes the manifest from the disk.
Reads(j) == unseen' = [unseen EXCEPT ![j] = {}] /\ UNCHANGED dropped

\* Job j saves the manifest it holds over whatever the file says.
Saves(j, new) ==
  /\ recorded' = new
  /\ unseen' = [x \in Jobs |-> IF x = j THEN {}
                               ELSE unseen[x] \union (new \ recorded)]
  /\ dropped' = (dropped \ new) \union (unseen[j] \intersect (recorded \ new))

----------------------------------------------------------------------------
(* The event loop: a route runs to its end before the next one starts.       *)

\* clip_to_vault: enqueue_search_results appends an entry.
Clip(i) ==
  /\ loop = "idle" /\ queueLock = NoOne
  /\ queue[i].status = "absent"
  /\ queue' = [queue EXCEPT ![i].status = "queued"]
  /\ UNCHANGED <<recorded, mem, job, size, remaining, runners, w, queueLock,
                 manifestLock, loop, faults>>

\* The user rejects the queue approval: clear_queued_search_results.
ClearQueued ==
  /\ loop = "idle" /\ queueLock = NoOne
  /\ \E i \in Items : queue[i].status = "queued"
  /\ queue' = [i \in Items |-> IF queue[i].status = "queued"
                               THEN [queue[i] EXCEPT !.status = "rejected"]
                               ELSE queue[i]]
  /\ UNCHANGED <<recorded, mem, job, size, remaining, runners, w, queueLock,
                 manifestLock, loop, faults>>

Free == {k \in Workers : w[k].pc = "off"}
\* Position of thread k among the threads a new job takes.
Rank(k) == Cardinality({v \in Free : v < k})

\* start_vault_ingest_job: the job record is replaced whatever it says.
StartJob(n) ==
  \E id \in Jobs \ {0} :
     /\ loop = "idle"
     /\ size[id] = 0 /\ \A j \in Jobs \ {0} : size[j] = 0 => id <= j
     /\ n <= Cardinality(Free)
     /\ job' = NewJob(id)
     /\ size' = [size EXCEPT ![id] = n]
     /\ remaining' = [remaining EXCEPT ![id] = n]
     /\ mem' = [mem EXCEPT ![id] = recorded] /\ Reads(id)
     /\ w' = [k \in Workers |->
                IF k \in Free /\ Rank(k) < n
                THEN [Idle EXCEPT !.pc = "boot", !.job = id, !.idx = Rank(k)]
                ELSE w[k]]
     /\ UNCHANGED <<queue, recorded, runners, queueLock, manifestLock, loop,
                    faults>>

CancelJob ==
  /\ loop = "idle"
  /\ job.status = "running" /\ ~job.cancel
  /\ job' = [job EXCEPT !.cancel = TRUE]
  /\ UNCHANGED <<queue, recorded, mem, size, remaining, runners, w, queueLock,
                 manifestLock, loop, faults>>

\* delete_vault_knowledge_graph: the counter is looked at, its lock released,
\* and only then reset_knowledge_graph takes the queue lock and the manifest
\* lock, in that order.
ResetCheck ==
  /\ loop = "idle"
  /\ runners = 0
  /\ Fault("wipe")
  /\ loop' = "resetting"
  /\ UNCHANGED <<queue, recorded, mem, job, size, remaining, runners, w,
                 queueLock, manifestLock>>

ResetLock ==
  /\ loop = "resetting" /\ queueLock = NoOne
  /\ queueLock' = Loop
  /\ loop' = "locked"
  /\ UNCHANGED <<queue, recorded, mem, job, size, remaining, runners, w,
                 manifestLock, faults, history>>

ResetWipe ==
  /\ loop = "locked" /\ manifestLock = NoOne
  /\ queue' = [i \in Items |-> IF queue[i].status = "absent" THEN queue[i]
                               ELSE [queue[i] EXCEPT !.status = "gone",
                                                     !.live = FALSE]]
  /\ recorded' = {} /\ dropped' = {} /\ UNCHANGED unseen
  /\ job' = NewJob(0)
  /\ queueLock' = NoOne
  /\ loop' = "idle"
  /\ UNCHANGED <<mem, size, remaining, runners, w, manifestLock, faults>>

----------------------------------------------------------------------------
(* The runner threads (_runner).                                             *)

GoTo(k, pc) == w' = [w EXCEPT ![k].pc = pc]

\* The thread counts itself and notes whether it is alone.
Boot(k) ==
  /\ w[k].pc = "boot"
  /\ runners' = runners + 1
  /\ w' = [w EXCEPT ![k].pc = "rescue", ![k].first = (runners = 0)]
  /\ UNCHANGED <<queue, recorded, mem, job, size, remaining, queueLock,
                 manifestLock, loop, faults>>

\* Phase 0: the claims of dead workers go back; a runner that was the first
\* takes all claims for dead.  An error is logged and the runner goes on.
Rescue(k) ==
  /\ w[k].pc = "rescue" /\ queueLock = NoOne
  /\ queue' \in {queue, Rescued(queue, w[k].first)}
  /\ GoTo(k, "drain")
  /\ UNCHANGED <<recorded, mem, job, size, remaining, runners, queueLock,
                 manifestLock, loop, faults>>

\* Phase 1: the drain loop stops when the job is cancelled, when nothing can
\* be claimed, and when the claim fails.
StopDraining(k) ==
  /\ w[k].pc = "drain"
  /\ GoTo(k, "drained")
  /\ UNCHANGED <<queue, recorded, mem, job, size, remaining, runners,
                 queueLock, manifestLock, loop, faults>>

ClaimChunk(k) ==
  /\ w[k].pc = "drain" /\ queueLock = NoOne
  /\ ~job.cancel
  /\ Claimable(queue) # {}
  /\ queue' = Claimed(queue, NextChunk(queue))
  /\ w' = [w EXCEPT ![k].pc = "prefetch", ![k].held = NextChunk(queue)]
  /\ UNCHANGED <<recorded, mem, job, size, remaining, runners, queueLock,
                 manifestLock, loop, faults>>

\* ensure_vector_ready fails: the chunk is given back, the manifest in memory
\* is saved without its lock, and the loop goes on.
Defer(k) ==
  /\ w[k].pc = "prefetch" /\ queueLock = NoOne
  /\ queue' = GivenBack(queue, w[k].held)
  /\ Saves(w[k].job, mem[w[k].job])
  /\ w' = [w EXCEPT ![k].pc = "drain", ![k].held = {}]
  /\ UNCHANGED <<mem, job, size, remaining, runners, queueLock,
                 manifestLock, loop, faults>>

\* The commit of a batch: the manifest is read again under its lock, each
\* fetched item is written, compile_incremental saves the manifest.
Commit(k, out) ==
  LET m == recorded \union {i \in w[k].held : out[i] = "ingested"}
  IN /\ w[k].pc = "prefetch" /\ manifestLock = NoOne
     /\ ~job.cancel
     /\ manifestLock' = k
     /\ Saves(w[k].job, m)
     /\ mem' = [mem EXCEPT ![w[k].job] = m]
     /\ w' = [w EXCEPT ![k].pc = "commit", ![k].out = out]
     /\ UNCHANGED <<queue, job, size, remaining, runners, queueLock, loop,
                    faults>>

\* Still under the manifest lock, the items are marked in the queue file.
MarkItems(k) ==
  /\ w[k].pc = "commit" /\ queueLock = NoOne
  /\ queue' = Marked(queue, w[k].out)
  /\ manifestLock' = NoOne
  /\ w' = [w EXCEPT ![k].pc = "drain", ![k].held = {}, ![k].out = Idle.out]
  /\ UNCHANGED <<recorded, mem, job, size, remaining, runners, queueLock, loop,
                 faults>>

\* A transaction that is left by an exception is not saved, but the manifest in
\* memory keeps what it has written so far.
Abandoned(k, written) == [mem EXCEPT ![w[k].job] = recorded \union written]

\* The progress callback sees the cancel flag and raises.
CommitCancelled(k) ==
  /\ w[k].pc = "prefetch" /\ manifestLock = NoOne
  /\ job.cancel
  /\ \E written \in SUBSET w[k].held : mem' = Abandoned(k, written)
  /\ Reads(w[k].job)
  /\ w' = [w EXCEPT ![k].pc = "undo", ![k].exn = "cancel"]
  /\ UNCHANGED <<queue, recorded, job, size, remaining, runners, queueLock,
                 manifestLock, loop, faults>>

\* compile_incremental raises: the batch is given back under the manifest
\* lock, and again by the drain loop's handler.
CompileFails(k) ==
  /\ w[k].pc = "prefetch" /\ manifestLock = NoOne
  /\ ~job.cancel
  /\ manifestLock' = k
  /\ \E written \in SUBSET w[k].held : mem' = Abandoned(k, written)
  /\ Reads(w[k].job)
  /\ w' = [w EXCEPT ![k].pc = "compileFailed", ![k].exn = "error"]
  /\ UNCHANGED <<queue, recorded, job, size, remaining, runners, queueLock,
                 loop, faults>>

GiveBackBatch(k) ==
  /\ w[k].pc = "compileFailed" /\ queueLock = NoOne
  /\ queue' = GivenBack(queue, w[k].held)
  /\ manifestLock' = NoOne
  /\ GoTo(k, "undo")
  /\ UNCHANGED <<recorded, mem, job, size, remaining, runners, queueLock, loop,
                 faults>>

GiveBackChunk(k) ==
  /\ w[k].pc = "undo" /\ queueLock = NoOne
  /\ queue' = GivenBack(queue, w[k].held)
  /\ w' = [w EXCEPT ![k].pc = "drained", ![k].held = {}]
  /\ UNCHANGED <<recorded, mem, job, size, remaining, runners, queueLock,
                 manifestLock, loop, faults>>

\* _mark_drain_done, which counts a worker once.
MarkDrainDone(k) ==
  /\ w[k].pc = "drained"
  /\ remaining' = [remaining EXCEPT ![w[k].job] = @ - 1]
  /\ GoTo(k, IF w[k].exn # "none" THEN "raise"
             ELSE IF w[k].idx # 0 THEN "exit" ELSE "wait")
  /\ UNCHANGED <<queue, recorded, mem, job, size, runners, queueLock,
                 manifestLock, loop, faults>>

\* Worker 0 waits for queue_done_event, then looks at the shared job record.
AllDrained(k) ==
  /\ w[k].pc = "wait"
  /\ remaining[w[k].job] <= 0
  /\ w' = [w EXCEPT ![k].pc = IF job.cancel THEN "raise"
                              ELSE IF job.status # "running" THEN "exit"
                              ELSE "tail",
                    ![k].exn = IF job.cancel THEN "cancel" ELSE @]
  /\ UNCHANGED <<queue, recorded, mem, job, size, remaining, runners, queueLock,
                 manifestLock, loop, faults>>

\* reprocess_existing_sources saves the manifest its manager holds, without
\* the manifest lock.
Reprocess(k) ==
  /\ w[k].pc = "tail"
  /\ Saves(w[k].job, mem[w[k].job])
  /\ job' = IF job.status = "running" THEN [job EXCEPT !.status = "success"]
            ELSE job
  /\ GoTo(k, "exit")
  /\ UNCHANGED <<queue, mem, size, remaining, runners, queueLock, manifestLock,
                 loop, faults>>

\* Its callback sees the cancel flag, or it fails.
ReprocessStops(k) ==
  /\ w[k].pc = "tail"
  /\ w' = [w EXCEPT ![k].pc = "raise",
                    ![k].exn = IF job.cancel THEN "cancel" ELSE "error"]
  /\ UNCHANGED <<queue, recorded, mem, job, size, remaining, runners, queueLock,
                 manifestLock, loop, faults>>

\* The handlers of the exceptions write the final status once.
FinalStatus(j, exn) ==
  IF j.status # "running" THEN j
  ELSE [j EXCEPT !.status = IF exn = "cancel" THEN "cancelled" ELSE "failed"]

Raise(k) ==
  /\ w[k].pc = "raise"
  /\ job' = FinalStatus(job, w[k].exn)
  /\ GoTo(k, "exit")
  /\ UNCHANGED <<queue, recorded, mem, size, remaining, runners, queueLock,
                 manifestLock, loop, faults>>

Exit(k) ==
  /\ w[k].pc = "exit"
  /\ runners' = IF runners > 0 THEN runners - 1 ELSE 0
  /\ w' = [w EXCEPT ![k] = Idle]
  /\ UNCHANGED <<queue, recorded, mem, job, size, remaining, queueLock,
                 manifestLock, loop, faults>>

----------------------------------------------------------------------------
\* A lease runs out while its holder is still at work: nothing renews it.
LeaseExpires(i) ==
  /\ queue[i].status = "claimed" /\ queue[i].live
  /\ Fault("lease")
  /\ queue' = [queue EXCEPT ![i].live = FALSE]
  /\ UNCHANGED <<recorded, mem, job, size, remaining, runners, w, queueLock,
                 manifestLock, loop>>

\* The gateway dies and is started again: only the files survive.
Crash ==
  /\ Fault("crash")
  /\ mem' = [j \in Jobs |-> {}]
  /\ job' = NewJob(0)
  /\ size' = [j \in Jobs |-> 0]
  /\ remaining' = [j \in Jobs |-> 0]
  /\ runners' = 0
  /\ w' = [k \in Workers |-> Idle]
  /\ queueLock' = NoOne
  /\ manifestLock' = NoOne
  /\ loop' = "idle"
  /\ unseen' = [j \in Jobs |-> {}]
  /\ UNCHANGED <<queue, recorded, dropped>>

\* The steps of a runner that leave the manifest alone.
Proceed(k) ==
  \/ Boot(k) \/ Rescue(k)
  \/ StopDraining(k) \/ ClaimChunk(k)
  \/ MarkItems(k) \/ GiveBackBatch(k) \/ GiveBackChunk(k)
  \/ MarkDrainDone(k) \/ AllDrained(k)
  \/ ReprocessStops(k) \/ Raise(k) \/ Exit(k)

WorkerStep(k) ==
  \/ Proceed(k) /\ UNCHANGED history
  \/ Defer(k)
  \/ \E out \in [w[k].held -> Outcomes] : Commit(k, out)
  \/ CommitCancelled(k) \/ CompileFails(k)
  \/ Reprocess(k)

LoopStep == ResetLock \/ ResetWipe

\* The steps around the runners that leave the manifest alone.
Around == \/ \E i \in Items : Clip(i) \/ LeaseExpires(i)
          \/ ClearQueued \/ CancelJob \/ ResetCheck

Next ==
  \/ Around /\ UNCHANGED history
  \/ \E n \in 1..MaxSize : StartJob(n)
  \/ LoopStep
  \/ \E k \in Workers : WorkerStep(k)
  \/ Crash

\* Threads run, and the event loop finishes the route it is in.
Spec == /\ Init /\ [][Next]_vars
        /\ \A k \in Workers : WF_vars(WorkerStep(k))
        /\ WF_vars(LoopStep)

----------------------------------------------------------------------------
(* Properties.                                                               *)

TypeOK ==
  /\ queue \in [Items -> [status : Statuses, live : BOOLEAN,
                          tries : 0..MaxAttempts]]
  /\ recorded \subseteq Items
  /\ mem \in [Jobs -> SUBSET Items]
  /\ job \in [id : Jobs, cancel : BOOLEAN,
              status : {"idle", "running", "success", "failed", "cancelled"}]
  /\ size \in [Jobs -> 0..MaxSize]
  /\ remaining \in [Jobs -> 0..MaxSize]
  /\ runners \in 0..NWorkers
  /\ \A k \in Workers :
       /\ w[k].pc \in Pcs /\ w[k].job \in Jobs /\ w[k].idx \in 0..(MaxSize - 1)
       /\ w[k].first \in BOOLEAN /\ w[k].held \subseteq Items
       /\ DOMAIN w[k].out \subseteq Items
       /\ \A i \in DOMAIN w[k].out : w[k].out[i] \in Outcomes
       /\ w[k].exn \in {"none", "cancel", "error"}
  /\ queueLock \in {NoOne, Loop}
  /\ manifestLock \in Workers \union {NoOne}
  /\ loop \in {"idle", "resetting", "locked"}
  /\ faults \in [Faults -> 0..MaxFaults]
  /\ unseen \in [Jobs -> SUBSET Items] /\ dropped \subseteq Items

\* The counter that keeps the wipe and the cleanup away from the runners
\* (active_runners) counts exactly the runners past their first step.
RunnersCounted ==
  runners = Cardinality({k \in Workers : w[k].pc \notin {"off", "boot"}})

\* A claim without a worker that holds the entry can only come from a process
\* that died: cancellation, a failed compile and an embedding outage all give
\* back what they hold, whatever other workers did to the entries since.
ClaimIsHeld ==
  faults.crash = 0 => \A i \in Items : queue[i].status = "claimed" =>
                   \E k \in Workers : i \in w[k].held

\* Worker 0 reprocesses the sources only when no worker of its job still has
\* a chunk: queue_workers_remaining counts each of them once, whichever way
\* its drain loop ends.
TailAfterDrain ==
  \A k \in Workers : w[k].pc = "tail" =>
    \A v \in Workers : v # k /\ w[v].job = w[k].job =>
      w[v].held = {} /\ w[v].pc \in {"raise", "exit"}

\* The queue's entries, claims and counts agree with the workers.
QueueIsSound == TypeOK /\ RunnersCounted /\ ClaimIsHeld /\ TailAfterDrain

\* An entry is marked ingested only when the manifest on disk has its source, also
\* after a crash between the two writes; and whatever the workers of a job do, a
\* source goes again only with a save of another job beside it that has not read
\* the manifest since (_ingest.py:607-637, _cleanup.py:398).
IngestedHasSource ==
  \A i \in Items : queue[i].status = "ingested" => i \in recorded \union dropped

\* A job that ended keeps its verdict until another is started or the vault
\* is wiped: a late worker does not turn failed into cancelled or success.
VerdictStays ==
  [][job.status \in {"success", "failed", "cancelled"} /\ job'.id = job.id
       => job'.status = job.status]_vars

\* The manifest lock and the queue lock are taken in both orders.
LockCycle == queueLock = Loop /\ manifestLock # NoOne

\* Every job comes to its end - no worker is left waiting for the others or
\* retrying an entry for ever - unless the event loop and a runner wait for
\* each other's lock.
Working == \E k \in Workers : w[k].pc # "off"
RunnersEnd == Working ~> (~Working \/ LockCycle)
=============================================================================
