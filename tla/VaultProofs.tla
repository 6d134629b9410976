----------------------------- MODULE VaultProofs -----------------------------
(***************************************************************************)
(* Proofs about VaultIngest, for any number of items, workers, jobs and      *)
(* faults.  The inductive invariant says of each worker what its place means *)
(* for what it holds and for its job (Shaped), that the workers of a job     *)
(* have places of their own in it (Apart), and that the job's counter covers  *)
(* all of them that have not drained (CountedDown).  The last part is about   *)
(* the pages and the manifest, for any sources, names and contents.           *)
(***************************************************************************)
EXTENDS VaultIngest, VaultPages, FiniteSetTheorems, TLAPS

----------------------------------------------------------------------------
(* The inductive invariant.                                                  *)

\* Where a worker has a chunk, and where it has not yet counted itself down.
Holding == {"prefetch", "commit", "compileFailed", "undo"}
Draining == {"boot", "rescue", "drain", "drained"} \cup Holding

Outs == UNION {[S -> Outcomes] : S \in SUBSET Items}
Record == [pc : Pcs, job : Jobs, idx : 0..(MaxSize - 1), first : BOOLEAN, held : SUBSET Items,
           out : Outs, exn : {"none", "cancel", "error"}]
Entry == [status : Statuses, live : BOOLEAN, tries : 0..MaxAttempts]
JobType == [id : Jobs, cancel : BOOLEAN,
            status : {"idle", "running", "success", "failed", "cancelled"}]

FilesTyped ==
  /\ queue \in [Items -> Entry] /\ recorded \subseteq Items /\ mem \in [Jobs -> SUBSET Items]
  /\ queueLock \in {NoOne, Loop} /\ manifestLock \in Workers \cup {NoOne}
  /\ loop \in {"idle", "resetting", "locked"} /\ faults \in [Faults -> 0..MaxFaults]
JobsTyped ==
  /\ w \in [Workers -> Record] /\ job \in JobType
  /\ size \in [Jobs -> 0..MaxSize] /\ remaining \in [Jobs -> 0..MaxSize]

Shaped ==
  \A k \in Workers :
    /\ w[k].pc = "off" => w[k] = Idle
    /\ w[k].pc # "off" => w[k].job # 0 /\ size[w[k].job] # 0
    /\ w[k].pc \notin Holding => w[k].held = {}
    /\ w[k].pc = "commit" => DOMAIN w[k].out = w[k].held
    /\ w[k].pc \in {"wait", "tail"} => w[k].idx = 0
    /\ w[k].pc = "tail" => remaining[w[k].job] = 0

Apart == \A k, v \in Workers :
           w[k].pc # "off" /\ w[v].pc # "off" /\ w[k].job = w[v].job /\ w[k].idx = w[v].idx => k = v

OfJob(j) == {k \in Workers : w[k].job = j /\ w[k].pc \in Draining}
CountedDown == \A j \in Jobs : Cardinality(OfJob(j)) <= remaining[j]

JobIsTheirs == /\ job.id = 0 => job.status = "idle"
               /\ job.id # 0 => size[job.id] # 0

VInv == /\ FilesTyped /\ JobsTyped /\ RunnersCounted /\ ClaimIsHeld
        /\ Shaped /\ Apart /\ CountedDown /\ JobIsTheirs

----------------------------------------------------------------------------
(* The types.                                                                *)

LEMMA Numbers ==
  /\ Workers = 1..NWorkers /\ NWorkers \in Nat /\ Loop \notin Workers /\ NoOne \notin Workers
  /\ Jobs = 0..MaxStarts /\ MaxStarts \in Nat \ {0} /\ MaxSize \in Nat \ {0}
  /\ MaxAttempts \in Nat \ {0} /\ MaxFaults \in Nat /\ 0 \in Jobs
  /\ IsFiniteSet(Workers)
  BY BoundsAssumption, FS_Interval DEF Workers, Jobs, Loop, NoOne

LEMMA OutFacts ==
  /\ \A S \in SUBSET Items : \A o \in [S -> Outcomes] : o \in Outs /\ DOMAIN o = S
  /\ \A o \in Outs : DOMAIN o \subseteq Items /\ \A i \in DOMAIN o : o[i] \in Outcomes
  /\ Idle.out \in Outs /\ Idle \in Record
<1>1. \A S \in SUBSET Items : \A o \in [S -> Outcomes] : o \in Outs /\ DOMAIN o = S
  BY DEF Outs
<1>2. \A o \in Outs : DOMAIN o \subseteq Items /\ \A i \in DOMAIN o : o[i] \in Outcomes
  BY DEF Outs
<1>3. [i \in {} |-> "retry"] \in [{} -> Outcomes] /\ {} \in SUBSET Items
  OBVIOUS
<1>4. Idle.out \in Outs
  BY <1>1, <1>3 DEF Idle
<1>5. Idle \in Record
  BY <1>4, Numbers DEF Idle, Record, Pcs
<1>6. QED
  BY <1>1, <1>2, <1>4, <1>5

\* What the operations of the queue make of it.
LEMMA QueueTypes ==
  ASSUME NEW q \in [Items -> Entry]
  PROVE  /\ \A held \in SUBSET Items : GivenBack(q, held) \in [Items -> Entry]
         /\ \A force \in BOOLEAN : Rescued(q, force) \in [Items -> Entry]
         /\ \A is \in SUBSET Items : Claimed(q, is) \in [Items -> Entry]
         /\ \A out \in Outs : Marked(q, out) \in [Items -> Entry]
<1>0. MaxAttempts \in Nat \ {0}
  BY Numbers
<1>1. ASSUME NEW p \in [Items -> Entry], NEW held \in SUBSET Items
      PROVE  GivenBack(p, held) \in [Items -> Entry]
  BY <1>1 DEF GivenBack, Requeued, Entry, Statuses
<1>2. \A force \in BOOLEAN : Rescued(q, force) \in [Items -> Entry]
  BY DEF Rescued, Requeued, Entry, Statuses
<1>3. \A is \in SUBSET Items : Claimed(q, is) \in [Items -> Entry]
  BY <1>0 DEF Claimed, Entry, Statuses
<1>4. ASSUME NEW out \in Outs PROVE Marked(q, out) \in [Items -> Entry]
  <2> DEFINE done == {i \in DOMAIN out : out[i] # "retry" /\ q[i].status # "gone"}
             q1 == [i \in Items |-> IF i \in done THEN [q[i] EXCEPT !.status = out[i], !.live = FALSE]
                                    ELSE q[i]]
  <2>1. DOMAIN out \subseteq Items /\ \A i \in DOMAIN out : out[i] \in Outcomes
    BY OutFacts
  <2>2. q1 \in [Items -> Entry]
    BY <2>1 DEF Entry, Statuses, Outcomes
  <2>3. {i \in DOMAIN out : out[i] = "retry"} \in SUBSET Items
    BY <2>1
  <2> HIDE DEF q1
  <2>4. QED
    BY <1>1, <2>2, <2>3 DEF Marked, q1
<1>5. QED
  BY <1>1, <1>2, <1>3, <1>4

\* What a step of worker k makes of it, given as its new record.
Runs(k, new) ==
  /\ new \in Record /\ w' = [w EXCEPT ![k] = new] /\ size' = size
  /\ w[k].pc # "off"
  /\ new.pc = "off" => new = Idle
  /\ new.pc # "off" => new.job = w[k].job /\ new.idx = w[k].idx
  /\ new.pc \notin Holding => new.held = {}
  /\ new.pc = "commit" => DOMAIN new.out = new.held
  /\ new.pc \in {"wait", "tail"} => new.idx = 0
  /\ new.pc = "tail" => w[k].pc = "wait" /\ remaining[w[k].job] <= 0
  /\ \/ remaining' = remaining /\ (new.pc \in Draining => w[k].pc \in Draining)
     \/ /\ w[k].pc = "drained" /\ new.pc \notin Draining
        /\ remaining' = [remaining EXCEPT ![w[k].job] = @ - 1]
  /\ \/ w[k].pc = "boot" /\ new.pc = "rescue" /\ runners' = runners + 1
     \/ /\ w[k].pc = "exit" /\ new.pc = "off"
        /\ runners' = IF runners > 0 THEN runners - 1 ELSE 0
     \/ w[k].pc # "boot" /\ new.pc \notin {"off", "boot"} /\ runners' = runners
  /\ \A i \in Items : queue'[i].status = "claimed" =>
       i \in new.held \/ (queue[i].status = "claimed" /\ i \notin w[k].held)

\* What is claimed after an operation of the queue.
LEMMA QueueClaims ==
  ASSUME NEW q \in [Items -> Entry], NEW i \in Items
  PROVE  /\ \A held : GivenBack(q, held)[i].status = "claimed" => q[i].status = "claimed" /\ i \notin held
         /\ \A force : Rescued(q, force)[i].status = "claimed" => q[i].status = "claimed"
         /\ \A is : Claimed(q, is)[i].status = "claimed" => q[i].status = "claimed" \/ i \in is
         /\ \A out \in Outs : Marked(q, out)[i].status = "claimed" => q[i].status = "claimed" /\ i \notin DOMAIN out
<1>1. ASSUME NEW p, p[i] \in Entry, NEW held
      PROVE  GivenBack(p, held)[i].status = "claimed" => p[i].status = "claimed" /\ i \notin held
  BY <1>1 DEF GivenBack, Requeued, Entry
<1>2. \A force : Rescued(q, force)[i].status = "claimed" => q[i].status = "claimed"
  BY DEF Rescued, Requeued, Entry
<1>3. \A is : Claimed(q, is)[i].status = "claimed" => q[i].status = "claimed" \/ i \in is
  BY DEF Claimed, Entry
<1>4. ASSUME NEW out \in Outs
      PROVE  Marked(q, out)[i].status = "claimed" => q[i].status = "claimed" /\ i \notin DOMAIN out
  <2> DEFINE done == {j \in DOMAIN out : out[j] # "retry" /\ q[j].status # "gone"}
             q1 == [j \in Items |-> IF j \in done THEN [q[j] EXCEPT !.status = out[j], !.live = FALSE]
                                    ELSE q[j]]
             back == {j \in DOMAIN out : out[j] = "retry"}
  <2>1. i \in DOMAIN out => out[i] \in {"ingested", "rejected", "retry"}
    BY OutFacts DEF Outcomes
  <2>2. q1[i] = IF i \in done THEN [q[i] EXCEPT !.status = out[i], !.live = FALSE] ELSE q[i]
    OBVIOUS
  <2>3. q1[i] \in Entry /\ (q1[i].status = "claimed" => q[i].status = "claimed" /\ i \notin done)
    BY <2>1, <2>2 DEF Entry, Statuses
  <2>4. Marked(q, out) = GivenBack(q1, back)
    BY DEF Marked
  <2> HIDE DEF q1
  <2>5. Marked(q, out)[i].status = "claimed" => q1[i].status = "claimed" /\ i \notin back
    BY <1>1, <2>3, <2>4
  <2>6. QED
    BY <2>3, <2>5
<1>5. QED
  BY <1>1, <1>2, <1>3, <1>4

\* The record of a worker, field by field.
LEMMA Fields ==
  ASSUME JobsTyped, NEW k \in Workers
  PROVE  /\ w[k] \in Record /\ w[k].pc \in Pcs /\ w[k].held \in SUBSET Items /\ w[k].out \in Outs
         /\ w[k].first \in BOOLEAN /\ w[k].exn \in {"none", "cancel", "error"} /\ w[k].job \in Jobs
  BY DEF JobsTyped, Record

LEMMA StepRuns ==
  ASSUME FilesTyped, JobsTyped, Shaped, NEW k \in Workers, WorkerStep(k)
  PROVE  \E new \in Record : Runs(k, new)
<1> DEFINE old == w[k]
<1>1. /\ w \in [Workers -> Record] /\ queue \in [Items -> Entry]
      /\ old \in Record /\ old.pc \in Pcs /\ old.held \in SUBSET Items /\ old.out \in Outs
      /\ old.first \in BOOLEAN /\ old.exn \in {"none", "cancel", "error"} /\ old.job \in Jobs
  BY Fields DEF FilesTyped, JobsTyped
<1>2. /\ old.pc \notin Holding => old.held = {}
      /\ old.pc = "commit" => DOMAIN old.out = old.held
      /\ old.pc \in {"wait", "tail"} => old.idx = 0
  BY DEF Shaped
<1>5. /\ \A i \in Items : GivenBack(queue, old.held)[i].status = "claimed" =>
                            queue[i].status = "claimed" /\ i \notin old.held
      /\ \A i \in Items, force \in BOOLEAN :
           Rescued(queue, force)[i].status = "claimed" => queue[i].status = "claimed"
      /\ \A i \in Items, is \in SUBSET Items :
           Claimed(queue, is)[i].status = "claimed" => queue[i].status = "claimed" \/ i \in is
      /\ \A i \in Items : Marked(queue, old.out)[i].status = "claimed" =>
                            queue[i].status = "claimed" /\ i \notin DOMAIN old.out
  BY <1>1, QueueClaims
<1>6. Idle.out \in Outs /\ Idle \in Record /\ Idle.pc = "off" /\ Idle.held = {}
  BY OutFacts DEF Idle
<1>7. \A pc : GoTo(k, pc) => w' = [w EXCEPT ![k] = [old EXCEPT !.pc = pc]]
  BY DEF GoTo
<1>8. CASE Boot(k)
  <2> DEFINE new == [old EXCEPT !.pc = "rescue", !.first = (runners = 0)]
  <2>1. old.pc = "boot" /\ w' = [w EXCEPT ![k] = new] /\ runners' = runners + 1 /\ UNCHANGED <<queue, size, remaining>>
    BY <1>8 DEF Boot
  <2>2. new \in Record /\ new.pc = "rescue" /\ new.held = old.held /\ new.job = old.job /\ new.idx = old.idx
    BY <1>1 DEF Record, Pcs
  <2> HIDE DEF new, old
  <2>3. Runs(k, new)
    BY <1>2, <2>1, <2>2 DEF Runs, Holding, Draining, old
  <2>4. QED
    BY <2>2, <2>3
<1>9. CASE Rescue(k) \/ StopDraining(k)
  <2> DEFINE pc == IF old.pc = "rescue" THEN "drain" ELSE "drained"
             new == [old EXCEPT !.pc = pc]
  <2>1. /\ old.pc \in {"rescue", "drain"} /\ w' = [w EXCEPT ![k] = new]
        /\ queue' \in {queue, Rescued(queue, old.first)} /\ UNCHANGED <<size, remaining, runners>>
    BY <1>7, <1>9 DEF Rescue, StopDraining
  <2>2. new \in Record /\ new.pc \in {"drain", "drained"} /\ new.held = old.held /\ new.job = old.job /\ new.idx = old.idx
    BY <1>1 DEF Record, Pcs
  <2>3. \A i \in Items : queue'[i].status = "claimed" => queue[i].status = "claimed"
    BY <1>1, <1>5, <2>1
  <2> HIDE DEF new, old
  <2>4. Runs(k, new)
    BY <1>2, <2>1, <2>2, <2>3 DEF Runs, Holding, Draining, old
  <2>5. QED
    BY <2>2, <2>4
<1>10. CASE ClaimChunk(k)
  <2> DEFINE chunk == NextChunk(queue)
             new == [old EXCEPT !.pc = "prefetch", !.held = chunk]
  <2>1. /\ old.pc = "drain" /\ w' = [w EXCEPT ![k] = new]
        /\ queue' = Claimed(queue, chunk) /\ UNCHANGED <<size, remaining, runners>>
    BY <1>10 DEF ClaimChunk
  <2>2. chunk \in SUBSET Items
    BY DEF NextChunk, Claimable
  <2> HIDE DEF chunk
  <2>3. new \in Record /\ new.pc = "prefetch" /\ new.held = chunk /\ new.job = old.job /\ new.idx = old.idx
    BY <1>1, <2>2 DEF Record, Pcs
  <2>4. \A i \in Items : queue'[i].status = "claimed" => queue[i].status = "claimed" \/ i \in chunk
    BY <1>5, <2>1, <2>2
  <2> HIDE DEF new, old
  <2>5. Runs(k, new)
    BY <1>2, <2>1, <2>3, <2>4 DEF Runs, Holding, Draining, old
  <2>6. QED
    BY <2>3, <2>5
<1>11. CASE Defer(k) \/ GiveBackChunk(k)
  <2> DEFINE pc == IF old.pc = "undo" THEN "drained" ELSE "drain"
             new == [old EXCEPT !.pc = pc, !.held = {}]
  <2>1. /\ old.pc \in {"prefetch", "undo"} /\ w' = [w EXCEPT ![k] = new]
        /\ queue' = GivenBack(queue, old.held) /\ UNCHANGED <<size, remaining, runners>>
    BY <1>11 DEF Defer, GiveBackChunk
  <2>2. new \in Record /\ new.pc \in {"drain", "drained"} /\ new.held = {} /\ new.job = old.job /\ new.idx = old.idx
    BY <1>1 DEF Record, Pcs
  <2>3. \A i \in Items : queue'[i].status = "claimed" => queue[i].status = "claimed" /\ i \notin old.held
    BY <1>5, <2>1
  <2> HIDE DEF new, old
  <2>4. Runs(k, new)
    BY <1>2, <2>1, <2>2, <2>3 DEF Runs, Holding, Draining, old
  <2>5. QED
    BY <2>2, <2>4
<1>12. ASSUME NEW out \in [old.held -> Outcomes], Commit(k, out) PROVE \E new \in Record : Runs(k, new)
  <2> DEFINE new == [old EXCEPT !.pc = "commit", !.out = out]
  <2>1. old.pc = "prefetch" /\ w' = [w EXCEPT ![k] = new] /\ UNCHANGED <<queue, size, remaining, runners>>
    BY <1>12 DEF Commit
  <2>2. out \in Outs /\ DOMAIN out = old.held
    BY <1>1, <1>12, OutFacts
  <2>3. /\ new \in Record /\ new.pc = "commit" /\ new.held = old.held /\ new.out = out
        /\ new.job = old.job /\ new.idx = old.idx
    BY <1>1, <2>2 DEF Record, Pcs
  <2> HIDE DEF new, old
  <2>4. Runs(k, new)
    BY <2>1, <2>2, <2>3 DEF Runs, Holding, Draining, old
  <2>5. QED
    BY <2>3, <2>4
<1>13. CASE MarkItems(k)
  <2> DEFINE new == [old EXCEPT !.pc = "drain", !.held = {}, !.out = Idle.out]
  <2>1. /\ old.pc = "commit" /\ w' = [w EXCEPT ![k] = new]
        /\ queue' = Marked(queue, old.out) /\ UNCHANGED <<size, remaining, runners>>
    BY <1>13 DEF MarkItems
  <2>2. new \in Record /\ new.pc = "drain" /\ new.held = {} /\ new.job = old.job /\ new.idx = old.idx
    BY <1>1, <1>6 DEF Record, Pcs
  <2>3. \A i \in Items : queue'[i].status = "claimed" => queue[i].status = "claimed" /\ i \notin old.held
    BY <1>2, <1>5, <2>1
  <2> HIDE DEF new, old
  <2>4. Runs(k, new)
    BY <2>1, <2>2, <2>3 DEF Runs, Holding, Draining, old
  <2>5. QED
    BY <2>2, <2>4
<1>14. CASE CommitCancelled(k) \/ CompileFails(k)
  <2> DEFINE pc == IF job.cancel THEN "undo" ELSE "compileFailed"
             exn == IF job.cancel THEN "cancel" ELSE "error"
             new == [old EXCEPT !.pc = pc, !.exn = exn]
  <2>1. old.pc = "prefetch" /\ w' = [w EXCEPT ![k] = new] /\ UNCHANGED <<queue, size, remaining, runners>>
    BY <1>14 DEF CommitCancelled, CompileFails
  <2>2. new \in Record /\ new.pc \in {"undo", "compileFailed"} /\ new.held = old.held /\ new.job = old.job /\ new.idx = old.idx
    BY <1>1 DEF Record, Pcs
  <2> HIDE DEF new, old
  <2>3. Runs(k, new)
    BY <2>1, <2>2 DEF Runs, Holding, Draining, old
  <2>4. QED
    BY <2>2, <2>3
<1>15. CASE GiveBackBatch(k)
  <2> DEFINE new == [old EXCEPT !.pc = "undo"]
  <2>1. /\ old.pc = "compileFailed" /\ w' = [w EXCEPT ![k] = new]
        /\ queue' = GivenBack(queue, old.held) /\ UNCHANGED <<size, remaining, runners>>
    BY <1>7, <1>15 DEF GiveBackBatch
  <2>2. new \in Record /\ new.pc = "undo" /\ new.held = old.held /\ new.job = old.job /\ new.idx = old.idx
    BY <1>1 DEF Record, Pcs
  <2>3. \A i \in Items : queue'[i].status = "claimed" => queue[i].status = "claimed" /\ i \notin old.held
    BY <1>5, <2>1
  <2> HIDE DEF new, old
  <2>4. Runs(k, new)
    BY <2>1, <2>2, <2>3 DEF Runs, Holding, Draining, old
  <2>5. QED
    BY <2>2, <2>4
<1>16. CASE MarkDrainDone(k)
  <2> DEFINE pc == IF old.exn # "none" THEN "raise" ELSE IF old.idx # 0 THEN "exit" ELSE "wait"
             new == [old EXCEPT !.pc = pc]
  <2>1. /\ old.pc = "drained" /\ w' = [w EXCEPT ![k] = new]
        /\ remaining' = [remaining EXCEPT ![old.job] = @ - 1] /\ UNCHANGED <<queue, size, runners>>
    BY <1>7, <1>16 DEF MarkDrainDone
  <2>2. /\ new \in Record /\ new.pc \in {"raise", "exit", "wait"} /\ new.held = old.held
        /\ new.job = old.job /\ new.idx = old.idx /\ (new.pc = "wait" => old.idx = 0)
    BY <1>1 DEF Record, Pcs
  <2> HIDE DEF new, old
  <2>3. Runs(k, new)
    BY <1>2, <2>1, <2>2 DEF Runs, Holding, Draining, old
  <2>4. QED
    BY <2>2, <2>3
<1>17. CASE AllDrained(k)
  <2> DEFINE pc == IF job.cancel THEN "raise" ELSE IF job.status # "running" THEN "exit" ELSE "tail"
             new == [old EXCEPT !.pc = pc, !.exn = IF job.cancel THEN "cancel" ELSE @]
  <2>1. /\ old.pc = "wait" /\ w' = [w EXCEPT ![k] = new] /\ remaining[old.job] <= 0
        /\ UNCHANGED <<queue, size, remaining, runners>>
    BY <1>17 DEF AllDrained
  <2>2. /\ new \in Record /\ new.pc \in {"raise", "exit", "tail"} /\ new.held = old.held
        /\ new.job = old.job /\ new.idx = old.idx
    BY <1>1 DEF Record, Pcs
  <2> HIDE DEF new, old
  <2>3. Runs(k, new)
    BY <1>2, <2>1, <2>2 DEF Runs, Holding, Draining, old
  <2>4. QED
    BY <2>2, <2>3
<1>18. CASE Reprocess(k) \/ ReprocessStops(k) \/ Raise(k)
  <2>1. PICK pc \in {"exit", "raise"}, exn \in {"none", "cancel", "error"} :
            w' = [w EXCEPT ![k] = [old EXCEPT !.pc = pc, !.exn = exn]]
    <3>1. CASE Reprocess(k) \/ Raise(k)
      <4>1. w' = [w EXCEPT ![k] = [old EXCEPT !.pc = "exit"]]
        BY <1>7, <3>1 DEF Reprocess, Raise
      <4>2. [old EXCEPT !.pc = "exit"] = [old EXCEPT !.pc = "exit", !.exn = old.exn]
        BY <1>1 DEF Record
      <4>3. QED
        BY <1>1, <4>1, <4>2
    <3>2. CASE ReprocessStops(k)
      BY <3>2 DEF ReprocessStops
    <3>3. QED
      BY <1>18, <3>1, <3>2
  <2> DEFINE new == [old EXCEPT !.pc = pc, !.exn = exn]
  <2>2. old.pc \in {"tail", "raise"} /\ UNCHANGED <<queue, size, remaining, runners>>
    BY <1>18 DEF Reprocess, ReprocessStops, Raise
  <2>3. /\ new \in Record /\ new.pc \in {"raise", "exit"} /\ new.held = old.held
        /\ new.job = old.job /\ new.idx = old.idx /\ w' = [w EXCEPT ![k] = new]
    BY <1>1, <2>1 DEF Record, Pcs
  <2> HIDE DEF new, old
  <2>4. Runs(k, new)
    BY <1>2, <2>2, <2>3 DEF Runs, Holding, Draining, old
  <2>5. QED
    BY <2>3, <2>4
<1>19. CASE Exit(k)
  <2>1. /\ old.pc = "exit" /\ w' = [w EXCEPT ![k] = Idle]
        /\ runners' = IF runners > 0 THEN runners - 1 ELSE 0
        /\ UNCHANGED <<queue, size, remaining>>
    BY <1>19 DEF Exit
  <2> HIDE DEF old
  <2>2. Runs(k, Idle)
    BY <1>2, <1>6, <2>1 DEF Runs, Holding, Draining, old
  <2>3. QED
    BY <1>6, <2>2
<1>20. QED
  BY <1>8, <1>9, <1>10, <1>11, <1>12, <1>13, <1>14, <1>15, <1>16, <1>17, <1>18, <1>19 DEF WorkerStep, Proceed

\* The files, the locks and the job record after a step of a worker.
LEMMA StepTypes ==
  ASSUME FilesTyped, JobsTyped, Shaped, NEW k \in Workers, WorkerStep(k)
  PROVE  /\ FilesTyped' /\ job' \in JobType
         /\ job'.id = job.id
         /\ job.status # "running" => job' = job
<1>1. /\ queue \in [Items -> Entry] /\ recorded \in SUBSET Items /\ mem \in [Jobs -> SUBSET Items]
      /\ w[k].held \in SUBSET Items /\ w[k].out \in Outs /\ w[k].job \in Jobs /\ w[k].first \in BOOLEAN
      /\ w[k].exn \in {"none", "cancel", "error"} /\ job \in JobType
  BY Fields DEF FilesTyped, JobsTyped
<1>2. /\ queue' \in [Items -> Entry]
      /\ queueLock' = queueLock
      /\ manifestLock' \in {manifestLock, NoOne, k} /\ loop' = loop /\ faults' = faults
  <2>1. /\ GivenBack(queue, w[k].held) \in [Items -> Entry]
        /\ Rescued(queue, w[k].first) \in [Items -> Entry]
        /\ \A is \in SUBSET Items : Claimed(queue, is) \in [Items -> Entry]
        /\ Marked(queue, w[k].out) \in [Items -> Entry]
    BY <1>1, QueueTypes
  <2>2. NextChunk(queue) \in SUBSET Items
    BY DEF NextChunk, Claimable
  <2>3. queue' \in [Items -> Entry]
    BY <1>1, <2>1, <2>2 DEF WorkerStep, Proceed, Boot, Rescue, StopDraining, ClaimChunk, Defer, Commit, MarkItems,
       CommitCancelled, CompileFails, GiveBackBatch, GiveBackChunk, MarkDrainDone, AllDrained,
       Reprocess, ReprocessStops, Raise, Exit
  <2>4. queueLock' = queueLock /\ loop' = loop /\ faults' = faults
    BY DEF WorkerStep, Proceed, Boot, Rescue, StopDraining, ClaimChunk, Defer, Commit, MarkItems,
       CommitCancelled, CompileFails, GiveBackBatch, GiveBackChunk, MarkDrainDone, AllDrained,
       Reprocess, ReprocessStops, Raise, Exit
  <2>5. manifestLock' \in {manifestLock, NoOne, k}
    BY DEF WorkerStep, Proceed, Boot, Rescue, StopDraining, ClaimChunk, Defer, Commit, MarkItems,
       CommitCancelled, CompileFails, GiveBackBatch, GiveBackChunk, MarkDrainDone, AllDrained,
       Reprocess, ReprocessStops, Raise, Exit
  <2>6. QED
    BY <2>3, <2>4, <2>5
<1>3. recorded' \in SUBSET Items /\ mem' \in [Jobs -> SUBSET Items]
  <2>1. CASE Defer(k) \/ Reprocess(k)
    BY <1>1, <2>1 DEF Defer, Reprocess, Saves
  <2>2. ASSUME NEW out \in [w[k].held -> Outcomes], Commit(k, out)
        PROVE  recorded' \in SUBSET Items /\ mem' \in [Jobs -> SUBSET Items]
    <3> DEFINE m == recorded \union {i \in w[k].held : out[i] = "ingested"}
    <3>1. m \in SUBSET Items /\ recorded' = m /\ mem' = [mem EXCEPT ![w[k].job] = m]
      BY <1>1, <2>2 DEF Commit, Saves
    <3> HIDE DEF m
    <3>2. QED
      BY <1>1, <3>1
  <2>3. CASE CommitCancelled(k) \/ CompileFails(k)
    <3>1. PICK written \in SUBSET w[k].held : mem' = Abandoned(k, written)
      BY <2>3 DEF CommitCancelled, CompileFails
    <3> DEFINE m == recorded \union written
    <3>2. m \in SUBSET Items /\ mem' = [mem EXCEPT ![w[k].job] = m] /\ recorded' = recorded
      BY <1>1, <2>3, <3>1 DEF CommitCancelled, CompileFails, Abandoned
    <3> HIDE DEF m
    <3>3. QED
      BY <1>1, <3>2
  <2>4. CASE UNCHANGED <<recorded, mem>>
    BY <1>1, <2>4
  <2>5. QED
    BY <2>1, <2>2, <2>3, <2>4 DEF WorkerStep, Proceed, Boot, Rescue, StopDraining, ClaimChunk, MarkItems,
       GiveBackBatch, GiveBackChunk, MarkDrainDone, AllDrained, ReprocessStops, Raise, Exit
<1>4. job' \in JobType /\ job'.id = job.id /\ (job.status # "running" => job' = job)
  <2>1. CASE Reprocess(k)
    BY <1>1, <2>1 DEF Reprocess, JobType
  <2>2. CASE Raise(k)
    BY <1>1, <2>2 DEF Raise, FinalStatus, JobType
  <2>3. CASE job' = job
    BY <1>1, <2>3
  <2>4. QED
    BY <2>1, <2>2, <2>3 DEF WorkerStep, Proceed, Boot, Rescue, StopDraining, ClaimChunk, Defer, Commit, MarkItems,
       CommitCancelled, CompileFails, GiveBackBatch, GiveBackChunk, MarkDrainDone, AllDrained,
       ReprocessStops, Exit
<1>5. QED
  BY <1>2, <1>3, <1>4 DEF FilesTyped

----------------------------------------------------------------------------
(* The workers and their jobs.                                               *)

\* One member more or less in a set of workers.
LEMMA OneMore ==
  ASSUME NEW S \in SUBSET Workers, NEW T \in SUBSET Workers, NEW k \in Workers
  PROVE  /\ Cardinality(S) \in Nat /\ Cardinality(S) <= NWorkers
         /\ T = S \cup {k} /\ k \notin S => Cardinality(T) = Cardinality(S) + 1
         /\ T = S \ {k} /\ k \in S => Cardinality(T) = Cardinality(S) - 1
         /\ T \subseteq S => Cardinality(T) <= Cardinality(S)
         /\ k \in S => Cardinality(S) >= 1
<1>1. IsFiniteSet(S) /\ IsFiniteSet(T) /\ Cardinality(Workers) = NWorkers
  <2>1. NWorkers \in Int /\ 1 \in Int /\ ~(1 > NWorkers)
    BY BoundsAssumption
  <2>2. Cardinality(1..NWorkers) = NWorkers
    BY <2>1, FS_Interval
  <2>3. QED
    BY <2>2, Numbers, FS_Subset
<1>2. Cardinality(S) \in Nat /\ Cardinality(T) \in Nat /\ Cardinality(S) <= NWorkers
  BY <1>1, Numbers, FS_CardinalityType, FS_Subset
<1>3. T = S \cup {k} /\ k \notin S => Cardinality(T) = Cardinality(S) + 1
  BY <1>1, FS_AddElement
<1>4. T = S \ {k} /\ k \in S => Cardinality(T) = Cardinality(S) - 1
  BY <1>1, FS_RemoveElement
<1>5. T \subseteq S => Cardinality(T) <= Cardinality(S)
  BY <1>1, FS_Subset
<1>6. k \in S => Cardinality(S) >= 1
  <2>1. SUFFICES ASSUME k \in S PROVE Cardinality(S) # 0
    BY <1>2
  <2>2. QED
    BY <1>1, <2>1, FS_EmptySet
<1>7. QED
  BY <1>2, <1>3, <1>4, <1>5, <1>6

Past == {k \in Workers : w[k].pc \notin {"off", "boot"}}

\* A step of a worker keeps what is said of the workers.
LEMMA RunnerKeeps ==
  ASSUME VInv, NEW k \in Workers, NEW new, Runs(k, new)
  PROVE  /\ w' \in [Workers -> Record] /\ size' = size /\ remaining' \in [Jobs -> 0..MaxSize]
         /\ RunnersCounted' /\ Shaped' /\ Apart' /\ CountedDown'
<1>1. /\ new \in Record /\ w' = [w EXCEPT ![k] = new] /\ size' = size
      /\ w \in [Workers -> Record] /\ remaining \in [Jobs -> 0..MaxSize] /\ w[k].job \in Jobs
      /\ w[k].pc # "off"
  BY Fields DEF VInv, JobsTyped, Runs
<1>2. w' \in [Workers -> Record] /\ w'[k] = new /\ \A v \in Workers \ {k} : w'[v] = w[v]
  BY <1>1
<1>3. \A j \in Jobs : /\ OfJob(j) \in SUBSET Workers /\ OfJob(j)' \in SUBSET Workers
                      /\ Cardinality(OfJob(j)) <= remaining[j] /\ remaining[j] \in 0..MaxSize
                      /\ Cardinality(OfJob(j)) \in Nat /\ Cardinality(OfJob(j)') \in Nat
  <2>1. \A j \in Jobs : OfJob(j) \in SUBSET Workers /\ OfJob(j)' \in SUBSET Workers
    BY DEF OfJob
  <2>2. QED
    BY <1>1, <2>1, OneMore DEF VInv, CountedDown
<1>4. Idle.pc = "off" /\ Idle.job = 0 /\ Idle.held = {}
  BY DEF Idle
<1>5. new.pc \in Draining => w[k].pc \in Draining /\ new.job = w[k].job
  BY DEF Runs, Draining, Holding
<1>6. \A j \in Jobs : OfJob(j)' \subseteq OfJob(j)
  BY <1>2, <1>5 DEF OfJob
<1>7. /\ remaining' \in [Jobs -> 0..MaxSize] /\ CountedDown'
      /\ \A j \in Jobs : remaining[j] = 0 => remaining'[j] = 0
  <2>1. CASE remaining' = remaining
    <3>1. \A j \in Jobs : Cardinality(OfJob(j)') <= Cardinality(OfJob(j))
      BY <1>3, <1>6, OneMore
    <3>2. \A j \in Jobs : Cardinality(OfJob(j)') <= remaining[j]
      BY <1>1, <1>3, <3>1
    <3>3. QED
      BY <1>1, <2>1, <3>2 DEF CountedDown
  <2>2. CASE /\ w[k].pc = "drained" /\ new.pc \notin Draining
             /\ remaining' = [remaining EXCEPT ![w[k].job] = @ - 1]
    <3>0. PICK j0 \in Jobs : j0 = w[k].job
      BY <1>1
    <3>1. k \in OfJob(j0) /\ OfJob(j0)' = OfJob(j0) \ {k}
      BY <1>1, <1>2, <2>2, <3>0 DEF OfJob, Draining
    <3>2. /\ Cardinality(OfJob(j0)) >= 1
          /\ Cardinality(OfJob(j0)') = Cardinality(OfJob(j0)) - 1
      BY <1>3, <3>1, OneMore
    <3>3. /\ remaining'[j0] = remaining[j0] - 1 /\ remaining[j0] >= 1
          /\ \A j \in Jobs \ {j0} : remaining'[j] = remaining[j]
          /\ remaining[j0] \in 0..MaxSize
      BY <1>1, <1>3, <2>2, <3>0, <3>2
    <3>4. remaining' \in [Jobs -> 0..MaxSize]
      BY <1>1, <2>2, <3>0, <3>3, Numbers
    <3>5. \A j \in Jobs : Cardinality(OfJob(j)') <= Cardinality(OfJob(j))
      BY <1>3, <1>6, OneMore
    <3>6. \A j \in Jobs : Cardinality(OfJob(j)') <= remaining'[j]
      <4>1. Cardinality(OfJob(j0)') <= remaining'[j0]
        BY <1>3, <3>2, <3>3
      <4>2. \A j \in Jobs \ {j0} : Cardinality(OfJob(j)') <= remaining'[j]
        BY <1>1, <1>3, <3>3, <3>5
      <4>3. QED
        BY <4>1, <4>2
    <3>7. QED
      BY <3>3, <3>4, <3>6 DEF CountedDown
  <2>3. QED
    BY <2>1, <2>2 DEF Runs
<1>8. Shaped'
  <2>1. ASSUME NEW v \in Workers \ {k}
        PROVE  /\ w'[v].pc = "off" => w'[v] = Idle
               /\ w'[v].pc # "off" => w'[v].job # 0 /\ size'[w'[v].job] # 0
               /\ w'[v].pc \notin Holding => w'[v].held = {}
               /\ w'[v].pc = "commit" => DOMAIN w'[v].out = w'[v].held
               /\ w'[v].pc \in {"wait", "tail"} => w'[v].idx = 0
               /\ w'[v].pc = "tail" => remaining'[w'[v].job] = 0
    BY <1>1, <1>2, <1>7, Fields DEF VInv, Shaped
  <2>2. /\ new.pc = "off" => new = Idle
        /\ new.pc # "off" => new.job # 0 /\ size'[new.job] # 0
        /\ new.pc \notin Holding => new.held = {}
        /\ new.pc = "commit" => DOMAIN new.out = new.held
        /\ new.pc \in {"wait", "tail"} => new.idx = 0
    BY <1>1 DEF Runs, VInv, Shaped
  <2>3. ASSUME new.pc = "tail" PROVE remaining'[new.job] = 0
    <3>1. remaining[w[k].job] = 0 /\ new.job = w[k].job
      BY <1>1, <1>3, <2>3 DEF Runs
    <3>2. QED
      BY <1>1, <1>7, <3>1
  <2>4. QED
    BY <1>2, <2>1, <2>2, <2>3 DEF Shaped
<1>9. Apart'
  BY <1>1, <1>2 DEF Runs, VInv, Apart
<1>10. RunnersCounted'
  <2>1. Past \in SUBSET Workers /\ Past' \in SUBSET Workers /\ runners = Cardinality(Past)
    BY DEF Past, VInv, RunnersCounted
  <2>2. CASE w[k].pc = "boot" /\ new.pc = "rescue" /\ runners' = runners + 1
    <3>1. Past' = Past \cup {k} /\ k \notin Past
      BY <1>2, <2>2 DEF Past
    <3>2. Cardinality(Past') = Cardinality(Past) + 1
      BY <2>1, <3>1, OneMore
    <3>3. QED
      BY <2>1, <2>2, <3>2 DEF Past, RunnersCounted
  <2>3. CASE w[k].pc = "exit" /\ new.pc = "off" /\ runners' = IF runners > 0 THEN runners - 1 ELSE 0
    <3>1. Past' = Past \ {k} /\ k \in Past
      BY <1>2, <2>3 DEF Past
    <3>2. Cardinality(Past') = Cardinality(Past) - 1 /\ Cardinality(Past) >= 1
      BY <2>1, <3>1, OneMore
    <3>3. Cardinality(Past) \in Nat
      BY <2>1, OneMore
    <3>4. QED
      BY <2>1, <2>3, <3>2, <3>3 DEF Past, RunnersCounted
  <2>4. CASE w[k].pc # "boot" /\ new.pc \notin {"off", "boot"} /\ runners' = runners
    <3>1. Past' = Past
      BY <1>1, <1>2, <2>4 DEF Past
    <3>2. QED
      BY <2>1, <2>4, <3>1 DEF Past, RunnersCounted
  <2>5. QED
    BY <2>2, <2>3, <2>4 DEF Runs
<1>11. QED
  BY <1>1, <1>2, <1>7, <1>8, <1>9, <1>10

LEMMA WorkerKeeps == ASSUME VInv, NEW k \in Workers, WorkerStep(k) PROVE VInv'
<1>1. FilesTyped /\ JobsTyped /\ Shaped /\ ClaimIsHeld /\ JobIsTheirs
  BY DEF VInv
<1>2. PICK new \in Record : Runs(k, new)
  BY <1>1, StepRuns
<1>3. /\ w' \in [Workers -> Record] /\ size' = size /\ remaining' \in [Jobs -> 0..MaxSize]
      /\ RunnersCounted' /\ Shaped' /\ Apart' /\ CountedDown'
  BY <1>2, RunnerKeeps
<1>4. /\ FilesTyped' /\ job' \in JobType /\ job'.id = job.id
      /\ job.status # "running" => job' = job
  BY <1>1, StepTypes
<1>5. JobsTyped'
  BY <1>1, <1>3, <1>4 DEF JobsTyped
<1>6. JobIsTheirs'
  BY <1>1, <1>3, <1>4 DEF JobIsTheirs
<1>7. ClaimIsHeld'
  <2>1. faults' = faults
    BY DEF WorkerStep, Proceed, Boot, Rescue, StopDraining, ClaimChunk, Defer, Commit, MarkItems,
       CommitCancelled, CompileFails, GiveBackBatch, GiveBackChunk, MarkDrainDone, AllDrained,
       Reprocess, ReprocessStops, Raise, Exit
  <2>2. SUFFICES ASSUME faults.crash = 0, NEW i \in Items, queue'[i].status = "claimed"
                 PROVE  \E v \in Workers : i \in w'[v].held
    BY <2>1 DEF ClaimIsHeld
  <2>3. w'[k] = new /\ \A v \in Workers \ {k} : w'[v] = w[v]
    BY <1>1, <1>2 DEF JobsTyped, Runs
  <2>4. i \in new.held \/ (queue[i].status = "claimed" /\ i \notin w[k].held)
    BY <1>2, <2>2 DEF Runs
  <2>5. CASE i \in new.held
    BY <2>3, <2>5
  <2>6. CASE queue[i].status = "claimed" /\ i \notin w[k].held
    <3>1. PICK v \in Workers : i \in w[v].held
      BY <1>1, <2>2, <2>6 DEF ClaimIsHeld
    <3>2. QED
      BY <2>3, <2>6, <3>1
  <2>7. QED
    BY <2>4, <2>5, <2>6
<1>8. QED
  BY <1>3, <1>4, <1>5, <1>6, <1>7 DEF VInv

\* Two of the threads that a new job takes have different places in it.
LEMMA Ranks ==
  /\ \A k \in Workers : Rank(k) \in Nat
  /\ \A k, v \in Free : Rank(k) = Rank(v) => k = v
  /\ \A n \in Nat : Cardinality({k \in Free : Rank(k) < n}) <= n
<1> DEFINE Below(k) == {v \in Free : v < k}
<1>1. \A k \in Workers : Below(k) \in SUBSET Workers /\ Rank(k) = Cardinality(Below(k))
  BY DEF Free, Rank
<1>2. \A k \in Workers : Rank(k) \in Nat /\ IsFiniteSet(Below(k))
  <2>1. TAKE k \in Workers
  <2>2. Below(k) \in SUBSET Workers
    BY <1>1
  <2> HIDE DEF Below
  <2>3. QED
    BY <1>1, <2>2, Numbers, FS_Subset, OneMore
<1>20. Free \subseteq Workers /\ Workers \subseteq Nat
  BY Numbers DEF Free
<1>21. \A k \in Workers : Rank(k) \in Nat
  BY <1>2
<1>3. ASSUME NEW k \in Free, NEW v \in Free, k < v PROVE Rank(k) < Rank(v)
  <2>1. k \in Workers /\ v \in Workers /\ Workers \subseteq Nat
    BY <1>20
  <2>2. /\ Below(k) \subseteq Below(v) /\ k \in Below(v) /\ k \notin Below(k)
    <3>1. \A u \in Free : u < k => u < v
      BY <1>3, <1>20, <2>1
    <3>2. ~(k < k)
      BY <2>1
    <3>3. QED
      BY <1>3, <3>1, <3>2
  <2>3. Rank(k) = Cardinality(Below(k)) /\ Rank(v) = Cardinality(Below(v)) /\ IsFiniteSet(Below(v))
        /\ Rank(k) \in Nat /\ Rank(v) \in Nat
    BY <1>1, <1>2, <2>1
  <2> HIDE DEF Below
  <2>4. Rank(k) <= Rank(v) /\ Rank(k) # Rank(v)
    BY <2>2, <2>3, FS_Subset
  <2>5. QED
    BY <2>3, <2>4
<1>4. \A k, v \in Free : Rank(k) = Rank(v) => k = v
  <2>1. TAKE k, v \in Free
  <2>2. HAVE Rank(k) = Rank(v)
  <2>3. k \in Nat /\ v \in Nat /\ Rank(k) \in Nat /\ Rank(v) \in Nat
    BY <1>20, <1>21
  <2>4. ~(k < v) /\ ~(v < k)
    BY <1>3, <2>2, <2>3
  <2>5. QED
    BY <2>3, <2>4
<1>5. ASSUME NEW n \in Nat PROVE Cardinality({k \in Free : Rank(k) < n}) <= n
  <2> DEFINE S == {k \in Free : Rank(k) < n}
             f == [k \in S |-> Rank(k)]
  <2>1. \A k \in S : k \in Free /\ Rank(k) \in 0..(n - 1)
    BY <1>20, <1>21
  <2>2. f \in [S -> 0..(n - 1)] /\ \A k, v \in S : f[k] = f[v] => k = v
    BY <1>4, <2>1
  <2>3. f \in Injection(S, 0..(n - 1))
    BY <2>2 DEF Injection, IsInjective
  <2>4. IsFiniteSet(0..(n - 1)) /\ Cardinality(0..(n - 1)) = n
    <3>1. 0 \in Int /\ n - 1 \in Int
      OBVIOUS
    <3>2. IsFiniteSet(0..(n - 1)) /\ Cardinality(0..(n - 1)) = IF 0 > n - 1 THEN 0 ELSE (n - 1) - 0 + 1
      BY <3>1, FS_Interval
    <3>3. QED
      BY <3>2
  <2> HIDE DEF S, f
  <2>5. Cardinality(S) <= Cardinality(0..(n - 1))
    BY <2>3, <2>4, FS_Injection
  <2>6. QED
    BY <2>4, <2>5 DEF S
<1>6. QED
  BY <1>2, <1>4, <1>5

LEMMA StartKeeps == ASSUME VInv, NEW n \in 1..MaxSize, StartJob(n) PROVE VInv'
<1>1. PICK id \in Jobs \ {0} :
        /\ size[id] = 0 /\ job' = NewJob(id)
        /\ size' = [size EXCEPT ![id] = n] /\ remaining' = [remaining EXCEPT ![id] = n]
        /\ mem' = [mem EXCEPT ![id] = recorded]
        /\ w' = [k \in Workers |-> IF k \in Free /\ Rank(k) < n
                                   THEN [Idle EXCEPT !.pc = "boot", !.job = id, !.idx = Rank(k)]
                                   ELSE w[k]]
        /\ UNCHANGED <<queue, recorded, runners, queueLock, manifestLock, loop, faults>>
  BY DEF StartJob
<1> DEFINE New == {k \in Free : Rank(k) < n}
           Taken(k) == [Idle EXCEPT !.pc = "boot", !.job = id, !.idx = Rank(k)]
<1>2. /\ w \in [Workers -> Record] /\ size \in [Jobs -> 0..MaxSize] /\ remaining \in [Jobs -> 0..MaxSize]
      /\ n \in 0..MaxSize /\ n # 0 /\ id \in Jobs /\ id # 0
      /\ \A k \in Workers : w[k].job \in Jobs
  <2>1. JobsTyped
    BY DEF VInv
  <2>2. \A k \in Workers : w[k].job \in Jobs
    BY <2>1, Fields
  <2>3. n \in 0..MaxSize /\ n # 0
    BY Numbers
  <2>4. QED
    BY <1>1, <2>1, <2>2, <2>3 DEF JobsTyped
<1>3. New \in SUBSET Workers /\ \A k \in New : w[k].pc = "off" /\ w[k] = Idle
  <2>1. \A k \in New : k \in Workers /\ w[k].pc = "off"
    BY DEF Free
  <2>2. \A k \in Workers : w[k].pc = "off" => w[k] = Idle
    BY DEF VInv, Shaped
  <2> HIDE DEF New
  <2>3. QED
    BY <2>1, <2>2
<1>4. \A k \in New : /\ Taken(k) \in Record /\ Taken(k).pc = "boot" /\ Taken(k).job = id
                     /\ Taken(k).idx = Rank(k) /\ Taken(k).held = {}
  <2>1. TAKE k \in New
  <2>2. Rank(k) \in 0..(MaxSize - 1)
    BY <1>2, <1>3, Ranks, Numbers
  <2>3. Idle \in Record /\ "boot" \in Pcs /\ Idle.held = {}
    BY OutFacts DEF Pcs, Idle
  <2>4. QED
    BY <1>2, <2>2, <2>3 DEF Record
<1>5. \A k \in Workers : w'[k] = IF k \in New THEN Taken(k) ELSE w[k]
  BY <1>1 DEF Free
<1>6. w' = [k \in Workers |-> w'[k]]
  BY <1>1
<1> HIDE DEF Taken
<1>7. w' \in [Workers -> Record]
  <2>1. \A k \in Workers : w'[k] \in Record
    BY <1>2, <1>4, <1>5
  <2>2. QED
    BY <1>6, <2>1
<1>8. /\ \A j \in Jobs \ {id} : size'[j] = size[j] /\ remaining'[j] = remaining[j]
      /\ size'[id] = n /\ remaining'[id] = n
      /\ size' \in [Jobs -> 0..MaxSize] /\ remaining' \in [Jobs -> 0..MaxSize]
  BY <1>1, <1>2
<1>9. \A k \in Workers : w[k].pc # "off" => w[k].job # id /\ size[w[k].job] # 0 /\ w[k].job # 0
  BY <1>1 DEF VInv, Shaped
<1>10. FilesTyped' /\ JobsTyped'
  <2>1. job' \in JobType
    BY <1>1, <1>2 DEF NewJob, JobType
  <2>2. mem' \in [Jobs -> SUBSET Items]
    BY <1>1 DEF VInv, FilesTyped
  <2>3. QED
    BY <1>1, <1>7, <1>8, <2>1, <2>2 DEF VInv, FilesTyped, JobsTyped
<1>11. JobIsTheirs'
  BY <1>1, <1>2, <1>8 DEF JobIsTheirs, NewJob
<1>12. RunnersCounted'
  <2>1. \A k \in Workers : w'[k].pc \notin {"off", "boot"} <=> w[k].pc \notin {"off", "boot"}
    BY <1>3, <1>4, <1>5
  <2>2. Past' = Past
    BY <2>1 DEF Past
  <2>3. QED
    BY <1>1, <2>2 DEF Past, RunnersCounted, VInv
<1>13. ClaimIsHeld'
  <2>1. \A k \in Workers : w[k].held \subseteq w'[k].held
    <3>1. Idle.held = {}
      BY DEF Idle
    <3>2. QED
      BY <1>3, <1>5, <3>1
  <2>2. QED
    BY <1>1, <2>1 DEF ClaimIsHeld, VInv
<1>14. Shaped'
  <2>1. ASSUME NEW k \in Workers
        PROVE  /\ w'[k].pc = "off" => w'[k] = Idle
               /\ w'[k].pc # "off" => w'[k].job # 0 /\ size'[w'[k].job] # 0
               /\ w'[k].pc \notin Holding => w'[k].held = {}
               /\ w'[k].pc = "commit" => DOMAIN w'[k].out = w'[k].held
               /\ w'[k].pc \in {"wait", "tail"} => w'[k].idx = 0
               /\ w'[k].pc = "tail" => remaining'[w'[k].job] = 0
    <3>1. CASE k \in New
      BY <1>2, <1>4, <1>5, <1>8, <3>1 DEF Holding
    <3>2. CASE k \notin New
      BY <1>2, <1>5, <1>8, <1>9, <3>2 DEF VInv, Shaped
    <3>3. QED
      BY <3>1, <3>2
  <2>2. QED
    BY <2>1 DEF Shaped
<1>15. Apart'
  <2>1. ASSUME NEW k \in Workers, NEW v \in Workers, w'[k].pc # "off", w'[v].pc # "off",
               w'[k].job = w'[v].job, w'[k].idx = w'[v].idx
        PROVE  k = v
    <3>1. CASE k \in New /\ v \in New
      BY <1>4, <1>5, <2>1, <3>1, Ranks
    <3>2. CASE k \notin New /\ v \notin New
      BY <1>5, <2>1, <3>2 DEF VInv, Apart
    <3>3. CASE (k \in New /\ v \notin New) \/ (k \notin New /\ v \in New)
      BY <1>4, <1>5, <1>9, <2>1, <3>3
    <3>4. QED
      BY <3>1, <3>2, <3>3
  <2>2. QED
    BY <2>1 DEF Apart
<1>16. CountedDown'
  <2>1. ASSUME NEW j \in Jobs PROVE Cardinality(OfJob(j)') <= remaining'[j]
    <3>1. CASE j = id
      <4>1. OfJob(j)' \subseteq New /\ OfJob(j)' \in SUBSET Workers
        BY <1>4, <1>5, <1>9, <3>1 DEF OfJob, Draining, Holding
      <4>2. Cardinality(OfJob(j)') <= Cardinality(New) /\ Cardinality(OfJob(j)') \in Nat /\ Cardinality(New) \in Nat
        BY <1>3, <4>1, OneMore, FS_Subset, FS_CardinalityType, Numbers
      <4>3. Cardinality(New) <= n
        BY <1>2, Ranks
      <4>4. QED
        BY <1>2, <1>8, <3>1, <4>2, <4>3
    <3>2. CASE j # id
      <4>1. OfJob(j)' \subseteq OfJob(j) /\ OfJob(j)' \in SUBSET Workers /\ OfJob(j) \in SUBSET Workers
        BY <1>4, <1>5, <3>2 DEF OfJob
      <4>2. /\ Cardinality(OfJob(j)') <= Cardinality(OfJob(j)) /\ Cardinality(OfJob(j)') \in Nat
            /\ Cardinality(OfJob(j)) \in Nat
        BY <4>1, FS_Subset, FS_CardinalityType, Numbers
      <4>3. Cardinality(OfJob(j)) <= remaining[j] /\ remaining[j] \in Nat
        BY <1>2, Numbers DEF VInv, CountedDown
      <4>4. QED
        BY <1>8, <3>2, <4>2, <4>3
    <3>3. QED
      BY <3>1, <3>2
  <2>2. QED
    BY <2>1 DEF CountedDown
<1>17. QED
  BY <1>10, <1>11, <1>12, <1>13, <1>14, <1>15, <1>16 DEF VInv

\* A step that leaves the workers and the sizes alone.

LEMMA OthersKeep ==
  ASSUME VInv, UNCHANGED <<w, size, remaining, runners>>,
         FilesTyped', job' \in JobType, JobIsTheirs', ClaimIsHeld'
  PROVE  VInv'
<1>1. JobsTyped' /\ RunnersCounted' /\ Shaped' /\ Apart'
  BY DEF VInv, JobsTyped, RunnersCounted, Shaped, Apart
<1>2. CountedDown'
  <2>1. ASSUME NEW j \in Jobs PROVE OfJob(j)' = OfJob(j)
    BY DEF OfJob
  <2>2. QED
    BY <2>1 DEF VInv, CountedDown
<1>3. QED
  BY <1>1, <1>2 DEF VInv

LEMMA FaultTyped ==
  ASSUME faults \in [Faults -> 0..MaxFaults], NEW f \in Faults, Fault(f)
  PROVE  /\ faults' \in [Faults -> 0..MaxFaults]
         /\ faults'.crash = 0 => faults.crash = 0
         /\ f = "crash" => faults'.crash # 0
<1>1. faults["crash"] \in Nat /\ faults["wipe"] \in Nat /\ faults["lease"] \in Nat
  BY Numbers DEF Faults
<1>2. f \in {"crash", "wipe", "lease"} /\ MaxFaults \in Nat
  BY Numbers DEF Faults
<1>3. faults[f] + 1 \in 0..MaxFaults
  BY <1>1, <1>2 DEF Fault
<1>4. faults' = [faults EXCEPT ![f] = @ + 1]
  BY DEF Fault
<1>5. faults' \in [Faults -> 0..MaxFaults]
  BY <1>3, <1>4
<1>6. faults'["crash"] = IF f = "crash" THEN faults["crash"] + 1 ELSE faults["crash"]
  BY <1>4 DEF Faults
<1>7. QED
  BY <1>1, <1>5, <1>6

LEMMA LoopKeeps ==
  ASSUME VInv,
         \/ \E i \in Items : Clip(i) \/ LeaseExpires(i)
         \/ ClearQueued \/ CancelJob \/ ResetCheck \/ LoopStep
  PROVE  VInv'
<1>1. /\ queue \in [Items -> Entry] /\ job \in JobType /\ FilesTyped /\ ClaimIsHeld /\ JobIsTheirs
      /\ faults \in [Faults -> 0..MaxFaults]
  BY DEF VInv, FilesTyped, JobsTyped
<1>2. UNCHANGED <<w, size, remaining, runners>>
  BY DEF Clip, LeaseExpires, ClearQueued, CancelJob, ResetCheck, LoopStep, ResetLock, ResetWipe
<1>3. /\ queue' \in [Items -> Entry]
      /\ \A i \in Items : queue'[i].status = "claimed" => queue[i].status = "claimed"
  <2>1. CASE \E i \in Items : Clip(i)
    BY <1>1, <2>1 DEF Clip, Entry, Statuses
  <2>2. CASE \E i \in Items : LeaseExpires(i)
    <3>1. PICK i \in Items : queue' = [queue EXCEPT ![i] = [queue[i] EXCEPT !.live = FALSE]]
      BY <2>2 DEF LeaseExpires
    <3>2. [queue[i] EXCEPT !.live = FALSE] \in Entry
          /\ [queue[i] EXCEPT !.live = FALSE].status = queue[i].status
      BY <1>1 DEF Entry
    <3>3. QED
      BY <1>1, <3>1, <3>2
  <2>3. CASE ClearQueued
    BY <1>1, <2>3 DEF ClearQueued, Entry, Statuses
  <2>4. CASE ResetWipe
    BY <1>1, <2>4 DEF ResetWipe, Entry, Statuses
  <2>5. CASE CancelJob \/ ResetCheck \/ ResetLock
    BY <1>1, <2>5 DEF CancelJob, ResetCheck, ResetLock
  <2>6. QED
    BY <2>1, <2>2, <2>3, <2>4, <2>5 DEF LoopStep
<1>4. /\ faults' \in [Faults -> 0..MaxFaults]
      /\ faults'.crash = 0 => faults.crash = 0
  <2>1. CASE Fault("lease") \/ Fault("wipe")
    BY <1>1, <2>1, FaultTyped DEF Faults
  <2>2. CASE UNCHANGED faults
    BY <1>1, <2>2
  <2>3. QED
    BY <2>1, <2>2 DEF Clip, LeaseExpires, ClearQueued, CancelJob, ResetCheck, LoopStep, ResetLock, ResetWipe
<1>5. /\ recorded' \subseteq Items /\ mem' \in [Jobs -> SUBSET Items]
      /\ queueLock' \in {NoOne, Loop} /\ manifestLock' \in Workers \cup {NoOne}
      /\ loop' \in {"idle", "resetting", "locked"}
  BY <1>1 DEF FilesTyped, Clip, LeaseExpires, ClearQueued, CancelJob, ResetCheck, LoopStep, ResetLock, ResetWipe
<1>6. FilesTyped'
  BY <1>3, <1>4, <1>5 DEF FilesTyped
<1>7. job' \in JobType /\ JobIsTheirs'
  <2>1. CASE CancelJob
    BY <1>1, <1>2, <2>1 DEF CancelJob, JobType, JobIsTheirs
  <2>2. CASE ResetWipe
    BY <1>1, <1>2, <2>2, Numbers DEF ResetWipe, NewJob, JobType, JobIsTheirs
  <2>3. CASE UNCHANGED job
    BY <1>1, <1>2, <2>3 DEF JobIsTheirs
  <2>4. QED
    BY <2>1, <2>2, <2>3 DEF Clip, LeaseExpires, ClearQueued, ResetCheck, LoopStep, ResetLock
<1>8. ClaimIsHeld'
  BY <1>1, <1>2, <1>3, <1>4 DEF ClaimIsHeld
<1>9. QED
  BY <1>2, <1>6, <1>7, <1>8, OthersKeep

\* With no thread alive, nothing is counted.
LEMMA NobodyThere ==
  ASSUME w = [k \in Workers |-> Idle], job = NewJob(0), runners = 0,
         size = [j \in Jobs |-> 0], remaining = [j \in Jobs |-> 0]
  PROVE  JobsTyped /\ RunnersCounted /\ Shaped /\ Apart /\ CountedDown /\ JobIsTheirs
<1>1. Idle \in Record /\ Idle.pc = "off" /\ Idle.held = {}
  BY OutFacts DEF Idle
<1>2. \A k \in Workers : w[k] = Idle
  OBVIOUS
<1>3. JobsTyped
  BY <1>1, Numbers DEF JobsTyped, NewJob, JobType
<1>4. RunnersCounted
  <2>1. {k \in Workers : w[k].pc \notin {"off", "boot"}} = {}
    BY <1>1, <1>2
  <2>2. QED
    BY <2>1, FS_EmptySet DEF RunnersCounted
<1>5. Shaped /\ Apart
  BY <1>1, <1>2 DEF Shaped, Apart, Holding
<1>6. CountedDown
  <2>1. \A j \in Jobs : OfJob(j) = {}
    BY <1>1, <1>2 DEF OfJob, Draining, Holding
  <2>2. \A j \in Jobs : remaining[j] = 0
    OBVIOUS
  <2>3. QED
    BY <2>1, <2>2, FS_EmptySet DEF CountedDown
<1>7. JobIsTheirs
  BY DEF JobIsTheirs, NewJob
<1>8. QED
  BY <1>3, <1>4, <1>5, <1>6, <1>7

LEMMA CrashKeeps == ASSUME VInv, Crash PROVE VInv'
<1>1. /\ w' = [k \in Workers |-> Idle] /\ job' = NewJob(0) /\ runners' = 0
      /\ size' = [j \in Jobs |-> 0] /\ remaining' = [j \in Jobs |-> 0]
  BY DEF Crash
<1>2. (w = [k \in Workers |-> Idle] /\ job = NewJob(0) /\ runners = 0
        /\ size = [j \in Jobs |-> 0] /\ remaining = [j \in Jobs |-> 0]
       => JobsTyped /\ RunnersCounted /\ Shaped /\ Apart /\ CountedDown /\ JobIsTheirs)'
  BY NobodyThere, PTL
<1>3. FilesTyped
  BY DEF VInv
<1>4. faults' \in [Faults -> 0..MaxFaults] /\ faults'.crash # 0
  BY <1>3, FaultTyped DEF Crash, FilesTyped, Faults
<1>5. FilesTyped' /\ ClaimIsHeld'
  BY <1>3, <1>4 DEF Crash, FilesTyped, ClaimIsHeld
<1>6. QED
  BY <1>1, <1>2, <1>5 DEF VInv

LEMMA InitTyped == Init => VInv
<1> SUFFICES ASSUME Init PROVE VInv
  OBVIOUS
<1>1. JobsTyped /\ RunnersCounted /\ Shaped /\ Apart /\ CountedDown /\ JobIsTheirs
  BY NobodyThere DEF Init
<1>2. FilesTyped /\ ClaimIsHeld
  BY Numbers DEF Init, FilesTyped, ClaimIsHeld, Entry, Statuses, Faults
<1>3. QED
  BY <1>1, <1>2 DEF VInv

LEMMA StepKeeps == ASSUME VInv, [Next]_vars PROVE VInv'
<1>1. CASE \E n \in 1..MaxSize : StartJob(n)
  BY <1>1, StartKeeps
<1>2. CASE \E k \in Workers : WorkerStep(k)
  BY <1>2, WorkerKeeps
<1>3. CASE Crash
  BY <1>3, CrashKeeps
<1>4. CASE \/ \E i \in Items : Clip(i) \/ LeaseExpires(i)
           \/ ClearQueued \/ CancelJob \/ ResetCheck \/ LoopStep
  BY <1>4, LoopKeeps
<1>5. CASE UNCHANGED vars
  <2>1. UNCHANGED <<w, size, remaining, runners>> /\ FilesTyped' /\ job' \in JobType /\ JobIsTheirs' /\ ClaimIsHeld'
    BY <1>5 DEF vars, VInv, FilesTyped, JobsTyped, JobIsTheirs, ClaimIsHeld
  <2>2. QED
    BY <2>1, OthersKeep
<1>6. QED
  BY <1>1, <1>2, <1>3, <1>4, <1>5 DEF Next, Around

\* The histories of what the jobs have seen of the manifest.
HistoryTyped == unseen \in [Jobs -> SUBSET Items] /\ dropped \in SUBSET Items
QInv == VInv /\ HistoryTyped

LEMMA HistoryKeeps == ASSUME QInv, [Next]_vars PROVE HistoryTyped'
<1>1. /\ FilesTyped /\ JobsTyped /\ recorded \in SUBSET Items /\ mem \in [Jobs -> SUBSET Items]
      /\ unseen \in [Jobs -> SUBSET Items] /\ dropped \in SUBSET Items
  BY DEF QInv, VInv, FilesTyped, HistoryTyped
<1>2. ASSUME NEW j \in Jobs, Reads(j) PROVE HistoryTyped'
  BY <1>1, <1>2 DEF Reads, HistoryTyped
<1>3. ASSUME NEW j \in Jobs, NEW new \in SUBSET Items, Saves(j, new) PROVE HistoryTyped'
  BY <1>1, <1>3 DEF Saves, HistoryTyped
<1>4. CASE \E k \in Workers : WorkerStep(k)
  <2>1. PICK k \in Workers : WorkerStep(k)
    BY <1>4
  <2>2. w[k].job \in Jobs /\ w[k].held \in SUBSET Items /\ mem[w[k].job] \in SUBSET Items
    BY <1>1, Fields
  <2>3. CASE Defer(k) \/ Reprocess(k)
    BY <1>3, <2>2, <2>3 DEF Defer, Reprocess
  <2>4. CASE \E out \in [w[k].held -> Outcomes] : Commit(k, out)
    <3>1. PICK out \in [w[k].held -> Outcomes] : Commit(k, out)
      BY <2>4
    <3>2. PICK new : new = recorded \union {i \in w[k].held : out[i] = "ingested"}
      OBVIOUS
    <3>3. new \in SUBSET Items /\ Saves(w[k].job, new)
      BY <1>1, <2>2, <3>1, <3>2 DEF Commit
    <3>4. QED
      BY <1>3, <2>2, <3>3
  <2>5. CASE CommitCancelled(k) \/ CompileFails(k)
    BY <1>2, <2>2, <2>5 DEF CommitCancelled, CompileFails
  <2>6. CASE UNCHANGED history
    BY <1>1, <2>6 DEF history, HistoryTyped
  <2>7. QED
    BY <2>1, <2>3, <2>4, <2>5, <2>6 DEF WorkerStep
<1>5. CASE \E n \in 1..MaxSize : StartJob(n)
  <2>1. PICK id \in Jobs : Reads(id)
    BY <1>5 DEF StartJob
  <2>2. QED
    BY <1>2, <2>1
<1>6. CASE LoopStep
  BY <1>1, <1>6 DEF LoopStep, ResetLock, ResetWipe, history, HistoryTyped
<1>7. CASE Crash
  BY <1>1, <1>7 DEF Crash, HistoryTyped
<1>8. CASE UNCHANGED history
  BY <1>1, <1>8 DEF history, HistoryTyped
<1>9. CASE UNCHANGED vars
  BY <1>8, <1>9 DEF vars
<1>10. QED
  BY <1>4, <1>5, <1>6, <1>7, <1>8, <1>9 DEF Next

LEMMA InvHolds == Spec => []QInv
<1>1. Init => QInv
  BY InitTyped DEF QInv, HistoryTyped, Init
<1>2. QInv /\ [Next]_vars => QInv'
  BY StepKeeps, HistoryKeeps DEF QInv
<1>3. QED
  BY <1>1, <1>2, PTL DEF Spec

----------------------------------------------------------------------------
(* What follows.                                                             *)

LEMMA TypesFollow == QInv => TypeOK
<1> SUFFICES ASSUME QInv PROVE TypeOK
  OBVIOUS
<1>1. FilesTyped /\ JobsTyped /\ RunnersCounted /\ HistoryTyped
  BY DEF QInv, VInv
<1>2. runners \in 0..NWorkers
  <2>1. Past \in SUBSET Workers /\ runners = Cardinality(Past)
    BY <1>1 DEF Past, RunnersCounted
  <2>2. 1 \in Workers
    BY BoundsAssumption DEF Workers
  <2>3. Cardinality(Past) \in Nat /\ Cardinality(Past) <= NWorkers
    BY <2>1, <2>2, OneMore
  <2>4. QED
    BY <2>1, <2>3, Numbers
<1>3. ASSUME NEW k \in Workers
      PROVE  /\ w[k].pc \in Pcs /\ w[k].job \in Jobs /\ w[k].idx \in 0..(MaxSize - 1)
             /\ w[k].first \in BOOLEAN /\ w[k].held \subseteq Items
             /\ DOMAIN w[k].out \subseteq Items
             /\ \A i \in DOMAIN w[k].out : w[k].out[i] \in Outcomes
             /\ w[k].exn \in {"none", "cancel", "error"}
  <2>1. w[k] \in Record
    BY <1>1 DEF JobsTyped
  <2>2. w[k].idx \in 0..(MaxSize - 1)
    BY <2>1 DEF Record
  <2>3. QED
    BY <1>1, <2>2, Fields, OutFacts
<1>4. QED
  BY <1>1, <1>2, <1>3 DEF TypeOK, FilesTyped, JobsTyped, HistoryTyped, Entry, JobType

\* A worker that reprocesses the sources has seen the counter of its job at
\* zero, so nobody of its job is on the way to it; it is worker 0, so nobody
\* else of its job waits or reprocesses.
LEMMA TailFollows == VInv => TailAfterDrain
<1> SUFFICES ASSUME VInv, NEW k \in Workers, w[k].pc = "tail",
                    NEW v \in Workers, v # k, w[v].job = w[k].job
             PROVE  w[v].held = {} /\ w[v].pc \in {"raise", "exit"}
  BY DEF TailAfterDrain
<1>1. FilesTyped /\ JobsTyped /\ Shaped /\ Apart /\ CountedDown
  BY DEF VInv
<1>2. PICK j0 : j0 = w[k].job
  OBVIOUS
<1>3. j0 \in Jobs /\ j0 # 0 /\ w[k].idx = 0 /\ remaining[j0] = 0
  BY <1>1, <1>2, Fields DEF Shaped
<1>4. OfJob(j0) \in SUBSET Workers /\ IsFiniteSet(OfJob(j0)) /\ Cardinality(OfJob(j0)) \in Nat
  <2>1. OfJob(j0) \in SUBSET Workers
    BY DEF OfJob
  <2>2. QED
    BY <2>1, OneMore, FS_Subset, Numbers
<1>5. Cardinality(OfJob(j0)) <= 0
  BY <1>1, <1>3 DEF CountedDown
<1>6. OfJob(j0) = {}
  BY <1>4, <1>5, FS_EmptySet
<1>7. w[v].pc \notin Draining
  BY <1>2, <1>6 DEF OfJob
<1>8. w[v].pc \in Pcs
  BY <1>1, Fields
<1>9. w[v].pc # "off"
  <2>1. w[v].pc = "off" => w[v].job = 0
    BY <1>1 DEF Shaped, Idle
  <2>2. QED
    BY <1>2, <1>3, <2>1
<1>10. w[v].pc \notin {"wait", "tail"}
  BY <1>1, <1>2, <1>3, <1>9 DEF Shaped, Apart
<1>11. w[v].pc \notin Holding /\ w[v].held = {}
  BY <1>1, <1>7 DEF Shaped, Draining
<1>12. QED
  BY <1>7, <1>8, <1>9, <1>10, <1>11 DEF Pcs, Draining, Holding

\* The queue's entries, claims and counts agree with the workers, whatever
\* the workers, the event loop and the faults do (QueueIsSound).
THEOREM QueueStaysSound == Spec => []QueueIsSound
<1>1. QInv => QueueIsSound
  BY TypesFollow, TailFollows DEF QInv, VInv, QueueIsSound
<1>2. QED
  BY <1>1, InvHolds, PTL

\* A job that ended keeps its verdict until another is started or the vault is
\* wiped (VerdictStays).
THEOREM VerdictsStay == Spec => VerdictStays
<1> DEFINE Keeps == job.status \in {"success", "failed", "cancelled"} /\ job'.id = job.id
                      => job'.status = job.status
<1>1. ASSUME VInv, [Next]_vars PROVE Keeps
  <2>1. FilesTyped /\ JobsTyped /\ Shaped /\ JobIsTheirs
    BY <1>1 DEF VInv
  <2>2. CASE \E k \in Workers : WorkerStep(k)
    <3>1. job.status # "running" => job' = job
      BY <2>1, <2>2, StepTypes
    <3>2. QED
      BY <3>1
  <2>3. CASE \E n \in 1..MaxSize : StartJob(n)
    <3>1. PICK id \in Jobs \ {0} : size[id] = 0 /\ job' = NewJob(id)
      BY <2>3 DEF StartJob
    <3>2. job.id # id
      BY <2>1, <3>1 DEF JobIsTheirs
    <3>3. job'.id = id
      BY <3>1 DEF NewJob
    <3>4. QED
      BY <3>2, <3>3
  <2>4. CASE Crash \/ ResetWipe
    <3>1. job' = NewJob(0)
      BY <2>4 DEF Crash, ResetWipe
    <3>2. job'.id = 0
      BY <3>1 DEF NewJob
    <3>3. job.id = 0 => job.status = "idle"
      BY <2>1 DEF JobIsTheirs
    <3>4. QED
      BY <3>2, <3>3
  <2>5. CASE CancelJob
    BY <2>5 DEF CancelJob
  <2>6. CASE (\E i \in Items : Clip(i) \/ LeaseExpires(i)) \/ ClearQueued \/ ResetCheck \/ ResetLock
    BY <2>6 DEF Clip, LeaseExpires, ClearQueued, ResetCheck, ResetLock
  <2>7. CASE UNCHANGED vars
    BY <2>7 DEF vars
  <2>8. QED
    BY <1>1, <2>2, <2>3, <2>4, <2>5, <2>6, <2>7 DEF Next, Around, LoopStep
<1>2. QInv /\ [Next]_vars => [Keeps]_vars
  BY <1>1 DEF QInv
<1>3. QED
  BY <1>2, InvHolds, PTL DEF Spec, VerdictStays

----------------------------------------------------------------------------
(* The sources of what is ingested.                                          *)

Ingested(out) == {i \in DOMAIN out : out[i] = "ingested"}

\* What job j holds in memory has all of the manifest on disk that it has seen.
Covers(j) == recorded \ unseen[j] \subseteq mem[j]

\* The worker that marks entries has the manifest lock and has saved their sources,
\* which may have been dropped since by a job that saves without the lock.
FromSources ==
  /\ IngestedHasSource
  /\ \A j \in Jobs : size[j] # 0 => Covers(j)
  /\ \A k \in Workers :
       /\ w[k].pc \in {"commit", "compileFailed"} => manifestLock = k
       /\ w[k].pc = "commit" => Ingested(w[k].out) \subseteq recorded \union dropped

\* A save of what covers what its job has seen drops only what it has not seen.
LEMMA SaveCovers ==
  ASSUME NEW j \in Jobs, NEW new, Saves(j, new), recorded \ unseen[j] \subseteq new,
         mem'[j] = new, \A x \in Jobs \ {j} : mem'[x] = mem[x]
  PROVE  /\ recorded \union dropped \subseteq recorded' \union dropped'
         /\ \A x \in Jobs : x = j \/ Covers(x) => Covers(x)'
<1>1. recorded' = new /\ dropped' = (dropped \ new) \union (unseen[j] \intersect (recorded \ new))
  BY DEF Saves
<1>2. \A x \in Jobs : unseen'[x] = IF x = j THEN {} ELSE unseen[x] \union (new \ recorded)
  BY DEF Saves
<1>3. ASSUME NEW x \in Jobs, x = j \/ Covers(x) PROVE Covers(x)'
  <2>1. CASE x = j
    BY <1>1, <2>1 DEF Covers
  <2>2. CASE x # j
    <3>1. mem'[x] = mem[x] /\ unseen'[x] = unseen[x] \union (new \ recorded)
      BY <1>2, <2>2
    <3>2. QED
      BY <1>1, <1>3, <2>2, <3>1 DEF Covers
  <2>3. QED
    BY <2>1, <2>2
<1>4. QED
  BY <1>1, <1>3

\* Only a mark makes an entry ingested.
LEMMA MadeIngested ==
  ASSUME NEW q \in [Items -> Entry], NEW i \in Items
  PROVE  /\ \A held : GivenBack(q, held)[i].status = "ingested" => q[i].status = "ingested"
         /\ \A force : Rescued(q, force)[i].status = "ingested" => q[i].status = "ingested"
         /\ \A is : Claimed(q, is)[i].status = "ingested" => q[i].status = "ingested"
         /\ \A out \in Outs : Marked(q, out)[i].status = "ingested" =>
                                q[i].status = "ingested" \/ i \in Ingested(out)
<1>1. ASSUME NEW p, p[i] \in Entry, NEW held
      PROVE  GivenBack(p, held)[i].status = "ingested" => p[i].status = "ingested"
  BY <1>1 DEF GivenBack, Requeued, Entry
<1>2. \A force : Rescued(q, force)[i].status = "ingested" => q[i].status = "ingested"
  BY DEF Rescued, Requeued, Entry
<1>3. \A is : Claimed(q, is)[i].status = "ingested" => q[i].status = "ingested"
  BY DEF Claimed, Entry
<1>4. ASSUME NEW out \in Outs
      PROVE  Marked(q, out)[i].status = "ingested" => q[i].status = "ingested" \/ i \in Ingested(out)
  <2> DEFINE done == {j \in DOMAIN out : out[j] # "retry" /\ q[j].status # "gone"}
             q1 == [j \in Items |-> IF j \in done THEN [q[j] EXCEPT !.status = out[j], !.live = FALSE]
                                    ELSE q[j]]
             back == {j \in DOMAIN out : out[j] = "retry"}
  <2>1. i \in DOMAIN out => out[i] \in {"ingested", "rejected", "retry"}
    BY OutFacts DEF Outcomes
  <2>2. q1[i] = IF i \in done THEN [q[i] EXCEPT !.status = out[i], !.live = FALSE] ELSE q[i]
    OBVIOUS
  <2>3. q1[i] \in Entry /\ (q1[i].status = "ingested" => q[i].status = "ingested" \/ i \in Ingested(out))
    BY <2>1, <2>2 DEF Entry, Statuses, Ingested
  <2>4. Marked(q, out) = GivenBack(q1, back)
    BY DEF Marked
  <2> HIDE DEF q1
  <2>5. Marked(q, out)[i].status = "ingested" => q1[i].status = "ingested"
    BY <1>1, <2>3, <2>4
  <2>6. QED
    BY <2>3, <2>5
<1>5. QED
  BY <1>1, <1>2, <1>3, <1>4

\* A step of a worker: what goes from the manifest on disk is accounted for, and
\* only the holder of the manifest lock marks what it saved.
LEMMA WorkerSources ==
  ASSUME QInv, FromSources, NEW k \in Workers, WorkerStep(k)
  PROVE  FromSources'
<1>1. /\ FilesTyped /\ JobsTyped /\ Shaped /\ IngestedHasSource
      /\ queue \in [Items -> Entry] /\ mem \in [Jobs -> SUBSET Items] /\ recorded \in SUBSET Items
      /\ w \in [Workers -> Record] /\ unseen \in [Jobs -> SUBSET Items]
  BY DEF QInv, VInv, FilesTyped, JobsTyped, HistoryTyped, FromSources
<1>2. /\ w[k] \in Record /\ w[k].out \in Outs /\ w[k].held \in SUBSET Items
      /\ w[k].job \in Jobs /\ (w[k].pc # "off" => size[w[k].job] # 0 /\ Covers(w[k].job))
      /\ w[k].pc \in {"commit", "compileFailed"} => manifestLock = k
      /\ w[k].pc = "commit" => Ingested(w[k].out) \subseteq recorded \union dropped
  <2>1. w[k] \in Record /\ w[k].out \in Outs /\ w[k].held \in SUBSET Items /\ w[k].job \in Jobs
    BY <1>1, Fields
  <2>2. w[k].pc # "off" => w[k].job # 0 /\ size[w[k].job] # 0
    BY <1>1 DEF Shaped
  <2>3. QED
    BY <2>1, <2>2 DEF FromSources
<1>3. PICK new \in Record : Runs(k, new)
  BY <1>1, StepRuns
<1>4. w[k].pc # "off" /\ size' = size /\ w'[k] = new /\ (\A v \in Workers \ {k} : w'[v] = w[v])
  BY <1>1, <1>3 DEF Runs
<1>5. /\ recorded \union dropped \subseteq recorded' \union dropped'
      /\ \A x \in Jobs : size'[x] # 0 => Covers(x)'
  <2>0. \A x \in Jobs : size'[x] # 0 => Covers(x)
    BY <1>4 DEF FromSources
  <2>1. CASE Defer(k) \/ Reprocess(k)
    <3>1. Saves(w[k].job, mem[w[k].job]) /\ mem' = mem
      BY <2>1 DEF Defer, Reprocess
    <3>2. recorded \ unseen[w[k].job] \subseteq mem[w[k].job]
      BY <1>2, <1>4 DEF Covers
    <3>3. QED
      BY <1>2, <2>0, <3>1, <3>2, SaveCovers
  <2>2. CASE \E out \in [w[k].held -> Outcomes] : Commit(k, out)
    <3>1. PICK out \in [w[k].held -> Outcomes] : Commit(k, out)
      BY <2>2
    <3>2. PICK m : m = recorded \union {i \in w[k].held : out[i] = "ingested"}
      OBVIOUS
    <3>3. Saves(w[k].job, m) /\ mem' = [mem EXCEPT ![w[k].job] = m]
      BY <3>1, <3>2 DEF Commit
    <3>4. mem'[w[k].job] = m /\ (\A x \in Jobs \ {w[k].job} : mem'[x] = mem[x])
      BY <1>1, <1>2, <3>3
    <3>5. recorded \ unseen[w[k].job] \subseteq m
      BY <3>2
    <3>6. QED
      BY <1>2, <2>0, <3>3, <3>4, <3>5, SaveCovers
  <2>3. CASE CommitCancelled(k) \/ CompileFails(k)
    <3>1. PICK written : mem' = [mem EXCEPT ![w[k].job] = recorded \union written]
      BY <2>3 DEF CommitCancelled, CompileFails, Abandoned
    <3>2. recorded' = recorded /\ dropped' = dropped /\ unseen' = [unseen EXCEPT ![w[k].job] = {}]
      BY <2>3 DEF CommitCancelled, CompileFails, Reads
    <3>3. \A x \in Jobs : IF x = w[k].job THEN mem'[x] = recorded \union written
                            ELSE mem'[x] = mem[x] /\ unseen'[x] = unseen[x]
      BY <1>1, <1>2, <3>1, <3>2
    <3>4. QED
      BY <2>0, <3>2, <3>3 DEF Covers
  <2>4. CASE UNCHANGED <<recorded, mem>> /\ UNCHANGED history
    <3>1. \A x \in Jobs : Covers(x)' <=> Covers(x)
      BY <2>4 DEF history, Covers
    <3>2. QED
      BY <2>0, <2>4, <3>1 DEF history
  <2>5. Proceed(k) => UNCHANGED <<recorded, mem>>
    BY DEF Proceed, Boot, Rescue, StopDraining, ClaimChunk, MarkItems,
       GiveBackBatch, GiveBackChunk, MarkDrainDone, AllDrained, ReprocessStops, Raise, Exit
  <2>6. QED
    BY <2>1, <2>2, <2>3, <2>4, <2>5 DEF WorkerStep
<1>6. IngestedHasSource'
  <2>1. \A i \in Items : queue'[i].status = "ingested" => queue[i].status = "ingested" \/ i \in recorded \union dropped
    <3>1. CASE MarkItems(k)
      BY <1>1, <1>2, <3>1, MadeIngested DEF MarkItems
    <3>2. CASE Rescue(k)
      BY <1>1, <3>2, MadeIngested DEF Rescue
    <3>3. CASE ClaimChunk(k)
      BY <1>1, <3>3, MadeIngested DEF ClaimChunk
    <3>4. CASE Defer(k) \/ GiveBackBatch(k) \/ GiveBackChunk(k)
      BY <1>1, <3>4, MadeIngested DEF Defer, GiveBackBatch, GiveBackChunk
    <3>5. CASE UNCHANGED queue
      BY <3>5
    <3>6. QED
      BY <3>1, <3>2, <3>3, <3>4, <3>5 DEF WorkerStep, Proceed, Boot, StopDraining, Commit, CommitCancelled,
         CompileFails, MarkDrainDone, AllDrained, Reprocess, ReprocessStops, Raise, Exit
  <2>2. QED
    BY <1>1, <1>5, <2>1 DEF IngestedHasSource
<1>7. /\ \A v \in Workers \ {k} : manifestLock = v => manifestLock' = v
      /\ new.pc \in {"commit", "compileFailed"} => manifestLock' = k
      /\ new.pc = "commit" => Ingested(new.out) \subseteq recorded' \union dropped'
  <2>1. CASE \E out \in [w[k].held -> Outcomes] : Commit(k, out)
    <3>1. PICK out \in [w[k].held -> Outcomes] : Commit(k, out)
      BY <2>1
    <3>2. w'[k].out = out /\ manifestLock = NoOne /\ manifestLock' = k
          /\ recorded' = recorded \cup {i \in w[k].held : out[i] = "ingested"}
      BY <1>1, <1>2, <3>1 DEF Commit, Saves, Record
    <3>3. DOMAIN out = w[k].held
      BY <3>1
    <3>4. QED
      BY <1>4, <3>2, <3>3, Numbers DEF Ingested
  <2>2. CASE CompileFails(k)
    BY <1>1, <1>2, <1>4, <2>2, Numbers DEF CompileFails, Record
  <2>3. CASE MarkItems(k) \/ GiveBackBatch(k)
    BY <1>1, <1>2, <1>4, <2>3 DEF MarkItems, GiveBackBatch, GoTo, Record
  <2>4. CASE new.pc \notin {"commit", "compileFailed"} /\ UNCHANGED manifestLock
    BY <2>4
  <2>5. CASE \/ Boot(k) \/ Rescue(k) \/ StopDraining(k) \/ ClaimChunk(k) \/ Defer(k)
             \/ CommitCancelled(k) \/ GiveBackChunk(k) \/ MarkDrainDone(k) \/ AllDrained(k)
             \/ Reprocess(k) \/ ReprocessStops(k) \/ Raise(k) \/ Exit(k)
    <3>1. UNCHANGED manifestLock
      BY <2>5 DEF Boot, Rescue, StopDraining, ClaimChunk, Defer, CommitCancelled, GiveBackChunk,
         MarkDrainDone, AllDrained, Reprocess, ReprocessStops, Raise, Exit
    <3>2. new.pc \notin {"commit", "compileFailed"}
      <4>1. Idle.pc = "off"
        BY DEF Idle
      <4>2. CASE Boot(k) \/ Rescue(k) \/ StopDraining(k) \/ ClaimChunk(k) \/ Defer(k)
        BY <1>1, <1>2, <1>4, <4>2 DEF Boot, Rescue, StopDraining, ClaimChunk, Defer, GoTo, Record
      <4>3. CASE CommitCancelled(k) \/ GiveBackChunk(k) \/ MarkDrainDone(k) \/ AllDrained(k)
        BY <1>1, <1>2, <1>4, <4>3 DEF CommitCancelled, GiveBackChunk, MarkDrainDone, AllDrained,
           GoTo, Record
      <4>4. CASE Reprocess(k) \/ ReprocessStops(k) \/ Raise(k)
        BY <1>1, <1>2, <1>4, <4>4 DEF Reprocess, ReprocessStops, Raise, GoTo, Record
      <4>5. CASE Exit(k)
        BY <1>1, <1>2, <1>4, <4>1, <4>5 DEF Exit
      <4>6. QED
        BY <2>5, <4>2, <4>3, <4>4, <4>5
    <3>3. QED
      BY <2>4, <3>1, <3>2
  <2>6. QED
    BY <2>1, <2>2, <2>3, <2>5 DEF WorkerStep, Proceed
<1>8. QED
  <2>1. ASSUME NEW v \in Workers
        PROVE  /\ w'[v].pc \in {"commit", "compileFailed"} => manifestLock' = v
               /\ w'[v].pc = "commit" => Ingested(w'[v].out) \subseteq recorded' \union dropped'
    <3>1. CASE v = k
      BY <1>4, <1>7, <3>1
    <3>2. CASE v # k
      <4>1. /\ w[v].pc \in {"commit", "compileFailed"} => manifestLock = v
            /\ w[v].pc = "commit" => Ingested(w[v].out) \subseteq recorded \union dropped
        BY DEF FromSources
      <4>2. QED
        BY <1>4, <1>5, <1>7, <3>2, <4>1
    <3>3. QED
      BY <3>1, <3>2
  <2>2. \A v \in Workers : Ingested(w[v].out)' = Ingested(w'[v].out)
    BY DEF Ingested
  <2>3. QED
    BY <1>5, <1>6, <2>1, <2>2 DEF FromSources

LEMMA OtherSources ==
  ASSUME QInv, FromSources,
         \/ Around /\ UNCHANGED history
         \/ LoopStep
         \/ \E n \in 1..MaxSize : StartJob(n)
         \/ Crash
  PROVE  FromSources'
<1>1. /\ queue \in [Items -> Entry] /\ mem \in [Jobs -> SUBSET Items] /\ recorded \in SUBSET Items
      /\ size \in [Jobs -> 0..MaxSize] /\ w \in [Workers -> Record]
      /\ unseen \in [Jobs -> SUBSET Items]
  BY DEF QInv, VInv, FilesTyped, JobsTyped, HistoryTyped
<1>2. CASE Crash
  <2>1. Idle.pc = "off" /\ \A k \in Workers : w'[k] = Idle
    BY <1>2 DEF Crash, Idle
  <2>2. (\A j \in Jobs : size'[j] = 0) /\ IngestedHasSource'
    BY <1>1, <1>2 DEF Crash, FromSources, IngestedHasSource
  <2>3. QED
    BY <2>1, <2>2 DEF FromSources
<1>3. CASE \E n \in 1..MaxSize : StartJob(n)
  <2>1. PICK n \in 1..MaxSize : StartJob(n)
    BY <1>3
  <2>2. PICK id \in Jobs : /\ mem' = [mem EXCEPT ![id] = recorded] /\ size' = [size EXCEPT ![id] = n]
                          /\ unseen' = [unseen EXCEPT ![id] = {}]
                          /\ UNCHANGED <<queue, recorded, manifestLock, dropped>>
    BY <2>1 DEF StartJob, Reads
  <2>3. \A k \in Workers : w'[k] = w[k] \/ w'[k].pc = "boot"
    BY <2>1 DEF StartJob, Idle
  <2>4. \A j \in Jobs : size'[j] # 0 => Covers(j)'
    <3>1. ASSUME NEW j \in Jobs PROVE IF j = id THEN mem'[j] = recorded
                  ELSE mem'[j] = mem[j] /\ unseen'[j] = unseen[j] /\ size'[j] = size[j]
      BY <1>1, <2>2
    <3>2. QED
      BY <2>2, <3>1 DEF FromSources, Covers
  <2>5. IngestedHasSource'
    BY <2>2 DEF FromSources, IngestedHasSource
  <2>6. ASSUME NEW k \in Workers
        PROVE  /\ w'[k].pc \in {"commit", "compileFailed"} => manifestLock' = k
               /\ w'[k].pc = "commit" => Ingested(w'[k].out) \subseteq recorded' \union dropped'
    BY <2>2, <2>3 DEF FromSources
  <2>7. \A k \in Workers : Ingested(w[k].out)' = Ingested(w'[k].out)
    BY DEF Ingested
  <2>8. QED
    BY <2>4, <2>5, <2>6, <2>7 DEF FromSources
<1>4. CASE ResetWipe
  <2>1. IngestedHasSource'
    BY <1>1, <1>4 DEF ResetWipe, IngestedHasSource, Entry
  <2>2. recorded' = {} /\ UNCHANGED <<mem, size, w, manifestLock>> /\ manifestLock = NoOne
    BY <1>4 DEF ResetWipe
  <2>3. \A k \in Workers : w[k].pc \notin {"commit", "compileFailed"}
    BY <2>2, Numbers DEF FromSources
  <2>4. QED
    BY <2>1, <2>2, <2>3 DEF FromSources, Covers
<1>5. CASE (Around /\ UNCHANGED history) \/ ResetLock
  <2>1. UNCHANGED <<recorded, mem, size, w, manifestLock, unseen, dropped>>
    BY <1>5 DEF Around, Clip, LeaseExpires, ClearQueued, CancelJob, ResetCheck, ResetLock, history
  <2>2. \A i \in Items : queue'[i].status = "ingested" => queue[i].status = "ingested"
    <3>1. CASE \E i \in Items : Clip(i) \/ LeaseExpires(i)
      BY <1>1, <3>1 DEF Clip, LeaseExpires, Entry
    <3>2. CASE ClearQueued
      BY <1>1, <3>2 DEF ClearQueued, Entry
    <3>3. CASE CancelJob \/ ResetCheck \/ ResetLock
      BY <3>3 DEF CancelJob, ResetCheck, ResetLock
    <3>4. QED
      BY <1>5, <3>1, <3>2, <3>3 DEF Around
  <2>3. \A k \in Workers : Ingested(w[k].out)' = Ingested(w[k].out)
    BY <2>1 DEF Ingested
  <2>4. IngestedHasSource'
    BY <2>1, <2>2 DEF FromSources, IngestedHasSource
  <2>5. QED
    BY <2>1, <2>3, <2>4 DEF FromSources, Covers
<1>6. QED
  BY <1>2, <1>3, <1>4, <1>5 DEF LoopStep

\* With any number of jobs beside each other, an entry is marked ingested only when
\* the manifest on disk has its source, also after a crash between the two writes and
\* after a restart, unless another job saved a manifest that it had read before the
\* source was recorded (IngestedHasSource).
THEOREM SourcesAreThere == Spec => []IngestedHasSource
<1>1. Init => FromSources
  <2> SUFFICES ASSUME Init PROVE FromSources
    OBVIOUS
  <2>1. Idle.pc = "off" /\ \A k \in Workers : w[k] = Idle
    BY DEF Init, Idle
  <2>2. (\A j \in Jobs : size[j] = 0) /\ IngestedHasSource
    BY DEF Init, IngestedHasSource
  <2>3. QED
    BY <2>1, <2>2 DEF FromSources
<1>2. ASSUME QInv, FromSources, [Next]_vars PROVE FromSources'
  <2>1. CASE \E k \in Workers : WorkerStep(k)
    BY <1>2, <2>1, WorkerSources
  <2>2. CASE UNCHANGED vars
    <3>1. \A k \in Workers : Ingested(w[k].out)' = Ingested(w[k].out)
      BY <2>2 DEF vars, Ingested
    <3>2. QED
      BY <1>2, <2>2, <3>1 DEF vars, history, FromSources, IngestedHasSource, Covers
  <2>3. CASE ~(\E k \in Workers : WorkerStep(k)) /\ Next
    BY <1>2, <2>3, OtherSources DEF Next
  <2>4. QED
    BY <1>2, <2>1, <2>2, <2>3
<1>3. QInv /\ FromSources /\ [Next]_vars => FromSources'
  BY <1>2
<1>4. FromSources => IngestedHasSource
  BY DEF FromSources
<1>5. QED
  BY <1>1, <1>3, <1>4, InvHolds, PTL DEF Spec

----------------------------------------------------------------------------
(* The pages.  The inductive invariant relates the copies of the manifest to *)
(* what they were read from (Copies), says what of a copy is ahead of the     *)
(* disk (NotAhead), and that the pages of what a job will record are written  *)
(* (PageIsWritten, NamesHavePages); a route that goes on to delete pages has  *)
(* them for itself, or has missed a runner (Watched).                         *)

Manifests == [rec : [Sources -> [status : PageStatuses, hash : 0..MaxVersion, refs : SUBSET Names]],
              out : [Entities -> {"in", "noise"} \cup Entities]]
Bundle == [src : Sources \cup {"none"}, content : 0..MaxVersion, refs : SUBSET Names, trusted : BOOLEAN]
Busy == {"fetched", "written", "compiled", "report"}

PgTyped ==
  /\ web \in [Sources -> 1..MaxVersion] /\ own \in [Sources -> 0..MaxVersion]
  /\ disk \in Manifests /\ backing \in [Names -> SUBSET Sources]
  /\ jb \in [pc : JobPcs, mem : Manifests, base : Manifests, bundle : Bundle,
             todo : SUBSET Sources, force : BOOLEAN]
  /\ jb.pc \in Busy => jb.bundle.src \in Sources
  /\ rt \in [pc : {"idle", "dismiss", "restore", "refresh", "clean", "prune", "prune2"},
             mem : Manifests, base : Manifests, missed : BOOLEAN]
  /\ preview \in SUBSET Names /\ lost \in BOOLEAN /\ torn \in BOOLEAN

\* What a copy that is being worked on still has of its original.
Kin(c, b) == /\ c.out = b.out
             /\ \A s \in Sources : /\ c.rec[s].hash = b.rec[s].hash
                                   /\ b.rec[s].status # "none" => c.rec[s].status # "none"
Copies == /\ rt.mem = rt.base /\ Kin(jb.mem, jb.base)
          /\ jb.pc \in {"off", "boot", "clean"} => jb.mem = jb.base

\* A hash belongs to a recorded source, and to a content that it has shown.
Recorded(m) == \A s \in Sources : /\ m.rec[s].hash # 0 => m.rec[s].status # "none"
                                  /\ m.rec[s].hash <= web[s]
Shown == /\ Recorded(disk) /\ Recorded(jb.mem) /\ Recorded(rt.mem)
         /\ jb.pc \in Busy => jb.bundle.content <= web[jb.bundle.src]

\* A route at its second step has the pages for itself, or has missed a runner.
Watched == rt.pc \in {"clean", "prune2"} /\ ~rt.missed => ~Counted

\* The manifest does not go ahead of a job that has not looked at it yet.
NotAhead ==
  ~lost =>
    /\ jb.pc \in {"boot", "clean"} =>
         \A s \in Sources :
           /\ disk.rec[s].status # "none" => jb.mem.rec[s].status # "none"
           /\ \A n \in disk.rec[s].refs : n.kind = "concept" => n \in jb.mem.rec[s].refs
    /\ jb.pc = "fetched" => disk.rec[jb.bundle.src].hash <= jb.bundle.content

\* The page of the source that is being ingested is there, and so are those of the
\* concepts that the job will record, unless the manifest has dropped them.
PageIsWritten ==
  Undisturbed /\ jb.pc \in {"written", "compiled"} /\ jb.mem.rec[jb.bundle.src].status = "ingested" =>
    own[jb.bundle.src] >= jb.bundle.content
NamesHavePages ==
  Undisturbed => \A s \in Sources : \A n \in jb.mem.rec[s].refs :
    n.kind = "concept" => \/ backing[n] # {}
                          \/ n \in jb.base.rec[s].refs /\ n \notin disk.rec[s].refs

PgInv == /\ PgTyped /\ Copies /\ Shown /\ Watched /\ NotAhead /\ PageIsWritten /\ NamesHavePages
         /\ OwnPagesStay /\ ConceptsHavePages

LEMMA PgBounds == /\ MaxVersion \in Nat /\ MaxVersion >= 1 /\ 0 \in 0..MaxVersion
                  /\ \A n \in Names : n.slug \notin {"in", "noise"}
                  /\ \A n \in Names : n.kind \in {"entity", "concept"} /\ n = [kind |-> n.kind, slug |-> n.slug]
  BY PagesAssumption

\* A dismissed entity has a name, and is not one of the marks.
LEMMA EntityFacts ==
  \A e \in Entities : Entity(e) \in Names /\ Entity(e).kind = "entity" /\ e \notin {"in", "noise"}
<1> TAKE e \in Entities
<1>1. PICK n \in Names : n.kind = "entity" /\ n.slug = e
  BY DEF Entities
<1>2. n = [kind |-> n.kind, slug |-> n.slug] /\ n.slug \notin {"in", "noise"}
  BY PgBounds
<1>3. QED
  BY <1>1, <1>2 DEF Entity

\* What a manifest is after one field of one record was written.
LEMMA WriteStatus ==
  ASSUME NEW m \in Manifests, NEW s \in Sources, NEW x \in PageStatuses, NEW c, c = [m EXCEPT !.rec[s].status = x]
  PROVE  /\ c \in Manifests /\ c.out = m.out
         /\ \A t \in Sources : /\ c.rec[t].status = (IF t = s THEN x ELSE m.rec[t].status)
                               /\ c.rec[t].hash = m.rec[t].hash
                               /\ c.rec[t].refs = m.rec[t].refs
<1>1. m.rec \in [Sources -> [status : PageStatuses, hash : 0..MaxVersion, refs : SUBSET Names]]
  BY DEF Manifests
<1>2. QED
  BY <1>1 DEF Manifests

LEMMA WriteHash ==
  ASSUME NEW m \in Manifests, NEW s \in Sources, NEW x \in 0..MaxVersion, NEW c, c = [m EXCEPT !.rec[s].hash = x]
  PROVE  /\ c \in Manifests /\ c.out = m.out
         /\ \A t \in Sources : /\ c.rec[t].status = m.rec[t].status
                               /\ c.rec[t].hash = (IF t = s THEN x ELSE m.rec[t].hash)
                               /\ c.rec[t].refs = m.rec[t].refs
<1>1. m.rec \in [Sources -> [status : PageStatuses, hash : 0..MaxVersion, refs : SUBSET Names]]
  BY DEF Manifests
<1>2. QED
  BY <1>1 DEF Manifests

\* What the routes make of a copy: hashes and statuses stay, no concept is added.
LEMMA RouteCopies ==
  ASSUME NEW m \in Manifests
  PROVE  /\ \A e \in Entities, alias \in Entities \cup {"noise"} :
              /\ Dismissed(m, e, alias) \in Manifests
              /\ \A s \in Sources :
                   /\ Dismissed(m, e, alias).rec[s].hash = m.rec[s].hash
                   /\ Dismissed(m, e, alias).rec[s].status = m.rec[s].status
                   /\ \A n \in Dismissed(m, e, alias).rec[s].refs : n.kind = "concept" => n \in m.rec[s].refs
         /\ \A flagged \in SUBSET Names :
              /\ Pruned(m, flagged) \in Manifests
              /\ \A s \in Sources :
                   /\ Pruned(m, flagged).rec[s].hash = m.rec[s].hash
                   /\ Pruned(m, flagged).rec[s].status = m.rec[s].status
                   /\ Pruned(m, flagged).rec[s].refs = m.rec[s].refs \ flagged
         /\ \A e \in Entities : /\ [m EXCEPT !.out[e] = "in"] \in Manifests
                                /\ [m EXCEPT !.out[e] = "in"].rec = m.rec
<1>1. m.rec \in [Sources -> [status : PageStatuses, hash : 0..MaxVersion, refs : SUBSET Names]]
      /\ m.out \in [Entities -> {"in", "noise"} \cup Entities]
  BY DEF Manifests
<1>2. ASSUME NEW e \in Entities, NEW alias \in Entities \cup {"noise"}
      PROVE  /\ Dismissed(m, e, alias) \in Manifests
             /\ \A s \in Sources :
                  /\ Dismissed(m, e, alias).rec[s].hash = m.rec[s].hash
                  /\ Dismissed(m, e, alias).rec[s].status = m.rec[s].status
                  /\ \A n \in Dismissed(m, e, alias).rec[s].refs : n.kind = "concept" => n \in m.rec[s].refs
  <2> DEFINE now(s) == (m.rec[s].refs \ {Entity(e)}) \cup (IF alias = "noise" THEN {} ELSE {Entity(alias)})
             row(s) == IF Entity(e) \in m.rec[s].refs THEN [m.rec[s] EXCEPT !.refs = now(s)] ELSE m.rec[s]
  <2>1. ASSUME NEW s \in Sources
        PROVE  now(s) \in SUBSET Names /\ \A n \in now(s) : n.kind = "concept" => n \in m.rec[s].refs
    BY <1>1, <2>1, EntityFacts
  <2>2. Dismissed(m, e, alias).rec = [s \in Sources |-> row(s)]
        /\ Dismissed(m, e, alias).out = [m.out EXCEPT ![e] = alias]
        /\ Dismissed(m, e, alias) = [rec |-> [s \in Sources |-> row(s)], out |-> [m.out EXCEPT ![e] = alias]]
    BY DEF Dismissed, Manifest
  <2> HIDE DEF now
  <2>3. ASSUME NEW s \in Sources
        PROVE  /\ row(s) \in [status : PageStatuses, hash : 0..MaxVersion, refs : SUBSET Names]
               /\ row(s).hash = m.rec[s].hash /\ row(s).status = m.rec[s].status
               /\ \A n \in row(s).refs : n.kind = "concept" => n \in m.rec[s].refs
    BY <1>1, <2>1, <2>3
  <2> HIDE DEF row
  <2>4. Dismissed(m, e, alias) \in Manifests
    BY <1>1, <2>2, <2>3 DEF Manifests
  <2>5. QED
    BY <2>2, <2>3, <2>4
<1>3. ASSUME NEW flagged \in SUBSET Names
      PROVE  /\ Pruned(m, flagged) \in Manifests
             /\ \A s \in Sources :
                  /\ Pruned(m, flagged).rec[s].hash = m.rec[s].hash
                  /\ Pruned(m, flagged).rec[s].status = m.rec[s].status
                  /\ Pruned(m, flagged).rec[s].refs = m.rec[s].refs \ flagged
  BY <1>1 DEF Pruned, Manifest, Manifests
<1>4. ASSUME NEW e \in Entities
      PROVE  /\ [m EXCEPT !.out[e] = "in"] \in Manifests
             /\ [m EXCEPT !.out[e] = "in"].rec = m.rec
  BY <1>1 DEF Manifests
<1>5. QED
  BY <1>2, <1>3, <1>4

\* The parts of a typed state.
LEMMA PgFields ==
  ASSUME PgTyped
  PROVE  /\ disk \in Manifests /\ jb.mem \in Manifests /\ jb.base \in Manifests
         /\ rt.mem \in Manifests /\ rt.base \in Manifests
         /\ jb.pc \in JobPcs /\ jb.bundle \in Bundle /\ jb.todo \in SUBSET Sources
         /\ jb.force \in BOOLEAN /\ rt.missed \in BOOLEAN
         /\ jb.bundle.content \in 0..MaxVersion /\ jb.bundle.refs \in SUBSET Names
         /\ jb.pc \in Busy => jb.bundle.src \in Sources
  BY DEF PgTyped, Bundle

LEMMA Parts ==
  ASSUME NEW m \in Manifests, NEW s \in Sources
  PROVE  /\ m.rec[s].hash \in 0..MaxVersion /\ m.rec[s].refs \in SUBSET Names
         /\ m.rec[s].status \in PageStatuses
  BY DEF Manifests

LEMMA Blank ==
  /\ Empty \in Manifests /\ NoBundle \in Bundle
  /\ NoJob.mem = Empty /\ NoJob.base = Empty /\ NoJob.pc = "off" /\ NoJob.bundle = NoBundle
  /\ NoRoute.mem = Empty /\ NoRoute.base = Empty /\ NoRoute.pc = "idle" /\ ~NoRoute.missed
  /\ \A s \in Sources : /\ Empty.rec[s].hash = 0 /\ Empty.rec[s].refs = {} /\ Empty.rec[s].status = "none"
  BY PgBounds DEF Empty, Manifest, Manifests, NoRecord, PageStatuses, NoBundle, Bundle, NoJob, NoRoute

LEMMA BootKeeps == ASSUME PgInv, BootRunner PROVE PgInv'
<1>0. /\ PgTyped /\ Copies /\ Shown /\ Watched /\ NotAhead /\ PageIsWritten /\ NamesHavePages
      /\ OwnPagesStay /\ ConceptsHavePages
  BY DEF PgInv
<1>1. /\ jb.pc = "boot" /\ jb' = [jb EXCEPT !.pc = "clean"]
      /\ rt' = [rt EXCEPT !.missed = @ \/ rt.pc # "idle"]
      /\ UNCHANGED <<web, disk, own, backing, preview, lost, torn>>
  BY DEF BootRunner
<1>2. /\ jb'.pc = "clean" /\ jb'.mem = jb.mem /\ jb'.base = jb.base /\ jb'.bundle = jb.bundle
      /\ rt'.pc = rt.pc /\ rt'.mem = rt.mem /\ rt'.base = rt.base
      /\ rt'.pc # "idle" => rt'.missed
  BY <1>0, <1>1 DEF PgTyped
<1>3. PgTyped'
  <2>1. jb' \in [pc : JobPcs, mem : Manifests, base : Manifests, bundle : Bundle,
                 todo : SUBSET Sources, force : BOOLEAN]
    BY <1>0, <1>1 DEF PgTyped, JobPcs
  <2>2. (rt.missed \/ rt.pc # "idle") \in BOOLEAN
    OBVIOUS
  <2>3. rt' \in [pc : {"idle", "dismiss", "restore", "refresh", "clean", "prune", "prune2"},
                 mem : Manifests, base : Manifests, missed : BOOLEAN]
    BY <1>0, <1>1, <2>2 DEF PgTyped
  <2>4. QED
    BY <1>0, <1>1, <1>2, <2>1, <2>3 DEF PgTyped, Busy
<1>4. Copies' /\ Shown' /\ Watched'
  BY <1>0, <1>1, <1>2 DEF Copies, Kin, Shown, Recorded, Watched, Busy
<1>5. NotAhead' /\ PageIsWritten' /\ NamesHavePages' /\ OwnPagesStay' /\ ConceptsHavePages'
  BY <1>0, <1>1, <1>2 DEF NotAhead, PageIsWritten, NamesHavePages, OwnPagesStay, ConceptsHavePages, Undisturbed
<1>6. QED
  BY <1>3, <1>4, <1>5 DEF PgInv

\* The parts of the invariant.
LEMMA PgParts ==
  ASSUME PgInv
  PROVE  /\ PgTyped /\ Copies /\ Shown /\ Watched /\ NotAhead /\ PageIsWritten /\ NamesHavePages
         /\ OwnPagesStay /\ ConceptsHavePages
         /\ disk \in Manifests /\ jb.mem \in Manifests /\ jb.base \in Manifests
         /\ rt.mem \in Manifests /\ rt.base \in Manifests
         /\ web \in [Sources -> 1..MaxVersion] /\ own \in [Sources -> 0..MaxVersion]
         /\ backing \in [Names -> SUBSET Sources]
  BY PgFields DEF PgInv, PgTyped

LEMMA StartIngestKeeps == ASSUME PgInv, NEW force \in BOOLEAN, StartIngest(force) PROVE PgInv'
<1>0. /\ PgTyped /\ Copies /\ Shown /\ Watched /\ NotAhead /\ PageIsWritten /\ NamesHavePages
      /\ OwnPagesStay /\ ConceptsHavePages /\ disk \in Manifests
  BY PgParts
<1>1. /\ jb.pc = "off" /\ rt.pc = "idle"
      /\ jb' = [pc |-> "boot", mem |-> disk, base |-> disk, bundle |-> NoBundle, todo |-> {}, force |-> force]
      /\ UNCHANGED <<web, disk, own, backing, rt, preview, lost, torn>>
  BY DEF StartIngest, NoJob
<1>2. jb'.pc = "boot" /\ jb'.mem = disk /\ jb'.base = disk
  BY <1>1
<1>3. PgTyped'
  BY <1>0, <1>1, Blank DEF PgTyped, JobPcs, Busy
<1>4. Copies' /\ Shown' /\ Watched'
  BY <1>0, <1>1, <1>2 DEF Copies, Kin, Shown, Recorded, Watched, Busy
<1>5. NotAhead' /\ PageIsWritten' /\ OwnPagesStay' /\ ConceptsHavePages'
  BY <1>0, <1>1, <1>2 DEF NotAhead, PageIsWritten, OwnPagesStay, ConceptsHavePages, Undisturbed
<1>6. NamesHavePages'
  BY <1>0, <1>1, <1>2 DEF NamesHavePages, ConceptsHavePages, Undisturbed
<1>7. QED
  BY <1>3, <1>4, <1>5, <1>6 DEF PgInv

LEMMA FetchKeeps ==
  ASSUME PgInv, NEW s \in Sources, NEW refs \in SUBSET Names, NEW trusted \in BOOLEAN,
         Fetch(s, refs, trusted)
  PROVE  PgInv'
<1>0. /\ PgTyped /\ Copies /\ Shown /\ Watched /\ NotAhead /\ PageIsWritten /\ NamesHavePages
      /\ OwnPagesStay /\ ConceptsHavePages /\ web \in [Sources -> 1..MaxVersion]
  BY PgParts
<1> DEFINE b == [src |-> s, content |-> web[s], refs |-> refs, trusted |-> trusted]
<1>1. /\ jb.pc = "drain" /\ jb' = [jb EXCEPT !.pc = "fetched", !.bundle = b]
      /\ UNCHANGED <<web, disk, own, backing, rt, preview, lost, torn>>
  BY DEF Fetch
<1>2. /\ jb'.pc = "fetched" /\ jb'.mem = jb.mem /\ jb'.base = jb.base /\ jb'.bundle = b
      /\ b.src = s /\ b.content = web[s] /\ b \in Bundle
  <2>1. web[s] \in 0..MaxVersion
    BY <1>0, PgBounds
  <2>2. QED
    BY <1>0, <1>1, <2>1 DEF PgTyped, Bundle
<1> HIDE DEF b
<1>3. PgTyped'
  BY <1>0, <1>1, <1>2 DEF PgTyped, JobPcs, Busy
<1>4. Copies' /\ Shown' /\ Watched'
  <2>1. jb'.bundle.content <= web'[jb'.bundle.src]
    BY <1>0, <1>1, <1>2, PgBounds
  <2>2. QED
    BY <1>0, <1>1, <1>2, <2>1 DEF Copies, Kin, Shown, Recorded, Watched, Counted
<1>5. NotAhead'
  BY <1>0, <1>1, <1>2 DEF NotAhead, Shown, Recorded
<1>6. PageIsWritten' /\ OwnPagesStay' /\ ConceptsHavePages' /\ NamesHavePages'
  BY <1>0, <1>1, <1>2 DEF PageIsWritten, OwnPagesStay, ConceptsHavePages, NamesHavePages, Undisturbed
<1>7. QED
  BY <1>3, <1>4, <1>5, <1>6 DEF PgInv

LEMMA ReportKeeps == ASSUME PgInv, Report PROVE PgInv'
<1>0. /\ PgTyped /\ Copies /\ Shown /\ Watched /\ NotAhead /\ PageIsWritten /\ NamesHavePages
      /\ OwnPagesStay /\ ConceptsHavePages /\ disk \in Manifests
  BY PgParts
<1>1. /\ jb.pc = "report"
      /\ jb' = [jb EXCEPT !.pc = "drain", !.mem = disk, !.base = disk, !.bundle = NoBundle]
      /\ UNCHANGED <<web, disk, own, backing, rt, preview, lost, torn>>
  BY DEF Report, Reload
<1>2. jb'.pc = "drain" /\ jb'.mem = disk /\ jb'.base = disk
  BY <1>0, <1>1 DEF PgTyped
<1>3. PgTyped'
  BY <1>0, <1>1, <1>2, Blank DEF PgTyped, JobPcs, Busy
<1>4. Copies' /\ Shown' /\ Watched'
  BY <1>0, <1>1, <1>2 DEF Copies, Kin, Shown, Recorded, Watched, Counted, Busy
<1>5. NotAhead' /\ PageIsWritten' /\ OwnPagesStay' /\ ConceptsHavePages'
  BY <1>0, <1>1, <1>2 DEF NotAhead, PageIsWritten, OwnPagesStay, ConceptsHavePages, Undisturbed
<1>6. NamesHavePages'
  BY <1>0, <1>1, <1>2 DEF NamesHavePages, ConceptsHavePages, Undisturbed
<1>7. QED
  BY <1>3, <1>4, <1>5, <1>6 DEF PgInv

LEMMA DrainedKeeps == ASSUME PgInv, Drained PROVE PgInv'
<1>0. /\ PgTyped /\ Copies /\ Shown /\ Watched /\ NotAhead /\ PageIsWritten /\ NamesHavePages
      /\ OwnPagesStay /\ ConceptsHavePages
  BY PgParts
<1>1. /\ jb.pc = "drain" /\ \E todo \in SUBSET Sources : jb' = [jb EXCEPT !.pc = "tail", !.todo = todo]
      /\ UNCHANGED <<web, disk, own, backing, rt, preview, lost, torn>>
  BY DEF Drained
<1>2. jb'.pc = "tail" /\ jb'.mem = jb.mem /\ jb'.base = jb.base
  BY <1>0, <1>1 DEF PgTyped
<1>3. PgTyped'
  BY <1>0, <1>1, <1>2 DEF PgTyped, JobPcs, Busy
<1>4. Copies' /\ Shown' /\ Watched'
  BY <1>0, <1>1, <1>2 DEF Copies, Kin, Shown, Recorded, Watched, Counted, Busy
<1>5. NotAhead' /\ PageIsWritten' /\ OwnPagesStay' /\ ConceptsHavePages' /\ NamesHavePages'
  BY <1>0, <1>1, <1>2 DEF NotAhead, PageIsWritten, OwnPagesStay, ConceptsHavePages, NamesHavePages,
     Undisturbed
<1>6. QED
  BY <1>3, <1>4, <1>5 DEF PgInv

LEMMA JobStopsKeeps == ASSUME PgInv, JobStops PROVE PgInv'
<1>0. /\ PgTyped /\ Copies /\ Shown /\ Watched /\ NotAhead /\ PageIsWritten /\ NamesHavePages
      /\ OwnPagesStay /\ ConceptsHavePages /\ web \in [Sources -> 1..MaxVersion]
  BY PgParts
<1>1. jb' = NoJob /\ UNCHANGED <<web, disk, own, backing, rt, preview, lost, torn>>
  BY DEF JobStops
<1>2. jb'.pc = "off" /\ jb'.mem = Empty /\ jb'.base = Empty
  BY <1>1, Blank
<1>3. PgTyped'
  BY <1>0, <1>1, <1>2, Blank DEF PgTyped, JobPcs, Busy, NoJob
<1>4. Copies' /\ Watched'
  BY <1>0, <1>1, <1>2 DEF Copies, Kin, Watched, Counted
<1>5. Shown'
  BY <1>0, <1>1, <1>2, Blank, PgBounds DEF Shown, Recorded, Busy
<1>6. NotAhead' /\ PageIsWritten' /\ OwnPagesStay' /\ ConceptsHavePages'
  BY <1>0, <1>1, <1>2 DEF NotAhead, PageIsWritten, OwnPagesStay, ConceptsHavePages, Undisturbed
<1>7. NamesHavePages'
  BY <1>2, Blank DEF NamesHavePages
<1>8. QED
  BY <1>3, <1>4, <1>5, <1>6, <1>7 DEF PgInv

\* A cleanup keeps the pages of the concepts that its copy names.
LEMMA KeptPages ==
  ASSUME NEW m \in Manifests, NEW s \in Sources, NEW n \in m.rec[s].refs, n.kind = "concept"
  PROVE  n \in Kept(m)
<1>1. n \notin {Entity(e) : e \in {d \in Entities : m.out[d] # "in"}}
  BY EntityFacts
<1>2. n \in UNION {m.rec[t].refs : t \in Sources}
  OBVIOUS
<1> DEFINE Named == UNION {m.rec[t].refs : t \in Sources}
           Out == {Entity(e) : e \in {d \in Entities : m.out[d] # "in"}}
<1>3. Kept(m) = Named \ Out
  BY DEF Kept
<1>4. n \in Named /\ n \notin Out
  BY <1>1, <1>2
<1> HIDE DEF Named, Out
<1>5. QED
  BY <1>3, <1>4

LEMMA JobCleansUpKeeps == ASSUME PgInv, JobCleansUp PROVE PgInv'
<1>0. /\ PgTyped /\ Copies /\ Shown /\ Watched /\ NotAhead /\ PageIsWritten /\ NamesHavePages
      /\ OwnPagesStay /\ ConceptsHavePages /\ disk \in Manifests /\ jb.mem \in Manifests
      /\ own \in [Sources -> 0..MaxVersion] /\ backing \in [Names -> SUBSET Sources]
  BY PgParts
<1>1. /\ jb.pc = "clean" /\ jb' = [jb EXCEPT !.pc = "drain"]
      /\ own' = [s \in Sources |-> IF jb.mem.rec[s].status = "none" THEN 0 ELSE own[s]]
      /\ backing' = [n \in Names |-> IF n \in Kept(jb.mem) THEN backing[n] ELSE {}]
      /\ UNCHANGED <<web, disk, rt, preview, lost, torn>>
  BY DEF JobCleansUp, CleanUp
<1>2. jb'.pc = "drain" /\ jb'.mem = jb.mem /\ jb'.base = jb.base /\ jb'.bundle = jb.bundle
  BY <1>0, <1>1 DEF PgTyped
<1>3. PgTyped'
  <2>1. own' \in [Sources -> 0..MaxVersion] /\ backing' \in [Names -> SUBSET Sources]
    BY <1>0, <1>1, PgBounds
  <2>2. jb' \in [pc : JobPcs, mem : Manifests, base : Manifests, bundle : Bundle,
                 todo : SUBSET Sources, force : BOOLEAN]
    BY <1>0, <1>1 DEF PgTyped, JobPcs
  <2>3. QED
    BY <1>0, <1>1, <1>2, <2>1, <2>2 DEF PgTyped, Busy
<1>4. Copies' /\ Shown' /\ Watched'
  BY <1>0, <1>1, <1>2 DEF Copies, Kin, Shown, Recorded, Watched, Counted, Busy
<1>5. NotAhead' /\ PageIsWritten'
  BY <1>2 DEF NotAhead, PageIsWritten
<1>6. OwnPagesStay'
  <2>1. ASSUME Undisturbed, NEW s \in Sources PROVE own'[s] >= disk.rec[s].hash
    <3>1. own[s] >= disk.rec[s].hash
      BY <1>0, <2>1 DEF OwnPagesStay
    <3>2. disk.rec[s].hash # 0 => jb.mem.rec[s].status # "none"
      BY <1>0, <1>1, <2>1 DEF Undisturbed, NotAhead, Shown, Recorded
    <3>3. disk.rec[s].hash \in 0..MaxVersion
      BY <1>0, Parts
    <3>4. QED
      BY <1>1, <3>1, <3>2, <3>3, PgBounds
  <2>2. QED
    BY <1>1, <2>1 DEF OwnPagesStay, Undisturbed
<1>7. ASSUME NEW s \in Sources, NEW n \in jb.mem.rec[s].refs, n.kind = "concept"
      PROVE  n \in Names /\ backing'[n] = backing[n]
  <2>1. n \in Names
    BY <1>0, Parts
  <2>2. QED
    BY <1>0, <1>1, <1>7, <2>1, KeptPages
<1>8. NamesHavePages'
  BY <1>0, <1>1, <1>2, <1>7 DEF NamesHavePages, Undisturbed
<1>9. ConceptsHavePages'
  <2>1. ASSUME Undisturbed, NEW s \in Sources, NEW n \in disk.rec[s].refs, n.kind = "concept"
        PROVE  backing'[n] # {}
    <3>1. n \in jb.mem.rec[s].refs
      BY <1>0, <1>1, <2>1 DEF Undisturbed, NotAhead
    <3>2. QED
      BY <1>0, <1>7, <2>1, <3>1 DEF ConceptsHavePages
  <2>2. QED
    BY <1>1, <2>1 DEF ConceptsHavePages, Undisturbed
<1>10. QED
  BY <1>3, <1>4, <1>5, <1>6, <1>8, <1>9 DEF PgInv

\* Support only adds to the pages.
LEMMA SupportAdds ==
  ASSUME backing \in [Names -> SUBSET Sources], NEW refs \in SUBSET Names, NEW s \in Sources
  PROVE  /\ Supported(refs, s) \in [Names -> SUBSET Sources]
         /\ \A n \in Names : backing[n] # {} => Supported(refs, s)[n] # {}
         /\ \A n \in refs : Supported(refs, s)[n] # {}
  BY DEF Supported

LEMMA WritePagesKeeps == ASSUME PgInv, WritePages PROVE PgInv'
<1>0. /\ PgTyped /\ Copies /\ Shown /\ Watched /\ NotAhead /\ PageIsWritten /\ NamesHavePages
      /\ OwnPagesStay /\ ConceptsHavePages /\ disk \in Manifests /\ jb.mem \in Manifests
      /\ own \in [Sources -> 0..MaxVersion] /\ backing \in [Names -> SUBSET Sources]
  BY PgParts
<1> DEFINE b == jb.bundle
           status == CASE disk.rec[b.src].hash = b.content -> "unchanged"
                       [] disk.rec[b.src].hash # b.content /\ ~b.trusted -> "rejected"
                       [] OTHER -> "ingested"
           m == [disk EXCEPT !.rec[b.src].status = status]
<1>1. /\ jb.pc = "fetched" /\ jb' = [jb EXCEPT !.pc = "written", !.base = disk, !.mem = m]
      /\ own' = IF status = "ingested" THEN [own EXCEPT ![b.src] = b.content] ELSE own
      /\ backing' = IF status = "ingested" THEN Supported(b.refs, b.src) ELSE backing
      /\ UNCHANGED <<web, disk, rt, preview, lost, torn>>
  BY DEF WritePages, Reload
<1>2. status \in {"unchanged", "rejected", "ingested"}
  OBVIOUS
<1>3. b.src \in Sources /\ b.content \in 0..MaxVersion /\ b.refs \in SUBSET Names
  BY <1>0, <1>1, PgFields DEF Busy
<1> HIDE DEF status
<1>4. /\ m \in Manifests /\ m.out = disk.out
      /\ \A t \in Sources : /\ m.rec[t].hash = disk.rec[t].hash /\ m.rec[t].refs = disk.rec[t].refs
                            /\ m.rec[t].status = IF t = b.src THEN status ELSE disk.rec[t].status
  <2>1. status \in PageStatuses
    BY <1>2 DEF PageStatuses
  <2>2. PICK c : c = [disk EXCEPT !.rec[b.src].status = status]
    OBVIOUS
  <2>3. c = m
    BY <2>2
  <2> HIDE DEF m, b
  <2>4. QED
    BY <1>0, <1>3, <2>1, <2>2, <2>3, WriteStatus
<1> HIDE DEF m
<1>5. jb'.pc = "written" /\ jb'.mem = m /\ jb'.base = disk /\ jb'.bundle = b
  BY <1>0, <1>1 DEF PgTyped
<1>6. /\ own' \in [Sources -> 0..MaxVersion] /\ backing' \in [Names -> SUBSET Sources]
      /\ \A n \in Names : backing[n] # {} => backing'[n] # {}
  BY <1>0, <1>1, <1>3, SupportAdds
<1>7. PgTyped'
  <2>1. jb' \in [pc : JobPcs, mem : Manifests, base : Manifests, bundle : Bundle,
                 todo : SUBSET Sources, force : BOOLEAN]
    BY <1>0, <1>1, <1>4 DEF PgTyped, JobPcs
  <2>2. QED
    BY <1>0, <1>1, <1>3, <1>5, <1>6, <2>1 DEF PgTyped
<1>8. Copies' /\ Watched'
  BY <1>0, <1>1, <1>2, <1>4, <1>5 DEF Copies, Kin, Watched, Counted
<1>9. Shown'
  <2>1. Recorded(m)
    BY <1>0, <1>2, <1>4 DEF Shown, Recorded
  <2>2. Recorded(jb.mem)'
    BY <1>1, <1>5, <2>1 DEF Recorded
  <2>3. Recorded(disk)' /\ Recorded(rt.mem)'
    BY <1>0, <1>1 DEF Shown, Recorded
  <2>4. QED
    BY <1>0, <1>1, <1>5, <2>2, <2>3 DEF Shown, Busy
<1>10. NotAhead'
  BY <1>5 DEF NotAhead
<1>11. PageIsWritten' /\ OwnPagesStay'
  <2>1. status = "ingested" => own'[b.src] = b.content
    BY <1>0, <1>1, <1>3
  <2>2. ASSUME Undisturbed, NEW s \in Sources PROVE own'[s] >= disk.rec[s].hash
    <3>1. CASE status = "ingested" /\ s = b.src
      BY <1>0, <1>1, <1>3, <2>1, <2>2, <3>1, Parts DEF NotAhead, Undisturbed
    <3>2. CASE ~(status = "ingested" /\ s = b.src)
      BY <1>0, <1>1, <2>2, <3>2 DEF OwnPagesStay
    <3>3. QED
      BY <3>1, <3>2
  <2>3. OwnPagesStay'
    BY <1>1, <2>2 DEF OwnPagesStay, Undisturbed
  <2>4. jb'.mem.rec[jb'.bundle.src].status = status
    BY <1>3, <1>4, <1>5
  <2>5. PageIsWritten'
    BY <1>3, <1>5, <1>6, <2>1, <2>4 DEF PageIsWritten
  <2>6. QED
    BY <2>3, <2>5
<1>12. ASSUME Undisturbed, NEW s \in Sources, NEW n \in disk.rec[s].refs, n.kind = "concept"
       PROVE  backing'[n] # {}
  <2>1. n \in Names /\ backing[n] # {}
    BY <1>0, <1>12, Parts DEF ConceptsHavePages
  <2>2. QED
    BY <1>6, <2>1
<1>13. ConceptsHavePages'
  BY <1>1, <1>12 DEF ConceptsHavePages, Undisturbed
<1>14. NamesHavePages'
  BY <1>1, <1>4, <1>5, <1>12 DEF NamesHavePages, Undisturbed
<1>15. QED
  BY <1>7, <1>8, <1>9, <1>10, <1>11, <1>13, <1>14 DEF PgInv

LEMMA BackfillKeeps ==
  ASSUME PgInv, NEW s \in Sources, NEW refs \in SUBSET Names, Backfill(s, refs) PROVE PgInv'
<1>0. /\ PgTyped /\ Copies /\ Shown /\ Watched /\ NotAhead /\ PageIsWritten /\ NamesHavePages
      /\ OwnPagesStay /\ ConceptsHavePages /\ disk \in Manifests /\ jb.mem \in Manifests
      /\ jb.base \in Manifests
      /\ own \in [Sources -> 0..MaxVersion] /\ backing \in [Names -> SUBSET Sources]
  BY PgParts
<1> DEFINE x == jb.mem.rec[s].refs \cup refs
           m == [jb.mem EXCEPT !.rec[s].refs = x]
<1>1. /\ jb.pc = "tail" /\ backing' = Supported(refs, s)
      /\ jb' = [jb EXCEPT !.todo = @ \ {s}, !.mem = m]
      /\ UNCHANGED <<web, disk, own, rt, preview, lost, torn>>
  BY <1>0 DEF Backfill, PgTyped
<1>2. x \in SUBSET Names
  BY <1>0, Parts
<1>3. /\ m \in Manifests /\ m.out = jb.mem.out
      /\ \A t \in Sources : /\ m.rec[t].hash = jb.mem.rec[t].hash /\ m.rec[t].status = jb.mem.rec[t].status
                            /\ m.rec[t].refs = IF t = s THEN x ELSE jb.mem.rec[t].refs
  <2>1. PICK old \in Manifests : old = jb.mem
    BY <1>0
  <2>2. PICK y \in SUBSET Names : y = x
    BY <1>2
  <2>3. PICK c : c = [old EXCEPT !.rec[s].refs = y]
    OBVIOUS
  <2>4. c = m
    BY <2>1, <2>2, <2>3
  <2>5. /\ c \in Manifests /\ c.out = old.out
        /\ \A t \in Sources : /\ c.rec[t].hash = old.rec[t].hash /\ c.rec[t].status = old.rec[t].status
                              /\ c.rec[t].refs = IF t = s THEN y ELSE old.rec[t].refs
    <3>1. old.rec \in [Sources -> [status : PageStatuses, hash : 0..MaxVersion, refs : SUBSET Names]]
      BY DEF Manifests
    <3>2. QED
      BY <2>3, <3>1 DEF Manifests
  <2> HIDE DEF m, x
  <2>6. QED
    BY <2>1, <2>2, <2>4, <2>5
<1> HIDE DEF m
<1>4. jb'.pc = "tail" /\ jb'.mem = m /\ jb'.base = jb.base /\ jb'.bundle = jb.bundle
  BY <1>0, <1>1 DEF PgTyped
<1>5. /\ backing' \in [Names -> SUBSET Sources]
      /\ \A n \in Names : backing[n] # {} => backing'[n] # {}
      /\ \A n \in refs : backing'[n] # {}
  BY <1>0, <1>1, SupportAdds
<1>6. PgTyped'
  <2>1. jb' \in [pc : JobPcs, mem : Manifests, base : Manifests, bundle : Bundle,
                 todo : SUBSET Sources, force : BOOLEAN]
    BY <1>0, <1>1, <1>3 DEF PgTyped
  <2>2. QED
    BY <1>0, <1>1, <1>4, <1>5, <2>1 DEF PgTyped, Busy
<1>7. Copies' /\ Shown' /\ Watched'
  BY <1>0, <1>1, <1>3, <1>4 DEF Copies, Kin, Shown, Recorded, Watched, Counted, Busy
<1>8. NotAhead' /\ PageIsWritten' /\ OwnPagesStay'
  BY <1>0, <1>1, <1>4 DEF NotAhead, PageIsWritten, OwnPagesStay, Undisturbed
<1>9. ConceptsHavePages'
  <2>1. ASSUME Undisturbed, NEW t \in Sources, NEW n \in disk.rec[t].refs, n.kind = "concept"
        PROVE  backing'[n] # {}
    BY <1>0, <1>5, <2>1, Parts DEF ConceptsHavePages
  <2>2. QED
    BY <1>1, <2>1 DEF ConceptsHavePages, Undisturbed
<1>10. NamesHavePages'
  <2>1. ASSUME Undisturbed, NEW t \in Sources, NEW n \in m.rec[t].refs, n.kind = "concept"
        PROVE  backing'[n] # {} \/ (n \in jb.base.rec[t].refs /\ n \notin disk.rec[t].refs)
    <3>1. CASE t = s /\ n \in refs
      BY <1>5, <3>1
    <3>2. CASE n \in jb.mem.rec[t].refs
      BY <1>0, <1>5, <2>1, <3>2, Parts DEF NamesHavePages
    <3>3. QED
      BY <1>3, <2>1, <3>1, <3>2
  <2>2. QED
    BY <1>1, <1>4, <2>1 DEF NamesHavePages, Undisturbed
<1>11. QED
  BY <1>6, <1>7, <1>8, <1>9, <1>10 DEF PgInv

\* A save that loses nothing found the manifest as it was read.
LEMMA SaveFacts ==
  ASSUME PgTyped, NEW copy, NEW base, SaveManifest(copy, base)
  PROVE  disk' = copy /\ lost' \in BOOLEAN /\ (~lost' => ~lost /\ disk = base)
<1>1. disk' = copy /\ lost' = (lost \/ disk # base)
  BY DEF SaveManifest
<1>2. lost' \in BOOLEAN
  BY <1>1
<1>3. QED
  BY <1>1, <1>2

\* What the job saves has the hashes of what it read, and names pages that are there.
LEMMA JobSaves ==
  ASSUME PgInv, SaveManifest(jb.mem, jb.base), UNCHANGED <<own, backing, torn>>
  PROVE  OwnPagesStay' /\ ConceptsHavePages'
<1>0. /\ PgTyped /\ Copies /\ NamesHavePages /\ OwnPagesStay /\ ConceptsHavePages
  BY PgParts
<1>1. disk' = jb.mem /\ (~lost' => ~lost /\ disk = jb.base)
  BY <1>0, SaveFacts
<1>2. \A s \in Sources : jb.mem.rec[s].hash = jb.base.rec[s].hash
  BY <1>0 DEF Copies, Kin
<1>3. OwnPagesStay'
  BY <1>0, <1>1, <1>2 DEF OwnPagesStay, Undisturbed
<1>4. ConceptsHavePages'
  BY <1>0, <1>1 DEF ConceptsHavePages, NamesHavePages, Undisturbed
<1>5. QED
  BY <1>3, <1>4

LEMMA CompileKeeps == ASSUME PgInv, CompileIndexes PROVE PgInv'
<1>0. /\ PgTyped /\ Copies /\ Shown /\ Watched /\ NotAhead /\ PageIsWritten /\ NamesHavePages
      /\ OwnPagesStay /\ ConceptsHavePages /\ jb.mem \in Manifests
  BY PgParts
<1>1. /\ jb.pc = "written" /\ jb' = [jb EXCEPT !.pc = "compiled", !.base = jb.mem]
      /\ SaveManifest(jb.mem, jb.base)
      /\ UNCHANGED <<web, own, backing, rt, preview, torn>>
  BY DEF CompileIndexes
<1>2. jb'.pc = "compiled" /\ jb'.mem = jb.mem /\ jb'.base = jb.mem /\ jb'.bundle = jb.bundle
  BY <1>0, <1>1 DEF PgTyped
<1>3. disk' = jb.mem /\ lost' \in BOOLEAN /\ (~lost' => ~lost /\ disk = jb.base)
  BY <1>0, <1>1, SaveFacts
<1>4. PgTyped'
  <2>1. jb' \in [pc : JobPcs, mem : Manifests, base : Manifests, bundle : Bundle,
                 todo : SUBSET Sources, force : BOOLEAN]
    BY <1>0, <1>1 DEF PgTyped, JobPcs
  <2>2. QED
    BY <1>0, <1>1, <1>2, <1>3, <2>1 DEF PgTyped, Busy
<1>5. Copies' /\ Shown' /\ Watched'
  BY <1>0, <1>1, <1>2, <1>3 DEF Copies, Kin, Shown, Recorded, Watched, Counted, Busy
<1>6. NotAhead'
  BY <1>2 DEF NotAhead
<1>7. PageIsWritten'
  BY <1>0, <1>1, <1>2, <1>3 DEF PageIsWritten, Undisturbed
<1>8. OwnPagesStay' /\ ConceptsHavePages'
  BY <1>1, JobSaves
<1>9. NamesHavePages'
  BY <1>2, <1>3, <1>8 DEF NamesHavePages, ConceptsHavePages
<1>10. QED
  BY <1>4, <1>5, <1>6, <1>7, <1>8, <1>9 DEF PgInv

LEMMA PromoteKeeps == ASSUME PgInv, PromoteHash PROVE PgInv'
<1>0. /\ PgTyped /\ Copies /\ Shown /\ Watched /\ NotAhead /\ PageIsWritten /\ NamesHavePages
      /\ OwnPagesStay /\ ConceptsHavePages /\ jb.mem \in Manifests
  BY PgParts
<1> DEFINE b == jb.bundle
           m == IF jb.mem.rec[b.src].status = "ingested"
                THEN [jb.mem EXCEPT !.rec[b.src].hash = b.content] ELSE jb.mem
<1>1. /\ jb.pc = "compiled" /\ jb' = [jb EXCEPT !.pc = "report", !.mem = m, !.base = m]
      /\ SaveManifest(m, jb.base)
      /\ UNCHANGED <<web, own, backing, rt, preview, torn>>
  BY DEF PromoteHash
<1>2. b.src \in Sources /\ b.content \in 0..MaxVersion
  BY <1>0, <1>1, PgFields DEF Busy
<1>3. /\ m \in Manifests /\ m.out = jb.mem.out
      /\ \A t \in Sources :
           /\ m.rec[t].hash = IF t = b.src /\ jb.mem.rec[b.src].status = "ingested" THEN b.content
                              ELSE jb.mem.rec[t].hash
           /\ m.rec[t].status = jb.mem.rec[t].status /\ m.rec[t].refs = jb.mem.rec[t].refs
  <2>1. CASE jb.mem.rec[b.src].status = "ingested"
    <3>1. PICK c : c = [jb.mem EXCEPT !.rec[b.src].hash = b.content]
      OBVIOUS
    <3>2. c = m
      BY <2>1, <3>1
    <3> HIDE DEF m, b
    <3>3. QED
      BY <1>0, <1>2, <2>1, <3>1, <3>2, WriteHash
  <2>2. CASE jb.mem.rec[b.src].status # "ingested"
    BY <1>0, <2>2
  <2>3. QED
    BY <2>1, <2>2
<1> HIDE DEF m
<1>4. jb'.pc = "report" /\ jb'.mem = m /\ jb'.base = m /\ jb'.bundle = b
  BY <1>0, <1>1 DEF PgTyped
<1>5. disk' = m /\ lost' \in BOOLEAN /\ (~lost' => ~lost /\ disk = jb.base)
  BY <1>0, <1>1, SaveFacts
<1>6. PgTyped'
  <2>1. jb' \in [pc : JobPcs, mem : Manifests, base : Manifests, bundle : Bundle,
                 todo : SUBSET Sources, force : BOOLEAN]
    BY <1>0, <1>1, <1>3 DEF PgTyped, JobPcs
  <2>2. QED
    BY <1>0, <1>1, <1>2, <1>3, <1>4, <1>5, <2>1 DEF PgTyped, Busy
<1>7. Copies' /\ Watched' /\ NotAhead' /\ PageIsWritten'
  BY <1>0, <1>1, <1>4 DEF Copies, Kin, Watched, Counted, NotAhead, PageIsWritten
<1>8. Shown'
  <2>1. Recorded(m)
    <3>1. b.content <= web[b.src]
      BY <1>0, <1>1 DEF Shown, Busy
    <3>2. QED
      BY <1>0, <1>3, <3>1 DEF Shown, Recorded
  <2>2. Recorded(jb.mem)' /\ Recorded(disk)'
    BY <1>1, <1>4, <1>5, <2>1 DEF Recorded
  <2>3. Recorded(rt.mem)'
    BY <1>0, <1>1 DEF Shown, Recorded
  <2>4. QED
    BY <1>0, <1>1, <1>4, <2>2, <2>3 DEF Shown, Busy
<1>9. OwnPagesStay'
  <2>1. ASSUME Undisturbed, disk = jb.base, NEW s \in Sources PROVE own[s] >= m.rec[s].hash
    <3>1. CASE s = b.src /\ jb.mem.rec[b.src].status = "ingested"
      BY <1>0, <1>1, <1>3, <2>1, <3>1 DEF PageIsWritten
    <3>2. CASE ~(s = b.src /\ jb.mem.rec[b.src].status = "ingested")
      BY <1>0, <1>3, <2>1, <3>2 DEF OwnPagesStay, Copies, Kin
    <3>3. QED
      BY <3>1, <3>2
  <2>2. QED
    BY <1>1, <1>5, <2>1 DEF OwnPagesStay, Undisturbed
<1>10. ConceptsHavePages'
  BY <1>0, <1>1, <1>3, <1>5 DEF ConceptsHavePages, NamesHavePages, Undisturbed
<1>11. NamesHavePages'
  BY <1>4, <1>5, <1>10 DEF NamesHavePages, ConceptsHavePages
<1>12. QED
  BY <1>6, <1>7, <1>8, <1>9, <1>10, <1>11 DEF PgInv

LEMMA ReprocessEndsKeeps == ASSUME PgInv, ReprocessEnds PROVE PgInv'
<1>0. /\ PgTyped /\ Copies /\ Shown /\ Watched /\ NotAhead /\ PageIsWritten /\ NamesHavePages
      /\ OwnPagesStay /\ ConceptsHavePages /\ jb.mem \in Manifests
      /\ web \in [Sources -> 1..MaxVersion]
  BY PgParts
<1>1. /\ jb' = NoJob /\ SaveManifest(jb.mem, jb.base)
      /\ UNCHANGED <<web, own, backing, rt, preview, torn>>
  BY DEF ReprocessEnds
<1>2. jb'.pc = "off" /\ jb'.mem = Empty /\ jb'.base = Empty
  BY <1>1, Blank
<1>3. disk' = jb.mem /\ lost' \in BOOLEAN
  BY <1>0, <1>1, SaveFacts
<1>4. PgTyped'
  BY <1>0, <1>1, <1>2, <1>3, Blank DEF PgTyped, JobPcs, Busy, NoJob
<1>5. Copies' /\ Watched' /\ NotAhead' /\ PageIsWritten'
  BY <1>0, <1>1, <1>2 DEF Copies, Kin, Watched, Counted, NotAhead, PageIsWritten
<1>6. Shown'
  BY <1>0, <1>1, <1>2, <1>3, Blank, PgBounds DEF Shown, Recorded, Busy
<1>7. OwnPagesStay' /\ ConceptsHavePages'
  BY <1>1, JobSaves
<1>8. NamesHavePages'
  BY <1>2, Blank DEF NamesHavePages
<1>9. QED
  BY <1>4, <1>5, <1>6, <1>7, <1>8 DEF PgInv

LEMMA WebChangesKeeps == ASSUME PgInv, NEW s \in Sources, WebChanges(s) PROVE PgInv'
<1>0. /\ PgTyped /\ Copies /\ Shown /\ Watched /\ NotAhead /\ PageIsWritten /\ NamesHavePages
      /\ OwnPagesStay /\ ConceptsHavePages /\ web \in [Sources -> 1..MaxVersion]
      /\ disk \in Manifests /\ jb.mem \in Manifests /\ rt.mem \in Manifests
  BY PgParts
<1>1. /\ web[s] < MaxVersion /\ web' = [web EXCEPT ![s] = @ + 1]
      /\ UNCHANGED <<disk, own, backing, jb, rt, preview, lost, torn>>
  BY DEF WebChanges
<1>2. /\ web' \in [Sources -> 1..MaxVersion]
      /\ \A t \in Sources : web[t] \in Nat /\ web'[t] \in Nat /\ web[t] <= web'[t]
  BY <1>0, <1>1, PgBounds
<1>3. PgTyped'
  BY <1>0, <1>1, <1>2 DEF PgTyped, Busy
<1>4. \A m \in Manifests : Recorded(m) => \A t \in Sources :
        (m.rec[t].hash # 0 => m.rec[t].status # "none") /\ m.rec[t].hash <= web'[t]
  <2>1. TAKE m \in Manifests
  <2>2. HAVE Recorded(m)
  <2>3. TAKE t \in Sources
  <2>4. m.rec[t].hash \in 0..MaxVersion /\ m.rec[t].hash <= web[t]
    BY <2>2, Parts DEF Recorded
  <2>5. QED
    BY <1>2, <2>2, <2>4, PgBounds DEF Recorded
<1>5. Recorded(disk)' /\ Recorded(jb.mem)' /\ Recorded(rt.mem)'
  BY <1>0, <1>1, <1>4 DEF Shown, Recorded
<1>6. jb.pc \in Busy => jb.bundle.content <= web'[jb.bundle.src]
  <2>1. HAVE jb.pc \in Busy
  <2>2. jb.bundle.content \in 0..MaxVersion /\ jb.bundle.src \in Sources
        /\ jb.bundle.content <= web[jb.bundle.src]
    BY <1>0, <2>1, PgFields DEF Shown
  <2>3. QED
    BY <1>2, <2>2, PgBounds
<1>7. Shown'
  BY <1>1, <1>5, <1>6 DEF Shown, Busy
<1>8. Copies' /\ Watched' /\ NotAhead' /\ PageIsWritten' /\ NamesHavePages'
  BY <1>0, <1>1 DEF Copies, Kin, Watched, Counted, NotAhead, PageIsWritten, NamesHavePages, Undisturbed
<1>9. OwnPagesStay' /\ ConceptsHavePages'
  BY <1>0, <1>1 DEF OwnPagesStay, ConceptsHavePages, Undisturbed
<1>10. QED
  BY <1>3, <1>7, <1>8, <1>9 DEF PgInv

\* A step of a route that touches neither manifest nor pages, with a copy that is
\* kept as it was read and a look at the counter where the route goes on.
LEMMA RouteGoesOn ==
  ASSUME PgInv, rt'.mem = rt'.base, Recorded(rt'.mem), Watched', preview' \in SUBSET Names,
         rt' \in [pc : {"idle", "dismiss", "restore", "refresh", "clean", "prune", "prune2"},
                  mem : Manifests, base : Manifests, missed : BOOLEAN],
         UNCHANGED <<web, disk, own, backing, jb, lost, torn>>
  PROVE  PgInv'
<1>0. /\ PgTyped /\ Copies /\ Shown /\ NotAhead /\ PageIsWritten /\ NamesHavePages
      /\ OwnPagesStay /\ ConceptsHavePages
  BY PgParts
<1>1. PgTyped'
  BY <1>0 DEF PgTyped, Busy
<1>2. Copies' /\ Shown'
  BY <1>0 DEF Copies, Kin, Shown, Recorded, Busy
<1>3. NotAhead' /\ PageIsWritten' /\ NamesHavePages' /\ OwnPagesStay' /\ ConceptsHavePages'
  BY <1>0 DEF NotAhead, PageIsWritten, NamesHavePages, OwnPagesStay, ConceptsHavePages, Undisturbed
<1>4. QED
  BY <1>1, <1>2, <1>3 DEF PgInv

LEMMA RouteLoadsKeeps ==
  ASSUME PgInv, NEW route \in {"dismiss", "restore", "refresh", "prune"}, RouteLoads(route)
  PROVE  PgInv'
<1>0. PgTyped /\ Shown /\ disk \in Manifests
  BY PgParts
<1>1. /\ rt' = [pc |-> route, mem |-> disk, base |-> disk, missed |-> FALSE]
      /\ UNCHANGED <<web, disk, own, backing, jb, preview, lost, torn>>
  BY DEF RouteLoads, NoRoute
<1>2. rt'.mem = rt'.base /\ Recorded(rt'.mem) /\ Watched' /\ preview' \in SUBSET Names
  BY <1>0, <1>1 DEF Shown, Watched, PgTyped
<1>3. rt' \in [pc : {"idle", "dismiss", "restore", "refresh", "clean", "prune", "prune2"},
               mem : Manifests, base : Manifests, missed : BOOLEAN]
  BY <1>0, <1>1
<1>4. QED
  BY <1>1, <1>2, <1>3, RouteGoesOn

\* A route that is done, or that turned back, holds nothing.
LEMMA RouteEnds ==
  ASSUME PgInv, rt' = NoRoute, preview' \in SUBSET Names,
         UNCHANGED <<web, disk, own, backing, jb, lost, torn>>
  PROVE  PgInv'
<1>1. Recorded(Empty)
  <2>1. web \in [Sources -> 1..MaxVersion]
    BY PgParts
  <2>2. QED
    BY <2>1, Blank, PgBounds DEF Recorded
<1>2. rt'.mem = rt'.base /\ Recorded(rt'.mem) /\ Watched'
  BY <1>1, Blank DEF Watched
<1>3. rt' \in [pc : {"idle", "dismiss", "restore", "refresh", "clean", "prune", "prune2"},
               mem : Manifests, base : Manifests, missed : BOOLEAN]
  BY Blank DEF NoRoute
<1>4. QED
  BY <1>2, <1>3, RouteGoesOn

LEMMA ChecksKeep == ASSUME PgInv, RefreshChecks \/ LintChecks PROVE PgInv'
<1>0. PgTyped /\ Copies /\ Shown /\ rt.mem \in Manifests
  BY PgParts
<1>1. preview' \in SUBSET Names /\ UNCHANGED <<web, disk, own, backing, jb, lost, torn>>
  BY <1>0 DEF RefreshChecks, LintChecks, PgTyped
<1>2. CASE Counted
  BY <1>1, <1>2, RouteEnds DEF RefreshChecks, LintChecks
<1>3. CASE ~Counted
  <2>1. PICK next \in {"clean", "prune2"} : rt' = [rt EXCEPT !.pc = next]
    BY <1>3 DEF RefreshChecks, LintChecks
  <2>2. rt'.pc = next /\ rt'.mem = rt.mem /\ rt'.base = rt.base
    BY <1>0, <2>1 DEF PgTyped
  <2>3. rt'.mem = rt'.base /\ Recorded(rt'.mem) /\ Watched'
    BY <1>0, <1>1, <1>3, <2>2 DEF Copies, Shown, Watched, Counted
  <2>4. rt' \in [pc : {"idle", "dismiss", "restore", "refresh", "clean", "prune", "prune2"},
                 mem : Manifests, base : Manifests, missed : BOOLEAN]
    BY <1>0, <2>1 DEF PgTyped
  <2>5. QED
    BY <1>1, <2>3, <2>4, RouteGoesOn
<1>4. QED
  BY <1>2, <1>3

LEMMA PreviewKeeps == ASSUME PgInv, NEW flagged \in SUBSET Names, LintPreview(flagged) PROVE PgInv'
<1>1. preview' \in SUBSET Names /\ rt' = NoRoute /\ UNCHANGED <<web, disk, own, backing, jb, lost, torn>>
  BY DEF LintPreview
<1>2. QED
  BY <1>1, RouteEnds

\* A route that saves what it made of its copy: it adds no concept to a record, and
\* a page it deletes is in no record of what it saves, while no runner is counted.
LEMMA RouteSaves ==
  ASSUME PgInv, NEW c \in Manifests, SaveManifest(c, rt.base), rt' = NoRoute,
         preview' \in SUBSET Names, torn' \in BOOLEAN, ~torn' => ~torn,
         backing' \in [Names -> SUBSET Sources], UNCHANGED <<web, own, jb>>,
         \A s \in Sources : /\ c.rec[s].hash = rt.mem.rec[s].hash
                            /\ c.rec[s].status = rt.mem.rec[s].status
                            /\ \A n \in c.rec[s].refs : n.kind = "concept" => n \in rt.mem.rec[s].refs,
         \A n \in Names : ~torn' /\ n.kind = "concept" /\ backing'[n] # backing[n] =>
           ~Counted /\ \A s \in Sources : n \notin c.rec[s].refs
  PROVE  PgInv'
<1>0. /\ PgTyped /\ Copies /\ Shown /\ NotAhead /\ PageIsWritten /\ NamesHavePages
      /\ OwnPagesStay /\ ConceptsHavePages /\ jb.mem \in Manifests
      /\ web \in [Sources -> 1..MaxVersion]
  BY PgParts
<1>1. disk' = c /\ lost' \in BOOLEAN /\ (~lost' => ~lost /\ disk = rt.mem)
  BY <1>0, SaveFacts DEF Copies
<1>2. rt' \in [pc : {"idle", "dismiss", "restore", "refresh", "clean", "prune", "prune2"},
               mem : Manifests, base : Manifests, missed : BOOLEAN]
  BY Blank DEF NoRoute
<1>3. PgTyped'
  BY <1>0, <1>1, <1>2 DEF PgTyped, Busy
<1>4. Copies' /\ Watched' /\ PageIsWritten'
  BY <1>0, <1>1, Blank DEF Copies, Kin, Watched, PageIsWritten, Undisturbed
<1>5. Shown'
  <2>1. Recorded(disk)' /\ Recorded(jb.mem)'
    BY <1>0, <1>1 DEF Shown, Recorded
  <2>2. Recorded(rt.mem)'
    BY <1>0, Blank, PgBounds DEF Recorded
  <2>3. QED
    BY <1>0, <2>1, <2>2 DEF Shown, Busy
<1>6. NotAhead'
  BY <1>0, <1>1, PgFields DEF NotAhead, Busy
<1>7. OwnPagesStay'
  BY <1>0, <1>1 DEF OwnPagesStay, Undisturbed
<1>8. NamesHavePages'
  <2>1. ASSUME Undisturbed', NEW s \in Sources, NEW n \in jb.mem.rec[s].refs, n.kind = "concept"
        PROVE  backing'[n] # {} \/ (n \in jb.base.rec[s].refs /\ n \notin c.rec[s].refs)
    <3>1. n \in Names /\ Undisturbed /\ ~torn' /\ disk = rt.mem
      BY <1>0, <1>1, <2>1, Parts DEF Undisturbed
    <3>2. backing[n] # {} \/ (n \in jb.base.rec[s].refs /\ n \notin disk.rec[s].refs)
      BY <1>0, <2>1, <3>1 DEF NamesHavePages
    <3>3. CASE backing'[n] = backing[n]
      BY <2>1, <3>1, <3>2, <3>3
    <3>4. CASE backing'[n] # backing[n]
      <4>1. ~Counted /\ n \notin c.rec[s].refs
        BY <2>1, <3>1, <3>4
      <4>2. jb.pc \in {"off", "boot"}
        BY <4>1 DEF Counted
      <4>3. jb.mem = jb.base
        BY <1>0, <4>2 DEF Copies
      <4>4. QED
        BY <2>1, <4>1, <4>3
    <3>5. QED
      BY <3>3, <3>4
  <2>2. QED
    BY <1>1, <2>1 DEF NamesHavePages
<1>9. ConceptsHavePages'
  <2>1. ASSUME Undisturbed', NEW s \in Sources, NEW n \in c.rec[s].refs, n.kind = "concept"
        PROVE  backing'[n] # {}
    <3>1. n \in Names /\ Undisturbed /\ ~torn' /\ disk = rt.mem
      BY <1>1, <2>1, Parts DEF Undisturbed
    <3>2. n \in disk.rec[s].refs
      BY <2>1, <3>1
    <3>3. backing[n] # {}
      BY <1>0, <2>1, <3>1, <3>2 DEF ConceptsHavePages
    <3>4. QED
      BY <2>1, <3>1, <3>3
  <2>2. QED
    BY <1>1, <2>1 DEF ConceptsHavePages
<1>10. QED
  BY <1>3, <1>4, <1>5, <1>6, <1>7, <1>8, <1>9 DEF PgInv

LEMMA DismissKeeps ==
  ASSUME PgInv, NEW e \in Entities, NEW alias \in Entities \cup {"noise"}, Dismiss(e, alias)
  PROVE  PgInv'
<1>0. /\ PgTyped /\ rt.mem \in Manifests /\ backing \in [Names -> SUBSET Sources]
  BY PgParts
<1>1. PICK c : c = Dismissed(rt.mem, e, alias)
  OBVIOUS
<1>2. /\ SaveManifest(c, rt.base) /\ rt' = NoRoute /\ UNCHANGED <<web, own, jb>>
      /\ backing' = [backing EXCEPT ![Entity(e)] = {}]
      /\ preview' \in SUBSET Names /\ torn' \in BOOLEAN /\ (~torn' => ~torn)
  BY <1>0, <1>1 DEF Dismiss, PgTyped
<1>3. /\ c \in Manifests
      /\ \A s \in Sources : /\ c.rec[s].hash = rt.mem.rec[s].hash
                            /\ c.rec[s].status = rt.mem.rec[s].status
                            /\ \A n \in c.rec[s].refs : n.kind = "concept" => n \in rt.mem.rec[s].refs
  <2>1. PICK m \in Manifests : m = rt.mem
    BY <1>0
  <2>2. c = Dismissed(m, e, alias)
    BY <1>1, <2>1
  <2>3. /\ Dismissed(m, e, alias) \in Manifests
        /\ \A s \in Sources :
             /\ Dismissed(m, e, alias).rec[s].hash = m.rec[s].hash
             /\ Dismissed(m, e, alias).rec[s].status = m.rec[s].status
             /\ \A n \in Dismissed(m, e, alias).rec[s].refs : n.kind = "concept" => n \in m.rec[s].refs
    BY RouteCopies
  <2>4. QED
    BY <2>1, <2>2, <2>3
<1>4. /\ backing' \in [Names -> SUBSET Sources]
      /\ \A n \in Names : n.kind = "concept" => backing'[n] = backing[n]
  BY <1>0, <1>2, EntityFacts
<1>5. QED
  BY <1>2, <1>3, <1>4, RouteSaves

LEMMA RestoreKeeps == ASSUME PgInv, NEW e \in Entities, Restore(e) PROVE PgInv'
<1>0. /\ PgTyped /\ rt.mem \in Manifests /\ backing \in [Names -> SUBSET Sources]
  BY PgParts
<1>1. rt' = NoRoute /\ preview' \in SUBSET Names /\ UNCHANGED <<web, own, backing, jb, torn>>
  BY <1>0 DEF Restore, PgTyped
<1>2. CASE rt.mem.out[e] = "in"
  BY <1>1, <1>2, RouteEnds DEF Restore
<1>3. CASE rt.mem.out[e] # "in"
  <2>1. PICK c : c = [rt.mem EXCEPT !.out[e] = "in"]
    OBVIOUS
  <2>2. SaveManifest(c, rt.base)
    BY <1>3, <2>1 DEF Restore
  <2>3. c \in Manifests /\ c.rec = rt.mem.rec
    BY <1>0, <2>1, RouteCopies
  <2>4. torn' \in BOOLEAN /\ (~torn' => ~torn) /\ backing' \in [Names -> SUBSET Sources]
    BY <1>0, <1>1 DEF PgTyped
  <2>5. QED
    BY <1>1, <2>2, <2>3, <2>4, RouteSaves
<1>4. QED
  BY <1>2, <1>3

LEMMA LintPrunesKeeps ==
  ASSUME PgInv, NEW flagged \in SUBSET Names, LintPrunes(flagged)
  PROVE  PgInv'
<1>0. /\ PgTyped /\ Watched /\ rt.mem \in Manifests /\ backing \in [Names -> SUBSET Sources]
  BY PgParts
<1>1. PICK c : c = Pruned(rt.mem, flagged)
  OBVIOUS
<1>2. /\ rt.pc = "prune2" /\ SaveManifest(c, rt.base) /\ rt' = NoRoute /\ UNCHANGED <<web, own, jb>>
      /\ backing' = [n \in Names |-> IF n \in flagged THEN {} ELSE backing[n]]
      /\ preview' \in SUBSET Names /\ torn' = (torn \/ rt.missed)
  BY <1>1 DEF LintPrunes
<1>3. /\ c \in Manifests
      /\ \A s \in Sources : /\ c.rec[s].hash = rt.mem.rec[s].hash
                            /\ c.rec[s].status = rt.mem.rec[s].status
                            /\ c.rec[s].refs = rt.mem.rec[s].refs \ flagged
  BY <1>0, <1>1, RouteCopies
<1>4. torn' \in BOOLEAN /\ (~torn' => ~torn /\ ~rt.missed)
  <2>1. torn' \in BOOLEAN
    BY <1>2
  <2>2. QED
    BY <1>2, <2>1
<1>5. ~torn' => ~Counted
  BY <1>0, <1>2, <1>4 DEF Watched
<1>6. /\ backing' \in [Names -> SUBSET Sources]
      /\ \A n \in Names : backing'[n] # backing[n] => n \in flagged
  BY <1>0, <1>2
<1>7. \A n \in Names : ~torn' /\ n.kind = "concept" /\ backing'[n] # backing[n] =>
        ~Counted /\ \A s \in Sources : n \notin c.rec[s].refs
  BY <1>3, <1>5, <1>6
<1>8. QED
  BY <1>2, <1>3, <1>4, <1>6, <1>7, RouteSaves

LEMMA RefreshCleansUpKeeps == ASSUME PgInv, RefreshCleansUp PROVE PgInv'
<1>0. /\ PgTyped /\ Copies /\ Shown /\ Watched /\ NotAhead /\ PageIsWritten /\ NamesHavePages
      /\ OwnPagesStay /\ ConceptsHavePages /\ disk \in Manifests /\ jb.mem \in Manifests
      /\ web \in [Sources -> 1..MaxVersion]
      /\ own \in [Sources -> 0..MaxVersion] /\ backing \in [Names -> SUBSET Sources]
  BY PgParts
<1>1. /\ rt.pc = "clean" /\ rt' = NoRoute
      /\ own' = [s \in Sources |-> IF rt.mem.rec[s].status = "none" THEN 0 ELSE own[s]]
      /\ backing' = [n \in Names |-> IF n \in Kept(rt.mem) THEN backing[n] ELSE {}]
      /\ torn' = (torn \/ rt.missed \/ rt.mem # disk)
      /\ UNCHANGED <<web, disk, jb, preview, lost>>
  BY DEF RefreshCleansUp, CleanUp
<1>2. torn' \in BOOLEAN /\ (~torn' => ~torn /\ ~rt.missed /\ rt.mem = disk)
  <2>1. torn' \in BOOLEAN
    BY <1>1
  <2>2. QED
    BY <1>1, <2>1
<1>3. Undisturbed' => Undisturbed /\ rt.mem = disk /\ jb.pc \in {"off", "boot"} /\ jb.mem = jb.base
  BY <1>0, <1>1, <1>2 DEF Undisturbed, Watched, Counted, Copies
<1>4. own' \in [Sources -> 0..MaxVersion] /\ backing' \in [Names -> SUBSET Sources]
  BY <1>0, <1>1, PgBounds
<1>5. rt' \in [pc : {"idle", "dismiss", "restore", "refresh", "clean", "prune", "prune2"},
               mem : Manifests, base : Manifests, missed : BOOLEAN]
  BY <1>1, Blank DEF NoRoute
<1>6. PgTyped'
  BY <1>0, <1>1, <1>2, <1>4, <1>5 DEF PgTyped, Busy
<1>7. Copies' /\ Watched' /\ NotAhead'
  BY <1>0, <1>1, Blank DEF Copies, Kin, Watched, NotAhead
<1>8. Shown'
  <2>1. Recorded(rt.mem)'
    BY <1>0, <1>1, Blank, PgBounds DEF Recorded
  <2>2. QED
    BY <1>0, <1>1, <2>1 DEF Shown, Recorded, Busy
<1>9. PageIsWritten'
  BY <1>1, <1>3 DEF PageIsWritten
<1>10. OwnPagesStay'
  <2>1. ASSUME Undisturbed', NEW s \in Sources PROVE own'[s] >= disk.rec[s].hash
    <3>1. own[s] >= disk.rec[s].hash /\ rt.mem = disk
      BY <1>0, <1>3, <2>1 DEF OwnPagesStay
    <3>2. disk.rec[s].hash # 0 => rt.mem.rec[s].status # "none"
      BY <1>0, <3>1 DEF Shown, Recorded
    <3>3. disk.rec[s].hash \in 0..MaxVersion
      BY <1>0, Parts
    <3>4. QED
      BY <1>1, <3>1, <3>2, <3>3, PgBounds
  <2>2. QED
    BY <1>1, <2>1 DEF OwnPagesStay
<1>11. ASSUME NEW n \in Names, n.kind = "concept", rt.mem = disk, NEW s \in Sources, n \in disk.rec[s].refs
       PROVE  backing'[n] = backing[n]
  BY <1>0, <1>1, <1>11, KeptPages
<1>12. ConceptsHavePages'
  <2>1. ASSUME Undisturbed', NEW s \in Sources, NEW n \in disk.rec[s].refs, n.kind = "concept"
        PROVE  backing'[n] # {}
    <3>1. n \in Names
      BY <1>0, Parts
    <3>2. QED
      BY <1>0, <1>3, <1>11, <2>1, <3>1 DEF ConceptsHavePages
  <2>2. QED
    BY <1>1, <2>1 DEF ConceptsHavePages
<1>13. NamesHavePages'
  <2>1. ASSUME Undisturbed', NEW s \in Sources, NEW n \in jb.mem.rec[s].refs, n.kind = "concept"
        PROVE  backing'[n] # {} \/ (n \in jb.base.rec[s].refs /\ n \notin disk.rec[s].refs)
    <3>1. n \in Names
      BY <1>0, Parts
    <3>2. CASE \E t \in Sources : n \in disk.rec[t].refs
      <4>1. backing'[n] = backing[n]
        BY <1>3, <1>11, <2>1, <3>1, <3>2
      <4>2. QED
        BY <1>0, <1>3, <2>1, <4>1 DEF NamesHavePages
    <3>3. CASE \A t \in Sources : n \notin disk.rec[t].refs
      BY <1>3, <2>1, <3>3
    <3>4. QED
      BY <3>2, <3>3
  <2>2. QED
    BY <1>1, <2>1 DEF NamesHavePages
<1>14. QED
  BY <1>6, <1>7, <1>8, <1>9, <1>10, <1>12, <1>13 DEF PgInv

\* Whatever an analysis or an evaluation comes to is a set of names.
LEMMA NamesFound ==
  /\ \A refs \in Analyses : refs \in SUBSET Names
  /\ \A m : \A flagged \in Findings(m) : flagged \in SUBSET Names
  BY DEF Analyses, Findings, Flagged

LEMMA PgStep == ASSUME PgInv, [PgNext]_pages PROVE PgInv'
<1>0. preview \in SUBSET Names
  BY PgParts DEF PgTyped
<1>1. ASSUME NEW s \in Sources, WebChanges(s) PROVE PgInv'
  BY <1>1, WebChangesKeeps
<1>2. ASSUME NEW force \in BOOLEAN, StartIngest(force) PROVE PgInv'
  BY <1>2, StartIngestKeeps
<1>3. ASSUME NEW s \in Sources, NEW refs \in Analyses, NEW trusted \in BOOLEAN, Fetch(s, refs, trusted)
      PROVE  PgInv'
  BY <1>3, FetchKeeps, NamesFound
<1>4. ASSUME NEW s \in Sources, NEW refs \in Analyses, Backfill(s, refs) PROVE PgInv'
  BY <1>4, BackfillKeeps, NamesFound
<1>5. CASE BootRunner \/ JobCleansUp \/ WritePages \/ CompileIndexes \/ PromoteHash
  BY <1>5, BootKeeps, JobCleansUpKeeps, WritePagesKeeps, CompileKeeps, PromoteKeeps
<1>6. CASE Report \/ Drained \/ ReprocessEnds \/ JobStops
  BY <1>6, ReportKeeps, DrainedKeeps, ReprocessEndsKeeps, JobStopsKeeps
<1>7. ASSUME NEW route \in {"dismiss", "restore", "refresh", "prune"}, RouteLoads(route) PROVE PgInv'
  BY <1>7, RouteLoadsKeeps
<1>8. ASSUME NEW e \in Entities, NEW alias \in Entities \cup {"noise"}, Dismiss(e, alias) PROVE PgInv'
  BY <1>8, DismissKeeps
<1>9. ASSUME NEW e \in Entities, Restore(e) PROVE PgInv'
  BY <1>9, RestoreKeeps
<1>10. CASE RefreshChecks \/ LintChecks \/ RefreshCleansUp
  BY <1>10, ChecksKeep, RefreshCleansUpKeeps
<1>11. ASSUME NEW flagged \in Findings(rt.mem), LintPreview(flagged) PROVE PgInv'
  BY <1>11, PreviewKeeps, NamesFound
<1>12. ASSUME NEW flagged \in Findings(rt.mem) \cup {preview}, LintPrunes(flagged) PROVE PgInv'
  BY <1>0, <1>12, LintPrunesKeeps, NamesFound
<1>13. CASE UNCHANGED pages
  <2>1. UNCHANGED <<web, disk, own, backing, jb, rt, preview, lost, torn>>
    BY <1>13 DEF pages
  <2>2. rt'.mem = rt'.base /\ Recorded(rt'.mem) /\ Watched' /\ preview' \in SUBSET Names
    BY <2>1, PgParts DEF Copies, Shown, Watched, Counted, PgTyped
  <2>3. rt' \in [pc : {"idle", "dismiss", "restore", "refresh", "clean", "prune", "prune2"},
                 mem : Manifests, base : Manifests, missed : BOOLEAN]
    BY <2>1, PgParts DEF PgTyped
  <2>4. QED
    BY <2>1, <2>2, <2>3, RouteGoesOn
<1>14. QED
  BY <1>1, <1>2, <1>3, <1>4, <1>5, <1>6, <1>7, <1>8, <1>9, <1>10, <1>11, <1>12, <1>13 DEF PgNext

LEMMA PgStart == PgInit => PgInv
<1> SUFFICES ASSUME PgInit PROVE PgInv
  OBVIOUS
<1>1. /\ web = [s \in Sources |-> 1] /\ disk = Empty /\ own = [s \in Sources |-> 0]
      /\ backing = [n \in Names |-> {}] /\ jb = NoJob /\ rt = NoRoute /\ preview = {}
      /\ lost = FALSE /\ torn = FALSE
  BY DEF PgInit
<1>2. PgTyped
  <2>1. /\ web \in [Sources -> 1..MaxVersion] /\ own \in [Sources -> 0..MaxVersion]
        /\ backing \in [Names -> SUBSET Sources]
    BY <1>1, PgBounds
  <2>2. jb \in [pc : JobPcs, mem : Manifests, base : Manifests, bundle : Bundle,
                todo : SUBSET Sources, force : BOOLEAN]
    BY <1>1, Blank DEF NoJob, JobPcs
  <2>3. rt \in [pc : {"idle", "dismiss", "restore", "refresh", "clean", "prune", "prune2"},
                mem : Manifests, base : Manifests, missed : BOOLEAN]
    BY <1>1, Blank DEF NoRoute
  <2>4. QED
    BY <1>1, <2>1, <2>2, <2>3, Blank DEF PgTyped, Busy
<1>3. Copies /\ Watched /\ NotAhead /\ PageIsWritten /\ NamesHavePages /\ ConceptsHavePages
  BY <1>1, Blank DEF Copies, Kin, Watched, NotAhead, PageIsWritten, NamesHavePages, ConceptsHavePages
<1>4. Shown
  BY <1>1, Blank, PgBounds DEF Shown, Recorded, Busy
<1>5. OwnPagesStay
  BY <1>1, Blank DEF OwnPagesStay
<1>6. QED
  BY <1>2, <1>3, <1>4, <1>5 DEF PgInv

LEMMA PgAlways == PgSpec => []PgInv
<1>1. PgInit => PgInv
  BY PgStart
<1>2. PgInv /\ [PgNext]_pages => PgInv'
  BY PgStep
<1>3. QED
  BY <1>1, <1>2, PTL DEF PgSpec

\* As long as no save and no deletion went over what it had not seen, a content that
\* the manifest records, and that an ingest will skip as unchanged, has its page.
THEOREM OwnPagesRemain == PgSpec => []OwnPagesStay
<1>1. PgInv => OwnPagesStay
  BY DEF PgInv
<1>2. QED
  BY <1>1, PgAlways, PTL

\* And every concept that a source's record names has its page: cleanups and prunes
\* leave it, whatever the interleaving of the job with the routes.
THEOREM ConceptPagesRemain == PgSpec => []ConceptsHavePages
<1>1. PgInv => ConceptsHavePages
  BY DEF PgInv
<1>2. QED
  BY <1>1, PgAlways, PTL

\* A save that loses nothing writes what a job or a route made of this manifest.
LEMMA OutStays ==
  ASSUME PgInv, PgNext, NEW e \in Entities, disk.out[e] # "in", disk'.out[e] = "in", ~lost'
  PROVE  rt.pc = "restore"
<1>0. PgTyped /\ Copies /\ disk \in Manifests /\ rt.mem \in Manifests /\ jb.mem \in Manifests
  BY PgParts
<1>1. disk' # disk
  BY PgParts
<1>2. CASE CompileIndexes \/ ReprocessEnds
  <2>1. SaveManifest(jb.mem, jb.base)
    BY <1>2 DEF CompileIndexes, ReprocessEnds
  <2>2. disk' = jb.mem /\ disk = jb.base
    BY <1>0, <2>1, SaveFacts
  <2>3. QED
    BY <1>0, <2>2 DEF Copies, Kin
<1>3. CASE PromoteHash
  <2>1. PICK c : /\ SaveManifest(c, jb.base)
                 /\ \/ c = jb.mem
                    \/ c = [jb.mem EXCEPT !.rec[jb.bundle.src].hash = jb.bundle.content]
    BY <1>3 DEF PromoteHash
  <2>2. disk' = c /\ disk = jb.base
    BY <1>0, <2>1, SaveFacts
  <2>3. c.out = jb.mem.out
    BY <1>0, <2>1 DEF Manifests
  <2>4. QED
    BY <1>0, <2>2, <2>3 DEF Copies, Kin
<1>4. ASSUME NEW d \in Entities, NEW alias \in Entities \cup {"noise"}, Dismiss(d, alias) PROVE FALSE
  <2>1. PICK c : c = Dismissed(rt.mem, d, alias) /\ SaveManifest(c, rt.base)
    BY <1>4 DEF Dismiss
  <2>2. disk' = c /\ disk = rt.mem
    BY <1>0, <2>1, SaveFacts DEF Copies
  <2>3. c.out = [rt.mem.out EXCEPT ![d] = alias] /\ alias # "in"
    BY <2>1, EntityFacts DEF Dismissed, Manifest
  <2>4. rt.mem.out \in [Entities -> {"in", "noise"} \cup Entities]
    BY <1>0 DEF Manifests
  <2>5. QED
    BY <2>2, <2>3, <2>4
<1>5. ASSUME NEW flagged, LintPrunes(flagged) PROVE FALSE
  <2>1. PICK c : c = Pruned(rt.mem, flagged) /\ SaveManifest(c, rt.base)
    BY <1>5 DEF LintPrunes
  <2>2. disk' = c /\ disk = rt.mem
    BY <1>0, <2>1, SaveFacts DEF Copies
  <2>3. c.out[e] \in {"noise", rt.mem.out[e]}
    BY <2>1 DEF Pruned, Manifest
  <2>4. QED
    BY <2>2, <2>3
<1>6. ASSUME NEW d \in Entities, Restore(d) PROVE rt.pc = "restore"
  BY <1>6 DEF Restore
<1>7. UNCHANGED disk \/ CompileIndexes \/ PromoteHash \/ ReprocessEnds
      \/ (\E d \in Entities, alias \in Entities \cup {"noise"} : Dismiss(d, alias))
      \/ (\E d \in Entities : Restore(d)) \/ (\E flagged : LintPrunes(flagged))
  BY DEF PgNext, WebChanges, StartIngest, BootRunner, JobCleansUp, Fetch, WritePages, Report, Drained,
         Backfill, JobStops, RouteLoads, RefreshChecks, RefreshCleansUp, LintPreview, LintChecks
<1>8. QED
  BY <1>1, <1>2, <1>3, <1>4, <1>5, <1>6, <1>7

\* A dismissed entity comes back by its restoration only, or by a save that writes
\* over what it had not seen.
THEOREM DismissalsStick == PgSpec => DismissalSticks
<1>1. ASSUME PgInv, [PgNext]_pages
      PROVE  [\A e \in Entities : disk.out[e] # "in" /\ disk'.out[e] = "in"
                => rt.pc = "restore" \/ lost']_pages
  <2>1. CASE UNCHANGED pages
    BY <2>1
  <2>2. CASE PgNext
    BY <1>1, <2>2, OutStays
  <2>3. QED
    BY <1>1, <2>1, <2>2
<1>2. QED
  BY <1>1, PgAlways, PTL DEF PgSpec, DismissalSticks
==============================================================================
