---------------------------- MODULE ControlProofs ----------------------------
(***************************************************************************)
(* Proofs about the control plane: its types, the approvals of its runs, the *)
(* occurrences of its scheduled jobs and the iterations of its objective,    *)
(* for any number of runs, jobs and threads and any requests.                *)
(***************************************************************************)
EXTENDS ControlPlane, FiniteSetTheorems, TLAPS

----------------------------------------------------------------------------
(* The invariants.                                                           *)

RunRec == [st : RunStatuses, step : StepStatuses, needs : BOOLEAN,
           kind : {"plain", "iteration"}, first : BOOLEAN,
           job : Jobs \cup {0}, occ : 0..MaxOcc]
JobRec == [st : {"none", "on", "off", "gone"}, auto : BOOLEAN,
           needs : BOOLEAN, due : BOOLEAN, occ : 0..MaxOcc]
ObjectiveRec == [entry : 0..NEntries, status : Statuses, running : Runs \cup {0},
                 job : Jobs \cup {0}, iter : Nat]
ExecRec == [pc : Pcs, run : Runs \cup {0}, phase : 0..MaxPhases,
            entry : 0..NEntries, iter : Nat,
            out : {"none", "completed", "failed", "cancelled"},
            stop : BOOLEAN, job : Jobs \cup {0}, made : Jobs \cup {0}]
LoopRec == [pc : {"idle", "tick", "recover", "start", "bootstrap", "status", "delete", "pop",
                  "runs", "down"},
            set : SUBSET (Runs \cup Jobs),
            arg : {"none", "idle", "start", "runs", "bootstrap", "active", "paused_denied"},
            occ : [Jobs -> 0..MaxOcc]]

\* What an executor holds: a run, an outcome once its step is over, and the number
\* of its iteration from the first phase on.
ExecOK(e) ==
  /\ e \in ExecRec
  /\ e.pc # "idle" => e.run \in Runs
  /\ e.pc \notin {"idle", "read", "mark", "begin", "phase"} => e.out # "none"
  /\ e.phase # 0 => e.iter # 0

\* What the loop is in the middle of says where it goes on.
LoopOK ==
  /\ loop \in LoopRec
  /\ loop.pc = "recover" => loop.arg \in {"idle", "start"}
  /\ loop.pc \in {"delete", "pop"} => loop.arg \in {"idle", "runs"}
  /\ loop.pc = "status" => loop.arg \in {"bootstrap", "active", "paused_denied"}
  /\ loop.pc = "start" \/ (loop.pc = "recover" /\ loop.arg = "start")
       => Present \/ objective.entry < NEntries
  /\ loop.pc = "tick" => loop.set # {} /\ loop.set \subseteq Jobs

Typed ==
  /\ run \in [Runs -> RunRec]
  /\ approval \in [Runs -> {"none", "pending", "approved", "rejected", "expired"}]
  /\ jobs \in [Jobs -> JobRec]
  /\ objective \in ObjectiveRec
  /\ ledger \in Nat
  /\ stops \subseteq Runs
  /\ exec \in [Executors -> ExecRec] /\ \A x \in Executors : ExecOK(exec[x])
  /\ LoopOK
  /\ workload \in Workloads /\ crashes \in Nat /\ crashes <= workload.crashes

\* A run that was executed or may be has its approval, also the run of an executor
\* that has looked at it already; what is pending needs an answer.
Approved(r) ==
  /\ run[r].st = "pending_approval" <=> approval[r] = "pending"
  /\ approval[r] = "pending" => run[r].needs
  /\ run[r].needs /\ (run[r].step # "pending" \/ run[r].st \in {"approved", "running"})
       => approval[r] = "approved"

Cleared(r) == run[r].st # "none" /\ (run[r].needs => approval[r] = "approved")

Approvals ==
  /\ \A r \in Runs : Approved(r)
  /\ \A x \in Executors : exec[x].pc \notin {"idle", "read"} => Cleared(exec[x].run)

\* A run of a job is for a time of it that has gone by: for one before the time that
\* is due now, and before the one the tick at work is about.
Made(r, j) == run[r].occ # 0 /\ run[r].job = j

Occurrences ==
  /\ OncePerOccurrence
  /\ \A r \in Runs, j \in Jobs : Made(r, j) =>
       /\ jobs[j].st # "none"
       /\ Here(j) => run[r].occ <= jobs[j].occ
       /\ Here(j) /\ jobs[j].due => run[r].occ < jobs[j].occ
       /\ loop.pc = "tick" /\ j \in loop.set => run[r].occ < loop.occ[j]
  /\ \A r \in Runs : run[r].occ # 0 => run[r].job \in Jobs
  /\ loop.pc = "tick" => \A j \in loop.set :
       /\ Here(j) /\ loop.occ[j] <= jobs[j].occ
       /\ jobs[j].due => loop.occ[j] < jobs[j].occ

IInv == Typed /\ Approvals /\ Occurrences

----------------------------------------------------------------------------
(* The least and the greatest of some naturals: of the parts of a set that   *)
(* lie below one of its members, which are finite, one is the smallest.      *)

LEMMA SomeLeast ==
  ASSUME NEW S \in SUBSET Nat, S # {}
  PROVE  \E x \in S : \A y \in S : x <= y
<1> DEFINE Down(n) == {s \in S : s <= n}
           Downs == {Down(n) : n \in S}
<1>1. Downs \subseteq FiniteSubsetsOf(S)
  <2>1. \A n \in S : IsFiniteSet(Down(n))
    <3>1. TAKE n \in S
    <3>2. Down(n) \in SUBSET Nat /\ \A s \in Down(n) : s <= n
      OBVIOUS
    <3> HIDE DEF Down
    <3>3. QED
      BY <3>2, FS_BoundedSetOfNaturals
  <2>2. QED
    BY <2>1 DEF FiniteSubsetsOf
<1>2. PICK D \in Downs : \A E \in Downs : ~ (<<E, D>> \in StrictSubsetOrdering(S))
  <2>1. Downs # {}
    OBVIOUS
  <2> DEFINE Sub == StrictSubsetOrdering(S)
             F == FiniteSubsetsOf(S)
  <2>2. IsWellFoundedOn(Sub, F)
    BY FS_StrictSubsetOrderingWellFounded
  <2> HIDE DEF Downs, Sub, F
  <2>3. \E D \in Downs : \A E \in Downs : ~ (<<E, D>> \in Sub)
    BY <1>1, <2>1, <2>2, WFMin DEF F
  <2>4. QED
    BY <2>3 DEF Sub
<1>3. PICK x \in S : D = Down(x)
  BY <1>2
<1>4. ASSUME NEW y \in S, y < x PROVE FALSE
  <2>1. x \in Nat /\ y \in Nat /\ S \subseteq Nat
    OBVIOUS
  <2>2. x \in Down(x) /\ x \notin Down(y)
    BY <1>4, <2>1
  <2>3. ASSUME NEW s \in Down(y) PROVE s \in Down(x)
    BY <1>4, <2>1, <2>3
  <2> HIDE DEF Down
  <2>4. Down(y) \in Downs /\ Down(y) \in SUBSET S /\ D \in SUBSET S
    BY <1>1 DEF FiniteSubsetsOf
  <2>5. <<Down(y), D>> \in (SUBSET S) \X (SUBSET S) /\ Down(y) \subseteq D /\ Down(y) # D
    BY <1>3, <2>2, <2>3, <2>4
  <2>6. <<Down(y), D>> \in StrictSubsetOrdering(S)
    BY <2>5 DEF StrictSubsetOrdering
  <2>7. QED
    BY <1>2, <2>4, <2>6
<1>5. QED
  BY <1>4

LEMMA MinIsLeast == ASSUME NEW S \in SUBSET Nat, S # {}
                    PROVE  Min(S) \in S /\ \A y \in S : Min(S) <= y
  BY SomeLeast DEF Min

LEMMA MaxOfTwo == ASSUME NEW a \in Nat, NEW b \in Nat
                  PROVE  Max({a, b}) \in Nat /\ Max({a, b}) >= a /\ Max({a, b}) >= b
<1>1. \E x \in {a, b} : \A y \in {a, b} : x >= y
  OBVIOUS
<1>2. QED
  BY <1>1 DEF Max

----------------------------------------------------------------------------
(* Types.                                                                    *)

ExecsOK == exec \in [Executors -> ExecRec] /\ \A x \in Executors : ExecOK(exec[x])

LEMMA Constants ==
  /\ 0 \in 0..MaxOcc /\ 0 \in 0..NEntries /\ 0 \in 0..MaxPhases /\ 0 \in Nat
  /\ NRuns \in Nat /\ NJobs \in Nat /\ NEntries \in Nat /\ MaxPhases \in Nat /\ MaxOcc \in Nat
  /\ Runs \subseteq Nat /\ Jobs \subseteq Nat /\ 0 \notin Jobs
  BY ControlBounds DEF Runs, Jobs

LEMMA Records ==
  /\ NoRun \in RunRec /\ NoJob \in JobRec /\ NoObjective \in ObjectiveRec
  /\ Free \in LoopRec /\ ExecOK(Idle)
  /\ \A r \in Runs : ExecOK(Enter(r))
<1>1. NoRun \in RunRec /\ NoJob \in JobRec /\ NoObjective \in ObjectiveRec
  BY Constants DEF NoRun, RunRec, RunStatuses, StepStatuses, NoJob, JobRec, NoObjective,
     ObjectiveRec, Statuses
<1>2. Free \in LoopRec
  BY Constants DEF Free, LoopRec
<1>3. Idle \in ExecRec
  BY Constants DEF Idle, ExecRec, Pcs
<1>4. ASSUME NEW r \in Runs PROVE ExecOK(Enter(r))
  <2>1. Enter(r) = [Idle EXCEPT !.pc = "read", !.run = r]
    BY DEF Enter
  <2>2. Enter(r) \in ExecRec /\ Enter(r).pc = "read" /\ Enter(r).run = r /\ Enter(r).phase = 0
    BY <1>3, <1>4, <2>1 DEF ExecRec, Pcs, Idle
  <2>3. QED
    BY <2>2 DEF ExecOK
<1>5. ExecOK(Idle)
  BY <1>3 DEF ExecOK, Idle
<1>6. QED
  BY <1>1, <1>2, <1>4, <1>5

\* One executor moves.
LEMMA OneMoves ==
  ASSUME ExecsOK, NEW x \in Executors, NEW e, ExecOK(e), exec' = [exec EXCEPT ![x] = e]
  PROVE  ExecsOK'
<1>1. e \in ExecRec
  BY DEF ExecOK
<1>2. exec' \in [Executors -> ExecRec] /\ \A y \in Executors : exec'[y] = e \/ exec'[y] = exec[y]
  BY <1>1 DEF ExecsOK
<1>3. QED
  BY <1>2 DEF ExecsOK

\* Where it is after that, by a step that only moves it, and when it leaves.
LEMMA GoesOn ==
  ASSUME ExecsOK, NEW x \in Executors, NEW pc \in Pcs \ {"idle", "phase"}, exec[x].pc # "idle",
         pc \in {"read", "mark", "begin"} \/ exec[x].out # "none", Goto(x, pc)
  PROVE  ExecsOK'
<1> DEFINE e == [exec[x] EXCEPT !.pc = pc]
<1>1. exec' = [exec EXCEPT ![x] = e]
  BY DEF Goto
<1>2. exec[x] \in ExecRec /\ exec[x].run \in Runs /\ (exec[x].phase # 0 => exec[x].iter # 0)
  BY DEF ExecsOK, ExecOK
<1>3. /\ e \in ExecRec /\ e.pc = pc /\ e.run = exec[x].run /\ e.out = exec[x].out
      /\ e.phase = exec[x].phase /\ e.iter = exec[x].iter
  BY <1>2 DEF ExecRec
<1>4. ExecOK(e)
  BY <1>2, <1>3 DEF ExecOK
<1>5. QED
  BY <1>1, <1>4, OneMoves

LEMMA Leaves ==
  ASSUME ExecsOK, NEW x \in Executors, Leave(x)
  PROVE  ExecsOK'
  BY OneMoves, Records DEF Leave

\* An executor enters a run.
LEMMA Enters ==
  ASSUME ExecsOK, NEW r \in Runs, StartHere(r) \/ StartThread(r) \/ UNCHANGED exec
  PROVE  ExecsOK'
<1>1. CASE UNCHANGED exec
  BY <1>1 DEF ExecsOK
<1>2. CASE StartHere(r)
  <2>1. Loop \in Executors
    BY DEF Executors
  <2>2. QED
    BY <1>2, <2>1, OneMoves, Records DEF StartHere
<1>3. CASE StartThread(r)
  <2>1. PICK x \in IdleThreads : exec' = [exec EXCEPT ![x] = Enter(r)]
    BY <1>3 DEF StartThread
  <2>2. x \in Executors
    BY DEF IdleThreads, Executors
  <2>3. QED
    BY <2>1, <2>2, OneMoves, Records
<1>4. QED
  BY <1>1, <1>2, <1>3

LEMMA TypesInit == Init => Typed
<1> SUFFICES ASSUME Init PROVE Typed
  OBVIOUS
<1>1. run \in [Runs -> RunRec] /\ jobs \in [Jobs -> JobRec] /\ objective \in ObjectiveRec
  BY Records DEF Init
<1>2. exec \in [Executors -> ExecRec] /\ \A x \in Executors : ExecOK(exec[x])
  BY Records DEF Init, ExecOK
<1>3. LoopOK
  BY Records DEF Init, LoopOK, Free
<1>4. workload \in Workloads /\ crashes \in Nat /\ crashes <= workload.crashes
  BY ControlBounds DEF Init
<1>5. QED
  BY <1>1, <1>2, <1>3, <1>4 DEF Init, Typed

LEMMA Parts ==
  ASSUME Typed
  PROVE  /\ run \in [Runs -> RunRec] /\ jobs \in [Jobs -> JobRec] /\ objective \in ObjectiveRec
         /\ approval \in [Runs -> {"none", "pending", "approved", "rejected", "expired"}]
         /\ ledger \in Nat /\ stops \subseteq Runs /\ ExecsOK /\ LoopOK /\ loop \in LoopRec
  BY DEF Typed, ExecsOK, LoopOK

----------------------------------------------------------------------------
(* Who writes the runs and their approvals.                                  *)

News == {n \in RunRec : n.st = "none" /\ n.step = "pending"}

\* All that a step does to runs and approvals; only a tick makes a run for a time.
RunMoves ==
  \/ UNCHANGED <<run, approval>>
  \/ \E r \in Runs, new \in News : Created(r, new) /\ (new.occ = 0 \/ TickJob)
  \/ \E r \in Runs, approve \in BOOLEAN : ResolveApproval(r, approve)
  \/ ListApprovals
  \/ \E rs \in SUBSET Runs : Deleted(rs)
  \/ Recover
  \/ \E x \in Executors : MarkRunning(x) \/ StepOff(x) \/ Finalize(x)

LEMMA NewRuns ==
  ASSUME Typed
  PROVE  /\ \A kind \in {"plain", "iteration"}, needs \in BOOLEAN :
              NewRun(kind, needs) \in News /\ NewRun(kind, needs).occ = 0
         /\ FirstRun \in News /\ FirstRun.occ = 0
         /\ \A j \in Jobs : \A n \in 0..MaxOcc :
              /\ [JobRun(j) EXCEPT !.job = j] \in News /\ [JobRun(j) EXCEPT !.job = j].occ = 0
              /\ [JobRun(j) EXCEPT !.job = j, !.occ = n] \in News
              /\ [JobRun(j) EXCEPT !.job = j, !.occ = n].job = j
              /\ [JobRun(j) EXCEPT !.job = j, !.occ = n].occ = n
<1>1. NoRun \in RunRec /\ NoRun.st = "none" /\ NoRun.step = "pending" /\ NoRun.occ = 0
  BY Records DEF NoRun
<1>2. ASSUME NEW kind \in {"plain", "iteration"}, NEW needs \in BOOLEAN
      PROVE  NewRun(kind, needs) \in News /\ NewRun(kind, needs).occ = 0
  BY <1>1 DEF NewRun, News, RunRec
<1>3. FirstRun \in News /\ FirstRun.occ = 0
  BY <1>1 DEF FirstRun, News, RunRec
<1>4. ASSUME NEW j \in Jobs, NEW n \in 0..MaxOcc
      PROVE  /\ [JobRun(j) EXCEPT !.job = j] \in News /\ [JobRun(j) EXCEPT !.job = j].occ = 0
             /\ [JobRun(j) EXCEPT !.job = j, !.occ = n] \in News
             /\ [JobRun(j) EXCEPT !.job = j, !.occ = n].job = j
             /\ [JobRun(j) EXCEPT !.job = j, !.occ = n].occ = n
  <2>1. jobs[j].needs \in BOOLEAN
    BY <1>4, Parts DEF JobRec
  <2>2. JobRun(j) \in News /\ JobRun(j).occ = 0
    BY <1>2, <2>1 DEF JobRun
  <2>3. QED
    BY <1>4, <2>2 DEF News, RunRec
<1>5. QED
  BY <1>2, <1>3, <1>4

LEMMA RunSteps == ASSUME Typed, Next PROVE RunMoves
<1>1. CASE \E x \in Executors : Execute(x)
  <2>1. PICK x \in Executors : Execute(x)
    BY <1>1
  <2>2. CASE MarkRunning(x) \/ StepOff(x) \/ Finalize(x)
    BY <2>2 DEF RunMoves
  <2>3. CASE ReadStatus(x) \/ Begin(x) \/ Phase(x) \/ ClearStop(x) \/ ClearActivity(x) \/ After(x)
    BY <2>3 DEF RunMoves, ReadStatus, Begin, Phase, ClearStop, ClearActivity, After, store
  <2>4. CASE Schedule(x) \/ Insert(x) \/ Link(x) \/ UpdateObjective(x) \/ DisableJob(x)
    BY <2>4 DEF RunMoves, Schedule, Insert, Link, UpdateObjective, DisableJob
  <2>5. QED
    BY <2>1, <2>2, <2>3, <2>4 DEF Execute
<1>2. CASE (\E j \in Jobs : FallDue(j)) \/ Tick \/ Crash \/ Boot
  BY <1>2 DEF RunMoves, FallDue, Tick, Crash, Boot, store
<1>3. CASE GoOn
  <2>1. CASE TickJob
    <3>1. loop.set \subseteq Jobs /\ loop.set # {} /\ loop \in LoopRec /\ Jobs \subseteq Nat
      BY <2>1, Parts, Constants DEF TickJob, LoopOK
    <3>2. PICK j \in Jobs : j = Min(loop.set)
      BY <3>1, MinIsLeast
    <3>3. loop.occ[j] \in 0..MaxOcc
      BY <3>1 DEF LoopRec
    <3>4. \E r \in Runs : Created(r, [JobRun(j) EXCEPT !.job = j, !.occ = loop.occ[j]])
      BY <2>1, <3>2 DEF TickJob
    <3>5. [JobRun(j) EXCEPT !.job = j, !.occ = loop.occ[j]] \in News
      BY <3>3, NewRuns
    <3>6. QED
      BY <2>1, <3>4, <3>5 DEF RunMoves
  <2>2. CASE Recover
    BY <2>2 DEF RunMoves
  <2>3. CASE Bootstrap
    <3>1. \E r \in Runs : Created(r, FirstRun)
      BY <2>3 DEF Bootstrap
    <3>2. QED
      BY <3>1, NewRuns DEF RunMoves
  <2>4. CASE CleanupRuns
    <3>1. Deleted({r \in Runs : Exists(r) /\ run[r].kind = "iteration"})
      BY <2>4 DEF CleanupRuns
    <3>2. QED
      BY <3>1 DEF RunMoves
  <2>5. CASE StartFound \/ SetStatus \/ DeleteJobs \/ PopObjective
    BY <2>5 DEF RunMoves, StartFound, SetStatus, DeleteJobs, PopObjective
  <2>6. QED
    BY <1>3, <2>1, <2>2, <2>3, <2>4, <2>5 DEF GoOn
<1>4. ASSUME NEW j \in Jobs, RunJob(j) PROVE RunMoves
  <2>1. \E r \in Runs : Created(r, [JobRun(j) EXCEPT !.job = j])
    BY <1>4 DEF RunJob
  <2>2. 0 \in 0..MaxOcc
    BY Constants
  <2>3. QED
    BY <2>1, <2>2, NewRuns DEF RunMoves
<1>5. CASE Request
  <2>1. CASE RunRequest
    <3>1. ASSUME NEW r \in Runs, NEW kind \in {"plain", "iteration"}, NEW needs \in BOOLEAN,
                 CreateRun(r, kind, needs)
          PROVE  RunMoves
      <4>1. Created(r, NewRun(kind, needs))
        BY <3>1 DEF CreateRun
      <4>2. NewRun(kind, needs) \in News /\ NewRun(kind, needs).occ = 0
        BY NewRuns
      <4>3. QED
        BY <4>1, <4>2 DEF RunMoves
    <3>2. CASE CleanupScheduled
      <4>1. PICK rs \in SUBSET {r \in Runs : run[r].job # 0 /\ run[r].st \in Terminal} : Deleted(rs)
        BY <3>2 DEF CleanupScheduled
      <4>2. rs \in SUBSET Runs
        OBVIOUS
      <4>3. QED
        BY <4>1, <4>2 DEF RunMoves
    <3>3. CASE ListApprovals \/ (\E r \in Runs, approve \in BOOLEAN : ResolveApproval(r, approve))
      BY <3>3 DEF RunMoves
    <3>4. CASE CleanupAutoresearch \/ \E r \in Runs : StartRun(r)
      BY <3>4 DEF RunMoves, CleanupAutoresearch, StartRun, store
    <3>5. QED
      BY <2>1, <3>1, <3>2, <3>3, <3>4 DEF RunRequest
  <2>2. CASE JobRequest
    <3>1. PICK j \in Jobs : (\E needs \in BOOLEAN : CreateJob(j, needs))
                            \/ DeleteJob(j) \/ UpdateJob(j) \/ RunJob(j)
      BY <2>2 DEF JobRequest
    <3>2. CASE (\E needs \in BOOLEAN : CreateJob(j, needs)) \/ DeleteJob(j) \/ UpdateJob(j)
      BY <3>2 DEF RunMoves, CreateJob, DeleteJob, UpdateJob
    <3>3. QED
      BY <1>4, <3>1, <3>2
  <2>3. CASE RunObjectiveNow
    <3>1. objective.job \in Jobs \cup {0}
      BY Parts DEF ObjectiveRec
    <3>2. CASE objective.job # 0
      BY <1>4, <2>3, <3>1, <3>2 DEF RunObjectiveNow
    <3>3. CASE objective.job = 0
      <4>1. \E r \in Runs : Created(r, FirstRun)
        BY <2>3, <3>3 DEF RunObjectiveNow
      <4>2. QED
        BY <4>1, NewRuns DEF RunMoves
    <3>4. QED
      BY <3>2, <3>3
  <2>4. CASE ListTemplates \/ StartObjective \/ StopObjective \/ ObjectiveRequest
    BY <2>4 DEF RunMoves, ListTemplates, StartObjective, StopObjective, ObjectiveRequest,
       PauseOrResume, DeleteObjective, store
  <2>5. QED
    BY <1>5, <2>1, <2>2, <2>3, <2>4 DEF Request, IterationRequest
<1>6. QED
  BY <1>1, <1>2, <1>3, <1>5 DEF Next

LEMMA RunTypes ==
  ASSUME Typed, Next
  PROVE  /\ run' \in [Runs -> RunRec]
         /\ approval' \in [Runs -> {"none", "pending", "approved", "rejected", "expired"}]
<1>0. /\ run \in [Runs -> RunRec] /\ ExecsOK
      /\ approval \in [Runs -> {"none", "pending", "approved", "rejected", "expired"}]
  BY Parts
<1> DEFINE Goal == /\ run' \in [Runs -> RunRec]
                   /\ approval' \in [Runs -> {"none", "pending", "approved", "rejected", "expired"}]
<1>1. CASE UNCHANGED <<run, approval>>
  BY <1>0, <1>1
<1>2. ASSUME NEW r \in Runs, NEW new \in News, Created(r, new) PROVE Goal
  BY <1>0, <1>2 DEF Created, News, RunRec, RunStatuses
<1>3. ASSUME NEW r \in Runs, NEW approve \in BOOLEAN, ResolveApproval(r, approve) PROVE Goal
  BY <1>0, <1>3 DEF ResolveApproval, RunRec, RunStatuses, Terminal
<1>4. CASE ListApprovals
  <2>1. PICK late \in SUBSET Runs :
             /\ approval' = [r \in Runs |-> IF r \in late THEN "expired" ELSE approval[r]]
             /\ run' = Cancelled(run, late)
    BY <1>4 DEF ListApprovals
  <2>2. \A r \in Runs : [run[r] EXCEPT !.st = "cancelled"] \in RunRec
    BY <1>0 DEF RunRec, RunStatuses, Terminal
  <2>3. QED
    BY <1>0, <2>1, <2>2 DEF Cancelled
<1>5. ASSUME NEW rs \in SUBSET Runs, Deleted(rs) PROVE Goal
  <2>1. [NoRun EXCEPT !.st = "gone"] \in RunRec
    BY Records DEF RunRec, RunStatuses
  <2>2. QED
    BY <1>0, <1>5, <2>1 DEF Deleted
<1>6. CASE Recover
  <2>1. \A r \in Runs : [run[r] EXCEPT !.st = IF @ = "running" THEN "failed" ELSE @,
                                       !.step = IF @ = "running" THEN "failed" ELSE @] \in RunRec
    <3>1. TAKE r \in Runs
    <3>2. run[r] \in RunRec
      BY <1>0
    <3>3. \A st \in RunStatuses, step \in StepStatuses :
            [run[r] EXCEPT !.st = st, !.step = step] \in RunRec
      BY <3>2 DEF RunRec
    <3>4. /\ (IF run[r].st = "running" THEN "failed" ELSE run[r].st) \in RunStatuses
          /\ (IF run[r].step = "running" THEN "failed" ELSE run[r].step) \in StepStatuses
      BY <3>2 DEF RunRec, RunStatuses, StepStatuses, Terminal
    <3>5. QED
      BY <3>3, <3>4
  <2>2. QED
    BY <1>0, <1>6, <2>1 DEF Recover, Recovered
<1>7. ASSUME NEW x \in Executors, MarkRunning(x) \/ StepOff(x) \/ Finalize(x) PROVE Goal
  <2>1. exec[x] \in ExecRec /\ ExecOK(exec[x])
    BY <1>0 DEF ExecsOK
  <2>2. CASE MarkRunning(x)
    BY <1>0, <2>2 DEF MarkRunning, RunRec, RunStatuses, StepStatuses
  <2>3. CASE StepOff(x)
    <3>1. exec[x].out \in StepStatuses
      BY <2>1, <2>3 DEF StepOff, At, ExecRec, ExecOK, StepStatuses
    <3>2. QED
      BY <1>0, <2>3, <3>1 DEF StepOff, RunRec
  <2>4. CASE Finalize(x)
    <3>1. exec[x].out \in RunStatuses
      BY <2>1, <2>4 DEF Finalize, ExecRec, RunStatuses, Terminal
    <3>2. QED
      BY <1>0, <2>4, <3>1 DEF Finalize, RunRec
  <2>5. QED
    BY <1>7, <2>2, <2>3, <2>4
<1>8. RunMoves
  BY RunSteps
<1>9. QED
  BY <1>1, <1>2, <1>3, <1>4, <1>5, <1>6, <1>7, <1>8 DEF RunMoves

----------------------------------------------------------------------------
(* Who writes the jobs.                                                      *)

\* A job that goes on is not due unless it was, one that is deleted stays so, and a
\* new one has no time yet.
Calm(old, new) ==
  \/ /\ new.occ = old.occ /\ (new.due => old.due)
     /\ new.st = old.st \/ {new.st, old.st} \subseteq {"on", "off"}
  \/ old.st # "none" /\ new.st = "gone"
  \/ old.st = "none" /\ new.occ = 0 /\ ~new.due

JobsTyped == jobs' \in [Jobs -> JobRec]
CalmJobs == \A j \in Jobs : Calm(jobs[j], jobs'[j])
Kept == \A j \in Jobs : Here(j) => Here(j)'

LEMMA EnabledJobs ==
  ASSUME Typed, NEW j \in Jobs \cup {0}, NEW on \in BOOLEAN, jobs' = Enabled(jobs, j, on)
  PROVE  JobsTyped /\ CalmJobs /\ Kept
<1>0. jobs \in [Jobs -> JobRec] /\ 0 \notin Jobs
  BY Parts, Constants
<1>1. CASE jobs' = jobs
  BY <1>0, <1>1 DEF JobsTyped, CalmJobs, Calm, Kept, Here
<1>2. CASE jobs' # jobs
  <2>1. j \in Jobs /\ jobs[j].st \in {"on", "off"}
    BY <1>2 DEF Enabled
  <2> DEFINE st == IF on THEN "on" ELSE "off"
             due == jobs[j].due /\ ~on
  <2>2. jobs' = [jobs EXCEPT ![j].st = st, ![j].due = due]
    BY <1>2 DEF Enabled
  <2>3. st \in {"on", "off"} /\ due \in BOOLEAN /\ (due => jobs[j].due)
    <3>1. jobs[j].due \in BOOLEAN
      BY <1>0, <2>1 DEF JobRec
    <3>2. QED
      BY <3>1
  <2> HIDE DEF st, due
  <2>4. /\ jobs'[j].st = st /\ jobs'[j].due = due /\ jobs'[j].occ = jobs[j].occ
        /\ jobs'[j] \in JobRec
        /\ \A k \in Jobs : k # j => jobs'[k] = jobs[k]
        /\ jobs' = [k \in Jobs |-> jobs'[k]]
    BY <1>0, <2>1, <2>2, <2>3, ZenonT(40) DEF JobRec
  <2>5. JobsTyped
    BY <1>0, <2>4 DEF JobsTyped
  <2>6. CalmJobs
    BY <2>1, <2>3, <2>4 DEF CalmJobs, Calm
  <2>7. Kept
    BY <2>3, <2>4 DEF Kept, Here
  <2>8. QED
    BY <2>5, <2>6, <2>7
<1>3. QED
  BY <1>1, <1>2

\* A job that is new, as the scheduler or an executor makes it.
LEMMA NewJobs ==
  ASSUME Typed, NEW j \in NextJob, NEW new \in JobRec, new.st = "on", new.occ = 0, ~new.due,
         jobs' = [jobs EXCEPT ![j] = new]
  PROVE  JobsTyped /\ CalmJobs /\ Kept
<1>0. jobs \in [Jobs -> JobRec] /\ j \in Jobs /\ jobs[j].st = "none"
  BY Parts DEF NextJob
<1>1. QED
  BY <1>0 DEF JobsTyped, CalmJobs, Calm, Kept, Here

\* Jobs that are deleted.
LEMMA GoneJobs ==
  ASSUME Typed, NEW js \in SUBSET Jobs, \A j \in js : Here(j),
         jobs' = [j \in Jobs |-> IF j \in js THEN [NoJob EXCEPT !.st = "gone"] ELSE jobs[j]]
  PROVE  JobsTyped /\ CalmJobs
<1>0. jobs \in [Jobs -> JobRec]
  BY Parts
<1>1. [NoJob EXCEPT !.st = "gone"] \in JobRec /\ [NoJob EXCEPT !.st = "gone"].st = "gone"
  BY Records DEF JobRec, NoJob
<1>2. QED
  BY <1>0, <1>1 DEF JobsTyped, CalmJobs, Calm, Here

LEMMA SameJobs == ASSUME Typed, UNCHANGED jobs PROVE JobsTyped /\ CalmJobs /\ Kept
  BY Parts DEF JobsTyped, CalmJobs, Calm, Kept, Here

\* All that a step does to the jobs; none is deleted while a tick is at work.
JobMoves == /\ JobsTyped
            /\ CalmJobs \/ \E j \in Jobs : FallDue(j)
            /\ loop.pc = "tick" => Kept

LEMMA JobSteps == ASSUME Typed, Next PROVE JobMoves
<1>0. /\ jobs \in [Jobs -> JobRec] /\ objective \in ObjectiveRec /\ ExecsOK /\ Jobs \subseteq Nat
      /\ objective.job \in Jobs \cup {0}
  BY Parts, Constants DEF ObjectiveRec
<1>1. CASE UNCHANGED jobs
  BY <1>1, SameJobs DEF JobMoves
<1>2. CASE \E x \in Executors : Execute(x)
  <2>1. PICK x \in Executors : Execute(x)
    BY <1>2
  <2>2. CASE Schedule(x)
    <3>1. CASE AutoJobs = {}
      BY <1>1, <2>2, <3>1 DEF Schedule
    <3>2. CASE AutoJobs # {}
      <4>1. PICK primary \in Jobs : primary = Min(AutoJobs)
        BY <1>0, <3>2, MinIsLeast DEF AutoJobs
      <4>2. jobs' = [j \in Jobs |->
              IF j \notin AutoJobs THEN jobs[j]
              ELSE IF j = primary THEN [jobs[j] EXCEPT !.st = "on", !.due = FALSE]
              ELSE [jobs[j] EXCEPT !.st = "off"]]
        BY <2>2, <3>2, <4>1 DEF Schedule
      <4>3. \A j \in Jobs : LET a == [jobs[j] EXCEPT !.st = "on", !.due = FALSE]
                                b == [jobs[j] EXCEPT !.st = "off"]
                            IN /\ a \in JobRec /\ a.st = "on" /\ ~a.due /\ a.occ = jobs[j].occ
                               /\ b \in JobRec /\ b.st = "off" /\ b.due = jobs[j].due /\ b.occ = jobs[j].occ
        BY <1>0 DEF JobRec
      <4>4. \A j \in AutoJobs : jobs[j].st \in {"on", "off"}
        BY DEF AutoJobs, Here
      <4>5. JobsTyped
        BY <1>0, <4>2, <4>3 DEF JobsTyped
      <4>6. CalmJobs
        BY <4>2, <4>3, <4>4 DEF CalmJobs, Calm
      <4>7. Kept
        BY <4>2, <4>3 DEF Kept, Here
      <4>8. QED
        BY <4>5, <4>6, <4>7 DEF JobMoves
    <3>3. QED
      BY <3>1, <3>2
  <2>3. CASE Insert(x)
    <3>1. CASE \E j \in NextJob : jobs' = [jobs EXCEPT ![j] = [NoJob EXCEPT !.st = "on", !.auto = TRUE]]
      <4>1. LET new == [NoJob EXCEPT !.st = "on", !.auto = TRUE]
            IN new \in JobRec /\ new.st = "on" /\ new.occ = 0 /\ ~new.due
        BY Records DEF NoJob, JobRec
      <4>2. QED
        BY <3>1, <4>1, NewJobs DEF JobMoves
    <3>2. QED
      BY <1>1, <2>3, <3>1 DEF Insert
  <2>4. CASE DisableJob(x)
    <3>1. exec[x].job \in Jobs \cup {0}
      BY <1>0 DEF ExecsOK, ExecRec
    <3>2. jobs' = Enabled(jobs, exec[x].job, FALSE)
      BY <2>4 DEF DisableJob
    <3>3. QED
      BY <3>1, <3>2, EnabledJobs DEF JobMoves
  <2>5. CASE ReadStatus(x) \/ MarkRunning(x) \/ Begin(x) \/ Phase(x) \/ ClearStop(x) \/ ClearActivity(x)
    BY <1>1, <2>5 DEF ReadStatus, MarkRunning, Begin, Phase, ClearStop, ClearActivity, store
  <2>6. CASE StepOff(x) \/ Finalize(x) \/ After(x) \/ Link(x) \/ UpdateObjective(x)
    BY <1>1, <2>6 DEF StepOff, Finalize, After, Link, UpdateObjective, store
  <2>7. QED
    BY <2>1, <2>2, <2>3, <2>4, <2>5, <2>6 DEF Execute
<1>3. CASE \E j \in Jobs : FallDue(j)
  <2>1. PICK j \in Jobs : FallDue(j)
    BY <1>3
  <2>2. jobs[j] \in JobRec /\ jobs[j].occ + 1 \in 0..MaxOcc
    BY <1>0, <2>1, ControlBounds DEF JobRec, FallDue
  <2>3. jobs' = [jobs EXCEPT ![j] = [jobs[j] EXCEPT !.due = TRUE, !.occ = jobs[j].occ + 1]]
    BY <2>1 DEF FallDue
  <2>4. LET new == [jobs[j] EXCEPT !.due = TRUE, !.occ = jobs[j].occ + 1]
        IN new \in JobRec /\ new.st = jobs[j].st
    BY <2>2 DEF JobRec
  <2>5. JobsTyped /\ Kept
    BY <1>0, <2>3, <2>4 DEF JobsTyped, Kept, Here
  <2>6. QED
    BY <1>3, <2>5 DEF JobMoves
<1>4. CASE Tick
  <2>1. jobs' = Advanced(jobs, {j \in Active : jobs[j].due}) /\ loop.pc # "tick"
    BY <1>4 DEF Tick, Serving
  <2>2. \A j \in Jobs : LET a == [jobs[j] EXCEPT !.due = FALSE]
                        IN a \in JobRec /\ a.st = jobs[j].st /\ a.occ = jobs[j].occ /\ ~a.due
    BY <1>0 DEF JobRec
  <2>3. JobsTyped
    BY <1>0, <2>1, <2>2 DEF JobsTyped, Advanced
  <2>4. CalmJobs
    BY <2>1, <2>2 DEF CalmJobs, Calm, Advanced
  <2>5. QED
    BY <2>1, <2>3, <2>4 DEF JobMoves
<1>5. CASE Crash \/ Boot
  BY <1>1, <1>5 DEF Crash, Boot, store
<1>6. CASE GoOn
  <2>1. CASE StartFound
    <3>1. CASE Present
      <4>1. jobs' = Enabled(jobs, objective.job, TRUE)
        BY <2>1, <3>1 DEF StartFound
      <4>2. QED
        BY <1>0, <4>1, EnabledJobs DEF JobMoves
    <3>2. QED
      BY <1>1, <2>1, <3>1 DEF StartFound
  <2>2. CASE DeleteJobs
    <3> DEFINE js == {j \in Jobs : j \in loop.set /\ Here(j)}
    <3>1. /\ jobs' = [j \in Jobs |-> IF j \in js THEN [NoJob EXCEPT !.st = "gone"] ELSE jobs[j]]
          /\ loop.pc # "tick"
      BY <2>2 DEF DeleteJobs
    <3>2. js \in SUBSET Jobs /\ \A j \in js : Here(j)
      OBVIOUS
    <3> HIDE DEF js
    <3>3. QED
      BY <3>1, <3>2, GoneJobs DEF JobMoves
  <2>3. CASE TickJob \/ Recover \/ Bootstrap \/ SetStatus \/ PopObjective \/ CleanupRuns
    BY <1>1, <2>3 DEF TickJob, Recover, Bootstrap, SetStatus, PopObjective, CleanupRuns
  <2>4. QED
    BY <1>6, <2>1, <2>2, <2>3 DEF GoOn
<1>7. ASSUME NEW j \in Jobs, RunJob(j) PROVE JobMoves
  <2>1. jobs' = Enabled(jobs, j, TRUE)
    BY <1>7 DEF RunJob
  <2>2. QED
    BY <2>1, EnabledJobs DEF JobMoves
<1>8. CASE Request
  <2>1. CASE RunRequest
    BY <1>1, <2>1 DEF RunRequest, CreateRun, StartRun, ResolveApproval, ListApprovals,
       CleanupScheduled, CleanupAutoresearch, store
  <2>2. CASE JobRequest
    <3>1. PICK j \in Jobs : (\E needs \in BOOLEAN : CreateJob(j, needs))
                            \/ DeleteJob(j) \/ UpdateJob(j) \/ RunJob(j)
      BY <2>2 DEF JobRequest
    <3>2. ASSUME NEW needs \in BOOLEAN, CreateJob(j, needs) PROVE JobMoves
      <4>1. LET new == [NoJob EXCEPT !.st = "on", !.needs = needs]
            IN new \in JobRec /\ new.st = "on" /\ new.occ = 0 /\ ~new.due
        BY Records DEF NoJob, JobRec
      <4>2. j \in NextJob /\ jobs' = [jobs EXCEPT ![j] = [NoJob EXCEPT !.st = "on", !.needs = needs]]
        BY <3>2 DEF CreateJob
      <4>3. QED
        BY <4>1, <4>2, NewJobs DEF JobMoves
    <3>3. CASE DeleteJob(j)
      <4>1. /\ jobs' = [k \in Jobs |-> IF k \in {j} THEN [NoJob EXCEPT !.st = "gone"] ELSE jobs[k]]
            /\ Here(j) /\ loop.pc # "tick"
        BY <1>0, <3>3 DEF DeleteJob, Serving
      <4>2. {j} \in SUBSET Jobs /\ \A k \in {j} : Here(k)
        BY <4>1
      <4>3. QED
        BY <4>1, <4>2, GoneJobs DEF JobMoves
    <3>4. CASE UpdateJob(j)
      <4>1. /\ jobs' = [jobs EXCEPT ![j] = [jobs[j] EXCEPT !.due = FALSE]]
            /\ loop.pc # "tick"
        BY <3>4 DEF UpdateJob, Serving
      <4>2. LET a == [jobs[j] EXCEPT !.due = FALSE]
            IN a \in JobRec /\ a.st = jobs[j].st /\ a.occ = jobs[j].occ /\ ~a.due
        BY <1>0 DEF JobRec
      <4>3. QED
        BY <1>0, <4>1, <4>2 DEF JobMoves, JobsTyped, CalmJobs, Calm
    <3>5. QED
      BY <1>7, <3>1, <3>2, <3>3, <3>4
  <2>3. CASE RunObjectiveNow
    <3>1. CASE objective.job # 0
      BY <1>0, <1>7, <2>3, <3>1 DEF RunObjectiveNow
    <3>2. QED
      BY <1>1, <2>3, <3>1 DEF RunObjectiveNow
  <2>4. CASE ListTemplates \/ StartObjective \/ StopObjective \/ \E then \in {"idle", "runs"} : DeleteObjective(then)
    BY <1>1, <2>4 DEF ListTemplates, StartObjective, StopObjective, DeleteObjective, store
  <2>5. ASSUME NEW status \in {"active", "paused_denied"}, PauseOrResume(status) PROVE JobMoves
    <3>1. jobs' = Enabled(jobs, objective.job, status = "active")
      BY <2>5 DEF PauseOrResume
    <3>2. QED
      BY <1>0, <3>1, EnabledJobs DEF JobMoves
  <2>6. QED
    BY <1>8, <2>1, <2>2, <2>3, <2>4, <2>5 DEF Request, IterationRequest, ObjectiveRequest
<1>9. QED
  BY <1>2, <1>3, <1>4, <1>5, <1>6, <1>8 DEF Next

----------------------------------------------------------------------------
(* Who writes the objective and its ledger.                                  *)

\* The objective is typed; its iterations are counted upwards as long as it is there;
\* and only two steps of the event loop create and delete it.
ObjectiveMoves ==
  /\ objective' \in ObjectiveRec /\ ledger' \in Nat
  /\ objective'.entry = objective.entry /\ Present /\ Present' => objective'.iter >= objective.iter
  /\ objective'.entry = objective.entry \/ StartFound
  /\ Present => Present' \/ PopObjective

LEMMA SameObjective ==
  ASSUME Typed, UNCHANGED objective, ledger' \in Nat
  PROVE  ObjectiveMoves
<1>1. objective \in ObjectiveRec
  BY Parts
<1>2. objective.iter \in Nat
  BY <1>1 DEF ObjectiveRec
<1>3. QED
  BY <1>1, <1>2 DEF ObjectiveMoves, Present

LEMMA EmittedObjective ==
  ASSUME Typed, NEW x, NEW r \in Runs \cup {0}, objective' = Emitted(x, objective, r), ledger' \in Nat
  PROVE  ObjectiveMoves
<1>1. objective \in ObjectiveRec
  BY Parts
<1>2. LET a == [objective EXCEPT !.running = r]
      IN /\ a \in ObjectiveRec /\ a.entry = objective.entry /\ a.iter = objective.iter
         /\ a.status = objective.status /\ objective.iter \in Nat
  BY <1>1 DEF ObjectiveRec
<1>3. QED
  BY <1>1, <1>2 DEF ObjectiveMoves, Emitted, Present

LEMMA LinkedObjective ==
  ASSUME Typed, NEW x, NEW j \in Jobs \cup {0}, objective' = Linked(x, j), ledger' \in Nat
  PROVE  ObjectiveMoves
<1>1. objective \in ObjectiveRec
  BY Parts
<1>2. LET a == [objective EXCEPT !.job = j]
      IN /\ a \in ObjectiveRec /\ a.entry = objective.entry /\ a.iter = objective.iter
         /\ a.status = objective.status /\ objective.iter \in Nat
  BY <1>1 DEF ObjectiveRec
<1>3. QED
  BY <1>1, <1>2 DEF ObjectiveMoves, Linked, Present

LEMMA ObjectiveSteps == ASSUME Typed, Next PROVE ObjectiveMoves
<1>0. /\ objective \in ObjectiveRec /\ ledger \in Nat /\ ExecsOK /\ LoopOK /\ Jobs \subseteq Nat
      /\ 0 \in Nat /\ objective.iter \in Nat /\ objective.entry \in 0..NEntries
  BY Parts, Constants DEF ObjectiveRec
<1>1. CASE UNCHANGED <<objective, ledger>>
  BY <1>0, <1>1, SameObjective
<1>2. CASE \E x \in Executors : Execute(x)
  <2>1. PICK x \in Executors : Execute(x)
    BY <1>2
  <2>2. exec[x] \in ExecRec /\ ExecOK(exec[x]) /\ exec[x].made \in Jobs \cup {0} /\ exec[x].iter \in Nat
    BY <1>0 DEF ExecsOK, ExecRec
  <2>3. exec[x].pc # "idle" => R(x) \in Runs
    BY <2>2 DEF ExecOK, R
  <2>4. CASE Begin(x)
    <3>1. CASE Exists(R(x)) /\ Iteration(x) /\ Present
      <4>1. objective' = [objective EXCEPT !.running = R(x)] /\ R(x) \in Runs /\ ledger' = ledger
        BY <2>3, <2>4, <3>1 DEF Begin, At
      <4>2. LET a == [objective EXCEPT !.running = R(x)]
            IN a \in ObjectiveRec /\ a.entry = objective.entry /\ a.iter = objective.iter
               /\ a.status = objective.status
        BY <1>0, <4>1 DEF ObjectiveRec
      <4>3. QED
        BY <1>0, <4>1, <4>2 DEF ObjectiveMoves, Present
    <3>2. CASE ~ (Exists(R(x)) /\ Iteration(x) /\ Present)
      BY <1>1, <2>4, <3>2 DEF Begin
    <3>3. QED
      BY <3>1, <3>2
  <2>5. CASE Phase(x)
    <3>1. R(x) \in Runs \cup {0}
      BY <2>3, <2>5 DEF Phase, At
    <3>2. CASE objective' = Emitted(x, objective, R(x)) /\ UNCHANGED ledger
      BY <1>0, <3>1, <3>2, EmittedObjective
    <3>3. CASE UNCHANGED objective /\ ledger' = Max({ledger, exec[x].iter})
      BY <1>0, <2>2, <3>3, MaxOfTwo, SameObjective
    <3>4. QED
      BY <1>1, <2>5, <3>2, <3>3 DEF Phase
  <2>6. CASE ClearActivity(x)
    <3>1. 0 \in Runs \cup {0} /\ objective' = Emitted(x, objective, 0) /\ ledger' = ledger
      BY <2>6 DEF ClearActivity
    <3>2. QED
      BY <1>0, <3>1, EmittedObjective
  <2>7. CASE Schedule(x)
    <3>1. CASE AutoJobs = {}
      BY <1>1, <2>7, <3>1 DEF Schedule
    <3>2. CASE AutoJobs # {}
      <4>1. PICK primary \in Jobs \cup {0} : primary = Min(AutoJobs)
        BY <1>0, <3>2, MinIsLeast DEF AutoJobs
      <4>2. objective' = Linked(x, primary) /\ ledger' = ledger
        BY <2>7, <3>2, <4>1 DEF Schedule
      <4>3. QED
        BY <1>0, <4>2, LinkedObjective
    <3>3. QED
      BY <3>1, <3>2
  <2>8. CASE Link(x)
    <3>1. objective' = Linked(x, exec[x].made) /\ ledger' = ledger
      BY <2>8 DEF Link
    <3>2. QED
      BY <1>0, <2>2, <3>1, LinkedObjective
  <2>9. CASE UpdateObjective(x)
    <3>1. CASE ~Mine(x)
      BY <1>1, <2>9, <3>1 DEF UpdateObjective
    <3>2. CASE Mine(x)
      <4> DEFINE n == IF exec[x].out = "completed" THEN Max({objective.iter, exec[x].iter}) ELSE objective.iter
                 j == IF exec[x].made # 0 THEN exec[x].made ELSE objective.job
                 s == IF exec[x].stop THEN "completed_endpoint" ELSE objective.status
      <4>1. objective' = [objective EXCEPT !.iter = n, !.job = j, !.status = s] /\ ledger' = ledger
        BY <2>9, <3>2 DEF UpdateObjective, Iterations
      <4>2. n \in Nat /\ n >= objective.iter
        BY <1>0, <2>2, MaxOfTwo
      <4>3. j \in Jobs \cup {0} /\ s \in Statuses /\ (objective.status # "none" => s # "none")
        BY <1>0, <2>2 DEF ObjectiveRec, Statuses
      <4> HIDE DEF n, j, s
      <4>4. LET a == [objective EXCEPT !.iter = n, !.job = j, !.status = s]
            IN a \in ObjectiveRec /\ a.entry = objective.entry /\ a.iter = n /\ a.status = s
        BY <1>0, <4>2, <4>3 DEF ObjectiveRec
      <4>5. QED
        BY <1>0, <4>1, <4>2, <4>3, <4>4 DEF ObjectiveMoves, Present
    <3>3. QED
      BY <3>1, <3>2
  <2>10. CASE ReadStatus(x) \/ MarkRunning(x) \/ ClearStop(x) \/ StepOff(x) \/ Finalize(x)
    BY <1>1, <2>10 DEF ReadStatus, MarkRunning, ClearStop, StepOff, Finalize, store
  <2>11. CASE After(x) \/ Insert(x) \/ DisableJob(x)
    BY <1>1, <2>11 DEF After, Insert, DisableJob, store
  <2>12. QED
    BY <2>1, <2>4, <2>5, <2>6, <2>7, <2>8, <2>9, <2>10, <2>11 DEF Execute
<1>3. CASE (\E j \in Jobs : FallDue(j)) \/ Tick \/ Crash \/ Boot
  BY <1>1, <1>3 DEF FallDue, Tick, Crash, Boot, store
<1>4. CASE GoOn
  <2>1. CASE Recover
    <3>1. CASE objective' = objective
      BY <1>1, <2>1, <3>1 DEF Recover
    <3>2. CASE objective' # objective
      <4>1. objective' = [objective EXCEPT !.running = 0] /\ ledger' = ledger
        BY <2>1, <3>2 DEF Recover
      <4>2. LET a == [objective EXCEPT !.running = 0]
            IN a \in ObjectiveRec /\ a.entry = objective.entry /\ a.iter = objective.iter
               /\ a.status = objective.status
        BY <1>0 DEF ObjectiveRec
      <4>3. QED
        BY <1>0, <4>1, <4>2 DEF ObjectiveMoves, Present
    <3>3. QED
      BY <3>1, <3>2
  <2>2. CASE StartFound
    <3>1. CASE Present
      BY <1>1, <2>2, <3>1 DEF StartFound
    <3>2. CASE ~Present
      <4>1. objective' = [NoObjective EXCEPT !.entry = objective.entry + 1, !.status = "active"] /\ ledger' = ledger
        BY <2>2, <3>2 DEF StartFound
      <4>2. objective.entry + 1 \in 0..NEntries /\ objective.entry + 1 # objective.entry
        BY <1>0, <2>2, <3>2, Constants DEF StartFound, LoopOK
      <4>3. LET a == [NoObjective EXCEPT !.entry = objective.entry + 1, !.status = "active"]
            IN a \in ObjectiveRec /\ a.entry = objective.entry + 1
        BY <4>2, Records DEF ObjectiveRec, Statuses
      <4>4. QED
        BY <1>0, <2>2, <3>2, <4>1, <4>2, <4>3 DEF ObjectiveMoves
    <3>3. QED
      BY <3>1, <3>2
  <2>3. CASE SetStatus
    <3>1. PICK s \in {"active", "paused_denied"} : objective' = [objective EXCEPT !.status = s]
      BY <1>0, <2>3 DEF SetStatus, LoopOK
    <3>2. LET a == [objective EXCEPT !.status = s]
          IN a \in ObjectiveRec /\ a.entry = objective.entry /\ a.iter = objective.iter
             /\ a.status # "none"
      BY <1>0 DEF ObjectiveRec, Statuses
    <3>3. ledger' \in Nat
      BY <1>0, <2>3 DEF SetStatus
    <3>4. QED
      BY <1>0, <3>1, <3>2, <3>3 DEF ObjectiveMoves, Present
  <2>4. CASE PopObjective
    <3>1. objective' = [NoObjective EXCEPT !.entry = objective.entry] /\ ledger' = 0
      BY <2>4 DEF PopObjective
    <3>2. LET a == [NoObjective EXCEPT !.entry = objective.entry]
          IN a \in ObjectiveRec /\ a.entry = objective.entry /\ a.status = "none"
      BY <1>0, Records DEF ObjectiveRec, NoObjective
    <3>3. QED
      BY <1>0, <2>4, <3>1, <3>2 DEF ObjectiveMoves, Present
  <2>5. CASE TickJob \/ Bootstrap \/ DeleteJobs \/ CleanupRuns
    BY <1>1, <2>5 DEF TickJob, Bootstrap, DeleteJobs, CleanupRuns
  <2>6. QED
    BY <1>4, <2>1, <2>2, <2>3, <2>4, <2>5 DEF GoOn
<1>5. CASE Request
  <2>1. CASE RunRequest
    BY <1>1, <2>1 DEF RunRequest, CreateRun, StartRun, ResolveApproval, ListApprovals,
       CleanupScheduled, CleanupAutoresearch, store
  <2>2. CASE JobRequest
    BY <1>1, <2>2 DEF JobRequest, CreateJob, DeleteJob, UpdateJob, RunJob
  <2>3. CASE RunObjectiveNow
    BY <1>1, <2>3 DEF RunObjectiveNow, RunJob
  <2>4. CASE ListTemplates \/ StartObjective \/ StopObjective \/ ObjectiveRequest
    BY <1>1, <2>4 DEF ListTemplates, StartObjective, StopObjective, ObjectiveRequest,
       PauseOrResume, DeleteObjective, store
  <2>5. QED
    BY <1>5, <2>1, <2>2, <2>3, <2>4 DEF Request, IterationRequest
<1>6. QED
  BY <1>2, <1>3, <1>4, <1>5 DEF Next

----------------------------------------------------------------------------
(* Who moves the executors.                                                  *)

\* An executor enters a run, leaves it, or goes on with it; it goes past the check of
\* its status only when the run is approved.
ExecMoves ==
  /\ ExecsOK'
  /\ \A y \in Executors :
       \/ exec'[y].pc \in {"idle", "read"}
       \/ /\ exec'[y].run = exec[y].run
          /\ \/ exec[y].pc \notin {"idle", "read"}
             \/ run[exec[y].run].st = "approved" /\ UNCHANGED <<run, approval>>

LEMMA SameExec == ASSUME ExecsOK, UNCHANGED exec PROVE ExecMoves
  BY DEF ExecMoves, ExecsOK

LEMMA EntersMoves ==
  ASSUME ExecsOK, NEW r \in Runs, StartHere(r) \/ StartThread(r) \/ UNCHANGED exec
  PROVE  ExecMoves
<1>1. CASE UNCHANGED exec
  BY <1>1, SameExec
<1>2. ASSUME NEW x \in Executors, exec' = [exec EXCEPT ![x] = Enter(r)] PROVE ExecMoves
  <2>1. ExecsOK'
    BY <1>2, OneMoves, Records
  <2>2. Enter(r).pc = "read"
    BY DEF Enter, Idle
  <2>3. QED
    BY <1>2, <2>1, <2>2 DEF ExecMoves, ExecsOK
<1>3. CASE StartHere(r)
  BY <1>2, <1>3 DEF StartHere, Executors
<1>4. CASE StartThread(r)
  BY <1>2, <1>4 DEF StartThread, IdleThreads, Executors
<1>5. QED
  BY <1>1, <1>3, <1>4

LEMMA LeavesMoves == ASSUME ExecsOK, NEW x \in Executors, Leave(x) PROVE ExecMoves
<1>1. ExecsOK'
  BY Leaves
<1>2. Idle.pc = "idle"
  BY DEF Idle
<1>3. QED
  BY <1>1, <1>2 DEF ExecMoves, ExecsOK, Leave

\* An executor goes on with its run: as f, or by its place alone.
LEMMA OnMoves ==
  ASSUME ExecsOK, NEW x \in Executors, exec[x].pc \notin {"idle", "read"},
         NEW f \in ExecRec, f.run = exec[x].run, f.pc # "idle",
         f.pc \in {"read", "mark", "begin", "phase"} \/ f.out # "none",
         f.phase # 0 => f.iter # 0, exec' = [exec EXCEPT ![x] = f]
  PROVE  ExecMoves
<1>1. f.run \in Runs
  BY DEF ExecsOK, ExecOK
<1>2. ExecOK(f)
  BY <1>1 DEF ExecOK
<1>3. ExecsOK'
  BY <1>2, OneMoves
<1>4. QED
  BY <1>3 DEF ExecMoves, ExecsOK

LEMMA GoesMoves ==
  ASSUME ExecsOK, NEW x \in Executors, NEW pc \in Pcs \ {"idle", "phase"}, exec[x].pc # "idle",
         pc \in {"read", "mark", "begin"} \/ exec[x].out # "none", Goto(x, pc),
         \/ exec[x].pc # "read"
         \/ run[R(x)].st = "approved" /\ UNCHANGED <<run, approval>>
  PROVE  ExecMoves
<1>1. ExecsOK'
  BY GoesOn
<1>2. exec \in [Executors -> ExecRec] /\ exec' = [exec EXCEPT ![x] = [exec[x] EXCEPT !.pc = pc]]
  BY DEF ExecsOK, Goto
<1>3. exec'[x].run = exec[x].run /\ \A y \in Executors \ {x} : exec'[y] = exec[y]
  BY <1>2 DEF ExecRec
<1>4. ASSUME NEW y \in Executors
      PROVE  \/ exec'[y].pc \in {"idle", "read"}
             \/ /\ exec'[y].run = exec[y].run
                /\ \/ exec[y].pc \notin {"idle", "read"}
                   \/ run[exec[y].run].st = "approved" /\ UNCHANGED <<run, approval>>
  BY <1>3 DEF R
<1>5. QED
  BY <1>1, <1>4 DEF ExecMoves

LEMMA ExecuteMoves == ASSUME Typed, NEW x \in Executors, Execute(x) PROVE ExecMoves
<1> DEFINE e == exec[x]
<1>0. /\ ExecsOK /\ e \in ExecRec /\ ExecOK(e) /\ objective \in ObjectiveRec /\ Jobs \subseteq Nat
      /\ ledger \in Nat /\ MaxPhases \in Nat /\ 0 \in 0..NEntries /\ 0 \in 0..MaxPhases
  BY Parts, Constants DEF ExecsOK
<1>1. objective.entry \in 0..NEntries /\ objective.job \in Jobs \cup {0}
  BY <1>0 DEF ObjectiveRec
<1>2. CASE Leave(x)
  BY <1>0, <1>2, LeavesMoves
\* The places past the step, where an executor has an outcome.
<1>3. ASSUME NEW pc \in {"clearStop", "clearActivity", "stepOff", "finalize", "after", "schedule",
                         "insert", "link", "objective", "disable"},
             NEW q \in {"clearActivity", "stepOff", "finalize", "after", "schedule",
                        "insert", "link", "objective", "disable"},
             At(x, pc), Goto(x, q)
      PROVE  ExecMoves
  <2>1. e.pc = pc /\ e.out # "none" /\ q \in Pcs \ {"idle", "phase"}
    BY <1>0, <1>3 DEF At, ExecOK, Pcs
  <2>2. QED
    BY <1>0, <1>3, <2>1, GoesMoves
<1>4. CASE ReadStatus(x)
  <2>1. CASE run[R(x)].st = "approved"
    <3>1. /\ "mark" \in Pcs \ {"idle", "phase"} /\ exec[x].pc # "idle" /\ Goto(x, "mark")
          /\ run[R(x)].st = "approved" /\ UNCHANGED <<run, approval>>
      BY <1>4, <2>1 DEF ReadStatus, At, Pcs, Startable, store
    <3>2. QED
      BY <1>0, <3>1, GoesMoves
  <2>2. QED
    BY <1>2, <1>4, <2>1 DEF ReadStatus, Startable
<1>5. CASE MarkRunning(x)
  <2>1. CASE Goto(x, "begin")
    <3>1. "begin" \in Pcs \ {"idle", "phase"} /\ exec[x].pc = "mark"
      BY <1>5 DEF MarkRunning, At, Pcs
    <3>2. QED
      BY <1>0, <2>1, <3>1, GoesMoves
  <2>2. QED
    BY <1>2, <1>5, <2>1 DEF MarkRunning
<1>6. CASE Begin(x)
  <2>1. e.pc = "begin"
    BY <1>6 DEF Begin, At
  <2>2. ASSUME NEW n \in 0..NEntries, exec' = [exec EXCEPT ![x].pc = "phase", ![x].entry = n]
        PROVE  ExecMoves
    <3> DEFINE f == [e EXCEPT !.pc = "phase", !.entry = n]
    <3>1. exec' = [exec EXCEPT ![x] = f]
      BY <2>2
    <3>2. f \in ExecRec /\ f.pc = "phase" /\ f.run = e.run /\ f.phase = e.phase /\ f.iter = e.iter
      BY <1>0, <2>2 DEF ExecRec, Pcs
    <3>3. f.phase # 0 => f.iter # 0
      BY <1>0, <3>2 DEF ExecOK
    <3> HIDE DEF f
    <3>4. QED
      BY <1>0, <2>1, <3>1, <3>2, <3>3, OnMoves
  <2>3. ASSUME NEW o \in {"completed", "failed"}, exec' = [exec EXCEPT ![x].pc = "stepOff", ![x].out = o]
        PROVE  ExecMoves
    <3> DEFINE f == [e EXCEPT !.pc = "stepOff", !.out = o]
    <3>1. exec' = [exec EXCEPT ![x] = f]
      BY <2>3
    <3>2. /\ f \in ExecRec /\ f.pc = "stepOff" /\ f.run = e.run /\ f.out = o
          /\ f.phase = e.phase /\ f.iter = e.iter
      BY <1>0, <2>3 DEF ExecRec, Pcs
    <3>3. f.phase # 0 => f.iter # 0
      BY <1>0, <3>2 DEF ExecOK
    <3> HIDE DEF f
    <3>4. QED
      BY <1>0, <2>1, <3>1, <3>2, <3>3, OnMoves
  <2>4. CASE Exists(R(x)) /\ Iteration(x)
    <3>1. exec' = [exec EXCEPT ![x].pc = "phase", ![x].entry = IF Present THEN objective.entry ELSE 0]
      BY <1>6, <2>4 DEF Begin
    <3>2. PICK n \in 0..NEntries : n = IF Present THEN objective.entry ELSE 0
      BY <1>0, <1>1
    <3>3. QED
      BY <2>2, <3>1, <3>2
  <2>5. CASE Exists(R(x)) /\ ~Iteration(x)
    BY <1>6, <2>3, <2>5 DEF Begin
  <2>6. QED
    BY <1>2, <1>6, <2>4, <2>5 DEF Begin
<1>7. CASE Phase(x)
  <2>1. e.pc = "phase" /\ e.phase \in 0..MaxPhases /\ e.iter \in Nat /\ e.stop \in BOOLEAN
    BY <1>0, <1>7 DEF Phase, At, ExecRec
  <2>2. ASSUME NEW o \in {"completed", "failed", "cancelled"}, NEW n \in Nat, NEW s \in BOOLEAN,
               exec' = [exec EXCEPT ![x] = [Ended(e, o, n) EXCEPT !.stop = s]]
        PROVE  ExecMoves
    <3> DEFINE f == [Ended(e, o, n) EXCEPT !.stop = s]
    <3>1. Ended(e, o, n) \in ExecRec /\ LET g == Ended(e, o, n)
                                        IN g.pc = "clearStop" /\ g.run = e.run /\ g.out = o /\ g.phase = 0
      BY <1>0, <2>2 DEF Ended, ExecRec, Pcs
    <3>2. f \in ExecRec /\ f.pc = "clearStop" /\ f.run = e.run /\ f.out = o /\ f.phase = 0
      BY <2>2, <3>1 DEF ExecRec
    <3>3. exec' = [exec EXCEPT ![x] = f]
      BY <2>2
    <3> HIDE DEF f
    <3>4. QED
      BY <1>0, <2>1, <3>2, <3>3, OnMoves
  <2>3. ASSUME NEW o \in {"completed", "failed", "cancelled"}, NEW n \in Nat,
               exec' = [exec EXCEPT ![x] = Ended(e, o, n)]
        PROVE  ExecMoves
    <3>1. Ended(e, o, n) \in ExecRec /\ LET g == Ended(e, o, n)
                                        IN g.pc = "clearStop" /\ g.run = e.run /\ g.out = o /\ g.phase = 0
      BY <1>0, <2>3 DEF Ended, ExecRec, Pcs
    <3>2. QED
      BY <1>0, <2>1, <2>3, <3>1, OnMoves
  <2>4. ASSUME e.phase < MaxPhases,
               exec' = [exec EXCEPT ![x].phase = @ + 1,
                                    ![x].iter = IF exec[x].phase = 0 THEN ledger + 1 ELSE @]
        PROVE  ExecMoves
    <3> DEFINE n == IF e.phase = 0 THEN ledger + 1 ELSE e.iter
               m == e.phase + 1
               f == [e EXCEPT !.phase = m, !.iter = n]
    <3>1. exec' = [exec EXCEPT ![x] = f]
      BY <2>4
    <3>2. n \in Nat /\ n # 0 /\ m \in 0..MaxPhases
      BY <1>0, <2>1, <2>4 DEF ExecOK
    <3> HIDE DEF n, m
    <3>3. f \in ExecRec /\ f.pc = "phase" /\ f.run = e.run /\ f.phase = m /\ f.iter = n
      BY <1>0, <2>1, <3>2 DEF ExecRec
    <3> HIDE DEF f
    <3>4. QED
      BY <1>0, <2>1, <3>1, <3>2, <3>3, OnMoves
  <2>5. ASSUME e.phase = 1, exec' = [exec EXCEPT ![x] = Ended(@, "completed", @.iter - 1)]
        PROVE  ExecMoves
    <3>1. e.iter - 1 \in Nat
      BY <1>0, <2>1, <2>5 DEF ExecOK
    <3>2. QED
      BY <2>3, <2>5, <3>1
  <2>6. 0 \in Nat
    OBVIOUS
  <2>7. CASE exec' = [exec EXCEPT ![x] = Ended(e, "cancelled", 0)] \/ exec' = [exec EXCEPT ![x] = Ended(e, "failed", 0)]
    BY <2>3, <2>6, <2>7
  <2>8. CASE \E s \in BOOLEAN : exec' = [exec EXCEPT ![x] = [Ended(e, "completed", e.iter) EXCEPT !.stop = s]]
    BY <2>1, <2>2, <2>8
  <2>9. QED
    BY <1>7, <2>4, <2>5, <2>7, <2>8 DEF Phase
<1>8. CASE ClearStop(x)
  BY <1>3, <1>8 DEF ClearStop
<1>9. CASE ClearActivity(x)
  <2>1. e.pc = "clearActivity" /\ e.out # "none" /\ (e.phase # 0 => e.iter # 0)
    BY <1>0, <1>9 DEF ClearActivity, At, ExecOK
  <2> DEFINE f == [e EXCEPT !.pc = "stepOff", !.entry = 0]
  <2>2. exec' = [exec EXCEPT ![x] = f]
    BY <1>9 DEF ClearActivity
  <2>3. /\ f \in ExecRec /\ f.pc = "stepOff" /\ f.run = e.run /\ f.out = e.out
        /\ f.phase = e.phase /\ f.iter = e.iter
    BY <1>0 DEF ExecRec, Pcs
  <2> HIDE DEF f
  <2>4. QED
    BY <1>0, <2>1, <2>2, <2>3, OnMoves
<1>10. CASE StepOff(x)
  <2>1. e.pc = "stepOff" /\ e.out \in {"completed", "failed", "cancelled"} /\ (e.phase # 0 => e.iter # 0)
    BY <1>0, <1>10 DEF StepOff, At, ExecOK, ExecRec
  <2>2. ASSUME NEW o \in {"completed", "failed", "cancelled"},
               exec' = [exec EXCEPT ![x].pc = "finalize", ![x].out = o]
        PROVE  ExecMoves
    <3> DEFINE f == [e EXCEPT !.pc = "finalize", !.out = o]
    <3>1. exec' = [exec EXCEPT ![x] = f]
      BY <2>2
    <3>2. /\ f \in ExecRec /\ f.pc = "finalize" /\ f.run = e.run /\ f.out = o
          /\ f.phase = e.phase /\ f.iter = e.iter
      BY <1>0, <2>2 DEF ExecRec, Pcs
    <3> HIDE DEF f
    <3>3. QED
      BY <1>0, <2>1, <3>1, <3>2, OnMoves
  <2>3. CASE Exists(R(x))
    BY <1>10, <2>1, <2>2, <2>3 DEF StepOff
  <2>4. QED
    BY <1>2, <1>10, <2>3 DEF StepOff
<1>11. CASE Finalize(x)
  BY <1>2, <1>3, <1>11 DEF Finalize
<1>12. CASE After(x)
  <2>1. e.pc = "after" /\ e.out # "none" /\ (e.phase # 0 => e.iter # 0)
    BY <1>0, <1>12 DEF After, At, ExecOK
  <2>2. CASE Present
    <3>1. PICK q \in {"schedule", "objective"} :
             exec' = [exec EXCEPT ![x].entry = objective.entry, ![x].job = objective.job, ![x].pc = q]
      BY <1>12, <2>2 DEF After
    <3> DEFINE f == [e EXCEPT !.entry = objective.entry, !.job = objective.job, !.pc = q]
    <3>2. exec' = [exec EXCEPT ![x] = f]
      BY <3>1
    <3>3. /\ f \in ExecRec /\ f.pc = q /\ f.run = e.run /\ f.out = e.out
          /\ f.phase = e.phase /\ f.iter = e.iter
      BY <1>0, <1>1, <3>1 DEF ExecRec, Pcs
    <3> HIDE DEF f
    <3>4. QED
      BY <1>0, <2>1, <3>1, <3>2, <3>3, OnMoves
  <2>3. QED
    BY <1>2, <1>12, <2>2 DEF After
\* The job it has found or made.
<1>13. ASSUME NEW pc \in {"schedule", "insert"}, At(x, pc), NEW q \in {"link", "objective"}, NEW j \in Jobs,
              exec' = [exec EXCEPT ![x].pc = q, ![x].made = j]
       PROVE  ExecMoves
  <2>1. e.pc = pc /\ e.out # "none" /\ (e.phase # 0 => e.iter # 0)
    BY <1>0, <1>13 DEF At, ExecOK
  <2> DEFINE f == [e EXCEPT !.pc = q, !.made = j]
  <2>2. exec' = [exec EXCEPT ![x] = f]
    BY <1>13
  <2>3. /\ f \in ExecRec /\ f.pc = q /\ f.run = e.run /\ f.out = e.out
        /\ f.phase = e.phase /\ f.iter = e.iter
    BY <1>0, <1>13 DEF ExecRec, Pcs
  <2> HIDE DEF f
  <2>4. QED
    BY <1>0, <1>13, <2>1, <2>2, <2>3, OnMoves, ZenonT(40)
<1>14. CASE Schedule(x)
  <2>1. CASE AutoJobs = {}
    BY <1>3, <1>14, <2>1 DEF Schedule
  <2>2. CASE AutoJobs # {}
    <3>1. PICK primary \in Jobs : primary = Min(AutoJobs)
      BY <1>0, <2>2, MinIsLeast DEF AutoJobs
    <3>2. At(x, "schedule") /\ exec' = [exec EXCEPT ![x].pc = "objective", ![x].made = primary]
      BY <1>14, <2>2, <3>1 DEF Schedule
    <3>3. QED
      BY <1>13, <3>2
  <2>3. QED
    BY <2>1, <2>2
<1>15. CASE Insert(x)
  BY <1>2, <1>13, <1>15 DEF Insert, NextJob
<1>16. CASE Link(x)
  BY <1>3, <1>16 DEF Link
<1>17. CASE UpdateObjective(x)
  BY <1>2, <1>3, <1>17 DEF UpdateObjective
<1>18. CASE DisableJob(x)
  BY <1>2, <1>18 DEF DisableJob
<1>19. QED
  BY <1>4, <1>5, <1>6, <1>7, <1>8, <1>9, <1>10, <1>11, <1>12, <1>14, <1>15, <1>16, <1>17, <1>18 DEF Execute

LEMMA ExecSteps == ASSUME Typed, Next PROVE ExecMoves
<1>0. ExecsOK /\ objective \in ObjectiveRec /\ objective.job \in Jobs \cup {0}
  BY Parts DEF ObjectiveRec
<1>1. CASE UNCHANGED exec
  BY <1>0, <1>1, SameExec
<1>2. ASSUME NEW r \in Runs, StartHere(r) \/ StartThread(r) PROVE ExecMoves
  BY <1>0, <1>2, EntersMoves
<1>3. ASSUME NEW r \in Runs, NEW new, Launch(r, new) PROVE ExecMoves
  BY <1>1, <1>2, <1>3 DEF Launch
<1>4. CASE \E x \in Executors : Execute(x)
  BY <1>4, ExecuteMoves
<1>5. CASE (\E j \in Jobs : FallDue(j)) \/ Tick \/ Boot
  BY <1>1, <1>5 DEF FallDue, Tick, Boot
<1>6. CASE Crash
  <2>1. exec' = [x \in Executors |-> Idle]
    BY <1>6 DEF Crash
  <2>2. ExecOK(Idle) /\ Idle \in ExecRec /\ Idle.pc = "idle"
    BY Records DEF ExecOK, Idle
  <2>3. QED
    BY <2>1, <2>2 DEF ExecMoves, ExecsOK
<1>7. CASE GoOn
  <2>1. CASE TickJob
    <3>1. \E r \in Runs : Launch(r, [JobRun(Min(loop.set)) EXCEPT !.job = Min(loop.set),
                                                                  !.occ = loop.occ[Min(loop.set)]])
      BY <2>1 DEF TickJob
    <3>2. QED
      BY <1>3, <3>1
  <2>2. CASE Bootstrap
    BY <1>2, <2>2 DEF Bootstrap
  <2>3. CASE Recover \/ StartFound \/ SetStatus \/ DeleteJobs \/ PopObjective \/ CleanupRuns
    BY <1>1, <2>3 DEF Recover, StartFound, SetStatus, DeleteJobs, PopObjective, CleanupRuns
  <2>4. QED
    BY <1>7, <2>1, <2>2, <2>3 DEF GoOn
<1>8. ASSUME NEW j \in Jobs, RunJob(j) PROVE ExecMoves
  <2>1. \E r \in Runs : Launch(r, [JobRun(j) EXCEPT !.job = j])
    BY <1>8 DEF RunJob
  <2>2. QED
    BY <1>3, <2>1
<1>9. CASE Request
  <2>1. CASE RunRequest
    <3>1. CASE \E r \in Runs, kind \in {"plain", "iteration"}, needs \in BOOLEAN : CreateRun(r, kind, needs)
      BY <1>1, <1>2, <3>1 DEF CreateRun
    <3>2. CASE \E r \in Runs : StartRun(r)
      BY <1>2, <3>2 DEF StartRun
    <3>3. CASE \E r \in Runs, approve \in BOOLEAN : ResolveApproval(r, approve)
      BY <1>1, <1>2, <3>3 DEF ResolveApproval
    <3>4. CASE ListApprovals \/ CleanupScheduled \/ CleanupAutoresearch
      BY <1>1, <3>4 DEF ListApprovals, CleanupScheduled, CleanupAutoresearch
    <3>5. QED
      BY <2>1, <3>1, <3>2, <3>3, <3>4 DEF RunRequest
  <2>2. CASE JobRequest
    BY <1>1, <1>8, <2>2 DEF JobRequest, CreateJob, DeleteJob, UpdateJob
  <2>3. CASE RunObjectiveNow
    BY <1>0, <1>2, <1>8, <2>3 DEF RunObjectiveNow
  <2>4. CASE ListTemplates \/ StartObjective \/ StopObjective \/ ObjectiveRequest
    BY <1>1, <2>4 DEF ListTemplates, StartObjective, StopObjective, ObjectiveRequest,
       PauseOrResume, DeleteObjective
  <2>5. QED
    BY <1>9, <2>1, <2>2, <2>3, <2>4 DEF Request, IterationRequest
<1>10. QED
  BY <1>4, <1>5, <1>6, <1>7, <1>9 DEF Next

----------------------------------------------------------------------------
(* What the event loop is in the middle of.                                  *)


LEMMA SameLoop == ASSUME Typed, Next, UNCHANGED loop PROVE LoopOK'
<1>1. LoopOK /\ ObjectiveMoves
  BY Parts, ObjectiveSteps
<1>2. ~StartFound
  <2>1. SUFFICES ASSUME StartFound PROVE FALSE
    OBVIOUS
  <2>2. loop.pc = "start" /\ (loop' = [Free EXCEPT !.pc = "status", !.arg = "bootstrap"]
                              \/ loop' = [Free EXCEPT !.pc = "bootstrap"])
    BY <2>1 DEF StartFound
  <2>3. QED
    BY <2>2 DEF Free
<1>3. ~PopObjective
  <2>1. SUFFICES ASSUME PopObjective PROVE FALSE
    OBVIOUS
  <2>2. loop.pc = "pop" /\ loop' = [Free EXCEPT !.pc = loop.arg] /\ loop.arg # "pop"
    BY <1>1, <2>1 DEF PopObjective, LoopOK
  <2>3. QED
    BY <2>2 DEF Free
<1>4. QED
  BY <1>1, <1>2, <1>3 DEF LoopOK, ObjectiveMoves

\* The places at which the rest of a handler asks for nothing.
LEMMA LoopTurns ==
  ASSUME NEW p \in {"idle", "bootstrap", "runs", "down"}, loop' = [Free EXCEPT !.pc = p]
  PROVE  LoopOK'
<1>1. Free \in LoopRec
  BY Records
<1>2. loop' \in LoopRec /\ loop'.pc = p
  BY <1>1 DEF LoopRec
<1>3. QED
  BY <1>2 DEF LoopOK

LEMMA StatusTurns ==
  ASSUME NEW a \in {"bootstrap", "active", "paused_denied"},
         loop' = [Free EXCEPT !.pc = "status", !.arg = a]
  PROVE  LoopOK'
<1>1. Free \in LoopRec
  BY Records
<1>2. loop' \in LoopRec /\ loop'.pc = "status" /\ loop'.arg = a
  BY <1>1 DEF LoopRec
<1>3. QED
  BY <1>2 DEF LoopOK

LEMMA SeedTurns ==
  ASSUME NEW then \in {"idle", "start"}, Seed(then),
         then = "start" => (Present \/ objective.entry < NEntries)', UNCHANGED objective
  PROVE  LoopOK'
<1>1. Free \in LoopRec /\ Orphans \subseteq Runs
  BY Records DEF Orphans
<1>2. loop' = [Free EXCEPT !.pc = "recover", !.set = Orphans, !.arg = then]
  BY DEF Seed
<1>3. loop' \in LoopRec /\ loop'.pc = "recover" /\ loop'.arg = then
  BY <1>1, <1>2 DEF LoopRec
<1>4. QED
  BY <1>3 DEF LoopOK

LEMMA LoopSteps == ASSUME Typed, Next PROVE LoopOK'
<1>0. /\ loop \in LoopRec /\ LoopOK /\ Jobs \subseteq Nat /\ jobs \in [Jobs -> JobRec] /\ Free \in LoopRec
      /\ objective \in ObjectiveRec /\ objective.job \in Jobs \cup {0} /\ objective.entry \in 0..NEntries
  BY Parts, Constants, Records DEF ObjectiveRec
<1>1. CASE UNCHANGED loop
  BY <1>1, SameLoop
<1>2. CASE \E x \in Executors : Execute(x)
  <2>1. PICK x \in Executors : Execute(x)
    BY <1>2
  <2>2. CASE ReadStatus(x) \/ MarkRunning(x) \/ Begin(x) \/ Phase(x) \/ ClearStop(x) \/ ClearActivity(x) \/ StepOff(x)
    BY <1>1, <2>2 DEF ReadStatus, MarkRunning, Begin, Phase, ClearStop, ClearActivity, StepOff
  <2>3. CASE Finalize(x) \/ After(x) \/ Schedule(x) \/ Insert(x) \/ Link(x) \/ UpdateObjective(x) \/ DisableJob(x)
    BY <1>1, <2>3 DEF Finalize, After, Schedule, Insert, Link, UpdateObjective, DisableJob
  <2>4. QED
    BY <2>1, <2>2, <2>3 DEF Execute
<1>3. CASE \E j \in Jobs : FallDue(j)
  BY <1>1, <1>3 DEF FallDue
<1>4. CASE Tick
  <2>1. PICK due \in SUBSET Jobs :
          due # {} /\ loop' = [Free EXCEPT !.pc = "tick", !.set = due, !.occ = [j \in Jobs |-> jobs[j].occ]]
    <3>1. {j \in Active : jobs[j].due} \in SUBSET Jobs
      BY DEF Active
    <3>2. QED
      BY <1>4, <3>1 DEF Tick
  <2>2. [j \in Jobs |-> jobs[j].occ] \in [Jobs -> 0..MaxOcc]
    BY <1>0 DEF JobRec
  <2>3. loop' \in LoopRec /\ loop'.pc = "tick" /\ loop'.set = due
    BY <1>0, <2>1, <2>2 DEF LoopRec
  <2>4. QED
    BY <2>1, <2>3 DEF LoopOK
<1>5. CASE Crash
  BY <1>5, LoopTurns DEF Crash
<1>6. CASE Boot
  <2>1. Seed("idle") /\ UNCHANGED objective
    BY <1>6 DEF Boot, store
  <2>2. QED
    BY <2>1, SeedTurns
<1>7. CASE GoOn
  <2>1. CASE TickJob
    <3>1. CASE loop.set = {Min(loop.set)}
      <4>1. loop' = Free
        BY <2>1, <3>1 DEF TickJob
      <4>2. loop' \in LoopRec /\ loop'.pc = "idle"
        BY <1>0, <4>1 DEF Free
      <4>3. QED
        BY <4>2 DEF LoopOK
    <3>2. CASE loop.set # {Min(loop.set)}
      <4>1. loop.pc = "tick" /\ loop' = [loop EXCEPT !.set = @ \ {Min(loop.set)}]
        BY <2>1, <3>2 DEF TickJob
      <4>2. loop.set # {} /\ loop.set \subseteq Jobs
        BY <1>0, <4>1 DEF LoopOK
      <4> DEFINE rest == loop.set \ {Min(loop.set)}
      <4>3. rest # {} /\ rest \subseteq Jobs
        BY <3>2, <4>2
      <4>4. loop' = [loop EXCEPT !.set = rest]
        BY <4>1
      <4> HIDE DEF rest
      <4>5. loop' \in LoopRec /\ loop'.pc = "tick" /\ loop'.set = rest
        BY <1>0, <4>1, <4>3, <4>4 DEF LoopRec
      <4>6. QED
        BY <4>3, <4>5 DEF LoopOK
    <3>3. QED
      BY <3>1, <3>2
  <2>2. CASE Recover
    <3>1. loop.pc = "recover" /\ loop.arg \in {"idle", "start"} /\ loop' = [Free EXCEPT !.pc = loop.arg]
      BY <1>0, <2>2 DEF Recover, LoopOK
    <3>2. CASE loop.arg = "idle"
      BY <3>1, <3>2, LoopTurns
    <3>3. CASE loop.arg = "start"
      <4>1. loop' \in LoopRec /\ loop'.pc = "start"
        BY <1>0, <3>1, <3>3 DEF LoopRec
      <4>2. Present \/ objective.entry < NEntries
        BY <1>0, <3>1, <3>3 DEF LoopOK
      <4>3. objective'.status = objective.status /\ objective'.entry = objective.entry
        BY <1>0, <2>2 DEF Recover, ObjectiveRec
      <4>4. QED
        BY <4>1, <4>2, <4>3 DEF LoopOK, Present
    <3>4. QED
      BY <3>1, <3>2, <3>3
  <2>3. CASE StartFound
    <3>1. loop' = [Free EXCEPT !.pc = "status", !.arg = "bootstrap"] \/ loop' = [Free EXCEPT !.pc = "bootstrap"]
      BY <2>3 DEF StartFound
    <3>2. QED
      BY <3>1, StatusTurns, LoopTurns
  <2>4. CASE SetStatus
    <3>1. loop' = Free \/ loop' = [Free EXCEPT !.pc = "bootstrap"]
      BY <2>4 DEF SetStatus
    <3>2. Free = [Free EXCEPT !.pc = "idle"]
      BY DEF Free
    <3>3. QED
      BY <3>1, <3>2, LoopTurns
  <2>5. CASE Bootstrap \/ CleanupRuns
    <3>1. loop' = [Free EXCEPT !.pc = "idle"]
      BY <2>5 DEF Bootstrap, CleanupRuns, Free
    <3>2. QED
      BY <3>1, LoopTurns
  <2>6. CASE DeleteJobs
    <3>1. loop.pc = "delete" /\ loop' = [loop EXCEPT !.pc = "pop"]
      BY <2>6 DEF DeleteJobs
    <3>2. loop' \in LoopRec /\ loop'.pc = "pop" /\ loop'.arg = loop.arg
      BY <1>0, <3>1 DEF LoopRec
    <3>3. QED
      BY <1>0, <3>1, <3>2 DEF LoopOK
  <2>7. CASE PopObjective
    <3>1. loop.arg \in {"idle", "runs"} /\ loop' = [Free EXCEPT !.pc = loop.arg]
      BY <1>0, <2>7 DEF PopObjective, LoopOK
    <3>2. QED
      BY <3>1, LoopTurns
  <2>8. QED
    BY <1>7, <2>1, <2>2, <2>3, <2>4, <2>5, <2>6, <2>7 DEF GoOn
<1>8. CASE Request
  <2>1. CASE RunRequest
    <3>1. CASE CleanupAutoresearch
      BY <3>1, LoopTurns DEF CleanupAutoresearch
    <3>2. QED
      BY <1>1, <2>1, <3>1 DEF RunRequest, CreateRun, StartRun, ResolveApproval, ListApprovals, CleanupScheduled
  <2>2. CASE JobRequest
    BY <1>1, <2>2 DEF JobRequest, CreateJob, DeleteJob, UpdateJob, RunJob
  <2>3. CASE ListTemplates
    <3>1. Seed("idle") /\ UNCHANGED objective
      BY <2>3 DEF ListTemplates, store
    <3>2. QED
      BY <3>1, SeedTurns
  <2>4. CASE StartObjective
    <3>1. Seed("start") /\ UNCHANGED objective /\ (Present \/ objective.entry < NEntries)
      BY <2>4 DEF StartObjective, store
    <3>2. (Present \/ objective.entry < NEntries)'
      BY <3>1 DEF Present
    <3>3. QED
      BY <3>1, <3>2, SeedTurns
  <2>5. CASE RunObjectiveNow
    <3>1. CASE objective.job # 0
      BY <1>1, <2>5, <3>1 DEF RunObjectiveNow, RunJob
    <3>2. CASE objective.job = 0
      BY <2>5, <3>2, StatusTurns DEF RunObjectiveNow
    <3>3. QED
      BY <3>1, <3>2
  <2>6. CASE StopObjective
    BY <1>1, <2>6 DEF StopObjective
  <2>7. ASSUME NEW status \in {"active", "paused_denied"}, PauseOrResume(status) PROVE LoopOK'
    <3>1. loop' = [Free EXCEPT !.pc = "status", !.arg = status]
      BY <2>7 DEF PauseOrResume
    <3>2. QED
      BY <3>1, StatusTurns
  <2>8. ASSUME NEW then \in {"idle", "runs"}, DeleteObjective(then) PROVE LoopOK'
    <3> DEFINE js == AutoJobs \cup ({objective.job} \ {0})
    <3>1. loop' = [Free EXCEPT !.pc = "delete", !.set = js, !.arg = then]
      BY <2>8 DEF DeleteObjective
    <3>2. js \subseteq Jobs
      BY <1>0 DEF AutoJobs
    <3> HIDE DEF js
    <3>3. loop' \in LoopRec /\ loop'.pc = "delete" /\ loop'.arg = then
      BY <1>0, <3>1, <3>2 DEF LoopRec
    <3>4. QED
      BY <3>3 DEF LoopOK
  <2>9. QED
    BY <1>8, <2>1, <2>2, <2>3, <2>4, <2>5, <2>6, <2>7, <2>8 DEF Request, IterationRequest, ObjectiveRequest
<1>9. QED
  BY <1>2, <1>3, <1>4, <1>5, <1>6, <1>7, <1>8 DEF Next

----------------------------------------------------------------------------
(* Types.                                                                    *)

LEMMA StopSteps ==
  ASSUME Typed, Next
  PROVE  stops' \subseteq Runs /\ crashes' \in Nat /\ crashes' <= workload'.crashes /\ workload' \in Workloads
<1>0. /\ stops \subseteq Runs /\ objective.running \in Runs \cup {0} /\ workload \in Workloads
      /\ crashes \in Nat /\ crashes <= workload.crashes /\ workload.crashes \in Nat
  BY Parts, ControlBounds DEF Typed, ObjectiveRec
<1>1. workload' = workload
  BY DEF Next, Same
<1>2. CASE stops' \subseteq Runs /\ UNCHANGED crashes
  BY <1>0, <1>1, <1>2
<1>3. CASE UNCHANGED <<stops, crashes>>
  BY <1>0, <1>2, <1>3
<1>4. CASE \E x \in Executors : Execute(x)
  <2>1. PICK x \in Executors : Execute(x)
    BY <1>4
  <2>2. CASE ClearStop(x)
    BY <1>0, <1>2, <2>2 DEF ClearStop
  <2>3. CASE ReadStatus(x) \/ MarkRunning(x) \/ Begin(x) \/ Phase(x) \/ ClearActivity(x) \/ StepOff(x)
    BY <1>3, <2>3 DEF ReadStatus, MarkRunning, Begin, Phase, ClearActivity, StepOff
  <2>4. CASE Finalize(x) \/ After(x) \/ Schedule(x) \/ Insert(x) \/ Link(x) \/ UpdateObjective(x) \/ DisableJob(x)
    BY <1>3, <2>4 DEF Finalize, After, Schedule, Insert, Link, UpdateObjective, DisableJob
  <2>5. QED
    BY <2>1, <2>2, <2>3, <2>4 DEF Execute
<1>5. CASE Crash
  <2>1. crashes < workload.crashes /\ crashes' = crashes + 1 /\ stops' = {}
    BY <1>5 DEF Crash
  <2>2. QED
    BY <1>0, <1>1, <2>1
<1>6. CASE (\E j \in Jobs : FallDue(j)) \/ Tick \/ Boot
  BY <1>3, <1>6 DEF FallDue, Tick, Boot
<1>7. CASE GoOn
  BY <1>3, <1>7 DEF GoOn, TickJob, Recover, StartFound, Bootstrap, SetStatus, DeleteJobs, PopObjective, CleanupRuns
<1>8. CASE Request
  <2>1. CASE RunRequest
    BY <1>3, <2>1 DEF RunRequest, CreateRun, StartRun, ResolveApproval, ListApprovals,
       CleanupScheduled, CleanupAutoresearch
  <2>2. CASE JobRequest
    BY <1>3, <2>2 DEF JobRequest, CreateJob, DeleteJob, UpdateJob, RunJob
  <2>3. CASE StopObjective
    BY <1>0, <1>2, <2>3 DEF StopObjective
  <2>4. CASE ListTemplates \/ StartObjective \/ RunObjectiveNow \/ ObjectiveRequest
    BY <1>3, <2>4 DEF ListTemplates, StartObjective, RunObjectiveNow, RunJob, ObjectiveRequest,
       PauseOrResume, DeleteObjective
  <2>5. QED
    BY <1>8, <2>1, <2>2, <2>3, <2>4 DEF Request, IterationRequest
<1>9. QED
  BY <1>4, <1>5, <1>6, <1>7, <1>8 DEF Next

LEMMA TypesStep == Typed /\ [Next]_vars => Typed'
<1> SUFFICES ASSUME Typed, [Next]_vars PROVE Typed'
  OBVIOUS
<1>1. CASE Next
  <2>1. /\ run' \in [Runs -> RunRec]
        /\ approval' \in [Runs -> {"none", "pending", "approved", "rejected", "expired"}]
    BY <1>1, RunTypes
  <2>2. jobs' \in [Jobs -> JobRec]
    BY <1>1, JobSteps DEF JobMoves, JobsTyped
  <2>3. objective' \in ObjectiveRec /\ ledger' \in Nat
    BY <1>1, ObjectiveSteps DEF ObjectiveMoves
  <2>4. ExecsOK'
    BY <1>1, ExecSteps DEF ExecMoves
  <2>5. LoopOK'
    BY <1>1, LoopSteps
  <2>6. stops' \subseteq Runs /\ crashes' \in Nat /\ crashes' <= workload'.crashes /\ workload' \in Workloads
    BY <1>1, StopSteps
  <2>7. QED
    BY <2>1, <2>2, <2>3, <2>4, <2>5, <2>6 DEF Typed, ExecsOK
<1>2. CASE UNCHANGED vars
  BY <1>2 DEF vars, Typed, ExecOK, LoopOK, Present
<1>3. QED
  BY <1>1, <1>2

----------------------------------------------------------------------------
(* Nothing runs unapproved.                                                  *)

\* Runs and approvals go on agreeing, and a run that an executor may go on with stays one.
LEMMA ApprovedRuns ==
  ASSUME Typed, Approvals, Next, NEW q \in Runs
  PROVE  Approved(q)' /\ (Cleared(q) => Cleared(q)')
<1>0. /\ run \in [Runs -> RunRec] /\ ExecsOK /\ Approved(q)
      /\ approval \in [Runs -> {"none", "pending", "approved", "rejected", "expired"}]
  BY Parts DEF Approvals
<1> DEFINE Goal == Approved(q)' /\ (Cleared(q) => Cleared(q)')
<1>1. CASE run'[q] = run[q] /\ approval'[q] = approval[q]
  BY <1>0, <1>1 DEF Approved, Cleared
<1>2. ASSUME NEW r \in Runs, NEW new \in News, Created(r, new) PROVE Goal
  <2>1. CASE q = r
    <3> DEFINE st == IF new.needs THEN "pending_approval" ELSE "approved"
               f == [new EXCEPT !.st = st]
    <3>1. run' = [run EXCEPT ![r] = f]
      BY <1>2 DEF Created
    <3>2. f.st = st /\ f.step = "pending" /\ f.needs = new.needs
      BY DEF News, RunRec
    <3>3. approval'[q] = IF new.needs THEN "pending" ELSE "none"
      BY <1>0, <1>2, <2>1 DEF Created
    <3> HIDE DEF f
    <3>4. run'[q] = f
      BY <1>0, <2>1, <3>1
    <3>5. run[q].st = "none"
      BY <1>2, <2>1 DEF Created, FreshRuns
    <3>6. new.needs \in BOOLEAN
      BY DEF News, RunRec
    <3>7. QED
      BY <3>2, <3>3, <3>4, <3>5, <3>6 DEF Approved, Cleared
  <2>2. CASE q # r
    <3>1. run'[q] = run[q] /\ approval'[q] = approval[q]
      BY <1>0, <1>2, <2>2 DEF Created
    <3>2. QED
      BY <1>1, <3>1
  <2>3. QED
    BY <2>1, <2>2
<1>3. ASSUME NEW r \in Runs, NEW approve \in BOOLEAN, ResolveApproval(r, approve) PROVE Goal
  <2>1. CASE q = r
    <3> DEFINE st == IF approve THEN "approved" ELSE "rejected"
               f == [run[r] EXCEPT !.st = st]
    <3>1. run'[q] = f /\ approval'[q] = st /\ approval[q] = "pending"
      BY <1>0, <1>3, <2>1 DEF ResolveApproval
    <3>2. f.st = st /\ f.step = run[r].step /\ f.needs = run[r].needs
      BY <1>0 DEF RunRec
    <3> HIDE DEF f
    <3>3. QED
      BY <1>0, <2>1, <3>1, <3>2 DEF Approved, Cleared
  <2>2. CASE q # r
    <3>1. run'[q] = run[q] /\ approval'[q] = approval[q]
      BY <1>0, <1>3, <2>2 DEF ResolveApproval
    <3>2. QED
      BY <1>1, <3>1
  <2>3. QED
    BY <2>1, <2>2
<1>4. CASE ListApprovals
  <2>1. PICK late \in SUBSET {r \in Runs : approval[r] = "pending"} :
             /\ approval' = [r \in Runs |-> IF r \in late THEN "expired" ELSE approval[r]]
             /\ run' = Cancelled(run, late)
    BY <1>4 DEF ListApprovals
  <2>2. CASE q \in late
    <3> DEFINE f == [run[q] EXCEPT !.st = "cancelled"]
    <3>1. approval[q] = "pending" /\ approval'[q] = "expired" /\ run[q].st = "pending_approval"
      BY <1>0, <2>1, <2>2 DEF Approved
    <3>2. run'[q] = f
      BY <2>1, <2>2, <3>1 DEF Cancelled
    <3>3. f.st = "cancelled" /\ f.step = run[q].step /\ f.needs = run[q].needs
      BY <1>0 DEF RunRec
    <3> HIDE DEF f
    <3>4. QED
      BY <1>0, <3>1, <3>2, <3>3 DEF Approved, Cleared
  <2>3. CASE q \notin late
    BY <1>1, <2>1, <2>3 DEF Cancelled
  <2>4. QED
    BY <2>2, <2>3
<1>5. ASSUME NEW rs \in SUBSET Runs, Deleted(rs) PROVE Goal
  <2>1. LET f == [NoRun EXCEPT !.st = "gone"] IN f.st = "gone" /\ f.step = "pending" /\ f.needs = FALSE
    BY DEF NoRun
  <2>2. CASE q \in rs
    <3>1. run'[q] = [NoRun EXCEPT !.st = "gone"] /\ approval'[q] = "none"
      BY <1>5, <2>2 DEF Deleted
    <3>2. QED
      BY <2>1, <3>1 DEF Approved, Cleared
  <2>3. CASE q \notin rs
    BY <1>1, <1>5, <2>3 DEF Deleted
  <2>4. QED
    BY <2>2, <2>3
<1>6. CASE Recover
  <2> DEFINE f == [run[q] EXCEPT !.st = IF @ = "running" THEN "failed" ELSE @,
                                 !.step = IF @ = "running" THEN "failed" ELSE @]
  <2>1. approval' = approval /\ (run'[q] = run[q] \/ run'[q] = f)
    BY <1>6 DEF Recover, Recovered
  <2>2. /\ f.st = (IF run[q].st = "running" THEN "failed" ELSE run[q].st)
        /\ f.step = (IF run[q].step = "running" THEN "failed" ELSE run[q].step)
        /\ f.needs = run[q].needs
    BY <1>0 DEF RunRec
  <2> HIDE DEF f
  <2>3. CASE run'[q] = run[q]
    BY <1>1, <2>1, <2>3
  <2>4. CASE run'[q] = f
    BY <1>0, <2>1, <2>2, <2>4 DEF Approved, Cleared
  <2>5. QED
    BY <2>1, <2>3, <2>4
<1>7. ASSUME NEW x \in Executors, MarkRunning(x) \/ StepOff(x) \/ Finalize(x) PROVE Goal
  <2>0. /\ exec[x].pc \notin {"idle", "read"} /\ Cleared(exec[x].run) /\ approval' = approval
        /\ exec[x].out \in {"none", "completed", "failed", "cancelled"} /\ ExecOK(exec[x])
    BY <1>0, <1>7 DEF MarkRunning, StepOff, Finalize, At, Approvals, ExecsOK, ExecRec
  <2>1. CASE run'[q] = run[q]
    BY <1>1, <2>0, <2>1
  <2>2. CASE run'[q] # run[q]
    <3>1. q = exec[x].run
      BY <1>0, <1>7, <2>2 DEF MarkRunning, StepOff, Finalize, R
    <3>2. CASE MarkRunning(x)
      <4> DEFINE f == [run[q] EXCEPT !.st = "running", !.step = "running"]
      <4>1. run'[q] = f
        BY <1>0, <2>2, <3>1, <3>2 DEF MarkRunning, R
      <4>2. f.st = "running" /\ f.step = "running" /\ f.needs = run[q].needs
        BY <1>0 DEF RunRec
      <4> HIDE DEF f
      <4>3. QED
        BY <1>0, <2>0, <3>1, <4>1, <4>2 DEF Approved, Cleared
    <3>3. CASE StepOff(x)
      <4> DEFINE f == [run[q] EXCEPT !.step = exec[x].out]
      <4>1. run'[q] = f
        BY <1>0, <2>2, <3>1, <3>3 DEF StepOff, R
      <4>2. f.st = run[q].st /\ f.needs = run[q].needs
        BY <1>0 DEF RunRec
      <4> HIDE DEF f
      <4>3. QED
        BY <1>0, <2>0, <3>1, <4>1, <4>2 DEF Approved, Cleared
    <3>4. CASE Finalize(x)
      <4> DEFINE f == [run[q] EXCEPT !.st = exec[x].out]
      <4>1. run'[q] = f
        BY <1>0, <2>2, <3>1, <3>4 DEF Finalize, R
      <4>2. f.st = exec[x].out /\ f.step = run[q].step /\ f.needs = run[q].needs
        BY <1>0 DEF RunRec
      <4>3. exec[x].out # "none"
        BY <2>0, <3>4 DEF Finalize, At, ExecOK
      <4> HIDE DEF f
      <4>4. QED
        BY <1>0, <2>0, <3>1, <4>1, <4>2, <4>3 DEF Approved, Cleared
    <3>5. QED
      BY <1>7, <3>2, <3>3, <3>4
  <2>3. QED
    BY <2>1, <2>2
<1>8. RunMoves
  BY RunSteps
<1>9. CASE UNCHANGED <<run, approval>>
  BY <1>1, <1>9
<1>10. QED
  BY <1>2, <1>3, <1>4, <1>5, <1>6, <1>7, <1>8, <1>9 DEF RunMoves

LEMMA ApprovalsInit == Init => Approvals
<1> SUFFICES ASSUME Init PROVE Approvals
  OBVIOUS
<1>1. \A r \in Runs : run[r] = NoRun /\ approval[r] = "none"
  BY DEF Init
<1>2. \A x \in Executors : exec[x].pc = "idle"
  BY DEF Init, Idle
<1>3. QED
  BY <1>1, <1>2 DEF Approvals, Approved, NoRun

LEMMA ApprovalsStep == Typed /\ Approvals /\ [Next]_vars => Approvals'
<1> SUFFICES ASSUME Typed, Approvals, [Next]_vars PROVE Approvals'
  OBVIOUS
<1>1. CASE Next
  <2>1. \A r \in Runs : Approved(r)' /\ (Cleared(r) => Cleared(r)')
    BY <1>1, ApprovedRuns
  <2>2. ExecMoves /\ ExecsOK
    BY <1>1, ExecSteps, Parts
  <2>3. ASSUME NEW x \in Executors, exec'[x].pc \notin {"idle", "read"} PROVE Cleared(exec[x].run)' /\ exec'[x].run = exec[x].run
    <3>1. /\ exec'[x].run = exec[x].run
          /\ \/ exec[x].pc \notin {"idle", "read"}
             \/ run[exec[x].run].st = "approved" /\ UNCHANGED <<run, approval>>
      BY <2>2, <2>3 DEF ExecMoves
    <3>2. exec[x].run \in Runs
      BY <2>2, <2>3, <3>1 DEF ExecMoves, ExecsOK, ExecOK
    <3>3. Cleared(exec[x].run)
      BY <3>1, <3>2 DEF Approvals, Approved, Cleared
    <3>4. QED
      BY <2>1, <3>1, <3>2, <3>3
  <2>4. QED
    BY <2>1, <2>3 DEF Approvals
<1>2. CASE UNCHANGED vars
  BY <1>2 DEF vars, Approvals, Approved, Cleared
<1>3. QED
  BY <1>1, <1>2

----------------------------------------------------------------------------
(* An occurrence makes at most one run.                                      *)

\* Only a tick gives a run a time, or starts on other times.
LEMMA RunTimes ==
  ASSUME Typed, Next, ~TickJob, NEW q \in Runs
  PROVE  run'[q].occ = 0 \/ (run'[q].occ = run[q].occ /\ run'[q].job = run[q].job)
<1>0. run \in [Runs -> RunRec]
  BY Parts
<1> DEFINE Goal == run'[q].occ = 0 \/ (run'[q].occ = run[q].occ /\ run'[q].job = run[q].job)
<1>1. CASE run'[q] = run[q]
  BY <1>1
<1>2. ASSUME NEW r \in Runs, NEW new \in News, Created(r, new), new.occ = 0 PROVE Goal
  <2> DEFINE f == [new EXCEPT !.st = IF new.needs THEN "pending_approval" ELSE "approved"]
  <2>1. run' = [run EXCEPT ![r] = f]
    BY <1>2 DEF Created
  <2>2. f.occ = 0
    BY <1>2 DEF News, RunRec
  <2> HIDE DEF f
  <2>3. QED
    BY <1>0, <1>1, <2>1, <2>2
<1>3. ASSUME NEW r \in Runs, NEW approve \in BOOLEAN, ResolveApproval(r, approve) PROVE Goal
  <2> DEFINE f == [run[r] EXCEPT !.st = IF approve THEN "approved" ELSE "rejected"]
  <2>1. run' = [run EXCEPT ![r] = f]
    BY <1>3 DEF ResolveApproval
  <2>2. f.occ = run[r].occ /\ f.job = run[r].job
    BY <1>0 DEF RunRec
  <2> HIDE DEF f
  <2>3. QED
    BY <1>0, <2>1, <2>2
<1>4. CASE ListApprovals
  <2> DEFINE f == [run[q] EXCEPT !.st = "cancelled"]
  <2>1. run'[q] = run[q] \/ run'[q] = f
    BY <1>4 DEF ListApprovals, Cancelled
  <2>2. f.occ = run[q].occ /\ f.job = run[q].job
    BY <1>0 DEF RunRec
  <2> HIDE DEF f
  <2>3. QED
    BY <2>1, <2>2
<1>5. ASSUME NEW rs \in SUBSET Runs, Deleted(rs) PROVE Goal
  <2>1. [NoRun EXCEPT !.st = "gone"].occ = 0
    BY DEF NoRun
  <2>2. run'[q] = run[q] \/ run'[q] = [NoRun EXCEPT !.st = "gone"]
    BY <1>5 DEF Deleted
  <2>3. QED
    BY <2>1, <2>2
<1>6. CASE Recover
  <2> DEFINE f == [run[q] EXCEPT !.st = IF @ = "running" THEN "failed" ELSE @,
                                 !.step = IF @ = "running" THEN "failed" ELSE @]
  <2>1. run'[q] = run[q] \/ run'[q] = f
    BY <1>6 DEF Recover, Recovered
  <2>2. f.occ = run[q].occ /\ f.job = run[q].job
    BY <1>0 DEF RunRec
  <2> HIDE DEF f
  <2>3. QED
    BY <2>1, <2>2
<1>7. ASSUME NEW x \in Executors, MarkRunning(x) \/ StepOff(x) \/ Finalize(x) PROVE Goal
  <2>1. ASSUME NEW r \in Runs, NEW st, NEW step, run' = [run EXCEPT ![r].st = st, ![r].step = step] PROVE Goal
    <3> DEFINE f == [run[r] EXCEPT !.st = st, !.step = step]
    <3>1. run' = [run EXCEPT ![r] = f]
      BY <2>1
    <3>2. f.occ = run[r].occ /\ f.job = run[r].job
      BY <1>0 DEF RunRec
    <3> HIDE DEF f
    <3>3. QED
      BY <1>0, <3>1, <3>2
  <2>2. ASSUME NEW r \in Runs, NEW v, run' = [run EXCEPT ![r].st = v] \/ run' = [run EXCEPT ![r].step = v] PROVE Goal
    <3> DEFINE f == [run[r] EXCEPT !.st = v]
               g == [run[r] EXCEPT !.step = v]
    <3>1. run' = [run EXCEPT ![r] = f] \/ run' = [run EXCEPT ![r] = g]
      BY <2>2
    <3>2. f.occ = run[r].occ /\ f.job = run[r].job /\ g.occ = run[r].occ /\ g.job = run[r].job
      BY <1>0 DEF RunRec
    <3> HIDE DEF f, g
    <3>3. QED
      BY <1>0, <3>1, <3>2
  <2>3. R(x) \in Runs
    BY <1>7, Parts DEF MarkRunning, StepOff, Finalize, At, R, ExecsOK, ExecOK
  <2>4. CASE MarkRunning(x)
    BY <1>1, <2>1, <2>3, <2>4 DEF MarkRunning
  <2>5. CASE StepOff(x)
    BY <1>1, <2>2, <2>3, <2>5 DEF StepOff
  <2>6. CASE Finalize(x)
    BY <1>1, <2>2, <2>3, <2>6 DEF Finalize
  <2>7. QED
    BY <1>7, <2>4, <2>5, <2>6
<1>8. RunMoves
  BY RunSteps
<1>9. CASE UNCHANGED <<run, approval>>
  BY <1>1, <1>9
<1>10. QED
  BY <1>2, <1>3, <1>4, <1>5, <1>6, <1>7, <1>8, <1>9 DEF RunMoves

LEMMA LoopTimes ==
  ASSUME Typed, Next, ~TickJob, ~Tick
  PROVE  loop'.pc # "tick" \/ UNCHANGED loop
<1>0. LoopOK /\ loop \in LoopRec
  BY Parts
<1> DEFINE Goal == loop'.pc # "tick" \/ UNCHANGED loop
<1>1. CASE UNCHANGED loop
  BY <1>1
<1>2. ASSUME NEW p, p # "tick", NEW s, NEW a, loop' = [Free EXCEPT !.pc = p, !.set = s, !.arg = a] PROVE Goal
  BY <1>2 DEF Free
<1>3. ASSUME NEW p, p # "tick", loop' = [Free EXCEPT !.pc = p] PROVE Goal
  BY <1>3 DEF Free
<1>4. ASSUME NEW p, p # "tick", NEW a, loop' = [Free EXCEPT !.pc = p, !.arg = a] PROVE Goal
  BY <1>4 DEF Free
<1>5. CASE \E x \in Executors : Execute(x)
  <2>1. PICK x \in Executors : Execute(x)
    BY <1>5
  <2>2. CASE ReadStatus(x) \/ MarkRunning(x) \/ Begin(x) \/ Phase(x) \/ ClearStop(x) \/ ClearActivity(x) \/ StepOff(x)
    BY <1>1, <2>2 DEF ReadStatus, MarkRunning, Begin, Phase, ClearStop, ClearActivity, StepOff
  <2>3. CASE Finalize(x) \/ After(x) \/ Schedule(x) \/ Insert(x) \/ Link(x) \/ UpdateObjective(x) \/ DisableJob(x)
    BY <1>1, <2>3 DEF Finalize, After, Schedule, Insert, Link, UpdateObjective, DisableJob
  <2>4. QED
    BY <2>1, <2>2, <2>3 DEF Execute
<1>6. CASE (\E j \in Jobs : FallDue(j)) \/ Crash \/ Boot
  BY <1>1, <1>2, <1>3, <1>6, ZenonT(40) DEF FallDue, Crash, Boot, Seed
<1>7. CASE GoOn
  <2>1. CASE Recover
    <3>1. loop.arg # "tick" /\ loop' = [Free EXCEPT !.pc = loop.arg]
      BY <1>0, <2>1 DEF Recover, LoopOK
    <3>2. QED
      BY <1>3, <3>1
  <2>2. CASE PopObjective
    <3>1. loop.arg # "tick" /\ loop' = [Free EXCEPT !.pc = loop.arg]
      BY <1>0, <2>2 DEF PopObjective, LoopOK
    <3>2. QED
      BY <1>3, <3>1
  <2>3. CASE DeleteJobs
    <3>1. loop' = [loop EXCEPT !.pc = "pop"]
      BY <2>3 DEF DeleteJobs
    <3>2. QED
      BY <1>0, <3>1 DEF LoopRec
  <2>4. CASE StartFound
    BY <1>3, <1>4, <2>4 DEF StartFound
  <2>5. CASE SetStatus \/ Bootstrap \/ CleanupRuns
    <3>1. loop' = Free \/ loop' = [Free EXCEPT !.pc = "bootstrap"]
      BY <2>5 DEF SetStatus, Bootstrap, CleanupRuns
    <3>2. Free.pc # "tick"
      BY DEF Free
    <3>3. QED
      BY <1>3, <3>1, <3>2
  <2>6. QED
    BY <1>7, <2>1, <2>2, <2>3, <2>4, <2>5 DEF GoOn
<1>8. CASE Request
  <2>1. CASE RunRequest
    <3>1. CASE CleanupAutoresearch
      BY <1>3, <3>1 DEF CleanupAutoresearch
    <3>2. QED
      BY <1>1, <2>1, <3>1 DEF RunRequest, CreateRun, StartRun, ResolveApproval, ListApprovals, CleanupScheduled
  <2>2. CASE JobRequest
    BY <1>1, <2>2 DEF JobRequest, CreateJob, DeleteJob, UpdateJob, RunJob
  <2>3. CASE ListTemplates
    BY <1>2, <2>3 DEF ListTemplates, Seed
  <2>4. CASE StartObjective
    BY <1>2, <2>4 DEF StartObjective, Seed
  <2>5. CASE RunObjectiveNow
    BY <1>1, <1>4, <2>5 DEF RunObjectiveNow, RunJob
  <2>6. CASE StopObjective
    BY <1>1, <2>6 DEF StopObjective
  <2>7. CASE ObjectiveRequest
    <3>1. \E a : \/ loop' = [Free EXCEPT !.pc = "status", !.arg = a]
                 \/ \E s : loop' = [Free EXCEPT !.pc = "delete", !.set = s, !.arg = a]
      BY <2>7 DEF ObjectiveRequest, PauseOrResume, DeleteObjective
    <3>2. QED
      BY <1>2, <1>4, <3>1
  <2>8. QED
    BY <1>8, <2>1, <2>2, <2>3, <2>4, <2>5, <2>6, <2>7 DEF Request, IterationRequest
<1>9. QED
  BY <1>5, <1>6, <1>7, <1>8 DEF Next

LEMMA OccurrencesInit == Init => Occurrences
<1> SUFFICES ASSUME Init PROVE Occurrences
  OBVIOUS
<1>1. \A r \in Runs : run[r].occ = 0
  BY DEF Init, NoRun
<1>2. loop.pc # "tick"
  BY DEF Init, Free
<1>3. QED
  BY <1>1, <1>2 DEF Occurrences, OncePerOccurrence, Made

\* A step that gives no run a time and no job a new one.
LEMMA OccurrencesCalm ==
  ASSUME Typed, Occurrences, Next, ~TickJob, ~Tick, CalmJobs
  PROVE  Occurrences'
<1>1. \A q \in Runs : run'[q].occ = 0 \/ (run'[q].occ = run[q].occ /\ run'[q].job = run[q].job)
  BY RunTimes
<1>2. (loop'.pc # "tick" \/ UNCHANGED loop) /\ (loop.pc = "tick" => Kept)
  BY LoopTimes, JobSteps DEF JobMoves
<1>3. loop.pc = "tick" => loop.set \subseteq Jobs
  BY Parts DEF LoopOK
<1>4. OncePerOccurrence'
  BY <1>1 DEF Occurrences, OncePerOccurrence
<1>5. \A r \in Runs : run'[r].occ # 0 => run'[r].job \in Jobs
  BY <1>1 DEF Occurrences
<1>6. ASSUME NEW r \in Runs, NEW j \in Jobs, Made(r, j)'
      PROVE  /\ jobs'[j].st # "none"
             /\ Here(j)' => run'[r].occ <= jobs'[j].occ
             /\ Here(j)' /\ jobs'[j].due => run'[r].occ < jobs'[j].occ
             /\ loop'.pc = "tick" /\ j \in loop'.set => run'[r].occ < loop'.occ[j]
  <2>1. Made(r, j) /\ run'[r].occ = run[r].occ
    BY <1>1, <1>6 DEF Made
  <2>2. /\ jobs[j].st # "none"
        /\ Here(j) => run[r].occ <= jobs[j].occ
        /\ Here(j) /\ jobs[j].due => run[r].occ < jobs[j].occ
        /\ loop.pc = "tick" /\ j \in loop.set => run[r].occ < loop.occ[j]
    BY <2>1 DEF Occurrences
  <2>3. Calm(jobs[j], jobs'[j])
    BY DEF CalmJobs
  <2>4. CASE jobs'[j].st = "gone"
    BY <1>2, <2>1, <2>2, <2>4 DEF Here
  <2>5. CASE /\ jobs'[j].occ = jobs[j].occ /\ (jobs'[j].due => jobs[j].due)
             /\ jobs'[j].st = jobs[j].st \/ {jobs'[j].st, jobs[j].st} \subseteq {"on", "off"}
    <3>1. jobs'[j].st # "none" /\ (Here(j)' => Here(j))
      BY <2>2, <2>5 DEF Here
    <3>2. QED
      BY <1>2, <2>1, <2>2, <2>5, <3>1
  <2>6. QED
    BY <2>2, <2>3, <2>4, <2>5 DEF Calm
<1>7. ASSUME loop'.pc = "tick", NEW j \in loop'.set
      PROVE  /\ Here(j)' /\ loop'.occ[j] <= jobs'[j].occ
             /\ jobs'[j].due => loop'.occ[j] < jobs'[j].occ
  <2>1. loop' = loop /\ loop.pc = "tick" /\ Kept /\ j \in Jobs /\ j \in loop.set
    BY <1>2, <1>3, <1>7
  <2>2. /\ Here(j) /\ loop.occ[j] <= jobs[j].occ
        /\ jobs[j].due => loop.occ[j] < jobs[j].occ
    BY <2>1 DEF Occurrences
  <2>3. Here(j)'
    BY <2>1, <2>2 DEF Kept
  <2>4. Calm(jobs[j], jobs'[j])
    BY <2>1 DEF CalmJobs
  <2>5. jobs'[j].occ = jobs[j].occ /\ (jobs'[j].due => jobs[j].due)
    BY <2>2, <2>3, <2>4 DEF Calm, Here
  <2>6. QED
    BY <2>1, <2>2, <2>3, <2>5
<1>8. QED
  BY <1>4, <1>5, <1>6, <1>7 DEF Occurrences

LEMMA OccurrencesFall ==
  ASSUME Typed, Occurrences, NEW k \in Jobs, FallDue(k)
  PROVE  Occurrences'
<1>0. run \in [Runs -> RunRec] /\ jobs \in [Jobs -> JobRec] /\ loop \in LoopRec /\ LoopOK
  BY Parts
<1>1. /\ UNCHANGED <<run, loop>>
      /\ jobs' = [jobs EXCEPT ![k] = [jobs[k] EXCEPT !.due = TRUE, !.occ = jobs[k].occ + 1]]
      /\ jobs[k].occ \in Nat /\ MaxOcc \in Nat
  BY <1>0, Constants DEF FallDue, JobRec
<1>2. LET f == [jobs[k] EXCEPT !.due = TRUE, !.occ = jobs[k].occ + 1]
      IN f.st = jobs[k].st /\ f.due /\ f.occ = jobs[k].occ + 1
  BY <1>0 DEF JobRec
<1>3. /\ \A j \in Jobs : jobs'[j].st = jobs[j].st /\ jobs[j].occ \in Nat
      /\ jobs'[k].occ = jobs[k].occ + 1
      /\ \A j \in Jobs \ {k} : jobs'[j] = jobs[j]
  BY <1>0, <1>1, <1>2 DEF JobRec
<1>4. \A j \in Jobs : Here(j)' <=> Here(j)
  BY <1>3 DEF Here
<1>5. \A r \in Runs : run[r].occ \in Nat
  BY <1>0, Constants DEF RunRec
<1>6. loop.pc = "tick" => loop.set \subseteq Jobs /\ \A j \in Jobs : loop.occ[j] \in Nat
  BY <1>0, Constants DEF LoopOK, LoopRec
<1>7. OncePerOccurrence' /\ \A r \in Runs : run'[r].occ # 0 => run'[r].job \in Jobs
  BY <1>1 DEF Occurrences, OncePerOccurrence
<1>8. ASSUME NEW r \in Runs, NEW j \in Jobs, Made(r, j)'
      PROVE  /\ jobs'[j].st # "none"
             /\ Here(j)' => run'[r].occ <= jobs'[j].occ
             /\ Here(j)' /\ jobs'[j].due => run'[r].occ < jobs'[j].occ
             /\ loop'.pc = "tick" /\ j \in loop'.set => run'[r].occ < loop'.occ[j]
  <2>1. Made(r, j)
    BY <1>1, <1>8 DEF Made
  <2>2. /\ jobs[j].st # "none"
        /\ Here(j) => run[r].occ <= jobs[j].occ
        /\ Here(j) /\ jobs[j].due => run[r].occ < jobs[j].occ
        /\ loop.pc = "tick" /\ j \in loop.set => run[r].occ < loop.occ[j]
    BY <2>1 DEF Occurrences
  <2>3. CASE j # k
    BY <1>1, <1>3, <1>4, <2>2, <2>3
  <2>4. CASE j = k
    BY <1>1, <1>3, <1>4, <1>5, <2>2, <2>4
  <2>5. QED
    BY <2>3, <2>4
<1>9. ASSUME loop'.pc = "tick", NEW j \in loop'.set
      PROVE  /\ Here(j)' /\ loop'.occ[j] <= jobs'[j].occ
             /\ jobs'[j].due => loop'.occ[j] < jobs'[j].occ
  <2>1. loop' = loop /\ loop.pc = "tick" /\ j \in Jobs /\ j \in loop.set /\ loop.occ[j] \in Nat
    BY <1>1, <1>6, <1>9
  <2>2. /\ Here(j) /\ loop.occ[j] <= jobs[j].occ
        /\ jobs[j].due => loop.occ[j] < jobs[j].occ
    BY <2>1 DEF Occurrences
  <2>3. CASE j # k
    BY <1>3, <1>4, <2>1, <2>2, <2>3
  <2>4. CASE j = k
    BY <1>3, <1>4, <2>1, <2>2, <2>4
  <2>5. QED
    BY <2>3, <2>4
<1>10. QED
  BY <1>7, <1>8, <1>9 DEF Occurrences

\* The tick moves the due jobs on and remembers their times.
LEMMA OccurrencesTick ==
  ASSUME Typed, Occurrences, Tick
  PROVE  Occurrences'
<1>0. run \in [Runs -> RunRec] /\ jobs \in [Jobs -> JobRec] /\ Free \in LoopRec
  BY Parts, Records
<1> DEFINE due == {j \in Active : jobs[j].due}
<1>1. /\ UNCHANGED run /\ jobs' = Advanced(jobs, due)
      /\ loop' = [Free EXCEPT !.pc = "tick", !.set = due, !.occ = [j \in Jobs |-> jobs[j].occ]]
  BY DEF Tick
<1>2. due \subseteq Jobs /\ \A j \in due : Here(j) /\ jobs[j].due
  BY DEF Active, Here
<1> HIDE DEF due
<1>3. loop'.set = due /\ \A j \in Jobs : loop'.occ[j] = jobs[j].occ
  BY <1>0, <1>1 DEF LoopRec
<1>4. \A j \in Jobs : LET a == [jobs[j] EXCEPT !.due = FALSE]
                      IN a.st = jobs[j].st /\ a.occ = jobs[j].occ /\ ~a.due
  BY <1>0 DEF JobRec
<1>5. \A j \in Jobs : /\ jobs'[j].st = jobs[j].st /\ jobs'[j].occ = jobs[j].occ
                      /\ jobs'[j].due => jobs[j].due
                      /\ j \in due => ~jobs'[j].due
  BY <1>1, <1>4 DEF Advanced
<1>6. \A j \in Jobs : (Here(j)' <=> Here(j)) /\ jobs[j].occ \in Nat
  BY <1>0, <1>5, Constants DEF Here, JobRec
<1>7. OncePerOccurrence' /\ \A r \in Runs : run'[r].occ # 0 => run'[r].job \in Jobs
  BY <1>1 DEF Occurrences, OncePerOccurrence
<1>8. ASSUME NEW r \in Runs, NEW j \in Jobs, Made(r, j)'
      PROVE  /\ jobs'[j].st # "none"
             /\ Here(j)' => run'[r].occ <= jobs'[j].occ
             /\ Here(j)' /\ jobs'[j].due => run'[r].occ < jobs'[j].occ
             /\ loop'.pc = "tick" /\ j \in loop'.set => run'[r].occ < loop'.occ[j]
  <2>1. Made(r, j)
    BY <1>1, <1>8 DEF Made
  <2>2. /\ jobs[j].st # "none"
        /\ Here(j) => run[r].occ <= jobs[j].occ
        /\ Here(j) /\ jobs[j].due => run[r].occ < jobs[j].occ
    BY <2>1 DEF Occurrences
  <2>3. QED
    BY <1>1, <1>2, <1>3, <1>5, <1>6, <2>2
<1>9. ASSUME NEW j \in loop'.set
      PROVE  /\ Here(j)' /\ loop'.occ[j] <= jobs'[j].occ
             /\ jobs'[j].due => loop'.occ[j] < jobs'[j].occ
  BY <1>2, <1>3, <1>5, <1>6, <1>9
<1>10. QED
  BY <1>7, <1>8, <1>9 DEF Occurrences

\* Each of them gets its run for the time that was remembered.
LEMMA OccurrencesTickJob ==
  ASSUME Typed, Occurrences, TickJob
  PROVE  Occurrences'
<1>0. /\ run \in [Runs -> RunRec] /\ loop \in LoopRec /\ LoopOK /\ Jobs \subseteq Nat
      /\ loop.pc = "tick" /\ UNCHANGED jobs
  BY Parts, Constants DEF TickJob
<1>1. loop.set # {} /\ loop.set \subseteq Jobs
  BY <1>0 DEF LoopOK
<1>2. PICK j \in loop.set : j = Min(loop.set)
  BY <1>0, <1>1, MinIsLeast
<1> DEFINE n == loop.occ[j]
           new == [JobRun(j) EXCEPT !.job = j, !.occ = loop.occ[j]]
<1>3. j \in Jobs /\ n \in 0..MaxOcc /\ n \in Nat
  BY <1>0, <1>1, Constants DEF LoopRec
<1>4. new \in News /\ new.job = j /\ new.occ = n
  BY <1>3, NewRuns
<1>5. \E r \in Runs : Created(r, new)
  BY <1>2 DEF TickJob
<1>6. loop' = Free \/ loop' = [loop EXCEPT !.set = loop.set \ {j}]
  BY <1>2 DEF TickJob
<1> HIDE DEF new
<1>7. PICK r \in Runs : Created(r, new)
  BY <1>5
<1> DEFINE f == [new EXCEPT !.st = IF new.needs THEN "pending_approval" ELSE "approved"]
<1>8. run' = [run EXCEPT ![r] = f]
  BY <1>7 DEF Created
<1>9. f.job = j /\ f.occ = n
  BY <1>4 DEF News, RunRec
<1> HIDE DEF f
<1>10. run'[r].job = j /\ run'[r].occ = n /\ \A q \in Runs \ {r} : run'[q] = run[q]
  BY <1>0, <1>8, <1>9
\* Its other runs are for earlier times.
<1>11. \A q \in Runs : Made(q, j) => run[q].occ < n
  BY <1>0, <1>2, <1>3 DEF Occurrences
<1>12. Here(j) /\ n <= jobs[j].occ /\ (jobs[j].due => n < jobs[j].occ)
  BY <1>0, <1>2 DEF Occurrences
<1>13. ASSUME NEW p \in Runs, NEW q \in Runs, p # q, run'[p].occ # 0
       PROVE  <<run'[p].job, run'[p].occ>> # <<run'[q].job, run'[q].occ>>
  <2>1. CASE p # r /\ q # r
    BY <1>10, <1>13, <2>1 DEF Occurrences, OncePerOccurrence
  <2>2. CASE p = r
    <3>1. run'[q] = run[q] /\ (Made(q, j) => run[q].occ < n) /\ run'[p].job = j /\ run'[p].occ = n /\ n # 0
      BY <1>10, <1>11, <1>13, <2>2
    <3>2. QED
      BY <1>3, <3>1 DEF Made
  <2>3. CASE q = r
    <3>1. run'[p] = run[p] /\ (Made(p, j) => run[p].occ < n) /\ run'[q].job = j /\ run'[q].occ = n
      BY <1>10, <1>11, <1>13, <2>3
    <3>2. QED
      BY <1>3, <1>13, <3>1 DEF Made
  <2>4. QED
    BY <2>1, <2>2, <2>3
<1>14. \A q \in Runs : run'[q].occ # 0 => run'[q].job \in Jobs
  BY <1>3, <1>10 DEF Occurrences
<1>15. loop'.pc = "tick" => loop'.occ = loop.occ /\ loop'.set = loop.set \ {j}
  <2>1. Free.pc # "tick"
    BY DEF Free
  <2>2. QED
    BY <1>0, <1>6, <2>1 DEF LoopRec
<1>16. ASSUME NEW q \in Runs, NEW k \in Jobs, Made(q, k)'
       PROVE  /\ jobs'[k].st # "none"
              /\ Here(k)' => run'[q].occ <= jobs'[k].occ
              /\ Here(k)' /\ jobs'[k].due => run'[q].occ < jobs'[k].occ
              /\ loop'.pc = "tick" /\ k \in loop'.set => run'[q].occ < loop'.occ[k]
  <2>1. CASE q # r
    <3>1. Made(q, k) /\ run'[q] = run[q]
      BY <1>10, <1>16, <2>1 DEF Made
    <3>2. /\ jobs[k].st # "none"
          /\ Here(k) => run[q].occ <= jobs[k].occ
          /\ Here(k) /\ jobs[k].due => run[q].occ < jobs[k].occ
          /\ k \in loop.set => run[q].occ < loop.occ[k]
      BY <1>0, <3>1 DEF Occurrences
    <3>3. QED
      BY <1>0, <1>15, <3>1, <3>2 DEF Here
  <2>2. CASE q = r
    <3>1. k = j /\ run'[q].occ = n
      BY <1>10, <1>16, <2>2 DEF Made
    <3>2. jobs[j].st # "none"
      BY <1>12 DEF Here
    <3>3. QED
      BY <1>0, <1>12, <1>15, <3>1, <3>2
  <2>3. QED
    BY <2>1, <2>2
<1>17. ASSUME loop'.pc = "tick", NEW k \in loop'.set
       PROVE  /\ Here(k)' /\ loop'.occ[k] <= jobs'[k].occ
              /\ jobs'[k].due => loop'.occ[k] < jobs'[k].occ
  <2>1. k \in loop.set /\ loop'.occ = loop.occ
    BY <1>15, <1>17
  <2>2. /\ Here(k) /\ loop.occ[k] <= jobs[k].occ
        /\ jobs[k].due => loop.occ[k] < jobs[k].occ
    BY <1>0, <2>1 DEF Occurrences
  <2>3. QED
    BY <1>0, <2>1, <2>2 DEF Here
<1>18. QED
  BY <1>13, <1>14, <1>16, <1>17 DEF Occurrences, OncePerOccurrence

LEMMA OccurrencesStep == Typed /\ Occurrences /\ [Next]_vars => Occurrences'
<1> SUFFICES ASSUME Typed, Occurrences, [Next]_vars PROVE Occurrences'
  OBVIOUS
<1>1. CASE Next
  <2>1. CASE TickJob
    BY <2>1, OccurrencesTickJob
  <2>2. CASE Tick
    BY <2>2, OccurrencesTick
  <2>3. CASE \E j \in Jobs : FallDue(j)
    BY <2>3, OccurrencesFall
  <2>4. CASE ~TickJob /\ ~Tick /\ CalmJobs
    BY <1>1, <2>4, OccurrencesCalm
  <2>5. JobMoves
    BY <1>1, JobSteps
  <2>6. QED
    BY <2>1, <2>2, <2>3, <2>4, <2>5 DEF JobMoves
<1>2. CASE UNCHANGED vars
  BY <1>2 DEF vars, Occurrences, OncePerOccurrence, Made, Here
<1>3. QED
  BY <1>1, <1>2

----------------------------------------------------------------------------
(* The theorems.                                                             *)

\* The invariants hold in every behaviour of the control plane, for any constants.
THEOREM ControlInvariance == Spec => []IInv
<1>1. Init => IInv
  BY TypesInit, ApprovalsInit, OccurrencesInit DEF IInv
<1>2. IInv /\ [Next]_vars => IInv'
  BY TypesStep, ApprovalsStep, OccurrencesStep DEF IInv
<1>3. QED
  BY <1>1, <1>2, PTL DEF Spec

\* No step of a run that needs an approval begins before the approval is given (not by a
\* start between the check and mark_running, not after a rejection, an expiry, a recovery
\* or a restart), and a run waits exactly as long as its approval is pending: start_run,
\* resolve_approval, list_approvals, _delete_runs and _recover_orphaned_runs.
THEOREM ApprovalsAlwaysHold == Spec => []ApprovalsHold
<1>1. IInv => ApprovalsHold
  <2> SUFFICES ASSUME IInv PROVE ApprovalsHold
    OBVIOUS
  <2>1. Typed /\ Approvals
    BY DEF IInv
  <2>2. exec \in [Executors -> ExecRec] /\ loop \in LoopRec /\ crashes <= workload.crashes
    BY <2>1 DEF Typed, LoopOK
  <2>3. loop.set \subseteq Runs \cup Jobs /\ loop.occ \in [Jobs -> 0..MaxOcc]
    BY <2>2 DEF LoopRec
  <2>4. TypeOK
    BY <2>1, <2>2, <2>3 DEF Typed, TypeOK, RunRec, JobRec, ObjectiveRec, ExecRec
  <2>5. StepsNeedApproval /\ PendingTogether
    BY <2>1 DEF Approvals, Approved, StepsNeedApproval, PendingTogether
  <2>6. QED
    BY <2>4, <2>5 DEF ApprovalsHold
<1>2. QED
  BY <1>1, ControlInvariance, PTL

\* A time of a scheduled job makes at most one run, whatever executors, handlers and
\* other ticks do meanwhile, and also when the process dies between the mutate that
\* moves the job on and the creation of its run (run_scheduler_tick).
THEOREM OneRunPerTime == Spec => []OncePerOccurrence
<1>1. IInv => OncePerOccurrence
  BY DEF IInv, Occurrences
<1>2. QED
  BY <1>1, ControlInvariance, PTL

\* The iteration count of an objective never goes back, in whatever order the summaries
\* of iterations that ran side by side arrive (update_after_run).
THEOREM IterationsCountUp == Spec => IterationMonotone
<1>1. IInv /\ [Next]_vars =>
        [objective'.entry = objective.entry /\ Present /\ objective'.status # "none"
           => objective'.iter >= objective.iter]_vars
  <2> SUFFICES ASSUME IInv, Next, objective'.entry = objective.entry, Present,
                      objective'.status # "none"
               PROVE  objective'.iter >= objective.iter
    OBVIOUS
  <2>1. ObjectiveMoves /\ Present'
    BY ObjectiveSteps DEF IInv, Present
  <2>2. QED
    BY <2>1 DEF ObjectiveMoves
<1>2. QED
  BY <1>1, ControlInvariance, PTL DEF Spec, IterationMonotone
=============================================================================
