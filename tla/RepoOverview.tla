----------------------------- MODULE RepoOverview -----------------------------
(* /analyse and the deep refresh of repo_overview.md                         *)
(* (backend/src/gateway/routers/workspace_io.py), for one thread with a      *)
(* mounted folder.  The job store is a file; the tasks and the objects of    *)
(* jobs they work on are in memory and shared with the endpoints, which run  *)
(* on the same event loop: only awaits separate the steps.                   *)
EXTENDS Integers, Sequences

CONSTANTS RvJobs,       \* bound: refresh jobs
          MaxAttempts,  \* _REPO_OVERVIEW_REFRESH_MAX_ATTEMPTS
          MaxAnalyses   \* bound: versions of the mirror

ASSUME RvAssumption == MaxAttempts \in Nat \ {0} /\ MaxAnalyses \in Nat /\ RvJobs \subseteq Nat \ {0}

VARIABLES rvFile,     \* repo_overview_refresh_jobs.json: the jobs, oldest first
          rvMemory,   \* _REPO_OVERVIEW_JOBS: the status in the object of each job
          rvCurrent,  \* _REPO_OVERVIEW_JOB_BY_THREAD
          rvTask,     \* _REPO_OVERVIEW_TASKS: the task of each job
          mount,      \* the mounted folder is configured and there
          namesake,   \* its root holds a file "index", mirrored as .docs/index.md
          mirror,     \* .docs and .analyse, and the version its overview reports on
          analysis,   \* the /analyse request, which holds the analyse lock
          published,  \* history: the mirror at the last unforced publication
          rvOverlap,  \* history: an analysis failed, or met a refresh, a
                      \* publication or a restart
          rvLooked,   \* history: jobs whose object was replaced under their task
          rvLeft      \* history: jobs that recovery queued

repoOverview == <<rvFile, rvMemory, rvCurrent, rvTask, mount, namesake, mirror, analysis,
                  published, rvOverlap, rvLooked, rvLeft>>

None == 0
Live == {"queued", "running"}
NoTask == [pc |-> "none", own |-> FALSE, attempt |-> 0, of |-> 0]
Mirrors == [version : 0 .. MaxAnalyses, whole : BOOLEAN, index : BOOLEAN,
            overview : 0 .. MaxAnalyses]
Blank == [version |-> 0, whole |-> FALSE, index |-> FALSE, overview |-> 0]

HasTask(j) == rvTask[j].pc # "none"
Recorded == {rvFile[i].job : i \in DOMAIN rvFile}
StatusOf(j) == rvFile[CHOOSE i \in DOMAIN rvFile : rvFile[i].job = j].status

RvTypeOK ==
  /\ rvFile \in Seq([job : RvJobs, status : Live \cup {"succeeded", "failed"}])
  /\ rvMemory \in [RvJobs -> Live \cup {"absent", "succeeded", "failed"}]
  /\ rvCurrent \in RvJobs \cup {None} /\ rvLooked \cup rvLeft \subseteq RvJobs
  /\ rvTask \in [RvJobs -> [pc : {"none", "ready", "asking", "sleeping"}, own : BOOLEAN,
                            attempt : 0 .. MaxAttempts, of : 0 .. MaxAnalyses]]
  /\ {mount, namesake, rvOverlap} \subseteq BOOLEAN
  /\ {mirror, published} \subseteq Mirrors /\ analysis \in {"idle", "writing"}

RvInit ==
  /\ rvFile = <<>> /\ rvMemory = [j \in RvJobs |-> "absent"] /\ rvCurrent = None
  /\ rvTask = [j \in RvJobs |-> NoTask]
  /\ mount = TRUE /\ namesake \in BOOLEAN
  /\ mirror = Blank /\ published = Blank /\ analysis = "idle"
  /\ rvOverlap = FALSE /\ rvLooked = {} /\ rvLeft = {}

(* _persist_job: the record of the job is replaced, or appended *)
Persisted(f, j, s) ==
  IF j \in {f[i].job : i \in DOMAIN f}
    THEN [i \in DOMAIN f |-> IF f[i].job = j THEN [job |-> j, status |-> s] ELSE f[i]]
    ELSE Append(f, [job |-> j, status |-> s])

\* The task changes its own object and persists it; the cache may hold another.
Record(j, s) ==
  /\ rvFile' = Persisted(rvFile, j, s)
  /\ rvMemory' = IF rvTask[j].own THEN [rvMemory EXCEPT ![j] = s] ELSE rvMemory

(* _get_latest_job_for_thread puts an object of its own in the cache *)
Latest == rvFile[Len(rvFile)].job
LatestIs(S) == rvFile # <<>> /\ StatusOf(Latest) \in S
Look ==
  IF rvFile = <<>> THEN UNCHANGED <<rvMemory, rvCurrent, rvTask, rvLooked>>
  ELSE /\ rvMemory' = [rvMemory EXCEPT ![Latest] = StatusOf(Latest)]
       /\ rvCurrent' = IF LatestIs(Live) THEN Latest ELSE rvCurrent
       /\ rvLooked' = IF rvTask[Latest].own THEN rvLooked \cup {Latest} ELSE rvLooked
       /\ rvTask' = [rvTask EXCEPT ![Latest].own = FALSE]

(* _enqueue_repo_overview_refresh: nothing is awaited, so it is one step *)
CurrentIsLive == rvCurrent # None /\ rvMemory[rvCurrent] \in Live

Enqueue ==
  IF CurrentIsLive THEN UNCHANGED <<rvFile, rvMemory, rvCurrent, rvTask, rvLooked>>
  ELSE IF LatestIs(Live) THEN Look /\ UNCHANGED rvFile
  ELSE \E j \in RvJobs \ Recorded :
         /\ \A k \in RvJobs \ Recorded : j <= k
         /\ rvFile' = Persisted(rvFile, j, "queued")
         /\ rvMemory' = [rvMemory EXCEPT ![j] = "queued"]
         /\ rvCurrent' = j
         /\ rvTask' = [rvTask EXCEPT ![j] = [NoTask EXCEPT !.pc = "ready"]]
         /\ UNCHANGED rvLooked

(* _run_repo_overview_refresh_job: the task takes the object in the cache *)
RefreshStarts(j) ==
  /\ rvTask[j].pc = "ready"
  /\ rvTask' = [rvTask EXCEPT ![j] = [pc |-> "asking", own |-> TRUE, attempt |-> 1,
                                      of |-> mirror.version]]
  /\ rvFile' = Persisted(rvFile, j, "running")
  /\ rvMemory' = [rvMemory EXCEPT ![j] = "running"]
  /\ UNCHANGED <<rvCurrent, mount, namesake, mirror, analysis, published, rvOverlap, rvLooked, rvLeft>>

\* The finally: the outcome is persisted, and the task forgotten.
RefreshEnds(j, s) ==
  /\ Record(j, s)
  /\ rvTask' = [rvTask EXCEPT ![j] = NoTask]
  /\ rvCurrent' = IF rvCurrent = j THEN None ELSE rvCurrent

\* One of the models answered: the report is replaced in one step.
ModelAnswers(j) ==
  /\ rvTask[j].pc = "asking"
  /\ mirror' = [mirror EXCEPT !.overview = rvTask[j].of]
  /\ RefreshEnds(j, "succeeded")
  /\ UNCHANGED <<mount, namesake, analysis, published, rvOverlap, rvLooked, rvLeft>>

\* All of them failed, were too slow, or the answer was empty.
AttemptFails(j) ==
  /\ rvTask[j].pc = "asking"
  /\ IF rvTask[j].attempt >= MaxAttempts THEN RefreshEnds(j, "failed")
     ELSE /\ rvTask' = [rvTask EXCEPT ![j].pc = "sleeping"]
          /\ UNCHANGED <<rvFile, rvMemory, rvCurrent>>
  /\ UNCHANGED <<mount, namesake, mirror, analysis, published, rvOverlap, rvLooked, rvLeft>>

RefreshRetries(j) ==
  /\ rvTask[j].pc = "sleeping"
  /\ rvTask' = [rvTask EXCEPT ![j] = [pc |-> "asking", own |-> @.own, attempt |-> @.attempt + 1,
                                      of |-> mirror.version]]
  /\ Record(j, "running")
  /\ UNCHANGED <<rvCurrent, mount, namesake, mirror, analysis, published, rvOverlap, rvLooked, rvLeft>>

(* start_repo_overview_refresh *)
StartRefresh ==
  /\ mount /\ mirror.index
  /\ Enqueue
  /\ rvOverlap' = (rvOverlap \/ analysis = "writing")
  /\ UNCHANGED <<mount, namesake, mirror, analysis, published, rvLeft>>

(* run_analyse: the lock is not waited for; a thread rewrites the mirror file  *)
(* by file, the overview with a draft before the index                        *)
AnalyseStarts ==
  /\ mount /\ analysis = "idle" /\ mirror.version < MaxAnalyses
  /\ analysis' = "writing"
  /\ mirror' = [version |-> mirror.version + 1, whole |-> FALSE, index |-> mirror.index,
                overview |-> 0]
  /\ rvOverlap' = (rvOverlap \/ \E j \in RvJobs : HasTask(j))
  /\ UNCHANGED <<rvFile, rvMemory, rvCurrent, rvTask, mount, namesake, published, rvLooked, rvLeft>>

AnalyseEnds ==
  /\ analysis = "writing" /\ analysis' = "idle"
  /\ mirror' = [mirror EXCEPT !.whole = TRUE, !.index = TRUE]
  /\ Enqueue
  /\ UNCHANGED <<mount, namesake, published, rvOverlap, rvLeft>>

AnalyseFails ==
  /\ analysis = "writing" /\ analysis' = "idle" /\ rvOverlap' = TRUE
  /\ UNCHANGED <<rvFile, rvMemory, rvCurrent, rvTask, mount, namesake, mirror, published, rvLooked, rvLeft>>

\* Mutated: only a refresh in progress is waited for.
MayPublishOnceOver(force) == force \/ ~LatestIs(Live)

(* publish_docs *)
MayPublish(force) == force \/ rvFile = <<>> \/ LatestIs({"succeeded"})

Publish(force) ==
  /\ mount /\ mirror.index
  /\ Look
  /\ published' = IF MayPublish(force) /\ ~force THEN mirror ELSE published
  /\ rvOverlap' = (rvOverlap \/ analysis = "writing")
  /\ UNCHANGED <<rvFile, mount, namesake, mirror, analysis, rvLeft>>

(* get_repo_overview_refresh_status, of a job that only the file knows *)
AskStatus(j) ==
  /\ rvMemory[j] = "absent" /\ j \in Recorded
  /\ rvMemory' = [rvMemory EXCEPT ![j] = StatusOf(j)]
  /\ UNCHANGED <<rvFile, rvCurrent, rvTask, mount, namesake, mirror, analysis, published,
                 rvOverlap, rvLooked, rvLeft>>

(* put_mount_folder and delete_mount_folder *)
ChangeMount == /\ mount' = ~mount
               /\ UNCHANGED <<rvFile, rvMemory, rvCurrent, rvTask, namesake, mirror, analysis,
                              published, rvOverlap, rvLooked, rvLeft>>

(* initialize_repo_overview_refresh_jobs, on the file f a dead process left: a *)
(* job that was not over fails, unless the mirror has an index.md; then it is   *)
(* queued, and the call that should make its task raises for want of an         *)
(* argument.                                                                    *)
Recovered(f) ==
  LET last == f[Len(f)] IN
  IF f = <<>> \/ last.status \notin Live
    THEN [file |-> f, memory |-> "none"]
  ELSE IF mount /\ namesake /\ mirror.version > 0
    THEN [file |-> Persisted(f, last.job, "queued"), memory |-> "queued"]
    ELSE [file |-> Persisted(f, last.job, "failed"), memory |-> "failed"]

\* The process stops and starts again.  A file that was being written reads as no jobs.
RvRestart ==
  \E f \in {rvFile} \cup {<<>> : j \in {k \in RvJobs : HasTask(k)}} :
    LET r == Recovered(f) IN
    /\ rvFile' = r.file
    /\ rvMemory' = [j \in RvJobs |-> IF f # <<>> /\ j = f[Len(f)].job
                                       THEN r.file[Len(f)].status ELSE "absent"]
    /\ rvCurrent' = IF r.memory # "none" THEN f[Len(f)].job ELSE None
    /\ rvTask' = [j \in RvJobs |-> NoTask]
    /\ analysis' = "idle"
    /\ \E w \in BOOLEAN : mirror' = IF analysis = "writing" THEN [mirror EXCEPT !.whole = w,
                                                   !.index = @ \/ w] ELSE mirror
    /\ rvOverlap' = TRUE
    /\ rvLooked' = {}
    /\ rvLeft' = rvLeft \cup IF r.memory = "queued" THEN {rvCurrent'} ELSE {}
    /\ UNCHANGED <<mount, namesake, published>>

Refresh(j) == RefreshStarts(j) \/ ModelAnswers(j) \/ AttemptFails(j) \/ RefreshRetries(j)
RvStep == AnalyseEnds \/ AnalyseFails \/ \E j \in RvJobs : Refresh(j) \/ AskStatus(j)
RvFairness == \A j \in RvJobs : WF_repoOverview(Refresh(j))
-----------------------------------------------------------------------------
(* A job is recorded as queued or running just while its task lives, unless  *)
(* a former process left it so; and no two tasks live at once.               *)
RecordsMatchTasks ==
  /\ \A j \in RvJobs : HasTask(j) => j \in Recorded /\ StatusOf(j) \in Live
  /\ \A j, k \in RvJobs : HasTask(j) /\ HasTask(k) => j = k
  /\ \A j \in Recorded : StatusOf(j) \in Live => HasTask(j) \/ j \in rvLeft
  /\ \A j \in Recorded \ rvLooked : rvMemory[j] \in {"absent", StatusOf(j)}

(* Unless it is forced, only a whole mirror is published and only with a     *)
(* report made from that very version, when no analysis met anything else.   *)
PublishedIsReviewed ==
  ~rvOverlap /\ published # Blank =>
    published.whole /\ published.overview = published.version

(* A refresh ends within its attempts, unless the process stops. *)
EveryRefreshEnds == \A j \in RvJobs : HasTask(j) ~> ~HasTask(j)

(* What the code says of the jobs it fails when it starts: "Recovery failed: *)
(* missing mount config or staged docs index."                               *)
RecoveryFailsForWant ==
  [][\A j \in RvJobs : RvRestart /\ mount /\ mirror.index /\ j \in Recorded /\ StatusOf(j) \in Live
       => (j \in Recorded)' /\ StatusOf(j)' = "queued"]_repoOverview
=============================================================================
