------------------------------ MODULE Generation ------------------------------
(* Image and video generation (backend/src/generation): a request submits a  *)
(* workflow to ComfyUI and stores a job; a poller brings each job to an end; *)
(* the frontend asks for what ended after the last sequence number it saw.   *)
(* The router and the poller have a service each, thus a store and a lock    *)
(* each, on one file: a change is a read and a later write, and only changes *)
(* of one service exclude each other.                                        *)
EXTENDS FiniteSets, Integers

CONSTANTS GenJobs,     \* bound: submissions
          PageSize     \* limit of list_completions

ASSUME PageSizeAssumption == PageSize \in Nat \ {0} /\ GenJobs \subseteq Nat /\ IsFiniteSet(GenJobs)

VARIABLES genStore,    \* state.json: the jobs and next_completion_seq
          genAged,     \* jobs older than max_job_age_seconds
          comfy,       \* ComfyUI: what its history says of each prompt
          submission,  \* the request being served: submit_job
          poll,        \* the poller's thread
          notices,     \* the frontend: since_seq and the jobs it was told of
          genCrossed   \* history: two changes of the file overlapped

generation == <<genStore, genAged, comfy, submission, poll, notices, genCrossed>>

Absent == [status |-> "absent", seq |-> 0]
Ends == {"completed", "failed", "timed_out"}
Idle == [pc |-> "idle"]

Stored(j) == genStore.jobs[j].status # "absent"
Pending == {j \in GenJobs : genStore.jobs[j].status \in {"submitted", "running"}}

GenTypeOK ==
  /\ genStore \in [jobs : [GenJobs -> [status : Ends \cup {"absent", "submitted", "running"},
                                       seq : 0 .. Cardinality(GenJobs)]],
                   next : 1 .. Cardinality(GenJobs) + 1]
  /\ genAged \subseteq GenJobs /\ genCrossed \in BOOLEAN
  /\ comfy \in [GenJobs -> {"unknown", "working", "error", "empty", "done"}]
  /\ submission.pc \in {"idle", "posted", "writing"}
  /\ poll.pc \in {"idle", "pass", "marking", "writing"}
  /\ notices \in [since : Nat, told : SUBSET GenJobs]

GenInit ==
  /\ genStore = [jobs |-> [j \in GenJobs |-> Absent], next |-> 1]
  /\ genAged = {} /\ comfy = [j \in GenJobs |-> "unknown"]
  /\ submission = Idle /\ poll = Idle
  /\ notices = [since |-> 0, told |-> {}] /\ genCrossed = FALSE

(* submit_job: the request handler never yields, so one submission at a time *)
Submit(j) ==
  /\ submission.pc = "idle" /\ comfy[j] = "unknown"
  /\ \A k \in GenJobs : k < j => comfy[k] # "unknown"
  /\ comfy' = [comfy EXCEPT ![j] = "working"]
  /\ submission' = [pc |-> "posted", job |-> j]
  /\ UNCHANGED <<genStore, genAged, poll, notices, genCrossed>>

\* store.mutate reads the file ...
SubmitReads ==
  /\ submission.pc = "posted"
  /\ submission' = [pc |-> "writing", job |-> submission.job, base |-> genStore]
  /\ genCrossed' = (genCrossed \/ poll.pc = "writing")
  /\ UNCHANGED <<genStore, genAged, comfy, poll, notices>>

\* ... and replaces it.
SubmitWrites ==
  /\ submission.pc = "writing"
  /\ genStore' = [submission.base EXCEPT
                    !.jobs[submission.job] = [status |-> "submitted", seq |-> 0]]
  /\ submission' = Idle
  /\ UNCHANGED <<genAged, comfy, poll, notices, genCrossed>>

(* poll_pending_jobs_once: the jobs to look at, and how old they are now *)
PollStarts ==
  /\ poll.pc = "idle" /\ Pending # {}
  /\ poll' = [pc |-> "pass", todo |-> Pending, aged |-> genAged \cap Pending]
  /\ UNCHANGED <<genStore, genAged, comfy, submission, notices, genCrossed>>

\* Mutated: the age is looked at when the history was fetched.
VerdictsOnceFetched(j) ==
  {"unreachable"} \cup IF j \in poll.aged THEN {"timed_out"}
  ELSE CASE comfy[j] = "error" -> {"failed"}
         [] comfy[j] = "done" -> {"completed", "failed", "running"}
         [] OTHER -> {"running"}

\* What a look at one job makes of it, or that its history cannot be fetched.
Verdicts(j) ==
  IF j \in poll.aged THEN {"timed_out"}
  ELSE CASE comfy[j] = "working" -> {"running", "unreachable"}
         [] comfy[j] = "error" -> {"failed", "unreachable"}
         [] comfy[j] = "empty" -> {"running", "unreachable"}
         [] comfy[j] = "done" -> {"completed", "failed", "running", "unreachable"}

PollLooks(j) ==
  /\ poll.pc = "pass" /\ j \in poll.todo
  /\ \E v \in Verdicts(j) :
       poll' = IF v = "unreachable" THEN [poll EXCEPT !.todo = @ \ {j}]
               ELSE [pc |-> "marking", todo |-> poll.todo \ {j}, aged |-> poll.aged,
                     job |-> j, as |-> v]
  /\ UNCHANGED <<genStore, genAged, comfy, submission, notices, genCrossed>>

PollReads ==
  /\ poll.pc = "marking"
  /\ poll' = [pc |-> "writing", todo |-> poll.todo, aged |-> poll.aged,
              job |-> poll.job, as |-> poll.as, base |-> genStore]
  /\ genCrossed' = (genCrossed \/ submission.pc = "writing")
  /\ UNCHANGED <<genStore, genAged, comfy, submission, notices>>

(* _mark_running_if_needed and _mark_terminal *)
Marked(store, j, as) ==
  IF as = "running"
    THEN IF store.jobs[j].status = "submitted"
           THEN [store EXCEPT !.jobs[j].status = "running"] ELSE store
    ELSE IF store.jobs[j].status \in Ends \cup {"absent"} THEN store
           ELSE [jobs |-> [store.jobs EXCEPT ![j] = [status |-> as, seq |-> store.next]],
                 next |-> store.next + 1]

PollWrites ==
  /\ poll.pc = "writing"
  /\ genStore' = Marked(poll.base, poll.job, poll.as)
  /\ poll' = [pc |-> "pass", todo |-> poll.todo, aged |-> poll.aged]
  /\ UNCHANGED <<genAged, comfy, submission, notices, genCrossed>>

PollEnds == /\ poll.pc = "pass" /\ poll.todo = {}
            /\ poll' = Idle
            /\ UNCHANGED <<genStore, genAged, comfy, submission, notices, genCrossed>>

(* list_completions: ended after since_seq, oldest end first, one page *)
After(since) == {j \in GenJobs : /\ genStore.jobs[j].status \in Ends
                                 /\ genStore.jobs[j].seq > since}
SeqOf(j) == genStore.jobs[j].seq
IsPage(p, jobs) ==
  /\ p \subseteq jobs
  /\ Cardinality(p) = (IF Cardinality(jobs) < PageSize THEN Cardinality(jobs) ELSE PageSize)
  /\ \A j \in p, k \in jobs \ p : SeqOf(j) <= SeqOf(k)

\* The frontend asks, and goes on from next_since_seq; it drops numbers it has seen.
Ask ==
  /\ submission.pc = "idle" /\ After(notices.since) # {}
  /\ \E p \in SUBSET GenJobs :
       /\ IsPage(p, After(notices.since))
       /\ notices' = [since |-> CHOOSE s \in {SeqOf(j) : j \in p} : \A j \in p : SeqOf(j) <= s,
                      told |-> notices.told \cup p]
  /\ UNCHANGED <<genStore, genAged, comfy, submission, poll, genCrossed>>

(* What happens outside: ComfyUI finishes a prompt, and time passes *)
ComfyEnds(j) ==
  /\ comfy[j] = "working"
  /\ \E r \in {"error", "empty", "done"} : comfy' = [comfy EXCEPT ![j] = r]
  /\ UNCHANGED <<genStore, genAged, submission, poll, notices, genCrossed>>

Age(j) ==
  /\ comfy[j] # "unknown" /\ j \notin genAged
  /\ genAged' = genAged \cup {j}
  /\ UNCHANGED <<genStore, comfy, submission, poll, notices, genCrossed>>

\* The process stops: the file and the frontend keep what they have.
GenCrash ==
  /\ submission' = Idle /\ poll' = Idle
  /\ UNCHANGED <<genStore, genAged, comfy, notices, genCrossed>>

Poller == PollStarts \/ (\E j \in GenJobs : PollLooks(j)) \/ PollReads \/ PollWrites \/ PollEnds
GenStep == \/ SubmitReads \/ SubmitWrites \/ Ask \/ Poller
           \/ \E j \in GenJobs : ComfyEnds(j) \/ Age(j)
GenFairness == /\ WF_generation(Poller)
               /\ \A j \in GenJobs : WF_generation(Age(j))
-----------------------------------------------------------------------------
(* A job that was stored ends, at the latest when it is too old, though      *)
(* ComfyUI never answers, unless two changes of the file overlapped.         *)
JobsEnd == \A j \in GenJobs :
  Stored(j) ~> (genCrossed \/ genStore.jobs[j].status \in Ends)

(* The frontend hears of every end: what ended up to its since_seq it was    *)
(* told, whatever the page size, unless two changes of the file overlapped.  *)
NoticeOfEveryEnd ==
  genCrossed \/ \A j \in GenJobs :
    genStore.jobs[j].status \in Ends /\ SeqOf(j) <= notices.since => j \in notices.told
=============================================================================
