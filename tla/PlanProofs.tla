------------------------------ MODULE PlanProofs ------------------------------
(***************************************************************************)
(* Proofs about the approval and hand-off of a plan (PlanHandoff) and the    *)
(* executor under it (BackgroundExecutor), for any bounds and workloads; at  *)
(* the end, about the run that executes it (MCAgentLoop).                    *)
(*                                                                           *)
(* What holds of the thread's plan holds because it holds of every copy: a   *)
(* handler writes back whole what it read before.  So the invariant speaks   *)
(* of all of them (Good, Copies).                                            *)
(***************************************************************************)
EXTENDS PlanHandoff, MCAgentLoop, FiniteSetTheorems, SequenceTheorems, WellFoundedInduction, TLAPS

----------------------------------------------------------------------------
(* The permits of the executor.                                              *)

Balanced == ExecutorTypeOK /\ PermitsBalance

\* The accepted tasks are finitely many.
LEMMA AcceptedIsFinite == IsFiniteSet(Accepted) /\ Cardinality(Accepted) \in Nat
<1>1. Accepted \in SUBSET Tasks
  BY DEF Accepted
<1>2. IsFiniteSet(Accepted)
  BY <1>1, FS_Subset, ExecutorBounds
<1>3. QED
  BY <1>2, FS_CardinalityType

\* What each operation of the executor does to the tasks that hold a permit.
LEMMA TaskMoves ==
  ASSUME Balanced, NEW t \in Tasks, NEW s \in TaskStates, task' = [task EXCEPT ![t] = s],
         permits' = permits
           + (IF task[t] \in {"queued", "running"} THEN 1 ELSE 0)
           - (IF s \in {"queued", "running"} THEN 1 ELSE 0)
  PROVE  Balanced'
<1>1. task' \in [Tasks -> TaskStates] /\ permits' \in Int
  BY DEF Balanced, ExecutorTypeOK
<1>2. permits = Capacity - Cardinality(Accepted) /\ Capacity \in Nat
  BY ExecutorBounds DEF Balanced, PermitsBalance
<1>3. CASE task[t] \in {"queued", "running"} /\ s \notin {"queued", "running"}
  <2>1. Accepted' = Accepted \ {t} /\ t \in Accepted
    BY <1>3 DEF Accepted, Balanced, ExecutorTypeOK
  <2>2. Cardinality(Accepted') = Cardinality(Accepted) - 1
    BY <2>1, AcceptedIsFinite, FS_RemoveElement
  <2>3. QED
    BY <1>1, <1>2, <1>3, <2>2, AcceptedIsFinite DEF Balanced, ExecutorTypeOK, PermitsBalance
<1>4. CASE task[t] \notin {"queued", "running"} /\ s \in {"queued", "running"}
  <2>1. Accepted' = Accepted \cup {t} /\ t \notin Accepted
    BY <1>4 DEF Accepted, Balanced, ExecutorTypeOK
  <2>2. Cardinality(Accepted') = Cardinality(Accepted) + 1
    BY <2>1, AcceptedIsFinite, FS_AddElement
  <2>3. QED
    BY <1>1, <1>2, <1>4, <2>2, AcceptedIsFinite DEF Balanced, ExecutorTypeOK, PermitsBalance
<1>5. CASE task[t] \in {"queued", "running"} <=> s \in {"queued", "running"}
  <2>1. Accepted' = Accepted
    BY <1>5 DEF Accepted, Balanced, ExecutorTypeOK
  <2>2. QED
    BY <1>1, <1>2, <1>5, <2>1 DEF Balanced, ExecutorTypeOK, PermitsBalance
<1>6. QED
  BY <1>3, <1>4, <1>5

LEMMA ExecutorStep ==
  ASSUME Balanced, NEW t \in Tasks,
         \/ Submit(t) \/ Refuse(t) \/ Take(t) \/ Finish(t) \/ TimeOut(t)
  PROVE  Balanced'
<1> USE DEF TaskStates
<1>0. permits \in Int /\ task \in [Tasks -> TaskStates]
  BY DEF Balanced, ExecutorTypeOK
<1>1. CASE Submit(t)
  <2>1. task' = [task EXCEPT ![t] = "queued"] /\ permits' = permits + 0 - 1
    BY <1>0, <1>1 DEF Submit
  <2>2. task[t] \notin {"queued", "running"}
    BY <1>1 DEF Submit
  <2>3. QED
    BY <2>1, <2>2, TaskMoves
<1>2. CASE Refuse(t)
  <2>1. task' = [task EXCEPT ![t] = "refused"] /\ permits' = permits + 0 - 0
    BY <1>0, <1>2 DEF Refuse
  <2>2. task[t] \notin {"queued", "running"}
    BY <1>2 DEF Refuse
  <2>3. QED
    BY <2>1, <2>2, TaskMoves
<1>3. CASE Take(t)
  <2>1. task' = [task EXCEPT ![t] = "running"] /\ permits' = permits + 1 - 1
    BY <1>0, <1>3 DEF Take
  <2>2. task[t] \in {"queued", "running"}
    BY <1>3 DEF Take
  <2>3. QED
    BY <2>1, <2>2, TaskMoves
<1>4. CASE Finish(t)
  <2>1. task' = [task EXCEPT ![t] = "over"] /\ permits' = permits + 1 - 0
    BY <1>0, <1>4 DEF Finish
  <2>2. task[t] \in {"queued", "running"}
    BY <1>4 DEF Finish
  <2>3. QED
    BY <2>1, <2>2, TaskMoves
<1>5. CASE TimeOut(t)
  <2>1. CASE task[t] = "queued"
    BY <1>0, <1>5, <2>1, TaskMoves DEF TimeOut
  <2>2. CASE task[t] # "queued"
    BY <1>5, <2>2 DEF TimeOut, executor, Balanced, ExecutorTypeOK, PermitsBalance, Accepted
  <2>3. QED
    BY <2>1, <2>2
<1>6. QED
  BY <1>1, <1>2, <1>3, <1>4, <1>5

LEMMA ExecutorRests == ASSUME Balanced, UNCHANGED executor PROVE Balanced'
BY DEF executor, Balanced, ExecutorTypeOK, PermitsBalance, Accepted

----------------------------------------------------------------------------
(* The plan's copies.                                                        *)

\* A copy of a thread at its nth turn, where some hand-off has succeeded or not: it
\* asks as long as questions are open, and is past its draft only when none is.
Good(n, done) ==
  {p \in Plans : /\ p.index <= p.asked /\ (p.pending <=> p.index < p.asked)
                 /\ p.status \notin {"none", "draft"} => ~p.pending
                 /\ p.started => done
                 /\ p.rev <= n}

\* The types, with good copies wherever there is one.
Shaped ==
  LET G == Good(turn.n, handed) IN
  /\ plan \in G /\ active \in BOOLEAN /\ handed \in BOOLEAN
  /\ turn \in [n : 0..NTurns, pc : {"idle", "planning", "persist"}, auto : BOOLEAN, plan : G]
  /\ request \in [Requests -> [pc : {"new", "write", "create", "succeed", "clarify", "done"},
                               plan : G,
                               out : {"none", "accepted", "duplicate", "conflict", "failed"}]]
  /\ run \in [Runs -> [pc : {"none", "queued", "running", "over"}, plan : G]]
  /\ mark \in [by : {0} \cup Daemons, old : BOOLEAN]
  /\ daemon \in [Daemons -> [pc : {"none", "read", "work", "reread", "write", "over"},
                             plan : G, attempt : 0..MaxAttempts, ok : BOOLEAN]]
  /\ stale \in 0..MaxStale /\ workload \in Workloads

\* Turns are counted before they plan, successes are noted before they are claimed, a
\* plan that is driven asks nothing, and a daemon that goes on has an attempt left.
Noted ==
  /\ turn.pc # "idle" => turn.n > 0
  /\ turn.pc = "planning" => turn.plan.rev < turn.n
  /\ \A q \in Requests : request[q].pc = "succeed" \/ request[q].out = "duplicate" => handed
  /\ \A r \in Runs : run[r].pc = "running" => ~ run[r].plan.pending
  /\ \A d \in Daemons : daemon[d].pc = "read" => daemon[d].attempt < MaxAttempts
  /\ \A d \in Daemons : task[d] = "new" => daemon[d].attempt = 0

\* Each hand-off under way but one is explained by a mark that outlived its TTL, and
\* that one by a mark in force.
Explained == Cardinality(LiveHandoffs) <= stale + IF InFlight THEN 1 ELSE 0

IInv == Balanced /\ Shaped /\ Noted /\ Explained

----------------------------------------------------------------------------
(* What the operators on a plan keep.                                        *)

LEMMA GoodGrows ==
  ASSUME NEW n \in Nat, NEW m \in Nat, n <= m, NEW d \in BOOLEAN, NEW e \in BOOLEAN, d => e
  PROVE  Good(n, d) \subseteq Good(m, e)
<1>1. SUFFICES ASSUME NEW p \in Good(n, d) PROVE p \in Good(m, e)
  OBVIOUS
<1>2. p.rev <= m
  <2>1. p.rev \in Int /\ p.rev <= n
    BY <1>1, HandoffBounds DEF Good, Plans
  <2>2. QED
    BY <2>1
<1>3. QED
  BY <1>1, <1>2 DEF Good

LEMMA Marks ==
  ASSUME NEW n \in Nat, NEW d \in BOOLEAN, NEW p \in Good(n, d)
  PROVE  /\ MarkRequested(p) \in Good(n, d) /\ MarkFailed(p) \in Good(n, d)
         /\ d => MarkSucceeded(p) \in Good(n, d)
         /\ MarkRequested(p).rev = p.rev /\ MarkRequested(p).pending = p.pending
BY DEF Good, Plans, Statuses, MarkRequested, MarkFailed, MarkSucceeded

LEMMA Progresses ==
  ASSUME NEW n \in Nat, NEW d \in BOOLEAN, NEW p \in Good(n, d), p.pending
  PROVE  ClarificationProgress(p) \in Good(n, d) /\ ClarificationProgress(p).rev = p.rev
<1>1. /\ p \in Plans /\ p.index \in Nat /\ p.asked \in 0..NQuestions /\ p.index < p.asked
      /\ p.rev <= n /\ p.started => d /\ p.status \in {"none", "draft"}
  BY DEF Good, Plans
<1>2. p.index + 1 \in 0..NQuestions
  BY <1>1, HandoffBounds
<1> DEFINE i == p.index + 1
           c == [p EXCEPT !.index = i, !.pending = i < p.asked]
<1>3. c = ClarificationProgress(p)
  BY DEF ClarificationProgress
<1>4. c \in Plans /\ c.index = i /\ c.asked = p.asked /\ c.rev = p.rev /\ c.status = p.status
      /\ c.started = p.started /\ c.pending = (i < p.asked)
  <2>1. (i < p.asked) \in BOOLEAN /\ i \in 0..NQuestions
    BY <1>2
  <2> HIDE DEF i
  <2>2. QED
    BY <1>1, <2>1 DEF Plans
<1>5. i <= p.asked /\ (c.pending <=> i < p.asked)
  <2>1. i <= p.asked
    BY <1>1, <1>2
  <2>2. QED
    BY <1>4, <2>1, Zenon
<1> HIDE DEF c, i
<1>6. c \in Good(n, d) /\ c.rev = p.rev
  BY <1>1, <1>4, <1>5 DEF Good
<1>7. QED
  BY <1>3, <1>6

LEMMA Moved ==
  ASSUME NEW n \in Nat, NEW d \in BOOLEAN, NEW p \in Good(n, d), ~ p.pending, NEW s \in Statuses
  PROVE  [p EXCEPT !.status = s] \in Good(n, d) /\ [p EXCEPT !.status = s].rev = p.rev
BY DEF Good, Plans

LEMMA Approves ==
  ASSUME NEW n \in Nat, NEW d \in BOOLEAN, NEW p \in Good(n, d), ~ p.pending, NEW auto \in BOOLEAN
  PROVE  ApproveIfAuto(p, auto) \in Good(n, d) /\ ApproveIfAuto(p, auto).rev = p.rev
BY Moved DEF ApproveIfAuto, Statuses

LEMMA Drafts ==
  ASSUME NEW n \in Nat, NEW d \in BOOLEAN, NEW rev \in 0..NTurns, rev <= n, NEW asked \in 0..NQuestions
  PROVE  Draft(rev, asked) \in Good(n, d) /\ Draft(rev, asked).rev = rev
<1>1. asked \in Nat /\ 0 \in 0..NQuestions /\ (asked > 0) \in BOOLEAN
  BY HandoffBounds
<1>2. Draft(rev, asked) \in Plans
  BY <1>1 DEF Draft, Plans, Statuses
<1>3. /\ Draft(rev, asked).index = 0 /\ Draft(rev, asked).asked = asked
      /\ Draft(rev, asked).pending = (asked > 0) /\ Draft(rev, asked).status = "draft"
      /\ Draft(rev, asked).rev = rev /\ Draft(rev, asked).started = FALSE
  BY DEF Draft
<1>4. 0 <= asked /\ (asked > 0 <=> 0 < asked)
  BY <1>1
<1>5. "draft" \in {"none", "draft"}
  OBVIOUS
<1> HIDE DEF Draft
<1>6. QED
  BY <1>2, <1>3, <1>4, <1>5, Zenon DEF Good

LEMMA NoPlanIsGood == ASSUME NEW n \in Nat, NEW d \in BOOLEAN PROVE NoPlan \in Good(n, d)
<1>1. 0 \in 0..NTurns /\ 0 \in 0..NQuestions
  BY HandoffBounds
<1>2. Draft(0, 0) \in Good(n, d) /\ ~ Draft(0, 0).pending
  <2>1. Draft(0, 0) \in Good(n, d)
    BY <1>1, Drafts
  <2>2. Draft(0, 0).pending = (0 > 0) /\ ~ (0 > 0)
    BY DEF Draft
  <2>3. QED
    BY <2>1, <2>2, Zenon
<1>3. QED
  BY <1>2, Moved DEF NoPlan, Statuses

----------------------------------------------------------------------------
(* The executor's side of a step.                                            *)

LEMMA LiveIsFinite ==
  ASSUME TRUE PROVE IsFiniteSet(LiveHandoffs) /\ Cardinality(LiveHandoffs) \in Nat
<1>1. LiveHandoffs \in SUBSET Tasks
  BY DaemonsAreTasks DEF LiveHandoffs
<1>2. QED
  BY <1>1, ExecutorBounds, FS_Subset, FS_CardinalityType

LEMMA Rests ==
  ASSUME Balanced, Explained, UNCHANGED <<executor, mark, stale>>
  PROVE  Balanced' /\ Explained'
BY ExecutorRests DEF executor, Explained, LiveHandoffs, InFlight

LEMMA Spawns ==
  ASSUME IInv, NEW d \in Daemons, Spawn(d), UNCHANGED stale
  PROVE  Balanced' /\ Explained'
<1>1. d \in Tasks /\ Balanced /\ Explained /\ task \in [Tasks -> TaskStates] /\ stale \in Nat
  BY DaemonsAreTasks, HandoffBounds DEF IInv, Shaped, Balanced, ExecutorTypeOK
<1>2. CASE InFlight /\ UNCHANGED <<executor, mark, daemon>>
  BY <1>1, <1>2, Rests
<1>3. CASE ~InFlight /\ Submit(d) /\ mark' = [by |-> d, old |-> FALSE]
  <2>1. Balanced'
    BY <1>1, <1>3, ExecutorStep
  <2>2. LiveHandoffs' = LiveHandoffs \cup {d} /\ d \notin LiveHandoffs
    BY <1>1, <1>3 DEF Submit, LiveHandoffs
  <2>3. Cardinality(LiveHandoffs') = Cardinality(LiveHandoffs) + 1
    BY <2>2, LiveIsFinite, FS_AddElement
  <2>4. InFlight'
    BY <1>3 DEF InFlight, Daemons
  <2>5. QED
    BY <1>1, <1>3, <2>1, <2>3, <2>4, LiveIsFinite DEF Explained
<1>4. CASE ~InFlight /\ Refuse(d) /\ mark' = Unmarked
  <2>1. Balanced'
    BY <1>1, <1>4, ExecutorStep
  <2>2. LiveHandoffs' = LiveHandoffs
    BY <1>1, <1>4 DEF Refuse, LiveHandoffs
  <2>3. QED
    BY <1>1, <1>4, <2>1, <2>2, LiveIsFinite DEF Explained, InFlight, Unmarked
<1>5. QED
  BY <1>2, <1>3, <1>4 DEF Spawn

LEMMA Proposes ==
  ASSUME IInv, NEW p, NEW foreground, turn.pc = "planning", Propose(p, foreground), UNCHANGED stale
  PROVE  Balanced' /\ Explained'
<1>1. turn.n \in Daemons
  BY DEF IInv, Shaped, Noted, Daemons
<1>2. CASE Spawn(turn.n)
  BY <1>1, <1>2, Spawns
<1>3. CASE UNCHANGED <<executor, mark, daemon>>
  BY <1>3, Rests DEF IInv
<1>4. QED
  BY <1>2, <1>3 DEF Propose

LEMMA ExecutorSide == IInv /\ [Next]_vars => Balanced' /\ Explained'
<1> SUFFICES ASSUME IInv, [Next]_vars PROVE Balanced' /\ Explained'
  OBVIOUS
<1>0. Balanced /\ Explained /\ task \in [Tasks -> TaskStates] /\ stale \in Nat
  BY HandoffBounds DEF IInv, Shaped, Balanced, ExecutorTypeOK
<1>1. CASE UNCHANGED <<executor, mark, stale>>
  BY <1>0, <1>1, Rests
<1>2. CASE TurnAnswer
  BY <1>2, Proposes DEF TurnAnswer
<1>3. CASE TurnPlan
  BY <1>3, Proposes DEF TurnPlan
<1>4. CASE MarkExpires
  <2>1. InFlight /\ ~ InFlight' /\ stale' = stale + 1
    BY <1>4 DEF MarkExpires, InFlight, IInv, Shaped
  <2>2. Balanced' /\ LiveHandoffs' = LiveHandoffs
    BY <1>0, <1>4, ExecutorRests DEF MarkExpires, LiveHandoffs, executor
  <2>3. QED
    BY <1>0, <2>1, <2>2, LiveIsFinite DEF Explained
<1>5. ASSUME NEW d \in Daemons, DaemonTake(d) PROVE Balanced' /\ Explained'
  <2>1. d \in Tasks /\ Take(d) /\ UNCHANGED <<mark, stale>>
    BY <1>5, DaemonsAreTasks DEF DaemonTake, handoff
  <2>2. LiveHandoffs' = LiveHandoffs
    BY <1>0, <2>1 DEF Take, LiveHandoffs
  <2>3. QED
    BY <1>0, <2>1, <2>2, ExecutorStep DEF Explained, InFlight
<1>6. ASSUME NEW d \in Daemons, DaemonEnd(d) PROVE Balanced' /\ Explained'
  <2>1. d \in Tasks /\ Finish(d) /\ UNCHANGED stale /\ ~ InFlight'
    BY <1>6, DaemonsAreTasks DEF DaemonEnd, InFlight, Unmarked
  <2>2. LiveHandoffs' = LiveHandoffs \ {d} /\ d \in LiveHandoffs
    BY <1>0, <1>6, <2>1 DEF Finish, LiveHandoffs
  <2>3. Cardinality(LiveHandoffs') = Cardinality(LiveHandoffs) - 1
    BY <2>2, LiveIsFinite, FS_RemoveElement
  <2>4. QED
    BY <1>0, <2>1, <2>3, LiveIsFinite, ExecutorStep DEF Explained
<1>7. ASSUME NEW t \in workload.others, OtherTask(t) PROVE Balanced' /\ Explained'
  <2>1. t \in Tasks \ Daemons /\ UNCHANGED <<mark, stale>>
    BY <1>7, HandoffBounds DEF IInv, Shaped, Daemons, OtherTask, handoff
  <2>2. Balanced'
    BY <1>0, <1>7, <2>1, ExecutorStep DEF OtherTask
  <2>3. LiveHandoffs' = LiveHandoffs
    <3>1. task' = task \/ \E s \in TaskStates : task' = [task EXCEPT ![t] = s]
      BY <1>7 DEF OtherTask, Submit, Refuse, Take, Finish, TimeOut, executor, TaskStates
    <3>2. \A d \in Daemons : task'[d] = task[d]
      BY <1>0, <2>1, <3>1, DaemonsAreTasks
    <3>3. QED
      BY <3>2 DEF LiveHandoffs
  <2>4. QED
    BY <1>0, <2>1, <2>2, <2>3 DEF Explained, InFlight
<1>8. QED
  <2>1. CASE UNCHANGED vars
    BY <1>1, <2>1 DEF vars, executor
  <2>2. CASE Next
    <3>1. TurnBegin \/ TurnSkip \/ TurnPersist => UNCHANGED <<executor, mark, stale>>
      BY DEF TurnBegin, TurnSkip, TurnPersist, handoff
    <3>2. \A q : Execute(q) \/ Clarify(q) => UNCHANGED <<executor, mark, stale>>
      BY DEF Execute, Clarify, ExecuteRefused, ExecuteDuplicate, ExecuteRetry, ExecuteDraft,
         ExecuteWrite, ExecuteCreate, ExecuteSucceed, ClarifyRead, ClarifyWrite, Gateway, handoff
    <3>3. \A r : WorkBegin(r) \/ WorkComplete(r) \/ WorkStop(r) => UNCHANGED <<executor, mark, stale>>
      BY DEF WorkBegin, WorkComplete, WorkStop, handoff
    <3>4. \A d : DaemonRead(d) \/ DaemonWork(d) \/ DaemonReread(d) \/ DaemonWrite(d)
                  => UNCHANGED <<executor, mark, stale>>
      BY DEF DaemonRead, DaemonWork, DaemonReread, DaemonWrite, Others
    <3>5. QED
      BY <1>1, <1>2, <1>3, <1>4, <1>5, <1>6, <1>7, <2>2, <3>1, <3>2, <3>3, <3>4
         DEF Next, Turn, Daemon
  <2>3. QED
    BY <2>1, <2>2

----------------------------------------------------------------------------
(* The thread's side of a step.                                              *)

Threaded == Shaped /\ Noted

\* What every step may use: the shapes, and that nothing but an operation of its own
\* makes a task of the executor new.
LEMMA Given ==
  ASSUME IInv
  PROVE  /\ Threaded /\ turn.n \in Nat /\ handed \in BOOLEAN
         /\ plan \in Good(turn.n, handed) /\ turn.plan \in Good(turn.n, handed)
         /\ NoPlan \in Good(turn.n, handed)
         /\ task \in [Tasks -> TaskStates] /\ Daemons \subseteq Tasks
BY NoPlanIsGood, DaemonsAreTasks, HandoffBounds
   DEF IInv, Threaded, Shaped, Balanced, ExecutorTypeOK

LEMMA InitOK == Init => IInv
<1> SUFFICES ASSUME Init PROVE IInv
  OBVIOUS
<1>1. Balanced
  <2>1. Accepted = {}
    BY DEF Init, ExecutorInit, Accepted
  <2>2. QED
    BY <2>1, ExecutorBounds, FS_EmptySet
       DEF Init, ExecutorInit, Balanced, ExecutorTypeOK, PermitsBalance, TaskStates
<1>2. Shaped
  <2>1. NoPlan \in Good(0, FALSE)
    BY NoPlanIsGood
  <2>2. 0 \in 0..NTurns /\ 0 \in 0..MaxAttempts /\ 0 \in 0..MaxStale
    BY HandoffBounds
  <2>3. turn.n = 0 /\ handed = FALSE
    BY DEF Init
  <2>4. daemon \in [Daemons -> [pc : {"none", "read", "work", "reread", "write", "over"},
                               plan : Good(0, FALSE), attempt : 0..MaxAttempts, ok : BOOLEAN]]
    BY <2>1, <2>2 DEF Init, NoDaemon
  <2>5. QED
    BY <2>1, <2>2, <2>3, <2>4 DEF Init, Shaped, Unmarked
<1>3. Noted
  BY HandoffBounds DEF Init, Noted, NoDaemon
<1>4. Explained
  <2>1. LiveHandoffs = {}
    BY DaemonsAreTasks DEF Init, ExecutorInit, LiveHandoffs
  <2>2. QED
    BY <2>1, FS_EmptySet DEF Init, Explained, InFlight, Unmarked
<1>5. QED
  BY <1>1, <1>2, <1>3, <1>4 DEF IInv

LEMMA ServerSteps ==
  ASSUME IInv, UNCHANGED workload, NEW r \in Runs,
         WorkBegin(r) \/ WorkComplete(r) \/ WorkStop(r)
  PROVE  Threaded'
<1> DEFINE G == Good(turn.n, handed)
<1>0. Threaded /\ plan \in G /\ NoPlan \in G /\ turn.n \in Nat /\ handed \in BOOLEAN
  BY Given
<1> DEFINE RunType == [pc : {"none", "queued", "running", "over"}, plan : G]
<1>1. ASSUME run' \in [Runs -> RunType], plan' \in G,
             \A q \in Runs : run'[q].pc = "running" => ~ run'[q].plan.pending,
             active' \in BOOLEAN, UNCHANGED <<executor, turn, request, handoff, handed>>
      PROVE  Threaded'
  BY <1>0, <1>1 DEF Threaded, Shaped, Noted, handoff, executor
<1>2. ASSUME NEW p \in G, NEW at \in {"running", "over"}, at = "running" => ~ p.pending,
             run' = [run EXCEPT ![r] = [pc |-> at, plan |-> p]]
      PROVE  /\ run' \in [Runs -> RunType]
             /\ \A q \in Runs : run'[q].pc = "running" => ~ run'[q].plan.pending
  BY <1>0, <1>2 DEF Threaded, Shaped, Noted
<1>3. CASE WorkBegin(r)
  <2> DEFINE mine == [plan EXCEPT !.status = IF @ = "approved" THEN "executing" ELSE @]
  <2>1. mine \in G /\ (plan.status \in {"approved", "executing", "completed"} => ~ mine.pending)
    <3>1. plan.status \notin {"none", "draft"} => ~ plan.pending
      BY <1>0 DEF Good
    <3>2. plan.status # "approved" => mine = plan
      BY <1>0 DEF Good, Plans
    <3>3. plan.status = "approved" => mine = [plan EXCEPT !.status = "executing"]
      OBVIOUS
    <3>4. mine.pending = plan.pending
      BY <1>0 DEF Good, Plans
    <3>5. QED
      BY <1>0, <3>1, <3>2, <3>3, <3>4, Moved DEF Statuses
  <2>2. plan' = mine /\ active' \in BOOLEAN /\ UNCHANGED <<executor, turn, request, handoff, handed>>
    BY <1>0, <1>3 DEF WorkBegin, Threaded, Shaped
  <2>3. \/ /\ plan.status \in {"approved", "executing", "completed"}
           /\ run' = [run EXCEPT ![r] = [pc |-> "running", plan |-> mine]]
        \/ run' = [run EXCEPT ![r] = [pc |-> "over", plan |-> NoPlan]]
    BY <1>3 DEF WorkBegin, Ended
  <2> HIDE DEF mine, G
  <2>4. QED
    BY <1>0, <1>1, <1>2, <2>1, <2>2, <2>3
<1>4. CASE WorkComplete(r)
  <2>1. run[r].plan \in G /\ ~ run[r].plan.pending
    BY <1>0, <1>4 DEF WorkComplete, Threaded, Shaped, Noted
  <2>2. [run[r].plan EXCEPT !.status = "completed"] \in G
    BY <1>0, <2>1, Moved DEF Statuses
  <2>3. /\ plan' \in G /\ active' \in BOOLEAN /\ UNCHANGED <<executor, turn, request, handoff, handed>>
        /\ run' = [run EXCEPT ![r] = [pc |-> "over", plan |-> NoPlan]]
    BY <1>0, <1>4, <2>2 DEF WorkComplete, Ended, Threaded, Shaped
  <2> HIDE DEF G
  <2>4. QED
    BY <1>0, <1>1, <1>2, <2>3
<1>5. CASE WorkStop(r)
  <2>1. /\ plan' \in G /\ active' \in BOOLEAN /\ UNCHANGED <<executor, turn, request, handoff, handed>>
        /\ run' = [run EXCEPT ![r] = [pc |-> "over", plan |-> NoPlan]]
    BY <1>0, <1>5 DEF WorkStop, Ended, Threaded, Shaped
  <2> HIDE DEF G
  <2>2. QED
    BY <1>0, <1>1, <1>2, <2>1
<1>6. QED
  BY <1>3, <1>4, <1>5

LEMMA TurnSteps ==
  ASSUME IInv, UNCHANGED workload, TurnBegin \/ Turn
  PROVE  Threaded'
<1> DEFINE G == Good(turn.n, handed)
           TurnType(H) == [n : 0..NTurns, pc : {"idle", "planning", "persist"}, auto : BOOLEAN, plan : H]
<1>1. /\ Threaded /\ plan \in G /\ NoPlan \in G /\ turn.n \in Nat /\ handed \in BOOLEAN
      /\ turn \in TurnType(G) /\ task \in [Tasks -> TaskStates] /\ Daemons \subseteq Tasks
  BY Given DEF Threaded, Shaped
<1>2. CASE TurnBegin
  <2> DEFINE H == Good(turn.n + 1, handed)
  <2>1. G \subseteq H /\ turn.n + 1 \in Nat
    BY <1>1, GoodGrows
  <2>2. PICK auto \in BOOLEAN : turn' = [n |-> turn.n + 1, pc |-> "planning", auto |-> auto, plan |-> plan]
    BY <1>2 DEF TurnBegin
  <2>3. turn.n + 1 \in 0..NTurns
    BY <1>1, <1>2, HandoffBounds DEF TurnBegin, Threaded, Shaped
  <2>4. /\ turn' \in TurnType(H) /\ turn'.n = turn.n + 1 /\ turn'.n > 0 /\ turn'.pc = "planning"
        /\ turn'.plan = plan
    BY <1>1, <2>1, <2>2, <2>3
  <2>5. turn'.plan.rev < turn'.n
    <3>1. plan.rev <= turn.n /\ plan.rev \in Int
      BY <1>1, HandoffBounds DEF Good, Plans
    <3>2. QED
      BY <1>1, <2>4, <3>1
  <2>6. UNCHANGED <<plan, active, request, run, mark, daemon, stale, handed, workload, task>>
    BY <1>2 DEF TurnBegin, handoff, executor
  <2>7. Shaped'
    <3>1. H = Good(turn.n, handed)'
      BY <2>4, <2>6
    <3> HIDE DEF G, H
    <3>2. QED
      BY <1>1, <2>1, <2>4, <2>6, <3>1 DEF Threaded, Shaped, G
  <2>8. Noted'
    BY <1>1, <2>4, <2>5, <2>6 DEF Threaded, Noted
  <2>9. QED
    BY <2>7, <2>8 DEF Threaded
<1>3. ASSUME NEW p \in G, NEW foreground \in BOOLEAN, turn.pc = "planning", Propose(p, foreground),
             UNCHANGED <<plan, active, request, run, stale, handed, workload>>
      PROVE  Threaded'
  <2>1. turn' \in TurnType(G) /\ turn'.n = turn.n /\ turn'.pc = "persist"
    <3>1. MarkRequested(p) \in G
      BY <1>1, <1>3, Marks
    <3>2. PICK q \in G : turn' = [turn EXCEPT !.pc = "persist", !.plan = q]
      BY <1>3, <3>1 DEF Propose
    <3> HIDE DEF G
    <3>3. QED
      BY <1>1, <3>2
  <2>2. turn.n \in Daemons
    BY <1>1, <1>3 DEF Threaded, Shaped, Noted, Daemons
  <2>3. /\ mark' \in [by : {0} \cup Daemons, old : BOOLEAN]
        /\ \/ UNCHANGED <<daemon, task>>
           \/ task' = [task EXCEPT ![turn.n] = "refused"] /\ UNCHANGED daemon
           \/ /\ task' = [task EXCEPT ![turn.n] = "queued"] /\ task[turn.n] = "new"
              /\ daemon' = [daemon EXCEPT ![turn.n].pc = "read"]
    <3>1. mark \in [by : {0} \cup Daemons, old : BOOLEAN]
      BY <1>1 DEF Threaded, Shaped
    <3>2. CASE UNCHANGED <<executor, mark, daemon>>
      BY <3>1, <3>2 DEF executor
    <3>3. CASE /\ ~InFlight /\ Submit(turn.n) /\ mark' = [by |-> turn.n, old |-> FALSE]
               /\ daemon' = [daemon EXCEPT ![turn.n].pc = "read"]
      BY <2>2, <3>3 DEF Submit
    <3>4. CASE ~InFlight /\ Refuse(turn.n) /\ mark' = Unmarked /\ UNCHANGED daemon
      BY <3>4 DEF Refuse, Unmarked
    <3>5. QED
      BY <1>3, <3>2, <3>3, <3>4, Zenon DEF Propose, Spawn
  <2>4. /\ daemon' \in [Daemons -> [pc : {"none", "read", "work", "reread", "write", "over"},
                                    plan : G, attempt : 0..MaxAttempts, ok : BOOLEAN]]
        /\ \A d \in Daemons : daemon'[d].pc = "read" => daemon'[d].attempt < MaxAttempts
        /\ \A d \in Daemons : task'[d] = "new" => daemon'[d].attempt = 0
    BY <1>1, <2>2, <2>3, HandoffBounds, SMTT(30) DEF Threaded, Shaped, Noted
  <2>5. Shaped'
    <3>1. G = Good(turn.n, handed)'
      BY <1>3, <2>1
    <3> HIDE DEF G
    <3>2. QED
      BY <1>1, <1>3, <2>1, <2>3, <2>4, <3>1 DEF Threaded, Shaped, G
  <2>6. Noted'
    BY <1>1, <1>3, <2>1, <2>2, <2>4 DEF Threaded, Noted, Daemons
  <2>7. QED
    BY <2>5, <2>6 DEF Threaded
<1>4. CASE TurnAnswer
  <2>1. turn.plan \in G /\ turn.plan.pending /\ turn.pc = "planning" /\ turn.auto \in BOOLEAN
    BY <1>1, <1>4 DEF TurnAnswer
  <2> DEFINE p == ClarificationProgress(turn.plan)
             q == IF p.pending THEN p ELSE ApproveIfAuto(p, turn.auto)
  <2>2. p \in G
    BY <1>1, <2>1, Progresses
  <2>3. q \in G
    BY <1>1, <2>1, <2>2, Approves
  <2>4. PICK foreground \in BOOLEAN : Propose(q, foreground)
    BY <1>4 DEF TurnAnswer
  <2> HIDE DEF q
  <2>5. QED
    BY <1>3, <1>4, <2>1, <2>3, <2>4 DEF TurnAnswer
<1>5. CASE TurnPlan
  <2>1. turn.pc = "planning" /\ turn.auto \in BOOLEAN
    BY <1>1, <1>5 DEF TurnPlan
  <2>2. PICK asked \in 0..workload.questions, foreground \in BOOLEAN :
          LET p == Draft(turn.plan.rev + 1, asked)
          IN Propose(IF p.pending THEN p ELSE ApproveIfAuto(p, turn.auto), foreground)
    BY <1>5 DEF TurnPlan
  <2>3. asked \in 0..NQuestions
    BY <1>1, <2>2, HandoffBounds DEF Threaded, Shaped
  <2>4. turn.plan.rev + 1 \in 0..NTurns /\ turn.plan.rev + 1 <= turn.n
    BY <1>1, <2>1, HandoffBounds DEF Threaded, Noted, Good, Plans
  <2> DEFINE p == Draft(turn.plan.rev + 1, asked)
             q == IF p.pending THEN p ELSE ApproveIfAuto(p, turn.auto)
  <2>5. p \in G
    BY <1>1, <2>3, <2>4, Drafts
  <2> HIDE DEF p
  <2>6. q \in G
    BY <1>1, <2>1, <2>5, Approves
  <2>7. Propose(q, foreground)
    BY <2>2 DEF p
  <2> HIDE DEF q
  <2>8. QED
    BY <1>3, <1>5, <2>1, <2>6, <2>7 DEF TurnPlan
<1>6. CASE TurnSkip \/ TurnPersist
  <2>1. plan' \in G /\ turn' = [turn EXCEPT !.pc = "idle", !.auto = FALSE, !.plan = NoPlan]
    BY <1>1, <1>6 DEF TurnSkip, TurnPersist
  <2>2. turn' \in TurnType(G) /\ turn'.n = turn.n /\ turn'.pc = "idle"
    BY <1>1, <2>1
  <2>3. UNCHANGED <<active, request, run, mark, daemon, stale, handed, workload, task>>
    BY <1>6 DEF TurnSkip, TurnPersist, handoff, executor
  <2>4. Shaped'
    <3>1. G = Good(turn.n, handed)'
      BY <2>2, <2>3
    <3> HIDE DEF G
    <3>2. QED
      BY <1>1, <2>1, <2>2, <2>3, <3>1 DEF Threaded, Shaped, G
  <2>5. Noted'
    BY <1>1, <2>2, <2>3 DEF Threaded, Noted
  <2>6. QED
    BY <2>4, <2>5 DEF Threaded
<1>7. QED
  BY <1>2, <1>4, <1>5, <1>6 DEF Turn

LEMMA RequestSteps ==
  ASSUME IInv, UNCHANGED workload, NEW q \in Requests, Execute(q) \/ Clarify(q)
  PROVE  Threaded'
<1> DEFINE Outs == {"none", "accepted", "duplicate", "conflict", "failed"}
           Pcs == {"new", "write", "create", "succeed", "clarify", "done"}
           G == Good(turn.n, handed)
           Typed(H) == [Requests -> [pc : Pcs, plan : H, out : Outs]]
           Claims(w, h) == \A a \in Requests : w[a].pc = "succeed" \/ w[a].out = "duplicate" => h
<1>1. /\ Threaded /\ plan \in G /\ NoPlan \in G /\ turn.n \in Nat /\ handed \in BOOLEAN
      /\ request \in Typed(G) /\ Claims(request, handed)
  BY Given DEF Threaded, Shaped, Noted
<1>2. UNCHANGED <<executor, active, turn, mark, daemon, stale, workload>>
  BY DEF Execute, Clarify, ExecuteRefused, ExecuteDuplicate, ExecuteRetry, ExecuteDraft, ExecuteWrite,
     ExecuteCreate, ExecuteSucceed, ClarifyRead, ClarifyWrite, Gateway, handoff
<1>3. ASSUME request' \in Typed(G), Claims(request', handed), plan' \in G, UNCHANGED <<run, handed>>
      PROVE  Threaded'
  <2>1. G = Good(turn.n, handed)'
    BY <1>2, <1>3
  <2>2. Shaped'
    <3> HIDE DEF G
    <3>1. QED
      BY <1>1, <1>2, <1>3, <2>1 DEF Threaded, Shaped, G, executor
  <2>3. Noted'
    BY <1>1, <1>2, <1>3 DEF Threaded, Noted, executor
  <2>4. QED
    BY <2>2, <2>3 DEF Threaded
<1>4. ASSUME NEW out \in Outs, Answer(q, out), out = "duplicate" => handed
      PROVE  request' \in Typed(G) /\ Claims(request', handed)
  BY <1>1, <1>4 DEF Answer
<1>5. ASSUME NEW at \in Pcs, NEW p \in G, at = "succeed" => handed,
             request' = [request EXCEPT ![q].pc = at, ![q].plan = p]
      PROVE  request' \in Typed(G) /\ Claims(request', handed)
  BY <1>1, <1>5, ZenonT(40)
<1>6. request[q].plan \in G
  BY <1>1
<1>7. CASE ExecuteRefused(q)
  BY <1>1, <1>3, <1>4, <1>7 DEF ExecuteRefused
<1>8. CASE ExecuteDuplicate(q)
  <2>1. handed
    BY <1>1, <1>8 DEF ExecuteDuplicate, ShouldDuplicate, HandoffAlreadyStarted, Good
  <2>2. QED
    BY <1>1, <1>3, <1>4, <1>8, <2>1 DEF ExecuteDuplicate
<1>9. CASE ExecuteRetry(q)
  <2>1. MarkRequested(plan) \in G
    BY <1>1, Marks
  <2>2. QED
    BY <1>1, <1>3, <1>5, <1>9, <2>1 DEF ExecuteRetry
<1>10. CASE ExecuteDraft(q)
  <2> DEFINE p == IF plan.pending THEN ClarificationProgress(plan) ELSE plan
             r == IF p.pending THEN p ELSE MarkRequested([p EXCEPT !.status = "approved"])
  <2>1. p \in G
    BY <1>1, Progresses
  <2> HIDE DEF p
  <2>2. r \in G
    BY <1>1, <2>1, Moved, Marks DEF Statuses
  <2>3. request' = [request EXCEPT ![q].pc = "write", ![q].plan = r] /\ UNCHANGED <<plan, run, handed>>
    BY <1>10 DEF ExecuteDraft, p
  <2> HIDE DEF r
  <2>4. QED
    BY <1>1, <1>3, <1>5, <2>2, <2>3
<1>11. CASE ExecuteWrite(q)
  <2>1. plan' \in G /\ UNCHANGED <<run, handed>>
    BY <1>1, <1>6, <1>11 DEF ExecuteWrite
  <2>2. \/ Answer(q, "conflict") \/ Answer(q, "failed")
        \/ request' = [request EXCEPT ![q].pc = "create", ![q].plan = request[q].plan]
    BY <1>1, <1>11 DEF ExecuteWrite
  <2>3. request' \in Typed(G) /\ Claims(request', handed)
    BY <1>4, <1>5, <1>6, <2>2
  <2>4. QED
    BY <1>3, <2>1, <2>3
<1>12. CASE ExecuteCreate(q)
  <2>1. CASE Answer(q, "failed") /\ UNCHANGED <<run, handed>>
    BY <1>1, <1>3, <1>4, <1>12, <2>1 DEF ExecuteCreate
  <2>2. CASE /\ \E r \in Runs : Create(r)
             /\ request' = [request EXCEPT ![q].pc = "succeed"]
             /\ handed' = TRUE
    <3> DEFINE H == Good(turn.n, TRUE)
    <3>1. G \subseteq H
      <4>1. CASE handed
        BY <1>1, <4>1
      <4>2. CASE ~ handed
        <5>1. handed = FALSE
          BY <1>1, <4>2
        <5>2. Good(turn.n, FALSE) \subseteq H
          <6>1. turn.n <= turn.n /\ FALSE \in BOOLEAN /\ TRUE \in BOOLEAN /\ (FALSE => TRUE)
            BY <1>1
          <6>2. QED
            BY <1>1, <6>1, GoodGrows, Zenon DEF H
        <5>3. QED
          BY <5>1, <5>2
      <4>3. QED
        BY <4>1, <4>2
    <3>2. H = Good(turn.n, handed)'
      BY <1>2, <2>2
    <3> HIDE DEF G, H
    <3>3. request' \in Typed(H)
      BY <1>1, <2>2, <3>1
    <3>4. /\ run' \in [Runs -> [pc : {"none", "queued", "running", "over"}, plan : H]]
          /\ \A r \in Runs : run'[r].pc = "running" => ~ run'[r].plan.pending
      BY <1>1, <2>2, <3>1 DEF Create, Threaded, Shaped, Noted, G
    <3>5. plan' = plan
      BY <1>12 DEF ExecuteCreate
    <3>6. Shaped'
      <4>1. plan' \in H /\ handed' \in BOOLEAN
        BY <1>1, <2>2, <3>1, <3>5
      <4>2. UNCHANGED <<active, turn, mark, daemon, stale, workload>> /\ active \in BOOLEAN
        BY <1>1, <1>2 DEF Threaded, Shaped
      <4>3. turn' \in [n : 0..NTurns, pc : {"idle", "planning", "persist"}, auto : BOOLEAN, plan : H]
        BY <1>1, <3>1, <4>2 DEF Threaded, Shaped, G
      <4>4. daemon' \in [Daemons -> [pc : {"none", "read", "work", "reread", "write", "over"},
                                     plan : H, attempt : 0..MaxAttempts, ok : BOOLEAN]]
        BY <1>1, <3>1, <4>2 DEF Threaded, Shaped, G
      <4>5. QED
        BY <1>1, <3>2, <3>3, <3>4, <4>1, <4>2, <4>3, <4>4 DEF Threaded, Shaped
    <3>7. Noted'
      BY <1>1, <1>2, <2>2, <3>4 DEF Threaded, Noted, executor
    <3>8. QED
      BY <3>6, <3>7 DEF Threaded
  <2>3. QED
    BY <1>12, <2>1, <2>2 DEF ExecuteCreate
<1>13. CASE ExecuteSucceed(q)
  <2>1. handed
    BY <1>1, <1>13 DEF ExecuteSucceed
  <2>2. MarkSucceeded(request[q].plan) \in G
    BY <1>1, <1>6, <2>1, Marks
  <2>3. QED
    BY <1>1, <1>3, <1>4, <1>13, <2>2 DEF ExecuteSucceed
<1>14. CASE ClarifyRead(q)
  <2>1. ClarificationProgress(plan) \in G
    BY <1>1, <1>14, Progresses DEF ClarifyRead
  <2>2. QED
    BY <1>1, <1>3, <1>5, <1>14, <2>1 DEF ClarifyRead
<1>15. CASE ClarifyWrite(q)
  BY <1>1, <1>3, <1>4, <1>6, <1>15 DEF ClarifyWrite
<1>16. QED
  BY <1>7, <1>8, <1>9, <1>10, <1>11, <1>12, <1>13, <1>14, <1>15 DEF Execute, Clarify

LEMMA DaemonSteps ==
  ASSUME IInv, UNCHANGED workload, NEW d \in Daemons, Daemon(d)
  PROVE  Threaded'
<1> DEFINE G == Good(turn.n, handed)
           Typed(H) == [Daemons -> [pc : {"none", "read", "work", "reread", "write", "over"},
                                    plan : H, attempt : 0..MaxAttempts, ok : BOOLEAN]]
           Left(w) == \A e \in Daemons : w[e].pc = "read" => w[e].attempt < MaxAttempts
           Fresh(w) == \A e \in Daemons : task[e] = "new" => w[e].attempt = 0
<1>1. /\ Threaded /\ plan \in G /\ NoPlan \in G /\ turn.n \in Nat /\ handed \in BOOLEAN
      /\ daemon \in Typed(G) /\ Left(daemon) /\ Fresh(daemon)
      /\ task \in [Tasks -> TaskStates] /\ d \in Tasks /\ Daemons \subseteq Tasks
  BY Given DEF Threaded, Shaped, Noted
<1>2. ASSUME daemon' \in Typed(G), Left(daemon'),
             \A e \in Daemons : task'[e] = "new" => daemon'[e].attempt = 0,
             mark' \in [by : {0} \cup Daemons, old : BOOLEAN], plan' \in G,
             UNCHANGED <<active, turn, request, run, stale, handed>>
      PROVE  Threaded'
  <2>1. G = Good(turn.n, handed)'
    BY <1>2
  <2>2. Shaped'
    <3> HIDE DEF G
    <3>1. QED
      BY <1>1, <1>2, <2>1 DEF Threaded, Shaped, G
  <2>3. Noted'
    BY <1>1, <1>2 DEF Threaded, Noted
  <2>4. QED
    BY <2>2, <2>3 DEF Threaded
<1>3. mark \in [by : {0} \cup Daemons, old : BOOLEAN]
  BY <1>1 DEF Threaded, Shaped
<1>4. CASE DaemonTake(d)
  <2>1. task' = [task EXCEPT ![d] = "running"] /\ UNCHANGED <<thread, request, handoff>>
    BY <1>4 DEF DaemonTake, Take
  <2>2. \A e \in Daemons : task'[e] = "new" => daemon'[e].attempt = 0
    BY <1>1, <2>1 DEF handoff
  <2>3. QED
    BY <1>1, <1>2, <1>3, <2>1, <2>2 DEF handoff, thread
<1>5. CASE DaemonRead(d)
  <2>1. daemon' = [daemon EXCEPT ![d].pc = "work", ![d].attempt = daemon[d].attempt + 1, ![d].plan = plan]
    BY <1>5 DEF DaemonRead
  <2>2. daemon[d].attempt + 1 \in 0..MaxAttempts /\ task[d] = "running"
    BY <1>1, <1>5, HandoffBounds DEF DaemonRead, At
  <2>3. daemon' \in Typed(G) /\ Left(daemon') /\ Fresh(daemon')
    <3> HIDE DEF G
    <3>1. QED
      BY <1>1, <2>1, <2>2
  <2>4. QED
    BY <1>1, <1>2, <1>3, <1>5, <2>3 DEF DaemonRead, Others, executor
<1>6. CASE DaemonWork(d)
  <2>1. PICK ok \in BOOLEAN : daemon' = [daemon EXCEPT ![d].ok = ok,
           ![d].pc = IF ok \/ daemon[d].attempt = MaxAttempts THEN "reread" ELSE "read"]
    BY <1>6 DEF DaemonWork
  <2>2. daemon[d].attempt # MaxAttempts => daemon[d].attempt < MaxAttempts
    BY <1>1, HandoffBounds
  <2>3. daemon' \in Typed(G) /\ Left(daemon') /\ Fresh(daemon')
    <3> HIDE DEF G
    <3>1. QED
      BY <1>1, <2>1, <2>2, ZenonT(40)
  <2>4. QED
    BY <1>1, <1>2, <1>3, <1>6, <2>3 DEF DaemonWork, Others, executor
<1>7. CASE DaemonReread(d)
  <2>1. \E at \in {"write", "over"}, p \in G : daemon' = [daemon EXCEPT ![d].pc = at, ![d].plan = p]
    <3>1. daemon[d].plan \in G
      BY <1>1
    <3>2. [daemon EXCEPT ![d].pc = "write"] = [daemon EXCEPT ![d].pc = "write", ![d].plan = daemon[d].plan]
      BY <1>1
    <3>3. \/ daemon' = [daemon EXCEPT ![d].pc = "write", ![d].plan = plan]
          \/ daemon' = [daemon EXCEPT ![d].pc = "write"]
          \/ daemon' = [daemon EXCEPT ![d].pc = "over", ![d].plan = NoPlan]
      BY <1>7 DEF DaemonReread
    <3> HIDE DEF G
    <3>4. QED
      BY <1>1, <3>1, <3>2, <3>3
  <2>2. PICK at \in {"write", "over"}, p \in G :
          daemon' = [daemon EXCEPT ![d].pc = at, ![d].plan = p]
    BY <2>1
  <2>3. daemon' \in Typed(G)
    <3> HIDE DEF G
    <3>1. QED
      BY <1>1, <2>2, ZenonT(40)
  <2>4. \A e \in Daemons : /\ daemon'[e].attempt = daemon[e].attempt
                           /\ daemon'[e].pc = daemon[e].pc \/ daemon'[e].pc # "read"
    <3> HIDE DEF G
    <3>1. QED
      BY <1>1, <2>2
  <2>5. Left(daemon') /\ Fresh(daemon')
    BY <1>1, <2>4
  <2>6. QED
    BY <1>1, <1>2, <1>3, <1>7, <2>3, <2>5 DEF DaemonReread, Others, executor
<1>8. CASE DaemonWrite(d)
  <2> DEFINE h == handed \/ daemon[d].ok
             H == Good(turn.n, h)
  <2>1. h \in BOOLEAN /\ handed' = h /\ UNCHANGED <<executor, active, turn, request, run, mark, stale>>
        /\ daemon' = [daemon EXCEPT ![d].pc = "over", ![d].plan = NoPlan]
    BY <1>1, <1>8 DEF DaemonWrite, Others
  <2>2. G \subseteq H /\ daemon[d].plan \in H /\ plan \in H /\ NoPlan \in H
    BY <1>1, <2>1, GoodGrows
  <2>3. plan' \in H
    <3>1. /\ MarkFailed(daemon[d].plan) \in H
          /\ daemon[d].ok => MarkSucceeded(daemon[d].plan) \in H
      BY <1>1, <2>1, <2>2, Marks
    <3>2. QED
      BY <1>8, <2>2, <3>1 DEF DaemonWrite
  <2>4. daemon' \in Typed(H) /\ Left(daemon') /\ Fresh(daemon')
    <3> HIDE DEF G, H, h
    <3>1. daemon \in Typed(H)
      BY <1>1, <2>2
    <3>2. "over" # "read"
      OBVIOUS
    <3>3. daemon' \in Typed(H)
      BY <2>1, <2>2, <3>1
    <3>4. \A e \in Daemons : /\ daemon'[e].attempt = daemon[e].attempt
                             /\ daemon'[e].pc = daemon[e].pc \/ daemon'[e].pc = "over"
      BY <2>1, <3>1
    <3>5. Left(daemon') /\ Fresh(daemon')
      BY <1>1, <3>2, <3>4
    <3>6. QED
      BY <3>3, <3>5
  <2>5. H = Good(turn.n, handed)'
    BY <2>1
  <2>6. handed => handed'
    BY <2>1
  <2> HIDE DEF G, H, h
  <2>7. Shaped'
    BY <1>1, <2>1, <2>2, <2>3, <2>4, <2>5 DEF Threaded, Shaped, G
  <2>8. Noted'
    BY <1>1, <2>1, <2>4, <2>6 DEF Threaded, Noted, executor
  <2>9. QED
    BY <2>7, <2>8 DEF Threaded
<1>9. CASE DaemonEnd(d)
  <2>1. /\ daemon' = [daemon EXCEPT ![d] = NoDaemon] /\ mark' = Unmarked
        /\ task' = [task EXCEPT ![d] = "over"] /\ UNCHANGED <<thread, request, stale>>
    BY <1>9 DEF DaemonEnd, Finish
  <2>2. NoDaemon \in [pc : {"none", "read", "work", "reread", "write", "over"},
                      plan : G, attempt : 0..MaxAttempts, ok : BOOLEAN] /\ NoDaemon.pc = "none"
    BY <1>1, HandoffBounds DEF NoDaemon
  <2>3. daemon' \in Typed(G) /\ Left(daemon') /\ \A e \in Daemons : task'[e] = "new" => daemon'[e].attempt = 0
    <3> HIDE DEF G
    <3>1. QED
      BY <1>1, <2>1, <2>2
  <2>4. Unmarked \in [by : {0} \cup Daemons, old : BOOLEAN]
    BY DEF Unmarked
  <2>5. QED
    BY <1>1, <1>2, <2>1, <2>3, <2>4 DEF thread
<1>10. QED
  BY <1>4, <1>5, <1>6, <1>7, <1>8, <1>9 DEF Daemon

\* A mark expires, and the pool's other users come and go.
LEMMA OtherSteps ==
  ASSUME IInv, UNCHANGED workload,
         \/ MarkExpires
         \/ \E t \in workload.others : OtherTask(t)
  PROVE  Threaded'
<1>1. Threaded /\ task \in [Tasks -> TaskStates] /\ Daemons \subseteq Tasks
  BY Given
<1>2. CASE MarkExpires
  <2>1. /\ mark' \in [by : {0} \cup Daemons, old : BOOLEAN]
        /\ stale' \in 0..MaxStale
        /\ UNCHANGED <<task, thread, request, daemon>>
    <3>1. /\ mark \in [by : {0} \cup Daemons, old : BOOLEAN]
          /\ stale \in 0..MaxStale /\ workload \in Workloads
      BY <1>1 DEF Threaded, Shaped
    <3>2. workload.stale \in 0..MaxStale /\ MaxStale \in Nat
      BY <3>1, HandoffBounds
    <3>3. stale' \in 0..MaxStale
      BY <1>2, <3>1, <3>2 DEF MarkExpires
    <3>4. QED
      BY <1>2, <3>1, <3>3 DEF MarkExpires, executor
  <2>2. QED
    BY <1>1, <2>1 DEF Threaded, Shaped, Noted, thread
<1>3. ASSUME NEW t \in workload.others, OtherTask(t) PROVE Threaded'
  <2>1. t \in Tasks \ Daemons /\ UNCHANGED <<thread, request, handoff>>
    BY <1>1, <1>3, HandoffBounds DEF Threaded, Shaped, Daemons, OtherTask
  <2>2. task' = task \/ \E s \in TaskStates : task' = [task EXCEPT ![t] = s]
    BY <1>3 DEF OtherTask, Submit, Refuse, Take, Finish, TimeOut, executor, TaskStates
  <2>3. \A d \in Daemons : task'[d] = task[d]
    BY <1>1, <2>1, <2>2
  <2>4. QED
    BY <1>1, <2>1, <2>3 DEF Threaded, Shaped, Noted, thread, handoff
<1>4. QED
  BY <1>2, <1>3

LEMMA ThreadSide == IInv /\ [Next]_vars => Threaded'
<1> SUFFICES ASSUME IInv, [Next]_vars PROVE Threaded'
  OBVIOUS
<1>1. CASE UNCHANGED vars
  <2>1. Threaded
    BY Given
  <2>2. QED
    BY <1>1, <2>1 DEF vars, Threaded, Shaped, Noted
<1>2. CASE Next
  <2>1. UNCHANGED workload /\ 1..workload.requests \subseteq Requests
    BY <1>2, HandoffBounds DEF Next, IInv, Shaped, Requests
  <2>2. QED
    BY <1>2, <2>1, ServerSteps, TurnSteps, RequestSteps, DaemonSteps, OtherSteps DEF Next
<1>3. QED
  BY <1>1, <1>2

----------------------------------------------------------------------------
(* The theorems.                                                             *)

LEMMA Invariant == Spec => []IInv
<1>1. IInv /\ [Next]_vars => IInv'
  BY ExecutorSide, ThreadSide DEF IInv, Threaded
<1>2. QED
  BY InitOK, <1>1, PTL DEF Spec

(* Every variable has its type, whoever wrote the plan last.                 *)
THEOREM PlanTypes == Spec => []TypeOK
<1>1. \A n, d : Good(n, d) \subseteq Plans
  BY DEF Good
<1>2. IInv => TypeOK
  <2> SUFFICES ASSUME IInv PROVE TypeOK
    OBVIOUS
  <2> DEFINE G == Good(turn.n, handed)
  <2>1. G \subseteq Plans /\ Shaped /\ ExecutorTypeOK
    BY <1>1 DEF IInv, Balanced
  <2> HIDE DEF G
  <2>2. /\ plan \in Plans /\ active \in BOOLEAN /\ handed \in BOOLEAN
        /\ turn \in [n : 0..NTurns, pc : {"idle", "planning", "persist"}, auto : BOOLEAN,
                     plan : Plans]
        /\ mark \in [by : {0} \cup Daemons, old : BOOLEAN]
        /\ stale \in 0..MaxStale /\ workload \in Workloads
    BY <2>1 DEF Shaped, G
  <2>3. request \in [Requests -> [pc : {"new", "write", "create", "succeed", "clarify", "done"},
                                  plan : Plans,
                                  out : {"none", "accepted", "duplicate", "conflict", "failed"}]]
    BY <2>1 DEF Shaped, G
  <2>4. run \in [Runs -> [pc : {"none", "queued", "running", "over"}, plan : Plans]]
    BY <2>1 DEF Shaped, G
  <2>5. daemon \in [Daemons -> [pc : {"none", "read", "work", "reread", "write", "over"},
                                plan : Plans, attempt : 0..MaxAttempts, ok : BOOLEAN]]
    BY <2>1 DEF Shaped, G
  <2>6. QED
    BY <2>1, <2>2, <2>3, <2>4, <2>5 DEF TypeOK
<1>3. QED
  BY Invariant, <1>2, PTL

(* The executor never hands out more permits than it has, nor loses one: as  *)
(* many are taken as tasks are queued or running (background_executor.py).   *)
THEOREM PermitsAreBalanced == Spec => []PermitsBalance
<1>1. IInv => PermitsBalance
  BY DEF IInv, Balanced
<1>2. QED
  BY Invariant, <1>1, PTL

(* Two hand-offs of one thread are under way only if a mark outlived its TTL *)
(* (work_run_handoff.py), however requests, turns and runs interleave.       *)
THEOREM HandoffsAreGuarded == Spec => []OneHandoffPerWindow
<1>1. IInv => OneHandoffPerWindow
  <2> SUFFICES ASSUME IInv PROVE OneHandoffPerWindow
    OBVIOUS
  <2>1. Cardinality(LiveHandoffs) <= stale + IF InFlight THEN 1 ELSE 0
    BY DEF IInv, Explained
  <2>2. stale \in Nat
    BY HandoffBounds DEF IInv, Shaped
  <2>3. QED
    BY <2>1, <2>2, LiveIsFinite DEF OneHandoffPerWindow
<1>2. QED
  BY Invariant, <1>1, PTL

(* No copy of the plan is past its draft with a question open, although five *)
(* kinds of handlers write back plans they read earlier.                     *)
THEOREM AnswersComeFirst == Spec => []AnsweredBeforeApproved
<1>1. IInv => AnsweredBeforeApproved
  <2> SUFFICES ASSUME IInv, NEW p \in Copies, p.status \notin {"none", "draft"}
               PROVE  ~ p.pending /\ p.index = p.asked
    BY DEF AnsweredBeforeApproved
  <2> DEFINE G == Good(turn.n, handed)
  <2>1. p \in G
    <3>1. plan \in G /\ turn.plan \in G
      BY Given
    <3>2. /\ \A q \in Requests : request[q].plan \in G
          /\ \A r \in Runs : run[r].plan \in G
          /\ \A d \in Daemons : daemon[d].plan \in G
      <4> HIDE DEF G
      <4>1. QED
        BY DEF IInv, Shaped, G
    <3>3. QED
      BY <3>1, <3>2 DEF Copies
  <2>2. p.index \in Int /\ p.asked \in Int
    BY <2>1, HandoffBounds DEF Good, Plans
  <2>3. QED
    BY <2>1, <2>2 DEF Good
<1>2. QED
  BY Invariant, <1>1, PTL

(* A request is answered "already executed" only on a thread where a         *)
(* hand-off has succeeded, so that a failed one can be retried.              *)
THEOREM DuplicatesAreReal == Spec => []DuplicateMeansHandedOff
<1>1. IInv => DuplicateMeansHandedOff
  BY DEF IInv, Noted, DuplicateMeansHandedOff
<1>2. QED
  BY Invariant, <1>1, PTL
----------------------------------------------------------------------------
(* The run that executes a plan (MCAgentLoop): the driver of Work Mode and   *)
(* the guards of the agent's turns, for any todo graph, tools and limits.    *)
(* What the limits on task calls say of a reply rests on the recursion of    *)
(* Split, which is shown to have a solution before anything is said of it.   *)

\* A set of numbers with an element has a least one.
LEMMA SomeLeast ==
  ASSUME NEW S \in SUBSET Nat, S # {}
  PROVE  \E x \in S : \A y \in S : x <= y
<1> DEFINE Down(n) == {s \in S : s <= n}
           Downs == {Down(n) : n \in S}
<1>1. Downs \subseteq FiniteSubsetsOf(S)
  <2>1. \A n \in S : IsFiniteSet(Down(n))
    <3>1. TAKE n \in S
    <3>2. Down(n) \in SUBSET Nat /\ \A s \in Down(n) : s <= n
      OBVIOUS
    <3> HIDE DEF Down
    <3>3. QED
      BY <3>2, FS_BoundedSetOfNaturals
  <2>2. QED
    BY <2>1 DEF FiniteSubsetsOf
<1>2. PICK D \in Downs : \A E \in Downs : ~ (<<E, D>> \in StrictSubsetOrdering(S))
  <2>1. Downs # {}
    OBVIOUS
  <2> DEFINE R == StrictSubsetOrdering(S)
             F == FiniteSubsetsOf(S)
  <2>2. IsWellFoundedOn(R, F)
    BY FS_StrictSubsetOrderingWellFounded
  <2> HIDE DEF Downs, R, F
  <2>3. \E D \in Downs : \A E \in Downs : ~ (<<E, D>> \in R)
    BY <1>1, <2>1, <2>2, WFMin DEF F
  <2>4. QED
    BY <2>3 DEF R
<1>3. PICK x \in S : D = Down(x)
  BY <1>2
<1>4. ASSUME NEW y \in S, y < x PROVE FALSE
  <2>1. x \in Nat /\ y \in Nat /\ S \subseteq Nat
    OBVIOUS
  <2>2. x \in Down(x) /\ x \notin Down(y)
    BY <1>4, <2>1
  <2>3. ASSUME NEW s \in Down(y) PROVE s \in Down(x)
    BY <1>4, <2>1, <2>3
  <2> HIDE DEF Down
  <2>4. Down(y) \in Downs /\ Down(y) \in SUBSET S /\ D \in SUBSET S
    BY <1>1 DEF FiniteSubsetsOf
  <2>5. <<Down(y), D>> \in (SUBSET S) \X (SUBSET S) /\ Down(y) \subseteq D /\ Down(y) # D
    BY <1>3, <2>2, <2>3, <2>4
  <2>6. <<Down(y), D>> \in StrictSubsetOrdering(S)
    BY <2>5 DEF StrictSubsetOrdering
  <2>7. QED
    BY <1>2, <2>4, <2>6
<1>5. QED
  BY <1>4

----------------------------------------------------------------------------
(* The driver.                                                               *)
PhaseType == [seeded : BOOLEAN, seen : SUBSET Todos,
              last : Todos \cup {NoTodo}, text : Todos \cup {NoTodo},
              repeats : [Todos -> 0..(RepeatThreshold + 1)], forced : SUBSET Todos,
              started : SUBSET Todos, old : SUBSET Todos]
WorkInv == /\ planStatus \in PlanStatuses /\ status \in [Todos -> TodoStatuses] /\ phase \in PhaseType
           /\ CompletedPlanIsDone

LEMMA WorkTyped == WorkInv => WorkTypeOK
  BY DEF WorkInv, WorkTypeOK, PhaseType

LEMMA FirstIsIn == ASSUME NEW S, S \subseteq Todos, S # {} PROVE First(S) \in S
<1>1. /\ Order \in Seq(Todos) /\ Len(Order) \in Nat /\ DOMAIN Order = 1 .. Len(Order)
  BY GraphIsAcyclic, LenProperties
<1>2. PICK D : D = {i \in DOMAIN Order : Order[i] \in S}
  OBVIOUS
<1>3. D \in SUBSET Nat /\ D # {}
  BY <1>1, <1>2 DEF Todos
<1>4. PICK i \in D : \A k \in D : i <= k
  BY <1>3, SomeLeast
<1>5. i \in DOMAIN Order /\ Order[i] \in S /\ \A j \in 1 .. (i - 1) : Order[j] \notin S
  BY <1>1, <1>2, <1>4
<1>6. QED
  BY <1>5 DEF First

LEMMA WorkSame == ASSUME WorkInv, UNCHANGED work PROVE WorkInv'
  BY DEF WorkInv, work, CompletedPlanIsDone, IncompleteTodos, With

LEMMA BeforeKeeps ==
  ASSUME WorkInv, NEW deferrals \in BOOLEAN, NEW dangling \in BOOLEAN, BeforeModel(deferrals, dangling)
  PROVE  WorkInv'
<1>1. CASE ~Driven
  BY <1>1, WorkSame DEF BeforeModel
<1>2. CASE Driven
  <2>1. PICK st : st = Healed(deferrals)
    OBVIOUS
  <2>2. /\ st \in [Todos -> TodoStatuses]
        /\ \A t \in Todos : st[t] = "completed" => status[t] = "completed"
        /\ planStatus = "completed" => st = status
    BY <2>1 DEF Healed, Heals, WorkInv, TodoStatuses
  <2>3. phase \in PhaseType /\ Cleared \in PhaseType
    BY DEF WorkInv, PhaseType, Cleared, With
  <2>4. CASE Adapt(st)
    <3>1. phase' = [phase EXCEPT !.text = NoTodo] /\ planStatus' = planStatus /\ status' = status
      BY <2>4 DEF Adapt
    <3>2. phase' \in PhaseType
      BY <2>3, <3>1 DEF PhaseType
    <3>3. QED
      BY <3>1, <3>2 DEF WorkInv, CompletedPlanIsDone, IncompleteTodos, With
  <2>5. CASE Wait(st)
    <3>1. phase' \in PhaseType /\ planStatus' = planStatus /\ status' = status
      BY <2>3, <2>5 DEF Wait
    <3>2. QED
      BY <3>1 DEF WorkInv, CompletedPlanIsDone, IncompleteTodos, With
  <2>6. CASE CompletePlan(st)
    <3>1. phase' \in PhaseType /\ planStatus' \in {planStatus, "completed"} /\ status' = status /\ With(st, "completed") = Todos
      BY <2>3, <2>6 DEF CompletePlan
    <3>2. IncompleteTodos' = {}
      BY <2>2, <3>1 DEF IncompleteTodos, With
    <3>3. QED
      BY <3>1, <3>2 DEF WorkInv, CompletedPlanIsDone, PlanStatuses
  <2>7. CASE Instruct(st, dangling)
    <3>1. PendingReady(st) # {} /\ PendingReady(st) \subseteq Todos
      BY <2>7 DEF Instruct, PendingReady, Ready
    <3>2. PICK t \in Todos : t = First(PendingReady(st))
      BY <3>1, FirstIsIn
    <3>3. PICK count : count = IF phase.last # t THEN 1
                  ELSE IF phase.repeats[t] > RepeatThreshold THEN phase.repeats[t]
                  ELSE phase.repeats[t] + 1
      OBVIOUS
    <3>4. PICK forced : forced = (IF (count > RepeatThreshold \/ dangling) /\ t \notin phase.forced
                                  THEN phase.forced \cup {t} ELSE phase.forced) \ NewlyCompleted
      OBVIOUS
    <3>5. /\ phase' = [phase EXCEPT
              !.seeded = TRUE, !.seen = With(st, "completed"), !.last = t, !.text = t,
              !.repeats = [r \in Todos |-> IF r \in NewlyCompleted THEN 0
                                           ELSE IF r = t THEN count ELSE phase.repeats[r]],
              !.forced = forced,
              !.started = (phase.started \ NewlyCompleted) \cup {t},
              !.old = phase.old \ NewlyCompleted]
          /\ status' = st /\ planStatus' = IF planStatus = "approved" THEN "executing" ELSE planStatus
      BY <2>7, <3>2, <3>3, <3>4 DEF Instruct
    <3>6. count \in 0 .. (RepeatThreshold + 1)
      <4>1. phase.repeats[t] \in 0 .. (RepeatThreshold + 1) /\ RepeatThreshold \in Nat
        BY <2>3, <3>2, GraphIsAcyclic DEF PhaseType
      <4>2. QED
        BY <3>3, <4>1
    <3>7. forced \in SUBSET Todos
      BY <2>3, <3>2, <3>4 DEF PhaseType
    <3>8. PICK repeats : repeats = [r \in Todos |-> IF r \in NewlyCompleted THEN 0
                                           ELSE IF r = t THEN count ELSE phase.repeats[r]]
      OBVIOUS
    <3>9. repeats \in [Todos -> 0 .. (RepeatThreshold + 1)]
      <4>1. 0 \in 0 .. (RepeatThreshold + 1)
        BY GraphIsAcyclic
      <4>2. phase.repeats \in [Todos -> 0 .. (RepeatThreshold + 1)]
        BY <2>3 DEF PhaseType
      <4>3. QED
        BY <3>6, <3>8, <4>1, <4>2
    <3>10. phase' \in PhaseType
      <4>1. With(st, "completed") \in SUBSET Todos /\ (phase.started \ NewlyCompleted) \cup {t} \in SUBSET Todos
            /\ phase.old \ NewlyCompleted \in SUBSET Todos
        BY <2>3, <3>2 DEF PhaseType, With
      <4>2. QED
        BY <2>3, <3>2, <3>5, <3>7, <3>8, <3>9, <4>1 DEF PhaseType
    <3>11. planStatus' \in PlanStatuses
      BY <3>5 DEF WorkInv, PlanStatuses
    <3>12. CompletedPlanIsDone'
      BY <2>2, <3>5 DEF WorkInv, CompletedPlanIsDone, IncompleteTodos, With
    <3>13. QED
      BY <2>2, <3>5, <3>10, <3>11, <3>12 DEF WorkInv
  <2>8. QED
    BY <1>2, <2>1, <2>4, <2>5, <2>6, <2>7 DEF BeforeModel
<1>3. QED
  BY <1>1, <1>2

LEMMA WriteKeeps ==
  ASSUME WorkInv, NEW t \in Todos, NEW s \in TodoStatuses, WriteTodos(t, s)
  PROVE  WorkInv'
<1>1. planStatus' = planStatus /\ phase' = phase /\ status' = IF planStatus = "completed" THEN status ELSE [status EXCEPT ![t] = s]
  BY DEF WriteTodos
<1>2. status' \in [Todos -> TodoStatuses]
  BY <1>1 DEF WorkInv
<1>3. QED
  BY <1>1, <1>2 DEF WorkInv, CompletedPlanIsDone, IncompleteTodos, With

LEMMA MinuteKeeps == ASSUME WorkInv, MinutePasses PROVE WorkInv'
<1>1. phase' = [phase EXCEPT !.old = phase.started] /\ UNCHANGED <<planStatus, status>>
  BY DEF MinutePasses
<1>2. phase' \in PhaseType
  BY <1>1 DEF WorkInv, PhaseType
<1>3. QED
  BY <1>1, <1>2 DEF WorkInv, CompletedPlanIsDone, IncompleteTodos, With

-----------------------------------------------------------------------------
(* The calls of a reply.                                                     *)
MarkCall(t, s) == [tool |-> "write_todos", arg |-> <<t, s>>, primary |-> FALSE]
AnyCall == Calls \cup {MarkCall(t, s) : t \in Todos, s \in TodoStatuses}
ReplyType == [calls : Seq(AnyCall), warned : BOOLEAN, invalid : BOOLEAN]

LEMMA CallsAreSound ==
  ASSUME NEW c \in AnyCall
  PROVE  /\ c.tool \in Tools /\ c.primary \in BOOLEAN
         /\ c.tool = "write_todos" => c.arg[1] \in Todos /\ c.arg[2] \in TodoStatuses
<1>1. CASE c \in Calls
  BY <1>1, RepliesAssumption, AnswersAssumption
<1>2. CASE c \notin Calls
  <2>1. PICK t \in Todos, s \in TodoStatuses : c = MarkCall(t, s)
    BY <1>2 DEF AnyCall
  <2>2. "write_todos" \in Tools
    BY LoopBounds
  <2>3. QED
    BY <2>1, <2>2 DEF MarkCall
<1>3. QED
  BY <1>1, <1>2

LEMMA RepliesTyped == Replies \subseteq ReplyType
<1>1. ASSUME NEW r \in Replies PROVE r \in ReplyType
  <2>1. r.calls \in Seq(Calls) /\ r.invalid \in BOOLEAN
        /\ r = [calls |-> r.calls, warned |-> FALSE, invalid |-> r.invalid]
    BY RepliesAssumption
  <2>2. r.calls \in Seq(AnyCall)
    BY <2>1, SeqMonotonic, Calls \subseteq AnyCall DEF AnyCall
  <2>3. PICK a : a = r.calls
    OBVIOUS
  <2>4. PICK b : b = r.invalid
    OBVIOUS
  <2>5. r = [calls |-> a, warned |-> FALSE, invalid |-> b] /\ a \in Seq(AnyCall) /\ b \in BOOLEAN
    BY <2>1, <2>2, <2>3, <2>4
  <2>6. QED
    BY <2>5 DEF ReplyType
<1>2. QED
  BY <1>1

LEMMA MarkTyped ==
  ASSUME NEW t \in Todos, NEW s \in TodoStatuses
  PROVE  Mark(t, s) \in ReplyType /\ Mark(t, s).calls # <<>>
<1>1. Mark(t, s) = [calls |-> <<MarkCall(t, s)>>, warned |-> FALSE, invalid |-> FALSE]
  BY DEF Mark, MarkCall
<1>2. MarkCall(t, s) \in AnyCall
  BY DEF AnyCall
<1>3. PICK q : q = <<MarkCall(t, s)>>
  OBVIOUS
<1>4. q \in Seq(AnyCall) /\ q # <<>>
  BY <1>2, <1>3
<1>5. QED
  BY <1>1, <1>3, <1>4 DEF ReplyType

LEMMA NoReplyTyped == NoReply \in ReplyType /\ NoReply.calls = <<>> /\ NoReply.warned = FALSE
<1>1. <<>> \in Seq(AnyCall)
  BY EmptySeq
<1>2. QED
  BY <1>1 DEF NoReply, ReplyType

LEMMA HashIsKnown ==
  ASSUME NEW r \in Replies, r.calls # <<>> PROVE Hash(r.calls) \in Hashes
<1>1. r.calls \in Seq(Calls)
  BY RepliesAssumption
<1>2. Len(r.calls) \in Nat \ {0} /\ DOMAIN r.calls = 1 .. Len(r.calls)
  BY <1>1, EmptySeq, LenProperties
<1>3. r.calls[1] \in ToSet(r.calls)
  BY <1>2 DEF ToSet
<1>4. DOMAIN Hash(r.calls) # {}
  BY <1>3 DEF Hash
<1>5. DOMAIN Hash(<<>>) = {}
  BY DEF Hash, ToSet
<1>6. QED
  BY <1>4, <1>5 DEF Hashes

-----------------------------------------------------------------------------
(* Counting the calls of a sequence.                                         *)
TasksIn(s) == {i \in DOMAIN s : IsTask(s[i])}
PrimariesIn(s) == {i \in TasksIn(s) : s[i].primary}

\* How many positions of a sequence are in a set.
LEMMA PositionsFinite ==
  ASSUME NEW s \in Seq(AnyCall), NEW P, P \subseteq DOMAIN s
  PROVE  IsFiniteSet(P) /\ Cardinality(P) \in Nat
<1>1. Len(s) \in Nat /\ DOMAIN s = 1 .. Len(s)
  BY LenProperties
<1>2. IsFiniteSet(1 .. Len(s))
  BY <1>1, FS_Interval
<1>3. IsFiniteSet(P)
  BY <1>1, <1>2, FS_Subset
<1>4. QED
  BY <1>3, FS_CardinalityType

LEMMA CalledIsNat == ASSUME NEW s \in Seq(AnyCall), NEW t PROVE Called(s, t) \in Nat
  BY PositionsFinite, {i \in DOMAIN s : s[i].tool = t} \subseteq DOMAIN s DEF Called

LEMMA CountsFinite ==
  ASSUME NEW s \in Seq(AnyCall)
  PROVE  /\ IsFiniteSet(TasksIn(s)) /\ Cardinality(TasksIn(s)) \in Nat
         /\ IsFiniteSet(PrimariesIn(s)) /\ Cardinality(PrimariesIn(s)) \in Nat
<1>1. TasksIn(s) \subseteq DOMAIN s /\ PrimariesIn(s) \subseteq DOMAIN s
  BY DEF TasksIn, PrimariesIn
<1>2. QED
  BY <1>1, PositionsFinite

LEMMA AppendCounts ==
  ASSUME NEW s \in Seq(AnyCall), NEW c \in AnyCall
  PROVE  /\ Append(s, c) \in Seq(AnyCall)
         /\ Cardinality(TasksIn(Append(s, c)))
              = Cardinality(TasksIn(s)) + (IF IsTask(c) THEN 1 ELSE 0)
         /\ Cardinality(PrimariesIn(Append(s, c)))
              = Cardinality(PrimariesIn(s)) + (IF IsTask(c) /\ c.primary THEN 1 ELSE 0)
<1>1. PICK n \in Nat : n = Len(s)
  BY LenProperties
<1>2. PICK a : a = Append(s, c)
  OBVIOUS
<1>3. /\ a \in Seq(AnyCall) /\ DOMAIN a = 1 .. (n + 1) /\ DOMAIN s = 1 .. n
      /\ a[n + 1] = c /\ \A i \in 1 .. n : a[i] = s[i]
  <2>1. a \in Seq(AnyCall) /\ Len(a) = n + 1 /\ a[n + 1] = c /\ \A i \in 1 .. n : a[i] = s[i]
    BY <1>1, <1>2, AppendProperties
  <2>2. QED
    BY <1>1, <2>1, LenProperties
<1>4. TasksIn(a) = TasksIn(s) \cup (IF IsTask(c) THEN {n + 1} ELSE {})
  BY <1>3 DEF TasksIn
<1>5. PrimariesIn(a) = PrimariesIn(s) \cup (IF IsTask(c) /\ c.primary THEN {n + 1} ELSE {})
  BY <1>3 DEF TasksIn, PrimariesIn
<1>6. n + 1 \notin TasksIn(s) /\ n + 1 \notin PrimariesIn(s)
  BY <1>3 DEF TasksIn, PrimariesIn
<1>7. /\ IsFiniteSet(TasksIn(s)) /\ Cardinality(TasksIn(s)) \in Nat
      /\ IsFiniteSet(PrimariesIn(s)) /\ Cardinality(PrimariesIn(s)) \in Nat
  BY CountsFinite
<1>8. Cardinality(TasksIn(a)) = Cardinality(TasksIn(s)) + (IF IsTask(c) THEN 1 ELSE 0)
  <2>1. CASE IsTask(c)
    <3>1. TasksIn(a) = TasksIn(s) \cup {n + 1}
      BY <1>4, <2>1
    <3>2. QED
      BY <1>6, <1>7, <2>1, <3>1, FS_AddElement
  <2>2. CASE ~IsTask(c)
    BY <1>4, <1>7, <2>2
  <2>3. QED
    BY <2>1, <2>2
<1>9. Cardinality(PrimariesIn(a)) = Cardinality(PrimariesIn(s)) + (IF IsTask(c) /\ c.primary THEN 1 ELSE 0)
  <2>1. CASE IsTask(c) /\ c.primary
    <3>1. PrimariesIn(a) = PrimariesIn(s) \cup {n + 1}
      BY <1>5, <2>1
    <3>2. QED
      BY <1>6, <1>7, <2>1, <3>1, FS_AddElement
  <2>2. CASE ~(IsTask(c) /\ c.primary)
    <3>1. PrimariesIn(a) = PrimariesIn(s)
      BY <1>5, <2>2
    <3>2. (IF IsTask(c) /\ c.primary THEN 1 ELSE 0) = 0
      BY <2>2
    <3>3. QED
      BY <1>7, <3>1, <3>2
  <2>3. QED
    BY <2>1, <2>2
<1>10. QED
  BY <1>2, <1>3, <1>8, <1>9

\* What comes behind other calls counts no more than all of them.
LEMMA SuffixCounts ==
  ASSUME NEW d \in Seq(AnyCall), NEW s \in Seq(AnyCall)
  PROVE  /\ Cardinality(TasksIn(s)) <= Cardinality(TasksIn(d \o s))
         /\ Cardinality(PrimariesIn(s)) <= Cardinality(PrimariesIn(d \o s))
<1>1. PICK n \in Nat, m \in Nat : n = Len(d) /\ m = Len(s)
  BY LenProperties
<1>a. PICK a : a = d \o s
  OBVIOUS
<1>2. /\ a \in Seq(AnyCall) /\ DOMAIN a = 1 .. (n + m) /\ DOMAIN s = 1 .. m
      /\ \A i \in 1 .. m : a[n + i] = s[i]
  <2>1. a \in Seq(AnyCall) /\ Len(a) = n + m
        /\ \A i \in 1 .. (n + m) : a[i] = IF i <= n THEN d[i] ELSE s[i - n]
    BY <1>1, <1>a, ConcatProperties
  <2>2. DOMAIN a = 1 .. (n + m) /\ DOMAIN s = 1 .. m
    BY <1>1, <2>1, LenProperties
  <2>3. ASSUME NEW i \in 1 .. m PROVE a[n + i] = s[i]
    <3>1. n + i \in 1 .. (n + m) /\ ~(n + i <= n) /\ (n + i) - n = i
      BY <2>3
    <3>2. QED
      BY <2>1, <3>1
  <2>4. QED
    BY <2>1, <2>2, <2>3
<1>3. ASSUME NEW P, NEW Q, Q \subseteq DOMAIN a, P \subseteq 1 .. m, \A i \in P : n + i \in Q
      PROVE  Cardinality(P) <= Cardinality(Q)
  <2>1. IsFiniteSet(Q)
    BY <1>2, <1>3, PositionsFinite
  <2>2. PICK f : f = [i \in P |-> n + i]
    OBVIOUS
  <2>3. f \in [P -> Q] /\ \A i \in P, j \in P : f[i] = f[j] => i = j
    BY <1>3, <2>2
  <2>4. f \in Injection(P, Q)
    BY <2>3 DEF Injection, IsInjective
  <2>5. QED
    BY <2>1, <2>4, FS_Injection
<1>4. /\ TasksIn(a) \subseteq DOMAIN a /\ TasksIn(s) \subseteq 1 .. m
      /\ \A i \in TasksIn(s) : n + i \in TasksIn(a)
  BY <1>2 DEF TasksIn
<1>5. /\ PrimariesIn(a) \subseteq DOMAIN a /\ PrimariesIn(s) \subseteq 1 .. m
      /\ \A i \in PrimariesIn(s) : n + i \in PrimariesIn(a)
  BY <1>2, <1>4 DEF PrimariesIn, TasksIn
<1>6. Cardinality(TasksIn(s)) <= Cardinality(TasksIn(a))
  BY <1>3, <1>4
<1>7. Cardinality(PrimariesIn(s)) <= Cardinality(PrimariesIn(a))
  BY <1>3, <1>5
<1>8. QED
  BY <1>a, <1>6, <1>7

-----------------------------------------------------------------------------
(* Where the calls go: Split, after each of the calls.                       *)
AccType == [kept : Seq(AnyCall), later : Seq(AnyCall), tasks : Nat, primaries : Nat]
Placed(acc, n, calls) ==
  /\ acc \in AccType
  /\ acc.tasks = Cardinality(TasksIn(acc.kept)) /\ acc.tasks <= MaxConcurrent
  /\ acc.primaries = Cardinality(PrimariesIn(acc.kept)) /\ acc.primaries <= MaxPrimary
  /\ \A i \in DOMAIN acc.later : IsTask(acc.later[i])
  /\ acc.later = <<>> => Len(acc.kept) = n /\ \A i \in 1 .. n : acc.kept[i] = calls[i]

LEMMA NowherePlaced == ASSUME NEW calls PROVE Placed(Nowhere, 0, calls)
<1>1. <<>> \in Seq(AnyCall) /\ Len(<<>>) = 0 /\ DOMAIN <<>> = {}
  BY EmptySeq
<1>2. TasksIn(<<>>) = {} /\ PrimariesIn(<<>>) = {}
  BY <1>1 DEF TasksIn, PrimariesIn
<1>3. MaxConcurrent \in Nat /\ MaxPrimary \in Nat
  BY GuardsBounds
<1>4. Nowhere \in AccType
  BY <1>1 DEF Nowhere, AccType
<1>5. Nowhere.kept = <<>> /\ Nowhere.later = <<>> /\ Nowhere.tasks = 0 /\ Nowhere.primaries = 0
  BY DEF Nowhere
<1>6. PICK p, e : p = Nowhere /\ e = <<>>
  OBVIOUS
<1>7. /\ p \in AccType /\ p.kept = e /\ p.later = e /\ p.tasks = 0 /\ p.primaries = 0
      /\ Len(e) = 0 /\ DOMAIN e = {}
      /\ Cardinality(TasksIn(e)) = 0 /\ Cardinality(PrimariesIn(e)) = 0
  BY <1>1, <1>2, <1>4, <1>5, <1>6, FS_EmptySet
<1>8. Placed(p, 0, calls)
  BY <1>3, <1>7 DEF Placed
<1>9. QED
  BY <1>6, <1>8

LEMMA PlaceKeeps ==
  ASSUME NEW calls \in Seq(AnyCall), NEW n \in 1 .. Len(calls), NEW acc, Placed(acc, n - 1, calls)
  PROVE  Placed(Place(acc, calls[n]), n, calls)
<1>1. PICK c \in AnyCall : c = calls[n]
  BY ElementOfSeq
<1>2. PICK kept \in Seq(AnyCall), later \in Seq(AnyCall), tasks \in Nat, primaries \in Nat :
         acc = [kept |-> kept, later |-> later, tasks |-> tasks, primaries |-> primaries]
  BY DEF Placed, AccType
<1>3. /\ tasks = Cardinality(TasksIn(kept)) /\ tasks <= MaxConcurrent
      /\ primaries = Cardinality(PrimariesIn(kept)) /\ primaries <= MaxPrimary
      /\ \A i \in DOMAIN later : IsTask(later[i])
      /\ later = <<>> => Len(kept) = n - 1 /\ \A i \in 1 .. (n - 1) : kept[i] = calls[i]
  BY <1>2 DEF Placed
<1>4. n \in Nat \ {0} /\ MaxConcurrent \in Nat /\ MaxPrimary \in Nat
  <2>1. Len(calls) \in Nat
    BY LenProperties
  <2>2. QED
    BY <2>1, GuardsBounds
<1>5. PICK k : k = Append(kept, c)
  OBVIOUS
<1>6. k \in Seq(AnyCall) /\ (later = <<>> => Len(k) = n /\ \A i \in 1 .. n : k[i] = calls[i])
  <2>1. k \in Seq(AnyCall) /\ Len(k) = Len(kept) + 1 /\ k[Len(kept) + 1] = c
        /\ \A i \in 1 .. Len(kept) : k[i] = kept[i]
    BY <1>5, AppendProperties
  <2>2. ASSUME later = <<>> PROVE Len(k) = n /\ \A i \in 1 .. n : k[i] = calls[i]
    <3>1. Len(kept) = n - 1 /\ \A i \in 1 .. (n - 1) : kept[i] = calls[i]
      BY <1>3, <2>2
    <3>2. Len(k) = n /\ k[n] = calls[n] /\ \A i \in 1 .. (n - 1) : k[i] = calls[i]
      BY <1>1, <1>4, <2>1, <3>1
    <3>3. \A i \in 1 .. n : i = n \/ i \in 1 .. (n - 1)
      BY <1>4
    <3>4. QED
      BY <3>2, <3>3
  <2>3. QED
    BY <2>1, <2>2
<1>7. /\ Cardinality(TasksIn(k)) = tasks + (IF IsTask(c) THEN 1 ELSE 0)
      /\ Cardinality(PrimariesIn(k)) = primaries + (IF IsTask(c) /\ c.primary THEN 1 ELSE 0)
  BY <1>3, <1>5, AppendCounts
<1>8. c.primary \in BOOLEAN
  BY CallsAreSound
<1>9. CASE ~IsTask(c)
  <2>1. Place(acc, c) = [kept |-> k, later |-> later, tasks |-> tasks, primaries |-> primaries]
    BY <1>2, <1>5, <1>9 DEF Place
  <2>2. PICK p : p = Place(acc, c)
    OBVIOUS
  <2>3. p.kept = k /\ p.later = later /\ p.tasks = tasks /\ p.primaries = primaries /\ p \in AccType
    BY <1>6, <2>1, <2>2 DEF AccType
  <2>4. Cardinality(TasksIn(k)) = tasks /\ Cardinality(PrimariesIn(k)) = primaries
    BY <1>7, <1>9
  <2>5. Placed(p, n, calls)
    BY <1>3, <1>6, <2>3, <2>4 DEF Placed
  <2>6. QED
    BY <1>1, <2>2, <2>5
<1>10. CASE IsTask(c) /\ (tasks >= MaxConcurrent \/ (c.primary /\ primaries >= MaxPrimary))
  <2>1. PICK q : q = Append(later, c)
    OBVIOUS
  <2>2. q \in Seq(AnyCall) /\ q # <<>> /\ \A i \in DOMAIN q : IsTask(q[i])
    <3>1. q \in Seq(AnyCall) /\ Len(q) = Len(later) + 1 /\ q[Len(later) + 1] = c
          /\ \A i \in 1 .. Len(later) : q[i] = later[i]
      BY <2>1, AppendProperties
    <3>2. DOMAIN q = 1 .. (Len(later) + 1) /\ DOMAIN later = 1 .. Len(later) /\ Len(later) \in Nat
      BY <3>1, LenProperties
    <3>3. ASSUME NEW i \in DOMAIN q PROVE IsTask(q[i])
      <4>1. CASE i = Len(later) + 1
        BY <1>10, <3>1, <4>1
      <4>2. CASE i # Len(later) + 1
        <5>1. i \in DOMAIN later
          BY <3>2, <3>3, <4>2
        <5>2. QED
          BY <1>3, <3>1, <3>2, <5>1
      <4>3. QED
        BY <4>1, <4>2
    <3>4. QED
      BY <3>1, <3>2, <3>3, EmptySeq
  <2>3. Place(acc, c) = [kept |-> kept, later |-> q, tasks |-> tasks, primaries |-> primaries]
    BY <1>2, <1>10, <2>1 DEF Place
  <2>4. PICK p : p = Place(acc, c)
    OBVIOUS
  <2>5. p.kept = kept /\ p.later = q /\ p.tasks = tasks /\ p.primaries = primaries /\ p \in AccType
    BY <2>2, <2>3, <2>4 DEF AccType
  <2>6. Placed(p, n, calls)
    BY <1>3, <2>2, <2>5 DEF Placed
  <2>7. QED
    BY <1>1, <2>4, <2>6
<1>11. CASE IsTask(c) /\ ~(tasks >= MaxConcurrent \/ (c.primary /\ primaries >= MaxPrimary))
  <2>1. PICK more : more = IF c.primary THEN 1 ELSE 0
    OBVIOUS
  <2>2. more \in Nat /\ primaries + more <= MaxPrimary /\ tasks + 1 <= MaxConcurrent
    <3>1. CASE c.primary
      <4>1. ~(primaries >= MaxPrimary) /\ ~(tasks >= MaxConcurrent) /\ more = 1
        BY <1>11, <2>1, <3>1
      <4>2. QED
        BY <1>4, <4>1
    <3>2. CASE ~c.primary
      <4>1. ~(tasks >= MaxConcurrent) /\ more = 0
        BY <1>11, <2>1, <3>2
      <4>2. QED
        BY <1>3, <1>4, <4>1
    <3>3. QED
      BY <3>1, <3>2
  <2>3. Place(acc, c) = [kept |-> k, later |-> later, tasks |-> tasks + 1, primaries |-> primaries + more]
    BY <1>2, <1>5, <1>11, <2>1 DEF Place
  <2>4. PICK p : p = Place(acc, c)
    OBVIOUS
  <2>5. p.kept = k /\ p.later = later /\ p.tasks = tasks + 1 /\ p.primaries = primaries + more /\ p \in AccType
    BY <1>6, <2>2, <2>3, <2>4 DEF AccType
  <2>6. Cardinality(TasksIn(k)) = tasks + 1 /\ Cardinality(PrimariesIn(k)) = primaries + more
    <3>1. (IF IsTask(c) THEN 1 ELSE 0) = 1 /\ (IF IsTask(c) /\ c.primary THEN 1 ELSE 0) = more
      BY <1>11, <2>1
    <3>2. QED
      BY <1>7, <3>1
  <2>7. Placed(p, n, calls)
    BY <1>3, <1>6, <2>2, <2>5, <2>6 DEF Placed
  <2>8. QED
    BY <1>1, <2>4, <2>7
<1>12. QED
  BY <1>9, <1>10, <1>11

\* The recursion of Split up to the m-th call.
IsPlacing(g, m, calls) ==
  g = [n \in 0 .. m |-> IF n = 0 THEN Nowhere ELSE Place(g[n - 1], calls[n])]

LEMMA PlacingExists ==
  ASSUME NEW calls \in Seq(AnyCall)
  PROVE  \E g : IsPlacing(g, Len(calls), calls)
<1> DEFINE Bad == {m \in 0 .. Len(calls) : ~\E g : IsPlacing(g, m, calls)}
<1>1. Len(calls) \in Nat
  BY LenProperties
<1>2. SUFFICES ASSUME Bad # {} PROVE FALSE
  BY <1>1
<1>3. PICK m \in Bad : \A k \in Bad : m <= k
  <2>1. Bad \in SUBSET Nat
    BY <1>1
  <2> HIDE DEF Bad
  <2>2. QED
    BY <1>2, <2>1, SomeLeast
<1>4. m \in 0 .. Len(calls) /\ ~\E g : IsPlacing(g, m, calls)
  OBVIOUS
<1>5. CASE m = 0
  <2>1. PICK g : g = [n \in 0 .. 0 |-> Nowhere]
    OBVIOUS
  <2>2. g = [n \in 0 .. 0 |-> IF n = 0 THEN Nowhere ELSE Place(g[n - 1], calls[n])]
    BY <2>1
  <2>3. QED
    BY <1>4, <1>5, <2>2 DEF IsPlacing
<1>6. CASE m # 0
  <2>1. m - 1 \in 0 .. Len(calls) /\ m - 1 \notin Bad /\ m \in Nat
    <3>1. m - 1 \in 0 .. Len(calls) /\ ~(m <= m - 1) /\ m \in Nat
      BY <1>1, <1>4, <1>6
    <3> HIDE DEF Bad
    <3>2. QED
      BY <1>3, <3>1
  <2>2. PICK g : IsPlacing(g, m - 1, calls)
    BY <2>1
  <2>3. PICK h : h = [n \in 0 .. m |-> IF n = m THEN Place(g[m - 1], calls[m]) ELSE g[n]]
    OBVIOUS
  <2>4. ASSUME NEW n \in 0 .. m
        PROVE  h[n] = IF n = 0 THEN Nowhere ELSE Place(h[n - 1], calls[n])
    <3>1. CASE n = m
      <4>1. m - 1 \in 0 .. m /\ m - 1 # m
        BY <1>6, <2>1
      <4>2. h[m] = Place(g[m - 1], calls[m]) /\ h[m - 1] = g[m - 1]
        BY <2>3, <2>4, <3>1, <4>1
      <4>3. QED
        BY <1>6, <3>1, <4>2
    <3>2. CASE n # m
      <4>1. n \in 0 .. (m - 1)
        BY <2>1, <2>4, <3>2
      <4>2. g[n] = IF n = 0 THEN Nowhere ELSE Place(g[n - 1], calls[n])
        BY <2>2, <4>1 DEF IsPlacing
      <4>3. h[n] = g[n]
        BY <2>3, <2>4, <3>2
      <4>4. CASE n = 0
        BY <4>2, <4>3, <4>4
      <4>5. CASE n # 0
        <5>1. n - 1 \in 0 .. m /\ n - 1 # m
          BY <2>1, <4>1, <4>5
        <5>2. h[n - 1] = g[n - 1]
          BY <2>3, <5>1
        <5>3. QED
          BY <4>2, <4>3, <4>5, <5>2
      <4>6. QED
        BY <4>4, <4>5
    <3>3. QED
      BY <3>1, <3>2
  <2>5. IsPlacing(h, m, calls)
    <3>1. PICK w : w = [n \in 0 .. m |-> IF n = 0 THEN Nowhere ELSE Place(h[n - 1], calls[n])]
      OBVIOUS
    <3>2. DOMAIN h = 0 .. m /\ h = [n \in 0 .. m |-> h[n]]
      BY <2>3
    <3>3. \A n \in 0 .. m : h[n] = w[n]
      BY <2>4, <3>1
    <3>4. DOMAIN w = 0 .. m /\ w = [n \in 0 .. m |-> w[n]]
      BY <3>1
    <3>5. h = w
      BY <3>2, <3>3, <3>4
    <3>6. QED
      BY <3>1, <3>5 DEF IsPlacing
  <2>6. QED
    BY <1>4, <2>5
<1>7. QED
  BY <1>5, <1>6

LEMMA PlacingKeeps ==
  ASSUME NEW calls \in Seq(AnyCall), NEW g, IsPlacing(g, Len(calls), calls)
  PROVE  \A n \in 0 .. Len(calls) : Placed(g[n], n, calls)
<1> DEFINE Bad == {n \in 0 .. Len(calls) : ~Placed(g[n], n, calls)}
<1>1. Len(calls) \in Nat
  BY LenProperties
<1>2. SUFFICES ASSUME Bad # {} PROVE FALSE
  OBVIOUS
<1>3. PICK m \in Bad : \A k \in Bad : m <= k
  <2>1. Bad \in SUBSET Nat
    BY <1>1
  <2> HIDE DEF Bad
  <2>2. QED
    BY <1>2, <2>1, SomeLeast
<1>4. m \in 0 .. Len(calls) /\ ~Placed(g[m], m, calls)
  OBVIOUS
<1>5. g[m] = IF m = 0 THEN Nowhere ELSE Place(g[m - 1], calls[m])
  BY <1>4 DEF IsPlacing
<1>6. CASE m = 0
  BY <1>4, <1>5, <1>6, NowherePlaced
<1>7. CASE m # 0
  <2>1. m - 1 \in 0 .. Len(calls) /\ ~(m <= m - 1) /\ m \in 1 .. Len(calls)
    BY <1>1, <1>4, <1>7
  <2>2. m - 1 \notin Bad
    <3> HIDE DEF Bad
    <3>1. QED
      BY <1>3, <2>1
  <2>3. Placed(g[m - 1], m - 1, calls)
    BY <2>1, <2>2
  <2>4. Placed(Place(g[m - 1], calls[m]), m, calls)
    BY <2>1, <2>3, PlaceKeeps
  <2>5. QED
    BY <1>4, <1>5, <1>7, <2>4
<1>8. QED
  BY <1>6, <1>7

\* The calls that Split keeps are within the limits; what it defers is tasks.
LEMMA SplitIsSound ==
  ASSUME NEW calls \in Seq(AnyCall)
  PROVE  Placed(Split(calls), Len(calls), calls)
<1>1. Len(calls) \in Nat
  BY LenProperties
<1>2. PICK g : g = CHOOSE placed : IsPlacing(placed, Len(calls), calls)
  OBVIOUS
<1>3. IsPlacing(g, Len(calls), calls)
  BY <1>2, PlacingExists
<1>4. Split(calls) = g[Len(calls)]
  BY <1>2 DEF Split, IsPlacing
<1>5. QED
  BY <1>1, <1>3, <1>4, PlacingKeeps

-----------------------------------------------------------------------------
(* The counters of loop detection.                                           *)
LoopsType == [history : Seq(Hashes), repeated : SUBSET Hashes, freq : [Tools -> 0 .. FreqHard],
              frequent : SUBSET Tools, sig : Texts]
LoopsOK(l) == l \in LoopsType /\ Len(l.history) <= Window
RecoveryType == [attempts : 0 .. MaxRecovery, schema : 0 .. MaxSchema, current : BOOLEAN]
DeferredOK(d) == d \in Seq(AnyCall) /\ \A i \in DOMAIN d : IsTask(d[i])

\* The guards' part of the type invariant, with what the steps need of it.
GuardsInv == /\ LoopsOK(loops) /\ human \in Texts /\ recovery \in RecoveryType
             /\ DeferredOK(deferred) /\ reply \in ReplyType

LEMMA GuardsTyped == GuardsInv => GuardsTypeOK
<1> SUFFICES ASSUME GuardsInv PROVE GuardsTypeOK
  OBVIOUS
<1>1. loops \in LoopsType /\ Len(loops.history) <= Window
  BY DEF GuardsInv, LoopsOK
<1>2. /\ loops.history \in Seq(Hashes) /\ loops.repeated \subseteq Hashes
      /\ loops.freq \in [Tools -> 0 .. FreqHard] /\ loops.frequent \subseteq Tools /\ loops.sig \in Texts
  BY <1>1 DEF LoopsType
<1>3. Range(loops.history) \subseteq Hashes
  <2>1. DOMAIN loops.history = 1 .. Len(loops.history)
    BY <1>2, LenProperties
  <2>2. \A i \in 1 .. Len(loops.history) : loops.history[i] \in Hashes
    BY <1>2, ElementOfSeq
  <2>3. QED
    BY <2>1, <2>2 DEF Range
<1>4. \A i \in DOMAIN deferred : deferred[i].tool = "task"
  BY DEF GuardsInv, DeferredOK, IsTask
<1>5. QED
  BY <1>1, <1>2, <1>3, <1>4 DEF GuardsInv, GuardsTypeOK, RecoveryType

LEMMA NoLoopsOK == ASSUME NEW text \in Texts PROVE LoopsOK([NoLoops EXCEPT !.sig = text])
<1>1. FreqHard \in Nat /\ Window \in Nat
  BY GuardsBounds
<1>2. PICK e, f : e = <<>> /\ f = [t \in Tools |-> 0]
  OBVIOUS
<1>3. e \in Seq(Hashes) /\ Len(e) = 0 /\ f \in [Tools -> 0 .. FreqHard]
  BY <1>1, <1>2, EmptySeq
<1>4. PICK l : l = [NoLoops EXCEPT !.sig = text]
  OBVIOUS
<1>5. l = [history |-> e, repeated |-> {}, freq |-> f, frequent |-> {}, sig |-> text]
  BY <1>2, <1>4 DEF NoLoops
<1>6. LoopsOK(l)
  BY <1>1, <1>3, <1>5 DEF LoopsOK, LoopsType
<1>7. QED
  BY <1>4, <1>6

LEMMA FreshLoopsOK == LoopsOK(NoLoops)
<1>1. FreqHard \in Nat /\ Window \in Nat
  BY GuardsBounds
<1>2. PICK e, f : e = <<>> /\ f = [t \in Tools |-> 0]
  OBVIOUS
<1>3. e \in Seq(Hashes) /\ Len(e) = 0 /\ f \in [Tools -> 0 .. FreqHard]
  BY <1>1, <1>2, EmptySeq
<1>4. PICK l : l = NoLoops
  OBVIOUS
<1>5. l = [history |-> e, repeated |-> {}, freq |-> f, frequent |-> {}, sig |-> "none"]
  BY <1>2, <1>4 DEF NoLoops
<1>6. "none" \in Texts
  BY DEF Texts
<1>7. LoopsOK(l)
  BY <1>1, <1>3, <1>5, <1>6 DEF LoopsOK, LoopsType
<1>8. QED
  BY <1>4, <1>7

LEMMA ScopedOK == ASSUME GuardsInv PROVE LoopsOK(Scoped)
<1>1. CASE human # loops.sig
  BY <1>1, NoLoopsOK DEF GuardsInv, Scoped
<1>2. CASE human = loops.sig
  BY <1>2 DEF GuardsInv, Scoped
<1>3. QED
  BY <1>1, <1>2

LEMMA RememberedOK ==
  ASSUME NEW l, LoopsOK(l), NEW h \in Hashes
  PROVE  LoopsOK([l EXCEPT !.history = Remembered(@, h)])
<1>1. l \in LoopsType /\ l.history \in Seq(Hashes) /\ Len(l.history) <= Window /\ Window \in Nat
  BY GuardsBounds DEF LoopsOK, LoopsType
<1>2. PICK g : g = Append(l.history, h)
  OBVIOUS
<1>3. g \in Seq(Hashes) /\ Len(g) = Len(l.history) + 1 /\ Len(l.history) \in Nat
  BY <1>1, <1>2, AppendProperties, LenProperties
<1>4. PICK r : r = Remembered(l.history, h)
  OBVIOUS
<1>5. r = IF Len(g) > Window THEN Tail(g) ELSE g
  BY <1>2, <1>4 DEF Remembered
<1>6. r \in Seq(Hashes) /\ Len(r) <= Window
  <2>1. CASE Len(g) > Window
    <3>1. g # <<>>
      BY <1>3, EmptySeq
    <3>2. Tail(g) \in Seq(Hashes) /\ Len(Tail(g)) = Len(g) - 1
      BY <1>3, <3>1, HeadTailProperties
    <3>3. QED
      BY <1>1, <1>3, <1>5, <2>1, <3>2
  <2>2. CASE ~(Len(g) > Window)
    BY <1>1, <1>3, <1>5, <2>2
  <2>3. QED
    BY <2>1, <2>2
<1>7. PICK x : x = [l EXCEPT !.history = r]
  OBVIOUS
<1>8. x \in LoopsType /\ x.history = r
  BY <1>1, <1>6, <1>7 DEF LoopsType
<1>9. LoopsOK(x)
  BY <1>6, <1>8 DEF LoopsOK
<1>10. QED
  BY <1>4, <1>7, <1>9

LEMMA FreqOK ==
  ASSUME NEW l, LoopsOK(l), NEW calls \in Seq(AnyCall)
  PROVE  LoopsOK([l EXCEPT !.freq = FreqAfter(l, calls)])
<1>1. l \in LoopsType /\ l.freq \in [Tools -> 0 .. FreqHard] /\ Len(l.history) <= Window /\ FreqHard \in Nat
  BY GuardsBounds DEF LoopsOK, LoopsType
<1>2. ASSUME NEW t \in Tools
      PROVE  (IF l.freq[t] + Called(calls, t) > FreqHard THEN FreqHard
              ELSE l.freq[t] + Called(calls, t)) \in 0 .. FreqHard
  <2>1. l.freq[t] \in 0 .. FreqHard /\ Called(calls, t) \in Nat
    BY <1>1, CalledIsNat
  <2>2. QED
    BY <1>1, <2>1
<1>3. PICK f : f = FreqAfter(l, calls)
  OBVIOUS
<1>4. f \in [Tools -> 0 .. FreqHard]
  BY <1>2, <1>3 DEF FreqAfter
<1>5. PICK x : x = [l EXCEPT !.freq = f]
  OBVIOUS
<1>6. x \in LoopsType /\ x.history = l.history
  BY <1>1, <1>4, <1>5 DEF LoopsType
<1>7. LoopsOK(x)
  BY <1>1, <1>6 DEF LoopsOK
<1>8. QED
  BY <1>3, <1>5, <1>7

LEMMA GrownOK ==
  ASSUME NEW l, LoopsOK(l)
  PROVE  /\ \A h \in Hashes : LoopsOK([l EXCEPT !.repeated = @ \cup {h}])
         /\ \A t \in Tools : LoopsOK([l EXCEPT !.frequent = @ \cup {t}])
<1>1. l \in LoopsType /\ Len(l.history) <= Window
  BY DEF LoopsOK
<1>2. ASSUME NEW h \in Hashes PROVE LoopsOK([l EXCEPT !.repeated = @ \cup {h}])
  <2>1. PICK x : x = [l EXCEPT !.repeated = @ \cup {h}]
    OBVIOUS
  <2>2. x \in LoopsType /\ x.history = l.history
    BY <1>1, <2>1 DEF LoopsType
  <2>3. QED
    BY <1>1, <2>1, <2>2 DEF LoopsOK
<1>3. ASSUME NEW t \in Tools PROVE LoopsOK([l EXCEPT !.frequent = @ \cup {t}])
  <2>1. PICK x : x = [l EXCEPT !.frequent = @ \cup {t}]
    OBVIOUS
  <2>2. x \in LoopsType /\ x.history = l.history
    BY <1>1, <2>1 DEF LoopsType
  <2>3. QED
    BY <1>1, <2>1, <2>2 DEF LoopsOK
<1>4. QED
  BY <1>2, <1>3

\* What loop detection does to the reply and to the turn.
Judged == /\ LoopsOK(loops') /\ human' \in Texts /\ recovery' \in RecoveryType
          /\ reply' \in ReplyType /\ deferred' = deferred
          /\ recovery' = recovery \/ (reply'.warned /\ recovery'.current = FALSE)

LEMMA WarnedOK ==
  ASSUME GuardsInv, NEW text \in Texts, LoopsOK(loops'), Warned(text), deferred' = deferred
  PROVE  Judged
<1>1. human' = text /\ recovery' = [recovery EXCEPT !.current = FALSE] /\ reply' = [reply EXCEPT !.warned = TRUE]
  BY DEF Warned, Speaks
<1>2. recovery \in RecoveryType /\ reply \in ReplyType
  BY DEF GuardsInv
<1>3. recovery' \in RecoveryType /\ recovery'.current = FALSE
  BY <1>1, <1>2 DEF RecoveryType
<1>4. reply' \in ReplyType /\ reply'.warned = TRUE
  BY <1>1, <1>2 DEF ReplyType
<1>5. QED
  BY <1>1, <1>3, <1>4 DEF Judged

LEMMA StoppedOK ==
  ASSUME GuardsInv, LoopsOK(loops'), reply' = Stop, UNCHANGED <<human, recovery>>, deferred' = deferred
  PROVE  Judged
<1>1. reply \in ReplyType /\ <<>> \in Seq(AnyCall)
  BY EmptySeq DEF GuardsInv
<1>2. reply' \in ReplyType
  BY <1>1 DEF Stop, ReplyType
<1>3. QED
  BY <1>2 DEF Judged, GuardsInv

LEMMA PassedOK ==
  ASSUME GuardsInv, LoopsOK(loops'), Passed, deferred' = deferred
  PROVE  Judged
  BY DEF Judged, GuardsInv, Passed

LEMMA FrequenciesOK ==
  ASSUME GuardsInv, NEW l, LoopsOK(l), Frequencies(l), deferred' = deferred
  PROVE  Judged
<1>1. reply.calls \in Seq(AnyCall)
  BY DEF GuardsInv, ReplyType
<1>2. PICK over : over = Speaking(l, reply.calls)
  OBVIOUS
<1>3. CASE over = {}
  <2>1. loops' = [l EXCEPT !.freq = FreqAfter(l, reply.calls)] /\ Passed
    BY <1>2, <1>3 DEF Frequencies
  <2>2. LoopsOK(loops')
    BY <1>1, <2>1, FreqOK
  <2>3. QED
    BY <2>1, <2>2, PassedOK
<1>4. CASE over # {}
  <2>1. over \in SUBSET Nat /\ over \subseteq DOMAIN reply.calls
    BY <1>1, <1>2, LenProperties DEF Speaking
  <2>2. PICK i : i = CHOOSE j \in over : \A k \in over : j <= k
    OBVIOUS
  <2>3. i \in over
    BY <1>4, <2>1, <2>2, SomeLeast
  <2>4. i \in 1 .. Len(reply.calls) /\ Len(reply.calls) \in Nat
    BY <1>1, <2>1, <2>3, LenProperties
  <2>5. PICK before : before = SubSeq(reply.calls, 1, i)
    OBVIOUS
  <2>6. before \in Seq(AnyCall)
    <3>1. \A k \in 1 .. i : reply.calls[k] \in AnyCall
      BY <1>1, <2>4, ElementOfSeq
    <3>2. 1 \in Int /\ i \in Int
      BY <2>4
    <3>3. QED
      BY <2>5, <3>1, <3>2, SubSeqProperties
  <2>7. PICK t : t = reply.calls[i].tool
    OBVIOUS
  <2>8. t \in Tools /\ t \in Texts
    <3>1. reply.calls[i] \in AnyCall
      BY <1>1, <2>4, ElementOfSeq
    <3>2. QED
      BY <2>7, <3>1, CallsAreSound DEF Texts
  <2>9. PICK counted : counted = [l EXCEPT !.freq = FreqAfter(l, before)]
    OBVIOUS
  <2>10. LoopsOK(counted)
    BY <2>6, <2>9, FreqOK
  <2>11. \/ loops' = counted /\ reply' = Stop /\ UNCHANGED <<human, recovery>>
         \/ loops' = [counted EXCEPT !.frequent = @ \cup {t}] /\ Warned(t)
    BY <1>2, <1>4, <2>2, <2>5, <2>7, <2>9 DEF Frequencies
  <2>12. CASE loops' = counted /\ reply' = Stop /\ UNCHANGED <<human, recovery>>
    BY <2>10, <2>12, StoppedOK
  <2>13. CASE loops' = [counted EXCEPT !.frequent = @ \cup {t}] /\ Warned(t)
    <3>1. LoopsOK(loops')
      BY <2>8, <2>10, <2>13, GrownOK
    <3>2. QED
      BY <2>8, <2>13, <3>1, WarnedOK
  <2>14. QED
    BY <2>11, <2>12, <2>13
<1>5. QED
  BY <1>3, <1>4

LEMMA DetectionOK ==
  ASSUME GuardsInv, NEW workflow, LoopDetection(workflow),
         reply.calls # <<>> => Hash(reply.calls) \in Hashes
  PROVE  Judged
<1>1. deferred' = deferred
  BY DEF LoopDetection
<1>2. CASE reply.calls = <<>>
  <2>1. loops' = loops /\ Passed
    BY <1>2 DEF LoopDetection
  <2>2. LoopsOK(loops')
    BY <2>1 DEF GuardsInv
  <2>3. QED
    BY <1>1, <2>1, <2>2, PassedOK
<1>3. CASE reply.calls # <<>>
  <2>1. PICK h : h = Hash(reply.calls)
    OBVIOUS
  <2>2. PICK l : l = [Scoped EXCEPT !.history = Remembered(@, h)]
    OBVIOUS
  <2>3. h \in Hashes
    BY <1>3, <2>1
  <2>4. LoopsOK(l)
    BY <2>2, <2>3, ScopedOK, RememberedOK
  <2>5. /\ Verdict(l, h) = "stop" => loops' = l /\ reply' = Stop /\ UNCHANGED <<human, recovery>>
        /\ Verdict(l, h) = "warn" => loops' = [l EXCEPT !.repeated = @ \cup {h}] /\ Warned("repeating")
        /\ Verdict(l, h) = "pass" => IF workflow THEN loops' = l /\ Passed ELSE Frequencies(l)
    BY <1>3, <2>1, <2>2 DEF LoopDetection
  <2>6. Verdict(l, h) \in {"stop", "warn", "pass"}
    BY DEF Verdict
  <2>7. CASE Verdict(l, h) = "stop"
    BY <1>1, <2>4, <2>5, <2>7, StoppedOK
  <2>8. CASE Verdict(l, h) = "warn"
    <3>1. LoopsOK(loops') /\ Warned("repeating")
      BY <2>3, <2>4, <2>5, <2>8, GrownOK
    <3>2. "repeating" \in Texts
      BY DEF Texts
    <3>3. QED
      BY <1>1, <3>1, <3>2, WarnedOK
  <2>9. CASE Verdict(l, h) = "pass"
    <3>1. CASE loops' = l /\ Passed
      BY <1>1, <2>4, <3>1, PassedOK
    <3>2. CASE Frequencies(l)
      BY <1>1, <2>4, <3>2, FrequenciesOK
    <3>3. QED
      BY <2>5, <2>9, <3>1, <3>2
  <2>10. QED
    BY <2>6, <2>7, <2>8, <2>9
<1>4. QED
  BY <1>2, <1>3

-----------------------------------------------------------------------------
(* The loop: what TurnsAreGuarded says, with the facts its steps need.  A    *)
(* reply that loop detection will see has a known hash, and the reminders of *)
(* a turn are those its counters stand for.                                  *)
Pcs == {"idle", "before", "model", "loops", "recovery", "limit", "tools", "done", "failed"}
KnownReply == pc = "loops" /\ scenario.loops /\ reply.calls # <<>> => Hash(reply.calls) \in Hashes
Counted == reminded \in Nat /\ reminded <= Attempts + recovery.schema
Control == pc \in Pcs /\ scenario \in Scenarios /\ runs \in 0 .. MaxRuns /\ ran.row \in 0 .. Hard
LoopInv == WorkInv /\ GuardsInv /\ Control /\ KnownReply /\ Counted /\ BurstBounded

LEMMA CountedSame ==
  ASSUME Counted, UNCHANGED <<reminded, recovery>> PROVE Counted'
  BY DEF Counted, Attempts

\* A turn that begins without reminders.
LEMMA CountedFresh ==
  ASSUME reminded' = 0, recovery' \in RecoveryType, recovery'.current = FALSE PROVE Counted'
<1>1. recovery'.schema \in Nat
  <2>1. recovery'.schema \in 0 .. MaxSchema
    BY DEF RecoveryType
  <2>2. QED
    BY <2>1, GuardsBounds
<1>2. Attempts' = 0
  BY DEF Attempts
<1>3. QED
  BY <1>1, <1>2 DEF Counted

LEMMA SpeaksOK ==
  ASSUME GuardsInv, NEW text \in Texts, Speaks(text)
  PROVE  human' \in Texts /\ recovery' \in RecoveryType /\ recovery'.current = FALSE
<1>1. human' = text /\ recovery' = [recovery EXCEPT !.current = FALSE] /\ recovery \in RecoveryType
  BY DEF Speaks, GuardsInv
<1>2. QED
  BY <1>1 DEF RecoveryType

LEMMA GuardsSame ==
  ASSUME GuardsInv, UNCHANGED <<loops, human, recovery, deferred>>, reply' \in ReplyType PROVE GuardsInv'
  BY DEF GuardsInv

\* BurstBounded is about the point between the hooks and the tools.
LEMMA NoBurst == ASSUME pc' # "tools" PROVE BurstBounded'
  BY DEF BurstBounded

LEMMA LoopInitOK == LoopInit => LoopInv
<1> SUFFICES ASSUME LoopInit PROVE LoopInv
  OBVIOUS
<1>1. WorkInv
  <2>1. planStatus \in {"draft", "approved"} /\ status = [t \in Todos |-> "pending"] /\ phase = FreshPhase
    BY DEF LoopInit, WorkInit, PlanStatuses
  <2>2. RepeatThreshold \in Nat
    BY GraphIsAcyclic
  <2>3. PICK f : f = [t \in Todos |-> 0]
    OBVIOUS
  <2>4. f \in [Todos -> 0 .. (RepeatThreshold + 1)]
    BY <2>2, <2>3
  <2>5. phase = [seeded |-> FALSE, seen |-> {}, last |-> NoTodo, text |-> NoTodo, repeats |-> f,
                 forced |-> {}, started |-> {}, old |-> {}]
    BY <2>1, <2>3 DEF FreshPhase
  <2>6. phase \in PhaseType
    BY <2>4, <2>5 DEF PhaseType
  <2>7. QED
    BY <2>1, <2>6 DEF WorkInv, PlanStatuses, TodoStatuses, CompletedPlanIsDone
<1>2. /\ loops = NoLoops /\ human = "none" /\ recovery = NoRecovery /\ deferred = <<>> /\ reply = NoReply
      /\ scenario \in Scenarios /\ pc = "idle" /\ runs = 0 /\ reminded = 0 /\ ran = NothingRan
  BY DEF LoopInit, GuardsInit
<1>3. recovery \in RecoveryType /\ recovery.current = FALSE /\ recovery.attempts = 0 /\ recovery.schema = 0
  BY <1>2, GuardsBounds DEF NoRecovery, RecoveryType
<1>4. DeferredOK(<<>>)
  BY EmptySeq DEF DeferredOK
<1>5. GuardsInv
  BY <1>2, <1>3, <1>4, FreshLoopsOK, NoReplyTyped DEF GuardsInv, Texts
<1>6. Control
  <2>1. ran.row = 0 /\ Hard \in Nat /\ MaxRuns \in Nat
    BY <1>2, GuardsBounds, LoopBounds DEF NothingRan
  <2>2. QED
    BY <1>2, <2>1 DEF Control, Pcs
<1>7. Counted
  BY <1>2, <1>3 DEF Counted, Attempts
<1>8. QED
  BY <1>1, <1>2, <1>5, <1>6, <1>7 DEF LoopInv, KnownReply, BurstBounded

LEMMA RunOK == ASSUME LoopInv, Run, UNCHANGED scenario PROVE LoopInv'
<1>1. PICK text \in {"question", "continue"} : Speaks(text)
  BY DEF Run
<1>2. /\ pc' = "before" /\ runs < MaxRuns /\ runs' = runs + 1 /\ reply' = NoReply
      /\ reminded' = 0 /\ ran' = NothingRan /\ UNCHANGED <<work, loops, deferred>>
  BY DEF Run
<1>3. human' \in Texts /\ recovery' \in RecoveryType /\ recovery'.current = FALSE
  BY <1>1, SpeaksOK DEF LoopInv, Texts
<1>4. GuardsInv'
  BY <1>2, <1>3, NoReplyTyped DEF GuardsInv, LoopInv
<1>5. Control'
  <2>1. ran'.row = 0 /\ Hard \in Nat /\ MaxRuns \in Nat /\ runs \in 0 .. MaxRuns
    BY <1>2, GuardsBounds, LoopBounds DEF NothingRan, LoopInv, Control
  <2>2. runs' \in 0 .. MaxRuns /\ ran'.row \in 0 .. Hard
    BY <1>2, <2>1
  <2>3. QED
    BY <1>2, <2>2 DEF Control, Pcs, LoopInv
<1>6. WorkInv' /\ Counted' /\ BurstBounded'
  BY <1>2, <1>3, WorkSame, CountedFresh, NoBurst DEF LoopInv
<1>7. QED
  BY <1>2, <1>4, <1>5, <1>6 DEF LoopInv, KnownReply

LEMMA BeforeOK == ASSUME LoopInv, Before, UNCHANGED <<scenario, runs>> PROVE LoopInv'
<1>1. PICK dangling \in BOOLEAN : BeforeModel(deferred # <<>>, dangling)
  BY DEF Before
<1>2. pc' = "model" /\ UNCHANGED <<loops, human, recovery, deferred, reply, reminded, ran>>
  BY DEF Before, Goto, guards, history
<1>3. PICK b \in BOOLEAN : b = (deferred # <<>>)
  OBVIOUS
<1>4. WorkInv'
  BY <1>1, <1>3, BeforeKeeps DEF LoopInv
<1>5. GuardsInv' /\ Counted' /\ BurstBounded'
  BY <1>2, GuardsSame, CountedSame, NoBurst DEF LoopInv, GuardsInv
<1>6. QED
  BY <1>2, <1>4, <1>5 DEF LoopInv, KnownReply, Control, Pcs

\* A model's reply is one of the calls' type, and its hash is known.
LEMMA AnswersOK ==
  ASSUME WorkInv, scenario \in Scenarios, NEW r \in Answers
  PROVE  r \in ReplyType /\ (scenario.loops /\ r.calls # <<>> => Hash(r.calls) \in Hashes)
<1>1. scenario.answers \subseteq Replies /\ scenario.model \in {"any", "stuck", "obedient"}
  BY LoopBounds DEF Scenario
<1>2. CASE scenario.model = "obedient"
  <2>1. r \in Obeys
    BY <1>2 DEF Answers
  <2>2. CASE r = NoReply
    BY <2>2, NoReplyTyped
  <2>3. CASE r # NoReply
    <3>1. PICK t \in Current, s \in {"in_progress", "completed"} : r = Mark(t, s)
      BY <2>1, <2>3 DEF Obeys
    <3>2. t \in Todos
      BY DEF Current, Instruction, With, WorkInv, PhaseType
    <3>3. s \in TodoStatuses
      BY DEF TodoStatuses
    <3>4. scenario.loops => r \in Replies
      BY <1>2, <3>1, <3>2, <3>3, AnswersAssumption
    <3>5. QED
      BY <3>1, <3>2, <3>3, <3>4, MarkTyped, HashIsKnown
  <2>4. QED
    BY <2>2, <2>3
<1>3. CASE scenario.model # "obedient"
  <2>1. r \in Replies
    BY <1>1, <1>3 DEF Answers
  <2>2. QED
    BY <2>1, RepliesTyped, HashIsKnown
<1>4. QED
  BY <1>2, <1>3

LEMMA ModelOK == ASSUME LoopInv, Model, UNCHANGED <<scenario, runs>> PROVE LoopInv'
<1>1. pc' = "loops" /\ reply' \in Answers /\ UNCHANGED <<work, loops, human, recovery, deferred, reminded, ran>>
  BY DEF Model, Goto, history
<1>2. PICK r \in Answers : r = reply'
  BY <1>1
<1>3. r \in ReplyType /\ (scenario.loops /\ r.calls # <<>> => Hash(r.calls) \in Hashes)
  BY AnswersOK DEF LoopInv, Control
<1>4. KnownReply'
  <2>1. Hash(reply.calls)' = Hash(r.calls) /\ Hashes' = Hashes
    BY <1>2 DEF Hash, Hashes
  <2>2. QED
    BY <1>2, <1>3, <2>1 DEF KnownReply
<1>5. GuardsInv' /\ WorkInv' /\ Counted' /\ BurstBounded'
  BY <1>1, <1>2, <1>3, GuardsSame, WorkSame, CountedSame, NoBurst DEF LoopInv
<1>6. QED
  BY <1>1, <1>4, <1>5 DEF LoopInv, Control, Pcs

LEMMA LoopsStepOK == ASSUME LoopInv, Loops, UNCHANGED <<scenario, runs>> PROVE LoopInv'
<1>1. pc = "loops" /\ pc' = "recovery" /\ UNCHANGED <<work, ran>>
      /\ reminded' = IF reply'.warned THEN 0 ELSE reminded
  BY DEF Loops, Goto
<1>2. Judged
  <2>1. CASE scenario.loops
    <3>1. LoopDetection(scenario.workflow)
      BY <2>1 DEF Loops
    <3>2. GuardsInv /\ (reply.calls # <<>> => Hash(reply.calls) \in Hashes)
      BY <1>1, <2>1 DEF LoopInv, KnownReply
    <3>3. QED
      BY <3>1, <3>2, DetectionOK
  <2>2. CASE ~scenario.loops
    BY <2>2 DEF Loops, guards, Judged, LoopInv, GuardsInv
  <2>3. QED
    BY <2>1, <2>2
<1>3. GuardsInv'
  BY <1>2 DEF Judged, LoopInv, GuardsInv
<1>4. Counted'
  <2>1. CASE reply'.warned /\ recovery'.current = FALSE
    BY <1>1, <1>2, <2>1, CountedFresh DEF Judged
  <2>2. CASE recovery' = recovery
    <3>1. Attempts' = Attempts /\ recovery'.schema = recovery.schema
      BY <2>2 DEF Attempts
    <3>2. reminded \in Nat /\ reminded <= Attempts + recovery.schema
      BY DEF LoopInv, Counted
    <3>3. Attempts \in Nat /\ recovery.schema \in Nat
      <4>1. recovery.attempts \in 0 .. MaxRecovery /\ recovery.schema \in 0 .. MaxSchema
        BY DEF LoopInv, GuardsInv, RecoveryType
      <4>2. QED
        BY <4>1, GuardsBounds DEF Attempts
    <3>4. reminded' \in {0, reminded}
      BY <1>1
    <3>5. reminded' \in Nat /\ reminded' <= Attempts + recovery.schema
      BY <3>2, <3>3, <3>4
    <3>6. QED
      BY <3>1, <3>5 DEF Counted
  <2>3. QED
    BY <1>2, <2>1, <2>2 DEF Judged
<1>5. WorkInv' /\ BurstBounded'
  BY <1>1, WorkSame, NoBurst DEF LoopInv
<1>6. QED
  BY <1>1, <1>3, <1>4, <1>5 DEF LoopInv, KnownReply, Control, Pcs

LEMMA SendBackOK ==
  ASSUME LoopInv, SendBack, Recovers(Incomplete), reminded' = reminded + 1
  PROVE  GuardsInv' /\ Counted'
<1>1. recovery \in RecoveryType /\ MaxRecovery \in Nat /\ MaxSchema \in Nat
  BY GuardsBounds DEF LoopInv, GuardsInv
<1>2. reminded \in Nat /\ reminded <= Attempts + recovery.schema
  BY DEF LoopInv, Counted
<1>3. reply' = NoReply /\ UNCHANGED <<loops, human, deferred>>
  BY DEF SendBack
<1>4. recovery.attempts \in Nat /\ recovery.schema \in Nat /\ recovery.schema <= MaxSchema /\ Attempts \in Nat
  <2>1. recovery.attempts \in 0 .. MaxRecovery /\ recovery.schema \in 0 .. MaxSchema
    BY <1>1 DEF RecoveryType
  <2>2. QED
    BY <1>1, <2>1 DEF Attempts
<1>5. recovery' \in RecoveryType /\ reminded' <= Attempts' + recovery'.schema
  <2>1. CASE SchemaRecovery
    <3>1. recovery' = [recovery EXCEPT !.schema = @ + 1] /\ recovery.schema + 1 \in 0 .. MaxSchema
      BY <1>1, <1>4, <2>1 DEF SendBack, SchemaRecovery
    <3>2. recovery' \in RecoveryType /\ recovery'.schema = recovery.schema + 1
          /\ recovery'.attempts = recovery.attempts /\ recovery'.current = recovery.current
      BY <1>1, <3>1 DEF RecoveryType
    <3>3. Attempts' = Attempts
      BY <3>2 DEF Attempts
    <3>4. QED
      BY <1>2, <1>4, <3>2, <3>3
  <2>2. CASE ~SchemaRecovery
    <3>1. Attempts < MaxRecovery
      BY <2>2 DEF Recovers
    <3>2. recovery' = [recovery EXCEPT !.attempts = Attempts + 1, !.current = TRUE]
          /\ Attempts + 1 \in 0 .. MaxRecovery
      BY <1>1, <1>4, <2>2, <3>1 DEF SendBack
    <3>3. recovery' \in RecoveryType /\ recovery'.schema = recovery.schema
          /\ recovery'.attempts = Attempts + 1 /\ recovery'.current = TRUE
      BY <1>1, <3>2 DEF RecoveryType
    <3>4. Attempts' = Attempts + 1
      BY <3>3 DEF Attempts
    <3>5. QED
      BY <1>2, <1>4, <3>3, <3>4
  <2>3. QED
    BY <2>1, <2>2
<1>6. GuardsInv'
  BY <1>3, <1>5, NoReplyTyped DEF LoopInv, GuardsInv
<1>7. QED
  BY <1>2, <1>5, <1>6 DEF Counted

LEMMA RecoveryOK == ASSUME LoopInv, Recovery, UNCHANGED <<scenario, runs>> PROVE LoopInv'
<1>1. UNCHANGED <<work, ran>>
  BY DEF Recovery
<1>2. CASE Recovers(Incomplete) /\ SendBack /\ pc' = "before" /\ reminded' = reminded + 1
  BY <1>1, <1>2, SendBackOK, WorkSame, NoBurst DEF LoopInv, KnownReply, Control, Pcs
<1>3. CASE UNCHANGED guards /\ pc' = "limit" /\ UNCHANGED reminded
  <2>1. UNCHANGED <<loops, human, recovery, deferred, reply>>
    BY <1>3 DEF guards
  <2>2. GuardsInv' /\ Counted' /\ BurstBounded'
    BY <1>3, <2>1, GuardsSame, CountedSame, NoBurst DEF LoopInv, GuardsInv
  <2>3. QED
    BY <1>1, <1>3, <2>2, WorkSame DEF LoopInv, KnownReply, Control, Pcs
<1>4. QED
  BY <1>2, <1>3 DEF Recovery

\* Both limits hold for the calls of a reply.
Limited(calls) == /\ Cardinality(TasksIn(calls)) <= MaxConcurrent
                  /\ Cardinality(PrimariesIn(calls)) <= MaxPrimary

LEMMA LimitKeeps ==
  ASSUME GuardsInv, SubagentLimit
  PROVE  GuardsInv' /\ (~reply'.warned => Limited(reply'.calls))
<1>1. UNCHANGED <<loops, human, recovery>>
  BY DEF SubagentLimit
<1>2. CASE reply.warned
  <2>1. UNCHANGED <<deferred, reply>>
    BY <1>2 DEF SubagentLimit
  <2>2. QED
    BY <1>1, <1>2, <2>1 DEF GuardsInv
<1>3. CASE ~reply.warned
  <2>1. deferred \in Seq(AnyCall) /\ reply \in ReplyType
    BY DEF GuardsInv, DeferredOK
  <2>2. PICK calls, fresh : calls = deferred \o fresh /\ fresh = reply.calls
    OBVIOUS
  <2>3. fresh \in Seq(AnyCall) /\ calls \in Seq(AnyCall)
    <3>1. fresh \in Seq(AnyCall)
      BY <2>1, <2>2 DEF ReplyType
    <3>2. QED
      BY <2>1, <2>2, <3>1, ConcatProperties
  <2>4. PICK p : p = Split(calls)
    OBVIOUS
  <2>5. Placed(p, Len(calls), calls)
    BY <2>3, <2>4, SplitIsSound
  <2>6. p.kept \in Seq(AnyCall) /\ p.later \in Seq(AnyCall)
    BY <2>5 DEF Placed, AccType
  <2>7. DeferredOK(p.later) /\ Limited(p.kept)
    BY <2>5, <2>6 DEF Placed, DeferredOK, Limited
  <2>8. deferred' = p.later /\ reply' = IF p.later = <<>> THEN reply ELSE [reply EXCEPT !.calls = p.kept]
    BY <1>3, <2>2, <2>4 DEF SubagentLimit
  <2>9. CASE p.later = <<>>
    <3>1. reply' = reply
      BY <2>8, <2>9
    <3>2. p.kept = calls
      <4>1. Len(p.kept) = Len(calls) /\ \A i \in 1 .. Len(calls) : p.kept[i] = calls[i]
        BY <2>5, <2>9 DEF Placed
      <4>2. QED
        BY <2>3, <2>6, <4>1, SeqEqual
    <3>3. Limited(fresh)
      <4>1. /\ Cardinality(TasksIn(fresh)) <= Cardinality(TasksIn(calls))
            /\ Cardinality(PrimariesIn(fresh)) <= Cardinality(PrimariesIn(calls))
        BY <2>1, <2>2, <2>3, SuffixCounts
      <4>2. /\ Cardinality(TasksIn(calls)) <= MaxConcurrent /\ Cardinality(PrimariesIn(calls)) <= MaxPrimary
        BY <2>7, <3>2 DEF Limited
      <4>3. /\ Cardinality(TasksIn(fresh)) \in Nat /\ Cardinality(TasksIn(calls)) \in Nat
            /\ Cardinality(PrimariesIn(fresh)) \in Nat /\ Cardinality(PrimariesIn(calls)) \in Nat
            /\ MaxConcurrent \in Nat /\ MaxPrimary \in Nat
        BY <2>3, CountsFinite, GuardsBounds
      <4>4. QED
        BY <4>1, <4>2, <4>3 DEF Limited
    <3>4. QED
      BY <1>1, <2>2, <2>7, <2>8, <3>1, <3>3 DEF GuardsInv
  <2>10. CASE p.later # <<>>
    <3>1. reply' = [reply EXCEPT !.calls = p.kept]
      BY <2>8, <2>10
    <3>2. reply' \in ReplyType /\ reply'.calls = p.kept
      BY <2>1, <2>6, <3>1 DEF ReplyType
    <3>3. QED
      BY <1>1, <2>7, <2>8, <3>2 DEF GuardsInv
  <2>11. QED
    BY <2>9, <2>10
<1>4. QED
  BY <1>2, <1>3

LEMMA LimitOK == ASSUME LoopInv, Limit, UNCHANGED <<scenario, runs>> PROVE LoopInv'
<1>1. SubagentLimit /\ UNCHANGED <<work, reminded, ran>> /\ pc' \in {"done", "tools"}
  BY DEF Limit, history
<1>2. UNCHANGED recovery
  BY <1>1 DEF SubagentLimit
<1>3. GuardsInv' /\ (~reply'.warned => Limited(reply'.calls))
  BY <1>1, LimitKeeps DEF LoopInv
<1>4. BurstBounded'
  <2>1. PICK calls : calls = reply'.calls
    OBVIOUS
  <2>2. ~reply'.warned => /\ Cardinality({i \in DOMAIN calls : IsTask(calls[i])}) <= MaxConcurrent
                          /\ Cardinality({i \in {j \in DOMAIN calls : IsTask(calls[j])} : calls[i].primary})
                               <= MaxPrimary
    BY <1>3, <2>1 DEF Limited, TasksIn, PrimariesIn
  <2>3. QED
    BY <2>1, <2>2 DEF BurstBounded, IsTask
<1>5. WorkInv' /\ Counted'
  BY <1>1, <1>2, WorkSame, CountedSame DEF LoopInv
<1>6. QED
  BY <1>1, <1>3, <1>4, <1>5 DEF LoopInv, KnownReply, Control, Pcs

LEMMA ToolsOK == ASSUME LoopInv, RunTools, UNCHANGED <<scenario, runs>> PROVE LoopInv'
<1>1. /\ pc' \in {"failed", "before"} /\ ran' = Executed /\ reply' = NoReply
      /\ UNCHANGED <<loops, human, recovery, deferred, reminded>>
  BY DEF RunTools
<1>2. WorkInv'
  <2>1. CASE UNCHANGED work
    BY <2>1, WorkSame DEF LoopInv
  <2>2. CASE \E i \in Updates : WriteTodos(reply.calls[i].arg[1], reply.calls[i].arg[2])
    <3>1. PICK i \in Updates : WriteTodos(reply.calls[i].arg[1], reply.calls[i].arg[2])
      BY <2>2
    <3>2. reply.calls \in Seq(AnyCall) /\ i \in DOMAIN reply.calls /\ reply.calls[i].tool = "write_todos"
      BY DEF Updates, LoopInv, GuardsInv, ReplyType
    <3>3. PICK c \in AnyCall : c = reply.calls[i]
      BY <3>2, ElementOfSeq, LenProperties
    <3>4. c.arg[1] \in Todos /\ c.arg[2] \in TodoStatuses
      BY <3>2, <3>3, CallsAreSound
    <3>5. PICK t \in Todos, s \in TodoStatuses : t = c.arg[1] /\ s = c.arg[2]
      BY <3>4
    <3>6. QED
      BY <3>1, <3>3, <3>5, WriteKeeps DEF LoopInv
  <2>3. QED
    BY <2>1, <2>2 DEF RunTools
<1>3. ran'.row \in 0 .. Hard
  <2>1. ran.row \in 0 .. Hard /\ Hard \in Nat \ {0}
    BY GuardsBounds DEF LoopInv, Control
  <2>2. PICK n : n = IF Hash(reply.calls) # ran.last THEN 1
                     ELSE IF ran.row = Hard THEN Hard ELSE ran.row + 1
    OBVIOUS
  <2>3. n \in 0 .. Hard
    BY <2>1, <2>2
  <2>4. ran'.row = n
    BY <1>1, <2>2 DEF Executed
  <2>5. QED
    BY <2>3, <2>4
<1>4. GuardsInv' /\ Counted' /\ BurstBounded'
  BY <1>1, GuardsSame, NoReplyTyped, CountedSame, NoBurst DEF LoopInv
<1>5. QED
  BY <1>1, <1>2, <1>3, <1>4 DEF LoopInv, KnownReply, Control, Pcs

LEMMA StoppedStepOK == ASSUME LoopInv, Stopped, UNCHANGED <<scenario, runs>> PROVE LoopInv'
<1>1. /\ pc' = "idle" /\ reply' = NoReply /\ loops' \in {loops, NoLoops}
      /\ UNCHANGED <<work, human, recovery, deferred, reminded, ran>>
  BY DEF Stopped, history
<1>2. LoopsOK(loops')
  BY <1>1, FreshLoopsOK DEF LoopInv, GuardsInv
<1>3. GuardsInv' /\ WorkInv' /\ Counted' /\ BurstBounded'
  BY <1>1, <1>2, NoReplyTyped, WorkSame, CountedSame, NoBurst DEF LoopInv, GuardsInv
<1>4. QED
  BY <1>1, <1>3 DEF LoopInv, KnownReply, Control, Pcs

LEMMA QuietOK ==
  ASSUME LoopInv, UNCHANGED <<guards, history, pc, scenario, runs>>, WorkInv' PROVE LoopInv'
<1>1. UNCHANGED <<loops, human, recovery, deferred, reply, reminded, ran, pc, scenario, runs>>
  BY DEF guards, history
<1>2. GuardsInv' /\ Counted' /\ Control'
  BY <1>1, GuardsSame, CountedSame DEF LoopInv, GuardsInv, Control
<1>3. KnownReply' /\ BurstBounded'
  BY <1>1 DEF LoopInv, KnownReply, BurstBounded, Hash, Hashes, IsTask
<1>4. QED
  BY <1>2, <1>3 DEF LoopInv

LEMMA LoopStep == LoopInv /\ [LoopNext]_loopVars => LoopInv'
<1> SUFFICES ASSUME LoopInv, [LoopNext]_loopVars PROVE LoopInv'
  OBVIOUS
<1>1. CASE Run /\ UNCHANGED scenario
  BY <1>1, RunOK
<1>2. CASE Step /\ UNCHANGED <<scenario, runs>>
  BY <1>2, BeforeOK, ModelOK, LoopsStepOK, RecoveryOK, LimitOK, ToolsOK DEF Step
<1>3. CASE Stopped /\ UNCHANGED <<scenario, runs>>
  BY <1>3, StoppedStepOK
<1>4. CASE Time /\ UNCHANGED <<scenario, runs>>
  BY <1>4, MinuteKeeps, QuietOK DEF Time, LoopInv
<1>5. CASE UNCHANGED loopVars
  BY <1>5, WorkSame, QuietOK DEF loopVars, LoopInv
<1>6. QED
  BY <1>1, <1>2, <1>3, <1>4, <1>5 DEF LoopNext, Outside

LEMMA LoopInvIsEnough == LoopInv => TurnsAreGuarded
<1> SUFFICES ASSUME LoopInv PROVE TurnsAreGuarded
  OBVIOUS
<1>1. LoopTypeOK
  <2>1. WorkTypeOK /\ GuardsTypeOK
    BY WorkTyped, GuardsTyped DEF LoopInv
  <2>2. scenario \in Scenario
    BY LoopBounds DEF LoopInv, Control
  <2>3. QED
    BY <2>1, <2>2 DEF LoopTypeOK, LoopInv, Control, Counted, Pcs
<1>2. RecoveryBounded
  <2>1. reminded \in Nat /\ reminded <= Attempts + recovery.schema
    BY DEF LoopInv, Counted
  <2>2. recovery.attempts \in 0 .. MaxRecovery /\ recovery.schema \in 0 .. MaxSchema
    BY DEF LoopInv, GuardsInv, RecoveryType
  <2>3. QED
    BY <2>1, <2>2, GuardsBounds DEF RecoveryBounded, Attempts
<1>3. QED
  BY <1>1, <1>2 DEF TurnsAreGuarded, LoopInv, WorkInv

\* The guards of the lead agent's turns hold in every scenario, for any todo
\* graph, tools, replies and limits: a completed plan has no open todo, a turn is
\* not sent back beyond its bounds, and no burst of task calls exceeds its limits
\* (todo_failure_retry_middleware.py:20-21, subagent_limit_middleware.py:82-93).
THEOREM TurnsStayGuarded == LoopSpec => []TurnsAreGuarded
<1>1. LoopSpec => []LoopInv
  BY LoopInitOK, LoopStep, PTL DEF LoopSpec
<1>2. QED
  BY <1>1, LoopInvIsEnough, PTL
=============================================================================
