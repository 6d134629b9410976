----------------------------- MODULE MCAgentLoop -----------------------------
(* The lead agent's runs on one thread, as agents/work_agent/agent.py puts   *)
(* them together: the driver of Work Mode before the model, the guards after *)
(* it, the tools, and again.  A run may be stopped at any step (the user,    *)
(* the server); the thread's state stays, and so do the counters of the      *)
(* process unless it is a new one.                                           *)
EXTENDS WorkMode, RunGuards

CONSTANTS Scenarios,    \* the model and the thread: see Scenario
          MaxRuns,      \* bound: runs of the thread
          MaxDeferred   \* bound: task calls waiting when the model adds more

Scenario == [model : {"any", "stuck", "obedient"},  \* how the model answers
             answers : SUBSET Replies,              \* one for ever, or any of them
             loops : BOOLEAN,                       \* loop_detection.enabled
             workflow : BOOLEAN,                    \* a workflow skill is active
             plan : {"draft", "approved"}]
Mark(t, s) == [calls |-> <<[tool |-> "write_todos", arg |-> <<t, s>>, primary |-> FALSE]>>,
               warned |-> FALSE, invalid |-> FALSE]
ASSUME LoopBounds == /\ Scenarios \subseteq Scenario /\ {MaxRuns, MaxDeferred} \subseteq Nat
                     /\ "write_todos" \in Tools /\ "task" \in Tools

\* What a model may answer: updates of todos that there are; and Replies are all of it.
ASSUME AnswersAssumption ==
  /\ \A c \in Calls : c.tool = "write_todos" => c.arg[1] \in Todos /\ c.arg[2] \in TodoStatuses
  /\ \A s \in Scenarios : s.model = "obedient" /\ s.loops
                           => {Mark(t, x) : t \in Todos, x \in TodoStatuses} \subseteq Replies

VARIABLES pc,         \* where the run is in the agent's graph
          runs,       \* so far
          scenario,   \* chosen once
          reminded,   \* reminders since the latest human message without a name
          ran         \* the calls executed last, and how often in a row in this run

history == <<reminded, ran>>
loopVars == <<work, guards, history, pc, scenario, runs>>

LoopTypeOK ==
  /\ WorkTypeOK /\ GuardsTypeOK
  /\ pc \in {"idle", "before", "model", "loops", "recovery", "limit", "tools", "done", "failed"}
  /\ scenario \in Scenario /\ runs \in 0..MaxRuns
  /\ reminded \in Nat /\ ran.row \in 0..Hard

NothingRan == [last |-> Hash(<<>>), row |-> 0]
LoopInit == /\ scenario \in Scenarios
            /\ WorkInit /\ planStatus = scenario.plan /\ GuardsInit
            /\ pc = "idle" /\ runs = 0 /\ reminded = 0 /\ ran = NothingRan

Goto(from, to) == pc = from /\ pc' = to

(* A user's message starts a run.                                            *)
Active == pc \notin {"idle", "done", "failed"}
Run == /\ ~Active /\ pc' = "before" /\ runs < MaxRuns /\ runs' = runs + 1
       /\ \E text \in {"question", "continue"} : Speaks(text)
       /\ reply' = NoReply
       /\ reminded' = 0 /\ ran' = NothingRan
       /\ UNCHANGED <<work, loops, deferred>>

Before == /\ Goto("before", "model")
          /\ \E dangling \in BOOLEAN : /\ dangling => runs > 1
                                       /\ BeforeModel(deferred # <<>>, dangling)
          /\ UNCHANGED <<guards, history>>

(* What a model answers that does what Work Mode tells it: it marks the todo *)
(* as in progress, works, and marks it as completed; without an instruction  *)
(* it goes on with what is in progress.                                      *)
Current == IF Instruction # NoTodo THEN {Instruction} ELSE With(status, "in_progress")
Obeys == IF Current = {} THEN {NoReply}
         ELSE {Mark(t, s) : t \in Current, s \in {"in_progress", "completed"}}
Answers == CASE scenario.model = "obedient" -> Obeys
             [] scenario.model = "stuck" -> scenario.answers
             [] scenario.model = "any" ->
                  {r \in scenario.answers : Len(deferred) <= MaxDeferred
                                            \/ ~\E i \in DOMAIN r.calls : IsTask(r.calls[i])}

Model == /\ Goto("model", "loops")
         /\ reply' \in Answers
         /\ UNCHANGED <<work, loops, human, recovery, deferred, history>>

Loops == /\ Goto("loops", "recovery")
         /\ IF scenario.loops THEN LoopDetection(scenario.workflow) ELSE UNCHANGED guards
         /\ reminded' = (IF reply'.warned THEN 0 ELSE reminded)
         /\ UNCHANGED <<work, ran>>

Incomplete == Todos # {} /\ IncompleteTodos # {}
Recovery ==
  /\ pc = "recovery"
  /\ \/ /\ Recovers(Incomplete) /\ SendBack
        /\ pc' = "before" /\ reminded' = reminded + 1
     \/ /\ ~Recovers(Incomplete) /\ UNCHANGED guards
        /\ pc' = "limit" /\ UNCHANGED reminded
  /\ UNCHANGED <<work, ran>>

(* The last of the hooks; then the pending calls of the reply, if any.       *)
Limit == /\ pc = "limit" /\ SubagentLimit
         /\ pc' = IF reply'.calls = <<>> THEN "done" ELSE "tools"
         /\ UNCHANGED <<work, history>>

(* The tools of a reply run side by side on one state of the thread: two     *)
(* updates of the graph are refused by LangGraph, and the run fails.         *)
Updates == {i \in DOMAIN reply.calls : reply.calls[i].tool = "write_todos"}
Executed == LET h == Hash(reply.calls)
            IN  [last |-> h, row |-> IF h # ran.last THEN 1
                                     ELSE IF ran.row = Hard THEN Hard ELSE ran.row + 1]
RunTools ==
  /\ pc = "tools" /\ pc' = IF Cardinality(Updates) > 1 THEN "failed" ELSE "before"
  /\ IF Cardinality(Updates) = 1
     THEN \E i \in Updates : WriteTodos(reply.calls[i].arg[1], reply.calls[i].arg[2])
     ELSE UNCHANGED work
  /\ ran' = Executed
  /\ reply' = NoReply
  /\ UNCHANGED <<loops, human, recovery, deferred, reminded>>

Stopped == /\ Active /\ pc' = "idle" /\ reply' = NoReply
           /\ loops' \in {loops, NoLoops}
           /\ UNCHANGED <<work, human, recovery, deferred, history>>

Time == MinutePasses /\ UNCHANGED <<guards, history, pc>>

Step == Before \/ Model \/ Loops \/ Recovery \/ Limit \/ RunTools
Outside == Stopped \/ Time
LoopNext == UNCHANGED scenario /\ (Run \/ ((Step \/ Outside) /\ UNCHANGED runs))

(* The agent's graph goes on by itself; a model asked to do a todo marks it  *)
(* as completed sooner or later.                                             *)
Completes == Model /\ \E t \in Todos : reply' = Mark(t, "completed")
LoopFairness == /\ WF_loopVars(Step /\ UNCHANGED <<runs, scenario>>)
                /\ SF_loopVars(Completes /\ UNCHANGED <<runs, scenario>>)
LoopSpec == LoopInit /\ [][LoopNext]_loopVars /\ LoopFairness
-----------------------------------------------------------------------------
(* Nobody can take back a plan that was reported as completed: all its todos *)
(* are (work_mode_middleware.py:375-399, write_todos_tool.py:218-229).       *)
CompletedPlanIsDone == planStatus = "completed" => IncompleteTodos = {}

(* A turn is sent back to the model no more often than the limits say, over  *)
(* restarts and new questions (todo_failure_retry_middleware.py:20-21); the  *)
(* warning of loop detection begins a new turn.                              *)
RecoveryBounded == reminded <= MaxRecovery + MaxSchema

(* The limits on subagents hold for what is executed, deferred calls         *)
(* included, except for a reply that loop detection has warned about: the    *)
(* reply is then not the last message (subagent_limit_middleware.py:82-93).  *)
BurstBounded ==
  pc = "tools" /\ ~reply.warned =>
    LET tasks == {i \in DOMAIN reply.calls : IsTask(reply.calls[i])}
    IN  /\ Cardinality(tasks) <= MaxConcurrent
        /\ Cardinality({i \in tasks : reply.calls[i].primary}) <= MaxPrimary

(* A model that gives the same answer for ever, or only does as it is told,  *)
(* does not keep a run going: loop detection and the bound on recoveries end *)
(* it without LangGraph's recursion limit (loop_detection_middleware.py:3-4).*)
(* Not so when an answer calls one tool so often that the warnings of the    *)
(* two layers take turns: each starts the counting of the other again.       *)
Modest == \A r \in scenario.answers, t \in Tools : (Hard - 2) * Called(r.calls, t) < FreqWarn
RunEnds == scenario.model # "any" /\ Modest => <>[]~Active

(* With a model that does as it is told, Work Mode ends an approved plan,    *)
(* whatever run was stopped with a todo in progress, if only a run goes on   *)
(* (work_mode_middleware.py:236-266, 375-414).                               *)
PlanFinishes ==
  scenario.model = "obedient" /\ scenario.plan = "approved" =>
    <>(planStatus = "completed") \/ <>[](pc = "idle")

(* loop_detection_middleware.py:12-14: "At hard_limit, strip all tool_calls  *)
(* from the AIMessage so the agent is forced to produce a final text         *)
(* answer."                                                                  *)
HardLimit == ran.row < Hard

\* The guards of a turn hold: what is done stays done, and nothing is sent back
\* or delegated beyond its bound.
TurnsAreGuarded == LoopTypeOK /\ CompletedPlanIsDone /\ RecoveryBounded /\ BurstBounded

\* A run comes to its end, and an approved plan to its own.
TurnsEnd == RunEnds /\ PlanFinishes
-----------------------------------------------------------------------------
(* Its instance for TLC: three todos, the third waiting for the first two;  *)
(* models that repeat themselves, that do as they are told, and that answer *)
(* anything.                                                                 *)

Call(tool, arg, primary) == [tool |-> tool, arg |-> arg, primary |-> primary]
Says(calls, invalid) == [calls |-> calls, warned |-> FALSE, invalid |-> invalid]

TheOrder == <<"a", "b", "c">>
TheDeps == [t \in {"a", "b", "c"} |-> IF t = "c" THEN {"a", "b"} ELSE {}]
TheTools == {"write_todos", "task", "search"}

Search == Call("search", <<"q">>, FALSE)
Code == Call("task", <<"code">>, TRUE)
Helper == Call("task", <<"bash">>, FALSE)
Patch(t, s) == Call("write_todos", <<t, s>>, FALSE)

Silent == Says(<<>>, FALSE)
Confused == Says(<<>>, TRUE)
Searches == Says(<<Search>>, FALSE)
Fans == Says(<<Code, Code, Helper, Helper>>, FALSE)
Delegates == Says(<<Search, Code>>, FALSE)
Begins == Says(<<Patch("a", "in_progress")>>, FALSE)
Finishes == Says(<<Patch("a", "completed")>>, FALSE)
Reopens == Says(<<Patch("a", "pending")>>, FALSE)
Blocks == Says(<<Patch("b", "blocked")>>, FALSE)
FinishesB == Says(<<Patch("b", "completed")>>, FALSE)
FinishesC == Says(<<Patch("c", "completed")>>, FALSE)
TwoUpdates == Says(<<Patch("a", "completed"), Patch("b", "completed")>>, FALSE)
AllReplies == {Silent, Confused, Searches, Fans, Delegates, Begins, Finishes, Reopens, Blocks, TwoUpdates,
               FinishesB, FinishesC}

Scene(model, answers, loop, workflow, draft) ==
  [model |-> model, answers |-> answers, loops |-> loop, workflow |-> workflow, plan |-> draft]
AllScenarios ==
  {Scene("stuck", {r}, TRUE, w, p) : r \in AllReplies, w \in BOOLEAN, p \in {"draft", "approved"}}
  \cup {Scene("obedient", {}, FALSE, FALSE, "approved"),
        Scene("any", {Silent, Confused, Searches}, TRUE, FALSE, "draft"),
        Scene("any", {Silent, Fans, Delegates}, TRUE, FALSE, "draft"),
        Scene("any", {Silent, Begins, Blocks, TwoUpdates}, FALSE, FALSE, "approved"),
        Scene("any", {Finishes, FinishesB, FinishesC, Reopens}, FALSE, FALSE, "approved")}
=============================================================================
