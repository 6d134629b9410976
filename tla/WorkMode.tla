------------------------------- MODULE WorkMode -------------------------------
(* The driver of Work Mode: before each model call of a run it looks at the  *)
(* todo graph, hands the next ready todo to the model, and ends the plan     *)
(* (backend/src/agents/middlewares: work_mode_middleware.py,                 *)
(* todo_dag_middleware.py; tools/builtins/write_todos_tool.py,               *)
(* handoff_sync.py).  The events of the UI are left out.                     *)
EXTENDS Integers, Sequences, FiniteSets

CONSTANTS Order,           \* the ids of the todos, in the order of the nodes
          Deps,            \* depends_on: acyclic
          RepeatThreshold  \* _WORK_MODE_REPEAT_THRESHOLD

Todos == {Order[i] : i \in DOMAIN Order}
NoTodo == "none"
ASSUME GraphIsAcyclic ==
  /\ Order \in Seq(Todos) /\ NoTodo \notin Todos /\ RepeatThreshold \in Nat
  /\ Deps \in [Todos -> SUBSET Todos]
  /\ \A S \in (SUBSET Todos) \ {{}} : \E t \in S : Deps[t] \cap S = {}

VARIABLES planStatus, \* plan["status"]
          status,     \* of each node of todo_graph
          phase       \* phase_execution

work == <<planStatus, status, phase>>

PlanStatuses == {"draft", "approved", "executing", "completed"}
TodoStatuses == {"pending", "in_progress", "completed", "blocked"}
WorkTypeOK ==
  /\ planStatus \in PlanStatuses
  /\ status \in [Todos -> TodoStatuses]
  /\ phase \in [seeded : BOOLEAN, seen : SUBSET Todos,      \* completed_snapshot_ids
                last : Todos \cup {NoTodo}, text : Todos \cup {NoTodo},
                repeats : [Todos -> 0..(RepeatThreshold + 1)], forced : SUBSET Todos,
                started : SUBSET Todos, old : SUBSET Todos] \* in_progress_started_at

FreshPhase == [seeded |-> FALSE, seen |-> {}, last |-> NoTodo, text |-> NoTodo,
               repeats |-> [t \in Todos |-> 0], forced |-> {}, started |-> {}, old |-> {}]
WorkInit == /\ planStatus \in PlanStatuses \ {"executing", "completed"}
            /\ status = [t \in Todos |-> "pending"] /\ phase = FreshPhase

With(st, s) == {t \in Todos : st[t] = s}
IncompleteTodos == Todos \ With(status, "completed")

(* _materialize_ready_ids; a question that blocks a todo is not looked at    *)
Ready(st) == {t \in Todos : /\ st[t] \notin {"completed", "blocked"}
                            /\ Deps[t] \subseteq With(st, "completed")}
PendingReady(st) == Ready(st) \ With(st, "in_progress")
First(S) == Order[CHOOSE i \in DOMAIN Order :
                    Order[i] \in S /\ \A j \in 1..(i - 1) : Order[j] \notin S]

(* The grace period of a todo in progress runs from its instruction.         *)
Stale == {t \in With(status, "in_progress") : t \notin phase.started \ phase.old}
Heals(deferrals) == ~deferrals /\ planStatus \in {"approved", "executing"}
Healed(deferrals) == [t \in Todos |-> IF Heals(deferrals) /\ t \in Stale THEN "pending"
                                                                        ELSE status[t]]

NewlyCompleted == IF phase.seeded THEN With(status, "completed") \ phase.seen ELSE {}
Cleared == [phase EXCEPT !.seeded = TRUE, !.seen = With(status, "completed"), !.text = NoTodo]

\* Mutant: a plan that is under way is not driven on.
DrivenOnce == Todos # {} /\ planStatus \in {"approved", "completed"}

Driven == Todos # {} /\ planStatus # "draft"

(* Nothing is ready and nothing is in progress: the user is told.            *)
Stalls(st) == /\ PendingReady(st) = {} /\ With(st, "in_progress") = {}
              /\ With(st, "completed") # Todos
Adapt(st) == /\ Stalls(st)
             /\ phase' = [phase EXCEPT !.text = NoTodo]
             /\ UNCHANGED <<planStatus, status>>

Wait(st) == /\ PendingReady(st) = {} /\ With(st, "in_progress") # {}
            /\ phase' = IF phase.text # NoTodo THEN Cleared ELSE phase
            /\ UNCHANGED <<planStatus, status>>

CompletePlan(st) ==
  /\ With(st, "completed") = Todos
  /\ IF planStatus \in {"approved", "executing"}
     THEN planStatus' = "completed" /\ phase' = Cleared
     ELSE planStatus' = planStatus /\ phase' = (IF phase.text # NoTodo THEN Cleared ELSE phase)
  /\ UNCHANGED status

(* The next instruction: to do the todo or, once per todo, to reconcile it.  *)
Instruct(st, dangling) ==
  /\ PendingReady(st) # {}
  /\ LET t == First(PendingReady(st))
         count == IF phase.last # t THEN 1
                  ELSE IF phase.repeats[t] > RepeatThreshold THEN phase.repeats[t]
                  ELSE phase.repeats[t] + 1
         force == (count > RepeatThreshold \/ dangling) /\ t \notin phase.forced
     IN  phase' = [phase EXCEPT
           !.seeded = TRUE, !.seen = With(st, "completed"), !.last = t, !.text = t,
           !.repeats = [r \in Todos |-> IF r \in NewlyCompleted THEN 0
                                        ELSE IF r = t THEN count ELSE @[r]],
           !.forced = (IF force THEN @ \cup {t} ELSE @) \ NewlyCompleted,
           !.started = (@ \ NewlyCompleted) \cup {t},
           !.old = @ \ NewlyCompleted]
  /\ status' = st
  /\ planStatus' = IF planStatus = "approved" THEN "executing" ELSE planStatus

BeforeModel(deferrals, dangling) ==
  IF ~Driven THEN UNCHANGED work
  ELSE LET st == Healed(deferrals)
       IN  Adapt(st) \/ Wait(st) \/ CompletePlan(st) \/ Instruct(st, dangling)

(* What the model is told to do: _ephemeral_work_instruction.                *)
Instruction == IF phase.text = NoTodo THEN NoTodo
               ELSE IF status[phase.text] \in {"completed", "blocked"} THEN NoTodo
               ELSE phase.text

(* The tool: a patch of one todo; the graph of a completed plan is frozen.   *)
WriteTodos(t, s) ==
  /\ status' = IF planStatus = "completed" THEN status ELSE [status EXCEPT ![t] = s]
  /\ UNCHANGED <<planStatus, phase>>

(* A minute passes: the stamps of _IN_PROGRESS_SELF_HEAL_GRACE_SECONDS.      *)
MinutePasses == /\ phase.old # phase.started
                /\ phase' = [phase EXCEPT !.old = phase.started]
                /\ UNCHANGED <<planStatus, status>>
=============================================================================
