--------------------------- MODULE MiddlewareOrder ---------------------------
(* How an agent is put together: the registry of middlewares with their      *)
(* dependencies, its topological sort, the factories that leave one out, and *)
(* the thresholds of compaction (agents/common/middleware_registry.py,       *)
(* agents/work_agent/agent.py).  The first of the order is the outermost.    *)
EXTENDS Integers, Sequences, FiniteSets, Functions

CONSTANTS MwNames,   \* names of the small registries, some of those below
          MwListed,  \* bound: specs in a small registry
          Windows,   \* context windows a model or a setting may name; 0 is none
          Triggers,  \* trigger settings, each a set of <<kind, value>>
          Keeps      \* keep settings, each <<kind, value>>

ASSUME MiddlewareAssumption == MwListed \in Nat /\ Windows \subseteq Nat

VARIABLES specs,   \* the registry, a sequence of [name, after, before]
          degree,  \* name -> dependencies not yet placed
          queue,   \* names that may be placed next
          order,   \* names placed
          built,   \* no, sorting, duplicate, unknown, cycle, sorted, assembled
          agent    \* [chain, triggers, keep, from]: what was assembled, and from what

assembly == <<specs, degree, queue, order, built, agent>>

Spec3(name, after, before) == [name |-> name, after |-> after, before |-> before]

\* _build_middleware_registry's list, and with the harness switched off the part of
\* it that is left, with the dependencies inside that part.
Chain(names) == [i \in 1 .. Len(names) - 1 |-> Spec3(names[i + 1], {names[i]}, {})]
Fan(root, names) == [i \in 1 .. Len(names) |-> Spec3(names[i], {root}, {})]

BeforeClarification ==
  {"metrics", "permissions", "memory", "subagent_limit", "loop_detection", "recursion_pivot",
   "evaluator", "execution_trace", "activity_timeline"}

WorkAgentSpecs ==
  <<Spec3("thread_data", {}, {}), Spec3("steering", {"thread_data"}, {"uploads"})>>
  \o Fan("thread_data", <<"uploads", "sandbox", "trajectory">>)
  \o <<Spec3("mount_folder", {"uploads", "thread_data"}, {})>>
  \o Fan("sandbox", <<"autoresearch", "write_file_artifact", "dangling_tool_call">>)
  \o Fan("dangling_tool_call", <<"work_mode", "permissions", "summarization">>)
  \o Chain(<<"permissions", "tool_disclosure", "hooks">>)
  \o Chain(<<"summarization", "skill_disclosure", "planner", "plan_evaluator", "todo", "title",
             "question_generation", "memory", "view_image", "retry", "model_timeout",
             "web_search_circuit_breaker", "tool_result_truncation", "web_search_summary">>)
  \o <<Spec3("subagent_limit", {"retry", "model_timeout", "tool_result_truncation"}, {})>>
  \o Chain(<<"subagent_limit", "evaluator", "todo_failure_retry", "scratchpad_task_memory",
             "plan_file_sync", "resume_state">>)
  \o <<Spec3("plan_followup", {"resume_state", "evaluator"}, {})>>
  \o Chain(<<"plan_followup", "loop_detection", "recursion_pivot">>)
  \o <<Spec3("execution_trace", {"trajectory", "loop_detection"}, {})>>
  \o Chain(<<"execution_trace", "activity_timeline", "metrics">>)
  \o <<Spec3("clarification", BeforeClarification, {})>>

\* The tie-break by name, as far as ties come about.
Alphabet ==
  <<"activity_timeline", "autoresearch", "clarification", "dangling_tool_call", "evaluator",
    "execution_trace", "hooks", "loop_detection", "memory", "metrics", "model_timeout",
    "mount_folder", "permissions", "plan_evaluator", "plan_file_sync", "plan_followup",
    "planner", "question_generation", "recursion_pivot", "resume_state", "retry", "sandbox",
    "scratchpad_task_memory", "skill_disclosure", "steering", "subagent_limit",
    "summarization", "thread_data", "title", "todo", "todo_failure_retry", "tool_disclosure",
    "tool_result_truncation", "trajectory", "uploads", "view_image",
    "web_search_circuit_breaker", "web_search_summary", "work_mode", "write_file_artifact">>
Letter(name) == CHOOSE i \in 1 .. Len(Alphabet) : Alphabet[i] = name
Sorted(S) == CHOOSE list \in [1 .. Cardinality(S) -> S] :
               \A i, j \in 1 .. Cardinality(S) : i < j => Letter(list[i]) < Letter(list[j])

HarnessMinimal == {"thread_data", "sandbox", "dangling_tool_call", "execution_trace",
                   "activity_timeline", "clarification"}
Stripped(list) ==
  LET Minimal(s) == s.name \in HarnessMinimal
      kept == SelectSeq(list, Minimal) IN
  [i \in 1 .. Len(kept) |->
     [kept[i] EXCEPT !.after = @ \cap HarnessMinimal, !.before = @ \cap HarnessMinimal]]

\* Registries somebody may write, with repeated, missing and circular names.
SmallSpecs(n) == [1 .. n -> {Spec3(a, s, {}) : a \in MwNames, s \in SUBSET MwNames}]
Registries == (UNION {SmallSpecs(n) : n \in 1 .. MwListed})
                \cup {WorkAgentSpecs, Stripped(WorkAgentSpecs)}

MwTypeOK ==
  /\ built \in {"no", "sorting", "duplicate", "unknown", "cycle", "sorted", "assembled"}
  /\ Range(queue) \cup Range(order) \subseteq {specs[i].name : i \in DOMAIN specs}
  /\ \A name \in DOMAIN degree : degree[name] \in Nat

MwInit ==
  /\ specs \in Registries /\ degree = <<>> /\ queue = <<>> /\ order = <<>> /\ built = "no"
  /\ agent = [chain |-> <<>>, triggers |-> {}, keep |-> 0, from |-> <<>>]

----------------------------------------------------------------------------
(* topological_sort_middleware_specs.                                        *)

Names == {specs[i].name : i \in DOMAIN specs}
Named(list) == UNION {list[i].after \cup list[i].before : i \in DOMAIN list}
Edges == UNION {(specs[i].after \X {specs[i].name}) \cup ({specs[i].name} \X specs[i].before)
                  : i \in DOMAIN specs}
After(name) == {e[2] : e \in {e \in Edges : e[1] = name}}
Before(name) == {e[1] : e \in {e \in Edges : e[2] = name}}

SortBegins ==
  /\ built = "no"
  /\ IF Cardinality(Names) # Len(specs) THEN built' = "duplicate" /\ UNCHANGED <<degree, queue>>
     ELSE IF ~ Named(specs) \subseteq Names THEN built' = "unknown" /\ UNCHANGED <<degree, queue>>
     ELSE /\ built' = "sorting"
          /\ degree' = [name \in Names |-> Cardinality(Before(name))]
          /\ queue' = Sorted({name \in Names : Before(name) = {}})
  /\ UNCHANGED <<specs, order, agent>>

\* Mutated: a name may be placed as soon as one of its dependencies is.
ReadyAtOnce(name) == {b \in After(name) : degree[b] > 0 /\ b \notin Range(queue)}

Ready(name) == {b \in After(name) : degree[b] = 1}

Place ==
  /\ built = "sorting" /\ queue # <<>>
  /\ LET name == Head(queue) IN
     /\ order' = Append(order, name)
     /\ degree' = [b \in DOMAIN degree |-> degree[b] - IF b \in After(name) THEN 1 ELSE 0]
     /\ queue' = Tail(queue) \o Sorted(Ready(name))
  /\ UNCHANGED <<specs, built, agent>>

Verdict == IF Len(order) # Len(specs) THEN "cycle" ELSE "sorted"

SortEnds ==
  /\ built = "sorting" /\ queue = <<>> /\ built' = Verdict
  /\ UNCHANGED <<specs, degree, queue, order, agent>>

----------------------------------------------------------------------------
(* _build_middlewares and _create_summarization_middleware.                  *)

\* The factories: a name that needs a mode, or that a setting can switch off.
PlanOnly == {"todo", "planner", "evaluator", "plan_evaluator", "plan_followup"}
WorkOnly == {"todo_failure_retry"}
Switchable == {"planner", "evaluator", "web_search_summary", "view_image", "subagent_limit",
               "hooks", "retry", "recursion_pivot", "loop_detection", "tool_disclosure",
               "scratchpad_task_memory", "resume_state", "execution_trace", "summarization"}
Makes(name, mode, off) ==
  /\ name \in PlanOnly => mode = "plan"
  /\ name \in WorkOnly => mode = "work"
  /\ (IF name = "plan_evaluator" THEN "planner" ELSE name) \notin off

DefaultContext == 128000
DefaultKeep == 32000

\* The first of the model's profile, the setting and the model's settings that is there.
ContextTokens(windows) ==
  LET there == {i \in 1 .. 3 : windows[i] > 0} IN
  IF there = {} THEN DefaultContext ELSE windows[CHOOSE i \in there : \A j \in there : i <= j]

AtLeastOne(n) == IF n < 1 THEN 1 ELSE n
Fraction(tenths, context) == AtLeastOne((context * tenths) \div 10)

\* Counts of messages are ignored; without any threshold there is a default one.
Thresholds(trigger, context) ==
  LET resolved == {Fraction(t[2], context) : t \in {t \in trigger : t[1] = "fraction"}}
                    \cup {t[2] : t \in {t \in trigger : t[1] = "tokens" /\ t[2] > 0}} IN
  IF resolved = {} THEN {Fraction(8, context)} ELSE resolved

KeepTokens(keep, context) ==
  IF keep[1] = "fraction" THEN Fraction(keep[2], context)
  ELSE IF keep[1] = "tokens" /\ keep[2] > 0 THEN keep[2] ELSE DefaultKeep

Assemble(mode, off, windows, trigger, keep) ==
  LET Made(name) == Makes(name, mode, off)
      context == ContextTokens(windows) IN
  /\ built = "sorted" /\ built' = "assembled"
  /\ agent' = [chain |-> SelectSeq(order, Made),
               triggers |-> Thresholds(trigger, context), keep |-> KeepTokens(keep, context),
               from |-> <<mode, context, trigger, keep>>]
  /\ UNCHANGED <<specs, degree, queue, order>>

\* The agent of a small registry is assembled like any other; one case will do.
Settings == IF specs = WorkAgentSpecs
            THEN {"plan", "work"} \X {{}, Switchable} \X [1 .. 3 -> Windows] \X Triggers \X Keeps
            ELSE {<<"work", {}, <<0, 0, 0>>, {}, <<"tokens", 0>>>>}

MwNext == \/ SortBegins \/ Place \/ SortEnds
          \/ \E s \in Settings : Assemble(s[1], s[2], s[3], s[4], s[5])

MwSpec == MwInit /\ [][MwNext]_assembly

----------------------------------------------------------------------------
(* Properties.                                                               *)

Index(name, list) == CHOOSE i \in DOMAIN list : list[i] = name
Precedes(a, b, list) == a \in Range(list) /\ b \in Range(list) => Index(a, list) < Index(b, list)

\* Each middleware comes after everything it depends on, and once, whatever the
\* registry and however many paths lead to it, also when the sort is under way.
DependenciesFirst ==
  /\ \A e \in Edges : built = "sorting" /\ e[2] \in Range(order) => e[1] \in Range(order)
  /\ built = "sorted" => \A e \in Edges : Precedes(e[1], e[2], order)
  /\ \A i, j \in DOMAIN order : order[i] = order[j] => i = j

\* A registry is refused as circular exactly when some of its names cannot be put in
\* any order, so that no agent is built with one of them missing.
Circular == \E part \in SUBSET Names : part # {} /\ \A b \in part : Before(b) \cap part # {}
CyclesAreReported ==
  Cardinality(Names) <= MwListed => (built = "cycle" => Circular) /\ (built = "sorted" => ~ Circular)

\* In every mode and whatever is switched off, clarification is the innermost and
\* the trajectory sees what the retries and the timeout of a call make of it, the
\* timeout being inside the retries (agent.py:555-557, 576-585).
LastAndOutermost ==
  built = "assembled" /\ specs = WorkAgentSpecs =>
    LET chain == agent.chain IN
    /\ chain[Len(chain)] = "clarification"
    /\ Precedes("trajectory", "retry", chain) /\ Precedes("trajectory", "model_timeout", chain)
    /\ Precedes("retry", "model_timeout", chain) /\ Precedes("model_timeout", "subagent_limit", chain)
    /\ Precedes("planner", "plan_evaluator", chain) /\ Precedes("dangling_tool_call", "planner", chain)

\* Compaction that nobody gave a number of tokens starts above what it keeps, where
\* the context is large enough for that (agent.py:170-224).
CompactionHasWork ==
  LET context == agent.from[2]
      Given(t) == t[1] = "tokens" IN
  built = "assembled" /\ context > 40000 /\ (\A t \in agent.from[3] : ~ Given(t))
    => \A n \in agent.triggers : Given(agent.from[4]) \/ n > agent.keep

\* An agent is put together soundly: its middlewares in an order that exists and
\* holds, the ends of it where they belong, and a compaction that can do something.
AssemblyIsSound == DependenciesFirst /\ CyclesAreReported /\ LastAndOutermost /\ CompactionHasWork
=============================================================================
