---------------------------- MODULE MCSubagents ----------------------------
(* What serves one agent: its background tasks, the tools it is given, the   *)
(* order of its middlewares, the records and the hooks of its turns, and the *)
(* batch skill.  They share no state that a step of two of them writes, so a *)
(* behaviour is about one of them; the others rest in one initial state.     *)
EXTENDS Subagents, RunRecords, MiddlewareOrder, BatchRun, TurnHooks, ToolCatalog, TLC

VARIABLE part    \* what this behaviour is about

agentVars == <<vars, records, assembly, batchState, turns, surface, part>>

Parts == {"tasks", "records", "assembly", "batch", "turns", "tools"}

AllInit ==
  /\ Init /\ RrInit /\ MwInit /\ BatchInit /\ ThInit /\ TcInit
  /\ part \in Parts
  /\ part # "assembly" => specs = WorkAgentSpecs
  /\ part # "batch" => kind = "json"
  /\ part # "tools" => catalog = "good" /\ broken = {}

AllNext ==
  /\ UNCHANGED part
  /\ \/ part = "tasks" /\ Next /\ UNCHANGED <<records, assembly, batchState, turns, surface>>
     \/ part = "records" /\ RrNext /\ UNCHANGED <<vars, assembly, batchState, turns, surface>>
     \/ part = "assembly" /\ MwNext /\ UNCHANGED <<vars, records, batchState, turns, surface>>
     \/ part = "batch" /\ BatchNext /\ UNCHANGED <<vars, records, assembly, turns, surface>>
     \/ part = "turns" /\ ThNext /\ UNCHANGED <<vars, records, assembly, batchState, surface>>
     \/ part = "tools" /\ TcNext /\ UNCHANGED <<vars, records, assembly, batchState, turns>>

\* The fairness of the tasks, as Subagents states it.
AllSpec == AllInit /\ [][AllNext]_agentVars /\ Fairness

----------------------------------------------------------------------------
(* The instances for TLC.                                                    *)

CONSTANTS t1, t2, thA, thB

TwoTasks == {t1, t2}
BothThreads == {thA, thB}
OwnersApart == [t \in Tasks |-> IF t = t1 THEN thA ELSE thB]

\* A call of the task tool beside one whose tool answers with a Command.
TwoCalls == {"task", "write"}

\* Registries of up to three middlewares, cycles among them, beside the agent's own.
SmallNames == {"memory", "retry", "title"}
SomeWindows == {0, 16000, 64000, 200000}
SomeTriggers == {{}, {<<"fraction", 8>>}, {<<"messages", 50>>}, {<<"tokens", 24000>>, <<"fraction", 8>>}}
SomeKeeps == {<<"tokens", 32000>>, <<"messages", 20>>, <<"fraction", 1>>}

HalfAndMore == {4, 8}

\* A planning lead, a working lead of few groups, and its subagent.
SomeTools == {"bash", "write_todos", "save_to_knowledge_vault", "task"}
Asks(by, mode, groups, subagent, vision) ==
  [by |-> by, mode |-> mode, groups |-> groups, subagent |-> subagent, vision |-> vision]
SomeKinds == {Asks("lead", "plan", {"all"}, FALSE, FALSE), Asks("lead", "work", {"file:read"}, TRUE, FALSE),
              Asks("subagent", "none", {"all"}, FALSE, FALSE)}
SomeServers ==
  ("docs" :> [tools |-> <<"search_indexed_documents", "bash">>, excluded |-> {}, hidden |-> FALSE])
  @@ ("notes" :> [tools |-> <<"note", "task">>, excluded |-> {"task"}, hidden |-> TRUE])
=============================================================================
