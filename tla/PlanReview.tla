----------------------------- MODULE PlanReview ------------------------------
(* The making of a plan on one thread (backend/src/agents/middlewares:       *)
(* planner_middleware.py, plan_evaluator_middleware.py,                      *)
(* todo_dag_middleware.py, clarification_middleware.py, handoff_sync.py,     *)
(* plan_file_sync_middleware.py; agents/common/handoff.py; write_todos;      *)
(* /threads/{id}/clarify).  Before each call of the lead model the planner,  *)
(* the evaluator and the todo middleware look at the plan, in this order;    *)
(* the model edits the graph and asks the user; answers come in batches;     *)
(* plan.md is written by three parties and read by the hand-off.             *)
EXTENDS Integers, Sequences, FiniteSets, TLC

CONSTANTS ToolUpdates,   \* bound: arguments of write_todos
          UserEdits,     \* bound: todos of a plan.md edited by hand
          Gates,         \* bound: the "blocks" of a question
          Questions,     \* bound: calls of ask_user_for_clarification
          Batches,       \* bound: requests that answer questions
          MaxEvaluations,    \* EvaluatorConfig.max_attempts
          MaxDraftRevisions, \* _MAX_DRAFT_REVISIONS
          PrWorkloads        \* bound: turns, replies and edits in one behaviour, the
                             \* todos the planner's model may list (proposals) and
                             \* the patches the evaluator's may ask for (patches)

ASSUME PrBounds == {MaxEvaluations, MaxDraftRevisions} \subseteq Nat

VARIABLES draft,    \* values["plan"]
          graph,    \* values["todo_graph"]
          review,   \* plan_evaluated, plan_eval_attempts
          fresh,    \* more human messages than human_messages_at_plan
          queue,    \* values["clarifications"]
          flag,     \* values["clarification_pending"]
          file,     \* plan.md
          workers,  \* the background workers' snapshots
          seat,     \* the run on the thread
          batch,    \* the gateway's clarify_batch handlers
          prLeft    \* what is left of the workload

planState == <<draft, graph, review, fresh, queue, flag>>
prVars == <<draft, graph, review, fresh, queue, flag, file, workers, seat, batch, prLeft>>

-----------------------------------------------------------------------------
(* The todo graph as its writers compute it: an id is a stem and a copy.     *)
(* <<k, 0>> with k > 0 is "todo-k", other stems are names made up by a       *)
(* model; copy 1 is the suffix "-x", copy k > 1 the suffix "-k".             *)

TodoIds == Int \X Nat
Node(id, deps) == [id |-> id, deps |-> deps, status |-> "pending", rich |-> TRUE]

IdsOf(nodes) == {nodes[i].id : i \in DOMAIN nodes}
NodeOf(nodes, id) == CHOOSE n \in {nodes[i] : i \in DOMAIN nodes} : n.id = id
Edges(nodes) == {<<i, j>> \in (DOMAIN nodes) \X (DOMAIN nodes) : nodes[j].id \in nodes[i].deps}

(* _is_acyclic: every group of todos has one that waits for none of them     *)
Acyclic(nodes) ==
  \A S \in SUBSET (DOMAIN nodes) \ {{}} :
    \E i \in S : \A j \in S : nodes[j].id \notin nodes[i].deps

Closed(nodes) == \A i \in DOMAIN nodes : nodes[i].deps \subseteq IdsOf(nodes) \ {nodes[i].id}
Distinct(nodes) == \A i, j \in DOMAIN nodes : nodes[i].id = nodes[j].id => i = j

(* Dependencies on oneself, or on nothing, are dropped in silence            *)
TrimDeps(nodes) ==
  [i \in DOMAIN nodes |-> [nodes[i] EXCEPT !.deps = @ \cap (IdsOf(nodes) \ {nodes[i].id})]]

(* The first free one of id, id-2, id-3, ...                                 *)
Unused(id, taken) ==
  IF id \notin taken THEN id
  ELSE <<id[1], CHOOSE k \in 2..(Cardinality(taken) + 2) :
                  /\ <<id[1], k>> \notin taken
                  /\ \A j \in 2..(k - 1) : <<id[1], j>> \in taken>>

(* normalize_todo_nodes; a caller sees a cycle as an exception               *)
Normalized(raws) ==
  LET named[n \in 0..Len(raws)] ==
        IF n = 0 THEN <<>>
        ELSE LET done == named[n - 1]
             IN Append(done, [raws[n] EXCEPT !.id = Unused(@, IdsOf(done))])
  IN TrimDeps(named[Len(raws)])

Stripped(raws) == [i \in DOMAIN raws |-> [raws[i] EXCEPT !.deps = {}]]

(* merge_todo_nodes: an update patches the node of its id, or is appended    *)
Patched(nodes, u) ==
  [i \in DOMAIN nodes |-> IF nodes[i].id = u.id THEN u.fields @@ nodes[i] ELSE nodes[i]]
Appended(nodes, u) ==
  Append(nodes, u.fields @@ [id |-> Unused(u.id, IdsOf(nodes)), deps |-> {},
                             status |-> "pending", rich |-> FALSE])
Merged(nodes, updates) ==
  LET after[n \in 0..Len(updates)] ==
        IF n = 0 THEN nodes
        ELSE LET done == after[n - 1]
                 u == updates[n]
             IN IF u.named /\ u.id \in IdsOf(done) THEN Patched(done, u) ELSE Appended(done, u)
  IN TrimDeps(after[Len(updates)])

(* _precheck_nodes, for nodes whose ids are distinct: unless every id is     *)
(* "todo-k" the nodes are numbered by their places, and the dependencies     *)
(* follow.                                                                   *)
Canonical(id) == id[1] > 0 /\ id[2] = 0
Numbered(nodes, i) ==
  LET place == <<i, 0>>
  IN IF nodes[i].id = place \/ place \notin IdsOf(nodes) THEN place ELSE <<i, 1>>

(* Mutant: the dependencies keep the old names *)
RenumberedAlone(nodes) ==
  IF \A id \in IdsOf(nodes) : Canonical(id) THEN nodes
  ELSE [i \in DOMAIN nodes |-> [nodes[i] EXCEPT !.id = Numbered(nodes, i)]]

Renumbered(nodes) ==
  IF \A id \in IdsOf(nodes) : Canonical(id) THEN nodes
  ELSE [i \in DOMAIN nodes |->
         [nodes[i] EXCEPT !.id = Numbered(nodes, i),
            !.deps = {d \in @ : d \notin IdsOf(nodes)} \cup
                     {Numbered(nodes, j) : j \in {k \in DOMAIN nodes : nodes[k].id \in @}}]]
Prechecked(nodes) == TrimDeps(Renumbered(nodes))

(* _apply_patch: removals first; what is modified or added is merged         *)
Removed(nodes, ids) == SelectSeq(nodes, LAMBDA n : n.id \notin ids)
Applied(nodes, patch) == Merged(Removed(nodes, patch.remove), patch.change)

(* _preserves_rich_fields                                                    *)
KeepsRich(new, old, excused) ==
  \A i \in DOMAIN old, j \in DOMAIN new :
    (old[i].id = new[j].id /\ old[i].id \notin excused /\ old[i].rich) => new[j].rich

(* compute_effective_ready_ids; none blocked: _materialize_ready_ids         *)
Offered(nodes, blocked) ==
  {nodes[i].id : i \in {k \in DOMAIN nodes :
     /\ nodes[k].status \notin {"completed", "blocked"}
     /\ \A j \in DOMAIN nodes : nodes[j].id \in nodes[k].deps => nodes[j].status = "completed"}}
  \ blocked

-----------------------------------------------------------------------------
(* The state of a plan in the making.                                        *)

PrSpend(what) == prLeft[what] > 0 /\ prLeft' = [prLeft EXCEPT ![what] = @ - 1]

NoDraft == [rev |-> 0, status |-> "none", pending |-> FALSE, ids |-> {}]
NoGraph == [nodes |-> <<>>, ready |-> {}]
Graph(nodes) == [nodes |-> nodes, ready |-> Offered(nodes, {})]
NoFile == [status |-> "none", nodes |-> <<>>]
NoSeat == [pc |-> "idle", auto |-> FALSE, foreground |-> FALSE,
           nodes |-> <<>>, spent |-> 0, excused |-> {}]
NoQuestion == [status |-> "none", blocks |-> {}]

PrInit ==
  /\ draft = NoDraft /\ graph = NoGraph /\ fresh = FALSE
  /\ review = [done |-> FALSE, attempts |-> 0]
  /\ queue = [q \in Questions |-> NoQuestion] /\ flag = FALSE
  /\ file = NoFile /\ workers = {} /\ seat = NoSeat
  /\ batch = [b \in Batches |-> [pc |-> "new", answers |-> {}, seen |-> queue, graph |-> NoGraph]]
  /\ prLeft \in PrWorkloads

(* The todos that the pending questions gate                                 *)
Blocked(qs) == UNION {qs[q].blocks : q \in {p \in Questions : qs[p].status = "pending"}}
Pending(qs) == {q \in Questions : qs[q].status = "pending"}

Outside == UNCHANGED <<workers, batch>>
Go(pc) == seat' = [seat EXCEPT !.pc = pc]
Leave == seat' = NoSeat
-----------------------------------------------------------------------------
(* The planner                                                               *)

(* A message of the user, or a run without one, in plan mode                 *)
PrTurn ==
  /\ seat.pc = "idle" /\ PrSpend("turns")
  /\ \E auto, foreground, message \in BOOLEAN :
       /\ seat' = [NoSeat EXCEPT !.pc = "planner", !.auto = auto, !.foreground = foreground]
       /\ fresh' = (fresh \/ message)
  /\ UNCHANGED <<draft, graph, review, queue, flag, file>> /\ Outside

(* The message answers the plan's question, the last one or not; else the    *)
(* planner has nothing to do.  An approved plan in the foreground is handed  *)
(* over and ends the turn.                                                   *)
PlannerAnswer ==
  /\ seat.pc = "planner" /\ draft.pending
  /\ \E answers \in BOOLEAN :
       LET approves == answers /\ seat.auto /\ draft.status = "draft"
       IN /\ draft' = [draft EXCEPT !.pending = ~answers,
                                    !.status = IF approves THEN "approved" ELSE @]
          /\ IF approves /\ seat.foreground THEN Leave ELSE Go("evaluator")
  /\ UNCHANGED <<graph, review, fresh, queue, flag, file, prLeft>> /\ Outside

Wanted == \/ draft.status = "none"
          \/ ~draft.pending /\ draft.rev < MaxDraftRevisions /\ fresh

(* The planner's model answers; a cycle costs the plan all its dependencies. *)
(* A plan in the foreground ends the turn, unless it has a question and      *)
(* nobody waits for the user.                                                *)
PlannerPlans ==
  /\ seat.pc = "planner" /\ Wanted
  /\ \E raws \in prLeft.proposals, asks \in BOOLEAN :
       LET named == Normalized(raws)
           nodes == IF Acyclic(named) THEN named ELSE Normalized(Stripped(raws))
           status == IF seat.auto /\ ~asks THEN "approved" ELSE "draft"
       IN /\ draft' = [rev |-> IF draft.status = "none" THEN 0 ELSE draft.rev + 1,
                       status |-> status, pending |-> asks, ids |-> IdsOf(nodes)]
          /\ graph' = Graph(nodes)
          /\ file' = [status |-> status, nodes |-> nodes]
          /\ IF seat.foreground /\ ~(asks /\ seat.auto) THEN Leave ELSE Go("evaluator")
  /\ review' = [review EXCEPT !.done = FALSE] /\ fresh' = FALSE
  /\ UNCHANGED <<queue, flag, prLeft>> /\ Outside

(* It times out or fails: the message stays fresh, and is planned for again  *)
(* before the next call of the model.                                        *)
PlannerFails == /\ seat.pc = "planner" /\ Wanted /\ Go("evaluator")
                /\ UNCHANGED <<planState, file, prLeft>> /\ Outside

PlannerSkips == /\ seat.pc = "planner" /\ ~Wanted /\ ~draft.pending /\ Go("evaluator")
                /\ UNCHANGED <<planState, file, prLeft>> /\ Outside
-----------------------------------------------------------------------------
(* The evaluator                                                             *)

ShouldEvaluate == ~review.done /\ draft.status # "none" /\ graph.nodes # <<>>

EvaluatorSkips == /\ seat.pc = "evaluator" /\ ~ShouldEvaluate /\ Go("dag")
                  /\ UNCHANGED <<planState, file, prLeft>> /\ Outside

(* A cycle ends the review; the graph stays as it is                         *)
EvaluatorCycle ==
  /\ seat.pc = "evaluator" /\ ShouldEvaluate /\ ~Acyclic(Prechecked(graph.nodes))
  /\ review' = [review EXCEPT !.done = TRUE] /\ Go("dag")
  /\ UNCHANGED <<draft, graph, fresh, queue, flag, file, prLeft>> /\ Outside

EvaluatorStarts ==
  /\ seat.pc = "evaluator" /\ ShouldEvaluate /\ Acyclic(Prechecked(graph.nodes))
  /\ seat' = [seat EXCEPT !.pc = "judge", !.nodes = Prechecked(graph.nodes),
                          !.spent = review.attempts, !.excused = {}]
  /\ UNCHANGED <<planState, file, prLeft>> /\ Outside

(* A patch that breaks a rule is refused and ends the review; one that makes *)
(* a cycle raises out of the middleware and fails the run.                   *)
Judged(nodes, excused) ==
  seat' = [seat EXCEPT !.nodes = nodes, !.spent = @ + 1, !.excused = @ \cup excused]

JudgePatches ==
  /\ seat.pc = "judge" /\ seat.spent < MaxEvaluations
  /\ \E patch \in prLeft.patches :
       LET new == Applied(seat.nodes, patch)
       IN IF ~Acyclic(new) THEN Leave
          ELSE IF KeepsRich(new, seat.nodes, patch.remove)
          THEN Judged(Normalized(new), patch.remove)
          ELSE seat' = [seat EXCEPT !.pc = "commit", !.spent = @ + 1]
  /\ UNCHANGED <<planState, file, prLeft>> /\ Outside

(* The older contract: a whole new list, taken if it has no cycle            *)
JudgeRewrites ==
  /\ seat.pc = "judge" /\ seat.spent < MaxEvaluations
  /\ \E raws \in prLeft.proposals :
       IF Acyclic(Normalized(raws)) THEN Judged(Normalized(raws), IdsOf(seat.nodes))
       ELSE seat' = [seat EXCEPT !.pc = "commit", !.spent = @ + 1]
  /\ UNCHANGED <<planState, file, prLeft>> /\ Outside

(* It is content, offers nothing usable, times out or fails; or the attempts *)
(* of the thread are used up.                                                *)
JudgeEnds ==
  /\ seat.pc = "judge"
  /\ seat' = [seat EXCEPT !.pc = "commit",
                          !.spent = IF @ < MaxEvaluations THEN @ + 1 ELSE @]
  /\ UNCHANGED <<planState, file, prLeft>> /\ Outside

EvaluatorCommits ==
  /\ seat.pc = "commit"
  /\ review' = [done |-> TRUE, attempts |-> seat.spent]
  /\ IF seat.nodes # graph.nodes
     THEN graph' = Graph(seat.nodes) /\ draft' = [draft EXCEPT !.ids = IdsOf(seat.nodes)]
     ELSE UNCHANGED <<graph, draft>>
  /\ seat' = [seat EXCEPT !.pc = "dag", !.nodes = <<>>, !.spent = 0, !.excused = {}]
  /\ UNCHANGED <<fresh, queue, flag, file, prLeft>> /\ Outside
-----------------------------------------------------------------------------
(* The todo middleware: what the questions gate is not ready; a reminder is  *)
(* a human message, and so wakes the planner.                                *)
DagUpdates ==
  /\ seat.pc = "dag"
  /\ graph' = [graph EXCEPT !.ready = Offered(graph.nodes, Blocked(queue))]
  /\ \/ fresh' = fresh
     \/ graph.nodes # <<>> /\ fresh' = TRUE
  /\ Go("model")
  /\ UNCHANGED <<draft, review, queue, flag, file, prLeft>> /\ Outside
-----------------------------------------------------------------------------
(* The lead model: one call of a tool in a reply                             *)

(* A text ends the run; plan.md is refreshed a second later                  *)
ReplyText ==
  /\ seat.pc = "model" /\ Leave
  /\ workers' = workers \cup (IF graph.nodes = <<>> THEN {}
                              ELSE {[status |-> draft.status, nodes |-> graph.nodes]})
  /\ UNCHANGED <<planState, file, batch, prLeft>>

(* Mutant: the graph is stored whatever the updates made of it *)
WriteTodosUnchecked ==
  /\ seat.pc = "model" /\ PrSpend("updates") /\ Go("planner")
  /\ \E updates \in ToolUpdates :
       LET nodes == Merged(graph.nodes, updates)
       IN /\ graph' = Graph(nodes)
          /\ draft' = IF draft.status = "none" THEN [draft EXCEPT !.status = "draft"] ELSE draft
          /\ file' = [status |-> draft'.status, nodes |-> nodes]
  /\ UNCHANGED <<review, fresh, queue, flag>> /\ Outside

(* write_todos, refused when the plan is over, when it would complete a      *)
(* todo of a draft or name one in another way, and when it makes a cycle     *)
RefusesDraft(updates) ==
  draft.status = "draft" /\ \E i \in DOMAIN updates :
    \/ "status" \in DOMAIN updates[i].fields /\ updates[i].fields.status = "completed"
    \/ updates[i].named /\ ~Canonical(updates[i].id)
WriteTodos ==
  /\ seat.pc = "model" /\ PrSpend("updates") /\ Go("planner")
  /\ \E updates \in ToolUpdates :
       LET nodes == Merged(graph.nodes, updates)
       IN IF draft.status = "completed" \/ RefusesDraft(updates) \/ ~Acyclic(nodes)
          THEN UNCHANGED <<graph, draft, file>>
          ELSE /\ graph' = Graph(nodes)
               /\ draft' = IF draft.status = "none" THEN [draft EXCEPT !.status = "draft"] ELSE draft
               /\ file' = [status |-> draft'.status, nodes |-> nodes]
  /\ UNCHANGED <<review, fresh, queue, flag>> /\ Outside

(* ask_user_for_clarification: answered at once in auto mode if an option is *)
(* recommended; else queued, and the run stops if the answer cannot wait or  *)
(* nothing else is left to do.                                               *)
AskUser(q) ==
  /\ seat.pc = "model" /\ queue[q].status = "none" /\ PrSpend("asks")
  /\ \A p \in Questions : p < q => queue[p].status # "none"
  /\ \E blocks \in Gates, recommended, blocking \in BOOLEAN :
       LET answered == seat.auto /\ recommended
           entry == [status |-> IF answered THEN "answered" ELSE "pending", blocks |-> blocks]
           starved == /\ Offered(graph.nodes, {}) # {}
                      /\ Offered(graph.nodes, Blocked(queue')) = {}
       IN /\ queue' = [queue EXCEPT ![q] = entry]
          /\ flag' = (flag \/ ~answered)
          /\ IF ~answered /\ (blocking \/ starved) THEN Leave ELSE Go("planner")
  /\ UNCHANGED <<draft, graph, review, fresh, file>> /\ Outside

(* The planner has asked the same already                                    *)
AskAgain ==
  /\ seat.pc = "model" /\ draft.pending /\ PrSpend("asks") /\ Go("planner")
  /\ UNCHANGED <<planState, file>> /\ Outside
-----------------------------------------------------------------------------
(* The gateway: clarify_batch reads the thread, computes, and writes.  The   *)
(* server refuses to change the state of a thread that has a run (external). *)

ClarifyBatchReads(b) ==
  /\ batch[b].pc = "new" /\ PrSpend("batches")
  /\ \A c \in Batches : c < b => batch[c].pc # "new"      \* they are interchangeable
  /\ \E S \in SUBSET {q \in Questions : queue[q].status # "none"} \ {{}} :
       batch' = [batch EXCEPT ![b] =
         [pc |-> IF S \cap Pending(queue) = {} THEN "done" ELSE "write",
          answers |-> S \cap Pending(queue), seen |-> queue, graph |-> graph]]
  /\ UNCHANGED <<planState, file, workers, seat>>

Answered(qs, S) == [q \in Questions |-> IF q \in S THEN [qs[q] EXCEPT !.status = "answered"]
                                                   ELSE qs[q]]
BatchDone(b) == batch' = [batch EXCEPT ![b] = [pc |-> "done", answers |-> {},
                            seen |-> [q \in Questions |-> NoQuestion], graph |-> NoGraph]]

(* The answers are merged by id; the flag and the graph are those that were  *)
(* read, brought up to date; the reminder is a human message.                *)
ClarifyBatchWrites(b) ==
  /\ batch[b].pc = "write" /\ seat.pc = "idle"
  /\ LET seen == Answered(batch[b].seen, batch[b].answers)
     IN /\ queue' = Answered(queue, batch[b].answers)
        /\ flag' = (Pending(seen) # {})
        /\ graph' = [batch[b].graph EXCEPT !.ready = Offered(batch[b].graph.nodes, Blocked(seen))]
  /\ fresh' = TRUE
  /\ BatchDone(b)
  /\ UNCHANGED <<draft, review, file, workers, seat, prLeft>>

ClarifyBatchFails(b) == /\ batch[b].pc = "write" /\ BatchDone(b)
                        /\ UNCHANGED <<planState, file, workers, seat, prLeft>>
-----------------------------------------------------------------------------
(* plan.md                                                                   *)

(* A worker wakes up, in no particular order, and writes what it was given   *)
FileSync == /\ \E w \in workers : file' = w /\ workers' = workers \ {w}
            /\ UNCHANGED <<planState, seat, batch, prLeft>>

UserEdit == /\ file.nodes # <<>> /\ PrSpend("edits")
            /\ \E raws \in UserEdits : file' = [file EXCEPT !.nodes = raws]
            /\ UNCHANGED <<planState, workers, seat, batch>>

(* _load_canonical_plan_overrides: plan.md, unless it is missing or cyclic.  *)
(* What the file does not carry (the revision, the count of messages) is     *)
(* forgotten.                                                                *)
Override(nodes) ==
  IF nodes = <<>> \/ ~Acyclic(Normalized(nodes)) THEN UNCHANGED <<draft, graph>>
  ELSE /\ graph' = Graph(Normalized(nodes))
       /\ draft' = [rev |-> 0, status |-> file.status, pending |-> FALSE,
                    ids |-> IdsOf(graph'.nodes)]

(* The hand-off of an approved plan starts the work run                      *)
HandOver ==
  /\ seat.pc = "idle" /\ draft.status = "approved" /\ PrSpend("handoffs")
  /\ Override(file.nodes) /\ fresh' = TRUE
  /\ UNCHANGED <<review, queue, flag, file, workers, seat, batch>>
-----------------------------------------------------------------------------
SeatStep == \/ PlannerFails \/ PlannerSkips \/ PlannerAnswer \/ PlannerPlans
            \/ EvaluatorSkips \/ EvaluatorCycle \/ EvaluatorStarts
            \/ JudgeEnds \/ JudgePatches \/ JudgeRewrites \/ EvaluatorCommits
            \/ DagUpdates \/ ReplyText \/ WriteTodos \/ AskAgain
            \/ \E q \in Questions : AskUser(q)

PrNext == \/ PrTurn \/ SeatStep \/ FileSync \/ UserEdit \/ HandOver
          \/ \E b \in Batches : ClarifyBatchReads(b) \/ ClarifyBatchWrites(b)
                                \/ ClarifyBatchFails(b)

(* Every call of a model ends, by its answer or by its timeout; the replies  *)
(* of a run are bounded by its recursion limit.                              *)
PrFairness == WF_prVars(SeatStep)
-----------------------------------------------------------------------------
PrTypeOK ==
  /\ draft.status \in {"none", "draft", "approved"} /\ draft.rev \in 0..MaxDraftRevisions
  /\ seat.pc \in {"idle", "planner", "evaluator", "judge", "commit", "dag", "model"}
  /\ seat.spent \in 0..MaxEvaluations /\ review.attempts \in 0..MaxEvaluations
  /\ \A q \in Questions : queue[q].status \in {"none", "pending", "answered"}
  /\ {flag, fresh, review.done, draft.pending} \subseteq BOOLEAN

(* Whatever the models, the user's plan.md and two answers at once make of   *)
(* the graph, its ids are distinct, its dependencies lead to other todos     *)
(* and not in a circle: else todos wait for ever, or two are taken for one   *)
(* (todo_dag_middleware.py:196-200, write_todos_tool.py:268-297,             *)
(* work_run_handoff.py:54-71).                                               *)
GraphIsSound ==
  \A nodes \in {graph.nodes, seat.nodes} : Distinct(nodes) /\ Closed(nodes) /\ Acyclic(nodes)

(* The numbering of the todos loses no dependency: trimming would hide it    *)
(* (plan_evaluator_middleware.py:233-246).                                   *)
EdgesSurvive ==
  [][seat.pc = "evaluator" /\ seat'.pc = "judge" => Edges(seat'.nodes) = Edges(graph.nodes)]_prVars

(* A review never strips the objective, the fallback or the steps off a todo *)
(* it does not remove or rewrite (plan_evaluator_middleware.py:314-328), nor *)
(* does any chain of patches.                                                *)
RichIds(nodes) == {nodes[i].id : i \in {j \in DOMAIN nodes : nodes[j].rich}}
RichSurvives ==
  seat.pc = "commit" => (RichIds(Prechecked(graph.nodes)) \cap IdsOf(seat.nodes)) \ seat.excused
                          \subseteq RichIds(seat.nodes)

(* The model is offered no todo that a pending question gates, whoever wrote *)
(* the graph last (todo_dag_middleware.py:405-428).                          *)
GateHolds == seat.pc = "model" => graph.ready \cap Blocked(queue) = {}

(* An answer that was stored stays, although requests computed on older      *)
(* states are written later (clarifications.py:157-200, merge_clarifications) *)
AnswersStay ==
  [][\A q \in Questions : queue[q].status = "answered" => queue'[q] = queue[q]]_prVars

(* A run in plan mode ends, however often the evaluator wants the plan       *)
(* changed (plan_evaluator_middleware.py:562-609).                           *)
RunEnds == seat.pc # "idle" ~> seat.pc = "idle"
=============================================================================
