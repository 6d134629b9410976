----------------------------- MODULE MCPlanLife ------------------------------
(* A plan from the planner to the work run: its making and review, and its   *)
(* approval and hand-off.  A behaviour goes through one or the other: they   *)
(* meet in the plan's status and in plan.md only.                            *)
EXTENDS PlanHandoff, PlanReview

CONSTANTS Idle, Unasked    \* the workloads in which nothing happens

LifeInit == /\ Init /\ PrInit
            /\ workload = Idle <=> prLeft # Unasked

LifeNext == \/ Next /\ prLeft = Unasked /\ UNCHANGED prVars
            \/ workload = Idle /\ PrNext /\ UNCHANGED vars

LifeSpec == LifeInit /\ [][LifeNext]_<<vars, prVars>> /\ Fairness /\ PrFairness

LifeTypeOK == TypeOK /\ PrTypeOK

\* The graph is one, its rich fields and gates hold, and what the thread's state
\* says of answers and hand-offs is what happened.
PlanIsSound == /\ LifeTypeOK /\ GraphIsSound /\ RichSurvives /\ GateHolds
               /\ AnsweredBeforeApproved /\ DuplicateMeansHandedOff

\* Marks are taken back, edges and answers outlive the others' writes, runs end.
PlanGoesOn == MarkIsCleared /\ EdgesSurvive /\ AnswersStay /\ RunEnds

------------------------------------------------------------------------------
(* What happens to the thread: the planner and the gateway at work on one    *)
(* plan with a question; hand-offs that fail, retry or outlive the TTL while *)
(* the executor is full; and the making of a plan, each hazard alone.        *)

Load(turns, requests, questions, runs, late, others) ==
  [turns |-> turns, requests |-> requests, questions |-> questions,
   runs |-> runs, stale |-> late, others |-> others]

AllTasks == 1..5
MCIdle == Load(0, 0, 0, 0, 0, {})
AllWorkloads == {Load(2, 1, 1, 1, 0, {}), Load(1, 2, 1, 1, 0, {}), Load(1, 2, 0, 2, 0, {}), Load(3, 0, 0, 0, 1, {4}),
                 Load(2, 0, 0, 0, 0, {4, 5}), MCIdle}

T(k) == <<k, 0>>
Slug == <<0, 0>>

MCProposals ==
  { <<Node(Slug, {}), Node(T(1), {Slug}), Node(Slug, {T(1), Slug})>>,   \* names collide
    <<Node(T(1), {T(2)}), Node(T(2), {T(1)})>>,                         \* a circle
    <<Node(T(1), {T(9)}), Node(T(2), {T(1)})>> }                        \* nothing there

Set(id, f) == [id |-> id, named |-> TRUE, fields |-> f]
New(id, f) == [id |-> id, named |-> FALSE, fields |-> f]
MCPatches ==
  { [remove |-> {}, change |-> <<Set(T(1), [deps |-> {T(2)}])>>],       \* may make a circle
    [remove |-> {}, change |-> <<Set(T(2), [deps |-> {}])>>],
    [remove |-> {}, change |-> <<Set(T(2), [deps |-> {T(1)}])>>],
    [remove |-> {}, change |-> <<Set(T(2), [rich |-> FALSE])>>],
    [remove |-> {T(1)}, change |-> <<New(T(2), [deps |-> {T(1)}])>>] }
MCToolUpdates ==
  { <<Set(T(1), [deps |-> {T(2)}])>>,
    <<Set(T(1), [status |-> "completed"])>>,
    <<New(Slug, [deps |-> {T(1)}]), New(Slug, [deps |-> {Slug}])>> }
MCUserEdits ==
  { <<Node(T(1), {T(2)}), Node(T(1), {T(3)})>>, <<Node(T(1), {T(2)}), Node(T(2), {T(1)})>> }
MCGates == {{}, {T(1)}}

PrLoad(turns, updates, asks, batches, edits, handoffs, proposals, patches) ==
  [turns |-> turns, updates |-> updates, asks |-> asks, batches |-> batches, edits |-> edits,
   handoffs |-> handoffs, proposals |-> proposals, patches |-> patches]
MCUnasked == PrLoad(0, 0, 0, 0, 0, 0, {}, {})
Plain == {<<Node(T(1), {T(9)}), Node(T(2), {T(1)})>>}
MCPrWorkloads ==
  { MCUnasked,
    PrLoad(2, 0, 0, 0, 0, 0, MCProposals, MCPatches),     \* reviews of two revisions
    PrLoad(1, 2, 0, 0, 0, 0, MCProposals, {}),            \* the model edits the graph
    PrLoad(1, 0, 2, 2, 0, 0, Plain, {}),                  \* two questions, two requests
    PrLoad(2, 0, 1, 1, 0, 0, Plain, {}),                  \* a run between read and write
    PrLoad(1, 1, 1, 1, 0, 0, Plain, {}),                  \* an edit while one is answered
    PrLoad(1, 1, 0, 0, 1, 1, Plain, MCPatches) }          \* plan.md and the hand-off
==============================================================================
