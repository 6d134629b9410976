--------------------------- MODULE MCThreadHistory ---------------------------
(* What shortens or copies a thread: the compaction endpoint of the gateway  *)
(* (Compaction), the summarization of a run (Summarization), and the handoff *)
(* of the thread and its workspace to a new one (WorkspaceFork).             *)
EXTENDS Compaction, Summarization, WorkspaceFork

CONSTANTS Budgets,    \* bound: messages a thread with runs may still get
          HfLoads     \* bound: handoffs, edits by agents, and restarts

VARIABLE hfLeft       \* what is left of them

allVars == <<vars, summarization, fork, hfLeft>>

HfSpend(what) == hfLeft[what] > 0 /\ hfLeft' = [hfLeft EXCEPT ![what] = @ - 1]
Handoffs == \E what \in DOMAIN hfLeft : hfLeft[what] > 0

AllTypeOK == TypeOK /\ SmTypeOK /\ HfTypeOK

\* A thread is compacted while idle, lives on from nothing, or is handed over.
BothInit == /\ Init /\ SmInit /\ HfInit
            /\ left \in Budgets /\ hfLeft \in HfLoads
            /\ left > 0 \/ Handoffs => messages = <<>>
            /\ ~(left > 0 /\ Handoffs)

HfNext == \/ HfSpend("handoffs") /\ \E r \in HfRequests : HandoffStarts(r)
          \/ HfSpend("edits") /\ AgentEdits
          \/ HfSpend("restarts") /\ HfRestart
          \/ HfStep /\ UNCHANGED hfLeft

BothNext == \/ Next /\ UNCHANGED <<summarization, fork, hfLeft>>
            \/ SmNext /\ UNCHANGED <<vars, fork, hfLeft>>
            \/ HfNext /\ UNCHANGED <<vars, summarization>>

BothSpec == BothInit /\ [][BothNext]_allVars /\ WF_vars(Next) /\ HfFairness

\* What is left of a thread makes sense: results keep their calls, a message is in
\* the thread or was handed to a summary, and the newest control messages and the
\* newest skill blocks within their budget outlive every summary.
HistoryIsWhole == /\ AllTypeOK /\ SkipsOnlyOrphans
                  /\ EveryMessageIsKept /\ RequestsAreWhole /\ NewestSurvive

\* The search ends; so does a handoff, and a fork has the package it was made from.
HandoffsEnd == Ends /\ ForkHasItsPackage /\ HandoffEnds

------------------------------------------------------------------------------
(* The endpoint on every history up to MaxLen messages; runs that make up to *)
(* MaxMade messages; handoffs of one thread at once, and of a fork.          *)

CONSTANTS a, b, MaxLen, MaxMade

TwoIds == {a, b}

\* A text, an answer of the model with tool calls, a tool's result.
Kinds == [calls : SUBSET Ids, answers : {NoCall}] \cup [calls : {{}}, answers : Ids]

\* An id means nothing but itself, so that the first used alone may be called a.
Uses(m) == m.calls \cup ({m.answers} \ {NoCall})
UsesAFirst(h) == \A i \in DOMAIN h : Uses(h[i]) = {b} => \E j \in 1 .. i - 1 : Uses(h[j]) = {a}

AnyHistory == {h \in UNION {[1..n -> Kinds] : n \in 0..MaxLen} : UsesAFirst(h)}
MCBudgets == {0, MaxMade}
MCSkillSizes == 1 .. 3

HfLoad0 == [handoffs |-> 0, edits |-> 0, restarts |-> 0]
MCHfLoads == {HfLoad0, [HfLoad0 EXCEPT !.handoffs = 2, !.edits = 1],
              [HfLoad0 EXCEPT !.handoffs = 2, !.restarts = 1]}
MCHfThreads == 0 .. 2
MCHfRequests == 1 .. 2
MCHfNames == {"plan.md", "code"}
==============================================================================
