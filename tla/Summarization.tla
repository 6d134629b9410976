---------------------------- MODULE Summarization ----------------------------
(* Automatic summarization of a thread                                       *)
(* (agents/middlewares/summarization_middleware.py), with the patch that     *)
(* dangling_tool_call_middleware.py makes to every request of the model.     *)
(* One before_model is one step: nothing else writes a running thread.       *)
(* The size of a history is counted in messages, that of a skill block in    *)
(* tokens; the wording of a summary and the archive files are left out.      *)
EXTENDS Integers, Sequences, FiniteSets

LOCAL INSTANCE FiniteSetsExt
LOCAL Sq == INSTANCE SequencesExt

CONSTANTS
  Trigger,           \* the threshold of the token trigger
  Keep,              \* the keep budget
  Grace,             \* _TOOL_COMPLETION_GRACE_MESSAGES
  SkillCount,        \* _preserve_recent_skill_count
  SkillTokens,       \* _preserve_recent_skill_tokens
  SkillSizes,        \* bound: the tokens of a skill block
  OperationalCount,  \* _preserve_recent_operational_count
  MaxCalls           \* bound: tool calls of one answer

ASSUME SmAssumption ==
  /\ {Trigger, Keep, Grace, SkillCount, SkillTokens, OperationalCount, MaxCalls} \subseteq Nat
  /\ SkillSizes \subseteq Nat /\ 0 < SkillCount
  /\ 0 < Keep /\ Keep < Trigger

VARIABLES made,        \* history: every message the thread ever had; its index names it
          history,     \* state["messages"]: names
          deferredAt,  \* deferred_compaction_message_count; 0 when nothing is deferred
          turn,        \* where the run is
          summarised,  \* history: messages handed to the hooks and to a summary
          left         \* bound: messages still to come

summarization == <<made, history, deferredAt, turn, summarised, left>>

Human == {"user", "notice", "skills", "summary"}
NoAnswer == 0

\* A call is named by its message and its place there.
ThreadMessage == [kind : Human \cup {"ai", "tool"}, calls : 0 .. MaxCalls,
            answers : Nat, place : 0 .. MaxCalls, size : SkillSizes \cup {0}]
Text(k) == [kind |-> k, calls |-> 0, answers |-> NoAnswer, place |-> 0, size |-> 0]
Skills(tokens) == [Text("skills") EXCEPT !.size = tokens]
Calling(n) == [Text("ai") EXCEPT !.calls = n]
Results(n) == [p \in 1 .. made[n].calls |-> [Text("tool") EXCEPT !.answers = n, !.place = p]]

KindOf(n) == made[n].kind
Last == history[Len(history)]
Names(s) == {s[i] : i \in DOMAIN s}
Only(s, S) == SelectSeq(s, LAMBDA n : n \in S)
Without(s, S) == SelectSeq(s, LAMBDA n : n \notin S)

\* Messages join the thread.
Joins(ms) ==
  /\ Len(ms) <= left /\ left' = left - Len(ms)
  /\ made' = made \o ms
  /\ history' = history \o [i \in DOMAIN ms |-> Len(made) + i]

SmTypeOK ==
  /\ made \in Seq(ThreadMessage) /\ history \in Seq(DOMAIN made) /\ summarised \subseteq DOMAIN made
  /\ deferredAt \in 0 .. Len(made) /\ left \in Nat
  /\ turn \in {"idle", "before", "model", "tools"}

SmInit == /\ made = <<>> /\ history = <<>> /\ deferredAt = 0 /\ turn = "idle"
          /\ summarised = {}

(* ---- the decision (before_model) ---- *)
IsNewUserInput == Len(history) > 0 /\ KindOf(Last) = "user"
IsToolCompletionWindow == Len(history) > 0 /\ KindOf(Last) = "tool"
OverThreshold == Len(history) >= Trigger

\* Mutated: each deferral starts the grace anew.
DefersAgain == IsToolCompletionWindow

ShouldDefer ==
  /\ IsToolCompletionWindow
  /\ deferredAt > 0 => Len(history) - deferredAt <= Grace

CompactNow == \/ deferredAt > 0 /\ IsNewUserInput
              \/ OverThreshold /\ ~ShouldDefer

(* ---- the partition ---- *)
\* Library: the keep budget, moved back so that no result loses its call.
SafeCutoffs == {c \in 0 .. Len(history) - Keep :
                  c < Len(history) => KindOf(history[c + 1]) # "tool"}
LibraryCutoff == IF SafeCutoffs = {} THEN 0
                 ELSE CHOOSE c \in SafeCutoffs : \A d \in SafeCutoffs : d <= c

\* A forced compaction without a cutoff keeps one message.
Cutoff(force) == IF force /\ LibraryCutoff <= 0 /\ Len(history) > 1
                 THEN Len(history) - 1 ELSE LibraryCutoff

\* Library: token_counter, here of skill blocks.
Tokens(S) == MapThenSumSet(LAMBDA n : made[n].size, S)
WithinBudget(S) == Cardinality(S) <= SkillCount /\ Tokens(S) <= SkillTokens
SkillsOf(s) == SelectSeq(s, LAMBDA n : KindOf(n) = "skills")

\* Mutated: the first block over the budget ends the walk.
RescuedUntilFull(s) ==
  LET blocks == Names(SkillsOf(s))
  IN  {n \in blocks : WithinBudget({m \in blocks : m >= n})}

\* Newest first: a block that is too large for what is left of the budget is passed over.
RescuedSkills(s) ==
  Sq!FoldRight(LAMBDA n, taken : IF WithinBudget(taken \cup {n}) THEN taken \cup {n} ELSE taken,
               SkillsOf(s), {})

NewestNotices(s) ==
  LET of == SelectSeq(s, LAMBDA m : KindOf(m) = "notice")
  IN  {of[i] : i \in {j \in DOMAIN of : Len(of) - j < OperationalCount}}

RescuedOperational(s) == NewestNotices(s)

\* preserve_user_anchor_count is 1: the earliest of the human messages left.
RescuedAnchor(s) ==
  {n \in Names(s) : /\ KindOf(n) \in Human \ {"skills"}
                    /\ \E i \in DOMAIN s : /\ s[i] = n
                         /\ \A j \in 1 .. i - 1 : KindOf(s[j]) \notin Human \ {"skills"}}

\* _rescue_tool_call_pairs: the calls whose results are preserved.
Parents(remaining, preserved) ==
  {n \in Names(remaining) :
     /\ \E r \in Names(preserved) : made[r].answers = n
     /\ n \notin Names(preserved)}

RescuedParents(remaining, preserved) == Parents(remaining, preserved)

\* _partition_with_skill_rescue: what is summarized, and what follows the summary.
Partition(c) ==
  LET before    == SubSeq(history, 1, c)
      kept      == SubSeq(history, c + 1, Len(history))
      skills    == RescuedSkills(before)
      notices   == RescuedOperational(before)
      anchor    == RescuedAnchor(Without(before, skills \cup notices))
      remaining == Without(before, skills \cup notices \cup anchor)
      bundle    == Only(before, anchor) \o Only(before, notices) \o Only(before, skills) \o kept
      parents   == RescuedParents(remaining, bundle)
  IN  [gone |-> Names(remaining) \ parents, kept |-> Only(remaining, parents) \o bundle]

(* ---- the steps of a run ---- *)
UserTurn == /\ turn = "idle" /\ turn' = "before"
            /\ Joins(<<Text("user")>>)
            /\ UNCHANGED <<deferredAt, summarised>>

\* Over the threshold with fresh results: one more model call may read them.
Defer == /\ turn = "before" /\ turn' = "model"
         /\ OverThreshold /\ ShouldDefer /\ ~(deferredAt > 0 /\ IsNewUserInput)
         /\ deferredAt' = IF deferredAt > 0 THEN deferredAt ELSE Len(history)
         /\ UNCHANGED <<made, history, summarised, left>>

\* Nothing to do, or nothing to cut.
Skip == /\ turn = "before" /\ turn' = "model"
        /\ \/ ~CompactNow /\ ~(OverThreshold /\ ShouldDefer)
           \/ CompactNow /\ Cutoff(FALSE) <= 0
        /\ UNCHANGED <<made, history, deferredAt, summarised, left>>

\* The hooks see what goes before it leaves; one that fails is passed over.
HandOver(gone) == summarised' = summarised \cup gone

\* What the model made of it or, when that failed or is empty, the deterministic
\* fallback: a human message without a name either way.
SummaryMessage == Text("summary")

Summarize(force) ==
  /\ turn = "before" /\ turn' = "model"
  /\ force \/ CompactNow
  /\ Cutoff(force) > 0
  /\ LET p == Partition(Cutoff(force))
     IN  /\ HandOver(p.gone)
         /\ made' = Append(made, SummaryMessage)
         /\ history' = <<Len(made) + 1>> \o p.kept
  /\ deferredAt' = 0
  /\ UNCHANGED left

\* Middlewares after this one add skills or notices before the model is called.
Inject == /\ turn = "model"
          /\ \E m \in {Text("notice")} \cup {Skills(z) : z \in SkillSizes} : Joins(<<m>>)
          /\ UNCHANGED <<deferredAt, turn, summarised>>

ModelAnswers == /\ turn = "model"
                /\ \E n \in 0 .. MaxCalls :
                     /\ Joins(<<Calling(n)>>)
                     /\ turn' = IF n = 0 THEN "idle" ELSE "tools"
                /\ UNCHANGED <<deferredAt, summarised>>

\* The results of all calls of an answer are stored together.
ToolsAnswer == /\ turn = "tools" /\ turn' = "before"
               /\ Joins(Results(Last))
               /\ UNCHANGED <<deferredAt, summarised>>

\* The run is cancelled while its tools run: their calls dangle.
Interrupt == /\ turn \in {"tools", "model"} /\ turn' = "idle"
             /\ UNCHANGED <<made, history, deferredAt, summarised, left>>

SmNext == \/ UserTurn \/ Defer \/ Skip \/ (\E force \in BOOLEAN : Summarize(force))
          \/ Inject \/ ModelAnswers \/ ToolsAnswer \/ Interrupt

(* ---- the request of a model call ---- *)
\* DanglingToolCallMiddleware: the calls of an answer that get a placeholder for a result.
Patches(n) == {p \in 1 .. made[n].calls :
                 \A r \in Names(history) : made[r].answers = n => made[r].place # p}

(* ---- properties ---- *)
\* No message vanishes: each is in the thread, once, or was handed to the hooks and to a
\* summary before it left (summarization_middleware.py:303-327, 608-652).
EveryMessageIsKept ==
  /\ \A n \in DOMAIN made : (n \in Names(history)) # (n \in summarised)
  /\ \A i, j \in DOMAIN history : history[i] = history[j] => i = j

\* What the model is sent has every result after its call, and one result for every call, the
\* placeholder of the patch counted (summarization_middleware.py:671-729,
\* dangling_tool_call_middleware.py:39-96).
RequestsAreWhole ==
  turn = "model" =>
  /\ \A i \in DOMAIN history :
        KindOf(history[i]) = "tool" => \E j \in 1 .. i - 1 : history[j] = made[history[i]].answers
  /\ \A n \in Names(history), p \in 1 .. MaxCalls :
        p <= made[n].calls =>
        (p \in Patches(n)) # (\E r \in Names(history) : made[r].answers = n /\ made[r].place = p)

\* However often a history is compacted, these stay in it as they were: the newest control
\* messages, and a skill block as long as it and those after it, the blocks too large for any
\* budget left out, are within the count and the tokens (summarization_middleware.py:837-900).
NewestSurvive ==
  LET all  == [i \in DOMAIN made |-> i]
      fit  == {n \in DOMAIN made : KindOf(n) = "skills" /\ made[n].size <= SkillTokens}
      Of(n) == {m \in fit : m >= n}
  IN  /\ NewestNotices(all) \subseteq Names(history)
      /\ \A n \in fit : WithinBudget(Of(n)) => n \in Names(history)

\* A model is called on a deferred history only within the grace of its first deferral, and that
\* deferral is of this history, not of one since compacted (summarization_middleware.py:237-258).
GraceIsBounded ==
  [][turn = "before" /\ turn' = "model" /\ deferredAt' > 0 =>
       Len(history') - deferredAt' \in 0 .. Grace]_summarization
=============================================================================
