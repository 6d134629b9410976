------------------------------ MODULE TurnHooks ------------------------------
(* What an agent's middlewares do around the model calls of a thread's runs: *)
(* the steering near the recursion limit, the bound on a call's time, the    *)
(* evaluation of a plan's answer, the suggested questions and the thread's   *)
(* title, which is generated beside the run (agents/middlewares/             *)
(* recursion_pivot, model_timeout, evaluator, question_generation, title).   *)
EXTENDS Integers, FiniteSets

CONSTANTS Limit,       \* recursion_limit
          MinLimit,    \* min_recursion_limit
          Crossings,   \* thresholds of the pivot, in tenths of the limit, a set
          OnFailure,   \* on_evaluator_failure: skip or terminate
          MaxAttempts, \* max_attempts of the evaluator
          MaxRuns,     \* bound: runs of the thread
          MaxCalls     \* bound: model calls of the thread

ASSUME TurnAssumption == /\ MaxAttempts \in Nat \ {0} /\ Crossings \subseteq Nat
                         /\ OnFailure \in {"skip", "terminate"}

VARIABLES thread,  \* [ai, humans, title, fired, attempts, verdict, asked]: the saved state
          turn,    \* [at, runs, calls, last]: where the run is, what the model said last
          naming,  \* [task, stored]: the title's task and the run's store
          shown,   \* the title last pushed to the open stream
          log      \* history: [pivots, feedback, titles]

turns == <<thread, turn, naming, shown, log>>

EvalStatuses == {"none", "failed", "passed", "max_attempts_reached"}
Titles == {"none", "fallback", "generated"}
Answers == {"calls", "answer", "empty", "timeout"}

ThTypeOK ==
  /\ thread.fired \subseteq Crossings /\ thread.verdict \in EvalStatuses /\ thread.title \in Titles
  /\ turn.at \in {"idle", "before", "model", "after", "ending", "closing"}
  /\ naming.task \in {"none", "running", "over"} /\ naming.stored \in Titles

ThInit ==
  /\ thread = [ai |-> 0, humans |-> 0, title |-> "none", fired |-> {}, attempts |-> 0,
               verdict |-> "none", asked |-> FALSE]
  /\ turn = [at |-> "idle", runs |-> 0, calls |-> 0, last |-> "answer"]
  /\ naming = [task |-> "none", stored |-> "none"] /\ shown = "none"
  /\ log = [pivots |-> [c \in Crossings |-> 0], feedback |-> 0, titles |-> 0]

At(node) == [turn EXCEPT !.at = node]

RunStarts ==
  /\ turn.at = "idle" /\ turn.runs < MaxRuns
  /\ turn' = [turn EXCEPT !.at = "before", !.runs = @ + 1]
  /\ thread' = [thread EXCEPT !.humans = @ + 1]
  /\ naming' = [task |-> "none", stored |-> "none"] /\ shown' = "none"
  /\ UNCHANGED log

\* A planner writes a new plan, steering adds a message, compaction drops messages.
OthersWrite ==
  /\ turn.at = "before"
  /\ thread' \in {[thread EXCEPT !.verdict = "none"]}
                   \cup {[thread EXCEPT !.humans = 2]}
                   \cup {[thread EXCEPT !.ai = n] : n \in 0 .. thread.ai}
  /\ UNCHANGED <<turn, naming, shown, log>>

----------------------------------------------------------------------------
(* recursion_pivot: before_model.                                            *)

Lowest(S) == CHOOSE c \in S : \A d \in S : c <= d
Crossed == {c \in Crossings : thread.ai >= (Limit * c) \div 10 /\ c \notin thread.fired}
NoPivot == Limit < MinLimit \/ Crossed = {}

PassesBy == /\ turn.at = "before" /\ NoPivot /\ turn' = At("model")
            /\ UNCHANGED <<thread, naming, shown, log>>

\* The evaluator decides to keep the course or to change it.
Pivot ==
  LET c == Lowest(Crossed) IN
  /\ turn.at = "before" /\ ~ NoPivot /\ turn' = At("model")
  /\ thread' = [thread EXCEPT !.fired = @ \cup {c}]
  /\ log' = [log EXCEPT !.pivots[c] = @ + 1]
  /\ UNCHANGED <<naming, shown>>

\* It fails or is too late: the threshold is not used up.
PivotFails ==
  /\ turn.at = "before" /\ ~ NoPivot
  /\ turn' = At(IF OnFailure = "terminate" THEN "ending" ELSE "model")
  /\ UNCHANGED <<thread, naming, shown, log>>

----------------------------------------------------------------------------
(* model_timeout around the call.  A call that is too late becomes an answer *)
(* of its own, without tool calls.                                           *)

ModelCalls(last) ==
  /\ turn.at = "model" /\ turn.calls < MaxCalls
  /\ turn' = [turn EXCEPT !.at = "after", !.calls = @ + 1, !.last = last]
  /\ thread' = [thread EXCEPT !.ai = @ + 1]
  /\ UNCHANGED <<naming, shown, log>>

----------------------------------------------------------------------------
(* after_model: the evaluator, then the questions, then the title.           *)

GivenAnswer == turn.last \in {"answer", "timeout"}

\* Mutated: an answer refused by the rules is no attempt.
RulesUncounted(refused) == IF refused THEN 0 ELSE 1

Attempt(refused) == 1

\* It looks only at a final answer of a plan that has no unfinished todos and is not
\* passed, and only so often.
Evaluates(judge) ==
  judge /\ GivenAnswer /\ thread.verdict # "passed" /\ thread.attempts < MaxAttempts

\* The last attempt gives no feedback, unless it was the rules that refused it.
Evaluated(refused, passes) ==
  LET n == thread.attempts + Attempt(refused) IN
  [thread EXCEPT !.attempts = n,
     !.verdict = IF refused THEN "failed" ELSE IF passes THEN "passed"
                 ELSE IF n >= MaxAttempts THEN "max_attempts_reached" ELSE "failed"]

WithFallback(state) == [state EXCEPT !.title = "fallback"]

\* _should_generate_title
Nameless(state) == state.title = "none" /\ state.humans = 1 /\ state.ai >= 1

AfterModel(judge, refused, passes) ==
  LET evaluated == IF Evaluates(judge) THEN Evaluated(refused, passes) ELSE thread
      sent == IF Evaluates(judge) /\ evaluated.verdict = "failed" THEN 1 ELSE 0
      questioned == [evaluated EXCEPT !.asked = turn.last # "calls" \/ @]
      names == Nameless(questioned) IN
  /\ turn.at = "after"
  /\ turn' = At(IF turn.last = "calls" THEN "before" ELSE "ending")
  /\ thread' = IF names THEN WithFallback(questioned) ELSE questioned
  /\ naming' = IF names THEN [naming EXCEPT !.task = "running"] ELSE naming
  /\ log' = [log EXCEPT !.feedback = @ + sent, !.titles = @ + IF names THEN 1 ELSE 0]
  /\ UNCHANGED shown

----------------------------------------------------------------------------
(* The title's task and after_agent.                                         *)

\* The model names the thread, fails (the fallback counts as its name) or is late.
TitleComes(title) ==
  /\ naming.task = "running"
  /\ naming' = [task |-> "over", stored |-> IF title = "none" THEN naming.stored ELSE title]
  /\ shown' = IF title # "none" /\ turn.at # "idle" THEN title ELSE shown
  /\ UNCHANGED <<thread, turn, log>>

\* aafter_agent, also when it has waited for the task in vain.
AfterTurn ==
  /\ turn.at = "ending" /\ turn' = At("closing")
  /\ thread' = IF naming.stored = "none" THEN thread
               ELSE [thread EXCEPT !.title = naming.stored]
  /\ UNCHANGED <<naming, shown, log>>

StreamCloses == /\ turn.at = "closing" /\ turn' = At("idle")
                /\ UNCHANGED <<thread, naming, shown, log>>

\* A model or the evaluator raises, or the user cancels: no after_agent.
RunBreaks == /\ turn.at \in {"before", "model", "after", "ending"} /\ turn' = At("idle")
             /\ UNCHANGED <<thread, naming, shown, log>>

ThNext ==
  \/ RunStarts \/ OthersWrite \/ PassesBy \/ Pivot \/ PivotFails \/ AfterTurn \/ StreamCloses \/ RunBreaks
  \/ \E last \in Answers : ModelCalls(last)
  \/ \E judge, refused, passes \in BOOLEAN : AfterModel(judge, refused, passes)
  \/ \E title \in Titles : TitleComes(title)

ThSpec == ThInit /\ [][ThNext]_turns

----------------------------------------------------------------------------
(* Properties.                                                               *)

\* The course is reconsidered once for each threshold, over all the runs of a thread
\* and whatever compaction does to the number of messages.
ThresholdsFireOnce == \A c \in Crossings : log.pivots[c] <= 1

\* The evaluator sends an answer back at most as often as it may, over all the runs
\* and plans of a thread, whether rules or the model refuse it.
FeedbackIsBounded == log.feedback <= MaxAttempts

\* The title's model is asked once for a thread, however many calls and runs it has.
OneTitleCall == log.titles <= 1

\* What a thread's runs may do again is bounded, over all of them.
TurnsAreBounded == ThresholdsFireOnce /\ FeedbackIsBounded /\ OneTitleCall

\* A title that the user has seen while the run went on is the thread's title when
\* the run has ended as it should.
ShownIsSaved == [][turn.at = "ending" /\ turn'.at = "closing" /\ shown # "none"
                     => thread'.title = shown]_turns

\* What model_timeout_middleware.py:14-15 says of a call that was too late: the agent
\* goes on with its next iteration.  TLC refutes it.
TimeoutIsPickedUp == [][turn.at = "after" /\ turn.last = "timeout" => turn'.at # "ending"]_turns
=============================================================================
