------------------------------ MODULE RunGuards ------------------------------
(* What watches the replies of the lead agent's model, in the order of the   *)
(* after_model hooks: loop_detection_middleware.py stops repetitions,        *)
(* todo_failure_retry_middleware.py sends back a reply that ends the run too *)
(* early, subagent_limit_middleware.py defers task calls over the limits.    *)
(* A reply is a sequence of calls; its last message is the model's own, or   *)
(* the warning that loop detection has put behind it.                        *)
EXTENDS Integers, Sequences, FiniteSets, SequencesExt

CONSTANTS Warn, Hard,          \* warn_threshold, hard_limit
          Window,              \* window_size
          FreqWarn, FreqHard,  \* tool_freq_warn, tool_freq_hard_limit
          MaxRecovery,         \* _MAX_TODO_RECOVERY_ATTEMPTS
          MaxSchema,           \* _MAX_SCHEMA_RECOVERY_ATTEMPTS
          MaxConcurrent,       \* max_concurrent
          MaxPrimary,          \* max_primary_per_turn
          Tools, Replies       \* the calls a model may make: [tool, arg, primary]

ASSUME GuardsBounds ==
  /\ {Warn, Hard, Window, FreqWarn, FreqHard, MaxConcurrent, MaxPrimary} \subseteq Nat \ {0}
  /\ {MaxRecovery, MaxSchema} \subseteq Nat

Calls == UNION {ToSet(r.calls) : r \in Replies}
ASSUME RepliesAssumption ==
  /\ \A c \in Calls : c.tool \in Tools /\ c.primary \in BOOLEAN
  /\ \A r \in Replies : /\ r.calls \in Seq(Calls) /\ r.invalid \in BOOLEAN
                        /\ r = [calls |-> r.calls, warned |-> FALSE, invalid |-> r.invalid]

VARIABLES loops,     \* the counters of LoopDetectionMiddleware, in the process
          human,     \* the text of the latest human message without a name
          recovery,  \* todo_recovery_attempts, ..._turn_key, todo_schema_...
          deferred,  \* deferred_task_calls
          reply      \* the model's reply as the hooks have left it

guards == <<loops, human, recovery, deferred, reply>>

Texts == {"none", "question", "continue", "repeating"} \cup Tools
NoReply == [calls |-> <<>>, warned |-> FALSE, invalid |-> FALSE]
NoLoops == [history |-> <<>>, repeated |-> {}, freq |-> [t \in Tools |-> 0],
            frequent |-> {}, sig |-> "none"]
NoRecovery == [attempts |-> 0, schema |-> 0, current |-> FALSE]
GuardsInit == /\ loops = NoLoops /\ human = "none" /\ recovery = NoRecovery
              /\ deferred = <<>> /\ reply = NoReply

(* _hash_tool_calls: a bag of calls, whatever their order                    *)
Hash(calls) == [c \in ToSet(calls) |-> Cardinality({i \in DOMAIN calls : calls[i] = c})]
Hashes == {Hash(r.calls) : r \in Replies} \ {Hash(<<>>)}

GuardsTypeOK ==
  /\ human \in Texts
  /\ loops.repeated \subseteq Hashes /\ Range(loops.history) \subseteq Hashes
  /\ Len(loops.history) <= Window
  /\ loops.freq \in [Tools -> 0..FreqHard] /\ loops.frequent \subseteq Tools /\ loops.sig \in Texts
  /\ recovery \in [attempts : 0..MaxRecovery, schema : 0..MaxSchema, current : BOOLEAN]
  /\ \A i \in DOMAIN deferred : deferred[i].tool = "task"

(* A new human message: a new turn, for whoever looks at the latest one      *)
Speaks(text) == /\ human' = text
                /\ recovery' = [recovery EXCEPT !.current = FALSE]
-----------------------------------------------------------------------------
(* Loop detection counts within one user turn; the text of the latest human  *)
(* message without a name tells the turns apart.                             *)
Scoped == IF human # loops.sig THEN [NoLoops EXCEPT !.sig = human] ELSE loops

Remembered(history, h) ==
  LET grown == Append(history, h)
  IN  IF Len(grown) > Window THEN Tail(grown) ELSE grown
CountIn(history, h) == Cardinality({i \in DOMAIN history : history[i] = h})

(* Layer 2 counts the calls of the reply one by one, up to the first that is *)
(* too many (one too many for the first time, or one over the hard limit).   *)
Called(calls, t) == Cardinality({i \in DOMAIN calls : calls[i].tool = t})
FreqAfter(l, calls) ==   \* from FreqHard on the count says no more
  [t \in Tools |-> LET n == l.freq[t] + Called(calls, t) IN IF n > FreqHard THEN FreqHard ELSE n]
Speaking(l, calls) ==
  {i \in DOMAIN calls :
     LET t == calls[i].tool
         n == l.freq[t] + Called(SubSeq(calls, 1, i), t)
     IN  n >= FreqHard \/ (n >= FreqWarn /\ t \notin l.frequent)}

Verdict(l, h) ==   \* of layer 1, h being the last of l.history
  LET n == CountIn(l.history, h)
  IN  IF n >= Hard THEN "stop" ELSE IF n >= Warn /\ h \notin l.repeated THEN "warn" ELSE "pass"

Stop == [reply EXCEPT !.calls = <<>>]
Warned(text) == /\ Speaks(text) /\ reply' = [reply EXCEPT !.warned = TRUE]
Passed == UNCHANGED <<human, recovery, reply>>

Frequencies(l) ==
  LET over == Speaking(l, reply.calls)
  IN  IF over = {}
      THEN /\ loops' = [l EXCEPT !.freq = FreqAfter(l, reply.calls)] /\ Passed
      ELSE LET i == CHOOSE j \in over : \A k \in over : j <= k
               t == reply.calls[i].tool
               counted == [l EXCEPT !.freq = FreqAfter(l, SubSeq(reply.calls, 1, i))]
           IN  IF counted.freq[t] >= FreqHard
               THEN loops' = counted /\ reply' = Stop /\ UNCHANGED <<human, recovery>>
               ELSE /\ loops' = [counted EXCEPT !.frequent = @ \cup {t}]
                    /\ Warned(t)

LoopDetection(workflow) ==
  /\ UNCHANGED deferred
  /\ IF reply.calls = <<>> THEN UNCHANGED loops /\ Passed
     ELSE LET h == Hash(reply.calls)
              l == [Scoped EXCEPT !.history = Remembered(@, h)]
          IN  CASE Verdict(l, h) = "stop" ->
                     loops' = l /\ reply' = Stop /\ UNCHANGED <<human, recovery>>
                [] Verdict(l, h) = "warn" ->
                     loops' = [l EXCEPT !.repeated = @ \cup {h}] /\ Warned("repeating")
                [] Verdict(l, h) = "pass" ->
                     IF workflow THEN loops' = l /\ Passed ELSE Frequencies(l)
-----------------------------------------------------------------------------
(* A reply without calls while todos are incomplete goes back to the model,  *)
(* a bounded number of times in a turn.                                      *)
MayRecover(incomplete) == incomplete /\ ~reply.warned /\ reply.calls = <<>>
Attempts == IF recovery.current THEN recovery.attempts ELSE 0
SchemaRecovery == reply.invalid /\ recovery.schema < MaxSchema
Recovers(incomplete) == MayRecover(incomplete) /\ (SchemaRecovery \/ Attempts < MaxRecovery)
\* Mutant: the attempt is not kept for the turn it belongs to.
SendBackAnyTurn ==
  /\ recovery' = [recovery EXCEPT !.attempts = Attempts + 1]
  /\ reply' = NoReply
  /\ UNCHANGED <<loops, human, deferred>>

SendBack ==
  /\ recovery' = IF SchemaRecovery THEN [recovery EXCEPT !.schema = @ + 1]
                 ELSE [recovery EXCEPT !.attempts = Attempts + 1, !.current = TRUE]
  /\ reply' = NoReply
  /\ UNCHANGED <<loops, human, deferred>>
-----------------------------------------------------------------------------
(* Task calls: those deferred before come first; every other call is kept.   *)
IsTask(c) == c.tool = "task"
Place(acc, c) ==   \* behind the calls before it
  IF ~IsTask(c) THEN [acc EXCEPT !.kept = Append(@, c)]
  ELSE IF acc.tasks >= MaxConcurrent \/ (c.primary /\ acc.primaries >= MaxPrimary)
       THEN [acc EXCEPT !.later = Append(@, c)]
  ELSE [acc EXCEPT !.kept = Append(@, c), !.tasks = @ + 1,
                   !.primaries = @ + (IF c.primary THEN 1 ELSE 0)]
Nowhere == [kept |-> <<>>, later |-> <<>>, tasks |-> 0, primaries |-> 0]
Split(calls) ==
  LET placed[n \in 0 .. Len(calls)] ==
        IF n = 0 THEN Nowhere ELSE Place(placed[n - 1], calls[n])
  IN  placed[Len(calls)]

SubagentLimit ==
  /\ UNCHANGED <<loops, human, recovery>>
  /\ IF reply.warned THEN UNCHANGED <<deferred, reply>>
     ELSE LET parts == Split(deferred \o reply.calls)
          IN  /\ deferred' = parts.later
              /\ reply' = IF parts.later = <<>> THEN reply
                          ELSE [reply EXCEPT !.calls = parts.kept]
=============================================================================
