----------------------------- MODULE AgentProofs -----------------------------
(***************************************************************************)
(* Proofs about what serves one agent: its subagents, the hooks of its      *)
(* turns, the batch skill, the order of its middlewares, its tools and its  *)
(* records, for any values of their constants.                              *)
(***************************************************************************)
EXTENDS FiniteSetTheorems, SequenceTheorems, Subagents, RunRecords, MiddlewareOrder, BatchRun, TurnHooks, ToolCatalog, TLAPS

----------------------------------------------------------------------------
(* A set of naturals has a least member: of the parts of the set that lie    *)
(* below one of its members, which are finite, one is the smallest.          *)

LEMMA SomeLeast ==
  ASSUME NEW S \in SUBSET Nat, S # {}
  PROVE  \E x \in S : \A y \in S : x <= y
<1> DEFINE Down(n) == {s \in S : s <= n}
           Downs == {Down(n) : n \in S}
<1>1. Downs \subseteq FiniteSubsetsOf(S)
  <2>1. \A n \in S : IsFiniteSet(Down(n))
    <3>1. TAKE n \in S
    <3>2. Down(n) \in SUBSET Nat /\ \A s \in Down(n) : s <= n
      OBVIOUS
    <3> HIDE DEF Down
    <3>3. QED
      BY <3>2, FS_BoundedSetOfNaturals
  <2>2. QED
    BY <2>1 DEF FiniteSubsetsOf
<1>2. PICK D \in Downs : \A E \in Downs : ~ (<<E, D>> \in StrictSubsetOrdering(S))
  <2>1. Downs # {}
    OBVIOUS
  <2> DEFINE R == StrictSubsetOrdering(S)
             F == FiniteSubsetsOf(S)
  <2>2. IsWellFoundedOn(R, F)
    BY FS_StrictSubsetOrderingWellFounded
  <2> HIDE DEF Downs, R, F
  <2>3. \E D \in Downs : \A E \in Downs : ~ (<<E, D>> \in R)
    BY <1>1, <2>1, <2>2, WFMin DEF F
  <2>4. QED
    BY <2>3 DEF R
<1>3. PICK x \in S : D = Down(x)
  BY <1>2
<1>4. ASSUME NEW y \in S, y < x PROVE FALSE
  <2>1. x \in Nat /\ y \in Nat /\ S \subseteq Nat
    OBVIOUS
  <2>2. x \in Down(x) /\ x \notin Down(y)
    BY <1>4, <2>1
  <2>3. ASSUME NEW s \in Down(y) PROVE s \in Down(x)
    BY <1>4, <2>1, <2>3
  <2> HIDE DEF Down
  <2>4. Down(y) \in Downs /\ Down(y) \in SUBSET S /\ D \in SUBSET S
    BY <1>1 DEF FiniteSubsetsOf
  <2>5. <<Down(y), D>> \in (SUBSET S) \X (SUBSET S) /\ Down(y) \subseteq D /\ Down(y) # D
    BY <1>3, <2>2, <2>3, <2>4
  <2>6. <<Down(y), D>> \in StrictSubsetOrdering(S)
    BY <2>5 DEF StrictSubsetOrdering
  <2>7. QED
    BY <1>2, <2>4, <2>6
<1>5. QED
  BY <1>4

\* What the choice of a least member returns.
LEMMA LeastOf ==
  ASSUME NEW S \in SUBSET Nat, S # {}
  PROVE  Least(S) \in S /\ \A j \in S : Least(S) <= j
BY SomeLeast DEF Least

LEMMA LowestOf == ASSUME NEW S \in SUBSET Nat, S # {} PROVE Lowest(S) \in S
BY SomeLeast DEF Lowest

----------------------------------------------------------------------------
(* The hooks of a turn (TurnHooks).                                          *)

ThreadStates == [ai : Nat, humans : Nat, title : Titles, fired : SUBSET Crossings,
                 attempts : 0 .. MaxAttempts, verdict : EvalStatuses, asked : BOOLEAN]
TurnStates == [at : {"idle", "before", "model", "after", "ending", "closing"},
               runs : Nat, calls : Nat, last : Answers]
Logs == [pivots : [Crossings -> {0, 1}], feedback : Nat, titles : {0, 1}]

TurnsTyped == /\ thread \in ThreadStates /\ turn \in TurnStates /\ log \in Logs
              /\ naming \in [task : {"none", "running", "over"}, stored : Titles]
              /\ shown \in Titles

\* A threshold that has fired is remembered by the thread, a refused answer has been
\* an attempt, and a thread whose title was asked for has one.
Remembered ==
  /\ \A c \in Crossings : log.pivots[c] = 1 => c \in thread.fired
  /\ log.feedback <= thread.attempts
  /\ thread.title = "none" => log.titles = 0 /\ naming.task = "none"
  /\ naming.task # "over" => naming.stored = "none" /\ shown = "none"
  /\ shown # "none" => shown = naming.stored

TurnInv == TurnsTyped /\ Remembered

LEMMA TurnInit == ThInit => TurnInv
BY TurnAssumption DEF ThInit, TurnInv, TurnsTyped, Remembered, ThreadStates, TurnStates, Logs,
   Titles, EvalStatuses, Answers

LEMMA TurnStep == TurnInv /\ [ThNext]_turns => TurnInv'
<1> SUFFICES ASSUME TurnInv, [ThNext]_turns PROVE TurnInv'
  OBVIOUS
<1> USE TurnAssumption DEF TurnInv, TurnsTyped, Remembered, ThreadStates, TurnStates, Logs, Titles,
        EvalStatuses, Answers, At
<1>1. CASE RunStarts
  <2>1. TurnsTyped'
    <3>1. turn' \in TurnStates
      <4>1. turn.runs + 1 \in Nat /\ turn' = [turn EXCEPT !.at = "before", !.runs = turn.runs + 1]
        BY <1>1 DEF RunStarts
      <4> HIDE <1>1
      <4>2. QED
        BY <4>1
    <3>2. QED
      BY <1>1, <3>1 DEF RunStarts
  <2>2. Remembered'
    BY <1>1 DEF RunStarts
  <2>3. QED
    BY <2>1, <2>2
<1>2. CASE OthersWrite
  <2>1. \A n \in 0 .. thread.ai : n \in Nat
    OBVIOUS
  <2>2. QED
    BY <1>2, <2>1 DEF OthersWrite
<1>3. CASE PassesBy \/ PivotFails \/ StreamCloses \/ RunBreaks
  BY <1>3 DEF PassesBy, PivotFails, StreamCloses, RunBreaks
<1>4. CASE Pivot
  <2>1. Crossed # {} /\ Crossed \subseteq Crossings \ thread.fired /\ Crossed \in SUBSET Nat
    BY <1>4 DEF Pivot, NoPivot, Crossed
  <2>2. PICK c \in Crossings : c = Lowest(Crossed) /\ c \notin thread.fired
    BY <2>1, LowestOf
  <2>3. log.pivots[c] = 0
    BY <2>2
  <2>4. QED
    BY <1>4, <2>2, <2>3 DEF Pivot
<1>5. ASSUME NEW last \in Answers, ModelCalls(last) PROVE TurnInv'
  <2>1. TurnsTyped'
    <3>1. turn' \in TurnStates
      <4>1. turn.calls + 1 \in Nat /\ turn' = [turn EXCEPT !.at = "after", !.calls = turn.calls + 1, !.last = last]
        BY <1>5 DEF ModelCalls
      <4> HIDE <1>5
      <4>2. QED
        BY <4>1
    <3>2. thread.ai + 1 \in Nat /\ thread' = [thread EXCEPT !.ai = thread.ai + 1]
      BY <1>5 DEF ModelCalls
    <3>3. QED
      BY <1>5, <3>1, <3>2 DEF ModelCalls
  <2>2. Remembered'
    BY <1>5 DEF ModelCalls
  <2>3. QED
    BY <2>1, <2>2
<1>6. ASSUME NEW judge \in BOOLEAN, NEW refused \in BOOLEAN, NEW passes \in BOOLEAN,
             AfterModel(judge, refused, passes) PROVE TurnInv'
  <2>1. TurnsTyped'
    <3> DEFINE evaluated == IF Evaluates(judge) THEN Evaluated(refused, passes) ELSE thread
               questioned == [evaluated EXCEPT !.asked = turn.last # "calls" \/ @]
               sent == IF Evaluates(judge) /\ evaluated.verdict = "failed" THEN 1 ELSE 0
    <3>1. evaluated \in ThreadStates
      <4>1. CASE Evaluates(judge)
        <5>1. thread.attempts + 1 \in 0 .. MaxAttempts
          BY <4>1 DEF Evaluates
        <5>2. Evaluated(refused, passes) \in ThreadStates
          BY <5>1 DEF Evaluated, Attempt
        <5>3. QED
          BY <4>1, <5>2
      <4>2. CASE ~ Evaluates(judge)
        BY <4>2
      <4>3. QED
        BY <4>1, <4>2
    <3>2. sent \in {0, 1} /\ log.feedback + sent \in Nat
      OBVIOUS
    <3>3. questioned \in ThreadStates /\ questioned.title = thread.title
      <4>1. evaluated.title = thread.title
        BY DEF Evaluated
      <4> HIDE DEF evaluated
      <4>2. QED
        BY <3>1, <4>1
    <3>4. /\ thread' = IF Nameless(questioned) THEN [questioned EXCEPT !.title = "fallback"] ELSE questioned
          /\ log' = [log EXCEPT !.feedback = @ + sent, !.titles = @ + IF Nameless(questioned) THEN 1 ELSE 0]
      BY <1>6 DEF AfterModel, WithFallback
    <3> HIDE DEF evaluated, questioned, sent
    <3>5. thread' \in ThreadStates
      BY <3>3, <3>4
    <3>6. log' \in Logs
      <4>1. Nameless(questioned) => log.titles = 0
        BY <3>3 DEF Nameless
      <4>2. log.titles + (IF Nameless(questioned) THEN 1 ELSE 0) \in {0, 1}
        BY <4>1
      <4>3. PICK f \in Nat, n \in {0, 1} : log' = [log EXCEPT !.feedback = f, !.titles = n]
        BY <3>2, <3>4, <4>2
      <4>4. QED
        BY <4>3
    <3>7. turn' \in TurnStates
      BY <1>6 DEF AfterModel
    <3>8. QED
      BY <1>6, <3>5, <3>6, <3>7 DEF AfterModel
  <2>2. Remembered'
    BY <1>6 DEF AfterModel, Evaluates, Evaluated, Attempt, WithFallback, Nameless
  <2>3. QED
    BY <2>1, <2>2
<1>7. ASSUME NEW title \in Titles, TitleComes(title) PROVE TurnInv'
  <2>1. TurnsTyped'
    <3>1. naming' \in [task : {"none", "running", "over"}, stored : Titles] /\ shown' \in Titles
      BY <1>7 DEF TitleComes
    <3>2. QED
      BY <1>7, <3>1 DEF TitleComes
  <2>2. Remembered'
    BY <1>7 DEF TitleComes
  <2>3. QED
    BY <2>1, <2>2
<1>8. CASE AfterTurn
  BY <1>8 DEF AfterTurn
<1>9. CASE UNCHANGED turns
  BY <1>9 DEF turns
<1>10. QED
  BY <1>1, <1>2, <1>3, <1>4, <1>5, <1>6, <1>7, <1>8, <1>9 DEF ThNext

\* What the runs of a thread may do again is bounded over all of them: a threshold
\* changes the course once, the evaluator sends back at most MaxAttempts answers and
\* the title is asked for once, for any thresholds and bounds.
THEOREM BoundedTurns == ThSpec => []TurnsAreBounded
<1>1. TurnInv => TurnsAreBounded
  BY TurnAssumption DEF TurnInv, TurnsTyped, Remembered, Logs, ThreadStates, TurnsAreBounded,
     ThresholdsFireOnce, FeedbackIsBounded, OneTitleCall
<1>2. QED
  BY <1>1, TurnInit, TurnStep, PTL DEF ThSpec

\* The title the user saw while the run went on is what the thread keeps.
THEOREM TitleStays == ThSpec => ShownIsSaved
<1>1. TurnInv /\ [ThNext]_turns
        => (turn.at = "ending" /\ turn'.at = "closing" /\ shown # "none" => thread'.title = shown)
  <2>1. SUFFICES ASSUME TurnInv, [ThNext]_turns, turn.at = "ending", turn'.at = "closing",
                        shown # "none"
                 PROVE  thread'.title = shown
    OBVIOUS
  <2>2. AfterTurn
    BY <2>1 DEF ThNext, turns, RunStarts, OthersWrite, PassesBy, Pivot, PivotFails, ModelCalls,
       AfterModel, TitleComes, StreamCloses, RunBreaks, At, TurnInv, TurnsTyped, TurnStates
  <2>3. QED
    BY <2>1, <2>2 DEF AfterTurn, TurnInv, TurnsTyped, Remembered, ThreadStates
<1>2. QED
  BY <1>1, TurnInit, TurnStep, PTL DEF ThSpec, ShownIsSaved

----------------------------------------------------------------------------
(* The batch skill (BatchRun).                                               *)

RowStates == [id : Todo, status : Outcomes, data : BOOLEAN, error : BOOLEAN]

BatchTyped ==
  /\ kind \in {"json", "xlsx"}
  /\ results \in [torn : BOOLEAN, rows : Seq(RowStates)]
  /\ point \in [there : BOOLEAN, torn : BOOLEAN, total : {0, ListLength}, done : SUBSET Todo]
  /\ batch \in [at : {"resting", "working", "written", "finished"}, task : 0 .. ListLength + 1]
  /\ written \in [Todo -> Outcomes \cup {"none"}]
  /\ harm \in [stops : Nat, torn : Nat]

\* A list of rows: one for each task, in json with data where it was found, and each
\* with the status that was written last.
RowsAreRight(rows, last) ==
  /\ \A j, k \in DOMAIN rows : rows[j].id = rows[k].id => j = k
  /\ \A j \in DOMAIN rows : /\ rows[j].status = last[rows[j].id]
                            /\ kind = "json" /\ rows[j].data => rows[j].status = "found"

HasRow(i) == \E j \in DOMAIN results.rows : results.rows[j].id = i

\* As long as no file was torn: what is done, and what is about to be marked, has a row.
NothingLost ==
  harm.torn = 0 =>
    /\ ~ results.torn /\ ~ point.torn
    /\ \A i \in point.done : HasRow(i)
    /\ batch.at = "written" => HasRow(batch.task)

AtATask == batch.at \in {"working", "written"} => batch.task \in Todo

BatchInv == BatchTyped /\ RowsAreRight(results.rows, written) /\ NothingLost /\ AtATask

\* What the rewriting of one row returns.
LEMMA PlacedIsRight ==
  ASSUME BatchTyped, NEW rows \in Seq(RowStates), NEW new \in RowStates, new.data => new.status = "found",
         RowsAreRight(rows, written)
  PROVE  /\ Placed(rows, new) \in Seq(RowStates)
         /\ RowsAreRight(Placed(rows, new), [written EXCEPT ![new.id] = new.status])
         /\ \E j \in DOMAIN Placed(rows, new) : Placed(rows, new)[j].id = new.id
         /\ \A i \in Todo : (\E j \in DOMAIN rows : rows[j].id = i)
                             => \E j \in DOMAIN Placed(rows, new) : Placed(rows, new)[j].id = i
<1> DEFINE same == {j \in DOMAIN rows : rows[j].id = new.id}
           last == [written EXCEPT ![new.id] = new.status]
           out == Placed(rows, new)
<1>0. /\ new.id \in Todo /\ written \in [Todo -> Outcomes \cup {"none"}]
      /\ \A j \in DOMAIN rows : rows[j] \in RowStates /\ rows[j].id \in Todo
      /\ DOMAIN rows = 1 .. Len(rows) /\ Len(rows) \in Nat
      /\ last[new.id] = new.status
      /\ \A i \in Todo : i # new.id => last[i] = written[i]
  <2>1. new.id \in Todo /\ \A row \in RowStates : row.id \in Todo
    BY DEF RowStates
  <2>2. written \in [Todo -> Outcomes \cup {"none"}]
    BY DEF BatchTyped
  <2>3. DOMAIN rows = 1 .. Len(rows) /\ Len(rows) \in Nat /\ \A j \in DOMAIN rows : rows[j] \in RowStates
    OBVIOUS
  <2>4. last[new.id] = new.status /\ \A i \in Todo : i # new.id => last[i] = written[i]
    BY <2>1, <2>2
  <2>5. QED
    BY <2>1, <2>2, <2>3, <2>4
<1>1. CASE same = {}
  <2>1. out = Append(rows, new)
    BY <1>1 DEF Placed
  <2>2. /\ out \in Seq(RowStates) /\ DOMAIN out = 1 .. Len(rows) + 1 /\ out[Len(rows) + 1] = new
        /\ \A j \in DOMAIN rows : out[j] = rows[j] /\ j \in DOMAIN out
    BY <1>0, <2>1
  <2>3. \A j \in DOMAIN out : j = Len(rows) + 1 \/ (j \in DOMAIN rows /\ out[j] = rows[j] /\ rows[j].id # new.id)
    BY <1>0, <1>1, <2>2
  <2> HIDE DEF out, same, last
  <2>4. RowsAreRight(out, last)
    BY <1>0, <2>2, <2>3 DEF RowsAreRight
  <2>5. Len(rows) + 1 \in DOMAIN out
    BY <1>0, <2>2
  <2>6. QED
    BY <2>2, <2>4, <2>5 DEF out, last
<1>2. CASE same # {}
  <2> DEFINE m == Least(same)
             r == Kept(rows[m], new)
  <2>1. m \in same
    <3>1. same \in SUBSET Nat
      BY <1>0
    <3> HIDE DEF same
    <3>2. QED
      BY <1>2, <3>1, LeastOf
  <2>2. /\ out = [rows EXCEPT ![m] = r] /\ m \in DOMAIN rows /\ rows[m].id = new.id
        /\ \A j \in DOMAIN rows : rows[j].id = new.id => j = m
    BY <1>2, <2>1 DEF Placed, RowsAreRight
  <2>3. r \in RowStates /\ r.id = new.id /\ r.status = new.status /\ (kind = "json" => r = new)
    BY <1>0, <2>2 DEF Kept, RowStates
  <2> HIDE DEF m, r, same
  <2>4. /\ out \in Seq(RowStates) /\ DOMAIN out = DOMAIN rows /\ out[m] = r
        /\ \A j \in DOMAIN rows : j # m => out[j] = rows[j] /\ rows[j].id # new.id
    BY <1>0, <2>2, <2>3
  <2> HIDE DEF out, last
  <2>5. RowsAreRight(out, last)
    BY <1>0, <2>2, <2>3, <2>4 DEF RowsAreRight
  <2>6. QED
    BY <2>2, <2>3, <2>4, <2>5 DEF out, last
<1>3. QED
  BY <1>1, <1>2

\* Where a run goes on: at a task of the list, or it is finished.
LEMMA FirstOpenIsOpen ==
  ASSUME NEW done, NEW total \in {0, ListLength}
  PROVE  /\ FirstOpen(done, total) \in Nat \ {0}
         /\ FirstOpen(done, total) > total => 1 .. total \subseteq done
<1> DEFINE open == {i \in 1 .. total : i \notin done}
<1>0. total \in Nat /\ open \in SUBSET Nat
  BY BatchAssumption
<1>1. CASE open = {}
  BY <1>0, <1>1 DEF FirstOpen
<1>2. CASE open # {}
  <2> HIDE DEF open
  <2>1. Least(open) \in open
    BY <1>0, <1>2, LeastOf
  <2>2. FirstOpen(done, total) = Least(open)
    BY <1>2 DEF FirstOpen, open
  <2>3. Least(open) \in 1 .. total
    BY <2>1 DEF open
  <2>4. QED
    BY <1>0, <2>2, <2>3
<1>3. QED
  BY <1>1, <1>2

LEMMA BatchInitOK == BatchInit => BatchInv
<1> SUFFICES ASSUME BatchInit PROVE BatchInv
  OBVIOUS
<1>1. BatchTyped
  <2>1. <<>> \in Seq(RowStates)
    OBVIOUS
  <2>2. 0 \in 0 .. ListLength + 1
    BY BatchAssumption
  <2>3. QED
    BY <2>1, <2>2 DEF BatchInit, BatchTyped
<1>2. QED
  BY <1>1 DEF BatchInit, BatchInv, RowsAreRight, NothingLost, AtATask

LEMMA BatchStep == BatchInv /\ [BatchNext]_batchState => BatchInv'
<1> SUFFICES ASSUME BatchInv, [BatchNext]_batchState PROVE BatchInv'
  OBVIOUS
<1>0. BatchTyped /\ RowsAreRight(results.rows, written) /\ NothingLost /\ AtATask /\ ListLength \in Nat
  BY BatchAssumption DEF BatchInv
\* Files and written statuses rest: the agent moves.
<1>1. ASSUME UNCHANGED <<kind, results, written>>,
             batch' \in [at : {"resting", "working", "written", "finished"}, task : 0 .. ListLength + 1],
             point' \in [there : BOOLEAN, torn : BOOLEAN, total : {0, ListLength}, done : SUBSET Todo],
             harm' \in [stops : Nat, torn : Nat], AtATask', NothingLost'
      PROVE  BatchInv'
  BY <1>0, <1>1 DEF BatchInv, BatchTyped, RowsAreRight
<1>2. ASSUME NEW index \in Nat \ {0}, Resume(index) PROVE BatchInv'
  <2>1. /\ \/ batch' = [at |-> "finished", task |-> ListLength + 1]
           \/ batch' = [at |-> "working", task |-> index] /\ index \in Todo
        /\ UNCHANGED <<kind, results, point, written, harm>>
    BY <1>0, <1>2 DEF Resume, Todo
  <2>2. batch' \in [at : {"resting", "working", "written", "finished"}, task : 0 .. ListLength + 1]
    BY <1>0, <2>1 DEF Todo
  <2>3. AtATask' /\ NothingLost'
    BY <1>0, <2>1 DEF AtATask, NothingLost, HasRow
  <2>4. QED
    BY <1>0, <1>1, <2>1, <2>2, <2>3 DEF BatchTyped
<1>3. CASE ResumeByList \/ ResumeByStatus
  <2>1. LoadIndex \in Nat \ {0} /\ StatusIndex \in Nat \ {0}
    <3>1. FirstOpen(point.done, point.total) \in Nat \ {0}
      BY <1>0, FirstOpenIsOpen DEF BatchTyped
    <3>2. QED
      BY <3>1 DEF LoadIndex, StatusIndex
  <2>2. QED
    BY <1>2, <1>3, <2>1 DEF ResumeByList, ResumeByStatus
<1>4. CASE InitCheckpoint
  <2>1. point' = [point EXCEPT !.there = TRUE, !.total = ListLength]
        /\ UNCHANGED <<kind, results, batch, written, harm>>
    BY <1>4 DEF InitCheckpoint
  <2>2. point' \in [there : BOOLEAN, torn : BOOLEAN, total : {0, ListLength}, done : SUBSET Todo]
        /\ point'.done = point.done /\ point'.torn = point.torn
    BY <1>0, <2>1 DEF BatchTyped
  <2>3. AtATask' /\ NothingLost'
    BY <1>0, <2>1, <2>2 DEF AtATask, NothingLost, HasRow
  <2>4. QED
    BY <1>0, <1>1, <2>1, <2>2, <2>3 DEF BatchTyped
\* Onward to the next task, or the end of the list.
<1>5. ASSUME batch' = Onward, batch.task \in Todo
      PROVE  batch' \in [at : {"resting", "working", "written", "finished"}, task : 0 .. ListLength + 1]
             /\ AtATask' /\ batch'.at # "written"
  BY <1>0, <1>5 DEF Onward, AtATask, Todo
<1>6. CASE MarkDone
  <2>1. /\ batch.at = "written" /\ batch' = Onward /\ batch.task \in Todo
        /\ UNCHANGED <<kind, results, written, harm>>
        /\ \/ point.torn /\ point' = point
           \/ ~ point.torn /\ point' = [point EXCEPT !.there = TRUE, !.done = point.done \cup {batch.task}]
    BY <1>0, <1>6 DEF MarkDone, WithDone, AtATask
  <2>2. point' \in [there : BOOLEAN, torn : BOOLEAN, total : {0, ListLength}, done : SUBSET Todo]
        /\ point'.torn = point.torn /\ point'.done \subseteq point.done \cup {batch.task}
    <3>1. point \in [there : BOOLEAN, torn : BOOLEAN, total : {0, ListLength}, done : SUBSET Todo]
      BY <1>0 DEF BatchTyped
    <3>2. CASE point' = point
      BY <3>1, <3>2
    <3>3. CASE point' = [point EXCEPT !.there = TRUE, !.done = point.done \cup {batch.task}]
      <4>1. (point.done \cup {batch.task}) \in SUBSET Todo
        BY <2>1, <3>1
      <4>2. \A more \in SUBSET Todo :
              LET next == [point EXCEPT !.there = TRUE, !.done = more] IN
              /\ next \in [there : BOOLEAN, torn : BOOLEAN, total : {0, ListLength}, done : SUBSET Todo]
              /\ next.torn = point.torn /\ next.done = more
        BY <3>1
      <4>3. QED
        BY <3>3, <4>1, <4>2
    <3>4. QED
      BY <2>1, <3>2, <3>3
  <2>3. NothingLost'
    BY <1>0, <1>5, <2>1, <2>2 DEF NothingLost, HasRow
  <2>4. QED
    BY <1>0, <1>1, <1>5, <2>1, <2>2, <2>3 DEF BatchTyped
<1>7. CASE MarkLater \/ WriteFails
  <2>1. batch' = Onward /\ batch.task \in Todo /\ UNCHANGED <<kind, results, point, written, harm>>
    BY <1>0, <1>7 DEF MarkLater, WriteFails, AtATask
  <2>2. NothingLost'
    BY <1>0, <1>5, <2>1 DEF NothingLost, HasRow
  <2>3. QED
    BY <1>0, <1>1, <1>5, <2>1, <2>2 DEF BatchTyped
<1>8. ASSUME NEW outcome \in Outcomes, NEW given \in BOOLEAN, NEW why \in BOOLEAN,
             WriteResult(outcome, given, why)
      PROVE  BatchInv'
  <2> DEFINE new == NewRow(batch.task, outcome, given, why)
             rows == Readable
  <2>1. /\ batch.at = "working" /\ batch.task \in Todo
        /\ results' = [torn |-> FALSE, rows |-> Placed(rows, new)]
        /\ written' = [written EXCEPT ![batch.task] = outcome]
        /\ batch' = [batch EXCEPT !.at = "written"]
        /\ UNCHANGED <<kind, point, harm>>
    BY <1>0, <1>8 DEF WriteResult, AtATask
  <2>2. new \in RowStates /\ new.id = batch.task /\ new.status = outcome /\ (new.data => new.status = "found")
    <3>1. (given /\ outcome = "found") \in BOOLEAN
      OBVIOUS
    <3>2. QED
      BY <2>1, <3>1 DEF NewRow, RowStates
  <2>3. rows \in Seq(RowStates) /\ RowsAreRight(rows, written) /\ (harm.torn = 0 => rows = results.rows)
    <3>1. <<>> \in Seq(RowStates) /\ RowsAreRight(<<>>, written)
      BY DEF RowsAreRight
    <3>2. results.rows \in Seq(RowStates)
      BY <1>0 DEF BatchTyped
    <3>3. QED
      BY <1>0, <3>1, <3>2 DEF Readable, NothingLost
  <2> HIDE DEF new, rows
  <2>4. /\ results' \in [torn : BOOLEAN, rows : Seq(RowStates)] /\ results'.rows = Placed(rows, new)
        /\ ~ results'.torn
        /\ RowsAreRight(results'.rows, written')
        /\ \E j \in DOMAIN results'.rows : results'.rows[j].id = batch.task
        /\ \A i \in Todo : (\E j \in DOMAIN rows : rows[j].id = i)
                            => \E j \in DOMAIN results'.rows : results'.rows[j].id = i
    <3>1. /\ Placed(rows, new) \in Seq(RowStates)
          /\ RowsAreRight(Placed(rows, new), [written EXCEPT ![new.id] = new.status])
          /\ \E j \in DOMAIN Placed(rows, new) : Placed(rows, new)[j].id = new.id
          /\ \A i \in Todo : (\E j \in DOMAIN rows : rows[j].id = i)
                              => \E j \in DOMAIN Placed(rows, new) : Placed(rows, new)[j].id = i
      BY <1>0, <2>2, <2>3, PlacedIsRight
    <3>2. results' = [torn |-> FALSE, rows |-> Placed(rows, new)]
      BY <2>1 DEF rows, new
    <3>3. results'.rows = Placed(rows, new) /\ results'.torn = FALSE
      BY <3>2
    <3>4. results' \in [torn : BOOLEAN, rows : Seq(RowStates)]
      BY <3>1, <3>2
    <3>5. [written EXCEPT ![new.id] = new.status] = written'
      BY <2>1, <2>2
    <3>6. RowsAreRight(results'.rows, written')
      BY <3>1, <3>3, <3>5
    <3>7. \E j \in DOMAIN results'.rows : results'.rows[j].id = batch.task
      BY <2>2, <3>1, <3>3
    <3>8. QED
      BY <3>1, <3>3, <3>4, <3>6, <3>7
  <2>5. /\ batch' \in [at : {"resting", "working", "written", "finished"}, task : 0 .. ListLength + 1]
        /\ batch'.task = batch.task /\ written' \in [Todo -> Outcomes \cup {"none"}] /\ AtATask'
    BY <1>0, <2>1 DEF BatchTyped, AtATask
  <2>6. NothingLost'
    <3>1. harm.torn = 0 => \A i \in point.done : HasRow(i)
      BY <1>0 DEF NothingLost
    <3>2. point.done \subseteq Todo
      BY <1>0 DEF BatchTyped
    <3>3. batch'.at = "written" /\ point' = point /\ harm' = harm
      BY <1>0, <2>1 DEF BatchTyped
    <3>4. harm.torn = 0 => ~ point.torn
      BY <1>0 DEF NothingLost
    <3>5. HasRow(batch.task)'
      BY <2>4, <2>5 DEF HasRow
    <3>6. harm.torn = 0 => \A i \in point.done : HasRow(i)'
      BY <2>3, <2>4, <3>1, <3>2 DEF HasRow
    <3>7. QED
      BY <2>4, <3>3, <3>4, <3>5, <3>6 DEF NothingLost
  <2>7. RowsAreRight(results.rows, written)'
    BY <2>1, <2>4 DEF RowsAreRight
  <2>8. QED
    BY <1>0, <2>1, <2>4, <2>5, <2>6, <2>7 DEF BatchInv, BatchTyped
<1>9. CASE Interrupted
  <2>1. /\ batch' = [at |-> "resting", task |-> 0] /\ harm' = [harm EXCEPT !.stops = @ + 1]
        /\ UNCHANGED <<kind, results, point, written>>
    BY <1>9 DEF Interrupted
  <2>2. harm' \in [stops : Nat, torn : Nat] /\ harm'.torn = harm.torn
    BY <1>0, <2>1 DEF BatchTyped
  <2>3. batch' \in [at : {"resting", "working", "written", "finished"}, task : 0 .. ListLength + 1]
        /\ AtATask' /\ batch'.at = "resting"
    BY <1>0, <2>1 DEF AtATask
  <2>4. NothingLost'
    BY <1>0, <2>1, <2>2, <2>3 DEF NothingLost, HasRow
  <2>5. QED
    BY <1>0, <1>1, <2>1, <2>2, <2>3, <2>4 DEF BatchTyped
<1>10. CASE TornWhileWriting
  <2>1. /\ harm' = [harm EXCEPT !.torn = @ + 1] /\ batch' = [at |-> "resting", task |-> 0]
        /\ UNCHANGED <<kind, written>>
        /\ results' = [results EXCEPT !.torn = TRUE] \/ results' = results
        /\ point' = [point EXCEPT !.there = TRUE, !.torn = TRUE] \/ point' = point
    BY <1>10 DEF TornWhileWriting
  <2>2. harm' \in [stops : Nat, torn : Nat] /\ harm'.torn # 0
    BY <1>0, <2>1 DEF BatchTyped
  <2>3. batch' \in [at : {"resting", "working", "written", "finished"}, task : 0 .. ListLength + 1] /\ AtATask'
    BY <1>0, <2>1 DEF AtATask
  <2>4. /\ results' \in [torn : BOOLEAN, rows : Seq(RowStates)] /\ results'.rows = results.rows
        /\ point' \in [there : BOOLEAN, torn : BOOLEAN, total : {0, ListLength}, done : SUBSET Todo]
    BY <1>0, <2>1, ZenonT(40) DEF BatchTyped
  <2>5. RowsAreRight(results.rows, written)'
    BY <1>0, <2>1, <2>4 DEF RowsAreRight
  <2>6. QED
    BY <1>0, <2>1, <2>2, <2>3, <2>4, <2>5 DEF BatchInv, BatchTyped, NothingLost
<1>11. CASE UNCHANGED batchState
  <2>1. AtATask' /\ NothingLost'
    BY <1>0, <1>11 DEF batchState, AtATask, NothingLost, HasRow
  <2>2. QED
    BY <1>0, <1>1, <1>11, <2>1 DEF batchState, BatchTyped
<1>12. QED
  <2>1. (\E outcome \in Outcomes, given \in BOOLEAN : WriteResult(outcome, given, FALSE))
          \/ WriteResult("error", FALSE, TRUE) => BatchInv'
    BY <1>8 DEF Outcomes
  <2>2. QED
    BY <1>3, <1>4, <1>6, <1>7, <1>9, <1>10, <1>11, <2>1 DEF BatchNext

\* Checkpoint and results tell one story, for a list of any length and in whatever
\* order the scripts are called, fail or are interrupted: what is done has its row, with
\* the status of the last attempt, and a task has one.
THEOREM CheckpointAgrees == BatchSpec => []ResultsMatch
<1>1. BatchInv => DoneHasRow
  <2> SUFFICES ASSUME BatchInv, harm.torn = 0, NEW i \in point.done
               PROVE  \E j \in RowsOf(i) : results.rows[j].status = written[i]
    BY DEF DoneHasRow
  <2>1. PICK j \in DOMAIN results.rows : results.rows[j].id = i
    BY DEF BatchInv, NothingLost, HasRow
  <2>2. results.rows[j].status = written[results.rows[j].id]
    BY DEF BatchInv, RowsAreRight
  <2>3. QED
    BY <2>1, <2>2 DEF RowsOf
<1>2. BatchInv => AllDoneIsAllRows
  <2> SUFFICES ASSUME BatchInv, harm.torn = 0, point.total = ListLength, LoadIndex > ListLength, NEW i \in Todo
               PROVE  RowsOf(i) # {}
    BY DEF AllDoneIsAllRows
  <2>1. ListLength \in Nat /\ i \in 1 .. ListLength
    BY BatchAssumption DEF Todo
  <2>2. LoadIndex # 1
    BY <2>1
  <2>3. FirstOpen(point.done, point.total) > point.total
    BY <2>2 DEF LoadIndex
  <2>4. i \in point.done
    BY <2>1, <2>3, FirstOpenIsOpen
  <2>5. HasRow(i)
    BY <2>4 DEF BatchInv, NothingLost
  <2>6. QED
    BY <2>5 DEF HasRow, RowsOf
<1>3. BatchInv => OneRowEach
  BY DEF BatchInv, RowsAreRight, OneRowEach, RowsOf
<1>4. QED
  BY BatchInitOK, BatchStep, <1>1, <1>2, <1>3, PTL DEF BatchSpec, ResultsMatch

----------------------------------------------------------------------------
(* Subagents, for every set of tasks, number of workers, timeout and buffer. *)
(* IInv is one inductive invariant in four parts: the scheduler queue, the   *)
(* life of a task, its shared object, and time.                              *)


Active == {"polling", "sleeping", "awake"}

\* The scheduler queue holds each queued task once.
QueueInv ==
    /\ \A i \in 1 .. Len(schedQ) : sched[schedQ[i]] = "queued"
    /\ \A i, j \in 1 .. Len(schedQ) : schedQ[i] = schedQ[j] => i = j

\* How far the three threads of a task can be apart.
LifeInv(t) ==
    /\ poller[t] = "idle" => sched[t] = "none"
    /\ sched[t] = "none" => poller[t] = "idle" /\ polls[t] = 0 /\ delay[t] = 0
    /\ sched[t] \in {"none", "queued"} => exec[t] = "none" /\ waited[t] = 0
    /\ sched[t] = "expiring" => waited[t] = Timeout
    /\ poller[t] \in Active \cup {"cleaning"} => t \in registry
    /\ verdict[t] # "disappeared"

\* What the shared object says about the threads that write it.
ObjectInv(t) ==
    /\ status[t] = "completed" \/ verdict[t] = "completed" \/ exec[t] = "answered" => result[t]
    /\ exec[t] = "returned" => status[t] \in Terminal
    /\ sched[t] \in {"none", "queued"} =>
          (status[t] = "pending" /\ ~completed_at[t]) \/ cancel_requested[t]
    /\ sched[t] = "done" /\ t \in registry =>
          /\ status[t] \in Terminal
          /\ waited[t] < Timeout => exec[t] = "returned"
          /\ waited[t] < Timeout /\ cancel_requested[t] => status[t] = "failed"
    /\ exec[t] = "queued" /\ ~cancel_requested[t] =>
          /\ sched[t] \in {"waiting", "expiring"}
          /\ status[t] = "running" /\ ~completed_at[t]
          /\ t \in registry

\* The polling loop and the scheduler see the same clock.
TimeInv(t) ==
    /\ sched[t] \in {"queued", "waiting", "expiring"} =>
          /\ poller[t] \in {"polling", "sleeping"} => polls[t] = delay[t] + waited[t]
          /\ poller[t] = "awake" => polls[t] + 1 = delay[t] + waited[t]
    /\ sched[t] = "done" /\ poller[t] \in {"sleeping", "awake"} =>
          polls[t] <= delay[t] + Timeout
    /\ poller[t] \in {"polling", "sleeping", "awake"} => polls[t] <= MaxPollCount
    /\ verdict[t] = "poll_timeout" => delay[t] >= Buffer

IInv ==
    /\ TypeOK
    /\ QueueInv
    /\ \A t \in Tasks : LifeInv(t) /\ ObjectInv(t) /\ TimeInv(t)
----------------------------------------------------------------------------
(* The proofs. *)

\* The queue holds tasks; its head, if any, is queued and not in the rest.
LEMMA SchedQueueFacts ==
    ASSUME TypeOK, QueueInv
    PROVE  /\ \A i \in 1 .. Len(schedQ) : schedQ[i] \in Tasks /\ sched[schedQ[i]] = "queued"
           /\ schedQ # <<>> => /\ Head(schedQ) \in Tasks /\ sched[Head(schedQ)] = "queued"
                              /\ Tail(schedQ) \in Seq(Tasks)
                              /\ Len(Tail(schedQ)) = Len(schedQ) - 1
                              /\ \A i \in 1 .. Len(schedQ) - 1 :
                                    Tail(schedQ)[i] = schedQ[i + 1] /\ schedQ[i + 1] # Head(schedQ)
<1>1. schedQ \in Seq(Tasks) BY DEF TypeOK
<1>2. \A i \in 1 .. Len(schedQ) : schedQ[i] \in Tasks BY <1>1
<1>3. ASSUME schedQ # <<>> PROVE Len(schedQ) \in Nat /\ Len(schedQ) >= 1 /\ Head(schedQ) = schedQ[1]
  BY <1>1, <1>3
<1>4. ASSUME schedQ # <<>> PROVE Tail(schedQ) \in Seq(Tasks) /\ Len(Tail(schedQ)) = Len(schedQ) - 1
  BY <1>1, <1>4
<1>5. ASSUME schedQ # <<>>, NEW i \in 1 .. Len(schedQ) - 1 PROVE Tail(schedQ)[i] = schedQ[i + 1]
  BY <1>1, <1>3, <1>5
<1>6. ASSUME schedQ # <<>>, NEW i \in 1 .. Len(schedQ) - 1 PROVE schedQ[i + 1] # Head(schedQ)
  BY <1>3, <1>6 DEF QueueInv
<1> QED BY <1>2, <1>3, <1>4, <1>5, <1>6 DEF QueueInv

\* Every step keeps the types.
LEMMA TypeStep ==
    ASSUME IInv, [Next]_vars
    PROVE  TypeOK'
<1> USE DEF IInv
<1>1. ASSUME NEW t \in Tasks, ExecuteAsync(t) PROVE TypeOK'
  BY <1>1, SubagentsAssumption, SMTT(30) DEF TypeOK, ExecuteAsync, SchedStates, PollStates, Verdicts,
      Statuses, object, execution
<1>2. ASSUME NEW t \in Tasks, RunTask(t) PROVE TypeOK'
  <2>1. schedQ' \in Seq(Tasks) BY <1>2, SchedQueueFacts DEF RunTask
  <2>2. status' \in [Tasks -> Statuses] /\ sched' \in [Tasks -> SchedStates] /\ exec' \in [Tasks -> ExecStates]
    BY <1>2 DEF RunTask, TypeOK, Statuses, SchedStates, ExecStates
  <2>3. execQ' \in Seq(Tasks)
    <3>1. execQ' = Append(execQ, t) \/ execQ' = execQ BY <1>2 DEF RunTask
    <3>2. execQ \in Seq(Tasks) BY DEF TypeOK
    <3> QED BY <3>1, <3>2
  <2>4. UNCHANGED <<registry, result, completed_at, cancel_requested, waited, delay, age, poller, polls, verdict>>
    BY <1>2 DEF RunTask, polling
  <2> QED BY <2>1, <2>2, <2>3, <2>4 DEF TypeOK
<1>3. ASSUME NEW t \in Tasks, RunTaskFinish(t) PROVE TypeOK'
  BY <1>3, SubagentsAssumption DEF TypeOK, RunTaskFinish, WriteBack, SchedStates, Statuses,
      execution, polling
<1>4. ASSUME NEW t \in Tasks, RunTaskTimeout(t) PROVE TypeOK'
  BY <1>4, SubagentsAssumption DEF TypeOK, RunTaskTimeout, SchedStates, object, execution, polling
<1>5. ASSUME NEW t \in Tasks, RunTaskExpire(t) PROVE TypeOK'
  BY <1>5, SubagentsAssumption, ZenonT(40) DEF RunTaskExpire, CancelFuture, TypeOK, SchedStates, ExecStates,
      PollStates, Verdicts, Statuses, Terminal, MaxPollCount, object, scheduler, execution, polling
<1>6. ASSUME NEW t \in Tasks, ExecStart(t) PROVE TypeOK'
  <2>1. execQ' \in Seq(Tasks) BY <1>6 DEF ExecStart, TypeOK
  <2>2. exec' \in [Tasks -> ExecStates] BY <1>6 DEF ExecStart, TypeOK, ExecStates
  <2> QED BY <1>6, <2>1, <2>2 DEF ExecStart, TypeOK, object, scheduler, execution, polling, vars
<1>7. ASSUME NEW t \in Tasks, ExecSeesCancel(t) PROVE TypeOK'
  BY <1>7, SubagentsAssumption DEF TypeOK, ExecSeesCancel, ExecEnd, ExecStates, Statuses,
      scheduler, polling
<1>8. ASSUME NEW t \in Tasks, ExecError(t) PROVE TypeOK'
  BY <1>8, SubagentsAssumption DEF TypeOK, ExecError, ExecEnd, ExecStates, Statuses, scheduler,
      polling
<1>9. ASSUME NEW t \in Tasks, ExecTimeout(t) PROVE TypeOK'
  BY <1>9, SubagentsAssumption DEF TypeOK, ExecTimeout, ExecEnd, ExecStates, Statuses,
      scheduler, polling
<1>10. ASSUME NEW t \in Tasks, ExecAnswer(t) PROVE TypeOK'
  BY <1>10, SubagentsAssumption DEF TypeOK, ExecAnswer, ExecStates, scheduler, polling
<1>11. ASSUME NEW t \in Tasks, ExecComplete(t) PROVE TypeOK'
  BY <1>11, SubagentsAssumption DEF TypeOK, ExecComplete, ExecEnd, ExecStates, Statuses,
      scheduler, polling
<1>12. ASSUME NEW t \in Tasks, Poll(t) PROVE TypeOK'
  <2>1. poller' \in [Tasks -> PollStates] BY <1>12 DEF Poll, TypeOK, PollStates
  <2>2. verdict' \in [Tasks -> Verdicts]
    <3>1. status[t] \in Terminal => status[t] \in Verdicts BY DEF Terminal, Verdicts
    <3> QED BY <1>12, <3>1 DEF Poll, TypeOK, Verdicts, object, scheduler, execution, polling, vars
  <2> QED BY <1>12, <2>1, <2>2 DEF Poll, TypeOK, object, scheduler, execution, polling, vars
<1>13. ASSUME NEW t \in Tasks, Cleanup(t) PROVE TypeOK'
  BY <1>13, SubagentsAssumption DEF TypeOK, Cleanup, PollStates, object, scheduler, execution
<1>14. ASSUME NEW t \in Tasks, PollWake(t) PROVE TypeOK'
  <2>1. polls[t] + 1 \in 0 .. Timeout + Buffer + 1
    BY <1>14, SubagentsAssumption DEF PollWake, TypeOK, TimeInv, MaxPollCount
  <2>2. polls' \in [Tasks -> 0 .. Timeout + Buffer + 1] BY <1>14, <2>1 DEF PollWake, TypeOK
  <2>3. poller' \in [Tasks -> PollStates] /\ verdict' \in [Tasks -> Verdicts]
    BY <1>14 DEF PollWake, TypeOK, PollStates, Verdicts
  <2> QED BY <1>14, <2>2, <2>3 DEF PollWake, TypeOK, object, scheduler, execution, polling, vars
<1>15. ASSUME NEW th \in Threads, CancelThread(th) PROVE TypeOK'
  BY <1>15, SubagentsAssumption DEF TypeOK, CancelThread, Cancellable, Statuses, scheduler,
      execution, polling
<1>16. CASE Tick
  <2>1. waited' \in [Tasks -> 0 .. Timeout]
    <3>1. ASSUME NEW u \in Tasks PROVE waited'[u] \in 0 .. Timeout
      <4>1. sched[u] = "waiting" => waited[u] < Timeout BY <1>16 DEF Tick, Quiescent, SchedBusy
      <4> QED BY <1>16, <4>1, SubagentsAssumption DEF Tick, TypeOK
    <3> QED BY <1>16, <3>1 DEF Tick
  <2>2. delay' \in [Tasks -> Nat] BY <1>16 DEF Tick, TypeOK
  <2>3. age' \in [Tasks -> 0 .. Timeout] BY <1>16, SubagentsAssumption DEF Tick, TypeOK
  <2>4. poller' \in [Tasks -> PollStates] BY <1>16 DEF Tick, TypeOK, PollStates
  <2> QED BY <1>16, <2>1, <2>2, <2>3, <2>4 DEF Tick, TypeOK, object, scheduler, execution,
      polling, vars
<1>17. CASE UNCHANGED vars
  BY <1>17 DEF TypeOK, object, scheduler, execution, polling, vars
<1> QED
  BY <1>1, <1>2, <1>3, <1>4, <1>5, <1>6, <1>7, <1>8, <1>9, <1>10, <1>11, <1>12, <1>13, <1>14,
      <1>15, <1>16, <1>17 DEF Next, SchedulerStep, ExecutionStep, PollerStep

\* Submission queues a task that is not queued, a worker takes the first.
LEMMA QueueStep ==
    ASSUME TypeOK, QueueInv, \A t \in Tasks : LifeInv(t), [Next]_vars
    PROVE  QueueInv'
<1>1. ASSUME NEW t \in Tasks, ExecuteAsync(t) PROVE QueueInv'
  <2>1. schedQ \in Seq(Tasks) BY DEF TypeOK
  <2>3. \A i \in 1 .. Len(schedQ) : schedQ[i] # t
    BY <1>1, SchedQueueFacts DEF ExecuteAsync, LifeInv
  <2>4. Len(schedQ') = Len(schedQ) + 1 /\ Len(schedQ) \in Nat /\ schedQ'[Len(schedQ) + 1] = t
    BY <1>1, <2>1 DEF ExecuteAsync
  <2>5. \A i \in 1 .. Len(schedQ) : schedQ'[i] = schedQ[i]
    BY <1>1, <2>1 DEF ExecuteAsync
  <2>6. \A i \in 1 .. Len(schedQ') : i \in 1 .. Len(schedQ) \/ i = Len(schedQ) + 1
    BY <2>4
  <2>7. sched' = [sched EXCEPT ![t] = "queued"] BY <1>1 DEF ExecuteAsync
  <2>8. \A i \in 1 .. Len(schedQ') : sched'[schedQ'[i]] = "queued"
    BY <2>3, <2>4, <2>5, <2>6, <2>7, SchedQueueFacts DEF TypeOK
  <2>9. \A i, j \in 1 .. Len(schedQ') : schedQ'[i] = schedQ'[j] => i = j
    BY <2>3, <2>4, <2>5, <2>6 DEF QueueInv
  <2> QED BY <2>8, <2>9 DEF QueueInv
<1>2. ASSUME NEW t \in Tasks, RunTask(t) PROVE QueueInv'
  <2>1. /\ Len(schedQ') = Len(schedQ) - 1 /\ Len(schedQ) \in Nat
        /\ \A i \in 1 .. Len(schedQ) - 1 : schedQ'[i] = schedQ[i + 1] /\ schedQ[i + 1] # t
    <3>1. schedQ # <<>> /\ t = Head(schedQ) /\ schedQ' = Tail(schedQ) BY <1>2 DEF RunTask
    <3>2. schedQ \in Seq(Tasks) BY DEF TypeOK
    <3>3. Len(schedQ) \in Nat BY <3>2
    <3> QED BY <3>1, <3>3, SchedQueueFacts
  <2>2. \A u \in Tasks \ {t} : sched'[u] = sched[u] BY <1>2 DEF RunTask, TypeOK
  <2>3. \A i \in 1 .. Len(schedQ) - 1 :
           i + 1 \in 1 .. Len(schedQ) /\ sched[schedQ[i + 1]] = "queued" /\ schedQ[i + 1] \in Tasks \ {t}
    BY <2>1, SchedQueueFacts
  <2>4. \A i \in 1 .. Len(schedQ') : sched'[schedQ'[i]] = "queued"
    BY <2>1, <2>2, <2>3
  <2>5. \A i, j \in 1 .. Len(schedQ') : schedQ'[i] = schedQ'[j] => i = j
    <3> SUFFICES ASSUME NEW i \in 1 .. Len(schedQ'), NEW j \in 1 .. Len(schedQ'), schedQ'[i] = schedQ'[j]
                 PROVE  i = j
      OBVIOUS
    <3>1. schedQ[i + 1] = schedQ[j + 1] BY <2>1
    <3>2. i + 1 = j + 1 BY <2>1, <2>3, <3>1 DEF QueueInv
    <3> QED BY <3>2, <2>1
  <2> QED BY <2>4, <2>5 DEF QueueInv
<1>3. ASSUME NEW t \in Tasks, RunTaskFinish(t) PROVE QueueInv'
  <2>1. sched[t] = "waiting" /\ UNCHANGED schedQ /\ \A u \in Tasks \ {t} : sched'[u] = sched[u]
    BY <1>3 DEF RunTaskFinish
  <2>2. \A i \in 1 .. Len(schedQ) : schedQ[i] \in Tasks \ {t} BY <2>1, SchedQueueFacts
  <2> QED BY <2>1, <2>2 DEF QueueInv
<1>4. ASSUME NEW t \in Tasks, RunTaskTimeout(t) PROVE QueueInv'
  <2>1. sched[t] = "waiting" /\ UNCHANGED schedQ /\ \A u \in Tasks \ {t} : sched'[u] = sched[u]
    BY <1>4 DEF RunTaskTimeout
  <2>2. \A i \in 1 .. Len(schedQ) : schedQ[i] \in Tasks \ {t} BY <2>1, SchedQueueFacts
  <2> QED BY <2>1, <2>2 DEF QueueInv
<1>5. ASSUME NEW t \in Tasks, RunTaskExpire(t) PROVE QueueInv'
  <2>1. sched[t] = "expiring" /\ UNCHANGED schedQ /\ \A u \in Tasks \ {t} : sched'[u] = sched[u]
    BY <1>5 DEF RunTaskExpire
  <2>2. \A i \in 1 .. Len(schedQ) : schedQ[i] \in Tasks \ {t} BY <2>1, SchedQueueFacts
  <2> QED BY <2>1, <2>2 DEF QueueInv
<1>6. ASSUME NEW t \in Tasks, ExecStart(t) PROVE QueueInv'
  BY <1>6, SubagentsAssumption DEF ExecStart, TypeOK, QueueInv, scheduler
<1>7. ASSUME NEW t \in Tasks, ExecSeesCancel(t) PROVE QueueInv'
  BY <1>7, SubagentsAssumption DEF ExecSeesCancel, ExecEnd, TypeOK, QueueInv, scheduler
<1>8. ASSUME NEW t \in Tasks, ExecError(t) PROVE QueueInv'
  BY <1>8, SubagentsAssumption DEF ExecError, ExecEnd, TypeOK, QueueInv, scheduler
<1>9. ASSUME NEW t \in Tasks, ExecTimeout(t) PROVE QueueInv'
  BY <1>9, SubagentsAssumption DEF ExecTimeout, ExecEnd, TypeOK, QueueInv, scheduler
<1>10. ASSUME NEW t \in Tasks, ExecAnswer(t) PROVE QueueInv'
  BY <1>10, SubagentsAssumption DEF ExecAnswer, TypeOK, QueueInv, scheduler
<1>11. ASSUME NEW t \in Tasks, ExecComplete(t) PROVE QueueInv'
  BY <1>11, SubagentsAssumption DEF ExecComplete, ExecEnd, TypeOK, QueueInv, scheduler
<1>12. ASSUME NEW t \in Tasks, Poll(t) PROVE QueueInv'
  BY <1>12, SubagentsAssumption DEF Poll, TypeOK, QueueInv, scheduler
<1>13. ASSUME NEW t \in Tasks, Cleanup(t) PROVE QueueInv'
  BY <1>13, SubagentsAssumption DEF Cleanup, TypeOK, QueueInv, scheduler
<1>14. ASSUME NEW t \in Tasks, PollWake(t) PROVE QueueInv'
  BY <1>14, SubagentsAssumption DEF PollWake, MaxPollCount, TypeOK, QueueInv, scheduler
<1>15. ASSUME NEW th \in Threads, CancelThread(th) PROVE QueueInv'
  BY <1>15, SubagentsAssumption DEF CancelThread, Cancellable, TypeOK, QueueInv, scheduler
<1>16. CASE Tick
  BY <1>16, SubagentsAssumption DEF Tick, Quiescent, SchedBusy, TypeOK, QueueInv
<1>17. CASE UNCHANGED vars
  BY <1>17 DEF TypeOK, QueueInv, scheduler, vars
<1> QED
  BY <1>1, <1>2, <1>3, <1>4, <1>5, <1>6, <1>7, <1>8, <1>9, <1>10, <1>11, <1>12, <1>13, <1>14,
      <1>15, <1>16, <1>17 DEF Next, SchedulerStep, ExecutionStep, PollerStep

\* Every step keeps the three threads of a task together.
LEMMA LifeStep ==
    ASSUME TypeOK, QueueInv, \A t \in Tasks : LifeInv(t), [Next]_vars
    PROVE  (\A t \in Tasks : LifeInv(t))'
<1> SUFFICES ASSUME NEW u \in Tasks
             PROVE  LifeInv(u)'
  OBVIOUS
<1>1. ASSUME NEW t \in Tasks, ExecuteAsync(t) PROVE LifeInv(u)'
  BY <1>1, SubagentsAssumption DEF ExecuteAsync, TypeOK, SchedStates, LifeInv, execution
<1>2. ASSUME NEW t \in Tasks, RunTask(t) PROVE LifeInv(u)'
  <2>1. sched[t] = "queued" BY <1>2, SchedQueueFacts DEF RunTask
  <2>2. /\ UNCHANGED <<registry, waited, delay, poller, polls, verdict>>
        /\ sched' \in {[sched EXCEPT ![t] = "waiting"], [sched EXCEPT ![t] = "done"]}
        /\ exec' \in {[exec EXCEPT ![t] = "queued"], exec}
    BY <1>2 DEF RunTask, polling
  <2> QED BY <2>1, <2>2 DEF TypeOK, SchedStates, ExecStates, PollStates, Verdicts, Statuses,
      Terminal, LifeInv, Active
<1>3. ASSUME NEW t \in Tasks, RunTaskFinish(t) PROVE LifeInv(u)'
  BY <1>3, SubagentsAssumption DEF RunTaskFinish, WriteBack, TypeOK, SchedStates, LifeInv,
      execution, polling
<1>4. ASSUME NEW t \in Tasks, RunTaskTimeout(t) PROVE LifeInv(u)'
  BY <1>4, SubagentsAssumption DEF RunTaskTimeout, TypeOK, SchedStates, LifeInv, execution, polling
<1>5. ASSUME NEW t \in Tasks, RunTaskExpire(t) PROVE LifeInv(u)'
  BY <1>5, SubagentsAssumption, SMTT(30) DEF RunTaskExpire, CancelFuture, TypeOK, SchedStates, LifeInv,
      polling
<1>6. ASSUME NEW t \in Tasks, ExecStart(t) PROVE LifeInv(u)'
  BY <1>6, SubagentsAssumption DEF ExecStart, TypeOK, SchedStates, LifeInv, Active, object,
      scheduler, execution, polling, vars
<1>7. ASSUME NEW t \in Tasks, ExecSeesCancel(t) PROVE LifeInv(u)'
  BY <1>7, SubagentsAssumption DEF ExecSeesCancel, ExecEnd, TypeOK, SchedStates, LifeInv,
      scheduler, polling
<1>8. ASSUME NEW t \in Tasks, ExecError(t) PROVE LifeInv(u)'
  BY <1>8, SubagentsAssumption DEF ExecError, ExecEnd, TypeOK, SchedStates, LifeInv, scheduler,
      polling
<1>9. ASSUME NEW t \in Tasks, ExecTimeout(t) PROVE LifeInv(u)'
  BY <1>9, SubagentsAssumption DEF ExecTimeout, ExecEnd, TypeOK, SchedStates, LifeInv,
      scheduler, polling
<1>10. ASSUME NEW t \in Tasks, ExecAnswer(t) PROVE LifeInv(u)'
  BY <1>10, SubagentsAssumption DEF ExecAnswer, TypeOK, SchedStates, LifeInv, scheduler, polling
<1>11. ASSUME NEW t \in Tasks, ExecComplete(t) PROVE LifeInv(u)'
  BY <1>11, SubagentsAssumption DEF ExecComplete, ExecEnd, TypeOK, SchedStates, LifeInv,
      scheduler, polling
<1>12. ASSUME NEW t \in Tasks, Poll(t) PROVE LifeInv(u)'
  BY <1>12, SubagentsAssumption DEF Poll, TypeOK, SchedStates, ExecStates, PollStates, Verdicts,
      Statuses, Terminal, QueueInv, LifeInv, Active, object, scheduler, execution, polling, vars
<1>13. ASSUME NEW t \in Tasks, Cleanup(t) PROVE LifeInv(u)'
  BY <1>13, SubagentsAssumption DEF Cleanup, TypeOK, SchedStates, LifeInv, Active, scheduler,
      execution
<1>14. ASSUME NEW t \in Tasks, PollWake(t) PROVE LifeInv(u)'
  BY <1>14, SubagentsAssumption DEF PollWake, MaxPollCount, TypeOK, SchedStates, Statuses,
      LifeInv, Active, scheduler, execution
<1>15. ASSUME NEW th \in Threads, CancelThread(th) PROVE LifeInv(u)'
  BY <1>15, SubagentsAssumption DEF CancelThread, Cancellable, TypeOK, SchedStates, LifeInv,
      scheduler, execution, polling
<1>16. CASE Tick
  BY <1>16, SubagentsAssumption DEF Tick, Quiescent, SchedBusy, TypeOK, SchedStates, LifeInv, Active
<1>17. CASE UNCHANGED vars
  BY <1>17 DEF TypeOK, SchedStates, LifeInv, scheduler, execution, polling, vars
<1> QED
  BY <1>1, <1>2, <1>3, <1>4, <1>5, <1>6, <1>7, <1>8, <1>9, <1>10, <1>11, <1>12, <1>13, <1>14,
      <1>15, <1>16, <1>17 DEF Next, SchedulerStep, ExecutionStep, PollerStep

\* Every step keeps the shared object in line with its writers.
LEMMA ObjectStep ==
    ASSUME TypeOK, QueueInv, \A t \in Tasks : LifeInv(t) /\ ObjectInv(t), [Next]_vars
    PROVE  (\A t \in Tasks : ObjectInv(t))'
<1> SUFFICES ASSUME NEW u \in Tasks
             PROVE  ObjectInv(u)'
  OBVIOUS
<1>1. ASSUME NEW t \in Tasks, ExecuteAsync(t) PROVE ObjectInv(u)'
  BY <1>1, SubagentsAssumption DEF ExecuteAsync, TypeOK, SchedStates, ExecStates, LifeInv,
      ObjectInv, object, execution
<1>2. ASSUME NEW t \in Tasks, RunTask(t) PROVE ObjectInv(u)'
  <2>1. sched[t] = "queued" BY <1>2, SchedQueueFacts DEF RunTask
  <2>2. UNCHANGED <<registry, result, completed_at, cancel_requested, waited, verdict>>
    BY <1>2 DEF RunTask, polling
  <2>3. CASE t \in registry
    <3>1. /\ status' = [status EXCEPT ![t] = "running"]
          /\ sched' = [sched EXCEPT ![t] = "waiting"]
          /\ exec' = [exec EXCEPT ![t] = "queued"]
      BY <1>2, <2>3 DEF RunTask
    <3>2. \A w \in Tasks \ {t} : status'[w] = status[w] /\ sched'[w] = sched[w] /\ exec'[w] = exec[w]
      BY <3>1 DEF TypeOK
    <3>3. status'[t] = "running" /\ sched'[t] = "waiting" /\ exec'[t] = "queued" BY <3>1 DEF TypeOK
    <3>4. CASE u = t
      BY <3>3, <3>4, <2>1, <2>2, <2>3 DEF ObjectInv
    <3>5. CASE u # t
      BY <3>2, <3>5, <2>2 DEF ObjectInv
    <3> QED BY <3>4, <3>5
  <2>4. CASE t \notin registry
    <3>1. UNCHANGED <<status, exec>> /\ sched' = [sched EXCEPT ![t] = "done"] BY <1>2, <2>4 DEF
        RunTask
    <3>2. \A w \in Tasks \ {t} : sched'[w] = sched[w] BY <3>1 DEF TypeOK
    <3>3. sched'[t] = "done" BY <3>1 DEF TypeOK
    <3>4. CASE u = t BY <3>1, <3>3, <3>4, <2>1, <2>2, <2>4 DEF ObjectInv, LifeInv
    <3>5. CASE u # t BY <3>1, <3>2, <3>5, <2>2 DEF ObjectInv
    <3> QED BY <3>4, <3>5
  <2> QED BY <2>3, <2>4
<1>3. ASSUME NEW t \in Tasks, RunTaskFinish(t) PROVE ObjectInv(u)'
  BY <1>3, SubagentsAssumption DEF RunTaskFinish, WriteBack, TypeOK, SchedStates, ExecStates,
      Terminal, ObjectInv, execution, polling
<1>4. ASSUME NEW t \in Tasks, RunTaskTimeout(t) PROVE ObjectInv(u)'
  BY <1>4, SubagentsAssumption DEF RunTaskTimeout, TypeOK, SchedStates, ExecStates, ObjectInv,
      object, execution, polling
<1>5. ASSUME NEW t \in Tasks, RunTaskExpire(t) PROVE ObjectInv(u)'
  BY <1>5, SubagentsAssumption, SMTT(30) DEF RunTaskExpire, CancelFuture, TypeOK, SchedStates, ExecStates,
      Terminal, LifeInv, ObjectInv, polling
<1>6. ASSUME NEW t \in Tasks, ExecStart(t) PROVE ObjectInv(u)'
  <2>1. UNCHANGED <<registry, object, sched, waited, verdict>> BY <1>6 DEF ExecStart, object,
      scheduler, execution, polling, vars
  <2>2. exec'[u] = exec[u] \/ (exec[u] = "queued" /\ exec'[u] = "streaming")
    BY <1>6 DEF ExecStart, TypeOK
  <2> QED BY <2>1, <2>2 DEF ObjectInv, LifeInv, object
<1>7. ASSUME NEW t \in Tasks, ExecSeesCancel(t) PROVE ObjectInv(u)'
  BY <1>7, SubagentsAssumption DEF ExecSeesCancel, ExecEnd, TypeOK, SchedStates, ExecStates,
      Terminal, ObjectInv, scheduler, polling
<1>8. ASSUME NEW t \in Tasks, ExecError(t) PROVE ObjectInv(u)'
  BY <1>8, SubagentsAssumption DEF ExecError, ExecEnd, TypeOK, SchedStates, ExecStates,
      Terminal, LifeInv, ObjectInv, scheduler, polling
<1>9. ASSUME NEW t \in Tasks, ExecTimeout(t) PROVE ObjectInv(u)'
  BY <1>9, SubagentsAssumption DEF ExecTimeout, ExecEnd, TypeOK, SchedStates, ExecStates,
      Terminal, LifeInv, ObjectInv, scheduler, polling
<1>10. ASSUME NEW t \in Tasks, ExecAnswer(t) PROVE ObjectInv(u)'
  BY <1>10, SubagentsAssumption DEF ExecAnswer, TypeOK, SchedStates, ExecStates, ObjectInv,
      scheduler, polling
<1>11. ASSUME NEW t \in Tasks, ExecComplete(t) PROVE ObjectInv(u)'
  BY <1>11, SubagentsAssumption DEF ExecComplete, ExecEnd, TypeOK, SchedStates, ExecStates,
      Terminal, LifeInv, ObjectInv, scheduler, polling
<1>12. ASSUME NEW t \in Tasks, Poll(t) PROVE ObjectInv(u)'
  BY <1>12, SubagentsAssumption DEF Poll, TypeOK, SchedStates, ExecStates, ObjectInv, object,
      scheduler, execution
<1>13. ASSUME NEW t \in Tasks, Cleanup(t) PROVE ObjectInv(u)'
  BY <1>13, SubagentsAssumption DEF Cleanup, TypeOK, SchedStates, ExecStates, Terminal,
      ObjectInv, object, scheduler, execution
<1>14. ASSUME NEW t \in Tasks, PollWake(t) PROVE ObjectInv(u)'
  BY <1>14, SubagentsAssumption DEF PollWake, MaxPollCount, TypeOK, SchedStates, ExecStates,
      ObjectInv, object, scheduler, execution
<1>15. ASSUME NEW th \in Threads, CancelThread(th) PROVE ObjectInv(u)'
  BY <1>15, SubagentsAssumption DEF CancelThread, Cancellable, TypeOK, SchedStates, ExecStates,
      ObjectInv, scheduler, execution, polling
<1>16. CASE Tick
  BY <1>16, SubagentsAssumption DEF Tick, Quiescent, SchedBusy, TypeOK, SchedStates, ExecStates,
      ObjectInv, object
<1>17. CASE UNCHANGED vars
  BY <1>17 DEF TypeOK, SchedStates, ExecStates, ObjectInv, object, scheduler, execution,
      polling, vars
<1> QED
  BY <1>1, <1>2, <1>3, <1>4, <1>5, <1>6, <1>7, <1>8, <1>9, <1>10, <1>11, <1>12, <1>13, <1>14,
      <1>15, <1>16, <1>17 DEF Next, SchedulerStep, ExecutionStep, PollerStep

\* Every step keeps the poller's and the scheduler's clocks together.
LEMMA TimeStep ==
    ASSUME IInv, [Next]_vars
    PROVE  (\A t \in Tasks : TimeInv(t))'
<1> SUFFICES ASSUME NEW u \in Tasks
             PROVE  TimeInv(u)'
  OBVIOUS
<1>1. ASSUME NEW t \in Tasks, ExecuteAsync(t) PROVE TimeInv(u)'
  BY <1>1, SubagentsAssumption DEF ExecuteAsync, TypeOK, SchedStates, ExecStates, PollStates,
      Verdicts, Statuses, IInv, LifeInv, TimeInv, MaxPollCount
<1>2. ASSUME NEW t \in Tasks, RunTask(t) PROVE TimeInv(u)'
  <2>1. sched[t] = "queued" BY <1>2, SchedQueueFacts DEF RunTask, IInv
  <2>2. UNCHANGED <<registry, waited, delay, poller, polls, verdict>> BY <1>2 DEF RunTask, polling
  <2>3. sched'[u] = sched[u] \/ (u = t /\ sched'[u] = "waiting") \/ (u = t /\ sched'[u] = "done" /\ u \notin registry)
    BY <1>2 DEF RunTask, IInv, TypeOK
  <2> QED BY <2>1, <2>2, <2>3, SubagentsAssumption DEF IInv, LifeInv, TimeInv, Active, TypeOK,
      MaxPollCount
<1>3. ASSUME NEW t \in Tasks, RunTaskFinish(t) PROVE TimeInv(u)'
  BY <1>3, SubagentsAssumption DEF RunTaskFinish, WriteBack, TypeOK, SchedStates, ExecStates,
      PollStates, Verdicts, Statuses, IInv, TimeInv, polling
<1>4. ASSUME NEW t \in Tasks, RunTaskTimeout(t) PROVE TimeInv(u)'
  BY <1>4, SubagentsAssumption DEF RunTaskTimeout, TypeOK, SchedStates, ExecStates, PollStates,
      Verdicts, Statuses, IInv, TimeInv, polling
<1>5. ASSUME NEW t \in Tasks, RunTaskExpire(t) PROVE TimeInv(u)'
  BY <1>5, SubagentsAssumption, SMTT(30) DEF RunTaskExpire, CancelFuture, TypeOK, SchedStates, ExecStates,
      PollStates, Verdicts, Statuses, IInv, TimeInv, polling
<1>6. ASSUME NEW t \in Tasks, ExecStart(t) PROVE TimeInv(u)'
  BY <1>6, SubagentsAssumption DEF ExecStart, TypeOK, SchedStates, ExecStates, PollStates,
      Verdicts, Statuses, IInv, TimeInv, scheduler, polling
<1>7. ASSUME NEW t \in Tasks, ExecSeesCancel(t) PROVE TimeInv(u)'
  BY <1>7, SubagentsAssumption DEF ExecSeesCancel, ExecEnd, TypeOK, SchedStates, ExecStates,
      PollStates, Verdicts, Statuses, IInv, TimeInv, scheduler, polling
<1>8. ASSUME NEW t \in Tasks, ExecError(t) PROVE TimeInv(u)'
  BY <1>8, SubagentsAssumption DEF ExecError, ExecEnd, TypeOK, SchedStates, ExecStates,
      PollStates, Verdicts, Statuses, IInv, TimeInv, scheduler, polling
<1>9. ASSUME NEW t \in Tasks, ExecTimeout(t) PROVE TimeInv(u)'
  BY <1>9, SubagentsAssumption DEF ExecTimeout, ExecEnd, TypeOK, SchedStates, ExecStates,
      PollStates, Verdicts, Statuses, IInv, TimeInv, scheduler, polling
<1>10. ASSUME NEW t \in Tasks, ExecAnswer(t) PROVE TimeInv(u)'
  BY <1>10, SubagentsAssumption DEF ExecAnswer, TypeOK, SchedStates, ExecStates, PollStates,
      Verdicts, Statuses, IInv, TimeInv, scheduler, polling
<1>11. ASSUME NEW t \in Tasks, ExecComplete(t) PROVE TimeInv(u)'
  BY <1>11, SubagentsAssumption DEF ExecComplete, ExecEnd, TypeOK, SchedStates, ExecStates,
      PollStates, Verdicts, Statuses, IInv, TimeInv, scheduler, polling
<1>12. ASSUME NEW t \in Tasks, Poll(t) PROVE TimeInv(u)'
  BY <1>12, SubagentsAssumption DEF Poll, TypeOK, SchedStates, ExecStates, PollStates, Verdicts,
      Statuses, Terminal, IInv, QueueInv, LifeInv, Active, ObjectInv, TimeInv, MaxPollCount, object,
      scheduler, execution, polling, vars
<1>13. ASSUME NEW t \in Tasks, Cleanup(t) PROVE TimeInv(u)'
  BY <1>13, SubagentsAssumption DEF Cleanup, TypeOK, SchedStates, ExecStates, PollStates,
      Verdicts, Statuses, IInv, TimeInv, scheduler
<1>14. ASSUME NEW t \in Tasks, PollWake(t) PROVE TimeInv(u)'
  BY <1>14, SubagentsAssumption, SMTT(30) DEF PollWake, MaxPollCount, TypeOK, SchedStates, ExecStates,
      PollStates, Verdicts, Terminal, IInv, QueueInv, LifeInv, Active, ObjectInv, TimeInv, object,
      scheduler, execution, polling, vars
<1>15. ASSUME NEW th \in Threads, CancelThread(th) PROVE TimeInv(u)'
  BY <1>15, SubagentsAssumption DEF CancelThread, Cancellable, TypeOK, SchedStates, ExecStates,
      PollStates, Verdicts, Statuses, IInv, TimeInv, scheduler, polling
<1>16. CASE Tick
  <2> USE DEF IInv
  <2>1. UNCHANGED <<sched, polls, verdict>> BY <1>16 DEF Tick, object, scheduler, execution,
      polling, vars
  <2>2. /\ poller[u] \in {"idle", "sleeping", "done"} /\ sched[u] # "expiring"
        /\ poller'[u] = IF poller[u] = "sleeping" THEN "awake" ELSE poller[u]
    BY <1>16 DEF Tick, Quiescent, SchedBusy
  <2>3. /\ waited'[u] = IF sched[u] = "waiting" THEN waited[u] + 1 ELSE waited[u]
        /\ delay'[u] = IF sched[u] = "queued" THEN delay[u] + 1 ELSE delay[u]
    BY <1>16 DEF Tick, TypeOK
  <2>4. polls[u] \in Nat /\ delay[u] \in Nat /\ waited[u] \in Nat BY SubagentsAssumption DEF TypeOK
  <2> QED BY <2>1, <2>2, <2>3, <2>4, SubagentsAssumption DEF TimeInv, LifeInv, MaxPollCount
<1>17. CASE UNCHANGED vars
  BY <1>17 DEF TypeOK, SchedStates, ExecStates, PollStates, Verdicts, Statuses, IInv, TimeInv,
      scheduler, polling, vars
<1> QED
  BY <1>1, <1>2, <1>3, <1>4, <1>5, <1>6, <1>7, <1>8, <1>9, <1>10, <1>11, <1>12, <1>13, <1>14,
      <1>15, <1>16, <1>17 DEF Next, SchedulerStep, ExecutionStep, PollerStep

\* The initial states satisfy the invariant.
LEMMA InitInv == Init => IInv
<1> SUFFICES ASSUME Init PROVE IInv OBVIOUS
<1>1. TypeOK
  BY SubagentsAssumption DEF Init, TypeOK, Statuses, SchedStates, ExecStates, PollStates, Verdicts
<1>2. QueueInv BY DEF Init, QueueInv
<1>3. ASSUME NEW t \in Tasks PROVE LifeInv(t) /\ ObjectInv(t) /\ TimeInv(t)
  BY <1>3 DEF Init, LifeInv, ObjectInv, TimeInv, Active
<1> QED BY <1>1, <1>2, <1>3 DEF IInv

\* Every step keeps the invariant.
LEMMA StepInv == IInv /\ [Next]_vars => IInv'
<1> SUFFICES ASSUME IInv, [Next]_vars PROVE IInv' OBVIOUS
<1>1. TypeOK' BY TypeStep
<1>2. QueueInv' BY QueueStep DEF IInv
<1>3. (\A t \in Tasks : LifeInv(t))' BY LifeStep DEF IInv
<1>4. (\A t \in Tasks : ObjectInv(t))' BY ObjectStep DEF IInv
<1>5. (\A t \in Tasks : TimeInv(t))' BY TimeStep
<1> QED BY <1>1, <1>2, <1>3, <1>4, <1>5 DEF IInv

\* The invariant holds in every behaviour.
THEOREM Invariance == Spec => []IInv
<1> QED BY InitInv, StepInv, PTL DEF Spec

\* The registry, the shared objects and the threads keep their types, poll_count
\* and the timers their bounds (executor.py, task_tool.py).
THEOREM TypeCorrect == Spec => []TypeOK
<1>1. IInv => TypeOK BY DEF IInv
<1> QED BY <1>1, Invariance, PTL

\* A published or reported success always has its answer (executor.py:354-383).
THEOREM SuccessIsReal == Spec => []SuccessHasResult
<1>1. IInv => SuccessHasResult BY DEF IInv, ObjectInv, SuccessHasResult
<1> QED BY <1>1, Invariance, PTL

\* run_task's second look heals the cancel that raced with the publication of
\* COMPLETED (executor.py:480-485).
THEOREM CancelIsHealed == Spec => []SettledCancelIsFailed
<1>1. IInv => SettledCancelIsFailed BY DEF IInv, TypeOK, ObjectInv, SettledCancelIsFailed
<1> QED BY <1>1, Invariance, PTL

\* No tool call finds its task missing (task_tool.py:455-459).
THEOREM TasksStay == Spec => []NeverDisappears
<1>1. IInv => NeverDisappears BY DEF IInv, LifeInv, NeverDisappears
<1> QED BY <1>1, Invariance, PTL

\* Whatever the timeout and the buffer, only a task that queued for the whole
\* buffer can reach the polling limit (task_tool.py:380, 741).
THEOREM PollLimitIsANet == Spec => []PollTimeoutMeansQueued
<1>1. IInv => PollTimeoutMeansQueued BY DEF IInv, TimeInv, PollTimeoutMeansQueued
<1> QED BY <1>1, Invariance, PTL

\* No execution begins for a task the scheduler has let go, unless it was
\* cancelled and will stop at its first chunk (executor.py:492-499).
THEOREM NoOrphans == Spec => NoOrphanStart
<1> DEFINE A == \A t \in Tasks : exec[t] # "streaming" /\ exec'[t] = "streaming"
                   => sched[t] # "done" \/ cancel_requested[t]
<1>1. IInv /\ [Next]_vars => [A]_vars
  <2> SUFFICES ASSUME IInv, [Next]_vars, vars' # vars,
                      NEW u \in Tasks, exec[u] # "streaming", exec'[u] = "streaming"
               PROVE  sched[u] # "done" \/ cancel_requested[u]
    OBVIOUS
  <2>1. exec[u] = "queued" => sched[u] # "done" \/ cancel_requested[u]
    BY DEF IInv, ObjectInv
  <2>2. exec[u] = "queued"
    <3>1. ASSUME NEW t \in Tasks, SchedulerStep(t) PROVE exec[u] = "queued"
      BY <3>1 DEF SchedulerStep, RunTask, RunTaskFinish, RunTaskTimeout, RunTaskExpire,
          CancelFuture,
                  execution, IInv, TypeOK
    <3>2. ASSUME NEW t \in Tasks, ExecutionStep(t) PROVE exec[u] = "queued"
      BY <3>2 DEF ExecutionStep, ExecStart, ExecSeesCancel, ExecError, ExecTimeout, ExecEnd,
                  ExecAnswer, ExecComplete, IInv, TypeOK
    <3>3. ASSUME NEW t \in Tasks, ExecuteAsync(t) \/ PollerStep(t) PROVE UNCHANGED exec
      BY <3>3 DEF ExecuteAsync, PollerStep, Poll, Cleanup, PollWake, execution
    <3>4. ASSUME NEW th \in Threads, CancelThread(th) PROVE UNCHANGED exec
      BY <3>4 DEF CancelThread, execution
    <3>5. Tick => UNCHANGED exec BY DEF Tick
    <3> QED BY <3>1, <3>2, <3>3, <3>4, <3>5 DEF Next
  <2> QED BY <2>1, <2>2
<1>2. Spec => [][A]_vars BY <1>1, Invariance, PTL DEF Spec
<1> QED BY <1>2 DEF NoOrphanStart

----------------------------------------------------------------------------
(* The records of a run.  A queue holds the events from its first one on that *)
(* no reader may drop, numbered to the last that was born, and each report of *)
(* the task tool that it holds was streamed (Queue).  What a reader was given *)
(* ends with the event before its cursor (Gets): that is what compaction,     *)
(* which moves the cursors and the events together, leaves alone.             *)

EventSet == [n : Nat, kind : Kinds, call : Calls \cup {Model}, id : Nat]
Buses == [events : Seq(EventSet), born : Nat, cursors : [ReaderSet -> Nat \cup {-1}],
          grace : ReaderSet \cup {"none"}]
Queue(b, streamed) ==
  /\ b \in Buses /\ Len(b.events) <= b.born
  /\ \A c \in ReaderSet : b.cursors[c] <= Len(b.events)
  /\ \A i \in 1 .. Len(b.events) : /\ b.events[i].n = b.born - Len(b.events) + i
                                   /\ b.events[i].kind = "task" => b.events[i].id \in streamed

\* The number of the last event before a reader's cursor.
LastRead(b, c) == b.born - Len(b.events) + b.cursors[c]

\* A reader that has been given the events `was`, from the first one it was to get.
Given(b, c, was, first) ==
  /\ was \in Seq(Nat) /\ first \in Nat
  /\ first = 0 <=> b.cursors[c] = -1
  /\ first = 0 => was = <<>>
  /\ first # 0 => /\ Len(was) = LastRead(b, c) - first + 1
                  /\ \A i \in 1 .. Len(was) : was[i] = first + i - 1
Gets == \A c \in ReaderSet : Given(bus, c, seen[c], opened[c])

Streams ==
  /\ trace = [seq |-> trace.seq, saved |-> trace.saved, streamed |-> trace.streamed,
              again |-> trace.again, blank |-> trace.blank]
  /\ trace.seq \in Nat /\ trace.streamed \subseteq 1 .. trace.seq
  /\ trace.saved \subseteq trace.streamed /\ trace.again = {}

Files ==
  /\ file \in [Calls \cup {Model} -> [starts : Nat, ends : Nat]]
  /\ stage \in [Calls -> {"none", "asked", "running", "done"}]
  /\ \A k \in Calls : stage[k] \in {"asked", "running"} => at.node = "tools"
  /\ at.rest \in Seq(ReaderSet) /\ at = [node |-> at.node, rest |-> at.rest]

\* The queue, its readers and the trace; the rest is about the run's own places.
Stored == /\ seen = [c \in ReaderSet |-> seen[c]] /\ opened = [c \in ReaderSet |-> opened[c]]
          /\ Queue(bus, trace.streamed) /\ Gets /\ Streams
RrInv == Stored /\ Files /\ CallsAreClosed

LEMMA EventParts ==
  ASSUME NEW b, NEW streamed, Queue(b, streamed)
  PROVE  /\ Len(b.events) \in Nat /\ b.born \in Nat /\ b.events \in Seq(EventSet)
         /\ b.cursors \in [ReaderSet -> Nat \cup {-1}]
         /\ \A c \in ReaderSet : b.cursors[c] \in Int /\ b.cursors[c] >= -1 /\ b.cursors[c] <= Len(b.events)
         /\ \A i \in 1 .. Len(b.events) : b.events[i] \in EventSet
  BY ElementOfSeq, LenProperties DEF Queue, Buses

\* A new event goes to the end of the queue; nobody has read it.
LEMMA PutFacts ==
  ASSUME NEW b, NEW streamed, Queue(b, streamed), NEW sort \in Kinds, NEW call \in Calls \cup {Model},
         NEW id \in Nat, sort = "task" => id \in streamed,
         NEW d, d = Put(b, sort, call, id)
  PROVE  /\ Queue(d, streamed) /\ d.born = b.born + 1 /\ d.cursors = b.cursors
         /\ Len(d.events) = Len(b.events) + 1
         /\ \A c \in ReaderSet : LastRead(d, c) = LastRead(b, c)
<1> DEFINE e == Event(b.born + 1, sort, call, id)
<1>1. /\ Len(b.events) \in Nat /\ b.born \in Nat /\ b.events \in Seq(EventSet)
      /\ \A c \in ReaderSet : b.cursors[c] \in Int /\ b.cursors[c] <= Len(b.events)
  BY EventParts
<1>2. d = [events |-> Append(b.events, e), born |-> b.born + 1, cursors |-> b.cursors, grace |-> b.grace]
  BY DEF Put, Queue, Buses
<1>3. e \in EventSet /\ e.n = b.born + 1 /\ e.kind = sort /\ e.id = id
  BY <1>1 DEF Event, EventSet
<1> HIDE DEF e
<1>4. /\ Append(b.events, e) \in Seq(EventSet) /\ Len(Append(b.events, e)) = Len(b.events) + 1
      /\ \A i \in 1 .. Len(b.events) + 1 :
           Append(b.events, e)[i] = IF i <= Len(b.events) THEN b.events[i] ELSE e
  BY <1>1, <1>3
<1>5. /\ d.born = b.born + 1 /\ d.cursors = b.cursors /\ Len(d.events) = Len(b.events) + 1
      /\ d \in Buses
  BY <1>1, <1>2, <1>4 DEF Buses, Queue
<1>6. ASSUME NEW i \in 1 .. Len(d.events)
      PROVE  /\ d.events[i].n = d.born - Len(d.events) + i
             /\ d.events[i].kind = "task" => d.events[i].id \in streamed
  <2>1. CASE i <= Len(b.events)
    <3>1. i \in 1 .. Len(b.events) /\ d.events[i] = b.events[i]
      BY <1>1, <1>2, <1>4, <1>5, <1>6, <2>1
    <3>2. QED
      BY <1>1, <1>5, <3>1 DEF Queue
  <2>2. CASE ~(i <= Len(b.events))
    <3>1. i = Len(b.events) + 1 /\ d.events[i] = e
      BY <1>1, <1>2, <1>4, <1>5, <1>6, <2>2
    <3>2. QED
      BY <1>1, <1>3, <1>5, <3>1
  <2>3. QED
    BY <2>1, <2>2
<1>7. Queue(d, streamed)
  BY <1>1, <1>5, <1>6 DEF Queue
<1>8. ASSUME NEW c \in ReaderSet PROVE LastRead(d, c) = LastRead(b, c)
  <2>1. d.cursors[c] = b.cursors[c] /\ b.cursors[c] \in Int
    BY <1>1, <1>5, <1>8
  <2>2. QED
    <3>1. \A B, L, x \in Int : (B + 1) - (L + 1) + x = B - L + x
      OBVIOUS
    <3>2. b.born \in Int /\ Len(b.events) \in Int
      BY <1>1
    <3>3. LastRead(d, c) = (b.born + 1) - (Len(b.events) + 1) + b.cursors[c]
      BY <1>5, <2>1 DEF LastRead
    <3>4. QED
      BY <2>1, <3>1, <3>2, <3>3 DEF LastRead
<1>9. QED
  BY <1>5, <1>7, <1>8

\* The slowest known reader.
LEMMA SlowestFacts ==
  ASSUME NEW b, NEW streamed, Queue(b, streamed), Known(b) # {}
  PROVE  Slowest(b) \in Nat /\ \A c \in Known(b) : Slowest(b) <= b.cursors[c]
<1> DEFINE S == {b.cursors[c] : c \in Known(b)}
<1>1. S \in SUBSET Nat /\ S # {}
  <2>1. \A c \in Known(b) : b.cursors[c] \in Nat
    <3>1. \A c \in ReaderSet : b.cursors[c] \in Int
      BY EventParts
    <3>2. QED
      BY <3>1 DEF Known
  <2>2. QED
    BY <2>1
<1>2. PICK x \in S : \A y \in S : x <= y
  <2> HIDE DEF S
  <2>1. QED
    BY <1>1, SomeLeast
<1>3. x \in {b.cursors[c] : c \in Known(b)} /\ \A c \in Known(b) : x <= b.cursors[c]
  BY <1>2
<1>4. Slowest(b) \in S /\ \A c \in Known(b) : Slowest(b) <= b.cursors[c]
  BY <1>3 DEF Slowest
<1>5. QED
  BY <1>1, <1>4

\* What compaction drops every known reader has read.
LEMMA CompactedFacts ==
  ASSUME NEW b, NEW streamed, Queue(b, streamed), Known(b) # {}, NEW d, d = Compacted(b)
  PROVE  /\ Queue(d, streamed) /\ d.born = b.born
         /\ \A c \in ReaderSet : /\ (d.cursors[c] = -1 <=> b.cursors[c] = -1)
                                 /\ b.cursors[c] # -1 => LastRead(d, c) = LastRead(b, c)
<1>1. /\ Len(b.events) \in Nat /\ b.born \in Nat /\ b.events \in Seq(EventSet)
      /\ b.cursors \in [ReaderSet -> Nat \cup {-1}]
      /\ \A c \in ReaderSet : b.cursors[c] \in Int /\ b.cursors[c] >= -1 /\ b.cursors[c] <= Len(b.events)
  BY EventParts
<1>2. Slowest(b) \in Nat /\ \A c \in Known(b) : Slowest(b) <= b.cursors[c]
  BY SlowestFacts
<1>3. \A c \in ReaderSet : c \in Known(b) <=> b.cursors[c] # -1
  BY <1>1 DEF Known
<1> DEFINE low == Slowest(b)
           moved == [c \in ReaderSet |-> IF c \notin Known(b) THEN -1
                                         ELSE IF b.cursors[c] > low THEN b.cursors[c] - low ELSE 0]
           kept == SubSeq(b.events, low + 1, Len(b.events))
           shifted == [events |-> kept, born |-> b.born, cursors |-> moved, grace |-> "none"]
<1>4. d \in {b, [b EXCEPT !.grace = CHOOSE c \in Known(b) : TRUE], shifted}
  BY DEF Compacted
<1>5. CASE d = b
  BY <1>1, <1>5
<1>6. CASE d = [b EXCEPT !.grace = CHOOSE c \in Known(b) : TRUE]
  <2>1. (CHOOSE c \in Known(b) : TRUE) \in ReaderSet
    BY DEF Known
  <2>2. d.events = b.events /\ d.born = b.born /\ d.cursors = b.cursors /\ d \in Buses
    BY <1>6, <2>1 DEF Queue, Buses
  <2>3. QED
    BY <2>2 DEF Queue, LastRead
<1>7. CASE d = shifted
  <2> HIDE DEF low
  <2>0. PICK l \in ReaderSet : l \in Known(b)
    BY DEF Known
  <2>1. low \in Nat /\ low <= Len(b.events) /\ (\A c \in Known(b) : low <= b.cursors[c])
    BY <1>1, <1>2, <2>0 DEF low
  <2>2. /\ kept \in Seq(EventSet) /\ Len(kept) = Len(b.events) - low
        /\ \A i \in 1 .. Len(kept) : kept[i] = b.events[low + i]
    <3>1. \A i \in low + 1 .. Len(b.events) : b.events[i] \in EventSet
      BY <1>1, <2>1, EventParts
    <3>2. /\ kept \in Seq(EventSet)
          /\ Len(kept) = IF low + 1 <= Len(b.events) THEN Len(b.events) - (low + 1) + 1 ELSE 0
          /\ \A i \in 1 .. Len(b.events) - (low + 1) + 1 : kept[i] = b.events[(low + 1) + i - 1]
      BY <1>1, <2>1, <3>1, SubSeqProperties
    <3> HIDE DEF kept
    <3>3. Len(kept) = Len(b.events) - low
      BY <1>1, <2>1, <3>2
    <3>4. ASSUME NEW i \in 1 .. Len(kept) PROVE kept[i] = b.events[low + i]
      <4>1. i \in 1 .. Len(b.events) - (low + 1) + 1 /\ (low + 1) + i - 1 = low + i
        BY <1>1, <2>1, <3>3, <3>4
      <4>2. QED
        BY <3>2, <4>1
    <3>5. QED
      BY <3>2, <3>3, <3>4
  <2>3. /\ moved \in [ReaderSet -> Nat \cup {-1}]
        /\ \A c \in ReaderSet : /\ c \notin Known(b) => moved[c] = -1
                                /\ c \in Known(b) => moved[c] = b.cursors[c] - low /\ moved[c] >= 0
    BY <1>1, <1>3, <2>1
  <2> HIDE DEF kept, moved
  <2>4. d.events = kept /\ d.born = b.born /\ d.cursors = moved /\ d.grace = "none"
    BY <1>7
  <2>5. d \in Buses
    BY <1>1, <1>7, <2>2, <2>3 DEF Buses
  <2>6. \A c \in ReaderSet : d.cursors[c] <= Len(d.events)
    BY <1>1, <1>3, <2>1, <2>2, <2>3, <2>4
  <2>7. ASSUME NEW i \in 1 .. Len(d.events)
        PROVE  /\ d.events[i].n = d.born - Len(d.events) + i
               /\ d.events[i].kind = "task" => d.events[i].id \in streamed
    <3>1. low + i \in 1 .. Len(b.events) /\ d.events[i] = b.events[low + i]
      BY <1>1, <2>1, <2>2, <2>4, <2>7
    <3>2. b.events[low + i].n = b.born - Len(b.events) + (low + i)
          /\ (b.events[low + i].kind = "task" => b.events[low + i].id \in streamed)
      BY <3>1 DEF Queue
    <3>3. b.born - Len(b.events) + (low + i) = d.born - Len(d.events) + i
      BY <1>1, <2>1, <2>2, <2>4
    <3>4. QED
      BY <3>1, <3>2, <3>3
  <2>8. Queue(d, streamed)
    BY <1>1, <2>1, <2>2, <2>4, <2>5, <2>6, <2>7 DEF Queue
  <2>9. \A c \in ReaderSet : /\ (d.cursors[c] = -1 <=> b.cursors[c] = -1)
                             /\ b.cursors[c] # -1 => LastRead(d, c) = LastRead(b, c)
    BY <1>1, <1>3, <2>1, <2>2, <2>3, <2>4 DEF LastRead
  <2>10. QED
    BY <2>4, <2>8, <2>9
<1>8. QED
  BY <1>4, <1>5, <1>6, <1>7

\* A reader is given what is pending for it, and only its own cursor moves.
LEMMA DrainFacts ==
  ASSUME NEW b, NEW streamed, Queue(b, streamed), NEW c \in ReaderSet, NEW d, d = Drained(b, c),
         NEW was, NEW first, Given(b, c, was, first)
  PROVE  /\ Queue(d, streamed) /\ LastRead(d, c) = b.born
         /\ Given(d, c, was \o Numbers(Pending(b, c)), IF first = 0 THEN b.born - Len(b.events) + 1 ELSE first)
         /\ \A r \in ReaderSet \ {c} : \A its, from : Given(b, r, its, from) => Given(d, r, its, from)
<1>1. /\ Len(b.events) \in Nat /\ b.born \in Nat /\ b.events \in Seq(EventSet)
      /\ b.cursors \in [ReaderSet -> Nat \cup {-1}]
      /\ \A r \in ReaderSet : b.cursors[r] \in Int /\ b.cursors[r] >= -1 /\ b.cursors[r] <= Len(b.events)
      /\ \A i \in 1 .. Len(b.events) : b.events[i] \in EventSet
  BY EventParts
<1>0. Len(b.events) \in Nat /\ b.born \in Nat
  BY <1>1
<1>2. PICK m : m = [b EXCEPT !.cursors[c] = Len(b.events)]
  OBVIOUS
<1>3. /\ m.events = b.events /\ m.born = b.born /\ m.cursors = [b.cursors EXCEPT ![c] = Len(b.events)]
      /\ m \in Buses
  BY <1>1, <1>2 DEF Queue, Buses
<1>4. m.cursors[c] = Len(b.events) /\ \A r \in ReaderSet \ {c} : m.cursors[r] = b.cursors[r]
  BY <1>1, <1>3
<1>5. Queue(m, streamed) /\ Known(m) # {} /\ d = Compacted(m)
  <2>1. Queue(m, streamed)
    <3>1. \A r \in ReaderSet : m.cursors[r] <= Len(m.events)
      BY <1>1, <1>3, <1>4
    <3>2. QED
      BY <1>3, <3>1 DEF Queue
  <2>2. c \in Known(m)
    BY <1>1, <1>4 DEF Known
  <2>3. QED
    BY <1>2, <2>1, <2>2 DEF Drained
<1>6. /\ Queue(d, streamed) /\ d.born = m.born
      /\ \A r \in ReaderSet : /\ (d.cursors[r] = -1 <=> m.cursors[r] = -1)
                              /\ m.cursors[r] # -1 => LastRead(d, r) = LastRead(m, r)
  BY <1>5, CompactedFacts
<1>7. d.cursors[c] # -1 /\ LastRead(d, c) = b.born
  BY <1>1, <1>3, <1>4, <1>6 DEF LastRead
<1>8. \A r \in ReaderSet \ {c} : \A its, from : Given(b, r, its, from) => Given(d, r, its, from)
  <2>1. TAKE r \in ReaderSet \ {c}
  <2>2. TAKE its, from
  <2>3. HAVE Given(b, r, its, from)
  <2>4. (d.cursors[r] = -1 <=> b.cursors[r] = -1) /\ (b.cursors[r] # -1 => LastRead(d, r) = LastRead(m, r))
    BY <1>4, <1>6
  <2>5. LastRead(m, r) = LastRead(b, r)
    BY <1>3, <1>4 DEF LastRead
  <2>6. QED
    BY <2>3, <2>4, <2>5 DEF Given
<1> DEFINE from == IF b.cursors[c] > 0 THEN b.cursors[c] ELSE 0
           pending == Pending(b, c)
           nums == Numbers(pending)
<1>9. from \in Nat /\ from <= Len(b.events)
  BY <1>1
<1>10. /\ pending \in Seq(EventSet) /\ Len(pending) = Len(b.events) - from
       /\ \A i \in 1 .. Len(pending) : pending[i] = b.events[from + i]
  <2>1. pending = SubSeq(b.events, from + 1, Len(b.events))
    BY DEF Pending
  <2> HIDE DEF pending, from
  <2>2. \A i \in from + 1 .. Len(b.events) : b.events[i] \in EventSet
    BY <1>1, <1>9
  <2>3. /\ pending \in Seq(EventSet)
        /\ Len(pending) = IF from + 1 <= Len(b.events) THEN Len(b.events) - (from + 1) + 1 ELSE 0
        /\ \A i \in 1 .. Len(b.events) - (from + 1) + 1 : pending[i] = b.events[(from + 1) + i - 1]
    BY <1>1, <1>9, <2>1, <2>2, SubSeqProperties
  <2>4. Len(pending) = Len(b.events) - from
    BY <1>1, <1>9, <2>3
  <2>5. ASSUME NEW i \in 1 .. Len(pending) PROVE pending[i] = b.events[from + i]
    <3>1. i \in 1 .. Len(b.events) - (from + 1) + 1 /\ (from + 1) + i - 1 = from + i
      BY <1>1, <1>9, <2>4, <2>5
    <3>2. QED
      BY <2>3, <3>1
  <2>6. QED
    BY <2>3, <2>4, <2>5
<1> HIDE DEF from, pending
<1>11. /\ nums \in Seq(Nat) /\ Len(nums) = Len(b.events) - from
       /\ \A i \in 1 .. Len(nums) : nums[i] = b.born - Len(b.events) + from + i
  <2>1. Len(pending) \in Nat
    BY <1>1, <1>9, <1>10
  <2>2. ASSUME NEW i \in 1 .. Len(pending)
        PROVE  pending[i].n \in Nat /\ pending[i].n = b.born - Len(b.events) + from + i
    <3>1. from + i \in 1 .. Len(b.events) /\ pending[i] = b.events[from + i]
      BY <1>1, <1>9, <1>10, <2>2
    <3>2. b.events[from + i] \in EventSet /\ b.events[from + i].n = b.born - Len(b.events) + (from + i)
      BY <1>1, <3>1 DEF Queue
    <3>3. b.events[from + i].n \in Nat
      BY <3>2 DEF EventSet
    <3>4. i \in Nat
      BY <2>1, <2>2
    <3>5. b.born - Len(b.events) + (from + i) = b.born - Len(b.events) + from + i
      BY <1>0, <1>9, <3>4
    <3>6. QED
      BY <3>1, <3>2, <3>3, <3>5
  <2>3. nums = [i \in 1 .. Len(pending) |-> pending[i].n]
    BY DEF Numbers
  <2> HIDE DEF nums
  <2>4. nums \in [1 .. Len(pending) -> Nat]
    BY <2>2, <2>3
  <2>5. nums \in Seq(Nat) /\ Len(nums) = Len(pending)
    BY <2>1, <2>4
  <2>6. QED
    BY <1>10, <2>2, <2>3, <2>5
<1> HIDE DEF nums
<1> DEFINE start == IF first = 0 THEN b.born - Len(b.events) + 1 ELSE first
<1>12. was \in Seq(Nat) /\ Len(was) \in Nat /\ first \in Nat
  BY DEF Given
<1>13. /\ was \o nums \in Seq(Nat) /\ Len(was \o nums) = Len(was) + Len(nums)
       /\ \A i \in 1 .. Len(was) + Len(nums) :
            (was \o nums)[i] = IF i <= Len(was) THEN was[i] ELSE nums[i - Len(was)]
  BY <1>11, <1>12, ConcatProperties
<1>14. /\ start \in Nat /\ start # 0
       /\ Len(was) = b.born - Len(b.events) + from - start + 1
       /\ \A i \in 1 .. Len(was) : was[i] = start + i - 1
  <2> HIDE DEF start
  <2>1. b.born - Len(b.events) \in Nat
    BY <1>0 DEF Queue
  <2>2. CASE first = 0
    <3>1. b.cursors[c] = -1 /\ was = <<>>
      BY <2>2 DEF Given
    <3>2. Len(was) = 0
      BY <3>1
    <3>3. from = 0
      BY <3>1 DEF from
    <3>4. start = b.born - Len(b.events) + 1
      BY <2>2 DEF start
    <3>5. QED
      BY <1>0, <2>1, <3>2, <3>3, <3>4
  <2>3. CASE first # 0
    <3>1. b.cursors[c] # -1 /\ Len(was) = LastRead(b, c) - first + 1
          /\ (\A i \in 1 .. Len(was) : was[i] = first + i - 1)
      BY <2>3 DEF Given
    <3>2. from = b.cursors[c]
      BY <1>1, <3>1 DEF from
    <3>3. start = first
      BY <2>3 DEF start
    <3>4. LastRead(b, c) = b.born - Len(b.events) + from
      BY <3>2 DEF LastRead
    <3>5. QED
      BY <1>0, <1>9, <1>12, <2>3, <3>1, <3>3, <3>4
  <2>4. QED
    BY <2>2, <2>3
<1> HIDE DEF start
<1>15. Len(was \o nums) = b.born - start + 1
  <2>1. /\ Len(was \o nums) = Len(was) + Len(nums) /\ Len(nums) = Len(b.events) - from
        /\ Len(was) = b.born - Len(b.events) + from - start + 1 /\ start \in Nat
    BY <1>11, <1>13, <1>14
  <2>2. (b.born - Len(b.events) + from - start + 1) + (Len(b.events) - from) = b.born - start + 1
    <3>1. \A B, L, f, t \in Int : (B - L + f - t + 1) + (L - f) = B - t + 1
      OBVIOUS
    <3>2. start \in Int /\ from \in Int
      BY <1>9, <2>1
    <3>3. QED
      BY <1>0, <3>1, <3>2
  <2>3. QED
    BY <2>1, <2>2
<1>16. ASSUME NEW i \in 1 .. Len(was \o nums) PROVE (was \o nums)[i] = start + i - 1
  <2>1. i \in 1 .. Len(was) + Len(nums)
    BY <1>13, <1>16
  <2>2. CASE i <= Len(was)
    BY <1>12, <1>13, <1>14, <2>1, <2>2
  <2>3. CASE ~(i <= Len(was))
    <3>1. i - Len(was) \in 1 .. Len(nums) /\ (was \o nums)[i] = nums[i - Len(was)]
      BY <1>0, <1>9, <1>11, <1>12, <1>13, <2>1, <2>3
    <3>2. nums[i - Len(was)] = b.born - Len(b.events) + from + (i - Len(was))
      BY <1>11, <3>1
    <3>3. i \in Int
      BY <1>12, <1>13, <1>16
    <3>4. Len(was) = b.born - Len(b.events) + from - start + 1 /\ start \in Nat
      BY <1>14
    <3>5. b.born - Len(b.events) + from + (i - Len(was)) = start + i - 1
      <4>1. start \in Int /\ from \in Int /\ b.born \in Int /\ Len(b.events) \in Int /\ Len(was) \in Int
        BY <1>0, <1>9, <1>12, <3>4
      <4>2. PICK B, L, f, t, j, w \in Int : /\ B = b.born /\ L = Len(b.events) /\ f = from
                                            /\ t = start /\ j = i /\ w = Len(was)
        BY <3>3, <4>1, Zenon
      <4>3. w = B - L + f - t + 1
        BY <3>4, <4>2
      <4>4. B - L + f + (j - w) = t + j - 1
        BY <4>3
      <4>5. QED
        BY <4>2, <4>4
    <3>6. QED
      BY <3>1, <3>2, <3>5
  <2>4. QED
    BY <2>2, <2>3
<1>17. Given(d, c, was \o nums, start)
  BY <1>7, <1>13, <1>14, <1>15, <1>16 DEF Given
<1>18. QED
  BY <1>6, <1>7, <1>8, <1>17 DEF nums, pending, start

\* What waits for a reader.
LEMMA PendingFacts ==
  ASSUME NEW b, NEW streamed, Queue(b, streamed), NEW c \in ReaderSet
  PROVE  /\ Pending(b, c) \in Seq(EventSet)
         /\ \A i \in 1 .. Len(Pending(b, c)) :
              Pending(b, c)[i].kind = "task" => Pending(b, c)[i].id \in streamed
<1>1. /\ Len(b.events) \in Nat /\ b.events \in Seq(EventSet)
      /\ b.cursors[c] \in Int /\ b.cursors[c] <= Len(b.events)
      /\ \A i \in 1 .. Len(b.events) : b.events[i] \in EventSet
  BY EventParts
<1> DEFINE from == IF b.cursors[c] > 0 THEN b.cursors[c] ELSE 0
           pending == Pending(b, c)
<1>2. from \in Nat /\ from <= Len(b.events)
  BY <1>1
<1>3. pending = SubSeq(b.events, from + 1, Len(b.events))
  BY DEF Pending
<1> HIDE DEF from, pending
<1>4. \A i \in from + 1 .. Len(b.events) : b.events[i] \in EventSet
  BY <1>1, <1>2
<1>5. /\ pending \in Seq(EventSet)
      /\ Len(pending) = IF from + 1 <= Len(b.events) THEN Len(b.events) - (from + 1) + 1 ELSE 0
      /\ \A i \in 1 .. Len(b.events) - (from + 1) + 1 : pending[i] = b.events[(from + 1) + i - 1]
  BY <1>1, <1>2, <1>3, <1>4, SubSeqProperties
<1>6. ASSUME NEW i \in 1 .. Len(pending)
      PROVE  pending[i].kind = "task" => pending[i].id \in streamed
  <2>0. Len(pending) = Len(b.events) - from /\ Len(b.events) \in Nat
    BY <1>1, <1>2, <1>5
  <2>1. i \in 1 .. Len(b.events) - (from + 1) + 1 /\ (from + 1) + i - 1 \in 1 .. Len(b.events)
    BY <1>2, <1>6, <2>0
  <2>2. pending[i] = b.events[(from + 1) + i - 1]
    BY <1>5, <2>1
  <2>3. QED
    BY <2>1, <2>2 DEF Queue
<1>7. QED
  BY <1>5, <1>6 DEF pending

\* A reader that drains the queue has been given what it was to get.
LEMMA ReadKeeps ==
  ASSUME NEW b, NEW streamed, Queue(b, streamed), NEW c \in ReaderSet,
         seen = [r \in ReaderSet |-> seen[r]], opened = [r \in ReaderSet |-> opened[r]],
         \A r \in ReaderSet : Given(b, r, seen[r], opened[r]),
         Reads(b, c), NEW d, d = Drained(b, c)
  PROVE  /\ seen' = [r \in ReaderSet |-> seen'[r]] /\ opened' = [r \in ReaderSet |-> opened'[r]]
         /\ Queue(d, streamed)
         /\ \A r \in ReaderSet : Given(d, r, seen'[r], opened'[r])
<1>1. /\ seen' = [seen EXCEPT ![c] = seen[c] \o Numbers(Pending(b, c))]
      /\ opened' = [opened EXCEPT ![c] = IF opened[c] = 0 THEN b.born - Len(b.events) + 1 ELSE opened[c]]
  BY DEF Reads
<1>2. /\ seen' = [r \in ReaderSet |-> seen'[r]] /\ opened' = [r \in ReaderSet |-> opened'[r]]
      /\ seen'[c] = seen[c] \o Numbers(Pending(b, c))
      /\ opened'[c] = IF opened[c] = 0 THEN b.born - Len(b.events) + 1 ELSE opened[c]
      /\ \A r \in ReaderSet \ {c} : seen'[r] = seen[r] /\ opened'[r] = opened[r]
  BY <1>1
<1>3. PICK was : was = seen[c]
  OBVIOUS
<1>4. PICK first : first = opened[c]
  OBVIOUS
<1>5. Given(b, c, was, first)
  BY <1>3, <1>4
<1>6. /\ Queue(d, streamed)
      /\ Given(d, c, was \o Numbers(Pending(b, c)), IF first = 0 THEN b.born - Len(b.events) + 1 ELSE first)
      /\ \A r \in ReaderSet \ {c} : \A its, from : Given(b, r, its, from) => Given(d, r, its, from)
  BY <1>5, DrainFacts
<1>7. Given(d, c, seen'[c], opened'[c])
  BY <1>2, <1>3, <1>4, <1>6
<1>8. \A r \in ReaderSet \ {c} : Given(d, r, seen'[r], opened'[r])
  BY <1>2, <1>6
<1>9. QED
  BY <1>2, <1>6, <1>7, <1>8

\* The trace's new events have numbers that nobody has streamed.
LEMMA TraceKeeps ==
  ASSUME Streams, NEW events \in Seq(EventSet), NEW more \in Nat, TraceTakes(events, more),
         \A i \in 1 .. Len(events) : events[i].kind = "task" => events[i].id \in trace.streamed
  PROVE  Streams' /\ trace.streamed \subseteq trace'.streamed
<1> DEFINE traces == {i \in 1 .. Len(events) : Traceable(events[i])}
           fresh == trace.seq + 1 .. trace.seq + Cardinality(traces) + more
<1>1. Cardinality(traces) \in Nat
  <2>1. Len(events) \in Nat
    OBVIOUS
  <2>2. IsFiniteSet(1 .. Len(events)) /\ traces \subseteq 1 .. Len(events)
    BY <2>1, FS_Interval
  <2> HIDE DEF traces
  <2>3. IsFiniteSet(traces)
    BY <2>2, FS_Subset
  <2>4. QED
    BY <2>3, FS_CardinalityType
<1>2. trace.seq \in Nat /\ trace.streamed \subseteq 1 .. trace.seq
      /\ trace.saved \subseteq trace.streamed /\ trace.again = {}
  BY DEF Streams
<1>3. NewTraces(events, more) = fresh
  BY DEF NewTraces
<1> HIDE DEF traces
<1>4. Cardinality(fresh) = Cardinality(traces) + more
  <2>1. trace.seq + 1 \in Int /\ trace.seq + Cardinality(traces) + more \in Int
    BY <1>1, <1>2
  <2>2. Cardinality(fresh) = IF trace.seq + 1 > trace.seq + Cardinality(traces) + more THEN 0
                             ELSE (trace.seq + Cardinality(traces) + more) - (trace.seq + 1) + 1
    BY <2>1, FS_Interval
  <2>3. QED
    BY <1>1, <1>2, <2>2
<1>5. /\ trace'.seq = trace.seq + Cardinality(fresh)
      /\ trace'.saved = Trimmed(trace.saved \cup fresh \cup Inline(events))
      /\ trace'.streamed = trace.streamed \cup fresh
      /\ trace'.again = trace.again \cup (fresh \cap trace.streamed)
      /\ trace' = [seq |-> trace'.seq, saved |-> trace'.saved, streamed |-> trace'.streamed,
                   again |-> trace'.again, blank |-> trace'.blank]
  BY <1>3 DEF TraceTakes
<1>6. fresh \subseteq 1 .. trace.seq + Cardinality(traces) + more /\ fresh \cap (1 .. trace.seq) = {}
  BY <1>1, <1>2
<1>7. 1 .. trace.seq \subseteq 1 .. trace.seq + Cardinality(traces) + more
  BY <1>1, <1>2
<1> DEFINE total == trace.seq + Cardinality(traces) + more
<1>8. trace'.seq = total /\ total \in Nat
  BY <1>1, <1>2, <1>4, <1>5
<1> HIDE DEF fresh
<1>9. Inline(events) \subseteq trace.streamed
  BY DEF Inline
<1>10. trace'.saved \subseteq trace.saved \cup fresh \cup Inline(events)
  BY <1>5 DEF Trimmed
<1>11. trace'.streamed \subseteq 1 .. total /\ trace'.again = {}
  BY <1>2, <1>5, <1>6, <1>7
<1> HIDE DEF total
<1>12. trace'.saved \subseteq trace'.streamed
  BY <1>2, <1>5, <1>9, <1>10
<1>13. QED
  BY <1>5, <1>8, <1>11, <1>12 DEF Streams

LEMMA MoreStreamed ==
  ASSUME NEW b, NEW few, NEW many, few \subseteq many, Queue(b, few)
  PROVE  Queue(b, many)
  BY DEF Queue

\* A reader's turn, whatever it makes of what it was given.
LEMMA DrainKeeps ==
  ASSUME Stored, NEW c \in ReaderSet, bus' = Drained(bus, c), Reads(bus, c),
         Streams', trace.streamed \subseteq trace'.streamed
  PROVE  Stored'
<1>1. PICK b : b = bus
  OBVIOUS
<1>2. PICK d : d = Drained(b, c)
  OBVIOUS
<1>3. PICK streamed : streamed = trace.streamed
  OBVIOUS
<1>4. /\ Queue(b, streamed) /\ Reads(b, c)
      /\ \A r \in ReaderSet : Given(b, r, seen[r], opened[r])
      /\ seen = [r \in ReaderSet |-> seen[r]] /\ opened = [r \in ReaderSet |-> opened[r]]
  BY <1>1, <1>3 DEF Stored, Gets
<1>5. /\ seen' = [r \in ReaderSet |-> seen'[r]] /\ opened' = [r \in ReaderSet |-> opened'[r]]
      /\ Queue(d, streamed)
      /\ \A r \in ReaderSet : Given(d, r, seen'[r], opened'[r])
  BY <1>2, <1>4, ReadKeeps
<1>6. bus' = d
  BY <1>1, <1>2
<1>7. Queue(bus', trace'.streamed)
  BY <1>3, <1>5, <1>6, MoreStreamed
<1>8. QED
  BY <1>5, <1>6, <1>7 DEF Stored, Gets

\* An event that comes to the queue.
LEMMA PutKeeps ==
  ASSUME NEW b, NEW streamed, Queue(b, streamed), NEW sort \in Kinds, NEW call \in Calls \cup {Model},
         NEW id \in Nat, sort = "task" => id \in streamed,
         NEW was, NEW first, \A c \in ReaderSet : Given(b, c, was[c], first[c]),
         NEW d, d = Put(b, sort, call, id)
  PROVE  Queue(d, streamed) /\ \A c \in ReaderSet : Given(d, c, was[c], first[c])
<1>1. /\ Queue(d, streamed) /\ d.cursors = b.cursors
      /\ \A c \in ReaderSet : LastRead(d, c) = LastRead(b, c)
  BY PutFacts
<1>2. QED
  BY <1>1 DEF Given

LEMMA ModelApart == Model \notin Calls
  BY RunRecordsAssumption DEF Model

\* A call that starts, or starts again.
LEMMA StartedKeeps ==
  ASSUME Stored, NEW k \in Calls, bus' = Started(bus, k), UNCHANGED <<seen, opened, trace>>
  PROVE  Stored'
<1>1. PICK b : b = bus
  OBVIOUS
<1>2. PICK streamed : streamed = trace.streamed
  OBVIOUS
<1>3. PICK was, first : was = seen /\ first = opened
  OBVIOUS
<1>4. /\ Queue(b, streamed) /\ \A c \in ReaderSet : Given(b, c, was[c], first[c])
      /\ "start" \in Kinds /\ k \in Calls \cup {Model} /\ 0 \in Nat
  BY <1>1, <1>2, <1>3 DEF Stored, Gets, Kinds
<1>5. PICK m : m = IF k \in Traced THEN Put(b, "start", k, 0) ELSE b
  OBVIOUS
<1>6. Queue(m, streamed) /\ \A c \in ReaderSet : Given(m, c, was[c], first[c])
  BY <1>4, <1>5, PutKeeps
<1>7. PICK d : d = Put(m, "start", k, 0)
  OBVIOUS
<1>8. Queue(d, streamed) /\ \A c \in ReaderSet : Given(d, c, was[c], first[c])
  BY <1>4, <1>6, <1>7, PutKeeps
<1>9. bus' = d
  BY <1>1, <1>5, <1>7 DEF Started
<1>10. Queue(bus', trace'.streamed) /\ Gets'
  BY <1>2, <1>3, <1>8, <1>9 DEF Gets
<1>11. QED
  BY <1>10 DEF Stored, Streams

LEMMA SignalKeeps ==
  ASSUME Stored, NEW sort \in {"compaction", "hint"}, bus' = Put(bus, sort, Model, 0),
         UNCHANGED <<seen, opened, trace>>
  PROVE  Stored'
<1>1. PICK b : b = bus
  OBVIOUS
<1>2. PICK streamed : streamed = trace.streamed
  OBVIOUS
<1>3. PICK was, first : was = seen /\ first = opened
  OBVIOUS
<1>4. /\ Queue(b, streamed) /\ \A c \in ReaderSet : Given(b, c, was[c], first[c])
      /\ sort \in Kinds /\ Model \in Calls \cup {Model} /\ 0 \in Nat /\ sort # "task"
  BY <1>1, <1>2, <1>3 DEF Stored, Gets, Kinds
<1>5. PICK d : d = Put(b, sort, Model, 0)
  OBVIOUS
<1>6. Queue(d, streamed) /\ \A c \in ReaderSet : Given(d, c, was[c], first[c])
  BY <1>4, <1>5, PutKeeps
<1>7. Queue(bus', trace'.streamed) /\ Gets'
  BY <1>1, <1>2, <1>3, <1>5, <1>6 DEF Gets
<1>8. QED
  BY <1>7 DEF Stored, Streams

\* A report of the task tool has a number of its own, streamed before it is queued.
LEMMA ReportStored == ASSUME Stored, NEW k \in Calls, TaskReports(k) PROVE Stored'
<1>0. /\ bus' = Put(bus, "task", k, trace.seq + 1) /\ UNCHANGED <<seen, opened>>
      /\ trace' = [trace EXCEPT !.seq = @ + 1, !.streamed = @ \cup {trace.seq + 1}]
      /\ trace.seq \in Nat /\ trace.streamed \subseteq 1 .. trace.seq
      /\ trace.saved \subseteq trace.streamed /\ trace.again = {}
  BY DEF TaskReports, Stored, Streams
<1>1. PICK b : b = bus
  OBVIOUS
<1>2. PICK many : many = trace.streamed \cup {trace.seq + 1}
  OBVIOUS
<1>3. PICK was, first : was = seen /\ first = opened
  OBVIOUS
<1>4. PICK id \in Nat : id = trace.seq + 1 /\ id \in many
  BY <1>0, <1>2
<1>5. /\ Queue(b, many) /\ \A c \in ReaderSet : Given(b, c, was[c], first[c])
      /\ "task" \in Kinds /\ k \in Calls \cup {Model}
  <2>1. trace.streamed \subseteq many /\ Queue(b, trace.streamed)
    BY <1>1, <1>2 DEF Stored
  <2>2. QED
    BY <1>1, <1>3, <2>1, MoreStreamed DEF Stored, Gets, Kinds
<1>6. PICK d : d = Put(b, "task", k, id)
  OBVIOUS
<1>7. Queue(d, many) /\ \A c \in ReaderSet : Given(d, c, was[c], first[c])
  BY <1>4, <1>5, <1>6, PutKeeps
<1>8. bus' = d
  BY <1>0, <1>1, <1>4, <1>6
<1>9. /\ trace' = [seq |-> trace.seq + 1, saved |-> trace.saved, streamed |-> many,
                    again |-> trace.again, blank |-> trace.blank]
      /\ trace'.seq = trace.seq + 1 /\ trace'.streamed = many
      /\ trace'.saved = trace.saved /\ trace'.again = trace.again /\ trace'.blank = trace.blank
  <2>1. trace = [seq |-> trace.seq, saved |-> trace.saved, streamed |-> trace.streamed,
                 again |-> trace.again, blank |-> trace.blank]
    BY DEF Stored, Streams
  <2>2. QED
    BY <1>0, <1>2, <2>1
<1>10. Streams'
  <2>1. many \subseteq 1 .. trace.seq + 1 /\ trace.saved \subseteq many
    BY <1>0, <1>2
  <2>2. trace'.seq \in Nat
    BY <1>0, <1>9
  <2>3. QED
    BY <1>0, <1>9, <2>1, <2>2 DEF Streams
<1>11. Queue(bus', trace'.streamed) /\ Gets'
  BY <1>0, <1>3, <1>7, <1>8, <1>9 DEF Gets
<1>12. QED
  BY <1>0, <1>10, <1>11 DEF Stored

\* A call that returns: its end comes to the queue, the timeline drains it, and the
\* trace's own end comes behind.
LEMMA ReturnStored == ASSUME Stored, NEW k \in Calls, CallReturns(k) PROVE Stored'
<1>1. PICK b : b = bus
  OBVIOUS
<1>2. PICK streamed : streamed = trace.streamed
  OBVIOUS
<1>3. PICK ended : ended = Put(b, "end", k, 0)
  OBVIOUS
<1>4. PICK drained : drained = Drained(ended, "activity")
  OBVIOUS
<1>5. /\ bus' = IF k \in Traced THEN Put(drained, "end", k, 0) ELSE drained
      /\ Reads(ended, "activity") /\ trace' = trace
  BY <1>1, <1>3, <1>4 DEF CallReturns
<1>6. /\ seen = [c \in ReaderSet |-> seen[c]] /\ opened = [c \in ReaderSet |-> opened[c]]
      /\ "end" \in Kinds /\ k \in Calls \cup {Model} /\ 0 \in Nat /\ "activity" \in ReaderSet
  BY DEF Stored, Kinds, ReaderSet
<1>7. Queue(ended, streamed) /\ \A c \in ReaderSet : Given(ended, c, seen[c], opened[c])
  <2>1. PICK was, first : was = seen /\ first = opened
    OBVIOUS
  <2>2. Queue(b, streamed) /\ \A c \in ReaderSet : Given(b, c, was[c], first[c])
    BY <1>1, <1>2, <2>1 DEF Stored, Gets
  <2>3. Queue(ended, streamed) /\ \A c \in ReaderSet : Given(ended, c, was[c], first[c])
    BY <1>3, <1>6, <2>2, PutKeeps
  <2>4. QED
    BY <2>1, <2>3
<1>8. /\ seen' = [r \in ReaderSet |-> seen'[r]] /\ opened' = [r \in ReaderSet |-> opened'[r]]
      /\ Queue(drained, streamed)
      /\ \A r \in ReaderSet : Given(drained, r, seen'[r], opened'[r])
  BY <1>4, <1>5, <1>6, <1>7, ReadKeeps
<1>9. PICK last : last = IF k \in Traced THEN Put(drained, "end", k, 0) ELSE drained
  OBVIOUS
<1>10. Queue(last, streamed) /\ \A c \in ReaderSet : Given(last, c, seen'[c], opened'[c])
  <2>1. PICK was, first : was = seen' /\ first = opened'
    OBVIOUS
  <2>2. \A c \in ReaderSet : Given(drained, c, was[c], first[c])
    BY <1>8, <2>1
  <2>3. Queue(last, streamed) /\ \A c \in ReaderSet : Given(last, c, was[c], first[c])
    BY <1>6, <1>8, <1>9, <2>2, PutKeeps
  <2>4. QED
    BY <2>1, <2>3
<1>11. Queue(bus', trace'.streamed) /\ Gets'
  BY <1>2, <1>5, <1>9, <1>10 DEF Gets
<1>12. Streams'
  BY <1>5 DEF Stored, Streams
<1>13. QED
  BY <1>8, <1>11, <1>12 DEF Stored

LEMMA TurnStored == ASSUME Stored, at.rest \in Seq(ReaderSet), ReaderTurn PROVE Stored'
<1>1. PICK c \in ReaderSet : c = Head(at.rest)
  <2>1. at.rest # <<>>
    BY DEF ReaderTurn
  <2>2. QED
    BY <2>1, HeadTailProperties
<1> DEFINE own == IF at.node = "after" THEN 1 ELSE 0
<1>2. /\ bus' = Drained(bus, c) /\ Reads(bus, c) /\ own \in Nat
      /\ IF c = "trace" THEN TraceTakes(Pending(bus, c), own) ELSE UNCHANGED trace
  BY <1>1 DEF ReaderTurn
<1>3. PICK b : b = bus
  OBVIOUS
<1>4. PICK streamed : streamed = trace.streamed
  OBVIOUS
<1>5. PICK events \in Seq(EventSet) :
        /\ events = Pending(bus, c)
        /\ \A i \in 1 .. Len(events) : events[i].kind = "task" => events[i].id \in trace.streamed
  <2>1. Queue(b, streamed)
    BY <1>3, <1>4 DEF Stored
  <2>2. /\ Pending(b, c) \in Seq(EventSet)
        /\ \A i \in 1 .. Len(Pending(b, c)) :
             Pending(b, c)[i].kind = "task" => Pending(b, c)[i].id \in streamed
    BY <2>1, PendingFacts
  <2>3. QED
    BY <1>3, <1>4, <2>2
<1>6. Streams' /\ trace.streamed \subseteq trace'.streamed
  <2>1. CASE c = "trace"
    <3>1. PICK more \in Nat : more = own
      BY <1>2
    <3>2. TraceTakes(events, more)
      BY <1>2, <1>5, <2>1, <3>1
    <3>3. QED
      BY <1>5, <3>2, TraceKeeps DEF Stored
  <2>2. CASE c # "trace"
    BY <1>2, <2>2 DEF Stored, Streams
  <2>3. QED
    BY <2>1, <2>2
<1>7. QED
  BY <1>2, <1>6, DrainKeeps

LEMMA AfterStored == ASSUME Stored, AfterAgent PROVE Stored'
<1>1. /\ bus' = Drained(bus, "activity") /\ Reads(bus, "activity") /\ UNCHANGED trace
      /\ "activity" \in ReaderSet
  BY DEF AfterAgent, ReaderSet
<1>2. Streams' /\ trace.streamed \subseteq trace'.streamed
  BY <1>1 DEF Stored, Streams
<1>3. QED
  BY <1>1, <1>2, DrainKeeps

LEMMA BeforeStored == ASSUME Stored, BeforeAgent PROVE Stored'
<1>1. TraceTakes(<<>>, 1) /\ UNCHANGED <<bus, seen, opened>>
  BY DEF BeforeAgent
<1>2. PICK events \in Seq(EventSet) : events = <<>> /\ Len(events) = 0
  BY EmptySeq
<1>3. \A i \in 1 .. Len(events) : events[i].kind = "task" => events[i].id \in trace.streamed
  BY <1>2
<1>4. TraceTakes(events, 1) /\ 1 \in Nat
  BY <1>1, <1>2
<1>5. Streams' /\ trace.streamed \subseteq trace'.streamed
  BY <1>3, <1>4, TraceKeeps DEF Stored
<1>6. Queue(bus', trace'.streamed)
  BY <1>1, <1>5, MoreStreamed DEF Stored
<1>7. QED
  BY <1>1, <1>5, <1>6 DEF Stored, Gets

\* Every other step leaves the queue, its readers and the trace alone.
LEMMA RestStored == ASSUME Stored, UNCHANGED <<bus, seen, opened, trace>> PROVE Stored'
  BY DEF Stored, Gets, Streams

LEMMA StoredStep == ASSUME Stored, at.rest \in Seq(ReaderSet), [RrNext]_records PROVE Stored'
<1>1. CASE BeforeAgent \/ ReaderTurn \/ AfterAgent
  BY <1>1, BeforeStored, TurnStored, AfterStored
<1>2. CASE CallsModel \/ ToolsEnd \/ UNCHANGED records
  BY <1>2, RestStored DEF CallsModel, ToolsEnd, records
<1>3. ASSUME NEW raises \in BOOLEAN, ModelAnswers(raises) PROVE Stored'
  BY <1>3, RestStored DEF ModelAnswers
<1>4. ASSUME NEW calls \in SUBSET Calls, ReplyAsks(calls) PROVE Stored'
  BY <1>4, RestStored DEF ReplyAsks
<1>5. ASSUME NEW k \in Calls, CallStarts(k) \/ CallRetries(k) PROVE Stored'
  BY <1>5, StartedKeeps DEF CallStarts, CallRetries
<1>6. ASSUME NEW k \in Calls, TaskReports(k) \/ CallReturns(k) PROVE Stored'
  BY <1>6, ReportStored, ReturnStored
<1>7. ASSUME NEW k \in Calls, CallRaises(k) PROVE Stored'
  BY <1>7, RestStored DEF CallRaises
<1>8. ASSUME NEW sort \in {"compaction", "hint"}, Signal(sort) PROVE Stored'
  BY <1>8, SignalKeeps DEF Signal
<1>9. QED
  BY <1>1, <1>2, <1>3, <1>4, <1>5, <1>6, <1>7, <1>8 DEF RrNext

----------------------------------------------------------------------------
(* The trajectory: a call that runs has one start more than ends.            *)

LEMMA GoesFacts ==
  ASSUME NEW node, Goes(node)
  PROVE  /\ at'.node = node /\ at'.rest \in Seq(ReaderSet)
         /\ at' = [node |-> at'.node, rest |-> at'.rest]
<1> DEFINE rest == IF node = "before" THEN Readers
                   ELSE IF node = "after" THEN <<"activity", "trace", "trajectory">>
                   ELSE <<>>
<1>1. at' = [node |-> node, rest |-> rest]
  BY DEF Goes
<1>2. rest \in Seq(ReaderSet)
  <2>1. CASE node = "before"
    <3>1. <<"trajectory", "trace", "activity">> \in Seq(ReaderSet)
      BY DEF ReaderSet
    <3>2. QED
      BY <2>1, <3>1 DEF Readers
  <2>2. CASE node = "after"
    <3>1. <<"activity", "trace", "trajectory">> \in Seq(ReaderSet)
      BY DEF ReaderSet
    <3>2. QED
      BY <2>2, <3>1
  <2>3. CASE node \notin {"before", "after"}
    BY <2>3, EmptySeq
  <2>4. QED
    BY <2>1, <2>2, <2>3
<1> HIDE DEF rest
<1>3. QED
  BY <1>1, <1>2

LEMMA FilesStep == ASSUME Files, CallsAreClosed, [RrNext]_records PROVE Files' /\ CallsAreClosed'
<1>0. /\ file \in [Calls \cup {Model} -> [starts : Nat, ends : Nat]]
      /\ stage \in [Calls -> {"none", "asked", "running", "done"}]
      /\ \A k \in Calls : stage[k] \in {"asked", "running"} => at.node = "tools"
      /\ at.rest \in Seq(ReaderSet) /\ at = [node |-> at.node, rest |-> at.rest]
      /\ DOMAIN file = Calls \cup {Model} /\ Model \notin Calls
  BY ModelApart DEF Files
<1> DEFINE open(who) == IF who \in Running \/ (who = Model /\ at.node = "model") THEN 1 ELSE 0
<1>00. \A who \in Calls \cup {Model} : file[who].starts = file[who].ends + open(who)
  BY <1>0 DEF CallsAreClosed
\* Steps that change neither the trajectory nor what runs.
<1>1. ASSUME UNCHANGED <<file, stage>>, at'.node = "model" <=> at.node = "model",
             (\E k \in Calls : stage[k] \in {"asked", "running"}) => at'.node = "tools",
             at'.rest \in Seq(ReaderSet), at' = [node |-> at'.node, rest |-> at'.rest]
      PROVE  Files' /\ CallsAreClosed'
  BY <1>0, <1>1 DEF Files, CallsAreClosed, Running
<1>2. CASE BeforeAgent \/ AfterAgent
  <2>1. at.node \in {"begin", "after"} /\ UNCHANGED <<file, stage>> /\ Goes(at'.node)
        /\ at'.node \in {"before", "over"}
    BY <1>2, GoesFacts DEF BeforeAgent, AfterAgent
  <2>2. QED
    BY <1>0, <1>1, <2>1, GoesFacts
<1>3. CASE ReaderTurn
  <2>1. at' = [at EXCEPT !.rest = Tail(@)] /\ at.rest # <<>> /\ UNCHANGED <<file, stage>>
    BY <1>3 DEF ReaderTurn
  <2>2. Tail(at.rest) \in Seq(ReaderSet)
    BY <1>0, <2>1, HeadTailProperties
  <2>3. at'.node = at.node /\ at'.rest = Tail(at.rest) /\ at' = [node |-> at'.node, rest |-> at'.rest]
    BY <1>0, <2>1
  <2>4. QED
    BY <1>0, <1>1, <2>1, <2>2, <2>3
<1>4. CASE CallsModel
  <2>1. at.node = "before" /\ Goes("model") /\ Begun(Model) /\ stage' = stage
    BY <1>4 DEF CallsModel
  <2>2. file' = [file EXCEPT ![Model].starts = @ + 1]
    BY <2>1 DEF Begun
  <2>3. at'.node = "model" /\ at'.rest \in Seq(ReaderSet) /\ at' = [node |-> at'.node, rest |-> at'.rest]
    BY <2>1, GoesFacts
  <2>4. Files'
    <3>1. file' \in [Calls \cup {Model} -> [starts : Nat, ends : Nat]]
      BY <1>0, <2>2
    <3>2. QED
      BY <1>0, <2>1, <2>3, <3>1 DEF Files
  <2>5. CallsAreClosed'
    <3>1. DOMAIN file' = Calls \cup {Model} /\ Running' = Running
      BY <1>0, <2>1, <2>2 DEF Running
    <3>2. file'[Model].starts = file'[Model].ends + 1
      BY <1>0, <1>00, <2>1, <2>2 DEF Running
    <3>3. \A k \in Calls : file'[k] = file[k] /\ k # Model
      BY <1>0, <2>2
    <3> HIDE DEF open
    <3>4. ASSUME NEW k \in Calls
          PROVE  file'[k].starts = file'[k].ends
                   + IF k \in Running' \/ (k = Model /\ at'.node = "model") THEN 1 ELSE 0
      BY <1>00, <3>1, <3>3 DEF open
    <3>5. Model \notin Running' /\ file'[Model].ends \in Nat
      BY <1>0, <2>4, <3>1 DEF Running, Files
    <3>6. QED
      BY <2>3, <3>1, <3>2, <3>4, <3>5 DEF CallsAreClosed
  <2>6. QED
    BY <2>4, <2>5
<1>5. ASSUME NEW raises \in BOOLEAN, ModelAnswers(raises) PROVE Files' /\ CallsAreClosed'
  <2>1. at.node = "model" /\ Goes(at'.node) /\ at'.node \in {"over", "after"} /\ stage' = stage
    BY <1>5, GoesFacts DEF ModelAnswers
  <2>2. file' = [file EXCEPT ![Model].ends = @ + 1]
    BY <1>5 DEF ModelAnswers, Closed
  <2>3. at'.node # "model" /\ at'.rest \in Seq(ReaderSet) /\ at' = [node |-> at'.node, rest |-> at'.rest]
    BY <2>1, GoesFacts
  <2>4. Files'
    <3>1. file' \in [Calls \cup {Model} -> [starts : Nat, ends : Nat]]
      BY <1>0, <2>2
    <3>2. QED
      BY <1>0, <2>1, <2>3, <3>1 DEF Files
  <2>5. CallsAreClosed'
    <3>1. DOMAIN file' = Calls \cup {Model} /\ Running' = Running
      BY <1>0, <2>1, <2>2 DEF Running
    <3>2. file'[Model].starts = file'[Model].ends
      BY <1>0, <1>00, <2>1, <2>2 DEF Running
    <3>3. \A k \in Calls : file'[k] = file[k] /\ k # Model
      BY <1>0, <2>2
    <3> HIDE DEF open
    <3>4. ASSUME NEW k \in Calls
          PROVE  file'[k].starts = file'[k].ends
                   + IF k \in Running' \/ (k = Model /\ at'.node = "model") THEN 1 ELSE 0
      BY <1>00, <3>1, <3>3 DEF open
    <3>5. Model \notin Running' /\ file'[Model].ends \in Nat
      BY <1>0, <2>4, <3>1 DEF Running, Files
    <3>6. QED
      BY <2>3, <3>1, <3>2, <3>4, <3>5 DEF CallsAreClosed
  <2>6. QED
    BY <2>4, <2>5
<1>6. ASSUME NEW calls \in SUBSET Calls, ReplyAsks(calls) PROVE Files' /\ CallsAreClosed'
  <2>1. /\ at.node = "after" /\ at'.node = "tools" /\ at'.rest \in Seq(ReaderSet)
        /\ at' = [node |-> at'.node, rest |-> at'.rest]
        /\ file' = file /\ stage' = [k \in Calls |-> IF k \in calls THEN "asked" ELSE stage[k]]
        /\ \A k \in calls : stage[k] = "none"
    BY <1>6, GoesFacts DEF ReplyAsks
  <2>2. Running' = Running /\ stage' \in [Calls -> {"none", "asked", "running", "done"}]
    BY <1>0, <2>1 DEF Running
  <2>3. QED
    BY <1>0, <2>1, <2>2 DEF Files, CallsAreClosed
<1>7. ASSUME NEW k \in Calls, CallStarts(k) PROVE Files' /\ CallsAreClosed'
  <2>1. /\ stage[k] = "asked" /\ stage' = [stage EXCEPT ![k] = "running"] /\ at' = at
        /\ file' = [file EXCEPT ![k].starts = @ + 1]
    BY <1>7 DEF CallStarts, Begun
  <2>2. Files'
    <3>1. /\ file' \in [Calls \cup {Model} -> [starts : Nat, ends : Nat]]
          /\ stage' \in [Calls -> {"none", "asked", "running", "done"}] /\ at.node = "tools"
      BY <1>0, <2>1
    <3>2. QED
      BY <1>0, <2>1, <3>1 DEF Files
  <2>3. k \notin Running /\ Running' = Running \cup {k}
    BY <1>0, <2>1 DEF Running
  <2>4. file'[k].starts = file'[k].ends + 1
    <3>1. file'[k].starts = file[k].starts + 1 /\ file'[k].ends = file[k].ends /\ file[k].ends \in Nat
      BY <1>0, <2>1
    <3>2. file[k].starts = file[k].ends + 0
      BY <1>0, <1>00, <2>3
    <3>3. QED
      BY <3>1, <3>2
  <2>5. \A who \in (Calls \cup {Model}) \ {k} : file'[who] = file[who]
    BY <1>0, <2>1
  <2>6. CallsAreClosed'
    <3>1. DOMAIN file' = Calls \cup {Model}
      BY <1>0, <2>1
    <3> HIDE DEF open
    <3>2. \A who \in (Calls \cup {Model}) \ {k} :
            (who \in Running' \/ (who = Model /\ at'.node = "model")) <=>
            (who \in Running \/ (who = Model /\ at.node = "model"))
      BY <2>1, <2>3
    <3>3. QED
      BY <1>00, <2>3, <2>4, <2>5, <3>1, <3>2 DEF CallsAreClosed, open
  <2>7. QED
    BY <2>2, <2>6
<1>8. ASSUME NEW k \in Calls, CallRetries(k) \/ TaskReports(k) PROVE Files' /\ CallsAreClosed'
  BY <1>0, <1>1, <1>8 DEF CallRetries, TaskReports
<1>9. ASSUME NEW k \in Calls, CallReturns(k) PROVE Files' /\ CallsAreClosed'
  <2>1. /\ stage[k] = "running" /\ stage' = [stage EXCEPT ![k] = "done"] /\ at' = at
        /\ file' = [file EXCEPT ![k].ends = @ + 1]
    BY <1>9 DEF CallReturns, Closed
  <2>2. Files'
    <3>1. /\ file' \in [Calls \cup {Model} -> [starts : Nat, ends : Nat]]
          /\ stage' \in [Calls -> {"none", "asked", "running", "done"}] /\ at.node = "tools"
      BY <1>0, <2>1
    <3>2. QED
      BY <1>0, <2>1, <3>1 DEF Files
  <2>3. k \in Running /\ Running' = Running \ {k}
    BY <1>0, <2>1 DEF Running
  <2>4. file'[k].starts = file'[k].ends /\ k # Model
    BY <1>0, <1>00, <2>1, <2>3
  <2>5. \A who \in (Calls \cup {Model}) \ {k} : file'[who] = file[who]
    BY <1>0, <2>1
  <2>6. CallsAreClosed'
    <3>1. DOMAIN file' = Calls \cup {Model} /\ file'[k].ends \in Nat
      BY <1>0, <2>1
    <3> HIDE DEF open
    <3>2. \A who \in (Calls \cup {Model}) \ {k} :
            (who \in Running' \/ (who = Model /\ at'.node = "model")) <=>
            (who \in Running \/ (who = Model /\ at.node = "model"))
      BY <2>1, <2>3
    <3>3. QED
      BY <1>00, <2>3, <2>4, <2>5, <3>1, <3>2 DEF CallsAreClosed, open
  <2>7. QED
    BY <2>2, <2>6
<1>10. ASSUME NEW k \in Calls, CallRaises(k) PROVE Files' /\ CallsAreClosed'
  <2>1. /\ stage[k] = "running" /\ file' = EndsOf(Running)
        /\ at'.node = "over" /\ at'.rest \in Seq(ReaderSet) /\ at' = [node |-> at'.node, rest |-> at'.rest]
        /\ stage' = [j \in Calls |-> IF stage[j] = "none" THEN "none" ELSE "done"]
    BY <1>10, GoesFacts DEF CallRaises
  <2>2. file' = [who \in Calls \cup {Model} |->
                   IF who \in Running THEN [file[who] EXCEPT !.ends = @ + 1] ELSE file[who]]
    BY <1>0, <2>1 DEF EndsOf
  <2>3. Files'
    <3>1. /\ stage' \in [Calls -> {"none", "asked", "running", "done"}]
          /\ \A j \in Calls : stage'[j] \notin {"asked", "running"}
      BY <1>0, <2>1
    <3>2. \A who \in Calls \cup {Model} :
            /\ file[who] \in [starts : Nat, ends : Nat]
            /\ [file[who] EXCEPT !.ends = @ + 1] \in [starts : Nat, ends : Nat]
      <4>1. \A r \in [starts : Nat, ends : Nat] :
              [r EXCEPT !.ends = @ + 1] \in [starts : Nat, ends : Nat]
        OBVIOUS
      <4>2. QED
        BY <1>0, <4>1
    <3>3. file' \in [Calls \cup {Model} -> [starts : Nat, ends : Nat]]
      BY <2>2, <3>2
    <3>4. QED
      BY <2>1, <3>1, <3>3 DEF Files
  <2>4. at.node = "tools" /\ Running' = {}
    BY <1>0, <2>1 DEF Running
  <2>5. ASSUME NEW who \in Calls \cup {Model} PROVE file'[who].starts = file'[who].ends
    <3>1. CASE who \in Running
      BY <1>0, <1>00, <2>2, <2>5, <3>1
    <3>2. CASE who \notin Running
      BY <1>0, <1>00, <2>2, <2>4, <2>5, <3>2
    <3>3. QED
      BY <3>1, <3>2
  <2>6. \A who \in Calls \cup {Model} : file'[who].ends \in Nat
    BY <2>3 DEF Files
  <2>7. CallsAreClosed'
    <3>1. \A who \in Calls \cup {Model} :
            (IF who \in Running' \/ (who = Model /\ at'.node = "model") THEN 1 ELSE 0) = 0
      BY <2>1, <2>4
    <3>2. DOMAIN file' = Calls \cup {Model} /\ \A n \in Nat : n = n + 0
      BY <2>2
    <3>3. QED
      BY <2>5, <2>6, <3>1, <3>2 DEF CallsAreClosed
  <2>8. QED
    BY <2>3, <2>7
<1>11. CASE ToolsEnd
  <2>1. /\ at.node = "tools" /\ UNCHANGED <<file, stage>>
        /\ \A k \in Calls : stage[k] \in {"none", "done"}
        /\ at'.node = "before" /\ at'.rest \in Seq(ReaderSet) /\ at' = [node |-> at'.node, rest |-> at'.rest]
    BY <1>11, GoesFacts DEF ToolsEnd
  <2>2. QED
    BY <1>1, <2>1
<1>12. CASE (\E sort \in {"compaction", "hint"} : Signal(sort)) \/ UNCHANGED records
  BY <1>0, <1>1, <1>12 DEF Signal, records
<1>13. QED
  BY <1>2, <1>3, <1>4, <1>5, <1>6, <1>7, <1>8, <1>9, <1>10, <1>11, <1>12 DEF RrNext

LEMMA RrInitial == RrInit => RrInv
<1> SUFFICES ASSUME RrInit PROVE RrInv
  OBVIOUS
<1>1. /\ bus = [events |-> <<>>, born |-> 0, cursors |-> [c \in ReaderSet |-> -1], grace |-> "none"]
      /\ seen = [c \in ReaderSet |-> <<>>] /\ opened = [c \in ReaderSet |-> 0]
      /\ trace = [seq |-> 0, saved |-> {}, streamed |-> {}, again |-> {}, blank |-> FALSE]
      /\ file = [who \in Calls \cup {Model} |-> [starts |-> 0, ends |-> 0]]
      /\ at = [node |-> "begin", rest |-> <<>>] /\ stage = [k \in Calls |-> "none"]
  BY DEF RrInit
<1>2. Queue(bus, trace.streamed)
  <2>1. bus \in Buses
    <3>1. <<>> \in Seq(EventSet) /\ [c \in ReaderSet |-> -1] \in [ReaderSet -> Nat \cup {-1}]
      BY EmptySeq
    <3> HIDE DEF EventSet
    <3>2. QED
      BY <1>1, <3>1 DEF Buses
  <2>2. Len(bus.events) = 0 /\ bus.born = 0 /\ \A c \in ReaderSet : bus.cursors[c] = -1
    BY <1>1
  <2>3. QED
    BY <2>1, <2>2 DEF Queue
<1>3. Gets
  <2>1. <<>> \in Seq(Nat)
    BY EmptySeq
  <2>2. QED
    BY <1>1, <2>1 DEF Gets, Given
<1>4. Streams
  BY <1>1 DEF Streams
<1>5. Files
  <2>1. <<>> \in Seq(ReaderSet)
    BY EmptySeq
  <2>2. QED
    BY <1>1, <2>1 DEF Files
<1>6. CallsAreClosed
  BY <1>1 DEF CallsAreClosed, Running
<1>7. QED
  BY <1>1, <1>2, <1>3, <1>4, <1>5, <1>6 DEF RrInv, Stored

\* What a reader was given and what waits for it run from the first event that it
\* was to get to the last that was born.
LEMMA GivenAndPending == Stored => EachReaderGetsAll
<1> SUFFICES ASSUME Stored, NEW c \in ReaderSet, opened[c] > 0
             PROVE  seen[c] \o Numbers(Pending(bus, c)) =
                      [i \in 1 .. bus.born - opened[c] + 1 |-> opened[c] + i - 1]
  BY DEF EachReaderGetsAll
<1>1. PICK b : b = bus
  OBVIOUS
<1>2. PICK streamed : streamed = trace.streamed
  OBVIOUS
<1>3. PICK was, first : was = seen[c] /\ first = opened[c]
  OBVIOUS
<1>4. Queue(b, streamed) /\ Given(b, c, was, first)
  BY <1>1, <1>2, <1>3 DEF Stored, Gets
<1>5. PICK d : d = Drained(b, c)
  OBVIOUS
<1>6. first # 0 /\ first \in Nat
  BY <1>3, <1>4 DEF Given
<1>7. PICK all : all = was \o Numbers(Pending(b, c))
  OBVIOUS
<1>8. Given(d, c, all, first)
  <2>1. Given(d, c, was \o Numbers(Pending(b, c)), IF first = 0 THEN b.born - Len(b.events) + 1 ELSE first)
    BY <1>4, <1>5, DrainFacts
  <2>2. QED
    BY <1>6, <1>7, <2>1
<1>9. LastRead(d, c) = b.born
  BY <1>4, <1>5, DrainFacts
<1>10. /\ all \in Seq(Nat) /\ Len(all) = b.born - first + 1
       /\ \A i \in 1 .. Len(all) : all[i] = first + i - 1
  BY <1>6, <1>8, <1>9 DEF Given
<1>11. all = [i \in 1 .. b.born - first + 1 |-> first + i - 1]
  <2>1. all = [i \in 1 .. Len(all) |-> all[i]]
    BY <1>10
  <2>2. QED
    BY <1>10, <2>1
<1>12. QED
  BY <1>1, <1>3, <1>7, <1>11

\* From its first drain on each reader is given every event once and in order, every
\* saved event of the trace was streamed and none twice, and each call that has begun
\* has one end in the trajectory unless it still runs: for any calls, any bounds on
\* signals, reports and retries, and any number of trace events kept.
THEOREM RecordsStayWhole == RrSpec => []RecordsAreWhole
<1>1. RrInv /\ [RrNext]_records => RrInv'
  BY StoredStep, FilesStep DEF RrInv, Files
<1>2. RrInv => RecordsAreWhole
  BY GivenAndPending DEF RrInv, Stored, Streams, RecordsAreWhole, StreamedOnce
<1>3. QED
  BY RrInitial, <1>1, <1>2, PTL DEF RrSpec
=============================================================================
