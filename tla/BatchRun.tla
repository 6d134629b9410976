------------------------------- MODULE BatchRun -------------------------------
(* The batch-workflow skill: three scripts that an agent calls for each task *)
(* of a list, and the two files they rewrite whole, the checkpoint and the   *)
(* results (src/skills/batch-workflow/scripts).  The agent that calls them   *)
(* is external; it may be interrupted between two calls and inside one.      *)
EXTENDS Integers, Sequences

CONSTANTS ListLength,   \* tasks in the list
          MaxStops,     \* bound: interrupted runs
          MaxTorn       \* bound: calls that are killed while they write a file

ASSUME BatchAssumption == ListLength \in Nat

VARIABLES kind,     \* json or xlsx: the results file
          results,  \* [torn, rows]: rows are [id, status, data, error]
          point,    \* the checkpoint: [there, torn, total, done]
          batch,    \* the agent: [at, task], resting, working, written, finished
          written,  \* history: the status last written for each task
          harm      \* [stops, torn]

batchState == <<kind, results, point, batch, written, harm>>

Todo == 1 .. ListLength
Outcomes == {"found", "no_result", "error"}
Least(S) == CHOOSE i \in S : \A j \in S : i <= j

BatchTypeOK ==
  /\ kind \in {"json", "xlsx"}
  /\ \A i \in DOMAIN results.rows : results.rows[i].id \in Todo /\ results.rows[i].status \in Outcomes
  /\ point.done \subseteq Todo /\ point.total \in {0, ListLength}
  /\ batch.at \in {"resting", "working", "written", "finished"} /\ batch.task \in 0 .. ListLength + 1
  /\ written \in [Todo -> Outcomes \cup {"none"}]

BatchInit ==
  /\ kind \in {"json", "xlsx"} /\ results = [torn |-> FALSE, rows |-> <<>>]
  /\ point = [there |-> FALSE, torn |-> FALSE, total |-> 0, done |-> {}]
  /\ batch = [at |-> "resting", task |-> 0]
  /\ written = [i \in Todo |-> "none"] /\ harm = [stops |-> 0, torn |-> 0]

----------------------------------------------------------------------------
(* load_tasks.py and checkpoint.py.                                          *)

FirstOpen(done, total) ==
  LET open == {i \in 1 .. total : i \notin done} IN IF open = {} THEN total + 1 ELSE Least(open)

\* _load_checkpoint_index: without a total there is no progress to resume.
LoadIndex ==
  IF ~ point.there \/ point.torn \/ point.done = {} \/ point.total = 0 THEN 1
  ELSE FirstOpen(point.done, point.total)

\* cmd_status, which exits with an error when the file cannot be read.
StatusIndex == IF point.total = 0 THEN 1 ELSE FirstOpen(point.done, point.total)

\* The agent looks up where to go on, with either script.
Resume(index) ==
  /\ batch.at = "resting"
  /\ batch' = IF index > ListLength THEN [at |-> "finished", task |-> ListLength + 1]
              ELSE [at |-> "working", task |-> index]
  /\ UNCHANGED <<kind, results, point, written, harm>>
ResumeByList == Resume(LoadIndex)
ResumeByStatus == ~ point.torn /\ Resume(StatusIndex)

\* cmd_init: the done tasks stay.
InitCheckpoint ==
  /\ batch.at = "resting" /\ ~ point.torn
  /\ point' = [point EXCEPT !.there = TRUE, !.total = ListLength]
  /\ UNCHANGED <<kind, results, batch, written, harm>>

\* Mutated: all the tasks up to this one are done.
DoneUpTo(done, i) == done \cup 1 .. i

WithDone(done, i) == done \cup {i}

\* The agent goes to the next task of the list, or has finished it.
Onward == [at |-> IF batch.task < ListLength THEN "working" ELSE "finished", task |-> batch.task + 1]

\* cmd_mark_done; with a file it cannot read it exits with an error.
MarkDone ==
  /\ batch.at = "written" /\ batch' = Onward
  /\ point' = IF point.torn THEN point
              ELSE [point EXCEPT !.there = TRUE, !.done = WithDone(@, batch.task)]
  /\ UNCHANGED <<kind, results, written, harm>>

\* The agent shows its first results before it marks anything.
MarkLater == /\ batch.at = "written" /\ batch' = Onward
             /\ UNCHANGED <<kind, results, point, written, harm>>

----------------------------------------------------------------------------
(* write_result.py.                                                          *)

\* A json file that cannot be read counts as empty, a workbook makes the script fail.
Readable == IF results.torn /\ kind = "json" THEN <<>> ELSE results.rows

NewRow(i, status, given, why) ==
  [id |-> i, status |-> status, data |-> given /\ status = "found", error |-> why]

\* A sheet keeps the cells that are not written again.
Kept(old, new) == IF kind = "json" THEN new
                  ELSE [new EXCEPT !.data = @ \/ old.data, !.error = @ \/ old.error]

Placed(rows, new) ==
  LET same == {j \in DOMAIN rows : rows[j].id = new.id} IN
  IF same = {} THEN Append(rows, new)
  ELSE [rows EXCEPT ![Least(same)] = Kept(rows[Least(same)], new)]

WriteResult(status, given, why) ==
  /\ batch.at = "working" /\ (results.torn => kind = "json")
  /\ results' = [torn |-> FALSE, rows |-> Placed(Readable, NewRow(batch.task, status, given, why))]
  /\ written' = [written EXCEPT ![batch.task] = status]
  /\ batch' = [batch EXCEPT !.at = "written"]
  /\ UNCHANGED <<kind, point, harm>>

\* The data is no json object, or the workbook is broken: the agent goes on.
WriteFails == /\ batch.at = "working" /\ batch' = Onward
              /\ UNCHANGED <<kind, results, point, written, harm>>

----------------------------------------------------------------------------
(* Interruptions.                                                            *)

Interrupted == /\ batch.at \in {"working", "written"} /\ harm.stops < MaxStops
               /\ batch' = [at |-> "resting", task |-> 0]
               /\ harm' = [harm EXCEPT !.stops = @ + 1]
               /\ UNCHANGED <<kind, results, point, written>>

\* Both files are rewritten in place.
TornWhileWriting ==
  /\ harm.torn < MaxTorn /\ harm' = [harm EXCEPT !.torn = @ + 1]
  /\ batch' = [at |-> "resting", task |-> 0]
  /\ \/ batch.at = "working" /\ results' = [results EXCEPT !.torn = TRUE] /\ UNCHANGED point
     \/ /\ batch.at = "written" /\ ~ point.torn /\ UNCHANGED results
        /\ point' = [point EXCEPT !.there = TRUE, !.torn = TRUE]
  /\ UNCHANGED <<kind, written>>

BatchNext ==
  \/ ResumeByList \/ ResumeByStatus \/ InitCheckpoint \/ MarkDone \/ MarkLater
  \/ \E status \in Outcomes, given \in BOOLEAN : WriteResult(status, given, FALSE)
  \/ WriteResult("error", FALSE, TRUE)
  \/ WriteFails \/ Interrupted \/ TornWhileWriting

BatchSpec == BatchInit /\ [][BatchNext]_batchState

----------------------------------------------------------------------------
(* Properties.                                                               *)

RowsOf(i) == {j \in DOMAIN results.rows : results.rows[j].id = i}

\* A task that the checkpoint calls done has its result in the file, with the status
\* of the last attempt, unless a kill tore a file.
DoneHasRow ==
  harm.torn = 0 => \A i \in point.done : \E j \in RowsOf(i) : results.rows[j].status = written[i]

\* A resumed run finds that there is nothing left to do only when each task has a
\* result, also when some calls failed and their tasks were passed over.
AllDoneIsAllRows ==
  harm.torn = 0 /\ point.total = ListLength /\ LoadIndex > ListLength
    => \A i \in Todo : RowsOf(i) # {}

\* However often tasks are done again after an interruption, a task has one row, and
\* a result without data shows none in a json file.
OneRowEach ==
  \A i \in Todo : /\ \A j, k \in RowsOf(i) : j = k
                  /\ kind = "json" => \A j \in RowsOf(i) :
                       results.rows[j].data => results.rows[j].status = "found"

\* Checkpoint and results tell one story, in whatever order the scripts are called.
ResultsMatch == DoneHasRow /\ AllDoneIsAllRows /\ OneRowEach

\* What SKILL.md says of an interrupted run (SKILL.md:27): it goes on after the
\* tasks that are done.  Nothing in the skill calls --init, and without a total the
\* index is 1, so TLC refutes it.
ResumesAfterDone == ~ point.torn /\ 1 \in point.done => LoadIndex > 1
=============================================================================
