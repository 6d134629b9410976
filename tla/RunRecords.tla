------------------------------ MODULE RunRecords ------------------------------
(* What a run records of itself: the queue of runtime events with a cursor   *)
(* for each reader (runtime_events.py), and its three readers, the           *)
(* trajectory file, the execution trace and the activity timeline.  The      *)
(* calls of one reply run at the same time on one event loop; the retry      *)
(* middleware sits between the trajectory and the other two.                 *)
EXTENDS Integers, Sequences, FiniteSets

CONSTANTS Calls,       \* tool calls the model may make
          Commands,    \* those whose tool answers with a Command
          Traced,      \* those the trace reports by itself
          LongRunning, \* those whose start is shown
          Reporting,   \* those of the task tool, which traces its own progress
          TraceKept,   \* TRACE_MAX_EVENTS_PER_RUN
          MaxSignals,  \* bound: events of other middlewares
          MaxReports,  \* bound: reports of the task tool
          MaxRetries   \* bound: attempts of a call after the first

ASSUME RunRecordsAssumption ==
  /\ Commands \cup Traced \cup LongRunning \cup Reporting \subseteq Calls
  /\ "model" \notin Calls   \* it has starts and ends of its own

VARIABLES bus,       \* [events, born, cursors, grace]: the run's store
          seen,      \* history: numbers of the events each reader was given
          opened,    \* history: the first event a reader was to get, 0 before
          activity,  \* [seq, saved, streamed, coming]: the timeline's lines
          trace,     \* [seq, saved, streamed, again, blank]: the run's trace events
          file,      \* the trajectory: how many starts and ends each call has
          at,        \* [node, rest]: the node that runs, its readers to come
          stage,     \* each call: none, asked, running, done
          spent      \* [signals, reports, retries]

records == <<bus, seen, opened, activity, trace, file, at, stage, spent>>

Readers == <<"trajectory", "trace", "activity">>   \* in before_model's order
ReaderSet == {"trajectory", "trace", "activity"}
Model == "model"

Event(n, kind, call, id) == [n |-> n, kind |-> kind, call |-> call, id |-> id]
Kinds == {"start", "end", "compaction", "hint", "task"}
Running == {k \in Calls : stage[k] = "running"}

RrTypeOK ==
  /\ \A i \in 1 .. Len(bus.events) : bus.events[i].kind \in Kinds
  /\ bus.born \in Nat /\ bus.cursors \in [ReaderSet -> Nat \cup {-1}]
  /\ bus.grace \in ReaderSet \cup {"none"}
  /\ \A c \in ReaderSet : bus.cursors[c] <= Len(bus.events)
  /\ stage \in [Calls -> {"none", "asked", "running", "done"}]
  /\ at.node \in {"begin", "before", "model", "called", "after", "tools", "end", "over"}

RrInit ==
  /\ bus = [events |-> <<>>, born |-> 0, cursors |-> [c \in ReaderSet |-> -1], grace |-> "none"]
  /\ seen = [c \in ReaderSet |-> <<>>] /\ opened = [c \in ReaderSet |-> 0]
  /\ activity = [seq |-> 0, saved |-> {}, streamed |-> {}, coming |-> {}]
  /\ trace = [seq |-> 0, saved |-> {}, streamed |-> {}, again |-> {}, blank |-> FALSE]
  /\ file = [who \in Calls \cup {Model} |-> [starts |-> 0, ends |-> 0]]
  /\ at = [node |-> "begin", rest |-> <<>>]
  /\ stage = [k \in Calls |-> "none"]
  /\ spent = [signals |-> 0, reports |-> 0, retries |-> 0]

(* The queue. *)

\* append_runtime_event
Put(b, kind, call, id) ==
  [b EXCEPT !.born = @ + 1, !.events = Append(@, Event(b.born + 1, kind, call, id))]

Numbers(events) == [i \in 1 .. Len(events) |-> events[i].n]

Known(b) == {c \in ReaderSet : b.cursors[c] >= 0}

\* Mutated: what the fastest reader has read is dropped.
Fastest(b) == CHOOSE i \in {b.cursors[c] : c \in Known(b)} :
                \A c \in Known(b) : i >= b.cursors[c]

Slowest(b) == CHOOSE i \in {b.cursors[c] : c \in Known(b)} :
                \A c \in Known(b) : i <= b.cursors[c]

\* What every known reader has read is dropped; a single reader gets one drain of
\* grace for another to come.
Compacted(b) ==
  LET low == Slowest(b)
      shifted == [events |-> SubSeq(b.events, low + 1, Len(b.events)), born |-> b.born,
                  cursors |-> [c \in ReaderSet |->
                                 IF c \notin Known(b) THEN -1
                                 ELSE IF b.cursors[c] > low THEN b.cursors[c] - low ELSE 0],
                  grace |-> "none"] IN
  IF b.events = <<>> \/ low = 0 THEN b
  ELSE IF Cardinality(Known(b)) = 1 /\ b.grace \notin Known(b)
    THEN [b EXCEPT !.grace = CHOOSE c \in Known(b) : TRUE]
  ELSE shifted

\* drain_runtime_events
Pending(b, c) == SubSeq(b.events, (IF b.cursors[c] > 0 THEN b.cursors[c] ELSE 0) + 1, Len(b.events))
Drained(b, c) == Compacted([b EXCEPT !.cursors[c] = Len(b.events)])
Reads(b, c) ==
  /\ seen' = [seen EXCEPT ![c] = @ \o Numbers(Pending(b, c))]
  /\ opened' = [opened EXCEPT ![c] = IF @ = 0 THEN b.born - Len(b.events) + 1 ELSE @]

(* The readers. *)

\* _to_activity_event: the start of a short tool is only remembered, an event of
\* a source that is not listed has no line.
Line(e) == /\ e.kind = "start" => e.call \in LongRunning
           /\ e.kind # "hint"

\* Lines for the events and `more` of the middleware's own: sequence numbers.
NewLines(events, more) ==
  LET lines == {i \in 1 .. Len(events) : Line(events[i])} IN
  activity.seq + 1 .. activity.seq + Cardinality(lines) + more

\* _runtime_event_to_trace: a report of the task tool comes with its event.
Traceable(e) == e.kind \in {"start", "end", "compaction"}
NewTraces(events, more) ==
  LET traces == {i \in 1 .. Len(events) : Traceable(events[i])} IN
  trace.seq + 1 .. trace.seq + Cardinality(traces) + more
Inline(events) == {events[i].id : i \in {i \in 1 .. Len(events) : events[i].kind = "task"}}

\* merge_execution_trace
Trimmed(ids) == {i \in ids : Cardinality({j \in ids : j > i}) < TraceKept}

\* Untraceable events make no record before a model call; after one they make an
\* empty record of an unknown run.
TraceTakes(events, more) ==
  LET fresh == NewTraces(events, more) IN
  trace' = [seq |-> trace.seq + Cardinality(fresh),
            saved |-> Trimmed(trace.saved \cup fresh \cup Inline(events)),
            streamed |-> trace.streamed \cup fresh,
            again |-> trace.again \cup (fresh \cap trace.streamed),
            blank |-> trace.blank \/ (at.node = "after" /\ \E i \in 1 .. Len(events) : events[i].kind = "hint")]

ActivityTakes(lines) ==
  activity' = [activity EXCEPT !.seq = @ + Cardinality(lines), !.saved = @ \cup lines,
                               !.streamed = @ \cup lines]

(* The run. *)

Goes(node) == at' = [node |-> node,
                     rest |-> IF node = "before" THEN Readers
                              ELSE IF node = "after" THEN <<"activity", "trace", "trajectory">>
                              ELSE <<>>]
Begun(who) == file' = [file EXCEPT ![who].starts = @ + 1]
Closed(who) == [file EXCEPT ![who].ends = @ + 1]

\* before_agent of the three.
BeforeAgent ==
  /\ at.node = "begin" /\ Goes("before")
  /\ ActivityTakes(NewLines(<<>>, 1)) /\ TraceTakes(<<>>, 1)
  /\ UNCHANGED <<bus, seen, opened, file, stage, spent>>

\* before_model and after_model of the next reader; after a model call the trace
\* and the timeline add what the model answered.
ReaderTurn ==
  LET c == Head(at.rest)
      own == IF at.node = "after" THEN 1 ELSE 0
      events == Pending(bus, c) IN
  /\ at.rest # <<>> /\ at' = [at EXCEPT !.rest = Tail(@)]
  /\ bus' = Drained(bus, c) /\ Reads(bus, c)
  /\ IF c = "trace" THEN TraceTakes(events, own) ELSE UNCHANGED trace
  /\ IF c = "activity" THEN ActivityTakes(NewLines(events, own)) ELSE UNCHANGED activity
  /\ UNCHANGED <<file, stage, spent>>

CallsModel == /\ at.node = "before" /\ at.rest = <<>> /\ Goes("model") /\ Begun(Model)
              /\ UNCHANGED <<bus, seen, opened, activity, trace, stage, spent>>

\* awrap_model_call: the end is written also when the call raises.
ModelAnswers(raises) ==
  /\ at.node = "model" /\ Goes(IF raises THEN "over" ELSE "after")
  /\ file' = Closed(Model)
  /\ UNCHANGED <<bus, seen, opened, activity, trace, stage, spent>>

ReplyAsks(calls) ==
  /\ at.node = "after" /\ at.rest = <<>> /\ Goes("tools")
  /\ \A k \in calls : stage[k] = "none"
  /\ stage' = [k \in Calls |-> IF k \in calls THEN "asked" ELSE stage[k]]
  /\ UNCHANGED <<bus, seen, opened, activity, trace, file, spent>>

\* The trace's event of the start, where it has one, and the timeline's.
Started(b, k) == Put(IF k \in Traced THEN Put(b, "start", k, 0) ELSE b, "start", k, 0)

CallStarts(k) ==
  /\ stage[k] = "asked" /\ stage' = [stage EXCEPT ![k] = "running"]
  /\ Begun(k) /\ bus' = Started(bus, k)
  /\ UNCHANGED <<seen, opened, activity, trace, at, spent>>

\* The tool raises and the retry middleware calls it again: no end, a second start.
CallRetries(k) ==
  /\ stage[k] = "running" /\ spent.retries < MaxRetries
  /\ spent' = [spent EXCEPT !.retries = @ + 1] /\ bus' = Started(bus, k)
  /\ UNCHANGED <<seen, opened, activity, trace, file, at, stage>>

\* The task tool makes and streams a trace event, and puts it into the queue.
TaskReports(k) ==
  /\ stage[k] = "running" /\ k \in Reporting /\ spent.reports < MaxReports
  /\ spent' = [spent EXCEPT !.reports = @ + 1]
  /\ trace' = [trace EXCEPT !.seq = @ + 1, !.streamed = @ \cup {trace.seq + 1}]
  /\ bus' = Put(bus, "task", k, trace.seq + 1)
  /\ UNCHANGED <<seen, opened, activity, file, at, stage>>

\* The timeline drains the queue at the end of its own wrapper; what it makes of it
\* goes with the call's answer when that is a Command, and nowhere otherwise.
CallReturns(k) ==
  LET ended == Put(bus, "end", k, 0)
      lines == NewLines(Pending(ended, "activity"), 0)
      drained == Drained(ended, "activity") IN
  /\ stage[k] = "running" /\ stage' = [stage EXCEPT ![k] = "done"]
  /\ bus' = IF k \in Traced THEN Put(drained, "end", k, 0) ELSE drained
  /\ Reads(ended, "activity")
  /\ activity' = [activity EXCEPT !.seq = @ + Cardinality(lines), !.streamed = @ \cup lines,
                    !.coming = IF k \in Commands THEN @ \cup lines ELSE @]
  /\ file' = Closed(k)
  /\ UNCHANGED <<trace, at, spent>>

EndsOf(calls) == [who \in DOMAIN file |->
                    IF who \in calls THEN [file[who] EXCEPT !.ends = @ + 1] ELSE file[who]]

\* awrap_tool_call: an error that nobody catches fails the run, and the calls beside
\* it are cancelled; each writes its end.
CallRaises(k) ==
  /\ stage[k] = "running" /\ file' = EndsOf(Running) /\ Goes("over")
  /\ stage' = [j \in Calls |-> IF stage[j] = "none" THEN "none" ELSE "done"]
  /\ UNCHANGED <<bus, seen, opened, activity, trace, spent>>

\* The step's updates are merged when all its calls have answered.
ToolsEnd ==
  /\ at.node = "tools" /\ \E k \in Calls : stage[k] # "none"
  /\ \A k \in Calls : stage[k] \in {"none", "done"}
  /\ Goes("before")
  /\ activity' = [activity EXCEPT !.saved = @ \cup activity.coming, !.coming = {}]
  /\ UNCHANGED <<bus, seen, opened, trace, file, stage, spent>>

\* A reply without calls: after_agent of the timeline.
AfterAgent ==
  /\ at.node = "after" /\ at.rest = <<>> /\ Goes("over")
  /\ ActivityTakes(NewLines(Pending(bus, "activity"), 0))
  /\ bus' = Drained(bus, "activity") /\ Reads(bus, "activity")
  /\ UNCHANGED <<trace, file, stage, spent>>

\* Another middleware appends an event.
Signal(kind) ==
  /\ at.node # "over" /\ spent.signals < MaxSignals
  /\ spent' = [spent EXCEPT !.signals = @ + 1] /\ bus' = Put(bus, kind, Model, 0)
  /\ UNCHANGED <<seen, opened, activity, trace, file, at, stage>>

RrNext ==
  \/ BeforeAgent \/ ReaderTurn \/ CallsModel \/ ToolsEnd \/ AfterAgent
  \/ \E raises \in BOOLEAN : ModelAnswers(raises)
  \/ \E calls \in SUBSET Calls : calls # {} /\ ReplyAsks(calls)
  \/ \E k \in Calls : \/ CallStarts(k) \/ CallRetries(k) \/ TaskReports(k)
                      \/ CallReturns(k) \/ CallRaises(k)
  \/ \E kind \in {"compaction", "hint"} : Signal(kind)

RrSpec == RrInit /\ [][RrNext]_records

----------------------------------------------------------------------------
(* Properties.                                                               *)

\* From its first drain on, each reader is given every event once and in order,
\* however the other readers and the calls of a reply take turns with it.
EachReaderGetsAll ==
  \A c \in ReaderSet : opened[c] > 0 =>
    seen[c] \o Numbers(Pending(bus, c)) =
      [i \in 1 .. bus.born - opened[c] + 1 |-> opened[c] + i - 1]

\* Every event of the saved trace was streamed, and none twice, whether the task
\* tool streamed it or the middleware before or after a model call.
StreamedOnce == trace.saved \subseteq trace.streamed /\ trace.again = {}

\* In the trajectory each call that has begun has one end, unless it still runs,
\* also when it raised or was cancelled because another one did.
CallsAreClosed ==
  \A who \in DOMAIN file :
    file[who].starts = file[who].ends
      + IF who \in Running \/ (who = Model /\ at.node = "model") THEN 1 ELSE 0

\* The records are whole: no event, no streamed line and no end of a call is lost
\* or there twice, whoever reads and whoever fails.
RecordsAreWhole == EachReaderGetsAll /\ StreamedOnce /\ CallsAreClosed

\* Claim of activity_timeline_middleware.py:1-5; TLC refutes it: what the timeline
\* streamed is in the thread's state when the run ends.
StreamedIsSaved == at.node = "over" => activity.streamed = activity.saved

\* Claim of runtime_events.py's docstring; TLC refutes it.  No reader starves another: at the end of a model call every reader has been
\* given every event that the slowest of them had before it.
NobodyStarves == \A c \in ReaderSet : opened[c] \in {0, 1}
=============================================================================
