----------------------------- MODULE MemoryQueue -----------------------------
(* MemoryUpdateQueue (backend/src/agents/memory/queue.py): what the agents   *)
(* learned in a turn waits, one entry per thread, until a debounce timer     *)
(* fires; summarization sends its messages at once, in a thread of their     *)
(* own.  Each context updates the global memory and then that of its         *)
(* workspace, each under the lock of its scope.  The global memory is        *)
(* MemoryScope's; that of a workspace is the same code on another file, and  *)
(* only its lock is here.                                                    *)
EXTENDS MemoryScope, Sequences

CONSTANTS Threads,       \* conversations
          Immediates     \* bound: threads started by queue_immediate

Batch == "batch"         \* the timer thread that processes the queue
ASSUME QueueThreads == /\ Updaters = {Batch} \cup Immediates /\ Batch \notin Immediates
                       /\ "none" \notin Updaters /\ "global" \notin Threads

VARIABLES queue,       \* the pending contexts, oldest first
          processing,  \* _processing
          debounce,    \* _timer is set and has not fired
          orphans,     \* timers that run though _timer no longer refers to them
          fired,       \* callbacks of timers, before they take the lock
          worker,      \* the batch and the immediate threads
          holder,      \* _scope_locks: who holds each
          turn,        \* history: turns that ended, of each thread
          digested,    \* history: the last turn that an update was asked about
          displaced    \* history: the last turn whose entry queue_immediate dropped

pending == <<queue, processing, debounce, orphans, fired>>
history == <<turn, digested, displaced>>
memory == <<file, temp, index, cache, op, crossed, left,
          queue, processing, debounce, orphans, fired, worker, holder, turn, digested, displaced>>

Contexts == [thread : Threads, turn : Nat]
Scopes == {"global"} \cup Threads
Resting == [todo |-> <<>>, pc |-> "none"]

MemoryTypeOK ==
  /\ ScopeTypeOK
  /\ queue \in Seq(Contexts) /\ processing \in BOOLEAN
  /\ debounce \in BOOLEAN /\ orphans \in Nat /\ fired \in Nat
  /\ worker \in [Updaters -> [todo : Seq(Contexts),
                              pc : {"none", "global", "update", "workspace", "private", "over"}]]
  /\ holder \in [Scopes -> Updaters \cup {"none"}]
  /\ {turn, digested, displaced} \subseteq [Threads -> Nat]

MemoryInit ==
  /\ ScopeInit
  /\ left \in Workloads
  /\ queue = <<>> /\ processing = FALSE /\ debounce = FALSE /\ orphans = 0 /\ fired = 0
  /\ worker = [w \in Updaters |-> Resting]
  /\ holder = [s \in Scopes |-> "none"]
  /\ turn = [t \in Threads |-> 0] /\ digested = turn /\ displaced = turn

Without(t) ==
  LET kept[n \in 0 .. Len(queue)] ==
        IF n = 0 THEN <<>>
        ELSE IF queue[n].thread = t THEN kept[n - 1] ELSE Append(kept[n - 1], queue[n])
  IN  kept[Len(queue)]

\* add, at the end of a turn: the thread's entry is replaced and the timer reset.
Add(t) ==
  /\ left.turns[t] > 0
  /\ left' = [left EXCEPT !.turns[t] = @ - 1]
  /\ turn' = [turn EXCEPT ![t] = @ + 1]
  /\ queue' = Append(Without(t), [thread |-> t, turn |-> turn[t] + 1])
  /\ debounce' = TRUE
  /\ UNCHANGED <<scope, processing, orphans, fired, worker, holder, digested, displaced>>

\* queue_immediate: the thread's entry is dropped, with the timer if it was the
\* last one.  The messages are those summarization takes out of the state: none of
\* them need be of the last turn.
QueueImmediate(t) ==
  /\ left.turns[t] > 0 /\ left.immediates > 0
  /\ left' = [left EXCEPT !.immediates = @ - 1]
  /\ displaced' = IF queue = Without(t) THEN displaced ELSE [displaced EXCEPT ![t] = turn[t]]
  /\ queue' = Without(t)
  /\ debounce' = (debounce /\ Without(t) # <<>>)
  /\ \E w \in Immediates :
        /\ worker[w].pc = "none"
        /\ worker' = [worker EXCEPT ![w] = [todo |-> <<[thread |-> t, turn |-> 0]>>,
                                            pc |-> "global"]]
  /\ UNCHANGED <<scope, processing, orphans, fired, holder, turn, digested>>

Fire ==
  /\ \/ debounce /\ debounce' = FALSE /\ UNCHANGED orphans
     \/ orphans > 0 /\ orphans' = orphans - 1 /\ UNCHANGED debounce
  /\ fired' = fired + 1
  /\ UNCHANGED <<scope, left, queue, processing, worker, holder, history>>

\* _process_queue: re-armed while a batch is at work, else the whole queue is taken.
\* A timer that was set since this one fired runs on, forgotten.
ProcessUpdates ==
  /\ fired > 0
  /\ fired' = fired - 1
  /\ \/ /\ processing
        /\ debounce' = TRUE
        /\ UNCHANGED <<queue, processing, orphans, worker>>
     \/ /\ ~processing /\ queue = <<>>
        /\ UNCHANGED <<queue, processing, debounce, orphans, worker>>
     \/ /\ ~processing /\ queue # <<>>
        /\ processing' = TRUE
        /\ worker' = [worker EXCEPT ![Batch] = [todo |-> queue, pc |-> "global"]]
        /\ queue' = <<>>
        /\ debounce' = FALSE
        /\ orphans' = orphans + IF debounce THEN 1 ELSE 0
  /\ UNCHANGED <<scope, left, holder, history>>

\* _update_context_memory.  Nothing an update raises leaves update_memory, so the
\* attempts that queue_immediate would make never follow.
LockOfThread(w) == Head(worker[w].todo).thread   \* mutated: one lock per thread
LockOf(w) == IF worker[w].pc \in {"global", "update"} THEN "global"
             ELSE Head(worker[w].todo).thread
Enter(w, pc) ==
  /\ holder[LockOf(w)] = "none"
  /\ holder' = [holder EXCEPT ![LockOf(w)] = w]
  /\ worker' = [worker EXCEPT ![w].pc = pc]
Leave(w) == holder' = [holder EXCEPT ![LockOf(w)] = "none"]

UpdateGlobal(w) ==
  /\ worker[w].pc = "global"
  /\ Enter(w, "update")
  /\ BeginUpdate(w)
  /\ LET c == Head(worker[w].todo)
     IN digested' = [digested EXCEPT ![c.thread] = IF c.turn > @ THEN c.turn ELSE @]
  /\ UNCHANGED <<left, pending, turn, displaced>>

GlobalUpdated(w) ==
  /\ worker[w].pc = "update" /\ op[w].pc = "idle"
  /\ Leave(w)
  /\ worker' = [worker EXCEPT ![w].pc = "workspace"]
  /\ UNCHANGED <<scope, left, pending, history>>

UpdateWorkspace(w) ==
  /\ worker[w].pc = "workspace"
  /\ Enter(w, "private")
  /\ UNCHANGED <<scope, left, pending, history>>

\* The next context of the batch, or the end of the thread.
WorkspaceUpdated(w) ==
  LET rest == Tail(worker[w].todo)
  IN /\ worker[w].pc = "private"
     /\ Leave(w)
     /\ worker' = [worker EXCEPT ![w] = IF rest # <<>> THEN [todo |-> rest, pc |-> "global"]
                                        ELSE IF w = Batch THEN Resting
                                        ELSE [Resting EXCEPT !.pc = "over"]]
     /\ processing' = (processing /\ (w # Batch \/ rest # <<>>))
     /\ UNCHANGED <<scope, left, queue, debounce, orphans, fired, history>>

Work(w) == UpdateGlobal(w) \/ GlobalUpdated(w) \/ UpdateWorkspace(w) \/ WorkspaceUpdated(w)

MemoryNext ==
  \/ \E t \in Threads : Add(t) \/ QueueImmediate(t)
  \/ Fire \/ ProcessUpdates
  \/ \E w \in Updaters : Work(w)
  \/ ScopeNext /\ UNCHANGED <<pending, worker, holder, history>>

\* Timers fire and their threads run; the model answers or its call fails; an
\* operation that has begun goes on.  Nothing makes a user edit, or a turn end.
Answers(w) == ModelReplies(w) /\ UNCHANGED <<pending, worker, holder, history>>
MemoryFairness ==
  /\ WF_memory(Fire) /\ WF_memory(ProcessUpdates)
  /\ \A w \in Updaters : WF_memory(Work(w)) /\ WF_memory(Answers(w))
  /\ \A o \in Ops : WF_memory(Save(o) /\ UNCHANGED <<pending, worker, holder, history>>)

MemorySpec == MemoryInit /\ [][MemoryNext]_memory /\ MemoryFairness

-----------------------------------------------------------------------------
\* Whatever waits has a timer, or a callback, that will come for it: also after the
\* re-arming while a batch is at work, timers that fired before they were cancelled,
\* and entries that queue_immediate removed.
NoStrandedEntry == queue # <<>> => debounce \/ orphans > 0 \/ fired > 0

\* Every turn that was queued is brought before the model with its own context or
\* a later one of its thread, unless queue_immediate dropped it.
EveryTurnIsDigested ==
  \A t \in Threads : \A n \in 1..2 :
     (turn[t] = n) ~> (digested[t] >= n \/ displaced[t] >= n)
=============================================================================
