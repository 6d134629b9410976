--------------------------- MODULE SteeringQueue ---------------------------
(***************************************************************************)
(* Steering one thread, end to end: the browser's message queue             *)
(* (frontend core/threads/hooks.ts), the gateway's steer handler            *)
(* (routers/steering.py), the durable store (steering_queue_store.py) and   *)
(* the model turns that claim from it (steering_middleware.py).             *)
(*                                                                          *)
(* An item of the browser's queue carries one text and lends its id to its  *)
(* intent.  Which of several queued items comes first is left open, and so  *)
(* is the moment the thread is idle.                                        *)
(***************************************************************************)
EXTENDS Naturals, Sequences, FiniteSets

CONSTANTS
    Items,       \* messages the user queues while the thread is busy
    Runs,        \* agent runs on the thread
    MaxFailures, \* bound: steer requests that fail or find the thread locked
    MaxKills     \* bound: runs that die between a claim and its checkpoint


VARIABLES
    status,      \* an item in the browser: in the queue, steered, sent ...
    lock, timer, \* steeringLockUntil and the scheduled retry
    req,         \* the browser's view of an item's steer request
    posts,       \* steer requests on their way to the gateway
    rows, consumed, \* the table: intents in order of insertion, those claimed
    held,        \* a run: the intent it claimed and has not checkpointed
    injected, said, \* how often the thread got an item as a reminder, as a message
    failures, kills

None == "none"

ASSUME SteeringAssumption ==
    MaxFailures \in Nat /\ MaxKills \in Nat /\ None \notin Items

Out == {"new", "sending", "sent", "steered", "dismissed"}
InQueue == {"queued", "pending", "failed", "retrying"}

browser == <<status, lock, timer, req>>
store == <<rows, consumed>>
thread == <<injected, said>>
vars == <<browser, posts, store, held, thread, failures, kills>>

Stored == {rows[n] : n \in DOMAIN rows}

\* One type invariant for the browser, the store and the thread.
TypeOK ==
    /\ status \in [Items -> Out \cup InQueue]
    /\ lock \in {"no", "timed", "plain"} /\ timer \in BOOLEAN
    /\ req \in [Items -> {None, "asked", "ok", "busy"}]
    /\ posts \subseteq Items
    /\ rows \in Seq(Items) /\ consumed \subseteq Items
    /\ held \in [Runs -> Items \cup {None}]
    /\ injected \in [Items -> Nat] /\ said \in [Items -> Nat]
    /\ failures \in Nat /\ kills \in Nat

Init ==
    /\ status = [i \in Items |-> "new"] /\ lock = "no" /\ timer = FALSE
    /\ req = [i \in Items |-> None] /\ posts = {}
    /\ rows = <<>> /\ consumed = {}
    /\ held = [r \in Runs |-> None]
    /\ injected = [i \in Items |-> 0] /\ said = [i \in Items |-> 0]
    /\ failures = 0 /\ kills = 0

(***************************************************************************)
(* The browser.                                                             *)
(***************************************************************************)

\* submitSteeringIntent up to its first await: a locked thread, or a request
\* already under way for the item, and it returns.
Submit(i) ==
    IF lock # "no" \/ req[i] # None
    THEN UNCHANGED <<req, posts>>
    ELSE req' = [req EXCEPT ![i] = "asked"] /\ posts' = posts \cup {i}

\* retryFailedSteering once the statuses are st: a failed item becomes
\* retrying and is submitted.
Retry(st) ==
    \/ \E i \in Items :
          /\ st[i] = "failed"
          /\ status' = [st EXCEPT ![i] = "retrying"]
          /\ Submit(i)
    \/ /\ \A i \in Items : st[i] # "failed"
       /\ status' = st /\ UNCHANGED <<req, posts>>

\* sendMessage while a run is active.
SendMessage(i) ==
    /\ status[i] = "new"
    /\ status' = [status EXCEPT ![i] = "queued"]
    /\ UNCHANGED <<lock, timer, req, posts, store, held, thread, failures, kills>>

\* Mutant: any queued item may be sent, steered or not.
ProcessQueueAny(i) ==
    /\ status[i] \in InQueue
    /\ \A j \in Items : status[j] # "sending"
    /\ status' = [status EXCEPT ![i] = "sending"]
    /\ UNCHANGED <<lock, timer, req, posts, store, held, thread, failures, kills>>

\* processQueue takes an item that was never steered.
ProcessQueue(i) ==
    /\ status[i] = "queued"
    /\ \A j \in Items : status[j] # "sending"
    /\ status' = [status EXCEPT ![i] = "sending"]
    /\ UNCHANGED <<lock, timer, req, posts, store, held, thread, failures, kills>>

\* The message is in the thread, and a failed steering is retried; or the
\* submission fails before that and the item returns to the queue.
Sent(i) ==
    /\ status[i] = "sending"
    /\ said' = [said EXCEPT ![i] = @ + 1]
    /\ Retry([status EXCEPT ![i] = "sent"])
    /\ UNCHANGED <<lock, timer, store, held, injected, failures, kills>>

\* The submission is refused, or fails before the server has taken it.
SendFails(i) ==
    /\ status[i] = "sending" /\ failures < MaxFailures
    /\ failures' = failures + 1
    /\ status' = [status EXCEPT ![i] = "queued"]
    /\ UNCHANGED <<lock, timer, req, posts, store, held, thread, kills>>

Dismiss(i) ==
    /\ status[i] \in InQueue
    /\ Retry([status EXCEPT ![i] = "dismissed"])
    /\ UNCHANGED <<lock, timer, store, held, thread, failures, kills>>

\* clearQueue: everything still queued is dropped, and nothing is retried.
ClearQueue ==
    /\ \E i \in Items : status[i] \in InQueue
    /\ status' = [i \in Items |-> IF status[i] \in InQueue THEN "dismissed" ELSE status[i]]
    /\ UNCHANGED <<lock, timer, req, posts, store, held, thread, failures, kills>>

SteerQueued(i) ==
    /\ status[i] \in {"queued", "failed"}
    /\ status' = [status EXCEPT ![i] = "pending"]
    /\ Submit(i)
    /\ UNCHANGED <<lock, timer, store, held, thread, failures, kills>>

\* An item still in the queue is marked, one dismissed meanwhile is not.
Mark(i, s) == IF status[i] \in InQueue THEN [status EXCEPT ![i] = s] ELSE status

AnswerOk(i) ==
    /\ req[i] = "ok" /\ req' = [req EXCEPT ![i] = None]
    /\ status' = Mark(i, "steered") /\ timer' = FALSE
    /\ UNCHANGED <<lock, posts, store, held, thread, failures, kills>>

\* The thread is locked: a retry is scheduled for when the lock is over.
AnswerBusy(i) ==
    /\ req[i] = "busy" /\ req' = [req EXCEPT ![i] = None]
    /\ status' = Mark(i, "failed") /\ lock' = "timed" /\ timer' = TRUE
    /\ UNCHANGED <<posts, store, held, thread, failures, kills>>

\* The connection fails, whatever the gateway did or will do with the request.
RequestFails(i) ==
    /\ req[i] # None /\ failures < MaxFailures
    /\ failures' = failures + 1
    /\ req' = [req EXCEPT ![i] = None]
    /\ status' = Mark(i, "failed") /\ lock' = "plain"
    /\ posts' \in {posts, posts \ {i}}
    /\ UNCHANGED <<timer, store, held, thread, kills>>

LockExpires ==
    /\ lock # "no" /\ lock' = "no"
    /\ UNCHANGED <<status, timer, req, posts, store, held, thread, failures, kills>>

TimerFires ==
    /\ timer /\ lock # "timed" /\ timer' = FALSE
    /\ Retry(status)
    /\ UNCHANGED <<lock, store, held, thread, failures, kills>>

(***************************************************************************)
(* The gateway and the store.                                               *)
(***************************************************************************)

Answer(i, a) == req' = IF req[i] = "asked" THEN [req EXCEPT ![i] = a] ELSE req

\* enqueue_steering_intent: accepted, or a duplicate of what is there.
Enqueue(i) == rows' = IF i \in Stored THEN rows ELSE Append(rows, i)

\* Mutant: acknowledged although nothing was stored.
SteerThreadAcks(i) ==
    /\ i \in posts /\ posts' = posts \ {i}
    /\ \/ /\ failures < MaxFailures /\ failures' = failures + 1
          /\ Answer(i, "ok") /\ UNCHANGED rows
       \/ Enqueue(i) /\ Answer(i, "ok") /\ UNCHANGED failures
    /\ UNCHANGED <<status, lock, timer, consumed, held, thread, kills>>

\* steer_thread: the thread's state is out of reach, or the intent is stored.
SteerThread(i) ==
    /\ i \in posts /\ posts' = posts \ {i}
    /\ \/ /\ failures < MaxFailures /\ failures' = failures + 1
          /\ Answer(i, "busy") /\ UNCHANGED rows
       \/ Enqueue(i) /\ Answer(i, "ok") /\ UNCHANGED failures
    /\ UNCHANGED <<status, lock, timer, consumed, held, thread, kills>>

(***************************************************************************)
(* The agent's model turns.                                                 *)
(***************************************************************************)

Oldest(n) == n \in DOMAIN rows /\ rows[n] \notin consumed /\ \A m \in 1..(n - 1) : rows[m] \in consumed

\* Mutant: any unconsumed row is taken.
ClaimAny(r) ==
    /\ held[r] = None
    /\ \E n \in DOMAIN rows :
          /\ rows[n] \notin consumed
          /\ held' = [held EXCEPT ![r] = rows[n]]
          /\ consumed' = consumed \cup {rows[n]}
    /\ UNCHANGED <<browser, posts, rows, thread, failures, kills>>

\* Mutant: the row is marked, and the result of the update taken for a miss.
ClaimMissed(r) ==
    /\ held[r] = None
    /\ \E n \in DOMAIN rows : Oldest(n) /\ consumed' = consumed \cup {rows[n]}
    /\ UNCHANGED <<browser, posts, rows, held, thread, failures, kills>>

\* before_model: claim_next_steering_intent reads the oldest unconsumed row and
\* marks it in one transaction.
Claim(r) ==
    /\ held[r] = None
    /\ \E n \in DOMAIN rows :
          /\ Oldest(n)
          /\ held' = [held EXCEPT ![r] = rows[n]]
          /\ consumed' = consumed \cup {rows[n]}
    /\ UNCHANGED <<browser, posts, rows, thread, failures, kills>>

\* The step's update, the reminder, reaches the thread's checkpoint.
Checkpoint(r) ==
    /\ held[r] # None
    /\ injected' = [injected EXCEPT ![held[r]] = @ + 1]
    /\ held' = [held EXCEPT ![r] = None]
    /\ UNCHANGED <<browser, posts, store, said, failures, kills>>

\* The run is stopped or its process dies before that.
Kill(r) ==
    /\ held[r] # None /\ kills < MaxKills
    /\ kills' = kills + 1
    /\ held' = [held EXCEPT ![r] = None]
    /\ UNCHANGED <<browser, posts, store, thread, failures>>

----------------------------------------------------------------------------
Network(i) == SteerThread(i) \/ AnswerOk(i) \/ AnswerBusy(i)
Turn(r) == Claim(r) \/ Checkpoint(r)
User(i) == SendMessage(i) \/ SteerQueued(i) \/ Dismiss(i)

Next ==
    \/ \E i \in Items : \/ User(i) \/ ProcessQueue(i) \/ Sent(i) \/ SendFails(i)
                        \/ Network(i) \/ RequestFails(i)
    \/ ClearQueue \/ LockExpires \/ TimerFires
    \/ \E r \in Runs : Turn(r) \/ Kill(r)

Spec == Init /\ [][Next]_vars

\* Requests are answered, timers fire, and the thread keeps taking model turns;
\* nothing is assumed of the user or of the failures.
Fairness ==
    /\ \A i \in Items : WF_vars(Network(i)) /\ WF_vars(ProcessQueue(i)) /\ WF_vars(Sent(i))
    /\ WF_vars(LockExpires) /\ WF_vars(TimerFires)
    /\ \A r \in Runs : WF_vars(Turn(r))

FairSpec == Spec /\ Fairness

----------------------------------------------------------------------------
(* Properties.                                                              *)

\* A text reaches the thread at most once, as a reminder or as a message,
\* whatever is retried, answered late, claimed by two runs or cut off by a
\* crash (hooks.ts:1417-1521, 1527-1537; steering_queue_store.py:94-197).
AtMostOnce == \A i \in Items : injected[i] + said[i] <= 1

\* What the user is told is queued ("Steering queued and will be injected on
\* the next available model turn") is in the store.
SteeredIsStored == \A i \in Items : status[i] = "steered" => i \in Stored

\* The store and the turns implement the queue's promise: oldest first, each
\* intent taken once.
Lost == {i \in consumed : injected[i] = 0 /\ \A r \in Runs : held[r] # i}
Intents == INSTANCE SteeringIntents WITH
    accepted <- rows,
    waiting <- Stored \ consumed,
    taken <- {held[r] : r \in Runs} \ {None},
    injected <- {i \in Items : injected[i] > 0},
    lost <- Lost
KeepsPromise == Intents!Spec

\* What the runs that died had in hand, one intent each.
LostToKill(i) == i \in Lost /\ Cardinality(Lost) <= kills

\* Every stored intent is injected if the thread takes turns, but for the one
\* that each killed run had in hand (steering_queue_store.py:151-197,
\* steering_middleware.py:85-103).
StoredIsInjected ==
    \A i \in Items : i \in Stored ~> injected[i] = 1 \/ LostToKill(i)

\* The doc's promise of the store, exactly-once consumption, with the crash the
\* store is there to survive: a consumed intent is in the thread or on its way
\* (steering_queue_store.py:1-6).
ConsumedIsInjected == Lost = {}

\* What the toast says of a failed retry, that it will be retried again: a
\* retrying item does not stay so forever (hooks.ts:1486-1490).
RetryEnds == \A i \in Items : status[i] = "retrying" ~> status[i] # "retrying"
=============================================================================
