----------------------------- MODULE QueueProofs -----------------------------
(***************************************************************************)
(* Proofs about what waits in a queue and the files behind it: the browser's *)
(* steering queue (SteeringQueue), and a user's memory with its queue of      *)
(* updates, settings file and client (MCUserFiles), for any constants.        *)
(*                                                                            *)
(* AtMostOnce alone is not inductive: that a steered text is never also sent  *)
(* as a message needs what the browser, the requests on their way and the     *)
(* table know of it (Untouched), and that it is not injected twice needs the  *)
(* claims to be exclusive (Claimed).                                          *)
(*                                                                            *)
(* For the memory: what each operation under way holds is the file with its   *)
(* own change and the index is behind by that change only (Clean), unless an  *)
(* edit met an update; the lock of the global memory lets one update work at  *)
(* a time (Exclusive).  For the settings: who saves alone has seen what was   *)
(* last saved, and a copy that goes by the file's time has its content.       *)
(***************************************************************************)
EXTENDS SteeringQueue, MCUserFiles, FiniteSetTheorems, SequenceTheorems, WellFoundedInduction, TLAPS

\* Statuses of an item that was never steered.
Plain == {"new", "queued", "sending", "sent"}

\* What was never steered is unknown beyond the browser.
Untouched ==
    \A i \in Items : status[i] \in Plain =>
        req[i] = None /\ i \notin posts /\ i \notin Stored /\ i \notin consumed

\* What was said left the queue as a message, once.
SaidOnce == \A i \in Items : said[i] = IF status[i] = "sent" THEN 1 ELSE 0

\* An injected or held intent was claimed, by one run.
Claimed ==
    /\ \A i \in Items : injected[i] # 0 => i \in consumed /\ injected[i] = 1
    /\ \A r \in Runs : held[r] # None => held[r] \in consumed /\ injected[held[r]] = 0
    /\ \A r, q \in Runs : held[r] # None /\ held[r] = held[q] => r = q
    /\ consumed \subseteq Stored

IInv == TypeOK /\ Untouched /\ SaidOnce /\ Claimed

\* A text reaches the thread at most once.
LEMMA Suffices == IInv => AtMostOnce
<1>1. SUFFICES ASSUME IInv, NEW i \in Items PROVE injected[i] + said[i] <= 1
  BY DEF AtMostOnce
<1>2. injected[i] \in Nat /\ said[i] = IF status[i] = "sent" THEN 1 ELSE 0
  BY <1>1 DEF IInv, TypeOK, SaidOnce
<1>3. injected[i] # 0 => injected[i] = 1 /\ status[i] # "sent"
  BY <1>1 DEF IInv, Claimed, Untouched, Plain
<1>4. QED
  BY <1>2, <1>3

LEMMA InitOK == Init => IInv
<1>1. SUFFICES ASSUME Init PROVE IInv
  OBVIOUS
<1>2. rows = <<>> /\ Stored = {}
  BY <1>1 DEF Init, Stored
<1>3. TypeOK
  <2>1. status \in [Items -> Out \cup InQueue]
    BY <1>1 DEF Init, Out
  <2>2. rows \in Seq(Items)
    BY <1>2
  <2>3. req \in [Items -> {None, "asked", "ok", "busy"}] /\ held \in [Runs -> Items \cup {None}]
    BY <1>1 DEF Init
  <2>4. QED
    BY <1>1, <2>1, <2>2, <2>3 DEF Init, TypeOK
<1>4. Untouched /\ SaidOnce
  BY <1>1, <1>2 DEF Init, Untouched, SaidOnce
<1>5. Claimed
  BY <1>1, <1>2 DEF Init, Claimed
<1>6. QED
  BY <1>3, <1>4, <1>5 DEF IInv

\* Every step keeps the types.
LEMMA TypeStep == TypeOK /\ [Next]_vars => TypeOK'
<1> SUFFICES ASSUME TypeOK, [Next]_vars PROVE TypeOK'
  OBVIOUS
<1> USE DEF TypeOK, browser, store, thread
<1>0. Out \cup InQueue = Plain \cup {"steered", "dismissed", "pending", "failed", "retrying"}
  BY DEF Out, InQueue, Plain
<1>1. ASSUME NEW i \in Items, SendMessage(i) PROVE TypeOK'
  BY <1>0, <1>1 DEF SendMessage, Plain
<1>2. ASSUME NEW i \in Items, ProcessQueue(i) PROVE TypeOK'
  BY <1>0, <1>2 DEF ProcessQueue, Plain
<1>3. ASSUME NEW i \in Items, SendFails(i) PROVE TypeOK'
  BY <1>0, <1>3 DEF SendFails, Plain
<1>4. ASSUME NEW i \in Items, SteerQueued(i) PROVE TypeOK'
  BY <1>0, <1>4 DEF SteerQueued, Submit, Plain
<1>5. ASSUME NEW st \in [Items -> Out \cup InQueue], Retry(st)
      PROVE  /\ status' \in [Items -> Out \cup InQueue]
             /\ req' \in [Items -> {None, "asked", "ok", "busy"}] /\ posts' \subseteq Items
  <2>1. CASE \A i \in Items : st[i] # "failed"
    BY <1>5, <2>1 DEF Retry
  <2>2. ASSUME NEW i \in Items, status' = [st EXCEPT ![i] = "retrying"], Submit(i)
        PROVE  /\ status' \in [Items -> Out \cup InQueue]
               /\ req' \in [Items -> {None, "asked", "ok", "busy"}] /\ posts' \subseteq Items
    BY <1>0, <2>2, ZenonT(40) DEF Submit
  <2>3. QED
    BY <1>5, <2>1, <2>2 DEF Retry
<1>6. ASSUME NEW i \in Items, Sent(i) PROVE TypeOK'
  <2>1. [status EXCEPT ![i] = "sent"] \in [Items -> Out \cup InQueue]
    BY <1>0 DEF Plain
  <2>2. /\ status' \in [Items -> Out \cup InQueue]
        /\ req' \in [Items -> {None, "asked", "ok", "busy"}] /\ posts' \subseteq Items
    BY <1>5, <1>6, <2>1 DEF Sent
  <2>3. said' \in [Items -> Nat]
    BY <1>6 DEF Sent
  <2>4. QED
    BY <1>6, <2>2, <2>3 DEF Sent
<1>7. ASSUME NEW i \in Items, Dismiss(i) PROVE TypeOK'
  <2>1. [status EXCEPT ![i] = "dismissed"] \in [Items -> Out \cup InQueue]
    BY <1>0
  <2>2. QED
    BY <1>5, <1>7, <2>1 DEF Dismiss
<1>8. ASSUME NEW i \in Items, NEW s \in {"steered", "failed"}
      PROVE  Mark(i, s) \in [Items -> Out \cup InQueue]
  BY <1>0, <1>8 DEF Mark, Plain
<1>9. ASSUME NEW i \in Items, AnswerOk(i) PROVE TypeOK'
  BY <1>8, <1>9 DEF AnswerOk
<1>10. ASSUME NEW i \in Items, AnswerBusy(i) PROVE TypeOK'
  BY <1>8, <1>10 DEF AnswerBusy
<1>11. ASSUME NEW i \in Items, RequestFails(i) PROVE TypeOK'
  BY <1>8, <1>11 DEF RequestFails
<1>12. ASSUME NEW i \in Items, SteerThread(i) PROVE TypeOK'
  <2>1. req' \in [Items -> {None, "asked", "ok", "busy"}]
    BY <1>12 DEF SteerThread, Answer
  <2>2. rows' \in Seq(Items) /\ failures' \in Nat /\ posts' \subseteq Items
    <3>1. rows' = rows \/ rows' = Append(rows, i)
      BY <1>12 DEF SteerThread, Enqueue
    <3> HIDE DEF TypeOK
    <3>2. rows' \in Seq(Items)
      <4>1. rows \in Seq(Items)
        BY DEF TypeOK
      <4>2. QED
        BY <3>1, <4>1
    <3>3. failures' \in Nat /\ posts' \subseteq Items
      BY <1>12 DEF SteerThread, TypeOK
    <3>4. QED
      BY <3>2, <3>3
  <2>3. QED
    BY <1>12, <2>1, <2>2 DEF SteerThread
<1>13. CASE LockExpires
  BY <1>13 DEF LockExpires
<1>14. CASE TimerFires
  BY <1>5, <1>14 DEF TimerFires
<1>15. ASSUME NEW r \in Runs, Claim(r) PROVE TypeOK'
  <2>1. PICK n \in DOMAIN rows : /\ held' = [held EXCEPT ![r] = rows[n]]
                                 /\ consumed' = consumed \cup {rows[n]}
    BY <1>15 DEF Claim
  <2>2. rows[n] \in Items
    BY <2>1
  <2>3. QED
    BY <1>15, <2>1, <2>2 DEF Claim
<1>16. ASSUME NEW r \in Runs, Checkpoint(r) PROVE TypeOK'
  BY <1>16 DEF Checkpoint
<1>17. ASSUME NEW r \in Runs, Kill(r) PROVE TypeOK'
  BY <1>17 DEF Kill
<1>18. CASE UNCHANGED vars
  BY <1>18 DEF vars
<1>19. CASE ClearQueue
  BY <1>0, <1>19 DEF ClearQueue, Plain
<1>20. QED
  BY <1>1, <1>2, <1>3, <1>4, <1>6, <1>7, <1>9, <1>10, <1>11, <1>12, <1>13,
     <1>14, <1>15, <1>16, <1>17, <1>18, <1>19 DEF Next, User, Network, Turn

\* The steps of the browser, which say nothing to the store or the thread.
LEMMA Quiet ==
    ASSUME IInv, TypeOK', UNCHANGED <<store, held, thread>>,
           \A i \in Items :
               /\ status'[i] = "sent" <=> status[i] = "sent"
               /\ status'[i] \in Plain =>
                     status[i] \in Plain /\ req'[i] = req[i] /\ (i \in posts' => i \in posts)
    PROVE  IInv'
  BY DEF IInv, Untouched, SaidOnce, Claimed, Stored, store, thread

\* retryFailedSteering steers only what was steered before.
LEMMA RetryFacts ==
    ASSUME TypeOK, NEW st \in [Items -> Out \cup InQueue], Retry(st), NEW i \in Items
    PROVE  /\ status'[i] = "sent" <=> st[i] = "sent"
           /\ status'[i] \in Plain =>
                 st[i] \in Plain /\ req'[i] = req[i] /\ (i \in posts' => i \in posts)
<1>1. CASE \A j \in Items : st[j] # "failed"
  BY <1>1 DEF Retry
<1>2. ASSUME NEW j \in Items, st[j] = "failed", status' = [st EXCEPT ![j] = "retrying"],
             Submit(j)
      PROVE  /\ status'[i] = "sent" <=> st[i] = "sent"
             /\ status'[i] \in Plain =>
                   st[i] \in Plain /\ req'[i] = req[i] /\ (i \in posts' => i \in posts)
  <2>1. CASE i = j
    BY <1>2, <2>1 DEF Plain
  <2>2. CASE i # j
    BY <1>2, <2>2 DEF Submit, TypeOK
  <2>3. QED
    BY <2>1, <2>2
<1>3. QED
  BY <1>1, <1>2 DEF Retry

\* A message said for the first time: the item is not in the store.
LEMMA SentStep ==
    ASSUME IInv, TypeOK', NEW i \in Items, Sent(i)
    PROVE  IInv'
<1> DEFINE st == [status EXCEPT ![i] = "sent"]
<1>1. st \in [Items -> Out \cup InQueue]
  BY DEF IInv, TypeOK, Out
<1>2. /\ status[i] = "sending" /\ said' = [said EXCEPT ![i] = @ + 1] /\ Retry(st)
      /\ UNCHANGED <<rows, consumed, held, injected>>
  BY DEF Sent, store
<1>3. \A j \in Items : /\ status'[j] = "sent" <=> st[j] = "sent"
                       /\ status'[j] \in Plain =>
                             /\ status[j] \in Plain /\ req'[j] = req[j]
                             /\ j \in posts' => j \in posts
  <2>1. \A j \in Items : st[j] \in Plain => status[j] \in Plain
    BY <1>2 DEF IInv, TypeOK, Plain
  <2>2. QED
    BY <1>1, <1>2, <2>1, RetryFacts DEF IInv
<1>4. Untouched'
  BY <1>2, <1>3 DEF IInv, Untouched, Stored
<1>5. SaidOnce'
  <2>1. ASSUME NEW j \in Items PROVE said'[j] = IF status'[j] = "sent" THEN 1 ELSE 0
    <3>1. CASE j = i
      <4>1. status'[i] = "sent"
        BY <1>3 DEF IInv, TypeOK
      <4>2. said[i] = 0 /\ said'[i] = said[i] + 1
        BY <1>2 DEF IInv, TypeOK, SaidOnce
      <4>3. QED
        BY <3>1, <4>1, <4>2
    <3>2. CASE j # i
      BY <1>2, <1>3, <3>2 DEF IInv, TypeOK, SaidOnce
    <3>3. QED
      BY <3>1, <3>2
  <2>2. QED
    BY <2>1 DEF SaidOnce
<1>6. Claimed'
  BY <1>2 DEF IInv, Claimed, Stored
<1>7. QED
  BY <1>4, <1>5, <1>6 DEF IInv

\* Every step keeps the invariant.
LEMMA Step == IInv /\ [Next]_vars => IInv'
<1>1. SUFFICES ASSUME IInv, [Next]_vars, TypeOK' PROVE IInv'
  BY TypeStep DEF IInv
<1> USE <1>1
<1>2. ASSUME NEW i \in Items, SendMessage(i) \/ ProcessQueue(i) \/ SendFails(i) PROVE IInv'
  BY <1>2, Quiet DEF SendMessage, ProcessQueue, SendFails, Plain, IInv, TypeOK
<1>3. ASSUME NEW i \in Items, Sent(i) PROVE IInv'
  BY <1>3, SentStep
<1>4. ASSUME NEW i \in Items, Dismiss(i) PROVE IInv'
  <2> DEFINE st == [status EXCEPT ![i] = "dismissed"]
  <2>1. st \in [Items -> Out \cup InQueue] /\ Retry(st)
    BY <1>4 DEF Dismiss, IInv, TypeOK, Out
  <2>2. \A j \in Items : /\ st[j] = "sent" <=> status[j] = "sent"
                         /\ st[j] \in Plain => status[j] \in Plain
    BY <1>4 DEF Dismiss, InQueue, Plain, IInv, TypeOK
  <2>3. \A j \in Items :
            /\ status'[j] = "sent" <=> status[j] = "sent"
            /\ status'[j] \in Plain =>
                  status[j] \in Plain /\ req'[j] = req[j] /\ (j \in posts' => j \in posts)
    BY <2>1, <2>2, RetryFacts DEF IInv
  <2>4. QED
    BY <1>4, <2>3, Quiet DEF Dismiss
<1>5. ASSUME NEW i \in Items, SteerQueued(i) PROVE IInv'
  BY <1>5, Quiet DEF SteerQueued, Submit, Plain, IInv, TypeOK
<1>6. ASSUME NEW i \in Items, AnswerOk(i) \/ AnswerBusy(i) \/ RequestFails(i) PROVE IInv'
  <2>1. /\ status' = Mark(i, "steered") \/ status' = Mark(i, "failed")
        /\ req[i] # None /\ req' = [req EXCEPT ![i] = None] /\ posts' \subseteq posts
        /\ UNCHANGED <<store, held, thread>>
    BY <1>6 DEF AnswerOk, AnswerBusy, RequestFails, None
  <2>2. status[i] \notin Plain
    BY <2>1 DEF IInv, Untouched
  <2>3. \A j \in Items :
            /\ status'[j] = "sent" <=> status[j] = "sent"
            /\ status'[j] \in Plain =>
                  status[j] \in Plain /\ req'[j] = req[j] /\ (j \in posts' => j \in posts)
    BY <2>1, <2>2, SMTT(30) DEF Mark, Plain, IInv, TypeOK
  <2>4. QED
    BY <2>1, <2>3, Quiet
<1>7. ASSUME NEW i \in Items, SteerThread(i) PROVE IInv'
  <2>1. /\ i \in posts /\ posts' = posts \ {i}
        /\ UNCHANGED <<status, consumed, held, injected, said>>
        /\ rows' = rows \/ rows' = Append(rows, i)
        /\ req' = req \/ \E a \in {"ok", "busy"} : req' = [req EXCEPT ![i] = a]
    BY <1>7 DEF SteerThread, Answer, Enqueue, thread
  <2>2. Stored' = Stored \/ Stored' = Stored \cup {i}
    <3>1. CASE rows' = Append(rows, i)
      <4>1. rows \in Seq(Items)
        BY DEF IInv, TypeOK
      <4>2. QED
        BY <3>1, <4>1 DEF Stored
    <3>2. QED
      BY <2>1, <3>1 DEF Stored
  <2>3. status[i] \notin Plain
    BY <2>1 DEF IInv, Untouched
  <2>4. Untouched'
    BY <2>1, <2>2, <2>3 DEF IInv, Untouched, TypeOK
  <2>5. SaidOnce' /\ Claimed'
    BY <2>1, <2>2 DEF IInv, SaidOnce, Claimed
  <2>6. QED
    BY <2>4, <2>5 DEF IInv
<1>8. CASE LockExpires
  BY <1>8, Quiet DEF LockExpires
<1>9. CASE TimerFires
  BY <1>9, RetryFacts, Quiet DEF TimerFires, IInv, TypeOK
<1>10. ASSUME NEW r \in Runs, Claim(r) PROVE IInv'
  <2>1. PICK n \in DOMAIN rows : /\ rows[n] \notin consumed /\ held[r] = None
                                 /\ held' = [held EXCEPT ![r] = rows[n]]
                                 /\ consumed' = consumed \cup {rows[n]}
    BY <1>10 DEF Claim, Oldest
  <2>2. rows[n] \in Items /\ rows[n] \in Stored
    BY DEF IInv, TypeOK, Stored
  <2>3. UNCHANGED <<status, req, posts, rows, injected, said, Stored>>
    BY <1>10 DEF Claim, browser, thread, Stored
  <2>4. injected[rows[n]] = 0
    BY <2>1, <2>2 DEF IInv, Claimed
  <2>5. Untouched' /\ SaidOnce'
    BY <2>1, <2>2, <2>3 DEF IInv, Untouched, SaidOnce
  <2>6. Claimed'
    BY <2>1, <2>2, <2>3, <2>4 DEF IInv, Claimed, TypeOK
  <2>7. QED
    BY <2>5, <2>6 DEF IInv
<1>11. ASSUME NEW r \in Runs, Checkpoint(r) PROVE IInv'
  <2>1. /\ held[r] # None /\ injected' = [injected EXCEPT ![held[r]] = @ + 1]
        /\ held' = [held EXCEPT ![r] = None]
        /\ UNCHANGED <<status, req, posts, rows, consumed, said, Stored>>
    BY <1>11 DEF Checkpoint, browser, store, Stored
  <2>2. held[r] \in Items /\ held[r] \in consumed /\ injected[held[r]] = 0
    BY <2>1 DEF IInv, TypeOK, Claimed
  <2>3. injected'[held[r]] = 1 /\ \A i \in Items : i # held[r] => injected'[i] = injected[i]
    BY <2>1, <2>2 DEF IInv, TypeOK
  <2>4. Claimed'
    BY <2>1, <2>2, <2>3 DEF IInv, Claimed, TypeOK
  <2>5. Untouched' /\ SaidOnce'
    BY <2>1 DEF IInv, Untouched, SaidOnce
  <2>6. QED
    BY <2>4, <2>5 DEF IInv
<1>12. ASSUME NEW r \in Runs, Kill(r) PROVE IInv'
  <2>1. /\ held' = [held EXCEPT ![r] = None]
        /\ UNCHANGED <<status, req, posts, rows, consumed, injected, said, Stored>>
    BY <1>12 DEF Kill, browser, store, thread, Stored
  <2>2. Untouched' /\ SaidOnce' /\ Claimed'
    BY <2>1 DEF IInv, Untouched, SaidOnce, Claimed, TypeOK
  <2>3. QED
    BY <2>2 DEF IInv
<1>13. CASE UNCHANGED vars
  BY <1>13 DEF vars, browser, store, thread, IInv, Untouched, SaidOnce, Claimed, Stored
<1>14. CASE ClearQueue
  BY <1>14, Quiet DEF ClearQueue, InQueue, Plain
<1>15. QED
  BY <1>1, <1>2, <1>3, <1>4, <1>5, <1>6, <1>7, <1>8, <1>9, <1>10, <1>11, <1>12, <1>13, <1>14
     DEF Next, User, Network, Turn

\* Whatever is retried, answered late, claimed by two runs or cut off by a
\* crash, the variables keep their types and a text reaches the thread at most
\* once, as a reminder or as a message.
THEOREM AtMostOnceAlways == Spec => [](TypeOK /\ AtMostOnce)
<1>1. Spec => []IInv
  BY InitOK, Step, PTL DEF Spec
<1>2. IInv => TypeOK /\ AtMostOnce
  BY Suffices DEF IInv
<1>3. QED
  BY <1>1, <1>2, PTL

----------------------------------------------------------------------------
(* What the user is told.                                                    *)

\* A request answered with success, or an item shown as steered, is in the table; the
\* table only grows.
Shown == \A i \in Items : req[i] = "ok" \/ status[i] = "steered" => i \in Stored

\* What is appended to a sequence is one of its elements.
LEMMA AppendedIsThere ==
    ASSUME NEW S, NEW q \in Seq(S), NEW e \in S
    PROVE  e \in {Append(q, e)[n] : n \in DOMAIN Append(q, e)}
<1>1. Len(q) + 1 \in DOMAIN Append(q, e) /\ Append(q, e)[Len(q) + 1] = e
  BY LenProperties, AppendProperties
<1>2. QED
  BY <1>1

LEMMA StoredGrows == TypeOK /\ [Next]_vars => Stored \subseteq Stored'
<1> SUFFICES ASSUME TypeOK, [Next]_vars PROVE Stored \subseteq Stored'
  OBVIOUS
<1>1. rows' = rows \/ \E i \in Items : rows' = Append(rows, i)
  BY DEF Next, User, Network, Turn, vars, browser, store, SendMessage, ProcessQueue, Sent,
     SendFails, Dismiss, ClearQueue, SteerQueued, AnswerOk, AnswerBusy, RequestFails,
     LockExpires, TimerFires, SteerThread, Enqueue, Claim, Checkpoint, Kill
<1>2. rows \in Seq(Items)
  BY DEF TypeOK
<1>3. QED
  BY <1>1, <1>2 DEF Stored

\* Statuses and requests move to "steered" and "ok" where they should.
LEMMA ShownStep == TypeOK /\ Shown /\ [Next]_vars => Shown'
<1> SUFFICES ASSUME TypeOK, Shown, [Next]_vars, NEW j \in Items,
                    req'[j] = "ok" \/ status'[j] = "steered"
             PROVE  j \in Stored'
  BY DEF Shown
<1>0. Stored \subseteq Stored' /\ (req[j] = "ok" \/ status[j] = "steered" => j \in Stored)
  BY StoredGrows DEF Shown
<1>1. CASE req[j] = "ok" \/ status[j] = "steered"
  BY <1>0, <1>1
<1>2. CASE req[j] # "ok" /\ status[j] # "steered"
  <2>1. ASSUME NEW st \in [Items -> Out \cup InQueue], st[j] # "steered", Retry(st) PROVE FALSE
    <3>1. \A i \in Items : Submit(i) => req'[j] # "ok"
      BY <1>2 DEF Submit, TypeOK
    <3>2. QED
      BY <1>2, <2>1, <3>1 DEF Retry
  <2>2. ASSUME NEW i \in Items, User(i) \/ ProcessQueue(i) \/ Sent(i) \/ SendFails(i) PROVE FALSE
    <3>1. CASE Sent(i)
      <4>1. [status EXCEPT ![i] = "sent"] \in [Items -> Out \cup InQueue]
        BY DEF TypeOK, Out
      <4>2. QED
        BY <1>2, <2>1, <3>1, <4>1 DEF Sent, TypeOK
    <3>2. CASE Dismiss(i)
      <4>1. [status EXCEPT ![i] = "dismissed"] \in [Items -> Out \cup InQueue]
        BY DEF TypeOK, Out
      <4>2. QED
        BY <1>2, <2>1, <3>2, <4>1 DEF Dismiss, TypeOK
    <3>3. QED
      BY <1>2, <2>2, <3>1, <3>2
         DEF User, SendMessage, SteerQueued, Submit, ProcessQueue, SendFails, TypeOK
  <2>3. ASSUME NEW i \in Items, AnswerBusy(i) \/ RequestFails(i) PROVE FALSE
    BY <1>2, <2>3 DEF AnswerBusy, RequestFails, Mark, TypeOK, None
  <2>4. ASSUME NEW i \in Items, AnswerOk(i) PROVE j \in Stored'
    <3>1. i \in Stored /\ status'[j] # "steered" => FALSE
      BY <1>2, <2>4 DEF AnswerOk, TypeOK, None
    <3>2. i = j
      BY <1>2, <2>4, <3>1 DEF AnswerOk, Mark, TypeOK, None, Shown
    <3>3. QED
      BY <1>0, <2>4, <3>2 DEF AnswerOk
  <2>5. ASSUME NEW i \in Items, SteerThread(i) PROVE j \in Stored'
    <3>1. i = j /\ Enqueue(i)
      BY <1>2, <2>5 DEF SteerThread, Answer, TypeOK
    <3>2. CASE rows' = Append(rows, i)
      <4>1. i \in {Append(rows, i)[n] : n \in DOMAIN Append(rows, i)}
        BY AppendedIsThere DEF TypeOK
      <4>2. QED
        BY <3>1, <3>2, <4>1 DEF Stored
    <3>3. QED
      BY <1>0, <3>1, <3>2 DEF Enqueue
  <2>6. ClearQueue \/ LockExpires \/ TimerFires => FALSE
    BY <1>2, <2>1 DEF ClearQueue, LockExpires, TimerFires, TypeOK
  <2>7. (\E r \in Runs : Turn(r) \/ Kill(r)) \/ UNCHANGED vars => FALSE
    BY <1>2 DEF Turn, Claim, Checkpoint, Kill, vars, browser
  <2>8. QED
    BY <2>2, <2>3, <2>4, <2>5, <2>6, <2>7 DEF Next, Network
<1>3. QED
  BY <1>1, <1>2

LEMMA Invariant == Spec => [](IInv /\ Shown)
<1>1. Init => Shown
  BY DEF Init, Shown, None
<1>2. IInv /\ Shown /\ [Next]_vars => IInv' /\ Shown'
  BY Step, ShownStep DEF IInv
<1>3. QED
  BY InitOK, <1>1, <1>2, PTL DEF Spec

\* An item that the browser shows as steered is in the durable table, whatever answers
\* come late, and whatever retries and failures came before.
THEOREM SteeredIsKept == Spec => []SteeredIsStored
<1>1. Shown => SteeredIsStored
  BY DEF Shown, SteeredIsStored
<1>2. QED
  BY Invariant, <1>1, PTL

----------------------------------------------------------------------------
(* The store and the turns implement the queue's promise.                    *)

\* Nothing that the promise speaks of moves.
LEMMA Stutters ==
  ASSUME UNCHANGED <<rows, consumed, held, injected>>
  PROVE  UNCHANGED Intents!vars
BY DEF Intents!vars, Stored, Lost

LEMMA Implements == IInv /\ [Next]_vars => [Intents!Next]_(Intents!vars)
<1> SUFFICES ASSUME IInv, [Next]_vars PROVE [Intents!Next]_(Intents!vars)
  OBVIOUS
<1>0. /\ rows \in Seq(Items) /\ consumed \subseteq Items /\ consumed \subseteq Stored
      /\ held \in [Runs -> Items \cup {None}] /\ injected \in [Items -> Nat]
  BY DEF IInv, TypeOK, Claimed
<1>1. CASE UNCHANGED <<rows, consumed, held, injected>>
  BY <1>1, Stutters
<1>2. ASSUME NEW i \in Items, SteerThread(i) PROVE [Intents!Next]_(Intents!vars)
  <2>1. UNCHANGED <<consumed, held, injected>>
    BY <1>2 DEF SteerThread, thread
  <2>2. CASE rows' = rows
    BY <1>1, <2>1, <2>2
  <2>3. CASE i \notin Stored /\ rows' = Append(rows, i)
    <3>1. Stored' = Stored \cup {i}
      <4>1. rows \in Seq(Items) /\ rows' = Append(rows, i)
        BY <1>0, <2>3
      <4>2. QED
        BY <4>1 DEF Stored
    <3>2. \A n \in DOMAIN rows : rows[n] # i
      BY <2>3 DEF Stored
    <3>3. (Stored \ consumed)' = (Stored \ consumed) \cup {i} /\ Lost' = Lost
      BY <1>0, <2>1, <2>3, <3>1 DEF Lost
    <3>4. Intents!Accept(i)
      BY <2>1, <2>3, <3>2, <3>3 DEF Intents!Accept
    <3>5. QED
      BY <3>4 DEF Intents!Next
  <2>4. QED
    BY <1>2, <2>2, <2>3 DEF SteerThread, Enqueue
<1>3. ASSUME NEW r \in Runs, Claim(r) PROVE [Intents!Next]_(Intents!vars)
  <2>1. PICK n \in DOMAIN rows : /\ Oldest(n)
                                 /\ held' = [held EXCEPT ![r] = rows[n]]
                                 /\ consumed' = consumed \cup {rows[n]}
    BY <1>3 DEF Claim
  <2> DEFINE x == rows[n]
  <2>2. /\ x \in Items /\ x \in Stored /\ x \notin consumed /\ x # None /\ held[r] = None
        /\ UNCHANGED <<rows, injected, Stored>>
    BY <1>0, <1>3, <2>1, SteeringAssumption DEF Claim, Oldest, Stored, thread
  <2>3. \A m \in 1..(n - 1) : rows[m] \notin Stored \ consumed
    BY <2>1 DEF Oldest
  <2> HIDE DEF x
  <2>4. held' = [held EXCEPT ![r] = x] /\ consumed' = consumed \cup {x}
    BY <2>1 DEF x
  <2>5. (Stored \ consumed)' = (Stored \ consumed) \ {x}
    BY <2>2, <2>4
  <2>6. ({held[q] : q \in Runs} \ {None})' = ({held[q] : q \in Runs} \ {None}) \cup {x}
    BY <1>0, <2>2, <2>4
  <2>7. injected[x] = 0
    BY <2>2 DEF IInv, Claimed
  <2>8. Lost' = Lost
    <3>1. \A q \in Runs : held'[q] = IF q = r THEN x ELSE held[q]
      BY <1>0, <2>4
    <3>2. \A i \in consumed : i # None
      BY <1>0, SteeringAssumption
    <3>3. x \notin Lost' /\ x \notin Lost
      BY <2>2, <3>1 DEF Lost
    <3>4. \A i : i # x => (i \in Lost' <=> i \in Lost)
      BY <2>2, <2>4, <3>1, <3>2 DEF Lost
    <3>5. QED
      BY <3>3, <3>4
  <2>9. Intents!Take
    BY <2>2, <2>3, <2>5, <2>6, <2>8 DEF Intents!Take, x
  <2>10. QED
    BY <2>9 DEF Intents!Next
<1>4. ASSUME NEW r \in Runs, held[r] # None, held' = [held EXCEPT ![r] = None],
             UNCHANGED <<rows, consumed>>,
             \/ injected' = [injected EXCEPT ![held[r]] = @ + 1]
             \/ injected' = injected
      PROVE  [Intents!Next]_(Intents!vars)
  <2>0. PICK x \in Items : x = held[r]
    BY <1>0, <1>4
  <2>1. /\ x \in Items /\ x # None /\ x \in consumed /\ injected[x] = 0 /\ UNCHANGED Stored
        /\ \A q \in Runs : held[q] = x => q = r
    BY <1>0, <1>4, <2>0 DEF IInv, Claimed, Stored
  <2>2. \A q \in Runs : held'[q] = IF q = r THEN None ELSE held[q]
    BY <1>0, <1>4
  <2>3. x \in {held[q] : q \in Runs} \ {None}
    BY <2>0, <2>1
  <2>4. ({held[q] : q \in Runs} \ {None})' = ({held[q] : q \in Runs} \ {None}) \ {x}
    BY <2>0, <2>1, <2>2
  <2>5. x \notin Lost
    BY <2>0 DEF Lost
  <2>6. \A i \in consumed : i # None
    BY <1>0, SteeringAssumption
  <2>7. CASE injected' = [injected EXCEPT ![held[r]] = @ + 1]
    <3>1. injected'[x] = 1 /\ \A i \in Items : i # x => injected'[i] = injected[i]
      BY <2>0, <1>0, <2>1, <2>7
    <3>2. Lost' = Lost
      <4>1. x \notin Lost'
        BY <3>1 DEF Lost
      <4>2. \A i : i # x => (i \in Lost' <=> i \in Lost)
        BY <2>0, <1>0, <1>4, <2>2, <2>6, <3>1 DEF Lost
      <4>3. QED
        BY <2>5, <4>1, <4>2
    <3>3. {i \in Items : injected[i] > 0}' = {i \in Items : injected[i] > 0} \cup {x}
      BY <2>1, <3>1
    <3>4. Intents!Inject(x)
      BY <1>4, <2>1, <2>3, <2>4, <3>2, <3>3 DEF Intents!Inject
    <3>5. QED
      BY <2>1, <3>4 DEF Intents!Next
  <2>8. CASE injected' = injected
    <3>1. Lost' = Lost \cup {x}
      <4>1. x \in Lost'
        BY <2>0, <1>4, <2>1, <2>2, <2>6, <2>8 DEF Lost
      <4>2. \A i : i # x => (i \in Lost' <=> i \in Lost)
        BY <2>0, <1>4, <2>2, <2>6, <2>8 DEF Lost
      <4>3. QED
        BY <4>1, <4>2
    <3>2. Intents!Lose(x)
      BY <1>4, <2>1, <2>3, <2>4, <2>8, <3>1 DEF Intents!Lose
    <3>3. QED
      BY <2>1, <3>2 DEF Intents!Next
  <2>9. QED
    BY <1>4, <2>7, <2>8
<1>5. ASSUME NEW r \in Runs, Checkpoint(r) \/ Kill(r) PROVE [Intents!Next]_(Intents!vars)
  BY <1>4, <1>5 DEF Checkpoint, Kill, store, thread
<1>6. QED
  <2>1. ASSUME NEW i \in Items,
               \/ User(i) \/ ProcessQueue(i) \/ Sent(i) \/ SendFails(i)
               \/ AnswerOk(i) \/ AnswerBusy(i) \/ RequestFails(i)
        PROVE  UNCHANGED <<rows, consumed, held, injected>>
    BY <2>1 DEF User, SendMessage, SteerQueued, Dismiss, ProcessQueue, Sent, SendFails,
       AnswerOk, AnswerBusy, RequestFails, store, thread
  <2>2. ClearQueue \/ LockExpires \/ TimerFires \/ UNCHANGED vars
          => UNCHANGED <<rows, consumed, held, injected>>
    BY DEF ClearQueue, LockExpires, TimerFires, vars, store, thread
  <2>3. QED
    BY <1>1, <1>2, <1>3, <1>5, <2>1, <2>2 DEF Next, Network, Turn

\* The table, the transaction of a claim and the turns implement the promise: each
\* accepted intent is taken once, oldest first, is injected at most once, and is lost
\* only with the run that had it in hand.
THEOREM PromiseIsKept == Spec => KeepsPromise
<1>1. Init => Intents!Init
  <2> SUFFICES ASSUME Init PROVE Intents!Init
    OBVIOUS
  <2>1. rows = <<>> /\ Stored = {} /\ Lost = {} /\ Stored \ consumed = {}
    BY DEF Init, Stored, Lost
  <2>2. {held[r] : r \in Runs} \ {None} = {} /\ {i \in Items : injected[i] > 0} = {}
    BY DEF Init
  <2>3. QED
    BY <2>1, <2>2 DEF Intents!Init
<1>2. QED
  BY Invariant, <1>1, Implements, PTL DEF Spec, KeepsPromise, Intents!Spec

-----------------------------------------------------------------------------
(* The memory of a user.                                                     *)
Unsaved == {"save", "replace"}
Saved == {"load", "stat", "index"}
FactsOf(o) == Content(o) \cap Facts
StoredFacts == file.items \cap Facts
Exclusive ==
  /\ \A w \in Updaters : op[w].pc # "idle" => worker[w].pc = "update"
  /\ \A w \in Updaters : worker[w].pc = "update" => holder["global"] = w
  /\ \A w \in Updaters : worker[w].pc \notin {"none", "over"} => worker[w].todo # <<>>
  /\ ~processing => worker[Batch].pc = "none"
Colliding == \E o, x \in Ops : o # x /\ op[o].pc \in Unsaved /\ op[x].pc \in Unsaved
Edited(o) ==
  /\ Content(o) = (file.items \ op[o].minus) \cup op[o].plus
  /\ CASE op[o].kind = "rule"   -> op[o].minus = {} /\ op[o].plus \subseteq Rules
       [] op[o].kind \in {"delete", "forget", "redact"} -> op[o].plus = {}
       [] op[o].kind = "upsert" -> op[o].minus = {}
       [] op[o].kind = "clear"  -> op[o].minus = Entries /\ op[o].plus = {}
       [] op[o].kind = "update" -> op[o].before = StoredFacts
       [] OTHER -> FALSE
  /\ op[o].pc = "replace" => temp = [full |-> TRUE, items |-> Content(o)]
Asks(w) == /\ op[w].kind = "update" /\ op[w].before = StoredFacts
           /\ op["rule"].pc \notin Unsaved => Content(w) = file.items
Indexes(o) ==
  /\ FactsOf(o) = StoredFacts
  /\ CASE op[o].kind = "delete" -> index \ op[o].minus = StoredFacts
       [] op[o].kind = "upsert" -> index \cup op[o].plus = StoredFacts
       [] op[o].kind = "clear" -> StoredFacts = {}
       [] op[o].kind = "update" -> index \subseteq op[o].before \cup StoredFacts
       [] op[o].kind \in {"forget", "redact"} -> index \ op[o].minus \subseteq StoredFacts
       [] OTHER -> FALSE
Followed(o) == op[o].pc \in Saved /\ op[o].kind \notin {"rule", "reload"}
Behind(o) == op[o].pc \in Saved /\ op[o].kind # "reload"
Clean ==
  /\ \A p \in Processes : cache[p].time <= file.time
  /\ \A p \in Processes : cache[p].time = file.time =>
       \/ cache[p].items = file.items
       \/ \E o \in Ops : ProcessOf(o) = p /\ op[o].pc \in Unsaved /\ op[o].shared
  /\ \A o \in Ops : op[o].pc \in Unsaved => Edited(o)
  /\ \A o \in Ops : op[o].pc = "model" => Asks(o)
  /\ \A o \in Ops : op[o].pc = "stat" => op[o].loaded = file.items
  /\ \A o \in Ops : op[o].pc = "index" => op[o].kind \notin {"rule", "reload"}
  /\ \A o \in Ops : Followed(o) => Indexes(o)
  /\ \A o, x \in Ops : Behind(o) /\ Behind(x) => o = x
  /\ (\A o \in Ops : ~Followed(o)) => index = StoredFacts

OpType == [pc: {"idle", "model", "save", "replace", "load", "stat", "index"},
           kind : Kinds \cup {"none"}, dict : SUBSET Entries, shared : BOOLEAN,
           before : SUBSET Entries, loaded : SUBSET Entries,
           minus : SUBSET Entries, plus : SUBSET Entries, ok : BOOLEAN]
CopyType == [items : SUBSET Entries, time : Nat]

\* The rule is what adds rules; only one updater is at work.
RoleOK(o) == op[o].pc # "idle" => /\ o = "rule" => op[o].kind = "rule"
                                  /\ o = "gateway" => op[o].kind \notin {"rule", "update"}
                                  /\ o \in Updaters => op[o].kind = "update"
                                  /\ op[o].kind = "upsert" => op[o].plus \subseteq Facts
Roles == \A o \in Ops : RoleOK(o)

LEMMA Places ==
  /\ \A o \in Ops : ProcessOf(o) \in Processes
  /\ ProcessOf("gateway") = "gateway" /\ ProcessOf("rule") = "langgraph"
  /\ \A w \in Updaters : ProcessOf(w) = "langgraph" /\ w \in Ops /\ w # "gateway" /\ w # "rule"
  /\ "gateway" \in Ops /\ "rule" \in Ops
  /\ \A o \in Ops : ProcessOf(o) = "gateway" <=> o = "gateway"
  /\ \A o \in Ops : o \in Updaters \/ o = "rule" \/ o = "gateway"
  BY MemoryBounds DEF ProcessOf, Processes, Ops

LEMMA TypesAre ==
  ASSUME ScopeTypeOK
  PROVE  /\ file \in CopyType /\ temp \in [full : BOOLEAN, items : SUBSET Entries]
         /\ index \subseteq Facts /\ cache \in [Processes -> CopyType]
         /\ op \in [Ops -> OpType] /\ crossed \in BOOLEAN
  BY DEF ScopeTypeOK, CopyType, OpType

LEMMA ContentTyped ==
  ASSUME ScopeTypeOK, NEW o \in Ops
  PROVE  Content(o) \in SUBSET Entries
<1>1. cache[ProcessOf(o)] \in CopyType /\ op[o] \in OpType
  BY TypesAre, Places
<1>2. QED
  BY <1>1 DEF Content, CopyType, OpType

LEMMA CachedTyped ==
  ASSUME ScopeTypeOK, NEW p \in Processes
  PROVE  Cached(p) \in CopyType
  BY TypesAre DEF Cached

\* Who is detached keeps what it held.
LEMMA DetachedKeep ==
  ASSUME ScopeTypeOK, NEW p \in Processes, NEW h, h = Detached(p)
  PROVE  /\ h \in [Ops -> OpType]
         /\ \A x \in Ops : /\ h[x].pc = op[x].pc /\ h[x].kind = op[x].kind
                           /\ h[x].before = op[x].before /\ h[x].loaded = op[x].loaded
                           /\ h[x].minus = op[x].minus /\ h[x].plus = op[x].plus
                           /\ h[x].ok = op[x].ok
                           /\ h[x].shared => op[x].shared /\ ProcessOf(x) # p
                           /\ ~h[x].shared => h[x].dict = Content(x)
                           /\ ProcessOf(x) # p => h[x] = op[x]
<1>1. \A x \in Ops : op[x] \in OpType /\ cache[p] \in CopyType
  BY TypesAre
<1>2. h = [x \in Ops |-> IF op[x].shared /\ ProcessOf(x) = p
                         THEN [op[x] EXCEPT !.shared = FALSE, !.dict = cache[p].items]
                         ELSE op[x]]
  BY DEF Detached
<1>3. ASSUME NEW x \in Ops
      PROVE  /\ h[x] \in OpType
             /\ h[x].pc = op[x].pc /\ h[x].kind = op[x].kind
             /\ h[x].before = op[x].before /\ h[x].loaded = op[x].loaded
             /\ h[x].minus = op[x].minus /\ h[x].plus = op[x].plus /\ h[x].ok = op[x].ok
             /\ h[x].shared => op[x].shared /\ ProcessOf(x) # p
             /\ ~h[x].shared => h[x].dict = Content(x)
             /\ ProcessOf(x) # p => h[x] = op[x]
  <2>1. CASE op[x].shared /\ ProcessOf(x) = p
    <3>1. h[x] = [op[x] EXCEPT !.shared = FALSE, !.dict = cache[p].items]
      BY <1>2, <2>1
    <3>2. op[x] \in OpType /\ cache[p].items \in SUBSET Entries
      BY <1>1 DEF CopyType
    <3>3. h[x] \in OpType
      BY <3>1, <3>2 DEF OpType
    <3>4. h[x].shared = FALSE /\ h[x].dict = cache[p].items
      BY <3>1, <3>2 DEF OpType
    <3>5. /\ h[x].pc = op[x].pc /\ h[x].kind = op[x].kind
          /\ h[x].before = op[x].before /\ h[x].loaded = op[x].loaded
          /\ h[x].minus = op[x].minus /\ h[x].plus = op[x].plus /\ h[x].ok = op[x].ok
      BY <3>1, <3>2 DEF OpType
    <3>6. QED
      BY <2>1, <3>3, <3>4, <3>5 DEF Content
  <2>2. CASE ~(op[x].shared /\ ProcessOf(x) = p)
    <3>1. h[x] = op[x]
      BY <1>2, <2>2
    <3>2. QED
      BY <1>1, <2>2, <3>1 DEF OpType, Content
  <2>3. QED
    BY <2>1, <2>2
<1>4. QED
  BY <1>2, <1>3

LEMMA HoldersKeep ==
  ASSUME ScopeTypeOK, NEW p \in Processes, NEW h, h = Holders(p)
  PROVE  /\ h \in [Ops -> OpType]
         /\ \A x \in Ops : /\ h[x].pc = op[x].pc /\ h[x].kind = op[x].kind
                           /\ h[x].before = op[x].before /\ h[x].loaded = op[x].loaded
                           /\ h[x].minus = op[x].minus /\ h[x].plus = op[x].plus
                           /\ h[x].ok = op[x].ok
                           /\ h[x].shared => /\ op[x].shared
                                             /\ ProcessOf(x) = p => cache[p].time = file.time
                           /\ ~h[x].shared => h[x].dict = Content(x)
                           /\ (ProcessOf(x) # p \/ cache[p].time = file.time) => h[x] = op[x]
<1>1. CASE cache[p].time = file.time
  <2>1. h = op
    BY <1>1 DEF Holders
  <2>2. QED
    BY <1>1, <2>1, TypesAre DEF Content
<1>2. CASE cache[p].time # file.time
  <2>1. h = Detached(p)
    BY <1>2 DEF Holders
  <2>2. QED
    BY <1>2, <2>1, DetachedKeep
<1>3. QED
  BY <1>1, <1>2

\* What a step leaves of an operation that is not its own.
Frame(x) == /\ op'[x].pc = op[x].pc /\ op'[x].kind = op[x].kind
            /\ op'[x].before = op[x].before /\ op'[x].loaded = op[x].loaded
            /\ op'[x].minus = op[x].minus /\ op'[x].plus = op[x].plus
            /\ op'[x].shared => op[x].shared
FilesSame == UNCHANGED <<file, temp, index, crossed>>

LEMMA TypesGive ==
  ASSUME file' \in CopyType, temp' \in [full : BOOLEAN, items : SUBSET Entries],
         index' \subseteq Facts, cache' \in [Processes -> CopyType],
         op' \in [Ops -> OpType], crossed' \in BOOLEAN
  PROVE  ScopeTypeOK'
  BY DEF ScopeTypeOK, CopyType, OpType

EditEffect(o, kind, minus, plus) ==
  /\ ScopeTypeOK' /\ FilesSame
  /\ op'[o].pc = "save" /\ op'[o].kind = kind /\ op'[o].shared
  /\ op'[o].minus = minus /\ op'[o].plus = plus
  /\ cache'[ProcessOf(o)].items = (Cached(ProcessOf(o)).items \ minus) \cup plus
  /\ cache'[ProcessOf(o)].time = file.time
  /\ \A p \in Processes \ {ProcessOf(o)} : cache'[p] = cache[p]
  /\ \A x \in Ops \ {o} : Frame(x)
  /\ \A x \in Ops \ {o} :
       \/ Content(x)' = Content(x)
       \/ /\ ProcessOf(x) = ProcessOf(o)
          /\ Content(x)' = (Content(x) \ minus) \cup plus

LEMMA EditDoes ==
  ASSUME ScopeTypeOK, NEW o \in Ops, NEW kind \in Kinds, NEW minus \in SUBSET Entries,
         NEW plus \in SUBSET Entries, Edit(o, kind, minus, plus)
  PROVE  EditEffect(o, kind, minus, plus)
<1>1. PICK p : p = ProcessOf(o)
  OBVIOUS
<1>2. PICK h : h = Holders(p)
  OBVIOUS
<1>3. PICK c : c = Cached(p)
  OBVIOUS
<1>4. PICK r : r = [Idle EXCEPT !.pc = "save", !.kind = kind, !.shared = TRUE,
                                !.minus = minus, !.plus = plus]
  OBVIOUS
<1>5. PICK d : d = [c EXCEPT !.items = (c.items \ minus) \cup plus]
  OBVIOUS
<1>6. p \in Processes /\ c \in CopyType /\ c.time = file.time
  BY <1>1, <1>3, Places, CachedTyped DEF Cached
<1>7. /\ cache' = [cache EXCEPT ![p] = d] /\ op' = [h EXCEPT ![o] = r]
      /\ FilesSame
  BY <1>1, <1>2, <1>3, <1>4, <1>5 DEF Edit, FilesSame
<1>8. /\ d \in CopyType /\ d.items = (c.items \ minus) \cup plus /\ d.time = file.time
  BY <1>5, <1>6 DEF CopyType
<1>9. /\ r \in OpType /\ r.pc = "save" /\ r.kind = kind /\ r.shared /\ r.minus = minus
      /\ r.plus = plus
  BY <1>4 DEF Idle, OpType
<1>10. /\ h \in [Ops -> OpType]
       /\ \A x \in Ops : /\ h[x].pc = op[x].pc /\ h[x].kind = op[x].kind
                         /\ h[x].before = op[x].before /\ h[x].loaded = op[x].loaded
                         /\ h[x].minus = op[x].minus /\ h[x].plus = op[x].plus
                         /\ h[x].ok = op[x].ok
                         /\ h[x].shared => /\ op[x].shared
                                           /\ ProcessOf(x) = p => cache[p].time = file.time
                         /\ ~h[x].shared => h[x].dict = Content(x)
  BY <1>2, <1>6, HoldersKeep
<1>11. cache \in [Processes -> CopyType]
  BY TypesAre
<1>12. /\ cache' \in [Processes -> CopyType] /\ cache'[p] = d
       /\ \A q \in Processes \ {p} : cache'[q] = cache[q]
  BY <1>6, <1>7, <1>8, <1>11
<1>13. op' \in [Ops -> OpType] /\ op'[o] = r /\ \A x \in Ops \ {o} : op'[x] = h[x]
  BY <1>7, <1>9, <1>10
<1>14. ScopeTypeOK'
  BY <1>7, <1>12, <1>13, TypesAre, TypesGive DEF FilesSame
<1>15. \A x \in Ops \ {o} : Frame(x)
  BY <1>10, <1>13 DEF Frame
<1>16. ASSUME NEW x \in Ops \ {o}
       PROVE  \/ Content(x)' = Content(x)
              \/ /\ ProcessOf(x) = p /\ Content(x)' = (Content(x) \ minus) \cup plus
  <2>1. ProcessOf(x) \in Processes /\ op'[x] = h[x]
    BY <1>13, Places
  <2>2. CASE ~h[x].shared
    BY <1>10, <2>1, <2>2 DEF Content
  <2>3. CASE h[x].shared /\ ProcessOf(x) # p
    BY <1>10, <1>12, <2>1, <2>3 DEF Content
  <2>4. CASE h[x].shared /\ ProcessOf(x) = p
    <3>1. Content(x)' = (c.items \ minus) \cup plus
      BY <1>8, <1>12, <2>1, <2>4 DEF Content
    <3>2. c = cache[p] /\ Content(x) = cache[p].items
      BY <1>3, <1>10, <2>4 DEF Content, Cached
    <3>3. QED
      BY <2>4, <3>1, <3>2
  <2>5. QED
    BY <2>2, <2>3, <2>4
<1>17. QED
  BY <1>1, <1>3, <1>7, <1>8, <1>9, <1>12, <1>13, <1>14, <1>15, <1>16 DEF EditEffect

LEMMA BeginDoes ==
  ASSUME ScopeTypeOK, NEW w \in Updaters, BeginUpdate(w)
  PROVE  /\ ScopeTypeOK' /\ FilesSame /\ op[w].pc = "idle"
         /\ op'[w].pc = "model" /\ op'[w].kind = "update"
         /\ op'[w].before = Cached("langgraph").items \cap Facts
         /\ Content(w)' = Cached("langgraph").items
         /\ cache'["langgraph"] = Cached("langgraph")
         /\ cache'["gateway"] = cache["gateway"]
         /\ \A x \in Ops \ {w} : Frame(x) /\ Content(x)' = Content(x)
         /\ \A x \in Ops \ {w} :
              ProcessOf(x) # "langgraph" \/ cache["langgraph"].time = file.time => op'[x] = op[x]
<1>1. PICK h : h = Holders("langgraph")
  OBVIOUS
<1>2. PICK c : c = Cached("langgraph")
  OBVIOUS
<1>3. PICK r : r = [Idle EXCEPT !.pc = "model", !.kind = "update", !.shared = TRUE,
                                !.before = c.items \cap Facts]
  OBVIOUS
<1>4. "langgraph" \in Processes /\ c \in CopyType /\ w \in Ops /\ ProcessOf(w) = "langgraph"
  BY <1>2, Places, CachedTyped DEF Processes
<1>5. /\ cache' = [cache EXCEPT !["langgraph"] = c] /\ op' = [h EXCEPT ![w] = r]
      /\ FilesSame /\ op[w].pc = "idle"
  BY <1>1, <1>2, <1>3 DEF BeginUpdate, FilesSame
<1>6. /\ r \in OpType /\ r.pc = "model" /\ r.kind = "update" /\ r.before = c.items \cap Facts
      /\ r.shared
  BY <1>3, <1>4 DEF Idle, OpType, CopyType, Kinds, Entries
<1>7. /\ h \in [Ops -> OpType]
      /\ \A x \in Ops : /\ h[x].pc = op[x].pc /\ h[x].kind = op[x].kind
                        /\ h[x].before = op[x].before /\ h[x].loaded = op[x].loaded
                        /\ h[x].minus = op[x].minus /\ h[x].plus = op[x].plus
                        /\ h[x].ok = op[x].ok
                        /\ h[x].shared => /\ op[x].shared
                                          /\ ProcessOf(x) = "langgraph"
                                                => cache["langgraph"].time = file.time
                        /\ ~h[x].shared => h[x].dict = Content(x)
                        /\ ProcessOf(x) # "langgraph" \/ cache["langgraph"].time = file.time
                              => h[x] = op[x]
  BY <1>1, <1>4, HoldersKeep
<1>8. cache \in [Processes -> CopyType]
  BY TypesAre
<1>9. /\ cache' \in [Processes -> CopyType] /\ cache'["langgraph"] = c
      /\ cache'["gateway"] = cache["gateway"]
  BY <1>4, <1>5, <1>8 DEF Processes
<1>10. op' \in [Ops -> OpType] /\ op'[w] = r /\ \A x \in Ops \ {w} : op'[x] = h[x]
  BY <1>4, <1>5, <1>6, <1>7
<1>11. ScopeTypeOK'
  BY <1>5, <1>9, <1>10, TypesAre, TypesGive DEF FilesSame
<1>12. ASSUME NEW x \in Ops \ {w} PROVE Frame(x) /\ Content(x)' = Content(x)
  <2>1. ProcessOf(x) \in {"gateway", "langgraph"} /\ op'[x] = h[x]
    BY <1>10, Places DEF Processes
  <2>2. Frame(x)
    BY <1>7, <2>1 DEF Frame
  <2>3. CASE ~h[x].shared
    BY <1>7, <2>1, <2>2, <2>3 DEF Content
  <2>4. CASE h[x].shared /\ ProcessOf(x) = "gateway"
    BY <1>7, <1>9, <2>1, <2>2, <2>4 DEF Content
  <2>5. CASE h[x].shared /\ ProcessOf(x) = "langgraph"
    <3>1. c = cache["langgraph"]
      BY <1>2, <1>7, <2>5 DEF Cached
    <3>2. QED
      BY <1>7, <1>9, <2>1, <2>2, <2>5, <3>1 DEF Content
  <2>6. QED
    BY <2>1, <2>2, <2>3, <2>4, <2>5
<1>13. Content(w)' = c.items
  BY <1>4, <1>6, <1>9, <1>10 DEF Content
<1>14. QED
  BY <1>2, <1>5, <1>6, <1>7, <1>9, <1>10, <1>11, <1>12, <1>13

LEMMA OneDoes ==
  ASSUME ScopeTypeOK, NEW o \in Ops, NEW r \in OpType, op' = [op EXCEPT ![o] = r],
         UNCHANGED cache
  PROVE  /\ op' \in [Ops -> OpType] /\ op'[o] = r
         /\ \A x \in Ops \ {o} : Frame(x) /\ Content(x)' = Content(x)
<1>1. op \in [Ops -> OpType]
  BY TypesAre
<1>2. op' \in [Ops -> OpType] /\ op'[o] = r /\ \A x \in Ops \ {o} : op'[x] = op[x]
  BY <1>1
<1>3. QED
  BY <1>2 DEF Frame, Content

LEMMA ApplyDoes ==
  ASSUME ScopeTypeOK, NEW w \in Updaters, NEW items \in SUBSET Entries, Apply(w, items)
  PROVE  /\ op' \in [Ops -> OpType] /\ cache' \in [Processes -> CopyType]
         /\ op'[w].pc = "save" /\ op'[w].kind = op[w].kind /\ op'[w].before = op[w].before
         /\ op'[w].minus = Content(w) \ items /\ op'[w].plus = items \ Content(w)
         /\ op'[w].shared = op[w].shared /\ Content(w)' = items
         /\ cache'["gateway"] = cache["gateway"]
         /\ cache'["langgraph"].time = cache["langgraph"].time
         /\ op[w].shared \/ cache'["langgraph"] = cache["langgraph"]
         /\ \A x \in Ops \ {w} : Frame(x) /\ op'[x] = op[x]
         /\ \A x \in Ops \ {w} : Content(x)' = Content(x) \/ ProcessOf(x) = "langgraph"
<1>1. PICK r : r = [op[w] EXCEPT !.pc = "save",
                      !.dict = IF op[w].shared THEN @ ELSE items,
                      !.minus = Content(w) \ items, !.plus = items \ Content(w)]
  OBVIOUS
<1>2. PICK d : d = [cache["langgraph"] EXCEPT !.items = items]
  OBVIOUS
<1>3. /\ op \in [Ops -> OpType] /\ cache \in [Processes -> CopyType]
      /\ w \in Ops /\ ProcessOf(w) = "langgraph" /\ "langgraph" \in Processes
  BY TypesAre, Places DEF Processes
<1>4. op[w] \in OpType /\ Content(w) \in SUBSET Entries /\ op[w].dict \in SUBSET Entries
  BY <1>3, ContentTyped DEF OpType
<1>5. r \in OpType
  <2>1. PICK dict \in SUBSET Entries : dict = IF op[w].shared THEN op[w].dict ELSE items
    BY <1>4
  <2>2. r = [op[w] EXCEPT !.pc = "save", !.dict = dict, !.minus = Content(w) \ items,
                          !.plus = items \ Content(w)]
    BY <1>1, <2>1
  <2>3. Content(w) \ items \in SUBSET Entries /\ items \ Content(w) \in SUBSET Entries
    BY <1>4
  <2>4. QED
    BY <1>4, <2>2, <2>3 DEF OpType
<1>6. /\ r.pc = "save" /\ r.kind = op[w].kind /\ r.before = op[w].before
      /\ r.minus = Content(w) \ items /\ r.plus = items \ Content(w)
      /\ r.shared = op[w].shared /\ r.dict = IF op[w].shared THEN op[w].dict ELSE items
  BY <1>1, <1>4 DEF OpType
<1>7. d \in CopyType /\ d.items = items /\ d.time = cache["langgraph"].time
  BY <1>2, <1>3 DEF CopyType
<1>8. op' = [op EXCEPT ![w] = r]
  BY <1>1, <1>3 DEF Apply
<1>9. cache' = IF op[w].shared THEN [cache EXCEPT !["langgraph"] = d] ELSE cache
  BY <1>2, <1>3 DEF Apply
<1>10. op' \in [Ops -> OpType] /\ op'[w] = r /\ \A x \in Ops \ {w} : op'[x] = op[x]
  BY <1>3, <1>5, <1>8
<1>11. /\ cache' \in [Processes -> CopyType] /\ cache'["gateway"] = cache["gateway"]
       /\ op[w].shared => cache'["langgraph"] = d
       /\ ~op[w].shared => cache' = cache
  BY <1>3, <1>7, <1>9
<1>12. Content(w)' = items
  BY <1>3, <1>6, <1>7, <1>10, <1>11 DEF Content
<1>13. ASSUME NEW x \in Ops \ {w}
       PROVE  Content(x)' = Content(x) \/ ProcessOf(x) = "langgraph"
  <2>1. op'[x] = op[x] /\ ProcessOf(x) \in {"gateway", "langgraph"}
    BY <1>10, Places DEF Processes
  <2>2. QED
    BY <1>11, <2>1 DEF Content
<1>14. QED
  BY <1>6, <1>7, <1>10, <1>11, <1>12, <1>13 DEF Frame

LEMMA StatDoes ==
  ASSUME ScopeTypeOK, NEW o \in Ops, Stat(o)
  PROVE  /\ ScopeTypeOK' /\ FilesSame /\ op[o].pc = "stat"
         /\ cache'[ProcessOf(o)] = [items |-> op[o].loaded, time |-> file.time]
         /\ \A p \in Processes \ {ProcessOf(o)} : cache'[p] = cache[p]
         /\ IF op[o].kind \in {"rule", "reload"} THEN op'[o].pc = "idle"
            ELSE /\ op'[o].pc = "index" /\ op'[o].kind = op[o].kind
                 /\ op'[o].before = op[o].before /\ op'[o].minus = op[o].minus
                 /\ op'[o].plus = op[o].plus /\ Content(o)' = Content(o)
         /\ \A x \in Ops \ {o} : Frame(x) /\ Content(x)' = Content(x)
         /\ \A x \in Ops \ {o} : ProcessOf(x) # ProcessOf(o) => op'[x] = op[x]
<1>1. PICK p : p = ProcessOf(o)
  OBVIOUS
<1>2. PICK h : h = Detached(p)
  OBVIOUS
<1>3. PICK d : d = [items |-> op[o].loaded, time |-> file.time]
  OBVIOUS
<1>4. PICK r : r = IF op[o].kind \in {"rule", "reload"} THEN Idle
                   ELSE [h[o] EXCEPT !.pc = "index", !.loaded = {}]
  OBVIOUS
<1>5. p \in Processes /\ op[o] \in OpType /\ file \in CopyType
      /\ cache \in [Processes -> CopyType]
  BY <1>1, Places, TypesAre
<1>6. d \in CopyType
  BY <1>3, <1>5 DEF CopyType, OpType
<1>7. /\ cache' = [cache EXCEPT ![p] = d] /\ op' = [h EXCEPT ![o] = r]
      /\ FilesSame /\ op[o].pc = "stat"
  BY <1>1, <1>2, <1>3, <1>4 DEF Stat, FilesSame
<1>8. /\ h \in [Ops -> OpType]
      /\ \A x \in Ops : /\ h[x].pc = op[x].pc /\ h[x].kind = op[x].kind
                        /\ h[x].before = op[x].before /\ h[x].loaded = op[x].loaded
                        /\ h[x].minus = op[x].minus /\ h[x].plus = op[x].plus
                        /\ h[x].ok = op[x].ok
                        /\ h[x].shared => op[x].shared /\ ProcessOf(x) # p
                        /\ ~h[x].shared => h[x].dict = Content(x)
                        /\ ProcessOf(x) # p => h[x] = op[x]
  BY <1>2, <1>5, DetachedKeep
<1>9. h[o] \in OpType /\ Idle \in OpType /\ Idle.pc = "idle"
  BY <1>8 DEF OpType, Idle
<1>10. /\ r \in OpType
       /\ IF op[o].kind \in {"rule", "reload"} THEN r.pc = "idle"
          ELSE /\ r.pc = "index" /\ r.kind = h[o].kind /\ r.before = h[o].before
               /\ r.minus = h[o].minus /\ r.plus = h[o].plus /\ r.shared = h[o].shared
               /\ r.dict = h[o].dict
  <2>1. CASE op[o].kind \in {"rule", "reload"}
    BY <1>4, <1>9, <2>1
  <2>2. CASE op[o].kind \notin {"rule", "reload"}
    <3>1. r = [h[o] EXCEPT !.pc = "index", !.loaded = {}]
      BY <1>4, <2>2
    <3>2. r \in OpType
      BY <1>9, <3>1 DEF OpType
    <3>3. /\ r.pc = "index" /\ r.kind = h[o].kind /\ r.before = h[o].before
          /\ r.minus = h[o].minus /\ r.plus = h[o].plus /\ r.shared = h[o].shared
          /\ r.dict = h[o].dict
      BY <1>9, <3>1 DEF OpType
    <3>4. QED
      BY <2>2, <3>2, <3>3
  <2>3. QED
    BY <2>1, <2>2
<1>11. /\ cache' \in [Processes -> CopyType] /\ cache'[p] = d
       /\ \A q \in Processes \ {p} : cache'[q] = cache[q]
  BY <1>5, <1>6, <1>7
<1>12. op' \in [Ops -> OpType] /\ op'[o] = r /\ \A x \in Ops \ {o} : op'[x] = h[x]
  BY <1>7, <1>8, <1>10
<1>13. ScopeTypeOK'
  BY <1>7, <1>11, <1>12, TypesAre, TypesGive DEF FilesSame
<1>14. ASSUME NEW x \in Ops \ {o} PROVE Frame(x) /\ Content(x)' = Content(x)
  <2>1. op'[x] = h[x] /\ ProcessOf(x) \in Processes
    BY <1>12, Places
  <2>2. Frame(x)
    BY <1>8, <2>1 DEF Frame
  <2>3. Content(x)' = Content(x)
    <3>1. CASE h[x].shared
      BY <1>8, <1>11, <2>1, <3>1 DEF Content
    <3>2. CASE ~h[x].shared
      BY <1>8, <2>1, <3>2 DEF Content
    <3>3. QED
      BY <3>1, <3>2
  <2>4. QED
    BY <2>2, <2>3
<1>15. op[o].kind \notin {"rule", "reload"} => Content(o)' = Content(o)
  BY <1>1, <1>8, <1>10, <1>12 DEF Content
<1>16. QED
  BY <1>1, <1>3, <1>7, <1>8, <1>10, <1>11, <1>12, <1>13, <1>14, <1>15

-----------------------------------------------------------------------------
(* What stays for the operations a step is not about.                        *)
LEMMA KeepColliding ==
  ASSUME Colliding, NEW o \in Ops, \A x \in Ops \ {o} : Frame(x),
         op[o].pc \in Unsaved => op'[o].pc \in Unsaved
  PROVE  Colliding'
<1>1. PICK a, b \in Ops : a # b /\ op[a].pc \in Unsaved /\ op[b].pc \in Unsaved
  BY DEF Colliding
<1>2. \A x \in Ops : op[x].pc \in Unsaved => op'[x].pc \in Unsaved
  BY DEF Frame
<1>3. op'[a].pc \in Unsaved /\ op'[b].pc \in Unsaved
  BY <1>1, <1>2
<1>4. QED
  BY <1>1, <1>3 DEF Colliding, Unsaved

LEMMA EditedStays ==
  ASSUME NEW x \in Ops, Edited(x), Frame(x), UNCHANGED file, Content(x)' = Content(x),
         op[x].pc = "replace" => UNCHANGED temp
  PROVE  Edited(x)'
<1>1. StoredFacts' = StoredFacts
  BY DEF StoredFacts
<1>2. /\ op'[x].pc = op[x].pc /\ op'[x].kind = op[x].kind /\ op'[x].before = op[x].before
      /\ op'[x].minus = op[x].minus /\ op'[x].plus = op[x].plus
  BY DEF Frame
<1>3. QED
  BY <1>1, <1>2 DEF Edited

LEMMA IndexesStays ==
  ASSUME NEW x \in Ops, Indexes(x), Frame(x), UNCHANGED <<file, index>>,
         FactsOf(x)' = FactsOf(x)
  PROVE  Indexes(x)'
<1>1. StoredFacts' = StoredFacts
  BY DEF StoredFacts
<1>2. /\ op'[x].pc = op[x].pc /\ op'[x].kind = op[x].kind /\ op'[x].before = op[x].before
      /\ op'[x].minus = op[x].minus /\ op'[x].plus = op[x].plus
  BY DEF Frame
<1>3. QED
  BY <1>1, <1>2 DEF Indexes

LEMMA BehindStays ==
  ASSUME NEW x \in Ops, Frame(x)
  PROVE  (Behind(x)' <=> Behind(x)) /\ (Followed(x)' <=> Followed(x))
  BY DEF Frame, Behind, Followed, Saved

\* What o may do, to itself, to the caches and to the index, while the file stays.
LEMMA CleanStep ==
  ASSUME Clean, UNCHANGED file, NEW o \in Ops,
         \A x \in Ops \ {o} : op[x].pc = "replace" => UNCHANGED temp,
         \A x \in Ops \ {o} : Followed(x) => UNCHANGED index,
         \A x \in Ops \ {o} : Frame(x),
         \A x \in Ops \ {o} :
            \/ Content(x)' = Content(x)
            \/ /\ op[x].pc \notin Unsaved
               /\ op[x].pc = "model" => op'["rule"].pc \in Unsaved
               /\ Followed(x) => FactsOf(x)' = FactsOf(x),
         op'["rule"].pc \notin Unsaved => op["rule"].pc \notin Unsaved,
         \A p \in Processes : cache'[p].time <= file.time,
         \A p \in Processes : cache'[p].time = file.time =>
            \/ cache'[p].items = file.items
            \/ \E x \in Ops : ProcessOf(x) = p /\ op'[x].pc \in Unsaved /\ op'[x].shared,
         op'[o].pc \in Unsaved => Edited(o)',
         op'[o].pc = "model" => Asks(o)',
         op'[o].pc = "stat" => op'[o].loaded = file.items,
         op'[o].pc = "index" => op'[o].kind \notin {"rule", "reload"},
         Followed(o)' => Indexes(o)',
         Behind(o)' => Behind(o),
         (\A x \in Ops : ~Followed(x)') => index' = StoredFacts
  PROVE  Clean'
<1>1. \A x \in Ops \ {o} : /\ op'[x].pc = op[x].pc /\ op'[x].kind = op[x].kind
                          /\ op'[x].before = op[x].before /\ op'[x].loaded = op[x].loaded
  BY DEF Frame
<1>2. StoredFacts' = StoredFacts
  BY DEF StoredFacts
<1>3. ASSUME NEW x \in Ops, op'[x].pc \in Unsaved PROVE Edited(x)'
  <2>1. CASE x = o
    BY <1>3, <2>1
  <2>2. CASE x # o
    <3>1. op[x].pc \in Unsaved /\ Frame(x)
      BY <1>1, <1>3, <2>2
    <3>2. Content(x)' = Content(x)
      BY <2>2, <3>1
    <3>3. Edited(x) /\ (op[x].pc = "replace" => UNCHANGED temp)
      BY <2>2, <3>1 DEF Clean
    <3>4. QED
      BY <3>1, <3>2, <3>3, EditedStays
  <2>3. QED
    BY <2>1, <2>2
<1>4. ASSUME NEW x \in Ops, op'[x].pc = "model" PROVE Asks(x)'
  <2>1. CASE x = o
    BY <1>4, <2>1
  <2>2. CASE x # o
    <3>1. op[x].pc = "model" /\ op'[x].kind = op[x].kind /\ op'[x].before = op[x].before
      BY <1>1, <1>4, <2>2
    <3>2. Asks(x)
      BY <3>1 DEF Clean
    <3>3. op'["rule"].pc \notin Unsaved => Content(x)' = Content(x)
      BY <2>2, <3>1
    <3>4. QED
      BY <1>2, <3>1, <3>2, <3>3 DEF Asks
  <2>3. QED
    BY <2>1, <2>2
<1>5. ASSUME NEW x \in Ops, op'[x].pc = "stat" PROVE op'[x].loaded = file'.items
  BY <1>1, <1>5 DEF Clean
<1>6. ASSUME NEW x \in Ops, Followed(x)' PROVE Indexes(x)'
  <2>1. CASE x = o
    BY <1>6, <2>1
  <2>2. CASE x # o
    <3>1. Followed(x) /\ Frame(x)
      BY <1>6, <2>2, BehindStays
    <3>2. FactsOf(x)' = FactsOf(x)
      BY <2>2, <3>1 DEF FactsOf
    <3>3. Indexes(x) /\ UNCHANGED <<file, index>>
      BY <2>2, <3>1 DEF Clean
    <3>4. QED
      BY <3>1, <3>2, <3>3, IndexesStays
  <2>3. QED
    BY <2>1, <2>2
<1>7. \A x \in Ops : Behind(x)' => Behind(x)
  BY BehindStays
<1>8. \A x, y \in Ops : Behind(x)' /\ Behind(y)' => x = y
  BY <1>7 DEF Clean
<1>9. (\A x \in Ops : ~Followed(x)') => index' = StoredFacts'
  BY <1>2
<1>10. ASSUME NEW x \in Ops, op'[x].pc = "index"
       PROVE  op'[x].kind \notin {"rule", "reload"}
  BY <1>1, <1>10 DEF Clean
<1>11. QED
  BY <1>3, <1>4, <1>5, <1>6, <1>8, <1>9, <1>10 DEF Clean

\* The same while also the index stays.
LEMMA CleanStays ==
  ASSUME Clean, UNCHANGED <<file, temp, index>>, NEW o \in Ops,
         \A x \in Ops \ {o} : Frame(x),
         \A x \in Ops \ {o} :
            \/ Content(x)' = Content(x)
            \/ /\ op[x].pc \notin Unsaved
               /\ op[x].pc = "model" => op'["rule"].pc \in Unsaved
               /\ Followed(x) => FactsOf(x)' = FactsOf(x),
         op'["rule"].pc \notin Unsaved => op["rule"].pc \notin Unsaved,
         \A p \in Processes : cache'[p].time <= file.time,
         \A p \in Processes : cache'[p].time = file.time =>
            \/ cache'[p].items = file.items
            \/ \E x \in Ops : ProcessOf(x) = p /\ op'[x].pc \in Unsaved /\ op'[x].shared,
         op'[o].pc \in Unsaved => Edited(o)',
         op'[o].pc = "model" => Asks(o)',
         op'[o].pc = "stat" => op'[o].loaded = file.items,
         op'[o].pc = "index" => op'[o].kind \notin {"rule", "reload"},
         Followed(o)' => Indexes(o)',
         Behind(o)' => Behind(o),
         Followed(o) => Followed(o)'
  PROVE  Clean'
<1>1. StoredFacts' = StoredFacts
  BY DEF StoredFacts
<1>2. ASSUME \A x \in Ops : ~Followed(x)' PROVE index' = StoredFacts
  <2>1. \A x \in Ops : ~Followed(x)
    BY <1>2, BehindStays
  <2>2. QED
    BY <2>1 DEF Clean
<1>3. QED
  BY <1>2, CleanStep

Sound == crossed \/ Colliding \/ Clean

\* With nothing unsaved, a reader gets what the file has.
LEMMA CachedIsStored ==
  ASSUME Clean, NEW p \in Processes,
         \A x \in Ops : op[x].pc \in Unsaved /\ op[x].shared => ProcessOf(x) # p
  PROVE  Cached(p).items = file.items
  BY DEF Clean, Cached

LEMMA EditKeeps ==
  ASSUME ScopeTypeOK, Sound, NEW o \in Ops, op[o].pc = "idle",
         NEW kind \in Kinds, NEW minus \in SUBSET Entries, NEW plus \in SUBSET Entries,
         Edit(o, kind, minus, plus),
         \/ o = "rule" /\ kind = "rule" /\ minus = {} /\ plus \subseteq Rules
         \/ o = "gateway" /\ kind \in {"delete", "forget"} /\ plus = {}
         \/ o = "gateway" /\ kind = "upsert" /\ minus = {}
  PROVE  ScopeTypeOK' /\ Sound'
<1>0. EditEffect(o, kind, minus, plus)
  BY EditDoes
<1>1. /\ ScopeTypeOK' /\ FilesSame
      /\ op'[o].pc = "save" /\ op'[o].kind = kind /\ op'[o].shared
      /\ op'[o].minus = minus /\ op'[o].plus = plus
      /\ cache'[ProcessOf(o)].items = (Cached(ProcessOf(o)).items \ minus) \cup plus
      /\ cache'[ProcessOf(o)].time = file.time
      /\ \A p \in Processes \ {ProcessOf(o)} : cache'[p] = cache[p]
      /\ \A x \in Ops \ {o} : Frame(x)
  BY <1>0 DEF EditEffect
<1>2. \A x \in Ops \ {o} :
              \/ Content(x)' = Content(x)
              \/ /\ ProcessOf(x) = ProcessOf(o)
                 /\ Content(x)' = (Content(x) \ minus) \cup plus
  BY <1>0 DEF EditEffect
<1>3. CASE crossed
  BY <1>1, <1>3 DEF Sound, FilesSame
<1>4. CASE Colliding
  BY <1>1, <1>4, KeepColliding DEF Sound, Unsaved
<1>5. CASE \E x \in Ops \ {o} : op[x].pc \in Unsaved
  <2>1. PICK x \in Ops \ {o} : op'[x].pc \in Unsaved
    BY <1>1, <1>5 DEF Frame
  <2>2. QED
    BY <1>1, <2>1 DEF Sound, Colliding, Unsaved
<1>6. CASE Clean /\ \A x \in Ops \ {o} : op[x].pc \notin Unsaved
  <2>1. \A x \in Ops : op[x].pc \notin Unsaved
    BY <1>6 DEF Unsaved
  <2>2. UNCHANGED <<file, temp, index>>
    BY <1>1 DEF FilesSame
  <2>3. ASSUME NEW x \in Ops \ {o}
        PROVE  \/ Content(x)' = Content(x)
               \/ /\ op[x].pc \notin Unsaved
                  /\ op[x].pc = "model" => op'["rule"].pc \in Unsaved
                  /\ Followed(x) => FactsOf(x)' = FactsOf(x)
    <3>1. CASE Content(x)' # Content(x)
      <4>1. /\ ProcessOf(x) = ProcessOf(o)
            /\ Content(x)' = (Content(x) \ minus) \cup plus
        BY <1>2, <3>1
      <4>2. o = "rule" /\ minus = {} /\ plus \subseteq Rules
        BY <2>3, <4>1, Places
      <4>3. FactsOf(x)' = FactsOf(x)
        BY <4>1, <4>2, MemoryBounds DEF FactsOf
      <4>4. QED
        BY <1>1, <2>1, <4>2, <4>3 DEF Unsaved
    <3>2. QED
      BY <3>1
  <2>4. op'["rule"].pc \notin Unsaved => op["rule"].pc \notin Unsaved
    BY <2>1, Places
  <2>5. \A p \in Processes : cache'[p].time <= file.time
    <3>1. file.time \in Nat
      BY TypesAre DEF CopyType
    <3>2. QED
      BY <1>1, <1>6, <3>1 DEF Clean
  <2>6. ASSUME NEW p \in Processes, cache'[p].time = file.time
        PROVE  \/ cache'[p].items = file.items
               \/ \E x \in Ops : ProcessOf(x) = p /\ op'[x].pc \in Unsaved /\ op'[x].shared
    <3>1. CASE p = ProcessOf(o)
      BY <1>1, <3>1 DEF Unsaved
    <3>2. CASE p # ProcessOf(o)
      BY <1>1, <1>6, <2>1, <2>6, <3>2 DEF Clean
    <3>3. QED
      BY <3>1, <3>2
  <2>7. Edited(o)'
    <3>1. Cached(ProcessOf(o)).items = file.items
      BY <1>6, <2>1, CachedIsStored, Places
    <3>2. Content(o)' = (file.items \ minus) \cup plus
      BY <1>1, <3>1 DEF Content
    <3>3. file' = file
      BY <2>2
    <3>4. QED
      BY <1>1, <3>2, <3>3 DEF Edited
  <2>8. ~Behind(o)' /\ ~Followed(o)' /\ ~Followed(o) /\ op'[o].pc = "save"
    BY <1>1 DEF Behind, Followed, Saved
  <2>9. Clean'
    <3> HIDE DEF Unsaved
    <3>1. QED
      BY <1>1, <1>6, <2>2, <2>3, <2>4, <2>5, <2>6, <2>7, <2>8, CleanStays
  <2>10. QED
    BY <1>1, <2>9 DEF Sound
<1>7. QED
  BY <1>3, <1>4, <1>5, <1>6 DEF Sound

LEMMA NewIn == ASSUME NEW S PROVE New(S) \subseteq S
  BY DEF New, Fresh

LEMMA EditsKeep ==
  ASSUME ScopeTypeOK, Sound,
         AddBehaviorRule \/ DeleteFact \/ ForgetThread \/ UpsertFact
  PROVE  ScopeTypeOK' /\ Sound'
<1>1. CASE AddBehaviorRule
  <2>1. Edit("rule", "rule", {}, New(Rules)) /\ op["rule"].pc = "idle"
    BY <1>1 DEF AddBehaviorRule
  <2>2. New(Rules) \subseteq Rules /\ New(Rules) \in SUBSET Entries /\ "rule" \in Kinds
    BY NewIn DEF Entries, Kinds
  <2>3. QED
    BY <2>1, <2>2, EditKeeps, Places
<1>2. CASE DeleteFact
  <2>1. PICK f \in Facts : Edit("gateway", "delete", {f}, {})
    BY <1>2 DEF DeleteFact
  <2>2. op["gateway"].pc = "idle" /\ {f} \in SUBSET Entries /\ "delete" \in Kinds
    BY <1>2 DEF DeleteFact, GatewayEdits, Entries, Kinds
  <2>3. QED
    BY <2>1, <2>2, EditKeeps, Places
<1>3. CASE ForgetThread
  <2>1. PICK gone \in SUBSET Facts : Edit("gateway", "forget", gone, {})
    BY <1>3 DEF ForgetThread
  <2>2. op["gateway"].pc = "idle" /\ gone \in SUBSET Entries /\ "forget" \in Kinds
    BY <1>3 DEF ForgetThread, GatewayEdits, Entries, Kinds
  <2>3. QED
    BY <2>1, <2>2, EditKeeps, Places
<1>4. CASE UpsertFact
  <2>1. Edit("gateway", "upsert", {}, New(Facts)) /\ op["gateway"].pc = "idle"
    BY <1>4 DEF UpsertFact, GatewayEdits
  <2>2. New(Facts) \in SUBSET Entries /\ "upsert" \in Kinds
    BY NewIn DEF Entries, Kinds
  <2>3. QED
    BY <2>1, <2>2, EditKeeps, Places
<1>5. QED
  BY <1>1, <1>2, <1>3, <1>4

\* A step of o alone that writes neither a file nor a cache.
LEMMA AloneKeeps ==
  ASSUME ScopeTypeOK, Sound, NEW o \in Ops, NEW r \in OpType, op' = [op EXCEPT ![o] = r],
         FilesSame, UNCHANGED cache, op[o].pc \notin Unsaved,
         r.pc \in Unsaved => (Clean => Edited(o)'),
         r.pc \notin {"model", "index"},
         r.pc = "stat" => r.loaded = file.items,
         Clean => (Followed(o)' => Indexes(o)'),
         Behind(o)' => Behind(o),
         Followed(o) => Followed(o)'
  PROVE  ScopeTypeOK' /\ Sound'
<1>1. /\ op' \in [Ops -> OpType] /\ op'[o] = r
      /\ \A x \in Ops \ {o} : Frame(x) /\ Content(x)' = Content(x)
  BY OneDoes
<1>2. ScopeTypeOK'
  BY <1>1, TypesAre, TypesGive DEF FilesSame
<1>3. CASE crossed
  BY <1>2, <1>3 DEF Sound, FilesSame
<1>4. CASE Colliding
  BY <1>1, <1>2, <1>4, KeepColliding DEF Sound
<1>5. CASE Clean
  <2>1. UNCHANGED <<file, temp, index>>
    BY DEF FilesSame
  <2>2. op'["rule"].pc \notin Unsaved => op["rule"].pc \notin Unsaved
    BY <1>1, Places DEF Frame
  <2>3. \A p \in Processes : cache'[p].time <= file.time
    BY <1>5 DEF Clean
  <2>4. ASSUME NEW p \in Processes, cache'[p].time = file.time
        PROVE  \/ cache'[p].items = file.items
               \/ \E x \in Ops : ProcessOf(x) = p /\ op'[x].pc \in Unsaved /\ op'[x].shared
    <3>1. CASE cache[p].items = file.items
      BY <3>1
    <3>2. CASE cache[p].items # file.items
      <4>1. PICK x \in Ops : ProcessOf(x) = p /\ op[x].pc \in Unsaved /\ op[x].shared
        BY <1>5, <2>4, <3>2 DEF Clean
      <4>2. op'[x] = op[x]
        <5>1. op \in [Ops -> OpType] /\ x # o
          BY <4>1, TypesAre
        <5>2. QED
          BY <5>1
      <4>3. QED
        BY <4>1, <4>2
    <3>3. QED
      BY <3>1, <3>2
  <2>5. Clean'
    BY <1>1, <1>5, <2>1, <2>2, <2>3, <2>4, CleanStays
  <2>6. QED
    BY <1>2, <2>5 DEF Sound
<1>6. QED
  BY <1>3, <1>4, <1>5 DEF Sound

LEMMA ClearKeeps ==
  ASSUME ScopeTypeOK, Sound, ClearMemory
  PROVE  ScopeTypeOK' /\ Sound'
<1>1. PICK r : r = [Idle EXCEPT !.pc = "save", !.kind = "clear", !.minus = Entries]
  OBVIOUS
<1>2. /\ r \in OpType /\ r.pc = "save" /\ r.kind = "clear" /\ r.minus = Entries
      /\ r.plus = {} /\ r.dict = {} /\ r.shared = FALSE
  BY <1>1 DEF Idle, OpType, Kinds
<1>3. op' = [op EXCEPT !["gateway"] = r] /\ FilesSame /\ UNCHANGED cache
  BY <1>1 DEF ClearMemory, FilesSame
<1>4. op[ "gateway" ].pc = "idle" /\ "gateway" \in Ops
  BY Places DEF ClearMemory, GatewayEdits
<1>5. op'["gateway"] = r
  BY <1>2, <1>3, <1>4, TypesAre
<1>6. Edited("gateway")'
  <2>1. file'.items \subseteq Entries
    BY <1>3, TypesAre DEF FilesSame, CopyType
  <2>2. Content("gateway")' = {}
    BY <1>2, <1>5 DEF Content
  <2>3. Content("gateway")' = (file'.items \ op'["gateway"].minus) \cup op'["gateway"].plus
    BY <1>2, <1>5, <2>1, <2>2
  <2>4. QED
    BY <1>2, <1>5, <2>3 DEF Edited
<1>7. ~Behind("gateway")' /\ ~Followed("gateway")' /\ ~Followed("gateway")
  BY <1>2, <1>4, <1>5 DEF Behind, Followed, Saved
<1>8. QED
  BY <1>2, <1>3, <1>4, <1>6, <1>7, AloneKeeps DEF Unsaved

LEMMA RedactKeeps ==
  ASSUME ScopeTypeOK, Sound, RedactMemory
  PROVE  ScopeTypeOK' /\ Sound'
<1>1. PICK gone \in SUBSET (file.items \cap Facts) :
         op' = [op EXCEPT !["gateway"] = [Idle EXCEPT !.pc = "save", !.kind = "redact",
                                            !.dict = file.items \ gone, !.minus = gone]]
  BY DEF RedactMemory
<1>2. PICK r : r = [Idle EXCEPT !.pc = "save", !.kind = "redact",
                                !.dict = file.items \ gone, !.minus = gone]
  OBVIOUS
<1>3. file.items \in SUBSET Entries /\ gone \in SUBSET Entries
  BY TypesAre DEF CopyType, Entries
<1>4. /\ r \in OpType /\ r.pc = "save" /\ r.kind = "redact" /\ r.minus = gone
      /\ r.plus = {} /\ r.dict = file.items \ gone /\ r.shared = FALSE
  BY <1>2, <1>3 DEF Idle, OpType, Kinds
<1>5. op' = [op EXCEPT !["gateway"] = r] /\ FilesSame /\ UNCHANGED cache
  BY <1>1, <1>2 DEF RedactMemory, FilesSame
<1>6. op["gateway"].pc = "idle" /\ "gateway" \in Ops
  BY Places DEF RedactMemory, GatewayEdits
<1>7. op'["gateway"] = r
  BY <1>4, <1>5, <1>6, TypesAre
<1>8. Edited("gateway")'
  <2>1. file' = file
    BY <1>5 DEF FilesSame
  <2>2. Content("gateway")' = file.items \ gone
    BY <1>4, <1>7 DEF Content
  <2>3. Content("gateway")' = (file'.items \ op'["gateway"].minus) \cup op'["gateway"].plus
    BY <1>4, <1>7, <2>1, <2>2
  <2>4. QED
    BY <1>4, <1>7, <2>3 DEF Edited
<1>9. ~Behind("gateway")' /\ ~Followed("gateway")' /\ ~Followed("gateway")
  BY <1>4, <1>6, <1>7 DEF Behind, Followed, Saved
<1>10. QED
  BY <1>4, <1>5, <1>6, <1>8, <1>9, AloneKeeps DEF Unsaved

LEMMA ReloadKeeps ==
  ASSUME ScopeTypeOK, Sound, ReloadMemory
  PROVE  ScopeTypeOK' /\ Sound'
<1>1. PICK r : r = [Idle EXCEPT !.pc = "load", !.kind = "reload"]
  OBVIOUS
<1>2. r \in OpType /\ r.pc = "load" /\ r.kind = "reload"
  BY <1>1 DEF Idle, OpType, Kinds
<1>3. op' = [op EXCEPT !["gateway"] = r] /\ FilesSame /\ UNCHANGED cache
  BY <1>1 DEF ReloadMemory, FilesSame
<1>4. op["gateway"].pc = "idle" /\ "gateway" \in Ops
  BY Places DEF ReloadMemory
<1>5. op'["gateway"] = r
  BY <1>2, <1>3, <1>4, TypesAre
<1>6. ~Behind("gateway")' /\ ~Followed("gateway")' /\ ~Followed("gateway")
  BY <1>2, <1>4, <1>5 DEF Behind, Followed, Saved
<1>7. QED
  BY <1>2, <1>3, <1>4, <1>6, AloneKeeps DEF Unsaved

LEMMA FailsKeeps ==
  ASSUME ScopeTypeOK, Sound, NEW w \in Updaters, ModelFails(w)
  PROVE  ScopeTypeOK' /\ Sound'
<1>1. Idle \in OpType /\ Idle.pc = "idle"
  BY DEF Idle, OpType
<1>2. op' = [op EXCEPT ![w] = Idle] /\ FilesSame /\ UNCHANGED cache
  BY DEF ModelFails, FilesSame
<1>3. op[w].pc = "model" /\ w \in Ops
  BY Places DEF ModelFails
<1>4. op'[w] = Idle
  BY <1>1, <1>2, <1>3, TypesAre
<1>5. ~Behind(w)' /\ ~Followed(w)' /\ ~Followed(w)
  BY <1>1, <1>3, <1>4 DEF Behind, Followed, Saved
<1>6. QED
  BY <1>1, <1>2, <1>3, <1>5, AloneKeeps DEF Unsaved

LEMMA LoadKeeps ==
  ASSUME ScopeTypeOK, Sound, NEW o \in Ops, Load(o)
  PROVE  ScopeTypeOK' /\ Sound'
<1>1. PICK r : r = [op[o] EXCEPT !.pc = "stat", !.loaded = file.items]
  OBVIOUS
<1>2. op \in [Ops -> OpType] /\ op[o] \in OpType /\ file.items \in SUBSET Entries
  BY TypesAre DEF CopyType
<1>3. r \in OpType
  BY <1>1, <1>2 DEF OpType
<1>4. /\ r.pc = "stat" /\ r.loaded = file.items /\ r.kind = op[o].kind
      /\ r.before = op[o].before /\ r.minus = op[o].minus /\ r.plus = op[o].plus
      /\ r.shared = op[o].shared /\ r.dict = op[o].dict
  BY <1>1, <1>2 DEF OpType
<1>5. op' = [op EXCEPT ![o] = r] /\ FilesSame /\ UNCHANGED cache /\ op[o].pc = "load"
  BY <1>1, <1>2 DEF Load, FilesSame
<1>6. op'[o] = r
  BY <1>2, <1>5
<1>7. (Behind(o)' <=> Behind(o)) /\ (Followed(o)' <=> Followed(o))
  BY <1>4, <1>5, <1>6 DEF Behind, Followed, Saved
<1>8. Clean => (Followed(o)' => Indexes(o)')
  <2>1. SUFFICES ASSUME Clean, Followed(o) PROVE Indexes(o)'
    BY <1>7
  <2>2. Indexes(o)
    BY <2>1 DEF Clean
  <2>3. FactsOf(o)' = FactsOf(o) /\ StoredFacts' = StoredFacts /\ index' = index
    BY <1>4, <1>5, <1>6 DEF FactsOf, Content, StoredFacts, FilesSame
  <2>4. QED
    BY <1>4, <1>6, <2>2, <2>3 DEF Indexes
<1>9. QED
  BY <1>3, <1>4, <1>5, <1>7, <1>8, AloneKeeps DEF Unsaved

LEMMA StatKeeps ==
  ASSUME ScopeTypeOK, Sound, NEW o \in Ops, Stat(o)
  PROVE  ScopeTypeOK' /\ Sound'
<1>1. /\ ScopeTypeOK' /\ FilesSame /\ op[o].pc = "stat"
      /\ cache'[ProcessOf(o)] = [items |-> op[o].loaded, time |-> file.time]
      /\ \A p \in Processes \ {ProcessOf(o)} : cache'[p] = cache[p]
      /\ IF op[o].kind \in {"rule", "reload"} THEN op'[o].pc = "idle"
         ELSE /\ op'[o].pc = "index" /\ op'[o].kind = op[o].kind
              /\ op'[o].before = op[o].before /\ op'[o].minus = op[o].minus
              /\ op'[o].plus = op[o].plus /\ Content(o)' = Content(o)
      /\ \A x \in Ops \ {o} : Frame(x) /\ Content(x)' = Content(x)
      /\ \A x \in Ops \ {o} : ProcessOf(x) # ProcessOf(o) => op'[x] = op[x]
  BY StatDoes
<1>2. CASE crossed
  BY <1>1, <1>2 DEF Sound, FilesSame
<1>3. CASE Colliding
  BY <1>1, <1>3, KeepColliding DEF Sound, Unsaved
<1>4. CASE Clean
  <2>1. UNCHANGED <<file, temp, index>>
    BY <1>1 DEF FilesSame
  <2>2. op'["rule"].pc \notin Unsaved => op["rule"].pc \notin Unsaved
    BY <1>1, Places DEF Frame, Unsaved
  <2>3. \A p \in Processes : cache'[p].time <= file.time
    <3>1. file.time \in Nat
      BY TypesAre DEF CopyType
    <3>2. QED
      BY <1>1, <1>4, <3>1 DEF Clean
  <2>4. ASSUME NEW p \in Processes, cache'[p].time = file.time
        PROVE  \/ cache'[p].items = file.items
               \/ \E x \in Ops : ProcessOf(x) = p /\ op'[x].pc \in Unsaved /\ op'[x].shared
    <3>1. CASE p = ProcessOf(o)
      BY <1>1, <1>4, <3>1 DEF Clean
    <3>2. CASE p # ProcessOf(o) /\ cache[p].items # file.items
      <4>1. PICK x \in Ops : ProcessOf(x) = p /\ op[x].pc \in Unsaved /\ op[x].shared
        BY <1>1, <1>4, <2>4, <3>2 DEF Clean
      <4>2. op'[x] = op[x]
        BY <1>1, <3>2, <4>1
      <4>3. QED
        BY <4>1, <4>2
    <3>3. QED
      BY <1>1, <3>1, <3>2
  <2>5. /\ op'[o].pc \notin Unsaved /\ op'[o].pc # "model" /\ op'[o].pc # "stat"
        /\ op'[o].pc = "index" => op'[o].kind \notin {"rule", "reload"}
    BY <1>1 DEF Unsaved
  <2>6. (Behind(o)' => Behind(o)) /\ (Followed(o)' <=> Followed(o))
    BY <1>1 DEF Behind, Followed, Saved
  <2>7. ASSUME Followed(o)' PROVE Indexes(o)'
    <3>1. Indexes(o) /\ op[o].kind \notin {"rule", "reload"}
      BY <1>4, <2>6, <2>7 DEF Clean, Followed
    <3>2. FactsOf(o)' = FactsOf(o) /\ StoredFacts' = StoredFacts /\ index' = index
      BY <1>1, <2>1, <3>1 DEF FactsOf, StoredFacts
    <3>3. QED
      BY <1>1, <3>1, <3>2 DEF Indexes
  <2>8. Clean'
    BY <1>1, <1>4, <2>1, <2>2, <2>3, <2>4, <2>5, <2>6, <2>7, CleanStays
  <2>9. QED
    BY <1>1, <2>8 DEF Sound
<1>5. QED
  BY <1>2, <1>3, <1>4 DEF Sound

LEMMA BeginKeeps ==
  ASSUME ScopeTypeOK, Roles, Sound, NEW w \in Updaters, BeginUpdate(w),
         \A v \in Updaters : op[v].pc = "idle"
  PROVE  ScopeTypeOK' /\ Sound'
<1>1. /\ ScopeTypeOK' /\ FilesSame /\ op[w].pc = "idle"
      /\ op'[w].pc = "model" /\ op'[w].kind = "update"
      /\ op'[w].before = Cached("langgraph").items \cap Facts
      /\ Content(w)' = Cached("langgraph").items
      /\ cache'["langgraph"] = Cached("langgraph")
      /\ cache'["gateway"] = cache["gateway"]
      /\ \A x \in Ops \ {w} : Frame(x) /\ Content(x)' = Content(x)
      /\ \A x \in Ops \ {w} :
           ProcessOf(x) # "langgraph" \/ cache["langgraph"].time = file.time => op'[x] = op[x]
  BY BeginDoes
<1>2. w \in Ops /\ "rule" \in Ops \ {w} /\ "langgraph" \in Processes
  BY Places DEF Processes
<1>3. CASE crossed
  BY <1>1, <1>3 DEF Sound, FilesSame
<1>4. CASE Colliding
  BY <1>1, <1>2, <1>4, KeepColliding DEF Sound, Unsaved
<1>5. CASE Clean
  <2>1. UNCHANGED <<file, temp, index>>
    BY <1>1 DEF FilesSame
  <2>2. op'["rule"].pc = op["rule"].pc
    BY <1>1, <1>2 DEF Frame
  <2>3. \A x \in Ops : op[x].pc \in Unsaved /\ ProcessOf(x) = "langgraph" => x = "rule"
    BY Places DEF Unsaved
  <2>4. op["rule"].pc \notin Unsaved => Cached("langgraph").items = file.items
    BY <1>2, <1>5, <2>3, CachedIsStored
  <2>5. Cached("langgraph").items \cap Facts = StoredFacts
    <3>1. CASE op["rule"].pc \notin Unsaved
      BY <2>4, <3>1 DEF StoredFacts
    <3>2. CASE op["rule"].pc \in Unsaved /\ Cached("langgraph").items # file.items
      <4>1. cache["langgraph"].time = file.time /\ Cached("langgraph") = cache["langgraph"]
        BY <3>2 DEF Cached
      <4>2. \E x \in Ops : /\ ProcessOf(x) = "langgraph" /\ op[x].pc \in Unsaved
                           /\ op[x].shared
        BY <1>2, <1>5, <3>2, <4>1 DEF Clean
      <4>3. op["rule"].shared
        BY <2>3, <4>2
      <4>4. Content("rule") = Cached("langgraph").items
        BY <4>1, <4>3, Places DEF Content
      <4>5. op["rule"].kind = "rule" /\ Edited("rule")
        BY <1>2, <1>5, <3>2 DEF Roles, RoleOK, Unsaved, Clean
      <4>6. /\ Content("rule") = (file.items \ op["rule"].minus) \cup op["rule"].plus
            /\ op["rule"].minus = {} /\ op["rule"].plus \subseteq Rules
        BY <4>5 DEF Edited
      <4>7. QED
        BY <4>4, <4>6, MemoryBounds DEF StoredFacts
    <3>3. QED
      BY <3>1, <3>2 DEF StoredFacts
  <2>6. Asks(w)'
    <3>1. StoredFacts' = StoredFacts /\ file' = file
      BY <2>1 DEF StoredFacts
    <3>2. QED
      BY <1>1, <2>2, <2>4, <2>5, <3>1 DEF Asks
  <2>7. \A p \in Processes : cache'[p].time <= file.time
    <3>1. file.time \in Nat /\ Cached("langgraph").time = file.time
      BY TypesAre DEF CopyType, Cached
    <3>2. QED
      BY <1>1, <1>5, <3>1 DEF Clean, Processes
  <2>8. ASSUME NEW p \in Processes, cache'[p].time = file.time
        PROVE  \/ cache'[p].items = file.items
               \/ \E x \in Ops : ProcessOf(x) = p /\ op'[x].pc \in Unsaved /\ op'[x].shared
    <3>1. CASE p = "langgraph" /\ cache["langgraph"].time # file.time
      BY <1>1, <3>1 DEF Cached
    <3>2. CASE p # "langgraph" \/ cache["langgraph"].time = file.time
      <4>1. cache'[p] = cache[p]
        BY <1>1, <3>2 DEF Cached, Processes
      <4>2. CASE cache[p].items # file.items
        <5>1. PICK x \in Ops : ProcessOf(x) = p /\ op[x].pc \in Unsaved /\ op[x].shared
          BY <1>5, <2>8, <4>1, <4>2 DEF Clean
        <5>2. x # w
          BY <1>1, <5>1 DEF Unsaved
        <5>3. op'[x] = op[x]
          BY <1>1, <3>2, <5>1, <5>2
        <5>4. QED
          BY <5>1, <5>3
      <4>3. QED
        BY <4>1, <4>2
    <3>3. QED
      BY <3>1, <3>2
  <2>9. ~Behind(w)' /\ ~Followed(w)' /\ ~Followed(w)
    BY <1>1 DEF Behind, Followed, Saved
  <2>10. op'[w].pc \notin Unsaved
    BY <1>1 DEF Unsaved
  <2>11. Clean'
    BY <1>1, <1>2, <1>5, <2>1, <2>2, <2>6, <2>7, <2>8, <2>9, <2>10, CleanStays
  <2>12. QED
    BY <1>1, <2>11 DEF Sound
<1>6. QED
  BY <1>3, <1>4, <1>5 DEF Sound

OneUpdater == \A v, w \in Updaters : op[v].pc # "idle" /\ op[w].pc # "idle" => v = w

LEMMA TrimmedIn ==
  ASSUME NEW S \in SUBSET Entries, NEW items \in Trimmed(S)
  PROVE  items \in SUBSET Entries
  BY DEF Trimmed

LEMMA RepliesKeep ==
  ASSUME ScopeTypeOK, Roles, OneUpdater, Sound, NEW w \in Updaters, ModelReplies(w)
  PROVE  ScopeTypeOK' /\ Sound'
<1>1. PICK items : items \in SUBSET Entries /\ Apply(w, items)
  <2>1. PICK gone \in SUBSET (Content(w) \cap Facts), added \in {{}, New(Facts)} :
           \E i \in Trimmed((Content(w) \ gone) \cup added) : Apply(w, i)
    BY DEF ModelReplies
  <2>2. w \in Ops /\ added \subseteq Facts
    BY Places, NewIn
  <2>3. (Content(w) \ gone) \cup added \in SUBSET Entries
    BY <2>2, ContentTyped DEF Entries
  <2>4. QED
    BY <2>1, <2>3, TrimmedIn
<1>2. FilesSame /\ op[w].pc = "model" /\ w \in Ops
  BY Places DEF ModelReplies, FilesSame
<1>3. /\ op' \in [Ops -> OpType] /\ cache' \in [Processes -> CopyType]
      /\ op'[w].pc = "save" /\ op'[w].kind = op[w].kind /\ op'[w].before = op[w].before
      /\ op'[w].minus = Content(w) \ items /\ op'[w].plus = items \ Content(w)
      /\ op'[w].shared = op[w].shared /\ Content(w)' = items
      /\ cache'["gateway"] = cache["gateway"]
      /\ cache'["langgraph"].time = cache["langgraph"].time
      /\ op[w].shared \/ cache'["langgraph"] = cache["langgraph"]
      /\ \A x \in Ops \ {w} : Frame(x) /\ op'[x] = op[x]
      /\ \A x \in Ops \ {w} : Content(x)' = Content(x) \/ ProcessOf(x) = "langgraph"
  BY <1>1, ApplyDoes
<1>4. ScopeTypeOK'
  BY <1>2, <1>3, TypesAre, TypesGive DEF FilesSame
<1>5. CASE crossed
  BY <1>2, <1>4, <1>5 DEF Sound, FilesSame
<1>6. CASE Colliding
  BY <1>2, <1>3, <1>4, <1>6, KeepColliding DEF Sound, Unsaved
<1>7. CASE \E x \in Ops \ {w} : op[x].pc \in Unsaved
  <2>1. PICK x \in Ops \ {w} : op'[x].pc \in Unsaved
    BY <1>3, <1>7
  <2>2. QED
    BY <1>2, <1>3, <1>4, <2>1 DEF Sound, Colliding, Unsaved
<1>8. CASE Clean /\ \A x \in Ops \ {w} : op[x].pc \notin Unsaved
  <2>1. UNCHANGED <<file, temp, index>>
    BY <1>2 DEF FilesSame
  <2>2. \A x \in Ops : op[x].pc \notin Unsaved
    BY <1>2, <1>8 DEF Unsaved
  <2>3. Asks(w) /\ Content(w) = file.items
    BY <1>2, <1>8, <2>2, Places DEF Clean, Asks
  <2>4. ASSUME NEW x \in Ops \ {w}
        PROVE  \/ Content(x)' = Content(x)
               \/ /\ op[x].pc \notin Unsaved
                  /\ op[x].pc = "model" => op'["rule"].pc \in Unsaved
                  /\ Followed(x) => FactsOf(x)' = FactsOf(x)
    <3>1. CASE ProcessOf(x) = "langgraph"
      <4>1. x = "rule" \/ x \in Updaters
        BY <3>1, Places
      <4>2. CASE x \in Updaters
        <5>1. op[x].pc = "idle"
          BY <1>2, <2>4, <4>2 DEF OneUpdater
        <5>2. QED
          BY <2>2, <5>1 DEF Followed, Saved
      <4>3. CASE x = "rule"
        <5>1. ~Followed(x) /\ (op[x].pc # "idle" => op[x].kind = "rule")
          BY <2>4, <4>3 DEF Followed, Roles, RoleOK, Saved
        <5>2. op[x].pc # "model"
          BY <1>8, <5>1 DEF Clean, Asks
        <5>3. QED
          BY <2>2, <5>1, <5>2
      <4>4. QED
        BY <4>1, <4>2, <4>3
    <3>2. QED
      BY <1>3, <3>1
  <2>5. op["rule"].pc \notin Unsaved
    BY <2>2, Places
  <2>6. \A p \in Processes : cache'[p].time <= file.time
    BY <1>3, <1>8 DEF Clean, Processes
  <2>7. ASSUME NEW p \in Processes, cache'[p].time = file.time
        PROVE  \/ cache'[p].items = file.items
               \/ \E x \in Ops : ProcessOf(x) = p /\ op'[x].pc \in Unsaved /\ op'[x].shared
    <3>1. CASE p = "langgraph" /\ op[w].shared
      <4>1. ProcessOf(w) = p /\ op'[w].pc \in Unsaved /\ op'[w].shared
        BY <1>3, <3>1, Places DEF Unsaved
      <4>2. QED
        BY <1>2, <4>1
    <3>2. CASE p # "langgraph" \/ ~op[w].shared
      <4>1. cache'[p] = cache[p]
        BY <1>3, <3>2 DEF Processes
      <4>2. QED
        BY <1>8, <2>2, <2>7, <4>1 DEF Clean
    <3>3. QED
      BY <3>1, <3>2
  <2>8. Edited(w)'
    <3>1. StoredFacts' = StoredFacts /\ file' = file
      BY <2>1 DEF StoredFacts
    <3>2. op'[w].kind = "update" /\ op'[w].before = StoredFacts
      BY <1>3, <2>3 DEF Asks
    <3>3. Content(w)' = (file.items \ op'[w].minus) \cup op'[w].plus
      BY <1>3, <2>3
    <3>4. QED
      BY <1>3, <3>1, <3>2, <3>3 DEF Edited
  <2>9. ~Behind(w)' /\ ~Followed(w)' /\ ~Followed(w)
    BY <1>2, <1>3 DEF Behind, Followed, Saved
  <2>10. Clean'
    BY <1>2, <1>3, <1>8, <2>1, <2>4, <2>5, <2>6, <2>7, <2>8, <2>9, CleanStays
  <2>11. QED
    BY <1>4, <2>10 DEF Sound
<1>9. QED
  BY <1>5, <1>6, <1>7, <1>8 DEF Sound

LEMMA WriteKeeps ==
  ASSUME ScopeTypeOK, Sound, NEW o \in Ops, WriteTemp(o)
  PROVE  ScopeTypeOK' /\ Sound'
<1>1. PICK r : r = [op[o] EXCEPT !.pc = "replace"]
  OBVIOUS
<1>2. op \in [Ops -> OpType] /\ op[o] \in OpType /\ Content(o) \in SUBSET Entries
  BY TypesAre, ContentTyped
<1>3. /\ r \in OpType /\ r.pc = "replace" /\ r.kind = op[o].kind /\ r.before = op[o].before
      /\ r.minus = op[o].minus /\ r.plus = op[o].plus /\ r.shared = op[o].shared
      /\ r.dict = op[o].dict
  BY <1>1, <1>2 DEF OpType
<1>4. /\ op' = [op EXCEPT ![o] = r] /\ UNCHANGED <<file, index, crossed, cache>>
      /\ op[o].pc = "save" /\ temp' = [full |-> TRUE, items |-> Content(o)]
  BY <1>1, <1>2 DEF WriteTemp
<1>5. /\ op' \in [Ops -> OpType] /\ op'[o] = r
      /\ \A x \in Ops \ {o} : Frame(x) /\ Content(x)' = Content(x)
  BY <1>3, <1>4, OneDoes
<1>6. ScopeTypeOK'
  <2>1. temp' \in [full : BOOLEAN, items : SUBSET Entries]
    BY <1>2, <1>4
  <2>2. QED
    BY <1>4, <1>5, <2>1, TypesAre, TypesGive
<1>7. CASE crossed
  BY <1>4, <1>6, <1>7 DEF Sound
<1>8. CASE Colliding
  BY <1>3, <1>5, <1>6, <1>8, KeepColliding DEF Sound, Unsaved
<1>9. CASE \E x \in Ops \ {o} : op[x].pc \in Unsaved
  <2>1. Colliding
    BY <1>4, <1>9 DEF Colliding, Unsaved
  <2>2. QED
    BY <1>8, <2>1
<1>10. CASE Clean /\ \A x \in Ops \ {o} : op[x].pc \notin Unsaved
  <2>1. \A x \in Ops \ {o} : op[x].pc # "replace"
    BY <1>10 DEF Unsaved
  <2>2. op'["rule"].pc \notin Unsaved => op["rule"].pc \notin Unsaved
    BY <1>3, <1>5, <1>10, Places DEF Unsaved
  <2>3. \A p \in Processes : cache'[p].time <= file.time
    BY <1>4, <1>10 DEF Clean
  <2>4. ASSUME NEW p \in Processes, cache'[p].time = file.time
        PROVE  \/ cache'[p].items = file.items
               \/ \E x \in Ops : ProcessOf(x) = p /\ op'[x].pc \in Unsaved /\ op'[x].shared
    <3>1. CASE cache[p].items # file.items
      <4>1. PICK x \in Ops : ProcessOf(x) = p /\ op[x].pc \in Unsaved /\ op[x].shared
        BY <1>4, <1>10, <2>4, <3>1 DEF Clean
      <4>2. x = o
        BY <1>10, <4>1
      <4>3. QED
        BY <1>3, <1>5, <4>1, <4>2 DEF Unsaved
    <3>2. QED
      BY <1>4, <3>1
  <2>5. Edited(o)'
    <3>1. Edited(o)
      BY <1>4, <1>10 DEF Clean, Unsaved
    <3>2. Content(o)' = Content(o) /\ StoredFacts' = StoredFacts /\ file' = file
      BY <1>3, <1>4, <1>5 DEF Content, StoredFacts
    <3>3. QED
      BY <1>3, <1>4, <1>5, <3>1, <3>2 DEF Edited
  <2>6. /\ ~Behind(o)' /\ ~Followed(o)' /\ ~Followed(o)
        /\ op'[o].pc \notin {"model", "stat", "index"}
    BY <1>3, <1>4, <1>5 DEF Behind, Followed, Saved
  <2>7. (\A x \in Ops : ~Followed(x)') => index' = StoredFacts
    <3>1. SUFFICES ASSUME \A x \in Ops : ~Followed(x)' PROVE index = StoredFacts
      BY <1>4
    <3>2. \A x \in Ops : ~Followed(x)
      BY <1>5, <2>6, <3>1, BehindStays
    <3>3. QED
      BY <1>10, <3>2 DEF Clean
  <2>8. Clean'
    BY <1>4, <1>5, <1>10, <2>1, <2>2, <2>3, <2>4, <2>5, <2>6, <2>7, CleanStep
  <2>9. QED
    BY <1>6, <2>8 DEF Sound
<1>11. QED
  BY <1>7, <1>8, <1>9, <1>10 DEF Sound

LEMMA AfterFailureTyped ==
  ASSUME ScopeTypeOK, NEW o \in Ops
  PROVE  AfterFailure(o) \in OpType
<1>1. op[o] \in OpType /\ Idle \in OpType
  BY TypesAre DEF Idle, OpType
<1>2. [op[o] EXCEPT !.pc = "index", !.ok = FALSE] \in OpType
  BY <1>1 DEF OpType
<1>3. QED
  BY <1>1, <1>2 DEF AfterFailure

\* What is left half done is excused from then on: only the types are at stake.
LEMMA ApplyFailsKeeps ==
  ASSUME ScopeTypeOK, NEW w \in Updaters, ApplyFails(w)
  PROVE  ScopeTypeOK' /\ Sound'
<1>1. PICK gone \in SUBSET (Content(w) \cap Facts), added \in {{}, New(Facts)} :
         cache' = [cache EXCEPT !["langgraph"].items = (Content(w) \ gone) \cup added]
  BY DEF ApplyFails
<1>2. PICK items : items = (Content(w) \ gone) \cup added
  OBVIOUS
<1>3. items \in SUBSET Entries
  BY <1>1, <1>2, ContentTyped, NewIn, Places DEF Entries
<1>4. cache' = [cache EXCEPT !["langgraph"].items = items]
  BY <1>1, <1>2
<1>5. cache' \in [Processes -> CopyType]
  BY <1>3, <1>4, TypesAre DEF Processes, CopyType
<1>6. op' \in [Ops -> OpType]
  BY TypesAre DEF ApplyFails, Idle, OpType
<1>7. UNCHANGED <<file, temp, index>> /\ crossed' = TRUE
  BY DEF ApplyFails
<1>8. ScopeTypeOK'
  BY <1>5, <1>6, <1>7, TypesAre, TypesGive
<1>9. QED
  BY <1>7, <1>8 DEF Sound

LEMMA IndexFailsKeeps ==
  ASSUME ScopeTypeOK, NEW o \in Ops, IndexFails(o)
  PROVE  ScopeTypeOK' /\ Sound'
<1>1. PICK stale : stale = Outdated(o)
  OBVIOUS
<1>2. index' \subseteq Facts
  <2>1. index' \in IF op[o].kind \in {"update", "forget", "redact"} THEN {index, index \ stale}
                  ELSE {index}
    BY <1>1 DEF IndexFails
  <2>2. QED
    BY <2>1, TypesAre
<1>3. op' \in [Ops -> OpType]
  BY TypesAre DEF IndexFails, Idle, OpType
<1>4. UNCHANGED <<file, temp, cache>> /\ crossed' = TRUE
  BY DEF IndexFails
<1>5. ScopeTypeOK'
  BY <1>2, <1>3, <1>4, TypesAre, TypesGive
<1>6. QED
  BY <1>4, <1>5 DEF Sound

LEMMA WriteFailsKeeps ==
  ASSUME ScopeTypeOK, NEW o \in Ops, WriteFails(o)
  PROVE  ScopeTypeOK' /\ Sound'
<1>1. PICK r \in OpType : r = AfterFailure(o)
  BY AfterFailureTyped
<1>2. op' = [op EXCEPT ![o] = r] /\ UNCHANGED <<file, temp, index, cache>> /\ crossed' = TRUE
  BY <1>1 DEF WriteFails
<1>3. QED
  BY <1>2, TypesAre, TypesGive DEF Sound

\* With one updater at work, a save that nobody meets is that of the only operation.
LEMMA MeetsNobody ==
  ASSUME OneUpdater, NEW o \in Ops, op[o].pc # "idle", ~Meets(o)
  PROVE  \A x \in Ops \ {o} : op[x].pc = "idle"
  BY DEF Meets, OneUpdater

ReplaceType(o) ==
  /\ file' = [items |-> temp.items, time |-> file.time + 1]
  /\ op'[o].pc = IF op[o].kind = "redact" THEN "index" ELSE "load"
  /\ op'[o].kind = op[o].kind /\ op'[o].before = op[o].before /\ op'[o].minus = op[o].minus
  /\ op'[o].plus = op[o].plus /\ Content(o)' = Content(o)
  /\ \A x \in Ops \ {o} : op'[x] = op[x]
  /\ crossed' = (crossed \/ Meets(o))

LEMMA ReplaceDoes ==
  ASSUME ScopeTypeOK, NEW o \in Ops, Replace(o)
  PROVE  /\ ScopeTypeOK' /\ UNCHANGED <<index, cache>> /\ op[o].pc = "replace"
         /\ IF temp.full THEN ReplaceType(o) ELSE crossed' /\ UNCHANGED file
<1>1. op \in [Ops -> OpType] /\ op[o] \in OpType /\ op[o].pc = "replace"
      /\ UNCHANGED <<index, cache>>
  BY TypesAre DEF Replace
<1>2. CASE temp.full
  <2>1. PICK r : r = [op[o] EXCEPT !.pc = IF op[o].kind = "redact" THEN "index" ELSE "load"]
    OBVIOUS
  <2>2. r \in OpType
    BY <1>1, <2>1 DEF OpType
  <2>3. /\ r.pc = IF op[o].kind = "redact" THEN "index" ELSE "load"
        /\ r.kind = op[o].kind /\ r.before = op[o].before /\ r.minus = op[o].minus
        /\ r.plus = op[o].plus /\ r.shared = op[o].shared /\ r.dict = op[o].dict
    BY <1>1, <2>1 DEF OpType
  <2>4. /\ file' = [items |-> temp.items, time |-> file.time + 1] /\ temp' = NoTemp
        /\ op' = [op EXCEPT ![o] = r] /\ crossed' = (crossed \/ Meets(o))
    BY <1>1, <1>2, <2>1 DEF Replace
  <2>5. /\ op' \in [Ops -> OpType] /\ op'[o] = r /\ \A x \in Ops \ {o} : op'[x] = op[x]
    BY <1>1, <2>2, <2>4
  <2>6. file' \in CopyType /\ temp' \in [full : BOOLEAN, items : SUBSET Entries]
    BY <2>4, TypesAre DEF CopyType, NoTemp
  <2>7. crossed' \in BOOLEAN
    BY <2>4, TypesAre
  <2>8. ScopeTypeOK'
    BY <1>1, <2>5, <2>6, <2>7, TypesAre, TypesGive
  <2>9. Content(o)' = Content(o)
    BY <1>1, <2>3, <2>5 DEF Content
  <2>10. QED
    BY <1>1, <1>2, <2>3, <2>4, <2>5, <2>8, <2>9 DEF ReplaceType
<1>3. CASE ~temp.full
  <2>1. PICK r \in OpType : r = AfterFailure(o)
    BY AfterFailureTyped
  <2>2. /\ op' = [op EXCEPT ![o] = r] /\ crossed' = TRUE /\ UNCHANGED <<file, temp>>
    BY <1>3, <2>1 DEF Replace
  <2>3. ScopeTypeOK'
    BY <1>1, <2>2, TypesAre, TypesGive
  <2>4. QED
    BY <1>1, <1>3, <2>2, <2>3
<1>4. QED
  BY <1>2, <1>3

\* A save that met nobody is of a sound state, and stores what was edited.
LEMMA ReplaceStores ==
  ASSUME ScopeTypeOK, OneUpdater, Sound, NEW o \in Ops, Replace(o), ~crossed'
  PROVE  /\ Clean /\ Edited(o) /\ ReplaceType(o) /\ \A x \in Ops \ {o} : op[x].pc = "idle"
         /\ file'.items = Content(o)
<1>1. op[o].pc = "replace" /\ IF temp.full THEN ReplaceType(o) ELSE crossed'
  BY ReplaceDoes
<1>2. ReplaceType(o) /\ ~crossed /\ ~Meets(o)
  BY <1>1 DEF ReplaceType
<1>3. \A x \in Ops \ {o} : op[x].pc = "idle"
  BY <1>1, <1>2, MeetsNobody
<1>4. ~Colliding
  BY <1>3 DEF Colliding, Unsaved
<1>5. Clean /\ Edited(o)
  BY <1>1, <1>2, <1>4 DEF Sound, Clean, Unsaved
<1>6. temp.items = Content(o)
  BY <1>1, <1>5 DEF Edited
<1>7. QED
  BY <1>2, <1>3, <1>5, <1>6 DEF ReplaceType

LEMMA ReplaceKeeps ==
  ASSUME ScopeTypeOK, Roles, OneUpdater, Sound, NEW o \in Ops, Replace(o)
  PROVE  ScopeTypeOK' /\ Sound'
<1>1. ScopeTypeOK' /\ UNCHANGED <<index, cache>> /\ op[o].pc = "replace"
  BY ReplaceDoes
<1>2. CASE crossed'
  BY <1>1, <1>2 DEF Sound
<1>3. CASE ~crossed'
  <2>1. /\ Clean /\ Edited(o) /\ ReplaceType(o)
        /\ \A x \in Ops \ {o} : op[x].pc = "idle"
        /\ file'.items = Content(o)
    BY <1>3, ReplaceStores
  <2>2. /\ file'.time = file.time + 1
        /\ op'[o].pc = IF op[o].kind = "redact" THEN "index" ELSE "load"
        /\ op'[o].kind = op[o].kind /\ op'[o].before = op[o].before
        /\ op'[o].minus = op[o].minus /\ op'[o].plus = op[o].plus
        /\ Content(o)' = Content(o)
        /\ \A x \in Ops \ {o} : op'[x].pc = "idle"
    BY <2>1 DEF ReplaceType
  <2>3. \A p \in Processes : cache'[p].time <= file'.time /\ cache'[p].time # file'.time
    <3>1. \A p \in Processes : cache[p].time \in Nat /\ file.time \in Nat
                               /\ cache[p].time <= file.time
      BY <2>1, TypesAre DEF CopyType, Clean
    <3>2. QED
      BY <1>1, <2>2, <3>1
  <2>4. \A x \in Ops : op'[x].pc \notin Unsaved \cup {"model", "stat"}
    BY <2>2 DEF Unsaved
  <2>5. index = StoredFacts
    <3>1. \A x \in Ops : ~Followed(x)
      BY <1>1, <2>1 DEF Followed, Saved
    <3>2. QED
      BY <2>1, <3>1 DEF Clean
  <2>6. FactsOf(o)' = StoredFacts' /\ StoredFacts' = Content(o) \cap Facts
    BY <2>1, <2>2 DEF FactsOf, StoredFacts
  <2>7. /\ Content(o) = (file.items \ op[o].minus) \cup op[o].plus
        /\ CASE op[o].kind = "rule"   -> op[o].minus = {} /\ op[o].plus \subseteq Rules
             [] op[o].kind \in {"delete", "forget", "redact"} -> op[o].plus = {}
             [] op[o].kind = "upsert" -> op[o].minus = {}
             [] op[o].kind = "clear"  -> op[o].minus = Entries /\ op[o].plus = {}
             [] op[o].kind = "update" -> op[o].before = StoredFacts
             [] OTHER -> FALSE
    BY <2>1 DEF Edited
  <2>8. op[o].kind = "rule" => StoredFacts' = StoredFacts
    BY <2>6, <2>7, MemoryBounds DEF StoredFacts
  <2>9. op[o].kind \in {"rule", "delete", "forget", "redact", "upsert", "clear", "update"}
    BY <2>7
  <2>10. ASSUME op[o].kind # "rule" PROVE Indexes(o)'
    <3>1. index' = StoredFacts /\ file.items \subseteq Entries /\ op'[o].kind = op[o].kind
          /\ op[o].plus \subseteq Entries
      BY <1>1, <2>2, <2>5, TypesAre DEF CopyType, OpType
    <3>2. CASE op[o].kind = "delete"
      <4>1. index' \ op'[o].minus = StoredFacts'
        BY <2>2, <2>6, <2>7, <3>1, <3>2 DEF StoredFacts
      <4>2. QED
        BY <2>6, <3>1, <3>2, <4>1 DEF Indexes
    <3>3. CASE op[o].kind \in {"forget", "redact"}
      <4>1. index' \ op'[o].minus \subseteq StoredFacts'
        BY <2>2, <2>6, <2>7, <3>1, <3>3 DEF StoredFacts
      <4>2. QED
        BY <2>6, <3>1, <3>3, <4>1 DEF Indexes
    <3>4. CASE op[o].kind = "upsert"
      <4>1. op[o].plus \subseteq Facts
        BY <1>1, <3>4 DEF Roles, RoleOK
      <4>2. index' \cup op'[o].plus = StoredFacts'
        BY <2>2, <2>6, <2>7, <3>1, <3>4, <4>1 DEF StoredFacts
      <4>3. QED
        BY <2>6, <3>1, <3>4, <4>2 DEF Indexes
    <3>5. CASE op[o].kind = "clear"
      <4>1. StoredFacts' = {}
        BY <2>6, <2>7, <3>1, <3>5
      <4>2. QED
        BY <2>6, <3>1, <3>5, <4>1 DEF Indexes
    <3>6. CASE op[o].kind = "update"
      <4>1. index' \subseteq op'[o].before \cup StoredFacts'
        BY <2>2, <2>7, <3>1, <3>6
      <4>2. QED
        BY <2>6, <3>1, <3>6, <4>1 DEF Indexes
    <3>7. QED
      BY <2>9, <2>10, <3>2, <3>3, <3>4, <3>5, <3>6
  <2>11. \A x \in Ops : Followed(x)' \/ Behind(x)' => x = o
    BY <2>2 DEF Followed, Behind, Saved
  <2>12. Followed(o)' => Indexes(o)'
    BY <2>2, <2>10 DEF Followed
  <2>13. ~Followed(o)' => index' = StoredFacts'
    <3>1. op[o].kind # "rule" => Followed(o)'
      BY <2>2, <2>9 DEF Followed, Saved
    <3>2. QED
      BY <1>1, <2>5, <2>8, <3>1
  <2>14. \A x \in Ops : op'[x].pc = "index" => op'[x].kind \notin {"rule", "reload"}
    BY <2>2
  <2>15. Clean'
    BY <2>3, <2>4, <2>11, <2>12, <2>13, <2>14 DEF Clean
  <2>16. QED
    BY <1>1, <2>15 DEF Sound
<1>4. QED
  BY <1>2, <1>3

LEMMA IndexKeeps ==
  ASSUME ScopeTypeOK, Roles, Sound, NEW o \in Ops, Index(o)
  PROVE  ScopeTypeOK' /\ Sound'
<1>1. PICK facts : facts = Content(o) \cap Facts
  OBVIOUS
<1>2. PICK gone : /\ gone = Outdated(o)
                  /\ gone = IF op[o].kind = "update" THEN op[o].before \ facts ELSE op[o].minus
  BY <1>1 DEF Outdated
<1>3. /\ op[o].pc = "index" /\ UNCHANGED <<file, temp, cache, crossed>>
      /\ op' = [op EXCEPT ![o] = Idle]
      /\ index' = CASE op[o].kind = "delete" -> index \ gone
                    [] op[o].kind = "upsert" -> index \cup op[o].plus
                    [] op[o].kind = "clear"  -> {}
                    [] OTHER -> (index \ gone) \cup facts
  BY <1>1, <1>2 DEF Index
<1>4. Idle \in OpType /\ Idle.pc = "idle"
  BY DEF Idle, OpType
<1>5. /\ op' \in [Ops -> OpType] /\ op'[o] = Idle
      /\ \A x \in Ops \ {o} : Frame(x) /\ Content(x)' = Content(x)
  BY <1>3, <1>4, OneDoes
<1>6. index' \subseteq Facts
  <2>1. index \subseteq Facts /\ facts \subseteq Facts
    BY <1>1, TypesAre
  <2>2. op[o].kind = "upsert" => op[o].plus \subseteq Facts
    BY <1>3 DEF Roles, RoleOK
  <2>3. QED
    BY <1>3, <2>1, <2>2
<1>7. ScopeTypeOK'
  BY <1>3, <1>5, <1>6, TypesAre, TypesGive
<1>8. CASE crossed
  BY <1>3, <1>7, <1>8 DEF Sound
<1>9. CASE Colliding
  BY <1>3, <1>5, <1>7, <1>9, KeepColliding DEF Sound, Unsaved
<1>10. CASE Clean
  <2>1. Indexes(o) /\ Followed(o) /\ Behind(o)
    BY <1>3, <1>10 DEF Clean, Followed, Behind, Saved
  <2>2. index' = StoredFacts
    <3>1. facts = StoredFacts
      BY <1>1, <2>1 DEF Indexes, FactsOf
    <3>2. CASE op[o].kind = "delete"
      BY <1>2, <1>3, <2>1, <3>2 DEF Indexes
    <3>3. CASE op[o].kind = "upsert"
      BY <1>3, <2>1, <3>3 DEF Indexes
    <3>4. CASE op[o].kind = "clear"
      BY <1>3, <2>1, <3>4 DEF Indexes
    <3>5. CASE op[o].kind = "update"
      <4>1. index' = (index \ (op[o].before \ StoredFacts)) \cup StoredFacts
        BY <1>2, <1>3, <3>1, <3>5
      <4>2. index \subseteq op[o].before \cup StoredFacts
        BY <2>1, <3>5 DEF Indexes
      <4>3. QED
        BY <4>1, <4>2
    <3>6. CASE op[o].kind \in {"forget", "redact"}
      <4>1. index' = (index \ op[o].minus) \cup StoredFacts
        BY <1>2, <1>3, <3>1, <3>6
      <4>2. index \ op[o].minus \subseteq StoredFacts
        BY <2>1, <3>6 DEF Indexes
      <4>3. QED
        BY <4>1, <4>2
    <3>7. QED
      BY <2>1, <3>2, <3>3, <3>4, <3>5, <3>6 DEF Indexes
  <2>3. \A x \in Ops \ {o} : ~Followed(x)
    BY <1>10, <2>1 DEF Clean, Followed, Behind
  <2>4. op'["rule"].pc \notin Unsaved => op["rule"].pc \notin Unsaved
    BY <1>3, <1>5, Places DEF Frame, Unsaved
  <2>5. \A p \in Processes : cache'[p].time <= file.time
    BY <1>3, <1>10 DEF Clean
  <2>6. ASSUME NEW p \in Processes, cache'[p].time = file.time
        PROVE  \/ cache'[p].items = file.items
               \/ \E x \in Ops : ProcessOf(x) = p /\ op'[x].pc \in Unsaved /\ op'[x].shared
    <3>1. CASE cache[p].items # file.items
      <4>1. PICK x \in Ops : ProcessOf(x) = p /\ op[x].pc \in Unsaved /\ op[x].shared
        BY <1>3, <1>10, <2>6, <3>1 DEF Clean
      <4>2. op'[x] = op[x]
        <5>1. x # o /\ op \in [Ops -> OpType]
          BY <1>3, <4>1, TypesAre DEF Unsaved
        <5>2. QED
          BY <1>3, <5>1
      <4>3. QED
        BY <4>1, <4>2
    <3>2. QED
      BY <1>3, <3>1
  <2>7. ~Behind(o)' /\ ~Followed(o)' /\ op'[o].pc \notin Unsaved \cup {"model", "stat", "index"}
    BY <1>4, <1>5 DEF Behind, Followed, Saved, Unsaved
  <2>8. Clean'
    BY <1>3, <1>5, <1>10, <2>2, <2>3, <2>4, <2>5, <2>6, <2>7, CleanStep
  <2>9. QED
    BY <1>7, <2>8 DEF Sound
<1>11. QED
  BY <1>8, <1>9, <1>10 DEF Sound

-----------------------------------------------------------------------------
(* What each operation is: a rule, an edit of the gateway, an update.        *)
LEMMA RolesStay ==
  ASSUME Roles, NEW o \in Ops, \A x \in Ops \ {o} : Frame(x), RoleOK(o)'
  PROVE  Roles'
<1>1. ASSUME NEW x \in Ops \ {o} PROVE RoleOK(x)'
  BY <1>1 DEF Roles, RoleOK, Frame
<1>2. QED
  BY <1>1 DEF Roles

\* An updater that is at work was so before, unless it is w that begins.
AtWorkBefore == \A v \in Updaters : op'[v].pc # "idle" => op[v].pc # "idle"

LEMMA OneRole ==
  ASSUME ScopeTypeOK, Roles, NEW o \in Ops, NEW r \in OpType, op' = [op EXCEPT ![o] = r],
         r.pc # "idle" => \/ /\ op[o].pc # "idle" /\ r.kind = op[o].kind
                             /\ r.plus = op[o].plus
                          \/ o = "gateway" /\ r.kind \in {"clear", "redact", "reload"}
  PROVE  Roles' /\ AtWorkBefore
<1>1. op'[o] = r /\ \A x \in Ops \ {o} : op'[x] = op[x]
  BY TypesAre
<1>2. \A x \in Ops \ {o} : Frame(x)
  BY <1>1 DEF Frame
<1>3. RoleOK(o)'
  BY <1>1, MemoryBounds DEF Roles, RoleOK
<1>4. Roles'
  BY <1>2, <1>3, RolesStay
<1>5. AtWorkBefore
  <2>1. o = "gateway" => o \notin Updaters
    BY Places
  <2>2. QED
    BY <1>1, <2>1, Places DEF AtWorkBefore
<1>6. QED
  BY <1>4, <1>5

LEMMA EditRole ==
  ASSUME ScopeTypeOK, Roles, NEW o \in Ops, NEW kind \in Kinds, NEW minus \in SUBSET Entries,
         NEW plus \in SUBSET Entries, Edit(o, kind, minus, plus),
         \/ o = "rule" /\ kind = "rule"
         \/ o = "gateway" /\ kind \in {"delete", "forget"}
         \/ o = "gateway" /\ kind = "upsert" /\ plus \subseteq Facts
  PROVE  Roles' /\ AtWorkBefore
<1>1. EditEffect(o, kind, minus, plus)
  BY EditDoes
<1>2. op'[o].kind = kind /\ op'[o].plus = plus /\ \A x \in Ops \ {o} : Frame(x)
  BY <1>1 DEF EditEffect
<1>3. o \notin Updaters /\ \A v \in Updaters : v \in Ops \ {o}
  BY Places
<1>4. RoleOK(o)'
  BY <1>2, <1>3 DEF RoleOK
<1>5. AtWorkBefore
  BY <1>2, <1>3 DEF AtWorkBefore, Frame
<1>6. QED
  BY <1>2, <1>4, <1>5, RolesStay

LEMMA EditsRole ==
  ASSUME ScopeTypeOK, Roles, AddBehaviorRule \/ DeleteFact \/ ForgetThread \/ UpsertFact
  PROVE  Roles' /\ AtWorkBefore
<1>1. CASE AddBehaviorRule
  <2>1. Edit("rule", "rule", {}, New(Rules))
    BY <1>1 DEF AddBehaviorRule
  <2>2. New(Rules) \in SUBSET Entries /\ "rule" \in Kinds
    BY NewIn DEF Entries, Kinds
  <2>3. QED
    BY <2>1, <2>2, EditRole, Places
<1>2. CASE DeleteFact
  <2>1. PICK f \in Facts : Edit("gateway", "delete", {f}, {})
    BY <1>2 DEF DeleteFact
  <2>2. {f} \in SUBSET Entries /\ "delete" \in Kinds
    BY DEF Entries, Kinds
  <2>3. QED
    BY <2>1, <2>2, EditRole, Places
<1>3. CASE ForgetThread
  <2>1. PICK gone \in SUBSET Facts : Edit("gateway", "forget", gone, {})
    BY <1>3 DEF ForgetThread
  <2>2. gone \in SUBSET Entries /\ "forget" \in Kinds
    BY DEF Entries, Kinds
  <2>3. QED
    BY <2>1, <2>2, EditRole, Places
<1>4. CASE UpsertFact
  <2>1. Edit("gateway", "upsert", {}, New(Facts))
    BY <1>4 DEF UpsertFact
  <2>2. New(Facts) \in SUBSET Entries /\ "upsert" \in Kinds /\ New(Facts) \subseteq Facts
    BY NewIn DEF Entries, Kinds
  <2>3. QED
    BY <2>1, <2>2, EditRole, Places
<1>5. QED
  BY <1>1, <1>2, <1>3, <1>4

LEMMA GatewayRole ==
  ASSUME ScopeTypeOK, Roles, ClearMemory \/ RedactMemory \/ ReloadMemory
  PROVE  Roles' /\ AtWorkBefore
<1>1. "gateway" \in Ops
  BY Places
<1>2. CASE ClearMemory
  <2>1. PICK r : r = [Idle EXCEPT !.pc = "save", !.kind = "clear", !.minus = Entries]
    OBVIOUS
  <2>2. r \in OpType /\ r.kind = "clear"
    BY <2>1 DEF Idle, OpType, Kinds
  <2>3. op' = [op EXCEPT !["gateway"] = r]
    BY <1>2, <2>1 DEF ClearMemory
  <2>4. QED
    BY <1>1, <2>2, <2>3, OneRole
<1>3. CASE RedactMemory
  <2>1. PICK gone \in SUBSET (file.items \cap Facts) :
           op' = [op EXCEPT !["gateway"] = [Idle EXCEPT !.pc = "save", !.kind = "redact",
                                              !.dict = file.items \ gone, !.minus = gone]]
    BY <1>3 DEF RedactMemory
  <2>2. PICK r : r = [Idle EXCEPT !.pc = "save", !.kind = "redact",
                                  !.dict = file.items \ gone, !.minus = gone]
    OBVIOUS
  <2>3. file.items \in SUBSET Entries /\ gone \in SUBSET Entries
    BY TypesAre DEF CopyType, Entries
  <2>4. r \in OpType /\ r.kind = "redact"
    BY <2>2, <2>3 DEF Idle, OpType, Kinds
  <2>5. QED
    BY <1>1, <2>1, <2>2, <2>4, OneRole
<1>4. CASE ReloadMemory
  <2>1. PICK r : r = [Idle EXCEPT !.pc = "load", !.kind = "reload"]
    OBVIOUS
  <2>2. r \in OpType /\ r.kind = "reload"
    BY <2>1 DEF Idle, OpType, Kinds
  <2>3. op' = [op EXCEPT !["gateway"] = r]
    BY <1>4, <2>1 DEF ReloadMemory
  <2>4. QED
    BY <1>1, <2>2, <2>3, OneRole
<1>5. QED
  BY <1>2, <1>3, <1>4

LEMMA ModelRole ==
  ASSUME ScopeTypeOK, Roles, NEW w \in Updaters,
         ModelReplies(w) \/ ModelFails(w) \/ ApplyFails(w)
  PROVE  Roles' /\ AtWorkBefore
<1>1. w \in Ops /\ op[w].pc = "model"
  BY Places DEF ModelReplies, ModelFails, ApplyFails
<1>2. CASE ModelFails(w) \/ ApplyFails(w)
  <2>1. Idle \in OpType /\ Idle.pc = "idle" /\ op' = [op EXCEPT ![w] = Idle]
    BY <1>2 DEF Idle, OpType, ModelFails, ApplyFails
  <2>2. QED
    BY <1>1, <2>1, OneRole
<1>3. CASE ModelReplies(w)
  <2>1. PICK items : items \in SUBSET Entries /\ Apply(w, items)
    <3>1. PICK gone \in SUBSET (Content(w) \cap Facts), added \in {{}, New(Facts)} :
             \E i \in Trimmed((Content(w) \ gone) \cup added) : Apply(w, i)
      BY <1>3 DEF ModelReplies
    <3>2. (Content(w) \ gone) \cup added \in SUBSET Entries
      BY <1>1, ContentTyped, NewIn DEF Entries
    <3>3. QED
      BY <3>1, <3>2, TrimmedIn
  <2>2. op'[w].kind = op[w].kind /\ \A x \in Ops \ {w} : Frame(x)
    BY <2>1, ApplyDoes
  <2>3. op[w].kind = "update"
    BY <1>1 DEF Roles, RoleOK
  <2>4. RoleOK(w)'
    BY <2>2, <2>3, Places DEF RoleOK
  <2>5. AtWorkBefore
    BY <1>1, <2>2, Places DEF AtWorkBefore, Frame
  <2>6. QED
    BY <1>1, <2>2, <2>4, <2>5, RolesStay
<1>4. QED
  BY <1>2, <1>3

LEMMA SaveRole ==
  ASSUME ScopeTypeOK, Roles, NEW o \in Ops, Save(o) \/ WriteFails(o) \/ IndexFails(o)
  PROVE  Roles' /\ AtWorkBefore
<1>1. op[o] \in OpType /\ op[o].pc # "idle" /\ Idle \in OpType /\ Idle.pc = "idle"
  <2>1. op[o].pc # "idle"
    BY DEF Save, WriteTemp, Replace, Load, Stat, Index, WriteFails, IndexFails
  <2>2. QED
    BY <2>1, TypesAre DEF Idle, OpType
<1>2. CASE WriteTemp(o)
  <2>1. PICK r : r = [op[o] EXCEPT !.pc = "replace"]
    OBVIOUS
  <2>2. r \in OpType /\ r.kind = op[o].kind /\ r.plus = op[o].plus
    BY <1>1, <2>1 DEF OpType
  <2>3. op' = [op EXCEPT ![o] = r]
    BY <1>2, <2>1, TypesAre DEF WriteTemp
  <2>4. QED
    BY <1>1, <2>2, <2>3, OneRole
<1>3. PICK f : f = AfterFailure(o)
  OBVIOUS
<1>4. /\ f \in OpType
      /\ f.pc # "idle" => f.kind = op[o].kind /\ f.plus = op[o].plus
  <2>1. f \in OpType
    BY <1>3, AfterFailureTyped
  <2>2. CASE f = Idle
    BY <1>1, <2>1, <2>2
  <2>3. CASE f = [op[o] EXCEPT !.pc = "index", !.ok = FALSE]
    BY <1>1, <2>1, <2>3 DEF OpType
  <2>4. QED
    BY <1>3, <2>2, <2>3 DEF AfterFailure
<1>5. CASE WriteFails(o)
  <2>1. op' = [op EXCEPT ![o] = f]
    BY <1>3, <1>5 DEF WriteFails
  <2>2. QED
    BY <1>1, <1>4, <2>1, OneRole
<1>6. CASE Replace(o)
  <2>1. CASE temp.full
    <3>1. PICK r : r = [op[o] EXCEPT !.pc = IF op[o].kind = "redact" THEN "index" ELSE "load"]
      OBVIOUS
    <3>2. r \in OpType /\ r.kind = op[o].kind /\ r.plus = op[o].plus
      BY <1>1, <3>1 DEF OpType
    <3>3. op' = [op EXCEPT ![o] = r]
      BY <1>6, <2>1, <3>1, TypesAre DEF Replace
    <3>4. QED
      BY <1>1, <3>2, <3>3, OneRole
  <2>2. CASE ~temp.full
    <3>1. op' = [op EXCEPT ![o] = f]
      BY <1>3, <1>6, <2>2 DEF Replace
    <3>2. QED
      BY <1>1, <1>4, <3>1, OneRole
  <2>3. QED
    BY <2>1, <2>2
<1>7. CASE Load(o)
  <2>1. PICK r : r = [op[o] EXCEPT !.pc = "stat", !.loaded = file.items]
    OBVIOUS
  <2>2. r \in OpType /\ r.kind = op[o].kind /\ r.plus = op[o].plus
    BY <1>1, <2>1, TypesAre DEF OpType, CopyType
  <2>3. op' = [op EXCEPT ![o] = r]
    BY <1>7, <2>1, TypesAre DEF Load
  <2>4. QED
    BY <1>1, <2>2, <2>3, OneRole
<1>8. CASE Stat(o)
  <2>1. /\ IF op[o].kind \in {"rule", "reload"} THEN op'[o].pc = "idle"
           ELSE op'[o].kind = op[o].kind /\ op'[o].plus = op[o].plus
        /\ \A x \in Ops \ {o} : Frame(x)
    BY <1>8, StatDoes
  <2>2. RoleOK(o)'
    BY <1>1, <2>1 DEF Roles, RoleOK
  <2>3. AtWorkBefore
    BY <1>1, <2>1, Places DEF AtWorkBefore, Frame
  <2>4. QED
    BY <2>1, <2>2, <2>3, RolesStay
<1>9. CASE Index(o) \/ IndexFails(o)
  <2>1. op' = [op EXCEPT ![o] = Idle]
    BY <1>9 DEF Index, IndexFails
  <2>2. QED
    BY <1>1, <2>1, OneRole
<1>10. QED
  BY <1>2, <1>5, <1>6, <1>7, <1>8, <1>9 DEF Save

LEMMA BeginRole ==
  ASSUME ScopeTypeOK, Roles, NEW w \in Updaters, BeginUpdate(w)
  PROVE  Roles' /\ \A v \in Updaters \ {w} : op'[v].pc # "idle" => op[v].pc # "idle"
<1>1. op'[w].kind = "update" /\ \A x \in Ops \ {w} : Frame(x)
  BY BeginDoes
<1>2. RoleOK(w)' /\ w \in Ops
  BY <1>1, Places DEF RoleOK
<1>3. QED
  BY <1>1, <1>2, Places, RolesStay DEF Frame

\* Every step on the scope keeps what is known of it.
LEMMA ScopeKeeps ==
  ASSUME ScopeTypeOK, Roles, OneUpdater, Sound, ScopeNext
  PROVE  ScopeTypeOK' /\ Roles' /\ Sound' /\ AtWorkBefore
<1>1. CASE AddBehaviorRule \/ DeleteFact \/ ForgetThread \/ UpsertFact
  BY <1>1, EditsKeep, EditsRole
<1>2. CASE ClearMemory
  BY <1>2, ClearKeeps, GatewayRole
<1>3. CASE RedactMemory
  BY <1>3, RedactKeeps, GatewayRole
<1>4. CASE ReloadMemory
  BY <1>4, ReloadKeeps, GatewayRole
<1>5. CASE \E w \in Updaters : ModelReplies(w) \/ ModelFails(w) \/ ApplyFails(w)
  <2>1. PICK w \in Updaters : ModelReplies(w) \/ ModelFails(w) \/ ApplyFails(w)
    BY <1>5
  <2>2. CASE ModelReplies(w)
    BY <2>2, RepliesKeep, ModelRole
  <2>3. CASE ModelFails(w)
    BY <2>3, FailsKeeps, ModelRole
  <2>4. CASE ApplyFails(w)
    BY <2>4, ApplyFailsKeeps, ModelRole
  <2>5. QED
    BY <2>1, <2>2, <2>3, <2>4
<1>6. CASE \E o \in Ops : Save(o) \/ WriteFails(o) \/ IndexFails(o)
  <2>1. PICK o \in Ops : Save(o) \/ WriteFails(o) \/ IndexFails(o)
    BY <1>6
  <2>2. Roles' /\ AtWorkBefore
    BY <2>1, SaveRole
  <2>3. ScopeTypeOK' /\ Sound'
    <3>1. CASE WriteFails(o)
      BY <3>1, WriteFailsKeeps
    <3>2. CASE WriteTemp(o)
      BY <3>2, WriteKeeps
    <3>3. CASE Replace(o)
      BY <3>3, ReplaceKeeps
    <3>4. CASE Load(o)
      BY <3>4, LoadKeeps
    <3>5. CASE Stat(o)
      BY <3>5, StatKeeps
    <3>6. CASE Index(o)
      BY <3>6, IndexKeeps
    <3>7. CASE IndexFails(o)
      BY <3>7, IndexFailsKeeps
    <3>8. QED
      BY <2>1, <3>1, <3>2, <3>3, <3>4, <3>5, <3>6, <3>7 DEF Save
  <2>4. QED
    BY <2>2, <2>3
<1>7. QED
  BY <1>1, <1>2, <1>3, <1>4, <1>5, <1>6 DEF ScopeNext

-----------------------------------------------------------------------------
(* Recursion along a sequence.                                               *)
\* A set of numbers with an element has a least one.
LEMMA SomeLeast ==
  ASSUME NEW S \in SUBSET Nat, S # {}
  PROVE  \E x \in S : \A y \in S : x <= y
<1> DEFINE Down(n) == {s \in S : s <= n}
           Downs == {Down(n) : n \in S}
<1>1. Downs \subseteq FiniteSubsetsOf(S)
  <2>1. \A n \in S : IsFiniteSet(Down(n))
    <3>1. TAKE n \in S
    <3>2. Down(n) \in SUBSET Nat /\ \A s \in Down(n) : s <= n
      OBVIOUS
    <3> HIDE DEF Down
    <3>3. QED
      BY <3>2, FS_BoundedSetOfNaturals
  <2>2. QED
    BY <2>1 DEF FiniteSubsetsOf
<1>2. PICK D \in Downs : \A E \in Downs : ~ (<<E, D>> \in StrictSubsetOrdering(S))
  <2>1. Downs # {}
    OBVIOUS
  <2> DEFINE R == StrictSubsetOrdering(S)
             F == FiniteSubsetsOf(S)
  <2>2. IsWellFoundedOn(R, F)
    BY FS_StrictSubsetOrderingWellFounded
  <2> HIDE DEF Downs, R, F
  <2>3. \E D \in Downs : \A E \in Downs : ~ (<<E, D>> \in R)
    BY <1>1, <2>1, <2>2, WFMin DEF F
  <2>4. QED
    BY <2>3 DEF R
<1>3. PICK x \in S : D = Down(x)
  BY <1>2
<1>4. ASSUME NEW y \in S, y < x PROVE FALSE
  <2>1. x \in Nat /\ y \in Nat /\ S \subseteq Nat
    OBVIOUS
  <2>2. x \in Down(x) /\ x \notin Down(y)
    BY <1>4, <2>1
  <2>3. ASSUME NEW s \in Down(y) PROVE s \in Down(x)
    BY <1>4, <2>1, <2>3
  <2> HIDE DEF Down
  <2>4. Down(y) \in Downs /\ Down(y) \in SUBSET S /\ D \in SUBSET S
    BY <1>1 DEF FiniteSubsetsOf
  <2>5. <<Down(y), D>> \in (SUBSET S) \X (SUBSET S) /\ Down(y) \subseteq D /\ Down(y) # D
    BY <1>3, <2>2, <2>3, <2>4
  <2>6. <<Down(y), D>> \in StrictSubsetOrdering(S)
    BY <2>5 DEF StrictSubsetOrdering
  <2>7. QED
    BY <1>2, <2>4, <2>6
<1>5. QED
  BY <1>4

\* The first m elements of e, behind a, but for those at the positions of T.
Filtering(g, m, a, e, T) ==
  g = [n \in 0 .. m |-> IF n = 0 THEN a
                        ELSE IF n \in T THEN g[n - 1] ELSE Append(g[n - 1], e[n])]

LEMMA FilteringExists ==
  ASSUME NEW N \in Nat, NEW a, NEW e, NEW T
  PROVE  \E g : Filtering(g, N, a, e, T)
<1> DEFINE Bad == {m \in 0 .. N : ~\E g : Filtering(g, m, a, e, T)}
<1>1. SUFFICES ASSUME Bad # {} PROVE FALSE
  OBVIOUS
<1>2. PICK m \in Bad : \A k \in Bad : m <= k
  <2>1. Bad \in SUBSET Nat
    OBVIOUS
  <2> HIDE DEF Bad
  <2>2. QED
    BY <1>1, <2>1, SomeLeast
<1>3. m \in 0 .. N /\ ~\E g : Filtering(g, m, a, e, T)
  OBVIOUS
<1>4. CASE m = 0
  <2>1. PICK g : g = [n \in 0 .. 0 |-> a]
    OBVIOUS
  <2>2. g = [n \in 0 .. 0 |-> IF n = 0 THEN a
                              ELSE IF n \in T THEN g[n - 1] ELSE Append(g[n - 1], e[n])]
    BY <2>1
  <2>3. QED
    BY <1>3, <1>4, <2>2 DEF Filtering
<1>5. CASE m # 0
  <2>1. m - 1 \in 0 .. N /\ m - 1 \notin Bad /\ m \in Nat
    <3>1. m - 1 \in 0 .. N /\ ~(m <= m - 1) /\ m \in Nat
      BY <1>3, <1>5
    <3> HIDE DEF Bad
    <3>2. QED
      BY <1>2, <3>1
  <2>2. PICK g : Filtering(g, m - 1, a, e, T)
    BY <2>1
  <2>3. PICK h : h = [n \in 0 .. m |-> IF n = m THEN IF m \in T THEN g[m - 1]
                                                     ELSE Append(g[m - 1], e[m])
                                       ELSE g[n]]
    OBVIOUS
  <2>4. ASSUME NEW n \in 0 .. m
        PROVE  h[n] = IF n = 0 THEN a
                      ELSE IF n \in T THEN h[n - 1] ELSE Append(h[n - 1], e[n])
    <3>1. CASE n = m
      <4>1. m - 1 \in 0 .. m /\ m - 1 # m
        BY <1>5, <2>1
      <4>2. /\ h[m] = IF m \in T THEN g[m - 1] ELSE Append(g[m - 1], e[m])
            /\ h[m - 1] = g[m - 1]
        BY <2>3, <2>4, <3>1, <4>1
      <4>3. QED
        BY <1>5, <3>1, <4>2
    <3>2. CASE n # m
      <4>1. n \in 0 .. (m - 1)
        BY <2>1, <2>4, <3>2
      <4>2. g[n] = IF n = 0 THEN a
                   ELSE IF n \in T THEN g[n - 1] ELSE Append(g[n - 1], e[n])
        BY <2>2, <4>1 DEF Filtering
      <4>3. h[n] = g[n]
        BY <2>3, <2>4, <3>2
      <4>4. CASE n = 0
        BY <4>2, <4>3, <4>4
      <4>5. CASE n # 0
        <5>1. n - 1 \in 0 .. m /\ n - 1 # m
          BY <2>1, <4>1, <4>5
        <5>2. h[n - 1] = g[n - 1]
          BY <2>3, <5>1
        <5>3. QED
          BY <4>2, <4>3, <4>5, <5>2
      <4>6. QED
        BY <4>4, <4>5
    <3>3. QED
      BY <3>1, <3>2
  <2>5. Filtering(h, m, a, e, T)
    <3>1. PICK w : w = [n \in 0 .. m |-> IF n = 0 THEN a
                          ELSE IF n \in T THEN h[n - 1] ELSE Append(h[n - 1], e[n])]
      OBVIOUS
    <3>2. DOMAIN h = 0 .. m /\ h = [n \in 0 .. m |-> h[n]]
      BY <2>3
    <3>3. \A n \in 0 .. m : h[n] = w[n]
      BY <2>4, <3>1
    <3>4. DOMAIN w = 0 .. m /\ w = [n \in 0 .. m |-> w[n]]
      BY <3>1
    <3>5. h = w
      BY <3>2, <3>3, <3>4
    <3>6. QED
      BY <3>1, <3>5 DEF Filtering
  <2>6. QED
    BY <1>3, <2>5
<1>6. QED
  BY <1>4, <1>5

LEMMA FilteringTyped ==
  ASSUME NEW N \in Nat, NEW S, NEW a \in Seq(S), NEW e, NEW T, NEW g,
         Filtering(g, N, a, e, T), \A n \in 1 .. N : e[n] \in S
  PROVE  g[N] \in Seq(S)
<1> DEFINE Bad == {n \in 0 .. N : g[n] \notin Seq(S)}
<1>1. SUFFICES ASSUME Bad # {} PROVE FALSE
  OBVIOUS
<1>2. PICK m \in Bad : \A k \in Bad : m <= k
  <2>1. Bad \in SUBSET Nat
    OBVIOUS
  <2> HIDE DEF Bad
  <2>2. QED
    BY <1>1, <2>1, SomeLeast
<1>3. m \in 0 .. N /\ g[m] \notin Seq(S)
  OBVIOUS
<1>4. g[m] = IF m = 0 THEN a ELSE IF m \in T THEN g[m - 1] ELSE Append(g[m - 1], e[m])
  BY <1>3 DEF Filtering
<1>5. CASE m = 0
  BY <1>3, <1>4, <1>5
<1>6. CASE m # 0
  <2>1. m - 1 \in 0 .. N /\ ~(m <= m - 1) /\ m \in 1 .. N
    BY <1>3, <1>6
  <2>2. m - 1 \notin Bad
    <3> HIDE DEF Bad
    <3>1. QED
      BY <1>2, <2>1
  <2>3. g[m - 1] \in Seq(S) /\ e[m] \in S
    BY <2>1, <2>2
  <2>4. Append(g[m - 1], e[m]) \in Seq(S)
    BY <2>3, AppendProperties
  <2>5. QED
    BY <1>3, <1>4, <1>6, <2>3, <2>4
<1>7. QED
  BY <1>5, <1>6

-----------------------------------------------------------------------------
(* The queue.                                                                *)
\* Without is a filtering of the queue, and nothing comes of an empty one.
LEMMA WithoutIs ==
  ASSUME queue \in Seq(Contexts), NEW t
  PROVE  Without(t) \in Seq(Contexts) /\ (queue = <<>> => Without(t) = <<>>)
<1>1. PICK q : q = queue
  OBVIOUS
<1>2. q \in Seq(Contexts) /\ Len(q) \in Nat /\ \A n \in 1 .. Len(q) : q[n] \in Contexts
  BY <1>1, LenProperties, ElementOfSeq
<1>3. PICK T : T = {n \in 1 .. Len(q) : q[n].thread = t}
  OBVIOUS
<1>4. PICK f : Filtering(f, Len(q), <<>>, q, T)
  BY <1>2, FilteringExists
<1>5. f = [n \in 0 .. Len(q) |->
             IF n = 0 THEN <<>>
             ELSE IF q[n].thread = t THEN f[n - 1] ELSE Append(f[n - 1], q[n])]
  <2>1. PICK w : w = [n \in 0 .. Len(q) |->
             IF n = 0 THEN <<>>
             ELSE IF q[n].thread = t THEN f[n - 1] ELSE Append(f[n - 1], q[n])]
    OBVIOUS
  <2>2. /\ f = [n \in 0 .. Len(q) |-> f[n]] /\ DOMAIN f = 0 .. Len(q)
        /\ \A n \in 0 .. Len(q) : f[n] = IF n = 0 THEN <<>>
             ELSE IF n \in T THEN f[n - 1] ELSE Append(f[n - 1], q[n])
    <3>1. PICK v : v = [n \in 0 .. Len(q) |-> IF n = 0 THEN <<>>
             ELSE IF n \in T THEN f[n - 1] ELSE Append(f[n - 1], q[n])]
      OBVIOUS
    <3>2. f = v
      BY <1>4, <3>1 DEF Filtering
    <3>3. QED
      BY <3>1, <3>2
  <2>3. \A n \in 0 .. Len(q) : n # 0 => (n \in T <=> q[n].thread = t)
    BY <1>2, <1>3
  <2>4. \A n \in 0 .. Len(q) : f[n] = w[n]
    BY <2>1, <2>2, <2>3
  <2>5. w = [n \in 0 .. Len(q) |-> w[n]] /\ DOMAIN w = 0 .. Len(q)
    BY <2>1
  <2>6. f = w
    BY <2>2, <2>4, <2>5
  <2>7. QED
    BY <2>1, <2>6
<1>6. PICK g : g = CHOOSE kept :
         kept = [n \in 0 .. Len(q) |->
                   IF n = 0 THEN <<>>
                   ELSE IF q[n].thread = t THEN kept[n - 1] ELSE Append(kept[n - 1], q[n])]
  OBVIOUS
<1>7. g = [n \in 0 .. Len(q) |->
             IF n = 0 THEN <<>>
             ELSE IF q[n].thread = t THEN g[n - 1] ELSE Append(g[n - 1], q[n])]
  BY <1>5, <1>6
<1>8. Without(t) = g[Len(q)]
  BY <1>1, <1>6 DEF Without
<1>9. Filtering(g, Len(q), <<>>, q, T)
  <2>1. PICK w : w = [n \in 0 .. Len(q) |-> IF n = 0 THEN <<>>
             ELSE IF n \in T THEN g[n - 1] ELSE Append(g[n - 1], q[n])]
    OBVIOUS
  <2>2. /\ g = [n \in 0 .. Len(q) |-> g[n]] /\ DOMAIN g = 0 .. Len(q)
        /\ \A n \in 0 .. Len(q) : g[n] = IF n = 0 THEN <<>>
             ELSE IF q[n].thread = t THEN g[n - 1] ELSE Append(g[n - 1], q[n])
    <3>1. PICK v : v = [n \in 0 .. Len(q) |-> IF n = 0 THEN <<>>
             ELSE IF q[n].thread = t THEN g[n - 1] ELSE Append(g[n - 1], q[n])]
      OBVIOUS
    <3>2. g = v
      BY <1>7, <3>1
    <3>3. QED
      BY <3>1, <3>2
  <2>3. \A n \in 0 .. Len(q) : n # 0 => (n \in T <=> q[n].thread = t)
    BY <1>2, <1>3
  <2>4. \A n \in 0 .. Len(q) : g[n] = w[n]
    BY <2>1, <2>2, <2>3
  <2>5. w = [n \in 0 .. Len(q) |-> w[n]] /\ DOMAIN w = 0 .. Len(q)
    BY <2>1
  <2>6. g = w
    BY <2>2, <2>4, <2>5
  <2>7. QED
    BY <2>1, <2>6 DEF Filtering
<1>10. Without(t) \in Seq(Contexts)
  <2>1. <<>> \in Seq(Contexts)
    OBVIOUS
  <2>2. QED
    BY <1>2, <1>8, <1>9, <2>1, FilteringTyped
<1>11. ASSUME queue = <<>> PROVE Without(t) = <<>>
  <2>1. Len(q) = 0 /\ 0 \in 0 .. 0
    BY <1>1, <1>11
  <2>2. g[0] = <<>>
    BY <1>7, <2>1
  <2>3. QED
    BY <1>8, <2>1, <2>2
<1>12. QED
  BY <1>10, <1>11

LEMMA ScopeSame ==
  ASSUME UNCHANGED scope, ScopeTypeOK, Roles, Sound
  PROVE  ScopeTypeOK' /\ Roles' /\ Sound'
<1>1. /\ file' = file /\ temp' = temp /\ index' = index /\ cache' = cache /\ op' = op
      /\ crossed' = crossed
  BY DEF scope
<1>2. ScopeTypeOK' /\ Roles'
  BY <1>1 DEF ScopeTypeOK, Roles, RoleOK
<1>3. StoredFacts' = StoredFacts /\ \A o \in Ops : Content(o)' = Content(o) /\ FactsOf(o)' = FactsOf(o)
  BY <1>1 DEF StoredFacts, Content, FactsOf
<1>4. \A o \in Ops : /\ Edited(o)' <=> Edited(o)
                     /\ Asks(o)' <=> Asks(o)
                     /\ Indexes(o)' <=> Indexes(o)
                     /\ Followed(o)' <=> Followed(o)
                     /\ Behind(o)' <=> Behind(o)
  BY <1>1, <1>3 DEF Edited, Asks, Indexes, Followed, Behind
<1>5. Clean => Clean'
  BY <1>1, <1>3, <1>4 DEF Clean
<1>6. Colliding => Colliding'
  BY <1>1 DEF Colliding
<1>7. QED
  BY <1>1, <1>2, <1>5, <1>6 DEF Sound

WorkerType == [todo : Seq(Contexts),
               pc : {"none", "global", "update", "workspace", "private", "over"}]
QueueTypeOK ==
  /\ queue \in Seq(Contexts) /\ processing \in BOOLEAN
  /\ debounce \in BOOLEAN /\ orphans \in Nat /\ fired \in Nat
  /\ worker \in [Updaters -> WorkerType]
  /\ holder \in [Scopes -> Updaters \cup {"none"}]
  /\ turn \in [Threads -> Nat] /\ digested \in [Threads -> Nat]
  /\ displaced \in [Threads -> Nat]

LEMMA TypeParts == MemoryTypeOK <=> ScopeTypeOK /\ QueueTypeOK
<1>1. {turn, digested, displaced} \subseteq [Threads -> Nat]
      <=> /\ turn \in [Threads -> Nat] /\ digested \in [Threads -> Nat]
          /\ displaced \in [Threads -> Nat]
  OBVIOUS
<1>2. QED
  BY <1>1 DEF MemoryTypeOK, QueueTypeOK, WorkerType

MemoryInv == ScopeTypeOK /\ QueueTypeOK /\ Roles /\ Exclusive /\ Sound /\ NoStrandedEntry

LEMMA OneAtWork == ASSUME Exclusive PROVE OneUpdater
  BY DEF Exclusive, OneUpdater

LEMMA AddKeeps ==
  ASSUME MemoryInv, NEW t \in Threads, Add(t)
  PROVE  MemoryInv'
<1>1. UNCHANGED <<scope, processing, orphans, fired, worker, holder, digested, displaced>>
  BY DEF Add
<1>2. ScopeTypeOK' /\ Roles' /\ Sound'
  BY <1>1, ScopeSame DEF MemoryInv
<1>3. /\ turn' = [turn EXCEPT ![t] = @ + 1] /\ debounce' = TRUE
      /\ queue' = Append(Without(t), [thread |-> t, turn |-> turn[t] + 1])
  BY DEF Add
<1>4. QueueTypeOK'
  <2>1. turn \in [Threads -> Nat] /\ turn[t] + 1 \in Nat /\ queue \in Seq(Contexts)
    BY DEF MemoryInv, QueueTypeOK
  <2>2. turn' \in [Threads -> Nat]
    BY <1>3, <2>1
  <2>3. [thread |-> t, turn |-> turn[t] + 1] \in Contexts
    BY <2>1 DEF Contexts
  <2>4. Without(t) \in Seq(Contexts)
    BY <2>1, WithoutIs
  <2>5. queue' \in Seq(Contexts)
    BY <1>3, <2>3, <2>4, AppendProperties
  <2>6. QED
    BY <1>1, <1>3, <2>2, <2>5 DEF MemoryInv, QueueTypeOK
<1>5. Exclusive'
  BY <1>1 DEF MemoryInv, Exclusive, scope
<1>6. NoStrandedEntry'
  BY <1>3 DEF NoStrandedEntry
<1>7. QED
  BY <1>2, <1>4, <1>5, <1>6 DEF MemoryInv

LEMMA ImmediateKeeps ==
  ASSUME MemoryInv, NEW t \in Threads, QueueImmediate(t)
  PROVE  MemoryInv'
<1>1. UNCHANGED <<scope, processing, orphans, fired, holder, turn, digested>>
  BY DEF QueueImmediate
<1>2. ScopeTypeOK' /\ Roles' /\ Sound'
  BY <1>1, ScopeSame DEF MemoryInv
<1>3. /\ queue' = Without(t) /\ debounce' = (debounce /\ Without(t) # <<>>)
      /\ displaced' = IF queue = Without(t) THEN displaced
                      ELSE [displaced EXCEPT ![t] = turn[t]]
  BY DEF QueueImmediate
<1>4. PICK w \in Immediates :
        /\ worker[w].pc = "none"
        /\ worker' = [worker EXCEPT ![w] = [todo |-> <<[thread |-> t, turn |-> 0]>>,
                                            pc |-> "global"]]
  BY DEF QueueImmediate
<1>5. queue \in Seq(Contexts) /\ worker \in [Updaters -> WorkerType] /\ turn[t] \in Nat
      /\ displaced \in [Threads -> Nat]
  BY DEF MemoryInv, QueueTypeOK
<1>6. Without(t) \in Seq(Contexts) /\ (queue = <<>> => Without(t) = <<>>)
  BY <1>5, WithoutIs
<1>7. PICK job : job = [todo |-> <<[thread |-> t, turn |-> 0]>>, pc |-> "global"]
  OBVIOUS
<1>8. /\ job \in WorkerType /\ job.todo # <<>> /\ job.pc = "global"
  <2>1. [thread |-> t, turn |-> 0] \in Contexts
    BY DEF Contexts
  <2>2. <<[thread |-> t, turn |-> 0]>> \in Seq(Contexts) /\ <<[thread |-> t, turn |-> 0]>> # <<>>
    BY <2>1
  <2>3. QED
    BY <1>7, <2>2 DEF WorkerType
<1>9. w \in Updaters /\ w # Batch
  BY QueueThreads
<1>10. /\ worker' \in [Updaters -> WorkerType] /\ worker'[w] = job
       /\ \A v \in Updaters \ {w} : worker'[v] = worker[v]
  BY <1>4, <1>5, <1>7, <1>8, <1>9
<1>11. displaced' \in [Threads -> Nat]
  BY <1>3, <1>5
<1>12. QueueTypeOK'
  BY <1>1, <1>3, <1>6, <1>10, <1>11 DEF MemoryInv, QueueTypeOK
<1>13. Exclusive'
  <2>1. op' = op /\ holder' = holder /\ processing' = processing
    BY <1>1 DEF scope
  <2>2. ASSUME NEW v \in Updaters
        PROVE  /\ op'[v].pc # "idle" => worker'[v].pc = "update"
               /\ worker'[v].pc = "update" => holder'["global"] = v
               /\ worker'[v].pc \notin {"none", "over"} => worker'[v].todo # <<>>
    BY <1>4, <1>8, <1>9, <1>10, <2>1 DEF MemoryInv, Exclusive
  <2>3. Batch \in Updaters
    BY QueueThreads
  <2>4. QED
    BY <1>9, <1>10, <2>1, <2>2, <2>3 DEF MemoryInv, Exclusive
<1>14. NoStrandedEntry'
  BY <1>1, <1>3, <1>6 DEF MemoryInv, NoStrandedEntry
<1>15. QED
  BY <1>2, <1>12, <1>13, <1>14 DEF MemoryInv

LEMMA FireKeeps == ASSUME MemoryInv, Fire PROVE MemoryInv'
<1>1. UNCHANGED <<scope, left, queue, processing, worker, holder, history>>
  BY DEF Fire
<1>2. ScopeTypeOK' /\ Roles' /\ Sound'
  BY <1>1, ScopeSame DEF MemoryInv
<1>3. fired \in Nat /\ orphans \in Nat /\ debounce \in BOOLEAN
  BY DEF MemoryInv, QueueTypeOK
<1>4. fired' = fired + 1 /\ fired' \in Nat /\ orphans' \in Nat /\ debounce' \in BOOLEAN
  <2>1. /\ fired' = fired + 1
        /\ \/ debounce' = FALSE /\ orphans' = orphans
           \/ orphans > 0 /\ orphans' = orphans - 1 /\ debounce' = debounce
    BY DEF Fire
  <2>2. orphans' \in Nat /\ fired' \in Nat /\ fired' = fired + 1
    BY <1>3, <2>1
  <2>3. debounce' \in BOOLEAN
    BY <1>3, <2>1
  <2>4. QED
    BY <2>2, <2>3
<1>5. QueueTypeOK'
  BY <1>1, <1>4 DEF MemoryInv, QueueTypeOK, history
<1>6. Exclusive'
  BY <1>1 DEF MemoryInv, Exclusive, scope
<1>7. NoStrandedEntry'
  BY <1>3, <1>4 DEF NoStrandedEntry
<1>8. QED
  BY <1>2, <1>5, <1>6, <1>7 DEF MemoryInv

LEMMA ProcessKeeps == ASSUME MemoryInv, ProcessUpdates PROVE MemoryInv'
<1>1. UNCHANGED <<scope, left, holder, history>> /\ fired > 0 /\ fired' = fired - 1
  BY DEF ProcessUpdates
<1>2. ScopeTypeOK' /\ Roles' /\ Sound'
  BY <1>1, ScopeSame DEF MemoryInv
<1>3. fired \in Nat /\ orphans \in Nat /\ debounce \in BOOLEAN /\ queue \in Seq(Contexts)
      /\ worker \in [Updaters -> WorkerType] /\ Batch \in Updaters
  BY QueueThreads DEF MemoryInv, QueueTypeOK
<1>4. CASE /\ UNCHANGED <<queue, processing, orphans, worker>>
           /\ debounce' = TRUE \/ (queue = <<>> /\ debounce' = debounce)
  <2>1. fired' \in Nat /\ debounce' \in BOOLEAN
    <3>1. fired' \in Nat
      BY <1>1, <1>3
    <3>2. debounce' \in BOOLEAN
      BY <1>3, <1>4, Zenon
    <3>3. QED
      BY <3>1, <3>2
  <2>2. QueueTypeOK'
    BY <1>1, <1>4, <2>1 DEF MemoryInv, QueueTypeOK, history
  <2>3. Exclusive'
    BY <1>1, <1>4 DEF MemoryInv, Exclusive, scope
  <2>4. NoStrandedEntry'
    BY <1>4 DEF NoStrandedEntry
  <2>5. QED
    BY <1>2, <2>2, <2>3, <2>4 DEF MemoryInv
<1>5. CASE /\ ~processing /\ queue # <<>> /\ processing' = TRUE
           /\ worker' = [worker EXCEPT ![Batch] = [todo |-> queue, pc |-> "global"]]
           /\ queue' = <<>> /\ debounce' = FALSE /\ orphans' = orphans + IF debounce THEN 1 ELSE 0
  <2>1. PICK job : job = [todo |-> queue, pc |-> "global"]
    OBVIOUS
  <2>2. job \in WorkerType /\ job.todo # <<>> /\ job.pc = "global"
    BY <1>3, <1>5, <2>1 DEF WorkerType
  <2>3. /\ worker' \in [Updaters -> WorkerType] /\ worker'[Batch] = job
        /\ \A v \in Updaters \ {Batch} : worker'[v] = worker[v]
    BY <1>3, <1>5, <2>1, <2>2
  <2>4. fired' \in Nat /\ orphans' \in Nat /\ queue' \in Seq(Contexts)
    BY <1>1, <1>3, <1>5
  <2>5. QueueTypeOK'
    BY <1>1, <1>5, <2>3, <2>4 DEF MemoryInv, QueueTypeOK, history
  <2>6. Exclusive'
    <3>1. op' = op /\ holder' = holder /\ worker[Batch].pc = "none"
      BY <1>1, <1>5 DEF scope, MemoryInv, Exclusive
    <3>2. ASSUME NEW v \in Updaters
          PROVE  /\ op'[v].pc # "idle" => worker'[v].pc = "update"
                 /\ worker'[v].pc = "update" => holder'["global"] = v
                 /\ worker'[v].pc \notin {"none", "over"} => worker'[v].todo # <<>>
      BY <1>3, <2>2, <2>3, <3>1 DEF MemoryInv, Exclusive
    <3>3. QED
      BY <1>5, <3>2 DEF Exclusive
  <2>7. NoStrandedEntry'
    BY <1>5 DEF NoStrandedEntry
  <2>8. QED
    BY <1>2, <2>5, <2>6, <2>7 DEF MemoryInv
<1>6. \/ processing /\ debounce' = TRUE /\ UNCHANGED <<queue, processing, orphans, worker>>
      \/ ~processing /\ queue = <<>> /\ UNCHANGED <<queue, processing, debounce, orphans, worker>>
      \/ /\ ~processing /\ queue # <<>> /\ processing' = TRUE
         /\ worker' = [worker EXCEPT ![Batch] = [todo |-> queue, pc |-> "global"]]
         /\ queue' = <<>> /\ debounce' = FALSE /\ orphans' = orphans + IF debounce THEN 1 ELSE 0
  BY DEF ProcessUpdates
<1>7. CASE processing /\ debounce' = TRUE /\ UNCHANGED <<queue, processing, orphans, worker>>
  BY <1>4, <1>7
<1>8. CASE ~processing /\ queue = <<>> /\ UNCHANGED <<queue, processing, debounce, orphans, worker>>
  BY <1>4, <1>8
<1>9. QED
  BY <1>5, <1>6, <1>7, <1>8

\* A worker whose lock is that of the scope changes nobody else's.
LEMMA LockIs ==
  ASSUME MemoryInv, NEW w \in Updaters, worker[w].pc \notin {"none", "over"}
  PROVE  /\ LockOf(w) \in Scopes
         /\ worker[w].todo \in Seq(Contexts) /\ worker[w].todo # <<>>
         /\ Head(worker[w].todo) \in Contexts /\ Tail(worker[w].todo) \in Seq(Contexts)
         /\ LockOf(w) = "global" <=> worker[w].pc \in {"global", "update"}
<1>1. worker[w] \in WorkerType /\ worker[w].todo # <<>>
  BY DEF MemoryInv, QueueTypeOK, Exclusive
<1>2. worker[w].todo \in Seq(Contexts)
  BY <1>1 DEF WorkerType
<1>3. Head(worker[w].todo) \in Contexts /\ Tail(worker[w].todo) \in Seq(Contexts)
  BY <1>1, <1>2, HeadTailProperties
<1>4. Head(worker[w].todo).thread \in Threads
  BY <1>3 DEF Contexts
<1>5. QED
  BY <1>1, <1>2, <1>3, <1>4, QueueThreads DEF LockOf, Scopes

LEMMA WorkTypes ==
  ASSUME MemoryInv, NEW w \in Updaters, NEW job \in WorkerType, NEW s \in Scopes,
         NEW owner \in Updaters \cup {"none"},
         worker' = [worker EXCEPT ![w] = job], holder' = [holder EXCEPT ![s] = owner],
         UNCHANGED <<queue, debounce, orphans, fired, turn, displaced>>,
         processing' \in BOOLEAN, digested' \in [Threads -> Nat]
  PROVE  /\ QueueTypeOK' /\ NoStrandedEntry' /\ worker'[w] = job /\ holder'[s] = owner
         /\ \A v \in Updaters \ {w} : worker'[v] = worker[v]
         /\ \A x \in Scopes \ {s} : holder'[x] = holder[x]
<1>1. worker \in [Updaters -> WorkerType] /\ holder \in [Scopes -> Updaters \cup {"none"}]
  BY DEF MemoryInv, QueueTypeOK
<1>2. /\ worker' \in [Updaters -> WorkerType] /\ worker'[w] = job
      /\ \A v \in Updaters \ {w} : worker'[v] = worker[v]
  BY <1>1
<1>3. /\ holder' \in [Scopes -> Updaters \cup {"none"}] /\ holder'[s] = owner
      /\ \A x \in Scopes \ {s} : holder'[x] = holder[x]
  BY <1>1
<1>4. QueueTypeOK'
  BY <1>2, <1>3 DEF MemoryInv, QueueTypeOK
<1>5. NoStrandedEntry'
  BY DEF MemoryInv, NoStrandedEntry
<1>6. QED
  BY <1>2, <1>3, <1>4, <1>5

LEMMA JobTyped ==
  ASSUME NEW job \in WorkerType,
         NEW pc \in {"none", "global", "update", "workspace", "private", "over"}
  PROVE  /\ [job EXCEPT !.pc = pc] \in WorkerType /\ [job EXCEPT !.pc = pc].pc = pc
         /\ [job EXCEPT !.pc = pc].todo = job.todo
  BY DEF WorkerType

LEMMA GlobalKeeps ==
  ASSUME MemoryInv, NEW w \in Updaters, UpdateGlobal(w)
  PROVE  MemoryInv'
<1>1. /\ worker[w].pc = "global" /\ holder[LockOf(w)] = "none" /\ BeginUpdate(w)
      /\ holder' = [holder EXCEPT ![LockOf(w)] = w]
      /\ worker' = [worker EXCEPT ![w].pc = "update"]
      /\ UNCHANGED <<left, pending, turn, displaced>>
  BY DEF UpdateGlobal, Enter
<1>2. LockOf(w) = "global" /\ Head(worker[w].todo) \in Contexts /\ worker[w].todo # <<>>
      /\ "global" \in Scopes
  BY <1>1, LockIs DEF Scopes
<1>3. PICK c \in Contexts : c = Head(worker[w].todo)
  BY <1>2
<1>4. digested' \in [Threads -> Nat]
  <2>1. c.thread \in Threads /\ c.turn \in Nat /\ digested \in [Threads -> Nat]
    BY DEF Contexts, MemoryInv, QueueTypeOK
  <2>2. digested' = [digested EXCEPT ![c.thread] = IF c.turn > @ THEN c.turn ELSE @]
    BY <1>3 DEF UpdateGlobal
  <2>3. QED
    BY <2>1, <2>2
<1>5. PICK job \in WorkerType : /\ job = [worker[w] EXCEPT !.pc = "update"]
                                /\ job.pc = "update" /\ job.todo = worker[w].todo
  <2>1. worker[w] \in WorkerType
    BY DEF MemoryInv, QueueTypeOK
  <2>2. QED
    BY <2>1, JobTyped
<1>6. worker' = [worker EXCEPT ![w] = job] /\ processing' \in BOOLEAN
  BY <1>1, <1>5 DEF MemoryInv, QueueTypeOK, pending
<1>7. /\ QueueTypeOK' /\ NoStrandedEntry' /\ worker'[w] = job /\ holder'["global"] = w
      /\ \A v \in Updaters \ {w} : worker'[v] = worker[v]
      /\ \A x \in Scopes \ {"global"} : holder'[x] = holder[x]
  <2>1. UNCHANGED <<queue, debounce, orphans, fired, turn, displaced>>
    BY <1>1 DEF pending
  <2>2. PICK s \in Scopes : s = LockOf(w) /\ s = "global"
    BY <1>2
  <2>3. PICK owner \in Updaters \cup {"none"} : owner = w
    OBVIOUS
  <2>4. worker' = [worker EXCEPT ![w] = job] /\ holder' = [holder EXCEPT ![s] = owner]
    BY <1>1, <1>6, <2>2, <2>3
  <2>5. job \in WorkerType /\ processing' \in BOOLEAN
    BY <1>5, <1>6
  <2>6. /\ QueueTypeOK' /\ NoStrandedEntry' /\ worker'[w] = job /\ holder'[s] = owner
        /\ \A v \in Updaters \ {w} : worker'[v] = worker[v]
        /\ \A x \in Scopes \ {s} : holder'[x] = holder[x]
    <3>1. /\ worker \in [Updaters -> WorkerType] /\ holder \in [Scopes -> Updaters \cup {"none"}]
      BY DEF MemoryInv, QueueTypeOK
    <3>2. /\ worker' \in [Updaters -> WorkerType] /\ worker'[w] = job
          /\ \A v \in Updaters \ {w} : worker'[v] = worker[v]
      BY <2>4, <2>5, <3>1
    <3>3. /\ holder' \in [Scopes -> Updaters \cup {"none"}] /\ holder'[s] = owner
          /\ \A x \in Scopes \ {s} : holder'[x] = holder[x]
      BY <2>4, <3>1
    <3>4. QueueTypeOK'
      BY <1>4, <2>1, <2>5, <3>2, <3>3 DEF MemoryInv, QueueTypeOK
    <3>5. NoStrandedEntry'
      BY <2>1 DEF MemoryInv, NoStrandedEntry
    <3>6. QED
      BY <3>2, <3>3, <3>4, <3>5
  <2>7. QED
    BY <2>2, <2>3, <2>6
<1>8. \A v \in Updaters : worker[v].pc # "update" /\ op[v].pc = "idle"
  BY <1>1, <1>2, QueueThreads DEF MemoryInv, Exclusive
<1>9. ScopeTypeOK' /\ Sound'
  BY <1>1, <1>8, BeginKeeps DEF MemoryInv
<1>10. Roles' /\ \A v \in Updaters \ {w} : op'[v].pc # "idle" => op[v].pc # "idle"
  BY <1>1, BeginRole DEF MemoryInv
<1>11. Exclusive'
  <2>1. processing' = processing
    BY <1>1 DEF pending
  <2>2. ASSUME NEW v \in Updaters
        PROVE  /\ op'[v].pc # "idle" => worker'[v].pc = "update"
               /\ worker'[v].pc = "update" => holder'["global"] = v
               /\ worker'[v].pc \notin {"none", "over"} => worker'[v].todo # <<>>
    <3>1. CASE v = w
      BY <1>2, <1>5, <1>7, <3>1
    <3>2. CASE v # w
      <4>1. worker'[v] = worker[v] /\ worker[v].pc # "update" /\ op'[v].pc = "idle"
        BY <1>7, <1>8, <1>10, <3>2
      <4>2. QED
        BY <4>1 DEF MemoryInv, Exclusive
    <3>3. QED
      BY <3>1, <3>2
  <2>3. ~processing' => worker'[Batch].pc = "none"
    BY <1>1, <1>7, <2>1, QueueThreads DEF MemoryInv, Exclusive
  <2>4. QED
    BY <2>2, <2>3 DEF Exclusive
<1>12. QED
  BY <1>7, <1>9, <1>10, <1>11 DEF MemoryInv

\* The other steps of a thread leave the scope, and are not about an update.
LEMMA LockKeeps ==
  ASSUME MemoryInv, NEW w \in Updaters, NEW job \in WorkerType,
         NEW owner \in Updaters \cup {"none"},
         worker[w].pc \notin {"none", "over"}, op[w].pc = "idle",
         worker' = [worker EXCEPT ![w] = job],
         holder' = [holder EXCEPT ![LockOf(w)] = owner],
         LockOf(w) = "global" => worker[w].pc = "update",
         UNCHANGED <<scope, queue, debounce, orphans, fired, history>>,
         processing' \in BOOLEAN, ~processing' => (w # Batch => ~processing),
         ~processing' /\ w = Batch => job.pc = "none",
         job.pc # "update", job.pc \notin {"none", "over"} => job.todo # <<>>
  PROVE  MemoryInv'
<1>1. ScopeTypeOK' /\ Roles' /\ Sound'
  BY ScopeSame DEF MemoryInv
<1>2. LockOf(w) \in Scopes
  BY LockIs
<1>3. digested' \in [Threads -> Nat] /\ UNCHANGED <<turn, displaced>>
  BY DEF MemoryInv, QueueTypeOK, history
<1>4. /\ QueueTypeOK' /\ NoStrandedEntry' /\ worker'[w] = job
      /\ \A v \in Updaters \ {w} : worker'[v] = worker[v]
      /\ \A x \in Scopes \ {LockOf(w)} : holder'[x] = holder[x]
  BY <1>2, <1>3, WorkTypes
<1>5. op' = op
  BY DEF scope
<1>6. ASSUME NEW v \in Updaters
      PROVE  /\ op'[v].pc # "idle" => worker'[v].pc = "update"
             /\ worker'[v].pc = "update" => holder'["global"] = v
             /\ worker'[v].pc \notin {"none", "over"} => worker'[v].todo # <<>>
  <2>1. CASE v = w
    BY <1>4, <1>5, <2>1
  <2>2. CASE v # w
    <3>1. /\ worker'[v] = worker[v]
          /\ op[v].pc # "idle" => worker[v].pc = "update"
          /\ worker[v].pc = "update" => holder["global"] = v
          /\ worker[v].pc \notin {"none", "over"} => worker[v].todo # <<>>
      BY <1>4, <2>2 DEF MemoryInv, Exclusive
    <3>2. worker[v].pc = "update" => LockOf(w) # "global"
      BY <2>2, <3>1 DEF MemoryInv, Exclusive
    <3>3. "global" \in Scopes
      BY DEF Scopes
    <3>4. QED
      BY <1>4, <1>5, <3>1, <3>2, <3>3
  <2>3. QED
    BY <2>1, <2>2
<1>7. ~processing' => worker'[Batch].pc = "none"
  <2>1. Batch \in Updaters /\ (~processing => worker[Batch].pc = "none")
    BY QueueThreads DEF MemoryInv, Exclusive
  <2>2. QED
    BY <1>4, <2>1
<1>8. Exclusive'
  BY <1>6, <1>7 DEF Exclusive
<1>9. QED
  BY <1>1, <1>4, <1>8 DEF MemoryInv

LEMMA WorkerKeeps ==
  ASSUME MemoryInv, NEW w \in Updaters,
         GlobalUpdated(w) \/ UpdateWorkspace(w) \/ WorkspaceUpdated(w)
  PROVE  MemoryInv'
<1>1. worker[w] \in WorkerType /\ processing \in BOOLEAN
      /\ (op[w].pc # "idle" => worker[w].pc = "update")
  BY DEF MemoryInv, QueueTypeOK, Exclusive
<1>2. ~processing => worker[Batch].pc = "none"
  BY DEF MemoryInv, Exclusive
<1>3. CASE GlobalUpdated(w)
  <2>1. PICK job \in WorkerType : /\ job = [worker[w] EXCEPT !.pc = "workspace"]
                                  /\ job.pc = "workspace" /\ job.todo = worker[w].todo
    BY <1>1, JobTyped
  <2>2. /\ worker[w].pc = "update" /\ op[w].pc = "idle"
        /\ holder' = [holder EXCEPT ![LockOf(w)] = "none"]
        /\ worker' = [worker EXCEPT ![w] = job] /\ UNCHANGED <<scope, pending, history>>
    BY <1>3, <2>1 DEF GlobalUpdated, Leave
  <2>3. worker[w].todo # <<>>
    BY <2>2, LockIs
  <2>4. UNCHANGED <<scope, queue, debounce, orphans, fired, history, processing>>
    BY <2>2 DEF pending
  <2>5. w = Batch => processing
    BY <1>2, <2>2
  <2>6. QED
    BY <1>1, <2>1, <2>2, <2>3, <2>4, <2>5, LockKeeps
<1>4. CASE UpdateWorkspace(w)
  <2>1. PICK job \in WorkerType : /\ job = [worker[w] EXCEPT !.pc = "private"]
                                  /\ job.pc = "private" /\ job.todo = worker[w].todo
    BY <1>1, JobTyped
  <2>2. /\ worker[w].pc = "workspace" /\ op[w].pc = "idle"
        /\ holder' = [holder EXCEPT ![LockOf(w)] = w]
        /\ worker' = [worker EXCEPT ![w] = job] /\ UNCHANGED <<scope, pending, history>>
    BY <1>1, <1>4, <2>1 DEF UpdateWorkspace, Enter
  <2>3. worker[w].todo # <<>> /\ LockOf(w) # "global"
    BY <2>2, LockIs
  <2>4. UNCHANGED <<scope, queue, debounce, orphans, fired, history, processing>>
    BY <2>2 DEF pending
  <2>5. w = Batch => processing
    BY <1>2, <2>2
  <2>6. QED
    BY <1>1, <2>1, <2>2, <2>3, <2>4, <2>5, LockKeeps
<1>5. CASE WorkspaceUpdated(w)
  <2>1. PICK rest : rest = Tail(worker[w].todo)
    OBVIOUS
  <2>2. PICK job : job = IF rest # <<>> THEN [todo |-> rest, pc |-> "global"]
                         ELSE IF w = Batch THEN Resting ELSE [Resting EXCEPT !.pc = "over"]
    OBVIOUS
  <2>3. /\ worker[w].pc = "private"
        /\ holder' = [holder EXCEPT ![LockOf(w)] = "none"]
        /\ worker' = [worker EXCEPT ![w] = job]
        /\ processing' = (processing /\ (w # Batch \/ rest # <<>>))
        /\ UNCHANGED <<scope, queue, debounce, orphans, fired, history>>
    BY <1>5, <2>1, <2>2 DEF WorkspaceUpdated, Leave
  <2>4. rest \in Seq(Contexts) /\ LockOf(w) # "global"
    BY <2>1, <2>3, LockIs
  <2>5. /\ job \in WorkerType /\ job.pc # "update"
        /\ job.pc \notin {"none", "over"} => job.todo # <<>>
    BY <2>2, <2>4 DEF WorkerType, Resting
  <2>6. w = Batch /\ rest = <<>> => job.pc = "none"
    BY <2>2 DEF Resting
  <2>7. op[w].pc = "idle" /\ (w = Batch => processing)
    BY <1>1, <1>2, <2>3
  <2>8. processing' \in BOOLEAN /\ (~processing' => (w # Batch => ~processing))
        /\ (~processing' /\ w = Batch => job.pc = "none")
    BY <1>1, <2>3, <2>6, <2>7
  <2>9. QED
    BY <2>3, <2>4, <2>5, <2>7, <2>8, LockKeeps
<1>6. QED
  BY <1>3, <1>4, <1>5

LEMMA MemoryInvInit == MemoryInit => MemoryInv
<1>1. SUFFICES ASSUME MemoryInit PROVE MemoryInv
  OBVIOUS
<1>2. /\ file = [items |-> {}, time |-> 0] /\ temp = NoTemp /\ index = {}
      /\ crossed = FALSE /\ cache = [p \in Processes |-> file] /\ op = [o \in Ops |-> Idle]
  BY <1>1 DEF MemoryInit, ScopeInit
<1>3. file \in CopyType /\ Idle \in OpType /\ Idle.pc = "idle"
  BY <1>2 DEF CopyType, Idle, OpType
<1>4. ScopeTypeOK
  BY <1>2, <1>3 DEF ScopeTypeOK, CopyType, OpType, NoTemp
<1>5. \A o \in Ops : op[o].pc = "idle"
  BY <1>2, <1>3
<1>6. Roles
  BY <1>5 DEF Roles, RoleOK
<1>7. Clean
  <2>1. \A o \in Ops : ~Followed(o) /\ ~Behind(o)
    BY <1>5 DEF Followed, Behind, Saved
  <2>2. \A p \in Processes : cache[p] = file
    BY <1>2
  <2>3. file.time = 0 /\ file.items = {}
    BY <1>2
  <2>4. index = StoredFacts
    BY <1>2, <2>3 DEF StoredFacts
  <2>5. QED
    BY <1>5, <2>1, <2>2, <2>3, <2>4 DEF Clean, Unsaved
<1>8. /\ queue = <<>> /\ processing = FALSE /\ debounce = FALSE /\ orphans = 0 /\ fired = 0
      /\ worker = [w \in Updaters |-> Resting] /\ holder = [s \in Scopes |-> "none"]
      /\ turn = [t \in Threads |-> 0] /\ digested = turn /\ displaced = turn
  BY <1>1 DEF MemoryInit
<1>9. Resting \in WorkerType /\ Resting.pc = "none"
  BY DEF Resting, WorkerType
<1>10. QueueTypeOK
  <2>1. queue \in Seq(Contexts)
    BY <1>8
  <2>2. turn \in [Threads -> Nat] /\ digested \in [Threads -> Nat] /\ displaced \in [Threads -> Nat]
    BY <1>8
  <2>3. /\ worker \in [Updaters -> WorkerType]
        /\ holder \in [Scopes -> Updaters \cup {"none"}]
    BY <1>8, <1>9
  <2>4. QED
    BY <1>8, <2>1, <2>2, <2>3 DEF QueueTypeOK
<1>11. Exclusive
  BY <1>5, <1>8, <1>9, Places, QueueThreads DEF Exclusive
<1>12. NoStrandedEntry
  BY <1>8 DEF NoStrandedEntry
<1>13. QED
  BY <1>4, <1>6, <1>7, <1>10, <1>11, <1>12 DEF MemoryInv, Sound

LEMMA MemoryInvStep == MemoryInv /\ MemoryNext => MemoryInv'
<1>1. SUFFICES ASSUME MemoryInv, MemoryNext PROVE MemoryInv'
  OBVIOUS
<1>2. CASE \E t \in Threads : Add(t) \/ QueueImmediate(t)
  BY <1>1, <1>2, AddKeeps, ImmediateKeeps
<1>3. CASE Fire
  BY <1>1, <1>3, FireKeeps
<1>4. CASE ProcessUpdates
  BY <1>1, <1>4, ProcessKeeps
<1>5. CASE \E w \in Updaters : Work(w)
  BY <1>1, <1>5, GlobalKeeps, WorkerKeeps DEF Work
<1>6. CASE ScopeNext /\ UNCHANGED <<pending, worker, holder, history>>
  <2>1. ScopeTypeOK' /\ Roles' /\ Sound' /\ AtWorkBefore
    BY <1>1, <1>6, ScopeKeeps, OneAtWork DEF MemoryInv
  <2>2. QueueTypeOK'
    BY <1>1, <1>6 DEF MemoryInv, QueueTypeOK, pending, history
  <2>3. Exclusive'
    BY <1>1, <1>6, <2>1 DEF MemoryInv, Exclusive, pending, AtWorkBefore
  <2>4. NoStrandedEntry'
    BY <1>1, <1>6 DEF MemoryInv, NoStrandedEntry, pending
  <2>5. QED
    BY <2>1, <2>2, <2>3, <2>4 DEF MemoryInv
<1>7. QED
  BY <1>1, <1>2, <1>3, <1>4, <1>5, <1>6 DEF MemoryNext

LEMMA MemorySame == MemoryInv /\ UNCHANGED memory => MemoryInv'
<1>1. SUFFICES ASSUME MemoryInv, UNCHANGED memory PROVE MemoryInv'
  OBVIOUS
<1>2. UNCHANGED scope
  BY <1>1 DEF memory, scope
<1>3. ScopeTypeOK' /\ Roles' /\ Sound'
  BY <1>1, <1>2, ScopeSame DEF MemoryInv
<1>4. QueueTypeOK' /\ Exclusive' /\ NoStrandedEntry'
  BY <1>1 DEF memory, MemoryInv, QueueTypeOK, Exclusive, NoStrandedEntry
<1>5. QED
  BY <1>3, <1>4 DEF MemoryInv

LEMMA RestsSound ==
  ASSUME Sound
  PROVE  RestIsConsistent
<1>1. SUFFICES ASSUME ~crossed, \A o \in Ops : op[o].pc = "idle"
               PROVE  /\ index = file.items \cap Facts
                      /\ \A p \in Processes : Cached(p).items = file.items
  BY DEF RestIsConsistent
<1>2. Clean
  BY <1>1 DEF Sound, Colliding, Unsaved
<1>3. \A o \in Ops : ~Followed(o) /\ op[o].pc \notin Unsaved
  BY <1>1 DEF Followed, Saved, Unsaved
<1>4. index = file.items \cap Facts
  BY <1>2, <1>3 DEF Clean, StoredFacts
<1>5. \A p \in Processes : Cached(p).items = file.items
  BY <1>2, <1>3, CachedIsStored
<1>6. QED
  BY <1>4, <1>5

\* A step that changes the file is a save, and stores what its operation edited.
Loses(o) == /\ op[o].pc = "replace" /\ file' # file /\ op'[o].pc # "replace" /\ ~crossed'
            /\ file'.items # (file.items \ op[o].minus) \cup op[o].plus

LEMMA StoresStep ==
  ASSUME MemoryInv, MemoryNext, NEW o \in Ops, Loses(o)
  PROVE  FALSE
<1>1. file' # file
  BY DEF Loses
<1>2. PICK x \in Ops : Replace(x)
  <2>1. ScopeNext
    BY <1>1 DEF MemoryNext, Add, QueueImmediate, Fire, ProcessUpdates, Work, UpdateGlobal,
                BeginUpdate, GlobalUpdated, UpdateWorkspace, WorkspaceUpdated, scope
  <2>2. \E x \in Ops : Save(x) \/ WriteFails(x) \/ IndexFails(x)
    BY <1>1, <2>1 DEF ScopeNext, AddBehaviorRule, DeleteFact, ForgetThread, UpsertFact, Edit,
                      ClearMemory, RedactMemory, ReloadMemory, ModelReplies, ModelFails,
                      ApplyFails
  <2>3. QED
    BY <1>1, <2>2 DEF Save, WriteFails, IndexFails, WriteTemp, Load, Stat, Index
<1>3. /\ Edited(x) /\ ReplaceType(x) /\ file'.items = Content(x)
      /\ \A y \in Ops \ {x} : op[y].pc = "idle"
  BY <1>2, ReplaceStores, OneAtWork DEF MemoryInv, Loses
<1>4. x = o
  BY <1>3 DEF Loses
<1>5. Content(o) = (file.items \ op[o].minus) \cup op[o].plus
  BY <1>3, <1>4 DEF Edited
<1>6. QED
  BY <1>3, <1>4, <1>5 DEF Loses

-----------------------------------------------------------------------------
(* The settings file.                                                        *)
DocType == [inode : Nat, content : Contents \cup {Empty, Garbled}, mtime : Nat]
ReadType == [content : Contents \cup {Empty}, mtime : Nat]
SaverType == [pc : {"new", "load", "stat", "write", "writing", "reload", "restat", "over", "failed"},
              kind : SaveKinds, view : Contents \cup {Empty}, mtime : Nat,
              inode : Nat, alone : BOOLEAN]
LoadType == [kinds : SUBSET SaveKinds, saves : Nat, asks : Nat, mishaps : Nat, messages : Nat]

Busy == {"load", "stat", "write", "writing"}
HasView == {"stat", "write", "writing", "restat"}
\* What was read when the file had that time.
ReadOf(content, time) == /\ time <= doc.mtime
                         /\ time = doc.mtime => content = Resolved(doc.content)
CopyOK(c) == /\ copy[c].mtime <= doc.mtime
             /\ copy[c].mtime > 0 => copy[c].content \in Contents
             /\ c \notin torn /\ copy[c].mtime = doc.mtime => copy[c].content = Resolved(doc.content)
LoadingOK(r) == loading[r] # NoCopy => /\ loading[r].content \in Contents
                                       /\ ReadOf(loading[r].content, loading[r].mtime)
Views(s) == \A x \in Sections \ excused : Same(saver[s].view[x], latest[x])
SaverOK(s) ==
  /\ saver[s].pc \in HasView => saver[s].view \in Contents
  /\ saver[s].pc \in {"stat", "restat"} => ReadOf(saver[s].view, saver[s].mtime)
  /\ saver[s].alone /\ saver[s].pc \in {"stat", "write", "writing"} => Views(s)
  /\ saver[s].alone /\ saver[s].pc = "writing" => doc.inode = saver[s].inode /\ doc.content = Empty
Alone == \A s, o \in Saves : s # o /\ saver[s].alone /\ saver[s].pc \in Busy => saver[o].pc \notin Busy
Agrees == \A x \in Sections \ excused : Whole(doc.content) /\ Same(doc.content[x], latest[x])
NoneWrites == \A s \in Saves : saver[s].pc # "writing"
SettingsInv ==
  /\ StTypeOK /\ load \in LoadType /\ doc.mtime > 0
  /\ (\A c \in Copies : CopyOK(c)) /\ (\A r \in Readers : LoadingOK(r))
  /\ (\A s \in Saves : SaverOK(s)) /\ Alone /\ (NoneWrites => Agrees)

LEMMA SettingsTypes ==
  ASSUME StTypeOK
  PROVE  /\ doc \in DocType /\ copy \in [Copies -> ReadType] /\ saver \in [Saves -> SaverType]
         /\ loading \in [Readers -> ReadType]
         /\ latest \in Contents /\ excused \subseteq Sections /\ torn \subseteq Copies
  BY DEF StTypeOK, DocType, ReadType, SaverType

LEMMA SettingsTyped ==
  ASSUME doc \in DocType, copy \in [Copies -> ReadType], saver \in [Saves -> SaverType],
         loading \in [Readers -> ReadType], load \in LoadType,
         latest \in Contents, excused \subseteq Sections, torn \subseteq Copies
  PROVE  StTypeOK
  BY DEF StTypeOK, DocType, ReadType, SaverType, LoadType

LEMMA LoadTyped ==
  ASSUME load \in LoadType
  PROVE  /\ load.kinds \subseteq SaveKinds /\ load.saves \in Nat /\ load.asks \in Nat
         /\ load.mishaps \in Nat
         /\ load.saves > 0 => [load EXCEPT !.saves = @ - 1] \in LoadType
         /\ load.asks > 0 => [load EXCEPT !.asks = @ - 1] \in LoadType
         /\ load.mishaps > 0 => [load EXCEPT !.mishaps = @ - 1] \in LoadType
<1>1. load.saves \in Nat /\ load.asks \in Nat /\ load.mishaps \in Nat /\ load.kinds \subseteq SaveKinds
  BY DEF LoadType
<1>2. ASSUME load.saves > 0 PROVE [load EXCEPT !.saves = @ - 1] \in LoadType
  BY <1>1, <1>2 DEF LoadType
<1>3. ASSUME load.asks > 0 PROVE [load EXCEPT !.asks = @ - 1] \in LoadType
  BY <1>1, <1>3 DEF LoadType
<1>4. ASSUME load.mishaps > 0 PROVE [load EXCEPT !.mishaps = @ - 1] \in LoadType
  BY <1>1, <1>4 DEF LoadType
<1>5. QED
  BY <1>1, <1>2, <1>3, <1>4

\* A value and the variable it stands for are the same, and nothing else is.
LEMMA SameAlike ==
  ASSUME NEW v, NEW w
  PROVE  Same(v, w) <=> v = w \/ (v \in {"$VAR", "value"} /\ w \in {"$VAR", "value"})
  BY DEF Same

LEMMA SameTransitive ==
  ASSUME NEW u, NEW v, NEW w, Same(u, v), Same(v, w)
  PROVE  Same(u, w)
  BY SameAlike

LEMMA SameSymmetric == ASSUME NEW v, NEW w, Same(v, w) PROVE Same(w, v)
  BY SameAlike

LEMMA ResolvedTyped ==
  ASSUME NEW c \in Contents
  PROVE  /\ Resolved(c) \in Contents
         /\ \A x \in Sections : Same(Resolved(c)[x], c[x])
<1>1. \A x \in Sections : c[x] \in Values
  BY DEF Contents
<1>2. Resolved(c) \in Contents
  BY <1>1 DEF Resolved, Contents, Values
<1>3. \A x \in Sections : Resolved(c)[x] = IF c[x] = "$VAR" THEN "value" ELSE c[x]
  BY DEF Resolved
<1>4. \A x \in Sections : Same(Resolved(c)[x], c[x])
  BY <1>3, SameAlike
<1>5. QED
  BY <1>2, <1>4

LEMMA WholeTyped ==
  ASSUME StTypeOK, Whole(doc.content)
  PROVE  doc.content \in Contents
  BY DEF StTypeOK, Whole

LEMMA SectionTyped ==
  ASSUME NEW k \in SaveKinds
  PROVE  SectionOf(k) \in Sections
  BY DEF SaveKinds, SectionOf, Sections

LEMMA CopyOfTyped == ASSUME NEW k PROVE CopyOf(k) \in Copies
  BY DEF CopyOf, Copies

LEMMA PayloadTyped ==
  ASSUME StTypeOK, NEW s \in Saves, saver[s].view \in Contents
  PROVE  /\ Payload(s) \in Contents /\ Whole(Payload(s))
         /\ SectionOf(Kind(s)) \in Sections /\ Payload(s)[SectionOf(Kind(s))] = s
         /\ \A x \in Sections : x # SectionOf(Kind(s)) /\ x \in Kept(Kind(s))
                                => Payload(s)[x] = saver[s].view[x]
<1>1. Kind(s) \in SaveKinds
  BY SettingsTypes DEF Kind, SaverType
<1>2. PICK here \in Sections : here = SectionOf(Kind(s))
  BY <1>1, SectionTyped
<1>3. \A x \in Sections : saver[s].view[x] \in Values
  BY DEF Contents
<1>4. \A x \in Sections : Payload(s)[x] = IF x = here THEN s
                                          ELSE IF x \in Kept(Kind(s)) THEN saver[s].view[x] ELSE "absent"
  BY <1>2 DEF Payload
<1>5. \A x \in Sections : Payload(s)[x] \in Values
  BY <1>3, <1>4 DEF Values
<1>6. Payload(s) \in Contents
  BY <1>5 DEF Payload, Contents
<1>7. Payload(s)[here] = s /\ s \notin {"empty", "garbled"}
  BY <1>4, SettingsBounds
<1>8. Empty[here] = "empty" /\ Garbled[here] = "garbled"
  BY DEF Empty, Garbled
<1>9. Whole(Payload(s))
  BY <1>7, <1>8 DEF Whole
<1>10. QED
  BY <1>2, <1>4, <1>6, <1>7, <1>9

LEMMA MutatedTyped ==
  ASSUME StTypeOK, NEW s \in Saves, saver[s].view \in Contents, NEW m, m = Mutated(s)
  PROVE  /\ m \in [Copies -> ReadType]
         /\ \A c \in Copies : /\ m[c].mtime = copy[c].mtime
                              /\ m[c] = copy[c] \/ (c = CopyOf(Kind(s)) /\ Mutates(Kind(s)))
                              /\ m[c] = copy[c] \/ m[c].content \in Contents
<1>1. copy \in [Copies -> ReadType]
  BY SettingsTypes
<1>2. CASE m = copy
  BY <1>1, <1>2
<1>3. CASE m # copy
  <2>1. PICK c \in Copies : c = CopyOf(Kind(s))
    BY CopyOfTyped
  <2>2. /\ Mutates(Kind(s)) /\ copy[c].content = saver[s].view
        /\ m = [copy EXCEPT ![c].content["skills"] = s]
    BY <1>3, <2>1 DEF Mutated
  <2>3. PICK changed \in Contents : changed = [copy[c].content EXCEPT !["skills"] = s]
    <3>1. s \in Values /\ copy[c].content \in [Sections -> Values]
      BY <2>2 DEF Values, Contents
    <3>2. [copy[c].content EXCEPT !["skills"] = s] \in Contents
      BY <3>1 DEF Contents
    <3>3. QED
      BY <3>2
  <2>4. m = [copy EXCEPT ![c] = [@ EXCEPT !.content = changed]]
    BY <2>2, <2>3
  <2>5. copy[c] \in ReadType
    BY <1>1
  <2>6. PICK new \in ReadType : /\ new = [copy[c] EXCEPT !.content = changed]
                                /\ new.content = changed /\ new.mtime = copy[c].mtime
    <3>1. PICK new : new = [copy[c] EXCEPT !.content = changed]
      OBVIOUS
    <3>2. new \in ReadType /\ new.content = changed /\ new.mtime = copy[c].mtime
      BY <2>5, <3>1 DEF ReadType
    <3>3. QED
      BY <3>1, <3>2
  <2>7. m = [copy EXCEPT ![c] = new]
    BY <2>4, <2>6
  <2>8. m \in [Copies -> ReadType] /\ m[c] = new /\ \A d \in Copies \ {c} : m[d] = copy[d]
    BY <1>1, <2>7
  <2>9. QED
    BY <2>1, <2>2, <2>3, <2>6, <2>8
<1>4. QED
  BY <1>2, <1>3

LEMMA SaverStep ==
  ASSUME SettingsInv, NEW s \in Saves, NEW job \in SaverType, saver' = [saver EXCEPT ![s] = job],
         UNCHANGED <<doc, latest>>, excused \subseteq excused', excused' \subseteq Sections,
         saver[s].pc \in Busy \/ job.pc \notin Busy, job.alone => saver[s].alone,
         job.pc # "writing", saver[s].pc = "writing" => excused' = Sections,
         job.pc \in HasView => job.view \in Contents,
         job.pc \in {"stat", "restat"} => ReadOf(job.view, job.mtime),
         job.alone /\ job.pc \in {"stat", "write"}
           => \A x \in Sections \ excused : Same(job.view[x], latest[x])
  PROVE  /\ saver' \in [Saves -> SaverType] /\ (\A o \in Saves : SaverOK(o)')
         /\ Alone' /\ (NoneWrites => Agrees)'
<1>1. saver \in [Saves -> SaverType]
  BY SettingsTypes DEF SettingsInv
<1>2. /\ saver' \in [Saves -> SaverType] /\ saver'[s] = job
      /\ \A o \in Saves \ {s} : saver'[o] = saver[o]
  BY <1>1
<1>3. ASSUME NEW o \in Saves PROVE SaverOK(o)'
  <2>1. CASE o = s
    BY <1>2, <2>1 DEF SaverOK, ReadOf, Views, HasView
  <2>2. CASE o # s
    <3>1. saver'[o] = saver[o] /\ SaverOK(o)
      BY <1>2, <2>2 DEF SettingsInv
    <3>2. QED
      BY <3>1 DEF SaverOK, ReadOf, Views
  <2>3. QED
    BY <2>1, <2>2
<1>4. \A o \in Saves : /\ saver'[o].alone => saver[o].alone
                       /\ saver'[o].pc \in Busy => saver[o].pc \in Busy
  BY <1>2
<1>5. Alone'
  BY <1>4 DEF SettingsInv, Alone
<1>6. ASSUME NoneWrites' PROVE Agrees'
  <2>1. CASE saver[s].pc = "writing"
    BY <2>1 DEF Agrees
  <2>2. CASE saver[s].pc # "writing"
    <3>1. NoneWrites
      BY <1>2, <1>6, <2>2 DEF NoneWrites
    <3>2. Agrees
      BY <3>1 DEF SettingsInv
    <3>3. QED
      BY <3>2 DEF Agrees
  <2>3. QED
    BY <2>1, <2>2
<1>7. QED
  BY <1>2, <1>3, <1>5, <1>6

LEMMA CopiesSame ==
  ASSUME SettingsInv, UNCHANGED <<doc, copy, torn>>
  PROVE  copy' \in [Copies -> ReadType] /\ torn' \subseteq Copies /\ \A c \in Copies : CopyOK(c)'
<1>1. \A c \in Copies : CopyOK(c)'
  BY DEF SettingsInv, CopyOK
<1>2. QED
  BY <1>1, SettingsTypes DEF SettingsInv

LEMMA LoadingSame ==
  ASSUME SettingsInv, UNCHANGED <<doc, loading>>
  PROVE  loading' \in [Readers -> ReadType] /\ \A r \in Readers : LoadingOK(r)'
<1>1. \A r \in Readers : LoadingOK(r)'
  BY DEF SettingsInv, LoadingOK, ReadOf
<1>2. QED
  BY <1>1, SettingsTypes DEF SettingsInv

LEMMA CopySet ==
  ASSUME SettingsInv, NEW c \in Copies, NEW new \in ReadType, copy' = [copy EXCEPT ![c] = new],
         doc' = doc, torn' \subseteq Copies, torn' \ {c} = torn \ {c},
         new.mtime <= doc.mtime, new.mtime > 0 => new.content \in Contents,
         c \notin torn' /\ new.mtime = doc.mtime => new.content = Resolved(doc.content)
  PROVE  copy' \in [Copies -> ReadType] /\ \A d \in Copies : CopyOK(d)'
<1>1. copy \in [Copies -> ReadType]
  BY SettingsTypes DEF SettingsInv
<1>2. /\ copy' \in [Copies -> ReadType] /\ copy'[c] = new
      /\ \A d \in Copies \ {c} : copy'[d] = copy[d]
  BY <1>1
<1>3. ASSUME NEW d \in Copies PROVE CopyOK(d)'
  <2>1. CASE d = c
    BY <1>2, <2>1 DEF CopyOK
  <2>2. CASE d # c
    <3>1. copy'[d] = copy[d] /\ CopyOK(d) /\ (d \in torn' <=> d \in torn)
      BY <1>2, <2>2 DEF SettingsInv
    <3>2. QED
      BY <3>1 DEF CopyOK
  <2>3. QED
    BY <2>1, <2>2
<1>4. QED
  BY <1>2, <1>3

LEMMA CopyDropped ==
  ASSUME SettingsInv, NEW c \in Copies, copy' = [copy EXCEPT ![c] = NoCopy],
         doc' = doc, torn' \subseteq Copies, torn' \ {c} = torn \ {c}
  PROVE  copy' \in [Copies -> ReadType] /\ \A d \in Copies : CopyOK(d)'
<1>1. NoCopy \in ReadType /\ NoCopy.mtime = 0
  BY DEF NoCopy, ReadType
<1>2. doc.mtime > 0 /\ doc.mtime \in Nat
  BY SettingsTypes DEF SettingsInv, DocType
<1>3. NoCopy.mtime <= doc.mtime /\ ~(NoCopy.mtime > 0) /\ NoCopy.mtime # doc.mtime
  BY <1>1, <1>2
<1>4. QED
  BY <1>1, <1>3, CopySet

LEMMA KeepSets ==
  ASSUME SettingsInv, NEW c \in Copies, NEW read, Keep(c, read), doc' = doc,
         read.content \in Contents, ReadOf(read.content, read.mtime)
  PROVE  /\ copy' \in [Copies -> ReadType] /\ torn' \subseteq Copies
         /\ \A d \in Copies : CopyOK(d)'
<1>1. doc.mtime \in Nat /\ torn \subseteq Copies
  BY SettingsTypes DEF SettingsInv, DocType
<1>2. PICK new : new = [content |-> read.content, mtime |-> doc.mtime]
  OBVIOUS
<1>3. new \in ReadType /\ new.mtime = doc.mtime /\ new.content = read.content
  BY <1>1, <1>2 DEF ReadType
<1>4. /\ copy' = [copy EXCEPT ![c] = new]
      /\ torn' = IF read.mtime = doc.mtime THEN torn \ {c} ELSE torn \cup {c}
  BY <1>2 DEF Keep
<1>5. torn' \subseteq Copies /\ torn' \ {c} = torn \ {c} /\ (c \notin torn' => read.mtime = doc.mtime)
  BY <1>1, <1>4
<1>6. c \notin torn' => new.content = Resolved(doc.content)
  BY <1>3, <1>5 DEF ReadOf
<1>7. new.mtime <= doc.mtime
  BY <1>1, <1>3
<1>8. QED
  BY <1>3, <1>4, <1>5, <1>6, <1>7, CopySet

\* What the two halves of a step leave is the invariant again.
LEMMA SettingsMade ==
  ASSUME SettingsInv, doc' \in DocType, doc'.mtime > 0, load' \in LoadType, latest' \in Contents,
         excused' \subseteq Sections, torn' \subseteq Copies,
         copy' \in [Copies -> ReadType], saver' \in [Saves -> SaverType],
         loading' \in [Readers -> ReadType],
         \A c \in Copies : CopyOK(c)', \A r \in Readers : LoadingOK(r)',
         \A s \in Saves : SaverOK(s)', Alone', (NoneWrites => Agrees)'
  PROVE  SettingsInv'
<1>1. StTypeOK'
  BY SettingsTyped DEF StTypeOK, DocType, ReadType, SaverType, LoadType
<1>2. QED
  BY <1>1 DEF SettingsInv

\* What was read is known: the file as it is.
LEMMA FileRead ==
  ASSUME SettingsInv, Whole(doc.content)
  PROVE  /\ Resolved(doc.content) \in Contents /\ doc.mtime \in Nat
         /\ ReadOf(Resolved(doc.content), doc.mtime)
<1>1. doc.content \in Contents /\ doc.mtime \in Nat
  BY WholeTyped, SettingsTypes DEF SettingsInv, DocType
<1>2. QED
  BY <1>1, ResolvedTyped DEF ReadOf

\* Who loads alone sees no section but as it was last saved.
LEMMA LoadsWhatIsSaved ==
  ASSUME SettingsInv, NEW s \in Saves, saver[s].pc = "load", saver[s].alone,
         doc.content \in Contents, NEW view,
         view = doc.content \/ view = Resolved(doc.content)
  PROVE  \A x \in Sections \ excused : Same(view[x], latest[x])
<1>1. NoneWrites
  BY DEF SettingsInv, Alone, NoneWrites, Busy
<1>2. Agrees
  BY <1>1 DEF SettingsInv
<1>3. ASSUME NEW x \in Sections \ excused PROVE Same(view[x], latest[x])
  <2>1. Same(doc.content[x], latest[x])
    BY <1>2 DEF Agrees
  <2>2. Same(view[x], doc.content[x])
    BY ResolvedTyped DEF Same
  <2>3. QED
    BY <2>1, <2>2, SameTransitive
<1>4. QED
  BY <1>3

\* A request as a step leaves it.
Job(old, pc, view, time, lone) ==
  [old EXCEPT !.pc = pc, !.view = view, !.mtime = time, !.alone = lone]

LEMMA SaverFields ==
  ASSUME NEW old \in SaverType
  PROVE  /\ old.pc \in {"new", "load", "stat", "write", "writing", "reload", "restat", "over", "failed"}
         /\ old.kind \in SaveKinds /\ old.view \in Contents \cup {Empty} /\ old.mtime \in Nat
         /\ old.inode \in Nat /\ old.alone \in BOOLEAN
         /\ old = [old EXCEPT !.pc = old.pc, !.view = old.view, !.mtime = old.mtime,
                              !.alone = old.alone]
  BY DEF SaverType

\* A step of one request that leaves the file, the other copies and the history alone.
LEMMA OwnStep ==
  ASSUME SettingsInv, NEW s \in Saves, NEW job \in SaverType, saver' = [saver EXCEPT ![s] = job],
         UNCHANGED <<doc, loading, load, latest, excused>>,
         copy' \in [Copies -> ReadType], torn' \subseteq Copies, \A c \in Copies : CopyOK(c)',
         saver[s].pc \in Busy \/ job.pc \notin Busy, job.alone => saver[s].alone,
         job.pc # "writing", saver[s].pc # "writing",
         job.pc \in HasView => job.view \in Contents,
         job.pc \in {"stat", "restat"} => ReadOf(job.view, job.mtime),
         job.alone /\ job.pc \in {"stat", "write"}
           => \A x \in Sections \ excused : Same(job.view[x], latest[x])
  PROVE  SettingsInv'
<1>1. /\ saver' \in [Saves -> SaverType] /\ (\A o \in Saves : SaverOK(o)')
      /\ Alone' /\ (NoneWrites => Agrees)'
  <2>1. excused' = excused /\ excused \subseteq Sections
    BY SettingsTypes DEF SettingsInv
  <2>2. QED
    BY <2>1, SaverStep
<1>2. /\ doc' \in DocType /\ doc'.mtime > 0 /\ load' \in LoadType /\ latest' \in Contents
      /\ excused' \subseteq Sections
  BY SettingsTypes DEF SettingsInv
<1>3. loading' \in [Readers -> ReadType] /\ \A r \in Readers : LoadingOK(r)'
  BY LoadingSame
<1>4. QED
  BY <1>1, <1>2, <1>3, SettingsMade

LEMMA UseCopyKeeps == ASSUME SettingsInv, NEW s \in Saves, UseCopy(s) PROVE SettingsInv'
<1>1. PICK c \in Copies : c = CopyOf(Kind(s))
  BY CopyOfTyped
<1>2. /\ saver[s].pc = "load" /\ copy[c].mtime = doc.mtime
      /\ saver' = [saver EXCEPT ![s].pc = "write", ![s].view = copy[c].content,
                                ![s].alone = @ /\ c \notin torn]
      /\ UNCHANGED <<doc, copy, loading, load, latest, excused, torn>>
  BY <1>1 DEF UseCopy, At, Stale
<1>3. saver[s] \in SaverType /\ saver \in [Saves -> SaverType]
  BY SettingsTypes DEF SettingsInv
<1>4. copy[c].content \in Contents /\ (c \notin torn => copy[c].content = Resolved(doc.content))
  <2>1. CopyOK(c) /\ doc.mtime > 0
    BY DEF SettingsInv
  <2>2. QED
    BY <1>2, <2>1 DEF CopyOK
<1>5. PICK lone \in BOOLEAN : lone = (saver[s].alone /\ c \notin torn)
  OBVIOUS
<1>6. PICK view \in Contents : view = copy[c].content
  BY <1>4
<1>7. PICK job : job = Job(saver[s], "write", view, saver[s].mtime, lone)
  OBVIOUS
<1>8. saver[s].mtime \in Nat
  BY <1>3, SaverFields
<1>9. job \in SaverType /\ job.pc = "write" /\ job.view = view /\ job.alone = lone
  BY <1>3, <1>5, <1>6, <1>7, <1>8 DEF Job, SaverType
<1>10. saver' = [saver EXCEPT ![s] = job]
  <2>1. saver' = [saver EXCEPT ![s] = [@ EXCEPT !.pc = "write", !.view = view, !.alone = lone]]
    BY <1>2, <1>5, <1>6
  <2>2. job = [saver[s] EXCEPT !.pc = "write", !.view = view, !.alone = lone]
    BY <1>3, <1>7 DEF SaverType, Job
  <2>3. QED
    BY <2>1, <2>2
<1>11. job.alone => \A x \in Sections \ excused : Same(job.view[x], latest[x])
  <2>1. SUFFICES ASSUME saver[s].alone, c \notin torn
                 PROVE  \A x \in Sections \ excused : Same(view[x], latest[x])
    BY <1>5, <1>9
  <2>2. view = Resolved(doc.content)
    BY <1>4, <1>6, <2>1
  <2>3. CASE Sections \ excused = {}
    BY <2>3
  <2>4. CASE Sections \ excused # {}
    <3>1. NoneWrites
      BY <1>2, <2>1 DEF SettingsInv, Alone, NoneWrites, Busy
    <3>2. Whole(doc.content)
      BY <2>4, <3>1 DEF SettingsInv, Agrees
    <3>3. doc.content \in Contents
      BY <3>2, WholeTyped DEF SettingsInv
    <3>4. QED
      BY <1>2, <2>1, <2>2, <3>3, LoadsWhatIsSaved
  <2>5. QED
    BY <2>3, <2>4
<1>12. copy' \in [Copies -> ReadType] /\ torn' \subseteq Copies /\ \A d \in Copies : CopyOK(d)'
  BY <1>2, CopiesSame
<1>13. /\ saver[s].pc \in Busy /\ saver[s].pc # "writing" /\ job.pc # "writing"
       /\ job.pc \notin {"stat", "restat"} /\ (job.alone => saver[s].alone)
       /\ (job.pc \in HasView => job.view \in Contents)
  BY <1>2, <1>5, <1>9 DEF Busy
<1>14. QED
  BY <1>2, <1>9, <1>10, <1>11, <1>12, <1>13, OwnStep

LEMMA LoadFileKeeps == ASSUME SettingsInv, NEW s \in Saves, LoadFile(s) PROVE SettingsInv'
<1>1. PICK c \in Copies : c = CopyOf(Kind(s))
  BY CopyOfTyped
<1>2. /\ saver[s].pc = "load" /\ copy' = [copy EXCEPT ![c] = NoCopy]
      /\ saver' = IF Whole(doc.content)
                  THEN [saver EXCEPT ![s].pc = "stat", ![s].view = Resolved(doc.content),
                                     ![s].mtime = doc.mtime]
                  ELSE [saver EXCEPT ![s].pc = "failed"]
      /\ UNCHANGED <<doc, loading, load, latest, excused, torn>>
  BY <1>1 DEF LoadFile, At
<1>3. saver[s] \in SaverType /\ saver \in [Saves -> SaverType]
  BY SettingsTypes DEF SettingsInv
<1>4. copy' \in [Copies -> ReadType] /\ torn' \subseteq Copies /\ \A d \in Copies : CopyOK(d)'
  <2>1. torn \subseteq Copies
    BY SettingsTypes DEF SettingsInv
  <2>2. QED
    BY <1>2, <2>1, CopyDropped
<1>5. /\ saver[s].view \in Contents \cup {Empty} /\ saver[s].mtime \in Nat
      /\ saver[s].alone \in BOOLEAN
  BY <1>3, SaverFields
<1>6. CASE Whole(doc.content)
  <2>1. PICK view \in Contents : view = Resolved(doc.content)
    BY <1>6, FileRead
  <2>2. PICK time \in Nat : time = doc.mtime /\ ReadOf(view, time)
    BY <1>6, <2>1, FileRead
  <2>3. PICK job : job = Job(saver[s], "stat", view, time, saver[s].alone)
    OBVIOUS
  <2>4. /\ job \in SaverType /\ job.pc = "stat" /\ job.view = view /\ job.mtime = time
        /\ job.alone = saver[s].alone
    BY <1>3, <1>5, <2>3 DEF Job, SaverType
  <2>5. saver' = [saver EXCEPT ![s] = job]
    <3>1. saver' = [saver EXCEPT ![s] = [@ EXCEPT !.pc = "stat", !.view = view, !.mtime = time]]
      BY <1>2, <1>6, <2>1, <2>2
    <3>2. job = [saver[s] EXCEPT !.pc = "stat", !.view = view, !.mtime = time]
      BY <1>3, <2>3 DEF SaverType, Job
    <3>3. QED
      BY <3>1, <3>2
  <2>6. job.alone => \A x \in Sections \ excused : Same(job.view[x], latest[x])
    <3>1. doc.content \in Contents
      BY <1>6, WholeTyped DEF SettingsInv
    <3>2. QED
      BY <1>2, <2>1, <2>4, <3>1, LoadsWhatIsSaved
  <2>7. /\ saver[s].pc \in Busy /\ saver[s].pc # "writing" /\ job.pc # "writing"
        /\ (job.pc \in HasView => job.view \in Contents)
        /\ (job.pc \in {"stat", "restat"} => ReadOf(job.view, job.mtime))
    BY <1>2, <2>2, <2>4 DEF Busy
  <2>8. QED
    BY <1>2, <1>4, <2>4, <2>5, <2>6, <2>7, OwnStep
<1>7. CASE ~Whole(doc.content)
  <2>1. PICK job : job = Job(saver[s], "failed", saver[s].view, saver[s].mtime, saver[s].alone)
    OBVIOUS
  <2>2. job \in SaverType /\ job.pc = "failed" /\ job.alone = saver[s].alone
    BY <1>3, <1>5, <2>1 DEF Job, SaverType
  <2>3. saver' = [saver EXCEPT ![s] = job]
    <3>1. saver' = [saver EXCEPT ![s] = [@ EXCEPT !.pc = "failed"]]
      BY <1>2, <1>7
    <3>2. job = [saver[s] EXCEPT !.pc = "failed"]
      BY <1>3, <2>1 DEF SaverType, Job
    <3>3. QED
      BY <3>1, <3>2
  <2>4. /\ saver[s].pc \in Busy /\ saver[s].pc # "writing" /\ job.pc # "writing"
        /\ job.pc \notin HasView /\ job.pc \notin {"stat", "restat"} /\ job.pc \notin {"stat", "write"}
    BY <1>2, <2>2 DEF Busy, HasView
  <2>5. QED
    BY <1>2, <1>4, <2>2, <2>3, <2>4, OwnStep
<1>8. QED
  BY <1>6, <1>7

LEMMA KeepCopyKeeps == ASSUME SettingsInv, NEW s \in Saves, KeepCopy(s) PROVE SettingsInv'
<1>1. PICK c \in Copies : c = CopyOf(Kind(s))
  BY CopyOfTyped
<1>2. /\ saver[s].pc \in {"stat", "restat"}
      /\ saver' = [saver EXCEPT ![s].pc = IF @ = "stat" THEN "write" ELSE "over"]
      /\ UNCHANGED <<doc, loading, load, latest, excused>>
  BY DEF KeepCopy
<1>3. saver[s] \in SaverType /\ saver \in [Saves -> SaverType]
  BY SettingsTypes DEF SettingsInv
<1>4. /\ saver[s].view \in Contents /\ ReadOf(saver[s].view, saver[s].mtime)
      /\ (saver[s].alone /\ saver[s].pc = "stat" => Views(s))
  <2>1. SaverOK(s)
    BY DEF SettingsInv
  <2>2. QED
    BY <1>2, <2>1 DEF SaverOK, HasView
<1>5. copy' \in [Copies -> ReadType] /\ torn' \subseteq Copies /\ \A d \in Copies : CopyOK(d)'
  <2>1. PICK read : read = [content |-> saver[s].view, mtime |-> saver[s].mtime]
    OBVIOUS
  <2>2. Keep(c, read)
    BY <1>1, <2>1 DEF KeepCopy
  <2>3. read.content = saver[s].view /\ read.mtime = saver[s].mtime
    BY <2>1
  <2>4. read.content \in Contents /\ ReadOf(read.content, read.mtime)
    BY <1>4, <2>3
  <2>5. QED
    BY <1>2, <2>2, <2>4, KeepSets
<1>6. PICK pc \in {"write", "over"} : pc = IF saver[s].pc = "stat" THEN "write" ELSE "over"
  OBVIOUS
<1>7. PICK job : job = [saver[s] EXCEPT !.pc = pc]
  OBVIOUS
<1>8. /\ job \in SaverType /\ job.pc = pc /\ job.view = saver[s].view
      /\ job.alone = saver[s].alone
  BY <1>3, <1>7 DEF SaverType
<1>9. saver' = [saver EXCEPT ![s] = job]
  BY <1>2, <1>6, <1>7
<1>10. job.alone /\ job.pc \in {"stat", "write"}
         => \A x \in Sections \ excused : Same(job.view[x], latest[x])
  <2>1. SUFFICES ASSUME job.alone, job.pc = "write"
                 PROVE  \A x \in Sections \ excused : Same(job.view[x], latest[x])
    BY <1>6, <1>8
  <2>2. Views(s)
    BY <1>2, <1>4, <1>6, <1>8, <2>1
  <2>3. QED
    BY <1>8, <2>2 DEF Views
<1>11. /\ saver[s].pc \in Busy \/ job.pc \notin Busy
       /\ saver[s].pc # "writing" /\ job.pc # "writing" /\ job.pc \notin {"stat", "restat"}
       /\ (job.pc \in HasView => job.view \in Contents)
  BY <1>2, <1>4, <1>6, <1>8 DEF Busy
<1>12. QED
  BY <1>2, <1>5, <1>8, <1>9, <1>10, <1>11, OwnStep

LEMMA ReadRawKeeps == ASSUME SettingsInv, NEW s \in Saves, ReadRaw(s) PROVE SettingsInv'
<1>1. PICK view : view = IF Whole(doc.content) THEN doc.content ELSE [x \in Sections |-> "absent"]
  OBVIOUS
<1>2. /\ saver[s].pc = "load" /\ saver' = [saver EXCEPT ![s].pc = "write", ![s].view = view]
      /\ UNCHANGED <<doc, copy, loading, load, latest, excused, torn>>
  BY <1>1 DEF ReadRaw, At
<1>3. saver[s] \in SaverType /\ saver \in [Saves -> SaverType]
  BY SettingsTypes DEF SettingsInv
<1>4. view \in Contents
  <2>1. "absent" \in Values
    BY DEF Values
  <2>2. QED
    BY <1>1, <2>1, WholeTyped DEF SettingsInv, Contents
<1>5. PICK job : job = [saver[s] EXCEPT !.pc = "write", !.view = view]
  OBVIOUS
<1>6. job \in SaverType /\ job.pc = "write" /\ job.view = view /\ job.alone = saver[s].alone
  BY <1>3, <1>4, <1>5 DEF SaverType
<1>7. saver' = [saver EXCEPT ![s] = job]
  BY <1>2, <1>5
<1>8. ASSUME job.alone PROVE \A x \in Sections \ excused : Same(job.view[x], latest[x])
  <2>1. saver[s].alone
    BY <1>6, <1>8
  <2>2. CASE Sections \ excused = {}
    BY <2>2
  <2>3. CASE Sections \ excused # {}
    <3>1. NoneWrites
      BY <1>2, <2>1 DEF SettingsInv, Alone, NoneWrites, Busy
    <3>2. Whole(doc.content)
      BY <2>3, <3>1 DEF SettingsInv, Agrees
    <3>3. doc.content \in Contents /\ view = doc.content
      BY <1>1, <3>2, WholeTyped DEF SettingsInv
    <3>4. QED
      BY <1>2, <1>6, <2>1, <3>3, LoadsWhatIsSaved
  <2>4. QED
    BY <2>2, <2>3
<1>9. copy' \in [Copies -> ReadType] /\ torn' \subseteq Copies /\ \A d \in Copies : CopyOK(d)'
  BY <1>2, CopiesSame
<1>10. /\ saver[s].pc \in Busy /\ saver[s].pc # "writing" /\ job.pc # "writing"
       /\ job.pc \notin {"stat", "restat"} /\ job.view \in Contents
  BY <1>2, <1>4, <1>6 DEF Busy
<1>11. QED
  BY <1>2, <1>6, <1>7, <1>8, <1>9, <1>10, OwnStep

LEMMA RefreshKeeps == ASSUME SettingsInv, NEW s \in Saves, Reload(s) PROVE SettingsInv'
<1>1. /\ saver[s].pc = "reload"
      /\ saver' = IF Whole(doc.content)
                  THEN [saver EXCEPT ![s].pc = "restat", ![s].view = Resolved(doc.content),
                                     ![s].mtime = doc.mtime]
                  ELSE [saver EXCEPT ![s].pc = "over"]
      /\ UNCHANGED <<doc, copy, loading, load, latest, excused, torn>>
  BY DEF Reload, At
<1>2. saver[s] \in SaverType /\ saver \in [Saves -> SaverType]
  BY SettingsTypes DEF SettingsInv
<1>3. copy' \in [Copies -> ReadType] /\ torn' \subseteq Copies /\ \A d \in Copies : CopyOK(d)'
  BY <1>1, CopiesSame
<1>4. CASE Whole(doc.content)
  <2>1. PICK view \in Contents : view = Resolved(doc.content)
    BY <1>4, FileRead
  <2>2. PICK time \in Nat : time = doc.mtime /\ ReadOf(view, time)
    BY <1>4, <2>1, FileRead
  <2>3. PICK job : job = [saver[s] EXCEPT !.pc = "restat", !.view = view, !.mtime = time]
    OBVIOUS
  <2>4. /\ job \in SaverType /\ job.pc = "restat" /\ job.view = view /\ job.mtime = time
        /\ job.alone = saver[s].alone
    BY <1>2, <2>3 DEF SaverType
  <2>5. saver' = [saver EXCEPT ![s] = job]
    BY <1>1, <1>4, <2>1, <2>2, <2>3
  <2>6. /\ saver[s].pc # "writing" /\ job.pc # "writing" /\ job.pc \notin Busy
        /\ job.pc \notin {"stat", "write"} /\ job.view \in Contents /\ ReadOf(job.view, job.mtime)
    BY <1>1, <2>2, <2>4 DEF Busy
  <2>7. QED
    BY <1>1, <1>3, <2>4, <2>5, <2>6, OwnStep
<1>5. CASE ~Whole(doc.content)
  <2>1. PICK job : job = [saver[s] EXCEPT !.pc = "over"]
    OBVIOUS
  <2>2. job \in SaverType /\ job.pc = "over" /\ job.alone = saver[s].alone
    BY <1>2, <2>1 DEF SaverType
  <2>3. saver' = [saver EXCEPT ![s] = job]
    BY <1>1, <1>5, <2>1
  <2>4. /\ saver[s].pc # "writing" /\ job.pc # "writing" /\ job.pc \notin Busy
        /\ job.pc \notin HasView /\ job.pc \notin {"stat", "restat"} /\ job.pc \notin {"stat", "write"}
    BY <1>1, <2>2 DEF Busy, HasView
  <2>5. QED
    BY <1>1, <1>3, <2>2, <2>3, <2>4, OwnStep
<1>6. QED
  BY <1>4, <1>5

\* A changed copy is torn until the file is replaced.
LEMMA CutShortKeeps == ASSUME SettingsInv, NEW s \in Saves, CutShort(s) PROVE SettingsInv'
<1>1. /\ load.mishaps > 0 /\ load' = [load EXCEPT !.mishaps = @ - 1]
      /\ saver[s].pc \in {"write", "writing"} /\ saver' = [saver EXCEPT ![s].pc = "failed"]
      /\ copy' = (IF saver[s].pc = "write" THEN Mutated(s) ELSE copy)
      /\ torn' = (IF saver[s].pc = "write" /\ Mutates(Kind(s)) THEN torn \cup {CopyOf(Kind(s))}
                                                              ELSE torn)
      /\ excused' = (IF saver[s].pc = "writing" THEN Sections ELSE excused)
      /\ UNCHANGED <<doc, loading, latest>>
  BY DEF CutShort, Mishap, At
<1>2. saver[s] \in SaverType /\ saver \in [Saves -> SaverType] /\ excused \subseteq Sections
      /\ torn \subseteq Copies
  BY SettingsTypes DEF SettingsInv
<1>3. PICK job : job = [saver[s] EXCEPT !.pc = "failed"]
  OBVIOUS
<1>4. job \in SaverType /\ job.pc = "failed" /\ job.alone = saver[s].alone
  BY <1>2, <1>3 DEF SaverType
<1>5. saver' = [saver EXCEPT ![s] = job]
  BY <1>1, <1>3
<1>6. /\ excused \subseteq excused' /\ excused' \subseteq Sections
      /\ (saver[s].pc = "writing" => excused' = Sections)
  BY <1>1, <1>2
<1>7. /\ saver' \in [Saves -> SaverType] /\ (\A o \in Saves : SaverOK(o)')
      /\ Alone' /\ (NoneWrites => Agrees)'
  <2>1. /\ job.pc # "writing" /\ job.pc \notin Busy /\ job.pc \notin HasView
        /\ job.pc \notin {"stat", "restat"} /\ job.pc \notin {"stat", "write"}
    BY <1>4 DEF Busy, HasView
  <2>2. QED
    BY <1>1, <1>4, <1>5, <1>6, <2>1, SaverStep
<1>8. torn' \subseteq Copies
  BY <1>1, <1>2, CopyOfTyped
<1>9. copy' \in [Copies -> ReadType] /\ \A c \in Copies : CopyOK(c)'
  <2>1. CASE saver[s].pc = "write"
    <3>1. saver[s].view \in Contents
      BY <2>1 DEF SettingsInv, SaverOK, HasView
    <3>2. PICK m : m = Mutated(s)
      OBVIOUS
    <3>3. /\ m \in [Copies -> ReadType]
          /\ \A c \in Copies : /\ m[c].mtime = copy[c].mtime
                               /\ m[c] = copy[c] \/ (c = CopyOf(Kind(s)) /\ Mutates(Kind(s)))
                               /\ m[c] = copy[c] \/ m[c].content \in Contents
      BY <3>1, <3>2, MutatedTyped DEF SettingsInv
    <3>4. copy' = m
      BY <1>1, <2>1, <3>2
    <3>5. ASSUME NEW c \in Copies PROVE CopyOK(c)'
      <4>1. CopyOK(c)
        BY DEF SettingsInv
      <4>2. CASE m[c] = copy[c]
        <5>1. c \in torn => c \in torn'
          BY <1>1
        <5>2. QED
          BY <1>1, <3>4, <4>1, <4>2, <5>1 DEF CopyOK
      <4>3. CASE m[c] # copy[c]
        <5>1. c \in torn' /\ m[c].content \in Contents /\ m[c].mtime = copy[c].mtime
          BY <1>1, <2>1, <3>3, <4>3
        <5>2. QED
          BY <1>1, <3>4, <4>1, <5>1 DEF CopyOK
      <4>4. QED
        BY <4>2, <4>3
    <3>6. QED
      BY <3>3, <3>4, <3>5
  <2>2. CASE saver[s].pc = "writing"
    BY <1>1, <2>2, CopiesSame
  <2>3. QED
    BY <1>1, <2>1, <2>2
<1>10. loading' \in [Readers -> ReadType] /\ \A r \in Readers : LoadingOK(r)'
  BY <1>1, LoadingSame
<1>11. doc' \in DocType /\ doc'.mtime > 0 /\ latest' \in Contents /\ load' \in LoadType
  BY <1>1, SettingsTypes, LoadTyped DEF SettingsInv
<1>12. QED
  BY <1>6, <1>7, <1>8, <1>9, <1>10, <1>11, SettingsMade

\* A file that changes has a new time.
FileMoves == /\ doc' \in DocType
             /\ doc' = doc \/ doc'.mtime = doc.mtime + 1

LEMMA CopiesMoved ==
  ASSUME SettingsInv, FileMoves, doc' # doc, torn' = torn, copy' \in [Copies -> ReadType],
         \A c \in Copies : /\ copy'[c].mtime = copy[c].mtime
                           /\ copy'[c] = copy[c] \/ copy'[c].content \in Contents
  PROVE  torn' \subseteq Copies /\ \A c \in Copies : CopyOK(c)'
<1>1. doc.mtime \in Nat /\ torn \subseteq Copies
  BY SettingsTypes DEF SettingsInv, DocType
<1>2. ASSUME NEW c \in Copies PROVE CopyOK(c)'
  <2>1. copy[c].mtime \in Nat /\ CopyOK(c)
    BY SettingsTypes DEF SettingsInv, ReadType
  <2>2. doc'.mtime = doc.mtime + 1
    BY DEF FileMoves
  <2>3. copy'[c].mtime = copy[c].mtime /\ (copy'[c] = copy[c] \/ copy'[c].content \in Contents)
    OBVIOUS
  <2>4. copy[c].mtime <= doc'.mtime /\ copy[c].mtime # doc'.mtime
    BY <1>1, <2>1, <2>2 DEF CopyOK
  <2>5. QED
    BY <2>1, <2>3, <2>4 DEF CopyOK
<1>3. QED
  BY <1>1, <1>2

LEMMA LoadingMoved ==
  ASSUME SettingsInv, FileMoves, loading' = loading
  PROVE  loading' \in [Readers -> ReadType] /\ \A r \in Readers : LoadingOK(r)'
<1>1. doc.mtime \in Nat /\ loading \in [Readers -> ReadType]
  BY SettingsTypes DEF SettingsInv, DocType
<1>2. ASSUME NEW r \in Readers PROVE LoadingOK(r)'
  <2>1. loading[r].mtime \in Nat /\ LoadingOK(r)
    BY <1>1 DEF SettingsInv, ReadType
  <2>2. CASE doc' = doc
    BY <2>1, <2>2 DEF LoadingOK, ReadOf
  <2>3. CASE doc'.mtime = doc.mtime + 1
    BY <1>1, <2>1, <2>3 DEF LoadingOK, ReadOf
  <2>4. QED
    BY <2>2, <2>3 DEF FileMoves
<1>3. QED
  BY <1>1, <1>2

\* Beside one that writes nobody is alone.
LEMMA OthersMoved ==
  ASSUME SettingsInv, FileMoves, NEW s \in Saves, saver[s].pc \in Busy,
         NEW o \in Saves \ {s}, saver'[o] = saver[o]
  PROVE  SaverOK(o)'
<1>1. doc.mtime \in Nat /\ saver[o].mtime \in Nat
  BY SettingsTypes DEF SettingsInv, DocType, SaverType
<1>2. SaverOK(o) /\ (saver[o].alone => saver[o].pc \notin Busy)
  BY DEF SettingsInv, Alone
<1>3. ASSUME saver[o].pc \in {"stat", "restat"}, ReadOf(saver[o].view, saver[o].mtime)
      PROVE  ReadOf(saver[o].view, saver[o].mtime)'
  <2>1. CASE doc' = doc
    BY <1>3, <2>1 DEF ReadOf
  <2>2. CASE doc'.mtime = doc.mtime + 1
    BY <1>1, <1>3, <2>2 DEF ReadOf
  <2>3. QED
    BY <2>1, <2>2 DEF FileMoves
<1>4. QED
  BY <1>2, <1>3 DEF SaverOK, Busy

LEMMA AloneStays ==
  ASSUME SettingsInv, saver' \in [Saves -> SaverType],
         \A o \in Saves : /\ saver'[o].alone => saver[o].alone
                          /\ saver'[o].pc \in Busy => saver[o].pc \in Busy
  PROVE  Alone'
  BY DEF SettingsInv, Alone

\* What a request has written is what the file and the history say of its section; if it
\* was alone the other sections are as they were, or it gave them up.
LEMMA WrittenAgrees ==
  ASSUME SettingsInv, NEW s \in Saves, saver[s].pc \in {"write", "writing"}, Written(s),
         saver[s].alone => doc'.content = Payload(s)
  PROVE  excused' \subseteq Sections /\ latest' \in Contents /\ Agrees'
<1>1. PICK here : here = SectionOf(Kind(s))
  OBVIOUS
<1>2. saver[s].view \in Contents /\ (saver[s].alone => Views(s))
  BY DEF SettingsInv, SaverOK, HasView
<1>3. /\ here \in Sections /\ Whole(Payload(s)) /\ Payload(s)[here] = s
      /\ \A x \in Sections : x # here /\ x \in Kept(Kind(s)) => Payload(s)[x] = saver[s].view[x]
  BY <1>1, <1>2, PayloadTyped DEF SettingsInv
<1>4. /\ latest' = [latest EXCEPT ![here] = s]
      /\ excused' = IF saver[s].alone THEN (excused \cup (Sections \ Kept(Kind(s)))) \ {here}
                    ELSE Sections
  BY <1>1 DEF Written
<1>5. excused \subseteq Sections /\ latest \in [Sections -> Values]
  BY SettingsTypes DEF SettingsInv, Contents
<1>6. excused' \subseteq Sections
  BY <1>4, <1>5
<1>7. /\ latest' \in Contents /\ latest'[here] = s
      /\ \A x \in Sections \ {here} : latest'[x] = latest[x]
  <2>1. s \in Values
    BY DEF Values
  <2>2. QED
    BY <1>3, <1>4, <1>5, <2>1 DEF Contents
<1>8. ASSUME NEW x \in Sections \ excused'
      PROVE  Whole(doc'.content) /\ Same(doc'.content[x], latest'[x])
  <2>1. saver[s].alone /\ doc'.content = Payload(s) /\ Views(s)
    BY <1>2, <1>4, <1>8
  <2>2. CASE x = here
    BY <1>3, <1>7, <2>1, <2>2 DEF Same
  <2>3. CASE x # here
    <3>1. x \in Kept(Kind(s)) /\ x \notin excused
      BY <1>4, <1>8, <2>1, <2>3
    <3>2. Payload(s)[x] = saver[s].view[x] /\ latest'[x] = latest[x]
      BY <1>3, <1>7, <2>3, <3>1
    <3>3. Same(saver[s].view[x], latest[x])
      BY <2>1, <3>1 DEF Views
    <3>4. QED
      BY <1>3, <2>1, <3>2, <3>3
  <2>4. QED
    BY <2>2, <2>3
<1>9. Agrees'
  <2>1. Whole(doc.content)' <=> Whole(doc'.content)
    BY DEF Whole, Empty, Garbled
  <2>2. QED
    BY <1>8, <2>1 DEF Agrees, Same
<1>10. QED
  BY <1>6, <1>7, <1>9

LEMMA FileWritten ==
  ASSUME NEW K, NEW d \in [inode : Nat, content : K, mtime : Nat], NEW c \in K, NEW e,
         e = [d EXCEPT !.content = c, !.mtime = @ + 1]
  PROVE  /\ e \in [inode : Nat, content : K, mtime : Nat] /\ e.mtime = d.mtime + 1
         /\ e.content = c /\ e.inode = d.inode
<1>1. d.mtime \in Nat /\ d.inode \in Nat
  OBVIOUS
<1>2. d = [inode |-> d.inode, content |-> d.content, mtime |-> d.mtime]
  OBVIOUS
<1>3. e = [inode |-> d.inode, content |-> c, mtime |-> d.mtime + 1]
  BY <1>2
<1>4. d.mtime + 1 \in Nat
  BY <1>1
<1>5. QED
  BY <1>1, <1>3, <1>4

LEMMA OpenKeeps == ASSUME SettingsInv, NEW s \in Saves, Open(s) PROVE SettingsInv'
<1>1. /\ saver[s].pc = "write" /\ copy' = Mutated(s)
      /\ doc' = [doc EXCEPT !.content = Empty, !.mtime = @ + 1]
      /\ saver' = [saver EXCEPT ![s].pc = "writing", ![s].inode = doc.inode]
      /\ UNCHANGED <<loading, load, latest, excused, torn>>
  BY DEF Open, At
<1>2. /\ saver[s] \in SaverType /\ saver \in [Saves -> SaverType] /\ doc \in DocType
      /\ excused \subseteq Sections /\ latest \in Contents /\ load \in LoadType
  BY SettingsTypes DEF SettingsInv
<1>3. doc.mtime \in Nat /\ doc.inode \in Nat
  BY <1>2 DEF DocType
<1>4. /\ doc' \in DocType /\ doc'.mtime = doc.mtime + 1 /\ doc'.content = Empty
      /\ doc'.inode = doc.inode
  <2>1. PICK d \in DocType : d = doc
    BY <1>2
  <2>2. PICK c \in Contents \cup {Empty, Garbled} : c = Empty
    OBVIOUS
  <2>3. PICK e : e = [d EXCEPT !.content = c, !.mtime = @ + 1]
    OBVIOUS
  <2>4. e \in DocType /\ e.mtime = d.mtime + 1 /\ e.content = c /\ e.inode = d.inode
    BY <2>3, FileWritten DEF DocType
  <2>5. doc' = e
    BY <1>1, <2>1, <2>2, <2>3
  <2>6. QED
    BY <2>1, <2>2, <2>4, <2>5
<1>5. FileMoves /\ doc' # doc /\ doc'.mtime > 0
  BY <1>3, <1>4 DEF FileMoves
<1>6. SaverOK(s) /\ saver[s].view \in Contents
  BY <1>1 DEF SettingsInv, SaverOK, HasView
<1>7. PICK job : job = [saver[s] EXCEPT !.pc = "writing", !.inode = doc.inode]
  OBVIOUS
<1>8. /\ job \in SaverType /\ job.pc = "writing" /\ job.view = saver[s].view
      /\ job.alone = saver[s].alone /\ job.inode = doc.inode
  BY <1>2, <1>3, <1>7 DEF SaverType
<1>9. /\ saver' \in [Saves -> SaverType] /\ saver'[s] = job
      /\ \A o \in Saves \ {s} : saver'[o] = saver[o]
  BY <1>1, <1>2, <1>7, <1>8
<1>10. ASSUME NEW o \in Saves PROVE SaverOK(o)'
  <2>1. CASE o = s
    <3>1. Views(s) => Views(s)'
      BY <1>1, <1>8, <1>9 DEF Views
    <3>2. QED
      BY <1>1, <1>4, <1>6, <1>8, <1>9, <2>1, <3>1 DEF SaverOK, HasView
  <2>2. CASE o # s
    BY <1>1, <1>5, <1>9, <2>2, OthersMoved DEF Busy
  <2>3. QED
    BY <2>1, <2>2
<1>11. Alone'
  <2>1. \A o \in Saves : /\ saver'[o].alone => saver[o].alone
                         /\ saver'[o].pc \in Busy => saver[o].pc \in Busy
    BY <1>1, <1>8, <1>9 DEF Busy
  <2>2. QED
    BY <1>9, <2>1, AloneStays
<1>12. ~NoneWrites'
  BY <1>8, <1>9 DEF NoneWrites
<1>13. PICK m : m = Mutated(s)
  OBVIOUS
<1>14. /\ m \in [Copies -> ReadType]
       /\ \A c \in Copies : /\ m[c].mtime = copy[c].mtime
                            /\ m[c] = copy[c] \/ m[c].content \in Contents
  BY <1>6, <1>13, MutatedTyped DEF SettingsInv
<1>15. copy' \in [Copies -> ReadType] /\ torn' \subseteq Copies /\ \A c \in Copies : CopyOK(c)'
  BY <1>1, <1>5, <1>13, <1>14, CopiesMoved
<1>16. loading' \in [Readers -> ReadType] /\ \A r \in Readers : LoadingOK(r)'
  BY <1>1, <1>5, LoadingMoved
<1>17. load' \in LoadType /\ latest' \in Contents /\ excused' \subseteq Sections
  BY <1>1, <1>2
<1>18. QED
  BY <1>4, <1>5, <1>9, <1>10, <1>11, <1>12, <1>15, <1>16, <1>17, SettingsMade

\* What Put and Rename have in common.
LEMMA WrittenKeeps ==
  ASSUME SettingsInv, NEW s \in Saves, saver[s].pc \in {"write", "writing"}, Written(s),
         FileMoves, doc'.mtime > 0, saver[s].alone => doc'.content = Payload(s),
         UNCHANGED <<loading, load, torn>>,
         copy' \in [Copies -> ReadType], \A c \in Copies : CopyOK(c)'
  PROVE  SettingsInv'
<1>1. /\ saver[s] \in SaverType /\ saver \in [Saves -> SaverType] /\ load \in LoadType
      /\ torn \subseteq Copies
  BY SettingsTypes DEF SettingsInv
<1>2. PICK job : job = [saver[s] EXCEPT !.pc = "reload"]
  OBVIOUS
<1>3. /\ job \in SaverType /\ job.pc = "reload" /\ job.alone = saver[s].alone
  BY <1>1, <1>2 DEF SaverType
<1>4. /\ saver' \in [Saves -> SaverType] /\ saver'[s] = job
      /\ \A o \in Saves \ {s} : saver'[o] = saver[o]
  BY <1>1, <1>2, <1>3 DEF Written
<1>5. ASSUME NEW o \in Saves PROVE SaverOK(o)'
  <2>1. CASE o = s
    BY <1>3, <1>4, <2>1 DEF SaverOK, HasView
  <2>2. CASE o # s
    BY <1>4, <2>2, OthersMoved DEF Busy
  <2>3. QED
    BY <2>1, <2>2
<1>6. Alone'
  <2>1. \A o \in Saves : /\ saver'[o].alone => saver[o].alone
                         /\ saver'[o].pc \in Busy => saver[o].pc \in Busy
    BY <1>3, <1>4 DEF Busy
  <2>2. QED
    BY <1>4, <2>1, AloneStays
<1>7. excused' \subseteq Sections /\ latest' \in Contents /\ Agrees'
  BY WrittenAgrees
<1>8. loading' \in [Readers -> ReadType] /\ \A r \in Readers : LoadingOK(r)'
  BY LoadingMoved
<1>9. doc' \in DocType
  BY DEF FileMoves
<1>10. load' \in LoadType /\ torn' \subseteq Copies
  BY <1>1
<1>11. QED
  BY <1>4, <1>5, <1>6, <1>7, <1>8, <1>9, <1>10, SettingsMade

LEMMA PutKeeps == ASSUME SettingsInv, NEW s \in Saves, Put(s) PROVE SettingsInv'
<1>1. /\ saver[s].pc = "writing" /\ Written(s) /\ UNCHANGED <<copy, loading, load, torn>>
      /\ \/ saver[s].inode # doc.inode /\ doc' = doc
         \/ /\ saver[s].inode = doc.inode
            /\ \E c \in {Payload(s)} \cup IF doc.content = Empty THEN {} ELSE {Garbled} :
                 doc' = [doc EXCEPT !.content = c, !.mtime = @ + 1]
  BY DEF Put, At
<1>2. saver[s].view \in Contents /\ SaverOK(s)
  BY <1>1 DEF SettingsInv, SaverOK, HasView
<1>3. doc \in DocType /\ copy \in [Copies -> ReadType] /\ torn \subseteq Copies
      /\ doc.mtime \in Nat /\ doc.mtime > 0
  BY SettingsTypes DEF SettingsInv, DocType
<1>4. Payload(s) \in Contents
  BY <1>2, PayloadTyped DEF SettingsInv
<1>5. saver[s].alone => doc.inode = saver[s].inode /\ doc.content = Empty
  BY <1>1, <1>2 DEF SaverOK
<1>6. /\ FileMoves /\ doc'.mtime > 0 /\ (saver[s].alone => doc'.content = Payload(s))
  <2>1. CASE saver[s].inode # doc.inode /\ doc' = doc
    BY <1>3, <1>5, <2>1 DEF FileMoves
  <2>2. CASE saver[s].inode = doc.inode /\
             \E c \in {Payload(s)} \cup IF doc.content = Empty THEN {} ELSE {Garbled} :
                doc' = [doc EXCEPT !.content = c, !.mtime = @ + 1]
    <3>1. PICK c \in {Payload(s)} \cup (IF doc.content = Empty THEN {} ELSE {Garbled}) :
                doc' = [doc EXCEPT !.content = c, !.mtime = @ + 1]
      BY <2>2
    <3>2. c \in Contents \cup {Empty, Garbled} /\ (doc.content = Empty => c = Payload(s))
      BY <1>4, <3>1
    <3>3. doc' \in DocType /\ doc'.mtime = doc.mtime + 1 /\ doc'.content = c
      <4>1. PICK d \in DocType : d = doc
        BY <1>3
      <4>2. PICK e : e = [d EXCEPT !.content = c, !.mtime = @ + 1]
        OBVIOUS
      <4>3. e \in DocType /\ e.mtime = d.mtime + 1 /\ e.content = c
        BY <3>2, <4>2, FileWritten DEF DocType
      <4>4. doc' = e
        BY <3>1, <4>1, <4>2
      <4>5. QED
        BY <4>1, <4>3, <4>4
    <3>4. QED
      BY <1>3, <1>5, <3>2, <3>3 DEF FileMoves
  <2>3. QED
    BY <1>1, <2>1, <2>2
<1>7. copy' \in [Copies -> ReadType] /\ \A c \in Copies : CopyOK(c)'
  <2>1. CASE doc' = doc
    BY <1>1, <2>1, CopiesSame
  <2>2. CASE doc' # doc
    BY <1>1, <1>3, <1>6, <2>2, CopiesMoved
  <2>3. QED
    BY <2>1, <2>2
<1>8. QED
  BY <1>1, <1>6, <1>7, WrittenKeeps

LEMMA RenameKeeps == ASSUME SettingsInv, NEW s \in Saves, Rename(s) PROVE SettingsInv'
<1>1. /\ saver[s].pc = "write" /\ Written(s) /\ UNCHANGED <<loading, load, torn>>
      /\ copy' = Mutated(s)
      /\ doc' = [inode |-> doc.inode + 1, content |-> Payload(s), mtime |-> doc.mtime + 1]
  BY DEF Rename, At
<1>2. saver[s].view \in Contents
  BY <1>1 DEF SettingsInv, SaverOK, HasView
<1>3. doc \in DocType /\ doc.mtime \in Nat /\ doc.inode \in Nat
  BY SettingsTypes DEF SettingsInv, DocType
<1>4. Payload(s) \in Contents
  BY <1>2, PayloadTyped DEF SettingsInv
<1>5. /\ doc' \in DocType /\ doc'.mtime = doc.mtime + 1 /\ doc'.content = Payload(s)
  BY <1>1, <1>3, <1>4 DEF DocType
<1>6. FileMoves /\ doc' # doc /\ doc'.mtime > 0
  BY <1>3, <1>5 DEF FileMoves
<1>7. PICK m : m = Mutated(s)
  OBVIOUS
<1>8. /\ m \in [Copies -> ReadType]
      /\ \A c \in Copies : /\ m[c].mtime = copy[c].mtime
                           /\ m[c] = copy[c] \/ m[c].content \in Contents
  BY <1>2, <1>7, MutatedTyped DEF SettingsInv
<1>9. copy' \in [Copies -> ReadType] /\ \A c \in Copies : CopyOK(c)'
  BY <1>1, <1>6, <1>7, <1>8, CopiesMoved
<1>10. QED
  BY <1>1, <1>5, <1>6, <1>9, WrittenKeeps

LEMMA SaversSame ==
  ASSUME SettingsInv, UNCHANGED <<doc, saver, latest, excused>>
  PROVE  /\ doc' \in DocType /\ doc'.mtime > 0 /\ latest' \in Contents /\ excused' \subseteq Sections
         /\ saver' \in [Saves -> SaverType] /\ (\A o \in Saves : SaverOK(o)')
         /\ Alone' /\ (NoneWrites => Agrees)'
<1>1. \A o \in Saves : SaverOK(o)'
  BY DEF SettingsInv, SaverOK, ReadOf, Views
<1>2. Alone' /\ (NoneWrites => Agrees)'
  BY DEF SettingsInv, Alone, NoneWrites, Agrees
<1>3. QED
  BY <1>1, <1>2, SettingsTypes DEF SettingsInv

LEMMA RequestKeeps ==
  ASSUME SettingsInv, NEW s \in Saves, NEW k, Request(s, k)
  PROVE  SettingsInv'
<1>1. /\ load.saves > 0 /\ load' = [load EXCEPT !.saves = @ - 1] /\ k \in load.kinds
      /\ saver[s].pc = "new"
      /\ saver' = [o \in Saves |->
           IF o = s THEN [saver[s] EXCEPT !.pc = "load", !.kind = k, !.alone = AtWork = {}]
           ELSE [saver[o] EXCEPT !.alone = @ /\ o \notin AtWork]]
      /\ UNCHANGED <<doc, copy, loading, latest, excused, torn>>
  BY DEF Request, At
<1>2. \A o \in Saves : o \in AtWork <=> saver[o].pc \in Busy
  BY DEF AtWork, Busy
<1>3. saver \in [Saves -> SaverType] /\ k \in SaveKinds
  BY <1>1, SettingsTypes, LoadTyped DEF SettingsInv
<1>4. PICK lone \in BOOLEAN : lone = (AtWork = {})
  OBVIOUS
<1>5. /\ saver'[s] \in SaverType /\ saver'[s].pc = "load" /\ saver'[s].alone = lone
  <2>1. saver'[s] = [saver[s] EXCEPT !.pc = "load", !.kind = k, !.alone = lone]
    BY <1>1, <1>4
  <2>2. saver[s] \in SaverType
    BY <1>3
  <2>3. QED
    BY <1>3, <2>1, <2>2 DEF SaverType
<1>6. ASSUME NEW o \in Saves \ {s}
      PROVE  /\ saver'[o] \in SaverType /\ saver'[o].pc = saver[o].pc
             /\ saver'[o].view = saver[o].view /\ saver'[o].mtime = saver[o].mtime
             /\ (saver'[o].alone => saver[o].pc \notin Busy)
  <2>1. PICK still \in BOOLEAN : still = (saver[o].alone /\ o \notin AtWork)
    OBVIOUS
  <2>2. saver'[o] = [saver[o] EXCEPT !.alone = still]
    BY <1>1, <2>1
  <2>3. saver[o] \in SaverType
    BY <1>3
  <2>4. /\ saver'[o] \in SaverType /\ saver'[o].pc = saver[o].pc
        /\ saver'[o].view = saver[o].view /\ saver'[o].mtime = saver[o].mtime
        /\ saver'[o].alone = still
    BY <2>2, <2>3 DEF SaverType
  <2>5. QED
    BY <1>2, <2>1, <2>4
<1>7. saver' \in [Saves -> SaverType]
  BY <1>1, <1>5, <1>6
<1>8. ASSUME NEW o \in Saves PROVE SaverOK(o)'
  <2>1. CASE o = s
    BY <1>5, <2>1 DEF SaverOK, HasView
  <2>2. CASE o # s
    <3>1. SaverOK(o)
      BY DEF SettingsInv
    <3>2. /\ saver'[o].pc = saver[o].pc /\ saver'[o].view = saver[o].view
          /\ saver'[o].mtime = saver[o].mtime /\ (saver'[o].alone => saver[o].pc \notin Busy)
      BY <1>6, <2>2
    <3>3. QED
      BY <1>1, <3>1, <3>2 DEF SaverOK, ReadOf, Busy
  <2>3. QED
    BY <2>1, <2>2
<1>9. Alone'
  <2>1. SUFFICES ASSUME NEW o \in Saves, NEW x \in Saves, o # x,
                        saver'[o].alone, saver'[o].pc \in Busy
                 PROVE  saver'[x].pc \notin Busy
    BY DEF Alone
  <2>2. o = s
    BY <1>6, <2>1
  <2>3. AtWork = {}
    BY <1>4, <1>5, <2>1, <2>2
  <2>4. QED
    BY <1>2, <1>6, <2>1, <2>2, <2>3
<1>10. ASSUME NoneWrites' PROVE Agrees'
  <2>1. NoneWrites
    BY <1>1, <1>6, <1>10 DEF NoneWrites
  <2>2. QED
    BY <1>1, <2>1 DEF SettingsInv, Agrees
<1>11. copy' \in [Copies -> ReadType] /\ torn' \subseteq Copies /\ \A c \in Copies : CopyOK(c)'
  BY <1>1, CopiesSame
<1>12. loading' \in [Readers -> ReadType] /\ \A r \in Readers : LoadingOK(r)'
  BY <1>1, LoadingSame
<1>13. /\ doc' \in DocType /\ doc'.mtime > 0 /\ latest' \in Contents /\ load' \in LoadType
       /\ excused' \subseteq Sections
  BY <1>1, SettingsTypes, LoadTyped DEF SettingsInv
<1>14. QED
  BY <1>7, <1>8, <1>9, <1>10, <1>11, <1>12, <1>13, SettingsMade

LEMMA CrashKeeps == ASSUME SettingsInv, GatewayCrashes PROVE SettingsInv'
<1>1. /\ load.mishaps > 0 /\ load' = [load EXCEPT !.mishaps = @ - 1]
      /\ saver' = [s \in Saves |-> IF At(s, "new") \/ OfClient(Kind(s)) THEN saver[s]
                                   ELSE [saver[s] EXCEPT !.pc = "over"]]
      /\ copy' = [copy EXCEPT !["gateway"] = NoCopy] /\ torn' = torn \ {"gateway"}
      /\ excused' = (IF \E s \in Saves : At(s, "writing") THEN Sections ELSE excused)
      /\ UNCHANGED <<doc, loading, latest>>
  BY DEF GatewayCrashes, Mishap
<1>2. /\ saver \in [Saves -> SaverType] /\ excused \subseteq Sections /\ torn \subseteq Copies
  BY SettingsTypes DEF SettingsInv
<1>3. ASSUME NEW o \in Saves
      PROVE  /\ saver'[o] \in SaverType /\ saver'[o].alone = saver[o].alone
             /\ saver'[o] = saver[o] \/ saver'[o].pc = "over"
  <2>1. saver[o] \in SaverType
    BY <1>2
  <2>2. saver'[o] = saver[o] \/ saver'[o] = [saver[o] EXCEPT !.pc = "over"]
    BY <1>1
  <2>3. QED
    BY <2>1, <2>2 DEF SaverType
<1>4. saver' \in [Saves -> SaverType]
  BY <1>1, <1>3
<1>5. excused \subseteq excused' /\ excused' \subseteq Sections
  BY <1>1, <1>2
<1>6. ASSUME NEW o \in Saves PROVE SaverOK(o)'
  <2>1. CASE saver'[o].pc = "over"
    BY <2>1 DEF SaverOK, HasView
  <2>2. CASE saver'[o] = saver[o]
    <3>1. SaverOK(o)
      BY DEF SettingsInv
    <3>2. Views(o) => Views(o)'
      BY <1>1, <1>5, <2>2 DEF Views
    <3>3. QED
      BY <1>1, <2>2, <3>1, <3>2 DEF SaverOK, ReadOf
  <2>3. QED
    BY <1>3, <2>1, <2>2
<1>7. Alone'
  <2>1. \A o \in Saves : /\ saver'[o].alone => saver[o].alone
                         /\ saver'[o].pc \in Busy => saver[o].pc \in Busy
    BY <1>3 DEF Busy
  <2>2. QED
    BY <1>4, <2>1, AloneStays
<1>8. ASSUME NoneWrites' PROVE Agrees'
  <2>1. CASE \E s \in Saves : At(s, "writing")
    BY <1>1, <2>1 DEF Agrees
  <2>2. CASE ~\E s \in Saves : At(s, "writing")
    <3>1. NoneWrites /\ excused' = excused
      BY <1>1, <2>2 DEF NoneWrites, At
    <3>2. QED
      BY <1>1, <3>1 DEF SettingsInv, Agrees
  <2>3. QED
    BY <2>1, <2>2
<1>9. copy' \in [Copies -> ReadType] /\ torn' \subseteq Copies /\ \A c \in Copies : CopyOK(c)'
  <2>1. "gateway" \in Copies
    BY DEF Copies
  <2>2. torn' \subseteq Copies /\ torn' \ {"gateway"} = torn \ {"gateway"}
    BY <1>1, <1>2
  <2>3. QED
    BY <1>1, <2>1, <2>2, CopyDropped
<1>10. loading' \in [Readers -> ReadType] /\ \A r \in Readers : LoadingOK(r)'
  BY <1>1, LoadingSame
<1>11. doc' \in DocType /\ doc'.mtime > 0 /\ latest' \in Contents /\ load' \in LoadType
  BY <1>1, SettingsTypes, LoadTyped DEF SettingsInv
<1>12. QED
  BY <1>4, <1>5, <1>6, <1>7, <1>8, <1>9, <1>10, <1>11, SettingsMade

LEMMA LoadingSet ==
  ASSUME SettingsInv, NEW r \in Readers, NEW new \in ReadType, doc' = doc,
         loading' = [loading EXCEPT ![r] = new],
         new # NoCopy => new.content \in Contents /\ ReadOf(new.content, new.mtime)
  PROVE  loading' \in [Readers -> ReadType] /\ \A x \in Readers : LoadingOK(x)'
<1>1. loading \in [Readers -> ReadType]
  BY SettingsTypes DEF SettingsInv
<1>2. /\ loading' \in [Readers -> ReadType] /\ loading'[r] = new
      /\ \A x \in Readers \ {r} : loading'[x] = loading[x]
  BY <1>1
<1>3. ASSUME NEW x \in Readers PROVE LoadingOK(x)'
  <2>1. CASE x = r
    <3>1. NoCopy' = NoCopy
      OBVIOUS
    <3>2. QED
      BY <1>2, <2>1 DEF LoadingOK, ReadOf
  <2>2. CASE x # r
    <3>1. loading'[x] = loading[x] /\ LoadingOK(x)
      BY <1>2, <2>2 DEF SettingsInv
    <3>2. QED
      BY <3>1 DEF LoadingOK, ReadOf
  <2>3. QED
    BY <2>1, <2>2
<1>4. QED
  BY <1>2, <1>3

LEMMA ReaderKeeps ==
  ASSUME SettingsInv, NEW r \in Readers, Ask(r) \/ Answered(r)
  PROVE  SettingsInv'
<1>1. r \in Copies /\ torn \subseteq Copies /\ load \in LoadType
  BY SettingsTypes DEF SettingsInv, Copies
<1>2. CASE Ask(r)
  <2>1. /\ load' = [load EXCEPT !.asks = @ - 1] /\ load.asks > 0
        /\ UNCHANGED <<doc, saver, latest, excused, torn>>
        /\ \/ copy' = [copy EXCEPT ![r] = NoCopy] \/ copy' = copy
        /\ \/ loading' = loading
           \/ /\ Whole(doc.content)
              /\ loading' = [loading EXCEPT ![r] = [content |-> Resolved(doc.content),
                                                    mtime |-> doc.mtime]]
    BY <1>2 DEF Ask
  <2>2. load' \in LoadType /\ torn' \subseteq Copies
    BY <1>1, <2>1, LoadTyped
  <2>3. copy' \in [Copies -> ReadType] /\ \A c \in Copies : CopyOK(c)'
    BY <1>1, <2>1, CopyDropped, CopiesSame
  <2>4. loading' \in [Readers -> ReadType] /\ \A x \in Readers : LoadingOK(x)'
    <3>1. CASE loading' = loading
      BY <2>1, <3>1, LoadingSame
    <3>2. CASE /\ Whole(doc.content)
               /\ loading' = [loading EXCEPT ![r] = [content |-> Resolved(doc.content),
                                                     mtime |-> doc.mtime]]
      <4>1. PICK new : new = [content |-> Resolved(doc.content), mtime |-> doc.mtime]
        OBVIOUS
      <4>2. /\ Resolved(doc.content) \in Contents /\ doc.mtime \in Nat
            /\ ReadOf(Resolved(doc.content), doc.mtime)
        BY <3>2, FileRead
      <4>3. new \in ReadType /\ new.content = Resolved(doc.content) /\ new.mtime = doc.mtime
        BY <4>1, <4>2 DEF ReadType
      <4>4. new.content \in Contents /\ ReadOf(new.content, new.mtime)
        BY <4>2, <4>3
      <4>5. QED
        BY <2>1, <3>2, <4>1, <4>3, <4>4, LoadingSet
    <3>3. QED
      BY <2>1, <3>1, <3>2
  <2>5. QED
    BY <2>1, <2>2, <2>3, <2>4, SaversSame, SettingsMade
<1>3. CASE Answered(r)
  <2>1. /\ loading[r] # NoCopy /\ Keep(r, loading[r])
        /\ loading' = [loading EXCEPT ![r] = NoCopy]
        /\ UNCHANGED <<doc, saver, load, latest, excused>>
    BY <1>3 DEF Answered
  <2>2. loading[r].content \in Contents /\ ReadOf(loading[r].content, loading[r].mtime)
    BY <2>1 DEF SettingsInv, LoadingOK
  <2>3. /\ copy' \in [Copies -> ReadType] /\ torn' \subseteq Copies /\ \A c \in Copies : CopyOK(c)'
    BY <1>1, <2>1, <2>2, KeepSets
  <2>4. loading' \in [Readers -> ReadType] /\ \A x \in Readers : LoadingOK(x)'
    <3>1. NoCopy \in ReadType
      BY DEF NoCopy, ReadType
    <3>2. QED
      BY <2>1, <3>1, LoadingSet
  <2>5. load' \in LoadType
    BY <1>1, <2>1
  <2>6. QED
    BY <2>1, <2>3, <2>4, <2>5, SaversSame, SettingsMade
<1>4. QED
  BY <1>2, <1>3

LEMMA SettingsStep == SettingsInv /\ StNext => SettingsInv'
<1>1. SUFFICES ASSUME SettingsInv, StNext PROVE SettingsInv'
  OBVIOUS
<1>2. CASE \E s \in Saves : Asked(s)
  BY <1>1, <1>2, RequestKeeps DEF Asked, UpdateMcpConfiguration, UpdateSkill, DisableProposals,
     UpdateCommunityTool, SaveEndpoints, SaveKnowledgeVaultConfig, UpdateMcpConfig
<1>3. CASE \E s \in Saves : Saving(s)
  BY <1>1, <1>3, UseCopyKeeps, LoadFileKeeps, KeepCopyKeeps, ReadRawKeeps, OpenKeeps, PutKeeps,
     RenameKeeps, RefreshKeeps DEF Saving
<1>4. CASE \E s \in Saves : CutShort(s)
  BY <1>1, <1>4, CutShortKeeps
<1>5. CASE GatewayCrashes
  BY <1>1, <1>5, CrashKeeps
<1>6. CASE \E r \in Readers : Ask(r) \/ Answered(r)
  BY <1>1, <1>6, ReaderKeeps
<1>7. QED
  BY <1>1, <1>2, <1>3, <1>4, <1>5, <1>6 DEF StNext

LEMMA SettingsSame == SettingsInv /\ UNCHANGED settings => SettingsInv'
<1>1. SUFFICES ASSUME SettingsInv, UNCHANGED settings PROVE SettingsInv'
  OBVIOUS
<1>2. UNCHANGED <<doc, copy, loading, saver, load, latest, excused, torn>>
  BY <1>1 DEF settings
<1>3. load' \in LoadType
  BY <1>1, <1>2 DEF SettingsInv
<1>4. QED
  BY <1>1, <1>2, <1>3, SaversSame, CopiesSame, LoadingSame, SettingsMade

LEMMA SettingsStart == StInit => SettingsInv
<1>1. SUFFICES ASSUME StInit PROVE SettingsInv
  OBVIOUS
<1>2. PICK first : first = [s \in Sections |-> IF s = "mcpServers" THEN "$VAR" ELSE "first"]
  OBVIOUS
<1>3. /\ doc = [inode |-> 1, mtime |-> 1, content |-> first]
      /\ copy = [c \in Copies |-> NoCopy] /\ loading = [r \in Readers |-> NoCopy]
      /\ saver = [s \in Saves |-> [pc |-> "new", kind |-> "mcp", view |-> Empty, mtime |-> 0,
                                   inode |-> 0, alone |-> TRUE]]
      /\ load \in SettingsLoads /\ latest = doc.content /\ excused = {} /\ torn = {}
  BY <1>1, <1>2 DEF StInit
<1>4. first \in Contents
  BY <1>2 DEF Contents, Values
<1>5. doc \in DocType /\ doc.mtime = 1 /\ doc.content = first
  BY <1>3, <1>4 DEF DocType
<1>6. NoCopy \in ReadType /\ NoCopy.mtime = 0
  BY DEF NoCopy, ReadType
<1>7. \A s \in Saves : saver[s] \in SaverType /\ saver[s].pc = "new"
  BY <1>3 DEF SaverType, SaveKinds
<1>8. saver \in [Saves -> SaverType]
  BY <1>3, <1>7
<1>9. copy \in [Copies -> ReadType] /\ loading \in [Readers -> ReadType]
  BY <1>3, <1>6
<1>10. load \in LoadType
  BY <1>3, SettingsBounds DEF LoadType
<1>11. StTypeOK
  BY <1>3, <1>4, <1>5, <1>8, <1>9, <1>10, SettingsTyped
<1>12. \A c \in Copies : CopyOK(c)
  BY <1>3, <1>5, <1>6 DEF CopyOK
<1>13. \A r \in Readers : LoadingOK(r)
  BY <1>3 DEF LoadingOK
<1>14. (\A s \in Saves : SaverOK(s)) /\ Alone
  BY <1>7 DEF SaverOK, HasView, Alone, Busy
<1>15. Agrees
  <2>1. "first" # "empty" /\ first["skills"] = "first" /\ "skills" \in Sections
        /\ Empty["skills"] = "empty" /\ Garbled["skills"] = "garbled"
    BY <1>2 DEF Sections, Empty, Garbled
  <2>2. Whole(first)
    BY <2>1 DEF Whole
  <2>3. QED
    BY <1>3, <1>5, <2>2 DEF Agrees, Same
<1>16. QED
  BY <1>5, <1>10, <1>11, <1>12, <1>13, <1>14, <1>15 DEF SettingsInv

\* What the invariant says of the settings.
LEMMA SettingsSound == SettingsInv => StTypeOK /\ SerialSavesKeep /\ CopiesCatchUp
<1>1. SUFFICES ASSUME SettingsInv PROVE StTypeOK /\ SerialSavesKeep /\ CopiesCatchUp
  OBVIOUS
<1>2. SerialSavesKeep
  <2>1. SUFFICES ASSUME AtWork = {}
                 PROVE  \A s \in Sections \ excused : Whole(doc.content) /\ Same(doc.content[s], latest[s])
    BY DEF SerialSavesKeep
  <2>2. NoneWrites
    BY <2>1 DEF NoneWrites, AtWork
  <2>3. QED
    BY <1>1, <2>2 DEF SettingsInv, Agrees
<1>3. CopiesCatchUp
  BY <1>1 DEF SettingsInv, CopyOK, CopiesCatchUp, Stale
<1>4. QED
  BY <1>1, <1>2, <1>3 DEF SettingsInv

-----------------------------------------------------------------------------
(* The client.                                                               *)
Upto(n) == [i \in 1 .. n |-> i]

LEMMA UptoGrows ==
  ASSUME NEW n \in Nat, n > 0
  PROVE  Append(Upto(n - 1), n) = Upto(n)
<1>1. Upto(n - 1) \in Seq(Nat) /\ Len(Upto(n - 1)) = n - 1
  BY DEF Upto
<1>2. PICK a \in Seq(Nat) : a = Upto(n - 1)
  BY <1>1
<1>3. PICK b : b = Append(a, n)
  OBVIOUS
<1>4. /\ b \in Seq(Nat) /\ Len(b) = n /\ b[n] = n
      /\ \A i \in 1 .. (n - 1) : b[i] = a[i]
  BY <1>1, <1>2, <1>3, AppendProperties
<1>5. \A i \in 1 .. (n - 1) : a[i] = i
  BY <1>2 DEF Upto
<1>6. \A i \in 1 .. n : b[i] = i
  BY <1>4, <1>5
<1>7. b = [i \in 1 .. n |-> b[i]]
  BY <1>4
<1>8. b = Upto(n)
  BY <1>6, <1>7 DEF Upto
<1>9. QED
  BY <1>2, <1>3, <1>8

\* The filtering, when what it numbers is the numbers themselves.
LEMMA NumbersFiltered ==
  ASSUME NEW k \in Nat, NEW a, NEW T, NEW g
  PROVE  Filtering(g, k, a, Upto(k), T)
           <=> g = [n \in 0 .. k |-> IF n = 0 THEN a
                                     ELSE IF n \in T THEN g[n - 1] ELSE Append(g[n - 1], n)]
<1>1. PICK v : v = [n \in 0 .. k |-> IF n = 0 THEN a ELSE IF n \in T THEN g[n - 1]
                                     ELSE Append(g[n - 1], Upto(k)[n])]
  OBVIOUS
<1>2. PICK w : w = [n \in 0 .. k |-> IF n = 0 THEN a ELSE IF n \in T THEN g[n - 1]
                                     ELSE Append(g[n - 1], n)]
  OBVIOUS
<1>3. \A n \in 0 .. k : n # 0 => Upto(k)[n] = n
  BY DEF Upto
<1>4. \A n \in 0 .. k : v[n] = w[n]
  BY <1>1, <1>2, <1>3
<1>5. /\ v = [n \in 0 .. k |-> v[n]] /\ DOMAIN v = 0 .. k
      /\ w = [n \in 0 .. k |-> w[n]] /\ DOMAIN w = 0 .. k
  BY <1>1, <1>2
<1>6. v = w
  BY <1>4, <1>5
<1>7. QED
  BY <1>1, <1>2, <1>6 DEF Filtering

LEMMA FilteredUpto ==
  ASSUME NEW k \in Nat, NEW m \in 0 .. k, NEW g, Filtering(g, k, Upto(m), Upto(k), 1 .. m)
  PROVE  g[k] = Upto(k)
<1> DEFINE Bad == {n \in 0 .. k : g[n] # Upto(IF n <= m THEN m ELSE n)}
<1>1. CASE Bad = {}
  <2>1. k \in 0 .. k /\ (k <= m => k = m)
    OBVIOUS
  <2>2. g[k] = Upto(IF k <= m THEN m ELSE k)
    BY <1>1, <2>1
  <2>3. QED
    BY <2>1, <2>2
<1>2. CASE Bad # {}
  <2>1. PICK n \in Bad : \A j \in Bad : n <= j
    <3>1. Bad \in SUBSET Nat
      OBVIOUS
    <3> HIDE DEF Bad
    <3>2. QED
      BY <1>2, <3>1, SomeLeast
  <2>2. n \in 0 .. k /\ g[n] # Upto(IF n <= m THEN m ELSE n)
    OBVIOUS
  <2>3. g[n] = IF n = 0 THEN Upto(m)
               ELSE IF n \in 1 .. m THEN g[n - 1] ELSE Append(g[n - 1], Upto(k)[n])
    BY <2>2 DEF Filtering
  <2>4. n # 0
    BY <2>2, <2>3
  <2>5. n - 1 \in 0 .. k /\ ~(n <= n - 1) /\ n \in 1 .. k /\ n \in Nat
    BY <2>2, <2>4
  <2>6. n - 1 \notin Bad
    <3> HIDE DEF Bad
    <3>1. QED
      BY <2>1, <2>5
  <2>7. g[n - 1] = Upto(IF n - 1 <= m THEN m ELSE n - 1)
    BY <2>5, <2>6
  <2>8. CASE n <= m
    <3>1. n \in 1 .. m /\ n - 1 <= m
      BY <2>5, <2>8
    <3>2. QED
      BY <2>2, <2>3, <2>4, <2>7, <2>8, <3>1
  <2>9. CASE ~(n <= m)
    <3>1. n \notin 1 .. m /\ (IF n - 1 <= m THEN m ELSE n - 1) = n - 1
      BY <2>5, <2>9
    <3>2. Upto(k)[n] = n
      BY <2>5 DEF Upto
    <3>3. g[n] = Append(Upto(n - 1), n)
      BY <2>3, <2>4, <2>7, <3>1, <3>2
    <3>4. g[n] = Upto(n)
      <4>1. n \in Nat /\ n > 0
        BY <2>5
      <4>2. QED
        BY <3>3, <4>1, UptoGrows
    <3>5. QED
      BY <2>2, <2>9, <3>4
  <2>10. QED
    BY <2>8, <2>9
<1>3. QED
  BY <1>1, <1>2

\* A snapshot behind those that were all yielded: every message once, in order.
LEMMA EmitOrdered ==
  ASSUME NEW messages, NEW k \in Nat, Len(messages) = k, NEW m \in 0 .. k,
         NEW before, before = Upto(m), Len(before) = m
  PROVE  Emit(messages, before) = Upto(k)
<1>1. PICK T : T = {before[i] : i \in 1 .. Len(before)}
  OBVIOUS
<1>2. T = 1 .. m
  <2>1. \A i \in 1 .. m : before[i] = i
    BY DEF Upto
  <2>2. QED
    BY <1>1, <2>1
<1>3. PICK f : Filtering(f, k, before, Upto(k), T)
  BY FilteringExists
<1>4. f = [n \in 0 .. k |-> IF n = 0 THEN before
                            ELSE IF n \in T THEN f[n - 1] ELSE Append(f[n - 1], n)]
  BY <1>3, NumbersFiltered
<1>5. PICK g : g = CHOOSE yielded :
         yielded = [n \in 0 .. k |->
                      IF n = 0 THEN before
                      ELSE IF n \in T THEN yielded[n - 1] ELSE Append(yielded[n - 1], n)]
  OBVIOUS
<1>6. g = [n \in 0 .. k |-> IF n = 0 THEN before
                            ELSE IF n \in T THEN g[n - 1] ELSE Append(g[n - 1], n)]
  BY <1>4, <1>5
<1>7. Emit(messages, before) = g[k]
  BY <1>1, <1>5 DEF Emit
<1>8. Filtering(g, k, before, Upto(k), T)
  <2>1. Filtering(g, k, before, Upto(k), T)
          <=> g = [n \in 0 .. k |-> IF n = 0 THEN before
                                    ELSE IF n \in T THEN g[n - 1] ELSE Append(g[n - 1], n)]
    BY NumbersFiltered
  <2>2. QED
    BY <1>6, <2>1
<1>9. QED
  BY <1>2, <1>7, <1>8, FilteredUpto

\* Where the client's requests come from when they are over, or at work on an open file.
Done == {"reload", "restat", "over"}
Moves(o) ==
  /\ OfClient(Kind(o))' /\ saver'[o].pc = "writing"
       => OfClient(Kind(o)) /\ saver[o].pc = "writing"
  /\ OfClient(Kind(o))' /\ saver'[o].pc \in Done
       => /\ OfClient(Kind(o))
          /\ \/ saver[o].pc \in Done \cup {"writing"}
             \/ saver[o].pc = "write" /\ saver'[o].pc = "reload"

LEMMA OneMoves ==
  ASSUME saver \in [Saves -> SaverType], NEW s \in Saves, NEW job,
         saver' = [saver EXCEPT ![s] = job], job.kind = saver[s].kind,
         job.pc = "writing" => ~OfClient(job.kind),
         job.pc \in Done => \/ saver[s].pc \in Done \cup {"writing"}
                            \/ saver[s].pc = "write" /\ job.pc = "reload",
         NEW o \in Saves
  PROVE  Moves(o)
<1>1. saver'[s] = job /\ \A x \in Saves \ {s} : saver'[x] = saver[x]
  OBVIOUS
<1>2. CASE o = s
  BY <1>1, <1>2 DEF Moves, Kind, OfClient, Done
<1>3. CASE o # s
  BY <1>1, <1>3 DEF Moves, Kind, OfClient, Done
<1>4. QED
  BY <1>2, <1>3

LEMMA SaverMoves ==
  ASSUME saver \in [Saves -> SaverType], load \in LoadType, StNext, NEW o \in Saves
  PROVE  Moves(o)
<1>1. CASE saver' = saver
  BY <1>1 DEF Moves, Kind, OfClient, Done
<1>2. ASSUME NEW s \in Saves, NEW k, Request(s, k) PROVE Moves(o)
  <2>1. saver' = [x \in Saves |->
           IF x = s THEN [saver[s] EXCEPT !.pc = "load", !.kind = k, !.alone = AtWork = {}]
           ELSE [saver[x] EXCEPT !.alone = @ /\ x \notin AtWork]]
    BY <1>2 DEF Request
  <2>2. CASE o = s
    <3>1. saver'[o] = [saver[s] EXCEPT !.pc = "load", !.kind = k, !.alone = AtWork = {}]
      BY <2>1, <2>2
    <3>2. saver'[o].pc = "load"
      BY <3>1 DEF SaverType
    <3>3. QED
      BY <3>2 DEF Moves, Done
  <2>3. CASE o # s
    <3>1. PICK still : still = (saver[o].alone /\ o \notin AtWork)
      OBVIOUS
    <3>2. saver'[o] = [saver[o] EXCEPT !.alone = still]
      BY <2>1, <2>3, <3>1
    <3>3. saver'[o].pc = saver[o].pc /\ saver'[o].kind = saver[o].kind
      BY <3>2 DEF SaverType
    <3>4. QED
      BY <3>3 DEF Moves, Kind, OfClient, Done
  <2>4. QED
    BY <2>2, <2>3
<1>3. ASSUME NEW s \in Saves, Saving(s) \/ CutShort(s) PROVE Moves(o)
  <2>1. PICK old \in SaverType : old = saver[s]
    OBVIOUS
  <2>2. SUFFICES \E job : /\ saver' = [saver EXCEPT ![s] = job] /\ job.kind = old.kind
                          /\ job.pc = "writing" => ~OfClient(job.kind)
                          /\ job.pc \in Done => \/ old.pc \in Done \cup {"writing"}
                                                \/ old.pc = "write" /\ job.pc = "reload"
    BY <2>1, OneMoves
  <2>3. CASE UseCopy(s)
    <3>1. PICK job : job = [old EXCEPT !.pc = "write", !.view = copy[CopyOf(Kind(s))].content,
                                     !.alone = @ /\ CopyOf(Kind(s)) \notin torn]
      OBVIOUS
    <3>2. saver' = [saver EXCEPT ![s] = job]
      BY <2>1, <2>3, <3>1 DEF UseCopy
    <3>3. job.pc = "write" /\ job.kind = old.kind
      BY <3>1 DEF SaverType
    <3>4. QED
      BY <3>2, <3>3 DEF Done
  <2>4. CASE LoadFile(s) /\ Whole(doc.content)
    <3>1. PICK job : job = [old EXCEPT !.pc = "stat", !.view = Resolved(doc.content),
                                     !.mtime = doc.mtime]
      OBVIOUS
    <3>2. saver' = [saver EXCEPT ![s] = job]
      BY <2>1, <2>4, <3>1 DEF LoadFile
    <3>3. job.pc = "stat" /\ job.kind = old.kind
      BY <3>1 DEF SaverType
    <3>4. QED
      BY <3>2, <3>3 DEF Done
  <2>5. CASE LoadFile(s) /\ ~Whole(doc.content)
    <3>1. PICK job : job = [old EXCEPT !.pc = "failed"]
      OBVIOUS
    <3>2. saver' = [saver EXCEPT ![s] = job]
      BY <2>1, <2>5, <3>1 DEF LoadFile
    <3>3. job.pc = "failed" /\ job.kind = old.kind
      BY <3>1 DEF SaverType
    <3>4. QED
      BY <3>2, <3>3 DEF Done
  <2>6. CASE KeepCopy(s) /\ saver[s].pc = "stat"
    <3>1. PICK job : job = [old EXCEPT !.pc = "write"]
      OBVIOUS
    <3>2. saver' = [saver EXCEPT ![s] = job]
      BY <2>1, <2>6, <3>1 DEF KeepCopy
    <3>3. job.pc = "write" /\ job.kind = old.kind
      BY <3>1 DEF SaverType
    <3>4. QED
      BY <3>2, <3>3 DEF Done
  <2>7. CASE KeepCopy(s) /\ saver[s].pc # "stat"
    <3>1. PICK job : job = [old EXCEPT !.pc = "over"]
      OBVIOUS
    <3>2. saver' = [saver EXCEPT ![s] = job]
      BY <2>1, <2>7, <3>1 DEF KeepCopy
    <3>3. job.pc = "over" /\ job.kind = old.kind
      BY <3>1 DEF SaverType
    <3>4. old.pc = "restat"
      BY <2>1, <2>7 DEF KeepCopy
    <3>5. QED
      BY <3>2, <3>3, <3>4 DEF Done
  <2>8. CASE ReadRaw(s)
    <3>1. PICK job : job = [old EXCEPT !.pc = "write",
                     !.view = IF Whole(doc.content) THEN doc.content ELSE [x \in Sections |-> "absent"]]
      OBVIOUS
    <3>2. saver' = [saver EXCEPT ![s] = job]
      BY <2>1, <2>8, <3>1 DEF ReadRaw
    <3>3. job.pc = "write" /\ job.kind = old.kind
      BY <3>1 DEF SaverType
    <3>4. QED
      BY <3>2, <3>3 DEF Done
  <2>9. CASE Open(s)
    <3>1. PICK job : job = [old EXCEPT !.pc = "writing", !.inode = doc.inode]
      OBVIOUS
    <3>2. saver' = [saver EXCEPT ![s] = job]
      BY <2>1, <2>9, <3>1 DEF Open
    <3>3. job.pc = "writing" /\ job.kind = old.kind
      BY <3>1 DEF SaverType
    <3>4. ~OfClient(old.kind)
      BY <2>1, <2>9 DEF Open, Renames, Kind
    <3>5. QED
      BY <3>2, <3>3, <3>4 DEF Done
  <2>10. CASE Put(s)
    <3>1. PICK job : job = [old EXCEPT !.pc = "reload"]
      OBVIOUS
    <3>2. saver' = [saver EXCEPT ![s] = job]
      BY <2>1, <2>10, <3>1 DEF Put, Written
    <3>3. job.pc = "reload" /\ job.kind = old.kind
      BY <3>1 DEF SaverType
    <3>4. old.pc = "writing"
      BY <2>1, <2>10 DEF Put, At
    <3>5. QED
      BY <3>2, <3>3, <3>4 DEF Done
  <2>11. CASE Rename(s)
    <3>1. PICK job : job = [old EXCEPT !.pc = "reload"]
      OBVIOUS
    <3>2. saver' = [saver EXCEPT ![s] = job]
      BY <2>1, <2>11, <3>1 DEF Rename, Written
    <3>3. job.pc = "reload" /\ job.kind = old.kind
      BY <3>1 DEF SaverType
    <3>4. old.pc = "write"
      BY <2>1, <2>11 DEF Rename, At
    <3>5. QED
      BY <3>2, <3>3, <3>4 DEF Done
  <2>12. CASE Reload(s) /\ Whole(doc.content)
    <3>1. PICK job : job = [old EXCEPT !.pc = "restat", !.view = Resolved(doc.content),
                                     !.mtime = doc.mtime]
      OBVIOUS
    <3>2. saver' = [saver EXCEPT ![s] = job]
      BY <2>1, <2>12, <3>1 DEF Reload
    <3>3. job.pc = "restat" /\ job.kind = old.kind
      BY <3>1 DEF SaverType
    <3>4. old.pc = "reload"
      BY <2>1, <2>12 DEF Reload, At
    <3>5. QED
      BY <3>2, <3>3, <3>4 DEF Done
  <2>13. CASE Reload(s) /\ ~Whole(doc.content)
    <3>1. PICK job : job = [old EXCEPT !.pc = "over"]
      OBVIOUS
    <3>2. saver' = [saver EXCEPT ![s] = job]
      BY <2>1, <2>13, <3>1 DEF Reload
    <3>3. job.pc = "over" /\ job.kind = old.kind
      BY <3>1 DEF SaverType
    <3>4. old.pc = "reload"
      BY <2>1, <2>13 DEF Reload, At
    <3>5. QED
      BY <3>2, <3>3, <3>4 DEF Done
  <2>14. CASE CutShort(s)
    <3>1. PICK job : job = [old EXCEPT !.pc = "failed"]
      OBVIOUS
    <3>2. saver' = [saver EXCEPT ![s] = job]
      BY <2>1, <2>14, <3>1 DEF CutShort
    <3>3. job.pc = "failed" /\ job.kind = old.kind
      BY <3>1 DEF SaverType
    <3>4. QED
      BY <3>2, <3>3 DEF Done
  <2>15. QED
    BY <1>3, <2>3, <2>4, <2>5, <2>6, <2>7, <2>8, <2>9, <2>10, <2>11, <2>12, <2>13, <2>14 DEF Saving
<1>4. ASSUME GatewayCrashes PROVE Moves(o)
  <2>1. saver' = [s \in Saves |-> IF At(s, "new") \/ OfClient(Kind(s)) THEN saver[s]
                                  ELSE [saver[s] EXCEPT !.pc = "over"]]
    BY <1>4 DEF GatewayCrashes
  <2>2. CASE saver'[o] = saver[o]
    BY <2>2 DEF Moves, Kind, OfClient, Done
  <2>3. CASE saver'[o] # saver[o]
    <3>1. ~OfClient(saver[o].kind) /\ saver'[o] = [saver[o] EXCEPT !.pc = "over"]
      BY <2>1, <2>3 DEF Kind
    <3>2. saver'[o].kind = saver[o].kind
      BY <3>1 DEF SaverType
    <3>3. QED
      BY <3>1, <3>2 DEF Moves, Kind, OfClient
  <2>4. QED
    BY <2>2, <2>3
<1>5. ASSUME NEW r \in Readers, Ask(r) \/ Answered(r) PROVE saver' = saver
  BY <1>5 DEF Ask, Answered
<1>6. ASSUME NEW s \in Saves, Asked(s) PROVE \E k : Request(s, k)
  BY <1>6 DEF Asked, UpdateMcpConfiguration, UpdateSkill, DisableProposals,
     UpdateCommunityTool, SaveEndpoints, SaveKnowledgeVaultConfig, UpdateMcpConfig
<1>7. QED
  BY <1>1, <1>2, <1>3, <1>4, <1>5, <1>6 DEF StNext

AgentType == [key : Params \cup {"none"}, saves : SUBSET Saves]
MessageType == [type : Types, text : BOOLEAN]
ClientInv ==
  /\ agent \in AgentType /\ conversation \in Seq(MessageType) /\ emitted \in Seq(Nat)
  /\ streaming \in BOOLEAN /\ turns \in Nat
  /\ EachMessageOnce /\ AgentKnowsItsSaves
  /\ \A s \in Saves : OfClient(Kind(s)) => saver[s].pc # "writing"

LEMMA UptoTyped ==
  ASSUME NEW n \in Nat
  PROVE  Upto(n) \in Seq(Nat) /\ Len(Upto(n)) = n
<1>1. \A i \in 1 .. n : i \in Nat
  OBVIOUS
<1>2. QED
  BY <1>1 DEF Upto

LEMMA StreamKeeps ==
  ASSUME ClientInv, NEW p \in Params, StreamBegins(p)
  PROVE  ClientInv'
<1>1. PICK message : message = [type |-> "human", text |-> TRUE]
  OBVIOUS
<1>2. PICK old \in Seq(MessageType) : old = conversation
  BY DEF ClientInv
<1>3. PICK messages : messages = Append(old, message)
  OBVIOUS
<1>4. PICK k \in Nat : k = Len(old) + 1
  OBVIOUS
<1>5. message \in MessageType
  BY <1>1 DEF MessageType, Types
<1>6. messages \in Seq(MessageType) /\ Len(messages) = k
  BY <1>3, <1>4, <1>5, AppendProperties
<1>7. /\ agent' = IF agent.key = p THEN agent ELSE [key |-> p, saves |-> ClientSaves]
      /\ streaming' = TRUE /\ turns' = Len(messages) /\ conversation' = messages
      /\ emitted' = Emit(messages, <<>>) /\ UNCHANGED settings
  BY <1>1, <1>2, <1>3 DEF StreamBegins
<1>8. emitted' = Upto(k)
  <2>1. PICK before : before = <<>>
    OBVIOUS
  <2>2. before = Upto(0) /\ Len(before) = 0 /\ 0 \in 0 .. k
    BY <2>1 DEF Upto
  <2>3. QED
    BY <1>6, <1>7, <2>1, <2>2, EmitOrdered
<1>9. EachMessageOnce'
  BY <1>6, <1>7, <1>8 DEF EachMessageOnce, Upto
<1>10. ClientSaves' = ClientSaves /\ UNCHANGED saver
  BY <1>7 DEF settings, ClientSaves, Kind
<1>11. ClientSaves \in SUBSET Saves
  BY DEF ClientSaves
<1>12. agent' \in AgentType
  BY <1>7, <1>11 DEF ClientInv, AgentType
<1>13. AgentKnowsItsSaves'
  <2>1. CASE agent' = agent
    BY <1>10, <2>1 DEF ClientInv, AgentKnowsItsSaves, NoAgent
  <2>2. CASE agent' = [key |-> p, saves |-> ClientSaves]
    BY <1>10, <2>2 DEF AgentKnowsItsSaves
  <2>3. QED
    BY <1>7, <2>1, <2>2
<1>14. emitted' \in Seq(Nat)
  BY <1>8, UptoTyped
<1>15. streaming' \in BOOLEAN /\ turns' \in Nat /\ conversation' \in Seq(MessageType)
  BY <1>6, <1>7
<1>16. \A s \in Saves : OfClient(Kind(s))' => saver'[s].pc # "writing"
  BY <1>10 DEF ClientInv, Kind
<1>17. QED
  BY <1>9, <1>12, <1>13, <1>14, <1>15, <1>16 DEF ClientInv

LEMMA GrowsKeeps ==
  ASSUME ClientInv, NEW type \in {"ai", "tool"}, NEW text \in BOOLEAN, Grows(type, text)
  PROVE  ClientInv'
<1>1. PICK message : message = [type |-> type, text |-> text]
  OBVIOUS
<1>2. PICK old \in Seq(MessageType) : old = conversation
  BY DEF ClientInv
<1>3. PICK messages : messages = Append(old, message)
  OBVIOUS
<1>4. PICK m \in Nat : m = Len(old)
  OBVIOUS
<1>5. message \in MessageType
  BY <1>1 DEF MessageType, Types
<1>6. messages \in Seq(MessageType) /\ Len(messages) = m + 1
  BY <1>3, <1>4, <1>5, AppendProperties
<1>7. /\ streaming /\ conversation' = messages /\ emitted' = Emit(messages, emitted)
      /\ UNCHANGED <<agent, streaming, turns, settings>>
  BY <1>1, <1>2, <1>3 DEF Grows
<1>8. emitted' = Upto(m + 1)
  <2>1. PICK before : before = emitted
    OBVIOUS
  <2>2. before = Upto(m)
    BY <1>2, <1>4, <1>7, <2>1 DEF ClientInv, EachMessageOnce, Upto
  <2>3. Len(before) = m /\ m \in 0 .. (m + 1) /\ m + 1 \in Nat
    BY <2>2, UptoTyped
  <2>4. QED
    BY <1>6, <1>7, <2>1, <2>2, <2>3, EmitOrdered
<1>9. EachMessageOnce'
  BY <1>6, <1>7, <1>8 DEF EachMessageOnce, Upto
<1>10. ClientSaves' = ClientSaves /\ UNCHANGED saver
  BY <1>7 DEF settings, ClientSaves, Kind
<1>11. AgentKnowsItsSaves'
  BY <1>7, <1>10 DEF ClientInv, AgentKnowsItsSaves, NoAgent
<1>12. emitted' \in Seq(Nat)
  BY <1>8, UptoTyped
<1>13. \A s \in Saves : OfClient(Kind(s))' => saver'[s].pc # "writing"
  BY <1>10 DEF ClientInv, Kind
<1>14. agent' \in AgentType /\ streaming' \in BOOLEAN /\ turns' \in Nat
  BY <1>7 DEF ClientInv, AgentType
<1>15. QED
  BY <1>6, <1>7, <1>9, <1>11, <1>12, <1>13, <1>14 DEF ClientInv

\* The client lets its agent go with every file it replaces.
LEMMA DropKeeps ==
  ASSUME ClientInv, SettingsInv, StNext, AgentDropped,
         UNCHANGED <<conversation, streaming, emitted, turns>>
  PROVE  ClientInv'
<1>1. saver \in [Saves -> SaverType] /\ load \in LoadType
  BY SettingsTypes DEF SettingsInv
<1>2. \A o \in Saves : Moves(o)
  BY <1>1, SaverMoves
<1>3. NoAgent \in AgentType
  BY DEF NoAgent, AgentType
<1>4. agent' \in AgentType /\ (agent' = agent \/ agent' = NoAgent)
  BY <1>3 DEF AgentDropped, ClientInv
<1>5. \A s \in Saves : OfClient(Kind(s))' => saver'[s].pc # "writing"
  BY <1>2 DEF Moves, ClientInv
<1>6. ASSUME agent' # NoAgent, NEW s \in ClientSaves' PROVE s \in agent'.saves
  <2>1. agent' = agent /\ ~(\E x \in Saves : OfClient(Kind(x)) /\ saver[x].pc = "write"
                                              /\ saver'[x].pc = "reload")
    BY <1>4, <1>6 DEF AgentDropped
  <2>2. s \in Saves /\ OfClient(Kind(s))' /\ saver'[s].pc \in Done
    BY <1>6 DEF ClientSaves, Done
  <2>3. /\ OfClient(Kind(s))
        /\ \/ saver[s].pc \in Done \cup {"writing"}
           \/ saver[s].pc = "write" /\ saver'[s].pc = "reload"
    BY <1>2, <2>2 DEF Moves
  <2>4. saver[s].pc \in Done
    BY <2>1, <2>2, <2>3 DEF ClientInv
  <2>5. s \in ClientSaves
    BY <2>2, <2>3, <2>4 DEF ClientSaves, Done
  <2>6. QED
    BY <1>6, <2>1, <2>5 DEF ClientInv, AgentKnowsItsSaves
<1>7. AgentKnowsItsSaves'
  <2>1. NoAgent' = NoAgent
    BY DEF NoAgent
  <2>2. QED
    BY <1>6, <2>1 DEF AgentKnowsItsSaves
<1>8. EachMessageOnce'
  BY DEF ClientInv, EachMessageOnce
<1>9. QED
  BY <1>4, <1>5, <1>7, <1>8 DEF ClientInv

LEMMA ClientStep == SettingsInv /\ ClientInv /\ ClNext => SettingsInv' /\ ClientInv'
<1>1. SUFFICES ASSUME SettingsInv, ClientInv, ClNext PROVE SettingsInv' /\ ClientInv'
  OBVIOUS
<1>2. CASE \E p \in Params : StreamBegins(p)
  <2>1. ClientInv'
    BY <1>1, <1>2, StreamKeeps
  <2>2. UNCHANGED settings
    BY <1>2 DEF StreamBegins
  <2>3. QED
    BY <1>1, <2>1, <2>2, SettingsSame
<1>3. CASE \E text \in BOOLEAN : Grows("ai", text) \/ Grows("tool", text)
  <2>1. PICK text \in BOOLEAN, type \in {"ai", "tool"} : Grows(type, text)
    BY <1>3
  <2>2. ClientInv'
    BY <1>1, <2>1, GrowsKeeps
  <2>3. UNCHANGED settings
    BY <2>1 DEF Grows
  <2>4. QED
    BY <1>1, <2>2, <2>3, SettingsSame
<1>4. CASE StreamEnds
  <2>1. streaming' = FALSE /\ UNCHANGED <<agent, conversation, emitted, turns, settings>>
    BY <1>4 DEF StreamEnds
  <2>2. UNCHANGED saver
    BY <2>1 DEF settings
  <2>3. EachMessageOnce' /\ streaming' \in BOOLEAN
    BY <2>1 DEF EachMessageOnce
  <2>4. AgentKnowsItsSaves'
    BY <1>1, <2>1, <2>2 DEF ClientInv, AgentKnowsItsSaves, ClientSaves, NoAgent, Kind
  <2>5. ClientInv'
    BY <1>1, <2>1, <2>2, <2>3, <2>4 DEF ClientInv, Kind
  <2>6. QED
    BY <1>1, <2>1, <2>5, SettingsSame
<1>5. CASE StNext /\ AgentDropped /\ UNCHANGED <<conversation, streaming, emitted, turns>>
  BY <1>1, <1>5, SettingsStep, DropKeeps
<1>6. QED
  BY <1>1, <1>2, <1>3, <1>4, <1>5 DEF ClNext

LEMMA ClientSame ==
  SettingsInv /\ ClientInv /\ UNCHANGED <<settings, client>> => SettingsInv' /\ ClientInv'
<1>1. SUFFICES ASSUME SettingsInv, ClientInv, UNCHANGED <<settings, client>>
               PROVE  SettingsInv' /\ ClientInv'
  OBVIOUS
<1>2. UNCHANGED <<agent, conversation, streaming, emitted, turns>> /\ UNCHANGED saver
  BY <1>1 DEF client, settings
<1>3. ClientInv'
  BY <1>1, <1>2 DEF ClientInv, EachMessageOnce, AgentKnowsItsSaves, ClientSaves, NoAgent, Kind
<1>4. QED
  BY <1>1, <1>3, SettingsSame

LEMMA ClientStarts == StInit /\ ClInit => ClientInv
<1>1. SUFFICES ASSUME StInit, ClInit PROVE ClientInv
  OBVIOUS
<1>2. /\ agent = NoAgent /\ conversation = <<>> /\ streaming = FALSE /\ emitted = <<>> /\ turns = 0
  BY <1>1 DEF ClInit
<1>3. agent \in AgentType
  BY <1>2 DEF NoAgent, AgentType
<1>4. EachMessageOnce /\ AgentKnowsItsSaves
  BY <1>2 DEF EachMessageOnce, AgentKnowsItsSaves
<1>5. \A s \in Saves : saver[s].pc = "new"
  BY <1>1 DEF StInit
<1>6. conversation \in Seq(MessageType) /\ emitted \in Seq(Nat)
  BY <1>2
<1>7. streaming \in BOOLEAN /\ turns \in Nat
  BY <1>2
<1>8. QED
  BY <1>3, <1>4, <1>5, <1>6, <1>7 DEF ClientInv

LEMMA ClientSound == ClientInv => ClTypeOK /\ EachMessageOnce /\ AgentKnowsItsSaves
  BY DEF ClientInv, ClTypeOK, AgentType, MessageType

-----------------------------------------------------------------------------
(* Memory, settings and client together.                                     *)
FilesInv == MemoryInv /\ SettingsInv /\ ClientInv

LEMMA FilesInvInit == AllInit => FilesInv
<1>1. SUFFICES ASSUME AllInit PROVE FilesInv
  OBVIOUS
<1>2. MemoryInit /\ StInit /\ ClInit
  BY <1>1 DEF AllInit
<1>3. QED
  BY <1>2, MemoryInvInit, SettingsStart, ClientStarts DEF FilesInv

LEMMA FilesInvStep == FilesInv /\ [AllNext]_allVars => FilesInv'
<1>1. SUFFICES ASSUME FilesInv, [AllNext]_allVars PROVE FilesInv'
  OBVIOUS
<1>2. CASE MemoryNext /\ UNCHANGED <<settings, client>>
  BY <1>1, <1>2, MemoryInvStep, ClientSame DEF FilesInv
<1>3. CASE load.kinds # {} /\ ClNext /\ UNCHANGED memory
  BY <1>1, <1>3, MemorySame, ClientStep DEF FilesInv
<1>4. CASE UNCHANGED allVars
  BY <1>1, <1>4, MemorySame, ClientSame DEF FilesInv, allVars
<1>5. QED
  BY <1>1, <1>2, <1>3, <1>4 DEF AllNext

\* Whatever edits, updates, requests to save and turns there are: nothing pending is
\* left without a timer, and once those at work are done index, caches, file and copies
\* agree, settings saved one after the other are all kept, a stream yields each message
\* once, and an agent that is kept knows its client's saves.
THEOREM FilesStaySound == AllSpec => []FilesAreSound
<1>1. FilesInv => FilesAreSound
  <2>1. SUFFICES ASSUME FilesInv PROVE FilesAreSound
    OBVIOUS
  <2>2. MemoryTypeOK /\ NoStrandedEntry
    BY <2>1, TypeParts DEF FilesInv, MemoryInv
  <2>3. RestIsConsistent
    BY <2>1, RestsSound DEF FilesInv, MemoryInv
  <2>4. StTypeOK /\ SerialSavesKeep /\ CopiesCatchUp
    BY <2>1, SettingsSound DEF FilesInv
  <2>5. ClTypeOK /\ EachMessageOnce /\ AgentKnowsItsSaves
    BY <2>1, ClientSound DEF FilesInv
  <2>6. QED
    BY <2>2, <2>3, <2>4, <2>5 DEF FilesAreSound, AllTypeOK
<1>2. QED
  BY <1>1, FilesInvInit, FilesInvStep, PTL DEF AllSpec

\* What a save stores is the file with what its operation changed, as long as no edit met
\* an update and no failure left something half done in a cache, the file or the index:
\* the updates of the queue never undo each other.
THEOREM UpdatesAreKept == AllSpec => NoLostUpdate
<1>1. ASSUME FilesInv, [AllNext]_allVars
      PROVE  [\A o \in Ops : op[o].pc = "replace" /\ file' # file /\ op'[o].pc # "replace" /\ ~crossed'
                => file'.items = (file.items \ op[o].minus) \cup op[o].plus]_scope
  <2>1. CASE MemoryNext
    BY <1>1, <2>1, StoresStep DEF FilesInv, Loses
  <2>2. CASE UNCHANGED memory
    BY <2>2 DEF memory, scope
  <2>3. QED
    BY <1>1, <2>1, <2>2 DEF AllNext, allVars
<1>2. QED
  BY <1>1, FilesInvInit, FilesInvStep, PTL DEF AllSpec, NoLostUpdate
=============================================================================
