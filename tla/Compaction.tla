----------------------------- MODULE Compaction ----------------------------
(***************************************************************************)
(* compact_thread of gateway/routers/steering.py: the search for a cutoff    *)
(* that keeps tool calls and their results together                          *)
(* (_safe_compaction_cutoff, one step per turn of its loop), the new history *)
(* (_compact_messages) and its write-back to the thread.                     *)
(*                                                                          *)
(* A message is what the algorithm reads of it: the ids of the tool calls it *)
(* makes and the call it answers.  Every message has an id of its own.       *)
(***************************************************************************)
EXTENDS Integers, Sequences, FiniteSets, TLAPS

CONSTANTS
    Ids,         \* tool call ids
    KeepRecent,  \* _COMPACTION_KEEP_RECENT
    MinMessages, \* _COMPACTION_MIN_MESSAGES
    Histories    \* the message histories considered

NoCall == "nothing"
Message == [calls : SUBSET Ids, answers : Ids \cup {NoCall}]

ASSUME CompactionAssumption ==
    /\ KeepRecent \in Nat /\ MinMessages \in Nat /\ KeepRecent <= MinMessages
    /\ NoCall \notin Ids
    /\ Histories \subseteq Seq(Message)

VARIABLES
    messages,    \* the history read from the thread, 1..Len(messages)
    cutoff,      \* how many of its messages go
    pc,          \* "read", "search", "found", "written", "no_op"
    thread       \* the thread's messages: numbers of the history, 0 the summary

vars == <<messages, cutoff, pc, thread>>

Positions == DOMAIN messages
Answers(k) == messages[k].answers
Calls(k) == messages[k].calls

\* The result at k has its call among the messages after c.
Paired(c, k) == \E j \in (c + 1)..k : Answers(k) \in Calls(j)

\* The first preserved result without its call.
Orphans(c) == {k \in Positions : k > c /\ Answers(k) # NoCall /\ ~Paired(c, k)}
FirstOrphan(c, k) == k \in Orphans(c) /\ \A j \in Orphans(c) : k <= j

\* The last message up to c that makes the call.
LastCall(c, id, j) == /\ j \in 1..c /\ id \in Calls(j)
                      /\ \A i \in (j + 1)..c : id \notin Calls(i)

Desired == LET n == Len(messages) - KeepRecent IN IF n < 0 THEN 0 ELSE n

TypeOK ==
    /\ messages \in Seq(Message)
    /\ cutoff \in 0..Len(messages)
    /\ pc \in {"read", "search", "found", "written", "no_op"}
    /\ thread \in Seq(0..Len(messages))

Init ==
    /\ messages \in Histories
    /\ cutoff = 0 /\ pc = "read"
    /\ thread = [k \in DOMAIN messages |-> k]

\* get_state, and _compact_messages up to the loop.
ReadThread ==
    /\ pc = "read"
    /\ IF Len(messages) < MinMessages
       THEN pc' = "no_op" /\ UNCHANGED cutoff
       ELSE pc' = "search" /\ cutoff' = Desired
    /\ UNCHANGED <<messages, thread>>

\* Mutant: to the first call instead of the last.
MoveBackFar ==
    /\ pc = "search" /\ cutoff > 0
    /\ \E k \in Positions, j \in Positions :
          /\ FirstOrphan(cutoff, k) /\ LastCall(cutoff, Answers(k), j)
          /\ cutoff' = IF j > 1 THEN j - 2 ELSE 0
    /\ UNCHANGED <<messages, pc, thread>>

\* The first orphan's call is kept too.
MoveBack ==
    /\ pc = "search" /\ cutoff > 0
    /\ \E k \in Positions, j \in Positions :
          /\ FirstOrphan(cutoff, k) /\ LastCall(cutoff, Answers(k), j)
          /\ cutoff' = j - 1
    /\ UNCHANGED <<messages, pc, thread>>

\* Nobody made the call: everything through the orphan goes.
SkipOrphan ==
    /\ pc = "search" /\ cutoff > 0
    /\ \E k \in Positions :
          /\ FirstOrphan(cutoff, k)
          /\ \A j \in 1..cutoff : Answers(k) \notin Calls(j)
          /\ cutoff' = k
    /\ UNCHANGED <<messages, pc, thread>>

\* The loop ends; a history with fewer than two messages to drop is left alone.
Found ==
    /\ pc = "search"
    /\ cutoff = 0 \/ Orphans(cutoff) = {}
    /\ pc' = IF cutoff < 2 THEN "no_op" ELSE "found"
    /\ UNCHANGED <<messages, cutoff, thread>>

\* The new history: a summary, then what was preserved.
NewHistory == <<0>> \o [k \in 1..(Len(messages) - cutoff) |-> cutoff + k]

\* The messages reducer of the thread's state: a message whose id is there
\* replaces it, one with a new id is appended; nothing goes unless a
\* RemoveMessage says so.
AddMessages(old, new) == old \o SelectSeq(new, LAMBDA m : \A k \in DOMAIN old : old[k] # m)

\* update_state.
WriteBack ==
    /\ pc = "found" /\ pc' = "written"
    /\ thread' = AddMessages(thread, NewHistory)
    /\ UNCHANGED <<messages, cutoff>>

Loop == MoveBack \/ SkipOrphan \/ Found
Next == ReadThread \/ Loop \/ WriteBack

Spec == Init /\ [][Next]_vars
FairSpec == Spec /\ WF_vars(Next)

----------------------------------------------------------------------------
(* Properties.                                                              *)

\* Every result comes after its call, as in a history nobody tampered with;
\* a provider may use an id again.
WellFormed == \A k \in Positions : Answers(k) # NoCall => Paired(0, k)

\* The search against its definition: the largest cutoff that keeps the recent
\* messages and separates no result from its call; a history is left alone only
\* if it is short or has no such cutoff worth taking (steering.py:319-369).
CutoffIsBest ==
    WellFormed =>
    /\ pc \in {"found", "written"} =>
          /\ cutoff <= Desired /\ Orphans(cutoff) = {}
          /\ \A c \in (cutoff + 1)..Desired : Orphans(c) # {}
    /\ pc = "no_op" /\ Len(messages) >= MinMessages =>
          \A c \in 2..Desired : Orphans(c) # {}

\* In any history, recent messages go only with a result nobody called for
\* (steering.py:342-354).
SkipsOnlyOrphans ==
    pc = "found" /\ cutoff > Desired =>
    Answers(cutoff) # NoCall /\ ~Paired(0, cutoff)

\* The search ends in every well-formed history (steering.py:322-356).
Ends == WellFormed => <>(pc \in {"written", "no_op"})

\* What the comment says of a malformed history: the orphan is skipped, and
\* the search ends there too (steering.py:343-344).
Terminates == <>(pc \in {"written", "no_op"})

\* What the endpoint's description and its message_count say of an accepted
\* compaction: the thread is the summary and what was preserved
\* (steering.py:783, 816).
ThreadIsCompacted == pc = "written" => Len(thread) = Len(messages) - cutoff + 1

----------------------------------------------------------------------------
(* The proofs about the search, for histories of any length over any tool   *)
(* call ids.  The invariant of the loop is Tight: no cutoff between the     *)
(* current one and the desired one is safe.                                 *)

\* The part of the type invariant the search needs.
SearchOK == messages \in Seq(Message) /\ cutoff \in 0..Len(messages)

Tight ==
    /\ pc \in {"search", "found", "written"} =>
          cutoff <= Desired /\ \A c \in (cutoff + 1)..Desired : Orphans(c) # {}
    /\ pc \in {"found", "written"} => Orphans(cutoff) = {}
    /\ pc = "no_op" /\ Len(messages) >= MinMessages => \A c \in 2..Desired : Orphans(c) # {}

IInv == SearchOK /\ (WellFormed => Tight)

LEMMA Lengths ==
    ASSUME messages \in Seq(Message)
    PROVE  Len(messages) \in Nat /\ Positions = 1..Len(messages) /\ Desired \in 0..Len(messages)
  BY CompactionAssumption DEF Positions, Desired

\* An orphan stays one for every cutoff back to the last call it could belong to.
LEMMA OrphanSpan ==
    ASSUME SearchOK, NEW k \in Positions, NEW j \in Positions,
           FirstOrphan(cutoff, k), LastCall(cutoff, Answers(k), j),
           NEW c \in j..cutoff
    PROVE  k \in Orphans(c)
<1>1. /\ k > cutoff /\ Answers(k) # NoCall /\ ~Paired(cutoff, k)
      /\ j \in 1..cutoff /\ \A i \in (j + 1)..cutoff : Answers(k) \notin Calls(i)
  BY DEF FirstOrphan, Orphans, LastCall
<1>2. k \in Nat /\ cutoff \in Nat
  BY Lengths DEF SearchOK
<1>3. ASSUME NEW i \in (c + 1)..k PROVE Answers(k) \notin Calls(i)
  <2>1. CASE i <= cutoff
    BY <1>1, <1>2, <1>3, <2>1
  <2>2. CASE i > cutoff
    BY <1>1, <1>2, <1>3, <2>2 DEF Paired
  <2>3. QED
    BY <1>2, <1>3, <2>1, <2>2
<1>4. ~Paired(c, k)
  BY <1>3 DEF Paired
<1>5. QED
  BY <1>1, <1>2, <1>4 DEF Orphans

\* In a well-formed history an orphan's call is before the cutoff.
LEMMA OrphanHasCall ==
    ASSUME SearchOK, WellFormed, NEW k \in Positions, FirstOrphan(cutoff, k)
    PROVE  \E j \in 1..cutoff : Answers(k) \in Calls(j)
<1>1. Answers(k) # NoCall /\ ~Paired(cutoff, k)
  BY DEF FirstOrphan, Orphans
<1>2. PICK j \in 1..k : Answers(k) \in Calls(j)
  BY <1>1 DEF WellFormed, Paired
<1>3. j \notin (cutoff + 1)..k
  BY <1>1, <1>2 DEF Paired
<1>4. QED
  BY <1>2, <1>3, Lengths DEF SearchOK

LEMMA InitOK == Init => IInv
  BY CompactionAssumption, Lengths DEF Init, IInv, SearchOK, Tight

\* Nothing of the search's facts depends on anything but the history.
LEMMA SameHistory ==
    ASSUME messages' = messages
    PROVE  /\ WellFormed' <=> WellFormed
           /\ Desired' = Desired
           /\ \A c \in Nat : Orphans(c)' = Orphans(c)
  BY DEF WellFormed, Desired, Orphans, Paired, Answers, Calls, Positions

\* Every step keeps the invariant.
LEMMA Step == IInv /\ [Next]_vars => IInv'
<1> SUFFICES ASSUME IInv, [Next]_vars PROVE IInv'
  OBVIOUS
<1>0. /\ messages' = messages /\ SearchOK
      /\ Len(messages) \in Nat /\ Positions = 1..Len(messages) /\ Desired \in 0..Len(messages)
  BY Lengths DEF IInv, SearchOK, Next, Loop, vars, ReadThread, MoveBack, SkipOrphan, Found,
     WriteBack
<1>1. CASE ReadThread
  <2>1. SearchOK'
    BY <1>0, <1>1 DEF ReadThread, SearchOK
  <2>2. ASSUME WellFormed PROVE Tight'
    <3>1. CASE Len(messages) < MinMessages
      BY <1>0, <1>1, <3>1, SameHistory, CompactionAssumption DEF ReadThread, Tight
    <3>2. CASE ~(Len(messages) < MinMessages)
      <4>1. pc' = "search" /\ cutoff' = Desired'
        BY <1>0, <1>1, <3>2, SameHistory DEF ReadThread
      <4>2. (cutoff' + 1)..Desired' = {} /\ cutoff' <= Desired'
        BY <1>0, <4>1, SameHistory
      <4>3. QED
        BY <4>1, <4>2 DEF Tight
    <3>3. QED
      BY <3>1, <3>2
  <2>3. QED
    BY <1>0, <2>1, <2>2, SameHistory DEF IInv
<1>2. CASE MoveBack
  <2>1. PICK k \in Positions, j \in Positions :
            /\ FirstOrphan(cutoff, k) /\ LastCall(cutoff, Answers(k), j) /\ cutoff' = j - 1
    BY <1>2 DEF MoveBack
  <2>2. j \in 1..cutoff /\ cutoff \in 0..Len(messages) /\ pc = "search" /\ pc' = "search"
    BY <1>0, <1>2, <2>1 DEF LastCall, SearchOK, MoveBack
  <2>3. SearchOK'
    BY <1>0, <2>1, <2>2 DEF SearchOK
  <2>4. ASSUME WellFormed PROVE Tight'
    <3>1. ASSUME NEW c \in (cutoff' + 1)..Desired PROVE Orphans(c) # {}
      <4>1. CASE c <= cutoff
        BY <1>0, <2>1, <2>2, <4>1, OrphanSpan
      <4>2. CASE c > cutoff
        BY <1>0, <2>2, <2>4, <4>2 DEF IInv, Tight
      <4>3. QED
        BY <1>0, <2>1, <2>2, <4>1, <4>2
    <3>2. cutoff' <= Desired
      BY <1>0, <2>1, <2>2, <2>4 DEF IInv, Tight
    <3>3. \A c \in (cutoff' + 1)..Desired' : Orphans(c)' # {}
      BY <1>0, <2>1, <2>2, <3>1, SameHistory
    <3>4. QED
      BY <1>0, <2>2, <3>2, <3>3, SameHistory DEF Tight
  <2>5. QED
    BY <1>0, <2>3, <2>4, SameHistory DEF IInv
<1>3. CASE SkipOrphan
  <2>1. PICK k \in Positions : /\ FirstOrphan(cutoff, k) /\ cutoff' = k
                               /\ \A j \in 1..cutoff : Answers(k) \notin Calls(j)
    BY <1>3 DEF SkipOrphan
  <2>2. ~WellFormed
    BY <1>0, <2>1, OrphanHasCall
  <2>3. SearchOK'
    BY <1>0, <2>1 DEF SearchOK
  <2>4. QED
    BY <1>0, <2>2, <2>3, SameHistory DEF IInv
<1>4. CASE Found
  <2>1. cutoff' = cutoff /\ pc = "search" /\ (cutoff = 0 \/ Orphans(cutoff) = {})
        /\ pc' = IF cutoff < 2 THEN "no_op" ELSE "found"
    BY <1>4 DEF Found
  <2>2. cutoff \in Nat
    BY <1>0 DEF SearchOK
  <2>3. ASSUME WellFormed PROVE Tight'
    <3>1. cutoff <= Desired /\ \A c \in (cutoff + 1)..Desired : Orphans(c) # {}
      BY <2>1, <2>3 DEF IInv, Tight
    <3>2. CASE cutoff < 2
      BY <1>0, <2>1, <2>2, <3>1, <3>2, SameHistory DEF Tight
    <3>3. CASE ~(cutoff < 2)
      BY <1>0, <2>1, <2>2, <3>1, <3>3, SameHistory DEF Tight
    <3>4. QED
      BY <3>2, <3>3
  <2>4. QED
    BY <1>0, <2>1, <2>3, SameHistory DEF IInv, SearchOK
<1>5. CASE WriteBack \/ UNCHANGED vars
  <2>1. /\ cutoff' = cutoff /\ cutoff \in Nat
        /\ pc' = pc \/ (pc = "found" /\ pc' = "written")
    BY <1>0, <1>5 DEF WriteBack, vars, SearchOK
  <2>2. ASSUME WellFormed PROVE Tight'
    BY <1>0, <2>1, <2>2, SameHistory DEF IInv, Tight
  <2>3. QED
    BY <1>0, <2>1, <2>2, SameHistory DEF IInv, SearchOK
<1>6. QED
  BY <1>1, <1>2, <1>3, <1>4, <1>5 DEF Next, Loop

\* In every well-formed history, of any length, the search finds the largest
\* cutoff that keeps the recent messages and separates no result from its call.
THEOREM SearchIsBest == Spec => []CutoffIsBest
<1>1. Spec => []IInv
  BY InitOK, Step, PTL DEF Spec
<1>2. IInv => CutoffIsBest
  BY DEF IInv, Tight, CutoffIsBest
<1>3. QED
  BY <1>1, <1>2, PTL

\* A result that nobody called for.
Uncalled(k) == k \in Positions /\ Answers(k) # NoCall /\ ~Paired(0, k)

\* The loop is beyond the desired cutoff only at such a result, or on its way back
\* from one that it will meet again.
Excused ==
    pc \in {"search", "found"} /\ cutoff > Desired =>
        Uncalled(cutoff) \/ (pc = "search" /\ \E k \in Positions : k > cutoff /\ Uncalled(k))

LEMMA StaysExcused == ASSUME SearchOK, Excused, [Next]_vars PROVE Excused'
<1>0. /\ messages' = messages /\ SearchOK /\ cutoff \in Nat
      /\ Len(messages) \in Nat /\ Positions = 1..Len(messages) /\ Desired \in 0..Len(messages)
  BY Lengths DEF SearchOK, Next, Loop, vars, ReadThread, MoveBack, SkipOrphan, Found, WriteBack
<1>1. Desired' = Desired /\ Positions' = Positions /\ \A k \in Nat : Uncalled(k)' <=> Uncalled(k)
  BY <1>0 DEF Desired, Uncalled, Paired, Answers, Calls, Positions
<1>2. CASE ReadThread
  <2>1. pc' = "no_op" \/ (pc' = "search" /\ cutoff' = Desired')
    BY <1>1, <1>2 DEF ReadThread
  <2>2. QED
    BY <1>0, <1>1, <2>1 DEF Excused
<1>3. CASE MoveBack
  <2>1. PICK k \in Positions, j \in Positions :
            /\ FirstOrphan(cutoff, k) /\ LastCall(cutoff, Answers(k), j) /\ cutoff' = j - 1
    BY <1>3 DEF MoveBack
  <2>2. j \in 1..cutoff /\ pc = "search" /\ pc' = "search"
    BY <1>3, <2>1 DEF LastCall, MoveBack
  <2>3. cutoff' < cutoff /\ cutoff' \in Nat
    BY <1>0, <2>1, <2>2
  <2>4. ASSUME cutoff' > Desired PROVE \E i \in Positions : i > cutoff' /\ Uncalled(i)
    <3>1. cutoff > Desired
      BY <1>0, <2>3, <2>4
    <3>2. PICK i \in Positions : i >= cutoff /\ Uncalled(i)
      BY <1>0, <2>2, <3>1 DEF Excused, Uncalled
    <3>3. QED
      BY <1>0, <2>3, <3>2
  <2>5. (\E i \in Positions : i > cutoff' /\ Uncalled(i))
          => (\E i \in Positions : i > cutoff /\ Uncalled(i))'
    BY <1>0, <1>1
  <2>6. QED
    BY <1>1, <2>2, <2>4, <2>5 DEF Excused
<1>4. CASE SkipOrphan
  <2>1. PICK k \in Positions : /\ FirstOrphan(cutoff, k) /\ cutoff' = k
                               /\ \A j \in 1..cutoff : Answers(k) \notin Calls(j)
    BY <1>4 DEF SkipOrphan
  <2>2. Answers(k) # NoCall /\ ~Paired(cutoff, k) /\ k \in Nat
    BY <1>0, <2>1 DEF FirstOrphan, Orphans
  <2>3. ASSUME NEW j \in (0 + 1)..k PROVE Answers(k) \notin Calls(j)
    <3>1. CASE j <= cutoff
      BY <1>0, <2>1, <2>3, <3>1
    <3>2. CASE j > cutoff
      BY <1>0, <2>2, <2>3, <3>2 DEF Paired
    <3>3. QED
      BY <1>0, <2>2, <3>1, <3>2
  <2>4. Uncalled(k)
    BY <2>2, <2>3 DEF Uncalled, Paired
  <2>5. Uncalled(cutoff)'
    BY <1>0, <2>1, <2>4 DEF Uncalled, Paired, Answers, Calls, Positions
  <2>6. QED
    BY <2>5 DEF Excused
<1>5. CASE Found
  <2>1. cutoff' = cutoff /\ pc = "search" /\ (cutoff = 0 \/ Orphans(cutoff) = {})
    BY <1>5 DEF Found
  <2>2. ASSUME cutoff > Desired PROVE Uncalled(cutoff)
    <3>1. ASSUME NEW k \in Positions, k > cutoff, Uncalled(k) PROVE FALSE
      <4>1. ~Paired(cutoff, k)
        BY <1>0, <3>1 DEF Uncalled, Paired
      <4>2. k \in Orphans(cutoff)
        BY <3>1, <4>1 DEF Orphans, Uncalled
      <4>3. cutoff # 0
        BY <1>0, <2>2
      <4>4. QED
        BY <2>1, <4>2, <4>3
    <3>2. QED
      BY <2>1, <2>2, <3>1 DEF Excused
  <2>3. Uncalled(cutoff) => Uncalled(cutoff)'
    BY <1>0, <2>1 DEF Uncalled, Paired, Answers, Calls, Positions
  <2>4. QED
    BY <1>1, <2>1, <2>2, <2>3 DEF Excused
<1>6. CASE WriteBack
  BY <1>6 DEF WriteBack, Excused
<1>7. CASE UNCHANGED vars
  BY <1>0, <1>7 DEF vars, Excused, Uncalled, Desired, Paired, Answers, Calls, Positions
<1>8. QED
  BY <1>2, <1>3, <1>4, <1>5, <1>6, <1>7 DEF Next, Loop

\* In any history, also one that somebody tampered with, recent messages go only
\* with a result nobody called for (steering.py:342-354).
THEOREM OnlyOrphansGo == Spec => []SkipsOnlyOrphans
<1>1. Spec => []IInv
  BY InitOK, Step, PTL DEF Spec
<1>2. Init => Excused
  BY DEF Init, Excused
<1>3. IInv /\ Excused /\ [Next]_vars => Excused'
  BY StaysExcused DEF IInv
<1>4. Excused => SkipsOnlyOrphans
  BY DEF Excused, SkipsOnlyOrphans, Uncalled
<1>5. QED
  BY <1>1, <1>2, <1>3, <1>4, PTL DEF Spec
=============================================================================
