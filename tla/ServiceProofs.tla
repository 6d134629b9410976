---------------------------- MODULE ServiceProofs ----------------------------
(***************************************************************************)
(* Proofs about what the gateway runs beside its requests, for any messages, *)
(* topics, jobs and workloads: the chat channels (ChInv), the generation     *)
(* jobs (GenInv) and the overviews of repositories (RvInv).  The services    *)
(* share the process only, so each has an invariant of its own.              *)
(***************************************************************************)
EXTENDS MCGatewayServices, FiniteSetTheorems, SequenceTheorems, TLAPS

----------------------------------------------------------------------------
(* The channels.  The permits that are out are those of the messages at work *)
(* (PermitsOut); the queue holds each queued message once; and as long as no *)
(* two threads of a topic were made at once, the threads its chats ran in    *)
(* are, with those that it is mapped to in memory and in the file, no more   *)
(* than /new accounts for.                                                   *)

MessageType == [pc : AtWork \cup {"unsent", "queued", "waiting", "done", "lost"},
                thread : Nat, to : Seq(Nat), tries : 0 .. MaxSends]
Working == {m \in Msgs : message[m].pc \in AtWork}
PermitsOut == IsFiniteSet(Working) /\ permits + Cardinality(Working) = MaxConcurrency

QueuedOnce ==
  \A i, j \in 1 .. Len(inbound) : /\ message[inbound[i]].pc = "queued"
                                  /\ inbound[i] = inbound[j] => i = j

Used(t) == ranIn[t] \cup ({topicMap[t], saved[t]} \ {NoThread})
Accounted ==
  \A t \in Topics \ ({"none"} \cup split) :
    /\ IsFiniteSet(Used(t)) /\ Cardinality(Used(t)) <= 1 + renewed[t]
    /\ topicMap[t] = NoThread => ranIn[t] = {} /\ saved[t] = NoThread
    /\ \A m, k \in Making(t) : m = k
    /\ \A m \in Making(t) : MsgKind(m) = "chat" => topicMap[t] = NoThread

OnlyThreadsAreMade == \A m \in Msgs : message[m].pc = "creating" => MsgKind(m) \in {"chat", "new"}

ChInv == ChTypeOK /\ PermitsOut /\ QueuedOnce /\ Accounted /\ OnlyThreadsAreMade

\* A message changes alone.
LEMMA OneMessage ==
  ASSUME message \in [Msgs -> MessageType], NEW m \in Msgs, NEW r \in MessageType,
         message' = [message EXCEPT ![m] = r]
  PROVE  /\ message' \in [Msgs -> MessageType] /\ message'[m] = r
         /\ \A k \in Msgs \ {m} : message'[k] = message[k]
  OBVIOUS

\* It keeps the permit it has, or stays without.
LEMMA PermitsStay ==
  ASSUME PermitsOut, permits' = permits, NEW m \in Msgs,
         \A k \in Msgs \ {m} : message'[k] = message[k],
         message'[m].pc \in AtWork <=> message[m].pc \in AtWork
  PROVE  PermitsOut'
<1>1. Working' = Working
  BY DEF Working
<1>2. QED
  BY <1>1 DEF PermitsOut

LEMMA PermitTaken ==
  ASSUME ChTypeOK, PermitsOut, permits > 0, permits' = permits - 1, NEW m \in Msgs,
         \A k \in Msgs \ {m} : message'[k] = message[k],
         message[m].pc \notin AtWork, message'[m].pc \in AtWork
  PROVE  PermitsOut' /\ permits' \in 0 .. MaxConcurrency
<1>1. Working' = Working \cup {m} /\ m \notin Working
  BY DEF Working
<1>2. IsFiniteSet(Working)
  BY DEF PermitsOut
<1>3. PICK W : W = Working
  OBVIOUS
<1>4. IsFiniteSet(W \cup {m}) /\ Cardinality(W \cup {m}) = Cardinality(W) + 1 /\ Cardinality(W) \in Nat
  BY <1>1, <1>2, <1>3, FS_AddElement, FS_CardinalityType
<1>5. permits \in 0 .. MaxConcurrency /\ MaxConcurrency \in Nat /\ permits + Cardinality(W) = MaxConcurrency
  BY <1>3, ChannelsAssumption DEF ChTypeOK, PermitsOut
<1>6. permits' + Cardinality(W \cup {m}) = MaxConcurrency /\ permits' \in 0 .. MaxConcurrency
  BY <1>4, <1>5
<1>7. QED
  BY <1>1, <1>3, <1>4, <1>6 DEF PermitsOut

LEMMA PermitGiven ==
  ASSUME ChTypeOK, PermitsOut, permits' = permits + 1, NEW m \in Msgs,
         \A k \in Msgs \ {m} : message'[k] = message[k],
         message[m].pc \in AtWork, message'[m].pc \notin AtWork
  PROVE  PermitsOut' /\ permits' \in 0 .. MaxConcurrency
<1>1. Working' = Working \ {m} /\ m \in Working
  BY DEF Working
<1>2. IsFiniteSet(Working)
  BY DEF PermitsOut
<1>3. PICK W : W = Working
  OBVIOUS
<1>4. IsFiniteSet(W \ {m}) /\ Cardinality(W \ {m}) = Cardinality(W) - 1
  BY <1>1, <1>2, <1>3, FS_RemoveElement
<1>40. Cardinality(W) \in Nat /\ Cardinality(W \ {m}) \in Nat
  BY <1>2, <1>3, <1>4, FS_CardinalityType
<1>5. permits \in 0 .. MaxConcurrency /\ MaxConcurrency \in Nat /\ permits + Cardinality(W) = MaxConcurrency
  BY <1>3, ChannelsAssumption DEF ChTypeOK, PermitsOut
<1>6. permits' + Cardinality(W \ {m}) = MaxConcurrency /\ permits' \in 0 .. MaxConcurrency
  BY <1>4, <1>40, <1>5
<1>7. QED
  BY <1>1, <1>3, <1>4, <1>6 DEF PermitsOut

LEMMA QueueStays ==
  ASSUME ChTypeOK, QueuedOnce, inbound' = inbound, NEW m \in Msgs,
         \A k \in Msgs \ {m} : message'[k] = message[k], message[m].pc # "queued"
  PROVE  QueuedOnce'
<1>1. \A i \in 1 .. Len(inbound) : inbound[i] \in Msgs
  BY DEF ChTypeOK
<1>2. QED
  BY <1>1 DEF QueuedOnce

\* Nothing is known anew of a topic's threads, and no thread more is being made.
LEMMA TopicsStay ==
  ASSUME Accounted, UNCHANGED <<topicMap, saved, ranIn, renewed>>, split' = split,
         \A m \in Msgs : message'[m].pc = "creating" => message[m].pc = "creating"
  PROVE  Accounted'
<1>1. ASSUME NEW t \in Topics PROVE Making(t)' \subseteq Making(t) /\ Used(t)' = Used(t)
  BY DEF Making, Used
<1>2. QED
  BY <1>1 DEF Accounted

\* Fewer threads of a topic need no more of /new.
LEMMA UsedShrinks ==
  ASSUME NEW t \in Topics, IsFiniteSet(Used(t)), Cardinality(Used(t)) <= 1 + renewed[t],
         renewed[t] \in Nat, renewed'[t] = renewed[t], Used(t)' \subseteq Used(t)
  PROVE  IsFiniteSet(Used(t)') /\ Cardinality(Used(t)') <= 1 + renewed'[t]
<1>1. PICK S, U : S = Used(t)' /\ U = Used(t)
  OBVIOUS
<1>2. IsFiniteSet(S) /\ Cardinality(S) <= Cardinality(U)
      /\ Cardinality(S) \in Nat /\ Cardinality(U) \in Nat
  BY <1>1, FS_Subset, FS_CardinalityType
<1>3. QED
  BY <1>1, <1>2

\* A message at work goes on with its permit.
LEMMA GoesOn ==
  ASSUME ChInv, NEW m \in Msgs, NEW r \in MessageType, message' = [message EXCEPT ![m] = r],
         message[m].pc \in AtWork, r.pc \in AtWork \ {"creating"},
         UNCHANGED <<inbound, listeners, instance, permits, topicMap, saved, threads, ranIn, renewed, split>>,
         posts' \in [Msgs -> SUBSET Nat]
  PROVE  ChInv'
<1>1. /\ message' \in [Msgs -> MessageType] /\ message'[m] = r
      /\ \A k \in Msgs \ {m} : message'[k] = message[k]
  BY OneMessage DEF ChInv, ChTypeOK, MessageType
<1>2. ChTypeOK'
  BY <1>1 DEF ChInv, ChTypeOK, MessageType
<1>3. PermitsOut'
  BY <1>1, PermitsStay DEF ChInv
<1>4. QueuedOnce'
  BY <1>1, QueueStays DEF ChInv, AtWork
<1>5. \A k \in Msgs : message'[k].pc = "creating" => message[k].pc = "creating"
  BY <1>1
<1>6. Accounted' /\ OnlyThreadsAreMade'
  BY <1>5, TopicsStay DEF ChInv, OnlyThreadsAreMade
<1>7. QED
  BY <1>2, <1>3, <1>4, <1>6 DEF ChInv

\* The reply is sent to the listeners there are.
LEMMA ReplyIsAMessage ==
  ASSUME ChTypeOK, NEW m \in Msgs, message' = Outbound(m)
  PROVE  \E r \in MessageType : r.pc = "sending" /\ message' = [message EXCEPT ![m] = r]
<1>1. PICK r : r = [pc |-> "sending", thread |-> message[m].thread, to |-> listeners, tries |-> 0]
  OBVIOUS
<1>2. message[m] \in MessageType /\ message \in [Msgs -> MessageType]
  BY DEF ChTypeOK, MessageType
<1>3. r \in MessageType
  BY <1>1, <1>2, ChannelsAssumption DEF MessageType, ChTypeOK, AtWork
<1>4. [message EXCEPT ![m].pc = "sending", ![m].to = listeners, ![m].tries = 0] = [message EXCEPT ![m] = r]
  <2>1. message[m] = [pc |-> message[m].pc, thread |-> message[m].thread, to |-> message[m].to,
                      tries |-> message[m].tries]
    BY <1>2 DEF MessageType
  <2> DEFINE sent == [message EXCEPT ![m].pc = "sending", ![m].to = listeners, ![m].tries = 0]
  <2>2. message = [k \in Msgs |-> message[k]]
    BY <1>2
  <2>3. sent[m] = [pc |-> "sending", thread |-> message[m].thread, to |-> listeners, tries |-> 0]
    BY <2>1, <2>2, Zenon
  <2> HIDE DEF MessageType
  <2>4. QED
    BY <1>1, <2>2, <2>3
<1>5. QED
  BY <1>1, <1>3, <1>4 DEF Outbound

LEMMA AnswersKeep == ASSUME ChInv, NEW m \in Msgs, RunAnswers(m) \/ CallFails(m) PROVE ChInv'
<1>1. /\ message[m].pc \in {"running", "creating"} /\ message' = Outbound(m)
      /\ UNCHANGED <<inbound, listeners, instance, permits, topicMap, saved, threads, posts, ranIn, renewed, split>>
  BY DEF RunAnswers, CallFails
<1>2. PICK r \in MessageType : r.pc = "sending" /\ message' = [message EXCEPT ![m] = r]
  BY <1>1, ReplyIsAMessage DEF ChInv
<1>3. posts' \in [Msgs -> SUBSET Nat] /\ message[m].pc \in AtWork /\ r.pc \in AtWork \ {"creating"}
  BY <1>1, <1>2 DEF ChInv, ChTypeOK, AtWork
<1>4. QED
  BY <1>1, <1>2, <1>3, GoesOn

LEMMA SendKeeps == ASSUME ChInv, NEW m \in Msgs, Send(m) PROVE ChInv'
<1> DEFINE i == Head(message[m].to)
<1>1. /\ message[m].pc = "sending" /\ message[m].to # <<>>
      /\ message' \in {NextListener(m), [message EXCEPT ![m].tries = @ + 1]}
      /\ message' = [message EXCEPT ![m].tries = @ + 1] => message[m].tries + 1 < MaxSends \/ message' = NextListener(m)
      /\ posts' \in {posts, [posts EXCEPT ![m] = @ \cup {i}]}
      /\ UNCHANGED <<inbound, listeners, instance, permits, topicMap, saved, threads, ranIn, renewed, split>>
  BY DEF Send
<1>2. message \in [Msgs -> MessageType] /\ message[m] \in MessageType /\ posts \in [Msgs -> SUBSET Nat]
  BY DEF ChInv, ChTypeOK, MessageType
<1>3. /\ message[m] = [pc |-> message[m].pc, thread |-> message[m].thread, to |-> message[m].to,
                       tries |-> message[m].tries]
      /\ message[m].thread \in Nat /\ message[m].to \in Seq(Nat) /\ message[m].tries \in 0 .. MaxSends
  BY <1>2 DEF MessageType
<1>4. Tail(message[m].to) \in Seq(Nat) /\ i \in Nat
  BY <1>1, <1>3, HeadTailProperties
<1>5. posts' \in [Msgs -> SUBSET Nat]
  <2> HIDE DEF i
  <2>1. QED
    BY <1>1, <1>2, <1>4
<1>6. \E r \in MessageType : r.pc = "sending" /\ message' = [message EXCEPT ![m] = r]
  <2>1. CASE message' = NextListener(m)
    <3>1. PICK r : r = [pc |-> "sending", thread |-> message[m].thread, to |-> Tail(message[m].to), tries |-> 0]
      OBVIOUS
    <3>2. r \in MessageType
      BY <1>3, <1>4, <3>1, ChannelsAssumption DEF MessageType, AtWork
    <3> HIDE DEF MessageType, i
    <3>3. [message EXCEPT ![m].to = Tail(@), ![m].tries = 0] = [message EXCEPT ![m] = r]
      <4> DEFINE next == [message EXCEPT ![m].to = Tail(@), ![m].tries = 0]
      <4>1. message = [k \in Msgs |-> message[k]]
        BY <1>2
      <4>2. next[m] = [pc |-> message[m].pc, thread |-> message[m].thread, to |-> Tail(message[m].to), tries |-> 0]
        BY <1>3, <4>1, Zenon
      <4>3. next[m] = r
        BY <1>1, <3>1, <4>2
      <4>4. QED
        BY <4>1, <4>3
    <3>4. QED
      BY <2>1, <3>1, <3>2, <3>3 DEF NextListener
  <2>2. CASE message' # NextListener(m)
    <3>1. PICK r : r = [pc |-> "sending", thread |-> message[m].thread, to |-> message[m].to,
                        tries |-> message[m].tries + 1]
      OBVIOUS
    <3>2. r \in MessageType
      BY <1>1, <1>3, <2>2, <3>1, ChannelsAssumption DEF MessageType, AtWork
    <3> HIDE DEF MessageType, i
    <3>3. message' = [message EXCEPT ![m] = r]
      BY <1>1, <1>2, <1>3, <2>2, <3>1
    <3>4. QED
      BY <3>1, <3>2, <3>3
  <2>3. QED
    BY <2>1, <2>2
<1>7. PICK r \in MessageType : r.pc = "sending" /\ message' = [message EXCEPT ![m] = r]
  BY <1>6
<1>8. message[m].pc \in AtWork /\ r.pc \in AtWork \ {"creating"}
  BY <1>1, <1>7 DEF AtWork
<1>9. QED
  BY <1>1, <1>5, <1>7, <1>8, GoesOn

\* A message comes into the queue.
LEMMA ReceiveKeeps == ASSUME ChInv, NEW m \in Msgs, Receive(m) PROVE ChInv'
<1>1. /\ message[m].pc = "unsent" /\ message' = [message EXCEPT ![m].pc = "queued"]
      /\ inbound' = Append(inbound, m)
      /\ UNCHANGED <<listeners, instance, permits, topicMap, saved, threads, posts, ranIn, renewed, split>>
  BY DEF Receive
<1>2. /\ message' \in [Msgs -> MessageType] /\ message'[m].pc = "queued"
      /\ \A k \in Msgs \ {m} : message'[k] = message[k]
  BY <1>1 DEF ChInv, ChTypeOK, MessageType
<1>3. /\ inbound \in Seq(Msgs) /\ inbound' \in Seq(Msgs) /\ Len(inbound') = Len(inbound) + 1
      /\ \A i \in 1 .. Len(inbound) : inbound[i] \in Msgs
      /\ \A i \in 1 .. Len(inbound) + 1 : inbound'[i] = IF i <= Len(inbound) THEN inbound[i] ELSE m
  BY <1>1 DEF ChInv, ChTypeOK
<1>4. ChTypeOK'
  BY <1>1, <1>2, <1>3 DEF ChInv, ChTypeOK, MessageType
<1>5. PermitsOut'
  <2>1. message[m].pc \notin AtWork /\ message'[m].pc \notin AtWork
    BY <1>1, <1>2 DEF AtWork
  <2>2. QED
    BY <1>1, <1>2, <2>1, PermitsStay DEF ChInv
<1>6. QueuedOnce'
  <2>1. \A i \in 1 .. Len(inbound) : inbound[i] # m /\ message[inbound[i]].pc = "queued"
    BY <1>1 DEF ChInv, QueuedOnce
  <2>2. \A i \in 1 .. Len(inbound) + 1 : message'[inbound'[i]].pc = "queued"
    BY <1>2, <1>3, <2>1
  <2>3. \A i, j \in 1 .. Len(inbound) + 1 : inbound'[i] = inbound'[j] => i = j
    BY <1>3, <2>1 DEF ChInv, QueuedOnce
  <2>4. QED
    BY <1>3, <2>2, <2>3 DEF QueuedOnce
<1>7. \A k \in Msgs : message'[k].pc = "creating" => message[k].pc = "creating"
  BY <1>2
<1>8. Accounted' /\ OnlyThreadsAreMade'
  BY <1>1, <1>7, TopicsStay DEF ChInv, OnlyThreadsAreMade
<1>9. QED
  BY <1>4, <1>5, <1>6, <1>8 DEF ChInv

LEMMA DispatchKeeps == ASSUME ChInv, Dispatch PROVE ChInv'
<1>1. /\ inbound # <<>> /\ message' = [message EXCEPT ![Head(inbound)].pc = "waiting"]
      /\ inbound' = Tail(inbound) /\ inbound \in Seq(Msgs)
      /\ UNCHANGED <<listeners, instance, permits, topicMap, saved, threads, posts, ranIn, renewed, split>>
  BY DEF Dispatch, ChInv, ChTypeOK
<1>2. /\ Head(inbound) = inbound[1] /\ inbound[1] \in Msgs /\ 1 \in 1 .. Len(inbound)
      /\ inbound' \in Seq(Msgs) /\ Len(inbound') = Len(inbound) - 1 /\ Len(inbound) \in Nat
      /\ \A i \in 1 .. Len(inbound') : inbound'[i] = inbound[i + 1]
      /\ \A i \in 1 .. Len(inbound) : inbound[i] \in Msgs
  <2>1. /\ Head(inbound) = inbound[1] /\ inbound' \in Seq(Msgs) /\ Len(inbound') = Len(inbound) - 1
        /\ \A i \in 1 .. Len(inbound') : inbound'[i] = inbound[i + 1]
    BY <1>1, HeadTailProperties
  <2>2. Len(inbound) \in Nat /\ \A i \in 1 .. Len(inbound) : inbound[i] \in Msgs
    BY <1>1, LenProperties, ElementOfSeq
  <2>3. 1 \in 1 .. Len(inbound)
    BY <1>1, <2>2, EmptySeq
  <2>4. QED
    BY <2>1, <2>2, <2>3
<1>3. PICK m \in Msgs : m = inbound[1] /\ message[m].pc = "queued"
  BY <1>2 DEF ChInv, QueuedOnce
<1>4. /\ message' \in [Msgs -> MessageType] /\ message'[m].pc = "waiting"
      /\ \A k \in Msgs \ {m} : message'[k] = message[k]
  <2>1. message' = [message EXCEPT ![m].pc = "waiting"]
    BY <1>1, <1>2, <1>3
  <2>2. message \in [Msgs -> MessageType]
    BY DEF ChInv, ChTypeOK, MessageType
  <2>3. QED
    BY <2>1, <2>2 DEF MessageType
<1>5. ChTypeOK'
  BY <1>1, <1>2, <1>4 DEF ChInv, ChTypeOK, MessageType
<1>6. PermitsOut'
  <2>1. message[m].pc \notin AtWork /\ message'[m].pc \notin AtWork
    BY <1>3, <1>4 DEF AtWork
  <2>2. QED
    BY <1>1, <1>4, <2>1, PermitsStay DEF ChInv
<1>7. QueuedOnce'
  <2>1. ASSUME NEW i \in 1 .. Len(inbound')
        PROVE  /\ i + 1 \in 1 .. Len(inbound) /\ inbound'[i] = inbound[i + 1]
               /\ inbound[i + 1] # m /\ message[inbound[i + 1]].pc = "queued"
    <3>1. i + 1 \in 1 .. Len(inbound) /\ inbound'[i] = inbound[i + 1] /\ i + 1 # 1
      BY <1>2, <2>1
    <3>2. QED
      BY <1>2, <1>3, <3>1 DEF ChInv, QueuedOnce
  <2>2. \A i \in 1 .. Len(inbound') : message'[inbound'[i]].pc = "queued"
    BY <1>2, <1>4, <2>1
  <2>3. ASSUME NEW i \in 1 .. Len(inbound'), NEW j \in 1 .. Len(inbound'), inbound'[i] = inbound'[j]
        PROVE  i = j
    <3>1. i + 1 \in 1 .. Len(inbound) /\ j + 1 \in 1 .. Len(inbound) /\ inbound[i + 1] = inbound[j + 1]
      BY <2>1, <2>3
    <3>2. i + 1 = j + 1
      BY <3>1 DEF ChInv, QueuedOnce
    <3>3. QED
      BY <3>2
  <2>4. QED
    BY <2>2, <2>3 DEF QueuedOnce
<1>8. \A k \in Msgs : message'[k].pc = "creating" => message[k].pc = "creating"
  BY <1>4
<1>9. Accounted' /\ OnlyThreadsAreMade'
  BY <1>1, <1>8, TopicsStay DEF ChInv, OnlyThreadsAreMade
<1>10. QED
  BY <1>5, <1>6, <1>7, <1>9 DEF ChInv

LEMMA RunIsAMessage ==
  ASSUME ChTypeOK, NEW m \in Msgs, NEW t \in Nat, RunIn(m, t)
  PROVE  \E r \in MessageType : r.pc = "running" /\ message' = [message EXCEPT ![m] = r]
<1>1. message[m] \in MessageType /\ message = [k \in Msgs |-> message[k]]
  BY DEF ChTypeOK, MessageType
<1>2. message[m] = [pc |-> message[m].pc, thread |-> message[m].thread, to |-> message[m].to,
                    tries |-> message[m].tries]
  BY <1>1 DEF MessageType
<1>3. PICK r : r = [pc |-> "running", thread |-> t, to |-> message[m].to, tries |-> message[m].tries]
  OBVIOUS
<1>4. r \in MessageType
  BY <1>1, <1>3 DEF MessageType, AtWork
<1> HIDE DEF MessageType
<1> DEFINE run == [message EXCEPT ![m].pc = "running", ![m].thread = t]
<1>5. run[m] = [pc |-> "running", thread |-> t, to |-> message[m].to, tries |-> message[m].tries]
  BY <1>1, <1>2, Zenon
<1>6. run = [message EXCEPT ![m] = r]
  BY <1>1, <1>3, <1>5
<1>7. QED
  BY <1>3, <1>4, <1>6 DEF RunIn

\* A message takes a permit.
LEMMA BeginKeeps == ASSUME ChInv, NEW m \in Msgs, Begin(m) PROVE ChInv'
<1> DEFINE t == MsgTopic(m)
<1>1. /\ message[m].pc = "waiting" /\ permits > 0 /\ permits' = permits - 1
      /\ UNCHANGED <<inbound, listeners, instance, topicMap, saved, threads, posts, renewed>>
      /\ t \in Topics /\ message \in [Msgs -> MessageType] /\ topicMap[t] \in Nat
  BY ChannelsAssumption DEF Begin, ChInv, ChTypeOK, MessageType
\* What all ways of beginning have in common.
<1>2. ASSUME NEW r \in MessageType, r.pc \in AtWork, message' = [message EXCEPT ![m] = r],
             ranIn' \in [Topics -> SUBSET Nat], split' \subseteq Topics,
             Accounted', OnlyThreadsAreMade'
      PROVE  ChInv'
  <2>1. /\ message' \in [Msgs -> MessageType] /\ message'[m] = r
        /\ \A k \in Msgs \ {m} : message'[k] = message[k]
    BY <1>1, <1>2, OneMessage
  <2>2. PermitsOut' /\ permits' \in 0 .. MaxConcurrency
    <3>1. message[m].pc \notin AtWork /\ message'[m].pc \in AtWork
      BY <1>1, <1>2, <2>1 DEF AtWork
    <3>2. QED
      BY <1>1, <2>1, <3>1, PermitTaken DEF ChInv
  <2>3. QueuedOnce'
    BY <1>1, <2>1, QueueStays DEF ChInv
  <2>4. ChTypeOK'
    BY <1>1, <1>2, <2>1, <2>2 DEF ChInv, ChTypeOK, MessageType
  <2>5. QED
    BY <1>2, <2>2, <2>3, <2>4 DEF ChInv
<1>3. CASE NeedsThread(m)
  <2>1. /\ message' = [message EXCEPT ![m].pc = "creating"]
        /\ split' = IF Making(t) # {} THEN split \cup {t} ELSE split
        /\ ranIn' = ranIn
    BY <1>3 DEF Begin
  <2>2. PICK r : r = [message[m] EXCEPT !.pc = "creating"]
    OBVIOUS
  <2>3. r \in MessageType /\ r.pc = "creating" /\ message' = [message EXCEPT ![m] = r]
    BY <1>1, <2>1, <2>2 DEF MessageType, AtWork
  <2>4. /\ message'[m].pc = "creating" /\ \A k \in Msgs \ {m} : message'[k] = message[k]
    BY <1>1, <2>3
  <2>5. MsgKind(m) \in {"chat", "new"} /\ (MsgKind(m) = "chat" => t = "none" \/ topicMap[t] = NoThread)
    BY <1>3 DEF NeedsThread
  <2>6. OnlyThreadsAreMade'
    BY <2>4, <2>5 DEF ChInv, OnlyThreadsAreMade
  <2>7. Accounted'
    <3>1. SUFFICES ASSUME NEW u \in Topics \ ({"none"} \cup split')
                   PROVE  /\ IsFiniteSet(Used(u)') /\ Cardinality(Used(u)') <= 1 + renewed'[u]
                          /\ topicMap'[u] = NoThread => ranIn'[u] = {} /\ saved'[u] = NoThread
                          /\ \A k, l \in Making(u)' : k = l
                          /\ \A k \in Making(u)' : MsgKind(k) = "chat" => topicMap'[u] = NoThread
      BY DEF Accounted
    <3>2. u \in Topics \ ({"none"} \cup split) /\ (u = t => Making(t) = {})
      BY <2>1, <3>1
    <3>3. Making(u)' \subseteq Making(u) \cup {m} /\ (u # t => Making(u)' \subseteq Making(u))
      BY <1>1, <2>4 DEF Making
    <3>4. /\ Used(u)' = Used(u) /\ topicMap' = topicMap /\ saved' = saved
          /\ ranIn' = ranIn /\ renewed' = renewed
      BY <1>1, <2>1 DEF Used
    <3>5. /\ IsFiniteSet(Used(u)) /\ Cardinality(Used(u)) <= 1 + renewed[u]
          /\ topicMap[u] = NoThread => ranIn[u] = {} /\ saved[u] = NoThread
          /\ \A k, l \in Making(u) : k = l
          /\ \A k \in Making(u) : MsgKind(k) = "chat" => topicMap[u] = NoThread
      BY <3>2 DEF ChInv, Accounted
    <3>6. CASE u = t
      BY <2>5, <3>2, <3>3, <3>4, <3>5, <3>6
    <3>7. CASE u # t
      BY <3>3, <3>4, <3>5, <3>7
    <3>8. QED
      BY <3>6, <3>7
  <2>8. ranIn' \in [Topics -> SUBSET Nat] /\ split' \subseteq Topics
    BY <1>1, <2>1 DEF ChInv, ChTypeOK
  <2>9. r.pc \in AtWork
    BY <2>3 DEF AtWork
  <2>10. QED
    BY <1>2, <2>3, <2>6, <2>7, <2>8, <2>9
<1>4. CASE ~NeedsThread(m) /\ MsgKind(m) = "chat"
  <2>1. RunIn(m, topicMap[t]) /\ split' = split /\ ranIn' = [ranIn EXCEPT ![t] = @ \cup {topicMap[t]}]
    BY <1>4 DEF Begin, RunIn
  <2>2. PICK r \in MessageType : r.pc = "running" /\ message' = [message EXCEPT ![m] = r]
    BY <1>1, <2>1, RunIsAMessage DEF ChInv
  <2>3. message'[m].pc = "running" /\ \A k \in Msgs \ {m} : message'[k] = message[k]
    BY <1>1, <2>2
  <2>4. OnlyThreadsAreMade'
    BY <2>3 DEF ChInv, OnlyThreadsAreMade
  <2>5. ranIn \in [Topics -> SUBSET Nat] /\ topicMap[t] # NoThread
    BY <1>4 DEF ChInv, ChTypeOK, NeedsThread
  <2>6. \A u \in Topics : Used(u)' = Used(u) /\ Making(u)' \subseteq Making(u)
    BY <1>1, <2>1, <2>3, <2>5 DEF Used, Making
  <2>7. \A u \in Topics : topicMap'[u] = NoThread => ranIn'[u] = ranIn[u]
    BY <1>1, <2>1, <2>5
  <2>8. Accounted'
    BY <1>1, <2>1, <2>6, <2>7 DEF ChInv, Accounted
  <2>9. ranIn' \in [Topics -> SUBSET Nat] /\ split' \subseteq Topics /\ r.pc \in AtWork
    BY <1>1, <2>1, <2>2, <2>5 DEF ChInv, ChTypeOK, AtWork
  <2>10. QED
    BY <1>2, <2>2, <2>4, <2>8, <2>9
<1>5. CASE ~NeedsThread(m) /\ MsgKind(m) # "chat"
  <2>1. message' = Outbound(m) /\ UNCHANGED <<ranIn, split>>
    BY <1>5 DEF Begin
  <2>2. PICK r \in MessageType : r.pc = "sending" /\ message' = [message EXCEPT ![m] = r]
    BY <2>1, ReplyIsAMessage DEF ChInv
  <2>3. \A k \in Msgs : message'[k].pc = "creating" => message[k].pc = "creating"
    BY <1>1, <2>2
  <2>4. Accounted' /\ OnlyThreadsAreMade'
    BY <1>1, <2>1, <2>3, TopicsStay DEF ChInv, OnlyThreadsAreMade
  <2>5. ranIn' \in [Topics -> SUBSET Nat] /\ split' \subseteq Topics /\ r.pc \in AtWork
    BY <2>1, <2>2 DEF ChInv, ChTypeOK, AtWork
  <2>6. QED
    BY <1>2, <2>2, <2>4, <2>5
<1>6. QED
  BY <1>3, <1>4, <1>5

\* A thread is made: for a chat of a topic without one, or for /new.
LEMMA CreatedKeeps == ASSUME ChInv, NEW m \in Msgs, ThreadCreated(m) \/ ThreadNotSaved(m)
                      PROVE ChInv'
<1> DEFINE t == MsgTopic(m)
<1>1. /\ message[m].pc = "creating" /\ threads' = threads + 1 /\ threads \in Nat
      /\ topicMap' = [topicMap EXCEPT ![t] = threads']
      /\ UNCHANGED <<inbound, listeners, instance, permits, posts, split>>
      /\ t \in Topics /\ message \in [Msgs -> MessageType]
      /\ topicMap \in [Topics -> Nat] /\ ranIn \in [Topics -> SUBSET Nat] /\ renewed \in [Topics -> Nat]
      /\ MsgKind(m) \in {"chat", "new"}
      /\ saved \in [Topics -> Nat] /\ saved' \in {topicMap', saved}
  BY ChannelsAssumption DEF ThreadCreated, ThreadNotSaved, PutThread, ChInv, ChTypeOK, MessageType,
                            OnlyThreadsAreMade
<1>2. threads' \in Nat /\ threads' # NoThread /\ topicMap'[t] = threads'
      /\ \A u \in Topics \ {t} : topicMap'[u] = topicMap[u]
  BY <1>1 DEF NoThread
<1>3. /\ ranIn' \in [Topics -> SUBSET Nat] /\ renewed' \in [Topics -> Nat]
      /\ \A u \in Topics \ {t} : ranIn'[u] = ranIn[u] /\ renewed'[u] = renewed[u]
      /\ MsgKind(m) = "chat" => ranIn'[t] \subseteq ranIn[t] \cup {threads'} /\ renewed'[t] = renewed[t]
      /\ MsgKind(m) = "new" => ranIn'[t] = ranIn[t] /\ renewed'[t] = renewed[t] + 1
  <2>1. CASE MsgKind(m) = "chat"
    <3>1. ranIn' \in {[ranIn EXCEPT ![t] = @ \cup {threads'}], ranIn} /\ renewed' = renewed
      BY <2>1 DEF ThreadCreated, ThreadNotSaved, PutThread, RunIn
    <3>2. QED
      BY <1>1, <1>2, <2>1, <3>1
  <2>2. CASE MsgKind(m) = "new"
    <3>1. ranIn' = ranIn /\ renewed' = [renewed EXCEPT ![t] = @ + 1]
      BY <2>2 DEF ThreadCreated, ThreadNotSaved, PutThread
    <3>2. QED
      BY <1>1, <1>2, <2>2, <3>1
  <2>3. QED
    BY <1>1, <2>1, <2>2
<1>4. PICK r \in MessageType : r.pc \in {"running", "sending"} /\ message' = [message EXCEPT ![m] = r]
  <2>1. CASE ThreadCreated(m) /\ MsgKind(m) = "chat"
    BY <1>2, <2>1, RunIsAMessage DEF ThreadCreated, ChInv
  <2>2. CASE ThreadNotSaved(m) \/ MsgKind(m) = "new"
    BY <2>2, ReplyIsAMessage DEF ThreadCreated, ThreadNotSaved, ChInv
  <2>3. QED
    BY <1>1, <2>1, <2>2
<1>5. /\ message' \in [Msgs -> MessageType] /\ message'[m] = r
      /\ \A k \in Msgs \ {m} : message'[k] = message[k]
  BY <1>1, <1>4, OneMessage
<1>6. PermitsOut'
  <2>1. message[m].pc \in AtWork /\ message'[m].pc \in AtWork
    BY <1>1, <1>4, <1>5 DEF AtWork
  <2>2. QED
    BY <1>1, <1>5, <2>1, PermitsStay DEF ChInv
<1>7. QueuedOnce'
  BY <1>1, <1>5, QueueStays DEF ChInv
<1>8. ChTypeOK'
  <2>1. {topicMap', saved'} \subseteq [Topics -> Nat]
    BY <1>1, <1>2
  <2>2. QED
    BY <1>1, <1>2, <1>3, <1>5, <2>1 DEF ChInv, ChTypeOK, MessageType
<1>9. OnlyThreadsAreMade' /\ (\A k \in Msgs : message'[k].pc = "creating" => k # m /\ message[k].pc = "creating")
  BY <1>4, <1>5 DEF ChInv, OnlyThreadsAreMade
<1>10. Accounted'
  <2>1. SUFFICES ASSUME NEW u \in Topics \ ({"none"} \cup split)
                 PROVE  /\ IsFiniteSet(Used(u)') /\ Cardinality(Used(u)') <= 1 + renewed'[u]
                        /\ topicMap'[u] = NoThread => ranIn'[u] = {} /\ saved'[u] = NoThread
                        /\ \A k, l \in Making(u)' : k = l
                        /\ \A k \in Making(u)' : MsgKind(k) = "chat" => topicMap'[u] = NoThread
    BY <1>1 DEF Accounted
  <2>2. /\ IsFiniteSet(Used(u)) /\ Cardinality(Used(u)) <= 1 + renewed[u]
        /\ topicMap[u] = NoThread => ranIn[u] = {} /\ saved[u] = NoThread
        /\ \A k, l \in Making(u) : k = l
        /\ \A k \in Making(u) : MsgKind(k) = "chat" => topicMap[u] = NoThread
    BY <2>1 DEF ChInv, Accounted
  <2>3. Making(u)' \subseteq Making(u) \ {m}
    BY <1>9 DEF Making
  <2>4. CASE u # t
    <3>1. /\ topicMap'[u] = topicMap[u] /\ ranIn'[u] = ranIn[u] /\ renewed'[u] = renewed[u]
          /\ saved'[u] \in {saved[u], topicMap[u]}
      BY <1>1, <1>2, <1>3, <2>4
    <3>2. Used(u)' \subseteq Used(u) /\ renewed[u] \in Nat
      BY <1>1, <3>1 DEF Used
    <3>3. IsFiniteSet(Used(u)') /\ Cardinality(Used(u)') <= 1 + renewed'[u]
      BY <2>2, <3>1, <3>2, UsedShrinks
    <3>4. QED
      BY <2>2, <2>3, <3>1, <3>3
  <2>5. CASE u = t
    <3>1. m \in Making(u) /\ Making(u)' = {}
      <4>1. m \in Making(u)
        BY <1>1, <2>5 DEF Making
      <4>2. QED
        BY <2>2, <2>3, <4>1
    <3>2. topicMap'[u] # NoThread /\ topicMap'[u] = threads' /\ saved'[u] \in {saved[u], threads'}
      BY <1>1, <1>2, <2>5
    <3>3. IsFiniteSet(Used(u)') /\ Cardinality(Used(u)') <= 1 + renewed'[u]
      <4>1. CASE MsgKind(m) = "chat"
        <5>1. ranIn[u] = {} /\ saved[u] = NoThread
          BY <2>2, <3>1, <4>1
        <5>2. Used(u)' = {threads'}
          BY <1>2, <1>3, <2>5, <3>2, <4>1, <5>1 DEF Used
        <5>3. IsFiniteSet({threads'}) /\ Cardinality({threads'}) = 1
          BY FS_Singleton
        <5>4. renewed'[u] \in Nat
          BY <1>3
        <5>5. QED
          BY <5>2, <5>3, <5>4
      <4>2. CASE MsgKind(m) = "new"
        <5>1. PICK S : S = Used(u)
          OBVIOUS
        <5>2. PICK n : n = threads'
          OBVIOUS
        <5>3. Used(u)' \subseteq S \cup {n}
          BY <1>2, <1>3, <2>5, <3>2, <4>2, <5>1, <5>2 DEF Used
        <5>4. /\ IsFiniteSet(S \cup {n}) /\ Cardinality(S \cup {n}) <= Cardinality(S) + 1
              /\ Cardinality(S) \in Nat /\ Cardinality(S \cup {n}) \in Nat
          <6>1. IsFiniteSet(S)
            BY <2>2, <5>1
          <6>2. /\ IsFiniteSet(S \cup {n})
                /\ Cardinality(S \cup {n}) = IF n \in S THEN Cardinality(S) ELSE Cardinality(S) + 1
            BY <6>1, FS_AddElement
          <6>3. Cardinality(S) \in Nat
            BY <6>1, FS_CardinalityType
          <6>4. QED
            BY <6>2, <6>3
        <5>5. PICK U : U = Used(u)'
          OBVIOUS
        <5>6. IsFiniteSet(U) /\ Cardinality(U) <= Cardinality(S \cup {n}) /\ Cardinality(U) \in Nat
          <6>1. U \subseteq S \cup {n}
            BY <5>3, <5>5
          <6>2. QED
            BY <5>4, <6>1, FS_Subset, FS_CardinalityType
        <5>7. renewed'[u] = renewed[u] + 1 /\ renewed[u] \in Nat /\ Cardinality(S) <= 1 + renewed[u]
          BY <1>1, <1>3, <2>2, <2>5, <4>2, <5>1
        <5>8. Cardinality(U) <= 1 + renewed'[u]
          BY <5>4, <5>6, <5>7
        <5>9. QED
          BY <5>5, <5>6, <5>8
      <4>3. QED
        BY <1>1, <4>1, <4>2
    <3>4. QED
      BY <3>1, <3>2, <3>3
  <2>6. QED
    BY <2>4, <2>5
<1>11. QED
  BY <1>6, <1>7, <1>8, <1>9, <1>10 DEF ChInv

\* The permit comes back.
LEMMA FinishKeeps == ASSUME ChInv, NEW m \in Msgs, Finish(m) PROVE ChInv'
<1>1. /\ message[m].pc = "sending" /\ permits' = permits + 1
      /\ message' = [message EXCEPT ![m] = [Unsent EXCEPT !.pc = "done"]]
      /\ UNCHANGED <<inbound, listeners, instance, topicMap, saved, threads, posts, ranIn, renewed, split>>
  BY DEF Finish
<1>2. PICK r : r = [pc |-> "done", thread |-> 0, to |-> <<>>, tries |-> 0]
  OBVIOUS
<1>3. r \in MessageType /\ [Unsent EXCEPT !.pc = "done"] = r
  <2>1. <<>> \in Seq(Nat) /\ 0 \in 0 .. MaxSends
    BY EmptySeq, ChannelsAssumption
  <2>2. QED
    BY <1>2, <2>1 DEF Unsent, NoThread, MessageType
<1>4. /\ message' \in [Msgs -> MessageType] /\ message'[m] = r
      /\ \A k \in Msgs \ {m} : message'[k] = message[k]
  BY <1>1, <1>3, OneMessage DEF ChInv, ChTypeOK, MessageType
<1>5. PermitsOut' /\ permits' \in 0 .. MaxConcurrency
  <2>1. message[m].pc \in AtWork /\ message'[m].pc \notin AtWork
    BY <1>1, <1>2, <1>4 DEF AtWork
  <2>2. QED
    BY <1>1, <1>4, <2>1, PermitGiven DEF ChInv
<1>6. QueuedOnce'
  BY <1>1, <1>4, QueueStays DEF ChInv
<1>7. ChTypeOK'
  BY <1>1, <1>4, <1>5 DEF ChInv, ChTypeOK, MessageType
<1>8. \A k \in Msgs : message'[k].pc = "creating" => message[k].pc = "creating"
  BY <1>2, <1>4
<1>9. Accounted' /\ OnlyThreadsAreMade'
  BY <1>1, <1>8, TopicsStay DEF ChInv, OnlyThreadsAreMade
<1>10. QED
  BY <1>5, <1>6, <1>7, <1>9 DEF ChInv

LEMMA RestartKeeps == ASSUME ChInv, RestartChannel \/ UNCHANGED channels PROVE ChInv'
<1>1. /\ UNCHANGED <<inbound, permits, message, topicMap, saved, threads, posts, ranIn, renewed, split>>
      /\ instance' \in Nat /\ listeners' \in Seq(Nat)
  <2>1. CASE RestartChannel
    <3>1. PICK fresh : fresh = 1 + (IF instance > Len(listeners) THEN instance ELSE Len(listeners))
      OBVIOUS
    <3>2. instance \in Nat /\ listeners \in Seq(Nat) /\ Len(listeners) \in Nat
      BY DEF ChInv, ChTypeOK
    <3>3. fresh \in Nat
      BY <3>1, <3>2
    <3>4. /\ instance' \in {fresh, 0} /\ listeners' \in {listeners, Append(listeners, fresh)}
          /\ UNCHANGED <<inbound, permits, message, topicMap, saved, threads, posts, ranIn, renewed, split>>
      BY <2>1, <3>1 DEF RestartChannel, Unsubscribed
    <3>5. Append(listeners, fresh) \in Seq(Nat)
      BY <3>2, <3>3
    <3>6. instance' \in Nat
      BY <3>3, <3>4
    <3>7. listeners' \in Seq(Nat)
      BY <3>2, <3>4, <3>5
    <3>8. QED
      BY <3>4, <3>6, <3>7
  <2>2. CASE UNCHANGED channels
    BY <2>2 DEF channels, ChInv, ChTypeOK
  <2>3. QED
    BY <2>1, <2>2
<1>2. ChTypeOK'
  BY <1>1 DEF ChInv, ChTypeOK
<1>3. PermitsOut'
  <2>1. Working' = Working
    BY <1>1 DEF Working
  <2>2. QED
    BY <1>1, <2>1 DEF ChInv, PermitsOut
<1>4. QueuedOnce' /\ OnlyThreadsAreMade'
  BY <1>1 DEF ChInv, QueuedOnce, OnlyThreadsAreMade
<1>5. Accounted'
  BY <1>1, TopicsStay DEF ChInv
<1>6. QED
  BY <1>2, <1>3, <1>4, <1>5 DEF ChInv

\* The process stops and starts: nothing is at work, and the queue is empty.
LEMMA ProcessKeeps == ASSUME ChInv, ChRestart PROVE ChInv'
<1>1. /\ inbound' = <<>> /\ permits' = MaxConcurrency /\ instance' = 1 /\ listeners' = <<1>>
      /\ message' = [m \in Msgs |-> IF message[m].pc \in {"unsent", "done"} THEN message[m]
                                    ELSE [Unsent EXCEPT !.pc = "lost"]]
      /\ topicMap' = saved
      /\ split' = split \cup {t \in Topics : saved[t] = NoThread /\ ranIn[t] # {}}
      /\ UNCHANGED <<saved, threads, posts, ranIn, renewed>>
  BY DEF ChRestart
<1>2. PICK r : r = [pc |-> "lost", thread |-> 0, to |-> <<>>, tries |-> 0]
  OBVIOUS
<1>3. r \in MessageType /\ [Unsent EXCEPT !.pc = "lost"] = r
  <2>1. <<>> \in Seq(Nat) /\ 0 \in 0 .. MaxSends
    BY EmptySeq, ChannelsAssumption
  <2>2. QED
    BY <1>2, <2>1 DEF Unsent, NoThread, MessageType
<1>4. message \in [Msgs -> MessageType]
  BY DEF ChInv, ChTypeOK, MessageType
<1>5. message' \in [Msgs -> MessageType] /\ \A m \in Msgs : message'[m].pc \in {"unsent", "done", "lost"}
  <2> HIDE DEF MessageType
  <2>1. QED
    BY <1>1, <1>2, <1>3, <1>4
<1>6. PermitsOut'
  <2>1. Working' = {}
    BY <1>5 DEF Working, AtWork
  <2>2. IsFiniteSet({}) /\ Cardinality({}) = 0
    BY FS_EmptySet
  <2>3. QED
    BY <1>1, <2>1, <2>2, ChannelsAssumption DEF PermitsOut
<1>7. QueuedOnce'
  BY <1>1 DEF QueuedOnce
<1>8. ChTypeOK'
  <2>1. <<>> \in Seq(Msgs) /\ <<1>> \in Seq(Nat)
    BY EmptySeq
  <2>2. permits' \in 0 .. MaxConcurrency /\ instance' \in Nat
    BY <1>1, ChannelsAssumption
  <2>3. QED
    BY <1>1, <1>5, <2>1, <2>2 DEF ChInv, ChTypeOK, MessageType
<1>9. \A k \in Msgs : message'[k].pc # "creating"
  BY <1>5
<1>10. OnlyThreadsAreMade'
  BY <1>9 DEF OnlyThreadsAreMade
<1>11. Accounted'
  <2>1. SUFFICES ASSUME NEW u \in Topics \ ({"none"} \cup split')
                 PROVE  /\ IsFiniteSet(Used(u)') /\ Cardinality(Used(u)') <= 1 + renewed'[u]
                        /\ topicMap'[u] = NoThread => ranIn'[u] = {} /\ saved'[u] = NoThread
                        /\ Making(u)' = {}
    BY DEF Accounted
  <2>2. u \in Topics \ ({"none"} \cup split) /\ (saved[u] = NoThread => ranIn[u] = {})
    BY <1>1, <2>1
  <2>3. IsFiniteSet(Used(u)) /\ Cardinality(Used(u)) <= 1 + renewed[u] /\ renewed[u] \in Nat
    BY <2>2 DEF ChInv, Accounted, ChTypeOK
  <2>4. Used(u)' \subseteq Used(u)
    BY <1>1 DEF Used
  <2>5. Making(u)' = {}
    BY <1>9 DEF Making
  <2>6. IsFiniteSet(Used(u)') /\ Cardinality(Used(u)') <= 1 + renewed'[u]
    BY <1>1, <2>2, <2>3, <2>4, UsedShrinks
  <2>7. QED
    BY <1>1, <2>2, <2>5, <2>6
<1>12. QED
  BY <1>6, <1>7, <1>8, <1>10, <1>11 DEF ChInv

LEMMA ChInitial == ChInit => ChInv
<1> SUFFICES ASSUME ChInit PROVE ChInv
  OBVIOUS
<1>1. /\ inbound = <<>> /\ listeners = <<1>> /\ instance = 1 /\ permits = MaxConcurrency
      /\ message = [m \in Msgs |-> Unsent]
      /\ topicMap = [t \in Topics |-> NoThread] /\ saved = topicMap /\ threads = 0
      /\ posts = [m \in Msgs |-> {}] /\ ranIn = [t \in Topics |-> {}]
      /\ renewed = [t \in Topics |-> 0] /\ split = {}
  BY DEF ChInit
<1>2. Unsent \in MessageType /\ Unsent.pc = "unsent"
  <2>1. <<>> \in Seq(Nat) /\ 0 \in 0 .. MaxSends
    BY EmptySeq, ChannelsAssumption
  <2>2. QED
    BY <2>1 DEF Unsent, NoThread, MessageType
<1>3. message \in [Msgs -> MessageType] /\ \A m \in Msgs : message[m].pc = "unsent"
  <2> HIDE DEF MessageType
  <2>1. QED
    BY <1>1, <1>2
<1>4. ChTypeOK
  <2>1. <<>> \in Seq(Msgs) /\ <<1>> \in Seq(Nat) /\ MaxConcurrency \in 0 .. MaxConcurrency
    BY EmptySeq, ChannelsAssumption
  <2>2. QED
    BY <1>1, <1>3, <2>1 DEF ChTypeOK, MessageType, NoThread
<1>5. PermitsOut
  <2>1. Working = {}
    BY <1>3 DEF Working, AtWork
  <2>2. QED
    BY <1>1, <2>1, FS_EmptySet, ChannelsAssumption DEF PermitsOut
<1>6. QueuedOnce /\ OnlyThreadsAreMade
  BY <1>1, <1>3 DEF QueuedOnce, OnlyThreadsAreMade
<1>7. Accounted
  <2>1. \A t \in Topics : /\ Used(t) = {} /\ Making(t) = {} /\ renewed[t] = 0 /\ ranIn[t] = {}
                           /\ saved[t] = NoThread
    BY <1>1, <1>3 DEF Used, Making
  <2>2. IsFiniteSet({}) /\ Cardinality({}) = 0
    BY FS_EmptySet
  <2>3. ASSUME NEW t \in Topics PROVE Cardinality(Used(t)) <= 1 + renewed[t]
    <3>1. Cardinality(Used(t)) = 0 /\ renewed[t] = 0
      BY <2>1, <2>2
    <3>2. QED
      BY <3>1
  <2>4. QED
    BY <2>1, <2>2, <2>3 DEF Accounted
<1>8. QED
  BY <1>4, <1>5, <1>6, <1>7 DEF ChInv

ChAction == \/ \E m \in Msgs : Receive(m)
            \/ RestartChannel \/ ChRestart \/ ChStep \/ UNCHANGED channels

LEMMA ChannelsKeep == ChInv /\ ChAction => ChInv'
  BY ReceiveKeeps, RestartKeeps, ProcessKeeps, DispatchKeeps, BeginKeeps, CreatedKeeps, AnswersKeep,
     SendKeeps, FinishKeeps DEF ChAction, ChStep, Serve

LEMMA TopicsAreAccounted == ChInv => OneThreadPerTopic
<1> SUFFICES ASSUME ChInv, NEW t \in Topics \ ({"none"} \cup split)
             PROVE  Cardinality(ranIn[t]) <= 1 + renewed[t]
  BY DEF OneThreadPerTopic
<1>1. IsFiniteSet(Used(t)) /\ Cardinality(Used(t)) <= 1 + renewed[t] /\ renewed[t] \in Nat
  BY DEF ChInv, Accounted, ChTypeOK
<1>2. PICK S, U : S = ranIn[t] /\ U = Used(t)
  OBVIOUS
<1>3. S \subseteq U
  BY <1>2 DEF Used
<1>4. Cardinality(S) <= Cardinality(U) /\ Cardinality(S) \in Nat /\ Cardinality(U) \in Nat
  BY <1>1, <1>2, <1>3, FS_Subset, FS_CardinalityType
<1>5. QED
  BY <1>1, <1>2, <1>4

----------------------------------------------------------------------------
(* The generation jobs.  Every copy of the store, the file and what a change *)
(* of it read, is sound: the jobs that ended have the numbers below the next *)
(* one, each its own.  What a change read is what the file holds, unless two *)
(* changes overlapped; and the frontend's number is one that was given.      *)

JobState == [status : Ends \cup {"absent", "submitted", "running"}, seq : Nat]
Ended(s) == {j \in GenJobs : s.jobs[j].status \in Ends}
StoreIsSound(s) ==
  /\ s \in [jobs : [GenJobs -> JobState], next : Nat \ {0}]
  /\ Cardinality(Ended(s)) = s.next - 1
  /\ \A j \in GenJobs : s.jobs[j].seq < s.next
  /\ \A j, k \in Ended(s) : s.jobs[j].seq = s.jobs[k].seq => j = k

Untouched == {j \in GenJobs : comfy[j] = "unknown" \/ (submission.pc # "idle" /\ submission.job = j)}
CopyIsSound(s) == StoreIsSound(s) /\ \A j \in Untouched : s.jobs[j].status = "absent"

SubmissionOK ==
  /\ submission.pc \in {"idle", "posted", "writing"}
  /\ submission.pc # "idle" => submission.job \in GenJobs /\ comfy[submission.job] # "unknown"
  /\ submission.pc = "writing" =>
       CopyIsSound(submission.base) /\ (~genCrossed => submission.base = genStore /\ poll.pc # "writing")
PollOK ==
  /\ poll.pc \in {"idle", "pass", "marking", "writing"}
  /\ poll.pc # "idle" => poll.todo \subseteq {j \in GenJobs : comfy[j] # "unknown"}
  /\ poll.pc = "pass" => poll = [pc |-> "pass", todo |-> poll.todo, aged |-> poll.aged]
  /\ poll.pc \in {"marking", "writing"} => poll.job \in GenJobs /\ poll.as \in Ends \cup {"running"}
  /\ poll.pc = "writing" => CopyIsSound(poll.base) /\ (~genCrossed => poll.base = genStore)

GenInv ==
  /\ genAged \subseteq GenJobs /\ genCrossed \in BOOLEAN
  /\ comfy \in [GenJobs -> {"unknown", "working", "error", "empty", "done"}]
  /\ notices \in [since : Nat, told : SUBSET GenJobs]
  /\ CopyIsSound(genStore) /\ SubmissionOK /\ PollOK
  /\ ~genCrossed => notices.since < genStore.next
  /\ NoticeOfEveryEnd

\* A number for each job is enough.
LEMMA NumbersAreFew ==
  ASSUME NEW s, StoreIsSound(s)
  PROVE  s.next \in 1 .. Cardinality(GenJobs) + 1 /\ Cardinality(GenJobs) \in Nat
<1>1. PICK E : E = Ended(s)
  OBVIOUS
<1>2. E \subseteq GenJobs /\ IsFiniteSet(GenJobs)
  BY <1>1, PageSizeAssumption DEF Ended
<1>3. Cardinality(E) <= Cardinality(GenJobs) /\ Cardinality(E) \in Nat /\ Cardinality(GenJobs) \in Nat
  BY <1>2, FS_Subset, FS_CardinalityType
<1>4. s.next \in Nat \ {0} /\ Cardinality(E) = s.next - 1
  BY <1>1 DEF StoreIsSound
<1>5. QED
  BY <1>3, <1>4

\* A job that is stored has no number yet.
WithJob(s, j) == [s EXCEPT !.jobs[j] = [status |-> "submitted", seq |-> 0]]

LEMMA SubmittedIsSound ==
  ASSUME NEW s, StoreIsSound(s), NEW j \in GenJobs, s.jobs[j].status = "absent",
         NEW t, t = WithJob(s, j)
  PROVE  /\ StoreIsSound(t) /\ t.next = s.next /\ t.jobs[j].status = "submitted"
         /\ \A k \in GenJobs \ {j} : t.jobs[k] = s.jobs[k]
<1>1. /\ s.jobs \in [GenJobs -> JobState] /\ s.next \in Nat \ {0} /\ s = [jobs |-> s.jobs, next |-> s.next]
      /\ Cardinality(Ended(s)) = s.next - 1 /\ (\A k \in GenJobs : s.jobs[k].seq < s.next)
      /\ \A k, l \in Ended(s) : s.jobs[k].seq = s.jobs[l].seq => k = l
  BY DEF StoreIsSound
<1>2. PICK r : r = [status |-> "submitted", seq |-> 0]
  OBVIOUS
<1>3. t.next = s.next /\ t = [jobs |-> t.jobs, next |-> t.next] /\ t.jobs = [s.jobs EXCEPT ![j] = r]
  BY <1>1, <1>2 DEF WithJob
<1>4. r \in JobState
  BY <1>2 DEF JobState
<1> HIDE DEF JobState
<1>5. t.jobs \in [GenJobs -> JobState] /\ t.jobs[j] = r /\ \A k \in GenJobs \ {j} : t.jobs[k] = s.jobs[k]
  BY <1>1, <1>3, <1>4
<1>6. Ended(t) = Ended(s)
  BY <1>2, <1>5 DEF Ended, Ends
<1>7. \A k \in GenJobs : t.jobs[k].seq < t.next
  <2>1. r.seq < t.next
    BY <1>1, <1>2, <1>3
  <2>2. QED
    BY <1>1, <1>3, <1>5, <2>1
<1>8. \A k, l \in Ended(t) : t.jobs[k].seq = t.jobs[l].seq => k = l
  <2>1. \A k \in Ended(s) : k # j /\ k \in GenJobs
    BY DEF Ended, Ends
  <2>2. QED
    BY <1>1, <1>5, <1>6, <2>1
<1>9. t \in [jobs : [GenJobs -> JobState], next : Nat \ {0}]
  BY <1>1, <1>3, <1>5
<1>10. QED
  BY <1>1, <1>2, <1>3, <1>5, <1>6, <1>7, <1>8, <1>9 DEF StoreIsSound

\* A job that ends has the next number, and nothing else changes.
Follows(s, t) ==
  /\ \A k \in GenJobs : s.jobs[k].status = "absent" => t.jobs[k].status = "absent"
  /\ \A k \in Ended(t) : \/ k \in Ended(s) /\ t.jobs[k].seq = s.jobs[k].seq
                         \/ t.jobs[k].seq = s.next

LEMMA MarkedIsSound ==
  ASSUME NEW s, StoreIsSound(s), NEW j \in GenJobs, NEW as \in Ends \cup {"running"},
         NEW t, t = Marked(s, j, as)
  PROVE  StoreIsSound(t) /\ t.next >= s.next /\ Follows(s, t)
<1>1. /\ s.jobs \in [GenJobs -> JobState] /\ s.next \in Nat \ {0} /\ s = [jobs |-> s.jobs, next |-> s.next]
      /\ Cardinality(Ended(s)) = s.next - 1 /\ (\A k \in GenJobs : s.jobs[k].seq < s.next)
      /\ \A k, l \in Ended(s) : s.jobs[k].seq = s.jobs[l].seq => k = l
  BY DEF StoreIsSound
<1>2. s.jobs[j] \in JobState /\ s.jobs[j] = [status |-> s.jobs[j].status, seq |-> s.jobs[j].seq]
  BY <1>1 DEF JobState
<1>3. CASE t = s
  BY <1>1, <1>3 DEF Follows
<1>4. CASE as = "running" /\ s.jobs[j].status = "submitted"
  <2>1. t = [s EXCEPT !.jobs[j].status = "running"]
    BY <1>4 DEF Marked
  <2>2. PICK r : r = [status |-> "running", seq |-> s.jobs[j].seq]
    OBVIOUS
  <2>3. t.next = s.next /\ t = [jobs |-> t.jobs, next |-> t.next] /\ t.jobs = [s.jobs EXCEPT ![j].status = "running"]
    BY <1>1, <2>1
  <2>4. r \in JobState
    BY <1>2, <2>2 DEF JobState
  <2>5. t.jobs[j] = r /\ \A k \in GenJobs \ {j} : t.jobs[k] = s.jobs[k]
    BY <1>1, <1>2, <2>2, <2>3
  <2>6. t.jobs \in [GenJobs -> JobState]
    <3> HIDE DEF JobState
    <3>1. t.jobs = [s.jobs EXCEPT ![j] = r]
      <4>1. t.jobs = [k \in GenJobs |-> t.jobs[k]] /\ s.jobs = [k \in GenJobs |-> s.jobs[k]]
        BY <1>1, <2>3
      <4>2. QED
        BY <2>5, <4>1
    <3>2. QED
      BY <1>1, <2>4, <3>1
  <2>7. Ended(t) = Ended(s) /\ j \notin Ended(s) /\ Ended(s) \subseteq GenJobs
    BY <1>4, <2>2, <2>5 DEF Ended, Ends
  <2>8. \A k \in GenJobs : t.jobs[k].seq = s.jobs[k].seq
    <3>1. t.jobs[j].seq = s.jobs[j].seq
      BY <2>2, <2>5
    <3>2. QED
      BY <2>5, <3>1
  <2>9. StoreIsSound(t)
    <3>1. t \in [jobs : [GenJobs -> JobState], next : Nat \ {0}]
      BY <1>1, <2>3, <2>6
    <3>2. \A k \in GenJobs : t.jobs[k].seq < t.next
      BY <1>1, <2>3, <2>8
    <3>3. \A k, l \in Ended(t) : t.jobs[k].seq = t.jobs[l].seq => k = l
      BY <1>1, <2>7, <2>8
    <3>4. QED
      BY <1>1, <2>3, <2>7, <3>1, <3>2, <3>3 DEF StoreIsSound
  <2>10. t.next >= s.next
    BY <1>1, <2>3
  <2>11. \A k \in GenJobs : s.jobs[k].status = "absent" => t.jobs[k].status = "absent"
    BY <1>4, <2>5
  <2>12. QED
    BY <2>7, <2>8, <2>9, <2>10, <2>11 DEF Follows
<1>5. CASE as # "running" /\ s.jobs[j].status \notin Ends \cup {"absent"}
  <2>1. PICK r : r = [status |-> as, seq |-> s.next]
    OBVIOUS
  <2>2. t = [jobs |-> [s.jobs EXCEPT ![j] = r], next |-> s.next + 1]
    BY <1>5, <2>1 DEF Marked
  <2>3. t.next = s.next + 1 /\ t.jobs = [s.jobs EXCEPT ![j] = r] /\ t = [jobs |-> t.jobs, next |-> t.next]
    BY <2>2
  <2>4. r \in JobState
    BY <1>1, <2>1 DEF JobState
  <2>5. t.jobs \in [GenJobs -> JobState] /\ t.jobs[j] = r /\ \A k \in GenJobs \ {j} : t.jobs[k] = s.jobs[k]
    <3> HIDE DEF JobState
    <3>1. QED
      BY <1>1, <2>3, <2>4
  <2>6. Ended(t) = Ended(s) \cup {j} /\ j \notin Ended(s) /\ Ended(s) \subseteq GenJobs
    <3>0. as \in Ends /\ s.jobs[j].status \notin Ends
      BY <1>5
    <3>1. t.jobs[j].status \in Ends /\ s.jobs[j].status \notin Ends
      <4>1. r.status = as
        BY <2>1
      <4>2. t.jobs[j].status = as
        BY <2>5, <4>1, Zenon
      <4>3. QED
        BY <3>0, <4>2, Zenon
    <3>2. QED
      BY <2>5, <3>1 DEF Ended
  <2>7. Cardinality(Ended(t)) = t.next - 1
    <3>1. PICK E : E = Ended(s)
      OBVIOUS
    <3>2. IsFiniteSet(E)
      BY <2>6, <3>1, FS_Subset, PageSizeAssumption
    <3>3. Cardinality(E \cup {j}) = Cardinality(E) + 1 /\ Cardinality(E) \in Nat
      BY <2>6, <3>1, <3>2, FS_AddElement, FS_CardinalityType
    <3>4. Cardinality(E) = s.next - 1 /\ s.next \in Nat
      BY <1>1, <3>1
    <3>5. QED
      BY <2>3, <2>6, <3>1, <3>3, <3>4
  <2>8. \A k \in GenJobs \ {j} : t.jobs[k].seq = s.jobs[k].seq /\ t.jobs[k].seq < s.next
    BY <1>1, <2>5
  <2>9. t.jobs[j].seq = s.next
    BY <2>1, <2>5
  <2>10. \A k \in GenJobs : t.jobs[k].seq \in Nat
    BY <2>5 DEF JobState
  <2>11. StoreIsSound(t)
    <3>1. t \in [jobs : [GenJobs -> JobState], next : Nat \ {0}]
      <4>1. t.next \in Nat \ {0}
        BY <1>1, <2>3
      <4>2. QED
        BY <2>3, <2>5, <4>1
    <3>2. \A k \in GenJobs : t.jobs[k].seq < t.next
      <4>1. SUFFICES ASSUME NEW k \in GenJobs PROVE t.jobs[k].seq < t.next
        OBVIOUS
      <4>2. PICK q \in Nat : q = t.jobs[k].seq
        BY <2>10
      <4>3. q < s.next \/ q = s.next
        BY <2>8, <2>9, <4>2
      <4>4. PICK n \in Nat : n = s.next
        BY <1>1
      <4>5. q < n + 1
        BY <4>3, <4>4
      <4>6. QED
        BY <2>3, <4>2, <4>4, <4>5
    <3>3. ASSUME NEW k \in Ended(t), NEW l \in Ended(t), t.jobs[k].seq = t.jobs[l].seq PROVE k = l
      <4>1. k \in GenJobs /\ l \in GenJobs
        BY <2>6
      <4>0. PICK n \in Nat : n = s.next
        BY <1>1
      <4>2. CASE k # j /\ l # j
        <5>1. k \in Ended(s) /\ l \in Ended(s) /\ s.jobs[k].seq = s.jobs[l].seq
          BY <2>6, <2>8, <3>3, <4>1, <4>2
        <5>2. QED
          BY <1>1, <5>1
      <4>3. CASE k = j /\ l # j
        <5>1. t.jobs[l].seq = n /\ t.jobs[l].seq < n
          BY <2>8, <2>9, <3>3, <4>0, <4>1, <4>3
        <5>2. QED
          BY <5>1
      <4>4. CASE k # j /\ l = j
        <5>1. t.jobs[k].seq = n /\ t.jobs[k].seq < n
          BY <2>8, <2>9, <3>3, <4>0, <4>1, <4>4
        <5>2. QED
          BY <5>1
      <4>5. QED
        BY <4>2, <4>3, <4>4
    <3>4. QED
      BY <2>7, <3>1, <3>2, <3>3 DEF StoreIsSound
  <2>12. t.next >= s.next
    BY <1>1, <2>3
  <2>13. \A k \in GenJobs : s.jobs[k].status = "absent" => t.jobs[k].status = "absent"
    BY <1>5, <2>5
  <2>14. \A k \in Ended(t) : \/ k \in Ended(s) /\ t.jobs[k].seq = s.jobs[k].seq
                             \/ t.jobs[k].seq = s.next
    BY <2>6, <2>8, <2>9
  <2>15. QED
    BY <2>11, <2>12, <2>13, <2>14 DEF Follows
<1>6. t = s \/ (as = "running" /\ s.jobs[j].status = "submitted")
            \/ (as # "running" /\ s.jobs[j].status \notin Ends \cup {"absent"})
  BY DEF Marked
<1>7. QED
  BY <1>3, <1>4, <1>5, <1>6

\* What is known of a job is not forgotten; and what is not touched stays sound.
KnownStays == \A j \in GenJobs : comfy[j] # "unknown" => comfy'[j] # "unknown"

LEMMA CopyStays ==
  ASSUME Untouched' \subseteq Untouched, NEW s, CopyIsSound(s)
  PROVE  StoreIsSound(s) /\ \A j \in Untouched' : s.jobs[j].status = "absent"
  BY DEF CopyIsSound

LEMMA StoreStays ==
  ASSUME GenInv, UNCHANGED <<genStore, notices>>, genCrossed => genCrossed', Untouched' \subseteq Untouched
  PROVE  /\ CopyIsSound(genStore)' /\ NoticeOfEveryEnd'
         /\ ~genCrossed' => notices'.since < genStore'.next
<1>1. CopyIsSound(genStore)'
  BY CopyStays DEF GenInv, CopyIsSound, StoreIsSound, Ended
<1>2. NoticeOfEveryEnd'
  BY DEF GenInv, NoticeOfEveryEnd, SeqOf
<1>3. QED
  BY <1>1, <1>2 DEF GenInv

LEMMA SubmissionStays ==
  ASSUME GenInv, UNCHANGED <<genStore, submission>>, genCrossed => genCrossed',
         Untouched' \subseteq Untouched, KnownStays,
         poll'.pc = "writing" => genCrossed' \/ poll.pc = "writing" \/ submission.pc # "writing"
  PROVE  SubmissionOK'
<1>1. SubmissionOK
  BY DEF GenInv
<1>2. submission.pc = "writing" => CopyIsSound(submission.base)'
  BY <1>1, CopyStays DEF SubmissionOK, CopyIsSound, StoreIsSound, Ended
<1>3. submission.pc # "idle" => submission.job \in GenJobs /\ comfy'[submission.job] # "unknown"
  BY <1>1 DEF SubmissionOK, KnownStays
<1>4. submission.pc = "writing" /\ ~genCrossed' => submission.base = genStore' /\ poll'.pc # "writing"
  BY <1>1 DEF SubmissionOK
<1>5. QED
  BY <1>1, <1>2, <1>3, <1>4 DEF SubmissionOK

LEMMA PollStays ==
  ASSUME GenInv, UNCHANGED <<genStore, poll>>, genCrossed => genCrossed',
         Untouched' \subseteq Untouched, KnownStays
  PROVE  PollOK'
<1>1. PollOK
  BY DEF GenInv
<1>2. poll.pc = "writing" => CopyIsSound(poll.base)'
  BY <1>1, CopyStays DEF PollOK, CopyIsSound, StoreIsSound, Ended
<1>3. poll.pc # "idle" => poll.todo \subseteq {j \in GenJobs : comfy'[j] # "unknown"}
  BY <1>1 DEF PollOK, KnownStays
<1>4. QED
  BY <1>1, <1>2, <1>3 DEF PollOK

\* What is given a new number is not touched by what is copied.
LEMMA SubmitKeeps == ASSUME GenInv, NEW j \in GenJobs, Submit(j) PROVE GenInv'
<1>1. /\ submission.pc = "idle" /\ comfy[j] = "unknown"
      /\ comfy' = [comfy EXCEPT ![j] = "working"]
      /\ submission' = [pc |-> "posted", job |-> j]
      /\ UNCHANGED <<genStore, genAged, poll, notices, genCrossed>>
  BY DEF Submit
<1>2. comfy \in [GenJobs -> {"unknown", "working", "error", "empty", "done"}]
  BY DEF GenInv
<1>3. Untouched' \subseteq Untouched /\ KnownStays
  BY <1>1, <1>2 DEF Untouched, KnownStays
<1>4. SubmissionOK'
  BY <1>1, <1>2 DEF SubmissionOK
<1>5. PollOK'
  BY <1>1, <1>3, PollStays
<1>6. comfy' \in [GenJobs -> {"unknown", "working", "error", "empty", "done"}]
  BY <1>1, <1>2
<1>7. QED
  BY <1>1, <1>3, <1>4, <1>5, <1>6, StoreStays DEF GenInv

LEMMA SubmitReadsKeeps == ASSUME GenInv, SubmitReads PROVE GenInv'
<1>1. /\ submission.pc = "posted"
      /\ submission' = [pc |-> "writing", job |-> submission.job, base |-> genStore]
      /\ genCrossed' = (genCrossed \/ poll.pc = "writing")
      /\ UNCHANGED <<genStore, genAged, comfy, poll, notices>>
  BY DEF SubmitReads
<1>2. /\ submission'.pc = "writing" /\ submission'.job = submission.job /\ submission'.base = genStore
      /\ (genCrossed => genCrossed') /\ genCrossed' \in BOOLEAN
  BY <1>1 DEF GenInv
<1>3. Untouched' \subseteq Untouched /\ KnownStays
  BY <1>1, <1>2 DEF Untouched, KnownStays
<1>4. CopyIsSound(genStore)' /\ NoticeOfEveryEnd' /\ (~genCrossed' => notices'.since < genStore'.next)
  BY <1>1, <1>2, <1>3, StoreStays
<1>5. SubmissionOK'
  <2>1. CopyIsSound(submission.base)'
    BY <1>1, <1>2, <1>4 DEF CopyIsSound, StoreIsSound, Ended
  <2>2. submission.job \in GenJobs /\ comfy'[submission.job] # "unknown"
    BY <1>1 DEF GenInv, SubmissionOK
  <2>3. ~genCrossed' => poll'.pc # "writing"
    BY <1>1
  <2>4. QED
    BY <1>1, <1>2, <2>1, <2>2, <2>3 DEF SubmissionOK
<1>6. PollOK'
  BY <1>1, <1>2, <1>3, PollStays
<1>7. QED
  BY <1>1, <1>2, <1>4, <1>5, <1>6 DEF GenInv

LEMMA SubmitWritesKeeps == ASSUME GenInv, SubmitWrites PROVE GenInv'
<1>1. /\ submission.pc = "writing" /\ submission' = Idle
      /\ genStore' = [submission.base EXCEPT !.jobs[submission.job] = [status |-> "submitted", seq |-> 0]]
      /\ UNCHANGED <<genAged, comfy, poll, notices, genCrossed>>
  BY DEF SubmitWrites
<1>2. PICK j \in GenJobs : j = submission.job /\ comfy[j] # "unknown" /\ j \in Untouched
  BY <1>1 DEF GenInv, SubmissionOK, Untouched
<1>3. PICK s : s = submission.base
  OBVIOUS
<1>4. /\ CopyIsSound(s) /\ s.jobs[j].status = "absent"
      /\ ~genCrossed => s = genStore /\ poll.pc # "writing"
  BY <1>1, <1>2, <1>3 DEF GenInv, SubmissionOK, CopyIsSound
<1>5. PICK t : t = genStore'
  OBVIOUS
<1>6. t = WithJob(s, j)
  BY <1>1, <1>2, <1>3, <1>5 DEF WithJob
<1>7. /\ StoreIsSound(t) /\ t.next = s.next /\ t.jobs[j].status = "submitted"
      /\ \A k \in GenJobs \ {j} : t.jobs[k] = s.jobs[k]
  <2>1. StoreIsSound(s) /\ s.jobs[j].status = "absent"
    BY <1>4 DEF CopyIsSound
  <2>2. QED
    BY <1>2, <1>6, <2>1, SubmittedIsSound
<1>8. Untouched' \subseteq Untouched \ {j} /\ KnownStays
  BY <1>1, <1>2 DEF Untouched, Idle, KnownStays
<1>9. \A k \in Untouched' : t.jobs[k].status = "absent"
  BY <1>4, <1>7, <1>8 DEF CopyIsSound, Untouched
<1>10. CopyIsSound(genStore)'
  BY <1>5, <1>7, <1>9 DEF CopyIsSound, StoreIsSound, Ended
<1>11. SubmissionOK'
  BY <1>1 DEF SubmissionOK, Idle
<1>12. PollOK'
  <2>1. PollOK
    BY DEF GenInv
  <2>2. poll.pc = "writing" => CopyIsSound(poll.base)' /\ genCrossed
    <3>1. SUFFICES ASSUME poll.pc = "writing" PROVE CopyIsSound(poll.base)' /\ genCrossed
      OBVIOUS
    <3>2. PICK b : b = poll.base
      OBVIOUS
    <3>3. CopyIsSound(b)
      BY <2>1, <3>1, <3>2 DEF PollOK
    <3>4. StoreIsSound(b) /\ \A k \in Untouched' : b.jobs[k].status = "absent"
      BY <1>8, <3>3 DEF CopyIsSound
    <3>5. poll'.base = b /\ genCrossed
      BY <1>1, <1>4, <3>1, <3>2 DEF GenInv
    <3>6. QED
      BY <3>4, <3>5 DEF CopyIsSound, StoreIsSound, Ended
  <2>3. QED
    BY <1>1, <2>1, <2>2 DEF PollOK
<1>13. ~genCrossed' => notices'.since < genStore'.next
  BY <1>1, <1>4, <1>5, <1>7 DEF GenInv
<1>14. NoticeOfEveryEnd'
  <2>1. SUFFICES ASSUME ~genCrossed, NEW k \in GenJobs, t.jobs[k].status \in Ends, t.jobs[k].seq <= notices.since
                 PROVE  k \in notices.told
    BY <1>1, <1>5 DEF NoticeOfEveryEnd, SeqOf
  <2>2. k # j
    BY <1>7, <2>1 DEF Ends
  <2>3. genStore.jobs[k] = t.jobs[k]
    BY <1>4, <1>7, <2>1, <2>2
  <2>4. QED
    BY <2>1, <2>3 DEF GenInv, NoticeOfEveryEnd, SeqOf
<1>15. QED
  BY <1>1, <1>10, <1>11, <1>12, <1>13, <1>14 DEF GenInv

\* The poller.
LEMMA PollMovesKeep ==
  ASSUME GenInv, UNCHANGED <<genStore, genAged, comfy, submission, notices>>, genCrossed' \in BOOLEAN,
         genCrossed => genCrossed', PollOK',
         poll'.pc = "writing" => genCrossed' \/ submission.pc # "writing"
  PROVE  GenInv'
<1>1. Untouched' \subseteq Untouched /\ KnownStays
  BY DEF Untouched, KnownStays
<1>2. SubmissionOK'
  BY <1>1, SubmissionStays
<1>3. CopyIsSound(genStore)' /\ NoticeOfEveryEnd' /\ (~genCrossed' => notices'.since < genStore'.next)
  BY <1>1, StoreStays
<1>4. QED
  BY <1>2, <1>3 DEF GenInv

LEMMA PollStartsKeeps == ASSUME GenInv, PollStarts PROVE GenInv'
<1>1. /\ poll' = [pc |-> "pass", todo |-> Pending, aged |-> genAged \cap Pending]
      /\ UNCHANGED <<genStore, genAged, comfy, submission, notices, genCrossed>>
  BY DEF PollStarts
<1>2. Pending \subseteq {j \in GenJobs : comfy[j] # "unknown"}
  BY DEF GenInv, CopyIsSound, Untouched, Pending
<1>3. PollOK'
  BY <1>1, <1>2 DEF PollOK
<1>4. genCrossed' \in BOOLEAN /\ poll'.pc # "writing"
  BY <1>1 DEF GenInv
<1>5. QED
  BY <1>1, <1>3, <1>4, PollMovesKeep

LEMMA PollLooksKeeps == ASSUME GenInv, NEW j \in GenJobs, PollLooks(j) PROVE GenInv'
<1>1. /\ poll.pc = "pass" /\ j \in poll.todo
      /\ UNCHANGED <<genStore, genAged, comfy, submission, notices, genCrossed>>
  BY DEF PollLooks
<1>2. PICK v \in Verdicts(j) :
        poll' = IF v = "unreachable" THEN [poll EXCEPT !.todo = @ \ {j}]
                ELSE [pc |-> "marking", todo |-> poll.todo \ {j}, aged |-> poll.aged, job |-> j, as |-> v]
  BY DEF PollLooks
<1>3. /\ poll = [pc |-> "pass", todo |-> poll.todo, aged |-> poll.aged]
      /\ poll.todo \subseteq {k \in GenJobs : comfy[k] # "unknown"}
  BY <1>1 DEF GenInv, PollOK
<1>4. v \in Ends \cup {"running", "unreachable"}
  <2>1. comfy[j] \in {"working", "error", "empty", "done"}
    BY <1>1, <1>3 DEF GenInv
  <2>2. QED
    BY <1>2, <2>1 DEF Verdicts, Ends
<1>5. PollOK' /\ poll'.pc # "writing"
  <2>1. CASE v = "unreachable"
    <3>1. poll' = [pc |-> "pass", todo |-> poll.todo \ {j}, aged |-> poll.aged]
      BY <1>2, <1>3, <2>1
    <3>2. QED
      BY <1>1, <1>3, <3>1 DEF PollOK
  <2>2. CASE v # "unreachable"
    <3>1. poll' = [pc |-> "marking", todo |-> poll.todo \ {j}, aged |-> poll.aged, job |-> j, as |-> v]
      BY <1>2, <2>2
    <3>2. v \in Ends \cup {"running"}
      BY <1>4, <2>2
    <3>3. QED
      BY <1>1, <1>3, <3>1, <3>2 DEF PollOK
  <2>3. QED
    BY <2>1, <2>2
<1>6. genCrossed' \in BOOLEAN
  BY <1>1 DEF GenInv
<1>7. QED
  BY <1>1, <1>5, <1>6, PollMovesKeep

LEMMA PollReadsKeeps == ASSUME GenInv, PollReads PROVE GenInv'
<1>1. /\ poll.pc = "marking"
      /\ poll' = [pc |-> "writing", todo |-> poll.todo, aged |-> poll.aged,
                  job |-> poll.job, as |-> poll.as, base |-> genStore]
      /\ genCrossed' = (genCrossed \/ submission.pc = "writing")
      /\ UNCHANGED <<genStore, genAged, comfy, submission, notices>>
  BY DEF PollReads
<1>2. Untouched' \subseteq Untouched /\ (genCrossed => genCrossed') /\ genCrossed' \in BOOLEAN
  BY <1>1 DEF Untouched, GenInv
<1>3. CopyIsSound(genStore)'
  BY <1>1, <1>2, StoreStays
<1>4. CopyIsSound(poll.base)' /\ poll'.base = genStore'
  BY <1>1, <1>3 DEF CopyIsSound, StoreIsSound, Ended
<1>5. poll.todo \subseteq {k \in GenJobs : comfy[k] # "unknown"} /\ poll.job \in GenJobs /\ poll.as \in Ends \cup {"running"}
  BY <1>1 DEF GenInv, PollOK
<1>6. PollOK'
  BY <1>1, <1>4, <1>5 DEF PollOK
<1>7. genCrossed' \/ submission.pc # "writing"
  BY <1>1
<1>8. QED
  BY <1>1, <1>2, <1>6, <1>7, PollMovesKeep

LEMMA PollEndsKeeps == ASSUME GenInv, PollEnds PROVE GenInv'
<1>1. poll' = Idle /\ UNCHANGED <<genStore, genAged, comfy, submission, notices, genCrossed>>
  BY DEF PollEnds
<1>2. PollOK' /\ poll'.pc # "writing"
  BY <1>1 DEF PollOK, Idle
<1>3. genCrossed' \in BOOLEAN
  BY <1>1 DEF GenInv
<1>4. QED
  BY <1>1, <1>2, <1>3, PollMovesKeep

\* An end has the next number, which the frontend cannot have passed.
LEMMA PollWritesKeeps == ASSUME GenInv, PollWrites PROVE GenInv'
<1>1. /\ poll.pc = "writing" /\ genStore' = Marked(poll.base, poll.job, poll.as)
      /\ poll' = [pc |-> "pass", todo |-> poll.todo, aged |-> poll.aged]
      /\ UNCHANGED <<genAged, comfy, submission, notices, genCrossed>>
  BY DEF PollWrites
<1>2. PICK s, j, as, t : s = poll.base /\ j = poll.job /\ as = poll.as /\ t = genStore'
  OBVIOUS
<1>3. /\ CopyIsSound(s) /\ j \in GenJobs /\ as \in Ends \cup {"running"}
      /\ ~genCrossed => s = genStore
      /\ poll.todo \subseteq {k \in GenJobs : comfy[k] # "unknown"}
  BY <1>1, <1>2 DEF GenInv, PollOK
<1>4. StoreIsSound(s) /\ t = Marked(s, j, as)
  BY <1>1, <1>2, <1>3 DEF CopyIsSound
<1>5. /\ StoreIsSound(t) /\ t.next >= s.next
      /\ \A k \in GenJobs : s.jobs[k].status = "absent" => t.jobs[k].status = "absent"
      /\ \A k \in Ended(t) : \/ k \in Ended(s) /\ t.jobs[k].seq = s.jobs[k].seq
                             \/ t.jobs[k].seq = s.next
  <2>1. StoreIsSound(s) /\ j \in GenJobs /\ as \in Ends \cup {"running"} /\ t = Marked(s, j, as)
    BY <1>3, <1>4
  <2>2. StoreIsSound(t) /\ t.next >= s.next /\ Follows(s, t)
    BY <2>1, MarkedIsSound
  <2>3. QED
    BY <2>2 DEF Follows
<1>6. Untouched' = Untouched /\ Untouched \subseteq GenJobs
  BY <1>1 DEF Untouched
<1>7. CopyIsSound(genStore)'
  <2>1. \A k \in Untouched' : t.jobs[k].status = "absent"
    BY <1>3, <1>5, <1>6 DEF CopyIsSound
  <2>2. QED
    BY <1>2, <1>5, <2>1 DEF CopyIsSound, StoreIsSound, Ended
<1>8. SubmissionOK'
  <2>1. SubmissionOK
    BY DEF GenInv
  <2>2. submission.pc = "writing" => CopyIsSound(submission.base)' /\ genCrossed
    <3>1. SUFFICES ASSUME submission.pc = "writing" PROVE CopyIsSound(submission.base)' /\ genCrossed
      OBVIOUS
    <3>2. PICK b : b = submission.base
      OBVIOUS
    <3>3. CopyIsSound(b) /\ genCrossed
      BY <1>1, <2>1, <3>1, <3>2 DEF SubmissionOK, GenInv
    <3>4. StoreIsSound(b) /\ \A k \in Untouched' : b.jobs[k].status = "absent"
      BY <1>6, <3>3 DEF CopyIsSound
    <3>5. submission'.base = b
      BY <1>1, <3>2
    <3>6. QED
      BY <3>3, <3>4, <3>5 DEF CopyIsSound, StoreIsSound, Ended
  <2>3. QED
    BY <1>1, <2>1, <2>2 DEF SubmissionOK
<1>9. PollOK'
  BY <1>1, <1>3 DEF PollOK
<1>10. ~genCrossed => notices.since < genStore.next /\ notices.since \in Nat /\ genStore.next \in Nat
  BY DEF GenInv, CopyIsSound, StoreIsSound
<1>11. ~genCrossed' => notices'.since < genStore'.next
  <2>1. SUFFICES ASSUME ~genCrossed PROVE notices.since < t.next
    BY <1>1, <1>2
  <2>2. PICK a, b \in Nat : a = notices.since /\ b = genStore.next /\ a < b
    BY <1>10, <2>1
  <2>3. t.next >= b /\ t.next \in Nat
    BY <1>3, <1>5, <2>1, <2>2 DEF StoreIsSound
  <2>4. a < t.next
    BY <2>2, <2>3
  <2>5. QED
    BY <2>2, <2>4
<1>12. NoticeOfEveryEnd'
  <2>1. SUFFICES ASSUME ~genCrossed, NEW k \in GenJobs, t.jobs[k].status \in Ends, t.jobs[k].seq <= notices.since
                 PROVE  k \in notices.told
    BY <1>1, <1>2 DEF NoticeOfEveryEnd, SeqOf
  <2>2. k \in Ended(t) /\ s = genStore
    BY <1>3, <2>1 DEF Ended
  <2>3. t.jobs[k].seq # s.next
    <3>1. PICK a, b \in Nat : a = notices.since /\ b = genStore.next /\ a < b
      BY <1>10, <2>1
    <3>2. t.jobs[k].seq <= a
      BY <2>1, <3>1
    <3>3. s.next = b
      BY <2>2, <3>1
    <3>4. QED
      BY <3>1, <3>2, <3>3
  <2>4. genStore.jobs[k].status \in Ends /\ genStore.jobs[k].seq <= notices.since
    BY <1>5, <2>1, <2>2, <2>3 DEF Ended
  <2>5. QED
    BY <2>1, <2>4 DEF GenInv, NoticeOfEveryEnd, SeqOf
<1>13. genAged' \subseteq GenJobs /\ genCrossed' \in BOOLEAN /\ notices' \in [since : Nat, told : SUBSET GenJobs]
       /\ comfy' \in [GenJobs -> {"unknown", "working", "error", "empty", "done"}]
  BY <1>1 DEF GenInv
<1>14. QED
  BY <1>7, <1>8, <1>9, <1>11, <1>12, <1>13 DEF GenInv

\* Of finitely many numbers one is the greatest: the sets of those above each
\* are finite, and a smallest of them is empty.
LEMMA SomeGreatest ==
  ASSUME NEW S, IsFiniteSet(S), S # {}, NEW f \in [S -> Nat]
  PROVE  \E x \in S : \A y \in S : f[y] <= f[x]
<1> DEFINE Above(x) == {y \in S : f[y] > f[x]}
           Parts == {Above(x) : x \in S}
           F == FiniteSubsetsOf(S)
           R == StrictSubsetOrdering(S)
<1>1. Parts \subseteq F /\ Parts # {}
  <2>1. \A x \in S : IsFiniteSet(Above(x)) /\ Above(x) \subseteq S
    BY FS_Subset
  <2> HIDE DEF Above
  <2>2. \A x \in S : Above(x) \in FiniteSubsetsOf(S)
    BY <2>1 DEF FiniteSubsetsOf
  <2>3. QED
    BY <2>2
<1>2. \E D \in Parts : \A E \in Parts : ~ (<<E, D>> \in R)
  <2>1. IsWellFoundedOn(R, F)
    BY FS_StrictSubsetOrderingWellFounded
  <2> HIDE DEF Parts, R, F
  <2>2. QED
    BY <1>1, <2>1, WFMin
<1>3. PICK D \in Parts : \A E \in Parts : ~ (<<E, D>> \in R)
  BY <1>2
<1>4. PICK x \in S : D = Above(x)
  BY <1>3
<1>5. ASSUME NEW y \in S, f[y] > f[x] PROVE FALSE
  <2>1. y \in Above(x) /\ y \notin Above(y)
    BY <1>5
  <2>2. \A z \in S : f[z] > f[y] => f[z] > f[x]
    BY <1>5
  <2>3. Above(y) \subseteq Above(x)
    BY <2>2
  <2>4. Above(y) \in Parts /\ Above(y) \in SUBSET S /\ Above(x) \in SUBSET S
    OBVIOUS
  <2> HIDE DEF Above, Parts
  <2>5. <<Above(y), Above(x)>> \in R
    BY <2>1, <2>3, <2>4 DEF StrictSubsetOrdering
  <2>6. QED
    BY <1>3, <1>4, <2>4, <2>5
<1>6. QED
  BY <1>5

\* The frontend goes on from the greatest number of its page: what ended up to
\* there it was told now or before.
LEMMA AskKeeps == ASSUME GenInv, Ask PROVE GenInv'
<1>1. /\ After(notices.since) # {}
      /\ UNCHANGED <<genStore, genAged, comfy, submission, poll, genCrossed>>
  BY DEF Ask
<1>2. PICK p \in SUBSET GenJobs :
        /\ IsPage(p, After(notices.since))
        /\ notices' = [since |-> CHOOSE s \in {SeqOf(j) : j \in p} : \A j \in p : SeqOf(j) <= s,
                       told |-> notices.told \cup p]
  BY DEF Ask
<1>3. PICK A : A = After(notices.since)
  OBVIOUS
<1>4. A \subseteq GenJobs /\ IsFiniteSet(A) /\ A # {}
  BY <1>1, <1>3, FS_Subset, PageSizeAssumption DEF After
<1>5. p \subseteq A /\ IsFiniteSet(p) /\ p # {}
  <2>1. p \subseteq A /\ Cardinality(p) = (IF Cardinality(A) < PageSize THEN Cardinality(A) ELSE PageSize)
    BY <1>2, <1>3 DEF IsPage
  <2>2. IsFiniteSet(p)
    BY <1>4, <2>1, FS_Subset
  <2>3. Cardinality(A) # 0
    BY <1>4, FS_EmptySet
  <2>4. Cardinality({}) = 0
    BY FS_EmptySet
  <2>5. Cardinality(p) # 0
    BY <2>1, <2>3, PageSizeAssumption
  <2>6. QED
    BY <2>1, <2>2, <2>4, <2>5
<1>6. /\ \A j \in GenJobs : SeqOf(j) \in Nat /\ SeqOf(j) < genStore.next
      /\ \A j, k \in Ended(genStore) : SeqOf(j) = SeqOf(k) => j = k
      /\ A \subseteq Ended(genStore)
  <2>1. StoreIsSound(genStore)
    BY DEF GenInv, CopyIsSound
  <2>2. \A j \in GenJobs : SeqOf(j) \in Nat
    BY <2>1 DEF StoreIsSound, SeqOf, JobState
  <2>3. QED
    BY <1>3, <2>1, <2>2 DEF StoreIsSound, SeqOf, Ended, After
<1>7. PICK g \in p : \A k \in p : SeqOf(k) <= SeqOf(g)
  <2> DEFINE f == [k \in p |-> SeqOf(k)]
  <2>1. f \in [p -> Nat]
    BY <1>4, <1>5, <1>6
  <2> HIDE DEF f
  <2>2. PICK g \in p : \A k \in p : f[k] <= f[g]
    BY <1>5, <2>1, SomeGreatest
  <2>3. \A k \in p : f[k] = SeqOf(k)
    BY DEF f
  <2>4. \A k \in p : SeqOf(k) <= SeqOf(g)
    BY <2>2, <2>3
  <2>5. QED
    BY <2>2, <2>4
<1>8. notices'.since \in {SeqOf(j) : j \in p} /\ (\A k \in p : SeqOf(k) <= notices'.since)
  <2> DEFINE Q(s) == \A k \in p : SeqOf(k) <= s
             N == {SeqOf(j) : j \in p}
  <2>1. SeqOf(g) \in N /\ Q(SeqOf(g))
    BY <1>7
  <2> HIDE DEF Q, N
  <2>2. (CHOOSE s \in N : Q(s)) \in N /\ Q(CHOOSE s \in N : Q(s))
    BY <2>1
  <2>3. notices'.since = CHOOSE s \in N : Q(s)
    BY <1>2 DEF N, Q
  <2>4. QED
    BY <2>2, <2>3 DEF N, Q
<1>9. PICK h \in p : notices'.since = SeqOf(h)
  BY <1>8
<1>10. notices' \in [since : Nat, told : SUBSET GenJobs]
  <2>1. SeqOf(h) \in Nat /\ notices.told \cup p \in SUBSET GenJobs
    BY <1>4, <1>5, <1>6 DEF GenInv
  <2>2. notices' = [since |-> notices'.since, told |-> notices.told \cup p]
    BY <1>2
  <2>3. QED
    BY <1>9, <2>1, <2>2
<1>11. ~genCrossed' => notices'.since < genStore'.next
  BY <1>1, <1>4, <1>5, <1>6, <1>9
<1>12. NoticeOfEveryEnd'
  <2>1. SUFFICES ASSUME ~genCrossed, NEW k \in GenJobs, genStore.jobs[k].status \in Ends, SeqOf(k) <= notices'.since
                 PROVE  k \in notices'.told
    BY <1>1 DEF NoticeOfEveryEnd, SeqOf
  <2>2. notices'.told = notices.told \cup p
    BY <1>2
  <2>3. CASE SeqOf(k) <= notices.since
    <3>1. k \in notices.told
      BY <2>1, <2>3 DEF GenInv, NoticeOfEveryEnd
    <3>2. QED
      BY <2>2, <3>1
  <2>4. CASE ~(SeqOf(k) <= notices.since)
    <3>1. k \in A
      <4>1. SeqOf(k) \in Nat /\ notices.since \in Nat
        BY <1>6 DEF GenInv
      <4>2. SeqOf(k) > notices.since
        BY <2>4, <4>1
      <4>3. QED
        BY <1>3, <2>1, <4>2 DEF After, SeqOf
    <3>2. CASE k \in p
      BY <2>2, <3>2
    <3>3. CASE k \notin p
      <4>1. SeqOf(h) <= SeqOf(k)
        BY <1>2, <1>3, <3>1, <3>3 DEF IsPage
      <4>2. SeqOf(k) <= SeqOf(h) /\ SeqOf(k) \in Nat /\ SeqOf(h) \in Nat
        BY <1>4, <1>5, <1>6, <1>9, <2>1
      <4>3. SeqOf(k) = SeqOf(h)
        BY <4>1, <4>2
      <4>4. k = h
        BY <1>5, <1>6, <3>1, <4>3
      <4>5. QED
        BY <3>3, <4>4
    <3>4. QED
      BY <3>2, <3>3
  <2>5. QED
    BY <2>3, <2>4
<1>13. Untouched' \subseteq Untouched /\ KnownStays
  BY <1>1 DEF Untouched, KnownStays
<1>14. CopyIsSound(genStore)'
  <2>1. CopyIsSound(genStore)
    BY DEF GenInv
  <2>2. PICK s : s = genStore
    OBVIOUS
  <2>3. StoreIsSound(s) /\ \A j \in Untouched' : s.jobs[j].status = "absent"
    BY <1>13, <2>1, <2>2 DEF CopyIsSound
  <2>4. genStore' = s
    BY <1>1, <2>2
  <2>5. QED
    BY <2>3, <2>4 DEF CopyIsSound, StoreIsSound, Ended
<1>15. SubmissionOK' /\ PollOK'
  BY <1>1, <1>13, SubmissionStays, PollStays DEF GenInv, SubmissionOK
<1>16. genAged' \subseteq GenJobs /\ genCrossed' \in BOOLEAN
       /\ comfy' \in [GenJobs -> {"unknown", "working", "error", "empty", "done"}]
  BY <1>1 DEF GenInv
<1>17. QED
  BY <1>10, <1>11, <1>12, <1>14, <1>15, <1>16 DEF GenInv

\* What happens outside, and the end of the process.
LEMMA OutsideKeeps ==
  ASSUME GenInv, UNCHANGED <<genStore, submission, poll, notices, genCrossed>>, KnownStays,
         Untouched' \subseteq Untouched, genAged' \subseteq GenJobs,
         comfy' \in [GenJobs -> {"unknown", "working", "error", "empty", "done"}]
  PROVE  GenInv'
<1>1. CopyIsSound(genStore)' /\ NoticeOfEveryEnd' /\ (~genCrossed' => notices'.since < genStore'.next)
  BY StoreStays
<1>2. SubmissionOK'
  BY SubmissionStays DEF GenInv, SubmissionOK
<1>3. PollOK'
  BY PollStays
<1>4. QED
  BY <1>1, <1>2, <1>3 DEF GenInv

LEMMA ComfyKeeps == ASSUME GenInv, NEW j \in GenJobs, ComfyEnds(j) \/ Age(j) PROVE GenInv'
<1>1. /\ UNCHANGED <<genStore, submission, poll, notices, genCrossed>>
      /\ genAged' \subseteq GenJobs
      /\ comfy' \in [GenJobs -> {"unknown", "working", "error", "empty", "done"}]
      /\ \A k \in GenJobs : comfy'[k] = "unknown" <=> comfy[k] = "unknown"
  <2>1. CASE ComfyEnds(j)
    BY <2>1 DEF ComfyEnds, GenInv
  <2>2. CASE Age(j)
    BY <2>2 DEF Age, GenInv
  <2>3. QED
    BY <2>1, <2>2
<1>2. Untouched' \subseteq Untouched /\ KnownStays
  BY <1>1 DEF Untouched, KnownStays
<1>3. QED
  BY <1>1, <1>2, OutsideKeeps

LEMMA GenCrashKeeps == ASSUME GenInv, GenCrash PROVE GenInv'
<1>1. /\ submission' = Idle /\ poll' = Idle
      /\ UNCHANGED <<genStore, genAged, comfy, notices, genCrossed>>
  BY DEF GenCrash
<1>2. Untouched' \subseteq Untouched
  BY <1>1 DEF Untouched, Idle
<1>3. CopyIsSound(genStore)' /\ NoticeOfEveryEnd' /\ (~genCrossed' => notices'.since < genStore'.next)
  BY <1>1, <1>2, StoreStays
<1>4. SubmissionOK' /\ PollOK'
  BY <1>1 DEF SubmissionOK, PollOK, Idle
<1>5. genAged' \subseteq GenJobs /\ genCrossed' \in BOOLEAN /\ notices' \in [since : Nat, told : SUBSET GenJobs]
      /\ comfy' \in [GenJobs -> {"unknown", "working", "error", "empty", "done"}]
  BY <1>1 DEF GenInv
<1>6. QED
  BY <1>3, <1>4, <1>5 DEF GenInv

LEMMA GenInitial == GenInit => GenInv
<1> SUFFICES ASSUME GenInit PROVE GenInv
  OBVIOUS
<1>1. /\ genStore = [jobs |-> [j \in GenJobs |-> Absent], next |-> 1]
      /\ genAged = {} /\ comfy = [j \in GenJobs |-> "unknown"]
      /\ submission = Idle /\ poll = Idle
      /\ notices = [since |-> 0, told |-> {}] /\ genCrossed = FALSE
  BY DEF GenInit
<1>2. /\ genStore.jobs = [j \in GenJobs |-> Absent] /\ genStore.next = 1
      /\ genStore = [jobs |-> genStore.jobs, next |-> genStore.next]
  BY <1>1
<1>3. \A j \in GenJobs : genStore.jobs[j].status = "absent" /\ genStore.jobs[j].seq = 0
  BY <1>2 DEF Absent
<1>4. Ended(genStore) = {}
  BY <1>3 DEF Ended, Ends
<1>5. genStore \in [jobs : [GenJobs -> JobState], next : Nat \ {0}]
  <2>1. Absent \in JobState
    BY DEF Absent, JobState
  <2>2. genStore.jobs \in [GenJobs -> JobState]
    BY <1>2, <2>1
  <2>3. QED
    BY <1>2, <2>2
<1>6. StoreIsSound(genStore)
  <2>1. Cardinality({}) = 0
    BY FS_EmptySet
  <2>2. Cardinality(Ended(genStore)) = genStore.next - 1
    BY <1>2, <1>4, <2>1
  <2>3. \A j \in GenJobs : genStore.jobs[j].seq < genStore.next
    BY <1>2, <1>3
  <2>4. QED
    BY <1>4, <1>5, <2>2, <2>3 DEF StoreIsSound
<1>7. CopyIsSound(genStore)
  BY <1>3, <1>6 DEF CopyIsSound, Untouched
<1>8. SubmissionOK /\ PollOK
  BY <1>1 DEF SubmissionOK, PollOK, Idle
<1>9. NoticeOfEveryEnd
  BY <1>3 DEF NoticeOfEveryEnd, Ends
<1>10. notices.since < genStore.next /\ notices \in [since : Nat, told : SUBSET GenJobs]
  BY <1>1, <1>2
<1>11. QED
  BY <1>1, <1>7, <1>8, <1>9, <1>10 DEF GenInv

LEMMA GenTyped == GenInv => GenTypeOK
<1> SUFFICES ASSUME GenInv PROVE GenTypeOK
  OBVIOUS
<1>1. StoreIsSound(genStore)
  BY DEF GenInv, CopyIsSound
<1>2. genStore.next \in 1 .. Cardinality(GenJobs) + 1 /\ Cardinality(GenJobs) \in Nat
  BY <1>1, NumbersAreFew
<1>3. /\ genStore.jobs \in [GenJobs -> JobState] /\ genStore = [jobs |-> genStore.jobs, next |-> genStore.next]
      /\ \A j \in GenJobs : genStore.jobs[j].seq < genStore.next
  BY <1>1 DEF StoreIsSound
<1>4. ASSUME NEW j \in GenJobs
      PROVE  genStore.jobs[j] \in [status : Ends \cup {"absent", "submitted", "running"}, seq : 0 .. Cardinality(GenJobs)]
  <2>1. PICK r : r = genStore.jobs[j]
    OBVIOUS
  <2>2. r \in JobState /\ r.seq < genStore.next
    BY <1>3, <2>1
  <2>3. r.seq \in Nat /\ r = [status |-> r.status, seq |-> r.seq] /\ r.status \in Ends \cup {"absent", "submitted", "running"}
    BY <2>2 DEF JobState
  <2>4. r.seq \in 0 .. Cardinality(GenJobs)
    BY <1>2, <2>2, <2>3
  <2>5. QED
    BY <2>1, <2>3, <2>4
<1>5. genStore \in [jobs : [GenJobs -> [status : Ends \cup {"absent", "submitted", "running"},
                                        seq : 0 .. Cardinality(GenJobs)]],
                    next : 1 .. Cardinality(GenJobs) + 1]
  BY <1>2, <1>3, <1>4
<1>6. QED
  BY <1>5 DEF GenInv, SubmissionOK, PollOK, GenTypeOK

GenAction == (\E j \in GenJobs : Submit(j)) \/ GenCrash \/ GenStep \/ UNCHANGED generation

LEMMA GenerationKeeps == GenInv /\ GenAction => GenInv'
<1> SUFFICES ASSUME GenInv, GenAction PROVE GenInv'
  OBVIOUS
<1>1. CASE UNCHANGED generation
  <2>1. UNCHANGED <<genStore, genAged, comfy, submission, poll, notices, genCrossed>>
    BY <1>1 DEF generation
  <2>2. Untouched' \subseteq Untouched /\ KnownStays
    BY <2>1 DEF Untouched, KnownStays
  <2>3. genAged' \subseteq GenJobs /\ comfy' \in [GenJobs -> {"unknown", "working", "error", "empty", "done"}]
    BY <2>1 DEF GenInv
  <2>4. QED
    BY <2>1, <2>2, <2>3, OutsideKeeps
<1>2. CASE \E j \in GenJobs : Submit(j)
  BY <1>2, SubmitKeeps
<1>3. CASE GenCrash
  BY <1>3, GenCrashKeeps
<1>4. CASE GenStep
  <2>1. CASE SubmitReads \/ SubmitWrites \/ Ask
    BY <2>1, SubmitReadsKeeps, SubmitWritesKeeps, AskKeeps
  <2>2. CASE Poller
    BY <2>2, PollStartsKeeps, PollLooksKeeps, PollReadsKeeps, PollWritesKeeps, PollEndsKeeps DEF Poller
  <2>3. CASE \E j \in GenJobs : ComfyEnds(j) \/ Age(j)
    BY <2>3, ComfyKeeps
  <2>4. QED
    BY <1>4, <2>1, <2>2, <2>3 DEF GenStep
<1>5. QED
  BY <1>1, <1>2, <1>3, <1>4 DEF GenAction

----------------------------------------------------------------------------
(* The overviews of repositories.  The job with a task is the last of the    *)
(* file and live (TaskIsLatest); what is live without one was left by a      *)
(* former process; the cache holds the state of the file, but where an       *)
(* object was replaced under its task.  And as long as no analysis met       *)
(* anything else (Undisturbed), no job was left or forgotten, an analysis runs  *)
(* alone, and a mirror that can be published is whole and, when the last job *)
(* succeeded, the one its overview reports on.                               *)

Statuses == Live \cup {"succeeded", "failed"}
RvTaskType == [pc : {"none", "ready", "asking", "sleeping"}, own : BOOLEAN,
               attempt : 0 .. MaxAttempts, of : 0 .. MaxAnalyses]
JobsDiffer(f) == \A i, k \in DOMAIN f : f[i].job = f[k].job => i = k
JobsOf(f) == {f[i].job : i \in DOMAIN f}
StatusIn(f, j) == f[CHOOSE i \in DOMAIN f : f[i].job = j].status
LastOf(f) == f[Len(f)].job
TaskIsLatest == \A j \in RvJobs : HasTask(j) => rvFile # <<>> /\ j = Latest /\ StatusOf(j) \in Live
LiveIsKnown == \A j \in Recorded : StatusOf(j) \in Live => HasTask(j) \/ j \in rvLeft
CacheAgrees == \A j \in Recorded \ rvLooked : rvMemory[j] \in {"absent", StatusOf(j)}
OwnOrLooked == \A j \in RvJobs : rvTask[j].pc \in {"asking", "sleeping"} => rvTask[j].own \/ j \in rvLooked
TriesRemain == \A j \in RvJobs : rvTask[j].pc = "sleeping" => rvTask[j].attempt < MaxAttempts

RvCore ==
  /\ rvFile \in Seq([job : RvJobs, status : Statuses]) /\ JobsDiffer(rvFile)
  /\ rvMemory \in [RvJobs -> Statuses \cup {"absent"}]
  /\ rvCurrent \in RvJobs \cup {None} /\ rvLooked \subseteq RvJobs /\ rvLeft \subseteq RvJobs
  /\ rvTask \in [RvJobs -> RvTaskType]
  /\ TaskIsLatest /\ LiveIsKnown /\ CacheAgrees /\ OwnOrLooked /\ TriesRemain

RvRest ==
  /\ mount \in BOOLEAN /\ namesake \in BOOLEAN /\ rvOverlap \in BOOLEAN
  /\ mirror \in Mirrors /\ published \in Mirrors /\ analysis \in {"idle", "writing"}

Undisturbed ==
  /\ rvLeft = {} /\ (rvCurrent # None => HasTask(rvCurrent))
  /\ analysis = "writing" => \A j \in RvJobs : ~HasTask(j)
  /\ analysis = "idle" /\ mirror.index =>
       /\ mirror.whole /\ rvFile # <<>>
       /\ StatusIn(rvFile, LastOf(rvFile)) = "succeeded" => mirror.overview = mirror.version
  /\ \A j \in RvJobs : rvTask[j].pc = "asking" => rvTask[j].of = mirror.version

RvInv == RvCore /\ RvRest /\ (~rvOverlap => Undisturbed) /\ PublishedIsReviewed

\* The file by itself: which jobs it holds, and the status of each.
RvRecord == [job : RvJobs, status : Statuses]
FileOK(f) == f \in Seq(RvRecord) /\ JobsDiffer(f)

LEMMA OneRecordEach ==
  ASSUME NEW f, FileOK(f), NEW i \in DOMAIN f
  PROVE  StatusIn(f, f[i].job) = f[i].status /\ f[i] \in RvRecord /\ f[i].job \in RvJobs /\ f[i].status \in Statuses
<1>1. (CHOOSE k \in DOMAIN f : f[k].job = f[i].job) = i
  BY DEF FileOK, JobsDiffer
<1>2. f[i] \in RvRecord
  BY ElementOfSeq, LenProperties DEF FileOK
<1>3. QED
  BY <1>1, <1>2 DEF StatusIn, RvRecord

LEMMA LastIsThere ==
  ASSUME NEW f, FileOK(f), f # <<>>
  PROVE  /\ Len(f) \in DOMAIN f /\ LastOf(f) \in JobsOf(f) /\ LastOf(f) \in RvJobs
         /\ StatusIn(f, LastOf(f)) = f[Len(f)].status
<1>1. Len(f) \in DOMAIN f
  BY LenProperties, EmptySeq DEF FileOK
<1>2. f[Len(f)].job \in RvJobs /\ StatusIn(f, f[Len(f)].job) = f[Len(f)].status
  BY <1>1, OneRecordEach
<1>3. QED
  BY <1>1, <1>2 DEF LastOf, JobsOf

\* What _persist_job does to it.
Recording(f, j, s, g) ==
  /\ FileOK(g) /\ g # <<>>
  /\ JobsOf(g) = JobsOf(f) \cup {j} /\ StatusIn(g, j) = s
  /\ \A k \in JobsOf(f) \ {j} : StatusIn(g, k) = StatusIn(f, k)
  /\ j \in JobsOf(f) => Len(g) = Len(f) /\ LastOf(g) = LastOf(f)
  /\ j \notin JobsOf(f) => LastOf(g) = j

LEMMA PersistRecords ==
  ASSUME NEW f, FileOK(f), NEW j \in RvJobs, NEW s \in Statuses, NEW g, g = Persisted(f, j, s)
  PROVE  Recording(f, j, s, g)
<1>1. PICK r : r = [job |-> j, status |-> s]
  OBVIOUS
<1>2. r \in RvRecord /\ r.job = j /\ r.status = s
  BY <1>1 DEF RvRecord
<1>3. f \in Seq(RvRecord) /\ DOMAIN f = 1 .. Len(f) /\ Len(f) \in Nat
      /\ \A i \in DOMAIN f : f[i] \in RvRecord
  BY LenProperties, ElementOfSeq DEF FileOK
<1>4. CASE j \in JobsOf(f)
  <2>1. g = [i \in DOMAIN f |-> IF f[i].job = j THEN r ELSE f[i]]
    BY <1>1, <1>4 DEF Persisted, JobsOf
  <2>2. /\ g \in Seq(RvRecord) /\ DOMAIN g = DOMAIN f /\ Len(g) = Len(f)
        /\ \A i \in DOMAIN f : g[i].job = f[i].job
    <3>1. g \in [1 .. Len(f) -> RvRecord]
      BY <1>2, <1>3, <2>1
    <3>2. g \in Seq(RvRecord)
      BY <1>3, <3>1, IsASeq
    <3>3. Len(g) = Len(f)
      BY <1>3, <3>1, <3>2, LenProperties
    <3>4. \A i \in DOMAIN f : g[i].job = f[i].job
      BY <1>2, <2>1
    <3>5. QED
      BY <1>3, <3>1, <3>2, <3>3, <3>4
  <2>3. FileOK(g)
    BY <2>2 DEF FileOK, JobsDiffer
  <2>4. PICK n \in DOMAIN f : f[n].job = j
    BY <1>4 DEF JobsOf
  <2>5. g # <<>> /\ JobsOf(g) = JobsOf(f) \cup {j}
    <3>1. DOMAIN g # {}
      BY <2>2, <2>4
    <3>2. QED
      BY <1>4, <2>2, <3>1 DEF JobsOf
  <2>6. StatusIn(g, j) = s
    <3>1. g[n] = r
      BY <2>1, <2>4
    <3>2. QED
      BY <1>2, <2>2, <2>3, <2>4, <3>1, OneRecordEach
  <2>7. ASSUME NEW k \in JobsOf(f) \ {j} PROVE StatusIn(g, k) = StatusIn(f, k)
    <3>1. PICK i \in DOMAIN f : f[i].job = k
      BY <2>7 DEF JobsOf
    <3>2. g[i] = f[i]
      BY <2>1, <2>7, <3>1
    <3>3. StatusIn(f, k) = f[i].status
      BY <3>1, OneRecordEach
    <3>4. StatusIn(g, k) = g[i].status
      BY <2>2, <2>3, <3>1, <3>2, OneRecordEach
    <3>5. QED
      BY <3>2, <3>3, <3>4
  <2>8. LastOf(g) = LastOf(f)
    <3>1. Len(f) \in DOMAIN f
      BY <1>3, <2>4
    <3>2. QED
      BY <2>2, <3>1 DEF LastOf
  <2>9. QED
    BY <1>4, <2>2, <2>3, <2>5, <2>6, <2>7, <2>8 DEF Recording
<1>5. CASE j \notin JobsOf(f)
  <2>1. g = Append(f, r)
    BY <1>1, <1>5 DEF Persisted, JobsOf
  <2>2. /\ g \in Seq(RvRecord) /\ Len(g) = Len(f) + 1 /\ DOMAIN g = DOMAIN f \cup {Len(g)}
        /\ g[Len(g)] = r /\ Len(g) \notin DOMAIN f /\ \A i \in DOMAIN f : g[i] = f[i]
    <3>1. /\ g \in Seq(RvRecord) /\ Len(g) = Len(f) + 1
          /\ \A i \in 1 .. Len(f) : g[i] = f[i]
          /\ g[Len(f) + 1] = r
      BY <1>2, <1>3, <2>1, AppendProperties
    <3>2. DOMAIN g = 1 .. Len(g)
      BY <3>1, LenProperties
    <3>3. 1 .. Len(g) = (1 .. Len(f)) \cup {Len(g)} /\ Len(g) \notin 1 .. Len(f)
      BY <1>3, <3>1
    <3>4. QED
      BY <1>3, <3>1, <3>2, <3>3
  <2>3. \A i \in DOMAIN f : g[i].job # j
    BY <1>5, <2>2 DEF JobsOf
  <2>4. FileOK(g)
    <3>1. ASSUME NEW i \in DOMAIN g, NEW k \in DOMAIN g, g[i].job = g[k].job PROVE i = k
      <4>1. CASE i \in DOMAIN f /\ k \in DOMAIN f
        BY <2>2, <3>1, <4>1 DEF FileOK, JobsDiffer
      <4>2. CASE i = Len(g) \/ k = Len(g)
        BY <1>2, <2>2, <2>3, <3>1, <4>2
      <4>3. QED
        BY <2>2, <4>1, <4>2
    <3>2. QED
      BY <2>2, <3>1 DEF FileOK, JobsDiffer
  <2>5. g # <<>> /\ JobsOf(g) = JobsOf(f) \cup {j}
    <3>1. DOMAIN g # {}
      BY <2>2
    <3>2. QED
      BY <1>2, <2>2, <3>1 DEF JobsOf
  <2>6. StatusIn(g, j) = s /\ LastOf(g) = j
    <3>1. Len(g) \in DOMAIN g
      BY <2>2
    <3>2. QED
      BY <1>2, <2>2, <2>4, <3>1, OneRecordEach DEF LastOf
  <2>7. ASSUME NEW k \in JobsOf(f) PROVE StatusIn(g, k) = StatusIn(f, k)
    <3>1. PICK i \in DOMAIN f : f[i].job = k
      BY <2>7 DEF JobsOf
    <3>2. g[i] = f[i] /\ i \in DOMAIN g
      BY <2>2, <3>1
    <3>3. StatusIn(f, k) = f[i].status
      BY <3>1, OneRecordEach
    <3>4. StatusIn(g, k) = g[i].status
      BY <2>4, <3>1, <3>2, OneRecordEach
    <3>5. QED
      BY <3>2, <3>3, <3>4
  <2>8. QED
    BY <1>5, <2>4, <2>5, <2>6, <2>7 DEF Recording
<1>6. QED
  BY <1>4, <1>5

LEMMA FileViews ==
  /\ Recorded = JobsOf(rvFile) /\ Latest = LastOf(rvFile) /\ \A j : StatusOf(j) = StatusIn(rvFile, j)
  /\ Recorded' = JobsOf(rvFile') /\ Latest' = LastOf(rvFile') /\ \A j : StatusOf(j)' = StatusIn(rvFile', j)
  BY DEF Recorded, JobsOf, Latest, LastOf, StatusOf, StatusIn

LEMMA CoreFile == RvCore <=> RvCore /\ FileOK(rvFile) /\ Recorded \subseteq RvJobs
<1> SUFFICES ASSUME RvCore PROVE FileOK(rvFile) /\ Recorded \subseteq RvJobs
  OBVIOUS
<1>1. FileOK(rvFile)
  BY DEF RvCore, FileOK, RvRecord
<1>2. QED
  BY <1>1, OneRecordEach DEF Recorded

LEMMA RecordedSo ==
  ASSUME RvCore, NEW j \in RvJobs, NEW s \in Statuses, rvFile' = Persisted(rvFile, j, s)
  PROVE  Recording(rvFile, j, s, rvFile')
<1>1. PICK f, g : f = rvFile /\ g = rvFile'
  OBVIOUS
<1>2. FileOK(f) /\ g = Persisted(f, j, s)
  BY <1>1, CoreFile
<1>3. Recording(f, j, s, g)
  BY <1>2, PersistRecords
<1>4. QED
  BY <1>1, <1>3

\* A job with a task is recorded, and the last.
LEMMA TaskIsRecorded ==
  ASSUME RvCore, NEW j \in RvJobs, HasTask(j)
  PROVE  j \in Recorded /\ j = Latest /\ rvFile # <<>> /\ \A k \in RvJobs : HasTask(k) => k = j
<1>1. rvFile # <<>> /\ j = Latest /\ \A k \in RvJobs : HasTask(k) => k = j
  BY DEF RvCore, TaskIsLatest
<1>2. LastOf(rvFile) \in JobsOf(rvFile)
  BY <1>1, LastIsThere, CoreFile
<1>3. QED
  BY <1>1, <1>2, FileViews

\* The task records s of its job.
LEMMA TaskRecords ==
  ASSUME RvCore, NEW j \in RvJobs, HasTask(j), NEW s \in Statuses, rvFile' = Persisted(rvFile, j, s),
         NEW r \in RvTaskType, rvTask' = [rvTask EXCEPT ![j] = r],
         rvMemory' = [rvMemory EXCEPT ![j] = s] \/ (rvMemory' = rvMemory /\ j \in rvLooked),
         rvCurrent' \in RvJobs \cup {None}, UNCHANGED <<rvLooked, rvLeft>>,
         s \in Live <=> r.pc # "none",
         r.pc \in {"asking", "sleeping"} => r.own \/ j \in rvLooked,
         r.pc = "sleeping" => r.attempt < MaxAttempts
  PROVE  /\ RvCore' /\ rvFile' # <<>> /\ Latest' = j /\ StatusOf(j)' = s
         /\ rvTask'[j] = r /\ \A k \in RvJobs \ {j} : rvTask'[k].pc = "none"
<1>1. j \in Recorded /\ j = Latest /\ \A k \in RvJobs \ {j} : rvTask[k].pc = "none"
  BY TaskIsRecorded DEF HasTask
<1>2. /\ FileOK(rvFile') /\ rvFile' # <<>> /\ Recorded' = Recorded /\ StatusOf(j)' = s
      /\ (\A k \in Recorded \ {j} : StatusOf(k)' = StatusOf(k)) /\ Latest' = j
  <2>1. Recording(rvFile, j, s, rvFile')
    BY RecordedSo
  <2>2. QED
    BY <1>1, <2>1, FileViews DEF Recording
<1>3. rvTask \in [RvJobs -> RvTaskType] /\ rvMemory \in [RvJobs -> Statuses \cup {"absent"}]
  BY DEF RvCore
<1>4. /\ rvTask' \in [RvJobs -> RvTaskType] /\ rvTask'[j] = r
      /\ \A k \in RvJobs \ {j} : rvTask'[k] = rvTask[k]
  <2> HIDE DEF RvTaskType
  <2>1. QED
    BY <1>3
<1>5. rvMemory' \in [RvJobs -> Statuses \cup {"absent"}] /\ \A k \in RvJobs \ {j} : rvMemory'[k] = rvMemory[k]
  BY <1>3
<1>6. j \notin rvLooked => rvMemory'[j] = s
  BY <1>3
<1>7. TaskIsLatest'
  BY <1>1, <1>2, <1>4 DEF TaskIsLatest, HasTask
<1>8. LiveIsKnown'
  <2>1. ASSUME NEW k \in Recorded, StatusOf(k)' \in Live PROVE HasTask(k)' \/ k \in rvLeft'
    <3>1. CASE k = j
      BY <1>2, <1>4, <2>1, <3>1 DEF HasTask
    <3>2. CASE k # j
      <4>1. HasTask(k) \/ k \in rvLeft
        BY <1>2, <2>1, <3>2 DEF RvCore, LiveIsKnown
      <4>2. ~HasTask(k)
        BY <1>1, <3>2, CoreFile DEF HasTask
      <4>3. QED
        BY <4>1, <4>2
    <3>3. QED
      BY <3>1, <3>2
  <2>2. QED
    BY <1>2, <2>1 DEF LiveIsKnown
<1>9. CacheAgrees'
  <2>1. ASSUME NEW k \in Recorded \ rvLooked PROVE rvMemory'[k] \in {"absent", StatusOf(k)'}
    <3>1. CASE k = j
      BY <1>2, <1>6, <2>1, <3>1
    <3>2. CASE k # j
      BY <1>2, <1>5, <2>1, <3>2, CoreFile DEF RvCore, CacheAgrees
    <3>3. QED
      BY <3>1, <3>2
  <2>2. QED
    BY <1>2, <2>1 DEF CacheAgrees
<1>10. OwnOrLooked' /\ TriesRemain'
  BY <1>1, <1>4 DEF OwnOrLooked, TriesRemain
<1>11. RvCore'
  BY <1>2, <1>4, <1>5, <1>7, <1>8, <1>9, <1>10 DEF RvCore, FileOK, RvRecord
<1>12. QED
  BY <1>1, <1>2, <1>4, <1>11

\* A new object of the last job comes into the cache.
LEMMA LookKeeps ==
  ASSUME RvCore, Look, UNCHANGED <<rvFile, rvLeft>>
  PROVE  /\ RvCore' /\ \A k \in RvJobs : rvTask'[k].pc = rvTask[k].pc /\ rvTask'[k].of = rvTask[k].of
         /\ rvCurrent' = rvCurrent \/ (LatestIs(Live) /\ rvCurrent' = Latest)
<1>1. CASE rvFile = <<>>
  <2>1. UNCHANGED <<rvFile, rvMemory, rvCurrent, rvTask, rvLooked, rvLeft>>
    BY <1>1 DEF Look
  <2>2. RvCore'
    BY <2>1 DEF RvCore, TaskIsLatest, LiveIsKnown, CacheAgrees, OwnOrLooked, TriesRemain, HasTask, Latest,
              StatusOf, Recorded
  <2>3. QED
    BY <2>1, <2>2
<1>2. CASE rvFile # <<>>
  <2>1. PICK j \in RvJobs : j = Latest /\ j \in Recorded
    BY <1>2, LastIsThere, CoreFile, FileViews
  <2>2. /\ rvMemory' = [rvMemory EXCEPT ![j] = StatusOf(j)]
        /\ rvCurrent' = IF LatestIs(Live) THEN j ELSE rvCurrent
        /\ rvLooked' = IF rvTask[j].own THEN rvLooked \cup {j} ELSE rvLooked
        /\ rvTask' = [rvTask EXCEPT ![j].own = FALSE]
    BY <1>2, <2>1 DEF Look
  <2>3. Recorded' = Recorded /\ Latest' = Latest /\ \A k : StatusOf(k)' = StatusOf(k)
    BY FileViews
  <2>4. rvTask \in [RvJobs -> RvTaskType] /\ rvMemory \in [RvJobs -> Statuses \cup {"absent"}]
    BY DEF RvCore
  <2>5. /\ rvTask' \in [RvJobs -> RvTaskType]
        /\ rvTask'[j].pc = rvTask[j].pc /\ rvTask'[j].of = rvTask[j].of /\ rvTask'[j].attempt = rvTask[j].attempt
        /\ \A k \in RvJobs \ {j} : rvTask'[k] = rvTask[k]
    BY <2>2, <2>4 DEF RvTaskType
  <2>6. \A k \in RvJobs : rvTask'[k].pc = rvTask[k].pc /\ rvTask'[k].of = rvTask[k].of
                          /\ rvTask'[k].attempt = rvTask[k].attempt
    BY <2>5
  <2>7. \A k \in RvJobs : HasTask(k)' <=> HasTask(k)
    BY <2>6 DEF HasTask
  <2>8. /\ rvMemory' \in [RvJobs -> Statuses \cup {"absent"}] /\ rvMemory'[j] = StatusOf(j)
        /\ \A k \in RvJobs \ {j} : rvMemory'[k] = rvMemory[k]
    <3>1. StatusOf(j) \in Statuses
      <4>1. Len(rvFile) \in DOMAIN rvFile /\ StatusIn(rvFile, LastOf(rvFile)) = rvFile[Len(rvFile)].status
        BY <1>2, LastIsThere, CoreFile
      <4>2. rvFile[Len(rvFile)].status \in Statuses
        BY <4>1, OneRecordEach, CoreFile
      <4>3. QED
        BY <2>1, <4>1, <4>2, FileViews
    <3>2. QED
      BY <2>2, <2>4, <3>1
  <2>9. TaskIsLatest' /\ LiveIsKnown' /\ TriesRemain'
    <3>1. TaskIsLatest'
      BY <2>3, <2>7 DEF RvCore, TaskIsLatest
    <3>2. LiveIsKnown'
      BY <2>3, <2>7, CoreFile DEF RvCore, LiveIsKnown
    <3>3. TriesRemain'
      BY <2>6 DEF RvCore, TriesRemain
    <3>4. QED
      BY <3>1, <3>2, <3>3
  <2>10. CacheAgrees'
    BY <2>2, <2>3, <2>8, CoreFile DEF RvCore, CacheAgrees
  <2>11. OwnOrLooked'
    <3>1. ASSUME NEW k \in RvJobs, rvTask'[k].pc \in {"asking", "sleeping"} PROVE rvTask'[k].own \/ k \in rvLooked'
      <4>1. rvTask[k].own \/ k \in rvLooked
        BY <2>6, <3>1 DEF RvCore, OwnOrLooked
      <4>2. CASE k = j
        BY <2>2, <4>1, <4>2
      <4>3. CASE k # j
        BY <2>2, <2>5, <4>1, <4>3
      <4>4. QED
        BY <4>2, <4>3
    <3>2. QED
      BY <3>1 DEF OwnOrLooked
  <2>12. RvCore'
    BY <2>1, <2>2, <2>5, <2>8, <2>9, <2>10, <2>11 DEF RvCore
  <2>13. QED
    BY <2>1, <2>2, <2>6, <2>12
<1>3. QED
  BY <1>1, <1>2

\* A job and its task are made; or there was one that lives.
MadeJob == \E j \in RvJobs :
  /\ rvCurrent' = j /\ rvFile' # <<>> /\ LastOf(rvFile') = j /\ StatusIn(rvFile', j) = "queued"
  /\ rvTask'[j].pc = "ready" /\ \A k \in RvJobs \ {j} : rvTask'[k].pc = "none"
SameJobs ==
  /\ UNCHANGED rvFile /\ \A k \in RvJobs : rvTask'[k].pc = rvTask[k].pc /\ rvTask'[k].of = rvTask[k].of
  /\ rvCurrent' = rvCurrent \/ (LatestIs(Live) /\ rvCurrent' = Latest)

LEMMA MakeKeeps ==
  ASSUME RvCore, NEW j \in RvJobs \ Recorded, \A k \in RvJobs : ~HasTask(k),
         rvFile' = Persisted(rvFile, j, "queued"), rvMemory' = [rvMemory EXCEPT ![j] = "queued"],
         rvCurrent' = j, rvTask' = [rvTask EXCEPT ![j] = [NoTask EXCEPT !.pc = "ready"]],
         UNCHANGED <<rvLooked, rvLeft>>
  PROVE  RvCore' /\ MadeJob
<1>1. "queued" \in Statuses
  BY DEF Statuses, Live
<1>2. Recording(rvFile, j, "queued", rvFile')
  BY <1>1, RecordedSo
<1>3. /\ FileOK(rvFile') /\ rvFile' # <<>> /\ Recorded' = Recorded \cup {j} /\ StatusOf(j)' = "queued"
      /\ (\A k \in Recorded : StatusOf(k)' = StatusOf(k)) /\ Latest' = j
  BY <1>2, FileViews DEF Recording
<1>4. rvTask \in [RvJobs -> RvTaskType] /\ rvMemory \in [RvJobs -> Statuses \cup {"absent"}]
  BY DEF RvCore
<1>5. PICK r : r = [NoTask EXCEPT !.pc = "ready"]
  OBVIOUS
<1>6. r \in RvTaskType /\ r = [NoTask EXCEPT !.pc = "ready"] /\ r.pc = "ready"
  <2>1. 0 \in 0 .. MaxAttempts /\ 0 \in 0 .. MaxAnalyses
    BY RvAssumption
  <2>2. NoTask \in RvTaskType
    BY <2>1 DEF RvTaskType, NoTask
  <2>3. QED
    BY <1>5, <2>2 DEF RvTaskType
<1>7. /\ rvTask' \in [RvJobs -> RvTaskType] /\ rvTask'[j] = r
      /\ \A k \in RvJobs \ {j} : rvTask'[k] = rvTask[k]
  <2> HIDE DEF RvTaskType
  <2>1. QED
    BY <1>4, <1>6
<1>8. /\ rvMemory' \in [RvJobs -> Statuses \cup {"absent"}] /\ rvMemory'[j] = "queued"
      /\ \A k \in RvJobs \ {j} : rvMemory'[k] = rvMemory[k]
  BY <1>1, <1>4
<1>9. \A k \in RvJobs \ {j} : rvTask'[k].pc = "none"
  BY <1>7 DEF HasTask
<1>10. TaskIsLatest'
  BY <1>3, <1>9 DEF TaskIsLatest, HasTask, Live
<1>11. LiveIsKnown'
  <2>1. ASSUME NEW k \in Recorded, StatusOf(k)' \in Live PROVE k \in rvLeft
    BY <1>3, <2>1, CoreFile DEF RvCore, LiveIsKnown
  <2>2. HasTask(j)'
    BY <1>6, <1>7 DEF HasTask
  <2>3. QED
    BY <1>3, <2>1, <2>2 DEF LiveIsKnown
<1>12. CacheAgrees'
  <2>1. ASSUME NEW k \in Recorded \ rvLooked PROVE rvMemory'[k] \in {"absent", StatusOf(k)'}
    BY <1>3, <1>8, <2>1, CoreFile DEF RvCore, CacheAgrees
  <2>2. QED
    BY <1>3, <1>8, <2>1 DEF CacheAgrees
<1>13. OwnOrLooked' /\ TriesRemain'
  BY <1>6, <1>7, <1>9 DEF OwnOrLooked, TriesRemain
<1>14. RvCore'
  BY <1>3, <1>7, <1>8, <1>10, <1>11, <1>12, <1>13 DEF RvCore, FileOK, RvRecord
<1>15. MadeJob
  BY <1>3, <1>6, <1>7, <1>9, FileViews DEF MadeJob
<1>16. QED
  BY <1>14, <1>15

LEMMA EnqueueKeeps ==
  ASSUME RvCore, Enqueue, UNCHANGED rvLeft
  PROVE  RvCore' /\ ((SameJobs /\ (CurrentIsLive \/ LatestIs(Live))) \/ MadeJob)
<1>1. CASE CurrentIsLive
  <2>1. UNCHANGED <<rvFile, rvMemory, rvCurrent, rvTask, rvLooked, rvLeft>>
    BY <1>1 DEF Enqueue
  <2>2. RvCore'
    BY <2>1 DEF RvCore, TaskIsLatest, LiveIsKnown, CacheAgrees, OwnOrLooked, TriesRemain, HasTask, Latest,
              StatusOf, Recorded
  <2>3. SameJobs
    BY <2>1 DEF SameJobs
  <2>4. QED
    BY <1>1, <2>2, <2>3
<1>2. CASE ~CurrentIsLive /\ LatestIs(Live)
  <2>1. Look /\ UNCHANGED <<rvFile, rvLeft>>
    BY <1>2 DEF Enqueue
  <2>2. QED
    BY <1>2, <2>1, LookKeeps DEF SameJobs
<1>3. CASE ~CurrentIsLive /\ ~LatestIs(Live)
  <2>1. PICK j \in RvJobs \ Recorded :
          /\ rvFile' = Persisted(rvFile, j, "queued")
          /\ rvMemory' = [rvMemory EXCEPT ![j] = "queued"]
          /\ rvCurrent' = j
          /\ rvTask' = [rvTask EXCEPT ![j] = [NoTask EXCEPT !.pc = "ready"]]
          /\ UNCHANGED rvLooked
    BY <1>3 DEF Enqueue
  <2>2. \A k \in RvJobs : ~HasTask(k)
    BY <1>3 DEF RvCore, TaskIsLatest, LatestIs
  <2>3. QED
    BY <2>1, <2>2, MakeKeeps
<1>4. QED
  BY <1>1, <1>2, <1>3

LEMMA SameStays ==
  ASSUME RvCore, Undisturbed, SameJobs, UNCHANGED <<mirror, analysis, rvLeft>>
  PROVE  Undisturbed'
<1>1. \A k \in RvJobs : HasTask(k)' <=> HasTask(k)
  BY DEF SameJobs, HasTask
<1>2. rvCurrent' # None => rvCurrent' \in RvJobs /\ HasTask(rvCurrent')
  <2>1. CASE rvCurrent' = rvCurrent
    BY <2>1 DEF RvCore, Undisturbed
  <2>2. CASE LatestIs(Live) /\ rvCurrent' = Latest
    <3>1. rvFile # <<>> /\ StatusOf(Latest) \in Live
      BY <2>2 DEF LatestIs
    <3>2. Latest \in Recorded /\ Latest \in RvJobs
      BY <3>1, LastIsThere, CoreFile, FileViews
    <3>3. HasTask(Latest)
      BY <3>1, <3>2 DEF RvCore, LiveIsKnown, Undisturbed
    <3>4. QED
      BY <2>2, <3>2, <3>3
  <2>3. QED
    BY <2>1, <2>2 DEF SameJobs
<1>3. rvCurrent' # None => HasTask(rvCurrent)'
  <2>1. SUFFICES ASSUME rvCurrent' # None PROVE rvTask'[rvCurrent'].pc # "none"
    BY DEF HasTask
  <2>2. rvTask'[rvCurrent'].pc = rvTask[rvCurrent'].pc /\ rvTask[rvCurrent'].pc # "none"
    BY <1>2, <2>1 DEF SameJobs, HasTask
  <2>3. QED
    BY <2>2
<1>4. \A k \in RvJobs : rvTask'[k].pc = "asking" => rvTask'[k].of = mirror'.version
  BY DEF SameJobs, Undisturbed
<1>5. QED
  BY <1>1, <1>3, <1>4 DEF Undisturbed, SameJobs

LEMMA MadeStays ==
  ASSUME MadeJob, rvLeft' = {}, analysis' = "idle", mirror'.index => mirror'.whole
  PROVE  Undisturbed'
<1>1. PICK j \in RvJobs :
  /\ rvCurrent' = j /\ rvFile' # <<>> /\ LastOf(rvFile') = j /\ StatusIn(rvFile', j) = "queued"
  /\ rvTask'[j].pc = "ready" /\ \A k \in RvJobs \ {j} : rvTask'[k].pc = "none"
  BY DEF MadeJob
<1>2. HasTask(rvCurrent)'
  BY <1>1 DEF HasTask
<1>3. \A k \in RvJobs : rvTask'[k].pc # "asking"
  BY <1>1
<1>4. StatusIn(rvFile', LastOf(rvFile')) # "succeeded"
  BY <1>1
<1>5. QED
  BY <1>1, <1>2, <1>3, <1>4 DEF Undisturbed

\* While an undisturbed analysis writes, no job lives.
LEMMA NothingLives ==
  ASSUME RvCore, Undisturbed, analysis = "writing"
  PROVE  ~CurrentIsLive /\ ~LatestIs(Live)
<1>1. (\A k \in RvJobs : ~HasTask(k)) /\ rvLeft = {} /\ rvCurrent \in RvJobs \cup {None}
  BY DEF Undisturbed, RvCore
<1>2. ~CurrentIsLive
  BY <1>1 DEF Undisturbed, CurrentIsLive
<1>3. ASSUME LatestIs(Live) PROVE FALSE
  <2>1. rvFile # <<>> /\ StatusOf(Latest) \in Live
    BY <1>3 DEF LatestIs
  <2>2. Latest \in Recorded /\ Latest \in RvJobs
    BY <2>1, LastIsThere, CoreFile, FileViews
  <2>3. QED
    BY <1>1, <2>1, <2>2 DEF RvCore, LiveIsKnown
<1>4. QED
  BY <1>2, <1>3

LEMMA TaskStays ==
  ASSUME RvCore, Undisturbed, NEW j \in RvJobs, HasTask(j), NEW s \in Statuses, NEW r \in RvTaskType,
         rvFile' # <<>>, LastOf(rvFile') = j, StatusIn(rvFile', j) = s,
         rvTask'[j] = r, \A k \in RvJobs \ {j} : rvTask'[k].pc = "none",
         rvCurrent' \in {rvCurrent, None}, r.pc = "none" /\ rvCurrent = j => rvCurrent' = None,
         r.pc = "asking" => r.of = mirror.version,
         mirror'.version = mirror.version, mirror'.index = mirror.index, mirror'.whole = mirror.whole,
         s = "succeeded" => mirror'.overview = mirror.version, UNCHANGED <<analysis, rvLeft>>
  PROVE  Undisturbed'
<1>1. analysis # "writing"
  BY DEF Undisturbed
<1>2. rvCurrent' # None => HasTask(rvCurrent)'
  <2>1. SUFFICES ASSUME rvCurrent' # None PROVE HasTask(rvCurrent)'
    OBVIOUS
  <2>2. rvCurrent' = rvCurrent /\ rvCurrent \in RvJobs /\ HasTask(rvCurrent)
    BY <2>1 DEF Undisturbed, RvCore
  <2>3. rvCurrent = j
    BY <2>2, TaskIsRecorded
  <2>4. QED
    BY <2>1, <2>2, <2>3 DEF HasTask
<1>3. \A k \in RvJobs : rvTask'[k].pc = "asking" => rvTask'[k].of = mirror'.version
  OBVIOUS
<1>4. analysis' = "idle" /\ mirror'.index =>
        /\ mirror'.whole /\ rvFile' # <<>>
        /\ StatusIn(rvFile', LastOf(rvFile')) = "succeeded" => mirror'.overview = mirror'.version
  BY DEF Undisturbed
<1>5. QED
  BY <1>1, <1>2, <1>3, <1>4 DEF Undisturbed

\* What a task does: it starts, tries again, or ends; each time it records it.
LEMMA RecordKeeps ==
  ASSUME RvInv, NEW j \in RvJobs, HasTask(j), NEW s \in Statuses, rvFile' = Persisted(rvFile, j, s),
         NEW r \in RvTaskType, rvTask' = [rvTask EXCEPT ![j] = r],
         rvMemory' = [rvMemory EXCEPT ![j] = s] \/ (rvMemory' = rvMemory /\ j \in rvLooked),
         rvCurrent' \in {rvCurrent, None}, r.pc = "none" /\ rvCurrent = j => rvCurrent' = None,
         s \in Live <=> r.pc # "none",
         r.pc \in {"asking", "sleeping"} => r.own \/ j \in rvLooked,
         r.pc = "sleeping" => r.attempt < MaxAttempts,
         r.pc = "asking" => r.of = mirror.version,
         mirror' \in Mirrors,
         mirror'.version = mirror.version, mirror'.index = mirror.index, mirror'.whole = mirror.whole,
         ~rvOverlap /\ s = "succeeded" => mirror'.overview = mirror.version,
         UNCHANGED <<mount, namesake, analysis, published, rvOverlap, rvLooked, rvLeft>>
  PROVE  RvInv'
<1>1. RvCore /\ rvCurrent' \in RvJobs \cup {None}
  BY DEF RvInv, RvCore
<1>2. /\ RvCore' /\ rvFile' # <<>> /\ Latest' = j /\ StatusOf(j)' = s
      /\ rvTask'[j] = r /\ \A k \in RvJobs \ {j} : rvTask'[k].pc = "none"
  BY <1>1, TaskRecords
<1>3. LastOf(rvFile') = j /\ StatusIn(rvFile', j) = s
  BY <1>2, FileViews
<1>4. ~rvOverlap' => Undisturbed'
  <2>1. SUFFICES ASSUME ~rvOverlap PROVE Undisturbed'
    OBVIOUS
  <2>2. Undisturbed /\ (s = "succeeded" => mirror'.overview = mirror.version)
    BY <2>1 DEF RvInv
  <2>3. QED
    BY <1>1, <1>2, <1>3, <2>2, TaskStays
<1>5. RvRest' /\ PublishedIsReviewed'
  BY DEF RvInv, RvRest, PublishedIsReviewed, Blank
<1>6. QED
  BY <1>2, <1>4, <1>5 DEF RvInv

LEMMA RefreshStartsKeeps == ASSUME RvInv, NEW j \in RvJobs, RefreshStarts(j) PROVE RvInv'
<1>1. PICK r : r = [pc |-> "asking", own |-> TRUE, attempt |-> 1, of |-> mirror.version]
  OBVIOUS
<1>2. /\ rvTask[j].pc = "ready" /\ rvTask' = [rvTask EXCEPT ![j] = r]
      /\ rvFile' = Persisted(rvFile, j, "running") /\ rvMemory' = [rvMemory EXCEPT ![j] = "running"]
      /\ UNCHANGED <<rvCurrent, mount, namesake, mirror, analysis, published, rvOverlap, rvLooked, rvLeft>>
  BY <1>1 DEF RefreshStarts
<1>3. mirror \in Mirrors /\ HasTask(j)
  BY <1>2 DEF RvInv, RvRest, HasTask
<1>4. r \in RvTaskType
  <2>1. mirror.version \in 0 .. MaxAnalyses /\ 1 \in 0 .. MaxAttempts
    BY <1>3, RvAssumption DEF Mirrors
  <2>2. QED
    BY <1>1, <2>1 DEF RvTaskType
<1>5. r.pc = "asking" /\ r.own /\ r.of = mirror.version
  BY <1>1
<1>6. "running" \in Statuses /\ "running" \in Live
  BY DEF Statuses, Live
<1>7. QED
  BY <1>2, <1>3, <1>4, <1>5, <1>6, RecordKeeps

\* The cache follows what the task records, or its object was replaced.
LEMMA RecordIsSeen ==
  ASSUME RvInv, NEW j \in RvJobs, NEW s, Record(j, s), rvTask[j].pc \in {"asking", "sleeping"}
  PROVE  /\ rvFile' = Persisted(rvFile, j, s) /\ HasTask(j)
         /\ rvMemory' = [rvMemory EXCEPT ![j] = s] \/ (rvMemory' = rvMemory /\ j \in rvLooked)
  BY DEF Record, RvInv, RvCore, OwnOrLooked, HasTask

LEMMA EndKeeps ==
  ASSUME RvInv, NEW j \in RvJobs, NEW s \in {"succeeded", "failed"}, RefreshEnds(j, s),
         rvTask[j].pc = "asking", mirror' \in Mirrors,
         mirror'.version = mirror.version, mirror'.index = mirror.index, mirror'.whole = mirror.whole,
         ~rvOverlap /\ s = "succeeded" => mirror'.overview = mirror.version,
         UNCHANGED <<mount, namesake, analysis, published, rvOverlap, rvLooked, rvLeft>>
  PROVE  RvInv'
<1>1. /\ Record(j, s) /\ rvTask' = [rvTask EXCEPT ![j] = NoTask]
      /\ rvCurrent' = IF rvCurrent = j THEN None ELSE rvCurrent
  BY DEF RefreshEnds
<1>2. /\ rvFile' = Persisted(rvFile, j, s) /\ HasTask(j)
      /\ rvMemory' = [rvMemory EXCEPT ![j] = s] \/ (rvMemory' = rvMemory /\ j \in rvLooked)
  BY <1>1, RecordIsSeen
<1>3. PICK r : r = NoTask
  OBVIOUS
<1>4. r \in RvTaskType /\ r.pc = "none"
  <2>1. 0 \in 0 .. MaxAttempts /\ 0 \in 0 .. MaxAnalyses
    BY RvAssumption
  <2>2. QED
    BY <1>3, <2>1 DEF RvTaskType, NoTask
<1>5. s \in Statuses /\ s \notin Live
  BY DEF Statuses, Live
<1>6. rvTask' = [rvTask EXCEPT ![j] = r] /\ rvCurrent' \in {rvCurrent, None} /\ (rvCurrent = j => rvCurrent' = None)
  BY <1>1, <1>3
<1>7. QED
  BY <1>2, <1>4, <1>5, <1>6, RecordKeeps

LEMMA ModelAnswersKeeps == ASSUME RvInv, NEW j \in RvJobs, ModelAnswers(j) PROVE RvInv'
<1>1. /\ rvTask[j].pc = "asking" /\ mirror' = [mirror EXCEPT !.overview = rvTask[j].of]
      /\ RefreshEnds(j, "succeeded")
      /\ UNCHANGED <<mount, namesake, analysis, published, rvOverlap, rvLooked, rvLeft>>
  BY DEF ModelAnswers
<1>2. mirror \in Mirrors /\ rvTask[j] \in RvTaskType /\ rvTask[j].of \in 0 .. MaxAnalyses
  BY DEF RvInv, RvRest, RvCore, RvTaskType
<1>3. /\ mirror' \in Mirrors /\ mirror'.version = mirror.version /\ mirror'.index = mirror.index
      /\ mirror'.whole = mirror.whole /\ mirror'.overview = rvTask[j].of
  BY <1>1, <1>2 DEF Mirrors
<1>4. ~rvOverlap => rvTask[j].of = mirror.version
  BY <1>1 DEF RvInv, Undisturbed
<1>5. ~rvOverlap => mirror'.overview = mirror.version
  BY <1>3, <1>4
<1>6. QED
  BY <1>1, <1>3, <1>5, EndKeeps

LEMMA AttemptFailsKeeps == ASSUME RvInv, NEW j \in RvJobs, AttemptFails(j) PROVE RvInv'
<1>1. /\ rvTask[j].pc = "asking"
      /\ UNCHANGED <<mount, namesake, mirror, analysis, published, rvOverlap, rvLooked, rvLeft>>
  BY DEF AttemptFails
<1>2. mirror \in Mirrors /\ rvTask \in [RvJobs -> RvTaskType]
  BY DEF RvInv, RvRest, RvCore
<1>3. CASE rvTask[j].attempt >= MaxAttempts
  <2>1. RefreshEnds(j, "failed") /\ mirror' \in Mirrors
    BY <1>1, <1>2, <1>3 DEF AttemptFails
  <2>2. QED
    BY <1>1, <2>1, EndKeeps
<1>4. CASE ~(rvTask[j].attempt >= MaxAttempts)
  <2>1. rvTask' = [rvTask EXCEPT ![j].pc = "sleeping"] /\ UNCHANGED <<rvFile, rvMemory, rvCurrent>>
    BY <1>4 DEF AttemptFails
  <2>2. /\ rvTask' \in [RvJobs -> RvTaskType] /\ rvTask'[j].pc = "sleeping"
        /\ rvTask'[j].own = rvTask[j].own /\ rvTask'[j].attempt = rvTask[j].attempt
        /\ \A k \in RvJobs \ {j} : rvTask'[k] = rvTask[k]
    BY <1>2, <2>1 DEF RvTaskType
  <2>3. \A k \in RvJobs : HasTask(k)' <=> HasTask(k)
    BY <1>1, <2>2 DEF HasTask
  <2>4. Recorded' = Recorded /\ Latest' = Latest /\ \A k : StatusOf(k)' = StatusOf(k)
    BY <2>1, FileViews
  <2>5. TaskIsLatest' /\ LiveIsKnown' /\ CacheAgrees'
    <3>1. TaskIsLatest'
      BY <2>1, <2>3, <2>4 DEF RvInv, RvCore, TaskIsLatest
    <3>2. LiveIsKnown'
      BY <1>1, <2>3, <2>4, CoreFile DEF RvInv, RvCore, LiveIsKnown
    <3>3. CacheAgrees'
      BY <1>1, <2>1, <2>4 DEF RvInv, RvCore, CacheAgrees
    <3>4. QED
      BY <3>1, <3>2, <3>3
  <2>6. OwnOrLooked'
    <3>1. rvTask[j].own \/ j \in rvLooked
      BY <1>1 DEF RvInv, RvCore, OwnOrLooked
    <3>2. QED
      BY <1>1, <2>2, <3>1 DEF RvInv, RvCore, OwnOrLooked
  <2>7. TriesRemain'
    <3>1. rvTask[j].attempt \in 0 .. MaxAttempts
      BY <1>2 DEF RvTaskType
    <3>2. rvTask[j].attempt < MaxAttempts
      BY <1>4, <3>1, RvAssumption
    <3>3. QED
      BY <2>2, <3>2 DEF RvInv, RvCore, TriesRemain
  <2>8. RvCore'
    BY <1>1, <2>1, <2>2, <2>5, <2>6, <2>7 DEF RvInv, RvCore
  <2>9. ~rvOverlap' => Undisturbed'
    <3>1. SUFFICES ASSUME ~rvOverlap PROVE Undisturbed'
      BY <1>1
    <3>2. Undisturbed
      BY <3>1 DEF RvInv
    <3>3. rvCurrent' # None => HasTask(rvCurrent)'
      <4>1. SUFFICES ASSUME rvCurrent # None PROVE rvTask'[rvCurrent].pc # "none"
        BY <2>1 DEF HasTask
      <4>2. rvCurrent \in RvJobs /\ HasTask(rvCurrent)
        BY <3>2, <4>1 DEF Undisturbed, RvInv, RvCore
      <4>3. QED
        BY <2>2, <4>2 DEF HasTask
    <3>4. \A k \in RvJobs : rvTask'[k].pc = "asking" => rvTask'[k].of = mirror'.version
      BY <1>1, <2>2, <3>2 DEF Undisturbed
    <3>5. QED
      BY <1>1, <2>1, <2>3, <3>2, <3>3, <3>4 DEF Undisturbed
  <2>10. RvRest' /\ PublishedIsReviewed'
    BY <1>1 DEF RvInv, RvRest, PublishedIsReviewed, Blank
  <2>11. QED
    BY <2>8, <2>9, <2>10 DEF RvInv
<1>5. QED
  BY <1>3, <1>4

LEMMA RefreshRetriesKeeps == ASSUME RvInv, NEW j \in RvJobs, RefreshRetries(j) PROVE RvInv'
<1>1. PICK r : r = [pc |-> "asking", own |-> rvTask[j].own, attempt |-> rvTask[j].attempt + 1,
                    of |-> mirror.version]
  OBVIOUS
<1>2. /\ rvTask[j].pc = "sleeping" /\ rvTask' = [rvTask EXCEPT ![j] = r] /\ Record(j, "running")
      /\ UNCHANGED <<rvCurrent, mount, namesake, mirror, analysis, published, rvOverlap, rvLooked, rvLeft>>
  BY <1>1 DEF RefreshRetries
<1>3. /\ rvFile' = Persisted(rvFile, j, "running") /\ HasTask(j)
      /\ rvMemory' = [rvMemory EXCEPT ![j] = "running"] \/ (rvMemory' = rvMemory /\ j \in rvLooked)
  BY <1>2, RecordIsSeen
<1>4. mirror \in Mirrors /\ rvTask[j] \in RvTaskType
  BY DEF RvInv, RvRest, RvCore
<1>5. r \in RvTaskType
  <2>1. rvTask[j].attempt < MaxAttempts /\ rvTask[j].attempt \in 0 .. MaxAttempts /\ rvTask[j].own \in BOOLEAN
    BY <1>2, <1>4 DEF RvInv, RvCore, TriesRemain, RvTaskType
  <2>2. rvTask[j].attempt + 1 \in 0 .. MaxAttempts
    BY <2>1, RvAssumption
  <2>3. mirror.version \in 0 .. MaxAnalyses
    BY <1>4 DEF Mirrors
  <2>4. QED
    BY <1>1, <2>1, <2>2, <2>3 DEF RvTaskType
<1>6. r.pc = "asking" /\ r.own = rvTask[j].own /\ r.of = mirror.version
  BY <1>1
<1>7. r.own \/ j \in rvLooked
  BY <1>2, <1>6 DEF RvInv, RvCore, OwnOrLooked
<1>8. "running" \in Statuses /\ "running" \in Live
  BY DEF Statuses, Live
<1>9. QED
  BY <1>2, <1>3, <1>4, <1>5, <1>6, <1>7, <1>8, RecordKeeps

LEMMA CoreStays ==
  ASSUME RvCore, UNCHANGED <<rvFile, rvMemory, rvCurrent, rvTask, rvLooked, rvLeft>>
  PROVE  RvCore'
  BY DEF RvCore, TaskIsLatest, LiveIsKnown, CacheAgrees, OwnOrLooked, TriesRemain, HasTask, Latest,
         StatusOf, Recorded

LEMMA StartRefreshKeeps == ASSUME RvInv, StartRefresh PROVE RvInv'
<1>1. /\ Enqueue /\ rvOverlap' = (rvOverlap \/ analysis = "writing")
      /\ UNCHANGED <<mount, namesake, mirror, analysis, published, rvLeft>>
  BY DEF StartRefresh
<1>2. mirror.index
  BY DEF StartRefresh
<1>3. RvCore' /\ (SameJobs \/ MadeJob)
  BY <1>1, EnqueueKeeps DEF RvInv
<1>4. RvRest' /\ PublishedIsReviewed'
  BY <1>1 DEF RvInv, RvRest, PublishedIsReviewed, Blank
<1>5. ASSUME ~rvOverlap' PROVE Undisturbed'
  <2>1. Undisturbed /\ analysis = "idle" /\ RvCore
    BY <1>1, <1>5 DEF RvInv, RvRest
  <2>2. CASE SameJobs
    BY <1>1, <2>1, <2>2, SameStays
  <2>3. CASE MadeJob
    <3>1. rvLeft' = {} /\ analysis' = "idle" /\ mirror'.whole
      BY <1>1, <1>2, <2>1 DEF Undisturbed
    <3>2. QED
      BY <2>3, <3>1, MadeStays
  <2>4. QED
    BY <1>3, <2>2, <2>3
<1>6. QED
  BY <1>3, <1>4, <1>5 DEF RvInv

LEMMA AnalyseStartsKeeps == ASSUME RvInv, AnalyseStarts PROVE RvInv'
<1>1. /\ analysis' = "writing" /\ mirror.version < MaxAnalyses
      /\ mirror' = [version |-> mirror.version + 1, whole |-> FALSE, index |-> mirror.index, overview |-> 0]
      /\ UNCHANGED <<rvFile, rvMemory, rvCurrent, rvTask, mount, namesake, published, rvLooked, rvLeft>>
  BY DEF AnalyseStarts
<1>2. rvOverlap' = (rvOverlap \/ \E j \in RvJobs : HasTask(j))
  BY DEF AnalyseStarts
<1>3. RvCore'
  BY <1>1, CoreStays DEF RvInv
<1>4. mirror' \in Mirrors
  <2>1. mirror.version \in 0 .. MaxAnalyses /\ mirror.index \in BOOLEAN
    BY DEF RvInv, RvRest, Mirrors
  <2>2. mirror.version + 1 \in 0 .. MaxAnalyses /\ 0 \in 0 .. MaxAnalyses
    BY <1>1, <2>1, RvAssumption
  <2>3. QED
    BY <1>1, <2>1, <2>2 DEF Mirrors
<1>5. rvOverlap' \in BOOLEAN /\ (~rvOverlap' => ~rvOverlap /\ \A j \in RvJobs : ~HasTask(j))
  BY <1>2
<1>6. RvRest' /\ PublishedIsReviewed'
  BY <1>1, <1>4, <1>5 DEF RvInv, RvRest, PublishedIsReviewed, Blank
<1>7. ASSUME ~rvOverlap' PROVE Undisturbed'
  <2>1. Undisturbed /\ \A j \in RvJobs : rvTask[j].pc = "none"
    BY <1>5, <1>7 DEF RvInv, HasTask
  <2>2. QED
    BY <1>1, <2>1 DEF Undisturbed, HasTask
<1>8. QED
  BY <1>3, <1>6, <1>7 DEF RvInv

LEMMA AnalyseEndsKeeps == ASSUME RvInv, AnalyseEnds PROVE RvInv'
<1>1. /\ analysis = "writing" /\ analysis' = "idle" /\ Enqueue
      /\ mirror' = [mirror EXCEPT !.whole = TRUE, !.index = TRUE]
      /\ UNCHANGED <<mount, namesake, published, rvOverlap, rvLeft>>
  BY DEF AnalyseEnds
<1>2. RvCore' /\ ((SameJobs /\ (CurrentIsLive \/ LatestIs(Live))) \/ MadeJob)
  BY <1>1, EnqueueKeeps DEF RvInv
<1>3. mirror' \in Mirrors /\ mirror'.whole
  BY <1>1 DEF RvInv, RvRest, Mirrors
<1>4. RvRest' /\ PublishedIsReviewed'
  BY <1>1, <1>3 DEF RvInv, RvRest, PublishedIsReviewed, Blank
<1>5. ASSUME ~rvOverlap' PROVE Undisturbed'
  <2>1. Undisturbed /\ RvCore
    BY <1>1, <1>5 DEF RvInv
  <2>2. MadeJob
    BY <1>1, <1>2, <2>1, NothingLives
  <2>3. rvLeft' = {}
    BY <1>1, <2>1 DEF Undisturbed
  <2>4. QED
    BY <1>1, <1>3, <2>2, <2>3, MadeStays
<1>6. QED
  BY <1>2, <1>4, <1>5 DEF RvInv

LEMMA AnalyseFailsKeeps == ASSUME RvInv, AnalyseFails PROVE RvInv'
<1>1. /\ analysis' = "idle" /\ rvOverlap' = TRUE
      /\ UNCHANGED <<rvFile, rvMemory, rvCurrent, rvTask, mount, namesake, mirror, published, rvLooked, rvLeft>>
  BY DEF AnalyseFails
<1>2. RvCore'
  BY <1>1, CoreStays DEF RvInv
<1>3. RvRest'
  BY <1>1 DEF RvInv, RvRest
<1>4. QED
  BY <1>1, <1>2, <1>3 DEF RvInv, PublishedIsReviewed

LEMMA PublishKeeps == ASSUME RvInv, NEW force \in BOOLEAN, Publish(force) PROVE RvInv'
<1>1. /\ mirror.index /\ Look /\ rvOverlap' = (rvOverlap \/ analysis = "writing")
      /\ UNCHANGED <<rvFile, mount, namesake, mirror, analysis, rvLeft>>
  BY DEF Publish
<1>2. published' = published \/ (published' = mirror /\ (rvFile = <<>> \/ LatestIs({"succeeded"})))
  BY DEF Publish, MayPublish
<1>3. RvCore' /\ SameJobs
  BY <1>1, LookKeeps DEF RvInv, SameJobs
<1>4. RvRest'
  BY <1>1, <1>2 DEF RvInv, RvRest
<1>5. ASSUME ~rvOverlap' PROVE Undisturbed' /\ PublishedIsReviewed'
  <2>1. Undisturbed /\ analysis = "idle" /\ RvCore
    BY <1>1, <1>5 DEF RvInv, RvRest
  <2>2. Undisturbed'
    BY <1>1, <1>3, <2>1, SameStays
  <2>3. CASE published' = published
    <3>1. Blank' = Blank /\ ~rvOverlap
      BY <1>1, <1>5 DEF Blank
    <3>2. published # Blank => published.whole /\ published.overview = published.version
      BY <3>1 DEF RvInv, PublishedIsReviewed
    <3>3. QED
      BY <2>2, <2>3, <3>1, <3>2 DEF PublishedIsReviewed
  <2>4. CASE published' = mirror /\ (rvFile = <<>> \/ LatestIs({"succeeded"}))
    <3>1. mirror.whole /\ rvFile # <<>>
          /\ (StatusIn(rvFile, LastOf(rvFile)) = "succeeded" => mirror.overview = mirror.version)
      BY <1>1, <2>1 DEF Undisturbed
    <3>2. StatusIn(rvFile, LastOf(rvFile)) = "succeeded"
      BY <2>4, <3>1, FileViews DEF LatestIs
    <3>3. published'.whole /\ published'.overview = published'.version
      BY <2>4, <3>1, <3>2
    <3>4. QED
      BY <2>2, <3>3 DEF PublishedIsReviewed
  <2>5. QED
    BY <1>2, <2>2, <2>3, <2>4
<1>6. rvOverlap' => PublishedIsReviewed'
  BY DEF PublishedIsReviewed
<1>7. QED
  BY <1>3, <1>4, <1>5, <1>6 DEF RvInv

LEMMA AskStatusKeeps == ASSUME RvInv, NEW j \in RvJobs, AskStatus(j) PROVE RvInv'
<1>1. /\ j \in Recorded /\ rvMemory' = [rvMemory EXCEPT ![j] = StatusOf(j)]
      /\ UNCHANGED <<rvFile, rvCurrent, rvTask, mount, namesake, mirror, analysis, published,
                     rvOverlap, rvLooked, rvLeft>>
  BY DEF AskStatus
<1>2. StatusOf(j) \in Statuses
  <2>1. PICK i \in DOMAIN rvFile : rvFile[i].job = j
    BY <1>1 DEF Recorded
  <2>2. StatusIn(rvFile, rvFile[i].job) = rvFile[i].status /\ rvFile[i].status \in Statuses
    BY OneRecordEach, CoreFile DEF RvInv
  <2>3. QED
    BY <2>1, <2>2, FileViews
<1>3. rvMemory \in [RvJobs -> Statuses \cup {"absent"}]
  BY DEF RvInv, RvCore
<1>4. /\ rvMemory' \in [RvJobs -> Statuses \cup {"absent"}] /\ rvMemory'[j] = StatusOf(j)
      /\ \A k \in RvJobs \ {j} : rvMemory'[k] = rvMemory[k]
  BY <1>1, <1>2, <1>3
<1>5. Recorded' = Recorded /\ Latest' = Latest /\ \A k : StatusOf(k)' = StatusOf(k)
  BY <1>1, FileViews
<1>6. CacheAgrees'
  BY <1>1, <1>4, <1>5, CoreFile DEF RvInv, RvCore, CacheAgrees
<1>7. TaskIsLatest' /\ LiveIsKnown' /\ OwnOrLooked' /\ TriesRemain'
  BY <1>1, <1>5 DEF RvInv, RvCore, TaskIsLatest, LiveIsKnown, OwnOrLooked, TriesRemain, HasTask
<1>8. RvCore'
  BY <1>1, <1>4, <1>6, <1>7 DEF RvInv, RvCore
<1>9. RvRest' /\ PublishedIsReviewed' /\ (~rvOverlap' => Undisturbed')
  BY <1>1 DEF RvInv, RvRest, PublishedIsReviewed, Blank, Undisturbed, HasTask
<1>10. QED
  BY <1>8, <1>9 DEF RvInv

LEMMA ChangeMountKeeps == ASSUME RvInv, ChangeMount PROVE RvInv'
<1>1. /\ mount' = ~mount
      /\ UNCHANGED <<rvFile, rvMemory, rvCurrent, rvTask, namesake, mirror, analysis, published,
                     rvOverlap, rvLooked, rvLeft>>
  BY DEF ChangeMount
<1>2. RvCore'
  BY <1>1, CoreStays DEF RvInv
<1>3. mount' \in BOOLEAN
  BY Zenon, <1>1
<1>4. RvRest' /\ PublishedIsReviewed' /\ (~rvOverlap' => Undisturbed')
  BY <1>1, <1>3 DEF RvInv, RvRest, PublishedIsReviewed, Blank, Undisturbed, HasTask
<1>5. QED
  BY <1>2, <1>4 DEF RvInv

\* What a recovery makes of the file f that it reads.
Recovery(f, r) ==
  /\ FileOK(f) /\ FileOK(r.file)
  /\ f = <<>> => r.file = <<>> /\ r.memory = "none"
  /\ f # <<>> => /\ LastOf(f) \in JobsOf(r.file) /\ LastOf(f) \in RvJobs
                 /\ r.file[Len(f)].status = StatusIn(r.file, LastOf(f))
                 /\ r.file[Len(f)].status \in Statuses
  /\ \A k \in JobsOf(r.file) : StatusIn(r.file, k) \in Live => k \in rvLeft \/ (r.memory = "queued" /\ k = LastOf(f))

LEMMA RecoverySound ==
  ASSUME RvCore, NEW f, f = rvFile \/ f = <<>>, NEW r, r = Recovered(f)
  PROVE  Recovery(f, r)
<1>1. CASE f = <<>>
  <2>1. r.file = <<>> /\ r.memory = "none"
    BY <1>1 DEF Recovered
  <2>2. FileOK(f) /\ JobsOf(f) = {}
    BY <1>1 DEF FileOK, JobsDiffer, JobsOf
  <2>3. QED
    BY <1>1, <2>1, <2>2 DEF Recovery
<1>2. CASE f # <<>>
  <2>1. f = rvFile /\ FileOK(f)
    BY <1>2, CoreFile
  <2>2. PICK j : j = LastOf(f)
    OBVIOUS
  <2>3. j \in RvJobs /\ j \in JobsOf(f) /\ f[Len(f)].job = j /\ StatusIn(f, j) = f[Len(f)].status /\ Len(f) \in DOMAIN f
    BY <1>2, <2>1, <2>2, LastIsThere DEF LastOf
  <2>4. ASSUME NEW k \in JobsOf(f), StatusIn(f, k) \in Live PROVE k \in rvLeft \/ k = j
    <3>1. HasTask(k) \/ k \in rvLeft
      BY <2>1, <2>4, FileViews DEF RvCore, LiveIsKnown
    <3>2. k \in RvJobs
      BY <2>1, CoreFile, FileViews
    <3>3. HasTask(k) => k = j
      BY <2>1, <2>2, <3>2, TaskIsRecorded, FileViews
    <3>4. QED
      BY <3>1, <3>3
  <2>5. CASE f[Len(f)].status \notin Live
    <3>1. r.file = f
      BY <2>5 DEF Recovered
    <3>2. f[Len(f)].status \in Statuses
      BY <2>1, <2>3, OneRecordEach
    <3>3. ASSUME NEW k \in JobsOf(f), StatusIn(f, k) \in Live PROVE k \in rvLeft
      BY <2>3, <2>4, <2>5, <3>3
    <3>4. QED
      BY <1>2, <2>1, <2>2, <2>3, <3>1, <3>2, <3>3 DEF Recovery
  <2>6. CASE f[Len(f)].status \in Live
    <3>1. PICK s \in {"queued", "failed"} : r = [file |-> Persisted(f, j, s), memory |-> s]
      BY <1>2, <2>3, <2>6 DEF Recovered
    <3>2. PICK g : g = Persisted(f, j, s)
      OBVIOUS
    <3>3. r.file = g /\ r.memory = s /\ s \in Statuses
      BY <3>1, <3>2 DEF Statuses, Live
    <3>4. Recording(f, j, s, g)
      BY <2>1, <2>3, <3>2, <3>3, PersistRecords
    <3>5. /\ FileOK(g) /\ g # <<>> /\ JobsOf(g) = JobsOf(f) /\ StatusIn(g, j) = s
          /\ (\A k \in JobsOf(f) \ {j} : StatusIn(g, k) = StatusIn(f, k))
          /\ Len(g) = Len(f) /\ LastOf(g) = j
      BY <2>2, <2>3, <3>4 DEF Recording
    <3>6. g[Len(f)].status = s
      BY <3>5, LastIsThere
    <3>7. ASSUME NEW k \in JobsOf(g), StatusIn(g, k) \in Live PROVE k \in rvLeft \/ (s = "queued" /\ k = j)
      <4>1. CASE k = j
        BY <3>1, <3>5, <3>7, <4>1 DEF Live
      <4>2. CASE k # j
        BY <2>4, <3>5, <3>7, <4>2
      <4>3. QED
        BY <4>1, <4>2
    <3>8. QED
      BY <1>2, <2>1, <2>2, <2>3, <3>3, <3>5, <3>6, <3>7 DEF Recovery
  <2>7. QED
    BY <2>5, <2>6
<1>3. QED
  BY <1>1, <1>2

LEMMA RestartOverview == ASSUME RvInv, RvRestart PROVE RvInv'
<1>1. PICK f \in {rvFile} \cup {<<>> : j \in {k \in RvJobs : HasTask(k)}} :
    LET r == Recovered(f) IN
    /\ rvFile' = r.file
    /\ rvMemory' = [j \in RvJobs |-> IF f # <<>> /\ j = f[Len(f)].job
                                       THEN r.file[Len(f)].status ELSE "absent"]
    /\ rvCurrent' = IF r.memory # "none" THEN f[Len(f)].job ELSE None
    /\ rvTask' = [j \in RvJobs |-> NoTask]
    /\ analysis' = "idle"
    /\ \E w \in BOOLEAN : mirror' = IF analysis = "writing" THEN [mirror EXCEPT !.whole = w,
                                                   !.index = @ \/ w] ELSE mirror
    /\ rvOverlap' = TRUE
    /\ rvLooked' = {}
    /\ rvLeft' = rvLeft \cup IF r.memory = "queued" THEN {rvCurrent'} ELSE {}
    /\ UNCHANGED <<mount, namesake, published>>
  BY DEF RvRestart
<1>2. PICK r : r = Recovered(f)
  OBVIOUS
<1>3. /\ rvFile' = r.file
      /\ rvMemory' = [j \in RvJobs |-> IF f # <<>> /\ j = LastOf(f) THEN r.file[Len(f)].status ELSE "absent"]
      /\ rvCurrent' = IF r.memory # "none" THEN LastOf(f) ELSE None
      /\ rvTask' = [j \in RvJobs |-> NoTask] /\ rvLooked' = {}
      /\ rvLeft' = rvLeft \cup IF r.memory = "queued" THEN {rvCurrent'} ELSE {}
  BY <1>1, <1>2 DEF LastOf
<1>4. Recovery(f, r)
  BY <1>1, <1>2, RecoverySound DEF RvInv
<1>5. rvCurrent' \in RvJobs \cup {None} /\ rvLeft' \subseteq RvJobs
  BY <1>3, <1>4 DEF Recovery, RvInv, RvCore
<1>6. rvTask' \in [RvJobs -> RvTaskType] /\ \A k \in RvJobs : rvTask'[k].pc = "none"
  <2>1. 0 \in 0 .. MaxAttempts /\ 0 \in 0 .. MaxAnalyses
    BY RvAssumption
  <2>2. NoTask \in RvTaskType /\ NoTask.pc = "none"
    BY <2>1 DEF RvTaskType, NoTask
  <2>3. QED
    BY <1>3, <2>2
<1>7. rvMemory' \in [RvJobs -> Statuses \cup {"absent"}]
  BY <1>3, <1>4 DEF Recovery
<1>8. CacheAgrees'
  <2>1. ASSUME NEW k \in JobsOf(rvFile'), k \in RvJobs PROVE rvMemory'[k] \in {"absent", StatusIn(rvFile', k)}
    BY <1>3, <1>4, <2>1 DEF Recovery
  <2>2. Recorded' \subseteq RvJobs
    BY <1>3, <1>4, OneRecordEach DEF Recovery, Recorded
  <2>3. QED
    BY <2>1, <2>2, FileViews DEF CacheAgrees
<1>9. LiveIsKnown'
  <2>1. ASSUME NEW k \in JobsOf(rvFile'), StatusIn(rvFile', k) \in Live PROVE k \in rvLeft'
    BY <1>3, <1>4, <2>1 DEF Recovery
  <2>2. QED
    BY <2>1, FileViews DEF LiveIsKnown
<1>10. TaskIsLatest' /\ OwnOrLooked' /\ TriesRemain'
  BY <1>6 DEF TaskIsLatest, OwnOrLooked, TriesRemain, HasTask
<1>11. FileOK(rvFile')
  BY <1>3, <1>4 DEF Recovery
<1>12. RvCore'
  BY <1>3, <1>5, <1>6, <1>7, <1>8, <1>9, <1>10, <1>11 DEF RvCore, FileOK, RvRecord
<1>13. mirror' \in Mirrors
  <2>1. PICK w \in BOOLEAN : mirror' = IF analysis = "writing" THEN [mirror EXCEPT !.whole = w, !.index = @ \/ w]
                                       ELSE mirror
    BY <1>1
  <2>2. mirror \in Mirrors /\ mirror.index \in BOOLEAN
    BY DEF RvInv, RvRest, Mirrors
  <2>3. PICK x \in BOOLEAN : x = (mirror.index \/ w)
    BY Zenon, <2>1
  <2>4. mirror' = IF analysis = "writing" THEN [mirror EXCEPT !.whole = w, !.index = x] ELSE mirror
    BY Zenon, <2>1, <2>3
  <2>5. QED
    BY <2>1, <2>2, <2>3, <2>4 DEF Mirrors
<1>14. RvRest'
  BY <1>1, <1>13 DEF RvInv, RvRest
<1>15. rvOverlap'
  BY <1>1
<1>16. QED
  BY <1>12, <1>14, <1>15 DEF RvInv, PublishedIsReviewed

LEMMA OverviewInitial == RvInit => RvInv
<1> SUFFICES ASSUME RvInit PROVE RvInv
  OBVIOUS
<1>1. /\ rvFile = <<>> /\ rvMemory = [j \in RvJobs |-> "absent"] /\ rvCurrent = None
      /\ rvTask = [j \in RvJobs |-> NoTask] /\ rvLooked = {} /\ rvLeft = {}
  BY DEF RvInit
<1>2. NoTask \in RvTaskType /\ NoTask.pc = "none"
  <2>1. 0 \in 0 .. MaxAttempts /\ 0 \in 0 .. MaxAnalyses
    BY RvAssumption
  <2>2. QED
    BY <2>1 DEF RvTaskType, NoTask
<1>3. rvTask \in [RvJobs -> RvTaskType] /\ \A k \in RvJobs : rvTask[k].pc = "none"
  BY <1>1, <1>2
<1>4. FileOK(rvFile) /\ Recorded = {}
  BY <1>1 DEF FileOK, JobsDiffer, Recorded
<1>5. RvCore
  BY <1>1, <1>3, <1>4 DEF RvCore, FileOK, RvRecord, TaskIsLatest, LiveIsKnown, CacheAgrees, OwnOrLooked,
                          TriesRemain, HasTask
<1>6. mirror = Blank /\ published = Blank /\ analysis = "idle" /\ rvOverlap = FALSE /\ mount = TRUE
      /\ namesake \in BOOLEAN
  BY DEF RvInit
<1>7. Blank \in Mirrors /\ ~Blank.index
  <2>1. 0 \in 0 .. MaxAnalyses
    BY RvAssumption
  <2>2. QED
    BY <2>1 DEF Mirrors, Blank
<1>8. RvRest /\ PublishedIsReviewed
  BY <1>6, <1>7 DEF RvRest, PublishedIsReviewed
<1>9. ~mirror.index
  BY <1>6, <1>7
<1>10. Undisturbed
  BY <1>1, <1>3, <1>6, <1>9 DEF Undisturbed
<1>11. QED
  BY <1>5, <1>8, <1>10 DEF RvInv

LEMMA OverviewTyped == RvInv => RvTypeOK
<1> SUFFICES ASSUME RvInv PROVE RvTypeOK
  OBVIOUS
<1>1. /\ rvFile \in Seq([job : RvJobs, status : Live \cup {"succeeded", "failed"}])
      /\ rvMemory \in [RvJobs -> Live \cup {"absent", "succeeded", "failed"}]
      /\ rvCurrent \in RvJobs \cup {None} /\ rvLooked \cup rvLeft \subseteq RvJobs
  BY DEF RvInv, RvCore, Statuses, Live
<1>2. rvTask \in [RvJobs -> RvTaskType]
  BY DEF RvInv, RvCore
<1>3. {mount, namesake, rvOverlap} \subseteq BOOLEAN
  BY Zenon DEF RvInv, RvRest
<1>4. {mirror, published} \subseteq Mirrors /\ analysis \in {"idle", "writing"}
  BY DEF RvInv, RvRest
<1>5. QED
  BY <1>1, <1>2, <1>3, <1>4 DEF RvTypeOK, RvTaskType

LEMMA TasksAreRecorded == RvInv => RecordsMatchTasks
<1> SUFFICES ASSUME RvInv PROVE RecordsMatchTasks
  OBVIOUS
<1>1. RvCore
  BY DEF RvInv
<1>2. \A j \in RvJobs : HasTask(j) => j \in Recorded /\ StatusOf(j) \in Live
  BY <1>1, TaskIsRecorded DEF RvCore, TaskIsLatest
<1>3. \A j, k \in RvJobs : HasTask(j) /\ HasTask(k) => j = k
  BY <1>1 DEF RvCore, TaskIsLatest
<1>4. QED
  BY <1>1, <1>2, <1>3 DEF RecordsMatchTasks, RvCore, LiveIsKnown, CacheAgrees

RvAction == \/ StartRefresh \/ AnalyseStarts \/ (\E force \in BOOLEAN : Publish(force)) \/ ChangeMount
            \/ RvRestart \/ RvStep \/ UNCHANGED repoOverview

LEMMA OverviewKeeps == RvInv /\ RvAction => RvInv'
<1> SUFFICES ASSUME RvInv, RvAction PROVE RvInv'
  OBVIOUS
<1>1. CASE UNCHANGED repoOverview
  <2>1. UNCHANGED <<rvFile, rvMemory, rvCurrent, rvTask, mount, namesake, mirror, analysis, published,
                    rvOverlap, rvLooked, rvLeft>>
    BY <1>1 DEF repoOverview
  <2>2. RvCore'
    BY <2>1, CoreStays DEF RvInv
  <2>3. RvRest' /\ PublishedIsReviewed' /\ (~rvOverlap' => Undisturbed')
    BY <2>1 DEF RvInv, RvRest, PublishedIsReviewed, Blank, Undisturbed, HasTask
  <2>4. QED
    BY <2>2, <2>3 DEF RvInv
<1>2. CASE StartRefresh \/ AnalyseStarts \/ ChangeMount \/ RvRestart \/ \E force \in BOOLEAN : Publish(force)
  BY <1>2, StartRefreshKeeps, AnalyseStartsKeeps, ChangeMountKeeps, RestartOverview, PublishKeeps
<1>3. CASE RvStep
  <2>1. CASE AnalyseEnds \/ AnalyseFails
    BY <2>1, AnalyseEndsKeeps, AnalyseFailsKeeps
  <2>2. CASE \E j \in RvJobs : Refresh(j) \/ AskStatus(j)
    BY <2>2, RefreshStartsKeeps, ModelAnswersKeeps, AttemptFailsKeeps, RefreshRetriesKeeps, AskStatusKeeps
       DEF Refresh
  <2>3. QED
    BY <1>3, <2>1, <2>2 DEF RvStep
<1>4. QED
  BY <1>1, <1>2, <1>3 DEF RvAction

----------------------------------------------------------------------------
(* The three of them, and what is left of the workload.                      *)
ServicesInv == ChInv /\ GenInv /\ RvInv /\ left \in [Asked -> Nat]

ServicesNext == ChAction /\ GenAction /\ RvAction /\ left' \in [Asked -> Nat]

LEMMA EachMovesByItself == left \in [Asked -> Nat] /\ [Next]_vars => ServicesNext
<1> SUFFICES ASSUME left \in [Asked -> Nat], [Next]_vars PROVE ServicesNext
  OBVIOUS
<1>1. ASSUME NEW what \in Asked, Spend(what) PROVE left' \in [Asked -> Nat]
  <2>1. left[what] \in Nat /\ left[what] > 0 /\ left' = [left EXCEPT ![what] = left[what] - 1]
    BY <1>1 DEF Spend
  <2>2. left[what] - 1 \in Nat
    BY <2>1
  <2>3. QED
    BY <2>1, <2>2
<1>2. CASE Request
  <2>1. left' \in [Asked -> Nat]
    BY <1>1, <1>2 DEF Request, Asked
  <2>2. ChAction
    BY <1>2 DEF Request, ChAction
  <2>3. GenAction
    BY <1>2 DEF Request, GenAction
  <2>4. RvAction
    BY <1>2 DEF Request, RvAction
  <2>5. QED
    BY <2>1, <2>2, <2>3, <2>4 DEF ServicesNext
<1>3. CASE Restart
  BY <1>1, <1>3 DEF Restart, Asked, ChAction, GenAction, RvAction, ServicesNext
<1>4. CASE ChStep /\ UNCHANGED <<generation, repoOverview, left>>
  BY <1>4 DEF ChAction, GenAction, RvAction, ServicesNext
<1>5. CASE GenStep /\ UNCHANGED <<channels, repoOverview, left>>
  BY <1>5 DEF ChAction, GenAction, RvAction, ServicesNext
<1>6. CASE RvStep /\ UNCHANGED <<channels, generation, left>>
  BY <1>6 DEF ChAction, GenAction, RvAction, ServicesNext
<1>7. CASE UNCHANGED vars
  BY <1>7 DEF vars, ChAction, GenAction, RvAction, ServicesNext
<1>8. QED
  BY <1>2, <1>3, <1>4, <1>5, <1>6, <1>7 DEF Next

LEMMA ServicesAreSound == ServicesInv => ServicesAgree
<1> SUFFICES ASSUME ServicesInv PROVE ServicesAgree
  OBVIOUS
<1>1. ChTypeOK /\ OneThreadPerTopic
  BY TopicsAreAccounted DEF ServicesInv, ChInv
<1>2. GenTypeOK /\ NoticeOfEveryEnd
  BY GenTyped DEF ServicesInv, GenInv
<1>3. RvTypeOK /\ RecordsMatchTasks /\ PublishedIsReviewed
  BY OverviewTyped, TasksAreRecorded DEF ServicesInv, RvInv
<1>4. \A what \in DOMAIN left : left[what] \in Nat
  BY DEF ServicesInv
<1>5. QED
  BY <1>1, <1>2, <1>3, <1>4 DEF ServicesAgree, TypeOK

(* Whatever is asked of the services, and whenever the process dies, the     *)
(* threads of a topic are those it was given, every job's end is noticed, a  *)
(* refresh is recorded as live just while its task lives, and no mirror is   *)
(* published that was not reviewed, unless the code itself let steps cross   *)
(* (ServicesAgree, of channels/manager.py, the generation poller and the     *)
(* refresh of repository overviews).                                         *)
THEOREM ServicesStayInOrder == Spec => []ServicesAgree
<1>1. Init => ServicesInv
  BY ChInitial, GenInitial, OverviewInitial, WorkloadsAssumption DEF Init, ServicesInv
<1>2. ServicesInv /\ [Next]_vars => ServicesInv'
  BY EachMovesByItself, ChannelsKeep, GenerationKeeps, OverviewKeeps DEF ServicesInv, ServicesNext
<1>3. ServicesInv => ServicesAgree
  BY ServicesAreSound
<1>4. QED
  BY <1>1, <1>2, <1>3, PTL DEF Spec
=============================================================================
