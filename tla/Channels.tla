------------------------------- MODULE Channels -------------------------------
(* The chat channels of the gateway (backend/src/channels): a channel posts  *)
(* what users write to the bus's queue; the manager takes it from there, a   *)
(* task for each message, at most MaxConcurrency at work; the reply goes to  *)
(* every listener of the bus, each of which sends it, with retries, when it  *)
(* is of its channel.  One chat of one platform; its messages name the topic *)
(* they belong to.                                                           *)
EXTENDS FiniteSets, Integers, Sequences

CONSTANTS Msgs,            \* bound: messages of users
          Topics,          \* topics of the chat, "none" for messages without
          MsgKind(_),      \* "chat", "new" or "status"
          MsgTopic(_),     \* the topic of a message
          MaxConcurrency,  \* permits of the manager's semaphore
          MaxSends,        \* attempts of send
          KeepsClient      \* a stopped instance can still post (Slack), or not (Telegram)

ASSUME ChannelsAssumption ==
  /\ MaxConcurrency \in Nat \ {0} /\ MaxSends \in Nat \ {0} /\ KeepsClient \in BOOLEAN
  /\ \A m \in Msgs : MsgKind(m) \in {"chat", "new", "status"} /\ MsgTopic(m) \in Topics

VARIABLES inbound,    \* MessageBus._inbound_queue
          listeners,  \* MessageBus._outbound_listeners: instances of the channel
          instance,   \* the instance that runs; 0 when the channel is down
          permits,    \* ChannelManager._semaphore
          message,    \* where each message is
          topicMap,   \* ChannelStore._data: the thread of each topic
          saved,      \* the file ChannelStore reads when the process starts
          threads,    \* threads the LangGraph server created so far
          posts,      \* history: replies to each message the chat received, by instance
          ranIn,      \* history: the threads each topic's chats ran in
          renewed,    \* history: threads /new put in the map, of each topic
          split       \* history: topics for which two threads were being made at once, or
                      \* whose chats ran in a thread that a restart has forgotten

channels == <<inbound, listeners, instance, permits, message, topicMap, saved, threads,
              posts, ranIn, renewed, split>>

NoThread == 0
Unsent == [pc |-> "unsent", thread |-> NoThread, to |-> <<>>, tries |-> 0]
AtWork == {"working", "creating", "running", "sending"}

ChTypeOK ==
  /\ inbound \in Seq(Msgs) /\ listeners \in Seq(Nat) /\ instance \in Nat
  /\ permits \in 0 .. MaxConcurrency
  /\ message \in [Msgs -> [pc : AtWork \cup {"unsent", "queued", "waiting", "done", "lost"},
                           thread : Nat, to : Seq(Nat), tries : 0 .. MaxSends]]
  /\ {topicMap, saved} \subseteq [Topics -> Nat] /\ threads \in Nat
  /\ posts \in [Msgs -> SUBSET Nat] /\ ranIn \in [Topics -> SUBSET Nat]
  /\ renewed \in [Topics -> Nat] /\ split \subseteq Topics

ChInit ==
  /\ inbound = <<>> /\ listeners = <<1>> /\ instance = 1
  /\ permits = MaxConcurrency
  /\ message = [m \in Msgs |-> Unsent]
  /\ topicMap = [t \in Topics |-> NoThread] /\ saved = topicMap /\ threads = 0
  /\ posts = [m \in Msgs |-> {}] /\ ranIn = [t \in Topics |-> {}]
  /\ renewed = [t \in Topics |-> 0] /\ split = {}

(* A channel takes a message in; publish_inbound *)
Receive(m) ==
  /\ message[m].pc = "unsent" /\ instance # 0
  /\ message' = [message EXCEPT ![m].pc = "queued"]
  /\ inbound' = Append(inbound, m)
  /\ UNCHANGED <<listeners, instance, permits, topicMap, saved, threads, posts, ranIn,
                 renewed, split>>

(* _dispatch_loop: a task of its own for each message *)
Dispatch ==
  /\ inbound # <<>>
  /\ message' = [message EXCEPT ![Head(inbound)].pc = "waiting"]
  /\ inbound' = Tail(inbound)
  /\ UNCHANGED <<listeners, instance, permits, topicMap, saved, threads, posts, ranIn,
                 renewed, split>>

\* The reply goes to the listeners there are now, one after the other.
Outbound(m) == [message EXCEPT ![m].pc = "sending", ![m].to = listeners, ![m].tries = 0]

(* _handle_message, up to the first await: a chat looks its topic's thread up *)
Making(t) == {m \in Msgs : message[m].pc = "creating" /\ MsgTopic(m) = t}
NeedsThread(m) == \/ MsgKind(m) = "new"
                  \/ MsgKind(m) = "chat" /\ (MsgTopic(m) = "none" \/ topicMap[MsgTopic(m)] = NoThread)

RunIn(m, t) == /\ message' = [message EXCEPT ![m].pc = "running", ![m].thread = t]
               /\ ranIn' = [ranIn EXCEPT ![MsgTopic(m)] = @ \cup {t}]

Begin(m) ==
  /\ message[m].pc = "waiting" /\ permits > 0
  /\ permits' = permits - 1
  /\ IF NeedsThread(m)
       THEN /\ message' = [message EXCEPT ![m].pc = "creating"]
            /\ split' = IF Making(MsgTopic(m)) # {} THEN split \cup {MsgTopic(m)} ELSE split
            /\ UNCHANGED ranIn
     ELSE /\ UNCHANGED split
          /\ IF MsgKind(m) = "chat" THEN RunIn(m, topicMap[MsgTopic(m)])
             ELSE message' = Outbound(m) /\ UNCHANGED ranIn
  /\ UNCHANGED <<inbound, listeners, instance, topicMap, saved, threads, posts, renewed>>

\* set_thread_id changes the map, then saves all of it.
PutThread(m) ==
  /\ message[m].pc = "creating"
  /\ threads' = threads + 1
  /\ topicMap' = [topicMap EXCEPT ![MsgTopic(m)] = threads']
  /\ renewed' = IF MsgKind(m) = "new" THEN [renewed EXCEPT ![MsgTopic(m)] = @ + 1] ELSE renewed
  /\ UNCHANGED <<inbound, listeners, instance, permits, posts, split>>

(* threads.create answered: the mapping is stored and saved *)
ThreadCreated(m) ==
  /\ PutThread(m) /\ saved' = topicMap'
  /\ IF MsgKind(m) = "chat" THEN RunIn(m, threads')
     ELSE message' = Outbound(m) /\ UNCHANGED ranIn

(* The save raises: the message ends in an error, the map keeps the thread *)
ThreadNotSaved(m) == PutThread(m) /\ message' = Outbound(m) /\ UNCHANGED <<saved, ranIn>>

(* runs.wait returned *)
RunAnswers(m) ==
  /\ message[m].pc = "running"
  /\ message' = Outbound(m)
  /\ UNCHANGED <<inbound, listeners, instance, permits, topicMap, saved, threads, posts, ranIn,
                 renewed, split>>

(* threads.create or runs.wait raised: _send_error, still with the permit *)
CallFails(m) ==
  /\ message[m].pc \in {"creating", "running"}
  /\ message' = Outbound(m)
  /\ UNCHANGED <<inbound, listeners, instance, permits, topicMap, saved, threads, posts, ranIn,
                 renewed, split>>

(* publish_outbound: each listener's send, whose errors it swallows *)
CanPost(i) == i = instance \/ KeepsClient
NextListener(m) == [message EXCEPT ![m].to = Tail(@), ![m].tries = 0]

Send(m) ==
  /\ message[m].pc = "sending" /\ message[m].to # <<>>
  /\ LET i == Head(message[m].to) IN
     \/ /\ ~CanPost(i) /\ message' = NextListener(m) /\ UNCHANGED posts
     \/ /\ CanPost(i) /\ message' = NextListener(m)
        /\ posts' = [posts EXCEPT ![m] = @ \cup {i}]
     \/ /\ CanPost(i) /\ UNCHANGED posts
        /\ message' = IF message[m].tries + 1 < MaxSends
                        THEN [message EXCEPT ![m].tries = @ + 1] ELSE NextListener(m)
  /\ UNCHANGED <<inbound, listeners, instance, permits, topicMap, saved, threads, ranIn, renewed,
                 split>>

\* The end of the task: the semaphore is left.
Finish(m) ==
  /\ message[m].pc = "sending" /\ message[m].to = <<>>
  /\ message' = [message EXCEPT ![m] = [Unsent EXCEPT !.pc = "done"]]
  /\ permits' = permits + 1
  /\ UNCHANGED <<inbound, listeners, instance, topicMap, saved, threads, posts, ranIn,
                 renewed, split>>

(* unsubscribe_outbound removes the callback that `is` its argument; every     *)
(* self._on_outbound is another bound method, so nothing is removed.          *)
Unsubscribed(i) == listeners

(* restart_channel: the instance stops, and a new one starts; or fails to *)
RestartChannel ==
  /\ LET fresh == 1 + (IF instance > Len(listeners) THEN instance ELSE Len(listeners)) IN
     \/ /\ instance' = fresh
        /\ listeners' = Append(Unsubscribed(instance), fresh)
     \/ /\ instance' = 0
        /\ listeners' = Unsubscribed(instance)
  /\ UNCHANGED <<inbound, permits, message, topicMap, saved, threads, posts, ranIn,
                 renewed, split>>

(* The process stops: the queue and the tasks are gone, the file is read again *)
ChRestart ==
  /\ inbound' = <<>> /\ permits' = MaxConcurrency
  /\ message' = [m \in Msgs |->
       IF message[m].pc \in {"unsent", "done"} THEN message[m]
       ELSE [Unsent EXCEPT !.pc = "lost"]]
  /\ instance' = 1 /\ listeners' = <<1>>
  /\ topicMap' = saved
  /\ split' = split \cup {t \in Topics : saved[t] = NoThread /\ ranIn[t] # {}}
  /\ UNCHANGED <<saved, threads, posts, ranIn, renewed>>

Serve(m) == Begin(m) \/ ThreadCreated(m) \/ ThreadNotSaved(m) \/ RunAnswers(m) \/ CallFails(m)
            \/ Send(m) \/ Finish(m)
ChStep == Dispatch \/ \E m \in Msgs : Serve(m)
ChFairness == WF_channels(Dispatch) /\ \A m \in Msgs : SF_channels(Serve(m))
-----------------------------------------------------------------------------
(* Every message taken in is served to its end, whatever fails on the way,   *)
(* unless the process stops: no failure keeps a permit of the semaphore.     *)
EveryMessageIsServed == \A m \in Msgs :
  message[m].pc = "queued" ~> message[m].pc \in {"done", "lost"}

(* The chats of a topic run in one thread, across restarts of the channel    *)
(* and of the process, but for those a /new began, for a topic for which two *)
(* threads were being made at the same time, and for one whose thread was     *)
(* never saved and is forgotten by a restart.                                *)
OneThreadPerTopic == \A t \in Topics \ ({"none"} \cup split) :
  Cardinality(ranIn[t]) <= 1 + renewed[t]

(* "Remove a previously registered outbound callback": a reply is not posted *)
(* through an instance that was stopped.                                     *)
AnsweredOnce == \A m \in Msgs : Cardinality(posts[m]) <= 1
=============================================================================
