---------------------------- MODULE EmbeddedClient ----------------------------
(* CapyHomeClient (backend/src/client.py): an agent in the caller's own      *)
(* process.  It keeps the agent it built while the turn's parameters stay    *)
(* the same, drops it when it saves settings, and turns the snapshots of the *)
(* thread that the agent yields into one event for each message.             *)
EXTENDS ExtensionsFile, Sequences

CONSTANT Params       \* what the agent's key is made of: model, mode, thread, text

VARIABLES agent,      \* the agent: its key, and the client's saves before it was built
          conversation,     \* the checkpointed messages, each its number's [type, text]
          streaming,  \* a stream is being read
          emitted,    \* the messages it has yielded an event for, in order
          turns       \* history: where the thread stood when the stream began

client == <<agent, conversation, streaming, emitted, turns>>

NoAgent == [key |-> "none", saves |-> {}]
ClientSaves == {s \in Saves : OfClient(Kind(s)) /\ saver[s].pc \in {"reload", "restat", "over"}}
Types == {"human", "ai", "tool"}

ClTypeOK ==
  /\ agent.key \in Params \cup {"none"} /\ agent.saves \subseteq Saves
  /\ conversation \in Seq([type : Types, text : BOOLEAN]) /\ emitted \in Seq(Nat)
  /\ streaming \in BOOLEAN /\ turns \in Nat

ClInit == /\ agent = NoAgent /\ conversation = <<>> /\ streaming = FALSE
          /\ emitted = <<>> /\ turns = 0

\* One snapshot: every message whose id this stream has not seen yet.
Emit(messages, before) ==
  LET seen == {before[i] : i \in 1 .. Len(before)}
      yielded[n \in 0 .. Len(messages)] ==
        IF n = 0 THEN before
        ELSE IF n \in seen THEN yielded[n - 1] ELSE Append(yielded[n - 1], n)
  IN  yielded[Len(messages)]

\* _ensure_agent, and the first snapshot, which ends with the message of the user.
\* Nothing of the thread is seen yet: also its older messages get their event.
StreamBegins(p) ==
  LET messages == Append(conversation, [type |-> "human", text |-> TRUE])
  IN /\ ~streaming /\ Len(conversation) + 2 <= load.messages
     /\ agent' = IF agent.key = p THEN agent ELSE [key |-> p, saves |-> ClientSaves]
     /\ streaming' = TRUE /\ turns' = Len(messages)
     /\ conversation' = messages /\ emitted' = Emit(messages, <<>>)
     /\ UNCHANGED settings

\* A further snapshot: the model's message, or a tool's.
Grows(type, text) ==
  /\ streaming /\ Len(conversation) < load.messages
  /\ (type = "tool") => conversation[Len(conversation)].type # "human" /\ text
  /\ conversation' = Append(conversation, [type |-> type, text |-> text])
  /\ emitted' = Emit(conversation', emitted)
  /\ UNCHANGED <<agent, streaming, turns, settings>>

StreamEnds == /\ streaming /\ Len(conversation) > turns
              /\ streaming' = FALSE
              /\ UNCHANGED <<agent, conversation, emitted, turns, settings>>

\* update_mcp_config and update_skill: the agent goes once the file is replaced.
AgentDropped ==
  agent' = IF \E s \in Saves : OfClient(Kind(s)) /\ saver[s].pc = "write" /\ saver'[s].pc = "reload"
           THEN NoAgent ELSE agent

ClNext ==
  \/ \E p \in Params : StreamBegins(p)
  \/ \E text \in BOOLEAN : Grows("ai", text) \/ Grows("tool", text)
  \/ StreamEnds
  \/ StNext /\ AgentDropped /\ UNCHANGED <<conversation, streaming, emitted, turns>>

-----------------------------------------------------------------------------
\* A stream yields every message of its snapshots once, in the thread's order.
EachMessageOnce == streaming => emitted = [i \in 1 .. Len(conversation) |-> i]

\* An agent that is kept was built after every setting its client saved.
AgentKnowsItsSaves == agent # NoAgent => ClientSaves \subseteq agent.saves

\* chat: the text of the last message of the model that has one.
LastText ==
  LET texts == {i \in 1 .. Len(emitted) : /\ conversation[emitted[i]].type = "ai"
                                          /\ conversation[emitted[i]].text}
  IN IF texts = {} THEN 0 ELSE emitted[CHOOSE i \in texts : \A j \in texts : j <= i]

\* Per chat, what it returns is of this turn, or empty.
AnswersThisTurn == ~streaming /\ emitted # <<>> /\ LastText # 0 => LastText > turns
=============================================================================
