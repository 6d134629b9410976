----------------------------- MODULE MCUserFiles -----------------------------
(* The two files of a user that several processes read and write: the        *)
(* memory, with the queue of its updates, and the settings, with the client  *)
(* that saves them and is built from them.                                   *)
EXTENDS MemoryQueue, EmbeddedClient, TLC

allVars == <<memory, settings, client>>

AllTypeOK == MemoryTypeOK /\ StTypeOK /\ ClTypeOK

\* A behaviour either works on the memory or on the settings.
AllInit == /\ MemoryInit /\ StInit /\ ClInit
           /\ (load.kinds = {}) <=> (\E t \in Threads : left.turns[t] > 0)

AllNext == \/ MemoryNext /\ UNCHANGED <<settings, client>>
           \/ load.kinds # {} /\ ClNext /\ UNCHANGED memory

AllSpec == AllInit /\ [][AllNext]_allVars /\ MemoryFairness

\* Index, queue, file and copies say the same once those at work on them are done.
FilesAreSound == /\ AllTypeOK /\ RestIsConsistent /\ NoStrandedEntry
                 /\ SerialSavesKeep /\ CopiesCatchUp /\ EachMessageOnce /\ AgentKnowsItsSaves

\* An update is neither written over nor left in the queue.
UpdatesSurvive == NoLostUpdate /\ EveryTurnIsDigested

------------------------------------------------------------------------------
(* Its instance for TLC.                                                     *)

CONSTANTS t1, t2, f1, f2, r1, r2, i1, s1, s2, s3

MCFacts == {f1, f2}
MCRules == {r1, r2}
MCThreads == {t1, t2}
MCImmediates == {i1}
MCUpdaters == {"batch", i1}

Load0 == [turns |-> [t \in {t1, t2} |-> 0], immediates |-> 0, rules |-> 0, edits |-> {},
          failures |-> 0]

\* None, for the settings; two conversations, with a summarization; and the edits that meet their updates.
MCWorkloads ==
  { Load0,
    [Load0 EXCEPT !.turns = (t1 :> 2 @@ t2 :> 1), !.immediates = 1],
    [Load0 EXCEPT !.turns = (t1 :> 1 @@ t2 :> 0), !.rules = 2],
    [Load0 EXCEPT !.turns = (t1 :> 1 @@ t2 :> 1), !.edits = {"delete"}],
    [Load0 EXCEPT !.turns = (t1 :> 2 @@ t2 :> 0), !.edits = {"forget"}],
    [Load0 EXCEPT !.turns = (t1 :> 1 @@ t2 :> 0), !.edits = {"upsert", "reload"}, !.failures = 1],
    [Load0 EXCEPT !.turns = (t1 :> 1 @@ t2 :> 0), !.edits = {"clear", "redact"}] }

MCSaves == {s1, s2, s3}
MCParams == {"p", "q"}
Nothing == [kinds |-> {}, saves |-> 0, asks |-> 0, mishaps |-> 0, messages |-> 0]

\* The endpoints that meet in the gateway; the client with its saves, the agents'
\* copies, and a save from the disk; a save that is cut short; a client's thread.
MCSettingsLoads ==
  { Nothing,
    [Nothing EXCEPT !.kinds = {"tool", "models"}, !.saves = 3],
    [Nothing EXCEPT !.kinds = {"mcp", "tool", "skill"}, !.saves = 2],
    [Nothing EXCEPT !.kinds = {"clientMcp", "clientSkill", "vault"}, !.saves = 2, !.asks = 1],
    [Nothing EXCEPT !.kinds = {"skill", "tool", "curation"}, !.saves = 2, !.mishaps = 1],
    [Nothing EXCEPT !.kinds = {"clientSkill"}, !.saves = 1, !.messages = 5] }
MCNoMemory == {Load0}
MCOneSave == {[Nothing EXCEPT !.kinds = {"tool"}, !.saves = 1]}
==============================================================================
