----------------------------- MODULE WorkspaceFork ----------------------------
(* POST /threads/{id}/handoff (backend/src/gateway/routers/handoff.py): the   *)
(* gateway writes a package about a thread into its workspace, copies the     *)
(* workspace to a new thread, and tells the caller of it.  The package and    *)
(* the copy are made without giving up the event loop, so that two handlers   *)
(* do not meet there; the agent of the thread works in another process.       *)
EXTENDS Naturals, FiniteSets

CONSTANTS HfThreads,    \* bound: numbers of threads; 0 is there from the start
          HfRequests,   \* bound: requests
          HfNames,      \* bound: items of a workspace, ".handoff" apart
          MaxEdits      \* bound: what the agents do to the files

ASSUME HfBounds == 0 \in HfThreads /\ MaxEdits \in Nat /\ ".handoff" \notin HfNames

VARIABLES hfFiles,     \* a workspace's files: their version, 0 if there is none
          hfPackages,  \* the packages in its .handoff directory
          hfThread,    \* absent, made, or told to somebody
          hfValues,    \* the version of a thread's state
          hfMeta,      \* the threads whose handoff_meta names the package
          hfHandler,   \* the requests
          hfLoop       \* the requests that hold the event loop

fork == <<hfFiles, hfPackages, hfThread, hfValues, hfMeta, hfHandler, hfLoop>>

\* The texts of a package: those made of the thread's state, and the others.
StateParts == {"project_status", "conversation_context", "recent_messages", "memory",
               "artifacts", "open_items"}
Parts == StateParts \cup {"index", "plan", "handoff_manifest", "workspace_manifest"}

\* A package is from a thread, for a thread, and tells of the state that was seen.
Package(source, target, seen, parts) ==
  [source |-> source, target |-> target, seen |-> seen, parts |-> parts]

HfIdle == [pc |-> "new", source |-> 0, target |-> 0, seen |-> 0, items |-> {}]

HfInit ==
  /\ hfFiles = [t \in HfThreads |-> [n \in HfNames |-> IF t = 0 THEN 1 ELSE 0]]
  /\ hfPackages = [t \in HfThreads |-> {}]
  /\ hfThread = [t \in HfThreads |-> IF t = 0 THEN "told" ELSE "absent"]
  /\ hfValues = [t \in HfThreads |-> 0]
  /\ hfMeta = {} /\ hfLoop = {}
  /\ hfHandler = [r \in HfRequests |-> HfIdle]

At(r, pc) == hfHandler[r].pc = pc
GoOn(r, pc) == hfHandler' = [hfHandler EXCEPT ![r].pc = pc]
LoopIsFree == hfLoop = {}
Source(r) == hfHandler[r].source
Target(r) == hfHandler[r].target
-----------------------------------------------------------------------------
HandoffStarts(r) ==
  /\ At(r, "new") /\ LoopIsFree
  /\ \A q \in HfRequests : q < r => ~At(q, "new")
  /\ \E t \in HfThreads :
       /\ hfThread[t] = "told"
       /\ hfHandler' = [hfHandler EXCEPT ![r].pc = "read", ![r].source = t]
  /\ UNCHANGED <<hfFiles, hfPackages, hfThread, hfValues, hfMeta, hfLoop>>

\* The thread and its state are fetched.
HandoffReads(r) ==
  /\ At(r, "read") /\ LoopIsFree
  /\ hfHandler' = [hfHandler EXCEPT ![r].pc = "create", ![r].seen = hfValues[Source(r)]]
  /\ UNCHANGED <<hfFiles, hfPackages, hfThread, hfValues, hfMeta, hfLoop>>

HandoffCreates(r) ==
  /\ At(r, "create") /\ LoopIsFree
  /\ \E t \in HfThreads :
       /\ hfThread[t] = "absent" /\ \A u \in HfThreads : u < t => hfThread[u] # "absent"
       /\ hfThread' = [hfThread EXCEPT ![t] = "made"]
       /\ hfHandler' = [hfHandler EXCEPT ![r].pc = "title", ![r].target = t]
  /\ UNCHANGED <<hfFiles, hfPackages, hfValues, hfMeta, hfLoop>>

\* The title is set, there is none, or the server refuses it for now.
HandoffTitles(r) == /\ At(r, "title") /\ LoopIsFree /\ GoOn(r, "pack")
                    /\ UNCHANGED <<hfFiles, hfPackages, hfThread, hfValues, hfMeta, hfLoop>>

\* Mutant: the package is written beside the event loop, as a thread would
PackAside(r) ==
  /\ At(r, "pack") /\ LoopIsFree /\ GoOn(r, "manifest")
  /\ hfPackages' = [hfPackages EXCEPT ![Source(r)] =
       {Package(Source(r), Target(r), hfHandler[r].seen, Parts \ {"workspace_manifest"})}]
  /\ UNCHANGED <<hfFiles, hfThread, hfValues, hfMeta, hfLoop>>

\* The packages there are go; the texts of the new one are written.
PackStarts(r) ==
  /\ At(r, "pack") /\ LoopIsFree /\ hfLoop' = {r} /\ GoOn(r, "manifest")
  /\ hfPackages' = [hfPackages EXCEPT ![Source(r)] =
       {Package(Source(r), Target(r), hfHandler[r].seen, Parts \ {"workspace_manifest"})}]
  /\ UNCHANGED <<hfFiles, hfThread, hfValues, hfMeta>>

\* The manifest of the workspace comes last; then the items to copy are listed.
PackEnds(r) ==
  /\ At(r, "manifest")
  /\ hfPackages' = [hfPackages EXCEPT ![Source(r)] = {[p EXCEPT !.parts = Parts] : p \in @}]
  /\ hfHandler' = [hfHandler EXCEPT ![r].pc = "copy",
       ![r].items = {".handoff"} \cup {n \in HfNames : hfFiles[Source(r)][n] > 0}]
  /\ UNCHANGED <<hfFiles, hfThread, hfValues, hfMeta, hfLoop>>

\* One item after the other, as it is by then; one that is gone is an error.
CopyItem(r) ==
  /\ At(r, "copy")
  /\ \E n \in hfHandler[r].items :
       /\ n # ".handoff" => hfFiles[Source(r)][n] > 0
       /\ hfHandler' = [hfHandler EXCEPT ![r].items = @ \ {n}]
       /\ IF n = ".handoff"
          THEN /\ hfPackages' = [hfPackages EXCEPT ![Target(r)] = @ \cup hfPackages[Source(r)]]
               /\ UNCHANGED hfFiles
          ELSE /\ hfFiles' = [hfFiles EXCEPT ![Target(r)][n] = hfFiles[Source(r)][n]]
               /\ UNCHANGED hfPackages
  /\ UNCHANGED <<hfThread, hfValues, hfMeta, hfLoop>>

CopyEnds(r) ==
  /\ At(r, "copy") /\ hfHandler[r].items = {} /\ hfLoop' = hfLoop \ {r} /\ GoOn(r, "meta")
  /\ UNCHANGED <<hfFiles, hfPackages, hfThread, hfValues, hfMeta>>

\* handoff_meta is stored in the state or the metadata, or in neither; the
\* caller is told in each case.
HandoffAnswers(r) ==
  /\ At(r, "meta") /\ LoopIsFree /\ GoOn(r, "done")
  /\ hfThread' = [hfThread EXCEPT ![Target(r)] = "told"]
  /\ hfMeta' \in {hfMeta, hfMeta \cup {Target(r)}}
  /\ UNCHANGED <<hfFiles, hfPackages, hfValues, hfLoop>>

\* A call is refused, or an item is gone: the answer is an error, and nothing
\* is cleaned up.
HandoffFails(r) ==
  /\ \/ LoopIsFree /\ hfHandler[r].pc \in {"read", "create", "title", "meta"}
     \/ At(r, "copy") /\ \E n \in hfHandler[r].items \cap HfNames : hfFiles[Source(r)][n] = 0
  /\ hfLoop' = hfLoop \ {r} /\ GoOn(r, "failed")
  /\ UNCHANGED <<hfFiles, hfPackages, hfThread, hfValues, hfMeta>>

\* The gateway dies.
HfRestart ==
  /\ hfHandler' = [r \in HfRequests |-> IF hfHandler[r].pc \in {"new", "done", "failed"}
                                        THEN hfHandler[r] ELSE [hfHandler[r] EXCEPT !.pc = "failed"]]
  /\ hfLoop' = {}
  /\ UNCHANGED <<hfFiles, hfPackages, hfThread, hfValues, hfMeta>>

\* The agent of a thread people know writes or removes a file; its state follows.
AgentEdits ==
  /\ \E t \in HfThreads, n \in HfNames :
       /\ hfThread[t] = "told" /\ hfValues[t] < MaxEdits
       /\ \/ hfFiles' = [hfFiles EXCEPT ![t][n] = @ + 1]
          \/ hfFiles[t][n] > 0 /\ hfFiles' = [hfFiles EXCEPT ![t][n] = 0]
       /\ hfValues' = [hfValues EXCEPT ![t] = @ + 1]
  /\ UNCHANGED <<hfPackages, hfThread, hfMeta, hfHandler, hfLoop>>

HandlerStep(r) == \/ HandoffReads(r) \/ HandoffCreates(r) \/ HandoffTitles(r)
                  \/ PackStarts(r) \/ PackEnds(r) \/ CopyItem(r) \/ CopyEnds(r)
                  \/ HandoffAnswers(r) \/ HandoffFails(r)
HfStep == \E r \in HfRequests : HandlerStep(r)

\* The HTTP client's timeouts end each call, and the event loop serves everyone.
HfFairness == \A r \in HfRequests : WF_fork(HandlerStep(r))
-----------------------------------------------------------------------------
HfTypeOK ==
  /\ hfThread \in [HfThreads -> {"absent", "made", "told"}] /\ hfMeta \subseteq HfThreads
  /\ hfLoop \subseteq HfRequests /\ Cardinality(hfLoop) <= 1

(* The thread the caller is sent to holds one package, all of it, and it is   *)
(* the one written for it, although another handoff of the same thread empties *)
(* .handoff meanwhile (handoff.py:81-89, 728-733).                             *)
ForkHasItsPackage ==
  [][\A t \in HfThreads : hfThread[t] = "made" /\ hfThread'[t] = "told" =>
       \E p \in hfPackages[t] : /\ hfPackages[t] = {p} /\ p.parts = Parts /\ p.target = t]_fork

(* A request ends, with an answer or an error.                                *)
HandoffEnds == \A r \in HfRequests : At(r, "read") ~> hfHandler[r].pc \in {"done", "failed"}
=============================================================================
