----------------------------- MODULE MemoryScope -----------------------------
(* One scope of the long-term memory (backend/src/agents/memory: updater.py  *)
(* and store.py): its JSON file, the index of its facts in SQLite, and the   *)
(* copy that each process caches under the file's modification time.  The    *)
(* gateway edits the memory from its API; the LangGraph process adds the     *)
(* rules that users type and runs the updates of the queue, which take the   *)
(* scope's lock.  No edit takes a lock.                                      *)
(*                                                                           *)
(* get_memory_data returns the cached dict itself, and everybody changes     *)
(* that dict in place: an operation holds either the dict the cache still    *)
(* holds (shared) or one that a later load has replaced in the cache.        *)
EXTENDS Naturals, FiniteSets

CONSTANTS Facts,         \* ids of facts
          Rules,         \* ids of behaviour rules
          Updaters,      \* the threads of the queue
          MaxFacts,      \* config.max_facts
          Workloads      \* bounds: what happens to the scope and to the queue

ASSUME MemoryBounds ==
  /\ MaxFacts \in Nat \ {0}
  /\ Facts \cap Rules = {}
  /\ Updaters \cap {"gateway", "rule"} = {}

Ops == {"gateway", "rule"} \cup Updaters
Entries == Facts \cup Rules
Processes == {"gateway", "langgraph"}
ProcessOf(o) == IF o = "gateway" THEN "gateway" ELSE "langgraph"

VARIABLES file,      \* the memory file: its items, and its modification time
          temp,      \* the temporary file both processes write: none or its items
          index,     \* the facts in memory.db
          cache,     \* _memory_cache of each process
          op,        \* the operation of the gateway, of /memory, of each updater
          crossed,   \* history: a save met another operation, or a step left its work half done
          left       \* what is left of the workload

scope == <<file, temp, index, cache, op, crossed>>

NoTemp == [full |-> FALSE, items |-> {}]
Idle == [pc |-> "idle", kind |-> "none", dict |-> {}, shared |-> FALSE,
         before |-> {}, loaded |-> {}, minus |-> {}, plus |-> {}, ok |-> TRUE]
Kinds == {"update", "rule", "delete", "forget", "upsert", "clear", "redact", "reload"}

ScopeTypeOK ==
  /\ file \in [items : SUBSET Entries, time : Nat]
  /\ temp \in [full : BOOLEAN, items : SUBSET Entries]
  /\ index \subseteq Facts
  /\ cache \in [Processes -> [items : SUBSET Entries, time : Nat]]
  /\ op \in [Ops -> [pc : {"idle", "model", "save", "replace", "load", "stat", "index"},
                     kind : Kinds \cup {"none"}, dict : SUBSET Entries, shared : BOOLEAN,
                     before : SUBSET Entries, loaded : SUBSET Entries,
                     minus : SUBSET Entries, plus : SUBSET Entries, ok : BOOLEAN]]
  /\ crossed \in BOOLEAN

ScopeInit ==
  /\ file = [items |-> {}, time |-> 0]
  /\ temp = NoTemp /\ index = {} /\ crossed = FALSE
  /\ cache = [p \in Processes |-> file]
  /\ op = [o \in Ops |-> Idle]

Content(o) == IF op[o].shared THEN cache[ProcessOf(o)].items ELSE op[o].dict

\* The cache of p gets another dict: those who held the old one keep it.
Detached(p) ==
  [o \in Ops |-> IF op[o].shared /\ ProcessOf(o) = p
                 THEN [op[o] EXCEPT !.shared = FALSE, !.dict = cache[p].items]
                 ELSE op[o]]

\* get_memory_data: the cached dict, unless the file's time has changed.
Cached(p) == IF cache[p].time = file.time THEN cache[p] ELSE file
Holders(p) == IF cache[p].time = file.time THEN op ELSE Detached(p)

\* Ids are fresh (uuid4): nobody holds this one.
Fresh(S) == S \ UNION ({file.items, temp.items, index}
                       \cup {cache[p].items : p \in Processes}
                       \cup {op[o].dict : o \in Ops} \cup {op[o].plus : o \in Ops})
New(S) == IF Fresh(S) = {} THEN {} ELSE {CHOOSE i \in Fresh(S) : TRUE}

\* An edit reads the memory and changes it in the same breath.
Edit(o, kind, minus, plus) ==
  LET p == ProcessOf(o)
      edited == (Cached(p).items \ minus) \cup plus
  IN /\ cache' = [cache EXCEPT ![p] = [Cached(p) EXCEPT !.items = edited]]
     /\ op' = [Holders(p) EXCEPT ![o] = [Idle EXCEPT !.pc = "save", !.kind = kind,
                                                    !.shared = TRUE, !.minus = minus,
                                                    !.plus = plus]]
     /\ UNCHANGED <<file, temp, index, crossed>>

\* add_behavior_rule, called by the middleware that saw "/memory ...".
AddBehaviorRule ==
  /\ op["rule"].pc = "idle" /\ left.rules > 0
  /\ left' = [left EXCEPT !.rules = @ - 1]
  /\ New(Rules) # {} /\ Edit("rule", "rule", {}, New(Rules))

GatewayEdits(kind) ==
  /\ op["gateway"].pc = "idle" /\ kind \in left.edits
  /\ left' = [left EXCEPT !.edits = @ \ {kind}]

DeleteFact ==
  /\ GatewayEdits("delete")
  /\ \E f \in Cached("gateway").items \cap Facts : Edit("gateway", "delete", {f}, {})

ForgetThread ==
  /\ GatewayEdits("forget")
  /\ \E gone \in SUBSET (Cached("gateway").items \cap Facts) \ {{}} :
        Edit("gateway", "forget", gone, {})

UpsertFact ==
  /\ GatewayEdits("upsert")
  /\ New(Facts) # {} /\ Edit("gateway", "upsert", {}, New(Facts))

\* clear_memory saves a new empty dict, redact_memory one it reads from the file:
\* neither looks at the cache.
ClearMemory ==
  /\ GatewayEdits("clear")
  /\ op' = [op EXCEPT !["gateway"] = [Idle EXCEPT !.pc = "save", !.kind = "clear",
                                                 !.minus = Entries]]
  /\ UNCHANGED <<file, temp, index, cache, crossed>>

RedactMemory ==
  /\ GatewayEdits("redact")
  /\ file.time > 0
  /\ \E gone \in SUBSET (file.items \cap Facts) :
        op' = [op EXCEPT !["gateway"] = [Idle EXCEPT !.pc = "save", !.kind = "redact",
                                           !.dict = file.items \ gone, !.minus = gone]]
  /\ UNCHANGED <<file, temp, index, cache, crossed>>

\* reload_memory_data of the gateway: load, then look at the time.  (The same two
\* steps end a save.)
ReloadMemory ==
  /\ op["gateway"].pc = "idle" /\ "reload" \in left.edits
  /\ left' = [left EXCEPT !.edits = @ \ {"reload"}]
  /\ op' = [op EXCEPT !["gateway"] = [Idle EXCEPT !.pc = "load", !.kind = "reload"]]
  /\ UNCHANGED <<file, temp, index, cache, crossed>>

\* update_memory: read, and ask the model.
BeginUpdate(w) ==
  /\ op[w].pc = "idle"
  /\ cache' = [cache EXCEPT !["langgraph"] = Cached("langgraph")]
  /\ op' = [Holders("langgraph") EXCEPT
              ![w] = [Idle EXCEPT !.pc = "model", !.kind = "update", !.shared = TRUE,
                                  !.before = Cached("langgraph").items \cap Facts]]
  /\ UNCHANGED <<file, temp, index, crossed>>

\* _apply_updates: facts are removed, one is added, and those beyond max_facts
\* that are least certain are dropped.
Trimmed(S) == IF Cardinality(S \cap Facts) <= MaxFacts THEN {S}
              ELSE {S \ gone : gone \in {g \in SUBSET (S \cap Facts) :
                                           Cardinality((S \cap Facts) \ g) = MaxFacts}}
Apply(w, items) ==
  /\ op' = [op EXCEPT ![w].pc = "save",
                      ![w].dict = IF op[w].shared THEN @ ELSE items,
                      ![w].minus = Content(w) \ items, ![w].plus = items \ Content(w)]
  /\ cache' = IF op[w].shared THEN [cache EXCEPT !["langgraph"].items = items] ELSE cache

ModelReplies(w) ==
  /\ op[w].pc = "model"
  /\ \E gone \in SUBSET (Content(w) \cap Facts), added \in {{}, New(Facts)} :
        \E items \in Trimmed((Content(w) \ gone) \cup added) : Apply(w, items)
  /\ UNCHANGED <<file, temp, index, crossed, left>>

\* An error of the model or of its JSON: update_memory returns False with the dict as
\* it was (as does a reply digested in part when the cache has another dict by now).
ModelFails(w) ==
  /\ op[w].pc = "model" /\ left.failures > 0
  /\ left' = [left EXCEPT !.failures = @ - 1]
  /\ op' = [op EXCEPT ![w] = Idle]
  /\ UNCHANGED <<file, temp, index, cache, crossed>>

\* A reply that _apply_updates cannot digest to its end: what it did so far is in the
\* dict, and stays in the cache if that is the cached one.
ApplyFails(w) ==
  /\ op[w].pc = "model" /\ op[w].shared /\ left.failures > 0
  /\ left' = [left EXCEPT !.failures = @ - 1]
  /\ \E gone \in SUBSET (Content(w) \cap Facts), added \in {{}, New(Facts)} :
        cache' = [cache EXCEPT !["langgraph"].items = (Content(w) \ gone) \cup added]
  /\ op' = [op EXCEPT ![w] = Idle]
  /\ crossed' = TRUE
  /\ UNCHANGED <<file, temp, index>>

\* What follows a save that failed: these three do not look at its result.
AfterFailure(o) ==
  IF op[o].kind \in {"upsert", "forget", "clear"}
  THEN [op[o] EXCEPT !.pc = "index", !.ok = FALSE] ELSE Idle

\* _write_json: the temporary file, then its rename.
WriteTemp(o) ==
  /\ op[o].pc = "save"
  /\ temp' = [full |-> TRUE, items |-> Content(o)]
  /\ op' = [op EXCEPT ![o].pc = "replace"]
  /\ UNCHANGED <<file, index, cache, crossed, left>>

WriteFails(o) ==
  /\ op[o].pc = "save" /\ left.failures > 0
  /\ left' = [left EXCEPT !.failures = @ - 1]
  /\ op' = [op EXCEPT ![o] = AfterFailure(o)]
  /\ crossed' = TRUE
  /\ UNCHANGED <<file, temp, index, cache>>

Meets(o) == \E x \in Ops \ {o} : /\ op[x].pc # "idle"
                                 /\ ~ {o, x} \subseteq Updaters

Replace(o) ==
  /\ op[o].pc = "replace"
  /\ IF temp.full
     THEN /\ file' = [items |-> temp.items, time |-> file.time + 1]
          /\ temp' = NoTemp
          /\ op' = [op EXCEPT ![o].pc = IF op[o].kind = "redact" THEN "index" ELSE "load"]
          /\ crossed' = (crossed \/ Meets(o))
     ELSE /\ op' = [op EXCEPT ![o] = AfterFailure(o)]
          /\ crossed' = TRUE
          /\ UNCHANGED <<file, temp>>
  /\ UNCHANGED <<index, cache, left>>

\* _save_memory_to_file, after the write: the file is loaded again, and cached
\* under the time it has by then.
Load(o) ==
  /\ op[o].pc = "load"
  /\ op' = [op EXCEPT ![o].pc = "stat", ![o].loaded = file.items]
  /\ UNCHANGED <<file, temp, index, cache, crossed, left>>

Stat(o) ==
  LET p == ProcessOf(o)
      held == Detached(p)
  IN /\ op[o].pc = "stat"
     /\ cache' = [cache EXCEPT ![p] = [items |-> op[o].loaded, time |-> file.time]]
     /\ op' = [held EXCEPT ![o] = IF op[o].kind \in {"rule", "reload"} THEN Idle
                                  ELSE [held[o] EXCEPT !.pc = "index", !.loaded = {}]]
     /\ UNCHANGED <<file, temp, index, crossed, left>>

\* The index of the facts follows: the stale ones go, then those there are come.
Outdated(o) == IF op[o].kind = "update" THEN op[o].before \ (Content(o) \cap Facts)
               ELSE op[o].minus

Index(o) ==
  /\ op[o].pc = "index"
  /\ index' = CASE op[o].kind = "delete" -> index \ Outdated(o)
                [] op[o].kind = "upsert" -> index \cup op[o].plus
                [] op[o].kind = "clear"  -> {}
                [] OTHER -> (index \ Outdated(o)) \cup (Content(o) \cap Facts)
  /\ op' = [op EXCEPT ![o] = Idle]
  /\ UNCHANGED <<file, temp, cache, crossed, left>>

\* SQLite refuses the first of the two writes or, where there are two, the second.
IndexFails(o) ==
  /\ op[o].pc = "index" /\ left.failures > 0
  /\ left' = [left EXCEPT !.failures = @ - 1]
  /\ index' \in IF op[o].kind \in {"update", "forget", "redact"}
                THEN {index, index \ Outdated(o)} ELSE {index}
  /\ op' = [op EXCEPT ![o] = Idle]
  /\ crossed' = TRUE
  /\ UNCHANGED <<file, temp, cache>>

Save(o) == WriteTemp(o) \/ Replace(o) \/ Load(o) \/ Stat(o) \/ Index(o)

ScopeNext ==
  \/ AddBehaviorRule
  \/ DeleteFact \/ ForgetThread \/ UpsertFact
  \/ ClearMemory \/ RedactMemory \/ ReloadMemory
  \/ \E w \in Updaters : ModelReplies(w) \/ ModelFails(w) \/ ApplyFails(w)
  \/ \E o \in Ops : Save(o) \/ WriteFails(o) \/ IndexFails(o)

-----------------------------------------------------------------------------
\* A save changes what its operation changed and nothing else, as long as no edit
\* met an update and nothing was left half done (a save or a write of the index that
\* failed, a reply that was digested in part: the next save of the process stores
\* what these left in its cache).  The updates of the queue, which ask a model
\* between their read and their save, never undo each other.
NoLostUpdate ==
  [][\A o \in Ops : op[o].pc = "replace" /\ file' # file /\ op'[o].pc # "replace" /\ ~crossed'
        => file'.items = (file.items \ op[o].minus) \cup op[o].plus]_scope

\* On the same condition, when nothing is under way the index holds the facts of
\* the file, and a cache that goes by the file's time has the file's content.
RestIsConsistent ==
  ~crossed /\ (\A o \in Ops : op[o].pc = "idle") =>
     /\ index = file.items \cap Facts
     /\ \A p \in Processes : Cached(p).items = file.items
=============================================================================
