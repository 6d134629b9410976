---------------------------- MODULE ExtensionsFile ----------------------------
(* extensions_config.json (backend/src/config/extensions_config.py): the     *)
(* settings a user edits.  Endpoints of the gateway, an embedded client and  *)
(* an agent process read it through copies they keep, and each endpoint      *)
(* writes the whole file back to change one section: some from their copy    *)
(* and with only the sections they know, some from what is on disk; some     *)
(* into the file, which is empty meanwhile, some through a rename.  No lock. *)
EXTENDS Naturals, FiniteSets

CONSTANTS Saves,          \* bound: the requests to save, each made once
          SettingsLoads   \* bound: what is asked in one behaviour: [kinds, saves,
                          \* asks, mishaps, messages]

Sections == {"mcpServers", "skills", "communityTools", "userModels", "knowledgeVault"}

\* What a request saves, where it runs and what it writes.
SaveKinds == {"mcp", "skill", "curation", "tool", "models", "vault", "clientMcp", "clientSkill"}
ASSUME SettingsBounds ==
  /\ {"empty", "garbled"} \cap Saves = {}
  /\ SettingsLoads \subseteq [kinds : SUBSET SaveKinds, saves : Nat, asks : Nat, mishaps : Nat,
                            messages : Nat]
SectionOf(k) == CASE k \in {"mcp", "clientMcp"} -> "mcpServers"
                  [] k \in {"skill", "curation", "clientSkill"} -> "skills"
                  [] k = "tool" -> "communityTools"
                  [] k = "models" -> "userModels"
                  [] k = "vault" -> "knowledgeVault"
OfClient(k) == k \in {"clientMcp", "clientSkill"}
FromDisk(k) == k \in {"models", "vault"}
Renames(k) == FromDisk(k) \/ OfClient(k)
Mutates(k) == k \in {"skill", "clientSkill"}      \* changes the copy before the file
Kept(k) == IF FromDisk(k) THEN Sections
           ELSE {"mcpServers", "skills"} \cup IF k \in {"mcp", "tool"} THEN {"communityTools"} ELSE {}

\* Handlers on the event loop never interleave with one another, nor do the calls of
\* the client; those of the thread pool do.
Lane(k) == IF OfClient(k) THEN "client" ELSE IF k = "tool" THEN "pool" ELSE "loop"

Readers == {"agent", "mcpTools"}                  \* of the agent process
Copies == {"gateway", "client"} \cup Readers
CopyOf(k) == IF OfClient(k) THEN "client" ELSE "gateway"

Values == Saves \cup {"absent", "first", "$VAR", "value"}
Contents == [Sections -> Values]
Empty == [s \in Sections |-> "empty"]        \* a file just opened for writing
Garbled == [s \in Sections |-> "garbled"]    \* a shorter text over a longer one
Whole(c) == c \notin {Empty, Garbled}
NoCopy == [content |-> Empty, mtime |-> 0]

\* from_file: what names an environment variable becomes its value.
Resolved(c) == [s \in Sections |-> IF c[s] = "$VAR" THEN "value" ELSE c[s]]

VARIABLES doc,       \* the file: its inode, content and modification time
          copy,      \* the copy of each reader, with the time of the file it goes by
          loading,   \* what a reader of the agent process has read and not yet kept
          saver,     \* the requests
          load,      \* what is left of the behaviour's load
          latest,    \* history: what was last saved in each section
          excused,   \* history: sections whose last save may be lost
          torn       \* history: copies whose time is not that of their content

settings == <<doc, copy, loading, saver, load, latest, excused, torn>>

StTypeOK ==
  /\ doc \in [inode : Nat, content : Contents \cup {Empty, Garbled}, mtime : Nat]
  /\ copy \in [Copies -> [content : Contents \cup {Empty}, mtime : Nat]]
  /\ saver \in [Saves -> [pc : {"new", "load", "stat", "write", "writing", "reload", "restat", "over",
                                "failed"},
                          kind : SaveKinds, view : Contents \cup {Empty}, mtime : Nat,
                          inode : Nat, alone : BOOLEAN]]
  /\ loading \in [Readers -> [content : Contents \cup {Empty}, mtime : Nat]]
  /\ load.kinds \subseteq SaveKinds /\ {load.saves, load.asks, load.mishaps} \subseteq Nat
  /\ latest \in Contents /\ excused \subseteq Sections /\ torn \subseteq Copies

StInit ==
  /\ doc = [inode |-> 1, mtime |-> 1,
            content |-> [s \in Sections |-> IF s = "mcpServers" THEN "$VAR" ELSE "first"]]
  /\ copy = [c \in Copies |-> NoCopy] /\ loading = [r \in Readers |-> NoCopy]
  /\ saver = [s \in Saves |-> [pc |-> "new", kind |-> "mcp", view |-> Empty, mtime |-> 0,
                               inode |-> 0, alone |-> TRUE]]
  /\ load \in SettingsLoads /\ latest = doc.content /\ excused = {} /\ torn = {}

At(s, pc) == saver[s].pc = pc
Kind(s) == saver[s].kind
AtWork == {s \in Saves : saver[s].pc \in {"load", "stat", "write", "writing"}}

\* A request comes in.  Those under way are no longer alone, nor is it beside them.
Request(s, k) ==
  /\ load.saves > 0 /\ load' = [load EXCEPT !.saves = @ - 1]
  /\ k \in load.kinds
  /\ At(s, "new") /\ s = CHOOSE o \in Saves : At(o, "new")
  /\ \/ Lane(k) = "pool"
     \/ \A o \in Saves : saver[o].pc \in {"new", "over", "failed"} \/ Lane(Kind(o)) # Lane(k)
  /\ saver' = [o \in Saves |->
       IF o = s THEN [saver[s] EXCEPT !.pc = "load", !.kind = k, !.alone = AtWork = {}]
       ELSE [saver[o] EXCEPT !.alone = @ /\ o \notin AtWork]]
  /\ UNCHANGED <<doc, copy, loading, latest, excused, torn>>

NeverStale(c) == copy[c] = NoCopy                 \* mutated: a copy is kept for good

UpdateMcpConfiguration(s) == Request(s, "mcp")
UpdateSkill(s) == Request(s, "skill") \/ Request(s, "clientSkill")
DisableProposals(s) == Request(s, "curation")
UpdateCommunityTool(s) == Request(s, "tool")
SaveEndpoints(s) == Request(s, "models")
SaveKnowledgeVaultConfig(s) == Request(s, "vault")
UpdateMcpConfig(s) == Request(s, "clientMcp")
Asked(s) == UpdateMcpConfiguration(s) \/ UpdateSkill(s) \/ DisableProposals(s)
            \/ UpdateCommunityTool(s) \/ SaveEndpoints(s)
            \/ SaveKnowledgeVaultConfig(s) \/ UpdateMcpConfig(s)

\* get_extensions_config keeps its copy while the file's time is that of the copy.
Stale(c) == copy[c].mtime # doc.mtime

UseCopy(s) ==
  LET c == CopyOf(Kind(s))
  IN /\ At(s, "load") /\ ~FromDisk(Kind(s)) /\ ~Stale(c)
     /\ saver' = [saver EXCEPT ![s].pc = "write", ![s].view = copy[c].content,
                               ![s].alone = @ /\ c \notin torn]
     /\ UNCHANGED <<doc, copy, loading, load, latest, excused, torn>>

LoadFile(s) ==
  LET c == CopyOf(Kind(s))
  IN /\ At(s, "load") /\ ~FromDisk(Kind(s)) /\ Stale(c)
     /\ copy' = [copy EXCEPT ![c] = NoCopy]
     /\ saver' = IF Whole(doc.content)
                 THEN [saver EXCEPT ![s].pc = "stat", ![s].view = Resolved(doc.content),
                                    ![s].mtime = doc.mtime]
                 ELSE [saver EXCEPT ![s].pc = "failed"]
     /\ UNCHANGED <<doc, loading, load, latest, excused, torn>>

\* Mutant: only the time is renewed.
KeepTime(c, read) ==
  /\ copy' = [copy EXCEPT ![c] = IF @ = NoCopy THEN [content |-> read.content, mtime |-> doc.mtime]
                                 ELSE [@ EXCEPT !.mtime = doc.mtime]]
  /\ torn' = IF read.mtime = doc.mtime THEN torn \ {c} ELSE torn \cup {c}

\* The time is taken after the file was read.
Keep(c, read) ==
  /\ copy' = [copy EXCEPT ![c] = [content |-> read.content, mtime |-> doc.mtime]]
  /\ torn' = IF read.mtime = doc.mtime THEN torn \ {c} ELSE torn \cup {c}

KeepCopy(s) ==
  /\ saver[s].pc \in {"stat", "restat"}
  /\ Keep(CopyOf(Kind(s)), [content |-> saver[s].view, mtime |-> saver[s].mtime])
  /\ saver' = [saver EXCEPT ![s].pc = IF @ = "stat" THEN "write" ELSE "over"]
  /\ UNCHANGED <<doc, loading, load, latest, excused>>

\* _save_extensions_...: a file that is not JSON counts as having no section.
ReadRaw(s) ==
  /\ At(s, "load") /\ FromDisk(Kind(s))
  /\ saver' = [saver EXCEPT ![s].pc = "write",
                 ![s].view = IF Whole(doc.content) THEN doc.content
                             ELSE [x \in Sections |-> "absent"]]
  /\ UNCHANGED <<doc, copy, loading, load, latest, excused, torn>>

\* What a request writes: its section, what it keeps, and none of the others.
Payload(s) == [x \in Sections |-> IF x = SectionOf(Kind(s)) THEN s
                                  ELSE IF x \in Kept(Kind(s)) THEN saver[s].view[x] ELSE "absent"]

\* update_skill changes the very object that is the copy.
Mutated(s) == IF Mutates(Kind(s)) /\ copy[CopyOf(Kind(s))].content = saver[s].view
              THEN [copy EXCEPT ![CopyOf(Kind(s))].content["skills"] = s] ELSE copy

Open(s) ==
  /\ At(s, "write") /\ ~Renames(Kind(s))
  /\ copy' = Mutated(s)
  /\ doc' = [doc EXCEPT !.content = Empty, !.mtime = @ + 1]
  /\ saver' = [saver EXCEPT ![s].pc = "writing", ![s].inode = doc.inode]
  /\ UNCHANGED <<loading, load, latest, excused, torn>>

Written(s) ==
  /\ saver' = [saver EXCEPT ![s].pc = "reload"]
  /\ latest' = [latest EXCEPT ![SectionOf(Kind(s))] = s]
  /\ excused' = IF saver[s].alone
                THEN (excused \cup (Sections \ Kept(Kind(s)))) \ {SectionOf(Kind(s))}
                ELSE Sections

\* Who opened the file writes from its start; a file renamed away takes it along.
Put(s) ==
  /\ At(s, "writing")
  /\ doc' \in IF saver[s].inode # doc.inode THEN {doc}
              ELSE {[doc EXCEPT !.content = c, !.mtime = @ + 1] :
                      c \in {Payload(s)} \cup IF doc.content = Empty THEN {} ELSE {Garbled}}
  /\ Written(s)
  /\ UNCHANGED <<copy, loading, load, torn>>

Rename(s) ==
  /\ At(s, "write") /\ Renames(Kind(s))
  /\ copy' = Mutated(s)
  /\ doc' = [inode |-> doc.inode + 1, content |-> Payload(s), mtime |-> doc.mtime + 1]
  /\ Written(s)
  /\ UNCHANGED <<loading, load, torn>>

\* reload_extensions_config
Reload(s) ==
  /\ At(s, "reload")
  /\ saver' = IF Whole(doc.content)
              THEN [saver EXCEPT ![s].pc = "restat", ![s].view = Resolved(doc.content),
                                 ![s].mtime = doc.mtime]
              ELSE [saver EXCEPT ![s].pc = "over"]
  /\ UNCHANGED <<doc, copy, loading, load, latest, excused, torn>>

Saving(s) == UseCopy(s) \/ LoadFile(s) \/ KeepCopy(s) \/ ReadRaw(s) \/ Open(s) \/ Put(s)
           \/ Rename(s) \/ Reload(s)

Mishap == load.mishaps > 0 /\ load' = [load EXCEPT !.mishaps = @ - 1]

\* The file cannot be opened, or not written to its end.  A copy that was changed
\* before stays changed, and the file that was emptied stays so.
CutShort(s) ==
  /\ Mishap
  /\ saver[s].pc \in {"write", "writing"}
  /\ saver' = [saver EXCEPT ![s].pc = "failed"]
  /\ copy' = IF At(s, "write") THEN Mutated(s) ELSE copy
  /\ torn' = IF At(s, "write") /\ Mutates(Kind(s)) THEN torn \cup {CopyOf(Kind(s))} ELSE torn
  /\ excused' = IF At(s, "writing") THEN Sections ELSE excused
  /\ UNCHANGED <<doc, loading, latest>>

GatewayCrashes ==
  /\ Mishap
  /\ saver' = [s \in Saves |-> IF At(s, "new") \/ OfClient(Kind(s)) THEN saver[s]
                               ELSE [saver[s] EXCEPT !.pc = "over"]]
  /\ copy' = [copy EXCEPT !["gateway"] = NoCopy]
  /\ torn' = torn \ {"gateway"}
  /\ excused' = IF \E s \in Saves : At(s, "writing") THEN Sections ELSE excused
  /\ UNCHANGED <<doc, loading, latest>>

\* The agent process asks for the settings, or for the tools of the MCP servers,
\* which take their time to answer between the file's reading and its time.
Ask(r) ==
  /\ load.asks > 0 /\ load' = [load EXCEPT !.asks = @ - 1]
  /\ loading[r] = NoCopy
  /\ IF Stale(r) THEN /\ copy' = [copy EXCEPT ![r] = NoCopy]
                      /\ loading' = IF Whole(doc.content)
                                    THEN [loading EXCEPT ![r] = [content |-> Resolved(doc.content),
                                                                 mtime |-> doc.mtime]]
                                    ELSE loading
     ELSE UNCHANGED <<copy, loading>>
  /\ UNCHANGED <<doc, saver, latest, excused, torn>>

Answered(r) ==
  /\ loading[r] # NoCopy
  /\ Keep(r, loading[r])
  /\ loading' = [loading EXCEPT ![r] = NoCopy]
  /\ UNCHANGED <<doc, saver, load, latest, excused>>

StNext ==
  \/ \E s \in Saves : Asked(s) \/ Saving(s) \/ CutShort(s)
  \/ GatewayCrashes
  \/ \E r \in Readers : Ask(r) \/ Answered(r)

-----------------------------------------------------------------------------
Same(v, w) == v = w \/ {v, w} = {"$VAR", "value"}

\* Once no request is under way, the file is whole and each section is as it was last
\* saved, by whichever process.  Excused is only what the code gives up: the sections
\* a save does not write at all, and everything after two requests overlapped, one was
\* cut short while it wrote, or one started from a copy that had missed a change.
SerialSavesKeep ==
  AtWork = {} => \A s \in Sections \ excused :
                    Whole(doc.content) /\ Same(doc.content[s], latest[s])

\* A copy that goes by the file's time has the file's content, unless the file
\* changed between the reading and the time, or a save changed the copy and failed.
CopiesCatchUp ==
  \A c \in Copies \ torn : ~Stale(c) => copy[c].content = Resolved(doc.content)

\* Per _save_community_tool_override, enabling a tool updates its section only.
OnlyTheToolsSection ==
  [][\A s \in Saves :
       saver[s].kind = "tool" /\ saver[s].alone /\ saver[s].pc = "writing"
         /\ saver'[s].pc = "reload"
       => \A x \in Sections \ {"communityTools"} : Same(doc'.content[x], latest[x])]_settings
=============================================================================
