----------------------------- MODULE ToolCatalog -----------------------------
(* The tools an agent is given (tools/tools.py, tools/loader.py,             *)
(* mcp/tools.py): those of config.yaml, of the catalog file of its mode, the *)
(* built-in ones without an entry there, and those of MCP servers.  Agents   *)
(* are built beside one another in one process and share the tool objects,   *)
(* while the gateway saves the switches of single tools.                     *)
EXTENDS Naturals, Sequences, FiniteSets, Functions

CONSTANTS ToolNames,   \* the tools looked at, some of those below
          Builders,    \* agents that are built
          BuildKinds,  \* what they may ask for: [by, mode, groups, subagent, vision]
          Servers,     \* MCP server -> [tools, excluded, hidden]
          Breakable,   \* tools whose handler may fail to resolve
          MaxSwitches  \* bound: saves of a switch

ASSUME ToolCatalogAssumption == MaxSwitches \in Nat

VARIABLES switch,   \* [on, saving, saves]: communityTools of extensions_config.json
          catalog,  \* good, bad or missing: the file of the mode
          broken,   \* tools whose handler does not resolve
          wording,  \* tool -> whose description its object carries: code, plan, work
          mcpTools, \* [loaded, tools]: the cache of the MCP tools
          target,   \* whether search_internal_documents has a tool to delegate to
          build     \* each builder, see Built

surface == <<switch, catalog, broken, wording, mcpTools, target, build>>

Here(names) == SelectSeq(names, LAMBDA n : n \in ToolNames)

\* The two catalog files, BUILTIN_TOOLS, the tools of config.yaml with their group.
PlanEntries == Here(<<"ask_user_for_clarification", "present_files", "recall", "setup_agent",
                      "view_image", "write_todos", "ls", "read_file">>)
WorkEntries == Here(<<"ask_user_for_clarification", "present_files", "recall", "setup_agent", "task",
                      "view_image", "write_todos", "bash", "ls", "read_file", "write_file", "str_replace">>)
BuiltinTools == Here(<<"present_files", "ask_user_for_clarification", "recall", "write_todos",
                       "web_search", "query_knowledge_vault", "save_to_knowledge_vault">>)
ConfigTools == Here(<<"ls", "read_file", "write_file", "str_replace", "bash",
                      "comfyui_generate", "query_knowledge_vault">>)
GroupOf(n) == IF n \in {"ls", "read_file"} THEN "file:read"
              ELSE IF n \in {"write_file", "str_replace"} THEN "file:write"
              ELSE IF n = "bash" THEN "bash" ELSE IF n = "comfyui_generate" THEN "media" ELSE "vault"

\* _resolve_internal_tools_path: anything but plan is work.
ModeOf(kind) == IF kind.mode = "plan" THEN "plan" ELSE "work"
Entries(kind) == IF catalog = "missing" THEN <<>>
                 ELSE IF ModeOf(kind) = "plan" THEN PlanEntries ELSE WorkEntries

\* _COMMUNITY_TOOL_MODES
NotInPlan == {"query_knowledge_vault", "save_to_knowledge_vault", "bash", "write_file",
             "str_replace", "comfyui_generate"}
AllowedInMode(n, kind) == ModeOf(kind) = "plan" => n \notin NotInPlan

\* _get_community_tool_enabled: on unless the file says otherwise and can be read.
Enabled(n) == switch.saving \/ n \in switch.on

NoKind == [by |-> "none", mode |-> "none", groups |-> {}, subagent |-> FALSE, vision |-> FALSE]
Idle == [kind |-> NoKind, at |-> "idle", rest |-> <<>>, config |-> <<>>, mcp |-> <<>>,
         entries |-> <<>>, carried |-> <<>>, offered |-> <<>>, some |-> {}, always |-> {}]
Places == {"idle", "config", "mcp", "entries", "carry", "merge", "dedupe", "done"}

Tool(n, from) == [name |-> n, from |-> from]
NamesIn(list) == {list[i].name : i \in 1 .. Len(list)}

TcTypeOK ==
  /\ switch.on \subseteq ToolNames /\ switch.saving \in BOOLEAN /\ switch.saves \in 0 .. MaxSwitches
  /\ catalog \in {"good", "bad", "missing"} /\ broken \subseteq Breakable
  /\ wording \in [ToolNames -> {"code", "plan", "work"}]
  /\ target \in BOOLEAN
  /\ \A b \in Builders : build[b].at \in Places /\ build[b].always \subseteq build[b].some

TcInit ==
  /\ switch = [on |-> ToolNames, saving |-> FALSE, saves |-> 0]
  /\ catalog \in {"good", "bad", "missing"} /\ broken \in SUBSET Breakable
  /\ wording = [n \in ToolNames |-> "code"]
  /\ mcpTools = [loaded |-> FALSE, tools |-> <<>>] /\ target = FALSE
  /\ build = [b \in Builders |-> Idle]

----------------------------------------------------------------------------
(* The switches, saved by the gateway: the file is empty while it is written. *)

\* What the builds under way may have read of the switches.
Watched(on) ==
  [b \in Builders |-> IF build[b].at \in {"idle", "done"} THEN build[b]
                      ELSE [build[b] EXCEPT !.some = @ \cup on, !.always = @ \cap on]]

SwitchStarts(n) ==
  /\ ~ switch.saving /\ switch.saves < MaxSwitches
  /\ switch' = [on |-> IF n \in switch.on THEN switch.on \ {n} ELSE switch.on \cup {n},
                saving |-> TRUE, saves |-> switch.saves + 1]
  /\ build' = Watched(ToolNames)
  /\ UNCHANGED <<catalog, broken, wording, mcpTools, target>>
SwitchEnds ==
  /\ switch.saving
  /\ switch' = [switch EXCEPT !.saving = FALSE] /\ build' = Watched(switch.on)
  /\ UNCHANGED <<catalog, broken, wording, mcpTools, target>>

----------------------------------------------------------------------------
(* get_mcp_tools: servers without exclusions are asked together, the others  *)
(* one by one; what fails is left out.                                       *)

Excluding == {s \in DOMAIN Servers : Servers[s].excluded # {}}
\* The adapters' list of a server, less what is excluded for that server.
Served(s) == SelectSeq([i \in 1 .. Len(Servers[s].tools) |-> [name |-> Servers[s].tools[i], server |-> s]],
                       LAMBDA t : t.name \notin Servers[s].excluded)

Proxy == [name |-> "search_internal_documents", server |-> "none"]

LoadMcpTools ==
  /\ ~ mcpTools.loaded
  /\ \E bulk \in BOOLEAN, answered \in SUBSET Excluding :
       LET asked == answered \cup IF bulk THEN DOMAIN Servers \ Excluding ELSE {}
           tools == MapThenFoldSet(\o, <<>>, Served, LAMBDA S : CHOOSE s \in S : TRUE, asked)
           found == "search_indexed_documents" \in NamesIn(tools)
       IN /\ mcpTools' = [loaded |-> TRUE, tools |-> IF found THEN <<Proxy>> \o tools ELSE tools]
          /\ target' = found
  /\ UNCHANGED <<switch, catalog, broken, wording, build>>

\* reset_mcp_tools_cache, when the settings file is newer.
McpReset ==
  /\ mcpTools.loaded /\ switch.saves > 0
  /\ mcpTools' = [loaded |-> FALSE, tools |-> <<>>]
  /\ UNCHANGED <<switch, catalog, broken, wording, target, build>>

----------------------------------------------------------------------------
(* get_available_tools, one tool considered at a time.                       *)

On == IF switch.saving THEN ToolNames ELSE switch.on

Begin(b, kind) ==
  /\ build[b].at = "idle"
  /\ build' = [build EXCEPT ![b] = [Idle EXCEPT !.kind = kind, !.at = "config", !.rest = ConfigTools,
                                                !.some = On, !.always = On]]
  /\ UNCHANGED <<switch, catalog, broken, wording, mcpTools, target>>

\* Mutated: the tools of config.yaml are given in every mode.
ConfigAdmitsAnyMode(n, kind) == (kind.groups = {"all"} \/ GroupOf(n) \in kind.groups) /\ Enabled(n)

ConfigAdmits(n, kind) ==
  /\ kind.groups = {"all"} \/ GroupOf(n) \in kind.groups
  /\ Enabled(n) /\ AllowedInMode(n, kind)

ConsiderConfig(b) ==
  /\ build[b].at = "config" /\ build[b].rest # <<>>
  /\ LET n == Head(build[b].rest)
     IN build' = [build EXCEPT ![b].rest = Tail(@),
                               ![b].config = @ \o IF ConfigAdmits(n, build[b].kind)
                                                  THEN <<Tool(n, "config")>> ELSE <<>>]
  /\ UNCHANGED <<switch, catalog, broken, wording, mcpTools, target>>

\* filter_mcp_tools_by_policy as it is called: only whether the agent may delegate counts.
McpAdmits(t, kind) == t.server # "none" /\ kind.subagent => ~ Servers[t.server].hidden

TakeMcpTools(b) ==
  /\ build[b].at = "config" /\ build[b].rest = <<>> /\ mcpTools.loaded
  /\ LET kind == build[b].kind
         kept == SelectSeq(mcpTools.tools, LAMBDA t : McpAdmits(t, kind))
     IN build' = [build EXCEPT ![b].mcp = [i \in 1 .. Len(kept) |-> Tool(kept[i].name, "mcp")],
                               ![b].at = IF catalog = "bad" THEN "merge" ELSE "entries",
                               ![b].rest = IF catalog = "bad" THEN <<>> ELSE Entries(kind),
                               ![b].carried = IF catalog # "bad" THEN <<>>
                                 ELSE [i \in 1 .. Len(BuiltinTools) |-> Tool(BuiltinTools[i], "code")]
                                      \o IF kind.subagent THEN <<Tool("task", "code")>> ELSE <<>>]
  /\ UNCHANGED <<switch, catalog, broken, wording, mcpTools, target>>

EntryAdmits(n, kind) ==
  /\ n = "task" => kind.subagent
  /\ n = "view_image" => kind.vision
  /\ Enabled(n)

\* What an admitted entry adds: its tool, unless the handler does not resolve.
EntryMade(n) == IF n \in broken THEN <<>> ELSE <<Tool(n, "entry")>>

\* build_structured_tool writes the description on the object all agents share.
ConsiderEntry(b) ==
  /\ build[b].at = "entries" /\ build[b].rest # <<>>
  /\ LET n == Head(build[b].rest)
         admitted == EntryAdmits(n, build[b].kind)
     IN /\ build' = [build EXCEPT ![b].rest = Tail(@),
                                  ![b].entries = @ \o IF admitted THEN EntryMade(n) ELSE <<>>]
        /\ wording' = IF admitted /\ n \notin broken
                      THEN [wording EXCEPT ![n] = ModeOf(build[b].kind)] ELSE wording
  /\ UNCHANGED <<switch, catalog, broken, mcpTools, target>>

EntriesDone(b) ==
  /\ build[b].at = "entries" /\ build[b].rest = <<>>
  /\ build' = [build EXCEPT ![b].at = "carry", ![b].rest = BuiltinTools]
  /\ UNCHANGED <<switch, catalog, broken, wording, mcpTools, target>>

Taken(b) == NamesIn(build[b].entries)

ConsiderBuiltin(b) ==
  /\ build[b].at = "carry" /\ build[b].rest # <<>>
  /\ LET n == Head(build[b].rest)
         carry == n \notin Taken(b) /\ Enabled(n) /\ AllowedInMode(n, build[b].kind)
     IN build' = [build EXCEPT ![b].rest = Tail(@),
                               ![b].carried = @ \o IF carry THEN <<Tool(n, "code")>> ELSE <<>>]
  /\ UNCHANGED <<switch, catalog, broken, wording, mcpTools, target>>

\* SUBAGENT_TOOLS come last, whatever the mode and the switch.
BuiltinsDone(b) ==
  /\ build[b].at = "carry" /\ build[b].rest = <<>>
  /\ build' = [build EXCEPT ![b].at = "merge",
                 ![b].carried = @ \o IF build[b].kind.subagent /\ "task" \notin NamesIn(build[b].entries)
                                     THEN <<Tool("task", "code")>> ELSE <<>>]
  /\ UNCHANGED <<switch, catalog, broken, wording, mcpTools, target>>

\* The lists one after the other; the first tool of each name is kept.
Merge(b) ==
  /\ build[b].at = "merge"
  /\ build' = [build EXCEPT ![b].at = "dedupe",
                 ![b].rest = build[b].entries \o build[b].carried \o build[b].config \o build[b].mcp]
  /\ UNCHANGED <<switch, catalog, broken, wording, mcpTools, target>>

KeepFirst(b) ==
  /\ build[b].at = "dedupe" /\ build[b].rest # <<>>
  /\ LET tool == Head(build[b].rest)
     IN build' = [build EXCEPT ![b].rest = Tail(@),
                    ![b].offered = IF tool.name \in NamesIn(@) THEN @ ELSE Append(@, tool)]
  /\ UNCHANGED <<switch, catalog, broken, wording, mcpTools, target>>

Offer(b) ==
  /\ build[b].at = "dedupe" /\ build[b].rest = <<>>
  /\ build' = [build EXCEPT ![b].at = "done"]
  /\ UNCHANGED <<switch, catalog, broken, wording, mcpTools, target>>

TcNext ==
  \/ \E n \in ToolNames : SwitchStarts(n)
  \/ SwitchEnds \/ LoadMcpTools \/ McpReset
  \/ \E b \in Builders :
       \/ \E kind \in BuildKinds : Begin(b, kind)
       \/ ConsiderConfig(b) \/ TakeMcpTools(b) \/ ConsiderEntry(b) \/ EntriesDone(b)
       \/ ConsiderBuiltin(b) \/ BuiltinsDone(b) \/ Merge(b) \/ KeepFirst(b) \/ Offer(b)

TcSpec == TcInit /\ [][TcNext]_surface

----------------------------------------------------------------------------
(* Properties. *)

Complete == {b \in Builders : build[b].at = "done"}
Own(b) == {t \in {build[b].offered[i] : i \in 1 .. Len(build[b].offered)} : t.from # "mcp"}

\* While the catalog file can be read, whatever list a tool comes from, an agent is only
\* given tools of its mode that were switched on at some time while it was built, and
\* those for images and delegation only if it has these (tools.py:34-52, 117-126).  The
\* delegation tool itself is given whatever its switch.
OfferedIsAllowed ==
  catalog # "bad" =>
    \A b \in Complete : \A t \in Own(b) :
      /\ t.name \in NotInPlan => ModeOf(build[b].kind) = "work"
      /\ t.name \in build[b].some \/ t.name = "task"
      /\ t.name = "task" => build[b].kind.subagent
      /\ t.name = "view_image" => build[b].kind.vision

\* A handler that does not resolve costs the agent nothing it has elsewhere: every
\* built-in tool of its mode that was on all along is there, and every sound entry
\* (_build_builtin_tools_from_json: a single bad entry never breaks the agent).
NothingAllowedIsMissing ==
  \A b \in Complete :
    LET kind == build[b].kind
        sound == IF catalog = "good" THEN Range(Entries(kind)) \ broken ELSE {}
        due == {n \in Range(BuiltinTools) : AllowedInMode(n, kind)}
               \cup {n \in sound : (n = "task" => kind.subagent) /\ (n = "view_image" => kind.vision)}
    IN due \cap build[b].always \subseteq NamesIn(build[b].offered)

\* A model is never offered two tools of one name, and no MCP server takes the name of a
\* tool the agent has of its own.
OneToolPerName ==
  \A b \in Complete : LET offered == build[b].offered
                   IN /\ \A i, j \in 1 .. Len(offered) : offered[i].name = offered[j].name => i = j
                      /\ \A i \in 1 .. Len(offered) : offered[i].from = "mcp"
                           => offered[i].name \notin NamesIn(build[b].entries \o build[b].carried
                                                             \o build[b].config)

\* The offer of a model: nothing it may not have, nothing missing, no name twice.
OfferIsSound == OfferedIsAllowed /\ NothingAllowedIsMissing /\ OneToolPerName

\* Claim of _resolve_internal_tools_path ("without coupling the two surfaces",
\* tools.py:24-29); TLC refutes it: an agent of the other mode that is built meanwhile
\* rewrites the descriptions this one sends.
ContractOfItsMode ==
  \A b \in Complete : \A t \in Own(b) : t.from = "entry" => wording[t.name] = ModeOf(build[b].kind)

\* Claim of docs/custom-agents.md:35 ("Restrict tools to specific groups"); TLC refutes
\* it: the catalog's tools are given whatever the groups.
WithinGroups ==
  \A b \in Complete : build[b].kind.groups # {"all"} =>
    \A t \in Own(b) : t.name \in Range(ConfigTools) => GroupOf(t.name) \in build[b].kind.groups

\* Claim of McpServerPolicy.subagent_visible; TLC refutes it: the filter is told whether
\* the agent may delegate, which a subagent may not.
HiddenFromSubagents ==
  \A b \in Complete : build[b].kind.by = "subagent" =>
    \A i \in 1 .. Len(build[b].offered) : \A s \in DOMAIN Servers :
      Servers[s].hidden /\ build[b].offered[i].name \in Range(Servers[s].tools)
        => build[b].offered[i].from # "mcp"

=============================================================================
