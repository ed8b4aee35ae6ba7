----------------------------- MODULE AgentBuild -----------------------------
(***************************************************************************)
(* How an agent is assembled, and assembled again (agent.py, with          *)
(* middleware/bootstrap.py and subagents/loader.py).                       *)
(*                                                                         *)
(* _init_graph() reads the configuration, the MCP tools and the marker of  *)
(* the onboarding in several steps, compiles a graph of them, and hands it *)
(* to the protocols, which have each a copy.  It runs to its end on the    *)
(* event loop, where a turn that completes the onboarding calls it; a host *)
(* that adds MCP tools, changes the callbacks or rescans the subagents may *)
(* call it on a thread.  A turn keeps the graph it began with.             *)
(*                                                                         *)
(* Of a configuration are kept: what holds the checkpoints, whether there  *)
(* is an onboarding and a hook for its end, a gate of approvals, MCP       *)
(* servers, ask_user_question, subagents from the workspace, files of      *)
(* memory only after the onboarding (bare), and the middlewares it adds.   *)
(* Tools that come with the configuration alone are ParentTools.           *)
(***************************************************************************)
EXTENDS Naturals, FiniteSets, SequencesExt

CONSTANTS
    Configs,       \* [saver, onboarding, hook, gates, servers, ask, loads, bare, extras]
    Callers,       \* calls of a host
    CallerAsks,    \* [Callers -> [kind, tools]]: "append", "replace", "reload" or "callbacks"
    Onboarders,    \* turns
    TurnProtocol,  \* [Onboarders -> ProtocolNames]
    ProtocolNames,
    WarmProtocol,  \* the default, made when the agent is
    FirstMcpTools, \* sequence of names, loaded when the agent is made
    ParentTools,   \* tools of the agent besides ask_user_question and the MCP tools
    NoGraph,
    MaxToggles, MaxFailures  \* bounds

Assemblers == Callers \cup Onboarders
AskTool == "ask_user_question"
NoConn == 0

VARIABLES
    options,     \* the configuration
    mcpTools, mcpNames,  \* _mcp_tools, _mcp_tool_name_set
    callbacks,   \* Langfuse's are bound
    askOff,      \* ask_user_question is in tools_disabled
    marker,      \* .bootstrapped is there
    baseGraph, graph,
    inHand,      \* the builds of _context_usage_mw and _summarization_mw, and the connection of _checkpointer_instance
    protocols,   \* [ProtocolNames -> graph, or NoGraph]
    assembly,    \* of an assembler: where it is, and what it has read
    onboarding,  \* of a turn: where it is, its graph, and the graph its protocol is made with
    aware,       \* bootstrap middlewares (by their builds) that know the marker is there
    conns, conn, \* connections that are open; the current one
    built,       \* number of builds
    toggles, failures,
    settled      \* history: an undisturbed build is the last thing that happened

assemblyVars == <<options, mcpTools, mcpNames, callbacks, askOff, marker, baseGraph, graph, inHand, protocols,
    assembly, onboarding, aware, conns, conn, built, toggles, failures, settled>>

NotBegun == [at |-> "idle"]
OverWith(alone) == [at |-> "done", alone |-> alone]

-----------------------------------------------------------------------------
(* What a graph is made of *)

\* is_bootstrapped()
Bootstrapped == ~options.onboarding \/ marker

\* Variant with a fault: decided as if the onboarding were over.
ApprovesAlways == options.gates

\* _resolve_interrupt_on(): onboarding writes files, so nothing has to be approved before its end.
Approves == options.gates /\ Bootstrapped

AskActive == options.ask /\ ~askOff

\* Variant with a fault: tools are searched before they are filtered.
ChainOrderSearch == <<"router", "tool_search", "tools_filter", "media_offload", "memory", "context_usage">>

\* _build_middleware(), _init_graph(): the order of the chain ...
ChainOrder == <<"todos", "memory_files", "bootstrap", "router", "model_settings", "session_header", "skill_filter",
    "mcp_tool_error", "tool_guard", "filesystem_guard", "mcp_tools", "retry", "pii", "media_offload", "checkpoint_ts",
    "memory", "user", "team", "conversation_mode", "tools_filter", "decision", "tool_search", "task_last",
    "context_usage">>

Standing == {"memory_files", "router", "model_settings", "session_header", "skill_filter", "mcp_tool_error",
    "filesystem_guard", "checkpoint_ts", "conversation_mode", "tools_filter", "context_usage"}

\* ... and what is there of it.
Chain(g) ==
    LET there == Standing \cup options.extras \cup (IF g.boot THEN {"bootstrap"} ELSE {})
                 \cup (IF options.servers THEN {"mcp_tools"} ELSE {})
    IN SelectSeq(ChainOrder, LAMBDA m : m \in there)

\* Variant with a fault: subagents have the tools of their agent.
SubagentToolsAll(tools, names) == tools

\* _resolve_subagents(), of a subagent that inherits the tools.
SubagentTools(tools, names) == tools \ (names \cup {AskTool})

\* _init_graph() up to _build_tools(): the files of memory and the tools.
ReadTools(n) == [no |-> n, files |-> ~options.bare \/ Bootstrapped, mcp |-> mcpTools, mounted |-> AskActive]

AgentTools(g) == ParentTools \cup ToSet(g.mcp) \cup (IF g.mounted THEN {AskTool} ELSE {})

\* _build_middleware(): the names of MCP tools that its filters know, and the bootstrap middleware.
ReadChain(g) == [hides |-> mcpNames, boot |-> ~Bootstrapped] @@ g

\* _build_graph(): the connection, the subagents (one that inherits) and the interrupts.
ReadRest(g, c) ==
    [conn |-> c, gated |-> AskActive, approves |-> Approves,
     subagents |-> IF options.loads THEN SubagentTools(AgentTools(g), mcpNames) ELSE {}] @@ g

\* _wrap_graph()
Wrapped(g, bound) == [bound |-> bound] @@ g

\* _init_mcp(): a server that fails leaves the agent without MCP tools.
InitMcp ==
    /\ mcpTools \in (IF options.servers THEN {FirstMcpTools, <<>>} ELSE {<<>>})
    /\ mcpNames = ToSet(mcpTools)

FirstGraph == [alone |-> TRUE] @@ ReadRest(ReadChain(ReadTools(1)), conn)

\* HarnessAgent.__init__
AssemblyInit ==
    /\ options \in Configs /\ InitMcp
    /\ callbacks = FALSE /\ askOff \in BOOLEAN /\ marker \in BOOLEAN
    /\ conn \in (IF options.saver = "own" THEN {NoConn, 1} ELSE {NoConn}) /\ conns = {conn} \ {NoConn}
    /\ baseGraph = FirstGraph /\ graph = Wrapped(baseGraph, FALSE)
    /\ inHand = [usage |-> 1, summary |-> 1, saver |-> conn]
    /\ protocols = [p \in ProtocolNames |-> IF p = WarmProtocol THEN graph ELSE NoGraph]
    /\ assembly = [a \in Assemblers |-> NotBegun]
    /\ onboarding = [t \in Onboarders |-> NotBegun]
    /\ aware = {} /\ built = 1 /\ toggles = 0 /\ failures = 0 /\ settled = TRUE

-----------------------------------------------------------------------------
(* Building *)

Stands(a, place) == assembly[a].at = place
UnderWay(a) == assembly[a].at \notin {"idle", "done"}

\* An assembler goes on; what it changes disturbs every other one that is under way.
GoesOn(a, rec, disturbs) ==
    assembly' = [b \in Assemblers |-> IF b = a THEN rec
                    ELSE IF disturbs /\ UnderWay(b) THEN [assembly[b] EXCEPT !.alone = FALSE] ELSE assembly[b]]

Assembling == \E a \in Assemblers : UnderWay(a)
Started == [at |-> "tools", alone |-> ~Assembling, g |-> NoGraph, todo |-> {}, size |-> 0, news |-> <<>>, whole |-> TRUE]
NamesNow == ToSet(mcpTools)
LeaveGraphs == UNCHANGED <<baseGraph, graph, inHand, protocols, aware, conns, conn, built>>
LeaveTools  == UNCHANGED <<options, mcpTools, mcpNames>>
LeaveRest   == UNCHANGED <<onboarding, toggles, failures>>

\* Variant with a fault: a tool that is there already is added once more.
FreshAll(tools) == tools

\* append_mcp_tools(): the tools that are new, by their names.
FreshTools(tools) == SelectSeq(tools, LAMBDA t : t \notin NamesNow)

\* The first half of append_mcp_tools() and replace_mcp_tools(): the new list is worked out.
AskForTools(a) ==
    /\ a \in Callers /\ Stands(a, "idle") /\ CallerAsks[a].kind \in {"append", "replace"}
    /\ LET append == CallerAsks[a].kind = "append"
           news   == IF append THEN FreshTools(CallerAsks[a].tools) ELSE CallerAsks[a].tools
       IN /\ append => news # <<>>
          /\ GoesOn(a, [Started EXCEPT !.at = "list", !.news = IF append THEN news \o mcpTools ELSE news], FALSE)
    /\ LeaveTools /\ LeaveGraphs /\ LeaveRest /\ UNCHANGED <<callbacks, askOff, marker, settled>>

\* It becomes the list, and then its names.
StoreTools(a) ==
    /\ Stands(a, "list")
    /\ mcpTools' = assembly[a].news
    /\ GoesOn(a, [assembly[a] EXCEPT !.at = "names"], TRUE)
    /\ settled' = FALSE
    /\ LeaveGraphs /\ LeaveRest /\ UNCHANGED <<options, mcpNames, callbacks, askOff, marker>>

StoreNames(a) ==
    /\ Stands(a, "names")
    /\ mcpNames' = NamesNow
    /\ GoesOn(a, [assembly[a] EXCEPT !.at = "tools"], TRUE)
    /\ LeaveGraphs /\ LeaveRest /\ UNCHANGED <<options, mcpTools, callbacks, askOff, marker, settled>>

\* reload_subagents()
AskForReload(a) ==
    /\ a \in Callers /\ Stands(a, "idle") /\ CallerAsks[a].kind = "reload"
    /\ GoesOn(a, Started, FALSE)
    /\ LeaveTools /\ LeaveGraphs /\ LeaveRest /\ UNCHANGED <<callbacks, askOff, marker, settled>>

\* set_langfuse_callbacks(): the compiled graph is wrapped anew.
AskForCallbacks(a) ==
    /\ a \in Callers /\ Stands(a, "idle") /\ CallerAsks[a].kind = "callbacks"
    /\ callbacks' = ~callbacks
    /\ GoesOn(a, [Started EXCEPT !.at = "wrap", !.g = baseGraph, !.whole = settled], TRUE)
    /\ settled' = FALSE
    /\ LeaveTools /\ LeaveGraphs /\ LeaveRest /\ UNCHANGED <<askOff, marker>>

BuildTools(a) ==
    /\ Stands(a, "tools")
    /\ built' = built + 1
    /\ GoesOn(a, [assembly[a] EXCEPT !.at = "chain", !.g = ReadTools(built')], FALSE)
    /\ LeaveTools /\ LeaveRest
    /\ UNCHANGED <<callbacks, askOff, marker, baseGraph, graph, inHand, protocols, aware, conns, conn, settled>>

\* The agent has the new middleware of the context usage from here on, its
\* graph later.
BuildChain(a) ==
    /\ Stands(a, "chain")
    /\ inHand' = [inHand EXCEPT !.usage = assembly[a].g.no]
    /\ GoesOn(a, [assembly[a] EXCEPT !.at = "rest", !.g = ReadChain(@)], TRUE)
    /\ settled' = FALSE
    /\ LeaveTools /\ LeaveRest
    /\ UNCHANGED <<callbacks, askOff, marker, baseGraph, graph, protocols, aware, conns, conn, built>>

\* Variant with a fault: the connection that is replaced is closed.
OpenConnClosing(n) == conn' = n /\ conns' = (conns \ {conn}) \cup {n}

\* _resolve_checkpointer(), if neither the configuration nor the memory is the
\* checkpointer: every build opens a connection, and forgets the one before,
\* which the graphs of running turns go on using.
OpenConn(n) == conn' = n /\ conns' = conns \cup {n}

\* A connection that cannot be opened leaves the build without a checkpointer.
BuildRest(a) ==
    /\ Stands(a, "rest")
    /\ \E c \in {NoConn, assembly[a].g.no} :
          /\ IF c = NoConn THEN UNCHANGED <<conn, conns>> ELSE OpenConn(c)
          /\ IF options.saver # "own" THEN c = NoConn /\ failures' = failures
             ELSE IF c = NoConn THEN failures < MaxFailures /\ failures' = failures + 1 ELSE failures' = failures
          /\ inHand' = [inHand EXCEPT !.saver = c]
          /\ GoesOn(a, [assembly[a] EXCEPT !.at = "compile", !.g = ReadRest(@, c)], TRUE)
    /\ settled' = FALSE
    /\ LeaveTools /\ UNCHANGED <<callbacks, askOff, marker, baseGraph, graph, protocols, aware, built, onboarding, toggles>>

\* create_deep_agent(), under a lock, as what it makes summaries with is caught on the way.
CompileGraph(a) ==
    /\ Stands(a, "compile")
    /\ baseGraph' = [alone |-> assembly[a].alone] @@ assembly[a].g
    /\ inHand' = [inHand EXCEPT !.summary = assembly[a].g.no]
    /\ GoesOn(a, [assembly[a] EXCEPT !.at = "wrap", !.g = NoGraph], TRUE)
    /\ settled' = FALSE
    /\ LeaveTools /\ LeaveRest /\ UNCHANGED <<callbacks, askOff, marker, graph, protocols, aware, conns, conn, built>>

\* A build fails where the graph is compiled; of the callers only the onboarding hides it.
FailBuild(a) ==
    /\ Stands(a, "compile") /\ failures < MaxFailures
    /\ failures' = failures + 1
    /\ GoesOn(a, OverWith(assembly[a].alone), FALSE)
    /\ settled' = FALSE
    /\ LeaveTools /\ LeaveGraphs /\ UNCHANGED <<callbacks, askOff, marker, onboarding, toggles>>

Cached == {p \in ProtocolNames : protocols[p] # NoGraph}

\* The graph is wrapped, that of set_langfuse_callbacks() as it was read, and
\* about to be handed to the protocols.
Install(a) ==
    /\ Stands(a, "wrap")
    /\ graph' = Wrapped(IF assembly[a].g = NoGraph THEN baseGraph ELSE assembly[a].g, callbacks)
    /\ GoesOn(a, [assembly[a] EXCEPT !.at = "sync", !.todo = Cached, !.size = Cardinality(Cached)], TRUE)
    /\ settled' = FALSE
    /\ LeaveTools /\ LeaveRest
    /\ UNCHANGED <<callbacks, askOff, marker, baseGraph, inHand, protocols, aware, conns, conn, built>>

\* Variant with a fault: the protocols keep their graphs.
SyncedNever(p) == protocols

Synced(p) == [protocols EXCEPT ![p] = graph]

\* _sync_protocol_graph(): the dictionary must not grow under its loop.
SyncProtocol(a) ==
    /\ Stands(a, "sync")
    /\ IF Cardinality(Cached) # assembly[a].size
         THEN GoesOn(a, OverWith(assembly[a].alone), FALSE) /\ settled' = FALSE /\ protocols' = protocols
       ELSE IF assembly[a].todo = {}
         THEN GoesOn(a, OverWith(assembly[a].alone), FALSE) /\ protocols' = protocols
               /\ settled' = (assembly[a].alone /\ assembly[a].whole)
       ELSE \E p \in assembly[a].todo :
              /\ protocols' = Synced(p)
              /\ GoesOn(a, [assembly[a] EXCEPT !.todo = @ \ {p}], TRUE)
              /\ settled' = FALSE
    /\ LeaveTools /\ LeaveRest /\ UNCHANGED <<callbacks, askOff, marker, baseGraph, graph, inHand, aware, conns, conn, built>>

Assemble(a) ==
    \/ AskForTools(a) \/ AskForReload(a) \/ AskForCallbacks(a)
    \/ StoreTools(a) \/ StoreNames(a)
    \/ BuildTools(a) \/ BuildChain(a) \/ BuildRest(a) \/ CompileGraph(a) \/ FailBuild(a) \/ Install(a) \/ SyncProtocol(a)

-----------------------------------------------------------------------------
(* Turns *)

LeaveBuild == LeaveTools /\ UNCHANGED <<callbacks, baseGraph, graph, inHand, conns, conn, built, failures>>
Disturb == assembly' = [b \in Assemblers |-> IF UnderWay(b) THEN [assembly[b] EXCEPT !.alone = FALSE] ELSE assembly[b]]
SetTurn(t, rec) == onboarding' = [onboarding EXCEPT ![t] = rec]

\* _get_protocol(): a protocol that is missing is made with the graph of now ...
MakeProtocol(t) ==
    /\ onboarding[t].at = "idle" /\ protocols[TurnProtocol[t]] = NoGraph
    /\ SetTurn(t, [at |-> "made", g |-> graph])
    /\ LeaveBuild /\ UNCHANGED <<askOff, marker, protocols, assembly, aware, toggles, settled>>

\* ... and remembered.
KeepProtocol(t) ==
    /\ onboarding[t].at = "made"
    /\ protocols' = [protocols EXCEPT ![TurnProtocol[t]] = onboarding[t].g]
    /\ settled' = (settled /\ onboarding[t].g = graph)
    /\ Disturb
    /\ SetTurn(t, NotBegun)
    /\ LeaveBuild /\ UNCHANGED <<askOff, marker, aware, toggles>>

BeginRun(t) ==
    /\ onboarding[t].at = "idle" /\ protocols[TurnProtocol[t]] # NoGraph
    /\ SetTurn(t, [at |-> "running", g |-> protocols[TurnProtocol[t]]])
    /\ LeaveBuild /\ UNCHANGED <<askOff, marker, protocols, assembly, aware, toggles, settled>>

\* The model writes the marker itself; somebody else may, too.
WriteMarker(t) ==
    /\ onboarding[t].at = "running" /\ options.onboarding /\ ~marker
    /\ marker' = TRUE /\ settled' = FALSE /\ Disturb
    /\ LeaveBuild /\ UNCHANGED <<askOff, protocols, onboarding, aware, toggles>>

\* Variant with a fault: nothing is built when the onboarding ends.
AfterOnboardingNone(t) == Disturb

\* _on_bootstrap_complete(): with a hook the host has to see to it.
AfterOnboarding(t) ==
    assembly' = [b \in Assemblers |-> IF b = t /\ ~options.hook THEN Started
                    ELSE IF UnderWay(b) THEN [assembly[b] EXCEPT !.alone = FALSE] ELSE assembly[b]]

\* BootstrapMiddleware.is_bootstrapped: asked when it was made, and remembered.
Knows(g) == g.boot => g.no \in aware

\* after_agent(), of a turn whose last message is an answer, or which has
\* written the marker: the middleware that took part in it, and does not know
\* the marker, completes the onboarding.  Other turns leave things as they are.
FinishRun(t) ==
    /\ onboarding[t].at = "running" /\ Stands(t, "idle")
    /\ SetTurn(t, [at |-> "done"])
    /\ LET g == onboarding[t].g IN
       IF ~Knows(g)
         THEN \/ /\ marker' = TRUE /\ aware' = aware \cup {g.no}
                 /\ AfterOnboarding(t) /\ settled' = FALSE
              \/ UNCHANGED <<marker, aware, assembly, settled>>
         ELSE UNCHANGED <<marker, aware, assembly, settled>>
    /\ LeaveBuild /\ UNCHANGED <<askOff, protocols, toggles>>

\* set_tools_disabled(): in force at once, for what the model is shown.
ToggleAsk ==
    /\ toggles < MaxToggles
    /\ toggles' = toggles + 1 /\ askOff' = ~askOff /\ Disturb
    /\ LeaveBuild /\ UNCHANGED <<marker, protocols, onboarding, aware, settled>>

TakeTurn(t) == MakeProtocol(t) \/ KeepProtocol(t) \/ BeginRun(t) \/ WriteMarker(t) \/ FinishRun(t)

AssemblyNext == (\E a \in Assemblers : Assemble(a)) \/ (\E t \in Onboarders : TakeTurn(t)) \/ ToggleAsk

AssemblySpec == AssemblyInit /\ [][AssemblyNext]_assemblyVars

-----------------------------------------------------------------------------
AssemblyTypeOK ==
    /\ ToSet(mcpTools) \subseteq ToSet(FirstMcpTools) \cup UNION {ToSet(CallerAsks[c].tools) : c \in Callers}
    /\ options \in Configs /\ {callbacks, askOff, marker, settled} \subseteq BOOLEAN
    /\ {graph.no, baseGraph.no, inHand.usage, inHand.summary} \subseteq 1..built
    /\ {conn, inHand.saver} \subseteq conns \cup {NoConn} /\ conns \subseteq 1..built
    /\ \A p \in ProtocolNames : protocols[p] = NoGraph \/ protocols[p].no \in 1..built
    /\ \A a \in Assemblers : assembly[a].at \in {"idle", "list", "names", "tools", "chain", "rest", "compile",
           "wrap", "sync", "done"}
    /\ \A t \in Onboarders : onboarding[t].at \in {"idle", "made", "running", "done"}
    /\ aware \subseteq 1..built

\* Every protocol has the graph, the graph is what the configuration, the
\* tools and the marker ask for, and the parts that the agent holds are of it.
UpToDate ==
    /\ mcpNames = NamesNow /\ graph.mcp = mcpTools /\ graph.hides = mcpNames
    /\ graph.bound = callbacks
    /\ \A p \in ProtocolNames : protocols[p] \in {NoGraph, graph}
    /\ graph.approves = Approves /\ graph.boot = ~Bootstrapped /\ graph.files = (~options.bare \/ Bootstrapped)
    /\ inHand = [usage |-> graph.no, summary |-> graph.no, saver |-> graph.conn]

\* A build that nothing disturbs brings everything up to date, whatever was
\* left behind by builds that crossed or failed before it.
BuildSettles == settled => UpToDate

\* The marker is there, and the middleware of the onboarding, which has seen
\* that it was not, waits for a turn to end.
Unnoticed == marker /\ ~Knows(graph)

\* While nothing but the event loop calls, and no build fails, every change is
\* followed by the build it needs.  (append_mcp_tools, _on_bootstrap_complete)
LoopKeepsUp ==
    ~Assembling /\ failures = 0 /\ ~options.hook /\ ~Unnoticed
        /\ (\A t \in Onboarders : onboarding[t].at # "made") => settled

\* A tool that was appended stays until the list is replaced, and is there
\* once; two calls that crossed excepted.
AppendedStays ==
    LET over(c) == IF Stands(c, "done") THEN assembly[c].alone ELSE FALSE IN
    /\ (\A c \in Callers : Stands(c, "idle") \/ over(c)) =>
           IsInjective(mcpTools)
    /\ (\A c \in Callers : CallerAsks[c].kind = "replace" => Stands(c, "idle")) =>
           \A c \in Callers : over(c) /\ CallerAsks[c].kind = "append" =>
               ToSet(CallerAsks[c].tools) \subseteq NamesNow \/ \E d \in Callers :
                   UnderWay(d) \/ ~(Stands(d, "idle") \/ over(d))

\* A turn runs on a graph that fits together, whatever is built meanwhile:
\* ask_user_question is there with the interrupt that brings it to a human,
\* MCP tools with the filter that hides them, if servers are configured,
\* loaded subagents have neither, the onboarding needs no approval and has
\* none of the files it is to write, and checkpoints can be written.  A graph
\* whose build was disturbed need not.
TurnGraphFits ==
    \A t \in Onboarders : onboarding[t].at = "running" =>
        LET g == onboarding[t].g IN
        /\ g.conn \in conns \cup {NoConn}
        /\ g.alone =>
             /\ g.mounted => g.gated
             /\ ToSet(g.mcp) \subseteq g.hides
             /\ g.subagents \cap (ToSet(g.mcp) \cup {AskTool}) = {}
             /\ g.boot => ~g.approves /\ (options.bare => ~g.files)

\* What is hidden from the model is hidden before tools are offered for a
\* search, and counted as it is sent; personal data goes before media are
\* taken out, and media before a turn is remembered.
ChainIsOrdered ==
    LET chain == Chain(graph)
        Before(ms, n) == \A j \in DOMAIN chain : chain[j] = n => ms \cap ToSet(SubSeq(chain, j, Len(chain))) = {}
    IN /\ Before({"mcp_tools", "user", "team", "conversation_mode", "tools_filter"}, "tool_search")
       /\ Before({"pii"}, "media_offload") /\ Before({"media_offload"}, "memory")
       /\ Last(chain) = "context_usage"

AssemblyHolds == BuildSettles /\ AppendedStays /\ TurnGraphFits /\ ChainIsOrdered

-----------------------------------------------------------------------------
(***************************************************************************)
(* Two things an agent works out while it is assembled: where its          *)
(* workspace is, on the host and for the model, and which subagents the    *)
(* manifests in the workspace and the configuration give it.  No state:    *)
(* the variables are the inputs.                                           *)
(*                                                                         *)
(* A path is the sequence of its folders.  A manifest is a file that was   *)
(* found under a root, [source, id, valid, tools].                         *)
(***************************************************************************)
CONSTANTS
    PathsDrawn, OctopFolder,  \* configured paths, ".octop"
    MountsDrawn, NoRoot,      \* [kind, root, virtual]: "spec" of a local backend, or only its "name", or an object "store"
    ManifestsDrawn,           \* sequences of manifests, root after root
    ConfiguredDrawn,          \* sequences of subagents [id, tools] in the configuration
    AutoLoads,                \* subagents_auto_load: a set of Booleans
    InheritTools, McpNamesDrawn

VARIABLES configured, mount, manifests, specs, autoLoad

draftVars == <<configured, mount, manifests, specs, autoLoad>>

DraftInit ==
    \/ configured \in PathsDrawn /\ mount \in MountsDrawn /\ manifests = <<>> /\ specs = <<>> /\ autoLoad = TRUE
    \/ /\ configured = <<>> /\ mount = [kind |-> "store", root |-> NoRoot, virtual |-> FALSE]
       /\ manifests \in ManifestsDrawn /\ specs \in ConfiguredDrawn /\ autoLoad \in AutoLoads

\* "/", or below "/.octop/"
ForAgents(path) == path = <<>> \/ (Len(path) > 1 /\ Head(path) = OctopFolder)

\* _peek_backend_mount() before there is a backend: only a specification says where it is.
NoMount == [root |-> NoRoot, virtual |-> FALSE]
SpecMount == IF mount.kind = "spec" THEN [root |-> mount.root, virtual |-> mount.virtual] ELSE NoMount

\* Variant with a fault: the path is taken as one of the host.
HostPathAsIs(path, at) == path

\* _host_workspace_path()
HostPath(path, at) ==
    IF at.virtual /\ at.root \notin {NoRoot, <<>>} /\ ForAgents(path) THEN at.root \o path ELSE path

\* _build_backend(): a local backend without a root gets the workspace for one.
BuiltMount ==
    IF mount.kind = "store" THEN NoMount
    ELSE [root |-> IF mount.root = NoRoot THEN HostPath(configured, SpecMount) ELSE mount.root, virtual |-> mount.virtual]

\* HarnessAgent.__init__ works it out again when there is a backend.
Workspace == HostPath(configured, BuiltMount)

\* remote_workspace_virtual_root()
FolderInStore(ws) ==
    IF Len(ws) > 1 /\ Head(ws) = OctopFolder THEN ws
    ELSE <<OctopFolder, "workspaces", IF ws = <<>> THEN "workspace" ELSE Last(ws)>>

\* _agent_visible_workspace_dir()
Visible ==
    IF ForAgents(configured) THEN configured
    ELSE IF mount.kind = "store" THEN FolderInStore(Workspace)
    ELSE IF BuiltMount.virtual /\ IsPrefix(BuiltMount.root, Workspace)
           THEN SubSeq(Workspace, Len(BuiltMount.root) + 1, Len(Workspace))
    ELSE Workspace

\* Where a path of the model's is, in the backend: deepagents' virtual mode puts it under the root.
FoundAt(p) == IF BuiltMount.virtual THEN BuiltMount.root \o p ELSE p

\* The file tools find the workspace where the model is told it is, and where
\* the agent keeps its sessions and memories.  Two workspaces are not where
\* they seem: one of the host beside the root of a virtual backend, and the
\* whole of an object store.
WorkspaceIsFound ==
    \/ (mount.virtual /\ ~ForAgents(configured) /\ ~IsPrefix(BuiltMount.root, configured))
    \/ (mount.kind = "store" /\ configured = <<>>)
    \/ FoundAt(Visible) = IF mount.kind = "store" THEN FolderInStore(Workspace) ELSE Workspace

\* The backend, made after the workspace was first placed, does not move it;
\* except that a path for agents is put under itself when no root is given,
\* or under a root that only the backend knows of.
WorkspaceStays ==
    \/ Workspace = HostPath(configured, SpecMount)
    \/ (ForAgents(configured) /\ mount.virtual /\ (mount.root = NoRoot \/ mount.kind = "name"))

-----------------------------------------------------------------------------
\* Puts a subagent in a dictionary, kept as a sequence: a known id keeps its place.
PutSpec(s, x) ==
    IF \E i \in DOMAIN s : s[i].id = x.id THEN [i \in DOMAIN s |-> IF s[i].id = x.id THEN x ELSE s[i]] ELSE Append(s, x)

PutSpecs(s, xs) == FoldLeft(PutSpec, s, xs)

\* resolve_subagent_tools(): unknown names are passed over.
KnownTools(tools, parents) == IF tools = InheritTools THEN InheritTools ELSE SelectSeq(tools, LAMBDA t : t \in parents)

\* Variant with a fault: a file that two roots reach is taken twice.
ReadEach(found) == found

\* load_subagents_from_workspace(): a file that two roots reach is read once.
ReadOnce(found) ==
    LET first(i) == \A j \in 1..i - 1 : found[j].source # found[i].source
    IN [k \in 1..Cardinality({i \in DOMAIN found : first(i)}) |->
          found[CHOOSE i \in DOMAIN found : first(i) /\ Cardinality({j \in 1..i : first(j)}) = k]]

FromWorkspace(found, parents) ==
    PutSpecs(<<>>, [i \in DOMAIN SelectSeq(ReadOnce(found), LAMBDA m : m.valid) |->
                    LET m == SelectSeq(ReadOnce(found), LAMBDA x : x.valid)[i]
                    IN [id |-> m.id, tools |-> KnownTools(m.tools, parents)]])

\* Variant with a fault: the workspace has the last word.
MergedOther(loaded, config) == PutSpecs(config, loaded)

\* merge_subagents()
MergedSpecs(loaded, config) == PutSpecs(loaded, config)

Parents == ParentTools \cup McpNamesDrawn \cup {AskTool}

\* _resolve_subagents(), with the tools of each subagent as a set.
Subagents ==
    IF ~autoLoad THEN [i \in DOMAIN specs |-> [id |-> specs[i].id,
        has |-> IF specs[i].tools = InheritTools THEN Parents ELSE ToSet(specs[i].tools)]]
    ELSE LET all == MergedSpecs(FromWorkspace(manifests, Parents), specs)
         IN [i \in DOMAIN all |->
               [id |-> all[i].id,
                has |-> SubagentTools(IF all[i].tools = InheritTools THEN Parents
                    ELSE ToSet(all[i].tools), McpNamesDrawn)]]

DraftTypeOK == \A i \in DOMAIN Subagents : Subagents[i].has \subseteq Parents

\* There is one subagent of each name, the one the configuration has under
\* it, or else the last file of that name, a file counted where it is found
\* first; it has the tools it asks for, or its agent's, and never those of an MCP server or the question to a human.
\* Where nothing is loaded from the workspace the configuration is taken as it is.
SubagentsAreMeant ==
    LET ids == {manifests[i].id : i \in {j \in DOMAIN manifests : manifests[j].valid}}
               \cup {specs[i].id : i \in DOMAIN specs}
        lasts(s, id) == {i \in DOMAIN s : s[i].id = id /\ \A j \in i + 1..Len(s) : s[j].id # id}
        own(tools) == (IF tools = InheritTools THEN Parents ELSE ToSet(tools) \cap Parents) \ (McpNamesDrawn \cup {AskTool})
    IN autoLoad =>
         /\ {Subagents[i].id : i \in DOMAIN Subagents} = ids /\ Len(Subagents) = Cardinality(ids)
         /\ \A i \in DOMAIN Subagents :
               LET id == Subagents[i].id IN
               IF lasts(specs, id) # {} THEN \E k \in lasts(specs, id) : Subagents[i].has = own(specs[k].tools)
               ELSE \E k \in DOMAIN manifests :
                      /\ \A n \in 1..k - 1 : manifests[n].source # manifests[k].source
                      /\ manifests[k].valid /\ manifests[k].id = id /\ Subagents[i].has = own(manifests[k].tools)
                      /\ \A j \in DOMAIN manifests :
                            j > k /\ manifests[j].id = id /\ manifests[j].valid =>
                                \E n \in 1..j - 1 : manifests[n].source = manifests[j].source

DraftHolds == WorkspaceIsFound /\ WorkspaceStays /\ SubagentsAreMeant
=============================================================================
