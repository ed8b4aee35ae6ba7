---------------------------- MODULE MCAgent ---------------------------------
(***************************************************************************)
(* Parts of an agent, and of a manager of agents, each on its own          *)
(* instance.  They share no variable, so they are checked side by side and *)
(* not interleaved: part says which of them there is in a behaviour, crew  *)
(* which of its actors move; the others stay in their initial state.  The  *)
(* variables of the other parts have their initial values or are Off.      *)
(*                                                                         *)
(*   decisions   two threads; the first has a turn that is resumed, and a  *)
(*               wrap-up that a host starts after it; on the second no     *)
(*               tool matches, and one turn has no text                    *)
(*   inputs      the pure functions of the decision middleware             *)
(*   acp         conversations of one agent with external ones: two calls  *)
(*               and two answers; two starts and a close; two runners and  *)
(*               a replacement of the service                              *)
(*   manager     three creations on two ids, a change of the policy and    *)
(*               one of the tracer, a shutdown, a turn: without the        *)
(*               tracer and the turn, or without the third creation        *)
(*   boxes       two sandboxes with the name, or one without, each with    *)
(*               two operations, a close and a destroy                     *)
(*   media       two waits, two polls and a cancel of one job              *)
(*   search      one thread and two tools, or two threads and one tool,    *)
(*               with a table of one entry                                 *)
(*   compaction  two conversations: two compactions, with requests of one  *)
(*               or none                                                   *)
(*   pool        two keys of a model cache: a turn and two threads with a  *)
(*               change of the provider or a close of the factory          *)
(*   history     a thread: two turns, a turn and an append, or two         *)
(*               appends; with retries and deletes                         *)
(*   offload     three blocks of media, two with the same bytes, in two    *)
(*               turns of two requests                                     *)
(*   peers       three calls between three agents, two of whose names are  *)
(*               alike, and a change of the agents                         *)
(*   refs        two agents that get their providers from the environment  *)
(*               or from a manager, which changes them twice               *)
(*   settings    a configuration that is written, edited, read and         *)
(*               written again, with kills; token limits up to 4; media    *)
(*               configurations of up to two providers                     *)
(*   mcp         two MCP servers, the name of one of them another's        *)
(*               beginning, or not legal; calls with three arguments;      *)
(*               errors in groups of groups                                *)
(*   assembly    two turns on two protocols, and what a host does          *)
(*               meanwhile: MCP tools appended twice or replaced, a        *)
(*               rescan, callbacks; one change of the disabled tools, one  *)
(*               failed build                                              *)
(*   draft       where a workspace is, for paths of hosts and of agents;   *)
(*               up to three manifests of two files and two names, with a  *)
(*               subagent in the configuration                             *)
(*   generate    one call of a media tool: many requests and few errors    *)
(*               of the service, or few requests and many errors           *)
(***************************************************************************)
EXTENDS DecisionTurns, DecisionSelect, AcpSession, ManagerSettings,
        DockerSandbox, MediaJobs, ToolSearch, Compaction, ChatModels,
        ThreadHistory, PeerCalls, SettingsFile, AgentBuild

CONSTANTS d1, d2, t1, t2, t3, w1, g1, g2, g3, g4, g5, x1, x2, x3, m1, m2, c1,
          c2, c3, c4, a1, a2, z1, b1, k1, k2, p1, p2, n1, n2, n3, q1, i1, i2,
          y1, bx1, bx2, bx3, o1, o2, o3, o4, cl1, cl2, ds1, ds3, v1, v2, f1,
          f2, rv1, e1, e2, u1, u2

VARIABLES part, crew

AcpCrew == CASE crew = "answers" -> {c1, c2, a1, a2}
             [] crew = "starts"  -> {c1, c3, z1}
             [] crew = "runners" -> {c1, c4, b1}

BoxesCrew == CASE crew = "named" -> {bx1, bx2, o1, o2, cl1, ds1}
               [] crew = "own"   -> {bx3, o3, o4, cl2, ds3}

CompactionCrew == CASE crew = "usage"  -> {"f1", "a1"}
                    [] crew = "agents" -> {"f1", "f2"}
                    [] crew = "twice"  -> {"f1", "f3"}
                    [] crew = "lent"   -> {"f2", "a1"}

PoolCrew == CASE crew = "update"  -> {"c1", "h1", "h2", "u1"}
              [] crew = "changes" -> {"h2", "h3", "u1", "d1"}
              [] crew = "close"   -> {"c1", "h1", "d1", "z1"}
              [] crew = "aclose"  -> {"c1", "h2", "u1", "y1"}

HistoryCrew == CASE crew = "turns"   -> {"t1", "t2"}
                 [] crew = "turn"    -> {"t1", "h1"}
                 [] crew = "appends" -> {"h1", "h2"}
                 [] crew = "retry"   -> {"t1", "h2"}

RefsCrew == CASE crew = "found" -> 0
              [] crew = "kept"  -> MaxProviderEdits

SettingsCrew == CASE crew = "file"    -> TRUE
                  [] crew = "samples" -> FALSE

AssemblyCrew == CASE crew = "loop"     -> {"append", "wrap", "t1", "t2"}
                  [] crew = "appends"  -> {"append", "more"}
                  [] crew = "replaces" -> {"put", "t2"}
                  [] crew = "wraps"    -> {"wrap", "append"}
                  [] crew = "scans"    -> {"scan", "t1"}

MCConvOf   == [t \in Turns |-> IF t \in {t2, t3} THEN d2 ELSE d1]
MCTurnOf   == [r \in Runs |-> CASE r = g2 -> w1 [] r = g3 -> t2 [] r = g5 -> t3 [] OTHER -> t1]
MCMatching == [t \in Turns |-> IF t \in {t2, t3} THEN <<>> ELSE <<x2, x1>>]
MCNamed    == [t \in Turns |-> IF t = t1 THEN {m1} ELSE {}]
MCFinished == [t \in Turns |-> IF t = w1 THEN {m1} ELSE {}]
MCTools    == <<x1, x2, x3>>
MCMembers  == <<m1, m2>>
MCAcpKeyOf == [a \in Acting \ Resets |-> IF a = c4 THEN k2 ELSE k1]
MCNameOf == [a \in News \cup Chats |-> IF a = n2 THEN i2 ELSE i1]

MCBoxOf == [a \in Tasks \cup Removers |->
              IF a \in {o1, ds1} THEN bx1 ELSE IF a \in {o2, cl1} THEN bx2 ELSE bx3]

MCThreadOf    == [c \in Compactions |-> IF c \in {"f2"} THEN "t2" ELSE "t1"]
MCFirstLength == [t \in Threads |-> 3]
MCKeyOf == [a \in Askers |-> IF a \in {"h2", "h3"} THEN "retry" ELSE "plain"]

ManagerTurn ==
    /\ ManagerNext
    /\ IF crew = "ids" THEN tracer' = 0 /\ chat'[y1] = "idle" ELSE life'[n3] = "none"

SearchTurn ==
    /\ SearchNext
    /\ IF crew = "tools" THEN searchPC'[e2] = "idle"
       ELSE \A e \in Sessions : u2 \notin offered'[e] \cup called'[e]

CompactTurn ==
    /\ CompactNext
    /\ \A c \in Compactions \ CompactionCrew : compaction'[c].at = "idle"
    /\ asking'["t2"] = 0
    /\ crew # "usage" => asking'["t1"] = 0
    /\ crew \in {"usage", "twice"} => length'["t2"] = 3
    /\ crew = "agents" => length' = length

HistoryTurn ==
    /\ HistoryNext
    /\ \A t \in HistoryTurns \ HistoryCrew : chatTurn'[t].at = "idle"
    /\ \A h \in Appends \ HistoryCrew : append'[h].at = "idle"
    /\ crew = "turn" => chatTurn'["t1"].calls <= 1

MCShaOf == [b \in Blocks |-> IF b = "m3" THEN "y" ELSE "x"]
MCPeerA == <<"a">>
MCPeerB == <<"b">>
MCPeerD == <<"d", "b">>
MCPeerIds    == {MCPeerA, MCPeerB, MCPeerD}
MCAddedFirst == <<MCPeerA, MCPeerD, MCPeerB>>
MCWanted     == [c \in PeerAsks |-> CASE c = "q1" -> <<"b">> [] c = "q2" -> <<"n">> [] OTHER -> <<"a">>]
MCAliasesOf  == [id \in PeerIds |-> CASE id = MCPeerA -> {<<"a", "a">>} [] id = MCPeerB -> {<<"n", "o">>} [] OTHER -> {<<"n", "x">>}]
MCAllowOf    == [id \in PeerIds |-> IF id = MCPeerB THEN <<MCPeerA, <<"n", "x">>>> ELSE NoList]
MCModeOf     == [e \in PeerIds \X Gens |-> CASE e[1] = MCPeerB -> "sync" [] e = <<MCPeerA, 1>> -> "both" [] OTHER -> "async"]
MCOwnerOf    == [e \in PeerIds \X Gens |-> CASE e[1] = MCPeerA -> "nobody" [] e[1] = MCPeerB /\ e[2] > 1 -> "other" [] OTHER -> "user"]

MCRefsInit ==
    /\ RefsInit
    /\ IF crew = "found" THEN shared = NoFactory ELSE environ.harness["openai"] = "no" /\ environ.default = NoRef /\ environ.model = NoRef

MCModel(i, o, w, l) == [id |-> i, on |-> o, wide |-> w, limit |-> l]
MCFullModels == <<MCModel("m1", TRUE, FALSE, 2), MCModel("m2", TRUE, TRUE, 1)>>

MCModelsOf == "full" :> MCFullModels @@ "full+" :> Append(MCFullModels, MCModel("m3", TRUE, FALSE, 0))
              @@ "slim" :> <<MCModel("m1", FALSE, FALSE, 2), MCModel("m2", TRUE, TRUE, 1)>>
              @@ "bare" :> <<>> @@ "bare+" :> <<MCModel("m3", TRUE, FALSE, 0)>>

MCPresets == <<[id |-> "openai", version |-> "full", key |-> "O"], [id |-> "kimi", version |-> "full", key |-> "K"]>>
MCSetup(p, d, w) == [providers |-> p, default |-> d, wide |-> w]
MCProvider(i, v) == [id |-> i, version |-> v]

MCSetups ==
    {MCSetup(<<>>, NoRef, NoRef), MCSetup(<<>>, <<"kimi", "m1">>, NoRef), MCSetup(<<>>, NoRef, <<"kimi", "m3">>),
     MCSetup(<<MCProvider("kimi", "full")>>, NoRef, <<"kimi", "m1">>), MCSetup(<<MCProvider("openai", "slim")>>, <<"openai", "m2">>, NoRef)}

MCHarness(o, k) == "openai" :> o @@ "kimi" :> k
MCEnviron(h, o, ks, d, m) == [harness |-> h, openai |-> o, keys |-> ks, default |-> d, model |-> m]

MCEnvirons ==
    {MCEnviron(MCHarness("no", "no"), "no", {}, NoRef, NoRef), MCEnviron(MCHarness("no", "no"), "key", {"O"}, NoRef, NoRef),
     MCEnviron(MCHarness("no", "no"), "key", {"O", "K"}, NoRef, "m3"), MCEnviron(MCHarness("no", "no"), "blank", {"O"}, NoRef, NoRef),
     MCEnviron(MCHarness("no", "no"), "no", {"K"}, NoRef, NoRef), MCEnviron(MCHarness("no", "key"), "no", {}, NoRef, NoRef),
     MCEnviron(MCHarness("url", "no"), "blank", {"O"}, NoRef, "m3"), MCEnviron(MCHarness("no", "key"), "no", {"K"}, NoRef, NoRef),
     MCEnviron(MCHarness("no", "url"), "key", {"K"}, <<"openai", "m2">>, NoRef), MCEnviron(MCHarness("no", "no"), "key", {}, <<"kimi", "m1">>, NoRef)}

MCBots == <<"bot1", "bot2">>
MCFirstShared == {NoFactory, <<MCProvider("kimi", "slim"), MCProvider("openai", "full")>>}
MCSettingsInit == IF crew = "file" THEN SettingsInit ELSE SampleInit

MCValuesOf == [f \in Fields |->
    CASE f = "backend" -> {"spec", "live"}
      [] f = "memory_backend" -> {"spec", "none", "live"}
      [] f \in {"role_bindings", "mcp_default_servers"} -> {"empty", "some"}
      [] f = "acp_runners" -> {"empty", "fewer", "own", "defaults and own"}
      [] f = "subagents" -> {"named", "live"}
      [] f = "virtual_paths" -> {"on"}
      [] f = "tools_disabled" -> {"some"}
      [] OTHER -> {"live"}]

MCSettingsDrawn ==
    LET Changed(s, f) == {[s EXCEPT ![f] = v] : v \in MCValuesOf[f]}
        one == UNION {Changed(DefaultOfField, f) : f \in Fields}
    IN {DefaultOfField} \cup one

MCEditsDrawn == {[field |-> f, value |-> v] : f \in {"acp_runners", "role_bindings", "tools_disabled", "memory_backend", "checkpointer"}, v \in {"none", "missing"}}
                \cup {[field |-> "acp_runners", value |-> "own"]}

MCMediaProvider(i, o, im, vi, k) == [id |-> i, on |-> o, image |-> im, video |-> vi, key |-> k]
MCMediaProviders(i) == {MCMediaProvider(i, o, im, vi, k) : o, im, vi, k \in BOOLEAN}

MCMediaDrawn ==
    LET fit(S) == {p \in S : p.image \/ p.video \/ ~p.on}
    IN {[named |-> ps, older |-> old, image |-> i, video |-> v] :
            ps \in {<<>>} \cup {<<p>> : p \in fit(MCMediaProviders("a"))} \cup (fit(MCMediaProviders("a")) \X fit(MCMediaProviders("b"))),
            old \in {MCMediaProvider("old", TRUE, TRUE, b, b) : b \in BOOLEAN}, i \in {"none", "b", "old"}, v \in {"none", "a"}}

MCServer(n, ts) == {[name |-> n, tools |-> ts, answers |-> a, only |-> o] : a \in BOOLEAN, o \in {Everything, {<<"a">>, <<"a", ".">>, <<"a", "_">>}}}

MCServersDrawn ==
    LET one   == UNION {MCServer(<<"x">>, ts) : ts \in {<< <<"a">>, <<"b">> >>, << <<"a", ".">>, <<"a", "_">> >>, << <<"a", "_">>, <<"a", ".">> >>, << <<"y", "_", "a">>, <<"a">> >>}}
        other == MCServer(<<"x", "_", "y">>, << <<"a">> >>) \cup MCServer(<<"x", ".">>, << <<"a">> >>) \cup MCServer(<<"b">>, << <<"a">> >>)
    IN {<<s, t>> : s \in one, t \in other} \cup {<<t, s>> : s \in one, t \in other}

MCOwnTools == << <<"x", "_", "a">>, <<"o">> >>

MCRequestsDrawn ==
    {[useDefault |-> TRUE, servers |-> Unasked]}
    \cup {[useDefault |-> FALSE, servers |-> s] :
            s \in {Unasked, <<>>, << <<"x">> >>, << <<"x", "_", "y">>, <<"x">> >>, << <<"x">>, <<"x", ".">>, <<"x", "_", "y">> >>, << <<"b">>, <<"o">>, <<"x">> >>}}

MCDefaultServers == << <<"x">> >>
MCLegalSigns == {"x", "y", "a", "b", "o", "_"}
MCGivenDrawn == UNION {[K -> {NullArg, EmptyArg, "v", "w"}] : K \in SUBSET {"q", "query", "text"}}
MCAliasesDrawn == {<<>>, << <<"q", "query">> >>, << <<"q", "query">>, <<"text", "query">> >>, << <<"q", "text">>, <<"text", "query">> >>}
MCErrorLeaves == {[kind |-> k, parts |-> <<>>] : k \in {"mcp", "schema", "flow", "cancelled", "other"}}
MCErrorGroups(S) == {[kind |-> "group", parts |-> p] : p \in S \X S}
MCErrorsDrawn == LET once == MCErrorLeaves \cup MCErrorGroups(MCErrorLeaves) IN once \cup MCErrorGroups(once)
MCCallers == {"append", "more", "put", "scan", "wrap"}

MCCallerAsks == [c \in Callers |-> CASE c = "append" -> [kind |-> "append", tools |-> <<"m2", "m1">>]
                                     [] c = "more"   -> [kind |-> "append", tools |-> <<"m2", "m3">>]
                                     [] c = "put"    -> [kind |-> "replace", tools |-> <<"m3">>]
                                     [] c = "scan"   -> [kind |-> "reload", tools |-> <<>>]
                                     [] c = "wrap"   -> [kind |-> "callbacks", tools |-> <<>>]]

MCTurnProtocol == [t \in Onboarders |-> IF t = "t1" THEN "langgraph" ELSE "openai"]
MCFirstMcpTools == <<"m1">>

MCConfigs ==
    LET all   == [saver |-> "own", onboarding |-> TRUE, hook |-> FALSE, gates |-> TRUE, servers |-> TRUE, ask |-> TRUE, loads |-> TRUE,
                  bare |-> TRUE, extras |-> {"todos", "tool_guard", "retry", "pii", "media_offload", "memory", "user", "team", "decision",
                                             "tool_search", "task_last"}]
    IN {all, [all EXCEPT !.saver = "memory", !.hook = TRUE], [all EXCEPT !.saver = "off", !.onboarding = FALSE, !.servers = FALSE],
        [all EXCEPT !.saver = "given", !.gates = FALSE, !.ask = FALSE, !.loads = FALSE, !.bare = FALSE, !.extras = {}]}

MCAssemblyInit ==
    /\ AssemblyInit
    /\ (mcpTools = FirstMcpTools) = (options.servers /\ (options.saver = "own" => conn = 1))
    /\ crew # "loop" => options.saver = "own" /\ mcpTools = FirstMcpTools /\ conn = 1 /\ (crew # "scans" => ~askOff)

MCAssemblyNext ==
    /\ AssemblyNext
    /\ \A a \in Assemblers \ AssemblyCrew : assembly'[a].at = "idle" /\ (a \in Onboarders => onboarding'[a].at = "idle")
    /\ crew \notin {"scans", "loop"} => askOff' = askOff
    /\ crew \in {"scans", "replaces"} => failures' = 0
    /\ crew = "loop" =>
         /\ \A a \in Assemblers : UnderWay(a) => assembly'[a] \notin {assembly[a], [assembly[a] EXCEPT !.alone = FALSE]}
         /\ \A t \in Onboarders : onboarding[t].at = "made" => onboarding'[t] # onboarding[t]

MCPathsDrawn == {<<>>, <<".octop">>, <<".octop", "a">>, <<"srv">>, <<"srv", ".octop", "a">>, <<"srv", "a">>, <<"home", "a">>}

MCMountsDrawn ==
    [kind : {"spec"}, root : {NoRoot, <<>>, <<"srv">>, <<".octop">>, <<"srv", "a">>}, virtual : BOOLEAN]
    \cup [kind : {"name"}, root : {NoRoot, <<>>, <<"srv">>}, virtual : {TRUE}]
    \cup {[kind |-> "store", root |-> NoRoot, virtual |-> FALSE]}

MCManifest(f, i, v, t) == [source |-> f, id |-> i, valid |-> v, tools |-> t]

MCManifests == {MCManifest("f", "i", TRUE, InheritTools), MCManifest("g", "i", TRUE, <<"web_fetch", "gone">>), MCManifest("x", "i", FALSE, <<>>),
                MCManifest("h", "j", TRUE, <<"m1", "web_fetch", AskTool>>)}

MCManifestsDrawn == UNION {[1..n -> MCManifests] : n \in 0..3}
MCConfiguredDrawn == {<<>>, << [id |-> "i", tools |-> <<AskTool, "m1">>] >>, << [id |-> "k", tools |-> InheritTools], [id |-> "k", tools |-> <<"web_fetch">>] >>}
MCRequest(m, a, f, l, r, s) == [model |-> m, prompt |-> "text", amount |-> a, first |-> f, last |-> l, ref |-> r, seed |-> FALSE, audio |-> FALSE, size |-> s, key |-> TRUE]
MCSizes(m) == IF m \in VideoModels THEN {"480p", "720p", "1080p"} ELSE {"none", "small", "other"}
MCAverage(m) == MCRequest(m, 4, IF m = "wan-i2v" THEN "url" ELSE NoMedia, NoMedia, IF m = "wan-r2v" THEN "url" ELSE NoMedia, IF m \in VideoModels THEN "720p" ELSE "none")
MCVideoRequests == UNION {{MCRequest(m, 5, f, l, r, "720p") : f, l, r \in {NoMedia, "url", "file"}} : m \in VideoModels}
MCImageRequests == UNION {{MCRequest(m, 1, NoMedia, NoMedia, r, s) : r \in {NoMedia, "url", "file", "gone"}, s \in MCSizes(m)} : m \in ImageModels}

MCOddRequests ==
    UNION {UNION {{[MCAverage(m) EXCEPT !.amount = a] : a \in {0, 3, 4, 5, 16}}, {[MCAverage(m) EXCEPT !.size = s] : s \in MCSizes(m)},
                  {[MCAverage(m) EXCEPT !.seed = TRUE], [MCAverage(m) EXCEPT !.audio = TRUE], [MCAverage(m) EXCEPT !.key = FALSE], [MCAverage(m) EXCEPT !.prompt = "blank"]}} :
             m \in VideoModels \cup ImageModels}
    \cup UNION {{[MCAverage(m) EXCEPT !.first = f, !.ref = r] : f, r \in {"blank", "gone"}} : m \in {"H3", "seedance"}}

MCPlainRequests == {MCAverage(m) : m \in {"seedance", "wan3", "H3", "seedream-5", "wan-plain"}}
MCGenRequests == MCVideoRequests \cup MCImageRequests \cup MCOddRequests
MCSays == {{}} \cup {{f, g} : f, g \in {Families[i] : i \in 1..5}}
MCFewReplies == {[status |-> s, says |-> {}, ids |-> {}] : s \in {200, 429, 500}}

MCReplies == {[status |-> s, says |-> t, ids |-> {}] : s \in {200, 400, 401, 402, 403, 404, 422, 429, 500}, t \in MCSays}
             \cup {[status |-> 200, says |-> {}, ids |-> {f}] : f \in {"key", "rate"}}

MCGenInit == GenInit /\ (crew = "replies" => genRequest \in MCPlainRequests)

MCGenNext ==
    /\ GenNext
    /\ crew = "requests" => genReply' \in MCFewReplies \cup {NoReply}

Crews == [acp        |-> {"answers", "starts", "runners"},
          manager    |-> {"ids", "turns"},
          boxes      |-> {"named", "own"},
          search     |-> {"tools", "threads"},
          compaction |-> {"usage", "agents", "twice", "lent"},
          pool       |-> {"update", "changes", "close", "aclose"},
          history    |-> {"turns", "turn", "appends", "retry"},
          refs       |-> {"found", "kept"},
          settings   |-> {"file", "samples"},
          assembly   |-> {"loop", "appends", "replaces", "wraps", "scans"},
          generate   |-> {"requests", "replies"}]

partVars == <<part, crew>>
mcVars == <<decisionVars, drawn, acpVars, managerVars, sandboxVars, mediaVars,
            searchVars, compactVars, poolVars, historyVars, offloadVars,
            peerVars, refsVars, settingsVars, mcpInputVars, assemblyVars,
            draftVars, genVars, partVars>>

Off == "off"

MCInit ==
    /\ part \in {"decisions", "inputs", "media", "offload", "peers", "mcp", "draft"} \cup DOMAIN Crews
    /\ crew \in IF part \in DOMAIN Crews THEN Crews[part] ELSE {"all"}
    /\ DecisionInit
    /\ IF part = "inputs" THEN InputsInit
       ELSE drawn = Off
    /\ AcpInit
    /\ ManagerInit
    /\ SandboxInit
    /\ MediaInit
    /\ IF part = "search" THEN SearchInit
       ELSE /\ catalog = Off /\ catalogAge = Off /\ schemas = Off /\ offered = Off /\ displayed = Off
            /\ searchPC = Off /\ called = Off /\ gained = Off /\ ran = Off /\ denied = Off
            /\ requests = Off /\ told = Off /\ forgotten = Off
    /\ CompactInit
    /\ PoolInit
    /\ IF part = "history" THEN HistoryInit
       ELSE /\ checkpoints = Off /\ chatTurn = Off /\ append = Off /\ clock = Off /\ raced = Off
            /\ deleted = Off /\ revived = Off
    /\ IF part = "offload" THEN OffloadInit
       ELSE /\ block = Off /\ cacheDir = Off /\ round = Off /\ turnCount = Off /\ sent = Off
            /\ shown = Off /\ unshown = Off /\ unsaved = Off
    /\ IF part = "peers" THEN PeerInit
       ELSE /\ registry = Off /\ inboxOn = Off /\ ask = Off /\ changes = Off
    /\ IF part = "refs" THEN MCRefsInit
       ELSE /\ shared = Off /\ bots = Off /\ outdated = Off /\ dropped = Off /\ passed = Off
            /\ barren = Off /\ environ = Off /\ edits = Off
    /\ IF part = "settings" THEN MCSettingsInit
       ELSE /\ settings = Off /\ onDisk = Off /\ writing = Off /\ savedLast = Off /\ byHand = Off
            /\ stuck = Off /\ hostKilled = Off /\ sample = Off
    /\ IF part = "mcp" THEN McpInit
       ELSE /\ mcpServers = Off /\ mcpRequest = Off /\ mcpGiven = Off /\ mcpAliases = Off /\ mcpError = Off
    /\ IF part = "assembly" THEN MCAssemblyInit
       ELSE /\ options = Off /\ mcpTools = Off /\ mcpNames = Off /\ callbacks = Off /\ askOff = Off
            /\ marker = Off /\ baseGraph = Off /\ graph = Off /\ inHand = Off /\ protocols = Off
            /\ assembly = Off /\ onboarding = Off /\ aware = Off /\ conns = Off /\ conn = Off
            /\ built = Off /\ toggles = Off /\ failures = Off /\ settled = Off
    /\ IF part = "draft" THEN DraftInit
       ELSE /\ configured = Off /\ mount = Off /\ manifests = Off /\ specs = Off /\ autoLoad = Off
    /\ IF part = "generate" THEN MCGenInit
       ELSE /\ genRequest = Off /\ genCall = Off /\ genTask = Off /\ genSent = Off /\ genReply = Off
            /\ genNotes = Off

MCNext ==
    /\ UNCHANGED partVars
    /\ IF part = "decisions" THEN DecisionNext ELSE UNCHANGED decisionVars
    /\ part # "inputs" /\ UNCHANGED drawn
    /\ IF part = "acp"
         THEN AcpNext /\ \A a \in Acting \ AcpCrew : acpPC'[a] = "idle"
         ELSE UNCHANGED acpVars
    /\ IF part = "manager" THEN ManagerTurn ELSE UNCHANGED managerVars
    /\ IF part = "boxes"
         THEN SandboxNext /\ \A a \in (Doers \cup Removers) \ BoxesCrew : boxPC'[a] = "idle"
         ELSE UNCHANGED sandboxVars
    /\ IF part = "media" THEN MediaNext ELSE UNCHANGED mediaVars
    /\ IF part = "search" THEN SearchTurn ELSE UNCHANGED searchVars
    /\ IF part = "compaction" THEN CompactTurn ELSE UNCHANGED compactVars
    /\ IF part = "pool"
         THEN PoolNext /\ \A a \in PoolUsers \ PoolCrew : poolPC'[a] = "idle"
         ELSE UNCHANGED poolVars
    /\ IF part = "history" THEN HistoryTurn ELSE UNCHANGED historyVars
    /\ IF part = "offload" THEN OffloadNext ELSE UNCHANGED offloadVars
    /\ IF part = "peers" THEN PeerNext ELSE UNCHANGED peerVars
    /\ IF part = "refs" THEN RefsNext /\ edits' <= RefsCrew ELSE UNCHANGED refsVars
    /\ IF part = "settings" THEN SettingsNext /\ SettingsCrew ELSE UNCHANGED settingsVars
    /\ part # "mcp" /\ UNCHANGED mcpInputVars
    /\ IF part = "assembly" THEN MCAssemblyNext ELSE UNCHANGED assemblyVars
    /\ part # "draft" /\ UNCHANGED draftVars
    /\ IF part = "generate" THEN MCGenNext ELSE UNCHANGED genVars

\* Every variable of the part that moves has its type.
MCTypeOK ==
    /\ part = "decisions"  => DecisionTypeOK
    /\ part = "acp"        => AcpTypeOK
    /\ part = "manager"    => ManagerTypeOK
    /\ part = "boxes"      => SandboxTypeOK
    /\ part = "media"      => MediaTypeOK
    /\ part = "search"     => SearchTypeOK
    /\ part = "compaction" => CompactTypeOK
    /\ part = "pool"       => PoolTypeOK
    /\ part = "history"    => HistoryTypeOK
    /\ part = "offload"    => OffloadTypeOK
    /\ part = "peers"      => PeerTypeOK
    /\ part = "refs"       => RefsTypeOK
    /\ part = "settings"   => SettingsTypeOK
    /\ part = "mcp"        => McpTypeOK
    /\ part = "assembly"   => AssemblyTypeOK
    /\ part = "draft"      => DraftTypeOK
    /\ part = "generate"   => GenTypeOK

\* The model a reference means is the one that is served, and a file of
\* settings that is read gives what was written (config/, llm/factory.py).
SettingsFollow ==
    /\ part = "refs"     => RefsResolve
    /\ part = "settings" => SettingsHold

\* A tool that a thread was shown can be called; what the decision model is
\* asked about tools and members and told of the request fits its budget, and
\* of its answer the most confident are kept, over all small inputs.  A call of
\* an MCP tool reaches the server it names, and the graph that serves a turn
\* was built of what agreed at one moment.  A call between agents reaches the
\* agent that is meant or none, on a thread of its own, and within what the
\* caller may ask.  A call of a media tool is answered for what the service
\* said, leaves no task behind and may be repeated only when nothing runs.
\* Appends to a thread and the replacement of media in a request lose no
\* message of it (middleware/tool_search.py, decision.py, media_offload.py,
\* mcp.py, agent.py, teams/, builtin/tools/media_generation.py).
CallsArrive ==
    /\ part = "search"   => DeferredToolsHold
    /\ part = "inputs"   => InputsAsPromised
    /\ part = "mcp"      => McpHolds
    /\ part = "draft"    => DraftHolds
    /\ part = "assembly" => AssemblyHolds /\ (crew = "loop" => LoopKeepsUp)
    /\ part = "peers"    => PeersAnswer
    /\ part = "generate" => GenerationHolds
    /\ part = "history"  => ThreadKept
    /\ part = "offload"  => MediaOffloads

MCSpec == MCInit /\ [][MCNext]_mcVars
=============================================================================
