----------------------------- MODULE ToolSearch -----------------------------
(***************************************************************************)
(* Deferred tools (middleware/tool_search.py, client mode).                *)
(*                                                                         *)
(* A deferred tool is offered to the model by name only, until a search    *)
(* finds it or a call of it is refused; the next request shows its schema. *)
(* What is loaded is in the checkpoint of the thread.  What was offered    *)
(* last is in a table of the middleware: of bounded size, and gone when    *)
(* the agent is rebuilt or the process restarted.                          *)
(*                                                                         *)
(* The tool calls of one answer run in parallel against the state of that  *)
(* step, and their updates are merged when all have ended.  Between the    *)
(* answer and its calls a human may have to approve them.  Threads run one *)
(* turn at a time.                                                         *)
(***************************************************************************)
EXTENDS Naturals, Sequences, FiniteSets, TLC

LOCAL INSTANCE SequencesExt

CONSTANTS
    Sessions,      \* threads
    DeferredTools, \* tools that are deferred; others are not restrained
    MaxCatalogs,   \* size of the table (_MAX_THREAD_CATALOGS)
    MaxMatches,    \* matches of one search (max_results)
    MaxRequests    \* bound: number of model requests

ASSUME SearchAssumption == MaxCatalogs \in Nat \ {0} /\ MaxMatches \in Nat /\ MaxRequests \in Nat

\* A call of tool_search; its query and score decide what it finds.
SearchCall == "tool_search"

VARIABLES
    catalog,    \* _catalogs, what was offered in the last request of a thread
    catalogAge, \* the threads in the table, the longest unused one first
    schemas,    \* loaded_tool_names in the state of the thread
    offered,    \* what the last request offered, by name or in full
    displayed,  \* what of it was in full
    searchPC,   \* where a thread is: idle, asked, paused, calling
    called,     \* calls of the last answer that have not run
    gained,     \* updates of the calls that have
    ran,        \* deferred tools the last answer has called that ran
    denied,     \* those refused as not available
    requests,   \* number of requests so far
    told,       \* history: tools the model was told to find loaded
    forgotten   \* history: threads whose entry went after their last request

catalogVars == <<catalog, catalogAge, forgotten>>
stepVars    == <<called, gained, ran, denied>>
displayVars == <<offered, displayed, requests>>
searchVars  == <<catalogVars, schemas, displayVars, stepVars, searchPC, told>>

PerSession(S) == [Sessions -> SUBSET S]

SearchTypeOK ==
    /\ catalog \in PerSession(DeferredTools) /\ schemas \in PerSession(DeferredTools)
    /\ catalogAge \in Seq(Sessions) /\ Len(catalogAge) <= MaxCatalogs
    /\ IsInjective(catalogAge) /\ \A s \in Sessions : catalog[s] # {} => s \in ToSet(catalogAge)
    /\ offered \in PerSession(DeferredTools) /\ displayed \in PerSession(DeferredTools)
    /\ searchPC \in [Sessions -> {"idle", "asked", "paused", "calling"}]
    /\ called \in PerSession(DeferredTools \cup {SearchCall})
    /\ gained \in PerSession(DeferredTools) /\ ran \in PerSession(DeferredTools)
    /\ denied \in PerSession(DeferredTools) /\ told \in PerSession(DeferredTools)
    /\ requests \in 0..MaxRequests
    /\ forgotten \in SUBSET Sessions

SearchInit ==
    LET none == [s \in Sessions |-> {}] IN
    /\ catalog = none /\ catalogAge = <<>> /\ forgotten = {}
    /\ schemas = none /\ offered = none /\ displayed = none
    /\ called = none /\ gained = none /\ ran = none /\ denied = none /\ told = none
    /\ searchPC = [s \in Sessions |-> "idle"]
    /\ requests = 0

At(s, l) == searchPC' = [searchPC EXCEPT ![s] = l]

-----------------------------------------------------------------------------
\* The entry of a thread becomes the youngest.
Remembered(s) == Append(Remove(catalogAge, s), s)

\* _remember_catalog: the table is cut to its size from the old end.
Remember(s, tools) ==
    LET all  == Remembered(s)
        cut  == IF Len(all) > MaxCatalogs THEN Len(all) - MaxCatalogs ELSE 0
        gone == {all[i] : i \in 1..cut} IN
    /\ catalogAge' = SubSeq(all, cut + 1, Len(all))
    /\ catalog' = [x \in Sessions |-> IF x \in gone THEN {} ELSE IF x = s THEN tools ELSE catalog[x]]
    /\ forgotten' = (forgotten \ {s}) \cup gone

\* A model request with those deferred tools that the filters before have
\* left, of a turn that begins or goes on.
Request(s) ==
    /\ searchPC[s] = "idle" /\ requests < MaxRequests
    /\ \E tools \in SUBSET DeferredTools :
          /\ Remember(s, tools)
          /\ offered' = [offered EXCEPT ![s] = tools]
          /\ displayed' = [displayed EXCEPT ![s] = tools \cap schemas[s]]
    /\ requests' = requests + 1
    /\ ran' = [ran EXCEPT ![s] = {}] /\ denied' = [denied EXCEPT ![s] = {}]
    /\ At(s, "asked")
    /\ UNCHANGED <<schemas, called, gained, told>>

\* The model answers with calls, of tools it knows from whatever source; some
\* answers have to be approved.
AnswerCalls(s) ==
    /\ searchPC[s] = "asked"
    /\ \E cs \in SUBSET (DeferredTools \cup {SearchCall}) : called' = [called EXCEPT ![s] = cs]
    /\ At(s, "calling") \/ At(s, "paused")
    /\ UNCHANGED <<catalogVars, schemas, displayVars, gained, ran, denied, told>>

\* The human approves some of the calls.
Approve(s) ==
    /\ searchPC[s] = "paused"
    /\ \E cs \in SUBSET called[s] : called' = [called EXCEPT ![s] = cs]
    /\ At(s, "calling")
    /\ UNCHANGED <<catalogVars, schemas, displayVars, gained, ran, denied, told>>

Takes(s, c) == searchPC[s] = "calling" /\ c \in called[s] /\ called' = [called EXCEPT ![s] = @ \ {c}]

\* _search: matches are loaded.
RunSearch(s) ==
    /\ Takes(s, SearchCall)
    /\ \E found \in SUBSET catalog[s] :
          Cardinality(found) <= MaxMatches /\ gained' = [gained EXCEPT ![s] = @ \cup found]
    /\ UNCHANGED <<catalogVars, schemas, displayVars, ran, denied, searchPC, told>>

\* Variant with a fault: the tool need not be in the table.
RunDeferredUnlisted(s, t) ==
    /\ Takes(s, t)
    /\ \/ /\ t \in schemas[s]
          /\ ran' = [ran EXCEPT ![s] = @ \cup {t}]
          /\ UNCHANGED <<gained, denied>>
       \/ /\ t \notin schemas[s]
          /\ gained' = [gained EXCEPT ![s] = @ \cup {t}]
          /\ UNCHANGED <<ran, denied>>
    /\ UNCHANGED <<catalogVars, schemas, displayVars, searchPC, told>>

\* _unloaded_error: a tool that was offered and is loaded runs; one that was
\* offered is loaded, and the call refused; any other is not available.
RunDeferred(s, t) ==
    /\ Takes(s, t)
    /\ \/ /\ t \in catalog[s] \cap schemas[s]
          /\ ran' = [ran EXCEPT ![s] = @ \cup {t}]
          /\ UNCHANGED <<gained, denied>>
       \/ /\ t \in catalog[s] \ schemas[s]
          /\ gained' = [gained EXCEPT ![s] = @ \cup {t}]
          /\ UNCHANGED <<ran, denied>>
       \/ /\ t \notin catalog[s]
          /\ denied' = [denied EXCEPT ![s] = @ \cup {t}]
          /\ UNCHANGED <<gained, ran>>
    /\ UNCHANGED <<catalogVars, schemas, displayVars, searchPC, told>>

\* Variant with a fault: updates replace the state.
MergedOver(s) == gained[s]

\* _merge_loaded_tool_names
Merged(s) == schemas[s] \cup gained[s]

\* The step is committed: state and answers to the calls.
Commit(s) ==
    /\ searchPC[s] = "calling" /\ called[s] = {}
    /\ schemas' = [schemas EXCEPT ![s] = Merged(s)]
    /\ told' = [told EXCEPT ![s] = @ \cup gained[s]]
    /\ gained' = [gained EXCEPT ![s] = {}]
    /\ At(s, "idle")
    /\ UNCHANGED <<catalogVars, displayVars, called, ran, denied>>

\* The turn is cancelled, or abandoned at its pause: what the calls of the
\* step have done to the state is lost.
AbortStep(s) ==
    /\ searchPC[s] # "idle"
    /\ called' = [called EXCEPT ![s] = {}]
    /\ gained' = [gained EXCEPT ![s] = {}]
    /\ At(s, "idle")
    /\ UNCHANGED <<catalogVars, schemas, displayVars, ran, denied, told>>

\* The agent is rebuilt, or the process restarted, while no turn runs.
Renew ==
    /\ \A s \in Sessions : searchPC[s] \in {"idle", "paused"}
    /\ catalog' = [s \in Sessions |-> {}] /\ catalogAge' = <<>>
    /\ forgotten' = Sessions
    /\ UNCHANGED <<schemas, displayVars, stepVars, searchPC, told>>

SessionStep(s) ==
    \/ Request(s) \/ AnswerCalls(s) \/ Approve(s) \/ RunSearch(s)
    \/ (\E t \in DeferredTools : RunDeferred(s, t))
    \/ Commit(s) \/ AbortStep(s)

SearchNext == Renew \/ \E s \in Sessions : SessionStep(s)

SearchSpec == SearchInit /\ [][SearchNext]_searchVars

-----------------------------------------------------------------------------
(***************************************************************************)
(* Properties.                                                             *)
(***************************************************************************)

\* A deferred tool runs only if the request that led to the call has shown
\* its schema, whatever was loaded, searched or hidden by other requests and
\* by calls of the same answer.
OnlyShownRuns == \A s \in Sessions : ran[s] \subseteq displayed[s]

\* A tool that was offered is not refused as unavailable, and one that the
\* model was told is loaded is shown in full when it is offered again.  The
\* exceptions are threads whose entry was forgotten, evicted or lost with the
\* agent, between the answer and its calls: an approved call is then refused.
OfferedIsHonoured ==
    \A s \in Sessions :
        /\ s \notin forgotten => denied[s] \cap offered[s] = {}
        /\ searchPC[s] = "asked" => told[s] \cap offered[s] \subseteq displayed[s]

\* What was shown is what runs, and what was offered does run.
DeferredToolsHold == OnlyShownRuns /\ OfferedIsHonoured

-----------------------------------------------------------------------------
(***************************************************************************)
(* The tools of MCP servers (mcp.py, middleware/mcp_tools.py and           *)
(* middleware/mcp_tool_error.py): loading and renaming them, which of them *)
(* a request shows, what of its arguments a call passes on, and what the   *)
(* model is told of an error.  No state: the variables are the inputs.     *)
(*                                                                         *)
(* A name is a sequence of signs.  An error is one of its own or a group.  *)
(***************************************************************************)
CONSTANTS
    ServersDrawn,   \* sequences of servers [name, tools, answers, only]: only is Everything or the allowed names
    Everything,
    LegalSigns,     \* signs that a model provider accepts in a name
    OwnTools,       \* sequence of names of tools that are of no server
    RequestsDrawn,  \* [useDefault, servers]: servers is a sequence, or Unasked
    DefaultServers, \* sequence of names
    Unasked,
    GivenDrawn,     \* arguments of a call: functions from some keys to values, NullArg or EmptyArg
    AliasesDrawn,   \* sequences of <<alias, canonical>>
    NullArg, EmptyArg,
    ErrorsDrawn     \* errors: [kind, parts]

ASSUME McpAssumption == \A r \in RequestsDrawn : r.useDefault => DefaultServers # <<>>

VARIABLES mcpServers, mcpRequest, mcpGiven, mcpAliases, mcpError

mcpInputVars == <<mcpServers, mcpRequest, mcpGiven, mcpAliases, mcpError>>

McpInit ==
    \/ /\ mcpServers \in ServersDrawn /\ mcpRequest \in RequestsDrawn
       /\ mcpGiven = <<>> /\ mcpAliases = <<>> /\ mcpError = [kind |-> "none", parts |-> <<>>]
    \/ /\ mcpServers = <<>> /\ mcpRequest = [useDefault |-> FALSE, servers |-> Unasked]
       /\ \/ mcpGiven \in GivenDrawn /\ mcpAliases \in AliasesDrawn /\ mcpError = [kind |-> "none", parts |-> <<>>]
          \/ mcpGiven = <<>> /\ mcpAliases = <<>> /\ mcpError \in ErrorsDrawn

-----------------------------------------------------------------------------
(* Loading *)

PrefixOf(server) == server \o <<"_">>
Sanitized(name) == [i \in DOMAIN name |-> IF name[i] \in LegalSigns THEN name[i] ELSE "_"]
Suffixed(name) == [k \in Nat |-> IF k = 1 THEN name ELSE name \o <<"_", ToString(k)>>]

\* Variant with a fault: two names may be sanitized to one.
NewNameAnyway(name, used) == Sanitized(name)

\* A name that is legal as it is stays, whatever the others are.
NewName(name, used) ==
    IF Sanitized(name) = name THEN name
    ELSE Suffixed(Sanitized(name))[CHOOSE k \in 1..Cardinality(used) + 1 :
            /\ Suffixed(Sanitized(name))[k] \notin used
            /\ \A j \in 1..k - 1 : Suffixed(Sanitized(name))[j] \in used]

\* _postprocess_mcp_tools(), of the names; server and base say what the tool is.
Renamed(server) ==
    LET kept == SelectSeq(server.tools, LAMBDA b : server.only = Everything \/ b \in server.only)
    IN FoldLeft(LAMBDA acc, b :
            Append(acc, [name |-> NewName(PrefixOf(server.name) \o b, {t.name : t \in ToSet(acc)}),
                         server |-> server.name, base |-> b]), <<>>, kept)

\* Variant with a fault: nothing is loaded after a server that fails.
LoadedUntil(servers) ==
    FoldLeft(LAMBDA acc, s : IF s.answers THEN acc \o Renamed(s) ELSE <<>>, <<>>, servers)

\* aload_mcp_tools(); a server without a transport is one that does not answer.
LoadedTools(servers) ==
    FoldLeft(LAMBDA acc, s : IF s.answers THEN acc \o Renamed(s) ELSE acc, <<>>, servers)

\* _build_tools(): those of the agent come first.
AllTools(servers) ==
    [i \in 1..Len(OwnTools) |-> [name |-> OwnTools[i], server |-> <<>>, base |-> OwnTools[i]]] \o LoadedTools(servers)
McpNames(servers) == {t.name : t \in ToSet(LoadedTools(servers))}

-----------------------------------------------------------------------------
(* Showing *)

\* resolve_active_mcp_servers(), and the part of _apply_filter() that drops unknown ones: a sequence, empty for none.
\* Default servers of an agent that has none are a ValueError: no request is made (McpAssumption).
ActiveServers(request, servers) ==
    LET known == {s.name : s \in ToSet(servers)}
        asked == IF request.useDefault THEN DefaultServers
                 ELSE IF request.servers = Unasked THEN <<>> ELSE request.servers
    IN SelectSeq(asked, LAMBDA s : s \in known)

\* filter_tools_for_mcp_servers()
FilterTools(tools, names, active) ==
    SelectSeq(tools, LAMBDA t : t.name \notin names \/ \E i \in DOMAIN active : IsPrefix(PrefixOf(active[i]), t.name))

\* Variant with a fault: the active tools come last.
PrioritizedLast(tools, names, active) ==
    SelectSeq(tools, LAMBDA t : t.name \notin names)
    \o FoldLeft(LAMBDA acc, s : SelectSeq(tools, LAMBDA t : t.name \in names
        /\ IsPrefix(PrefixOf(s), t.name)) \o acc, <<>>, active)

\* prioritize_active_mcp_tools(): a tool goes with the first of the active servers that its name begins with.
Prioritized(tools, names, active) ==
    LET of(s) == SelectSeq(tools, LAMBDA t :
            /\ t.name \in names
            /\ \E i \in DOMAIN active : active[i] = s /\ IsPrefix(PrefixOf(s), t.name)
                 /\ \A j \in 1..i - 1 : ~IsPrefix(PrefixOf(active[j]), t.name))
    IN SelectSeq(tools, LAMBDA t : t.name \notin names) \o FoldLeft(LAMBDA acc, s : acc \o of(s), <<>>, active)

\* _apply_filter()
ShownTools(servers, request) ==
    LET active == ActiveServers(request, servers)
        left   == FilterTools(AllTools(servers), McpNames(servers), active)
    IN IF active = <<>> THEN left ELSE Prioritized(left, McpNames(servers), active)

-----------------------------------------------------------------------------
(* Calling *)

\* Variant with a fault: what the model gave under the right name is overwritten.
RemappedOver(given, aliases) ==
    FoldLeft(LAMBDA args, a :
        IF a[1] \in DOMAIN args /\ args[a[1]] \notin {NullArg, EmptyArg}
          THEN [k \in (DOMAIN args \ {a[1]}) \cup {a[2]} |-> IF k = a[2] THEN args[a[1]] ELSE args[k]]
          ELSE args, given, aliases)

\* _remap_tool_arguments()
Remapped(given, aliases) ==
    LET lacks(args, k) == IF k \in DOMAIN args THEN args[k] \in {NullArg, EmptyArg} ELSE TRUE
    IN FoldLeft(LAMBDA args, a :
        IF lacks(args, a[1]) THEN args
        ELSE LET new == IF lacks(args, a[2]) THEN {a[2]} ELSE {}
             IN [k \in (DOMAIN args \cup new) \ {a[1]} |-> IF k \in new THEN args[a[1]] ELSE args[k]],
        given, aliases)

\* _prepare_tool_arguments()
Prepared(given, aliases) ==
    LET args == Remapped(given, aliases) IN [k \in {j \in DOMAIN args : args[j] # NullArg} |-> args[k]]

RECURSIVE Leaves(_)
\* The errors in a group, in the order of a search in depth.
Leaves(e) == IF e.kind = "group" THEN FoldLeft(LAMBDA acc, x : acc \o Leaves(x), <<>>, e.parts) ELSE <<e.kind>>

\* Variant with a fault: an interrupt in a group is overlooked.
ControlFlowAlone(e) == e.kind \in {"flow", "cancelled"}

\* _has_control_flow(); a cancellation, alone or in a group, is no Exception and not caught at all.
ControlFlow(e) == {"flow", "cancelled"} \cap ToSet(Leaves(e)) # {}

\* _soften(): what the model is told, or "raise".
Softened(e) ==
    IF ControlFlow(e) THEN "raise"
    ELSE IF "mcp" \in ToSet(Leaves(e)) THEN "arguments"
    ELSE IF "schema" \in ToSet(Leaves(e)) THEN "output"
    ELSE "raise"

-----------------------------------------------------------------------------
McpTypeOK ==
    /\ \A i \in DOMAIN LoadedTools(mcpServers) : LoadedTools(mcpServers)[i].server \in {s.name : s \in ToSet(mcpServers)}
    /\ ToSet(ShownTools(mcpServers, mcpRequest)) \subseteq ToSet(AllTools(mcpServers))
    /\ Softened(mcpError) \in {"raise", "arguments", "output"}

\* Two names of one server: the later one was legal, and is what the earlier one was made into.
Clash(tools, i, j) ==
    /\ i < j /\ tools[i].server = tools[j].server
    /\ LET was(t) == PrefixOf(t.server) \o t.base IN was(tools[j]) = tools[j].name /\ was(tools[i]) # tools[i].name

\* A provider accepts every name it is sent, and no two tools of a server have
\* one name; the code overlooks a name that is legal and follows one that was
\* made into it.  (_postprocess_mcp_tools)
NamesAreSound ==
    LET tools == LoadedTools(mcpServers) IN
    \A i, j \in DOMAIN tools :
        /\ \A k \in DOMAIN tools[i].name : tools[i].name[k] \in LegalSigns \cup {"2", "3"}
        /\ i < j /\ tools[i].server = tools[j].server /\ tools[i].base # tools[j].base =>
               tools[i].name # tools[j].name \/ Clash(tools, i, j)

\* A server that cannot be reached costs no other server its tools.
OthersLoad ==
    \A i \in DOMAIN mcpServers : mcpServers[i].answers =>
        \A b \in ToSet(mcpServers[i].tools) : (mcpServers[i].only = Everything \/ b \in mcpServers[i].only) =>
            \E t \in ToSet(LoadedTools(mcpServers)) : t.server = mcpServers[i].name /\ t.base = b

\* Exceptions: the name of the server is not legal, so its tools do not begin
\* with it; the tool begins with the name of another server too; a tool of the
\* agent has the name of a tool of a server.
Misnamed(t) == Sanitized(t.server) # t.server
Ambiguous(t) == \E s \in ToSet(mcpServers) : s.name # t.server /\ IsPrefix(PrefixOf(s.name), t.name)
SharesName(t) == t.name \in McpNames(mcpServers)

\* A request sees the tools of its servers and no other server's, whichever
\* way it asks, and the agent's own tools always; they come first, and the
\* servers' in the order of the request.
AskedServersShow ==
    LET shown  == ShownTools(mcpServers, mcpRequest)
        active == ActiveServers(mcpRequest, mcpServers)
    IN /\ \A t \in ToSet(AllTools(mcpServers)) :
             IF t.server = <<>> THEN SharesName(t) \/ t \in ToSet(shown)
             ELSE Misnamed(t) \/ Ambiguous(t) \/ (t \in ToSet(shown) <=> t.server \in ToSet(active))
       /\ \A i, j \in DOMAIN shown : i < j =>
             \/ shown[i].server = <<>>
             \/ Ambiguous(shown[i]) \/ Ambiguous(shown[j]) \/ (SharesName(shown[j]) /\ shown[j].server = <<>>)
             \/ \E a, b \in DOMAIN active : a <= b /\ active[a] = shown[i].server /\ active[b] = shown[j].server

\* What the model gave arrives: a value under the right name as it is, a value
\* under another name under the right one unless that has a value already; no
\* null arrives.  Aliases that lead to another alias are left aside.
GivenArrives ==
    LET args  == Prepared(mcpGiven, mcpAliases)
        plain == {a[1] : a \in ToSet(mcpAliases)} \cap {a[2] : a \in ToSet(mcpAliases)} = {}
        empty == {NullArg, EmptyArg}
    IN /\ \A k \in DOMAIN args : args[k] # NullArg
       /\ plain => \A k \in {j \in DOMAIN mcpGiven : mcpGiven[j] \notin empty} :
             IF \E a \in ToSet(mcpAliases) : a[1] = k
               THEN /\ k \notin DOMAIN args
                    /\ \E a \in ToSet(mcpAliases) : a[1] = k /\ a[2] \in DOMAIN args /\ args[a[2]] \notin empty
               ELSE k \in DOMAIN args /\ args[k] = mcpGiven[k]

\* Neither an interrupt nor a cancellation is ever told to the model as an
\* error of a tool, however deep in a group; other errors are only when they
\* come together with an error of the server.
OnlyToolErrorsTold ==
    LET leaves == ToSet(Leaves(mcpError)) IN
    /\ leaves \cap {"flow", "cancelled"} # {} => Softened(mcpError) = "raise"
    /\ leaves \cap {"mcp", "schema"} = {} => Softened(mcpError) = "raise"
    /\ leaves # {} /\ leaves \subseteq {"mcp", "schema"} => Softened(mcpError) # "raise"

McpHolds == NamesAreSound /\ OthersLoad /\ AskedServersShow /\ GivenArrives /\ OnlyToolErrorsTold
=============================================================================
