---------------------------- MODULE MCSurfaces ------------------------------
(***************************************************************************)
(* What an agent keeps its files in, and what a person or a script works   *)
(* with: stores, workspaces, skills, notebooks and a terminal, each on its *)
(* own instance.  They share no variable, so they are checked side by side *)
(* and not interleaved: part says which of them there is in a behaviour,   *)
(* crew which of its actors move; the others stay in their initial state.  *)
(* The variables of the other parts have their initial values or are Off.  *)
(*                                                                         *)
(*   objects  two paths at the root and one below each; three operations   *)
(*            that write, move and delete                                  *)
(*   files    one file, two reads and a write, in every layout             *)
(*   stream   two messages in four pieces                                  *)
(*   kernel   a notebook of two cells: edits, a run of one cell and a run  *)
(*            of all, in pairs, or two or three edits                      *)
(*   watch    three runs of a script that watches a feed of three items    *)
(*            and remembers two                                            *)
(*   browser  three calls of a browser: three pages are opened; or one     *)
(*            is, one is closed, and one is looked at while the user acts  *)
(*   seed     two creations of agents on a workspace: versions,            *)
(*            languages, overwriting                                       *)
(*   shell    two commands and a write of the .env file, or one and two    *)
(*   cli      a terminal and a setup wizard that change one configuration  *)
(*            file; or a terminal with its session                         *)
(*   display  a streamed turn of five events with two tools on a terminal  *)
(*   deck     an unpacked presentation of two slides to which two are      *)
(*            added, with a layout, a chart, notes and themes              *)
(*   runs     every paragraph of up to three children, each a run, a       *)
(*            tracked change, a mark or a gap                              *)
(*   target   commands that look for a kernel among two servers, three     *)
(*            sessions and three kernels while the user makes two changes  *)
(*   clients  object stores of four vendors: a listing by pages of one     *)
(*            with a change beside it, stores that take either signature,  *)
(*            and a probe                                                  *)
(*   skills   the skills of an agent: prompts and calls while the setting  *)
(*            and the skills change, turns of each mode, or the list of    *)
(*            the dashboard                                                *)
(*   guard    calls of file tools with one path or two, in one of three    *)
(*            storages, with rules about a folder that a link leads to     *)
(***************************************************************************)
EXTENDS ObjectStore, WorkspaceFiles, ThinkStream, LiveKernel, FeedWatch,
        BrowserTabs, WorkspaceSeed, ShellEnv, CliSession, OfficeFiles,
        ObjectClients

CONSTANTS w1

VARIABLES part, crew

ObjectsCrew == CASE crew = "writes"  -> {"w1", "w2", "mv"}
                 [] crew = "trees"   -> {"mk", "mv", "rm"}
                 [] crew = "forced"  -> {"w1", "fo", "up"}
                 [] crew = "edits"   -> {"w1", "ed", "fo"}
                 [] crew = "moved"   -> {"w1", "mk", "mv"}
                 [] crew = "deleted" -> {"w1", "mk", "rm"}

KernelCrew == CASE crew = "source" -> {"ra", "al"}
                [] crew = "cell"   -> {"ra", "r1"}
                [] crew = "runs"   -> {"r1", "al"}
                [] crew = "order"  -> {"mb", "al"}
                [] crew = "edits"  -> {"ra", "mb", "ib"}
                [] crew = "gone"   -> {"da", "ca", "r1"}

BrowserCrew == CASE crew = "opens"  -> {"b1", "b2", "b3"}
                 [] crew = "closes" -> {"b2", "bc", "bl"}

SeedCrew == CASE crew = "versions"  -> {"s1", "s2"}
              [] crew = "overwrite" -> {"s1", "s3"}
              [] crew = "both"      -> {"s2", "s3"}

ShellCrew == CASE crew = "commands" -> {"x1", "x2", "w1"}
               [] crew = "files"    -> {"x1", "w1", "w2"}

CliCrew == CASE crew = "files"   -> Terminals
             [] crew = "session" -> {"cl1"}

TargetCrew == CASE crew = "fresh" -> {"tk1"}
                [] crew = "again" -> {"tk5"}
                [] crew = "ask"   -> {"tk2"}
                [] crew = "named" -> {"tk3"}
                [] crew = "list"  -> {"tk4"}

ClientsCrew == CASE crew = "listings"   -> TRUE
                 [] crew = "signatures" -> FALSE
                 [] crew = "probe"      -> FALSE

MCKindOf == [w1 |-> "write", w2 |-> "write", mv |-> "move", mk |-> "mkdir", rm |-> "delete",
             fo |-> "force", up |-> "upload", ed |-> "edit"]

MCPieces    == {<<"<">>, <<"t", ">">>, <<"t", "g", ">">>, <<"/", "t", ">">>, <<"x">>, <<"<", "t", ">">>}
MCOpenTags  == {<<"<", "t", ">">>, <<"<", "t", "g", ">">>}
MCCloseTags == {<<"<", "/", "t", ">">>, <<"<", "/", "t", "g", ">">>}
MCCells  == <<"a", "b">>

MCEditOf == [c \in Commands |->
               [kind |-> CASE c = "ra" -> "replace" [] c = "mb" -> "move" [] c = "ib" -> "insert"
                           [] c = "da" -> "delete" [] c = "ca" -> "clear" [] OTHER -> "run",
                id   |-> IF c = "mb" THEN "b" ELSE "a"]]

BrowserTurn ==
    /\ BrowserNext
    /\ \A b \in Browsings \ BrowserCrew : browsing'[b].at = "idle"
    /\ crew = "opens" => touches' = 0

MCActionOf == [b \in Browsings |-> CASE b = "b1" -> "navigate" [] b = "bc" -> "close_tab" [] b = "bl" -> "look" [] OTHER -> "new_tab"]
MCPageOf   == [b \in Browsings |-> IF b = "b2" THEN "far" ELSE "root"]
MCSiteOf   == [p \in Pages |-> IF p = "far" THEN "t" ELSE "s"]
MCLandsOn  == [root |-> {"root", "login"}, login |-> {"login"}, far |-> {"far", "login"}]
MCVersionOf  == [i \in Inits |-> IF i = "s2" THEN 2 ELSE 1]
MCLanguageOf == [i \in Inits |-> IF i = "s1" THEN "en" ELSE "zh"]
MCFilesOf    == <<{"b"}, {"b", "n"}>>
MCMergeOf   == [w \in EnvWrites |-> TRUE]
MCUpdateOf  == [w \in EnvWrites |-> IF w = "w1" THEN {"a"} ELSE {"b"}]
MCRemoveOf  == [w \in EnvWrites |-> IF w = "w1" THEN {"b"} ELSE {"a"}]
MCValueOf   == [w \in EnvWrites |-> [text |-> w, quotes |-> IF w = "w1" THEN 0 ELSE 1, blanks |-> FALSE]]
MCFirstFile == [k \in EnvKeys |-> [text |-> k, quotes |-> 1, blanks |-> k = "c"]]

CliTurn ==
    /\ CliNext
    /\ \A p \in Terminals \ CliCrew : terminal'[p] = terminal[p]
    /\ crew = "files" => session' = session /\ lastSent' = lastSent
    /\ crew = "session" => \A p \in Terminals : terminal'[p].cmd \in {"none", "create"}

MCFirstConfig == [agents |-> {"main"}, default |-> "main", rest |-> TRUE]

MCDeckParts == {Slide(n) : n \in 1..4} \cup {<<"media", n>> : n \in 1..5} \cup {<<"theme", n>> : n \in 1..2}
               \cup {<<"charts", 1>>, <<"drawings", 1>>, <<"embeddings", 1>>, <<"notesSlides", 1>>, <<"slideLayouts", 1>>}

Leads(S) == {[to |-> f, absolute |-> FALSE] : f \in S}

MCDeckRels == [f \in DeckParts |->
    CASE f = Slide(1)            -> Leads({<<"slideLayouts", 1>>, <<"charts", 1>>, <<"notesSlides", 1>>, <<"media", 1>>, Slide(2)})
      [] f = Slide(2)            -> Leads({<<"slideLayouts", 1>>}) \cup {[to |-> <<"media", 4>>, absolute |-> TRUE]}
      [] f = <<"charts", 1>>       -> Leads({<<"embeddings", 1>>, <<"drawings", 1>>})
      [] f = <<"drawings", 1>>     -> Leads({<<"media", 2>>})
      [] f = <<"slideLayouts", 1>> -> Leads({<<"media", 3>>})
      [] f = <<"notesSlides", 1>>  -> Leads({Slide(1), <<"media", 5>>})
      [] OTHER -> NoRels]

MCDeckEntry(n) == [id |-> 255 + n, rid |-> n, meant |-> Slide(n), stale |-> FALSE, twin |-> FALSE]

MCFirstDeck ==
    [files |-> DeckParts \ {Slide(3), Slide(4)}, rels |-> MCDeckRels, pres |-> {<<1, Slide(1)>>, <<2, Slide(2)>>},
     list |-> {MCDeckEntry(1), MCDeckEntry(2)}, types |-> {Slide(1), Slide(2), <<"charts", 1>>, <<"notesSlides", 1>>, <<"theme", 2>>}]

MCPresTargets == {<<"theme", 1>>}
Txt(t) == [kind |-> "t", text |-> t, keep |-> AtEdge(t)]
MCRun(f, b) == [kind |-> "run", format |-> f, body |-> b]

MCRunsDrawn == {MCRun("f", <<Txt(<<"a">>)>>), MCRun("f", <<Txt(<<"b", " ">>), [kind |-> "br"], Txt(<<" ">>)>>),
                MCRun("g", <<Txt(<<" ", "c">>)>>), MCRun("g", <<>>)}

MCChange(t, a, b) == [kind |-> t, author |-> a, runs |-> <<MCRun("f", b)>>]
MCChangesDrawn == {MCChange("ins", "x", <<Txt(<<"d">>)>>), MCChange("ins", "y", <<Txt(<<" ", "e">>)>>), MCChange("del", "x", <<Txt(<<"h">>)>>)}
MCTask(o, po, p, s, k) == [op |-> o, port |-> po, path |-> p, session |-> s, kernel |-> k]

MCTaskOf == [c \in KernelTasks |->
    CASE c = "tk1" -> MCTask("rerun", 1, "p", Unset, Unset)
      [] c = "tk2" -> MCTask("variables", Unset, Unset, Unset, "k2")
      [] c = "tk3" -> MCTask("execute", Unset, "p", "s1", Unset)
      [] c = "tk4" -> MCTask("notebooks", 1, Unset, Unset, Unset)
      [] c = "tk5" -> MCTask("restart", 1, "q", Unset, Unset)]

MCHosts == <<1, 2>>
MCLive(i, p, k) == [host |-> 1, id |-> i, path |-> p, kernel |-> k]
MCFirstSessions == <<MCLive("s1", "p", "k1"), MCLive("s2", "q", "k2"), MCLive("s3", Unset, "k2")>>
MCKeyOrder == << <<"a">>, <<"a", "">>, <<"a", "x">>, <<"a", "y">>, <<"b">> >>
MCFirstKeys == {{<<"a", "">>, <<"a", "x">>, <<"a", "y">>, <<"b">>}, {<<"a">>, <<"a", "x">>, <<"b">>}}
MCBucket(l, o, m, b) == [takes |-> [list |-> l, object |-> o], missing |-> m, marks |-> b]
MCPlain(m, b) == MCBucket({"s3v4"}, {"s3v4"}, m, b)
MCStoresDrawn == {MCBucket(l, o, m, TRUE) : l, o \in SUBSET Signatures, m \in SUBSET {"v1", "v2"}} \cup {MCPlain({"v2"}, FALSE), MCPlain({}, FALSE)}
MCBodies == {[bytes |-> "binary", envelope |-> TRUE], [bytes |-> "lookalike", envelope |-> FALSE]}

MCClientsInit ==
    /\ ClientsInit
    /\ CASE crew = "listings" ->
              /\ bucketStore \in {MCPlain(m, b) : m \in {{}, IF vendor = "s3" THEN {"v2"} ELSE {}}, b \in BOOLEAN}
              /\ vendor \in {"obs", "oss"} => bucketStore.marks
         [] crew = "signatures" -> vendor = "s3" /\ bucketStore.marks /\ Cardinality(DOMAIN blobs) = 3
         [] crew = "probe"      -> bucketStore = MCPlain({}, TRUE) /\ Cardinality(DOMAIN blobs) = 3

MCClientsNext ==
    /\ ClientsNext
    /\ IF crew = "probe" THEN listing' = listing ELSE probe' = probe
    /\ crew = "signatures" => listing' = listing

MCSkill(n) == [name |-> n, removed |-> FALSE]
MCSkillsDrawn == {NoSkill, MCSkill("a"), MCSkill("x"), [name |-> "x", removed |-> TRUE]}
MCPlainStock == [p \in 1..2 |-> [s \in Slugs |-> IF p = 2 THEN NoSkill ELSE MCSkill(IF s = "a" THEN "a" ELSE "x")]]

MCUseRequests == {[mode |-> m, override |-> o, allow |-> a, extra |-> e] :
                     m \in {"none", "plan", "other"}, o \in {"none", "ask", "craft"}, a \in {NoAllowList, {"a"}}, e \in {{}, {"mcp"}}}

MCToolCall(n, s, h, p) == [name |-> n, slugs |-> s, how |-> h, path |-> p]

MCToolCalls ==
    {MCToolCall("srv/read_file", s, "inSkills", "other") : s \in SUBSET Slugs}
    \cup {MCToolCall("write_file", {}, "none", p) : p \in {"plan", "other"}} \cup {MCToolCall("write_file", {}, "inSkills", "other")}
    \cup {MCToolCall("execute", s, "inSkills", "other") : s \in {{}, {"a"}}} \cup {MCToolCall("mcp", {"a"}, "inSkills", "other"), MCToolCall("read_file", {}, "none", "other")}

MCBaseOf == [n \in {"read_file", "srv/read_file", "write_file", "execute", "mcp"} |-> IF n = "srv/read_file" THEN "read_file" ELSE n]

MCUseInit ==
    /\ UseInit
    /\ CASE crew = "modes"     -> stocked = MCPlainStock /\ banned \in {{}, {"a"}}
         [] crew = "prompts"   -> /\ banned = {} /\ stocked[2]["b"] = NoSkill /\ stocked[1]["a"] # NoSkill /\ stocked[1]["b"] \in {NoSkill, MCSkill("x")}
                                  /\ \A p \in 1..2 : stocked[p]["a"] \in {NoSkill, MCSkill("a"), MCSkill("x")}
         [] crew = "catalogue" -> banned = {} /\ stocked[1]["a"] = MCSkill("a") /\ stocked[1]["b"] \in {NoSkill, MCSkill("x")} /\ stocked[2]["b"] = NoSkill

MCUseNext ==
    /\ UseNext
    /\ CASE crew = "prompts"   -> /\ overview' = overview /\ Len(talk') < 4
                                  /\ asked' \in [mode : {"craft"}, allow : {NoAllowList, {"a"}}, extra : {{}}]
                                  /\ \A i \in 1..Len(request') : request'[i].kind # "note"
                                  /\ call' # NoCall => call'.what.name = "srv/read_file" /\ call'.what.slugs # {}
                                  /\ stocked' # stocked => unchanged
         [] crew = "modes"     -> overview' = overview /\ stocked' = stocked /\ banned' = banned /\ (talk # <<>> => asked' = asked)
         [] crew = "catalogue" -> asked' = asked /\ Len(talk') < 2 /\ Cardinality(overview'.failed) < 2 /\ (stocked' # stocked => unchanged /\ overview # [left |-> 0, rows |-> {}, failed |-> {}, quiet |-> FALSE])

MCGuardPath(from, s) == [at |-> from, steps |-> s]

MCGuardPaths ==
    {MCGuardPath("rel", s) : s \in {<<"MEMORY.md">>, <<"docs", "..", "memory.md">>, <<"..", "x">>, <<".">>, <<"docs", "n">>, <<"skills", "n">>}}
    \cup {MCGuardPath("abs", s) : s \in {<<>>, <<"MEMORY.md">>, <<"srv", ".octop", "a", "MEMORY.md">>, <<".octop", "a", "memory.md">>,
                                         <<"etc">>, <<"etc", "x">>, <<"private", "etc", "x">>, <<"private", "etc", ".octop">>}}
    \cup {MCGuardPath("home", <<"n">>), MCGuardPath("home", <<"..", "a", "MEMORY.md">>),
          MCGuardPath("drive", <<"old", "MEMORY.md">>), MCGuardPath("drive", <<"gone", "docs", "n">>), MCGuardPath("drive", <<"gone">>)}

MCGuardBases == {MCGuardPath("rel", <<"docs">>), MCGuardPath("abs", <<"srv", ".octop", "a", "docs">>), MCGuardPath("abs", <<"etc">>),
                 MCGuardPath("blank", <<>>)}

MCGuardArgs(tool) ==
    LET one(k)  == {[x \in {k} |-> p] : p \in MCGuardPaths}
        two(k)  == {[x \in {k, "base"} |-> IF x = k THEN p ELSE b] : p \in {q \in MCGuardPaths : q.at \in {"rel", "drive"}}, b \in MCGuardBases}
    IN CASE tool \in {"ls", "glob"} -> one("path") \cup two("path") \cup {<<>>}
         [] tool = "move_file" -> {[x \in {"source", "destination"} |-> IF x = k THEN p ELSE MCGuardPath("rel", <<"docs", "n">>)] :
                                     p \in MCGuardPaths, k \in {"source", "destination"}}
         [] tool = "execute" -> {<<>>} \cup one("base") \cup {[x \in {"base"} |-> b] : b \in MCGuardBases}
         [] OTHER -> one("file_path") \cup two("file_path")

MCGuardCall(t, a, w, e) == [tool |-> t, args |-> a, wide |-> w, ends |-> e]

MCToolCallsDrawn ==
    UNION {{MCGuardCall(t, a, t = "glob", "well") : a \in MCGuardArgs(t)} :
              t \in {"ls", "read_file", "glob", "write_file", "delete", "append_file", "move_file", "execute"}}
    \cup {MCGuardCall(t, [x \in {"file_path"} |-> MCGuardPath("rel", <<"docs", "n">>)], FALSE, e) :
              t \in {"read_file", "edit_file", "append_file"}, e \in {"outside", "wrong"}}
    \cup {MCGuardCall("glob", <<>>, w, "well") : w \in BOOLEAN}

MCGuardRule(o, f, m) == [operations |-> o, folder |-> f, mode |-> m]

MCGuardRules ==
    LET both == {"read", "write"} IN
    {<<>>, <<MCGuardRule(both, <<"etc">>, "deny")>>, <<MCGuardRule({"write"}, <<"private">>, "deny")>>,
     <<MCGuardRule({"read"}, <<"private", "etc">>, "allow"), MCGuardRule(both, <<"etc">>, "deny")>>}

MCGuardsDrawn ==
    {[kind |-> p[1], root |-> p[2], workspace |-> p[3], shown |-> p[4], locked |-> l, rules |-> r] :
        p \in {<<"host", <<>>, <<"srv", ".octop", "a">>, <<"srv", ".octop", "a">> >>,
               <<"scoped", <<"srv">>, <<"srv", ".octop", "a">>, <<".octop", "a">> >>,
               <<"scoped", <<"srv">>, <<"srv", ".octop", "a">>, <<"srv", ".octop", "a">> >>,
               <<"sandbox", <<>>, <<"home", "a">>, <<"home", "a">> >>},
        l \in BOOLEAN, r \in MCGuardRules}

MCSameName == [x \in {"memory.md"} |-> "MEMORY.md"]
MCLinkedFolder == <<"etc">>
MCLinkTarget == <<"private", "etc">>
MCFilesThere == {<<"srv", ".octop", "a", "n">>, <<"srv", ".octop", "a", "docs", "n">>, <<"srv", ".octop", "a", "MEMORY.md">>, <<"srv", "docs", "n">>, <<"private", "etc", "x">>}
MCProcessDir == <<"home", "u">>
MCHomeDir == <<"srv", ".octop", "u">>
MCContainerRoot == <<"workspace">>

Crews == [objects |-> {"writes", "trees", "forced", "edits", "moved", "deleted"},
          kernel  |-> {"source", "cell", "runs", "order", "edits", "gone"},
          browser |-> {"opens", "closes"},
          seed    |-> {"versions", "overwrite", "both"},
          shell   |-> {"commands", "files"},
          cli     |-> {"files", "session"},
          target  |-> {"fresh", "again", "ask", "named", "list"},
          clients |-> {"listings", "signatures", "probe"},
          skills  |-> {"prompts", "modes", "catalogue"}]

partVars == <<part, crew>>
mcVars == <<objectVars, workspaceVars, streamVars, kernelVars, watchVars,
            browserVars, seedVars, envVars, cliVars, displayTurnVars,
            deckVars, runVars, targetVars, clientVars, useVars, guardVars,
            partVars>>

Off == "off"

MCInit ==
    /\ part \in {"files", "stream", "watch", "display", "deck", "runs", "guard"} \cup DOMAIN Crews
    /\ crew \in IF part \in DOMAIN Crews THEN Crews[part] ELSE {"all"}
    /\ ObjectInit
    /\ IF part = "files" THEN WorkspaceInit
       ELSE /\ layout = Off /\ copies = Off /\ current = Off /\ writes = Off /\ reader = Off
            /\ cacheCopy = Off /\ spans = Off /\ troubled = Off
    /\ IF part = "stream" THEN ThinkInit
       ELSE /\ heldText = Off /\ thinking = Off /\ text = Off /\ thought = Off /\ rest = Off
            /\ arrived = Off /\ pieces = Off /\ speaker = Off /\ mixed = Off
    /\ IF part = "kernel" THEN KernelInit
       ELSE /\ notebook = Off /\ puts = Off /\ command = Off /\ queued = Off /\ executed = Off
            /\ torn = Off /\ halted = Off /\ overwritten = Off /\ putBetween = Off
    /\ WatchInit
    /\ IF part = "browser" THEN BrowserInit
       ELSE /\ tabs = Off /\ front = Off /\ browsing = Off /\ recent = Off /\ recorded = Off
            /\ touches = Off /\ disturbed = Off /\ excused = Off
    /\ IF part = "seed" THEN SeedInit
       ELSE /\ doc = Off /\ skill = Off /\ stamp = Off /\ seeding = Off /\ edited = Off
            /\ misread = Off /\ editRaced = Off /\ copiedIn = Off /\ partial = Off /\ together = Off
    /\ ShellInit
    /\ part # "shell" => jail
    /\ IF part = "cli" THEN CliInit
       ELSE /\ config = Off /\ cutOff = Off /\ terminal = Off /\ session = Off /\ lastSent = Off
            /\ made = Off /\ clobbered = Off /\ implied = Off
    /\ IF part = "display" THEN ShowInit
       ELSE /\ shows = Off /\ buffer = Off /\ printedText = Off /\ fed = Off /\ pendings = Off
            /\ toolsDone = Off /\ begun = Off /\ events = Off /\ stream = Off /\ again = Off
    /\ IF part = "deck" THEN DeckInit
       ELSE /\ deck = Off /\ lines = Off /\ added = Off /\ tidy = Off /\ needed = Off
            /\ sure = Off
    /\ IF part = "runs" THEN RunsInit
       ELSE /\ before = Off /\ change = Off /\ place = Off
    /\ IF part = "target" THEN TargetInit
       ELSE /\ host = Off /\ sessions = Off /\ kernel = Off /\ task = Off /\ moves = Off
            /\ executions = Off /\ open = Off
    /\ IF part = "clients" THEN MCClientsInit
       ELSE /\ vendor = Off /\ bucketStore = Off /\ blobs = Off /\ client = Off /\ listing = Off
            /\ strangers = Off /\ steady = Off /\ seen = Off /\ skipped = Off /\ pageCut = Off
            /\ got = Off /\ probe = Off
    /\ IF part = "skills" THEN MCUseInit
       ELSE /\ stocked = Off /\ banned = Off /\ loadedOnce = Off /\ unchanged = Off /\ asked = Off
            /\ promptSkills = Off /\ promptedUnder = Off /\ call = Off /\ written = Off /\ talk = Off
            /\ request = Off /\ earlier = Off /\ overview = Off
    /\ IF part = "guard" THEN GuardInit
       ELSE /\ toolCall = Off /\ guard = Off

MCNext ==
    /\ UNCHANGED partVars
    /\ IF part = "objects"
         THEN ObjectNext /\ \A a \in FileOps \ ObjectsCrew : fileOp'[a].at = "idle"
         ELSE UNCHANGED objectVars
    /\ IF part = "files" THEN WorkspaceNext ELSE UNCHANGED workspaceVars
    /\ IF part = "stream" THEN ThinkNext ELSE UNCHANGED streamVars
    /\ IF part = "kernel"
         THEN KernelNext /\ \A c \in Commands \ KernelCrew : command'[c].at = "idle"
         ELSE UNCHANGED kernelVars
    /\ IF part = "watch" THEN WatchNext ELSE UNCHANGED watchVars
    /\ IF part = "browser" THEN BrowserTurn ELSE UNCHANGED browserVars
    /\ IF part = "seed"
         THEN SeedNext /\ \A i \in Inits \ SeedCrew : seeding'[i].at = "idle"
         ELSE UNCHANGED seedVars
    /\ IF part = "shell"
         THEN ShellNext /\ \A x \in Executions \ ShellCrew : execution'[x].at = "idle" /\ \A w \in EnvWrites \ ShellCrew : envWrite'[w].at = "idle"
         ELSE UNCHANGED envVars
    /\ IF part = "cli" THEN CliTurn ELSE UNCHANGED cliVars
    /\ IF part = "display" THEN ShowNext ELSE UNCHANGED displayTurnVars
    /\ IF part = "deck" THEN DeckNext ELSE UNCHANGED deckVars
    /\ part # "runs" /\ UNCHANGED runVars
    /\ IF part = "target"
         THEN TargetNext /\ \A c \in KernelTasks \ TargetCrew : task'[c] = task[c]
         ELSE UNCHANGED targetVars
    /\ IF part = "clients" THEN MCClientsNext ELSE UNCHANGED clientVars
    /\ IF part = "skills" THEN MCUseNext ELSE UNCHANGED useVars
    /\ part # "guard" /\ UNCHANGED guardVars

\* Every variable of the part that moves has its type.
MCTypeOK ==
    /\ part = "objects" => ObjectTypeOK
    /\ part = "files"   => WorkspaceTypeOK
    /\ part = "stream"  => ThinkTypeOK
    /\ part = "kernel"  => KernelTypeOK
    /\ part = "watch"   => WatchTypeOK
    /\ part = "browser" => BrowserTypeOK
    /\ part = "seed"    => SeedTypeOK
    /\ part = "shell"   => ShellTypeOK
    /\ part = "cli"     => CliTypeOK
    /\ part = "display" => ShowTypeOK
    /\ part = "deck"    => DeckTypeOK
    /\ part = "runs"    => RunsTypeOK
    /\ part = "target"  => TargetTypeOK
    /\ part = "clients" => ClientsTypeOK
    /\ part = "skills"  => UseTypeOK
    /\ part = "guard"   => GuardTypeOK

\* Reads of a workspace give what was written last, what the user has edited is
\* not replaced by what is packaged, hidden skills cannot be read, documents
\* kept by hand are not changed and denied folders not reached, and a listing
\* by pages misses nothing that stays (backends/workspace.py, init.py,
\* middleware/skill_filter.py, middleware/filesystem_guard.py,
\* backends/s3_backend.py).
FilesServe ==
    /\ part = "files"   => ReadsAreCurrent
    /\ part = "seed"    => WorkspaceSeeded
    /\ part = "skills"  => SkillsInForce
    /\ part = "guard"   => GuardHolds
    /\ part = "clients" => ClientsHold

\* Text and thoughts are separated alike wherever the stream is cut, a terminal
\* shows all of the text on one display, and terminals that share a
\* configuration keep their profiles.  Edits and outputs of a live notebook
\* last, and a command reaches the server, session and kernel that were typed
\* or guesses nothing; a tab that shows the page is used again, a presentation
\* keeps the parts its slides need, and runs are merged without a change of
\* text (protocols/, cli/, scripts of the builtin skills and tools).
SurfacesServe ==
    /\ part = "stream"  => CutsDoNotShow
    /\ part = "display" => DisplayServes
    /\ part = "cli"     => SessionServes
    /\ part = "kernel"  => NotebookKept
    /\ part = "target"  => TargetsHold
    /\ part = "browser" => TabsReused
    /\ part = "deck"    => DeckHolds
    /\ part = "runs"    => RunsHold

MCSpec == MCInit /\ [][MCNext]_mcVars
=============================================================================
