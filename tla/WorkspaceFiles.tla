--------------------------- MODULE WorkspaceFiles ---------------------------
(***************************************************************************)
(* Where BackendWorkspace looks for a file and where it keeps it           *)
(* (backends/workspace.py), for one file.                                  *)
(*                                                                         *)
(* A write, a delete and a move go to one place.  A read goes through a    *)
(* list of places, which also knows where earlier versions of the harness  *)
(* kept the file.  In an object store a file that is read is first brought *)
(* into a delivery cache of the host, which all reads share; a read of the *)
(* store may fail, and the next place is tried.                            *)
(*                                                                         *)
(* Reads run on threads.  An action of a read is one request to the store  *)
(* or one operation on the file of the cache.                              *)
(***************************************************************************)
EXTENDS Naturals, Sequences

LOCAL INSTANCE SequencesExt
LOCAL INSTANCE Functions

CONSTANTS
    Readers,     \* reads
    FileWrites   \* bound: number of writes

ASSUME WorkspaceAssumption == FileWrites \in Nat

\* What the storage is: an object store; a host directory with its root above
\* the workspace (virtual_mode), or none above it.
Storages == {"cloud", "scoped", "host"}

\* The path asked for: of a file of the user; of skills or agents; of another
\* system file; of a system file with the prefix of system files.  The prefix
\* may be not set.
PathKinds == {"user", "skills", "system", "prefixed"}

VARIABLES
    layout,   \* storage, path and whether the prefix is set
    copies,   \* version at each place: 0 none, 1 older, above 1 of a write
    current,  \* version of the last write, 0 when there is none or it was deleted
    writes,   \* number of writes
    reader,   \* of a read: where it is, places to look at, version it downloaded or returned
    cacheCopy, \* version in the delivery cache, 0 an empty file
    spans,    \* history: versions current during the read
    troubled  \* history: reads of which a request failed, or that met another read

readVars == <<reader, cacheCopy, spans, troubled>>
workspaceVars == <<layout, copies, current, writes, readVars>>

\* A fragment below a site.
Places == {"canonical", "legacy"} \X {"nested", "flat", "root", "workspace"}

Versions == 0..FileWrites + 1
Older    == 1
Empty    == 0
NotFound == FileWrites + 2

-----------------------------------------------------------------------------
\* Variant with a fault: as system_read_roots has them for a listing.
FragmentsOldFirst ==
    IF layout.prefix /\ layout.asked \in {"skills", "prefixed"} THEN <<"legacy", "canonical">> ELSE <<"canonical">>

\* _read_fragments
Fragments ==
    IF layout.prefix /\ layout.asked \in {"skills", "prefixed"} THEN <<"canonical", "legacy">> ELSE <<"canonical">>

\* _iter_materialize_candidates and _candidate_storage_keys
Sites == CASE layout.storage = "cloud"  -> <<"nested", "flat">>
           [] layout.storage = "scoped" -> <<"root", "workspace">>
           [] layout.storage = "host"   -> <<"workspace">>

\* _backend_storage_key, _mutation_storage_key
Home == <<"canonical", IF layout.storage = "cloud" THEN "nested" ELSE "workspace">>

\* What a read tries, in order: a download into the cache, or the place.
Tries ==
    LET of(f) == [i \in 1..Len(Sites) |-> [how |-> "look", place |-> <<f, Sites[i]>>]]
        fetch(f) == IF layout.storage = "cloud" THEN <<[how |-> "fetch", place |-> <<f, "nested">>]>> ELSE <<>>
    IN FlattenSeq([i \in 1..Len(Fragments) |-> fetch(Fragments[i]) \o of(Fragments[i])])

WorkspaceTypeOK ==
    /\ layout \in [storage : Storages, asked : PathKinds, prefix : BOOLEAN]
    /\ copies \in [Places -> Versions] /\ current \in Versions /\ writes \in 0..FileWrites
    /\ \A r \in Readers :
          /\ reader[r].at \in {"idle", "trying", "clear", "fill", "open", "ended"}
          /\ reader[r].version \in Versions \cup {NotFound}
    /\ cacheCopy \in Versions
    /\ spans \in [Readers -> SUBSET Versions] /\ troubled \subseteq Readers

\* Files of earlier versions may be anywhere but at their place.
WorkspaceInit ==
    /\ layout \in [storage : Storages, asked : PathKinds, prefix : BOOLEAN]
    /\ copies \in [Places -> {0, Older}]
    /\ \A p \in Places :
          copies[p] # 0 => p # Home /\ p \in {Tries[i].place : i \in 1..Len(Tries)}
    /\ current = 0 /\ writes = 0 /\ cacheCopy = Empty
    /\ reader = [r \in Readers |-> [at |-> "idle", tries |-> <<>>, version |-> 0]]
    /\ spans = [r \in Readers |-> {}] /\ troubled = {}

Reading(r) == reader[r].at \notin {"idle", "ended"}

\* The file is at its place in version v from now on.
Stored(v) ==
    /\ copies' = [copies EXCEPT ![Home] = v]
    /\ current' = v
    /\ spans' = [r \in Readers |-> IF Reading(r) THEN spans[r] \cup {v} ELSE spans[r]]
    /\ UNCHANGED <<layout, reader, cacheCopy, troubled>>

\* upload_bytes(), write_text(force=True); also write_text(), which is refused
\* only when the file is at its place, whatever is elsewhere.
Overwrite == writes < FileWrites /\ writes' = writes + 1 /\ Stored(writes + 2)

\* delete(), or move() to another path.
Discard == current # 0 /\ UNCHANGED writes /\ Stored(0)

-----------------------------------------------------------------------------
ReadsOn(r, l, tries, v) == reader' = [reader EXCEPT ![r] = [at |-> l, tries |-> tries, version |-> v]]

\* read_text(), download_bytes().  Two reads at a time use one file of the
\* cache.
StartRead(r) ==
    /\ reader[r].at = "idle"
    /\ ReadsOn(r, "trying", Tries, 0)
    /\ spans' = [spans EXCEPT ![r] = {current}]
    /\ LET others == {x \in Readers \ {r} : Reading(x) /\ layout.storage = "cloud"} IN
       troubled' = troubled \cup others \cup (IF others = {} THEN {} ELSE {r})
    /\ UNCHANGED <<layout, copies, current, writes, cacheCopy>>

\* The next place: its copy is returned, or downloaded; or there is none.  The
\* store may fail, which is taken for none.
TryNext(r) ==
    /\ reader[r].at = "trying"
    /\ LET tries == reader[r].tries IN
       \/ /\ tries = <<>>
          /\ ReadsOn(r, "ended", <<>>, NotFound)
          /\ UNCHANGED troubled
       \/ /\ tries # <<>>
          /\ LET v == copies[Head(tries).place] IN
             IF v = 0 THEN ReadsOn(r, "trying", Tail(tries), 0)
             ELSE IF Head(tries).how = "fetch" THEN ReadsOn(r, "clear", Tail(tries), v)
             ELSE ReadsOn(r, "ended", <<>>, v)
          /\ UNCHANGED troubled
       \/ /\ tries # <<>> /\ layout.storage = "cloud"
          /\ ReadsOn(r, "trying", Tail(tries), 0)
          /\ troubled' = troubled \cup {r}
    /\ UNCHANGED <<layout, copies, current, writes, cacheCopy, spans>>

\* _materialize_via_download: the file is emptied and written, and then read
\* by its path.
CacheStep(r) ==
    LET tries == reader[r].tries
        v     == reader[r].version IN
    /\ \/ reader[r].at = "clear" /\ cacheCopy' = Empty /\ ReadsOn(r, "fill", tries, v)
       \/ reader[r].at = "fill" /\ cacheCopy' = v /\ ReadsOn(r, "open", tries, v)
       \/ reader[r].at = "open" /\ ReadsOn(r, "ended", <<>>, cacheCopy) /\ UNCHANGED cacheCopy
    /\ UNCHANGED <<layout, copies, current, writes, spans, troubled>>

WorkspaceNext ==
    \/ Overwrite \/ Discard
    \/ \E r \in Readers : StartRead(r) \/ TryNext(r) \/ CacheStep(r)

WorkspaceSpec == WorkspaceInit /\ [][WorkspaceNext]_workspaceVars

-----------------------------------------------------------------------------
(***************************************************************************)
(* Properties.                                                             *)
(***************************************************************************)

\* Is there a file of the same relative path at the root of the storage?
Shadowed == layout.storage = "scoped" /\ \E f \in {"canonical", "legacy"} : copies[<<f, "root">>] # 0

\* A read returns a version the file had while it was read, or what an earlier
\* version of the harness has left if it had none; and not nothing when it had
\* one.  The exceptions: a file at the root of the storage hides the one of the
\* workspace; a failing request of the store is taken for an absent file; two
\* reads at a time empty and fill each other's file of the cache.
ReadsAreCurrent ==
    \A r \in Readers : reader[r].at = "ended" /\ r \notin troubled /\ ~Shadowed =>
        \/ reader[r].version \in spans[r] \ {0}
        \/ 0 \in spans[r] /\ reader[r].version \in {Older, NotFound}

-----------------------------------------------------------------------------
(***************************************************************************)
(* The guard before the file tools of an agent                             *)
(* (middleware/filesystem_guard.py).  A call of the model is made absolute,*)
(* a path left over from Windows is looked for in the storage, and then    *)
(* the call is refused or run.  No state: the variables are the inputs.    *)
(*                                                                         *)
(* A path is written from the root ("abs"), from nowhere ("rel"), from     *)
(* the user's home ("home") or from a drive of Windows ("drive"); of a     *)
(* host without drives.                                                    *)
(***************************************************************************)
CONSTANTS
    ToolCallsDrawn,  \* [tool, args, wide, ends]: paths by argument; a pattern without a folder; how the tool ends
    GuardsDrawn,     \* [kind, root, workspace, shown, locked, rules]: kind is "host", "scoped" or "sandbox"
    SystemFolder, SystemNames,  \* ".octop", and what is kept below it
    ManualDocuments, \* MEMORY.md and USER.md
    SameName,        \* names that are written in another case, and how they are folded
    LinkedFolder, LinkTarget,   \* a symbolic link of the host
    FilesThere,      \* of the host, by their real paths
    ProcessDir, HomeDir, ContainerRoot

VARIABLES toolCall, guard

guardVars == <<toolCall, guard>>

GuardInit == toolCall \in ToolCallsDrawn /\ guard \in GuardsDrawn

FileTools    == {"ls", "read_file", "glob", "grep", "write_file", "edit_file", "delete"}
FileWriting  == {"write_file", "edit_file", "delete"}
ContentTools == {"write_file", "edit_file", "append_file"}
RemoveTools  == {"delete", "delete_file", "move_file"}

At(from, steps) == [at |-> from, steps |-> steps]
Unwritten == At("blank", <<>>)
IsAbsolute(p) == p.at # "rel"

\* posixpath.normpath()
Normal(p) ==
    LET Step(s, x) == IF x = "." THEN s
                      ELSE IF x # ".." THEN Append(s, x)
                      ELSE IF s # <<>> /\ s # <<"..">> THEN Front(s)
                      ELSE IF p.at = "abs" THEN s ELSE <<"..">>
    IN [p EXCEPT !.steps = FoldLeft(Step, <<>>, @)]

\* _relative_to_base()
Joined(base, p) == Normal(At(base.at, base.steps \o p.steps))

-----------------------------------------------------------------------------
(* Where a path leads *)

\* apply_system_files_prefix()
Prefixed(steps) == IF steps # <<>> /\ Head(steps) \in SystemNames THEN <<SystemFolder>> \o steps ELSE steps

\* BackendWorkspace.resolve_path(); nothing for a path outside.
ResolvePath(p) ==
    CASE p.at = "home" -> {Normal(At("abs", HomeDir \o p.steps))}
      [] p.at = "abs"  -> {IF guard.kind = "scoped" /\ ".." \notin ToSet(p.steps)
                             THEN At("abs", guard.root \o Prefixed(p.steps)) ELSE At("abs", Prefixed(p.steps))}
      [] OTHER ->
           LET fragment == IF p.at = "drive" THEN <<"D:">> \o p.steps ELSE p.steps
               there    == Joined(At("abs", guard.workspace), At("rel", Prefixed(fragment)))
           IN IF guard.kind = "sandbox" THEN {At("abs", Prefixed(fragment))}
              ELSE IF IsPrefix(guard.workspace, there.steps) THEN {there} ELSE {}

\* Where the backend finds what a tool is called with; nowhere, if the path is refused.
IsValid(p) == p.at \in {"abs", "rel"} /\ ".." \notin ToSet(p.steps)
LeadsTo(p) ==
    IF ~IsValid(p) THEN {}
    ELSE {IF guard.kind = "scoped" THEN guard.root \o Normal(At("abs", p.steps)).steps ELSE Normal(At("abs", p.steps)).steps}

RealPath(s) ==
    IF IsPrefix(LinkedFolder, s) THEN LinkTarget \o SubSeq(s, Len(LinkedFolder) + 1, Len(s)) ELSE s
IsThere(s) == \E f \in FilesThere : IsPrefix(RealPath(s), f)

-----------------------------------------------------------------------------
(* Making a call absolute *)

\* Variant with a fault: paths are relative to the root of the storage.
RelativeRootTop == At("abs", <<>>)

RelativeRoot == At("abs", IF guard.kind = "sandbox" THEN <<>> ELSE guard.shown)

\* _shell_cwd(): a sandbox has the workspace at a place of its own.
ShellPath(p) ==
    IF guard.kind # "sandbox" THEN p
    ELSE LET inside == Normal(At("abs", IF IsPrefix(ContainerRoot, p.steps) THEN p.steps ELSE ContainerRoot \o p.steps))
         IN IF IsPrefix(ContainerRoot, inside.steps) THEN inside ELSE At("abs", ContainerRoot)

PathKey(args) == IF "file_path" \in DOMAIN args THEN {"file_path"} ELSE {"path"} \cap DOMAIN args

\* What a tool is offered with besides its own arguments: base_dir, or cwd.
Offered(tool) == IF tool \in FileTools \cup {"execute"} THEN {"base"} ELSE {}

RefusesBase(c) == Offered(c.tool) # {} /\ "base" \in DOMAIN c.args /\ c.args.base = Unwritten

\* Variant with a fault: the base is passed on to the tool.
BareWhole(args) == args

Bare(args) == Restrict(args, DOMAIN args \ {"base"})

\* _resolve_relative_paths()
MadeAbsolute(c) ==
    LET given == "base" \in DOMAIN c.args
        base  == IF given THEN c.args.base ELSE RelativeRoot
        bare  == Bare(c.args)
    IN IF c.tool = "execute" /\ given
         THEN [k \in DOMAIN bare \cup {"cd"} |->
                 IF k = "cd" THEN ShellPath(IF IsAbsolute(base) THEN base ELSE Joined(RelativeRoot, base)) ELSE bare[k]]
       ELSE IF c.tool \notin FileTools THEN c.args
       ELSE IF PathKey(bare) = {} /\ c.tool \in {"glob", "grep"}
         THEN [k \in DOMAIN bare \cup {"path"} |-> IF k = "path" THEN RelativeRoot ELSE bare[k]]
       ELSE [k \in DOMAIN bare |-> IF k \in PathKey(bare) /\ ~IsAbsolute(bare[k]) THEN Joined(base, bare[k]) ELSE bare[k]]

-----------------------------------------------------------------------------
(* Paths left over from Windows *)

\* The argument that the rules are about: _path_from_tool_args().
RuledKey(tool, args) == IF tool \in {"ls", "glob", "grep"} THEN {"path"} \cap DOMAIN args ELSE PathKey(args)

Bases == (IF guard.kind = "scoped" THEN <<guard.root>> ELSE <<>>) \o <<guard.shown>>
Tails(s) == {SubSeq(s, i, Len(s)) : i \in 1..Len(s)}
Found(tail) == \E i \in DOMAIN Bases : IsThere(Bases[i] \o tail)

\* Variant with a fault: the last name is looked for first.
LegacyPathShort(p) ==
    IF \E t \in Tails(p.steps) : Found(t)
      THEN At("abs", CHOOSE t \in Tails(p.steps) : Found(t) /\ \A u \in Tails(p.steps) : Found(u) => Len(t) <= Len(u))
    ELSE p

\* rewrite_legacy_windows_fs_path().  A host without drives takes such a path
\* for a name in the directory of the process, whether it is there or not.
LegacyPath(p) ==
    LET taken == {i \in DOMAIN Bases : IsPrefix(Bases[i], ProcessDir)}
        base  == Bases[CHOOSE i \in taken : \A j \in taken : i <= j]
    IN IF taken # {} THEN At("abs", SubSeq(ProcessDir, Len(base) + 1, Len(ProcessDir)) \o <<"D:">> \o p.steps)
       ELSE IF \E t \in Tails(p.steps) : Found(t)
         THEN At("abs", CHOOSE t \in Tails(p.steps) : Found(t) /\ \A u \in Tails(p.steps) : Found(u) => Len(u) <= Len(t))
       ELSE p

\* _rewrite_legacy_windows_request()
Rewritten(tool, args) ==
    [k \in DOMAIN args |->
        IF tool \in FileTools /\ k \in RuledKey(tool, args) /\ args[k].at = "drive" THEN LegacyPath(args[k]) ELSE args[k]]

-----------------------------------------------------------------------------
(* Refusals *)

\* Variant with a fault: every search runs.
GlobBlocksNone(c, args) == FALSE

\* unbounded_glob_block_reason()
GlobBlocks(c, args) ==
    /\ c.tool = "glob" /\ c.wide
    /\ "path" \notin DOMAIN args
         \/ (args.path.at \notin {"abs", "drive"}
             /\ \A r \in ResolvePath(args.path) :
                    guard.kind # "sandbox" /\ ~IsPrefix(guard.workspace, r.steps))

Folded(p) == [Normal(p) EXCEPT !.steps = [i \in DOMAIN @ |-> IF @[i] \in DOMAIN SameName THEN SameName[@[i]] ELSE @[i]]]

\* Variant with a fault: a document is known by its name and its path.
IsManualPlain(p) == \E f \in ManualDocuments : p \in {At("rel", <<f>>), At("abs", <<f>>)}

IsManual(p) ==
    \E f \in ManualDocuments :
        LET spelled == {Folded(x) : x \in {At("rel", <<f>>), At("abs", <<f>>)} \cup ResolvePath(At("rel", <<f>>))}
        IN Folded(p) \in spelled \/ \E r \in ResolvePath(p) : Folded(r) \in spelled

\* _memory_write_block_reason()
MemoryBlocks(tool, args) ==
    /\ tool \in RemoveTools \/ (guard.locked /\ tool \in ContentTools)
    /\ \E k \in DOMAIN args \cap {"file_path", "path", "source", "destination"} : IsManual(args[k])

Operation(tool) == IF tool \in FileWriting THEN "write" ELSE "read"

\* Variant with a fault: a path is matched as it is written.
SpellingsOne(s) == {s}

\* _expand_path_candidates(), _expand_patterns(): the real path too, of what is there.
Spellings(s) == {s} \cup (IF IsThere(s) THEN {RealPath(s)} ELSE {})

\* globmatch() with "**" passes over names that begin with a dot.
Matches(folder, s) == IsPrefix(folder, s) /\ SystemFolder \notin ToSet(SubSeq(s, Len(folder) + 1, Len(s)))
Covers(rule, s) == \E x \in Spellings(s), y \in Spellings(rule.folder) : Matches(y, x)

\* _check_fs_permission(), filesystem_guard_block_reason(): the first rule that covers a path.
RulesBlock(tool, args) ==
    /\ tool \in FileTools
    /\ \E k \in RuledKey(tool, args) :
          /\ IsValid(args[k])
          /\ LET about == {i \in DOMAIN guard.rules : Operation(tool) \in guard.rules[i].operations
                                /\ Covers(guard.rules[i], Normal(At("abs", args[k].steps)).steps)}
             IN about # {} /\ guard.rules[CHOOSE i \in about : \A j \in about : i <= j].mode = "deny"

-----------------------------------------------------------------------------
(* awrap_tool_call() *)

Passed == Rewritten(toolCall.tool, MadeAbsolute(toolCall))

Runs ==
    /\ ~RefusesBase(toolCall)
    /\ ~GlobBlocks(toolCall, Passed)
    /\ ~MemoryBlocks(toolCall.tool, Passed)
    /\ ~RulesBlock(toolCall.tool, Passed)

\* Variant with a fault: every refusal of the storage ends the turn.
SoftensNone(tool) == FALSE

\* _soften_outside_root()
Softens(tool) == tool \in FileTools

Answer ==
    IF ~Runs THEN "told"
    ELSE CASE toolCall.ends = "well"    -> "done"
           [] toolCall.ends = "outside" -> IF Softens(toolCall.tool) THEN "told" ELSE "raised"
           [] OTHER -> "raised"

-----------------------------------------------------------------------------
GuardTypeOK == Answer \in {"told", "done", "raised"} /\ (Runs => \A k \in DOMAIN Passed \ {"base"} : Passed[k].at # "blank")

\* A call that runs does not lead to a document the user keeps by hand, unless
\* it changes the content and the documents are open; however the path is
\* written, made absolute or brought back from Windows.
DocumentsAreKept ==
    Runs /\ (toolCall.tool \in RemoveTools \/ (guard.locked /\ toolCall.tool \in ContentTools)) =>
        \A k \in DOMAIN Passed : \A f \in ManualDocuments :
            (IF guard.kind = "sandbox" THEN <<f>> ELSE guard.workspace \o <<f>>) \notin LeadsTo(Passed[k])

\* Nor to a file below a folder that is denied, by whatever name the folder or
\* the file is reached, unless an earlier rule lets it; hidden names and files
\* that are not there yet excepted.
DenialsHold ==
    Runs /\ toolCall.tool \in FileTools =>
        \A k \in RuledKey(toolCall.tool, Passed) : \A i \in DOMAIN guard.rules :
            LET rule == guard.rules[i]
                s    == Normal(At("abs", Passed[k].steps)).steps
            IN /\ IsValid(Passed[k]) /\ IsThere(s) /\ IsThere(rule.folder)
               /\ rule.mode = "deny" /\ Operation(toolCall.tool) \in rule.operations
               /\ Matches(RealPath(rule.folder), RealPath(s))
               => \E j \in 1..i - 1 : guard.rules[j].mode # "deny" /\ Operation(toolCall.tool) \in guard.rules[j].operations
                                      /\ Covers(guard.rules[j], s)

\* A search for a name alone starts at a folder that is written in full, or in
\* the workspace; without one it is the workspace.
SearchesAreRooted ==
    Runs /\ toolCall.tool = "glob" =>
        /\ toolCall.wide => /\ "path" \in DOMAIN Passed
                            /\ Passed.path.at \in {"rel", "home"} => guard.kind = "sandbox"
                                   \/ \E r \in ResolvePath(Passed.path) : IsPrefix(guard.workspace, r.steps)
        /\ PathKey(toolCall.args) = {} => Passed.path = RelativeRoot

\* A relative path means to a tool what it means to the workspace of the
\* agent.  Names of the system excepted, which the workspace keeps elsewhere,
\* and a workspace that is given by its place on the host although the backend
\* has a root: the tool looks for it below that root.
RelativeIsWorkspace ==
    \A k \in PathKey(toolCall.args) :
        LET p == toolCall.args[k] IN
        /\ toolCall.tool \in FileTools /\ ~RefusesBase(toolCall) /\ "base" \notin DOMAIN toolCall.args
        /\ p.at = "rel" /\ ToSet(p.steps) \cap {"..", "."} = {} /\ Prefixed(p.steps) = p.steps
        /\ ~(guard.kind = "scoped" /\ guard.root \o guard.shown # guard.workspace)
        => {r.steps : r \in ResolvePath(p)} = LeadsTo(Passed[k])

\* A path of Windows becomes the longest end of it that is there, if the
\* process does not run in the storage.
LegacyIsFound ==
    \A k \in DOMAIN Passed \cap DOMAIN toolCall.args :
        /\ toolCall.tool \in FileTools /\ k \in RuledKey(toolCall.tool, toolCall.args) /\ toolCall.args[k].at = "drive"
        /\ \A i \in DOMAIN Bases : ~IsPrefix(Bases[i], ProcessDir)
        => \A t \in Tails(toolCall.args[k].steps) : Found(t) => Passed[k].at = "abs" /\ Len(Passed[k].steps) >= Len(t)

\* What the model is offered the tool never sees, and no refusal of the guard
\* or of the storage ends the turn of a file tool.
GuardGivesWay ==
    /\ Runs => DOMAIN Passed \cap Offered(toolCall.tool) = {}
    /\ toolCall.tool \in FileTools /\ toolCall.ends # "wrong" => Answer # "raised"

GuardHolds ==
    /\ DocumentsAreKept /\ DenialsHold /\ SearchesAreRooted
    /\ RelativeIsWorkspace /\ LegacyIsFound /\ GuardGivesWay
=============================================================================
