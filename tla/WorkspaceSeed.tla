--------------------------- MODULE WorkspaceSeed ---------------------------
(***************************************************************************)
(* Laying out a workspace (init.py: _seed_workspace, builtin/_sync.py).    *)
(*                                                                         *)
(* Every creation of an agent, and octop init, puts the packaged files     *)
(* into the workspace: templates, which belong to the user from then on,   *)
(* if they are not there, and the packaged skills, of which a version file *)
(* that is written last says that they are complete.  Several processes    *)
(* and agents, of several versions and languages, may share a workspace,   *)
(* which may be a store whose requests fail.                               *)
(*                                                                         *)
(* A skill file is the version and the language it came with.              *)
(***************************************************************************)
EXTENDS Naturals, FiniteSets, Sequences

CONSTANTS
    Inits,       \* calls of init_workspace()
    VersionOf,   \* version of the package
    LanguageOf,  \* "en" or "zh"
    Overwriting, \* those with overwrite
    Templates,   \* files of the user: markdown templates and manifests of agents
    AgentFiles,  \* of these, the manifests, laid out last
    SkillFiles,  \* files of packaged skills in any version
    FilesOf,     \* those of a version
    Translated   \* those that have a translation

ASSUME WorkspaceSeedAssumption ==
    /\ IsFiniteSet(Inits) /\ Overwriting \subseteq Inits
    /\ Translated \subseteq SkillFiles /\ AgentFiles \subseteq Templates
    /\ \A i \in Inits : /\ VersionOf[i] \in Nat \ {0} /\ LanguageOf[i] \in {"en", "zh"}
                        /\ FilesOf[VersionOf[i]] \subseteq SkillFiles

VARIABLES
    doc,       \* of a template: "absent", "packaged" or "edited"
    skill,     \* version and language of a skill file
    stamp,     \* the version file, 0 when there is none or it is empty
    seeding,   \* of a call: where it is; the templates it has to look at and, of these, to write; the
               \* skill files it has to copy; has it cleared the version file?
    edited,    \* history: templates the user has edited
    misread,   \* history: templates that a failing request made appear absent
    editRaced, \* history: templates edited between the look and the write
    copiedIn,  \* history: language of the last complete copy
    partial,   \* history: has a copy stopped midway since?
    together   \* history: have two calls overlapped?

seedVars == <<doc, skill, stamp, seeding, edited, misread, editRaced, copiedIn, partial, together>>

SeedAt(i, place) == seeding[i].at = place
Seeding(i)       == seeding[i].at \notin {"idle", "over"}
SetSeed(i, r)    == seeding' = [seeding EXCEPT ![i] = r]

SeedInit ==
    /\ doc = [t \in Templates |-> "absent"] /\ stamp = 0
    /\ skill = [f \in SkillFiles |-> [version |-> 0, language |-> "en"]]
    /\ seeding = [i \in Inits |-> [at |-> "idle", look |-> {}, write |-> {}, copy |-> {}, cleared |-> FALSE]]
    /\ edited = {} /\ misread = {} /\ editRaced = {} /\ copiedIn = "en" /\ partial = FALSE /\ together = FALSE

BeginSeed(i) ==
    /\ SeedAt(i, "idle")
    /\ SetSeed(i, [seeding[i] EXCEPT !.at = "templates", !.look = Templates \ AgentFiles])
    /\ together' = (together \/ \E j \in Inits : Seeding(j))
    /\ UNCHANGED <<doc, skill, stamp, edited, misread, editRaced, copiedIn, partial>>

-----------------------------------------------------------------------------
(***************************************************************************)
(* Templates.                                                              *)
(***************************************************************************)
UserEdits(t) ==
    /\ doc[t] = "packaged"
    /\ doc' = [doc EXCEPT ![t] = "edited"] /\ edited' = edited \cup {t}
    /\ editRaced' = IF \E i \in Inits : t \in seeding[i].write THEN editRaced \cup {t} ELSE editRaced
    /\ UNCHANGED <<skill, stamp, seeding, misread, copiedIn, partial, together>>

\* Variant with a fault: a template is written whether it is there or not.
WritesAlways(i, exists) == TRUE

WritesTemplate(i, exists) == ~exists \/ i \in Overwriting

\* workspace.exists(): a request that fails counts as "not there".
LookFor(i, place) ==
    /\ SeedAt(i, place) /\ seeding[i].write = {}
    /\ \E t \in seeding[i].look, answered \in BOOLEAN :
         /\ SetSeed(i, [seeding[i] EXCEPT
              !.look = @ \ {t},
              !.write = IF WritesTemplate(i, answered /\ doc[t] # "absent") THEN {t} ELSE {}])
         /\ misread' = IF answered THEN misread ELSE misread \cup {t}
    /\ UNCHANGED <<doc, skill, stamp, edited, editRaced, copiedIn, partial, together>>

LookAtTemplate(i) == LookFor(i, "templates")
LookAtManifest(i) == LookFor(i, "agents")

WriteTemplate(i) ==
    /\ \E t \in seeding[i].write : doc' = [doc EXCEPT ![t] = "packaged"]
    /\ SetSeed(i, [seeding[i] EXCEPT !.write = {}])
    /\ UNCHANGED <<skill, stamp, edited, misread, editRaced, copiedIn, partial, together>>

-----------------------------------------------------------------------------
(***************************************************************************)
(* Skills.                                                                 *)
(***************************************************************************)
\* When the skills are done with, or given up, it is the turn of the manifests.
ToAgents(i) == [seeding[i] EXCEPT !.at = "agents", !.look = AgentFiles, !.copy = {}]

Base(i)    == FilesOf[VersionOf[i]]
Overlay(i) == IF LanguageOf[i] = "en" THEN {} ELSE Base(i) \cap Translated

\* _is_up_to_date: the version file, which says nothing of the language.  A call
\* that overwrites clears it, once, and copies after all.
CheckSkills(i) ==
    /\ SeedAt(i, "templates") /\ seeding[i].look = {} /\ seeding[i].write = {}
    /\ \/ /\ stamp # VersionOf[i]
          /\ SetSeed(i, [seeding[i] EXCEPT !.at = "base", !.copy = Base(i)])
       \/ /\ stamp = VersionOf[i]
          /\ SetSeed(i, IF i \in Overwriting THEN [seeding[i] EXCEPT !.at = "clear"] ELSE ToAgents(i))
    /\ UNCHANGED <<doc, skill, stamp, edited, misread, editRaced, copiedIn, partial, together>>

ClearStamp(i) ==
    /\ SeedAt(i, "clear")
    /\ stamp' = 0
    /\ SetSeed(i, [seeding[i] EXCEPT !.at = "base", !.copy = Base(i), !.cleared = TRUE])
    /\ UNCHANGED <<doc, skill, edited, misread, editRaced, copiedIn, partial, together>>

\* _copy_tree_to_workspace: the English files, then the translated ones over them.
CopyFile(i) ==
    /\ seeding[i].at \in {"base", "overlay"}
    /\ \E f \in seeding[i].copy :
         LET left == seeding[i].copy \ {f}
         IN /\ skill' = [skill EXCEPT ![f] = [version |-> VersionOf[i],
                                              language |-> IF SeedAt(i, "base") THEN "en" ELSE LanguageOf[i]]]
            /\ SetSeed(i, IF left # {} THEN [seeding[i] EXCEPT !.copy = left]
                          ELSE IF SeedAt(i, "base") /\ Overlay(i) # {}
                            THEN [seeding[i] EXCEPT !.at = "overlay", !.copy = Overlay(i)]
                          ELSE [seeding[i] EXCEPT !.at = "stamp", !.copy = {}])
    /\ UNCHANGED <<doc, stamp, edited, misread, editRaced, copiedIn, partial, together>>

WriteStamp(i) ==
    /\ SeedAt(i, "stamp")
    /\ stamp' = VersionOf[i] /\ copiedIn' = LanguageOf[i] /\ partial' = FALSE
    /\ SetSeed(i, ToAgents(i))
    /\ UNCHANGED <<doc, skill, edited, misread, editRaced, together>>

\* A write fails: the skills are given up, or tried once more by a call that
\* overwrites.
CopyFails(i) ==
    /\ seeding[i].at \in {"base", "overlay", "stamp"}
    /\ SetSeed(i, IF i \in Overwriting /\ ~seeding[i].cleared
                    THEN [seeding[i] EXCEPT !.at = "clear", !.copy = {}] ELSE ToAgents(i))
    /\ partial' = TRUE
    /\ UNCHANGED <<doc, skill, stamp, edited, misread, editRaced, copiedIn, together>>

EndSeed(i) ==
    /\ SeedAt(i, "agents") /\ seeding[i].look = {} /\ seeding[i].write = {}
    /\ SetSeed(i, [seeding[i] EXCEPT !.at = "over"])
    /\ UNCHANGED <<doc, skill, stamp, edited, misread, editRaced, copiedIn, partial, together>>

\* The process ends, or a write of a template or manifest fails, which ends the call.
SeedStops(i) ==
    /\ Seeding(i)
    /\ SetSeed(i, [seeding[i] EXCEPT !.at = "over", !.look = {}, !.write = {}, !.copy = {}])
    /\ partial' = (partial \/ seeding[i].at \in {"base", "overlay", "stamp"})
    /\ UNCHANGED <<doc, skill, stamp, edited, misread, editRaced, copiedIn, together>>

SeedNext ==
    \/ \E t \in Templates : UserEdits(t)
    \/ \E i \in Inits : \/ BeginSeed(i) \/ LookAtTemplate(i) \/ LookAtManifest(i) \/ WriteTemplate(i)
                        \/ CheckSkills(i) \/ ClearStamp(i) \/ CopyFile(i) \/ WriteStamp(i) \/ CopyFails(i)
                        \/ EndSeed(i) \/ SeedStops(i)

SeedSpec == SeedInit /\ [][SeedNext]_seedVars

-----------------------------------------------------------------------------
SeedTypeOK ==
    LET Versions == {0} \cup {VersionOf[i] : i \in Inits}
    IN /\ doc \in [Templates -> {"absent", "packaged", "edited"}] /\ stamp \in Versions
       /\ skill \in [SkillFiles -> [version : Versions, language : {"en", "zh"}]]
       /\ seeding \in [Inits -> [at : {"idle", "templates", "clear", "base", "overlay", "stamp", "agents", "over"},
                                 look : SUBSET Templates, write : SUBSET Templates, copy : SUBSET SkillFiles,
                                 cleared : BOOLEAN]]
       /\ edited \cup misread \cup editRaced \subseteq Templates
       /\ copiedIn \in {"en", "zh"} /\ partial \in BOOLEAN /\ together \in BOOLEAN

\* A template that the user has edited is not replaced, except by a call that is
\* told to overwrite; by one whose look at it failed, for it then seems to be
\* missing; and by one that looked before the user began.
EditsAreKept ==
    \A t \in edited \ (misread \cup editRaced) :
        doc[t] = "edited" \/ \E i \in Overwriting : ~SeedAt(i, "idle")

\* When the version file names a version, the skills are that version's, in the
\* language of the call that copied them: the first one, not the last.  The
\* exceptions: a copy that stopped midway, which a process of the version named
\* will not repair, and calls that overlap.
SkillsAreWhole ==
    stamp # 0 /\ ~partial /\ ~together /\ (\A i \in Inits : ~Seeding(i)) =>
        \A f \in FilesOf[stamp] :
            skill[f] = [version |-> stamp, language |-> IF f \in Translated THEN copiedIn ELSE "en"]

WorkspaceSeeded == EditsAreKept /\ SkillsAreWhole
-----------------------------------------------------------------------------
(***************************************************************************)
(* Which skills a turn may use (middleware/skill_filter.py,                *)
(* conversation_mode.py, turn_note.py, skills/catalog.py).                 *)
(*                                                                         *)
(* Skills lie in several places, under a directory name (slug) and with a  *)
(* display name.  The agent's setting forbids skills by either, at any     *)
(* time; a request may allow only some, and in ask and plan mode none.     *)
(* A prompt is made from what the thread loaded when it began (deepagents, *)
(* external), calls of tools are looked at one by one, and the dashboard   *)
(* lists what lies in the places now.                                      *)
(***************************************************************************)
CONSTANTS
    Slugs, SkillNames,
    SkillPlaces, \* the number of places: 1 the packaged skills, later ones win
    Manifests,   \* skills: [name, removed], or NoSkill
    Bans,        \* settings that a host makes
    UseRequests, \* requests: [mode, override, allow, extra]
    ToolCalls,   \* calls: [name, slugs, how, path]
    BaseOf,      \* of the name of a tool, what follows the last slash
    AskReadTools, \* ASK_READ_TOOLS
    TalkMax,     \* bound: messages of a turn
    NoSkill, NoAllowList, NoThread

ASSUME UseAssumption ==
    /\ SkillPlaces \in Nat \ {0} /\ TalkMax \in Nat
    /\ \A b \in Bans : b \subseteq Slugs \cup SkillNames
    /\ \A c \in ToolCalls : c.slugs # {} => c.how = "inSkills"

VARIABLES
    stocked,       \* of a place: the skill under each slug
    banned,        \* the agent's skills_disabled
    loadedOnce,    \* the thread's skills_metadata, or NoThread
    unchanged,     \* history: the places have not changed since they were loaded
    asked,         \* configurable of the turn: mode, allow, extra
    promptSkills,  \* skills in the last prompt
    promptedUnder, \* history: the setting at that time
    call,          \* the last call of a tool: what, how it ended, the setting at that time
    written,       \* history: what calls of the turn may have changed
    talk,          \* messages of the turn
    request,       \* messages as the last model call got them
    earlier,       \* history: and the call before
    overview       \* of the dashboard: places still to look at, rows, history: failed reads, is all unchanged?

skillTurn == <<asked, promptSkills, promptedUnder, call, written, talk, request, earlier>>
useVars   == <<stocked, banned, loadedOnce, unchanged, skillTurn, overview>>

FsTools    == {"ls", "read_file", "glob", "grep", "write_file", "edit_file", "delete"}
ShellTools == {"execute", "bash", "shell"}
PlanWrites == {"write_file", "edit_file"}

Entries == {[place |-> p, slug |-> s, name |-> stocked[p][s].name] :
               <<p, s>> \in {ps \in (1..SkillPlaces) \X Slugs : stocked[ps[1]][ps[2]] # NoSkill}}

\* skill_identity_keys
IdentityKeys(e) == {e.slug, e.name}

\* Of skills with one name the thread has one, from the last place (external).
Loadable(S) ==
    /\ \A e, f \in S : e.name = f.name => e = f
    /\ \A e \in Entries : \E f \in S : f.name = e.name
    /\ \A e \in Entries, f \in S : f.name = e.name => f.place >= e.place

NoCall == [what |-> NoSkill, end |-> "none", under |-> {}]

UseInit ==
    /\ stocked \in [1..SkillPlaces -> [Slugs -> Manifests]] /\ banned \in Bans
    /\ loadedOnce = NoThread /\ unchanged = FALSE
    /\ asked = [mode |-> "craft", allow |-> NoAllowList, extra |-> {}]
    /\ promptSkills = {} /\ promptedUnder = {} /\ call = NoCall /\ written = {}
    /\ talk = <<>> /\ request = <<>> /\ earlier = <<>>
    /\ overview = [left |-> 0, rows |-> {}, failed |-> {}, quiet |-> FALSE]

\* The host installs, replaces or removes a skill.
Restock(p, s) ==
    /\ \E m \in Manifests \ {stocked[p][s]} : stocked' = [stocked EXCEPT ![p][s] = m]
    /\ unchanged' = FALSE /\ overview' = [overview EXCEPT !.quiet = FALSE]
    /\ UNCHANGED <<banned, loadedOnce, skillTurn>>

SetSkillsDisabled(b) ==
    /\ banned' = b /\ b # banned
    /\ overview' = [overview EXCEPT !.quiet = FALSE]
    /\ UNCHANGED <<stocked, loadedOnce, unchanged, skillTurn>>

-----------------------------------------------------------------------------
(***************************************************************************)
(* A turn: the request, the model's prompt, the model's calls.             *)
(***************************************************************************)
ParseMode(m) == IF m \in {"ask", "plan"} THEN m ELSE "craft"

\* Variant with a fault: the request's own mode decides, whatever its configurable says.
RestrictedEarly(a) ==
    [mode |-> ParseMode(IF a.override = "none" THEN a.mode ELSE a.override),
     allow |-> IF ParseMode(a.mode) # "craft" THEN {} ELSE a.allow, extra |-> a.extra]

\* The configurable of a request overrides its mode; ask and plan allow no skill.
Restricted(a) ==
    LET mode == ParseMode(IF a.override = "none" THEN a.mode ELSE a.override)
    IN [mode |-> mode, allow |-> IF mode # "craft" THEN {} ELSE a.allow, extra |-> a.extra]

BeginAsk(a) ==
    /\ asked' = Restricted(a)
    /\ IF loadedOnce = NoThread
       THEN (\E S \in SUBSET Entries : Loadable(S) /\ loadedOnce' = S) /\ unchanged' = TRUE
       ELSE UNCHANGED <<loadedOnce, unchanged>>
    /\ promptSkills' = {} /\ promptedUnder' = {} /\ written' = {} /\ call' = NoCall
    /\ talk' = <<[kind |-> "user", notes |-> {}]>> /\ request' = <<>> /\ earlier' = <<>>
    /\ UNCHANGED <<stocked, banned, overview>>

\* Variant with a fault: only the slug counts.
PermittedBySlug(e) == e.slug \notin banned

Permitted(e) == IdentityKeys(e) \cap banned = {}

\* SkillFilterMiddleware, then ConversationModeMiddleware.
Filtered ==
    {e \in loadedOnce : /\ Permitted(e)
                        /\ asked.allow = NoAllowList \/ IdentityKeys(e) \cap asked.allow # {}
                        /\ asked.mode = "craft"}

\* Variant with a fault: a note goes to the end.
NotedLast(messages, n) == Append(messages, [kind |-> "note", notes |-> {n}])

\* insert_turn_note: one note, behind the user's last message.
Noted(messages, n) ==
    LET users == {i \in 1..Len(messages) : messages[i].kind = "user"}
        at    == CHOOSE i \in users : \A j \in users : j <= i
    IN IF at < Len(messages) /\ messages[at + 1].kind = "note"
       THEN [messages EXCEPT ![at + 1].notes = @ \cup {n}]
       ELSE SubSeq(messages, 1, at) \o <<[kind |-> "note", notes |-> {n}]>> \o SubSeq(messages, at + 1, Len(messages))

\* A prompt; other is a note of a later middleware.
PromptModel(other) ==
    /\ talk # <<>> /\ Len(talk) < TalkMax /\ talk[Len(talk)].kind # "ai"
    /\ promptSkills' = Filtered /\ promptedUnder' = banned
    /\ earlier' = request
    /\ LET hinted == IF asked.mode = "craft" THEN talk ELSE Noted(talk, "hint")
       IN request' = IF other THEN Noted(hinted, "other") ELSE hinted
    /\ talk' = Append(talk, [kind |-> "ai", notes |-> {}])
    /\ UNCHANGED <<stocked, banned, loadedOnce, unchanged, asked, call, written, overview>>

\* disabled_skill_block_reason: a path skills/<slug> among the arguments.
NamesForbidden(c) == c.slugs \cap banned # {}

\* Variant with a fault: the name of the tool is taken whole.
SkillBlocksWhole(c) == c.name \in FsTools \cup ShellTools /\ NamesForbidden(c)

SkillBlocks(c) == BaseOf[c.name] \in FsTools \cup ShellTools /\ NamesForbidden(c)

AllowedTools == AskReadTools \cup asked.extra \cup IF asked.mode = "plan" THEN PlanWrites ELSE {}

\* is_allowed_plan_path
PlanPath(c) == c.path = "plan"

\* Variant with a fault: the path of a plan is not looked at.
ModeBlocksLess(c) ==
    asked.mode # "craft" /\ (BaseOf[c.name] \notin AllowedTools \/ c.how = "inSkills")

ModeBlocks(c) ==
    /\ asked.mode # "craft"
    /\ \/ BaseOf[c.name] \notin AllowedTools
       \/ c.how = "inSkills"
       \/ asked.mode = "plan" /\ BaseOf[c.name] \in PlanWrites /\ ~PlanPath(c)

\* What a tool may write (external): an unknown one anything.
Writes(c) ==
    CASE BaseOf[c.name] \in PlanWrites -> {c.path}
      [] BaseOf[c.name] \in AskReadTools  -> {}
      [] OTHER                         -> {"plan", "other"}

CallTool(c) ==
    /\ talk # <<>> /\ Len(talk) < TalkMax /\ talk[Len(talk)].kind = "ai"
    /\ LET end == IF SkillBlocks(c) THEN "forbidden" ELSE IF ModeBlocks(c) THEN "mode" ELSE "ran"
       IN /\ call' = [what |-> c, end |-> end, under |-> banned]
          /\ written' = IF end = "ran" THEN written \cup Writes(c) ELSE written
    /\ talk' = Append(talk, [kind |-> "tool", notes |-> {}])
    /\ UNCHANGED <<stocked, banned, loadedOnce, unchanged, asked, promptSkills, promptedUnder, request,
           earlier, overview>>

-----------------------------------------------------------------------------
(***************************************************************************)
(* The list of the dashboard, one place after the other.                   *)
(***************************************************************************)
BeginListSkills ==
    /\ overview.left = 0
    /\ overview' = [left |-> 1, rows |-> {}, failed |-> {}, quiet |-> TRUE]
    /\ UNCHANGED <<stocked, banned, loadedOnce, unchanged, skillTurn>>

\* Variant with a fault: a skill that an earlier place has stays.
RowsFirst(rows, found) == rows \cup {e \in found : \A r \in rows : r.slug # e.slug}

MergedRows(rows, found) == found \cup {r \in rows : \A e \in found : r.slug # e.slug}

\* Manifests that cannot be read, and those marked as removed, are skipped.  The
\* setting is the one of the beginning: a quiet one has no other.
CollectPlace ==
    /\ overview.left \in 1..SkillPlaces
    /\ LET here == {e \in Entries : e.place = overview.left}
       IN \E failed \in SUBSET here :
            LET found == {e \in here \ failed : ~stocked[e.place][e.slug].removed}
            IN overview' = [overview EXCEPT
                 !.left   = IF @ = SkillPlaces THEN 0 ELSE @ + 1,
                 !.failed = @ \cup failed,
                 !.rows   = MergedRows(@, {[slug |-> e.slug, name |-> e.name, place |-> e.place,
                                            enabled |-> e.slug \notin banned /\ e.name \notin banned] : e \in found})]
    /\ UNCHANGED <<stocked, banned, loadedOnce, unchanged, skillTurn>>

UseNext ==
    \/ \E p \in 1..SkillPlaces, s \in Slugs : Restock(p, s)
    \/ \E b \in Bans : SetSkillsDisabled(b)
    \/ \E a \in UseRequests : BeginAsk(a)
    \/ \E other \in BOOLEAN : PromptModel(other)
    \/ \E c \in ToolCalls : CallTool(c)
    \/ BeginListSkills
    \/ CollectPlace

UseSpec == UseInit /\ [][UseNext]_useVars

-----------------------------------------------------------------------------
UseTypeOK ==
    /\ banned \subseteq Slugs \cup SkillNames
    /\ promptSkills \subseteq [place : 1..SkillPlaces, slug : Slugs, name : SkillNames]
    /\ unchanged \in BOOLEAN /\ call.end \in {"none", "forbidden", "mode", "ran"} /\ overview.left \in 0..SkillPlaces

\* What the agent's setting keeps out of prompts cannot be read or run by naming
\* its directory either, not even when an earlier prompt of the turn showed it.
\* The exception: a skill that is forbidden only by its display name.
HiddenIsClosed ==
    call.end = "ran" /\ BaseOf[call.what.name] \in FsTools \cup ShellTools =>
        \A n \in SkillNames, s \in call.what.slugs :
            IdentityKeys([slug |-> s, name |-> n]) \cap call.under # {} => n \in call.under /\ s \notin call.under

\* And what the last prompt showed can be read, unless the setting has changed
\* since, or another skill in the call is forbidden.
ShownIsOpen ==
    call.end # "none" /\ promptedUnder = call.under /\ "read_file" = BaseOf[call.what.name] =>
        (call.what.slugs # {} /\ call.what.slugs \subseteq {e.slug : e \in promptSkills} => call.end = "ran")

\* A prompt has no skill that the setting of the time forbade or the request did
\* not allow; none at all in ask and plan mode.
ShownIsMeant ==
    \A e \in promptSkills :
        /\ IdentityKeys(e) \cap promptedUnder = {} /\ asked.mode = "craft"
        /\ asked.allow = NoAllowList \/ IdentityKeys(e) \cap asked.allow # {}

\* A turn in ask mode changes nothing, one in plan mode only plans, and the
\* request of either allows no skill.  The exception: tools that the host has
\* named as reading ones.
ModesKeep ==
    asked.mode # "craft" =>
        /\ asked.allow = {}
        /\ asked.extra \subseteq AskReadTools => written \subseteq IF asked.mode = "plan" THEN {"plan"} ELSE {}

\* Each model call of a turn has the one note right behind the user's message, and
\* goes on where the one before ended, if it had the same notes.
NotesStay ==
    LET said(r) == {r[i].notes : i \in {j \in 1..Len(r) : r[j].kind = "note"}}
    IN /\ request # <<>> => \A i \in 1..Len(request) : request[i].kind = "note" => i = 2
       /\ request # <<>> /\ earlier # <<>> /\ said(request) = said(earlier) =>
              Len(earlier) < Len(request) /\ SubSeq(request, 1, Len(earlier)) = earlier

\* The dashboard and the prompts agree on what may be used: an enabled row is a
\* skill the thread could be shown, and the other way round, when nothing has
\* changed in between.  The exceptions: skills that share a name or a slug, that
\* could not be read or that are marked as removed.
CatalogueAgrees ==
    LET plain(r) == \A e \in Entries : /\ (e.name = r.name \/ e.slug = r.slug) => (e.slug = r.slug /\ e.place = r.place)
                                       /\ e \notin overview.failed /\ ~stocked[e.place][e.slug].removed
    IN overview.left = 0 /\ overview.quiet /\ loadedOnce # NoThread /\ unchanged =>
         /\ \A r \in overview.rows : plain(r) =>
               (r.enabled <=> \E e \in loadedOnce : Permitted(e) /\ e.slug = r.slug /\ e.place = r.place)
         /\ \A e \in loadedOnce : plain(e) /\ Permitted(e) => \E r \in overview.rows : r.slug = e.slug /\ r.enabled
         /\ \A r \in overview.rows : \A e \in Entries :
               e.slug = r.slug /\ e.place > r.place => e \in overview.failed \/ stocked[e.place][e.slug].removed

SkillsInForce ==
    HiddenIsClosed /\ ShownIsOpen /\ ShownIsMeant /\ ModesKeep /\ NotesStay /\ CatalogueAgrees
=============================================================================
