---------------------------- MODULE SettingsFile ----------------------------
(***************************************************************************)
(* The configuration of an agent and the file it is kept in                *)
(* (config/__init__.py, acp/models.py, decision/config.py), and two things *)
(* read out of it: the token limits of a model and the routes of media     *)
(* generation (media/registry.py, builtin/tools/media_generation.py).      *)
(*                                                                         *)
(* A configuration has live objects and credentials that are not written,  *)
(* values that are written as if they were unset, and runners whose        *)
(* defaults come back.  The file is written in place, a user may edit it,  *)
(* and the process may be killed half way.                                 *)
(*                                                                         *)
(* A value is kept as a token: "none" for None, "live" for an object that  *)
(* cannot be written, "empty" for an empty collection.                     *)
(***************************************************************************)
EXTENDS Naturals, Sequences, FiniteSets, SequencesExt

CONSTANTS
    SettingsDrawn,  \* configurations a host may have, each a function of Fields
    EditsDrawn,     \* what a user writes into the file: [field, value]
    LimitsDrawn,    \* numbers of tokens
    MediaDrawn,     \* media configurations, each [named, image, video]
    Unmade, Unsaved, HalfSaved

VARIABLES
    settings,    \* the configuration a host has in hand, or Unmade
    onDisk,      \* the file: Unsaved, HalfSaved, or what is written, by field
    writing,     \* what is about to be written, or Unmade
    savedLast,   \* history: the configuration that was written last, or Unmade
    byHand,      \* history: the file was edited since then
    stuck,       \* history: a configuration that was read could not be written again
    hostKilled,  \* history: a host was killed while it wrote
    sample       \* limits, or a media configuration

settingsVars == <<settings, onDisk, writing, savedLast, byHand, stuck, hostKilled, sample>>

Fields == {"backend", "memory_backend", "role_bindings", "mcp_default_servers", "acp_runners", "virtual_paths",
           "subagents", "media_key", "tools_disabled", "checkpointer"}

DefaultOfField == [f \in Fields |->
    CASE f = "memory_backend" -> "sqlite"
      [] f = "acp_runners" -> "defaults"
      [] f = "virtual_paths" -> "off"
      [] f = "tools_disabled" -> "empty"
      [] OTHER -> "none"]

-----------------------------------------------------------------------------
(***************************************************************************)
(* to_dict() and from_dict().                                              *)
(***************************************************************************)
Unserializable == {"checkpointer"}
NeverWritten == {"virtual_paths", "media_key"}

\* list(), sorted() and .items() of None raise.
AsWritten(f, v) ==
    CASE f = "backend" /\ v = "live" -> "missing"
      [] f = "memory_backend" /\ v \in {"live", "none"} -> "missing"
      [] f \in {"role_bindings", "mcp_default_servers"} /\ v = "empty" -> "none"
      [] f = "subagents" /\ v = "live" -> "named"
      [] f \in Unserializable \cup NeverWritten -> "missing"
      [] OTHER -> v
CanBeWritten(s) == s["acp_runners"] # "none" /\ s["tools_disabled"] # "none"
Dumped(s) == [f \in Fields |-> AsWritten(f, s[f])]

\* Variant with a fault: the runners of the file instead of the defaults.
CoercedAsIs(f, v) ==
    IF v = "missing" \/ f \in Unserializable \/ (f = "memory_backend" /\ v = "none") THEN DefaultOfField[f] ELSE v

\* The runners of the file are laid over the defaults.  None is None, except
\* for the backend of the memory.
Coerced(f, v) ==
    CASE v = "missing" \/ f \in Unserializable -> DefaultOfField[f]
      [] f = "memory_backend" /\ v = "none" -> DefaultOfField[f]
      [] f = "acp_runners" /\ v \in {"empty", "fewer"} -> "defaults"
      [] f = "acp_runners" /\ v = "own" -> "defaults and own"
      [] OTHER -> v
AsLoaded(t) == [f \in Fields |-> Coerced(f, t[f])]

-----------------------------------------------------------------------------
\* A host that has none makes one.
MakeSettings ==
    /\ settings = Unmade /\ settings' \in SettingsDrawn
    /\ UNCHANGED <<onDisk, writing, savedLast, byHand, stuck, hostKilled, sample>>

\* to_file(): the onDisk is made before the file is opened.
BeginSave ==
    /\ settings # Unmade /\ writing = Unmade
    /\ IF CanBeWritten(settings)
       THEN writing' = settings /\ onDisk' = HalfSaved /\ savedLast' = settings /\ byHand' = FALSE
           /\ stuck' = FALSE /\ UNCHANGED settings
       ELSE stuck' = (savedLast # Unmade) /\ settings' = Unmade /\ UNCHANGED <<onDisk, writing, savedLast, byHand>>
    /\ UNCHANGED <<hostKilled, sample>>

EndSave ==
    /\ writing # Unmade
    /\ onDisk' = Dumped(writing) /\ writing' = Unmade
    /\ UNCHANGED <<settings, savedLast, byHand, stuck, hostKilled, sample>>

KillHost ==
    /\ settings # Unmade
    /\ settings' = Unmade /\ writing' = Unmade /\ hostKilled' = (hostKilled \/ writing # Unmade)
    /\ UNCHANGED <<onDisk, savedLast, byHand, stuck, sample>>

\* from_file(): it raises for a file that is not there, or not complete.
Load ==
    /\ settings = Unmade /\ onDisk \notin {Unsaved, HalfSaved}
    /\ settings' = AsLoaded(onDisk)
    /\ UNCHANGED <<onDisk, writing, savedLast, byHand, stuck, hostKilled, sample>>

Edit ==
    /\ writing = Unmade /\ onDisk \notin {Unsaved, HalfSaved} /\ ~byHand
    /\ \E e \in EditsDrawn : onDisk' = [onDisk EXCEPT ![e.field] = e.value]
    /\ byHand' = TRUE
    /\ UNCHANGED <<settings, writing, savedLast, stuck, hostKilled, sample>>

-----------------------------------------------------------------------------
(***************************************************************************)
(* Token limits: ModelConfig.                                              *)
(***************************************************************************)
Limits(input, window) ==
    [input  |-> IF input = 0 THEN window ELSE input,
     window |-> IF window = 0 THEN input ELSE window]

LargerOf(a, b) == IF a >= b THEN a ELSE b
Smaller(a, b) == IF a <= b THEN a ELSE b

\* Variant with a fault: without a floor and the cap on the prompt.
BudgetOfWindow(m, reserved) == IF reserved = 0 THEN m.input ELSE LargerOf(m.window - reserved, 0)

\* input_token_budget()
PromptBudget(m, reserved) ==
    LET cap == IF m.input > 0 THEN m.input ELSE m.window
        safe == IF m.window > reserved THEN m.window - reserved ELSE 1
    IN CASE reserved = 0 \/ m.window = 0 -> cap
         [] cap > 0 -> Smaller(cap, safe)
         [] OTHER -> safe

-----------------------------------------------------------------------------
(***************************************************************************)
(* Media generation.  named are the providers of the list, each            *)
(* [id, on, image, video, key]; image and video are the default routes.    *)
(* Without a list there is one provider, made of the older fields.         *)
(***************************************************************************)
Kinds == {"image", "video"}
OnIn(m) == SelectSeq(m.named, LAMBDA p : p.on)
ById(ps, id) == SelectSeq(ps, LAMBDA p : p.id = id)

\* _validate_provider_routes() looks at the routes only when there is a list.
MediaValid(m) ==
    m.named # <<>> =>
        /\ \A i, j \in DOMAIN m.named : m.named[i].id = m.named[j].id => i = j
        /\ OnIn(m) # <<>>
        /\ \A k \in Kinds : m[k] # "none" => ById(OnIn(m), m[k]) # <<>> /\ ById(OnIn(m), m[k])[1][k]

Configured(m) == IF m.named # <<>> THEN OnIn(m) ELSE <<m.older>>
Capable(m, k) == SelectSeq(Configured(m), LAMBDA p : p[k])
Available(m, k) == \E i \in DOMAIN Capable(m, k) : Capable(m, k)[i].key

\* Variant with a fault: the first that can.
PreferredFirst(m, k) == IF Capable(m, k) = <<>> THEN "none" ELSE Capable(m, k)[1].id

PreferredRoute(m, k) ==
    LET withKey == SelectSeq(Capable(m, k), LAMBDA p : p.key)
    IN CASE withKey # <<>> -> withKey[1].id
         [] Capable(m, k) # <<>> -> Capable(m, k)[1].id
         [] OTHER -> "none"

RouteOf(m, k) == IF m[k] # "none" THEN m[k] ELSE PreferredRoute(m, k)

\* create_media_manager(): set_default_route() raises for a provider it has not.
ManagerIsMade(m) == \A k \in Kinds : RouteOf(m, k) # "none" => ById(Capable(m, k), RouteOf(m, k)) # <<>>

\* build_media_generation_tools() and the names that are deferred.
HasKey(m) == \E i \in DOMAIN Configured(m) : Configured(m)[i].key
ToolsOf(m) == IF HasKey(m) THEN {k \in Kinds : Available(m, k) /\ RouteOf(m, k) # "none"} ELSE {}
DeferredOf(m) == IF HasKey(m) THEN {k \in Kinds : Available(m, k)} ELSE {}

-----------------------------------------------------------------------------
SettingsInit ==
    /\ settings \in SettingsDrawn /\ onDisk = Unsaved /\ writing = Unmade /\ savedLast = Unmade
    /\ byHand = FALSE /\ stuck = FALSE /\ hostKilled = FALSE /\ sample = Unmade

\* The functions are checked on every value at once, in the initial state.
SampleInit ==
    /\ sample \in ({Limits(i, w) : i \in LimitsDrawn, w \in LimitsDrawn} \cup {m \in MediaDrawn : MediaValid(m)})
    /\ settings = Unmade /\ onDisk = Unsaved /\ writing = Unmade /\ savedLast = Unmade
    /\ byHand = FALSE /\ stuck = FALSE /\ hostKilled = FALSE

SettingsNext == MakeSettings \/ BeginSave \/ EndSave \/ KillHost \/ Load \/ Edit

SettingsTypeOK ==
    /\ settings = Unmade \/ DOMAIN settings = Fields
    /\ onDisk \in {Unsaved, HalfSaved} \/ DOMAIN onDisk = Fields
    /\ writing = Unmade \/ DOMAIN writing = Fields
    /\ savedLast = Unmade \/ DOMAIN savedLast = Fields
    /\ {byHand, stuck, hostKilled} \subseteq BOOLEAN

-----------------------------------------------------------------------------
\* What a file is read as, when nobody edited it, is what was written, apart
\* from these: live objects and credentials, what is never written, empty
\* collections that mean the same as none, and runners, of which none can be
\* taken away.
NotKept(f, v) ==
    \/ v = "live" \/ f \in NeverWritten \cup Unserializable
    \/ v = "empty" /\ f # "tools_disabled"
    \/ f = "memory_backend" /\ v = "none"

ReadIsWritten ==
    writing = Unmade /\ onDisk \notin {Unsaved, HalfSaved} /\ ~byHand =>
        \A f \in Fields :
            IF f = "acp_runners"
              THEN AsLoaded(onDisk)[f] =
                     (IF savedLast[f] \in {"own", "defaults and own"} THEN "defaults and own" ELSE "defaults")
            ELSE AsLoaded(onDisk)[f] = savedLast[f] \/ NotKept(f, savedLast[f])

\* Writing what was read, and reading it again, changes nothing more, also
\* after an edit, when it can be written at all.
ReadTwiceIsSame ==
    onDisk \notin {Unsaved, HalfSaved} /\ CanBeWritten(AsLoaded(onDisk)) =>
        LET once == AsLoaded(onDisk) IN \A f \in Fields : AsLoaded(Dumped(once))[f] = once[f] \/ NotKept(f, once[f])

\* What was read can be written, unless a user put null where a collection
\* was: it is taken as it is.
ReadCanBeWritten == stuck => byHand

\* The file is incomplete only while it is written, or after a kill: a
\* configuration that cannot be written leaves the file as it was.
TornIsExplained == onDisk = HalfSaved => writing # Unmade \/ hostKilled

\* Prompt and reserved answer fit into the window, and the prompt into its
\* own limit; when nothing is reserved the prompt may be larger than a window
\* that is smaller than it.
BudgetFits ==
    (sample # Unmade /\ "window" \in DOMAIN sample) => \A reserved \in LimitsDrawn :
        LET b == PromptBudget(sample, reserved)
        IN /\ b <= sample.input
           /\ sample.window > 0 /\ reserved > 0 => b > 0 /\ (b + reserved <= sample.window
                  \/ (b = 1 /\ reserved >= sample.window))
           /\ Limits(sample.input, sample.window) = sample

\* A tool for a kind of media is offered only when its route leads to a
\* provider with a credential, unless the configuration names the route.
\* What is deferred is offered, and a valid configuration can be used, unless
\* it names a route beside the older fields.
MediaServes ==
    (sample # Unmade /\ "named" \in DOMAIN sample) =>
        /\ \A k \in ToolsOf(sample) :
               sample[k] = "none" => \E i \in DOMAIN Configured(sample) :
                   Configured(sample)[i].id = RouteOf(sample, k) /\ Configured(sample)[i].key
        /\ DeferredOf(sample) \subseteq ToolsOf(sample)
        /\ ManagerIsMade(sample) \/ (sample.named = <<>> /\ \E k \in Kinds : sample[k] # "none")

SettingsHold == ReadIsWritten /\ ReadTwiceIsSame /\ ReadCanBeWritten /\ TornIsExplained /\ BudgetFits /\ MediaServes
=============================================================================
