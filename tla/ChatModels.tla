----------------------------- MODULE ChatModels -----------------------------
(***************************************************************************)
(* The cache of chat models that the agents of a manager share             *)
(* (llm/factory.py, llm/session_header.py, manager.py).                    *)
(*                                                                         *)
(* A model is built from the configuration of its provider when it is      *)
(* first asked for, with a synchronous and an asynchronous HTTP client of  *)
(* its own when the provider wants a session header, and kept under its    *)
(* reference, or under the reference and a retry policy for the memory.    *)
(* Turns ask on the event loop; the memory, and agents under construction, *)
(* ask on threads, without a lock.  A change of the provider puts the new  *)
(* configuration in place, drops the models kept and closes their clients; *)
(* closing the factory does so for all models.                             *)
(*                                                                         *)
(* There is one provider; its configurations are numbered, 0 for none.  A  *)
(* model bears the name of the call that built it.                         *)
(***************************************************************************)
EXTENDS Naturals, FiniteSets, Functions, SequencesExt

CONSTANTS
    ModelKeys,      \* keys of the cache: a reference, a reference with a retry policy
    Chatters,       \* calls of get_chat_model() on the event loop, each with a request after it
    Helpers,        \* calls of it on threads
    KeyOf,          \* key of a call
    Updates,        \* calls of add_provider()
    Drops,          \* calls of remove_provider()
    PoolClosers,    \* calls of close()
    PoolAclosers,   \* calls of aclose()
    OffLoop,        \* the changes and calls of close() made while no event loop runs in their thread
    NoModel

Askers  == Chatters \cup Helpers
Changes == Updates \cup Drops
Closes  == PoolClosers \cup PoolAclosers
PoolUsers == Askers \cup Changes \cup Closes

ASSUME ModelPoolAssumption ==
    /\ KeyOf \in [Askers -> ModelKeys] /\ NoModel \notin PoolUsers /\ IsFiniteSet(Updates)
    /\ Askers \cap Changes = {} /\ Askers \cap Closes = {} /\ Changes \cap Closes = {}
    /\ Chatters \cap Helpers = {} /\ OffLoop \subseteq Changes \cup PoolClosers
    /\ PoolAclosers \cap PoolClosers = {}

VARIABLES
    provider,   \* number of the provider's configuration
    models,     \* _cache: the model kept under a key
    builtFrom,  \* configuration a model was built from
    clients,    \* the clients of a model that are open
    holds,      \* model a call has returned
    poolPC,     \* where a call is
    poolLoop,   \* who has the event loop
    spoken,     \* of a request: the models its text came from
    late,       \* history: models kept although the configuration had changed while they were built
    doubled,    \* history: models another one took the entry of
    missed,     \* history: models kept after close() had gone through the cache and before it emptied it
    halfClosed  \* history: models closed by a synchronous call under a running event loop

poolVars == <<provider, models, builtFrom, clients, holds, poolPC, poolLoop, spoken, late, doubled, missed, halfClosed>>

Kept == Range(models) \ {NoModel}
PoolAt(a, place) == poolPC[a] = place
PoolGoes(a, place) == poolPC' = [poolPC EXCEPT ![a] = place]

PoolInit ==
    /\ provider = 1
    /\ models = [k \in ModelKeys |-> NoModel]
    /\ builtFrom = [a \in Askers |-> 0] /\ clients = [a \in Askers |-> {}]
    /\ holds = [a \in Askers |-> NoModel]
    /\ poolPC = [a \in PoolUsers |-> "idle"] /\ poolLoop = NoModel
    /\ spoken = [a \in Chatters |-> {}]
    /\ late = {} /\ doubled = {} /\ missed = {} /\ halfClosed = {}

\* What runs on the event loop keeps it from its first step to its last.
OnLoop(a) == a \notin Helpers \cup OffLoop
TakesLoop(a) == IF OnLoop(a) THEN poolLoop = NoModel /\ poolLoop' = a ELSE UNCHANGED poolLoop
LeavesLoop(a) == poolLoop' = IF OnLoop(a) THEN NoModel ELSE poolLoop

-----------------------------------------------------------------------------
(* get_chat_model() *)

Look(a) ==
    /\ PoolAt(a, "idle")
    /\ IF models[KeyOf[a]] = NoModel
         THEN PoolGoes(a, "missing") /\ TakesLoop(a) /\ UNCHANGED holds
         ELSE /\ OnLoop(a) => poolLoop = NoModel
              /\ PoolGoes(a, "holding") /\ holds' = [holds EXCEPT ![a] = models[KeyOf[a]]] /\ UNCHANGED poolLoop
    /\ UNCHANGED <<provider, models, builtFrom, clients, spoken, late, doubled, missed, halfClosed>>

ReadProvider(a) ==
    /\ PoolAt(a, "missing")
    /\ IF provider = 0 THEN PoolGoes(a, "over") /\ LeavesLoop(a) ELSE PoolGoes(a, "building") /\ UNCHANGED poolLoop
    /\ builtFrom' = [builtFrom EXCEPT ![a] = provider]
    /\ UNCHANGED <<provider, models, clients, holds, spoken, late, doubled, missed, halfClosed>>

\* The model is built and kept, whatever is there by now.
KeepModel(a) ==
    /\ PoolAt(a, "building")
    /\ LET found == models[KeyOf[a]]
       IN doubled' = IF found = NoModel THEN doubled ELSE doubled \cup {found}
    /\ clients' = [clients EXCEPT ![a] = {"sync", "async"}]
    /\ models' = [models EXCEPT ![KeyOf[a]] = a]
    /\ holds' = [holds EXCEPT ![a] = a]
    /\ late' = IF builtFrom[a] # provider THEN late \cup {a} ELSE late
    /\ missed' = IF \E c \in Closes : PoolAt(c, "emptying") THEN missed \cup {a} ELSE missed
    /\ PoolGoes(a, "holding") /\ LeavesLoop(a)
    /\ UNCHANGED <<provider, builtFrom, spoken, halfClosed>>

-----------------------------------------------------------------------------
(* A request with the model, and the fallback of its API. *)

\* Variant with a fault: what was yielded does not count.
MayFallBackAlways(a) == TRUE

\* Another model may answer only while nothing has been yielded.
MayFallBack(a) == "responses" \notin spoken[a]

\* A chunk comes, of the model or, after "fallen", of its fallback.
Chunk(a) ==
    /\ PoolAt(a, "holding") \/ PoolAt(a, "fallen")
    /\ spoken' = [spoken EXCEPT ![a] = @ \cup {IF PoolAt(a, "holding") THEN "responses" ELSE "completions"}]
    /\ UNCHANGED <<provider, models, builtFrom, clients, holds, poolPC, poolLoop, late, doubled, missed, halfClosed>>

\* The provider says that it does not have the API.
Unsupported(a) ==
    /\ PoolAt(a, "holding")
    /\ PoolGoes(a, IF MayFallBack(a) THEN "fallen" ELSE "over")
    /\ UNCHANGED <<provider, models, builtFrom, clients, holds, poolLoop, spoken, late, doubled, missed, halfClosed>>

Release(a) ==
    /\ PoolAt(a, "holding") \/ PoolAt(a, "fallen")
    /\ PoolGoes(a, "over")
    /\ UNCHANGED <<provider, models, builtFrom, clients, holds, poolLoop, spoken, late, doubled, missed, halfClosed>>

-----------------------------------------------------------------------------
(* add_provider(), remove_provider(), close(), aclose() *)

\* close_session_http_clients() closes the asynchronous client only where no
\* event loop runs; aclose_session_http_clients() closes both.
CloseClients(set, actor) ==
    LET both == actor \in PoolAclosers \cup OffLoop
    IN /\ clients' = [a \in Askers |-> IF a \in set THEN IF both THEN {} ELSE clients[a] \ {"sync"} ELSE clients[a]]
       /\ halfClosed' = IF both THEN halfClosed ELSE halfClosed \cup set

SetProvider(s) ==
    /\ s \in Changes /\ PoolAt(s, "idle") /\ TakesLoop(s)
    /\ provider' = IF s \in Drops THEN 0 ELSE 1 + Cardinality({u \in Updates : poolPC[u] # "idle"} \cup {s})
    /\ PoolGoes(s, "evicting")
    /\ UNCHANGED <<models, builtFrom, clients, holds, spoken, late, doubled, missed, halfClosed>>

\* Variant with a fault: the models with a retry policy of their own stay.
PlainKeysOnly(k) == k = CHOOSE p \in ModelKeys : TRUE

\* Keys whose models a change of the provider drops.
Evicted(k) == TRUE

Evict(s) ==
    /\ s \in Changes /\ PoolAt(s, "evicting")
    /\ models' = [k \in ModelKeys |-> IF Evicted(k) THEN NoModel ELSE models[k]]
    /\ CloseClients({models[k] : k \in {l \in ModelKeys : Evicted(l)}} \ {NoModel}, s)
    /\ PoolGoes(s, "over") /\ LeavesLoop(s)
    /\ UNCHANGED <<provider, builtFrom, holds, spoken, late, doubled, missed>>

\* A model that a thread keeps meanwhile breaks the iteration over the cache
\* and the call fails with the new configuration in place.
EvictBreaks(s) ==
    /\ s \in Changes /\ PoolAt(s, "evicting")
    /\ \E a \in Askers : PoolAt(a, "building")
    /\ late' = late \cup Kept
    /\ PoolGoes(s, "over") /\ LeavesLoop(s)
    /\ UNCHANGED <<provider, models, builtFrom, clients, holds, spoken, doubled, missed, halfClosed>>

\* Each model kept is closed; aclose() leaves the event loop meanwhile.
CloseKept(c) ==
    /\ c \in Closes /\ PoolAt(c, "idle")
    /\ IF c \in PoolAclosers THEN poolLoop = NoModel /\ UNCHANGED poolLoop ELSE TakesLoop(c)
    /\ CloseClients(Kept, c)
    /\ PoolGoes(c, "emptying")
    /\ UNCHANGED <<provider, models, builtFrom, holds, spoken, late, doubled, missed>>

EmptyPool(c) ==
    /\ PoolAt(c, "emptying")
    /\ c \in PoolAclosers => poolLoop = NoModel
    /\ models' = [k \in ModelKeys |-> NoModel]
    /\ PoolGoes(c, "over") /\ (IF c \in PoolAclosers THEN UNCHANGED poolLoop ELSE LeavesLoop(c))
    /\ UNCHANGED <<provider, builtFrom, clients, holds, spoken, late, doubled, missed, halfClosed>>

PoolNext ==
    \/ \E a \in Askers : Look(a) \/ ReadProvider(a) \/ KeepModel(a)
    \/ \E a \in Chatters : Chunk(a) \/ Unsupported(a) \/ Release(a)
    \/ \E s \in Changes : SetProvider(s) \/ Evict(s) \/ EvictBreaks(s)
    \/ \E c \in Closes : CloseKept(c) \/ EmptyPool(c)

PoolSpec == PoolInit /\ [][PoolNext]_poolVars

-----------------------------------------------------------------------------
PoolTypeOK ==
    /\ provider \in 0..(1 + Cardinality(Updates))
    /\ models \in [ModelKeys -> Askers \cup {NoModel}] /\ holds \in [Askers -> Askers \cup {NoModel}]
    /\ builtFrom \in [Askers -> 0..(1 + Cardinality(Updates))]
    /\ clients \in [Askers -> SUBSET {"sync", "async"}]
    /\ poolPC \in [PoolUsers -> {"idle", "missing", "building", "holding", "fallen", "over", "evicting", "emptying"}]
    /\ poolLoop \in PoolUsers \cup {NoModel}
    /\ spoken \in [Chatters -> SUBSET {"responses", "completions"}]
    /\ late \cup doubled \cup missed \cup halfClosed \subseteq Askers

\* A model that is kept is of the configuration in force, once the change is
\* through; except for one that a thread was building at that time, which
\* stays until the next change (or stands in the way of dropping the others).
KeptIsCurrent ==
    (\A s \in Changes : ~PoolAt(s, "evicting")) =>
        \A a \in Kept : builtFrom[a] = provider \/ a \in late

\* No model that was dropped keeps a connection open.  The exceptions: two
\* threads built one and the first is forgotten; a thread kept one while the
\* factory was being closed; the asynchronous client of a model that a change
\* of the provider, or close(), dropped under a running event loop.
ConnectionsClosed ==
    \A a \in Askers \ Kept : clients[a] # {} =>
        a \in doubled \cup missed \/ (a \in halfClosed /\ clients[a] = {"async"})

\* The cache gives out no model whose connections it has closed, except
\* between two closings of aclose().
KeptIsOpen == (\A c \in Closes : ~PoolAt(c, "emptying")) => \A a \in Kept : clients[a] = {"sync", "async"}

\* The text of an answer comes from one model, and once.
OneVoice == \A a \in Chatters : Cardinality(spoken[a]) <= 1

\* The models that agents share.
ModelsServe == KeptIsCurrent /\ ConnectionsClosed /\ KeptIsOpen /\ OneVoice

-----------------------------------------------------------------------------
(***************************************************************************)
(* Which model answers: where an agent has its providers from, and how a   *)
(* turn finds its model (config/env.py, config/__init__.py,                *)
(* llm/factory.py, middleware/turn_model.py, manager.py, agent.py).        *)
(*                                                                         *)
(* A manager keeps its providers in a shared factory, which it changes in  *)
(* place.  An agent gets the factory; one whose configuration names no     *)
(* providers also gets a copy of the list, which neither a change of the   *)
(* providers nor a rebuild brings up to date.  Without a factory it reads  *)
(* the environment.  Defaults are looked for in the agent's own list, the  *)
(* model is taken from the factory.                                        *)
(*                                                                         *)
(* The models of a provider are named by its version; a list of providers  *)
(* is a sequence of [id, version], in the order of the dictionary.         *)
(***************************************************************************)
CONSTANTS
    Bots,         \* ids of agents, in the order of the registry
    Providers,    \* ids of providers
    ModelsOf,     \* of a version: its models, each [id, on, wide, limit]
    Presets,      \* the provider templates: a sequence of [id, version, key]
    Setups,       \* configurations, each [providers, default, wide]
    Environs,     \* environments, each [harness, openai, keys, default, model]
    FirstShared,  \* what the manager may be given
    NoRef, NoFactory, NoBot,
    MaxProviderEdits      \* bound: changes of the providers

ASSUME ModelRefsAssumption ==
    /\ MaxProviderEdits \in Nat
    /\ \A i \in 1..Len(Presets) : Presets[i].version \in DOMAIN ModelsOf
    /\ \A s \in Setups : s.default # NoRef => Len(s.default) = 2

VARIABLES
    shared,    \* _shared_factory: its providers
    bots,      \* agents: [cfg, base, own, mixed], own the providers of its own factory
    outdated,  \* history: providers that changed since an agent has its list
    dropped,   \* history: agents a rebuild removed without putting one in their place
    passed,    \* history: agents the last rebuild did not get to
    barren,    \* history: the last configuration no agent could be made of, from the environment
    environ,   \* the environment
    edits

refsVars == <<shared, bots, outdated, dropped, passed, barren, environ, edits>>

-----------------------------------------------------------------------------
(***************************************************************************)
(* Lists of providers and references <<provider, model>>.                  *)
(***************************************************************************)
IdsIn(list) == {list[i].id : i \in 1..Len(list)}
VersionIn(list, p) == list[CHOOSE i \in 1..Len(list) : list[i].id = p].version
ModelIn(list, ref) == SelectSeq(ModelsOf[VersionIn(list, ref[1])], LAMBDA m : m.id = ref[2])

\* resolve_model_ref(), get_chat_model(): the model is known and enabled.
Resolves(list, ref) ==
    ref[1] \in IdsIn(list) /\ LET m == ModelIn(list, ref) IN m # <<>> /\ m[1].on

LimitIn(list, ref) == IF Resolves(list, ref) THEN ModelIn(list, ref)[1].limit ELSE 0

\* A provider that comes again keeps its place.
WithProvider(list, p) ==
    IF p.id \in IdsIn(list) THEN [i \in 1..Len(list) |-> IF list[i].id = p.id THEN p ELSE list[i]]
    ELSE Append(list, p)
WithoutProvider(list, p) == SelectSeq(list, LAMBDA q : q.id # p)

\* The enabled models of a list, as references, in order: those that take
\* attachments or those that do not.
EnabledRefs(list, kinds) ==
    FlattenSeq([i \in 1..Len(list) |->
        LET fit == SelectSeq(ModelsOf[list[i].version], LAMBDA m : m.on /\ m.wide \in kinds)
        IN [j \in 1..Len(fit) |-> <<list[i].id, fit[j].id>>]])
FirstRef(refs) == IF refs = <<>> THEN NoRef ELSE refs[1]

\* pick_default_model_ref(): it raises when there is none.
PickDefault(cfg) ==
    IF cfg.default # NoRef THEN cfg.default ELSE FirstRef(EnabledRefs(cfg.providers, BOOLEAN))

\* Variant with a fault: whatever it accepts.
PickAny(cfg) ==
    IF cfg.wide # NoRef THEN cfg.wide ELSE FirstRef(EnabledRefs(cfg.providers, BOOLEAN))

PickMultimodal(cfg) ==
    IF cfg.wide # NoRef THEN cfg.wide ELSE FirstRef(EnabledRefs(cfg.providers, {TRUE}))

\* __post_init__: references are checked when the configuration has providers.
Checks(cfg) ==
    cfg.providers # <<>> =>
        /\ cfg.default # NoRef => Resolves(cfg.providers, cfg.default)
        /\ cfg.wide # NoRef => Resolves(cfg.providers, cfg.wide)

-----------------------------------------------------------------------------
(***************************************************************************)
(* The environment.  harness[p] is "no", "key", or "url" for a key with an *)
(* address; openai is "no", "key", or "blank" for a key with an empty      *)
(* address; keys are the other variables that are set.                     *)
(***************************************************************************)
PresetOf(p) == SelectSeq(Presets, LAMBDA q : q.id = p)

\* HARNESS_PROVIDER_<P>_API_KEY: the template lends its address, not its models.
SpelledOut(env, p) == env.harness[p] = "url" \/ (env.harness[p] = "key" /\ PresetOf(p) # <<>>)
HarnessProviders(env) ==
    LET names == SelectSeq(SetToSeq(Providers), LAMBDA p : SpelledOut(env, p))
    IN [i \in 1..Len(names) |-> [id |-> names[i], version |-> "bare"]]

WithOpenAI(env, list) ==
    IF env.openai = "no" \/ "openai" \in IdsIn(list) THEN list
    ELSE Append(list, [id |-> "openai", version |-> IF PresetOf("openai") = <<>> THEN "bare"
        ELSE PresetOf("openai")[1].version])

WithPresets(env, list) ==
    FoldLeft(LAMBDA l, q : IF q.key \in env.keys /\ q.id \notin IdsIn(l)
                           THEN Append(l, [id |-> q.id, version |-> q.version]) ELSE l,
             list, Presets)

\* Variant with a fault: the model must be among those of the template.
OnlyKnownModels(env, list) == list

\* OPENAI_MODEL_NAME adds its model when the provider has none of that name.
WithNamedModel(env, list) ==
    IF env.default # NoRef \/ env.model = NoRef \/ "openai" \notin IdsIn(list)
        \/ ModelIn(list, <<"openai", env.model>>) # <<>>
    THEN list ELSE WithProvider(list, [id |-> "openai", version |-> VersionIn(list, "openai") \o "+"])

DefaultOf(env, list) ==
    CASE env.default # NoRef -> env.default
      [] env.model # NoRef /\ "openai" \in IdsIn(list) -> <<"openai", env.model>>
      [] Len(list) = 1 -> LET ms == ModelsOf[list[1].version]
                          IN IF ms = <<>> THEN NoRef ELSE <<list[1].id, ms[1].id>>
      [] OTHER -> NoRef

Detected(env) == WithPresets(env, WithOpenAI(env, HarnessProviders(env)))
DetectProviders(env) == WithNamedModel(env, Detected(env))
\* An address that is set to nothing makes the detection raise.
DetectFails(env) == env.openai = "blank" /\ "openai" \notin IdsIn(HarnessProviders(env))
-----------------------------------------------------------------------------
(***************************************************************************)
(* Compiling an agent.                                                     *)
(***************************************************************************)

\* _init_model_factory(): the configuration after it.
Furnished(cfg) ==
    IF shared # NoFactory
    THEN [cfg EXCEPT !.providers = IF cfg.providers = <<>> THEN shared ELSE cfg.providers]
    ELSE IF cfg.providers # <<>> THEN cfg
    ELSE [cfg EXCEPT !.providers = DetectProviders(environ),
                     !.default = IF cfg.default = NoRef THEN DefaultOf(environ, Detected(environ)) ELSE cfg.default]

FactoryOf(b) == IF bots[b].own = NoFactory THEN shared ELSE bots[b].own

\* __init__ raises when nothing is found, a reference of the environment is
\* unknown, or the seed model cannot be had.
Compiles(cfg) ==
    LET full == Furnished(cfg)
        from == IF shared # NoFactory THEN shared ELSE full.providers
    IN /\ shared = NoFactory /\ cfg.providers = <<>> =>
              ~DetectFails(environ) /\ full.providers # <<>> /\ Checks(full)
       /\ PickDefault(full) # NoRef /\ Resolves(from, PickDefault(full))

\* An agent is mixed when the factory has other providers than its list
\* was made of.
Compiled(cfg, mixed) ==
    [cfg   |-> Furnished(cfg),
     base  |-> LimitIn(IF shared # NoFactory THEN shared ELSE Furnished(cfg).providers, PickDefault(Furnished(cfg))),
     own   |-> IF shared # NoFactory THEN NoFactory ELSE Furnished(cfg).providers,
     mixed |-> shared # NoFactory /\ mixed]

CreateBot(b) ==
    /\ bots[b] = NoBot /\ b \notin dropped
    /\ \E cfg \in Setups :
         /\ Checks(cfg)
         /\ IF Compiles(cfg)
            THEN /\ bots' = [bots EXCEPT ![b] = Compiled(cfg, cfg.providers # <<>>)]
                 /\ outdated' = [outdated EXCEPT ![b] = {}]
                 /\ UNCHANGED barren
            ELSE /\ barren' = IF shared = NoFactory /\ cfg.providers = <<>> THEN {cfg} ELSE barren
                 /\ UNCHANGED <<bots, outdated>>
    /\ UNCHANGED <<shared, dropped, passed, environ, edits>>

\* add_provider(), remove_provider(): in place.
EditProviders ==
    /\ edits < MaxProviderEdits /\ edits' = edits + 1
    /\ \E p \in Providers :
         /\ \/ \E v \in {"full", "slim"} :
                  shared' = IF shared = NoFactory THEN <<[id |-> p, version |-> v]>>
                            ELSE WithProvider(shared, [id |-> p, version |-> v])
            \/ shared # NoFactory /\ shared' = WithoutProvider(shared, p)
         /\ outdated' = [b \in DOMAIN outdated |-> outdated[b] \cup {p}]
    /\ UNCHANGED <<bots, dropped, passed, barren, environ>>

\* One agent of a rebuild of all; s is what the rebuild has done so far.
\* The copy of the configuration, which has the agent's list by now, is
\* checked before the agent is removed; the rest is done after that.
RebuildOne(s, b) ==
    LET bot == bots[b]
    IN CASE s.broken \/ ~Checks(bot.cfg) -> [s EXCEPT !.passed = @ \cup {b}, !.broken = TRUE]
         [] Compiles(bot.cfg) -> [s EXCEPT !.bots[b] = Compiled(bot.cfg, bot.mixed \/ bot.own # NoFactory)]
         [] OTHER -> [s EXCEPT !.bots[b] = NoBot, !.dropped = @ \cup {b}, !.broken = TRUE]

\* set_security_policy(): the first agent that fails ends it.
RebuildAll ==
    LET live == SelectSeq(Bots, LAMBDA b : bots[b] # NoBot)
        r    == FoldLeft(RebuildOne, [bots |-> bots, dropped |-> dropped, passed |-> {}, broken |-> FALSE], live)
    IN /\ live # <<>>
       /\ bots' = r.bots /\ dropped' = r.dropped /\ passed' = r.passed
       /\ UNCHANGED <<shared, outdated, barren, environ, edits>>

-----------------------------------------------------------------------------
(***************************************************************************)
(* A turn.                                                                 *)
(***************************************************************************)

\* resolve_turn_model_ref(): the host's word, the selector's, a model for
\* what is attached to the last message, the default.
ResolveTurn(cfg, asked, picked, attached) ==
    CASE asked # NoRef -> asked
      [] picked # NoRef -> picked
      [] attached /\ PickMultimodal(cfg) # NoRef -> PickMultimodal(cfg)
      [] OTHER -> PickDefault(cfg)

\* Variant with a fault: what the graph was compiled with.
LimitOfSeed(b, asked) == bots[b].base

\* TurnAwareProfile: what compaction takes for the limit of the turn's model;
\* it sees neither the messages nor the selector, and falls back on the
\* limit of the model the graph was compiled with.
LimitOfTurn(b, asked) ==
    LET limit == LimitIn(FactoryOf(b), ResolveTurn(bots[b].cfg, asked, NoRef, FALSE))
    IN IF limit > 0 THEN limit ELSE bots[b].base

RefsInit ==
    /\ shared \in FirstShared /\ environ \in IF shared = NoFactory THEN Environs ELSE {CHOOSE e \in Environs : TRUE}
    /\ bots = [b \in ToSet(Bots) |-> NoBot] /\ outdated = [b \in ToSet(Bots) |-> {}]
    /\ dropped = {} /\ passed = {} /\ barren = {} /\ edits = 0

RefsNext == EditProviders \/ RebuildAll \/ \E b \in ToSet(Bots) : CreateBot(b)

Lists == UNION {[1..n -> [id : Providers, version : DOMAIN ModelsOf]] : n \in 0..4}

RefsTypeOK ==
    /\ shared = NoFactory \/ shared \in Lists
    /\ \A b \in ToSet(Bots) : bots[b] # NoBot =>
           bots[b].cfg.providers \in Lists /\ bots[b].mixed \in BOOLEAN
    /\ \A b \in ToSet(Bots) : outdated[b] \subseteq Providers
    /\ dropped \subseteq ToSet(Bots) /\ passed \subseteq ToSet(Bots) /\ edits \in 0..MaxProviderEdits

-----------------------------------------------------------------------------
Live == {b \in ToSet(Bots) : bots[b] # NoBot}
InStep(b, ref) == bots[b].own # NoFactory \/ ref[1] \notin outdated[b]

\* An agent has a default model, and turns get it until the manager changes
\* the provider it is of: the agent's own list tells it nothing of that.
DefaultServes ==
    \A b \in Live :
        LET ref == PickDefault(bots[b].cfg)
        IN ref # NoRef /\ (InStep(b, ref) => Resolves(FactoryOf(b), ref))

\* A turn with attachments gets a model that takes them, when the agent
\* knows one and none was configured: a configured one is taken as it is,
\* and never checked when the providers came with the factory.
AttachmentsServed ==
    \A b \in Live :
        LET cfg == bots[b].cfg
            ref == ResolveTurn(cfg, NoRef, NoRef, TRUE)
        IN cfg.wide = NoRef /\ PickMultimodal(cfg) # NoRef /\ ~bots[b].mixed /\ InStep(b, ref) =>
               Resolves(FactoryOf(b), ref) /\ ModelIn(FactoryOf(b), ref)[1].wide

\* A rebuild loses an agent only when the provider of its default model
\* changed, or when it takes an agent with a factory of its own to the
\* manager's, and skips one only behind such an agent or behind one whose
\* multimodal model is not in the list it got with the factory.
RebuildsKeep ==
    /\ \A b \in dropped : outdated[b] # {}
    /\ passed # {} => dropped # {} \/ \E b \in Live : ~Checks(bots[b].cfg)

\* A key of a provider there is a template for is enough for an agent.  It
\* is not when the variable is named after the provider: its models stay
\* unknown, and without models there is no default.
KeySuffices ==
    \A cfg \in barren :
        \/ Detected(environ) = <<>> \/ environ.openai = "blank" \/ environ.default # NoRef
        \/ cfg.default # NoRef \/ cfg.wide # NoRef
        \/ \E p \in Providers : environ.harness[p] # "no"

\* Compaction goes by the limit of the model that answers, also where a
\* selector or an attachment would have chosen another one had the host not
\* asked for its own.
LimitFollows ==
    \A b \in Live : \A asked \in {NoRef} \cup (Providers \X {"m1", "m2"}) :
        \A picked \in {NoRef} \cup (Providers \X {"m2"}), attached \in BOOLEAN :
            LET ref == ResolveTurn(bots[b].cfg, asked, picked, attached)
            IN (asked # NoRef \/ (picked = NoRef /\ ~attached)) /\ LimitIn(FactoryOf(b), ref) > 0 =>
                   LimitOfTurn(b, asked) = LimitIn(FactoryOf(b), ref)

RefsResolve == DefaultServes /\ AttachmentsServed /\ RebuildsKeep /\ KeySuffices /\ LimitFollows
=============================================================================
