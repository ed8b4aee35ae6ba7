-------------------------- MODULE ManagerSettings --------------------------
(***************************************************************************)
(* The settings all agents of a manager share: the security policy, the    *)
(* tracer and the model factory (manager.py, registry.py).                 *)
(*                                                                         *)
(* An agent copies the policy when it is compiled and the tracer's         *)
(* callbacks when it is about to be registered.  acreate_agent does both   *)
(* on a worker thread; the settings change, and the manager is closed, on  *)
(* the event loop, with which the worker thread interleaves.               *)
(*                                                                         *)
(* How closing a busy agent is left to its last turn is in AgentReload;    *)
(* here a closing agent keeps its turns until they end.                    *)
(***************************************************************************)
EXTENDS Naturals, FiniteSets

CONSTANTS
    News,       \* calls of acreate_agent
    Setters,    \* calls of set_security_policy
    Names,      \* agent ids
    NameOf,     \* the id of a new agent, and of the agent of a turn
    Chats,      \* turns
    MaxTracers, \* bound: number of set_langfuse calls
    Absent

\* An agent bears the name of the call that compiles it; a setter compiles
\* one for each id.
Built == News \cup (Setters \X Names)

ASSUME SettingsAssumption ==
    /\ IsFiniteSet(Setters)
    /\ News \cap (Setters \X Names) = {}
    /\ NameOf \in [News \cup Chats -> Names]
    /\ MaxTracers \in Nat
    /\ Absent \notin Built \cup Setters /\ "shutdown" \notin Setters

VARIABLES
    policy,    \* _security_policy, as the number of changes so far
    tracer,    \* _langfuse, likewise
    entries,   \* _registry
    life,      \* of an agent: none, compiled, wired, open, closing, closed, dropped
    obeys,     \* the policy an agent was compiled with
    traced,    \* the callbacks it was given
    stage,     \* where the setters and the shutdown are
    left,      \* ids a setter has still to rebuild
    leaving,   \* agents a shutdown has still to close
    held,      \* the setter that holds the event loop, between two of its steps
    factory,   \* the shared model factory: open, closed
    chat,      \* where each turn is
    chatOn,    \* the agent a turn runs on
    overtaken, \* history: agents under construction that had read a setting when it changed
    promised,  \* history: the agents a shutdown found
    spoiled    \* history: ids that a setter did not get to

settingVars == <<policy, tracer, overtaken>>
agentsVars  == <<entries, life, obeys, traced>>
chatVars    == <<chat, chatOn>>
stageVars   == <<stage, left, leaving, promised, held, spoiled>>
managerVars == <<settingVars, agentsVars, stageVars, factory, chatVars>>

Staged == Setters \cup {"shutdown"}

ManagerTypeOK ==
    /\ policy \in 0..Cardinality(Setters) /\ tracer \in 0..MaxTracers
    /\ entries \in [Names -> Built \cup {Absent}]
    /\ life \in [Built -> {"none", "compiled", "wired", "open", "closing", "closed", "dropped"}]
    /\ obeys \in [Built -> 0..Cardinality(Setters)] /\ traced \in [Built -> 0..MaxTracers]
    /\ stage \in [Staged -> {"idle", "rebuilding", "closing", "clearing", "done"}]
    /\ left \in [Setters -> SUBSET Names]
    /\ leaving \in SUBSET Built /\ promised \in SUBSET Built
    /\ held \in Setters \cup {Absent}
    /\ factory \in {"open", "closed"}
    /\ chat \in [Chats -> {"idle", "running", "done"}]
    /\ chatOn \in [Chats -> Built \cup {Absent}]
    /\ overtaken \in SUBSET Built /\ spoiled \in SUBSET Names

ManagerInit ==
    /\ policy = 0 /\ tracer = 0
    /\ entries = [n \in Names |-> Absent]
    /\ life = [g \in Built |-> "none"]
    /\ obeys = [g \in Built |-> 0] /\ traced = [g \in Built |-> 0]
    /\ stage = [s \in Staged |-> "idle"]
    /\ left = [s \in Setters |-> {}] /\ leaving = {} /\ promised = {} /\ held = Absent
    /\ factory = "open"
    /\ chat = [c \in Chats |-> "idle"] /\ chatOn = [c \in Chats |-> Absent]
    /\ overtaken = {} /\ spoiled = {}

Lives(g, l) == life' = [life EXCEPT ![g] = l]
Reaches(s, l) == stage' = [stage EXCEPT ![s] = l]
Busy(g) == \E c \in Chats : chat[c] = "running" /\ chatOn[c] = g

\* close() of an agent: left to the last turn when there are turns.
Closing(g) == IF Busy(g) THEN "closing" ELSE "closed"

-----------------------------------------------------------------------------
(***************************************************************************)
(* acreate_agent, on a worker thread.                                      *)
(***************************************************************************)

\* The policy is applied to the configuration, and the graph compiled.
Compile(g) ==
    /\ life[g] = "none"
    /\ obeys' = [obeys EXCEPT ![g] = policy]
    /\ Lives(g, "compiled")
    /\ UNCHANGED <<settingVars, entries, traced, stageVars, factory, chatVars>>

\* The tracer's callbacks are bound to the graph.
Wire(g) ==
    /\ life[g] = "compiled"
    /\ traced' = [traced EXCEPT ![g] = tracer]
    /\ Lives(g, "wired")
    /\ UNCHANGED <<settingVars, entries, obeys, stageVars, factory, chatVars>>

\* Variant with a fault: an entry with the same id is overwritten.
RegisterOver(g) ==
    /\ life[g] = "wired"
    /\ entries' = [entries EXCEPT ![NameOf[g]] = g]
    /\ Lives(g, "open")
    /\ UNCHANGED <<settingVars, obeys, traced, stageVars, factory, chatVars>>

\* The agent is filed; an id that is taken meanwhile makes the call fail, and
\* the agent it has built is left to its destructor.
Register(g) ==
    /\ life[g] = "wired"
    /\ \/ /\ entries[NameOf[g]] = Absent
          /\ entries' = [entries EXCEPT ![NameOf[g]] = g]
          /\ Lives(g, "open")
       \/ /\ entries[NameOf[g]] # Absent
          /\ Lives(g, "dropped")
          /\ UNCHANGED entries
    /\ UNCHANGED <<settingVars, obeys, traced, stageVars, factory, chatVars>>

-----------------------------------------------------------------------------
(***************************************************************************)
(* Changes of the settings, on the event loop.                             *)
(***************************************************************************)

LoopFree == held = Absent
InMaking == {g \in News : life[g] \in {"compiled", "wired"}}
Wired    == {g \in News : life[g] = "wired"}

\* set_security_policy: the ids registered now are rebuilt, in one go for
\* the event loop.
SetPolicy(s) ==
    /\ LoopFree /\ stage[s] = "idle"
    /\ policy' = policy + 1
    /\ overtaken' = overtaken \cup InMaking
    /\ left' = [left EXCEPT ![s] = {n \in Names : entries[n] # Absent}]
    /\ held' = s
    /\ Reaches(s, "rebuilding")
    /\ UNCHANGED <<tracer, agentsVars, leaving, promised, spoiled, factory, chatVars>>

\* _rebuild_agent, first half: an id that is gone is passed over, the agent
\* of another is taken out and closed.
TakeDown(s, n) ==
    LET g == entries[n] IN
    /\ stage[s] = "rebuilding" /\ n \in left[s] /\ life[<<s, n>>] = "none"
    /\ ~\E m \in left[s] : life[<<s, m>>] = "compiled"
    /\ \/ /\ g = Absent
          /\ left' = [left EXCEPT ![s] = @ \ {n}]
          /\ UNCHANGED <<entries, life, obeys>>
       \/ /\ g # Absent
          /\ entries' = [entries EXCEPT ![n] = Absent]
          /\ life' = [life EXCEPT ![g] = Closing(g), ![<<s, n>>] = "compiled"]
          /\ obeys' = [obeys EXCEPT ![<<s, n>>] = policy]
          /\ UNCHANGED left
    /\ UNCHANGED <<settingVars, traced, stage, leaving, promised, held, spoiled, factory, chatVars>>

\* Second half: the new agent is wired and filed.  If a worker thread has
\* filed the id meanwhile, or compiling fails, the call ends here and the
\* remaining ids keep what they have.
PutBack(s, n) ==
    LET g == <<s, n>> IN
    /\ stage[s] = "rebuilding" /\ n \in left[s] /\ life[g] = "compiled"
    /\ traced' = [traced EXCEPT ![g] = tracer]
    /\ \/ /\ entries[n] = Absent
          /\ entries' = [entries EXCEPT ![n] = g]
          /\ Lives(g, "open")
          /\ left' = [left EXCEPT ![s] = @ \ {n}]
          /\ UNCHANGED <<stage, held, spoiled>>
       \/ /\ Lives(g, "dropped")
          /\ spoiled' = spoiled \cup left[s]
          /\ left' = [left EXCEPT ![s] = {}]
          /\ held' = Absent
          /\ Reaches(s, "done")
          /\ UNCHANGED entries
    /\ UNCHANGED <<settingVars, obeys, leaving, promised, factory, chatVars>>

AllRebuilt(s) ==
    /\ stage[s] = "rebuilding" /\ left[s] = {}
    /\ held' = Absent
    /\ Reaches(s, "done")
    /\ UNCHANGED <<settingVars, agentsVars, left, leaving, promised, spoiled, factory, chatVars>>

\* Variant with a fault: the agents keep the callbacks they have.
SetTracerOnly ==
    /\ LoopFree /\ tracer < MaxTracers
    /\ tracer' = tracer + 1
    /\ overtaken' = overtaken \cup Wired
    /\ UNCHANGED <<policy, agentsVars, stageVars, factory, chatVars>>

\* set_langfuse: the callbacks go to every agent in the registry.
SetTracer ==
    /\ LoopFree /\ tracer < MaxTracers
    /\ tracer' = tracer + 1
    /\ overtaken' = overtaken \cup Wired
    /\ traced' = [g \in Built |-> IF \E n \in Names : entries[n] = g THEN tracer + 1 ELSE traced[g]]
    /\ UNCHANGED <<policy, entries, life, obeys, stageVars, factory, chatVars>>

-----------------------------------------------------------------------------
(***************************************************************************)
(* aclose() of the manager, and turns.                                     *)
(***************************************************************************)

\* The inbox is drained; then the agents registered now are closed.
BeginShutdown ==
    /\ LoopFree /\ stage["shutdown"] = "idle"
    /\ leaving' = {entries[n] : n \in Names} \ {Absent}
    /\ promised' = leaving'
    /\ Reaches("shutdown", "closing")
    /\ UNCHANGED <<settingVars, agentsVars, left, held, spoiled, factory, chatVars>>

ShutAgent(g) ==
    /\ LoopFree /\ g \in leaving
    /\ leaving' = leaving \ {g}
    /\ Lives(g, IF life[g] = "open" THEN Closing(g) ELSE life[g])
    /\ UNCHANGED <<settingVars, entries, obeys, traced, stage, left, promised, held, spoiled, factory, chatVars>>

\* The registry is emptied, of agents that came meanwhile too.
ClearRegistry ==
    /\ LoopFree /\ stage["shutdown"] = "closing" /\ leaving = {}
    /\ entries' = [n \in Names |-> Absent]
    /\ life' = [g \in Built |-> IF life[g] = "open" THEN "dropped" ELSE life[g]]
    /\ Reaches("shutdown", "clearing")
    /\ UNCHANGED <<settingVars, obeys, traced, left, leaving, promised, held, spoiled, factory, chatVars>>

\* The model factory is closed, whoever still runs.
CloseFactory ==
    /\ LoopFree /\ stage["shutdown"] = "clearing"
    /\ factory' = "closed"
    /\ Reaches("shutdown", "done")
    /\ UNCHANGED <<settingVars, agentsVars, left, leaving, promised, held, spoiled, chatVars>>

BeginChat(c) ==
    LET g == entries[NameOf[c]] IN
    /\ LoopFree /\ chat[c] = "idle" /\ g # Absent
    /\ chat' = [chat EXCEPT ![c] = "running"]
    /\ chatOn' = [chatOn EXCEPT ![c] = g]
    /\ UNCHANGED <<settingVars, agentsVars, stageVars, factory>>

\* The last turn of an agent that is to be closed closes it.
EndChat(c) ==
    LET g == chatOn[c] IN
    /\ LoopFree /\ chat[c] = "running"
    /\ chat' = [chat EXCEPT ![c] = "done"]
    /\ Lives(g, IF life[g] = "closing" /\ \A d \in Chats \ {c} : ~(chat[d] = "running" /\ chatOn[d] = g)
                THEN "closed" ELSE life[g])
    /\ UNCHANGED <<settingVars, entries, obeys, traced, stageVars, factory, chatOn>>

SetterStep(s) == SetPolicy(s) \/ AllRebuilt(s) \/ \E n \in Names : TakeDown(s, n) \/ PutBack(s, n)
ShutdownStep  == BeginShutdown \/ ClearRegistry \/ CloseFactory \/ \E g \in Built : ShutAgent(g)

ManagerNext ==
    \/ \E g \in News : Compile(g) \/ Wire(g) \/ Register(g)
    \/ \E s \in Setters : SetterStep(s)
    \/ SetTracer \/ ShutdownStep
    \/ \E c \in Chats : BeginChat(c) \/ EndChat(c)

ManagerSpec == ManagerInit /\ [][ManagerNext]_managerVars

-----------------------------------------------------------------------------
(***************************************************************************)
(* Properties.                                                             *)
(***************************************************************************)

\* A change of the policy or the tracer reaches every registered agent
\* ("Rebuild every running agent in-place"), except those under construction
\* that had read the setting when it changed, and those behind a rebuild that
\* failed.
SettingsReach ==
    \A n \in Names : LET g == entries[n] IN
        g # Absent /\ g \notin overtaken /\ n \notin spoiled =>
            /\ obeys[g] = policy \/ \E s \in Setters : n \in left[s]
            /\ traced[g] = tracer

\* No agent is forgotten while it is open: it can be found in the registry.
\* Those that a shutdown found there are closed when it returns, or will be
\* by a turn that still runs.
NoAgentForgotten ==
    /\ \A g \in Built : life[g] = "open" => \E n \in Names : entries[n] = g
    /\ stage["shutdown"] = "done" =>
          \A g \in promised : life[g] = "closed" \/ (life[g] = "closing" /\ Busy(g))

\* Changes reach the agents, and no agent is lost sight of.
ManagerKeepsUp == SettingsReach /\ NoAgentForgotten

-----------------------------------------------------------------------------
(***************************************************************************)
(* What the proofs rest on.                                                *)
(***************************************************************************)

BuiltName(g) == IF g \in News THEN NameOf[g] ELSE g[2]

\* The registry and the agents agree: what is filed was wired and is filed
\* under its id, and what is open is filed.
Placed ==
    /\ \A n \in Names : entries[n] # Absent =>
          BuiltName(entries[n]) = n /\ life[entries[n]] \in {"open", "closing", "closed"}
    /\ \A g \in Built : life[g] = "open" => entries[BuiltName(g)] = g

\* The policy counts the setters that began.
Begun == {s \in Setters : stage[s] # "idle"}
PolicyCounts == policy = Cardinality(Begun)

\* A setter that rebuilds has the event loop, and one agent between taking it
\* down and putting it back.
SetterHolds ==
    \A s \in Setters :
        /\ stage[s] = "rebuilding" <=> held = s
        /\ stage[s] # "rebuilding" => left[s] = {}
        /\ \A n \in Names :
              /\ life[<<s, n>>] # "wired"
              /\ life[<<s, n>>] = "compiled" => n \in left[s]
              /\ \A m \in Names : life[<<s, n>>] = "compiled" /\ life[<<s, m>>] = "compiled" => n = m

\* What an agent under construction has read is what is set.
ReadIsSet ==
    \A g \in Built \ overtaken :
        /\ life[g] \in {"compiled", "wired"} => obeys[g] = policy
        /\ life[g] = "wired" => traced[g] = tracer

\* An agent that is to be closed by its last turn has one.
ClosingIsBusy == \A g \in Built : life[g] = "closing" => Busy(g)

\* A shutdown has closed what it found, but for what it has still to close.
ShutInOrder ==
    /\ stage["shutdown"] \in {"idle", "clearing", "done"} => leaving = {}
    /\ stage["shutdown"] = "idle" => promised = {}
    /\ \A g \in promised : life[g] \in {"open", "closing", "closed"}
    /\ \A g \in promised \ leaving : life[g] # "open"

ManagerInv ==
    /\ Placed /\ PolicyCounts /\ SetterHolds /\ ReadIsSet /\ ClosingIsBusy /\ ShutInOrder
    /\ SettingsReach
=============================================================================
