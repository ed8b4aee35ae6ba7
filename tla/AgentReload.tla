---------------------------- MODULE AgentReload ----------------------------
(***************************************************************************)
(* Agents that are created, rebuilt and removed under running turns        *)
(* (manager.py, registry.py, agent.py, memory/runtime.py), on top of the   *)
(* shared memory store (MemoryStore).                                      *)
(*                                                                         *)
(* A turn looks its agent up in the registry and counts itself in          *)
(* _in_flight; close() of a busy agent is left to its last turn; closing   *)
(* the memory runtime is left to the last capture it has accepted.         *)
(*                                                                         *)
(* Turns, and the operations of the manager outside ThreadOps, run on one  *)
(* event loop: loop names who is between two awaits, and an actor keeps    *)
(* the loop through steps that the code does not suspend in.  Agents are   *)
(* built, and captures run, on other threads.                              *)
(*                                                                         *)
(* An agent is named by the operation that builds it.                      *)
(***************************************************************************)
EXTENDS MemoryStore

CONSTANTS
    Creations,  \* calls of create_agent / acreate_agent
    Rebuilds,   \* calls of arebuild_agent / _rebuild_agent
    Removals,   \* calls of aremove_agent / remove_agent
    Shutdowns,  \* calls of HarnessAgentManager.aclose
    ThreadOps,  \* operations that a host runs on a worker thread
    Turns,
    Ids,        \* agent ids
    IdOf,       \* the id an operation or turn is about
    Location    \* the memory location of an id

Agents == Creations \cup Rebuilds
Ops    == Agents \cup Removals \cup Shutdowns
PinOf(o) == <<"pin", o>>

\* The store's runtimes are the agents, its pins the contexts of the rebuilds.
ASSUME ReloadAssumption ==
    /\ \A S \in {Creations, Rebuilds, Removals, Shutdowns, Turns} : IsFiniteSet(S)
    /\ Creations \cap Rebuilds = {}
    /\ Agents \cap (Removals \cup Shutdowns) = {}
    /\ Removals \cap Shutdowns = {}
    /\ Turns \cap Ops = {}
    /\ ThreadOps \subseteq Creations \cup Rebuilds \cup Removals
    /\ IdOf \in [(Ops \ Shutdowns) \cup Turns -> Ids]
    /\ Location \in [Ids -> Keys]
    /\ None \notin Ops \cup Turns
    /\ Users = Agents
    /\ Pins = {PinOf(o) : o \in Rebuilds}
    /\ Failing = {}
    /\ \A g \in Agents : KeyOf[g] = Location[IdOf[g]]
    /\ \A o \in Rebuilds : KeyOf[PinOf(o)] = Location[IdOf[o]]

VARIABLES
    registry,   \* AgentRegistry._entries
    inFlight,   \* _in_flight of each agent
    pending,    \* agents whose _close_pending is set
    runtime,    \* memory runtime of each agent: open, draining or released
    op,         \* where each operation is
    victim,     \* the agent an operation is closing
    todo,       \* agents a shutdown has yet to close
    turn,       \* where each turn is
    on,         \* the agent a turn runs on
    capturing,  \* turns whose capture was accepted and has not ended
    loop,       \* who runs on the event loop, between two awaits
    kept        \* history: the Memory that was pinned by a rebuild

agentVars == <<inFlight, pending, runtime>>
opVars    == <<op, victim, todo, kept>>
turnVars  == <<turn, on, capturing>>
vars == <<storeVars, registry, agentVars, opVars, turnVars, loop>>

OpPCs == {"idle", "pinned", "removed", "releasing", "closed", "building", "built",
          "failed", "aborted", "listing", "done"}
TurnPCs == {"idle", "refused", "found", "running", "captured", "closing",
            "releasing", "done"}

TypeOK ==
    /\ StoreTypeOK
    /\ registry \in [Ids -> Agents \cup {None}]
    /\ inFlight \in [Agents -> Nat]
    /\ pending \in SUBSET Agents
    /\ runtime \in [Agents -> {"open", "draining", "released"}]
    /\ op \in [Ops -> OpPCs]
    /\ victim \in [Ops -> Agents \cup {None}]
    /\ todo \in [Ops -> SUBSET Agents]
    /\ turn \in [Turns -> TurnPCs]
    /\ on \in [Turns -> Agents \cup {None}]
    /\ capturing \in SUBSET Turns
    /\ loop \in Ops \cup Turns \cup {None}
    /\ kept \in [Ops -> Agents \cup {None}]

Init ==
    /\ StoreInit
    /\ registry = [i \in Ids |-> None]
    /\ inFlight = [g \in Agents |-> 0]
    /\ pending = {}
    /\ runtime = [g \in Agents |-> "open"]
    /\ op = [o \in Ops |-> "idle"]
    /\ victim = [o \in Ops |-> None]
    /\ todo = [o \in Ops |-> {}]
    /\ turn = [t \in Turns |-> "idle"]
    /\ on = [t \in Turns |-> None]
    /\ capturing = {}
    /\ loop = None
    /\ kept = [o \in Ops |-> None]

\* Actor a runs now, and keeps the loop, or suspends.
MayRun(a) == a \in ThreadOps \/ loop \in {None, a}
Keeps(a)  == loop' = IF a \in ThreadOps THEN loop ELSE a
Yields(a) == loop' = IF a \in ThreadOps THEN loop ELSE None

-----------------------------------------------------------------------------
(***************************************************************************)
(* Closing an agent: close() and aclose() of HarnessAgent, close() of      *)
(* MemoryRuntime.                                                          *)
(***************************************************************************)

CapturesOf(g) == {t \in capturing : on[t] = g}

\* Variant with a fault: accepted captures are not waited for.
CloseRuntimeAtOnce(g) ==
    IF runtime[g] = "open"
    THEN runtime' = [runtime EXCEPT ![g] = "released"] /\ Close(g)
    ELSE UNCHANGED <<runtime, storeVars>>

\* Variant with a fault: the Memory is closed instead of given back.
CloseRuntimeDirectly(g) ==
    /\ runtime' = [runtime EXCEPT ![g] = "released"]
    /\ closed' = closed \cup {lease[g]}
    /\ lease' = [lease EXCEPT ![g] = None]
    /\ UNCHANGED <<memory, refs, storePC, doomed, opened>>

\* MemoryRuntime.close(): the Memory is released, by the last capture if
\* some are under way.
CloseRuntime(g) ==
    \/ /\ runtime[g] = "open" /\ CapturesOf(g) = {}
       /\ runtime' = [runtime EXCEPT ![g] = "released"]
       /\ Close(g)
    \/ /\ runtime[g] = "open" /\ CapturesOf(g) # {}
       /\ runtime' = [runtime EXCEPT ![g] = "draining"]
       /\ UNCHANGED storeVars
    \/ /\ runtime[g] # "open"
       /\ UNCHANGED <<runtime, storeVars>>

\* Variant with a fault: close() does not look for turns.
BusyIgnored(g, deferred, goes) == goes /\ UNCHANGED pending

\* _defer_close_while_busy(): a busy agent is left to its last turn.
CheckBusy(g, deferred, goes) ==
    \/ /\ inFlight[g] > 0
       /\ pending' = pending \cup {g}
       /\ deferred
    \/ /\ inFlight[g] = 0
       /\ goes
       /\ UNCHANGED pending

-----------------------------------------------------------------------------
(***************************************************************************)
(* Operations of the manager.                                              *)
(***************************************************************************)

To(o, l) == op' = [op EXCEPT ![o] = l]

Create(o) ==
    /\ op[o] = "idle"
    /\ To(o, "building")
    /\ UNCHANGED <<storeVars, registry, agentVars, victim, todo, kept, turnVars, loop>>

\* Variant with a fault: nothing is pinned.
PinNothing(o) ==
    /\ op[o] = "idle"
    /\ MayRun(o)
    /\ \/ /\ registry[IdOf[o]] = None
          /\ To(o, IF o \in ThreadOps THEN "done" ELSE "building")
          /\ UNCHANGED <<kept, loop>>
       \/ /\ registry[IdOf[o]] # None
          /\ kept' = [kept EXCEPT ![o] = memory[Location[IdOf[o]]]]
          /\ To(o, "pinned")
          /\ Keeps(o)
    /\ UNCHANGED <<storeVars, registry, agentVars, victim, todo, turnVars>>

\* A rebuild finds its agent and enters hold_shared_memory().  Without an
\* agent arebuild_agent creates one, and _rebuild_agent returns.
Pin(o) ==
    /\ op[o] = "idle"
    /\ MayRun(o)
    /\ \/ /\ registry[IdOf[o]] = None
          /\ To(o, IF o \in ThreadOps THEN "done" ELSE "building")
          /\ UNCHANGED <<storeVars, kept, loop>>
       \/ /\ registry[IdOf[o]] # None
          /\ Hold(PinOf(o))
          /\ kept' = [kept EXCEPT ![o] = memory[Location[IdOf[o]]]]
          /\ To(o, "pinned")
          /\ Keeps(o)
    /\ UNCHANGED <<registry, agentVars, victim, todo, turnVars>>

\* AgentRegistry.remove().  A missing entry is a KeyError: it ends a rebuild
\* on a thread (remove_agent) and is ignored by aremove_agent.
Remove(o) ==
    /\ op[o] = IF o \in Rebuilds THEN "pinned" ELSE "idle"
    /\ MayRun(o)
    /\ \/ /\ registry[IdOf[o]] = None
          /\ To(o, IF o \in Removals THEN "done"
                   ELSE IF o \in ThreadOps THEN "failed" ELSE "building")
          /\ Yields(o)
          /\ UNCHANGED <<registry, victim>>
       \/ /\ registry[IdOf[o]] # None
          /\ victim' = [victim EXCEPT ![o] = registry[IdOf[o]]]
          /\ registry' = [registry EXCEPT ![IdOf[o]] = None]
          /\ To(o, "removed")
          /\ Keeps(o)
    /\ UNCHANGED <<storeVars, agentVars, todo, kept, turnVars>>

\* close() or aclose() of the removed agent, up to the first await (aclose
\* awaits a model factory that the agent owns).
CheckVictim(o) ==
    /\ op[o] = "removed"
    /\ MayRun(o)
    /\ CheckBusy(victim[o],
                 To(o, "closed") /\ (IF o \in Shutdowns THEN Keeps(o) ELSE Yields(o)),
                 To(o, "releasing") /\ Yields(o))
    /\ UNCHANGED <<storeVars, registry, inFlight, runtime, victim, todo, kept, turnVars>>

ReleaseVictim(o) ==
    /\ op[o] = "releasing"
    /\ MayRun(o)
    /\ CloseRuntime(victim[o])
    /\ To(o, "closed")
    /\ (IF o \in Shutdowns THEN Keeps(o) ELSE Yields(o))
    /\ UNCHANGED <<registry, inFlight, pending, victim, todo, kept, turnVars>>

\* close() returns; a rebuild goes on to build the new agent.
VictimClosed(o) ==
    /\ op[o] = "closed"
    /\ MayRun(o)
    /\ storePC[victim[o]] # "closing"
    /\ To(o, IF o \in Shutdowns THEN "listing" ELSE IF o \in Rebuilds THEN "building" ELSE "done")
    /\ victim' = [victim EXCEPT ![o] = None]
    /\ UNCHANGED <<storeVars, registry, agentVars, todo, kept, turnVars, loop>>

\* HarnessAgent() acquires its Memory.
BuildMemory(o) ==
    /\ op[o] = "building"
    /\ Acquire(o) \/ Install(o)
    /\ UNCHANGED <<registry, agentVars, opVars, turnVars, loop>>

\* The new agent is registered; add() refuses an id that is taken.
Register(o) ==
    /\ op[o] = "building"
    /\ storePC[o] = "using"
    /\ \/ /\ registry[IdOf[o]] = None
          /\ registry' = [registry EXCEPT ![IdOf[o]] = o]
          /\ To(o, "built")
       \/ /\ registry[IdOf[o]] # None
          /\ To(o, "failed")
          /\ UNCHANGED registry
    /\ UNCHANGED <<storeVars, agentVars, victim, todo, kept, turnVars, loop>>

\* The graph of the new agent does not compile.
BuildFails(o) ==
    /\ op[o] = "building"
    /\ storePC[o] = "using"
    /\ To(o, "failed")
    /\ UNCHANGED <<storeVars, registry, agentVars, victim, todo, kept, turnVars, loop>>

\* The operation ends; a rebuild leaves hold_shared_memory().
Leave(o) ==
    /\ op[o] \in {"built", "failed"}
    /\ MayRun(o)
    /\ IF o \in Rebuilds /\ storePC[PinOf(o)] = "using"
       THEN Unhold(PinOf(o)) ELSE UNCHANGED storeVars
    /\ To(o, IF op[o] = "built" THEN "done" ELSE "aborted")
    /\ UNCHANGED <<registry, agentVars, victim, todo, kept, turnVars, loop>>

\* An agent that was built and not registered is garbage: its memory runtime
\* is closed by its destructor.
Collect(o) ==
    /\ op[o] = "aborted"
    /\ storePC[o] = "using"
    /\ CloseRuntime(o)
    /\ UNCHANGED <<registry, inFlight, pending, opVars, turnVars, loop>>

\* HarnessAgentManager.aclose(): all registered agents are closed one after
\* the other, then the registry is cleared.
ShutDown(o) ==
    /\ op[o] = "idle"
    /\ MayRun(o)
    /\ todo' = [todo EXCEPT ![o] = {registry[i] : i \in Ids} \ {None}]
    /\ To(o, "listing")
    /\ Keeps(o)
    /\ UNCHANGED <<storeVars, registry, agentVars, victim, kept, turnVars>>

NextVictim(o) ==
    /\ op[o] = "listing"
    /\ MayRun(o)
    /\ \E g \in todo[o] :
          /\ victim' = [victim EXCEPT ![o] = g]
          /\ todo' = [todo EXCEPT ![o] = @ \ {g}]
    /\ To(o, "removed")
    /\ UNCHANGED <<storeVars, registry, agentVars, kept, turnVars, loop>>

ClearRegistry(o) ==
    /\ op[o] = "listing"
    /\ MayRun(o)
    /\ todo[o] = {}
    /\ registry' = [i \in Ids |-> None]
    /\ To(o, "done")
    /\ Yields(o)
    /\ UNCHANGED <<storeVars, agentVars, victim, todo, kept, turnVars>>

CloseStep(o) == CheckVictim(o) \/ ReleaseVictim(o) \/ VictimClosed(o)
BuildStep(o) == BuildMemory(o) \/ Register(o) \/ BuildFails(o) \/ Leave(o) \/ Collect(o)

-----------------------------------------------------------------------------
(***************************************************************************)
(* Turns: stream() and call() of the manager, _invocation() of the agent.  *)
(***************************************************************************)

\* The agent is looked up in the registry ...
LookUp(t) ==
    /\ turn[t] = "idle"
    /\ MayRun(t)
    /\ \/ /\ registry[IdOf[t]] = None
          /\ turn' = [turn EXCEPT ![t] = "refused"]
          /\ UNCHANGED <<on, loop>>
       \/ /\ registry[IdOf[t]] # None
          /\ on' = [on EXCEPT ![t] = registry[IdOf[t]]]
          /\ turn' = [turn EXCEPT ![t] = "found"]
          /\ Keeps(t)
    /\ UNCHANGED <<storeVars, registry, agentVars, opVars, capturing>>

\* ... and the turn counts itself, without an await in between.
Enter(t) ==
    /\ turn[t] = "found"
    /\ MayRun(t)
    /\ inFlight' = [inFlight EXCEPT ![on[t]] = @ + 1]
    /\ turn' = [turn EXCEPT ![t] = "running"]
    /\ Yields(t)
    /\ UNCHANGED <<storeVars, registry, pending, runtime, opVars, on, capturing>>

\* after_model: a capture is handed to a thread, unless the middleware was
\* shut down.
Capture(t) ==
    /\ turn[t] = "running"
    /\ MayRun(t)
    /\ turn' = [turn EXCEPT ![t] = "captured"]
    /\ capturing' = IF runtime[on[t]] = "open" THEN capturing \cup {t} ELSE capturing
    /\ UNCHANGED <<storeVars, registry, agentVars, opVars, on, loop>>

\* The capture ends; the last one releases the Memory of a closed runtime.
CaptureEnds(t) ==
    /\ t \in capturing
    /\ capturing' = capturing \ {t}
    /\ IF runtime[on[t]] = "draining" /\ CapturesOf(on[t]) = {t}
       THEN /\ runtime' = [runtime EXCEPT ![on[t]] = "released"]
            /\ Close(on[t])
       ELSE UNCHANGED <<runtime, storeVars>>
    /\ UNCHANGED <<registry, inFlight, pending, opVars, turn, on, loop>>

\* Variant with a fault: the deferred close is forgotten.
EndOnly(t) ==
    /\ turn[t] \in {"running", "captured"}
    /\ MayRun(t)
    /\ inFlight' = [inFlight EXCEPT ![on[t]] = @ - 1]
    /\ turn' = [turn EXCEPT ![t] = "done"]
    /\ UNCHANGED <<storeVars, registry, pending, runtime, opVars, on, capturing, loop>>

\* The turn ends: the last one of an agent whose close was deferred closes it.
End(t) ==
    /\ turn[t] \in {"running", "captured"}
    /\ MayRun(t)
    /\ inFlight' = [inFlight EXCEPT ![on[t]] = @ - 1]
    /\ \/ /\ inFlight[on[t]] = 1 /\ on[t] \in pending
          /\ pending' = pending \ {on[t]}
          /\ turn' = [turn EXCEPT ![t] = "closing"]
          /\ Keeps(t)
       \/ /\ ~(inFlight[on[t]] = 1 /\ on[t] \in pending)
          /\ turn' = [turn EXCEPT ![t] = "done"]
          /\ UNCHANGED <<pending, loop>>
    /\ UNCHANGED <<storeVars, registry, runtime, opVars, on, capturing>>

\* aclose() at the end of the last turn
DeferredCheck(t) ==
    /\ turn[t] = "closing"
    /\ MayRun(t)
    /\ CheckBusy(on[t],
                 turn' = [turn EXCEPT ![t] = "done"],
                 turn' = [turn EXCEPT ![t] = "releasing"])
    /\ Yields(t)
    /\ UNCHANGED <<storeVars, registry, inFlight, runtime, opVars, on, capturing>>

DeferredRelease(t) ==
    /\ turn[t] = "releasing"
    /\ MayRun(t)
    /\ CloseRuntime(on[t])
    /\ turn' = [turn EXCEPT ![t] = "done"]
    /\ UNCHANGED <<registry, inFlight, pending, opVars, on, capturing, loop>>

TurnStep(t) == \/ Enter(t) \/ Capture(t) \/ CaptureEnds(t) \/ End(t)
               \/ DeferredCheck(t) \/ DeferredRelease(t)

-----------------------------------------------------------------------------
\* Closing the connections of a surplus or released Memory.
CloseConnections(a) ==
    /\ CloseResources(a)
    /\ UNCHANGED <<registry, agentVars, opVars, turnVars, loop>>

Next ==
    \/ \E o \in Creations : Create(o)
    \/ \E o \in Rebuilds : Pin(o)
    \/ \E o \in Rebuilds \cup Removals : Remove(o)
    \/ \E o \in Shutdowns : ShutDown(o) \/ NextVictim(o) \/ ClearRegistry(o)
    \/ \E o \in Ops : CloseStep(o)
    \/ \E o \in Agents : BuildStep(o)
    \/ \E t \in Turns : LookUp(t) \/ TurnStep(t)
    \/ \E a \in Agents \cup Pins : CloseConnections(a)

Spec == Init /\ [][Next]_vars

\* The loop and the threads run what is ready; turns and captures end (their
\* model and tool calls have timeouts outside this component).
Fairness ==
    /\ \A o \in Ops : WF_vars(CloseStep(o) \/ NextVictim(o) \/ ClearRegistry(o))
    /\ \A o \in Rebuilds : WF_vars(Remove(o))
    /\ \A o \in Agents : WF_vars(BuildStep(o))
    /\ \A t \in Turns : WF_vars(TurnStep(t))
    /\ \A a \in Agents \cup Pins : WF_vars(CloseConnections(a))

FairSpec == Spec /\ Fairness

-----------------------------------------------------------------------------
(***************************************************************************)
(* Properties.                                                             *)
(***************************************************************************)

\* The Memory of agent g is usable: nobody has closed it or is about to.
Usable(g) ==
    lease[g] # None /\ lease[g] \notin closed /\ \A a \in Agents \cup Pins : doomed[a] # lease[g]

\* "so a hot-reload cannot pull the checkpointer out from under a running
\* turn": whoever closes or rebuilds, the Memory of a running turn stays open.
TurnKeepsMemory ==
    \A t \in Turns : turn[t] \in {"running", "captured"} => Usable(on[t])

\* So does the Memory that an accepted capture writes to.
CaptureKeepsMemory == \A t \in capturing : Usable(on[t])

\* Nobody outside the event loop removes agents, and no shutdown has begun.
OnLoop == \A o \in (ThreadOps \ Creations) \cup Shutdowns : op[o] = "idle"

\* While every rebuild and removal is made on the event loop and no shutdown
\* comes, turns and accepted captures keep the Memory they write to
\* (agent.py:1048 looks at the turns in flight, runtime.py:253 waits for the
\* captures).
WorkKeepsMemory == OnLoop => TurnKeepsMemory /\ CaptureKeepsMemory

\* A rebuild keeps the Memory: the new agent works with the object that was
\* pinned, whatever happens to the old agent.
RebuildKeepsMemory ==
    \A o \in Rebuilds : kept[o] # None /\ lease[o] # None => lease[o] = kept[o]

\* An agent that was built and is no longer (or never was) registered gives
\* its Memory back in the end.
Dropped(g) == op[g] \in {"done", "aborted"} /\ storePC[g] = "using" /\ \A i \in Ids : registry[i] # g

RemovedIsReleased == \A g \in Agents : Dropped(g) ~> runtime[g] = "released"


-----------------------------------------------------------------------------
(***************************************************************************)
(* What the proofs rest on.                                                *)
(***************************************************************************)

\* Operation o has an agent to close; turn t has one to close.
Closes(o)    == op[o] \in {"removed", "releasing", "closed"}
ClosesAgent(t) == turn[t] \in {"closing", "releasing"}

\* The turns that are counted in inFlight[g]
RunningOn(g) == {t \in Turns : turn[t] \in {"running", "captured"} /\ on[t] = g}

\* A step that needs an agent has one, and the turns are counted.
PlacesInv ==
    /\ \A o \in Ops : Closes(o) => victim[o] \in Agents
    /\ \A t \in Turns : turn[t] \notin {"idle", "refused"} => on[t] \in Agents
    /\ \A t \in capturing : turn[t] \notin {"idle", "refused"}
    /\ \A g \in Agents : inFlight[g] = Cardinality(RunningOn(g))

\* A rebuild that pinned a Memory holds the pin until it ends, and the entry
\* keeps the Memory meanwhile.
KeptInv ==
    \A o \in Rebuilds :
        /\ op[o] = "idle" =>
              kept[o] = None /\ storePC[o] = "new" /\ storePC[PinOf(o)] = "new"
        /\ kept[o] # None /\ op[o] \notin {"done", "aborted"} =>
              storePC[PinOf(o)] = "using" /\ memory[KeyOf[PinOf(o)]] = kept[o]

\* Agent g was built, and is untouched by any close.
Live(g) ==
    /\ op[g] \in {"built", "done"}
    /\ g \notin pending
    /\ runtime[g] = "open"
    /\ storePC[g] = "using"
    /\ \A o \in Ops : Closes(o) => victim[o] # g
    /\ \A t \in Turns : ClosesAgent(t) => on[t] # g

\* What is registered is live, at its own id.
RegisteredLive ==
    \A i \in Ids : registry[i] # None => IdOf[registry[i]] = i /\ Live(registry[i])

\* Only agents that were built are closed, or have turns.
BuiltInv ==
    /\ \A o \in Ops : Closes(o) => op[victim[o]] \in {"built", "done"}
    /\ \A t \in Turns : turn[t] \notin {"idle", "refused"} => op[on[t]] \in {"built", "done"}
    /\ \A g \in Agents :
          g \in pending \/ runtime[g] # "open" => op[g] \in {"built", "done", "aborted"}

\* A turn that has found its agent keeps the loop: the agent stays registered.
FoundInv ==
    \A t \in Turns : turn[t] = "found" => loop = t /\ registry[IdOf[t]] = on[t]

\* Who releases an agent has seen that no turn is in flight, and no turn finds
\* that agent again.
ReleaseInv ==
    /\ \A o \in Ops : op[o] = "releasing" => inFlight[victim[o]] = 0
    /\ \A t \in Turns : turn[t] = "releasing" => inFlight[on[t]] = 0

\* An agent with a turn or a capture in flight has its Memory.
WorkInv ==
    /\ \A t \in Turns : turn[t] \in {"running", "captured"} =>
          runtime[on[t]] = "open" /\ storePC[on[t]] = "using"
    /\ \A t \in capturing : runtime[on[t]] # "released" /\ storePC[on[t]] = "using"

LoopInv == RegisteredLive /\ BuiltInv /\ FoundInv /\ ReleaseInv /\ WorkInv

ReloadInv ==
    /\ LeakInv /\ ShareInv
    /\ PlacesInv
    /\ KeptInv /\ RebuildKeepsMemory
    /\ OnLoop => LoopInv
============================================================================
