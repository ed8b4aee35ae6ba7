---------------------------- MODULE Invocations ----------------------------
(***************************************************************************)
(* Streams, cancellation and human-in-the-loop resumption on the threads   *)
(* of one agent: HarnessAgent.stream, resume_hitl and cancel (agent.py),   *)
(* their counterparts in HarnessAgentManager (manager.py) and the /stop    *)
(* command (slash).                                                        *)
(*                                                                         *)
(* A stream files a cancel event under its thread and waits for the next   *)
(* chunk or the event; a pause of the graph (hitl_required) files the      *)
(* configuration of its request, with which resume_hitl runs.  The event   *)
(* of a resumption is filed by the manager.                                *)
(*                                                                         *)
(* Everything runs on one event loop: an action is what one task does      *)
(* between two awaits.  A configuration bears the name of its stream.      *)
(***************************************************************************)
EXTENDS Naturals, FiniteSets

CONSTANTS
    Streams,     \* calls of stream() with a thread id
    Resumes,     \* calls of resume_hitl() of the manager
    Threads,
    ThreadOf,    \* the thread of an invocation
    HostWaits,   \* does the host wait until an invocation has returned before
                 \* it begins the next one on the thread, or only cancel it?
    StopThreads, \* threads on which the host sends /stop
    MaxCancels,  \* bound: number of calls of the manager's cancel()
    MaxStops,    \* bound: number of /stop commands
    NoInv

Invs == Streams \cup Resumes

ASSUME InvocationsAssumption ==
    /\ IsFiniteSet(Invs)
    /\ Streams \cap Resumes = {}
    /\ ThreadOf \in [Invs -> Threads]
    /\ HostWaits \in BOOLEAN
    /\ StopThreads \subseteq Threads
    /\ MaxCancels \in Nat
    /\ MaxStops \in Nat
    /\ NoInv \notin Invs

VARIABLES
    events,     \* HarnessAgent._cancel_events
    mgrEvents,  \* HarnessAgentManager._cancel_events
    signalled,  \* invocations whose event is set
    scope,      \* _hitl_resume_configs, NoInv for the bare configuration
    at,         \* where each invocation is
    runsAs,     \* the configuration a resumption runs with
    shown,      \* whose pause the host was shown on a thread and has not answered
    cancels,    \* number of cancel() calls so far
    stops,      \* number of /stop commands so far
    asked,      \* history: invocations somebody asked to stop while they ran
    pauseOf     \* history: whose pause a resumption answers

eventVars   == <<events, mgrEvents, signalled>>
scopeVars   == <<scope, runsAs, pauseOf>>
invHostVars == <<cancels, stops, asked>>
invVars     == <<eventVars, scopeVars, shown, invHostVars, at>>

InvPCs == {"idle", "running", "pausing", "paused", "closing", "done"}

InvTypeOK ==
    /\ events \in [Threads -> Streams \cup {NoInv}]
    /\ mgrEvents \in [Threads -> Resumes \cup {NoInv}]
    /\ signalled \in SUBSET Invs
    /\ scope \in [Threads -> Streams \cup {NoInv}]
    /\ at \in [Invs -> InvPCs]
    /\ runsAs \in [Resumes -> Streams \cup {NoInv}]
    /\ shown \in [Threads -> Streams \cup {NoInv}]
    /\ cancels \in 0..MaxCancels
    /\ stops \in 0..MaxStops
    /\ asked \in SUBSET Invs
    /\ pauseOf \in [Resumes -> Streams \cup {NoInv}]

InvInit ==
    /\ events = [h \in Threads |-> NoInv]
    /\ mgrEvents = [h \in Threads |-> NoInv]
    /\ signalled = {}
    /\ scope = [h \in Threads |-> NoInv]
    /\ at = [i \in Invs |-> "idle"]
    /\ runsAs = [r \in Resumes |-> NoInv]
    /\ shown = [h \in Threads |-> NoInv]
    /\ cancels = 0
    /\ stops = 0
    /\ asked = {}
    /\ pauseOf = [r \in Resumes |-> NoInv]

To(i, l) == at' = [at EXCEPT ![i] = l]

\* Invocations of thread h that have begun and may still produce chunks, and
\* those that have not returned yet.
Running(h) == {i \in Invs : ThreadOf[i] = h /\ at[i] \in {"running", "pausing", "paused"}}
Active(h)  == {i \in Invs : ThreadOf[i] = h /\ at[i] \notin {"idle", "done"}}

MayStart(h) == \A i \in Active(h) : ~HostWaits /\ i \in signalled

-----------------------------------------------------------------------------
(***************************************************************************)
(* stream()                                                                *)
(***************************************************************************)

\* Variant with a fault: the configuration of an earlier pause stays.
StartInScope(s) ==
    LET h == ThreadOf[s] IN
    /\ at[s] = "idle"
    /\ MayStart(h)
    /\ events' = [events EXCEPT ![h] = s]
    /\ shown' = [shown EXCEPT ![h] = NoInv]
    /\ To(s, "running")
    /\ UNCHANGED <<mgrEvents, signalled, scopeVars, invHostVars>>

\* Up to the first wait: the event is filed, the thread's configuration of an
\* earlier pause is dropped, and a pause nobody answered is over.
Start(s) ==
    LET h == ThreadOf[s] IN
    /\ at[s] = "idle"
    /\ MayStart(h)
    /\ events' = [events EXCEPT ![h] = s]
    /\ scope' = [scope EXCEPT ![h] = NoInv]
    /\ shown' = [shown EXCEPT ![h] = NoInv]
    /\ To(s, "running")
    /\ UNCHANGED <<mgrEvents, signalled, runsAs, pauseOf, invHostVars>>

\* The graph stops for an approval; the chunk that says so is on its way.
GraphPauses(s) ==
    /\ at[s] = "running"
    /\ To(s, "pausing")
    /\ UNCHANGED <<eventVars, scopeVars, shown, invHostVars>>

\* The chunk arrives and no cancellation with it: the configuration is filed.
ShowPause(s) ==
    /\ at[s] = "pausing"
    /\ s \notin signalled
    /\ scope' = [scope EXCEPT ![ThreadOf[s]] = s]
    /\ shown' = [shown EXCEPT ![ThreadOf[s]] = s]
    /\ To(s, "paused")
    /\ UNCHANGED <<eventVars, runsAs, pauseOf, invHostVars>>

\* Variant with a fault: the event is looked at between two chunks only.
PreemptAtChunk(s) ==
    /\ s \in signalled
    /\ at[s] = "pausing"
    /\ To(s, "closing")
    /\ UNCHANGED <<eventVars, scopeVars, shown, invHostVars>>

\* _iter_until_cancelled: the event ends the wait for the next chunk, also
\* when the chunk arrives together with it.
Preempt(s) ==
    /\ s \in signalled
    /\ at[s] \in {"running", "pausing", "paused"}
    /\ To(s, "closing")
    /\ UNCHANGED <<eventVars, scopeVars, shown, invHostVars>>

\* The graph has no more chunks, or the consumer closes the stream.
Leave(s) ==
    /\ at[s] \in {"running", "paused"}
    /\ To(s, "closing")
    /\ UNCHANGED <<eventVars, scopeVars, shown, invHostVars>>

\* finally: once the source is closed, whatever is filed under the thread is
\* removed.
CloseStream(s) ==
    /\ at[s] = "closing"
    /\ events' = [events EXCEPT ![ThreadOf[s]] = NoInv]
    /\ To(s, "done")
    /\ UNCHANGED <<mgrEvents, signalled, scopeVars, shown, invHostVars>>

-----------------------------------------------------------------------------
(***************************************************************************)
(* resume_hitl()                                                           *)
(***************************************************************************)

\* The host answers a pause it was shown; the run gets the configuration that
\* is filed under the thread.
ResumeHitl(r) ==
    LET h == ThreadOf[r] IN
    /\ at[r] = "idle"
    /\ shown[h] # NoInv
    /\ MayStart(h)
    /\ mgrEvents' = [mgrEvents EXCEPT ![h] = r]
    /\ runsAs' = [runsAs EXCEPT ![r] = scope[h]]
    /\ pauseOf' = [pauseOf EXCEPT ![r] = shown[h]]
    /\ shown' = [shown EXCEPT ![h] = NoInv]
    /\ To(r, "running")
    /\ UNCHANGED <<events, signalled, scope, invHostVars>>

\* The resumed graph stops for another approval: the host is told, unless the
\* manager finds the event set when the chunk arrives.
PauseAgain(r) ==
    /\ at[r] = "running"
    /\ \/ /\ r \in signalled
          /\ To(r, "closing")
          /\ UNCHANGED shown
       \/ /\ r \notin signalled
          /\ shown' = [shown EXCEPT ![ThreadOf[r]] = pauseOf[r]]
          /\ To(r, "paused")
    /\ UNCHANGED <<eventVars, scopeVars, invHostVars>>

\* Another chunk arrives with the event set, or the consumer closes the
\* resumption: the rest of resume_hitl does not run.  A host that did not
\* cancel may find the graph still paused and answer once more.
Abandon(r) ==
    /\ at[r] \in {"running", "paused"}
    /\ To(r, "closing")
    /\ \/ UNCHANGED shown
       \/ /\ r \notin signalled
          /\ shown' = [shown EXCEPT ![ThreadOf[r]] = pauseOf[r]]
    /\ UNCHANGED <<eventVars, scopeVars, invHostVars>>

\* Variant with a fault: the configuration is always dropped.
DropScope(r) ==
    /\ at[r] \in {"running", "paused"}
    /\ scope' = [scope EXCEPT ![ThreadOf[r]] = NoInv]
    /\ To(r, "closing")
    /\ UNCHANGED <<eventVars, runsAs, pauseOf, shown, invHostVars>>

\* The resumed graph ends: without another pause its configuration is dropped.
Exhaust(r) ==
    /\ \/ at[r] = "running" /\ scope' = [scope EXCEPT ![ThreadOf[r]] = NoInv]
       \/ at[r] = "paused" /\ UNCHANGED scope
    /\ To(r, "closing")
    /\ UNCHANGED <<eventVars, runsAs, pauseOf, shown, invHostVars>>

\* _cancellable_stream is left
Return(r) ==
    /\ at[r] = "closing"
    /\ mgrEvents' = [mgrEvents EXCEPT ![ThreadOf[r]] = NoInv]
    /\ To(r, "done")
    /\ UNCHANGED <<events, signalled, scopeVars, shown, invHostVars>>

-----------------------------------------------------------------------------
(***************************************************************************)
(* Cancellation.                                                           *)
(***************************************************************************)

\* Variant with a fault: the manager passes the call on and no more.
CancelStreams(h) ==
    /\ cancels < MaxCancels
    /\ cancels' = cancels + 1
    /\ asked' = asked \cup Running(h)
    /\ signalled' = signalled \cup ({events[h]} \ {NoInv})
    /\ UNCHANGED <<events, mgrEvents, scopeVars, shown, stops, at>>

\* cancel() of the manager, which calls cancel() of the agent
Cancel(h) ==
    /\ cancels < MaxCancels
    /\ cancels' = cancels + 1
    /\ asked' = asked \cup Running(h)
    /\ signalled' = signalled \cup ({events[h], mgrEvents[h]} \ {NoInv})
    /\ UNCHANGED <<events, mgrEvents, scopeVars, shown, stops, at>>

\* /stop, sent as a message of the thread: it is answered without a run of
\* the graph, by cancel() of the agent.
SlashStop(h) ==
    /\ h \in StopThreads
    /\ stops < MaxStops
    /\ stops' = stops + 1
    /\ asked' = asked \cup Running(h)
    /\ signalled' = signalled \cup ({events[h]} \ {NoInv})
    /\ UNCHANGED <<events, mgrEvents, scopeVars, shown, cancels, at>>

-----------------------------------------------------------------------------
StreamStep(s) == \/ Start(s) \/ GraphPauses(s) \/ ShowPause(s)
                 \/ Preempt(s) \/ Leave(s) \/ CloseStream(s)

ResumeStep(r) == ResumeHitl(r) \/ PauseAgain(r) \/ Abandon(r) \/ Exhaust(r) \/ Return(r)

InvNext == \/ \E s \in Streams : StreamStep(s)
           \/ \E r \in Resumes : ResumeStep(r)
           \/ \E h \in Threads : Cancel(h) \/ SlashStop(h)

InvSpec == InvInit /\ [][InvNext]_invVars

\* The loop wakes a stream whose event is set and closes what is to be
\* closed.  Nothing is assumed of the graph: a model call may hang.
InvFairness == /\ \A s \in Streams : WF_invVars(Preempt(s)) /\ WF_invVars(CloseStream(s))
               /\ \A r \in Resumes : WF_invVars(Return(r))

InvFairSpec == InvSpec /\ InvFairness

-----------------------------------------------------------------------------
(***************************************************************************)
(* Properties.                                                             *)
(***************************************************************************)

\* cancel() and /stop ("Generation stopped.") reach everything that runs on
\* the thread: each invocation they were meant for has its event set or has
\* left its loop by itself.
AskedIsSignalled == \A i \in asked : i \in signalled \/ at[i] \in {"closing", "done"}

\* A resumption runs with the configuration of the request that was paused,
\* across nested approvals and whatever happens on other threads.
ResumeKeepsScope == \A r \in Resumes : at[r] # "idle" => runsAs[r] = pauseOf[r]

\* The pause of a cancelled stream that the host never saw leaves no
\* configuration behind, and a configuration never outlives the pause it was
\* filed for and the resumption of it.
ScopeIsPaused ==
    \A h \in Threads : scope[h] # NoInv =>
        \/ scope[h] = shown[h]
        \/ \E r \in Resumes : ThreadOf[r] = h /\ runsAs[r] = scope[h]

\* What the proofs rest on, for a host that waits: one invocation at a time
\* on a thread, whose event is the one that is filed, and a configuration
\* that stays with the pause it was filed for.
Awake(i) == at[i] \notin {"idle", "done"}

OneAtATime ==
    \A i, j \in Invs : Awake(i) /\ Awake(j) /\ ThreadOf[i] = ThreadOf[j] => i = j

EventsFiled ==
    /\ \A s \in Streams : Awake(s) => events[ThreadOf[s]] = s
    /\ \A r \in Resumes : Awake(r) => mgrEvents[ThreadOf[r]] = r

ScopeFiled ==
    /\ \A h \in Threads : shown[h] # NoInv => scope[h] = shown[h]
    /\ \A r \in Resumes :
          /\ at[r] = "running" => shown[ThreadOf[r]] = NoInv
          /\ at[r] \in {"running", "paused"} => scope[ThreadOf[r]] = pauseOf[r]
          /\ runsAs[r] = pauseOf[r]

\* A stream that was cancelled ends, even if the graph never produces another
\* chunk.
CancelPreempts == \A s \in Streams : s \in signalled ~> at[s] = "done"
=============================================================================
