----------------------- MODULE MemoryMiddlewareProofs ------------------------
(***************************************************************************)
(* Proofs about the memory middleware.  First MemoryWorkers, for any       *)
(* number of jobs, review requests, pauses and shutdowns; then             *)
(* MemoryTriggers, for any sessions, sweeps, extractions and number of     *)
(* turns, and for either way the extractions are triggered; last           *)
(* TurnCapture, for any conversations on any threads, any number of turns  *)
(* and of calls of tools.                                                  *)
(***************************************************************************)
EXTENDS MemoryWorkers, MemoryTriggers, TurnCapture, FiniteSetTheorems, SequenceTheorems,
        TLAPS

USE DEF Work

-----------------------------------------------------------------------------
(***************************************************************************)
(* What a step does to the work in flight.                                 *)
(***************************************************************************)

\* A job or review is admitted: neither paused nor shut down, and counted.
Enters(w) ==
    /\ ~paused /\ ~shut
    /\ w \notin InFlight
    /\ active' = active + 1
    /\ InFlight' = InFlight \cup {w}
    /\ UNCHANGED <<paused, shut, callbacks, firing, pausing, stopping, fired>>

\* One finishes.
Leaves(w) ==
    /\ w \in InFlight
    /\ Finish(w)
    /\ InFlight' = InFlight \ {w}

\* Nothing changes about who is in flight.
Stays == InFlight' = InFlight /\ active' = active

LEMMA JobMoves ==
    ASSUME TypeOK, NEW j \in Jobs, JobStep(j)
    PROVE  Enters(j) \/ Stays
<1> USE WorkersAssumption DEF TypeOK, Goto, InFlight, Stays
<1>1. CASE Submit(j)
  BY <1>1 DEF Submit, Admit, Enters, hostVars
<1>2. CASE WorkEnds(j)
  BY <1>2 DEF WorkEnds
<1>3. CASE TickBegins(j)
  BY <1>3 DEF TickBegins
<1>4. CASE TickEnds(j)
  BY <1>4 DEF TickEnds
<1> QED
  BY <1>1, <1>2, <1>3, <1>4 DEF JobStep

LEMMA KickMoves ==
    ASSUME TypeOK, NEW k \in Kicks, Kick(k) \/ KickStep(k)
    PROVE  Enters(k) \/ Stays
<1> USE WorkersAssumption DEF TypeOK, Goto, InFlight, Stays
<1>1. CASE Kick(k)
  BY <1>1 DEF Kick
<1>2. CASE Claim(k)
  BY <1>2 DEF Claim
<1>3. CASE SubmitReview(k)
  BY <1>3 DEF SubmitReview, Admit, Enters, KickFrame, hostVars
<1>4. CASE StartFails(k)
  BY <1>4 DEF StartFails
<1>5. CASE PassBegins(k)
  BY <1>5 DEF PassBegins
<1>6. CASE PassEnds(k)
  BY <1>6 DEF PassEnds
<1>7. CASE PassFails(k)
  BY <1>7 DEF PassFails
<1>8. CASE Reset(k)
  BY <1>8 DEF Reset
<1> QED
  BY <1>1, <1>2, <1>3, <1>4, <1>5, <1>6, <1>7, <1>8 DEF KickStep

LEMMA FinishMoves ==
    ASSUME TypeOK, NEW w \in Work, Finish(w)
    PROVE  Leaves(w)
BY WorkersAssumption DEF TypeOK, Goto, InFlight, Leaves, Finish

LEMMA RunMoves ==
    ASSUME TypeOK, NEW w \in Work, RunCallbacks(w)
    PROVE  Stays
BY WorkersAssumption DEF TypeOK, Goto, InFlight, Stays, RunCallbacks

\* The steps of pause_background and shutdown.
HostStep ==
    \/ \E p \in Pausers : Pause(p) \/ Drain(p) \/ Resume(p)
    \/ \E s \in Stops : Shutdown(s) \/ OnIdle(s) \/ CallNow(s)

LEMMA HostMoves == HostStep => Stays /\ UNCHANGED <<pc, firing, reviewVars>>
BY DEF HostStep, Pause, Drain, Resume, Shutdown, OnIdle, CallNow, PauseFrame, StopFrame,
       Stays, InFlight, reviewVars

LEMMA Moves ==
    ASSUME TypeOK, [Next]_vars
    PROVE  (\E w \in Work : Enters(w) \/ Leaves(w)) \/ Stays
<1>1. CASE UNCHANGED vars
  BY <1>1 DEF vars, Stays, InFlight
<1> QED
  BY <1>1, JobMoves, KickMoves, FinishMoves, RunMoves, HostMoves DEF Next, HostStep

-----------------------------------------------------------------------------
(***************************************************************************)
(* The count is exact, and the types.                                      *)
(***************************************************************************)

LEMMA InFlightFinite == IsFiniteSet(InFlight) /\ Cardinality(InFlight) \in Nat
<1>1. IsFiniteSet(Work)
  BY WorkersAssumption, FS_Union
<1> QED
  BY <1>1, FS_Subset, FS_CardinalityType DEF InFlight

LEMMA CountStep ==
    ASSUME TypeOK, ActiveExact, [Next]_vars
    PROVE  ActiveExact' /\ active' \in Nat
<1>1. ASSUME NEW w \in Work, Enters(w) PROVE ActiveExact' /\ active' \in Nat
  BY <1>1, InFlightFinite, FS_AddElement DEF Enters, ActiveExact
<1>2. ASSUME NEW w \in Work, Leaves(w) PROVE ActiveExact' /\ active' \in Nat
  <2>1. Cardinality(InFlight \ {w}) = Cardinality(InFlight) - 1
    BY <1>2, InFlightFinite, FS_RemoveElement DEF Leaves
  <2>2. Cardinality(InFlight \ {w}) \in Nat
    BY InFlightFinite, FS_Subset, FS_CardinalityType
  <2>3. active' = active - 1
    BY <1>2 DEF Leaves, Finish, Uncount
  <2> QED
    BY <1>2, <2>1, <2>2, <2>3 DEF Leaves, ActiveExact
<1>3. CASE Stays
  BY <1>3 DEF Stays, ActiveExact, TypeOK
<1> QED
  BY <1>1, <1>2, <1>3, Moves

LEMMA WorkersTypeStep ==
    ASSUME TypeOK, ActiveExact, [Next]_vars
    PROVE  TypeOK'
<1> USE WorkersAssumption DEF TypeOK, Goto, JobPCs, KickPCs, reviewVars, hostVars
<1>0. active' \in Nat
  BY CountStep
<1>1. ASSUME NEW j \in Jobs, JobStep(j) PROVE TypeOK'
  <2>1. CASE Submit(j)
    BY <1>0, <2>1 DEF Submit, Admit
  <2>2. CASE WorkEnds(j) \/ TickBegins(j) \/ TickEnds(j)
    BY <1>0, <2>2 DEF WorkEnds, TickBegins, TickEnds
  <2> QED
    BY <1>1, <2>1, <2>2 DEF JobStep
<1>2. ASSUME NEW k \in Kicks, Kick(k) \/ KickStep(k) PROVE TypeOK'
  <2> USE DEF KickFrame
  <2>1. CASE Kick(k)
    BY <1>0, <2>1 DEF Kick
  <2>2. CASE Claim(k)
    BY <1>0, <2>2 DEF Claim
  <2>3. CASE SubmitReview(k)
    BY <1>0, <2>3 DEF SubmitReview, Admit
  <2>4. CASE StartFails(k) \/ PassFails(k)
    BY <1>0, <2>4 DEF StartFails, PassFails
  <2>5. CASE PassBegins(k) \/ PassEnds(k)
    BY <1>0, <2>5 DEF PassBegins, PassEnds
  <2>6. CASE Reset(k)
    BY <1>0, <2>6 DEF Reset
  <2> QED
    BY <1>2, <2>1, <2>2, <2>3, <2>4, <2>5, <2>6 DEF KickStep
<1>3. ASSUME NEW w \in Work, Finish(w) PROVE TypeOK'
  BY <1>0, <1>3 DEF Finish, Uncount
<1>4. ASSUME NEW w \in Work, RunCallbacks(w) PROVE TypeOK'
  BY <1>0, <1>4 DEF RunCallbacks
<1>5. ASSUME NEW p \in Pausers, Pause(p) \/ Drain(p) \/ Resume(p) PROVE TypeOK'
  BY <1>0, <1>5 DEF Pause, Drain, Resume, PauseFrame
<1>6. ASSUME NEW s \in Stops, Shutdown(s) \/ OnIdle(s) \/ CallNow(s) PROVE TypeOK'
  <2> USE DEF StopFrame
  <2>1. CASE Shutdown(s)
    BY <1>0, <2>1 DEF Shutdown
  <2>2. CASE OnIdle(s)
    BY <1>0, <2>2 DEF OnIdle
  <2>3. CASE CallNow(s)
    BY <1>0, <2>3 DEF CallNow
  <2> QED
    BY <1>6, <2>1, <2>2, <2>3
<1>7. CASE UNCHANGED vars
  BY <1>7 DEF vars
<1> QED
  BY <1>1, <1>2, <1>3, <1>4, <1>5, <1>6, <1>7 DEF Next

\* The count of background work is exact, whatever is refused, fails to start
\* or raises.
LEMMA CountInvariant == Spec => [](TypeOK /\ ActiveExact)
<1>1. Init => TypeOK /\ ActiveExact
  <2> SUFFICES ASSUME Init PROVE TypeOK /\ ActiveExact
    OBVIOUS
  <2>1. TypeOK
    BY WorkersAssumption DEF Init, TypeOK, JobPCs, KickPCs
  <2>2. InFlight = {}
    BY DEF Init, InFlight
  <2> QED
    BY <2>1, <2>2, FS_EmptySet DEF ActiveExact, Init
<1> QED
  BY <1>1, CountStep, WorkersTypeStep, PTL DEF Spec

\* Every reachable state has the declared types; in particular the count of
\* active workers never becomes negative.
THEOREM WorkersTypeCorrect == Spec => []TypeOK
BY CountInvariant, PTL

-----------------------------------------------------------------------------
(***************************************************************************)
(* pause_background.                                                       *)
(***************************************************************************)

\* The steps of the workers leave alone what belongs to the host.
LEMMA WorkKeepsHost ==
    ASSUME [Next]_vars
    PROVE  HostStep \/ UNCHANGED <<paused, shut, pausing, stopping>>
BY DEF Next, HostStep, vars, hostVars, JobStep, Submit, WorkEnds, TickBegins, TickEnds,
       KickStep, KickFrame, Kick, Claim, SubmitReview, StartFails, PassBegins, PassEnds,
       PassFails, Reset, Finish, RunCallbacks

LEMMA NoneInFlight == ActiveExact /\ active = 0 => InFlight = {}
BY InFlightFinite, FS_EmptySet DEF ActiveExact

LEMMA PauseHeldStep ==
    ASSUME TypeOK, PauseHeld, [Next]_vars
    PROVE  PauseHeld'
<1> USE DEF TypeOK, PauseHeld, Holds
<1>1. ASSUME NEW p \in Pausers, Pause(p) PROVE PauseHeld'
  BY <1>1 DEF Pause
<1>2. ASSUME NEW p \in Pausers, Drain(p) PROVE PauseHeld'
  BY <1>2 DEF Drain
<1>3. ASSUME NEW p \in Pausers, Resume(p) PROVE PauseHeld'
  BY <1>3 DEF Resume
<1>4. ASSUME NEW s \in Stops, Shutdown(s) \/ OnIdle(s) \/ CallNow(s) PROVE PauseHeld'
  BY <1>4 DEF Shutdown, OnIdle, CallNow, StopFrame
<1> QED
  BY <1>1, <1>2, <1>3, <1>4, WorkKeepsHost DEF HostStep

LEMMA PauseQuietStep ==
    ASSUME TypeOK, ActiveExact, PauseHeld, PauseIsQuiet, [Next]_vars
    PROVE  PauseIsQuiet'
<1> SUFFICES ASSUME NEW p \in Pausers, pausing'[p] = "inside"
             PROVE  paused' /\ InFlight' = {}
  BY DEF PauseIsQuiet
<1>1. CASE pausing[p] = "inside"
  <2>1. paused /\ InFlight = {}
    BY <1>1 DEF PauseIsQuiet
  <2>2. InFlight' = {}
    BY <2>1, Moves DEF Enters, Leaves, Stays
  <2>3. ASSUME NEW q \in Pausers, Resume(q) PROVE q = p
    BY <1>1, <2>3 DEF Resume, PauseHeld, Holds
  <2>4. HostStep => paused'
    BY <1>1, <2>1, <2>3 DEF HostStep, Pause, Drain, Resume, PauseFrame, Shutdown, OnIdle,
                       CallNow, StopFrame, TypeOK
  <2> QED
    BY <2>1, <2>2, <2>4, WorkKeepsHost
<1>2. CASE pausing[p] # "inside"
  <2>1. Drain(p) /\ active = 0
    BY <1>2, WorkKeepsHost DEF HostStep, Pause, Drain, Resume, Shutdown, OnIdle, CallNow,
                               StopFrame, TypeOK
  <2>2. InFlight = {} /\ paused
    BY <2>1, NoneInFlight DEF Drain, PauseHeld, Holds
  <2> QED
    BY <2>1, <2>2 DEF Drain, PauseFrame, InFlight
<1> QED
  BY <1>1, <1>2

\* Inside pause_background nothing works in the background and nothing can be
\* admitted, however many pauses are tried and whatever drains late.
THEOREM WorkersPauseIsQuiet == Spec => []PauseIsQuiet
<1>1. Init => PauseHeld /\ PauseIsQuiet
  BY DEF Init, PauseHeld, Holds, PauseIsQuiet
<1>2. TypeOK /\ ActiveExact /\ PauseHeld /\ PauseIsQuiet /\ [Next]_vars
        => PauseHeld' /\ PauseIsQuiet'
  BY PauseHeldStep, PauseQuietStep
<1> QED
  BY <1>1, <1>2, CountInvariant, PTL DEF Spec

-----------------------------------------------------------------------------
(***************************************************************************)
(* shutdown and its idle callbacks.                                        *)
(***************************************************************************)

\* A callback that is due, or has run.
CallbackDue(s) == fired[s] > 0 \/ stopping[s] = "calling" \/ \E w \in Work : s \in firing[w]

\* The callbacks a finishing thread takes are those of a shut-down middleware
\* that has no other work.
LEMMA FinishTakes ==
    ASSUME TypeOK, ActiveExact, StoppedIsShut, NEW w \in Work, Finish(w),
           NEW s \in Stops, CallbackDue(s)'
    PROVE  CallbackDue(s) \/ (shut /\ InFlight' = {} /\ s \in callbacks)
<1> SUFFICES ASSUME ~CallbackDue(s) PROVE shut /\ InFlight' = {} /\ s \in callbacks
  OBVIOUS
<1>1. active = 1 /\ s \in callbacks
  BY DEF CallbackDue, Finish, Uncount, hostVars, TypeOK
<1>2. shut
  BY <1>1 DEF StoppedIsShut
<1>3. Leaves(w)
  BY FinishMoves
<1>4. ActiveExact' /\ active' = 0
  <2>1. [Next]_vars
    BY DEF Next
  <2>2. active' = 0
    BY <1>1 DEF Finish, Uncount
  <2> QED
    BY <2>1, <2>2, CountStep
<1>5. InFlight' = {}
  <2>1. Cardinality(InFlight \ {w}) = 0
    BY <1>3, <1>4 DEF Leaves, ActiveExact
  <2>2. IsFiniteSet(InFlight \ {w})
    BY InFlightFinite, FS_Subset
  <2> QED
    BY <1>3, <2>1, <2>2, FS_EmptySet DEF Leaves
<1> QED
  BY <1>1, <1>2, <1>5

LEMMA StoppedStep ==
    ASSUME TypeOK, StoppedIsShut, [Next]_vars
    PROVE  StoppedIsShut'
<1> USE WorkersAssumption DEF TypeOK, StoppedIsShut, Goto, reviewVars, hostVars
<1>1. ASSUME NEW j \in Jobs, JobStep(j) PROVE StoppedIsShut'
  BY <1>1 DEF JobStep, Submit, Admit, WorkEnds, TickBegins, TickEnds
<1>2. ASSUME NEW k \in Kicks, Kick(k) \/ KickStep(k) PROVE StoppedIsShut'
  <2> USE DEF KickFrame
  <2>1. CASE Kick(k) \/ Claim(k)
    BY <2>1 DEF Kick, Claim
  <2>2. CASE SubmitReview(k) \/ StartFails(k)
    BY <2>2 DEF SubmitReview, Admit, StartFails
  <2>3. CASE PassBegins(k) \/ PassEnds(k) \/ PassFails(k) \/ Reset(k)
    BY <2>3 DEF PassBegins, PassEnds, PassFails, Reset
  <2> QED
    BY <1>2, <2>1, <2>2, <2>3 DEF KickStep
<1>3. ASSUME NEW w \in Work, Finish(w) PROVE StoppedIsShut'
  BY <1>3 DEF Finish, Uncount
<1>4. ASSUME NEW w \in Work, RunCallbacks(w) PROVE StoppedIsShut'
  BY <1>4 DEF RunCallbacks
<1>5. ASSUME NEW p \in Pausers, Pause(p) \/ Drain(p) \/ Resume(p) PROVE StoppedIsShut'
  BY <1>5 DEF Pause, Drain, Resume, PauseFrame
<1>6. ASSUME NEW s \in Stops, Shutdown(s) PROVE StoppedIsShut'
  BY <1>6 DEF Shutdown, StopFrame
<1>7. ASSUME NEW s \in Stops, OnIdle(s) \/ CallNow(s) PROVE StoppedIsShut'
  BY <1>7 DEF OnIdle, CallNow, StopFrame
<1>8. CASE UNCHANGED vars
  BY <1>8 DEF vars
<1> QED
  BY <1>1, <1>2, <1>3, <1>4, <1>5, <1>6, <1>7, <1>8 DEF Next

\* No step but these makes a callback due.
LEMMA NewlyDue ==
    ASSUME TypeOK, [Next]_vars, NEW s \in Stops, CallbackDue(s)', ~CallbackDue(s)
    PROVE  (\E w \in Work : Finish(w)) \/ (OnIdle(s) /\ active = 0)
<1> USE WorkersAssumption DEF TypeOK, CallbackDue, reviewVars, hostVars
<1>1. ASSUME NEW j \in Jobs, JobStep(j) PROVE FALSE
  BY <1>1 DEF JobStep, Submit, WorkEnds, TickBegins, TickEnds
<1>2. ASSUME NEW k \in Kicks, Kick(k) \/ KickStep(k) PROVE FALSE
  BY <1>2 DEF KickFrame, KickStep, Kick, Claim, SubmitReview, StartFails, PassBegins,
              PassEnds, PassFails, Reset
<1>3. ASSUME NEW w \in Work, RunCallbacks(w) PROVE FALSE
  BY <1>3 DEF RunCallbacks
<1>4. ASSUME NEW p \in Pausers, Pause(p) \/ Drain(p) \/ Resume(p) PROVE FALSE
  BY <1>4 DEF Pause, Drain, Resume, PauseFrame
<1>5. ASSUME NEW r \in Stops, Shutdown(r) \/ CallNow(r) PROVE FALSE
  BY <1>5 DEF Shutdown, CallNow, StopFrame
<1>6. ASSUME NEW r \in Stops, OnIdle(r) PROVE r = s /\ active = 0
  BY <1>6 DEF OnIdle, StopFrame
<1>7. CASE UNCHANGED vars
  BY <1>7 DEF vars
<1> QED
  BY <1>1, <1>2, <1>3, <1>4, <1>5, <1>6, <1>7 DEF Next

LEMMA IdleStep ==
    ASSUME TypeOK, ActiveExact, StoppedIsShut, IdleIsFinal, [Next]_vars
    PROVE  IdleIsFinal'
<1> SUFFICES ASSUME NEW s \in Stops, CallbackDue(s)' PROVE shut' /\ InFlight' = {}
  BY DEF IdleIsFinal, CallbackDue
<1>1. shut => shut'
  BY WorkKeepsHost DEF HostStep, Pause, Drain, Resume, PauseFrame, Shutdown, OnIdle, CallNow
<1>2. CASE CallbackDue(s)
  <2>1. shut /\ InFlight = {}
    BY <1>2 DEF IdleIsFinal, CallbackDue
  <2> QED
    BY <1>1, <2>1, Moves DEF Enters, Leaves, Stays
<1>3. CASE ~CallbackDue(s) /\ \E w \in Work : Finish(w)
  BY <1>1, <1>3, FinishTakes
<1>4. CASE OnIdle(s) /\ active = 0
  <2>1. shut /\ InFlight = {}
    BY <1>4, NoneInFlight DEF OnIdle, StoppedIsShut
  <2> QED
    BY <1>1, <1>4, <2>1 DEF OnIdle, StopFrame, InFlight
<1> QED
  BY <1>2, <1>3, <1>4, NewlyDue

LEMMA IdleInvariant == Spec => [](StoppedIsShut /\ IdleIsFinal)
<1>1. Init => StoppedIsShut /\ IdleIsFinal
  BY DEF Init, StoppedIsShut, IdleIsFinal
<1>2. TypeOK /\ ActiveExact /\ StoppedIsShut /\ IdleIsFinal /\ [Next]_vars
        => StoppedIsShut' /\ IdleIsFinal'
  BY StoppedStep, IdleStep
<1> QED
  BY <1>1, <1>2, CountInvariant, PTL DEF Spec

\* When an idle callback is due or has run, the middleware is shut down, no
\* work is left and, as this is invariant, none starts any more.
THEOREM WorkersIdleIsFinal == Spec => []IdleIsFinal
BY IdleInvariant, PTL

\* Where the callback of s is kept, counted.
Kept(s) == Cardinality(Pending(s)) + fired[s] + (IF s \in callbacks THEN 1 ELSE 0)

LEMMA PendingFinite ==
    \A s \in Stops : IsFiniteSet(Pending(s)) /\ Cardinality(Pending(s)) \in Nat
<1>1. IsFiniteSet(Work)
  BY WorkersAssumption, FS_Union
<1> QED
  BY <1>1, FS_Subset, FS_CardinalityType DEF Pending

\* Finishing and running move callbacks and neither drop nor double them.
LEMMA FinishKeeps ==
    ASSUME TypeOK, StoppedIsShut, NEW w \in Work, Finish(w), NEW s \in Stops
    PROVE  Kept(s)' = Kept(s)
<1>1. firing[w] = {} /\ fired' = fired
  BY DEF Finish, StoppedIsShut
<1>2. CASE active = 1 /\ s \in callbacks
  <2>1. Pending(s)' = Pending(s) \cup {w} /\ w \notin Pending(s)
    BY <1>1, <1>2 DEF Finish, Uncount, Pending, TypeOK
  <2>2. Cardinality(Pending(s))' = Cardinality(Pending(s)) + 1
    BY <2>1, PendingFinite, FS_AddElement
  <2>3. s \notin callbacks'
    BY <1>2 DEF Finish, Uncount
  <2> QED
    BY <1>1, <1>2, <2>2, <2>3, PendingFinite DEF Kept, TypeOK
<1>3. CASE ~(active = 1 /\ s \in callbacks)
  <2>1. Pending(s)' = Pending(s) /\ (s \in callbacks' <=> s \in callbacks)
    BY <1>1, <1>3 DEF Finish, Uncount, Pending, TypeOK
  <2> QED
    BY <1>1, <2>1 DEF Kept
<1> QED
  BY <1>2, <1>3

LEMMA RunKeeps ==
    ASSUME TypeOK, NEW w \in Work, RunCallbacks(w), NEW s \in Stops
    PROVE  Kept(s)' = Kept(s)
<1>1. callbacks' = callbacks
  BY DEF RunCallbacks
<1>2. CASE s \in firing[w]
  <2>1. Pending(s)' = Pending(s) \ {w} /\ w \in Pending(s)
    BY <1>2 DEF RunCallbacks, Pending, TypeOK
  <2>2. Cardinality(Pending(s))' = Cardinality(Pending(s)) - 1
    BY <2>1, PendingFinite, FS_RemoveElement
  <2>3. fired'[s] = fired[s] + 1
    BY <1>2 DEF RunCallbacks
  <2> QED
    BY <1>1, <2>2, <2>3, PendingFinite DEF Kept, TypeOK
<1>3. CASE s \notin firing[w]
  <2>1. Pending(s)' = Pending(s) /\ fired'[s] = fired[s]
    BY <1>3 DEF RunCallbacks, Pending, TypeOK
  <2> QED
    BY <1>1, <2>1 DEF Kept
<1> QED
  BY <1>2, <1>3

\* shutdown() hands its callback over once.
LEMMA StopKeeps ==
    ASSUME TypeOK, CallbackOnce, NEW r \in Stops,
           Shutdown(r) \/ OnIdle(r) \/ CallNow(r), NEW s \in Stops
    PROVE  Kept(s)' = IF stopping'[s] = "done" THEN 1 ELSE 0
<1>1. Kept(s) = IF stopping[s] = "done" THEN 1 ELSE 0
  BY DEF CallbackOnce, Kept
<1>2. Pending(s)' = Pending(s)
  BY DEF Shutdown, OnIdle, CallNow, StopFrame, Pending
<1>3. Cardinality(Pending(s)) \in Nat /\ fired[s] \in Nat
  BY PendingFinite DEF TypeOK
<1>4. CASE Shutdown(r)
  BY <1>1, <1>2, <1>3, <1>4 DEF Shutdown, Kept, TypeOK
<1>5. CASE OnIdle(r)
  BY <1>1, <1>2, <1>3, <1>5 DEF OnIdle, Kept, TypeOK
<1>6. CASE CallNow(r)
  BY <1>1, <1>2, <1>3, <1>6 DEF CallNow, Kept, TypeOK
<1> QED
  BY <1>4, <1>5, <1>6

\* Everything else leaves the callbacks alone.
LEMMA OthersKeep ==
    ASSUME TypeOK, [Next]_vars,
           ~ \E w \in Work : Finish(w) \/ RunCallbacks(w),
           ~ \E s \in Stops : Shutdown(s) \/ OnIdle(s) \/ CallNow(s)
    PROVE  UNCHANGED <<callbacks, firing, fired, stopping>>
BY DEF Next, vars, hostVars, JobStep, Submit, WorkEnds, TickBegins, TickEnds,
       KickStep, KickFrame, Kick, Claim, SubmitReview, StartFails, PassBegins, PassEnds,
       PassFails, Reset, Pause, Drain, Resume, PauseFrame

LEMMA CallbackStep ==
    ASSUME TypeOK, ActiveExact, StoppedIsShut, CallbackOnce, [Next]_vars
    PROVE  CallbackOnce'
<1>1. ASSUME NEW s \in Stops
      PROVE  Kept(s)' = IF stopping'[s] = "done" THEN 1 ELSE 0
  <2>1. Kept(s) = IF stopping[s] = "done" THEN 1 ELSE 0
    BY DEF CallbackOnce, Kept
  <2>2. ASSUME NEW w \in Work, Finish(w) \/ RunCallbacks(w)
        PROVE  Kept(s)' = IF stopping'[s] = "done" THEN 1 ELSE 0
    <3>1. stopping' = stopping
      BY <2>2 DEF Finish, RunCallbacks, hostVars
    <3> QED
      BY <2>1, <2>2, <3>1, FinishKeeps, RunKeeps
  <2>3. CASE UNCHANGED <<callbacks, firing, fired, stopping>>
    BY <2>1, <2>3 DEF Kept, Pending
  <2> QED
    BY <2>2, <2>3, StopKeeps, OthersKeep
<1>2. ASSUME NEW s \in Stops, s \in callbacks' PROVE active' > 0
  <2>1. active \in Nat /\ active' \in Nat
    BY CountStep DEF TypeOK
  <2>2. s \in callbacks => active > 0
    BY DEF CallbackOnce
  <2>3. ASSUME NEW w \in Work, Finish(w) PROVE active' > 0
    BY <1>2, <2>1, <2>2, <2>3 DEF Finish, Uncount
  <2>4. ASSUME NEW r \in Stops, Shutdown(r) \/ OnIdle(r) \/ CallNow(r) PROVE active' > 0
    BY <1>2, <2>1, <2>2, <2>4 DEF Shutdown, OnIdle, CallNow, StopFrame
  <2>5. ASSUME NEW w \in Work, RunCallbacks(w) PROVE active' > 0
    BY <1>2, <2>2, <2>5 DEF RunCallbacks
  <2>6. CASE callbacks' = callbacks /\ ~ \E w \in Work : Leaves(w)
    BY <1>2, <2>1, <2>2, <2>6, Moves DEF Enters, Stays
  <2> QED
    BY <2>3, <2>4, <2>5, <2>6, OthersKeep DEF Leaves
<1> QED
  BY <1>1, <1>2 DEF CallbackOnce, Kept

\* Each shutdown's callback is kept in one place until it has run, and runs
\* at most once: not by two finishing threads, nor by one and by shutdown().
THEOREM WorkersCallbackOnce == Spec => []CallbackOnce
<1>1. Init => CallbackOnce
  <2> SUFFICES ASSUME Init PROVE CallbackOnce
    OBVIOUS
  <2>1. \A s \in Stops : Pending(s) = {}
    BY DEF Init, Pending
  <2> QED
    BY <2>1, FS_EmptySet DEF Init, CallbackOnce
<1> QED
  BY <1>1, CallbackStep, IdleInvariant, CountInvariant, PTL DEF Spec

-----------------------------------------------------------------------------
(***************************************************************************)
(* The manual review.                                                      *)
(***************************************************************************)

\* The steps of everything but the requests keep who reviews.
LEMMA OthersKeepReview ==
    ASSUME TypeOK, [Next]_vars
    PROVE  \/ \E k \in Kicks : Kick(k) \/ KickStep(k)
           \/ /\ UNCHANGED reviewVars
              /\ \A k \in Kicks :
                    \/ pc'[k] = pc[k]
                    \/ pc[k] = "leaving" /\ pc'[k] = "firing"
                    \/ pc[k] = "firing" /\ pc'[k] = "done"
                    \/ pc[k] = "aborting" /\ pc'[k] = "abortFiring"
                    \/ pc[k] = "abortFiring" /\ pc'[k] = "resetting"
<1> USE WorkersAssumption DEF TypeOK, Goto, reviewVars
<1>1. ASSUME NEW j \in Jobs, JobStep(j)
      PROVE  UNCHANGED reviewVars /\ \A k \in Kicks : pc'[k] = pc[k]
  BY <1>1 DEF JobStep, Submit, Admit, WorkEnds, TickBegins, TickEnds
<1>2. ASSUME NEW w \in Work, Finish(w)
      PROVE  UNCHANGED reviewVars /\ \A k \in Kicks :
                    \/ pc'[k] = pc[k]
                    \/ pc[k] = "leaving" /\ pc'[k] = "firing"
                    \/ pc[k] = "aborting" /\ pc'[k] = "abortFiring"
  BY <1>2 DEF Finish
<1>3. ASSUME NEW w \in Work, RunCallbacks(w)
      PROVE  UNCHANGED reviewVars /\ \A k \in Kicks :
                    \/ pc'[k] = pc[k]
                    \/ pc[k] = "firing" /\ pc'[k] = "done"
                    \/ pc[k] = "abortFiring" /\ pc'[k] = "resetting"
  BY <1>3 DEF RunCallbacks
<1>4. CASE HostStep
  BY <1>4, HostMoves
<1>5. CASE UNCHANGED vars
  BY <1>5 DEF vars
<1> QED
  BY <1>1, <1>2, <1>3, <1>4, <1>5 DEF Next, HostStep

\* A request moves nobody but itself.
LEMMA KickMovesOne ==
    ASSUME NEW k \in Kicks, TypeOK, Kick(k) \/ KickStep(k)
    PROVE  \A l \in Kicks \ {k} : pc'[l] = pc[l]
BY DEF TypeOK, Goto, KickStep, Kick, Claim, SubmitReview, Admit, StartFails, PassBegins,
       PassEnds, PassFails, Reset

\* What a request does to the marks of the review.
LEMMA KickMarks ==
    ASSUME NEW k \in Kicks, TypeOK, Kick(k) \/ KickStep(k)
    PROVE  \/ Reviewer(k)' = Reviewer(k) /\ running' = running
           \/ ~Reviewer(k) /\ ~running /\ Reviewer(k)' /\ running'
           \/ Reviewer(k) /\ ~Reviewer(k)' /\ ~running'
<1> USE WorkersAssumption DEF TypeOK, Goto, Reviewer, reviewVars
<1>1. CASE Kick(k)
  BY <1>1 DEF Kick
<1>2. CASE Claim(k)
  BY <1>2 DEF Claim
<1>3. CASE SubmitReview(k) \/ StartFails(k)
  BY <1>3 DEF SubmitReview, Admit, StartFails
<1>4. CASE PassBegins(k) \/ PassFails(k)
  BY <1>4 DEF PassBegins, PassFails
<1>5. CASE PassEnds(k)
  BY <1>5 DEF PassEnds
<1>6. CASE Reset(k)
  BY <1>6 DEF Reset
<1> QED
  BY <1>1, <1>2, <1>3, <1>4, <1>5, <1>6 DEF KickStep

LEMMA OneReviewStep ==
    ASSUME TypeOK, OneReview, [Next]_vars
    PROVE  OneReview'
<1>1. ASSUME NEW k \in Kicks, Kick(k) \/ KickStep(k) PROVE OneReview'
  <2>1. \A l \in Kicks \ {k} : Reviewer(l)' = Reviewer(l)
    BY <1>1, KickMovesOne DEF Reviewer
  <2>2. CASE Reviewer(k)' = Reviewer(k) /\ running' = running
    BY <2>1, <2>2, Zenon DEF OneReview
  <2>3. CASE ~Reviewer(k) /\ ~running /\ Reviewer(k)' /\ running'
    <3>1. \A l \in Kicks \ {k} : ~Reviewer(l)'
      BY <2>1, <2>3 DEF OneReview
    <3> QED
      BY <2>3, <3>1 DEF OneReview
  <2>4. CASE Reviewer(k) /\ ~Reviewer(k)' /\ ~running'
    <3>1. \A l \in Kicks \ {k} : ~Reviewer(l)'
      BY <2>1, <2>4 DEF OneReview
    <3> QED
      BY <2>4, <3>1 DEF OneReview
  <2> QED
    BY <1>1, <2>2, <2>3, <2>4, KickMarks
<1>2. ASSUME UNCHANGED reviewVars, \A k \in Kicks : Reviewer(k)' = Reviewer(k)
      PROVE  OneReview'
  BY <1>2 DEF OneReview, reviewVars
<1> QED
  BY <1>1, <1>2, OthersKeepReview DEF Reviewer

\* At most one review is claimed or under way, and _manual_review_running says
\* so: two requests never start two model calls, and the mark is never left
\* behind by a review that was refused, failed or could not be started.
THEOREM WorkersOneReview == Spec => []OneReview
<1>1. Init => OneReview
  BY DEF Init, OneReview, Reviewer
<1> QED
  BY <1>1, OneReviewStep, CountInvariant, PTL DEF Spec

\* What a request does to what is wanted.  A request that is absorbed reminds
\* the review; a pass that ends without a reminder was the last one.
LEMMA KickWants ==
    ASSUME TypeOK, OneReview, NoRequestLost, NEW k \in Kicks, Kick(k) \/ KickStep(k)
    PROVE  NoRequestLost'
<1> DEFINE Serves(l) == \/ pc[l] \in {"claimed", "submitted", "rerun", "failing",
                                      "aborting", "abortFiring", "resetting"}
                        \/ pc[l] = "reviewing" /\ again
<1>1. wanted # {} => \E l \in Kicks : Serves(l)
  BY DEF NoRequestLost
<1>2. SUFFICES ASSUME wanted' # {} PROVE \E l \in Kicks : Serves(l)'
  BY DEF NoRequestLost
<1>3. \A l \in Kicks \ {k} : pc'[l] = pc[l]
  BY KickMovesOne
<1>4. k \in Kicks /\ pc \in [Work -> JobPCs \cup KickPCs]
  BY DEF TypeOK
<1> HIDE DEF Serves
<1>5. ASSUME again' = again, wanted' = wanted, Serves(k) => Serves(k)'
      PROVE  \E l \in Kicks : Serves(l)'
  <2>1. PICK l \in Kicks : Serves(l)
    BY <1>1, <1>2, <1>5
  <2>2. CASE l = k
    BY <1>5, <2>1, <2>2
  <2>3. CASE l # k
    BY <1>3, <1>5, <2>1, <2>3 DEF Serves
  <2> QED
    BY <2>2, <2>3
<1>6. CASE Kick(k)
  <2>1. again' = again /\ wanted' = wanted /\ pc[k] = "idle"
    BY <1>6 DEF Kick, reviewVars
  <2> QED
    BY <1>5, <2>1 DEF Serves
<1>7. CASE Claim(k)
  <2>1. CASE running
    <3>1. PICK l \in Kicks : Reviewer(l)
      BY <2>1 DEF OneReview
    <3>2. l # k /\ again'
      BY <1>7, <2>1, <3>1 DEF Claim, Reviewer
    <3>3. Serves(l)'
      BY <1>3, <3>1, <3>2 DEF Serves, Reviewer
    <3> QED
      BY <3>3
  <2>2. CASE ~running
    BY <1>4, <1>7, <2>2 DEF Claim, Goto, Serves
  <2> QED
    BY <2>1, <2>2
<1>8. CASE SubmitReview(k) \/ StartFails(k) \/ PassFails(k)
  <2>1. again' = again /\ wanted' = wanted
    BY <1>8 DEF SubmitReview, StartFails, PassFails, reviewVars
  <2>2. Serves(k)'
    BY <1>4, <1>8 DEF SubmitReview, Admit, StartFails, PassFails, Goto, Serves
  <2> QED
    BY <1>5, <2>1, <2>2
<1>9. CASE PassBegins(k) \/ Reset(k)
  BY <1>2, <1>9 DEF PassBegins, Reset
<1>10. CASE PassEnds(k)
  <2>1. CASE again
    BY <1>4, <1>10, <2>1 DEF PassEnds, Goto, Serves
  <2>2. CASE ~again
    <3>1. PICK l \in Kicks : Serves(l)
      BY <1>1, <1>2, <1>10 DEF PassEnds
    <3>2. Reviewer(k) /\ Reviewer(l)
      BY <1>10, <3>1 DEF PassEnds, Serves, Reviewer
    <3>3. l = k
      BY <3>2 DEF OneReview
    <3> QED
      BY <1>10, <2>2, <3>1, <3>3 DEF PassEnds, Serves
  <2> QED
    BY <2>1, <2>2
<1> QED
  BY <1>6, <1>7, <1>8, <1>9, <1>10 DEF KickStep

LEMMA NoRequestLostStep ==
    ASSUME TypeOK, OneReview, NoRequestLost, [Next]_vars
    PROVE  NoRequestLost'
<1>1. ASSUME UNCHANGED reviewVars,
             \A k \in Kicks :
                \/ pc'[k] = pc[k]
                \/ pc[k] = "leaving" /\ pc'[k] = "firing"
                \/ pc[k] = "firing" /\ pc'[k] = "done"
                \/ pc[k] = "aborting" /\ pc'[k] = "abortFiring"
                \/ pc[k] = "abortFiring" /\ pc'[k] = "resetting"
      PROVE  NoRequestLost'
  BY <1>1 DEF NoRequestLost, reviewVars
<1> QED
  BY <1>1, KickWants, OthersKeepReview

\* A request that was absorbed while a review ran is not forgotten: a review
\* is under way that will start another batch.
THEOREM WorkersNoRequestLost == Spec => []NoRequestLost
<1>1. Init => NoRequestLost
  BY DEF Init, NoRequestLost
<1> QED
  BY <1>1, NoRequestLostStep, WorkersOneReview, CountInvariant, PTL DEF Spec

-----------------------------------------------------------------------------
(***************************************************************************)
(* MemoryTriggers: the timers that start the extractions.                  *)
(***************************************************************************)
HIDE DEF Work

USE TriggersAssumption

TimerState == {"none", "waiting", "firing", "over"}

-----------------------------------------------------------------------------
(***************************************************************************)
(* What a step does to the idle timers and to the extractions.             *)
(***************************************************************************)

\* The timer the table names is dropped: cancelled if it has not fired yet.
Drops(s) ==
    /\ table'[s] = 0
    /\ \A n \in Numbers :
          timer'[s][n] = IF n = table[s] /\ timer[s][n] = "waiting" THEN "over" ELSE timer[s][n]

LEMMA CancelledTimer ==
    ASSUME TriggersTypeOK, NEW s \in Sessions, NEW k
    PROVE  /\ Cancelled(s, k) \in [Numbers -> TimerState]
           /\ \A n \in Numbers : Cancelled(s, k)[n] =
                 IF n = k /\ timer[s][n] = "waiting" THEN "over" ELSE timer[s][n]
<1>1. timer[s] \in [Numbers -> TimerState]
  BY DEF TriggersTypeOK, TimerState
<1>2. "over" \in TimerState
  BY DEF TimerState
<1> HIDE DEF TimerState
<1> QED
  BY <1>1, <1>2 DEF Cancelled

LEMMA EndSessionTimers ==
    ASSUME TriggersTypeOK, NEW s \in Sessions, EndSession(s)
    PROVE  /\ table' = [table EXCEPT ![s] = 0]
           /\ timer' \in [Sessions -> [Numbers -> TimerState]]
           /\ Drops(s)
           /\ \A r \in Sessions \ {s} : timer'[r] = timer[r]
<1> DEFINE f == IF table[s] = 0 THEN timer[s] ELSE Cancelled(s, table[s])
<1>1. /\ table' = [table EXCEPT ![s] = 0]
      /\ timer' = [timer EXCEPT ![s] = f]
  BY DEF EndSession, TriggersTypeOK
<1>2. f \in [Numbers -> TimerState]
  BY CancelledTimer DEF TriggersTypeOK, TimerState
<1>3. \A n \in Numbers :
         f[n] = IF n = table[s] /\ timer[s][n] = "waiting" THEN "over" ELSE timer[s][n]
  BY CancelledTimer DEF Numbers
<1> HIDE DEF f
<1> QED
  BY <1>1, <1>2, <1>3 DEF TriggersTypeOK, Drops, TimerState

LEMMA ArmIdleTimers ==
    ASSUME TriggersTypeOK, NEW s \in Sessions, ArmIdle(s)
    PROVE  /\ table' = [table EXCEPT ![s] = said[s]]
           /\ timer' \in [Sessions -> [Numbers -> TimerState]]
           /\ \A n \in Numbers : timer'[s][n] =
                 IF n = said[s] THEN "waiting"
                 ELSE IF n = table[s] /\ timer[s][n] = "waiting" THEN "over" ELSE timer[s][n]
           /\ \A r \in Sessions \ {s} : timer'[r] = timer[r]
<1> DEFINE f == IF table[s] = 0 THEN timer[s] ELSE Cancelled(s, table[s])
           g == [f EXCEPT ![said[s]] = "waiting"]
<1>1. /\ table' = [table EXCEPT ![s] = said[s]]
      /\ timer' = [timer EXCEPT ![s] = g]
  BY DEF ArmIdle, TriggersTypeOK
<1>2. f \in [Numbers -> TimerState]
  BY CancelledTimer DEF TriggersTypeOK, TimerState
<1>3. \A n \in Numbers :
         f[n] = IF n = table[s] /\ timer[s][n] = "waiting" THEN "over" ELSE timer[s][n]
  BY CancelledTimer DEF Numbers
<1> HIDE DEF f
<1>4. /\ g \in [Numbers -> TimerState]
      /\ \A n \in Numbers : g[n] = IF n = said[s] THEN "waiting" ELSE f[n]
  BY <1>2 DEF TimerState
<1> HIDE DEF g
<1>5. timer' \in [Sessions -> [Numbers -> TimerState]]
  BY <1>1, <1>4 DEF TriggersTypeOK, TimerState
<1>6. timer'[s] = g /\ \A r \in Sessions \ {s} : timer'[r] = timer[r]
  BY <1>1 DEF TriggersTypeOK
<1> QED
  BY <1>1, <1>3, <1>4, <1>5, <1>6

LEMMA CancelIdleTimers ==
    ASSUME TriggersTypeOK, CancelIdle
    PROVE  /\ table' = [s \in Sessions |-> 0]
           /\ timer' \in [Sessions -> [Numbers -> TimerState]]
           /\ \A s \in Sessions : Drops(s)
<1> DEFINE f(s) == IF table[s] = 0 THEN timer[s] ELSE Cancelled(s, table[s])
<1>1. /\ table' = [s \in Sessions |-> 0]
      /\ timer' = [s \in Sessions |-> f(s)]
  BY DEF CancelIdle
<1>2. \A s \in Sessions : f(s) \in [Numbers -> TimerState]
  BY CancelledTimer DEF TriggersTypeOK, TimerState
<1>3. \A s \in Sessions : \A n \in Numbers :
         f(s)[n] = IF n = table[s] /\ timer[s][n] = "waiting" THEN "over" ELSE timer[s][n]
  BY CancelledTimer DEF Numbers
<1> HIDE DEF f
<1> QED
  BY <1>1, <1>2, <1>3 DEF Drops

\* An extraction is submitted, or what it would have read slips away.
LEMMA StartExtractType ==
    ASSUME TriggersTypeOK, NEW s \in Sessions, StartExtract(s)
    PROVE  /\ extract' \in [Extracts -> {"none", "started", "reading"}]
           /\ tried' \in [Sessions -> SUBSET Numbers]
           /\ slipped' \in [Sessions -> SUBSET Numbers]
<1>1. Submitted(s) \subseteq Numbers
  BY DEF TriggersTypeOK, Submitted, Numbers
<1>0. /\ extract \in [Extracts -> {"none", "started", "reading"}]
      /\ tried \in [Sessions -> SUBSET Numbers]
      /\ slipped \in [Sessions -> SUBSET Numbers]
  BY DEF TriggersTypeOK
<1>2. CASE SlipsAway(s, mode = "idle") /\ UNCHANGED <<extract, tried>>
  BY <1>0, <1>1, <1>2 DEF SlipsAway
<1>3. CASE /\ \E x \in Unused(s) : extract' = [extract EXCEPT ![x] = "started"]
           /\ UNCHANGED <<tried, slipped>>
  BY <1>0, <1>3 DEF Unused
<1> QED
  BY <1>2, <1>3 DEF StartExtract

-----------------------------------------------------------------------------
(***************************************************************************)
(* Types.                                                                  *)
(***************************************************************************)
\* The entry of a session names a timer that waits or fires.
EntryLives == \A s \in Sessions : table[s] # 0 => timer[s][table[s]] \in {"waiting", "firing"}

LEMMA TriggersTypeInductive ==
    ASSUME TriggersTypeOK, TimersInOrder, [TriggersNext]_triggersVars
    PROVE  TriggersTypeOK'
<1>1. ASSUME NEW s \in Sessions, EndTurn(s) PROVE TriggersTypeOK'
  BY <1>1 DEF EndTurn, TriggersTypeOK, extractVars, beatVars, Numbers
<1>2. ASSUME NEW s \in Sessions, WriteCapture(s) PROVE TriggersTypeOK'
  <2>1. InWriting(s) \subseteq Numbers
    BY DEF InWriting, Submitted, Numbers, TriggersTypeOK
  <2> QED
    BY <1>2, <2>1 DEF WriteCapture, TriggersTypeOK, extractVars, beatVars
<1>3. ASSUME NEW s \in Sessions, ArmIdle(s) PROVE TriggersTypeOK'
  <2>1. said[s] \in Numbers
    BY <1>3 DEF ArmIdle, TimersInOrder, TriggersTypeOK, Numbers
  <2>2. /\ table' = [table EXCEPT ![s] = said[s]]
        /\ timer' \in [Sessions -> [Numbers -> TimerState]]
        /\ timer'[s][said[s]] = "waiting"
        /\ \A r \in Sessions \ {s} : timer'[r] = timer[r]
    BY <1>3, <2>1, ArmIdleTimers
  <2>3. table \in [Sessions -> 0..MaxSaid] /\ said[s] \in 0..MaxSaid /\ EntryLives
    BY DEF TriggersTypeOK, EntryLives
  <2>4. table' \in [Sessions -> 0..MaxSaid] /\ EntryLives'
    BY <2>2, <2>3 DEF EntryLives
  <2> QED
    BY <1>3, <2>2, <2>4 DEF ArmIdle, TriggersTypeOK, EntryLives, TimerState, extractVars, beatVars
<1>4. ASSUME NEW s \in Sessions, EndSession(s),
             UNCHANGED <<beat, halted, held, stopped>>,
             sweep' \in SUBSET Sessions, ended' \in SUBSET Sessions
      PROVE  TriggersTypeOK'
  <2>1. /\ table' \in [Sessions -> 0..MaxSaid]
        /\ timer' \in [Sessions -> [Numbers -> TimerState]]
        /\ EntryLives'
    <3>1. /\ table' = [table EXCEPT ![s] = 0]
          /\ timer' \in [Sessions -> [Numbers -> TimerState]]
          /\ \A r \in Sessions \ {s} : timer'[r] = timer[r]
      BY <1>4, EndSessionTimers
    <3>2. table \in [Sessions -> 0..MaxSaid] /\ 0 \in 0..MaxSaid /\ EntryLives
      BY DEF TriggersTypeOK, EntryLives
    <3> QED
      BY <3>1, <3>2 DEF EntryLives
  <2>2. /\ extract' \in [Extracts -> {"none", "started", "reading"}]
        /\ tried' \in [Sessions -> SUBSET Numbers]
        /\ slipped' \in [Sessions -> SUBSET Numbers]
    BY <1>4, StartExtractType DEF EndSession
  <2>3. UNCHANGED <<mode, said, written, hook, tracked>>
    BY <1>4 DEF EndSession
  <2> QED
    BY <1>4, <2>1, <2>2, <2>3 DEF TriggersTypeOK, EntryLives, TimerState
<1>5. ASSUME NEW s \in Sessions, HostEndsSession(s) PROVE TriggersTypeOK'
  BY <1>4, <1>5 DEF HostEndsSession, TriggersTypeOK, beatVars
<1>6. ASSUME NEW s \in Sessions, SweepSession(s) PROVE TriggersTypeOK'
  BY <1>4, <1>6 DEF SweepSession, TriggersTypeOK
<1>7. ASSUME NEW s \in Sessions, NEW n \in Numbers, IdleFires(s, n) PROVE TriggersTypeOK'
  BY <1>7 DEF IdleFires, TriggersTypeOK, extractVars, beatVars
<1>8. ASSUME NEW s \in Sessions, NEW n \in Numbers, OnIdleExtract(s, n) PROVE TriggersTypeOK'
  <2>1. /\ extract' \in [Extracts -> {"none", "started", "reading"}]
        /\ tried' \in [Sessions -> SUBSET Numbers]
        /\ slipped' \in [Sessions -> SUBSET Numbers]
    BY <1>8, StartExtractType DEF OnIdleExtract
  <2>2. /\ table' \in [Sessions -> 0..MaxSaid]
        /\ timer' \in [Sessions -> [Numbers -> TimerState]]
        /\ EntryLives'
    BY <1>8 DEF OnIdleExtract, TriggersTypeOK, EntryLives, TimerState
  <2>3. UNCHANGED <<mode, said, written, hook, tracked, beatVars, ended, held, stopped>>
    BY <1>8 DEF OnIdleExtract
  <2> QED
    BY <2>1, <2>2, <2>3 DEF TriggersTypeOK, EntryLives, TimerState, beatVars
<1>9. ASSUME NEW x \in Extracts, ReadTurns(x) PROVE TriggersTypeOK'
  <2>1. x[1] \in Sessions
    BY DEF Extracts
  <2>2. InWriting(x[1]) \subseteq Numbers
    BY <2>1 DEF InWriting, Submitted, Numbers, TriggersTypeOK
  <2> QED
    BY <1>9, <2>1, <2>2 DEF ReadTurns, TriggersTypeOK, sessionVars, beatVars
<1>10. ASSUME NEW x \in Extracts, ForgetSession(x) PROVE TriggersTypeOK'
  <2>1. x[1] \in Sessions
    BY DEF Extracts
  <2>2. Submitted(x[1]) \subseteq Numbers
    BY <2>1 DEF Submitted, Numbers, TriggersTypeOK
  <2>3. slipped' \in [Sessions -> SUBSET Numbers]
    BY <1>10, <2>1, <2>2 DEF ForgetSession, SlipsAway, TriggersTypeOK
  <2> QED
    BY <1>10, <2>1, <2>3 DEF ForgetSession, TriggersTypeOK, beatVars
<1>11. ASSUME NEW b \in Beats, BeatStep(b) \/ Halt(b) PROVE TriggersTypeOK'
  <2>1. UNCHANGED <<mode, sessionVars, extractVars, ended, held, stopped>>
    BY <1>11 DEF BeatStep, BeatFires, Rearm, Snapshot, Maintain, Halt
  <2>2. beat' \in [Beats -> {"off", "waiting", "firing", "rearming"}]
    BY <1>11 DEF BeatStep, BeatFires, Rearm, Snapshot, Maintain, Halt, TriggersTypeOK
  <2>3. sweep' \in SUBSET Sessions /\ halted' \in SUBSET Beats
    BY <1>11 DEF BeatStep, BeatFires, Rearm, Snapshot, Maintain, Halt, TriggersTypeOK
  <2> QED
    BY <2>1, <2>2, <2>3 DEF TriggersTypeOK, sessionVars, extractVars
<1>12. ASSUME Holding \/ Stop PROVE TriggersTypeOK'
  <2>1. held' \in BOOLEAN /\ stopped' \in BOOLEAN
    BY <1>12, Zenon DEF Holding, Stop, TriggersTypeOK
  <2>2. UNCHANGED <<mode, sessionVars, extractVars, beatVars, ended>>
    BY <1>12 DEF Holding, Stop
  <2> QED
    BY <2>1, <2>2 DEF TriggersTypeOK, sessionVars, extractVars, beatVars
<1>13. CASE CancelIdle
  <2>1. /\ table' \in [Sessions -> 0..MaxSaid]
        /\ timer' \in [Sessions -> [Numbers -> TimerState]]
        /\ EntryLives'
    BY <1>13, CancelIdleTimers DEF EntryLives
  <2> QED
    BY <1>13, <2>1 DEF CancelIdle, TriggersTypeOK, EntryLives, TimerState, extractVars, beatVars
<1>14. CASE UNCHANGED triggersVars
  BY <1>14 DEF triggersVars, sessionVars, extractVars, beatVars, TriggersTypeOK
<1> QED
  BY <1>1, <1>2, <1>3, <1>5, <1>6, <1>7, <1>8, <1>9, <1>10, <1>11, <1>12, <1>13, <1>14
     DEF TriggersNext, TimerStep, ExtractStep

-----------------------------------------------------------------------------
(***************************************************************************)
(* Idle timers: the table names the latest timer of a session, and only    *)
(* that one may be waiting; but an older one may, if a still older one has *)
(* fired whose work, when it is done, drops the entry of the table.        *)
(***************************************************************************)
TimersKept == TimersInOrder /\ WaitingIsKnown

LEMMA TimersUntouched ==
    ASSUME TimersKept, UNCHANGED <<said, hook, table, timer>>
    PROVE  TimersKept'
BY DEF TimersKept, TimersInOrder, WaitingIsKnown

\* Dropping the entries of some sessions.
LEMMA DropKeeps ==
    ASSUME TriggersTypeOK, TimersKept, UNCHANGED <<said, hook>>,
           \A s \in Sessions : Drops(s) \/ (table'[s] = table[s] /\ timer'[s] = timer[s])
    PROVE  TimersKept'
<1> SUFFICES ASSUME NEW s \in Sessions
             PROVE  /\ s \in hook => said[s] # 0
                    /\ \A n \in Numbers : timer'[s][n] # "none" =>
                          /\ n <= said[s]
                          /\ s \in hook => n # said[s]
                          /\ table'[s] # 0 => n <= table'[s]
                    /\ \A n \in Numbers : timer'[s][n] = "waiting" /\ table'[s] # n
                          => \E m \in 1..(n - 1) : timer'[s][m] \in {"firing", "over"}
  BY DEF TimersKept, TimersInOrder, WaitingIsKnown
<1>1. /\ s \in hook => said[s] # 0
      /\ \A n \in Numbers : timer[s][n] # "none" =>
            /\ n <= said[s]
            /\ s \in hook => n # said[s]
            /\ table[s] # 0 => n <= table[s]
      /\ \A n \in Numbers : timer[s][n] = "waiting" /\ table[s] # n
            => \E m \in 1..(n - 1) : timer[s][m] \in {"firing", "over"}
  BY DEF TimersKept, TimersInOrder, WaitingIsKnown
<1>2. CASE table'[s] = table[s] /\ timer'[s] = timer[s]
  BY <1>1, <1>2
<1>3. CASE Drops(s)
  <2>1. \A n \in Numbers : \A m \in 1..(n - 1) : m \in Numbers
    BY DEF Numbers
  <2>2. \A n \in Numbers : timer[s][n] \in {"firing", "over"} => timer'[s][n] \in {"firing", "over"}
    BY <1>3 DEF Drops
  <2>3. ASSUME NEW n \in Numbers, timer'[s][n] = "waiting"
        PROVE  \E m \in 1..(n - 1) : timer'[s][m] \in {"firing", "over"}
    <3>1. timer[s][n] = "waiting" /\ table[s] # n
      BY <1>3, <2>3 DEF Drops
    <3>2. PICK m \in 1..(n - 1) : timer[s][m] \in {"firing", "over"}
      BY <1>1, <3>1
    <3> QED
      BY <2>1, <2>2, <3>2
  <2> QED
    BY <1>1, <1>3, <2>3 DEF Drops
<1> QED
  BY <1>2, <1>3

LEMMA ArmIdleKeeps ==
    ASSUME TriggersTypeOK, TimersKept, NEW s \in Sessions, ArmIdle(s)
    PROVE  TimersKept'
<1>1. s \in hook /\ hook' = hook \ {s} /\ UNCHANGED said
  BY DEF ArmIdle
<1>2. /\ table'[s] = said[s]
      /\ \A n \in Numbers : timer'[s][n] =
            IF n = said[s] THEN "waiting"
            ELSE IF n = table[s] /\ timer[s][n] = "waiting" THEN "over" ELSE timer[s][n]
      /\ \A r \in Sessions \ {s} : timer'[r] = timer[r] /\ table'[r] = table[r]
  BY ArmIdleTimers DEF TriggersTypeOK
<1>3. /\ \A n \in Numbers : timer[s][n] # "none" => n <= said[s] /\ n # said[s]
      /\ said[s] \in Numbers
  BY <1>1 DEF TimersKept, TimersInOrder, TriggersTypeOK, Numbers
<1>4. \A n \in Numbers : timer'[s][n] # "none" => n <= said[s]
  BY <1>2, <1>3 DEF Numbers
<1>5. ASSUME NEW n \in Numbers, timer'[s][n] = "waiting", table'[s] # n
      PROVE  \E m \in 1..(n - 1) : timer'[s][m] \in {"firing", "over"}
  <2>1. timer[s][n] = "waiting" /\ table[s] # n
    BY <1>2, <1>5
  <2>2. PICK m \in 1..(n - 1) : timer[s][m] \in {"firing", "over"}
    BY <2>1 DEF TimersKept, WaitingIsKnown
  <2>3. m \in Numbers /\ m # said[s]
    BY <1>3, <2>2 DEF Numbers
  <2> QED
    BY <1>2, <2>2, <2>3
<1>6. TimersInOrder'
  BY <1>1, <1>2, <1>4 DEF TimersKept, TimersInOrder
<1>7. WaitingIsKnown'
  BY <1>2, <1>5 DEF TimersKept, WaitingIsKnown
<1> QED
  BY <1>6, <1>7 DEF TimersKept

LEMMA OnIdleExtractKeeps ==
    ASSUME TriggersTypeOK, TimersKept, NEW s \in Sessions, NEW k \in Numbers, OnIdleExtract(s, k)
    PROVE  TimersKept'
<1>1. /\ timer[s][k] = "firing"
      /\ table' = [table EXCEPT ![s] = 0]
      /\ timer' = [timer EXCEPT ![s][k] = "over"]
      /\ UNCHANGED <<said, hook>>
  BY DEF OnIdleExtract
<1>2. /\ table'[s] = 0 /\ timer'[s][k] = "over"
      /\ \A n \in Numbers \ {k} : timer'[s][n] = timer[s][n]
      /\ \A r \in Sessions \ {s} : timer'[r] = timer[r] /\ table'[r] = table[r]
  BY <1>1 DEF TriggersTypeOK
<1>3. TimersInOrder'
  BY <1>1, <1>2 DEF TimersKept, TimersInOrder
<1>4. ASSUME NEW n \in Numbers, timer'[s][n] = "waiting"
      PROVE  \E m \in 1..(n - 1) : timer'[s][m] \in {"firing", "over"}
  <2>1. n # k /\ timer[s][n] = "waiting"
    BY <1>2, <1>4
  <2>2. CASE table[s] = n
    <3>1. k <= n
      BY <1>1, <2>2 DEF TimersKept, TimersInOrder, Numbers
    <3>2. k \in 1..(n - 1)
      BY <2>1, <3>1 DEF Numbers
    <3> QED
      BY <1>2, <3>2
  <2>3. CASE table[s] # n
    <3>1. PICK m \in 1..(n - 1) : timer[s][m] \in {"firing", "over"}
      BY <2>1, <2>3 DEF TimersKept, WaitingIsKnown
    <3>2. m \in Numbers
      BY DEF Numbers
    <3> QED
      BY <1>2, <3>1, <3>2
  <2> QED
    BY <2>2, <2>3
<1>5. WaitingIsKnown'
  BY <1>2, <1>4 DEF TimersKept, WaitingIsKnown
<1> QED
  BY <1>3, <1>5 DEF TimersKept

LEMMA IdleFiresKeeps ==
    ASSUME TriggersTypeOK, TimersKept, NEW s \in Sessions, NEW k \in Numbers, IdleFires(s, k)
    PROVE  TimersKept'
<1>1. /\ timer[s][k] = "waiting"
      /\ timer' = [timer EXCEPT ![s][k] = "firing"]
      /\ UNCHANGED <<said, hook, table>>
  BY DEF IdleFires
<1>2. /\ timer'[s][k] = "firing"
      /\ \A n \in Numbers \ {k} : timer'[s][n] = timer[s][n]
      /\ \A r \in Sessions \ {s} : timer'[r] = timer[r]
  BY <1>1 DEF TriggersTypeOK
<1>3. TimersInOrder'
  BY <1>1, <1>2 DEF TimersKept, TimersInOrder
<1>4. ASSUME NEW n \in Numbers, timer'[s][n] = "waiting", table[s] # n
      PROVE  \E m \in 1..(n - 1) : timer'[s][m] \in {"firing", "over"}
  <2>1. n # k /\ timer[s][n] = "waiting"
    BY <1>2, <1>4
  <2>2. PICK m \in 1..(n - 1) : timer[s][m] \in {"firing", "over"}
    BY <1>4, <2>1 DEF TimersKept, WaitingIsKnown
  <2>3. m \in Numbers
    BY DEF Numbers
  <2> QED
    BY <1>2, <2>2, <2>3
<1>5. WaitingIsKnown'
  BY <1>1, <1>2, <1>4 DEF TimersKept, WaitingIsKnown
<1> QED
  BY <1>3, <1>5 DEF TimersKept

LEMMA EndTurnKeeps ==
    ASSUME TriggersTypeOK, TimersKept, NEW s \in Sessions, EndTurn(s)
    PROVE  TimersKept'
<1>1. /\ s \notin hook /\ hook' \in {hook, hook \cup {s}}
      /\ said' = [said EXCEPT ![s] = @ + 1]
      /\ UNCHANGED <<table, timer>>
  BY DEF EndTurn
<1>2. said[s] \in Nat /\ said'[s] = said[s] + 1 /\ \A r \in Sessions \ {s} : said'[r] = said[r]
  BY <1>1 DEF TriggersTypeOK
<1>3. TimersInOrder'
  <2> SUFFICES ASSUME NEW r \in Sessions
               PROVE  /\ r \in hook' => said'[r] # 0
                      /\ \A n \in Numbers : timer[r][n] # "none" =>
                            /\ n <= said'[r]
                            /\ r \in hook' => n # said'[r]
                            /\ table[r] # 0 => n <= table[r]
    BY <1>1 DEF TimersInOrder
  <2>1. CASE r # s
    BY <1>1, <1>2, <2>1 DEF TimersKept, TimersInOrder
  <2>2. CASE r = s
    BY <1>1, <1>2, <2>2 DEF TimersKept, TimersInOrder, Numbers
  <2> QED
    BY <2>1, <2>2
<1>4. WaitingIsKnown'
  BY <1>1 DEF TimersKept, WaitingIsKnown
<1> QED
  BY <1>3, <1>4 DEF TimersKept

LEMMA TimersInductive ==
    ASSUME TriggersTypeOK, TimersKept, [TriggersNext]_triggersVars
    PROVE  TimersKept'
<1>1. ASSUME NEW s \in Sessions, EndTurn(s) PROVE TimersKept'
  BY <1>1, EndTurnKeeps
<1>2. ASSUME NEW s \in Sessions, ArmIdle(s) PROVE TimersKept'
  BY <1>2, ArmIdleKeeps
<1>3. ASSUME NEW s \in Sessions, HostEndsSession(s) \/ SweepSession(s) PROVE TimersKept'
  <2>1. EndSession(s)
    BY <1>3 DEF HostEndsSession, SweepSession
  <2>2. UNCHANGED <<said, hook>>
    BY <2>1 DEF EndSession
  <2>3. \A r \in Sessions : Drops(r) \/ (table'[r] = table[r] /\ timer'[r] = timer[r])
    BY <2>1, EndSessionTimers DEF TriggersTypeOK
  <2> QED
    BY <2>2, <2>3, DropKeeps
<1>4. ASSUME NEW s \in Sessions, NEW n \in Numbers, IdleFires(s, n) PROVE TimersKept'
  BY <1>4, IdleFiresKeeps
<1>5. ASSUME NEW s \in Sessions, NEW n \in Numbers, OnIdleExtract(s, n) PROVE TimersKept'
  BY <1>5, OnIdleExtractKeeps
<1>6. CASE CancelIdle
  <2>1. UNCHANGED <<said, hook>>
    BY <1>6 DEF CancelIdle
  <2> QED
    BY <1>6, <2>1, CancelIdleTimers, DropKeeps
<1>7. ASSUME UNCHANGED sessionVars PROVE TimersKept'
  BY <1>7, TimersUntouched DEF sessionVars
<1>8. ASSUME NEW s \in Sessions, WriteCapture(s) PROVE TimersKept'
  BY <1>8, TimersUntouched DEF WriteCapture
<1>9. ASSUME NEW x \in Extracts, ExtractStep(x) PROVE TimersKept'
  BY <1>9, TimersUntouched DEF ExtractStep, ReadTurns, ForgetSession, sessionVars
<1>10. ASSUME NEW b \in Beats, BeatStep(b) \/ Halt(b) PROVE TimersKept'
  BY <1>7, <1>10 DEF BeatStep, BeatFires, Rearm, Snapshot, Maintain, Halt
<1>11. CASE Holding \/ Stop \/ UNCHANGED triggersVars
  BY <1>7, <1>11 DEF Holding, Stop, triggersVars
<1> QED
  BY <1>1, <1>2, <1>3, <1>4, <1>5, <1>6, <1>8, <1>9, <1>10, <1>11 DEF TriggersNext, TimerStep

-----------------------------------------------------------------------------
(***************************************************************************)
(* The two timers that beat: off only after shutdown() halted them.        *)
(***************************************************************************)
BeatsKept == HaltedByShutdown /\ HaltedIsFinal /\ BeatGoesOn

LEMMA BeatsInductive ==
    ASSUME TriggersTypeOK, BeatsKept, [TriggersNext]_triggersVars
    PROVE  BeatsKept'
<1>1. ASSUME NEW b \in Beats, BeatStep(b) \/ Halt(b) PROVE BeatsKept'
  <2>1. UNCHANGED <<mode, stopped>>
    BY <1>1 DEF BeatStep, BeatFires, Rearm, Snapshot, Maintain, Halt
  <2>2. HaltedByShutdown'
    <3>1. halted' # {} => stopped'
      BY <1>1, <2>1 DEF BeatStep, BeatFires, Rearm, Snapshot, Maintain, Halt, BeatsKept,
                        HaltedByShutdown
    <3>2. beat["sweep"] = "off" => beat'["sweep"] = "off"
      BY <1>1 DEF BeatStep, BeatFires, Rearm, Snapshot, Maintain, Halt, Beats, TriggersTypeOK
    <3> QED
      BY <2>1, <3>1, <3>2 DEF BeatsKept, HaltedByShutdown
  <2>3. HaltedIsFinal'
    BY <1>1, <2>1 DEF BeatStep, BeatFires, Rearm, Snapshot, Maintain, Halt, BeatsKept,
                      HaltedIsFinal, TriggersTypeOK
  <2>4. BeatGoesOn'
    <3>1. Beating(mode)' = Beating(mode) /\ Beating(mode) \subseteq Beats
      BY <2>1 DEF Beating, Beats
    <3>2. ASSUME NEW a \in Beats, beat'[a] = "off" PROVE beat[a] = "off" \/ a \in halted'
      BY <1>1, <3>2 DEF BeatStep, BeatFires, Rearm, Snapshot, Maintain, Halt, TriggersTypeOK
    <3>3. halted \subseteq halted'
      BY <1>1 DEF BeatStep, BeatFires, Rearm, Snapshot, Maintain, Halt
    <3> QED
      BY <3>1, <3>2, <3>3 DEF BeatsKept, BeatGoesOn
  <2> QED
    BY <2>2, <2>3, <2>4 DEF BeatsKept
<1>2. ASSUME UNCHANGED <<mode, beat, halted>>, stopped => stopped' PROVE BeatsKept'
  BY <1>2 DEF BeatsKept, HaltedByShutdown, HaltedIsFinal, BeatGoesOn, Beating
<1>3. CASE Stop
  BY <1>2, <1>3 DEF Stop, beatVars
<1>4. CASE Holding \/ CancelIdle \/ UNCHANGED triggersVars
  BY <1>2, <1>4 DEF Holding, CancelIdle, triggersVars, beatVars
<1>5. ASSUME NEW s \in Sessions, EndTurn(s) \/ TimerStep(s) \/ HostEndsSession(s)
      PROVE  BeatsKept'
  <2>1. UNCHANGED <<mode, beat, halted, stopped>>
    BY <1>5 DEF EndTurn, TimerStep, HostEndsSession, WriteCapture, ArmIdle, SweepSession,
                EndSession, IdleFires, OnIdleExtract, beatVars
  <2> QED
    BY <1>2, <2>1
<1>6. ASSUME NEW x \in Extracts, ExtractStep(x) PROVE BeatsKept'
  BY <1>2, <1>6 DEF ExtractStep, ReadTurns, ForgetSession, beatVars
<1> QED
  BY <1>1, <1>3, <1>4, <1>5, <1>6 DEF TriggersNext

-----------------------------------------------------------------------------
(***************************************************************************)
(* Turns that no extraction has read: their session is tracked, and        *)
(* something will trigger an extraction of it.                             *)
(***************************************************************************)
UnreadKept == TrackedWhileUnread /\ NothingForgotten

\* Steps that take no trigger away and let nothing else be read.
LEMMA DueKept ==
    ASSUME UnreadKept, UNCHANGED <<mode, hook, tracked>>,
           \A s \in Sessions : Unread(s)' \subseteq Unread(s),
           stopped => stopped',
           \A s \in Sessions : Due(s) /\ Unread(s)' # {} => stopped' \/ Due(s)'
    PROVE  UnreadKept'
BY DEF UnreadKept, TrackedWhileUnread, NothingForgotten

\* What an extraction that is submitted takes over.
LEMMA StartExtractEffect ==
    ASSUME TriggersTypeOK, UNCHANGED <<mode, said>>, NEW s \in Sessions, StartExtract(s)
    PROVE  /\ \A r \in Sessions : Unread(r)' \subseteq Unread(r)
           /\ \/ \E x \in Extracts : x[1] = s /\ extract'[x] = "started"
              \/ mode = "interval" \/ Unread(s)' = {}
           /\ \A x \in Extracts : extract[x] = "started" => extract'[x] = "started"
<1>1. CASE SlipsAway(s, mode = "idle") /\ UNCHANGED <<extract, tried>>
  <2>1. \A r \in Sessions : slipped[r] \subseteq slipped'[r]
    BY <1>1 DEF SlipsAway, TriggersTypeOK
  <2>2. mode = "idle" => Submitted(s) \ tried[s] \subseteq slipped'[s]
    BY <1>1 DEF SlipsAway, TriggersTypeOK
  <2>3. \A r \in Sessions : Submitted(r)' = Submitted(r)
    BY DEF Submitted
  <2>4. mode \in {"idle", "interval"}
    BY DEF TriggersTypeOK
  <2> QED
    BY <1>1, <2>1, <2>2, <2>3, <2>4 DEF Unread
<1>2. CASE /\ \E x \in Unused(s) : extract' = [extract EXCEPT ![x] = "started"]
           /\ UNCHANGED <<tried, slipped>>
  <2>1. PICK x \in Unused(s) : extract' = [extract EXCEPT ![x] = "started"]
    BY <1>2
  <2>2. x \in Extracts /\ x[1] = s /\ extract'[x] = "started"
    BY <2>1 DEF Unused, TriggersTypeOK
  <2>3. \A y \in Extracts : extract[y] = "started" => extract'[y] = "started"
    BY <2>1 DEF TriggersTypeOK
  <2>4. \A r \in Sessions : Unread(r)' = Unread(r)
    BY <1>2 DEF Unread, Submitted
  <2> QED
    BY <2>2, <2>3, <2>4
<1> QED
  BY <1>1, <1>2 DEF StartExtract

\* A session that is ended, or whose timer fired, is read later; or nothing
\* of it is to be read; or it stays tracked.
LEMMA EndingKeeps ==
    ASSUME TriggersTypeOK, UnreadKept, NEW s \in Sessions, StartExtract(s),
           UNCHANGED <<mode, said, hook, tracked>>,
           sweep \ {s} \subseteq sweep', stopped' = stopped,
           \A r \in Sessions \ {s} : timer'[r] = timer[r]
    PROVE  UnreadKept'
<1>1. ASSUME NEW r \in Sessions, Due(r), Unread(r)' # {} PROVE Due(r)'
  <2>1. CASE mode = "interval"
    <3>1. r \in tracked
      BY <1>1, <2>1, StartExtractEffect DEF UnreadKept, TrackedWhileUnread
    <3> QED
      BY <2>1, <3>1 DEF Due
  <2>2. CASE mode # "interval" /\ r = s
    <3>1. \E x \in Extracts : x[1] = s /\ extract'[x] = "started"
      BY <1>1, <2>2, StartExtractEffect
    <3> QED
      BY <2>2, <3>1 DEF Due
  <2>3. CASE mode # "interval" /\ r # s
    <3>1. \A x \in Extracts : extract[x] = "started" => extract'[x] = "started"
      BY StartExtractEffect
    <3> QED
      BY <1>1, <2>3, <3>1 DEF Due
  <2> QED
    BY <2>1, <2>2, <2>3
<1>2. \A r \in Sessions : Unread(r)' \subseteq Unread(r)
  BY StartExtractEffect
<1> QED
  BY <1>1, <1>2, DueKept

LEMMA UnreadInductive ==
    ASSUME TriggersTypeOK, TimersKept, HaltedByShutdown, UnreadKept, [TriggersNext]_triggersVars
    PROVE  UnreadKept'
<1>1. ASSUME NEW s \in Sessions, EndTurn(s) PROVE UnreadKept'
  <2>1. /\ said' = [said EXCEPT ![s] = @ + 1]
        /\ tracked' = tracked \cup {s}
        /\ hook' = IF mode = "idle" THEN hook \cup {s} ELSE hook
        /\ UNCHANGED <<mode, timer, tried, slipped, extract, sweep, stopped>>
    BY <1>1 DEF EndTurn, extractVars, beatVars
  <2>2. \A r \in Sessions \ {s} : Unread(r)' = Unread(r)
    BY <2>1 DEF Unread, Submitted, TriggersTypeOK
  <2>3. Due(s)' /\ s \in tracked'
    BY <2>1 DEF Due, TriggersTypeOK
  <2>4. \A r \in Sessions : Due(r) => Due(r)'
    BY <2>1 DEF Due
  <2> QED
    BY <2>1, <2>2, <2>3, <2>4 DEF UnreadKept, TrackedWhileUnread, NothingForgotten
<1>2. ASSUME NEW s \in Sessions, WriteCapture(s) PROVE UnreadKept'
  <2>1. UNCHANGED <<mode, said, hook, tracked, timer, extract, tried, slipped, sweep, stopped>>
    BY <1>2 DEF WriteCapture, extractVars, beatVars
  <2> QED
    BY <2>1 DEF UnreadKept, TrackedWhileUnread, NothingForgotten, Unread, Submitted, Due
<1>3. ASSUME NEW s \in Sessions, ArmIdle(s) PROVE UnreadKept'
  <2>1. /\ hook' = hook \ {s} /\ s \in hook
        /\ UNCHANGED <<mode, said, tracked, extract, tried, slipped, sweep, stopped>>
    BY <1>3 DEF ArmIdle, extractVars, beatVars
  <2>2. said[s] \in Numbers
    BY <2>1 DEF TimersKept, TimersInOrder, TriggersTypeOK, Numbers
  <2>3. Due(s)'
    BY <1>3, <2>2, ArmIdleTimers DEF Due
  <2>4. ASSUME NEW r \in Sessions, r # s, Due(r) PROVE Due(r)'
    <3>1. timer'[r] = timer[r]
      BY <1>3, <2>4, ArmIdleTimers
    <3> QED
      BY <2>1, <2>4, <3>1 DEF Due
  <2>5. \A r \in Sessions : Unread(r)' = Unread(r)
    BY <2>1 DEF Unread, Submitted
  <2> QED
    BY <2>1, <2>3, <2>4, <2>5 DEF UnreadKept, TrackedWhileUnread, NothingForgotten
<1>4. ASSUME NEW s \in Sessions, HostEndsSession(s) \/ SweepSession(s) PROVE UnreadKept'
  <2>1. EndSession(s) /\ sweep \ {s} \subseteq sweep' /\ UNCHANGED stopped
    BY <1>4 DEF HostEndsSession, SweepSession, beatVars
  <2>2. StartExtract(s) /\ UNCHANGED <<mode, said, hook, tracked>>
    BY <2>1 DEF EndSession
  <2>3. \A r \in Sessions \ {s} : timer'[r] = timer[r]
    BY <2>1, EndSessionTimers
  <2> QED
    BY <2>1, <2>2, <2>3, EndingKeeps
<1>5. ASSUME NEW s \in Sessions, NEW n \in Numbers, IdleFires(s, n) PROVE UnreadKept'
  <2>1. /\ UNCHANGED <<mode, said, hook, tracked, extract, tried, slipped, sweep, stopped>>
        /\ timer' = [timer EXCEPT ![s][n] = "firing"]
    BY <1>5 DEF IdleFires, extractVars, beatVars
  <2>2. \A r \in Sessions, k \in Numbers :
           timer[r][k] \in {"waiting", "firing"} => timer'[r][k] \in {"waiting", "firing"}
    BY <2>1 DEF TriggersTypeOK
  <2>3. \A r \in Sessions : Due(r) => Due(r)'
    BY <2>1, <2>2 DEF Due
  <2>4. \A r \in Sessions : Unread(r)' = Unread(r)
    BY <2>1 DEF Unread, Submitted
  <2> QED
    BY <2>1, <2>3, <2>4, DueKept
<1>6. ASSUME NEW s \in Sessions, NEW n \in Numbers, OnIdleExtract(s, n) PROVE UnreadKept'
  <2>1. /\ StartExtract(s) /\ UNCHANGED <<mode, said, hook, tracked, sweep, stopped>>
        /\ timer' = [timer EXCEPT ![s][n] = "over"]
    BY <1>6 DEF OnIdleExtract, beatVars
  <2>2. \A r \in Sessions \ {s} : timer'[r] = timer[r]
    BY <2>1 DEF TriggersTypeOK
  <2> QED
    BY <2>1, <2>2, EndingKeeps
<1>7. ASSUME NEW x \in Extracts, ReadTurns(x) PROVE UnreadKept'
  <2>1. /\ x[1] \in Sessions
        /\ extract' = [extract EXCEPT ![x] = "reading"]
        /\ tried' = [tried EXCEPT ![x[1]] = @ \cup written[x[1]]]
        /\ slipped' = [slipped EXCEPT ![x[1]] = @ \cup InWriting(x[1])]
        /\ UNCHANGED <<mode, said, hook, tracked, timer, sweep, stopped>>
    BY <1>7 DEF ReadTurns, Extracts, sessionVars, beatVars
  <2>2. Unread(x[1])' = {}
    BY <2>1 DEF Unread, Submitted, InWriting, TriggersTypeOK
  <2>3. ASSUME NEW r \in Sessions, r # x[1] PROVE Unread(r)' = Unread(r)
    BY <2>1, <2>3 DEF Unread, Submitted, TriggersTypeOK
  <2>4. ASSUME NEW r \in Sessions, r # x[1], Due(r) PROVE Due(r)'
    <3>1. \A y \in Extracts : y[1] = r => extract'[y] = extract[y]
      BY <2>1, <2>4 DEF TriggersTypeOK
    <3> QED
      BY <2>1, <2>4, <3>1 DEF Due
  <2> QED
    BY <2>1, <2>2, <2>3, <2>4, DueKept
<1>8. ASSUME NEW x \in Extracts, ForgetSession(x) PROVE UnreadKept'
  <2>1. /\ x[1] \in Sessions
        /\ extract[x] = "reading"
        /\ extract' = [extract EXCEPT ![x] = "none"]
        /\ tracked' = tracked \ {x[1]}
        /\ SlipsAway(x[1], mode = "interval")
        /\ UNCHANGED <<mode, said, hook, timer, tried, sweep, stopped>>
    BY <1>8 DEF ForgetSession, Extracts, beatVars
  <2>2. mode = "interval" => Unread(x[1])' = {}
    BY <2>1 DEF SlipsAway, Unread, Submitted, TriggersTypeOK
  <2>3. \A r \in Sessions : slipped[r] \subseteq slipped'[r]
    BY <2>1 DEF SlipsAway, TriggersTypeOK
  <2>4. \A r \in Sessions : Unread(r)' \subseteq Unread(r)
    BY <2>1, <2>3 DEF Unread, Submitted
  <2>5. \A y \in Extracts : extract[y] = "started" => extract'[y] = "started"
    BY <2>1 DEF TriggersTypeOK
  <2>6. ASSUME NEW r \in Sessions, Due(r), mode # "interval" \/ r # x[1] PROVE Due(r)'
    BY <2>1, <2>5, <2>6 DEF Due
  <2> QED
    BY <2>1, <2>2, <2>4, <2>6 DEF UnreadKept, TrackedWhileUnread, NothingForgotten
<1>9. ASSUME NEW b \in Beats, BeatStep(b) \/ Halt(b) PROVE UnreadKept'
  <2>1. /\ UNCHANGED <<mode, said, hook, tracked, timer, extract, tried, slipped, stopped>>
        /\ sweep' = sweep \/ (beat["sweep"] = "firing" /\ sweep' = tracked)
    BY <1>9 DEF BeatStep, BeatFires, Rearm, Snapshot, Maintain, Halt, sessionVars, extractVars
  <2>2. \A r \in Sessions : Unread(r)' = Unread(r)
    BY <2>1 DEF Unread, Submitted
  <2>3. CASE sweep' = sweep
    <3>1. \A r \in Sessions : Due(r) => Due(r)'
      BY <2>1, <2>3 DEF Due
    <3> QED
      BY <2>1, <2>2, <3>1, DueKept
  <2>4. CASE beat["sweep"] = "firing"
    <3>1. mode = "interval"
      BY <2>4 DEF HaltedByShutdown, TriggersTypeOK
    <3>2. \A r \in Sessions : Unread(r)' # {} => Due(r)'
      BY <2>1, <2>2, <3>1 DEF Due, UnreadKept, TrackedWhileUnread
    <3> QED
      BY <2>1, <2>2, <3>2, DueKept
  <2> QED
    BY <2>1, <2>3, <2>4
<1>10. CASE Holding \/ UNCHANGED triggersVars
  BY <1>10 DEF Holding, triggersVars, sessionVars, extractVars, beatVars, UnreadKept,
               TrackedWhileUnread, NothingForgotten, Unread, Submitted, Due
<1>11. CASE Stop
  BY <1>11 DEF Stop, sessionVars, extractVars, beatVars, UnreadKept,
               TrackedWhileUnread, NothingForgotten, Unread, Submitted
<1>12. CASE CancelIdle
  <2>1. UNCHANGED <<mode, said, tracked, tried, slipped, stopped>> /\ halted = Beats
    BY <1>12 DEF CancelIdle, extractVars
  <2>2. stopped
    BY <2>1 DEF HaltedByShutdown, Beats
  <2> QED
    BY <2>1, <2>2 DEF UnreadKept, TrackedWhileUnread, NothingForgotten, Unread, Submitted
<1> QED
  BY <1>1, <1>2, <1>3, <1>4, <1>5, <1>6, <1>7, <1>8, <1>9, <1>10, <1>11, <1>12
     DEF TriggersNext, TimerStep, ExtractStep

-----------------------------------------------------------------------------
(***************************************************************************)
(* The invariant and the theorems.                                         *)
(***************************************************************************)
\* The invariant of MemoryTriggers, with the types.
LEMMA TriggersInvariant == TriggersSpec => [](TriggersTypeOK /\ TriggersInv)
<1> DEFINE Inv == TriggersTypeOK /\ TimersKept /\ BeatsKept /\ UnreadKept
<1>1. TriggersInit => Inv
  <2> SUFFICES ASSUME TriggersInit PROVE Inv
    OBVIOUS
  <2>1. TriggersTypeOK
    <3>1. 0 \in 0..MaxSaid
      OBVIOUS
    <3>2. timer \in [Sessions -> [Numbers -> {"none", "waiting", "firing", "over"}]]
      BY DEF TriggersInit
    <3>3. held \in BOOLEAN /\ stopped \in BOOLEAN
      BY DEF TriggersInit
    <3> QED
      BY <3>1, <3>2, <3>3 DEF TriggersInit, TriggersTypeOK
  <2>2. TimersKept
    BY DEF TriggersInit, TimersKept, TimersInOrder, WaitingIsKnown
  <2>3. BeatsKept
    BY DEF TriggersInit, BeatsKept, HaltedByShutdown, HaltedIsFinal, BeatGoesOn, Beating, Beats
  <2>4. UnreadKept
    <3>1. \A s \in Sessions : Unread(s) = {}
      BY DEF TriggersInit, Unread, Submitted
    <3> QED
      BY <3>1 DEF UnreadKept, TrackedWhileUnread, NothingForgotten
  <2> QED
    BY <2>1, <2>2, <2>3, <2>4
<1>2. Inv /\ [TriggersNext]_triggersVars => Inv'
  BY TriggersTypeInductive, TimersInductive, BeatsInductive, UnreadInductive
     DEF TimersKept, BeatsKept
<1>3. Inv => TriggersTypeOK /\ TriggersInv
  BY DEF TriggersInv, TimersKept, BeatsKept, UnreadKept, NoTimerEscapes
<1> QED
  BY <1>1, <1>2, <1>3, PTL DEF TriggersSpec

\* Every variable has its type, and the table of idle timers names timers
\* that wait or fire.
THEOREM TriggersTypeCorrect == TriggersSpec => []TriggersTypeOK
BY TriggersInvariant, PTL

\* A captured turn that no extraction has read has a trigger, but for the
\* turns that slipped away, whichever trigger is wired and however timers,
\* sweeps, the host, pauses and extractions meet.
THEOREM TurnsNotForgotten == TriggersSpec => []NothingForgotten
<1>1. TriggersInv => NothingForgotten
  BY DEF TriggersInv
<1> QED
  BY <1>1, TriggersInvariant, PTL

\* No idle timer waits unknown to the next turn and to shutdown(), a timer
\* that was halted never waits again, and none stops before.
THEOREM TimersDoNotEscape == TriggersSpec => []NoTimerEscapes
<1>1. TriggersInv => NoTimerEscapes
  BY DEF TriggersInv
<1> QED
  BY <1>1, TriggersInvariant, PTL

-----------------------------------------------------------------------------
(***************************************************************************)
(* TurnCapture: what the messages of one kind in a conversation are, and   *)
(* how they grow.                                                          *)
(***************************************************************************)

There(s, kinds)   == {i \in DOMAIN s : s[i].kind \in kinds}
Rank(s, kinds, i) == Cardinality({j \in There(s, kinds) : j <= i})

LEMMA OfKindIs ==
    ASSUME NEW s, NEW kinds
    PROVE  OfKind(s, kinds) = [k \in 1..Cardinality(There(s, kinds)) |->
                                 s[CHOOSE i \in There(s, kinds) : Rank(s, kinds, i) = k]]
BY DEF OfKind, There, Rank

LEMMA ThereFinite ==
    ASSUME NEW s \in Seq(Message), NEW kinds
    PROVE  /\ IsFiniteSet(There(s, kinds)) /\ Cardinality(There(s, kinds)) \in Nat
           /\ There(s, kinds) \subseteq 1..Len(s)
<1>1. There(s, kinds) \subseteq 1..Len(s)
  BY DEF There
<1>2. IsFiniteSet(1..Len(s))
  BY FS_Interval
<1>3. IsFiniteSet(There(s, kinds))
  BY <1>1, <1>2, FS_Subset
<1> QED
  BY <1>1, <1>3, FS_CardinalityType

\* A message more is in or out as its kind says.
LEMMA ThereAppend ==
    ASSUME NEW s \in Seq(Message), NEW m \in Message, NEW kinds
    PROVE  /\ m.kind \in kinds => There(Append(s, m), kinds) = There(s, kinds) \cup {Len(s) + 1}
           /\ m.kind \notin kinds => There(Append(s, m), kinds) = There(s, kinds)
           /\ \A i \in There(s, kinds) : Append(s, m)[i] = s[i] /\ Rank(Append(s, m), kinds, i) = Rank(s, kinds, i)
           /\ Rank(Append(s, m), kinds, Len(s) + 1) = Cardinality(There(Append(s, m), kinds))
<1> DEFINE t == Append(s, m)
<1>1. /\ DOMAIN s = 1..Len(s) /\ DOMAIN t = 1..(Len(s) + 1) /\ t[Len(s) + 1] = m /\ Len(s) \in Nat
      /\ \A i \in 1..Len(s) : t[i] = s[i]
  OBVIOUS
<1>2. /\ m.kind \in kinds => There(t, kinds) = There(s, kinds) \cup {Len(s) + 1}
      /\ m.kind \notin kinds => There(t, kinds) = There(s, kinds)
  BY <1>1 DEF There
<1>3. There(s, kinds) \subseteq 1..Len(s) /\ There(t, kinds) \subseteq 1..(Len(s) + 1)
  BY <1>1 DEF There
<1>4. ASSUME NEW i \in There(s, kinds) PROVE t[i] = s[i] /\ Rank(t, kinds, i) = Rank(s, kinds, i)
  <2>1. {j \in There(t, kinds) : j <= i} = {j \in There(s, kinds) : j <= i}
    BY <1>1, <1>2, <1>3, <1>4
  <2> QED
    BY <1>1, <1>3, <1>4, <2>1 DEF Rank
<1>5. Rank(t, kinds, Len(s) + 1) = Cardinality(There(t, kinds))
  <2>1. {j \in There(t, kinds) : j <= Len(s) + 1} = There(t, kinds)
    BY <1>1, <1>3
  <2> QED
    BY <2>1 DEF Rank
<1> QED
  BY <1>2, <1>4, <1>5

LEMMA RankWithin ==
    ASSUME NEW s \in Seq(Message), NEW kinds, NEW i
    PROVE  Rank(s, kinds, i) \in 0..Cardinality(There(s, kinds))
<1>1. {j \in There(s, kinds) : j <= i} \subseteq There(s, kinds)
  OBVIOUS
<1> QED
  BY <1>1, ThereFinite, FS_Subset, FS_CardinalityType DEF Rank


\* The messages of these kinds can be counted through: a k-th one is there.
Ranked(s, kinds) ==
    \A k \in 1..Cardinality(There(s, kinds)) : \E i \in There(s, kinds) : Rank(s, kinds, i) = k

LEMMA CountAppend ==
    ASSUME NEW s \in Seq(Message), NEW m \in Message, NEW kinds
    PROVE  Cardinality(There(Append(s, m), kinds))
             = IF m.kind \in kinds THEN Cardinality(There(s, kinds)) + 1 ELSE Cardinality(There(s, kinds))
<1>1. Len(s) + 1 \notin There(s, kinds)
  BY ThereFinite
<1> QED
  BY <1>1, ThereFinite, ThereAppend, FS_AddElement

LEMMA OfKindLen ==
    ASSUME NEW s \in Seq(Message), NEW kinds
    PROVE  Len(OfKind(s, kinds)) = Cardinality(There(s, kinds))
<1>1. Cardinality(There(s, kinds)) \in Nat
  BY ThereFinite
<1> QED
  BY <1>1, OfKindIs

LEMMA OfKindEmpty ==
    ASSUME NEW kinds
    PROVE  There(<<>>, kinds) = {} /\ OfKind(<<>>, kinds) = <<>> /\ Ranked(<<>>, kinds)
<1>1. There(<<>>, kinds) = {}
  BY DEF There
<1>2. Cardinality({}) = 0
  BY FS_EmptySet
<1>3. Cardinality(There(<<>>, kinds)) = 0
  BY <1>1, <1>2
<1>4. OfKind(<<>>, kinds) = [k \in 1..0 |-> <<>>[CHOOSE i \in There(<<>>, kinds) : Rank(<<>>, kinds, i) = k]]
  BY <1>3, OfKindIs
<1>5. OfKind(<<>>, kinds) = <<>>
  BY <1>4
<1>6. Ranked(<<>>, kinds)
  BY <1>3 DEF Ranked
<1> QED
  BY <1>1, <1>5, <1>6

LEMMA RankedAppend ==
    ASSUME NEW s \in Seq(Message), NEW m \in Message, NEW kinds, Ranked(s, kinds)
    PROVE  Ranked(Append(s, m), kinds)
<1> DEFINE t == Append(s, m)
           n == Cardinality(There(s, kinds))
<1>1. n \in Nat
  BY ThereFinite
<1>2. SUFFICES ASSUME NEW k \in 1..Cardinality(There(t, kinds))
               PROVE  \E i \in There(t, kinds) : Rank(t, kinds, i) = k
  BY DEF Ranked
<1>3. \A i \in There(s, kinds) : i \in There(t, kinds)
  BY ThereAppend
<1>4. CASE k \in 1..n
  <2>1. PICK i \in There(s, kinds) : Rank(s, kinds, i) = k
    BY <1>4 DEF Ranked
  <2> QED
    BY <2>1, <1>3, ThereAppend
<1>5. CASE k \notin 1..n
  <2>1. m.kind \in kinds /\ k = n + 1 /\ Cardinality(There(t, kinds)) = n + 1
    BY <1>1, <1>2, <1>5, CountAppend
  <2>2. Len(s) + 1 \in There(t, kinds)
    BY <2>1, ThereAppend
  <2> QED
    BY <2>1, <2>2, ThereAppend
<1> QED
  BY <1>4, <1>5

LEMMA OfKindType ==
    ASSUME NEW s \in Seq(Message), NEW kinds, Ranked(s, kinds)
    PROVE  OfKind(s, kinds) \in Seq(Message)
<1> DEFINE n == Cardinality(There(s, kinds))
           Pick(k) == CHOOSE i \in There(s, kinds) : Rank(s, kinds, i) = k
<1>1. OfKind(s, kinds) = [k \in 1..n |-> s[Pick(k)]] /\ n \in Nat
  BY OfKindIs, ThereFinite
<1>2. ASSUME NEW k \in 1..n PROVE s[Pick(k)] \in Message
  <2>1. \E i \in There(s, kinds) : Rank(s, kinds, i) = k
    BY DEF Ranked
  <2>2. Pick(k) \in There(s, kinds)
    BY <2>1
  <2> HIDE DEF Pick
  <2> QED
    BY <2>2, ThereFinite
<1> HIDE DEF Pick
<1> QED
  BY <1>1, <1>2

LEMMA OfKindAppend ==
    ASSUME NEW s \in Seq(Message), NEW m \in Message, NEW kinds, Ranked(s, kinds)
    PROVE  OfKind(Append(s, m), kinds)
             = IF m.kind \in kinds THEN Append(OfKind(s, kinds), m) ELSE OfKind(s, kinds)
<1> DEFINE t == Append(s, m)
           n == Cardinality(There(s, kinds))
           Pick(k) == CHOOSE i \in There(s, kinds) : Rank(s, kinds, i) = k
           More(k) == CHOOSE i \in There(t, kinds) : Rank(t, kinds, i) = k
<1>1. t \in Seq(Message) /\ n \in Nat /\ OfKind(s, kinds) \in Seq(Message)
  BY ThereFinite, OfKindType
<1>2. /\ OfKind(s, kinds) = [k \in 1..n |-> s[Pick(k)]]
      /\ OfKind(t, kinds) = [k \in 1..Cardinality(There(t, kinds)) |-> t[More(k)]]
  BY OfKindIs
<1>3. ASSUME NEW k \in 1..n PROVE t[More(k)] = s[Pick(k)]
  <2>1. ASSUME NEW i
        PROVE  (i \in There(t, kinds) /\ Rank(t, kinds, i) = k)
                 <=> (i \in There(s, kinds) /\ Rank(s, kinds, i) = k)
    BY <1>1, <1>3, ThereAppend, CountAppend
  <2>2. More(k) = Pick(k)
    BY <2>1, Zenon
  <2>3. \E i \in There(s, kinds) : Rank(s, kinds, i) = k
    BY <1>3 DEF Ranked
  <2>4. Pick(k) \in There(s, kinds)
    BY <2>3
  <2> HIDE DEF Pick, More
  <2>5. \A i \in There(s, kinds) : t[i] = s[i]
    BY ThereAppend
  <2> HIDE DEF t
  <2> QED
    BY <2>2, <2>4, <2>5
<1>4. CASE m.kind \notin kinds
  <2>1. Cardinality(There(t, kinds)) = n
    BY <1>4, CountAppend
  <2> HIDE DEF Pick, More, t, n
  <2>2. OfKind(t, kinds) = OfKind(s, kinds)
    BY <1>2, <1>3, <2>1
  <2> QED
    BY <1>4, <2>2 DEF t
<1>5. CASE m.kind \in kinds
  <2>1. Cardinality(There(t, kinds)) = n + 1
    BY <1>5, CountAppend
  <2>2. More(n + 1) = Len(s) + 1
    <3>1. Len(s) + 1 \in There(t, kinds) /\ Rank(t, kinds, Len(s) + 1) = n + 1
      BY <1>5, <2>1, ThereAppend
    <3>2. ASSUME NEW i \in There(t, kinds), Rank(t, kinds, i) = n + 1 PROVE i = Len(s) + 1
      <4>1. i \in There(s, kinds) => Rank(t, kinds, i) <= n /\ Rank(t, kinds, i) \in Nat
        BY <1>1, ThereAppend, RankWithin
      <4> QED
        BY <1>1, <1>5, <3>2, <4>1, ThereAppend
    <3> QED
      BY <3>1, <3>2
  <2> HIDE DEF Pick, More
  <2>8. t[Len(s) + 1] = m
    OBVIOUS
  <2>3. t[More(n + 1)] = m
    BY <2>2, <2>8
  <2>4. Append(OfKind(s, kinds), m) = [k \in 1..(n + 1) |-> IF k = n + 1 THEN m ELSE s[Pick(k)]]
    BY <1>1, <1>2
  <2>5. OfKind(t, kinds) = [k \in 1..(n + 1) |-> t[More(k)]]
    BY <1>2, <2>1
  <2> HIDE DEF t, n
  <2>6. \A k \in 1..(n + 1) : t[More(k)] = IF k = n + 1 THEN m ELSE s[Pick(k)]
    BY <1>1, <1>3, <2>3
  <2>7. OfKind(t, kinds) = Append(OfKind(s, kinds), m)
    BY <2>4, <2>5, <2>6
  <2> QED
    BY <1>5, <2>7 DEF t
<1> QED
  BY <1>4, <1>5

-----------------------------------------------------------------------------
(***************************************************************************)
(* One conversation: its messages ms, its phase ph, the count noted for    *)
(* its thread, what was handed over and what was logged.                   *)
(***************************************************************************)
Turns(ms) == Cardinality(There(ms, {"user"}))

\* The prompt of the latest turn, and behind it only tool traffic, among the
\* first n messages.
PromptWithin(ms, n) ==
    \E p \in 1..n : /\ ms[p] = [kind |-> "user", turn |-> Turns(ms)]
                    /\ \A i \in (p + 1)..n : ms[i].kind \in {"call", "tool"}

\* Among the first n messages, the replies are to turns up to this one.
RepliesUpTo(ms, n, turn) ==
    \A i \in 1..n : ms[i].kind = "reply" => ms[i].turn <= turn

Spoken == Kinds \ {"tool"}

PromptAt(ms, n) == IF ms[n].kind = "user" THEN <<ms[n]>> ELSE <<>>

\* What the log does not have yet.
Unlogged(ms, ph) ==
    IF ph \in {"prompted", "thinking"} THEN PromptAt(ms, Len(ms))
    ELSE IF ph = "answered" THEN PromptAt(ms, Len(ms) - 1) \o <<ms[Len(ms)]>>
    ELSE <<>>

SeenIn(ms, n) ==
    [users |-> <<n>>,
     reply |-> IF \E i \in 1..Len(ms) : ms[i] = [kind |-> "reply", turn |-> n] THEN n ELSE 0]

Ended(ms, ph) == IF ph = "idle" THEN Turns(ms) ELSE Turns(ms) - 1

\* What holds of one conversation in every phase: the log and what is not
\* yet logged make up the conversation, the turns that ended were handed
\* over, the count noted is that before the model's message, and the prompt
\* of the latest turn is the last message that is not tool traffic.
Recorded(ms, ph, cursor, tk, jr) ==
    /\ Ranked(ms, Spoken)
    /\ OfKind(ms, Spoken) = jr \o Unlogged(ms, ph)
    /\ tk = [n \in 1..Ended(ms, ph) |-> SeenIn(ms, n)]
    /\ ph = "idle" => RepliesUpTo(ms, Len(ms), Turns(ms))
    /\ ph \in {"prompted", "thinking", "acting"} =>
         PromptWithin(ms, Len(ms)) /\ RepliesUpTo(ms, Len(ms), Turns(ms) - 1)
    /\ ph = "thinking" => cursor = Len(ms)
    /\ ph = "answered" =>
         /\ cursor = Len(ms) - 1 /\ Len(ms) >= 1
         /\ PromptWithin(ms, Len(ms) - 1) /\ RepliesUpTo(ms, Len(ms) - 1, Turns(ms) - 1)
         /\ \E kind \in {"call", "reply", "failed"} : ms[Len(ms)] = [kind |-> kind, turn |-> Turns(ms)]

LEMMA AppendIs ==
    ASSUME NEW s \in Seq(Message), NEW m \in Message
    PROVE  /\ Append(s, m) \in Seq(Message) /\ Len(s) \in Nat
           /\ Len(Append(s, m)) = Len(s) + 1 /\ Append(s, m)[Len(s) + 1] = m
           /\ \A i \in 1..Len(s) : Append(s, m)[i] = s[i]
OBVIOUS

LEMMA ConcatOne ==
    ASSUME NEW s \in Seq(Message), NEW m \in Message
    PROVE  s \o <<m>> = Append(s, m)
OBVIOUS

LEMMA ConcatThrough ==
    ASSUME NEW s \in Seq(Message), NEW r \in Seq(Message), NEW m \in Message
    PROVE  Append(s \o r, m) = s \o (r \o <<m>>)
<1>1. s \o r \in Seq(Message) /\ <<m>> \in Seq(Message)
  OBVIOUS
<1>2. Append(s \o r, m) = (s \o r) \o <<m>>
  BY <1>1, AppendIsConcat
<1> QED
  BY <1>1, <1>2, ConcatAssociative

LEMMA TurnsAppend ==
    ASSUME NEW s \in Seq(Message), NEW m \in Message
    PROVE  /\ Turns(s) \in Nat
           /\ Turns(Append(s, m)) = IF m.kind = "user" THEN Turns(s) + 1 ELSE Turns(s)
BY ThereFinite, CountAppend DEF Turns

\* The exchanges of other turns stay what they were.
LEMMA SeenAppend ==
    ASSUME NEW s \in Seq(Message), NEW m \in Message, NEW n,
           m.kind = "reply" => m.turn # n
    PROVE  SeenIn(Append(s, m), n) = SeenIn(s, n)
<1>1. (\E i \in 1..Len(Append(s, m)) : Append(s, m)[i] = [kind |-> "reply", turn |-> n])
        <=> (\E i \in 1..Len(s) : s[i] = [kind |-> "reply", turn |-> n])
  BY AppendIs
<1> QED
  BY <1>1 DEF SeenIn

LEMMA PromptKeeps ==
    ASSUME NEW ms \in Seq(Message), NEW m \in Message, NEW cursor, NEW tk, NEW jr \in Seq(Message),
           Recorded(ms, "idle", cursor, tk, jr),
           m = [kind |-> "user", turn |-> Turns(ms) + 1]
    PROVE  Recorded(Append(ms, m), "prompted", cursor, tk, jr)
<1> DEFINE t == Append(ms, m)
<1>1. Turns(t) = Turns(ms) + 1 /\ Turns(ms) \in Nat
  BY TurnsAppend
<1>2. /\ t \in Seq(Message) /\ Len(ms) \in Nat /\ Len(t) = Len(ms) + 1 /\ t[Len(ms) + 1] = m
      /\ \A i \in 1..Len(ms) : t[i] = ms[i]
  BY AppendIs
<1>3. Ranked(t, Spoken)
  BY RankedAppend DEF Recorded
<1>4. OfKind(t, Spoken) = jr \o Unlogged(t, "prompted")
  <2>1. OfKind(ms, Spoken) = jr
    BY DEF Recorded, Unlogged
  <2>2. OfKind(t, Spoken) = Append(jr, m)
    BY <2>1, OfKindAppend DEF Recorded, Spoken, Kinds
  <2>3. Unlogged(t, "prompted") = <<m>>
    BY <1>2 DEF Unlogged, PromptAt
  <2> QED
    BY <2>2, <2>3, ConcatOne
<1>5. tk = [n \in 1..Ended(t, "prompted") |-> SeenIn(t, n)]
  <2>1. \A n : SeenIn(t, n) = SeenIn(ms, n)
    BY SeenAppend
  <2>2. Ended(t, "prompted") = Ended(ms, "idle")
    BY <1>1 DEF Ended
  <2> QED
    BY <2>1, <2>2 DEF Recorded
<1>6. PromptWithin(t, Len(t)) /\ RepliesUpTo(t, Len(t), Turns(t) - 1)
  <2>1. PromptWithin(t, Len(t))
    <3>1. Len(t) \in 1..Len(t) /\ t[Len(t)] = [kind |-> "user", turn |-> Turns(t)]
      BY <1>1, <1>2
    <3>2. \A i \in (Len(t) + 1)..Len(t) : FALSE
      BY <1>2
    <3> HIDE DEF t
    <3> QED
      BY <3>1, <3>2 DEF PromptWithin
  <2>2. RepliesUpTo(ms, Len(ms), Turns(ms))
    BY DEF Recorded
  <2> QED
    BY <1>1, <1>2, <2>1, <2>2 DEF RepliesUpTo
<1> HIDE DEF t
<1> QED
  BY <1>3, <1>4, <1>5, <1>6 DEF Recorded, t

LEMMA BeforeModelKeeps ==
    ASSUME NEW ms \in Seq(Message), NEW cursor, NEW tk, NEW jr \in Seq(Message),
           Recorded(ms, "prompted", cursor, tk, jr)
    PROVE  Recorded(ms, "thinking", Len(ms), tk, jr)
BY DEF Recorded, Unlogged, Ended

LEMMA ModelAnswersKeeps ==
    ASSUME NEW ms \in Seq(Message), NEW m \in Message, NEW tk, NEW jr \in Seq(Message),
           NEW kind \in {"call", "reply", "failed"},
           Recorded(ms, "thinking", Len(ms), tk, jr),
           m = [kind |-> kind, turn |-> Turns(ms)]
    PROVE  Recorded(Append(ms, m), "answered", Len(ms), tk, jr)
<1> DEFINE t == Append(ms, m)
<1>1. Turns(t) = Turns(ms) /\ Turns(ms) \in Nat
  BY TurnsAppend
<1>2. /\ t \in Seq(Message) /\ Len(ms) \in Nat /\ Len(t) = Len(ms) + 1 /\ t[Len(ms) + 1] = m
      /\ \A i \in 1..Len(ms) : t[i] = ms[i]
  BY AppendIs
<1>3. Ranked(t, Spoken)
  BY RankedAppend DEF Recorded
<1>6. PromptWithin(ms, Len(ms)) /\ RepliesUpTo(ms, Len(ms), Turns(ms) - 1)
  BY DEF Recorded
<1>7. Len(ms) >= 1
  BY <1>2, <1>6 DEF PromptWithin
<1>4. OfKind(t, Spoken) = jr \o Unlogged(t, "answered")
  <2>1. OfKind(ms, Spoken) = jr \o PromptAt(ms, Len(ms))
    BY DEF Recorded, Unlogged
  <2>2. OfKind(t, Spoken) = Append(OfKind(ms, Spoken), m)
    BY OfKindAppend DEF Recorded, Spoken, Kinds
  <2>3. Unlogged(t, "answered") = PromptAt(ms, Len(ms)) \o <<m>>
    BY <1>2, <1>7 DEF Unlogged, PromptAt
  <2>4. PromptAt(ms, Len(ms)) \in Seq(Message)
    BY <1>2, <1>7 DEF PromptAt
  <2> HIDE DEF t
  <2> DEFINE prompt == PromptAt(ms, Len(ms))
  <2>6. prompt \in Seq(Message) /\ OfKind(t, Spoken) = Append(jr \o prompt, m)
    BY <2>1, <2>2, <2>4
  <2> HIDE DEF prompt
  <2>7. Append(jr \o prompt, m) = jr \o (prompt \o <<m>>)
    BY <2>6, ConcatThrough
  <2>5. OfKind(t, Spoken) = jr \o (PromptAt(ms, Len(ms)) \o <<m>>)
    BY <2>6, <2>7 DEF prompt
  <2> QED
    BY <2>3, <2>5
<1>5. tk = [n \in 1..Ended(t, "answered") |-> SeenIn(t, n)]
  <2>1. ASSUME NEW n \in 1..Ended(ms, "thinking") PROVE SeenIn(t, n) = SeenIn(ms, n)
    <3>1. n # Turns(ms)
      BY <1>1 DEF Ended
    <3> QED
      BY <3>1, SeenAppend
  <2>2. Ended(t, "answered") = Ended(ms, "thinking")
    BY <1>1 DEF Ended
  <2> QED
    BY <2>1, <2>2 DEF Recorded
<1>8. PromptWithin(t, Len(t) - 1) /\ RepliesUpTo(t, Len(t) - 1, Turns(t) - 1)
  <2>1. Len(t) - 1 = Len(ms)
    BY <1>2
  <2> HIDE DEF t
  <2>2. PICK p \in 1..Len(ms) : /\ ms[p] = [kind |-> "user", turn |-> Turns(ms)]
                                /\ \A i \in (p + 1)..Len(ms) : ms[i].kind \in {"call", "tool"}
    BY <1>6 DEF PromptWithin
  <2>3. \A i \in (p + 1)..Len(ms) : t[i] = ms[i]
    BY <1>2
  <2>4. PromptWithin(t, Len(t) - 1)
    BY <1>1, <1>2, <2>1, <2>2, <2>3 DEF PromptWithin
  <2>5. RepliesUpTo(t, Len(t) - 1, Turns(t) - 1)
    BY <1>1, <1>2, <1>6, <2>1 DEF RepliesUpTo
  <2> QED
    BY <2>4, <2>5
<1>9. t[Len(t)] = [kind |-> kind, turn |-> Turns(t)]
  BY <1>1, <1>2
<1>10. Len(ms) = Len(t) - 1 /\ Len(t) >= 1
  BY <1>2
<1> HIDE DEF t
<1> QED
  BY <1>3, <1>4, <1>5, <1>8, <1>9, <1>10 DEF Recorded, t

LEMMA ToolsAnswerKeeps ==
    ASSUME NEW ms \in Seq(Message), NEW m \in Message, NEW cursor, NEW tk, NEW jr \in Seq(Message),
           Recorded(ms, "acting", cursor, tk, jr),
           m = [kind |-> "tool", turn |-> Turns(ms)]
    PROVE  Recorded(Append(ms, m), "prompted", cursor, tk, jr)
<1> DEFINE t == Append(ms, m)
<1>1. Turns(t) = Turns(ms) /\ Turns(ms) \in Nat
  BY TurnsAppend
<1>2. /\ t \in Seq(Message) /\ Len(ms) \in Nat /\ Len(t) = Len(ms) + 1 /\ t[Len(ms) + 1] = m
      /\ \A i \in 1..Len(ms) : t[i] = ms[i]
  BY AppendIs
<1>3. Ranked(t, Spoken)
  BY RankedAppend DEF Recorded
<1>4. OfKind(t, Spoken) = jr \o Unlogged(t, "prompted")
  <2>1. OfKind(ms, Spoken) = jr
    BY DEF Recorded, Unlogged
  <2>2. OfKind(t, Spoken) = jr
    BY <2>1, OfKindAppend DEF Recorded, Spoken, Kinds
  <2>3. Unlogged(t, "prompted") = <<>>
    BY <1>2 DEF Unlogged, PromptAt
  <2> QED
    BY <2>2, <2>3
<1>5. tk = [n \in 1..Ended(t, "prompted") |-> SeenIn(t, n)]
  <2>1. \A n : SeenIn(t, n) = SeenIn(ms, n)
    BY SeenAppend
  <2>2. Ended(t, "prompted") = Ended(ms, "acting")
    BY <1>1 DEF Ended
  <2> QED
    BY <2>1, <2>2 DEF Recorded
<1>6. PromptWithin(t, Len(t)) /\ RepliesUpTo(t, Len(t), Turns(t) - 1)
  <2>1. PromptWithin(ms, Len(ms)) /\ RepliesUpTo(ms, Len(ms), Turns(ms) - 1)
    BY DEF Recorded
  <2>2. PICK p \in 1..Len(ms) : /\ ms[p] = [kind |-> "user", turn |-> Turns(ms)]
                                /\ \A i \in (p + 1)..Len(ms) : ms[i].kind \in {"call", "tool"}
    BY <2>1 DEF PromptWithin
  <2>3. p \in 1..Len(t) /\ t[p] = [kind |-> "user", turn |-> Turns(t)]
    BY <1>1, <1>2, <2>2
  <2>4. ASSUME NEW i \in (p + 1)..Len(t) PROVE t[i].kind \in {"call", "tool"}
    <3>1. CASE i = Len(ms) + 1
      BY <1>2, <3>1
    <3>2. CASE i # Len(ms) + 1
      <4>1. i \in (p + 1)..Len(ms) /\ i \in 1..Len(ms)
        BY <1>2, <2>4, <3>2
      <4> HIDE DEF t
      <4> QED
        BY <1>2, <2>2, <4>1
    <3> QED
      BY <3>1, <3>2
  <2>5. PromptWithin(t, Len(t))
    BY <2>3, <2>4 DEF PromptWithin
  <2>6. ASSUME NEW i \in 1..Len(t), t[i].kind = "reply" PROVE t[i].turn <= Turns(t) - 1
    <3>1. i # Len(ms) + 1
      BY <1>2, <2>6
    <3>2. i \in 1..Len(ms) /\ t[i] = ms[i]
      BY <1>2, <3>1
    <3> QED
      BY <1>1, <2>1, <2>6, <3>2 DEF RepliesUpTo
  <2>7. RepliesUpTo(t, Len(t), Turns(t) - 1)
    BY <2>6 DEF RepliesUpTo
  <2> QED
    BY <2>5, <2>7
<1> HIDE DEF t
<1> QED
  BY <1>3, <1>4, <1>5, <1>6 DEF Recorded, t

\* The message of the model that a capture finds, behind the prompt and the
\* tool traffic.
LEMMA AfterModelKeeps ==
    ASSUME NEW ms \in Seq(Message), NEW cursor, NEW tk, NEW jr \in Seq(Message),
           tk \in Seq(Exchange),
           Recorded(ms, "answered", cursor, tk, jr)
    PROVE  LET seen == SubSeq(ms, 1, cursor)
               new  == IF cursor <= Len(ms) THEN SubSeq(ms, cursor + 1, Len(ms)) ELSE <<>>
           IN /\ new # <<>>
              /\ Visible(Trigger(seen), new) \in Seq(Exchange)
              /\ LogEntries(seen, new) \in Seq(Message)
              /\ Recorded(ms, IF Last(ms).kind = "call" THEN "acting" ELSE "idle", 0,
                      tk \o Visible(Trigger(seen), new), jr \o LogEntries(seen, new))
<1> DEFINE seen == SubSeq(ms, 1, cursor)
           new  == IF cursor <= Len(ms) THEN SubSeq(ms, cursor + 1, Len(ms)) ELSE <<>>
           last == ms[Len(ms)]
           turn == Turns(ms)
<1>1. /\ cursor = Len(ms) - 1 /\ Len(ms) \in Nat /\ Len(ms) >= 1 /\ cursor \in Nat
      /\ PromptWithin(ms, cursor) /\ RepliesUpTo(ms, cursor, turn - 1)
  BY DEF Recorded
<1>2. PICK kind \in {"call", "reply", "failed"} : last = [kind |-> kind, turn |-> turn]
  BY DEF Recorded
<1>3. PICK p \in 1..cursor : /\ ms[p] = [kind |-> "user", turn |-> turn]
                            /\ \A i \in (p + 1)..cursor : ms[i].kind \in {"call", "tool"}
  BY <1>1 DEF PromptWithin
<1>4. turn \in Nat /\ turn \in 1..MaxTurns /\ last \in Message /\ last.turn = turn /\ last.kind = kind
  <2>1. turn \in Nat
    BY ThereFinite DEF Turns
  <2>2. ms[p] \in Message
    BY <1>1, <1>3
  <2> QED
    BY <1>1, <1>2, <1>3, <2>1, <2>2 DEF Message
<1>5. new = <<last>>
  <2>1. new = SubSeq(ms, Len(ms), Len(ms))
    BY <1>1
  <2>2. \A i \in Len(ms)..Len(ms) : ms[i] \in Message
    BY <1>1
  <2>3. new \in Seq(Message) /\ Len(new) = 1 /\ \A i \in 1..1 : new[i] = ms[Len(ms) + i - 1]
    BY <1>1, <2>1, <2>2, SubSeqProperties
  <2> HIDE DEF new
  <2> QED
    BY <1>1, <2>3
<1>6. /\ seen \in Seq(Message) /\ Len(seen) = cursor /\ cursor >= 1
      /\ \A i \in 1..cursor : seen[i] = ms[i]
  <2>1. cursor >= 1
    BY <1>1, <1>3
  <2>2. \A i \in 1..cursor : ms[i] \in Message
    BY <1>1
  <2>3. seen \in Seq(Message) /\ Len(seen) = cursor /\ \A i \in 1..cursor : seen[i] = ms[1 + i - 1]
    BY <1>1, <2>1, <2>2, SubSeqProperties
  <2> HIDE DEF seen
  <2> QED
    BY <1>1, <2>1, <2>3
<1>7. Trigger(seen) = <<turn>>
  <2> DEFINE stops == {i \in 1..Len(seen) : seen[i].kind \in {"user", "reply", "failed"}}
             top   == CHOOSE i \in stops : \A j \in stops : j <= i
  <2>1. p \in stops /\ \A j \in stops : j <= p
    <3>1. p \in stops
      BY <1>3, <1>6
    <3>2. ASSUME NEW j \in stops PROVE j <= p
      <4>1. j \in 1..cursor /\ ms[j].kind \in {"user", "reply", "failed"}
        BY <1>6, <3>2
      <4>2. j \notin (p + 1)..cursor
        BY <1>3, <4>1
      <4> QED
        BY <1>1, <1>3, <4>1, <4>2
    <3> QED
      BY <3>1, <3>2
  <2>2. stops \subseteq Nat
    BY <1>1, <1>6
  <2>3. top = p
    <3>1. top \in stops /\ \A j \in stops : j <= top
      BY <2>1
    <3> HIDE DEF top, stops
    <3> QED
      BY <2>1, <2>2, <3>1
  <2>4. Trigger(seen) = IF stops # {} /\ seen[top].kind = "user" THEN <<seen[top].turn>> ELSE <<>>
    BY DEF Trigger
  <2>5. stops # {}
    BY <2>1
  <2> HIDE DEF top, stops, seen
  <2> QED
    BY <1>3, <1>6, <2>3, <2>4, <2>5
<1>8. \A kinds : OfKind(<<last>>, kinds) = IF kind \in kinds THEN <<last>> ELSE <<>>
  <2> TAKE kinds
  <2>1. <<last>> = Append(<<>>, last) /\ <<>> \in Seq(Message)
    OBVIOUS
  <2>2. OfKind(<<>>, kinds) = <<>> /\ Ranked(<<>>, kinds)
    BY OfKindEmpty
  <2> HIDE DEF last
  <2>3. OfKind(Append(<<>>, last), kinds) = IF last.kind \in kinds THEN Append(<<>>, last) ELSE <<>>
    BY <1>4, <2>1, <2>2, OfKindAppend
  <2> QED
    BY <1>4, <2>1, <2>3
<1>9. LogEntries(seen, new) = Unlogged(ms, "answered") /\ Unlogged(ms, "answered") \in Seq(Message)
  <2> DEFINE q   == ms[cursor]
             all == IF seen # <<>> /\ Last(seen).kind = "user" THEN <<Last(seen)>> \o new ELSE new
             asks == OfKind(all, {"user"})
             says == OfKind(all, {"call", "reply", "failed"})
  <2>1. q \in Message /\ seen # <<>> /\ Last(seen) = q
    <3>1. Last(seen) = seen[Len(seen)]
      BY DEF Last
    <3> HIDE DEF seen
    <3> QED
      BY <1>1, <1>6, <3>1
  <2>2. LogEntries(seen, new) = (IF asks = <<>> THEN <<>> ELSE <<Head(asks)>>)
                                \o (IF says = <<>> THEN <<>> ELSE <<Last(says)>>)
    BY DEF LogEntries
  <2>3. Unlogged(ms, "answered") = PromptAt(ms, cursor) \o <<last>>
    BY <1>1 DEF Unlogged
  <2>4. CASE q.kind = "user"
    <3>1. all = <<q>> \o <<last>>
      BY <1>5, <2>1, <2>4
    <3>2. <<q>> \o <<last>> = Append(<<q>>, last) /\ <<q>> = Append(<<>>, q) /\ <<>> \in Seq(Message)
      OBVIOUS
    <3> HIDE DEF q, last, all
    <3>3. ASSUME NEW kinds PROVE /\ OfKind(<<q>>, kinds) = IF q.kind \in kinds THEN <<q>> ELSE <<>>
                                 /\ Ranked(<<q>>, kinds)
      <4>1. OfKind(<<>>, kinds) = <<>> /\ Ranked(<<>>, kinds)
        BY OfKindEmpty
      <4> DEFINE none == <<>>
      <4>4. none \in Seq(Message) /\ OfKind(none, kinds) = none /\ Ranked(none, kinds)
        BY <4>1, <3>2
      <4> HIDE DEF none
      <4>5. OfKind(Append(none, q), kinds) = IF q.kind \in kinds THEN Append(OfKind(none, kinds), q) ELSE OfKind(none, kinds)
        BY <2>1, <4>4, OfKindAppend
      <4>2. OfKind(Append(<<>>, q), kinds) = IF q.kind \in kinds THEN Append(<<>>, q) ELSE <<>>
        BY <4>4, <4>5 DEF none
      <4>3. Ranked(Append(<<>>, q), kinds)
        BY <2>1, <3>2, <4>1, RankedAppend
      <4> QED
        BY <3>2, <4>2, <4>3
    <3>4. ASSUME NEW kinds
          PROVE  OfKind(all, kinds) = IF last.kind \in kinds THEN Append(OfKind(<<q>>, kinds), last)
                                      ELSE OfKind(<<q>>, kinds)
      <4>1. <<q>> \in Seq(Message)
        BY <2>1
      <4>2. Ranked(<<q>>, kinds) /\ all = Append(<<q>>, last)
        BY <3>1, <3>2, <3>3
      <4>3. OfKind(Append(<<q>>, last), kinds) = IF last.kind \in kinds THEN Append(OfKind(<<q>>, kinds), last)
                                                ELSE OfKind(<<q>>, kinds)
        BY <1>4, <4>1, <4>2, OfKindAppend
      <4> QED
        BY <4>2, <4>3
    <3>5. asks = <<q>>
      BY <1>4, <2>4, <3>3, <3>4
    <3>6. says = <<last>>
      <4>1. OfKind(<<q>>, {"call", "reply", "failed"}) = <<>>
        BY <2>4, <3>3
      <4>2. says = Append(<<>>, last)
        BY <1>4, <3>4, <4>1
      <4> QED
        BY <4>2
    <3>7. PromptAt(ms, cursor) = <<q>>
      BY <2>4 DEF PromptAt, q
    <3>8. LogEntries(seen, new) = <<q>> \o <<last>>
      <4> HIDE DEF asks, says
      <4>1. Head(asks) = q /\ asks # <<>> /\ says # <<>> /\ Last(says) = last
        BY <3>5, <3>6 DEF Last
      <4> QED
        BY <2>2, <4>1
    <3>9. <<q>> \o <<last>> \in Seq(Message)
      BY <1>4, <2>1
    <3> HIDE DEF seen, new
    <3> QED
      BY <2>3, <3>7, <3>8, <3>9
  <2>5. CASE q.kind # "user"
    <3>1. all = <<last>>
      BY <1>5, <2>1, <2>5
    <3> HIDE DEF q, last, all
    <3>5. asks = <<>> /\ says = <<last>>
      BY <1>4, <1>8, <3>1
    <3>7. PromptAt(ms, cursor) = <<>>
      BY <2>5 DEF PromptAt, q
    <3>8. LogEntries(seen, new) = <<>> \o <<last>>
      <4> HIDE DEF asks, says
      <4>1. asks = <<>> /\ says # <<>> /\ Last(says) = last
        BY <3>5 DEF Last
      <4> QED
        BY <2>2, <4>1
    <3>9. <<>> \o <<last>> \in Seq(Message)
      BY <1>4
    <3> HIDE DEF seen, new
    <3> QED
      BY <2>3, <3>7, <3>8, <3>9
  <2> QED
    BY <2>4, <2>5
<1>10. Visible(<<turn>>, <<last>>)
         = IF kind = "call" THEN <<>>
           ELSE <<[users |-> <<turn>>, reply |-> IF kind = "reply" THEN turn ELSE 0]>>
  <2> DEFINE texts == OfKind(<<last>>, {"reply", "failed"})
             users == OfKind(<<last>>, {"user"})
             prompt == <<turn>> \o [i \in 1..Len(users) |-> users[i].turn]
             failed == texts # <<>> /\ Last(texts).kind = "failed"
             reply  == IF texts # <<>> /\ ~failed THEN Last(texts).turn ELSE 0
             nothing == prompt = <<>> \/ (<<turn>> # <<>> /\ Len(prompt) = 1 /\ ~failed)
  <2>1. Visible(<<turn>>, <<last>>)
          = IF reply = 0 /\ nothing THEN <<>> ELSE <<[users |-> prompt, reply |-> reply]>>
    BY DEF Visible
  <2>2. users = <<>> /\ texts = IF kind = "call" THEN <<>> ELSE <<last>>
    BY <1>8
  <2>3. prompt = <<turn>>
    <3>1. [i \in 1..Len(users) |-> users[i].turn] = <<>>
      BY <2>2
    <3> HIDE DEF users, turn
    <3>2. <<turn>> \o <<>> = <<turn>>
      OBVIOUS
    <3> QED
      BY <3>1, <3>2
  <2>4. kind # "call" => texts # <<>> /\ Last(texts) = last
    <3> HIDE DEF texts, last
    <3> QED
      BY <2>2 DEF Last
  <2>5. failed <=> kind = "failed"
    <3> HIDE DEF texts, last
    <3> QED
      BY <1>4, <2>2, <2>4
  <2>6. reply = IF kind = "reply" THEN turn ELSE 0
    <3> HIDE DEF texts, last, failed
    <3> QED
      BY <1>4, <2>2, <2>4, <2>5
  <2>7. nothing <=> kind # "failed"
    <3> HIDE DEF prompt, failed, turn
    <3> QED
      BY <2>3, <2>5
  <2>8. (reply = 0 /\ nothing) <=> kind = "call"
    <3> HIDE DEF reply, nothing, turn
    <3> QED
      BY <1>4, <2>6, <2>7
  <2> HIDE DEF reply, nothing, prompt, turn
  <2> QED
    BY <2>1, <2>3, <2>6, <2>8
<1> DEFINE next == IF kind = "call" THEN "acting" ELSE "idle"
           exchange == [users |-> <<turn>>, reply |-> IF kind = "reply" THEN turn ELSE 0]
<1>11. (IF Last(ms).kind = "call" THEN "acting" ELSE "idle") = next
  BY <1>4 DEF Last
<1>12. exchange \in Exchange /\ exchange = SeenIn(ms, turn)
  <2>1. (\E i \in 1..Len(ms) : ms[i] = [kind |-> "reply", turn |-> turn]) <=> kind = "reply"
    <3>1. ASSUME NEW i \in 1..Len(ms), ms[i] = [kind |-> "reply", turn |-> turn] PROVE kind = "reply"
      <4>1. i \notin 1..cursor
        BY <1>1, <1>4, <3>1 DEF RepliesUpTo
      <4>2. i = Len(ms)
        BY <1>1, <4>1
      <4> QED
        BY <1>4, <3>1, <4>2
    <3>2. ASSUME kind = "reply" PROVE \E i \in 1..Len(ms) : ms[i] = [kind |-> "reply", turn |-> turn]
      BY <1>1, <1>2, <3>2
    <3> QED
      BY <3>1, <3>2
  <2>2. <<turn>> \in Seq(1..MaxTurns)
    BY <1>4
  <2>3. MaxTurns \in Nat
    BY CaptureAssumption
  <2> HIDE DEF turn
  <2>4. exchange \in Exchange
    BY <1>4, <2>2, <2>3 DEF Exchange
  <2> QED
    BY <2>1, <2>4 DEF SeenIn
<1>13. tk = [n \in 1..(turn - 1) |-> SeenIn(ms, n)]
  BY DEF Recorded, Ended
<1>14. /\ Visible(<<turn>>, <<last>>) \in Seq(Exchange)
       /\ tk \o Visible(<<turn>>, <<last>>) = [n \in 1..Ended(ms, next) |-> SeenIn(ms, n)]
  <2>1. CASE kind = "call"
    <3>1. Visible(<<turn>>, <<last>>) = <<>> /\ Ended(ms, next) = turn - 1
      BY <1>10, <2>1 DEF Ended
    <3>2. tk \o <<>> = tk
      BY ConcatEmptySeq
    <3> HIDE DEF turn, last, next
    <3>3. <<>> \in Seq(Exchange)
      OBVIOUS
    <3> QED
      BY <1>13, <3>1, <3>2, <3>3
  <2>2. CASE kind # "call"
    <3>1. Visible(<<turn>>, <<last>>) = <<exchange>> /\ Ended(ms, next) = turn
      BY <1>10, <2>2 DEF Ended
    <3> HIDE DEF exchange, turn, last
    <3>2. tk \o <<exchange>> = Append(tk, exchange)
      BY <1>12, AppendIsConcat
    <3>3. Len(tk) = turn - 1
      BY <1>4, <1>13
    <3>7. /\ Append(tk, exchange) \in Seq(Exchange) /\ Len(Append(tk, exchange)) = turn
          /\ Append(tk, exchange)[turn] = exchange
          /\ \A n \in 1..(turn - 1) : Append(tk, exchange)[n] = tk[n]
      BY <1>4, <1>12, <3>3, AppendProperties
    <3>4. Append(tk, exchange) = [n \in 1..turn |-> IF n = turn THEN exchange ELSE tk[n]]
      <4> DEFINE longer == Append(tk, exchange)
      <4>1. longer \in Seq(Exchange) /\ Len(longer) = turn
        BY <3>7
      <4>2. \A n \in 1..turn : longer[n] = IF n = turn THEN exchange ELSE tk[n]
        BY <1>4, <3>7
      <4> HIDE DEF longer
      <4>3. longer = [n \in 1..turn |-> longer[n]]
        BY <4>1
      <4> QED
        BY <4>2, <4>3 DEF longer
    <3>5. \A n \in 1..turn : (IF n = turn THEN exchange ELSE tk[n]) = SeenIn(ms, n)
      BY <1>4, <1>12, <1>13
    <3>6. Append(tk, exchange) = [n \in 1..turn |-> SeenIn(ms, n)]
      BY <3>4, <3>5
    <3> HIDE DEF next
    <3>8. <<exchange>> \in Seq(Exchange)
      BY <1>12
    <3>9. tk \o Visible(<<turn>>, <<last>>) = [n \in 1..Ended(ms, next) |-> SeenIn(ms, n)]
      BY <3>1, <3>2, <3>6
    <3> QED
      BY <3>1, <3>8, <3>9
  <2> QED
    BY <2>1, <2>2
<1>15. OfKind(ms, Spoken) = (jr \o LogEntries(seen, new)) \o Unlogged(ms, next)
  <2>1. Unlogged(ms, next) = <<>>
    BY DEF Unlogged
  <2>2. OfKind(ms, Spoken) = jr \o LogEntries(seen, new)
    BY <1>9 DEF Recorded
  <2>3. jr \o LogEntries(seen, new) \in Seq(Message)
    BY <1>9, ConcatProperties
  <2>4. (jr \o LogEntries(seen, new)) \o <<>> = jr \o LogEntries(seen, new)
    BY <2>3, ConcatEmptySeq
  <2> QED
    BY <2>1, <2>2, <2>4
<1>16. next = "idle" => RepliesUpTo(ms, Len(ms), turn)
  <2> SUFFICES ASSUME NEW i \in 1..Len(ms), ms[i].kind = "reply" PROVE ms[i].turn <= turn
    BY DEF RepliesUpTo
  <2>1. CASE i \in 1..cursor
    <3>1. ms[i].turn <= turn - 1
      BY <1>1, <2>1 DEF RepliesUpTo
    <3>2. ms[i].turn \in 1..MaxTurns /\ MaxTurns \in Nat
      <4>1. ms[i] \in Message
        OBVIOUS
      <4> QED
        BY <4>1, CaptureAssumption DEF Message
    <3> HIDE DEF turn
    <3> QED
      BY <1>4, <3>1, <3>2
  <2>2. CASE i \notin 1..cursor
    <3>1. i = Len(ms)
      BY <1>1, <2>2
    <3> QED
      BY <1>4, <3>1
  <2> QED
    BY <2>1, <2>2
<1>17. next = "acting" => PromptWithin(ms, Len(ms)) /\ RepliesUpTo(ms, Len(ms), turn - 1)
  <2> SUFFICES ASSUME kind = "call" PROVE PromptWithin(ms, Len(ms)) /\ RepliesUpTo(ms, Len(ms), turn - 1)
    OBVIOUS
  <2>1. \A i \in (p + 1)..Len(ms) : ms[i].kind \in {"call", "tool"}
    BY <1>1, <1>3, <1>4
  <2>2. PromptWithin(ms, Len(ms))
    BY <1>1, <1>3, <2>1 DEF PromptWithin
  <2>3. RepliesUpTo(ms, Len(ms), turn - 1)
    BY <1>1, <1>4 DEF RepliesUpTo
  <2> QED
    BY <2>2, <2>3
<1>18. /\ Visible(Trigger(seen), new) = Visible(<<turn>>, <<last>>)
       /\ LogEntries(seen, new) \in Seq(Message) /\ new # <<>> /\ next \in {"acting", "idle"}
  <2>1. <<last>> # <<>>
    OBVIOUS
  <2> HIDE DEF seen, new, last, turn
  <2> QED
    BY <1>5, <1>7, <1>9, <2>1
<1>19. Ranked(ms, Spoken)
  BY DEF Recorded
<1> HIDE DEF seen, new, last, turn, next
<1>20. Recorded(ms, next, 0, tk \o Visible(Trigger(seen), new), jr \o LogEntries(seen, new))
  BY <1>14, <1>15, <1>16, <1>17, <1>18, <1>19 DEF Recorded, turn
<1> QED
  BY <1>11, <1>14, <1>18, <1>20 DEF seen, new

-----------------------------------------------------------------------------
(***************************************************************************)
(* The inductive invariant.                                                *)
(***************************************************************************)

\* What is known of a conversation that has not been mixed up: nothing is
\* said of the others, and nothing of the notes of those between two model calls.
ChatTypes(c) == messages[c] \in Seq(Message) /\ taken[c] \in Seq(Exchange) /\ journal[c] \in Seq(Message)
ChatKeeps(c) == ChatTypes(c) /\ Recorded(messages[c], phase[c], cursors[WorkerOf[c]], taken[c], journal[c])

Tables ==
    /\ DOMAIN messages = Chats /\ DOMAIN phase = Chats /\ DOMAIN taken = Chats /\ DOMAIN journal = Chats
    /\ DOMAIN cursors = Workers

CaptureInv == Tables /\ \A c \in Chats \ mixed : ChatKeeps(c)

LEMMA CaptureStarts == CaptureInit => CaptureInv
<1> SUFFICES ASSUME CaptureInit PROVE CaptureInv
  OBVIOUS
<1>1. Tables
  BY DEF CaptureInit, Tables
<1>2. Recorded(<<>>, "idle", 0, <<>>, <<>>)
  <2>1. Turns(<<>>) = 0
    BY OfKindEmpty, FS_EmptySet DEF Turns
  <2>2. Ranked(<<>>, Spoken) /\ OfKind(<<>>, Spoken) = <<>>
    BY OfKindEmpty
  <2>3. Unlogged(<<>>, "idle") = <<>> /\ <<>> \o <<>> = <<>>
    BY DEF Unlogged
  <2>4. <<>> = [n \in 1..Ended(<<>>, "idle") |-> SeenIn(<<>>, n)]
    BY <2>1 DEF Ended
  <2>5. RepliesUpTo(<<>>, Len(<<>>), Turns(<<>>))
    BY DEF RepliesUpTo
  <2> QED
    BY <2>2, <2>3, <2>4, <2>5 DEF Recorded
<1>3. <<>> \in Seq(Message) /\ <<>> \in Seq(Exchange)
  OBVIOUS
<1>4. \A c \in Chats : ChatKeeps(c)
  BY <1>2, <1>3, CaptureAssumption DEF CaptureInit, ChatKeeps, ChatTypes
<1> QED
  BY <1>1, <1>4 DEF CaptureInv

LEMMA TurnNoIs ==
    ASSUME NEW c \in Chats, messages[c] \in Seq(Message)
    PROVE  TurnNo(c) = Turns(messages[c])
BY OfKindLen DEF TurnNo, Turns

\* The note counts between the hooks around a model call only.
LEMMA AnyNote ==
    ASSUME NEW ms, NEW ph, NEW tk, NEW jr, NEW old, NEW new,
           Recorded(ms, ph, old, tk, jr), ph \notin {"thinking", "answered"}
    PROVE  Recorded(ms, ph, new, tk, jr)
BY DEF Recorded

\* A step of one conversation: the others keep what they have, but for the note
\* of those that share its thread.
LEMMA OneKeeps ==
    ASSUME CaptureInv, Tables', NEW c \in Chats,
           \A d \in Chats \ {c} :
             messages'[d] = messages[d] /\ phase'[d] = phase[d] /\ taken'[d] = taken[d] /\ journal'[d] = journal[d],
           mixed \subseteq mixed',
           \A d \in Chats \ (mixed' \cup {c}) :
             cursors'[WorkerOf[d]] = cursors[WorkerOf[d]] \/ phase[d] \notin {"thinking", "answered"},
           c \notin mixed => ChatKeeps(c)'
    PROVE  CaptureInv'
<1>1. ASSUME NEW d \in Chats \ (mixed' \cup {c}) PROVE ChatKeeps(d)'
  <2>1. ChatTypes(d)' /\ Recorded(messages[d], phase[d], cursors[WorkerOf[d]], taken[d], journal[d])
    BY <1>1 DEF CaptureInv, ChatKeeps, ChatTypes
  <2>2. Recorded(messages[d], phase[d], cursors'[WorkerOf[d]], taken[d], journal[d])
    <3>1. CASE cursors'[WorkerOf[d]] = cursors[WorkerOf[d]]
      BY <2>1, <3>1
    <3>2. CASE phase[d] \notin {"thinking", "answered"}
      BY <2>1, <3>2, AnyNote
    <3> QED
      BY <1>1, <3>1, <3>2
  <2> QED
    BY <1>1, <2>1, <2>2 DEF ChatKeeps
<1>2. c \notin mixed' => ChatKeeps(c)'
  OBVIOUS
<1>3. \A d \in Chats \ mixed' : ChatKeeps(d)'
  <2>1. \A d \in Chats \ mixed' : d = c \/ d \in Chats \ (mixed' \cup {c})
    OBVIOUS
  <2> QED
    BY <1>1, <1>2, <2>1
<1> QED
  BY <1>3 DEF CaptureInv

\* A conversation's message more, its phase after that, and no other change.
LEMMA SpeakKeeps ==
    ASSUME CaptureInv, NEW c \in Chats, NEW m, NEW ph,
           messages' = [messages EXCEPT ![c] = Append(@, m)], phase' = [phase EXCEPT ![c] = ph],
           UNCHANGED <<cursors, taken, journal, mixed>>,
           c \notin mixed => /\ m \in Message
                             /\ Recorded(Append(messages[c], m), ph, cursors[WorkerOf[c]], taken[c], journal[c])
    PROVE  CaptureInv'
<1>1. Tables /\ Tables'
  BY DEF CaptureInv, Tables
<1>2. \A d \in Chats \ {c} :
          messages'[d] = messages[d] /\ phase'[d] = phase[d] /\ taken'[d] = taken[d] /\ journal'[d] = journal[d]
  BY <1>1 DEF Tables
<1>3. messages'[c] = Append(messages[c], m) /\ phase'[c] = ph
  BY <1>1 DEF Tables
<1>4. ASSUME c \notin mixed PROVE ChatKeeps(c)'
  <2>1. ChatTypes(c)
    BY <1>4 DEF CaptureInv, ChatKeeps
  <2>2. Append(messages[c], m) \in Seq(Message)
    BY <1>4, <2>1 DEF ChatTypes
  <2>3. ChatTypes(c)'
    BY <1>3, <2>1, <2>2 DEF ChatTypes
  <2> QED
    BY <1>3, <1>4, <2>3 DEF ChatKeeps
<1> QED
  BY <1>1, <1>2, <1>4, OneKeeps

\* The prompt of the latest turn has its number.
LEMMA TurnIsNumber ==
    ASSUME NEW ms \in Seq(Message), NEW n \in Nat, n <= Len(ms), PromptWithin(ms, n)
    PROVE  Turns(ms) \in 1..MaxTurns
<1>1. PICK p \in 1..n : ms[p] = [kind |-> "user", turn |-> Turns(ms)]
  BY DEF PromptWithin
<1>2. ms[p] \in Message
  OBVIOUS
<1> QED
  BY <1>1, <1>2 DEF Message

LEMMA CaptureStep == CaptureInv /\ [CaptureNext]_captureVars => CaptureInv'
<1> SUFFICES ASSUME CaptureInv, [CaptureNext]_captureVars PROVE CaptureInv'
  OBVIOUS
<1>0. Tables /\ \A c \in Chats : c \notin mixed => ChatKeeps(c) /\ ChatTypes(c)
  BY DEF CaptureInv, ChatKeeps
<1>w. \A c \in Chats : WorkerOf[c] \in Workers
  BY CaptureAssumption
<1>1. ASSUME NEW c \in Chats, Prompt(c) PROVE CaptureInv'
  <2> DEFINE ms == messages[c]
             m  == [kind |-> "user", turn |-> TurnNo(c) + 1]
  <2>1. ASSUME c \notin mixed
        PROVE  m \in Message /\ Recorded(Append(ms, m), "prompted", cursors[WorkerOf[c]], taken[c], journal[c])
    <3>1. ms \in Seq(Message) /\ journal[c] \in Seq(Message) /\ Turns(ms) \in Nat /\ TurnNo(c) = Turns(ms)
      BY <1>0, <2>1, TurnsAppend, ThereFinite, TurnNoIs DEF ChatTypes, Turns
    <3>2. TurnNo(c) + 1 \in 1..MaxTurns
      BY <1>1, <3>1, CaptureAssumption DEF Prompt
    <3>3. m \in Message
      BY <3>2 DEF Message, Kinds
    <3>4. Recorded(ms, "idle", cursors[WorkerOf[c]], taken[c], journal[c])
      BY <1>0, <1>1, <2>1 DEF ChatKeeps, Prompt
    <3> HIDE DEF ms
    <3>5. m = [kind |-> "user", turn |-> Turns(ms) + 1]
      BY <3>1
    <3> HIDE DEF m
    <3> QED
      BY <3>1, <3>3, <3>4, <3>5, PromptKeeps
  <2>2. /\ messages' = [messages EXCEPT ![c] = Append(@, m)] /\ phase' = [phase EXCEPT ![c] = "prompted"]
        /\ UNCHANGED <<cursors, taken, journal, mixed>>
    BY <1>1 DEF Prompt, Enter
  <2> HIDE DEF m
  <2> QED
    BY <2>1, <2>2, SpeakKeeps
<1>2. ASSUME NEW c \in Chats, BeforeModel(c) PROVE CaptureInv'
  <2>1. /\ Tables' /\ mixed \subseteq mixed'
        /\ \A d \in Chats \ {c} :
             messages'[d] = messages[d] /\ phase'[d] = phase[d] /\ taken'[d] = taken[d] /\ journal'[d] = journal[d]
        /\ messages' = messages /\ taken' = taken /\ journal' = journal /\ phase'[c] = "thinking"
        /\ cursors'[WorkerOf[c]] = Len(messages[c])
    BY <1>0, <1>2, <1>w DEF Tables, BeforeModel, Enter
  <2>2. \A d \in Chats \ (mixed' \cup {c}) :
          cursors'[WorkerOf[d]] = cursors[WorkerOf[d]] \/ phase[d] \notin {"thinking", "answered"}
    BY <1>0, <1>2, <1>w DEF Tables, BeforeModel, Disturbed
  <2>3. ASSUME c \notin mixed PROVE ChatKeeps(c)'
    <3>1. ChatTypes(c) /\ Recorded(messages[c], "prompted", cursors[WorkerOf[c]], taken[c], journal[c])
      BY <1>0, <1>2, <2>3 DEF ChatKeeps, BeforeModel
    <3>2. Recorded(messages[c], "thinking", Len(messages[c]), taken[c], journal[c])
      BY <3>1, BeforeModelKeeps DEF ChatTypes
    <3> QED
      BY <2>1, <3>1, <3>2 DEF ChatKeeps, ChatTypes
  <2> QED
    BY <2>1, <2>2, <2>3, OneKeeps
<1>3. ASSUME NEW c \in Chats, ModelAnswers(c) PROVE CaptureInv'
  <2>1. PICK kind \in {"call", "reply", "failed"} : Says(c, kind)
    BY <1>3 DEF ModelAnswers
  <2> DEFINE ms == messages[c]
             m  == [kind |-> kind, turn |-> TurnNo(c)]
  <2>2. ASSUME c \notin mixed
        PROVE  m \in Message /\ Recorded(Append(ms, m), "answered", cursors[WorkerOf[c]], taken[c], journal[c])
    <3>1. ms \in Seq(Message) /\ journal[c] \in Seq(Message) /\ Len(ms) \in Nat
      BY <1>0, <2>2 DEF ChatTypes
    <3>2. Recorded(ms, "thinking", Len(ms), taken[c], journal[c]) /\ cursors[WorkerOf[c]] = Len(ms)
      BY <1>0, <1>3, <2>2 DEF ChatKeeps, ModelAnswers, Recorded
    <3>3. Turns(ms) \in 1..MaxTurns /\ TurnNo(c) = Turns(ms)
      BY <3>1, <3>2, TurnIsNumber, TurnNoIs DEF Recorded
    <3>4. m \in Message /\ m = [kind |-> kind, turn |-> Turns(ms)]
      BY <3>3 DEF Message, Kinds
    <3> HIDE DEF m, ms
    <3> QED
      BY <3>1, <3>2, <3>4, ModelAnswersKeeps
  <2>3. /\ messages' = [messages EXCEPT ![c] = Append(@, m)] /\ phase' = [phase EXCEPT ![c] = "answered"]
        /\ UNCHANGED <<cursors, taken, journal, mixed>>
    BY <1>3, <2>1 DEF ModelAnswers, Says, Enter
  <2> HIDE DEF m
  <2> QED
    BY <2>2, <2>3, SpeakKeeps
<1>4. ASSUME NEW c \in Chats, ToolsAnswer(c) PROVE CaptureInv'
  <2> DEFINE ms == messages[c]
             m  == [kind |-> "tool", turn |-> TurnNo(c)]
  <2>1. ASSUME c \notin mixed
        PROVE  m \in Message /\ Recorded(Append(ms, m), "prompted", cursors[WorkerOf[c]], taken[c], journal[c])
    <3>1. ms \in Seq(Message) /\ journal[c] \in Seq(Message) /\ Len(ms) \in Nat
      BY <1>0, <2>1 DEF ChatTypes
    <3>2. Recorded(ms, "acting", cursors[WorkerOf[c]], taken[c], journal[c])
      BY <1>0, <1>4, <2>1 DEF ChatKeeps, ToolsAnswer
    <3>3. Turns(ms) \in 1..MaxTurns /\ TurnNo(c) = Turns(ms)
      BY <3>1, <3>2, TurnIsNumber, TurnNoIs DEF Recorded
    <3>4. m \in Message /\ m = [kind |-> "tool", turn |-> Turns(ms)]
      BY <3>3 DEF Message, Kinds
    <3> HIDE DEF m, ms
    <3> QED
      BY <3>1, <3>2, <3>4, ToolsAnswerKeeps
  <2>2. /\ messages' = [messages EXCEPT ![c] = Append(@, m)] /\ phase' = [phase EXCEPT ![c] = "prompted"]
        /\ UNCHANGED <<cursors, taken, journal, mixed>>
    BY <1>4 DEF ToolsAnswer, Says, Enter
  <2> HIDE DEF m
  <2> QED
    BY <2>1, <2>2, SpeakKeeps
<1>5. ASSUME NEW c \in Chats, AfterModel(c) PROVE CaptureInv'
  <2> DEFINE ms == messages[c]
             cursor == cursors[WorkerOf[c]]
             seen == SubSeq(ms, 1, cursor)
             new  == IF cursor <= Len(ms) THEN SubSeq(ms, cursor + 1, Len(ms)) ELSE <<>>
             tk == taken[c] \o Visible(Trigger(seen), new)
             jr == journal[c] \o LogEntries(seen, new)
             ph == IF Last(ms).kind = "call" THEN "acting" ELSE "idle"
  <2>1. /\ messages' = messages /\ phase' = [phase EXCEPT ![c] = ph]
        /\ cursors' = [cursors EXCEPT ![WorkerOf[c]] = 0] /\ mixed' = mixed \cup Disturbed(c)
        /\ \/ new = <<>> /\ UNCHANGED <<taken, journal>>
           \/ new # <<>> /\ taken' = [taken EXCEPT ![c] = tk] /\ journal' = [journal EXCEPT ![c] = jr]
    <3> HIDE DEF seen, new
    <3> QED
      BY <1>5 DEF AfterModel, Enter, seen, new
  <2>2. ASSUME c \notin mixed
        PROVE  /\ new # <<>> /\ tk \in Seq(Exchange) /\ jr \in Seq(Message) /\ ms \in Seq(Message)
               /\ Recorded(ms, ph, 0, tk, jr)
    <3>1. ms \in Seq(Message) /\ journal[c] \in Seq(Message) /\ taken[c] \in Seq(Exchange)
      BY <1>0, <2>2 DEF ChatTypes
    <3>2. Recorded(ms, "answered", cursor, taken[c], journal[c])
      BY <1>0, <1>5, <2>2 DEF ChatKeeps, AfterModel
    <3>3. /\ new # <<>> /\ Visible(Trigger(seen), new) \in Seq(Exchange)
          /\ LogEntries(seen, new) \in Seq(Message)
          /\ Recorded(ms, ph, 0, tk, jr)
      BY <3>1, <3>2, AfterModelKeeps
    <3>4. tk \in Seq(Exchange) /\ jr \in Seq(Message)
      BY <3>1, <3>3, ConcatProperties
    <3> HIDE DEF tk, jr, ph, new
    <3> QED
      BY <3>1, <3>3, <3>4
  <2> HIDE DEF tk, jr, ph, seen, new
  <2>3. /\ Tables' /\ mixed \subseteq mixed' /\ cursors'[WorkerOf[c]] = 0 /\ phase'[c] = ph
        /\ \A d \in Chats \ {c} :
             messages'[d] = messages[d] /\ phase'[d] = phase[d] /\ taken'[d] = taken[d] /\ journal'[d] = journal[d]
        /\ new # <<>> => taken'[c] = tk /\ journal'[c] = jr
    BY <1>0, <1>w, <2>1 DEF Tables
  <2>4. \A d \in Chats \ (mixed' \cup {c}) :
          cursors'[WorkerOf[d]] = cursors[WorkerOf[d]] \/ phase[d] \notin {"thinking", "answered"}
    BY <1>0, <1>w, <2>1 DEF Tables, Disturbed
  <2>5. c \notin mixed => ChatKeeps(c)'
    BY <2>1, <2>2, <2>3 DEF ChatKeeps, ChatTypes
  <2> QED
    BY <2>3, <2>4, <2>5, OneKeeps
<1>6. ASSUME UNCHANGED captureVars PROVE CaptureInv'
  BY <1>6 DEF captureVars, CaptureInv, Tables, ChatKeeps, ChatTypes
<1> QED
  BY <1>1, <1>2, <1>3, <1>4, <1>5, <1>6 DEF CaptureNext

\* after_model hands every turn to the memory service once, the prompt with its
\* reply, and logs every prompt and every answer once: for any number of
\* conversations, turns and tool calls, and however they are spread over threads,
\* of each conversation that no other one came between, on its thread, while its
\* model was being called; whatever became of those that were mixed up.
THEOREM ConversationsAreKept == CaptureSpec => []ConversationsKept
<1>1. CaptureInv => ConversationsKept
  <2> SUFFICES ASSUME CaptureInv, NEW c \in Chats \ mixed
               PROVE  IsTaken(c) /\ IsLogged(c)
    BY DEF ConversationsKept
  <2>1. ChatTypes(c) /\ Recorded(messages[c], phase[c], cursors[WorkerOf[c]], taken[c], journal[c])
    BY DEF CaptureInv, ChatKeeps
  <2>2. TurnNo(c) = Turns(messages[c]) /\ \A n : Seen(c, n) = SeenIn(messages[c], n)
    BY <2>1, TurnNoIs DEF ChatTypes, Seen, SeenIn
  <2>3. IsTaken(c)
    BY <2>1, <2>2 DEF Recorded, Ended, IsTaken
  <2>4. journal[c] \o <<>> = journal[c]
    BY <2>1, ConcatEmptySeq DEF ChatTypes
  <2>5. IsLogged(c)
    BY <2>1, <2>4 DEF Recorded, Unlogged, Spoken, IsLogged
  <2> QED
    BY <2>3, <2>5
<1>2. CaptureInit => CaptureInv
  BY CaptureStarts
<1>3. CaptureInv /\ [CaptureNext]_captureVars => CaptureInv'
  BY CaptureStep
<1> QED
  BY <1>1, <1>2, <1>3, PTL DEF CaptureSpec
=============================================================================
