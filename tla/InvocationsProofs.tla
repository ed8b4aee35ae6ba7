-------------------------- MODULE InvocationsProofs --------------------------
(***************************************************************************)
(* Proofs about Invocations, for any number of streams, resumptions,       *)
(* threads and cancellations, and a host that lets an invocation return    *)
(* before it begins the next one on the thread.                            *)
(***************************************************************************)
EXTENDS Invocations, TLAPS

USE DEF Invs

LEMMA InvocationsTypeStep == InvTypeOK /\ [InvNext]_invVars => InvTypeOK'
<1> SUFFICES ASSUME InvTypeOK, [InvNext]_invVars PROVE InvTypeOK'
  OBVIOUS
<1> USE InvocationsAssumption DEF InvTypeOK, InvPCs, To, eventVars, scopeVars, invHostVars
<1>1. ASSUME NEW s \in Streams, StreamStep(s) PROVE InvTypeOK'
  <2>1. CASE Start(s)
    BY <2>1 DEF Start
  <2>2. CASE GraphPauses(s)
    BY <2>2 DEF GraphPauses
  <2>3. CASE ShowPause(s)
    BY <2>3 DEF ShowPause
  <2>4. CASE Preempt(s)
    BY <2>4 DEF Preempt
  <2>5. CASE Leave(s)
    BY <2>5 DEF Leave
  <2>6. CASE CloseStream(s)
    BY <2>6 DEF CloseStream
  <2> QED
    BY <1>1, <2>1, <2>2, <2>3, <2>4, <2>5, <2>6 DEF StreamStep
<1>2. ASSUME NEW r \in Resumes, ResumeStep(r) PROVE InvTypeOK'
  <2>1. CASE ResumeHitl(r)
    BY <2>1 DEF ResumeHitl
  <2>2. CASE PauseAgain(r)
    BY <2>2 DEF PauseAgain
  <2>3. CASE Abandon(r)
    BY <2>3 DEF Abandon
  <2>4. CASE Exhaust(r)
    BY <2>4 DEF Exhaust
  <2>5. CASE Return(r)
    BY <2>5 DEF Return
  <2> QED
    BY <1>2, <2>1, <2>2, <2>3, <2>4, <2>5 DEF ResumeStep
<1>3. ASSUME NEW h \in Threads, Cancel(h) \/ SlashStop(h) PROVE InvTypeOK'
  BY <1>3 DEF Cancel, SlashStop, Running
<1>4. CASE UNCHANGED invVars
  BY <1>4 DEF invVars
<1> QED
  BY <1>1, <1>2, <1>3, <1>4 DEF InvNext

\* Every reachable state of the agent's tables and of its invocations has the
\* declared types.
THEOREM InvocationsTypeCorrect == InvSpec => []InvTypeOK
<1>1. InvInit => InvTypeOK
  BY InvocationsAssumption DEF InvInit, InvTypeOK, InvPCs
<1> QED
  BY <1>1, InvocationsTypeStep, PTL DEF InvSpec

-----------------------------------------------------------------------------
(***************************************************************************)
(* Who is awake.                                                           *)
(***************************************************************************)

\* An invocation begins only when no other one is awake on its thread, files
\* its event, and removes the entry when it returns; nothing else wakes an
\* invocation or touches the two tables.
LEMMA Moves ==
    ASSUME InvTypeOK, [InvNext]_invVars, HostWaits
    PROVE  \/ \E i \in Invs :
                /\ ~Awake(i) /\ Awake(i)'
                /\ \A j \in Invs : ThreadOf[j] = ThreadOf[i] => ~Awake(j)
                /\ \A j \in Invs \ {i} : at'[j] = at[j]
                /\ \/ /\ i \in Streams
                      /\ events' = [events EXCEPT ![ThreadOf[i]] = i]
                      /\ UNCHANGED mgrEvents
                   \/ /\ i \in Resumes
                      /\ mgrEvents' = [mgrEvents EXCEPT ![ThreadOf[i]] = i]
                      /\ UNCHANGED events
           \/ \E i \in Invs :
                /\ Awake(i) /\ at'[i] = "done"
                /\ \A j \in Invs \ {i} : at'[j] = at[j]
                /\ \/ /\ i \in Streams
                      /\ events' = [events EXCEPT ![ThreadOf[i]] = NoInv]
                      /\ UNCHANGED mgrEvents
                   \/ /\ i \in Resumes
                      /\ mgrEvents' = [mgrEvents EXCEPT ![ThreadOf[i]] = NoInv]
                      /\ UNCHANGED events
           \/ /\ \A j \in Invs : Awake(j)' <=> Awake(j)
              /\ UNCHANGED <<events, mgrEvents>>
<1> USE InvocationsAssumption DEF InvTypeOK, To, eventVars, Awake
<1>1. ASSUME NEW i \in Invs, MayStart(ThreadOf[i])
      PROVE  \A j \in Invs : ThreadOf[j] = ThreadOf[i] => ~Awake(j)
  BY <1>1 DEF MayStart, Active
<1>2. ASSUME NEW s \in Streams, Start(s) PROVE
        /\ ~Awake(s) /\ Awake(s)'
        /\ MayStart(ThreadOf[s])
        /\ \A j \in Invs \ {s} : at'[j] = at[j]
        /\ events' = [events EXCEPT ![ThreadOf[s]] = s]
        /\ UNCHANGED mgrEvents
  BY <1>2 DEF Start
<1>3. ASSUME NEW r \in Resumes, ResumeHitl(r) PROVE
        /\ ~Awake(r) /\ Awake(r)'
        /\ MayStart(ThreadOf[r])
        /\ \A j \in Invs \ {r} : at'[j] = at[j]
        /\ mgrEvents' = [mgrEvents EXCEPT ![ThreadOf[r]] = r]
        /\ UNCHANGED events
  BY <1>3 DEF ResumeHitl
<1>4. ASSUME NEW s \in Streams, CloseStream(s) PROVE
        /\ Awake(s) /\ at'[s] = "done"
        /\ \A j \in Invs \ {s} : at'[j] = at[j]
        /\ events' = [events EXCEPT ![ThreadOf[s]] = NoInv]
        /\ UNCHANGED mgrEvents
  BY <1>4 DEF CloseStream
<1>5. ASSUME NEW r \in Resumes, Return(r) PROVE
        /\ Awake(r) /\ at'[r] = "done"
        /\ \A j \in Invs \ {r} : at'[j] = at[j]
        /\ mgrEvents' = [mgrEvents EXCEPT ![ThreadOf[r]] = NoInv]
        /\ UNCHANGED events
  BY <1>5 DEF Return
<1>6. ASSUME NEW s \in Streams, GraphPauses(s) \/ ShowPause(s) \/ Preempt(s) \/ Leave(s)
      PROVE  /\ \A j \in Invs : Awake(j)' <=> Awake(j)
             /\ UNCHANGED <<events, mgrEvents>>
  BY <1>6 DEF GraphPauses, ShowPause, Preempt, Leave
<1>7. ASSUME NEW r \in Resumes, PauseAgain(r) \/ Abandon(r) \/ Exhaust(r)
      PROVE  /\ \A j \in Invs : Awake(j)' <=> Awake(j)
             /\ UNCHANGED <<events, mgrEvents>>
  BY <1>7 DEF PauseAgain, Abandon, Exhaust
<1>8. ASSUME \/ \E h \in Threads : Cancel(h) \/ SlashStop(h)
             \/ UNCHANGED invVars
      PROVE  /\ \A j \in Invs : Awake(j)' <=> Awake(j)
             /\ UNCHANGED <<events, mgrEvents>>
  BY <1>8 DEF Cancel, SlashStop, invVars
<1>9. CASE \E s \in Streams : Start(s)
  BY <1>1, <1>2, <1>9
<1>10. CASE \E r \in Resumes : ResumeHitl(r)
  BY <1>1, <1>3, <1>10
<1>11. CASE \E s \in Streams : CloseStream(s)
  BY <1>4, <1>11
<1>12. CASE \E r \in Resumes : Return(r)
  BY <1>5, <1>12
<1> QED
  BY <1>6, <1>7, <1>8, <1>9, <1>10, <1>11, <1>12 DEF InvNext, StreamStep, ResumeStep

LEMMA EventsStep ==
    ASSUME InvTypeOK, [InvNext]_invVars, HostWaits, OneAtATime, EventsFiled
    PROVE  OneAtATime' /\ EventsFiled'
<1> USE InvocationsAssumption DEF InvTypeOK, Awake
<1>1. OneAtATime'
  BY Moves DEF OneAtATime
<1>2. EventsFiled'
  BY Moves DEF OneAtATime, EventsFiled
<1> QED
  BY <1>1, <1>2

LEMMA EventsInvariant == HostWaits => (InvSpec => [](InvTypeOK /\ OneAtATime /\ EventsFiled))
<1> SUFFICES ASSUME HostWaits PROVE InvSpec => [](InvTypeOK /\ OneAtATime /\ EventsFiled)
  OBVIOUS
<1>1. InvInit => OneAtATime /\ EventsFiled
  BY InvocationsAssumption DEF InvInit, OneAtATime, EventsFiled, Awake
<1>2. InvTypeOK /\ OneAtATime /\ EventsFiled /\ [InvNext]_invVars => (OneAtATime /\ EventsFiled)'
  BY EventsStep
<1> QED
  BY <1>1, <1>2, InvocationsTypeCorrect, PTL DEF InvSpec

-----------------------------------------------------------------------------
(***************************************************************************)
(* Cancellation.                                                           *)
(***************************************************************************)

\* A step other than a cancellation leaves the signals alone and keeps what
\* runs, or is closing, in one of these states.
LEMMA StepKeepsAsked ==
    ASSUME InvTypeOK, AskedIsSignalled,
           (\E s \in Streams : StreamStep(s)) \/ (\E r \in Resumes : ResumeStep(r))
           \/ UNCHANGED invVars
    PROVE  AskedIsSignalled'
<1> USE InvocationsAssumption DEF InvTypeOK, To, eventVars, invHostVars, AskedIsSignalled
<1>1. ASSUME NEW s \in Streams, StreamStep(s) PROVE AskedIsSignalled'
  <2>1. CASE Start(s) \/ GraphPauses(s) \/ ShowPause(s)
    BY <2>1 DEF Start, GraphPauses, ShowPause
  <2>2. CASE Preempt(s) \/ Leave(s) \/ CloseStream(s)
    BY <2>2 DEF Preempt, Leave, CloseStream
  <2> QED
    BY <1>1, <2>1, <2>2 DEF StreamStep
<1>2. ASSUME NEW r \in Resumes, ResumeStep(r) PROVE AskedIsSignalled'
  <2>1. CASE ResumeHitl(r) \/ PauseAgain(r)
    BY <2>1 DEF ResumeHitl, PauseAgain
  <2>2. CASE Abandon(r) \/ Exhaust(r) \/ Return(r)
    BY <2>2 DEF Abandon, Exhaust, Return
  <2> QED
    BY <1>2, <2>1, <2>2 DEF ResumeStep
<1>3. CASE UNCHANGED invVars
  BY <1>3 DEF invVars
<1> QED
  BY <1>1, <1>2, <1>3

\* The table entry that cancel() finds belongs to the invocation that runs,
\* as no other one is awake on the thread.
LEMMA CancelReaches ==
    ASSUME InvTypeOK, EventsFiled, AskedIsSignalled, NEW h \in Threads,
           Cancel(h) \/ (SlashStop(h) /\ \A r \in Resumes : ThreadOf[r] # h)
    PROVE  AskedIsSignalled'
<1> USE InvocationsAssumption DEF InvTypeOK, AskedIsSignalled
<1>1. ASSUME NEW i \in Running(h)
      PROVE  i \in Invs /\ Awake(i) /\ ThreadOf[i] = h
  BY <1>1 DEF Running, Awake
<1>2. Running(h) \subseteq {events[h], mgrEvents[h]} \ {NoInv}
  BY <1>1 DEF EventsFiled
<1>3. (\A r \in Resumes : ThreadOf[r] # h) => Running(h) \subseteq {events[h]} \ {NoInv}
  BY <1>1 DEF EventsFiled
<1>4. CASE Cancel(h)
  BY <1>2, <1>4 DEF Cancel
<1>5. CASE SlashStop(h) /\ \A r \in Resumes : ThreadOf[r] # h
  BY <1>3, <1>5 DEF SlashStop
<1> QED
  BY <1>4, <1>5

\* If the host lets an invocation return before it begins the next one on the
\* thread, cancel() reaches everything that runs there; so does /stop on a
\* thread where nothing but streams runs.
THEOREM InvocationsAskedIsSignalled ==
    HostWaits /\ (\A r \in Resumes : ThreadOf[r] \notin StopThreads)
        => (InvSpec => []AskedIsSignalled)
<1> SUFFICES ASSUME HostWaits, \A r \in Resumes : ThreadOf[r] \notin StopThreads
             PROVE  InvSpec => []AskedIsSignalled
  OBVIOUS
<1>1. InvInit => AskedIsSignalled
  BY DEF InvInit, AskedIsSignalled
<1>2. InvTypeOK /\ EventsFiled /\ AskedIsSignalled /\ [InvNext]_invVars => AskedIsSignalled'
  <2>1. ASSUME NEW h \in Threads, SlashStop(h) PROVE \A r \in Resumes : ThreadOf[r] # h
    BY <2>1 DEF SlashStop
  <2> QED
    BY <2>1, StepKeepsAsked, CancelReaches DEF InvNext
<1> QED
  BY <1>1, <1>2, EventsInvariant, PTL DEF InvSpec

-----------------------------------------------------------------------------
(***************************************************************************)
(* Configurations.                                                         *)
(***************************************************************************)

LEMMA ScopeStep ==
    ASSUME InvTypeOK, [InvNext]_invVars, HostWaits, OneAtATime, ScopeFiled
    PROVE  ScopeFiled'
<1> USE InvocationsAssumption DEF InvTypeOK, To, scopeVars, ScopeFiled
<1>0. ASSUME NEW i \in Invs, MayStart(ThreadOf[i])
      PROVE  \A j \in Invs : ThreadOf[j] = ThreadOf[i] => at[j] \in {"idle", "done"}
  BY <1>0 DEF MayStart, Active
<1>1. ASSUME NEW i \in Invs, Awake(i)
      PROVE  \A j \in Invs \ {i} : ThreadOf[j] = ThreadOf[i] => at[j] \in {"idle", "done"}
  BY <1>1 DEF OneAtATime, Awake
<1>2. ASSUME NEW s \in Streams, Start(s) PROVE ScopeFiled'
  BY <1>0, <1>2 DEF Start
<1>3. ASSUME NEW s \in Streams, ShowPause(s) PROVE ScopeFiled'
  BY <1>1, <1>3 DEF ShowPause, Awake
<1>4. ASSUME NEW s \in Streams, GraphPauses(s) \/ Preempt(s) \/ Leave(s) \/ CloseStream(s)
      PROVE  ScopeFiled'
  BY <1>4 DEF GraphPauses, Preempt, Leave, CloseStream
<1>5. ASSUME NEW r \in Resumes, ResumeHitl(r) PROVE ScopeFiled'
  BY <1>0, <1>5 DEF ResumeHitl
<1>6. ASSUME NEW r \in Resumes, PauseAgain(r) PROVE ScopeFiled'
  BY <1>1, <1>6 DEF PauseAgain, Awake
<1>7. ASSUME NEW r \in Resumes, Abandon(r) PROVE ScopeFiled'
  BY <1>1, <1>7 DEF Abandon, Awake
<1>8. ASSUME NEW r \in Resumes, Exhaust(r) PROVE ScopeFiled'
  BY <1>1, <1>8 DEF Exhaust, Awake
<1>9. ASSUME NEW r \in Resumes, Return(r) PROVE ScopeFiled'
  BY <1>9 DEF Return
<1>10. ASSUME NEW h \in Threads, Cancel(h) \/ SlashStop(h) PROVE ScopeFiled'
  BY <1>10 DEF Cancel, SlashStop
<1>11. CASE UNCHANGED invVars
  BY <1>11 DEF invVars
<1> QED
  BY <1>2, <1>3, <1>4, <1>5, <1>6, <1>7, <1>8, <1>9, <1>10, <1>11
  DEF InvNext, StreamStep, ResumeStep

LEMMA ScopeInvariant == HostWaits => (InvSpec => [](InvTypeOK /\ ScopeFiled))
<1> SUFFICES ASSUME HostWaits PROVE InvSpec => [](InvTypeOK /\ ScopeFiled)
  OBVIOUS
<1>1. InvInit => ScopeFiled
  BY InvocationsAssumption DEF InvInit, ScopeFiled
<1>2. InvTypeOK /\ OneAtATime /\ ScopeFiled /\ [InvNext]_invVars => ScopeFiled'
  BY ScopeStep
<1> QED
  BY <1>1, <1>2, EventsInvariant, PTL DEF InvSpec

\* If the host waits, every resumption runs with the configuration of the
\* request whose pause it answers, through nested approvals and repeated
\* answers.
THEOREM InvocationsResumeKeepsScope == HostWaits => (InvSpec => []ResumeKeepsScope)
<1>1. InvTypeOK /\ ScopeFiled => ResumeKeepsScope
  BY DEF ScopeFiled, ResumeKeepsScope
<1> QED
  BY <1>1, ScopeInvariant, PTL

LEMMA ScopePausedStep ==
    ASSUME InvTypeOK, OneAtATime, ScopeFiled, ScopeIsPaused, [InvNext]_invVars
    PROVE  ScopeIsPaused'
<1> USE InvocationsAssumption DEF InvTypeOK, To, scopeVars, ScopeIsPaused
<1>1. ASSUME NEW s \in Streams, StreamStep(s) PROVE ScopeIsPaused'
  BY <1>1 DEF StreamStep, Start, GraphPauses, ShowPause, Preempt, Leave, CloseStream
<1>2. ASSUME NEW r \in Resumes, ResumeHitl(r) PROVE ScopeIsPaused'
  <2>1. ASSUME NEW h \in Threads, scope'[h] # NoInv, h # ThreadOf[r]
        PROVE  \/ scope'[h] = shown'[h]
               \/ \E q \in Resumes : ThreadOf[q] = h /\ runsAs'[q] = scope'[h]
    BY <1>2, <2>1 DEF ResumeHitl
  <2>2. ThreadOf[r] \in Threads /\ runsAs'[r] = scope'[ThreadOf[r]]
    BY <1>2 DEF ResumeHitl
  <2> QED
    BY <2>1, <2>2
<1>3. ASSUME NEW r \in Resumes, PauseAgain(r) \/ Abandon(r) PROVE ScopeIsPaused'
  <2>1. /\ at[r] \in {"running", "paused"} /\ runsAs[r] = scope[ThreadOf[r]]
        /\ UNCHANGED scopeVars
        /\ \A h \in Threads : h # ThreadOf[r] => shown'[h] = shown[h]
    BY <1>3 DEF PauseAgain, Abandon, ScopeFiled
  <2> QED
    BY <2>1
<1>4. ASSUME NEW r \in Resumes, Exhaust(r) \/ Return(r) PROVE ScopeIsPaused'
  BY <1>4 DEF Exhaust, Return
<1>5. ASSUME NEW h \in Threads, Cancel(h) \/ SlashStop(h) PROVE ScopeIsPaused'
  BY <1>5 DEF Cancel, SlashStop
<1>6. CASE UNCHANGED invVars
  BY <1>6 DEF invVars
<1> QED
  BY <1>1, <1>2, <1>3, <1>4, <1>5, <1>6 DEF InvNext, ResumeStep

\* If the host waits, no configuration outlives the pause it was filed for and
\* the resumptions that answer it.
THEOREM InvocationsScopeIsPaused == HostWaits => (InvSpec => []ScopeIsPaused)
<1> SUFFICES ASSUME HostWaits PROVE InvSpec => []ScopeIsPaused
  OBVIOUS
<1>1. InvInit => ScopeIsPaused
  BY InvocationsAssumption DEF InvInit, ScopeIsPaused
<1>2. InvTypeOK /\ OneAtATime /\ ScopeFiled /\ ScopeIsPaused /\ [InvNext]_invVars => ScopeIsPaused'
  BY ScopePausedStep
<1> QED
  BY <1>1, <1>2, EventsInvariant, ScopeInvariant, PTL DEF InvSpec
=============================================================================
