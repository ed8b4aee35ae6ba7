---------------------------- MODULE MemoryWorkers ----------------------------
(***************************************************************************)
(* The background work of one MemoryMiddleware (middleware/memory.py):     *)
(* captures, extractions and maintenance ticks that run on threads of      *)
(* their own, the manual review that coalesces requests, pause_background  *)
(* for a restore, and shutdown with its idle callbacks.                    *)
(*                                                                         *)
(* An action is one section under _background_condition or                 *)
(* _manual_review_lock, or the work between two sections.                  *)
(*                                                                         *)
(* A member of Jobs is one call of _submit_background with the thread it   *)
(* starts.  A member of Kicks is one call of _kick_manual_review with the  *)
(* review it may run: called by a host (HostOf is Nobody), or inside the     *)
(* maintenance tick of a job, on the thread of that job.                   *)
(***************************************************************************)
EXTENDS Naturals, FiniteSets

CONSTANTS
    Jobs,     \* submissions of background work
    Kicks,    \* requests for a manual review
    HostOf,   \* the maintenance job a request is part of, or Nobody
    Pausers,  \* uses of pause_background
    Stops,    \* calls of shutdown(on_idle=...)
    Nobody

Work == Jobs \cup Kicks

ASSUME WorkersAssumption ==
    /\ IsFiniteSet(Jobs)
    /\ IsFiniteSet(Kicks)
    /\ Jobs \cap Kicks = {}
    /\ HostOf \in [Kicks -> Jobs \cup {Nobody}]
    /\ Nobody \notin Jobs

VARIABLES
    active,     \* _background_active
    paused,     \* _background_paused
    shut,       \* _background_shutdown
    callbacks,  \* _background_idle_callbacks
    running,    \* _manual_review_running
    again,      \* _manual_review_again
    ticking,    \* holder of _maintenance_running
    pc,         \* where each job and request is
    firing,     \* idle callbacks a finishing thread has taken
    pausing,    \* where each use of pause_background is
    stopping,   \* where each call of shutdown is
    fired,      \* history: how often each idle callback ran
    wanted      \* history: requests no review has started for yet

reviewVars == <<running, again, wanted>>
hostVars   == <<pausing, stopping>>
vars == <<active, paused, shut, callbacks, reviewVars, ticking, pc, firing,
          hostVars, fired>>

JobPCs  == {"idle", "rejected", "working", "ticking", "leaving", "firing", "done"}
KickPCs == {"idle", "checked", "claimed", "submitted", "reviewing", "rerun",
            "failing", "leaving", "firing", "aborting", "abortFiring", "resetting", "done"}

TypeOK ==
    /\ active \in Nat
    /\ paused \in BOOLEAN
    /\ shut \in BOOLEAN
    /\ callbacks \in SUBSET Stops
    /\ running \in BOOLEAN
    /\ again \in BOOLEAN
    /\ ticking \in Jobs \cup {Nobody}
    /\ pc \in [Work -> JobPCs \cup KickPCs]
    /\ firing \in [Work -> SUBSET Stops]
    /\ pausing \in [Pausers -> {"idle", "refused", "draining", "inside", "leaving", "done"}]
    /\ stopping \in [Stops -> {"idle", "stopping", "calling", "done"}]
    /\ fired \in [Stops -> Nat]
    /\ wanted \in SUBSET Kicks

Init ==
    /\ active = 0
    /\ paused = FALSE
    /\ shut = FALSE
    /\ callbacks = {}
    /\ running = FALSE
    /\ again = FALSE
    /\ ticking = Nobody
    /\ pc = [w \in Work |-> "idle"]
    /\ firing = [w \in Work |-> {}]
    /\ pausing = [p \in Pausers |-> "idle"]
    /\ stopping = [s \in Stops |-> "idle"]
    /\ fired = [s \in Stops |-> 0]
    /\ wanted = {}

Goto(w, l) == pc' = [pc EXCEPT ![w] = l]

-----------------------------------------------------------------------------
(***************************************************************************)
(* Admission and completion, common to all background work.                *)
(***************************************************************************)

\* Variant with a fault: only the shutdown is looked at.
AdmitUnlessShut(w, l, refused) ==
    \/ /\ shut
       /\ Goto(w, refused)
       /\ UNCHANGED active
    \/ /\ ~shut
       /\ active' = active + 1
       /\ Goto(w, l)

\* _submit_background up to the start of the thread: refused, or counted.
Admit(w, l, refused) ==
    \/ /\ paused \/ shut
       /\ Goto(w, refused)
       /\ UNCHANGED active
    \/ /\ ~paused /\ ~shut
       /\ active' = active + 1
       /\ Goto(w, l)

\* Variant with a fault: the callbacks are not taken off the list.
LeaveCallbacks(w) ==
    /\ active' = active - 1
    /\ firing' = [firing EXCEPT ![w] = IF active = 1 THEN callbacks ELSE {}]
    /\ UNCHANGED callbacks

\* Variant with a fault: the count is compared before it is lowered.
UncountLate(w) ==
    /\ active' = active - 1
    /\ firing' = [firing EXCEPT ![w] = IF active = 0 THEN callbacks ELSE {}]
    /\ callbacks' = IF active = 0 THEN {} ELSE callbacks

\* The section of _finish_background: the last worker takes the callbacks.
Uncount(w) ==
    /\ active' = active - 1
    /\ firing' = [firing EXCEPT ![w] = IF active = 1 THEN callbacks ELSE {}]
    /\ callbacks' = IF active = 1 THEN {} ELSE callbacks

Finish(w) ==
    /\ \/ pc[w] = "leaving" /\ Goto(w, "firing")
       \/ pc[w] = "aborting" /\ Goto(w, "abortFiring")
    /\ Uncount(w)
    /\ UNCHANGED <<paused, shut, reviewVars, ticking, hostVars, fired>>

\* The rest of _finish_background: the callbacks run without the lock.
RunCallbacks(w) ==
    /\ \/ pc[w] = "firing" /\ Goto(w, "done")
       \/ pc[w] = "abortFiring" /\ Goto(w, "resetting")
    /\ fired' = [s \in Stops |-> IF s \in firing[w] THEN fired[s] + 1 ELSE fired[s]]
    /\ firing' = [firing EXCEPT ![w] = {}]
    /\ UNCHANGED <<active, paused, shut, callbacks, reviewVars, ticking, hostVars>>

-----------------------------------------------------------------------------
(***************************************************************************)
(* Captures, extractions and maintenance ticks.                            *)
(***************************************************************************)

KicksOf(j) == {k \in Kicks : HostOf[k] = j}

Submit(j) ==
    /\ pc[j] = "idle"
    /\ Admit(j, "working", "rejected")
    /\ UNCHANGED <<paused, shut, callbacks, reviewVars, ticking, firing, hostVars, fired>>

\* The work of a job ends or raises, or its thread could not be started.
WorkEnds(j) ==
    /\ pc[j] = "working"
    /\ Goto(j, "leaving")
    /\ UNCHANGED <<active, paused, shut, callbacks, reviewVars, ticking, firing,
                   hostVars, fired>>

\* _run_maintenance_tick: an overlapping tick is skipped (WorkEnds).
TickBegins(j) ==
    /\ pc[j] = "working"
    /\ KicksOf(j) # {}
    /\ ticking = Nobody
    /\ ticking' = j
    /\ Goto(j, "ticking")
    /\ UNCHANGED <<active, paused, shut, callbacks, reviewVars, firing, hostVars, fired>>

\* The tick ends after its request for a review has returned.
TickEnds(j) ==
    /\ pc[j] = "ticking"
    /\ \A k \in KicksOf(j) : pc[k] = "done"
    /\ ticking' = Nobody
    /\ Goto(j, "leaving")
    /\ UNCHANGED <<active, paused, shut, callbacks, reviewVars, firing, hostVars, fired>>

JobStep(j) == Submit(j) \/ WorkEnds(j) \/ TickBegins(j) \/ TickEnds(j)

-----------------------------------------------------------------------------
(***************************************************************************)
(* The manual review.                                                      *)
(***************************************************************************)

KickFrame == UNCHANGED <<paused, shut, callbacks, ticking, firing, hostVars, fired>>

\* _kick_manual_review, first section: a host's request is dropped while
\* paused or shut down; a tick does not look.
Kick(k) ==
    /\ pc[k] = "idle"
    /\ \/ HostOf[k] = Nobody /\ Goto(k, IF paused \/ shut THEN "done" ELSE "checked")
       \/ HostOf[k] # Nobody /\ pc[HostOf[k]] = "ticking" /\ Goto(k, "checked")
    /\ UNCHANGED <<active, reviewVars>>
    /\ KickFrame

\* second section: a review in progress absorbs the request.
Claim(k) ==
    /\ pc[k] = "checked"
    /\ wanted' = wanted \cup {k}
    /\ \/ /\ running
          /\ again' = TRUE
          /\ Goto(k, "done")
          /\ UNCHANGED running
       \/ /\ ~running
          /\ running' = TRUE
          /\ Goto(k, "claimed")
          /\ UNCHANGED again
    /\ UNCHANGED active
    /\ KickFrame

\* third section, in _submit_background
SubmitReview(k) ==
    /\ pc[k] = "claimed"
    /\ Admit(k, "submitted", "resetting")
    /\ UNCHANGED reviewVars
    /\ KickFrame

\* The thread of the review cannot be started.
StartFails(k) ==
    /\ pc[k] = "submitted"
    /\ HostOf[k] = Nobody
    /\ Goto(k, "aborting")
    /\ UNCHANGED <<active, reviewVars>>
    /\ KickFrame

PassBegins(k) ==
    /\ pc[k] \in {"submitted", "rerun"}
    /\ wanted' = {}
    /\ Goto(k, "reviewing")
    /\ UNCHANGED <<active, running, again>>
    /\ KickFrame

\* A batch ends: one more if somebody asked meanwhile.
PassEnds(k) ==
    /\ pc[k] = "reviewing"
    /\ \/ /\ again
          /\ again' = FALSE
          /\ Goto(k, "rerun")
          /\ UNCHANGED running
       \/ /\ ~again
          /\ running' = FALSE
          /\ Goto(k, "leaving")
          /\ UNCHANGED again
    /\ UNCHANGED <<active, wanted>>
    /\ KickFrame

PassFails(k) ==
    /\ pc[k] = "reviewing"
    /\ Goto(k, "failing")
    /\ UNCHANGED <<active, reviewVars>>
    /\ KickFrame

\* Variant with a fault: a review that failed is still marked as running.
ResetAgainOnly(k) ==
    /\ \/ pc[k] = "failing" /\ Goto(k, "leaving")
       \/ pc[k] = "resetting" /\ Goto(k, "done")
    /\ again' = FALSE
    /\ wanted' = {}
    /\ UNCHANGED <<active, running>>
    /\ KickFrame

\* A review that failed, or was not started, drops what it had absorbed.
Reset(k) ==
    /\ \/ pc[k] = "failing" /\ Goto(k, "leaving")
       \/ pc[k] = "resetting" /\ Goto(k, "done")
    /\ running' = FALSE
    /\ again' = FALSE
    /\ wanted' = {}
    /\ UNCHANGED active
    /\ KickFrame

KickStep(k) == \/ Claim(k) \/ SubmitReview(k) \/ StartFails(k)
               \/ PassBegins(k) \/ PassEnds(k) \/ PassFails(k) \/ Reset(k)

-----------------------------------------------------------------------------
(***************************************************************************)
(* pause_background and shutdown.                                          *)
(***************************************************************************)

PauseFrame ==
    UNCHANGED <<active, shut, callbacks, reviewVars, ticking, pc, firing, stopping, fired>>

\* A second pause raises RuntimeError.
Pause(p) ==
    /\ pausing[p] = "idle"
    /\ pausing' = [pausing EXCEPT ![p] = IF paused THEN "refused" ELSE "draining"]
    /\ paused' = TRUE
    /\ PauseFrame

\* wait_for: drained in time, or TimeoutError
Drain(p) ==
    /\ pausing[p] = "draining"
    /\ pausing' = [pausing EXCEPT ![p] = IF active = 0 THEN "inside" ELSE "leaving"]
    /\ UNCHANGED paused
    /\ PauseFrame

Resume(p) ==
    /\ pausing[p] \in {"inside", "leaving"}
    /\ pausing' = [pausing EXCEPT ![p] = "done"]
    /\ paused' = FALSE
    /\ PauseFrame

StopFrame == UNCHANGED <<active, paused, reviewVars, ticking, pc, firing, pausing>>

\* shutdown(), first section
Shutdown(s) ==
    /\ stopping[s] = "idle"
    /\ stopping' = [stopping EXCEPT ![s] = "stopping"]
    /\ shut' = TRUE
    /\ UNCHANGED <<callbacks, fired>>
    /\ StopFrame

\* shutdown(), last section: the callback waits for the active workers.
OnIdle(s) ==
    /\ stopping[s] = "stopping"
    /\ \/ /\ active > 0
          /\ callbacks' = callbacks \cup {s}
          /\ stopping' = [stopping EXCEPT ![s] = "done"]
       \/ /\ active = 0
          /\ stopping' = [stopping EXCEPT ![s] = "calling"]
          /\ UNCHANGED callbacks
    /\ UNCHANGED <<shut, fired>>
    /\ StopFrame

\* The middleware was idle: the callback runs in shutdown().
CallNow(s) ==
    /\ stopping[s] = "calling"
    /\ stopping' = [stopping EXCEPT ![s] = "done"]
    /\ fired' = [fired EXCEPT ![s] = @ + 1]
    /\ UNCHANGED <<shut, callbacks>>
    /\ StopFrame

-----------------------------------------------------------------------------
Next ==
    \/ \E j \in Jobs : JobStep(j)
    \/ \E k \in Kicks : Kick(k) \/ KickStep(k)
    \/ \E w \in Work : Finish(w) \/ RunCallbacks(w)
    \/ \E p \in Pausers : Pause(p) \/ Drain(p) \/ Resume(p)
    \/ \E s \in Stops : Shutdown(s) \/ OnIdle(s) \/ CallNow(s)

Spec == Init /\ [][Next]_vars

\* Threads that were started run, work comes to an end, and a maintenance
\* tick makes its request.
Fairness ==
    /\ \A j \in Jobs : WF_vars(WorkEnds(j) \/ TickEnds(j))
    /\ \A k \in Kicks : /\ WF_vars(KickStep(k))
                        /\ HostOf[k] # Nobody => WF_vars(Kick(k))
    /\ \A w \in Work : WF_vars(Finish(w) \/ RunCallbacks(w))
    /\ \A s \in Stops : WF_vars(OnIdle(s) \/ CallNow(s))

FairSpec == Spec /\ Fairness

-----------------------------------------------------------------------------
(***************************************************************************)
(* Properties.                                                             *)
(***************************************************************************)

\* Work that was accepted and has not finished.
InFlight == {w \in Work : pc[w] \in {"working", "ticking", "leaving", "submitted",
                                     "reviewing", "rerun", "failing", "aborting"}}

\* Inside pause_background no background work is running, so the host may
\* replace the database file.
PauseIsQuiet ==
    \A p \in Pausers : pausing[p] = "inside" => paused /\ InFlight = {}

\* When an idle callback is due, or has run, no work is left and none can
\* start any more: the owner may close the database.
IdleIsFinal ==
    \A s \in Stops :
        (fired[s] > 0 \/ stopping[s] = "calling" \/ \E w \in Work : s \in firing[w])
            => shut /\ InFlight = {}

\* Each callback of shutdown() is kept or has run, once.
Pending(s) == {w \in Work : s \in firing[w]}

CallbackOnce ==
    \A s \in Stops :
        /\ Cardinality(Pending(s)) + fired[s] + (IF s \in callbacks THEN 1 ELSE 0)
              = IF stopping[s] = "done" THEN 1 ELSE 0
        /\ s \in callbacks => active > 0

\* A review already in progress absorbs a request instead of starting a
\* second model call.
Reviewer(k) == pc[k] \in {"claimed", "submitted", "reviewing", "rerun",
                          "failing", "aborting", "abortFiring", "resetting"}

OneReview ==
    /\ \A k, l \in Kicks : Reviewer(k) /\ Reviewer(l) => k = l
    /\ running <=> \E k \in Kicks : Reviewer(k)

\* A request that was absorbed is not forgotten: as long as no review has
\* started since, one is under way that will start another batch.
NoRequestLost ==
    wanted # {} => \E k \in Kicks :
                      \/ pc[k] \in {"claimed", "submitted", "rerun", "failing",
                                    "aborting", "abortFiring", "resetting"}
                      \/ pc[k] = "reviewing" /\ again

\* The callback of every shutdown() runs, however long the work takes.
ShutdownCompletes ==
    \A s \in Stops : stopping[s] # "idle" ~> fired[s] = 1

\* Every request for a review that was taken is served or dropped.
RequestSettled == wanted # {} ~> wanted = {}

\* What the proofs rest on: the count is the number of accepted jobs and
\* reviews, ...
ActiveExact == active = Cardinality(InFlight)

\* ... one use of pause_background at a time holds the pause, ...
Holds(p) == pausing[p] \in {"draining", "inside", "leaving"}

PauseHeld == /\ \A p, q \in Pausers : Holds(p) /\ Holds(q) => p = q
             /\ \A p \in Pausers : Holds(p) => paused

\* ... a callback is kept only after a shutdown, and only a thread on its way
\* out holds callbacks.
StoppedIsShut ==
    /\ \A s \in Stops : stopping[s] # "idle" => shut
    /\ \A s \in callbacks : stopping[s] # "idle"
    /\ \A w \in Work : firing[w] # {} => pc[w] \in {"firing", "abortFiring"}
=============================================================================
