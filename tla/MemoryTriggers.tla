--------------------------- MODULE MemoryTriggers ---------------------------
(***************************************************************************)
(* When MemoryMiddleware (middleware/memory.py) has the captured turns of  *)
(* a session extracted: the idle timer of a session, the interval sweep    *)
(* over tracked sessions, end_session by the host, and the maintenance     *)
(* timer, against pause_background and shutdown.                           *)
(*                                                                         *)
(* Timers fire on threads of their own; an action is one section under a   *)
(* lock or what a thread does between two.  The runtime wires one of the   *)
(* two triggers (memory/runtime.py): mode says which.                      *)
(*                                                                         *)
(* The idle timer that is armed after turn n of a session is its timer n.  *)
(* A quiet period is longer than the write of a capture.  Extraction is    *)
(* incremental: it reads what has been captured and not been read before.  *)
(***************************************************************************)
EXTENDS Naturals, FiniteSets

CONSTANTS
    Sessions,
    MaxSaid,     \* bound: captured turns of a session
    MaxExtracts  \* bound: extractions of a session at a time

ASSUME TriggersAssumption ==
    /\ IsFiniteSet(Sessions)
    /\ MaxSaid \in Nat \ {0} /\ MaxExtracts \in Nat \ {0}

Numbers  == 1..MaxSaid
Extracts == Sessions \X (1..MaxExtracts)
Beats    == {"sweep", "maintenance"}

VARIABLES
    mode,     \* the trigger: "idle" or "interval"
    said,     \* turns that after_model has handed to a capture
    written,  \* ... and that the capture has written
    hook,     \* sessions whose after_model has yet to arm the idle timer
    tracked,  \* _session_threads
    table,    \* _idle_timers: the timer of a session, or 0
    timer,    \* idle timers: "none", "waiting", "firing" or "over"
    extract,  \* extractions under way: "none", "started" or "reading"
    tried,    \* history: turns that an extraction has read
    slipped,  \* history: turns that lost their trigger, see SlipsAway
    beat,     \* the repeating timers: "off", "waiting", "firing" or "rearming"
    halted,   \* _interval_stopped, _maintenance_stopped
    sweep,    \* the sessions that a sweep has yet to end
    ended,    \* sessions that the host has ended
    held,     \* background work is paused
    stopped   \* shutdown() has set _background_shutdown

sessionVars  == <<said, written, hook, tracked, table, timer>>
extractVars  == <<extract, tried, slipped>>
beatVars     == <<beat, halted, sweep>>
triggersVars == <<mode, sessionVars, extractVars, beatVars, ended, held, stopped>>

Beating(m) == {"maintenance"} \cup (IF m = "interval" THEN {"sweep"} ELSE {})

TriggersTypeOK ==
    /\ mode \in {"idle", "interval"}
    /\ said \in [Sessions -> 0..MaxSaid]
    /\ written \in [Sessions -> SUBSET Numbers]
    /\ hook \in SUBSET Sessions /\ tracked \in SUBSET Sessions
    /\ table \in [Sessions -> 0..MaxSaid]
    /\ timer \in [Sessions -> [Numbers -> {"none", "waiting", "firing", "over"}]]
    /\ extract \in [Extracts -> {"none", "started", "reading"}]
    /\ tried \in [Sessions -> SUBSET Numbers]
    /\ slipped \in [Sessions -> SUBSET Numbers]
    /\ beat \in [Beats -> {"off", "waiting", "firing", "rearming"}]
    /\ halted \in SUBSET Beats
    /\ sweep \in SUBSET Sessions
    /\ ended \in SUBSET Sessions
    /\ held \in BOOLEAN /\ stopped \in BOOLEAN
    /\ \A s \in Sessions : table[s] # 0 => timer[s][table[s]] \in {"waiting", "firing"}

TriggersInit ==
    /\ mode \in {"idle", "interval"}
    /\ said = [s \in Sessions |-> 0]
    /\ written = [s \in Sessions |-> {}]
    /\ hook = {} /\ tracked = {}
    /\ table = [s \in Sessions |-> 0]
    /\ timer = [s \in Sessions |-> [n \in Numbers |-> "none"]]
    /\ extract = [x \in Extracts |-> "none"]
    /\ tried = [s \in Sessions |-> {}]
    /\ slipped = [s \in Sessions |-> {}]
    /\ beat = [b \in Beats |-> IF b \in Beating(mode) THEN "waiting" ELSE "off"]
    /\ halted = {} /\ sweep = {} /\ ended = {}
    /\ held = FALSE /\ stopped = FALSE

Submitted(s) == 1..said[s]
InWriting(s) == Submitted(s) \ written[s]

-----------------------------------------------------------------------------
(***************************************************************************)
(* A turn ends.                                                            *)
(***************************************************************************)

\* after_model: the session is tracked, then the capture is submitted.
EndTurn(s) ==
    /\ s \notin hook
    /\ said[s] < MaxSaid
    /\ ~held /\ ~stopped
    /\ said' = [said EXCEPT ![s] = @ + 1]
    /\ tracked' = tracked \cup {s}
    /\ hook' = IF mode = "idle" THEN hook \cup {s} ELSE hook
    /\ UNCHANGED <<mode, written, table, timer, extractVars, beatVars, ended, held, stopped>>

WriteCapture(s) ==
    /\ \E n \in InWriting(s) : written' = [written EXCEPT ![s] = @ \cup {n}]
    /\ UNCHANGED <<mode, said, hook, tracked, table, timer, extractVars, beatVars, ended, held, stopped>>

\* Cancelling a timer that has fired has no effect.
Cancelled(s, n) == [timer[s] EXCEPT ![n] = IF @ = "waiting" THEN "over" ELSE @]

\* Variant with a fault: the timer that is replaced is not cancelled.
ArmIdleBeside(s) ==
    /\ s \in hook
    /\ hook' = hook \ {s}
    /\ table' = [table EXCEPT ![s] = said[s]]
    /\ timer' = [timer EXCEPT ![s][said[s]] = "waiting"]
    /\ UNCHANGED <<mode, said, written, tracked, extractVars, beatVars, ended, held, stopped>>

\* _arm_idle_extract: replaces the timer of the session.
ArmIdle(s) ==
    /\ s \in hook
    /\ hook' = hook \ {s}
    /\ table' = [table EXCEPT ![s] = said[s]]
    /\ timer' = [timer EXCEPT ![s] =
                    [(IF table[s] = 0 THEN @ ELSE Cancelled(s, table[s]))
                        EXCEPT ![said[s]] = "waiting"]]
    /\ UNCHANGED <<mode, said, written, tracked, extractVars, beatVars, ended, held, stopped>>

-----------------------------------------------------------------------------
(***************************************************************************)
(* end_session.                                                            *)
(***************************************************************************)

Unused(s) == {x \in Extracts : x[1] = s /\ extract[x] = "none"}

\* Some trigger will still look at session s.
Due(s) ==
    \/ s \in hook \/ s \in sweep
    \/ mode = "interval" /\ s \in tracked
    \/ \E n \in Numbers : timer[s][n] \in {"waiting", "firing"}
    \/ \E x \in Extracts : x[1] = s /\ extract[x] = "started"

\* Turns that no extraction has read slip away when the trigger they have is
\* used up without reading them: that is recorded by the step that does so.
SlipsAway(s, why) ==
    slipped' = [slipped EXCEPT ![s] = IF why THEN @ \cup (Submitted(s) \ tried[s]) ELSE @]

\* _submit_background: refused, or a thread starts.  A refusal uses up the
\* idle timer; a sweep comes again.
StartExtract(s) ==
    \/ /\ held \/ stopped
       /\ SlipsAway(s, mode = "idle")
       /\ UNCHANGED <<extract, tried>>
    \/ /\ ~held /\ ~stopped
       /\ \E x \in Unused(s) : extract' = [extract EXCEPT ![x] = "started"]
       /\ UNCHANGED <<tried, slipped>>

\* Variant with a fault: the session is dropped before the work is accepted.
EndSessionAtOnce(s) ==
    /\ StartExtract(s)
    /\ tracked' = tracked \ {s}
    /\ table' = [table EXCEPT ![s] = 0]
    /\ timer' = [timer EXCEPT ![s] = IF table[s] = 0 THEN @ ELSE Cancelled(s, table[s])]
    /\ UNCHANGED <<mode, said, written, hook>>

\* end_session: the pending idle timer is superseded.
EndSession(s) ==
    /\ StartExtract(s)
    /\ table' = [table EXCEPT ![s] = 0]
    /\ timer' = [timer EXCEPT ![s] = IF table[s] = 0 THEN @ ELSE Cancelled(s, table[s])]
    /\ UNCHANGED <<mode, said, written, hook, tracked>>

\* The host ends the session, once, perhaps while a turn is being written.
HostEndsSession(s) ==
    /\ s \notin ended \cup hook
    /\ ~held /\ ~stopped
    /\ ended' = ended \cup {s}
    /\ EndSession(s)
    /\ UNCHANGED <<beatVars, held, stopped>>

\* service.extract reads what has been written; what is still being written
\* slips away if nothing else is due for it.
ReadTurns(x) ==
    /\ extract[x] = "started"
    /\ extract' = [extract EXCEPT ![x] = "reading"]
    /\ tried' = [tried EXCEPT ![x[1]] = @ \cup written[x[1]]]
    /\ slipped' = [slipped EXCEPT ![x[1]] = @ \cup InWriting(x[1])]
    /\ UNCHANGED <<mode, sessionVars, beatVars, ended, held, stopped>>

\* The extraction succeeds or fails, and forgets the session: a turn that
\* came meanwhile is not tracked any more.
ForgetSession(x) ==
    /\ extract[x] = "reading"
    /\ extract' = [extract EXCEPT ![x] = "none"]
    /\ tracked' = tracked \ {x[1]}
    /\ SlipsAway(x[1], mode = "interval")
    /\ UNCHANGED <<mode, said, written, hook, table, timer, tried, beatVars, ended, held, stopped>>

-----------------------------------------------------------------------------
(***************************************************************************)
(* Timers.                                                                 *)
(***************************************************************************)

\* A quiet period is over.
IdleFires(s, n) ==
    /\ timer[s][n] = "waiting"
    /\ InWriting(s) = {}
    /\ timer' = [timer EXCEPT ![s][n] = "firing"]
    /\ UNCHANGED <<mode, said, written, hook, tracked, table, extractVars, beatVars, ended, held, stopped>>

\* _on_idle_extract: the entry of the session is dropped, whichever timer is
\* in it, then the session is ended.
OnIdleExtract(s, n) ==
    /\ timer[s][n] = "firing"
    /\ table' = [table EXCEPT ![s] = 0]
    /\ timer' = [timer EXCEPT ![s][n] = "over"]
    /\ StartExtract(s)
    /\ UNCHANGED <<mode, said, written, hook, tracked, beatVars, ended, held, stopped>>

BeatFires(b) ==
    /\ beat[b] = "waiting"
    /\ beat' = [beat EXCEPT ![b] = "firing"]
    /\ UNCHANGED <<mode, sessionVars, extractVars, halted, sweep, ended, held, stopped>>

\* _on_interval_extract: the tracked sessions are listed ...
Snapshot ==
    /\ beat["sweep"] = "firing"
    /\ sweep' = tracked
    /\ beat' = [beat EXCEPT !["sweep"] = "rearming"]
    /\ UNCHANGED <<mode, sessionVars, extractVars, halted, ended, held, stopped>>

\* ... and ended one by one.
SweepSession(s) ==
    /\ s \in sweep
    /\ sweep' = sweep \ {s}
    /\ EndSession(s)
    /\ UNCHANGED <<beat, halted, ended, held, stopped>>

\* _on_maintenance: its work is that of MemoryWorkers.
Maintain ==
    /\ beat["maintenance"] = "firing"
    /\ beat' = [beat EXCEPT !["maintenance"] = "rearming"]
    /\ UNCHANGED <<mode, sessionVars, extractVars, halted, sweep, ended, held, stopped>>

\* _arm_interval_extract, _arm_maintenance, at the end of the callback
Rearm(b) ==
    /\ beat[b] = "rearming"
    /\ b = "sweep" => sweep = {}
    /\ beat' = [beat EXCEPT ![b] = IF b \in halted THEN "off" ELSE "waiting"]
    /\ UNCHANGED <<mode, sessionVars, extractVars, halted, sweep, ended, held, stopped>>

-----------------------------------------------------------------------------
(***************************************************************************)
(* pause_background and shutdown.                                          *)
(***************************************************************************)

\* pause_background waits until no capture and no extraction is under way.
Quiet ==
    /\ \A s \in Sessions : InWriting(s) = {}
    /\ \A x \in Extracts : extract[x] = "none"

Holding ==
    /\ held \/ Quiet
    /\ held' = ~held
    /\ UNCHANGED <<mode, sessionVars, extractVars, beatVars, ended, stopped>>

Stop ==
    /\ ~stopped
    /\ stopped' = TRUE
    /\ UNCHANGED <<mode, sessionVars, extractVars, beatVars, ended, held>>

\* _stop_interval_timer, _stop_maintenance_timer
Halt(b) ==
    /\ stopped /\ b \notin halted
    /\ b = "maintenance" => "sweep" \in halted
    /\ halted' = halted \cup {b}
    /\ beat' = [beat EXCEPT ![b] = IF @ = "waiting" THEN "off" ELSE @]
    /\ UNCHANGED <<mode, sessionVars, extractVars, sweep, ended, held, stopped>>

\* Variant with a fault: the table keeps the timers that are cancelled.
CancelIdleOnly ==
    /\ halted = Beats
    /\ \E s \in Sessions : table[s] # 0
    /\ timer' = [s \in Sessions |-> IF table[s] = 0 THEN timer[s] ELSE Cancelled(s, table[s])]
    /\ UNCHANGED <<mode, said, written, hook, tracked, table, extractVars, beatVars, ended, held, stopped>>

\* shutdown(): the idle timers of the table are cancelled.
CancelIdle ==
    /\ halted = Beats
    /\ \E s \in Sessions : table[s] # 0
    /\ table' = [s \in Sessions |-> 0]
    /\ timer' = [s \in Sessions |-> IF table[s] = 0 THEN timer[s] ELSE Cancelled(s, table[s])]
    /\ UNCHANGED <<mode, said, written, hook, tracked, extractVars, beatVars, ended, held, stopped>>

-----------------------------------------------------------------------------
TimerStep(s) ==
    \/ WriteCapture(s) \/ ArmIdle(s) \/ SweepSession(s)
    \/ \E n \in Numbers : IdleFires(s, n) \/ OnIdleExtract(s, n)

ExtractStep(x) == ReadTurns(x) \/ ForgetSession(x)

BeatStep(b) == BeatFires(b) \/ Rearm(b) \/ (b = "sweep" /\ Snapshot) \/ (b = "maintenance" /\ Maintain)

TriggersNext ==
    \/ \E s \in Sessions : EndTurn(s) \/ TimerStep(s) \/ HostEndsSession(s)
    \/ \E x \in Extracts : ExtractStep(x)
    \/ \E b \in Beats : BeatStep(b) \/ Halt(b)
    \/ Holding \/ Stop \/ CancelIdle

TriggersSpec == TriggersInit /\ [][TriggersNext]_triggersVars

-----------------------------------------------------------------------------
(***************************************************************************)
(* Properties.                                                             *)
(***************************************************************************)

Unread(s) == Submitted(s) \ (tried[s] \cup slipped[s])

\* A captured turn that no extraction has read has a trigger: an idle timer,
\* its place among the tracked sessions, or an extraction that will read it.
\* Except: a turn that was still being written, or came, while an extraction
\* of its session was under way; and one whose idle timer fired during a
\* pause.
NothingForgotten == stopped \/ \A s \in Sessions : Unread(s) # {} => Due(s)

\* An idle timer that waits is the one shutdown() and the next turn will
\* cancel, unless a timer of the session fired after it was armed.
WaitingIsKnown ==
    \A s \in Sessions, n \in Numbers :
        timer[s][n] = "waiting" /\ table[s] # n
        => \E m \in 1..(n - 1) : timer[s][m] \in {"firing", "over"}

\* shutdown() stops the repeating timers for good, although their callbacks
\* arm them again.
HaltedIsFinal == \A b \in halted : beat[b] # "waiting"

\* Until shutdown() the repeating timers keep coming, whether or not there
\* was something to sweep.
BeatGoesOn == \A b \in Beating(mode) : beat[b] = "off" => b \in halted

\* No timer escapes the middleware, and none it needs is lost, although timers
\* fire, arm themselves again and are cancelled on different threads.
NoTimerEscapes == WaitingIsKnown /\ HaltedIsFinal /\ BeatGoesOn

-----------------------------------------------------------------------------
(***************************************************************************)
(* What the proofs rest on.                                                *)
(***************************************************************************)

\* The timer of the table is the last one that was armed, and the one that a
\* session's after_model has yet to arm comes after it.
TimersInOrder ==
    \A s \in Sessions :
        /\ s \in hook => said[s] # 0
        /\ \A n \in Numbers : timer[s][n] # "none" =>
              /\ n <= said[s]
              /\ s \in hook => n # said[s]
              /\ table[s] # 0 => n <= table[s]

\* A session is tracked as long as something of it is to be read.
TrackedWhileUnread ==
    mode = "interval" => \A s \in Sessions : Unread(s) # {} => s \in tracked

\* Only shutdown() halts the repeating timers; without the interval trigger
\* nothing is swept.
HaltedByShutdown ==
    /\ halted # {} => stopped
    /\ mode = "idle" => beat["sweep"] = "off"

TriggersInv ==
    /\ TimersInOrder /\ TrackedWhileUnread /\ HaltedByShutdown
    /\ NothingForgotten /\ NoTimerEscapes
=============================================================================
