----------------------------- MODULE MCReloads ------------------------------
(***************************************************************************)
(* Agents that are rebuilt and removed, by crews.  "loop": two turns, all  *)
(* calls on the event loop.  "busy": one turn, a removal, and a rebuild on *)
(* a thread of the host.  "ends": one turn, such a rebuild and a shutdown. *)
(* "hosts": the rebuild, a removal, a shutdown and a second agent at the   *)
(* same memory location.  "removed": one turn, and a removal.              *)
(***************************************************************************)
EXTENDS AgentReload

CONSTANTS c1, c2, r1, r2, d1, x1, t1, t2, i1, i2, k1,
          Crews    \* the crews a run looks at

MCIdOf == [a \in (Ops \ Shutdowns) \cup Turns |-> IF a = c2 THEN i2 ELSE i1]
MCLocation == [i \in Ids |-> k1]
MCPins  == {PinOf(o) : o \in Rebuilds}
MCKeyOf == [a \in Agents \cup MCPins |-> k1]

VARIABLE crew

Crew == CASE crew = "loop"    -> {c1, r1, d1, t1, t2}
          [] crew = "busy"    -> {c1, r2, d1, t1}
          [] crew = "ends"    -> {c1, r2, x1, t1}
          [] crew = "hosts"   -> {c1, c2, r2, d1, x1}
          [] crew = "removed" -> {c1, d1, t1}

MCInit == Init /\ crew \in Crews

MCNext ==
    /\ Next
    /\ UNCHANGED crew
    /\ \A o \in Ops \ Crew : op'[o] = "idle"
    /\ \A t \in Turns \ Crew : turn'[t] = "idle"

\* Fairness asks nothing of an operation that has not begun.
MCSpec == MCInit /\ [][MCNext]_<<vars, crew>> /\ Fairness

\* On the event loop an agent that was built and is not (or no longer)
\* registered gives its Memory back in the end, whatever close was deferred
\* (agent.py:1014).
GivesBack == crew = "loop" => RemovedIsReleased
=============================================================================
