------------------------------ MODULE MCInbox ------------------------------
(***************************************************************************)
(* Instances of Inbox, by crews.  "calm": three messages to two callees    *)
(* from two source threads, nothing stopped.  "stops": two messages that   *)
(* contend for both locks, the hooks of one raising anything, and          *)
(* cancel_worker() and shutdown().  "closing": two messages and shutdown() *)
(***************************************************************************)
EXTENDS Inbox, TLC

CONSTANTS m1, m2, m3, m4, a1, a2, s1, s2, c1,
          Crews    \* the crews a run looks at

\* The source is a thread; each message has an id of its own.
MCTargetOf == [m \in Msgs |-> IF m = m3 THEN a2 ELSE a1]
MCSourceOf == [m \in Msgs |-> IF m \in {m2, m3} THEN s2 ELSE s1]
MCJobIdOf  == [m \in Msgs |-> m]

VARIABLE crew

Crew == CASE crew = "calm"    -> {m1, m2, m3}
          [] crew = "stops"   -> {m1, m4, c1}
          [] crew = "closing" -> {m1, m2, c1}

MCInit == InboxInit /\ crew \in Crews

MCNext ==
    /\ InboxNext
    /\ UNCHANGED crew
    /\ \A m \in Msgs \ Crew : status'[m] = "new"
    /\ \A c \in Closers \ Crew : closer'[c] = "idle"
    /\ crew # "stops" => stops' = 0

\* Fairness asks nothing of the host, and of a message not yet submitted.
MCSpec == MCInit /\ [][MCNext]_<<inboxVars, crew>> /\ InboxFairness

\* As long as the worker is not stopped every accepted message is answered in
\* the end (teams/inbox.py:221-235, 237-251): slots, locks and table entries
\* are given back on every path, so nobody waits for ever.
CalmJobsAnswered == crew = "calm" => EveryJobAnswered
=============================================================================
