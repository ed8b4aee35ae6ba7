----------------------------- MODULE MemoryLease -----------------------------
(***************************************************************************)
(* What the process-wide memory store (memory/store.py) promises to the    *)
(* agents: all who use one memory location at a time use the same Memory   *)
(* object, and its connections are closed only when nobody uses it.        *)
(***************************************************************************)
CONSTANTS
    Users,  \* the runtimes that lease a memory; the one a runtime constructs
            \* bears its name
    Keys,   \* memory locations
    KeyOf,  \* the location of a runtime
    None

VARIABLES
    lease,  \* the memory each runtime uses, or None
    shut    \* the memories whose connections are closed

leaseVars == <<lease, shut>>

Init ==
    /\ lease = [u \in Users |-> None]
    /\ shut = {}

Take(u) ==
    /\ lease[u] = None
    /\ \E m \in Users \ shut :
          /\ KeyOf[m] = KeyOf[u]
          /\ \A v \in Users :
                (lease[v] # None /\ KeyOf[v] = KeyOf[u]) => lease[v] = m
          /\ lease' = [lease EXCEPT ![u] = m]
    /\ UNCHANGED shut

GiveBack(u) ==
    /\ lease[u] # None
    /\ lease' = [lease EXCEPT ![u] = None]
    /\ UNCHANGED shut

Shut(m) ==
    /\ m \notin shut
    /\ \A u \in Users : lease[u] # m
    /\ shut' = shut \cup {m}
    /\ UNCHANGED lease

Next == \E u \in Users : Take(u) \/ GiveBack(u) \/ Shut(u)

Spec == Init /\ [][Next]_leaseVars
=============================================================================
