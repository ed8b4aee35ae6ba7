--------------------------- MODULE DockerSandbox ---------------------------
(***************************************************************************)
(* Sandboxes and the containers behind them (backends/docker_sandbox.py).  *)
(*                                                                         *)
(* A sandbox is a Python object with a handle on a container.  Sandboxes   *)
(* of one agent share a named container, which persists; a sandbox without *)
(* a name has a container of its own, which goes when it is closed.        *)
(* Operations run on worker threads and lock nothing: each looks whether   *)
(* its container is still there, brings it back or acquires another, and   *)
(* then uses whatever the handle is.                                       *)
(*                                                                         *)
(* An action is one call to the Docker daemon, except that looking at a    *)
(* container and starting it are one: starting one that runs is no error.  *)
(***************************************************************************)
EXTENDS Naturals, FiniteSets

CONSTANTS
    Boxes,      \* sandboxes; each is also the thread that constructs it
    NamedBoxes, \* those with the name, all the same one
    Tasks,      \* operations
    Closings,   \* calls of close()
    Destroys,   \* calls of destroy()
    BoxOf,      \* the sandbox of an operation, a close or a destroy
    Containers,
    MaxUpsets,  \* bound: number of times a container stops or vanishes by itself
    Flaky,      \* may a call to the daemon fail?
    Nothing

Removers == Closings \cup Destroys
Doers == Boxes \cup Tasks
Box(a)   == IF a \in Boxes THEN a ELSE BoxOf[a]

ASSUME SandboxAssumption ==
    /\ NamedBoxes \subseteq Boxes
    /\ BoxOf \in [Tasks \cup Removers -> Boxes]
    /\ Boxes \cap (Tasks \cup Removers) = {} /\ Tasks \cap Removers = {}
    /\ Closings \cap Destroys = {}
    /\ MaxUpsets \in Nat /\ Flaky \in BOOLEAN
    /\ Containers \subseteq Nat /\ Nothing \notin Containers

VARIABLES
    state,    \* of a container: unmade, running, stopped or gone
    holder,   \* the container that has the name
    handle,   \* _container
    boxShut,  \* _closed
    boxPC,    \* where each thread and each close is
    cand,     \* the container it has in hand
    upsets,   \* number of upsets so far
    failed,   \* history: containers that a call failed on
    ended,    \* history: containers that a destroy removed, or that vanished
    strays    \* history: containers that nothing leads to, see Astray

dockerVars  == <<state, holder, upsets>>
boxVars     == <<handle, boxShut>>
blameVars   == <<failed, ended, strays>>
sandboxVars == <<dockerVars, boxVars, boxPC, cand, blameVars>>

SandboxTypeOK ==
    /\ state \in [Containers -> {"unmade", "running", "stopped", "gone"}]
    /\ holder \in Containers \cup {Nothing}
    /\ handle \in [Boxes -> Containers \cup {Nothing}]
    /\ boxShut \in SUBSET Boxes
    /\ boxPC \in [Doers \cup Removers ->
                    {"idle", "check", "get", "ensure", "rename", "create", "adopt", "use", "removing", "done", "failed"}]
    /\ cand \in [Doers \cup Removers -> Containers \cup {Nothing}]
    /\ upsets \in 0..MaxUpsets
    /\ failed \in SUBSET Containers /\ ended \in SUBSET Containers /\ strays \in SUBSET Containers

SandboxInit ==
    /\ state = [c \in Containers |-> "unmade"]
    /\ holder = Nothing
    /\ handle = [b \in Boxes |-> Nothing]
    /\ boxShut = {}
    /\ boxPC = [a \in Doers \cup Removers |-> "idle"]
    /\ cand = [a \in Doers \cup Removers |-> Nothing]
    /\ upsets = 0
    /\ failed = {} /\ ended = {} /\ strays = {}

Goes(a, l) == boxPC' = [boxPC EXCEPT ![a] = l]
Exists(c) == c # Nothing /\ state[c] \in {"running", "stopped"}
Becomes(c, s) == state' = [state EXCEPT ![c] = s]

\* The constructor has returned, which gives the sandbox to its callers.
Made(b) == boxPC[b] = "done"

\* An exception ends a constructor, which leaves no sandbox, or an operation.
Raises(a) == Goes(a, IF a \in Boxes THEN "failed" ELSE "done")

-----------------------------------------------------------------------------
(***************************************************************************)
(* _acquire_container: by the constructor, or by an operation whose        *)
(* container is not there any more.                                        *)
(***************************************************************************)

Acquiring(b) == IF b \in NamedBoxes THEN "get" ELSE "create"

Construct(b) ==
    /\ boxPC[b] = "idle"
    /\ Goes(b, Acquiring(b))
    /\ UNCHANGED <<dockerVars, boxVars, cand, blameVars>>

\* _get_named_container
GetNamed(a) ==
    /\ boxPC[a] = "get"
    /\ cand' = [cand EXCEPT ![a] = holder]
    /\ Goes(a, IF holder = Nothing THEN "create" ELSE "ensure")
    /\ UNCHANGED <<dockerVars, boxVars, blameVars>>

\* A container is looked at, and started if it is stopped.
Comes(c) == Exists(c) /\ Becomes(c, "running") /\ UNCHANGED failed
IsGone(c) == ~Exists(c) /\ UNCHANGED <<state, failed>>
FailsOn(c) ==
    /\ Flaky /\ Exists(c)
    /\ failed' = failed \cup {c}
    /\ UNCHANGED state

\* _ensure_running, of the named container: what is gone, or does not answer,
\* is not running.
EnsureNamed(a) ==
    /\ boxPC[a] = "ensure"
    /\ \/ Comes(cand[a]) /\ Goes(a, "adopt")
       \/ (IsGone(cand[a]) \/ FailsOn(cand[a])) /\ Goes(a, "rename")
    /\ UNCHANGED <<holder, upsets, boxVars, cand, ended, strays>>

Freed(c) == holder' = IF holder = c THEN Nothing ELSE holder

\* A container that could not be started gives up the name; a failure of that
\* is swallowed.
RenameOrphan(a) ==
    /\ boxPC[a] = "rename"
    /\ Freed(cand[a]) \/ (Flaky /\ UNCHANGED holder)
    /\ strays' = strays \cup {cand[a]}
    /\ Goes(a, "create")
    /\ UNCHANGED <<state, upsets, boxVars, cand, failed, ended>>

\* Variant with a fault: the container does not get the name.
CreateUnnamed(a) ==
    /\ boxPC[a] = "create"
    /\ \E c \in Containers :
          /\ state[c] = "unmade"
          /\ Becomes(c, "running")
          /\ cand' = [cand EXCEPT ![a] = c]
    /\ Goes(a, "adopt")
    /\ UNCHANGED <<holder, upsets, boxVars, blameVars>>

\* _create_container: the daemon refuses a name that is taken.
Create(a) ==
    /\ boxPC[a] = "create"
    /\ \/ /\ Flaky \/ (Box(a) \in NamedBoxes /\ holder # Nothing)
          /\ Raises(a)
          /\ UNCHANGED <<state, holder, cand>>
       \/ \E c \in Containers :
             /\ state[c] = "unmade" /\ \A d \in Containers : d < c => state[d] # "unmade"
             /\ Box(a) \in NamedBoxes => holder = Nothing
             /\ holder' = IF Box(a) \in NamedBoxes THEN c ELSE holder
             /\ Becomes(c, "running")
             /\ cand' = [cand EXCEPT ![a] = c]
             /\ Goes(a, "adopt")
    /\ UNCHANGED <<upsets, boxVars, blameVars>>

\* Containers without a name that nothing leads to any more: an operation
\* takes the place of what another one of the sandbox has acquired, or
\* acquires one for a sandbox that is closed; the constructor fails after it.
\* Containers that gave up the name are the third kind.
Astray(S) == strays' = strays \cup {c \in S : c # Nothing /\ c # holder}

\* The container becomes that of the sandbox, and its workspace is made.
Adopt(a) ==
    LET b == Box(a)  c == cand[a] IN
    /\ boxPC[a] = "adopt"
    /\ handle' = [handle EXCEPT ![b] = c]
    /\ Astray(({handle[b]} \ {c}) \cup (IF b \in boxShut THEN {c} ELSE {}))
    /\ Goes(a, IF a \in Boxes THEN "done" ELSE "use")
    /\ UNCHANGED <<dockerVars, boxShut, cand, failed, ended>>

\* The constructor cannot make the workspace and fails.
ConstructorFails(b) ==
    /\ Flaky /\ boxPC[b] = "adopt"
    /\ Astray({cand[b]})
    /\ Raises(b)
    /\ UNCHANGED <<dockerVars, boxVars, cand, failed, ended>>

-----------------------------------------------------------------------------
(***************************************************************************)
(* Operations.                                                             *)
(***************************************************************************)

\* _ensure_open: nothing is done for a sandbox that is closed.
BeginTask(t) ==
    /\ boxPC[t] = "idle" /\ Made(BoxOf[t])
    /\ Goes(t, IF BoxOf[t] \in boxShut THEN "done" ELSE "check")
    /\ UNCHANGED <<dockerVars, boxVars, cand, blameVars>>

\* _rebind_if_missing: another container is acquired for one that is gone or
\* cannot be started.  A handle that a destroy took away is kept, and so is
\* one that does not answer.
Rebind(t) ==
    LET h == handle[BoxOf[t]] IN
    /\ boxPC[t] = "check"
    /\ \/ Comes(h) /\ Goes(t, "use")
       \/ h # Nothing /\ IsGone(h) /\ Goes(t, Acquiring(BoxOf[t]))
       \/ FailsOn(h) /\ state[h] = "stopped" /\ Goes(t, Acquiring(BoxOf[t]))
       \/ (h = Nothing \/ Flaky) /\ Goes(t, "use") /\ UNCHANGED <<state, failed>>
    /\ UNCHANGED <<holder, upsets, boxVars, cand, ended, strays>>

\* The command runs, or fails, in the container that the handle is now.
Use(t) ==
    /\ boxPC[t] = "use"
    /\ Goes(t, "done")
    /\ UNCHANGED <<dockerVars, boxVars, cand, blameVars>>

-----------------------------------------------------------------------------
(***************************************************************************)
(* close() and destroy(), one at a time for a sandbox.                     *)
(***************************************************************************)

BoxFree(x) == \A y \in Removers : BoxOf[y] = BoxOf[x] => boxPC[y] # "removing"

\* Variant with a fault: the container goes with the sandbox, named or not.
CloseRemoving(x) ==
    LET b == BoxOf[x] IN
    /\ boxPC[x] = "idle" /\ x \in Closings /\ BoxFree(x) /\ Made(b)
    /\ boxShut' = boxShut \cup {b}
    /\ cand' = [cand EXCEPT ![x] = handle[b]]
    /\ Goes(x, IF b \in boxShut THEN "done" ELSE "removing")
    /\ UNCHANGED <<dockerVars, handle, blameVars>>

\* close(): a named container stays, another one is removed.
CloseBox(x) ==
    LET b == BoxOf[x] IN
    /\ boxPC[x] = "idle" /\ x \in Closings /\ BoxFree(x) /\ Made(b)
    /\ boxShut' = boxShut \cup {b}
    /\ cand' = [cand EXCEPT ![x] = handle[b]]
    /\ Goes(x, IF b \in boxShut \cup NamedBoxes THEN "done" ELSE "removing")
    /\ UNCHANGED <<dockerVars, handle, blameVars>>

\* destroy()
DestroyBox(x) ==
    LET b == BoxOf[x] IN
    /\ boxPC[x] = "idle" /\ x \in Destroys /\ BoxFree(x) /\ Made(b)
    /\ boxShut' = boxShut \cup {b}
    /\ cand' = [cand EXCEPT ![x] = handle[b]]
    /\ Goes(x, IF handle[b] = Nothing THEN "done" ELSE "removing")
    /\ UNCHANGED <<dockerVars, handle, blameVars>>

\* The container is stopped and removed; a failure is swallowed.  An
\* operation may have given the sandbox another container meanwhile, which a
\* destroy then forgets.
RemoveBox(x) ==
    LET b == BoxOf[x]  c == cand[x] IN
    /\ boxPC[x] = "removing"
    /\ \/ /\ Becomes(c, "gone")
          /\ Freed(c)
          /\ ended' = IF x \in Destroys THEN ended \cup {c} ELSE ended
          /\ UNCHANGED failed
       \/ /\ FailsOn(c)
          /\ UNCHANGED <<holder, ended>>
       \/ /\ Flaky /\ Exists(c) /\ b \in NamedBoxes
          /\ Becomes(c, "stopped")
          /\ failed' = failed \cup {c}
          /\ UNCHANGED <<holder, ended>>
    /\ handle' = IF x \in Destroys THEN [handle EXCEPT ![b] = Nothing] ELSE handle
    /\ Goes(x, "done")
    /\ UNCHANGED <<upsets, boxShut, cand, strays>>

\* A container stops, or vanishes, without the program's doing; one without
\* a name is removed by the daemon when it stops.
Upset(c) ==
    /\ Exists(c) /\ upsets < MaxUpsets
    /\ upsets' = upsets + 1
    /\ \/ state[c] = "running" /\ c = holder /\ Becomes(c, "stopped") /\ UNCHANGED <<holder, ended>>
       \/ Becomes(c, "gone") /\ Freed(c) /\ ended' = ended \cup {c}
    /\ UNCHANGED <<boxVars, boxPC, cand, failed, strays>>

-----------------------------------------------------------------------------
AcquireStep(a) == GetNamed(a) \/ EnsureNamed(a) \/ RenameOrphan(a) \/ Create(a) \/ Adopt(a)
BoxStep(b)     == Construct(b) \/ ConstructorFails(b)
TaskStep(t)    == BeginTask(t) \/ Rebind(t) \/ Use(t)

SandboxNext ==
    \/ \E a \in Doers : AcquireStep(a)
    \/ \E b \in Boxes : BoxStep(b)
    \/ \E t \in Tasks : TaskStep(t)
    \/ \E x \in Removers : CloseBox(x) \/ DestroyBox(x) \/ RemoveBox(x)
    \/ \E c \in Containers : Upset(c)

SandboxSpec == SandboxInit /\ [][SandboxNext]_sandboxVars

-----------------------------------------------------------------------------
(***************************************************************************)
(* Properties.                                                             *)
(***************************************************************************)

\* No container is left behind: one that runs has the name, or belongs to a
\* sandbox that is open, or a thread is about to hand it over or to remove
\* it.  The exceptions are those of Astray and those whose removal failed.
NoContainerLeft ==
    \A c \in Containers : state[c] = "running" /\ c \notin strays \cup failed =>
        \/ c = holder
        \/ \E b \in Boxes \ boxShut : handle[b] = c
        \/ \E a \in Doers : boxPC[a] = "adopt" /\ cand[a] = c
        \/ \E x \in Removers : boxPC[x] = "removing" /\ cand[x] = c

\* The named workspace is one and stays: an operation of any sandbox with the
\* name works in the container that has the name, and it is never removed
\* but by a destroy.  A container that a call failed on is the exception: the
\* sandboxes that still have a handle on it may bring it back beside the one
\* that took its name.
WorkspaceIsOne ==
    /\ \A t \in Tasks : LET h == handle[BoxOf[t]] IN
          boxPC[t] = "use" /\ BoxOf[t] \in NamedBoxes /\ Exists(h) => h = holder \/ h \in failed
    /\ \A b \in NamedBoxes :
          handle[b] # Nothing /\ state[handle[b]] = "gone" => handle[b] \in ended

\* No container is left behind and no workspace is split or lost.
ContainersInHand == NoContainerLeft /\ WorkspaceIsOne

-----------------------------------------------------------------------------
(***************************************************************************)
(* What the proofs rest on.                                                *)
(***************************************************************************)

\* Containers that a sandbox with the name, or an operation or a close of
\* one, has its hand on; and those of the other sandboxes.
InNamed(c) ==
    \/ c = holder
    \/ \E b \in NamedBoxes : handle[b] = c
    \/ \E a \in Doers \cup Removers : Box(a) \in NamedBoxes /\ cand[a] = c
InOwn(c) ==
    \/ \E b \in Boxes \ NamedBoxes : handle[b] = c
    \/ \E a \in Doers \cup Removers : Box(a) \notin NamedBoxes /\ cand[a] = c

\* No container is in hands of both kinds; one of the sandboxes with the name
\* has the name as long as it is there, unless a call failed on it, and goes
\* only by a destroy or by itself.
HandsApart ==
    \A c \in Containers :
        /\ InNamed(c) => /\ ~InOwn(c)
                         /\ Exists(c) => c = holder \/ c \in failed
                         /\ state[c] = "gone" => c \in ended
        /\ InNamed(c) \/ InOwn(c) => state[c] # "unmade"
        /\ state[c] = "stopped" => c = holder \/ c \in failed

\* Who is where, and with what in hand.
BoxPlaces ==
    /\ \A a \in Doers :
          /\ boxPC[a] \in {"get", "ensure", "rename"} => Box(a) \in NamedBoxes
          /\ boxPC[a] \in {"ensure", "rename"} => cand[a] # Nothing
          /\ boxPC[a] = "rename" => cand[a] \in failed \/ ~Exists(cand[a])
    /\ \A x \in Removers : boxPC[x] = "removing" =>
          /\ BoxOf[x] \in boxShut
          /\ IF x \in Destroys THEN cand[x] # Nothing ELSE BoxOf[x] \notin NamedBoxes

SandboxInv == HandsApart /\ BoxPlaces /\ NoContainerLeft
=============================================================================
