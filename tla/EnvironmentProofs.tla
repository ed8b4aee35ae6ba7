-------------------------- MODULE EnvironmentProofs --------------------------
(***************************************************************************)
(* Theorems about what an agent works in: four modules that share no       *)
(* state.  Of DockerSandbox, for any sandboxes, operations, closes and     *)
(* containers, and any number of upsets, with a daemon that may fail.  Of  *)
(* ObjectStore, for any operations, paths and texts, with requests that    *)
(* may fail.  Of ShellEnv, for any commands, writes and keys.  Of          *)
(* BrowserTabs, for any calls and pages, with a user beside them.          *)
(***************************************************************************)
EXTENDS DockerSandbox, ObjectStore, ShellEnv, BrowserTabs, FiniteSetTheorems, SequenceTheorems,
        WellFoundedInduction, TLAPS

Acts == Doers \cup Removers
Places == {"idle", "check", "get", "ensure", "rename", "create", "adopt", "use", "removing", "done",
           "failed"}

LEMMA BoxFacts ==
    /\ NamedBoxes \subseteq Boxes
    /\ \A a \in Acts : Box(a) \in Boxes
    /\ \A b \in Boxes : b \in Doers /\ Box(b) = b
    /\ \A t \in Tasks : t \in Doers /\ Box(t) = BoxOf[t]
    /\ \A x \in Removers : x \in Acts /\ Box(x) = BoxOf[x]
    /\ \A a \in Doers : a \in Acts /\ a \notin Removers
    /\ \A x \in Closings : x \notin Destroys
    /\ Nothing \notin Containers
BY SandboxAssumption DEF Acts, Doers, Removers, Box

-----------------------------------------------------------------------------
(***************************************************************************)
(* Types.                                                                  *)
(***************************************************************************)

LEMMA DoerTypes ==
    ASSUME SandboxTypeOK, BoxPlaces, NEW a \in Doers, AcquireStep(a)
    PROVE  SandboxTypeOK'
<1> USE BoxFacts DEF SandboxTypeOK, Goes, dockerVars, boxVars, blameVars
<1>1. CASE GetNamed(a)
  BY <1>1 DEF GetNamed
<1>2. CASE EnsureNamed(a)
  <2>1. state' \in [Containers -> {"unmade", "running", "stopped", "gone"}]
    BY <1>2 DEF EnsureNamed, Comes, IsGone, FailsOn, Becomes
  <2>2. failed' \in SUBSET Containers
    BY <1>2 DEF EnsureNamed, Comes, IsGone, FailsOn, Exists, BoxPlaces
  <2>3. boxPC' \in [Acts -> Places]
    BY <1>2 DEF EnsureNamed, Acts, Places
  <2> QED
    BY <1>2, <2>1, <2>2, <2>3 DEF EnsureNamed, Acts, Places
<1>3. CASE RenameOrphan(a)
  <2>1. cand[a] \in Containers
    BY <1>3 DEF RenameOrphan, BoxPlaces
  <2> QED
    BY <1>3, <2>1 DEF RenameOrphan, Freed
<1>4. CASE Create(a)
  <2>1. CASE Raises(a) /\ UNCHANGED <<state, holder, cand>>
    BY <1>4, <2>1 DEF Create, Raises
  <2>2. ASSUME NEW c \in Containers,
               holder' = IF Box(a) \in NamedBoxes THEN c ELSE holder,
               Becomes(c, "running"), cand' = [cand EXCEPT ![a] = c], Goes(a, "adopt")
        PROVE  SandboxTypeOK'
    BY <1>4, <2>2 DEF Create, Becomes
  <2> QED
    BY <1>4, <2>1, <2>2 DEF Create
<1>5. CASE Adopt(a)
  <2>1. strays' \in SUBSET Containers
    BY <1>5 DEF Adopt, Astray
  <2>2. handle' \in [Boxes -> Containers \cup {Nothing}]
    BY <1>5 DEF Adopt
  <2>3. boxPC' \in [Acts -> Places]
    BY <1>5 DEF Adopt, Acts, Places
  <2> QED
    BY <1>5, <2>1, <2>2, <2>3 DEF Adopt, Acts, Places
<1> QED
  BY <1>1, <1>2, <1>3, <1>4, <1>5 DEF AcquireStep

LEMMA OtherTypes ==
    ASSUME SandboxTypeOK, BoxPlaces,
           \/ \E b \in Boxes : BoxStep(b)
           \/ \E t \in Tasks : TaskStep(t)
           \/ \E x \in Removers : CloseBox(x) \/ DestroyBox(x) \/ RemoveBox(x)
           \/ \E c \in Containers : Upset(c)
           \/ UNCHANGED sandboxVars
    PROVE  SandboxTypeOK'
<1> USE BoxFacts DEF SandboxTypeOK, Goes, dockerVars, boxVars, blameVars
<1>1. ASSUME NEW b \in Boxes, Construct(b) PROVE SandboxTypeOK'
  BY <1>1 DEF Construct, Acquiring
<1>2. ASSUME NEW b \in Boxes, ConstructorFails(b) PROVE SandboxTypeOK'
  BY <1>2 DEF ConstructorFails, Astray, Raises
<1>3. ASSUME NEW t \in Tasks, BeginTask(t) \/ Use(t) PROVE SandboxTypeOK'
  BY <1>3 DEF BeginTask, Use
<1>4. ASSUME NEW t \in Tasks, Rebind(t) PROVE SandboxTypeOK'
  <2>1. state' \in [Containers -> {"unmade", "running", "stopped", "gone"}]
    BY <1>4 DEF Rebind, Comes, IsGone, FailsOn, Becomes
  <2>2. failed' \in SUBSET Containers
    BY <1>4 DEF Rebind, Comes, IsGone, FailsOn, Exists
  <2>3. boxPC' \in [Acts -> Places]
    BY <1>4 DEF Rebind, Acquiring, Acts, Places
  <2> QED
    BY <1>4, <2>1, <2>2, <2>3 DEF Rebind, Acts, Places
<1>5. ASSUME NEW x \in Removers, CloseBox(x) \/ DestroyBox(x) PROVE SandboxTypeOK'
  BY <1>5 DEF CloseBox, DestroyBox
<1>6. ASSUME NEW x \in Removers, RemoveBox(x) PROVE SandboxTypeOK'
  <2>1. state' \in [Containers -> {"unmade", "running", "stopped", "gone"}]
    BY <1>6 DEF RemoveBox, FailsOn, Becomes
  <2>2. failed' \in SUBSET Containers /\ ended' \in SUBSET Containers
    BY <1>6 DEF RemoveBox, FailsOn, Exists, BoxPlaces
  <2>3. holder' \in Containers \cup {Nothing} /\ handle' \in [Boxes -> Containers \cup {Nothing}]
    BY <1>6 DEF RemoveBox, Freed
  <2>4. boxPC' \in [Acts -> Places]
    BY <1>6 DEF RemoveBox, Acts, Places
  <2> QED
    BY <1>6, <2>1, <2>2, <2>3, <2>4 DEF RemoveBox, Acts, Places
<1>7. ASSUME NEW c \in Containers, Upset(c) PROVE SandboxTypeOK'
  <2>1. upsets' \in 0..MaxUpsets
    BY <1>7, SandboxAssumption DEF Upset
  <2>2. /\ state' \in [Containers -> {"unmade", "running", "stopped", "gone"}]
        /\ holder' \in Containers \cup {Nothing} /\ ended' \in SUBSET Containers
    BY <1>7 DEF Upset, Becomes, Freed
  <2> QED
    BY <1>7, <2>1, <2>2 DEF Upset
<1>8. CASE UNCHANGED sandboxVars
  BY <1>8 DEF sandboxVars
<1> QED
  BY <1>1, <1>2, <1>3, <1>4, <1>5, <1>6, <1>7, <1>8 DEF BoxStep, TaskStep

-----------------------------------------------------------------------------
(***************************************************************************)
(* Who is where.                                                           *)
(***************************************************************************)

\* Whoever takes the name from a container has seen it gone, or failing.
GivenUp(c) == c \in failed \/ ~Exists(c)

\* A step of one operation, constructor or close, with what it has in hand.
LEMMA PlacesFrame ==
    ASSUME SandboxTypeOK, BoxPlaces, HandsApart, NEW a,
           \A e \in Acts \ {a} : boxPC'[e] = boxPC[e] /\ cand'[e] = cand[e],
           \A c \in Containers : GivenUp(c) /\ state[c] # "unmade" => GivenUp(c)',
           boxShut \subseteq boxShut',
           a \in Doers =>
              /\ boxPC'[a] \in {"get", "ensure", "rename"} => Box(a) \in NamedBoxes
              /\ boxPC'[a] \in {"ensure", "rename"} => cand'[a] # Nothing
              /\ boxPC'[a] = "rename" => \E c \in Containers : cand'[a] = c /\ GivenUp(c)',
           a \in Removers => (boxPC'[a] = "removing" =>
              /\ BoxOf[a] \in boxShut'
              /\ IF a \in Destroys THEN cand'[a] # Nothing ELSE BoxOf[a] \notin NamedBoxes)
    PROVE  BoxPlaces'
<1>1. ASSUME NEW e \in Doers
      PROVE  /\ boxPC'[e] \in {"get", "ensure", "rename"} => Box(e) \in NamedBoxes
             /\ boxPC'[e] \in {"ensure", "rename"} => cand'[e] # Nothing
             /\ boxPC'[e] = "rename" => \E c \in Containers : cand'[e] = c /\ GivenUp(c)'
  <2>1. CASE e = a
    BY <2>1
  <2>2. CASE e # a
    <3>1. boxPC'[e] = boxPC[e] /\ cand'[e] = cand[e]
      BY <2>2 DEF Acts
    <3>2. boxPC[e] = "rename" => cand[e] \in Containers /\ GivenUp(cand[e])
      BY DEF BoxPlaces, SandboxTypeOK, GivenUp
    <3>3. boxPC[e] = "rename" => state[cand[e]] # "unmade"
      BY <3>2 DEF HandsApart, InNamed, InOwn
    <3> QED
      BY <3>1, <3>2, <3>3 DEF BoxPlaces
  <2> QED
    BY <2>1, <2>2
<1>2. ASSUME NEW x \in Removers, boxPC'[x] = "removing"
      PROVE  /\ BoxOf[x] \in boxShut'
             /\ IF x \in Destroys THEN cand'[x] # Nothing ELSE BoxOf[x] \notin NamedBoxes
  <2>1. CASE x = a
    BY <1>2, <2>1
  <2>2. CASE x # a
    <3>1. boxPC'[x] = boxPC[x] /\ cand'[x] = cand[x]
      BY <2>2 DEF Acts
    <3> QED
      BY <1>2, <3>1 DEF BoxPlaces
  <2> QED
    BY <2>1, <2>2
<1> QED
  BY <1>1, <1>2 DEF BoxPlaces, GivenUp, Exists

\* What is gone stays gone, and what failed is remembered.
LEMMA GivenUpStays ==
    ASSUME SandboxTypeOK, BoxPlaces, SandboxNext, NEW c \in Containers, GivenUp(c),
           state[c] # "unmade"
    PROVE  GivenUp(c)'
<1>0. c # Nothing
  BY BoxFacts
<1>1. failed \subseteq failed' /\ (state'[c] = state[c] \/ state'[c] = "gone" \/ Exists(c))
  <2>1. ASSUME NEW a \in Doers, AcquireStep(a)
        PROVE  failed \subseteq failed' /\ (state'[c] = state[c] \/ state'[c] = "gone" \/ Exists(c))
    BY <2>1 DEF AcquireStep, GetNamed, EnsureNamed, RenameOrphan, Create, Adopt, Comes, IsGone, FailsOn,
                Becomes, SandboxTypeOK, dockerVars, blameVars
  <2>2. ASSUME NEW b \in Boxes, BoxStep(b) PROVE failed \subseteq failed' /\ state'[c] = state[c]
    BY <2>2 DEF BoxStep, Construct, ConstructorFails, dockerVars, blameVars
  <2>3. ASSUME NEW t \in Tasks, TaskStep(t)
        PROVE  failed \subseteq failed' /\ (state'[c] = state[c] \/ Exists(c))
    BY <2>3 DEF TaskStep, BeginTask, Rebind, Use, Comes, IsGone, FailsOn, Becomes, SandboxTypeOK,
                dockerVars, blameVars
  <2>4. ASSUME NEW x \in Removers, CloseBox(x) \/ DestroyBox(x) \/ RemoveBox(x)
        PROVE  failed \subseteq failed' /\ (state'[c] = state[c] \/ state'[c] = "gone" \/ Exists(c))
    BY <2>4 DEF CloseBox, DestroyBox, RemoveBox, FailsOn, Becomes, SandboxTypeOK, dockerVars, blameVars
  <2>5. ASSUME NEW d \in Containers, Upset(d)
        PROVE  failed \subseteq failed' /\ (state'[c] = state[c] \/ Exists(c))
    BY <2>5 DEF Upset, Becomes, SandboxTypeOK
  <2> QED
    BY <2>1, <2>2, <2>3, <2>4, <2>5 DEF SandboxNext
<1> QED
  BY <1>0, <1>1 DEF GivenUp, Exists

LEMMA PlacesInductive ==
    ASSUME SandboxTypeOK, BoxPlaces, HandsApart, [SandboxNext]_sandboxVars
    PROVE  BoxPlaces'
<1> USE DEF Goes, dockerVars, boxVars, blameVars
<1>0. \A c \in Containers : GivenUp(c) /\ state[c] # "unmade" /\ SandboxNext => GivenUp(c)'
  BY GivenUpStays
<1>1. ASSUME NEW a \in Doers, AcquireStep(a) PROVE BoxPlaces'
  <2>1. \A c \in Containers : GivenUp(c) /\ state[c] # "unmade" => GivenUp(c)'
    BY <1>0, <1>1 DEF SandboxNext
  <2>2. \A e \in Acts \ {a} : boxPC'[e] = boxPC[e] /\ cand'[e] = cand[e]
    BY <1>1 DEF AcquireStep, GetNamed, EnsureNamed, RenameOrphan, Create, Adopt, Raises, SandboxTypeOK, Acts
  <2>3. UNCHANGED boxShut
    BY <1>1 DEF AcquireStep, GetNamed, EnsureNamed, RenameOrphan, Create, Adopt
  <2>4. CASE GetNamed(a)
    <3>1. boxPC[a] = "get" /\ boxPC'[a] \in {"create", "ensure"} /\ cand'[a] = holder
          /\ (boxPC'[a] = "ensure" => holder # Nothing)
      BY <2>4 DEF GetNamed, SandboxTypeOK
    <3> QED
      BY <2>1, <2>2, <2>3, <3>1, PlacesFrame, BoxFacts DEF BoxPlaces
  <2>5. CASE EnsureNamed(a)
    <3>1. /\ boxPC[a] = "ensure" /\ boxPC'[a] \in {"adopt", "rename"} /\ cand'[a] = cand[a]
          /\ boxPC'[a] = "rename" => IsGone(cand[a]) \/ FailsOn(cand[a])
      BY <2>5 DEF EnsureNamed, SandboxTypeOK
    <3>2. cand[a] \in Containers /\ Box(a) \in NamedBoxes
      BY <3>1 DEF BoxPlaces, SandboxTypeOK
    <3>3. boxPC'[a] = "rename" => GivenUp(cand[a]) \/ cand[a] \in failed'
      BY <3>1 DEF IsGone, FailsOn, GivenUp
    <3>4. state[cand[a]] # "unmade"
      BY <3>2 DEF HandsApart, InNamed
    <3>5. boxPC'[a] = "rename" => \E c \in Containers : cand'[a] = c /\ GivenUp(c)'
      BY <2>1, <3>1, <3>2, <3>3, <3>4 DEF GivenUp
    <3> QED
      BY <2>1, <2>2, <2>3, <3>1, <3>2, <3>5, PlacesFrame, BoxFacts
  <2>6. CASE RenameOrphan(a) \/ Create(a) \/ Adopt(a)
    <3>1. boxPC'[a] \in {"create", "adopt", "failed", "done", "use"}
      BY <2>6 DEF RenameOrphan, Create, Adopt, Raises, SandboxTypeOK
    <3> QED
      BY <2>1, <2>2, <2>3, <3>1, PlacesFrame, BoxFacts
  <2> QED
    BY <1>1, <2>4, <2>5, <2>6 DEF AcquireStep
<1>2. ASSUME NEW b \in Boxes, BoxStep(b) PROVE BoxPlaces'
  <2>1. /\ \A e \in Acts \ {b} : boxPC'[e] = boxPC[e]
        /\ UNCHANGED <<cand, boxShut, state, failed>>
        /\ boxPC'[b] \in {"create", "failed"} \/ (boxPC'[b] = "get" /\ b \in NamedBoxes)
    BY <1>2, BoxFacts DEF BoxStep, Construct, ConstructorFails, Acquiring, Raises, SandboxTypeOK, Acts
  <2>2. \A c \in Containers : GivenUp(c)' = GivenUp(c)
    BY <2>1 DEF GivenUp, Exists
  <2> QED
    BY <2>1, <2>2, PlacesFrame, BoxFacts
<1>3. ASSUME NEW t \in Tasks, TaskStep(t) PROVE BoxPlaces'
  <2>1. \A c \in Containers : GivenUp(c) /\ state[c] # "unmade" => GivenUp(c)'
    BY <1>0, <1>3 DEF SandboxNext
  <2>2. /\ \A e \in Acts \ {t} : boxPC'[e] = boxPC[e]
        /\ UNCHANGED <<cand, boxShut>>
        /\ \/ boxPC'[t] \in {"done", "check", "use", "create"}
           \/ boxPC'[t] = "get" /\ BoxOf[t] \in NamedBoxes
    BY <1>3, BoxFacts DEF TaskStep, BeginTask, Rebind, Use, Acquiring, SandboxTypeOK, Acts
  <2> QED
    BY <2>1, <2>2, PlacesFrame, BoxFacts
<1>4. ASSUME NEW x \in Removers, CloseBox(x) \/ DestroyBox(x) \/ RemoveBox(x) PROVE BoxPlaces'
  <2>1. \A c \in Containers : GivenUp(c) /\ state[c] # "unmade" => GivenUp(c)'
    BY <1>0, <1>4 DEF SandboxNext
  <2>2. \A e \in Acts \ {x} : boxPC'[e] = boxPC[e] /\ cand'[e] = cand[e]
    BY <1>4 DEF CloseBox, DestroyBox, RemoveBox, SandboxTypeOK, Acts
  <2>3. CASE CloseBox(x)
    <3>1. /\ boxShut' = boxShut \cup {BoxOf[x]} /\ x \in Closings
          /\ boxPC'[x] = "removing" => BoxOf[x] \notin NamedBoxes
      BY <2>3 DEF CloseBox, SandboxTypeOK
    <3> QED
      BY <2>1, <2>2, <3>1, PlacesFrame, BoxFacts
  <2>4. CASE DestroyBox(x)
    <3>1. /\ boxShut' = boxShut \cup {BoxOf[x]} /\ x \in Destroys /\ cand'[x] = handle[BoxOf[x]]
          /\ boxPC'[x] = "removing" => handle[BoxOf[x]] # Nothing
      BY <2>4 DEF DestroyBox, SandboxTypeOK
    <3> QED
      BY <2>1, <2>2, <3>1, PlacesFrame, BoxFacts
  <2>5. CASE RemoveBox(x)
    <3>1. UNCHANGED boxShut /\ boxPC'[x] = "done"
      BY <2>5 DEF RemoveBox, SandboxTypeOK
    <3> QED
      BY <2>1, <2>2, <3>1, PlacesFrame, BoxFacts
  <2> QED
    BY <1>4, <2>3, <2>4, <2>5
<1>5. ASSUME NEW d \in Containers, Upset(d) PROVE BoxPlaces'
  <2>1. \A c \in Containers : GivenUp(c) /\ state[c] # "unmade" => GivenUp(c)'
    BY <1>0, <1>5 DEF SandboxNext
  <2>2. UNCHANGED <<boxPC, cand, boxShut>>
    BY <1>5 DEF Upset
  <2>3. ASSUME NEW e \in Doers, boxPC[e] = "rename" PROVE GivenUp(cand[e])'
    <3>1. cand[e] \in Containers /\ GivenUp(cand[e])
      BY <2>3 DEF BoxPlaces, SandboxTypeOK, GivenUp
    <3>2. state[cand[e]] # "unmade"
      BY <3>1 DEF HandsApart, InNamed, InOwn
    <3> QED
      BY <2>1, <2>2, <3>1, <3>2
  <2> QED
    BY <2>2, <2>3 DEF BoxPlaces, GivenUp
<1>6. CASE UNCHANGED sandboxVars
  BY <1>6 DEF sandboxVars, BoxPlaces, Exists
<1> QED
  BY <1>1, <1>2, <1>3, <1>4, <1>5, <1>6 DEF SandboxNext

-----------------------------------------------------------------------------
(***************************************************************************)
(* Hands.                                                                  *)
(***************************************************************************)

\* A step that puts no container into hands of another kind, and takes none
\* from the name but for a failure or for good.
LEMMA HandsFrame ==
    ASSUME SandboxTypeOK, HandsApart,
           \A c \in Containers :
              /\ InNamed(c)' => InNamed(c)
              /\ InOwn(c)' => InOwn(c)
              /\ state'[c] = "unmade" => state[c] = "unmade"
              /\ Exists(c)' => Exists(c) \/ state[c] = "unmade"
              /\ InNamed(c) /\ state'[c] = "gone" => state[c] = "gone" \/ c \in ended'
              /\ c = holder /\ Exists(c)' => c = holder' \/ c \in failed'
              /\ state'[c] = "stopped" => state[c] = "stopped" \/ c = holder' \/ c \in failed',
           failed \subseteq failed', ended \subseteq ended'
    PROVE  HandsApart'
<1> SUFFICES ASSUME NEW c \in Containers
             PROVE  /\ InNamed(c)' => /\ ~InOwn(c)'
                                      /\ Exists(c)' => c = holder' \/ c \in failed'
                                      /\ state'[c] = "gone" => c \in ended'
                    /\ InNamed(c)' \/ InOwn(c)' => state'[c] # "unmade"
                    /\ state'[c] = "stopped" => c = holder' \/ c \in failed'
  BY DEF HandsApart
<1>1. c # Nothing
  BY BoxFacts
<1>2. InNamed(c)' => ~InOwn(c)'
  BY DEF HandsApart
<1>3. InNamed(c)' \/ InOwn(c)' => state'[c] # "unmade"
  BY DEF HandsApart
<1>4. InNamed(c)' /\ Exists(c)' => c = holder' \/ c \in failed'
  BY DEF HandsApart
<1>5. InNamed(c)' /\ state'[c] = "gone" => c \in ended'
  BY DEF HandsApart
<1>6. state'[c] = "stopped" => c = holder' \/ c \in failed'
  <2>1. CASE state[c] = "stopped"
    <3>1. Exists(c) /\ (state'[c] = "stopped" => Exists(c)')
      BY <1>1, <2>1 DEF Exists
    <3> QED
      BY <2>1, <3>1 DEF HandsApart
  <2> QED
    BY <2>1
<1> QED
  BY <1>2, <1>3, <1>4, <1>5, <1>6

LEMMA HandsInductive ==
    ASSUME SandboxTypeOK, BoxPlaces, HandsApart, [SandboxNext]_sandboxVars
    PROVE  HandsApart'
<1> USE BoxFacts DEF Goes, dockerVars, boxVars, blameVars
<1>1. ASSUME NEW a \in Doers, GetNamed(a) PROVE HandsApart'
  <2>1. /\ UNCHANGED <<state, holder, handle, failed, ended>>
        /\ cand' = [cand EXCEPT ![a] = holder] /\ Box(a) \in NamedBoxes
    BY <1>1 DEF GetNamed, BoxPlaces
  <2>2. \A c \in Containers : (InNamed(c)' => InNamed(c)) /\ (InOwn(c)' => InOwn(c))
    BY <2>1 DEF InNamed, InOwn, SandboxTypeOK, Acts
  <2> QED
    BY <2>1, <2>2, HandsFrame DEF Exists
<1>2. ASSUME NEW a \in Doers, EnsureNamed(a) PROVE HandsApart'
  <2>1. /\ UNCHANGED <<holder, handle, cand, ended>> /\ failed \subseteq failed'
        /\ \A c \in Containers : state'[c] = state[c] \/ (Exists(c) /\ state'[c] = "running")
    BY <1>2 DEF EnsureNamed, Comes, IsGone, FailsOn, Becomes, SandboxTypeOK
  <2>2. \A c \in Containers : (InNamed(c)' <=> InNamed(c)) /\ (InOwn(c)' <=> InOwn(c))
    BY <2>1 DEF InNamed, InOwn
  <2> QED
    BY <2>1, <2>2, HandsFrame DEF Exists
<1>3. ASSUME NEW a \in Doers, RenameOrphan(a) PROVE HandsApart'
  <2>1. /\ UNCHANGED <<state, handle, cand, failed, ended>>
        /\ holder' \in {holder, Nothing}
        /\ holder' # holder => holder = cand[a]
        /\ Exists(cand[a]) => cand[a] \in failed
    BY <1>3 DEF RenameOrphan, Freed, BoxPlaces
  <2>2. \A c \in Containers : (InNamed(c)' => InNamed(c)) /\ (InOwn(c)' => InOwn(c))
    BY <2>1 DEF InNamed, InOwn
  <2> QED
    BY <2>1, <2>2, HandsFrame DEF Exists
<1>4. ASSUME NEW a \in Doers, Create(a) PROVE HandsApart'
  <2>1. CASE UNCHANGED <<state, holder, cand>>
    <3>1. UNCHANGED <<handle, failed, ended>>
      BY <1>4 DEF Create
    <3>2. \A c \in Containers : (InNamed(c)' <=> InNamed(c)) /\ (InOwn(c)' <=> InOwn(c))
      BY <2>1, <3>1 DEF InNamed, InOwn
    <3> QED
      BY <2>1, <3>1, <3>2, HandsFrame DEF Exists
  <2>2. ASSUME NEW c \in Containers, state[c] = "unmade",
               Box(a) \in NamedBoxes => holder = Nothing,
               holder' = IF Box(a) \in NamedBoxes THEN c ELSE holder,
               Becomes(c, "running"), cand' = [cand EXCEPT ![a] = c]
        PROVE  HandsApart'
    <3>1. UNCHANGED <<handle, failed, ended>>
      BY <1>4 DEF Create
    <3>2. /\ state'[c] = "running"
          /\ \A d \in Containers \ {c} : state'[d] = state[d]
      BY <2>2 DEF Becomes, SandboxTypeOK
    <3>3. ~InNamed(c) /\ ~InOwn(c)
      BY <2>2 DEF HandsApart
    <3>4. ~(InNamed(c)' /\ InOwn(c)') /\ (InNamed(c)' => c = holder')
      <4>1. \A b \in Boxes : handle'[b] # c
        BY <3>1, <3>3 DEF InNamed, InOwn
      <4>2. /\ holder # c /\ \A e \in Acts : cand[e] # c
        BY <3>3 DEF InNamed, InOwn, Acts
      <4>3. \A e \in Acts : cand'[e] = c => e = a
        BY <2>2, <4>2 DEF SandboxTypeOK, Acts
      <4> QED
        BY <2>2, <4>1, <4>2, <4>3 DEF InNamed, InOwn, Acts
    <3>5. \A d \in Containers \ {c} : (InNamed(d)' => InNamed(d)) /\ (InOwn(d)' => InOwn(d))
      <4>1. \A e \in Acts : cand'[e] = IF e = a THEN c ELSE cand[e]
        BY <2>2 DEF SandboxTypeOK, Acts
      <4> QED
        BY <2>2, <3>1, <4>1 DEF InNamed, InOwn, Acts
    <3>6. \A d \in Containers \ {c} :
            /\ InNamed(d) /\ Exists(d) => d = holder' \/ d \in failed'
            /\ state[d] = "stopped" => d = holder' \/ d \in failed'
      BY <2>2, <3>1 DEF HandsApart, Exists
    <3> QED
      BY <3>1, <3>2, <3>4, <3>5, <3>6 DEF HandsApart, Exists
  <2> QED
    BY <1>4, <2>1, <2>2 DEF Create
<1>5. ASSUME NEW a \in Doers, Adopt(a) PROVE HandsApart'
  <2>1. /\ UNCHANGED <<state, holder, cand, failed, ended>>
        /\ \A b \in Boxes : handle'[b] = IF b = Box(a) THEN cand[a] ELSE handle[b]
    BY <1>5 DEF Adopt, SandboxTypeOK
  <2>2. \A c \in Containers : (InNamed(c)' => InNamed(c)) /\ (InOwn(c)' => InOwn(c))
    BY <2>1 DEF InNamed, InOwn
  <2> QED
    BY <2>1, <2>2, HandsFrame DEF Exists
<1>6. ASSUME NEW b \in Boxes, BoxStep(b) PROVE HandsApart'
  <2>1. UNCHANGED <<state, holder, handle, cand, failed, ended>>
    BY <1>6 DEF BoxStep, Construct, ConstructorFails
  <2> QED
    BY <2>1 DEF HandsApart, InNamed, InOwn, Exists
<1>7. ASSUME NEW t \in Tasks, TaskStep(t) PROVE HandsApart'
  <2>1. /\ UNCHANGED <<holder, handle, cand, ended>> /\ failed \subseteq failed'
        /\ \A c \in Containers : state'[c] = state[c] \/ (Exists(c) /\ state'[c] = "running")
    BY <1>7 DEF TaskStep, BeginTask, Rebind, Use, Comes, IsGone, FailsOn, Becomes, SandboxTypeOK
  <2>2. \A c \in Containers : (InNamed(c)' <=> InNamed(c)) /\ (InOwn(c)' <=> InOwn(c))
    BY <2>1 DEF InNamed, InOwn
  <2> QED
    BY <2>1, <2>2, HandsFrame DEF Exists
<1>8. ASSUME NEW x \in Removers, CloseBox(x) \/ DestroyBox(x) PROVE HandsApart'
  <2>1. /\ UNCHANGED <<state, holder, handle, failed, ended>>
        /\ \A e \in Acts : cand'[e] = IF e = x THEN handle[BoxOf[x]] ELSE cand[e]
    BY <1>8 DEF CloseBox, DestroyBox, SandboxTypeOK, Acts
  <2>2. \A c \in Containers : (InNamed(c)' => InNamed(c)) /\ (InOwn(c)' => InOwn(c))
    BY <2>1 DEF InNamed, InOwn, Acts
  <2> QED
    BY <2>1, <2>2, HandsFrame DEF Exists
<1>9. ASSUME NEW x \in Removers, RemoveBox(x) PROVE HandsApart'
  <2>1. \A c \in Containers : (InNamed(c)' => InNamed(c)) /\ (InOwn(c)' => InOwn(c))
    <3>1. /\ cand' = cand /\ holder' \in {holder, Nothing}
          /\ \A b \in Boxes : handle'[b] \in {handle[b], Nothing}
      BY <1>9 DEF RemoveBox, Freed, SandboxTypeOK
    <3> QED
      BY <3>1 DEF InNamed, InOwn
  <2>2. failed \subseteq failed' /\ ended \subseteq ended'
    BY <1>9 DEF RemoveBox, FailsOn
  <2>3. \A c \in Containers : c # cand[x] => state'[c] = state[c] /\ (c = holder => c = holder')
    BY <1>9 DEF RemoveBox, FailsOn, Freed, Becomes, SandboxTypeOK
  <2>4. ASSUME NEW c \in Containers, c = cand[x]
        PROVE  \/ state'[c] = "gone" /\ (x \in Destroys => c \in ended')
               \/ state'[c] = state[c] /\ holder' = holder
               \/ state'[c] = "stopped" /\ c \in failed' /\ Exists(c) /\ holder' = holder
    BY <1>9, <2>4 DEF RemoveBox, FailsOn, Becomes, SandboxTypeOK
  <2>5. ASSUME NEW c \in Containers, c = cand[x], InNamed(c) PROVE x \in Destroys
    <3>1. Box(x) \in NamedBoxes
      BY <2>5 DEF HandsApart, InOwn, Acts
    <3> QED
      BY <1>9, <3>1 DEF RemoveBox, BoxPlaces
  <2>6. \A c \in Containers : c = cand[x] => state[c] # "unmade"
    BY DEF HandsApart, InNamed, InOwn, Acts
  <2> QED
    BY <2>1, <2>2, <2>3, <2>4, <2>5, <2>6, HandsFrame DEF Exists
<1>10. ASSUME NEW d \in Containers, Upset(d) PROVE HandsApart'
  <2>1. /\ UNCHANGED <<handle, cand, failed>> /\ ended \subseteq ended' /\ holder' \in {holder, Nothing}
        /\ \A c \in Containers \ {d} : state'[c] = state[c] /\ (c = holder => c = holder')
        /\ Exists(d)
    BY <1>10 DEF Upset, Freed, Becomes, SandboxTypeOK
  <2>2. \/ state'[d] = "stopped" /\ d = holder /\ holder' = holder
        \/ state'[d] = "gone" /\ d \in ended'
    BY <1>10 DEF Upset, Becomes, SandboxTypeOK
  <2>3. \A c \in Containers : (InNamed(c)' => InNamed(c)) /\ (InOwn(c)' => InOwn(c))
    BY <2>1 DEF InNamed, InOwn
  <2> QED
    BY <2>1, <2>2, <2>3, HandsFrame DEF Exists
<1>11. CASE UNCHANGED sandboxVars
  BY <1>11 DEF sandboxVars, HandsApart, InNamed, InOwn, Exists
<1> QED
  BY <1>1, <1>2, <1>3, <1>4, <1>5, <1>6, <1>7, <1>8, <1>9, <1>10, <1>11 DEF SandboxNext, AcquireStep

-----------------------------------------------------------------------------
(***************************************************************************)
(* Nothing is left behind.                                                 *)
(***************************************************************************)

InUse(c) ==
    \/ c = holder
    \/ \E b \in Boxes \ boxShut : handle[b] = c
    \/ \E a \in Doers : boxPC[a] = "adopt" /\ cand[a] = c
    \/ \E x \in Removers : boxPC[x] = "removing" /\ cand[x] = c

\* A container that runs and is not excused is in use after a step if it was
\* before it.
LEMMA LeftInductive ==
    ASSUME SandboxTypeOK, BoxPlaces, HandsApart, NoContainerLeft, [SandboxNext]_sandboxVars
    PROVE  NoContainerLeft'
<1> USE BoxFacts DEF Goes, dockerVars, boxVars, blameVars
<1> SUFFICES ASSUME NEW c \in Containers, state'[c] = "running", c \notin strays' \cup failed'
             PROVE  InUse(c)'
  BY DEF NoContainerLeft, InUse
<1>0. state[c] = "running" /\ c \notin strays \cup failed => InUse(c)
  BY DEF NoContainerLeft, InUse
<1>1. ASSUME NEW a \in Doers, GetNamed(a) PROVE InUse(c)'
  <2>1. /\ UNCHANGED <<state, holder, handle, boxShut, failed, strays>> /\ boxPC[a] = "get"
        /\ \A e \in Acts \ {a} : boxPC'[e] = boxPC[e] /\ cand'[e] = cand[e]
    BY <1>1 DEF GetNamed, SandboxTypeOK, Acts
  <2> QED
    BY <1>0, <2>1 DEF InUse, Acts
<1>2. ASSUME NEW a \in Doers, EnsureNamed(a) PROVE InUse(c)'
  <2>1. /\ UNCHANGED <<holder, handle, boxShut, cand, strays>> /\ boxPC[a] = "ensure"
        /\ \A e \in Acts \ {a} : boxPC'[e] = boxPC[e]
        /\ failed \subseteq failed'
    BY <1>2 DEF EnsureNamed, FailsOn, Comes, IsGone, SandboxTypeOK, Acts
  <2>2. state'[c] = state[c] \/ (cand[a] = c /\ boxPC'[a] = "adopt")
    BY <1>2 DEF EnsureNamed, FailsOn, Comes, IsGone, Becomes, SandboxTypeOK
  <2> QED
    BY <1>0, <2>1, <2>2 DEF InUse, Acts
<1>3. ASSUME NEW a \in Doers, RenameOrphan(a) PROVE InUse(c)'
  <2>1. /\ UNCHANGED <<state, handle, boxShut, cand, failed>> /\ boxPC[a] = "rename"
        /\ \A e \in Acts \ {a} : boxPC'[e] = boxPC[e]
        /\ strays' = strays \cup {cand[a]} /\ (holder = c /\ holder' # c => cand[a] = c)
    BY <1>3 DEF RenameOrphan, Freed, SandboxTypeOK, Acts
  <2> QED
    BY <1>0, <2>1 DEF InUse, Acts
<1>4. ASSUME NEW a \in Doers, Create(a) PROVE InUse(c)'
  <2>1. /\ UNCHANGED <<handle, boxShut, failed, strays>> /\ boxPC[a] = "create"
        /\ \A e \in Acts \ {a} : boxPC'[e] = boxPC[e] /\ cand'[e] = cand[e]
    BY <1>4 DEF Create, Raises, SandboxTypeOK, Acts
  <2>2. CASE UNCHANGED <<state, holder, cand>>
    BY <1>0, <2>1, <2>2 DEF InUse, Acts
  <2>3. ASSUME NEW d \in Containers,
               Box(a) \in NamedBoxes => holder = Nothing,
               holder' = IF Box(a) \in NamedBoxes THEN d ELSE holder,
               Becomes(d, "running"), cand' = [cand EXCEPT ![a] = d], Goes(a, "adopt")
        PROVE  InUse(c)'
    <3>1. CASE d = c
      BY <2>3, <3>1 DEF InUse, SandboxTypeOK
    <3>2. CASE d # c
      <4>1. state'[c] = state[c] /\ (c = holder => c = holder')
        BY <2>3, <3>2 DEF Becomes, SandboxTypeOK
      <4> QED
        BY <1>0, <2>1, <4>1 DEF InUse, Acts
    <3> QED
      BY <3>1, <3>2
  <2> QED
    BY <1>4, <2>2, <2>3 DEF Create
<1>5. ASSUME NEW a \in Doers, Adopt(a) PROVE InUse(c)'
  <2>1. /\ UNCHANGED <<state, holder, boxShut, cand, failed>> /\ boxPC[a] = "adopt"
        /\ \A e \in Acts \ {a} : boxPC'[e] = boxPC[e]
        /\ \A b \in Boxes : handle'[b] = IF b = Box(a) THEN cand[a] ELSE handle[b]
    BY <1>5 DEF Adopt, SandboxTypeOK, Acts
  <2>2. /\ strays \subseteq strays'
        /\ handle[Box(a)] = c /\ cand[a] # c => c = holder
        /\ cand[a] = c /\ Box(a) \in boxShut => c = holder
    BY <1>5 DEF Adopt, Astray
  <2>3. state[c] = "running" /\ c \notin strays \cup failed
    BY <2>1, <2>2
  <2>4. CASE cand[a] = c
    BY <2>1, <2>2, <2>4 DEF InUse
  <2>5. CASE cand[a] # c
    BY <1>0, <2>1, <2>2, <2>3, <2>5 DEF InUse, Acts
  <2> QED
    BY <2>4, <2>5
<1>6. ASSUME NEW b \in Boxes, BoxStep(b) PROVE InUse(c)'
  <2>1. /\ UNCHANGED <<state, holder, handle, boxShut, cand, failed>>
        /\ \A e \in Acts \ {b} : boxPC'[e] = boxPC[e]
    BY <1>6 DEF BoxStep, Construct, ConstructorFails, Raises, SandboxTypeOK, Acts
  <2>2. /\ strays \subseteq strays'
        /\ boxPC[b] = "adopt" /\ cand[b] = c => c = holder
    BY <1>6 DEF BoxStep, Construct, ConstructorFails, Astray
  <2> QED
    BY <1>0, <2>1, <2>2 DEF InUse, Acts
<1>7. ASSUME NEW t \in Tasks, TaskStep(t) PROVE InUse(c)'
  <2>1. /\ UNCHANGED <<holder, handle, boxShut, cand, strays>> /\ boxPC[t] # "adopt"
        /\ \A e \in Acts \ {t} : boxPC'[e] = boxPC[e]
        /\ failed \subseteq failed'
    BY <1>7 DEF TaskStep, BeginTask, Rebind, Use, FailsOn, Comes, IsGone, SandboxTypeOK, Acts
  <2>2. state'[c] = state[c] \/ state[c] = "stopped"
    BY <1>7 DEF TaskStep, BeginTask, Rebind, Use, FailsOn, Comes, IsGone, Exists, Becomes, SandboxTypeOK
  <2>3. state[c] = "stopped" => c = holder
    BY <2>1 DEF HandsApart
  <2> QED
    BY <1>0, <2>1, <2>2, <2>3 DEF InUse, Acts
<1>8. ASSUME NEW x \in Removers, CloseBox(x) \/ DestroyBox(x) PROVE InUse(c)'
  <2>1. /\ UNCHANGED <<state, holder, handle, failed, strays>> /\ boxPC[x] = "idle"
        /\ \A e \in Acts \ {x} : boxPC'[e] = boxPC[e] /\ cand'[e] = cand[e]
        /\ boxShut' = boxShut \cup {BoxOf[x]} /\ cand'[x] = handle[BoxOf[x]]
        /\ \/ boxPC'[x] = "removing"
           \/ BoxOf[x] \in boxShut \cup NamedBoxes
           \/ handle[BoxOf[x]] = Nothing
    BY <1>8 DEF CloseBox, DestroyBox, SandboxTypeOK, Acts
  <2>2. Exists(c)
    BY <2>1 DEF Exists
  <2>3. BoxOf[x] \in NamedBoxes /\ handle[BoxOf[x]] = c => c = holder
    BY <2>1, <2>2 DEF HandsApart, InNamed
  <2> QED
    BY <1>0, <2>1, <2>3 DEF InUse, Acts
<1>9. ASSUME NEW x \in Removers, RemoveBox(x) PROVE InUse(c)'
  <2>1. /\ UNCHANGED <<boxShut, cand, strays>> /\ boxPC[x] = "removing"
        /\ \A e \in Acts \ {x} : boxPC'[e] = boxPC[e]
        /\ failed \subseteq failed'
    BY <1>9 DEF RemoveBox, FailsOn, SandboxTypeOK, Acts
  <2>2. c # cand[x]
    BY <1>9 DEF RemoveBox, FailsOn, Becomes, SandboxTypeOK
  <2>3. state'[c] = state[c] /\ (c = holder => c = holder')
    BY <1>9, <2>2 DEF RemoveBox, FailsOn, Freed, Becomes, SandboxTypeOK
  <2>4. \A b \in Boxes \ boxShut : handle'[b] = handle[b]
    BY <1>9 DEF RemoveBox, BoxPlaces, SandboxTypeOK
  <2> QED
    BY <1>0, <2>1, <2>2, <2>3, <2>4 DEF InUse, Acts
<1>10. ASSUME NEW d \in Containers, Upset(d) PROVE InUse(c)'
  <2>1. UNCHANGED <<handle, boxShut, boxPC, cand, failed, strays>>
    BY <1>10 DEF Upset
  <2>2. c # d
    BY <1>10 DEF Upset, Becomes, SandboxTypeOK
  <2>3. state'[c] = state[c] /\ (c = holder => c = holder')
    BY <1>10, <2>2 DEF Upset, Freed, Becomes, SandboxTypeOK
  <2> QED
    BY <1>0, <2>1, <2>3 DEF InUse
<1>11. CASE UNCHANGED sandboxVars
  BY <1>0, <1>11 DEF sandboxVars, dockerVars, boxVars, blameVars, InUse
<1> QED
  BY <1>1, <1>2, <1>3, <1>4, <1>5, <1>6, <1>7, <1>8, <1>9, <1>10, <1>11 DEF SandboxNext, AcquireStep

-----------------------------------------------------------------------------
(***************************************************************************)
(* The theorems.                                                           *)
(***************************************************************************)

LEMMA SandboxInvariance == SandboxSpec => [](SandboxTypeOK /\ SandboxInv)
<1>1. SandboxInit => SandboxTypeOK /\ SandboxInv
  <2> SUFFICES ASSUME SandboxInit PROVE SandboxTypeOK /\ SandboxInv
    OBVIOUS
  <2> USE BoxFacts
  <2>1. SandboxTypeOK
    BY SandboxAssumption DEF SandboxInit, SandboxTypeOK
  <2>2. \A c \in Containers : ~InNamed(c) /\ ~InOwn(c)
    BY DEF SandboxInit, InNamed, InOwn
  <2>3. HandsApart /\ NoContainerLeft
    BY <2>2 DEF SandboxInit, HandsApart, NoContainerLeft
  <2>4. BoxPlaces
    BY DEF SandboxInit, BoxPlaces
  <2> QED
    BY <2>1, <2>3, <2>4 DEF SandboxInv
<1>2. SandboxTypeOK /\ SandboxInv /\ [SandboxNext]_sandboxVars => SandboxTypeOK' /\ SandboxInv'
  <2> SUFFICES ASSUME SandboxTypeOK, SandboxInv, [SandboxNext]_sandboxVars
               PROVE  SandboxTypeOK' /\ SandboxInv'
    OBVIOUS
  <2>1. SandboxTypeOK'
    BY DoerTypes, OtherTypes DEF SandboxNext, SandboxInv
  <2> QED
    BY <2>1, PlacesInductive, HandsInductive, LeftInductive DEF SandboxInv
<1> QED
  BY <1>1, <1>2, PTL DEF SandboxSpec

\* The sandboxes, their containers and what is in hand keep their types,
\* whatever order the threads and the daemon take.
THEOREM SandboxTypeCorrect == SandboxSpec => []SandboxTypeOK
BY SandboxInvariance, PTL

\* No container is left behind: one that runs has the name, or belongs to an
\* open sandbox, or is about to be handed over or removed; and the sandboxes
\* with the name work in one container, which only a destroy ends.  However
\* many sandboxes, operations and closes there are, and however often the
\* daemon fails or a container goes by itself.
THEOREM SandboxesKeepContainers == SandboxSpec => []ContainersInHand
<1>1. SandboxTypeOK /\ SandboxInv => ContainersInHand
  <2> SUFFICES ASSUME SandboxTypeOK, SandboxInv PROVE ContainersInHand
    OBVIOUS
  <2> USE BoxFacts
  <2>1. ASSUME NEW t \in Tasks, BoxOf[t] \in NamedBoxes, Exists(handle[BoxOf[t]])
        PROVE  handle[BoxOf[t]] = holder \/ handle[BoxOf[t]] \in failed
    BY <2>1 DEF SandboxTypeOK, SandboxInv, HandsApart, InNamed, Exists
  <2>2. ASSUME NEW b \in NamedBoxes, handle[b] # Nothing, state[handle[b]] = "gone"
        PROVE  handle[b] \in ended
    BY <2>2 DEF SandboxTypeOK, SandboxInv, HandsApart, InNamed
  <2> QED
    BY <2>1, <2>2 DEF ContainersInHand, WorkspaceIsOne, SandboxInv
<1> QED
  BY <1>1, SandboxInvariance, PTL

------------------------------------------------------------------------------
(***************************************************************************)
(* ObjectStore: no text is lost, and no tree is torn.                      *)
(***************************************************************************)

Names == Tops \cup Inner \cup {NoName}

\* A prefix, element by element.
LEMMA PrefixMeans ==
    ASSUME NEW s \in ObjectKeys, NEW t \in ObjectKeys
    PROVE  IsPrefix(s, t) <=> Len(s) <= Len(t) /\ \A i \in 1..Len(s) : s[i] = t[i]
<1> USE DEF ObjectKeys
<1>1. CASE Len(s) <= Len(t)
  <2>1. /\ SubSeq(s, 1, Len(s)) \in ObjectKeys /\ Len(SubSeq(s, 1, Len(s))) = Len(s)
        /\ \A i \in 1..Len(s) : SubSeq(s, 1, Len(s))[i] = s[i]
    OBVIOUS
  <2>2. /\ SubSeq(t, 1, Len(s)) \in ObjectKeys /\ Len(SubSeq(t, 1, Len(s))) = Len(s)
        /\ \A i \in 1..Len(s) : SubSeq(t, 1, Len(s))[i] = t[i]
    BY <1>1
  <2>3. SubSeq(s, 1, Len(s)) = SubSeq(t, 1, Len(s)) <=> \A i \in 1..Len(s) : SubSeq(s, 1, Len(s))[i] = SubSeq(t, 1, Len(s))[i]
    BY <2>1, <2>2, SeqEqual
  <2> QED
    BY <1>1, <2>1, <2>2, <2>3 DEF IsPrefix
<1>2. CASE ~(Len(s) <= Len(t))
  BY <1>2 DEF IsPrefix
<1> QED
  BY <1>1, <1>2

LEMMA JoinFacts ==
    ASSUME NEW s \in ObjectKeys, NEW t \in ObjectKeys
    PROVE  /\ s \o t \in ObjectKeys /\ Len(s \o t) = Len(s) + Len(t)
           /\ \A i \in 1..Len(s) : (s \o t)[i] = s[i]
           /\ \A i \in 1..Len(t) : (s \o t)[Len(s) + i] = t[i]
<1> DEFINE S == Tops \cup Inner \cup {NoName}
<1>1. s \in Seq(S) /\ t \in Seq(S)
  BY DEF ObjectKeys
<1> HIDE DEF S
<1>2. s \o t \in Seq(S) /\ Len(s \o t) = Len(s) + Len(t) /\ Len(s) \in Nat /\ Len(t) \in Nat
  BY <1>1, ConcatProperties
<1>3. \A i \in 1..Len(s) : (s \o t)[i] = s[i]
  BY <1>1
<1>4. \A i \in 1..Len(t) : (s \o t)[Len(s) + i] = t[i]
  BY <1>1
<1> QED
  BY <1>2, <1>3, <1>4 DEF S, ObjectKeys

LEMMA PathFacts ==
    ASSUME NEW p \in FilePaths
    PROVE  /\ p \in ObjectKeys /\ p # <<>> /\ Len(p) \in 1..2
           /\ \A i \in 1..Len(p) : p[i] # NoName
<1>1. CASE \E t \in Tops : p = <<t>>
  <2>1. PICK t \in Tops : p = <<t>>
    BY <1>1
  <2>2. Len(p) = 1 /\ p[1] = t /\ p \in ObjectKeys
    BY <2>1 DEF ObjectKeys
  <2> QED
    BY <2>2, ObjectAssumption
<1>2. CASE \E t \in Tops, l \in Inner : p = <<t, l>>
  <2>1. PICK t \in Tops, l \in Inner : p = <<t, l>>
    BY <1>2
  <2>2. Len(p) = 2 /\ p[1] = t /\ p[2] = l /\ p \in ObjectKeys
    BY <2>1 DEF ObjectKeys
  <2> QED
    BY <2>2, ObjectAssumption
<1> QED
  BY <1>1, <1>2 DEF FilePaths

\* Paths that have a key below both contain one another.
LEMMA RelatedBelow ==
    ASSUME NEW p \in ObjectKeys, NEW q \in ObjectKeys, NEW k \in ObjectKeys, IsPrefix(p, k), IsPrefix(q, k)
    PROVE  Related(p, q)
<1>1. Len(p) \in Nat /\ Len(q) \in Nat /\ Len(k) \in Nat
  BY DEF ObjectKeys
<1>2. CASE Len(p) <= Len(q)
  <2>1. \A i \in 1..Len(p) : p[i] = q[i]
    BY <1>1, <1>2, PrefixMeans
  <2> QED
    BY <1>2, <2>1, PrefixMeans DEF Related
<1>3. CASE Len(q) <= Len(p)
  <2>1. \A i \in 1..Len(q) : q[i] = p[i]
    BY <1>1, <1>3, PrefixMeans
  <2> QED
    BY <1>3, <2>1, PrefixMeans DEF Related
<1> QED
  BY <1>1, <1>2, <1>3

LEMMA PrefixOrder ==
    ASSUME NEW p \in ObjectKeys, NEW q \in ObjectKeys, NEW k \in ObjectKeys
    PROVE  /\ IsPrefix(p, p)
           /\ IsPrefix(p, q) /\ IsPrefix(q, k) => IsPrefix(p, k)
<1>1. Len(p) \in Nat /\ Len(q) \in Nat /\ Len(k) \in Nat
  BY DEF ObjectKeys
<1>2. IsPrefix(p, p)
  BY <1>1, PrefixMeans
<1>3. ASSUME IsPrefix(p, q), IsPrefix(q, k) PROVE IsPrefix(p, k)
  <2>1. Len(p) <= Len(q) /\ Len(q) <= Len(k) /\ (\A i \in 1..Len(p) : p[i] = q[i]) /\ (\A i \in 1..Len(q) : q[i] = k[i])
    BY <1>3, PrefixMeans
  <2>2. \A i \in 1..Len(p) : p[i] = k[i]
    BY <1>1, <2>1
  <2> QED
    BY <1>1, <2>1, <2>2, PrefixMeans
<1> QED
  BY <1>2, <1>3

LEMMA MarkerFacts ==
    ASSUME NEW p \in ObjectKeys
    PROVE  /\ Marker(p) \in ObjectKeys /\ Marker(p) # <<>> /\ Last(Marker(p)) = NoName
           /\ \A q \in FilePaths : IsPrefix(q, Marker(p)) => IsPrefix(q, p)
<1> DEFINE m == Marker(p)
<1>1. m \in ObjectKeys /\ Len(m) = Len(p) + 1 /\ m[Len(p) + 1] = NoName /\ (\A i \in 1..Len(p) : m[i] = p[i]) /\ Len(p) \in Nat
  BY DEF Marker, ObjectKeys
<1>2. m # <<>> /\ Last(m) = NoName
  BY <1>1 DEF Last
<1>3. ASSUME NEW q \in FilePaths, IsPrefix(q, m) PROVE IsPrefix(q, p)
  <2> HIDE DEF m
  <2>1. q \in ObjectKeys /\ Len(q) \in 1..2 /\ \A i \in 1..Len(q) : q[i] # NoName
    BY PathFacts
  <2>2. Len(q) <= Len(m) /\ \A i \in 1..Len(q) : q[i] = m[i]
    BY <1>1, <1>3, <2>1, PrefixMeans
  <2>3. Len(q) <= Len(p)
    BY <1>1, <2>1, <2>2
  <2>4. \A i \in 1..Len(q) : q[i] = p[i]
    BY <1>1, <2>1, <2>2, <2>3
  <2> QED
    BY <2>1, <2>3, <2>4, PrefixMeans
<1> QED
  BY <1>1, <1>2, <1>3

LEMMA PlaceFacts ==
    ASSUME NEW k \in ObjectKeys, NEW p \in ObjectKeys, NEW d \in FilePaths, IsPrefix(p, k), k # <<>>
    PROVE  LET place == MovedTo(k, p, d) IN
           /\ place \in ObjectKeys /\ place # <<>> /\ IsPrefix(d, place)
           /\ Last(place) = NoName => Last(k) = NoName
<1> DEFINE rel == SubSeq(k, Len(p) + 1, Len(k))
           place == MovedTo(k, p, d)
<1>1. Len(k) \in Nat /\ Len(p) \in Nat /\ Len(p) <= Len(k)
  BY PrefixMeans DEF ObjectKeys
<1>2. /\ d \in ObjectKeys /\ d # <<>> /\ Len(d) \in 1..2
      /\ \A i \in 1..Len(d) : d[i] # NoName
  BY PathFacts
<1>3. /\ rel \in ObjectKeys /\ Len(rel) = Len(k) - Len(p)
      /\ \A i \in 1..Len(rel) : rel[i] = k[Len(p) + i]
  BY <1>1 DEF ObjectKeys
<1> HIDE DEF rel
<1>4. place = IF rel = <<NoName>> THEN d ELSE d \o rel
  BY DEF MovedTo, rel
<1>5. CASE rel = <<NoName>>
  <2>1. place = d
    BY <1>4, <1>5
  <2>2. Last(d) # NoName
    BY <1>2 DEF Last
  <2> HIDE DEF place
  <2> QED
    BY <2>1, <2>2, <1>2, PrefixOrder DEF place
<1>6. CASE rel # <<NoName>>
  <2> HIDE DEF place
  <2>1. place = d \o rel
    BY <1>4, <1>6
  <2>2. place \in ObjectKeys /\ Len(place) = Len(d) + Len(rel)
    <3>1. d \o rel \in ObjectKeys
      BY <1>2, <1>3 DEF ObjectKeys
    <3>2. Len(d \o rel) = Len(d) + Len(rel)
      BY <1>2, <1>3, JoinFacts
    <3> QED
      BY <2>1, <3>1, <3>2
  <2>3. \A i \in 1..Len(d) : place[i] = d[i]
    BY <1>2, <1>3, <2>1 DEF ObjectKeys
  <2>4. \A i \in 1..Len(rel) : place[Len(d) + i] = rel[i]
    BY <1>2, <1>3, <2>1 DEF ObjectKeys
  <2>5. Len(rel) \in Nat
    BY <1>3 DEF ObjectKeys
  <2>6. IsPrefix(d, place)
    BY <1>2, <2>2, <2>3, <2>5, PrefixMeans
  <2>7. place # <<>>
    BY <1>2, <2>2, <2>5
  <2>8. Last(place) = NoName => Last(k) = NoName
    <3>1. CASE Len(rel) = 0
      <4>1. Last(place) = d[Len(d)] /\ d[Len(d)] # NoName
        BY <1>2, <2>2, <2>3, <3>1 DEF Last
      <4> QED
        BY <4>1
    <3>2. CASE Len(rel) # 0
      <4>1. Last(place) = rel[Len(rel)]
        BY <1>2, <2>2, <2>4, <2>5, <3>2 DEF Last
      <4>2. rel[Len(rel)] = k[Len(k)]
        BY <1>1, <1>3, <2>5, <3>2
      <4> QED
        BY <4>1, <4>2 DEF Last
    <3> QED
      BY <3>1, <3>2
  <2> QED
    BY <2>2, <2>6, <2>7, <2>8 DEF place
<1> QED
  BY <1>5, <1>6

\* No two keys below a directory have one place.
LEMMA PlacesDiffer ==
    ASSUME NEW p \in ObjectKeys, NEW d \in FilePaths, NEW k \in ObjectKeys, NEW l \in ObjectKeys,
           IsStrictPrefix(p, k), IsStrictPrefix(p, l), MovedTo(k, p, d) = MovedTo(l, p, d)
    PROVE  k = l
<1> DEFINE rk == SubSeq(k, Len(p) + 1, Len(k))
           rl == SubSeq(l, Len(p) + 1, Len(l))
<1>1. /\ Len(k) \in Nat /\ Len(l) \in Nat /\ Len(p) \in Nat /\ Len(p) <= Len(k) /\ Len(p) <= Len(l)
      /\ \A i \in 1..Len(p) : p[i] = k[i] /\ p[i] = l[i]
  BY PrefixMeans DEF ObjectKeys, IsStrictPrefix
<1>2. d \in ObjectKeys /\ Len(d) \in 1..2
  BY PathFacts
<1>3. /\ rk \in ObjectKeys /\ Len(rk) = Len(k) - Len(p)
      /\ \A i \in 1..Len(rk) : rk[i] = k[Len(p) + i]
  BY <1>1 DEF ObjectKeys
<1>4. /\ rl \in ObjectKeys /\ Len(rl) = Len(l) - Len(p)
      /\ \A i \in 1..Len(rl) : rl[i] = l[Len(p) + i]
  BY <1>1 DEF ObjectKeys
<1>5. (IF rk = <<NoName>> THEN d ELSE d \o rk) = (IF rl = <<NoName>> THEN d ELSE d \o rl)
  BY DEF MovedTo
<1> HIDE DEF rk, rl
<1>6. Len(k) > Len(p) /\ Len(l) > Len(p)
  <2>1. ASSUME NEW x \in {k, l}, Len(x) = Len(p) PROVE FALSE
    <3>1. x = p
      BY <1>1, <2>1, SeqEqual DEF ObjectKeys
    <3> QED
      BY <3>1 DEF IsStrictPrefix
  <2> QED
    BY <1>1, <2>1
<1>7. rk # <<>> /\ rl # <<>> /\ Len(rk) \in Nat /\ Len(rl) \in Nat /\ Len(rk) > 0 /\ Len(rl) > 0
  BY <1>1, <1>3, <1>4, <1>6
<1>8. Len(d \o rk) = Len(d) + Len(rk) /\ Len(d \o rl) = Len(d) + Len(rl) /\ d # d \o rk /\ d # d \o rl
  <2>1. Len(d \o rk) = Len(d) + Len(rk)
    BY <1>2, <1>3, JoinFacts
  <2>2. Len(d \o rl) = Len(d) + Len(rl)
    BY <1>2, <1>4, JoinFacts
  <2> QED
    BY <1>2, <1>7, <2>1, <2>2
<1>9. rk = rl
  <2>1. CASE rk = <<NoName>> /\ rl = <<NoName>>
    BY <2>1
  <2>2. CASE rk # <<NoName>> /\ rl # <<NoName>>
    <3>1. d \o rk = d \o rl
      BY <1>5, <2>2
    <3>2. Len(rk) = Len(rl)
      BY <3>1, <1>2, <1>7, <1>8
    <3>3. ASSUME NEW i \in 1..Len(rk) PROVE rk[i] = rl[i]
      <4>1. (d \o rk)[Len(d) + i] = rk[i] /\ (d \o rl)[Len(d) + i] = rl[i]
        BY <1>2, <1>3, <1>4, <3>2 DEF ObjectKeys
      <4> QED
        BY <3>1, <4>1
    <3> QED
      BY <1>3, <1>4, <3>2, <3>3, SeqEqual DEF ObjectKeys
  <2> QED
    BY <1>5, <1>8, <2>1, <2>2
<1>10. Len(k) = Len(l)
  BY <1>1, <1>3, <1>4, <1>9
<1>11. ASSUME NEW i \in 1..Len(k) PROVE k[i] = l[i]
  <2>1. CASE i <= Len(p)
    BY <1>1, <2>1
  <2>2. CASE i > Len(p)
    <3>1. i - Len(p) \in 1..Len(rk) /\ Len(p) + (i - Len(p)) = i
      BY <1>1, <1>3, <2>2
    <3>2. rk[i - Len(p)] = k[i] /\ rl[i - Len(p)] = l[i]
      BY <3>1, <1>3, <1>4, <1>9
    <3> QED
      BY <3>2, <1>9
  <2> QED
    BY <2>1, <2>2, <1>1
<1> QED
  BY <1>10, <1>11, SeqEqual DEF ObjectKeys

\* The keys of a finite store, as the listing names them.
LEMMA Listed ==
    ASSUME NEW S \in SUBSET ObjectKeys, IsFiniteSet(S)
    PROVE  /\ SetToSeq(S) \in Seq(ObjectKeys) /\ ToSet(SetToSeq(S)) = S
           /\ \A i, j \in DOMAIN SetToSeq(S) : SetToSeq(S)[i] = SetToSeq(S)[j] => i = j
<1> DEFINE n == Cardinality(S)
           q == SetToSeq(S)
<1>1. n \in Nat /\ \E f : f \in Bijection(1..n, S)
  BY FS_CardinalityType DEF ExistsBijection
<1>2. \E f \in [1..n -> S] : IsInjective(f)
  BY <1>1 DEF Bijection, Injection
<1>3. q \in [1..n -> S] /\ IsInjective(q)
  BY <1>2 DEF SetToSeq
<1> HIDE DEF q
<1>4. q \in Injection(1..n, S)
  BY <1>3 DEF Injection
<1>5. IsFiniteSet(1..n) /\ Cardinality(1..n) = n
  BY <1>1, FS_Interval
<1> HIDE DEF n
<1>6. q \in Surjection(1..n, S)
  <2>1. Cardinality(1..n) = Cardinality(S)
    BY <1>5 DEF n
  <2> QED
    BY <2>1, <1>4, FS_Injection
<1>7. q \in Seq(ObjectKeys) /\ DOMAIN q = 1..n
  BY <1>1, <1>3
<1>8. ToSet(q) = S
  <2>1. \A k \in S : \E i \in 1..n : q[i] = k
    BY <1>6 DEF Surjection
  <2> QED
    BY <2>1, <1>3, <1>7 DEF ToSet
<1>9. \A i, j \in DOMAIN q : q[i] = q[j] => i = j
  BY <1>3 DEF IsInjective
<1> QED
  BY <1>7, <1>8, <1>9 DEF q

-----------------------------------------------------------------------------
Stores == UNION {[K -> SUBSET FileOps] : K \in SUBSET (ObjectKeys \ {<<>>})}

FileStages == {"idle", "ok", "failed", "check", "put", "reread", "get", "replace", "dest", "below", "source",
               "list", "drop", "copy", "parts"}

OpRecords == [at : FileStages, path : FilePaths \cup {<<>>}, dest : FilePaths \cup {<<>>}, held : SUBSET FileOps,
              todo : Seq(ObjectKeys), before : Stores]

\* The store holds finitely many objects, and markers hold no text.
StoreOK(f) ==
    /\ f \in Stores /\ IsFiniteSet(DOMAIN f)
    /\ \A k \in DOMAIN f : Last(k) = NoName => f[k] = {}

StoreTypes ==
    /\ StoreOK(objects)
    /\ fileOp \in [FileOps -> OpRecords]
    /\ counted \subseteq FileOps /\ overlapped \in BOOLEAN

PlacesOf(op) == {op.path, op.dest} \ {<<>>}

\* The requests of an operation, and what it has in hand for them, whatever
\* others do.
OpAlone(a, op) ==
    op.at \notin Resting =>
        /\ op.path \in FilePaths /\ (KindOf[a] # "move" => op.dest = <<>>)
        /\ KindOf[a] = "move" => op.dest \in FilePaths /\ ~IsPrefix(op.path, op.dest)
        /\ op.at = "check" => KindOf[a] \in {"write", "force", "delete"} /\ op.todo = <<>>
        /\ op.at = "put" => KindOf[a] \in {"write", "force", "upload"}
        /\ op.at = "reread" => KindOf[a] = "force"
        /\ op.at \in {"get", "replace"} => KindOf[a] \in {"force", "edit"}
        /\ op.at = "parts" => KindOf[a] = "mkdir"
        /\ op.at \in {"dest", "below", "source", "copy"} => KindOf[a] = "move"
        /\ op.at \in {"list", "drop"} => KindOf[a] \in {"delete", "move"}
        /\ op.at = "get" /\ KindOf[a] = "edit" => op.held = {}
        /\ op.at = "replace" => a \in op.held
        /\ op.at = "parts" =>
              /\ op.todo # <<>> /\ op.todo[Len(op.todo)] = op.path
              /\ \A i \in DOMAIN op.todo : IsPrefix(op.todo[i], op.path)
        /\ op.at \in {"copy", "drop"} =>
              /\ KindOf[a] = "move" => op.todo # <<>>
              /\ \A i \in DOMAIN op.todo : IsPrefix(op.path, op.todo[i]) /\ op.todo[i] # <<>>
              /\ \A i, j \in DOMAIN op.todo : op.todo[i] = op.todo[j] => i = j
              /\ Len(op.todo) > 1 => \A i \in DOMAIN op.todo : op.todo[i] # op.path

\* What a move that copies has still to do is there, and its places are free;
\* the object it drops next has its copy.
MoveFits(op, f) ==
    /\ ~Related(op.path, op.dest)
    /\ \A i \in DOMAIN op.todo :
          /\ op.todo[i] \in DOMAIN f
          /\ MovedTo(op.todo[i], op.path, op.dest) \in DOMAIN f <=> (op.at = "drop" /\ i = 1)
    /\ op.at = "drop" => f[MovedTo(op.todo[1], op.path, op.dest)] = f[op.todo[1]]

Under(p, f) == {k \in DOMAIN f : IsPrefix(p, k)}

\* The tree is as it was when the operation began,
AsBefore(op, f) ==
    /\ Under(op.path, f) = Under(op.path, op.before)
    /\ \A k \in Under(op.path, f) : f[k] = op.before[k]

\* or what is left of it is still to be treated, and a move has brought the
\* rest to its place.
DeleteSinceBefore(op, f) ==
    IF op.at = "drop" /\ op.todo # <<>> THEN Under(op.path, f) = ToSet(op.todo)
    ELSE AsBefore(op, f) /\ (op.at = "drop" => op.path \in DOMAIN f)

MoveSinceBefore(op, f) ==
    IF op.at \in {"copy", "drop"}
    THEN /\ Under(op.path, f) = ToSet(op.todo)
         /\ \A k \in Under(op.path, f) : k \in DOMAIN op.before /\ f[k] = op.before[k]
         /\ \A k \in Under(op.path, op.before) \ ToSet(op.todo) :
               /\ MovedTo(k, op.path, op.dest) \in DOMAIN f
               /\ f[MovedTo(k, op.path, op.dest)] = op.before[k]
    ELSE AsBefore(op, f)

\* What an operation has learnt of the store still holds, where no others on
\* related paths were under way.
OpFits(a, op, f) ==
    op.at \notin Resting =>
        /\ op.at = "put" /\ KindOf[a] = "write" => op.path \notin DOMAIN f
        /\ op.at = "replace" /\ KindOf[a] = "edit" /\ op.path \in DOMAIN f => f[op.path] \subseteq op.held
        /\ op.at = "list" => op.path \notin DOMAIN f
        /\ op.at = "below" => op.dest \notin DOMAIN f
        /\ op.at = "source" \/ (op.at = "list" /\ KindOf[a] = "move") => Under(op.dest, f) = {}
        /\ KindOf[a] = "move" /\ op.at \in {"copy", "drop"} => MoveFits(op, f)
        /\ KindOf[a] = "delete" /\ ~Twofold(op.before, op.path) => DeleteSinceBefore(op, f)
        /\ KindOf[a] = "move" /\ ~Twofold(op.before, op.path) => MoveSinceBefore(op, f)

\* Operations under way do not work on related paths.
OpsApart ==
    \A a, b \in FileOps :
        a # b /\ fileOp[a].at \notin Resting /\ fileOp[b].at \notin Resting =>
            \A p \in PlacesOf(fileOp[a]), q \in PlacesOf(fileOp[b]) : ~Related(p, q)

ObjectIInv ==
    /\ StoreTypes
    /\ \A a \in FileOps : OpAlone(a, fileOp[a])
    /\ ~overlapped => OpsApart /\ \A a \in FileOps : OpFits(a, fileOp[a], objects)
    /\ TextIsKept

SameAt(f, g, k) == (k \in DOMAIN f <=> k \in DOMAIN g) /\ (k \in DOMAIN f => f[k] = g[k])

LEMMA StoreFacts ==
    ASSUME NEW f \in Stores
    PROVE  /\ \A k \in DOMAIN f : k \in ObjectKeys /\ k # <<>> /\ f[k] \subseteq FileOps
BY DEF Stores

LEMMA EmptyStore == StoreOK(<<>>) /\ DOMAIN <<>> = {}
<1>1. <<>> \in [{} -> SUBSET FileOps] /\ DOMAIN <<>> = {}
  OBVIOUS
<1>2. <<>> \in Stores
  BY <1>1 DEF Stores
<1> QED
  BY <1>1, <1>2, FS_EmptySet DEF StoreOK

\* An operation that has learnt something learns the same of a store that is
\* the same below its paths.
LEMMA FitsStays ==
    ASSUME NEW a \in FileOps, NEW op \in OpRecords, NEW f \in Stores, NEW g \in Stores,
           OpAlone(a, op), OpFits(a, op, f),
           \A p \in PlacesOf(op) : \A k \in ObjectKeys : IsPrefix(p, k) => SameAt(f, g, k)
    PROVE  OpFits(a, op, g)
<1> SUFFICES ASSUME op.at \notin Resting PROVE OpFits(a, op, g)
  BY DEF OpFits
<1> USE ObjectAssumption
<1>1. /\ op.path \in FilePaths /\ op.path \in ObjectKeys /\ op.path # <<>> /\ op.path \in PlacesOf(op)
      /\ KindOf[a] = "move" => op.dest \in FilePaths /\ op.dest \in ObjectKeys /\ op.dest \in PlacesOf(op)
      /\ op.at \in {"source", "below"} => KindOf[a] = "move"
  BY PathFacts DEF OpAlone, PlacesOf
<1>2. op.todo \in Seq(ObjectKeys) /\ op.before \in Stores
  BY DEF OpRecords
<1>3. /\ \A k \in ObjectKeys : IsPrefix(op.path, k) => SameAt(f, g, k)
      /\ KindOf[a] = "move" => \A k \in ObjectKeys : IsPrefix(op.dest, k) => SameAt(f, g, k)
  BY <1>1
<1>4. SameAt(f, g, op.path) /\ (KindOf[a] = "move" => SameAt(f, g, op.dest))
  BY <1>1, <1>3, PrefixOrder
<1>5. /\ Under(op.path, f) = Under(op.path, g)
      /\ KindOf[a] = "move" => Under(op.dest, f) = Under(op.dest, g)
  BY <1>3, StoreFacts DEF Under, SameAt
<1>6. \A k \in Under(op.path, f) : f[k] = g[k]
  BY <1>3, StoreFacts DEF Under, SameAt
<1>7. KindOf[a] = "move" => \A k \in ObjectKeys : IsPrefix(op.path, k) /\ k # <<>> =>
          SameAt(f, g, MovedTo(k, op.path, op.dest))
  BY <1>1, <1>3, PlaceFacts
<1>8. /\ op.at = "put" /\ KindOf[a] = "write" => op.path \notin DOMAIN g
      /\ op.at = "replace" /\ KindOf[a] = "edit" /\ op.path \in DOMAIN g => g[op.path] \subseteq op.held
      /\ op.at = "list" => op.path \notin DOMAIN g
      /\ op.at = "below" => op.dest \notin DOMAIN g
      /\ op.at = "source" \/ (op.at = "list" /\ KindOf[a] = "move") => Under(op.dest, g) = {}
  BY <1>1, <1>4, <1>5 DEF OpFits, SameAt
<1>9. ASSUME KindOf[a] = "move", op.at \in {"copy", "drop"}, MoveFits(op, f) PROVE MoveFits(op, g)
  <2>1. op.todo # <<>> /\ \A i \in DOMAIN op.todo : op.todo[i] \in ObjectKeys /\ IsPrefix(op.path, op.todo[i]) /\ op.todo[i] # <<>>
    BY <1>2, <1>9 DEF OpAlone
  <2>2. \A i \in DOMAIN op.todo : SameAt(f, g, op.todo[i]) /\ SameAt(f, g, MovedTo(op.todo[i], op.path, op.dest))
    BY <1>3, <1>7, <1>9, <2>1
  <2>3. 1 \in DOMAIN op.todo
    BY <2>1, <1>2
  <2> QED
    BY <1>9, <2>2, <2>3 DEF MoveFits, SameAt
<1>10. AsBefore(op, f) => AsBefore(op, g)
  BY <1>5, <1>6 DEF AsBefore
<1>11. DeleteSinceBefore(op, f) => DeleteSinceBefore(op, g)
  BY <1>4, <1>5, <1>10 DEF DeleteSinceBefore, SameAt
<1>12. ASSUME KindOf[a] = "move", MoveSinceBefore(op, f) PROVE MoveSinceBefore(op, g)
  <2>1. CASE op.at \in {"copy", "drop"}
    <3>1. \A k \in Under(op.path, op.before) : SameAt(f, g, MovedTo(k, op.path, op.dest))
      BY <1>2, <1>7, <1>12, StoreFacts DEF Under
    <3> QED
      BY <1>5, <1>6, <1>12, <2>1, <3>1 DEF MoveSinceBefore, SameAt
  <2>2. CASE op.at \notin {"copy", "drop"}
    BY <1>10, <1>12, <2>2 DEF MoveSinceBefore
  <2> QED
    BY <2>1, <2>2
<1> QED
  BY <1>8, <1>9, <1>11, <1>12 DEF OpFits

-----------------------------------------------------------------------------
LEMMA ToFacts ==
    ASSUME StoreTypes, NEW a \in FileOps, NEW l \in FileStages
    PROVE  /\ To(a, l) \in OpRecords /\ To(a, l).at = l
           /\ l \notin Ends => /\ To(a, l).path = Path(a) /\ To(a, l).dest = Dest(a)
                               /\ To(a, l).held = fileOp[a].held /\ To(a, l).todo = fileOp[a].todo
                               /\ To(a, l).before = fileOp[a].before
           /\ fileOp[a] \in OpRecords
<1>1. fileOp[a] \in OpRecords
  BY DEF StoreTypes
<1>2. NewOp \in OpRecords
  BY EmptyStore DEF NewOp, OpRecords, FileStages, StoreOK
<1>3. CASE l \in Ends
  <2>1. To(a, l) = [NewOp EXCEPT !.at = l]
    BY <1>3 DEF To
  <2> QED
    BY <1>1, <1>2, <1>3, <2>1 DEF OpRecords
<1>4. CASE l \notin Ends
  <2>1. To(a, l) = [fileOp[a] EXCEPT !.at = l]
    BY <1>4 DEF To
  <2> QED
    BY <1>1, <1>4, <2>1 DEF OpRecords, Path, Dest
<1> QED
  BY <1>3, <1>4

\* An object is put, or deleted: the rest stays.
LEMMA WithFacts ==
    ASSUME StoreTypes, NEW k \in ObjectKeys, k # <<>>, NEW t \in SUBSET FileOps, Last(k) = NoName => t = {},
           objects' = With(k, t)
    PROVE  /\ StoreOK(objects') /\ DOMAIN objects' = DOMAIN objects \cup {k} /\ objects'[k] = t
           /\ \A x \in DOMAIN objects : x # k => objects'[x] = objects[x]
<1>1. objects' = [x \in {k} \cup DOMAIN objects |-> IF x = k THEN t ELSE objects[x]]
  BY DEF With
<1>2. \A x \in DOMAIN objects : x \in ObjectKeys /\ x # <<>> /\ objects[x] \subseteq FileOps
  BY StoreFacts DEF StoreTypes, StoreOK
<1>3. objects' \in [{k} \cup DOMAIN objects -> SUBSET FileOps]
  BY <1>1, <1>2
<1>4. objects' \in Stores
  BY <1>2, <1>3 DEF Stores
<1>5. IsFiniteSet(DOMAIN objects \cup {k}) /\ DOMAIN objects' = DOMAIN objects \cup {k}
  BY <1>1, FS_AddElement DEF StoreTypes, StoreOK
<1>6. \A x \in DOMAIN objects' : Last(x) = NoName => objects'[x] = {}
  BY <1>1, <1>5 DEF StoreTypes, StoreOK
<1> QED
  BY <1>1, <1>4, <1>5, <1>6 DEF StoreOK

LEMMA WithoutFacts ==
    ASSUME StoreTypes, NEW k, objects' = Without(k)
    PROVE  /\ StoreOK(objects') /\ DOMAIN objects' = DOMAIN objects \ {k}
           /\ \A x \in DOMAIN objects' : objects'[x] = objects[x]
<1>1. objects' = [x \in DOMAIN objects \ {k} |-> objects[x]]
  BY DEF Without
<1>2. \A x \in DOMAIN objects : x \in ObjectKeys /\ x # <<>> /\ objects[x] \subseteq FileOps
  BY StoreFacts DEF StoreTypes, StoreOK
<1>3. objects' \in [DOMAIN objects \ {k} -> SUBSET FileOps]
  BY <1>1, <1>2
<1>4. objects' \in Stores
  BY <1>2, <1>3 DEF Stores
<1>5. IsFiniteSet(DOMAIN objects \ {k}) /\ DOMAIN objects' = DOMAIN objects \ {k}
  BY <1>1, FS_RemoveElement DEF StoreTypes, StoreOK
<1>6. \A x \in DOMAIN objects' : Last(x) = NoName => objects'[x] = {}
  BY <1>1, <1>5 DEF StoreTypes, StoreOK
<1> QED
  BY <1>1, <1>4, <1>5, <1>6 DEF StoreOK

\* What one operation does leaves what others on unrelated paths have learnt.
LEMMA Composes ==
    ASSUME ObjectIInv, NEW a \in FileOps, fileOp[a].at \notin Resting,
           fileOp' \in [FileOps -> OpRecords], \A b \in FileOps \ {a} : fileOp'[b] = fileOp[b],
           UNCHANGED overlapped, counted' \subseteq FileOps, StoreOK(objects'),
           OpAlone(a, fileOp'[a]),
           fileOp'[a].at \notin Resting => fileOp'[a].path = fileOp[a].path /\ fileOp'[a].dest = fileOp[a].dest,
           ~overlapped => OpFits(a, fileOp'[a], objects'),
           ~overlapped => \A p \in FilePaths :
               (\A q \in PlacesOf(fileOp[a]) : ~Related(p, q)) =>
                   \A k \in ObjectKeys : IsPrefix(p, k) => SameAt(objects, objects', k),
           TextIsKept'
    PROVE  ObjectIInv'
<1>1. StoreTypes'
  BY DEF ObjectIInv, StoreTypes
<1>2. \A b \in FileOps : OpAlone(b, fileOp'[b])
  BY DEF ObjectIInv
<1>3. ASSUME ~overlapped PROVE OpsApart'
  <2> SUFFICES ASSUME NEW b \in FileOps, NEW c \in FileOps, b # c,
                      fileOp'[b].at \notin Resting, fileOp'[c].at \notin Resting
               PROVE  \A p \in PlacesOf(fileOp'[b]), q \in PlacesOf(fileOp'[c]) : ~Related(p, q)
    BY DEF OpsApart
  <2>1. \A d \in {b, c} : PlacesOf(fileOp'[d]) = PlacesOf(fileOp[d]) /\ fileOp[d].at \notin Resting
    BY DEF PlacesOf
  <2> QED
    BY <1>3, <2>1 DEF ObjectIInv, OpsApart
<1>4. ASSUME ~overlapped, NEW b \in FileOps PROVE OpFits(b, fileOp'[b], objects')
  <2>1. CASE b = a
    BY <1>4, <2>1
  <2>2. CASE b # a /\ fileOp[b].at \notin Resting
    <3>1. fileOp'[b] = fileOp[b] /\ fileOp[b] \in OpRecords /\ OpAlone(b, fileOp[b]) /\ OpFits(b, fileOp[b], objects)
      BY <1>4, <2>2 DEF ObjectIInv, StoreTypes
    <3>2. objects \in Stores /\ objects' \in Stores
      BY DEF ObjectIInv, StoreTypes, StoreOK
    <3>3. \A p \in PlacesOf(fileOp[b]) : p \in FilePaths
      BY <3>1 DEF PlacesOf, OpRecords
    <3>4. \A p \in PlacesOf(fileOp[b]), q \in PlacesOf(fileOp[a]) : ~Related(p, q)
      BY <1>4, <2>2 DEF ObjectIInv, OpsApart
    <3>5. \A p \in PlacesOf(fileOp[b]) : \A k \in ObjectKeys : IsPrefix(p, k) => SameAt(objects, objects', k)
      BY <1>4, <3>3, <3>4
    <3> QED
      BY <3>1, <3>2, <3>5, FitsStays
  <2>3. CASE b # a /\ fileOp[b].at \in Resting
    BY <2>3 DEF OpFits
  <2> QED
    BY <2>1, <2>2, <2>3
<1> QED
  BY <1>1, <1>2, <1>3, <1>4 DEF ObjectIInv

\* A request that writes nothing.
LEMMA QuietComposes ==
    ASSUME ObjectIInv, NEW a \in FileOps, fileOp[a].at \notin Resting,
           fileOp' \in [FileOps -> OpRecords], \A b \in FileOps \ {a} : fileOp'[b] = fileOp[b],
           UNCHANGED <<objects, overlapped>>, counted' \subseteq FileOps,
           \A x \in counted' \ counted : \E k \in DOMAIN objects : x \in objects[k],
           OpAlone(a, fileOp'[a]),
           fileOp'[a].at \notin Resting => fileOp'[a].path = fileOp[a].path /\ fileOp'[a].dest = fileOp[a].dest,
           ~overlapped => OpFits(a, fileOp'[a], objects)
    PROVE  ObjectIInv'
<1>1. TextIsKept'
  BY DEF TextIsKept, ObjectIInv
<1>2. StoreOK(objects')
  BY DEF ObjectIInv, StoreTypes
<1>3. \A k \in ObjectKeys : SameAt(objects, objects', k)
  BY DEF SameAt
<1>4. OpFits(a, fileOp'[a], objects) => OpFits(a, fileOp'[a], objects')
  OBVIOUS
<1> QED
  BY <1>1, <1>2, <1>3, <1>4, Composes

\* Below a path of the operation no other operation looks.
LEMMA Reaches ==
    ASSUME NEW op \in OpRecords, NEW k \in ObjectKeys, NEW q \in PlacesOf(op), IsPrefix(q, k),
           NEW f, NEW g, \A x \in ObjectKeys : x # k => SameAt(f, g, x)
    PROVE  \A p \in FilePaths : (\A r \in PlacesOf(op) : ~Related(p, r)) =>
               \A x \in ObjectKeys : IsPrefix(p, x) => SameAt(f, g, x)
<1> SUFFICES ASSUME NEW p \in FilePaths, \A r \in PlacesOf(op) : ~Related(p, r), NEW x \in ObjectKeys, IsPrefix(p, x)
             PROVE  SameAt(f, g, x)
  OBVIOUS
<1>1. p \in ObjectKeys /\ q \in ObjectKeys
  BY PathFacts DEF PlacesOf, OpRecords
<1>2. x # k
  BY <1>1, RelatedBelow
<1> QED
  BY <1>2

\* An operation that ends has nothing in hand.
LEMMA EndedOp ==
    ASSUME NEW a \in FileOps, NEW op, NEW f, op.at \in Resting
    PROVE  OpAlone(a, op) /\ OpFits(a, op, f)
BY DEF OpAlone, OpFits

LEMMA OpFacts ==
    ASSUME ObjectIInv, NEW a \in FileOps, fileOp[a].at \notin Resting
    PROVE  /\ StoreTypes /\ fileOp[a] \in OpRecords /\ OpAlone(a, fileOp[a]) /\ (~overlapped => OpFits(a, fileOp[a], objects))
           /\ Path(a) = fileOp[a].path /\ Dest(a) = fileOp[a].dest
           /\ Path(a) \in FilePaths /\ Path(a) \in ObjectKeys /\ Path(a) # <<>> /\ Path(a) \in PlacesOf(fileOp[a])
           /\ KindOf[a] = "move" =>
                 Dest(a) \in FilePaths /\ Dest(a) \in ObjectKeys /\ Dest(a) # <<>> /\ Dest(a) \in PlacesOf(fileOp[a])
           /\ KindOf[a] \in FileKinds /\ fileOp[a].todo \in Seq(ObjectKeys) /\ fileOp[a].held \subseteq FileOps
           /\ fileOp[a].before \in Stores /\ counted \subseteq FileOps
           /\ objects \in Stores /\ IsFiniteSet(DOMAIN objects)
           /\ \A k \in DOMAIN objects : k \in ObjectKeys /\ k # <<>> /\ objects[k] \subseteq FileOps
<1>1. StoreTypes /\ fileOp[a] \in OpRecords /\ OpAlone(a, fileOp[a]) /\ (~overlapped => OpFits(a, fileOp[a], objects))
  BY DEF ObjectIInv, StoreTypes
<1>2. fileOp[a].path \in FilePaths /\ (KindOf[a] = "move" => fileOp[a].dest \in FilePaths)
  BY <1>1 DEF OpAlone
<1>3. KindOf[a] \in FileKinds /\ fileOp[a].todo \in Seq(ObjectKeys) /\ fileOp[a].held \subseteq FileOps /\ fileOp[a].before \in Stores
  BY <1>1, ObjectAssumption DEF OpRecords
<1>4. objects \in Stores /\ IsFiniteSet(DOMAIN objects) /\ counted \subseteq FileOps
  BY <1>1 DEF StoreTypes, StoreOK
<1>5. \A k \in DOMAIN objects : k \in ObjectKeys /\ k # <<>> /\ objects[k] \subseteq FileOps
  BY <1>4, StoreFacts
<1> QED
  BY <1>1, <1>2, <1>3, <1>4, <1>5, PathFacts DEF Path, Dest, PlacesOf

\* The operation goes on, or ends, and does nothing else.
LEMMA ProceedsFacts ==
    ASSUME StoreTypes, NEW a \in FileOps, NEW l \in FileStages, Proceeds(a, l)
    PROVE  /\ fileOp' \in [FileOps -> OpRecords] /\ \A b \in FileOps \ {a} : fileOp'[b] = fileOp[b]
           /\ fileOp'[a] \in OpRecords /\ fileOp'[a].at = l
           /\ l \notin Ends => /\ fileOp'[a].path = fileOp[a].path /\ fileOp'[a].dest = fileOp[a].dest
                               /\ fileOp'[a].held = fileOp[a].held /\ fileOp'[a].todo = fileOp[a].todo
                               /\ fileOp'[a].before = fileOp[a].before
<1>1. fileOp' = [fileOp EXCEPT ![a] = To(a, l)] /\ fileOp \in [FileOps -> OpRecords]
  BY DEF Proceeds, StoreTypes
<1>2. fileOp'[a] = To(a, l) /\ fileOp' \in [FileOps -> OpRecords] /\ \A b \in FileOps \ {a} : fileOp'[b] = fileOp[b]
  BY <1>1, ToFacts
<1> QED
  BY <1>2, ToFacts DEF Path, Dest

LEMMA FailStep ==
    ASSUME ObjectIInv, NEW a \in FileOps, FailFileOp(a)
    PROVE  ObjectIInv'
<1>1. fileOp[a].at \notin Resting
  BY DEF FailFileOp, FileStage
<1> DEFINE l == Failing(a)
<1>2. l \in FileStages /\ l \in {"failed", "reread"} /\ (l = "reread" => KindOf[a] = "force")
  BY DEF Failing, FileStages
<1> HIDE DEF l
<1>3. Proceeds(a, l) /\ UNCHANGED <<objects, counted, overlapped>>
  BY DEF FailFileOp, l
<1>4. OpAlone(a, fileOp'[a])
  BY <1>1, <1>2, <1>3, ProceedsFacts, OpFacts DEF OpAlone, Ends, Resting
<1>5. OpFits(a, fileOp'[a], objects)
  BY <1>1, <1>2, <1>3, ProceedsFacts, OpFacts DEF OpFits, Ends, Resting
<1> QED
  BY <1>1, <1>2, <1>3, <1>4, <1>5, ProceedsFacts, OpFacts, QuietComposes DEF Ends, Resting

LEMMA CheckStep ==
    ASSUME ObjectIInv, NEW a \in FileOps, CheckFile(a)
    PROVE  ObjectIInv'
<1>1. fileOp[a].at = "check" /\ fileOp[a].at \notin Resting
  BY DEF CheckFile, FileStage, Resting, Ends
<1>2. KindOf[a] \in {"write", "force", "delete"} /\ fileOp[a].todo = <<>>
  BY <1>1, OpFacts DEF OpAlone
<1> DEFINE l == IF KindOf[a] = "delete" THEN IF There(Path(a)) THEN "drop" ELSE "list"
                ELSE IF There(Path(a)) THEN Failing(a) ELSE "put"
<1>3. /\ l \in FileStages /\ l \in {"drop", "list", "failed", "reread", "put"}
      /\ l = "drop" => KindOf[a] = "delete" /\ fileOp[a].path \in DOMAIN objects
      /\ l = "list" => KindOf[a] = "delete" /\ fileOp[a].path \notin DOMAIN objects
      /\ l = "put" => KindOf[a] \in {"write", "force"} /\ fileOp[a].path \notin DOMAIN objects
      /\ l = "reread" => KindOf[a] = "force"
  BY <1>2 DEF Failing, FileStages, There, Path
<1> HIDE DEF l
<1>4. Proceeds(a, l) /\ UNCHANGED <<objects, counted, overlapped>>
  BY DEF CheckFile, l
<1>5. OpAlone(a, fileOp'[a])
  <2>1. DOMAIN <<>> = {} /\ Len(<<>>) = 0
    OBVIOUS
  <2> QED
    BY <1>1, <1>2, <1>3, <1>4, <2>1, ProceedsFacts, OpFacts DEF OpAlone, Ends, Resting
<1>6. ASSUME ~overlapped PROVE OpFits(a, fileOp'[a], objects)
  <2>1. KindOf[a] = "delete" /\ ~Twofold(fileOp[a].before, fileOp[a].path) => AsBefore(fileOp[a], objects)
    BY <1>1, <1>6, OpFacts DEF OpFits, DeleteSinceBefore
  <2>2. l \in {"drop", "list"} => (AsBefore(fileOp[a], objects) => AsBefore(fileOp'[a], objects))
    BY <1>3, <1>4, OpFacts, <1>1, ProceedsFacts DEF AsBefore, Ends
  <2> QED
    BY <1>1, <1>2, <1>3, <1>4, <2>1, <2>2, ProceedsFacts, OpFacts DEF OpFits, Ends, Resting, DeleteSinceBefore
<1> QED
  BY <1>1, <1>3, <1>4, <1>5, <1>6, ProceedsFacts, OpFacts, QuietComposes DEF Ends, Resting

LEMMA RereadStep ==
    ASSUME ObjectIInv, NEW a \in FileOps, Reread(a)
    PROVE  ObjectIInv'
<1>1. fileOp[a].at = "reread" /\ fileOp[a].at \notin Resting
  BY DEF Reread, FileStage, Resting, Ends
<1>2. KindOf[a] = "force"
  BY <1>1, OpFacts DEF OpAlone
<1>3. Text(Path(a)) \subseteq FileOps
  BY <1>1, OpFacts DEF Text, There
<1>4. ASSUME NEW l \in {"failed", "ok"}, fileOp' = [fileOp EXCEPT ![a] = To(a, l)] PROVE ObjectIInv'
  <2>1. l \in FileStages /\ Proceeds(a, l) /\ l \in Resting
    BY <1>4 DEF FileStages, Proceeds, Resting, Ends
  <2>2. \A x \in counted' \ counted : \E k \in DOMAIN objects : x \in objects[k]
    BY DEF Reread, Text, There
  <2>3. counted' \subseteq FileOps
    BY <1>1, OpFacts DEF Reread
  <2>4. OpAlone(a, fileOp'[a]) /\ OpFits(a, fileOp'[a], objects)
    BY <1>1, <2>1, ProceedsFacts, OpFacts, EndedOp
  <2> QED
    BY <1>1, <2>1, <2>2, <2>3, <2>4, ProceedsFacts, OpFacts, QuietComposes DEF Reread
<1>5. ASSUME fileOp' = [fileOp EXCEPT ![a] = [To(a, "get") EXCEPT !.held = Text(Path(a))]] PROVE ObjectIInv'
  <2> DEFINE g == To(a, "get")
  <2>1. /\ g \in OpRecords /\ g.at = "get" /\ g.path = fileOp[a].path /\ g.dest = fileOp[a].dest
    BY <1>1, OpFacts, ToFacts DEF FileStages, Ends
  <2> HIDE DEF g
  <2>2. fileOp'[a] = [g EXCEPT !.held = Text(Path(a))] /\ \A b \in FileOps \ {a} : fileOp'[b] = fileOp[b]
    BY <1>1, <1>5, OpFacts DEF g, StoreTypes
  <2>3. /\ fileOp'[a] \in OpRecords /\ fileOp'[a].at = "get" /\ fileOp'[a].path = fileOp[a].path /\ fileOp'[a].dest = fileOp[a].dest
    BY <1>3, <2>1, <2>2 DEF OpRecords
  <2>4. fileOp' \in [FileOps -> OpRecords]
    BY <1>1, <1>5, <2>2, <2>3, OpFacts DEF StoreTypes
  <2>5. OpAlone(a, fileOp'[a]) /\ OpFits(a, fileOp'[a], objects)
    BY <1>1, <1>2, <2>3, OpFacts DEF OpAlone, OpFits
  <2>6. \A x \in counted' \ counted : \E k \in DOMAIN objects : x \in objects[k]
    BY DEF Reread, Text, There
  <2>7. counted' \subseteq FileOps
    BY <1>1, OpFacts DEF Reread
  <2> QED
    BY <1>1, <2>2, <2>3, <2>4, <2>5, <2>6, <2>7, QuietComposes DEF Reread
<1> QED
  BY <1>4, <1>5 DEF Reread

\* The operation goes on with a text, or with keys to treat.
ProceedsHolding(a, l, S) == fileOp' = [fileOp EXCEPT ![a] = [To(a, l) EXCEPT !.held = S]]
ProceedsToTreat(a, l, s) == fileOp' = [fileOp EXCEPT ![a] = [To(a, l) EXCEPT !.todo = s]]

LEMMA HeldFacts ==
    ASSUME StoreTypes, NEW a \in FileOps, NEW l \in FileStages \ Ends, NEW S \in SUBSET FileOps,
           ProceedsHolding(a, l, S)
    PROVE  /\ fileOp' \in [FileOps -> OpRecords] /\ \A b \in FileOps \ {a} : fileOp'[b] = fileOp[b]
           /\ fileOp'[a] \in OpRecords /\ fileOp'[a].at = l /\ fileOp'[a].held = S
           /\ fileOp'[a].path = fileOp[a].path /\ fileOp'[a].dest = fileOp[a].dest
           /\ fileOp'[a].todo = fileOp[a].todo /\ fileOp'[a].before = fileOp[a].before
<1> DEFINE g == To(a, l)
<1>1. /\ g \in OpRecords /\ g.at = l /\ g.path = fileOp[a].path /\ g.dest = fileOp[a].dest
      /\ g.todo = fileOp[a].todo /\ g.before = fileOp[a].before
  BY ToFacts DEF Path, Dest
<1>2. fileOp \in [FileOps -> OpRecords]
  BY DEF StoreTypes
<1>3. fileOp'[a] = [g EXCEPT !.held = S] /\ \A b \in FileOps \ {a} : fileOp'[b] = fileOp[b]
  BY <1>2 DEF ProceedsHolding
<1> HIDE DEF g
<1>4. /\ fileOp'[a] \in OpRecords /\ fileOp'[a].at = l /\ fileOp'[a].held = S
      /\ fileOp'[a].path = fileOp[a].path /\ fileOp'[a].dest = fileOp[a].dest
      /\ fileOp'[a].todo = fileOp[a].todo /\ fileOp'[a].before = fileOp[a].before
  BY <1>1, <1>3 DEF OpRecords
<1>5. fileOp' \in [FileOps -> OpRecords]
  BY <1>2, <1>3, <1>4 DEF ProceedsHolding
<1> QED
  BY <1>3, <1>4, <1>5

LEMMA TodoFacts ==
    ASSUME StoreTypes, NEW a \in FileOps, NEW l \in FileStages \ Ends, NEW s \in Seq(ObjectKeys),
           ProceedsToTreat(a, l, s)
    PROVE  /\ fileOp' \in [FileOps -> OpRecords] /\ \A b \in FileOps \ {a} : fileOp'[b] = fileOp[b]
           /\ fileOp'[a] \in OpRecords /\ fileOp'[a].at = l /\ fileOp'[a].todo = s
           /\ fileOp'[a].path = fileOp[a].path /\ fileOp'[a].dest = fileOp[a].dest
           /\ fileOp'[a].held = fileOp[a].held /\ fileOp'[a].before = fileOp[a].before
<1> DEFINE g == To(a, l)
<1>1. /\ g \in OpRecords /\ g.at = l /\ g.path = fileOp[a].path /\ g.dest = fileOp[a].dest
      /\ g.held = fileOp[a].held /\ g.before = fileOp[a].before
  BY ToFacts DEF Path, Dest
<1>2. fileOp \in [FileOps -> OpRecords]
  BY DEF StoreTypes
<1>3. fileOp'[a] = [g EXCEPT !.todo = s] /\ \A b \in FileOps \ {a} : fileOp'[b] = fileOp[b]
  BY <1>2 DEF ProceedsToTreat
<1> HIDE DEF g
<1>4. /\ fileOp'[a] \in OpRecords /\ fileOp'[a].at = l /\ fileOp'[a].todo = s
      /\ fileOp'[a].path = fileOp[a].path /\ fileOp'[a].dest = fileOp[a].dest
      /\ fileOp'[a].held = fileOp[a].held /\ fileOp'[a].before = fileOp[a].before
  BY <1>1, <1>3 DEF OpRecords
<1>5. fileOp' \in [FileOps -> OpRecords]
  BY <1>2, <1>3, <1>4 DEF ProceedsToTreat
<1> QED
  BY <1>3, <1>4, <1>5

LEMMA GetStep ==
    ASSUME ObjectIInv, NEW a \in FileOps, GetFile(a)
    PROVE  ObjectIInv'
<1> DEFINE text == Text(Path(a))
           S == (text \ fileOp[a].held) \cup {a}
<1>1. fileOp[a].at = "get" /\ fileOp[a].at \notin Resting
  BY DEF GetFile, FileStage, Resting, Ends
<1>2. KindOf[a] \in {"force", "edit"} /\ (KindOf[a] = "edit" => fileOp[a].held = {})
  BY <1>1, OpFacts DEF OpAlone
<1>3. UNCHANGED <<objects, counted, overlapped>>
  BY DEF GetFile
<1>4. ASSUME fileOp' = [fileOp EXCEPT ![a] = To(a, "failed")] PROVE ObjectIInv'
  <2>1. "failed" \in FileStages /\ Proceeds(a, "failed") /\ "failed" \in Resting
    BY <1>4 DEF FileStages, Proceeds, Resting, Ends
  <2>2. OpAlone(a, fileOp'[a]) /\ OpFits(a, fileOp'[a], objects)
    BY <1>1, <2>1, ProceedsFacts, OpFacts, EndedOp
  <2> QED
    BY <1>1, <1>3, <2>1, <2>2, ProceedsFacts, OpFacts, QuietComposes
<1>5. ASSUME fileOp' = [fileOp EXCEPT ![a] = [To(a, "replace") EXCEPT !.held = (text \ fileOp[a].held) \cup {a}]]
      PROVE  ObjectIInv'
  <2>1. "replace" \in FileStages \ Ends /\ S \in SUBSET FileOps
    BY <1>1, OpFacts DEF FileStages, Ends, Text, There
  <2>2. fileOp' = [fileOp EXCEPT ![a] = [To(a, "replace") EXCEPT !.held = S]]
    BY <1>1, <1>5, <2>1, OpFacts, ToFacts
  <2>3. text \subseteq S \/ KindOf[a] # "edit"
    BY <1>2
  <2>4. fileOp[a].path \in DOMAIN objects => objects[fileOp[a].path] = text
    BY DEF Text, There, Path
  <2>5. a \in S
    OBVIOUS
  <2>p. PICK Z \in SUBSET FileOps : Z = S
    BY <2>1
  <2> HIDE DEF S, text
  <2>i. StoreTypes /\ OpAlone(a, fileOp[a]) /\ fileOp[a].path \in FilePaths
    BY <1>1, OpFacts
  <2>h. /\ fileOp' \in [FileOps -> OpRecords] /\ \A b \in FileOps \ {a} : fileOp'[b] = fileOp[b]
        /\ fileOp'[a].at = "replace" /\ fileOp'[a].held = S
        /\ fileOp'[a].path = fileOp[a].path /\ fileOp'[a].dest = fileOp[a].dest
    <3>1. ProceedsHolding(a, "replace", Z) /\ "replace" \in FileStages \ Ends
      BY <2>1, <2>2, <2>p DEF ProceedsHolding
    <3> QED
      BY <2>i, <2>p, <3>1, HeldFacts
  <2>6. OpAlone(a, fileOp'[a])
    BY <1>1, <1>2, <2>i, <2>5, <2>h DEF OpAlone
  <2>7. OpFits(a, fileOp'[a], objects)
    BY <1>1, <1>2, <2>3, <2>4, <2>h DEF OpFits
  <2> QED
    <3>1. /\ UNCHANGED <<objects, overlapped>> /\ counted' \subseteq FileOps /\ counted' = counted
      BY <1>1, <1>3, OpFacts
    <3> QED
      BY <1>1, <2>6, <2>7, <2>h, <3>1, QuietComposes
<1> QED
  BY <1>4, <1>5 DEF GetFile

LEMMA PutStep ==
    ASSUME ObjectIInv, NEW a \in FileOps, PutFile(a)
    PROVE  ObjectIInv'
<1> DEFINE t == IF FileStage(a) = "put" THEN {a} ELSE fileOp[a].held
           left == counted \ (IF KindOf[a] \in {"upload", "force"} THEN Text(Path(a)) ELSE {})
           k == Path(a)
<1>1. fileOp[a].at \in {"put", "replace"} /\ fileOp[a].at \notin Resting
  BY DEF PutFile, FileStage, Resting, Ends
<1>2. /\ fileOp[a].at = "put" => KindOf[a] \in {"write", "force", "upload"}
      /\ fileOp[a].at = "replace" => KindOf[a] \in {"force", "edit"} /\ a \in fileOp[a].held
  BY <1>1, OpFacts DEF OpAlone
<1>3. k \in ObjectKeys /\ k # <<>> /\ Last(k) # NoName /\ t \in SUBSET FileOps /\ a \in t
  <2>1. Last(k) # NoName
    BY <1>1, OpFacts, PathFacts DEF Last
  <2> QED
    BY <1>1, <1>2, <2>1, OpFacts DEF FileStage
<1>4. objects' = With(k, t) /\ UNCHANGED overlapped
  BY DEF PutFile
<1>5. counted' \in {left, left \cup {a}}
  BY DEF PutFile
<1>6. TextIsKept'
  <2> SUFFICES ASSUME ~overlapped, NEW x \in counted' PROVE \E y \in DOMAIN objects' : x \in objects'[y]
    BY <1>4 DEF TextIsKept
  <2>1. /\ DOMAIN objects' = DOMAIN objects \cup {k} /\ objects'[k] = t
        /\ \A y \in DOMAIN objects : y # k => objects'[y] = objects[y]
    BY <1>1, <1>3, <1>4, WithFacts, OpFacts
  <2>2. CASE x = a
    BY <1>3, <2>1, <2>2
  <2>3. CASE x # a
    <3>1. x \in counted /\ (KindOf[a] \in {"upload", "force"} => x \notin Text(k))
      BY <1>5, <2>3
    <3>2. PICK y \in DOMAIN objects : x \in objects[y]
      BY <3>1 DEF ObjectIInv, TextIsKept
    <3>3. CASE y # k
      BY <2>1, <3>2, <3>3
    <3>4. CASE y = k
      <4>1. KindOf[a] \notin {"upload", "force"}
        BY <3>1, <3>2, <3>4 DEF Text, There
      <4>2. fileOp[a].at = "replace" /\ KindOf[a] = "edit"
        BY <1>1, <1>2, <3>2, <3>4, <4>1, OpFacts DEF OpFits
      <4>3. objects[k] \subseteq fileOp[a].held
        BY <1>1, <3>4, <4>2, OpFacts DEF OpFits
      <4>4. t = fileOp[a].held
        BY <4>2 DEF FileStage
      <4> QED
        BY <2>1, <3>2, <3>4, <4>3, <4>4
    <3> QED
      BY <3>3, <3>4
  <2> QED
    BY <2>2, <2>3
<1>7. StoreOK(objects') /\ \A x \in ObjectKeys : x # k => SameAt(objects, objects', x)
  <2> HIDE DEF t, k
  <2>1. /\ StoreOK(objects') /\ DOMAIN objects' = DOMAIN objects \cup {k}
        /\ \A y \in DOMAIN objects : y # k => objects'[y] = objects[y]
    BY <1>1, <1>3, <1>4, WithFacts, OpFacts
  <2> QED
    BY <2>1 DEF SameAt
<1>8. \A p \in FilePaths : (\A q \in PlacesOf(fileOp[a]) : ~Related(p, q)) =>
          \A x \in ObjectKeys : IsPrefix(p, x) => SameAt(objects, objects', x)
  <2>1. k \in PlacesOf(fileOp[a]) /\ IsPrefix(k, k) /\ fileOp[a] \in OpRecords
    BY <1>1, <1>3, OpFacts, PrefixOrder
  <2> HIDE DEF k
  <2> QED
    BY <1>3, <1>7, <2>1, Reaches
<1>9. PICK l \in {"ok", "failed", "reread"} : Proceeds(a, l) /\ (l = "reread" => KindOf[a] = "force")
  BY DEF PutFile, Failing
<1>10. l \in FileStages
  BY DEF FileStages
<1>11. OpAlone(a, fileOp'[a]) /\ OpFits(a, fileOp'[a], objects')
  <2>1. CASE l = "reread"
    BY <1>1, <1>9, <1>10, <2>1, ProceedsFacts, OpFacts DEF OpAlone, OpFits, Ends, Resting
  <2>2. CASE l # "reread"
    BY <1>1, <1>9, <1>10, <2>2, ProceedsFacts, OpFacts, EndedOp DEF Ends, Resting
  <2> QED
    BY <2>1, <2>2
<1>12. counted' \subseteq FileOps
  BY <1>1, <1>5, OpFacts
<1> HIDE DEF t, left, k
<1>13. /\ fileOp' \in [FileOps -> OpRecords] /\ \A b \in FileOps \ {a} : fileOp'[b] = fileOp[b]
       /\ fileOp'[a].at \notin Resting => fileOp'[a].path = fileOp[a].path /\ fileOp'[a].dest = fileOp[a].dest
  BY <1>1, <1>9, <1>10, ProceedsFacts, OpFacts DEF Ends, Resting
<1> QED
  BY <1>1, <1>4, <1>6, <1>7, <1>8, <1>11, <1>12, <1>13, Composes

LEMMA MakeStep ==
    ASSUME ObjectIInv, NEW a \in FileOps, MakeLevel(a)
    PROVE  ObjectIInv'
<1> DEFINE pend == fileOp[a].todo
           p == Head(pend)
           m == Marker(p)
<1>1. fileOp[a].at = "parts" /\ fileOp[a].at \notin Resting
  BY DEF MakeLevel, FileStage, Resting, Ends
<1>2. /\ KindOf[a] = "mkdir" /\ pend # <<>> /\ pend[Len(pend)] = Path(a) /\ pend \in Seq(ObjectKeys)
      /\ \A i \in DOMAIN pend : IsPrefix(pend[i], Path(a))
  BY <1>1, OpFacts DEF OpAlone
<1>3. /\ p \in ObjectKeys /\ p = pend[1] /\ IsPrefix(p, Path(a)) /\ Len(pend) \in Nat \ {0}
      /\ Tail(pend) \in Seq(ObjectKeys) /\ Len(Tail(pend)) = Len(pend) - 1
      /\ \A i \in 1..Len(pend) - 1 : Tail(pend)[i] = pend[i + 1]
  BY <1>2
<1>4. m \in ObjectKeys /\ m # <<>> /\ Last(m) = NoName /\ \A q \in FilePaths : IsPrefix(q, m) => IsPrefix(q, p)
  BY <1>3, MarkerFacts
<1>d. \/ There(p) /\ Proceeds(a, "failed") /\ UNCHANGED objects
      \/ /\ ~There(p) /\ objects' = With(m, {})
         /\ fileOp' = [fileOp EXCEPT ![a] = IF p = Path(a) THEN To(a, "ok") ELSE [fileOp[a] EXCEPT !.todo = Tail(pend)]]
  BY DEF MakeLevel
<1>5. CASE Proceeds(a, "failed") /\ UNCHANGED objects
  <2>1. "failed" \in FileStages /\ "failed" \in Resting
    BY DEF FileStages, Resting, Ends
  <2>2. OpAlone(a, fileOp'[a]) /\ OpFits(a, fileOp'[a], objects)
    BY <1>1, <1>5, <2>1, ProceedsFacts, OpFacts, EndedOp
  <2> QED
    BY <1>1, <1>5, <2>1, <2>2, ProceedsFacts, OpFacts, QuietComposes DEF MakeLevel
<1>6. CASE ~There(p) /\ objects' = With(m, {})
  <2> HIDE DEF m, p, pend
  <2>0. StoreTypes
    BY <1>1, OpFacts
  <2>1. /\ StoreOK(objects') /\ DOMAIN objects' = DOMAIN objects \cup {m} /\ objects'[m] = {}
        /\ \A x \in DOMAIN objects : x # m => objects'[x] = objects[x]
    <3>1. PICK e \in SUBSET FileOps : e = {}
      OBVIOUS
    <3>2. objects' = With(m, e)
      BY <1>6, <3>1
    <3>3. /\ StoreOK(objects') /\ DOMAIN objects' = DOMAIN objects \cup {m} /\ objects'[m] = e
          /\ \A x \in DOMAIN objects : x # m => objects'[x] = objects[x]
      BY <2>0, <1>4, <3>1, <3>2, WithFacts
    <3> QED
      BY <3>1, <3>3
  <2>2. \A x \in ObjectKeys : x # m => SameAt(objects, objects', x)
    BY <2>1 DEF SameAt
  <2>3. \A q \in FilePaths : (\A r \in PlacesOf(fileOp[a]) : ~Related(q, r)) =>
            \A x \in ObjectKeys : IsPrefix(q, x) => SameAt(objects, objects', x)
    <3> SUFFICES ASSUME NEW q \in FilePaths, \A r \in PlacesOf(fileOp[a]) : ~Related(q, r),
                        NEW x \in ObjectKeys, IsPrefix(q, x)
                 PROVE  SameAt(objects, objects', x)
      OBVIOUS
    <3>1. CASE x = m
      <4>1. IsPrefix(q, p)
        BY <1>4, <3>1
      <4>2. IsPrefix(q, Path(a))
        BY <1>1, <1>3, <4>1, PathFacts, PrefixOrder, OpFacts
      <4> QED
        BY <1>1, <4>2, OpFacts DEF Related
    <3>2. CASE x # m
      BY <2>2, <3>2
    <3> QED
      BY <3>1, <3>2
  <2>4. TextIsKept'
    <3> SUFFICES ASSUME ~overlapped, NEW x \in counted PROVE \E y \in DOMAIN objects' : x \in objects'[y]
      BY DEF TextIsKept, MakeLevel
    <3>1. PICK y \in DOMAIN objects : x \in objects[y]
      BY DEF ObjectIInv, TextIsKept
    <3>2. y # m
      BY <1>4, <2>0, <3>1 DEF StoreTypes, StoreOK
    <3> QED
      BY <2>1, <3>1, <3>2
  <2>5. CASE p = Path(a) /\ Proceeds(a, "ok")
    <3>1. "ok" \in FileStages /\ "ok" \in Resting
      BY DEF FileStages, Resting, Ends
    <3>2. OpAlone(a, fileOp'[a]) /\ OpFits(a, fileOp'[a], objects')
      BY <2>0, <2>5, <3>1, ProceedsFacts, EndedOp
    <3>3. /\ fileOp' \in [FileOps -> OpRecords] /\ \A b \in FileOps \ {a} : fileOp'[b] = fileOp[b]
          /\ fileOp'[a].at \in Resting
      BY <2>0, <2>5, <3>1, ProceedsFacts
    <3>4. overlapped' = overlapped /\ counted' \subseteq FileOps /\ StoreOK(objects')
      BY <2>0, <2>1 DEF MakeLevel, StoreTypes
    <3> QED
      BY <1>1, <2>3, <2>4, <3>2, <3>3, <3>4, Composes
  <2>6. CASE p # Path(a) /\ fileOp' = [fileOp EXCEPT ![a] = [@ EXCEPT !.todo = Tail(pend)]]
    <3> DEFINE r == fileOp[a]
               s == Tail(pend)
    <3>0. fileOp \in [FileOps -> OpRecords] /\ r \in OpRecords /\ r.todo = pend
      BY <2>0 DEF StoreTypes, pend
    <3>1. fileOp'[a] = [r EXCEPT !.todo = s] /\ \A b \in FileOps \ {a} : fileOp'[b] = fileOp[b]
      BY <3>0, <2>6
    <3>2. s \in Seq(ObjectKeys) /\ Len(s) = Len(pend) - 1 /\ \A i \in 1..Len(pend) - 1 : s[i] = pend[i + 1]
      BY <1>3
    <3>3. Len(pend) > 1
      BY <1>2, <1>3, <2>6
    <3> HIDE DEF s
    <3>4. /\ fileOp'[a] \in OpRecords /\ fileOp'[a].at = r.at /\ fileOp'[a].todo = s
          /\ fileOp'[a].path = r.path /\ fileOp'[a].dest = r.dest
      BY <3>0, <3>1, <3>2 DEF OpRecords
    <3>5. fileOp' \in [FileOps -> OpRecords]
      BY <3>0, <3>1, <3>4, <2>6 DEF s
    <3>6. /\ s # <<>> /\ s[Len(s)] = Path(a) /\ \A i \in DOMAIN s : IsPrefix(s[i], Path(a))
      <4>1. Len(s) > 0 /\ Len(s) \in Nat /\ DOMAIN s = 1..Len(s)
        BY <1>3, <3>2, <3>3
      <4>2. s[Len(s)] = pend[Len(pend)]
        BY <1>3, <3>2, <3>3
      <4>3. \A i \in DOMAIN s : s[i] = pend[i + 1] /\ i + 1 \in DOMAIN pend
        BY <1>2, <1>3, <3>2, <4>1
      <4> QED
        BY <1>2, <4>1, <4>2, <4>3
    <3>7. OpAlone(a, fileOp'[a])
      BY <1>1, <1>2, <3>4, <3>6, OpFacts DEF OpAlone
    <3>8. OpFits(a, fileOp'[a], objects')
      BY <1>1, <1>2, <3>4 DEF OpFits
    <3>9. UNCHANGED <<counted, overlapped>> /\ counted \subseteq FileOps
      BY <2>0 DEF MakeLevel, StoreTypes
    <3> HIDE DEF r
    <3>10. fileOp'[a].path = fileOp[a].path /\ fileOp'[a].dest = fileOp[a].dest
      BY <3>4 DEF r
    <3> QED
      BY <1>1, <2>1, <2>3, <2>4, <3>1, <3>5, <3>7, <3>8, <3>9, <3>10, Composes
  <2>7. (p = Path(a) /\ Proceeds(a, "ok")) \/ (p # Path(a) /\ fileOp' = [fileOp EXCEPT ![a] = [@ EXCEPT !.todo = Tail(pend)]])
    <3> DEFINE z == [fileOp[a] EXCEPT !.todo = Tail(pend)]
               y == IF p = Path(a) THEN To(a, "ok") ELSE z
    <3>1. fileOp' = [fileOp EXCEPT ![a] = y]
      BY <1>6, <1>d
    <3>2. CASE p = Path(a)
      <4>1. y = To(a, "ok")
        BY <3>2
      <4> HIDE DEF y
      <4> QED
        BY <3>1, <3>2, <4>1 DEF Proceeds
    <3>3. CASE p # Path(a)
      <4>1. y = z
        BY <3>3
      <4> HIDE DEF y
      <4>2. fileOp' = [fileOp EXCEPT ![a] = z]
        BY <3>1, <4>1
      <4> QED
        BY <3>3, <4>2
    <3> QED
      BY <3>2, <3>3
  <2> QED
    BY <2>5, <2>6, <2>7
<1> QED
  BY <1>5, <1>6 DEF MakeLevel

\* A path, and what is below it.
LEMMA UnderFacts ==
    ASSUME NEW p \in ObjectKeys, StoreTypes
    PROVE  /\ Under(p, objects) = Below(p) \cup (IF p \in DOMAIN objects THEN {p} ELSE {})
           /\ p \notin Below(p)
<1>1. \A k \in DOMAIN objects : k \in ObjectKeys
  BY StoreFacts DEF StoreTypes, StoreOK
<1> QED
  BY <1>1, PrefixOrder DEF Under, Below, IsStrictPrefix

LEMMA DestStep ==
    ASSUME ObjectIInv, NEW a \in FileOps, CheckDest(a)
    PROVE  ObjectIInv'
<1>1. fileOp[a].at \in {"dest", "below"} /\ fileOp[a].at \notin Resting
  BY DEF CheckDest, FileStage, Resting, Ends
<1>2. KindOf[a] = "move" /\ UNCHANGED <<objects, counted, overlapped>>
  BY <1>1, OpFacts DEF OpAlone, CheckDest
<1>3. PICK l \in {"failed", "below", "source"} :
          /\ Proceeds(a, l)
          /\ l = "below" => Dest(a) \notin DOMAIN objects
          /\ l = "source" => fileOp[a].at = "below" /\ Below(Dest(a)) = {}
  <2>1. CASE fileOp[a].at = "dest"
    <3>1. Proceeds(a, IF There(Dest(a)) THEN "failed" ELSE "below")
      BY <2>1 DEF CheckDest, FileStage
    <3> QED
      BY <3>1 DEF There
  <2>2. CASE fileOp[a].at = "below"
    <3>1. Proceeds(a, IF Below(Dest(a)) # {} THEN "failed" ELSE "source")
      BY <2>2 DEF CheckDest, FileStage
    <3> QED
      BY <2>2, <3>1
  <2> QED
    BY <1>1, <2>1, <2>2
<1>4. l \in FileStages
  BY DEF FileStages
<1>5. CASE l = "failed"
  <2>1. /\ fileOp' \in [FileOps -> OpRecords] /\ \A b \in FileOps \ {a} : fileOp'[b] = fileOp[b]
        /\ fileOp'[a].at = l
    BY <1>1, <1>3, <1>4, ProceedsFacts, OpFacts
  <2>2. fileOp'[a].at \in Resting
    BY <1>5, <2>1 DEF Resting, Ends
  <2>3. OpAlone(a, fileOp'[a]) /\ OpFits(a, fileOp'[a], objects)
    BY <2>2, EndedOp
  <2> QED
    BY <1>1, <1>2, <2>1, <2>2, <2>3, OpFacts, QuietComposes
<1>6. CASE l # "failed"
  <2>1. /\ fileOp' \in [FileOps -> OpRecords] /\ \A b \in FileOps \ {a} : fileOp'[b] = fileOp[b]
        /\ fileOp'[a].at = l /\ fileOp'[a].path = fileOp[a].path /\ fileOp'[a].dest = fileOp[a].dest
        /\ fileOp'[a].before = fileOp[a].before
    BY <1>1, <1>3, <1>4, <1>6, ProceedsFacts, OpFacts DEF Ends
  <2>2. OpAlone(a, fileOp'[a])
    BY <1>1, <1>2, <1>3, <1>6, <2>1, OpFacts DEF OpAlone
  <2>3. ASSUME ~overlapped PROVE OpFits(a, fileOp'[a], objects)
    <3>1. ~Twofold(fileOp[a].before, fileOp[a].path) => AsBefore(fileOp[a], objects)
      BY <1>1, <1>2, <2>3, OpFacts DEF OpFits, MoveSinceBefore
    <3>2. AsBefore(fileOp[a], objects) => AsBefore(fileOp'[a], objects)
      BY <2>1 DEF AsBefore
    <3>3. ~Twofold(fileOp'[a].before, fileOp'[a].path) => MoveSinceBefore(fileOp'[a], objects)
      BY <1>3, <1>6, <2>1, <3>1, <3>2 DEF MoveSinceBefore
    <3>4. l = "source" => Under(fileOp'[a].dest, objects) = {}
      <4>1. l = "source" => fileOp[a].dest \notin DOMAIN objects
        BY <1>1, <1>3, <2>3, OpFacts DEF OpFits
      <4> QED
        BY <1>1, <1>2, <1>3, <2>1, <4>1, UnderFacts, OpFacts
    <3>5. l = "below" => fileOp'[a].dest \notin DOMAIN objects
      BY <1>1, <1>3, <2>1, OpFacts
    <3> QED
      BY <1>2, <1>3, <1>6, <2>1, <3>3, <3>4, <3>5 DEF OpFits
  <2> QED
    BY <1>1, <1>2, <2>1, <2>2, <2>3, OpFacts, QuietComposes
<1> QED
  BY <1>5, <1>6

LEMMA SourceStep ==
    ASSUME ObjectIInv, NEW a \in FileOps, FindSource(a)
    PROVE  ObjectIInv'
<1> DEFINE op == fileOp[a]
<1>1. op.at = "source" /\ op.at \notin Resting
  BY DEF FindSource, FileStage, Resting, Ends
<1>2. KindOf[a] = "move" /\ UNCHANGED <<objects, counted, overlapped>>
  BY <1>1, OpFacts DEF OpAlone, FindSource
<1>3. ~overlapped => Under(op.dest, objects) = {}
  BY <1>1, OpFacts DEF OpFits
<1>4. ~overlapped => (~Twofold(op.before, op.path) => AsBefore(op, objects))
  BY <1>1, <1>2, OpFacts DEF OpFits, MoveSinceBefore
<1>5. CASE There(Path(a)) /\ fileOp' = [fileOp EXCEPT ![a] = [To(a, "copy") EXCEPT !.todo = <<Path(a)>>]]
  <2>1. PICK s \in Seq(ObjectKeys) : s = <<Path(a)>>
    <3>1. Path(a) \in ObjectKeys
      BY <1>1, OpFacts
    <3>2. <<Path(a)>> \in Seq(ObjectKeys)
      BY <3>1
    <3> QED
      BY <3>2
  <2>2. DOMAIN s = {1} /\ Len(s) = 1 /\ s[1] = Path(a) /\ ToSet(s) = {Path(a)} /\ s # <<>>
    BY <2>1 DEF ToSet
  <2>3. ProceedsToTreat(a, "copy", s) /\ "copy" \in FileStages \ Ends
    BY <1>5, <2>1 DEF ProceedsToTreat, FileStages, Ends
  <2>4. /\ fileOp' \in [FileOps -> OpRecords] /\ \A b \in FileOps \ {a} : fileOp'[b] = fileOp[b]
        /\ fileOp'[a].at = "copy" /\ fileOp'[a].todo = s
        /\ fileOp'[a].path = Path(a) /\ fileOp'[a].dest = Dest(a) /\ fileOp'[a].before = op.before
    BY <1>1, <2>3, TodoFacts, OpFacts
  <2>5. IsPrefix(Path(a), Path(a)) /\ Path(a) # <<>> /\ Path(a) \in ObjectKeys
    BY <1>1, OpFacts, PrefixOrder
  <2>6. OpAlone(a, fileOp'[a])
    <3>1. Path(a) \in FilePaths /\ Dest(a) \in FilePaths /\ ~IsPrefix(Path(a), Dest(a))
      BY <1>1, <1>2, OpFacts DEF OpAlone
    <3>2. \A i \in DOMAIN s : s[i] = Path(a) /\ i = 1
      BY <2>2
    <3>3. ~(Len(s) > 1)
      BY <2>2
    <3> QED
      BY <1>2, <2>2, <2>4, <2>5, <3>1, <3>2, <3>3 DEF OpAlone
  <2>7. ASSUME ~overlapped PROVE OpFits(a, fileOp'[a], objects)
    <3>1. Path(a) \in DOMAIN objects
      BY <1>5 DEF There
    <3>2. ~Related(Path(a), Dest(a))
      <4>1. ~IsPrefix(Path(a), Dest(a))
        BY <1>1, <1>2, OpFacts DEF OpAlone
      <4>2. ~IsPrefix(Dest(a), Path(a))
        BY <1>1, <1>3, <2>7, <3>1, OpFacts DEF Under
      <4> QED
        BY <4>1, <4>2 DEF Related
    <3>3. MovedTo(Path(a), Path(a), Dest(a)) \notin DOMAIN objects
      <4>1. IsPrefix(Dest(a), MovedTo(Path(a), Path(a), Dest(a)))
        BY <1>1, <1>2, <2>5, PlaceFacts, OpFacts
      <4> QED
        BY <1>1, <1>3, <2>7, <4>1, OpFacts DEF Under
    <3>4. MoveFits(fileOp'[a], objects)
      BY <2>2, <2>4, <3>1, <3>2, <3>3 DEF MoveFits
    <3>5. ASSUME ~Twofold(op.before, op.path) PROVE MoveSinceBefore(fileOp'[a], objects)
      <4>1. AsBefore(op, objects) /\ op.path = Path(a)
        BY <1>1, <1>4, <2>7, <3>5, OpFacts
      <4>2. Path(a) \in Under(Path(a), objects)
        BY <2>5, <3>1 DEF Under
      <4>3. Path(a) \in DOMAIN op.before
        BY <4>1, <4>2 DEF AsBefore, Under
      <4>4. Under(Path(a), op.before) = {Path(a)}
        <5>1. \A k \in DOMAIN op.before : ~IsStrictPrefix(Path(a), k)
          BY <3>5, <4>1, <4>3 DEF Twofold
        <5> QED
          BY <2>5, <4>3, <5>1 DEF Under, IsStrictPrefix
      <4>5. Under(Path(a), objects) = {Path(a)} /\ objects[Path(a)] = op.before[Path(a)]
        BY <4>1, <4>2, <4>4 DEF AsBefore
      <4> QED
        BY <2>2, <2>4, <4>3, <4>4, <4>5 DEF MoveSinceBefore
    <3> QED
      BY <1>1, <1>2, <2>4, <3>4, <3>5, OpFacts DEF OpFits
  <2> QED
    BY <1>1, <1>2, <2>4, <2>6, <2>7, OpFacts, QuietComposes
<1>6. CASE ~There(Path(a)) /\ fileOp' = [fileOp EXCEPT ![a] = To(a, "list")]
  <2>1. Proceeds(a, "list") /\ "list" \in FileStages /\ "list" \notin Ends
    BY <1>6 DEF Proceeds, FileStages, Ends
  <2>2. /\ fileOp' \in [FileOps -> OpRecords] /\ \A b \in FileOps \ {a} : fileOp'[b] = fileOp[b]
        /\ fileOp'[a].at = "list" /\ fileOp'[a].path = op.path /\ fileOp'[a].dest = op.dest
        /\ fileOp'[a].before = op.before
    BY <1>1, <2>1, ProceedsFacts, OpFacts
  <2>3. OpAlone(a, fileOp'[a])
    BY <1>1, <1>2, <2>2, OpFacts DEF OpAlone
  <2>4. ASSUME ~overlapped PROVE OpFits(a, fileOp'[a], objects)
    <3>1. ~Twofold(op.before, op.path) => MoveSinceBefore(fileOp'[a], objects)
      BY <1>4, <2>2, <2>4 DEF MoveSinceBefore, AsBefore
    <3>2. op.path \notin DOMAIN objects
      BY <1>6 DEF There, Path
    <3> QED
      BY <1>2, <1>3, <2>2, <2>4, <3>1, <3>2 DEF OpFits
  <2> QED
    BY <1>1, <1>2, <2>2, <2>3, <2>4, OpFacts, QuietComposes
<1> QED
  BY <1>5, <1>6 DEF FindSource

LEMMA ListStep ==
    ASSUME ObjectIInv, NEW a \in FileOps, ListBelow(a)
    PROVE  ObjectIInv'
<1> DEFINE op == fileOp[a]
           ks == Below(Path(a))
<1>1. op.at = "list" /\ op.at \notin Resting
  BY DEF ListBelow, FileStage, Resting, Ends
<1>2. KindOf[a] \in {"delete", "move"} /\ UNCHANGED <<objects, counted, overlapped>>
  BY <1>1, OpFacts DEF OpAlone, ListBelow
<1>3. CASE ks = {} /\ fileOp' = [fileOp EXCEPT ![a] = To(a, "failed")]
  <2>1. Proceeds(a, "failed") /\ "failed" \in FileStages /\ "failed" \in Resting
    BY <1>3 DEF Proceeds, FileStages, Resting, Ends
  <2>2. OpAlone(a, fileOp'[a]) /\ OpFits(a, fileOp'[a], objects)
    BY <1>1, <2>1, ProceedsFacts, OpFacts, EndedOp
  <2> QED
    BY <1>1, <1>2, <2>1, <2>2, ProceedsFacts, OpFacts, QuietComposes
<1> DEFINE l == IF KindOf[a] = "delete" THEN "drop" ELSE "copy"
<1>4. CASE ks # {} /\ fileOp' = [fileOp EXCEPT ![a] = [To(a, l) EXCEPT !.todo = SetToSeq(ks)]]
  <2>0. \A k \in ks : k \in DOMAIN objects /\ k \in ObjectKeys /\ k # <<>> /\ IsPrefix(Path(a), k) /\ k # Path(a)
    BY <1>1, OpFacts DEF Below, IsStrictPrefix
  <2>1. IsFiniteSet(ks) /\ ks \in SUBSET ObjectKeys
    BY <1>1, <2>0, OpFacts, FS_Subset
  <2> HIDE DEF ks
  <2>2. PICK s \in Seq(ObjectKeys) : s = SetToSeq(ks)
    BY <2>1, Listed
  <2>3. ToSet(s) = ks /\ (\A i, j \in DOMAIN s : s[i] = s[j] => i = j) /\ s # <<>>
    <3>1. ToSet(s) = ks /\ (\A i, j \in DOMAIN s : s[i] = s[j] => i = j)
      BY <2>1, <2>2, Listed
    <3> QED
      BY <1>4, <3>1 DEF ToSet
  <2>4. \A i \in DOMAIN s : s[i] \in ks
    BY <2>3 DEF ToSet
  <2>5. l \in FileStages \ Ends
    BY DEF FileStages, Ends
  <2>6. ProceedsToTreat(a, l, s)
    BY <1>4, <2>2 DEF ProceedsToTreat
  <2> HIDE DEF l
  <2>7. /\ fileOp' \in [FileOps -> OpRecords] /\ \A b \in FileOps \ {a} : fileOp'[b] = fileOp[b]
        /\ fileOp'[a].at = l /\ fileOp'[a].todo = s
        /\ fileOp'[a].path = Path(a) /\ fileOp'[a].dest = Dest(a) /\ fileOp'[a].before = op.before
    BY <1>1, <2>5, <2>6, TodoFacts, OpFacts
  <2>8. OpAlone(a, fileOp'[a])
    <3>1. /\ Path(a) \in FilePaths /\ (KindOf[a] # "move" => Dest(a) = <<>>)
          /\ KindOf[a] = "move" => Dest(a) \in FilePaths /\ ~IsPrefix(Path(a), Dest(a))
      BY <1>1, <1>2, OpFacts DEF OpAlone
    <3>2. \A i \in DOMAIN s : IsPrefix(Path(a), s[i]) /\ s[i] # <<>> /\ s[i] # Path(a)
      BY <2>0, <2>4
    <3>3. (l = "drop" /\ KindOf[a] = "delete") \/ (l = "copy" /\ KindOf[a] = "move")
      <4>1. CASE KindOf[a] = "delete"
        BY <4>1 DEF l
      <4>2. CASE KindOf[a] = "move"
        BY <4>2 DEF l
      <4> QED
        BY <1>2, <4>1, <4>2
    <3> QED
      BY <2>3, <2>7, <3>1, <3>2, <3>3 DEF OpAlone
  <2>9. ASSUME ~overlapped PROVE OpFits(a, fileOp'[a], objects)
    <3>1. Path(a) \notin DOMAIN objects /\ (KindOf[a] = "move" => Under(Dest(a), objects) = {})
      BY <1>1, <2>9, OpFacts DEF OpFits
    <3>2. Under(Path(a), objects) = ToSet(s)
      <4>1. Path(a) \in ObjectKeys /\ StoreTypes
        BY <1>1, OpFacts
      <4>2. Under(Path(a), objects) = Below(Path(a))
        BY <3>1, <4>1, UnderFacts
      <4> QED
        BY <2>3, <4>2 DEF ks
    <3>3. ~Twofold(op.before, op.path) => AsBefore(op, objects)
      BY <1>1, <1>2, <2>9, OpFacts DEF OpFits, MoveSinceBefore, DeleteSinceBefore
    <3>4. CASE KindOf[a] = "delete"
      <4>1. l = "drop"
        BY <3>4 DEF l
      <4>2. DeleteSinceBefore(fileOp'[a], objects)
        BY <2>3, <2>7, <3>2, <4>1 DEF DeleteSinceBefore
      <4> QED
        BY <2>7, <3>4, <4>1, <4>2 DEF OpFits
    <3>5. CASE KindOf[a] = "move"
      <4>1. l = "copy"
        BY <3>5 DEF l
      <4>2. \A i \in DOMAIN s : s[i] \in DOMAIN objects /\ MovedTo(s[i], Path(a), Dest(a)) \notin DOMAIN objects
        <5> SUFFICES ASSUME NEW i \in DOMAIN s
                     PROVE  s[i] \in DOMAIN objects /\ MovedTo(s[i], Path(a), Dest(a)) \notin DOMAIN objects
          OBVIOUS
        <5>1. s[i] \in DOMAIN objects /\ s[i] \in ObjectKeys /\ s[i] # <<>> /\ IsPrefix(Path(a), s[i])
          BY <2>0, <2>4
        <5>2. IsPrefix(Dest(a), MovedTo(s[i], Path(a), Dest(a)))
          BY <1>1, <3>5, <5>1, PlaceFacts, OpFacts
        <5> QED
          BY <3>1, <3>5, <5>1, <5>2 DEF Under
      <4>3. ~Related(Path(a), Dest(a))
        <5>1. ~IsPrefix(Path(a), Dest(a))
          BY <1>1, <3>5, OpFacts DEF OpAlone
        <5>2. ASSUME IsPrefix(Dest(a), Path(a)) PROVE FALSE
          <6>1. PICK k \in ks : TRUE
            BY <1>4
          <6>2. IsPrefix(Dest(a), k)
            BY <1>1, <2>0, <3>5, <5>2, PrefixOrder, OpFacts
          <6> QED
            BY <2>0, <3>1, <3>5, <6>2 DEF Under
        <5> QED
          BY <5>1, <5>2 DEF Related
      <4>4. MoveFits(fileOp'[a], objects)
        BY <2>7, <4>1, <4>2, <4>3 DEF MoveFits
      <4>5. ASSUME AsBefore(op, objects) PROVE MoveSinceBefore(fileOp'[a], objects)
        <5>1. op.path = Path(a)
          BY <1>1, OpFacts
        <5>2. \A k \in Under(Path(a), objects) : k \in DOMAIN op.before /\ objects[k] = op.before[k]
          BY <4>5, <5>1 DEF AsBefore, Under
        <5>3. Under(Path(a), op.before) = ToSet(s)
          BY <3>2, <4>5, <5>1 DEF AsBefore
        <5> QED
          BY <2>7, <3>2, <4>1, <5>2, <5>3 DEF MoveSinceBefore
      <4> QED
        BY <1>1, <2>7, <3>3, <3>5, <4>1, <4>4, <4>5, OpFacts DEF OpFits
    <3> QED
      BY <1>2, <3>4, <3>5
  <2> QED
    BY <1>1, <1>2, <2>7, <2>8, <2>9, OpFacts, QuietComposes
<1> QED
  BY <1>3, <1>4 DEF ListBelow

LEMMA TailFacts ==
    ASSUME NEW s \in Seq(ObjectKeys), s # <<>>, \A i, j \in DOMAIN s : s[i] = s[j] => i = j
    PROVE  /\ Tail(s) \in Seq(ObjectKeys) /\ Head(s) = s[1] /\ 1 \in DOMAIN s /\ Len(s) \in Nat \ {0}
           /\ DOMAIN Tail(s) = 1..(Len(s) - 1) /\ Len(Tail(s)) = Len(s) - 1
           /\ \A i \in DOMAIN Tail(s) : i + 1 \in DOMAIN s /\ Tail(s)[i] = s[i + 1] /\ Tail(s)[i] # s[1]
           /\ ToSet(Tail(s)) = ToSet(s) \ {s[1]}
           /\ \A i, j \in DOMAIN Tail(s) : Tail(s)[i] = Tail(s)[j] => i = j
<1> DEFINE r == Tail(s)
<1>1. r \in Seq(ObjectKeys) /\ Head(s) = s[1] /\ 1 \in DOMAIN s /\ Len(s) \in Nat \ {0}
  OBVIOUS
<1>2. DOMAIN r = 1..(Len(s) - 1) /\ Len(r) = Len(s) - 1 /\ DOMAIN s = 1..Len(s)
  OBVIOUS
<1>3. \A i \in DOMAIN r : i + 1 \in DOMAIN s /\ r[i] = s[i + 1]
  BY <1>1, <1>2
<1> HIDE DEF r
<1>4. \A i \in DOMAIN r : i \in Nat \ {0}
  BY <1>1, <1>2
<1>5. \A i \in DOMAIN r : r[i] # s[1]
  <2> SUFFICES ASSUME NEW i \in DOMAIN r, r[i] = s[1] PROVE FALSE
    OBVIOUS
  <2>1. i + 1 = 1
    BY <1>1, <1>3
  <2> QED
    BY <1>4, <2>1
<1>6. \A i, j \in DOMAIN r : r[i] = r[j] => i = j
  <2> SUFFICES ASSUME NEW i \in DOMAIN r, NEW j \in DOMAIN r, r[i] = r[j] PROVE i = j
    OBVIOUS
  <2>1. i + 1 = j + 1
    BY <1>3
  <2> QED
    BY <1>4, <2>1
<1>7. ToSet(r) = ToSet(s) \ {s[1]}
  <2>1. \A i \in DOMAIN s : i = 1 \/ (i - 1 \in DOMAIN r /\ (i - 1) + 1 = i)
    BY <1>1, <1>2
  <2>2. \A i \in DOMAIN s : s[i] # s[1] => s[i] \in ToSet(r)
    <3> SUFFICES ASSUME NEW i \in DOMAIN s, s[i] # s[1] PROVE s[i] \in ToSet(r)
      OBVIOUS
    <3>1. i - 1 \in DOMAIN r /\ (i - 1) + 1 = i
      BY <2>1
    <3>2. r[i - 1] = s[i]
      BY <1>3, <3>1
    <3> QED
      BY <3>1, <3>2 DEF ToSet
  <2>3. \A i \in DOMAIN r : r[i] \in ToSet(s) \ {s[1]}
    BY <1>3, <1>5 DEF ToSet
  <2> QED
    BY <2>2, <2>3 DEF ToSet
<1> QED
  BY <1>1, <1>2, <1>3, <1>5, <1>6, <1>7 DEF r

\* Places below the destination are not below the path.
LEMMA PlacesApart ==
    ASSUME NEW p \in FilePaths, NEW d \in FilePaths, ~Related(p, d), NEW k \in ObjectKeys, IsPrefix(p, k), k # <<>>
    PROVE  /\ MovedTo(k, p, d) \in ObjectKeys /\ MovedTo(k, p, d) # <<>> /\ IsPrefix(d, MovedTo(k, p, d))
           /\ Last(MovedTo(k, p, d)) = NoName => Last(k) = NoName
           /\ ~IsPrefix(p, MovedTo(k, p, d)) /\ MovedTo(k, p, d) # k
<1>1. p \in ObjectKeys /\ d \in ObjectKeys
  BY PathFacts
<1>2. /\ MovedTo(k, p, d) \in ObjectKeys /\ MovedTo(k, p, d) # <<>> /\ IsPrefix(d, MovedTo(k, p, d))
      /\ Last(MovedTo(k, p, d)) = NoName => Last(k) = NoName
  BY <1>1, PlaceFacts
<1>3. ~IsPrefix(p, MovedTo(k, p, d))
  BY <1>1, <1>2, RelatedBelow
<1> QED
  BY <1>2, <1>3

LEMMA CopyStep ==
    ASSUME ObjectIInv, NEW a \in FileOps, CopyObject(a)
    PROVE  ObjectIInv'
<1> DEFINE op == fileOp[a]
           pend == op.todo
           k == Head(pend)
           place == MovedTo(k, Path(a), Dest(a))
<1>1. op.at = "copy" /\ op.at \notin Resting
  BY DEF CopyObject, FileStage, Resting, Ends
<1>2. KindOf[a] = "move" /\ UNCHANGED <<counted, overlapped>>
  BY <1>1, OpFacts DEF OpAlone, CopyObject
<1>3. /\ pend # <<>> /\ pend \in Seq(ObjectKeys)
      /\ \A i \in DOMAIN pend : IsPrefix(Path(a), pend[i]) /\ pend[i] # <<>> /\ pend[i] \in ObjectKeys
      /\ \A i, j \in DOMAIN pend : pend[i] = pend[j] => i = j
      /\ Len(pend) > 1 => \A i \in DOMAIN pend : pend[i] # Path(a)
  BY <1>1, <1>2, OpFacts DEF OpAlone
<1>4. k = pend[1] /\ 1 \in DOMAIN pend /\ k \in ObjectKeys /\ k # <<>> /\ IsPrefix(Path(a), k)
  BY <1>3, TailFacts
<1>5. /\ Path(a) \in FilePaths /\ Path(a) \in ObjectKeys /\ Dest(a) \in FilePaths /\ Dest(a) \in ObjectKeys
      /\ Path(a) = op.path /\ Dest(a) = op.dest /\ StoreTypes /\ op \in OpRecords /\ Dest(a) \in PlacesOf(op)
  BY <1>1, <1>2, OpFacts
<1>6. place \in ObjectKeys /\ place # <<>> /\ IsPrefix(Dest(a), place) /\ (Last(place) = NoName => Last(k) = NoName)
  BY <1>4, <1>5, PlaceFacts
<1>7. CASE ~There(k) /\ Proceeds(a, "failed") /\ UNCHANGED objects
  <2>1. "failed" \in FileStages /\ "failed" \in Resting
    BY DEF FileStages, Resting, Ends
  <2>2. OpAlone(a, fileOp'[a]) /\ OpFits(a, fileOp'[a], objects)
    BY <1>1, <1>7, <2>1, ProceedsFacts, OpFacts, EndedOp
  <2> QED
    BY <1>1, <1>2, <1>7, <2>1, <2>2, ProceedsFacts, OpFacts, QuietComposes
<1>8. CASE There(k) /\ objects' = With(place, Text(k)) /\ (Proceeds(a, "drop") \/ Proceeds(a, "failed"))
  <2>1. k \in DOMAIN objects /\ Text(k) = objects[k]
    BY <1>8 DEF There, Text
  <2>2. PICK t \in SUBSET FileOps : t = objects[k] /\ (Last(place) = NoName => t = {})
    BY <1>1, <1>5, <1>6, <2>1, OpFacts DEF StoreTypes, StoreOK
  <2>3. objects' = With(place, t)
    BY <1>8, <2>1, <2>2
  <2> HIDE DEF place, k, pend
  <2>4. /\ StoreOK(objects') /\ DOMAIN objects' = DOMAIN objects \cup {place} /\ objects'[place] = t
        /\ \A x \in DOMAIN objects : x # place => objects'[x] = objects[x]
    BY <1>5, <1>6, <2>2, <2>3, WithFacts
  <2>5. \A x \in ObjectKeys : x # place => SameAt(objects, objects', x)
    BY <2>4 DEF SameAt
  <2>6. \A p \in FilePaths : (\A q \in PlacesOf(fileOp[a]) : ~Related(p, q)) =>
            \A x \in ObjectKeys : IsPrefix(p, x) => SameAt(objects, objects', x)
    BY <1>5, <1>6, <2>5, Reaches
  <2>7. ~overlapped => MoveFits(op, objects) /\ place \notin DOMAIN objects
    <3>1. ~overlapped => MoveFits(op, objects)
      BY <1>1, <1>2, OpFacts DEF OpFits
    <3>2. MoveFits(op, objects) => MovedTo(op.todo[1], op.path, op.dest) \notin DOMAIN objects
      BY <1>1, <1>4 DEF MoveFits, pend
    <3>3. place = MovedTo(op.todo[1], op.path, op.dest)
      BY <1>4, <1>5 DEF place, pend
    <3> QED
      BY <3>1, <3>2, <3>3
  <2>8. TextIsKept'
    <3> SUFFICES ASSUME ~overlapped, NEW x \in counted PROVE \E y \in DOMAIN objects' : x \in objects'[y]
      BY <1>2 DEF TextIsKept
    <3>1. PICK y \in DOMAIN objects : x \in objects[y]
      BY DEF ObjectIInv, TextIsKept
    <3> QED
      BY <2>4, <2>7, <3>1
  <2>9. CASE Proceeds(a, "failed")
    <3>1. "failed" \in FileStages /\ "failed" \in Resting
      BY DEF FileStages, Resting, Ends
    <3>2. /\ fileOp' \in [FileOps -> OpRecords] /\ \A b \in FileOps \ {a} : fileOp'[b] = fileOp[b]
          /\ fileOp'[a].at \in Resting
      BY <1>5, <2>9, <3>1, ProceedsFacts
    <3>3. OpAlone(a, fileOp'[a]) /\ OpFits(a, fileOp'[a], objects')
      BY <3>2, EndedOp
    <3> QED
      BY <1>1, <1>2, <1>5, <2>4, <2>6, <2>8, <3>2, <3>3, Composes DEF StoreTypes
  <2>10. CASE Proceeds(a, "drop")
    <3>1. "drop" \in FileStages /\ "drop" \notin Ends
      BY DEF FileStages, Ends
    <3>2. /\ fileOp' \in [FileOps -> OpRecords] /\ \A b \in FileOps \ {a} : fileOp'[b] = fileOp[b]
          /\ fileOp'[a].at = "drop" /\ fileOp'[a].path = op.path /\ fileOp'[a].dest = op.dest
          /\ fileOp'[a].todo = pend /\ fileOp'[a].before = op.before
      BY <1>5, <2>10, <3>1, ProceedsFacts DEF pend
    <3>3. OpAlone(a, fileOp'[a])
      <4>1. Path(a) \in FilePaths /\ Dest(a) \in FilePaths /\ ~IsPrefix(Path(a), Dest(a))
        BY <1>1, <1>2, OpFacts DEF OpAlone
      <4> QED
        BY <1>2, <1>3, <1>5, <3>2, <4>1 DEF OpAlone
    <3>4. ASSUME ~overlapped PROVE OpFits(a, fileOp'[a], objects')
      <4>0. ~Related(op.path, op.dest)
        BY <2>7, <3>4 DEF MoveFits
      <4>1. \A i \in DOMAIN pend : pend[i] \in DOMAIN objects /\ MovedTo(pend[i], op.path, op.dest) \notin DOMAIN objects
        BY <1>1, <2>7, <3>4 DEF MoveFits, pend
      <4>2. \A i \in DOMAIN pend : MovedTo(pend[i], op.path, op.dest) = place <=> i = 1
        <5> SUFFICES ASSUME NEW i \in DOMAIN pend, MovedTo(pend[i], op.path, op.dest) = place, i # 1 PROVE FALSE
          BY <1>4, <1>5 DEF place
        <5>1. Len(pend) > 1
          BY <1>3, <1>4
        <5>2. IsStrictPrefix(Path(a), pend[i]) /\ IsStrictPrefix(Path(a), pend[1])
          BY <1>3, <1>4, <5>1 DEF IsStrictPrefix
        <5>3. MovedTo(pend[i], Path(a), Dest(a)) = MovedTo(pend[1], Path(a), Dest(a))
          BY <1>4, <1>5 DEF place
        <5>4. pend[i] = pend[1]
          BY <1>3, <1>4, <1>5, <5>2, <5>3, PlacesDiffer
        <5> QED
          BY <1>3, <1>4, <5>4
      <4>3. objects'[place] = objects'[k]
        BY <2>1, <2>2, <2>4, <2>7, <3>4
      <4>4. MoveFits(fileOp'[a], objects')
        <5>1. \A i \in DOMAIN pend : /\ pend[i] \in DOMAIN objects'
                                     /\ MovedTo(pend[i], op.path, op.dest) \in DOMAIN objects' <=> i = 1
          BY <2>4, <4>1, <4>2
        <5>2. objects'[MovedTo(pend[1], op.path, op.dest)] = objects'[pend[1]]
          BY <1>4, <4>2, <4>3
        <5> QED
          BY <3>2, <4>0, <5>1, <5>2 DEF MoveFits
      <4>5. ASSUME ~Twofold(op.before, op.path) PROVE MoveSinceBefore(fileOp'[a], objects')
        <5>1. /\ Under(op.path, objects) = ToSet(pend)
              /\ \A x \in Under(op.path, objects) : x \in DOMAIN op.before /\ objects[x] = op.before[x]
              /\ \A x \in Under(op.path, op.before) \ ToSet(pend) :
                    /\ MovedTo(x, op.path, op.dest) \in DOMAIN objects
                    /\ objects[MovedTo(x, op.path, op.dest)] = op.before[x]
          <6>1. MoveSinceBefore(op, objects)
            BY <1>1, <1>2, <3>4, <4>5, OpFacts DEF OpFits
          <6> QED
            BY <1>1, <6>1 DEF MoveSinceBefore, pend
        <5>2. ~IsPrefix(op.path, place)
          BY <1>4, <1>5, <4>0, PlacesApart DEF place
        <5>3. Under(op.path, objects') = Under(op.path, objects)
          BY <2>4, <5>2 DEF Under
        <5>4. \A x \in Under(op.path, objects) : objects'[x] = objects[x]
          BY <2>4, <5>2 DEF Under
        <5>5. \A y \in DOMAIN objects : y \in DOMAIN objects' /\ objects'[y] = objects[y]
          BY <2>4, <2>7, <3>4
        <5>6. \A x \in Under(op.path, op.before) \ ToSet(pend) :
                  /\ MovedTo(x, op.path, op.dest) \in DOMAIN objects'
                  /\ objects'[MovedTo(x, op.path, op.dest)] = op.before[x]
          BY <5>1, <5>5
        <5> QED
          BY <3>2, <5>1, <5>3, <5>4, <5>6 DEF MoveSinceBefore
      <4> QED
        BY <1>2, <3>2, <4>4, <4>5 DEF OpFits
    <3> QED
      BY <1>1, <1>2, <1>5, <2>4, <2>6, <2>8, <3>2, <3>3, <3>4, Composes DEF StoreTypes
  <2> QED
    BY <1>8, <2>9, <2>10
<1> QED
  BY <1>7, <1>8 DEF CopyObject

\* What a drop treats, and where it leads.
LEMMA DropFacts ==
    ASSUME ObjectIInv, NEW a \in FileOps, DropObject(a)
    PROVE  LET pend == fileOp[a].todo
               k    == IF pend = <<>> THEN Path(a) ELSE Head(pend) IN
           /\ fileOp[a].at = "drop" /\ fileOp[a].at \notin Resting /\ KindOf[a] \in {"delete", "move"}
           /\ StoreTypes /\ fileOp[a] \in OpRecords /\ Path(a) = fileOp[a].path /\ Dest(a) = fileOp[a].dest
           /\ Path(a) \in FilePaths /\ Path(a) \in ObjectKeys /\ Path(a) \in PlacesOf(fileOp[a])
           /\ KindOf[a] = "move" => pend # <<>> /\ Dest(a) \in FilePaths
           /\ pend \in Seq(ObjectKeys) /\ Len(pend) \in Nat
           /\ \A i \in DOMAIN pend : IsPrefix(Path(a), pend[i]) /\ pend[i] # <<>> /\ pend[i] \in ObjectKeys
           /\ \A i, j \in DOMAIN pend : pend[i] = pend[j] => i = j
           /\ Len(pend) > 1 => \A i \in DOMAIN pend : pend[i] # Path(a)
           /\ k \in ObjectKeys /\ k # <<>> /\ IsPrefix(Path(a), k)
           /\ objects' = Without(k) /\ StoreOK(objects') /\ DOMAIN objects' = DOMAIN objects \ {k}
           /\ \A x \in DOMAIN objects' : objects'[x] = objects[x]
           /\ counted' = IF KindOf[a] = "delete" THEN counted \ Text(k) ELSE counted
           /\ counted' \subseteq FileOps /\ UNCHANGED overlapped
           /\ \A p \in FilePaths : (\A q \in PlacesOf(fileOp[a]) : ~Related(p, q)) =>
                  \A x \in ObjectKeys : IsPrefix(p, x) => SameAt(objects, objects', x)
<1> DEFINE pend == fileOp[a].todo
           k    == IF pend = <<>> THEN Path(a) ELSE Head(pend)
<1>1. fileOp[a].at = "drop" /\ fileOp[a].at \notin Resting
  BY DEF DropObject, FileStage, Resting, Ends
<1>2. /\ StoreTypes /\ fileOp[a] \in OpRecords /\ Path(a) = fileOp[a].path /\ Dest(a) = fileOp[a].dest
      /\ Path(a) \in FilePaths /\ Path(a) \in ObjectKeys /\ Path(a) # <<>> /\ Path(a) \in PlacesOf(fileOp[a])
      /\ OpAlone(a, fileOp[a]) /\ pend \in Seq(ObjectKeys) /\ counted \subseteq FileOps
      /\ KindOf[a] = "move" => Dest(a) \in FilePaths
  BY <1>1, OpFacts
<1>3. /\ KindOf[a] \in {"delete", "move"} /\ (KindOf[a] = "move" => pend # <<>>)
      /\ \A i \in DOMAIN pend : IsPrefix(Path(a), pend[i]) /\ pend[i] # <<>> /\ pend[i] \in ObjectKeys
      /\ \A i, j \in DOMAIN pend : pend[i] = pend[j] => i = j
      /\ Len(pend) > 1 => \A i \in DOMAIN pend : pend[i] # Path(a)
  BY <1>1, <1>2 DEF OpAlone
<1>4. k \in ObjectKeys /\ k # <<>> /\ IsPrefix(Path(a), k) /\ Len(pend) \in Nat
  <2>1. Len(pend) \in Nat
    BY <1>2
  <2>2. CASE pend = <<>>
    BY <1>2, <2>1, <2>2, PrefixOrder
  <2>3. CASE pend # <<>>
    <3>1. Head(pend) = pend[1] /\ 1 \in DOMAIN pend
      BY <1>2, <2>3
    <3> QED
      BY <1>3, <2>1, <2>3, <3>1
  <2> QED
    BY <2>2, <2>3
<1>5. /\ objects' = Without(k) /\ counted' = (IF KindOf[a] = "delete" THEN counted \ Text(k) ELSE counted)
      /\ UNCHANGED overlapped
  BY DEF DropObject
<1> HIDE DEF k, pend
<1>6. /\ StoreOK(objects') /\ DOMAIN objects' = DOMAIN objects \ {k}
      /\ \A x \in DOMAIN objects' : objects'[x] = objects[x]
  BY <1>2, <1>5, WithoutFacts
<1>7. \A x \in ObjectKeys : x # k => SameAt(objects, objects', x)
  BY <1>6 DEF SameAt
<1>8. \A p \in FilePaths : (\A q \in PlacesOf(fileOp[a]) : ~Related(p, q)) =>
          \A x \in ObjectKeys : IsPrefix(p, x) => SameAt(objects, objects', x)
  BY <1>2, <1>4, <1>7, Reaches
<1>9. counted' \subseteq FileOps
  BY <1>2, <1>5
<1> QED
  BY <1>1, <1>2, <1>3, <1>4, <1>5, <1>6, <1>8, <1>9 DEF k, pend

LEMMA DropStep ==
    ASSUME ObjectIInv, NEW a \in FileOps, DropObject(a)
    PROVE  ObjectIInv'
<1> DEFINE op   == fileOp[a]
           pend == fileOp[a].todo
           k    == IF pend = <<>> THEN Path(a) ELSE Head(pend)
           next == IF Len(pend) <= 1 THEN "ok" ELSE IF KindOf[a] = "delete" THEN "drop" ELSE "copy"
<1>1. /\ op.at = "drop" /\ op.at \notin Resting /\ KindOf[a] \in {"delete", "move"}
      /\ StoreTypes /\ op \in OpRecords /\ Path(a) = op.path /\ Dest(a) = op.dest
      /\ Path(a) \in FilePaths /\ Path(a) \in ObjectKeys
      /\ KindOf[a] = "move" => pend # <<>> /\ Dest(a) \in FilePaths
      /\ pend \in Seq(ObjectKeys) /\ Len(pend) \in Nat
  BY DropFacts
<1>2. /\ \A i \in DOMAIN pend : IsPrefix(Path(a), pend[i]) /\ pend[i] # <<>> /\ pend[i] \in ObjectKeys
      /\ \A i, j \in DOMAIN pend : pend[i] = pend[j] => i = j
      /\ Len(pend) > 1 => \A i \in DOMAIN pend : pend[i] # Path(a)
  BY DropFacts
<1>3. /\ k \in ObjectKeys /\ k # <<>> /\ IsPrefix(Path(a), k)
      /\ StoreOK(objects') /\ DOMAIN objects' = DOMAIN objects \ {k}
      /\ \A x \in DOMAIN objects' : objects'[x] = objects[x]
  BY DropFacts
<1>4. /\ counted' = IF KindOf[a] = "delete" THEN counted \ Text(k) ELSE counted
      /\ counted' \subseteq FileOps /\ UNCHANGED overlapped
      /\ \A p \in FilePaths : (\A q \in PlacesOf(fileOp[a]) : ~Related(p, q)) =>
             \A x \in ObjectKeys : IsPrefix(p, x) => SameAt(objects, objects', x)
  BY DropFacts
<1>5. ASSUME pend # <<>>
      PROVE  /\ k = pend[1] /\ 1 \in DOMAIN pend /\ Tail(pend) \in Seq(ObjectKeys)
             /\ DOMAIN Tail(pend) = 1..(Len(pend) - 1) /\ Len(Tail(pend)) = Len(pend) - 1
             /\ \A i \in DOMAIN Tail(pend) : i + 1 \in DOMAIN pend /\ Tail(pend)[i] = pend[i + 1] /\ Tail(pend)[i] # pend[1]
             /\ ToSet(Tail(pend)) = ToSet(pend) \ {k}
             /\ \A i, j \in DOMAIN Tail(pend) : Tail(pend)[i] = Tail(pend)[j] => i = j
  <2>1. k = Head(pend)
    BY <1>5
  <2> HIDE DEF k, pend
  <2> QED
    BY <1>1, <1>2, <1>5, <2>1, TailFacts
<1>6. \/ /\ next # "ok"
         /\ fileOp' = [fileOp EXCEPT ![a] = [To(a, next) EXCEPT !.todo = Tail(pend)]]
      \/ Proceeds(a, "ok") \/ Proceeds(a, "failed")
  BY DEF DropObject, Proceeds
<1>7. next # "ok" => Len(pend) > 1 /\ pend # <<>> /\ next \in {"drop", "copy"} /\ (next = "drop" <=> KindOf[a] = "delete")
  BY <1>1
<1> HIDE DEF k, pend, next
\* A move has its copy of what it drops.
<1>8. ~overlapped /\ KindOf[a] = "move" =>
          /\ ~Related(op.path, op.dest)
          /\ \A i \in DOMAIN pend : /\ pend[i] \in DOMAIN objects
                                    /\ MovedTo(pend[i], op.path, op.dest) \in DOMAIN objects <=> i = 1
          /\ objects[MovedTo(k, op.path, op.dest)] = objects[k]
          /\ MovedTo(k, op.path, op.dest) \in DOMAIN objects' /\ MovedTo(k, op.path, op.dest) # k
  <2> SUFFICES ASSUME ~overlapped, KindOf[a] = "move"
               PROVE  /\ ~Related(op.path, op.dest)
                      /\ \A i \in DOMAIN pend : /\ pend[i] \in DOMAIN objects
                                                /\ MovedTo(pend[i], op.path, op.dest) \in DOMAIN objects <=> i = 1
                      /\ objects[MovedTo(k, op.path, op.dest)] = objects[k]
                      /\ MovedTo(k, op.path, op.dest) \in DOMAIN objects' /\ MovedTo(k, op.path, op.dest) # k
    OBVIOUS
  <2>1. MoveFits(op, objects)
    BY <1>1, OpFacts DEF OpFits
  <2>2. /\ ~Related(op.path, op.dest)
        /\ \A i \in DOMAIN pend : /\ pend[i] \in DOMAIN objects
                                  /\ MovedTo(pend[i], op.path, op.dest) \in DOMAIN objects <=> i = 1
        /\ objects[MovedTo(pend[1], op.path, op.dest)] = objects[pend[1]]
    BY <1>1, <2>1 DEF MoveFits, pend
  <2>3. k = pend[1] /\ 1 \in DOMAIN pend
    BY <1>1, <1>5
  <2>4. MovedTo(k, op.path, op.dest) # k
    BY <1>1, <1>3, <2>2, PlacesApart
  <2> QED
    BY <1>3, <2>2, <2>3, <2>4
<1>9. TextIsKept'
  <2> SUFFICES ASSUME ~overlapped, NEW x \in counted' PROVE \E y \in DOMAIN objects' : x \in objects'[y]
    BY <1>4 DEF TextIsKept
  <2>1. x \in counted /\ (KindOf[a] = "delete" => x \notin Text(k))
    BY <1>4
  <2>2. PICK y \in DOMAIN objects : x \in objects[y]
    BY <2>1 DEF ObjectIInv, TextIsKept
  <2>3. CASE y # k
    BY <1>3, <2>2, <2>3
  <2>4. CASE y = k
    <3>1. KindOf[a] = "move"
      BY <1>1, <2>1, <2>2, <2>4 DEF Text, There
    <3> QED
      BY <1>3, <1>8, <2>2, <2>4, <3>1
  <2> QED
    BY <2>3, <2>4
<1>10. ASSUME NEW l \in {"ok", "failed"}, Proceeds(a, l) PROVE ObjectIInv'
  <2>1. l \in FileStages /\ l \in Resting
    BY DEF FileStages, Resting, Ends
  <2>2. /\ fileOp' \in [FileOps -> OpRecords] /\ \A b \in FileOps \ {a} : fileOp'[b] = fileOp[b]
        /\ fileOp'[a].at \in Resting
    BY <1>1, <1>10, <2>1, ProceedsFacts
  <2>3. OpAlone(a, fileOp'[a]) /\ OpFits(a, fileOp'[a], objects')
    BY <2>2, EndedOp
  <2> QED
    BY <1>1, <1>3, <1>4, <1>9, <2>2, <2>3, Composes
<1>11. ASSUME next # "ok", fileOp' = [fileOp EXCEPT ![a] = [To(a, next) EXCEPT !.todo = Tail(pend)]] PROVE ObjectIInv'
  <2>1. PICK s \in Seq(ObjectKeys) : s = Tail(pend)
    BY <1>5, <1>7, <1>11
  <2>2. PICK l \in FileStages \ Ends : l = next
    BY <1>7, <1>11 DEF FileStages, Ends
  <2>3. ProceedsToTreat(a, l, s)
    BY <1>11, <2>1, <2>2 DEF ProceedsToTreat
  <2>4. /\ fileOp' \in [FileOps -> OpRecords] /\ \A b \in FileOps \ {a} : fileOp'[b] = fileOp[b]
        /\ fileOp'[a].at = l /\ fileOp'[a].todo = s
        /\ fileOp'[a].path = op.path /\ fileOp'[a].dest = op.dest /\ fileOp'[a].before = op.before
    BY <1>1, <2>3, TodoFacts
  <2>5. /\ Len(pend) > 1 /\ k = pend[1] /\ 1 \in DOMAIN pend
        /\ (l = "drop" /\ KindOf[a] = "delete") \/ (l = "copy" /\ KindOf[a] = "move")
    BY <1>1, <1>5, <1>7, <1>11, <2>2
  <2>6. /\ \A i \in DOMAIN s : i + 1 \in DOMAIN pend /\ s[i] = pend[i + 1] /\ s[i] # k /\ i \in Nat \ {0}
        /\ ToSet(s) = ToSet(pend) \ {k} /\ s # <<>>
        /\ \A i, j \in DOMAIN s : s[i] = s[j] => i = j
    <3>1. DOMAIN s = 1..(Len(pend) - 1) /\ Len(s) = Len(pend) - 1
      BY <1>5, <1>7, <1>11, <2>1
    <3>2. s # <<>> /\ \A i \in DOMAIN s : i \in Nat \ {0}
      BY <1>1, <2>5, <3>1
    <3>3. /\ \A i \in DOMAIN s : i + 1 \in DOMAIN pend /\ s[i] = pend[i + 1] /\ s[i] # k
          /\ ToSet(s) = ToSet(pend) \ {k} /\ \A i, j \in DOMAIN s : s[i] = s[j] => i = j
      BY <1>5, <1>7, <1>11, <2>1
    <3> QED
      BY <3>2, <3>3
  <2>7. OpAlone(a, fileOp'[a])
    <3>1. /\ op.path \in FilePaths /\ (KindOf[a] # "move" => op.dest = <<>>)
          /\ KindOf[a] = "move" => op.dest \in FilePaths /\ ~IsPrefix(op.path, op.dest)
      BY <1>1, OpFacts DEF OpAlone
    <3>2. \A i \in DOMAIN s : IsPrefix(op.path, s[i]) /\ s[i] # <<>> /\ s[i] # op.path
      BY <1>1, <1>2, <2>5, <2>6
    <3> QED
      BY <2>4, <2>5, <2>6, <3>1, <3>2 DEF OpAlone
  <2>8. ASSUME ~overlapped PROVE OpFits(a, fileOp'[a], objects')
    <3>1. Under(op.path, objects') = Under(op.path, objects) \ {k}
      BY <1>3 DEF Under
    <3>2. CASE KindOf[a] = "delete"
      <4>1. ASSUME ~Twofold(op.before, op.path) PROVE DeleteSinceBefore(fileOp'[a], objects')
        <5>1. DeleteSinceBefore(op, objects)
          BY <1>1, <2>8, <3>2, <4>1, OpFacts DEF OpFits
        <5>2. Under(op.path, objects) = ToSet(pend)
          BY <1>1, <1>7, <1>11, <5>1 DEF DeleteSinceBefore, pend
        <5> QED
          BY <2>4, <2>5, <2>6, <3>1, <3>2, <5>2 DEF DeleteSinceBefore
      <4> QED
        BY <2>4, <2>5, <3>2, <4>1 DEF OpFits
    <3>3. CASE KindOf[a] = "move"
      <4>1. /\ ~Related(op.path, op.dest)
            /\ \A i \in DOMAIN pend : /\ pend[i] \in DOMAIN objects
                                      /\ MovedTo(pend[i], op.path, op.dest) \in DOMAIN objects <=> i = 1
            /\ objects[MovedTo(k, op.path, op.dest)] = objects[k]
            /\ MovedTo(k, op.path, op.dest) \in DOMAIN objects'
        BY <1>8, <2>8, <3>3
      <4>2. MoveFits(fileOp'[a], objects')
        <5>1. \A i \in DOMAIN s : s[i] \in DOMAIN objects' /\ MovedTo(s[i], op.path, op.dest) \notin DOMAIN objects'
          <6> SUFFICES ASSUME NEW i \in DOMAIN s
                       PROVE  s[i] \in DOMAIN objects' /\ MovedTo(s[i], op.path, op.dest) \notin DOMAIN objects'
            OBVIOUS
          <6>1. i + 1 \in DOMAIN pend /\ s[i] = pend[i + 1] /\ s[i] # k /\ i + 1 # 1
            BY <2>6
          <6> QED
            BY <1>3, <4>1, <6>1
        <5> QED
          BY <2>4, <2>5, <3>3, <4>1, <5>1 DEF MoveFits
      <4>3. ASSUME ~Twofold(op.before, op.path) PROVE MoveSinceBefore(fileOp'[a], objects')
        <5>1. /\ Under(op.path, objects) = ToSet(pend)
              /\ \A x \in Under(op.path, objects) : x \in DOMAIN op.before /\ objects[x] = op.before[x]
              /\ \A x \in Under(op.path, op.before) \ ToSet(pend) :
                    /\ MovedTo(x, op.path, op.dest) \in DOMAIN objects
                    /\ objects[MovedTo(x, op.path, op.dest)] = op.before[x]
          <6>1. MoveSinceBefore(op, objects)
            BY <1>1, <2>8, <3>3, <4>3, OpFacts DEF OpFits
          <6> QED
            BY <1>1, <6>1 DEF MoveSinceBefore, pend
        <5>2. k \in ToSet(pend)
          BY <2>5 DEF ToSet
        <5>3. \A x \in Under(op.path, objects') : x \in DOMAIN op.before /\ objects'[x] = op.before[x]
          BY <1>3, <3>1, <5>1 DEF Under
        <5>4. ASSUME NEW x \in Under(op.path, op.before) \ ToSet(s)
              PROVE  /\ MovedTo(x, op.path, op.dest) \in DOMAIN objects'
                     /\ objects'[MovedTo(x, op.path, op.dest)] = op.before[x]
          <6>1. CASE x = k
            <7>1. objects[k] = op.before[k]
              BY <5>1, <5>2
            <7> QED
              BY <1>3, <4>1, <6>1, <7>1
          <6>2. CASE x # k
            <7>1. x \in Under(op.path, op.before) \ ToSet(pend)
              BY <2>6, <5>4, <6>2
            <7>2. x \in ObjectKeys /\ x # <<>> /\ IsPrefix(op.path, x)
              BY <1>1, <5>4, StoreFacts DEF Under, OpRecords
            <7>3. MovedTo(x, op.path, op.dest) # k
              BY <1>1, <1>3, <3>3, <4>1, <7>2, PlacesApart
            <7> QED
              BY <1>3, <5>1, <7>1, <7>3
          <6> QED
            BY <6>1, <6>2
        <5> QED
          BY <2>4, <2>5, <2>6, <3>1, <3>3, <5>1, <5>3, <5>4 DEF MoveSinceBefore
      <4> QED
        BY <2>4, <2>5, <3>3, <4>2, <4>3 DEF OpFits
    <3> QED
      BY <1>1, <3>2, <3>3
  <2> QED
    BY <1>1, <1>3, <1>4, <1>9, <2>4, <2>7, <2>8, Composes
<1> QED
  BY <1>6, <1>10, <1>11

\* The levels that mkdir_path() makes.
LEMMA LevelFacts ==
    ASSUME NEW p \in FilePaths
    PROVE  LET s == [i \in 1..Len(p) |-> SubSeq(p, 1, i)] IN
           /\ s \in Seq(ObjectKeys) /\ s # <<>> /\ s[Len(s)] = p
           /\ \A i \in DOMAIN s : IsPrefix(s[i], p)
<1> DEFINE s == [i \in 1..Len(p) |-> SubSeq(p, 1, i)]
<1>1. p \in ObjectKeys /\ Len(p) \in 1..2
  BY PathFacts
<1>2. \A i \in 1..Len(p) : /\ SubSeq(p, 1, i) \in ObjectKeys /\ Len(SubSeq(p, 1, i)) = i
                           /\ \A j \in 1..i : SubSeq(p, 1, i)[j] = p[j]
  BY <1>1 DEF ObjectKeys
<1>3. s \in Seq(ObjectKeys) /\ Len(s) = Len(p) /\ DOMAIN s = 1..Len(p) /\ s # <<>>
  <2>1. s \in [1..Len(p) -> ObjectKeys]
    BY <1>2
  <2>2. s \in Seq(ObjectKeys) /\ DOMAIN s = 1..Len(p)
    BY <1>1, <2>1
  <2>3. Len(s) = Len(p)
    BY <1>1
  <2> QED
    BY <1>1, <2>2, <2>3
<1>4. s[Len(s)] = p
  <2>1. s[Len(s)] = SubSeq(p, 1, Len(p))
    BY <1>1, <1>3
  <2>2. SubSeq(p, 1, Len(p)) = p
    BY <1>1 DEF ObjectKeys
  <2> QED
    BY <2>1, <2>2
<1>5. \A i \in 1..Len(p) : IsPrefix(SubSeq(p, 1, i), p)
  <2> SUFFICES ASSUME NEW i \in 1..Len(p) PROVE IsPrefix(SubSeq(p, 1, i), p)
    OBVIOUS
  <2>1. /\ SubSeq(p, 1, i) \in ObjectKeys /\ Len(SubSeq(p, 1, i)) = i
        /\ \A j \in 1..i : SubSeq(p, 1, i)[j] = p[j]
    BY <1>2
  <2>2. Len(SubSeq(p, 1, i)) <= Len(p)
    BY <1>1, <2>1
  <2> QED
    BY <1>1, <2>1, <2>2, PrefixMeans
<1> QED
  BY <1>3, <1>4, <1>5

LEMMA FirstFacts ==
    ASSUME NEW w \in FileKinds
    PROVE  /\ FirstRequest[w] \in {"check", "get", "put", "parts", "dest"}
           /\ FirstRequest[w] = "check" => w \in {"write", "force", "delete"}
           /\ FirstRequest[w] = "get" => w = "edit"
           /\ FirstRequest[w] = "put" => w = "upload"
           /\ FirstRequest[w] = "parts" => w = "mkdir"
           /\ FirstRequest[w] = "dest" => w = "move"
<1>1. CASE w = "write"
  BY <1>1 DEF FirstRequest
<1>2. CASE w = "force"
  BY <1>2 DEF FirstRequest
<1>3. CASE w = "delete"
  BY <1>3 DEF FirstRequest
<1>4. CASE w = "edit"
  BY <1>4 DEF FirstRequest
<1>5. CASE w = "upload"
  BY <1>5 DEF FirstRequest
<1>6. CASE w = "mkdir"
  BY <1>6 DEF FirstRequest
<1>7. CASE w = "move"
  BY <1>7 DEF FirstRequest
<1> QED
  BY <1>1, <1>2, <1>3, <1>4, <1>5, <1>6, <1>7 DEF FileKinds

LEMMA BeginStep ==
    ASSUME ObjectIInv, NEW a \in FileOps, BeginFileOp(a)
    PROVE  ObjectIInv'
<1>1. fileOp[a].at = "idle" /\ UNCHANGED <<objects, counted>>
  BY DEF BeginFileOp, FileStage
<1>2. StoreTypes /\ KindOf[a] \in FileKinds /\ objects \in Stores
  BY ObjectAssumption DEF ObjectIInv, StoreTypes, StoreOK
<1>3. PICK p \in FilePaths, d \in FilePaths \cup {<<>>} :
          /\ (KindOf[a] = "move") = (d # <<>>)
          /\ ~IsPrefix(p, d)
          /\ fileOp' = [fileOp EXCEPT ![a] =
                [NewOp EXCEPT !.at = FirstRequest[KindOf[a]], !.path = p, !.dest = d,
                              !.todo = IF KindOf[a] = "mkdir" THEN [i \in 1..Len(p) |-> SubSeq(p, 1, i)] ELSE <<>>,
                              !.before = IF KindOf[a] \in {"move", "delete"} THEN objects ELSE <<>>]]
          /\ overlapped' = (overlapped \/ \E b \in FileOps :
                                 FileStage(b) \notin Resting /\ Touches(b, {p, d} \ {<<>>}))
  BY DEF BeginFileOp
<1>4. PICK s \in Seq(ObjectKeys) : s = IF KindOf[a] = "mkdir" THEN [i \in 1..Len(p) |-> SubSeq(p, 1, i)] ELSE <<>>
  <2>1. <<>> \in Seq(ObjectKeys)
    OBVIOUS
  <2> QED
    BY <2>1, LevelFacts
<1>5. PICK f \in Stores : f = IF KindOf[a] \in {"move", "delete"} THEN objects ELSE <<>>
  BY <1>2, EmptyStore DEF StoreOK
<1>6. PICK l \in FileStages : l = FirstRequest[KindOf[a]]
  BY <1>2, FirstFacts DEF FileStages
<1>7. NewOp \in OpRecords /\ NewOp.held = {}
  BY EmptyStore DEF NewOp, OpRecords, FileStages, StoreOK
<1>8. fileOp' = [fileOp EXCEPT ![a] = [NewOp EXCEPT !.at = l, !.path = p, !.dest = d, !.todo = s, !.before = f]]
  BY <1>3, <1>4, <1>5, <1>6
<1>9. /\ fileOp'[a] = [NewOp EXCEPT !.at = l, !.path = p, !.dest = d, !.todo = s, !.before = f]
      /\ \A b \in FileOps \ {a} : fileOp'[b] = fileOp[b]
  BY <1>2, <1>8 DEF StoreTypes
<1>10. /\ fileOp'[a] \in OpRecords /\ fileOp'[a].at = l /\ fileOp'[a].path = p /\ fileOp'[a].dest = d
       /\ fileOp'[a].held = {} /\ fileOp'[a].todo = s /\ fileOp'[a].before = f
  BY <1>7, <1>9 DEF OpRecords
<1>11. fileOp' \in [FileOps -> OpRecords]
  BY <1>2, <1>8, <1>9, <1>10 DEF StoreTypes
<1>12. /\ l \in {"check", "get", "put", "parts", "dest"}
       /\ l = "check" => KindOf[a] \in {"write", "force", "delete"}
       /\ l = "get" => KindOf[a] = "edit"
       /\ l = "put" => KindOf[a] = "upload"
       /\ l = "parts" => KindOf[a] = "mkdir"
       /\ l = "dest" => KindOf[a] = "move"
  BY <1>2, <1>6, FirstFacts
<1>13. StoreTypes'
  BY <1>1, <1>2, <1>3, <1>11 DEF StoreTypes
<1>14. OpAlone(a, fileOp'[a])
  <2>1. KindOf[a] = "mkdir" => s # <<>> /\ s[Len(s)] = p /\ \A i \in DOMAIN s : IsPrefix(s[i], p)
    BY <1>4, LevelFacts
  <2>2. KindOf[a] # "mkdir" => s = <<>>
    BY <1>4
  <2>3. (KindOf[a] # "move" => d = <<>>) /\ (KindOf[a] = "move" => d \in FilePaths)
    BY <1>3
  <2> QED
    BY <1>3, <1>10, <1>12, <2>1, <2>2, <2>3 DEF OpAlone
<1>15. OpFits(a, fileOp'[a], objects)
  <2>1. KindOf[a] \in {"move", "delete"} => AsBefore(fileOp'[a], objects)
    BY <1>5, <1>10 DEF AsBefore
  <2> QED
    BY <1>10, <1>12, <2>1 DEF OpFits, DeleteSinceBefore, MoveSinceBefore
<1>16. \A b \in FileOps : OpAlone(b, fileOp'[b])
  BY <1>9, <1>14 DEF ObjectIInv
<1>17. ASSUME ~overlapped' PROVE OpsApart' /\ \A b \in FileOps : OpFits(b, fileOp'[b], objects')
  <2>1. ~overlapped /\ \A b \in FileOps : FileStage(b) \notin Resting => ~Touches(b, {p, d} \ {<<>>})
    BY <1>3, <1>17
  <2>2. \A b \in FileOps : OpFits(b, fileOp'[b], objects')
    BY <1>1, <1>9, <1>15, <2>1 DEF ObjectIInv
  <2>3. PlacesOf(fileOp'[a]) = {p, d} \ {<<>>}
    BY <1>10 DEF PlacesOf
  <2>4. \A b \in FileOps \ {a} : fileOp[b].at \notin Resting =>
            \A x \in PlacesOf(fileOp[b]), y \in PlacesOf(fileOp'[a]) : ~Related(x, y) /\ ~Related(y, x)
    BY <2>1, <2>3 DEF Touches, PlacesOf, Path, Dest, FileStage, Related
  <2>5. OpsApart'
    <3> SUFFICES ASSUME NEW b \in FileOps, NEW c \in FileOps, b # c,
                        fileOp'[b].at \notin Resting, fileOp'[c].at \notin Resting
                 PROVE  \A x \in PlacesOf(fileOp'[b]), y \in PlacesOf(fileOp'[c]) : ~Related(x, y)
      BY DEF OpsApart
    <3>1. CASE b = a
      BY <1>9, <2>4, <3>1
    <3>2. CASE c = a
      BY <1>9, <2>4, <3>2
    <3>3. CASE b # a /\ c # a
      <4>1. fileOp'[b] = fileOp[b] /\ fileOp'[c] = fileOp[c]
        BY <1>9, <3>3
      <4> QED
        BY <2>1, <4>1 DEF ObjectIInv, OpsApart
    <3> QED
      BY <3>1, <3>2, <3>3
  <2> QED
    BY <2>2, <2>5
<1>18. TextIsKept'
  BY <1>1, <1>3 DEF TextIsKept, ObjectIInv
<1> QED
  BY <1>13, <1>16, <1>17, <1>18 DEF ObjectIInv

-----------------------------------------------------------------------------
LEMMA ObjectStarts == ObjectInit => ObjectIInv
<1> SUFFICES ASSUME ObjectInit PROVE ObjectIInv
  OBVIOUS
<1>1. NewOp \in OpRecords /\ NewOp.at \in Resting
  BY EmptyStore DEF NewOp, OpRecords, FileStages, StoreOK, Resting
<1>2. StoreTypes
  BY <1>1, EmptyStore DEF ObjectInit, StoreTypes
<1>3. \A a \in FileOps : fileOp[a].at \in Resting
  BY <1>1 DEF ObjectInit
<1> QED
  BY <1>2, <1>3, EndedOp DEF ObjectIInv, OpsApart, TextIsKept, ObjectInit

LEMMA ObjectSteps == ObjectIInv /\ [ObjectNext]_objectVars => ObjectIInv'
<1> SUFFICES ASSUME ObjectIInv, [ObjectNext]_objectVars PROVE ObjectIInv'
  OBVIOUS
<1>1. ASSUME NEW a \in FileOps, FileOpStep(a) PROVE ObjectIInv'
  BY <1>1, BeginStep, FailStep, CheckStep, RereadStep, GetStep, PutStep, MakeStep, DestStep, SourceStep, ListStep,
     CopyStep, DropStep DEF FileOpStep
<1>2. CASE UNCHANGED objectVars
  BY <1>2 DEF objectVars, ObjectIInv, StoreTypes, OpsApart, TextIsKept
<1> QED
  BY <1>1, <1>2 DEF ObjectNext

\* A move or a delete ends well only with its last drop.
LEMMA OnlyDropsSucceed ==
    ASSUME ObjectIInv, NEW a \in FileOps, KindOf[a] \in {"delete", "move"}, FileOpStep(a),
           fileOp[a].at \notin Ends, fileOp'[a].at = "ok"
    PROVE  DropObject(a)
<1> SUFFICES ASSUME ~DropObject(a) PROVE FALSE
  OBVIOUS
<1>0. StoreTypes
  BY DEF ObjectIInv
<1>1. ASSUME NEW l \in FileStages, Proceeds(a, l) PROVE l = "ok"
  BY <1>0, <1>1, ProceedsFacts
<1>s. \A l \in {"failed", "reread", "drop", "list", "put", "below", "source"} : l \in FileStages /\ l # "ok"
  BY DEF FileStages
<1>2. \A l \in {"failed", "reread", "drop", "list", "put", "below", "source"} : ~Proceeds(a, l)
  BY <1>1, <1>s
<1>3. CASE BeginFileOp(a)
  <2>1. fileOp \in [FileOps -> OpRecords] /\ KindOf[a] \in FileKinds
    BY <1>0, ObjectAssumption DEF StoreTypes
  <2>2. fileOp'[a].at = FirstRequest[KindOf[a]]
    <3>1. NewOp.at = "idle" /\ DOMAIN NewOp = {"at", "path", "dest", "held", "todo", "before"}
      BY DEF NewOp
    <3> QED
      BY <1>3, <2>1, <3>1 DEF BeginFileOp
  <2> QED
    BY <2>1, <2>2, FirstFacts
<1>4. CASE FailFileOp(a)
  BY <1>2, <1>4 DEF FailFileOp, Failing
<1>5. CASE CheckFile(a)
  BY <1>2, <1>5 DEF CheckFile, Failing
<1>6. CASE Reread(a) \/ GetFile(a) \/ PutFile(a) \/ MakeLevel(a)
  <2>1. fileOp[a].at \in {"reread", "get", "put", "replace", "parts"} /\ fileOp[a].at \notin Resting
    BY <1>6 DEF Reread, GetFile, PutFile, MakeLevel, FileStage, Resting, Ends
  <2> QED
    BY <2>1, OpFacts DEF OpAlone
<1>7. CASE CheckDest(a)
  BY <1>2, <1>7 DEF CheckDest
<1>8. CASE FindSource(a)
  <2>1. PICK s \in Seq(ObjectKeys) : s = <<Path(a)>>
    <3>1. fileOp[a].at = "source" /\ fileOp[a].at \notin Resting
      BY <1>8 DEF FindSource, FileStage, Resting, Ends
    <3>2. Path(a) \in ObjectKeys
      BY <3>1, OpFacts
    <3>3. <<Path(a)>> \in Seq(ObjectKeys)
      BY <3>2
    <3> QED
      BY <3>3
  <2>2. ProceedsToTreat(a, "copy", s) \/ Proceeds(a, "list")
    BY <1>8, <2>1 DEF FindSource, ProceedsToTreat, Proceeds
  <2>3. "copy" \in FileStages \ Ends
    BY DEF FileStages, Ends
  <2> QED
    BY <1>0, <1>2, <2>2, <2>3, TodoFacts
<1>9. CASE ListBelow(a)
  <2>1. fileOp[a].at = "list" /\ fileOp[a].at \notin Resting
    BY <1>9 DEF ListBelow, FileStage, Resting, Ends
  <2>2. Below(Path(a)) \in SUBSET ObjectKeys /\ IsFiniteSet(Below(Path(a)))
    <3>1. Below(Path(a)) \in SUBSET DOMAIN objects
      BY DEF Below
    <3> QED
      BY <2>1, <3>1, OpFacts, FS_Subset
  <2>3. PICK s \in Seq(ObjectKeys) : s = SetToSeq(Below(Path(a)))
    BY <2>2, Listed
  <2>4. PICK l \in FileStages \ Ends : l = IF KindOf[a] = "delete" THEN "drop" ELSE "copy"
    BY DEF FileStages, Ends
  <2>5. ProceedsToTreat(a, l, s) \/ Proceeds(a, "failed")
    BY <1>9, <2>3, <2>4 DEF ListBelow, ProceedsToTreat, Proceeds
  <2>6. ~ProceedsToTreat(a, l, s)
    <3>1. ASSUME ProceedsToTreat(a, l, s) PROVE fileOp'[a].at = l
      BY <1>0, <3>1, TodoFacts
    <3> QED
      BY <3>1 DEF Ends
  <2> QED
    BY <1>2, <2>5, <2>6
<1>10. CASE CopyObject(a)
  BY <1>2, <1>10 DEF CopyObject
<1> QED
  BY <1>3, <1>4, <1>5, <1>6, <1>7, <1>8, <1>9, <1>10 DEF FileOpStep

LEMMA WholeTrees == ObjectIInv /\ [ObjectNext]_objectVars => TreesAreWhole
<1> SUFFICES ASSUME ObjectIInv, [ObjectNext]_objectVars, NEW a \in FileOps,
                    fileOp[a].at \notin Ends, fileOp'[a].at = "ok", KindOf[a] \in {"delete", "move"},
                    ~overlapped, ~Twofold(fileOp[a].before, fileOp[a].path)
             PROVE  Gone(a) /\ (KindOf[a] = "move" => Moved(a))
  BY DEF TreesAreWhole, FileStage, Path
<1>0. StoreTypes
  BY DEF ObjectIInv
<1>1. DropObject(a)
  <2>1. PICK b \in FileOps : FileOpStep(b)
    <3>1. fileOp' # fileOp
      BY DEF Ends
    <3> QED
      BY <3>1 DEF ObjectNext, objectVars
  <2>2. b = a
    <3> SUFFICES ASSUME b # a PROVE FALSE
      OBVIOUS
    <3>1. fileOp'[a] = fileOp[a]
      BY <1>0, <2>1 DEF StoreTypes, FileOpStep, BeginFileOp, FailFileOp, CheckFile, Reread, GetFile, PutFile,
         MakeLevel, CheckDest, FindSource, ListBelow, CopyObject, DropObject, Proceeds
    <3> QED
      BY <3>1 DEF Ends
  <2> QED
    BY <2>1, <2>2, OnlyDropsSucceed
<1> DEFINE op   == fileOp[a]
           pend == fileOp[a].todo
           k    == IF pend = <<>> THEN Path(a) ELSE Head(pend)
<1>2. /\ op.at = "drop" /\ op.at \notin Resting
      /\ op \in OpRecords /\ Path(a) = op.path /\ Dest(a) = op.dest
      /\ Path(a) \in FilePaths /\ Path(a) \in ObjectKeys
      /\ KindOf[a] = "move" => pend # <<>> /\ Dest(a) \in FilePaths
      /\ pend \in Seq(ObjectKeys) /\ Len(pend) \in Nat
      /\ \A i, j \in DOMAIN pend : pend[i] = pend[j] => i = j
      /\ k \in ObjectKeys /\ k # <<>> /\ IsPrefix(Path(a), k)
      /\ DOMAIN objects' = DOMAIN objects \ {k}
      /\ \A x \in DOMAIN objects' : objects'[x] = objects[x]
  BY <1>1, DropFacts
<1>3. Len(pend) <= 1
  <2> SUFFICES ASSUME ~(Len(pend) <= 1) PROVE FALSE
    OBVIOUS
  <2>1. PICK l \in FileStages \ Ends : l = IF KindOf[a] = "delete" THEN "drop" ELSE "copy"
    BY DEF FileStages, Ends
  <2>2. pend # <<>>
    BY <1>2
  <2>3. PICK s \in Seq(ObjectKeys) : s = Tail(pend)
    <3>1. Tail(pend) \in Seq(ObjectKeys)
      BY <1>2, <2>2
    <3> QED
      BY <3>1
  <2>4. ProceedsToTreat(a, l, s) \/ Proceeds(a, "failed")
    <3>1. l # "ok" /\ l = IF Len(pend) <= 1 THEN "ok" ELSE IF KindOf[a] = "delete" THEN "drop" ELSE "copy"
      BY <2>1 DEF Ends
    <3>2. \/ fileOp' = [fileOp EXCEPT ![a] = IF l = "ok" THEN To(a, l) ELSE [To(a, l) EXCEPT !.todo = Tail(pend)]]
          \/ Proceeds(a, "failed")
      BY <1>1, <3>1 DEF DropObject
    <3> QED
      BY <2>3, <3>1, <3>2 DEF ProceedsToTreat
  <2>5. ProceedsToTreat(a, l, s) => fileOp'[a].at = l
    BY <1>0, TodoFacts
  <2>6. Proceeds(a, "failed") => fileOp'[a].at = "failed"
    BY <1>0, ProceedsFacts DEF FileStages
  <2> QED
    BY <2>4, <2>5, <2>6 DEF Ends
<1>4. pend # <<>> => ToSet(pend) = {k}
  <2> SUFFICES ASSUME pend # <<>> PROVE ToSet(pend) = {k}
    OBVIOUS
  <2>1. DOMAIN pend = {1} /\ Head(pend) = pend[1]
    BY <1>2, <1>3
  <2> QED
    BY <2>1 DEF ToSet
<1>5. Under(op.path, objects) = {k}
  <2>1. OpFits(a, op, objects)
    BY <1>2, OpFacts
  <2>2. CASE KindOf[a] = "move"
    <3>1. MoveSinceBefore(op, objects)
      BY <1>2, <2>1, <2>2 DEF OpFits
    <3> QED
      BY <1>2, <1>4, <2>2, <3>1 DEF MoveSinceBefore
  <2>3. CASE KindOf[a] = "delete"
    <3>1. DeleteSinceBefore(op, objects)
      BY <1>2, <2>1, <2>3 DEF OpFits
    <3>2. CASE pend # <<>>
      BY <1>2, <1>4, <3>1, <3>2 DEF DeleteSinceBefore
    <3>3. CASE pend = <<>>
      <4>1. AsBefore(op, objects) /\ op.path \in DOMAIN objects /\ k = op.path
        BY <1>2, <3>1, <3>3 DEF DeleteSinceBefore
      <4>2. op.path \in Under(op.path, op.before)
        BY <1>2, <4>1 DEF AsBefore, Under
      <4>3. \A x \in Under(op.path, op.before) : x = op.path
        BY <4>2 DEF Twofold, Under, IsStrictPrefix
      <4> QED
        BY <4>1, <4>2, <4>3 DEF AsBefore
    <3> QED
      BY <3>2, <3>3
  <2> QED
    BY <2>2, <2>3
<1>6. Gone(a)
  BY <1>2, <1>5 DEF Gone, Under
<1>7. ASSUME KindOf[a] = "move" PROVE Moved(a)
  <2>1. MoveSinceBefore(op, objects) /\ MoveFits(op, objects)
    BY <1>2, <1>7, OpFacts DEF OpFits
  <2>2. /\ Under(op.path, objects) = ToSet(pend)
        /\ \A x \in Under(op.path, objects) : x \in DOMAIN op.before /\ objects[x] = op.before[x]
        /\ \A x \in Under(op.path, op.before) \ ToSet(pend) :
              /\ MovedTo(x, op.path, op.dest) \in DOMAIN objects
              /\ objects[MovedTo(x, op.path, op.dest)] = op.before[x]
    BY <1>2, <2>1 DEF MoveSinceBefore
  <2>3. pend # <<>> /\ k = pend[1] /\ 1 \in DOMAIN pend /\ ToSet(pend) = {k}
    BY <1>2, <1>4, <1>7
  <2>4. ~Related(op.path, op.dest) /\ MovedTo(k, op.path, op.dest) \in DOMAIN objects
        /\ objects[MovedTo(k, op.path, op.dest)] = objects[k]
    BY <1>2, <2>1, <2>3 DEF MoveFits
  <2> HIDE DEF k, pend
  <2> SUFFICES ASSUME NEW x \in DOMAIN op.before, IsPrefix(op.path, x)
               PROVE  /\ MovedTo(x, op.path, op.dest) \in DOMAIN objects'
                      /\ objects'[MovedTo(x, op.path, op.dest)] = op.before[x]
    BY <1>2 DEF Moved
  <2>5. x \in ObjectKeys /\ x # <<>>
    BY <1>2, StoreFacts DEF OpRecords
  <2>6. MovedTo(x, op.path, op.dest) # k
    BY <1>2, <1>7, <2>4, <2>5, PlacesApart
  <2>7. CASE x = k
    <3>1. objects[k] = op.before[k]
      BY <1>5, <2>2
    <3> QED
      BY <1>2, <2>4, <2>6, <2>7, <3>1
  <2>8. CASE x # k
    <3>1. x \in Under(op.path, op.before) \ ToSet(pend)
      BY <2>3, <2>8 DEF Under
    <3> QED
      BY <1>2, <2>2, <2>6, <3>1
  <2> QED
    BY <2>7, <2>8
<1> QED
  BY <1>6, <1>7

\* The objects of a store, the operations and what they have in hand have the
\* declared types.
THEOREM ObjectTypeCorrect == ObjectSpec => []ObjectTypeOK
<1>1. ObjectIInv => ObjectTypeOK
  <2> SUFFICES ASSUME ObjectIInv PROVE ObjectTypeOK
    OBVIOUS
  <2>1. StoreTypes
    BY DEF ObjectIInv
  <2>2. \A k \in DOMAIN objects : k \in ObjectKeys /\ k # <<>> /\ objects[k] \subseteq FileOps
    BY <2>1, StoreFacts DEF StoreTypes, StoreOK
  <2>3. ASSUME NEW a \in FileOps
        PROVE  /\ {fileOp[a].path, fileOp[a].dest} \subseteq FilePaths \cup {<<>>}
               /\ fileOp[a].at \in Resting \cup {"check", "put", "reread", "get", "replace", "dest", "below", "source",
                                              "list", "drop", "copy", "parts"}
               /\ fileOp[a].held \subseteq FileOps
               /\ ToSet(fileOp[a].todo) \subseteq ObjectKeys
    <3>1. fileOp[a] \in OpRecords
      BY <2>1 DEF StoreTypes
    <3>2. fileOp[a].todo \in Seq(ObjectKeys)
      BY <3>1 DEF OpRecords
    <3>3. ToSet(fileOp[a].todo) \subseteq ObjectKeys
      BY <3>2 DEF ToSet
    <3> QED
      BY <3>1, <3>3 DEF OpRecords, FileStages, Resting, Ends
  <2> QED
    BY <2>1, <2>2, <2>3 DEF ObjectTypeOK, StoreTypes
<1> QED
  BY <1>1, ObjectStarts, ObjectSteps, PTL DEF ObjectSpec

\* No text that callers count on is lost, and a move or a delete that succeeds
\* is of the whole tree; for any operations and paths, wherever requests fail
\* and however operations on unrelated paths overlap.
THEOREM FilesAreKept == ObjectSpec => StoreKeepsFiles
<1>1. ObjectIInv /\ [ObjectNext]_objectVars => [TextIsKept' /\ TreesAreWhole]_objectVars
  BY ObjectSteps, WholeTrees DEF ObjectIInv
<1> QED
  BY <1>1, ObjectStarts, ObjectSteps, PTL DEF ObjectSpec, StoreKeepsFiles

-----------------------------------------------------------------------------
(***************************************************************************)
(* ShellEnv: the environment of local commands.                            *)
(***************************************************************************)

EnvLines == EnvValues \cup {NoValue}
Envs     == [values : [EnvKeys -> EnvLines], mapped : BOOLEAN]
Dues     == [EnvKeys \ Protected -> EnvLines]
ExecutionPlaces == {"idle", "refreshed", "jail", "host", "mapping", "mapped", "over"}
ExecutionRecords == [at : ExecutionPlaces, given : Envs, jailed : BOOLEAN, spawned : 0..1, due : Dues]

\* The types of all that is kept, the values of the file among them.
ShellTypes ==
    /\ envLine \in [EnvKeys -> EnvLines] /\ exportLine \in [EnvKeys -> EnvLines]
    /\ envTorn \in BOOLEAN /\ jail \in BOOLEAN /\ shellEnv \in Envs
    /\ execution \in [Executions -> ExecutionRecords]
    /\ envWrite \in [EnvWrites -> [at : {"idle", "open", "over"}, lines : [EnvKeys -> EnvLines],
                                   exports : [EnvKeys -> EnvLines]]]
    /\ intended \in [EnvKeys -> EnvLines]
    /\ unintended \subseteq EnvKeys /\ crowded \subseteq Executions /\ uninformed \subseteq Executions

\* One write at a time has the file open, and what it writes is meant.
FileInHand ==
    /\ \A w \in EnvWrites : envWrite[w].at = "open" =>
          /\ envTorn
          /\ \A v \in EnvWrites : envWrite[v].at = "open" => v = w
          /\ \A k \in EnvKeys \ unintended : ValueIn(envWrite[w].lines, envWrite[w].exports, k) = intended[k]
    /\ FileKeeps

\* The environment holds what is meant, as far as the file does.
HoldsDue(env, x) == \A k \in EnvKeys \ (Protected \cup unintended) : env.values[k] = execution[x].due[k]

\* Before it is spawned, a command has the attribute to itself, or is crowded;
\* and what it should get is still in the file, or it is not informed.
EnvInHand ==
    /\ \A x \in Executions : /\ execution[x].spawned = (IF execution[x].at = "over" THEN 1 ELSE 0)
                             /\ ExecAt(x, "over") \/ ~execution[x].jailed
    /\ \A x, y \in Executions : InExecute(x) /\ InExecute(y) /\ x # y => x \in crowded
    /\ \A x \in Executions \ crowded :
          /\ execution[x].at \in {"refreshed", "jail", "host"} => ~shellEnv.mapped
          /\ ExecAt(x, "mapping") => execution[x].given = MappedEnv(shellEnv)
          /\ ExecAt(x, "mapped") => shellEnv.mapped
    /\ \A x \in Executions \ uninformed : InExecute(x) =>
          ~envTorn /\ \A k \in EnvKeys \ Protected : execution[x].due[k] = intended[k]
    /\ \A x \in Executions \ (crowded \cup uninformed) : InExecute(x) => HoldsDue(shellEnv, x)

ShellInv == ShellTypes /\ FileInHand /\ EnvInHand /\ EnvFits /\ EnvFollows

-----------------------------------------------------------------------------
LEMMA ParsedFacts ==
    ASSUME NEW v \in EnvLines
    PROVE  /\ Parsed(v) \in EnvLines
           /\ Parsed(v) = NoValue <=> v = NoValue
           /\ ~Layered(v) => Parsed(Parsed(v)) = Parsed(v)
<1>1. CASE v = NoValue
  <2>1. v.text = "none" /\ v.quotes = 0 /\ v.blanks = FALSE
    BY <1>1 DEF NoValue
  <2>2. Parsed(v) = [text |-> v.text, quotes |-> 0, blanks |-> FALSE]
    BY <2>1 DEF Parsed
  <2>3. Parsed(v) = NoValue
    BY <2>1, <2>2 DEF NoValue
  <2> QED
    BY <1>1, <2>3 DEF EnvLines
<1>2. CASE v \in EnvValues
  <2>1. v.text \in EnvTexts /\ v.quotes \in Nat /\ v.blanks \in BOOLEAN
    BY <1>2 DEF EnvValues
  <2>2. /\ v.quotes > 0 => Parsed(v) = [text |-> v.text, quotes |-> v.quotes - 1, blanks |-> v.blanks]
        /\ ~(v.quotes > 0) => Parsed(v) = [text |-> v.text, quotes |-> 0, blanks |-> FALSE]
    BY DEF Parsed
  <2>3. Parsed(v) \in EnvValues
    <3>1. CASE v.quotes > 0
      <4>1. v.quotes - 1 \in Nat
        BY <2>1, <3>1
      <4> QED
        BY <2>1, <2>2, <3>1, <4>1 DEF EnvValues
    <3>2. CASE ~(v.quotes > 0)
      <4>1. 0 \in Nat /\ FALSE \in BOOLEAN
        OBVIOUS
      <4>2. [text |-> v.text, quotes |-> 0, blanks |-> FALSE] \in EnvValues
        BY <2>1, <4>1, Zenon DEF EnvValues
      <4> QED
        BY <2>2, <3>2, <4>2
    <3> QED
      BY <3>1, <3>2
  <2>4. Parsed(v) # NoValue /\ v # NoValue
    BY <2>1, ShellEnvAssumption DEF NoValue, Parsed
  <2>5. ASSUME ~Layered(v) PROVE Parsed(Parsed(v)) = Parsed(v)
    <3>1. ~(v.quotes > 1) /\ ~(v.quotes = 1 /\ v.blanks = TRUE)
      BY <2>1, <2>5 DEF Layered
    <3>2. Parsed(v) = [text |-> v.text, quotes |-> 0, blanks |-> FALSE]
      BY <2>1, <2>2, <3>1
    <3>3. Parsed(v).text = v.text /\ Parsed(v).quotes = 0
      BY <3>2
    <3>4. Parsed(Parsed(v)) = [text |-> Parsed(v).text, quotes |-> 0, blanks |-> FALSE]
      <4>1. ~(Parsed(v).quotes > 0)
        BY <3>3
      <4> QED
        BY <4>1 DEF Parsed
    <3> QED
      BY <3>2, <3>3, <3>4
  <2> QED
    BY <2>3, <2>4, <2>5 DEF EnvLines
<1> QED
  BY <1>1, <1>2 DEF EnvLines

LEMMA MappedFacts ==
    ASSUME NEW env \in Envs
    PROVE  MappedEnv(env) \in Envs /\ MappedEnv(env).mapped /\ MappedEnv(env).values = env.values
BY DEF MappedEnv, Envs

\* What is read of lines that were parsed is what was read of them before.
LEMMA ReadAgain ==
    ASSUME NEW lines \in [EnvKeys -> EnvLines], NEW exports \in [EnvKeys -> EnvLines],
           NEW new \in [EnvKeys -> EnvLines], NEW newExports \in [EnvKeys -> EnvLines], NEW k \in EnvKeys,
           new[k] = Parsed(lines[k]), newExports[k] = Parsed(exports[k]),
           ~Layered(lines[k]), ~Layered(exports[k])
    PROVE  ValueIn(new, newExports, k) = ValueIn(lines, exports, k)
<1>1. lines[k] \in EnvLines /\ exports[k] \in EnvLines
  OBVIOUS
<1> QED
  BY <1>1, ParsedFacts DEF ValueIn

LEMMA FileValueTypes ==
    ASSUME ShellTypes, NEW k \in EnvKeys
    PROVE  FileValue(k) \in EnvLines
<1>1. envLine[k] \in EnvLines /\ exportLine[k] \in EnvLines
  BY DEF ShellTypes
<1> QED
  BY <1>1, ParsedFacts DEF FileValue, ValueIn

LEMMA EnvTypes ==
    ASSUME ShellTypes, NEW readable \in BOOLEAN
    PROVE  [values |-> WorkspaceEnv(readable), mapped |-> FALSE] \in Envs
<1>1. WorkspaceEnv(readable) \in [EnvKeys -> EnvLines]
  BY FileValueTypes DEF WorkspaceEnv, EnvLines
<1> QED
  BY <1>1 DEF Envs

-----------------------------------------------------------------------------
LEMMA ShellStarts == ShellInit => ShellInv
<1> SUFFICES ASSUME ShellInit PROVE ShellInv
  OBVIOUS
<1>1. envLine \in [EnvKeys -> EnvLines] /\ exportLine \in [EnvKeys -> EnvLines]
  BY ShellEnvAssumption DEF ShellInit, EnvLines
<1>2. shellEnv \in Envs /\ ~shellEnv.mapped
  BY DEF ShellInit, Envs, EnvLines
<1>3. \A k \in EnvKeys : FileValue(k) \in EnvLines
  BY <1>1, ParsedFacts DEF FileValue, ValueIn
<1>4. ShellTypes
  <2>1. execution \in [Executions -> ExecutionRecords]
    BY <1>2 DEF ShellInit, ExecutionPlaces, ExecutionRecords, EnvLines, Dues
  <2>2. envWrite \in [EnvWrites -> [at : {"idle", "open", "over"}, lines : [EnvKeys -> EnvLines],
                                   exports : [EnvKeys -> EnvLines]]]
    BY <1>1 DEF ShellInit
  <2> QED
    BY <1>1, <1>2, <1>3, <2>1, <2>2 DEF ShellInit, ShellTypes
<1>5. \A x \in Executions : execution[x].at = "idle" /\ execution[x].spawned = 0 /\ ~execution[x].jailed
  BY DEF ShellInit
<1>6. \A w \in EnvWrites : envWrite[w].at = "idle"
  BY DEF ShellInit
<1>7. \A k \in EnvKeys : FileValue(k) = intended[k]
  BY DEF ShellInit
<1> QED
  BY <1>4, <1>5, <1>6, <1>7 DEF ShellInv, FileInHand, FileKeeps, EnvInHand, InExecute, ExecAt, EnvFits, EnvFollows, Spawned

-----------------------------------------------------------------------------
(***************************************************************************)
(* A command's step: the file and the other commands stay as they are.     *)
(***************************************************************************)
LEMMA ExecutionMoves ==
    ASSUME NEW f \in [Executions -> ExecutionRecords], NEW x \in Executions, NEW place \in ExecutionPlaces,
           NEW d \in Dues
    PROVE  [f EXCEPT ![x].at = place, ![x].due = d] \in [Executions -> ExecutionRecords]
BY DEF ExecutionRecords

LEMMA ExecutionMaps ==
    ASSUME NEW f \in [Executions -> ExecutionRecords], NEW x \in Executions, NEW place \in ExecutionPlaces,
           NEW env \in Envs
    PROVE  [f EXCEPT ![x].at = place, ![x].given = env] \in [Executions -> ExecutionRecords]
BY DEF ExecutionRecords

LEMMA RefreshTypes ==
    ASSUME ShellTypes, NEW x \in Executions, NEW place \in ExecutionPlaces, Refresh(x, place),
           UNCHANGED fileVars, jail' \in BOOLEAN, crowded' \subseteq Executions
    PROVE  ShellTypes'
<1>1. shellEnv' \in Envs
  BY EnvTypes DEF Refresh
<1>2. uninformed' \subseteq Executions
  BY DEF Refresh, ShellTypes
<1>3. [k \in EnvKeys \ Protected |-> intended[k]] \in Dues
  BY DEF ShellTypes, Dues
<1>4. execution' \in [Executions -> ExecutionRecords]
  <2> DEFINE d == IF ExecAt(x, "idle") THEN [k \in EnvKeys \ Protected |-> intended[k]] ELSE execution[x].due
  <2>1. d \in Dues
    BY <1>3 DEF ShellTypes, ExecutionRecords
  <2>2. execution' = [execution EXCEPT ![x].at = place, ![x].due = d]
    BY DEF Refresh, ShellTypes
  <2> HIDE DEF d
  <2> QED
    BY <2>1, <2>2, ExecutionMoves DEF ShellTypes
<1> QED
  BY <1>1, <1>2, <1>4 DEF ShellTypes, fileVars

LEMMA CommandTypes ==
    ASSUME ShellInv, NEW x \in Executions,
           BeginExecute(x) \/ RunInJail(x) \/ JailRuns(x) \/ JailIsGone(x) \/ RunOnHost(x) \/ MapEnv(x) \/ PutEnv(x) \/ HostRuns(x)
    PROVE  ShellTypes' /\ UNCHANGED fileVars /\ \A y \in Executions \ {x} : execution'[y] = execution[y]
<1> USE DEF ShellInv
<1>0. "refreshed" \in ExecutionPlaces /\ "host" \in ExecutionPlaces
  BY DEF ExecutionPlaces
<1>1. CASE BeginExecute(x)
  <2>1. crowded' \subseteq Executions /\ jail' \in BOOLEAN
    BY <1>1 DEF BeginExecute, ShellTypes
  <2>2. ShellTypes'
    BY <1>0, <1>1, <2>1, RefreshTypes DEF BeginExecute
  <2> QED
    BY <1>1, <2>2 DEF BeginExecute, Refresh, ShellTypes
<1>2. CASE JailIsGone(x)
  <2>1. crowded' \subseteq Executions /\ jail' \in BOOLEAN
    BY <1>2 DEF JailIsGone, ShellTypes
  <2>2. ShellTypes'
    BY <1>0, <1>2, <2>1, RefreshTypes DEF JailIsGone
  <2> QED
    BY <1>2, <2>2 DEF JailIsGone, Refresh, ShellTypes
<1>3. CASE RunOnHost(x)
  <2>1. crowded' \subseteq Executions /\ jail' \in BOOLEAN
    BY <1>3 DEF RunOnHost, ShellTypes
  <2>2. ShellTypes'
    BY <1>0, <1>3, <2>1, RefreshTypes DEF RunOnHost
  <2> QED
    BY <1>3, <2>2 DEF RunOnHost, Refresh, ShellTypes
<1>4. CASE RunInJail(x)
  <2>1. execution' = [execution EXCEPT ![x].at = "jail"] /\ execution \in [Executions -> ExecutionRecords]
    BY <1>4 DEF RunInJail, ShellTypes
  <2>2. /\ execution' \in [Executions -> ExecutionRecords]
        /\ \A y \in Executions \ {x} : execution'[y] = execution[y]
    BY <2>1 DEF ExecutionPlaces, ExecutionRecords
  <2> QED
    BY <1>4, <2>2 DEF RunInJail, ShellTypes, fileVars
<1>5. CASE JailRuns(x)
  BY <1>5 DEF JailRuns, ShellTypes, fileVars, ExecutionPlaces, ExecutionRecords, EnvInHand, ExecAt
<1>6. CASE MapEnv(x)
  <2>1. MappedEnv(shellEnv) \in Envs
    BY MappedFacts DEF ShellTypes
  <2>2. shellEnv' = shellEnv /\ execution' = [execution EXCEPT ![x].at = "mapping", ![x].given = MappedEnv(shellEnv)]
    BY <1>6 DEF MapEnv
  <2>3. execution' \in [Executions -> ExecutionRecords]
    BY <2>1, <2>2, ExecutionMaps DEF ShellTypes, ExecutionPlaces
  <2>4. \A y \in Executions \ {x} : execution'[y] = execution[y]
    BY <2>2 DEF ShellTypes
  <2> QED
    BY <1>6, <2>3, <2>4 DEF MapEnv, ShellTypes, fileVars
<1>7. CASE PutEnv(x)
  <2>1. execution' = [execution EXCEPT ![x].at = "mapped"] /\ execution \in [Executions -> ExecutionRecords]
    BY <1>7 DEF PutEnv, ShellTypes
  <2>2. /\ execution' \in [Executions -> ExecutionRecords]
        /\ \A y \in Executions \ {x} : execution'[y] = execution[y]
    BY <2>1 DEF ExecutionPlaces, ExecutionRecords
  <2>3. shellEnv' = execution[x].given /\ shellEnv' \in Envs
    BY <1>7, <2>1 DEF PutEnv, ExecutionRecords
  <2> QED
    BY <1>7, <2>2, <2>3 DEF PutEnv, ShellTypes, fileVars
<1>8. CASE HostRuns(x)
  BY <1>8 DEF HostRuns, ShellTypes, fileVars, ExecutionPlaces, ExecutionRecords, EnvInHand, ExecAt
<1> QED
  BY <1>1, <1>2, <1>3, <1>4, <1>5, <1>6, <1>7, <1>8

\* What a step of a command leaves as it is, of all others and of the file.
LEMMA CommandKeeps ==
    ASSUME ShellInv, NEW x \in Executions, ShellTypes', UNCHANGED fileVars,
           \A y \in Executions \ {x} : execution'[y] = execution[y],
           uninformed \subseteq uninformed', crowded \subseteq crowded',
           InExecute(x)' => \A y \in Executions \ {x} : InExecute(y) => x \in crowded' /\ y \in crowded',
           execution'[x].spawned = (IF execution'[x].at = "over" THEN 1 ELSE 0),
           x \notin uninformed' /\ InExecute(x)' =>
               ~envTorn /\ \A k \in EnvKeys \ Protected : execution'[x].due[k] = intended[k],
           execution'[x].at = "over" \/ ~execution'[x].jailed,
           x \notin crowded' => /\ execution'[x].at \in {"refreshed", "jail", "host"} => ~shellEnv'.mapped
                                /\ execution'[x].at = "mapping" => execution'[x].given = MappedEnv(shellEnv')
                                /\ execution'[x].at = "mapped" => shellEnv'.mapped,
           x \notin crowded' /\ x \notin uninformed' /\ InExecute(x)' => HoldsDue(shellEnv, x)',
           x \notin crowded' /\ execution'[x].at = "over" => (execution'[x].given.mapped <=> MapsPaths /\ ~execution'[x].jailed),
           x \notin crowded' /\ x \notin uninformed' /\ execution'[x].at = "over" => HoldsDue(execution[x].given, x)',
           shellEnv' = shellEnv \/ InExecute(x)'
    PROVE  ShellInv'
<1> USE DEF ShellInv
<1>1. FileInHand'
  BY DEF FileInHand, FileKeeps, FileValue, ValueIn, fileVars
<1>2. \A y \in Executions \ {x} : InExecute(y) /\ y \notin crowded' => shellEnv' = shellEnv
  OBVIOUS
<1>3. EnvInHand'
  <2>1. \A y \in Executions : /\ execution'[y].spawned = (IF execution'[y].at = "over" THEN 1 ELSE 0)
                               /\ (execution'[y].at = "over" \/ ~execution'[y].jailed)
    BY DEF EnvInHand, ExecAt
  <2>2. \A y, z \in Executions : InExecute(y)' /\ InExecute(z)' /\ y # z => y \in crowded'
    BY DEF EnvInHand, InExecute
  <2>3. ASSUME NEW y \in Executions \ crowded'
        PROVE  /\ execution'[y].at \in {"refreshed", "jail", "host"} => ~shellEnv'.mapped
               /\ execution'[y].at = "mapping" => execution'[y].given = MappedEnv(shellEnv')
               /\ execution'[y].at = "mapped" => shellEnv'.mapped
    BY <1>2 DEF EnvInHand, InExecute, ExecAt
  <2>4. \A y \in Executions \ uninformed' : InExecute(y)' =>
          ~envTorn' /\ \A k \in EnvKeys \ Protected : execution'[y].due[k] = intended'[k]
    BY DEF EnvInHand, InExecute, fileVars
  <2>5. ASSUME NEW y \in Executions \ (crowded' \cup uninformed'), InExecute(y)' PROVE HoldsDue(shellEnv, y)'
    BY <2>5, <1>2 DEF EnvInHand, InExecute, HoldsDue, fileVars
  <2> QED
    BY <2>1, <2>2, <2>3, <2>4, <2>5 DEF EnvInHand, ExecAt
<1>4. EnvFits'
  BY DEF EnvFits, Spawned, ExecAt
<1>5. EnvFollows'
  <2> SUFFICES ASSUME NEW y \in Executions \ (crowded' \cup uninformed'), execution'[y].at = "over"
               PROVE  HoldsDue(execution[y].given, y)'
    BY DEF EnvFollows, Spawned, ExecAt, HoldsDue
  <2>1. CASE y = x
    BY <2>1
  <2>2. CASE y # x
    BY <2>2 DEF EnvFollows, Spawned, ExecAt, HoldsDue, fileVars
  <2> QED
    BY <2>1, <2>2
<1> QED
  BY <1>1, <1>3, <1>4, <1>5

\* Reading the file into the attribute.
LEMMA Refreshed ==
    ASSUME ShellInv, NEW x \in Executions, NEW place \in {"refreshed", "host"}, Refresh(x, place),
           UNCHANGED fileVars
    PROVE  /\ uninformed \subseteq uninformed' /\ ~shellEnv'.mapped /\ execution'[x].at = place
           /\ execution'[x].jailed = execution[x].jailed /\ execution'[x].spawned = execution[x].spawned
           /\ x \notin uninformed' => ~envTorn /\ \A k \in EnvKeys \ (Protected \cup unintended) :
                                                       shellEnv'.values[k] = intended[k]
           /\ execution'[x].due = IF ExecAt(x, "idle") THEN [k \in EnvKeys \ Protected |-> intended[k]]
                                  ELSE execution[x].due
<1>1. PICK readable \in BOOLEAN :
        /\ shellEnv' = [values |-> WorkspaceEnv(readable), mapped |-> FALSE]
        /\ uninformed' = IF readable /\ ~envTorn THEN uninformed ELSE uninformed \cup {x}
  BY DEF Refresh
<1> DEFINE d == IF ExecAt(x, "idle") THEN [k \in EnvKeys \ Protected |-> intended[k]] ELSE execution[x].due
<1>2. execution' = [execution EXCEPT ![x].at = place, ![x].due = d]
  BY DEF Refresh, ShellInv, ShellTypes
<1>3. /\ execution'[x].at = place /\ execution'[x].due = d
      /\ execution'[x].jailed = execution[x].jailed /\ execution'[x].spawned = execution[x].spawned
  <2> HIDE DEF d
  <2> QED
    BY <1>2 DEF ShellInv, ShellTypes, ExecutionRecords
<1>4. x \notin uninformed' => ~envTorn /\ readable
  BY <1>1
<1>5. ASSUME x \notin uninformed', NEW k \in EnvKeys \ (Protected \cup unintended) PROVE shellEnv'.values[k] = intended[k]
  <2>1. shellEnv'.values = WorkspaceEnv(readable)
    BY <1>1
  <2>2. WorkspaceEnv(readable)[k] = FileValue(k)
    BY <1>4, <1>5 DEF WorkspaceEnv
  <2> QED
    BY <1>4, <1>5, <2>1, <2>2 DEF ShellInv, FileInHand, FileKeeps
<1> QED
  BY <1>1, <1>3, <1>4, <1>5

LEMMA BeginKeeps ==
    ASSUME ShellInv, NEW x \in Executions, BeginExecute(x)
    PROVE  ShellInv'
<1>1. ShellTypes' /\ UNCHANGED fileVars /\ \A y \in Executions \ {x} : execution'[y] = execution[y]
  BY CommandTypes
<1>2. Refresh(x, "refreshed") /\ ExecAt(x, "idle")
  BY DEF BeginExecute
<1>3. crowded \subseteq crowded' /\ \A y \in Executions \ {x} : InExecute(y) => x \in crowded' /\ y \in crowded'
  BY DEF BeginExecute
<1>4. /\ uninformed \subseteq uninformed' /\ ~shellEnv'.mapped /\ execution'[x].at = "refreshed"
      /\ execution'[x].jailed = execution[x].jailed /\ execution'[x].spawned = execution[x].spawned
      /\ x \notin uninformed' => ~envTorn /\ \A k \in EnvKeys \ (Protected \cup unintended) :
                                                  shellEnv'.values[k] = intended[k]
      /\ execution'[x].due = [k \in EnvKeys \ Protected |-> intended[k]]
  <2>1. "refreshed" \in {"refreshed", "host"}
    OBVIOUS
  <2> QED
    BY <1>1, <1>2, <2>1, Refreshed
<1>5. execution[x].spawned = 0 /\ ~execution[x].jailed
  BY <1>2 DEF ShellInv, EnvInHand, ExecAt
<1>6. x \notin uninformed' => ~envTorn /\ (\A k \in EnvKeys \ Protected : execution'[x].due[k] = intended[k])
                             /\ HoldsDue(shellEnv, x)'
  BY <1>1, <1>4 DEF HoldsDue, fileVars
<1>7. InExecute(x)'
  BY <1>4 DEF InExecute
<1> QED
  BY <1>1, <1>3, <1>4, <1>5, <1>6, <1>7, CommandKeeps

\* What a command knows of itself while it is under way.
LEMMA UnderWayFacts ==
    ASSUME ShellInv, NEW x \in Executions, InExecute(x)
    PROVE  /\ execution[x].spawned = 0 /\ ~execution[x].jailed /\ execution[x].at # "over"
           /\ \A y \in Executions \ {x} : InExecute(y) => x \in crowded /\ y \in crowded
           /\ x \notin uninformed => ~envTorn /\ \A k \in EnvKeys \ Protected : execution[x].due[k] = intended[k]
           /\ x \notin crowded /\ x \notin uninformed => HoldsDue(shellEnv, x)
BY DEF ShellInv, EnvInHand, InExecute, ExecAt

LEMMA AgainKeeps ==
    ASSUME ShellInv, NEW x \in Executions, JailIsGone(x) \/ RunOnHost(x)
    PROVE  ShellInv'
<1>1. ShellTypes' /\ UNCHANGED fileVars /\ \A y \in Executions \ {x} : execution'[y] = execution[y]
  BY CommandTypes
<1>2. Refresh(x, "host") /\ InExecute(x) /\ ~ExecAt(x, "idle") /\ UNCHANGED crowded
  BY DEF JailIsGone, RunOnHost, ExecAt, InExecute
<1>3. /\ uninformed \subseteq uninformed' /\ ~shellEnv'.mapped /\ execution'[x].at = "host"
      /\ execution'[x].jailed = execution[x].jailed /\ execution'[x].spawned = execution[x].spawned
      /\ x \notin uninformed' => ~envTorn /\ \A k \in EnvKeys \ (Protected \cup unintended) :
                                                  shellEnv'.values[k] = intended[k]
      /\ execution'[x].due = execution[x].due
  <2>1. "host" \in {"refreshed", "host"}
    OBVIOUS
  <2> QED
    BY <1>1, <1>2, <2>1, Refreshed
<1>4. InExecute(x)'
  BY <1>3 DEF InExecute
<1>5. x \notin uninformed' => ~envTorn /\ (\A k \in EnvKeys \ Protected : execution'[x].due[k] = intended[k])
                             /\ HoldsDue(shellEnv, x)'
  BY <1>1, <1>2, <1>3, UnderWayFacts DEF HoldsDue, fileVars
<1> QED
  BY <1>1, <1>2, <1>3, <1>4, <1>5, UnderWayFacts, CommandKeeps

LEMMA InJailKeeps ==
    ASSUME ShellInv, NEW x \in Executions, RunInJail(x)
    PROVE  ShellInv'
<1>1. ShellTypes' /\ UNCHANGED fileVars /\ \A y \in Executions \ {x} : execution'[y] = execution[y]
  BY CommandTypes
<1>2. InExecute(x) /\ UNCHANGED <<shellEnv, crowded, uninformed>> /\ execution[x].at = "refreshed"
  BY DEF RunInJail, ExecAt, InExecute
<1>3. /\ execution'[x].at = "jail" /\ execution'[x].jailed = execution[x].jailed
      /\ execution'[x].spawned = execution[x].spawned /\ execution'[x].due = execution[x].due
  BY DEF RunInJail, ShellInv, ShellTypes, ExecutionRecords
<1>4. InExecute(x)'
  BY <1>3 DEF InExecute
<1>5. x \notin crowded /\ x \notin uninformed => HoldsDue(shellEnv, x)'
  BY <1>1, <1>2, <1>3, UnderWayFacts DEF HoldsDue, fileVars
<1>6. x \notin crowded => ~shellEnv.mapped
  BY <1>2 DEF ShellInv, EnvInHand
<1> QED
  BY <1>1, <1>2, <1>3, <1>4, <1>5, <1>6, UnderWayFacts, CommandKeeps

LEMMA MapKeeps ==
    ASSUME ShellInv, NEW x \in Executions, MapEnv(x)
    PROVE  ShellInv'
<1>1. ShellTypes' /\ UNCHANGED fileVars /\ \A y \in Executions \ {x} : execution'[y] = execution[y]
  BY CommandTypes
<1>2. InExecute(x) /\ UNCHANGED <<shellEnv, crowded, uninformed>>
  BY DEF MapEnv, ExecAt, InExecute
<1>3. /\ execution'[x].at = "mapping" /\ execution'[x].given = MappedEnv(shellEnv)
      /\ execution'[x].jailed = execution[x].jailed
      /\ execution'[x].spawned = execution[x].spawned /\ execution'[x].due = execution[x].due
  <2> DEFINE e == MappedEnv(shellEnv)
  <2>1. execution' = [execution EXCEPT ![x].at = "mapping", ![x].given = e]
    BY DEF MapEnv
  <2> HIDE DEF e
  <2>2. /\ execution'[x].at = "mapping" /\ execution'[x].given = e
        /\ execution'[x].jailed = execution[x].jailed
        /\ execution'[x].spawned = execution[x].spawned /\ execution'[x].due = execution[x].due
    BY <2>1 DEF ShellInv, ShellTypes, ExecutionRecords
  <2> QED
    BY <2>2 DEF e
<1>4. InExecute(x)'
  BY <1>3 DEF InExecute
<1>5. x \notin crowded /\ x \notin uninformed => HoldsDue(shellEnv, x)'
  BY <1>1, <1>2, <1>3, UnderWayFacts DEF HoldsDue, fileVars
<1>6. execution'[x].given = MappedEnv(shellEnv')
  BY <1>2, <1>3
<1> QED
  BY <1>1, <1>2, <1>3, <1>4, <1>5, <1>6, UnderWayFacts, CommandKeeps

LEMMA PutKeeps ==
    ASSUME ShellInv, NEW x \in Executions, PutEnv(x)
    PROVE  ShellInv'
<1>1. ShellTypes' /\ UNCHANGED fileVars /\ \A y \in Executions \ {x} : execution'[y] = execution[y]
  BY CommandTypes
<1>2. InExecute(x) /\ UNCHANGED <<crowded, uninformed>> /\ shellEnv' = execution[x].given /\ ExecAt(x, "mapping")
  BY DEF PutEnv, ExecAt, InExecute
<1>3. /\ execution'[x].at = "mapped" /\ execution'[x].jailed = execution[x].jailed
      /\ execution'[x].spawned = execution[x].spawned /\ execution'[x].due = execution[x].due
  BY DEF PutEnv, ShellInv, ShellTypes, ExecutionRecords
<1>4. InExecute(x)'
  BY <1>3 DEF InExecute
<1>5. x \notin crowded => shellEnv'.mapped /\ shellEnv'.values = shellEnv.values
  <2>1. shellEnv \in Envs
    BY DEF ShellInv, ShellTypes
  <2> QED
    BY <1>2, <2>1, MappedFacts DEF ShellInv, EnvInHand
<1>6. x \notin crowded /\ x \notin uninformed => HoldsDue(shellEnv, x)'
  BY <1>1, <1>2, <1>3, <1>5, UnderWayFacts DEF HoldsDue, fileVars
<1> QED
  BY <1>1, <1>2, <1>3, <1>4, <1>5, <1>6, UnderWayFacts, CommandKeeps

\* A command is spawned, in the jail or on the host, with what the attribute holds.
LEMMA SpawnKeeps ==
    ASSUME ShellInv, NEW x \in Executions, JailRuns(x) \/ HostRuns(x)
    PROVE  ShellInv'
<1>1. ShellTypes' /\ UNCHANGED fileVars /\ \A y \in Executions \ {x} : execution'[y] = execution[y]
  BY CommandTypes
<1>2. InExecute(x) /\ UNCHANGED <<shellEnv, crowded, uninformed>>
  BY DEF JailRuns, HostRuns, ExecAt, InExecute
<1>3. /\ execution'[x].at = "over" /\ execution'[x].given = shellEnv
      /\ execution'[x].spawned = 1 /\ execution'[x].due = execution[x].due
      /\ x \notin crowded => (shellEnv.mapped <=> MapsPaths /\ ~execution'[x].jailed)
  <2>1. execution[x].spawned = 0 /\ ~execution[x].jailed /\ execution[x].jailed \in BOOLEAN /\ shellEnv.mapped \in BOOLEAN
    BY <1>2, UnderWayFacts DEF ShellInv, ShellTypes, ExecutionRecords, Envs
  <2>2. CASE JailRuns(x)
    <3>1. /\ execution'[x].at = "over" /\ execution'[x].given = shellEnv /\ execution'[x].jailed = TRUE
          /\ execution'[x].spawned = 1 /\ execution'[x].due = execution[x].due
      BY <2>1, <2>2 DEF JailRuns, ShellInv, ShellTypes, ExecutionRecords
    <3>2. x \notin crowded => ~shellEnv.mapped
      BY <2>2 DEF JailRuns, ExecAt, ShellInv, EnvInHand
    <3> QED
      BY <2>1, <3>1, <3>2
  <2>3. CASE HostRuns(x)
    <3>1. /\ execution'[x].at = "over" /\ execution'[x].given = shellEnv /\ execution'[x].jailed = execution[x].jailed
          /\ execution'[x].spawned = 1 /\ execution'[x].due = execution[x].due
      BY <2>1, <2>3 DEF HostRuns, ShellInv, ShellTypes, ExecutionRecords
    <3>2. x \notin crowded => (shellEnv.mapped <=> MapsPaths)
      BY <2>3 DEF HostRuns, ExecAt, ShellInv, EnvInHand
    <3> QED
      BY <2>1, <3>1, <3>2
  <2> QED
    BY <2>2, <2>3
<1>4. ~InExecute(x)'
  BY <1>3 DEF InExecute
<1>5. x \notin crowded /\ x \notin uninformed => HoldsDue(execution[x].given, x)'
  BY <1>1, <1>2, <1>3, UnderWayFacts DEF HoldsDue, fileVars
<1> QED
  BY <1>1, <1>2, <1>3, <1>4, <1>5, CommandKeeps

-----------------------------------------------------------------------------
(***************************************************************************)
(* A write of the file.                                                    *)
(***************************************************************************)

\* The lines that a write has in hand, key by key.
LEMMA WrittenIsMeant ==
    ASSUME ShellInv, ~envTorn, NEW w \in EnvWrites, NEW k \in EnvKeys \ unintended, NEW readable \in BOOLEAN,
           NEW lines \in [EnvKeys -> EnvLines], NEW exports \in [EnvKeys -> EnvLines],
           lines[k] = IF Updated(w, k) THEN ValueOf[w] ELSE IF Keeps(w, k, readable) THEN Parsed(envLine[k]) ELSE NoValue,
           exports[k] = IF readable /\ MergeOf[w] THEN Parsed(exportLine[k]) ELSE NoValue,
           ~(IF Updated(w, k) THEN Parsed(ValueOf[w]) # ValueOf[w]
             ELSE /\ MergeOf[w]
                  /\ IF k \in RemoveOf[w] THEN exportLine[k] # NoValue
                     ELSE ~readable \/ Layered(envLine[k]) \/ Layered(exportLine[k]))
    PROVE  ValueIn(lines, exports, k) = IF Updated(w, k) THEN ValueOf[w]
                                        ELSE IF MergeOf[w] /\ k \notin RemoveOf[w] THEN intended[k] ELSE NoValue
<1>1. envLine[k] \in EnvLines /\ exportLine[k] \in EnvLines /\ ValueOf[w] \in EnvValues /\ NoValue \in EnvLines
  BY ShellEnvAssumption DEF ShellInv, ShellTypes, EnvLines
<1>2. Parsed(NoValue) = NoValue
  BY <1>1, ParsedFacts
<1>3. CASE Updated(w, k)
  <2>1. ValueOf[w] # NoValue
    BY <1>1, ShellEnvAssumption DEF EnvValues, NoValue
  <2> QED
    BY <1>3, <2>1 DEF ValueIn
<1>4. CASE ~Updated(w, k) /\ MergeOf[w] /\ k \notin RemoveOf[w]
  <2>1. readable /\ ~Layered(envLine[k]) /\ ~Layered(exportLine[k])
    BY <1>4
  <2>2. lines[k] = Parsed(envLine[k]) /\ exports[k] = Parsed(exportLine[k])
    BY <1>4, <2>1 DEF Keeps
  <2>3. ValueIn(lines, exports, k) = FileValue(k)
    <3>1. envLine \in [EnvKeys -> EnvLines] /\ exportLine \in [EnvKeys -> EnvLines]
      BY DEF ShellInv, ShellTypes
    <3> QED
      BY <2>1, <2>2, <3>1, ReadAgain DEF FileValue
  <2>4. FileValue(k) = intended[k]
    BY DEF ShellInv, FileInHand, FileKeeps
  <2> QED
    BY <1>4, <2>3, <2>4
<1>5. CASE ~Updated(w, k) /\ ~(MergeOf[w] /\ k \notin RemoveOf[w])
  <2>1. lines[k] = NoValue
    BY <1>5 DEF Keeps
  <2>2. exports[k] = NoValue
    BY <1>2, <1>5
  <2> QED
    BY <1>2, <1>5, <2>1, <2>2 DEF ValueIn
<1> QED
  BY <1>3, <1>4, <1>5

LEMMA BeginWriteKeeps ==
    ASSUME ShellInv, NEW w \in EnvWrites, BeginEnvWrite(w)
    PROVE  ShellInv'
<1> DEFINE Lines(readable) == [k \in EnvKeys |-> IF Updated(w, k) THEN ValueOf[w] ELSE IF Keeps(w, k, readable)
                   THEN Parsed(envLine[k]) ELSE NoValue]
           Exports(readable) == [k \in EnvKeys |-> IF readable /\ MergeOf[w] THEN Parsed(exportLine[k]) ELSE NoValue]
           Spoilt(readable, k) == IF Updated(w, k) THEN Parsed(ValueOf[w]) # ValueOf[w]
              ELSE /\ MergeOf[w]
                   /\ IF k \in RemoveOf[w] THEN exportLine[k] # NoValue
                      ELSE ~readable \/ Layered(envLine[k]) \/ Layered(exportLine[k])
<1>1. PICK readable \in BOOLEAN :
        /\ envWrite' = [envWrite EXCEPT ![w] = [at |-> "open", lines |-> Lines(readable), exports |-> Exports(readable)]]
        /\ unintended' = unintended \cup {k \in EnvKeys : Spoilt(readable, k)}
  BY DEF BeginEnvWrite
<1> DEFINE lines == Lines(readable)
           exports == Exports(readable)
<1>2. \A k \in EnvKeys : /\ envLine[k] \in EnvLines /\ exportLine[k] \in EnvLines /\ ValueOf[w] \in EnvLines
                         /\ NoValue \in EnvLines /\ Parsed(envLine[k]) \in EnvLines /\ Parsed(exportLine[k]) \in EnvLines
  BY ParsedFacts, ShellEnvAssumption DEF ShellInv, ShellTypes, EnvLines
<1>3. lines \in [EnvKeys -> EnvLines] /\ exports \in [EnvKeys -> EnvLines]
  BY <1>2
<1>4. intended' \in [EnvKeys -> EnvLines]
      /\ \A k \in EnvKeys : intended'[k] = IF Updated(w, k) THEN ValueOf[w]
                                        ELSE IF MergeOf[w] /\ k \notin RemoveOf[w] THEN intended[k] ELSE NoValue
  <2>1. \A k \in EnvKeys : intended[k] \in EnvLines
    BY DEF ShellInv, ShellTypes
  <2> QED
    BY <1>2, <2>1 DEF BeginEnvWrite
<1>5. \A k \in EnvKeys \ unintended' : ValueIn(lines, exports, k) = intended'[k]
  <2> SUFFICES ASSUME NEW k \in EnvKeys \ unintended' PROVE ValueIn(lines, exports, k) = intended'[k]
    OBVIOUS
  <2>1. k \notin unintended /\ ~Spoilt(readable, k) /\ k \in EnvKeys
    BY <1>1
  <2>2. /\ lines[k] = IF Updated(w, k) THEN ValueOf[w] ELSE IF Keeps(w, k, readable) THEN Parsed(envLine[k]) ELSE NoValue
        /\ exports[k] = IF readable /\ MergeOf[w] THEN Parsed(exportLine[k]) ELSE NoValue
    BY <2>1
  <2>3. ~envTorn
    BY DEF BeginEnvWrite
  <2> HIDE DEF lines, exports
  <2>4. ValueIn(lines, exports, k) = IF Updated(w, k) THEN ValueOf[w]
                                     ELSE IF MergeOf[w] /\ k \notin RemoveOf[w] THEN intended[k] ELSE NoValue
    BY <1>3, <2>1, <2>2, <2>3, WrittenIsMeant
  <2> QED
    BY <1>4, <2>1, <2>4
<1> HIDE DEF Lines, Exports, Spoilt, lines, exports
<1>6. envWrite' = [envWrite EXCEPT ![w] = [at |-> "open", lines |-> lines, exports |-> exports]]
      /\ unintended \subseteq unintended' /\ unintended' \subseteq EnvKeys
  BY <1>1 DEF lines, exports, ShellInv, ShellTypes
<1>7. envTorn' = TRUE /\ UNCHANGED <<envLine, exportLine, shellEnv, jail, execution, crowded>>
      /\ uninformed' = uninformed \cup {x \in Executions : InExecute(x)} /\ ~envTorn
  BY DEF BeginEnvWrite
<1>8. ShellTypes'
  BY <1>3, <1>4, <1>6, <1>7 DEF ShellInv, ShellTypes
<1>9. FileInHand'
  <2>1. \A v \in EnvWrites : envWrite[v].at # "open"
    BY <1>7 DEF ShellInv, FileInHand
  <2>2. /\ envWrite'[w].lines = lines /\ envWrite'[w].exports = exports
        /\ \A v \in EnvWrites : envWrite'[v].at = "open" => v = w
    BY <1>6, <2>1 DEF ShellInv, ShellTypes
  <2>3. ASSUME NEW v \in EnvWrites, envWrite'[v].at = "open"
        PROVE  /\ envTorn' /\ \A u \in EnvWrites : envWrite'[u].at = "open" => u = v
               /\ \A k \in EnvKeys \ unintended' : ValueIn(envWrite'[v].lines, envWrite'[v].exports, k) = intended'[k]
    BY <1>5, <1>7, <2>2, <2>3
  <2> QED
    BY <1>7, <2>3 DEF FileInHand, FileKeeps
<1>10. EnvInHand'
  <2>1. \A x \in Executions \ uninformed' : ~InExecute(x)
    BY <1>7
  <2> QED
    BY <1>7, <2>1 DEF ShellInv, EnvInHand, InExecute, ExecAt
<1>11. EnvFits'
  BY <1>7 DEF ShellInv, EnvFits, Spawned, ExecAt
<1>12. EnvFollows'
  BY <1>6, <1>7 DEF ShellInv, EnvFollows, Spawned, ExecAt
<1> QED
  BY <1>8, <1>9, <1>10, <1>11, <1>12 DEF ShellInv

LEMMA EndWriteKeeps ==
    ASSUME ShellInv, NEW w \in EnvWrites, EndEnvWrite(w)
    PROVE  ShellInv'
<1>1. /\ envWrite[w].at = "open" /\ envTorn /\ envTorn' = FALSE
      /\ envLine' = envWrite[w].lines /\ exportLine' = envWrite[w].exports
      /\ UNCHANGED <<shellEnv, jail, execution, intended, unintended, crowded, uninformed>>
      /\ envWrite' = [envWrite EXCEPT ![w].at = "over"]
  BY DEF EndEnvWrite, ShellInv, FileInHand
<1>2. ShellTypes'
  BY <1>1 DEF ShellInv, ShellTypes
<1>3. \A v \in EnvWrites : envWrite'[v].at # "open"
  BY <1>1 DEF ShellInv, ShellTypes, FileInHand
<1>4. \A k \in EnvKeys \ unintended' : FileValue(k)' = intended'[k]
  BY <1>1 DEF ShellInv, FileInHand, FileValue, ValueIn
<1>5. FileInHand'
  BY <1>3, <1>4 DEF FileInHand, FileKeeps
<1>6. EnvInHand'
  <2>1. \A x \in Executions \ uninformed : ~InExecute(x)
    BY <1>1 DEF ShellInv, EnvInHand
  <2> QED
    BY <1>1, <2>1 DEF ShellInv, EnvInHand, InExecute, ExecAt
<1>7. EnvFits' /\ EnvFollows'
  BY <1>1 DEF ShellInv, EnvFits, EnvFollows, Spawned, ExecAt
<1> QED
  BY <1>2, <1>5, <1>6, <1>7 DEF ShellInv

-----------------------------------------------------------------------------
LEMMA ShellInvariance == ShellSpec => []ShellInv
<1>1. ASSUME ShellInv, [ShellNext]_envVars PROVE ShellInv'
  <2>1. CASE UNCHANGED envVars
    <3>1. UNCHANGED <<envLine, exportLine, envTorn, shellEnv, jail, execution, envWrite, intended, unintended,
                      crowded, uninformed>>
      BY <2>1 DEF envVars
    <3>2. ShellTypes'
      BY <1>1, <3>1 DEF ShellInv, ShellTypes
    <3>3. FileInHand'
      BY <1>1, <3>1 DEF ShellInv, FileInHand, FileKeeps, FileValue, ValueIn
    <3>4. EnvInHand'
      BY <1>1, <3>1 DEF ShellInv, EnvInHand, InExecute, ExecAt, HoldsDue
    <3>5. EnvFits' /\ EnvFollows'
      BY <1>1, <3>1 DEF ShellInv, EnvFits, EnvFollows, Spawned, ExecAt
    <3> QED
      BY <3>2, <3>3, <3>4, <3>5 DEF ShellInv
  <2>2. ASSUME NEW x \in Executions,
               BeginExecute(x) \/ RunInJail(x) \/ JailRuns(x) \/ JailIsGone(x) \/ RunOnHost(x) \/ MapEnv(x)
               \/ PutEnv(x) \/ HostRuns(x)
        PROVE  ShellInv'
    BY <1>1, <2>2, BeginKeeps, InJailKeeps, SpawnKeeps, AgainKeeps, MapKeeps, PutKeeps
  <2>3. ASSUME NEW w \in EnvWrites, BeginEnvWrite(w) \/ EndEnvWrite(w) PROVE ShellInv'
    BY <1>1, <2>3, BeginWriteKeeps, EndWriteKeeps
  <2> QED
    BY <1>1, <2>1, <2>2, <2>3 DEF ShellNext
<1> QED
  BY <1>1, ShellStarts, PTL DEF ShellSpec

\* Commands, writes, the attribute and the lines of the file keep their types.
THEOREM ShellTypeCorrect == ShellSpec => []ShellTypeOK
<1>1. ShellInv => ShellTypeOK
  BY DEF ShellInv, ShellTypes, ShellTypeOK, ExecutionRecords, ExecutionPlaces, Envs
<1> QED
  BY <1>1, ShellInvariance, PTL

\* A command gets the paths of where it runs, and each key as the writes before
\* it left it; the file keeps what no write was told to change: for any
\* commands, writes and keys, with the exceptions that ShellHolds names.
THEOREM ShellKept == ShellSpec => []ShellHolds
<1>1. ShellInv => ShellHolds
  BY DEF ShellInv, ShellHolds, FileInHand
<1> QED
  BY <1>1, ShellInvariance, PTL

-----------------------------------------------------------------------------
(***************************************************************************)
(* BrowserTabs: one browser, many calls.                                   *)
(***************************************************************************)

LEMMA LeastOf ==
    ASSUME NEW S \in SUBSET Nat, S # {}
    PROVE  \E x \in S : \A y \in S : x <= y
<1> DEFINE R == OpToRel(<, Nat)
<1>1. PICK x \in S : \A y \in S : ~(<<y, x>> \in R)
  BY NatLessThanWellFounded, WFMin
<1>2. \A y \in Nat, z \in Nat : <<y, z>> \in R <=> y < z
  BY DEF OpToRel
<1> HIDE DEF R
<1>3. \A y \in S : ~(y < x)
  BY <1>1, <1>2
<1> QED
  BY <1>1, <1>3

LEMMA GreatestOf ==
    ASSUME NEW n \in Nat, NEW S \in SUBSET (1..n), S # {}
    PROVE  \E x \in S : \A y \in S : y <= x
<1> DEFINE T == {n - i : i \in S}
<1>1. T \in SUBSET Nat /\ T # {}
  <2>1. \A i \in S : n - i \in Nat
    OBVIOUS
  <2> QED
    BY <2>1
<1>2. PICK t \in T : \A u \in T : t <= u
  <2> HIDE DEF T
  <2> QED
    BY <1>1, LeastOf
<1>3. PICK x \in S : t = n - x
  OBVIOUS
<1>4. \A y \in S : n - x <= n - y
  BY <1>2, <1>3
<1> QED
  BY <1>3, <1>4

-----------------------------------------------------------------------------
TabPages  == Pages \cup {BlankPage, GoneTab}
Outcomes  == {"none", "opened", "reused", "closed", "seen", "failed"}
Browsing  == [at : {"idle", "listing", "switching", "opening", "ended"}, list : Seq(TabPages), next : Nat, result : Outcomes]

BrowserTypes ==
    /\ tabs \in Seq(TabPages) /\ front \in 0..Len(tabs) /\ touches \in 0..MaxTouches
    /\ browsing \in [Browsings -> Browsing]
    /\ recent \in Seq(Browsings) /\ recorded \in Seq(Browsings)
    /\ disturbed \subseteq Browsings /\ excused \subseteq Pages

\* The history holds no more than its bound, and than there was.
RecentBound == Len(recent) <= HistoryMax /\ Len(recent) <= Len(recorded)

\* Some tab shows what is asked for.
Shows(p) == \E i \in TabIds : Satisfies(tabs[i], p)

\* What a call has learnt of the tabs is so, unless it was disturbed: while it
\* switches, the tabs are those it listed, and a page it has tried in vain to
\* bring to the front may be open twice; when it opens the page no tab shows
\* it, or it may be open twice too.
ListAt(b) ==
    /\ Len(browsing[b].list) <= Len(tabs)
    /\ BrowseAt(b, "switching") \/ BrowseAt(b, "listing") => Opens(b)
    /\ BrowseAt(b, "idle") \/ BrowseAt(b, "listing") => browsing[b].next = 1
    /\ BrowseAt(b, "switching") /\ b \notin disturbed =>
          /\ browsing[b].list = tabs
          /\ \A i \in TabIds : i < browsing[b].next /\ Satisfies(tabs[i], PageOf[b]) => PageOf[b] \in excused
    /\ BrowseAt(b, "opening") /\ Opens(b) /\ b \notin disturbed => PageOf[b] \in excused \/ ~Shows(PageOf[b])

ListHolds == \A b \in Browsings : ListAt(b)

\* A call that is in the history has ended.
EndHolds == \A i \in DOMAIN recorded : BrowseAt(recorded[i], "ended")

BrowserInv == BrowserTypes /\ RecentBound /\ ListHolds /\ EndHolds /\ TabsReused

-----------------------------------------------------------------------------
\* The history of the answers, and the calls that have ended, after one more ends.
LEMMA EndKeeps ==
    ASSUME BrowserTypes, RecentBound, EndHolds, HistoryIsRecent,
           NEW b \in Browsings, NEW r \in Outcomes, EndBrowse(b, r)
    PROVE  /\ browsing' \in [Browsings -> Browsing]
           /\ browsing'[b] = [at |-> "ended", list |-> <<>>, next |-> 1, result |-> r]
           /\ \A c \in Browsings : c # b => browsing'[c] = browsing[c]
           /\ recent' \in Seq(Browsings) /\ recorded' \in Seq(Browsings)
           /\ recorded' # <<>> /\ recorded'[Len(recorded')] = b
           /\ RecentBound' /\ EndHolds' /\ HistoryIsRecent'
<1> DEFINE e == [at |-> "ended", list |-> <<>>, next |-> 1, result |-> r]
<1>1. e \in Browsing /\ e.at = "ended"
  BY DEF Browsing
<1>2. browsing' = [browsing EXCEPT ![b] = e]
  BY DEF EndBrowse
<1>3. browsing \in [Browsings -> Browsing] /\ recent \in Seq(Browsings) /\ recorded \in Seq(Browsings)
  BY DEF BrowserTypes
<1> DEFINE s == Append(recent, b)
           n == Len(recorded)
           m == Len(recent)
<1>4. /\ s \in Seq(Browsings) /\ Len(s) = m + 1 /\ s[m + 1] = b
      /\ \A i \in 1..m : s[i] = recent[i]
  BY <1>3
<1>5. /\ recorded' = Append(recorded, b) /\ recorded' \in Seq(Browsings) /\ Len(recorded') = n + 1
      /\ recorded'[n + 1] = b /\ recorded' # <<>>
      /\ \A i \in 1..n : recorded'[i] = recorded[i]
  <2>1. recorded' = Append(recorded, b)
    BY DEF EndBrowse
  <2>2. /\ Append(recorded, b) \in Seq(Browsings) /\ Len(Append(recorded, b)) = n + 1
        /\ Append(recorded, b)[n + 1] = b
        /\ \A i \in 1..n : Append(recorded, b)[i] = recorded[i]
    BY <1>3
  <2>3. Append(recorded, b) # <<>>
    BY <1>3, <2>2
  <2> QED
    BY <2>1, <2>2, <2>3
<1>6. m \in Nat /\ n \in Nat /\ m <= HistoryMax /\ m <= n /\ HistoryMax \in Nat \ {0}
  BY <1>3, BrowserTabsAssumption DEF RecentBound
<1>7. \A i \in 1..m : recent[i] = recorded[n - m + i]
  BY <1>3 DEF HistoryIsRecent
<1>8. recent' = Bounded(s)
  BY DEF EndBrowse
<1> HIDE DEF e, s, n, m
<1>9. /\ recent' \in Seq(Browsings) /\ Len(recent') <= HistoryMax /\ Len(recent') <= n + 1
      /\ \A i \in 1..Len(recent') : recent'[i] = recorded'[n + 1 - Len(recent') + i]
  <2>1. CASE m + 1 <= HistoryMax
    <3>1. recent' = s
      BY <1>4, <1>6, <1>8, <2>1 DEF Bounded
    <3>2. ASSUME NEW i \in 1..(m + 1)
          PROVE  s[i] = recorded'[n + 1 - (m + 1) + i]
      <4>1. CASE i = m + 1
        <5>1. n + 1 - (m + 1) + i = n + 1
          BY <1>6, <4>1
        <5> QED
          BY <1>4, <1>5, <4>1, <5>1
      <4>2. CASE i # m + 1
        <5>1. i \in 1..m /\ n - m + i \in 1..n /\ n + 1 - (m + 1) + i = n - m + i
          BY <1>6, <4>2
        <5>2. s[i] = recorded[n - m + i]
          BY <1>4, <1>7, <5>1
        <5>3. recorded'[n - m + i] = recorded[n - m + i]
          BY <1>5, <5>1
        <5> QED
          BY <5>1, <5>2, <5>3
      <4> QED
        BY <4>1, <4>2
    <3>3. recent' \in Seq(Browsings) /\ Len(recent') = m + 1
      BY <1>4, <3>1
    <3>4. ASSUME NEW i \in 1..(m + 1)
          PROVE  recent'[i] = recorded'[n + 1 - (m + 1) + i]
      BY <3>1, <3>2
    <3> QED
      BY <1>6, <2>1, <3>3, <3>4
  <2>2. CASE ~(m + 1 <= HistoryMax)
    <3>1. m = HistoryMax
      BY <1>6, <2>2
    <3>2. recent' = SubSeq(s, 2, m + 1)
      <4>1. Len(s) > HistoryMax /\ Len(s) - HistoryMax + 1 = 2 /\ Len(s) = m + 1
        BY <1>4, <1>6, <3>1
      <4> QED
        BY <1>8, <4>1 DEF Bounded
    <3>3. /\ SubSeq(s, 2, m + 1) \in Seq(Browsings) /\ Len(SubSeq(s, 2, m + 1)) = m
          /\ \A i \in 1..m : SubSeq(s, 2, m + 1)[i] = s[i + 1]
      <4>1. \A i \in 2..(m + 1) : i \in 1..Len(s)
        BY <1>4, <1>6
      <4> QED
        BY <1>4, <1>6, <4>1, SubSeqProperties
    <3>4. ASSUME NEW i \in 1..m
          PROVE  s[i + 1] = recorded'[n + 1 - m + i]
      <4>1. CASE i = m
        <5>1. n + 1 - m + i = n + 1
          BY <1>6, <4>1
        <5> QED
          BY <1>4, <1>5, <4>1, <5>1
      <4>2. CASE i # m
        <5>1. i + 1 \in 1..m /\ n - m + (i + 1) \in 1..n /\ n + 1 - m + i = n - m + (i + 1)
          BY <1>6, <4>2
        <5>2. s[i + 1] = recorded[n - m + (i + 1)]
          BY <1>4, <1>7, <5>1
        <5>3. recorded'[n - m + (i + 1)] = recorded[n - m + (i + 1)]
          BY <1>5, <5>1
        <5> QED
          BY <5>1, <5>2, <5>3
      <4> QED
        BY <4>1, <4>2
    <3>5. recent' \in Seq(Browsings) /\ Len(recent') = m
      BY <3>2, <3>3
    <3>6. ASSUME NEW i \in 1..m
          PROVE  recent'[i] = recorded'[n + 1 - m + i]
      <4>1. recent'[i] = s[i + 1]
        BY <3>2, <3>3
      <4> QED
        BY <3>4, <4>1
    <3> QED
      BY <1>6, <3>5, <3>6
  <2> QED
    BY <2>1, <2>2
<1>10. RecentBound'
  BY <1>5, <1>9 DEF RecentBound
<1>11. HistoryIsRecent'
  <2>1. DOMAIN recent' = 1..Len(recent') /\ Len(recorded') = n + 1
    BY <1>5, <1>9
  <2>2. ASSUME NEW i \in DOMAIN recent'
        PROVE  recent'[i] = recorded'[Len(recorded') - Len(recent') + i]
    <3>1. i \in 1..Len(recent')
      BY <2>1
    <3>2. recent'[i] = recorded'[n + 1 - Len(recent') + i]
      BY <1>9, <3>1
    <3>3. Len(recorded') - Len(recent') + i = n + 1 - Len(recent') + i
      BY <1>6, <1>9, <2>1, <3>1
    <3> QED
      BY <3>2, <3>3
  <2> QED
    BY <2>2 DEF HistoryIsRecent
<1>12. /\ browsing' \in [Browsings -> Browsing] /\ browsing'[b] = e
       /\ \A c \in Browsings : c # b => browsing'[c] = browsing[c]
  BY <1>1, <1>2, <1>3
<1>13. EndHolds'
  <2> SUFFICES ASSUME NEW i \in 1..(n + 1)
               PROVE  browsing'[recorded'[i]].at = "ended"
    BY <1>5 DEF EndHolds, BrowseAt, Step
  <2>1. CASE recorded'[i] = b
    BY <1>1, <1>12, <2>1
  <2>2. CASE recorded'[i] # b
    <3>1. i \in 1..n
      BY <1>5, <1>6, <2>2
    <3>2. recorded'[i] = recorded[i] /\ recorded[i] \in Browsings
      BY <1>3, <1>5, <3>1 DEF n
    <3>3. browsing[recorded[i]].at = "ended"
      BY <1>3, <3>1 DEF EndHolds, BrowseAt, Step, n
    <3> QED
      BY <1>12, <2>2, <3>2, <3>3
  <2> QED
    BY <2>1, <2>2
<1> QED
  BY <1>5, <1>9, <1>10, <1>11, <1>12, <1>13 DEF e

\* A call that did not take the step still knows what it has learnt, or it was disturbed.
LEMMA OthersKeep ==
    ASSUME BrowserTypes, NEW c \in Browsings, ListAt(c), browsing'[c] = browsing[c], tabs' \in Seq(TabPages),
           disturbed \subseteq disturbed', excused \subseteq excused',
           \/ tabs' = tabs
           \/ Len(tabs) <= Len(tabs') /\ (Browses(c) => c \in disturbed')
    PROVE  ListAt(c)'
<1>1. Len(browsing'[c].list) <= Len(tabs')
  <2>1. browsing[c].list \in Seq(TabPages) /\ tabs \in Seq(TabPages)
    BY DEF BrowserTypes, Browsing
  <2>2. Len(tabs) \in Nat /\ Len(tabs') \in Nat /\ Len(browsing[c].list) \in Nat
    BY <2>1
  <2>3. Len(browsing[c].list) <= Len(tabs) /\ Len(tabs) <= Len(tabs')
    BY <2>2 DEF ListAt
  <2> QED
    BY <2>2, <2>3
<1>2. CASE tabs' = tabs
  BY <1>1, <1>2 DEF ListAt, BrowseAt, Step, Opens, Shows, TabIds, Satisfies
<1>3. CASE tabs' # tabs
  <2>1. Browses(c) => c \in disturbed'
    BY <1>3
  <2> QED
    BY <1>1, <2>1 DEF ListAt, BrowseAt, Step, Opens, Browses
<1> QED
  BY <1>2, <1>3

\* A call that has ended has learnt nothing that matters any more.
LEMMA EndedKeeps ==
    ASSUME BrowserTypes, NEW b \in Browsings, browsing'[b].at = "ended", browsing'[b].list = <<>>, tabs' \in Seq(TabPages)
    PROVE  ListAt(b)'
BY DEF ListAt, BrowseAt, Step

-----------------------------------------------------------------------------
LEMMA BrowserInit_ == BrowserInit => BrowserInv
<1> SUFFICES ASSUME BrowserInit PROVE BrowserInv
  OBVIOUS
<1>1. BrowserTypes
  BY BrowserTabsAssumption DEF BrowserInit, BrowserTypes, Browsing, Outcomes, TabPages
<1>2. RecentBound /\ EndHolds /\ HistoryIsRecent /\ AskedIsInFront
  BY BrowserTabsAssumption DEF BrowserInit, RecentBound, EndHolds, HistoryIsRecent, AskedIsInFront
<1>3. ListHolds
  BY DEF BrowserInit, ListHolds, ListAt, BrowseAt, Step
<1>4. NoDuplicates /\ FrontIsOpen
  BY DEF BrowserInit, NoDuplicates, FrontIsOpen, TabIds, BlankPage, GoneTab
<1> QED
  BY <1>1, <1>2, <1>3, <1>4 DEF BrowserInv, TabsReused

\* The calls other than the one that took the step know what they did.
LEMMA StepKeepsOthers ==
    ASSUME BrowserTypes, ListHolds, NEW b \in Browsings, tabs' \in Seq(TabPages),
           \A c \in Browsings : c # b => browsing'[c] = browsing[c],
           disturbed \subseteq disturbed', excused \subseteq excused',
           \/ tabs' = tabs
           \/ Len(tabs) <= Len(tabs') /\ \A c \in Browsings : c # b /\ Browses(c) => c \in disturbed',
           ListAt(b)'
    PROVE  ListHolds'
<1>1. ASSUME NEW c \in Browsings, c # b
      PROVE  ListAt(c)'
  BY <1>1, OthersKeep DEF ListHolds
<1> QED
  BY <1>1 DEF ListHolds

\* A step that is not the end of a call leaves the histories alone.
LEMMA RunningKeeps ==
    ASSUME BrowserTypes, RecentBound, EndHolds, HistoryIsRecent, AskedIsInFront, FrontIsOpen, NoDuplicates,
           NEW b \in Browsings, ~BrowseAt(b, "ended"), \A c \in Browsings : c # b => browsing'[c] = browsing[c],
           tabs' = tabs, front' = front, touches' = touches, recent' = recent, recorded' = recorded,
           disturbed' = disturbed, excused \subseteq excused'
    PROVE  RecentBound' /\ EndHolds' /\ TabsReused'
<1>1. \A i \in DOMAIN recorded : recorded[i] \in Browsings /\ recorded[i] # b
  BY DEF BrowserTypes, EndHolds, BrowseAt, Step
<1>2. EndHolds'
  BY <1>1 DEF EndHolds, BrowseAt, Step
<1>3. ASSUME recorded # <<>>
      PROVE  Len(recorded) \in DOMAIN recorded
  BY <1>3 DEF BrowserTypes
<1>4. AskedIsInFront'
  <2>1. CASE recorded = <<>>
    BY <2>1 DEF AskedIsInFront
  <2>2. CASE recorded # <<>>
    <3>1. browsing'[recorded[Len(recorded)]] = browsing[recorded[Len(recorded)]]
      BY <1>1, <1>3, <2>2
    <3> QED
      BY <2>2, <3>1 DEF AskedIsInFront, Satisfies
  <2> QED
    BY <2>1, <2>2
<1>5. NoDuplicates'
  BY DEF NoDuplicates, TabIds
<1>6. FrontIsOpen' /\ HistoryIsRecent' /\ RecentBound'
  BY DEF FrontIsOpen, HistoryIsRecent, RecentBound
<1> QED
  BY <1>2, <1>4, <1>5, <1>6 DEF TabsReused

LEMMA Browse_ ==
    ASSUME BrowserInv, NEW b \in Browsings, Browse(b)
    PROVE  BrowserInv'
<1> DEFINE place == IF Opens(b) THEN "listing" ELSE "opening"
<1>1. /\ BrowserTypes /\ ListHolds /\ RecentBound /\ EndHolds /\ TabsReused
      /\ NoDuplicates /\ FrontIsOpen /\ AskedIsInFront /\ HistoryIsRecent
  BY DEF BrowserInv, TabsReused
<1>2. browsing' = [browsing EXCEPT ![b] = [browsing[b] EXCEPT !.at = place]]
  BY DEF Browse
<1>3. browsing[b] \in Browsing /\ browsing[b].at = "idle" /\ browsing[b].next = 1
  BY <1>1 DEF BrowserTypes, Browse, BrowseAt, Step, ListHolds, ListAt
<1>4. place \in {"listing", "opening"} /\ (place = "listing" <=> Opens(b))
  OBVIOUS
<1> HIDE DEF place
<1> DEFINE e == [browsing[b] EXCEPT !.at = place]
<1>5. e \in Browsing /\ e.at = place /\ e.list = browsing[b].list /\ e.next = 1
  BY <1>3, <1>4 DEF Browsing
<1> HIDE DEF e
<1>6. /\ browsing' \in [Browsings -> Browsing] /\ browsing'[b] = e
      /\ \A c \in Browsings : c # b => browsing'[c] = browsing[c]
  <2>1. browsing' = [browsing EXCEPT ![b] = e]
    BY <1>2 DEF e
  <2> QED
    BY <1>1, <1>5, <2>1 DEF BrowserTypes
<1>7. tabs' = tabs /\ front' = front /\ recent' = recent /\ recorded' = recorded /\ touches' = touches
      /\ disturbed' = disturbed /\ excused' = excused
  BY DEF Browse
<1>8. BrowserTypes'
  BY <1>1, <1>6, <1>7 DEF BrowserTypes
<1>9. ListAt(b)'
  <2>1. Len(browsing[b].list) <= Len(tabs)
    BY <1>1 DEF ListHolds, ListAt
  <2> QED
    BY <1>4, <1>5, <1>6, <1>7, <2>1 DEF ListAt, BrowseAt, Step, Opens
<1>10. ListHolds'
  BY <1>1, <1>6, <1>7, <1>9, StepKeepsOthers DEF BrowserTypes
<1>11. RecentBound' /\ EndHolds' /\ TabsReused'
  BY <1>1, <1>3, <1>6, <1>7, RunningKeeps DEF BrowseAt, Step
<1> QED
  BY <1>8, <1>10, <1>11 DEF BrowserInv

\* A call that ends without having touched a tab.
LEMMA EndsQuietly ==
    ASSUME BrowserInv, NEW b \in Browsings, ~BrowseAt(b, "ended"), NEW r \in Outcomes \ {"opened", "reused"},
           EndBrowse(b, r), tabs' = tabs, front' = front, touches' = touches, disturbed' = disturbed,
           excused' = excused
    PROVE  BrowserInv'
<1>1. /\ BrowserTypes /\ ListHolds /\ RecentBound /\ EndHolds /\ TabsReused
      /\ NoDuplicates /\ FrontIsOpen /\ AskedIsInFront /\ HistoryIsRecent
  BY DEF BrowserInv, TabsReused
<1>2. /\ browsing' \in [Browsings -> Browsing]
      /\ browsing'[b] = [at |-> "ended", list |-> <<>>, next |-> 1, result |-> r]
      /\ \A c \in Browsings : c # b => browsing'[c] = browsing[c]
      /\ recent' \in Seq(Browsings) /\ recorded' \in Seq(Browsings)
      /\ recorded' # <<>> /\ recorded'[Len(recorded')] = b
      /\ RecentBound' /\ EndHolds' /\ HistoryIsRecent'
  BY <1>1, EndKeeps
<1>3. BrowserTypes'
  BY <1>1, <1>2 DEF BrowserTypes
<1>4. ListHolds'
  <2>1. ListAt(b)'
    <3>1. browsing'[b].at = "ended" /\ browsing'[b].list = <<>>
      BY <1>2
    <3>2. tabs' \in Seq(TabPages)
      BY <1>1 DEF BrowserTypes
    <3> QED
      BY <1>1, <3>1, <3>2, EndedKeeps
  <2> QED
    BY <1>1, <1>2, <2>1, StepKeepsOthers DEF BrowserTypes
<1>5. AskedIsInFront'
  BY <1>2 DEF AskedIsInFront
<1>6. NoDuplicates' /\ FrontIsOpen'
  BY <1>1 DEF NoDuplicates, FrontIsOpen, TabIds
<1> QED
  BY <1>2, <1>3, <1>4, <1>5, <1>6 DEF BrowserInv, TabsReused

LEMMA ListTabs_ ==
    ASSUME BrowserInv, NEW b \in Browsings, ListTabs(b)
    PROVE  BrowserInv'
<1>1. /\ BrowserTypes /\ ListHolds /\ RecentBound /\ EndHolds /\ TabsReused
      /\ NoDuplicates /\ FrontIsOpen /\ AskedIsInFront /\ HistoryIsRecent
  BY DEF BrowserInv, TabsReused
<1>2. /\ browsing[b] \in Browsing /\ browsing[b].at = "listing" /\ browsing[b].next = 1 /\ Opens(b)
      /\ browsing \in [Browsings -> Browsing] /\ ~BrowseAt(b, "ended")
  BY <1>1 DEF BrowserTypes, ListTabs, BrowseAt, Step, ListHolds, ListAt
<1>3. tabs' = tabs /\ front' = front /\ touches' = touches /\ disturbed' = disturbed /\ tabs \in Seq(TabPages)
  BY <1>1 DEF ListTabs, BrowserTypes
<1>4. CASE /\ browsing' = [browsing EXCEPT ![b].at = "switching", ![b].list = tabs]
           /\ UNCHANGED <<recent, recorded, excused>>
  <2> DEFINE d == [browsing[b] EXCEPT !.at = "switching"]
  <2>1. d \in Browsing /\ d.at = "switching" /\ d.next = 1
    BY <1>2 DEF Browsing
  <2>2. browsing' = [browsing EXCEPT ![b] = [d EXCEPT !.list = tabs]]
    BY <1>2, <1>4
  <2> HIDE DEF d
  <2> DEFINE e == [d EXCEPT !.list = tabs]
  <2>3. e \in Browsing /\ e.at = "switching" /\ e.list = tabs /\ e.next = 1
    BY <1>3, <2>1 DEF Browsing
  <2> HIDE DEF e
  <2>4. /\ browsing' \in [Browsings -> Browsing] /\ browsing'[b] = e
        /\ \A c \in Browsings : c # b => browsing'[c] = browsing[c]
    <3>1. browsing' = [browsing EXCEPT ![b] = e]
      BY <2>2 DEF e
    <3> QED
      BY <1>2, <2>3, <3>1
  <2>5. BrowserTypes'
    BY <1>1, <1>3, <1>4, <2>4 DEF BrowserTypes
  <2>6. ListAt(b)'
    <3>1. \A i \in TabIds : ~(i < 1)
      BY <1>3 DEF TabIds
    <3> QED
      BY <1>2, <1>3, <2>3, <2>4, <3>1 DEF ListAt, BrowseAt, Step, Opens, TabIds
  <2>7. ListHolds'
    BY <1>1, <1>3, <1>4, <2>4, <2>6, StepKeepsOthers
  <2>8. RecentBound' /\ EndHolds' /\ TabsReused'
    BY <1>1, <1>2, <1>3, <1>4, <2>4, RunningKeeps
  <2> QED
    BY <2>5, <2>7, <2>8 DEF BrowserInv
<1>5. CASE /\ browsing' = [browsing EXCEPT ![b].at = "opening"]
           /\ excused' = excused \cup LandsOn[PageOf[b]]
           /\ UNCHANGED <<recent, recorded>>
  <2> DEFINE e == [browsing[b] EXCEPT !.at = "opening"]
  <2>1. e \in Browsing /\ e.at = "opening" /\ e.list = browsing[b].list
    BY <1>2 DEF Browsing
  <2>2. browsing' = [browsing EXCEPT ![b] = e]
    BY <1>5
  <2> HIDE DEF e
  <2>3. /\ browsing' \in [Browsings -> Browsing] /\ browsing'[b] = e
        /\ \A c \in Browsings : c # b => browsing'[c] = browsing[c]
    BY <1>2, <2>1, <2>2
  <2>4. PageOf[b] \in Pages /\ PageOf[b] \in LandsOn[PageOf[b]] /\ LandsOn[PageOf[b]] \subseteq Pages
    BY <1>2, BrowserTabsAssumption DEF Opens
  <2>5. BrowserTypes'
    BY <1>1, <1>3, <1>5, <2>3, <2>4 DEF BrowserTypes
  <2>6. ListAt(b)'
    <3>1. Len(browsing[b].list) <= Len(tabs) /\ PageOf[b] \in excused'
      BY <1>1, <1>5, <2>4 DEF ListHolds, ListAt
    <3> QED
      BY <1>3, <2>1, <2>3, <3>1 DEF ListAt, BrowseAt, Step
  <2>7. excused \subseteq excused'
    BY <1>5
  <2>8. ListHolds'
    BY <1>1, <1>3, <2>3, <2>6, <2>7, StepKeepsOthers
  <2>9. RecentBound' /\ EndHolds' /\ TabsReused'
    BY <1>1, <1>2, <1>3, <1>5, <2>3, <2>7, RunningKeeps
  <2> QED
    BY <2>5, <2>8, <2>9 DEF BrowserInv
<1>6. CASE EndBrowse(b, "failed") /\ UNCHANGED excused
  BY <1>2, <1>3, <1>6, EndsQuietly DEF Outcomes
<1> QED
  BY <1>4, <1>5, <1>6 DEF ListTabs

\* A call that ends having touched a tab: the others are disturbed.
LEMMA EndsHavingActed ==
    ASSUME BrowserInv, NEW b \in Browsings, ~BrowseAt(b, "ended"), NEW r \in Outcomes, EndBrowse(b, r), Disturbs(b),
           tabs' \in Seq(TabPages), Len(tabs) <= Len(tabs'), front' \in 0..Len(tabs'), touches' = touches,
           excused' \subseteq Pages, excused \subseteq excused', NoDuplicates', FrontIsOpen',
           r \in {"opened", "reused"} /\ b \notin disturbed =>
               Satisfies(tabs'[front'], PageOf[b]) \/ tabs'[front'] \in LandsOn[PageOf[b]]
    PROVE  BrowserInv'
<1>1. BrowserTypes /\ ListHolds /\ RecentBound /\ EndHolds /\ HistoryIsRecent
  BY DEF BrowserInv, TabsReused
<1>2. /\ browsing' \in [Browsings -> Browsing]
      /\ browsing'[b] = [at |-> "ended", list |-> <<>>, next |-> 1, result |-> r]
      /\ \A c \in Browsings : c # b => browsing'[c] = browsing[c]
      /\ recent' \in Seq(Browsings) /\ recorded' \in Seq(Browsings)
      /\ recorded' # <<>> /\ recorded'[Len(recorded')] = b
      /\ RecentBound' /\ EndHolds' /\ HistoryIsRecent'
  BY <1>1, EndKeeps
<1>3. /\ disturbed' \subseteq Browsings /\ disturbed \subseteq disturbed' /\ (b \in disturbed' => b \in disturbed)
      /\ \A c \in Browsings : c # b /\ Browses(c) => c \in disturbed'
  BY <1>1 DEF Disturbs, BrowserTypes
<1>4. BrowserTypes'
  BY <1>1, <1>2, <1>3 DEF BrowserTypes
<1>5. ListHolds'
  <2>1. browsing'[b].at = "ended" /\ browsing'[b].list = <<>> /\ browsing'[b].result = r
    BY <1>2
  <2>2. ListAt(b)'
    BY <1>1, <2>1, EndedKeeps
  <2> QED
    BY <1>1, <1>2, <1>3, <2>2, StepKeepsOthers
<1>6. AskedIsInFront'
  <2>1. browsing'[b].result = r
    BY <1>2
  <2>2. r \in {"opened", "reused"} /\ b \notin disturbed' =>
            Satisfies(tabs'[front'], PageOf[b]) \/ tabs'[front'] \in LandsOn[PageOf[b]]
    BY <1>3
  <2> QED
    BY <1>2, <2>1, <2>2 DEF AskedIsInFront, Satisfies
<1> QED
  BY <1>2, <1>4, <1>5, <1>6 DEF BrowserInv, TabsReused

LEMMA SwitchTab_ ==
    ASSUME BrowserInv, NEW b \in Browsings, SwitchTab(b)
    PROVE  BrowserInv'
<1>1. /\ BrowserTypes /\ ListHolds /\ RecentBound /\ EndHolds /\ TabsReused
      /\ NoDuplicates /\ FrontIsOpen /\ AskedIsInFront /\ HistoryIsRecent
  BY DEF BrowserInv, TabsReused
<1>2. /\ browsing[b] \in Browsing /\ browsing[b].at = "switching" /\ Opens(b) /\ ListAt(b)
      /\ browsing \in [Browsings -> Browsing] /\ ~BrowseAt(b, "ended")
      /\ browsing[b].list \in Seq(TabPages) /\ browsing[b].next \in Nat /\ Len(browsing[b].list) <= Len(tabs)
  <2>1. browsing \in [Browsings -> Browsing] /\ browsing[b] \in Browsing /\ ListAt(b)
    BY <1>1 DEF BrowserTypes, ListHolds
  <2>2. browsing[b].at = "switching"
    BY DEF SwitchTab, BrowseAt, Step
  <2> QED
    BY <2>1, <2>2 DEF ListAt, BrowseAt, Step, Browsing
<1>3. tabs' = tabs /\ touches' = touches /\ tabs \in Seq(TabPages)
  BY <1>1 DEF SwitchTab, BrowserTypes
<1>4. PageOf[b] \in Pages /\ PageOf[b] \in LandsOn[PageOf[b]] /\ LandsOn[PageOf[b]] \subseteq Pages
  BY <1>2, BrowserTabsAssumption DEF Opens
<1> DEFINE fits == {i \in DOMAIN browsing[b].list : i >= browsing[b].next /\ Satisfies(browsing[b].list[i], PageOf[b])}
<1>5. Candidate(b) = IF fits = {} THEN 0 ELSE CHOOSE i \in fits : \A j \in fits : i <= j
  BY DEF Candidate
<1>6. fits \in SUBSET Nat
  BY <1>2
<1>7. Candidate(b) # 0 => Candidate(b) \in fits /\ \A j \in fits : Candidate(b) <= j
  <2> HIDE DEF fits
  <2>1. CASE fits # {}
    <3>1. \E i \in fits : \A j \in fits : i <= j
      BY <1>6, <2>1, LeastOf
    <3> QED
      BY <1>5, <2>1, <3>1
  <2> QED
    BY <1>5, <2>1
<1>8. Candidate(b) = 0 => fits = {}
  <2>1. 0 \notin fits
    BY <1>2
  <2> HIDE DEF fits
  <2>2. CASE fits # {}
    <3>1. \E i \in fits : \A j \in fits : i <= j
      BY <1>6, <2>2, LeastOf
    <3> QED
      BY <1>5, <2>1, <2>2, <3>1
  <2> QED
    BY <2>2
<1> DEFINE i == Candidate(b)
<1>9. i # 0 => /\ i \in 1..Len(browsing[b].list) /\ i \in 1..Len(tabs) /\ i \in Nat
               /\ Satisfies(browsing[b].list[i], PageOf[b])
  BY <1>2, <1>3, <1>7
\* A tab before the candidate does not show the page, or it has been tried.
<1>10. ASSUME b \notin disturbed, NEW j \in TabIds, Satisfies(tabs[j], PageOf[b]), i # 0 => j < i
       PROVE  PageOf[b] \in excused
  <2>1. browsing[b].list = tabs
    BY <1>2, <1>10 DEF ListAt, BrowseAt, Step
  <2>2. j \in fits \/ j < browsing[b].next
    BY <1>2, <1>3, <1>10, <2>1 DEF TabIds
  <2>3. j \notin fits
    <3> HIDE DEF fits
    <3>1. CASE i = 0
      BY <1>8, <3>1
    <3>2. CASE i # 0
      <4>1. j \in fits => i <= j
        BY <1>7, <3>2
      <4>2. j \in Nat /\ i \in Nat /\ j < i
        BY <1>3, <1>9, <1>10, <3>2 DEF TabIds
      <4> QED
        BY <4>1, <4>2
    <3> QED
      BY <3>1, <3>2
  <2> QED
    BY <1>2, <1>10, <2>2, <2>3 DEF ListAt, BrowseAt, Step
<1> HIDE DEF fits, i
<1>11. CASE /\ i = 0
            /\ browsing' = [browsing EXCEPT ![b].at = "opening"]
            /\ UNCHANGED <<front, recent, recorded, disturbed, excused>>
  <2> DEFINE e == [browsing[b] EXCEPT !.at = "opening"]
  <2>1. e \in Browsing /\ e.at = "opening" /\ e.list = browsing[b].list
    BY <1>2 DEF Browsing
  <2>2. browsing' = [browsing EXCEPT ![b] = e]
    BY <1>11
  <2> HIDE DEF e
  <2>3. /\ browsing' \in [Browsings -> Browsing] /\ browsing'[b] = e
        /\ \A c \in Browsings : c # b => browsing'[c] = browsing[c]
    BY <1>2, <2>1, <2>2
  <2>4. BrowserTypes'
    BY <1>1, <1>3, <1>11, <2>3 DEF BrowserTypes
  <2>5. ListAt(b)'
    <3>1. b \notin disturbed => PageOf[b] \in excused \/ ~Shows(PageOf[b])
      BY <1>10, <1>11 DEF Shows
    <3>2. (~Shows(PageOf[b]))' <=> ~Shows(PageOf[b])
      BY <1>3 DEF Shows, TabIds, Satisfies
    <3> QED
      BY <1>2, <1>3, <1>11, <2>1, <2>3, <3>1, <3>2 DEF ListAt, BrowseAt, Step
  <2>6. ListHolds'
    BY <1>1, <1>3, <1>11, <2>3, <2>5, StepKeepsOthers
  <2>7. RecentBound' /\ EndHolds' /\ TabsReused'
    BY <1>1, <1>2, <1>3, <1>11, <2>3, RunningKeeps
  <2> QED
    BY <2>4, <2>6, <2>7 DEF BrowserInv
<1>12. ASSUME NEW switched \in BOOLEAN, i # 0, switched => tabs[i] # GoneTab,
              IF Reuses(switched)
                THEN /\ front' = IF switched THEN i ELSE front
                     /\ EndBrowse(b, "reused") /\ Disturbs(b) /\ UNCHANGED excused
                ELSE /\ browsing' = [browsing EXCEPT ![b].next = i + 1]
                     /\ excused' = excused \cup LandsOn[PageOf[b]]
                     /\ UNCHANGED <<front, recent, recorded, disturbed>>
       PROVE  BrowserInv'
  <2>1. CASE switched
    <3>1. front' = i /\ EndBrowse(b, "reused") /\ Disturbs(b) /\ excused' = excused /\ tabs[i] # GoneTab
      BY <1>12, <2>1 DEF Reuses
    <3>2. front' \in 0..Len(tabs') /\ Len(tabs) <= Len(tabs')
      BY <1>3, <1>9, <1>12, <3>1
    <3>3. NoDuplicates'
      BY <1>1, <1>3, <3>1 DEF NoDuplicates, TabIds
    <3>4. FrontIsOpen'
      BY <1>3, <3>1 DEF FrontIsOpen
    <3>5. b \notin disturbed => Satisfies(tabs'[front'], PageOf[b])
      <4>1. b \notin disturbed => browsing[b].list = tabs
        BY <1>2 DEF ListAt, BrowseAt, Step
      <4> QED
        BY <1>3, <1>9, <1>12, <3>1, <4>1
    <3>6. "reused" \in Outcomes /\ excused' \subseteq Pages
      BY <1>1, <3>1 DEF Outcomes, BrowserTypes
    <3> QED
      BY <1>2, <1>3, <3>1, <3>2, <3>3, <3>4, <3>5, <3>6, EndsHavingActed
  <2>2. CASE ~switched
    <3>1. /\ browsing' = [browsing EXCEPT ![b].next = i + 1]
          /\ excused' = excused \cup LandsOn[PageOf[b]]
          /\ UNCHANGED <<front, recent, recorded, disturbed>>
      BY <1>12, <2>2 DEF Reuses
    <3> DEFINE e == [browsing[b] EXCEPT !.next = i + 1]
    <3>2. e \in Browsing /\ e.at = "switching" /\ e.list = browsing[b].list /\ e.next = i + 1
      BY <1>2, <1>9, <1>12 DEF Browsing
    <3>3. browsing' = [browsing EXCEPT ![b] = e]
      BY <3>1
    <3> HIDE DEF e
    <3>4. /\ browsing' \in [Browsings -> Browsing] /\ browsing'[b] = e
          /\ \A c \in Browsings : c # b => browsing'[c] = browsing[c]
      BY <1>2, <3>2, <3>3
    <3>5. BrowserTypes'
      BY <1>1, <1>3, <1>4, <3>1, <3>4 DEF BrowserTypes
    <3>6. excused \subseteq excused' /\ PageOf[b] \in excused'
      BY <1>4, <3>1
    <3>7. ListAt(b)'
      BY <1>2, <1>3, <3>1, <3>2, <3>4, <3>6 DEF ListAt, BrowseAt, Step, Opens, TabIds
    <3>8. ListHolds'
      BY <1>1, <1>3, <3>1, <3>4, <3>6, <3>7, StepKeepsOthers
    <3>9. RecentBound' /\ EndHolds' /\ TabsReused'
      BY <1>1, <1>2, <1>3, <3>1, <3>4, <3>6, RunningKeeps
    <3> QED
      BY <3>5, <3>8, <3>9 DEF BrowserInv
  <2> QED
    BY <2>1, <2>2
<1> QED
  BY <1>11, <1>12 DEF SwitchTab, i

\* A page is opened in a tab: in a new one or in that in front.
LEMMA LandKeeps ==
    ASSUME BrowserInv, NEW b \in Browsings, BrowseAt(b, "opening"), Opens(b), NEW i \in 1..(Len(tabs) + 1),
           NEW page \in LandsOn[PageOf[b]], Land(b, i, page)
    PROVE  /\ tabs' \in Seq(TabPages) /\ Len(tabs) <= Len(tabs') /\ front' \in 1..Len(tabs')
           /\ tabs'[front'] = page /\ excused' \subseteq Pages /\ excused \subseteq excused'
           /\ NoDuplicates' /\ FrontIsOpen'
<1>1. BrowserTypes /\ ListAt(b) /\ NoDuplicates /\ tabs \in Seq(TabPages)
  BY DEF BrowserInv, TabsReused, ListHolds, BrowserTypes
<1>2. page \in Pages /\ page \in TabPages /\ page # GoneTab /\ page # BlankPage
  BY BrowserTabsAssumption DEF Opens, TabPages
<1> DEFINE n == IF i > Len(tabs) THEN i ELSE Len(tabs)
<1>3. n \in Nat /\ i \in 1..n /\ Len(tabs) <= n /\ \A j \in 1..n : j # i => j \in 1..Len(tabs)
  BY <1>1
<1>4. tabs' = [j \in 1..n |-> IF j = i THEN page ELSE tabs[j]]
  BY DEF Land
<1> HIDE DEF n
<1>5. \A j \in 1..n : (IF j = i THEN page ELSE tabs[j]) \in TabPages
  BY <1>1, <1>2, <1>3
<1>6. tabs' \in Seq(TabPages) /\ Len(tabs') = n
  BY <1>3, <1>4, <1>5
<1>7. tabs'[i] = page /\ \A j \in 1..n : j # i => tabs'[j] = tabs[j]
  BY <1>3, <1>4
<1>8. front' = i
  BY DEF Land
<1>9. excused' = IF page # PageOf[b] \/ b \in disturbed THEN excused \cup {page} ELSE excused
  BY DEF Land
<1>10. excused \subseteq excused' /\ excused' \subseteq Pages
  BY <1>1, <1>2, <1>9 DEF BrowserTypes
\* What b opens is nowhere else, or it may be open twice.
<1>11. ASSUME NEW j \in 1..n, j # i, tabs'[j] = page
       PROVE  page \in excused'
  <2>1. CASE page # PageOf[b] \/ b \in disturbed
    BY <1>9, <2>1
  <2>2. CASE page = PageOf[b] /\ b \notin disturbed
    <3>1. j \in TabIds /\ tabs[j] = page
      BY <1>1, <1>3, <1>7, <1>11 DEF TabIds
    <3>2. Shows(PageOf[b])
      BY <1>2, <2>2, <3>1 DEF Shows, Satisfies
    <3>3. PageOf[b] \in excused
      BY <1>1, <2>2, <3>2 DEF ListAt
    <3> QED
      BY <1>10, <2>2, <3>3
  <2> QED
    BY <2>1, <2>2
<1>12. NoDuplicates'
  <2> SUFFICES ASSUME NEW j \in 1..n, NEW k \in 1..n, j # k, tabs'[j] = tabs'[k]
               PROVE  tabs'[j] \in {BlankPage, GoneTab} \cup excused'
    BY <1>6 DEF NoDuplicates, TabIds
  <2>1. CASE j = i
    BY <1>7, <1>11, <2>1
  <2>2. CASE k = i
    BY <1>7, <1>11, <2>2
  <2>3. CASE j # i /\ k # i
    <3>1. j \in TabIds /\ k \in TabIds /\ tabs[j] = tabs[k] /\ tabs'[j] = tabs[j]
      BY <1>1, <1>3, <1>7, <2>3 DEF TabIds
    <3>2. tabs[j] \in {BlankPage, GoneTab} \cup excused
      BY <1>1, <3>1 DEF NoDuplicates
    <3> QED
      BY <1>10, <3>1, <3>2
  <2> QED
    BY <2>1, <2>2, <2>3
<1>13. FrontIsOpen'
  BY <1>2, <1>7, <1>8 DEF FrontIsOpen
<1> QED
  BY <1>3, <1>6, <1>7, <1>8, <1>10, <1>12, <1>13

LEMMA OpenPage_ ==
    ASSUME BrowserInv, NEW b \in Browsings, OpenPage(b)
    PROVE  BrowserInv'
<1>1. BrowserTypes /\ tabs \in Seq(TabPages) /\ front \in 0..Len(tabs)
  BY DEF BrowserInv, BrowserTypes
<1>2. BrowseAt(b, "opening") /\ Opens(b) /\ ~BrowseAt(b, "ended") /\ touches' = touches
  BY DEF OpenPage, BrowseAt
<1>3. ASSUME NEW page \in LandsOn[PageOf[b]], NEW i \in 1..(Len(tabs) + 1), Land(b, i, page),
             EndBrowse(b, "opened"), Disturbs(b)
      PROVE  BrowserInv'
  <2>1. /\ tabs' \in Seq(TabPages) /\ Len(tabs) <= Len(tabs') /\ front' \in 1..Len(tabs')
        /\ tabs'[front'] = page /\ excused' \subseteq Pages /\ excused \subseteq excused'
        /\ NoDuplicates' /\ FrontIsOpen'
    BY <1>2, <1>3, LandKeeps
  <2>2. "opened" \in Outcomes /\ front' \in 0..Len(tabs')
    BY <2>1 DEF Outcomes
  <2> QED
    BY <1>2, <1>3, <2>1, <2>2, EndsHavingActed
<1>4. CASE EndBrowse(b, "failed") /\ UNCHANGED <<tabs, front, disturbed, excused>>
  BY <1>2, <1>4, EndsQuietly DEF Outcomes
<1>5. ASSUME NEW page \in LandsOn[PageOf[b]], EndBrowse(b, "opened"), Disturbs(b),
             IF ActionOf[b] = "new_tab" \/ front = 0
               THEN Len(tabs) < MaxTabs /\ Land(b, Len(tabs) + 1, page)
               ELSE Land(b, front, page)
      PROVE  BrowserInv'
  <2>1. CASE ActionOf[b] = "new_tab" \/ front = 0
    <3>1. Len(tabs) + 1 \in 1..(Len(tabs) + 1)
      BY <1>1
    <3> QED
      BY <1>3, <1>5, <2>1, <3>1
  <2>2. CASE ~(ActionOf[b] = "new_tab" \/ front = 0)
    <3>1. front \in 1..(Len(tabs) + 1)
      BY <1>1, <2>2
    <3> QED
      BY <1>3, <1>5, <2>2, <3>1
  <2> QED
    BY <2>1, <2>2
<1> QED
  BY <1>4, <1>5 DEF OpenPage

LEMMA CloseTab_ ==
    ASSUME BrowserInv, NEW b \in Browsings, CloseTab(b)
    PROVE  BrowserInv'
<1>1. BrowserTypes /\ tabs \in Seq(TabPages) /\ front \in 0..Len(tabs) /\ NoDuplicates /\ FrontIsOpen /\ excused \subseteq Pages
  BY DEF BrowserInv, BrowserTypes, TabsReused
<1>2. ~BrowseAt(b, "ended") /\ touches' = touches /\ excused' = excused
  BY DEF CloseTab, BrowseAt
<1>3. ASSUME NEW i \in TabIds, tabs[i] # GoneTab, tabs' = [tabs EXCEPT ![i] = GoneTab], front' = NextFront(i),
             EndBrowse(b, "closed"), Disturbs(b)
      PROVE  BrowserInv'
  <2>1. GoneTab \in TabPages /\ i \in 1..Len(tabs)
    BY <1>1 DEF TabPages, TabIds
  <2>2. /\ tabs' \in Seq(TabPages) /\ Len(tabs') = Len(tabs) /\ tabs'[i] = GoneTab
        /\ \A j \in 1..Len(tabs) : j # i => tabs'[j] = tabs[j]
    BY <1>1, <1>3, <2>1
  <2>3. NoDuplicates'
    <3> SUFFICES ASSUME NEW j \in 1..Len(tabs), NEW k \in 1..Len(tabs), j # k, tabs'[j] = tabs'[k]
                 PROVE  tabs'[j] \in {BlankPage, GoneTab} \cup excused'
      BY <2>2 DEF NoDuplicates, TabIds
    <3>1. CASE j = i \/ k = i
      BY <2>2, <3>1
    <3>2. CASE j # i /\ k # i
      <4>1. tabs[j] = tabs[k] /\ tabs'[j] = tabs[j] /\ j \in TabIds /\ k \in TabIds
        BY <1>1, <2>2, <3>2 DEF TabIds
      <4> QED
        BY <1>1, <1>2, <4>1 DEF NoDuplicates
    <3> QED
      BY <3>1, <3>2
  <2> DEFINE left == {j \in TabIds \ {i} : tabs[j] # GoneTab}
  <2>4. left \in SUBSET Nat /\ \A j \in left : j \in 1..Len(tabs) /\ j # i /\ tabs[j] # GoneTab
    BY <1>1 DEF TabIds
  <2>5. front' = IF front # i THEN front ELSE IF left = {} THEN 0 ELSE CHOOSE j \in left : \A k \in left : k <= j
    BY <1>3 DEF NextFront
  <2>6. front' \in left \/ front' = 0 \/ (front' = front /\ front # i)
    <3> HIDE DEF left
    <3>1. left # {} => \E j \in left : \A k \in left : k <= j
      <4>1. Len(tabs) \in Nat /\ left \in SUBSET (1..Len(tabs))
        BY <1>1, <2>4
      <4> QED
        BY <4>1, GreatestOf
    <3> QED
      BY <2>5, <3>1
  <2> HIDE DEF left
  <2>7. front' \in 0..Len(tabs') /\ Len(tabs) <= Len(tabs') /\ FrontIsOpen'
    <3>1. Len(tabs) \in Nat
      BY <1>1
    <3>2. CASE front' \in left
      <4>1. front' \in 1..Len(tabs) /\ front' # i /\ tabs[front'] # GoneTab
        BY <2>4, <3>2
      <4>2. tabs'[front'] = tabs[front']
        BY <2>2, <4>1
      <4> QED
        BY <2>2, <3>1, <4>1, <4>2 DEF FrontIsOpen
    <3>3. CASE front' = 0
      BY <2>2, <3>1, <3>3 DEF FrontIsOpen
    <3>4. CASE front' = front /\ front # i /\ front # 0
      <4>1. tabs'[front] = tabs[front] /\ front \in 1..Len(tabs)
        BY <1>1, <2>2, <3>4
      <4> QED
        BY <1>1, <2>2, <3>1, <3>4, <4>1 DEF FrontIsOpen
    <3> QED
      BY <2>6, <3>2, <3>3, <3>4
  <2>8. "closed" \in Outcomes /\ excused' \subseteq Pages /\ excused \subseteq excused'
    BY <1>1, <1>2 DEF Outcomes
  <2> QED
    BY <1>2, <1>3, <2>2, <2>3, <2>7, <2>8, EndsHavingActed
<1>4. CASE EndBrowse(b, "failed") /\ UNCHANGED <<tabs, front, disturbed>>
  BY <1>2, <1>4, EndsQuietly DEF Outcomes
<1> QED
  BY <1>3, <1>4 DEF CloseTab

LEMMA LookAt_ ==
    ASSUME BrowserInv, NEW b \in Browsings, LookAt(b)
    PROVE  BrowserInv'
<1> DEFINE r == IF front = 0 THEN "failed" ELSE "seen"
<1>1. r \in Outcomes \ {"opened", "reused"} /\ ~BrowseAt(b, "ended") /\ EndBrowse(b, r)
  BY DEF LookAt, BrowseAt, Outcomes
<1> HIDE DEF r
<1> QED
  BY <1>1, EndsQuietly DEF LookAt

LEMMA UserOpens_ ==
    ASSUME BrowserInv, UserOpens
    PROVE  BrowserInv'
<1>1. /\ BrowserTypes /\ ListHolds /\ RecentBound /\ EndHolds /\ NoDuplicates /\ FrontIsOpen /\ HistoryIsRecent
      /\ tabs \in Seq(TabPages) /\ front \in 1..Len(tabs)
  BY DEF BrowserInv, TabsReused, UserOpens, BrowserTypes
<1>2. PICK page \in Pages : tabs' = [tabs EXCEPT ![front] = page] /\ excused' = excused \cup {page}
  BY DEF UserOpens
<1>3. page \in TabPages /\ page # GoneTab
  BY BrowserTabsAssumption DEF TabPages
<1>4. /\ tabs' \in Seq(TabPages) /\ Len(tabs') = Len(tabs) /\ tabs'[front] = page
      /\ \A j \in 1..Len(tabs) : j # front => tabs'[j] = tabs[j]
  BY <1>1, <1>2, <1>3
<1>5. /\ front' = front /\ browsing' = browsing /\ recent' = recent /\ recorded' = recorded /\ touches' = touches + 1
      /\ disturbed' = disturbed \cup {c \in Browsings : Browses(c)} /\ touches' \in 1..MaxTouches
  BY <1>1, BrowserTabsAssumption DEF UserOpens, BrowserTypes
<1>6. BrowserTypes'
  BY <1>1, <1>2, <1>4, <1>5 DEF BrowserTypes
<1>7. ListHolds'
  <2> SUFFICES ASSUME NEW c \in Browsings
               PROVE  ListAt(c)'
    BY DEF ListHolds
  <2>1. ListAt(c) /\ browsing'[c] = browsing[c]
    BY <1>1, <1>5 DEF ListHolds
  <2>2. disturbed \subseteq disturbed' /\ excused \subseteq excused' /\ (Browses(c) => c \in disturbed') /\ Len(tabs) <= Len(tabs')
    BY <1>1, <1>2, <1>4, <1>5
  <2> QED
    BY <1>1, <1>4, <2>1, <2>2, OthersKeep
<1>8. RecentBound' /\ EndHolds' /\ HistoryIsRecent'
  BY <1>1, <1>5 DEF RecentBound, EndHolds, HistoryIsRecent, BrowseAt, Step
<1>9. NoDuplicates'
  <2> SUFFICES ASSUME NEW j \in 1..Len(tabs), NEW k \in 1..Len(tabs), j # k, tabs'[j] = tabs'[k]
               PROVE  tabs'[j] \in {BlankPage, GoneTab} \cup excused'
    BY <1>4 DEF NoDuplicates, TabIds
  <2>1. CASE j = front \/ k = front
    BY <1>2, <1>4, <2>1
  <2>2. CASE j # front /\ k # front
    <3>1. tabs[j] = tabs[k] /\ tabs'[j] = tabs[j] /\ j \in TabIds /\ k \in TabIds
      BY <1>1, <1>4, <2>2 DEF TabIds
    <3> QED
      BY <1>1, <1>2, <3>1 DEF NoDuplicates
  <2> QED
    BY <2>1, <2>2
<1>10. FrontIsOpen' /\ AskedIsInFront'
  BY <1>3, <1>4, <1>5 DEF FrontIsOpen, AskedIsInFront
<1> QED
  BY <1>6, <1>7, <1>8, <1>9, <1>10 DEF BrowserInv, TabsReused

-----------------------------------------------------------------------------
LEMMA BrowserSteps ==
    ASSUME BrowserInv, [BrowserNext]_browserVars
    PROVE  BrowserInv'
<1>1. CASE UserOpens
  BY <1>1, UserOpens_
<1>2. ASSUME NEW b \in Browsings, Browse(b) PROVE BrowserInv'
  BY <1>2, Browse_
<1>3. ASSUME NEW b \in Browsings, ListTabs(b) PROVE BrowserInv'
  BY <1>3, ListTabs_
<1>4. ASSUME NEW b \in Browsings, SwitchTab(b) PROVE BrowserInv'
  BY <1>4, SwitchTab_
<1>5. ASSUME NEW b \in Browsings, OpenPage(b) PROVE BrowserInv'
  BY <1>5, OpenPage_
<1>6. ASSUME NEW b \in Browsings, CloseTab(b) PROVE BrowserInv'
  BY <1>6, CloseTab_
<1>7. ASSUME NEW b \in Browsings, LookAt(b) PROVE BrowserInv'
  BY <1>7, LookAt_
<1>8. CASE UNCHANGED browserVars
  <2>1. BrowserTypes' /\ RecentBound' /\ EndHolds'
    BY <1>8 DEF BrowserInv, browserVars, BrowserTypes, RecentBound, EndHolds, BrowseAt, Step
  <2>2. ListHolds'
    BY <1>8 DEF BrowserInv, browserVars, ListHolds, ListAt, BrowseAt, Step, Opens, Shows, TabIds, Satisfies
  <2>3. TabsReused'
    BY <1>8 DEF BrowserInv, browserVars, TabsReused, NoDuplicates, FrontIsOpen, AskedIsInFront, HistoryIsRecent,
                TabIds, Satisfies
  <2> QED
    BY <2>1, <2>2, <2>3 DEF BrowserInv
<1> QED
  BY <1>1, <1>2, <1>3, <1>4, <1>5, <1>6, <1>7, <1>8 DEF BrowserNext

LEMMA BrowserAlways == BrowserSpec => []BrowserInv
<1>1. BrowserInit => BrowserInv
  BY BrowserInit_
<1>2. BrowserInv /\ [BrowserNext]_browserVars => BrowserInv'
  BY BrowserSteps
<1> QED
  BY <1>1, <1>2, PTL DEF BrowserSpec

\* The tabs, the calls and the history of the browser tool are of their types,
\* and the history keeps to its bound (browser_use, _record_history).
THEOREM BrowserTypeCorrect == BrowserSpec => []BrowserTypeOK
<1>1. BrowserInv => BrowserTypeOK
  BY DEF BrowserInv, BrowserTypes, BrowserTypeOK, RecentBound, TabPages, TabIds, Browsing, Outcomes
<1> QED
  BY <1>1, BrowserAlways, PTL

\* A page is not opened twice, the tab in front is one that is open and shows
\* what the last call asked for, and the history of an answer is that of the
\* last calls, whatever the calls and the user do to each other's tabs.
THEOREM TabsAreReused == BrowserSpec => []TabsReused
<1>1. BrowserInv => TabsReused
  BY DEF BrowserInv
<1> QED
  BY <1>1, BrowserAlways, PTL
=============================================================================
