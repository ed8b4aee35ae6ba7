----------------------------- MODULE MemoryStore -----------------------------
(***************************************************************************)
(* The process-wide store of Memory objects (memory/store.py,              *)
(* SharedMemoryStore) and the runtimes that use it (memory/runtime.py).    *)
(*                                                                         *)
(* A MemoryRuntime acquires the Memory of its location when it is built    *)
(* and releases it when it is closed; a rebuild pins the entry meanwhile.  *)
(* The store's methods run on any thread: an action is one section under   *)
(* the store's lock, or one piece of work between two of them (running the *)
(* factory, closing connections).                                          *)
(*                                                                         *)
(* A runtime builds at most one Memory; it bears the runtime's name.       *)
(* Runtimes without a shareable location never enter the store.            *)
(***************************************************************************)
EXTENDS Naturals, FiniteSets

CONSTANTS
    Users,           \* MemoryRuntime objects
    Pins,            \* hold() contexts, one per rebuild
    Keys,            \* MemoryIdentity values
    KeyOf,           \* the identity of a runtime or pin
    Failing,         \* runtimes whose backend may fail to open
    None             \* no entry, no memory

Actors == Users \cup Pins

ASSUME StoreAssumption ==
    /\ IsFiniteSet(Users)
    /\ IsFiniteSet(Pins)
    /\ Users \cap Pins = {}
    /\ KeyOf \in [Actors -> Keys]
    /\ Failing \subseteq Users
    /\ None \notin Users

VARIABLES
    memory,   \* _entries[k].memory, None when there is no entry
    refs,     \* _entries[k].refs, 0 when there is no entry
    storePC,  \* where each runtime, or pin, is
    lease,    \* the Memory a runtime works with
    doomed,   \* the Memory whose connections an actor is about to close
    opened,   \* Memory objects constructed so far
    closed    \* Memory objects closed by close_memory_resources

entryVars == <<memory, refs>>
storeVars == <<entryVars, storePC, lease, doomed, opened, closed>>

PCs == {"new", "building", "surplus", "using", "failed", "closing", "ended"}

StoreTypeOK ==
    /\ memory \in [Keys -> Users \cup {None}]
    /\ refs \in [Keys -> Nat]
    /\ storePC \in [Actors -> PCs]
    /\ lease \in [Users -> Users \cup {None}]
    /\ doomed \in [Actors -> Users \cup {None}]
    /\ opened \in SUBSET Users
    /\ closed \in SUBSET Users

StoreInit ==
    /\ memory = [k \in Keys |-> None]
    /\ refs = [k \in Keys |-> 0]
    /\ storePC = [a \in Actors |-> "new"]
    /\ lease = [u \in Users |-> None]
    /\ doomed = [a \in Actors |-> None]
    /\ opened = {}
    /\ closed = {}

AddRef(k) ==
    /\ refs' = [refs EXCEPT ![k] = @ + 1]
    /\ UNCHANGED memory

\* acquire(), first section: a cached Memory is shared, otherwise the factory
\* runs without the lock.
Acquire(u) ==
    LET k == KeyOf[u] IN
    /\ storePC[u] = "new"
    /\ \/ /\ memory[k] # None
          /\ AddRef(k)
          /\ lease' = [lease EXCEPT ![u] = memory[k]]
          /\ storePC' = [storePC EXCEPT ![u] = "using"]
       \/ /\ memory[k] = None
          /\ storePC' = [storePC EXCEPT ![u] = "building"]
          /\ UNCHANGED <<entryVars, lease>>
    /\ UNCHANGED <<doomed, opened, closed>>

\* Variant with a fault: the Memory that lost is forgotten.
InstallForgetful(u) ==
    LET k == KeyOf[u] IN
    /\ storePC[u] = "building"
    /\ \/ /\ memory[k] # None
          /\ AddRef(k)
          /\ lease' = [lease EXCEPT ![u] = memory[k]]
       \/ /\ memory[k] = None
          /\ memory' = [memory EXCEPT ![k] = u]
          /\ refs' = [refs EXCEPT ![k] = 1]
          /\ lease' = [lease EXCEPT ![u] = u]
    /\ storePC' = [storePC EXCEPT ![u] = "using"]
    /\ opened' = opened \cup {u}
    /\ UNCHANGED <<doomed, closed>>

\* acquire(), second section: the new Memory is installed, unless another
\* thread was faster; then that one is shared and the new one is surplus.
Install(u) ==
    LET k == KeyOf[u] IN
    /\ storePC[u] = "building"
    /\ \/ /\ memory[k] # None
          /\ AddRef(k)
          /\ lease' = [lease EXCEPT ![u] = memory[k]]
          /\ doomed' = [doomed EXCEPT ![u] = u]
          /\ storePC' = [storePC EXCEPT ![u] = "surplus"]
       \/ /\ memory[k] = None
          /\ memory' = [memory EXCEPT ![k] = u]
          /\ refs' = [refs EXCEPT ![k] = 1]
          /\ lease' = [lease EXCEPT ![u] = u]
          /\ storePC' = [storePC EXCEPT ![u] = "using"]
          /\ UNCHANGED doomed
    /\ opened' = opened \cup {u}
    /\ UNCHANGED closed

\* The factory raises: acquire() and the constructor of the runtime raise.
FactoryFails(u) ==
    /\ u \in Failing
    /\ storePC[u] = "building"
    /\ storePC' = [storePC EXCEPT ![u] = "failed"]
    /\ UNCHANGED <<entryVars, lease, doomed, opened, closed>>

\* close_memory_resources() on a surplus or released Memory
CloseResources(a) ==
    /\ storePC[a] \in {"surplus", "closing"}
    /\ closed' = closed \cup {doomed[a]}
    /\ doomed' = [doomed EXCEPT ![a] = None]
    /\ storePC' = [storePC EXCEPT ![a] = IF storePC[a] = "surplus" THEN "using" ELSE "ended"]
    /\ UNCHANGED <<entryVars, lease, opened>>

\* Variant with a fault: the count decides, but the entry stays in the map.
ReleaseKeepsEntry(a) ==
    LET k == KeyOf[a] IN
    \/ /\ memory[k] = None \/ refs[k] > 1
       /\ refs' = [refs EXCEPT ![k] = IF memory[k] = None THEN @ ELSE @ - 1]
       /\ storePC' = [storePC EXCEPT ![a] = "ended"]
       /\ UNCHANGED <<memory, doomed>>
    \/ /\ memory[k] # None /\ refs[k] <= 1
       /\ refs' = [refs EXCEPT ![k] = 0]
       /\ doomed' = [doomed EXCEPT ![a] = memory[k]]
       /\ storePC' = [storePC EXCEPT ![a] = "closing"]
       /\ UNCHANGED memory

\* release(): the last reference removes the entry; its Memory is closed
\* without the lock.
Release(a) ==
    LET k == KeyOf[a] IN
    \/ /\ memory[k] = None
       /\ storePC' = [storePC EXCEPT ![a] = "ended"]
       /\ UNCHANGED <<entryVars, doomed>>
    \/ /\ memory[k] # None /\ refs[k] > 1
       /\ refs' = [refs EXCEPT ![k] = @ - 1]
       /\ storePC' = [storePC EXCEPT ![a] = "ended"]
       /\ UNCHANGED <<memory, doomed>>
    \/ /\ memory[k] # None /\ refs[k] <= 1
       /\ memory' = [memory EXCEPT ![k] = None]
       /\ refs' = [refs EXCEPT ![k] = 0]
       /\ doomed' = [doomed EXCEPT ![a] = memory[k]]
       /\ storePC' = [storePC EXCEPT ![a] = "closing"]

\* MemoryRuntime.close(), once its workers are idle.
Close(u) ==
    /\ storePC[u] = "using"
    /\ lease' = [lease EXCEPT ![u] = None]
    /\ Release(u)
    /\ UNCHANGED <<opened, closed>>

\* MemoryRuntime.__del__ after a constructor that raised: close() releases
\* _memory_key, which _build_memory sets before it calls acquire().
Finalize(u) ==
    /\ storePC[u] = "failed"
    /\ Release(u)
    /\ UNCHANGED <<lease, opened, closed>>

\* hold() is entered: only an entry that exists is pinned.
Hold(p) ==
    /\ storePC[p] = "new"
    /\ \/ /\ memory[KeyOf[p]] # None
          /\ AddRef(KeyOf[p])
          /\ storePC' = [storePC EXCEPT ![p] = "using"]
       \/ /\ memory[KeyOf[p]] = None
          /\ storePC' = [storePC EXCEPT ![p] = "ended"]
          /\ UNCHANGED entryVars
    /\ UNCHANGED <<lease, doomed, opened, closed>>

\* hold() is left
Unhold(p) ==
    /\ storePC[p] = "using"
    /\ Release(p)
    /\ UNCHANGED <<lease, opened, closed>>

UserStep(u) == Acquire(u) \/ Install(u) \/ FactoryFails(u) \/ Close(u) \/ Finalize(u)

StoreNext ==
    \/ \E u \in Users : UserStep(u)
    \/ \E p \in Pins : Hold(p) \/ Unhold(p)
    \/ \E a \in Actors : CloseResources(a)

StoreSpec == StoreInit /\ [][StoreNext]_storeVars

-----------------------------------------------------------------------------
(***************************************************************************)
(* Properties.                                                             *)
(***************************************************************************)

Working == {u \in Users : storePC[u] \in {"surplus", "using"}}

\* The connections of a Memory are never closed, or about to be, while a
\* runtime works with it ("Last release closes connections").
InUseIsOpen ==
    \A u \in Working : lease[u] \notin closed /\ \A a \in Actors : doomed[a] # lease[u]

\* Who is counted in the entry of key k.
Holders(k) == {a \in Actors : storePC[a] \in {"surplus", "using"} /\ KeyOf[a] = k}

\* The count of an entry is the number of runtimes and pins that hold it, and
\* there is an entry exactly when somebody does.
RefsExact ==
    \A k \in Keys :
        /\ refs[k] = Cardinality(Holders(k))
        /\ memory[k] = None <=> Holders(k) = {}

\* A Memory that was opened and not closed is in exactly one place, in the
\* map or in the hands of one thread that closes it; any other is nowhere.
InMap(m) == \E k \in Keys : memory[k] = m
InHand(m) == \E a \in Actors : doomed[a] = m

NoneLeaks ==
    /\ closed \subseteq opened
    /\ \A m \in Users : /\ (InMap(m) \/ InHand(m)) <=> m \in opened \ closed
                        /\ ~(InMap(m) /\ InHand(m))
    /\ \A a, b \in Actors : doomed[a] # None /\ doomed[a] = doomed[b] => a = b

\* While a rebuild pins an entry, the Memory in it stays: the agent that is
\* created gets the object of the agent that was removed.
PinKeeps ==
    [][\A p \in Pins :
          (storePC[p] = "using" /\ storePC'[p] = "using") =>
              memory'[KeyOf[p]] = memory[KeyOf[p]]]_storeVars

\* What the proof of NoneLeaks rests on: an entry holds an open Memory of
\* its key, a runtime that has constructed nothing yet owns nothing, and
\* only a thread that is about to close a Memory has one in its hands.
LeakInv ==
    /\ NoneLeaks
    /\ \A k \in Keys : memory[k] # None => KeyOf[memory[k]] = k
    /\ \A u \in Users : storePC[u] \in {"new", "building", "failed"} => u \notin opened
    /\ \A a \in Actors : doomed[a] # None <=> storePC[a] \in {"surplus", "closing"}
    /\ \A p \in Pins : storePC[p] \in {"new", "using", "closing", "ended"}

\* What the proof of InUseIsOpen rests on, when no factory fails: all who
\* work at a location work with the Memory of its entry.
ShareInv ==
    /\ RefsExact
    /\ \A u \in Users :
          /\ storePC[u] # "failed"
          /\ lease[u] = IF u \in Working THEN memory[KeyOf[u]] ELSE None

Lease == INSTANCE MemoryLease WITH shut <- closed
LeaseSpec == Lease!Spec
=============================================================================
