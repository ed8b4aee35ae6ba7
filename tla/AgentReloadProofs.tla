------------------------- MODULE AgentReloadProofs -------------------------
(***************************************************************************)
(* Proofs about MemoryStore, for any number of runtimes, pins and keys,    *)
(* and about AgentReload, which is built on it: for any operations, turns, *)
(* ids and memory locations, and for any choice of the operations that     *)
(* run on threads.                                                         *)
(***************************************************************************)
EXTENDS AgentReload, FiniteSetTheorems, TLAPS

USE DEF Actors

LEMMA StoreTypeStep ==
    ASSUME StoreTypeOK, LeakInv, [StoreNext]_storeVars
    PROVE  StoreTypeOK'
<1> USE StoreAssumption DEF StoreTypeOK, PCs
<1>1. ASSUME NEW u \in Users, Acquire(u) PROVE StoreTypeOK'
  BY <1>1 DEF Acquire, AddRef, entryVars
<1>2. ASSUME NEW u \in Users, Install(u) PROVE StoreTypeOK'
  BY <1>2 DEF Install, AddRef
<1>3. ASSUME NEW u \in Users, FactoryFails(u) PROVE StoreTypeOK'
  BY <1>3 DEF FactoryFails, entryVars
<1>4. ASSUME NEW a \in Actors, Release(a), UNCHANGED <<opened, closed>>,
             lease' \in [Users -> Users \cup {None}]
      PROVE  StoreTypeOK'
  BY <1>4 DEF Release, entryVars
<1>5. ASSUME NEW u \in Users, Close(u) \/ Finalize(u) PROVE StoreTypeOK'
  BY <1>4, <1>5 DEF Close, Finalize
<1>6. ASSUME NEW p \in Pins, Hold(p) PROVE StoreTypeOK'
  BY <1>6 DEF Hold, AddRef, entryVars
<1>7. ASSUME NEW p \in Pins, Unhold(p) PROVE StoreTypeOK'
  BY <1>4, <1>7 DEF Unhold
<1>8. ASSUME NEW a \in Actors, CloseResources(a) PROVE StoreTypeOK'
  <2>1. doomed[a] \in Users
    BY <1>8 DEF CloseResources, LeakInv
  <2> QED
    BY <1>8, <2>1 DEF CloseResources, entryVars
<1>9. CASE UNCHANGED storeVars
  BY <1>9 DEF storeVars, entryVars
<1> QED
  BY <1>1, <1>2, <1>3, <1>5, <1>6, <1>7, <1>8, <1>9 DEF StoreNext, UserStep

LEMMA StoreLeakStep ==
    ASSUME StoreTypeOK, LeakInv, [StoreNext]_storeVars
    PROVE  LeakInv'
<1> USE StoreAssumption DEF StoreTypeOK, LeakInv, NoneLeaks, InMap, InHand
<1>1. ASSUME NEW u \in Users, Acquire(u) PROVE LeakInv'
  BY <1>1 DEF Acquire, AddRef, entryVars
<1>2. ASSUME NEW u \in Users, Install(u) PROVE LeakInv'
  <2>1. /\ u \notin opened /\ ~InMap(u) /\ ~InHand(u) /\ doomed[u] = None
        /\ u \notin closed
        /\ opened' = opened \cup {u} /\ UNCHANGED closed
    BY <1>2 DEF Install
  <2>2. CASE memory[KeyOf[u]] # None
    <3>1. /\ UNCHANGED memory
          /\ doomed' = [doomed EXCEPT ![u] = u]
          /\ storePC' = [storePC EXCEPT ![u] = "surplus"]
      BY <1>2, <2>2 DEF Install, AddRef
    <3>2. \A m \in Users : /\ InMap(m)' <=> InMap(m)
                           /\ InHand(m)' <=> InHand(m) \/ m = u
      BY <2>1, <3>1
    <3>3. NoneLeaks'
      <4>1. \A m \in Users : /\ (InMap(m)' \/ InHand(m)') <=> m \in opened' \ closed'
                             /\ ~(InMap(m)' /\ InHand(m)')
        <5> HIDE DEF InMap, InHand
        <5> QED BY <2>1, <3>2
      <4>2. \A a, b \in Actors : doomed'[a] # None /\ doomed'[a] = doomed'[b] => a = b
        BY <2>1, <3>1
      <4> QED BY <2>1, <4>1, <4>2
    <3>4. /\ \A k \in Keys : memory'[k] # None => KeyOf[memory'[k]] = k
          /\ \A v \in Users : storePC'[v] \in {"new", "building", "failed"} => v \notin opened'
          /\ \A a \in Actors : doomed'[a] # None <=> storePC'[a] \in {"surplus", "closing"}
          /\ \A p \in Pins : storePC'[p] \in {"new", "using", "closing", "ended"}
      BY <1>2, <2>1, <3>1 DEF Install
    <3> QED
      BY <3>3, <3>4
  <2>3. CASE memory[KeyOf[u]] = None
    <3>1. /\ UNCHANGED doomed
          /\ memory' = [memory EXCEPT ![KeyOf[u]] = u]
          /\ storePC' = [storePC EXCEPT ![u] = "using"]
      BY <1>2, <2>3 DEF Install
    <3>2. \A m \in Users : /\ InMap(m)' <=> InMap(m) \/ m = u
                           /\ InHand(m)' <=> InHand(m)
      BY <2>1, <2>3, <3>1
    <3>3. NoneLeaks'
      <4>1. \A m \in Users : /\ (InMap(m)' \/ InHand(m)') <=> m \in opened' \ closed'
                             /\ ~(InMap(m)' /\ InHand(m)')
        <5> HIDE DEF InMap, InHand
        <5> QED BY <2>1, <3>2
      <4>2. \A a, b \in Actors : doomed'[a] # None /\ doomed'[a] = doomed'[b] => a = b
        BY <3>1
      <4> QED BY <2>1, <4>1, <4>2
    <3>4. /\ \A k \in Keys : memory'[k] # None => KeyOf[memory'[k]] = k
          /\ \A v \in Users : storePC'[v] \in {"new", "building", "failed"} => v \notin opened'
          /\ \A a \in Actors : doomed'[a] # None <=> storePC'[a] \in {"surplus", "closing"}
          /\ \A p \in Pins : storePC'[p] \in {"new", "using", "closing", "ended"}
      BY <1>2, <2>1, <3>1 DEF Install
    <3> QED
      BY <3>3, <3>4
  <2> QED
    BY <2>2, <2>3
<1>3. ASSUME NEW u \in Users, FactoryFails(u) PROVE LeakInv'
  BY <1>3 DEF FactoryFails, entryVars
<1>4. ASSUME NEW a \in Actors, Release(a), UNCHANGED <<opened, closed>>,
             storePC[a] \in {"using", "failed"}
      PROVE  LeakInv'
  BY <1>4 DEF Release, entryVars
<1>5. ASSUME NEW u \in Users, Close(u) \/ Finalize(u) PROVE LeakInv'
  BY <1>4, <1>5 DEF Close, Finalize
<1>6. ASSUME NEW p \in Pins, Hold(p) PROVE LeakInv'
  BY <1>6 DEF Hold, AddRef, entryVars
<1>7. ASSUME NEW p \in Pins, Unhold(p) PROVE LeakInv'
  BY <1>4, <1>7 DEF Unhold
<1>8. ASSUME NEW a \in Actors, CloseResources(a) PROVE LeakInv'
  BY <1>8 DEF CloseResources, entryVars
<1>9. CASE UNCHANGED storeVars
  BY <1>9 DEF storeVars, entryVars
<1> QED
  BY <1>1, <1>2, <1>3, <1>5, <1>6, <1>7, <1>8, <1>9 DEF StoreNext, UserStep

LEMMA StoreLeakInvariant == StoreSpec => [](StoreTypeOK /\ LeakInv)
<1>1. StoreInit => StoreTypeOK /\ LeakInv
  BY StoreAssumption DEF StoreInit, StoreTypeOK, PCs, LeakInv, NoneLeaks, InMap, InHand
<1>2. StoreTypeOK /\ LeakInv /\ [StoreNext]_storeVars => (StoreTypeOK /\ LeakInv)'
  BY StoreTypeStep, StoreLeakStep
<1> QED
  BY <1>1, <1>2, PTL DEF StoreSpec

\* Type correctness.
THEOREM StoreTypeCorrect == StoreSpec => []StoreTypeOK
BY StoreLeakInvariant, PTL

\* Every Memory that was opened and not closed is in the map or in the hands
\* of exactly one thread that will close it, whether factories fail or not.
THEOREM StoreNoneLeaks == StoreSpec => []NoneLeaks
<1>1. LeakInv => NoneLeaks
  BY DEF LeakInv
<1> QED
  BY <1>1, StoreLeakInvariant, PTL

-----------------------------------------------------------------------------
(***************************************************************************)
(* The reference counts.  A runtime whose factory raised gives back a      *)
(* reference it never had, so the rest holds only if no factory fails.     *)
(***************************************************************************)
Holding == {"surplus", "using"}

LEMMA HoldersFinite ==
    \A k \in Keys : IsFiniteSet(Holders(k)) /\ Cardinality(Holders(k)) \in Nat
<1>1. IsFiniteSet(Actors)
  BY FS_Union, StoreAssumption
<1>2. \A k \in Keys : Holders(k) \subseteq Actors
  BY DEF Holders
<1> QED
  BY <1>1, <1>2, FS_Subset, FS_CardinalityType

LEMMA HoldersGain ==
    ASSUME StoreTypeOK, NEW a \in Actors, NEW x \in Holding,
           storePC[a] \notin Holding, storePC' = [storePC EXCEPT ![a] = x]
    PROVE  /\ \A k \in Keys : k # KeyOf[a] => Holders(k)' = Holders(k)
           /\ Holders(KeyOf[a])' # {}
           /\ Cardinality(Holders(KeyOf[a])') = Cardinality(Holders(KeyOf[a])) + 1
<1>1. /\ \A k \in Keys : k # KeyOf[a] => Holders(k)' = Holders(k)
      /\ Holders(KeyOf[a])' = Holders(KeyOf[a]) \cup {a}
      /\ a \notin Holders(KeyOf[a])
      /\ KeyOf[a] \in Keys
  BY StoreAssumption DEF StoreTypeOK, Holders, Holding
<1> QED
  BY <1>1, HoldersFinite, FS_AddElement

LEMMA HoldersLose ==
    ASSUME StoreTypeOK, NEW a \in Actors, storePC[a] \in Holding, storePC'[a] \notin Holding,
           \A b \in Actors : b # a => storePC'[b] = storePC[b]
    PROVE  /\ \A k \in Keys : k # KeyOf[a] => Holders(k)' = Holders(k)
           /\ a \in Holders(KeyOf[a])
           /\ Cardinality(Holders(KeyOf[a])') = Cardinality(Holders(KeyOf[a])) - 1
<1>1. /\ \A k \in Keys : k # KeyOf[a] => Holders(k)' = Holders(k)
      /\ Holders(KeyOf[a])' = Holders(KeyOf[a]) \ {a}
      /\ a \in Holders(KeyOf[a])
      /\ KeyOf[a] \in Keys
  BY StoreAssumption DEF StoreTypeOK, Holders, Holding
<1> QED
  BY <1>1, HoldersFinite, FS_RemoveElement

LEMMA HoldersSame ==
    ASSUME StoreTypeOK, NEW a \in Actors, NEW x,
           storePC[a] \in Holding <=> x \in Holding, storePC' = [storePC EXCEPT ![a] = x]
    PROVE  \A k \in Keys : Holders(k)' = Holders(k)
BY DEF StoreTypeOK, Holders, Holding

\* A new holder of an existing entry, or of one that it creates.
LEMMA GainExact ==
    ASSUME StoreTypeOK, RefsExact, NEW a \in Actors, NEW x \in Holding,
           storePC[a] \notin Holding, storePC' = [storePC EXCEPT ![a] = x],
           \/ memory[KeyOf[a]] # None /\ AddRef(KeyOf[a])
           \/ /\ memory[KeyOf[a]] = None
              /\ \E m \in Users : memory' = [memory EXCEPT ![KeyOf[a]] = m]
              /\ refs' = [refs EXCEPT ![KeyOf[a]] = 1]
    PROVE  RefsExact'
<1> DEFINE k == KeyOf[a]
<1>1. /\ \A j \in Keys : j # k => Holders(j)' = Holders(j)
      /\ Holders(k)' # {}
      /\ Cardinality(Holders(k)') = Cardinality(Holders(k)) + 1
  BY HoldersGain
<1>2. /\ k \in Keys /\ refs[k] = Cardinality(Holders(k)) /\ refs[k] \in Nat
      /\ memory[k] = None => refs[k] = 0
  BY StoreAssumption, FS_EmptySet DEF StoreTypeOK, RefsExact
<1>3. /\ refs' = [refs EXCEPT ![k] = refs[k] + 1]
      /\ memory'[k] # None
      /\ \A j \in Keys : j # k => memory'[j] = memory[j]
  BY <1>2, StoreAssumption DEF AddRef, StoreTypeOK
<1> HIDE DEF k
<1> QED
  BY <1>1, <1>2, <1>3 DEF RefsExact, StoreTypeOK

LEMMA ReleaseExact ==
    ASSUME StoreTypeOK, RefsExact, NEW a \in Actors, storePC[a] = "using", Release(a)
    PROVE  /\ RefsExact'
           /\ memory[KeyOf[a]] # None
           /\ \A j \in Keys : Holders(j)' # {} => memory'[j] = memory[j]
<1> DEFINE k == KeyOf[a]
<1>1. storePC' = [storePC EXCEPT ![a] = "ended"] \/ storePC' = [storePC EXCEPT ![a] = "closing"]
  BY DEF Release
<1>2. /\ \A j \in Keys : j # k => Holders(j)' = Holders(j)
      /\ a \in Holders(k)
      /\ Cardinality(Holders(k)') = Cardinality(Holders(k)) - 1
  <2>1. storePC[a] \in Holding /\ storePC'[a] \notin Holding
    BY <1>1 DEF StoreTypeOK, Holding
  <2>2. \A b \in Actors : b # a => storePC'[b] = storePC[b]
    BY <1>1 DEF StoreTypeOK
  <2> QED
    BY <2>1, <2>2, HoldersLose
<1>3. /\ k \in Keys /\ refs[k] = Cardinality(Holders(k)) /\ refs[k] \in Nat
      /\ memory[k] # None
  BY <1>2, StoreAssumption DEF StoreTypeOK, RefsExact
<1>4. IsFiniteSet(Holders(k)')
  <2>1. Holders(k)' \subseteq Actors
    BY DEF Holders
  <2> QED
    BY <2>1, FS_Union, FS_Subset, StoreAssumption
<1>5. CASE refs[k] > 1
  <2>1. UNCHANGED memory /\ refs' = [refs EXCEPT ![k] = refs[k] - 1]
    BY <1>3, <1>5 DEF Release
  <2>2. Holders(k)' # {}
    BY <1>2, <1>3, <1>4, <1>5, FS_EmptySet
  <2> HIDE DEF k
  <2>3. RefsExact'
    BY <1>2, <1>3, <2>1, <2>2 DEF RefsExact, StoreTypeOK
  <2> QED
    BY <1>3, <2>1, <2>3 DEF k
<1>6. CASE refs[k] <= 1
  <2>1. memory' = [memory EXCEPT ![k] = None] /\ refs' = [refs EXCEPT ![k] = 0]
    BY <1>3, <1>6 DEF Release
  <2>2. Holders(k)' = {} /\ Cardinality(Holders(k)') = 0
    BY <1>2, <1>3, <1>4, <1>6, FS_EmptySet, FS_CardinalityType
  <2> HIDE DEF k
  <2>3. RefsExact'
    BY <1>2, <1>3, <2>1, <2>2 DEF RefsExact, StoreTypeOK
  <2> QED
    BY <1>3, <2>1, <2>2, <2>3 DEF k, StoreTypeOK
<1> QED
  BY <1>3, <1>5, <1>6

LEMMA StoreShareStep ==
    ASSUME StoreTypeOK, LeakInv, ShareInv, Failing = {}, [StoreNext]_storeVars
    PROVE  ShareInv'
<1> USE StoreAssumption DEF StoreTypeOK, ShareInv, Holding
<1>a. \A u \in Users : u \in Actors /\ KeyOf[u] \in Keys
  OBVIOUS
<1>b. ASSUME NEW a \in Actors, storePC[a] = "using", Release(a), a \in Users \cup Pins,
             lease' = IF a \in Users THEN [lease EXCEPT ![a] = None] ELSE lease
      PROVE  ShareInv'
  <2>1. /\ RefsExact'
        /\ \A j \in Keys : Holders(j)' # {} => memory'[j] = memory[j]
    BY <1>b, ReleaseExact
  <2>2. storePC' = [storePC EXCEPT ![a] = "ended"] \/ storePC' = [storePC EXCEPT ![a] = "closing"]
    BY <1>b DEF Release
  <2>3. \A u \in Users : u \in Working' => u \in Holders(KeyOf[u])' /\ u # a /\ u \in Working
    BY <2>2 DEF Working, Holders
  <2>4. \A u \in Users : u \notin Working' => u \notin Working \/ u = a
    BY <2>2 DEF Working
  <2>5. \A u \in Users : storePC'[u] # "failed"
    BY <2>2
  <2>6. ASSUME NEW u \in Users
        PROVE  lease'[u] = IF u \in Working' THEN memory'[KeyOf[u]] ELSE None
    <3>1. CASE u \in Working'
      BY <1>a, <1>b, <2>1, <2>3, <3>1
    <3>2. CASE u \notin Working'
      BY <1>b, <2>2, <2>4, <3>2 DEF Working
    <3> QED
      BY <3>1, <3>2
  <2> QED
    BY <2>1, <2>5, <2>6
<1>1. ASSUME NEW u \in Users, Acquire(u) PROVE ShareInv'
  <2>1. CASE memory[KeyOf[u]] # None
    <3>1. RefsExact'
      BY <1>1, <2>1, GainExact DEF Acquire
    <3> QED
      BY <1>1, <2>1, <3>1 DEF Acquire, AddRef, Working
  <2>2. CASE memory[KeyOf[u]] = None
    <3>1. \A k \in Keys : Holders(k)' = Holders(k)
      BY <1>1, <2>2, HoldersSame DEF Acquire
    <3> QED
      BY <1>1, <2>2, <3>1 DEF Acquire, entryVars, RefsExact, Working
  <2> QED
    BY <2>1, <2>2
<1>2. ASSUME NEW u \in Users, Install(u) PROVE ShareInv'
  <2>1. CASE memory[KeyOf[u]] # None
    <3>1. RefsExact'
      BY <1>2, <2>1, GainExact DEF Install
    <3> QED
      BY <1>2, <2>1, <3>1 DEF Install, AddRef, Working
  <2>2. CASE memory[KeyOf[u]] = None
    <3>1. RefsExact'
      BY <1>2, <2>2, GainExact DEF Install
    <3>2. Holders(KeyOf[u]) = {}
      BY <1>a, <2>2 DEF RefsExact
    <3>3. \A v \in Working : KeyOf[v] # KeyOf[u]
      BY <3>2 DEF Working, Holders
    <3> QED
      BY <1>2, <2>2, <3>1, <3>3 DEF Install, Working
  <2> QED
    BY <2>1, <2>2
<1>3. ASSUME NEW u \in Users, FactoryFails(u) PROVE ShareInv'
  BY <1>3 DEF FactoryFails
<1>4. ASSUME NEW u \in Users, Close(u) PROVE ShareInv'
  BY <1>4, <1>b DEF Close
<1>5. ASSUME NEW u \in Users, Finalize(u) PROVE ShareInv'
  BY <1>5 DEF Finalize
<1>6. ASSUME NEW p \in Pins, Hold(p) PROVE ShareInv'
  <2>1. CASE memory[KeyOf[p]] # None
    <3>1. RefsExact'
      BY <1>6, <2>1, GainExact DEF Hold
    <3> QED
      BY <1>6, <2>1, <3>1 DEF Hold, AddRef, Working
  <2>2. CASE memory[KeyOf[p]] = None
    <3>1. \A k \in Keys : Holders(k)' = Holders(k)
      BY <1>6, <2>2, HoldersSame DEF Hold
    <3> QED
      BY <1>6, <2>2, <3>1 DEF Hold, entryVars, RefsExact, Working
  <2> QED
    BY <2>1, <2>2
<1>7. ASSUME NEW p \in Pins, Unhold(p) PROVE ShareInv'
  BY <1>7, <1>b DEF Unhold
<1>8. ASSUME NEW a \in Actors, CloseResources(a) PROVE ShareInv'
  <2>1. \A k \in Keys : Holders(k)' = Holders(k)
    BY <1>8, HoldersSame DEF CloseResources
  <2> QED
    BY <1>8, <2>1 DEF CloseResources, entryVars, RefsExact, Working
<1>9. CASE UNCHANGED storeVars
  <2>1. \A k \in Keys : Holders(k)' = Holders(k)
    BY <1>9 DEF storeVars, Holders
  <2> QED
    BY <1>9, <2>1 DEF storeVars, entryVars, RefsExact, Working
<1> QED
  BY <1>1, <1>2, <1>3, <1>4, <1>5, <1>6, <1>7, <1>8, <1>9 DEF StoreNext, UserStep

LEMMA StoreShareInvariant == Failing = {} => (StoreSpec => []ShareInv)
<1> SUFFICES ASSUME Failing = {} PROVE StoreSpec => []ShareInv
  OBVIOUS
<1>1. StoreInit => ShareInv
  <2> SUFFICES ASSUME StoreInit PROVE ShareInv
    OBVIOUS
  <2>1. \A k \in Keys : Holders(k) = {}
    BY DEF StoreInit, Holders
  <2> QED
    BY <2>1, FS_EmptySet DEF StoreInit, ShareInv, RefsExact, Working
<1>2. StoreTypeOK /\ LeakInv /\ ShareInv /\ [StoreNext]_storeVars => ShareInv'
  BY StoreShareStep
<1> QED
  BY <1>1, <1>2, StoreLeakInvariant, PTL DEF StoreSpec

\* The count of an entry is the number of runtimes and pins that hold it.
THEOREM StoreRefsExact == Failing = {} => (StoreSpec => []RefsExact)
<1>1. ShareInv => RefsExact
  BY DEF ShareInv
<1> QED
  BY <1>1, StoreShareInvariant, PTL

LEMMA ShareIsOpen == StoreTypeOK /\ LeakInv /\ ShareInv => InUseIsOpen
<1> SUFFICES ASSUME StoreTypeOK, LeakInv, ShareInv, NEW u \in Working
             PROVE  lease[u] \notin closed /\ \A a \in Actors : doomed[a] # lease[u]
  BY DEF InUseIsOpen
<1>1. u \in Users /\ u \in Holders(KeyOf[u]) /\ KeyOf[u] \in Keys
  BY StoreAssumption DEF Working, Holders
<1>2. lease[u] = memory[KeyOf[u]] /\ lease[u] \in Users
  BY <1>1 DEF ShareInv, RefsExact, StoreTypeOK
<1>3. InMap(lease[u])
  BY <1>1, <1>2 DEF InMap
<1> QED
  BY <1>2, <1>3 DEF LeakInv, NoneLeaks, InHand

\* No runtime works with a Memory that is closed or about to be.
THEOREM StoreInUseIsOpen == Failing = {} => (StoreSpec => []InUseIsOpen)
BY ShareIsOpen, StoreLeakInvariant, StoreShareInvariant, PTL

LEMMA StorePinStep ==
    ASSUME StoreTypeOK, LeakInv, ShareInv, Failing = {}, StoreNext,
           NEW p \in Pins, storePC[p] = "using", storePC'[p] = "using"
    PROVE  memory'[KeyOf[p]] = memory[KeyOf[p]]
<1>1. /\ p \in Holders(KeyOf[p]) /\ p \in Holders(KeyOf[p])'
      /\ KeyOf[p] \in Keys /\ memory[KeyOf[p]] # None
  BY StoreAssumption DEF Holders, ShareInv, RefsExact
<1>2. ASSUME NEW a \in Actors, storePC[a] = "using", Release(a)
      PROVE  memory'[KeyOf[p]] = memory[KeyOf[p]]
  BY <1>1, <1>2, ReleaseExact DEF ShareInv
<1>3. ASSUME NEW u \in Users, UserStep(u)
      PROVE  memory'[KeyOf[p]] = memory[KeyOf[p]]
  <2>1. CASE Acquire(u) \/ Install(u)
    BY <1>1, <2>1, StoreAssumption DEF Acquire, Install, AddRef, entryVars, StoreTypeOK
  <2>2. CASE FactoryFails(u) \/ Finalize(u)
    BY <2>2 DEF FactoryFails, Finalize, ShareInv
  <2>3. CASE Close(u)
    BY <1>2, <2>3 DEF Close
  <2> QED
    BY <1>3, <2>1, <2>2, <2>3 DEF UserStep
<1>4. ASSUME NEW q \in Pins, Hold(q) \/ Unhold(q)
      PROVE  memory'[KeyOf[p]] = memory[KeyOf[p]]
  BY <1>2, <1>4 DEF Hold, Unhold, AddRef, entryVars
<1>5. ASSUME NEW a \in Actors, CloseResources(a)
      PROVE  memory'[KeyOf[p]] = memory[KeyOf[p]]
  BY <1>5 DEF CloseResources, entryVars
<1> QED
  BY <1>3, <1>4, <1>5 DEF StoreNext

\* A pinned entry keeps its Memory.
THEOREM StorePinKeeps == Failing = {} => (StoreSpec => PinKeeps)
<1> SUFFICES ASSUME Failing = {} PROVE StoreSpec => PinKeeps
  OBVIOUS
<1> DEFINE Kept == \A p \in Pins : (storePC[p] = "using" /\ storePC'[p] = "using") =>
                       memory'[KeyOf[p]] = memory[KeyOf[p]]
<1>1. StoreTypeOK /\ LeakInv /\ ShareInv /\ [StoreNext]_storeVars => [Kept]_storeVars
  BY StorePinStep
<1> QED
  BY <1>1, StoreLeakInvariant, StoreShareInvariant, PTL DEF StoreSpec, PinKeeps

\* The store implements the lease that its users rely on.
THEOREM StoreImplementsLease == Failing = {} => (StoreSpec => LeaseSpec)
<1> SUFFICES ASSUME Failing = {} PROVE StoreSpec => LeaseSpec
  OBVIOUS
<1>1. StoreInit => Lease!Init
  BY DEF StoreInit, Lease!Init
<1>2. /\ StoreTypeOK /\ LeakInv /\ ShareInv
      /\ StoreTypeOK' /\ LeakInv' /\ ShareInv'
      /\ [StoreNext]_storeVars
      => [Lease!Next]_Lease!leaseVars
  <2> SUFFICES ASSUME StoreTypeOK, LeakInv, ShareInv,
                      StoreTypeOK', LeakInv', ShareInv', [StoreNext]_storeVars
               PROVE  [Lease!Next]_Lease!leaseVars
    OBVIOUS
  <2> USE StoreAssumption
  <2>1. ASSUME NEW u \in Users, storePC[u] \in {"new", "building"},
               lease' = [lease EXCEPT ![u] = memory'[KeyOf[u]]],
               u \in Working', UNCHANGED closed
        PROVE  Lease!Take(u)
    <3> DEFINE m == memory'[KeyOf[u]]
    <3>1. u \in Holders(KeyOf[u])' /\ KeyOf[u] \in Keys
      BY <2>1 DEF Working, Holders
    <3>2. m \in Users /\ KeyOf[m] = KeyOf[u]
      BY <3>1 DEF StoreTypeOK, ShareInv, RefsExact, LeakInv
    <3>3. m \notin closed
      BY <2>1, <3>1, <3>2 DEF LeakInv, NoneLeaks, InMap
    <3>4. lease[u] = None
      BY <2>1 DEF ShareInv, Working
    <3>5. \A v \in Users : (lease[v] # None /\ KeyOf[v] = KeyOf[u]) => lease[v] = m
      BY <2>1, <3>4 DEF StoreTypeOK, ShareInv
    <3> QED
      BY <2>1, <3>2, <3>3, <3>4, <3>5 DEF Lease!Take
  <2>2. ASSUME NEW u \in Users, UserStep(u)
        PROVE  [Lease!Next]_Lease!leaseVars
    <3>1. CASE Acquire(u)
      BY <2>1, <3>1 DEF Acquire, AddRef, entryVars, StoreTypeOK, Working, Lease!Next, Lease!leaseVars
    <3>2. CASE Install(u)
      BY <2>1, <3>2 DEF Install, AddRef, entryVars, StoreTypeOK, Working, Lease!Next
    <3>3. CASE FactoryFails(u) \/ Finalize(u)
      BY <3>3 DEF FactoryFails, Finalize, ShareInv
    <3>4. CASE Close(u)
      <4>1. /\ u \in Working /\ u \in Holders(KeyOf[u])
            /\ KeyOf[u] \in Keys
        BY <3>4 DEF Close, Working, Holders
      <4>2. lease[u] # None
        BY <4>1 DEF ShareInv, RefsExact
      <4> QED
        BY <3>4, <4>2 DEF Close, Lease!GiveBack, Lease!Next
    <3> QED
      BY <2>2, <3>1, <3>2, <3>3, <3>4 DEF UserStep
  <2>3. ASSUME NEW p \in Pins, Hold(p) \/ Unhold(p)
        PROVE  UNCHANGED Lease!leaseVars
    BY <2>3 DEF Hold, Unhold, Lease!leaseVars
  <2>4. ASSUME NEW a \in Actors, CloseResources(a)
        PROVE  Lease!Next
    <3>1. doomed[a] \in Users /\ InHand(doomed[a])
      BY <2>4 DEF CloseResources, LeakInv, StoreTypeOK, InHand
    <3>2. doomed[a] \notin closed
      BY <3>1 DEF LeakInv, NoneLeaks
    <3>3. \A u \in Users : lease[u] # doomed[a]
      BY <3>1 DEF ShareInv, Working, LeakInv, NoneLeaks, InMap
    <3> QED
      BY <2>4, <3>1, <3>2, <3>3 DEF CloseResources, Lease!Shut, Lease!Next
  <2>5. CASE UNCHANGED storeVars
    BY <2>5 DEF storeVars, Lease!leaseVars
  <2> QED
    BY <2>2, <2>3, <2>4, <2>5 DEF StoreNext
<1> QED
  BY <1>1, <1>2, StoreLeakInvariant, StoreShareInvariant, PTL
     DEF StoreSpec, LeaseSpec, Lease!Spec

HIDE DEF Actors

-----------------------------------------------------------------------------
(***************************************************************************)
(* The agents of the store are those that reload.                          *)
(***************************************************************************)

LEMMA AgentFacts ==
    /\ Users = Agents
    /\ Actors = Agents \cup Pins
    /\ \A o \in Rebuilds : /\ PinOf(o) \in Pins
                           /\ KeyOf[PinOf(o)] = KeyOf[o]
                           /\ KeyOf[o] = Location[IdOf[o]]
                           /\ KeyOf[o] \in Keys
                           /\ PinOf(o) \notin Agents
    /\ \A g \in Agents : g # None /\ g \in Ops /\ IdOf[g] \in Ids
    /\ \A t \in Turns : t \notin Ops /\ t # None /\ IdOf[t] \in Ids
    /\ \A o \in Rebuilds \cup Removals : IdOf[o] \in Ids
    /\ \A o \in Ops : o # None
BY ReloadAssumption, StoreAssumption DEF Agents, Ops, Actors

LEMMA RuntimeStep ==
    ASSUME NEW g \in Agents, CloseRuntime(g)
    PROVE  [StoreNext]_storeVars
BY AgentFacts DEF CloseRuntime, StoreNext, UserStep

\* Every step of the manager is a step of the store or leaves it alone.
LEMMA ReloadStoreStep ==
    ASSUME TypeOK, PlacesInv, [Next]_vars
    PROVE  [StoreNext]_storeVars
<1> USE AgentFacts
<1>1. ASSUME NEW o \in Rebuilds, Pin(o) PROVE [StoreNext]_storeVars
  BY <1>1 DEF Pin, StoreNext
<1>2. ASSUME NEW o \in Ops, CloseStep(o) PROVE [StoreNext]_storeVars
  <2>1. ReleaseVictim(o) => victim[o] \in Agents /\ CloseRuntime(victim[o])
    BY DEF ReleaseVictim, PlacesInv, Closes
  <2> QED
    BY <1>2, <2>1, RuntimeStep DEF CloseStep, CheckVictim, VictimClosed
<1>3. ASSUME NEW o \in Agents, BuildStep(o) PROVE [StoreNext]_storeVars
  <2>1. BuildMemory(o) => StoreNext
    BY DEF BuildMemory, StoreNext, UserStep
  <2>2. Leave(o) => [StoreNext]_storeVars
    BY DEF Leave, StoreNext
  <2>3. Collect(o) => [StoreNext]_storeVars
    BY RuntimeStep DEF Collect
  <2> QED
    BY <1>3, <2>1, <2>2, <2>3 DEF BuildStep, Register, BuildFails
<1>4. ASSUME NEW t \in Turns, LookUp(t) \/ TurnStep(t) PROVE [StoreNext]_storeVars
  <2>1. CaptureEnds(t) => [StoreNext]_storeVars
    <3> SUFFICES ASSUME CaptureEnds(t) PROVE [StoreNext]_storeVars
      OBVIOUS
    <3>1. on[t] \in Agents
      BY DEF CaptureEnds, PlacesInv
    <3> QED
      BY <3>1 DEF CaptureEnds, StoreNext, UserStep
  <2>2. DeferredRelease(t) => [StoreNext]_storeVars
    BY RuntimeStep DEF DeferredRelease, PlacesInv
  <2> QED
    BY <1>4, <2>1, <2>2 DEF LookUp, TurnStep, Enter, Capture, End, DeferredCheck
<1>5. ASSUME NEW a \in Agents \cup Pins, CloseConnections(a) PROVE [StoreNext]_storeVars
  BY <1>5 DEF CloseConnections, StoreNext
<1>6. CASE UNCHANGED vars
  BY <1>6 DEF vars
<1>7. ASSUME NEW o \in Ops, Create(o) \/ Remove(o) \/ ShutDown(o) \/ NextVictim(o) \/ ClearRegistry(o)
      PROVE [StoreNext]_storeVars
  BY <1>7 DEF Create, Remove, ShutDown, NextVictim, ClearRegistry
<1> QED
  <2>1. Creations \cup Rebuilds \cup Removals \cup Shutdowns \subseteq Ops
    BY DEF Ops, Agents
  <2> QED
    BY <1>1, <1>2, <1>3, <1>4, <1>5, <1>6, <1>7, <2>1 DEF Next

LEMMA RuntimeType ==
    ASSUME TypeOK, NEW g \in Agents, CloseRuntime(g)
    PROVE  runtime' \in [Agents -> {"open", "draining", "released"}]
BY DEF CloseRuntime, TypeOK

LEMMA RunningFinite ==
    \A g : IsFiniteSet(RunningOn(g)) /\ Cardinality(RunningOn(g)) \in Nat
<1>1. IsFiniteSet(Turns)
  BY ReloadAssumption
<1>2. \A g : RunningOn(g) \subseteq Turns
  BY DEF RunningOn
<1> QED
  BY <1>1, <1>2, FS_Subset, FS_CardinalityType

\* _in_flight of an agent is the number of the turns that run on it.
LEMMA CountStep ==
    ASSUME TypeOK, PlacesInv, [Next]_vars
    PROVE  \A g \in Agents : inFlight'[g] = Cardinality(RunningOn(g)') /\ inFlight'[g] \in Nat
<1> USE AgentFacts DEF TypeOK
<1> DEFINE Goal == \A g \in Agents :
                      inFlight'[g] = Cardinality(RunningOn(g)') /\ inFlight'[g] \in Nat
<1>a. \A g \in Agents : inFlight[g] = Cardinality(RunningOn(g)) /\ inFlight[g] \in Nat
  BY DEF PlacesInv
<1>b. ASSUME UNCHANGED inFlight, \A g \in Agents : RunningOn(g)' = RunningOn(g)
      PROVE  Goal
  BY <1>a, <1>b
<1>c. ASSUME UNCHANGED <<inFlight, turn, on>> PROVE Goal
  BY <1>b, <1>c DEF RunningOn
<1>1. ASSUME NEW t \in Turns, Enter(t), NEW g \in Agents
      PROVE  inFlight'[g] = Cardinality(RunningOn(g)') /\ inFlight'[g] \in Nat
  <2>1. CASE g = on[t]
    <3>1. /\ t \notin RunningOn(g) /\ RunningOn(g)' = RunningOn(g) \cup {t}
          /\ inFlight'[g] = inFlight[g] + 1
      BY <1>1, <2>1 DEF Enter, RunningOn
    <3>2. /\ Cardinality(RunningOn(g)') = Cardinality(RunningOn(g)) + 1
          /\ Cardinality(RunningOn(g)') \in Nat
      BY <3>1, RunningFinite, FS_AddElement, FS_CardinalityType
    <3> QED
      BY <1>a, <3>1, <3>2
  <2>2. CASE g # on[t]
    <3>1. RunningOn(g)' = RunningOn(g) /\ inFlight'[g] = inFlight[g]
      BY <1>1, <2>2 DEF Enter, RunningOn, PlacesInv
    <3> QED
      BY <1>a, <3>1
  <2> QED
    BY <2>1, <2>2
<1>2. ASSUME NEW t \in Turns, End(t), NEW g \in Agents
      PROVE  inFlight'[g] = Cardinality(RunningOn(g)') /\ inFlight'[g] \in Nat
  <2>1. CASE g = on[t]
    <3>1. /\ t \in RunningOn(g) /\ RunningOn(g)' = RunningOn(g) \ {t}
          /\ inFlight'[g] = inFlight[g] - 1
      BY <1>2, <2>1 DEF End, RunningOn
    <3>2. /\ Cardinality(RunningOn(g)') = Cardinality(RunningOn(g)) - 1
          /\ Cardinality(RunningOn(g)') \in Nat
      BY <3>1, RunningFinite, FS_RemoveElement, FS_CardinalityType
    <3> QED
      BY <1>a, <3>1, <3>2
  <2>2. CASE g # on[t]
    <3>1. RunningOn(g)' = RunningOn(g) /\ inFlight'[g] = inFlight[g]
      BY <1>2, <2>2 DEF End, RunningOn, PlacesInv
    <3> QED
      BY <1>a, <3>1
  <2> QED
    BY <2>1, <2>2
<1>3. ASSUME NEW t \in Turns, LookUp(t) \/ Capture(t) PROVE Goal
  BY <1>b, <1>3 DEF LookUp, Capture, RunningOn, agentVars
<1>4. ASSUME NEW t \in Turns, CaptureEnds(t) \/ DeferredCheck(t) \/ DeferredRelease(t) PROVE Goal
  BY <1>b, <1>4 DEF CaptureEnds, DeferredCheck, CheckBusy, DeferredRelease, RunningOn
<1>5. ASSUME NEW t \in Turns, LookUp(t) \/ TurnStep(t) PROVE Goal
  BY <1>1, <1>2, <1>3, <1>4, <1>5 DEF TurnStep
<1>6. ASSUME NEW o \in Ops,
             \/ Create(o) \/ Pin(o) \/ Remove(o) \/ ShutDown(o) \/ NextVictim(o)
             \/ ClearRegistry(o) \/ CloseStep(o) \/ BuildStep(o)
      PROVE  UNCHANGED <<inFlight, turn, on>>
  BY <1>6 DEF Create, Pin, Remove, ShutDown, NextVictim, ClearRegistry, CloseStep,
              CheckVictim, ReleaseVictim, VictimClosed, BuildStep, BuildMemory, Register,
              BuildFails, Leave, Collect, agentVars, turnVars
<1>7. ASSUME NEW a \in Agents \cup Pins, CloseConnections(a)
      PROVE  UNCHANGED <<inFlight, turn, on>>
  BY <1>7 DEF CloseConnections, agentVars, turnVars
<1>8. CASE UNCHANGED vars
  BY <1>8, <1>c DEF vars, agentVars, turnVars
<1> HIDE DEF Goal
<1>9. Next => Goal
  BY <1>c, <1>5, <1>6, <1>7 DEF Next, Ops, Agents
<1> QED
  BY <1>8, <1>9 DEF Goal

LEMMA ReloadTypeStep ==
    ASSUME TypeOK, LeakInv, PlacesInv, [Next]_vars
    PROVE  TypeOK'
<1> USE AgentFacts
<1>0. StoreTypeOK'
  BY ReloadStoreStep, StoreTypeStep DEF TypeOK
<1> DEFINE Rest ==
    /\ registry \in [Ids -> Agents \cup {None}]
    /\ inFlight \in [Agents -> Nat]
    /\ pending \in SUBSET Agents
    /\ runtime \in [Agents -> {"open", "draining", "released"}]
    /\ op \in [Ops -> OpPCs]
    /\ victim \in [Ops -> Agents \cup {None}]
    /\ todo \in [Ops -> SUBSET Agents]
    /\ turn \in [Turns -> TurnPCs]
    /\ on \in [Turns -> Agents \cup {None}]
    /\ capturing \in SUBSET Turns
    /\ loop \in Ops \cup Turns \cup {None}
    /\ kept \in [Ops -> Agents \cup {None}]
<1>a. Rest
  BY DEF TypeOK
<1> USE <1>a DEF To, Keeps, Yields, agentVars, opVars, turnVars, OpPCs, TurnPCs
<1>1. ASSUME NEW o \in Creations, Create(o) PROVE Rest'
  BY <1>1 DEF Create, Ops, Agents
<1>2. ASSUME NEW o \in Rebuilds, Pin(o) PROVE Rest'
  BY <1>2 DEF Pin, Ops, Agents, TypeOK, StoreTypeOK
<1>3. ASSUME NEW o \in Rebuilds \cup Removals, Remove(o) PROVE Rest'
  BY <1>3 DEF Remove, Ops, Agents
<1>4. ASSUME NEW o \in Shutdowns, ShutDown(o) \/ NextVictim(o) \/ ClearRegistry(o) PROVE Rest'
  BY <1>4 DEF ShutDown, NextVictim, ClearRegistry, Ops
<1>5. ASSUME NEW o \in Ops, CloseStep(o) PROVE Rest'
  <2>1. CheckVictim(o) => Rest'
    BY DEF CheckVictim, CheckBusy, PlacesInv, Closes
  <2>2. ReleaseVictim(o) => Rest'
    BY RuntimeType DEF ReleaseVictim, PlacesInv, Closes
  <2>3. VictimClosed(o) => Rest'
    BY DEF VictimClosed
  <2> QED
    BY <1>5, <2>1, <2>2, <2>3 DEF CloseStep
<1>6. ASSUME NEW o \in Agents, BuildStep(o) PROVE Rest'
  <2>1. Collect(o) => Rest'
    BY RuntimeType DEF Collect
  <2>2. Register(o) => Rest'
    BY DEF Register
  <2> QED
    BY <1>6, <2>1, <2>2 DEF BuildStep, BuildMemory, BuildFails, Leave
<1>7. ASSUME NEW t \in Turns, LookUp(t) \/ TurnStep(t) PROVE Rest'
  <2>1. LookUp(t) \/ Enter(t) \/ Capture(t) => Rest'
    BY DEF LookUp, Enter, Capture, PlacesInv
  <2>2. CaptureEnds(t) => Rest'
    BY DEF CaptureEnds, PlacesInv
  <2>3. End(t) => Rest'
    <3>1. End(t) => inFlight' \in [Agents -> Nat]
      BY CountStep DEF End
    <3> QED
      BY <3>1, CountStep DEF End
  <2>4. DeferredCheck(t) => Rest'
    BY DEF DeferredCheck, CheckBusy, PlacesInv
  <2>5. DeferredRelease(t) => Rest'
    BY RuntimeType DEF DeferredRelease, PlacesInv
  <2> QED
    BY <1>7, <2>1, <2>2, <2>3, <2>4, <2>5 DEF TurnStep
<1>8. ASSUME NEW a \in Agents \cup Pins, CloseConnections(a) PROVE Rest'
  BY <1>8 DEF CloseConnections
<1>9. ASSUME UNCHANGED vars PROVE Rest'
  BY <1>9 DEF vars
<1>10. Rest' /\ StoreTypeOK' => TypeOK'
  BY DEF TypeOK
<1> HIDE DEF Rest
<1> QED
  BY <1>0, <1>1, <1>2, <1>3, <1>4, <1>5, <1>6, <1>7, <1>8, <1>9, <1>10 DEF Next

LEMMA PlacesStep ==
    ASSUME TypeOK, PlacesInv, [Next]_vars
    PROVE  PlacesInv'
<1> USE AgentFacts DEF TypeOK, To
<1> DEFINE Placed ==
    /\ \A o \in Ops : Closes(o) => victim[o] \in Agents
    /\ \A t \in Turns : turn[t] \notin {"idle", "refused"} => on[t] \in Agents
    /\ \A t \in capturing : turn[t] \notin {"idle", "refused"}
<1>a. Placed
  BY DEF PlacesInv
<1> USE <1>a DEF Closes, agentVars, opVars, turnVars
<1>1. ASSUME NEW o \in Ops, Create(o) \/ BuildStep(o) PROVE Placed'
  BY <1>1 DEF Create, BuildStep, BuildMemory, Register, BuildFails, Leave, Collect
<1>2. ASSUME NEW o \in Ops, Pin(o) PROVE Placed'
  BY <1>2 DEF Pin
<1>3. ASSUME NEW o \in Rebuilds \cup Removals, Remove(o) PROVE Placed'
  BY <1>3 DEF Remove
<1>4. ASSUME NEW o \in Ops, ShutDown(o) \/ NextVictim(o) \/ ClearRegistry(o) PROVE Placed'
  BY <1>4 DEF ShutDown, NextVictim, ClearRegistry
<1>5. ASSUME NEW o \in Ops, CloseStep(o) PROVE Placed'
  BY <1>5 DEF CloseStep, CheckVictim, CheckBusy, ReleaseVictim, VictimClosed
<1>6. ASSUME NEW t \in Turns, LookUp(t) PROVE Placed'
  BY <1>6 DEF LookUp
<1>7. ASSUME NEW t \in Turns, TurnStep(t) PROVE Placed'
  BY <1>7 DEF TurnStep, Enter, Capture, CaptureEnds, End, DeferredCheck, CheckBusy, DeferredRelease
<1>8. ASSUME NEW a \in Agents \cup Pins, CloseConnections(a) PROVE Placed'
  BY <1>8 DEF CloseConnections
<1>9. ASSUME UNCHANGED vars PROVE Placed'
  BY <1>9 DEF vars
<1> HIDE DEF Placed
<1>10. Placed'
  BY <1>1, <1>2, <1>3, <1>4, <1>5, <1>6, <1>7, <1>8, <1>9 DEF Next, Ops, Agents
<1> QED
  BY <1>10, CountStep DEF Placed, PlacesInv

-----------------------------------------------------------------------------
(***************************************************************************)
(* A rebuild and the Memory it pins.                                       *)
(***************************************************************************)

\* Closing a runtime moves its own place in the store only.
LEMMA RuntimePlace ==
    ASSUME TypeOK, NEW g \in Agents, CloseRuntime(g) \/ Close(g), NEW q \in Rebuilds
    PROVE  /\ storePC'[PinOf(q)] = storePC[PinOf(q)]
           /\ storePC[q] # "using" => storePC'[q] = storePC[q]
<1>1. \/ UNCHANGED storePC
      \/ storePC[g] = "using" /\ \E x \in PCs : storePC' = [storePC EXCEPT ![g] = x]
  BY DEF CloseRuntime, Close, Release, storeVars, PCs
<1>2. PinOf(q) \in Actors /\ PinOf(q) # g /\ q \in Actors
  BY AgentFacts DEF Agents
<1> QED
  BY <1>1, <1>2 DEF TypeOK, StoreTypeOK

LEMMA KeptStep ==
    ASSUME TypeOK, ReloadInv, [Next]_vars
    PROVE  KeptInv'
<1> USE AgentFacts, ReloadAssumption DEF TypeOK, StoreTypeOK, To
<1> DEFINE Kept(q) ==
        /\ op[q] = "idle" =>
              kept[q] = None /\ storePC[q] = "new" /\ storePC[PinOf(q)] = "new"
        /\ kept[q] # None /\ op[q] \notin {"done", "aborted"} =>
              storePC[PinOf(q)] = "using" /\ memory[KeyOf[PinOf(q)]] = kept[q]
<1> SUFFICES ASSUME NEW q \in Rebuilds PROVE Kept(q)'
  BY DEF KeptInv
<1>a. Kept(q)
  BY DEF ReloadInv, KeptInv
<1>b. PinOf(q) \in Pins /\ PinOf(q) \in Actors /\ q \in Actors /\ q \in Ops
  BY DEF Ops, Agents
<1>c. storePC[PinOf(q)] = "using" /\ storePC'[PinOf(q)] = "using"
         => memory'[KeyOf[PinOf(q)]] = memory[KeyOf[PinOf(q)]]
  <2>1. [StoreNext]_storeVars
    BY ReloadStoreStep DEF ReloadInv
  <2>2. UNCHANGED storeVars => UNCHANGED memory
    BY DEF storeVars, entryVars
  <2> QED
    BY <1>b, <2>1, <2>2, StorePinStep DEF ReloadInv
<1>d. ASSUME kept'[q] = kept[q], op'[q] = op[q] \/ op[q] \notin {"idle", "done", "aborted"},
             op[q] # "idle" => op'[q] # "idle",
             op[q] = "idle" => storePC'[q] = storePC[q],
             storePC[PinOf(q)] \in {"new", "using"} => storePC'[PinOf(q)] = storePC[PinOf(q)]
      PROVE  Kept(q)'
  BY <1>a, <1>b, <1>c, <1>d
<1> HIDE DEF Kept
<1>1. ASSUME NEW o \in Creations, Create(o) PROVE Kept(q)'
  BY <1>1, <1>b, <1>d DEF Create, Agents, Ops, storeVars
<1>2. ASSUME NEW o \in Rebuilds, Pin(o) PROVE Kept(q)'
  <2>1. CASE o = q
    BY <1>2, <1>a, <1>b, <2>1 DEF Kept, Pin, Hold, AddRef, storeVars, entryVars
  <2>2. CASE o # q
    <3>1. PinOf(o) # PinOf(q)
      BY <2>2 DEF PinOf
    <3> QED
      BY <1>2, <1>b, <1>d, <2>2, <3>1 DEF Pin, Hold, storeVars, Agents, Ops
  <2> QED
    BY <2>1, <2>2
<1>3. ASSUME NEW o \in Rebuilds \cup Removals, Remove(o) PROVE Kept(q)'
  BY <1>3, <1>b, <1>d DEF Remove, storeVars, Ops, Agents
<1>4. ASSUME NEW o \in Shutdowns, ShutDown(o) \/ NextVictim(o) \/ ClearRegistry(o) PROVE Kept(q)'
  BY <1>4, <1>b, <1>d DEF ShutDown, NextVictim, ClearRegistry, storeVars, Ops, Agents, opVars
<1>e. ASSUME NEW g \in Agents, CloseRuntime(g) \/ Close(g)
      PROVE  /\ op[q] = "idle" => storePC'[q] = storePC[q]
             /\ storePC'[PinOf(q)] = storePC[PinOf(q)]
  BY <1>a, <1>e, RuntimePlace DEF Kept
<1>5. ASSUME NEW o \in Ops, CloseStep(o) PROVE Kept(q)'
  <2>1. CASE CheckVictim(o) \/ VictimClosed(o)
    BY <1>b, <1>d, <2>1 DEF CheckVictim, CheckBusy, VictimClosed, storeVars
  <2>2. CASE ReleaseVictim(o)
    BY <1>b, <1>d, <1>e, <2>2 DEF ReleaseVictim, ReloadInv, PlacesInv, Closes
  <2> QED
    BY <1>5, <2>1, <2>2 DEF CloseStep
<1>6. ASSUME NEW o \in Agents, BuildStep(o) PROVE Kept(q)'
  <2>1. CASE BuildMemory(o)
    BY <1>b, <1>d, <2>1 DEF BuildMemory, Acquire, Install, opVars
  <2>2. CASE Register(o) \/ BuildFails(o)
    BY <1>b, <1>d, <2>2 DEF Register, BuildFails, storeVars
  <2>3. CASE Leave(o)
    <3>1. CASE o = q
      BY <1>b, <2>3, <3>1 DEF Leave, Kept
    <3>2. CASE o # q
      <4>1. PinOf(o) # PinOf(q)
        BY <3>2 DEF PinOf
      <4> QED
        BY <1>b, <1>d, <2>3, <3>2, <4>1 DEF Leave, Unhold, Release, storeVars, Agents
    <3> QED
      BY <3>1, <3>2
  <2>4. CASE Collect(o)
    BY <1>b, <1>d, <1>e, <2>4 DEF Collect, opVars
  <2> QED
    BY <1>6, <2>1, <2>2, <2>3, <2>4 DEF BuildStep
<1>7. ASSUME NEW t \in Turns, LookUp(t) \/ TurnStep(t) PROVE Kept(q)'
  <2>1. CASE CaptureEnds(t)
    <3>1. on[t] \in Agents /\ UNCHANGED opVars
      BY <2>1 DEF CaptureEnds, ReloadInv, PlacesInv
    <3>2. CASE UNCHANGED storeVars
      BY <1>b, <1>d, <3>1, <3>2 DEF storeVars, opVars
    <3>3. CASE Close(on[t])
      BY <1>b, <1>d, <1>e, <3>1, <3>3 DEF opVars
    <3> QED
      BY <2>1, <3>2, <3>3 DEF CaptureEnds
  <2>2. CASE DeferredRelease(t)
    BY <1>b, <1>d, <1>e, <2>2 DEF DeferredRelease, ReloadInv, PlacesInv, opVars
  <2>3. CASE LookUp(t) \/ Enter(t) \/ Capture(t) \/ End(t) \/ DeferredCheck(t)
    BY <1>b, <1>d, <2>3 DEF LookUp, Enter, Capture, End, DeferredCheck, opVars, storeVars
  <2> QED
    BY <1>7, <2>1, <2>2, <2>3 DEF TurnStep
<1>8. ASSUME NEW a \in Agents \cup Pins, CloseConnections(a) PROVE Kept(q)'
  BY <1>8, <1>a, <1>b, <1>d DEF Kept, CloseConnections, CloseResources, opVars
<1>9. ASSUME UNCHANGED vars PROVE Kept(q)'
  BY <1>9, <1>b, <1>d DEF vars, opVars, storeVars
<1> QED
  BY <1>1, <1>2, <1>3, <1>4, <1>5, <1>6, <1>7, <1>8, <1>9 DEF Next

\* Only the agent under construction gets a Memory; a Memory is pinned only
\* before the rebuild has one.
LEMMA LeaseSteps ==
    ASSUME TypeOK, ReloadInv, [Next]_vars, NEW q \in Rebuilds
    PROVE  \/ kept'[q] = kept[q] /\ lease'[q] \in {lease[q], None}
           \/ kept'[q] = kept[q] /\ op'[q] = "building"
           \/ op[q] = "idle" /\ lease'[q] = lease[q]
<1> USE AgentFacts DEF TypeOK, StoreTypeOK
<1> DEFINE Same == kept'[q] = kept[q] /\ lease'[q] \in {lease[q], None}
<1>a. q \in Agents /\ q \in Ops /\ q \in Users
  BY DEF Agents
<1>b. ASSUME NEW g \in Agents, CloseRuntime(g) \/ Close(g), UNCHANGED kept PROVE Same
  BY <1>a, <1>b DEF CloseRuntime, Close, storeVars
<1>c. ASSUME UNCHANGED <<kept, lease>> PROVE Same
  BY <1>c
<1>d. UNCHANGED storeVars => UNCHANGED lease
  BY DEF storeVars
<1>e. UNCHANGED opVars => UNCHANGED kept
  BY DEF opVars
<1> HIDE DEF Same
<1>1. ASSUME NEW o \in Ops, Create(o) \/ Remove(o) \/ ShutDown(o) \/ NextVictim(o) \/ ClearRegistry(o)
      PROVE  Same
  BY <1>1, <1>c, <1>d DEF Create, Remove, ShutDown, NextVictim, ClearRegistry
<1>2. ASSUME NEW o \in Rebuilds, Pin(o)
      PROVE  Same \/ (op[q] = "idle" /\ lease'[q] = lease[q])
  BY <1>2, <1>a, <1>d DEF Same, Pin, Hold
<1>3. ASSUME NEW o \in Ops, CloseStep(o) PROVE Same
  <2>1. ReleaseVictim(o) => victim[o] \in Agents /\ CloseRuntime(victim[o]) /\ UNCHANGED kept
    BY DEF ReleaseVictim, ReloadInv, PlacesInv, Closes
  <2> QED
    BY <1>3, <1>b, <1>c, <1>d, <2>1 DEF CloseStep, CheckVictim, VictimClosed
<1>4. ASSUME NEW o \in Agents, BuildStep(o)
      PROVE  Same \/ (kept'[q] = kept[q] /\ op'[q] = "building")
  <2>1. CASE BuildMemory(o)
    BY <2>1, <1>a DEF Same, BuildMemory, Acquire, Install, opVars
  <2>2. CASE Collect(o)
    BY <2>2, <1>b, <1>e DEF Collect
  <2>3. CASE Register(o) \/ BuildFails(o) \/ Leave(o)
    BY <2>3, <1>c, <1>d DEF Register, BuildFails, Leave, Unhold
  <2> QED
    BY <1>4, <2>1, <2>2, <2>3 DEF BuildStep
<1>5. ASSUME NEW t \in Turns, LookUp(t) \/ TurnStep(t) PROVE Same
  <2>1. CASE CaptureEnds(t) \/ DeferredRelease(t)
    BY <2>1, <1>b, <1>c, <1>d, <1>e DEF CaptureEnds, DeferredRelease, ReloadInv, PlacesInv
  <2>2. CASE LookUp(t) \/ Enter(t) \/ Capture(t) \/ End(t) \/ DeferredCheck(t)
    BY <2>2, <1>c, <1>d, <1>e DEF LookUp, Enter, Capture, End, DeferredCheck
  <2> QED
    BY <1>5, <2>1, <2>2 DEF TurnStep
<1>6. ASSUME NEW a \in Agents \cup Pins, CloseConnections(a) PROVE Same
  BY <1>6, <1>c, <1>e DEF CloseConnections, CloseResources
<1>7. ASSUME UNCHANGED vars PROVE Same
  BY <1>7, <1>c, <1>d, <1>e DEF vars
<1>8. Creations \cup Rebuilds \cup Removals \cup Shutdowns \subseteq Ops
  BY DEF Ops, Agents
<1> QED
  BY <1>1, <1>2, <1>3, <1>4, <1>5, <1>6, <1>7, <1>8 DEF Next, Same

LEMMA RebuildStep ==
    ASSUME TypeOK, ReloadInv, [Next]_vars, KeptInv', ShareInv'
    PROVE  RebuildKeepsMemory'
<1> SUFFICES ASSUME NEW q \in Rebuilds, kept'[q] # None, lease'[q] # None
             PROVE  lease'[q] = kept'[q]
  BY DEF RebuildKeepsMemory
<1>1. q \in Users /\ KeyOf[PinOf(q)] = KeyOf[q]
  BY AgentFacts DEF Agents
<1>2. CASE kept'[q] = kept[q] /\ lease'[q] \in {lease[q], None}
  BY <1>2 DEF ReloadInv, RebuildKeepsMemory
<1>3. CASE kept'[q] = kept[q] /\ op'[q] = "building"
  <2>1. memory'[KeyOf[q]] = kept'[q]
    BY <1>1, <1>3 DEF KeptInv
  <2>2. lease'[q] = memory'[KeyOf[q]]
    BY <1>1 DEF ShareInv
  <2> QED
    BY <2>1, <2>2
<1>4. CASE op[q] = "idle" /\ lease'[q] = lease[q]
  <2>1. storePC[q] = "new"
    BY <1>4 DEF ReloadInv, KeptInv
  <2> QED
    BY <1>1, <1>4, <2>1 DEF ReloadInv, ShareInv, Working
<1> QED
  BY <1>2, <1>3, <1>4, LeaseSteps

-----------------------------------------------------------------------------
(***************************************************************************)
(* Turns and captures, while the event loop is the only one that removes   *)
(* agents.                                                                 *)
(***************************************************************************)

LEMMA NeverIdleAgain ==
    ASSUME TypeOK, [Next]_vars, NEW o \in Ops, op[o] # "idle"
    PROVE  op'[o] # "idle"
<1> USE AgentFacts DEF TypeOK, To, opVars
<1>1. ASSUME NEW p \in Ops,
             \/ Create(p) \/ Pin(p) \/ Remove(p) \/ ShutDown(p) \/ NextVictim(p)
             \/ ClearRegistry(p) \/ CloseStep(p) \/ BuildStep(p)
      PROVE  op'[o] # "idle"
  BY <1>1 DEF Create, Pin, Remove, ShutDown, NextVictim, ClearRegistry, CloseStep, CheckVictim,
              CheckBusy, ReleaseVictim, VictimClosed, BuildStep, BuildMemory, Register,
              BuildFails, Leave, Collect
<1>2. ASSUME NEW t \in Turns, LookUp(t) \/ TurnStep(t)
      PROVE  op'[o] # "idle"
  BY <1>2 DEF LookUp, TurnStep, Enter, Capture, CaptureEnds, End, DeferredCheck, DeferredRelease
<1>3. ASSUME NEW a \in Agents \cup Pins, CloseConnections(a)
      PROVE  op'[o] # "idle"
  BY <1>3 DEF CloseConnections
<1>4. ASSUME UNCHANGED vars PROVE op'[o] # "idle"
  BY <1>4 DEF vars
<1>5. Creations \cup Rebuilds \cup Removals \cup Shutdowns \cup Agents \subseteq Ops
  BY DEF Ops, Agents
<1> QED
  BY <1>1, <1>2, <1>3, <1>4, <1>5 DEF Next

LEMMA RunningCounted ==
    ASSUME PlacesInv, NEW t \in Turns, turn[t] \in {"running", "captured"}
    PROVE  inFlight[on[t]] # 0
<1>1. on[t] \in Agents /\ t \in RunningOn(on[t])
  BY DEF PlacesInv, RunningOn
<1>2. inFlight[on[t]] = Cardinality(RunningOn(on[t]))
  BY <1>1 DEF PlacesInv
<1>3. Cardinality(RunningOn(on[t])) # 0
  BY <1>1, RunningFinite, FS_EmptySet
<1> QED
  BY <1>2, <1>3

\* Nobody runs who could take an agent away from the event loop.
LEMMA ActsOnLoop ==
    ASSUME TypeOK, OnLoop', NEW o \in Ops, op'[o] # "idle"
    PROVE  o \notin Shutdowns /\ (o \in ThreadOps => o \in Creations)
BY DEF OnLoop

LEMMA RegisteredStep ==
    ASSUME TypeOK, PlacesInv, LoopInv, OnLoop', [Next]_vars
    PROVE  RegisteredLive'
<1> USE AgentFacts DEF TypeOK, StoreTypeOK, To, Closes, ClosesAgent, agentVars, opVars, turnVars,
                       storeVars
<1>a. /\ \A i \in Ids : registry[i] # None =>
            registry[i] \in Agents /\ IdOf[registry[i]] = i /\ Live(registry[i])
      /\ BuiltInv
  BY DEF LoopInv, RegisteredLive
<1>1. ASSUME NEW o \in Creations, Create(o) PROVE RegisteredLive'
  BY <1>1, <1>a DEF Create, RegisteredLive, Live, Ops, Agents
<1>2. ASSUME NEW o \in Rebuilds, Pin(o) PROVE RegisteredLive'
  BY <1>2, <1>a DEF Pin, Hold, RegisteredLive, Live, Ops, Agents
<1>3. ASSUME NEW o \in Rebuilds \cup Removals, Remove(o) PROVE RegisteredLive'
  BY <1>3, <1>a DEF Remove, RegisteredLive, Live, Ops, Agents
<1>4. ASSUME NEW o \in Shutdowns, ShutDown(o) \/ NextVictim(o) \/ ClearRegistry(o)
      PROVE  RegisteredLive'
  BY <1>4, ActsOnLoop DEF ShutDown, NextVictim, ClearRegistry, Ops
<1>5. ASSUME NEW o \in Ops, CheckVictim(o) PROVE RegisteredLive'
  BY <1>5, <1>a DEF CheckVictim, CheckBusy, RegisteredLive, Live
<1>6. ASSUME NEW o \in Ops, ReleaseVictim(o) PROVE RegisteredLive'
  BY <1>6, <1>a DEF ReleaseVictim, CloseRuntime, Close, Release, RegisteredLive, Live, PlacesInv
<1>7. ASSUME NEW o \in Ops, VictimClosed(o) PROVE RegisteredLive'
  BY <1>7, <1>a DEF VictimClosed, RegisteredLive, Live
<1>8. ASSUME NEW o \in Agents, BuildMemory(o) PROVE RegisteredLive'
  BY <1>8, <1>a DEF BuildMemory, Acquire, Install, RegisteredLive, Live
<1>9. ASSUME NEW o \in Agents, Register(o) PROVE RegisteredLive'
  BY <1>9, <1>a DEF Register, RegisteredLive, Live, BuiltInv, PlacesInv
<1>10. ASSUME NEW o \in Agents, BuildFails(o) PROVE RegisteredLive'
  BY <1>10, <1>a DEF BuildFails, RegisteredLive, Live
<1>11. ASSUME NEW o \in Agents, Leave(o) PROVE RegisteredLive'
  BY <1>11, <1>a DEF Leave, Unhold, Release, RegisteredLive, Live
<1>12. ASSUME NEW o \in Agents, Collect(o) PROVE RegisteredLive'
  BY <1>12, <1>a DEF Collect, CloseRuntime, Close, Release, RegisteredLive, Live
<1>13. ASSUME NEW t \in Turns, LookUp(t) \/ Enter(t) \/ Capture(t) PROVE RegisteredLive'
  BY <1>13, <1>a DEF LookUp, Enter, Capture, RegisteredLive, Live
<1>14. ASSUME NEW t \in Turns, CaptureEnds(t) PROVE RegisteredLive'
  BY <1>14, <1>a DEF CaptureEnds, Close, Release, RegisteredLive, Live, PlacesInv
<1>15. ASSUME NEW t \in Turns, End(t) PROVE RegisteredLive'
  BY <1>15, <1>a DEF End, RegisteredLive, Live
<1>16. ASSUME NEW t \in Turns, DeferredCheck(t) PROVE RegisteredLive'
  BY <1>16, <1>a DEF DeferredCheck, CheckBusy, RegisteredLive, Live
<1>17. ASSUME NEW t \in Turns, DeferredRelease(t) PROVE RegisteredLive'
  BY <1>17, <1>a DEF DeferredRelease, CloseRuntime, Close, Release, RegisteredLive, Live, PlacesInv
<1>18. ASSUME NEW a \in Agents \cup Pins, CloseConnections(a) PROVE RegisteredLive'
  BY <1>18, <1>a DEF CloseConnections, CloseResources, RegisteredLive, Live
<1>19. ASSUME UNCHANGED vars PROVE RegisteredLive'
  BY <1>19, <1>a DEF vars, RegisteredLive, Live
<1> QED
  BY <1>1, <1>2, <1>3, <1>4, <1>5, <1>6, <1>7, <1>8, <1>9, <1>10, <1>11, <1>12, <1>13, <1>14,
     <1>15, <1>16, <1>17, <1>18, <1>19 DEF Next, CloseStep, BuildStep, TurnStep

LEMMA BuiltStep ==
    ASSUME TypeOK, PlacesInv, LoopInv, OnLoop', [Next]_vars
    PROVE  BuiltInv'
<1> USE AgentFacts DEF TypeOK, StoreTypeOK, To, Closes, agentVars, opVars, turnVars, PlacesInv
<1>a. BuiltInv /\ RegisteredLive
  BY DEF LoopInv
<1>1. ASSUME NEW o \in Creations, Create(o) PROVE BuiltInv'
  BY <1>1, <1>a DEF Create, BuiltInv, Ops, Agents
<1>2. ASSUME NEW o \in Rebuilds, Pin(o) PROVE BuiltInv'
  BY <1>2, <1>a DEF Pin, BuiltInv, Ops, Agents
<1>3. ASSUME NEW o \in Rebuilds \cup Removals, Remove(o) PROVE BuiltInv'
  BY <1>3, <1>a DEF Remove, BuiltInv, RegisteredLive, Live, Ops, Agents
<1>4. ASSUME NEW o \in Shutdowns, ShutDown(o) \/ NextVictim(o) \/ ClearRegistry(o)
      PROVE  BuiltInv'
  BY <1>4, ActsOnLoop DEF ShutDown, NextVictim, ClearRegistry, Ops
<1>5. ASSUME NEW o \in Ops, CheckVictim(o) PROVE BuiltInv'
  <2>1. /\ victim[o] \in Agents /\ op[victim[o]] \in {"built", "done"}
        /\ op[o] = "removed" /\ UNCHANGED <<victim, turn, on, runtime>>
    BY <1>5, <1>a DEF CheckVictim, BuiltInv
  <2>2. /\ pending' \subseteq pending \cup {victim[o]}
        /\ \E l \in {"closed", "releasing"} : op' = [op EXCEPT ![o] = l]
    BY <1>5 DEF CheckVictim, CheckBusy
  <2> QED
    BY <1>a, <2>1, <2>2 DEF BuiltInv
<1>6. ASSUME NEW o \in Ops, ReleaseVictim(o) PROVE BuiltInv'
  BY <1>6, <1>a DEF ReleaseVictim, CloseRuntime, BuiltInv
<1>7. ASSUME NEW o \in Ops, VictimClosed(o) PROVE BuiltInv'
  BY <1>7, <1>a DEF VictimClosed, BuiltInv
<1>8. ASSUME NEW o \in Agents, BuildMemory(o) \/ Register(o) \/ BuildFails(o) \/ Leave(o)
      PROVE  BuiltInv'
  BY <1>8, <1>a DEF BuildMemory, Register, BuildFails, Leave, BuiltInv
<1>9. ASSUME NEW o \in Agents, Collect(o) PROVE BuiltInv'
  BY <1>9, <1>a DEF Collect, CloseRuntime, BuiltInv
<1>10. ASSUME NEW t \in Turns, LookUp(t) \/ Enter(t) \/ Capture(t) PROVE BuiltInv'
  BY <1>10, <1>a DEF LookUp, Enter, Capture, BuiltInv, RegisteredLive, Live
<1>11. ASSUME NEW t \in Turns, CaptureEnds(t) PROVE BuiltInv'
  BY <1>11, <1>a DEF CaptureEnds, BuiltInv
<1>12. ASSUME NEW t \in Turns, End(t) PROVE BuiltInv'
  BY <1>12, <1>a DEF End, BuiltInv
<1>13. ASSUME NEW t \in Turns, DeferredCheck(t) PROVE BuiltInv'
  BY <1>13, <1>a DEF DeferredCheck, CheckBusy, BuiltInv
<1>14. ASSUME NEW t \in Turns, DeferredRelease(t) PROVE BuiltInv'
  BY <1>14, <1>a DEF DeferredRelease, CloseRuntime, BuiltInv
<1>15. ASSUME NEW a \in Agents \cup Pins, CloseConnections(a) PROVE BuiltInv'
  BY <1>15, <1>a DEF CloseConnections, BuiltInv
<1>16. ASSUME UNCHANGED vars PROVE BuiltInv'
  BY <1>16, <1>a DEF vars, BuiltInv
<1> QED
  BY <1>1, <1>2, <1>3, <1>4, <1>5, <1>6, <1>7, <1>8, <1>9, <1>10, <1>11, <1>12, <1>13, <1>14,
     <1>15, <1>16 DEF Next, CloseStep, BuildStep, TurnStep

LEMMA FoundStep ==
    ASSUME TypeOK, PlacesInv, LoopInv, OnLoop', [Next]_vars
    PROVE  FoundInv'
<1> USE AgentFacts DEF TypeOK, To, agentVars, opVars, turnVars, PlacesInv
<1>a. FoundInv
  BY DEF LoopInv
<1>b. Creations \cup Rebuilds \cup Removals \cup Shutdowns \cup Agents \subseteq Ops
  BY DEF Ops, Agents
\* While a turn that has found its agent keeps the loop, no operation runs there.
<1>c. ASSUME NEW o \in Ops, MayRun(o), o \notin ThreadOps PROVE \A t \in Turns : turn[t] # "found"
  BY <1>a, <1>c DEF MayRun, FoundInv
<1>d. ASSUME NEW o \in Ops, MayRun(o), Keeps(o) \/ Yields(o) \/ UNCHANGED loop,
             UNCHANGED <<registry, turn, on>>
      PROVE  FoundInv'
  BY <1>a, <1>c, <1>d DEF Keeps, Yields, FoundInv
<1>1. ASSUME NEW o \in Ops, Create(o) \/ BuildFails(o) \/ BuildMemory(o) \/ Collect(o) PROVE FoundInv'
  BY <1>1, <1>a DEF Create, BuildFails, BuildMemory, Collect, FoundInv
<1>2. ASSUME NEW o \in Ops, Pin(o) \/ Leave(o) PROVE FoundInv'
  BY <1>2, <1>d DEF Pin, Leave
<1>3. ASSUME NEW o \in Rebuilds \cup Removals, Remove(o) PROVE FoundInv'
  <2>1. o \in Ops /\ op'[o] # "idle" /\ MayRun(o) /\ UNCHANGED <<turn, on>>
    BY <1>3, <1>b DEF Remove
  <2>2. o \notin ThreadOps
    BY <2>1, ActsOnLoop, ReloadAssumption DEF Agents
  <2> QED
    BY <1>c, <2>1, <2>2 DEF FoundInv
<1>4. ASSUME NEW o \in Shutdowns, ShutDown(o) \/ NextVictim(o) \/ ClearRegistry(o)
      PROVE  FoundInv'
  BY <1>4, ActsOnLoop DEF ShutDown, NextVictim, ClearRegistry, Ops
<1>5. ASSUME NEW o \in Ops, CheckVictim(o) \/ ReleaseVictim(o) \/ VictimClosed(o) PROVE FoundInv'
  BY <1>5, <1>d DEF CheckVictim, CheckBusy, ReleaseVictim, VictimClosed
<1>6. ASSUME NEW o \in Agents, Register(o) PROVE FoundInv'
  BY <1>6, <1>a DEF Register, FoundInv
<1>7. ASSUME NEW t \in Turns, LookUp(t) PROVE FoundInv'
  BY <1>7, <1>a, ReloadAssumption DEF LookUp, MayRun, Keeps, FoundInv, Ops, Agents
<1>8. ASSUME NEW t \in Turns, Enter(t) \/ Capture(t) \/ End(t) \/ DeferredCheck(t) \/ DeferredRelease(t)
      PROVE  FoundInv'
  BY <1>8, <1>a, ReloadAssumption
     DEF Enter, Capture, End, DeferredCheck, CheckBusy, DeferredRelease, MayRun, Keeps, Yields,
         FoundInv, Ops, Agents
<1>9. ASSUME NEW t \in Turns, CaptureEnds(t) PROVE FoundInv'
  BY <1>9, <1>a DEF CaptureEnds, FoundInv
<1>10. ASSUME NEW a \in Agents \cup Pins, CloseConnections(a) PROVE FoundInv'
  BY <1>10, <1>a DEF CloseConnections, FoundInv
<1>11. ASSUME UNCHANGED vars PROVE FoundInv'
  BY <1>11, <1>a DEF vars, FoundInv
<1> QED
  BY <1>b, <1>1, <1>2, <1>3, <1>4, <1>5, <1>6, <1>7, <1>8, <1>9, <1>10, <1>11
     DEF Next, CloseStep, BuildStep, TurnStep

LEMMA ReleaseStep ==
    ASSUME TypeOK, TypeOK', PlacesInv, LoopInv, OnLoop', [Next]_vars
    PROVE  ReleaseInv'
<1> USE AgentFacts DEF To, Closes, ClosesAgent, agentVars, opVars, turnVars, PlacesInv
<1>a. ReleaseInv /\ RegisteredLive /\ FoundInv
  BY DEF LoopInv
<1>1. ASSUME NEW o \in Ops,
             \/ Create(o) \/ Pin(o) \/ Remove(o) \/ BuildMemory(o) \/ Register(o)
             \/ BuildFails(o) \/ Leave(o) \/ Collect(o) \/ VictimClosed(o) \/ ReleaseVictim(o)
      PROVE  ReleaseInv'
  BY <1>1, <1>a DEF Create, Pin, Remove, BuildMemory, Register, BuildFails, Leave, Collect,
                    VictimClosed, ReleaseVictim, ReleaseInv, TypeOK
<1>2. ASSUME NEW o \in Shutdowns, ShutDown(o) \/ NextVictim(o) \/ ClearRegistry(o)
      PROVE  ReleaseInv'
  BY <1>2, ActsOnLoop DEF ShutDown, NextVictim, ClearRegistry, Ops, TypeOK
<1>3. ASSUME NEW o \in Ops, CheckVictim(o) PROVE ReleaseInv'
  BY <1>3, <1>a DEF CheckVictim, CheckBusy, ReleaseInv, TypeOK
<1>4. ASSUME NEW t \in Turns, LookUp(t) \/ Capture(t) \/ CaptureEnds(t) \/ DeferredRelease(t)
      PROVE  ReleaseInv'
  BY <1>4, <1>a DEF LookUp, Capture, CaptureEnds, DeferredRelease, ReleaseInv, TypeOK
<1>5. ASSUME NEW t \in Turns, Enter(t) PROVE ReleaseInv'
  <2>1. on[t] \in Agents /\ Live(on[t])
    BY <1>5, <1>a DEF Enter, FoundInv, RegisteredLive, TypeOK
  <2> QED
    BY <1>5, <1>a, <2>1 DEF Enter, Live, ReleaseInv, TypeOK
<1>6. ASSUME NEW t \in Turns, End(t) PROVE ReleaseInv'
  <2>1. on[t] \in Agents /\ inFlight[on[t]] # 0
    BY <1>6, RunningCounted DEF End
  <2> QED
    BY <1>6, <1>a, <2>1 DEF End, ReleaseInv, TypeOK
<1>7. ASSUME NEW t \in Turns, DeferredCheck(t) PROVE ReleaseInv'
  BY <1>7, <1>a DEF DeferredCheck, CheckBusy, ReleaseInv, TypeOK
<1>8. ASSUME NEW a \in Agents \cup Pins, CloseConnections(a) PROVE ReleaseInv'
  BY <1>8, <1>a DEF CloseConnections, ReleaseInv
<1>9. ASSUME UNCHANGED vars PROVE ReleaseInv'
  BY <1>9, <1>a DEF vars, ReleaseInv
<1>10. Creations \cup Rebuilds \cup Removals \cup Shutdowns \cup Agents \subseteq Ops
  BY DEF Ops, Agents
<1> QED
  BY <1>1, <1>2, <1>3, <1>4, <1>5, <1>6, <1>7, <1>8, <1>9, <1>10
     DEF Next, CloseStep, BuildStep, TurnStep

LEMMA WorkStep ==
    ASSUME TypeOK, PlacesInv, LoopInv, OnLoop', [Next]_vars
    PROVE  WorkInv'
<1> USE AgentFacts DEF TypeOK, StoreTypeOK, agentVars, opVars, turnVars, storeVars, PlacesInv
<1>a. WorkInv /\ RegisteredLive /\ FoundInv /\ ReleaseInv /\ BuiltInv
  BY DEF LoopInv
<1>b. ASSUME UNCHANGED <<turn, on, capturing, runtime>>,
             \A g \in Agents : storePC[g] = "using" => storePC'[g] = "using"
      PROVE  WorkInv'
  BY <1>a, <1>b DEF WorkInv
<1>c. ASSUME NEW g \in Agents, CloseRuntime(g), UNCHANGED <<on, capturing>>,
             \A t \in Turns : turn'[t] \in {"running", "captured"} =>
                                 turn[t] \in {"running", "captured"} /\ on[t] # g
      PROVE  WorkInv'
  BY <1>a, <1>c DEF CloseRuntime, CapturesOf, Close, Release, WorkInv
<1>1. ASSUME NEW o \in Ops, Create(o) \/ Remove(o) \/ CheckVictim(o) \/ VictimClosed(o)
      PROVE  WorkInv'
  BY <1>1, <1>b DEF Create, Remove, CheckVictim, VictimClosed
<1>2. ASSUME NEW o \in Rebuilds, Pin(o) PROVE WorkInv'
  BY <1>2, <1>b DEF Pin, Hold
<1>3. ASSUME NEW o \in Shutdowns, ShutDown(o) \/ NextVictim(o) \/ ClearRegistry(o)
      PROVE  WorkInv'
  BY <1>3, <1>b DEF ShutDown, NextVictim, ClearRegistry
<1>4. ASSUME NEW o \in Ops, ReleaseVictim(o) PROVE WorkInv'
  <2>1. /\ victim[o] \in Agents /\ CloseRuntime(victim[o])
        /\ inFlight[victim[o]] = 0 /\ UNCHANGED <<turn, on, capturing>>
    BY <1>4, <1>a DEF ReleaseVictim, Closes, ReleaseInv
  <2> QED
    BY <1>c, <2>1, RunningCounted
<1>5. ASSUME NEW o \in Agents, BuildMemory(o) \/ Register(o) \/ BuildFails(o) \/ Leave(o)
      PROVE  WorkInv'
  BY <1>5, <1>b DEF BuildMemory, Acquire, Install, Register, BuildFails, Leave, Unhold, Release
<1>6. ASSUME NEW o \in Agents, Collect(o) PROVE WorkInv'
  <2>1. \A t \in Turns : turn[t] \notin {"idle", "refused"} => on[t] # o
    BY <1>6, <1>a DEF Collect, BuiltInv
  <2>2. CloseRuntime(o) /\ UNCHANGED <<turn, on, capturing>>
    BY <1>6 DEF Collect
  <2> QED
    BY <1>c, <2>1, <2>2
<1>7. ASSUME NEW t \in Turns, LookUp(t) PROVE WorkInv'
  BY <1>7, <1>a DEF LookUp, WorkInv
<1>8. ASSUME NEW t \in Turns, Enter(t) PROVE WorkInv'
  <2>1. on[t] \in Agents /\ Live(on[t])
    BY <1>8, <1>a DEF Enter, FoundInv, RegisteredLive
  <2> QED
    BY <1>8, <1>a, <2>1 DEF Enter, Live, WorkInv
<1>9. ASSUME NEW t \in Turns, Capture(t) \/ End(t) \/ DeferredCheck(t) PROVE WorkInv'
  BY <1>9, <1>a DEF Capture, End, DeferredCheck, CheckBusy, WorkInv
<1>10. ASSUME NEW t \in Turns, CaptureEnds(t) PROVE WorkInv'
  BY <1>10, <1>a DEF CaptureEnds, CapturesOf, Close, Release, WorkInv
<1>11. ASSUME NEW t \in Turns, DeferredRelease(t) PROVE WorkInv'
  <2>1. /\ on[t] \in Agents /\ CloseRuntime(on[t]) /\ inFlight[on[t]] = 0
        /\ UNCHANGED <<on, capturing>>
        /\ \A v \in Turns : turn'[v] \in {"running", "captured"} => turn[v] = turn'[v]
    BY <1>11, <1>a DEF DeferredRelease, ReleaseInv
  <2> QED
    BY <1>c, <2>1, RunningCounted
<1>12. ASSUME NEW a \in Agents \cup Pins, CloseConnections(a) PROVE WorkInv'
  BY <1>12, <1>b DEF CloseConnections, CloseResources
<1>13. ASSUME UNCHANGED vars PROVE WorkInv'
  BY <1>13, <1>b DEF vars
<1>14. Creations \cup Rebuilds \cup Removals \cup Shutdowns \cup Agents \subseteq Ops
  BY DEF Ops, Agents
<1> QED
  BY <1>1, <1>2, <1>3, <1>4, <1>5, <1>6, <1>7, <1>8, <1>9, <1>10, <1>11, <1>12, <1>13, <1>14
     DEF Next, CloseStep, BuildStep, TurnStep

-----------------------------------------------------------------------------
(***************************************************************************)
(* The theorems.                                                           *)
(***************************************************************************)

LEMMA ReloadInductive == Spec => [](TypeOK /\ ReloadInv)
<1>1. Init => TypeOK /\ ReloadInv
  <2> SUFFICES ASSUME Init PROVE TypeOK /\ ReloadInv
    OBVIOUS
  <2> USE AgentFacts DEF Init, StoreInit
  <2>1. TypeOK
    BY DEF TypeOK, StoreTypeOK, PCs, OpPCs, TurnPCs
  <2>2. LeakInv /\ ShareInv
    <3>1. \A k \in Keys : Holders(k) = {}
      BY DEF Holders
    <3> QED
      BY <3>1, FS_EmptySet, StoreAssumption
         DEF LeakInv, NoneLeaks, InMap, InHand, ShareInv, RefsExact, Working
  <2>3. PlacesInv
    <3>1. \A g \in Agents : RunningOn(g) = {}
      BY DEF RunningOn
    <3> QED
      BY <3>1, FS_EmptySet DEF PlacesInv, Closes
  <2>4. KeptInv /\ RebuildKeepsMemory
    BY DEF KeptInv, RebuildKeepsMemory, Agents, Ops
  <2>5. LoopInv
    BY DEF LoopInv, RegisteredLive, BuiltInv, FoundInv, ReleaseInv, WorkInv, Closes
  <2> QED
    BY <2>1, <2>2, <2>3, <2>4, <2>5 DEF ReloadInv
<1>2. TypeOK /\ ReloadInv /\ [Next]_vars => TypeOK' /\ ReloadInv'
  <2> SUFFICES ASSUME TypeOK, ReloadInv, [Next]_vars PROVE TypeOK' /\ ReloadInv'
    OBVIOUS
  <2>1. LeakInv /\ ShareInv /\ PlacesInv /\ StoreTypeOK
    BY DEF ReloadInv, TypeOK
  <2>2. TypeOK' /\ PlacesInv' /\ KeptInv'
    BY <2>1, ReloadTypeStep, PlacesStep, KeptStep
  <2>3. LeakInv' /\ ShareInv'
    BY <2>1, ReloadStoreStep, StoreLeakStep, StoreShareStep, ReloadAssumption
  <2>4. RebuildKeepsMemory'
    BY <2>2, <2>3, RebuildStep
  <2>5. ASSUME OnLoop' PROVE LoopInv'
    <3>1. OnLoop
      BY <2>5, NeverIdleAgain, ReloadAssumption DEF OnLoop, Ops, Agents
    <3>2. LoopInv
      BY <3>1 DEF ReloadInv
    <3> QED
      BY <2>1, <2>2, <2>5, <3>2, RegisteredStep, BuiltStep, FoundStep, ReleaseStep, WorkStep DEF LoopInv
  <2> QED
    BY <2>2, <2>3, <2>4, <2>5 DEF ReloadInv
<1> QED
  BY <1>1, <1>2, PTL DEF Spec

\* The variables of the manager, its agents and the store keep their types.
THEOREM ReloadTypeCorrect == Spec => []TypeOK
BY ReloadInductive, PTL

\* The manager uses the store as MemoryStore says: create, rebuild, remove
\* and shut down (manager.py), and closing an agent, make only its steps.
THEOREM ReloadUsesStore == Spec => StoreSpec
<1>1. Init => StoreInit
  BY DEF Init
<1>2. TypeOK /\ ReloadInv /\ [Next]_vars => [StoreNext]_storeVars
  BY ReloadStoreStep DEF ReloadInv
<1> QED
  BY <1>1, <1>2, ReloadInductive, PTL DEF Spec, StoreSpec

\* A rebuilt agent gets the Memory that its rebuild pinned, whatever else
\* happens to the old agent or at the same location.
THEOREM ReloadKeepsMemory == Spec => []RebuildKeepsMemory
<1>1. ReloadInv => RebuildKeepsMemory
  BY DEF ReloadInv
<1> QED
  BY <1>1, ReloadInductive, PTL

\* On the event loop no close, rebuild or removal takes the Memory from a
\* running turn or from an accepted capture.
THEOREM ReloadWorkKeepsMemory == Spec => []WorkKeepsMemory
<1>1. TypeOK /\ ReloadInv => WorkKeepsMemory
  <2> SUFFICES ASSUME TypeOK, ReloadInv, OnLoop PROVE TurnKeepsMemory /\ CaptureKeepsMemory
    BY DEF WorkKeepsMemory
  <2>1. ASSUME NEW g \in Agents, storePC[g] = "using" PROVE Usable(g)
    <3>1. StoreTypeOK /\ LeakInv /\ ShareInv
      BY DEF TypeOK, ReloadInv
    <3>2. g \in Users /\ g \in Working /\ g \in Holders(KeyOf[g]) /\ KeyOf[g] \in Keys
      BY <2>1, AgentFacts, StoreAssumption DEF Working, Holders
    <3>3. lease[g] # None
      BY <3>1, <3>2 DEF ShareInv, RefsExact
    <3> QED
      BY <3>1, <3>2, <3>3, ShareIsOpen, AgentFacts DEF InUseIsOpen, Usable
  <2>2. WorkInv /\ PlacesInv
    BY DEF ReloadInv, LoopInv
  <2>3. TurnKeepsMemory
    BY <2>1, <2>2 DEF WorkInv, PlacesInv, TurnKeepsMemory
  <2>4. CaptureKeepsMemory
    BY <2>1, <2>2 DEF WorkInv, PlacesInv, CaptureKeepsMemory, TypeOK
  <2> QED
    BY <2>3, <2>4
<1> QED
  BY <1>1, ReloadInductive, PTL
=============================================================================
