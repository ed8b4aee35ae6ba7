----------------------------- MODULE PartsProofs -----------------------------
(***************************************************************************)
(* Theorems about the parts of an agent's run that share no state: each    *)
(* section proves what one module's specification keeps, by an inductive   *)
(* invariant of that module alone.                                         *)
(***************************************************************************)
EXTENDS DecisionTurns, SequenceTheorems, FiniteSetTheorems, FeedWatch, AcpSession, MediaJobs, ChatModels, TLAPS

-----------------------------------------------------------------------------
\* The decision middleware (DecisionTurns): a turn keeps its filter, and its note binds its calls.

Distinct(s) == \A i, j \in DOMAIN s : s[i] = s[j] => i = j

\* What stands after a in s is in X.
Behind(s, a, X) == \A i, j \in DOMAIN s : s[i] = a /\ i < j => s[j] \in X

LEMMA RemovedShift ==
    ASSUME NEW S, NEW s \in Seq(S), NEW e, Distinct(s)
    PROVE  \/ (\A i \in DOMAIN s : s[i] # e) /\ RemoveFirst(s, e) = s
           \/ \E k \in 1..Len(s) :
                 /\ s[k] = e /\ RemoveFirst(s, e) \in Seq(S) /\ Len(RemoveFirst(s, e)) = Len(s) - 1
                 /\ \A i \in 1..Len(s) - 1 : RemoveFirst(s, e)[i] = IF i < k THEN s[i] ELSE s[i + 1]
<1>1. CASE ~\E i \in 1..Len(s) : s[i] = e
  BY <1>1 DEF RemoveFirst
<1>2. CASE \E i \in 1..Len(s) : s[i] = e
  <2>1. PICK k \in 1..Len(s) : s[k] = e
    BY <1>2
  <2> DEFINE t == SubSeq(s, 1, k - 1) \o SubSeq(s, k + 1, Len(s))
  <2>2. RemoveFirst(s, e) = t
    <3>1. {i \in 1..Len(s) : s[i] = e} = {k}
      BY <2>1 DEF Distinct
    <3>2. Min({k}) = k
      BY DEF Min
    <3>3. SelectInSeq(s, LAMBDA v : v = e) = k
      BY <3>1, <3>2 DEF SelectInSeq
    <3> QED
      BY <1>2, <3>3 DEF RemoveFirst, RemoveAt
  <2>3. /\ t \in Seq(S) /\ Len(t) = Len(s) - 1
        /\ \A i \in 1..Len(s) - 1 : t[i] = IF i < k THEN s[i] ELSE s[i + 1]
    <3>1. k - 1 \in 0..Len(s) /\ k + 1 \in 2..Len(s) + 1 /\ Len(s) \in Nat
      BY <2>1
    <3> DEFINE front == SubSeq(s, 1, k - 1)
               back  == SubSeq(s, k + 1, Len(s))
    <3>2. front \in Seq(S) /\ Len(front) = k - 1 /\ \A i \in 1..k - 1 : front[i] = s[i]
      BY <3>1
    <3>3. back \in Seq(S) /\ Len(back) = Len(s) - k /\ \A i \in 1..Len(s) - k : back[i] = s[k + i]
      BY <3>1
    <3> HIDE DEF front, back
    <3>4. /\ front \o back \in Seq(S) /\ Len(front \o back) = Len(s) - 1
          /\ \A i \in 1..Len(s) - 1 : (front \o back)[i] = IF i < k THEN front[i] ELSE back[i - k + 1]
      <4>1. Len(front) + Len(back) = Len(s) - 1 /\ Len(front) \in Nat /\ Len(back) \in Nat
        BY <3>1, <3>2, <3>3, <2>1
      <4>2. front \o back \in Seq(S) /\ Len(front \o back) = Len(front) + Len(back)
        BY <3>2, <3>3, ConcatProperties
      <4>3. \A i \in 1..Len(front) + Len(back) :
               (front \o back)[i] = IF i <= Len(front) THEN front[i] ELSE back[i - Len(front)]
        BY <3>2, <3>3
      <4>4. \A i \in 1..Len(s) - 1 : (i <= k - 1) = (i < k) /\ i - (k - 1) = i - k + 1
        BY <2>1
      <4> QED
        BY <4>1, <4>2, <4>3, <4>4, <3>2
    <3>5. \A i \in 1..Len(s) - 1 : (front \o back)[i] = IF i < k THEN s[i] ELSE s[i + 1]
      <4> SUFFICES ASSUME NEW i \in 1..Len(s) - 1
                   PROVE  (front \o back)[i] = IF i < k THEN s[i] ELSE s[i + 1]
        OBVIOUS
      <4>1. CASE i < k
        BY <4>1, <3>1, <3>2, <3>4, <2>1
      <4>2. CASE ~(i < k)
        <5>1. i - k + 1 \in 1..Len(s) - k /\ k + (i - k + 1) = i + 1
          BY <4>2, <3>1, <2>1
        <5> QED
          BY <5>1, <4>2, <3>3, <3>4
      <4> QED
        BY <4>1, <4>2
    <3> QED
      BY <3>4, <3>5 DEF front, back
  <2> HIDE DEF t
  <2> QED
    BY <2>1, <2>2, <2>3
<1> QED
  BY <1>1, <1>2

\* What a table of at most cap keys has after a key k is put last in it.
LEMMA NewestFacts ==
    ASSUME NEW S, NEW keys \in Seq(S), NEW cap \in Nat \ {0}, NEW k \in S,
           Distinct(keys), Len(keys) <= cap
    PROVE  LET n == Newest(keys, k, cap) IN
           /\ n \in Seq(S) /\ Len(n) \in 1..cap /\ Distinct(n) /\ n[Len(n)] = k
           /\ \A a \in S : \A X : a # k /\ Behind(keys, a, X) =>
                 /\ a \in ToSet(n) => Behind(n, a, X \cup {k})
                 /\ a \in ToSet(keys) \ ToSet(n) => Len(n) = cap /\ ToSet(n) \subseteq X \cup {k}
           /\ ToSet(n) \subseteq ToSet(keys) \cup {k}
<1> DEFINE rest == RemoveFirst(keys, k)
           all  == Append(rest, k)
           n    == Newest(keys, k, cap)
<1>1. CASE (\A i \in DOMAIN keys : keys[i] # k) /\ Len(keys) = cap
  <2>1. rest = keys
    BY <1>1, RemovedShift
  <2>2. all \in Seq(S) /\ Len(all) = cap + 1 /\ AtLeast(1, Len(all) - cap + 1) = 2
    BY <2>1, <1>1 DEF AtLeast
  <2>3. n = SubSeq(all, 2, cap + 1)
    BY <2>2 DEF Newest
  <2>4. n \in Seq(S) /\ Len(n) = cap /\ \A i \in 1..cap : n[i] = all[i + 1]
    BY <2>2, <2>3
  <2>5. \A i \in 1..cap : n[i] = IF i < cap THEN keys[i + 1] ELSE k
    BY <2>1, <2>4, <1>1
  <2> HIDE DEF n, all, rest
  <2>6. Distinct(n) /\ n[Len(n)] = k
    <3> SUFFICES ASSUME NEW i \in 1..cap, NEW j \in 1..cap, n[i] = n[j] PROVE i = j
      BY <2>4, <2>5 DEF Distinct
    <3>1. i < cap => i + 1 \in DOMAIN keys
      BY <1>1
    <3>2. j < cap => j + 1 \in DOMAIN keys
      BY <1>1
    <3>3. CASE i < cap /\ j < cap
      <4>1. keys[i + 1] = keys[j + 1]
        BY <2>5, <3>3
      <4>2. i + 1 = j + 1
        BY <3>1, <3>2, <3>3, <4>1 DEF Distinct
      <4> QED
        BY <4>2
    <3>4. CASE i < cap /\ j = cap
      <4>1. n[i] = keys[i + 1] /\ n[j] = k
        BY <2>5, <3>4
      <4>2. keys[i + 1] # k
        BY <3>1, <3>4, <1>1
      <4> QED
        BY <4>1, <4>2
    <3>5. CASE i = cap /\ j < cap
      <4>1. n[j] = keys[j + 1] /\ n[i] = k
        BY <2>5, <3>5
      <4>2. keys[j + 1] # k
        BY <3>2, <3>5, <1>1
      <4> QED
        BY <4>1, <4>2
    <3>6. CASE i = cap /\ j = cap
      BY <3>6
    <3> QED
      BY <3>3, <3>4, <3>5, <3>6
  <2>7. ToSet(n) \subseteq ToSet(keys) \cup {k}
    <3>1. \A i \in 1..cap : i < cap => i + 1 \in DOMAIN keys
      BY <1>1
    <3>2. \A i \in 1..cap : n[i] \in ToSet(keys) \cup {k}
      BY <3>1, <2>5 DEF ToSet
    <3>3. DOMAIN n = 1..cap
      BY <2>4
    <3> QED
      BY <3>2, <3>3 DEF ToSet
  <2>8. ASSUME NEW a \in S, NEW X, a # k, Behind(keys, a, X)
        PROVE  /\ a \in ToSet(n) => Behind(n, a, X \cup {k})
               /\ a \in ToSet(keys) \ ToSet(n) => ToSet(n) \subseteq X \cup {k}
    <3>1. Behind(n, a, X \cup {k})
      <4> SUFFICES ASSUME NEW i \in 1..cap, NEW j \in 1..cap, n[i] = a, i < j PROVE n[j] \in X \cup {k}
        BY <2>4 DEF Behind
      <4>1. keys[i + 1] = a /\ i + 1 \in DOMAIN keys
        BY <2>5, <2>8, <1>1
      <4>2. CASE j = cap
        BY <4>2, <2>5
      <4>3. CASE j < cap
        <5>1. j + 1 \in DOMAIN keys /\ i + 1 < j + 1 /\ n[j] = keys[j + 1]
          BY <4>3, <2>5, <1>1
        <5> QED
          BY <5>1, <4>1, <2>8 DEF Behind
      <4> QED
        BY <4>2, <4>3
    <3>2. ASSUME a \in ToSet(keys) \ ToSet(n) PROVE ToSet(n) \subseteq X \cup {k}
      <4>1. PICK h \in 1..cap : keys[h] = a
        BY <3>2, <1>1 DEF ToSet
      <4>2. h = 1
        <5> SUFFICES ASSUME h # 1 PROVE FALSE
          OBVIOUS
        <5>1. h - 1 \in DOMAIN n /\ n[h - 1] = a
          BY <4>1, <2>4, <2>5
        <5>2. a \in ToSet(n)
          BY <5>1 DEF ToSet
        <5> QED
          BY <5>2, <3>2
      <4>3. \A i \in 1..cap : i < cap => n[i] \in X
        <5> SUFFICES ASSUME NEW i \in 1..cap, i < cap PROVE n[i] \in X
          OBVIOUS
        <5>1. i + 1 \in DOMAIN keys /\ 1 < i + 1 /\ 1 \in DOMAIN keys /\ n[i] = keys[i + 1]
          BY <1>1, <2>5
        <5> QED
          BY <5>1, <4>1, <4>2, <2>8 DEF Behind
      <4> QED
        BY <4>3, <2>4, <2>5 DEF ToSet
    <3> QED
      BY <3>1, <3>2
  <2> QED
    <3>1. Len(n) = cap /\ Len(n) \in 1..cap
      BY <2>4
    <3> QED
      BY <3>1, <2>4, <2>6, <2>7, <2>8 DEF n
<1>2. CASE ~((\A i \in DOMAIN keys : keys[i] # k) /\ Len(keys) = cap)
  <2>1. \E m \in 1..Len(keys) + 1 :
           /\ rest \in Seq(S)
           /\ m <= Len(keys) => keys[m] = k /\ Len(rest) = Len(keys) - 1
           /\ m = Len(keys) + 1 => Len(rest) = Len(keys) /\ Len(keys) < cap
           /\ \A i \in 1..Len(rest) : rest[i] = IF i < m THEN keys[i] ELSE keys[i + 1]
    <3>1. CASE (\A i \in DOMAIN keys : keys[i] # k) /\ rest = keys
      <4>1. Len(keys) + 1 \in 1..Len(keys) + 1 /\ \A i \in 1..Len(keys) : i < Len(keys) + 1
        OBVIOUS
      <4>2. Len(keys) < cap
        BY <3>1, <1>2
      <4> QED
        BY <3>1, <4>1, <4>2
    <3>2. CASE \E h \in 1..Len(keys) :
                 /\ keys[h] = k /\ rest \in Seq(S) /\ Len(rest) = Len(keys) - 1
                 /\ \A i \in 1..Len(keys) - 1 : rest[i] = IF i < h THEN keys[i] ELSE keys[i + 1]
      <4> HIDE DEF rest
      <4>1. PICK h \in 1..Len(keys) :
                 /\ keys[h] = k /\ rest \in Seq(S) /\ Len(rest) = Len(keys) - 1
                 /\ \A i \in 1..Len(keys) - 1 : rest[i] = IF i < h THEN keys[i] ELSE keys[i + 1]
        BY <3>2
      <4>2. h \in 1..Len(keys) + 1 /\ h # Len(keys) + 1
        OBVIOUS
      <4>3. \A i \in 1..Len(rest) : rest[i] = IF i < h THEN keys[i] ELSE keys[i + 1]
        BY <4>1
      <4> QED
        BY <4>1, <4>2, <4>3
    <3> QED
      BY <3>1, <3>2, RemovedShift
  <2>2. PICK m \in 1..Len(keys) + 1 :
           /\ rest \in Seq(S)
           /\ m <= Len(keys) => keys[m] = k /\ Len(rest) = Len(keys) - 1
           /\ m = Len(keys) + 1 => Len(rest) = Len(keys) /\ Len(keys) < cap
           /\ \A i \in 1..Len(rest) : rest[i] = IF i < m THEN keys[i] ELSE keys[i + 1]
    BY <2>1
  <2> DEFINE from(i) == IF i < m THEN i ELSE i + 1
  <2> HIDE DEF rest
  <2>3. Len(rest) \in 0..cap - 1 /\ \A i \in 1..Len(rest) : from(i) \in DOMAIN keys /\ rest[i] = keys[from(i)]
    BY <2>2
  <2>4. \A i, j \in 1..Len(rest) : (i < j => from(i) < from(j)) /\ (from(i) = from(j) => i = j)
    BY <2>2
  <2>5. \A i \in 1..Len(rest) : from(i) # m
    BY <2>2
  <2>6. all \in Seq(S) /\ Len(all) = Len(rest) + 1 /\ AtLeast(1, Len(all) - cap + 1) = 1
    BY <2>2, <2>3 DEF AtLeast
  <2>7. n = all
    BY <2>6 DEF Newest, rest
  <2>8. \A i \in 1..Len(n) : n[i] = IF i = Len(n) THEN k ELSE rest[i]
    BY <2>2, <2>6, <2>7
  <2>9. n \in Seq(S) /\ Len(n) = Len(rest) + 1 /\ Len(n) \in 1..cap /\ n[Len(n)] = k
    BY <2>3, <2>6, <2>7, <2>8
  <2> HIDE DEF n, all, from
  <2>10. \A i \in 1..Len(rest) : rest[i] # k
    <3> SUFFICES ASSUME NEW i \in 1..Len(rest), rest[i] = k PROVE FALSE
      OBVIOUS
    <3>1. keys[from(i)] = k /\ from(i) \in DOMAIN keys /\ from(i) # m
      BY <2>3, <2>5
    <3>2. CASE m <= Len(keys)
      BY <3>1, <3>2, <2>2 DEF Distinct
    <3>3. CASE m = Len(keys) + 1
      <4>1. \A j \in DOMAIN keys : keys[j] # k
        <5>1. (\A j \in DOMAIN keys : keys[j] # k) \/ Len(rest) = Len(keys) - 1
          BY RemovedShift DEF rest
        <5> QED
          BY <5>1, <3>3, <2>2
      <4> QED
        BY <4>1, <3>1
    <3> QED
      BY <3>2, <3>3
  <2>11. Distinct(n)
    <3> SUFFICES ASSUME NEW i \in 1..Len(n), NEW j \in 1..Len(n), n[i] = n[j] PROVE i = j
      BY <2>9 DEF Distinct
    <3>1. CASE i = Len(n) \/ j = Len(n)
      BY <3>1, <2>8, <2>9, <2>10
    <3>2. CASE i # Len(n) /\ j # Len(n)
      <4>1. i \in 1..Len(rest) /\ j \in 1..Len(rest) /\ rest[i] = rest[j]
        BY <3>2, <2>8, <2>9
      <4> QED
        BY <4>1, <2>3, <2>4 DEF Distinct
    <3> QED
      BY <3>1, <3>2
  <2>12. ToSet(n) \subseteq ToSet(keys) \cup {k}
    BY <2>3, <2>8, <2>9 DEF ToSet
  <2>13. ASSUME NEW a \in S, NEW X, a # k, Behind(keys, a, X) PROVE Behind(n, a, X \cup {k})
    <3> SUFFICES ASSUME NEW i \in 1..Len(n), NEW j \in 1..Len(n), n[i] = a, i < j PROVE n[j] \in X \cup {k}
      BY <2>9 DEF Behind
    <3>1. i \in 1..Len(rest) /\ keys[from(i)] = a /\ from(i) \in DOMAIN keys
      BY <2>3, <2>8, <2>9, <2>13
    <3>2. CASE j = Len(n)
      BY <3>2, <2>8
    <3>3. CASE j # Len(n)
      <4>0. j \in 1..Len(rest)
        BY <3>3, <2>3, <2>9
      <4>1. n[j] = keys[from(j)] /\ from(j) \in DOMAIN keys /\ from(i) < from(j)
        BY <4>0, <3>1, <3>3, <2>3, <2>4, <2>8
      <4> QED
        BY <4>1, <3>1, <2>13 DEF Behind
    <3> QED
      BY <3>2, <3>3
  <2>14. ASSUME NEW a \in S, a # k, a \in ToSet(keys) PROVE a \in ToSet(n)
    <3>1. PICK h \in DOMAIN keys : keys[h] = a
      BY <2>14 DEF ToSet
    <3>2. h # m /\ h \in 1..Len(keys)
      BY <3>1, <2>14, <2>2
    <3>3. PICK i \in 1..Len(rest) : from(i) = h
      <4>1. CASE h < m
        BY <4>1, <3>2, <2>2 DEF from
      <4>2. CASE h > m
        <5>1. h - 1 \in 1..Len(rest) /\ ~(h - 1 < m) /\ (h - 1) + 1 = h
          BY <4>2, <3>2, <2>2
        <5> QED
          BY <5>1 DEF from
      <4> QED
        BY <4>1, <4>2, <3>2
    <3>4. i \in 1..Len(n) /\ n[i] = a
      BY <3>1, <3>3, <2>3, <2>8, <2>9
    <3> QED
      BY <3>4, <2>9 DEF ToSet
  <2> QED
    BY <2>9, <2>11, <2>12, <2>13, <2>14 DEF n
<1> QED
  BY <1>1, <1>2

LEMMA ManyAfter ==
    ASSUME NEW S, NEW n \in Seq(S), Distinct(n), NEW X, IsFiniteSet(X), ToSet(n) \subseteq X
    PROVE  Cardinality(X) >= Len(n) /\ Cardinality(X) \in Nat
<1> DEFINE N == ToSet(n)
<1>1. n \in [1..Len(n) -> N] /\ Len(n) \in Nat
  BY DEF ToSet
<1>2. \A x \in N : \E i \in 1..Len(n) : n[i] = x
  BY DEF ToSet
<1>3. n \in Bijection(1..Len(n), N)
  BY <1>1, <1>2 DEF Distinct, Bijection, Injection, Surjection, IsInjective
<1>4. ExistsBijection(1..Len(n), N)
  BY <1>3 DEF ExistsBijection
<1>5. Cardinality(N) = Len(n)
  BY <1>1, <1>4, FS_CountingElements
<1> QED
  BY <1>5, FS_Subset, FS_CardinalityType

-----------------------------------------------------------------------------

\* The tables hold each key once.
KeysOnce == Distinct(turnOrder) /\ Distinct(presented)

\* A turn keeps what it was given first as long as it is remembered, where runs
\* do not overlap, and is forgotten only for TurnCap newer ones.
TurnsRemembered == \A t \in Turns :
    /\ IsFiniteSet(newer[t])
    /\ filters[t].scored => firstGiven[t].scored
    /\ firstGiven[t].scored /\ Cardinality(newer[t]) < TurnCap =>
          /\ filters[t].scored /\ Behind(turnOrder, t, newer[t])
          /\ ConvOf[t] \notin Overlapping => filters[t] = firstGiven[t]

\* So does a run keep the tools of its note, for RunCap other runs.
RunsRemembered == \A r \in Runs :
    /\ IsFiniteSet(since[r])
    /\ runPC[r] = "model" /\ Cardinality(since[r]) < RunCap =>
          /\ r \in ToSet(presented) /\ Behind(presented, r, since[r])
          /\ catalogs[r] = shownNote[r].tools

\* Where runs do not overlap, one runs, for the turn that was asked about last.
OneRuns == \A r \in Runs : Executing(r) /\ Conv(r) \notin Overlapping =>
    /\ TurnOf[r] \notin crossed
    /\ \A q \in Runs : Executing(q) /\ Conv(q) = Conv(r) => q = r
    /\ runPC[r] = "scoring" => /\ pins[Conv(r)] = Anyone /\ ~filters[TurnOf[r]].scored
                               /\ \A t \in Turns \ {TurnOf[r]} : ConvOf[t] = Conv(r) => t \in crossed

\* The turn that was asked about last decides who may be dispatched.
PinsFollow == \A t \in Turns :
    t \notin crossed /\ ConvOf[t] \notin Overlapping /\ filters[t].scored
    => pins[ConvOf[t]] = filters[t].filter.dispatch

\* A note shows what its turn has, and calls are held to it.
NotesFollow == \A r \in Runs : runPC[r] = "model" /\ Conv(r) \notin Overlapping =>
    /\ pins[Conv(r)] = shownNote[r].dispatch /\ firstGiven[TurnOf[r]].scored
    /\ Cardinality(newer[TurnOf[r]]) < TurnCap => shownNote[r] = firstGiven[TurnOf[r]].filter

\* A filter for a turn leaves out neither whom the user named nor a tool of the
\* shortlist that was not asked about.
Fits(f, t) ==
    /\ t \notin Followups => \A m \in Named[t] : Allows(f.dispatch, m)
    /\ f = NoFilter \/ ToSet(Shortlist(t)) \ AskedTools(t) \subseteq f.tools

FiltersFit ==
    /\ \A t \in Turns : filters[t].scored => Fits(filters[t].filter, t)
    /\ \A r \in Runs : runPC[r] = "model" => Fits(shownNote[r], TurnOf[r])

DecisionInv ==
    /\ KeysOnce /\ TurnsRemembered /\ RunsRemembered
    /\ OneRuns /\ PinsFollow /\ NotesFollow /\ FiltersFit /\ NamedNotRefused

DecisionIInv == DecisionTypeOK /\ DecisionInv

LEMMA DecisionConstants ==
    /\ TurnCap \in Nat \ {0} /\ RunCap \in Nat \ {0}
    /\ \A r \in Runs : TurnOf[r] \in Turns /\ Conv(r) \in Convs
    /\ \A t \in Turns : ConvOf[t] \in Convs /\ Named[t] \subseteq MemberSet
    /\ Anyone \in Dispatches /\ ShutOut \in Dispatches
    /\ NoFilter \in Filter /\ Unscored \in Entry
    /\ \A f \in Filter : Given(f) \in Entry /\ Given(f).scored /\ Given(f).filter = f
BY DecisionAssumption DEF Conv, Dispatches, NoFilter, Filter, Entry, Given

LEMMA EntryFacts == \A e \in Entry : e.filter \in Filter /\ e.scored \in BOOLEAN /\ (e.scored => e = Given(e.filter))
<1>1. \A f \in Filter : Given(f).filter = f /\ Given(f).scored = TRUE
  BY DEF Given
<1>2. Unscored.filter = NoFilter /\ Unscored.scored = FALSE
  BY DEF Unscored
<1> QED
  BY <1>1, <1>2, DecisionConstants DEF Entry

LEMMA GivenFits ==
    ASSUME NEW t \in Turns
    PROVE  /\ \A T \in KeptTools(t), d \in Decided(t) :
                 [tools |-> T, dispatch |-> d] \in Filter /\ Fits([tools |-> T, dispatch |-> d], t)
           /\ [tools |-> ToolSet, dispatch |-> Anyone] \in Filter /\ Fits([tools |-> ToolSet, dispatch |-> Anyone], t)
           /\ NoFilter \in Filter /\ Fits(NoFilter, t)
<1>0. Shortlist(t) \in Seq(ToolSet)
  <2>1. Tools \in Seq(ToolSet) /\ Matching[t] \in Seq(ToolSet) /\ CatalogLimit \in Nat
    BY DecisionAssumption
  <2>2. AtMost(CatalogLimit, Len(Matching[t])) \in 0..Len(Matching[t])
    BY <2>1, LenProperties DEF AtMost
  <2>3. SubSeq(Matching[t], 1, AtMost(CatalogLimit, Len(Matching[t]))) \in Seq(ToolSet)
    BY <2>1, <2>2, SubSeqProperties
  <2> QED
    BY <2>1, <2>3 DEF Shortlist
<1>s. ToSet(Shortlist(t)) \subseteq ToolSet
  BY <1>0 DEF ToSet
<1>1. AskedTools(t) \subseteq ToolSet
  BY <1>0 DEF AskedTools
<1>2. \A S : \A K \in Chosen(S) : K \subseteq S /\ K # {}
  BY FS_EmptySet DEF Chosen
<1>3. \A T \in KeptTools(t) : T \subseteq ToolSet /\ ToSet(Shortlist(t)) \ AskedTools(t) \subseteq T
  <2>1. CASE Shortlist(t) = <<>>
    BY <2>1 DEF KeptTools, ToSet
  <2>2. CASE Shortlist(t) # <<>>
    BY <1>s, <1>1, <1>2, <2>2 DEF KeptTools
  <2> QED
    BY <2>1, <2>2
<1>4. Candidates(t) \subseteq MemberSet
  BY DEF Candidates
<1>5. \A d \in Decided(t) : d \in Dispatches
  <2>1. \A K \in Chosen(Candidates(t)) : OnlyThese(K) \in Dispatches
    BY <1>2, <1>4 DEF Dispatches
  <2>2. Candidates(t) # {} => OnlyThese(Candidates(t)) \in Dispatches
    BY <1>4 DEF Dispatches
  <2>3. Anyone \in Dispatches /\ ShutOut \in Dispatches
    BY DecisionConstants
  <2> HIDE DEF Dispatches, OnlyThese, Anyone, ShutOut
  <2> QED
    BY <2>1, <2>2, <2>3 DEF Decided
<1>6. t \notin Followups /\ Named[t] # {} => Candidates(t) = Named[t]
  BY DecisionAssumption DEF Candidates
<1>7. ASSUME t \notin Followups, NEW d \in Decided(t), NEW m \in Named[t] PROVE Allows(d, m)
  <2>1. Candidates(t) = Named[t]
    BY <1>6, <1>7
  <2>2. d \in {OnlyThese(Named[t]), Anyone}
    BY <1>7, <2>1 DEF Decided
  <2> QED
    BY <2>2 DEF Allows, OnlyThese, Anyone
<1>8. \A m : Allows(Anyone, m)
  BY DEF Allows, Anyone
<1> QED
  BY <1>s, <1>3, <1>5, <1>7, <1>8, DecisionConstants DEF Fits, Filter, NoFilter

\* A turn is given a filter: what the table of turns has then.
LEMMA RememberFacts ==
    ASSUME DecisionTypeOK, KeysOnce, TurnsRemembered, NEW t \in Turns, NEW f \in Filter, RememberTurn(t, f),
           ConvOf[t] \notin Overlapping => ~filters[t].scored
    PROVE  /\ filters' \in [Turns -> Entry] /\ firstGiven' \in [Turns -> Entry]
           /\ turnOrder' \in Seq(Turns) /\ Len(turnOrder') <= TurnCap
           /\ ToSet(turnOrder') = {u \in Turns : filters'[u].scored}
           /\ newer' \in [Turns -> SUBSET Turns]
           /\ Distinct(turnOrder') /\ TurnsRemembered'
           /\ filters'[t] = Given(f) /\ firstGiven'[t].scored
           /\ \A u \in Turns \ {t} : filters'[u].scored => filters'[u] = filters[u]
           /\ \A u \in Turns : firstGiven[u].scored =>
                 /\ firstGiven'[u] = firstGiven[u]
                 /\ Cardinality(newer'[u]) < TurnCap => Cardinality(newer[u]) < TurnCap
<1> USE DecisionConstants
<1>k. \A u \in Turns : filters[u] \in Entry /\ firstGiven[u] \in Entry /\ newer[u] \subseteq Turns
  BY DEF DecisionTypeOK
<1>1. filters' = [u \in Turns |-> IF u = t THEN Given(f)
                                  ELSE IF u \in ToSet(turnOrder') THEN filters[u] ELSE Unscored]
  BY DEF RememberTurn
<1>2. firstGiven' = [firstGiven EXCEPT ![t] = IF @.scored THEN @ ELSE Given(f)] /\ firstGiven \in [Turns -> Entry]
  BY DEF RememberTurn, DecisionTypeOK
<1>3. newer' = [u \in Turns |-> IF firstGiven[u].scored THEN newer[u] \cup ({t} \ {u}) ELSE {}]
  BY DEF RememberTurn
<1>4. turnOrder' = Newest(turnOrder, t, TurnCap) /\ turnOrder \in Seq(Turns) /\ Len(turnOrder) <= TurnCap /\ Distinct(turnOrder)
  BY DEF RememberTurn, DecisionTypeOK, KeysOnce
<1>5. /\ turnOrder' \in Seq(Turns) /\ Len(turnOrder') \in 1..TurnCap /\ Distinct(turnOrder') /\ turnOrder'[Len(turnOrder')] = t
      /\ \A a \in Turns : \A X : a # t /\ Behind(turnOrder, a, X) =>
            /\ a \in ToSet(turnOrder') => Behind(turnOrder', a, X \cup {t})
            /\ a \in ToSet(turnOrder) \ ToSet(turnOrder') => Len(turnOrder') = TurnCap /\ ToSet(turnOrder') \subseteq X \cup {t}
      /\ ToSet(turnOrder') \subseteq ToSet(turnOrder) \cup {t}
  <2>1. LET n == Newest(turnOrder, t, TurnCap) IN
        /\ n \in Seq(Turns) /\ Len(n) \in 1..TurnCap /\ Distinct(n) /\ n[Len(n)] = t
        /\ \A a \in Turns : \A X : a # t /\ Behind(turnOrder, a, X) =>
              /\ a \in ToSet(n) => Behind(n, a, X \cup {t})
              /\ a \in ToSet(turnOrder) \ ToSet(n) => Len(n) = TurnCap /\ ToSet(n) \subseteq X \cup {t}
        /\ ToSet(n) \subseteq ToSet(turnOrder) \cup {t}
    BY <1>4, NewestFacts
  <2> QED
    BY <1>4, <2>1
<1>6. t \in ToSet(turnOrder')
  <2>1. Len(turnOrder') \in DOMAIN turnOrder'
    BY <1>5
  <2> QED
    BY <1>5, <2>1 DEF ToSet
<1> HIDE DEF Filter, Entry, Given, Unscored
<1>7. filters' \in [Turns -> Entry]
  BY <1>1, <1>k
<1>8. firstGiven' \in [Turns -> Entry]
  BY <1>2, <1>k
<1>9. newer' \in [Turns -> SUBSET Turns]
  BY <1>3, <1>k
<1>10. \A u \in Turns : filters'[u].scored <=> u \in ToSet(turnOrder')
  <2>1. ToSet(turnOrder) = {u \in Turns : filters[u].scored}
    BY DEF DecisionTypeOK
  <2>2. Unscored.scored = FALSE
    BY DEF Unscored
  <2> QED
    BY <1>1, <1>5, <1>6, <2>1, <2>2
<1>11. ToSet(turnOrder') = {u \in Turns : filters'[u].scored}
  <2>1. ToSet(turnOrder') \subseteq Turns
    BY <1>5 DEF ToSet
  <2> QED
    BY <1>10, <2>1
<1>12. filters'[t] = Given(f) /\ \A u \in Turns \ {t} : filters'[u].scored => filters'[u] = filters[u]
  BY <1>1, <1>10
<1>13. firstGiven'[t] = IF firstGiven[t].scored THEN firstGiven[t] ELSE Given(f)
  BY <1>2
<1>14. \A u \in Turns \ {t} : firstGiven'[u] = firstGiven[u]
  BY <1>2
<1>15. \A u \in Turns : /\ IsFiniteSet(newer'[u])
                        /\ firstGiven[u].scored => Cardinality(newer[u]) <= Cardinality(newer'[u])
  <2> SUFFICES ASSUME NEW u \in Turns
               PROVE  /\ IsFiniteSet(newer'[u])
                      /\ firstGiven[u].scored => Cardinality(newer[u]) <= Cardinality(newer'[u])
    OBVIOUS
  <2>1. IsFiniteSet(newer[u])
    BY DEF TurnsRemembered
  <2>2. IsFiniteSet({t} \ {u}) /\ IsFiniteSet({})
    BY FS_Singleton, FS_Difference, FS_EmptySet
  <2>3. IsFiniteSet(newer[u] \cup ({t} \ {u}))
    BY <2>1, <2>2, FS_Union
  <2>4. newer'[u] = IF firstGiven[u].scored THEN newer[u] \cup ({t} \ {u}) ELSE {}
    BY <1>3
  <2>5. Cardinality(newer[u]) <= Cardinality(newer[u] \cup ({t} \ {u}))
    BY <2>3, FS_Subset
  <2> QED
    BY <2>2, <2>3, <2>4, <2>5
<1>16. \A u \in Turns : Cardinality(newer[u]) \in Nat /\ Cardinality(newer'[u]) \in Nat
  BY <1>15, FS_CardinalityType DEF TurnsRemembered
<1>17. ASSUME NEW u \in Turns, u # t, firstGiven'[u].scored, Cardinality(newer'[u]) < TurnCap
       PROVE  /\ filters'[u].scored /\ Behind(turnOrder', u, newer'[u])
              /\ ConvOf[u] \notin Overlapping => filters'[u] = firstGiven'[u]
  <2>1. firstGiven'[u] = firstGiven[u] /\ firstGiven[u].scored /\ newer'[u] = newer[u] \cup {t}
    BY <1>3, <1>14, <1>17
  <2>2. Cardinality(newer[u]) < TurnCap
    <3>1. Cardinality(newer[u]) <= Cardinality(newer'[u])
      BY <2>1, <1>15
    <3>2. Cardinality(newer[u]) \in Nat /\ Cardinality(newer'[u]) \in Nat /\ TurnCap \in Nat
      BY <1>16
    <3> QED
      BY <3>1, <3>2, <1>17
  <2>3. /\ filters[u].scored /\ Behind(turnOrder, u, newer[u])
        /\ ConvOf[u] \notin Overlapping => filters[u] = firstGiven[u]
    BY <2>1, <2>2 DEF TurnsRemembered
  <2>4. u \in ToSet(turnOrder)
    BY <2>3 DEF DecisionTypeOK
  <2>5. u \in ToSet(turnOrder')
    <3> SUFFICES ASSUME u \notin ToSet(turnOrder') PROVE FALSE
      OBVIOUS
    <3>1. Len(turnOrder') = TurnCap /\ ToSet(turnOrder') \subseteq newer'[u]
      BY <1>5, <1>17, <2>1, <2>3, <2>4
    <3>2. Cardinality(newer'[u]) >= TurnCap
      BY <3>1, <1>5, <1>15, ManyAfter
    <3> QED
      BY <3>2, <1>16, <1>17
  <2>6. Behind(turnOrder', u, newer'[u])
    BY <1>5, <1>17, <2>1, <2>3, <2>5
  <2> QED
    BY <1>10, <1>12, <1>17, <2>1, <2>3, <2>5, <2>6
<1>18. ASSUME Cardinality(newer'[t]) < TurnCap
       PROVE  /\ filters'[t].scored /\ Behind(turnOrder', t, newer'[t])
              /\ ConvOf[t] \notin Overlapping => filters'[t] = firstGiven'[t]
  <2>1. Behind(turnOrder', t, newer'[t])
    BY <1>5 DEF Behind, Distinct
  <2>2. ASSUME ConvOf[t] \notin Overlapping PROVE ~firstGiven[t].scored
    <3> SUFFICES ASSUME firstGiven[t].scored PROVE FALSE
      OBVIOUS
    <3>1. ~(Cardinality(newer[t]) < TurnCap)
      BY <2>2 DEF TurnsRemembered
    <3> QED
      BY <3>1, <1>15, <1>16, <1>18
  <2> QED
    BY <1>12, <1>13, <2>1, <2>2
<1>19. firstGiven'[t].scored
  BY <1>13
<1>20. TurnsRemembered'
  <2> SUFFICES ASSUME NEW u \in Turns
               PROVE  /\ IsFiniteSet(newer'[u])
                      /\ filters'[u].scored => firstGiven'[u].scored
                      /\ firstGiven'[u].scored /\ Cardinality(newer'[u]) < TurnCap =>
                            /\ filters'[u].scored /\ Behind(turnOrder', u, newer'[u])
                            /\ ConvOf[u] \notin Overlapping => filters'[u] = firstGiven'[u]
    BY DEF TurnsRemembered
  <2>1. filters'[u].scored => firstGiven'[u].scored
    BY <1>12, <1>14, <1>19 DEF TurnsRemembered
  <2> QED
    BY <2>1, <1>15, <1>17, <1>18
<1>21. \A u \in Turns : firstGiven[u].scored =>
          /\ firstGiven'[u] = firstGiven[u]
          /\ Cardinality(newer'[u]) < TurnCap => Cardinality(newer[u]) < TurnCap
  BY <1>13, <1>14, <1>15, <1>16
<1> QED
  BY <1>5, <1>7, <1>8, <1>9, <1>11, <1>12, <1>19, <1>20, <1>21

\* A run is shown a note: what the table of the runs' tools has then.
LEMMA PresentFacts ==
    ASSUME DecisionTypeOK, KeysOnce, RunsRemembered, NEW r \in Runs, NEW f \in Filter, Present(r, f),
           runPC' = [runPC EXCEPT ![r] = "model"]
    PROVE  /\ catalogs' \in [Runs -> SUBSET ToolSet] /\ shownNote' \in [Runs -> Filter]
           /\ presented' \in Seq(Runs) /\ Len(presented') <= RunCap
           /\ since' \in [Runs -> SUBSET Runs]
           /\ Distinct(presented') /\ RunsRemembered'
           /\ shownNote'[r] = f /\ \A q \in Runs \ {r} : shownNote'[q] = shownNote[q]
           /\ runPC'[r] = "model" /\ \A q \in Runs \ {r} : runPC'[q] = runPC[q]
<1> USE DecisionConstants
<1>1. shownNote' = [shownNote EXCEPT ![r] = f] /\ shownNote \in [Runs -> Filter]
  BY DEF Present, DecisionTypeOK
<1>2. catalogs' = [q \in Runs |-> IF q = r THEN f.tools ELSE IF q \in ToSet(presented') THEN catalogs[q] ELSE {}]
  BY DEF Present
<1>3. since' = [q \in Runs |-> IF q = r THEN {} ELSE since[q] \cup {r}]
  BY DEF Present
<1>4. presented' = Newest(presented, r, RunCap) /\ presented \in Seq(Runs) /\ Len(presented) <= RunCap /\ Distinct(presented)
  BY DEF Present, DecisionTypeOK, KeysOnce
<1>5. /\ presented' \in Seq(Runs) /\ Len(presented') \in 1..RunCap /\ Distinct(presented') /\ presented'[Len(presented')] = r
      /\ \A a \in Runs : \A X : a # r /\ Behind(presented, a, X) =>
            /\ a \in ToSet(presented') => Behind(presented', a, X \cup {r})
            /\ a \in ToSet(presented) \ ToSet(presented') => Len(presented') = RunCap /\ ToSet(presented') \subseteq X \cup {r}
      /\ ToSet(presented') \subseteq ToSet(presented) \cup {r}
  <2>1. LET n == Newest(presented, r, RunCap) IN
        /\ n \in Seq(Runs) /\ Len(n) \in 1..RunCap /\ Distinct(n) /\ n[Len(n)] = r
        /\ \A a \in Runs : \A X : a # r /\ Behind(presented, a, X) =>
              /\ a \in ToSet(n) => Behind(n, a, X \cup {r})
              /\ a \in ToSet(presented) \ ToSet(n) => Len(n) = RunCap /\ ToSet(n) \subseteq X \cup {r}
        /\ ToSet(n) \subseteq ToSet(presented) \cup {r}
    BY <1>4, NewestFacts
  <2> QED
    BY <1>4, <2>1
<1>6. r \in ToSet(presented')
  <2>1. Len(presented') \in DOMAIN presented'
    BY <1>5
  <2> QED
    BY <1>5, <2>1 DEF ToSet
<1>7. f.tools \subseteq ToolSet /\ \A q \in Runs : catalogs[q] \subseteq ToolSet /\ since[q] \subseteq Runs
  BY DEF DecisionTypeOK, Filter
<1> HIDE DEF Filter
<1>8. catalogs' \in [Runs -> SUBSET ToolSet] /\ shownNote' \in [Runs -> Filter] /\ since' \in [Runs -> SUBSET Runs]
  BY <1>1, <1>2, <1>3, <1>7
<1>9. shownNote'[r] = f /\ \A q \in Runs \ {r} : shownNote'[q] = shownNote[q]
  BY <1>1
<1>10. runPC'[r] = "model" /\ \A q \in Runs \ {r} : runPC'[q] = runPC[q]
  BY DEF DecisionTypeOK
<1>11. \A q \in Runs \ {r} : /\ IsFiniteSet(since'[q]) /\ Cardinality(since[q]) <= Cardinality(since'[q])
                             /\ Cardinality(since[q]) \in Nat /\ Cardinality(since'[q]) \in Nat
  <2> SUFFICES ASSUME NEW q \in Runs \ {r}
               PROVE  /\ IsFiniteSet(since'[q]) /\ Cardinality(since[q]) <= Cardinality(since'[q])
                      /\ Cardinality(since[q]) \in Nat /\ Cardinality(since'[q]) \in Nat
    OBVIOUS
  <2>1. IsFiniteSet(since[q])
    BY DEF RunsRemembered
  <2>2. since'[q] = since[q] \cup {r}
    BY <1>3
  <2>3. IsFiniteSet(since'[q])
    BY <2>1, <2>2, FS_AddElement
  <2> QED
    BY <2>1, <2>2, <2>3, FS_Subset, FS_CardinalityType
<1>12. RunsRemembered'
  <2> SUFFICES ASSUME NEW q \in Runs
               PROVE  /\ IsFiniteSet(since'[q])
                      /\ runPC'[q] = "model" /\ Cardinality(since'[q]) < RunCap =>
                            /\ q \in ToSet(presented') /\ Behind(presented', q, since'[q])
                            /\ catalogs'[q] = shownNote'[q].tools
    BY DEF RunsRemembered
  <2>1. CASE q = r
    <3>1. since'[r] = {} /\ IsFiniteSet({})
      BY <1>3, FS_EmptySet
    <3>2. Behind(presented', r, {})
      BY <1>5 DEF Behind, Distinct
    <3>3. catalogs'[r] = f.tools
      BY <1>2
    <3> QED
      BY <2>1, <3>1, <3>2, <3>3, <1>6, <1>9
  <2>2. ASSUME q # r, runPC'[q] = "model", Cardinality(since'[q]) < RunCap
        PROVE  /\ q \in ToSet(presented') /\ Behind(presented', q, since'[q])
               /\ catalogs'[q] = shownNote'[q].tools
    <3>0. runPC[q] = "model" /\ since'[q] = since[q] \cup {r}
      BY <1>3, <1>10, <2>2
    <3>1. runPC[q] = "model" /\ since'[q] = since[q] \cup {r} /\ Cardinality(since[q]) < RunCap
      <4>1. /\ Cardinality(since[q]) <= Cardinality(since'[q])
            /\ Cardinality(since[q]) \in Nat /\ Cardinality(since'[q]) \in Nat
        BY <1>11, <2>2
      <4> QED
        BY <2>2, <3>0, <4>1
    <3>2. q \in ToSet(presented) /\ Behind(presented, q, since[q]) /\ catalogs[q] = shownNote[q].tools
      BY <3>1 DEF RunsRemembered
    <3>3. q \in ToSet(presented')
      <4> SUFFICES ASSUME q \notin ToSet(presented') PROVE FALSE
        OBVIOUS
      <4>1. Len(presented') = RunCap /\ ToSet(presented') \subseteq since'[q]
        BY <1>5, <2>2, <3>1, <3>2
      <4>2. Cardinality(since'[q]) >= RunCap
        BY <4>1, <1>5, <1>11, <2>2, ManyAfter
      <4> QED
        BY <4>2, <1>11, <2>2
    <3>4. Behind(presented', q, since'[q])
      BY <1>5, <2>2, <3>1, <3>2, <3>3
    <3>5. catalogs'[q] = catalogs[q]
      BY <1>2, <2>2, <3>3
    <3> QED
      BY <1>9, <2>2, <3>2, <3>3, <3>4, <3>5
  <2> QED
    BY <2>1, <2>2, <1>11
<1> QED
  BY <1>5, <1>8, <1>9, <1>10, <1>12

\* A filter is committed for a turn that had none, when it is the one that was
\* asked about last on its thread.
LEMMA Commits ==
    ASSUME DecisionIInv, NEW r \in Runs, NEW f \in Filter, Fits(f, TurnOf[r]),
           CommitFilter(r, f), UNCHANGED refused, pins' \in [Convs -> Dispatches], crossed' \in SUBSET Turns,
           \A d \in Convs \ {Conv(r)} : pins'[d] = pins[d],
           \A u \in Turns : ConvOf[u] # Conv(r) => (u \in crossed' <=> u \in crossed),
           \A q \in Runs \ {r} : Executing(q) /\ Conv(q) \notin Overlapping => Conv(q) # Conv(r),
           Conv(r) \notin Overlapping =>
               /\ ~filters[TurnOf[r]].scored /\ pins'[Conv(r)] = f.dispatch
               /\ TurnOf[r] \notin crossed' /\ (\A q \in Runs : Executing(q) /\ Conv(q) = Conv(r) => q = r)
               /\ \A u \in Turns \ {TurnOf[r]} : ConvOf[u] = Conv(r) => u \in crossed'
    PROVE  DecisionIInv'
<1> USE DecisionConstants
<1> DEFINE t == TurnOf[r]
<1>i. /\ DecisionTypeOK /\ KeysOnce /\ TurnsRemembered /\ RunsRemembered
      /\ OneRuns /\ PinsFollow /\ NotesFollow /\ FiltersFit /\ NamedNotRefused
  BY DEF DecisionIInv, DecisionInv
<1>e. t \in Turns /\ ConvOf[t] = Conv(r)
  BY DEF Conv
<1>o. Conv(r) \notin Overlapping => ~filters[t].scored
  OBVIOUS
<1> HIDE DEF Filter
<1>1. RememberTurn(t, f) /\ Present(r, f) /\ runPC' = [runPC EXCEPT ![r] = "model"]
  BY DEF CommitFilter
<1>2. /\ filters' \in [Turns -> Entry] /\ firstGiven' \in [Turns -> Entry]
      /\ turnOrder' \in Seq(Turns) /\ Len(turnOrder') <= TurnCap
      /\ ToSet(turnOrder') = {u \in Turns : filters'[u].scored}
      /\ newer' \in [Turns -> SUBSET Turns]
      /\ Distinct(turnOrder') /\ TurnsRemembered'
      /\ filters'[t] = Given(f) /\ firstGiven'[t].scored
      /\ \A u \in Turns \ {t} : filters'[u].scored => filters'[u] = filters[u]
      /\ \A u \in Turns : firstGiven[u].scored =>
            /\ firstGiven'[u] = firstGiven[u]
            /\ Cardinality(newer'[u]) < TurnCap => Cardinality(newer[u]) < TurnCap
  BY <1>i, <1>e, <1>o, <1>1, RememberFacts
<1>3. /\ catalogs' \in [Runs -> SUBSET ToolSet] /\ shownNote' \in [Runs -> Filter]
      /\ presented' \in Seq(Runs) /\ Len(presented') <= RunCap
      /\ since' \in [Runs -> SUBSET Runs]
      /\ Distinct(presented') /\ RunsRemembered'
      /\ shownNote'[r] = f /\ \A q \in Runs \ {r} : shownNote'[q] = shownNote[q]
      /\ runPC'[r] = "model" /\ \A q \in Runs \ {r} : runPC'[q] = runPC[q]
  BY <1>i, <1>1, PresentFacts
<1>5. DecisionTypeOK'
  <2>2. runPC' \in [Runs -> {"idle", "scoring", "model", "done"}]
    BY <1>i, <1>1 DEF DecisionTypeOK
  <2>3. refused' \in [Runs -> SUBSET (MemberSet \cup ToolSet)] /\ crossed' \in SUBSET Turns
    BY <1>i DEF DecisionTypeOK
  <2> QED
    BY <1>2, <1>3, <2>2, <2>3 DEF DecisionTypeOK
<1>6. Executing(r)' /\ \A q \in Runs \ {r} : Executing(q)' <=> Executing(q)
  BY <1>3 DEF Executing
<1>8. \A q \in Runs \ {r} : Executing(q) /\ Conv(q) \notin Overlapping =>
          Conv(q) # Conv(r) /\ TurnOf[q] # t /\ pins'[Conv(q)] = pins[Conv(q)]
  BY <1>e DEF Conv
<1>9. OneRuns'
  <2> SUFFICES ASSUME NEW q \in Runs, Executing(q)', Conv(q) \notin Overlapping
               PROVE  /\ TurnOf[q] \notin crossed'
                      /\ \A p \in Runs : Executing(p)' /\ Conv(p) = Conv(q) => p = q
                      /\ runPC'[q] = "scoring" =>
                            /\ pins'[Conv(q)] = Anyone /\ ~filters'[TurnOf[q]].scored
                            /\ \A u \in Turns \ {TurnOf[q]} : ConvOf[u] = Conv(q) => u \in crossed'
    BY DEF OneRuns, Conv
  <2>1. CASE q = r
    BY <2>1, <1>3, <1>6
  <2>2. CASE q # r
    <3>1. /\ Executing(q) /\ runPC'[q] = runPC[q] /\ pins'[Conv(q)] = pins[Conv(q)]
          /\ Conv(q) # Conv(r) /\ TurnOf[q] \in Turns \ {t} /\ ConvOf[TurnOf[q]] = Conv(q)
      BY <1>3, <1>6, <1>8, <2>2 DEF Conv
    <3>2. /\ TurnOf[q] \notin crossed
          /\ \A p \in Runs : Executing(p) /\ Conv(p) = Conv(q) => p = q
          /\ runPC[q] = "scoring" => /\ pins[Conv(q)] = Anyone /\ ~filters[TurnOf[q]].scored
                                     /\ \A u \in Turns \ {TurnOf[q]} : ConvOf[u] = Conv(q) => u \in crossed
      BY <3>1, <1>i DEF OneRuns
    <3>3. filters'[TurnOf[q]].scored => filters[TurnOf[q]].scored
      BY <3>1, <1>2
    <3>4. \A p \in Runs : Executing(p)' /\ Conv(p) = Conv(q) => p = q
      BY <3>1, <3>2, <1>6
    <3>5. TurnOf[q] \notin crossed' /\ \A u \in Turns : ConvOf[u] = Conv(q) /\ u \in crossed => u \in crossed'
      BY <3>1, <3>2
    <3> QED
      BY <3>1, <3>2, <3>3, <3>4, <3>5
  <2> QED
    BY <2>1, <2>2
<1>10. PinsFollow'
  <2> SUFFICES ASSUME NEW u \in Turns, u \notin crossed', ConvOf[u] \notin Overlapping, filters'[u].scored
               PROVE  pins'[ConvOf[u]] = filters'[u].filter.dispatch
    BY DEF PinsFollow
  <2>1. CASE u = t
    BY <2>1, <1>2, <1>e DEF Given
  <2>2. CASE u # t
    <3>1. filters'[u] = filters[u] /\ filters[u].scored /\ ConvOf[u] # Conv(r)
      BY <2>2, <1>2
    <3> QED
      BY <3>1, <1>i DEF PinsFollow
  <2> QED
    BY <2>1, <2>2
<1>11. NotesFollow'
  <2> SUFFICES ASSUME NEW q \in Runs, runPC'[q] = "model", Conv(q) \notin Overlapping
               PROVE  /\ pins'[Conv(q)] = shownNote'[q].dispatch /\ firstGiven'[TurnOf[q]].scored
                      /\ Cardinality(newer'[TurnOf[q]]) < TurnCap => shownNote'[q] = firstGiven'[TurnOf[q]].filter
    BY DEF NotesFollow, Conv
  <2>1. CASE q = r
    <3>1. ASSUME Cardinality(newer'[t]) < TurnCap PROVE Given(f) = firstGiven'[t]
      BY <2>1, <3>1, <1>2, <1>e DEF TurnsRemembered
    <3> QED
      BY <2>1, <3>1, <1>2, <1>3
  <2>2. CASE q # r
    <3>1. runPC[q] = "model" /\ shownNote'[q] = shownNote[q] /\ Executing(q)
      BY <2>2, <1>3 DEF Executing
    <3>2. pins'[Conv(q)] = pins[Conv(q)]
      BY <2>2, <3>1, <1>8
    <3> QED
      BY <3>1, <3>2, <1>2, <1>i DEF NotesFollow
  <2> QED
    BY <2>1, <2>2
<1>12. FiltersFit'
  <2>1. \A u \in Turns : filters'[u].scored => Fits(filters'[u].filter, u)
    BY <1>2, <1>i, <1>e DEF FiltersFit
  <2>2. \A q \in Runs : runPC'[q] = "model" => Fits(shownNote'[q], TurnOf[q])
    BY <1>3, <1>i, <1>e DEF FiltersFit
  <2> QED
    BY <2>1, <2>2 DEF FiltersFit, Fits
<1>13. NamedNotRefused'
  BY <1>i DEF NamedNotRefused, Conv
<1> QED
  BY <1>2, <1>3, <1>5, <1>9, <1>10, <1>11, <1>12, <1>13 DEF DecisionIInv, DecisionInv, KeysOnce

\* The decision model's answer is there, or none comes.
LEMMA Scores ==
    ASSUME DecisionIInv, NEW r \in Runs, runPC[r] = "scoring", NEW f \in Filter, Fits(f, TurnOf[r]),
           CommitFilter(r, f), UNCHANGED <<refused, crossed>>,
           pins' = [pins EXCEPT ![Conv(r)] = IF f.dispatch = Anyone THEN @ ELSE f.dispatch]
    PROVE  DecisionIInv'
<1> USE DecisionConstants
<1>i. DecisionTypeOK /\ OneRuns
  BY DEF DecisionIInv, DecisionInv
<1>1. Executing(r) /\ TurnOf[r] \in Turns
  BY DEF Executing
<1>2. /\ Conv(r) \notin Overlapping =>
            /\ TurnOf[r] \notin crossed /\ (\A q \in Runs : Executing(q) /\ Conv(q) = Conv(r) => q = r)
            /\ pins[Conv(r)] = Anyone /\ ~filters[TurnOf[r]].scored
            /\ \A u \in Turns \ {TurnOf[r]} : ConvOf[u] = Conv(r) => u \in crossed
      /\ \A q \in Runs \ {r} : Executing(q) /\ Conv(q) \notin Overlapping => Conv(q) # Conv(r)
  BY <1>i, <1>1 DEF OneRuns
<1> HIDE DEF Filter
<1>3. f.dispatch \in Dispatches
  BY DEF Filter
<1>4. /\ pins'[Conv(r)] = IF f.dispatch = Anyone THEN pins[Conv(r)] ELSE f.dispatch
      /\ \A d \in Convs \ {Conv(r)} : pins'[d] = pins[d]
      /\ pins' \in [Convs -> Dispatches] /\ crossed' \in SUBSET Turns
  BY <1>i, <1>3 DEF DecisionTypeOK
<1> QED
  BY <1>2, <1>4, Commits

LEMMA ScoreSteps ==
    ASSUME DecisionIInv, NEW r \in Runs, ScoreStep(r)
    PROVE  DecisionIInv'
<1> USE DecisionConstants
<1>1. TurnOf[r] \in Turns /\ pins \in [Convs -> Dispatches]
  BY DEF DecisionIInv, DecisionTypeOK
<1>2. CASE Apply(r)
  <2>1. PICK T \in KeptTools(TurnOf[r]), d \in Decided(TurnOf[r]) :
            /\ pins' = [pins EXCEPT ![Conv(r)] = IF d = Anyone THEN @ ELSE d]
            /\ CommitFilter(r, [tools |-> T, dispatch |-> d])
    BY <1>2 DEF Apply
  <2> DEFINE f == [tools |-> T, dispatch |-> d]
  <2>2. f \in Filter /\ Fits(f, TurnOf[r]) /\ f.dispatch = d
    BY <1>1, GivenFits
  <2>3. runPC[r] = "scoring" /\ UNCHANGED <<refused, crossed>>
    BY <1>2 DEF Apply
  <2> HIDE DEF f
  <2>4. CommitFilter(r, f) /\ pins' = [pins EXCEPT ![Conv(r)] = IF f.dispatch = Anyone THEN @ ELSE f.dispatch]
    BY <2>1, <2>2 DEF f
  <2> QED
    BY <2>2, <2>3, <2>4, Scores
<1>3. CASE Unavailable(r)
  <2> DEFINE f == [tools |-> ToolSet, dispatch |-> Anyone]
  <2>1. f \in Filter /\ Fits(f, TurnOf[r]) /\ f.dispatch = Anyone
    BY <1>1, GivenFits
  <2>2. runPC[r] = "scoring" /\ UNCHANGED <<refused, crossed>> /\ CommitFilter(r, f) /\ pins' = pins
    BY <1>3 DEF Unavailable
  <2> HIDE DEF f
  <2>3. pins' = [pins EXCEPT ![Conv(r)] = IF f.dispatch = Anyone THEN @ ELSE f.dispatch]
    BY <1>1, <2>1, <2>2
  <2> QED
    BY <2>1, <2>2, <2>3, Scores
<1>4. CASE EmptyAnswer(r)
  <2>1. NoFilter \in Filter /\ Fits(NoFilter, TurnOf[r]) /\ NoFilter.dispatch = Anyone
    BY <1>1, GivenFits DEF NoFilter
  <2>2. runPC[r] = "scoring" /\ UNCHANGED <<refused, crossed>> /\ CommitFilter(r, NoFilter) /\ pins' = pins
    BY <1>4 DEF EmptyAnswer
  <2>3. pins' = [pins EXCEPT ![Conv(r)] = IF NoFilter.dispatch = Anyone THEN @ ELSE NoFilter.dispatch]
    BY <1>1, <2>1, <2>2
  <2> QED
    BY <2>1, <2>2, <2>3, Scores
<1> QED
  BY <1>2, <1>3, <1>4 DEF ScoreStep

\* A run whose turn may make a model call, on a thread where runs do not overlap.
LEMMA CallsAlone ==
    ASSUME DecisionIInv, NEW r \in Runs, MayCall(r)
    PROVE  /\ Conv(r) \notin Overlapping =>
                 TurnOf[r] \notin crossed /\ \A q \in Runs : Executing(q) /\ Conv(q) = Conv(r) => q = r
           /\ \A q \in Runs \ {r} : Executing(q) /\ Conv(q) \notin Overlapping => Conv(q) # Conv(r)
BY DEF MayCall, DecisionIInv, DecisionInv, OneRuns, Executing

\* A turn that has been scored is replayed.
LEMMA ReplayStep ==
    ASSUME DecisionIInv, NEW r \in Runs, Replay(r)
    PROVE  DecisionIInv'
<1> USE DecisionConstants
<1> DEFINE t == TurnOf[r]
           f == filters[t].filter
<1>i. /\ DecisionTypeOK /\ KeysOnce /\ TurnsRemembered /\ RunsRemembered
      /\ OneRuns /\ PinsFollow /\ NotesFollow /\ FiltersFit /\ NamedNotRefused
  BY DEF DecisionIInv, DecisionInv
<1>1. /\ MayCall(r) /\ filters[t].scored /\ Present(r, f) /\ runPC' = [runPC EXCEPT ![r] = "model"]
      /\ UNCHANGED <<filters, turnOrder, pins, refused, firstGiven, newer, crossed>>
  BY DEF Replay
<1>2. t \in Turns /\ ConvOf[t] = Conv(r)
  BY DEF Conv
<1>3. filters[t] \in Entry
  BY <1>2, <1>i DEF DecisionTypeOK
<1>4. f \in Filter /\ filters[t] = Given(f)
  BY <1>1, <1>3, EntryFacts
<1>5. Fits(f, t)
  BY <1>1, <1>2, <1>i DEF FiltersFit
<1>6. /\ Conv(r) \notin Overlapping =>
             t \notin crossed /\ \A q \in Runs : Executing(q) /\ Conv(q) = Conv(r) => q = r
      /\ \A q \in Runs \ {r} : Executing(q) /\ Conv(q) \notin Overlapping => Conv(q) # Conv(r)
  BY <1>1, CallsAlone
<1>7. Conv(r) \notin Overlapping => pins[Conv(r)] = f.dispatch
  BY <1>1, <1>2, <1>6, <1>i DEF PinsFollow
<1>8. firstGiven[t].scored /\ (Conv(r) \notin Overlapping /\ Cardinality(newer[t]) < TurnCap => f = firstGiven[t].filter)
  BY <1>1, <1>2, <1>i DEF TurnsRemembered
<1> HIDE DEF f, Filter, Entry
<1>9. /\ catalogs' \in [Runs -> SUBSET ToolSet] /\ shownNote' \in [Runs -> Filter]
      /\ presented' \in Seq(Runs) /\ Len(presented') <= RunCap
      /\ since' \in [Runs -> SUBSET Runs]
      /\ Distinct(presented') /\ RunsRemembered'
      /\ shownNote'[r] = f /\ \A q \in Runs \ {r} : shownNote'[q] = shownNote[q]
      /\ runPC'[r] = "model" /\ \A q \in Runs \ {r} : runPC'[q] = runPC[q]
  BY <1>i, <1>1, <1>4, PresentFacts
<1>10. DecisionTypeOK'
  <2>1. runPC' \in [Runs -> {"idle", "scoring", "model", "done"}]
    BY <1>i, <1>1 DEF DecisionTypeOK
  <2> QED
    BY <1>i, <1>1, <1>9, <2>1 DEF DecisionTypeOK
<1>11. \A q \in Runs \ {r} : Executing(q)' <=> Executing(q)
  BY <1>9 DEF Executing
<1>12. OneRuns'
  <2> SUFFICES ASSUME NEW q \in Runs, Executing(q)', Conv(q) \notin Overlapping
               PROVE  /\ TurnOf[q] \notin crossed
                      /\ \A p \in Runs : Executing(p)' /\ Conv(p) = Conv(q) => p = q
                      /\ runPC'[q] = "scoring" =>
                            /\ pins[Conv(q)] = Anyone /\ ~filters[TurnOf[q]].scored
                            /\ \A u \in Turns \ {TurnOf[q]} : ConvOf[u] = Conv(q) => u \in crossed
    BY <1>1 DEF OneRuns, Conv
  <2>1. CASE q = r
    BY <2>1, <1>6, <1>9, <1>11
  <2>2. CASE q # r
    BY <2>2, <1>6, <1>9, <1>11, <1>i DEF OneRuns
  <2> QED
    BY <2>1, <2>2
<1>13. PinsFollow'
  BY <1>1, <1>i DEF PinsFollow
<1>14. NotesFollow'
  <2> SUFFICES ASSUME NEW q \in Runs, runPC'[q] = "model", Conv(q) \notin Overlapping
               PROVE  /\ pins[Conv(q)] = shownNote'[q].dispatch /\ firstGiven[TurnOf[q]].scored
                      /\ Cardinality(newer[TurnOf[q]]) < TurnCap => shownNote'[q] = firstGiven[TurnOf[q]].filter
    BY <1>1 DEF NotesFollow, Conv
  <2>1. CASE q = r
    BY <2>1, <1>7, <1>8, <1>9
  <2>2. CASE q # r
    BY <2>2, <1>9, <1>i DEF NotesFollow
  <2> QED
    BY <2>1, <2>2
<1>15. FiltersFit'
  <2>1. \A q \in Runs : runPC'[q] = "model" => Fits(shownNote'[q], TurnOf[q])
    BY <1>5, <1>9, <1>i DEF FiltersFit
  <2> QED
    BY <2>1, <1>1, <1>i DEF FiltersFit, Fits
<1>16. NamedNotRefused' /\ TurnsRemembered'
  BY <1>1, <1>i DEF NamedNotRefused, TurnsRemembered, Conv, Behind
<1>17. KeysOnce'
  BY <1>1, <1>9, <1>i DEF KeysOnce, Distinct
<1> QED
  BY <1>9, <1>10, <1>12, <1>13, <1>14, <1>15, <1>16, <1>17 DEF DecisionIInv, DecisionInv

\* A turn is asked about.
LEMMA CollectStep ==
    ASSUME DecisionIInv, NEW r \in Runs, Collect(r)
    PROVE  DecisionIInv'
<1> USE DecisionConstants
<1> DEFINE t == TurnOf[r]
<1>i. /\ DecisionTypeOK /\ KeysOnce /\ TurnsRemembered /\ RunsRemembered
      /\ OneRuns /\ PinsFollow /\ NotesFollow /\ FiltersFit /\ NamedNotRefused
  BY DEF DecisionIInv, DecisionInv
<1>1. /\ MayCall(r) /\ ~filters[t].scored
      /\ pins' = [pins EXCEPT ![Conv(r)] = Anyone] /\ runPC' = [runPC EXCEPT ![r] = "scoring"]
      /\ crossed' = (crossed \ {t}) \cup {u \in Turns \ {t} : ConvOf[u] = Conv(r)}
      /\ UNCHANGED <<filters, turnOrder, catalogs, presented, shownNote, refused, firstGiven, newer, since>>
  BY DEF Collect, DropPin
<1>2. t \in Turns /\ ConvOf[t] = Conv(r)
  BY DEF Conv
<1>3. /\ Conv(r) \notin Overlapping =>
             t \notin crossed /\ \A q \in Runs : Executing(q) /\ Conv(q) = Conv(r) => q = r
      /\ \A q \in Runs \ {r} : Executing(q) /\ Conv(q) \notin Overlapping => Conv(q) # Conv(r)
  BY <1>1, CallsAlone
<1>4. pins'[Conv(r)] = Anyone /\ \A d \in Convs \ {Conv(r)} : pins'[d] = pins[d]
  BY <1>1, <1>i DEF DecisionTypeOK
<1>5. runPC'[r] = "scoring" /\ \A q \in Runs \ {r} : runPC'[q] = runPC[q]
  BY <1>1, <1>i DEF DecisionTypeOK
<1>6. \A q \in Runs \ {r} : Executing(q)' <=> Executing(q)
  BY <1>5 DEF Executing
<1>7. DecisionTypeOK'
  <2>1. pins' \in [Convs -> Dispatches] /\ runPC' \in [Runs -> {"idle", "scoring", "model", "done"}] /\ crossed' \in SUBSET Turns
    BY <1>i, <1>1 DEF DecisionTypeOK
  <2> QED
    BY <1>i, <1>1, <2>1 DEF DecisionTypeOK
<1>8. OneRuns'
  <2> SUFFICES ASSUME NEW q \in Runs, Executing(q)', Conv(q) \notin Overlapping
               PROVE  /\ TurnOf[q] \notin crossed'
                      /\ \A p \in Runs : Executing(p)' /\ Conv(p) = Conv(q) => p = q
                      /\ runPC'[q] = "scoring" =>
                            /\ pins'[Conv(q)] = Anyone /\ ~filters[TurnOf[q]].scored
                            /\ \A u \in Turns \ {TurnOf[q]} : ConvOf[u] = Conv(q) => u \in crossed'
    BY <1>1 DEF OneRuns, Conv
  <2>1. CASE q = r
    BY <2>1, <1>1, <1>3, <1>4, <1>6
  <2>2. CASE q # r
    <3>1. Executing(q) /\ Conv(q) # Conv(r) /\ ConvOf[TurnOf[q]] = Conv(q) /\ runPC'[q] = runPC[q]
      BY <2>2, <1>3, <1>5, <1>6 DEF Conv
    <3>2. /\ TurnOf[q] \notin crossed
          /\ \A p \in Runs : Executing(p) /\ Conv(p) = Conv(q) => p = q
          /\ runPC[q] = "scoring" =>
                /\ pins[Conv(q)] = Anyone /\ ~filters[TurnOf[q]].scored
                /\ \A u \in Turns \ {TurnOf[q]} : ConvOf[u] = Conv(q) => u \in crossed
      BY <3>1, <1>i DEF OneRuns
    <3>3. TurnOf[q] \notin crossed'
      BY <3>1, <3>2, <1>1
    <3>4. \A p \in Runs : Executing(p)' /\ Conv(p) = Conv(q) => p = q
      BY <3>1, <3>2, <1>6
    <3>5. pins'[Conv(q)] = pins[Conv(q)]
      BY <3>1, <1>4
    <3>6. \A u \in Turns : ConvOf[u] = Conv(q) /\ u \in crossed => u \in crossed'
      BY <3>1, <1>1, <1>2
    <3> QED
      BY <3>1, <3>2, <3>3, <3>4, <3>5, <3>6
  <2> QED
    BY <2>1, <2>2
<1>9. PinsFollow'
  <2> SUFFICES ASSUME NEW u \in Turns, u \notin crossed', ConvOf[u] \notin Overlapping, filters[u].scored
               PROVE  pins'[ConvOf[u]] = filters[u].filter.dispatch
    BY <1>1 DEF PinsFollow
  <2>1. u # t /\ ConvOf[u] # Conv(r) /\ u \notin crossed
    BY <1>1
  <2> QED
    BY <2>1, <1>4, <1>i DEF PinsFollow
<1>10. NotesFollow'
  <2> SUFFICES ASSUME NEW q \in Runs, runPC'[q] = "model", Conv(q) \notin Overlapping
               PROVE  /\ pins'[Conv(q)] = shownNote[q].dispatch /\ firstGiven[TurnOf[q]].scored
                      /\ Cardinality(newer[TurnOf[q]]) < TurnCap => shownNote[q] = firstGiven[TurnOf[q]].filter
    BY <1>1 DEF NotesFollow, Conv
  <2>1. q # r /\ runPC[q] = "model" /\ Executing(q)
    BY <1>5 DEF Executing
  <2>2. pins'[Conv(q)] = pins[Conv(q)]
    BY <2>1, <1>3, <1>4
  <2> QED
    BY <2>1, <2>2, <1>i DEF NotesFollow
<1>11. RunsRemembered'
  <2>1. \A q \in Runs : runPC'[q] = "model" => runPC[q] = "model"
    BY <1>5
  <2> QED
    BY <2>1, <1>1, <1>i DEF RunsRemembered, Behind
<1>12. FiltersFit'
  <2>1. \A q \in Runs : runPC'[q] = "model" => runPC[q] = "model"
    BY <1>5
  <2> QED
    BY <2>1, <1>1, <1>i DEF FiltersFit, Fits
<1>13. NamedNotRefused' /\ TurnsRemembered' /\ KeysOnce'
  BY <1>1, <1>i DEF NamedNotRefused, TurnsRemembered, KeysOnce, Conv, Behind, Distinct
<1> QED
  BY <1>7, <1>8, <1>9, <1>10, <1>11, <1>12, <1>13 DEF DecisionIInv, DecisionInv

\* There is nothing to ask about a turn.
LEMMA AskNothingStep ==
    ASSUME DecisionIInv, NEW r \in Runs, AskNothing(r)
    PROVE  DecisionIInv'
<1> USE DecisionConstants
<1> DEFINE t == TurnOf[r]
<1>i. DecisionTypeOK /\ OneRuns
  BY DEF DecisionIInv, DecisionInv
<1>1. /\ MayCall(r) /\ ~filters[t].scored /\ CommitFilter(r, NoFilter) /\ UNCHANGED refused
      /\ pins' = [pins EXCEPT ![Conv(r)] = Anyone]
      /\ crossed' = (crossed \ {t}) \cup {u \in Turns \ {t} : ConvOf[u] = Conv(r)}
  BY DEF AskNothing, DropPin
<1>2. t \in Turns /\ ConvOf[t] = Conv(r)
  BY DEF Conv
<1>3. /\ Conv(r) \notin Overlapping =>
             t \notin crossed /\ \A q \in Runs : Executing(q) /\ Conv(q) = Conv(r) => q = r
      /\ \A q \in Runs \ {r} : Executing(q) /\ Conv(q) \notin Overlapping => Conv(q) # Conv(r)
  BY <1>1, CallsAlone
<1>4. NoFilter \in Filter /\ Fits(NoFilter, t) /\ NoFilter.dispatch = Anyone
  BY <1>2, GivenFits DEF NoFilter
<1>5. /\ pins'[Conv(r)] = Anyone /\ \A d \in Convs \ {Conv(r)} : pins'[d] = pins[d]
      /\ pins' \in [Convs -> Dispatches] /\ crossed' \in SUBSET Turns
  BY <1>1, <1>i DEF DecisionTypeOK
<1>6. /\ t \notin crossed' /\ \A u \in Turns \ {t} : ConvOf[u] = Conv(r) => u \in crossed'
      /\ \A u \in Turns : ConvOf[u] # Conv(r) => (u \in crossed' <=> u \in crossed)
  BY <1>1, <1>2
<1> HIDE DEF NoFilter
<1> QED
  BY <1>1, <1>3, <1>4, <1>5, <1>6, Commits

\* A run ends.
LEMMA EndStep ==
    ASSUME DecisionIInv, NEW r \in Runs, EndRun(r)
    PROVE  DecisionIInv'
<1> USE DecisionConstants
<1>i. /\ DecisionTypeOK /\ KeysOnce /\ TurnsRemembered /\ RunsRemembered
      /\ OneRuns /\ PinsFollow /\ NotesFollow /\ FiltersFit /\ NamedNotRefused
  BY DEF DecisionIInv, DecisionInv
<1>1. /\ runPC' = [runPC EXCEPT ![r] = "done"]
      /\ UNCHANGED <<tables, shownNote, refused, firstGiven, newer, since, crossed>>
  BY DEF EndRun
<1>2. \A q \in Runs : runPC'[q] = "done" \/ runPC'[q] = runPC[q]
  BY <1>1, <1>i DEF DecisionTypeOK
<1>3. \A q \in Runs : Executing(q)' => Executing(q) /\ runPC'[q] = runPC[q]
  BY <1>2 DEF Executing
<1>4. DecisionTypeOK'
  BY <1>1, <1>i DEF DecisionTypeOK, tables
<1>5. OneRuns'
  BY <1>1, <1>3, <1>i DEF OneRuns, tables, Conv
<1>6. PinsFollow' /\ NotesFollow'
  BY <1>1, <1>2, <1>i DEF PinsFollow, NotesFollow, tables, Conv
<1>7. FiltersFit' /\ RunsRemembered'
  BY <1>1, <1>2, <1>i DEF FiltersFit, Fits, RunsRemembered, Behind, tables
<1>8. NamedNotRefused' /\ TurnsRemembered' /\ KeysOnce'
  BY <1>1, <1>i DEF NamedNotRefused, TurnsRemembered, KeysOnce, Conv, Behind, Distinct, tables
<1> QED
  BY <1>4, <1>5, <1>6, <1>7, <1>8 DEF DecisionIInv, DecisionInv

\* A tool call changes what was refused, and nothing else.
LEMMA CallStep ==
    ASSUME DecisionIInv, NamedNotRefused', refused' \in [Runs -> SUBSET (MemberSet \cup ToolSet)],
           UNCHANGED <<tables, runPC, shownNote, firstGiven, newer, since, crossed>>
    PROVE  DecisionIInv'
<1>1. DecisionTypeOK' /\ KeysOnce' /\ TurnsRemembered' /\ RunsRemembered'
  BY DEF DecisionIInv, DecisionInv, DecisionTypeOK, KeysOnce, TurnsRemembered, RunsRemembered, tables, Distinct, Behind
<1>2. OneRuns' /\ PinsFollow' /\ NotesFollow' /\ FiltersFit'
  BY DEF DecisionIInv, DecisionInv, OneRuns, PinsFollow, NotesFollow, FiltersFit, Fits, tables, Executing, Conv
<1> QED
  BY <1>1, <1>2 DEF DecisionIInv, DecisionInv

\* The reply dispatches a member.
LEMMA AskStep ==
    ASSUME DecisionIInv, NEW r \in Runs, NEW m \in MemberSet, AskAgent(r, m)
    PROVE  DecisionIInv'
<1> USE DecisionConstants
<1>i. DecisionTypeOK /\ NotesFollow /\ FiltersFit /\ NamedNotRefused
  BY DEF DecisionIInv, DecisionInv
<1>1. /\ runPC[r] = "model"
      /\ refused' = [refused EXCEPT ![r] = IF Allows(pins[Conv(r)], m) THEN @ ELSE @ \cup {m}]
      /\ UNCHANGED <<tables, runPC, shownNote, firstGiven, newer, since, crossed>>
  BY DEF AskAgent
<1>2. refused' \in [Runs -> SUBSET (MemberSet \cup ToolSet)]
  BY <1>1, <1>i DEF DecisionTypeOK
<1>3. ASSUME TurnOf[r] \notin Followups, Conv(r) \notin Overlapping, m \in Named[TurnOf[r]]
      PROVE  Allows(pins[Conv(r)], m)
  <2>1. Allows(shownNote[r].dispatch, m)
    BY <1>1, <1>3, <1>i DEF FiltersFit, Fits
  <2>2. pins[Conv(r)] = shownNote[r].dispatch
    BY <1>1, <1>3, <1>i DEF NotesFollow
  <2> QED
    BY <2>1, <2>2
<1>4. NamedNotRefused'
  <2> SUFFICES ASSUME NEW q \in Runs, TurnOf[q] \notin Followups, Conv(q) \notin Overlapping
               PROVE  refused'[q] \cap Named[TurnOf[q]] = {}
    BY DEF NamedNotRefused, Conv
  <2>1. refused[q] \cap Named[TurnOf[q]] = {}
    BY <1>i DEF NamedNotRefused
  <2>2. CASE q = r
    <3>1. refused'[r] = IF Allows(pins[Conv(r)], m) THEN refused[r] ELSE refused[r] \cup {m}
      BY <1>1, <1>i DEF DecisionTypeOK
    <3> QED
      BY <2>1, <2>2, <3>1, <1>3
  <2>3. CASE q # r
    BY <2>1, <2>3, <1>1, <1>i DEF DecisionTypeOK
  <2> QED
    BY <2>2, <2>3
<1> QED
  BY <1>1, <1>2, <1>4, CallStep

\* The reply calls a tool of the note.
LEMMA ForwardStep ==
    ASSUME DecisionIInv, NEW r \in Runs, NEW t \in ToolSet, ForwardDeferred(r, t)
    PROVE  DecisionIInv'
<1> USE DecisionConstants
<1>i. DecisionTypeOK /\ NamedNotRefused
  BY DEF DecisionIInv, DecisionInv
<1>1. /\ refused' = [refused EXCEPT ![r] = IF t \in catalogs[r] THEN @ ELSE @ \cup {t}]
      /\ UNCHANGED <<tables, runPC, shownNote, firstGiven, newer, since, crossed>>
  BY DEF ForwardDeferred
<1>2. refused' \in [Runs -> SUBSET (MemberSet \cup ToolSet)]
  BY <1>1, <1>i DEF DecisionTypeOK
<1>3. t \notin MemberSet
  BY DecisionAssumption
<1>4. NamedNotRefused'
  <2> SUFFICES ASSUME NEW q \in Runs, TurnOf[q] \notin Followups, Conv(q) \notin Overlapping
               PROVE  refused'[q] \cap Named[TurnOf[q]] = {}
    BY DEF NamedNotRefused, Conv
  <2>1. refused[q] \cap Named[TurnOf[q]] = {} /\ Named[TurnOf[q]] \subseteq MemberSet
    BY <1>i DEF NamedNotRefused
  <2>2. refused'[q] \subseteq refused[q] \cup {t}
    BY <1>1, <1>i DEF DecisionTypeOK
  <2> QED
    BY <2>1, <2>2, <1>3
<1> QED
  BY <1>1, <1>2, <1>4, CallStep

LEMMA DecisionStarts == DecisionInit => DecisionIInv
<1> SUFFICES ASSUME DecisionInit PROVE DecisionIInv
  OBVIOUS
<1> USE DecisionConstants
<1>1. DecisionTypeOK
  <2>1. \A r \in Runs : runPC[r] = "idle"
    BY DEF DecisionInit
  <2>2. ToSet(turnOrder) = {} /\ Len(turnOrder) = 0 /\ Len(presented) = 0
    BY DEF DecisionInit, ToSet
  <2>3. {t \in Turns : filters[t].scored} = {}
    BY DEF DecisionInit, Unscored
  <2> HIDE DEF Filter, Entry, Dispatches, NoFilter, Unscored
  <2> QED
    BY <2>2, <2>3 DEF DecisionInit, DecisionTypeOK
<1>2. \A t \in Turns : ~filters[t].scored /\ ~firstGiven[t].scored /\ IsFiniteSet(newer[t])
  BY FS_EmptySet DEF DecisionInit, Unscored
<1>3. \A r \in Runs : runPC[r] = "idle" /\ IsFiniteSet(since[r]) /\ refused[r] = {} /\ ~Executing(r)
  BY FS_EmptySet DEF DecisionInit, Executing
<1>4. KeysOnce
  BY DEF DecisionInit, KeysOnce, Distinct
<1>5. TurnsRemembered /\ RunsRemembered /\ OneRuns /\ PinsFollow
  BY <1>2, <1>3 DEF TurnsRemembered, RunsRemembered, OneRuns, PinsFollow
<1>6. NotesFollow /\ FiltersFit /\ NamedNotRefused
  BY <1>2, <1>3 DEF NotesFollow, FiltersFit, NamedNotRefused
<1> QED
  BY <1>1, <1>4, <1>5, <1>6 DEF DecisionIInv, DecisionInv

LEMMA DecisionSteps == DecisionIInv /\ [DecisionNext]_decisionVars => DecisionIInv'
<1> SUFFICES ASSUME DecisionIInv, [DecisionNext]_decisionVars PROVE DecisionIInv'
  OBVIOUS
<1>1. CASE DecisionNext
  <2>1. PICK r \in Runs :
            \/ Replay(r) \/ Collect(r) \/ AskNothing(r) \/ ScoreStep(r) \/ EndRun(r)
            \/ \E m \in MemberSet : AskAgent(r, m)
            \/ \E t \in ToolSet : ForwardDeferred(r, t)
    BY <1>1 DEF DecisionNext
  <2> QED
    BY <2>1, ReplayStep, CollectStep, AskNothingStep, ScoreSteps, EndStep, AskStep, ForwardStep
<1>2. CASE UNCHANGED decisionVars
  <2>1. UNCHANGED <<tables, runPC, shownNote, firstGiven, newer, since, crossed>> /\ refused' = refused
    BY <1>2 DEF decisionVars
  <2>2. NamedNotRefused' /\ refused' \in [Runs -> SUBSET (MemberSet \cup ToolSet)]
    BY <2>1 DEF DecisionIInv, DecisionInv, NamedNotRefused, DecisionTypeOK, Conv
  <2> QED
    BY <2>1, <2>2, CallStep
<1> QED
  BY <1>1, <1>2

LEMMA DecisionsKept == DecisionIInv => DecisionsHold
<1> SUFFICES ASSUME DecisionIInv PROVE DecisionsHold
  OBVIOUS
<1> USE DecisionConstants
<1>i. /\ DecisionTypeOK /\ TurnsRemembered /\ RunsRemembered
      /\ NotesFollow /\ FiltersFit /\ NamedNotRefused
  BY DEF DecisionIInv, DecisionInv
<1>1. FrozenTurn
  <2>1. \A t \in Turns : Cardinality(newer[t]) \in Nat
    BY <1>i, FS_CardinalityType DEF TurnsRemembered
  <2> QED
    BY <1>i, <2>1 DEF FrozenTurn, NotesFollow
<1>2. NotedToolsCallable
  <2>1. \A r \in Runs : Cardinality(since[r]) \in Nat
    BY <1>i, FS_CardinalityType DEF RunsRemembered
  <2> QED
    BY <1>i, <2>1 DEF NotedToolsCallable, RunsRemembered
<1>3. NoteBinds /\ UnaskedToolsStay
  BY <1>i DEF NoteBinds, UnaskedToolsStay, NotesFollow, FiltersFit, Fits
<1> QED
  BY <1>1, <1>2, <1>3, <1>i DEF DecisionsHold, NoteHolds

\* The decision middleware's tables keep their types and their bounds.
THEOREM DecisionTypeCorrect == DecisionSpec => []DecisionTypeOK
<1>1. DecisionIInv => DecisionTypeOK
  BY DEF DecisionIInv
<1> QED
  BY <1>1, DecisionStarts, DecisionSteps, PTL DEF DecisionSpec

\* What a turn was given stays for its whole tool loop, and its note is what
\* its tool calls are held to, for any number of threads, turns and runs.
THEOREM DecisionsLast == DecisionSpec => []DecisionsHold
BY DecisionStarts, DecisionSteps, DecisionsKept, PTL DEF DecisionSpec

-----------------------------------------------------------------------------
\* The feed watcher (FeedWatch): ticks that do not overlap deliver every item once.

\* Ticks that do not overlap follow each other.
TicksApart == \A t, u \in Ticks : TickRuns(t) /\ TickRuns(u) => t = u

\* Between reading the watermark and replacing it, a tick has all that the
\* watermark holds in hand, and what it adds is not in it.
HandHolds(t) ==
    /\ watermark.ids \cup tick[t].new \subseteq tick[t].save \cup outgrown
    /\ tick[t].save \subseteq watermark.ids \cup tick[t].new \cup baseline
    /\ tick[t].new \cap watermark.ids = {}

\* The file beside is the one that the tick has opened, and is as the tick left it.
ScratchIsMine(t) ==
    /\ TickAt(t, "writing") \/ TickAt(t, "written") => tick[t].file = "scratch"
    /\ TickAt(t, "writing") => scratch.kind = "torn"
    /\ TickAt(t, "written") => scratch = Seen(tick[t].save)

TickKeeps(t) ==
    /\ tick[t].at \in {"filtered", "writing", "written"} => HandHolds(t)
    /\ TickAt(t, "saved") => /\ tick[t].new \subseteq watermark.ids \cup outgrown
                             /\ \A i \in tick[t].new : printed[i] = 0 \/ i \in outgrown
    /\ ScratchIsMine(t)

Calm ==
    /\ TicksApart /\ watermark.kind # "torn"
    /\ \A t \in Ticks : TickKeeps(t)
    /\ \A i \in 1..Items : printed[i] > 0 => i \in watermark.ids \cup outgrown
    /\ \A i \in 1..Items : printed[i] <= 1 \/ i \in outgrown
    /\ SeenIsDelivered

\* Files other than whole ones hold nothing.
EmptyFiles == \A f \in {watermark, scratch} : f.kind # "whole" => f.ids = {}

WatchIInv == WatchTypeOK /\ EmptyFiles /\ (~overlap => Calm)

LEMMA WatchStarts == WatchInit => WatchIInv
<1> SUFFICES ASSUME WatchInit PROVE WatchIInv
  OBVIOUS
<1>1. WatchTypeOK
  <2>1. NoFile \in Files /\ NoTick \in TickStates
    BY DEF Files, TickStates, NoFile, NoTick
  <2>2. Items \in Nat \ {0}
    BY FeedWatchAssumption
  <2>3. tick \in [Ticks -> TickStates] /\ printed \in [1..Items -> Nat]
    BY <2>1 DEF WatchInit
  <2>4. feed \in 1..Items
    BY <2>2 DEF WatchInit
  <2> QED
    BY <2>1, <2>3, <2>4 DEF WatchTypeOK, WatchInit
<1> USE DEF WatchInit, NoFile, NoTick
<1>2. EmptyFiles
  BY DEF EmptyFiles
<1>3. Calm
  BY DEF Calm, TicksApart, TickRuns, TickAt, TickKeeps, ScratchIsMine, SeenIsDelivered
<1> QED
  BY <1>1, <1>2, <1>3 DEF WatchIInv

LEMMA WatchTypes == WatchTypeOK /\ [WatchNext]_watchVars => WatchTypeOK'
<1> SUFFICES ASSUME WatchTypeOK, [WatchNext]_watchVars PROVE WatchTypeOK'
  OBVIOUS
<1> USE FeedWatchAssumption DEF WatchTypeOK, TickAt
<1>a. NoFile \in Files /\ TornFile \in Files /\ Over \in TickStates
  BY DEF NoFile, TornFile, Over, NoTick, Files, TickStates
<1>b. \A ids \in SUBSET (1..Items) : Seen(ids) \in Files
  BY DEF Seen, Files
<1>1. CASE Publish
  BY <1>1 DEF Publish
<1>2. ASSUME NEW t \in Ticks, FetchFeed(t) PROVE WatchTypeOK'
  <2>1. tick' \in [Ticks -> TickStates]
    <3>1. CASE tick' = [tick EXCEPT ![t] = Over]
      BY <3>1, <1>a
    <3>2. CASE tick' = [tick EXCEPT ![t].at = "fetched", ![t].batch = {i \in 1..feed : i > feed - PageSize}]
      <4>1. {i \in 1..feed : i > feed - PageSize} \in SUBSET (1..Items)
        OBVIOUS
      <4> DEFINE page == {i \in 1..feed : i > feed - PageSize}
                 next == [tick[t] EXCEPT !.at = "fetched", !.batch = page]
      <4> HIDE DEF page
      <4>2. next \in TickStates
        BY <4>1 DEF TickStates, page
      <4>3. tick' = [tick EXCEPT ![t] = next]
        BY <3>2 DEF page
      <4> HIDE DEF next
      <4> QED
        BY <4>2, <4>3
    <3> QED
      BY <1>2, <3>1, <3>2 DEF FetchFeed
  <2> QED
    BY <1>2, <2>1 DEF FetchFeed
<1>3. ASSUME NEW t \in Ticks, FilterNew(t) PROVE WatchTypeOK'
  <2> DEFINE first == watermark.kind # "whole"
             new   == Unseen(t)
             news  == IF first THEN {} ELSE new
  <2>1. PICK save \in IF Cardinality(watermark.ids \cup new) > MaxSeen
                        THEN Trim(watermark.ids, new) ELSE {watermark.ids \cup new} :
            /\ tick' = [tick EXCEPT ![t].at = "filtered", ![t].save = save, ![t].new = news]
            /\ baseline' = IF first THEN baseline \cup new ELSE baseline
            /\ outgrown' = outgrown \cup ((watermark.ids \cup new) \ save)
    BY <1>3 DEF FilterNew
  <2>2. new \subseteq 1..Items /\ watermark.ids \subseteq 1..Items
    BY DEF Unseen, TickStates, Files
  <2>3. save \subseteq 1..Items
    BY <2>1, <2>2 DEF Trim
  <2>4. news \subseteq 1..Items
    BY <2>2
  <2> HIDE DEF first, new, news
  <2>5. [tick[t] EXCEPT !.at = "filtered", !.save = save, !.new = news] \in TickStates
    BY <2>3, <2>4 DEF TickStates
  <2>6. tick' = [tick EXCEPT ![t] = [tick[t] EXCEPT !.at = "filtered", !.save = save, !.new = news]]
    BY <2>1
  <2>7. tick' \in [Ticks -> TickStates]
    BY <2>5, <2>6
  <2> QED
    BY <1>3, <2>1, <2>2, <2>3, <2>7 DEF FilterNew
<1>4. ASSUME NEW t \in Ticks, OpenScratch(t) PROVE WatchTypeOK'
  <2>1. [tick[t] EXCEPT !.at = "writing", !.file = "scratch"] \in TickStates
    BY DEF TickStates
  <2>2. tick' = [tick EXCEPT ![t] = [tick[t] EXCEPT !.at = "writing", !.file = "scratch"]]
    BY <1>4 DEF OpenScratch
  <2>3. tick' \in [Ticks -> TickStates]
    BY <2>1, <2>2
  <2> QED
    BY <1>4, <1>a, <2>3 DEF OpenScratch
<1>5. ASSUME NEW t \in Ticks, WriteScratch(t) PROVE WatchTypeOK'
  <2>1. tick' \in [Ticks -> TickStates]
    BY <1>5 DEF WriteScratch, TickStates
  <2>2. tick[t].save \in SUBSET (1..Items)
    BY DEF TickStates
  <2>3. \A f : WrittenOver(f, t) \subseteq Files
    BY <1>a, <1>b, <2>2 DEF WrittenOver
  <2> QED
    BY <1>5, <2>1, <2>3 DEF WriteScratch
<1>6. ASSUME NEW t \in Ticks, MoveScratch(t) PROVE WatchTypeOK'
  <2>1. tick' \in [Ticks -> TickStates]
    <3>1. CASE tick' = [tick EXCEPT ![t] = Over]
      BY <3>1, <1>a
    <3>2. CASE tick' = [u \in Ticks |-> IF u = t THEN [tick[u] EXCEPT !.at = "saved", !.file = "none"]
                                         ELSE [tick[u] EXCEPT !.file = MovedOn(@)]]
      BY <3>2 DEF TickStates, MovedOn
    <3> QED
      BY <1>6, <3>1, <3>2 DEF MoveScratch
  <2> QED
    BY <1>6, <1>a, <2>1 DEF MoveScratch
<1>7. ASSUME NEW t \in Ticks, Deliver(t) PROVE WatchTypeOK'
  <2>1. tick[t].new \subseteq 1..Items
    BY DEF TickStates
  <2>2. printed' \in [1..Items -> Nat]
    BY <1>7 DEF Deliver
  <2> QED
    BY <1>7, <1>a, <2>1, <2>2 DEF Deliver
<1>8. ASSUME NEW t \in Ticks, Kill(t) PROVE WatchTypeOK'
  <2>1. tick[t].new \subseteq 1..Items
    BY DEF TickStates
  <2> QED
    BY <1>8, <1>a, <2>1 DEF Kill
<1>9. CASE UNCHANGED watchVars
  BY <1>9 DEF watchVars
<1> QED
  BY <1>1, <1>2, <1>3, <1>4, <1>5, <1>6, <1>7, <1>8, <1>9 DEF WatchNext

-----------------------------------------------------------------------------
LEMMA FilesStayEmpty == WatchTypeOK /\ EmptyFiles /\ [WatchNext]_watchVars => EmptyFiles'
<1> SUFFICES ASSUME WatchTypeOK, EmptyFiles, [WatchNext]_watchVars PROVE EmptyFiles'
  OBVIOUS
<1>1. \A f, t : \A g \in WrittenOver(f, t) : g.kind # "whole" => g.ids = {}
  BY DEF WrittenOver, TornFile, Seen
<1>2. NoFile.ids = {} /\ TornFile.ids = {}
  BY DEF NoFile, TornFile
<1> USE DEF EmptyFiles
<1>3. ASSUME NEW t \in Ticks, OpenScratch(t) \/ WriteScratch(t) PROVE EmptyFiles'
  BY <1>1, <1>2, <1>3 DEF OpenScratch, WriteScratch
<1>4. ASSUME NEW t \in Ticks, MoveScratch(t) PROVE EmptyFiles'
  BY <1>2, <1>4 DEF MoveScratch
<1>5. ASSUME UNCHANGED <<watermark, scratch>> PROVE EmptyFiles'
  BY <1>5
<1> QED
  BY <1>3, <1>4, <1>5 DEF WatchNext, Publish, FetchFeed, FilterNew, Deliver, Kill, watchVars

\* What a step of a tick leaves of the others, when no other is running.
LEMMA TicksFrame ==
    ASSUME WatchTypeOK, Calm, NEW t \in Ticks, TickRuns(t) \/ ~\E u \in Ticks : TickRuns(u),
           \A u \in Ticks \ {t} : tick'[u].at = tick[u].at
    PROVE  /\ TicksApart'
           /\ \A u \in Ticks \ {t} : tick[u].at \in {"idle", "over"} /\ tick'[u].at \in {"idle", "over"}
BY DEF Calm, TicksApart, TickRuns

\* Ticks that are not running promise nothing.
LEMMA RestKeeps ==
    ASSUME NEW t, tick'[t].at \in {"idle", "over", "fetched"} PROVE TickKeeps(t)'
BY DEF TickKeeps, ScratchIsMine, TickAt

LEMMA CalmSteps ==
    ASSUME WatchIInv, [WatchNext]_watchVars, ~overlap' PROVE Calm'
<1> USE DEF WatchIInv, TickAt
<1>a. ~overlap /\ Calm /\ WatchTypeOK /\ WatchTypeOK'
  <2>1. overlap' = overlap \/ overlap' = (overlap \/ \E u \in Ticks : TickRuns(u))
    BY DEF WatchNext, Publish, FetchFeed, FilterNew, OpenScratch, WriteScratch, MoveScratch, Deliver, Kill, watchVars
  <2>2. overlap \in BOOLEAN
    BY DEF WatchTypeOK
  <2>3. ~overlap
    BY <2>1, <2>2
  <2> QED
    BY <2>3, WatchTypes
<1>1. CASE Publish \/ UNCHANGED watchVars
  BY <1>1, <1>a DEF Publish, watchVars, Calm, TicksApart, TickRuns, TickKeeps, HandHolds, ScratchIsMine, SeenIsDelivered
<1>2. ASSUME NEW t \in Ticks, FetchFeed(t) PROVE Calm'
  <2>1. TicksApart' /\ \A u \in Ticks \ {t} : tick[u].at \in {"idle", "over"} /\ tick'[u].at \in {"idle", "over"}
    BY <1>2, <1>a, TicksFrame DEF FetchFeed, WatchTypeOK
  <2>2. tick'[t].at \in {"fetched", "over"}
    BY <1>2, <1>a DEF FetchFeed, Over, NoTick, WatchTypeOK, TickStates
  <2>3. \A u \in Ticks : TickKeeps(u)'
    BY <2>1, <2>2, RestKeeps
  <2>4. SeenIsDelivered'
    BY <1>2, <1>a, <2>1 DEF FetchFeed, SeenIsDelivered, Calm
  <2> QED
    BY <1>2, <1>a, <2>1, <2>3, <2>4 DEF FetchFeed, Calm
<1>3. ASSUME NEW t \in Ticks, FilterNew(t) PROVE Calm'
  <2> DEFINE first == watermark.kind # "whole"
             new   == Unseen(t)
             news  == IF first THEN {} ELSE new
  <2>1. PICK save \in IF Cardinality(watermark.ids \cup new) > MaxSeen
                        THEN Trim(watermark.ids, new) ELSE {watermark.ids \cup new} :
            /\ tick' = [tick EXCEPT ![t].at = "filtered", ![t].save = save, ![t].new = news]
            /\ baseline' = IF first THEN baseline \cup new ELSE baseline
            /\ outgrown' = outgrown \cup ((watermark.ids \cup new) \ save)
    BY <1>3 DEF FilterNew
  <2>2. save \subseteq watermark.ids \cup new /\ new \cap watermark.ids = {}
    BY <2>1 DEF Trim, Unseen
  <2>3. news \subseteq new /\ new \subseteq news \cup baseline'
    BY <2>1
  <2>4. outgrown \subseteq outgrown' /\ baseline \subseteq baseline'
    BY <2>1
  <2> HIDE DEF first, new, news
  <2>5. /\ tick'[t].at = "filtered" /\ tick'[t].save = save /\ tick'[t].new = news
        /\ \A u \in Ticks \ {t} : tick'[u] = tick[u]
    BY <2>1, <1>a DEF WatchTypeOK, TickStates
  <2>6. TicksApart' /\ \A u \in Ticks \ {t} : tick[u].at \in {"idle", "over"} /\ tick'[u].at \in {"idle", "over"}
    BY <1>3, <1>a, <2>5, TicksFrame DEF FilterNew, TickRuns
  <2>7. TickKeeps(t)'
    BY <1>3, <2>1, <2>2, <2>3, <2>5 DEF FilterNew, TickKeeps, HandHolds, ScratchIsMine
  <2>8. \A u \in Ticks : TickKeeps(u)'
    BY <2>6, <2>7, RestKeeps
  <2>9. SeenIsDelivered'
    BY <1>3, <1>a, <2>4, <2>5, <2>6 DEF FilterNew, SeenIsDelivered, Calm
  <2> QED
    BY <1>3, <1>a, <2>4, <2>6, <2>8, <2>9 DEF FilterNew, Calm
<1>4. ASSUME NEW t \in Ticks, OpenScratch(t) PROVE Calm'
  <2>1. /\ tick'[t] = [tick[t] EXCEPT !.at = "writing", !.file = "scratch"]
        /\ \A u \in Ticks \ {t} : tick'[u] = tick[u]
    BY <1>4, <1>a DEF OpenScratch, WatchTypeOK
  <2>2. /\ tick'[t].at = "writing" /\ tick'[t].file = "scratch"
        /\ tick'[t].save = tick[t].save /\ tick'[t].new = tick[t].new
    BY <2>1, <1>a DEF WatchTypeOK, TickStates
  <2>3. TicksApart' /\ \A u \in Ticks \ {t} : tick[u].at \in {"idle", "over"} /\ tick'[u].at \in {"idle", "over"}
    BY <1>4, <1>a, <2>1, TicksFrame DEF OpenScratch, TickRuns
  <2>4. TickKeeps(t)'
    BY <1>4, <1>a, <2>2 DEF OpenScratch, Calm, TickKeeps, HandHolds, ScratchIsMine, TornFile
  <2>5. \A u \in Ticks : TickKeeps(u)'
    BY <2>3, <2>4, RestKeeps
  <2>6. SeenIsDelivered'
    BY <1>4, <1>a, <2>2, <2>3 DEF OpenScratch, SeenIsDelivered, Calm
  <2> QED
    BY <1>4, <1>a, <2>3, <2>5, <2>6 DEF OpenScratch, Calm
<1>5. ASSUME NEW t \in Ticks, WriteScratch(t) PROVE Calm'
  <2>1. tick[t].file = "scratch" /\ scratch.kind = "torn"
    BY <1>5, <1>a DEF WriteScratch, Calm, TickKeeps, ScratchIsMine
  <2>2. scratch' = Seen(tick[t].save) /\ watermark' = watermark
    BY <1>5, <2>1 DEF WriteScratch, WrittenOver
  <2>3. /\ tick'[t].at = "written" /\ tick'[t].file = "scratch"
        /\ tick'[t].save = tick[t].save /\ tick'[t].new = tick[t].new
        /\ \A u \in Ticks \ {t} : tick'[u] = tick[u]
    BY <1>5, <1>a, <2>1 DEF WriteScratch, WatchTypeOK, TickStates
  <2>4. TicksApart' /\ \A u \in Ticks \ {t} : tick[u].at \in {"idle", "over"} /\ tick'[u].at \in {"idle", "over"}
    BY <1>5, <1>a, <2>3, TicksFrame DEF WriteScratch, TickRuns
  <2>5. TickKeeps(t)'
    BY <1>5, <1>a, <2>2, <2>3 DEF WriteScratch, Calm, TickKeeps, HandHolds, ScratchIsMine, Seen
  <2>6. \A u \in Ticks : TickKeeps(u)'
    BY <2>4, <2>5, RestKeeps
  <2>7. SeenIsDelivered'
    BY <1>5, <1>a, <2>2, <2>3, <2>4 DEF WriteScratch, SeenIsDelivered, Calm
  <2> QED
    BY <1>5, <1>a, <2>2, <2>4, <2>6, <2>7 DEF WriteScratch, Calm
<1>6. ASSUME NEW t \in Ticks, MoveScratch(t) PROVE Calm'
  <2>1. scratch = Seen(tick[t].save) /\ HandHolds(t)
    BY <1>6, <1>a DEF MoveScratch, Calm, TickKeeps, ScratchIsMine
  <2>a. scratch.kind = "whole" /\ scratch.ids = tick[t].save
    BY <2>1 DEF Seen
  <2>2. /\ watermark' = scratch /\ watermark'.kind = "whole" /\ watermark'.ids = tick[t].save
        /\ tick' = [u \in Ticks |-> IF u = t THEN [tick[u] EXCEPT !.at = "saved", !.file = "none"]
                                    ELSE [tick[u] EXCEPT !.file = MovedOn(@)]]
    BY <1>6, <2>a DEF MoveScratch
  <2>3. /\ tick'[t].at = "saved" /\ tick'[t].new = tick[t].new
        /\ \A u \in Ticks \ {t} : tick'[u].at = tick[u].at
    <3>1. \A u \in Ticks : tick[u] \in TickStates
      BY <1>a DEF WatchTypeOK
    <3>2. tick'[t] = [tick[t] EXCEPT !.at = "saved", !.file = "none"]
      BY <2>2
    <3>3. \A u \in Ticks \ {t} : tick'[u] = [tick[u] EXCEPT !.file = MovedOn(tick[u].file)]
      BY <2>2
    <3> QED
      BY <3>1, <3>2, <3>3 DEF TickStates
  <2>4. TicksApart' /\ \A u \in Ticks \ {t} : tick[u].at \in {"idle", "over"} /\ tick'[u].at \in {"idle", "over"}
    BY <1>6, <1>a, <2>3, TicksFrame DEF MoveScratch, TickRuns
  <2>5. TickKeeps(t)'
    <3>1. \A i \in tick[t].new : i \in 1..Items
      BY <1>a DEF WatchTypeOK, TickStates
    <3>2. \A i \in tick[t].new : printed[i] \in Nat /\ (printed[i] = 0 \/ i \in outgrown)
      BY <3>1, <1>a, <2>1 DEF Calm, HandHolds, WatchTypeOK
    <3> QED
      BY <1>6, <2>1, <2>2, <2>3, <3>2 DEF MoveScratch, TickKeeps, HandHolds, ScratchIsMine
  <2>6. \A u \in Ticks : TickKeeps(u)'
    BY <2>4, <2>5, RestKeeps
  <2>7. \A i \in 1..Items : printed[i] > 0 => i \in watermark'.ids \cup outgrown
    BY <1>a, <2>1, <2>2 DEF Calm, HandHolds
  <2>8. SeenIsDelivered'
    BY <1>6, <1>a, <2>1, <2>2, <2>3, <2>4 DEF MoveScratch, SeenIsDelivered, Calm, HandHolds
  <2> QED
    BY <1>6, <1>a, <2>2, <2>4, <2>6, <2>7, <2>8 DEF MoveScratch, Calm
<1>7. ASSUME NEW t \in Ticks, Deliver(t) PROVE Calm'
  <2>1. tick'[t].at = "over" /\ \A u \in Ticks \ {t} : tick'[u] = tick[u]
    BY <1>7, <1>a DEF Deliver, Over, NoTick, WatchTypeOK
  <2>2. TicksApart' /\ \A u \in Ticks \ {t} : tick[u].at \in {"idle", "over"} /\ tick'[u].at \in {"idle", "over"}
    BY <1>7, <1>a, <2>1, TicksFrame DEF Deliver, TickRuns
  <2>3. \A u \in Ticks : TickKeeps(u)'
    BY <2>1, <2>2, RestKeeps
  <2>4. /\ tick[t].new \subseteq watermark.ids \cup outgrown
        /\ \A i \in tick[t].new : printed[i] = 0 \/ i \in outgrown
    BY <1>7, <1>a DEF Deliver, Calm, TickKeeps
  <2>5. Emitted(t) \subseteq tick[t].new
    BY DEF Emitted
  <2>6. \A i \in 1..Items : /\ printed[i] \in Nat
                            /\ printed'[i] = printed[i] + IF i \in Emitted(t) THEN 1 ELSE 0
    BY <1>7, <1>a DEF Deliver, WatchTypeOK
  <2>7. \A i \in 1..Items : /\ printed'[i] > 0 => i \in watermark.ids \cup outgrown
                            /\ printed'[i] <= 1 \/ i \in outgrown
    BY <1>a, <2>4, <2>5, <2>6 DEF Calm
  <2>8. SeenIsDelivered'
    <3> SUFFICES ASSUME NEW i \in watermark.ids
                 PROVE  printed'[i] > 0 \/ i \in (baseline \cup cut \cup killed)'
      BY <1>7 DEF Deliver, SeenIsDelivered
    <3>1. i \in 1..Items
      BY <1>a DEF WatchTypeOK, Files
    <3>2. CASE i \in tick[t].new
      BY <1>7, <3>1, <3>2, <2>6 DEF Deliver
    <3>3. CASE printed[i] > 0 \/ i \in baseline \cup cut \cup killed
      BY <1>7, <3>1, <3>3, <2>6 DEF Deliver
    <3> QED
      BY <1>a, <2>2, <3>2, <3>3 DEF Calm, SeenIsDelivered
  <2> QED
    BY <1>7, <1>a, <2>2, <2>3, <2>7, <2>8 DEF Deliver, Calm
<1>8. ASSUME NEW t \in Ticks, Kill(t) PROVE Calm'
  <2>1. tick'[t].at = "over" /\ \A u \in Ticks \ {t} : tick'[u] = tick[u]
    BY <1>8, <1>a DEF Kill, Over, NoTick, WatchTypeOK
  <2>2. TicksApart' /\ \A u \in Ticks \ {t} : tick[u].at \in {"idle", "over"} /\ tick'[u].at \in {"idle", "over"}
    BY <1>8, <1>a, <2>1, TicksFrame DEF Kill
  <2>3. \A u \in Ticks : TickKeeps(u)'
    BY <2>1, <2>2, RestKeeps
  <2>4. SeenIsDelivered'
    BY <1>8, <1>a, <2>2 DEF Kill, SeenIsDelivered, Calm
  <2> QED
    BY <1>8, <1>a, <2>2, <2>3, <2>4 DEF Kill, Calm
<1> QED
  BY <1>1, <1>2, <1>3, <1>4, <1>5, <1>6, <1>7, <1>8 DEF WatchNext

\* The files, the ticks and what was printed have the declared types.
THEOREM WatchTypeCorrect == WatchSpec => []WatchTypeOK
<1>1. WatchInit => WatchTypeOK
  BY WatchStarts DEF WatchIInv
<1> QED
  BY <1>1, WatchTypes, PTL DEF WatchSpec

\* While ticks do not overlap, the watermark is whole, no item is printed twice
\* and what it says is seen was printed; for any number of ticks, items and kills.
THEOREM WatchKept == WatchSpec => []WatchKeeps
<1>1. WatchIInv /\ [WatchNext]_watchVars => WatchIInv'
  BY CalmSteps, WatchTypes, FilesStayEmpty DEF WatchIInv
<1>2. WatchIInv => WatchKeeps
  BY DEF WatchIInv, Calm, WatchKeeps, DeliveredOnce, SeenIsDelivered, FileIsWhole
<1> QED
  BY <1>1, <1>2, WatchStarts, PTL DEF WatchSpec

-----------------------------------------------------------------------------
\* The ACP client service (AcpSession): no agent process strays, every permission settles.

LEMMA ActorFacts ==
    /\ \A a \in Calls : a \in Acting /\ a \in Users /\ a \notin Answers /\ a \notin Closers /\ a \notin Resets
    /\ \A r \in Answers : r \in Acting /\ r \in Users /\ r \notin Closers /\ r \notin Resets
    /\ \A x \in Closers : x \in Acting /\ x \notin Users /\ x \notin Resets
    /\ \A z \in Resets : z \in Acting /\ z \notin Users
    /\ \A a \in Acting \ Resets : AcpKeyOf[a] \in AcpKeys
    /\ NoOne \notin Calls /\ NoOne \notin Answers /\ NoOne \notin Asks
    /\ \A a \in Users : a \in Acting /\ a \notin Resets
    /\ \A a \in Starts : a \in Calls
BY AcpAssumption DEF Acting, Users

LEMMA RemovedFacts ==
    ASSUME NEW S, NEW s \in Seq(S), NEW e, \A i, j \in DOMAIN s : s[i] = s[j] => i = j
    PROVE  /\ RemoveFirst(s, e) \in Seq(S)
           /\ \A i \in DOMAIN RemoveFirst(s, e) : \E j \in DOMAIN s : j >= i /\ RemoveFirst(s, e)[i] = s[j] /\ s[j] # e
           /\ \A i, j \in DOMAIN RemoveFirst(s, e) : RemoveFirst(s, e)[i] = RemoveFirst(s, e)[j] => i = j
           /\ s # <<>> /\ s[1] # e => RemoveFirst(s, e) # <<>> /\ RemoveFirst(s, e)[1] = s[1]
<1>1. CASE ~\E i \in 1..Len(s) : s[i] = e
  BY <1>1 DEF RemoveFirst
<1>2. CASE \E i \in 1..Len(s) : s[i] = e
  <2>1. PICK k \in 1..Len(s) : s[k] = e
    BY <1>2
  <2> DEFINE t == SubSeq(s, 1, k - 1) \o SubSeq(s, k + 1, Len(s))
  <2>2. RemoveFirst(s, e) = t
    <3>1. {i \in 1..Len(s) : s[i] = e} = {k}
      BY <2>1
    <3>2. Min({k}) = k
      BY DEF Min
    <3>3. SelectInSeq(s, LAMBDA v : v = e) = k
      BY <3>1, <3>2 DEF SelectInSeq
    <3> QED
      BY <1>2, <3>3 DEF RemoveFirst, RemoveAt
  <2>3. /\ t \in Seq(S) /\ Len(t) = Len(s) - 1
        /\ \A i \in 1..Len(t) : t[i] = IF i < k THEN s[i] ELSE s[i + 1]
    <3>1. k - 1 \in 0..Len(s) /\ k + 1 \in 2..Len(s) + 1 /\ Len(s) \in Nat
      BY <2>1
    <3> DEFINE front == SubSeq(s, 1, k - 1)
               back  == SubSeq(s, k + 1, Len(s))
    <3>2. front \in Seq(S) /\ Len(front) = k - 1 /\ \A i \in 1..k - 1 : front[i] = s[i]
      BY <3>1
    <3>3. back \in Seq(S) /\ Len(back) = Len(s) - k /\ \A i \in 1..Len(s) - k : back[i] = s[k + i]
      BY <3>1
    <3> HIDE DEF front, back
    <3>4. /\ front \o back \in Seq(S) /\ Len(front \o back) = Len(s) - 1
          /\ \A i \in 1..Len(s) - 1 : (front \o back)[i] = IF i < k THEN front[i] ELSE back[i - k + 1]
      <4>1. Len(front) + Len(back) = Len(s) - 1 /\ Len(front) \in Nat /\ Len(back) \in Nat
        BY <3>1, <3>2, <3>3, <2>1
      <4>2. front \o back \in Seq(S) /\ Len(front \o back) = Len(front) + Len(back)
        BY <3>2, <3>3, ConcatProperties
      <4>3. \A i \in 1..Len(front) + Len(back) :
               (front \o back)[i] = IF i <= Len(front) THEN front[i] ELSE back[i - Len(front)]
        BY <3>2, <3>3
      <4>4. \A i \in 1..Len(s) - 1 : (i <= k - 1) = (i < k) /\ i - (k - 1) = i - k + 1
        BY <2>1
      <4> QED
        BY <4>1, <4>2, <4>3, <4>4, <3>2
    <3>5. \A i \in 1..Len(s) - 1 : (front \o back)[i] = IF i < k THEN s[i] ELSE s[i + 1]
      <4> SUFFICES ASSUME NEW i \in 1..Len(s) - 1
                   PROVE  (front \o back)[i] = IF i < k THEN s[i] ELSE s[i + 1]
        OBVIOUS
      <4>1. CASE i < k
        BY <4>1, <3>1, <3>2, <3>4, <2>1
      <4>2. CASE ~(i < k)
        <5>1. i - k + 1 \in 1..Len(s) - k /\ k + (i - k + 1) = i + 1
          BY <4>2, <3>1, <2>1
        <5> QED
          BY <5>1, <4>2, <3>3, <3>4
      <4> QED
        BY <4>1, <4>2
    <3> QED
      BY <3>4, <3>5 DEF front, back
  <2> HIDE DEF t
  <2>4. \A i \in DOMAIN t : (IF i < k THEN i ELSE i + 1) \in DOMAIN s /\ s[IF i < k THEN i ELSE i + 1] # e
    BY <2>1, <2>3
  <2>5. \A i \in DOMAIN t : \E j \in DOMAIN s : j >= i /\ t[i] = s[j] /\ s[j] # e
    BY <2>3, <2>4
  <2>6. \A i, j \in DOMAIN t : t[i] = t[j] => i = j
    <3> SUFFICES ASSUME NEW i \in DOMAIN t, NEW j \in DOMAIN t, t[i] = t[j] PROVE i = j
      OBVIOUS
    <3>1. (IF i < k THEN i ELSE i + 1) = (IF j < k THEN j ELSE j + 1)
      BY <2>3, <2>4
    <3> QED
      BY <3>1, <2>3, <2>1
  <2>7. s # <<>> /\ s[1] # e => t # <<>> /\ t[1] = s[1]
    BY <2>1, <2>3
  <2> QED
    BY <2>2, <2>3, <2>5, <2>6, <2>7
<1> QED
  BY <1>1, <1>2

-----------------------------------------------------------------------------
\* Nobody stands in a line twice; who waits for an outcome holds the lock.
LinesHold ==
    /\ \A c \in Calls : \A i, j \in DOMAIN queue[c] : queue[c][i] = queue[c][j] => i = j
    /\ \A a \in Users : acpPC[a] = "waiting" =>
          conv[a] \in Calls /\ queue[conv[a]] # <<>> /\ queue[conv[a]][1] = a

\* A call that has not opened a conversation yet; there is nothing of it before.
NotOpened(c) == acpPC[c] \in {"idle", "restart", "lookup", "closing", "discarding", "opening"}

FreshConversations ==
    \A c \in Calls : NotOpened(c) =>
        /\ \A k \in AcpKeys : filed[k] # c
        /\ \A z \in Resets : c \notin todo[z]
        /\ \A a \in Acting : conv[a] # c
        /\ prompt[c] # "running" /\ pending[c] = NoOne

\* A conversation is filed under its own pair; what a reset has still to close is filed no more.
FiledOnce ==
    \A k \in AcpKeys : filed[k] # NoOne =>
        AcpKeyOf[filed[k]] = k /\ \A z \in Resets : filed[k] \notin todo[z]

\* A reset has nothing to close before it takes the table.
ResetsFresh == \A z \in Resets : acpPC[z] = "idle" => todo[z] = {}

\* A request is one conversation's, and its answer is one that was given there.
AsksHold ==
    /\ \A c \in Calls : pending[c] # NoOne => askPC[pending[c]] \in {"open", "resolved"}
    /\ \A c, d \in Calls : pending[c] = pending[d] /\ pending[c] # NoOne => c = d
    /\ \A p \in Asks : resolver[p] # NoOne =>
          askPC[p] \in {"resolved", "returned"} /\ acpPC[resolver[p]] \notin {"idle", "queued"}
    /\ \A c \in Calls : pending[c] # NoOne /\ askPC[pending[c]] = "resolved" =>
          resolver[pending[c]] # NoOne /\ conv[resolver[pending[c]]] = c

\* Of an answer that waits for the lock.
AnswersHold ==
    /\ \A r \in Answers : acpPC[r] = "idle" => meant[r] = NoOne
    /\ \A r \in Answers : acpPC[r] = "queued" =>
          /\ conv[r] \in Calls /\ meant[r] # NoOne
          /\ Doubled(conv[r]) \/ (pending[conv[r]] = meant[r] /\ askPC[meant[r]] = "open")

AcpIInv ==
    /\ AcpTypeOK /\ LinesHold /\ FreshConversations /\ FiledOnce /\ ResetsFresh /\ AsksHold /\ AnswersHold
    /\ NoStrayProcess /\ PermissionsSettle

AcpTypes == AcpTypeOK /\ LinesHold

LEMMA AcpStarts == AcpInit => AcpIInv
<1> SUFFICES ASSUME AcpInit PROVE AcpIInv
  OBVIOUS
<1> USE ActorFacts DEF AcpInit
<1>1. AcpTypeOK
  <2>1. <<>> \in Seq(Users)
    OBVIOUS
  <2>2. InLine
    BY DEF InLine
  <2> QED
    BY <2>1, <2>2 DEF AcpTypeOK, AcpPCs
<1>2. LinesHold /\ FreshConversations /\ FiledOnce /\ ResetsFresh /\ AsksHold /\ AnswersHold
  BY DEF LinesHold, FreshConversations, FiledOnce, ResetsFresh, AsksHold, AnswersHold
<1>3. NoStrayProcess /\ PermissionsSettle
  BY DEF NoStrayProcess, PermissionsSettle, AnswerIsMeant, WaiterHears, NoDeadEnd, Alive
<1> QED
  BY <1>1, <1>2, <1>3 DEF AcpIInv

-----------------------------------------------------------------------------
(* Types, and the lines before the locks of the conversations.             *)

\* A step that leaves the lines alone, of somebody who stands in none.
LEMMA LinesFrame ==
    ASSUME AcpTypeOK, LinesHold, NEW a \in Acting, acpPC[a] \notin {"queued", "waiting"},
           acpPC'[a] \notin {"queued", "waiting"}, queue' = queue,
           \A b \in Acting \ {a} : acpPC'[b] = acpPC[b] /\ conv'[b] = conv[b]
    PROVE  InLine' /\ LinesHold'
<1>1. \A c \in Calls : \A i \in 1..Len(queue[c]) : queue[c][i] \in Acting \ {a}
  BY DEF AcpTypeOK, InLine, Acting
<1>2. InLine'
  BY <1>1 DEF AcpTypeOK, InLine
<1>3. LinesHold'
  BY ActorFacts DEF LinesHold
<1> QED
  BY <1>2, <1>3

\* Somebody joins a line.
LEMMA LinesJoin ==
    ASSUME AcpTypeOK, LinesHold, NEW a \in Users, NEW c \in Calls, acpPC[a] \notin {"queued", "waiting"},
           Queue(a, c), Move(a, "queued")
    PROVE  queue' \in [Calls -> Seq(Users)] /\ InLine' /\ LinesHold'
<1> USE ActorFacts DEF AcpTypeOK
<1>1. \A d \in Calls : \A i \in 1..Len(queue[d]) : queue[d][i] \in Acting \ {a} /\ queue[d][i] \in Users
  BY DEF InLine
<1>2. /\ queue' \in [Calls -> Seq(Users)] /\ \A d \in Calls \ {c} : queue'[d] = queue[d]
      /\ Len(queue'[c]) = Len(queue[c]) + 1 /\ queue'[c][Len(queue[c]) + 1] = a
      /\ \A i \in 1..Len(queue[c]) : queue'[c][i] = queue[c][i]
  BY DEF Queue
<1>3. /\ \A b \in Acting \ {a} : acpPC'[b] = acpPC[b] /\ conv'[b] = conv[b]
      /\ acpPC'[a] = "queued" /\ conv'[a] = c
  BY DEF Queue, Move
<1>4. InLine'
  <2> SUFFICES ASSUME NEW d \in Calls, NEW i \in 1..Len(queue'[d])
               PROVE  /\ conv'[queue'[d][i]] = d
                      /\ acpPC'[queue'[d][i]] = "queued" \/ (i = 1 /\ acpPC'[queue'[d][i]] = "waiting")
    BY DEF InLine
  <2>1. CASE d # c \/ i <= Len(queue[d])
    <3>1. i \in 1..Len(queue[d]) /\ queue'[d][i] = queue[d][i]
      <4>1. CASE d # c
        BY <4>1, <1>2
      <4>2. CASE d = c
        BY <4>2, <2>1, <1>2
      <4> QED
        BY <4>1, <4>2
    <3> QED
      BY <3>1, <1>1, <1>3 DEF InLine
  <2>2. CASE d = c /\ i = Len(queue[c]) + 1
    BY <2>2, <1>2, <1>3
  <2> QED
    BY <2>1, <2>2, <1>2
<1>5. LinesHold'
  <2>1. ASSUME NEW d \in Calls, NEW i \in DOMAIN queue'[d], NEW j \in DOMAIN queue'[d], queue'[d][i] = queue'[d][j]
        PROVE  i = j
    <3>1. CASE d # c
      BY <3>1, <2>1, <1>2 DEF LinesHold
    <3>2. CASE d = c
      <4>1. Len(queue[c]) \in Nat /\ i \in 1..Len(queue[c]) + 1 /\ j \in 1..Len(queue[c]) + 1
        BY <3>2, <1>2
      <4>2. \A m \in 1..Len(queue[c]) : queue'[c][m] # a
        BY <1>1, <1>2
      <4>3. CASE i \in 1..Len(queue[c]) /\ j \in 1..Len(queue[c])
        <5>1. queue[c][i] = queue[c][j] /\ i \in DOMAIN queue[c] /\ j \in DOMAIN queue[c]
          BY <4>3, <3>2, <2>1, <1>2
        <5> QED
          BY <5>1 DEF LinesHold
      <4> QED
        BY <4>1, <4>2, <4>3, <3>2, <2>1, <1>2
    <3> QED
      BY <3>1, <3>2
  <2>2. ASSUME NEW b \in Users, acpPC'[b] = "waiting"
        PROVE  conv'[b] \in Calls /\ queue'[conv'[b]] # <<>> /\ queue'[conv'[b]][1] = b
    <3>1. b # a /\ acpPC[b] = "waiting" /\ conv'[b] = conv[b]
      BY <2>2, <1>3
    <3>2. conv[b] \in Calls /\ queue[conv[b]] # <<>> /\ queue[conv[b]][1] = b
      BY <3>1 DEF LinesHold
    <3>3. 1 \in 1..Len(queue[conv[b]])
      BY <3>2
    <3> QED
      BY <3>1, <3>2, <3>3, <1>2
  <2> QED
    BY <2>1, <2>2, <1>2 DEF LinesHold
<1> QED
  BY <1>2, <1>4, <1>5

\* Somebody leaves the line, wherever in it.
LEMMA LinesLeave ==
    ASSUME AcpTypeOK, LinesHold, NEW a \in Users, conv[a] \in Calls, Unqueue(a), conv' = conv,
           NEW l, Move(a, l), l \notin {"queued", "waiting"}
    PROVE  queue' \in [Calls -> Seq(Users)] /\ InLine' /\ LinesHold'
<1> USE ActorFacts DEF AcpTypeOK
<1> DEFINE c == conv[a]
           s == queue[c]
           t == RemoveFirst(s, a)
<1>1. s \in Seq(Users) /\ \A i, j \in DOMAIN s : s[i] = s[j] => i = j
  BY DEF LinesHold
<1>2. /\ t \in Seq(Users)
      /\ \A i \in DOMAIN t : \E j \in DOMAIN s : j >= i /\ t[i] = s[j] /\ s[j] # a
      /\ \A i, j \in DOMAIN t : t[i] = t[j] => i = j
      /\ s # <<>> /\ s[1] # a => t # <<>> /\ t[1] = s[1]
  <2> HIDE DEF s
  <2> QED
    BY <1>1, RemovedFacts
<1>3. queue' = [queue EXCEPT ![c] = t]
  BY DEF Unqueue
<1> HIDE DEF t
<1>4. queue' \in [Calls -> Seq(Users)] /\ queue'[c] = t /\ \A d \in Calls \ {c} : queue'[d] = queue[d]
  BY <1>2, <1>3
<1>5. acpPC'[a] = l /\ \A b \in Acting \ {a} : acpPC'[b] = acpPC[b]
  BY DEF Move
<1>6. InLine'
  <2> SUFFICES ASSUME NEW d \in Calls, NEW i \in 1..Len(queue'[d])
               PROVE  /\ conv[queue'[d][i]] = d
                      /\ acpPC'[queue'[d][i]] = "queued" \/ (i = 1 /\ acpPC'[queue'[d][i]] = "waiting")
    BY DEF InLine
  <2>1. CASE d = c
    <3>a. i \in DOMAIN t /\ DOMAIN s = 1..Len(s) /\ i \in Nat /\ i >= 1
      BY <2>1, <1>2, <1>4
    <3>1. PICK j \in 1..Len(s) : j >= i /\ t[i] = s[j] /\ s[j] # a
      BY <3>a, <1>2
    <3>2. /\ conv[s[j]] = c /\ s[j] \in Users
          /\ acpPC[s[j]] = "queued" \/ (j = 1 /\ acpPC[s[j]] = "waiting")
      BY <3>1, <1>1 DEF InLine
    <3>3. j = 1 => i = 1
      BY <3>1, <3>a
    <3> QED
      BY <2>1, <3>1, <3>2, <3>3, <1>4, <1>5
  <2>2. CASE d # c
    <3>1. queue'[d] = queue[d] /\ queue[d][i] \in Users /\ conv[queue[d][i]] = d
      BY <2>2, <1>4 DEF InLine
    <3> QED
      BY <2>2, <3>1, <1>5 DEF InLine
  <2> QED
    BY <2>1, <2>2
<1>7. LinesHold'
  <2>1. ASSUME NEW d \in Calls PROVE \A i, j \in DOMAIN queue'[d] : queue'[d][i] = queue'[d][j] => i = j
    <3>1. CASE d = c
      BY <3>1, <1>2, <1>4
    <3>2. CASE d # c
      BY <3>2, <1>4 DEF LinesHold
    <3> QED
      BY <3>1, <3>2
  <2>2. ASSUME NEW b \in Users, acpPC'[b] = "waiting"
        PROVE  conv[b] \in Calls /\ queue'[conv[b]] # <<>> /\ queue'[conv[b]][1] = b
    <3>1. b # a /\ acpPC[b] = "waiting"
      BY <2>2, <1>5
    <3>2. conv[b] \in Calls /\ queue[conv[b]] # <<>> /\ queue[conv[b]][1] = b
      BY <3>1 DEF LinesHold
    <3> QED
      BY <3>1, <3>2, <1>2, <1>4
  <2> QED
    BY <2>1, <2>2 DEF LinesHold
<1> QED
  BY <1>4, <1>6, <1>7

\* The holder of a lock goes to work.
LEMMA LinesTurn ==
    ASSUME AcpTypeOK, LinesHold, NEW a \in Acting, conv[a] \in Calls, queue[conv[a]] # <<>>, queue[conv[a]][1] = a,
           Move(a, "waiting"), conv' = conv, queue' = queue
    PROVE  InLine' /\ LinesHold'
<1> USE ActorFacts DEF AcpTypeOK
<1>1. acpPC'[a] = "waiting" /\ \A b \in Acting \ {a} : acpPC'[b] = acpPC[b]
  BY DEF Move
<1>2. InLine'
  <2> SUFFICES ASSUME NEW d \in Calls, NEW i \in 1..Len(queue[d])
               PROVE  /\ conv[queue[d][i]] = d
                      /\ acpPC'[queue[d][i]] = "queued" \/ (i = 1 /\ acpPC'[queue[d][i]] = "waiting")
    BY DEF InLine
  <2>1. conv[queue[d][i]] = d /\ queue[d][i] \in Acting
    BY DEF InLine, Acting
  <2>2. CASE queue[d][i] = a
    <3>1. d = conv[a] /\ i \in DOMAIN queue[d] /\ 1 \in DOMAIN queue[d]
      BY <2>1, <2>2
    <3>2. i = 1
      BY <3>1, <2>2 DEF LinesHold
    <3> QED
      BY <2>1, <2>2, <3>2, <1>1
  <2>3. CASE queue[d][i] # a
    BY <2>1, <2>3, <1>1 DEF InLine
  <2> QED
    BY <2>2, <2>3
<1>3. LinesHold'
  BY <1>1 DEF LinesHold
<1> QED
  BY <1>2, <1>3

\* The conversation of a pair is taken out of the table.
LEMMA TakeOutTypes ==
    ASSUME AcpTypeOK, NEW a \in Acting \ Resets, NEW l \in AcpPCs, NEW n \in AcpPCs, TakeOut(a, l, n)
    PROVE  /\ filed' \in [AcpKeys -> Calls \cup {NoOne}] /\ acpPC' \in [Acting -> AcpPCs]
           /\ conv' \in [Acting -> Calls \cup {NoOne}]
           /\ prompt' \in [Calls -> {"none", "running", "cancelled", "ended"}]
           /\ acpPC'[a] \in {l, n} /\ \A b \in Acting \ {a} : acpPC'[b] = acpPC[b] /\ conv'[b] = conv[b]
<1> USE ActorFacts DEF AcpTypeOK, StartClosing, Move
<1>1. CASE Move(a, n) /\ UNCHANGED <<filed, conv, prompt>>
  BY <1>1
<1>2. CASE /\ Of(a) # NoOne /\ filed' = [filed EXCEPT ![AcpKeyOf[a]] = NoOne]
           /\ StartClosing(a, Of(a)) /\ Move(a, l)
  <2>1. Of(a) \in Calls
    BY <1>2 DEF Of
  <2>2. prompt' \in [Calls -> {"none", "running", "cancelled", "ended"}]
    BY <1>2, <2>1
  <2>3. conv' \in [Acting -> Calls \cup {NoOne}]
    BY <1>2, <2>1
  <2> QED
    BY <1>2, <2>2, <2>3
<1> QED
  BY <1>1, <1>2 DEF TakeOut

LEMMA OpenTypes ==
    ASSUME AcpTypes, NEW a \in Calls, OpenStep(a) PROVE AcpTypes'
<1> USE ActorFacts DEF AcpTypes, tableVars, agentVars, askVars
<1>a. a \in Acting \ Resets /\ a \in Users
  OBVIOUS
<1>b. {"idle", "restart", "lookup", "opening", "closing", "discarding", "queued", "done"} \subseteq AcpPCs
  BY DEF AcpPCs
<1>1. CASE Begin(a)
  <2>1. acpPC' \in [Acting -> AcpPCs] /\ acpPC'[a] \notin {"queued", "waiting"}
        /\ \A b \in Acting \ {a} : acpPC'[b] = acpPC[b] /\ conv'[b] = conv[b]
    BY <1>1, <1>b DEF Begin, Move, AcpTypeOK
  <2>2. InLine' /\ LinesHold'
    BY <1>1, <2>1, LinesFrame DEF Begin
  <2> QED
    BY <1>1, <2>1, <2>2 DEF Begin, AcpTypeOK
<1>2. CASE Restart(a)
  <2>1. TakeOut(a, "closing", "lookup")
    BY <1>2 DEF Restart
  <2>2. InLine' /\ LinesHold'
    BY <1>2, <1>a, <1>b, <2>1, TakeOutTypes, LinesFrame DEF Restart
  <2> QED
    BY <1>2, <1>a, <1>b, <2>1, <2>2, TakeOutTypes DEF Restart, AcpTypeOK
<1>3. CASE Lookup(a)
  <2>1. CASE Alive(Of(a)) /\ Queue(a, Of(a)) /\ Move(a, "queued") /\ UNCHANGED <<filed, process, prompt>>
    <3>1. Of(a) \in Calls
      BY <2>1, <1>a DEF Of, Alive, AcpTypeOK
    <3>2. queue' \in [Calls -> Seq(Users)] /\ InLine' /\ LinesHold'
      BY <1>3, <2>1, <3>1, LinesJoin DEF Lookup
    <3>3. acpPC' \in [Acting -> AcpPCs] /\ conv' \in [Acting -> Calls \cup {NoOne}]
      BY <2>1, <3>1, <1>b DEF Queue, Move, AcpTypeOK
    <3> QED
      BY <1>3, <2>1, <3>2, <3>3 DEF Lookup, AcpTypeOK
  <2>2. CASE TakeOut(a, "discarding", "done") /\ UNCHANGED <<queue, process>>
    <3>1. InLine' /\ LinesHold'
      BY <1>3, <1>a, <1>b, <2>2, TakeOutTypes, LinesFrame DEF Lookup
    <3> QED
      BY <1>3, <1>a, <1>b, <2>2, <3>1, TakeOutTypes DEF Lookup, AcpTypeOK
  <2>3. CASE /\ UNCHANGED <<filed, conv, queue, prompt>>
             /\ \/ process' = [process EXCEPT ![a] = "running"] /\ Move(a, "opening")
                \/ process' = process /\ Move(a, "done")
    <3>1. acpPC' \in [Acting -> AcpPCs] /\ acpPC'[a] \notin {"queued", "waiting"}
          /\ \A b \in Acting \ {a} : acpPC'[b] = acpPC[b] /\ conv'[b] = conv[b]
      <4>1. PICK l \in {"opening", "done"} : Move(a, l)
        BY <2>3
      <4>2. conv' = conv
        BY <2>3
      <4> QED
        BY <4>1, <4>2, <1>b DEF Move, AcpTypeOK
    <3>2. InLine' /\ LinesHold'
      BY <1>3, <2>3, <3>1, LinesFrame DEF Lookup
    <3>3. process' \in [Calls -> {"none", "running", "exited"}]
      BY <2>3 DEF AcpTypeOK
    <3> QED
      BY <1>3, <2>3, <3>1, <3>2, <3>3 DEF Lookup, AcpTypeOK
  <2> QED
    BY <1>3, <2>1, <2>2, <2>3 DEF Lookup
<1>4. CASE OpenFails(a)
  <2>1. acpPC' \in [Acting -> AcpPCs] /\ acpPC'[a] \notin {"queued", "waiting"}
        /\ \A b \in Acting \ {a} : acpPC'[b] = acpPC[b] /\ conv'[b] = conv[b]
    BY <1>4, <1>b DEF OpenFails, Move, AcpTypeOK
  <2>2. InLine' /\ LinesHold'
    BY <1>4, <2>1, LinesFrame DEF OpenFails
  <2> QED
    BY <1>4, <2>1, <2>2 DEF OpenFails, AcpTypeOK
<1>5. CASE OpenDropped(a)
  <2>1. acpPC' \in [Acting -> AcpPCs] /\ acpPC'[a] \notin {"queued", "waiting"}
        /\ \A b \in Acting \ {a} : acpPC'[b] = acpPC[b] /\ conv'[b] = conv[b]
    BY <1>5, <1>b DEF OpenDropped, Move, AcpTypeOK
  <2>2. InLine' /\ LinesHold'
    BY <1>5, <2>1, LinesFrame DEF OpenDropped
  <2>3. lost' \in SUBSET Calls
    BY <1>5 DEF OpenDropped, Lost, AcpTypeOK
  <2> QED
    BY <1>5, <2>1, <2>2, <2>3 DEF OpenDropped, AcpTypeOK
<1>6. CASE Opened(a)
  <2>1. queue' \in [Calls -> Seq(Users)] /\ InLine' /\ LinesHold'
    BY <1>6, LinesJoin DEF Opened
  <2>2. acpPC' \in [Acting -> AcpPCs] /\ conv' \in [Acting -> Calls \cup {NoOne}]
    BY <1>6, <1>b DEF Opened, Queue, Move, AcpTypeOK
  <2>3. filed' \in [AcpKeys -> Calls \cup {NoOne}]
    BY <1>6, <1>a DEF Opened, AcpTypeOK
  <2>4. lost' \in SUBSET Calls
    BY <1>6, <1>a DEF Opened, Lost, Of, AcpTypeOK
  <2> QED
    BY <1>6, <2>1, <2>2, <2>3, <2>4 DEF Opened, AcpTypeOK
<1> QED
  BY <1>1, <1>2, <1>3, <1>4, <1>5, <1>6 DEF OpenStep

LEMMA CloseTypes ==
    ASSUME AcpTypes, NEW a \in Acting, CloseStep(a) PROVE AcpTypes'
<1> USE ActorFacts DEF AcpTypes, tableVars, agentVars, askVars
<1>b. {"idle", "restart", "lookup", "opening", "closing", "discarding", "queued", "done"} \subseteq AcpPCs
  BY DEF AcpPCs
<1>1. CASE CloseThread(a)
  <2>1. TakeOut(a, "closing", "done") /\ a \in Acting \ Resets
    BY <1>1 DEF CloseThread
  <2>2. InLine' /\ LinesHold'
    BY <1>1, <1>b, <2>1, TakeOutTypes, LinesFrame DEF CloseThread
  <2> QED
    BY <1>1, <1>b, <2>1, <2>2, TakeOutTypes DEF CloseThread, AcpTypeOK
<1>2. CASE Replace(a)
  <2>1. acpPC' \in [Acting -> AcpPCs] /\ acpPC'[a] \notin {"queued", "waiting"}
        /\ \A b \in Acting \ {a} : acpPC'[b] = acpPC[b] /\ conv'[b] = conv[b]
    BY <1>2, <1>b DEF Replace, Move, AcpTypeOK
  <2>2. InLine' /\ LinesHold'
    BY <1>2, <2>1, LinesFrame DEF Replace
  <2>3. filed' \in [AcpKeys -> Calls \cup {NoOne}]
    BY <1>2 DEF Replace
  <2>4. {filed[k] : k \in AcpKeys} \ {NoOne} \in SUBSET Calls
    BY DEF AcpTypeOK
  <2>5. todo' \in [Resets -> SUBSET Calls]
    BY <1>2, <2>4 DEF Replace, AcpTypeOK
  <2> QED
    BY <1>2, <2>1, <2>2, <2>3, <2>5 DEF Replace, AcpTypeOK
<1>3. CASE CloseNext(a)
  <2>1. CASE Move(a, "done") /\ UNCHANGED <<conv, todo, prompt>>
    <3>1. acpPC' \in [Acting -> AcpPCs] /\ acpPC'[a] \notin {"queued", "waiting"}
          /\ \A b \in Acting \ {a} : acpPC'[b] = acpPC[b] /\ conv'[b] = conv[b]
      BY <2>1, <1>b DEF Move, AcpTypeOK
    <3>2. InLine' /\ LinesHold'
      BY <1>3, <3>1, LinesFrame DEF CloseNext
    <3> QED
      BY <1>3, <2>1, <3>1, <3>2 DEF CloseNext, AcpTypeOK
  <2>2. ASSUME NEW c \in todo[a], StartClosing(a, c), todo' = [todo EXCEPT ![a] = @ \ {c}], Move(a, "closing")
        PROVE  AcpTypes'
    <3>1. acpPC' \in [Acting -> AcpPCs] /\ acpPC'[a] \notin {"queued", "waiting"}
          /\ \A b \in Acting \ {a} : acpPC'[b] = acpPC[b] /\ conv'[b] = conv[b]
      BY <2>2, <1>b DEF Move, StartClosing, AcpTypeOK
    <3>2. InLine' /\ LinesHold'
      BY <1>3, <3>1, LinesFrame DEF CloseNext
    <3>3. c \in Calls
      BY <1>3 DEF CloseNext, AcpTypeOK
    <3>4. /\ conv' \in [Acting -> Calls \cup {NoOne}] /\ todo' \in [Resets -> SUBSET Calls]
          /\ prompt' \in [Calls -> {"none", "running", "cancelled", "ended"}]
      BY <2>2, <3>3 DEF StartClosing, AcpTypeOK
    <3> QED
      BY <1>3, <2>2, <3>1, <3>2, <3>4 DEF CloseNext, AcpTypeOK
  <2> QED
    BY <1>3, <2>1, <2>2 DEF CloseNext
<1>4. CASE Closed(a)
  <2>1. After(a) \in {"done", "lookup", "opening"}
    BY DEF After
  <2>2. acpPC' \in [Acting -> AcpPCs] /\ acpPC'[a] \notin {"queued", "waiting"}
        /\ \A b \in Acting \ {a} : acpPC'[b] = acpPC[b] /\ conv'[b] = conv[b]
    BY <1>4, <1>b, <2>1 DEF Closed, Move, AcpTypeOK
  <2>3. InLine' /\ LinesHold'
    BY <1>4, <2>2, LinesFrame DEF Closed
  <2>4. process' \in [Calls -> {"none", "running", "exited"}]
    BY <1>4 DEF Closed, Killed, AcpTypeOK
  <2>5. lost' \in SUBSET Calls
    BY <1>4 DEF Closed, Lost, AcpTypeOK
  <2> QED
    BY <1>4, <2>2, <2>3, <2>4, <2>5 DEF Closed, AcpTypeOK
<1> QED
  BY <1>1, <1>2, <1>3, <1>4 DEF CloseStep

LEMMA TurnTypes ==
    ASSUME AcpTypes, NEW a \in Users, TurnStep(a) PROVE AcpTypes'
<1> USE ActorFacts DEF AcpTypes, tableVars, agentVars, askVars
<1>a. a \in Acting /\ a \notin Resets
  OBVIOUS
<1>b. {"waiting", "interrupt", "queued", "done"} \subseteq AcpPCs
  BY DEF AcpPCs
<1>c. Holds(a) => conv[a] \in Calls /\ queue[conv[a]] # <<>> /\ queue[conv[a]][1] = a
  BY <1>a DEF Holds, AcpTypeOK
<1>1. CASE Turn(a)
  <2>1. CASE Unqueue(a) /\ Move(a, "done") /\ UNCHANGED <<prompt, requested, stopped>>
    <3>1. queue' \in [Calls -> Seq(Users)] /\ InLine' /\ LinesHold'
      BY <1>1, <1>c, <2>1, LinesLeave DEF Turn
    <3>2. acpPC' \in [Acting -> AcpPCs]
      BY <2>1, <1>b DEF Move, AcpTypeOK
    <3> QED
      BY <1>1, <2>1, <3>1, <3>2 DEF Turn, AcpTypeOK
  <2>2. CASE /\ prompt' = [prompt EXCEPT ![conv[a]] = "running"]
             /\ requested' = [requested EXCEPT ![conv[a]] = FALSE]
             /\ stopped' = stopped \ {conv[a]} /\ Move(a, "waiting") /\ UNCHANGED queue
    <3>1. Holds(a) /\ conv' = conv
      BY <1>1 DEF Turn
    <3>2. InLine' /\ LinesHold'
      BY <2>2, <3>1, <1>a, <1>c, LinesTurn
    <3>3. acpPC' \in [Acting -> AcpPCs]
      BY <2>2, <1>b DEF Move, AcpTypeOK
    <3>4. /\ prompt' \in [Calls -> {"none", "running", "cancelled", "ended"}] /\ requested' \in [Calls -> BOOLEAN]
          /\ stopped' \in SUBSET Calls
      BY <2>2, <1>c, <3>1 DEF AcpTypeOK
    <3> QED
      BY <1>1, <2>2, <3>2, <3>3, <3>4 DEF Turn, AcpTypeOK
  <2> QED
    BY <1>1, <2>1, <2>2 DEF Turn
<1>2. CASE Answer(a)
  <2>1. CASE Answerable(Of(a)) /\ meant' = [meant EXCEPT ![a] = pending[Of(a)]] /\ Queue(a, Of(a)) /\ Move(a, "queued")
    <3>1. Of(a) \in Calls
      BY <1>2, <2>1, <1>a DEF Of, Answerable, AcpTypeOK
    <3>2. queue' \in [Calls -> Seq(Users)] /\ InLine' /\ LinesHold'
      BY <1>2, <2>1, <3>1, LinesJoin DEF Answer
    <3>3. acpPC' \in [Acting -> AcpPCs] /\ conv' \in [Acting -> Calls \cup {NoOne}]
      BY <2>1, <3>1, <1>b DEF Queue, Move, AcpTypeOK
    <3>4. meant' \in [Answers -> Asks \cup {NoOne}]
      BY <2>1, <3>1 DEF AcpTypeOK
    <3> QED
      BY <1>2, <3>2, <3>3, <3>4 DEF Answer, AcpTypeOK
  <2>2. CASE Move(a, "done") /\ UNCHANGED <<conv, queue, meant>>
    <3>1. acpPC' \in [Acting -> AcpPCs] /\ acpPC'[a] \notin {"queued", "waiting"}
          /\ \A b \in Acting \ {a} : acpPC'[b] = acpPC[b] /\ conv'[b] = conv[b]
      BY <2>2, <1>a, <1>b DEF Move, AcpTypeOK
    <3>2. InLine' /\ LinesHold'
      BY <1>2, <1>a, <2>2, <3>1, LinesFrame DEF Answer
    <3> QED
      BY <1>2, <2>2, <3>1, <3>2 DEF Answer, AcpTypeOK
  <2> QED
    BY <1>2, <2>1, <2>2 DEF Answer
<1>3. CASE Resolve(a)
  <2>a. Holds(a) /\ conv' = conv /\ a \in Answers
    BY <1>3 DEF Resolve
  <2>b. requested' \in [Calls -> BOOLEAN]
    BY <1>3, <1>c, <2>a DEF Resolve, AcpTypeOK
  <2>1. CASE Unqueue(a) /\ Move(a, "done") /\ UNCHANGED <<askPC, resolver>>
    <3>1. queue' \in [Calls -> Seq(Users)] /\ InLine' /\ LinesHold'
      BY <1>c, <2>a, <2>1, LinesLeave
    <3>2. acpPC' \in [Acting -> AcpPCs]
      BY <2>1, <1>b DEF Move, AcpTypeOK
    <3> QED
      BY <1>3, <2>1, <2>b, <3>1, <3>2 DEF Resolve, AcpTypeOK
  <2>2. CASE LET p == pending[conv[a]] IN
             /\ p # NoOne /\ askPC' = [askPC EXCEPT ![p] = "resolved"]
             /\ resolver' = [resolver EXCEPT ![p] = IF askPC[p] = "open" THEN a ELSE @]
             /\ Move(a, "waiting") /\ UNCHANGED queue
    <3>1. InLine' /\ LinesHold'
      BY <2>2, <2>a, <1>a, <1>c, LinesTurn
    <3>2. acpPC' \in [Acting -> AcpPCs]
      BY <2>2, <1>b DEF Move, AcpTypeOK
    <3>3. askPC' \in [Asks -> {"idle", "open", "resolved", "returned"}] /\ resolver' \in [Asks -> Answers \cup {NoOne}]
      BY <2>2, <2>a, <1>c DEF AcpTypeOK
    <3> QED
      BY <1>3, <2>2, <2>b, <3>1, <3>2, <3>3 DEF Resolve, AcpTypeOK
  <2> QED
    BY <1>3, <2>1, <2>2 DEF Resolve
<1>4. CASE Outcome(a)
  <2>1. conv[a] \in Calls
    BY <1>4 DEF Outcome, LinesHold
  <2>2. queue' \in [Calls -> Seq(Users)] /\ InLine' /\ LinesHold'
    BY <1>4, <2>1, LinesLeave DEF Outcome
  <2>3. acpPC' \in [Acting -> AcpPCs]
    BY <1>4, <1>b DEF Outcome, Move, AcpTypeOK
  <2>4. prompt' \in [Calls -> {"none", "running", "cancelled", "ended"}]
    BY <1>4, <2>1 DEF Outcome, AcpTypeOK
  <2> QED
    BY <1>4, <2>2, <2>3, <2>4 DEF Outcome, AcpTypeOK
<1>5. CASE TimeOut(a)
  <2>1. acpPC' \in [Acting -> AcpPCs] /\ acpPC'[a] \notin {"queued", "waiting"}
        /\ \A b \in Acting \ {a} : acpPC'[b] = acpPC[b] /\ conv'[b] = conv[b]
    BY <1>5, <1>a, <1>b DEF TimeOut, Move, AcpTypeOK
  <2>2. process' \in [Calls -> {"none", "running", "exited"}]
    BY <1>5 DEF TimeOut, AcpTypeOK
  <2>3. queue' \in [Calls -> Seq(Users)] /\ InLine' /\ LinesHold'
    <3>1. CASE acpPC[a] \in {"queued", "waiting"} /\ conv[a] \in Calls
      BY <1>5, <3>1, LinesLeave DEF TimeOut
    <3>2. CASE acpPC[a] \notin {"queued", "waiting"}
      BY <1>5, <1>a, <3>2, <2>1, LinesFrame DEF TimeOut, AcpTypeOK
    <3>3. CASE acpPC[a] \in {"queued", "waiting"} /\ conv[a] \notin Calls
      <4>1. queue' = queue
        BY <1>5, <3>3 DEF TimeOut, Unqueue, AcpTypeOK
      <4>2. \A c \in Calls : \A i \in 1..Len(queue[c]) : queue[c][i] \in Acting \ {a}
        BY <3>3 DEF AcpTypeOK, InLine, Acting
      <4>3. InLine'
        BY <2>1, <4>1, <4>2 DEF AcpTypeOK, InLine
      <4>4. LinesHold'
        BY <2>1, <4>1 DEF LinesHold
      <4> QED
        BY <4>1, <4>3, <4>4 DEF AcpTypeOK
    <3> QED
      BY <3>1, <3>2, <3>3
  <2> QED
    BY <1>5, <2>1, <2>2, <2>3 DEF TimeOut, AcpTypeOK
<1>6. CASE Interrupt(a)
  <2>1. acpPC' \in [Acting -> AcpPCs] /\ acpPC'[a] \notin {"queued", "waiting"}
        /\ \A b \in Acting \ {a} : acpPC'[b] = acpPC[b] /\ conv'[b] = conv[b]
    BY <1>6, <1>a, <1>b DEF Interrupt, Move, AcpTypeOK
  <2>2. InLine' /\ LinesHold'
    BY <1>6, <1>a, <2>1, LinesFrame DEF Interrupt
  <2>3. stopped' \in SUBSET Calls
    BY <1>6, <1>a DEF Interrupt, Of, AcpTypeOK
  <2> QED
    BY <1>6, <2>1, <2>2, <2>3 DEF Interrupt, AcpTypeOK
<1> QED
  BY <1>1, <1>2, <1>3, <1>4, <1>5, <1>6 DEF TurnStep

LEMMA AgentTypes ==
    ASSUME AcpTypes,
           \/ \E c \in Calls : PromptEnds(c) \/ Exits(c)
           \/ \E c \in Calls, p \in Asks : RequestPermission(p, c) \/ Returned(p, c)
           \/ UNCHANGED acpVars
    PROVE  AcpTypes'
<1> USE ActorFacts DEF AcpTypes, tableVars, agentVars, askVars, acpVars
<1>1. InLine' /\ LinesHold'
  <2>1. acpPC' = acpPC /\ conv' = conv /\ queue' = queue
    BY DEF PromptEnds, Exits, RequestPermission, Returned
  <2> QED
    BY <2>1 DEF AcpTypeOK, InLine, LinesHold
<1>2. ASSUME NEW c \in Calls, PromptEnds(c) \/ Exits(c) PROVE AcpTypes'
  BY <1>1, <1>2 DEF PromptEnds, Exits, AcpTypeOK
<1>3. ASSUME NEW c \in Calls, NEW p \in Asks, RequestPermission(p, c) \/ Returned(p, c) PROVE AcpTypes'
  <2>1. CASE RequestPermission(p, c)
    BY <1>1, <2>1 DEF RequestPermission, AcpTypeOK
  <2>2. CASE Returned(p, c)
    BY <1>1, <2>2 DEF Returned, AcpTypeOK
  <2> QED
    BY <1>3, <2>1, <2>2
<1>4. CASE UNCHANGED acpVars
  BY <1>1, <1>4 DEF AcpTypeOK
<1> QED
  BY <1>2, <1>3, <1>4

LEMMA AcpTypesKept == AcpTypes /\ [AcpNext]_acpVars => AcpTypes'
BY OpenTypes, CloseTypes, TurnTypes, AgentTypes DEF AcpNext

-----------------------------------------------------------------------------
(* The table, and what is taken out of it.                                 *)

\* What a step does to the table, the conversations in hand and the prompts.
TableStep ==
    /\ \A z \in Resets : acpPC'[z] = "idle" => acpPC[z] = "idle"
    /\ \A c \in Calls : NotOpened(c)' => NotOpened(c)
    /\ \A k \in AcpKeys : \/ filed'[k] \in {filed[k], NoOne}
                          \/ \E c \in Calls : filed'[k] = c /\ NotOpened(c) /\ ~NotOpened(c)' /\ AcpKeyOf[c] = k
    /\ \A z \in Resets : \/ todo'[z] \subseteq todo[z]
                         \/ /\ acpPC'[z] # "idle" /\ \A k \in AcpKeys : filed'[k] = NoOne
                            /\ todo'[z] \subseteq {filed[k] : k \in AcpKeys}
    /\ \A x \in Acting : \/ conv'[x] = conv[x]
                         \/ \E k \in AcpKeys : conv'[x] = filed[k]
                         \/ \E z \in Resets : conv'[x] \in todo[z]
                         \/ x \in Calls /\ conv'[x] = x /\ ~NotOpened(x)'
    /\ \A c \in Calls : prompt'[c] = "running" => prompt[c] = "running" \/ \E a \in Acting : conv[a] = c
    /\ \A c \in Calls : pending'[c] # NoOne => pending[c] # NoOne \/ prompt[c] = "running"

LEMMA OpenTables ==
    ASSUME AcpTypes, NEW a \in Calls, OpenStep(a) PROVE TableStep
<1> USE ActorFacts DEF AcpTypes, AcpTypeOK, tableVars, agentVars, askVars, TableStep, Move, NotOpened
<1>1. CASE Begin(a) \/ OpenFails(a) \/ OpenDropped(a)
  BY <1>1 DEF Begin, OpenFails, OpenDropped
<1>2. CASE Restart(a)
  BY <1>2 DEF Restart, TakeOut, StartClosing, Of
<1>3. CASE Lookup(a)
  BY <1>3 DEF Lookup, TakeOut, StartClosing, Of, Queue, Alive
<1>4. CASE Opened(a)
  <2>1. \A k \in AcpKeys : filed'[k] = filed[k] \/ (filed'[k] = a /\ AcpKeyOf[a] = k)
    BY <1>4 DEF Opened
  <2>2. acpPC[a] = "opening" /\ acpPC'[a] = "queued" /\ \A c \in Calls \ {a} : acpPC'[c] = acpPC[c]
    BY <1>4 DEF Opened
  <2>3. \A x \in Acting : conv'[x] = conv[x] \/ (x = a /\ conv'[x] = a)
    BY <1>4 DEF Opened, Queue
  <2> QED
    BY <1>4, <2>1, <2>2, <2>3 DEF Opened
<1> QED
  BY <1>1, <1>2, <1>3, <1>4 DEF OpenStep

LEMMA CloseTables ==
    ASSUME AcpTypes, NEW a \in Acting, CloseStep(a) PROVE TableStep
<1> USE ActorFacts DEF AcpTypes, AcpTypeOK, tableVars, agentVars, askVars, TableStep, Move, NotOpened
<1>1. CASE CloseThread(a)
  BY <1>1 DEF CloseThread, TakeOut, StartClosing, Of
<1>2. CASE Replace(a)
  BY <1>2 DEF Replace
<1>3. CASE CloseNext(a)
  <2>1. CASE Move(a, "done") /\ UNCHANGED <<conv, todo, prompt>>
    BY <1>3, <2>1 DEF CloseNext
  <2>2. ASSUME NEW c \in todo[a], StartClosing(a, c), todo' = [todo EXCEPT ![a] = @ \ {c}], Move(a, "closing")
        PROVE  TableStep
    <3>1. a \in Resets /\ acpPC[a] = "lookup" /\ filed' = filed /\ pending' = pending
      BY <1>3 DEF CloseNext
    <3>2. \A x \in Acting : conv'[x] = conv[x] \/ conv'[x] \in todo[a]
      BY <2>2 DEF StartClosing
    <3>3. \A z \in Resets : todo'[z] \subseteq todo[z]
      BY <2>2
    <3>4. \A d \in Calls : prompt'[d] = "running" => prompt[d] = "running"
      BY <2>2 DEF StartClosing
    <3>5. /\ \A d \in Calls : acpPC'[d] = acpPC[d]
          /\ \A z \in Resets : acpPC'[z] = "idle" => acpPC[z] = "idle"
      BY <2>2, <3>1
    <3> QED
      BY <3>1, <3>2, <3>3, <3>4, <3>5
  <2> QED
    BY <1>3, <2>1, <2>2 DEF CloseNext
<1>4. CASE Closed(a)
  BY <1>4 DEF Closed, After
<1> QED
  BY <1>1, <1>2, <1>3, <1>4 DEF CloseStep

LEMMA TurnTables ==
    ASSUME AcpTypes, NEW a \in Users, TurnStep(a) PROVE TableStep
<1> USE ActorFacts DEF AcpTypes, AcpTypeOK, tableVars, agentVars, askVars, TableStep, Move, NotOpened
<1>1. CASE Turn(a)
  BY <1>1 DEF Turn, Holds
<1>2. CASE Answer(a)
  BY <1>2 DEF Answer, Queue, Of
<1>3. CASE Resolve(a) \/ Interrupt(a)
  BY <1>3 DEF Resolve, Interrupt
<1>4. CASE Outcome(a)
  BY <1>4 DEF Outcome
<1>5. CASE TimeOut(a)
  BY <1>5 DEF TimeOut
<1> QED
  BY <1>1, <1>2, <1>3, <1>4, <1>5 DEF TurnStep

LEMMA AgentTables ==
    ASSUME AcpTypes,
           \/ \E c \in Calls : PromptEnds(c) \/ Exits(c)
           \/ \E c \in Calls, p \in Asks : RequestPermission(p, c) \/ Returned(p, c)
           \/ UNCHANGED acpVars
    PROVE  TableStep
<1> USE ActorFacts DEF AcpTypes, AcpTypeOK, tableVars, agentVars, askVars, acpVars, TableStep, NotOpened
<1>1. ASSUME NEW c \in Calls, PromptEnds(c) \/ Exits(c) PROVE TableStep
  BY <1>1 DEF PromptEnds, Exits
<1>2. ASSUME NEW c \in Calls, NEW p \in Asks, RequestPermission(p, c) \/ Returned(p, c) PROVE TableStep
  BY <1>2 DEF RequestPermission, Returned
<1>3. CASE UNCHANGED acpVars
  BY <1>3
<1> QED
  BY <1>1, <1>2, <1>3

LEMMA TablesMove == AcpTypes /\ [AcpNext]_acpVars => TableStep
BY OpenTables, CloseTables, TurnTables, AgentTables DEF AcpNext

LEMMA TablesKept ==
    ASSUME AcpTypes, AcpTypes', FreshConversations, FiledOnce, ResetsFresh, TableStep
    PROVE  FreshConversations' /\ FiledOnce' /\ ResetsFresh'
<1> USE ActorFacts
<1>a. \A k \in AcpKeys : filed[k] \in Calls \cup {NoOne}
  BY DEF AcpTypes, AcpTypeOK
<1>1. ASSUME NEW c \in Calls, NotOpened(c)'
      PROVE  /\ \A k \in AcpKeys : filed'[k] # c
             /\ \A z \in Resets : c \notin todo'[z]
             /\ \A a \in Acting : conv'[a] # c
             /\ prompt'[c] # "running" /\ pending'[c] = NoOne
  <2>1. /\ NotOpened(c) /\ \A k \in AcpKeys : filed[k] # c
        /\ \A z \in Resets : c \notin todo[z]
        /\ \A a \in Acting : conv[a] # c
        /\ prompt[c] # "running" /\ pending[c] = NoOne
    BY <1>1 DEF FreshConversations, TableStep
  <2>2. \A k \in AcpKeys : filed'[k] # c
    BY <1>1, <2>1 DEF TableStep
  <2>3. \A z \in Resets : c \notin todo'[z]
    BY <2>1 DEF TableStep
  <2>4. \A a \in Acting : conv'[a] # c
    BY <1>1, <2>1 DEF TableStep
  <2>5. prompt'[c] # "running" /\ pending'[c] = NoOne
    BY <1>1, <2>1 DEF TableStep
  <2> QED
    BY <2>2, <2>3, <2>4, <2>5
<1>2. ASSUME NEW k \in AcpKeys, filed'[k] # NoOne
      PROVE  AcpKeyOf[filed'[k]] = k /\ \A z \in Resets : filed'[k] \notin todo'[z]
  <2>1. CASE filed'[k] = filed[k]
    BY <1>2, <2>1 DEF FiledOnce, TableStep
  <2>2. ASSUME NEW c \in Calls, filed'[k] = c, NotOpened(c), ~NotOpened(c)', AcpKeyOf[c] = k
        PROVE  AcpKeyOf[filed'[k]] = k /\ \A z \in Resets : filed'[k] \notin todo'[z]
    BY <2>2, <1>2 DEF FreshConversations, TableStep
  <2> QED
    BY <1>2, <2>1, <2>2 DEF TableStep
<1>3. ResetsFresh'
  BY DEF ResetsFresh, TableStep
<1> QED
  BY <1>1, <1>2, <1>3 DEF FreshConversations, FiledOnce

-----------------------------------------------------------------------------
(* No process is left behind.                                              *)

\* A process that runs is within reach.
InReach(c) ==
    \/ \E k \in AcpKeys : filed[k] = c
    \/ acpPC[c] = "opening"
    \/ \E a \in Acting : conv[a] = c /\ acpPC[a] \in {"closing", "discarding"}
    \/ \E z \in Resets : c \in todo[z]
    \/ c \in lost

\* A step of one actor: what it had in hand, and what it takes out of the table
\* or off a list, has to stay within reach.
LEMMA ReachFrame ==
    ASSUME NoStrayProcess, NEW a \in Acting,
           \A b \in Acting \ {a} : acpPC'[b] = acpPC[b] /\ conv'[b] = conv[b],
           lost \subseteq lost',
           \A c \in Calls : process'[c] = "running" => process[c] = "running" \/ InReach(c)',
           \A c \in Calls : process'[c] = "running" /\ c = a /\ acpPC[c] = "opening" => InReach(c)',
           \A c \in Calls : process'[c] = "running" /\ c = conv[a] /\ acpPC[a] \in {"closing", "discarding"} => InReach(c)',
           \A k \in AcpKeys : filed'[k] = filed[k] \/ \A c \in Calls : process'[c] = "running" /\ c = filed[k] => InReach(c)',
           \A z \in Resets : todo[z] \subseteq todo'[z] \/ \A c \in todo[z] : process'[c] = "running" => InReach(c)'
    PROVE  NoStrayProcess'
<1> USE ActorFacts
<1> SUFFICES ASSUME NEW c \in Calls, process'[c] = "running", process[c] = "running" PROVE InReach(c)'
  BY DEF NoStrayProcess, InReach
<1>1. CASE \E k \in AcpKeys : filed[k] = c
  <2>1. PICK k \in AcpKeys : filed[k] = c
    BY <1>1
  <2>2. CASE filed'[k] = filed[k]
    BY <2>1, <2>2 DEF InReach
  <2>3. CASE \A d \in Calls : process'[d] = "running" /\ d = filed[k] => InReach(d)'
    BY <2>1, <2>3
  <2> QED
    BY <2>2, <2>3
<1>2. CASE acpPC[c] = "opening"
  <2>1. CASE c = a
    BY <1>2, <2>1
  <2>2. CASE c # a
    BY <1>2, <2>2 DEF InReach
  <2> QED
    BY <2>1, <2>2
<1>3. CASE \E b \in Acting : conv[b] = c /\ acpPC[b] \in {"closing", "discarding"}
  <2>1. PICK b \in Acting : conv[b] = c /\ acpPC[b] \in {"closing", "discarding"}
    BY <1>3
  <2>2. CASE b = a
    BY <2>1, <2>2
  <2>3. CASE b # a
    <3>1. conv'[b] = c /\ acpPC'[b] \in {"closing", "discarding"}
      BY <2>1, <2>3
    <3> QED
      BY <3>1 DEF InReach
  <2> QED
    BY <2>2, <2>3
<1>4. CASE \E z \in Resets : c \in todo[z]
  <2>1. PICK z \in Resets : c \in todo[z]
    BY <1>4
  <2>2. CASE todo[z] \subseteq todo'[z]
    BY <2>1, <2>2 DEF InReach
  <2>3. CASE \A d \in todo[z] : process'[d] = "running" => InReach(d)'
    BY <2>1, <2>3
  <2> QED
    BY <2>2, <2>3
<1>5. CASE c \in lost
  BY <1>5 DEF InReach
<1> QED
  BY <1>1, <1>2, <1>3, <1>4, <1>5 DEF NoStrayProcess

\* One that is taken out of the table is closed.
LEMMA TakeOutReach ==
    ASSUME AcpTypes, NoStrayProcess, NEW a \in Acting \ Resets, acpPC[a] \notin {"opening", "closing", "discarding"},
           NEW l \in {"closing", "discarding"}, NEW n, TakeOut(a, l, n), UNCHANGED <<process, todo, lost>>
    PROVE  NoStrayProcess'
<1> USE ActorFacts DEF AcpTypes, AcpTypeOK, Move
<1>1. \A b \in Acting \ {a} : acpPC'[b] = acpPC[b] /\ conv'[b] = conv[b]
  BY DEF TakeOut, StartClosing
<1>2. \A k \in AcpKeys : filed'[k] = filed[k] \/ \A c \in Calls : process'[c] = "running" /\ c = filed[k] => InReach(c)'
  <2>1. CASE filed' = filed
    BY <2>1
  <2>2. CASE filed' = [filed EXCEPT ![AcpKeyOf[a]] = NoOne] /\ conv'[a] = Of(a) /\ acpPC'[a] = l
    <3>1. \A k \in AcpKeys : filed'[k] = filed[k] \/ filed[k] = Of(a)
      BY <2>2 DEF Of
    <3>2. \A c \in Calls : c = Of(a) => InReach(c)'
      BY <2>2 DEF InReach
    <3> QED
      BY <3>1, <3>2
  <2> QED
    BY <2>1, <2>2 DEF TakeOut, StartClosing
<1> QED
  BY <1>1, <1>2, ReachFrame

LEMMA OpenReach ==
    ASSUME AcpTypes, NoStrayProcess, NEW a \in Calls, OpenStep(a) PROVE NoStrayProcess'
<1> USE ActorFacts DEF AcpTypes, AcpTypeOK, tableVars, agentVars, askVars, Move
<1>1. CASE Begin(a)
  BY <1>1, ReachFrame DEF Begin
<1>2. CASE Restart(a)
  BY <1>2, TakeOutReach DEF Restart
<1>3. CASE Lookup(a)
  <2>a. acpPC[a] = "lookup" /\ todo' = todo /\ lost' = lost
    BY <1>3 DEF Lookup
  <2>1. CASE Queue(a, Of(a)) /\ Move(a, "queued") /\ UNCHANGED <<filed, process, prompt>>
    BY <2>a, <2>1, ReachFrame DEF Queue
  <2>2. CASE TakeOut(a, "discarding", "done") /\ UNCHANGED <<queue, process>>
    BY <2>a, <2>2, TakeOutReach
  <2>3. CASE process' = [process EXCEPT ![a] = "running"] /\ Move(a, "opening") /\ UNCHANGED <<filed, conv, queue, prompt>>
    <3>1. InReach(a)'
      BY <2>3 DEF InReach
    <3>2. \A c \in Calls \ {a} : process'[c] = process[c]
      BY <2>3
    <3> QED
      BY <2>a, <2>3, <3>1, <3>2, ReachFrame
  <2>4. CASE Move(a, "done") /\ UNCHANGED <<filed, conv, queue, agentVars>>
    BY <2>a, <2>4, ReachFrame
  <2> QED
    BY <1>3, <2>1, <2>2, <2>3, <2>4 DEF Lookup
<1>4. CASE OpenFails(a)
  BY <1>4, ReachFrame DEF OpenFails
<1>5. CASE OpenDropped(a)
  <2>1. /\ acpPC[a] = "opening" /\ \A b \in Acting \ {a} : acpPC'[b] = acpPC[b] /\ conv'[b] = conv[b]
        /\ UNCHANGED <<filed, todo, process>> /\ lost \subseteq lost' /\ (process[a] = "running" => a \in lost')
    BY <1>5 DEF OpenDropped, Lost
  <2>2. \A c \in Calls : process'[c] = "running" /\ c = a => InReach(c)'
    BY <2>1 DEF InReach
  <2> QED
    BY <2>1, <2>2, ReachFrame
<1>6. CASE Opened(a)
  <2>1. /\ filed' = [filed EXCEPT ![AcpKeyOf[a]] = a] /\ todo' = todo /\ process' = process
        /\ Of(a) # NoOne /\ process[Of(a)] = "running" => Of(a) \in lost'
        /\ lost \subseteq lost'
        /\ acpPC[a] = "opening" /\ \A b \in Acting \ {a} : acpPC'[b] = acpPC[b] /\ conv'[b] = conv[b]
    BY <1>6 DEF Opened, Lost, Queue
  <2>2. \A c \in Calls : c = a => InReach(c)'
    BY <2>1 DEF InReach
  <2>3. \A k \in AcpKeys : filed'[k] = filed[k] \/ filed[k] = Of(a)
    BY <2>1 DEF Of
  <2>4. \A c \in Calls : c = Of(a) /\ process[c] = "running" => InReach(c)'
    BY <2>1 DEF InReach
  <2>5. \A k \in AcpKeys : filed'[k] = filed[k] \/ \A c \in Calls : process'[c] = "running" /\ c = filed[k] => InReach(c)'
    <3>1. ASSUME NEW k \in AcpKeys, filed'[k] # filed[k], NEW c \in Calls, process'[c] = "running", c = filed[k]
          PROVE  InReach(c)'
      BY <2>1, <2>3, <2>4, <3>1
    <3> QED
      BY <3>1
  <2>6. \A b \in Acting \ {a} : acpPC'[b] = acpPC[b] /\ conv'[b] = conv[b]
    BY <2>1
  <2> QED
    BY <2>1, <2>2, <2>5, <2>6, ReachFrame
<1> QED
  BY <1>1, <1>2, <1>3, <1>4, <1>5, <1>6 DEF OpenStep

LEMMA CloseReach ==
    ASSUME AcpTypes, NoStrayProcess, ResetsFresh, NEW a \in Acting, CloseStep(a) PROVE NoStrayProcess'
<1> USE ActorFacts DEF AcpTypes, AcpTypeOK, tableVars, agentVars, askVars, Move
<1>1. CASE CloseThread(a)
  BY <1>1, TakeOutReach DEF CloseThread
<1>2. CASE Replace(a)
  <2>1. /\ \A k \in AcpKeys : filed[k] # NoOne => filed[k] \in todo'[a]
        /\ \A z \in Resets \ {a} : todo'[z] = todo[z]
        /\ conv' = conv /\ process' = process /\ lost' = lost /\ a \in Resets /\ acpPC[a] = "idle"
        /\ \A b \in Acting \ {a} : acpPC'[b] = acpPC[b]
    BY <1>2 DEF Replace
  <2>2. \A k \in AcpKeys : \A c \in Calls : c = filed[k] => InReach(c)'
    <3>1. ASSUME NEW c \in Calls, c \in todo'[a] PROVE InReach(c)'
      BY <2>1, <3>1 DEF InReach
    <3> QED
      BY <2>1, <3>1
  <2>3. \A z \in Resets : todo[z] \subseteq todo'[z]
    BY <2>1 DEF ResetsFresh
  <2> QED
    BY <2>1, <2>2, <2>3, ReachFrame
<1>3. CASE CloseNext(a)
  <2>a. a \in Resets /\ acpPC[a] = "lookup" /\ UNCHANGED <<filed, process, lost>>
    BY <1>3 DEF CloseNext
  <2>1. CASE Move(a, "done") /\ UNCHANGED <<conv, todo, prompt>>
    BY <2>a, <2>1, ReachFrame
  <2>2. ASSUME NEW c \in todo[a], StartClosing(a, c), todo' = [todo EXCEPT ![a] = @ \ {c}], Move(a, "closing")
        PROVE  NoStrayProcess'
    <3>2. /\ conv'[a] = c /\ acpPC'[a] = "closing"
          /\ \A b \in Acting \ {a} : acpPC'[b] = acpPC[b] /\ conv'[b] = conv[b]
          /\ todo'[a] = todo[a] \ {c} /\ \A z \in Resets \ {a} : todo'[z] = todo[z]
      BY <2>2, <2>a DEF StartClosing
    <3>3. InReach(c)'
      BY <3>2 DEF InReach
    <3>4. \A d \in todo[a] : d # c => InReach(d)'
      BY <2>a, <3>2 DEF InReach
    <3> QED
      BY <2>a, <3>2, <3>3, <3>4, ReachFrame
  <2> QED
    BY <1>3, <2>1, <2>2 DEF CloseNext
<1>4. CASE Closed(a)
  <2>1. /\ \A c \in Calls : process'[c] = "running" =>
              c # conv[a] /\ (process[c] = "running" \/ (c = a /\ After(a) = "opening"))
        /\ acpPC' = [acpPC EXCEPT ![a] = After(a)]
        /\ lost \subseteq lost' /\ UNCHANGED <<filed, conv, todo>> /\ acpPC[a] \in {"closing", "discarding"}
    BY <1>4 DEF Closed, Killed, Lost
  <2>2. \A c \in Calls : c = a /\ After(a) = "opening" => InReach(c)'
    BY <2>1 DEF InReach
  <2>3. \A b \in Acting \ {a} : acpPC'[b] = acpPC[b] /\ conv'[b] = conv[b]
    BY <2>1
  <2>4. \A c \in Calls : process'[c] = "running" => process[c] = "running" \/ InReach(c)'
    BY <2>1, <2>2
  <2> QED
    BY <2>1, <2>3, <2>4, ReachFrame
<1> QED
  BY <1>1, <1>2, <1>3, <1>4 DEF CloseStep

LEMMA OtherReach ==
    ASSUME AcpTypes, NoStrayProcess,
           \/ \E a \in Users : TurnStep(a)
           \/ \E c \in Calls : PromptEnds(c) \/ Exits(c)
           \/ \E c \in Calls, p \in Asks : RequestPermission(p, c) \/ Returned(p, c)
           \/ UNCHANGED acpVars
    PROVE  NoStrayProcess'
<1> USE ActorFacts DEF AcpTypes, AcpTypeOK, tableVars, agentVars, askVars, acpVars, Move
<1>1. ASSUME NEW a \in Users, Turn(a) \/ Resolve(a) \/ Outcome(a) \/ Interrupt(a) PROVE NoStrayProcess'
  <2>1. /\ acpPC[a] \notin {"opening", "closing", "discarding"} /\ UNCHANGED <<filed, todo, lost, process, conv>>
        /\ \A b \in Acting \ {a} : acpPC'[b] = acpPC[b]
    BY <1>1 DEF Turn, Resolve, Outcome, Interrupt
  <2> QED
    BY <2>1, ReachFrame
<1>2. ASSUME NEW a \in Users, Answer(a) PROVE NoStrayProcess'
  <2>1. /\ acpPC[a] \notin {"opening", "closing", "discarding"} /\ UNCHANGED <<filed, todo, lost, process>>
        /\ \A b \in Acting \ {a} : acpPC'[b] = acpPC[b] /\ conv'[b] = conv[b]
    BY <1>2 DEF Answer, Queue
  <2> QED
    BY <2>1, ReachFrame
<1>3. ASSUME NEW a \in Users, TimeOut(a) PROVE NoStrayProcess'
  <2>1. /\ \A b \in Acting \ {a} : acpPC'[b] = acpPC[b] 
        /\ UNCHANGED <<filed, conv, todo, lost>>
    BY <1>3 DEF TimeOut
  <2>2. \A c \in Calls : process'[c] = "running" => /\ process[c] = "running"
              /\ ~(c = a /\ acpPC[a] = "opening") /\ ~(c = conv[a] /\ acpPC[a] \in {"closing", "discarding"})
    <3>1. CASE acpPC[a] = "opening"
      BY <1>3, <3>1 DEF TimeOut
    <3>2. CASE acpPC[a] \in {"closing", "discarding"}
      BY <1>3, <3>2 DEF TimeOut
    <3>3. CASE acpPC[a] \in {"queued", "waiting"}
      BY <1>3, <3>3 DEF TimeOut
    <3> QED
      BY <1>3, <3>1, <3>2, <3>3 DEF TimeOut
  <2> QED
    BY <2>1, <2>2, ReachFrame
<1>4. ASSUME NEW c \in Calls, PromptEnds(c) \/ Exits(c) PROVE NoStrayProcess'
  <2>1. UNCHANGED <<filed, todo, lost, conv, acpPC>> /\ \A d \in Calls : process'[d] = "running" => process[d] = "running"
    BY <1>4 DEF PromptEnds, Exits
  <2> QED
    BY <2>1 DEF NoStrayProcess
<1>5. ASSUME NEW c \in Calls, NEW p \in Asks, RequestPermission(p, c) \/ Returned(p, c) PROVE NoStrayProcess'
  <2>1. UNCHANGED <<filed, todo, lost, conv, acpPC, process>>
    BY <1>5 DEF RequestPermission, Returned
  <2> QED
    BY <2>1 DEF NoStrayProcess
<1>6. CASE UNCHANGED acpVars
  BY <1>6 DEF NoStrayProcess
<1> QED
  BY <1>1, <1>2, <1>3, <1>4, <1>5, <1>6 DEF TurnStep

LEMMA ReachKept == AcpTypes /\ NoStrayProcess /\ ResetsFresh /\ [AcpNext]_acpVars => NoStrayProcess'
BY OpenReach, CloseReach, OtherReach DEF AcpNext

-----------------------------------------------------------------------------
(* What is asked, and what is answered.                                    *)

\* An answer once given keeps its conversation and what it was given for, and
\* never waits for the lock again.
GivenStays ==
    \A r \in Answers :
        /\ acpPC[r] # "idle" => conv'[r] = conv[r] /\ meant'[r] = meant[r] /\ acpPC'[r] # "idle"
        /\ acpPC[r] \notin {"idle", "queued"} => acpPC'[r] # "queued"
        /\ acpPC'[r] = "idle" => meant'[r] = meant[r]

\* A step that neither asks nor answers, and lets nobody wait.
QuietStep ==
    /\ UNCHANGED <<pending, askPC, resolver>>
    /\ \A r \in Answers : acpPC'[r] = "queued" => acpPC[r] = "queued"

DeafStep ==
    /\ UNCHANGED <<pending, askPC, requested>>
    /\ \A a \in Users : acpPC'[a] = "waiting" => acpPC[a] = "waiting" /\ conv'[a] = conv[a]

LEMMA QuietOpen ==
    ASSUME AcpTypes, NEW a \in Calls, OpenStep(a) PROVE GivenStays /\ QuietStep /\ DeafStep
<1> USE ActorFacts DEF AcpTypes, AcpTypeOK, tableVars, agentVars, askVars, Move, GivenStays, QuietStep, DeafStep
<1>1. \A b \in Acting \ {a} : acpPC'[b] = acpPC[b] /\ conv'[b] = conv[b]
  BY DEF OpenStep, Begin, Restart, Lookup, OpenFails, OpenDropped, Opened, TakeOut, StartClosing, Queue
<1>2. acpPC'[a] # "waiting"
  BY DEF OpenStep, Begin, Restart, Lookup, OpenFails, OpenDropped, Opened, TakeOut
<1>3. meant' = meant /\ UNCHANGED askVars
  BY DEF OpenStep, Begin, Restart, Lookup, OpenFails, OpenDropped, Opened
<1> QED
  BY <1>1, <1>2, <1>3

LEMMA QuietClose ==
    ASSUME AcpTypes, NEW a \in Acting, CloseStep(a) PROVE GivenStays /\ QuietStep /\ DeafStep
<1> USE ActorFacts DEF AcpTypes, AcpTypeOK, tableVars, agentVars, askVars, Move, GivenStays, QuietStep, DeafStep
<1>1. \A b \in Acting \ {a} : acpPC'[b] = acpPC[b] /\ conv'[b] = conv[b]
  BY DEF CloseStep, CloseThread, Replace, CloseNext, Closed, TakeOut, StartClosing
<1>2. acpPC'[a] \notin {"waiting", "queued", "idle"}
  BY DEF CloseStep, CloseThread, Replace, CloseNext, Closed, TakeOut, After
<1>3. meant' = meant /\ UNCHANGED askVars
  BY DEF CloseStep, CloseThread, Replace, CloseNext, Closed
<1>4. a \in Answers => conv'[a] = conv[a] /\ acpPC[a] \in {"closing", "discarding"}
  BY DEF CloseStep, CloseThread, Replace, CloseNext, Closed
<1> QED
  BY <1>1, <1>2, <1>3, <1>4

\* The steps of a turn that are quiet.
LEMMA QuietTurn ==
    ASSUME AcpTypes, NEW a \in Users, Turn(a) \/ Outcome(a) \/ TimeOut(a) \/ Interrupt(a)
    PROVE  GivenStays /\ QuietStep
<1> USE ActorFacts DEF AcpTypes, AcpTypeOK, tableVars, agentVars, askVars, Move, GivenStays, QuietStep
<1>1. \A b \in Acting \ {a} : acpPC'[b] = acpPC[b]
  BY DEF Turn, Outcome, TimeOut, Interrupt
<1>2. conv' = conv /\ meant' = meant /\ UNCHANGED <<pending, askPC, resolver>>
  BY DEF Turn, Outcome, TimeOut, Interrupt
<1>3. acpPC'[a] \notin {"queued", "idle"}
  BY DEF Turn, Outcome, TimeOut, Interrupt
<1> QED
  BY <1>1, <1>2, <1>3

LEMMA DeafTurn ==
    ASSUME AcpTypes, NEW a \in Users, Answer(a) \/ Outcome(a) \/ TimeOut(a) \/ Interrupt(a)
    PROVE  DeafStep
<1> USE ActorFacts DEF AcpTypes, AcpTypeOK, tableVars, agentVars, askVars, Move, DeafStep
<1>1. \A b \in Acting \ {a} : acpPC'[b] = acpPC[b] /\ conv'[b] = conv[b]
  BY DEF Answer, Outcome, TimeOut, Interrupt, Queue
<1>2. UNCHANGED <<pending, askPC, requested>>
  BY DEF Answer, Outcome, TimeOut, Interrupt
<1>3. acpPC'[a] # "waiting"
  BY DEF Answer, Outcome, TimeOut, Interrupt
<1> QED
  BY <1>1, <1>2, <1>3

LEMMA GivenTurn ==
    ASSUME AcpTypes, NEW a \in Users, Answer(a) \/ Resolve(a) PROVE GivenStays
<1> USE ActorFacts DEF AcpTypes, AcpTypeOK, tableVars, agentVars, askVars, Move, GivenStays
<1>1. \A b \in Acting \ {a} : acpPC'[b] = acpPC[b] /\ conv'[b] = conv[b]
  BY DEF Answer, Resolve, Queue
<1>2. \A b \in Answers \ {a} : meant'[b] = meant[b]
  BY DEF Answer, Resolve
<1>3. CASE Answer(a)
  <2>1. acpPC[a] = "idle" /\ acpPC'[a] # "idle"
    BY <1>3 DEF Answer
  <2> QED
    BY <1>1, <1>2, <2>1
<1>4. CASE Resolve(a)
  <2>1. acpPC[a] = "queued" /\ acpPC'[a] # "idle" /\ UNCHANGED <<conv, meant>>
    BY <1>4 DEF Resolve
  <2> QED
    BY <1>1, <2>1
<1> QED
  BY <1>3, <1>4

LEMMA DoubledKept ==
    ASSUME GivenStays, AnswersHold
    PROVE  \A c : Doubled(c) => \E r, s \in Answers :
              r # s /\ conv'[r] = c /\ conv'[s] = c /\ meant'[r] = meant'[s] /\ meant'[r] # NoOne
BY DEF Doubled, GivenStays, AnswersHold

Meant == AsksHold /\ AnswersHold /\ AnswerIsMeant

LEMMA MeantQuiet ==
    ASSUME AcpTypes, Meant, GivenStays, QuietStep PROVE Meant'
<1> USE ActorFacts DEF Meant
<1>1. AsksHold'
  BY DEF AsksHold, GivenStays, QuietStep, AcpTypes, AcpTypeOK
<1>2. AnswersHold'
  <2>1. ASSUME NEW r \in Answers, acpPC'[r] = "queued"
        PROVE  /\ conv'[r] \in Calls /\ meant'[r] # NoOne
               /\ Doubled(conv[r]) \/ (pending'[conv'[r]] = meant'[r] /\ askPC'[meant'[r]] = "open")
               /\ conv'[r] = conv[r]
    BY <2>1 DEF AnswersHold, GivenStays, QuietStep
  <2>2. ASSUME NEW r \in Answers, acpPC'[r] = "idle" PROVE meant'[r] = NoOne
    BY <2>2 DEF AnswersHold, GivenStays
  <2> QED
    BY <2>1, <2>2, DoubledKept DEF AnswersHold, Doubled
<1>3. AnswerIsMeant'
  <2> SUFFICES ASSUME NEW p \in Asks, resolver'[p] # NoOne
               PROVE  meant'[resolver'[p]] = p \/ Doubled(conv[resolver[p]])'
    BY DEF AnswerIsMeant
  <2>1. resolver[p] \in Answers /\ resolver'[p] = resolver[p] /\ acpPC[resolver[p]] # "idle"
    BY DEF QuietStep, AcpTypes, AcpTypeOK, AsksHold
  <2>2. conv'[resolver[p]] = conv[resolver[p]] /\ meant'[resolver[p]] = meant[resolver[p]]
    BY <2>1 DEF GivenStays
  <2>3. meant[resolver[p]] = p \/ Doubled(conv[resolver[p]])
    BY <2>1 DEF AnswerIsMeant
  <2> QED
    BY <2>1, <2>2, <2>3, DoubledKept DEF Doubled
<1> QED
  BY <1>1, <1>2, <1>3

\* An answer is given: another for the same request may be under way.
LEMMA MeantAnswer ==
    ASSUME AcpTypes, Meant, GivenStays, NEW r \in Answers, Answer(r) PROVE Meant'
<1> USE ActorFacts DEF Meant
<1> DEFINE c == Of(r)
<1>a. UNCHANGED <<pending, askPC, resolver>> /\ acpPC[r] = "idle"
      /\ \A s \in Answers \ {r} : acpPC'[s] = acpPC[s] /\ conv'[s] = conv[s] /\ meant'[s] = meant[s]
  BY DEF Answer, Queue, Move, askVars, AcpTypes, AcpTypeOK
<1>b. CASE acpPC'[r] = "done" /\ meant' = meant
  <2>1. QuietStep
    BY <1>a, <1>b DEF QuietStep
  <2> QED
    BY <2>1, MeantQuiet
<1>c. CASE Answerable(c) /\ meant' = [meant EXCEPT ![r] = pending[c]] /\ Queue(r, c) /\ Move(r, "queued")
  <2>0. c \in Calls /\ pending[c] \in Asks /\ pending[c] # NoOne
    BY <1>c DEF Of, Answerable, AcpTypes, AcpTypeOK
  <2>1. acpPC'[r] = "queued" /\ conv'[r] = c /\ meant'[r] = pending[c]
    BY <1>c, <2>0 DEF Queue, Move, AcpTypes, AcpTypeOK
  <2>2. AsksHold'
    BY <1>a, <2>1 DEF AsksHold, GivenStays, AcpTypes, AcpTypeOK
  <2>3. askPC[pending[c]] = "open" \/ \E s \in Answers : s # r /\ conv'[s] = c /\ (meant'[s] = pending[c] \/ Doubled(c))
    <3>1. CASE askPC[pending[c]] = "resolved"
      <4> DEFINE s == resolver[pending[c]]
      <4>1. s \in Answers /\ s # r /\ conv[s] = c
        BY <3>1, <2>0, <1>a DEF AsksHold, AcpTypes, AcpTypeOK
      <4>2. meant[s] = pending[c] \/ Doubled(c)
        BY <4>1, <2>0 DEF AnswerIsMeant
      <4> QED
        BY <4>1, <4>2, <1>a
    <3> QED
      BY <3>1, <2>0 DEF AsksHold
  <2>4. AnswersHold'
    <3>1. ASSUME NEW s \in Answers, acpPC'[s] = "idle" PROVE meant'[s] = NoOne
      BY <3>1, <2>1, <1>a DEF AnswersHold
    <3>2. ASSUME NEW s \in Answers, acpPC'[s] = "queued", s # r
          PROVE  /\ conv'[s] \in Calls /\ meant'[s] # NoOne /\ conv'[s] = conv[s]
                 /\ Doubled(conv[s]) \/ (pending'[conv'[s]] = meant'[s] /\ askPC'[meant'[s]] = "open")
      BY <3>2, <1>a DEF AnswersHold
    <3> QED
      BY <3>1, <3>2, <2>0, <2>1, <2>3, <1>a, DoubledKept DEF AnswersHold, Doubled
  <2>5. AnswerIsMeant'
    <3> SUFFICES ASSUME NEW p \in Asks, resolver'[p] # NoOne
                 PROVE  meant'[resolver'[p]] = p \/ Doubled(conv[resolver[p]])'
      BY DEF AnswerIsMeant
    <3>1. resolver[p] \in Answers /\ resolver'[p] = resolver[p] /\ acpPC[resolver[p]] # "idle"
      BY <1>a DEF AcpTypes, AcpTypeOK, AsksHold
    <3>2. conv'[resolver[p]] = conv[resolver[p]] /\ meant'[resolver[p]] = meant[resolver[p]]
      BY <3>1 DEF GivenStays
    <3>3. meant[resolver[p]] = p \/ Doubled(conv[resolver[p]])
      BY <3>1 DEF AnswerIsMeant
    <3> QED
      BY <3>1, <3>2, <3>3, DoubledKept DEF Doubled
  <2> QED
    BY <2>2, <2>4, <2>5
<1> QED
  BY <1>b, <1>c DEF Answer, Move, AcpTypes, AcpTypeOK

\* What is pending is answered, and that is what the answer was given for.
LEMMA MeantResolve ==
    ASSUME AcpTypes, Meant, GivenStays, NEW r \in Answers, Resolve(r) PROVE Meant'
<1> USE ActorFacts DEF Meant
<1> DEFINE c == conv[r]
           p == pending[c]
<1>a. /\ UNCHANGED <<pending, conv, meant>> /\ acpPC[r] = "queued"
      /\ \A s \in Acting \ {r} : acpPC'[s] = acpPC[s]
  BY DEF Resolve, Move, askVars, AcpTypes, AcpTypeOK
<1>b. CASE acpPC'[r] = "done" /\ UNCHANGED <<askPC, resolver>>
  <2>1. QuietStep
    BY <1>a, <1>b DEF QuietStep
  <2> QED
    BY <2>1, MeantQuiet
<1>c. CASE /\ p # NoOne /\ askPC' = [askPC EXCEPT ![p] = "resolved"]
           /\ resolver' = [resolver EXCEPT ![p] = IF askPC[p] = "open" THEN r ELSE @] /\ acpPC'[r] = "waiting"
  <2>0. c \in Calls /\ meant[r] # NoOne /\ (Doubled(c) \/ (p = meant[r] /\ askPC[p] = "open")) /\ p \in Asks
    BY <1>a, <1>c DEF AnswersHold, AcpTypes, AcpTypeOK
  <2>1. /\ askPC'[p] = "resolved" /\ \A q \in Asks \ {p} : askPC'[q] = askPC[q] /\ resolver'[q] = resolver[q]
        /\ resolver'[p] = IF askPC[p] = "open" THEN r ELSE resolver[p]
    BY <1>c, <2>0 DEF AcpTypes, AcpTypeOK
  <2>2. AsksHold'
    <3>1. \A d \in Calls : pending'[d] # NoOne => askPC'[pending'[d]] \in {"open", "resolved"}
      BY <1>a, <2>1 DEF AsksHold, AcpTypes, AcpTypeOK
    <3>2. \A d, e \in Calls : pending'[d] = pending'[e] /\ pending'[d] # NoOne => d = e
      BY <1>a DEF AsksHold
    <3>3. ASSUME NEW q \in Asks, resolver'[q] # NoOne
          PROVE  askPC'[q] \in {"resolved", "returned"} /\ acpPC'[resolver'[q]] \notin {"idle", "queued"}
      <4>1. CASE q = p /\ askPC[p] = "open"
        BY <4>1, <2>1, <1>c
      <4>2. CASE ~(q = p /\ askPC[p] = "open")
        <5>1. resolver'[q] = resolver[q] /\ resolver[q] \in Answers
          BY <4>2, <2>1, <3>3 DEF AcpTypes, AcpTypeOK
        <5>2. askPC[q] \in {"resolved", "returned"} /\ acpPC[resolver[q]] \notin {"idle", "queued"}
          BY <5>1, <3>3 DEF AsksHold
        <5>3. askPC'[q] \in {"resolved", "returned"}
          BY <5>2, <2>1
        <5> QED
          BY <5>1, <5>2, <5>3 DEF GivenStays
      <4> QED
        BY <4>1, <4>2
    <3>4. ASSUME NEW d \in Calls, pending'[d] # NoOne, askPC'[pending'[d]] = "resolved"
          PROVE  resolver'[pending'[d]] # NoOne /\ conv'[resolver'[pending'[d]]] = d
      <4>0. pending'[d] = pending[d] /\ pending[d] \in Asks
        BY <1>a, <3>4 DEF AcpTypes, AcpTypeOK
      <4>1. CASE d = c /\ askPC[p] = "open"
        BY <4>1, <2>1, <1>a
      <4>2. CASE ~(d = c /\ askPC[p] = "open")
        <5>1. askPC[pending[d]] = "resolved"
          <6>1. CASE d = c
            BY <6>1, <4>2, <1>c, <2>0 DEF AsksHold
          <6>2. CASE d # c
            <7>1. pending[d] # p
              BY <6>2, <2>0, <4>0, <3>4 DEF AsksHold
            <7> QED
              BY <7>1, <4>0, <2>1, <3>4
          <6> QED
            BY <6>1, <6>2
        <5>2. resolver[pending[d]] # NoOne /\ conv[resolver[pending[d]]] = d
          BY <5>1, <4>0, <3>4 DEF AsksHold
        <5>3. resolver'[pending[d]] = resolver[pending[d]]
          BY <5>1, <4>0, <2>1
        <5> QED
          BY <5>2, <5>3, <4>0, <1>a
      <4> QED
        BY <4>1, <4>2
    <3> QED
      BY <3>1, <3>2, <3>3, <3>4 DEF AsksHold
  <2>3. AnswersHold'
    <3>1. ASSUME NEW s \in Answers, acpPC'[s] = "idle" PROVE meant'[s] = NoOne
      BY <3>1, <1>a, <1>c DEF AnswersHold
    <3>2. ASSUME NEW s \in Answers, acpPC'[s] = "queued"
          PROVE  /\ conv[s] \in Calls /\ meant[s] # NoOne
                 /\ Doubled(conv[s]) \/ (pending[conv[s]] = meant[s] /\ askPC'[meant[s]] = "open")
      <4>1. s # r /\ acpPC[s] = "queued"
        BY <3>2, <1>a, <1>c
      <4>2. /\ conv[s] \in Calls /\ meant[s] # NoOne
            /\ Doubled(conv[s]) \/ (pending[conv[s]] = meant[s] /\ askPC[meant[s]] = "open")
        BY <4>1 DEF AnswersHold
      <4>3. ASSUME ~Doubled(conv[s]) PROVE meant[s] # p
        <5>1. CASE conv[s] = c
          BY <5>1, <4>1, <4>2, <4>3, <2>0 DEF Doubled
        <5>2. CASE conv[s] # c
          BY <5>2, <4>2, <4>3, <2>0, <1>c DEF AsksHold
        <5> QED
          BY <5>1, <5>2
      <4>4. meant[s] \in Asks
        BY <4>2 DEF AcpTypes, AcpTypeOK
      <4> QED
        BY <4>2, <4>3, <4>4, <2>1
    <3> QED
      BY <3>1, <3>2, <1>a, DoubledKept DEF AnswersHold, Doubled
  <2>4. AnswerIsMeant'
    <3> SUFFICES ASSUME NEW q \in Asks, resolver'[q] # NoOne
                 PROVE  meant[resolver'[q]] = q \/ Doubled(conv[resolver'[q]])
      BY <1>a DEF AnswerIsMeant, Doubled
    <3>1. CASE q = p /\ askPC[p] = "open"
      BY <3>1, <2>0, <2>1
    <3>2. CASE ~(q = p /\ askPC[p] = "open")
      <4>1. resolver'[q] = resolver[q]
        BY <3>2, <2>1
      <4> QED
        BY <4>1 DEF AnswerIsMeant
    <3> QED
      BY <3>1, <3>2
  <2> QED
    BY <2>2, <2>3, <2>4
<1> QED
  BY <1>b, <1>c DEF Resolve, Move, AcpTypes, AcpTypeOK

\* The agent asks for something new, or takes what was answered.
LEMMA MeantAgent ==
    ASSUME AcpTypes, Meant, NEW c \in Calls, NEW p \in Asks, RequestPermission(p, c) \/ Returned(p, c)
    PROVE  Meant'
<1> USE ActorFacts DEF Meant
<1>a. UNCHANGED <<acpPC, conv, meant, resolver>>
  BY DEF RequestPermission, Returned
<1>b. /\ \A d \in Calls \ {c} : pending'[d] = pending[d]
      /\ \A q \in Asks \ {p} : askPC'[q] = askPC[q]
  BY DEF RequestPermission, Returned, AcpTypes, AcpTypeOK
<1>c. \A d \in Calls \ {c} : pending[d] = p => FALSE
  BY DEF RequestPermission, Returned, AsksHold
<1>d. /\ RequestPermission(p, c) => /\ askPC[p] = "idle" /\ askPC'[p] = "open" /\ pending[c] = NoOne /\ pending'[c] = p
                                    /\ resolver[p] = NoOne
      /\ Returned(p, c) => askPC[p] = "resolved" /\ askPC'[p] = "returned" /\ pending[c] = p /\ pending'[c] = NoOne
  BY DEF RequestPermission, Returned, AcpTypes, AcpTypeOK, AsksHold
<1>1. AsksHold'
  <2>1. \A d \in Calls : pending'[d] # NoOne => askPC'[pending'[d]] \in {"open", "resolved"}
    BY <1>b, <1>c, <1>d DEF AsksHold, AcpTypes, AcpTypeOK
  <2>2. \A d, e \in Calls : pending'[d] = pending'[e] /\ pending'[d] # NoOne => d = e
    BY <1>b, <1>c, <1>d DEF AsksHold
  <2>3. \A q \in Asks : resolver'[q] # NoOne =>
           askPC'[q] \in {"resolved", "returned"} /\ acpPC'[resolver'[q]] \notin {"idle", "queued"}
    BY <1>a, <1>b, <1>d DEF AsksHold
  <2>4. \A d \in Calls : pending'[d] # NoOne /\ askPC'[pending'[d]] = "resolved" =>
           resolver'[pending'[d]] # NoOne /\ conv'[resolver'[pending'[d]]] = d
    <3> SUFFICES ASSUME NEW d \in Calls, pending'[d] # NoOne, askPC'[pending'[d]] = "resolved"
                 PROVE  resolver[pending'[d]] # NoOne /\ conv[resolver[pending'[d]]] = d
      BY <1>a
    <3>1. d # c
      BY <1>d
    <3>2. pending'[d] = pending[d] /\ pending[d] # p /\ pending[d] \in Asks
      BY <3>1, <1>b, <1>c DEF AcpTypes, AcpTypeOK
    <3> QED
      BY <3>2, <1>b DEF AsksHold
  <2> QED
    BY <2>1, <2>2, <2>3, <2>4 DEF AsksHold
<1>2. AnswersHold'
  <2> SUFFICES ASSUME NEW s \in Answers, acpPC[s] = "queued"
               PROVE  /\ conv[s] \in Calls /\ meant[s] # NoOne
                      /\ Doubled(conv[s]) \/ (pending'[conv[s]] = meant[s] /\ askPC'[meant[s]] = "open")
    BY <1>a DEF AnswersHold, Doubled
  <2>1. /\ conv[s] \in Calls /\ meant[s] # NoOne /\ meant[s] \in Asks
        /\ Doubled(conv[s]) \/ (pending[conv[s]] = meant[s] /\ askPC[meant[s]] = "open")
    BY DEF AnswersHold, AcpTypes, AcpTypeOK
  <2>2. CASE conv[s] = c
    BY <2>1, <2>2, <1>d
  <2>3. CASE conv[s] # c
    BY <2>1, <2>3, <1>b, <1>c
  <2> QED
    BY <2>2, <2>3
<1>3. AnswerIsMeant'
  BY <1>a DEF AnswerIsMeant, Doubled
<1> QED
  BY <1>1, <1>2, <1>3

LEMMA MeantKept == AcpTypes /\ Meant /\ [AcpNext]_acpVars => Meant'
<1> SUFFICES ASSUME AcpTypes, Meant, [AcpNext]_acpVars PROVE Meant'
  OBVIOUS
<1> USE ActorFacts
<1>1. ASSUME NEW a \in Calls, OpenStep(a) PROVE Meant'
  BY <1>1, QuietOpen, MeantQuiet
<1>2. ASSUME NEW a \in Acting, CloseStep(a) PROVE Meant'
  BY <1>2, QuietClose, MeantQuiet
<1>3. ASSUME NEW a \in Users, TurnStep(a) PROVE Meant'
  <2>1. CASE Turn(a) \/ Outcome(a) \/ TimeOut(a) \/ Interrupt(a)
    BY <2>1, QuietTurn, MeantQuiet
  <2>2. CASE Answer(a)
    <3>1. a \in Answers
      BY <2>2 DEF Answer
    <3> QED
      BY <2>2, <3>1, GivenTurn, MeantAnswer
  <2>3. CASE Resolve(a)
    <3>1. a \in Answers
      BY <2>3 DEF Resolve
    <3> QED
      BY <2>3, <3>1, GivenTurn, MeantResolve
  <2> QED
    BY <1>3, <2>1, <2>2, <2>3 DEF TurnStep
<1>4. ASSUME NEW c \in Calls, PromptEnds(c) \/ Exits(c) PROVE Meant'
  <2>1. GivenStays /\ QuietStep
    BY <1>4 DEF PromptEnds, Exits, GivenStays, QuietStep, askVars
  <2> QED
    BY <2>1, MeantQuiet
<1>5. ASSUME NEW c \in Calls, NEW p \in Asks, RequestPermission(p, c) \/ Returned(p, c) PROVE Meant'
  BY <1>5, MeantAgent
<1>6. CASE UNCHANGED acpVars
  <2>1. GivenStays /\ QuietStep
    BY <1>6 DEF acpVars, GivenStays, QuietStep, askVars
  <2> QED
    BY <2>1, MeantQuiet
<1> QED
  BY <1>1, <1>2, <1>3, <1>4, <1>5, <1>6 DEF AcpNext

-----------------------------------------------------------------------------
(* A turn that waits hears of what is asked.                               *)

LEMMA HearsDeaf ==
    ASSUME WaiterHears, DeafStep PROVE WaiterHears'
BY DEF WaiterHears, DeafStep, OpenAsk

\* Whoever holds the lock, nobody else waits there.
LEMMA OnlyHolderWaits ==
    ASSUME AcpTypes, NEW a \in Users, Holds(a), NEW b \in Users, acpPC[b] = "waiting", conv[b] = conv[a]
    PROVE  b = a
BY DEF AcpTypes, AcpTypeOK, LinesHold, Holds

LEMMA HearsTurn ==
    ASSUME AcpTypes, WaiterHears, NEW a \in Users, Turn(a) \/ Resolve(a) PROVE WaiterHears'
<1> USE ActorFacts DEF AcpTypes, AcpTypeOK
<1> DEFINE c == conv[a]
<1>a. /\ Holds(a) /\ acpPC[a] = "queued" /\ UNCHANGED <<conv, pending>> /\ c \in Calls
      /\ \A b \in Acting \ {a} : acpPC'[b] = acpPC[b]
      /\ \A d \in Calls \ {c} : requested'[d] = requested[d]
  BY DEF Turn, Resolve, Move, Holds
<1>b. \A q \in Asks : askPC'[q] = "open" => askPC[q] = "open"
  BY DEF Turn, Resolve, askVars
<1>c. acpPC'[a] = "waiting" => OpenAsk(c)' = {}
  <2>1. CASE Turn(a)
    BY <2>1, <1>a DEF Turn, OpenAsk, Move
  <2>2. CASE Resolve(a)
    <3>1. acpPC'[a] = "waiting" => askPC' = [askPC EXCEPT ![pending[c]] = "resolved"]
      BY <2>2, <1>a DEF Resolve, Move
    <3> QED
      BY <3>1, <1>a DEF OpenAsk
  <2> QED
    BY <2>1, <2>2
<1> SUFFICES ASSUME NEW b \in Users, acpPC'[b] = "waiting", NEW q \in Asks, askPC'[q] = "open", pending'[conv'[b]] = q
             PROVE  requested'[conv'[b]]
  BY DEF WaiterHears, OpenAsk
<1>0. pending[conv[b]] = q /\ conv' = conv
  BY <1>a
<1>1. b # a
  BY <1>0, <1>a, <1>c DEF OpenAsk
<1>2. acpPC[b] = "waiting" /\ conv[b] # c
  BY <1>1, <1>a, OnlyHolderWaits
<1>3. conv[b] \in Calls
  BY <1>2 DEF LinesHold
<1>4. requested[conv[b]]
  BY <1>0, <1>2, <1>b DEF WaiterHears, OpenAsk
<1> QED
  BY <1>2, <1>3, <1>4, <1>a

\* What an agent asks for anew nobody has pending.
LEMMA NewAskIsNew ==
    ASSUME AsksHold, NEW p \in Asks, askPC[p] = "idle", NEW d \in Calls PROVE pending[d] # p
BY ActorFacts DEF AsksHold

LEMMA HearsAgent ==
    ASSUME AcpTypes, AsksHold, WaiterHears, NEW c \in Calls, NEW p \in Asks, RequestPermission(p, c) \/ Returned(p, c)
    PROVE  WaiterHears'
<1> USE ActorFacts DEF AcpTypes, AcpTypeOK
<1> SUFFICES ASSUME NEW b \in Users, acpPC'[b] = "waiting", NEW q \in Asks, askPC'[q] = "open", pending'[conv'[b]] = q
             PROVE  requested'[conv'[b]]
  BY DEF WaiterHears, OpenAsk
<1>1. acpPC[b] = "waiting" /\ conv' = conv /\ conv[b] \in Calls
  BY DEF RequestPermission, Returned, LinesHold
<1>2. CASE RequestPermission(p, c)
  <2>1. CASE conv[b] = c
    BY <1>1, <1>2, <2>1 DEF RequestPermission
  <2>2. CASE conv[b] # c
    <3>1. pending[conv[b]] = q /\ q # p
      BY <1>1, <1>2, <2>2, NewAskIsNew DEF RequestPermission
    <3>2. askPC[q] = "open" /\ requested'[conv[b]] = requested[conv[b]]
      BY <1>1, <1>2, <2>2, <3>1 DEF RequestPermission
    <3> QED
      BY <1>1, <3>1, <3>2 DEF WaiterHears, OpenAsk
  <2> QED
    BY <2>1, <2>2
<1>3. CASE Returned(p, c)
  <2>1. q # p /\ askPC[q] = "open"
    BY <1>3 DEF Returned
  <2>2. conv[b] # c /\ pending[conv[b]] = q /\ requested'[conv[b]] = requested[conv[b]]
    BY <1>1, <1>3 DEF Returned
  <2> QED
    BY <1>1, <2>1, <2>2 DEF WaiterHears, OpenAsk
<1> QED
  BY <1>2, <1>3

LEMMA HearsKept == AcpTypes /\ AsksHold /\ WaiterHears /\ [AcpNext]_acpVars => WaiterHears'
<1> SUFFICES ASSUME AcpTypes, AsksHold, WaiterHears, [AcpNext]_acpVars PROVE WaiterHears'
  OBVIOUS
<1> USE ActorFacts
<1>1. ASSUME NEW a \in Calls, OpenStep(a) PROVE WaiterHears'
  BY <1>1, QuietOpen, HearsDeaf
<1>2. ASSUME NEW a \in Acting, CloseStep(a) PROVE WaiterHears'
  BY <1>2, QuietClose, HearsDeaf
<1>3. ASSUME NEW a \in Users, TurnStep(a) PROVE WaiterHears'
  BY <1>3, DeafTurn, HearsDeaf, HearsTurn DEF TurnStep
<1>4. ASSUME NEW c \in Calls, PromptEnds(c) \/ Exits(c) PROVE WaiterHears'
  BY <1>4 DEF PromptEnds, Exits, askVars, WaiterHears, OpenAsk
<1>5. ASSUME NEW c \in Calls, NEW p \in Asks, RequestPermission(p, c) \/ Returned(p, c) PROVE WaiterHears'
  BY <1>5, HearsAgent
<1>6. CASE UNCHANGED acpVars
  BY <1>6 DEF acpVars, askVars, WaiterHears, OpenAsk
<1> QED
  BY <1>1, <1>2, <1>3, <1>4, <1>5, <1>6 DEF AcpNext

-----------------------------------------------------------------------------
(* A conversation of the table can go on.                                  *)

\* A step leaves a conversation of the table as it was, or it is a turn of it.
GoesOn(c) ==
    Alive(c) /\ pending[c] # NoOne /\ askPC[pending[c]] = "open" /\ c \notin stopped => prompt[c] = "running"

\* A conversation is filed once, and is not one a reset has still to close.
LEMMA OnlyFiledThere ==
    ASSUME FiledOnce, NEW k \in AcpKeys, NEW c \in Calls, filed[k] = c
    PROVE  /\ \A j \in AcpKeys : filed[j] = c => j = k
           /\ \A z \in Resets : c \notin todo[z]
BY ActorFacts DEF FiledOnce

\* For a step that asks nothing it is enough to look at the prompt.
LEMMA GoesOnFrame ==
    ASSUME NEW c, GoesOn(c), c # NoOne,
           process'[c] = "running" => process[c] = "running", pending'[c] = pending[c],
           askPC'[pending[c]] = "open" => askPC[pending[c]] = "open",
           c \in stopped /\ prompt'[c] # "running" => c \in stopped',
           prompt[c] = "running" /\ process'[c] = "running" /\ pending[c] # NoOne /\ askPC[pending[c]] = "open"
             /\ c \notin stopped => prompt'[c] = "running"
    PROVE  GoesOn(c)'
BY DEF GoesOn, Alive

LEMMA GoesOnOpen ==
    ASSUME AcpTypes, FreshConversations, FiledOnce, NoDeadEnd, NEW a \in Calls, OpenStep(a) PROVE NoDeadEnd'
<1> USE ActorFacts DEF AcpTypes, AcpTypeOK, tableVars, agentVars, askVars, Move
<1> SUFFICES ASSUME NEW k \in AcpKeys, NEW c \in Calls, filed'[k] = c PROVE GoesOn(c)'
  BY AcpTypesKept DEF NoDeadEnd, GoesOn, Alive, AcpNext
<1>a. UNCHANGED <<pending, askPC, stopped>>
  BY DEF OpenStep, Begin, Restart, Lookup, OpenFails, OpenDropped, Opened
<1>1. CASE filed[k] # c
  <2>1. c = a /\ acpPC[a] = "opening"
    BY <1>1 DEF OpenStep, Begin, Restart, Lookup, OpenFails, OpenDropped, Opened, TakeOut
  <2>2. pending[c] = NoOne
    BY <2>1 DEF FreshConversations, NotOpened
  <2> QED
    BY <2>2, <1>a DEF GoesOn
<1>2. CASE filed[k] = c
  <2>1. GoesOn(c)
    BY <1>2 DEF NoDeadEnd, GoesOn
  <2>2. process'[c] = "running" => process[c] = "running"
    <3>1. acpPC[a] = "lookup" => c # a
      BY <1>2 DEF FreshConversations, NotOpened
    <3> QED
      BY <3>1 DEF OpenStep, Begin, Restart, Lookup, OpenFails, OpenDropped, Opened
  <2>3. prompt'[c] = prompt[c]
    <3>1. Of(a) = c => AcpKeyOf[a] = k
      BY <1>2, OnlyFiledThere DEF Of
    <3> QED
      BY <3>1, <1>2 DEF OpenStep, Begin, Restart, Lookup, OpenFails, OpenDropped, Opened, TakeOut, StartClosing
  <2> QED
    BY <2>1, <2>2, <2>3, <1>a, GoesOnFrame
<1> QED
  BY <1>1, <1>2

LEMMA GoesOnClose ==
    ASSUME AcpTypes, FreshConversations, FiledOnce, NoDeadEnd, NEW a \in Acting, CloseStep(a) PROVE NoDeadEnd'
<1> USE ActorFacts DEF AcpTypes, AcpTypeOK, tableVars, agentVars, askVars, Move
<1> SUFFICES ASSUME NEW k \in AcpKeys, NEW c \in Calls, filed'[k] = c PROVE GoesOn(c)'
  BY AcpTypesKept DEF NoDeadEnd, GoesOn, Alive, AcpNext
<1>a. UNCHANGED <<pending, askPC, stopped>>
  BY DEF CloseStep, CloseThread, Replace, CloseNext, Closed
<1>1. filed[k] = c
  BY DEF CloseStep, CloseThread, Replace, CloseNext, Closed, TakeOut
<1>2. GoesOn(c)
  BY <1>1 DEF NoDeadEnd, GoesOn
<1>3. process'[c] = "running" => process[c] = "running"
  <2>1. CASE CloseThread(a) \/ Replace(a) \/ CloseNext(a)
    BY <2>1 DEF CloseThread, Replace, CloseNext
  <2>2. CASE Closed(a)
    <3>1. c = a => acpPC[a] \in {"closing", "discarding"} /\ NotOpened(c)
      BY <2>2 DEF Closed, NotOpened
    <3>2. c # a
      BY <1>1, <3>1 DEF FreshConversations
    <3> QED
      BY <2>2, <3>2 DEF Closed, Killed
  <2> QED
    BY <2>1, <2>2 DEF CloseStep
<1>4. prompt'[c] = prompt[c]
  <2>1. CASE CloseThread(a)
    <3>0. a \in Closers
      BY <2>1 DEF CloseThread
    <3>1. Of(a) = c => AcpKeyOf[a] = k
      BY <1>1, <3>0, OnlyFiledThere DEF Of
    <3> QED
      BY <3>1, <1>1, <2>1 DEF CloseThread, TakeOut, StartClosing
  <2>2. CASE Replace(a) \/ Closed(a)
    BY <2>2 DEF Replace, Closed
  <2>3. CASE CloseNext(a)
    <3>0. a \in Resets
      BY <2>3 DEF CloseNext
    <3>1. c \notin todo[a]
      BY <1>1, <3>0, OnlyFiledThere
    <3> QED
      BY <3>1, <2>3 DEF CloseNext, StartClosing
  <2> QED
    BY <2>1, <2>2, <2>3 DEF CloseStep
<1> QED
  BY <1>2, <1>3, <1>4, <1>a, GoesOnFrame

LEMMA GoesOnTurn ==
    ASSUME AcpTypes, NoDeadEnd, NEW a \in Users, TurnStep(a) PROVE NoDeadEnd'
<1> USE ActorFacts DEF AcpTypes, AcpTypeOK, tableVars, agentVars, askVars, Move
<1>a. UNCHANGED <<filed, pending>> /\ \A q \in Asks : askPC'[q] = "open" => askPC[q] = "open"
  BY DEF TurnStep, Turn, Answer, Resolve, Outcome, TimeOut, Interrupt
<1> SUFFICES ASSUME NEW k \in AcpKeys, NEW c \in Calls, filed[k] = c PROVE GoesOn(c)'
  BY <1>a DEF NoDeadEnd, GoesOn, Alive
<1>1. GoesOn(c)
  BY DEF NoDeadEnd, GoesOn
<1>2. process'[c] = "running" => process[c] = "running"
  BY DEF TurnStep, Turn, Answer, Resolve, Outcome, TimeOut, Interrupt
<1>3. prompt[c] = "running" => prompt'[c] = "running"
  BY DEF TurnStep, Turn, Answer, Resolve, Outcome, TimeOut, Interrupt
<1>4. c \in stopped /\ prompt'[c] # "running" => c \in stopped'
  BY DEF TurnStep, Turn, Answer, Resolve, Outcome, TimeOut, Interrupt
<1>5. pending[c] # NoOne => pending[c] \in Asks
  OBVIOUS
<1>6. pending[c] = NoOne => GoesOn(c)'
  BY <1>a DEF GoesOn
<1> QED
  BY <1>1, <1>2, <1>3, <1>4, <1>5, <1>6, <1>a, GoesOnFrame

LEMMA GoesOnAgent ==
    ASSUME AcpTypes, AsksHold, NoDeadEnd,
           \/ \E c \in Calls : PromptEnds(c) \/ Exits(c)
           \/ \E c \in Calls, p \in Asks : RequestPermission(p, c) \/ Returned(p, c)
           \/ UNCHANGED acpVars
    PROVE  NoDeadEnd'
<1> USE ActorFacts DEF AcpTypes, AcpTypeOK, tableVars, agentVars, askVars, acpVars
<1>a. UNCHANGED <<filed, stopped>>
  BY DEF PromptEnds, Exits, RequestPermission, Returned
<1> SUFFICES ASSUME NEW k \in AcpKeys, NEW d \in Calls, filed[k] = d PROVE GoesOn(d)'
  BY <1>a DEF NoDeadEnd, GoesOn, Alive
<1>b. GoesOn(d)
  BY DEF NoDeadEnd, GoesOn
<1>1. ASSUME NEW c \in Calls, PromptEnds(c) PROVE GoesOn(d)'
  BY <1>1, <1>b, GoesOnFrame DEF PromptEnds, OpenAsk
<1>2. ASSUME NEW c \in Calls, Exits(c) PROVE GoesOn(d)'
  BY <1>2, <1>b, GoesOnFrame DEF Exits
<1>3. ASSUME NEW c \in Calls, NEW p \in Asks, RequestPermission(p, c) PROVE GoesOn(d)'
  <2>1. CASE d = c
    BY <1>3, <2>1 DEF RequestPermission, GoesOn
  <2>2. CASE d # c
    <3>1. pending[d] # p
      BY <1>3, NewAskIsNew DEF RequestPermission
    <3> QED
      BY <1>3, <2>2, <3>1, <1>b, GoesOnFrame DEF RequestPermission
  <2> QED
    BY <2>1, <2>2
<1>4. ASSUME NEW c \in Calls, NEW p \in Asks, Returned(p, c) PROVE GoesOn(d)'
  <2>1. CASE d = c
    BY <1>4, <2>1 DEF Returned, GoesOn
  <2>2. CASE d # c
    BY <1>4, <2>2, <1>b, GoesOnFrame DEF Returned
  <2> QED
    BY <2>1, <2>2
<1>5. CASE UNCHANGED acpVars
  BY <1>5, <1>b, GoesOnFrame
<1> QED
  BY <1>1, <1>2, <1>3, <1>4, <1>5

LEMMA GoesOnKept ==
    AcpTypes /\ FreshConversations /\ FiledOnce /\ AsksHold /\ NoDeadEnd /\ [AcpNext]_acpVars => NoDeadEnd'
BY GoesOnOpen, GoesOnClose, GoesOnTurn, GoesOnAgent DEF AcpNext

-----------------------------------------------------------------------------
LEMMA AcpKept == AcpIInv /\ [AcpNext]_acpVars => AcpIInv'
<1> SUFFICES ASSUME AcpIInv, [AcpNext]_acpVars PROVE AcpIInv'
  OBVIOUS
<1>1. AcpTypes /\ Meant
  BY DEF AcpIInv, AcpTypes, Meant, PermissionsSettle
<1>2. AcpTypes' /\ Meant'
  BY <1>1, AcpTypesKept, MeantKept
<1>3. FreshConversations' /\ FiledOnce' /\ ResetsFresh'
  BY <1>1, <1>2, TablesMove, TablesKept DEF AcpIInv
<1>4. NoStrayProcess'
  BY <1>1, ReachKept DEF AcpIInv
<1>5. WaiterHears' /\ NoDeadEnd'
  BY <1>1, HearsKept, GoesOnKept DEF AcpIInv, PermissionsSettle
<1> QED
  BY <1>2, <1>3, <1>4, <1>5 DEF AcpIInv, AcpTypes, Meant, PermissionsSettle

LEMMA AcpHolds == AcpSpec => []AcpIInv
<1>1. AcpInit => AcpIInv
  BY AcpStarts
<1>2. AcpIInv /\ [AcpNext]_acpVars => AcpIInv'
  BY AcpKept
<1> QED
  BY <1>1, <1>2, PTL DEF AcpSpec

\* The service, its conversations and the calls of the tool are in states of the
\* declared types, and the line before a lock is in order.
THEOREM AcpTypeCorrect == AcpSpec => []AcpTypeOK
<1>1. AcpIInv => AcpTypeOK
  BY DEF AcpIInv
<1> QED
  BY <1>1, AcpHolds, PTL

\* No agent process is left running that nobody can reach, for any calls,
\* closes, answers and replacements of the service.
THEOREM NothingStrays == AcpSpec => []NoStrayProcess
<1>1. AcpIInv => NoStrayProcess
  BY DEF AcpIInv
<1> QED
  BY <1>1, AcpHolds, PTL

\* An answer goes to the request it was given for, a turn that waits hears of
\* every request, and a conversation that waits for an answer can get it.
THEOREM AnswersSettle == AcpSpec => []PermissionsSettle
<1>1. AcpIInv => PermissionsSettle
  BY DEF AcpIInv
<1> QED
  BY <1>1, AcpHolds, PTL

\* Conversations with external agents settle: nothing strays and every request
\* gets its answer, with the exceptions the two parts state.
THEOREM ConversationsHold == AcpSpec => []ConversationsSettle
BY NothingStrays, AnswersSettle, PTL DEF ConversationsSettle

-----------------------------------------------------------------------------
\* The job manager of media generation (MediaJobs): a job ends once and is fetched once.

\* Whoever asks or revokes has the lock of the job, which has not ended, or
\* was given up meanwhile.
AskersLock == \A a \in Pollers \cup Revokers : jobPC[a] \in {"asking", "revoking"} =>
    jobLock = a /\ (jobStatus = "open" \/ (jobStatus = "failed" /\ overdue))

\* A wait() that is under way has the lock of completion and no result yet; one
\* that fetches does so of a job that has succeeded.
WaitersLock == \A w \in Waits :
    /\ jobPC[w] \in {"loop", "asking", "stopping", "fetching", "undoing"} => waitLock = w
    /\ jobPC[w] \in {"loop", "asking", "stopping", "fetching"} => ~jobResult
    /\ jobPC[w] = "fetching" => jobStatus = "succeeded"

\* Only a job that has succeeded has a result.
ResultIsSuccess == jobResult => jobStatus = "succeeded"

MediaIInv == MediaTypeOK /\ AskersLock /\ WaitersLock /\ ResultIsSuccess

LEMMA OneFetches == MediaIInv => FetchedOnce
BY DEF MediaIInv, WaitersLock, ResultIsSuccess, FetchedOnce

LEMMA UndoRevokes == \A w \in Waits : w \in Pollers /\ Undo(w) \in Revokers
BY DEF Pollers, Revokers, Undos

LEMMA MediaStarts == MediaInit => MediaIInv
BY DEF MediaInit, MediaIInv, MediaTypeOK, AskersLock, WaitersLock, ResultIsSuccess, Pollers

LEMMA MediaTypes == MediaTypeOK /\ [MediaNext]_mediaVars => MediaTypeOK'
<1> SUFFICES ASSUME MediaTypeOK, [MediaNext]_mediaVars PROVE MediaTypeOK'
  OBVIOUS
<1> USE DEF MediaTypeOK, Ended, lockVars, jobVars
<1>1. CASE Submit
  BY <1>1 DEF Submit, RecordSubmission
<1>2. ASSUME NEW w \in Waits, WaitStep(w) PROVE MediaTypeOK'
  <2>1. CASE InterruptWait(w)
    BY <2>1, UndoRevokes DEF InterruptWait
  <2>2. CASE BeginWait(w)
    <3>1. UNCHANGED <<jobVars, jobLock, overdue>> /\ waitLock' \in {w, Nobody}
      BY <2>2 DEF BeginWait, Quits
    <3>2. \E l \in {"loop", "fetching", "done"} : Moves(w, l)
      BY <2>2 DEF BeginWait, Quits
    <3> QED
      BY <3>1, <3>2, UndoRevokes DEF Moves
  <2>4. CASE GiveUpJob(w)
    BY <2>4, UndoRevokes DEF GiveUpJob, Quits, Moves
  <2>3. CASE Fetch(w) \/ InterruptFetch(w) \/ Undone(w)
    BY <2>3, UndoRevokes DEF Fetch, InterruptFetch, Undone, Quits, Moves
  <2> QED
    BY <1>2, <2>1, <2>2, <2>3, <2>4 DEF WaitStep
<1>3. ASSUME NEW a \in Pollers, Ask(a) PROVE MediaTypeOK'
  BY <1>3 DEF Ask, Hands, Decides, Quits, Moves
<1>4. ASSUME NEW a \in Pollers, Answered(a) PROVE MediaTypeOK'
  BY <1>4 DEF Answered, Hands, Decides, Quits, Moves
<1>5. ASSUME NEW a \in Revokers, Revoke(a) \/ Revoked(a) PROVE MediaTypeOK'
  BY <1>5 DEF Revoke, Revoked, Moves
<1>6. CASE UNCHANGED mediaVars
  BY <1>6 DEF mediaVars
<1> QED
  BY <1>1, <1>2, <1>3, <1>4, <1>5, <1>6 DEF MediaNext

\* What a step does to the status of a job: JobIsFinal, and the invariant.
LEMMA MediaSteps == MediaIInv /\ [MediaNext]_mediaVars => MediaIInv' /\ (JobIsFinal \/ UNCHANGED mediaVars)
<1> SUFFICES ASSUME MediaIInv, [MediaNext]_mediaVars PROVE MediaIInv' /\ (JobIsFinal \/ UNCHANGED mediaVars)
  OBVIOUS
<1>t. MediaTypeOK /\ MediaTypeOK'
  BY MediaTypes DEF MediaIInv
<1>i. AskersLock /\ WaitersLock /\ ResultIsSuccess
  BY DEF MediaIInv
<1>a. \A w \in Waits : w \in Pollers \cup Revokers
  BY DEF Pollers
<1> USE <1>t, <1>i, <1>a, MediaAssumption DEF Ended, lockVars, jobVars
<1> DEFINE Goal == AskersLock' /\ WaitersLock' /\ ResultIsSuccess' /\ JobIsFinal
<1> SUFFICES ASSUME ~UNCHANGED mediaVars PROVE Goal
  BY DEF MediaIInv, MediaTypeOK, AskersLock, WaitersLock, ResultIsSuccess, mediaVars
<1>1. CASE Submit
  BY <1>1 DEF Submit, RecordSubmission, MediaTypeOK, AskersLock, WaitersLock, ResultIsSuccess, JobIsFinal
<1>2. ASSUME NEW w \in Waits, WaitStep(w) PROVE Goal
  <2>1. CASE BeginWait(w)
    BY <2>1 DEF BeginWait, Quits, Moves, MediaTypeOK, AskersLock, WaitersLock, ResultIsSuccess, JobIsFinal
  <2>2. CASE GiveUpJob(w)
    BY <2>2 DEF GiveUpJob, Quits, Moves, MediaTypeOK, AskersLock, WaitersLock, ResultIsSuccess, JobIsFinal
  <2>3. CASE Fetch(w)
    BY <2>3 DEF Fetch, Quits, Moves, MediaTypeOK, AskersLock, WaitersLock, ResultIsSuccess, JobIsFinal
  <2>4. CASE InterruptWait(w)
    BY <2>4, UndoRevokes DEF InterruptWait, MediaTypeOK, AskersLock, WaitersLock, ResultIsSuccess, JobIsFinal
  <2>5. CASE InterruptFetch(w) \/ Undone(w)
    BY <2>5 DEF InterruptFetch, Undone, Quits, Moves, MediaTypeOK, AskersLock, WaitersLock, ResultIsSuccess, JobIsFinal
  <2> QED
    BY <1>2, <2>1, <2>2, <2>3, <2>4, <2>5 DEF WaitStep
<1>3. ASSUME NEW a \in Pollers, Ask(a) PROVE Goal
  <2>1. JobIsFinal /\ ResultIsSuccess' /\ UNCHANGED <<jobVars, overdue>>
    BY <1>3 DEF Ask, ResultIsSuccess, JobIsFinal
  <2>2. CASE jobStatus = "open" /\ jobLock' = a /\ Moves(a, "asking") /\ UNCHANGED waitLock
    <3>1. AskersLock'
      <4>1. \A b \in Pollers \cup Revokers : jobPC[b] \notin {"asking", "revoking"}
        BY <1>3 DEF Ask, AskersLock
      <4> QED
        <5>1. \A b \in Pollers \cup Revokers : jobPC'[b] \in {"asking", "revoking"} => b = a
          BY <2>1, <2>2, <4>1 DEF Moves, MediaTypeOK
        <5>2. jobLock' = a /\ jobStatus' = "open"
          BY <2>1, <2>2
        <5> QED
          BY <5>1, <5>2 DEF AskersLock
    <3>2. a \in Waits => waitLock = a /\ ~jobResult
      BY <1>3 DEF Ask, MayPoll, WaitersLock
    <3>3. WaitersLock'
      BY <2>1, <2>2, <3>2 DEF Moves, MediaTypeOK, WaitersLock
    <3> QED
      BY <2>1, <3>1, <3>3
  <2>3. CASE jobStatus \in Ended /\ Hands(a, jobStatus) /\ UNCHANGED jobLock
    <3>1. AskersLock'
      BY <2>1, <2>3 DEF Hands, Decides, Quits, Moves, MediaTypeOK, AskersLock
    <3>2. WaitersLock'
      <4>1. CASE a \in Waits
        <5>1. waitLock = a /\ ~jobResult
          BY <1>3, <4>1 DEF Ask, MayPoll, WaitersLock
        <5> QED
          BY <2>1, <2>3, <4>1, <5>1 DEF Hands, Decides, Quits, Moves, MediaTypeOK, WaitersLock
      <4>2. CASE a \notin Waits
        BY <2>1, <2>3, <4>2 DEF Hands, Moves, MediaTypeOK, WaitersLock
      <4> QED
        BY <4>1, <4>2
    <3> QED
      BY <2>1, <3>1, <3>2
  <2> QED
    BY <1>3, <2>2, <2>3 DEF Ask
<1>4. ASSUME NEW a \in Pollers, Answered(a) PROVE Goal
  <2>1. CASE a \in Waits
    BY <1>4, <2>1 DEF Answered, Hands, Decides, Quits, Moves, MediaTypeOK, AskersLock, WaitersLock, ResultIsSuccess, JobIsFinal
  <2>2. CASE a \notin Waits
    BY <1>4, <2>2 DEF Answered, Hands, Moves, MediaTypeOK, AskersLock, WaitersLock, ResultIsSuccess, JobIsFinal
  <2> QED
    BY <2>1, <2>2
<1>5. ASSUME NEW a \in Revokers, Revoke(a) PROVE Goal
  <2>1. JobIsFinal /\ ResultIsSuccess' /\ UNCHANGED <<jobVars, overdue, waitLock>>
    BY <1>5 DEF Revoke, ResultIsSuccess, JobIsFinal
  <2>2. AskersLock'
    <3>1. CASE jobStatus = "open" /\ jobLock' = a /\ Moves(a, "revoking")
      <4>1. \A b \in Pollers \cup Revokers : jobPC[b] \notin {"asking", "revoking"}
        BY <1>5 DEF Revoke, AskersLock
      <4> QED
        <5>1. \A b \in Pollers \cup Revokers : jobPC'[b] \in {"asking", "revoking"} => b = a
          BY <2>1, <3>1, <4>1 DEF Moves, MediaTypeOK
        <5>2. jobLock' = a /\ jobStatus' = "open"
          BY <2>1, <3>1
        <5> QED
          BY <5>1, <5>2 DEF AskersLock
    <3>2. CASE Moves(a, "done") /\ UNCHANGED jobLock
      BY <2>1, <3>2 DEF Moves, MediaTypeOK, AskersLock
    <3> QED
      BY <1>5, <3>1, <3>2 DEF Revoke
  <2>3. WaitersLock'
    BY <1>5, <2>1 DEF Revoke, Moves, MediaTypeOK, WaitersLock
  <2> QED
    BY <2>1, <2>2, <2>3
<1>6. ASSUME NEW a \in Revokers, Revoked(a) PROVE Goal
  BY <1>6 DEF Revoked, Moves, MediaTypeOK, AskersLock, WaitersLock, ResultIsSuccess, JobIsFinal
<1> QED
  BY <1>1, <1>2, <1>3, <1>4, <1>5, <1>6 DEF MediaNext

LEMMA MediaHolds == MediaSpec => []MediaIInv
<1>1. MediaIInv /\ [MediaNext]_mediaVars => MediaIInv'
  BY MediaSteps
<1> QED
  BY <1>1, MediaStarts, PTL DEF MediaSpec

\* The job, its locks and the calls about it are in states of the declared types.
THEOREM MediaTypeCorrect == MediaSpec => []MediaTypeOK
<1>1. MediaIInv => MediaTypeOK
  BY DEF MediaIInv
<1> QED
  BY <1>1, MediaHolds, PTL

\* The end of a job is final but for a wait() that timed out, its artifacts are
\* fetched by one call at a time and not again, for any waits, polls and cancels.
THEOREM JobsEndOnce == MediaSpec => JobsSettle
<1>1. MediaIInv /\ [MediaNext]_mediaVars => [FetchedOnce' /\ JobIsFinal]_mediaVars
  <2>1. MediaIInv' => FetchedOnce'
    BY DEF MediaIInv, WaitersLock, ResultIsSuccess, FetchedOnce
  <2> QED
    BY <2>1, MediaSteps
<1> QED
  BY <1>1, MediaHolds, PTL DEF MediaSpec, JobsSettle

-----------------------------------------------------------------------------
\* The cache of chat models (ChatModels): what is kept is current and open, what is dropped is closed.

\* A model is kept under the key of the call that built it, which has it by then.
KeptBuilt == \A k \in ModelKeys : models[k] # NoModel =>
    /\ KeyOf[models[k]] = k
    /\ poolPC[models[k]] \in {"holding", "fallen", "over"}

\* While the factory is closed, what is still in the cache is closed already,
\* or came after the cache was gone through.
EmptyingClosed ==
    (\E c \in Closes : PoolAt(c, "emptying")) =>
        \A a \in Kept : \/ a \in missed \/ clients[a] = {}
                        \/ a \in halfClosed /\ clients[a] = {"async"}

\* What has been said of an answer, by the model of its request or its fallback.
Voices == \A a \in Chatters :
    /\ spoken[a] \in {{}, {"responses"}, {"completions"}}
    /\ poolPC[a] \in {"idle", "missing", "building"} => spoken[a] = {}
    /\ PoolAt(a, "holding") => spoken[a] # {"completions"}
    /\ PoolAt(a, "fallen") => spoken[a] # {"responses"}

PoolInv == KeptBuilt /\ EmptyingClosed /\ Voices /\ KeptIsCurrent /\ ConnectionsClosed /\ KeptIsOpen

PoolIInv == PoolTypeOK /\ PoolInv

LEMMA PoolConstants ==
    /\ \A a \in Askers : a \in PoolUsers /\ a # NoModel /\ a \notin Changes /\ a \notin Closes /\ KeyOf[a] \in ModelKeys
    /\ \A s \in Changes : s \in PoolUsers /\ s \notin Askers /\ s \notin Closes
    /\ \A c \in Closes : c \in PoolUsers /\ c \notin Askers /\ c \notin Changes
    /\ \A a \in Chatters : a \in Askers
    /\ IsFiniteSet(Updates) /\ Cardinality(Updates) \in Nat
BY ModelPoolAssumption, FS_CardinalityType DEF PoolUsers, Askers

\* What a key keeps is kept, and nothing else.
LEMMA KeptFacts ==
    ASSUME models \in [ModelKeys -> Askers \cup {NoModel}]
    PROVE  /\ Kept \subseteq Askers
           /\ \A a \in Askers : a \in Kept <=> \E k \in ModelKeys : models[k] = a
BY PoolConstants DEF Kept, Range

LEMMA PoolStarts == PoolInit => PoolIInv
<1> SUFFICES ASSUME PoolInit PROVE PoolIInv
  OBVIOUS
<1> USE PoolConstants DEF PoolInit
<1>1. PoolTypeOK
  <2>1. provider \in 0..(1 + Cardinality(Updates)) /\ 0 \in 0..(1 + Cardinality(Updates))
    OBVIOUS
  <2> QED
    BY <2>1 DEF PoolTypeOK
<1>2. Kept = {}
  BY DEF Kept, Range
<1> QED
  BY <1>1, <1>2 DEF PoolIInv, PoolInv, KeptBuilt, EmptyingClosed, Voices, KeptIsCurrent, ConnectionsClosed, KeptIsOpen, PoolAt

-----------------------------------------------------------------------------
\* A call looks for a model, reads the provider, or goes on with its request:
\* nothing changes of the cache and of what is open.
LEMMA PoolQuiet ==
    ASSUME PoolIInv, PoolTypeOK', Voices',
           UNCHANGED <<provider, models, clients, late, doubled, missed, halfClosed>>,
           \A k \in ModelKeys : models[k] # NoModel =>
               builtFrom'[models[k]] = builtFrom[models[k]] /\ poolPC'[models[k]] \in {"holding", "fallen", "over"},
           \A u \in Changes \cup Closes : poolPC'[u] = poolPC[u]
    PROVE  PoolIInv'
<1> USE PoolConstants
<1>1. Kept' = Kept
  BY DEF Kept
<1>2. KeptBuilt'
  BY DEF PoolIInv, PoolInv, KeptBuilt
<1>3. Kept \subseteq Askers /\ \A a \in Askers : a \in Kept <=> \E k \in ModelKeys : models[k] = a
  BY KeptFacts DEF PoolIInv, PoolTypeOK
<1>4. KeptIsCurrent'
  <2>1. \A a \in Kept : builtFrom'[a] = builtFrom[a]
    BY <1>3
  <2> QED
    BY <1>1, <2>1 DEF PoolIInv, PoolInv, KeptIsCurrent, PoolAt
<1>5. EmptyingClosed' /\ ConnectionsClosed' /\ KeptIsOpen'
  BY <1>1 DEF PoolIInv, PoolInv, EmptyingClosed, ConnectionsClosed, KeptIsOpen, PoolAt
<1> QED
  BY <1>2, <1>4, <1>5 DEF PoolIInv, PoolInv

LEMMA RequestSteps ==
    ASSUME PoolIInv, NEW a \in Askers,
           \/ Look(a) \/ ReadProvider(a)
           \/ a \in Chatters /\ (Chunk(a) \/ Unsupported(a) \/ Release(a))
    PROVE  PoolIInv'
<1> USE PoolConstants
<1>i. PoolTypeOK /\ KeptBuilt /\ Voices
  BY DEF PoolIInv, PoolInv
<1>u. UNCHANGED <<provider, models, clients, late, doubled, missed, halfClosed>>
  BY DEF Look, ReadProvider, Chunk, Unsupported, Release
<1>p. /\ poolPC' \in [PoolUsers -> {"idle", "missing", "building", "holding", "fallen", "over", "evicting", "emptying"}]
      /\ \A u \in PoolUsers \ {a} : poolPC'[u] = poolPC[u]
  BY <1>i DEF PoolTypeOK, Look, ReadProvider, Chunk, Unsupported, Release, PoolGoes
<1>l. poolLoop' \in PoolUsers \cup {NoModel}
  BY <1>i DEF PoolTypeOK, Look, ReadProvider, Chunk, Unsupported, Release, TakesLoop, LeavesLoop
<1>b. builtFrom' \in [Askers -> 0..(1 + Cardinality(Updates))] /\ \A b \in Askers \ {a} : builtFrom'[b] = builtFrom[b]
  BY <1>i DEF PoolTypeOK, Look, ReadProvider, Chunk, Unsupported, Release
<1>h. holds' \in [Askers -> Askers \cup {NoModel}]
  BY <1>i DEF PoolTypeOK, Look, ReadProvider, Chunk, Unsupported, Release
<1>s. spoken' \in [Chatters -> SUBSET {"responses", "completions"}]
  <2>1. CASE Look(a) \/ ReadProvider(a)
    BY <1>i, <2>1 DEF PoolTypeOK, Look, ReadProvider
  <2>2. CASE a \in Chatters /\ (Unsupported(a) \/ Release(a))
    BY <1>i, <2>2 DEF PoolTypeOK, Unsupported, Release
  <2>3. CASE a \in Chatters /\ Chunk(a)
    BY <1>i, <2>3 DEF PoolTypeOK, Chunk
  <2> QED
    BY <2>1, <2>2, <2>3
<1>1. PoolTypeOK'
  BY <1>i, <1>u, <1>p, <1>l, <1>b, <1>h, <1>s DEF PoolTypeOK
<1>2. Voices'
  <2> SUFFICES ASSUME NEW b \in Chatters
               PROVE  /\ spoken'[b] \in {{}, {"responses"}, {"completions"}}
                      /\ poolPC'[b] \in {"idle", "missing", "building"} => spoken'[b] = {}
                      /\ poolPC'[b] = "holding" => spoken'[b] # {"completions"}
                      /\ poolPC'[b] = "fallen" => spoken'[b] # {"responses"}
    BY DEF Voices, PoolAt
  <2>1. /\ spoken[b] \in {{}, {"responses"}, {"completions"}}
        /\ poolPC[b] \in {"idle", "missing", "building"} => spoken[b] = {}
        /\ poolPC[b] = "holding" => spoken[b] # {"completions"}
        /\ poolPC[b] = "fallen" => spoken[b] # {"responses"}
    BY <1>i DEF Voices, PoolAt
  <2>2. CASE b # a
    <3>1. spoken'[b] = spoken[b] /\ poolPC'[b] = poolPC[b]
      BY <1>i, <1>p, <2>2 DEF PoolTypeOK, Look, ReadProvider, Chunk, Unsupported, Release
    <3> QED
      BY <2>1, <3>1
  <2>3. CASE b = a /\ Look(a)
    <3>1. spoken'[b] = spoken[b] /\ poolPC[b] = "idle" /\ poolPC'[b] \in {"missing", "holding"}
      BY <1>i, <2>3 DEF PoolTypeOK, Look, PoolGoes, PoolAt
    <3> QED
      BY <2>1, <3>1
  <2>4. CASE b = a /\ ReadProvider(a)
    <3>1. spoken'[b] = spoken[b] /\ poolPC[b] = "missing" /\ poolPC'[b] \in {"building", "over"}
      BY <1>i, <2>4 DEF PoolTypeOK, ReadProvider, PoolGoes, PoolAt
    <3> QED
      BY <2>1, <3>1
  <2>5. CASE b = a /\ Chunk(a)
    <3>1. /\ poolPC'[b] = poolPC[b]
          /\ \/ poolPC[b] = "holding" /\ spoken'[b] = spoken[b] \cup {"responses"}
             \/ poolPC[b] = "fallen" /\ spoken'[b] = spoken[b] \cup {"completions"}
      BY <1>i, <2>5 DEF PoolTypeOK, Chunk, PoolAt
    <3> QED
      BY <2>1, <3>1
  <2>6. CASE b = a /\ (Unsupported(a) \/ Release(a))
    <3>1. /\ spoken'[b] = spoken[b] /\ poolPC[b] \in {"holding", "fallen"}
          /\ poolPC'[b] = "over" \/ (poolPC'[b] = "fallen" /\ "responses" \notin spoken[b])
      BY <1>i, <2>6 DEF PoolTypeOK, Unsupported, Release, MayFallBack, PoolGoes, PoolAt
    <3> QED
      BY <2>1, <3>1
  <2> QED
    BY <2>2, <2>3, <2>4, <2>5, <2>6
<1>3. \A k \in ModelKeys : models[k] # NoModel =>
          builtFrom'[models[k]] = builtFrom[models[k]] /\ poolPC'[models[k]] \in {"holding", "fallen", "over"}
  <2> SUFFICES ASSUME NEW k \in ModelKeys, models[k] # NoModel
               PROVE  builtFrom'[models[k]] = builtFrom[models[k]] /\ poolPC'[models[k]] \in {"holding", "fallen", "over"}
    OBVIOUS
  <2>1. models[k] \in Askers /\ poolPC[models[k]] \in {"holding", "fallen", "over"}
    BY <1>i DEF PoolTypeOK, KeptBuilt
  <2>2. CASE models[k] # a
    BY <2>1, <2>2, <1>p, <1>b
  <2>3. CASE models[k] = a
    <3>1. ~Look(a) /\ ~ReadProvider(a)
      BY <2>1, <2>3 DEF Look, ReadProvider, PoolAt
    <3>2. builtFrom' = builtFrom /\ poolPC'[a] \in {"holding", "fallen", "over"}
      BY <1>i, <2>1, <2>3, <3>1 DEF PoolTypeOK, Chunk, Unsupported, Release, PoolGoes, PoolAt
    <3> QED
      BY <2>3, <3>2
  <2> QED
    BY <2>2, <2>3
<1>4. \A u \in Changes \cup Closes : poolPC'[u] = poolPC[u]
  BY <1>p
<1> QED
  BY <1>u, <1>1, <1>2, <1>3, <1>4, PoolQuiet

\* A model is built and kept.
LEMMA KeepStep ==
    ASSUME PoolIInv, NEW a \in Askers, KeepModel(a)
    PROVE  PoolIInv'
<1> USE PoolConstants
<1> DEFINE found == models[KeyOf[a]]
<1>i. /\ PoolTypeOK /\ KeptBuilt /\ Voices /\ EmptyingClosed /\ KeptIsCurrent /\ ConnectionsClosed /\ KeptIsOpen
  BY DEF PoolIInv, PoolInv
<1>1. /\ poolPC[a] = "building"
      /\ doubled' = (IF found = NoModel THEN doubled ELSE doubled \cup {found})
      /\ clients' = [clients EXCEPT ![a] = {"sync", "async"}]
      /\ models' = [models EXCEPT ![KeyOf[a]] = a]
      /\ holds' = [holds EXCEPT ![a] = a]
      /\ late' = (IF builtFrom[a] # provider THEN late \cup {a} ELSE late)
      /\ missed' = (IF \E c \in Closes : PoolAt(c, "emptying") THEN missed \cup {a} ELSE missed)
      /\ poolPC' = [poolPC EXCEPT ![a] = "holding"]
      /\ UNCHANGED <<provider, builtFrom, spoken, halfClosed>>
  BY DEF KeepModel, PoolAt, PoolGoes
<1>2. poolLoop' \in PoolUsers \cup {NoModel}
  BY <1>i DEF KeepModel, LeavesLoop, PoolTypeOK
<1>3. found \in Askers \cup {NoModel}
  BY <1>i DEF PoolTypeOK
<1>4. PoolTypeOK'
  BY <1>i, <1>1, <1>2, <1>3 DEF PoolTypeOK
<1>5. /\ models'[KeyOf[a]] = a /\ \A k \in ModelKeys \ {KeyOf[a]} : models'[k] = models[k]
      /\ poolPC'[a] = "holding" /\ \A u \in PoolUsers \ {a} : poolPC'[u] = poolPC[u]
      /\ clients'[a] = {"sync", "async"} /\ \A b \in Askers \ {a} : clients'[b] = clients[b]
  BY <1>i, <1>1 DEF PoolTypeOK
<1>6. KeptBuilt'
  <2> SUFFICES ASSUME NEW k \in ModelKeys, models'[k] # NoModel
               PROVE  KeyOf[models'[k]] = k /\ poolPC'[models'[k]] \in {"holding", "fallen", "over"}
    BY DEF KeptBuilt
  <2>1. CASE k = KeyOf[a]
    BY <1>5, <2>1
  <2>2. CASE k # KeyOf[a]
    <3>1. models'[k] = models[k] /\ models[k] \in Askers
      BY <1>5, <1>i, <2>2 DEF PoolTypeOK
    <3>2. KeyOf[models[k]] = k /\ poolPC[models[k]] \in {"holding", "fallen", "over"}
      BY <3>1, <1>i DEF KeptBuilt
    <3> QED
      BY <3>1, <3>2, <1>5
  <2> QED
    BY <2>1, <2>2
<1>7. a \notin Kept
  BY <1>1, <1>i, KeptFacts DEF PoolTypeOK, KeptBuilt
<1>8. /\ Kept \subseteq Askers /\ Kept' \subseteq Askers
      /\ \A b \in Askers : (b \in Kept' <=> b = a \/ (b \in Kept /\ b # found))
  <2>1. Kept \subseteq Askers /\ \A b \in Askers : b \in Kept <=> \E k \in ModelKeys : models[k] = b
    BY <1>i, KeptFacts DEF PoolTypeOK
  <2>2. Kept' \subseteq Askers /\ \A b \in Askers : b \in Kept' <=> \E k \in ModelKeys : models'[k] = b
    BY <1>4 DEF PoolTypeOK, Kept, Range
  <2>3. ASSUME NEW b \in Askers PROVE b \in Kept' <=> b = a \/ (b \in Kept /\ b # found)
    <3>1. ASSUME b \in Kept', b # a PROVE b \in Kept /\ b # found
      <4>1. PICK k \in ModelKeys : models'[k] = b
        BY <2>2, <3>1
      <4>2. k # KeyOf[a] /\ models[k] = b
        BY <1>5, <3>1, <4>1
      <4>3. KeyOf[b] = k
        BY <4>2, <1>i DEF KeptBuilt
      <4>4. ASSUME b = found PROVE FALSE
        BY <4>3, <4>2, <4>4, <1>i DEF KeptBuilt
      <4> QED
        BY <2>1, <4>2, <4>4
    <3>2. ASSUME b = a PROVE b \in Kept'
      BY <2>2, <1>5, <3>2
    <3>3. ASSUME b \in Kept, b # found PROVE b \in Kept'
      <4>1. PICK k \in ModelKeys : models[k] = b
        BY <2>1, <3>3
      <4> QED
        BY <4>1, <3>3, <1>5, <2>2
    <3> QED
      BY <3>1, <3>2, <3>3
  <2> QED
    BY <2>1, <2>2, <2>3
<1> HIDE DEF found
<1>9. \A c \in Closes \cup Changes : poolPC'[c] = poolPC[c]
  BY <1>5
<1>10. EmptyingClosed'
  <2> SUFFICES ASSUME NEW c \in Closes, poolPC'[c] = "emptying", NEW b \in Kept'
               PROVE  \/ b \in missed' \/ clients'[b] = {}
                      \/ b \in halfClosed' /\ clients'[b] = {"async"}
    BY DEF EmptyingClosed, PoolAt
  <2>1. PoolAt(c, "emptying")
    BY <1>9 DEF PoolAt
  <2>2. CASE b = a
    BY <2>1, <2>2, <1>1
  <2>3. CASE b # a
    <3>1. b \in Kept /\ clients'[b] = clients[b]
      BY <2>3, <1>5, <1>8
    <3> QED
      BY <3>1, <2>1, <1>1, <1>i DEF EmptyingClosed
  <2> QED
    BY <2>2, <2>3
<1>11. KeptIsCurrent'
  <2> SUFFICES ASSUME \A s \in Changes : poolPC'[s] # "evicting", NEW b \in Kept'
               PROVE  builtFrom[b] = provider \/ b \in late'
    BY <1>1 DEF KeptIsCurrent, PoolAt
  <2>1. CASE b = a
    BY <2>1, <1>1
  <2>2. CASE b # a
    BY <2>2, <1>1, <1>8, <1>9, <1>i DEF KeptIsCurrent, PoolAt
  <2> QED
    BY <2>1, <2>2
<1>12. KeptIsOpen'
  <2> SUFFICES ASSUME \A c \in Closes : poolPC'[c] # "emptying", NEW b \in Kept'
               PROVE  clients'[b] = {"sync", "async"}
    BY DEF KeptIsOpen, PoolAt
  <2> QED
    BY <1>5, <1>8, <1>9, <1>i DEF KeptIsOpen, PoolAt
<1>13. ConnectionsClosed'
  <2> SUFFICES ASSUME NEW b \in Askers, b \notin Kept', clients'[b] # {}
               PROVE  b \in doubled' \cup missed' \/ (b \in halfClosed /\ clients'[b] = {"async"})
    BY <1>1 DEF ConnectionsClosed
  <2>1. b # a /\ clients'[b] = clients[b] /\ (b \notin Kept \/ b = found)
    BY <1>5, <1>8
  <2>2. CASE b = found
    BY <2>2, <1>1
  <2>3. CASE b \notin Kept
    <3>1. b \in doubled \cup missed \/ (b \in halfClosed /\ clients[b] = {"async"})
      BY <2>1, <2>3, <1>i DEF ConnectionsClosed
    <3> QED
      BY <2>1, <3>1, <1>1
  <2> QED
    BY <2>1, <2>2, <2>3
<1>14. Voices'
  <2> SUFFICES ASSUME NEW b \in Chatters
               PROVE  /\ spoken[b] \in {{}, {"responses"}, {"completions"}}
                      /\ poolPC'[b] \in {"idle", "missing", "building"} => spoken[b] = {}
                      /\ poolPC'[b] = "holding" => spoken[b] # {"completions"}
                      /\ poolPC'[b] = "fallen" => spoken[b] # {"responses"}
    BY <1>1 DEF Voices, PoolAt
  <2> QED
    BY <1>1, <1>5, <1>i DEF Voices, PoolAt
<1> QED
  BY <1>4, <1>6, <1>10, <1>11, <1>12, <1>13, <1>14 DEF PoolIInv, PoolInv

-----------------------------------------------------------------------------
\* A change of the provider, or a close of the factory, does a step.
LEMMA ActorTypes ==
    ASSUME PoolIInv, NEW u \in Changes \cup Closes, NEW place \in {"evicting", "emptying", "over"}, PoolGoes(u, place)
    PROVE  /\ poolPC' \in [PoolUsers -> {"idle", "missing", "building", "holding", "fallen", "over", "evicting", "emptying"}]
           /\ poolPC'[u] = place /\ \A v \in PoolUsers \ {u} : poolPC'[v] = poolPC[v]
           /\ \A a \in Askers : poolPC'[a] = poolPC[a]
BY PoolConstants DEF PoolIInv, PoolTypeOK, PoolGoes

\* Such a step leaves what requests have said.
LEMMA ActorVoices ==
    ASSUME Voices, spoken' = spoken, \A a \in Askers : poolPC'[a] = poolPC[a]
    PROVE  Voices'
BY PoolConstants DEF Voices, PoolAt

LEMMA SetStep ==
    ASSUME PoolIInv, NEW s \in Changes, SetProvider(s)
    PROVE  PoolIInv'
<1> USE PoolConstants
<1>i. /\ PoolTypeOK /\ KeptBuilt /\ Voices /\ EmptyingClosed /\ KeptIsCurrent /\ ConnectionsClosed /\ KeptIsOpen
  BY DEF PoolIInv, PoolInv
<1>1. /\ provider' = (IF s \in Drops THEN 0 ELSE 1 + Cardinality({u \in Updates : poolPC[u] # "idle"} \cup {s}))
      /\ UNCHANGED <<models, builtFrom, clients, holds, spoken, late, doubled, missed, halfClosed>>
      /\ PoolGoes(s, "evicting")
  BY DEF SetProvider
<1>2. /\ poolPC' \in [PoolUsers -> {"idle", "missing", "building", "holding", "fallen", "over", "evicting", "emptying"}]
      /\ poolPC'[s] = "evicting" /\ \A v \in PoolUsers \ {s} : poolPC'[v] = poolPC[v]
      /\ \A a \in Askers : poolPC'[a] = poolPC[a]
  BY <1>1, ActorTypes
<1>3. provider' \in 0..(1 + Cardinality(Updates))
  <2>1. CASE s \in Drops
    BY <1>1, <2>1
  <2>2. CASE s \notin Drops
    <3> DEFINE U == {u \in Updates : poolPC[u] # "idle"} \cup {s}
    <3>1. U \subseteq Updates
      BY <2>2 DEF Changes
    <3>2. Cardinality(U) \in Nat /\ Cardinality(U) <= Cardinality(Updates)
      BY <3>1, FS_Subset, FS_CardinalityType
    <3>3. provider' = 1 + Cardinality(U)
      BY <1>1, <2>2
    <3> HIDE DEF U
    <3> QED
      BY <3>2, <3>3
  <2> QED
    BY <2>1, <2>2
<1>4. poolLoop' \in PoolUsers \cup {NoModel}
  BY <1>i DEF SetProvider, TakesLoop, PoolTypeOK
<1>5. PoolTypeOK'
  BY <1>i, <1>1, <1>2, <1>3, <1>4 DEF PoolTypeOK
<1>6. Kept' = Kept
  BY <1>1 DEF Kept
<1>7. KeptBuilt'
  BY <1>1, <1>2, <1>i DEF KeptBuilt, PoolTypeOK
<1>8. KeptIsCurrent'
  BY <1>2 DEF KeptIsCurrent, PoolAt
<1>9. \A c \in Closes : poolPC'[c] = poolPC[c]
  BY <1>2
<1>10. EmptyingClosed' /\ KeptIsOpen' /\ ConnectionsClosed'
  BY <1>1, <1>6, <1>9, <1>i DEF EmptyingClosed, KeptIsOpen, ConnectionsClosed, PoolAt
<1>11. Voices'
  BY <1>1, <1>2, <1>i, ActorVoices
<1> QED
  BY <1>5, <1>7, <1>8, <1>10, <1>11 DEF PoolIInv, PoolInv

\* CloseClients(S, u): what is open afterwards.
LEMMA ClosedFacts ==
    ASSUME PoolTypeOK, NEW S, S \subseteq Askers, NEW u, CloseClients(S, u)
    PROVE  /\ clients' \in [Askers -> SUBSET {"sync", "async"}] /\ halfClosed' \subseteq Askers
           /\ halfClosed \subseteq halfClosed'
           /\ \A a \in Askers \ S : clients'[a] = clients[a]
           /\ \A a \in S : clients'[a] = {} \/ (a \in halfClosed' /\ clients'[a] = {"async"})
<1>1. \A a \in Askers : clients[a] \subseteq {"sync", "async"}
  BY DEF PoolTypeOK
<1>2. halfClosed \subseteq Askers
  BY DEF PoolTypeOK
<1>3. CASE u \in PoolAclosers \cup OffLoop
  BY <1>1, <1>2, <1>3 DEF CloseClients
<1>4. CASE u \notin PoolAclosers \cup OffLoop
  <2>1. clients' = [a \in Askers |-> IF a \in S THEN clients[a] \ {"sync"} ELSE clients[a]] /\ halfClosed' = halfClosed \cup S
    BY <1>4 DEF CloseClients
  <2> QED
    BY <1>1, <1>2, <2>1
<1> QED
  BY <1>3, <1>4

LEMMA EvictStep ==
    ASSUME PoolIInv, NEW s \in Changes, Evict(s)
    PROVE  PoolIInv'
<1> USE PoolConstants
<1> DEFINE S == {models[k] : k \in {l \in ModelKeys : Evicted(l)}} \ {NoModel}
<1>i. /\ PoolTypeOK /\ KeptBuilt /\ Voices /\ EmptyingClosed /\ KeptIsCurrent /\ ConnectionsClosed /\ KeptIsOpen
  BY DEF PoolIInv, PoolInv
<1>1. /\ models' = [k \in ModelKeys |-> NoModel] /\ CloseClients(S, s) /\ PoolGoes(s, "over")
      /\ UNCHANGED <<provider, builtFrom, holds, spoken, late, doubled, missed>>
  BY DEF Evict, Evicted
<1>2. /\ poolPC' \in [PoolUsers -> {"idle", "missing", "building", "holding", "fallen", "over", "evicting", "emptying"}]
      /\ poolPC'[s] = "over" /\ \A v \in PoolUsers \ {s} : poolPC'[v] = poolPC[v]
      /\ \A a \in Askers : poolPC'[a] = poolPC[a]
  BY <1>1, ActorTypes
<1>3. S = Kept /\ Kept \subseteq Askers
  BY <1>i DEF PoolTypeOK, Kept, Range, Evicted
<1>4. CloseClients(Kept, s)
  BY <1>1, <1>3
<1> HIDE DEF S
<1>5. /\ clients' \in [Askers -> SUBSET {"sync", "async"}] /\ halfClosed' \subseteq Askers
      /\ halfClosed \subseteq halfClosed'
      /\ \A a \in Askers \ Kept : clients'[a] = clients[a]
      /\ \A a \in Kept : clients'[a] = {} \/ (a \in halfClosed' /\ clients'[a] = {"async"})
  BY <1>i, <1>3, <1>4, ClosedFacts
<1>6. poolLoop' \in PoolUsers \cup {NoModel}
  BY <1>i DEF Evict, LeavesLoop, PoolTypeOK
<1>7. PoolTypeOK'
  BY <1>i, <1>1, <1>2, <1>5, <1>6 DEF PoolTypeOK
<1>8. Kept' = {}
  BY <1>1 DEF Kept, Range
<1>9. KeptBuilt'
  BY <1>1 DEF KeptBuilt
<1>10. KeptIsCurrent' /\ KeptIsOpen' /\ EmptyingClosed'
  BY <1>8 DEF KeptIsCurrent, KeptIsOpen, EmptyingClosed
<1>11. ConnectionsClosed'
  BY <1>1, <1>5, <1>i DEF ConnectionsClosed
<1>12. Voices'
  BY <1>1, <1>2, <1>i, ActorVoices
<1> QED
  BY <1>7, <1>9, <1>10, <1>11, <1>12 DEF PoolIInv, PoolInv

LEMMA BreakStep ==
    ASSUME PoolIInv, NEW s \in Changes, EvictBreaks(s)
    PROVE  PoolIInv'
<1> USE PoolConstants
<1>i. /\ PoolTypeOK /\ KeptBuilt /\ Voices /\ EmptyingClosed /\ KeptIsCurrent /\ ConnectionsClosed /\ KeptIsOpen
  BY DEF PoolIInv, PoolInv
<1>1. /\ late' = late \cup Kept /\ PoolGoes(s, "over")
      /\ UNCHANGED <<provider, models, builtFrom, clients, holds, spoken, doubled, missed, halfClosed>>
  BY DEF EvictBreaks
<1>2. /\ poolPC' \in [PoolUsers -> {"idle", "missing", "building", "holding", "fallen", "over", "evicting", "emptying"}]
      /\ poolPC'[s] = "over" /\ \A v \in PoolUsers \ {s} : poolPC'[v] = poolPC[v]
      /\ \A a \in Askers : poolPC'[a] = poolPC[a]
  BY <1>1, ActorTypes
<1>3. poolLoop' \in PoolUsers \cup {NoModel}
  BY <1>i DEF EvictBreaks, LeavesLoop, PoolTypeOK
<1>4. Kept' = Kept /\ Kept \subseteq Askers
  BY <1>1, <1>i, KeptFacts DEF Kept, PoolTypeOK
<1>5. PoolTypeOK'
  BY <1>i, <1>1, <1>2, <1>3, <1>4 DEF PoolTypeOK
<1>6. KeptBuilt'
  BY <1>1, <1>2, <1>i DEF KeptBuilt, PoolTypeOK
<1>7. KeptIsCurrent'
  BY <1>1, <1>4 DEF KeptIsCurrent
<1>8. \A c \in Closes : poolPC'[c] = poolPC[c]
  BY <1>2
<1>9. EmptyingClosed' /\ KeptIsOpen' /\ ConnectionsClosed'
  BY <1>1, <1>4, <1>8, <1>i DEF EmptyingClosed, KeptIsOpen, ConnectionsClosed, PoolAt
<1>10. Voices'
  BY <1>1, <1>2, <1>i, ActorVoices
<1> QED
  BY <1>5, <1>6, <1>7, <1>9, <1>10 DEF PoolIInv, PoolInv

LEMMA CloseModels ==
    ASSUME PoolIInv, NEW c \in Closes, CloseKept(c)
    PROVE  PoolIInv'
<1> USE PoolConstants
<1>i. /\ PoolTypeOK /\ KeptBuilt /\ Voices /\ EmptyingClosed /\ KeptIsCurrent /\ ConnectionsClosed /\ KeptIsOpen
  BY DEF PoolIInv, PoolInv
<1>1. /\ CloseClients(Kept, c) /\ PoolGoes(c, "emptying")
      /\ UNCHANGED <<provider, models, builtFrom, holds, spoken, late, doubled, missed>>
  BY DEF CloseKept
<1>2. /\ poolPC' \in [PoolUsers -> {"idle", "missing", "building", "holding", "fallen", "over", "evicting", "emptying"}]
      /\ poolPC'[c] = "emptying" /\ \A v \in PoolUsers \ {c} : poolPC'[v] = poolPC[v]
      /\ \A a \in Askers : poolPC'[a] = poolPC[a]
  BY <1>1, ActorTypes
<1>3. poolLoop' \in PoolUsers \cup {NoModel}
  BY <1>i DEF CloseKept, TakesLoop, PoolTypeOK
<1>4. Kept' = Kept /\ Kept \subseteq Askers
  BY <1>1, <1>i, KeptFacts DEF Kept, PoolTypeOK
<1>5. /\ clients' \in [Askers -> SUBSET {"sync", "async"}] /\ halfClosed' \subseteq Askers
      /\ halfClosed \subseteq halfClosed'
      /\ \A a \in Askers \ Kept : clients'[a] = clients[a]
      /\ \A a \in Kept : clients'[a] = {} \/ (a \in halfClosed' /\ clients'[a] = {"async"})
  BY <1>i, <1>1, <1>4, ClosedFacts
<1>6. PoolTypeOK'
  BY <1>i, <1>1, <1>2, <1>3, <1>5 DEF PoolTypeOK
<1>7. KeptBuilt'
  BY <1>1, <1>2, <1>i DEF KeptBuilt, PoolTypeOK
<1>8. KeptIsCurrent'
  <2>1. \A s \in Changes : poolPC'[s] = poolPC[s]
    BY <1>2
  <2> QED
    BY <1>1, <1>4, <2>1, <1>i DEF KeptIsCurrent, PoolAt
<1>9. KeptIsOpen'
  BY <1>2 DEF KeptIsOpen, PoolAt
<1>10. EmptyingClosed'
  BY <1>4, <1>5 DEF EmptyingClosed
<1>11. ConnectionsClosed'
  BY <1>1, <1>4, <1>5, <1>i DEF ConnectionsClosed
<1>12. Voices'
  BY <1>1, <1>2, <1>i, ActorVoices
<1> QED
  BY <1>6, <1>7, <1>8, <1>9, <1>10, <1>11, <1>12 DEF PoolIInv, PoolInv

LEMMA EmptyStep ==
    ASSUME PoolIInv, NEW c \in Closes, EmptyPool(c)
    PROVE  PoolIInv'
<1> USE PoolConstants
<1>i. /\ PoolTypeOK /\ KeptBuilt /\ Voices /\ EmptyingClosed /\ KeptIsCurrent /\ ConnectionsClosed /\ KeptIsOpen
  BY DEF PoolIInv, PoolInv
<1>1. /\ PoolAt(c, "emptying") /\ models' = [k \in ModelKeys |-> NoModel] /\ PoolGoes(c, "over")
      /\ UNCHANGED <<provider, builtFrom, clients, holds, spoken, late, doubled, missed, halfClosed>>
  BY DEF EmptyPool
<1>2. /\ poolPC' \in [PoolUsers -> {"idle", "missing", "building", "holding", "fallen", "over", "evicting", "emptying"}]
      /\ poolPC'[c] = "over" /\ \A v \in PoolUsers \ {c} : poolPC'[v] = poolPC[v]
      /\ \A a \in Askers : poolPC'[a] = poolPC[a]
  BY <1>1, ActorTypes
<1>3. poolLoop' \in PoolUsers \cup {NoModel}
  BY <1>i DEF EmptyPool, LeavesLoop, PoolTypeOK
<1>4. PoolTypeOK'
  BY <1>i, <1>1, <1>2, <1>3 DEF PoolTypeOK
<1>5. Kept' = {}
  BY <1>1 DEF Kept, Range
<1>6. KeptBuilt'
  BY <1>1 DEF KeptBuilt
<1>7. KeptIsCurrent' /\ KeptIsOpen' /\ EmptyingClosed'
  BY <1>5 DEF KeptIsCurrent, KeptIsOpen, EmptyingClosed
<1>8. ConnectionsClosed'
  BY <1>1, <1>i DEF ConnectionsClosed, EmptyingClosed
<1>9. Voices'
  BY <1>1, <1>2, <1>i, ActorVoices
<1> QED
  BY <1>4, <1>6, <1>7, <1>8, <1>9 DEF PoolIInv, PoolInv

LEMMA PoolSteps == PoolIInv /\ [PoolNext]_poolVars => PoolIInv'
<1> SUFFICES ASSUME PoolIInv, [PoolNext]_poolVars PROVE PoolIInv'
  OBVIOUS
<1>1. CASE PoolNext
  <2>1. CASE \E a \in Askers : Look(a) \/ ReadProvider(a)
    BY <2>1, RequestSteps
  <2>2. CASE \E a \in Askers : KeepModel(a)
    BY <2>2, KeepStep
  <2>3. CASE \E a \in Chatters : Chunk(a) \/ Unsupported(a) \/ Release(a)
    BY <2>3, RequestSteps, PoolConstants
  <2>4. CASE \E s \in Changes : SetProvider(s) \/ Evict(s) \/ EvictBreaks(s)
    BY <2>4, SetStep, EvictStep, BreakStep
  <2>5. CASE \E c \in Closes : CloseKept(c) \/ EmptyPool(c)
    BY <2>5, CloseModels, EmptyStep
  <2> QED
    BY <1>1, <2>1, <2>2, <2>3, <2>4, <2>5 DEF PoolNext
<1>2. CASE UNCHANGED poolVars
  BY <1>2 DEF poolVars, PoolIInv, PoolInv, PoolTypeOK, KeptBuilt, EmptyingClosed, Voices, KeptIsCurrent,
              ConnectionsClosed, KeptIsOpen, Kept, PoolAt
<1> QED
  BY <1>1, <1>2

\* The cache of chat models, its clients and the calls that use it have the
\* declared types.
THEOREM PoolTypeCorrect == PoolSpec => []PoolTypeOK
<1>1. PoolIInv => PoolTypeOK
  BY DEF PoolIInv
<1> QED
  BY <1>1, PoolStarts, PoolSteps, PTL DEF PoolSpec

\* A model that is kept is of the configuration in force and open, one that was
\* dropped is closed, and an answer comes from one model; for any calls, changes
\* of the provider and closes of the factory, with the exceptions named.
THEOREM ModelsKept == PoolSpec => []ModelsServe
<1>1. PoolIInv => ModelsServe
  <2> SUFFICES ASSUME PoolIInv PROVE OneVoice
    BY DEF PoolIInv, PoolInv, ModelsServe
  <2>1. Cardinality({}) = 0 /\ \A x : Cardinality({x}) = 1
    BY FS_EmptySet, FS_Singleton
  <2>2. \A a \in Chatters : spoken[a] = {} \/ spoken[a] = {"responses"} \/ spoken[a] = {"completions"}
    BY DEF PoolIInv, PoolInv, Voices
  <2>3. \A a \in Chatters : Cardinality(spoken[a]) = 0 \/ Cardinality(spoken[a]) = 1
    BY <2>1, <2>2
  <2> QED
    BY <2>3 DEF OneVoice
<1> QED
  BY <1>1, PoolStarts, PoolSteps, PTL DEF PoolSpec
=============================================================================
