-------------------------- MODULE CompactionProofs --------------------------
(***************************************************************************)
(* Proofs about Compaction, for any conversations, compactions in turns    *)
(* and calls of /compact, and any numbers of messages kept.                *)
(***************************************************************************)
EXTENDS Compaction, TLAPS

Stages == {Idle, "started", "writing", "retrying", "written", "stored", "ended"}
Policies == Forced \cup {AutoPolicy}
Events == [cutoff : 0..MaxMessages, covers : SUBSET Messages]
Records == [at : Stages, former : Policies, seen : Events, cut : Nat, kept : Nat,
            offload : {"none", "due", "saved", "failed"}, author : Policies]

LEMMA CompactFacts ==
    /\ Forced \cap Autos = {} /\ Idle \notin Compactions /\ AutoPolicy \notin Compactions \cup Threads
    /\ Forced \subseteq Compactions /\ Autos \subseteq Compactions
    /\ \A c \in Compactions : ThreadOf[c] \in Threads
    /\ ForceKeep \in Nat \ {0} /\ AutoKeep \in Nat \ {0} /\ MinSummarize \in Nat \ {0} /\ MaxMessages \in Nat
    /\ \A p : Keep(p) \in Nat \ {0}
    /\ \A c \in Compactions : Own(c) \in Policies
BY CompactionAssumption DEF Compactions, Keep, Own, Policies

LEMMA RecordTypes ==
    ASSUME CompactTypeOK
    PROVE  \A c \in Compactions : compaction[c] \in Records
BY DEF CompactTypeOK, Records, Stages, Policies, Events

LEMMA NewRecord == NoEvent \in Events /\ [NewCompaction EXCEPT !.at = "ended"] \in Records /\ NewCompaction \in Records
BY CompactFacts DEF NoEvent, NewCompaction, Events, Records, Stages, Policies, Messages

-----------------------------------------------------------------------------
(***************************************************************************)
(* Cuts.                                                                   *)
(***************************************************************************)

\* The event of a cut stands for the messages before it, and the conversation
\* is shorter by what was taken out.
LEMMA CutMath ==
    ASSUME NEW ev \in Events, NEW cut \in Nat \ {0}, StateCutoff(ev, cut) <= MaxMessages,
           ev.covers = 1..ev.cutoff
    PROVE  /\ StateCutoff(ev, cut) \in 1..MaxMessages
           /\ ev.covers \cup TakenOut(ev, cut) = 1..StateCutoff(ev, cut)
           /\ \A n \in Nat, new \in Events : new.cutoff = StateCutoff(ev, cut) =>
                 Effective(n, ev) = Effective(n, new) + (cut - 1)
<1> USE CompactFacts DEF Events
<1>1. StateCutoff(ev, cut) \in 1..MaxMessages
  BY DEF StateCutoff
<1>2. ev.covers \cup TakenOut(ev, cut) = 1..StateCutoff(ev, cut)
  <2>1. TakenOut(ev, cut) = {m \in Messages : ev.cutoff < m /\ m <= StateCutoff(ev, cut)}
    BY <1>1 DEF TakenOut, StateCutoff, Messages
  <2>2. ev.cutoff <= StateCutoff(ev, cut) /\ ev.cutoff \in Nat
    BY <1>1 DEF StateCutoff
  <2> QED
    BY <1>1, <2>1, <2>2 DEF Messages
<1>3. ASSUME NEW n \in Nat, NEW new \in Events, new.cutoff = StateCutoff(ev, cut)
      PROVE  Effective(n, ev) = Effective(n, new) + (cut - 1)
  BY <1>1, <1>3 DEF Effective, StateCutoff
<1> QED
  BY <1>1, <1>2, <1>3

LEMMA EffectiveIsNat ==
    ASSUME NEW ev \in Events, NEW n \in Nat, ev.cutoff <= n
    PROVE  /\ Effective(n, ev) \in Nat /\ Effective(n + 1, ev) = Effective(n, ev) + 1
           /\ n > 0 => Effective(n, ev) # 0
           /\ \A keep \in Nat \ {0} : Effective(n, ev) > keep =>
                 /\ Effective(n, ev) - keep \in Nat \ {0}
                 /\ StateCutoff(ev, Effective(n, ev) - keep) <= n
BY CompactFacts DEF Effective, StateCutoff, Events

-----------------------------------------------------------------------------
(***************************************************************************)
(* What each step of a compaction does to it.                              *)
(***************************************************************************)

\* The record of a compaction after its step.
StepTo(c, r) ==
    /\ r \in Records
    /\ compaction'[c] = r /\ \A x \in Compactions \ {c} : compaction'[x] = compaction[x]
    /\ compaction' \in [Compactions -> Records]

LEMMA SetsTo ==
    ASSUME CompactTypeOK, NEW c \in Compactions, NEW r \in Records, Sets(c, r)
    PROVE  StepTo(c, r)
BY DEF CompactTypeOK, Sets, StepTo, Records, Stages, Policies, Events

LEMMA RetiredTo ==
    ASSUME CompactTypeOK, NEW c \in Compactions, Retired(c)
    PROVE  StepTo(c, compaction'[c]) /\ Stage(c)' = "ended"
<1>1. Sets(c, [NewCompaction EXCEPT !.at = "ended"])
  BY DEF Retired
<1>2. StepTo(c, [NewCompaction EXCEPT !.at = "ended"])
  BY <1>1, SetsTo, NewRecord
<1> QED
  BY <1>2 DEF StepTo, Stage, NewCompaction

\* The start of a compaction reads and cuts.
LEMMA StartTo ==
    ASSUME CompactTypeOK, CutsAreSound, NEW c \in Compactions, StartCompaction(c)
    PROVE  LET t == ThreadOf[c]  mine == IF c \in Forced THEN c ELSE summaryPolicy IN
           /\ StepTo(c, compaction'[c])
           /\ Stage(c) = Idle /\ Stage(c)' = "started"
           /\ compaction'[c].former = summaryPolicy /\ compaction'[c].seen = event[t]
           /\ compaction'[c].kept = Keep(mine) /\ compaction'[c].offload = "due"
           /\ compaction'[c].cut \in Nat \ {0} /\ StateCutoff(event[t], compaction'[c].cut) <= length[t]
           /\ summaryPolicy' = mine
<1> DEFINE t == ThreadOf[c]
           mine == IF c \in Forced THEN c ELSE summaryPolicy
           size == Effective(length[t], event[t])
           r == [at |-> "started", former |-> summaryPolicy, seen |-> event[t], cut |-> size - Keep(mine),
                 kept |-> Keep(mine), offload |-> "due", author |-> AutoPolicy]
<1>1. t \in Threads /\ Keep(mine) \in Nat \ {0} /\ MinSummarize \in Nat \ {0}
  BY CompactFacts
<1>2. length[t] \in Nat /\ event[t] \in Events /\ event[t].cutoff <= length[t]
  BY <1>1, CompactFacts DEF CompactTypeOK, CutsAreSound, Events
<1>3. size \in Nat /\ size >= Keep(mine) + MinSummarize
  BY <1>2, EffectiveIsNat DEF StartCompaction
<1>4. size > Keep(mine)
  BY <1>1, <1>3
<1>5. size - Keep(mine) \in Nat \ {0} /\ StateCutoff(event[t], size - Keep(mine)) <= length[t]
  BY <1>1, <1>2, <1>4, EffectiveIsNat
<1>6. summaryPolicy \in Policies
  BY DEF CompactTypeOK, Policies
<1>7. r \in Records
  BY <1>1, <1>2, <1>5, <1>6 DEF Records, Stages, Policies
<1>8. Sets(c, r) /\ Stage(c) = Idle /\ summaryPolicy' = mine
  BY DEF StartCompaction
<1>9. StepTo(c, r)
  BY <1>7, <1>8, SetsTo
<1> HIDE DEF size
<1> QED
  BY <1>5, <1>8, <1>9 DEF StepTo, Stage

\* A step under way changes its place, or the state of its offload, or learns
\* who writes its summary.
LEMMA GoesOnTo ==
    ASSUME CompactTypeOK, NEW c \in Compactions,
           Offload(c) \/ Write(c) \/ Overflow(c) \/ Written(c) \/ (Save(c) /\ c \in Forced)
    PROVE  /\ StepTo(c, compaction'[c])
           /\ Compacting(c) /\ Compacting(c)'
           /\ compaction'[c].former = compaction[c].former /\ compaction'[c].kept = compaction[c].kept
           /\ compaction'[c].seen = compaction[c].seen /\ compaction'[c].cut = compaction[c].cut
           /\ compaction'[c].offload = compaction[c].offload \/ Offload(c)
           /\ compaction'[c].author = compaction[c].author \/ Write(c)
           /\ Stage(c)' = Stage(c) \/ Write(c) \/ Overflow(c) \/ Written(c) \/ Save(c)
           /\ Stage(c)' = "stored" => (Save(c) /\ c \in Forced) \/ Stage(c) = "stored"
           /\ Stage(c) = "stored" => Stage(c)' = "stored"
           /\ Stage(c) = "started" => Stage(c)' = "started" \/ Write(c)
<1>0. compaction[c] \in Records /\ summaryPolicy \in Policies
  BY DEF CompactTypeOK, Records, Stages, Policies, Events
<1> USE DEF Stage, Compacting, Idle
<1>1. CASE Offload(c)
  <2>1. PICK o \in {"saved", "failed"} : Sets(c, [compaction[c] EXCEPT !.offload = o])
    BY <1>1 DEF Offload
  <2>2. StepTo(c, [compaction[c] EXCEPT !.offload = o])
    BY <1>0, <2>1, SetsTo DEF Records
  <2> QED
    BY <1>0, <1>1, <2>2 DEF StepTo, Records, Offload
<1>2. CASE Write(c)
  <2>1. StepTo(c, [compaction[c] EXCEPT !.at = "writing", !.author = summaryPolicy])
    BY <1>0, <1>2, SetsTo DEF Records, Stages, Write
  <2> QED
    BY <1>0, <1>2, <2>1 DEF StepTo, Records, Write
<1>3. CASE Overflow(c)
  <2>1. StepTo(c, [compaction[c] EXCEPT !.at = "retrying"])
    BY <1>0, <1>3, SetsTo DEF Records, Stages, Overflow
  <2> QED
    BY <1>0, <1>3, <2>1 DEF StepTo, Records, Overflow
<1>4. CASE Written(c)
  <2>1. StepTo(c, [compaction[c] EXCEPT !.at = "written"])
    BY <1>0, <1>4, SetsTo DEF Records, Stages, Written
  <2> QED
    BY <1>0, <1>4, <2>1 DEF StepTo, Records, Written
<1>5. CASE Save(c) /\ c \in Forced
  <2>1. StepTo(c, [compaction[c] EXCEPT !.at = "stored"])
    BY <1>0, <1>5, SetsTo DEF Records, Stages, Save
  <2> QED
    BY <1>0, <1>5, <2>1 DEF StepTo, Records, Save
<1> QED
  BY <1>1, <1>2, <1>3, <1>4, <1>5

LEMMA EndsTo ==
    ASSUME CompactTypeOK, NEW c \in Compactions, GiveUp(c) \/ Finish(c) \/ (Save(c) /\ c \notin Forced)
    PROVE  StepTo(c, compaction'[c]) /\ Stage(c)' = "ended" /\ Compacting(c)
<1>1. Retired(c) /\ Compacting(c)
  BY DEF GiveUp, Finish, Save, Compacting, Idle
<1> QED
  BY <1>1, RetiredTo

\* What a step of a conversation itself leaves alone.
LEMMA ThreadTo ==
    ASSUME NEW t \in Threads, Say(t) \/ AskModel(t) \/ Capture(t)
    PROVE  UNCHANGED <<compaction, event, archive, helperVars>>
BY DEF Say, AskModel, Capture, threadVars

-----------------------------------------------------------------------------
(***************************************************************************)
(* Types.                                                                  *)
(***************************************************************************)

LEMMA CompactTypes ==
    ASSUME CompactTypeOK, CutsAreSound, [CompactNext]_compactVars
    PROVE  CompactTypeOK'
<1> USE CompactFacts
<1>1. ASSUME NEW t \in Threads, Say(t) \/ AskModel(t) \/ Capture(t) PROVE CompactTypeOK'
  <2>1. UNCHANGED <<compaction, event, archive, helperVars>>
    BY <1>1, ThreadTo
  <2>2. length' \in [Threads -> 0..MaxMessages]
    BY <1>1 DEF Say, AskModel, Capture, CompactTypeOK, threadVars
  <2>3. length[t] \in Nat /\ event[t] \in Events /\ event[t].cutoff <= length[t]
    BY DEF CompactTypeOK, CutsAreSound, Events
  <2>4. Effective(length[t], event[t]) \in Nat
    BY <2>3, EffectiveIsNat
  <2>5. asking' \in [Threads -> Nat] /\ ring' \in [Threads -> Nat] /\ unseen' \in [Threads -> Nat]
    <3> USE DEF CompactTypeOK
    <3>1. CASE Say(t)
      BY <3>1 DEF Say
    <3>2. CASE AskModel(t)
      BY <2>4, <3>2 DEF AskModel
    <3>3. CASE Capture(t)
      BY <3>3 DEF Capture
    <3> QED
      BY <1>1, <3>1, <3>2, <3>3
  <2>6. met' \subseteq Threads \cup {AutoPolicy}
    BY <1>1 DEF Say, AskModel, Capture, CompactTypeOK
  <2> QED
    BY <2>1, <2>2, <2>5, <2>6 DEF CompactTypeOK, helperVars
<1>2. ASSUME NEW c \in Compactions, CompactionStep(c) PROVE CompactTypeOK'
  <2>0. ThreadOf[c] \in Threads
    OBVIOUS
  <2>1. compaction' \in [Compactions -> Records]
    BY <1>2, StartTo, GoesOnTo, EndsTo DEF StepTo, CompactionStep
  <2>2. length' \in [Threads -> 0..MaxMessages]
    BY <1>2 DEF CompactionStep, StartCompaction, Offload, Write, Overflow, Written, GiveUp, Save, Finish, threadVars, CompactTypeOK
  <2>3. event' \in [Threads -> Events]
    <3>1. CASE Save(c)
      <4>1. Compacting(c)
        BY <3>1 DEF Save, Compacting, Idle
      <4>2. /\ compaction[c].cut \in Nat \ {0} /\ compaction[c].seen \in Events
            /\ StateCutoff(compaction[c].seen, compaction[c].cut) <= MaxMessages
            /\ compaction[c].seen.covers = 1..compaction[c].seen.cutoff
        <5>1. compaction[c].cut \in Nat /\ compaction[c].seen \in Events /\ length[ThreadOf[c]] \in 0..MaxMessages
          BY <2>0, RecordTypes DEF Records, CompactTypeOK
        <5>2. /\ compaction[c].cut > 0 /\ StateCutoff(compaction[c].seen, compaction[c].cut) <= length[ThreadOf[c]]
              /\ compaction[c].seen.covers = 1..compaction[c].seen.cutoff
          BY <4>1 DEF CutsAreSound
        <5>3. StateCutoff(compaction[c].seen, compaction[c].cut) \in Nat
          BY <5>1, <5>2 DEF StateCutoff, Events
        <5> QED
          BY <5>1, <5>2, <5>3
      <4>3. /\ StateCutoff(compaction[c].seen, compaction[c].cut) \in 0..MaxMessages
            /\ compaction[c].seen.covers \cup TakenOut(compaction[c].seen, compaction[c].cut) \in SUBSET Messages
        <5>1. /\ StateCutoff(compaction[c].seen, compaction[c].cut) \in 1..MaxMessages
              /\ compaction[c].seen.covers \cup TakenOut(compaction[c].seen, compaction[c].cut)
                    = 1..StateCutoff(compaction[c].seen, compaction[c].cut)
          BY <4>2, CutMath
        <5> QED
          BY <5>1 DEF Messages
      <4> QED
        BY <3>1, <4>3 DEF Save, CompactTypeOK, Events
    <3>2. CASE ~Save(c)
      BY <1>2, <3>2 DEF CompactionStep, StartCompaction, Offload, Write, Overflow, Written, GiveUp, Finish, threadVars, CompactTypeOK, Events
    <3> QED
      BY <3>1, <3>2
  <2>4. archive' \in [Threads -> SUBSET Messages]
    BY <1>2 DEF CompactionStep, StartCompaction, Offload, Write, Overflow, Written, GiveUp, Save, Finish, threadVars, CompactTypeOK, TakenOut
  <2>5. summaryPolicy' \in Policies
    BY <1>2 DEF CompactionStep, StartCompaction, Offload, Write, Overflow, Written, GiveUp, Save, Finish, helperVars, CompactTypeOK, Policies, LeftPolicy
  <2>6. window' \in BOOLEAN
    BY <1>2, Zenon DEF CompactionStep, StartCompaction, Offload, Write, Overflow, Written, GiveUp, Save, Finish, helperVars, CompactTypeOK
  <2>7. summaryLock' \in Compactions \cup {Idle}
    BY <1>2 DEF CompactionStep, StartCompaction, Offload, Write, Overflow, Written, GiveUp, Save, Finish, helperVars, CompactTypeOK
  <2>8. asking' \in [Threads -> Nat] /\ unseen' \in [Threads -> Nat]
    BY <1>2 DEF CompactionStep, StartCompaction, Offload, Write, Overflow, Written, GiveUp, Save, Finish, ringVars, CompactTypeOK
  <2>9. ring' \in [Threads -> Nat]
    <3>1. CASE Finish(c)
      <4>1. ring[ThreadOf[c]] \in Nat /\ compaction[c].cut \in Nat \ {0}
        <5>1. compaction[c].cut \in Nat /\ Compacting(c)
          BY <3>1, RecordTypes DEF Records, Finish, Compacting, Idle
        <5> QED
          BY <5>1 DEF CompactTypeOK, CutsAreSound
      <4>2. Shrunk(ring[ThreadOf[c]], Removed(c)) \in Nat
        BY <4>1 DEF Shrunk, Removed
      <4> QED
        BY <3>1, <4>2 DEF Finish, CompactTypeOK
    <3>2. CASE ~Finish(c)
      BY <1>2, <3>2 DEF CompactionStep, StartCompaction, Offload, Write, Overflow, Written, GiveUp, Save, ringVars, CompactTypeOK
    <3> QED
      BY <3>1, <3>2
  <2>10. met' \subseteq Threads \cup {AutoPolicy}
    BY <1>2 DEF CompactionStep, StartCompaction, Offload, Write, Overflow, Written, GiveUp, Save, Finish, CompactTypeOK
  <2> QED
    BY <2>1, <2>2, <2>3, <2>4, <2>5, <2>6, <2>7, <2>8, <2>9, <2>10
    DEF CompactTypeOK, Records, Stages, Policies, Events
<1>3. CASE UNCHANGED compactVars
  BY <1>3 DEF compactVars, threadVars, helperVars, ringVars, CompactTypeOK
<1> QED
  BY <1>1, <1>2, <1>3 DEF CompactNext

-----------------------------------------------------------------------------
(***************************************************************************)
(* The lock and the window.                                                *)
(***************************************************************************)

LEMMA SummaryTurns ==
    ASSUME CompactTypeOK, CutsAreSound, SummaryInTurn, [CompactNext]_compactVars
    PROVE  SummaryInTurn'
<1> USE CompactFacts
<1>1. ASSUME NEW t \in Threads, Say(t) \/ AskModel(t) \/ Capture(t) PROVE SummaryInTurn'
  BY <1>1, ThreadTo DEF SummaryInTurn, Stage, helperVars
<1>2. ASSUME NEW c \in Compactions, CompactionStep(c) PROVE SummaryInTurn'
  <2>0. summaryLock \in Compactions \cup {Idle}
    BY DEF CompactTypeOK
  <2>1. /\ \A x \in Compactions \ {c} : Stage(x)' = Stage(x)
        /\ compaction[c] \in Records
    BY <1>2, StartTo, GoesOnTo, EndsTo DEF StepTo, CompactionStep, Stage, CompactTypeOK, Records, Stages, Policies, Events
  <2>2. CASE StartCompaction(c)
    <3>1. Stage(c) = Idle /\ Stage(c)' = "started" /\ UNCHANGED <<window, summaryLock>>
      BY <2>2, StartTo DEF StartCompaction
    <3> QED
      BY <2>0, <2>1, <3>1 DEF SummaryInTurn, Idle
  <2>3. CASE Offload(c)
    <3>1. Stage(c)' = Stage(c) /\ UNCHANGED <<window, summaryLock>>
      BY <2>1, <2>3 DEF Offload, helperVars, Sets, Stage, CompactTypeOK, Records
    <3> QED
      BY <2>0, <2>1, <3>1 DEF SummaryInTurn
  <2>4. CASE Write(c)
    <3>1. Stage(c) = "started" /\ Stage(c)' = "writing" /\ summaryLock = Idle /\ summaryLock' = c /\ UNCHANGED window
      BY <2>1, <2>4 DEF Write, Sets, Stage, CompactTypeOK, Records
    <3> QED
      BY <2>0, <2>1, <3>1 DEF SummaryInTurn
  <2>5. CASE Overflow(c)
    <3>1. Stage(c) = "writing" /\ Stage(c)' = "retrying" /\ UNCHANGED summaryLock
      BY <2>1, <2>5 DEF Overflow, Sets, Stage, CompactTypeOK, Records
    <3>2. summaryLock = c
      BY <3>1 DEF SummaryInTurn
    <3> QED
      BY <2>1, <3>1, <3>2 DEF SummaryInTurn
  <2>6. CASE Written(c)
    <3>1. Stage(c) \in {"writing", "retrying"} /\ Stage(c)' = "written" /\ summaryLock' = Idle
          /\ window' = (window \/ Stage(c) = "retrying")
      BY <2>1, <2>6 DEF Written, Sets, Stage, CompactTypeOK, Records
    <3>2. summaryLock = c
      BY <3>1 DEF SummaryInTurn
    <3>3. window'
      BY <3>1, <3>2 DEF SummaryInTurn
    <3> QED
      BY <2>1, <3>1, <3>2, <3>3 DEF SummaryInTurn
  <2>7. CASE GiveUp(c)
    <3>1. Stage(c)' = "ended" /\ summaryLock' = (IF summaryLock = c THEN Idle ELSE summaryLock)
          /\ window' = (window \/ Stage(c) = "retrying")
      BY <2>7, EndsTo DEF GiveUp
    <3>2. CASE summaryLock = c
      <4>1. window'
        BY <3>1, <3>2 DEF SummaryInTurn
      <4> QED
        BY <2>1, <3>1, <3>2, <4>1 DEF SummaryInTurn
    <3>3. CASE summaryLock # c
      <4>1. Stage(c) # "retrying" /\ summaryLock' = summaryLock
        BY <3>1, <3>3 DEF SummaryInTurn
      <4>2. ~window' => ~window
        BY <3>1
      <4> QED
        BY <2>1, <3>1, <3>3, <4>1, <4>2 DEF SummaryInTurn, CompactTypeOK
    <3> QED
      BY <3>2, <3>3
  <2>8. CASE Save(c) \/ Finish(c)
    <3>1. Stage(c) \in {"written", "stored"} /\ Stage(c)' \in {"stored", "ended"} /\ UNCHANGED <<window, summaryLock>>
      <4>1. CASE Save(c) /\ c \in Forced
        BY <2>1, <4>1 DEF Save, Sets, Stage, CompactTypeOK, Records, helperVars
      <4>2. CASE Finish(c) \/ (Save(c) /\ c \notin Forced)
        BY <4>2, EndsTo DEF Save, Finish, helperVars
      <4> QED
        BY <2>8, <4>1, <4>2
    <3> QED
      BY <2>0, <2>1, <3>1 DEF SummaryInTurn
  <2> QED
    BY <1>2, <2>2, <2>3, <2>4, <2>5, <2>6, <2>7, <2>8 DEF CompactionStep
<1>3. CASE UNCHANGED compactVars
  BY <1>3 DEF compactVars, helperVars, SummaryInTurn, Stage
<1> QED
  BY <1>1, <1>2, <1>3 DEF CompactNext

-----------------------------------------------------------------------------
(***************************************************************************)
(* What a summary stands for.                                              *)
(***************************************************************************)

\* What CutsAreSound says of one compaction.
CutSound(c) ==
    LET r == compaction[c]  t == ThreadOf[c] IN
    /\ r.cut > 0 /\ StateCutoff(r.seen, r.cut) <= length[t]
    /\ r.seen.covers = 1..r.seen.cutoff /\ r.seen.covers \subseteq archive[t]
    /\ r.offload = "saved" => TakenOut(r.seen, r.cut) \subseteq archive[t]
    /\ Stage(c) = "stored" => c \in Forced

\* A conversation and its history file only grow.
LEMMA Grows ==
    ASSUME CompactTypeOK, [CompactNext]_compactVars, NEW t \in Threads
    PROVE  length[t] <= length'[t] /\ archive[t] \subseteq archive'[t]
<1> USE CompactFacts DEF CompactTypeOK, threadVars
<1>1. ASSUME NEW u \in Threads, Say(u) \/ AskModel(u) \/ Capture(u)
      PROVE  length[t] <= length'[t] /\ archive[t] \subseteq archive'[t]
  BY <1>1 DEF Say, AskModel, Capture
<1>2. ASSUME NEW c \in Compactions, CompactionStep(c)
      PROVE  length[t] <= length'[t] /\ archive[t] \subseteq archive'[t]
  BY <1>2 DEF CompactionStep, StartCompaction, Offload, Write, Overflow, Written, GiveUp, Save, Finish
<1>3. CASE UNCHANGED compactVars
  BY <1>3 DEF compactVars
<1> QED
  BY <1>1, <1>2, <1>3 DEF CompactNext

\* A cut stays sound while its conversation grows.
LEMMA SoundStays ==
    ASSUME CompactTypeOK, CompactTypeOK', [CompactNext]_compactVars, NEW c \in Compactions, CutSound(c),
           compaction'[c].seen = compaction[c].seen, compaction'[c].cut = compaction[c].cut,
           compaction'[c].offload = "saved" =>
              TakenOut(compaction[c].seen, compaction[c].cut) \subseteq archive'[ThreadOf[c]],
           Stage(c)' = "stored" => c \in Forced
    PROVE  CutSound(c)'
<1> DEFINE t == ThreadOf[c]
<1>1. t \in Threads /\ length[t] <= length'[t] /\ archive[t] \subseteq archive'[t]
  BY Grows, CompactFacts
<1>2. length[t] \in Nat /\ length'[t] \in Nat
  BY <1>1, CompactFacts DEF CompactTypeOK
<1>3. StateCutoff(compaction[c].seen, compaction[c].cut) \in Nat
  <2>1. compaction[c].cut \in Nat \ {0} /\ compaction[c].seen \in Events
    BY RecordTypes DEF Records, CutSound
  <2> QED
    BY <2>1 DEF StateCutoff, Events
<1>4. StateCutoff(compaction[c].seen, compaction[c].cut) <= length'[t]
  BY <1>1, <1>2, <1>3 DEF CutSound
<1>5. archive[t] \subseteq archive'[t]
  BY <1>1
<1> QED
  BY <1>4, <1>5 DEF CutSound

LEMMA CutsInductive ==
    ASSUME CompactTypeOK, CompactTypeOK', CutsAreSound, HistoryIsKept, [CompactNext]_compactVars
    PROVE  CutsAreSound' /\ HistoryIsKept'
<1> USE CompactFacts
<1>0. \A c \in Compactions : Compacting(c) => CutSound(c)
  BY DEF CutsAreSound, CutSound
<1>1. ASSUME NEW c \in Compactions, Compacting(c)' PROVE CutSound(c)'
  <2>1. CASE compaction'[c] = compaction[c]
    <3>1. CutSound(c) /\ Stage(c)' = Stage(c)
      BY <1>0, <1>1, <2>1 DEF Compacting, Stage
    <3>2. archive[ThreadOf[c]] \subseteq archive'[ThreadOf[c]]
      BY Grows
    <3> QED
      BY <2>1, <3>1, <3>2, SoundStays DEF CutSound
  <2>2. CASE compaction'[c] # compaction[c]
    <3>1. CompactionStep(c)
      <4>1. ASSUME NEW x \in Compactions, CompactionStep(x) PROVE x = c
        BY <2>2, <4>1, StartTo, GoesOnTo, EndsTo DEF CompactionStep, StepTo
      <4> QED
        BY <2>2, <4>1, ThreadTo DEF CompactNext, compactVars
    <3>2. CASE StartCompaction(c)
      <4>1. /\ compaction'[c].seen = event[ThreadOf[c]] /\ compaction'[c].cut \in Nat \ {0}
            /\ StateCutoff(event[ThreadOf[c]], compaction'[c].cut) <= length[ThreadOf[c]]
            /\ compaction'[c].offload = "due" /\ Stage(c)' = "started"
            /\ UNCHANGED threadVars
        BY <3>2, StartTo DEF StartCompaction
      <4> QED
        BY <4>1 DEF CutSound, HistoryIsKept, threadVars
    <3>3. CASE Offload(c) \/ Write(c) \/ Overflow(c) \/ Written(c) \/ (Save(c) /\ c \in Forced)
      <4>1. CutSound(c) /\ compaction'[c].seen = compaction[c].seen /\ compaction'[c].cut = compaction[c].cut
        BY <1>0, <3>3, GoesOnTo
      <4>2. Stage(c)' = "stored" => c \in Forced
        BY <3>3, <4>1, GoesOnTo DEF CutSound
      <4>3. compaction'[c].offload = "saved" =>
              TakenOut(compaction[c].seen, compaction[c].cut) \subseteq archive'[ThreadOf[c]]
        <5>1. CASE Offload(c)
          <6>1. \/ archive' = [archive EXCEPT ![ThreadOf[c]] = @ \cup TakenOut(compaction[c].seen, compaction[c].cut)]
                \/ Sets(c, [compaction[c] EXCEPT !.offload = "failed"])
            BY <5>1 DEF Offload
          <6>2. ASSUME Sets(c, [compaction[c] EXCEPT !.offload = "failed"]) PROVE compaction'[c].offload = "failed"
            BY <6>2, RecordTypes DEF Sets, Records, CompactTypeOK
          <6>3. archive \in [Threads -> SUBSET Messages]
            BY DEF CompactTypeOK
          <6> QED
            BY <6>1, <6>2, <6>3
        <5>2. CASE compaction'[c].offload = compaction[c].offload
          <6>1. archive[ThreadOf[c]] \subseteq archive'[ThreadOf[c]]
            BY Grows
          <6> QED
            BY <4>1, <5>2, <6>1 DEF CutSound
        <5> QED
          BY <3>3, <5>1, <5>2, GoesOnTo
      <4> QED
        BY <4>1, <4>2, <4>3, SoundStays
    <3>4. CASE GiveUp(c) \/ Finish(c) \/ (Save(c) /\ c \notin Forced)
      BY <1>1, <3>4, EndsTo DEF Compacting
    <3> QED
      BY <3>1, <3>2, <3>3, <3>4 DEF CompactionStep
  <2> QED
    BY <2>1, <2>2
<1>2. ASSUME NEW t \in Threads
      PROVE  event'[t].cutoff <= length'[t] /\ event'[t].covers = 1..event'[t].cutoff /\ event'[t].covers \subseteq archive'[t]
  <2>1. length[t] <= length'[t] /\ archive[t] \subseteq archive'[t] /\ length[t] \in 0..MaxMessages /\ length'[t] \in Nat
    BY Grows DEF CompactTypeOK
  <2>2. CASE event'[t] = event[t]
    <3>1. event[t].cutoff \in Nat /\ event[t].cutoff <= length[t]
      BY DEF CompactTypeOK, CutsAreSound
    <3> QED
      BY <2>1, <2>2, <3>1 DEF HistoryIsKept
  <2>3. CASE event'[t] # event[t]
    <3>1. PICK c \in Compactions : Save(c) /\ ThreadOf[c] = t
      <4>1. ASSUME NEW c \in Compactions, CompactionStep(c) PROVE Save(c) /\ ThreadOf[c] = t
        BY <2>3, <4>1 DEF CompactionStep, StartCompaction, Offload, Write, Overflow, Written, GiveUp, Save, Finish,
                         threadVars, CompactTypeOK
      <4> QED
        BY <2>3, <4>1, ThreadTo DEF CompactNext, compactVars, threadVars
    <3> DEFINE r == compaction[c]
    <3>2. CutSound(c) /\ r.offload = "saved"
      BY <1>0, <3>1 DEF Save, MaySave, Compacting, Idle
    <3>3. event'[t] = [cutoff |-> StateCutoff(r.seen, r.cut), covers |-> r.seen.covers \cup TakenOut(r.seen, r.cut)]
      BY <3>1 DEF Save, CompactTypeOK
    <3>4. r.cut \in Nat \ {0} /\ r.seen \in Events /\ StateCutoff(r.seen, r.cut) <= length[t] /\ r.seen.covers = 1..r.seen.cutoff
      BY <3>1, <3>2, RecordTypes DEF Records, CutSound
    <3>5. StateCutoff(r.seen, r.cut) \in Nat
      BY <3>4 DEF StateCutoff, Events
    <3>6. StateCutoff(r.seen, r.cut) <= MaxMessages /\ StateCutoff(r.seen, r.cut) <= length'[t]
      BY <2>1, <3>4, <3>5
    <3>7. event'[t].covers = 1..event'[t].cutoff
      <4>1. r.seen.covers \cup TakenOut(r.seen, r.cut) = 1..StateCutoff(r.seen, r.cut)
        BY <3>4, <3>6, CutMath
      <4> QED
        BY <3>3, <4>1
    <3> QED
      BY <2>1, <3>1, <3>2, <3>3, <3>6, <3>7 DEF CutSound
  <2> QED
    BY <2>2, <2>3
<1> QED
  BY <1>1, <1>2 DEF CutsAreSound, CutSound, HistoryIsKept

-----------------------------------------------------------------------------
(***************************************************************************)
(* The policy.                                                             *)
(***************************************************************************)

\* What PolicyInHand says of one compaction.
HasOwn(c) ==
    /\ summaryPolicy = Own(c) /\ compaction[c].former = AutoPolicy /\ compaction[c].kept = Keep(Own(c))
    /\ Stage(c) # "started" => compaction[c].author = Own(c)

\* Who met another compaction is remembered.
LEMMA MetStays ==
    ASSUME [CompactNext]_compactVars, AutoPolicy \in met
    PROVE  AutoPolicy \in met'
<1> USE CompactFacts
<1>1. ASSUME NEW t \in Threads, Say(t) \/ AskModel(t) \/ Capture(t) PROVE AutoPolicy \in met'
  BY <1>1 DEF Say, AskModel, Capture
<1>2. ASSUME NEW c \in Compactions, CompactionStep(c) PROVE AutoPolicy \in met'
  BY <1>2 DEF CompactionStep, StartCompaction, Offload, Write, Overflow, Written, GiveUp, Save, Finish
<1>3. CASE UNCHANGED compactVars
  BY <1>3 DEF compactVars
<1> QED
  BY <1>1, <1>2, <1>3 DEF CompactNext

LEMMA PolicyInductive ==
    ASSUME CompactTypeOK, CutsAreSound, PolicyInHand, [CompactNext]_compactVars
    PROVE  PolicyInHand'
<1> SUFFICES ASSUME AutoPolicy \notin met'
             PROVE  /\ \A c, x \in Compactions : Compacting(c)' /\ Compacting(x)' /\ c \in Forced => c = x
                    /\ \A c \in Compactions : Compacting(c)' => HasOwn(c)'
                    /\ (\A c \in Forced : ~Compacting(c)') => summaryPolicy' = AutoPolicy
  BY DEF PolicyInHand, HasOwn
<1> DEFINE Goal == /\ \A c, x \in Compactions : Compacting(c)' /\ Compacting(x)' /\ c \in Forced => c = x
                   /\ \A c \in Compactions : Compacting(c)' => HasOwn(c)'
                   /\ (\A c \in Forced : ~Compacting(c)') => summaryPolicy' = AutoPolicy
<1> USE CompactFacts
<1>0. AutoPolicy \notin met
  BY MetStays
<1>1. /\ \A c, x \in Compactions : Compacting(c) /\ Compacting(x) /\ c \in Forced => c = x
      /\ \A c \in Compactions : Compacting(c) => HasOwn(c)
      /\ (\A c \in Forced : ~Compacting(c)) => summaryPolicy = AutoPolicy
  BY <1>0 DEF PolicyInHand, HasOwn
<1>2. ASSUME compaction' = compaction, summaryPolicy' = summaryPolicy PROVE Goal
  BY <1>1, <1>2 DEF HasOwn, Compacting, Stage
<1>3. ASSUME NEW t \in Threads, Say(t) \/ AskModel(t) \/ Capture(t) PROVE Goal
  BY <1>2, <1>3, ThreadTo DEF helperVars
<1>4. ASSUME NEW c \in Compactions, CompactionStep(c) PROVE Goal
  <2>1. \A x \in Compactions \ {c} : compaction'[x] = compaction[x]
    BY <1>4, StartTo, GoesOnTo, EndsTo DEF StepTo, CompactionStep
  <2>2. \A x \in Compactions \ {c} : Stage(x)' = Stage(x) /\ Compacting(x)' = Compacting(x)
    BY <2>1 DEF Stage, Compacting
  <2>3. CASE StartCompaction(c)
    <3>1. /\ Stage(c)' = "started" /\ compaction'[c].former = summaryPolicy
          /\ compaction'[c].kept = Keep(IF c \in Forced THEN c ELSE summaryPolicy)
          /\ summaryPolicy' = IF c \in Forced THEN c ELSE summaryPolicy
      BY <2>3, StartTo
    <3>2. \A x \in Compactions : Compacting(x) => c \notin Forced /\ x \notin Forced
      BY <2>3 DEF StartCompaction
    <3>3. summaryPolicy = AutoPolicy
      BY <1>1, <3>2
    <3>4. Compacting(c)' /\ HasOwn(c)' /\ summaryPolicy' = Own(c)
      BY <3>1, <3>3 DEF HasOwn, Own, Compacting, Idle
    <3>5. ASSUME NEW x \in Compactions \ {c}, Compacting(x) PROVE HasOwn(x)'
      <4>1. summaryPolicy' = Own(x) /\ HasOwn(x)
        BY <1>1, <3>1, <3>2, <3>5 DEF HasOwn
      <4> QED
        BY <2>1, <2>2, <4>1 DEF HasOwn
    <3> QED
      BY <2>2, <3>2, <3>3, <3>4, <3>5 DEF Own
  <2>4. CASE Offload(c) \/ Write(c) \/ Overflow(c) \/ Written(c) \/ (Save(c) /\ c \in Forced)
    <3>1. /\ Compacting(c) /\ Compacting(c)' /\ summaryPolicy' = summaryPolicy
          /\ compaction'[c].former = compaction[c].former /\ compaction'[c].kept = compaction[c].kept
      BY <2>4, GoesOnTo DEF Offload, Write, Overflow, Written, Save, helperVars
    <3>2. HasOwn(c)
      BY <1>1, <3>1
    <3>3. Stage(c)' # "started" => compaction'[c].author = Own(c)
      <4>1. CASE Write(c)
        <5>1. compaction'[c].author = summaryPolicy
          BY <4>1, RecordTypes DEF Write, Sets, CompactTypeOK, Records
        <5> QED
          BY <3>2, <5>1 DEF HasOwn
      <4>2. CASE ~Write(c)
        BY <2>4, <3>2, <4>2, GoesOnTo DEF HasOwn
      <4> QED
        BY <4>1, <4>2
    <3>4. HasOwn(c)'
      BY <3>1, <3>2, <3>3 DEF HasOwn
    <3>5. ASSUME NEW x \in Compactions \ {c}, Compacting(x) PROVE HasOwn(x)'
      BY <1>1, <2>1, <2>2, <3>1, <3>5 DEF HasOwn
    <3> QED
      BY <1>1, <2>2, <3>1, <3>4, <3>5
  <2>5. CASE GiveUp(c) \/ Finish(c) \/ (Save(c) /\ c \notin Forced)
    <3>1. Compacting(c) /\ ~Compacting(c)'
      BY <2>5, EndsTo DEF Compacting
    <3>2. summaryPolicy' = IF c \in Forced THEN AutoPolicy ELSE summaryPolicy
      BY <1>1, <2>5, <3>1 DEF GiveUp, Finish, Save, LeftPolicy, HasOwn, helperVars
    <3>3. CASE c \in Forced
      BY <1>1, <2>2, <3>1, <3>2, <3>3
    <3>4. CASE c \notin Forced
      <4>1. ASSUME NEW x \in Compactions \ {c}, Compacting(x) PROVE HasOwn(x)'
        BY <1>1, <2>1, <2>2, <3>2, <3>4, <4>1 DEF HasOwn
      <4> QED
        BY <1>1, <2>2, <3>1, <3>2, <3>4, <4>1
    <3> QED
      BY <3>3, <3>4
  <2> QED
    BY <1>4, <2>3, <2>4, <2>5 DEF CompactionStep
<1>5. CASE UNCHANGED compactVars
  BY <1>2, <1>5 DEF compactVars, helperVars
<1> QED
  BY <1>3, <1>4, <1>5 DEF CompactNext

-----------------------------------------------------------------------------
(***************************************************************************)
(* The ring.                                                               *)
(***************************************************************************)

Now(t) == Effective(length[t], event[t])

\* What NoneMet and RingFollows say of one conversation.
RingOf(t) ==
    /\ \A c, x \in Others(t) : c = x
    /\ \A c \in Others(t) : Stage(c) # "stored" => compaction[c].seen = event[t]
    /\ asking[t] # 0 => asking[t] + unseen[t] = Now(t) /\ \A c \in Others(t) : Stage(c) # "stored"
    /\ ring[t] # 0 /\ asking[t] = 0 =>
          /\ \A c \in Others(t) : Stage(c) = "stored" => ring[t] + unseen[t] = Now(t) + Removed(c)
          /\ (\A c \in Others(t) : Stage(c) # "stored") => ring[t] + unseen[t] = Now(t)

\* A step of another conversation.
LEMMA RingFrame ==
    ASSUME NEW t \in Threads, RingOf(t), length'[t] = length[t], event'[t] = event[t], asking'[t] = asking[t],
           ring'[t] = ring[t], unseen'[t] = unseen[t],
           \A c \in Compactions : ThreadOf[c] = t => compaction'[c] = compaction[c]
    PROVE  RingOf(t)'
<1>1. \A c \in Compactions : ThreadOf[c] = t =>
        Stage(c)' = Stage(c) /\ Removed(c)' = Removed(c) /\ Compacting(c)' = Compacting(c)
  BY DEF Stage, Removed, Compacting
<1>2. Others(t)' = Others(t)
  BY <1>1 DEF Others
<1>3. Now(t)' = Now(t)
  BY DEF Now
<1>4. \A c \in Others(t) : c \in Compactions /\ ThreadOf[c] = t
  BY DEF Others
<1> QED
  BY <1>1, <1>2, <1>3, <1>4 DEF RingOf

LEMMA ThreadRing ==
    ASSUME CompactTypeOK, CompactTypeOK', CutsAreSound, NEW t \in Threads, t \notin met => RingOf(t),
           Say(t) \/ AskModel(t) \/ Capture(t), t \notin met'
    PROVE  RingOf(t)'
<1>1. UNCHANGED <<compaction, event>>
  BY ThreadTo
<1>2. \A c : Stage(c)' = Stage(c) /\ Removed(c)' = Removed(c) /\ Compacting(c)' = Compacting(c)
  BY <1>1 DEF Stage, Removed, Compacting
<1>3. Others(t)' = Others(t)
  BY <1>2 DEF Others
<1>4. length[t] \in Nat /\ event[t] \in Events /\ event[t].cutoff <= length[t]
  BY CompactFacts DEF CompactTypeOK, CutsAreSound, Events
<1>5. /\ Now(t) \in Nat /\ Effective(length[t] + 1, event[t]) = Now(t) + 1
      /\ length[t] > 0 => Now(t) # 0
  BY <1>4, EffectiveIsNat DEF Now
<1>6. asking[t] \in Nat /\ ring[t] \in Nat /\ unseen[t] \in Nat
  BY DEF CompactTypeOK
<1>7. CASE Say(t)
  <2>1. /\ RingOf(t) /\ UNCHANGED <<asking, ring>> /\ unseen'[t] = unseen[t] + 1
        /\ Now(t)' = Now(t) + 1
    BY <1>1, <1>5, <1>7 DEF Say, CompactTypeOK, Now
  <2>2. asking[t] + unseen[t] = Now(t) => asking'[t] + unseen'[t] = Now(t)'
    BY <1>5, <1>6, <2>1
  <2>3. ring[t] + unseen[t] = Now(t) => ring'[t] + unseen'[t] = Now(t)'
    BY <1>5, <1>6, <2>1
  <2>4. ASSUME NEW c \in Others(t), ring[t] + unseen[t] = Now(t) + Removed(c)
        PROVE  ring'[t] + unseen'[t] = Now(t)' + Removed(c)
    <3>1. compaction[c].cut \in Nat
      BY RecordTypes DEF Others, Records
    <3> QED
      BY <1>5, <1>6, <2>1, <2>4, <3>1 DEF Removed
  <2> QED
    BY <1>1, <1>2, <1>3, <2>1, <2>2, <2>3, <2>4 DEF RingOf
<1>8. CASE AskModel(t)
  <2>1. asking'[t] = Now(t) /\ unseen'[t] = 0 /\ Now(t)' = Now(t) /\ Now(t) # 0 /\ UNCHANGED ring
    BY <1>1, <1>4, <1>5, <1>8 DEF AskModel, CompactTypeOK, Now, threadVars
  <2>2. \/ Others(t) = {}
        \/ RingOf(t) /\ \A c \in Others(t) : Stage(c) # "stored"
    BY <1>8 DEF AskModel
  <2> QED
    BY <1>1, <1>2, <1>3, <1>5, <2>1, <2>2 DEF RingOf
<1>9. CASE Capture(t)
  <2>1. RingOf(t) /\ asking[t] # 0 /\ asking'[t] = 0 /\ ring'[t] = asking[t] /\ UNCHANGED unseen /\ Now(t)' = Now(t)
    BY <1>1, <1>9 DEF Capture, CompactTypeOK, Now, threadVars
  <2> QED
    BY <1>1, <1>2, <1>3, <2>1 DEF RingOf
<1> QED
  BY <1>7, <1>8, <1>9

LEMMA CompactionRing ==
    ASSUME CompactTypeOK, CompactTypeOK', CutsAreSound, NEW c \in Compactions, CompactionStep(c),
           ThreadOf[c] \notin met => RingOf(ThreadOf[c]), ThreadOf[c] \notin met'
    PROVE  RingOf(ThreadOf[c])'
<1> DEFINE t == ThreadOf[c]
<1>0. t \in Threads /\ t \notin met
  BY CompactFacts DEF CompactionStep, StartCompaction, Offload, Write, Overflow, Written, GiveUp, Save, Finish
<1>1. RingOf(t)
  BY <1>0
<1>2. length[t] \in Nat /\ event[t] \in Events /\ event[t].cutoff <= length[t]
  BY <1>0, CompactFacts DEF CompactTypeOK, CutsAreSound, Events
<1>3. Now(t) \in Nat
  BY <1>2, EffectiveIsNat DEF Now
<1>4. asking[t] \in Nat /\ ring[t] \in Nat /\ unseen[t] \in Nat
  BY <1>0 DEF CompactTypeOK
<1>5. \A x \in Compactions \ {c} : compaction'[x] = compaction[x]
  BY StartTo, GoesOnTo, EndsTo DEF StepTo, CompactionStep
<1>6. \A x \in Compactions \ {c} :
        Stage(x)' = Stage(x) /\ Removed(x)' = Removed(x) /\ Compacting(x)' = Compacting(x)
  BY <1>5 DEF Stage, Removed, Compacting
<1>7. \A x \in Others(t) : x \in Compactions /\ ThreadOf[x] = t /\ Compacting(x)
  BY DEF Others
<1>8. \A x \in Others(t)' : x \in Compactions /\ ThreadOf[x] = t /\ Compacting(x)'
  BY DEF Others
<1>9. CASE StartCompaction(c)
  <2>1. Others(t) = {} /\ UNCHANGED <<length, event, asking, ring, unseen>>
    BY <1>9 DEF StartCompaction, threadVars, ringVars
  <2>2. Stage(c)' = "started" /\ compaction'[c].seen = event[t]
    BY <1>9, StartTo
  <2>3. Others(t)' \subseteq {c} /\ Now(t)' = Now(t)
    BY <1>6, <1>8, <2>1 DEF Others, Now
  <2> QED
    BY <1>1, <2>1, <2>2, <2>3 DEF RingOf
<1>10. CASE Offload(c) \/ Write(c) \/ Overflow(c) \/ Written(c)
  <2>1. UNCHANGED <<length, event, asking, ring, unseen>>
    BY <1>10 DEF Offload, Write, Overflow, Written, threadVars, ringVars
  <2>2. /\ Compacting(c) /\ Compacting(c)' /\ compaction'[c].seen = compaction[c].seen
        /\ compaction'[c].cut = compaction[c].cut
        /\ Stage(c)' = "stored" => Stage(c) = "stored" \/ Save(c)
        /\ Stage(c) = "stored" => Stage(c)' = "stored"
    BY <1>10, GoesOnTo
  <2>3. Stage(c)' = "stored" => Stage(c) = "stored"
    <3>1. CASE Offload(c)
      <4>1. Stage(c)' = Stage(c)
        BY <3>1, RecordTypes DEF Offload, Sets, Stage, CompactTypeOK, Records
      <4> QED
        BY <4>1
    <3>2. CASE Write(c) \/ Overflow(c) \/ Written(c)
      <4>1. compaction[c] \in Records
        BY RecordTypes
      <4>2. CASE Write(c)
        BY <4>1, <4>2 DEF Write, Sets, Stage, CompactTypeOK, Records
      <4>3. CASE Overflow(c)
        BY <4>1, <4>3 DEF Overflow, Sets, Stage, CompactTypeOK, Records
      <4>4. CASE Written(c)
        BY <4>1, <4>4 DEF Written, Sets, Stage, CompactTypeOK, Records
      <4> QED
        BY <3>2, <4>2, <4>3, <4>4
    <3> QED
      BY <1>10, <3>1, <3>2
  <2>4. Others(t)' = Others(t) /\ Now(t)' = Now(t)
    BY <1>6, <2>1, <2>2 DEF Others, Now
  <2>5. \A x \in Others(t) : /\ Stage(x)' = "stored" <=> Stage(x) = "stored"
                             /\ compaction'[x].seen = compaction[x].seen /\ Removed(x)' = Removed(x)
    BY <1>5, <1>6, <1>7, <2>2, <2>3 DEF Removed
  <2> QED
    BY <1>1, <2>1, <2>4, <2>5 DEF RingOf
<1>11. CASE GiveUp(c) \/ Finish(c) \/ (Save(c) /\ c \notin Forced)
  <2>1. ~Save(c) \/ c \in Forced
    BY CompactFacts, <1>0 DEF Save, Compactions
  <2>2. CASE GiveUp(c) \/ Finish(c)
    <3>1. Compacting(c) /\ ~Compacting(c)'
      BY <2>2, EndsTo DEF Compacting
    <3>2. c \in Others(t) /\ Others(t)' = {}
      BY <1>1, <1>6, <1>8, <3>1 DEF Others, RingOf
    <3>3. UNCHANGED <<length, event, asking, unseen>> /\ Now(t)' = Now(t)
      BY <2>2 DEF GiveUp, Finish, threadVars, ringVars, Now
    <3>4. CASE GiveUp(c)
      <4>1. Stage(c) # "stored" /\ UNCHANGED ring
        BY <1>0, <3>4 DEF GiveUp, ringVars
      <4>2. \A x \in Others(t) : Stage(x) # "stored"
        BY <1>1, <3>2, <4>1 DEF RingOf
      <4> QED
        BY <1>1, <3>2, <3>3, <4>1, <4>2 DEF RingOf
    <3>5. CASE Finish(c)
      <4>1. Stage(c) = "stored" /\ ring'[t] = Shrunk(ring[t], Removed(c))
        BY <1>0, <3>5 DEF Finish, CompactTypeOK
      <4>2. asking[t] = 0
        BY <1>1, <3>2, <4>1 DEF RingOf
      <4>3. compaction[c].cut \in Nat /\ compaction[c].cut > 0
        BY <3>1, RecordTypes DEF Records, CutsAreSound
      <4>4. ring'[t] # 0 => ring[t] # 0 /\ ring'[t] = ring[t] - Removed(c)
        BY <1>4, <4>1, <4>3 DEF Shrunk, Removed
      <4>5. ring[t] # 0 => ring[t] + unseen[t] = Now(t) + Removed(c)
        BY <1>1, <3>2, <4>1, <4>2 DEF RingOf
      <4>6. ring'[t] # 0 => ring'[t] + unseen'[t] = Now(t)'
        BY <1>3, <1>4, <3>3, <4>3, <4>4, <4>5 DEF Removed
      <4> QED
        BY <3>2, <3>3, <4>2, <4>6 DEF RingOf
    <3> QED
      BY <2>2, <3>4, <3>5
  <2> QED
    BY <1>11, <2>1, <2>2
<1>12. CASE Save(c) /\ c \in Forced
  <2>1. asking[t] = 0 /\ Stage(c) = "written" /\ UNCHANGED <<length, asking, ring, unseen>>
    BY <1>0, <1>12 DEF Save, ringVars
  <2>2. Stage(c)' = "stored" /\ compaction'[c].cut = compaction[c].cut /\ Compacting(c) /\ Compacting(c)'
    <3>1. compaction[c] \in Records
      BY RecordTypes
    <3>2. Stage(c)' = "stored"
      BY <1>12, <3>1 DEF Save, Sets, Stage, CompactTypeOK, Records
    <3> QED
      BY <1>12, <3>2, GoesOnTo
  <2>3. Others(t) = {c} /\ Others(t)' = {c}
    BY <1>1, <1>6, <2>2 DEF RingOf, Others
  <2>4. compaction[c].seen = event[t]
    BY <1>1, <2>1, <2>3 DEF RingOf
  <2>5. /\ compaction[c].cut \in Nat \ {0} /\ event[t].covers = 1..event[t].cutoff
        /\ StateCutoff(event[t], compaction[c].cut) <= length[t]
    BY <2>2, <2>4, RecordTypes DEF Records, CutsAreSound
  <2>6. StateCutoff(event[t], compaction[c].cut) <= MaxMessages
    <3>1. length[t] \in 0..MaxMessages
      BY <1>0 DEF CompactTypeOK
    <3>2. StateCutoff(event[t], compaction[c].cut) \in Nat
      BY <1>2, <2>5 DEF StateCutoff, Events
    <3> QED
      BY <2>5, <3>1, <3>2, CompactFacts
  <2>7. event'[t] \in Events /\ event'[t].cutoff = StateCutoff(event[t], compaction[c].cut)
    BY <1>0, <1>12, <2>4 DEF Save, CompactTypeOK, Events
  <2>8. Effective(length[t], event[t]) = Effective(length[t], event'[t]) + (compaction[c].cut - 1)
    BY <1>2, <2>5, <2>6, <2>7, CutMath
  <2>9. Now(t) = Now(t)' + Removed(c)'
    BY <2>1, <2>2, <2>8 DEF Now, Removed
  <2>10. ring[t] # 0 => ring[t] + unseen[t] = Now(t)
    BY <1>1, <2>1, <2>3 DEF RingOf
  <2> QED
    BY <2>1, <2>2, <2>3, <2>9, <2>10 DEF RingOf
<1> QED
  BY <1>9, <1>10, <1>11, <1>12 DEF CompactionStep

LEMMA RingInductive ==
    ASSUME CompactTypeOK, CompactTypeOK', CutsAreSound, NoneMet, RingFollows, [CompactNext]_compactVars
    PROVE  NoneMet' /\ RingFollows'
<1> USE CompactFacts
<1>1. \A t \in Threads \ met : RingOf(t)
  BY DEF NoneMet, RingFollows, RingOf, Now
<1>2. ASSUME NEW t \in Threads \ met' PROVE RingOf(t)'
  <2>1. ASSUME NEW u \in Threads, Say(u) \/ AskModel(u) \/ Capture(u) PROVE RingOf(t)'
    <3>1. CASE u = t
      BY <1>1, <1>2, <2>1, <3>1, ThreadRing
    <3>2. CASE u # t
      <4>1. /\ length'[t] = length[t] /\ asking'[t] = asking[t] /\ ring'[t] = ring[t] /\ unseen'[t] = unseen[t]
            /\ UNCHANGED <<compaction, event>>
        BY <2>1, <3>2, ThreadTo DEF Say, AskModel, Capture, CompactTypeOK, threadVars
      <4>2. t \notin met
        BY <1>2, <2>1, <3>2 DEF Say, AskModel, Capture
      <4> QED
        BY <1>1, <4>1, <4>2, RingFrame
    <3> QED
      BY <3>1, <3>2
  <2>2. ASSUME NEW c \in Compactions, CompactionStep(c) PROVE RingOf(t)'
    <3>1. CASE ThreadOf[c] = t
      BY <1>1, <1>2, <2>2, <3>1, CompactionRing
    <3>2. CASE ThreadOf[c] # t
      <4>1. \A x \in Compactions : ThreadOf[x] = t => compaction'[x] = compaction[x]
        BY <2>2, <3>2, StartTo, GoesOnTo, EndsTo DEF StepTo, CompactionStep
      <4>2. length'[t] = length[t] /\ event'[t] = event[t]
        BY <2>2, <3>2 DEF CompactionStep, StartCompaction, Offload, Write, Overflow, Written, GiveUp, Save, Finish,
                          threadVars, CompactTypeOK
      <4>3. asking'[t] = asking[t] /\ ring'[t] = ring[t] /\ unseen'[t] = unseen[t]
        BY <2>2, <3>2 DEF CompactionStep, StartCompaction, Offload, Write, Overflow, Written, GiveUp, Save, Finish,
                          ringVars, CompactTypeOK
      <4>4. t \notin met
        BY <1>2, <2>2 DEF CompactionStep, StartCompaction, Offload, Write, Overflow, Written, GiveUp, Save, Finish
      <4> QED
        BY <1>1, <4>1, <4>2, <4>3, <4>4, RingFrame
    <3> QED
      BY <3>1, <3>2
  <2>3. CASE UNCHANGED compactVars
    BY <1>1, <1>2, <2>3, RingFrame DEF compactVars, threadVars, ringVars
  <2> QED
    BY <2>1, <2>2, <2>3 DEF CompactNext
<1> QED
  BY <1>2 DEF NoneMet, RingFollows, RingOf, Now

-----------------------------------------------------------------------------
(***************************************************************************)
(* The theorems.                                                           *)
(***************************************************************************)

LEMMA CompactInvariance == CompactSpec => [](CompactTypeOK /\ CompactInv)
<1> USE CompactFacts
<1>1. CompactInit => CompactTypeOK /\ CompactInv
  <2> SUFFICES ASSUME CompactInit PROVE CompactTypeOK /\ CompactInv
    OBVIOUS
  <2>1. CompactTypeOK
    BY NewRecord, CompactionAssumption
    DEF CompactInit, CompactTypeOK, Records, Stages, Policies, Events
  <2>2. \A c \in Compactions : Stage(c) = Idle /\ ~Compacting(c)
    BY DEF CompactInit, Stage, Compacting, NewCompaction
  <2>3. \A t \in Threads : Others(t) = {}
    BY <2>2 DEF Others
  <2>4. CutsAreSound /\ HistoryIsKept
    <3>1. \A t \in Threads : event[t] = NoEvent /\ archive[t] = {} /\ length[t] \in Nat
      BY <2>1 DEF CompactInit, CompactTypeOK
    <3>2. NoEvent.cutoff = 0 /\ NoEvent.covers = {}
      BY DEF NoEvent
    <3>3. {} = 1..0
      OBVIOUS
    <3>4. \A t \in Threads : event[t].cutoff <= length[t]
      BY <3>1, <3>2
    <3>5. CutsAreSound
      BY <2>2, <3>4 DEF CutsAreSound
    <3>6. HistoryIsKept
      BY <3>1, <3>2, <3>3 DEF HistoryIsKept
    <3> QED
      BY <3>5, <3>6
  <2>5. SummaryInTurn
    BY <2>2 DEF SummaryInTurn, CompactInit, Idle
  <2>6. PolicyInHand
    BY <2>2 DEF PolicyInHand, CompactInit
  <2>7. NoneMet /\ RingFollows
    BY <2>3 DEF NoneMet, RingFollows, CompactInit
  <2> QED
    BY <2>1, <2>4, <2>5, <2>6, <2>7 DEF CompactInv
<1>2. CompactTypeOK /\ CompactInv /\ [CompactNext]_compactVars => CompactTypeOK' /\ CompactInv'
  <2> SUFFICES ASSUME CompactTypeOK, CompactInv, [CompactNext]_compactVars
               PROVE  CompactTypeOK' /\ CompactInv'
    OBVIOUS
  <2>1. CompactTypeOK'
    BY CompactTypes DEF CompactInv
  <2> QED
    BY <2>1, SummaryTurns, CutsInductive, PolicyInductive, RingInductive DEF CompactInv
<1> QED
  BY <1>1, <1>2, PTL DEF CompactSpec

\* The conversations, their events, histories and compactions keep their
\* types: force_compact_thread never cuts more than there can be.
THEOREM CompactTypeCorrect == CompactSpec => []CompactTypeOK
BY CompactInvariance, PTL

\* What a conversation no longer shows, its summary stands for and its history
\* file has, however its compactions overlap.
THEOREM CompactionKeepsHistory == CompactSpec => []HistoryIsKept
BY CompactInvariance, PTL DEF CompactInv

\* The middleware has its policy and its window back when /compact is over,
\* and every compaction had its own, unless /compact met another compaction.
THEOREM CompactionReturnsPolicy == CompactSpec => []PolicyIsReturned
<1>1. CompactTypeOK /\ CompactInv => PolicyIsReturned
  <2> SUFFICES ASSUME CompactTypeOK, CompactInv PROVE PolicyIsReturned
    OBVIOUS
  <2>1. \A c \in Compactions : Stage(c) = "written" => Compacting(c) /\ Stage(c) # "started"
    BY DEF Compacting, Idle
  <2> QED
    BY <2>1, CompactFacts DEF CompactInv, SummaryInTurn, PolicyInHand, PolicyIsReturned, Own
<1> QED
  BY <1>1, CompactInvariance, PTL

\* The context usage shown follows the conversation, also after /compact, until
\* a compaction meets another or a request.
THEOREM CompactionRingFollows == CompactSpec => []RingFollows
BY CompactInvariance, PTL DEF CompactInv

\* Whatever compactions, requests and appends do to each other, no message is
\* lost, the policy comes back and the context usage is true, with the
\* exceptions that the three parts state.
THEOREM CompactionHolds == CompactSpec => []CompactionKeeps
BY CompactionKeepsHistory, CompactionReturnsPolicy, CompactionRingFollows, PTL DEF CompactionKeeps
=============================================================================
