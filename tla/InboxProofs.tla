---------------------------- MODULE InboxProofs ----------------------------
(***************************************************************************)
(* Theorems about Inbox, for any number of messages, agents, threads and   *)
(* slots.                                                                  *)
(***************************************************************************)
EXTENDS Inbox, FiniteSetTheorems, TLAPS

USE InboxAssumption

-----------------------------------------------------------------------------
(***************************************************************************)
(* Type correctness.                                                       *)
(***************************************************************************)

LEMMA LockForType ==
    ASSUME NEW L \in LockTable, NEW t \in Msgs, NEW k \in LockKeys
    PROVE  LockFor(L, t, k) \in LockTable
BY DEF LockFor, LockTable, Locks

LEMMA HeldKey ==
    ASSUME NEW L \in LockTable, NEW t \in Msgs, L.held[t] # Nothing
    PROVE  L.held[t] \in Locks /\ L.held[t][1] \in LockKeys
BY DEF LockTable, Locks

LEMMA ReleaseLockType ==
    ASSUME NEW L \in LockTable, NEW t \in Msgs
    PROVE  ReleaseLock(L, t) \in LockTable
<1>1. CASE L.held[t] = Nothing
  BY <1>1 DEF ReleaseLock
<1>2. CASE L.held[t] # Nothing
  <2> DEFINE k == L.held[t][1]
             left == L.refs[k] - 1
             bucket == IF left <= 0 /\ L.bucket[k] = L.held[t]
                       THEN [L.bucket EXCEPT ![k] = Nothing] ELSE L.bucket
             refs == [L.refs EXCEPT ![k] = IF left <= 0 THEN 0 ELSE left]
             held == [L.held EXCEPT ![t] = Nothing]
             ahead == [u \in Msgs |-> IF u = t THEN {} ELSE L.ahead[u] \ {t}]
  <2>1. k \in LockKeys
    BY <1>2, HeldKey
  <2>2. bucket \in [LockKeys -> Locks \cup {Nothing}]
    BY <2>1 DEF LockTable
  <2>3. refs \in [LockKeys -> Nat]
    BY <2>1 DEF LockTable
  <2>4. held \in [Msgs -> Locks \cup {Nothing}]
    BY DEF LockTable
  <2>5. ahead \in [Msgs -> SUBSET Msgs]
    BY DEF LockTable
  <2>6. ReleaseLock(L, t) = [bucket |-> bucket, refs |-> refs, held |-> held, ahead |-> ahead]
    BY <1>2 DEF ReleaseLock
  <2> QED
    BY <2>2, <2>3, <2>4, <2>5, <2>6 DEF LockTable
<1> QED
  BY <1>1, <1>2

LEMMA JobKeys ==
    ASSUME InboxTypeOK, NEW t \in Msgs
    PROVE  TargetKey(t) \in LockKeys /\ SourceKey(t) \in LockKeys
BY DEF InboxTypeOK, TargetKey, SourceKey, LockKeys

LEMMA LeaveType ==
    ASSUME InboxTypeOK, NEW t \in Msgs, NEW L \in LockTable, LeaveJob(t, L)
    PROVE  /\ pc' \in [Msgs -> JobPCs]
           /\ locks' \in LockTable
           /\ tasks' \in [JobIds -> Msgs \cup {Nothing}]
           /\ slotAhead' \in [Msgs -> SUBSET Msgs]
BY ReleaseLockType DEF InboxTypeOK, LeaveJob, GiveUpSlot, JobPCs

LEMMA AnnounceType ==
    ASSUME InboxTypeOK, NEW t \in Msgs, NEW L \in LockTable, NEW st \in Terminal,
           Announce(t, st, L)
    PROVE  /\ pc' \in [Msgs -> JobPCs]
           /\ locks' \in LockTable
           /\ tasks' \in [JobIds -> Msgs \cup {Nothing}]
           /\ slotAhead' \in [Msgs -> SUBSET Msgs]
           /\ status' \in [Msgs -> Status]
           /\ answers' \in [Msgs -> Seq(Terminal)]
<1>1. job[t] \in Msgs
  BY DEF InboxTypeOK
<1>2. status' \in [Msgs -> Status]
  BY <1>1 DEF InboxTypeOK, Announce, Status
<1>3. answers' \in [Msgs -> Seq(Terminal)]
  BY <1>1 DEF InboxTypeOK, Announce
<1> QED
  BY <1>2, <1>3 DEF InboxTypeOK, Announce, JobPCs

LEMMA FinishType ==
    ASSUME InboxTypeOK, NEW t \in Msgs, NEW L \in LockTable, NEW st \in Terminal,
           Finish(t, st, L)
    PROVE  /\ pc' \in [Msgs -> JobPCs]
           /\ locks' \in LockTable
           /\ tasks' \in [JobIds -> Msgs \cup {Nothing}]
           /\ slotAhead' \in [Msgs -> SUBSET Msgs]
           /\ status' \in [Msgs -> Status]
           /\ answers' \in [Msgs -> Seq(Terminal)]
BY LeaveType, AnnounceType DEF Finish, InboxTypeOK

LEMMA EnqueueType ==
    ASSUME InboxTypeOK, NEW m \in Msgs, Enqueue(m)
    PROVE  InboxTypeOK'
<1>1. JobIdOf[m] \in JobIds
  OBVIOUS
<1>2. worker' \in Msgs \cup {Nothing} /\ live' \in SUBSET Msgs
  BY DEF Enqueue, StartWorker, InboxTypeOK
<1>3. queue' \in Seq(Msgs \cup {Poison})
  BY DEF Enqueue, InboxTypeOK
<1> QED
  BY <1>1, <1>2, <1>3 DEF Enqueue, InboxTypeOK, Status, jobVars, hostVars

LEMMA CancelType ==
    ASSUME InboxTypeOK, NEW i \in JobIds, Cancel(i)
    PROVE  InboxTypeOK'
<1>1. box[i] \in Msgs
  BY DEF InboxTypeOK, Cancel
<1>2. status' \in [Msgs -> Status] /\ withdrawn' \in SUBSET Msgs
  BY <1>1 DEF InboxTypeOK, Cancel, Status, Terminal
<1> QED
  BY <1>2 DEF Cancel, InboxTypeOK, jobVars, hostVars

LEMMA DispatchType ==
    ASSUME InboxTypeOK, NEW w \in Msgs, Dispatch(w)
    PROVE  InboxTypeOK'
<1> DEFINE m == Head(queue)
<1>1. queue' \in Seq(Msgs \cup {Poison}) /\ m \in Msgs \cup {Poison}
  BY DEF InboxTypeOK, Dispatch
<1>2. UNCHANGED <<box, status, worker, killed, outcome, interrupted, locks, hostVars,
                  answers, withdrawn>>
  BY DEF Dispatch
<1>3. CASE UNCHANGED <<tasks, pc, job, slotAhead>> /\ live' \in SUBSET live
  BY <1>1, <1>2, <1>3 DEF InboxTypeOK, hostVars
<1>4. CASE /\ m # Poison
           /\ box[JobIdOf[m]] # Nothing
           /\ job' = [job EXCEPT ![m] = box[JobIdOf[m]]]
           /\ pc' = [pc EXCEPT ![m] = "waitSlot"]
           /\ tasks' = [tasks EXCEPT ![JobIdOf[m]] = m]
           /\ slotAhead' = [slotAhead EXCEPT ![m] = AtSemaphore]
           /\ UNCHANGED live
  <2> HIDE DEF m
  <2>1. m \in Msgs /\ JobIdOf[m] \in JobIds /\ box[JobIdOf[m]] \in Msgs
    BY <1>1, <1>4 DEF InboxTypeOK
  <2>2. /\ job' \in [Msgs -> Msgs]
        /\ pc' \in [Msgs -> JobPCs]
        /\ tasks' \in [JobIds -> Msgs \cup {Nothing}]
    BY <1>4, <2>1 DEF InboxTypeOK, JobPCs
  <2>3. slotAhead' \in [Msgs -> SUBSET Msgs]
    BY <1>4, <2>1 DEF InboxTypeOK, AtSemaphore
  <2> QED
    BY <1>1, <1>2, <1>4, <2>2, <2>3 DEF InboxTypeOK, hostVars
<1> QED
  BY <1>3, <1>4 DEF Dispatch

LEMMA JobStepType ==
    ASSUME InboxTypeOK, NEW t \in Msgs, JobStep(t)
    PROVE  InboxTypeOK'
<1> DEFINE Kept == /\ pc' \in [Msgs -> JobPCs]
                   /\ locks' \in LockTable
                   /\ tasks' \in [JobIds -> Msgs \cup {Nothing}]
                   /\ slotAhead' \in [Msgs -> SUBSET Msgs]
                   /\ status' \in [Msgs -> Status]
                   /\ answers' \in [Msgs -> Seq(Terminal)]
           Local == /\ outcome' \in [Msgs -> {"done", "failed"}]
                    /\ interrupted' \in SUBSET Msgs
                    /\ box' \in [JobIds -> Msgs \cup {Nothing}]
<1>1. /\ job[t] \in Msgs
      /\ locks \in LockTable
      /\ TargetKey(t) \in LockKeys
      /\ SourceKey(t) \in LockKeys
      /\ "cancelled" \in Terminal /\ "failed" \in Terminal /\ outcome[t] \in Terminal
      /\ ReleaseLock(locks, t) \in LockTable
  BY JobKeys, ReleaseLockType DEF InboxTypeOK, Terminal
<1>2. CASE Begin(t)
  <2>1. LockFor(locks, t, TargetKey(t)) \in LockTable
    BY <1>1, LockForType
  <2>2. Kept
    <3>1. CASE Finish(t, "cancelled", locks)
      BY <3>1, <1>1, FinishType
    <3>2. CASE /\ locks' = LockFor(locks, t, TargetKey(t))
               /\ pc' = [pc EXCEPT ![t] = "waitTarget"]
               /\ UNCHANGED <<status, answers, tasks, slotAhead>>
      BY <3>2, <2>1 DEF InboxTypeOK, JobPCs
    <3> QED BY <1>2, <3>1, <3>2 DEF Begin
  <2> QED
    BY <1>2, <2>2 DEF Begin, InboxTypeOK, JobStep, hostVars
<1>3. CASE CallTarget(t)
  <2>1. Kept
    <3>1. CASE Finish(t, "cancelled", locks)
      BY <3>1, <1>1, FinishType
    <3>2. CASE /\ status' = [status EXCEPT ![job[t]] = "running"]
               /\ pc' = [pc EXCEPT ![t] = "calling"]
               /\ UNCHANGED <<answers, tasks, slotAhead, locks>>
      BY <3>2, <1>1 DEF InboxTypeOK, JobPCs, Status
    <3> QED BY <1>3, <3>1, <3>2 DEF CallTarget
  <2> QED
    BY <1>3, <2>1 DEF CallTarget, InboxTypeOK, JobStep, hostVars
<1>4. CASE TargetReturns(t)
  <2>1. LockFor(ReleaseLock(locks, t), t, SourceKey(t)) \in LockTable
    BY <1>1, LockForType
  <2>2. Kept
    <3>1. CASE Finish(t, "cancelled", ReleaseLock(locks, t))
      BY <3>1, <1>1, FinishType
    <3>2. CASE /\ locks' = LockFor(ReleaseLock(locks, t), t, SourceKey(t))
               /\ pc' = [pc EXCEPT ![t] = "waitSource"]
               /\ UNCHANGED <<status, answers, tasks, slotAhead>>
      BY <3>2, <2>1 DEF InboxTypeOK, JobPCs
    <3> QED BY <1>4, <3>1, <3>2 DEF TargetReturns
  <2>3. Local
    BY <1>4 DEF TargetReturns, InboxTypeOK
  <2> QED
    BY <2>2, <2>3 DEF InboxTypeOK, JobStep, hostVars
<1>5. CASE CallSource(t)
  <2>1. Kept
    <3>1. CASE Finish(t, "cancelled", locks)
      BY <3>1, <1>1, FinishType
    <3>2. CASE Announce(t, "failed", ReleaseLock(locks, t))
      BY <3>2, <1>1, AnnounceType
    <3>3. CASE LeaveJob(t, locks) /\ status' = [status EXCEPT ![job[t]] = "replying"]
               /\ UNCHANGED answers
      BY <3>3, <1>1, LeaveType DEF InboxTypeOK, Status
    <3>4. CASE /\ status' = [status EXCEPT ![job[t]] = "replying"]
               /\ pc' = [pc EXCEPT ![t] = "replying"]
               /\ UNCHANGED <<answers, tasks, slotAhead, locks>>
      BY <3>4, <1>1 DEF InboxTypeOK, JobPCs, Status
    <3> QED BY <1>5, <3>1, <3>2, <3>3, <3>4 DEF CallSource
  <2> QED
    BY <1>5, <2>1 DEF CallSource, InboxTypeOK, JobStep, hostVars
<1>6. CASE SourceReturns(t)
  <2>1. Kept
    <3>1. \E st \in Terminal : Finish(t, st, locks)
      BY <1>6, <1>1 DEF SourceReturns
    <3> QED BY <3>1, <1>1, FinishType
  <2>2. Local
    BY <1>6 DEF SourceReturns, InboxTypeOK
  <2> QED
    BY <2>1, <2>2 DEF InboxTypeOK, JobStep, hostVars
<1>7. CASE OnReplyEnds(t)
  <2>1. Kept
    BY <1>7, <1>1, LeaveType DEF OnReplyEnds, InboxTypeOK
  <2>2. Local
    BY <1>7 DEF OnReplyEnds, Prune, InboxTypeOK
  <2> QED
    BY <2>1, <2>2 DEF InboxTypeOK, JobStep, hostVars
<1>8. CASE Interrupt(t)
  <2>1. Kept
    <3>1. CASE Announce(t, "failed", ReleaseLock(locks, t))
      BY <3>1, <1>1, AnnounceType
    <3>2. CASE LeaveJob(t, locks) /\ UNCHANGED <<status, answers>>
      BY <3>2, <1>1, LeaveType DEF InboxTypeOK
    <3>3. CASE /\ pc' = [pc EXCEPT ![t] = "ended"]
               /\ GiveUpSlot(t)
               /\ UNCHANGED <<status, answers, tasks, locks>>
      BY <3>3 DEF InboxTypeOK, JobPCs, GiveUpSlot
    <3> QED BY <1>8, <3>1, <3>2, <3>3 DEF Interrupt
  <2>2. Local
    BY <1>8 DEF Interrupt, InboxTypeOK
  <2> QED
    BY <2>1, <2>2 DEF InboxTypeOK, JobStep, hostVars
<1> QED
  BY <1>2, <1>3, <1>4, <1>5, <1>6, <1>7, <1>8 DEF JobStep

LEMMA CancelWorkerType ==
    ASSUME InboxTypeOK, CancelWorker
    PROVE  InboxTypeOK'
<1>1. Registered \in SUBSET Msgs
  BY DEF InboxTypeOK, Registered
<1>2. killed' \in SUBSET Msgs /\ live' \in SUBSET Msgs /\ interrupted' \in SUBSET Msgs
  BY <1>1 DEF InboxTypeOK, CancelWorker
<1>3. stops' \in 0..MaxStops
  BY DEF InboxTypeOK, CancelWorker
<1> QED
  BY <1>2, <1>3 DEF CancelWorker, InboxTypeOK

LEMMA CloserType ==
    ASSUME InboxTypeOK, NEW c \in Closers,
           Shutdown(c) \/ Join(c) \/ Gathered(c)
    PROVE  InboxTypeOK'
<1>1. Registered \in SUBSET Msgs /\ Accepted \in SUBSET Msgs
  BY DEF InboxTypeOK, Registered, Accepted
<1>2. queue \in Seq(Msgs \cup {Poison}) /\ Append(queue, Poison) \in Seq(Msgs \cup {Poison})
  BY DEF InboxTypeOK
<1>3. ShutdownFrame
  BY DEF Shutdown, Join, Gathered
<1>4. CASE Shutdown(c)
  BY <1>1, <1>2, <1>3, <1>4 DEF Shutdown, GatherOrReturn, ShutdownFrame, InboxTypeOK, jobVars
<1>5. CASE Join(c)
  BY <1>1, <1>3, <1>5 DEF Join, GatherOrReturn, ShutdownFrame, InboxTypeOK, jobVars
<1>6. CASE Gathered(c)
  BY <1>3, <1>6 DEF Gathered, ShutdownFrame, InboxTypeOK, jobVars
<1> QED
  BY <1>4, <1>5, <1>6

\* Every variable keeps its type; in particular only the three final
\* statuses are ever handed to on_reply.
THEOREM InboxTypeCorrect == InboxSpec => []InboxTypeOK
<1>1. InboxInit => InboxTypeOK
  BY DEF InboxInit, InboxTypeOK, Status, JobPCs, LockTable
<1>2. InboxTypeOK /\ [InboxNext]_inboxVars => InboxTypeOK'
  <2> SUFFICES ASSUME InboxTypeOK, [InboxNext]_inboxVars PROVE InboxTypeOK'
    OBVIOUS
  <2>1. ASSUME NEW m \in Msgs, Enqueue(m) PROVE InboxTypeOK'
    BY <2>1, EnqueueType
  <2>2. ASSUME NEW i \in JobIds, Cancel(i) PROVE InboxTypeOK'
    BY <2>2, CancelType
  <2>3. ASSUME NEW c \in Closers, Shutdown(c) \/ Join(c) \/ Gathered(c) PROVE InboxTypeOK'
    BY <2>3, CloserType
  <2>4. CASE CancelWorker
    BY <2>4, CancelWorkerType
  <2>5. ASSUME NEW w \in Msgs, Dispatch(w) PROVE InboxTypeOK'
    BY <2>5, DispatchType
  <2>6. ASSUME NEW t \in Msgs, JobStep(t) PROVE InboxTypeOK'
    BY <2>6, JobStepType
  <2>7. CASE UNCHANGED inboxVars
    BY <2>7 DEF inboxVars, jobVars, hostVars, InboxTypeOK
  <2> QED
    BY <2>1, <2>2, <2>3, <2>4, <2>5, <2>6, <2>7 DEF InboxNext, HostStep, LoopStep
<1> QED
  BY <1>1, <1>2, PTL DEF InboxSpec

-----------------------------------------------------------------------------
(***************************************************************************)
(* One outcome per message: the inbox implements PeerDelivery when job ids *)
(* are distinct.  A job step either announces an outcome or leaves the     *)
(* outcomes alone; JobEffect says so without naming the step.              *)
(***************************************************************************)

Announces(t, st) ==
    /\ st \in Terminal
    /\ pc[t] \notin {"none", "finishing", "ended"}
    /\ st = "cancelled" <=> status[t] = "cancelled"
    /\ status' = [status EXCEPT ![t] = st]
    /\ answers' = [answers EXCEPT ![t] = Append(@, st)]
    /\ pc' = [pc EXCEPT ![t] = "finishing"]

Advances(t, at) ==
    /\ at \in JobPCs \ {"none"}
    /\ pc[t] \notin {"none", "ended"}
    /\ pc[t] = "finishing" => at = "ended"
    /\ pc' = [pc EXCEPT ![t] = at]
    /\ UNCHANGED answers
    /\ \/ status' = status /\ at \notin {"calling", "replying"}
       \/ /\ pc[t] # "finishing"
          /\ status[t] # "cancelled"
          /\ \/ status' = [status EXCEPT ![t] = "running"]
             \/ status' = [status EXCEPT ![t] = "replying"]

Progresses(t) == (\E st \in Terminal : Announces(t, st)) \/ (\E at \in JobPCs : Advances(t, at))

JobEffect(t) ==
    /\ Progresses(t)
    /\ \A i \in JobIds : box'[i] \in {box[i], Nothing}
    /\ UNCHANGED <<queue, job, withdrawn>>

LEMMA AnnounceEffect ==
    ASSUME OwnMessage, NEW t \in Msgs, NEW L, NEW st \in Terminal,
           pc[t] \notin {"none", "finishing", "ended"},
           st = "cancelled" <=> Cancelled(t),
           Announce(t, st, L)
    PROVE  Progresses(t)
<1>1. job[t] = t
  BY DEF OwnMessage
<1>2. Announces(t, st)
  BY <1>1 DEF Announce, Announces, Cancelled
<1> QED
  BY <1>2 DEF Progresses

LEMMA LeaveEffect ==
    ASSUME NEW t \in Msgs, NEW L, LeaveJob(t, L),
           pc[t] \notin {"none", "ended"},
           UNCHANGED <<status, answers>>
    PROVE  Progresses(t)
<1>1. "ended" \in JobPCs
  BY DEF JobPCs
<1>2. Advances(t, "ended")
  BY <1>1 DEF LeaveJob, Advances
<1> QED
  BY <1>1, <1>2 DEF Progresses

LEMMA FinishEffect ==
    ASSUME OwnMessage, NEW t \in Msgs, NEW L, NEW st \in Terminal,
           pc[t] \notin {"none", "finishing", "ended"},
           st = "cancelled" <=> Cancelled(t),
           Finish(t, st, L)
    PROVE  Progresses(t)
BY AnnounceEffect, LeaveEffect DEF Finish

LEMMA MoveEffect ==
    ASSUME NEW t \in Msgs, NEW at \in JobPCs \ {"none"}, Advances(t, at)
    PROVE  Progresses(t)
BY DEF Progresses

LEMMA JobStepProgresses ==
    ASSUME InboxTypeOK, OwnMessage, NEW t \in Msgs, JobStep(t)
    PROVE  Progresses(t)
<1>1. job[t] = t
  BY DEF OwnMessage
<1>2. "cancelled" \in Terminal /\ "failed" \in Terminal
  BY DEF Terminal
<1>3. CASE Begin(t)
  <2>1. CASE Cancelled(t) /\ Finish(t, "cancelled", locks)
    BY <1>2, <1>3, <2>1, FinishEffect DEF Begin
  <2>2. CASE pc' = [pc EXCEPT ![t] = "waitTarget"] /\ UNCHANGED <<status, answers>>
    <3>1. Advances(t, "waitTarget")
      BY <1>3, <2>2 DEF Begin, Advances, JobPCs
    <3> QED BY <3>1, MoveEffect DEF Advances
  <2> QED
    BY <1>3, <2>1, <2>2 DEF Begin
<1>4. CASE CallTarget(t)
  <2>1. CASE Cancelled(t) /\ Finish(t, "cancelled", locks)
    BY <1>2, <1>4, <2>1, FinishEffect DEF CallTarget
  <2>2. CASE /\ ~Cancelled(t)
             /\ status' = [status EXCEPT ![job[t]] = "running"]
             /\ pc' = [pc EXCEPT ![t] = "calling"]
             /\ UNCHANGED answers
    <3>1. Advances(t, "calling")
      BY <1>1, <1>4, <2>2 DEF CallTarget, Advances, JobPCs, Cancelled
    <3> QED BY <3>1, MoveEffect DEF Advances
  <2> QED
    BY <1>4, <2>1, <2>2 DEF CallTarget
<1>5. CASE TargetReturns(t)
  <2>1. CASE Cancelled(t) /\ Finish(t, "cancelled", ReleaseLock(locks, t))
    BY <1>2, <1>5, <2>1, FinishEffect DEF TargetReturns
  <2>2. CASE pc' = [pc EXCEPT ![t] = "waitSource"] /\ UNCHANGED <<status, answers>>
    <3>1. Advances(t, "waitSource")
      BY <1>5, <2>2 DEF TargetReturns, Advances, JobPCs
    <3> QED BY <3>1, MoveEffect DEF Advances
  <2> QED
    BY <1>5, <2>1, <2>2 DEF TargetReturns
<1>6. CASE CallSource(t)
  <2>1. CASE Cancelled(t) /\ Finish(t, "cancelled", locks)
    BY <1>2, <1>6, <2>1, FinishEffect DEF CallSource
  <2>2. CASE /\ ~Cancelled(t)
             /\ status' = [status EXCEPT ![job[t]] = "replying"]
             /\ pc' = [pc EXCEPT ![t] = "replying"]
             /\ UNCHANGED answers
    <3>1. Advances(t, "replying")
      BY <1>1, <1>6, <2>2 DEF CallSource, Advances, JobPCs, Cancelled
    <3> QED BY <3>1, MoveEffect DEF Advances
  <2>3. CASE ~Cancelled(t) /\ Announce(t, "failed", ReleaseLock(locks, t))
    BY <1>2, <1>6, <2>3, AnnounceEffect DEF CallSource
  <2>4. CASE /\ ~Cancelled(t)
             /\ status' = [status EXCEPT ![job[t]] = "replying"]
             /\ LeaveJob(t, locks)
             /\ UNCHANGED answers
    <3>1. Advances(t, "ended")
      BY <1>1, <1>6, <2>4 DEF CallSource, LeaveJob, Advances, JobPCs, Cancelled
    <3> QED BY <3>1, MoveEffect DEF Advances
  <2> QED
    BY <1>6, <2>1, <2>2, <2>3, <2>4 DEF CallSource
<1>7. CASE SourceReturns(t)
  <2>1. outcome[t] \in Terminal /\ outcome[t] # "cancelled"
    BY DEF InboxTypeOK, Terminal
  <2>2. PICK st \in Terminal : /\ st = "cancelled" <=> Cancelled(t)
                             /\ Finish(t, st, locks)
    BY <1>2, <1>7, <2>1 DEF SourceReturns
  <2> QED
    BY <1>7, <2>2, FinishEffect DEF SourceReturns
<1>8. CASE OnReplyEnds(t)
  BY <1>8, LeaveEffect DEF OnReplyEnds
<1>9. CASE Interrupt(t)
  <2>1. CASE /\ pc[t] = "waitSlot"
             /\ pc' = [pc EXCEPT ![t] = "ended"]
             /\ UNCHANGED <<status, answers>>
    <3>1. Advances(t, "ended")
      BY <2>1 DEF Advances, JobPCs
    <3> QED BY <3>1, MoveEffect DEF Advances
  <2>2. CASE /\ pc[t] \in {"waitTarget", "waitSource"}
             /\ status[job[t]] \notin Terminal
             /\ Announce(t, "failed", ReleaseLock(locks, t))
    BY <1>2, <2>2, AnnounceEffect DEF Cancelled
  <2>3. CASE /\ pc[t] \in {"waitTarget", "waitSource"}
             /\ LeaveJob(t, locks)
             /\ UNCHANGED <<status, answers>>
    BY <2>3, LeaveEffect
  <2> QED
    BY <1>9, <2>1, <2>2, <2>3 DEF Interrupt
<1> QED
  BY <1>3, <1>4, <1>5, <1>6, <1>7, <1>8, <1>9 DEF JobStep

LEMMA JobStepEffect ==
    ASSUME InboxTypeOK, OwnMessage, NEW t \in Msgs, JobStep(t)
    PROVE  JobEffect(t)
<1>1. Progresses(t)
  BY JobStepProgresses
<1>2. UNCHANGED <<queue, job, withdrawn>>
  BY DEF JobStep
<1>3. \A i \in JobIds : box'[i] \in {box[i], Nothing}
  <2>1. CASE UNCHANGED box
    BY <2>1
  <2>2. CASE OnReplyEnds(t)
    BY <2>2 DEF OnReplyEnds, Prune, InboxTypeOK
  <2> QED
    BY <2>1, <2>2 DEF JobStep, Begin, CallTarget, TargetReturns, CallSource,
                      SourceReturns, Interrupt
<1> QED
  BY <1>1, <1>2, <1>3 DEF JobEffect

LEMMA EnqueueQueue ==
    ASSUME InboxTypeOK, QueuedOnce, NEW m \in Msgs, Enqueue(m)
    PROVE  QueuedOnce'
<1>0. /\ status[m] = "new"
      /\ status' = [status EXCEPT ![m] = "queued"]
      /\ queue' = Append(queue, m)
      /\ UNCHANGED pc
  BY DEF Enqueue, jobVars
<1>1. \A x \in Msgs : status'[x] = "new" => pc'[x] = "none"
  BY <1>0 DEF InboxTypeOK, QueuedOnce
<1>2. /\ Len(queue) \in Nat
      /\ Len(queue') = Len(queue) + 1
      /\ queue'[Len(queue) + 1] = m
      /\ \A n \in 1..Len(queue) : queue'[n] = queue[n]
  BY <1>0 DEF InboxTypeOK
<1>3. \A n \in 1..Len(queue) : queue[n] \in Msgs \cup {Poison}
  BY DEF InboxTypeOK
<1>4. m # Poison /\ pc[m] = "none" /\ status'[m] = "queued"
  BY <1>0, InboxAssumption DEF InboxTypeOK, QueuedOnce
<1>5. \A n \in 1..Len(queue) : queue[n] # m
  BY <1>0, <1>4 DEF QueuedOnce
<1>6. \A x \in Msgs : x # m => status'[x] = status[x]
  BY <1>0 DEF InboxTypeOK
<1>7. SUFFICES ASSUME NEW n \in 1..Len(queue'), queue'[n] # Poison
               PROVE  /\ pc'[queue'[n]] = "none"
                      /\ status'[queue'[n]] # "new"
                      /\ \A k \in 1..Len(queue') : queue'[k] = queue'[n] => k = n
  BY <1>1 DEF QueuedOnce
<1>8. CASE n = Len(queue) + 1
  BY <1>0, <1>2, <1>4, <1>5, <1>8
<1>9. CASE n \in 1..Len(queue)
  <2>1. /\ pc[queue[n]] = "none"
        /\ status[queue[n]] # "new"
        /\ \A k \in 1..Len(queue) : queue[k] = queue[n] => k = n
    BY <1>2, <1>7, <1>9 DEF QueuedOnce
  <2>2. queue'[n] = queue[n] /\ queue[n] \in Msgs /\ queue[n] # m
    BY <1>2, <1>3, <1>5, <1>7, <1>9
  <2>3. pc'[queue'[n]] = "none" /\ status'[queue'[n]] # "new"
    BY <1>0, <1>6, <2>1, <2>2
  <2>4. ASSUME NEW k \in 1..Len(queue'), queue'[k] = queue'[n] PROVE k = n
    <3>1. CASE k = Len(queue) + 1
      BY <1>2, <2>2, <2>4, <3>1
    <3>2. CASE k \in 1..Len(queue)
      BY <1>2, <2>1, <2>2, <2>4, <3>2
    <3> QED
      BY <1>2, <2>4, <3>1, <3>2
  <2> QED
    BY <2>3, <2>4
<1> QED
  BY <1>2, <1>8, <1>9

LEMMA DispatchQueue ==
    ASSUME InboxTypeOK, QueuedOnce, NEW w \in Msgs, Dispatch(w)
    PROVE  QueuedOnce'
<1> DEFINE m == Head(queue)
<1>1. queue # <<>> /\ queue' = Tail(queue) /\ UNCHANGED status
  BY DEF Dispatch
<1>2. /\ m = queue[1] /\ 1 \in 1..Len(queue)
      /\ m \in Msgs \cup {Poison}
      /\ Len(queue') = Len(queue) - 1
      /\ \A n \in 1..Len(queue') : queue'[n] = queue[n + 1] /\ n + 1 \in 1..Len(queue)
  BY <1>1 DEF InboxTypeOK
<1>3. CASE UNCHANGED pc
  BY <1>1, <1>2, <1>3 DEF QueuedOnce
<1>4. CASE m # Poison /\ pc' = [pc EXCEPT ![m] = "waitSlot"]
  <2> HIDE DEF m
  <2>1. /\ m \in Msgs
        /\ pc[m] = "none" /\ status[m] # "new"
        /\ \A n \in 1..Len(queue') : queue'[n] # m
    BY <1>1, <1>2, <1>4 DEF QueuedOnce
  <2> QED
    BY <1>1, <1>2, <1>4, <2>1 DEF InboxTypeOK, QueuedOnce
<1> QED
  BY <1>3, <1>4 DEF Dispatch

LEMMA CloserQueue ==
    ASSUME InboxTypeOK, QueuedOnce, NEW c \in Closers,
           Shutdown(c) \/ Join(c) \/ Gathered(c)
    PROVE  QueuedOnce'
<1>3. UNCHANGED <<status, pc>>
  BY DEF Shutdown, Join, Gathered, ShutdownFrame, jobVars
<1>4. queue' = queue \/ queue' = Append(queue, Poison)
  BY DEF Shutdown, Join, Gathered
<1>1. CASE queue' = queue
  BY <1>3, <1>1 DEF QueuedOnce
<1>2. CASE queue' = Append(queue, Poison)
  <2>1. /\ Len(queue) \in Nat
        /\ 1..Len(queue') = 1..Len(queue) \cup {Len(queue) + 1}
        /\ queue'[Len(queue) + 1] = Poison
        /\ \A n \in 1..Len(queue) : queue'[n] = queue[n]
    BY <1>2 DEF InboxTypeOK
  <2>2. \A n \in 1..Len(queue) : queue[n] # Poison =>
           /\ pc[queue[n]] = "none"
           /\ status[queue[n]] # "new"
           /\ \A k \in 1..Len(queue) : queue[k] = queue[n] => k = n
    BY DEF QueuedOnce
  <2>3. \A x \in Msgs : status[x] = "new" => pc[x] = "none"
    BY DEF QueuedOnce
  <2>4. ASSUME NEW n \in 1..Len(queue'), queue'[n] # Poison
        PROVE  /\ pc[queue'[n]] = "none"
               /\ status[queue'[n]] # "new"
               /\ \A k \in 1..Len(queue') : queue'[k] = queue'[n] => k = n
    <3>1. n \in 1..Len(queue) /\ queue'[n] = queue[n]
      BY <2>1, <2>4
    <3> QED
      BY <2>1, <2>2, <2>4, <3>1
  <2> QED
    BY <1>3, <2>3, <2>4 DEF QueuedOnce
<1> QED BY <1>4, <1>1, <1>2

LEMMA EnqueueKeeps ==
    ASSUME InboxTypeOK, DeliveryInv, NEW m \in Msgs, Enqueue(m)
    PROVE  DeliveryInv'
<1>1. /\ status[m] = "new"
      /\ box' = [box EXCEPT ![JobIdOf[m]] = m]
      /\ status' = [status EXCEPT ![m] = "queued"]
      /\ queue' = Append(queue, m)
      /\ UNCHANGED <<pc, job, answers, withdrawn>>
  BY DEF Enqueue, jobVars
<1>2. OwnMessage'
  BY <1>1 DEF InboxTypeOK, DeliveryInv, OwnMessage
<1>3. QueuedOnce'
  BY EnqueueQueue DEF DeliveryInv
<1>4. OutcomeKept'
  BY <1>1 DEF InboxTypeOK, DeliveryInv, OutcomeKept, Terminal
<1> QED
  BY <1>2, <1>3, <1>4 DEF DeliveryInv

LEMMA CancelKeeps ==
    ASSUME InboxTypeOK, DeliveryInv, NEW i \in JobIds, Cancel(i)
    PROVE  DeliveryInv'
<1>1. /\ box[i] \in Msgs
      /\ status[box[i]] \notin Terminal
      /\ status[box[i]] # "new"
      /\ status' = [status EXCEPT ![box[i]] = "cancelled"]
      /\ withdrawn' = withdrawn \cup {box[i]}
      /\ UNCHANGED <<box, pc, job, answers, queue>>
  BY DEF Cancel, jobVars, InboxTypeOK, DeliveryInv, OwnMessage
<1>2. answers[box[i]] = <<>>
  <2>1. answers[box[i]] \in Seq(Terminal)
    BY <1>1 DEF InboxTypeOK
  <2>2. CASE answers[box[i]] # <<>>
    BY <1>1, <2>1, <2>2 DEF DeliveryInv, OutcomeKept
  <2> QED BY <2>2
<1>3. OwnMessage'
  BY <1>1 DEF InboxTypeOK, DeliveryInv, OwnMessage
<1>4. QueuedOnce'
  BY <1>1 DEF InboxTypeOK, DeliveryInv, QueuedOnce
<1>5. OutcomeKept'
  BY <1>1, <1>2 DEF InboxTypeOK, DeliveryInv, OutcomeKept
<1> QED
  BY <1>3, <1>4, <1>5 DEF DeliveryInv

LEMMA DispatchKeeps ==
    ASSUME UniqueIds, InboxTypeOK, DeliveryInv, NEW w \in Msgs, Dispatch(w)
    PROVE  DeliveryInv'
<1> DEFINE m == Head(queue)
<1>1. /\ queue # <<>>
      /\ queue' = Tail(queue)
      /\ UNCHANGED <<box, status, answers, withdrawn>>
  BY DEF Dispatch
<1>2. /\ m = queue[1] /\ 1 \in 1..Len(queue)
      /\ m \in Msgs \cup {Poison}
      /\ Len(queue') = Len(queue) - 1
      /\ \A n \in 1..Len(queue') : queue'[n] = queue[n + 1] /\ n + 1 \in 1..Len(queue)
  BY <1>1 DEF InboxTypeOK
<1>3. CASE UNCHANGED <<pc, job>>
  <2>1. OwnMessage' /\ OutcomeKept'
    BY <1>1, <1>3 DEF DeliveryInv, OwnMessage, OutcomeKept
  <2>2. QueuedOnce'
    BY DispatchQueue DEF DeliveryInv
  <2> QED
    BY <2>1, <2>2 DEF DeliveryInv
<1>4. CASE /\ m # Poison
           /\ box[JobIdOf[m]] # Nothing
           /\ job' = [job EXCEPT ![m] = box[JobIdOf[m]]]
           /\ pc' = [pc EXCEPT ![m] = "waitSlot"]
  <2> HIDE DEF m
  <2>1. /\ m \in Msgs /\ box[JobIdOf[m]] = m
        /\ pc[m] = "none" /\ status[m] # "new"
        /\ \A n \in 1..Len(queue') : queue'[n] # m
    BY <1>1, <1>2, <1>4 DEF InboxTypeOK, DeliveryInv, OwnMessage, QueuedOnce, UniqueIds
  <2>2. OwnMessage'
    BY <1>1, <1>4, <2>1 DEF InboxTypeOK, DeliveryInv, OwnMessage
  <2>3. QueuedOnce'
    BY DispatchQueue DEF DeliveryInv
  <2>4. OutcomeKept'
    BY <1>1, <1>4, <2>1 DEF InboxTypeOK, DeliveryInv, OutcomeKept
  <2> QED
    BY <2>2, <2>3, <2>4 DEF DeliveryInv
<1> QED
  BY <1>3, <1>4 DEF Dispatch

LEMMA JobStepKeeps ==
    ASSUME InboxTypeOK, DeliveryInv, NEW t \in Msgs, JobEffect(t)
    PROVE  DeliveryInv'
<1>1. UNCHANGED <<queue, job, withdrawn>> /\ \A i \in JobIds : box'[i] \in {box[i], Nothing}
  BY DEF JobEffect
<1>2. ASSUME NEW st \in Terminal, Announces(t, st)
      PROVE  DeliveryInv'
  <2>1. answers[t] = <<>> /\ Append(answers[t], st) = <<st>> /\ status[t] # "new"
    <3>1. answers[t] = <<>> /\ status[t] # "new"
      BY <1>2 DEF Announces, DeliveryInv, OutcomeKept, QueuedOnce
    <3>2. Append(<<>>, st) = <<st>>
      OBVIOUS
    <3> QED BY <3>1, <3>2
  <2>2. OwnMessage'
    BY <1>1, <1>2 DEF Announces, InboxTypeOK, DeliveryInv, OwnMessage, Terminal
  <2>3. QueuedOnce'
    BY <1>1, <1>2 DEF Announces, InboxTypeOK, DeliveryInv, QueuedOnce, Terminal
  <2>4. OutcomeKept'
    BY <1>1, <1>2, <2>1 DEF Announces, InboxTypeOK, DeliveryInv, OutcomeKept, Terminal
  <2> QED
    BY <2>2, <2>3, <2>4 DEF DeliveryInv
<1>3. ASSUME NEW at \in JobPCs, Advances(t, at)
      PROVE  DeliveryInv'
  <2>1. status[t] # "new" /\ t \in Msgs
    BY <1>3 DEF Advances, DeliveryInv, QueuedOnce
  <2>2. OwnMessage'
    BY <1>1, <1>3, <2>1 DEF Advances, InboxTypeOK, DeliveryInv, OwnMessage
  <2>3. QueuedOnce'
    BY <1>1, <1>3, <2>1 DEF Advances, InboxTypeOK, DeliveryInv, QueuedOnce
  <2>4. OutcomeKept'
    <3>1. pc[t] \notin {"finishing", "ended"} => answers[t] = <<>>
      BY DEF DeliveryInv, OutcomeKept
    <3>2. pc[t] = "finishing" => at = "ended" /\ status' = status
      BY <1>3 DEF Advances
    <3> QED
      BY <1>1, <1>3, <2>1, <3>1, <3>2 DEF Advances, InboxTypeOK, DeliveryInv, OutcomeKept
  <2> QED
    BY <2>2, <2>3, <2>4 DEF DeliveryInv
<1> QED
  BY <1>2, <1>3 DEF JobEffect, Progresses

LEMMA CloserKeeps ==
    ASSUME InboxTypeOK, DeliveryInv, NEW c \in Closers,
           Shutdown(c) \/ Join(c) \/ Gathered(c)
    PROVE  DeliveryInv'
<1>1. UNCHANGED <<box, status, pc, job, answers, withdrawn>>
  BY DEF Shutdown, Join, Gathered, ShutdownFrame, jobVars
<1>2. queue' = queue \/ queue' = Append(queue, Poison)
  BY DEF Shutdown, Join, Gathered
<1>3. OwnMessage' /\ OutcomeKept'
  BY <1>1 DEF DeliveryInv, OwnMessage, OutcomeKept
<1>4. QueuedOnce'
  BY CloserQueue DEF DeliveryInv
<1> QED
  BY <1>3, <1>4 DEF DeliveryInv

LEMMA CancelWorkerKeeps ==
    ASSUME DeliveryInv, CancelWorker
    PROVE  DeliveryInv'
BY DEF CancelWorker, DeliveryInv, OwnMessage, QueuedOnce, OutcomeKept

LEMMA DeliveryInductive ==
    ASSUME UniqueIds, InboxTypeOK, DeliveryInv, [InboxNext]_inboxVars
    PROVE  DeliveryInv'
<1>1. ASSUME NEW m \in Msgs, Enqueue(m) PROVE DeliveryInv'
  BY <1>1, EnqueueKeeps
<1>2. ASSUME NEW i \in JobIds, Cancel(i) PROVE DeliveryInv'
  BY <1>2, CancelKeeps
<1>3. ASSUME NEW c \in Closers, Shutdown(c) \/ Join(c) \/ Gathered(c) PROVE DeliveryInv'
  BY <1>3, CloserKeeps
<1>4. CASE CancelWorker
  BY <1>4, CancelWorkerKeeps
<1>5. ASSUME NEW w \in Msgs, Dispatch(w) PROVE DeliveryInv'
  BY <1>5, DispatchKeeps
<1>6. ASSUME NEW t \in Msgs, JobStep(t) PROVE DeliveryInv'
  BY <1>6, JobStepEffect, JobStepKeeps DEF DeliveryInv
<1>7. CASE UNCHANGED inboxVars
  BY <1>7 DEF inboxVars, jobVars, DeliveryInv, OwnMessage, QueuedOnce, OutcomeKept
<1> QED
  BY <1>1, <1>2, <1>3, <1>4, <1>5, <1>6, <1>7 DEF InboxNext, HostStep, LoopStep

LEMMA DeliveryInvariant == UniqueIds => (InboxSpec => []DeliveryInv)
<1> SUFFICES ASSUME UniqueIds PROVE InboxSpec => []DeliveryInv
  OBVIOUS
<1>1. InboxInit => DeliveryInv
  BY DEF InboxInit, DeliveryInv, OwnMessage, QueuedOnce, OutcomeKept
<1>2. InboxTypeOK /\ DeliveryInv /\ [InboxNext]_inboxVars => DeliveryInv'
  BY DeliveryInductive
<1> QED
  BY <1>1, <1>2, InboxTypeCorrect, PTL DEF InboxSpec

\* With distinct job ids the inbox implements PeerDelivery: each submitted
\* message gets at most one outcome, and "cancelled" exactly when its
\* cancel() was accepted.
THEOREM InboxImplementsDelivery == UniqueIds => (InboxSpec => DeliverySpec)
<1> SUFFICES ASSUME UniqueIds PROVE InboxSpec => DeliverySpec
  OBVIOUS
<1>1. InboxInit => Delivery!Init
  BY DEF InboxInit, Delivery!Init, Accepted
<1>2. InboxTypeOK /\ DeliveryInv /\ [InboxNext]_inboxVars => [Delivery!Next]_Delivery!vars
  <2> SUFFICES ASSUME InboxTypeOK, DeliveryInv, [InboxNext]_inboxVars
               PROVE  [Delivery!Next]_Delivery!vars
    OBVIOUS
  <2>1. ASSUME NEW m \in Msgs, Enqueue(m) PROVE Delivery!Next
    <3>1. Accepted' = Accepted \cup {m} /\ m \notin Accepted
      BY <2>1 DEF Enqueue, Accepted, InboxTypeOK
    <3>2. Delivery!Submit(m)
      BY <2>1, <3>1 DEF Enqueue, Delivery!Submit
    <3> QED BY <3>2 DEF Delivery!Next
  <2>2. ASSUME NEW i \in JobIds, Cancel(i) PROVE Delivery!Next
    <3>1. /\ box[i] \in Msgs
          /\ status[box[i]] \notin Terminal
          /\ box[i] \in Accepted
      BY <2>2 DEF Cancel, InboxTypeOK, DeliveryInv, OwnMessage, Accepted
    <3>2. box[i] \notin withdrawn /\ answers[box[i]] = <<>>
      <4>1. answers[box[i]] \in Seq(Terminal)
        BY <3>1 DEF InboxTypeOK
      <4> QED
        BY <3>1, <4>1 DEF DeliveryInv, OutcomeKept, Terminal
    <3>3. Accepted' = Accepted
      BY <2>2, <3>1 DEF Cancel, Accepted, InboxTypeOK
    <3>4. Delivery!Withdraw(box[i])
      BY <2>2, <3>1, <3>2, <3>3 DEF Cancel, Delivery!Withdraw
    <3> QED BY <3>1, <3>4 DEF Delivery!Next
  <2>3. ASSUME NEW t \in Msgs, JobStep(t) PROVE [Delivery!Next]_Delivery!vars
    <3>1. JobEffect(t)
      BY <2>3, JobStepEffect DEF DeliveryInv
    <3>2. ASSUME NEW st \in Terminal, Announces(t, st) PROVE Delivery!Next
      <4>1. answers[t] = <<>> /\ t \in Accepted /\ (t \in withdrawn <=> status[t] = "cancelled")
        BY <3>2 DEF Announces, DeliveryInv, OutcomeKept, QueuedOnce, Accepted
      <4>2. Append(<<>>, st) = <<st>>
        OBVIOUS
      <4>3. Accepted' = Accepted
        BY <3>2, <4>1 DEF Announces, Accepted, InboxTypeOK, Terminal
      <4>4. Delivery!Answer(t, st)
        BY <3>1, <3>2, <4>1, <4>2, <4>3 DEF Announces, JobEffect, Delivery!Answer
      <4> QED BY <4>4 DEF Delivery!Next, Terminal
    <3>3. ASSUME NEW at \in JobPCs, Advances(t, at) PROVE UNCHANGED Delivery!vars
      <4>1. t \in Accepted
        BY <3>3 DEF Advances, DeliveryInv, QueuedOnce, Accepted
      <4>2. Accepted' = Accepted
        BY <3>3, <4>1 DEF Advances, Accepted, InboxTypeOK
      <4> QED BY <3>1, <3>3, <4>2 DEF Advances, JobEffect, Delivery!vars
    <3> QED BY <3>1, <3>2, <3>3 DEF JobEffect, Progresses
  <2>4. ASSUME UNCHANGED <<status, withdrawn, answers>> PROVE UNCHANGED Delivery!vars
    BY <2>4 DEF Delivery!vars, Accepted
  <2>5. ASSUME NEW w \in Msgs, Dispatch(w) PROVE UNCHANGED <<status, withdrawn, answers>>
    BY <2>5 DEF Dispatch
  <2>6. ASSUME NEW c \in Closers, Shutdown(c) \/ Join(c) \/ Gathered(c)
        PROVE  UNCHANGED <<status, withdrawn, answers>>
    BY <2>6 DEF Shutdown, Join, Gathered, ShutdownFrame
  <2>7. CASE CancelWorker \/ UNCHANGED inboxVars
    BY <2>4, <2>7 DEF CancelWorker, inboxVars
  <2> QED
    BY <2>1, <2>2, <2>3, <2>4, <2>5, <2>6, <2>7 DEF InboxNext, HostStep, LoopStep
<1> QED
  BY <1>1, <1>2, InboxTypeCorrect, DeliveryInvariant, PTL DEF InboxSpec, DeliverySpec, Delivery!Spec

\* With distinct job ids a final status is never overwritten.
THEOREM InboxTerminalIsFinal == UniqueIds => (InboxSpec => TerminalIsFinal)
<1> SUFFICES ASSUME UniqueIds PROVE InboxSpec => TerminalIsFinal
  OBVIOUS
<1> DEFINE Kept == \A m \in Msgs : status[m] \in Terminal => status'[m] = status[m]
<1>1. InboxTypeOK /\ DeliveryInv /\ [InboxNext]_inboxVars => [Kept]_inboxVars
  <2> SUFFICES ASSUME InboxTypeOK, DeliveryInv, [InboxNext]_inboxVars PROVE Kept
    OBVIOUS
  <2>1. ASSUME NEW m \in Msgs, Enqueue(m) PROVE Kept
    BY <2>1 DEF Enqueue, InboxTypeOK, Terminal
  <2>2. ASSUME NEW i \in JobIds, Cancel(i) PROVE Kept
    BY <2>2 DEF Cancel, InboxTypeOK
  <2>3. ASSUME NEW t \in Msgs, JobStep(t) PROVE Kept
    <3>1. JobEffect(t)
      BY <2>3, JobStepEffect DEF DeliveryInv
    <3>2. status[t] \in {"done", "failed"} => pc[t] \in {"finishing", "ended"}
      BY DEF DeliveryInv, OutcomeKept
    <3>3. ASSUME NEW st \in Terminal, Announces(t, st) PROVE Kept
      BY <3>2, <3>3 DEF Announces, InboxTypeOK, Terminal
    <3>4. ASSUME NEW at \in JobPCs, Advances(t, at) PROVE Kept
      BY <3>2, <3>4 DEF Advances, InboxTypeOK, Terminal
    <3> QED BY <3>1, <3>3, <3>4 DEF JobEffect, Progresses
  <2>4. ASSUME UNCHANGED status PROVE Kept
    BY <2>4
  <2> QED
    BY <2>1, <2>2, <2>3, <2>4 DEF InboxNext, HostStep, LoopStep, inboxVars, Dispatch, CancelWorker,
                                  Shutdown, Join, Gathered, ShutdownFrame
<1> QED
  BY <1>1, InboxTypeCorrect, DeliveryInvariant, PTL DEF InboxSpec, TerminalIsFinal

\* With distinct job ids no agent is called for a message whose cancel() was
\* accepted.
THEOREM InboxNoCallAfterCancel == UniqueIds => (InboxSpec => NoCallAfterCancel)
<1> SUFFICES ASSUME UniqueIds PROVE InboxSpec => NoCallAfterCancel
  OBVIOUS
<1> DEFINE Held == \A t \in Msgs :
       (pc'[t] \in {"calling", "replying"} /\ pc'[t] # pc[t]) => job[t] \notin withdrawn
<1>1. InboxTypeOK /\ DeliveryInv /\ [InboxNext]_inboxVars => [Held]_inboxVars
  <2> SUFFICES ASSUME InboxTypeOK, DeliveryInv, [InboxNext]_inboxVars PROVE Held
    OBVIOUS
  <2>1. ASSUME NEW w \in Msgs, Dispatch(w) PROVE Held
    <3>1. UNCHANGED pc \/ pc' = [pc EXCEPT ![Head(queue)] = "waitSlot"]
      BY <2>1 DEF Dispatch
    <3> QED BY <3>1 DEF InboxTypeOK
  <2>2. ASSUME NEW t \in Msgs, JobStep(t) PROVE Held
    <3>1. JobEffect(t)
      BY <2>2, JobStepEffect DEF DeliveryInv
    <3>2. job[t] = t /\ (t \in withdrawn <=> status[t] = "cancelled")
      BY DEF DeliveryInv, OwnMessage, OutcomeKept
    <3>3. ASSUME NEW st \in Terminal, Announces(t, st) PROVE Held
      BY <3>2, <3>3 DEF Announces, InboxTypeOK
    <3>4. ASSUME NEW at \in JobPCs, Advances(t, at) PROVE Held
      BY <3>2, <3>4 DEF Advances, InboxTypeOK
    <3> QED BY <3>1, <3>3, <3>4 DEF JobEffect, Progresses
  <2>3. ASSUME UNCHANGED pc PROVE Held
    BY <2>3
  <2> QED
    BY <2>1, <2>2, <2>3 DEF InboxNext, HostStep, LoopStep, inboxVars, jobVars, Enqueue, Cancel,
                            CancelWorker, Shutdown, Join, Gathered, ShutdownFrame
<1> QED
  BY <1>1, InboxTypeCorrect, DeliveryInvariant, PTL DEF InboxSpec, NoCallAfterCancel

-----------------------------------------------------------------------------
(***************************************************************************)
(* The lock table operators.                                               *)
(***************************************************************************)

LEMMA UsersFinite ==
    ASSUME NEW L, NEW k
    PROVE  IsFiniteSet(LockUsers(L, k)) /\ Cardinality(LockUsers(L, k)) \in Nat
<1>1. LockUsers(L, k) \subseteq Msgs
  BY DEF LockUsers
<1>2. IsFiniteSet(Msgs)
  BY InboxAssumption
<1>3. IsFiniteSet(LockUsers(L, k))
  BY <1>1, <1>2, FS_Subset
<1> QED
  BY <1>3, FS_CardinalityType

\* A job queues up: everyone else keeps their place.
LEMMA LockForOrder ==
    ASSUME NEW L \in LockTable, LockOrder(L), NEW t \in Msgs, NEW k \in LockKeys,
           L.held[t] = Nothing
    PROVE  /\ LockOrder(LockFor(L, t, k))
           /\ t \in LockUsers(LockFor(L, t, k), k)
           /\ \A u \in Msgs \ {t} : /\ LockFor(L, t, k).held[u] = L.held[u]
                                    /\ LockFor(L, t, k).ahead[u] = L.ahead[u]
<1> DEFINE M == LockFor(L, t, k)
           lock == IF L.bucket[k] = Nothing THEN <<k, t>> ELSE L.bucket[k]
<1>1. /\ M.bucket = [L.bucket EXCEPT ![k] = lock]
      /\ M.refs = [L.refs EXCEPT ![k] = @ + 1]
      /\ M.held = [L.held EXCEPT ![t] = lock]
      /\ M.ahead = [L.ahead EXCEPT ![t] = {u \in Msgs : L.held[u] = lock}]
  BY DEF LockFor
<1>2. /\ L.bucket \in [LockKeys -> Locks \cup {Nothing}]
      /\ L.refs \in [LockKeys -> Nat]
      /\ L.held \in [Msgs -> Locks \cup {Nothing}]
      /\ L.ahead \in [Msgs -> SUBSET Msgs]
  BY DEF LockTable
<1>3. lock # Nothing /\ lock[1] = k
  <2>1. CASE L.bucket[k] = Nothing
    BY <2>1, NoneIsNoLock DEF Locks
  <2>2. CASE L.bucket[k] # Nothing
    <3>1. PICK u \in LockUsers(L, k) : L.held[u] = L.bucket[k]
      BY <2>2 DEF LockOrder
    <3> QED BY <2>2, <3>1 DEF LockUsers
  <2> QED BY <2>1, <2>2
<1>4. LockUsers(M, k) = LockUsers(L, k) \cup {t} /\ t \notin LockUsers(L, k)
  BY <1>1, <1>2, <1>3 DEF LockUsers
<1>5. \A j \in LockKeys \ {k} : LockUsers(M, j) = LockUsers(L, j)
  BY <1>1, <1>2, <1>3 DEF LockUsers
<1>6. \A u \in LockUsers(L, k) : L.held[u] = lock
  BY DEF LockOrder
<1>7. Cardinality(LockUsers(M, k)) = Cardinality(LockUsers(L, k)) + 1
  BY <1>4, UsersFinite, FS_AddElement
<1>8. ASSUME NEW j \in LockKeys
      PROVE  /\ M.refs[j] = Cardinality(LockUsers(M, j))
             /\ (M.bucket[j] = Nothing) <=> (LockUsers(M, j) = {})
             /\ \A u \in LockUsers(M, j) : M.held[u] = M.bucket[j]
  <2>1. CASE j = k
    <3>1. M.refs[j] = Cardinality(LockUsers(M, j))
      BY <2>1, <1>1, <1>2, <1>7 DEF LockOrder
    <3>2. M.bucket[j] = lock /\ lock # Nothing /\ LockUsers(M, j) # {}
      BY <2>1, <1>1, <1>2, <1>3, <1>4
    <3>3. \A u \in LockUsers(M, j) : M.held[u] = lock
      BY <2>1, <1>1, <1>2, <1>4, <1>6 DEF LockUsers
    <3> QED BY <3>1, <3>2, <3>3
  <2>2. CASE j # k
    <3>1. LockUsers(M, j) = LockUsers(L, j) /\ M.bucket[j] = L.bucket[j] /\ M.refs[j] = L.refs[j]
      BY <2>2, <1>1, <1>2, <1>5
    <3>2. \A u \in LockUsers(L, j) : M.held[u] = L.held[u]
      BY <2>2, <1>1, <1>2 DEF LockUsers
    <3> HIDE DEF M
    <3> QED BY <3>1, <3>2 DEF LockOrder
  <2> QED BY <2>1, <2>2
<1>9. ASSUME NEW u \in Msgs, NEW v \in Msgs, u # v, M.held[u] # Nothing, M.held[u] = M.held[v]
      PROVE  u \in M.ahead[v] \/ v \in M.ahead[u]
  BY <1>1, <1>2, <1>9 DEF LockOrder
<1>10. LockOrder(M)
  BY <1>8, <1>9 DEF LockOrder
<1> QED
  BY <1>1, <1>2, <1>4, <1>10

\* A job leaves: everyone else keeps their lock and nobody falls back.
LEMMA ReleaseLockOrder ==
    ASSUME NEW L \in LockTable, LockOrder(L), NEW t \in Msgs
    PROVE  /\ LockOrder(ReleaseLock(L, t))
           /\ ReleaseLock(L, t).held[t] = Nothing
           /\ \A u \in Msgs \ {t} : /\ ReleaseLock(L, t).held[u] = L.held[u]
                                    /\ ReleaseLock(L, t).ahead[u] \subseteq L.ahead[u]
<1>1. CASE L.held[t] = Nothing
  BY <1>1 DEF ReleaseLock
<1>2. CASE L.held[t] # Nothing
  <2> DEFINE M == ReleaseLock(L, t)
             k == L.held[t][1]
             left == L.refs[k] - 1
  <2>1. /\ M.bucket = IF left <= 0 /\ L.bucket[k] = L.held[t]
                      THEN [L.bucket EXCEPT ![k] = Nothing] ELSE L.bucket
        /\ M.refs = [L.refs EXCEPT ![k] = IF left <= 0 THEN 0 ELSE left]
        /\ M.held = [L.held EXCEPT ![t] = Nothing]
        /\ M.ahead = [u \in Msgs |-> IF u = t THEN {} ELSE L.ahead[u] \ {t}]
    BY <1>2 DEF ReleaseLock
  <2>2. /\ L.bucket \in [LockKeys -> Locks \cup {Nothing}]
        /\ L.refs \in [LockKeys -> Nat]
        /\ L.held \in [Msgs -> Locks \cup {Nothing}]
        /\ L.ahead \in [Msgs -> SUBSET Msgs]
        /\ k \in LockKeys
    BY <1>2, HeldKey DEF LockTable
  <2> HIDE DEF M
  <2>3. t \in LockUsers(L, k) /\ LockUsers(M, k) = LockUsers(L, k) \ {t}
    BY <1>2, <2>1, <2>2 DEF LockUsers
  <2>4. \A j \in LockKeys \ {k} : LockUsers(M, j) = LockUsers(L, j)
    BY <2>1, <2>2 DEF LockUsers
  <2>5. Cardinality(LockUsers(M, k)) = Cardinality(LockUsers(L, k)) - 1
    <3>1. IsFiniteSet(LockUsers(L, k))
      BY UsersFinite
    <3>2. Cardinality(LockUsers(L, k) \ {t}) = Cardinality(LockUsers(L, k)) - 1
      BY <2>3, <3>1, FS_RemoveElement
    <3> QED BY <2>3, <3>2
  <2>6. L.refs[k] = Cardinality(LockUsers(L, k)) /\ L.bucket[k] = L.held[t]
    BY <2>2, <2>3 DEF LockOrder
  <2>7. left \in Nat /\ left = Cardinality(LockUsers(M, k))
    BY <2>5, <2>6, UsersFinite
  <2>8. left <= 0 <=> LockUsers(M, k) = {}
    BY <2>7, UsersFinite, FS_EmptySet
  <2>9. ASSUME NEW j \in LockKeys
        PROVE  /\ M.refs[j] = Cardinality(LockUsers(M, j))
               /\ (M.bucket[j] = Nothing) <=> (LockUsers(M, j) = {})
               /\ \A u \in LockUsers(M, j) : M.held[u] = M.bucket[j]
    <3>1. CASE j = k
      <4>1. M.refs[j] = Cardinality(LockUsers(M, j))
        BY <3>1, <2>1, <2>2, <2>7
      <4>2. L.bucket[k] # Nothing
        BY <1>2, <2>6
      <4>3. (M.bucket[j] = Nothing) <=> (LockUsers(M, j) = {})
        BY <3>1, <4>2, <2>1, <2>2, <2>6, <2>8
      <4>4. \A u \in LockUsers(M, j) : u # t /\ M.held[u] = L.held[u] /\ L.held[u] = L.bucket[k]
        <5>1. \A u \in LockUsers(L, k) : u \in Msgs /\ L.held[u] = L.bucket[k]
          BY <2>2 DEF LockOrder, LockUsers
        <5>2. \A u \in Msgs \ {t} : M.held[u] = L.held[u]
          BY <2>1, <2>2
        <5> QED BY <3>1, <2>3, <5>1, <5>2
      <4>5. LockUsers(M, j) # {} => M.bucket[j] = L.bucket[k]
        BY <3>1, <2>1, <2>2, <2>8
      <4> QED BY <4>1, <4>3, <4>4, <4>5
    <3>2. CASE j # k
      <4>1. LockUsers(M, j) = LockUsers(L, j) /\ M.bucket[j] = L.bucket[j] /\ M.refs[j] = L.refs[j]
        BY <3>2, <2>1, <2>2, <2>4
      <4>2. \A u \in LockUsers(L, j) : M.held[u] = L.held[u]
        BY <3>2, <2>1, <2>2 DEF LockUsers
      <4> QED BY <4>1, <4>2 DEF LockOrder
    <3> QED BY <3>1, <3>2
  <2>10. ASSUME NEW u \in Msgs, NEW v \in Msgs, u # v, M.held[u] # Nothing, M.held[u] = M.held[v]
         PROVE  u \in M.ahead[v] \/ v \in M.ahead[u]
    BY <2>1, <2>2, <2>10 DEF LockOrder
  <2>11. LockOrder(M)
    BY <2>9, <2>10 DEF LockOrder
  <2> QED
    BY <2>1, <2>2, <2>11 DEF M
<1> QED
  BY <1>1, <1>2

-----------------------------------------------------------------------------
(***************************************************************************)
(* The job steps.                                                          *)
(***************************************************************************)

\* Table L differs from the current one in what concerns job t only.
OthersKept(t, L) ==
    \A u \in Msgs \ {t} : /\ L.held[u] = locks.held[u]
                         /\ L.ahead[u] \subseteq locks.ahead[u]

\* Job t moves to at and the lock table becomes L.
MovesTo(t, at, L) ==
    /\ at \in JobPCs \ {"none"}
    /\ pc' = [pc EXCEPT ![t] = at]
    /\ locks' = L
    /\ LockOrder(L)
    /\ OthersKept(t, L)
    /\ at \in {"waitSlot", "ended"} => L.held[t] = Nothing
    /\ at \in {"waitTarget", "calling"} => t \in LockUsers(L, TargetKey(t))
    /\ at \in {"waitSource", "replying"} => t \in LockUsers(L, SourceKey(t))
    /\ at \in {"calling", "replying"} => L.ahead[t] = {}

LockEffect(t) == \E at \in JobPCs : MovesTo(t, at, locks')

LEMMA LeaveLocks ==
    ASSUME NEW t \in Msgs, NEW L \in LockTable, LockOrder(L), OthersKept(t, L),
           LeaveJob(t, L)
    PROVE  LockEffect(t)
<1>1. MovesTo(t, "ended", ReleaseLock(L, t))
  <2>1. OthersKept(t, ReleaseLock(L, t))
    BY ReleaseLockOrder DEF OthersKept
  <2> QED
    BY <2>1, ReleaseLockOrder DEF LeaveJob, MovesTo, JobPCs
<1> QED
  BY <1>1 DEF LockEffect, MovesTo

LEMMA AnnounceLocks ==
    ASSUME NEW t \in Msgs, NEW L, LockOrder(L), OthersKept(t, L), NEW st,
           Announce(t, st, L)
    PROVE  LockEffect(t)
<1>1. MovesTo(t, "finishing", L)
  BY DEF Announce, MovesTo, JobPCs
<1> QED
  BY <1>1 DEF LockEffect, MovesTo

LEMMA FinishLocks ==
    ASSUME NEW t \in Msgs, NEW L \in LockTable, LockOrder(L), OthersKept(t, L),
           NEW st, Finish(t, st, L)
    PROVE  LockEffect(t)
BY LeaveLocks, AnnounceLocks DEF Finish

LEMMA MoveLocks ==
    ASSUME NEW t \in Msgs, NEW at, NEW L, MovesTo(t, at, L)
    PROVE  LockEffect(t)
BY DEF LockEffect, MovesTo

LEMMA JobStepLocks ==
    ASSUME InboxTypeOK, LockInv, NEW t \in Msgs, JobStep(t)
    PROVE  LockEffect(t)
<1> DEFINE L == ReleaseLock(locks, t)
<1>1. /\ locks \in LockTable /\ LockOrder(locks) /\ OthersKept(t, locks)
      /\ JobHolds(t)
      /\ TargetKey(t) \in LockKeys /\ SourceKey(t) \in LockKeys
  BY JobKeys DEF InboxTypeOK, LockInv, OthersKept
<1>2. L \in LockTable /\ LockOrder(L) /\ OthersKept(t, L) /\ L.held[t] = Nothing
  BY <1>1, ReleaseLockType, ReleaseLockOrder DEF OthersKept
<1>3. ASSUME NEW M \in LockTable, LockOrder(M), OthersKept(t, M), M.held[t] = Nothing,
             NEW k \in LockKeys
      PROVE  /\ LockOrder(LockFor(M, t, k))
             /\ OthersKept(t, LockFor(M, t, k))
             /\ t \in LockUsers(LockFor(M, t, k), k)
  BY <1>3, LockForOrder DEF OthersKept
<1> HIDE DEF L
<1>4. CASE Begin(t)
  <2>1. CASE Finish(t, "cancelled", locks)
    BY <1>1, <2>1, FinishLocks
  <2>2. CASE /\ locks' = LockFor(locks, t, TargetKey(t))
             /\ pc' = [pc EXCEPT ![t] = "waitTarget"]
    <3>1. locks.held[t] = Nothing
      BY <1>1, <1>4 DEF Begin, JobHolds
    <3>2. MovesTo(t, "waitTarget", LockFor(locks, t, TargetKey(t)))
      BY <1>1, <1>3, <2>2, <3>1 DEF MovesTo, JobPCs
    <3> QED BY <3>2, MoveLocks
  <2> QED
    BY <1>4, <2>1, <2>2 DEF Begin
<1>5. CASE CallTarget(t)
  <2>1. CASE Finish(t, "cancelled", locks)
    BY <1>1, <2>1, FinishLocks
  <2>2. CASE pc' = [pc EXCEPT ![t] = "calling"] /\ UNCHANGED locks
    <3>1. MovesTo(t, "calling", locks)
      BY <1>1, <1>5, <2>2 DEF CallTarget, HasLock, JobHolds, MovesTo, JobPCs
    <3> QED BY <3>1, MoveLocks
  <2> QED
    BY <1>5, <2>1, <2>2 DEF CallTarget
<1>6. CASE TargetReturns(t)
  <2>1. CASE Finish(t, "cancelled", L)
    BY <1>2, <2>1, FinishLocks
  <2>2. CASE /\ locks' = LockFor(L, t, SourceKey(t))
             /\ pc' = [pc EXCEPT ![t] = "waitSource"]
    <3>1. MovesTo(t, "waitSource", LockFor(L, t, SourceKey(t)))
      BY <1>1, <1>2, <1>3, <2>2 DEF MovesTo, JobPCs
    <3> QED BY <3>1, MoveLocks
  <2> QED
    BY <1>6, <2>1, <2>2 DEF TargetReturns, L
<1>7. CASE CallSource(t)
  <2>1. CASE Finish(t, "cancelled", locks)
    BY <1>1, <2>1, FinishLocks
  <2>2. CASE pc' = [pc EXCEPT ![t] = "replying"] /\ UNCHANGED locks
    <3>1. MovesTo(t, "replying", locks)
      BY <1>1, <1>7, <2>2 DEF CallSource, HasLock, JobHolds, MovesTo, JobPCs
    <3> QED BY <3>1, MoveLocks
  <2>3. CASE Announce(t, "failed", L)
    BY <1>2, <2>3, AnnounceLocks
  <2>4. CASE LeaveJob(t, locks)
    BY <1>1, <2>4, LeaveLocks
  <2> QED
    BY <1>7, <2>1, <2>2, <2>3, <2>4 DEF CallSource, L
<1>8. CASE SourceReturns(t)
  <2>1. \E st : Finish(t, st, locks)
    BY <1>8 DEF SourceReturns
  <2> QED
    BY <1>1, <2>1, FinishLocks
<1>9. CASE OnReplyEnds(t)
  BY <1>1, <1>9, LeaveLocks DEF OnReplyEnds
<1>10. CASE Interrupt(t)
  <2>1. CASE /\ pc[t] = "waitSlot"
             /\ pc' = [pc EXCEPT ![t] = "ended"]
             /\ UNCHANGED locks
    <3>1. MovesTo(t, "ended", locks)
      BY <1>1, <2>1 DEF JobHolds, MovesTo, JobPCs
    <3> QED BY <3>1, MoveLocks
  <2>2. CASE Announce(t, "failed", L)
    BY <1>2, <2>2, AnnounceLocks
  <2>3. CASE LeaveJob(t, locks)
    BY <1>1, <2>3, LeaveLocks
  <2> QED
    BY <1>10, <2>1, <2>2, <2>3 DEF Interrupt, L
<1> QED
  BY <1>4, <1>5, <1>6, <1>7, <1>8, <1>9, <1>10 DEF JobStep

-----------------------------------------------------------------------------
(***************************************************************************)
(* LockInv is inductive.                                                   *)
(***************************************************************************)

LEMMA JobStepQueue ==
    ASSUME InboxTypeOK, QueuedOnce, NEW t \in Msgs, JobStep(t), LockEffect(t)
    PROVE  QueuedOnce'
<1>1. /\ pc[t] \in JobPCs \ {"none", "ended"}
      /\ UNCHANGED queue
  BY DEF JobStep, Begin, CallTarget, TargetReturns, CallSource, SourceReturns,
         OnReplyEnds, Interrupt, InboxTypeOK, JobPCs
<1>2. PICK at \in JobPCs \ {"none"} : pc' = [pc EXCEPT ![t] = at]
  BY DEF LockEffect, MovesTo
<1>3. \A m \in Msgs : status'[m] = status[m] \/ status'[m] # "new"
  <2> DEFINE Set(st) == status' = [status EXCEPT ![job[t]] = st]
  <2>1. \/ UNCHANGED status
        \/ Set("running") \/ Set("replying") \/ Set("failed") \/ Set("cancelled")
        \/ Set(outcome[t])
    <3>1. ASSUME NEW st, NEW M, Finish(t, st, M) PROVE Set(st) \/ UNCHANGED status
      BY <3>1 DEF Finish, Announce
    <3>2. ASSUME NEW M, Announce(t, "failed", M) PROVE Set("failed")
      BY <3>2 DEF Announce
    <3> QED
      BY <3>1, <3>2 DEF JobStep, Begin, CallTarget, TargetReturns, CallSource,
                        SourceReturns, OnReplyEnds, Interrupt
  <2>2. outcome[t] # "new"
    BY DEF InboxTypeOK
  <2> QED
    BY <2>1, <2>2 DEF InboxTypeOK
<1>4. \A m \in Msgs : pc[m] = "none" => pc'[m] = "none"
  BY <1>1, <1>2 DEF InboxTypeOK
<1>5. \A n \in 1..Len(queue) : queue[n] # Poison => queue[n] \in Msgs
  BY DEF InboxTypeOK
<1> QED
  BY <1>1, <1>3, <1>4, <1>5 DEF QueuedOnce

LEMMA JobStepLockInv ==
    ASSUME InboxTypeOK, LockInv, NEW t \in Msgs, JobStep(t)
    PROVE  LockInv'
<1>1. LockEffect(t)
  BY JobStepLocks
<1>2. PICK at \in JobPCs : MovesTo(t, at, locks')
  BY <1>1 DEF LockEffect
<1>3. UNCHANGED job
  BY DEF JobStep
<1>4. ASSUME NEW u \in Msgs PROVE JobHolds(u)'
  <2>1. JobHolds(u)
    BY DEF LockInv
  <2>2. CASE u = t
    BY <1>2, <1>3, <2>2 DEF MovesTo, JobHolds, InboxTypeOK, TargetKey, SourceKey
  <2>3. CASE u # t
    <3>1. /\ pc'[u] = pc[u]
          /\ locks'.held[u] = locks.held[u]
          /\ locks'.ahead[u] \subseteq locks.ahead[u]
      BY <1>2, <2>3 DEF MovesTo, OthersKept, InboxTypeOK
    <3> QED
      BY <1>3, <2>1, <3>1 DEF JobHolds, LockUsers, TargetKey, SourceKey
  <2> QED BY <2>2, <2>3
<1>5. QueuedOnce'
  BY <1>1, JobStepQueue DEF LockInv
<1> QED
  BY <1>2, <1>4, <1>5 DEF LockInv, MovesTo

LEMMA DispatchLockInv ==
    ASSUME InboxTypeOK, LockInv, NEW w \in Msgs, Dispatch(w)
    PROVE  LockInv'
<1> DEFINE m == Head(queue)
<1>1. UNCHANGED locks
  BY DEF Dispatch
<1>2. QueuedOnce'
  BY DispatchQueue DEF LockInv
<1>3. ASSUME NEW u \in Msgs PROVE JobHolds(u)'
  <2>1. JobHolds(u)
    BY DEF LockInv
  <2>2. CASE pc'[u] = pc[u] /\ job'[u] = job[u]
    BY <1>1, <2>1, <2>2 DEF JobHolds, LockUsers, TargetKey, SourceKey
  <2>3. CASE m # Poison /\ u = m /\ pc' = [pc EXCEPT ![m] = "waitSlot"]
    <3>1. queue # <<>>
      BY DEF Dispatch
    <3>2. m = queue[1] /\ 1 \in 1..Len(queue)
      BY <3>1 DEF InboxTypeOK
    <3>3. pc[u] = "none"
      BY <2>3, <3>2 DEF LockInv, QueuedOnce
    <3>4. pc'[u] = "waitSlot"
      BY <2>3 DEF InboxTypeOK
    <3> QED
      BY <1>1, <2>1, <3>3, <3>4 DEF JobHolds
  <2>4. \/ UNCHANGED <<pc, job>>
        \/ /\ m # Poison
           /\ pc' = [pc EXCEPT ![m] = "waitSlot"]
           /\ job' = [job EXCEPT ![m] = box[JobIdOf[m]]]
    BY DEF Dispatch
  <2> QED
    BY <2>2, <2>3, <2>4 DEF InboxTypeOK
<1> QED
  BY <1>1, <1>2, <1>3 DEF LockInv

LEMMA LockInductive ==
    ASSUME InboxTypeOK, LockInv, [InboxNext]_inboxVars
    PROVE  LockInv'
<1>1. ASSUME UNCHANGED <<pc, job, locks>>, QueuedOnce' PROVE LockInv'
  BY <1>1 DEF LockInv, JobHolds, LockUsers, TargetKey, SourceKey
<1>2. ASSUME NEW m \in Msgs, Enqueue(m) PROVE LockInv'
  BY <1>1, <1>2, EnqueueQueue DEF LockInv, Enqueue, jobVars
<1>3. ASSUME NEW i \in JobIds, Cancel(i) PROVE LockInv'
  <2>1. QueuedOnce'
    BY <1>3 DEF Cancel, jobVars, InboxTypeOK, LockInv, QueuedOnce
  <2> QED
    BY <1>1, <1>3, <2>1 DEF Cancel, jobVars
<1>4. ASSUME NEW c \in Closers, Shutdown(c) \/ Join(c) \/ Gathered(c) PROVE LockInv'
  <2>1. UNCHANGED <<pc, job, locks>>
    BY <1>4 DEF Shutdown, Join, Gathered, ShutdownFrame, jobVars
  <2> QED
    BY <1>1, <1>4, <2>1, CloserQueue DEF LockInv
<1>5. CASE CancelWorker \/ UNCHANGED inboxVars
  <2>1. UNCHANGED <<pc, job, locks, queue, status>>
    BY <1>5 DEF CancelWorker, inboxVars, jobVars
  <2> QED
    BY <1>1, <2>1 DEF LockInv, QueuedOnce
<1>6. ASSUME NEW w \in Msgs, Dispatch(w) PROVE LockInv'
  BY <1>6, DispatchLockInv
<1>7. ASSUME NEW t \in Msgs, JobStep(t) PROVE LockInv'
  BY <1>7, JobStepLockInv
<1> QED
  BY <1>2, <1>3, <1>4, <1>5, <1>6, <1>7 DEF InboxNext, HostStep, LoopStep

LEMMA InitLockInv == InboxInit => LockInv
<1> SUFFICES ASSUME InboxInit PROVE LockInv
  OBVIOUS
<1>1. \A k \in LockKeys : LockUsers(locks, k) = {}
  BY DEF InboxInit, LockUsers
<1>2. LockOrder(locks)
  BY <1>1, FS_EmptySet DEF InboxInit, LockOrder
<1>3. QueuedOnce /\ \A t \in Msgs : JobHolds(t)
  BY DEF InboxInit, QueuedOnce, JobHolds
<1> QED
  BY <1>2, <1>3 DEF LockInv

LEMMA LockInvariant == InboxSpec => []LockInv
<1>1. InboxTypeOK /\ LockInv /\ [InboxNext]_inboxVars => LockInv'
  BY LockInductive
<1> QED
  BY <1>1, InitLockInv, InboxTypeCorrect, PTL DEF InboxSpec

\* The callee's lock excludes: no two calls to one agent at a time, and no two
\* follow-ups into one source thread.
THEOREM InboxExclusion == InboxSpec => [](CalleeSerial /\ FollowupSerial)
<1>1. InboxTypeOK /\ LockInv => CalleeSerial /\ FollowupSerial
  <2> SUFFICES ASSUME InboxTypeOK, LockInv,
                      NEW t \in Msgs, NEW u \in Msgs, t # u,
                      NEW k \in LockKeys, t \in LockUsers(locks, k), u \in LockUsers(locks, k),
                      locks.ahead[t] = {}, locks.ahead[u] = {}
               PROVE  FALSE
    BY JobKeys DEF CalleeSerial, FollowupSerial, LockInv, JobHolds
  <2>1. locks.held[t] = locks.held[u] /\ locks.held[t] # Nothing
    <3>1. /\ locks.held[t] = locks.bucket[k]
          /\ locks.held[u] = locks.bucket[k]
      BY DEF LockInv, LockOrder
    <3>2. locks.held[t] # Nothing
      BY DEF LockUsers
    <3> QED
      BY <3>1, <3>2
  <2> QED
    BY <2>1 DEF LockInv, LockOrder
<1> QED
  BY <1>1, InboxTypeCorrect, LockInvariant, PTL

\* The lock tables always hold exactly the locks in use and count their users.
THEOREM InboxLockTableExact == InboxSpec => []LockTableExact
<1>1. LockInv => LockTableExact
  BY DEF LockInv, LockOrder, LockTableExact
<1> QED
  BY <1>1, LockInvariant, PTL

-----------------------------------------------------------------------------
(***************************************************************************)
(* What a job touches: its own status, its own entries in _messages and    *)
(* _tasks.                                                                 *)
(***************************************************************************)

StaysInScope(t) ==
    /\ pc[t] \notin {"none", "ended"}
    /\ \E at \in JobPCs \ {"none"} : pc' = [pc EXCEPT ![t] = at]
    /\ \A u \in Msgs \ {t} : status'[u] = status[u]
    /\ status'[t] # "new"
    /\ \A i \in JobIds \ {JobIdOf[t]} : box'[i] = box[i] /\ tasks'[i] = tasks[i]
    /\ pc'[t] # "ended" => tasks' = tasks
    /\ UNCHANGED <<queue, worker, live, closer, joins, gathers, owed, stops>>

LEMMA JobStepEntries ==
    ASSUME InboxTypeOK, OwnMessage, NEW t \in Msgs, JobStep(t)
    PROVE  /\ \A i \in JobIds \ {JobIdOf[t]} : box'[i] = box[i] /\ tasks'[i] = tasks[i]
           /\ pc'[t] # "ended" => tasks' = tasks
<1>1. job[t] = t
  BY DEF OwnMessage
<1>2. \A i \in JobIds \ {JobIdOf[t]} : box'[i] = box[i]
  BY <1>1 DEF JobStep, Begin, CallTarget, TargetReturns, CallSource, SourceReturns,
              OnReplyEnds, Interrupt, Prune, InboxTypeOK
<1>3. UNCHANGED tasks \/ \E L : LeaveJob(t, L)
  <2>1. ASSUME NEW st, NEW L, Finish(t, st, L) PROVE UNCHANGED tasks \/ LeaveJob(t, L)
    BY <2>1 DEF Finish, Announce
  <2>2. ASSUME NEW st, NEW L, Announce(t, st, L) PROVE UNCHANGED tasks
    BY <2>2 DEF Announce
  <2> QED
    BY <2>1, <2>2 DEF JobStep, Begin, CallTarget, TargetReturns, CallSource, SourceReturns,
                      OnReplyEnds, Interrupt
<1>4. ASSUME NEW L, LeaveJob(t, L)
      PROVE  pc'[t] = "ended" /\ \A i \in JobIds \ {JobIdOf[t]} : tasks'[i] = tasks[i]
  BY <1>1, <1>4 DEF LeaveJob, InboxTypeOK
<1> QED
  BY <1>2, <1>3, <1>4

LEMMA JobStepScope ==
    ASSUME InboxTypeOK, DeliveryInv, NEW t \in Msgs, JobStep(t)
    PROVE  StaysInScope(t)
<1>1. JobEffect(t)
  BY JobStepEffect DEF DeliveryInv
<1>2. /\ \A i \in JobIds \ {JobIdOf[t]} : box'[i] = box[i] /\ tasks'[i] = tasks[i]
      /\ pc'[t] # "ended" => tasks' = tasks
  BY JobStepEntries DEF DeliveryInv
<1>3. UNCHANGED <<queue, worker, live, closer, joins, gathers, owed, stops>>
  BY DEF JobStep, hostVars
<1>4. status[t] # "new" \/ pc[t] = "none"
  BY DEF DeliveryInv, QueuedOnce
<1>5. ASSUME NEW st \in Terminal, Announces(t, st) PROVE StaysInScope(t)
  BY <1>2, <1>3, <1>5 DEF Announces, StaysInScope, InboxTypeOK, Terminal, JobPCs
<1>6. ASSUME NEW at \in JobPCs, Advances(t, at) PROVE StaysInScope(t)
  BY <1>2, <1>3, <1>4, <1>6 DEF Advances, StaysInScope, InboxTypeOK
<1> QED
  BY <1>1, <1>5, <1>6 DEF JobEffect, Progresses

-----------------------------------------------------------------------------
(***************************************************************************)
(* Nothing is left behind.                                                 *)
(***************************************************************************)

\* A job that is not interrupted ends only with its task forgotten and, unless
\* its hooks raise an alien error, its message pruned; it waits for on_reply
\* only with a final status.
EndsClean(t) ==
    /\ pc'[t] = "ended" => /\ tasks'[JobIdOf[t]] = Nothing
                           /\ t \notin AlienErrors => box'[JobIdOf[t]] # t
    /\ pc'[t] = "finishing" => status'[t] \in Terminal
    /\ interrupted' = {}

LEMMA FinishClean ==
    ASSUME InboxTypeOK, OwnMessage, NEW t \in Msgs, NEW L, NEW st \in Terminal,
           Finish(t, st, L), UNCHANGED box, interrupted' = {}
    PROVE  EndsClean(t)
<1>1. job[t] = t /\ JobIdOf[t] \in JobIds
  BY DEF OwnMessage
<1>2. CASE box[JobIdOf[t]] = Nothing /\ LeaveJob(t, L)
  BY <1>1, <1>2 DEF LeaveJob, EndsClean, InboxTypeOK
<1>3. CASE Announce(t, st, L)
  BY <1>1, <1>3 DEF Announce, EndsClean, InboxTypeOK
<1> QED
  BY <1>1, <1>2, <1>3 DEF Finish

LEMMA JobStepClean ==
    ASSUME stops = 0, InboxTypeOK, DeliveryInv, ResidueInv, NEW t \in Msgs, JobStep(t)
    PROVE  EndsClean(t)
<1>1. /\ job[t] = t /\ JobIdOf[t] \in JobIds /\ OwnMessage
      /\ interrupted = {}
      /\ "cancelled" \in Terminal /\ "failed" \in Terminal /\ outcome[t] \in Terminal
  BY DEF DeliveryInv, OwnMessage, ResidueInv, Terminal, InboxTypeOK
<1>2. ~Interrupt(t)
  BY <1>1 DEF Interrupt
<1>3. interrupted' = {}
  BY <1>1, <1>2 DEF JobStep, Begin, CallTarget, TargetReturns, CallSource,
                    SourceReturns, OnReplyEnds
<1>4. ASSUME NEW L, NEW st \in Terminal, Finish(t, st, L), UNCHANGED box
      PROVE  EndsClean(t)
  BY <1>1, <1>3, <1>4, FinishClean
<1>5. ASSUME NEW at, pc' = [pc EXCEPT ![t] = at], at \notin {"ended", "finishing"}
      PROVE  EndsClean(t)
  BY <1>3, <1>5 DEF EndsClean, InboxTypeOK
<1>6. CASE Begin(t)
  BY <1>1, <1>4, <1>5, <1>6 DEF Begin
<1>7. CASE CallTarget(t)
  BY <1>1, <1>4, <1>5, <1>7 DEF CallTarget
<1>8. CASE TargetReturns(t)
  BY <1>1, <1>4, <1>5, <1>8 DEF TargetReturns
<1>9. CASE CallSource(t)
  <2>1. ASSUME NEW L, Announce(t, "failed", L) PROVE EndsClean(t)
    BY <1>1, <1>3, <2>1 DEF Announce, EndsClean, InboxTypeOK
  <2>2. ASSUME t \in AlienErrors, LeaveJob(t, locks) PROVE EndsClean(t)
    BY <1>1, <1>3, <2>2 DEF LeaveJob, EndsClean, InboxTypeOK
  <2> QED
    BY <1>1, <1>4, <1>5, <1>9, <2>1, <2>2 DEF CallSource
<1>10. CASE SourceReturns(t)
  BY <1>1, <1>4, <1>10 DEF SourceReturns
<1>11. CASE OnReplyEnds(t)
  <2>1. /\ status[t] \in Terminal /\ LeaveJob(t, locks)
        /\ t \notin AlienErrors => Prune(JobIdOf[t])
    BY <1>1, <1>11 DEF OnReplyEnds, ResidueInv
  <2>2. t \notin AlienErrors => box'[JobIdOf[t]] # t
    BY <1>1, <2>1, InboxAssumption DEF Prune, InboxTypeOK
  <2> QED
    BY <1>1, <1>3, <2>1, <2>2 DEF LeaveJob, EndsClean, InboxTypeOK
<1> QED
  BY <1>2, <1>6, <1>7, <1>8, <1>9, <1>10, <1>11 DEF JobStep

LEMMA JobStepResidue ==
    ASSUME UniqueIds, InboxTypeOK, DeliveryInv, ResidueInv, NEW t \in Msgs, JobStep(t)
    PROVE  ResidueInv'
<1> SUFFICES ASSUME stops' = 0 PROVE ResidueInv'
  BY DEF ResidueInv
<1>0. stops = 0
  BY DEF JobStep, hostVars
<1>1. StaysInScope(t) /\ EndsClean(t)
  BY <1>0, JobStepScope, JobStepClean
<1>2. ASSUME NEW u \in Msgs, u # t
      PROVE  /\ JobIdOf[u] \in JobIds \ {JobIdOf[t]}
             /\ pc'[u] = pc[u] /\ status'[u] = status[u]
             /\ box'[JobIdOf[u]] = box[JobIdOf[u]] /\ tasks'[JobIdOf[u]] = tasks[JobIdOf[u]]
  <2>1. JobIdOf[u] \in JobIds \ {JobIdOf[t]}
    BY <1>2 DEF UniqueIds
  <2> QED
    BY <1>1, <1>2, <2>1 DEF StaysInScope, InboxTypeOK
<1>3. pc'[t] # "none"
  BY <1>1 DEF StaysInScope, InboxTypeOK
<1>4. t # Nothing
  BY InboxAssumption
<1> QED
  BY <1>0, <1>1, <1>2, <1>3, <1>4 DEF ResidueInv, EndsClean

LEMMA DispatchResidue ==
    ASSUME UniqueIds, InboxTypeOK, DeliveryInv, ResidueInv, NEW w \in Msgs, Dispatch(w)
    PROVE  ResidueInv'
<1> DEFINE m == Head(queue)
<1>1. UNCHANGED <<box, status, interrupted, stops>> /\ queue # <<>>
  BY DEF Dispatch, hostVars
<1>2. CASE UNCHANGED <<pc, tasks>>
  BY <1>1, <1>2 DEF ResidueInv
<1>3. CASE /\ m # Poison
           /\ pc' = [pc EXCEPT ![m] = "waitSlot"]
           /\ tasks' = [tasks EXCEPT ![JobIdOf[m]] = m]
  <2>1. m \in Msgs /\ JobIdOf[m] \in JobIds
    BY <1>1, <1>3 DEF InboxTypeOK
  <2> HIDE DEF m
  <2>2. ASSUME NEW u \in Msgs, u # m
        PROVE  pc'[u] = pc[u] /\ tasks'[JobIdOf[u]] = tasks[JobIdOf[u]]
    BY <1>3, <2>1, <2>2 DEF UniqueIds, InboxTypeOK
  <2>3. pc'[m] = "waitSlot"
    BY <1>3, <2>1 DEF InboxTypeOK
  <2> QED
    BY <1>1, <2>2, <2>3 DEF ResidueInv
<1> QED
  BY <1>2, <1>3 DEF Dispatch

LEMMA ResidueInductive ==
    ASSUME UniqueIds, InboxTypeOK, DeliveryInv, ResidueInv, [InboxNext]_inboxVars
    PROVE  ResidueInv'
<1>1. ASSUME NEW m \in Msgs, Enqueue(m) PROVE ResidueInv'
  <2>1. /\ pc[m] = "none" /\ JobIdOf[m] \in JobIds
        /\ box' = [box EXCEPT ![JobIdOf[m]] = m]
        /\ status' = [status EXCEPT ![m] = "queued"]
        /\ UNCHANGED <<pc, tasks, interrupted, stops>>
    BY <1>1 DEF Enqueue, jobVars, hostVars, DeliveryInv, QueuedOnce
  <2> QED
    BY <2>1 DEF ResidueInv, InboxTypeOK, UniqueIds
<1>2. ASSUME NEW i \in JobIds, Cancel(i) PROVE ResidueInv'
  BY <1>2 DEF Cancel, jobVars, hostVars, ResidueInv, InboxTypeOK, Terminal
<1>3. ASSUME NEW c \in Closers, Shutdown(c) \/ Join(c) \/ Gathered(c) PROVE ResidueInv'
  BY <1>3 DEF Shutdown, Join, Gathered, ShutdownFrame, jobVars, ResidueInv
<1>4. CASE CancelWorker
  BY <1>4 DEF CancelWorker, InboxTypeOK, ResidueInv
<1>5. ASSUME NEW w \in Msgs, Dispatch(w) PROVE ResidueInv'
  BY <1>5, DispatchResidue
<1>6. ASSUME NEW t \in Msgs, JobStep(t) PROVE ResidueInv'
  BY <1>6, JobStepResidue
<1>7. CASE UNCHANGED inboxVars
  BY <1>7 DEF inboxVars, jobVars, hostVars, ResidueInv
<1> QED
  BY <1>1, <1>2, <1>3, <1>4, <1>5, <1>6, <1>7 DEF InboxNext, HostStep, LoopStep

\* With distinct job ids and until cancel_worker() is called, a job whose hooks
\* raise only what the code guards against leaves nothing in _messages or
\* _tasks when it ends, whatever the hooks of other jobs raise.
THEOREM InboxNoResidue ==
    UniqueIds => (InboxSpec => []NoResidue)
<1> SUFFICES ASSUME UniqueIds PROVE InboxSpec => []NoResidue
  OBVIOUS
<1>1. InboxInit => ResidueInv
  BY DEF InboxInit, ResidueInv
<1>2. InboxTypeOK /\ DeliveryInv /\ ResidueInv /\ [InboxNext]_inboxVars => ResidueInv'
  BY ResidueInductive
<1>3. ResidueInv => NoResidue
  BY DEF ResidueInv, NoResidue
<1> QED
  BY <1>1, <1>2, <1>3, InboxTypeCorrect, DeliveryInvariant, PTL DEF InboxSpec

-----------------------------------------------------------------------------
(***************************************************************************)
(* shutdown() waits for what was accepted before it was called.            *)
(***************************************************************************)

OneCloser == \A c, d \in Closers : c = d

LEMMA LocatedInductive ==
    ASSUME UniqueIds, InboxTypeOK, DeliveryInv, Located, [InboxNext]_inboxVars
    PROVE  Located'
<1>1. ASSUME UNCHANGED <<box, pc, tasks, queue>>,
             \A m \in Msgs : status[m] = "new" => status'[m] = "new"
      PROVE  Located'
  BY <1>1 DEF Located
<1>2. ASSUME NEW m \in Msgs, Enqueue(m) PROVE Located'
  <2>1. /\ box' = [box EXCEPT ![JobIdOf[m]] = m]
        /\ status' = [status EXCEPT ![m] = "queued"]
        /\ queue' = Append(queue, m)
        /\ UNCHANGED <<pc, tasks>>
    BY <1>2 DEF Enqueue, jobVars
  <2>2. /\ Len(queue) + 1 \in 1..Len(queue')
        /\ queue'[Len(queue) + 1] = m
        /\ \A n \in 1..Len(queue) : n \in 1..Len(queue') /\ queue'[n] = queue[n]
    BY <2>1 DEF InboxTypeOK
  <2>3. ASSUME NEW u \in Msgs, pc'[u] = "none", status'[u] # "new"
        PROVE  box'[JobIdOf[u]] = u /\ \E n \in 1..Len(queue') : queue'[n] = u
    <3>1. CASE u = m
      BY <2>1, <2>2, <3>1 DEF InboxTypeOK
    <3>2. CASE u # m
      <4>1. JobIdOf[u] # JobIdOf[m]
        BY <3>2 DEF UniqueIds
      <4> QED
        BY <2>1, <2>2, <2>3, <3>2, <4>1 DEF InboxTypeOK, Located
    <3> QED
      BY <3>1, <3>2
  <2> QED
    BY <2>1, <2>3 DEF Located
<1>3. ASSUME NEW w \in Msgs, Dispatch(w) PROVE Located'
  <2> DEFINE m == Head(queue)
  <2>1. /\ queue # <<>>
        /\ queue' = Tail(queue)
        /\ UNCHANGED <<box, status>>
    BY <1>3 DEF Dispatch
  <2>2. /\ m = queue[1] /\ 1 \in 1..Len(queue) /\ m \in Msgs \cup {Poison}
        /\ \A n \in 1..Len(queue) : n = 1 \/ (n - 1 \in 1..Len(queue') /\ queue'[n - 1] = queue[n])
    BY <2>1 DEF InboxTypeOK
  <2>3. ASSUME m \in Msgs PROVE box[JobIdOf[m]] = m
    BY <2>2, <2>3, InboxAssumption DEF DeliveryInv, QueuedOnce, Located
  <2>4. CASE UNCHANGED <<pc, tasks>> /\ m \notin Msgs
    <3>1. ASSUME NEW u \in Msgs, \E n \in 1..Len(queue) : queue[n] = u
          PROVE  \E n \in 1..Len(queue') : queue'[n] = u
      BY <2>2, <2>4, <3>1
    <3> QED
      BY <2>1, <2>4, <3>1 DEF Located
  <2>5. CASE /\ m \in Msgs
             /\ pc' = [pc EXCEPT ![m] = "waitSlot"]
             /\ tasks' = [tasks EXCEPT ![JobIdOf[m]] = m]
    <3> HIDE DEF m
    <3>1. ASSUME NEW u \in Msgs, u # m
          PROVE  /\ pc'[u] = pc[u] /\ tasks'[JobIdOf[u]] = tasks[JobIdOf[u]]
                 /\ (\E n \in 1..Len(queue) : queue[n] = u)
                       => \E n \in 1..Len(queue') : queue'[n] = u
      <4>1. JobIdOf[u] # JobIdOf[m]
        BY <2>5, <3>1 DEF UniqueIds
      <4> QED
        BY <2>2, <2>5, <3>1, <4>1 DEF InboxTypeOK
    <3>2. pc'[m] = "waitSlot" /\ tasks'[JobIdOf[m]] = m
      BY <2>5 DEF InboxTypeOK
    <3> QED
      BY <2>1, <3>1, <3>2 DEF Located
  <2>6. \/ UNCHANGED <<pc, tasks>> /\ m = Poison
        \/ m # Poison /\ box[JobIdOf[m]] = Nothing
        \/ /\ m # Poison
           /\ pc' = [pc EXCEPT ![m] = "waitSlot"]
           /\ tasks' = [tasks EXCEPT ![JobIdOf[m]] = m]
    BY <1>3 DEF Dispatch
  <2> QED
    BY <2>2, <2>3, <2>4, <2>5, <2>6, InboxAssumption
<1>4. ASSUME NEW t \in Msgs, JobStep(t) PROVE Located'
  <2>1. StaysInScope(t)
    BY <1>4, JobStepScope
  <2>2. ASSUME NEW u \in Msgs, u # t
        PROVE  /\ pc'[u] = pc[u] /\ status'[u] = status[u]
               /\ box'[JobIdOf[u]] = box[JobIdOf[u]] /\ tasks'[JobIdOf[u]] = tasks[JobIdOf[u]]
    <3>1. JobIdOf[u] \in JobIds \ {JobIdOf[t]}
      BY <2>2 DEF UniqueIds
    <3> QED
      BY <2>1, <2>2, <3>1 DEF StaysInScope, InboxTypeOK
  <2>3. /\ pc'[t] # "none"
        /\ pc'[t] # "ended" => tasks'[JobIdOf[t]] = tasks[JobIdOf[t]]
        /\ pc[t] \notin {"none", "ended"}
        /\ UNCHANGED queue
    BY <2>1 DEF StaysInScope, InboxTypeOK
  <2>4. ASSUME NEW u \in Msgs, pc'[u] = "none", status'[u] # "new"
        PROVE  box'[JobIdOf[u]] = u /\ \E n \in 1..Len(queue') : queue'[n] = u
    <3>1. u # t /\ pc[u] = "none" /\ status[u] # "new"
      BY <2>2, <2>3, <2>4
    <3> QED
      BY <2>2, <2>3, <3>1 DEF Located
  <2>5. ASSUME NEW u \in Msgs, pc'[u] \notin {"none", "ended"} PROVE tasks'[JobIdOf[u]] = u
    BY <2>2, <2>3, <2>5 DEF Located
  <2> QED
    BY <2>4, <2>5 DEF Located
<1>5. ASSUME NEW c \in Closers, Shutdown(c) \/ Join(c) \/ Gathered(c) PROVE Located'
  <2>1. UNCHANGED <<box, status, pc, tasks>>
    BY <1>5 DEF Shutdown, Join, Gathered, ShutdownFrame, jobVars
  <2>2. queue' = queue \/ queue' = Append(queue, Poison)
    BY <1>5 DEF Shutdown, Join, Gathered
  <2>3. \A n \in 1..Len(queue) : n \in 1..Len(queue') /\ queue'[n] = queue[n]
    <3>1. CASE queue' = queue
      BY <3>1
    <3>2. CASE queue' = Append(queue, Poison)
      BY <3>2 DEF InboxTypeOK
    <3> QED
      BY <2>2, <3>1, <3>2
  <2>4. ASSUME NEW u \in Msgs, pc[u] = "none", status[u] # "new"
        PROVE  box[JobIdOf[u]] = u /\ \E n \in 1..Len(queue') : queue'[n] = u
    <3>1. box[JobIdOf[u]] = u
      BY <2>4 DEF Located
    <3>2. PICK n \in 1..Len(queue) : queue[n] = u
      BY <2>4 DEF Located
    <3> QED
      BY <2>3, <3>1, <3>2
  <2> QED
    BY <2>1, <2>4 DEF Located
<1>6. ASSUME NEW i \in JobIds, Cancel(i) PROVE Located'
  BY <1>1, <1>6 DEF Cancel, jobVars, InboxTypeOK, DeliveryInv, OwnMessage
<1>7. CASE CancelWorker \/ UNCHANGED inboxVars
  BY <1>1, <1>7 DEF CancelWorker, inboxVars, jobVars
<1> QED
  BY <1>2, <1>3, <1>4, <1>5, <1>6, <1>7 DEF InboxNext, HostStep, LoopStep

\* What changes nothing that the order of a drain is about.
LEMMA DrainKept ==
    ASSUME UNCHANGED <<queue, worker, live, pc, closer, joins, gathers, owed>>,
           Accepted' = Accepted, NEW c \in Closers, DrainOrder(c)
    PROVE  DrainOrder(c)'
BY DEF DrainOrder, Spawned, BeforeSentinel

LEMMA EnqueueDrains ==
    ASSUME InboxTypeOK, NEW c \in Closers, DrainOrder(c), NEW m \in Msgs, Enqueue(m)
    PROVE  DrainOrder(c)'
<1>1. /\ queue' = Append(queue, m)
      /\ StartWorker(m)
      /\ UNCHANGED <<pc, closer, joins, gathers, owed>>
  BY DEF Enqueue, jobVars, hostVars
<1>2. /\ 1..Len(queue') = 1..Len(queue) \cup {Len(queue) + 1}
      /\ queue'[Len(queue) + 1] = m
      /\ \A n \in 1..Len(queue) : queue'[n] = queue[n]
      /\ Len(queue) \in Nat
  BY <1>1 DEF InboxTypeOK
<1>3. m # Poison /\ m # Nothing
  BY InboxAssumption
<1>4. ASSUME live = {worker} PROVE UNCHANGED <<worker, live>>
  BY <1>1, <1>4 DEF StartWorker
<1>5. ASSUME closer[c] = "idle"
      PROVE  /\ \A n \in 1..Len(queue') : queue'[n] # Poison
             /\ IF worker' = Nothing THEN live' = {} /\ Accepted' = {} ELSE live' = {worker'}
  <2>1. \A n \in 1..Len(queue') : queue'[n] # Poison
    BY <1>2, <1>3, <1>5 DEF DrainOrder
  <2>2. live' = {worker'} /\ worker' # Nothing
    BY <1>1, <1>3, <1>4, <1>5 DEF DrainOrder, StartWorker
  <2> QED
    BY <2>1, <2>2
<1>6. ASSUME BeforeSentinel(owed[c]) PROVE BeforeSentinel(owed[c])'
  <2>1. PICK k \in 1..Len(queue) :
           /\ queue[k] = Poison
           /\ \A n \in 1..(k - 1) : queue[n] # Poison
           /\ \A x \in owed[c] : pc[x] = "none" => \E n \in 1..(k - 1) : queue[n] = x
    BY <1>6 DEF BeforeSentinel
  <2>2. k \in 1..Len(queue') /\ \A n \in 1..(k - 1) : queue'[n] = queue[n]
    BY <1>2
  <2>3. queue'[k] = Poison /\ \A n \in 1..(k - 1) : queue'[n] # Poison
    BY <1>2, <2>1, <2>2
  <2>4. \A x \in owed[c] : pc[x] = "none" => \E n \in 1..(k - 1) : queue'[n] = x
    BY <2>1, <2>2
  <2> QED
    BY <1>1, <2>2, <2>3, <2>4 DEF BeforeSentinel
<1> QED
  BY <1>1, <1>4, <1>5, <1>6 DEF DrainOrder, Spawned

LEMMA DispatchDrains ==
    ASSUME InboxTypeOK, DeliveryInv, Located, NEW c \in Closers, DrainOrder(c),
           NEW w \in Msgs, Dispatch(w)
    PROVE  DrainOrder(c)'
<1> DEFINE m == Head(queue)
<1>1. /\ queue # <<>>
      /\ queue' = Tail(queue)
      /\ w \in live
      /\ UNCHANGED <<status, worker, closer, joins, gathers, owed>>
  BY DEF Dispatch, hostVars
<1>2. /\ m = queue[1] /\ 1 \in 1..Len(queue) /\ m \in Msgs \cup {Poison}
      /\ Len(queue) \in Nat /\ Len(queue') = Len(queue) - 1
      /\ \A n \in 1..Len(queue') : n + 1 \in 1..Len(queue) /\ queue'[n] = queue[n + 1]
  BY <1>1 DEF InboxTypeOK
<1>3. ASSUME m \in Msgs PROVE pc[m] = "none" /\ box[JobIdOf[m]] = m
  BY <1>2, <1>3, InboxAssumption DEF DeliveryInv, QueuedOnce, Located
<1>4. \/ m = Poison /\ live' = live \ {w} /\ UNCHANGED pc
      \/ m # Poison /\ m \in Msgs /\ live' = live /\ pc' = [pc EXCEPT ![m] = "waitSlot"]
  <2>1. m # Poison => m \in Msgs /\ m # Nothing
    BY <1>2, InboxAssumption
  <2> QED
    BY <1>3, <2>1 DEF Dispatch
<1> HIDE DEF m
<1>5. \A u \in Msgs : /\ pc[u] # "none" => pc'[u] = pc[u]
                      /\ pc'[u] = "none" => pc[u] = "none" /\ u # m
  BY <1>3, <1>4, InboxAssumption DEF InboxTypeOK
<1>6. owed[c] \subseteq Msgs /\ Accepted' = Accepted
  BY <1>1 DEF InboxTypeOK, Accepted
<1>7. ASSUME closer[c] = "idle"
      PROVE  /\ \A n \in 1..Len(queue') : queue'[n] # Poison
             /\ live' = live
  BY <1>2, <1>4, <1>7 DEF DrainOrder
<1>8. ASSUME Spawned(owed[c]) PROVE Spawned(owed[c])'
  BY <1>1, <1>5, <1>6, <1>8 DEF Spawned
<1>9. ASSUME worker = joins[c], live = {worker}, BeforeSentinel(owed[c])
      PROVE  Spawned(owed[c])' \/ (live' = {worker} /\ BeforeSentinel(owed[c])')
  <2>1. PICK k \in 1..Len(queue) :
           /\ queue[k] = Poison
           /\ \A n \in 1..(k - 1) : queue[n] # Poison
           /\ \A x \in owed[c] : pc[x] = "none" => \E n \in 1..(k - 1) : queue[n] = x
    BY <1>9 DEF BeforeSentinel
  <2>2. CASE m = Poison
    <3>1. k = 1
      <4>1. CASE k # 1
        <5>1. 1 \in 1..(k - 1)
          BY <4>1
        <5> QED
          BY <1>2, <2>1, <2>2, <5>1
      <4> QED
        BY <4>1
    <3> QED
      BY <1>1, <1>4, <1>6, <2>1, <2>2, <3>1 DEF Spawned
  <2>3. CASE m # Poison
    <3>1. k - 1 \in 1..Len(queue') /\ queue'[k - 1] = Poison
      BY <1>2, <2>1, <2>3
    <3>2. \A n \in 1..((k - 1) - 1) : queue'[n] # Poison
      BY <1>2, <2>1
    <3>3. ASSUME NEW x \in owed[c], pc'[x] = "none"
          PROVE  \E n \in 1..((k - 1) - 1) : queue'[n] = x
      <4>1. pc[x] = "none" /\ x # m
        BY <1>5, <1>6, <3>3
      <4>2. PICK n \in 1..(k - 1) : queue[n] = x
        BY <2>1, <4>1
      <4>3. n - 1 \in 1..((k - 1) - 1) /\ queue'[n - 1] = x
        BY <1>2, <4>1, <4>2
      <4> QED
        BY <4>3
    <3>4. live' = {worker}
      BY <1>4, <1>9, <2>3
    <3> QED
      BY <1>1, <3>1, <3>2, <3>3, <3>4 DEF BeforeSentinel
  <2> QED
    BY <2>2, <2>3
<1>10. ASSUME NEW u \in owed[c] PROVE /\ pc[u] = "ended" => pc'[u] = "ended"
                                      /\ pc[u] # "none" => pc'[u] # "none"
  BY <1>5, <1>6
<1> QED
  BY <1>1, <1>6, <1>7, <1>8, <1>9, <1>10 DEF DrainOrder

LEMMA JobStepDrains ==
    ASSUME InboxTypeOK, DeliveryInv, NEW c \in Closers, DrainOrder(c), NEW t \in Msgs, JobStep(t)
    PROVE  DrainOrder(c)'
<1>1. /\ pc[t] \notin {"none", "ended"}
      /\ pc'[t] # "none"
      /\ \A u \in Msgs \ {t} : pc'[u] = pc[u] /\ status'[u] = status[u]
      /\ status'[t] # "new"
      /\ UNCHANGED <<queue, worker, live, closer, joins, gathers, owed>>
  BY JobStepScope DEF StaysInScope, InboxTypeOK
<1>2. Accepted' = Accepted
  BY <1>1 DEF Accepted, DeliveryInv, QueuedOnce
<1>3. owed[c] \subseteq Msgs
  BY DEF InboxTypeOK
<1>4. \A u \in owed[c] : /\ pc'[u] = "none" <=> pc[u] = "none"
                         /\ pc[u] = "ended" => pc'[u] = "ended"
  BY <1>1, <1>3
<1>5. Spawned(owed[c]) => Spawned(owed[c])'
  BY <1>1, <1>4 DEF Spawned
<1>6. BeforeSentinel(owed[c]) => BeforeSentinel(owed[c])'
  BY <1>1, <1>4 DEF BeforeSentinel
<1> QED
  BY <1>1, <1>2, <1>4, <1>5, <1>6 DEF DrainOrder

LEMMA ShutdownDrains ==
    ASSUME InboxTypeOK, Located, NEW c \in Closers, DrainOrder(c), Shutdown(c)
    PROVE  DrainOrder(c)'
<1>1. /\ closer[c] = "idle"
      /\ owed' = [owed EXCEPT ![c] = Accepted]
      /\ UNCHANGED <<pc, live, status>>
  BY DEF Shutdown, ShutdownFrame, jobVars
<1>2. owed'[c] = Accepted
  BY <1>1 DEF InboxTypeOK
<1>3. CASE worker = Nothing
  <2>1. owed'[c] = {}
    BY <1>1, <1>2, <1>3 DEF DrainOrder
  <2>2. closer'[c] \in {"closed", "gathering"}
    BY <1>3 DEF Shutdown, GatherOrReturn, InboxTypeOK
  <2> QED
    BY <2>1, <2>2 DEF DrainOrder
<1>4. CASE worker # Nothing
  <2>1. /\ queue' = Append(queue, Poison)
        /\ closer'[c] = "joining"
        /\ joins'[c] = worker
        /\ worker' = worker /\ live' = {worker}
    BY <1>1, <1>4 DEF Shutdown, DrainOrder, InboxTypeOK
  <2>2. BeforeSentinel(owed[c])'
    <3> DEFINE k == Len(queue) + 1
    <3>1. /\ k \in 1..Len(queue')
          /\ queue'[k] = Poison
          /\ \A n \in 1..(k - 1) : queue'[n] = queue[n] /\ n \in 1..Len(queue)
          /\ \A n \in 1..Len(queue) : n \in 1..(k - 1)
      BY <2>1 DEF InboxTypeOK
    <3>2. \A n \in 1..Len(queue) : queue[n] # Poison
      BY <1>1 DEF DrainOrder
    <3> HIDE DEF k
    <3>3. ASSUME NEW x \in Accepted, pc'[x] = "none"
          PROVE  \E n \in 1..(k - 1) : queue'[n] = x
      BY <1>1, <3>1, <3>3 DEF Accepted, Located
    <3>4. \A n \in 1..(k - 1) : queue'[n] # Poison
      BY <3>1, <3>2
    <3>5. \A x \in owed'[c] : pc'[x] = "none" => \E n \in 1..(k - 1) : queue'[n] = x
      BY <1>2, <3>3
    <3> QED
      BY <3>1, <3>4, <3>5 DEF BeforeSentinel
  <2> QED
    BY <2>1, <2>2 DEF DrainOrder
<1> QED
  BY <1>3, <1>4

LEMMA WaitingDrains ==
    ASSUME InboxTypeOK, Located, NEW c \in Closers, DrainOrder(c), Join(c) \/ Gathered(c)
    PROVE  DrainOrder(c)'
<1>1. UNCHANGED <<pc, tasks, owed>> /\ owed[c] \subseteq Msgs
  BY DEF Join, Gathered, ShutdownFrame, jobVars, InboxTypeOK
<1>2. CASE Gathered(c)
  <2>1. closer'[c] = "closed"
    BY <1>2 DEF Gathered, InboxTypeOK
  <2>2. \A m \in owed[c] : pc[m] = "ended"
    BY <1>2 DEF Gathered, DrainOrder
  <2> QED
    BY <1>1, <2>1, <2>2 DEF DrainOrder
<1>3. CASE Join(c)
  <2>1. \A m \in owed[c] : pc[m] # "none"
    BY <1>3 DEF Join, DrainOrder, Spawned
  <2>2. ASSUME NEW m \in owed[c], pc[m] # "ended" PROVE m \in Registered
    <3>1. m \in Msgs /\ tasks[JobIdOf[m]] = m /\ JobIdOf[m] \in JobIds /\ m # Nothing
      BY <1>1, <2>1, <2>2, InboxAssumption DEF Located
    <3> QED
      BY <3>1 DEF Registered
  <2>3. \/ closer'[c] = "aborted"
        \/ closer'[c] = "closed" /\ Registered = {}
        \/ closer'[c] = "gathering" /\ gathers'[c] = Registered
    BY <1>3 DEF Join, GatherOrReturn, InboxTypeOK
  <2> HIDE DEF Registered
  <2> QED
    BY <1>1, <2>1, <2>2, <2>3 DEF DrainOrder
<1> QED
  BY <1>2, <1>3

LEMMA DrainInductive ==
    ASSUME OneCloser, InboxTypeOK, DeliveryInv, Located, stops' = 0,
           NEW c \in Closers, DrainOrder(c), [InboxNext]_inboxVars
    PROVE  DrainOrder(c)'
<1>1. ASSUME NEW m \in Msgs, Enqueue(m) PROVE DrainOrder(c)'
  BY <1>1, EnqueueDrains
<1>2. ASSUME NEW i \in JobIds, Cancel(i) PROVE DrainOrder(c)'
  <2>1. Accepted' = Accepted
    BY <1>2 DEF Cancel, Accepted, InboxTypeOK, DeliveryInv, OwnMessage
  <2> QED
    BY <1>2, <2>1, DrainKept DEF Cancel, jobVars, hostVars
<1>3. ASSUME NEW d \in Closers, Shutdown(d) \/ Join(d) \/ Gathered(d) PROVE DrainOrder(c)'
  <2>1. d = c
    BY DEF OneCloser
  <2> QED
    BY <1>3, <2>1, ShutdownDrains, WaitingDrains
<1>4. ~CancelWorker
  BY DEF CancelWorker, InboxTypeOK
<1>5. ASSUME NEW w \in Msgs, Dispatch(w) PROVE DrainOrder(c)'
  BY <1>5, DispatchDrains
<1>6. ASSUME NEW t \in Msgs, JobStep(t) PROVE DrainOrder(c)'
  BY <1>6, JobStepDrains
<1>7. CASE UNCHANGED inboxVars
  BY <1>7, DrainKept DEF inboxVars, jobVars, hostVars, Accepted
<1> QED
  BY <1>1, <1>2, <1>3, <1>4, <1>5, <1>6, <1>7 DEF InboxNext, HostStep, LoopStep

LEMMA StopsCount == InboxTypeOK /\ [InboxNext]_inboxVars /\ stops' = 0 => stops = 0
BY DEF InboxNext, HostStep, LoopStep, Enqueue, Cancel, Shutdown, ShutdownFrame, CancelWorker,
       Dispatch, JobStep, Join, Gathered, hostVars, inboxVars, InboxTypeOK

\* With distinct job ids, when the one call of shutdown() returns, the job of
\* every message accepted before it was called has ended, unless
\* cancel_worker() took the worker away.
THEOREM InboxDrainedAtShutdown ==
    UniqueIds /\ OneCloser => (InboxSpec => []DrainedAtShutdown)
<1> SUFFICES ASSUME UniqueIds, OneCloser PROVE InboxSpec => []DrainedAtShutdown
  OBVIOUS
<1>1. InboxInit => DrainInv
  BY DEF InboxInit, DrainInv, Located, DrainOrder, Accepted
<1>2. InboxTypeOK /\ DeliveryInv /\ DrainInv /\ [InboxNext]_inboxVars => DrainInv'
  <2> SUFFICES ASSUME InboxTypeOK, DeliveryInv, DrainInv, [InboxNext]_inboxVars PROVE DrainInv'
    OBVIOUS
  <2>1. Located'
    BY LocatedInductive DEF DrainInv
  <2>2. ASSUME stops' = 0, NEW c \in Closers PROVE DrainOrder(c)'
    BY <2>2, StopsCount, DrainInductive DEF DrainInv
  <2> QED
    BY <2>1, <2>2 DEF DrainInv
<1>3. DrainInv => DrainedAtShutdown
  BY DEF DrainInv, DrainOrder, DrainedAtShutdown
<1> QED
  BY <1>1, <1>2, <1>3, InboxTypeCorrect, DeliveryInvariant, PTL DEF InboxSpec

============================================================================
