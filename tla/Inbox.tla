------------------------------- MODULE Inbox -------------------------------
(***************************************************************************)
(* The asynchronous peer inbox (teams/inbox.py, HarnessAgentInboxManager). *)
(*                                                                         *)
(* enqueue() files a message and puts its id on a queue; a worker task     *)
(* pops ids and spawns one job task per id; a job takes a concurrency      *)
(* slot, then the callee's lock, calls the callee, gives the lock back,    *)
(* takes the lock of the source thread, calls the source agent with the    *)
(* follow-up prompt and hands the outcome to the host's on_reply.          *)
(*                                                                         *)
(* The code runs on one event loop, so an action here is what one task     *)
(* does between two awaits.  asyncio's Lock and Semaphore are first come,  *)
(* first served: a waiter is served when everyone who came before it has   *)
(* left.  Taking a free lock does not suspend the task in the code while   *)
(* it is a step of its own here; the extra interleavings are those of a    *)
(* lock that was busy for an instant.                                      *)
(*                                                                         *)
(* A member of Msgs is one InboxMessage object.  The job spawned for the   *)
(* queue entry that enqueue(m) made is also called m, and so is the        *)
(* worker task that enqueue(m) starts when none is running.                *)
(***************************************************************************)
EXTENDS Naturals, Sequences, FiniteSets

CONSTANTS
    Msgs,         \* the messages that are submitted
    JobIds,       \* job ids (made by uuid4, or chosen by the host)
    Callees,
    Threads,      \* what follow-ups are serialized by
    JobIdOf,      \* id of a message
    TargetOf,     \* target_agent_id of a message
    SourceOf,     \* source_thread_id or source_agent_id of a message
    Slots,        \* max_concurrency
    Closers,      \* the calls of shutdown()
    MaxStops,     \* bound: number of calls of cancel_worker()
    AlienErrors,  \* messages whose hooks may raise outside ASYNC_DEFENSIVE_OP_ERRORS
    Nothing,      \* Python's None
    Poison        \* the None that shutdown() puts on the queue

ASSUME InboxAssumption ==
    /\ IsFiniteSet(Msgs)
    /\ JobIdOf \in [Msgs -> JobIds]
    /\ TargetOf \in [Msgs -> Callees]
    /\ SourceOf \in [Msgs -> Threads]
    /\ Slots \in Nat \ {0}
    /\ MaxStops \in Nat
    /\ AlienErrors \subseteq Msgs
    /\ Nothing \notin Msgs
    /\ Poison \notin Msgs

Terminal == {"done", "failed", "cancelled"}
Status   == Terminal \cup {"new", "queued", "running", "replying"}

(***************************************************************************)
(* Lock objects.  A lock is named by its key and the job that created it,  *)
(* so two locks created one after the other for one key are different.     *)
(***************************************************************************)
LockKeys  == ({"target"} \X Callees) \cup ({"source"} \X Threads)
Locks == LockKeys \X Msgs

ASSUME NoneIsNoLock == Nothing \notin Locks

LockTable == [bucket : [LockKeys -> Locks \cup {Nothing}],
              refs   : [LockKeys -> Nat],
              held   : [Msgs -> Locks \cup {Nothing}],
              ahead  : [Msgs -> SUBSET Msgs]]

VARIABLES
    box,       \* _messages
    status,    \* InboxMessage.status; "new" before enqueue
    queue,     \* _queue
    worker,    \* _worker
    live,      \* worker tasks still running
    killed,    \* worker tasks ended by cancel()
    tasks,     \* _tasks
    pc,        \* where each job task is suspended
    job,       \* the message object a job works on
    outcome,   \* local variable status of _process
    interrupted, \* jobs with a CancelledError pending
    slotAhead, \* who came before a job at the semaphore
    locks,     \* _target_locks, _source_locks, their ref counts and waiters
    closer,    \* where each call of shutdown() is suspended
    joins,     \* the worker it waits for
    gathers,   \* the tasks it waits for
    owed,      \* history: what had been accepted when it was called
    stops,     \* number of cancel_worker() calls so far
    answers,   \* history: statuses handed to on_reply for each message
    withdrawn  \* history: messages whose cancel() returned True

jobVars  == <<pc, job, outcome, interrupted, slotAhead, locks>>
hostVars == <<closer, joins, gathers, owed, stops>>
inboxVars == <<box, status, queue, worker, live, killed, tasks, jobVars,
          hostVars, answers, withdrawn>>

JobPCs == {"none", "waitSlot", "waitTarget", "calling", "waitSource",
        "replying", "finishing", "ended"}

InboxTypeOK ==
    /\ box \in [JobIds -> Msgs \cup {Nothing}]
    /\ status \in [Msgs -> Status]
    /\ queue \in Seq(Msgs \cup {Poison})
    /\ worker \in Msgs \cup {Nothing}
    /\ live \in SUBSET Msgs
    /\ killed \in SUBSET Msgs
    /\ tasks \in [JobIds -> Msgs \cup {Nothing}]
    /\ pc \in [Msgs -> JobPCs]
    /\ job \in [Msgs -> Msgs]
    /\ outcome \in [Msgs -> {"done", "failed"}]
    /\ interrupted \in SUBSET Msgs
    /\ slotAhead \in [Msgs -> SUBSET Msgs]
    /\ locks \in LockTable
    /\ closer \in [Closers -> {"idle", "joining", "gathering", "closed", "aborted"}]
    /\ joins \in [Closers -> Msgs \cup {Nothing}]
    /\ gathers \in [Closers -> SUBSET Msgs]
    /\ owed \in [Closers -> SUBSET Msgs]
    /\ stops \in 0..MaxStops
    /\ answers \in [Msgs -> Seq(Terminal)]
    /\ withdrawn \in SUBSET Msgs

InboxInit ==
    /\ box = [i \in JobIds |-> Nothing]
    /\ status = [m \in Msgs |-> "new"]
    /\ queue = <<>>
    /\ worker = Nothing
    /\ live = {}
    /\ killed = {}
    /\ tasks = [i \in JobIds |-> Nothing]
    /\ pc = [m \in Msgs |-> "none"]
    /\ job = [m \in Msgs |-> m]
    /\ outcome = [m \in Msgs |-> "done"]
    /\ interrupted = {}
    /\ slotAhead = [m \in Msgs |-> {}]
    /\ locks = [bucket |-> [k \in LockKeys |-> Nothing],
                refs   |-> [k \in LockKeys |-> 0],
                held   |-> [m \in Msgs |-> Nothing],
                ahead  |-> [m \in Msgs |-> {}]]
    /\ closer = [c \in Closers |-> "idle"]
    /\ joins = [c \in Closers |-> Nothing]
    /\ gathers = [c \in Closers |-> {}]
    /\ owed = [c \in Closers |-> {}]
    /\ stops = 0
    /\ answers = [m \in Msgs |-> <<>>]
    /\ withdrawn = {}

-----------------------------------------------------------------------------
(***************************************************************************)
(* The per-key locks and their reference counts.                           *)
(***************************************************************************)

\* Variant with a fault: the lock is looked up but never stored.
LockForFresh(L, t, k) ==
    [bucket |-> [L.bucket EXCEPT ![k] = <<k, t>>],
     refs   |-> [L.refs EXCEPT ![k] = @ + 1],
     held   |-> [L.held EXCEPT ![t] = <<k, t>>],
     ahead  |-> L.ahead]

\* _lock_for: find or create the lock of key k, count the reference, and
\* queue up at it.
LockFor(L, t, k) ==
    LET lock == IF L.bucket[k] = Nothing THEN <<k, t>> ELSE L.bucket[k]
    IN  [bucket |-> [L.bucket EXCEPT ![k] = lock],
         refs   |-> [L.refs EXCEPT ![k] = @ + 1],
         held   |-> [L.held EXCEPT ![t] = lock],
         ahead  |-> [L.ahead EXCEPT ![t] = {u \in Msgs : L.held[u] = lock}]]

\* Leaving "async with lock" (or giving up waiting for it) and then
\* _release_lock, in one step.  The last reference drops the lock object; it
\* is not locked then, as no other job refers to it.
ReleaseLock(L, t) ==
    IF L.held[t] = Nothing THEN L
    ELSE LET k    == L.held[t][1]
             left == L.refs[k] - 1
         IN  [bucket |-> IF left <= 0 /\ L.bucket[k] = L.held[t]
                         THEN [L.bucket EXCEPT ![k] = Nothing] ELSE L.bucket,
              refs   |-> [L.refs EXCEPT ![k] = IF left <= 0 THEN 0 ELSE left],
              held   |-> [L.held EXCEPT ![t] = Nothing],
              ahead  |-> [u \in Msgs |-> IF u = t THEN {} ELSE L.ahead[u] \ {t}]]

TargetKey(t) == <<"target", TargetOf[job[t]]>>
SourceKey(t) == <<"source", SourceOf[job[t]]>>

HasLock(t) == locks.held[t] # Nothing /\ locks.ahead[t] = {}

-----------------------------------------------------------------------------
(***************************************************************************)
(* Submitting, cancelling, and the worker loop.                            *)
(***************************************************************************)

\* start(): a new worker task unless one is running.
StartWorker(m) ==
    IF worker \in live
    THEN UNCHANGED <<worker, live>>
    ELSE worker' = m /\ live' = live \cup {m}

\* enqueue()
Enqueue(m) ==
    /\ status[m] = "new"
    /\ StartWorker(m)
    /\ box' = [box EXCEPT ![JobIdOf[m]] = m]
    /\ status' = [status EXCEPT ![m] = "queued"]
    /\ queue' = Append(queue, m)
    /\ UNCHANGED <<killed, tasks, jobVars, hostVars, answers, withdrawn>>

\* cancel() when it returns True
Cancel(i) ==
    /\ box[i] # Nothing
    /\ status[box[i]] \notin Terminal
    /\ status' = [status EXCEPT ![box[i]] = "cancelled"]
    /\ withdrawn' = withdrawn \cup {box[i]}
    /\ UNCHANGED <<box, queue, worker, live, killed, tasks, jobVars, hostVars, answers>>

AtSemaphore == {u \in Msgs : pc[u] \notin {"none", "ended"}}

\* _worker_loop: the sentinel ends the worker, an id without a message is
\* skipped, any other id spawns a job that queues up at the semaphore.
Dispatch(w) ==
    /\ w \in live
    /\ queue # <<>>
    /\ queue' = Tail(queue)
    /\ LET m == Head(queue)
       IN  \/ /\ m = Poison
              /\ live' = live \ {w}
              /\ UNCHANGED <<tasks, pc, job, slotAhead>>
           \/ /\ m # Poison
              /\ box[JobIdOf[m]] = Nothing
              /\ UNCHANGED <<live, tasks, pc, job, slotAhead>>
           \/ /\ m # Poison
              /\ box[JobIdOf[m]] # Nothing
              /\ job' = [job EXCEPT ![m] = box[JobIdOf[m]]]
              /\ pc' = [pc EXCEPT ![m] = "waitSlot"]
              /\ tasks' = [tasks EXCEPT ![JobIdOf[m]] = m]
              /\ slotAhead' = [slotAhead EXCEPT ![m] = AtSemaphore]
              /\ UNCHANGED live
    /\ UNCHANGED <<box, status, worker, killed, outcome, interrupted, locks, hostVars,
                   answers, withdrawn>>

-----------------------------------------------------------------------------
(***************************************************************************)
(* One job: _run_job and _process.                                         *)
(***************************************************************************)

HasSlot(t) == Cardinality(slotAhead[t]) < Slots

Cancelled(t) == status[job[t]] = "cancelled"

\* Variant with a fault: the slot is not given back.
KeepSlot(t) == slotAhead' = [slotAhead EXCEPT ![t] = {}]

\* Leaving the semaphore.
GiveUpSlot(t) ==
    slotAhead' = [u \in Msgs |-> IF u = t THEN {} ELSE slotAhead[u] \ {t}]

\* The end of _run_job: locks given up, task forgotten, slot given up.
LeaveJob(t, L) ==
    /\ pc' = [pc EXCEPT ![t] = "ended"]
    /\ locks' = ReleaseLock(L, t)
    /\ tasks' = [tasks EXCEPT ![JobIdOf[job[t]]] = Nothing]
    /\ GiveUpSlot(t)

\* _finish up to the await of on_reply.
Announce(t, st, L) ==
    /\ status' = [status EXCEPT ![job[t]] = st]
    /\ answers' = [answers EXCEPT ![job[t]] = Append(@, st)]
    /\ pc' = [pc EXCEPT ![t] = "finishing"]
    /\ locks' = L
    /\ UNCHANGED <<tasks, slotAhead>>

\* _finish: nothing more to do when the message is finished and pruned.
Finish(t, st, L) ==
    \/ /\ status[job[t]] \in Terminal /\ box[JobIdOf[job[t]]] = Nothing
       /\ LeaveJob(t, L)
       /\ UNCHANGED <<status, answers>>
    \/ /\ status[job[t]] \notin Terminal \/ box[JobIdOf[job[t]]] # Nothing
       /\ Announce(t, st, L)

\* The job gets its slot; it stops here if it was cancelled while queued.
Begin(t) ==
    /\ pc[t] = "waitSlot"
    /\ t \notin interrupted
    /\ HasSlot(t)
    /\ \/ /\ Cancelled(t)
          /\ Finish(t, "cancelled", locks)
       \/ /\ ~Cancelled(t)
          /\ locks' = LockFor(locks, t, TargetKey(t))
          /\ pc' = [pc EXCEPT ![t] = "waitTarget"]
          /\ UNCHANGED <<status, answers, tasks, slotAhead>>
    /\ UNCHANGED <<outcome, interrupted, box>>

\* The callee's lock is granted: the callee is invoked.
CallTarget(t) ==
    /\ pc[t] = "waitTarget"
    /\ t \notin interrupted
    /\ HasLock(t)
    /\ \/ /\ Cancelled(t)
          /\ Finish(t, "cancelled", locks)
       \/ /\ ~Cancelled(t)
          /\ status' = [status EXCEPT ![job[t]] = "running"]
          /\ pc' = [pc EXCEPT ![t] = "calling"]
          /\ UNCHANGED <<answers, tasks, slotAhead, locks>>
    /\ UNCHANGED <<outcome, interrupted, box>>

\* The callee's call ends.  Every exception, CancelledError included, only
\* makes the outcome "failed"; the job goes on to the follow-up.
TargetReturns(t) ==
    /\ pc[t] = "calling"
    /\ \E r \in {"done", "failed"} :
          /\ t \in interrupted => r = "failed"
          /\ outcome' = [outcome EXCEPT ![t] = r]
    /\ interrupted' = interrupted \ {t}
    /\ \/ /\ Cancelled(t)
          /\ Finish(t, "cancelled", ReleaseLock(locks, t))
       \/ /\ ~Cancelled(t)
          /\ locks' = LockFor(ReleaseLock(locks, t), t, SourceKey(t))
          /\ pc' = [pc EXCEPT ![t] = "waitSource"]
          /\ UNCHANGED <<status, answers, tasks, slotAhead>>
    /\ UNCHANGED box

\* The source thread's lock is granted.  compose_followup is host code and
\* not guarded: an error of ASYNC_DEFENSIVE_OP_ERRORS ends in the handler of
\* _run_job, any other ends the task.
CallSource(t) ==
    /\ pc[t] = "waitSource"
    /\ t \notin interrupted
    /\ HasLock(t)
    /\ \/ /\ Cancelled(t)
          /\ Finish(t, "cancelled", locks)
       \/ /\ ~Cancelled(t)
          /\ status' = [status EXCEPT ![job[t]] = "replying"]
          /\ pc' = [pc EXCEPT ![t] = "replying"]
          /\ UNCHANGED <<answers, tasks, slotAhead, locks>>
       \/ /\ ~Cancelled(t)
          /\ Announce(t, "failed", ReleaseLock(locks, t))
       \/ /\ ~Cancelled(t)
          /\ job[t] \in AlienErrors
          /\ status' = [status EXCEPT ![job[t]] = "replying"]
          /\ LeaveJob(t, locks)
          /\ UNCHANGED answers
    /\ UNCHANGED <<outcome, interrupted, box>>

\* Variant with a fault: no look at the status after the follow-up call.
SourceReturnsUnchecked(t) ==
    /\ pc[t] = "replying"
    /\ interrupted' = interrupted \ {t}
    /\ Finish(t, IF t \in interrupted THEN "failed" ELSE outcome[t], locks)
    /\ UNCHANGED <<outcome, box>>

\* The follow-up call ends, with a reply or (any exception) without one.
SourceReturns(t) ==
    /\ pc[t] = "replying"
    /\ interrupted' = interrupted \ {t}
    /\ \/ /\ Cancelled(t)
          /\ Finish(t, "cancelled", locks)
       \/ /\ ~Cancelled(t)
          /\ t \notin interrupted
          /\ Finish(t, outcome[t], locks)
       \/ /\ ~Cancelled(t)
          /\ Finish(t, "failed", locks)
    /\ UNCHANGED <<outcome, box>>

\* Variant with a fault: "cancelled" is not taken for a final status.
PruneReplied(i) ==
    box' = IF box[i] # Nothing /\ status[box[i]] \in {"done", "failed"}
           THEN [box EXCEPT ![i] = Nothing] ELSE box

\* _prune_terminal: by id, whatever message is filed under it.
Prune(i) ==
    box' = IF box[i] # Nothing /\ status[box[i]] \in Terminal
           THEN [box EXCEPT ![i] = Nothing] ELSE box

\* on_reply ends; its defensive errors (a pending CancelledError too) are
\* swallowed, any other error ends the task before the message is pruned.
OnReplyEnds(t) ==
    /\ pc[t] = "finishing"
    /\ interrupted' = interrupted \ {t}
    /\ \/ Prune(JobIdOf[job[t]])
       \/ job[t] \in AlienErrors /\ t \notin interrupted /\ UNCHANGED box
    /\ LeaveJob(t, locks)
    /\ UNCHANGED <<status, answers, outcome>>

\* A CancelledError reaches a job that waits for a slot (outside the try of
\* _run_job: the task ends and stays in _tasks) or for a lock (the handler of
\* _run_job reports a failure unless the message is finished already).
Interrupt(t) ==
    /\ t \in interrupted
    /\ interrupted' = interrupted \ {t}
    /\ \/ /\ pc[t] = "waitSlot"
          /\ pc' = [pc EXCEPT ![t] = "ended"]
          /\ GiveUpSlot(t)
          /\ UNCHANGED <<status, answers, tasks, locks>>
       \/ /\ pc[t] \in {"waitTarget", "waitSource"}
          /\ status[job[t]] \notin Terminal
          /\ Announce(t, "failed", ReleaseLock(locks, t))
       \/ /\ pc[t] \in {"waitTarget", "waitSource"}
          /\ status[job[t]] \in Terminal
          /\ LeaveJob(t, locks)
          /\ UNCHANGED <<status, answers>>
    /\ UNCHANGED <<outcome, box>>

JobStep(t) ==
    /\ \/ Begin(t) \/ CallTarget(t) \/ TargetReturns(t)
       \/ CallSource(t) \/ SourceReturns(t) \/ OnReplyEnds(t) \/ Interrupt(t)
    /\ UNCHANGED <<queue, worker, live, killed, job, hostVars, withdrawn>>

-----------------------------------------------------------------------------
(***************************************************************************)
(* Lifecycle: cancel_worker and shutdown.                                  *)
(***************************************************************************)

Registered == {tasks[i] : i \in JobIds} \ {Nothing}

\* cancel_worker(): TeamManager.close() and set_processor(None)
CancelWorker ==
    /\ stops < MaxStops
    /\ stops' = stops + 1
    /\ live' = live \ {worker}
    /\ killed' = IF worker \in live THEN killed \cup {worker} ELSE killed
    /\ worker' = Nothing
    /\ interrupted' = interrupted \cup {t \in Registered : pc[t] # "ended"}
    /\ UNCHANGED <<box, status, queue, tasks, pc, job, outcome, slotAhead, locks,
                   closer, joins, gathers, owed, answers, withdrawn>>

\* Variant with a fault: shutdown() does not wait for the jobs.
ReturnAtOnce(c) ==
    /\ closer' = [closer EXCEPT ![c] = "closed"]
    /\ worker' = Nothing
    /\ UNCHANGED gathers

\* The rest of shutdown() once the worker has ended.
GatherOrReturn(c) ==
    \/ /\ Registered = {}
       /\ closer' = [closer EXCEPT ![c] = "closed"]
       /\ worker' = Nothing
       /\ UNCHANGED gathers
    \/ /\ Registered # {}
       /\ closer' = [closer EXCEPT ![c] = "gathering"]
       /\ gathers' = [gathers EXCEPT ![c] = Registered]
       /\ UNCHANGED worker

ShutdownFrame ==
    UNCHANGED <<box, status, live, killed, tasks, jobVars, stops, answers, withdrawn>>

Accepted == {m \in Msgs : status[m] # "new"}

\* Variant with a fault: the worker is joined without a sentinel.
ShutdownWithoutSentinel(c) ==
    /\ closer[c] = "idle"
    /\ owed' = [owed EXCEPT ![c] = Accepted]
    /\ closer' = [closer EXCEPT ![c] = IF worker = Nothing THEN "closed" ELSE "joining"]
    /\ joins' = [joins EXCEPT ![c] = worker]
    /\ UNCHANGED <<queue, worker, gathers>>
    /\ ShutdownFrame

\* shutdown() up to its first await
Shutdown(c) ==
    /\ closer[c] = "idle"
    /\ owed' = [owed EXCEPT ![c] = Accepted]
    /\ \/ /\ worker = Nothing
          /\ GatherOrReturn(c)
          /\ UNCHANGED <<queue, joins>>
       \/ /\ worker # Nothing
          /\ queue' = Append(queue, Poison)
          /\ closer' = [closer EXCEPT ![c] = "joining"]
          /\ joins' = [joins EXCEPT ![c] = worker]
          /\ UNCHANGED <<worker, gathers>>
    /\ ShutdownFrame

\* wait_for(worker) ends.  A worker that was cancelled raises CancelledError
\* into shutdown(), which only expects TimeoutError.  (The 30 second timeout
\* cannot expire first: the worker only pops the queue.)
Join(c) ==
    /\ closer[c] = "joining"
    /\ joins[c] \notin live
    /\ \/ /\ joins[c] \in killed
          /\ closer' = [closer EXCEPT ![c] = "aborted"]
          /\ UNCHANGED <<worker, gathers>>
       \/ /\ joins[c] \notin killed
          /\ GatherOrReturn(c)
    /\ UNCHANGED <<queue, joins, owed>>
    /\ ShutdownFrame

\* gather() over the tasks that were registered when it was called
Gathered(c) ==
    /\ closer[c] = "gathering"
    /\ \A t \in gathers[c] : pc[t] = "ended"
    /\ closer' = [closer EXCEPT ![c] = "closed"]
    /\ worker' = Nothing
    /\ UNCHANGED <<queue, joins, gathers, owed>>
    /\ ShutdownFrame

-----------------------------------------------------------------------------
HostStep == \/ \E m \in Msgs : Enqueue(m)
            \/ \E i \in JobIds : Cancel(i)
            \/ \E c \in Closers : Shutdown(c)
            \/ CancelWorker

LoopStep == \/ \E w \in Msgs : Dispatch(w)
            \/ \E t \in Msgs : JobStep(t)
            \/ \E c \in Closers : Join(c) \/ Gathered(c)

InboxNext == HostStep \/ LoopStep

InboxSpec == InboxInit /\ [][InboxNext]_inboxVars

\* The event loop runs every task that is ready, and the calls into agents
\* and host hooks come to an end (they are bounded by model retries and
\* timeouts outside this component).
InboxFairness ==
    /\ \A w \in Msgs : WF_inboxVars(Dispatch(w))
    /\ \A t \in Msgs : WF_inboxVars(JobStep(t))
    /\ \A c \in Closers : WF_inboxVars(Join(c) \/ Gathered(c))

FairInboxSpec == InboxSpec /\ InboxFairness

-----------------------------------------------------------------------------
(***************************************************************************)
(* Properties.                                                             *)
(***************************************************************************)

\* Calls to the same callee stay serial (module docstring), although the
\* lock objects are created and dropped with their reference counts.
CalleeSerial ==
    \A t, u \in Msgs :
        (pc[t] = "calling" /\ pc[u] = "calling" /\ TargetKey(t) = TargetKey(u)) => t = u

\* Follow-up calls are serialized per source thread.
FollowupSerial ==
    \A t, u \in Msgs :
        (pc[t] = "replying" /\ pc[u] = "replying" /\ SourceKey(t) = SourceKey(u)) => t = u

\* A finished status is never overwritten.
TerminalIsFinal ==
    [][\A m \in Msgs : status[m] \in Terminal => status'[m] = status[m]]_inboxVars

\* No agent is called for a message after its cancel() was accepted.
NoCallAfterCancel ==
    [][\A t \in Msgs :
          (pc'[t] \in {"calling", "replying"} /\ pc'[t] # pc[t]) => job[t] \notin withdrawn]_inboxVars

\* The jobs that hold, or wait for, a lock of key k.
LockUsers(L, k) == {t \in Msgs : L.held[t] # Nothing /\ L.held[t][1] = k}

\* The lock tables hold exactly the locks some job refers to, and the counts
\* say how many do: nothing is left when all jobs have ended.
LockTableExact ==
    \A k \in LockKeys :
        /\ locks.refs[k] = Cardinality(LockUsers(locks, k))
        /\ (locks.bucket[k] = Nothing) <=> (LockUsers(locks, k) = {})
        /\ \A t \in LockUsers(locks, k) : locks.held[t] = locks.bucket[k]

\* A job that has ended leaves nothing behind in _messages or _tasks, unless a
\* hook raised what is not guarded against or cancel_worker() was called.
NoResidue ==
    stops = 0 => \A t \in Msgs \ AlienErrors :
        pc[t] = "ended" => box[JobIdOf[t]] # t /\ tasks[JobIdOf[t]] # t

\* When shutdown() returns, the job of every message accepted before it was
\* called has ended, unless cancel_worker() took the worker away; what is
\* submitted meanwhile and how jobs end makes no difference.
DrainedAtShutdown ==
    \A c \in Closers : closer[c] = "closed" /\ stops = 0 =>
        \A m \in owed[c] : pc[m] = "ended"

\* Every accepted message is answered in the end.
EveryJobAnswered ==
    \A m \in Msgs : status[m] = "queued" ~> answers[m] # <<>>

\* Every call of shutdown() returns.
ShutdownReturns ==
    \A c \in Closers : closer[c] # "idle" ~> closer[c] \in {"closed", "aborted"}

\* The inbox implements PeerDelivery: one outcome per message, handed over
\* once, and "cancelled" exactly when cancel() was accepted.
Delivery == INSTANCE PeerDelivery WITH accepted <- Accepted
DeliverySpec == Delivery!Spec

\* What the proof of DeliverySpec rests on, given distinct job ids: a job
\* works on its own message, each message is queued once and spawns one job,
\* and the outcome handed over is the status that stays on the message.
UniqueIds == \A m, n \in Msgs : JobIdOf[m] = JobIdOf[n] => m = n

OwnMessage ==
    /\ \A t \in Msgs : job[t] = t
    /\ \A i \in JobIds : box[i] # Nothing => JobIdOf[box[i]] = i /\ status[box[i]] # "new"

QueuedOnce ==
    /\ \A m \in Msgs : status[m] = "new" => pc[m] = "none"
    /\ \A n \in 1..Len(queue) : queue[n] # Poison =>
          /\ pc[queue[n]] = "none"
          /\ status[queue[n]] # "new"
          /\ \A k \in 1..Len(queue) : queue[k] = queue[n] => k = n

OutcomeKept ==
    \A m \in Msgs :
        /\ pc[m] \notin {"finishing", "ended"} => answers[m] = <<>>
        /\ answers[m] # <<>> => answers[m] = <<status[m]>>
        /\ status[m] \in {"done", "failed"} => answers[m] # <<>>
        /\ m \in withdrawn <=> status[m] = "cancelled"

DeliveryInv == OwnMessage /\ QueuedOnce /\ OutcomeKept

\* What the proof of CalleeSerial rests on: a job in a critical section
\* refers to the one lock of its key, and of two such jobs one queued up
\* behind the other.
LockOrder(L) ==
    /\ \A k \in LockKeys :
          /\ L.refs[k] = Cardinality(LockUsers(L, k))
          /\ (L.bucket[k] = Nothing) <=> (LockUsers(L, k) = {})
          /\ \A t \in LockUsers(L, k) : L.held[t] = L.bucket[k]
    /\ \A t, u \in Msgs :
          (t # u /\ L.held[t] # Nothing /\ L.held[t] = L.held[u])
             => t \in L.ahead[u] \/ u \in L.ahead[t]

JobHolds(t) ==
    /\ pc[t] \in {"none", "waitSlot", "ended"} => locks.held[t] = Nothing
    /\ pc[t] \in {"waitTarget", "calling"} => t \in LockUsers(locks, TargetKey(t))
    /\ pc[t] \in {"waitSource", "replying"} => t \in LockUsers(locks, SourceKey(t))
    /\ pc[t] \in {"calling", "replying"} => locks.ahead[t] = {}

LockInv == /\ LockOrder(locks)
           /\ \A t \in Msgs : JobHolds(t)
           /\ QueuedOnce

\* What the proof of NoResidue rests on, given distinct ids: as long as
\* cancel_worker() is not called no job is interrupted, one that waits for
\* on_reply has a final status, and _tasks only holds jobs that run.
ResidueInv ==
    stops = 0 =>
        /\ interrupted = {}
        /\ \A t \in Msgs : pc[t] = "finishing" => status[t] \in Terminal
        /\ \A t \in Msgs \ AlienErrors : pc[t] = "ended" => box[JobIdOf[t]] # t
        /\ \A t \in Msgs : tasks[JobIdOf[t]] = t => pc[t] \notin {"none", "ended"}

\* What the proof of DrainedAtShutdown rests on, given distinct ids and one
\* call of shutdown(): an accepted message is filed and on the queue until its
\* job is spawned, and the job is registered until it ends.
Located ==
    /\ \A m \in Msgs : pc[m] = "none" /\ status[m] # "new" =>
          /\ box[JobIdOf[m]] = m
          /\ \E n \in 1..Len(queue) : queue[n] = m
    /\ \A m \in Msgs : pc[m] \notin {"none", "ended"} => tasks[JobIdOf[m]] = m

Spawned(S) == \A m \in S : pc[m] # "none"

\* Up to the first sentinel the queue holds every message of S that has no
\* job yet.
BeforeSentinel(S) ==
    \E k \in 1..Len(queue) :
        /\ queue[k] = Poison
        /\ \A n \in 1..(k - 1) : queue[n] # Poison
        /\ \A m \in S : pc[m] = "none" => \E n \in 1..(k - 1) : queue[n] = m

\* Until shutdown() is called there is no sentinel and the worker lives; then
\* the one worker has all that is owed before the sentinel, until it ends and
\* leaves only jobs that were spawned; they are the ones gathered.
DrainOrder(c) ==
    /\ closer[c] = "idle" =>
          /\ \A n \in 1..Len(queue) : queue[n] # Poison
          /\ IF worker = Nothing THEN live = {} /\ Accepted = {} ELSE live = {worker}
    /\ closer[c] = "joining" =>
          \/ Spawned(owed[c])
          \/ worker = joins[c] /\ live = {worker} /\ BeforeSentinel(owed[c])
    /\ closer[c] = "gathering" =>
          \A m \in owed[c] : pc[m] = "ended" \/ (pc[m] # "none" /\ m \in gathers[c])
    /\ closer[c] = "closed" => \A m \in owed[c] : pc[m] = "ended"

DrainInv == Located /\ (stops = 0 => \A c \in Closers : DrainOrder(c))
============================================================================
