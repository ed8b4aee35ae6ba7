----------------------------- MODULE Compaction -----------------------------
(***************************************************************************)
(* Compaction of conversations (compaction.py, with                        *)
(* middleware/summarization_limits.py and middleware/context_usage.py).    *)
(*                                                                         *)
(* The conversations of an agent share one summarization middleware.       *)
(* /compact borrows it: it puts its own policy, how many messages to keep  *)
(* and which model writes the summary, in the place of the one found       *)
(* there, and puts that back when it ends.  In between it saves the        *)
(* messages it takes out to a history file, has the summary written and    *)
(* stores the event that makes the summary stand for them.  Turns compact  *)
(* by themselves with the policy they find.                                *)
(*                                                                         *)
(* An action runs from one await to the next.  A message is its position   *)
(* in the conversation; a message and a summary are one token each.        *)
(***************************************************************************)
EXTENDS Naturals, FiniteSets

CONSTANTS
    Threads,      \* conversations of an agent
    Forced,       \* calls of acompact_conversation()
    Autos,        \* compactions in a turn, before a request
    ThreadOf,     \* conversation of a compaction
    AutoPolicy,   \* the policy of the middleware; one of /compact is the call's
    ForceKeep,    \* messages /compact keeps
    AutoKeep,     \* messages a turn keeps
    MinSummarize, \* fewest messages worth a summary
    FirstLength,  \* messages of a conversation at the beginning
    MaxMessages   \* bound: messages of a conversation

Idle == "idle"

Compactions == Forced \cup Autos

ASSUME CompactionAssumption ==
    /\ Forced \cap Autos = {} /\ Idle \notin Compactions /\ AutoPolicy \notin Compactions \cup Threads
    /\ ThreadOf \in [Compactions -> Threads]
    /\ ForceKeep \in Nat \ {0} /\ AutoKeep \in Nat \ {0} /\ MinSummarize \in Nat \ {0} /\ MaxMessages \in Nat
    /\ FirstLength \in [Threads -> 0..MaxMessages]

VARIABLES
    length,        \* number of messages of a conversation
    event,         \* _summarization_event: messages cut off; covers, those the summary stands for
    archive,       \* messages in the history file
    summaryPolicy, \* policy in the middleware: AutoPolicy, or the call that set it
    window,        \* does the summary get its full window?
    summaryLock,   \* who is having a summary written
    compaction,    \* of a compaction: where it is, the policy to put back, what it has read, its cut, the
                   \* state of its offload and whose policy its summary was written with
    asking,        \* size of the request that is with the model, 0 for none
    ring,          \* snapshot of the context usage of a conversation
    unseen,        \* history: messages the snapshot does not know of
    met            \* history: conversations in which a compaction met another or a request, until the next
                   \* request; AutoPolicy stands for the policy, when /compact met a compaction anywhere

threadVars  == <<length, event, archive>>
helperVars  == <<summaryPolicy, window, summaryLock>>
ringVars    == <<asking, ring, unseen>>
compactVars == <<threadVars, helperVars, compaction, ringVars, met>>

Messages == 1..MaxMessages
NoEvent  == [cutoff |-> 0, covers |-> {}]
NewCompaction == [at |-> Idle, former |-> AutoPolicy, seen |-> NoEvent, cut |-> 0, kept |-> 0,
                  offload |-> "none", author |-> AutoPolicy]

CompactTypeOK ==
    /\ length \in [Threads -> 0..MaxMessages]
    /\ event \in [Threads -> [cutoff : 0..MaxMessages, covers : SUBSET Messages]]
    /\ archive \in [Threads -> SUBSET Messages]
    /\ summaryPolicy \in Forced \cup {AutoPolicy} /\ window \in BOOLEAN /\ summaryLock \in Compactions \cup {Idle}
    /\ compaction \in [Compactions ->
          [at : {Idle, "started", "writing", "retrying", "written", "stored", "ended"}, former : Forced \cup {AutoPolicy},
           seen : [cutoff : 0..MaxMessages, covers : SUBSET Messages], cut : Nat, kept : Nat,
           offload : {"none", "due", "saved", "failed"}, author : Forced \cup {AutoPolicy}]]
    /\ asking \in [Threads -> Nat] /\ ring \in [Threads -> Nat] /\ unseen \in [Threads -> Nat]
    /\ met \subseteq Threads \cup {AutoPolicy}

CompactInit ==
    /\ length = FirstLength /\ event = [t \in Threads |-> NoEvent]
    /\ archive = [t \in Threads |-> {}]
    /\ summaryPolicy = AutoPolicy /\ window = TRUE /\ summaryLock = Idle
    /\ compaction = [c \in Compactions |-> NewCompaction]
    /\ asking = [t \in Threads |-> 0] /\ ring = [t \in Threads |-> 0] /\ unseen = [t \in Threads |-> 0]
    /\ met = {}

-----------------------------------------------------------------------------
\* _apply_event_to_messages: the summary and what is after the cut.
Effective(n, ev) == IF ev.cutoff = 0 THEN n ELSE n - ev.cutoff + 1

\* Variant with a fault: the summary is counted as a message of the state.
StateCutoffPlus(ev, cut) == ev.cutoff + cut

\* _compute_state_cutoff
StateCutoff(ev, cut) == IF ev.cutoff = 0 THEN cut ELSE ev.cutoff + cut - 1

\* Messages a cut takes out, without the summary that is one of them.
TakenOut(ev, cut) == {m \in Messages : ev.cutoff < m /\ m <= ev.cutoff + (IF ev.cutoff = 0 THEN cut ELSE cut - 1)}

Stage(c)    == compaction[c].at
Compacting(c)  == Stage(c) \notin {Idle, "ended"}
\* The compactions of a conversation that are under way.
Others(t) == {x \in Compactions : Compacting(x) /\ ThreadOf[x] = t}

Sets(c, r) == compaction' = [compaction EXCEPT ![c] = r]

Keep(p) == IF p = AutoPolicy THEN AutoKeep ELSE ForceKeep

-----------------------------------------------------------------------------
(***************************************************************************)
(* Turns.                                                                  *)
(***************************************************************************)

\* The user says something.
Say(t) ==
    /\ length[t] < MaxMessages
    /\ length' = [length EXCEPT ![t] = @ + 1]
    /\ unseen' = [unseen EXCEPT ![t] = @ + 1]
    /\ UNCHANGED <<event, archive, helperVars, compaction, asking, ring, met>>

\* A request of the conversation as it is, and its answer: _capture takes the
\* size of the request.
AskModel(t) ==
    /\ asking[t] = 0 /\ length[t] > 0
    /\ \A c \in Autos : ThreadOf[c] = t => ~Compacting(c)
    /\ asking' = [asking EXCEPT ![t] = Effective(length[t], event[t])]
    /\ unseen' = [unseen EXCEPT ![t] = 0]
    /\ met' = CASE Others(t) = {}                          -> met \ {t}
                [] \E c \in Others(t) : Stage(c) = "stored" -> met \cup {t}
                [] OTHER                                   -> met
    /\ UNCHANGED <<threadVars, helperVars, compaction, ring>>

Capture(t) ==
    /\ asking[t] # 0
    /\ ring' = [ring EXCEPT ![t] = asking[t]]
    /\ asking' = [asking EXCEPT ![t] = 0]
    /\ UNCHANGED <<threadVars, helperVars, compaction, unseen, met>>

-----------------------------------------------------------------------------
(***************************************************************************)
(* A compaction.                                                           *)
(***************************************************************************)

\* force_compact_thread up to its first await inside the policy: the state is
\* read, the policy put in place, the conversation cut; and before_model of a
\* turn, which cuts with the policy it finds.
StartCompaction(c) ==
    LET t    == ThreadOf[c]
        mine == IF c \in Forced THEN c ELSE summaryPolicy
        size == Effective(length[t], event[t])
        cut  == size - Keep(mine) IN
    /\ Stage(c) = Idle
    /\ c \in Autos => asking[t] = 0 /\ Others(t) \cap Autos = {}
    /\ size >= Keep(mine) + MinSummarize
    /\ Sets(c, [at |-> "started", former |-> summaryPolicy, seen |-> event[t], cut |-> cut, kept |-> Keep(mine),
                   offload |-> "due", author |-> AutoPolicy])
    /\ summaryPolicy' = mine
    /\ met' = met \cup (IF Others(t) # {} THEN {t} ELSE {})
                  \cup (IF \E x \in Compactions : Compacting(x) /\ Forced \cap {x, c} # {} THEN {AutoPolicy} ELSE {})
    /\ UNCHANGED <<threadVars, window, summaryLock, ringVars>>

\* _aoffload_to_backend: appended to the history file, beside the summary.
Offload(c) ==
    LET t == ThreadOf[c] IN
    /\ Compacting(c) /\ compaction[c].offload = "due"
    /\ \/ /\ archive' = [archive EXCEPT ![t] = @ \cup TakenOut(compaction[c].seen, compaction[c].cut)]
          /\ Sets(c, [compaction[c] EXCEPT !.offload = "saved"])
       \/ /\ Sets(c, [compaction[c] EXCEPT !.offload = "failed"])
          /\ UNCHANGED archive
    /\ UNCHANGED <<length, event, helperVars, ringVars, met>>

\* _acreate_summary under its lock, with the model that is there then.
Write(c) ==
    /\ Stage(c) = "started" /\ summaryLock = Idle
    /\ summaryLock' = c
    /\ Sets(c, [compaction[c] EXCEPT !.at = "writing", !.author = summaryPolicy])
    /\ UNCHANGED <<threadVars, summaryPolicy, window, ringVars, met>>

\* The history is too long for the model: once more with a smaller window.
Overflow(c) ==
    /\ Stage(c) = "writing" /\ window
    /\ window' = FALSE
    /\ Sets(c, [compaction[c] EXCEPT !.at = "retrying"])
    /\ UNCHANGED <<threadVars, summaryPolicy, summaryLock, ringVars, met>>

\* There is a summary, or the placeholder for one.
Written(c) ==
    /\ Stage(c) \in {"writing", "retrying"}
    /\ summaryLock' = Idle
    /\ window' = (window \/ Stage(c) = "retrying")
    /\ Sets(c, [compaction[c] EXCEPT !.at = "written"])
    /\ UNCHANGED <<threadVars, summaryPolicy, ringVars, met>>

\* Variant with a fault: the policy is put back only by a call that succeeds.
LeftOnSuccess(c) == summaryPolicy

\* The policy a compaction leaves behind when it ends, however it ends.
LeftPolicy(c) == IF c \in Forced THEN compaction[c].former ELSE summaryPolicy

Retired(c) == Sets(c, [NewCompaction EXCEPT !.at = "ended"])

\* The summary, the offload or the update of the state fails, or the task is
\* cancelled.
GiveUp(c) ==
    /\ Compacting(c)
    /\ summaryLock' = IF summaryLock = c THEN Idle ELSE summaryLock
    /\ window' = (window \/ Stage(c) = "retrying")
    /\ summaryPolicy' = LeftPolicy(c)
    /\ met' = IF Stage(c) = "stored" THEN met \cup {ThreadOf[c]} ELSE met
    /\ Retired(c)
    /\ UNCHANGED <<threadVars, ringVars>>

\* Variant with a fault: a history that could not be saved does not matter.
MaySaveAnyway(c) == compaction[c].offload # "due"

\* Both are done, and the history is saved.
MaySave(c) == compaction[c].offload = "saved"

\* _persist_compact_event: the event made of the one that was read takes the
\* place of the one that is there.  That of a turn goes with its request.
Save(c) ==
    LET t == ThreadOf[c]
        r == compaction[c] IN
    /\ Stage(c) = "written" /\ MaySave(c)
    /\ event' = [event EXCEPT ![t] = [cutoff |-> StateCutoff(r.seen, r.cut),
                                      covers |-> r.seen.covers \cup TakenOut(r.seen, r.cut)]]
    /\ met' = IF asking[t] # 0 \/ c \in Autos THEN met \cup {t} ELSE met
    /\ IF c \in Forced THEN Sets(c, [r EXCEPT !.at = "stored"]) ELSE Retired(c)
    /\ UNCHANGED <<length, archive, helperVars, ringVars>>

\* Variant with a fault: the summary takes no room.
RemovedAll(c) == compaction[c].cut

\* removed_tokens: what was taken out, less the summary.
Removed(c) == compaction[c].cut - 1

\* shrink_snapshot
Shrunk(n, by) == IF by > n THEN 0 ELSE n - by

\* The update is stored: the policy goes back, the snapshot is made smaller.
Finish(c) ==
    /\ Stage(c) = "stored"
    /\ summaryPolicy' = LeftPolicy(c)
    /\ ring' = [ring EXCEPT ![ThreadOf[c]] = Shrunk(@, Removed(c))]
    /\ Retired(c)
    /\ UNCHANGED <<threadVars, window, summaryLock, asking, unseen, met>>

CompactionStep(c) ==
    \/ StartCompaction(c) \/ Offload(c) \/ Write(c) \/ Overflow(c) \/ Written(c) \/ GiveUp(c) \/ Save(c) \/ Finish(c)

CompactNext ==
    \/ \E t \in Threads : Say(t) \/ AskModel(t) \/ Capture(t)
    \/ \E c \in Compactions : CompactionStep(c)

CompactSpec == CompactInit /\ [][CompactNext]_compactVars

-----------------------------------------------------------------------------
(***************************************************************************)
(* Properties.                                                             *)
(***************************************************************************)

\* What a conversation no longer shows, its summary stands for and its history
\* file has, message by message, also when two compactions of it overlap.
HistoryIsKept ==
    \A t \in Threads : /\ event[t].covers = 1..event[t].cutoff
                       /\ event[t].covers \subseteq archive[t]

\* A smaller window is for the summary that needs it.  When /compact is over,
\* however it ended, the middleware has its policy back, and every compaction
\* has kept its number of messages and had its own model write the summary.
\* The exception is a /compact that meets another compaction of the agent, in
\* whatever conversation: it lends its policy to the other, and of two that do
\* not end in the reverse order the policy of one stays.
PolicyIsReturned ==
    /\ ~window => summaryLock # Idle /\ Stage(summaryLock) = "retrying"
    /\ AutoPolicy \notin met =>
          /\ (\A c \in Forced : ~Compacting(c)) => summaryPolicy = AutoPolicy
          /\ \A c \in Compactions :
                Stage(c) = "written" => LET own == IF c \in Forced THEN c ELSE AutoPolicy IN
                                     compaction[c].author = own /\ compaction[c].kept = Keep(own)

\* The context usage a host shows is what the conversation takes, up to the
\* messages since the last request, after /compact too, which asks no model.
\* The exception is a compaction that meets another or a request, until the
\* next request.
RingFollows ==
    \A t \in Threads \ met :
        asking[t] = 0 /\ ring[t] # 0 /\ (\A c \in Others(t) : Stage(c) # "stored") =>
            ring[t] + unseen[t] = Effective(length[t], event[t])

\* Compaction loses no message, gives back the policy it lent and leaves the
\* context usage true (compaction.py).
CompactionKeeps == HistoryIsKept /\ PolicyIsReturned /\ RingFollows
-----------------------------------------------------------------------------
(***************************************************************************)
(* What the proofs rest on.                                                *)
(***************************************************************************)

\* The lock is with the one that has its summary written, and the smaller
\* window with the one that needs it.
SummaryInTurn ==
    /\ \A c \in Compactions : Stage(c) \in {"writing", "retrying"} <=> summaryLock = c
    /\ ~window => summaryLock # Idle /\ Stage(summaryLock) = "retrying"

\* What a compaction has read was so once: its summary would stand for the
\* messages before the cut, all of which are there, and those it has saved.
CutsAreSound ==
    /\ \A t \in Threads : event[t].cutoff <= length[t]
    /\ \A c \in Compactions : Compacting(c) =>
          LET r == compaction[c]  t == ThreadOf[c] IN
          /\ r.cut > 0 /\ StateCutoff(r.seen, r.cut) <= length[t]
          /\ r.seen.covers = 1..r.seen.cutoff /\ r.seen.covers \subseteq archive[t]
          /\ r.offload = "saved" => TakenOut(r.seen, r.cut) \subseteq archive[t]
          /\ Stage(c) = "stored" => c \in Forced

\* As long as no /compact met another compaction: it is alone, and the policy
\* is its own; without one it is that of the middleware.
Own(c) == IF c \in Forced THEN c ELSE AutoPolicy
PolicyInHand ==
    AutoPolicy \notin met =>
        /\ \A c, x \in Compactions : Compacting(c) /\ Compacting(x) /\ c \in Forced => c = x
        /\ \A c \in Compactions : Compacting(c) =>
              /\ summaryPolicy = Own(c) /\ compaction[c].former = AutoPolicy /\ compaction[c].kept = Keep(Own(c))
              /\ Stage(c) # "started" => compaction[c].author = Own(c)
        /\ (\A c \in Forced : ~Compacting(c)) => summaryPolicy = AutoPolicy

\* In a conversation that nothing met: one compaction at a time, of the event
\* that is there, and a request is of the conversation but for what was said
\* since.
NoneMet ==
    \A t \in Threads \ met :
        /\ \A c, x \in Others(t) : c = x
        /\ \A c \in Others(t) : Stage(c) # "stored" => compaction[c].seen = event[t]
        /\ asking[t] # 0 => /\ asking[t] + unseen[t] = Effective(length[t], event[t])
                            /\ \A c \in Others(t) : Stage(c) # "stored"
        /\ ring[t] # 0 /\ asking[t] = 0 => \A c \in Others(t) : Stage(c) = "stored" =>
              ring[t] + unseen[t] = Effective(length[t], event[t]) + Removed(c)

CompactInv == HistoryIsKept /\ RingFollows /\ SummaryInTurn /\ CutsAreSound /\ PolicyInHand /\ NoneMet
=============================================================================
