--------------------------- MODULE ThreadHistory ---------------------------
(***************************************************************************)
(* The stored messages of one thread (agent.py: aappend_messages,          *)
(* aget_history, adelete_thread; middleware/checkpoint_ts.py).             *)
(*                                                                         *)
(* A checkpointer keeps a sequence of checkpoints.  A turn reads the       *)
(* newest one when it begins and adds a checkpoint after each of its       *)
(* steps, made of the messages it holds itself; a host appends messages    *)
(* with one update of the state, which reads the newest checkpoint and     *)
(* writes the next, and may delete the thread.  Nothing orders them.       *)
(*                                                                         *)
(* A message is the pair of its writer and a number, and the time of its   *)
(* stamp, 0 when it has none.  The checkpointer and the reducer of         *)
(* messages are a library's, modelled as this code relies on them.         *)
(***************************************************************************)
EXTENDS Naturals, Sequences, SequencesExt, FiniteSets

CONSTANTS
    HistoryTurns, \* turns
    Appends,      \* calls of aappend_messages(), with the retries of their host
    WithIds,      \* those whose messages have ids already
    Batch,        \* messages of an append
    Limit,        \* limit of a page
    MaxAttempts,  \* bound: tries of an append
    MaxModelCalls \* bound: requests of a turn

ASSUME ThreadHistoryAssumption ==
    /\ WithIds \subseteq Appends /\ HistoryTurns \cap Appends = {}
    /\ {Batch, Limit, MaxAttempts, MaxModelCalls} \subseteq Nat \ {0}

VARIABLES
    checkpoints, \* messages of the thread after each checkpoint
    chatTurn,    \* of a turn: where it is, the messages it holds, its requests
    append,      \* of an append: where it is, its tries, its messages, the checkpoint it has read
    clock,       \* the time
    raced,       \* history: writers that were under way while another one was
    deleted,     \* history: messages of a deleted thread
    revived      \* history: was the thread deleted under a writer?

historyVars == <<checkpoints, chatTurn, append, clock, raced, deleted, revived>>

Writers == HistoryTurns \cup Appends
Message(w, n, human, ts) == [id |-> <<w, n>>, human |-> human, ts |-> ts]
Ids(s) == {s[i].id : i \in DOMAIN s}

\* External: the newest checkpoint.
NewestState == IF checkpoints = <<>> THEN <<>> ELSE checkpoints[Len(checkpoints)]

\* External: the reducer replaces the messages whose ids it knows and adds the others.
AddMessages(s, new) ==
    [i \in DOMAIN s |-> IF \E j \in DOMAIN new : new[j].id = s[i].id
                          THEN new[CHOOSE j \in DOMAIN new : new[j].id = s[i].id] ELSE s[i]]
      \o SelectSeq(new, LAMBDA m : m.id \notin Ids(s))

TurnIs(t, place)   == chatTurn[t].at = place
AppendIs(a, place) == append[a].at = place
TurnRuns(t)        == chatTurn[t].at \notin {"idle", "over"}
AppendRuns(a)      == append[a].at \in {"prepared", "read"}
Writing == {t \in HistoryTurns : TurnRuns(t)} \cup {a \in Appends : AppendRuns(a)}

HistoryInit ==
    /\ checkpoints = <<>> /\ clock = 0
    /\ chatTurn = [t \in HistoryTurns |-> [at |-> "idle", held |-> <<>>, calls |-> 0]]
    /\ append = [a \in Appends |-> [at |-> "idle", tries |-> 0, messages |-> <<>>, base |-> <<>>]]
    /\ raced = {} /\ deleted = {} /\ revived = FALSE

-----------------------------------------------------------------------------
(***************************************************************************)
(* Turns.                                                                  *)
(***************************************************************************)
\* stamp_missing_checkpoint_ts from the last message of the user on.
LastHuman(s) == IF \E i \in DOMAIN s : s[i].human
                  THEN CHOOSE i \in DOMAIN s : s[i].human /\ \A j \in i + 1..Len(s) : ~s[j].human
                  ELSE Len(s) + 1

Stamped(s, start, now) == [i \in DOMAIN s |-> IF i >= start /\ s[i].ts = 0 THEN [s[i] EXCEPT !.ts = now] ELSE s[i]]

\* A step of the graph ends: its messages are the newest checkpoint.
Checkpoint(t, place, held, calls) ==
    /\ chatTurn' = [chatTurn EXCEPT ![t] = [at |-> place, held |-> held, calls |-> calls]]
    /\ checkpoints' = Append(checkpoints, held)
    /\ UNCHANGED <<append, deleted, revived>>

\* The first checkpoint of a run holds what was there before.
BeginTurn(t) ==
    /\ TurnIs(t, "idle") /\ \A u \in HistoryTurns : ~TurnRuns(u)
    /\ Checkpoint(t, "begun", NewestState, 0)
    /\ raced' = raced \cup IF Writing = {} THEN {} ELSE {t} \cup Writing
    /\ UNCHANGED clock

TakeInput(t) ==
    /\ TurnIs(t, "begun")
    /\ Checkpoint(t, "input", Append(chatTurn[t].held, Message(t, 0, TRUE, 0)), 0)
    /\ UNCHANGED <<clock, raced>>

BeforeModel(t) ==
    /\ TurnIs(t, "input")
    /\ clock' = clock + 1
    /\ Checkpoint(t, "asked", Stamped(chatTurn[t].held, LastHuman(chatTurn[t].held), clock'), chatTurn[t].calls)
    /\ UNCHANGED raced

\* The answer of the model and, in the same stride, after_model.
AfterModel(t) ==
    /\ TurnIs(t, "asked")
    /\ clock' = clock + 1
    /\ LET calls  == chatTurn[t].calls + 1
           answer == Append(chatTurn[t].held, Message(t, 2 * calls - 1, FALSE, 0))
       IN Checkpoint(t, "answered", Stamped(answer, LastHuman(answer), clock'), calls)
    /\ UNCHANGED raced

UseTool(t) ==
    /\ TurnIs(t, "answered") /\ chatTurn[t].calls < MaxModelCalls
    /\ Checkpoint(t, "input", Append(chatTurn[t].held, Message(t, 2 * chatTurn[t].calls, FALSE, 0)), chatTurn[t].calls)
    /\ UNCHANGED <<clock, raced>>

\* The turn is done, has failed or was cancelled.
EndTurn(t) ==
    /\ TurnRuns(t)
    /\ chatTurn' = [chatTurn EXCEPT ![t].at = "over", ![t].held = <<>>]
    /\ UNCHANGED <<checkpoints, append, clock, raced, deleted, revived>>

-----------------------------------------------------------------------------
(***************************************************************************)
(* Appends and the end of the thread.                                      *)
(***************************************************************************)
\* Variant with a fault: every try gives the messages new ids.
FreshNumber(a, i) == (append[a].tries + 1) * Batch + i

\* A message without an id gets one, at every try of the host another one.
MessageNumber(a, i) == IF a \in WithIds THEN i ELSE (append[a].tries + 1) * Batch + i

\* A host calls, or calls again after a failure: the messages are stamped.
PrepareAppend(a) ==
    /\ append[a].at \in {"idle", "failed"} /\ append[a].tries < MaxAttempts
    /\ clock' = clock + 1
    /\ LET messages == [i \in 1..Batch |-> Message(a, MessageNumber(a, i), TRUE, clock')]
       IN /\ append' = [append EXCEPT ![a] = [at |-> "prepared", tries |-> append[a].tries + 1,
                                              messages |-> messages, base |-> <<>>]]
          /\ deleted' = deleted \ Ids(messages)
    /\ raced' = raced \cup IF Writing = {} THEN {} ELSE {a} \cup Writing
    /\ UNCHANGED <<checkpoints, chatTurn, revived>>

\* aupdate_state(): reads the newest checkpoint, writes the next.
ReadForAppend(a) ==
    /\ AppendIs(a, "prepared")
    /\ append' = [append EXCEPT ![a].at = "read", ![a].base = NewestState]
    /\ UNCHANGED <<checkpoints, chatTurn, clock, raced, deleted, revived>>

WriteAppend(a) ==
    /\ AppendIs(a, "read")
    /\ checkpoints' = Append(checkpoints, AddMessages(append[a].base, append[a].messages))
    /\ \E result \in {"done", "failed"} : append' = [append EXCEPT ![a].at = result, ![a].base = <<>>]
    /\ UNCHANGED <<chatTurn, clock, raced, deleted, revived>>

FailAppend(a) ==
    /\ AppendRuns(a)
    /\ append' = [append EXCEPT ![a].at = "failed", ![a].base = <<>>]
    /\ UNCHANGED <<checkpoints, chatTurn, clock, raced, deleted, revived>>

\* adelete_thread(): all checkpoints.
DeleteThread ==
    /\ checkpoints # <<>>
    /\ checkpoints' = <<>>
    /\ deleted' = deleted \cup UNION {Ids(checkpoints[c]) : c \in DOMAIN checkpoints}
    /\ revived' = (revived \/ Writing # {})
    /\ UNCHANGED <<chatTurn, append, clock, raced>>

HistoryNext ==
    \/ DeleteThread
    \/ \E t \in HistoryTurns : \/ BeginTurn(t) \/ TakeInput(t) \/ BeforeModel(t) \/ AfterModel(t)
                               \/ UseTool(t) \/ EndTurn(t)
    \/ \E a \in Appends : PrepareAppend(a) \/ ReadForAppend(a) \/ WriteAppend(a) \/ FailAppend(a)

HistorySpec == HistoryInit /\ [][HistoryNext]_historyVars

-----------------------------------------------------------------------------
(***************************************************************************)
(* aget_history().                                                         *)
(***************************************************************************)
LastOf(s, n) == IF Len(s) <= n THEN s ELSE SubSeq(s, Len(s) - n + 1, Len(s))

\* Without a cursor: the newest checkpoint, or the state of the graph, which
\* is the same.
Latest == LastOf(NewestState, Limit)

\* _read_history_checkpoint: the newest one before the cursor, when checkpoints
\* hold their messages.  An empty answer falls through to the state of the
\* graph at the cursor, which that checkpoint belongs to.
PageBefore(whole, c) ==
    LET earlier == IF ~whole \/ c = 1 THEN <<>> ELSE checkpoints[c - 1]
    IN LastOf(IF earlier # <<>> THEN earlier ELSE checkpoints[c], Limit)

\* "the checkpoint_id of the oldest message in the previous page"
CursorOf(m) == CHOOSE c \in DOMAIN checkpoints :
                 m.id \in Ids(checkpoints[c]) /\ \A d \in 1..c - 1 : m.id \notin Ids(checkpoints[d])

-----------------------------------------------------------------------------
HistoryTypeOK ==
    LET IsMessages(s) == \A i \in DOMAIN s : s[i].id[1] \in Writers /\ s[i].human \in BOOLEAN /\ s[i].ts \in 0..clock
    IN /\ clock \in Nat
       /\ \A c \in DOMAIN checkpoints : IsMessages(checkpoints[c])
       /\ \A t \in HistoryTurns : IsMessages(chatTurn[t].held) /\ chatTurn[t].calls \in 0..MaxModelCalls
       /\ \A a \in Appends : IsMessages(append[a].messages) /\ append[a].tries \in 0..MaxAttempts
       /\ raced \subseteq Writers /\ revived \in BOOLEAN

CopiesOf(a) == Cardinality({i \in DOMAIN NewestState : NewestState[i].id[1] = a})

\* What a host appended stays in the thread until the thread is deleted, and
\* is there once however often the host tried; a host that leaves the ids to
\* the agent may add it again with every try.  The exception: an append that
\* raced with another writer, whose next checkpoint does not know of it.
AppendedOnce ==
    \A a \in Appends \ raced :
        /\ a \in WithIds => CopiesOf(a) \in {0, Batch}
        /\ CopiesOf(a) <= append[a].tries * Batch
        /\ AppendIs(a, "done") /\ deleted \cap Ids(append[a].messages) = {} => CopiesOf(a) >= Batch

\* A deleted thread stays deleted; unless a writer was under way, which writes
\* what it holds.
DeletedIsGone == revived \/ \A c \in DOMAIN checkpoints : Ids(checkpoints[c]) \cap deleted = {}

\* Stamps follow the order of the messages.  The exceptions: writers that
\* raced; an append that is tried again, which stamps its messages again
\* wherever they stand.
StampsInOrder ==
    \A i, j \in DOMAIN NewestState :
        \/ ~(i < j /\ NewestState[j].ts > 0) \/ NewestState[i].ts <= NewestState[j].ts
        \/ {NewestState[i].id[1], NewestState[j].id[1]} \cap raced # {}
        \/ \E a \in Appends : NewestState[i].id[1] = a /\ append[a].tries > 1

\* The next page ends where this one begins.  The exceptions: a cursor that
\* points into a batch of messages, whose others are left out; a thread with
\* nothing before the cursor, and a checkpointer that stores differences, for
\* which the page is made from the cursor itself.
PagesJoin ==
    (raced = {} /\ ~revived /\ Latest # <<>>) =>
        LET c     == CursorOf(Latest[1])
            first == CHOOSE i \in DOMAIN NewestState : NewestState[i].id = Latest[1].id
            page  == PageBefore(TRUE, c)
        IN \/ c = 1 \/ checkpoints[c - 1] = <<>>
           \/ /\ Ids(page) \cap Ids(Latest) = {}
              /\ page[Len(page)].id = NewestState[first - 1].id
           \/ \E a \in Appends : Latest[1].id[1] = a /\ NewestState[first - 1].id[1] = a

ThreadKept == AppendedOnce /\ DeletedIsGone /\ StampsInOrder /\ PagesJoin
=============================================================================
