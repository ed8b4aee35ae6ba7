---------------------------- MODULE TurnCapture ----------------------------
(***************************************************************************)
(* What MemoryMiddleware (middleware/memory.py) records of a conversation: *)
(* before_model notes how many messages there are, after_model takes what  *)
(* the model added since, looks for the prompt behind it, hands the        *)
(* exchange to the memory service and appends the step to the JSONL log.   *)
(*                                                                         *)
(* The note is kept per operating-system thread.  The hooks of an          *)
(* asynchronous graph run on the thread of its event loop, which the       *)
(* conversations of an agent share; those of a synchronous graph run on    *)
(* the thread of the caller.  Between two hooks of one conversation those  *)
(* of another may run.                                                     *)
(*                                                                         *)
(* A message is its kind and the number of the turn it belongs to.         *)
(***************************************************************************)
EXTENDS Naturals, FiniteSets, Sequences, SequencesExt

CONSTANTS
    Chats,
    Workers,     \* operating-system threads
    WorkerOf,    \* the thread on which the hooks of a conversation run
    MaxTurns,    \* bound: turns of a conversation
    MaxCalls     \* bound: model calls with tool calls in one turn

ASSUME CaptureAssumption ==
    /\ WorkerOf \in [Chats -> Workers]
    /\ MaxTurns \in Nat /\ MaxCalls \in Nat

VARIABLES
    messages,  \* the messages of a conversation
    cursors,   \* _cursors, 0 for a thread without an entry
    phase,     \* where a conversation is
    calls,     \* model calls with tool calls in this turn so far
    taken,     \* the exchanges handed to capture_turn
    journal,   \* the JSONL log of a conversation
    mixed      \* history: conversations whose note was replaced or taken by another's hook

captureVars == <<messages, cursors, phase, calls, taken, journal, mixed>>

Kinds   == {"user", "call", "tool", "reply", "failed"}
Message == [kind : Kinds, turn : 1..MaxTurns]

\* The turns of the prompts, and of the reply if there is one.
Exchange == [users : Seq(1..MaxTurns), reply : 0..MaxTurns]

CaptureTypeOK ==
    /\ messages \in [Chats -> Seq(Message)]
    /\ cursors \in [Workers -> Nat]
    /\ phase \in [Chats -> {"idle", "prompted", "thinking", "answered", "acting"}]
    /\ calls \in [Chats -> 0..MaxCalls]
    /\ taken \in [Chats -> Seq(Exchange)]
    /\ journal \in [Chats -> Seq(Message)]
    /\ mixed \in SUBSET Chats

CaptureInit ==
    /\ messages = [c \in Chats |-> <<>>]
    /\ cursors = [w \in Workers |-> 0]
    /\ phase = [c \in Chats |-> "idle"]
    /\ calls = [c \in Chats |-> 0]
    /\ taken = [c \in Chats |-> <<>>]
    /\ journal = [c \in Chats |-> <<>>]
    /\ mixed = {}

\* The messages of these kinds, in order.
OfKind(s, kinds) ==
    LET there   == {i \in DOMAIN s : s[i].kind \in kinds}
        rank(i) == Cardinality({j \in there : j <= i})
    IN [k \in 1..Cardinality(there) |-> s[CHOOSE i \in there : rank(i) = k]]

TurnNo(c) == Len(OfKind(messages[c], {"user"}))
Says(c, kind) == messages' = [messages EXCEPT ![c] = Append(@, [kind |-> kind, turn |-> TurnNo(c)])]
Enter(c, p)   == phase' = [phase EXCEPT ![c] = p]

\* Those whose note is on the same thread, and still to be taken.
Disturbed(c) ==
    {d \in Chats \ {c} : WorkerOf[d] = WorkerOf[c] /\ phase[d] \in {"thinking", "answered"}}

-----------------------------------------------------------------------------
\* The user's message is in the state when the graph starts.
Prompt(c) ==
    /\ phase[c] = "idle"
    /\ TurnNo(c) < MaxTurns
    /\ messages' = [messages EXCEPT ![c] = Append(@, [kind |-> "user", turn |-> TurnNo(c) + 1])]
    /\ calls' = [calls EXCEPT ![c] = 0]
    /\ Enter(c, "prompted")
    /\ UNCHANGED <<cursors, taken, journal, mixed>>

\* before_model
BeforeModel(c) ==
    /\ phase[c] = "prompted"
    /\ cursors' = [cursors EXCEPT ![WorkerOf[c]] = Len(messages[c])]
    /\ mixed' = mixed \cup Disturbed(c)
    /\ Enter(c, "thinking")
    /\ UNCHANGED <<messages, calls, taken, journal>>

\* The model asks for tools, replies, or fails; a failure is a reply that
\* bears octop_runtime_error.
ModelAnswers(c) ==
    /\ phase[c] = "thinking"
    /\ \/ /\ calls[c] < MaxCalls
          /\ Says(c, "call")
          /\ calls' = [calls EXCEPT ![c] = @ + 1]
       \/ /\ Says(c, "reply") \/ Says(c, "failed")
          /\ UNCHANGED calls
    /\ Enter(c, "answered")
    /\ UNCHANGED <<cursors, taken, journal, mixed>>

\* The tools answer, and the graph goes back to the model.
ToolsAnswer(c) ==
    /\ phase[c] = "acting"
    /\ Says(c, "tool")
    /\ Enter(c, "prompted")
    /\ UNCHANGED <<cursors, calls, taken, journal, mixed>>

-----------------------------------------------------------------------------
\* Variant with a fault: the prompt is looked for right before the cursor.
TriggerAtCursor(seen) ==
    IF seen # <<>> /\ seen[Len(seen)].kind = "user" THEN <<seen[Len(seen)].turn>> ELSE <<>>

\* _find_turn_trigger_user: the prompt behind this turn's tool traffic.
Trigger(seen) ==
    LET stops == {i \in 1..Len(seen) : seen[i].kind \in {"user", "reply", "failed"}}
        last  == CHOOSE i \in stops : \A j \in stops : j <= i
    IN IF stops # {} /\ seen[last].kind = "user" THEN <<seen[last].turn>> ELSE <<>>

\* _filter_visible_messages, _split_user_assistant: the prompts and the last
\* reply; nothing for a prompt that only has tool traffic behind it so far.
Visible(trigger, new) ==
    LET texts  == OfKind(new, {"reply", "failed"})
        users  == OfKind(new, {"user"})
        prompt == trigger \o [i \in 1..Len(users) |-> users[i].turn]
        failed == texts # <<>> /\ Last(texts).kind = "failed"
        reply  == IF texts # <<>> /\ ~failed THEN Last(texts).turn ELSE 0
        nothing == prompt = <<>> \/ (trigger # <<>> /\ Len(prompt) = 1 /\ ~failed)
    IN IF reply = 0 /\ nothing THEN <<>> ELSE <<[users |-> prompt, reply |-> reply]>>

\* _write_jsonl: the first prompt and the last answer among the step's
\* messages and the message right before them, if that is a prompt.
LogEntries(seen, new) ==
    LET all  == IF seen # <<>> /\ Last(seen).kind = "user" THEN <<Last(seen)>> \o new ELSE new
        asks == OfKind(all, {"user"})
        says == OfKind(all, {"call", "reply", "failed"})
    IN (IF asks = <<>> THEN <<>> ELSE <<Head(asks)>>)
       \o (IF says = <<>> THEN <<>> ELSE <<Last(says)>>)

\* after_model
AfterModel(c) ==
    LET cursor == cursors[WorkerOf[c]]
        seen   == SubSeq(messages[c], 1, cursor)
        new    == IF cursor <= Len(messages[c])
                  THEN SubSeq(messages[c], cursor + 1, Len(messages[c])) ELSE <<>>
    IN /\ phase[c] = "answered"
       /\ cursors' = [cursors EXCEPT ![WorkerOf[c]] = 0]
       /\ mixed' = mixed \cup Disturbed(c)
       /\ IF new = <<>> THEN UNCHANGED <<taken, journal>>
          ELSE /\ taken' = [taken EXCEPT ![c] = @ \o Visible(Trigger(seen), new)]
               /\ journal' = [journal EXCEPT ![c] = @ \o LogEntries(seen, new)]
       /\ Enter(c, IF Last(messages[c]).kind = "call" THEN "acting" ELSE "idle")
       /\ UNCHANGED <<messages, calls>>

CaptureNext ==
    \E c \in Chats : \/ Prompt(c) \/ BeforeModel(c) \/ ModelAnswers(c)
                     \/ AfterModel(c) \/ ToolsAnswer(c)

CaptureSpec == CaptureInit /\ [][CaptureNext]_captureVars

-----------------------------------------------------------------------------
(***************************************************************************)
(* Properties.                                                             *)
(***************************************************************************)

\* The exchange of turn n of a conversation, as the user saw it.
Seen(c, n) ==
    [users |-> <<n>>,
     reply |-> IF \E i \in 1..Len(messages[c]) : messages[c][i] = [kind |-> "reply", turn |-> n]
               THEN n ELSE 0]

\* Every turn that has ended was handed to the memory service once, in order,
\* the prompt with its reply, however many tool calls lay between them, and
\* nothing else was.
IsTaken(c) ==
    LET ended == IF phase[c] = "idle" THEN TurnNo(c) ELSE TurnNo(c) - 1
    IN taken[c] = [n \in 1..ended |-> Seen(c, n)]

\* The log is the conversation without the tools' messages, each prompt and
\* each answer once.
IsLogged(c) ==
    phase[c] \in {"idle", "acting"} => journal[c] = OfKind(messages[c], Kinds \ {"tool"})

\* "the persisted transcript contains both sides of the exchange": whatever
\* other conversations of the agent do meanwhile (after_model).
ExchangesTaken == \A c \in Chats : IsTaken(c)

\* Memory and log both have the whole conversation, once, unless another
\* conversation's hook ran on the same thread between two hooks of this one that
\* enclose a model call (before_model, after_model, _write_jsonl).
ConversationsKept == \A c \in Chats \ mixed : IsTaken(c) /\ IsLogged(c)
=============================================================================
