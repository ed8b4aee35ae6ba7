----------------------------- MODULE AcpSession -----------------------------
(***************************************************************************)
(* Conversations with external agents: ACPService and ACPHostedClient      *)
(* (acp/service.py, acp/client.py), driven by the acp_runner tool          *)
(* (builtin/tools/acp_runner.py).                                          *)
(*                                                                         *)
(* A conversation is a process and a protocol session, filed under the     *)
(* pair of thread and runner; it bears the name of the call that opened    *)
(* it.  A turn holds the conversation's turn_lock until the prompt ends or *)
(* the agent asks for a permission, which a later answer resolves.         *)
(*                                                                         *)
(* Everything runs on one event loop: an action is what one task does      *)
(* between two awaits.  The service's own lock is never held across an     *)
(* await, so nobody ever waits for it.  The agent process is external: it  *)
(* may ask, end its prompt, or exit at any moment.                         *)
(***************************************************************************)
EXTENDS Naturals, Sequences, FiniteSets, SequencesExt

CONSTANTS
    Calls,     \* turns: actions start and message of the tool
    Starts,    \* those of them that are a start
    Answers,   \* action respond
    Closers,   \* action close
    Resets,    \* close_all_sessions() of a service that is replaced
    AcpKeys,   \* pairs of thread and runner
    AcpKeyOf,
    Asks,      \* permission requests of the agents
    NoOne

Users  == Calls \cup Answers
Acting == Users \cup Closers \cup Resets

ASSUME AcpAssumption ==
    /\ Starts \subseteq Calls
    /\ Calls \cap Answers = {} /\ Closers \cap Resets = {} /\ Users \cap (Closers \cup Resets) = {}
    /\ AcpKeyOf \in [Acting \ Resets -> AcpKeys]
    /\ NoOne \notin Acting \cup Asks

VARIABLES
    filed,     \* _sessions: the conversation of a pair
    retired,   \* the service has been replaced
    acpPC,     \* where each call, answer and close is
    conv,      \* the conversation it works on, or closes
    todo,      \* conversations that a close_all still has to close
    queue,     \* turn_lock: its holder and those who wait, in order
    process,   \* the process of a conversation
    prompt,    \* prompt_task
    pending,   \* _pending_permission, and the future behind it
    requested, \* _permission_requested
    askPC,     \* where each permission request is
    resolver,  \* history: the answer that resolved a request
    meant,     \* history: the request that was shown when an answer was given
    stopped,   \* history: conversations whose agent was told to cancel
    lost       \* history: conversations nothing leads to any more, see Lost

tableVars == <<filed, retired, lost>>
askVars   == <<pending, requested, askPC, resolver>>
agentVars == <<process, prompt>>
acpVars   == <<tableVars, acpPC, conv, todo, queue, agentVars, askVars, meant, stopped>>

AcpPCs == {"idle", "restart", "lookup", "opening", "closing", "discarding",
           "queued", "waiting", "interrupt", "done"}

\* Who stands in a line wants its conversation; the first one may be at work.
InLine ==
    \A c \in Calls : \A i \in 1..Len(queue[c]) :
        /\ conv[queue[c][i]] = c
        /\ acpPC[queue[c][i]] = "queued" \/ (i = 1 /\ acpPC[queue[c][i]] = "waiting")

AcpTypeOK ==
    /\ filed \in [AcpKeys -> Calls \cup {NoOne}]
    /\ retired \in BOOLEAN
    /\ acpPC \in [Acting -> AcpPCs]
    /\ conv \in [Acting -> Calls \cup {NoOne}]
    /\ todo \in [Resets -> SUBSET Calls]
    /\ queue \in [Calls -> Seq(Users)]
    /\ InLine
    /\ process \in [Calls -> {"none", "running", "exited"}]
    /\ prompt \in [Calls -> {"none", "running", "cancelled", "ended"}]
    /\ pending \in [Calls -> Asks \cup {NoOne}]
    /\ requested \in [Calls -> BOOLEAN]
    /\ askPC \in [Asks -> {"idle", "open", "resolved", "returned"}]
    /\ resolver \in [Asks -> Answers \cup {NoOne}]
    /\ meant \in [Answers -> Asks \cup {NoOne}]
    /\ stopped \in SUBSET Calls /\ lost \in SUBSET Calls

AcpInit ==
    /\ filed = [k \in AcpKeys |-> NoOne]
    /\ retired = FALSE
    /\ acpPC = [a \in Acting |-> "idle"]
    /\ conv = [a \in Acting |-> NoOne]
    /\ todo = [z \in Resets |-> {}]
    /\ queue = [c \in Calls |-> <<>>]
    /\ process = [c \in Calls |-> "none"]
    /\ prompt = [c \in Calls |-> "none"]
    /\ pending = [c \in Calls |-> NoOne]
    /\ requested = [c \in Calls |-> FALSE]
    /\ askPC = [p \in Asks |-> "idle"]
    /\ resolver = [p \in Asks |-> NoOne]
    /\ meant = [r \in Answers |-> NoOne]
    /\ stopped = {} /\ lost = {}

Move(a, l) == acpPC' = [acpPC EXCEPT ![a] = l]
Alive(c) == c # NoOne /\ process[c] = "running"
Of(a) == filed[AcpKeyOf[a]]
Holds(a) == conv[a] # NoOne /\ queue[conv[a]] # <<>> /\ Head(queue[conv[a]]) = a

\* The lock is asked for, and left by its holder or by one who waits.
Queue(a, c) == /\ conv' = [conv EXCEPT ![a] = c]
               /\ queue' = [queue EXCEPT ![c] = Append(@, a)]
Unqueue(a) == queue' = [queue EXCEPT ![conv[a]] = RemoveFirst(@, a)]

-----------------------------------------------------------------------------
(***************************************************************************)
(* Finding, opening and closing a conversation.                            *)
(***************************************************************************)

\* A start is refused while the pair has a live conversation.
Begin(a) ==
    /\ acpPC[a] = "idle" /\ a \in Calls /\ ~retired
    /\ Move(a, IF a \notin Starts THEN "lookup" ELSE IF Alive(Of(a)) THEN "done" ELSE "restart")
    /\ UNCHANGED <<tableVars, conv, todo, queue, agentVars, askVars, meant, stopped>>

\* _close_conversation up to its first wait: a running prompt is cancelled.
StartClosing(a, c) ==
    /\ conv' = [conv EXCEPT ![a] = c]
    /\ prompt' = [prompt EXCEPT ![c] = IF @ = "running" THEN "cancelled" ELSE @]

\* The conversation of the pair is taken out of the table and closed; a call
\* of close_thread_session() finds none and returns.
TakeOut(a, l, none) ==
    LET c == Of(a) IN
    \/ /\ c = NoOne
       /\ Move(a, none)
       /\ UNCHANGED <<filed, conv, prompt>>
    \/ /\ c # NoOne
       /\ filed' = [filed EXCEPT ![AcpKeyOf[a]] = NoOne]
       /\ StartClosing(a, c)
       /\ Move(a, l)

\* run_turn(restart=True)
Restart(a) ==
    /\ acpPC[a] = "restart"
    /\ TakeOut(a, "closing", "lookup")
    /\ UNCHANGED <<retired, lost, todo, queue, process, askVars, meant, stopped>>

\* _get_or_create_session up to its first wait: a live conversation is used,
\* a dead one is closed first; only a start goes on to open one.
Lookup(a) ==
    /\ acpPC[a] = "lookup"
    /\ \/ /\ Alive(Of(a))
          /\ Queue(a, Of(a))
          /\ Move(a, "queued")
          /\ UNCHANGED <<filed, process, prompt>>
       \/ /\ Of(a) # NoOne /\ ~Alive(Of(a))
          /\ TakeOut(a, "discarding", "done")
          /\ UNCHANGED <<queue, process>>
       \/ /\ Of(a) = NoOne /\ a \in Starts
          /\ process' = [process EXCEPT ![a] = "running"]
          /\ Move(a, "opening")
          /\ UNCHANGED <<filed, conv, queue, prompt>>
       \/ /\ Of(a) = NoOne /\ a \notin Starts
          /\ Move(a, "done")
          /\ UNCHANGED <<filed, conv, queue, agentVars>>
    /\ UNCHANGED <<retired, lost, todo, askVars, meant, stopped>>

\* Conversations that nothing leads to: one whose entry is overwritten by a
\* start that overlapped, one that is filed in a service already replaced,
\* those behind a prompt whose cancellation ends a close_all, and one whose
\* opening was dropped.
Lost(S) == lost' = lost \cup {c \in S : process[c] = "running"}

\* The process does not start, or its opening fails with one of
\* ASYNC_DEFENSIVE_OP_ERRORS: all is undone.
OpenFails(a) ==
    /\ acpPC[a] = "opening"
    /\ process' = [process EXCEPT ![a] = "exited"]
    /\ Move(a, "done")
    /\ UNCHANGED <<tableVars, conv, todo, queue, prompt, askVars, meant, stopped>>

\* The agent speaks another protocol (ACPSessionError) or answers with an error
\* of the protocol library.  Neither is caught: the exit stack is dropped, not
\* closed, and the process runs until the stack is collected (Exits).
OpenDropped(a) ==
    /\ acpPC[a] = "opening"
    /\ Lost({a})
    /\ Move(a, "done")
    /\ UNCHANGED <<filed, retired, conv, todo, queue, agentVars, askVars, meant, stopped>>

\* The conversation is open and filed, and its first turn waits for the lock.
Opened(a) ==
    /\ acpPC[a] = "opening"
    /\ filed' = [filed EXCEPT ![AcpKeyOf[a]] = a]
    /\ Lost(({Of(a)} \ {NoOne}) \cup (IF retired THEN {a} ELSE {}))
    /\ Queue(a, a)
    /\ Move(a, "queued")
    /\ UNCHANGED <<retired, todo, agentVars, askVars, meant, stopped>>

\* close_thread_session() of the tool
CloseThread(x) ==
    /\ acpPC[x] = "idle" /\ x \in Closers /\ ~retired
    /\ TakeOut(x, "closing", "done")
    /\ UNCHANGED <<retired, lost, todo, queue, process, askVars, meant, stopped>>

\* Another service takes the place of this one, which closes what it has.
Replace(z) ==
    /\ acpPC[z] = "idle" /\ z \in Resets /\ ~retired
    /\ retired' = TRUE
    /\ todo' = [todo EXCEPT ![z] = {filed[k] : k \in AcpKeys} \ {NoOne}]
    /\ filed' = [k \in AcpKeys |-> NoOne]
    /\ Move(z, "lookup")
    /\ UNCHANGED <<lost, conv, queue, agentVars, askVars, meant, stopped>>

\* close_all_sessions goes on to its next conversation.
CloseNext(z) ==
    /\ acpPC[z] = "lookup" /\ z \in Resets
    /\ \/ todo[z] = {} /\ Move(z, "done") /\ UNCHANGED <<conv, todo, prompt>>
       \/ \E c \in todo[z] : /\ StartClosing(z, c)
                             /\ todo' = [todo EXCEPT ![z] = @ \ {c}]
                             /\ Move(z, "closing")
    /\ UNCHANGED <<tableVars, queue, process, askVars, meant, stopped>>

\* Where a close goes when it is done.  Waiting for a prompt that was
\* cancelled raises CancelledError, which suppress(Exception) lets through:
\* the process is killed, but what called the close ends with it.  A start
\* that found a dead conversation opens one, whoever has meanwhile.
After(a) ==
    IF prompt[conv[a]] = "cancelled" \/ a \in Closers THEN "done"
    ELSE IF acpPC[a] # "discarding" THEN "lookup"
    ELSE IF a \in Starts THEN "opening" ELSE "done"

\* What becomes of the processes if that of the conversation ends like this.
Killed(a, end) ==
    process' = [c \in Calls |-> IF c = conv[a] THEN end
                                ELSE IF c = a /\ After(a) = "opening" THEN "running" ELSE process[c]]

\* Variant with a fault: the process is not killed after a cancelled prompt.
ClosedUnlessRunning(a) ==
    /\ acpPC[a] \in {"closing", "discarding"}
    /\ Killed(a, IF prompt[conv[a]] = "cancelled" THEN process[conv[a]] ELSE "exited")
    /\ Move(a, After(a))
    /\ IF a \in Resets /\ After(a) = "done" THEN Lost(todo[a]) ELSE UNCHANGED lost
    /\ UNCHANGED <<filed, retired, conv, todo, queue, prompt, askVars, meant, stopped>>

\* The agent has been asked to close the session; its process is killed.
Closed(a) ==
    /\ acpPC[a] \in {"closing", "discarding"}
    /\ Killed(a, "exited")
    /\ Move(a, After(a))
    /\ IF a \in Resets /\ After(a) = "done" THEN Lost(todo[a]) ELSE UNCHANGED lost
    /\ UNCHANGED <<filed, retired, conv, todo, queue, prompt, askVars, meant, stopped>>

-----------------------------------------------------------------------------
(***************************************************************************)
(* A turn.                                                                 *)
(***************************************************************************)

\* Variant with a fault: it is not checked that nothing is pending.
TurnUnchecked(a) ==
    LET c == conv[a] IN
    /\ acpPC[a] = "queued" /\ a \in Calls /\ Holds(a)
    /\ prompt' = [prompt EXCEPT ![c] = "running"]
    /\ pending' = [pending EXCEPT ![c] = NoOne]
    /\ requested' = [requested EXCEPT ![c] = FALSE]
    /\ stopped' = stopped \ {c}
    /\ Move(a, "waiting")
    /\ UNCHANGED <<tableVars, conv, todo, queue, process, askPC, resolver, meant>>

\* run_turn with the lock: refused while a permission is pending or a prompt
\* runs, the prompt is sent otherwise.
Turn(a) ==
    LET c == conv[a] IN
    /\ acpPC[a] = "queued" /\ a \in Calls /\ Holds(a)
    /\ \/ /\ pending[c] # NoOne \/ prompt[c] = "running"
          /\ Unqueue(a)
          /\ Move(a, "done")
          /\ UNCHANGED <<prompt, requested, stopped>>
       \/ /\ pending[c] = NoOne /\ prompt[c] # "running"
          /\ prompt' = [prompt EXCEPT ![c] = "running"]
          /\ requested' = [requested EXCEPT ![c] = FALSE]
          /\ stopped' = stopped \ {c}
          /\ Move(a, "waiting")
          /\ UNCHANGED queue
    /\ UNCHANGED <<tableVars, conv, todo, process, pending, askPC, resolver, meant>>

Answerable(c) == c # NoOne /\ pending[c] # NoOne /\ prompt[c] = "running"

\* resume_permission up to the lock: there must be a permission to answer.
Answer(r) ==
    LET c == Of(r) IN
    /\ acpPC[r] = "idle" /\ r \in Answers /\ ~retired
    /\ \/ /\ Answerable(c)
          /\ meant' = [meant EXCEPT ![r] = pending[c]]
          /\ Queue(r, c)
          /\ Move(r, "queued")
       \/ /\ ~Answerable(c)
          /\ Move(r, "done")
          /\ UNCHANGED <<conv, queue, meant>>
    /\ UNCHANGED <<tableVars, todo, agentVars, askVars, stopped>>

\* With the lock: what is pending now is answered, whatever it is; if nothing
\* is, or the option is not one of its options, the call fails.
Resolve(r) ==
    LET c == conv[r]  p == pending[c] IN
    /\ acpPC[r] = "queued" /\ r \in Answers /\ Holds(r)
    /\ requested' = [requested EXCEPT ![c] = FALSE]
    /\ \/ /\ Unqueue(r)
          /\ Move(r, "done")
          /\ UNCHANGED <<askPC, resolver>>
       \/ /\ p # NoOne
          /\ askPC' = [askPC EXCEPT ![p] = "resolved"]
          /\ resolver' = [resolver EXCEPT ![p] = IF askPC[p] = "open" THEN r ELSE @]
          /\ Move(r, "waiting")
          /\ UNCHANGED queue
    /\ UNCHANGED <<tableVars, conv, todo, agentVars, pending, meant, stopped>>

\* _wait_for_prompt_outcome: a permission is asked for, and the turn is over
\* for now; or the prompt has ended.
Outcome(a) ==
    LET c == conv[a]
        ask == requested[c] /\ pending[c] # NoOne IN
    /\ acpPC[a] = "waiting"
    /\ ask \/ prompt[c] # "running"
    /\ prompt' = [prompt EXCEPT ![c] = IF ask THEN @ ELSE "none"]
    /\ Unqueue(a)
    /\ Move(a, "done")
    /\ UNCHANGED <<tableVars, conv, todo, process, askVars, meant, stopped>>

\* max_runtime is over: the call is cancelled where it waits.  A conversation
\* that is being opened is undone, one that is being closed is killed.
TimeOut(a) ==
    /\ acpPC[a] \in {"opening", "closing", "discarding", "queued", "waiting"}
    /\ a \in Users
    /\ process' = CASE acpPC[a] = "opening" -> [process EXCEPT ![a] = "exited"]
                    [] acpPC[a] \in {"closing", "discarding"} -> [process EXCEPT ![conv[a]] = "exited"]
                    [] OTHER -> process
    /\ IF acpPC[a] \in {"queued", "waiting"} THEN Unqueue(a) ELSE UNCHANGED queue
    /\ Move(a, "interrupt")
    /\ UNCHANGED <<tableVars, conv, todo, prompt, askVars, meant, stopped>>

\* cancel_turn: the agent is told to cancel the prompt that runs for the pair.
Interrupt(a) ==
    /\ acpPC[a] = "interrupt"
    /\ stopped' = IF Of(a) # NoOne /\ prompt[Of(a)] = "running" THEN stopped \cup {Of(a)} ELSE stopped
    /\ Move(a, "done")
    /\ UNCHANGED <<tableVars, conv, todo, queue, agentVars, askVars, meant>>

-----------------------------------------------------------------------------
(***************************************************************************)
(* The agent, and the requests it makes of its client.                     *)
(***************************************************************************)

OpenAsk(c) == {p \in Asks : askPC[p] = "open" /\ pending[c] = p}

\* request_permission: the request is filed, and its future waited for.  An
\* agent asks for one thing at a time.
RequestPermission(p, c) ==
    /\ askPC[p] = "idle" /\ Alive(c) /\ prompt[c] = "running" /\ pending[c] = NoOne
    /\ pending' = [pending EXCEPT ![c] = p]
    /\ requested' = [requested EXCEPT ![c] = TRUE]
    /\ askPC' = [askPC EXCEPT ![p] = "open"]
    /\ UNCHANGED <<tableVars, acpPC, conv, todo, queue, agentVars, resolver, meant, stopped>>

\* finally: the option chosen goes to the agent, and the request is forgotten.
Returned(p, c) ==
    /\ askPC[p] = "resolved" /\ pending[c] = p
    /\ askPC' = [askPC EXCEPT ![p] = "returned"]
    /\ pending' = [pending EXCEPT ![c] = NoOne]
    /\ requested' = [requested EXCEPT ![c] = FALSE]
    /\ UNCHANGED <<tableVars, acpPC, conv, todo, queue, agentVars, resolver, meant, stopped>>

\* The prompt ends by itself when no permission is waited for, or because the
\* agent was told so.
PromptEnds(c) ==
    /\ prompt[c] = "running" /\ Alive(c)
    /\ OpenAsk(c) = {} \/ c \in stopped
    /\ prompt' = [prompt EXCEPT ![c] = "ended"]
    /\ UNCHANGED <<tableVars, acpPC, conv, todo, queue, process, askVars, meant, stopped>>

\* The process exits; a prompt that runs, or is sent later, fails.
Exits(c) ==
    /\ \/ process[c] = "running"
       \/ process[c] = "exited" /\ prompt[c] = "running"
    /\ process' = [process EXCEPT ![c] = "exited"]
    /\ prompt' = [prompt EXCEPT ![c] = IF @ = "running" THEN "ended" ELSE @]
    /\ UNCHANGED <<tableVars, acpPC, conv, todo, queue, askVars, meant, stopped>>

-----------------------------------------------------------------------------
OpenStep(a)  == Begin(a) \/ Restart(a) \/ Lookup(a) \/ OpenFails(a) \/ OpenDropped(a) \/ Opened(a)
CloseStep(a) == CloseThread(a) \/ Replace(a) \/ CloseNext(a) \/ Closed(a)
TurnStep(a)  == Turn(a) \/ Answer(a) \/ Resolve(a) \/ Outcome(a) \/ TimeOut(a) \/ Interrupt(a)

AcpNext ==
    \/ \E a \in Calls : OpenStep(a)
    \/ \E a \in Acting : CloseStep(a)
    \/ \E a \in Users : TurnStep(a)
    \/ \E c \in Calls : PromptEnds(c) \/ Exits(c)
    \/ \E c \in Calls, p \in Asks : RequestPermission(p, c) \/ Returned(p, c)

AcpSpec == AcpInit /\ [][AcpNext]_acpVars

-----------------------------------------------------------------------------
(***************************************************************************)
(* Properties.                                                             *)
(***************************************************************************)

\* No agent process is left running that nobody can reach: it is filed, or
\* its opening or its closing is under way, whichever call failed, timed out
\* or was overtaken.  The exceptions are those of Lost; among them is an opening
\* that fails with an error that is not listed.
NoStrayProcess ==
    \A c \in Calls : process[c] = "running" =>
        \/ \E k \in AcpKeys : filed[k] = c
        \/ acpPC[c] = "opening"
        \/ \E a \in Acting : conv[a] = c /\ acpPC[a] \in {"closing", "discarding"}
        \/ \E z \in Resets : c \in todo[z]
        \/ c \in lost

\* Two answers were given for one permission of the conversation.
Doubled(c) ==
    \E r, s \in Answers : r # s /\ conv[r] = c /\ conv[s] = c /\ meant[r] = meant[s] /\ meant[r] # NoOne

\* An answer goes to the permission it was given for; unless two answers were
\* given for the same one, after which each may go to the next.
AnswerIsMeant ==
    \A p \in Asks : resolver[p] # NoOne => meant[resolver[p]] = p \/ Doubled(conv[resolver[p]])

\* A turn that waits hears of every permission the agent waits for.
WaiterHears ==
    \A a \in Users : acpPC[a] = "waiting" /\ OpenAsk(conv[a]) # {} => requested[conv[a]]

\* A conversation in the table can go on: a permission that it waits for can
\* still be answered, except after a cancellation or the end of the process.
NoDeadEnd ==
    \A k \in AcpKeys : LET c == filed[k] IN
        Alive(c) /\ pending[c] # NoOne /\ askPC[pending[c]] = "open" /\ c \notin stopped
        => prompt[c] = "running"

\* A permission is asked for, heard of and answered, and nothing else is
\* answered in its place.
PermissionsSettle == AnswerIsMeant /\ WaiterHears /\ NoDeadEnd

\* Closing, cancelling or overtaking a conversation with an external agent
\* leaves no process behind, and each question for permission gets its one
\* answer (acp/service.py).
ConversationsSettle == NoStrayProcess /\ PermissionsSettle
=============================================================================
