------------------------------ MODULE PeerCalls -----------------------------
(***************************************************************************)
(* Agents that ask each other (teams/team_manager.py, teams/tools.py,      *)
(* teams/util.py, middleware/peer.py).                                     *)
(*                                                                         *)
(* A model request shows the callers' roster and an ask_agent tool; the    *)
(* model then names a peer.  The name is looked up again when the tool     *)
(* runs, and the entry of the registry once more when the peer is called,  *)
(* after the host has prepared the session; agents come and go meanwhile.  *)
(* A call is waited for, or queued in the inbox, whose jobs of one peer    *)
(* follow one another.  A peer that runs may ask in turn; its thread is    *)
(* derived from the thread of its caller.                                  *)
(*                                                                         *)
(* Ids and names are sequences of letters.  The entries of an id are       *)
(* numbered.  What the inbox does with a job is module Inbox; that a host  *)
(* may put a call into a thread of its own is left out.                    *)
(***************************************************************************)
EXTENDS Naturals, FiniteSets, SequencesExt

CONSTANTS
    PeerIds,     \* ids of agents
    AddedFirst,  \* the ids at first, in the order in which they were added
    RootId,      \* the agent whose turn the user started
    PeerAsks,        \* calls of ask_agent
    Wanted,      \* the name in a call
    Background,  \* the calls made with mode=background
    AliasesOf,   \* names of an agent
    AllowOf,     \* team_peers of an agent's configuration
    ModeOf,      \* peer_invoke_mode of an entry <<id, number>>
    OwnerOf,     \* user of an entry
    TurnList,    \* team_peers of the user's request
    TurnMode,    \* peer_invoke_mode of it, or "none"
    NoList,      \* no such list
    MaxChanges   \* bound on the changes of the registry

Modes == {"sync", "async", "both"}
Gens  == 1..MaxChanges + 1
User  == "user"

ASSUME PeerAssumption ==
    /\ ToSet(AddedFirst) \subseteq PeerIds /\ RootId \in ToSet(AddedFirst)
    /\ Background \subseteq PeerAsks /\ MaxChanges \in Nat
    /\ TurnMode \in Modes \cup {"none"}
    /\ ModeOf \in [PeerIds \X Gens -> Modes]
    /\ OwnerOf \in [PeerIds \X Gens -> {User, "other", "nobody"}]

VARIABLES
    registry,  \* entries [id, gen] in the order in which they were added
    inboxOn,   \* a processor is set
    ask,       \* state of a call
    changes    \* how often agents were added, removed, or the inbox switched

peerVars == <<registry, inboxOn, ask, changes>>

Root == "root"
NoAsk == [at |-> "idle", from |-> Root, shown |-> {}, surface |-> "none", peer |-> <<>>, gen |-> 0,
          ran |-> 0, thread |-> <<>>, job |-> FALSE, seen |-> 0, orphan |-> FALSE]

PeerInit ==
    /\ registry = [i \in DOMAIN AddedFirst |-> [id |-> AddedFirst[i], gen |-> 1]]
    /\ inboxOn = TRUE /\ changes = 0
    /\ ask = [c \in PeerAsks |-> NoAsk]

-----------------------------------------------------------------------------
(* Finding a peer *)

Has(id) == \E i \in DOMAIN registry : registry[i].id = id
EntryOf(id) == registry[CHOOSE i \in DOMAIN registry : registry[i].id = id]

HasPart(name, q) == \E i \in 0..Len(name) - Len(q) : SubSeq(name, i + 1, i + Len(q)) = q
FirstOf(rows, Test(_)) == rows[CHOOSE i \in DOMAIN rows : Test(rows[i]) /\ \A j \in 1..i - 1 : ~Test(rows[j])]

\* Variant with a fault: of several names in which the query occurs, the first.
FirstPartial(rows, partial) == {r \in partial : \A s \in partial : s = r \/ \E i, j \in DOMAIN rows :
    rows[i] = r /\ rows[j] = s /\ i < j}

\* A name that occurs in one peer's names only.
OnePartial(rows, partial) == IF Cardinality(partial) = 1 THEN partial ELSE {}

\* _match_peer(): the entry meant by q, as a set of at most one.
MatchPeer(rows, q) ==
    LET ById(r) == IsSuffix(q, r.id)
        ByName(r) == \E n \in AliasesOf[r.id] : n = q
        InName(r) == \E n \in AliasesOf[r.id] : HasPart(n, q)
    IN CASE q = <<>> -> {}
         [] \E i \in DOMAIN rows : ById(rows[i]) -> {FirstOf(rows, ById)}
         [] \E i \in DOMAIN rows : ByName(rows[i]) -> {FirstOf(rows, ByName)}
         [] OTHER -> OnePartial(rows, {r \in ToSet(rows) : InName(r)})

\* _filter_peers(): in the order of the names.
FilterPeers(rows, names) ==
    IF names = NoList THEN rows
    ELSE FoldLeft(LAMBDA out, q : out \o SetToSeq(MatchPeer(rows, q) \ ToSet(out)), <<>>, names)

\* list_peers() for a caller; an agent that is no longer registered has no list of its own.
Roster(me, names) ==
    LET mine == SelectSeq(registry, LAMBDA r : OwnerOf[<<r.id, r.gen>>] # "other" /\ r.id # me)
    IN FilterPeers(FilterPeers(mine, IF Has(me) THEN AllowOf[me] ELSE NoList), names)

\* clamp_peer_invoke_mode()
Clamp(requested, configured) ==
    CASE requested = "none"    -> configured
      [] configured = "sync"   -> "sync"
      [] configured = "async"  -> IF requested = "sync" THEN "sync" ELSE "async"
      [] OTHER                 -> requested

\* Variant with a fault: the caller's part of the thread is replaced.
DeriveFlat(thread, id) == <<id>>

\* derive_peer_thread_id()
Derive(thread, id) == IF thread # <<>> /\ Last(thread) = id THEN thread ELSE Append(thread, id)

-----------------------------------------------------------------------------
(* A call *)

AskCaller(f)    == IF f = Root THEN RootId ELSE ask[f].peer
AskerGen(f) == IF f = Root THEN 1 ELSE ask[f].ran
AskThread(f)  == IF f = Root THEN <<>> ELSE ask[f].thread
AskList(f)    == IF f = Root THEN TurnList ELSE NoList
AskWish(f)    == IF f = Root THEN TurnMode ELSE "none"
PeerTurns        == {Root} \cup {c \in PeerAsks : ask[c].at = "running"}

SetAsk(c, rec) == ask' = [ask EXCEPT ![c] = rec]

\* PeerAgentMiddleware._inject(): the request of a turn shows the roster and the tool.
Offer(c, f) ==
    /\ ask[c].at = "idle" /\ f \in PeerTurns
    /\ SetAsk(c, [ask[c] EXCEPT !.at = "offered", !.from = f, !.seen = changes,
                              !.shown = ToSet(Roster(AskCaller(f), AskList(f))),
                              !.surface = Clamp(AskWish(f), ModeOf[<<AskCaller(f), AskerGen(f)>>])])
    /\ UNCHANGED <<registry, inboxOn, changes>>

\* The mode of a call: as configured now, or when the tool was made if the caller has gone.
ForcedMode(f) ==
    LET me == AskCaller(f)
    IN Clamp(AskWish(f), ModeOf[<<me, IF Has(me) THEN EntryOf(me).gen ELSE AskerGen(f)>>])

\* _use_async_invoke(); without a mode in its schema the tool is called with "sync".
UsesInbox(c, forced) ==
    \/ forced = "async"
    \/ forced = "both" /\ c \in Background /\ ask[c].surface = "both" /\ inboxOn

\* ask_agent() up to the call or the queue.
AskPeer(c) ==
    LET f     == ask[c].from
        me    == AskCaller(f)
        found == MatchPeer(Roster(me, AskList(f)), Wanted[c])
        async == UsesInbox(c, ForcedMode(f))
    IN /\ ask[c].at = "offered"
       /\ IF found = {} \/ (async /\ ~inboxOn) THEN SetAsk(c, [ask[c] EXCEPT !.at = "failed"])
          ELSE \E r \in found :
                 SetAsk(c, [ask[c] EXCEPT !.at = IF async THEN "queued" ELSE "preparing", !.job = async,
                                        !.peer = r.id, !.gen = r.gen, !.orphan = ~Has(me),
                                        !.thread = Derive(AskThread(f), r.id)])
       /\ UNCHANGED <<registry, inboxOn, changes>>

\* The inbox takes a job when no other job of that peer is under way, or drops it when it is switched off.
StartJob(c) ==
    /\ ask[c].at = "queued"
    /\ \/ /\ inboxOn /\ \A d \in PeerAsks : ask[d].job /\ ask[d].peer = ask[c].peer =>
                 ask[d].at \notin {"preparing", "running"}
          /\ SetAsk(c, [ask[c] EXCEPT !.at = "preparing"])
       \/ ~inboxOn /\ SetAsk(c, [ask[c] EXCEPT !.at = "failed"])
    /\ UNCHANGED <<registry, inboxOn, changes>>

\* _build_peer_request() returns and _call_agent() looks the peer up.
CallAgent(c) ==
    /\ ask[c].at = "preparing"
    /\ IF Has(ask[c].peer) THEN SetAsk(c, [ask[c] EXCEPT !.at = "running", !.ran = EntryOf(ask[c].peer).gen])
       ELSE SetAsk(c, [ask[c] EXCEPT !.at = "failed"])
    /\ UNCHANGED <<registry, inboxOn, changes>>

\* The peer answers or fails, when the calls it waits for have ended.
PeerEnds(c) ==
    /\ ask[c].at = "running"
    /\ \A d \in PeerAsks : ask[d].from = c => ask[d].at \in {"idle", "queued", "answered", "failed"} \/ ask[d].job
    /\ \E end \in {"answered", "failed"} : SetAsk(c, [ask[c] EXCEPT !.at = end])
    /\ UNCHANGED <<registry, inboxOn, changes>>

AddAgent(id) ==
    /\ ~Has(id) /\ changes < MaxChanges /\ changes' = changes + 1
    /\ registry' = Append(registry, [id |-> id, gen |-> changes + 2])
    /\ UNCHANGED <<inboxOn, ask>>

RemoveAgent(id) ==
    /\ Has(id) /\ changes < MaxChanges /\ changes' = changes + 1
    /\ registry' = SelectSeq(registry, LAMBDA r : r.id # id)
    /\ UNCHANGED <<inboxOn, ask>>

\* set_processor()
SetProcessor ==
    /\ changes < MaxChanges /\ changes' = changes + 1 /\ inboxOn' = ~inboxOn
    /\ UNCHANGED <<registry, ask>>

PeerNext ==
    \/ \E c \in PeerAsks : \/ \E f \in {Root} \cup PeerAsks : Offer(c, f)
                           \/ AskPeer(c) \/ StartJob(c) \/ CallAgent(c) \/ PeerEnds(c)
    \/ \E id \in PeerIds : AddAgent(id) \/ RemoveAgent(id)
    \/ SetProcessor

PeerSpec == PeerInit /\ [][PeerNext]_peerVars

-----------------------------------------------------------------------------
(* What is promised *)

Met(c) == ask[c].peer # <<>>
Above(c) == {d \in PeerAsks : d # c /\ \E e \in PeerAsks : ask[c].from = e /\ (d = e \/ ask[e].from = d)}

PeerTypeOK ==
    /\ \A i \in DOMAIN registry : registry[i].id \in PeerIds /\ registry[i].gen \in Gens
    /\ inboxOn \in BOOLEAN /\ changes \in 0..MaxChanges
    /\ \A c \in PeerAsks : /\ ask[c].at \in {"idle", "offered", "queued", "preparing", "running", "answered", "failed"}
                           /\ ask[c].surface \in Modes \cup {"none"} /\ ask[c].gen \in 0..MaxChanges + 1

\* The agent that answers is one that the caller was shown, is not the caller, and is an agent of the user:
\* unless the agents changed between the steps.  A caller that was removed during its turn asks anyone.
AskedIsMeant ==
    \A c \in PeerAsks : Met(c) =>
        /\ ask[c].peer # AskCaller(ask[c].from)
        /\ ask[c].seen = changes => [id |-> ask[c].peer, gen |-> ask[c].gen] \in ask[c].shown
        /\ ask[c].ran = ask[c].gen => OwnerOf[<<ask[c].peer, ask[c].ran>>] # "other"
        /\ (~ask[c].orphan /\ AllowOf[AskCaller(ask[c].from)] # NoList) =>
               \E q \in ToSet(AllowOf[AskCaller(ask[c].from)]) :
                   IsSuffix(q, ask[c].peer) \/ \E n \in AliasesOf[ask[c].peer] : HasPart(n, q)

\* A name that is part of the names of two peers that were shown, and means neither exactly, is not guessed at.
NoGuess ==
    \A c \in PeerAsks : (Met(c) /\ ask[c].seen = changes) =>
        \/ IsSuffix(Wanted[c], ask[c].peer) \/ Wanted[c] \in AliasesOf[ask[c].peer]
        \/ \A r \in ask[c].shown : r.id # ask[c].peer => \A n \in AliasesOf[r.id] : ~HasPart(n, Wanted[c])

\* No call runs in a thread in which one of its callers runs, and a thread of an agent has two
\* turns at one time only when one caller, in one thread, made both calls.
ThreadsApart ==
    \A c \in PeerAsks : ask[c].at = "running" =>
        /\ \A d \in Above(c) : <<ask[d].peer, ask[d].thread>> # <<ask[c].peer, ask[c].thread>>
        /\ ask[c].thread # <<>>
        /\ \A d \in PeerAsks :
               (ask[d].at = "running" /\ <<ask[d].peer, ask[d].thread>> = <<ask[c].peer, ask[c].thread>>) =>
               <<AskCaller(ask[d].from), AskThread(ask[d].from)>> = <<AskCaller(ask[c].from), AskThread(ask[c].from)>>

\* A caller that may only wait never has a job, and one that may only delegate never waits:
\* as it was shown, unless the agents changed meanwhile.
SurfaceHolds ==
    \A c \in PeerAsks : (Met(c) /\ ask[c].seen = changes) =>
        /\ ask[c].surface = "sync" => ~ask[c].job
        /\ ask[c].surface = "async" => ask[c].job

PeersAnswer == AskedIsMeant /\ NoGuess /\ ThreadsApart /\ SurfaceHolds
=============================================================================
