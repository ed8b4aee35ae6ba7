--------------------------- MODULE DecisionTurns ---------------------------
(***************************************************************************)
(* DecisionMiddleware (middleware/decision.py): what it remembers of the   *)
(* turns it has scored, and how runs that share it use that.               *)
(*                                                                         *)
(* A turn is a user message and the tool loop behind it; a run is one      *)
(* execution of the graph, for a turn or for its resumption.  Before each  *)
(* model call of a run the middleware asks the decision model, once per    *)
(* turn, and writes what it kept into a note; tool calls of the run are    *)
(* then checked against tables of the middleware: _turns by turn, _pins by *)
(* thread, _deferred_by_thread by run.  The agent holds one middleware,    *)
(* so all its threads share the tables, and their bounds.                  *)
(*                                                                         *)
(* Abstracted: skills (they are filtered as tools are, and nothing is      *)
(* checked later), the tool lists below tool_min_count, and the words of   *)
(* notes and messages.                                                     *)
(***************************************************************************)
EXTENDS DecisionSelect

CONSTANTS
    Convs, Turns, Runs,
    ConvOf,      \* the thread of a turn
    TurnOf,      \* the turn of a run
    Followups,   \* turns that wrap up the work of a member
    Named,       \* the members a turn's user names
    Finished,    \* the member whose work a turn wraps up, if any
    Wordless,    \* turns without a text
    Tools,       \* the long-tail tools, as a sequence
    Matching,    \* those that share words with the text of a turn, the best first
    CatalogLimit, \* _CATALOG_LIMIT
    Members,     \* the members of the team, as a sequence
    Questions,   \* _QUESTION_LIMIT
    MaxSelected, \* max_selected of DecisionConfig
    TurnCap,     \* how many turns are remembered
    RunCap,      \* how many runs' tools are remembered
    Overlapping  \* threads on which a host starts runs while others run

ToolSet   == ToSet(Tools)
MemberSet == ToSet(Members)

ASSUME DecisionAssumption ==
    /\ ConvOf \in [Turns -> Convs]
    /\ TurnOf \in [Runs -> Turns]
    /\ Followups \subseteq Turns
    /\ Named \in [Turns -> SUBSET MemberSet]
    /\ Finished \in [Turns -> SUBSET MemberSet]
    /\ \A t \in Turns \ Followups : Finished[t] = {}
    /\ ToolSet \cap MemberSet = {}
    /\ Wordless \subseteq Turns
    /\ Tools \in Seq(ToolSet) /\ Matching \in [Turns -> Seq(ToolSet)]
    /\ {Questions, MaxSelected, TurnCap, RunCap, CatalogLimit} \subseteq Nat \ {0}
    /\ Questions >= 3   \* one at least for each kind of question
    /\ Overlapping \subseteq Convs

VARIABLES
    filters,    \* _turns: the filter of a turn
    turnOrder,  \* its keys, the oldest first
    pins,       \* _pins
    catalogs,   \* _deferred_by_thread: the tools of a run
    presented,  \* its keys, the oldest first
    runPC,      \* where each run is
    shownNote,  \* the filter that the last model call of the run was shown
    refused,    \* the members a run could not dispatch, the tools it could not call
    firstGiven, \* history: the filter a turn was given first
    newer,      \* history: the turns remembered since a turn was, first
    since,      \* history: the runs presented since a run was
    crossed     \* history: turns on whose thread another turn was asked about since

tables       == <<filters, turnOrder, pins, catalogs, presented>>
decisionVars == <<tables, runPC, shownNote, refused, firstGiven, newer, since, crossed>>

\* Who may be dispatched: everyone, those chosen, or nobody (_DISPATCH_CLOSED).
Anyone       == [mode |-> "open", to |-> {}]
ShutOut      == [mode |-> "closed", to |-> {}]
OnlyThese(S) == [mode |-> "only", to |-> S]
Dispatches   == {Anyone, ShutOut} \cup {OnlyThese(S) : S \in (SUBSET MemberSet) \ {{}}}

Filter    == [tools : SUBSET ToolSet, dispatch : Dispatches]
NoFilter  == [tools |-> {}, dispatch |-> Anyone]
Unscored  == [scored |-> FALSE, filter |-> NoFilter]
Given(f)  == [scored |-> TRUE, filter |-> f]
Entry     == {Unscored} \cup {Given(f) : f \in Filter}

Conv(r)      == ConvOf[TurnOf[r]]
Executing(r) == runPC[r] \notin {"idle", "done"}

DecisionTypeOK ==
    /\ filters \in [Turns -> Entry] /\ firstGiven \in [Turns -> Entry]
    /\ turnOrder \in Seq(Turns) /\ Len(turnOrder) <= TurnCap
    /\ ToSet(turnOrder) = {t \in Turns : filters[t].scored}
    /\ pins \in [Convs -> Dispatches]
    /\ catalogs \in [Runs -> SUBSET ToolSet]
    /\ presented \in Seq(Runs) /\ Len(presented) <= RunCap
    /\ runPC \in [Runs -> {"idle", "scoring", "model", "done"}]
    /\ shownNote \in [Runs -> Filter]
    /\ refused \in [Runs -> SUBSET (MemberSet \cup ToolSet)]
    /\ newer \in [Turns -> SUBSET Turns] /\ since \in [Runs -> SUBSET Runs]
    /\ crossed \in SUBSET Turns

DecisionInit ==
    /\ filters = [t \in Turns |-> Unscored] /\ turnOrder = <<>>
    /\ pins = [d \in Convs |-> Anyone]
    /\ catalogs = [r \in Runs |-> {}] /\ presented = <<>>
    /\ runPC = [r \in Runs |-> "idle"]
    /\ shownNote = [r \in Runs |-> NoFilter]
    /\ refused = [r \in Runs |-> {}]
    /\ firstGiven = [t \in Turns |-> Unscored]
    /\ newer = [t \in Turns |-> {}] /\ since = [r \in Runs |-> {}]
    /\ crossed = {}

-----------------------------------------------------------------------------
(***************************************************************************)
(* The tables.                                                             *)
(***************************************************************************)

\* Variant with a fault: a key that is there keeps its place.
NewestInPlace(keys, k, cap) ==
    LET all == IF k \in ToSet(keys) THEN keys ELSE Append(keys, k)
    IN SubSeq(all, AtLeast(1, Len(all) - cap + 1), Len(all))

\* Variant with a fault: nothing is forgotten.
NewestUnbounded(keys, k, cap) == Append(RemoveFirst(keys, k), k)

\* Variant with a fault: the bound is reached one entry early.
NewestOfFewer(keys, k, cap) ==
    LET all == Append(RemoveFirst(keys, k), k)
    IN SubSeq(all, AtLeast(1, Len(all) - cap + 2), Len(all))

\* Inserting a key puts it last; the oldest keys beyond the bound go.
Newest(keys, k, cap) ==
    LET all == Append(RemoveFirst(keys, k), k)
    IN SubSeq(all, AtLeast(1, Len(all) - cap + 1), Len(all))

\* _remember_turn
RememberTurn(t, f) ==
    /\ turnOrder' = Newest(turnOrder, t, TurnCap)
    /\ filters' = [u \in Turns |-> IF u = t THEN Given(f)
                                   ELSE IF u \in ToSet(turnOrder') THEN filters[u] ELSE Unscored]
    /\ firstGiven' = [firstGiven EXCEPT ![t] = IF @.scored THEN @ ELSE Given(f)]
    /\ newer' = [u \in Turns |-> IF firstGiven[u].scored THEN newer[u] \cup ({t} \ {u}) ELSE {}]

\* _present, _remember_deferred: the note of this model call, and the tools
\* that the run may then name to call_deferred_tool.
Present(r, f) ==
    /\ shownNote' = [shownNote EXCEPT ![r] = f]
    /\ presented' = Newest(presented, r, RunCap)
    /\ catalogs' = [q \in Runs |-> IF q = r THEN f.tools
                                   ELSE IF q \in ToSet(presented') THEN catalogs[q] ELSE {}]
    /\ since' = [q \in Runs |-> IF q = r THEN {} ELSE since[q] \cup {r}]

\* _commit
CommitFilter(r, f) ==
    /\ RememberTurn(TurnOf[r], f)
    /\ Present(r, f)
    /\ runPC' = [runPC EXCEPT ![r] = "model"]

-----------------------------------------------------------------------------
(***************************************************************************)
(* A model call.                                                           *)
(***************************************************************************)

\* A run begins, or comes back from its tools.  Except on an overlapping
\* thread, a run begins when no other runs, and a resumption follows the run
\* it resumes.
MayCall(r) ==
    \/ runPC[r] = "model"
    \/ /\ runPC[r] = "idle"
       /\ Conv(r) \in Overlapping
          \/ /\ \A q \in Runs : Conv(q) = Conv(r) => ~Executing(q)
             /\ TurnOf[r] \notin crossed

\* A turn that has been scored is replayed.
Replay(r) ==
    /\ MayCall(r)
    /\ filters[TurnOf[r]].scored
    /\ Present(r, filters[TurnOf[r]].filter)
    /\ runPC' = [runPC EXCEPT ![r] = "model"]
    /\ UNCHANGED <<filters, turnOrder, pins, refused, firstGiven, newer, crossed>>

\* The members a turn asks about: those it names, or all of a team that
\* leaves a choice.
Candidates(t) ==
    LET team == MemberSet \ Finished[t]
        few  == Cardinality(team) < (IF t \in Followups THEN 1 ELSE 2)
    IN IF Named[t] \cap team # {} THEN Named[t] \cap team ELSE IF few THEN {} ELSE team

\* lexical_shortlist: a catalog that is too long is cut to what matches the
\* turn; <<>> stands for its None.
Shortlist(t) ==
    IF Len(Tools) <= CatalogLimit THEN Tools
    ELSE SubSeq(Matching[t], 1, AtMost(CatalogLimit, Len(Matching[t])))

\* How many questions of each kind are asked.
Asked(t) ==
    FitQuestions([result |-> IF t \in Followups THEN 1 ELSE 0, skill |-> 0,
                  tool |-> Len(Shortlist(t)), member |-> Cardinality(Candidates(t))], Questions)

HasQuestions(t) == t \notin Wordless /\ \E kind \in DOMAIN Asked(t) : Asked(t)[kind] > 0

AskedTools(t) == {Shortlist(t)[i] : i \in DOMAIN Shortlist(t) \cap (1..Asked(t)["tool"])}

\* _collect: what was decided for the thread is dropped, whatever comes of
\* the questions.
DropPin(r) ==
    /\ MayCall(r)
    /\ ~filters[TurnOf[r]].scored
    /\ pins' = [pins EXCEPT ![Conv(r)] = Anyone]
    /\ crossed' = (crossed \ {TurnOf[r]})
                     \cup {t \in Turns \ {TurnOf[r]} : ConvOf[t] = Conv(r)}

\* The questions are sent; an asynchronous call waits for the answer.
Collect(r) ==
    /\ DropPin(r)
    /\ HasQuestions(TurnOf[r])
    /\ runPC' = [runPC EXCEPT ![r] = "scoring"]
    /\ UNCHANGED <<filters, turnOrder, catalogs, presented, shownNote, refused,
                   firstGiven, newer, since>>

\* There is nothing to ask: an empty filter, which _pin_prefix makes one that
\* keeps no long-tail tool.
AskNothing(r) ==
    /\ DropPin(r)
    /\ ~HasQuestions(TurnOf[r])
    /\ CommitFilter(r, NoFilter)
    /\ UNCHANGED refused

\* What keep_confident may return for the items of S: nothing or a few.
Chosen(S) == {K \in SUBSET S : Cardinality(K) \in 1..MaxSelected}

\* Variant with a fault: what did not fit among the questions goes, too.
KeptOfAsked(t) ==
    IF Shortlist(t) = <<>> THEN {{}} ELSE Chosen(AskedTools(t)) \cup {{}, ToolSet}

\* _apply_tools: the tools in the note.  Those of the shortlist that did not
\* fit stay, those that the shortlist cut off go; nothing confident drops the
\* others only if all were answered, otherwise the whole catalog stays.
\* Without a shortlist _pin_prefix leaves none.
KeptTools(t) ==
    IF Shortlist(t) = <<>> THEN {{}}
    ELSE {K \cup (ToSet(Shortlist(t)) \ AskedTools(t)) : K \in Chosen(AskedTools(t)) \cup {{}}}
            \cup {ToolSet}

\* _apply_result, _apply_members: what is decided about dispatch.  A result
\* that suffices closes it.  Otherwise a user's choice stands, whatever the
\* scores; an incomplete answer decides nothing; and a wrap-up that clears
\* nobody is closed.
Decided(t) ==
    LET asked == Candidates(t) # {} /\ Asked(t)["member"] > 0
        named == Candidates(t) \subseteq Named[t]
    IN (IF t \in Followups THEN {ShutOut} ELSE {})
       \cup (IF asked /\ named THEN {OnlyThese(Candidates(t))} ELSE {Anyone})
       \cup (IF asked /\ ~named THEN {OnlyThese(K) : K \in Chosen(Candidates(t))} ELSE {})

\* _apply: the answers are there.
Apply(r) ==
    /\ runPC[r] = "scoring"
    /\ \E T \in KeptTools(TurnOf[r]), d \in Decided(TurnOf[r]) :
          /\ pins' = [pins EXCEPT ![Conv(r)] = IF d = Anyone THEN @ ELSE d]
          /\ CommitFilter(r, [tools |-> T, dispatch |-> d])
    /\ UNCHANGED <<refused, crossed>>

\* _unavailable: the decision model does not answer, after retries; the
\* catalog stays.
Unavailable(r) ==
    /\ runPC[r] = "scoring"
    /\ CommitFilter(r, [tools |-> ToolSet, dispatch |-> Anyone])
    /\ UNCHANGED <<pins, refused, crossed>>

\* The answer has no probabilities in it: no tool and no restriction.
EmptyAnswer(r) ==
    /\ runPC[r] = "scoring"
    /\ CommitFilter(r, NoFilter)
    /\ UNCHANGED <<pins, refused, crossed>>

\* The run is cancelled while it waits for the answer, or ends.
EndRun(r) ==
    /\ Executing(r)
    /\ runPC' = [runPC EXCEPT ![r] = "done"]
    /\ UNCHANGED <<tables, shownNote, refused, firstGiven, newer, since, crossed>>

-----------------------------------------------------------------------------
(***************************************************************************)
(* Tool calls of the reply.                                                *)
(***************************************************************************)

Allows(pin, m) == pin.mode = "open" \/ m \in pin.to

\* _blocked_ask: ask_agent(m)
AskAgent(r, m) ==
    /\ runPC[r] = "model"
    /\ refused' = [refused EXCEPT ![r] = IF Allows(pins[Conv(r)], m) THEN @ ELSE @ \cup {m}]
    /\ UNCHANGED <<tables, runPC, shownNote, firstGiven, newer, since, crossed>>

\* _forward_deferred: call_deferred_tool(t), for a tool of the note
ForwardDeferred(r, t) ==
    /\ runPC[r] = "model"
    /\ t \in shownNote[r].tools
    /\ refused' = [refused EXCEPT ![r] = IF t \in catalogs[r] THEN @ ELSE @ \cup {t}]
    /\ UNCHANGED <<tables, runPC, shownNote, firstGiven, newer, since, crossed>>

ScoreStep(r) == Apply(r) \/ Unavailable(r) \/ EmptyAnswer(r)

DecisionNext ==
    \E r \in Runs :
        \/ Replay(r) \/ Collect(r) \/ AskNothing(r) \/ ScoreStep(r) \/ EndRun(r)
        \/ \E m \in MemberSet : AskAgent(r, m)
        \/ \E t \in ToolSet : ForwardDeferred(r, t)

DecisionSpec == DecisionInit /\ [][DecisionNext]_decisionVars

-----------------------------------------------------------------------------
(***************************************************************************)
(* Properties.                                                             *)
(***************************************************************************)

\* "Frozen catalog for one user message, including the tool loop after it":
\* every model call of a turn, by whichever of its runs, is shown what the
\* turn was given first, unless TurnCap other turns came after it.  On a thread
\* where runs overlap, two of one turn may both ask, and get two answers.
FrozenTurn ==
    \A r \in Runs :
        runPC[r] = "model" /\ Conv(r) \notin Overlapping /\ shownNote[r] # firstGiven[TurnOf[r]].filter
        => Cardinality(newer[TurnOf[r]]) >= TurnCap

\* A tool that the note lists can be called, by the run that was shown the
\* note, until RunCap other runs have been shown theirs: runs that share a
\* thread do not lose each other's tools.
NotedToolsCallable ==
    \A r \in Runs :
        runPC[r] = "model" /\ ~(shownNote[r].tools \subseteq catalogs[r]) => Cardinality(since[r]) >= RunCap

\* What the note tells the model about dispatch is what its calls are held
\* to, as long as no other turn of the thread has been asked about, on a thread
\* where runs do not overlap.
NoteBinds ==
    \A r \in Runs :
        runPC[r] = "model" /\ Conv(r) \notin Overlapping /\ TurnOf[r] \notin crossed
        => pins[Conv(r)] = shownNote[r].dispatch

\* "Explicit user routing always wins": a member that the user names is not
\* refused, whatever the decision model answers, on a thread where runs do
\* not overlap.
NamedNotRefused ==
    \A r \in Runs :
        TurnOf[r] \notin Followups /\ Conv(r) \notin Overlapping
        => refused[r] \cap Named[TurnOf[r]] = {}

\* "Skills and tools that do not fit stay in the catalog": a tool of the
\* shortlist that the decision model was not asked about is in the note, if it
\* answered at all.  Tools that the shortlist cut off are not: see
\* NoMatchKeepsCatalog.
UnaskedToolsStay ==
    \A r \in Runs :
        LET t == TurnOf[r] IN
        runPC[r] = "model" /\ shownNote[r] # NoFilter
        => ToSet(Shortlist(t)) \ AskedTools(t) \subseteq shownNote[r].tools


\* The note of a model call is what its tool calls are held to: tools that it
\* lists can be called, dispatch is as it says, and neither leaves out what
\* the user named or what of the shortlist was not asked about.
NoteHolds == NotedToolsCallable /\ NoteBinds /\ NamedNotRefused /\ UnaskedToolsStay

\* What a turn was given stays, and what its note said is kept to.
DecisionsHold == FrozenTurn /\ NoteHolds
=============================================================================
