---------------------------- MODULE OfficeFiles -----------------------------
(***************************************************************************)
(* An unpacked presentation and the scripts of the builtin powerpoint      *)
(* skill that add a slide to it (add_slide.py) and sweep it (clean.py),    *)
(* between which somebody edits the list of slides in presentation.xml.    *)
(*                                                                         *)
(* A part is <<folder, number>>.  Of its text only the relationships are   *)
(* kept: rels[f] is the set of targets in the .rels file of f, or NoRels.  *)
(* A target is relative to the part, or absolute ("/ppt/..."), which the   *)
(* scripts do not resolve.                                                 *)
(***************************************************************************)
EXTENDS Naturals, FiniteSets, FiniteSetsExt, SequencesExt

CONSTANTS
    DeckParts,      \* all parts there may be, slides included
    FirstDeck,  \* the presentation at first
    PresTargets,\* parts that presentation.xml refers to beside its slides
    FirstId,    \* first id of a slide (256)
    NoRels,     \* there is no .rels file
    MaxAdded    \* bound on the slides added

VARIABLES
    deck,    \* files, rels, targets of presentation.xml.rels, sldIdLst, overrides
    lines,   \* lines printed by add_slide that have not been put into the list
    added,   \* number of slides added
    tidy,    \* nothing happened since the last sweep
    needed, sure  \* history: parts in use at the last sweep; of them, those it can see

deckVars == <<deck, lines, added, tidy, needed, sure>>

Folder(f) == f[1]
Slide(n) == <<"slides", n>>
Swept == {"media", "embeddings", "charts", "diagrams", "tags", "drawings", "ink"}
WithRels == {"charts", "diagrams", "drawings"}

HasRels(d, f) == d.rels[f] # NoRels
Targets(d, f) == IF HasRels(d, f) THEN {t.to : t \in {x \in d.rels[f] : ~x.absolute}} ELSE {}

SlidesIn(d) == {f \in d.files : Folder(f) = "slides"}
Rids(d) == {p[1] : p \in d.pres}

-----------------------------------------------------------------------------
(* clean.py *)

\* get_slides_in_sldidlst()
ListedSlides(d) == {p[2] : p \in {q \in d.pres : \E e \in d.list : e.rid = q[1]}}

\* remove_orphaned_slides()
DropSlides(d) ==
    LET keep == ListedSlides(d)
        gone == SlidesIn(d) \ keep
    IN IF gone = {} THEN d
       ELSE [d EXCEPT !.files = @ \ gone,
                      !.rels  = [f \in DeckParts |-> IF f \in gone THEN NoRels ELSE @[f]],
                      !.pres  = {p \in @ : p[2] \in keep}]

\* get_slide_referenced_files(), get_referenced_files()
SlideTargets(d) == UNION {Targets(d, f) : f \in {g \in DeckParts : Folder(g) = "slides"}}
AllTargets(d) == UNION {Targets(d, f) : f \in DeckParts} \cup {p[2] : p \in d.pres} \cup PresTargets

\* remove_orphaned_rels_files()
DropRels(d) ==
    LET seen == SlideTargets(d)
    IN [d EXCEPT !.rels = [f \in DeckParts |-> IF Folder(f) \in WithRels /\ (f \notin d.files \/ f \notin seen)
                                             THEN NoRels ELSE @[f]]]

\* remove_orphaned_files(): the parts that no .rels file names; of themes and notes also the .rels files.
DropFiles(d) ==
    LET gone == {f \in d.files : Folder(f) \in Swept \cup {"theme", "notesSlides"} /\ f \notin AllTargets(d)}
        left == d.files \ gone
    IN [d EXCEPT !.files = left,
                 !.rels  = [f \in DeckParts |-> IF \/ f \in gone /\ Folder(f) = "theme"
                                                   \/ f \notin left /\ Folder(f) = "notesSlides"
                                              THEN NoRels ELSE @[f]]]

Round(d) == DropFiles(DropRels(d))

\* Variant with a fault: one round.
SweepOnce(d) == Round(d)

RECURSIVE SweepAll(_)
SweepAll(d) == IF Round(d) = d THEN d ELSE SweepAll(Round(d))

\* The loop of clean_unused_files().
Sweep(d) == SweepAll(d)

\* clean_unused_files(), with update_content_types(): the overrides of what was removed.
Cleaned(d) ==
    LET swept == Sweep(DropSlides(d))
    IN [swept EXCEPT !.types = @ \ (d.files \ swept.files)]

-----------------------------------------------------------------------------
(* What is in use, by definition: whatever can be reached from the list,   *)
(* from the layouts and from presentation.xml.                             *)

RECURSIVE Closure(_, _)
Closure(From(_), S) ==
    LET more == S \cup UNION {From(f) : f \in S} IN IF more = S THEN S ELSE Closure(From, more)

Roots(d) == (ListedSlides(d) \cup PresTargets \cup {f \in d.files : Folder(f) = "slideLayouts"}) \cap d.files

Within(d, S) == S \cap (d.files \ SlidesIn(d))

Needed(d) == Closure(LAMBDA f : IF HasRels(d, f) THEN Within(d, {t.to : t \in d.rels[f]}) ELSE {}, Roots(d))

\* The scripts see relative targets only, and of charts, diagrams and drawings those that a slide names itself.
Sure(d) ==
    LET shown == UNION {Targets(d, f) : f \in ListedSlides(d)}
    IN Closure(LAMBDA f : IF Folder(f) \in WithRels /\ f \notin shown THEN {} ELSE Within(d, Targets(d, f)),
               Roots(d))

-----------------------------------------------------------------------------
(* add_slide.py *)

\* get_next_slide_number()
NextSlide(d) == Slide(IF SlidesIn(d) = {} THEN 1 ELSE Max({f[2] : f \in SlidesIn(d)}) + 1)

\* Variant with a fault: as many as there are, and one.
CountRid(d) == Cardinality(Rids(d)) + 1

\* The number of _add_to_presentation_rels().
NextRid(d) == IF Rids(d) = {} THEN 1 ELSE Max(Rids(d)) + 1

\* _get_next_slide_id()
NextId(d) == IF d.list = {} THEN FirstId ELSE Max({e.id : e \in d.list}) + 1

\* The end that create_slide_from_layout() and duplicate_slide() share: the override, the relationship if the
\* slide has none, and the line for the user.
AddSlide(newRels) ==
    LET new == NextSlide(deck)
        rid == NextRid(deck)
        id  == NextId(deck)
    IN /\ added < MaxAdded /\ new \in DeckParts
       /\ added' = added + 1
       /\ deck' = [deck EXCEPT !.files = @ \cup {new},
                               !.rels  = [@ EXCEPT ![new] = newRels],
                               !.types = @ \cup {new},
                               !.pres  = IF \E p \in @ : p[2] = new THEN @ ELSE @ \cup {<<rid, new>>}]
       /\ lines' = lines \cup {[id |-> id, rid |-> rid, meant |-> new, stale |-> FALSE,
                                twin |-> \E l \in lines : l.id = id]}
       /\ tidy' = FALSE /\ UNCHANGED <<needed, sure>>

\* create_slide_from_layout()
FromLayout(l) ==
    /\ Folder(l) = "slideLayouts" /\ l \in deck.files
    /\ AddSlide({[to |-> l, absolute |-> FALSE]})

\* duplicate_slide(): without the notes of the source.
Duplicate(s) ==
    /\ s \in SlidesIn(deck)
    /\ AddSlide(IF HasRels(deck, s) THEN {t \in deck.rels[s] : Folder(t.to) # "notesSlides"}
           ELSE deck.rels[NextSlide(deck)])

-----------------------------------------------------------------------------
(* The user edits presentation.xml. *)

PutLine(l) ==
    /\ deck' = [deck EXCEPT !.list = @ \cup {l}] /\ lines' = lines \ {l}
    /\ tidy' = FALSE /\ UNCHANGED <<added, needed, sure>>

Unlist(e) ==
    /\ deck' = [deck EXCEPT !.list = @ \ {e}]
    /\ tidy' = FALSE /\ UNCHANGED <<lines, added, needed, sure>>

CleanDeck ==
    /\ deck' = Cleaned(deck)
    /\ lines' = {[l EXCEPT !.stale = TRUE] : l \in lines}
    /\ tidy' = TRUE /\ needed' = Needed(deck) /\ sure' = Sure(deck)
    /\ UNCHANGED added

DeckInit ==
    /\ deck = FirstDeck /\ lines = {} /\ added = 0
    /\ tidy = FALSE /\ needed = {} /\ sure = {}

DeckNext ==
    \/ \E f \in DeckParts : FromLayout(f) \/ Duplicate(f)
    \/ \E l \in lines : PutLine(l)
    \/ \E e \in deck.list : Unlist(e)
    \/ CleanDeck

DeckSpec == DeckInit /\ [][DeckNext]_deckVars

-----------------------------------------------------------------------------
(* What is promised *)

DeckTypeOK ==
    /\ deck.files \subseteq DeckParts /\ deck.types \subseteq DeckParts /\ DOMAIN deck.rels = DeckParts
    /\ \A e \in deck.list \cup lines : e.id >= FirstId /\ e.rid > 0 /\ e.meant \in DeckParts
    /\ tidy \in BOOLEAN /\ needed \subseteq DeckParts /\ sure \subseteq needed /\ added \in 0..MaxAdded

\* A sweep leaves what is in use, as far as it can see.
NeededIsKept == tidy => sure \subseteq deck.files

\* It removes everything else from the folders it sweeps, and the overrides of what it removed.
GarbageGoes ==
    tidy => /\ \A f \in deck.files : Folder(f) \in Swept \cup {"slides", "theme", "notesSlides"} => f \in needed
            /\ deck.types \subseteq deck.files

\* After it no relative target is a part that is gone, except a slide that another slide jumps to.
NoneDangles ==
    tidy => \A f \in DeckParts : \A t \in Targets(deck, f) : t \in deck.files \/ Folder(t) = "slides"

\* An entry of the list is the slide it was printed for, which has an override: unless the sweep came
\* before the line was put in.
ListedIsMeant ==
    \A e \in deck.list : e.stale \/ (<<e.rid, e.meant>> \in deck.pres /\ e.meant \in deck.files \cap deck.types)

\* No two entries have one id or one relationship: unless two lines were printed before either was put
\* in, or a sweep came between.
EntriesDiffer ==
    \A e, g \in deck.list : e # g => e.twin \/ g.twin \/ e.stale \/ g.stale \/ (e.id # g.id /\ e.rid # g.rid)

DeckHolds == NeededIsKept /\ GarbageGoes /\ NoneDangles /\ ListedIsMeant /\ EntriesDiffer

-----------------------------------------------------------------------------
(***************************************************************************)
(* A paragraph of an unpacked document, and the helpers of the builtin     *)
(* powerpoint skill that simplify it before somebody edits it: merge_runs  *)
(* joins neighbouring runs of one format, simplify_redlines neighbouring   *)
(* tracked changes of one author, and infer_author finds out afterwards    *)
(* whose changes are new.                                                  *)
(*                                                                         *)
(* A paragraph is a sequence of runs, tracked changes (which hold runs),   *)
(* marks (any other element), spelling marks, and gaps (white space        *)
(* between elements).  A run has a format and a body of texts and breaks.  *)
(* A text that begins or ends with a space shows it only if it is kept     *)
(* (xml:space).                                                            *)
(***************************************************************************)

CONSTANTS
    RunsDrawn,    \* runs that the inputs are made of
    ChangesDrawn, \* tracked changes
    MaxChildren,  \* bound on the children of a paragraph
    DefaultAuthor,
    Unclear        \* several authors: ValueError

VARIABLES before, change, place  \* a paragraph; a change made in it, and where

runVars == <<before, change, place>>

Mark == [kind |-> "mark"]
Spelling == [kind |-> "proofErr"]
Gap == [kind |-> "gap"]
Tags == {"ins", "del"}
IsChange(x) == x.kind \in Tags

-----------------------------------------------------------------------------
(* merge_runs.py *)

\* The last element of a sequence of children, or 0: _next_element_sibling() and _is_adjacent() from the other side.
LastElement(s) == LET E == {i \in 1..Len(s) : s[i].kind # "gap"} IN IF E = {} THEN 0 ELSE Max(E)

AtEdge(t) == t # <<>> /\ " " \in {Head(t), Last(t)}

\* _consolidate_text()
Consolidated(body) ==
    FoldLeft(LAMBDA acc, x :
        IF acc # <<>> /\ x.kind = "t" /\ Last(acc).kind = "t"
          THEN LET text == Last(acc).text \o x.text
               IN Append(Front(acc), [kind |-> "t", text |-> text, keep |-> AtEdge(text)])
          ELSE Append(acc, x), <<>>, body)

\* Variant with a fault: whatever the format.
CanMergeAny(r, q) == r.kind = q.kind

\* _can_merge()
CanMerge(r, q) == r.format = q.format

\* _merge_runs_in(), with _merge_run_content()
MergedIn(s) ==
    LET joined == FoldLeft(LAMBDA acc, x :
                    LET k == LastElement(acc)
                    IN IF x.kind = "run" /\ k > 0 /\ (IF acc[k].kind = "run" THEN CanMerge(acc[k], x) ELSE FALSE)
                         THEN [acc EXCEPT ![k].body = @ \o x.body]
                         ELSE Append(acc, x), <<>>, s)
    IN [i \in DOMAIN joined |-> IF joined[i].kind = "run" THEN [joined[i] EXCEPT !.body = Consolidated(@)] ELSE joined[i]]

\* merge_runs(): the parents of runs are the paragraph and its tracked changes.
MergeRuns(p) ==
    LET inner == [i \in DOMAIN p |-> IF IsChange(p[i]) THEN [p[i] EXCEPT !.runs = MergedIn(@)] ELSE p[i]]
    IN MergedIn(SelectSeq(inner, LAMBDA x : x.kind # "proofErr"))

-----------------------------------------------------------------------------
(* simplify_redlines.py *)

\* Variant with a fault: the change before, whatever stands between.
LastTracked(s, tag) == LET E == {i \in 1..Len(s) : s[i].kind = tag} IN IF E = {} THEN 0 ELSE Max(E)

\* The change that a change may be merged into: the elements between them are what _can_merge_tracked() looks for.
MergeInto(s, tag) == LET k == LastElement(s) IN IF k > 0 /\ s[k].kind = tag THEN k ELSE 0

\* _merge_tracked_changes_in(), with _merge_tracked_content()
MergedChanges(p, tag) ==
    FoldLeft(LAMBDA acc, x :
        LET k == MergeInto(acc, tag)
        IN IF x.kind = tag /\ k > 0 /\ acc[k].author = x.author
             THEN [acc EXCEPT ![k].runs = @ \o x.runs]
             ELSE Append(acc, x), <<>>, p)

\* simplify_redlines()
SimplifyRedlines(p) == MergedChanges(MergedChanges(p, "ins"), "del")

-----------------------------------------------------------------------------
(* infer_author() *)

\* get_tracked_change_authors()
ChangesBy(p, a) == Cardinality({i \in DOMAIN p : IF IsChange(p[i]) THEN p[i].author = a ELSE FALSE})
Authors(p) == {p[i].author : i \in {j \in DOMAIN p : IsChange(p[j])}}

\* Variant with a fault: whoever has as many.
WithNewOrSame(new, old) == {a \in Authors(new) : ChangesBy(new, a) >= ChangesBy(old, a)}

WithNew(new, old) == {a \in Authors(new) : ChangesBy(new, a) > ChangesBy(old, a)}

InferAuthor(new, old) ==
    LET found == WithNew(new, old)
    IN CASE found = {} -> DefaultAuthor
         [] Cardinality(found) = 1 -> CHOOSE a \in found : TRUE
         [] OTHER -> Unclear

-----------------------------------------------------------------------------
(* What is promised, for every paragraph *)

\* In the inputs an edge that is a space is kept, as word processors write it.
Children == RunsDrawn \cup ChangesDrawn \cup {Mark, Spelling, Gap}
Paragraphs == UNION {[1..n -> Children] : n \in 0..MaxChildren}

RunsInit == before \in Paragraphs /\ change \in ChangesDrawn /\ place \in {0, Len(before)}

\* The characters, breaks and marks of a paragraph in order, each with its format and whose change it is in.
Shown(p) ==
    LET OfRun(r, who) ==
            FoldLeft(LAMBDA acc, x : acc \o (IF x.kind = "t" THEN [i \in DOMAIN x.text |-> <<x.text[i], r.format, who>>]
                                             ELSE <<<<"break", r.format, who>>>>), <<>>, r.body)
        Of(x) == CASE x.kind = "run" -> OfRun(x, <<"none", DefaultAuthor>>)
                   [] IsChange(x) -> FoldLeft(LAMBDA acc, r : acc \o OfRun(r, <<x.kind, x.author>>), <<>>, x.runs)
                   [] x.kind = "mark" -> <<<<"mark", "none", <<"none", DefaultAuthor>>>>>>
                   [] OTHER -> <<>>
    IN FoldLeft(LAMBDA acc, x : acc \o Of(x), <<>>, p)

RunsOf(p) == {p[i] : i \in {j \in DOMAIN p : p[j].kind = "run"}}
             \cup UNION {{p[i].runs[k] : k \in DOMAIN p[i].runs} : i \in {j \in DOMAIN p : IsChange(p[j])}}

Elements(s) == SelectSeq(s, LAMBDA x : x.kind # "gap")

\* "Merges adjacent <w:r> elements that have identical <w:rPr> properties": nothing that is shown changes,
\* no space at an edge gets lost, and nothing is left to merge.
RunsAreMerged ==
    LET after == MergeRuns(SimplifyRedlines(before))
        Lists == {after} \cup {after[i].runs : i \in {j \in DOMAIN after : IsChange(after[j])}}
    IN /\ Shown(after) = Shown(before)
       /\ \A r \in RunsOf(after) : \A i \in DOMAIN r.body :
            /\ r.body[i].kind = "t" /\ AtEdge(r.body[i].text) => r.body[i].keep
            /\ i > 1 => "t" \notin {r.body[i].kind} \cap {r.body[i - 1].kind}
       /\ \A s \in Lists : LET e == Elements(s) IN
            \A i \in 2..Len(e) : e[i].kind = "run" /\ e[i - 1].kind = "run" => e[i].format # e[i - 1].format

\* "Only merges if truly adjacent", and if so it does.
ChangesAreMerged ==
    LET after == SimplifyRedlines(before)
        e     == Elements(after)
    IN /\ Shown(after) = Shown(before)
       /\ \A i \in 2..Len(e) : IsChange(e[i]) /\ e[i].kind = e[i - 1].kind => e[i].author # e[i - 1].author
       /\ \A i \in DOMAIN after : after[i].kind \in {"run", "mark", "proofErr"} =>
              after[i] \in {before[k] : k \in DOMAIN before}

\* Unclear but the one whose change is new is held for its author, whatever was merged meanwhile.
AuthorIsMeant ==
    LET edited == InsertAt(before, place + 1, change)
    IN InferAuthor(SimplifyRedlines(edited), before) \in {DefaultAuthor, change.author}

RunsHold == RunsAreMerged /\ ChangesAreMerged /\ AuthorIsMeant
RunsTypeOK == place \in Nat /\ IsChange(change)
=============================================================================
