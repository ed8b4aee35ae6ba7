---------------------------- MODULE BrowserTabs ----------------------------
(***************************************************************************)
(* The tool browser_use (builtin/tools/browser_use.py).                    *)
(*                                                                         *)
(* All calls with one profile drive one browser: its tabs, one of which is *)
(* in front.  To open a page the tool lists the tabs, brings one that      *)
(* shows the page already to the front, and only when there is none opens  *)
(* the page, in the tab in front or in a new one.  Every step is a request *)
(* to the browser, so other calls, and the user, come in between.  What    *)
(* was done is kept in a bounded history of the profile.                   *)
(*                                                                         *)
(* A page stands for the URLs that are equal in canonical form.  The       *)
(* browser is a library's.                                                 *)
(***************************************************************************)
EXTENDS Naturals, Sequences, FiniteSets

CONSTANTS
    Browsings,  \* calls of browser_use()
    ActionOf,   \* "navigate", "new_tab", "close_tab" or "look", which stands for what acts on the page in front
    PageOf,     \* page of a call that opens one
    Pages,      \* pages; BlankPage is that of a new browser
    RootPages,  \* those that are the root of their site
    SiteOf,     \* site of a page
    LandsOn,    \* pages the browser may end up on when it opens a page
    MaxTabs,    \* bound: tabs opened
    HistoryMax, \* _HISTORY_MAX
    MaxTouches  \* bound: pages the user opens in the tab in front

BlankPage == "blank"
GoneTab   == "closed"

ASSUME BrowserTabsAssumption ==
    /\ {BlankPage, GoneTab} \cap Pages = {} /\ RootPages \subseteq Pages /\ DOMAIN SiteOf = Pages
    /\ MaxTabs \in Nat \ {0} /\ HistoryMax \in Nat \ {0} /\ MaxTouches \in Nat
    /\ \A b \in Browsings : ActionOf[b] \in {"navigate", "new_tab"} => PageOf[b] \in Pages
    /\ \A p \in Pages : p \in LandsOn[p] /\ LandsOn[p] \subseteq Pages

VARIABLES
    tabs,     \* pages of the tabs ever opened, GoneTab for a tab that is gone
    front,    \* the tab in front, 0 when there is none
    browsing, \* of a call: where it is, the tabs it has listed, which of them comes next, what it ended with
    recent,   \* _history of the profile: calls in the order of their ends
    recorded, \* history: all of them
    touches,  \* pages the user has opened
    disturbed, \* history: calls during which another one, or the user, changed a tab
    excused   \* history: pages that may be open twice

browserVars == <<tabs, front, browsing, recent, recorded, touches, disturbed, excused>>

TabIds == DOMAIN tabs
Step(b)     == browsing[b].at
BrowseAt(b, place) == Step(b) = place
Browses(b)  == Step(b) \in {"listing", "switching", "opening"}
Opens(b)    == ActionOf[b] \in {"navigate", "new_tab"}

BrowserInit ==
    /\ tabs = <<BlankPage>> /\ front = 1
    /\ browsing = [b \in Browsings |-> [at |-> "idle", list |-> <<>>, next |-> 1, result |-> "none"]]
    /\ recent = <<>> /\ recorded = <<>> /\ touches = 0 /\ disturbed = {} /\ excused = {}

\* _urls_match_requested_open: the same page, or any of the site when its
\* root is asked for.
Satisfies(page, asked) ==
    /\ page \in Pages
    /\ page = asked \/ (asked \in RootPages /\ SiteOf[page] = SiteOf[asked])

-----------------------------------------------------------------------------
\* Variant with a fault: one entry too many is kept.
BoundedLate(s) == IF Len(s) > HistoryMax + 1 THEN SubSeq(s, 2, Len(s)) ELSE s

\* _record_history
Bounded(s) == IF Len(s) > HistoryMax THEN SubSeq(s, Len(s) - HistoryMax + 1, Len(s)) ELSE s

EndBrowse(b, result) ==
    /\ browsing' = [browsing EXCEPT ![b] = [at |-> "ended", list |-> <<>>, next |-> 1, result |-> result]]
    /\ recent' = Bounded(Append(recent, b))
    /\ recorded' = Append(recorded, b)

\* A step of a call changes what the browser shows.
Disturbs(b) == disturbed' = disturbed \cup {c \in Browsings \ {b} : Browses(c)}

\* A call that opens a page lists the tabs first, the others act at once.
Browse(b) ==
    /\ BrowseAt(b, "idle")
    /\ browsing' = [browsing EXCEPT ![b].at = IF Opens(b) THEN "listing" ELSE "opening"]
    /\ UNCHANGED <<tabs, front, recent, recorded, touches, disturbed, excused>>

\* list_tabs: an answer, a failure that leaves no tab to look at, or an exception.
ListTabs(b) ==
    /\ BrowseAt(b, "listing")
    /\ \/ /\ browsing' = [browsing EXCEPT ![b].at = "switching", ![b].list = tabs]
          /\ UNCHANGED <<recent, recorded, excused>>
       \/ /\ browsing' = [browsing EXCEPT ![b].at = "opening"]
          /\ excused' = excused \cup LandsOn[PageOf[b]]
          /\ UNCHANGED <<recent, recorded>>
       \/ EndBrowse(b, "failed") /\ UNCHANGED excused
    /\ UNCHANGED <<tabs, front, touches, disturbed>>

\* The next of the listed tabs that satisfies the request.
Candidate(b) ==
    LET fits == {i \in DOMAIN browsing[b].list : i >= browsing[b].next /\ Satisfies(browsing[b].list[i], PageOf[b])}
    IN IF fits = {} THEN 0 ELSE CHOOSE i \in fits : \A j \in fits : i <= j

\* Variant with a fault: a tab that could not be brought to the front is reused as well.
ReusesAnyway(switched) == TRUE

Reuses(switched) == switched

\* switch_tab, which may fail even when the tab is there; then the next one.
SwitchTab(b) ==
    /\ BrowseAt(b, "switching")
    /\ LET i == Candidate(b)
       IN \/ /\ i = 0
             /\ browsing' = [browsing EXCEPT ![b].at = "opening"]
             /\ UNCHANGED <<front, recent, recorded, disturbed, excused>>
          \/ \E switched \in BOOLEAN :
               /\ i # 0 /\ (switched => tabs[i] # GoneTab)
               /\ IF Reuses(switched)
                    THEN /\ front' = IF switched THEN i ELSE front
                         /\ EndBrowse(b, "reused") /\ Disturbs(b) /\ UNCHANGED excused
                    ELSE /\ browsing' = [browsing EXCEPT ![b].next = i + 1]
                         /\ excused' = excused \cup LandsOn[PageOf[b]]
                         /\ UNCHANGED <<front, recent, recorded, disturbed>>
    /\ UNCHANGED <<tabs, touches>>

\* The page may redirect.  A page that another call opened meanwhile is open
\* twice from now on, and so may be one that was asked for under another name.
Land(b, i, page) ==
    /\ tabs' = [j \in 1..(IF i > Len(tabs) THEN i ELSE Len(tabs)) |-> IF j = i THEN page ELSE tabs[j]]
    /\ front' = i
    /\ excused' = IF page # PageOf[b] \/ b \in disturbed THEN excused \cup {page} ELSE excused

OpenPage(b) ==
    /\ BrowseAt(b, "opening") /\ Opens(b)
    /\ \/ /\ \E page \in LandsOn[PageOf[b]] :
               IF ActionOf[b] = "new_tab" \/ front = 0
                 THEN Len(tabs) < MaxTabs /\ Land(b, Len(tabs) + 1, page)
                 ELSE Land(b, front, page)
          /\ EndBrowse(b, "opened") /\ Disturbs(b)
       \/ EndBrowse(b, "failed") /\ UNCHANGED <<tabs, front, disturbed, excused>>
    /\ UNCHANGED touches

\* External: the tab that is in front after one is closed.
NextFront(i) == LET left == {j \in TabIds \ {i} : tabs[j] # GoneTab}
                IN IF front # i THEN front ELSE IF left = {} THEN 0 ELSE CHOOSE j \in left : \A k \in left : k <= j

CloseTab(b) ==
    /\ BrowseAt(b, "opening") /\ ActionOf[b] = "close_tab"
    /\ \E i \in TabIds :
        IF tabs[i] = GoneTab
          THEN EndBrowse(b, "failed") /\ UNCHANGED <<tabs, front, disturbed>>
          ELSE /\ tabs' = [tabs EXCEPT ![i] = GoneTab] /\ front' = NextFront(i)
               /\ EndBrowse(b, "closed") /\ Disturbs(b)
    /\ UNCHANGED <<touches, excused>>

LookAt(b) ==
    /\ BrowseAt(b, "opening") /\ ActionOf[b] = "look"
    /\ EndBrowse(b, IF front = 0 THEN "failed" ELSE "seen")
    /\ UNCHANGED <<tabs, front, touches, disturbed, excused>>

\* The user opens a page in the tab in front.
UserOpens ==
    /\ touches < MaxTouches /\ front # 0
    /\ \E page \in Pages :
         /\ tabs' = [tabs EXCEPT ![front] = page]
         /\ excused' = excused \cup {page}
    /\ touches' = touches + 1
    /\ disturbed' = disturbed \cup {c \in Browsings : Browses(c)}
    /\ UNCHANGED <<front, browsing, recent, recorded>>

BrowserNext ==
    \/ UserOpens
    \/ \E b \in Browsings : \/ Browse(b) \/ ListTabs(b) \/ SwitchTab(b) \/ OpenPage(b)
                            \/ CloseTab(b) \/ LookAt(b)

BrowserSpec == BrowserInit /\ [][BrowserNext]_browserVars

-----------------------------------------------------------------------------
BrowserTypeOK ==
    /\ \A i \in TabIds : tabs[i] \in Pages \cup {BlankPage, GoneTab}
    /\ front \in TabIds \cup {0} /\ touches \in 0..MaxTouches
    /\ \A b \in Browsings :
         /\ browsing[b].at \in {"idle", "listing", "switching", "opening", "ended"}
         /\ browsing[b].result \in {"none", "opened", "reused", "closed", "seen", "failed"}
    /\ Len(recent) <= HistoryMax /\ \A i \in DOMAIN recent : recent[i] \in Browsings
    /\ disturbed \subseteq Browsings /\ excused \subseteq Pages

\* "if the same URL/site is already open in another tab, this tool switches to
\* that tab instead of opening a duplicate": no page is open twice.  The
\* exceptions: calls that overlap, a redirect, a browser that does not list
\* its tabs or bring one to the front, and what the user opens.
NoDuplicates ==
    \A i, j \in TabIds : i # j /\ tabs[i] = tabs[j] => tabs[i] \in {BlankPage, GoneTab} \cup excused

\* The tab in front is one that is open, and a tab that was closed stays so.
FrontIsOpen == front = 0 \/ tabs[front] # GoneTab

\* The call that ended last, and that nothing disturbed, left what it was asked
\* for in front: the next step of the agent acts on that page.
AskedIsInFront ==
    recorded # <<>> =>
        LET b == recorded[Len(recorded)]
        IN browsing[b].result \in {"opened", "reused"} /\ b \notin disturbed /\ touches = 0 =>
             Satisfies(tabs[front], PageOf[b]) \/ tabs[front] \in LandsOn[PageOf[b]]

\* The history of a call's answer is the last calls that have ended, in order.
HistoryIsRecent ==
    \A i \in DOMAIN recent : recent[i] = recorded[Len(recorded) - Len(recent) + i]

TabsReused == NoDuplicates /\ FrontIsOpen /\ AskedIsInFront /\ HistoryIsRecent
=============================================================================
