----------------------------- MODULE FeedWatch ------------------------------
(***************************************************************************)
(* The packaged skill that watches a feed                                  *)
(* (builtin/skills/en/watchers/scripts: _watermark.py and the watchers).   *)
(*                                                                         *)
(* A scheduler starts the script again and again.  A tick fetches the      *)
(* newest items of the feed, reads which ones were seen, writes the new    *)
(* watermark to a file beside the old one, moves it into place and only    *)
(* then prints the items that are new, at most EmitMax of them; what is    *)
(* printed is delivered to the user.  A tick may be killed at any time, or *)
(* still be running when the next one starts.                              *)
(***************************************************************************)
EXTENDS Naturals, FiniteSets

CONSTANTS
    Ticks,    \* runs of the script
    Items,    \* length of the feed at last; items are numbered in their order
    PageSize, \* items of one fetch
    MaxSeen,  \* max_seen
    EmitMax   \* --max

ASSUME FeedWatchAssumption ==
    /\ IsFiniteSet(Ticks) /\ {Items, PageSize, MaxSeen, EmitMax} \subseteq Nat \ {0}

VARIABLES
    feed,      \* number of items published
    watermark, \* the state file: "none", "torn", or the items seen
    scratch,   \* the .tmp file, of the same kinds
    tick,      \* of a tick: where it is, the batch it fetched, the items it will save and print
    printed,   \* history: how often an item was delivered
    baseline,  \* history: items a first run recorded
    outgrown,  \* history: items dropped from a watermark that had become too long
    cut,       \* history: items beyond EmitMax of their tick
    killed,    \* history: new items of a tick that was killed after its watermark was in place
    overlap    \* history: has a tick started while another was running?

watchVars == <<feed, watermark, scratch, tick, printed, baseline, outgrown, cut, killed, overlap>>

Seen(ids) == [kind |-> "whole", ids |-> ids]
NoFile    == [kind |-> "none", ids |-> {}]
TornFile  == [kind |-> "torn", ids |-> {}]
NoTick    == [at |-> "idle", batch |-> {}, save |-> {}, new |-> {}, file |-> "none"]
Over      == [NoTick EXCEPT !.at = "over"]
TickAt(t, place) == tick[t].at = place
TickRuns(t) == tick[t].at \notin {"idle", "over"}

WatchInit ==
    /\ feed = 1 /\ watermark = NoFile /\ scratch = NoFile
    /\ tick = [t \in Ticks |-> NoTick]
    /\ printed = [i \in 1..Items |-> 0]
    /\ baseline = {} /\ outgrown = {} /\ cut = {} /\ killed = {} /\ overlap = FALSE

Publish ==
    /\ feed < Items /\ feed' = feed + 1
    /\ UNCHANGED <<watermark, scratch, tick, printed, baseline, outgrown, cut, killed, overlap>>

\* The newest items; a request that fails ends the tick.
FetchFeed(t) ==
    /\ TickAt(t, "idle")
    /\ \/ tick' = [tick EXCEPT ![t].at = "fetched", ![t].batch = {i \in 1..feed : i > feed - PageSize}]
       \/ tick' = [tick EXCEPT ![t] = Over]
    /\ overlap' = (overlap \/ \E u \in Ticks : TickRuns(u))
    /\ UNCHANGED <<feed, watermark, scratch, printed, baseline, outgrown, cut, killed>>

\* What is left of a watermark that is too long: the last entries.  The
\* items seen before stand first, in the order of a Python set, that is in any
\* order; then those of the batch, which has the newest item first.
Trim(existing, new) ==
    IF Cardinality(new) >= MaxSeen
      THEN {{i \in new : Cardinality({j \in new : j <= i}) <= MaxSeen}}
      ELSE {kept \in SUBSET (existing \cup new) : Cardinality(kept) = MaxSeen /\ new \subseteq kept}

\* Variant with a fault: what was seen is not looked up.
WholeBatch(t) == tick[t].batch

Unseen(t) == tick[t].batch \ watermark.ids

\* load() and filter_new(): a file that cannot be read counts as a first run.
FilterNew(t) ==
    /\ TickAt(t, "fetched")
    /\ LET first == watermark.kind # "whole"
           new   == Unseen(t)
       IN \E save \in IF Cardinality(watermark.ids \cup new) > MaxSeen
                        THEN Trim(watermark.ids, new) ELSE {watermark.ids \cup new} :
            /\ tick' = [tick EXCEPT ![t].at = "filtered", ![t].save = save, ![t].new = IF first THEN {} ELSE new]
            /\ baseline' = IF first THEN baseline \cup new ELSE baseline
            /\ outgrown' = outgrown \cup ((watermark.ids \cup new) \ save)
    /\ UNCHANGED <<feed, watermark, scratch, printed, cut, killed, overlap>>

\* save(): the file beside is opened and thereby emptied, then written, then
\* moved into place.
OpenScratch(t) ==
    /\ TickAt(t, "filtered")
    /\ scratch' = TornFile
    /\ tick' = [tick EXCEPT ![t].at = "writing", ![t].file = "scratch"]
    /\ UNCHANGED <<feed, watermark, printed, baseline, outgrown, cut, killed, overlap>>

\* What the file holds afterwards: on what another tick wrote, a mixture too.
WrittenOver(file, t) ==
    {Seen(tick[t].save)} \cup IF file.kind = "whole" THEN {TornFile} ELSE {}

\* The open file may have been moved into place, or replaced, by another tick.
WriteScratch(t) ==
    /\ TickAt(t, "writing")
    /\ \/ tick[t].file = "scratch" /\ scratch' \in WrittenOver(scratch, t) /\ UNCHANGED watermark
       \/ tick[t].file = "watermark" /\ watermark' \in WrittenOver(watermark, t) /\ UNCHANGED scratch
       \/ tick[t].file = "lost" /\ UNCHANGED <<watermark, scratch>>
    /\ tick' = [tick EXCEPT ![t].at = "written"]
    /\ UNCHANGED <<feed, printed, baseline, outgrown, cut, killed, overlap>>

MovedOn(file) == CASE file = "scratch" -> "watermark" [] file = "watermark" -> "lost" [] OTHER -> file

\* Nothing is there to be moved when another tick has moved it: the tick fails.
MoveScratch(t) ==
    /\ TickAt(t, "written")
    /\ IF scratch.kind = "none"
         THEN tick' = [tick EXCEPT ![t] = Over] /\ UNCHANGED <<watermark, scratch>>
         ELSE /\ watermark' = scratch /\ scratch' = NoFile
              /\ tick' = [u \in Ticks |-> IF u = t THEN [tick[u] EXCEPT !.at = "saved", !.file = "none"]
                                         ELSE [tick[u] EXCEPT !.file = MovedOn(@)]]
    /\ UNCHANGED <<feed, printed, baseline, outgrown, cut, killed, overlap>>

\* The first EmitMax items of the batch, which has the newest ones first.
Emitted(t) == {i \in tick[t].new : Cardinality({j \in tick[t].new : j >= i}) <= EmitMax}

Deliver(t) ==
    /\ TickAt(t, "saved")
    /\ printed' = [i \in 1..Items |-> printed[i] + IF i \in Emitted(t) THEN 1 ELSE 0]
    /\ cut' = cut \cup (tick[t].new \ Emitted(t))
    /\ tick' = [tick EXCEPT ![t] = Over]
    /\ UNCHANGED <<feed, watermark, scratch, baseline, outgrown, killed, overlap>>

Kill(t) ==
    /\ TickRuns(t)
    /\ killed' = IF TickAt(t, "saved") THEN killed \cup tick[t].new ELSE killed
    /\ tick' = [tick EXCEPT ![t] = Over]
    /\ UNCHANGED <<feed, watermark, scratch, printed, baseline, outgrown, cut, overlap>>

WatchNext ==
    \/ Publish
    \/ \E t \in Ticks : \/ FetchFeed(t) \/ FilterNew(t) \/ OpenScratch(t) \/ WriteScratch(t)
                        \/ MoveScratch(t) \/ Deliver(t) \/ Kill(t)

WatchSpec == WatchInit /\ [][WatchNext]_watchVars

-----------------------------------------------------------------------------
Files      == [kind : {"none", "torn", "whole"}, ids : SUBSET (1..Items)]
TickStates == [at : {"idle", "fetched", "filtered", "writing", "written", "saved", "over"},
               batch : SUBSET (1..Items), save : SUBSET (1..Items), new : SUBSET (1..Items),
               file : {"none", "scratch", "watermark", "lost"}]

WatchTypeOK ==
    /\ feed \in 1..Items /\ watermark \in Files /\ scratch \in Files
    /\ tick \in [Ticks -> TickStates]
    /\ printed \in [1..Items -> Nat] /\ overlap \in BOOLEAN
    /\ baseline \cup outgrown \cup cut \cup killed \subseteq 1..Items

\* No item is delivered twice.  The exceptions: an item that the bound of the
\* watermark dropped, even one that the feed still shows; ticks that overlap.
DeliveredOnce == \A i \in 1..Items : printed[i] <= 1 \/ i \in outgrown \/ overlap

\* An item that the watermark holds, so that no tick will deliver it again,
\* was delivered or is about to be, or belongs to the first run; except what
\* was beyond EmitMax, and what a tick had not printed when it was killed.
SeenIsDelivered ==
    overlap \/ \A i \in watermark.ids :
        \/ printed[i] > 0 \/ i \in baseline \cup cut \cup killed
        \/ \E t \in Ticks : TickAt(t, "saved") /\ i \in tick[t].new

\* Whenever a tick is killed, the file is whole; except when two ticks write
\* the same file beside it.
FileIsWhole == watermark.kind = "torn" => overlap

\* What is seen of a feed is told of once, and the watermark survives a kill.
WatchKeeps == DeliveredOnce /\ SeenIsDelivered /\ FileIsWhole
=============================================================================
