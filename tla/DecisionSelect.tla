--------------------------- MODULE DecisionSelect ---------------------------
(***************************************************************************)
(* What the decision model is asked, and what is kept of its answers: the  *)
(* pure functions of decision/select.py and middleware/decision.py.        *)
(*                                                                         *)
(* Items are named by numbers in the order of their catalog; a probability *)
(* is a number of steps on a scale, and only its place against the         *)
(* threshold and the floor matters.  A line of text is its length.         *)
(***************************************************************************)
EXTENDS Integers, Sequences, FiniteSets, SequencesExt

AtMost(a, b)  == IF a < b THEN a ELSE b
AtLeast(a, b) == IF a < b THEN b ELSE a
Sum(s) == FoldLeft(LAMBDA a, b : a + b, 0, s)
UpTo(n) == [i \in 1..n |-> i]

-----------------------------------------------------------------------------
(***************************************************************************)
(* The question budget.                                                    *)
(***************************************************************************)

\* Variant with a fault: the budget is not looked at within a round.
GiveRound(lengths, limit, alloc, i) ==
    IF alloc[i] < lengths[i] /\ Sum(SubSeq(alloc, i, Len(alloc))) < limit
    THEN [alloc EXCEPT ![i] = @ + 1] ELSE alloc

\* One more question for group i, if it has one and the budget allows it.
Give(lengths, limit, alloc, i) ==
    IF alloc[i] < lengths[i] /\ Sum(alloc) < limit
    THEN [alloc EXCEPT ![i] = @ + 1] ELSE alloc

\* An equal share for every group first; what a group does not need goes
\* round the others one question at a time.
Allocate(lengths, limit) ==
    LET n     == Len(lengths)
        first == [i \in 1..n |->
                     AtMost(lengths[i], (limit \div n) + (IF i <= limit % n THEN 1 ELSE 0))]
        round(alloc) == FoldLeft(LAMBDA a, i : Give(lengths, limit, a, i), alloc, UpTo(n))
    IN IF n = 0 THEN <<>> ELSE FoldLeft(LAMBDA a, k : round(a), first, UpTo(limit))

Groups == <<"result", "skill", "tool", "member">>

\* The groups among kinds that have a question, in the order they are asked.
Ordered(want, kinds) == SelectSeq(Groups, LAMBDA k : k \in kinds /\ want[k] > 0)

\* How many of the want[k] questions of each group are asked.
Share(want, kinds, limit) ==
    LET order == Ordered(want, kinds)
        alloc == Allocate([i \in 1..Len(order) |-> want[order[i]]], limit)
    IN [k \in DOMAIN want |->
           IF \E i \in 1..Len(order) : order[i] = k
           THEN alloc[CHOOSE i \in 1..Len(order) : order[i] = k] ELSE 0]

\* Members are left out when the roster cannot be asked in full.
FitQuestions(want, limit) ==
    LET all == Share(want, DOMAIN want, limit)
    IN IF all["member"] < want["member"]
       THEN Share(want, DOMAIN want \ {"member"}, limit) ELSE all

-----------------------------------------------------------------------------
(***************************************************************************)
(* The shortlist and the confidence cutoff.  score[i] is the number of     *)
(* words that item i shares with the request; p[i] the answer about item i *)
(* and 0 for an item without an answer.                                    *)
(***************************************************************************)

\* The ids of S by falling weight; a tie goes to the id first in the order
\* of Before.
Ranked(S, weight, Before(_, _)) ==
    SetToSortSeq(S, LAMBDA i, j : weight[i] > weight[j] \/ (weight[i] = weight[j] /\ Before(i, j)))

\* None is the empty answer.  A list that fits is returned as it is.
LexicalShortlist(score, limit) ==
    LET hits == {i \in DOMAIN score : score[i] > 0}
        best == Ranked(hits, score, LAMBDA i, j : i < j)
    IN IF Len(score) <= limit THEN UpTo(Len(score))
       ELSE SubSeq(best, 1, AtMost(limit, Len(best)))

\* Clear answers first, then near misses while there is room.
KeepConfident(p, ids, threshold, limit, slack) ==
    LET ranked == Ranked(ids, p, LAMBDA i, j : i > j)
        clear  == SelectSeq(ranked, LAMBDA i : p[i] >= threshold)
        near   == IF slack > 0
                  THEN SelectSeq(ranked, LAMBDA i : p[i] < threshold /\ p[i] >= threshold - slack)
                  ELSE <<>>
    IN SubSeq(clear \o near, 1, AtMost(limit, Len(clear) + Len(near)))

-----------------------------------------------------------------------------
(***************************************************************************)
(* The text that goes with the questions.                                  *)
(***************************************************************************)

\* A text longer than limit is cut, and ends in an ellipsis.
Clip(length, limit) == AtMost(length, limit)

\* The older lines that fit behind budget characters, the newest first; each
\* after the first costs a line break, and the first that is cut is the last.
OlderLines(lines, budget) ==
    LET step(acc, line) ==
            LET room == acc.left - (IF acc.taken = <<>> THEN 0 ELSE 1)
            IN IF acc.stop \/ acc.left <= 0 \/ room <= 0 THEN [acc EXCEPT !.stop = TRUE]
               ELSE [taken |-> <<Clip(line, room)>> \o acc.taken,
                     left  |-> room - Clip(line, room),
                     stop  |-> line > room]
    IN FoldLeft(step, [taken |-> <<>>, left |-> budget, stop |-> FALSE], Reverse(lines)).taken

\* The parts of the text: a head, older lines, and the newest line.
FitLines(lines, limit, head, headFloor) ==
    LET h      == Clip(head, AtMost(head, AtLeast(headFloor, limit \div 4)))
        body   == limit - h - (IF h > 0 THEN 1 ELSE 0)
        latest == Clip(lines[Len(lines)], body)
        older  == IF body - latest > 1
                  THEN OlderLines(SubSeq(lines, 1, Len(lines) - 1), body - latest - 1) ELSE <<>>
    IN SelectSeq(<<h>> \o older \o <<latest>>, LAMBDA x : x > 0)

-----------------------------------------------------------------------------
(***************************************************************************)
(* What these functions promise, over every input within bounds.  An input *)
(* is drawn in the initial state; nothing moves.                           *)
(***************************************************************************)
CONSTANTS
    MaxWant,    \* bound: items of a group
    Budget,     \* stands for _QUESTION_LIMIT
    MaxLines, MaxLength, TextLimit, HeadFloor, \* bounds and limits of a text
    MaxItems, MaxLevel, Threshold, Slack, MaxKept

ASSUME InputsAssumption ==
    /\ {MaxWant, Budget, MaxLines, MaxLength, TextLimit, MaxItems, MaxLevel, MaxKept} \subseteq Nat \ {0}
    /\ {HeadFloor, Threshold, Slack} \subseteq Nat
    /\ HeadFloor + 1 < TextLimit

VARIABLE drawn

Wants == [result : 0..1, skill : 0..MaxWant, tool : 0..MaxWant, member : 0..MaxWant]
Texts == UNION {[1..n -> 1..MaxLength] : n \in 1..MaxLines}

InputsInit ==
    drawn \in
        [kind : {"want"}, want : Wants]
        \cup [kind : {"text"}, lines : Texts, head : 0..MaxLength]
        \cup [kind : {"scores"}, p : [1..MaxItems -> 0..MaxLevel], ids : SUBSET (1..MaxItems)]

\* The question budget is never exceeded, and none of it is wasted while a
\* group that takes part has more to ask; the verdict on a result is always
\* asked for, and a team is asked about as a whole or not at all ("a partial
\* pin would block teammates the model never scored").
BudgetSpent ==
    drawn.kind = "want" =>
        LET want  == drawn.want
            asked == FitQuestions(want, Budget)
            total == asked["result"] + asked["skill"] + asked["tool"] + asked["member"]
        IN /\ total <= Budget
           /\ total < Budget => asked["skill"] = want.skill /\ asked["tool"] = want.tool
           /\ want.result = 1 => asked["result"] = 1
           /\ asked["member"] \in {0, want.member}

\* The split is fair: a long catalog does not crowd out a short one.  A group
\* that goes short is at most two questions behind another: the remainder of
\* the equal split and the first leftover may go to the same group.
BudgetFair ==
    drawn.kind = "want" =>
        LET asked == FitQuestions(drawn.want, Budget)
        IN \A k, l \in {"result", "skill", "tool"} :
               asked[k] < drawn.want[k] => asked[l] <= asked[k] + 2

\* The text sent with the questions stays within its limit, line breaks
\* included, and the newest line is always in it.
TextFits ==
    drawn.kind = "text" =>
        LET parts == FitLines(drawn.lines, TextLimit, drawn.head, HeadFloor)
        IN /\ Sum(parts) + Len(parts) - 1 <= TextLimit
           /\ \/ parts[Len(parts)] = drawn.lines[Len(drawn.lines)]
              \/ Len(parts) <= 2

\* What is kept is the best there is: nothing below the floor, no item left
\* out for a worse one, and near misses only when every clear answer is kept.
ConfidentIsBest ==
    drawn.kind = "scores" =>
        LET p    == drawn.p
            kept == KeepConfident(p, drawn.ids, Threshold, MaxKept, Slack)
            out  == drawn.ids \ ToSet(kept)
        IN /\ Len(kept) <= MaxKept /\ IsInjective(kept)
           /\ \A i \in ToSet(kept) : p[i] >= Threshold - Slack
           /\ \A i \in ToSet(kept), j \in out : p[i] >= p[j]
           /\ \A j \in out : p[j] >= Threshold - Slack => Len(kept) = MaxKept

\* What the decision model is asked, what it is told, and what is kept of its
\* answer.
InputsAsPromised == BudgetSpent /\ BudgetFair /\ TextFits /\ ConfidentIsBest
=============================================================================
