---------------------------- MODULE PeerDelivery ----------------------------
(***************************************************************************)
(* What the asynchronous peer inbox promises its host, without queue,      *)
(* worker, tasks or locks: a submitted message gets one outcome, handed    *)
(* over once (ReplyEvent, teams/processor.py, and on_reply); it can be     *)
(* withdrawn until then, and exactly the withdrawn ones are reported as    *)
(* cancelled.                                                              *)
(***************************************************************************)
EXTENDS Sequences

CONSTANT Msgs

VARIABLES accepted,  \* messages submitted so far
          withdrawn, \* messages whose cancellation was accepted
          answers    \* what the host was told of each message

vars == <<accepted, withdrawn, answers>>

Init == /\ accepted = {}
        /\ withdrawn = {}
        /\ answers = [m \in Msgs |-> <<>>]

Submit(m) ==
    /\ m \notin accepted
    /\ accepted' = accepted \cup {m}
    /\ UNCHANGED <<withdrawn, answers>>

Withdraw(m) ==
    /\ m \in accepted \ withdrawn
    /\ answers[m] = <<>>
    /\ withdrawn' = withdrawn \cup {m}
    /\ UNCHANGED <<accepted, answers>>

Answer(m, outcome) ==
    /\ m \in accepted
    /\ answers[m] = <<>>
    /\ outcome = "cancelled" <=> m \in withdrawn
    /\ answers' = [answers EXCEPT ![m] = <<outcome>>]
    /\ UNCHANGED <<accepted, withdrawn>>

Next == \E m \in Msgs : \/ Submit(m)
                        \/ Withdraw(m)
                        \/ \E o \in {"done", "failed", "cancelled"} : Answer(m, o)

Spec == Init /\ [][Next]_vars
=============================================================================
