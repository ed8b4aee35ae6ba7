------------------------------ MODULE MCTurns -------------------------------
(***************************************************************************)
(* What happens around the turns of an agent, each part on its own         *)
(* instance.  The parts share no variable, so they are checked side by     *)
(* side and not interleaved: part says which of them moves in a behaviour, *)
(* the others stay in their initial state.                                 *)
(*                                                                         *)
(*   invocations  two streams and both resumptions on one thread, a third  *)
(*                stream on another one                                    *)
(* and, of the memory subsystem,                                           *)
(*   store     four runtimes, three of them on one location, and a rebuild *)
(*             of each location; the fourth runtime is alone on its        *)
(*             location, so that its factory may fail without disturbing   *)
(*             the others                                                  *)
(*   workers   a capture, a maintenance job with the request for a review  *)
(*             inside its tick, and a request by the host                  *)
(*   capture   two conversations whose hooks share the thread of one event *)
(*             loop; a behaviour ends when both have been mixed up         *)
(*   triggers  one session with two turns, under either trigger            *)
(***************************************************************************)
EXTENDS Invocations, MemoryStore, MemoryWorkers, TurnCapture, MemoryTriggers

CONSTANTS u1, u2, u3, u4, l1, l2,
          j1, j2, k1, k2, p1, p2,
          s1, s2, s3, r1, r2, h1, h2, c1, c2, w1, e1,
          Parts    \* the parts a run looks at

MCThreadOf == [i \in Invs |-> IF i = s3 THEN h2 ELSE h1]
MCKeyOf    == [a \in Actors |-> IF a \in {u4, r2} THEN l2 ELSE l1]
MCHostOf   == [k \in Kicks |-> IF k = k1 THEN j1 ELSE Nobody]
MCWorkerOf == [c \in Chats |-> w1]

VARIABLE part

mcVars == <<invVars, storeVars, vars, captureVars, triggersVars, part>>

MCInit ==
    /\ part \in Parts
    /\ InvInit /\ StoreInit /\ Init /\ CaptureInit /\ TriggersInit
    /\ part # "triggers" => mode = "idle"

MCNext ==
    /\ UNCHANGED part
    /\ IF part = "invocations" THEN InvNext ELSE UNCHANGED invVars
    /\ IF part = "store" THEN StoreNext ELSE UNCHANGED storeVars
    /\ IF part = "workers" THEN Next ELSE UNCHANGED vars
    /\ IF part = "capture" THEN mixed # Chats /\ CaptureNext ELSE UNCHANGED captureVars
    /\ IF part = "triggers" THEN TriggersNext ELSE UNCHANGED triggersVars

\* Every variable has its type.
MCTypeOK == InvTypeOK /\ StoreTypeOK /\ TypeOK /\ CaptureTypeOK /\ TriggersTypeOK

\* Fairness asks for nothing in the initial state, where a part stays when
\* another one moves.
MCSpec == MCInit /\ [][MCNext]_mcVars /\ InvFairness /\ Fairness
=============================================================================
