----------------------- MODULE ManagerSettingsProofs ------------------------
(***************************************************************************)
(* Proofs about ManagerSettings, for any agents, ids, setters, turns and   *)
(* number of tracers.                                                      *)
(***************************************************************************)
EXTENDS ManagerSettings, FiniteSetTheorems, TLAPS

Lifes  == {"none", "compiled", "wired", "open", "closing", "closed", "dropped"}
Stages == {"idle", "rebuilding", "closing", "clearing", "done"}

LEMMA BuiltFacts ==
    /\ \A g \in News : g \in Built /\ NameOf[g] \in Names /\ BuiltName(g) = NameOf[g]
    /\ \A s \in Setters, n \in Names :
          /\ <<s, n>> \in Built /\ <<s, n>> \notin News
          /\ BuiltName(<<s, n>>) = n
    /\ \A g \in Built : BuiltName(g) \in Names /\ g # Absent
    /\ \A s \in Setters : s \in Staged /\ s # "shutdown" /\ s # Absent
    /\ "shutdown" \in Staged
    /\ \A c \in Chats : NameOf[c] \in Names
<1>1. /\ NameOf \in [News \cup Chats -> Names]
      /\ News \cap (Setters \X Names) = {}
      /\ Absent \notin Built \cup Setters /\ "shutdown" \notin Setters
  BY SettingsAssumption
<1>2. \A s \in Setters, n \in Names : <<s, n>> \in Built /\ <<s, n>> \notin News
  BY <1>1 DEF Built
<1>3. \A g \in Built : BuiltName(g) \in Names
  BY <1>1 DEF Built, BuiltName
<1> QED
  BY <1>1, <1>2, <1>3 DEF Built, BuiltName, Staged

-----------------------------------------------------------------------------
(***************************************************************************)
(* Types, and the policy counts the setters that began.                    *)
(***************************************************************************)

LEMMA BegunFacts ==
    ASSUME ManagerTypeOK
    PROVE  /\ Cardinality(Begun) \in Nat /\ Cardinality(Setters) \in Nat
           /\ Cardinality(Begun) <= Cardinality(Setters)
           /\ \A s \in Setters : stage[s] = "idle" =>
                 /\ Cardinality(Begun \cup {s}) = Cardinality(Begun) + 1
                 /\ Cardinality(Begun) + 1 <= Cardinality(Setters)
<1>1. IsFiniteSet(Setters)
  BY SettingsAssumption
<1>2. Begun \subseteq Setters /\ IsFiniteSet(Begun)
  BY <1>1, FS_Subset DEF Begun
<1>3. Cardinality(Begun) \in Nat /\ Cardinality(Setters) \in Nat
  BY <1>1, <1>2, FS_CardinalityType
<1>4. ASSUME NEW s \in Setters, stage[s] = "idle"
      PROVE  /\ Cardinality(Begun \cup {s}) = Cardinality(Begun) + 1
             /\ Cardinality(Begun) + 1 <= Cardinality(Setters)
  <2>1. s \notin Begun
    BY <1>4 DEF Begun
  <2>2. Cardinality(Begun \cup {s}) = Cardinality(Begun) + 1
    BY <1>2, <2>1, FS_AddElement
  <2>3. Begun \cup {s} \in SUBSET Setters
    BY <1>2
  <2>4. Cardinality(Begun \cup {s}) <= Cardinality(Setters)
    BY <1>1, <2>3, FS_Subset
  <2> QED
    BY <2>2, <2>4
<1>5. Cardinality(Begun) <= Cardinality(Setters)
  BY <1>1, <1>2, FS_Subset
<1> QED
  BY <1>3, <1>4, <1>5

LEMMA PolicyInductive ==
    ASSUME ManagerTypeOK, PolicyCounts, [ManagerNext]_managerVars
    PROVE  PolicyCounts'
<1>1. ASSUME NEW s \in Setters, SetPolicy(s) PROVE PolicyCounts'
  <2>1. Begun' = Begun \cup {s}
    BY <1>1, BuiltFacts DEF SetPolicy, Reaches, Begun, ManagerTypeOK
  <2>2. policy' = policy + 1 /\ stage[s] = "idle"
    BY <1>1 DEF SetPolicy
  <2> QED
    BY <2>1, <2>2, BegunFacts DEF PolicyCounts
<1>2. ASSUME policy' = policy, \A s \in Setters : stage'[s] = "idle" <=> stage[s] = "idle"
      PROVE  PolicyCounts'
  BY <1>2 DEF PolicyCounts, Begun
<1>3. ASSUME UNCHANGED <<policy, stage>> PROVE PolicyCounts'
  BY <1>2, <1>3
<1>4. ASSUME NEW g \in News, Compile(g) \/ Wire(g) \/ Register(g) PROVE PolicyCounts'
  BY <1>3, <1>4 DEF Compile, Wire, Register, settingVars, stageVars
<1>5. ASSUME NEW s \in Setters, NEW n \in Names, TakeDown(s, n) PROVE PolicyCounts'
  BY <1>3, <1>5 DEF TakeDown, settingVars
<1>6. ASSUME NEW s \in Setters, (\E n \in Names : PutBack(s, n)) \/ AllRebuilt(s)
      PROVE  PolicyCounts'
  BY <1>2, <1>6, BuiltFacts DEF PutBack, AllRebuilt, Reaches, settingVars, ManagerTypeOK
<1>7. CASE SetTracer \/ (\E c \in Chats : BeginChat(c) \/ EndChat(c)) \/ UNCHANGED managerVars
  BY <1>3, <1>7 DEF SetTracer, BeginChat, EndChat, settingVars, stageVars, managerVars
<1>8. CASE ShutdownStep
  <2>1. policy' = policy /\ \A s \in Setters : stage'[s] = stage[s]
    BY <1>8, BuiltFacts DEF ShutdownStep, BeginShutdown, ClearRegistry, CloseFactory, ShutAgent,
                            Reaches, settingVars, ManagerTypeOK
  <2> QED
    BY <1>2, <2>1
<1> QED
  BY <1>1, <1>4, <1>5, <1>6, <1>7, <1>8 DEF ManagerNext, SetterStep

LEMMA TypeInductive ==
    ASSUME ManagerTypeOK, PolicyCounts, [ManagerNext]_managerVars
    PROVE  ManagerTypeOK'
<1>0. ASSUME NEW s \in Setters, stage[s] = "idle" PROVE policy + 1 \in 0..Cardinality(Setters)
  <2>1. Cardinality(Begun) \in Nat /\ Cardinality(Setters) \in Nat
    BY BegunFacts
  <2>2. Cardinality(Begun) + 1 <= Cardinality(Setters)
    BY <1>0, BegunFacts
  <2> QED
    BY <2>1, <2>2 DEF PolicyCounts
<1> USE DEF ManagerTypeOK, Lives, Reaches
<1>1. ASSUME NEW g \in News, Compile(g) \/ Wire(g) \/ Register(g) PROVE ManagerTypeOK'
  BY <1>1, BuiltFacts DEF Compile, Wire, Register, settingVars, stageVars, chatVars
<1>2. ASSUME NEW s \in Setters, SetPolicy(s) PROVE ManagerTypeOK'
  <2>1. policy' \in 0..Cardinality(Setters)
    BY <1>0, <1>2 DEF SetPolicy
  <2>2. overtaken' \in SUBSET Built
    BY <1>2, BuiltFacts DEF SetPolicy, InMaking
  <2>3. left' \in [Setters -> SUBSET Names]
    BY <1>2 DEF SetPolicy
  <2>4. stage' \in [Staged -> Stages]
    BY <1>2 DEF SetPolicy, Stages
  <2> QED
    BY <1>2, <2>1, <2>2, <2>3, <2>4 DEF SetPolicy, Stages, agentsVars, chatVars
<1>3. ASSUME NEW s \in Setters, NEW n \in Names, TakeDown(s, n) PROVE ManagerTypeOK'
  <2>1. <<s, n>> \in Built /\ \A g : Closing(g) \in {"closing", "closed"}
    BY BuiltFacts DEF Closing
  <2>2. left' \in [Setters -> SUBSET Names]
    BY <1>3 DEF TakeDown
  <2>3. /\ entries' \in [Names -> Built \cup {Absent}]
        /\ obeys' \in [Built -> 0..Cardinality(Setters)]
    <3>1. CASE UNCHANGED <<entries, obeys>>
      BY <3>1
    <3>2. CASE /\ entries' = [entries EXCEPT ![n] = Absent]
               /\ obeys' = [obeys EXCEPT ![<<s, n>>] = policy]
      BY <3>2
    <3> QED
      BY <1>3, <3>1, <3>2 DEF TakeDown
  <2>4. life' \in [Built -> Lifes]
    <3>1. CASE UNCHANGED life
      BY <3>1 DEF Lifes
    <3>2. CASE life' = [life EXCEPT ![entries[n]] = Closing(entries[n]), ![<<s, n>>] = "compiled"]
      BY <2>1, <3>2 DEF Lifes
    <3> QED
      BY <1>3, <3>1, <3>2 DEF TakeDown
  <2> QED
    BY <1>3, <2>2, <2>3, <2>4 DEF TakeDown, Lifes, settingVars, chatVars
<1>4. ASSUME NEW s \in Setters, NEW n \in Names, PutBack(s, n) PROVE ManagerTypeOK'
  <2>1. <<s, n>> \in Built
    BY BuiltFacts
  <2>2. left' \in [Setters -> SUBSET Names] /\ spoiled' \in SUBSET Names
    BY <1>4 DEF PutBack
  <2>3. stage' \in [Staged -> Stages] /\ held' \in Setters \cup {Absent}
    BY <1>4 DEF PutBack, Stages
  <2>4. entries' \in [Names -> Built \cup {Absent}] /\ life' \in [Built -> Lifes]
    BY <1>4, <2>1 DEF PutBack, Lifes
  <2>5. traced' \in [Built -> 0..MaxTracers]
    BY <1>4 DEF PutBack
  <2> QED
    BY <1>4, <2>2, <2>3, <2>4, <2>5 DEF PutBack, Lifes, Stages, settingVars, chatVars
<1>5. ASSUME NEW s \in Setters, AllRebuilt(s) PROVE ManagerTypeOK'
  BY <1>5 DEF AllRebuilt, settingVars, agentsVars, chatVars
<1>6. CASE SetTracer
  <2>1. tracer' \in 0..MaxTracers /\ overtaken' \in SUBSET Built
    BY <1>6, BuiltFacts, SettingsAssumption DEF SetTracer, Wired
  <2>2. traced' \in [Built -> 0..MaxTracers]
    BY <1>6, SettingsAssumption DEF SetTracer
  <2> QED
    BY <1>6, <2>1, <2>2 DEF SetTracer, stageVars, chatVars
<1>7. CASE ShutdownStep
  <2>1. CASE BeginShutdown
    BY <2>1, BuiltFacts DEF BeginShutdown, settingVars, agentsVars, chatVars
  <2>2. ASSUME NEW g \in Built, ShutAgent(g) PROVE ManagerTypeOK'
    BY <2>2 DEF ShutAgent, Closing, settingVars, chatVars
  <2>3. CASE ClearRegistry
    BY <2>3, BuiltFacts DEF ClearRegistry, settingVars, chatVars
  <2>4. CASE CloseFactory
    BY <2>4, BuiltFacts DEF CloseFactory, settingVars, agentsVars, chatVars
  <2> QED
    BY <1>7, <2>1, <2>2, <2>3, <2>4 DEF ShutdownStep
<1>8. ASSUME NEW c \in Chats, BeginChat(c) \/ EndChat(c) PROVE ManagerTypeOK'
  <2>1. CASE BeginChat(c)
    BY <2>1, BuiltFacts DEF BeginChat, settingVars, agentsVars, stageVars
  <2>2. CASE EndChat(c)
    BY <2>2 DEF EndChat, settingVars, stageVars
  <2> QED
    BY <1>8, <2>1, <2>2
<1>9. CASE UNCHANGED managerVars
  BY <1>9 DEF managerVars, settingVars, agentsVars, stageVars, chatVars
<1> QED
  BY <1>1, <1>2, <1>3, <1>4, <1>5, <1>6, <1>7, <1>8, <1>9 DEF ManagerNext, SetterStep

-----------------------------------------------------------------------------
(***************************************************************************)
(* What a step does to the registry and to the agents.                     *)
(***************************************************************************)

\* _rebuild_agent takes the agent of an id down, or passes over one that is gone.
LEMMA TakeDownEffect ==
    ASSUME ManagerTypeOK, Placed, NEW s \in Setters, NEW n \in Names, TakeDown(s, n)
    PROVE  /\ life[<<s, n>>] = "none" /\ n \in left[s] /\ stage[s] = "rebuilding"
           /\ \A m \in Names : m \in left[s] => life[<<s, m>>] # "compiled"
           /\ UNCHANGED <<settingVars, traced, stage, leaving, promised, held, spoiled, chatVars>>
           /\ \/ /\ left' = [left EXCEPT ![s] = @ \ {n}] /\ entries[n] = Absent
                 /\ UNCHANGED <<entries, life, obeys>>
              \/ /\ UNCHANGED left
                 /\ entries[n] \in Built \ {<<s, n>>}
                 /\ entries'[n] = Absent
                 /\ \A m \in Names \ {n} : entries'[m] = entries[m]
                 /\ life'[entries[n]] = Closing(entries[n])
                 /\ life'[<<s, n>>] = "compiled" /\ obeys'[<<s, n>>] = policy
                 /\ \A h \in Built \ {<<s, n>>} : obeys'[h] = obeys[h]
                 /\ \A h \in Built \ {<<s, n>>, entries[n]} : life'[h] = life[h]
<1>1. /\ life[<<s, n>>] = "none" /\ n \in left[s] /\ stage[s] = "rebuilding"
      /\ \A m \in Names : m \in left[s] => life[<<s, m>>] # "compiled"
      /\ UNCHANGED <<settingVars, traced, stage, leaving, promised, held, spoiled, chatVars>>
  BY DEF TakeDown
<1>2. CASE /\ left' = [left EXCEPT ![s] = @ \ {n}] /\ entries[n] = Absent
           /\ UNCHANGED <<entries, life, obeys>>
  BY <1>1, <1>2
<1>3. CASE /\ entries[n] # Absent
           /\ entries' = [entries EXCEPT ![n] = Absent]
           /\ life' = [life EXCEPT ![entries[n]] = Closing(entries[n]), ![<<s, n>>] = "compiled"]
           /\ obeys' = [obeys EXCEPT ![<<s, n>>] = policy]
           /\ UNCHANGED left
  <2>1. <<s, n>> \in Built
    BY BuiltFacts
  <2>2. entries[n] \in Built /\ life[entries[n]] # "none"
    BY <1>3 DEF ManagerTypeOK, Placed
  <2>3. entries[n] # <<s, n>>
    BY <1>1, <2>2
  <2>4. life \in [Built -> Lifes] /\ obeys \in [Built -> 0..Cardinality(Setters)]
        /\ entries \in [Names -> Built \cup {Absent}]
    BY DEF ManagerTypeOK, Lifes
  <2> QED
    BY <1>1, <1>3, <2>1, <2>2, <2>3, <2>4
<1> QED
  BY <1>2, <1>3 DEF TakeDown

\* The new agent is filed, or the call ends.
LEMMA PutBackEffect ==
    ASSUME ManagerTypeOK, NEW s \in Setters, NEW n \in Names, PutBack(s, n)
    PROVE  /\ life[<<s, n>>] = "compiled" /\ n \in left[s] /\ stage[s] = "rebuilding"
           /\ traced'[<<s, n>>] = tracer
           /\ \A h \in Built \ {<<s, n>>} : traced'[h] = traced[h] /\ life'[h] = life[h]
           /\ UNCHANGED <<policy, tracer, overtaken, obeys, leaving, promised, chatVars>>
           /\ \A t \in Staged \ {s} : stage'[t] = stage[t]
           /\ \A t \in Setters \ {s} : left'[t] = left[t]
           /\ \/ /\ entries[n] = Absent /\ entries'[n] = <<s, n>>
                 /\ \A m \in Names \ {n} : entries'[m] = entries[m]
                 /\ life'[<<s, n>>] = "open" /\ left'[s] = left[s] \ {n}
                 /\ UNCHANGED <<stage, held, spoiled>>
              \/ /\ life'[<<s, n>>] = "dropped" /\ UNCHANGED entries
                 /\ spoiled' = spoiled \cup left[s] /\ left'[s] = {}
                 /\ stage'[s] = "done" /\ held' = Absent
<1>1. <<s, n>> \in Built /\ s \in Staged
  BY BuiltFacts
<1>2. /\ life \in [Built -> Lifes] /\ traced \in [Built -> 0..MaxTracers]
      /\ entries \in [Names -> Built \cup {Absent}] /\ left \in [Setters -> SUBSET Names]
      /\ stage \in [Staged -> Stages]
  BY DEF ManagerTypeOK, Lifes, Stages
<1>3. /\ life[<<s, n>>] = "compiled" /\ n \in left[s] /\ stage[s] = "rebuilding"
      /\ traced' = [traced EXCEPT ![<<s, n>>] = tracer]
      /\ UNCHANGED <<policy, tracer, overtaken, obeys, leaving, promised, chatVars>>
  BY DEF PutBack, settingVars
<1>4. CASE /\ entries[n] = Absent
           /\ entries' = [entries EXCEPT ![n] = <<s, n>>]
           /\ life' = [life EXCEPT ![<<s, n>>] = "open"]
           /\ left' = [left EXCEPT ![s] = @ \ {n}]
           /\ UNCHANGED <<stage, held, spoiled>>
  BY <1>1, <1>2, <1>3, <1>4
<1>5. CASE /\ life' = [life EXCEPT ![<<s, n>>] = "dropped"]
           /\ spoiled' = spoiled \cup left[s]
           /\ left' = [left EXCEPT ![s] = {}]
           /\ held' = Absent
           /\ stage' = [stage EXCEPT ![s] = "done"]
           /\ UNCHANGED entries
  BY <1>1, <1>2, <1>3, <1>5
<1> QED
  BY <1>4, <1>5 DEF PutBack, Lives, Reaches

\* Wiring and compiling touch one agent under construction.
LEMMA MakeEffect ==
    ASSUME ManagerTypeOK, NEW g \in News, Compile(g) \/ Wire(g) \/ Register(g)
    PROVE  /\ UNCHANGED <<settingVars, stageVars, factory, chatVars>>
           /\ \A h \in Built \ {g} :
                 life'[h] = life[h] /\ obeys'[h] = obeys[h] /\ traced'[h] = traced[h]
           /\ \/ /\ life[g] = "none" /\ life'[g] = "compiled" /\ obeys'[g] = policy
                 /\ UNCHANGED entries
              \/ /\ life[g] = "compiled" /\ life'[g] = "wired" /\ traced'[g] = tracer
                 /\ UNCHANGED <<entries, obeys>>
              \/ /\ life[g] = "wired" /\ life'[g] = "open" /\ entries[NameOf[g]] = Absent
                 /\ entries'[NameOf[g]] = g /\ UNCHANGED <<obeys, traced>>
                 /\ \A n \in Names \ {NameOf[g]} : entries'[n] = entries[n]
              \/ /\ life[g] = "wired" /\ life'[g] = "dropped"
                 /\ UNCHANGED <<entries, obeys, traced>>
<1>1. g \in Built /\ NameOf[g] \in Names
  BY BuiltFacts
<1>2. /\ life \in [Built -> Lifes] /\ traced \in [Built -> 0..MaxTracers]
      /\ obeys \in [Built -> 0..Cardinality(Setters)] /\ entries \in [Names -> Built \cup {Absent}]
  BY DEF ManagerTypeOK, Lifes
<1>3. CASE Compile(g)
  BY <1>1, <1>2, <1>3 DEF Compile, Lives
<1>4. CASE Wire(g)
  BY <1>1, <1>2, <1>4 DEF Wire, Lives
<1>5. CASE Register(g)
  BY <1>1, <1>2, <1>5 DEF Register, Lives
<1> QED
  BY <1>3, <1>4, <1>5

\* An agent of the registry is closed, now or by its last turn.
LEMMA ShutAgentEffect ==
    ASSUME ManagerTypeOK, NEW g \in Built, ShutAgent(g)
    PROVE  /\ leaving' = leaving \ {g} /\ g \in leaving
           /\ life'[g] = IF life[g] = "open" THEN Closing(g) ELSE life[g]
           /\ \A h \in Built \ {g} : life'[h] = life[h]
           /\ UNCHANGED <<settingVars, entries, obeys, traced, stage, left, promised, held, spoiled,
                          factory, chatVars>>
BY DEF ShutAgent, Lives, ManagerTypeOK

\* A turn ends, and closes its agent if it is the last one of it.
LEMMA EndChatEffect ==
    ASSUME ManagerTypeOK, NEW c \in Chats, EndChat(c)
    PROVE  /\ UNCHANGED <<settingVars, entries, obeys, traced, stageVars, factory, chatOn>>
           /\ chat[c] = "running" /\ chat'[c] = "done"
           /\ \A d \in Chats \ {c} : chat'[d] = chat[d]
           /\ \A h \in Built : life'[h] =
                 IF /\ h = chatOn[c] /\ life[h] = "closing"
                    /\ \A d \in Chats \ {c} : ~(chat[d] = "running" /\ chatOn[d] = h)
                 THEN "closed" ELSE life[h]
BY DEF EndChat, Lives, ManagerTypeOK

-----------------------------------------------------------------------------
(***************************************************************************)
(* The parts of the invariant.                                             *)
(***************************************************************************)

Filed(g) == life[g] \in {"open", "closing", "closed"}

\* Closing and closed agents stay where they are in the registry.
LEMMA PlacedClosing ==
    ASSUME ManagerTypeOK, Placed, UNCHANGED entries,
           \A g \in Built : \/ life'[g] = life[g]
                            \/ Filed(g) /\ life'[g] \in {"closing", "closed"}
    PROVE  Placed'
BY BuiltFacts DEF Placed, Filed, ManagerTypeOK

LEMMA PlacedInductive ==
    ASSUME ManagerTypeOK, Placed, ShutInOrder, SetterHolds, [ManagerNext]_managerVars
    PROVE  Placed'
<1>1. ASSUME NEW g \in News, Compile(g) \/ Wire(g) \/ Register(g) PROVE Placed'
  BY <1>1, MakeEffect, BuiltFacts DEF Placed, ManagerTypeOK
<1>2. ASSUME NEW s \in Setters, NEW n \in Names, TakeDown(s, n) PROVE Placed'
  <2>1. Closing(entries[n]) \in {"closing", "closed"}
    BY DEF Closing
  <2>2. CASE UNCHANGED <<entries, life>>
    BY <2>2 DEF Placed
  <2>3. CASE entries'[n] = Absent /\ entries[n] \in Built \ {<<s, n>>}
    <3> DEFINE g == entries[n]
               h == <<s, n>>
    <3>1. /\ \A m \in Names \ {n} : entries'[m] = entries[m]
          /\ life'[g] = Closing(g) /\ life'[h] = "compiled" /\ life[h] = "none"
          /\ \A x \in Built \ {h, g} : life'[x] = life[x]
      BY <1>2, <2>3, TakeDownEffect, BuiltFacts
    <3>2. /\ g \in Built /\ g # h /\ BuiltName(g) = n /\ h \in Built
      BY <2>3, BuiltFacts DEF Placed
    <3>3. \A m \in Names : entries[m] \in Built \cup {Absent}
      BY DEF ManagerTypeOK
    <3>4. \A m \in Names : entries[m] # h /\ (entries[m] = g => m = n)
      BY <3>1, <3>2, BuiltFacts DEF Placed
    <3>5. \A m \in Names : entries'[m] # Absent =>
             BuiltName(entries'[m]) = m /\ life'[entries'[m]] \in {"open", "closing", "closed"}
      <4> SUFFICES ASSUME NEW m \in Names, entries'[m] # Absent
                   PROVE  BuiltName(entries'[m]) = m
                          /\ life'[entries'[m]] \in {"open", "closing", "closed"}
        OBVIOUS
      <4>1. m # n /\ entries'[m] = entries[m] /\ entries[m] \in Built \ {h, g}
        BY <2>3, <3>1, <3>3, <3>4
      <4> QED
        BY <3>1, <4>1 DEF Placed
    <3>6. \A x \in Built : life'[x] = "open" => entries'[BuiltName(x)] = x
      <4> SUFFICES ASSUME NEW x \in Built, life'[x] = "open" PROVE entries'[BuiltName(x)] = x
        OBVIOUS
      <4>1. x \notin {h, g}
        BY <2>1, <3>1
      <4>2. entries[BuiltName(x)] = x
        BY <3>1, <4>1 DEF Placed
      <4>3. BuiltName(x) # n /\ BuiltName(x) \in Names
        BY <4>1, <4>2, BuiltFacts
      <4> QED
        BY <3>1, <4>2, <4>3
    <3> QED
      BY <3>5, <3>6 DEF Placed
  <2> QED
    BY <1>2, <2>2, <2>3, TakeDownEffect
<1>3. ASSUME NEW s \in Setters, NEW n \in Names, PutBack(s, n) PROVE Placed'
  <2> DEFINE h == <<s, n>>
  <2>1. /\ life[h] = "compiled" /\ h \in Built /\ BuiltName(h) = n
        /\ \A x \in Built \ {h} : life'[x] = life[x]
    BY <1>3, PutBackEffect, BuiltFacts
  <2>2. \A m \in Names : entries[m] # h
    BY <2>1, BuiltFacts DEF Placed
  <2>3. \A m \in Names : entries[m] \in Built \cup {Absent}
    BY DEF ManagerTypeOK
  <2>4. CASE life'[h] = "dropped" /\ UNCHANGED entries
    BY <2>1, <2>2, <2>3, <2>4 DEF Placed
  <2>5. CASE /\ entries[n] = Absent /\ entries'[n] = h /\ life'[h] = "open"
             /\ \A m \in Names \ {n} : entries'[m] = entries[m]
    <3>1. \A x \in Built \ {h} : life'[x] = "open" => entries'[BuiltName(x)] = x
      BY <2>1, <2>5, BuiltFacts DEF Placed
    <3> HIDE DEF h
    <3> QED
      BY <2>1, <2>2, <2>3, <2>5, <3>1 DEF Placed
  <2> QED
    BY <1>3, <2>4, <2>5, PutBackEffect
<1>4. ASSUME NEW s \in Setters, SetPolicy(s) \/ AllRebuilt(s) PROVE Placed'
  BY <1>4 DEF SetPolicy, AllRebuilt, agentsVars, Placed
<1>5. ASSUME NEW g \in Built, ShutAgent(g) PROVE Placed'
  <2>1. Closing(g) \in {"closing", "closed"}
    BY DEF Closing
  <2> QED
    BY <1>5, <2>1, ShutAgentEffect, PlacedClosing DEF Filed
<1>6. CASE ClearRegistry
  BY <1>6 DEF ClearRegistry, Placed, ManagerTypeOK
<1>7. ASSUME NEW c \in Chats, EndChat(c) PROVE Placed'
  BY <1>7, EndChatEffect, PlacedClosing DEF Filed
<1>8. ASSUME UNCHANGED <<entries, life>> PROVE Placed'
  BY <1>8 DEF Placed
<1>9. CASE SetTracer \/ BeginShutdown \/ CloseFactory \/ UNCHANGED managerVars
  BY <1>8, <1>9 DEF SetTracer, BeginShutdown, CloseFactory, managerVars, agentsVars
<1>10. ASSUME NEW c \in Chats, BeginChat(c) PROVE Placed'
  BY <1>8, <1>10 DEF BeginChat, agentsVars
<1> QED
  BY <1>1, <1>2, <1>3, <1>4, <1>5, <1>6, <1>7, <1>9, <1>10 DEF ManagerNext, SetterStep, ShutdownStep

LEMMA SetterHoldsInductive ==
    ASSUME ManagerTypeOK, Placed, SetterHolds, [ManagerNext]_managerVars
    PROVE  SetterHolds'
<1>1. ASSUME UNCHANGED <<left, held>>, \A s \in Setters : stage'[s] = stage[s],
             \A s \in Setters, n \in Names :
                \/ life'[<<s, n>>] = life[<<s, n>>]
                \/ life'[<<s, n>>] \notin {"wired", "compiled"}
      PROVE  SetterHolds'
  BY <1>1 DEF SetterHolds
<1>2. ASSUME NEW g \in News, Compile(g) \/ Wire(g) \/ Register(g) PROVE SetterHolds'
  <2>1. \A s \in Setters, n \in Names : life'[<<s, n>>] = life[<<s, n>>]
    BY <1>2, MakeEffect, BuiltFacts
  <2>2. UNCHANGED <<stage, left, held>>
    BY <1>2, MakeEffect DEF stageVars
  <2> QED
    BY <1>1, <2>1, <2>2
<1>3. ASSUME NEW s \in Setters, SetPolicy(s) PROVE SetterHolds'
  <2>1. /\ held = Absent /\ held' = s /\ UNCHANGED life
        /\ stage[s] = "idle" /\ stage'[s] = "rebuilding"
        /\ \A t \in Setters \ {s} : stage'[t] = stage[t] /\ left'[t] = left[t]
    BY <1>3, BuiltFacts DEF SetPolicy, Reaches, LoopFree, agentsVars, ManagerTypeOK
  <2>2. left[s] = {}
    BY <2>1 DEF SetterHolds
  <2> QED
    BY <2>1, <2>2, BuiltFacts DEF SetterHolds
<1>4. ASSUME NEW s \in Setters, NEW n \in Names, TakeDown(s, n) PROVE SetterHolds'
  <2>1. UNCHANGED <<stage, held>>
    BY <1>4 DEF TakeDown
  <2>2. CASE /\ left' = [left EXCEPT ![s] = @ \ {n}]
             /\ UNCHANGED life
    <3>1. /\ left'[s] = left[s] \ {n}
          /\ \A t \in Setters \ {s} : left'[t] = left[t]
      BY <2>2 DEF ManagerTypeOK
    <3> QED
      BY <1>4, <2>1, <2>2, <3>1, TakeDownEffect DEF SetterHolds
  <2>3. CASE UNCHANGED left /\ life'[<<s, n>>] = "compiled" /\ entries[n] \in Built
    <3>1. Closing(entries[n]) \in {"closing", "closed"}
      BY DEF Closing
    <3>2. \A t \in Setters, m \in Names :
             <<t, m>> # <<s, n>> => \/ life'[<<t, m>>] = life[<<t, m>>]
                                   \/ life'[<<t, m>>] \notin {"wired", "compiled"}
      BY <1>4, <2>3, <3>1, TakeDownEffect, BuiltFacts
    <3>3. \A m \in Names : m # n => life'[<<s, m>>] # "compiled"
      <4>1. \A m \in Names : m \in left[s] => life[<<s, m>>] # "compiled"
        BY <1>4, TakeDownEffect
      <4>2. \A m \in Names : life[<<s, m>>] # "compiled"
        BY <4>1 DEF SetterHolds
      <4> QED
        BY <3>2, <4>2
    <3> QED
      BY <1>4, <2>1, <2>3, <3>2, <3>3, TakeDownEffect DEF SetterHolds
  <2> QED
    BY <1>4, <2>2, <2>3, TakeDownEffect
<1>5. ASSUME NEW s \in Setters, NEW n \in Names, PutBack(s, n) PROVE SetterHolds'
  <2>0. /\ life[<<s, n>>] = "compiled" /\ stage[s] = "rebuilding"
        /\ \A h \in Built \ {<<s, n>>} : life'[h] = life[h]
        /\ \A t \in Staged \ {s} : stage'[t] = stage[t]
        /\ \A t \in Setters \ {s} : left'[t] = left[t]
    BY <1>5, PutBackEffect
  <2>1. \A t \in Setters, m \in Names :
           <<t, m>> # <<s, n>> => life'[<<t, m>>] = life[<<t, m>>]
    BY <2>0, BuiltFacts
  <2>2. \A m \in Names : m # n => life[<<s, m>>] # "compiled"
    BY <2>0 DEF SetterHolds
  <2>3. held = s /\ \A t \in Setters \ {s} : stage'[t] = stage[t] /\ left'[t] = left[t]
    BY <2>0, BuiltFacts DEF SetterHolds
  <2>4. CASE life'[<<s, n>>] = "open" /\ left'[s] = left[s] \ {n} /\ UNCHANGED <<stage, held>>
    BY <2>1, <2>2, <2>3, <2>4 DEF SetterHolds
  <2>5. CASE life'[<<s, n>>] = "dropped" /\ left'[s] = {} /\ stage'[s] = "done" /\ held' = Absent
    BY <2>1, <2>2, <2>3, <2>5, BuiltFacts DEF SetterHolds
  <2> QED
    BY <1>5, <2>4, <2>5, PutBackEffect
<1>6. ASSUME NEW s \in Setters, AllRebuilt(s) PROVE SetterHolds'
  <2>1. /\ stage[s] = "rebuilding" /\ left[s] = {} /\ held' = Absent /\ stage'[s] = "done"
        /\ UNCHANGED <<left, life>> /\ \A t \in Setters \ {s} : stage'[t] = stage[t]
    BY <1>6, BuiltFacts DEF AllRebuilt, Reaches, agentsVars, ManagerTypeOK
  <2> QED
    BY <2>1, BuiltFacts DEF SetterHolds
<1>7. ASSUME NEW g \in Built, ShutAgent(g) PROVE SetterHolds'
  <2>1. Closing(g) \in {"closing", "closed"}
    BY DEF Closing
  <2>2. \A h \in Built : life'[h] = life[h] \/ life'[h] \notin {"wired", "compiled"}
    BY <1>7, <2>1, ShutAgentEffect
  <2> QED
    BY <1>1, <1>7, <2>2, ShutAgentEffect, BuiltFacts
<1>8. CASE BeginShutdown \/ ClearRegistry \/ CloseFactory
  <2>1. UNCHANGED <<left, held>> /\ \A s \in Setters : stage'[s] = stage[s]
    BY <1>8, BuiltFacts DEF BeginShutdown, ClearRegistry, CloseFactory, Reaches, ManagerTypeOK
  <2>2. \A h \in Built : life'[h] = life[h] \/ life'[h] \notin {"wired", "compiled"}
    BY <1>8 DEF BeginShutdown, ClearRegistry, CloseFactory, agentsVars, ManagerTypeOK
  <2> QED
    BY <1>1, <2>1, <2>2, BuiltFacts
<1>9. ASSUME NEW c \in Chats, BeginChat(c) \/ EndChat(c) PROVE SetterHolds'
  <2>1. UNCHANGED <<stage, left, held>>
    BY <1>9 DEF BeginChat, EndChat, stageVars
  <2>2. \A h \in Built : life'[h] = life[h] \/ life'[h] \notin {"wired", "compiled"}
    BY <1>9, EndChatEffect DEF BeginChat, agentsVars
  <2> QED
    BY <1>1, <2>1, <2>2, BuiltFacts
<1>10. CASE SetTracer \/ UNCHANGED managerVars
  BY <1>1, <1>10 DEF SetTracer, stageVars, managerVars, agentsVars
<1> QED
  BY <1>2, <1>3, <1>4, <1>5, <1>6, <1>7, <1>8, <1>9, <1>10 DEF ManagerNext, SetterStep, ShutdownStep

\* Steps that make no agent, and touch none under construction.
LEMMA ReadFrame ==
    ASSUME ReadIsSet, UNCHANGED settingVars,
           \A g \in Built : life'[g] \in {"compiled", "wired"} =>
              life'[g] = life[g] /\ obeys'[g] = obeys[g] /\ traced'[g] = traced[g]
    PROVE  ReadIsSet'
BY DEF ReadIsSet, settingVars

LEMMA ReadIsSetInductive ==
    ASSUME ManagerTypeOK, Placed, SetterHolds, ReadIsSet, [ManagerNext]_managerVars
    PROVE  ReadIsSet'
<1>1. ASSUME NEW g \in News, Compile(g) \/ Wire(g) \/ Register(g) PROVE ReadIsSet'
  BY <1>1, MakeEffect DEF ReadIsSet, settingVars
<1>2. ASSUME NEW s \in Setters, SetPolicy(s) PROVE ReadIsSet'
  <2>1. /\ held = Absent /\ overtaken' = overtaken \cup InMaking
        /\ UNCHANGED <<life, obeys, traced>>
    BY <1>2 DEF SetPolicy, LoopFree, agentsVars
  <2>2. \A g \in Built : life[g] \in {"compiled", "wired"} => g \in InMaking
    <3>1. \A t \in Setters, n \in Names : life[<<t, n>>] \notin {"compiled", "wired"}
      BY <2>1, BuiltFacts DEF SetterHolds
    <3> QED
      BY <3>1 DEF Built, InMaking
  <2> QED
    BY <2>1, <2>2 DEF ReadIsSet
<1>3. CASE SetTracer
  <2>1. /\ overtaken' = overtaken \cup Wired
        /\ UNCHANGED <<policy, life, obeys>>
    BY <1>3 DEF SetTracer
  <2>2. \A g \in Built : life[g] = "wired" => g \in Wired
    BY DEF SetterHolds, Built, Wired
  <2> QED
    BY <2>1, <2>2 DEF ReadIsSet
<1>4. ASSUME NEW s \in Setters, NEW n \in Names, TakeDown(s, n) PROVE ReadIsSet'
  <2>1. Closing(entries[n]) \in {"closing", "closed"}
    BY DEF Closing
  <2>2. UNCHANGED <<policy, tracer, overtaken, traced>>
    BY <1>4 DEF TakeDown, settingVars
  <2>3. CASE UNCHANGED <<life, obeys>>
    BY <2>2, <2>3 DEF ReadIsSet
  <2>4. CASE entries[n] \in Built
    <3>1. /\ life'[entries[n]] = Closing(entries[n])
          /\ life'[<<s, n>>] = "compiled" /\ obeys'[<<s, n>>] = policy
          /\ \A h \in Built \ {<<s, n>>} : obeys'[h] = obeys[h]
          /\ \A h \in Built \ {<<s, n>>, entries[n]} : life'[h] = life[h]
      BY <1>4, <2>4, TakeDownEffect, BuiltFacts
    <3> QED
      BY <2>1, <2>2, <2>4, <3>1 DEF ReadIsSet
  <2> QED
    BY <1>4, <2>3, <2>4, TakeDownEffect
<1>5. ASSUME NEW s \in Setters, NEW n \in Names, PutBack(s, n) PROVE ReadIsSet'
  <2>1. /\ UNCHANGED <<policy, tracer, overtaken, obeys>>
        /\ \A h \in Built \ {<<s, n>>} : traced'[h] = traced[h] /\ life'[h] = life[h]
        /\ life'[<<s, n>>] \in {"open", "dropped"}
    BY <1>5, PutBackEffect
  <2> QED
    BY <2>1 DEF ReadIsSet
<1>6. ASSUME NEW g \in Built, ShutAgent(g) PROVE ReadIsSet'
  <2>1. Closing(g) \in {"closing", "closed"}
    BY DEF Closing
  <2> QED
    BY <1>6, <2>1, ShutAgentEffect, ReadFrame
<1>7. ASSUME NEW c \in Chats, BeginChat(c) \/ EndChat(c) PROVE ReadIsSet'
  <2>1. CASE BeginChat(c)
    BY <2>1, ReadFrame DEF BeginChat, agentsVars
  <2>2. CASE EndChat(c)
    BY <2>2, EndChatEffect, ReadFrame
  <2> QED
    BY <1>7, <2>1, <2>2
<1>8. CASE ClearRegistry
  BY <1>8, ReadFrame DEF ClearRegistry
<1>9. CASE BeginShutdown \/ CloseFactory \/ UNCHANGED managerVars
  BY <1>9, ReadFrame DEF BeginShutdown, CloseFactory, managerVars, agentsVars
<1>10. ASSUME NEW s \in Setters, AllRebuilt(s) PROVE ReadIsSet'
  BY <1>10, ReadFrame DEF AllRebuilt, agentsVars
<1> QED
  BY <1>1, <1>2, <1>3, <1>4, <1>5, <1>6, <1>7, <1>8, <1>9, <1>10
     DEF ManagerNext, SetterStep, ShutdownStep

LEMMA ClosingInductive ==
    ASSUME ManagerTypeOK, Placed, ClosingIsBusy, [ManagerNext]_managerVars
    PROVE  ClosingIsBusy'
<1>1. ASSUME UNCHANGED chatVars,
             \A g \in Built : life'[g] = "closing" => life[g] = "closing" \/ life'[g] = Closing(g)
      PROVE  ClosingIsBusy'
  <2>1. \A g \in Built : Busy(g)' = Busy(g)
    BY <1>1 DEF chatVars, Busy
  <2> QED
    BY <1>1, <2>1 DEF ClosingIsBusy, Closing
<1>2. ASSUME NEW g \in News, Compile(g) \/ Wire(g) \/ Register(g) PROVE ClosingIsBusy'
  BY <1>1, <1>2, MakeEffect
<1>3. ASSUME NEW s \in Setters, NEW n \in Names, TakeDown(s, n) PROVE ClosingIsBusy'
  BY <1>1, <1>3, TakeDownEffect
<1>4. ASSUME NEW s \in Setters, NEW n \in Names, PutBack(s, n) PROVE ClosingIsBusy'
  BY <1>1, <1>4, PutBackEffect
<1>5. ASSUME NEW s \in Setters, SetPolicy(s) \/ AllRebuilt(s) PROVE ClosingIsBusy'
  BY <1>1, <1>5 DEF SetPolicy, AllRebuilt, agentsVars
<1>6. ASSUME NEW g \in Built, ShutAgent(g) PROVE ClosingIsBusy'
  BY <1>1, <1>6, ShutAgentEffect
<1>7. CASE ClearRegistry
  BY <1>1, <1>7 DEF ClearRegistry
<1>8. CASE SetTracer \/ BeginShutdown \/ CloseFactory \/ UNCHANGED managerVars
  BY <1>1, <1>8 DEF SetTracer, BeginShutdown, CloseFactory, managerVars, agentsVars
<1>9. ASSUME NEW c \in Chats, BeginChat(c) PROVE ClosingIsBusy'
  <2>1. /\ chat[c] = "idle" /\ UNCHANGED life
        /\ \A d \in Chats \ {c} : chat'[d] = chat[d] /\ chatOn'[d] = chatOn[d]
    BY <1>9 DEF BeginChat, agentsVars, ManagerTypeOK
  <2>2. \A g \in Built : Busy(g) => Busy(g)'
    BY <2>1 DEF Busy
  <2> QED
    BY <2>1, <2>2 DEF ClosingIsBusy
<1>10. ASSUME NEW c \in Chats, EndChat(c) PROVE ClosingIsBusy'
  <2> SUFFICES ASSUME NEW g \in Built, life'[g] = "closing" PROVE Busy(g)'
    BY DEF ClosingIsBusy
  <2>1. life[g] = "closing"
    BY <1>10, EndChatEffect
  <2>2. PICK d \in Chats \ {c} : chat[d] = "running" /\ chatOn[d] = g
    <3>1. CASE chatOn[c] = g
      BY <1>10, <2>1, <3>1, EndChatEffect
    <3>2. CASE chatOn[c] # g
      BY <2>1, <3>2 DEF ClosingIsBusy, Busy
    <3> QED
      BY <3>1, <3>2
  <2> QED
    BY <1>10, <2>2, EndChatEffect DEF Busy
<1> QED
  BY <1>2, <1>3, <1>4, <1>5, <1>6, <1>7, <1>8, <1>9, <1>10 DEF ManagerNext, SetterStep, ShutdownStep

\* Steps that leave a shutdown alone, and open nothing that was closed.
LEMMA ShutFrame ==
    ASSUME ShutInOrder, UNCHANGED <<leaving, promised>>, promised \subseteq Built,
           stage'["shutdown"] = stage["shutdown"],
           \A g \in Built : Filed(g) => Filed(g)' /\ (life'[g] = "open" => life[g] = "open")
    PROVE  ShutInOrder'
BY DEF ShutInOrder, Filed

LEMMA ShutInductive ==
    ASSUME ManagerTypeOK, Placed, ShutInOrder, [ManagerNext]_managerVars
    PROVE  ShutInOrder'
<1>0. promised \subseteq Built /\ leaving \subseteq Built
  BY DEF ManagerTypeOK
<1>1. ASSUME NEW g \in News, Compile(g) \/ Wire(g) \/ Register(g) PROVE ShutInOrder'
  BY <1>0, <1>1, MakeEffect, ShutFrame DEF stageVars, Filed
<1>2. ASSUME NEW s \in Setters, NEW n \in Names, TakeDown(s, n) PROVE ShutInOrder'
  <2>1. Closing(entries[n]) \in {"closing", "closed"}
    BY DEF Closing
  <2>2. \A g \in Built : Filed(g) => Filed(g)' /\ (life'[g] = "open" => life[g] = "open")
    <3>1. CASE UNCHANGED life
      BY <3>1 DEF Filed
    <3>2. CASE entries[n] \in Built
      <4>1. /\ life[<<s, n>>] = "none" /\ life'[<<s, n>>] = "compiled"
            /\ life'[entries[n]] = Closing(entries[n])
            /\ \A h \in Built \ {<<s, n>>, entries[n]} : life'[h] = life[h]
        BY <1>2, <3>2, TakeDownEffect, BuiltFacts
      <4> QED
        BY <2>1, <4>1 DEF Filed
    <3> QED
      BY <1>2, <3>1, <3>2, TakeDownEffect
  <2>3. UNCHANGED <<stage, leaving, promised>>
    BY <1>2 DEF TakeDown
  <2> QED
    BY <1>0, <2>2, <2>3, ShutFrame
<1>3. ASSUME NEW s \in Setters, NEW n \in Names, PutBack(s, n) PROVE ShutInOrder'
  <2>1. \A g \in Built : Filed(g) => Filed(g)' /\ (life'[g] = "open" => life[g] = "open")
    BY <1>3, PutBackEffect DEF Filed
  <2>2. UNCHANGED <<leaving, promised>> /\ stage'["shutdown"] = stage["shutdown"]
    <3>1. UNCHANGED <<leaving, promised>> /\ \A t \in Staged \ {s} : stage'[t] = stage[t]
      BY <1>3, PutBackEffect
    <3> QED
      BY <3>1, BuiltFacts
  <2> QED
    BY <1>0, <2>1, <2>2, ShutFrame
<1>4. ASSUME NEW s \in Setters, SetPolicy(s) \/ AllRebuilt(s) PROVE ShutInOrder'
  <2>1. UNCHANGED <<leaving, promised, life>> /\ stage'["shutdown"] = stage["shutdown"]
    BY <1>4, BuiltFacts DEF SetPolicy, AllRebuilt, agentsVars, Reaches, ManagerTypeOK
  <2> QED
    BY <1>0, <2>1, ShutFrame DEF Filed
<1>5. CASE BeginShutdown
  <2>1. /\ leaving' = {entries[n] : n \in Names} \ {Absent} /\ promised' = leaving'
        /\ stage'["shutdown"] = "closing" /\ UNCHANGED life
    BY <1>5, BuiltFacts DEF BeginShutdown, Reaches, agentsVars, ManagerTypeOK
  <2>2. \A g \in promised' : life'[g] \in {"open", "closing", "closed"}
    BY <2>1 DEF Placed
  <2> QED
    BY <2>1, <2>2 DEF ShutInOrder
<1>6. ASSUME NEW g \in Built, ShutAgent(g) PROVE ShutInOrder'
  <2>1. /\ leaving' = leaving \ {g} /\ UNCHANGED <<promised, stage>>
        /\ life'[g] = IF life[g] = "open" THEN Closing(g) ELSE life[g]
        /\ \A h \in Built \ {g} : life'[h] = life[h]
    BY <1>6, ShutAgentEffect
  <2>2. Closing(g) \in {"closing", "closed"}
    BY DEF Closing
  <2> QED
    BY <1>0, <2>1, <2>2 DEF ShutInOrder
<1>7. CASE ClearRegistry
  <2>1. /\ leaving = {} /\ leaving' = {} /\ UNCHANGED promised
        /\ stage["shutdown"] = "closing" /\ stage'["shutdown"] = "clearing"
    BY <1>7, BuiltFacts DEF ClearRegistry, Reaches, ManagerTypeOK
  <2>2. \A g \in promised : life'[g] = life[g]
    BY <1>0, <1>7, <2>1 DEF ClearRegistry, ShutInOrder
  <2> QED
    BY <2>1, <2>2 DEF ShutInOrder
<1>8. CASE CloseFactory
  <2>1. /\ UNCHANGED <<leaving, promised, life>>
        /\ stage["shutdown"] = "clearing" /\ stage'["shutdown"] = "done"
    BY <1>8, BuiltFacts DEF CloseFactory, Reaches, agentsVars, ManagerTypeOK
  <2> QED
    BY <2>1 DEF ShutInOrder
<1>9. ASSUME NEW c \in Chats, BeginChat(c) \/ EndChat(c) PROVE ShutInOrder'
  <2>1. UNCHANGED <<stage, leaving, promised>>
    BY <1>9 DEF BeginChat, EndChat, stageVars
  <2>2. \A g \in Built : Filed(g) => Filed(g)' /\ (life'[g] = "open" => life[g] = "open")
    BY <1>9, EndChatEffect DEF BeginChat, agentsVars, Filed
  <2> QED
    BY <1>0, <2>1, <2>2, ShutFrame
<1>10. CASE SetTracer \/ UNCHANGED managerVars
  BY <1>0, <1>10, ShutFrame DEF SetTracer, managerVars, stageVars, agentsVars, Filed
<1> QED
  BY <1>1, <1>2, <1>3, <1>4, <1>5, <1>6, <1>7, <1>8, <1>9, <1>10
     DEF ManagerNext, SetterStep, ShutdownStep

\* Steps that change neither a setting nor who is registered.
LEMMA ReachFrame ==
    ASSUME SettingsReach,
           UNCHANGED <<policy, tracer, overtaken, entries, obeys, traced, left, spoiled>>
    PROVE  SettingsReach'
BY DEF SettingsReach

LEMMA ReachInductive ==
    ASSUME ManagerTypeOK, Placed, SetterHolds, ReadIsSet, SettingsReach, [ManagerNext]_managerVars
    PROVE  SettingsReach'
<1>0. \A n \in Names : entries[n] \in Built \cup {Absent}
  BY DEF ManagerTypeOK
<1>1. ASSUME NEW g \in News, Compile(g) \/ Wire(g) \/ Register(g) PROVE SettingsReach'
  <2>1. UNCHANGED <<policy, tracer, overtaken, left, spoiled>>
    BY <1>1, MakeEffect DEF settingVars, stageVars
  <2>2. \A n \in Names : entries[n] # g
    BY <1>1, MakeEffect, BuiltFacts DEF Placed
  <2>3. \A h \in Built \ {g} : obeys'[h] = obeys[h] /\ traced'[h] = traced[h]
    BY <1>1, MakeEffect
  <2>4. CASE UNCHANGED entries
    BY <1>0, <2>1, <2>2, <2>3, <2>4 DEF SettingsReach
  <2>5. CASE /\ life[g] = "wired" /\ entries'[NameOf[g]] = g /\ UNCHANGED <<obeys, traced>>
             /\ \A n \in Names \ {NameOf[g]} : entries'[n] = entries[n]
    <3>1. g \in overtaken \/ (obeys[g] = policy /\ traced[g] = tracer)
      BY <2>5, BuiltFacts DEF ReadIsSet
    <3> QED
      BY <2>1, <2>5, <3>1 DEF SettingsReach
  <2> QED
    BY <1>1, <2>4, <2>5, MakeEffect
<1>2. ASSUME NEW s \in Setters, SetPolicy(s) PROVE SettingsReach'
  <2>1. /\ overtaken' = overtaken \cup InMaking /\ UNCHANGED <<tracer, entries, traced, spoiled>>
        /\ left'[s] = {n \in Names : entries[n] # Absent}
    BY <1>2 DEF SetPolicy, agentsVars, ManagerTypeOK
  <2> QED
    BY <2>1 DEF SettingsReach
<1>3. ASSUME NEW s \in Setters, NEW n \in Names, TakeDown(s, n) PROVE SettingsReach'
  <2>1. UNCHANGED <<policy, tracer, overtaken, traced, spoiled>>
    BY <1>3 DEF TakeDown, settingVars
  <2>2. CASE left' = [left EXCEPT ![s] = @ \ {n}] /\ entries[n] = Absent /\ UNCHANGED <<entries, obeys>>
    <3>1. \A m \in Names : m # n => \A t \in Setters : m \in left[t] => m \in left'[t]
      BY <2>2 DEF ManagerTypeOK
    <3> QED
      BY <2>1, <2>2, <3>1 DEF SettingsReach
  <2>3. CASE entries'[n] = Absent /\ entries[n] \in Built
    <3>1. /\ life[<<s, n>>] = "none" /\ UNCHANGED left
          /\ \A m \in Names \ {n} : entries'[m] = entries[m]
          /\ \A h \in Built \ {<<s, n>>} : obeys'[h] = obeys[h]
      BY <1>3, <2>3, TakeDownEffect, BuiltFacts
    <3>2. \A m \in Names : entries[m] # <<s, n>>
      BY <3>1, BuiltFacts DEF Placed
    <3>3. \A m \in Names \ {n} : entries[m] # Absent => obeys'[entries[m]] = obeys[entries[m]]
      BY <1>0, <3>1, <3>2
    <3> QED
      BY <2>1, <2>3, <3>1, <3>3 DEF SettingsReach
  <2> QED
    BY <1>3, <2>2, <2>3, TakeDownEffect
<1>4. ASSUME NEW s \in Setters, NEW n \in Names, PutBack(s, n) PROVE SettingsReach'
  <2> DEFINE h == <<s, n>>
  <2>1. /\ life[h] = "compiled" /\ traced'[h] = tracer
        /\ \A x \in Built \ {h} : traced'[x] = traced[x]
        /\ UNCHANGED <<policy, tracer, overtaken, obeys>>
        /\ \A t \in Setters \ {s} : left'[t] = left[t]
    BY <1>4, PutBackEffect
  <2>2. h \in Built /\ \A m \in Names : entries[m] # h
    BY <2>1, BuiltFacts DEF Placed
  <2>3. h \in overtaken \/ obeys[h] = policy
    BY <2>1, <2>2 DEF ReadIsSet
  <2>4. \A m \in Names : entries[m] # Absent => traced'[entries[m]] = traced[entries[m]]
    BY <1>0, <2>1, <2>2
  <2>5. CASE /\ entries'[n] = h /\ left'[s] = left[s] \ {n} /\ UNCHANGED spoiled
             /\ \A m \in Names \ {n} : entries'[m] = entries[m]
    <3>1. \A m \in Names \ {n}, t \in Setters : m \in left[t] => m \in left'[t]
      BY <2>1, <2>5
    <3> HIDE DEF h
    <3> QED
      BY <2>1, <2>3, <2>4, <2>5, <3>1 DEF SettingsReach
  <2>6. CASE spoiled' = spoiled \cup left[s] /\ UNCHANGED entries
    <3>1. \A m \in Names \ spoiled', t \in Setters : m \in left[t] => m \in left'[t]
      BY <2>1, <2>6
    <3> HIDE DEF h
    <3> QED
      BY <2>1, <2>4, <2>6, <3>1 DEF SettingsReach
  <2> QED
    BY <1>4, <2>5, <2>6, PutBackEffect
<1>5. CASE SetTracer
  <2>1. /\ tracer' = tracer + 1 /\ overtaken \subseteq overtaken'
        /\ UNCHANGED <<policy, entries, obeys, left, spoiled>>
    BY <1>5 DEF SetTracer, stageVars
  <2>2. \A n \in Names : entries[n] # Absent => traced'[entries[n]] = tracer'
    BY <1>0, <1>5 DEF SetTracer
  <2> QED
    BY <2>1, <2>2 DEF SettingsReach
<1>6. CASE ClearRegistry
  BY <1>6 DEF ClearRegistry, SettingsReach
<1>7. ASSUME NEW s \in Setters, AllRebuilt(s) PROVE SettingsReach'
  BY <1>7, ReachFrame DEF AllRebuilt, settingVars, agentsVars
<1>8. ASSUME NEW g \in Built, ShutAgent(g) PROVE SettingsReach'
  BY <1>8, ReachFrame DEF ShutAgent, settingVars
<1>9. ASSUME NEW c \in Chats, BeginChat(c) \/ EndChat(c) PROVE SettingsReach'
  BY <1>9, ReachFrame DEF BeginChat, EndChat, settingVars, agentsVars, stageVars
<1>10. CASE BeginShutdown \/ CloseFactory \/ UNCHANGED managerVars
  BY <1>10, ReachFrame DEF BeginShutdown, CloseFactory, managerVars, settingVars, agentsVars, stageVars
<1> QED
  BY <1>1, <1>2, <1>3, <1>4, <1>5, <1>6, <1>7, <1>8, <1>9, <1>10
     DEF ManagerNext, SetterStep, ShutdownStep

-----------------------------------------------------------------------------
(***************************************************************************)
(* The invariant and the theorems.                                         *)
(***************************************************************************)

LEMMA ManagerInvariant == ManagerSpec => [](ManagerTypeOK /\ ManagerInv)
<1>1. ManagerInit => ManagerTypeOK /\ ManagerInv
  <2> SUFFICES ASSUME ManagerInit PROVE ManagerTypeOK /\ ManagerInv
    OBVIOUS
  <2>1. IsFiniteSet(Setters) /\ MaxTracers \in Nat /\ Cardinality(Setters) \in Nat
    BY SettingsAssumption, FS_CardinalityType
  <2>2. ManagerTypeOK
    BY <2>1 DEF ManagerInit, ManagerTypeOK
  <2>3. PolicyCounts
    <3>1. Begun = {}
      BY BuiltFacts DEF ManagerInit, Begun
    <3> QED
      BY <3>1, FS_EmptySet DEF ManagerInit, PolicyCounts
  <2>4. Placed /\ SetterHolds /\ ReadIsSet /\ ClosingIsBusy
    BY BuiltFacts DEF ManagerInit, Placed, SetterHolds, ReadIsSet, ClosingIsBusy
  <2>5. ShutInOrder /\ SettingsReach
    BY BuiltFacts DEF ManagerInit, ShutInOrder, SettingsReach
  <2> QED
    BY <2>2, <2>3, <2>4, <2>5 DEF ManagerInv
<1>2. ManagerTypeOK /\ ManagerInv /\ [ManagerNext]_managerVars => (ManagerTypeOK /\ ManagerInv)'
  BY TypeInductive, PolicyInductive, PlacedInductive, SetterHoldsInductive, ReadIsSetInductive,
     ClosingInductive, ShutInductive, ReachInductive DEF ManagerInv
<1> QED
  BY <1>1, <1>2, PTL DEF ManagerSpec

\* The variables of the manager have their types.
THEOREM ManagerTypeCorrect == ManagerSpec => []ManagerTypeOK
BY ManagerInvariant, PTL

\* A change of the security policy or of the tracer reaches every registered
\* agent, but for those under construction that had read the setting and the
\* ids behind a rebuild that failed; an open agent is registered, and those a
\* shutdown found are closed when it returns or will be by a turn that runs.
THEOREM ManagerFollows == ManagerSpec => []ManagerKeepsUp
<1>1. ManagerTypeOK /\ ManagerInv => ManagerKeepsUp
  <2> SUFFICES ASSUME ManagerTypeOK, ManagerInv PROVE ManagerKeepsUp
    OBVIOUS
  <2>1. \A g \in Built : life[g] = "open" => \E n \in Names : entries[n] = g
    BY BuiltFacts DEF ManagerInv, Placed
  <2>2. ASSUME stage["shutdown"] = "done", NEW g \in promised
        PROVE  life[g] = "closed" \/ (life[g] = "closing" /\ Busy(g))
    BY <2>2 DEF ManagerInv, ManagerTypeOK, ShutInOrder, ClosingIsBusy
  <2> QED
    BY <2>1, <2>2 DEF ManagerInv, ManagerKeepsUp, NoAgentForgotten
<1> QED
  BY <1>1, ManagerInvariant, PTL
=============================================================================
