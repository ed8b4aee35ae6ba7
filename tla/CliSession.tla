------------------------------ MODULE CliSession ----------------------------
(***************************************************************************)
(* Terminals of the command line (cli/repl, cli/agents, slash/handlers.py, *)
(* cli/providers/setup_wizard.py): the agent profiles in config.json,      *)
(* which every process reads, changes and writes back as a whole, and the  *)
(* session of a terminal: agent, model, override of the model, thread.     *)
(*                                                                         *)
(* The file is cut off and then written; what cannot be parsed is taken    *)
(* for an empty file.  A profile stands for its model.  Of the rest of the *)
(* configuration only its presence is kept.                                *)
(***************************************************************************)
EXTENDS Naturals, FiniteSets, SequencesExt

CONSTANTS
    Terminals,    \* processes
    Wizards,      \* of them, those that run the setup wizard
    ProfileNames, \* "main" is one of them
    FirstConfig,  \* the file at first
    Override,     \* a model that /model names
    MaxThreads,   \* bound on the sessions begun
    NoneSet       \* no agents in the file, no override

Main == "main"
Config == [agents : SUBSET ProfileNames \cup {NoneSet}, default : ProfileNames, rest : BOOLEAN]
EmptyConfig == [agents |-> NoneSet, default |-> Main, rest |-> FALSE]

ASSUME CliAssumption ==
    Main \in ProfileNames /\ FirstConfig \in Config /\ Wizards \subseteq Terminals /\ MaxThreads \in Nat

VARIABLES
    config,    \* what was written last
    cutOff,       \* the file has been cut off and not yet written
    terminal,  \* state of a process
    session,   \* session of a terminal
    lastSent,      \* the last request of a terminal
    made,      \* history: profiles that were created, or there at first, and not removed
    clobbered,     \* history: a file was saved that another process had changed since it was
                   \* read, or that was read cut off
    implied    \* history: a first profile was created beside a main agent that the file did not name

cliVars == <<config, cutOff, terminal, session, lastSent, made, clobbered, implied>>

NoneNamed(c) == c.agents \in {NoneSet, {}}
NamedIn(c) == IF c.agents = NoneSet THEN {} ELSE c.agents

\* CliAgentManager._load()
Loaded == IF cutOff THEN EmptyConfig ELSE config
\* CliAgentManager.get() finds the profile; without any, there is a main agent.
Known(c, n) == IF NoneNamed(c) THEN n = Main ELSE n \in c.agents

Ready == [at |-> "idle", cmd |-> "none", name |-> Main, read |-> EmptyConfig]

CliInit ==
    /\ config = FirstConfig /\ cutOff = FALSE
    /\ terminal = [p \in Terminals |-> Ready]
    /\ session = [p \in Terminals |-> [agent |-> FirstConfig.default, model |-> FirstConfig.default,
           override |-> NoneSet, thread |-> 0, carried |-> FALSE]]
    /\ lastSent = [p \in Terminals |-> [model |-> NoneSet, thread |-> 0, shown |-> NoneSet, carried |-> FALSE]]
    /\ made = NamedIn(FirstConfig) /\ clobbered = FALSE /\ implied = FALSE

SetTerm(p, rec) == terminal' = [terminal EXCEPT ![p] = rec]
AtPrompt(p) == terminal[p].at = "idle"

-----------------------------------------------------------------------------
(* Profiles *)

\* /agent create: the name is free, and the user is asked for the rest; the other commands ask nothing.
BeginChange(p, cmd, n) ==
    /\ AtPrompt(p) /\ cmd = "create" => ~Known(Loaded, n)
    /\ (cmd = "wizard") = (p \in Wizards) /\ (cmd = "wizard" => n = Main)
    /\ SetTerm(p, [Ready EXCEPT !.at = "asked", !.cmd = cmd, !.name = n])
    /\ UNCHANGED <<config, cutOff, session, lastSent, made, clobbered, implied>>

\* Variant with a fault: the agents are made anew.
ChangedAfresh(c, cmd, n) == IF cmd = "create" THEN [c EXCEPT !.agents = {n}] ELSE c

\* create(), remove(), set_default(), _write_provider_config(): the file as it will be saved.
Changed(c, cmd, n) ==
    CASE cmd = "create" -> [c EXCEPT !.agents = NamedIn(c) \cup {n}]
      [] cmd = "remove" -> [c EXCEPT !.agents = NamedIn(c) \ {n}, !.default = IF @ = n THEN Main ELSE @]
      [] cmd = "default" -> [c EXCEPT !.default = n]
      [] cmd = "wizard" -> [agents |-> NamedIn(c) \cup {Main}, default |-> Main, rest |-> TRUE]

MayChange(c, cmd, n) ==
    CASE cmd = "create"  -> n \notin NamedIn(c)
      [] cmd = "remove"  -> n # Main /\ n \in NamedIn(c)
      [] cmd = "default" -> n \in NamedIn(c)
      [] cmd = "wizard"  -> ~cutOff

LoadChange(p) ==
    LET t == terminal[p]
    IN /\ t.at = "asked"
       /\ IF MayChange(Loaded, t.cmd, t.name)
            THEN SetTerm(p, [t EXCEPT !.at = "saving", !.read = Loaded])
            ELSE SetTerm(p, Ready)
       /\ clobbered' = (clobbered \/ cutOff)
       /\ UNCHANGED <<config, cutOff, session, lastSent, made, implied>>

\* write_text() cuts the file off.
CutFile(p) ==
    /\ terminal[p].at = "saving" /\ cutOff' = TRUE
    /\ SetTerm(p, [terminal[p] EXCEPT !.at = "writing"])
    /\ clobbered' = (clobbered \/ cutOff \/ terminal[p].read # config)
    /\ UNCHANGED <<config, session, lastSent, made, implied>>

WriteFile(p) ==
    LET t == terminal[p]
    IN /\ t.at = "writing"
       /\ config' = Changed(t.read, t.cmd, t.name) /\ cutOff' = FALSE
       /\ made' = CASE t.cmd = "remove" -> made \ {t.name}
                    [] t.cmd = "create" -> made \cup {t.name}
                    [] t.cmd = "wizard" -> made \cup {Main}
                    [] OTHER -> made
       /\ implied' = (implied \/ (t.cmd = "create" /\ NoneNamed(t.read)))
       /\ clobbered' = (clobbered \/ t.read # config)
       /\ SetTerm(p, Ready)
       /\ UNCHANGED <<session, lastSent>>

\* The process ends before it has written.
Killed(p) ==
    /\ terminal[p].at = "writing" /\ clobbered' = TRUE
    /\ SetTerm(p, [Ready EXCEPT !.at = "gone"])
    /\ UNCHANGED <<config, cutOff, session, lastSent, made, implied>>

-----------------------------------------------------------------------------
(* The session of a terminal *)

SetSession(p, rec) == session' = [session EXCEPT ![p] = rec]
Fresh(p) == session[p].thread < MaxThreads

\* /agent switch finds the profile, and the loop looks again.
AskSwitch(p, n) ==
    /\ AtPrompt(p) /\ p \notin Wizards /\ Known(Loaded, n) /\ Fresh(p)
    /\ SetTerm(p, [Ready EXCEPT !.at = "switching", !.name = n])
    /\ UNCHANGED <<config, cutOff, session, lastSent, made, clobbered, implied>>

Switch(p) ==
    LET n == terminal[p].name
        s == session[p]
    IN /\ terminal[p].at = "switching"
       /\ IF Known(Loaded, n)
            THEN SetSession(p, [s EXCEPT !.agent = n, !.model = n, !.thread = @ + 1, !.carried = (s.override # NoneSet)])
            ELSE UNCHANGED session
       /\ SetTerm(p, Ready)
       /\ UNCHANGED <<config, cutOff, lastSent, made, clobbered, implied>>

\* /model NAME, and /model reset.
SetModel(p) ==
    /\ AtPrompt(p) /\ p \notin Wizards
    /\ SetSession(p, [session[p] EXCEPT !.model = Override, !.override = Override, !.carried = FALSE])
    /\ UNCHANGED <<config, cutOff, terminal, lastSent, made, clobbered, implied>>

ResetModel(p) ==
    /\ AtPrompt(p) /\ p \notin Wizards
    /\ SetSession(p, [session[p] EXCEPT !.model = session[p].agent, !.override = NoneSet, !.carried = FALSE])
    /\ UNCHANGED <<config, cutOff, terminal, lastSent, made, clobbered, implied>>

\* /new
NewThread(p) ==
    /\ AtPrompt(p) /\ p \notin Wizards /\ Fresh(p)
    /\ SetSession(p, [session[p] EXCEPT !.thread = @ + 1])
    /\ UNCHANGED <<config, cutOff, terminal, lastSent, made, clobbered, implied>>

\* Variant with a fault: the agent's own model comes first.
UsedAgents(s) == s.agent

\* The model of a request.
Used(s) == IF s.override # NoneSet THEN s.override ELSE s.model

\* _send_to_agent()
SendText(p) ==
    /\ AtPrompt(p) /\ p \notin Wizards
    /\ lastSent' = [lastSent EXCEPT ![p] = [model |-> Used(session[p]), thread |-> session[p].thread,
                                    shown |-> session[p].model, carried |-> session[p].carried]]
    /\ UNCHANGED <<config, cutOff, terminal, session, made, clobbered, implied>>

CliNext ==
    \E p \in Terminals :
        \/ \E n \in ProfileNames : \/ \E cmd \in {"create", "remove", "default", "wizard"} : BeginChange(p, cmd, n)
                                   \/ AskSwitch(p, n)
        \/ LoadChange(p) \/ CutFile(p) \/ WriteFile(p) \/ Killed(p)
        \/ Switch(p) \/ SetModel(p) \/ ResetModel(p) \/ NewThread(p) \/ SendText(p)

CliSpec == CliInit /\ [][CliNext]_cliVars

-----------------------------------------------------------------------------
(* What is promised *)

CliTypeOK ==
    /\ config \in Config /\ cutOff \in BOOLEAN /\ clobbered \in BOOLEAN /\ implied \in BOOLEAN
    /\ made \subseteq ProfileNames
    /\ \A p \in Terminals : /\ terminal[p].at \in {"idle", "asked", "saving", "writing", "switching", "gone"}
                            /\ session[p].thread \in 0..MaxThreads

\* The profiles that were created are in the file, those removed are not, and the rest of it stays:
\* unless two processes saved at one time, or one was killed while it did.
ProfilesStay ==
    clobbered \/ (NamedIn(config) = made /\ (FirstConfig.rest => config.rest))

\* There is a main agent, which cannot be removed, and the default is an agent there is:
\* unless the file named none when the first profile was created.
MainStays ==
    clobbered \/ implied \/ (Known(config, Main) /\ Known(config, config.default))

\* A request goes to the model that the terminal shows, unless an override outlived its agent.
ShownIsUsed ==
    \A p \in Terminals : lastSent[p].model # NoneSet => lastSent[p].carried \/ lastSent[p].model = lastSent[p].shown

SessionServes == ProfilesStay /\ MainStays /\ ShownIsUsed

-----------------------------------------------------------------------------
(***************************************************************************)
(* How a terminal shows a streamed turn (cli/repl/handler.py,              *)
(* cli/ui/renderer.py, _send_to_agent() in cli/repl/loop.py).              *)
(*                                                                         *)
(* While the agent thinks or runs tools there is a status line, while text *)
(* comes there is the text so far; both are live displays of one console.  *)
(* Text is printed for good when a tool begins or the turn ends, also when *)
(* the stream fails or is stopped.  Events come in any order; texts are    *)
(* numbered as they come.                                                  *)
(***************************************************************************)
CONSTANTS
    ShownTools,      \* ids of tool calls
    MaxEvents,  \* bound on the events of a turn
    Nests       \* the console permits one live display within another

ASSUME DisplayAssumption == MaxEvents \in Nat /\ Nests \in BOOLEAN

VARIABLES
    shows,     \* live displays
    buffer,    \* texts in the renderer
    printedText,   \* texts printed for good
    fed,       \* texts that came
    pendings,  \* _tool_calls: tools that have begun
    toolsDone,   \* _tool_names: tools shown as done
    begun,  \* history: tools that had begun when a result came
    events,    \* events of the turn so far
    stream,    \* "open", "stopped": an event is discarded and the turn ends, "over"
    again      \* history: the agent thought while its text was shown

displayTurnVars == <<shows, buffer, printedText, fed, pendings, toolsDone, begun, events, stream, again>>

ShowInit ==
    /\ shows = {} /\ buffer = <<>> /\ printedText = <<>> /\ fed = <<>>
    /\ pendings = {} /\ toolsDone = <<>> /\ begun = <<>>
    /\ events = 0 /\ stream = "open" /\ again = FALSE

EventComes == stream = "open" /\ events < MaxEvents /\ events' = events + 1

\* Variant with a fault: the text is dropped with its display.
PrintNothing == printedText' = printedText /\ buffer' = <<>>

\* StreamRenderer.finish()
PrintBuffer == printedText' = printedText \o buffer /\ buffer' = <<>>

\* _finalize(): the displays end, and the text is printed.
EndShow ==
    /\ stream' = "over" /\ shows' = {} /\ PrintBuffer
    /\ UNCHANGED <<fed, pendings, toolsDone, begun>>

\* _handle_reasoning(): a console that shows text may refuse the status line, and the turn ends.
Reasoning ==
    /\ EventComes
    /\ again' = (again \/ "text" \in shows)
    /\ IF "text" \in shows /\ ~Nests /\ "status" \notin shows THEN EndShow
       ELSE shows' = shows \cup {"status"} /\ UNCHANGED <<buffer, printedText, fed, pendings, toolsDone, begun, stream>>

\* _handle_token()
Token ==
    /\ EventComes
    /\ shows' = {"text"}
    /\ fed' = Append(fed, Len(fed) + 1) /\ buffer' = Append(buffer, Len(fed) + 1)
    /\ UNCHANGED <<printedText, pendings, toolsDone, begun, stream, again>>

\* _handle_tool_call_chunk(): the first chunk of a call; further ones only add to its arguments.
ToolChunk(t) ==
    /\ EventComes
    /\ IF t \in pendings THEN UNCHANGED <<shows, buffer, printedText, pendings, begun>>
       ELSE shows' = {"status"} /\ PrintBuffer /\ pendings' = pendings \cup {t} /\ begun' = Append(begun, t)
    /\ UNCHANGED <<fed, toolsDone, stream, again>>

\* Variant with a fault: the calls stay in the table.
KeptPending == pendings

\* What stays in the table after a result.
LeftPending == {}

\* _handle_tool_result(): the result of one tool ends all that have begun.
ToolResult ==
    /\ EventComes
    /\ toolsDone' = toolsDone \o SetToSeq(pendings)
    /\ UNCHANGED begun
    /\ pendings' = LeftPending
    /\ UNCHANGED <<shows, buffer, printedText, fed, stream, again>>

\* The stream ends or fails, or an event after stop() is discarded.
StreamEnds ==
    /\ stream \in {"open", "stopped"} /\ EndShow /\ UNCHANGED <<events, again>>

\* request_stop()
Stop ==
    /\ stream = "open" /\ stream' = "stopped"
    /\ UNCHANGED <<shows, buffer, printedText, fed, pendings, toolsDone, begun, events, again>>

ShowNext ==
    \/ Reasoning \/ Token \/ ToolResult \/ StreamEnds \/ Stop
    \/ \E t \in ShownTools : ToolChunk(t)

ShowSpec == ShowInit /\ [][ShowNext]_displayTurnVars

-----------------------------------------------------------------------------
(* What is promised *)

ShowTypeOK ==
    /\ shows \subseteq {"status", "text"} /\ pendings \subseteq ShownTools /\ ToSet(begun) \subseteq ShownTools
    /\ events \in 0..MaxEvents /\ stream \in {"open", "stopped", "over"} /\ again \in BOOLEAN

\* Every text that came is shown or printed, once and in order; when the turn is over, however it ended,
\* all is printed and no display is left.
TextShown ==
    /\ printedText \o buffer = fed
    /\ stream = "over" => buffer = <<>> /\ shows = {}
    /\ buffer # <<>> => "text" \in shows

\* There is one live display at a time, unless the agent thinks again while its text is shown.
OneDisplay == again \/ Cardinality(shows) <= 1

\* A call that began is either under way or was counted once, when the next result came.
ToolsCounted ==
    \A t \in ShownTools :
        LET Times(s) == Cardinality({i \in DOMAIN s : s[i] = t})
        IN Times(begun) = Times(toolsDone) + IF t \in pendings THEN 1 ELSE 0

DisplayServes == TextShown /\ OneDisplay /\ ToolsCounted
=============================================================================
