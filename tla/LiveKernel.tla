---------------------------- MODULE LiveKernel ------------------------------
(***************************************************************************)
(* The packaged skill that works on a notebook and its live kernel         *)
(* (builtin/skills/en/jupyter-live-kernel/scripts/jupyter_live_kernel.py). *)
(*                                                                         *)
(* Every command is a process of its own, and a person may have the        *)
(* notebook open beside them.  An edit reads the notebook, changes its     *)
(* copy, asks whether the notebook is still the one it read and writes   *)
(* the copy.  A run reads the notebook, has cells executed by the kernel,  *)
(* over a websocket or, when that fails before anything was sent, over the *)
(* kernel's own sockets, and writes the outputs the way an edit does.  *)
(*                                                                         *)
(* An action is one request.  A cell is a code cell that is not empty; its *)
(* source is "old" or the edit that wrote it, its output the run and the   *)
(* source that gave it.  The server, the kernel and the person are not     *)
(* part of the repository.                                                 *)
(***************************************************************************)
EXTENDS Naturals, Sequences, SequencesExt, FiniteSets

CONSTANTS
    CellEdits,  \* edit commands
    CellRuns,   \* execute with a cell id, and the outputs saved
    RunAlls,    \* run-all with the outputs saved
    Cells,      \* cells of the notebook at first, in their order
    EditOf      \* of an edit: what it does, and with which cell

Runners  == CellRuns \cup RunAlls
Commands == CellEdits \cup Runners

ASSUME LiveKernelAssumption ==
    /\ IsFiniteSet(Commands) /\ Cells \in Seq(STRING) /\ CellEdits \cap Runners = {}
    /\ EditOf \in [Commands -> [kind : {"replace", "insert", "delete", "move", "clear", "run"}, id : STRING]]

VARIABLES
    notebook,  \* the cells in the file
    puts,      \* history: the commands that wrote the file; its length is last_modified
    command,   \* of a command: where it is, its copy of the cells, which writes the copy has seen, the cell it runs,
               \* the way it reaches the kernel, and what it has heard of the run
    queued,    \* requests the kernel has not executed: <<command, cell>>
    executed,  \* history: how often the kernel ran a cell for a command
    torn,      \* history: commands whose request arrived although sending it failed
    halted,    \* history: runs of all cells that stopped at a cell that failed
    overwritten, \* history: commands whose write was overwritten by one that had not seen it
    putBetween   \* history: commands that wrote while another was between its question and its write

kernelVars == <<notebook, puts, command, queued, executed, torn, halted, overwritten, putBetween>>

NoCells == <<>>
NoCommand == [at |-> "idle", cells |-> NoCells, seen |-> 0, cell |-> 0, way |-> "websocket", heard |-> {}]
CellNames == Range(Cells) \cup CellEdits

KernelInit ==
    /\ notebook = [i \in DOMAIN Cells |-> [id |-> Cells[i], source |-> "old", output |-> <<>>]]
    /\ puts = <<>>
    /\ command = [c \in Commands |-> NoCommand]
    /\ queued = {} /\ executed = [c \in Runners |-> [n \in CellNames |-> 0]]
    /\ torn = {} /\ halted = {} /\ overwritten = {} /\ putBetween = {}

Position(cells, name) == {i \in DOMAIN cells : cells[i].id = name}
KernelAt(c, place) == command[c].at = place

-----------------------------------------------------------------------------
(* The notebook file. *)

\* What an edit makes of the cells.
Edited(c, cells) ==
    LET name == EditOf[c].id
        i    == CHOOSE j \in DOMAIN cells : cells[j].id = name
    IN CASE EditOf[c].kind = "insert"  -> InsertAt(cells, 1, [id |-> c, source |-> c, output |-> <<>>])
         [] EditOf[c].kind = "replace" -> [cells EXCEPT ![i].source = c]
         [] EditOf[c].kind = "delete"  -> RemoveAt(cells, i)
         [] EditOf[c].kind = "move"    -> InsertAt(RemoveAt(cells, i), 1, cells[i])
         [] EditOf[c].kind = "clear"   -> [cells EXCEPT ![i].output = <<>>]

\* An edit reads the notebook and changes its copy; it ends if there is
\* nothing to change, or no such cell.
LoadEdit(c) ==
    /\ KernelAt(c, "idle")
    /\ LET found   == EditOf[c].kind = "insert" \/ Position(notebook, EditOf[c].id) # {}
           changed == found /\ Edited(c, notebook) # notebook
       IN command' = [command EXCEPT ![c].at = IF changed THEN "changed" ELSE "over",
                                     ![c].cells = IF changed THEN Edited(c, notebook) ELSE NoCells,
                                     ![c].seen = Len(puts)]
    /\ UNCHANGED <<notebook, puts, queued, executed, torn, halted, overwritten, putBetween>>

\* Variant with a fault: nobody asks.
UnmovedUnasked(c) == TRUE

\* Is the notebook still the one that was read?
Unmoved(c) == command[c].seen = Len(puts)

CheckStamp(c) ==
    /\ KernelAt(c, "changed")
    /\ command' = [command EXCEPT ![c] = IF Unmoved(c) THEN [@ EXCEPT !.at = "checked"]
           ELSE [NoCommand EXCEPT !.at = "over"]]
    /\ UNCHANGED <<notebook, puts, queued, executed, torn, halted, overwritten, putBetween>>

\* The outputs of other commands that a run of all cells, which writes every
\* cell's outputs, puts back to those it found when it began.
Reverted(c) ==
    {w \in Commands : \E i \in DOMAIN notebook :
        /\ c \in RunAlls /\ i \in DOMAIN command[c].cells
        /\ notebook[i].output # command[c].cells[i].output
        /\ notebook[i].output # <<>> /\ notebook[i].output[1] = w
        /\ \/ command[c].cells[i].output = <<>>
           \/ command[c].cells[i].output[1] # c}

Put(c) ==
    /\ KernelAt(c, "checked")
    /\ notebook' = command[c].cells
    /\ puts' = Append(puts, c)
    /\ overwritten' = overwritten \cup Range(SubSeq(puts, command[c].seen + 1, Len(puts))) \cup Reverted(c)
    /\ putBetween' = IF \E d \in Commands \ {c} : KernelAt(d, "checked") THEN putBetween \cup {c} ELSE putBetween
    /\ command' = [command EXCEPT ![c] = [NoCommand EXCEPT !.at = "over"]]
    /\ UNCHANGED <<queued, executed, torn, halted>>

\* A request to the server fails.
Refused(c) ==
    /\ \E place \in {"changed", "checked", "ran"} : KernelAt(c, place)
    /\ command' = [command EXCEPT ![c] = [NoCommand EXCEPT !.at = "over"]]
    /\ UNCHANGED <<notebook, puts, queued, executed, torn, halted, overwritten, putBetween>>

-----------------------------------------------------------------------------
(* Running cells. *)

\* The first cell to run and those after it: one cell, or all of them.
LoadRun(c) ==
    /\ KernelAt(c, "idle")
    /\ LET first == IF c \in RunAlls THEN 1 ELSE CHOOSE i \in 0..Len(notebook) :
                        IF Position(notebook, EditOf[c].id) = {} THEN i = 0 ELSE i \in Position(notebook, EditOf[c].id)
           place == IF first \in DOMAIN notebook THEN "asking" ELSE IF c \in RunAlls THEN "ran" ELSE "over"
       IN command' = [command EXCEPT ![c].at = place,
                                     ![c].cells = IF first \in DOMAIN notebook THEN notebook ELSE NoCells,
                                     ![c].cell = IF first \in DOMAIN notebook THEN first ELSE 0]
    /\ UNCHANGED <<notebook, puts, queued, executed, torn, halted, overwritten, putBetween>>

RunRequest(c) == <<c, command[c].cells[command[c].cell].id>>

SendRequest(c) ==
    /\ KernelAt(c, "asking")
    /\ queued' = queued \cup {RunRequest(c)}
    /\ command' = [command EXCEPT ![c].at = "waiting", ![c].heard = {}]
    /\ UNCHANGED <<notebook, puts, executed, torn, halted, overwritten, putBetween>>

\* Variant with a fault: what was sent is sent again.
FallBackAnyway(c, sent) ==
    IF command[c].way = "websocket"
      THEN [command[c] EXCEPT !.at = "asking", !.way = "zmq", !.heard = {}]
      ELSE [NoCommand EXCEPT !.at = "over"]

\* After a failure: the other way, if nothing was sent as far as is known.
FallBack(c, sent) ==
    IF command[c].way = "websocket" /\ ~sent
      THEN [command[c] EXCEPT !.at = "asking", !.way = "zmq", !.heard = {}]
      ELSE [NoCommand EXCEPT !.at = "over"]

\* The kernel is busy for too long, cannot be connected to, or the
\* connection fails in send(), by then possibly with the request across.
FailToSend(c) ==
    /\ KernelAt(c, "asking")
    /\ command' = [command EXCEPT ![c] = FallBack(c, FALSE)]
    /\ \/ UNCHANGED <<queued, torn>>
       \/ /\ command[c].way = "websocket"
          /\ queued' = queued \cup {RunRequest(c)} /\ torn' = torn \cup {c}
    /\ UNCHANGED <<notebook, puts, executed, halted, overwritten, putBetween>>

\* The kernel executes a request; a second copy of it that arrives later
\* is another request.
Execute(r) ==
    /\ r \in queued
    /\ queued' = queued \ {r}
    /\ executed' = [executed EXCEPT ![r[1]][r[2]] = @ + 1]
    /\ command' = IF KernelAt(r[1], "waiting") /\ RunRequest(r[1]) = r
                    THEN [command EXCEPT ![r[1]].heard = @ \cup {"run"}] ELSE command
    /\ UNCHANGED <<notebook, puts, torn, halted, overwritten, putBetween>>

\* The reply and the idle status come on channels of their own.  The wait
\* over the websocket ends with an idle status that comes after the reply:
\* when it came first, the deadline ends it.
Finishes(c, what) ==
    IF command[c].way = "websocket" THEN what = "idle" /\ "reply" \in command[c].heard
    ELSE {"idle", "reply"} \subseteq command[c].heard \cup {what}

\* The outputs of a cell that ran; then the next one, unless it failed.
TakeOutput(c, ok) ==
    LET i    == command[c].cell
        last == c \in CellRuns \/ i = Len(command[c].cells) \/ ~ok
    IN [command[c] EXCEPT !.cells = [@ EXCEPT ![i].output = <<c, command[c].cells[i].source>>],
                          !.at = IF last THEN "ran" ELSE "asking",
                          !.cell = IF last THEN i ELSE i + 1,
                          !.way = "websocket", !.heard = {}]

Hear(c, what) ==
    /\ KernelAt(c, "waiting") /\ "run" \in command[c].heard /\ what \notin command[c].heard
    /\ IF Finishes(c, what)
         THEN \E ok \in BOOLEAN :
                /\ command' = [command EXCEPT ![c] = TakeOutput(c, ok)]
                /\ halted' = IF ~ok /\ c \in RunAlls THEN halted \cup {c} ELSE halted
         ELSE command' = [command EXCEPT ![c].heard = @ \cup {what}] /\ UNCHANGED halted
    /\ UNCHANGED <<notebook, puts, queued, executed, torn, overwritten, putBetween>>

\* The deadline passes, or the connection is lost.
StopWaiting(c) ==
    /\ KernelAt(c, "waiting")
    /\ command' = [command EXCEPT ![c] = FallBack(c, TRUE)]
    /\ UNCHANGED <<notebook, puts, queued, executed, torn, halted, overwritten, putBetween>>

-----------------------------------------------------------------------------
(* Writing the outputs. *)

\* Variant with a fault: the source is not looked at.
SameCellsById(copy, latest) ==
    /\ Len(copy) = Len(latest)
    /\ \A i \in DOMAIN copy : copy[i].id = latest[i].id

\* Is every cell still the one that was run?
SameCells(copy, latest) ==
    /\ Len(copy) = Len(latest)
    /\ \A i \in DOMAIN copy : copy[i].id = latest[i].id /\ copy[i].source = latest[i].source

\* The notebook as it is now with the outputs: of all cells, or of the one
\* cell that bears the name.
WithOutputs(c) ==
    IF c \in RunAlls
      THEN [i \in DOMAIN notebook |-> [notebook[i] EXCEPT !.output = command[c].cells[i].output]]
      ELSE [i \in DOMAIN notebook |->
              IF notebook[i].id = EditOf[c].id
                THEN [notebook[i] EXCEPT !.output = command[c].cells[command[c].cell].output]
                ELSE notebook[i]]

LoadLatest(c) ==
    /\ KernelAt(c, "ran")
    /\ LET fits == IF c \in RunAlls THEN SameCells(command[c].cells, notebook)
                                    ELSE Position(notebook, EditOf[c].id) # {}
       IN command' = [command EXCEPT ![c] =
              IF fits THEN [NoCommand EXCEPT !.at = "changed", !.cells = WithOutputs(c), !.seen = Len(puts)]
              ELSE [NoCommand EXCEPT !.at = "over"]]
    /\ UNCHANGED <<notebook, puts, queued, executed, torn, halted, overwritten, putBetween>>

KernelNext ==
    \/ \E c \in CellEdits : LoadEdit(c)
    \/ \E c \in Commands : CheckStamp(c) \/ Put(c) \/ Refused(c)
    \/ \E c \in Runners : LoadRun(c) \/ SendRequest(c) \/ FailToSend(c) \/ StopWaiting(c) \/ LoadLatest(c)
    \/ \E c \in Runners, what \in {"reply", "idle"} : Hear(c, what)
    \/ \E r \in queued : Execute(r)

KernelSpec == KernelInit /\ [][KernelNext]_kernelVars

-----------------------------------------------------------------------------
KernelTypeOK ==
    LET Output == {<<>>} \cup (Runners \X (CellEdits \cup {"old"}))
        IsCells(s) == \A i \in DOMAIN s : /\ s[i].id \in CellNames /\ s[i].source \in CellEdits \cup {"old"}
                                          /\ s[i].output \in Output
    IN /\ IsCells(notebook) /\ puts \in Seq(Commands)
       /\ \A c \in Commands :
            /\ command[c].at \in {"idle", "changed", "checked", "asking", "waiting", "ran", "over"}
            /\ IsCells(command[c].cells) /\ command[c].seen \in 0..Len(puts)
            /\ command[c].cell \in 0..Len(command[c].cells)
            /\ command[c].way \in {"websocket", "zmq"} /\ command[c].heard \subseteq {"run", "reply", "idle"}
       /\ queued \subseteq Runners \X CellNames
       /\ \A c \in Runners : \A n \in CellNames : executed[c][n] \in Nat
       /\ torn \cup halted \subseteq Runners /\ overwritten \cup putBetween \subseteq Commands

\* A command never has the kernel run a cell twice, although it tries two
\* ways to reach it; except when sending failed after the request was across.
RunsOnce == \A c \in Runners : c \in torn \/ \A n \in CellNames : executed[c][n] <= 1

\* A run of all cells puts no output to a cell whose source is not the one
\* that gave it, whoever edits the notebook meanwhile.  (The run of one cell
\* does not look at the source again.)
OutputsFit ==
    \A c \in RunAlls : KernelAt(c, "checked") =>
        \A i \in DOMAIN command[c].cells :
            LET cell == command[c].cells[i]
            IN cell.output # <<>> /\ cell.output[1] = c => cell.output[2] = cell.source

\* What a command wrote is not overwritten by one that has not seen it;
\* except when it was written between the other's question and its write,
\* or by a run of all cells that stopped early and had outputs of cells it
\* did not reach.
WritesKept == \A w \in overwritten \ putBetween : w \in CellRuns /\ halted # {}

\* A notebook under several commands.
NotebookKept == RunsOnce /\ OutputsFit /\ WritesKept

-----------------------------------------------------------------------------
(***************************************************************************)
(* How a command of the builtin jupyter-live-kernel skill finds the kernel *)
(* it works on: the server (running servers, probes), the session (path,   *)
(* session id, kernel id), and the second and third look at the sessions   *)
(* that "variables" and "restart-run-all" take, while the user opens,      *)
(* closes and renames notebooks and gives them another kernel.             *)
(* "notebooks" reads sessions and workspaces one after the other.  What a  *)
(* run does to the notebook is above.                                     *)
(***************************************************************************)

CONSTANTS
    KernelTasks,        \* commands, each run once
    TaskOf,       \* [KernelTasks -> [op, port, path, session, kernel]]: what was typed; Unset where nothing was
    Hosts,        \* sequence of running servers (their ports)
    KernelIds,
    InPython,     \* kernels of Python
    FirstSessions,\* sequence of sessions [host, id, path, kernel]
    InTabs,       \* paths that a workspace has in a tab
    Unset,        \* nothing; also the path of a session without a notebook
    MaxMoves      \* bound on what the user does

VARIABLES
    host,      \* [Hosts -> "up" | "denied" | "down"]
    sessions,  \* what the servers list
    kernel,    \* [KernelIds -> [state, lives]]: lives counts its restarts
    task,      \* state of a command
    moves,
    executions,       \* history: what was executed, and where
    open       \* history: paths with a session ever since the last listing began

targetVars == <<host, sessions, kernel, task, moves, executions, open>>

Ports == Range(Hosts)
NoTarget == [host |-> Unset, id |-> Unset, path |-> Unset, kernel |-> Unset]
NewTask == [at |-> "start", host |-> Unset, target |-> NoTarget, first |-> NoTarget, restarted |-> Unset, listed |-> {}]

TargetInit ==
    /\ host \in [Ports -> {"up", "denied", "down"}]
    /\ sessions = FirstSessions
    /\ kernel = [k \in KernelIds |-> [state |-> "idle", lives |-> 0]]
    /\ task = [c \in KernelTasks |-> NewTask]
    /\ moves = 0 /\ executions = {} /\ open = {}

TaskAt(c, place) == task[c].at = place
SetTask(c, rec) == task' = [task EXCEPT ![c] = rec]
FailTask(c) == SetTask(c, [task[c] EXCEPT !.at = "failed"])
Stays == UNCHANGED <<host, sessions, kernel, moves, executions, open>>

-----------------------------------------------------------------------------
(* The server *)

\* Variant with a fault: the first that answers.
UsableFirst(up) == <<Head(up)>>

\* _select_server() without a port takes the only one that answers.
Usable(up) == up

\* The ports that _select_server() would return, as a sequence of at most one; with a port, the first
\* match that answers, unless it refuses the token.
ChosenServers(port) ==
    IF port # Unset
      THEN SelectSeq(Hosts, LAMBDA p : p = port /\ host[p] = "up")
      ELSE LET up == SelectSeq(Hosts, LAMBDA p : host[p] = "up")
           IN IF up = <<>> THEN <<>> ELSE IF Len(Usable(up)) > 1 THEN <<>> ELSE Usable(up)

SelectServer(c) ==
    LET chosen == ChosenServers(TaskOf[c].port)
    IN /\ TaskAt(c, "start")
       /\ IF chosen = <<>> THEN FailTask(c) /\ open' = open
          ELSE /\ SetTask(c, [task[c] EXCEPT !.host = Head(chosen),
                                             !.at = IF TaskOf[c].op = "notebooks" THEN "listing" ELSE "resolving"])
               /\ open' = IF TaskOf[c].op = "notebooks" THEN {s.path : s \in Range(sessions)} ELSE open
       /\ UNCHANGED <<host, sessions, kernel, moves, executions>>

-----------------------------------------------------------------------------
(* The session *)

\* Variant with a fault: the session that was found is the one.
ConsistentAnyway(s, path, k) == TRUE

\* _validate_target_consistency()
Consistent(s, path, k) ==
    /\ path # Unset /\ s.path # Unset => s.path = path
    /\ k # Unset /\ s.kernel # Unset => s.kernel = k

Listed(c) == SelectSeq(sessions, LAMBDA s : s.host = task[c].host)

\* _resolve_session(): the one session, or none.
Resolved(c, path, id, k) ==
    LET First(Is(_)) == LET found == SelectSeq(Listed(c), Is) IN IF found = <<>> THEN <<>> ELSE <<Head(found)>>
        Fits(found)  == SelectSeq(found, LAMBDA s : Consistent(s, path, k))
    IN CASE id # Unset -> Fits(First(LAMBDA s : s.id = id))
         [] id = Unset /\ k # Unset -> Fits(First(LAMBDA s : s.kernel = k))
         [] id = Unset /\ k = Unset /\ path # Unset ->
              LET found == SelectSeq(Listed(c), LAMBDA s : s.path = path)
              IN IF Len(found) > 1 THEN <<>> ELSE found
         [] OTHER -> <<>>

\* _resolve_kernel_target() with the given selectors; then at the place next, or failed.
ResolveTo(c, path, id, k, next, extra) ==
    LET found == Resolved(c, path, id, k)
    IN IF found = <<>> THEN FailTask(c)
       ELSE LET s == Head(found)
                kern == IF k # Unset THEN k ELSE s.kernel
            IN IF kern = Unset \/ ~extra[s] THEN FailTask(c)
               ELSE SetTask(c, [task[c] EXCEPT !.at = next, !.target = [s EXCEPT !.kernel = kern],
                                               !.first = IF task[c].first = NoTarget
                                                   THEN [s EXCEPT !.kernel = kern] ELSE @])

Again(c, next) ==
    LET t == task[c].target IN ResolveTo(c, t.path, t.id, t.kernel, next, [s \in Range(sessions) |-> TRUE])

\* The first look.  "variables" wants a Python kernel (_ensure_python_kernel), "rerun" a notebook (_require_notebook_session).
ResolveTask(c) ==
    LET w == TaskOf[c]
    IN /\ TaskAt(c, "resolving")
       /\ ResolveTo(c, w.path, w.session, w.kernel,
                  CASE w.op = "execute" -> "sending" [] w.op = "restart" -> "restarting" [] OTHER -> "again",
                  [s \in Range(sessions) |-> /\ w.op = "variables" => s.kernel \in InPython
                                             /\ w.op = "rerun" => s.path # Unset])
       /\ Stays

\* list_variables() and preview_variable() ask by _execute_request(), and restart_and_run_all() restarts by
\* restart_kernel(), which both look again.
ResolveAgain(c) ==
    /\ TaskAt(c, "again") /\ Again(c, IF TaskOf[c].op = "variables" THEN "sending" ELSE "restarting")
    /\ Stays

\* restart_kernel() asks the server to.
RestartKernel(c) ==
    LET k == task[c].target.kernel
    IN /\ TaskAt(c, "restarting")
       /\ \/ kernel[k].state = "gone" /\ FailTask(c) /\ kernel' = kernel
          \/ /\ kernel[k].state # "gone"
             /\ kernel' = [kernel EXCEPT ![k] = [state |-> "starting", lives |-> @.lives + 1]]
             /\ SetTask(c, [task[c] EXCEPT !.at = "waiting", !.restarted = k])
       /\ UNCHANGED <<host, sessions, moves, executions, open>>

\* _wait_for_kernel_idle(): also a kernel that is not found is waited for.
WaitIdle(c) ==
    /\ TaskAt(c, "waiting")
    /\ \/ /\ kernel[task[c].target.kernel].state = "idle"
          /\ SetTask(c, [task[c] EXCEPT !.at = IF TaskOf[c].op = "rerun" THEN "running" ELSE "done"])
       \/ FailTask(c)  \* the time is over
    /\ Stays

\* Variant with a fault: the notebook is looked up by its path.
LookForRunByPath(c) == ResolveTo(c, task[c].target.path, Unset, Unset, "sending", [s \in Range(sessions) |-> TRUE])

\* run_all_cells() looks once more.
LookForRun(c) == Again(c, "sending")

ResolveForRun(c) == TaskAt(c, "running") /\ LookForRun(c) /\ Stays

\* The request is sent to the kernel.
Send(c) ==
    LET t == task[c].target
    IN /\ TaskAt(c, "sending")
       /\ IF kernel[t.kernel].state = "gone" THEN FailTask(c) /\ executions' = executions
          ELSE /\ SetTask(c, [task[c] EXCEPT !.at = "done"])
               /\ executions' = executions \cup {[by |-> c, target |-> t, lives |-> kernel[t.kernel].lives]}
       /\ UNCHANGED <<host, sessions, kernel, moves, open>>

-----------------------------------------------------------------------------
(* "notebooks": combined_open_notebooks() *)

Item(p, live) == [path |-> p, live |-> live]

ListSessions(c) ==
    /\ TaskAt(c, "listing")
    /\ SetTask(c, [task[c] EXCEPT !.at = "tabs", !.listed = {Item(s.path, TRUE) :
           s \in {x \in Range(Listed(c)) : x.path # Unset}}])
    /\ Stays

\* list_workspaces(): the tabs whose notebook is there.
ListWorkspaces(c) ==
    /\ TaskAt(c, "tabs")
    /\ LET live == {i.path : i \in task[c].listed}
       IN SetTask(c, [task[c] EXCEPT !.at = "done", !.listed = @ \cup {Item(p, FALSE) : p \in InTabs \ live}])
    /\ Stays

-----------------------------------------------------------------------------
(* The user, and the servers *)

UserMoves == moves < MaxMoves /\ moves' = moves + 1

\* The notebook of a session is given another kernel, is renamed, or is closed.
Reopen(i) ==
    /\ UserMoves
    /\ \/ \E k \in KernelIds : sessions' = [sessions EXCEPT ![i].kernel = k] /\ k # sessions[i].kernel
              /\ kernel[k].state # "gone"
       \/ \E p \in InTabs : sessions' = [sessions EXCEPT ![i].path = p] /\ p # sessions[i].path
       \/ sessions' = RemoveAt(sessions, i)
    /\ open' = open \cap {s.path : s \in Range(sessions')}
    /\ UNCHANGED <<host, kernel, task, executions>>

KernelGoes(k) ==
    /\ UserMoves /\ kernel[k].state # "gone" /\ kernel' = [kernel EXCEPT ![k].state = "gone"]
    /\ UNCHANGED <<host, sessions, task, executions, open>>

KernelReady(k) ==
    /\ kernel[k].state = "starting" /\ kernel' = [kernel EXCEPT ![k].state = "idle"]
    /\ UNCHANGED <<host, sessions, task, moves, executions, open>>

TargetNext ==
    \/ \E c \in KernelTasks : \/ SelectServer(c) \/ ResolveTask(c) \/ ResolveAgain(c) \/ RestartKernel(c) \/ WaitIdle(c)
                              \/ ResolveForRun(c) \/ Send(c) \/ ListSessions(c) \/ ListWorkspaces(c)
    \/ \E i \in DOMAIN sessions : Reopen(i)
    \/ \E k \in KernelIds : KernelGoes(k) \/ KernelReady(k)

TargetSpec == TargetInit /\ [][TargetNext]_targetVars

-----------------------------------------------------------------------------
(* What is promised *)

TargetTypeOK ==
    /\ host \in [Ports -> {"up", "denied", "down"}] /\ moves \in 0..MaxMoves
    /\ \A i \in DOMAIN sessions : sessions[i].host \in Ports /\ sessions[i].kernel \in KernelIds \cup {Unset}
    /\ \A c \in KernelTasks : /\ task[c].at \in {"start", "resolving", "again", "restarting", "waiting",
                                                 "running", "sending", "listing", "tabs", "done", "failed"}
                              /\ task[c].host \in Ports \cup {Unset}

\* A command works on the server, session and kernel that were typed, as far as they were; a session
\* without a notebook agrees with every path.
TypedIsMet ==
    \A r \in executions :
        LET w == TaskOf[r.by]
        IN /\ w.port # Unset => r.target.host = w.port
           /\ w.session # Unset => r.target.id = w.session
           /\ w.kernel # Unset => r.target.kernel = w.kernel
           /\ w.path # Unset /\ w.op # "rerun" => r.target.path \in {w.path, Unset}

\* Nothing is guessed: of several servers, or several sessions of a path, none is taken.
NothingGuessed ==
    \A c \in KernelTasks : task[c].host # Unset /\ TaskOf[c].port = Unset => \A p \in Ports : host[p] = "up" =>
        p = task[c].host

\* What looks two or three times works on one kernel; a fresh run is one of the kernel that was restarted.
OneKernel ==
    \A r \in executions : /\ r.target.kernel = task[r.by].first.kernel
                          /\ TaskOf[r.by].op = "rerun" => task[r.by].restarted = r.target.kernel /\ r.lives > 0

\* Variables are asked of Python kernels.
PythonOnly == \A r \in executions : TaskOf[r.by].op = "variables" => r.target.kernel \in InPython

\* A notebook that had a session all the time is listed as live, and no notebook is listed twice.
OpenAreListed ==
    \A c \in KernelTasks : TaskOf[c].op = "notebooks" /\ TaskAt(c, "done") =>
        /\ \A s \in Range(Listed(c)) : s.path \in open \ {Unset} => Item(s.path, TRUE) \in task[c].listed
        /\ \A i, j \in task[c].listed : i.path = j.path => i = j

TargetsHold == TypedIsMet /\ NothingGuessed /\ OneKernel /\ PythonOnly /\ OpenAreListed
=============================================================================
