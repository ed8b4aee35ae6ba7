------------------------------ MODULE ShellEnv ------------------------------
(***************************************************************************)
(* Commands run on the host and the .env file of the workspace             *)
(* (backends/local_shell.py, backends/bwrap_shell.py, runtime_env.py,      *)
(* builtin/tools/env_file.py).                                             *)
(*                                                                         *)
(* execute() reads the file anew for every command and puts the            *)
(* environment into one attribute of the backend; when there is no jail it *)
(* then replaces it by one whose virtual paths are translated, and the     *)
(* command gets what the attribute holds when it is spawned.  Commands of  *)
(* one agent run on several threads.  The jail is given up for good when   *)
(* it cannot be started.  A tool rewrites the file on the event loop.      *)
(*                                                                         *)
(* A value is its text, the number of quotes around it and whether there   *)
(* are blanks inside the innermost ones.                                   *)
(***************************************************************************)
EXTENDS Naturals, FiniteSets

CONSTANTS
    EnvKeys,    \* keys of the file
    EnvTexts,   \* what is inside all quotes and blanks
    MapsPaths,  \* _explicit_virtual_paths is off, virtual_mode on and the root not the host's
    Protected,  \* PROTECTED_ENV_KEYS and those with PROTECTED_ENV_PREFIXES
    Executions, \* calls of execute()
    EnvWrites,  \* calls of write_env_file()
    MergeOf,    \* do they keep the other keys?
    UpdateOf,   \* the keys they set
    ValueOf,    \* the value they set them to, as it is written
    RemoveOf,   \* the keys they remove
    FirstFile,  \* lines of the file at the beginning
    Exported    \* keys of these lines with "export " before them

NoValue == [text |-> "none", quotes |-> 0, blanks |-> FALSE]
EnvValues == [text : EnvTexts, quotes : Nat, blanks : BOOLEAN]

ASSUME ShellEnvAssumption ==
    /\ MapsPaths \in BOOLEAN
    /\ Protected \subseteq EnvKeys /\ Exported \subseteq EnvKeys /\ NoValue.text \notin EnvTexts
    /\ FirstFile \in [EnvKeys -> EnvValues \cup {NoValue}] /\ ValueOf \in [EnvWrites -> EnvValues]
    /\ \A w \in EnvWrites : MergeOf[w] \in BOOLEAN /\ UpdateOf[w] \subseteq EnvKeys /\ RemoveOf[w] \subseteq EnvKeys

VARIABLES
    envLine,    \* lines "KEY=value" of the file
    exportLine, \* lines "export KEY=value"
    envTorn,    \* is the file emptied and not yet written?
    shellEnv,   \* _env: the values of the file in it, are its paths translated?
    jail,       \* is there a _bwrap_path?
    execution,  \* of a command: where it is, what it was given and where, how often it
                \* was spawned, the values it should get
    envWrite,   \* of a write: where it is and the lines it writes
    intended,   \* history: value of each key as the tools' descriptions promise it
    unintended, \* history: keys that need not have it
    crowded,    \* history: commands that overlapped with others
    uninformed  \* history: commands that could not read the file, or met a write of it

envVars == <<envLine, exportLine, envTorn, shellEnv, jail, execution, envWrite, intended, unintended, crowded,
    uninformed>>

\* _parse_env_line: blanks around the line's value, then one pair of quotes.
Parsed(v) == IF v.quotes > 0 THEN [text |-> v.text, quotes |-> v.quotes - 1, blanks |-> v.blanks]
             ELSE [text |-> v.text, quotes |-> 0, blanks |-> FALSE]
\* What is left of a value that is parsed, written without quotes, and parsed again.
Layered(v) == v.quotes > 1 \/ (v.quotes = 1 /\ v.blanks)

\* parse_env_text: a line of either form; what the tool adds comes last.
ValueIn(lines, exports, k) == IF lines[k] # NoValue THEN Parsed(lines[k]) ELSE Parsed(exports[k])
FileValue(k) == ValueIn(envLine, exportLine, k)

\* resolve_local_execute_env: the file adds to the environment of the process,
\* except the protected keys; when it cannot be read it adds nothing.
WorkspaceEnv(readable) == [k \in EnvKeys |-> IF readable /\ ~envTorn /\ k \notin Protected THEN FileValue(k) ELSE NoValue]

ExecAt(x, place) == execution[x].at = place
InExecute(x)     == execution[x].at \notin {"idle", "over"}

ShellInit ==
    /\ envLine = [k \in EnvKeys |-> IF k \in Exported THEN NoValue ELSE FirstFile[k]]
    /\ exportLine = [k \in EnvKeys |-> IF k \in Exported THEN FirstFile[k] ELSE NoValue]
    /\ envTorn = FALSE /\ jail \in BOOLEAN
    /\ shellEnv = [values |-> [k \in EnvKeys |-> NoValue], mapped |-> FALSE]
    /\ execution = [x \in Executions |-> [at |-> "idle", given |-> shellEnv, jailed |-> FALSE, spawned |-> 0,
                                          due |-> [k \in EnvKeys \ Protected |-> NoValue]]]
    /\ envWrite = [w \in EnvWrites |-> [at |-> "idle", lines |-> envLine, exports |-> exportLine]]
    /\ intended = [k \in EnvKeys |-> FileValue(k)] /\ unintended = {} /\ crowded = {} /\ uninformed = {}

-----------------------------------------------------------------------------
(***************************************************************************)
(* Commands.                                                               *)
(***************************************************************************)
fileVars == <<envLine, exportLine, envTorn, envWrite, intended, unintended>>

\* _refresh_execute_env
Refresh(x, place) ==
    \E readable \in BOOLEAN :
        /\ shellEnv' = [values |-> WorkspaceEnv(readable), mapped |-> FALSE]
        /\ uninformed' = IF readable /\ ~envTorn THEN uninformed ELSE uninformed \cup {x}
        /\ execution' = [execution EXCEPT ![x].at = place,
                             ![x].due = IF ExecAt(x, "idle") THEN [k \in EnvKeys \ Protected |-> intended[k]] ELSE @]

BeginExecute(x) ==
    /\ ExecAt(x, "idle")
    /\ Refresh(x, "refreshed")
    /\ LET others == {y \in Executions \ {x} : InExecute(y)}
       IN crowded' = IF others = {} THEN crowded ELSE crowded \cup others \cup {x}
    /\ UNCHANGED <<fileVars, jail>>

\* subprocess.run in the jail; FileNotFoundError gives the jail up and runs the
\* command like any other: with a refresh of its own.
RunInJail(x) ==
    /\ ExecAt(x, "refreshed") /\ jail
    /\ execution' = [execution EXCEPT ![x].at = "jail"]
    /\ UNCHANGED <<fileVars, shellEnv, jail, crowded, uninformed>>

JailRuns(x) ==
    /\ ExecAt(x, "jail")
    /\ execution' = [execution EXCEPT ![x].at = "over", ![x].given = shellEnv, ![x].jailed = TRUE, ![x].spawned = @ + 1]
    /\ UNCHANGED <<fileVars, shellEnv, jail, crowded, uninformed>>

JailIsGone(x) ==
    /\ ExecAt(x, "jail")
    /\ jail' = FALSE
    /\ Refresh(x, "host")
    /\ UNCHANGED <<fileVars, crowded>>

\* Without a jail, the superclass begins with another refresh.
RunOnHost(x) ==
    /\ ExecAt(x, "refreshed") /\ ~jail
    /\ Refresh(x, "host")
    /\ UNCHANGED <<fileVars, jail, crowded>>

\* Variant with a fault: the paths of the environment are left virtual.
VirtualEnv(env) == env

MappedEnv(env) == [values |-> env.values, mapped |-> TRUE]

\* map_virtual_paths_in_env reads the attribute and writes it.  A backend whose
\* paths are explicit, or those of the host, leaves out this step.
MapEnv(x) ==
    /\ ExecAt(x, "host") /\ MapsPaths
    /\ execution' = [execution EXCEPT ![x].at = "mapping", ![x].given = MappedEnv(shellEnv)]
    /\ UNCHANGED <<fileVars, shellEnv, jail, crowded, uninformed>>

PutEnv(x) ==
    /\ ExecAt(x, "mapping")
    /\ shellEnv' = execution[x].given
    /\ execution' = [execution EXCEPT ![x].at = "mapped"]
    /\ UNCHANGED <<fileVars, jail, crowded, uninformed>>

HostRuns(x) ==
    /\ ExecAt(x, IF MapsPaths THEN "mapped" ELSE "host")
    /\ execution' = [execution EXCEPT ![x].at = "over", ![x].given = shellEnv, ![x].spawned = @ + 1]
    /\ UNCHANGED <<fileVars, shellEnv, jail, crowded, uninformed>>

-----------------------------------------------------------------------------
(***************************************************************************)
(* write_env_file.                                                         *)
(***************************************************************************)
Updated(w, k) == k \in UpdateOf[w] \ RemoveOf[w]

\* Variant with a fault: the keys that are not updated are kept in any case.
KeepsRemoved(w, k, readable) == readable /\ MergeOf[w]

\* The lines read from the file; a read that fails counts as an empty file.
Keeps(w, k, readable) == readable /\ MergeOf[w] /\ k \notin RemoveOf[w]

\* The file is read and, in the same stride of the event loop, opened for writing.
BeginEnvWrite(w) ==
    /\ envWrite[w].at = "idle" /\ ~envTorn
    /\ \E readable \in BOOLEAN :
         /\ envWrite' = [envWrite EXCEPT ![w] =
              [at |-> "open",
               lines |-> [k \in EnvKeys |-> IF Updated(w, k) THEN ValueOf[w] ELSE IF Keeps(w, k, readable)
                   THEN Parsed(envLine[k]) ELSE NoValue],
               exports |-> [k \in EnvKeys |-> IF readable /\ MergeOf[w] THEN Parsed(exportLine[k]) ELSE NoValue]]]
         /\ unintended' = unintended \cup {k \in EnvKeys :
              IF Updated(w, k) THEN Parsed(ValueOf[w]) # ValueOf[w]
              ELSE /\ MergeOf[w]
                   /\ IF k \in RemoveOf[w] THEN exportLine[k] # NoValue
                      ELSE ~readable \/ Layered(envLine[k]) \/ Layered(exportLine[k])}
    /\ intended' = [k \in EnvKeys |-> IF Updated(w, k) THEN ValueOf[w]
           ELSE IF MergeOf[w] /\ k \notin RemoveOf[w] THEN intended[k] ELSE NoValue]
    /\ envTorn' = TRUE
    /\ uninformed' = uninformed \cup {x \in Executions : InExecute(x)}
    /\ UNCHANGED <<envLine, exportLine, shellEnv, jail, execution, crowded>>

EndEnvWrite(w) ==
    /\ envWrite[w].at = "open"
    /\ envLine' = envWrite[w].lines /\ exportLine' = envWrite[w].exports /\ envTorn' = FALSE
    /\ envWrite' = [envWrite EXCEPT ![w].at = "over"]
    /\ UNCHANGED <<shellEnv, jail, execution, intended, unintended, crowded, uninformed>>

ShellNext ==
    \/ \E x \in Executions : \/ BeginExecute(x) \/ RunInJail(x) \/ JailRuns(x) \/ JailIsGone(x) \/ RunOnHost(x)
                             \/ MapEnv(x) \/ PutEnv(x) \/ HostRuns(x)
    \/ \E w \in EnvWrites : BeginEnvWrite(w) \/ EndEnvWrite(w)

ShellSpec == ShellInit /\ [][ShellNext]_envVars

-----------------------------------------------------------------------------
(***************************************************************************)
(* What a user of the shell may rely on.                                   *)
(***************************************************************************)
Spawned(x) == ExecAt(x, "over")

ShellTypeOK ==
    /\ \A x \in Executions : /\ execution[x].at \in {"idle", "refreshed", "jail", "host", "mapping", "mapped", "over"}
                             /\ execution[x].spawned \in 0..1 /\ execution[x].jailed \in BOOLEAN
    /\ \A w \in EnvWrites : envWrite[w].at \in {"idle", "open", "over"}
    /\ envTorn \in BOOLEAN /\ jail \in BOOLEAN /\ shellEnv.mapped \in BOOLEAN
    /\ unintended \subseteq EnvKeys /\ crowded \subseteq Executions /\ uninformed \subseteq Executions

\* A command outside the jail gets host paths, if the backend maps them, and one
\* in the jail virtual ones, also when the jail was given up under it
\* (bwrap_shell.py:242) -- unless commands of other threads used the same
\* attribute meanwhile.
EnvFits ==
    \A x \in Executions \ crowded :
        Spawned(x) => (execution[x].given.mapped <=> MapsPaths /\ ~execution[x].jailed)

\* "Written keys are injected into subsequent shell/sandbox execute": a command
\* that read the file, with no write and no other command on its way, has each
\* key as the writes before it left it.
EnvFollows ==
    \A x \in Executions \ (crowded \cup uninformed) :
        Spawned(x) => \A k \in EnvKeys \ (Protected \cup unintended) :
            execution[x].given.values[k] = execution[x].due[k]

\* "existing keys are preserved; removed keys are dropped": holds of the file
\* after any writes, unless one could not read it, a value was set in quotes, a
\* kept one was quoted twice or with blanks inside, or a key to remove was
\* exported.
FileKeeps == ~envTorn => \A k \in EnvKeys \ unintended : FileValue(k) = intended[k]

ShellHolds == EnvFits /\ EnvFollows /\ FileKeeps
=============================================================================
