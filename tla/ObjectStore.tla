---------------------------- MODULE ObjectStore ----------------------------
(***************************************************************************)
(* Files of a workspace in an object store                                 *)
(* (backends/cloud_storage_base.py with the primitives of S3Backend).      *)
(*                                                                         *)
(* The store knows keys, not directories.  A path is the sequence of its   *)
(* names; the object of a file is at its path, the marker of a directory   *)
(* at its path followed by an empty name ("src/" is src and nothing after  *)
(* the slash).  What is below a path are the keys it is a proper prefix    *)
(* of.  The content of a file is the set of operations whose text is in    *)
(* it.                                                                     *)
(*                                                                         *)
(* Every operation runs on a thread of its own and is a sequence of        *)
(* requests to the store.  An action is one request.  A request may fail,  *)
(* one that writes also after it has taken effect, and ends its operation  *)
(* where it is.                                                            *)
(***************************************************************************)
EXTENDS Naturals, Sequences, FiniteSets, SequencesExt

CONSTANTS
    FileOps,   \* operations
    KindOf,    \* kind of an operation
    Tops,      \* names at the root
    Inner      \* names below

FileKinds == {"write", "edit", "force", "upload", "delete", "mkdir", "move"}
FilePaths == {<<t>> : t \in Tops} \cup {<<t, l>> : t \in Tops, l \in Inner}
NoName == ""
Marker(p) == p \o <<NoName>>
ObjectKeys == Seq(Tops \cup Inner \cup {NoName})

ASSUME ObjectAssumption == KindOf \in [FileOps -> FileKinds] /\ NoName \notin Tops \cup Inner

VARIABLES
    objects,    \* the objects and their contents
    fileOp,     \* of an operation: where it is (idle, at a request, or its end: ok, failed), its path and,
                \* of a move, dest, what it has read, the keys it has still to treat, and as history of
                \* a move or a delete the objects when it began
    counted,    \* history: operations whose text callers count on
    overlapped  \* history: have operations on related paths been under way together?

objectVars == <<objects, fileOp, counted, overlapped>>

Ends    == {"ok", "failed"}
Resting == {"idle"} \cup Ends
NewOp   == [at |-> "idle", path |-> <<>>, dest |-> <<>>, held |-> {}, todo |-> <<>>, before |-> <<>>]

ObjectTypeOK ==
    /\ DOMAIN objects \subseteq ObjectKeys /\ <<>> \notin DOMAIN objects
    /\ \A k \in DOMAIN objects : objects[k] \subseteq FileOps
    /\ \A a \in FileOps :
          /\ {fileOp[a].path, fileOp[a].dest} \subseteq FilePaths \cup {<<>>}
          /\ fileOp[a].at \in Resting \cup {"check", "put", "reread", "get", "replace", "dest", "below", "source",
                                         "list", "drop", "copy", "parts"}
          /\ fileOp[a].held \subseteq FileOps
          /\ ToSet(fileOp[a].todo) \subseteq ObjectKeys
    /\ counted \subseteq FileOps
    /\ overlapped \in BOOLEAN

ObjectInit ==
    /\ objects = <<>> /\ counted = {} /\ overlapped = FALSE
    /\ fileOp = [a \in FileOps |-> NewOp]

-----------------------------------------------------------------------------
With(k, text) == [x \in DOMAIN objects \cup {k} |-> IF x = k THEN text ELSE objects[x]]
Without(k)    == [x \in DOMAIN objects \ {k} |-> objects[x]]
There(k)      == k \in DOMAIN objects
Text(k)       == IF There(k) THEN objects[k] ELSE {}

\* Variant with a fault: markers are passed over, as grep does.
BelowFiles(p) == {k \in DOMAIN objects : IsStrictPrefix(p, k) /\ Last(k) # NoName}

\* _iter_prefix_object_keys
Below(p) == {k \in DOMAIN objects : IsStrictPrefix(p, k)}

\* relative_virtual_path, and the place _move_prefix makes of it.  Of the
\* marker of src nothing is left: its place is the destination itself.
MovedTo(k, src, dest) ==
    LET rel == SubSeq(k, Len(src) + 1, Len(k)) IN IF rel = <<NoName>> THEN dest ELSE dest \o rel

FileStage(a)   == fileOp[a].at
Path(a) == fileOp[a].path
Dest(a) == fileOp[a].dest

\* The operation is at l next; one that has ended is forgotten.
To(a, l)   == IF l \in Ends THEN [NewOp EXCEPT !.at = l] ELSE [fileOp[a] EXCEPT !.at = l]
Proceeds(a, l) == fileOp' = [fileOp EXCEPT ![a] = To(a, l)]

\* Operations whose paths contain one another.
Related(p, q)  == IsPrefix(p, q) \/ IsPrefix(q, p)
Touches(a, ps) == \E p \in {Path(a), Dest(a)} \ {<<>>}, q \in ps : Related(p, q)

FirstRequest == [write |-> "check", force |-> "check", delete |-> "check", edit |-> "get",
                 upload |-> "put", mkdir |-> "parts", move |-> "dest"]

\* A call.  A move to the same path does nothing and one below its source is
\* refused, before any request.
BeginFileOp(a) ==
    /\ FileStage(a) = "idle"
    /\ \E p \in FilePaths, d \in FilePaths \cup {<<>>} :
          /\ (KindOf[a] = "move") = (d # <<>>)
          /\ ~IsPrefix(p, d)
          /\ fileOp' = [fileOp EXCEPT ![a] =
                [NewOp EXCEPT !.at = FirstRequest[KindOf[a]], !.path = p, !.dest = d,
                              !.todo = IF KindOf[a] = "mkdir" THEN [i \in 1..Len(p) |-> SubSeq(p, 1, i)] ELSE <<>>,
                              !.before = IF KindOf[a] \in {"move", "delete"} THEN objects ELSE <<>>]]
          /\ overlapped' = (overlapped \/ \E b \in FileOps :
                                 FileStage(b) \notin Resting /\ Touches(b, {p, d} \ {<<>>}))
    /\ UNCHANGED <<objects, counted>>

\* Where a failure leads: a forced write that could not create the file reads
\* it, whatever the reason.
Failing(a) == IF KindOf[a] = "force" /\ FileStage(a) \in {"check", "put"} THEN "reread" ELSE "failed"

\* A request fails.
FailFileOp(a) ==
    /\ FileStage(a) \notin Resting
    /\ Proceeds(a, Failing(a))
    /\ UNCHANGED <<objects, counted, overlapped>>

-----------------------------------------------------------------------------
\* write() is for files that do not exist; delete_path() is of a file or else
\* of what is below.
CheckFile(a) ==
    /\ FileStage(a) = "check"
    /\ Proceeds(a, IF KindOf[a] = "delete" THEN IF There(Path(a)) THEN "drop" ELSE "list"
               ELSE IF There(Path(a)) THEN Failing(a) ELSE "put")
    /\ UNCHANGED <<objects, counted, overlapped>>

\* backend_write_force(): the text that an edit will replace.
Reread(a) ==
    /\ FileStage(a) = "reread"
    /\ fileOp' = [fileOp EXCEPT ![a] =
          IF ~There(Path(a)) THEN To(a, "failed")
          ELSE IF Text(Path(a)) = {a} THEN To(a, "ok")
          ELSE [To(a, "get") EXCEPT !.held = Text(Path(a))]]
    /\ counted' = IF Text(Path(a)) = {a} THEN counted \cup {a} ELSE counted
    /\ UNCHANGED <<objects, overlapped>>

\* edit(): the new text, if the old has what is to be replaced.
GetFile(a) ==
    LET text  == Text(Path(a))
        found == There(Path(a)) /\ fileOp[a].held \subseteq text IN
    /\ FileStage(a) = "get"
    /\ fileOp' = [fileOp EXCEPT ![a] =
          IF found THEN [To(a, "replace") EXCEPT !.held = (text \ fileOp[a].held) \cup {a}] ELSE To(a, "failed")]
    /\ UNCHANGED <<objects, counted, overlapped>>

\* The object is put.  What it replaces is given up by an upload or a forced
\* write, kept by an edit.
PutFile(a) ==
    LET left == counted \ (IF KindOf[a] \in {"upload", "force"} THEN Text(Path(a)) ELSE {}) IN
    /\ FileStage(a) \in {"put", "replace"}
    /\ objects' = With(Path(a), IF FileStage(a) = "put" THEN {a} ELSE fileOp[a].held)
    /\ \/ Proceeds(a, "ok") /\ counted' = left \cup {a}
       \/ Proceeds(a, Failing(a)) /\ counted' = left
    /\ UNCHANGED overlapped

-----------------------------------------------------------------------------
\* mkdir_path(): level by level, unless a file is in the way.
MakeLevel(a) ==
    LET todo == fileOp[a].todo
        p    == Head(todo) IN
    /\ FileStage(a) = "parts"
    /\ \/ /\ There(p)
          /\ Proceeds(a, "failed")
          /\ UNCHANGED objects
       \/ /\ ~There(p)
          /\ objects' = With(Marker(p), {})
          /\ fileOp' = [fileOp EXCEPT ![a] =
                IF p = Path(a) THEN To(a, "ok") ELSE [@ EXCEPT !.todo = Tail(todo)]]
    /\ UNCHANGED <<counted, overlapped>>

\* Variant with a fault: a directory at the destination is not looked for.
CheckDestFile(a) ==
    /\ FileStage(a) = "dest"
    /\ Proceeds(a, IF There(Dest(a)) THEN "failed" ELSE "source")
    /\ UNCHANGED <<objects, counted, overlapped>>

\* move_path(): neither a file nor a directory is at the destination.
CheckDest(a) ==
    /\ \/ FileStage(a) = "dest"  /\ Proceeds(a, IF There(Dest(a)) THEN "failed" ELSE "below")
       \/ FileStage(a) = "below" /\ Proceeds(a, IF Below(Dest(a)) # {} THEN "failed" ELSE "source")
    /\ UNCHANGED <<objects, counted, overlapped>>

\* A file is moved as such, anything else as what is below.
FindSource(a) ==
    /\ FileStage(a) = "source"
    /\ fileOp' = [fileOp EXCEPT ![a] =
          IF There(Path(a)) THEN [To(a, "copy") EXCEPT !.todo = <<Path(a)>>] ELSE To(a, "list")]
    /\ UNCHANGED <<objects, counted, overlapped>>

\* The keys below, of delete_prefix and _move_prefix; without any, nothing was
\* found.
ListBelow(a) ==
    LET ks == Below(Path(a)) IN
    /\ FileStage(a) = "list"
    /\ fileOp' = [fileOp EXCEPT ![a] =
          IF ks = {} THEN To(a, "failed")
          ELSE [To(a, IF KindOf[a] = "delete" THEN "drop" ELSE "copy") EXCEPT !.todo = SetToSeq(ks)]]
    /\ UNCHANGED <<objects, counted, overlapped>>

\* An object is copied to its place; one that has gone cannot be.
CopyObject(a) ==
    LET k == Head(fileOp[a].todo) IN
    /\ FileStage(a) = "copy"
    /\ \/ /\ There(k)
          /\ objects' = With(MovedTo(k, Path(a), Dest(a)), Text(k))
          /\ Proceeds(a, "drop") \/ Proceeds(a, "failed")
       \/ /\ ~There(k)
          /\ Proceeds(a, "failed")
          /\ UNCHANGED objects
    /\ UNCHANGED <<counted, overlapped>>

\* An object is deleted, by a delete with the text in it.
DropObject(a) ==
    LET todo == fileOp[a].todo
        k    == IF todo = <<>> THEN Path(a) ELSE Head(todo)
        next == IF Len(todo) <= 1 THEN "ok" ELSE IF KindOf[a] = "delete" THEN "drop" ELSE "copy" IN
    /\ FileStage(a) = "drop"
    /\ objects' = Without(k)
    /\ counted' = IF KindOf[a] = "delete" THEN counted \ Text(k) ELSE counted
    /\ \/ fileOp' = [fileOp EXCEPT ![a] = IF next = "ok" THEN To(a, next) ELSE [To(a, next) EXCEPT !.todo = Tail(todo)]]
       \/ Proceeds(a, "failed")
    /\ UNCHANGED overlapped

FileOpStep(a) ==
    \/ BeginFileOp(a) \/ FailFileOp(a)
    \/ CheckFile(a) \/ Reread(a) \/ GetFile(a) \/ PutFile(a)
    \/ MakeLevel(a) \/ CheckDest(a) \/ FindSource(a) \/ ListBelow(a) \/ CopyObject(a) \/ DropObject(a)

ObjectNext == \E a \in FileOps : FileOpStep(a)

ObjectSpec == ObjectInit /\ [][ObjectNext]_objectVars

-----------------------------------------------------------------------------
(***************************************************************************)
(* Properties.                                                             *)
(***************************************************************************)

\* Text that a caller was told is written, and that nobody has deleted or
\* replaced, is in the store: no failing request of a move, a forced write or
\* an edit loses it.  The exception are operations on related paths under way
\* at the same time: each looks first and writes later.
TextIsKept == overlapped \/ counted \subseteq UNION {objects[k] : k \in DOMAIN objects}

\* Was the path a file as well as a directory?
Twofold(was, p) == p \in DOMAIN was /\ \E k \in DOMAIN was : IsStrictPrefix(p, k)

\* Nothing is left of the path; and all that was there is at its place below
\* the destination, the marker at the destination itself.
Gone(a)  == \A k \in DOMAIN objects' : ~IsPrefix(Path(a), k)
Moved(a) == \A k \in DOMAIN fileOp[a].before :
               LET place == MovedTo(k, Path(a), Dest(a)) IN
               IsPrefix(Path(a), k) => place \in DOMAIN objects' /\ objects'[place] = fileOp[a].before[k]

\* A delete or a move that succeeds is of the whole tree.  The exceptions are
\* a path that is a file as well as a directory, of which it is the file
\* only, and operations on related paths at the same time.
TreesAreWhole ==
    \A a \in FileOps :
        FileStage(a) \notin Ends /\ FileStage(a)' = "ok" /\ KindOf[a] \in {"delete", "move"}
           /\ ~overlapped /\ ~Twofold(fileOp[a].before, Path(a))
        => Gone(a) /\ (KindOf[a] = "move" => Moved(a))

\* Requests that overlap or fail, in a write, edit, move or delete on an object
\* store, lose no text that nobody removed and leave no tree in halves.
StoreKeepsFiles == [][TextIsKept' /\ TreesAreWhole]_objectVars
=============================================================================
