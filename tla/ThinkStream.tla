---------------------------- MODULE ThinkStream ----------------------------
(***************************************************************************)
(* The text of a streamed answer and the thoughts in it                    *)
(* (protocols/think_splitter.py and the projection of a stream in          *)
(* protocols/langgraph.py and protocols/openai.py).                        *)
(*                                                                         *)
(* A model that thinks aloud writes its thoughts between tags.  The text   *)
(* arrives in pieces, cut anywhere, also within a tag.  The splitter sends *)
(* on what it is sure of and holds the rest.  One splitter serves all      *)
(* messages of a stream: those of successive requests, and of subagents    *)
(* that answer at the same time.                                           *)
(***************************************************************************)
EXTENDS Naturals, Sequences

LOCAL INSTANCE SequencesExt

CONSTANTS
    StreamMessages, \* messages of the stream
    Pieces,         \* pieces a message may arrive in
    MaxPieces,      \* bound: pieces of the stream
    OpenTags, CloseTags

ASSUME ThinkAssumption == <<>> \notin Pieces \cup OpenTags \cup CloseTags /\ MaxPieces \in Nat

VARIABLES
    heldText, \* _buffer
    thinking, \* _in_think
    text,     \* content of the token events of a message
    thought,  \* content of its reasoning events
    rest,     \* the event of the end of the stream: "none" before, its kind and content then
    arrived,  \* history: what has arrived of a message
    pieces,   \* number of pieces so far
    speaker,  \* history: the message that arrived last
    mixed     \* history: has a message met what the splitter held of another?

streamVars == <<heldText, thinking, text, thought, rest, arrived, pieces, speaker, mixed>>

Silence == [m \in StreamMessages |-> <<>>]

-----------------------------------------------------------------------------
(***************************************************************************)
(* ThinkSplitter.                                                          *)
(***************************************************************************)

\* Where the first of the tags begins and which it is.
TagsIn(b, tags) ==
    {<<i, t>> \in (1..Len(b)) \X tags : i + Len(t) - 1 <= Len(b) /\ SubSeq(b, i, i + Len(t) - 1) = t}
FirstTag(b, tags) == CHOOSE f \in TagsIn(b, tags) : \A g \in TagsIn(b, tags) : f[1] <= g[1]

CouldBeTag(s) == \E t \in OpenTags \cup CloseTags : IsPrefix(s, t)

\* Variant with a fault: nothing is held.
SafeAll(b) == Len(b)

\* _safe_emit_window: all up to a last "<" that may begin a tag.
Safe(b) ==
    LET opens == {i \in 1..Len(b) : b[i] = "<"} IN
    IF opens = {} THEN Len(b)
    ELSE LET last == CHOOSE i \in opens : \A j \in opens : j <= i IN
         IF CouldBeTag(SubSeq(b, last, Len(b))) THEN last - 1 ELSE Len(b)

\* feed(), of what is held with the new piece: s.out is text, s.aside thought.
RECURSIVE Feed(_)
Feed(s) ==
    LET tags    == IF s.thinking THEN CloseTags ELSE OpenTags
        send(n) == IF s.thinking THEN [s EXCEPT !.aside = @ \o SubSeq(s.held, 1, n)]
                   ELSE [s EXCEPT !.out = @ \o SubSeq(s.held, 1, n)]
        drop(n) == SubSeq(s.held, n + 1, Len(s.held)) IN
    IF TagsIn(s.held, tags) = {}
      THEN [send(Safe(s.held)) EXCEPT !.held = drop(Safe(s.held))]
      ELSE LET f == FirstTag(s.held, tags) IN
           Feed([send(f[1] - 1) EXCEPT !.held = drop(f[1] + Len(f[2]) - 1), !.thinking = ~@])

Fed(b, th) == Feed([held |-> b, thinking |-> th, out |-> <<>>, aside |-> <<>>])

-----------------------------------------------------------------------------
(***************************************************************************)
(* The stream.                                                             *)
(***************************************************************************)

ThinkTypeOK ==
    /\ speaker \in StreamMessages /\ thinking \in BOOLEAN /\ mixed \in BOOLEAN /\ pieces \in 0..MaxPieces
    /\ CouldBeTag(heldText)
    /\ rest.kind \in {"none", "token", "reasoning"}

ThinkInit ==
    /\ heldText = <<>> /\ thinking = FALSE
    /\ text = Silence /\ thought = Silence /\ arrived = Silence
    /\ rest = [kind |-> "none", content |-> <<>>]
    /\ pieces = 0 /\ mixed = FALSE /\ speaker \in StreamMessages

\* Does the splitter hold, or is it within, what belongs to another message?
\* Until messages have been mixed, that is the one that arrived last.
Foreign(m) == (heldText # <<>> \/ thinking) /\ speaker # m

\* _project_messages_chunk and _emit_splitter_text.  Messages of tools and
\* people, and the summary of a compaction, never get here.
Arrive(m) ==
    /\ rest.kind = "none" /\ pieces < MaxPieces
    /\ \E p \in Pieces :
          LET s == Fed(heldText \o p, thinking) IN
          /\ heldText' = s.held /\ thinking' = s.thinking
          /\ text' = [text EXCEPT ![m] = @ \o s.out]
          /\ thought' = [thought EXCEPT ![m] = @ \o s.aside]
          /\ arrived' = [arrived EXCEPT ![m] = @ \o p]
    /\ pieces' = pieces + 1 /\ speaker' = m
    /\ mixed' = (mixed \/ Foreign(m))
    /\ UNCHANGED rest

\* Variant with a fault: what is held is text.
DrainedAsText == "token"

\* What kind drain() has.
Drained == IF thinking THEN "reasoning" ELSE "token"

\* _drain_splitter, at the end of the stream.
Drain ==
    /\ rest.kind = "none"
    /\ rest' = [kind |-> Drained, content |-> heldText]
    /\ heldText' = <<>> /\ thinking' = FALSE
    /\ UNCHANGED <<text, thought, arrived, pieces, speaker, mixed>>

ThinkNext == Drain \/ \E m \in StreamMessages : Arrive(m)

ThinkSpec == ThinkInit /\ [][ThinkNext]_streamVars

-----------------------------------------------------------------------------
(***************************************************************************)
(* Properties.                                                             *)
(***************************************************************************)

\* A message as it would be with its tags found in the whole of it.
RECURSIVE Whole(_, _, _, _)
Whole(b, tags, now, later) ==
    IF TagsIn(b, tags) = {} THEN (IF now THEN [out |-> <<>>, aside |-> b] ELSE [out |-> b, aside |-> <<>>])
    ELSE LET f == FirstTag(b, tags)
             r == Whole(SubSeq(b, f[1] + Len(f[2]), Len(b)), later, ~now, tags)
             h == SubSeq(b, 1, f[1] - 1) IN
         IF now THEN [r EXCEPT !.aside = h \o @] ELSE [r EXCEPT !.out = h \o @]

\* However a message is cut into pieces, its token events and its reasoning
\* events are the text and the thoughts of the whole, the event at the end of
\* the stream included, which names no node and is that of one message.  The
\* exception is a message that arrives while the splitter is within a thought,
\* or holds the beginning of a tag, of another.
CutsDoNotShow ==
    (rest.kind # "none" /\ ~mixed) =>
        \E last \in StreamMessages : \A m \in StreamMessages :
            LET w    == Whole(arrived[m], OpenTags, FALSE, CloseTags)
                end(k) == IF m = last /\ rest.kind = k THEN rest.content ELSE <<>> IN
            text[m] \o end("token") = w.out /\ thought[m] \o end("reasoning") = w.aside
=============================================================================
