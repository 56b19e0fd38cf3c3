------------------------------ MODULE Changes ------------------------------
(***************************************************************************)
(* phpatcher-changes (tools/changes.cpp), without a corpus.  main walks    *)
(* over the deltas of a git diff.  For a modified file libgit2 calls       *)
(* hunk_cb and line_cb, they gather changes, and the changes are written   *)
(* last first as the commands of a section; an added file is written       *)
(* whole.                                                                  *)
(*                                                                         *)
(* The diff is what libgit2 may deliver: it decides which lines are kept,  *)
(* and in a group of changed lines it gives the removed ones first.  The   *)
(* output is a sequence of tokens, a line each, as the parser of bundles   *)
(* (PatchBundle) tells lines apart.                                        *)
(***************************************************************************)
EXTENDS EdCommands, FiniteSets

CONSTANTS
    Diffs,          \* git diffs: sequences of deltas
    OldText,        \* OldText[i]: line i of the old file
    AddedText,      \* AddedText[j]: the j-th added line
    Dot,            \* the core of a line that is a lone dot
    ContextLines    \* opts.context_lines

Op == {"keep", "del", "add"}

\* `usable`: neither binary nor unreadable, and without a NUL byte.
Delta == [status : {"added", "modified", "deleted"}, path : Path, usable : BOOLEAN,
          ops : Seq(Op), oldNl : BOOLEAN, newNl : BOOLEAN]

VARIABLES
    deltas, at,     \* the diff, and the delta at hand
    events,         \* the callbacks still to come
    changes, in_change, current, last_old,      \* DiffPayload
    phase,          \* "next", "diff", "emit", "done" or "died"
    emitted,        \* how many sections were written
    output          \* the lines written

diff == <<deltas, at>>
payload == <<changes, in_change, current, last_old>>
vars == <<diff, events, payload, phase, emitted, output>>

NoChange == [old_start |-> 0, old_count |-> 0, append_after |-> 0, added |-> <<>>]
Change == [old_start : Nat, old_count : Nat, append_after : Nat, added : Seq(Line)]

-----------------------------------------------------------------------------
(* The two files of a delta, and the events of their diff (external).      *)

OldBefore(d, p) == Cardinality({q \in 1..(p - 1) : d.ops[q] # "add"})
NewBefore(d, p) == Cardinality({q \in 1..(p - 1) : d.ops[q] # "del"})
OldLen(d) == OldBefore(d, Len(d.ops) + 1)
NewLen(d) == NewBefore(d, Len(d.ops) + 1)

LineAt(d, p) == IF d.ops[p] = "add"
                THEN AddedText[Cardinality({q \in 1..p : d.ops[q] = "add"})]
                ELSE OldText[OldBefore(d, p) + 1]
OpsOf(d, kinds) == {p \in DOMAIN d.ops : d.ops[p] \in kinds}
Nth(S, n) == CHOOSE p \in S : Cardinality({q \in S : q <= p}) = n
Side(d, kinds) ==
    [n \in 1..Cardinality(OpsOf(d, kinds)) |-> LineAt(d, Nth(OpsOf(d, kinds), n))]

OldFile(d) == [lines |-> Side(d, {"keep", "del"}), nl |-> d.oldNl]
NewFile(d) == [lines |-> Side(d, {"keep", "add"}), nl |-> d.newNl]

\* Op p is the last line of that file and no newline ends it.
OldEnd(d, p) == d.ops[p] # "add" /\ OldBefore(d, p) + 1 = OldLen(d) /\ ~d.oldNl
NewEnd(d, p) == d.ops[p] # "del" /\ NewBefore(d, p) + 1 = NewLen(d) /\ ~d.newNl

\* Only a line that is the same in both files, newline included, is kept; and both
\* are contents that a file can have.
Possible(d) ==
    /\ \A p \in 1..(Len(d.ops) - 1) : d.ops[p] = "add" => d.ops[p + 1] # "del"
    /\ \A p \in DOMAIN d.ops : d.ops[p] = "keep" => (OldEnd(d, p) <=> NewEnd(d, p))
    /\ OldFile(d) = JoinLines(OldFile(d).lines, d.oldNl)
    /\ NewFile(d) = JoinLines(NewFile(d).lines, d.newNl)
    /\ d.status = "added" => OldLen(d) = 0

ASSUME ChangesAssumption ==
    /\ \A s \in Diffs : s \in Seq(Delta) /\ \A n \in DOMAIN s :
          Possible(s[n]) /\ \A p \in DOMAIN s[n].ops : LineAt(s[n], p) \in Line
    /\ \A s \in Diffs : \A m, n \in DOMAIN s : s[m].path = s[n].path => m = n
    /\ ContextLines \in Nat \ {0} /\ Dot \in Core \ {NoCore}

Changed(d) == {p \in DOMAIN d.ops : d.ops[p] # "keep"}
Shown(d, p) == /\ p \in DOMAIN d.ops
               /\ \E q \in Changed(d) : q - ContextLines <= p /\ p <= q + ContextLines

\* The line number in the header of the hunk that begins at p: the line before
\* it when the hunk has no line of the old file.
HunkStart(d, p) ==
    LET last == CHOOSE e \in p..Len(d.ops) : (\A q \in p..e : Shown(d, q)) /\ ~Shown(d, e + 1)
    IN  IF \E q \in p..last : d.ops[q] # "add" THEN OldBefore(d, p) + 1 ELSE OldBefore(d, p)

Event(kind, no, line) == [kind |-> kind, no |-> no, line |-> line]

EventsAt(d, p) ==
    (IF ~Shown(d, p - 1) THEN <<Event("hunk", HunkStart(d, p), EmptyLine)>> ELSE <<>>)
    \o <<Event(d.ops[p], IF d.ops[p] = "add" THEN 0 ELSE OldBefore(d, p) + 1, LineAt(d, p))>>
    \o (IF OldEnd(d, p) \/ NewEnd(d, p) THEN <<Event("eofnl", 0, EmptyLine)>> ELSE <<>>)

Events(d) == FlattenSeq([p \in DOMAIN d.ops |-> IF Shown(d, p) THEN EventsAt(d, p) ELSE <<>>])

-----------------------------------------------------------------------------
(* The lines of the bundle.                                                *)

\* A line of text, as the parser tells lines apart: only a lone dot ends a block of input.
\* Whether a line in a block is text or a reference is for the parser to say (ReadPiece),
\* nothing is escaped here.  Outside of a block, where only a lone dot can put it, it is a
\* bad line here, though the parser may take it for a command; no property relies on that.
TextToken(l) == [t |-> CASE l = PlainLine(Dot) -> "dot"
                         [] l.core = NoCore /\ Feeds(l.trail) = {} -> "blank"
                         [] OTHER -> "text", line |-> l]

\* emit_added_plain
TextTokens(ls) == [n \in DOMAIN ls |-> TextToken(ls[n])]
DotToken == TextToken(PlainLine(Dot))
Header(kind, path) == [t |-> kind, path |-> path]

\* emit_change: the address, and the text with the dot that ends it.
CommandTokens(c) ==
    LET Cmd(kind, from, to) == [kind |-> kind, start |-> from, end |-> to]
        last == c.old_start + c.old_count - 1
        text == Append(TextTokens(c.added), DotToken)
    IN  CASE c.old_count = 0 ->
                <<[t |-> "input", cmd |-> Cmd("append", c.append_after, c.append_after)]>> \o text
          [] c.old_count > 0 /\ c.added = <<>> ->
                <<[t |-> "delete", cmd |-> Cmd("delete", c.old_start, last)]>>
          [] c.old_count > 0 /\ c.added # <<>> ->
                <<[t |-> "input", cmd |-> Cmd("change", c.old_start, last)]>> \o text

TypeOK ==
    /\ deltas \in Diffs /\ at \in 1..(Len(deltas) + 1)
    /\ changes \in Seq(Change) /\ in_change \in BOOLEAN /\ current \in Change
    /\ last_old \in Nat /\ emitted \in 0..Len(deltas)
    /\ phase \in {"next", "diff", "emit", "done", "died"}

Init ==
    /\ deltas \in Diffs /\ at = 1
    /\ events = <<>>
    /\ changes = <<>> /\ in_change = FALSE /\ current = NoChange /\ last_old = 0
    /\ phase = "next" /\ emitted = 0
    /\ output = <<[t |-> "magic"], [t |-> "comment"]>>

-----------------------------------------------------------------------------
(* main: one delta after the other.                                        *)

AtDelta == phase = "next" /\ at <= Len(deltas)
Encodable(d) == d.status \in {"added", "modified"} /\ d.usable

SkipDelta ==
    /\ AtDelta /\ ~Encodable(deltas[at])
    /\ at' = at + 1
    /\ UNCHANGED <<deltas, events, payload, phase, emitted, output>>

\* emit_newfile: the lines of the file (split_lines).
EmitNewFile ==
    /\ AtDelta /\ Encodable(deltas[at]) /\ deltas[at].status = "added"
    /\ output' = output \o <<Header("newfile", deltas[at].path)>>
                        \o TextTokens(CorpusLines(NewFile(deltas[at]))) \o <<DotToken>>
    /\ at' = at + 1 /\ emitted' = emitted + 1
    /\ UNCHANGED <<deltas, events, payload, phase>>

\* diff_buffers starts with a DiffPayload of its own.
BeginDiff ==
    /\ AtDelta /\ Encodable(deltas[at]) /\ deltas[at].status = "modified"
    /\ events' = Events(deltas[at])
    /\ changes' = <<>> /\ in_change' = FALSE /\ current' = NoChange /\ last_old' = 0
    /\ phase' = "diff"
    /\ UNCHANGED <<diff, emitted, output>>

\* A bundle without a section is an error, though its first lines are written.
Exit ==
    /\ phase = "next" /\ at > Len(deltas)
    /\ phase' = IF emitted = 0 THEN "died" ELSE "done"
    /\ UNCHANGED <<diff, events, payload, emitted, output>>

-----------------------------------------------------------------------------
(* hunk_cb and line_cb.                                                    *)

Incoming(kind) == phase = "diff" /\ events # <<>> /\ Head(events).kind = kind
Take == events' = Tail(events) /\ UNCHANGED <<diff, phase, emitted, output>>

flush ==
    /\ changes' = IF in_change THEN Append(changes, current) ELSE changes
    /\ in_change' = FALSE
    /\ current' = IF in_change THEN NoChange ELSE current

\* The change under way, or the one that starts here.
Started(old_start, append_after) ==
    IF in_change THEN current
    ELSE [NoChange EXCEPT !.old_start = old_start, !.append_after = append_after]

HunkCb ==
    /\ Incoming("hunk")
    /\ flush
    /\ last_old' = IF Head(events).no > 0 THEN Head(events).no - 1 ELSE 0
    /\ Take

\* Mutant: a kept line does not end the change.
ContextRunsOn ==
    /\ Incoming("keep")
    /\ last_old' = Head(events).no
    /\ UNCHANGED <<changes, in_change, current>>
    /\ Take

Context ==
    /\ Incoming("keep")
    /\ flush
    /\ last_old' = Head(events).no
    /\ Take

Deletion ==
    /\ Incoming("del")
    /\ LET no == Head(events).no
       IN  /\ current' = [Started(no, no - 1) EXCEPT !.old_count = @ + 1]
           /\ last_old' = no
    /\ in_change' = TRUE
    /\ UNCHANGED changes
    /\ Take

\* strip_eol: the CR goes with the newline, or without one.
Addition ==
    /\ Incoming("add")
    /\ current' = [Started(0, last_old) EXCEPT !.added = Append(@, Chomp(Head(events).line))]
    /\ in_change' = TRUE
    /\ UNCHANGED <<changes, last_old>>
    /\ Take

\* "\ No newline at end of file".
EofNl ==
    /\ Incoming("eofnl")
    /\ UNCHANGED payload
    /\ Take

\* The header comes with the first change; a file without any gets none.
EndOfDiff ==
    /\ phase = "diff" /\ events = <<>>
    /\ flush
    /\ IF changes' = <<>>
       THEN phase' = "next" /\ at' = at + 1 /\ UNCHANGED output
       ELSE phase' = "emit" /\ UNCHANGED at
            /\ output' = Append(output, Header("file", deltas[at].path))
    /\ UNCHANGED <<deltas, events, last_old, emitted>>

-----------------------------------------------------------------------------
(* Writing the commands.                                                   *)

EmitChange ==
    /\ phase = "emit" /\ changes # <<>>
    /\ output' = output \o CommandTokens(changes[Len(changes)])
    /\ changes' = Front(changes)
    /\ UNCHANGED <<diff, events, in_change, current, last_old, phase, emitted>>

EndOfFile ==
    /\ phase = "emit" /\ changes = <<>>
    /\ phase' = "next" /\ at' = at + 1 /\ emitted' = emitted + 1
    /\ UNCHANGED <<deltas, events, payload, output>>

Next == \/ SkipDelta \/ EmitNewFile \/ BeginDiff \/ Exit
        \/ HunkCb \/ Context \/ Deletion \/ Addition \/ EofNl \/ EndOfDiff
        \/ EmitChange \/ EndOfFile

Spec == Init /\ [][Next]_vars
=============================================================================
