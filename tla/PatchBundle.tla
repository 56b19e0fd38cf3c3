---------------------------- MODULE PatchBundle ----------------------------
(***************************************************************************)
(* PatchSet (patch.cpp): parsing a phpatcher-ed bundle line by line into   *)
(* the sorted index, rejecting duplicates, and re-keying the index with    *)
(* the path resolver of the engine.                                        *)
(*                                                                         *)
(* A line of the bundle is one of the few kinds the parser tells apart; a  *)
(* command is the number of the line that starts it and the numbers of the *)
(* lines of its text, so that nothing can be lost or doubled unseen.       *)
(***************************************************************************)
EXTENDS Naturals, Sequences

CONSTANTS
    Path, NoPath,   \* how a header may spell its path, or leave it out
    Key,            \* canonical paths, numbered in the order of the index
    Canonical,      \* canonicalize: [Path -> Key]
    Real,           \* the engine's resolver: [Key -> Key]
    Base            \* basename_of: a function on Key

\* What the parser looks at; the lines of text have more to them.
Token == [t : {"magic", "comment", "blank", "dot", "delete", "input", "text"}]
         \cup [t : {"file", "newfile"}, path : Path \cup {NoPath}]

Cmd == [at : Nat, input : Seq(Nat)]
Entry == [key : Key, creates : BOOLEAN, commands : Seq(Cmd)]

VARIABLES
    bundle,
    phase,      \* "idle", "start", "lines", "finalize", "parsed", "rekeyed" or "failed"
    i,          \* the line at hand
    index,      \* index_
    current,    \* the open section, at most one: `current` and `current_key`
    pending,    \* the command whose text is being read, at most one (in_input)
    basenames   \* basenames_

vars == <<bundle, phase, i, index, current, pending, basenames>>

TypeOK ==
    /\ phase \in {"idle", "start", "lines", "finalize", "parsed", "rekeyed", "failed"}
    /\ i \in 1..(Len(bundle) + 1)
    /\ index \in Seq(Entry)
    /\ current \in Seq(Entry) /\ Len(current) <= 1
    /\ pending \in Seq(Cmd) /\ Len(pending) <= Len(current)
    /\ basenames \subseteq {Base[k] : k \in Key}

Init ==
    /\ bundle = <<>>
    /\ phase = "idle" /\ i = 1
    /\ index = <<>> /\ current = <<>> /\ pending = <<>>
    /\ basenames = {}

\* The extension reads the patch file, once.
Read(text) ==
    /\ phase = "idle"
    /\ phase' = "start"
    /\ bundle' = text
    /\ UNCHANGED <<i, index, current, pending, basenames>>

\* looks_like_ed_bundle: the first line that is not blank is the magic one.
HasMagic == \E l \in DOMAIN bundle :
                /\ bundle[l].t = "magic"
                /\ \A j \in 1..(l - 1) : bundle[j].t = "blank"

Start ==
    /\ phase = "start"
    /\ phase' = IF bundle = <<>> THEN "parsed" ELSE IF HasMagic THEN "lines" ELSE "failed"
    /\ UNCHANGED <<bundle, i, index, current, pending, basenames>>

-----------------------------------------------------------------------------
(* One line of the bundle.                                                 *)

InInput == pending # <<>>
Line(kinds) == phase = "lines" /\ i <= Len(bundle) /\ bundle[i].t \in kinds
AnyLine == phase = "lines" /\ i <= Len(bundle)
Advance == i' = i + 1 /\ UNCHANGED <<bundle, phase, basenames>>

\* A section without commands is dropped.
Flush == index' = IF current # <<>> /\ current[1].commands # <<>>
                  THEN Append(index, current[1]) ELSE index

AddCommand(c) == current' = [current EXCEPT ![1].commands = Append(@, c)]

\* Inside a text everything but a lone dot is text, headers and commands too.
InputLine ==
    /\ AnyLine /\ InInput /\ bundle[i].t # "dot"
    /\ pending' = [pending EXCEPT ![1].input = Append(@, i)]
    /\ Advance
    /\ UNCHANGED <<index, current>>

\* Mutant: the dot ends the text and forgets the command.
EndOfInputDrop ==
    /\ Line({"dot"}) /\ InInput
    /\ pending' = <<>>
    /\ Advance
    /\ UNCHANGED <<index, current>>

EndOfInput ==
    /\ Line({"dot"}) /\ InInput
    /\ AddCommand(pending[1])
    /\ pending' = <<>>
    /\ Advance
    /\ UNCHANGED index

Section(creates) == [key |-> Canonical[bundle[i].path], creates |-> creates, commands |-> <<>>]

FileHeader ==
    /\ Line({"file"}) /\ ~InInput /\ bundle[i].path # NoPath
    /\ Flush
    /\ current' = <<Section(FALSE)>>
    /\ Advance
    /\ UNCHANGED pending

\* Mutant: the text of a created file goes to the section before it.
NewFileHeaderLate ==
    /\ Line({"newfile"}) /\ ~InInput /\ bundle[i].path # NoPath
    /\ pending' = <<[at |-> i, input |-> <<>>]>>
    /\ IF current = <<>> THEN current' = <<Section(TRUE)>> ELSE UNCHANGED current
    /\ Advance
    /\ UNCHANGED index

\* A created file is one 0a command, whose text follows at once.
NewFileHeader ==
    /\ Line({"newfile"}) /\ ~InInput /\ bundle[i].path # NoPath
    /\ Flush
    /\ current' = <<Section(TRUE)>>
    /\ pending' = <<[at |-> i, input |-> <<>>]>>
    /\ Advance

\* Comments, blank lines, and the w and q of ed.
SkipLine ==
    /\ Line({"magic", "comment", "blank"}) /\ ~InInput
    /\ Advance
    /\ UNCHANGED <<index, current, pending>>

DeleteCommand ==
    /\ Line({"delete"}) /\ ~InInput /\ current # <<>>
    /\ AddCommand([at |-> i, input |-> <<>>])
    /\ Advance
    /\ UNCHANGED <<index, pending>>

InputCommand ==
    /\ Line({"input"}) /\ ~InInput /\ current # <<>>
    /\ pending' = <<[at |-> i, input |-> <<>>]>>
    /\ Advance
    /\ UNCHANGED <<index, current>>

Fail == /\ phase' = "failed"
        /\ UNCHANGED <<bundle, i, index, current, pending, basenames>>

\* An empty header, a command before any header, or no command at all.
BadLine ==
    /\ AnyLine /\ ~InInput
    /\ \/ Line({"file", "newfile"}) /\ bundle[i].path = NoPath
       \/ Line({"delete", "input"}) /\ current = <<>>
       \/ Line({"dot", "text"})
    /\ Fail

\* Mutant: a text that the end of the bundle cuts off is taken as it is.
UnterminatedTaken ==
    /\ phase = "lines" /\ i > Len(bundle) /\ InInput
    /\ AddCommand(pending[1])
    /\ pending' = <<>>
    /\ UNCHANGED <<bundle, phase, i, index, basenames>>

Unterminated ==
    /\ phase = "lines" /\ i > Len(bundle) /\ InInput
    /\ Fail

EndOfBundle ==
    /\ phase = "lines" /\ i > Len(bundle) /\ ~InInput
    /\ Flush
    /\ current' = <<>>
    /\ phase' = "finalize"
    /\ UNCHANGED <<bundle, i, pending, basenames>>

-----------------------------------------------------------------------------
(* finalize and recanonicalize.                                            *)

Sorted(ix) == \A a, b \in DOMAIN ix : a < b => ix[a].key <= ix[b].key

\* std::sort leaves entries of one key in any order.
Sortings(ix) ==
    {[n \in DOMAIN ix |-> ix[perm[n]]] :
        perm \in {f \in [DOMAIN ix -> DOMAIN ix] :
                    /\ \A a, b \in DOMAIN ix : f[a] = f[b] => a = b
                    /\ \A a, b \in DOMAIN ix : a < b => ix[f[a]].key <= ix[f[b]].key}}

\* Mutant: neighbours are compared from the second on.
DuplicatesLate(ix) == \E a \in 3..Len(ix) : ix[a].key = ix[a - 1].key
Duplicates(ix) == \E a \in 2..Len(ix) : ix[a].key = ix[a - 1].key
BasesOf(ix) == {Base[ix[n].key] : n \in DOMAIN ix}

Finalize ==
    /\ phase = "finalize"
    /\ \E ix \in Sortings(index) :
          /\ index' = ix
          /\ IF Duplicates(ix)
             THEN phase' = "failed" /\ UNCHANGED basenames
             ELSE phase' = "parsed" /\ basenames' = BasesOf(ix)
    /\ UNCHANGED <<bundle, i, current, pending>>

Rekeyed(ix) == [n \in DOMAIN ix |-> [ix[n] EXCEPT !.key = Real[@]]]

\* Mutant: the filter keeps the names of the old keys.
RecanonicalizeOldNames ==
    /\ phase = "parsed" /\ index # <<>>
    /\ \E ix \in Sortings(Rekeyed(index)) : index' = ix
    /\ phase' = "rekeyed"
    /\ UNCHANGED <<bundle, i, current, pending, basenames>>

\* MINIT goes no further with an empty index.
Recanonicalize ==
    /\ phase = "parsed" /\ index # <<>>
    /\ \E ix \in Sortings(Rekeyed(index)) :
          /\ index' = ix
          /\ basenames' = BasesOf(ix)
    /\ phase' = "rekeyed"
    /\ UNCHANGED <<bundle, i, current, pending>>

Parse == \/ Start \/ InputLine \/ EndOfInput \/ FileHeader \/ NewFileHeader \/ SkipLine
         \/ DeleteCommand \/ InputCommand \/ BadLine \/ Unterminated \/ EndOfBundle
         \/ Finalize \/ Recanonicalize

-----------------------------------------------------------------------------
(* find.                                                                   *)

\* std::lower_bound: the first entry whose key is not below the wanted one.
LowerBound(k) == CHOOSE n \in 1..(Len(index) + 1) :
                    /\ \A m \in 1..(n - 1) : index[m].key < k
                    /\ n <= Len(index) => index[n].key >= k
Found(k) == LowerBound(k) <= Len(index) /\ index[LowerBound(k)].key = k

-----------------------------------------------------------------------------
(* Properties.                                                             *)

accepted == phase \in {"parsed", "rekeyed"}
Texts(c) == {c.input[x] : x \in DOMAIN c.input}
texts == UNION {UNION {Texts(index[n].commands[m]) : m \in DOMAIN index[n].commands} :
                    n \in DOMAIN index}
Holds(n, m, l) == l \in {index[n].commands[m].at} \cup Texts(index[n].commands[m])

\* An accepted bundle is in the index line for line: each command, each line of
\* text and each created file in one command of one section, and in no other,
\* whatever is nested in the texts and whatever sections were dropped for having
\* no command.
NothingLost ==
    accepted => \A l \in DOMAIN bundle :
        bundle[l].t \in {"delete", "input", "text", "newfile"} =>
            \E n \in DOMAIN index : \E m \in DOMAIN index[n].commands :
                /\ Holds(n, m, l)
                /\ \A x \in DOMAIN index : \A y \in DOMAIN index[x].commands :
                       Holds(x, y, l) => x = n /\ y = m

\* A command belongs to the header above it, and its text is the lines down to the
\* next lone dot: a patch is never applied to another file than it was listed under.
OwnedByHeader ==
    phase = "parsed" => \A n \in DOMAIN index : \A m \in DOMAIN index[n].commands :
        LET c == index[n].commands[m]
            headers == {l \in 1..c.at : bundle[l].t \in {"file", "newfile"} /\ l \notin texts}
            last == CHOOSE l \in headers : \A h \in headers : h <= l
        IN  /\ headers # {}
            /\ Canonical[bundle[last].path] = index[n].key
            /\ index[n].creates <=> bundle[last].t = "newfile"
            /\ c.input = [x \in 1..Len(c.input) |-> c.at + x]
            /\ bundle[c.at].t # "delete" =>
                  \E e \in DOMAIN bundle : e = c.at + Len(c.input) + 1 /\ bundle[e].t = "dot"

\* The binary search finds a key just when it is in the index, before the engine's
\* resolver has renamed the keys and after; and two sections for one file are
\* refused when the bundle is parsed, so that the search has no choice.
FindIsExact ==
    accepted => \A k \in Key :
        /\ Found(k) <=> \E n \in DOMAIN index : index[n].key = k
        /\ phase = "parsed" => \A m, n \in DOMAIN index :
                                  index[m].key = k /\ index[n].key = k => m = n

\* The basename filter lets every indexed file through, before the engine's
\* resolver has renamed the keys and after: a false "no" would skip a patch.
FilterIsComplete ==
    accepted => \A n \in DOMAIN index : Base[index[n].key] \in basenames
=============================================================================
