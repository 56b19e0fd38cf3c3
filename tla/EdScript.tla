------------------------------ MODULE EdScript ------------------------------
(***************************************************************************)
(* apply_ed_script (patch.cpp) with the reference resolver the extension   *)
(* passes to it (phpatcher_make_resolver, phpatcher.cpp), step by step, on *)
(* a host whose corpus files may be rewritten at any moment.               *)
(*                                                                         *)
(* One behaviour is one call: the commands are validated, then applied one *)
(* by one to a buffer that renumbers as it changes, each building its text *)
(* piece by piece; the output is written at the very end or not at all.    *)
(***************************************************************************)
EXTENDS EdCommands

CONSTANTS
    Calls,      \* [content, script, resolver, corpus]: a script, the file it is
                \* applied to, whether the caller passes a resolver, and the corpus
    Versions,   \* what a corpus file may hold: [ok, file]
    MaxLine     \* INT64_MAX, which no address reaches (read_uint)

\* What the parser makes: only a delete has no input block (parse_ed_command).
IsScript(s) ==
    /\ s \in Seq(Command)
    /\ \A i \in DOMAIN s :
          /\ s[i].start < MaxLine /\ s[i].end < MaxLine
          /\ s[i].kind = "delete" => s[i].input = <<>>

ASSUME VersionsAssumption == Versions \subseteq [ok : BOOLEAN, file : File]
ASSUME CallsAssumption ==
    /\ MaxLine \in Nat
    /\ \A c \in Calls : /\ c.content \in File /\ IsScript(c.script)
                        /\ c.resolver \in BOOLEAN /\ c.corpus \in [Path -> Versions]

VARIABLES
    corpus,     \* corpus files on disk
    content,    \* `original`: the file the script is applied to
    script,     \* fp.commands
    resolver,   \* whether `resolve` is callable
    phase,      \* "validate", "apply", "input", "done" or "failed"
    k,          \* the command at hand
    p,          \* the piece of its input at hand
    barrier,    \* validation: lowest original line touched so far.
                \* afterwards it is kept only to state properties
    lines,      \* the buffer
    ins,        \* the text built so far for the command at hand
    cache,      \* RefCache, which lives as long as the call
    out,        \* what was written to `out`, at most one file
    error       \* why the call failed

call == <<content, script, resolver>>
vars == <<corpus, content, script, resolver, phase, k, p, barrier, lines, ins,
          cache, out, error>>

Unread == [ok |-> FALSE, lines |-> <<>>, read |-> FALSE]
ReadNow(v) == [ok |-> v.ok, lines |-> IF v.ok THEN CorpusLines(v.file) ELSE <<>>,
               read |-> TRUE]

endsNl == content.nl \/ content = EmptyFile
Cmd == script[k]

TypeOK ==
    /\ corpus \in [Path -> Versions]
    /\ content \in File /\ IsScript(script) /\ resolver \in BOOLEAN
    /\ phase \in {"validate", "apply", "input", "done", "failed"}
    /\ k \in 1..(Len(script) + 1)
    /\ p \in Nat \ {0}
    /\ phase = "input" => /\ k <= Len(script) /\ p <= Len(Cmd.input) + 1
                          /\ InRange(Cmd, Len(lines))
    /\ barrier \in Nat
    /\ lines \in Seq(Line) /\ ins \in Seq(Line)
    /\ cache \in [Path -> [ok : BOOLEAN, lines : Seq(Line), read : BOOLEAN]]
    /\ out \in Seq(File) /\ Len(out) <= 1
    /\ error \in {"none", "order", "range", "resolver", "reference"}

Init ==
    /\ \E c \in Calls : /\ corpus = c.corpus /\ content = c.content
                        /\ script = c.script /\ resolver = c.resolver
    /\ phase = "validate"
    /\ k = 1 /\ p = 1
    /\ barrier = MaxLine
    /\ lines = <<>> /\ ins = <<>>
    /\ cache = [f \in Path |-> Unread]
    /\ out = <<>>
    /\ error = "none"

Fail(why) ==
    /\ phase' = "failed"
    /\ error' = why
    /\ UNCHANGED <<corpus, call, k, p, barrier, lines, ins, cache, out>>

-----------------------------------------------------------------------------
(* validate_command_order, one command a step.                             *)

\* Mutant: a command may touch the lowest line of the one before.
InOrderLoose(c) == AddressedTop(c) <= barrier
InOrder(c) == AddressedTop(c) < barrier

ValidateCommand ==
    /\ phase = "validate" /\ k <= Len(script)
    /\ InOrder(Cmd)
    /\ barrier' = IF AffectedLow(Cmd) < barrier THEN AffectedLow(Cmd) ELSE barrier
    /\ k' = k + 1
    /\ UNCHANGED <<corpus, call, phase, p, lines, ins, cache, out, error>>

RejectOrder ==
    /\ phase = "validate" /\ k <= Len(script)
    /\ ~InOrder(Cmd)
    /\ Fail("order")

\* All commands are in order: split the file and start over with the first.
StartApply ==
    /\ phase = "validate" /\ k > Len(script)
    /\ phase' = "apply"
    /\ k' = 1
    /\ lines' = content.lines
    /\ barrier' = Len(content.lines) + 1
    /\ UNCHANGED <<corpus, call, p, ins, cache, out, error>>

-----------------------------------------------------------------------------
(* apply_ed_script and build_input.                                        *)

\* Mutant: the line after the last one passes.
CheckRangeWide(c) == InRange(c, Len(lines) + 1)
CheckRange(c) == InRange(c, Len(lines))

OutOfRange ==
    /\ phase = "apply" /\ k <= Len(script)
    /\ ~CheckRange(Cmd)
    /\ Fail("range")

Perform(c, text) ==
    /\ lines' = Splice(lines, c, text)
    /\ barrier' = From(c)
    /\ k' = k + 1
    /\ phase' = "apply"

DeleteLines ==
    /\ phase = "apply" /\ k <= Len(script)
    /\ Cmd.kind = "delete" /\ CheckRange(Cmd)
    /\ Perform(Cmd, <<>>)
    /\ UNCHANGED <<corpus, call, p, ins, cache, out, error>>

BeginInput ==
    /\ phase = "apply" /\ k <= Len(script)
    /\ Cmd.kind # "delete" /\ CheckRange(Cmd)
    /\ phase' = "input"
    /\ p' = 1
    /\ ins' = <<>>
    /\ UNCHANGED <<corpus, call, k, barrier, lines, cache, out, error>>

NextPiece == phase = "input" /\ p <= Len(Cmd.input)

LiteralPiece ==
    /\ NextPiece /\ ~Cmd.input[p].ref
    /\ ins' = Append(ins, Cmd.input[p].line)
    /\ p' = p + 1
    /\ UNCHANGED <<corpus, call, phase, k, barrier, lines, cache, out, error>>

NoResolver ==
    /\ NextPiece /\ Cmd.input[p].ref /\ ~resolver
    /\ Fail("resolver")

\* Mutant: no cache, every reference reads its file again.
FetchedAgain(f) == ReadNow(corpus[f])

\* What the resolver knows of a file: read once in a call, failure included.
Fetched(f) == IF cache[f].read THEN cache[f] ELSE ReadNow(corpus[f])

ResolvePiece ==
    /\ NextPiece /\ Cmd.input[p].ref /\ resolver
    /\ LET r == Cmd.input[p].to
           entry == Fetched(r.path)
       IN  /\ cache' = [cache EXCEPT ![r.path] = entry]
           /\ IF Resolves(entry, r)
              THEN /\ ins' = ins \o Transform(Run(entry.lines, r), r)
                   /\ p' = p + 1
                   /\ UNCHANGED <<phase, error>>
              ELSE /\ phase' = "failed"
                   /\ error' = "reference"
                   /\ UNCHANGED <<ins, p>>
    /\ UNCHANGED <<corpus, call, k, barrier, lines, out>>

EndInput ==
    /\ phase = "input" /\ p > Len(Cmd.input)
    /\ Perform(Cmd, ins)
    /\ UNCHANGED <<corpus, call, p, ins, cache, out, error>>

Finish ==
    /\ phase = "apply" /\ k > Len(script)
    /\ phase' = "done"
    /\ out' = <<JoinLines(lines, endsNl)>>
    /\ UNCHANGED <<corpus, call, k, p, barrier, lines, ins, cache, error>>

Step == \/ ValidateCommand \/ RejectOrder \/ StartApply
        \/ OutOfRange \/ DeleteLines \/ BeginInput
        \/ LiteralPiece \/ NoResolver \/ ResolvePiece \/ EndInput
        \/ Finish

\* A corpus file is rewritten, removed or restored under the running call; one
\* that the script does not quote makes no difference.
pieces == UNION {ToSet(script[i].input) : i \in DOMAIN script}
refs == {q.to : q \in {q \in pieces : q.ref}}
EditCorpus(f) ==
    /\ phase \in {"apply", "input"}
    /\ f \in {r.path : r \in refs}
    /\ \E v \in Versions : corpus' = [corpus EXCEPT ![f] = v]
    /\ UNCHANGED <<call, phase, k, p, barrier, lines, ins, cache, out, error>>

Next == Step \/ \E f \in Path : EditCorpus(f)

Spec == Init /\ [][Next]_vars

-----------------------------------------------------------------------------
(* Properties.                                                             *)

\* Every line is below the range of every command that comes before it.
Descending(s) ==
    \A j \in DOMAIN s : \A i \in 1..(j - 1) : AddressedTop(s[j]) < AffectedLow(s[i])

\* The one-pass check with a single barrier decides the pairwise order exactly:
\* no script is applied unless each command addresses only lines under all the
\* earlier ones, and none is rejected that does (validate_command_order).
OrderExact ==
    /\ phase \in {"apply", "input", "done"} => Descending(script)
    /\ error = "order" => ~Descending(script)

\* The range checks look at the buffer, which has grown and shrunk by the time a
\* later command is checked; all the same they accept exactly the commands that
\* fit the file as it was on disk.
RangeIsOriginals ==
    /\ phase = "done" =>
          \A i \in DOMAIN script : InRange(script[i], Len(content.lines))
    /\ error = "range" => ~InRange(Cmd, Len(content.lines))

\* Under the lowest line touched so far the buffer still is the original, line by
\* line, whatever was inserted and deleted above; this is what makes the numbers
\* of the commands to come mean the same in the buffer and in the file.
applying == phase \in {"apply", "input", "done"} \/ (phase = "failed" /\ error # "order")
PrefixIntact ==
    applying => /\ barrier <= Len(content.lines) + 1 /\ barrier <= Len(lines) + 1
                /\ \A x \in 1..(barrier - 1) : lines[x] = content.lines[x]

\* Applying the commands in turn to the renumbering buffer is the same as
\* addressing the original line numbers, which is why the order is mandatory
\* (comment of validate_command_order).  Before the first command is applied,
\* and after an order error, the abstract state is the initial one.
cut == IF applying THEN barrier ELSE Len(content.lines) + 1
applied == IF applying THEN k - 1 ELSE 0
tail == SubSeq(lines, cut, Len(lines))
status == IF phase = "done" THEN "patched"
          ELSE IF phase = "failed" THEN "refused" ELSE "working"
Original == INSTANCE EdOriginal WITH original <- content.lines, n <- applied
ImplementsOriginal == Original!Spec

\* The lines ls with texts[i] for the command s[i], for the first n commands, line by
\* line: a gap between two original lines holds the texts anchored there, the text
\* of a later command above that of an earlier one.
Gap(s, n, g, texts) ==
    FlattenSeq([i \in 1..n |-> IF From(s[n + 1 - i]) - 1 = g THEN texts[n + 1 - i] ELSE <<>>])
Kept(s, n, l) == \A i \in 1..n : ~(From(s[i]) <= l /\ l <= To(s[i]))
LineOrNot(s, n, ls, x) == IF x <= Len(ls) /\ Kept(s, n, x) THEN <<ls[x]>> ELSE <<>>
Patched(s, n, ls, texts) ==
    FlattenSeq([x \in 1..(Len(ls) + 1) |-> Gap(s, n, x - 1, texts) \o LineOrNot(s, n, ls, x)])

\* The text of each command when a reference r stands for the lines of[r].
PieceText(q, of) == IF q.ref THEN Transform(of[q.to], q.to) ELSE <<q.line>>
TextOf(input, of) == FlattenSeq([j \in DOMAIN input |-> PieceText(input[j], of)])
Texts(s, of) == [i \in DOMAIN s |-> TextOf(s[i].input, of)]
Output(of) == JoinLines(Patched(script, Len(script), content.lines, Texts(script, of)), endsNl)

\* However the corpus is rewritten while a script is applied, the output is what
\* one state of it would have given: each file is read once in a call, so two
\* references never mix two versions of it (RefCache).
OneSnapshot ==
    phase = "done" =>
        \E snap \in [{r.path : r \in refs} -> Versions] :
            /\ \A r \in refs : Resolves(ReadNow(snap[r.path]), r)
            /\ out = <<Output([r \in refs |-> Run(ReadNow(snap[r.path]).lines, r)])>>

\* A script whose references all carry a hash gives the text its author meant or
\* fails: no state of the corpus, and no change of it during the call, gets a
\* third result.
HashedIsIntended ==
    phase = "done" /\ (\A r \in refs : r.has_hash) =>
        out = <<Output([r \in refs |-> r.hash])>>

-----------------------------------------------------------------------------
(* The inductive invariant of the proofs: what validation has established of  *)
(* the commands before k, and what it and the steps so far leave for the rest. *)

ValidatedSoFar ==
    phase = "validate" =>
        /\ lines = <<>>
        /\ \A i \in 1..(k - 1) : barrier <= AffectedLow(script[i])
        /\ \A j \in 1..(k - 1) : \A i \in 1..(j - 1) :
              AddressedTop(script[j]) < AffectedLow(script[i])
        /\ barrier = MaxLine \/ \E i \in 1..(k - 1) : barrier = AffectedLow(script[i])

AppliedSoFar ==
    applying =>
        /\ Descending(script)
        /\ IF k = 1 THEN lines = content.lines /\ barrier = Len(content.lines) + 1
                    ELSE barrier = AffectedLow(script[k - 1])
        /\ \A i \in 1..(k - 1) : InRange(script[i], Len(content.lines))
        /\ phase = "done" => k = Len(script) + 1

ErrorsSoFar ==
    /\ error # "none" <=> phase = "failed"
    /\ phase = "failed" => k <= Len(script)

IInv == TypeOK /\ ValidatedSoFar /\ AppliedSoFar /\ PrefixIntact /\ ErrorsSoFar
        /\ OrderExact /\ RangeIsOriginals

\* What the cache has for each reference, and that it has all of an input block.
quoted == [r \in refs |-> IF Resolves(cache[r.path], r) THEN Run(cache[r.path].lines, r)
                                                      ELSE <<>>]
Quoted(input) == \A j \in DOMAIN input :
    input[j].ref => Resolves(cache[input[j].to.path], input[j].to)

\* The cache holds what was read; the commands so far, with their texts as the cache
\* has them, and addressed in the original, give the buffer.
CacheIsRead ==
    \A f \in Path : cache[f] = Unread \/ \E v \in Versions : cache[f] = ReadNow(v)

QuotedSoFar ==
    /\ phase \in {"apply", "input", "done"} =>
          /\ \A i \in 1..(k - 1) : Quoted(script[i].input)
          /\ lines = Patched(script, k - 1, content.lines, Texts(script, quoted))
    /\ phase = "input" =>
          LET sofar == SubSeq(Cmd.input, 1, p - 1)
          IN  Quoted(sofar) /\ ins = TextOf(sofar, quoted)
    /\ phase = "done" => out = <<JoinLines(lines, endsNl)>>

TextInv == IInv /\ CacheIsRead /\ QuotedSoFar
=============================================================================
