----------------------------- MODULE EdCommands -----------------------------
(***************************************************************************)
(* The vocabulary of a phpatcher-ed script (patch.hpp, patch.cpp): lines,  *)
(* corpus references, commands, and the pure operators on them that the    *)
(* patch engine, its abstract specification and the patch generator share. *)
(*                                                                         *)
(* A line is a core between two runs of blanks, which is all that the      *)
(* engine's conversions (CR stripping, trimming, padding) look at.  A      *)
(* content hash is modelled as the hashed lines themselves: ref_hash, two  *)
(* 64-bit lanes and not cryptographic, is taken to have no collision on    *)
(* the contents of one model.                                              *)
(***************************************************************************)
EXTENDS Integers, Sequences, SequencesExt

CONSTANTS
    Core,       \* the non-blank texts of lines
    NoCore,     \* the empty one, for lines of blanks only
    CoreBytes,  \* how many bytes each core takes
    Path,       \* the files a reference may name
    ReadsAs     \* the cores that are a complete r directive, with its reference

\* What the generator trims off a line (match::trim); "ff" is a form feed or a
\* vertical tab, which the engine takes for text.
Blank == {"space", "tab", "cr", "ff"}
Line == [lead : Seq(Blank), core : Core, trail : Seq(Blank)]

PlainLine(c) == [lead |-> <<>>, core |-> c, trail |-> <<>>]
EmptyLine == PlainLine(NoCore)

\* The line of a core between two pads; blanks alone have no two sides.
PadLine(lpad, c, rpad) ==
    IF c = NoCore THEN [lead |-> <<>>, core |-> c, trail |-> lpad \o rpad]
                  ELSE [lead |-> lpad, core |-> c, trail |-> rpad]

\* What trim_blanks leaves of a run of blanks at the left and at the right of a text.
Feeds(s) == {i \in DOMAIN s : s[i] = "ff"}
StripLead(s) == IF Feeds(s) = {} THEN <<>> ELSE SubSeq(s, Min(Feeds(s)), Len(s))
StripTrail(s) == IF Feeds(s) = {} THEN <<>> ELSE SubSeq(s, 1, Max(Feeds(s)))

TrimBlanks(l) ==
    IF l.core = NoCore THEN [l EXCEPT !.trail = StripLead(StripTrail(l.trail))]
    ELSE [l EXCEPT !.lead = StripLead(l.lead), !.trail = StripTrail(l.trail)]

\* phpatcher_split_lines drops one CR before the newline of a corpus line.
Chomp(l) ==
    IF l.trail # <<>> /\ l.trail[Len(l.trail)] = "cr"
    THEN [l EXCEPT !.trail = SubSeq(l.trail, 1, Len(l.trail) - 1)]
    ELSE l

LineBytes(l) == Len(l.lead) + CoreBytes[l.core] + Len(l.trail) + 1
TotalBytes(ls) == FoldLeft(LAMBDA sum, l : sum + LineBytes(l), 0, ls)

-----------------------------------------------------------------------------
(* Files.  A file is its lines and whether a newline ends the last one.    *)

File == [lines : Seq(Line), nl : BOOLEAN]
EmptyFile == [lines |-> <<>>, nl |-> FALSE]

\* The bytes join_lines writes, as the file that split_lines reads in them:
\* an unterminated empty last line leaves no byte of its own.
JoinLines(ls, nl) ==
    CASE ls = <<>> -> EmptyFile
      [] ls = <<EmptyLine>> /\ ~nl -> EmptyFile
      [] Len(ls) > 1 /\ ls[Len(ls)] = EmptyLine /\ ~nl ->
            [lines |-> SubSeq(ls, 1, Len(ls) - 1), nl |-> TRUE]
      [] OTHER -> [lines |-> ls, nl |-> nl]

-----------------------------------------------------------------------------
(* References and commands.                                                *)

NoGuard == -1

Ref == [path : Path, begin : Nat, end : Nat,
        bytes : Nat \cup {NoGuard}, has_hash : BOOLEAN, hash : Seq(Line),
        trim : BOOLEAN, lpad : Seq(Blank), rpad : Seq(Blank)]

Piece == [ref : {FALSE}, line : Line] \cup [ref : {TRUE}, to : Ref]
Command == [kind : {"delete", "change", "append", "insert"},
            start : Nat, end : Nat, input : Seq(Piece)]

Literal(l) == [ref |-> FALSE, line |-> l]
Reference(r) == [ref |-> TRUE, to |-> r]

ASSUME CoreAssumption ==
    /\ NoCore \in Core /\ CoreBytes \in [Core -> Nat]
    /\ DOMAIN ReadsAs \subseteq Core \ {NoCore}
    /\ \A c \in DOMAIN ReadsAs :
          /\ ReadsAs[c] \in Ref
          /\ 1 <= ReadsAs[c].begin /\ ReadsAs[c].begin <= ReadsAs[c].end
          /\ (ReadsAs[c].bytes # NoGuard \/ ReadsAs[c].has_hash)

\* parse_r_directive, on a line that begins with the directive: more spaces may
\* follow its guard, and nothing else.
IsDirective(l) == /\ l.lead = <<>> /\ l.core \in DOMAIN ReadsAs
                  /\ \A i \in DOMAIN l.trail : l.trail[i] = "space"

\* parse_ed_input_piece
ReadPiece(l) == IF IsDirective(l) THEN Reference(ReadsAs[l.core]) ELSE Literal(l)

\* A command replaces the lines From(c)..To(c); an insertion replaces none.
From(c) == IF c.kind = "append" THEN c.start + 1 ELSE c.start
To(c) == IF c.kind \in {"delete", "change"} THEN c.end ELSE From(c) - 1

\* The highest line that has to be in place, and the lowest one disturbed.
AddressedTop(c) == IF c.kind \in {"delete", "change"} THEN c.end ELSE c.start
AffectedLow(c) == From(c)

InRange(c, size) ==
    \/ c.kind \in {"delete", "change"} /\ 1 <= c.start /\ c.start <= c.end /\ c.end <= size
    \/ c.kind = "append" /\ c.start <= size
    \/ c.kind = "insert" /\ 1 <= c.start /\ c.start <= size + 1

\* Mutant: the line above the range goes as well.
SpliceHigh(ls, c, text) ==
    SubSeq(ls, 1, From(c) - 1) \o text \o SubSeq(ls, To(c) + 2, Len(ls))

Splice(ls, c, text) ==
    SubSeq(ls, 1, From(c) - 1) \o text \o SubSeq(ls, To(c) + 1, Len(ls))

-----------------------------------------------------------------------------
(* Resolving a reference against what was read of its file.                *)

\* What phpatcher_split_lines makes of a file: CRs go, except in a last line
\* that no newline ends.
CorpusLines(f) ==
    [i \in DOMAIN f.lines |-> IF i = Len(f.lines) /\ ~f.nl THEN f.lines[i]
                                                       ELSE Chomp(f.lines[i])]

\* A file read for its lines: whether the read succeeded, and the lines.
Entry == [ok : BOOLEAN, lines : Seq(Line)]

Run(ls, r) == SubSeq(ls, r.begin, r.end)

\* Mutant: the hash is not looked at.
ResolvesUnhashed(entry, r) ==
    /\ entry.ok
    /\ 1 <= r.begin /\ r.begin <= r.end /\ r.end <= Len(entry.lines)
    /\ r.bytes # NoGuard => TotalBytes(Run(entry.lines, r)) = r.bytes

Resolves(entry, r) ==
    /\ entry.ok
    /\ 1 <= r.begin /\ r.begin <= r.end /\ r.end <= Len(entry.lines)
    /\ r.bytes # NoGuard => TotalBytes(Run(entry.lines, r)) = r.bytes
    /\ r.has_hash => Run(entry.lines, r) = r.hash

\* A line between two more pads.
Pad(lpad, l, rpad) == PadLine(lpad \o l.lead, l.core, l.trail \o rpad)

\* The lines a reference contributes once resolved to `run`.
Transform(run, r) ==
    IF r.trim THEN [i \in DOMAIN run |-> Pad(r.lpad, TrimBlanks(run[i]), r.rpad)] ELSE run
=============================================================================
