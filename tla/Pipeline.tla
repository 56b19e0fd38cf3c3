------------------------------ MODULE Pipeline ------------------------------
(***************************************************************************)
(* The way of a patch: the generator (Changes) writes a bundle, line by    *)
(* line, into a file; an extension reads that file, or one that was        *)
(* written by hand, and parses it (PatchBundle); its engine applies the    *)
(* commands.                                                               *)
(*                                                                         *)
(* The generator writes in place and returns 0 without a look at the       *)
(* stream, so that after a crash, or on a full disk, the file is any       *)
(* beginning of the bundle, cut between two lines or inside one.           *)
(***************************************************************************)
EXTENDS Changes

CONSTANTS
    Foreign,        \* bundles written by hand
    MaxCut,         \* the longest output that is also tried in parts
    Dotted,         \* the cores that begin with a dot and go on
    NoPath, Key, Canonical, Real, Base      \* as in PatchBundle

VARIABLES bundle, parsing, i, index, section, pending, basenames

parser == <<bundle, parsing, i, index, section, pending, basenames>>

P == INSTANCE PatchBundle WITH phase <- parsing, current <- section

ASSUME PipelineAssumption ==
    /\ Foreign \subseteq Seq(P!Token)
    /\ MaxCut \in Nat /\ Dotted \subseteq Core \ {NoCore, Dot} /\ NoPath \notin Path
    /\ Key \subseteq Nat
    /\ Canonical \in [Path -> Key] /\ Real \in [Key -> Key] /\ DOMAIN Base = Key

PipeInit == Init /\ P!Init

\* What is left of a line that is cut: of a header a comment, or a header with
\* another path or none; of a command digits only; of a text, perhaps, the dot it
\* began with.
Remains(tok) ==
    CASE tok.t \in {"magic", "comment"} -> {[t |-> "comment"]}
      [] tok.t \in {"file", "newfile"} ->
            {[t |-> "comment"]} \cup {Header(tok.t, p) : p \in Path \cup {NoPath}}
      [] tok.t \in {"delete", "input"} -> {[t |-> "text"]}
      [] tok.t = "text" -> {tok} \cup IF tok.line.lead = <<>> /\ tok.line.core \in Dotted
                                      THEN {DotToken} ELSE {}
      [] OTHER -> {}

Parts == {SubSeq(output, 1, n) : n \in 0..Len(output)}
         \cup UNION {{Append(SubSeq(output, 1, n - 1), tok) : tok \in Remains(output[n])} :
                        n \in DOMAIN output}

Deploy ==
    /\ phase \in {"done", "died"} /\ parsing = "idle"
    /\ \/ P!Read(output)
       \/ Len(output) <= MaxCut /\ \E part \in Parts : P!Read(part)
       \/ deltas = <<>> /\ \E text \in Foreign : P!Read(text)
    /\ UNCHANGED vars

PipeNext == \/ Next /\ UNCHANGED parser
            \/ Deploy
            \/ P!Parse /\ UNCHANGED vars

PipeSpec == PipeInit /\ [][PipeNext]_<<vars, parser>>

-----------------------------------------------------------------------------
(* The parser's properties hold of every bundle, whole or cut, generated   *)
(* or not.                                                                 *)

\* An accepted bundle is in the index line for line (PatchBundle).
NothingLost == P!NothingLost

\* Commands belong to the header above them (PatchBundle).
OwnedByHeader == P!OwnedByHeader

\* The binary search finds just the keys of the index (PatchBundle).
FindIsExact == P!FindIsExact

\* The basename filter lets every indexed file through (PatchBundle).
FilterIsComplete == P!FilterIsComplete

-----------------------------------------------------------------------------
(* What becomes of the files.                                              *)

\* The command the parser made of these lines, as the engine gets it.
ReadCommand(c) ==
    LET address == IF bundle[c.at].t = "newfile" THEN [kind |-> "append", start |-> 0, end |-> 0]
                                                 ELSE bundle[c.at].cmd
    IN  [kind |-> address.kind, start |-> address.start, end |-> address.end,
         input |-> [n \in DOMAIN c.input |-> ReadPiece(bundle[c.input[n]].line)]]

Script(n) == [m \in DOMAIN index[n].commands |-> ReadCommand(index[n].commands[m])]

\* validate_command_order, and the range checks of apply_ed_script.
Accepted(script, size) ==
    /\ \A m, n \in DOMAIN script : m < n => AddressedTop(script[n]) < AffectedLow(script[m])
    /\ \A n \in DOMAIN script : InRange(script[n], size)

\* The buffer of the engine, in pieces: the references are not resolved yet (EdScript
\* does that), and none of them moves a line that a later command names.
Patched(script, pieces) ==
    LET made[n \in 0..Len(script)] ==
            IF n = 0 THEN pieces ELSE Splice(made[n - 1], script[n], script[n].input)
    IN  made[Len(script)]

Literals(lines) == [n \in DOMAIN lines |-> Literal(lines[n])]

\* The piece is line m of the new file as it is, or as the engine reads it in a text: a
\* final CR is gone, and a line that is a complete r directive is a reference.
Same(piece, m) == piece = Literal(m) \/ piece = ReadPiece(Chomp(m))

Encoded == {d \in {deltas[n] : n \in DOMAIN deltas} :
                Encodable(d) /\ (d.status = "added" \/ Changed(d) # {})}
EntryOf(d, n) == index[n].key = Canonical[d.path] /\ (index[n].creates <=> d.status = "added")

\* A text with a lone dot in it cannot be written: the dot ends the block early.
LoneDot == \E d \in Encoded : \E p \in DOMAIN d.ops :
              d.ops[p] = "add" /\ Chomp(LineAt(d, p)) = PlainLine(Dot)

\* Two names of one file (a symbolic link): its sections are duplicates.
OneFileTwice == \E c, d \in Encoded : c # d /\ Canonical[c.path] = Canonical[d.path]

\* From the diff to the patched files: a bundle that arrives whole is accepted, unless
\* two of its files are one, and has a section for each file that can be encoded and for
\* no other; the engine accepts its script for the old file, and the script makes the
\* lines of the new file.  Not reproduced are a final CR of an added line, an added line
\* that reads as a reference (emit_added_plain escapes nothing, and the engine puts other
\* lines there), and texts with a lone dot, after which anything may be read.
FilesAreReproduced ==
    bundle # <<>> /\ bundle = output /\ ~LoneDot =>
        /\ parsing = "failed" => OneFileTwice
        /\ parsing = "parsed" =>
              /\ Len(index) = Cardinality(Encoded)
              /\ \A d \in Encoded : \E n \in DOMAIN index :
                    /\ EntryOf(d, n) /\ Accepted(Script(n), OldLen(d))
                    /\ LET made == Patched(Script(n), Literals(OldFile(d).lines))
                           wanted == NewFile(d).lines
                       IN  /\ Len(made) = Len(wanted)
                           /\ \A l \in DOMAIN wanted : Same(made[l], wanted[l])

\* The old file down to where some op begins and the new one from there.
Mixture(d, p) ==
    LET old == SubSeq(OldFile(d).lines, 1, OldBefore(d, p))
        new == NewFile(d).lines
    IN  old \o SubSeq(new, NewBefore(d, p) + 1, Len(new))

StartsWithDot == \E d \in Encoded : \E p \in DOMAIN d.ops :
    d.ops[p] = "add" /\ LineAt(d, p).lead = <<>> /\ LineAt(d, p).core \in Dotted \cup {Dot}

\* A bundle that was cut short is refused, or patches each file it has a section
\* for from its end up to some place, with whole commands: no half of a text gets
\* into a file, unless a text has a line that begins with a dot.
CutIsWhole ==
    parsing = "parsed" /\ deltas # <<>> /\ ~StartsWithDot =>
        \A n \in DOMAIN index : \E d \in Encoded :
            /\ EntryOf(d, n) /\ Accepted(Script(n), OldLen(d))
            /\ \E p \in 1..(Len(d.ops) + 1) :
                  LET made == Patched(Script(n), Literals(OldFile(d).lines))
                  IN  /\ Len(made) = Len(Mixture(d, p))
                      /\ \A l \in DOMAIN made : Same(made[l], Mixture(d, p)[l])
=============================================================================
