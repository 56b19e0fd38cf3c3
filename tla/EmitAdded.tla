----------------------------- MODULE EmitAdded -----------------------------
(***************************************************************************)
(* emit_added_corpus (tools/changes.cpp; tools/matcher.cpp has the same    *)
(* loop): a block is factorized and then written as the input of an ed     *)
(* command, literal lines and references to the corpus, each with a guard. *)
(* The engine will expand the references again.                            *)
(***************************************************************************)
EXTENDS Factorize

CONSTANT Hashed     \* --hash: which settings to take

VARIABLES
    hash,   \* --hash
    pos,    \* the next line of the block to write
    out     \* the pieces written

vars == <<input, matching, hash, pos, out>>

EmitTypeOK ==
    /\ TypeOK
    /\ hash \in BOOLEAN
    /\ pos \in 1..(Len(block) + 1)
    /\ out \in Seq(Piece)

EmitInit == Init /\ hash \in Hashed /\ pos = 1 /\ out = <<>>

-----------------------------------------------------------------------------
(* References and their guards.                                            *)

\* Mutant: the guard does not count the newlines.
RefShort(f, from, to, trim, lpad, rpad) ==
    LET ls == SubSeq(Disk(f), from, to)
    IN  [path |-> f, begin |-> from, end |-> to,
         bytes |-> IF hash THEN NoGuard ELSE TotalBytes(ls) - Len(ls), has_hash |-> hash,
         hash |-> IF hash THEN ls ELSE <<>>, trim |-> trim, lpad |-> lpad, rpad |-> rpad]

\* emit_ref, make_guard: a file is named by its id.
RefOf(f, from, to, trim, lpad, rpad) ==
    LET ls == SubSeq(Disk(f), from, to)
    IN  [path |-> f, begin |-> from, end |-> to,
         bytes |-> IF hash THEN NoGuard ELSE TotalBytes(ls), has_hash |-> hash,
         hash |-> IF hash THEN ls ELSE <<>>, trim |-> trim, lpad |-> lpad, rpad |-> rpad]

Writing == todo = {} /\ pos <= Len(block)
Within(r) == r \in runs /\ r.block_begin <= pos /\ pos < r.block_end
Exact(r, i) == Disk(r.file_id)[CorpusLineOf(r, i)] = block[i]

Write(piece, n) ==
    /\ out' = Append(out, piece)
    /\ pos' = pos + n
    /\ UNCHANGED <<input, matching, hash>>

-----------------------------------------------------------------------------
(* The loop over the block.                                                *)

WriteLiteral ==
    /\ Writing /\ \A r \in runs : ~Within(r)
    /\ Write(Literal(block[pos]), 1)

\* Byte index: one reference for the run.
WriteRun(r) ==
    /\ Writing /\ ~normalized /\ Within(r)
    /\ Write(Reference(RefOf(r.file_id, r.corpus_begin, r.corpus_end, FALSE, <<>>, <<>>)),
             Length(r))

\* Mutant: the stretch may cross the end of the run.
StretchPast(r) ==
    Max({n \in 1..(Len(block) - pos + 1) :
            /\ CorpusLineOf(r, pos + n - 1) \in DOMAIN Disk(r.file_id)
            /\ \A i \in pos..(pos + n - 2) : Exact(r, i)})

\* How many lines from pos on are the very lines of the corpus.
Stretch(r) ==
    Max({n \in 1..(r.block_end - pos) : \A i \in pos..(pos + n - 1) : Exact(r, i)})

\* Normalized index: one reference for each stretch of identical lines.
WriteExact(r) ==
    /\ Writing /\ normalized /\ Within(r) /\ Exact(r, pos)
    /\ LET c == CorpusLineOf(r, pos)
       IN  Write(Reference(RefOf(r.file_id, c, c + Stretch(r) - 1, FALSE, <<>>, <<>>)),
                 Stretch(r))

\* A line that differs: the code of the corpus in the blanks of the block
\* (trim_pad_for), unless there is no code.
WritePadded(r) ==
    /\ Writing /\ normalized /\ Within(r) /\ ~Exact(r, pos)
    /\ block[pos].core # NoCore /\ Disk(r.file_id)[CorpusLineOf(r, pos)].core # NoCore
    /\ LET c == CorpusLineOf(r, pos)
       IN  Write(Reference(RefOf(r.file_id, c, c, TRUE, block[pos].lead, block[pos].trail)), 1)

WriteBlank(r) ==
    /\ Writing /\ normalized /\ Within(r) /\ ~Exact(r, pos)
    /\ block[pos].core = NoCore \/ Disk(r.file_id)[CorpusLineOf(r, pos)].core = NoCore
    /\ Write(Literal(block[pos]), 1)

Next == \/ Match /\ UNCHANGED <<hash, pos, out>>
        \/ WriteLiteral
        \/ \E r \in runs : WriteRun(r) \/ WriteExact(r) \/ WritePadded(r) \/ WriteBlank(r)

EmitSpec == EmitInit /\ [][Next]_vars

-----------------------------------------------------------------------------
(* Properties.                                                             *)

AsRead(f) == [ok |-> TRUE, lines |-> Disk(f)]

\* Every reference resolves in the corpus it was written against: the guard counts
\* what the engine will count.
GuardsHold ==
    \A n \in DOMAIN out : out[n].ref => Resolves(AsRead(out[n].to.path), out[n].to)

\* The lines the engine makes of a piece: it is read back, literal or not, and
\* resolved (parse_ed_input_piece, build_input).
Expand(piece) ==
    LET read == IF piece.ref THEN piece ELSE ReadPiece(piece.line)
    IN  IF read.ref THEN Transform(Run(Disk(read.to.path), read.to), read.to) ELSE <<read.line>>
Expanded == FlattenSeq([n \in DOMAIN out |-> Expand(out[n])])

\* A line that was written as it is and reads as a directive.
TextIsRead == \E n \in DOMAIN out : ~out[n].ref /\ IsDirective(out[n].line)

\* The same line, or for a normalized index the same code; between the same blanks,
\* but that the engine leaves the feeds of the corpus line where they are.
Reproduces(l, m) ==
    \/ l = m
    \/ /\ normalized /\ TokenKey[l.core] = TokenKey[m.core]
       /\ Feeds(m.lead) \cup Feeds(m.trail) = {} => l.lead = m.lead /\ l.trail = m.trail

\* What has been written expands to the block as far as it has been written, line
\* by line, unless a line of it reads as a directive: nothing is lost, doubled or out
\* of order where literals, runs and the pieces of a run meet.
ExpandsToBlock ==
    ~TextIsRead =>
        /\ Len(Expanded) = pos - 1
        /\ \A i \in DOMAIN Expanded : Reproduces(Expanded[i], block[i])

\* What README.md promises of normalized indexes: "strings, heredocs/nowdocs and
\* multi-line tokens stay byte-safe" (lines 300-301).  The lines of a string expand
\* to themselves.
StringsStay ==
    ~TextIsRead => \A i \in DOMAIN Expanded : Quoted(i) => Expanded[i] = block[i]
=============================================================================
