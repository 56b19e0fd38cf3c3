----------------------------- MODULE Factorize -----------------------------
(***************************************************************************)
(* factorize (tools/matcher_core.hpp), with the notions of key and of      *)
(* equality its caller in tools/changes.cpp gives it: which runs of lines  *)
(* of a block are copies of lines of the corpus.  The index that proposes  *)
(* the places to look at was built earlier, perhaps from another state of  *)
(* the corpus.                                                             *)
(*                                                                         *)
(* Lines of the block are numbered from 1; a run holds the lines           *)
(* block_begin..block_end-1, as in the code.                               *)
(***************************************************************************)
EXTENDS EdCommands, FiniteSets, FiniteSetsExt

CONSTANTS
    Blocks,         \* the blocks of added lines
    Corpora,        \* states of the corpus: sequences of files
    TokenKey,       \* [Core -> Core], what php-token normalization makes of a line
    IndexedKeys,    \* the keys that are long enough
    Openers, Closers,   \* the cores of lines that begin and end a string of many lines
    MinRuns         \* --min-run

ASSUME FactorizeAssumption ==
    /\ Blocks \subseteq Seq(Line) /\ Corpora \subseteq Seq(File)
    /\ TokenKey \in [Core -> Core]
    /\ \A c \in Core : TokenKey[c] = NoCore <=> c = NoCore
    /\ \A c \in Core : TokenKey[TokenKey[c]] = TokenKey[c]
    /\ IndexedKeys \subseteq Line \ {EmptyLine}
    /\ Openers \subseteq Core /\ Closers \subseteq Core \ Openers
    /\ MinRuns \subseteq Nat

VARIABLES
    block, corpus, normalized, min_run,
    index,      \* the postings of each key: places <<file_id, lineno>>
    todo,       \* the anchors not yet looked at
    covered,    \* block lines that belong to a run
    runs

input == <<block, corpus, normalized, min_run, index>>
matching == <<todo, covered, runs>>

\* The key of a line of code in a byte index, its core (match::trim), or in a
\* normalized one, its tokens: a feed is one, the other blanks are not.  The corpora
\* of this model have no lines inside strings.
FeedsOf(s) == [n \in 1..Cardinality(Feeds(s)) |-> "ff"]
KeyOf(l, norm) ==
    IF norm THEN [lead |-> FeedsOf(l.lead), core |-> TokenKey[l.core], trail |-> FeedsOf(l.trail)]
            ELSE PlainLine(l.core)

\* Blank keys and short ones are not indexed.
Places(files) == UNION {{f} \X (DOMAIN files[f].lines) : f \in DOMAIN files}
IndexOf(files, norm) ==
    [k \in IndexedKeys |-> {p \in Places(files) : KeyOf(files[p[1]].lines[p[2]], norm) = k}]

\* Block line i is inside a string that the block begins: a heredoc without variables.
Quoted(i) == \E o \in 1..(i - 1) :
    /\ block[o].core \in Openers
    /\ \A j \in (o + 1)..i : block[j].core \notin Closers

\* normalize.php answers for a line inside a string with the line itself, also when it
\* is the only one with text and not marked as indivisible (nonempty >= 2); and the mark
\* (the flag of the answer) is dropped.
Key(i) == IF normalized /\ Quoted(i) THEN Chomp(block[i]) ELSE KeyOf(block[i], normalized)
Postings(i) == IF Key(i) \in DOMAIN index THEN index[Key(i)] ELSE {}
Weight(i) == Cardinality(Postings(i))

Disk(f) == CorpusLines(corpus[f])

\* Whether block line i matches line ln of file f as it is now.
Equal(i, f, ln) ==
    /\ ln \in DOMAIN Disk(f)
    /\ IF normalized THEN KeyOf(Disk(f)[ln], TRUE) = Key(i) ELSE Disk(f)[ln] = block[i]

TypeOK ==
    /\ block \in Blocks /\ corpus \in Corpora /\ normalized \in BOOLEAN
    /\ min_run \in Nat \ {0}
    /\ index \in [IndexedKeys -> SUBSET ((DOMAIN corpus) \X Nat)]
    /\ todo \subseteq DOMAIN block /\ covered \subseteq DOMAIN block
    /\ runs \subseteq [block_begin : Nat, block_end : Nat, file_id : DOMAIN corpus,
                       corpus_begin : Nat, corpus_end : Nat]

AtLeastOne(m) == IF m = 0 THEN 1 ELSE m

Init ==
    /\ block \in Blocks /\ corpus \in Corpora /\ normalized \in BOOLEAN
    /\ \E m \in MinRuns : min_run = AtLeastOne(m)
    /\ \E built \in Corpora : Len(built) = Len(corpus) /\ index = IndexOf(built, normalized)
    /\ todo = {i \in DOMAIN block : Postings(i) # {}}
    /\ covered = {} /\ runs = {}

-----------------------------------------------------------------------------
(* One anchor at a time, the rarest first, ties in any order (std::sort).  *)

\* Mutant: a run may grow into another one.
FreeOverlapping(i, f, ln) == i \in DOMAIN block /\ Equal(i, f, ln)

\* A run may take block line i for line ln of file f.
Free(i, f, ln) == i \in DOMAIN block /\ i \notin covered /\ Equal(i, f, ln)

\* Mutant: no growing upwards.
UpNever(i, f, ln) == 0
Up(i, f, ln) == Max({k \in 0..i : \A j \in 1..k : Free(i - j, f, ln - j)})
Down(i, f, ln) == Max({k \in 0..Len(block) : \A j \in 1..k : Free(i + j, f, ln + j)})

\* The run around anchor i as line ln of file f.
RunAround(i, f, ln) ==
    [block_begin |-> i - Up(i, f, ln), block_end |-> i + Down(i, f, ln) + 1, file_id |-> f,
     corpus_begin |-> ln - Up(i, f, ln), corpus_end |-> ln + Down(i, f, ln)]

Length(r) == r.block_end - r.block_begin

\* Mutant: what the index says is not verified.
CandidatesUnverified(i) == {RunAround(i, p[1], p[2]) : p \in Postings(i)}

Candidates(i) ==
    {RunAround(i, p[1], p[2]) : p \in {p \in Postings(i) : Equal(i, p[1], p[2])}}

\* The corpus line that stands at block line i of run r; postings are in scan order.
CorpusLineOf(r, i) == r.corpus_begin + i - r.block_begin
Earlier(r, s, i) ==
    \/ r.file_id < s.file_id
    \/ r.file_id = s.file_id /\ CorpusLineOf(r, i) < CorpusLineOf(s, i)
Earliest(rs, i) == CHOOSE r \in rs : \A s \in rs \ {r} : Earlier(r, s, i)

\* Mutant: the first candidate instead of the longest.
BestFirst(i) == Earliest(Candidates(i), i)

\* The longest run, the first of several.
Longest(rs) == {r \in rs : \A s \in rs : Length(s) <= Length(r)}
Best(i) == Earliest(Longest(Candidates(i)), i)

NextAnchor(i) == i \in todo /\ (\A j \in todo : Weight(i) <= Weight(j)) /\ todo' = todo \ {i}

HasRun(i) == Candidates(i) # {} /\ Length(Best(i)) >= min_run

\* The anchor is in a run already, or no place in the corpus gives one.
PassOver(i) ==
    /\ NextAnchor(i)
    /\ i \in covered \/ ~HasRun(i)
    /\ UNCHANGED <<input, covered, runs>>

TakeRun(i) ==
    /\ NextAnchor(i)
    /\ i \notin covered /\ HasRun(i)
    /\ LET r == Best(i)
       IN  /\ runs' = runs \cup {r}
           /\ covered' = covered \cup r.block_begin..(r.block_end - 1)
    /\ UNCHANGED input

Match == \E i \in DOMAIN block : PassOver(i) \/ TakeRun(i)

-----------------------------------------------------------------------------
(* Properties.                                                             *)

\* A run is a copy, line by line, of lines that are in the corpus now, whatever
\* the index says of it, and it is long enough.
RunsAreCopies ==
    \A r \in runs :
        /\ Length(r) >= min_run
        /\ Length(r) = r.corpus_end - r.corpus_begin + 1
        /\ \A k \in 0..(Length(r) - 1) :
              r.block_begin + k \in DOMAIN block
                 /\ Equal(r.block_begin + k, r.file_id, r.corpus_begin + k)

\* No line of the block is in two runs, so that the runs can be written in the
\* order of the block and every line is written once.
RunsAreDisjoint ==
    \A r, s \in runs : r # s => r.block_end <= s.block_begin \/ s.block_end <= r.block_begin

\* No run could be longer: what stands before or after it in the block is another
\* run, or not what stands there in the corpus.
RunsAreMaximal ==
    \A r \in runs : /\ ~Free(r.block_begin - 1, r.file_id, r.corpus_begin - 1)
                    /\ ~Free(r.block_end, r.file_id, r.corpus_end + 1)

\* The greedy choice leaves no run behind: in the end no line that was left out
\* has a place in the index around which the lines left out make a run.
NothingMissed ==
    todo = {} =>
        \A i \in DOMAIN block \ covered : \A r \in Candidates(i) : Length(r) < min_run
=============================================================================
