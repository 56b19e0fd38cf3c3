-------------------------- MODULE Pipeline_proofs --------------------------
(***************************************************************************)
(* Proofs about the pipeline from a diff to a patched file, for any diffs, *)
(* any bundles and any cut. First the parser of bundles alone              *)
(* (PatchBundle): what it makes of any file, what the generator writes or  *)
(* what is written by hand. Then both ends together. A diff has stretches  *)
(* of changed ops, its groups, and a plan is a list of them from the last  *)
(* to the first; the generator gathers the groups from the callbacks and   *)
(* writes a plan (Telling: each line of the output has a note that says    *)
(* where it is from). The parser that has read a line is where the note of *)
(* the line says, unless a lone dot threw it off or the bundle was cut     *)
(* there (Reading). So the commands of an entry are the first of a plan    *)
(* (PlanAccepted, PlanMakes).                                              *)
(***************************************************************************)
EXTENDS Pipeline, EdLemmas, FiniteSetTheorems

-----------------------------------------------------------------------------
(* Sequences of tokens.                                                    *)

\* A header has a path, or lacks one.
TokenOK(tok) == tok.t \in {"file", "newfile"} => tok.path \in Path \cup {NoPath}

AllOf(s, S) == s \in Seq(S) /\ \A x \in S : TokenOK(x)
Tokens(s) == \E S : AllOf(s, S)
AnySeq(s) == \E S : s \in Seq(S)

LEMMA TokensAre ==
    ASSUME NEW s, Tokens(s)
    PROVE  Len(s) \in Nat /\ DOMAIN s = 1..Len(s) /\ \A n \in DOMAIN s : TokenOK(s[n])
<1>1. PICK S : s \in Seq(S) /\ \A x \in S : TokenOK(x)
  BY DEF Tokens, AllOf
<1> HIDE DEF TokenOK
<1> QED BY <1>1, LenProperties, ElementOfSeq

LEMMA NoTokens == Tokens(<<>>)
<1>1. AllOf(<<>>, {})
  BY DEF AllOf
<1> QED BY <1>1 DEF Tokens

LEMMA OneToken ==
    ASSUME NEW tok, TokenOK(tok)
    PROVE  Tokens(<<tok>>)
<1>1. AllOf(<<tok>>, {tok})
  BY DEF AllOf
<1> QED BY <1>1 DEF Tokens

LEMMA ConcatTokens ==
    ASSUME NEW s, NEW t, Tokens(s), Tokens(t)
    PROVE  Tokens(s \o t)
<1>1. PICK S : AllOf(s, S)
  BY DEF Tokens
<1>2. PICK T : AllOf(t, T)
  BY DEF Tokens
<1>3. s \in Seq(S \cup T) /\ t \in Seq(S \cup T)
  BY <1>1, <1>2, SeqMonotonic DEF AllOf
<1>4. s \o t \in Seq(S \cup T)
  BY <1>3, ConcatProperties
<1>5. AllOf(s \o t, S \cup T)
  BY <1>1, <1>2, <1>4 DEF AllOf
<1> QED BY <1>5 DEF Tokens

LEMMA AppendTokens ==
    ASSUME NEW s, NEW tok, Tokens(s), TokenOK(tok)
    PROVE  Tokens(Append(s, tok))
<1>1. PICK S : AllOf(s, S)
  BY DEF Tokens
<1>2. s \in Seq(S \cup {tok})
  BY <1>1, SeqMonotonic DEF AllOf
<1>3. AllOf(Append(s, tok), S \cup {tok})
  BY <1>1, <1>2 DEF AllOf
<1> QED BY <1>3 DEF Tokens

LEMMA CutTokens ==
    ASSUME NEW s, Tokens(s), NEW n \in 0..Len(s)
    PROVE  Tokens(SubSeq(s, 1, n))
<1>1. PICK S : AllOf(s, S)
  BY DEF Tokens
<1>2. \A m \in 1..n : s[m] \in S
  BY <1>1, ElementOfSeq, LenProperties DEF AllOf
<1>3. SubSeq(s, 1, n) \in Seq(S)
  <2>1. Len(s) \in Nat
    BY <1>1 DEF AllOf
  <2> QED BY <1>2, <2>1, SubSeqProperties
<1>4. AllOf(SubSeq(s, 1, n), S)
  BY <1>1, <1>3 DEF AllOf
<1> QED BY <1>4 DEF Tokens

-----------------------------------------------------------------------------
(* What the generator writes.                                              *)

LEMMA TextTokenIs == \A l : TextToken(l).t \in {"dot", "blank", "text"}
  BY DEF TextToken

LEMMA TextTokensAre ==
    ASSUME NEW ls, AnySeq(ls)
    PROVE  Tokens(TextTokens(ls))
<1>1. PICK S : ls \in Seq(S)
  BY DEF AnySeq
<1> DEFINE T == {TextToken(l) : l \in S}
<1>2. TextTokens(ls) \in [1..Len(ls) -> T]
  <2>1. DOMAIN ls = 1..Len(ls) /\ \A n \in 1..Len(ls) : ls[n] \in S
    BY <1>1
  <2>2. TextTokens(ls) = [n \in 1..Len(ls) |-> TextToken(ls[n])]
    BY <2>1 DEF TextTokens
  <2> QED BY <2>1, <2>2
<1>3. Len(ls) \in Nat
  BY <1>1
<1>4. TextTokens(ls) \in Seq(T)
  BY <1>2, <1>3, SeqDef
<1>5. \A x \in T : TokenOK(x)
  BY TextTokenIs DEF TokenOK
<1>6. AllOf(TextTokens(ls), T)
  BY <1>4, <1>5 DEF AllOf
<1> QED BY <1>6 DEF Tokens

LEMMA DotTokenIs == TokenOK(DotToken)
  BY TextTokenIs DEF DotToken, TokenOK

\* A change as far as it matters here.
ChangeOK(c) ==
    /\ c = [old_start |-> c.old_start, old_count |-> c.old_count,
            append_after |-> c.append_after, added |-> c.added]
    /\ c.old_count \in Nat
    /\ AnySeq(c.added)

ChangesOf(cs, S) == cs \in Seq(S) /\ \A c \in S : ChangeOK(c)
ChangesOK(cs) == \E S : ChangesOf(cs, S)

LEMMA CommandTokensAre ==
    ASSUME NEW c, ChangeOK(c)
    PROVE  Tokens(CommandTokens(c))
<1> DEFINE last == c.old_start + c.old_count - 1
           text == Append(TextTokens(c.added), DotToken)
           Cmd(kind, from, to) == [kind |-> kind, start |-> from, end |-> to]
           a == [t |-> "input", cmd |-> Cmd("append", c.append_after, c.append_after)]
           b == [t |-> "delete", cmd |-> Cmd("delete", c.old_start, last)]
           e == [t |-> "input", cmd |-> Cmd("change", c.old_start, last)]
<1>1. Tokens(text)
  BY TextTokensAre, DotTokenIs, AppendTokens DEF ChangeOK
<1>2. TokenOK(a) /\ TokenOK(b) /\ TokenOK(e)
  BY DEF TokenOK
<1>3. CommandTokens(c) = <<a>> \o text \/ CommandTokens(c) = <<b>>
      \/ CommandTokens(c) = <<e>> \o text
  <2>1. c.old_count \in Nat
    BY DEF ChangeOK
  <2> QED BY <2>1 DEF CommandTokens
<1> HIDE DEF a, b, e, text
<1>4. Tokens(<<a>>) /\ Tokens(<<b>>) /\ Tokens(<<e>>)
  BY <1>2, OneToken
<1> QED BY <1>1, <1>3, <1>4, ConcatTokens

LEMMA NewFileLines ==
    ASSUME NEW d \in Delta
    PROVE  AnySeq(CorpusLines(NewFile(d)))
<1> DEFINE S == OpsOf(d, {"keep", "add"})
           ls == NewFile(d).lines
           cs == CorpusLines(NewFile(d))
<1>1. Cardinality(S) \in Nat
  <2>1. d.ops \in Seq(Op)
    BY DEF Delta
  <2>2. DOMAIN d.ops = 1..Len(d.ops) /\ Len(d.ops) \in Nat
    BY <2>1
  <2>3. IsFiniteSet(DOMAIN d.ops)
    BY <2>2, FS_Interval
  <2>4. IsFiniteSet(S)
    BY <2>3, FS_Subset DEF OpsOf
  <2> QED BY <2>4, FS_CardinalityType
<1>2. DOMAIN cs = 1..Cardinality(S)
  BY DEF NewFile, Side, CorpusLines
<1>3. cs = [n \in 1..Cardinality(S) |-> cs[n]]
  BY DEF NewFile, Side, CorpusLines
<1>4. cs \in Seq({cs[n] : n \in 1..Cardinality(S)})
  <2> HIDE DEF S, cs
  <2>1. cs \in [1..Cardinality(S) -> {cs[n] : n \in 1..Cardinality(S)}]
    BY <1>3
  <2> QED BY <1>1, <2>1, SeqDef
<1> QED BY <1>4 DEF AnySeq

GenInv ==
    /\ deltas \in Diffs /\ at \in Nat \ {0}
    /\ phase \in {"diff", "emit"} => at <= Len(deltas)
    /\ Tokens(output) /\ ChangesOK(changes) /\ ChangeOK(current)

LEMMA NoChangeOK == ChangeOK(NoChange)
<1>1. <<>> \in Seq({})
  OBVIOUS
<1>2. AnySeq(<<>>)
  BY <1>1 DEF AnySeq
<1> QED BY <1>2 DEF ChangeOK, NoChange

LEMMA StartedOK ==
    ASSUME GenInv, NEW m, NEW n
    PROVE  ChangeOK(Started(m, n))
<1> DEFINE fresh == [NoChange EXCEPT !.old_start = m, !.append_after = n]
<1>1. ChangeOK(fresh)
  <2>1. AnySeq(<<>>)
    BY NoChangeOK DEF ChangeOK, NoChange
  <2>2. fresh = [old_start |-> m, old_count |-> 0, append_after |-> n, added |-> <<>>]
    <3> DEFINE half == [NoChange EXCEPT !.old_start = m]
    <3>1. half = [old_start |-> m, old_count |-> 0, append_after |-> 0, added |-> <<>>]
      BY DEF NoChange
    <3>2. fresh = [half EXCEPT !.append_after = n]
      BY DEF NoChange
    <3> HIDE DEF half, fresh
    <3> QED BY <3>1, <3>2
  <2> HIDE DEF fresh
  <2> QED BY <2>1, <2>2 DEF ChangeOK
<1>2. Started(m, n) = current \/ Started(m, n) = fresh
  BY DEF Started
<1> HIDE DEF fresh
<1> QED BY <1>1, <1>2 DEF GenInv

LEMMA FlushOK ==
    ASSUME GenInv, flush
    PROVE  ChangesOK(changes') /\ ChangeOK(current')
<1>1. ChangeOK(current')
  BY NoChangeOK DEF flush, GenInv
<1>2. ASSUME in_change PROVE ChangesOK(Append(changes, current))
  <2>1. PICK S : ChangesOf(changes, S)
    BY DEF GenInv, ChangesOK
  <2>2. changes \in Seq(S \cup {current})
    BY <2>1, SeqMonotonic DEF ChangesOf
  <2>3. ChangesOf(Append(changes, current), S \cup {current})
    BY <2>1, <2>2 DEF ChangesOf, GenInv
  <2> QED BY <2>3 DEF ChangesOK
<1>3. ChangesOK(changes')
  BY <1>2 DEF flush, GenInv
<1> QED BY <1>1, <1>3

LEMMA InitNoChanges == ChangesOK(<<>>)
<1>1. ChangesOf(<<>>, {})
  BY DEF ChangesOf
<1> QED BY <1>1 DEF ChangesOK

LEMMA GenInit == Init => GenInv
<1> SUFFICES ASSUME Init PROVE GenInv
  OBVIOUS
<1>1. Tokens(<<[t |-> "magic"], [t |-> "comment"]>>)
  <2> DEFINE T == {[t |-> "magic"], [t |-> "comment"]}
  <2>1. AllOf(<<[t |-> "magic"], [t |-> "comment"]>>, T)
    BY DEF AllOf, TokenOK
  <2> QED BY <2>1 DEF Tokens
<1> QED BY <1>1, InitNoChanges, NoChangeOK DEF Init, GenInv

LEMMA HeaderOK ==
    ASSUME GenInv, at <= Len(deltas), NEW kind
    PROVE  deltas[at] \in Delta /\ TokenOK(Header(kind, deltas[at].path))
<1>1. deltas \in Seq(Delta)
  BY ChangesAssumption DEF GenInv
<1>2. deltas[at] \in Delta
  BY <1>1 DEF GenInv
<1> QED BY <1>2 DEF Delta, Header, TokenOK

LEMMA GenNext ==
    ASSUME GenInv, Next
    PROVE  GenInv'
<1>1. CASE SkipDelta
  BY <1>1 DEF GenInv, SkipDelta, AtDelta, payload
<1>2. CASE EmitNewFile
  <2>1. at <= Len(deltas)
    BY <1>2 DEF EmitNewFile, AtDelta
  <2>2. Tokens(<<Header("newfile", deltas[at].path)>>)
    BY <2>1, HeaderOK, OneToken
  <2>3. Tokens(TextTokens(CorpusLines(NewFile(deltas[at]))))
    BY <2>1, HeaderOK, NewFileLines, TextTokensAre
  <2>4. Tokens(<<DotToken>>)
    BY DotTokenIs, OneToken
  <2>5. Tokens(output')
    BY <1>2, <2>2, <2>3, <2>4, ConcatTokens DEF EmitNewFile, GenInv
  <2> QED BY <1>2, <2>5 DEF EmitNewFile, AtDelta, GenInv, payload
<1>3. CASE BeginDiff
  <2>1. deltas' = deltas /\ at' = at /\ output' = output /\ at <= Len(deltas)
    BY <1>3 DEF BeginDiff, AtDelta, diff
  <2>2. changes' = <<>> /\ current' = NoChange
    BY <1>3 DEF BeginDiff
  <2> QED BY <2>1, <2>2, InitNoChanges, NoChangeOK DEF GenInv
<1>4. CASE Exit
  BY <1>4 DEF GenInv, Exit, diff, payload
<1>5. CASE HunkCb
  BY <1>5, FlushOK DEF GenInv, HunkCb, Take, diff
<1>6. CASE Context
  BY <1>6, FlushOK DEF GenInv, Context, Take, diff
<1>7. CASE Deletion
  <2> DEFINE no == Head(events).no
             c == Started(no, no - 1)
  <2>1. ChangeOK(c)
    BY StartedOK
  <2>2. current' = [c EXCEPT !.old_count = @ + 1]
    BY <1>7 DEF Deletion
  <2> HIDE DEF c
  <2>3. ChangeOK(current')
    BY <2>1, <2>2 DEF ChangeOK
  <2> QED BY <1>7, <2>3 DEF GenInv, Deletion, Take, diff
<1>8. CASE Addition
  <2> DEFINE c == Started(0, last_old)
             l == Chomp(Head(events).line)
  <2>1. ChangeOK(c)
    BY StartedOK
  <2>2. current' = [c EXCEPT !.added = Append(@, l)]
    BY <1>8 DEF Addition
  <2> HIDE DEF c, l
  <2>3. AnySeq(Append(c.added, l))
    <3>1. PICK S : c.added \in Seq(S)
      BY <2>1 DEF ChangeOK, AnySeq
    <3>2. Append(c.added, l) \in Seq(S \cup {l})
      BY <3>1, SeqMonotonic
    <3> QED BY <3>2 DEF AnySeq
  <2>4. /\ current' = [old_start |-> c.old_start, old_count |-> c.old_count,
                       append_after |-> c.append_after, added |-> Append(c.added, l)]
        /\ c.old_count \in Nat
    BY <2>1, <2>2 DEF ChangeOK
  <2>5. ChangeOK(current')
    BY <2>3, <2>4 DEF ChangeOK
  <2> QED BY <1>8, <2>5 DEF GenInv, Addition, Take, diff
<1>9. CASE EofNl
  BY <1>9 DEF GenInv, EofNl, Take, diff, payload
<1>10. CASE EndOfDiff
  <2>1. at' \in Nat \ {0} /\ deltas' = deltas
    BY <1>10 DEF EndOfDiff, GenInv
  <2>2. Tokens(output')
    BY <1>10, HeaderOK, AppendTokens DEF EndOfDiff, GenInv
  <2> QED BY <1>10, <2>1, <2>2, FlushOK DEF GenInv, EndOfDiff
<1>11. CASE EmitChange
  <2>1. PICK S : ChangesOf(changes, S)
    BY DEF GenInv, ChangesOK
  <2>2. Len(changes) \in Nat \ {0}
    BY <1>11, <2>1 DEF EmitChange, ChangesOf
  <2>3. ChangeOK(changes[Len(changes)])
    <3>1. changes[Len(changes)] \in S
      BY <2>1, <2>2 DEF ChangesOf
    <3> QED BY <2>1, <3>1 DEF ChangesOf
  <2>4. Tokens(output')
    BY <1>11, <2>3, CommandTokensAre, ConcatTokens DEF EmitChange, GenInv
  <2>5. Front(changes) \in Seq(S)
    BY <2>1, <2>2 DEF Front, ChangesOf
  <2>6. ChangesOK(changes')
    BY <1>11, <2>1, <2>5 DEF EmitChange, ChangesOf, ChangesOK
  <2> QED BY <1>11, <2>4, <2>6 DEF EmitChange, GenInv, diff
<1>12. CASE EndOfFile
  BY <1>12 DEF GenInv, EndOfFile, payload
<1> QED BY <1>1, <1>2, <1>3, <1>4, <1>5, <1>6, <1>7, <1>8, <1>9, <1>10, <1>11, <1>12
        DEF Next

-----------------------------------------------------------------------------
(* What the parser is given.                                               *)

LEMMA RemainsOK ==
    ASSUME NEW tok, TokenOK(tok), NEW left \in Remains(tok)
    PROVE  TokenOK(left)
<1>1. CASE tok.t \in {"magic", "comment"}
  <2>1. left = [t |-> "comment"]
    BY <1>1 DEF Remains
  <2> QED BY <2>1 DEF TokenOK
<1>2. CASE tok.t \in {"file", "newfile"}
  <2>1. left \in {[t |-> "comment"]} \cup {Header(tok.t, p) : p \in Path \cup {NoPath}}
    BY <1>2 DEF Remains
  <2> QED BY <2>1 DEF TokenOK, Header
<1>3. CASE tok.t \in {"delete", "input"}
  <2>1. left = [t |-> "text"]
    BY <1>3 DEF Remains
  <2> QED BY <2>1 DEF TokenOK
<1>4. CASE tok.t = "text"
  <2>1. left = tok \/ left = DotToken
    BY <1>4 DEF Remains
  <2> QED BY <2>1, DotTokenIs
<1>5. CASE tok.t \notin {"magic", "comment", "file", "newfile", "delete", "input", "text"}
  <2>1. left \in {}
    BY <1>5 DEF Remains
  <2> QED BY <2>1
<1> QED BY <1>1, <1>2, <1>3, <1>4, <1>5

LEMMA PartsOK ==
    ASSUME GenInv, NEW part \in Parts
    PROVE  Tokens(part)
<1>1. Tokens(output) /\ Len(output) \in Nat /\ DOMAIN output = 1..Len(output)
  BY TokensAre DEF GenInv
<1>2. CASE \E n \in 0..Len(output) : part = SubSeq(output, 1, n)
  BY <1>1, <1>2, CutTokens
<1>3. ASSUME NEW n \in DOMAIN output, NEW tok \in Remains(output[n]),
             part = Append(SubSeq(output, 1, n - 1), tok)
      PROVE  Tokens(part)
  <2>1. TokenOK(tok)
    BY <1>1, TokensAre, RemainsOK
  <2>2. Tokens(SubSeq(output, 1, n - 1))
    BY <1>1, CutTokens
  <2> QED BY <1>3, <2>1, <2>2, AppendTokens
<1> QED BY <1>2, <1>3 DEF Parts

LEMMA ForeignOK ==
    ASSUME NEW text \in Foreign
    PROVE  Tokens(text)
<1>1. text \in Seq(P!Token)
  BY PipelineAssumption
<1>2. \A tok \in P!Token : TokenOK(tok)
  BY DEF P!Token, TokenOK
<1>3. AllOf(text, P!Token)
  BY <1>1, <1>2 DEF AllOf
<1> QED BY <1>3 DEF Tokens

-----------------------------------------------------------------------------
(* The parser keeps its types, and the index of an accepted bundle is      *)
(* sorted, without duplicates, and has its names in the filter.            *)

ParserInv ==
    /\ P!TypeOK
    /\ Tokens(bundle)
    /\ parsing \in {"idle", "start"} => index = <<>> /\ basenames = {}
    /\ parsing = "idle" => i = 1
    /\ parsing \in {"parsed", "rekeyed"} => P!Sorted(index) /\ basenames = P!BasesOf(index)
    /\ parsing = "parsed" => ~P!Duplicates(index)

Inv == GenInv /\ ParserInv

LEMMA SortingIs ==
    ASSUME NEW ix \in Seq(P!Entry), NEW iy \in P!Sortings(ix)
    PROVE  iy \in Seq(P!Entry) /\ P!Sorted(iy)
<1>1. PICK f \in [DOMAIN ix -> DOMAIN ix] :
          /\ iy = [n \in DOMAIN ix |-> ix[f[n]]]
          /\ \A a, b \in DOMAIN ix : a < b => ix[f[a]].key <= ix[f[b]].key
  BY DEF P!Sortings
<1>2. DOMAIN ix = 1..Len(ix) /\ Len(ix) \in Nat
  OBVIOUS
<1>3. iy \in [1..Len(ix) -> P!Entry]
  BY <1>1, <1>2
<1>4. iy \in Seq(P!Entry)
  BY <1>2, <1>3, SeqDef
<1>5. DOMAIN iy = DOMAIN ix
  BY <1>1
<1> QED BY <1>1, <1>4, <1>5 DEF P!Sorted

LEMMA RekeyedIs ==
    ASSUME NEW ix \in Seq(P!Entry)
    PROVE  P!Rekeyed(ix) \in Seq(P!Entry)
<1>1. DOMAIN ix = 1..Len(ix) /\ Len(ix) \in Nat
  OBVIOUS
<1>2. ASSUME NEW n \in 1..Len(ix) PROVE [ix[n] EXCEPT !.key = Real[@]] \in P!Entry
  <2>1. ix[n] \in P!Entry
    OBVIOUS
  <2>2. Real[ix[n].key] \in Key
    BY <2>1, PipelineAssumption DEF P!Entry
  <2> QED BY <2>1, <2>2 DEF P!Entry
<1>3. P!Rekeyed(ix) \in [1..Len(ix) -> P!Entry]
  BY <1>1, <1>2 DEF P!Rekeyed
<1> QED BY <1>1, <1>3, SeqDef

LEMMA BasesAre ==
    ASSUME NEW ix \in Seq(P!Entry)
    PROVE  P!BasesOf(ix) \subseteq {Base[k] : k \in Key}
<1>1. \A n \in DOMAIN ix : ix[n] \in P!Entry
  OBVIOUS
<1> QED BY <1>1 DEF P!BasesOf, P!Entry

LEMMA SectionIs ==
    ASSUME ParserInv, i <= Len(bundle), bundle[i].t \in {"file", "newfile"},
           bundle[i].path # NoPath, NEW creates \in BOOLEAN
    PROVE  P!Section(creates) \in P!Entry
<1>1. i \in DOMAIN bundle
  BY TokensAre DEF ParserInv, P!TypeOK
<1>2. bundle[i].path \in Path
  BY <1>1, TokensAre DEF ParserInv, TokenOK
<1>3. Canonical[bundle[i].path] \in Key
  BY <1>2, PipelineAssumption
<1>4. <<>> \in Seq(P!Cmd)
  OBVIOUS
<1> QED BY <1>3, <1>4 DEF P!Section, P!Entry

LEMMA FlushIs ==
    ASSUME P!TypeOK, P!Flush
    PROVE  index' \in Seq(P!Entry)
<1>1. section # <<>> => section[1] \in P!Entry
  BY DEF P!TypeOK
<1> QED BY <1>1 DEF P!Flush, P!TypeOK

\* An entry that has one more command is an entry.
LEMMA CommandAdded ==
    ASSUME NEW e \in P!Entry, NEW c \in P!Cmd
    PROVE  [e EXCEPT !.commands = Append(@, c)] \in P!Entry
<1> DEFINE ds == Append(e.commands, c)
<1>1. e.commands \in Seq(P!Cmd)
  BY DEF P!Entry
<1>2. ds \in Seq(P!Cmd)
  BY <1>1, AppendProperties
<1> HIDE DEF ds
<1>3. [e EXCEPT !.commands = ds] \in P!Entry
  BY <1>2 DEF P!Entry
<1> QED BY <1>3 DEF ds

LEMMA AddIs ==
    ASSUME P!TypeOK, NEW c \in P!Cmd, P!AddCommand(c), section # <<>>
    PROVE  section' \in Seq(P!Entry) /\ Len(section') = Len(section)
<1>1. section[1] \in P!Entry
  BY DEF P!TypeOK
<1>2. [section[1] EXCEPT !.commands = Append(@, c)] \in P!Entry
  BY <1>1, CommandAdded
<1>3. section' = [section EXCEPT ![1] = [section[1] EXCEPT !.commands = Append(@, c)]]
  BY DEF P!AddCommand
<1>4. section \in Seq(P!Entry) /\ 1 \in 1..Len(section)
  BY DEF P!TypeOK
<1> QED BY <1>2, <1>3, <1>4, ExceptSeq

LEMMA ReadIs ==
    ASSUME ParserInv, NEW text, Tokens(text), P!Read(text)
    PROVE  ParserInv'
<1>1. Len(text) \in Nat
  BY TokensAre
<1>2. /\ parsing = "idle" /\ parsing' = "start" /\ bundle' = text /\ i' = 1 /\ i = 1
      /\ index' = <<>> /\ index = <<>> /\ section' = section /\ pending' = pending
      /\ basenames' = {} /\ basenames = {}
  BY DEF P!Read, ParserInv
<1>3. P!TypeOK'
  BY <1>1, <1>2 DEF ParserInv, P!TypeOK
<1> QED BY <1>2, <1>3 DEF ParserInv

LEMMA LineIs ==
    ASSUME ParserInv, parsing = "lines", parsing' = "lines", i <= Len(bundle),
           i' = i + 1, bundle' = bundle, basenames' = basenames,
           index' \in Seq(P!Entry), section' \in Seq(P!Entry), Len(section') <= 1,
           pending' \in Seq(P!Cmd), Len(pending') <= Len(section')
    PROVE  ParserInv'
<1>1. Len(bundle) \in Nat
  BY TokensAre DEF ParserInv
<1>2. i' \in 1..(Len(bundle') + 1)
  BY <1>1 DEF ParserInv, P!TypeOK
<1>3. P!TypeOK'
  BY <1>2 DEF ParserInv, P!TypeOK
<1> QED BY <1>3 DEF ParserInv

LEMMA ParseIs ==
    ASSUME ParserInv, P!Parse
    PROVE  ParserInv'
<1> USE DEF P!Advance, P!AnyLine, P!Line, P!InInput
<1>t. /\ index \in Seq(P!Entry) /\ section \in Seq(P!Entry) /\ Len(section) <= 1
      /\ pending \in Seq(P!Cmd) /\ Len(pending) <= Len(section) /\ i \in Nat
  BY DEF ParserInv, P!TypeOK
<1>f. ASSUME parsing' \in {"failed", "lines"}, parsing # "idle",
             UNCHANGED <<bundle, i, index, section, pending, basenames>>
      PROVE  ParserInv'
  BY <1>f DEF ParserInv, P!TypeOK
<1>1. CASE P!Start
  <2>1. CASE bundle = <<>>
    <3>1. /\ parsing' = "parsed" /\ UNCHANGED <<bundle, i, index, section, pending, basenames>>
          /\ index = <<>> /\ basenames = {}
      BY <1>1, <2>1 DEF P!Start, ParserInv
    <3>2. P!Sorted(<<>>) /\ P!BasesOf(<<>>) = {} /\ ~P!Duplicates(<<>>)
      BY DEF P!Sorted, P!BasesOf, P!Duplicates
    <3>3. P!TypeOK'
      BY <3>1 DEF ParserInv, P!TypeOK
    <3> QED BY <3>1, <3>2, <3>3 DEF ParserInv
  <2>2. CASE bundle # <<>>
    BY <1>1, <1>f, <2>2 DEF P!Start
  <2> QED BY <2>1, <2>2
<1>2. CASE P!InputLine
  <2>1. pending[1] \in P!Cmd /\ 1 \in 1..Len(pending)
    BY <1>2, <1>t DEF P!InputLine
  <2>2. [pending[1] EXCEPT !.input = Append(@, i)] \in P!Cmd
    <3>1. pending[1].input \in Seq(Nat) /\ pending[1].at \in Nat
      BY <2>1 DEF P!Cmd
    <3>2. Append(pending[1].input, i) \in Seq(Nat)
      BY <1>t, <3>1
    <3> QED BY <2>1, <3>1, <3>2 DEF P!Cmd
  <2>3. pending' = [pending EXCEPT ![1] = [pending[1] EXCEPT !.input = Append(@, i)]]
    BY <1>2 DEF P!InputLine
  <2>4. pending' \in Seq(P!Cmd) /\ Len(pending') = Len(pending)
    BY <1>t, <2>1, <2>2, <2>3, ExceptSeq
  <2> QED BY <1>2, <1>t, <2>4, LineIs DEF P!InputLine
<1>3. CASE P!EndOfInput
  <2>1. pending[1] \in P!Cmd /\ section # <<>>
    BY <1>3, <1>t DEF P!EndOfInput
  <2>2. section' \in Seq(P!Entry) /\ Len(section') = Len(section)
    BY <1>3, <2>1, AddIs DEF P!EndOfInput, ParserInv
  <2> QED BY <1>3, <1>t, <2>2, LineIs DEF P!EndOfInput
<1>4. CASE P!FileHeader
  <2>1. index' \in Seq(P!Entry)
    BY <1>4, FlushIs DEF P!FileHeader, ParserInv
  <2>2. P!Section(FALSE) \in P!Entry
    BY <1>4, SectionIs DEF P!FileHeader
  <2>3. pending = <<>>
    BY <1>4 DEF P!FileHeader
  <2> QED BY <1>4, <1>t, <2>1, <2>2, <2>3, LineIs DEF P!FileHeader
<1>5. CASE P!NewFileHeader
  <2>1. index' \in Seq(P!Entry)
    BY <1>5, FlushIs DEF P!NewFileHeader, ParserInv
  <2>2. P!Section(TRUE) \in P!Entry
    BY <1>5, SectionIs DEF P!NewFileHeader
  <2>3. [at |-> i, input |-> <<>>] \in P!Cmd
    BY <1>t DEF P!Cmd
  <2> QED BY <1>5, <1>t, <2>1, <2>2, <2>3, LineIs DEF P!NewFileHeader
<1>6. CASE P!SkipLine
  BY <1>6, <1>t, LineIs DEF P!SkipLine
<1>7. CASE P!DeleteCommand
  <2>1. [at |-> i, input |-> <<>>] \in P!Cmd
    BY <1>t DEF P!Cmd
  <2>2. section' \in Seq(P!Entry) /\ Len(section') = Len(section)
    BY <1>7, <2>1, AddIs DEF P!DeleteCommand, ParserInv
  <2> QED BY <1>7, <1>t, <2>2, LineIs DEF P!DeleteCommand
<1>8. CASE P!InputCommand
  <2>1. [at |-> i, input |-> <<>>] \in P!Cmd
    BY <1>t DEF P!Cmd
  <2>2. Len(section) = 1
    BY <1>8, <1>t DEF P!InputCommand
  <2> QED BY <1>8, <1>t, <2>1, <2>2, LineIs DEF P!InputCommand
<1>9. CASE P!BadLine
  BY <1>9, <1>f DEF P!BadLine, P!Fail
<1>10. CASE P!Unterminated
  BY <1>10, <1>f DEF P!Unterminated, P!Fail
<1>11. CASE P!EndOfBundle
  <2>1. index' \in Seq(P!Entry)
    BY <1>11, FlushIs DEF P!EndOfBundle, ParserInv
  <2>2. P!TypeOK'
    BY <1>11, <2>1 DEF P!EndOfBundle, ParserInv, P!TypeOK
  <2> QED BY <1>11, <2>2 DEF P!EndOfBundle, ParserInv
<1>12. CASE P!Finalize
  <2>1. index' \in Seq(P!Entry) /\ P!Sorted(index')
    BY <1>12, <1>t, SortingIs DEF P!Finalize
  <2>2. CASE P!Duplicates(index')
    <3>1. parsing' = "failed" /\ basenames' = basenames
      BY <1>12, <2>2 DEF P!Finalize
    <3>2. P!TypeOK'
      BY <1>12, <2>1, <3>1 DEF P!Finalize, ParserInv, P!TypeOK
    <3> QED BY <1>12, <3>1, <3>2 DEF P!Finalize, ParserInv
  <2>3. CASE ~P!Duplicates(index')
    <3>1. parsing' = "parsed" /\ basenames' = P!BasesOf(index')
      BY <1>12, <2>3 DEF P!Finalize
    <3>2. P!TypeOK'
      BY <1>12, <2>1, <3>1, BasesAre DEF P!Finalize, ParserInv, P!TypeOK
    <3> QED BY <1>12, <2>1, <2>3, <3>1, <3>2 DEF P!Finalize, ParserInv
  <2> QED BY <2>2, <2>3
<1>13. CASE P!Recanonicalize
  <2>1. index' \in Seq(P!Entry) /\ P!Sorted(index')
    BY <1>13, <1>t, RekeyedIs, SortingIs DEF P!Recanonicalize
  <2>2. parsing' = "rekeyed" /\ basenames' = P!BasesOf(index')
    BY <1>13 DEF P!Recanonicalize
  <2>3. P!TypeOK'
    BY <1>13, <2>1, <2>2, BasesAre DEF P!Recanonicalize, ParserInv, P!TypeOK
  <2> QED BY <1>13, <2>1, <2>2, <2>3 DEF P!Recanonicalize, ParserInv
<1> QED BY <1>1, <1>2, <1>3, <1>4, <1>5, <1>6, <1>7, <1>8, <1>9, <1>10, <1>11, <1>12, <1>13
        DEF P!Parse

LEMMA InvInit == PipeInit => Inv
<1> SUFFICES ASSUME PipeInit PROVE Inv
  OBVIOUS
<1>1. GenInv
  BY GenInit DEF PipeInit
<1>2. P!TypeOK
  BY DEF PipeInit, P!Init, P!TypeOK
<1> QED BY <1>1, <1>2, NoTokens DEF PipeInit, P!Init, ParserInv, Inv

LEMMA InvNext == Inv /\ [PipeNext]_<<vars, parser>> => Inv'
<1> SUFFICES ASSUME Inv, [PipeNext]_<<vars, parser>> PROVE Inv'
  OBVIOUS
<1>v. ASSUME UNCHANGED vars PROVE GenInv'
  BY <1>v DEF Inv, GenInv, vars, diff, payload
<1>p. ASSUME UNCHANGED parser PROVE ParserInv'
  BY <1>p DEF Inv, ParserInv, P!TypeOK, parser, P!Sorted, P!Duplicates, P!BasesOf
<1>1. CASE Next /\ UNCHANGED parser
  BY <1>1, <1>p, GenNext DEF Inv
<1>2. CASE Deploy
  <2>1. PICK text : P!Read(text) /\ (text = output \/ text \in Parts \/ text \in Foreign)
    BY <1>2 DEF Deploy
  <2>2. Tokens(text)
    BY <2>1, PartsOK, ForeignOK DEF Inv, GenInv
  <2> QED BY <1>2, <1>v, <2>1, <2>2, ReadIs DEF Deploy, Inv
<1>3. CASE P!Parse /\ UNCHANGED vars
  BY <1>3, <1>v, ParseIs DEF Inv
<1>4. CASE UNCHANGED <<vars, parser>>
  BY <1>4, <1>v, <1>p DEF Inv
<1> QED BY <1>1, <1>2, <1>3, <1>4 DEF PipeNext

\* What the generator has written so far is lines a parser can read; the parser
\* stays within its types, from the first line of a bundle to the renaming of the
\* keys: an index it hands on is sorted, without two entries of one key until the
\* engine's resolver makes two names one, and its filter is the names of the index.
THEOREM Invariant == PipeSpec => []Inv
BY InvInit, InvNext, PTL DEF PipeSpec

-----------------------------------------------------------------------------
(* The searches.                                                           *)

LEMMA KeysAre ==
    ASSUME Inv
    PROVE  /\ Len(index) \in Nat /\ DOMAIN index = 1..Len(index)
           /\ \A n \in 1..Len(index) : index[n].key \in Nat
<1>1. index \in Seq(P!Entry)
  BY DEF Inv, ParserInv, P!TypeOK
<1>2. \A e \in P!Entry : e.key \in Nat
  BY PipelineAssumption DEF P!Entry
<1> QED BY <1>1, <1>2

\* There is a first entry whose key is not below k, or a place after the last.
LEMMA BoundIs ==
    ASSUME Inv, P!Sorted(index), NEW k \in Nat
    PROVE  /\ P!LowerBound(k) \in 1..(Len(index) + 1)
           /\ \A m \in 1..(P!LowerBound(k) - 1) : index[m].key < k
           /\ P!LowerBound(k) <= Len(index) => index[P!LowerBound(k)].key >= k
<1> DEFINE Bound(n) == /\ \A m \in 1..(n - 1) : index[m].key < k
                       /\ n <= Len(index) => index[n].key >= k
           T == {n \in 1..(Len(index) + 1) : n <= Len(index) => index[n].key >= k}
<1>1. \E n \in 1..(Len(index) + 1) : Bound(n)
  <2>1. Len(index) + 1 \in T
    BY KeysAre
  <2>2. T \in SUBSET Nat
    BY KeysAre
  <2>3. PICK n \in T : \A m \in T : n <= m
    <3> HIDE DEF T
    <3> QED BY <2>1, <2>2, Least
  <2>4. ASSUME NEW m \in 1..(n - 1) PROVE index[m].key < k
    <3>1. m \in 1..Len(index) /\ m < n
      BY KeysAre, <2>3
    <3>2. m \notin T
      BY <2>3, <3>1
    <3> QED BY <3>1, <3>2, KeysAre
  <2> QED BY <2>3, <2>4
<1>2. P!LowerBound(k) = CHOOSE n \in 1..(Len(index) + 1) : Bound(n)
  BY DEF P!LowerBound
<1> HIDE DEF Bound
<1>3. P!LowerBound(k) \in 1..(Len(index) + 1) /\ Bound(P!LowerBound(k))
  BY <1>1, <1>2
<1> QED BY <1>3 DEF Bound

LEMMA FindsJust ==
    ASSUME Inv, P!Sorted(index), NEW k \in Nat
    PROVE  P!Found(k) <=> \E n \in DOMAIN index : index[n].key = k
<1> DEFINE b == P!LowerBound(k)
<1>1. /\ b \in 1..(Len(index) + 1)
      /\ \A m \in 1..(b - 1) : index[m].key < k
      /\ b <= Len(index) => index[b].key >= k
  BY BoundIs
<1>2. P!Found(k) <=> b <= Len(index) /\ index[b].key = k
  BY DEF P!Found
<1> HIDE DEF b
<1>3. ASSUME NEW n \in DOMAIN index, index[n].key = k
      PROVE  b <= Len(index) /\ index[b].key = k
  <2>1. n \in 1..Len(index) /\ n >= b
    BY <1>1, <1>3, KeysAre
  <2>2. b \in 1..Len(index)
    BY <1>1, <2>1, KeysAre
  <2>3. index[b].key <= index[n].key
    BY <2>1, <2>2, KeysAre DEF P!Sorted
  <2> QED BY <1>1, <1>3, <2>2, <2>3, KeysAre
<1> QED BY <1>1, <1>2, <1>3, KeysAre

LEMMA AtMostOne ==
    ASSUME Inv, P!Sorted(index), ~P!Duplicates(index),
           NEW m \in DOMAIN index, NEW n \in DOMAIN index, index[m].key = index[n].key
    PROVE  m = n
<1>1. ASSUME NEW a \in DOMAIN index, NEW b \in DOMAIN index,
             index[a].key = index[b].key, a < b
      PROVE  FALSE
  <2>1. a \in 1..Len(index) /\ b \in 1..Len(index) /\ b - 1 \in 1..Len(index) /\ a <= b - 1
    BY <1>1, KeysAre
  <2>2. index[a].key <= index[b - 1].key
    <3>1. CASE a = b - 1
      BY <2>1, <3>1, KeysAre
    <3>2. CASE a < b - 1
      BY <2>1, <3>2, KeysAre DEF P!Sorted
    <3> QED BY <2>1, <3>1, <3>2
  <2>3. index[b - 1].key <= index[b].key
    BY <2>1, KeysAre DEF P!Sorted
  <2>4. index[b].key = index[b - 1].key
    BY <1>1, <2>1, <2>2, <2>3, KeysAre
  <2>5. b \in 2..Len(index)
    BY <2>1, KeysAre
  <2> QED BY <2>4, <2>5 DEF P!Duplicates
<1>2. m \in Nat /\ n \in Nat
  BY KeysAre
<1>3. ~(m < n) /\ ~(n < m)
  BY <1>1
<1> QED BY <1>2, <1>3

\* PatchSet::find takes the entry of a key just when the bundle has a section for
\* it, before and after the engine's resolver has renamed the keys, and an accepted
\* bundle has no two sections for one file.
THEOREM FindHolds == PipeSpec => []FindIsExact
<1>1. Inv => FindIsExact
  <2> SUFFICES ASSUME Inv PROVE FindIsExact
    OBVIOUS
  <2>1. ASSUME P!accepted, NEW k \in Key
        PROVE  /\ P!Found(k) <=> \E n \in DOMAIN index : index[n].key = k
               /\ parsing = "parsed" => \A m, n \in DOMAIN index :
                                           index[m].key = k /\ index[n].key = k => m = n
    <3>1. P!Sorted(index)
      BY <2>1 DEF P!accepted, Inv, ParserInv
    <3>2. k \in Nat
      BY PipelineAssumption
    <3>3. parsing = "parsed" => ~P!Duplicates(index)
      BY DEF Inv, ParserInv
    <3> QED BY <3>1, <3>2, <3>3, FindsJust, AtMostOne
  <2> QED BY <2>1 DEF FindIsExact, P!FindIsExact
<1> QED BY <1>1, Invariant, PTL

\* PatchSet::has_basename never says no of an indexed file, before and after the
\* engine's resolver has renamed the keys.
THEOREM FilterHolds == PipeSpec => []FilterIsComplete
<1>1. Inv => FilterIsComplete
  BY DEF Inv, ParserInv, FilterIsComplete, P!FilterIsComplete, P!accepted, P!BasesOf
<1> QED BY <1>1, Invariant, PTL

-----------------------------------------------------------------------------
(* Which command holds which line.  A command of the index, of the open    *)
(* section or under way is a record of its place, its section and itself;  *)
(* it takes the lines from its own to the last of its text.                *)

Owning == [n : Nat, m : Nat, c : P!Cmd, key : Key, creates : BOOLEAN]

Indexed(ix, o) ==
    /\ o.n \in DOMAIN ix /\ o.m \in DOMAIN ix[o.n].commands
    /\ o.c = ix[o.n].commands[o.m]
    /\ o.key = ix[o.n].key /\ o.creates = ix[o.n].creates

Opened(ix, sec, pend, o) ==
    /\ sec # <<>>
    /\ o.n = Len(ix) + 1 /\ o.key = sec[1].key /\ o.creates = sec[1].creates
    /\ \/ o.m \in DOMAIN sec[1].commands /\ o.c = sec[1].commands[o.m]
       \/ pend # <<>> /\ o.m = Len(sec[1].commands) + 1 /\ o.c = pend[1]

Owned(ix, sec, pend) == {o \in Owning : Indexed(ix, o) \/ Opened(ix, sec, pend, o)}

End(c) == c.at + Len(c.input)
In(l, c) == c.at <= l /\ l <= End(c)
IsText(O, l) == \E o \in O : o.c.at < l /\ l <= End(o.c)
IsHeader(b, l) == b[l].t \in {"file", "newfile"}
Counts(b, l) == b[l].t \in {"delete", "input", "text", "newfile"}

\* h is the last header down to line n that is not text.
HeadAt(b, O, key, creates, h, n) ==
    /\ h \in 1..n /\ IsHeader(b, h) /\ ~IsText(O, h)
    /\ Canonical[b[h].path] = key /\ (creates <=> b[h].t = "newfile")
    /\ \A l \in (h + 1)..n : IsHeader(b, l) => IsText(O, l)

\* The commands hold the lines before k, each at most once.
Placed(b, k, O) ==
    /\ \A o \in O : /\ 1 <= o.c.at /\ End(o.c) < k
                    /\ \A x \in DOMAIN o.c.input : o.c.input[x] = o.c.at + x
    /\ \A o, p \in O : \A l \in Nat : In(l, o.c) /\ In(l, p.c) => o.n = p.n /\ o.m = p.m
    /\ \A l \in 1..(k - 1) : Counts(b, l) => \E o \in O : In(l, o.c)

Headed(b, O) == \A o \in O : \E h : HeadAt(b, O, o.key, o.creates, h, o.c.at)

Closed(b, c) == b[c.at].t # "delete" =>
                   End(c) + 1 \in DOMAIN b /\ b[End(c) + 1].t = "dot"

LEMMA EndIs ==
    ASSUME NEW c \in P!Cmd
    PROVE  c.at \in Nat /\ Len(c.input) \in Nat /\ End(c) \in Nat /\ End(c) = c.at + Len(c.input)
           /\ DOMAIN c.input = 1..Len(c.input) /\ c.input \in Seq(Nat)
<1>1. c.at \in Nat /\ c.input \in Seq(Nat)
  BY DEF P!Cmd
<1> QED BY <1>1 DEF End

LEMMA OwningIs ==
    ASSUME NEW O \in SUBSET Owning, NEW o \in O
    PROVE  /\ o.n \in Nat /\ o.m \in Nat /\ o.c \in P!Cmd
           /\ o.c.at \in Nat /\ End(o.c) \in Nat /\ o.c.at <= End(o.c)
<1>1. o.n \in Nat /\ o.m \in Nat /\ o.c \in P!Cmd
  BY DEF Owning
<1> QED BY <1>1, EndIs

\* A line that no command has to hold.
LEMMA PassLine ==
    ASSUME NEW b, NEW k \in Nat \ {0}, NEW O \in SUBSET Owning, Placed(b, k, O), ~Counts(b, k)
    PROVE  Placed(b, k + 1, O)
<1>1. \A o \in O : End(o.c) < k => End(o.c) < k + 1
  BY OwningIs
<1>2. \A l \in 1..k : l \in 1..(k - 1) \/ l = k
  OBVIOUS
<1>3. (k + 1) - 1 = k
  OBVIOUS
<1> QED BY <1>1, <1>2, <1>3 DEF Placed

\* A command that begins at line k.
New(k) == [at |-> k, input |-> <<>>]

LEMMA NewIs ==
    ASSUME NEW k \in Nat
    PROVE  New(k) \in P!Cmd /\ New(k).at = k /\ End(New(k)) = k /\ DOMAIN New(k).input = {}
<1>1. <<>> \in Seq(Nat) /\ Len(<<>>) = 0 /\ DOMAIN <<>> = {}
  OBVIOUS
<1> QED BY <1>1 DEF New, End, P!Cmd

LEMMA NewLine ==
    ASSUME NEW b, NEW k \in Nat \ {0}, NEW O \in SUBSET Owning, Placed(b, k, O),
           NEW o \in Owning, o.c = New(k)
    PROVE  /\ Placed(b, k + 1, O \cup {o})
           /\ \A l \in Nat : IsText(O \cup {o}, l) <=> IsText(O, l)
           /\ \A key, creates, h : \A n \in Nat :
                 HeadAt(b, O, key, creates, h, n) => HeadAt(b, O \cup {o}, key, creates, h, n)
           /\ Headed(b, O) /\ (\E h : HeadAt(b, O, o.key, o.creates, h, k))
              => Headed(b, O \cup {o})
<1> DEFINE Q == O \cup {o}
<1>1. o.c.at = k /\ End(o.c) = k /\ DOMAIN o.c.input = {}
  BY NewIs
<1>2. \A p \in O : 1 <= p.c.at /\ End(p.c) < k /\ p.c.at \in Nat /\ End(p.c) \in Nat
  BY OwningIs DEF Placed
<1>3. ASSUME NEW p \in Q PROVE /\ 1 <= p.c.at /\ End(p.c) < k + 1
                               /\ \A x \in DOMAIN p.c.input : p.c.input[x] = p.c.at + x
  <2>1. CASE p \in O
    BY <1>2, <2>1 DEF Placed
  <2>2. CASE p = o
    BY <1>1, <2>2
  <2> QED BY <2>1, <2>2
<1>4. ASSUME NEW p \in O, NEW l \in Nat, In(l, p.c), In(l, o.c) PROVE FALSE
  BY <1>1, <1>2, <1>4 DEF In
<1>5. ASSUME NEW p \in Q, NEW q \in Q, NEW l \in Nat, In(l, p.c), In(l, q.c)
      PROVE  p.n = q.n /\ p.m = q.m
  BY <1>4, <1>5 DEF Placed
<1>6. ASSUME NEW l \in 1..k, Counts(b, l) PROVE \E p \in Q : In(l, p.c)
  <2>1. CASE l = k
    BY <1>1, <2>1 DEF In
  <2>2. CASE l \in 1..(k - 1)
    BY <1>6, <2>2 DEF Placed
  <2> QED BY <2>1, <2>2
<1>7. Placed(b, k + 1, Q)
  <2>1. (k + 1) - 1 = k
    OBVIOUS
  <2> HIDE DEF Q
  <2> QED BY <1>3, <1>5, <1>6, <2>1 DEF Placed
<1>8. ASSUME NEW l \in Nat PROVE IsText(Q, l) <=> IsText(O, l)
  <2>1. ~(o.c.at < l /\ l <= End(o.c))
    BY <1>1
  <2> QED BY <2>1 DEF IsText
<1>9. ASSUME NEW key, NEW creates, NEW h, NEW n \in Nat, HeadAt(b, O, key, creates, h, n)
      PROVE  HeadAt(b, Q, key, creates, h, n)
  <2>1. h \in Nat /\ \A l \in (h + 1)..n : l \in Nat
    BY <1>9 DEF HeadAt
  <2> HIDE DEF Q
  <2> QED BY <1>8, <1>9, <2>1 DEF HeadAt
<1>10. Headed(b, O) /\ (\E h : HeadAt(b, O, o.key, o.creates, h, k)) => Headed(b, Q)
  <2>1. \A p \in O : p.c.at \in Nat
    BY <1>2
  <2> QED BY <1>1, <1>9, <2>1 DEF Headed
<1> QED BY <1>7, <1>8, <1>9, <1>10

LEMMA Sums == \A a, l, k \in Nat : a + l = k - 1 => a + (l + 1) = k /\ a <= k - 1 /\ k < k + 1
  OBVIOUS

\* The text of a command goes on with line k.
Grows(O, Q, k) ==
    \E o \in O, p \in Owning :
        /\ End(o.c) = k - 1 /\ p.c.at = o.c.at /\ p.c.input = Append(o.c.input, k)
        /\ p.n = o.n /\ p.m = o.m /\ p.key = o.key /\ p.creates = o.creates
        /\ Q = (O \ {o}) \cup {p}

LEMMA TextLine ==
    ASSUME NEW b, NEW k \in Nat \ {0}, NEW O \in SUBSET Owning, Placed(b, k, O),
           NEW Q, Grows(O, Q, k)
    PROVE  /\ Placed(b, k + 1, Q)
           /\ \A key, creates, h, n : HeadAt(b, O, key, creates, h, n) /\ n \in Nat /\ n < k
                                      => HeadAt(b, Q, key, creates, h, n)
           /\ \A key, creates, h : HeadAt(b, O, key, creates, h, k - 1)
                                   => HeadAt(b, Q, key, creates, h, k)
           /\ Headed(b, O) => Headed(b, Q)
<1>0. PICK o \in O, p \in Owning :
          /\ End(o.c) = k - 1 /\ p.c.at = o.c.at /\ p.c.input = Append(o.c.input, k)
          /\ p.n = o.n /\ p.m = o.m /\ p.key = o.key /\ p.creates = o.creates
          /\ Q = (O \ {o}) \cup {p}
  BY DEF Grows
<1> USE <1>0
<1>1. /\ o.c \in P!Cmd /\ p.c \in P!Cmd /\ o.c.at \in Nat
      /\ p.c.at = o.c.at
  <2>1. o.c \in P!Cmd /\ p.c \in P!Cmd
    BY DEF Owning
  <2> QED BY <2>1 DEF P!Cmd
<1>2. /\ End(p.c) = k /\ o.c.at <= k - 1 /\ o.c.at + Len(o.c.input) = k - 1
      /\ Len(p.c.input) = Len(o.c.input) + 1
      /\ DOMAIN p.c.input = 1..(Len(o.c.input) + 1) /\ Len(o.c.input) \in Nat
      /\ \A x \in DOMAIN p.c.input :
            p.c.input[x] = IF x <= Len(o.c.input) THEN o.c.input[x] ELSE k
  <2>1. o.c.input \in Seq(Nat)
    BY <1>1, EndIs
  <2>2. /\ Len(p.c.input) = Len(o.c.input) + 1
        /\ DOMAIN p.c.input = 1..(Len(o.c.input) + 1)
        /\ \A x \in DOMAIN p.c.input :
              p.c.input[x] = IF x <= Len(o.c.input) THEN o.c.input[x] ELSE k
    BY <2>1
  <2>3. Len(o.c.input) \in Nat /\ o.c.at + Len(o.c.input) = k - 1
    BY <2>1 DEF End
  <2>4. End(p.c) = p.c.at + (Len(o.c.input) + 1)
    BY <2>2 DEF End
  <2>5. End(p.c) = k /\ o.c.at <= k - 1
    <3>1. k \in Nat /\ o.c.at \in Nat
      BY <1>1
    <3> DEFINE l == Len(o.c.input)
               a == o.c.at
    <3>2. a \in Nat /\ l \in Nat /\ a + l = k - 1
      BY <2>3, <3>1
    <3>3. End(p.c) = a + (l + 1)
      BY <1>1, <2>4
    <3> HIDE DEF a, l
    <3>4. End(p.c) = k /\ a <= k - 1
      BY <3>1, <3>2, <3>3, Sums
    <3> QED BY <3>4 DEF a
  <2> QED BY <2>2, <2>3, <2>5
<1>3. \A q \in O : /\ 1 <= q.c.at /\ End(q.c) < k /\ q.c.at \in Nat /\ End(q.c) \in Nat
                   /\ q.c.at <= End(q.c) /\ q.c.at < k
  <2>1. ASSUME NEW q \in O PROVE 1 <= q.c.at /\ End(q.c) < k
    BY DEF Placed
  <2> QED BY <2>1, OwningIs
<1>4. ASSUME NEW x \in DOMAIN p.c.input PROVE p.c.input[x] = p.c.at + x
  <2>1. CASE x <= Len(o.c.input)
    <3>1. x \in DOMAIN o.c.input
      BY <1>1, <1>2, <2>1, EndIs, SMTT(30)
    <3>2. o.c.input[x] = o.c.at + x
      BY <3>1 DEF Placed
    <3> QED BY <1>1, <1>2, <2>1, <3>2
  <2>2. CASE x = Len(o.c.input) + 1
    <3>1. p.c.input[x] = k
      <4>1. ~(x <= Len(o.c.input))
        BY <1>2, <2>2
      <4> QED BY <1>2, <4>1
    <3>2. k = o.c.at + (Len(o.c.input) + 1)
      <4> DEFINE l == Len(o.c.input)
                 a == o.c.at
      <4>1. a \in Nat /\ l \in Nat /\ a + l = k - 1 /\ k \in Nat
        BY <1>1, <1>2
      <4> HIDE DEF a, l
      <4>2. k = a + (l + 1)
        BY <4>1, Sums
      <4> QED BY <4>2 DEF a, l
    <3> QED BY <1>1, <2>2, <3>1, <3>2
  <2> QED BY <1>2, <2>1, <2>2
<1>5. ASSUME NEW q \in Q PROVE /\ 1 <= q.c.at /\ End(q.c) < k + 1
                               /\ \A x \in DOMAIN q.c.input : q.c.input[x] = q.c.at + x
  <2>1. CASE q \in O
    BY <1>3, <2>1 DEF Placed
  <2>2. CASE q = p
    <3>1. 1 <= p.c.at
      BY <1>1, <1>3
    <3>2. End(p.c) < k + 1
      BY <1>2, Sums
    <3>3. \A x \in DOMAIN p.c.input : p.c.input[x] = p.c.at + x
      BY <1>4
    <3> QED BY <2>2, <3>1, <3>2, <3>3
  <2> QED BY <2>1, <2>2
<1>6. ASSUME NEW l \in Nat, In(l, p.c) PROVE l = k \/ In(l, o.c)
  BY <1>1, <1>2, <1>6 DEF In
<1>7. ASSUME NEW q \in O, NEW l \in Nat, In(l, q.c), In(l, p.c)
      PROVE  q.n = p.n /\ q.m = p.m
  <2>1. l # k
    BY <1>3, <1>7 DEF In
  <2>2. In(l, o.c)
    BY <1>6, <1>7, <2>1
  <2> QED BY <1>7, <2>2 DEF Placed
<1>8. ASSUME NEW q \in Q, NEW r \in Q, NEW l \in Nat, In(l, q.c), In(l, r.c)
      PROVE  q.n = r.n /\ q.m = r.m
  BY <1>7, <1>8 DEF Placed
<1>9. ASSUME NEW l \in 1..k, Counts(b, l) PROVE \E q \in Q : In(l, q.c)
  <2>1. CASE l = k
    <3>1. p \in Q
      OBVIOUS
    <3>2. In(l, p.c)
      <4>1. p.c.at <= k /\ k <= End(p.c)
        BY <1>1, <1>2
      <4> QED BY <2>1, <4>1 DEF In
    <3> QED BY <3>1, <3>2
  <2>2. CASE l \in 1..(k - 1)
    <3>1. PICK q \in O : In(l, q.c)
      BY <1>9, <2>2 DEF Placed
    <3>2. CASE q = o
      <4>1. In(l, p.c)
        BY <1>1, <1>2, <2>2, <3>1, <3>2 DEF In
      <4> QED BY <4>1
    <3> QED BY <3>1, <3>2
  <2> QED BY <2>1, <2>2
<1>10. Placed(b, k + 1, Q)
  <2>1. (k + 1) - 1 = k
    OBVIOUS
  <2> QED BY <1>5, <1>8, <1>9, <2>1 DEF Placed
<1>11. ASSUME NEW l \in Nat PROVE IsText(Q, l) <=> IsText(O, l) \/ l = k
  <2>1. ASSUME IsText(O, l) PROVE IsText(Q, l)
    <3>1. PICK q \in O : q.c.at < l /\ l <= End(q.c)
      BY <2>1 DEF IsText
    <3>2. CASE q = o
      <4>1. p.c.at < l /\ l <= End(p.c)
        BY <1>1, <1>2, <3>1, <3>2
      <4> QED BY <4>1 DEF IsText
    <3> QED BY <3>1, <3>2 DEF IsText
  <2>2. ASSUME l = k PROVE IsText(Q, l)
    <3>1. p.c.at < l /\ l <= End(p.c)
      BY <1>1, <1>2, <2>2
    <3> QED BY <3>1 DEF IsText
  <2>3. ASSUME IsText(Q, l) PROVE IsText(O, l) \/ l = k
    <3>1. PICK q \in Q : q.c.at < l /\ l <= End(q.c)
      BY <2>3 DEF IsText
    <3>2. CASE q = p
      <4>1. l = k \/ (o.c.at < l /\ l <= End(o.c))
        BY <1>1, <1>2, <3>1, <3>2
      <4> QED BY <4>1 DEF IsText
    <3> QED BY <3>1, <3>2 DEF IsText
  <2> QED BY <2>1, <2>2, <2>3
<1>12. ASSUME NEW key, NEW creates, NEW h, NEW n \in Nat, n < k,
              HeadAt(b, O, key, creates, h, n)
       PROVE  HeadAt(b, Q, key, creates, h, n)
  <2>1. h \in Nat /\ h <= n /\ h # k
    BY <1>12 DEF HeadAt
  <2>2. \A l \in (h + 1)..n : l \in Nat
    BY <2>1
  <2> QED BY <1>11, <1>12, <2>1, <2>2 DEF HeadAt
<1>13. ASSUME NEW key, NEW creates, NEW h, HeadAt(b, O, key, creates, h, k - 1)
       PROVE  HeadAt(b, Q, key, creates, h, k)
  <2>1. HeadAt(b, Q, key, creates, h, k - 1)
    <3>1. k - 1 \in Nat /\ k - 1 < k
      OBVIOUS
    <3> QED BY <1>12, <1>13, <3>1
  <2>2. h \in 1..k
    BY <2>1 DEF HeadAt
  <2>3. ASSUME NEW l \in (h + 1)..k PROVE IsHeader(b, l) => IsText(Q, l)
    <3>1. CASE l = k
      BY <1>11, <3>1
    <3>2. CASE l \in (h + 1)..(k - 1)
      BY <2>1, <3>2 DEF HeadAt
    <3> QED BY <2>2, <2>3, <3>1, <3>2
  <2> QED BY <2>1, <2>2, <2>3 DEF HeadAt
<1>14. ASSUME Headed(b, O), NEW q \in Q
       PROVE  \E h : HeadAt(b, Q, q.key, q.creates, h, q.c.at)
  <2>1. CASE q \in O
    <3>1. q.c.at \in Nat /\ q.c.at < k
      BY <1>3, <2>1
    <3> QED BY <1>12, <1>14, <2>1, <3>1 DEF Headed
  <2>2. CASE q = p
    <3>1. o.c.at \in Nat /\ o.c.at < k
      BY <1>3
    <3>2. \E h : HeadAt(b, Q, o.key, o.creates, h, o.c.at)
      BY <1>12, <1>14, <3>1 DEF Headed
    <3> QED BY <1>1, <2>2, <3>2
  <2> QED BY <2>1, <2>2
<1> QED BY <1>10, <1>12, <1>13, <1>14 DEF Headed

-----------------------------------------------------------------------------
(* How the holders change.                                                 *)

\* The command under way as a holder.
Under(ix, sec, c) ==
    [n |-> Len(ix) + 1, m |-> Len(sec[1].commands) + 1, c |-> c,
     key |-> sec[1].key, creates |-> sec[1].creates]

LEMMA SectionOf ==
    ASSUME NEW sec \in Seq(P!Entry), sec # <<>>
    PROVE  /\ sec[1] \in P!Entry /\ sec[1].key \in Key /\ sec[1].creates \in BOOLEAN
           /\ sec[1].commands \in Seq(P!Cmd) /\ Len(sec[1].commands) \in Nat
           /\ DOMAIN sec[1].commands = 1..Len(sec[1].commands)
<1>1. sec[1] \in P!Entry
  OBVIOUS
<1>2. sec[1].key \in Key /\ sec[1].creates \in BOOLEAN /\ sec[1].commands \in Seq(P!Cmd)
  BY <1>1 DEF P!Entry
<1> QED BY <1>1, <1>2

LEMMA UnderWay ==
    ASSUME NEW ix \in Seq(P!Entry), NEW sec \in Seq(P!Entry), sec # <<>>,
           NEW pend \in Seq(P!Cmd), pend # <<>>
    PROVE  /\ Under(ix, sec, pend[1]) \in Owning
           /\ Owned(ix, sec, pend) = Owned(ix, sec, <<>>) \cup {Under(ix, sec, pend[1])}
           /\ Under(ix, sec, pend[1]) \notin Owned(ix, sec, <<>>)
<1> DEFINE o == Under(ix, sec, pend[1])
<1>1. pend[1] \in P!Cmd
  OBVIOUS
<1>2. o \in Owning
  BY <1>1, SectionOf DEF Under, Owning
<1>3. ASSUME NEW q \in Owning
      PROVE  Opened(ix, sec, pend, q) <=> Opened(ix, sec, <<>>, q) \/ q = o
  <2>1. q = [n |-> q.n, m |-> q.m, c |-> q.c, key |-> q.key, creates |-> q.creates]
    BY DEF Owning
  <2>2. q = o <=> /\ q.n = Len(ix) + 1 /\ q.m = Len(sec[1].commands) + 1 /\ q.c = pend[1]
                  /\ q.key = sec[1].key /\ q.creates = sec[1].creates
    BY <2>1 DEF Under
  <2> HIDE DEF o
  <2> QED BY <2>2 DEF Opened
<1>4. ~Indexed(ix, o)
  <2>1. o.n \notin DOMAIN ix
    <3>1. DOMAIN ix = 1..Len(ix) /\ Len(ix) \in Nat
      OBVIOUS
    <3>2. o.n = Len(ix) + 1
      BY DEF Under
    <3> QED BY <3>1, <3>2
  <2> QED BY <2>1 DEF Indexed
<1>5. ~Opened(ix, sec, <<>>, o)
  <2>1. o.m \notin DOMAIN sec[1].commands
    <3>1. o.m = Len(sec[1].commands) + 1
      BY DEF Under
    <3> QED BY <3>1, SectionOf
  <2> QED BY <2>1 DEF Opened
<1> HIDE DEF o
<1>6. Owned(ix, sec, pend) = Owned(ix, sec, <<>>) \cup {o}
  BY <1>2, <1>3 DEF Owned
<1>7. o \notin Owned(ix, sec, <<>>)
  BY <1>4, <1>5 DEF Owned
<1> QED BY <1>2, <1>6, <1>7 DEF o

\* The command under way joins its section.
LEMMA Joined ==
    ASSUME NEW ix \in Seq(P!Entry), NEW sec \in Seq(P!Entry), sec # <<>>,
           NEW pend \in Seq(P!Cmd), pend # <<>>,
           NEW s2, s2 = [sec EXCEPT ![1].commands = Append(@, pend[1])]
    PROVE  Owned(ix, s2, <<>>) = Owned(ix, sec, pend)
<1> DEFINE cs == sec[1].commands
<1>1. pend[1] \in P!Cmd /\ cs \in Seq(P!Cmd) /\ Len(cs) \in Nat /\ DOMAIN cs = 1..Len(cs)
  BY SectionOf
<1>2. s2 # <<>> /\ s2[1].key = sec[1].key /\ s2[1].creates = sec[1].creates
      /\ s2[1].commands = Append(cs, pend[1])
  <2>1. sec[1] \in P!Entry /\ 1 \in DOMAIN sec
    BY SectionOf
  <2>2. s2[1] = [sec[1] EXCEPT !.commands = Append(cs, pend[1])] /\ 1 \in DOMAIN s2
    BY <2>1
  <2> QED BY <2>1, <2>2 DEF P!Entry
<1>3. /\ DOMAIN s2[1].commands = 1..(Len(cs) + 1)
      /\ \A m \in 1..(Len(cs) + 1) :
            s2[1].commands[m] = IF m <= Len(cs) THEN cs[m] ELSE pend[1]
  BY <1>1, <1>2
<1>4. ASSUME NEW q \in Owning
      PROVE  Opened(ix, s2, <<>>, q) <=> Opened(ix, sec, pend, q)
  <2>1. (q.m \in DOMAIN s2[1].commands /\ q.c = s2[1].commands[q.m])
        <=> \/ q.m \in DOMAIN cs /\ q.c = cs[q.m]
            \/ q.m = Len(cs) + 1 /\ q.c = pend[1]
    <3>1. q.m \in 1..(Len(cs) + 1) <=> q.m \in 1..Len(cs) \/ q.m = Len(cs) + 1
      BY <1>1
    <3>2. q.m \in 1..Len(cs) => q.m <= Len(cs)
      BY <1>1
    <3>3. q.m = Len(cs) + 1 => ~(q.m <= Len(cs))
      BY <1>1
    <3> QED BY <1>1, <1>3, <3>1, <3>2, <3>3
  <2> QED BY <1>2, <2>1 DEF Opened
<1> QED BY <1>4 DEF Owned

\* A section with commands goes to the index, one without is dropped.
FlushOf(ix, sec) == IF sec # <<>> /\ sec[1].commands # <<>> THEN Append(ix, sec[1]) ELSE ix

LEMMA Flushed ==
    ASSUME NEW ix \in Seq(P!Entry), NEW sec \in Seq(P!Entry), NEW s2,
           s2 = <<>> \/ s2[1].commands = <<>>
    PROVE  Owned(FlushOf(ix, sec), s2, <<>>) = Owned(ix, sec, <<>>)
<1> DEFINE iy == FlushOf(ix, sec)
<1>0. iy = IF sec # <<>> /\ sec[1].commands # <<>> THEN Append(ix, sec[1]) ELSE ix
  BY DEF FlushOf
<1> HIDE DEF iy
<1>1. ASSUME NEW q PROVE ~Opened(iy, s2, <<>>, q)
  BY DEF Opened
<1>2. DOMAIN ix = 1..Len(ix) /\ Len(ix) \in Nat
  OBVIOUS
<1>3. ASSUME sec # <<>> /\ sec[1].commands # <<>>
      PROVE  Owned(iy, s2, <<>>) = Owned(ix, sec, <<>>)
  <2>1. iy = Append(ix, sec[1]) /\ sec[1] \in P!Entry
    BY <1>0, <1>3, SectionOf
  <2>2. /\ DOMAIN iy = 1..(Len(ix) + 1)
        /\ \A n \in 1..(Len(ix) + 1) : iy[n] = IF n <= Len(ix) THEN ix[n] ELSE sec[1]
    BY <1>2, <2>1
  <2>3. ASSUME NEW q \in Owning
        PROVE  Indexed(iy, q) <=> Indexed(ix, q) \/ Opened(ix, sec, <<>>, q)
    <3>1. CASE q.n \in DOMAIN ix
      <4>1. iy[q.n] = ix[q.n] /\ q.n \in DOMAIN iy /\ q.n # Len(ix) + 1
        BY <1>2, <2>2, <3>1
      <4> QED BY <3>1, <4>1 DEF Indexed, Opened
    <3>2. CASE q.n = Len(ix) + 1
      <4>1. iy[q.n] = sec[1] /\ q.n \in DOMAIN iy /\ q.n \notin DOMAIN ix
        BY <1>2, <2>2, <3>2
      <4> QED BY <1>3, <3>2, <4>1 DEF Indexed, Opened
    <3>3. CASE q.n \notin DOMAIN ix /\ q.n # Len(ix) + 1
      <4>1. q.n \notin DOMAIN iy
        BY <1>2, <2>2, <3>3
      <4> QED BY <3>3, <4>1 DEF Indexed, Opened
    <3> QED BY <3>1, <3>2, <3>3
  <2> QED BY <1>1, <2>3 DEF Owned
<1>4. ASSUME ~(sec # <<>> /\ sec[1].commands # <<>>)
      PROVE  Owned(iy, s2, <<>>) = Owned(ix, sec, <<>>)
  <2>1. iy = ix
    BY <1>0, <1>4
  <2>2. ASSUME NEW q PROVE ~Opened(ix, sec, <<>>, q)
    BY <1>4 DEF Opened
  <2> QED BY <1>1, <2>1, <2>2 DEF Owned
<1> QED BY <1>3, <1>4 DEF iy

\* Sorting gives every holder another place.
Shuffles(O, Q, f) ==
    /\ \A q \in Q : \E o \in O : o.n = f[q.n] /\ o.m = q.m /\ o.c = q.c
    /\ \A o \in O : \E q \in Q : q.c = o.c
    /\ \A p, q \in Q : f[p.n] = f[q.n] => p.n = q.n

LEMMA Shuffled ==
    ASSUME NEW b, NEW k \in Nat, NEW O \in SUBSET Owning, NEW Q \in SUBSET Owning,
           NEW f, Shuffles(O, Q, f), Placed(b, k, O)
    PROVE  Placed(b, k, Q) /\ \A l : IsText(Q, l) <=> IsText(O, l)
<1> USE DEF Shuffles
<1>1. \A q \in Q : /\ 1 <= q.c.at /\ End(q.c) < k
                   /\ \A x \in DOMAIN q.c.input : q.c.input[x] = q.c.at + x
  BY DEF Placed
<1>2. ASSUME NEW p \in Q, NEW q \in Q, NEW l \in Nat, In(l, p.c), In(l, q.c)
      PROVE  p.n = q.n /\ p.m = q.m
  <2>1. PICK o \in O : o.n = f[p.n] /\ o.m = p.m /\ o.c = p.c
    OBVIOUS
  <2>2. PICK r \in O : r.n = f[q.n] /\ r.m = q.m /\ r.c = q.c
    OBVIOUS
  <2>3. o.n = r.n /\ o.m = r.m
    BY <1>2, <2>1, <2>2 DEF Placed
  <2>4. f[p.n] = f[q.n] /\ p.m = q.m
    BY <2>1, <2>2, <2>3, Zenon
  <2> QED BY <2>4, Zenon
<1>3. \A l \in 1..(k - 1) : Counts(b, l) => \E q \in Q : In(l, q.c)
  BY DEF Placed
<1>4. Placed(b, k, Q)
  BY <1>1, <1>2, <1>3 DEF Placed
<1>5. \A l : IsText(Q, l) <=> IsText(O, l)
  BY DEF IsText
<1> QED BY <1>4, <1>5

LEMMA SortingOf ==
    ASSUME NEW ix \in Seq(P!Entry), NEW iy \in P!Sortings(ix)
    PROVE  \E f \in [DOMAIN ix -> DOMAIN ix] :
              /\ iy = [n \in DOMAIN ix |-> ix[f[n]]]
              /\ \A x, y \in DOMAIN ix : f[x] = f[y] => x = y
              /\ \A y \in DOMAIN ix : \E x \in DOMAIN ix : f[x] = y
<1>1. PICK f \in [DOMAIN ix -> DOMAIN ix] :
          /\ iy = [n \in DOMAIN ix |-> ix[f[n]]]
          /\ \A x, y \in DOMAIN ix : f[x] = f[y] => x = y
  BY DEF P!Sortings
<1>2. IsFiniteSet(DOMAIN ix)
  <2>1. DOMAIN ix = 1..Len(ix) /\ Len(ix) \in Nat
    OBVIOUS
  <2> QED BY <2>1, FS_Interval
<1>3. f \in Injection(DOMAIN ix, DOMAIN ix)
  BY <1>1 DEF Injection, IsInjective
<1>4. f \in Surjection(DOMAIN ix, DOMAIN ix)
  BY <1>2, <1>3, FS_Injection
<1>5. \A y \in DOMAIN ix : \E x \in DOMAIN ix : f[x] = y
  BY <1>4 DEF Surjection
<1> QED BY <1>1, <1>5

-----------------------------------------------------------------------------
(* The lines of the bundle along the parse.                                *)

Holders == Owned(index, section, pending)

LinesInv ==
    /\ parsing \in {"idle", "start"} => i = 1
    /\ parsing \in {"idle", "start", "finalize", "parsed", "rekeyed"}
       => section = <<>> /\ pending = <<>>
    /\ parsing \in {"finalize", "parsed", "rekeyed"} => i = Len(bundle) + 1
    /\ parsing # "failed" => Placed(bundle, i, Holders)
    /\ parsing \notin {"rekeyed", "failed"} => Headed(bundle, Holders)
    /\ parsing # "failed" =>
          \A o \in Holders : Closed(bundle, o.c) \/ (pending # <<>> /\ o.c = pending[1])
    /\ parsing = "lines" /\ section # <<>> =>
          \E h : HeadAt(bundle, Holders, section[1].key, section[1].creates, h, i - 1)
    /\ parsing = "lines" /\ pending # <<>> => End(pending[1]) = i - 1

LEMMA NoHolders ==
    ASSUME NEW b
    PROVE  /\ Owned(<<>>, <<>>, <<>>) = {}
           /\ Placed(b, 1, {}) /\ Headed(b, {})
<1>1. DOMAIN <<>> = {}
  OBVIOUS
<1>2. \A o : ~Indexed(<<>>, o) /\ ~Opened(<<>>, <<>>, <<>>, o)
  BY <1>1 DEF Indexed, Opened
<1>3. Owned(<<>>, <<>>, <<>>) = {}
  BY <1>2 DEF Owned
<1>4. 1..(1 - 1) = {}
  OBVIOUS
<1> QED BY <1>3, <1>4 DEF Placed, Headed

LEMMA NextHead ==
    ASSUME NEW b, NEW O, NEW key, NEW creates, NEW h, NEW n \in Nat \ {0},
           HeadAt(b, O, key, creates, h, n - 1), ~IsHeader(b, n)
    PROVE  HeadAt(b, O, key, creates, h, n)
<1>1. h \in 1..n
  BY DEF HeadAt
<1>2. ASSUME NEW l \in (h + 1)..n PROVE l = n \/ l \in (h + 1)..(n - 1)
  BY <1>1
<1> QED BY <1>1, <1>2 DEF HeadAt

LEMMA ThisHead ==
    ASSUME NEW b, NEW O \in SUBSET Owning, NEW k \in Nat \ {0}, Placed(b, k, O),
           IsHeader(b, k), NEW creates, creates <=> b[k].t = "newfile"
    PROVE  HeadAt(b, O, Canonical[b[k].path], creates, k, k)
<1>1. ~IsText(O, k)
  <2>1. \A o \in O : End(o.c) \in Nat /\ End(o.c) < k
    BY OwningIs DEF Placed
  <2>2. \A o \in O : ~(k <= End(o.c))
    BY <2>1
  <2> QED BY <2>2 DEF IsText
<1>2. k \in 1..k /\ (k + 1)..k = {}
  OBVIOUS
<1> QED BY <1>1, <1>2 DEF HeadAt

LEMMA HoldersAre == ASSUME NEW ix, NEW sec, NEW pend PROVE Owned(ix, sec, pend) \in SUBSET Owning
  BY DEF Owned

\* What a step that takes a line has to keep.
LEMMA LinesAre ==
    ASSUME LinesInv, parsing' = "lines", bundle' = bundle, i \in Nat, i' = i + 1,
           NEW O, Holders' = O, Placed(bundle, i + 1, O), Headed(bundle, O),
           \A o \in O : Closed(bundle, o.c) \/ (pending' # <<>> /\ o.c = pending'[1]),
           section' # <<>> =>
              \E h : HeadAt(bundle, O, section'[1].key, section'[1].creates, h, i),
           pending' # <<>> => End(pending'[1]) = i
    PROVE  LinesInv'
<1>1. i' - 1 = i
  OBVIOUS
<1> QED BY <1>1 DEF LinesInv

LEMMA ReadLines ==
    ASSUME LinesInv, ParserInv, NEW text, P!Read(text)
    PROVE  LinesInv'
<1>1. /\ parsing' = "start" /\ bundle' = text /\ i' = 1
      /\ index' = <<>> /\ section' = <<>> /\ pending' = <<>>
  BY DEF P!Read, ParserInv, LinesInv
<1>2. Holders' = {}
  BY <1>1, NoHolders DEF Holders
<1> QED BY <1>1, <1>2, NoHolders DEF LinesInv

LEMMA StartLines ==
    ASSUME LinesInv, ParserInv, P!Start
    PROVE  LinesInv'
<1>1. /\ parsing = "start" /\ parsing' \in {"parsed", "lines", "failed"}
      /\ bundle' = bundle /\ i' = 1 /\ i = 1
      /\ index' = <<>> /\ section' = <<>> /\ pending' = <<>>
      /\ parsing' = "parsed" => bundle = <<>>
  BY DEF P!Start, ParserInv, LinesInv
<1>2. Holders' = {}
  BY <1>1, NoHolders DEF Holders
<1>3. Len(<<>>) = 0
  OBVIOUS
<1> QED BY <1>1, <1>2, <1>3, NoHolders DEF LinesInv

LEMMA InputLines ==
    ASSUME LinesInv, ParserInv, P!InputLine
    PROVE  LinesInv'
<1> DEFINE O == Owned(index, section, pending)
           p == Under(index, section, pending'[1])
           o == Under(index, section, pending[1])
           Q == Owned(index, section, pending')
<1>t. /\ index \in Seq(P!Entry) /\ section \in Seq(P!Entry) /\ Len(section) <= 1
      /\ pending \in Seq(P!Cmd) /\ Len(pending) <= Len(section) /\ i \in Nat \ {0}
  BY DEF ParserInv, P!TypeOK
<1>1. /\ parsing = "lines" /\ parsing' = "lines" /\ bundle' = bundle /\ i' = i + 1
      /\ index' = index /\ section' = section /\ pending # <<>>
      /\ pending' = [pending EXCEPT ![1].input = Append(@, i)]
  BY DEF P!InputLine, P!AnyLine, P!InInput, P!Advance
<1>2. section # <<>> /\ 1 \in DOMAIN pending /\ pending[1] \in P!Cmd
  BY <1>t, <1>1
<1>3. /\ pending'[1] = [pending[1] EXCEPT !.input = Append(@, i)]
      /\ pending' \in Seq(P!Cmd) /\ pending' # <<>>
  <2>1. Append(pending[1].input, i) \in Seq(Nat)
    BY <1>t, <1>2, EndIs
  <2>2. [pending[1] EXCEPT !.input = Append(@, i)] \in P!Cmd
    BY <1>2, <2>1 DEF P!Cmd
  <2>3. pending' = [pending EXCEPT ![1] = [pending[1] EXCEPT !.input = Append(@, i)]]
    BY <1>1
  <2> QED BY <1>t, <1>2, <2>2, <2>3, ExceptSeq
<1>4. /\ p \in Owning /\ Q = Owned(index, section, <<>>) \cup {p}
      /\ O = Owned(index, section, <<>>) \cup {o} /\ o \notin Owned(index, section, <<>>)
  <2>1. /\ p \in Owning /\ Owned(index, section, pending') = Owned(index, section, <<>>) \cup {p}
    BY <1>t, <1>2, <1>3, UnderWay, ZenonT(30)
  <2>2. /\ Owned(index, section, pending) = Owned(index, section, <<>>) \cup {o}
        /\ o \notin Owned(index, section, <<>>)
    BY <1>t, <1>1, <1>2, UnderWay, ZenonT(30)
  <2> QED BY <2>1, <2>2
<1>5. p.n = o.n /\ p.m = o.m /\ p.key = o.key /\ p.creates = o.creates
      /\ o.c = pending[1] /\ p.c = pending'[1]
      /\ o.key = section[1].key /\ o.creates = section[1].creates
  BY DEF Under
<1>6. p.c.at = o.c.at /\ p.c.input = Append(o.c.input, i)
  BY <1>2, <1>3, <1>5 DEF P!Cmd
<1> HIDE DEF o, p, O, Q
<1>7. o \in O /\ Q = (O \ {o}) \cup {p}
  BY <1>4
<1>8. O \in SUBSET Owning
  BY HoldersAre DEF O
<1>9. /\ Placed(bundle, i, O) /\ Headed(bundle, O) /\ End(o.c) = i - 1
      /\ \A q \in O : Closed(bundle, q.c) \/ q.c = pending[1]
      /\ \E h : HeadAt(bundle, O, section[1].key, section[1].creates, h, i - 1)
  BY <1>1, <1>2, <1>5 DEF LinesInv, Holders, O
<1>10. /\ Placed(bundle, i + 1, Q) /\ Headed(bundle, Q)
       /\ \E h : HeadAt(bundle, Q, section[1].key, section[1].creates, h, i)
  <2>1. /\ Placed(bundle, i + 1, Q)
        /\ \A key, creates, h : HeadAt(bundle, O, key, creates, h, i - 1)
                                => HeadAt(bundle, Q, key, creates, h, i)
        /\ Headed(bundle, O) => Headed(bundle, Q)
    <3>1. p \in Owning /\ o \in O /\ Placed(bundle, i, O) /\ End(o.c) = i - 1
      BY <1>4, <1>7, <1>9
    <3>2. p.n = o.n /\ p.m = o.m /\ p.key = o.key /\ p.creates = o.creates
      BY <1>5
    <3>3. i \in Nat \ {0}
      BY <1>t
    <3>4. Grows(O, Q, i)
      BY <1>6, <1>7, <3>1, <3>2 DEF Grows
    <3> QED BY <1>8, <3>1, <3>3, <3>4, TextLine
  <2> QED BY <1>9, <2>1
<1>11. End(pending'[1]) = i
  <2> DEFINE a == o.c.at
             l == Len(o.c.input)
  <2>1. o.c.input \in Seq(Nat) /\ a \in Nat /\ l \in Nat
    BY <1>2, <1>5, EndIs
  <2>2. a + l = i - 1
    BY <1>9 DEF End
  <2>3. Len(p.c.input) = l + 1
    BY <1>t, <1>6, <2>1
  <2>4. End(p.c) = a + (l + 1)
    BY <1>6, <2>3 DEF End
  <2> HIDE DEF a, l
  <2>5. End(p.c) = i
    BY <1>t, <2>1, <2>2, <2>4, Sums
  <2> QED BY <1>5, <2>5
<1>12. \A q \in Q : Closed(bundle, q.c) \/ (pending' # <<>> /\ q.c = pending'[1])
  <2>1. ASSUME NEW q \in O, q # o PROVE Closed(bundle, q.c)
    <3>1. q.c # pending[1]
      <4>1. SUFFICES ASSUME q.c = o.c PROVE FALSE
        BY <1>5
      <4>2. o.c.at \in Nat /\ In(o.c.at, o.c)
        BY <1>7, <1>8, OwningIs DEF In
      <4>3. q.n = o.n /\ q.m = o.m
        BY <1>7, <1>9, <4>1, <4>2 DEF Placed
      <4>4. q \in Owned(index, section, <<>>)
        BY <1>4, <2>1
      <4>5. \/ Indexed(index, q)
            \/ q.m \in DOMAIN section[1].commands
        BY <4>4 DEF Owned, Opened
      <4>6. o.n = Len(index) + 1 /\ o.m = Len(section[1].commands) + 1
        BY DEF o, Under
      <4>7. Len(index) + 1 \notin DOMAIN index
        BY <1>t
      <4>8. Len(section[1].commands) + 1 \notin DOMAIN section[1].commands
        BY <1>t, <1>2, SectionOf
      <4> QED BY <4>3, <4>5, <4>6, <4>7, <4>8 DEF Indexed
    <3> QED BY <1>9, <3>1
  <2> QED BY <1>3, <1>5, <1>7, <2>1
<1>13. Holders' = Q
  BY <1>1 DEF Holders, Q
<1> QED BY <1>t, <1>1, <1>3, <1>10, <1>11, <1>12, <1>13, LinesAre

LEMMA EndOfInputLines ==
    ASSUME LinesInv, ParserInv, P!EndOfInput
    PROVE  LinesInv'
<1> DEFINE O == Owned(index, section, pending)
<1>t. /\ index \in Seq(P!Entry) /\ section \in Seq(P!Entry) /\ Len(section) <= 1
      /\ pending \in Seq(P!Cmd) /\ Len(pending) <= Len(section) /\ i \in Nat \ {0}
  BY DEF ParserInv, P!TypeOK
<1>1. /\ parsing = "lines" /\ parsing' = "lines" /\ bundle' = bundle /\ i' = i + 1
      /\ index' = index /\ pending # <<>> /\ pending' = <<>>
      /\ section' = [section EXCEPT ![1].commands = Append(@, pending[1])]
      /\ bundle[i].t = "dot" /\ i <= Len(bundle)
  BY DEF P!EndOfInput, P!Line, P!InInput, P!Advance, P!AddCommand
<1>2. section # <<>>
  BY <1>t, <1>1
<1>3. Holders' = O
  BY <1>t, <1>1, <1>2, Joined DEF Holders
<1>4. section'[1].key = section[1].key /\ section'[1].creates = section[1].creates
  <2>1. section[1] \in P!Entry /\ 1 \in DOMAIN section
    BY <1>t, <1>2, SectionOf
  <2>2. section'[1] = [section[1] EXCEPT !.commands = Append(@, pending[1])]
    BY <1>1, <2>1
  <2> QED BY <2>1, <2>2 DEF P!Entry
<1>5. /\ Placed(bundle, i, O) /\ Headed(bundle, O) /\ End(pending[1]) = i - 1
      /\ \A q \in O : Closed(bundle, q.c) \/ q.c = pending[1]
      /\ \E h : HeadAt(bundle, O, section[1].key, section[1].creates, h, i - 1)
  BY <1>1, <1>2 DEF LinesInv, Holders
<1>6. Placed(bundle, i + 1, O)
  <2>1. ~Counts(bundle, i)
    BY <1>1 DEF Counts
  <2> HIDE DEF O
  <2>2. O \in SUBSET Owning
    BY HoldersAre DEF O
  <2> QED BY <1>t, <1>5, <2>1, <2>2, PassLine
<1>7. \E h : HeadAt(bundle, O, section[1].key, section[1].creates, h, i)
  <2>1. ~IsHeader(bundle, i)
    BY <1>1 DEF IsHeader
  <2> QED BY <1>t, <1>5, <2>1, NextHead
<1>8. Closed(bundle, pending[1])
  <2>1. i \in DOMAIN bundle
    BY <1>t, <1>1, TokensAre DEF ParserInv
  <2>2. End(pending[1]) + 1 = i
    BY <1>t, <1>5
  <2> QED BY <1>1, <2>1, <2>2 DEF Closed
<1> HIDE DEF O
<1> QED BY <1>t, <1>1, <1>3, <1>4, <1>5, <1>6, <1>7, <1>8, LinesAre

LEMMA SkipLines ==
    ASSUME LinesInv, ParserInv, P!SkipLine
    PROVE  LinesInv'
<1> DEFINE O == Owned(index, section, pending)
<1>t. i \in Nat \ {0}
  BY DEF ParserInv, P!TypeOK
<1>1. /\ parsing = "lines" /\ parsing' = "lines" /\ bundle' = bundle /\ i' = i + 1
      /\ index' = index /\ section' = section /\ pending' = pending /\ pending = <<>>
      /\ bundle[i].t \in {"magic", "comment", "blank"}
  BY DEF P!SkipLine, P!Line, P!InInput, P!Advance
<1>2. Holders' = O
  BY <1>1 DEF Holders
<1>3. /\ Placed(bundle, i, O) /\ Headed(bundle, O)
      /\ \A q \in O : Closed(bundle, q.c)
      /\ section # <<>> =>
            \E h : HeadAt(bundle, O, section[1].key, section[1].creates, h, i - 1)
  BY <1>1 DEF LinesInv, Holders
<1> HIDE DEF O
<1>4. Placed(bundle, i + 1, O)
  <2>1. ~Counts(bundle, i)
    BY <1>1 DEF Counts
  <2>2. O \in SUBSET Owning
    BY HoldersAre DEF O
  <2> QED BY <1>t, <1>3, <2>1, <2>2, PassLine
<1>5. section # <<>> => \E h : HeadAt(bundle, O, section[1].key, section[1].creates, h, i)
  <2>1. ~IsHeader(bundle, i)
    BY <1>1 DEF IsHeader
  <2> QED BY <1>t, <1>3, <2>1, NextHead
<1> QED BY <1>t, <1>1, <1>2, <1>3, <1>4, <1>5, LinesAre

LEMMA FileHeaderLines ==
    ASSUME LinesInv, ParserInv, P!FileHeader
    PROVE  LinesInv'
<1> DEFINE O == Owned(index, section, pending)
<1>t. /\ index \in Seq(P!Entry) /\ section \in Seq(P!Entry) /\ i \in Nat \ {0}
  BY DEF ParserInv, P!TypeOK
<1>1. /\ parsing = "lines" /\ parsing' = "lines" /\ bundle' = bundle /\ i' = i + 1
      /\ pending' = pending /\ pending = <<>>
      /\ bundle[i].t = "file" /\ i <= Len(bundle) /\ bundle[i].path # NoPath
      /\ section' = <<P!Section(FALSE)>>
      /\ index' = IF section # <<>> /\ section[1].commands # <<>>
                  THEN Append(index, section[1]) ELSE index
  BY DEF P!FileHeader, P!Line, P!InInput, P!Advance, P!Flush
<1>2. P!Section(FALSE) \in P!Entry
  BY <1>1, SectionIs
<1>3. Holders' = O
  <2>1. section' \in Seq(P!Entry) /\ section'[1].commands = <<>>
    BY <1>1, <1>2 DEF P!Section
  <2>2. Owned(index', section', <<>>) = Owned(index, section, <<>>)
    <3>1. index' = FlushOf(index, section)
      BY <1>1 DEF FlushOf
    <3> QED BY <1>t, <2>1, <3>1, Flushed
  <2> QED BY <1>1, <2>2 DEF Holders
<1>4. /\ Placed(bundle, i, O) /\ Headed(bundle, O)
      /\ \A q \in O : Closed(bundle, q.c)
  BY <1>1 DEF LinesInv, Holders
<1> HIDE DEF O
<1>5. O \in SUBSET Owning
  BY HoldersAre DEF O
<1>6. Placed(bundle, i + 1, O)
  <2>1. ~Counts(bundle, i)
    BY <1>1 DEF Counts
  <2> QED BY <1>t, <1>4, <1>5, <2>1, PassLine
<1>7. HeadAt(bundle, O, section'[1].key, section'[1].creates, i, i)
  <2>1. section'[1].key = Canonical[bundle[i].path] /\ section'[1].creates = FALSE
    BY <1>1 DEF P!Section
  <2>2. IsHeader(bundle, i) /\ bundle[i].t # "newfile"
    BY <1>1 DEF IsHeader
  <2> QED BY <1>t, <1>4, <1>5, <2>1, <2>2, ThisHead
<1> QED BY <1>t, <1>1, <1>3, <1>4, <1>6, <1>7, LinesAre

\* A command that begins in the open section.
LEMMA CommandLines ==
    ASSUME LinesInv, ParserInv, parsing = "lines", parsing' = "lines", bundle' = bundle,
           i' = i + 1, pending = <<>>, section # <<>>, ~IsHeader(bundle, i),
           Holders' = Owned(index, section, <<New(i)>>),
           section'[1].key = section[1].key, section'[1].creates = section[1].creates,
           pending' = <<New(i)>> \/ (pending' = <<>> /\ bundle[i].t = "delete")
    PROVE  LinesInv'
<1> DEFINE O == Owned(index, section, <<>>)
           o == Under(index, section, New(i))
           Q == O \cup {o}
<1>t. index \in Seq(P!Entry) /\ section \in Seq(P!Entry) /\ i \in Nat \ {0}
  BY DEF ParserInv, P!TypeOK
<1>1. New(i) \in P!Cmd /\ New(i).at = i /\ End(New(i)) = i
  BY <1>t, NewIs
<1>2. o \in Owning /\ Holders' = Q
  <2>1. <<New(i)>> \in Seq(P!Cmd) /\ <<New(i)>> # <<>> /\ <<New(i)>>[1] = New(i)
    BY <1>1
  <2> HIDE DEF New
  <2> QED BY <1>t, <2>1, UnderWay
<1>3. o.c = New(i) /\ o.key = section[1].key /\ o.creates = section[1].creates
  BY DEF Under
<1>4. /\ Placed(bundle, i, O) /\ Headed(bundle, O) /\ \A q \in O : Closed(bundle, q.c)
      /\ \E h : HeadAt(bundle, O, section[1].key, section[1].creates, h, i - 1)
  BY DEF LinesInv, Holders
<1> HIDE DEF O, o
<1>5. O \in SUBSET Owning
  BY HoldersAre DEF O
<1>6. PICK h : HeadAt(bundle, O, section[1].key, section[1].creates, h, i)
  BY <1>t, <1>4, NextHead
<1>7. /\ Placed(bundle, i + 1, Q) /\ Headed(bundle, Q)
      /\ HeadAt(bundle, Q, section[1].key, section[1].creates, h, i)
  BY <1>t, <1>2, <1>3, <1>4, <1>5, <1>6, NewLine
<1>8. \A q \in Q : Closed(bundle, q.c) \/ (pending' # <<>> /\ q.c = pending'[1])
  <2>1. Closed(bundle, o.c) \/ (pending' # <<>> /\ o.c = pending'[1])
    <3>1. CASE pending' = <<New(i)>>
      BY <1>3, <3>1
    <3>2. CASE bundle[i].t = "delete"
      BY <1>1, <1>3, <3>2 DEF Closed
    <3> QED BY <3>1, <3>2
  <2> QED BY <1>4, <2>1
<1>9. pending' # <<>> => End(pending'[1]) = i
  <2> HIDE DEF New
  <2> QED BY <1>1
<1> HIDE DEF Q
<1> QED BY <1>t, <1>2, <1>7, <1>8, <1>9, LinesAre

LEMMA DeleteLines ==
    ASSUME LinesInv, ParserInv, P!DeleteCommand
    PROVE  LinesInv'
<1>t. index \in Seq(P!Entry) /\ section \in Seq(P!Entry) /\ i \in Nat \ {0}
  BY DEF ParserInv, P!TypeOK
<1>1. /\ parsing = "lines" /\ parsing' = "lines" /\ bundle' = bundle /\ i' = i + 1
      /\ index' = index /\ pending' = <<>> /\ pending = <<>> /\ section # <<>>
      /\ bundle[i].t = "delete"
      /\ section' = [section EXCEPT ![1].commands = Append(@, New(i))]
  BY DEF P!DeleteCommand, P!Line, P!InInput, P!Advance, P!AddCommand, New
<1>2. New(i) \in P!Cmd
  BY <1>t, NewIs
<1> HIDE DEF New
<1>3. Holders' = Owned(index, section, <<New(i)>>)
  <2>1. <<New(i)>> \in Seq(P!Cmd) /\ <<New(i)>> # <<>> /\ <<New(i)>>[1] = New(i)
    BY <1>2
  <2>2. section' = [section EXCEPT ![1].commands = Append(@, <<New(i)>>[1])]
    BY <1>1, <2>1
  <2>3. Owned(index, section', <<>>) = Owned(index, section, <<New(i)>>)
    BY <1>t, <1>1, <2>1, <2>2, Joined
  <2> QED BY <1>1, <2>3 DEF Holders
<1>4. section'[1].key = section[1].key /\ section'[1].creates = section[1].creates
  <2>1. section[1] \in P!Entry /\ 1 \in DOMAIN section
    BY <1>t, <1>1, SectionOf
  <2>2. section'[1] = [section[1] EXCEPT !.commands = Append(@, New(i))]
    BY <1>1, <2>1
  <2> QED BY <2>1, <2>2 DEF P!Entry
<1>5. ~IsHeader(bundle, i)
  BY <1>1 DEF IsHeader
<1> QED BY <1>1, <1>3, <1>4, <1>5, CommandLines

LEMMA InputCommandLines ==
    ASSUME LinesInv, ParserInv, P!InputCommand
    PROVE  LinesInv'
<1>1. /\ parsing = "lines" /\ parsing' = "lines" /\ bundle' = bundle /\ i' = i + 1
      /\ index' = index /\ pending' = <<New(i)>> /\ pending = <<>> /\ section # <<>>
      /\ bundle[i].t = "input" /\ section' = section
  BY DEF P!InputCommand, P!Line, P!InInput, P!Advance, New
<1>2. Holders' = Owned(index, section, <<New(i)>>)
  BY <1>1 DEF Holders
<1>3. ~IsHeader(bundle, i)
  BY <1>1 DEF IsHeader
<1> QED BY <1>1, <1>2, <1>3, CommandLines

LEMMA NewFileHeaderLines ==
    ASSUME LinesInv, ParserInv, P!NewFileHeader
    PROVE  LinesInv'
<1> DEFINE O == Owned(index, section, <<>>)
           o == Under(index', section', New(i))
           Q == O \cup {o}
<1>t. /\ index \in Seq(P!Entry) /\ section \in Seq(P!Entry) /\ i \in Nat \ {0}
      /\ P!TypeOK
  BY DEF ParserInv, P!TypeOK
<1>1. /\ parsing = "lines" /\ parsing' = "lines" /\ bundle' = bundle /\ i' = i + 1
      /\ pending' = <<New(i)>> /\ pending = <<>>
      /\ bundle[i].t = "newfile" /\ i <= Len(bundle) /\ bundle[i].path # NoPath
      /\ section' = <<P!Section(TRUE)>> /\ P!Flush
  BY DEF P!NewFileHeader, P!Line, P!InInput, P!Advance, New
<1>2. P!Section(TRUE) \in P!Entry
  BY <1>1, SectionIs
<1>3. New(i) \in P!Cmd /\ New(i).at = i /\ End(New(i)) = i
  BY <1>t, NewIs
<1> HIDE DEF New
<1>4. /\ section' \in Seq(P!Entry) /\ section' # <<>> /\ index' \in Seq(P!Entry)
      /\ section'[1].commands = <<>>
      /\ section'[1].key = Canonical[bundle[i].path] /\ section'[1].creates = TRUE
  BY <1>t, <1>1, <1>2, FlushIs DEF P!Section
<1>5. Owned(index', section', <<>>) = O
  <2>1. index' = FlushOf(index, section)
    BY <1>1 DEF FlushOf, P!Flush
  <2> QED BY <1>t, <1>4, <2>1, Flushed
<1>6. /\ o \in Owning /\ Holders' = Q
  <2>1. <<New(i)>> \in Seq(P!Cmd) /\ <<New(i)>> # <<>> /\ <<New(i)>>[1] = New(i)
    BY <1>3
  <2>2. /\ o \in Owning
        /\ Owned(index', section', <<New(i)>>) = Owned(index', section', <<>>) \cup {o}
    <3> DEFINE pend == <<New(i)>>
    <3>1. pend \in Seq(P!Cmd) /\ pend # <<>> /\ pend[1] = New(i)
      BY <2>1
    <3> HIDE DEF pend
    <3>2. /\ Under(index', section', pend[1]) \in Owning
          /\ Owned(index', section', pend)
             = Owned(index', section', <<>>) \cup {Under(index', section', pend[1])}
      BY <1>4, <3>1, UnderWay
    <3> QED BY <3>1, <3>2 DEF pend
  <2> QED BY <1>1, <1>5, <2>2 DEF Holders
<1>7. o.c = New(i) /\ o.key = section'[1].key /\ o.creates = section'[1].creates
  BY DEF Under
<1>8. /\ Placed(bundle, i, O) /\ Headed(bundle, O) /\ \A q \in O : Closed(bundle, q.c)
  BY <1>1 DEF LinesInv, Holders
<1> HIDE DEF O, o
<1>9. O \in SUBSET Owning
  BY HoldersAre DEF O
<1>10. HeadAt(bundle, O, section'[1].key, section'[1].creates, i, i)
  <2>1. IsHeader(bundle, i) /\ (TRUE <=> bundle[i].t = "newfile")
    BY <1>1 DEF IsHeader
  <2> QED BY <1>t, <1>4, <1>8, <1>9, <2>1, ThisHead
<1>11. /\ Placed(bundle, i + 1, Q) /\ Headed(bundle, Q)
       /\ HeadAt(bundle, Q, section'[1].key, section'[1].creates, i, i)
  BY <1>t, <1>6, <1>7, <1>8, <1>9, <1>10, NewLine
<1>12. \A q \in Q : Closed(bundle, q.c) \/ (pending' # <<>> /\ q.c = pending'[1])
  BY <1>1, <1>7, <1>8
<1>13. End(pending'[1]) = i
  BY <1>1, <1>3
<1> HIDE DEF Q
<1> QED BY <1>t, <1>1, <1>6, <1>11, <1>12, <1>13, LinesAre

LEMMA EndOfBundleLines ==
    ASSUME LinesInv, ParserInv, P!EndOfBundle
    PROVE  LinesInv'
<1> DEFINE O == Owned(index, section, <<>>)
<1>t. /\ index \in Seq(P!Entry) /\ section \in Seq(P!Entry) /\ i \in 1..(Len(bundle) + 1)
      /\ Len(bundle) \in Nat
  BY TokensAre DEF ParserInv, P!TypeOK
<1>1. /\ parsing = "lines" /\ parsing' = "finalize" /\ bundle' = bundle /\ i' = i
      /\ pending' = <<>> /\ pending = <<>> /\ section' = <<>> /\ i > Len(bundle)
      /\ P!Flush
  BY DEF P!EndOfBundle, P!InInput
<1>2. i = Len(bundle) + 1
  BY <1>t, <1>1
<1>3. Owned(index', <<>>, <<>>) = O
  <2>1. index' = FlushOf(index, section)
    BY <1>1 DEF FlushOf, P!Flush
  <2> QED BY <1>t, <2>1, Flushed
<1>4. Holders' = O
  BY <1>1, <1>3 DEF Holders
<1>5. Placed(bundle, i, O) /\ Headed(bundle, O) /\ \A q \in O : Closed(bundle, q.c)
  BY <1>1 DEF LinesInv, Holders
<1> HIDE DEF O
<1> QED BY <1>1, <1>2, <1>4, <1>5 DEF LinesInv

-----------------------------------------------------------------------------
(* Sorting and renaming.                                                   *)

LEMMA SortedHolders ==
    ASSUME NEW b, NEW k \in Nat, NEW ix \in Seq(P!Entry), NEW jx \in Seq(P!Entry),
           DOMAIN jx = DOMAIN ix, \A n \in DOMAIN ix : jx[n].commands = ix[n].commands,
           NEW iy \in P!Sortings(jx),
           Placed(b, k, Owned(ix, <<>>, <<>>)),
           \A o \in Owned(ix, <<>>, <<>>) : Closed(b, o.c)
    PROVE  /\ Placed(b, k, Owned(iy, <<>>, <<>>))
           /\ \A q \in Owned(iy, <<>>, <<>>) : Closed(b, q.c)
           /\ jx = ix /\ Headed(b, Owned(ix, <<>>, <<>>)) => Headed(b, Owned(iy, <<>>, <<>>))
<1> DEFINE O == Owned(ix, <<>>, <<>>)
           Q == Owned(iy, <<>>, <<>>)
<1>1. PICK f \in [DOMAIN ix -> DOMAIN ix] :
          /\ iy = [n \in DOMAIN ix |-> jx[f[n]]]
          /\ \A x, y \in DOMAIN ix : f[x] = f[y] => x = y
          /\ \A y \in DOMAIN ix : \E x \in DOMAIN ix : f[x] = y
  <2>1. PICK f \in [DOMAIN jx -> DOMAIN jx] :
            /\ iy = [n \in DOMAIN jx |-> jx[f[n]]]
            /\ \A x, y \in DOMAIN jx : f[x] = f[y] => x = y
            /\ \A y \in DOMAIN jx : \E x \in DOMAIN jx : f[x] = y
    BY SortingOf
  <2> QED BY <2>1
<1>2. DOMAIN iy = DOMAIN ix /\ \A n \in DOMAIN ix : iy[n] = jx[f[n]]
  BY <1>1
<1>3. \A n \in DOMAIN ix : n \in Nat /\ ix[n] \in P!Entry /\ jx[n] \in P!Entry
  OBVIOUS
<1>4. \A e \in P!Entry : e.key \in Key /\ e.creates \in BOOLEAN
  BY DEF P!Entry
<1>5. \A o : ~Opened(ix, <<>>, <<>>, o) /\ ~Opened(iy, <<>>, <<>>, o)
  BY DEF Opened
<1>6. ASSUME NEW q \in Q
      PROVE  /\ q.n \in DOMAIN ix
             /\ \E o \in O : /\ o.n = f[q.n] /\ o.m = q.m /\ o.c = q.c
                             /\ jx = ix => o.key = q.key /\ o.creates = q.creates
  <2>1. q \in Owning /\ Indexed(iy, q)
    BY <1>5 DEF Owned
  <2>2. q.n \in DOMAIN ix /\ f[q.n] \in DOMAIN ix /\ iy[q.n] = jx[f[q.n]]
    BY <1>1, <1>2, <2>1 DEF Indexed
  <2> DEFINE o == [n |-> f[q.n], m |-> q.m, c |-> q.c,
                   key |-> ix[f[q.n]].key, creates |-> ix[f[q.n]].creates]
  <2>3. o \in Owning
    BY <1>3, <1>4, <2>1, <2>2 DEF Owning
  <2>4. Indexed(ix, o)
    BY <2>1, <2>2 DEF Indexed
  <2>5. jx = ix => o.key = q.key /\ o.creates = q.creates
    BY <2>1, <2>2 DEF Indexed
  <2>6. o \in O
    BY <2>3, <2>4 DEF Owned
  <2> QED BY <2>2, <2>5, <2>6
<1>7. ASSUME NEW o \in O PROVE \E q \in Q : q.c = o.c
  <2>1. o \in Owning /\ Indexed(ix, o)
    BY <1>5 DEF Owned
  <2>2. PICK x \in DOMAIN ix : f[x] = o.n
    BY <1>1, <2>1 DEF Indexed
  <2>3. iy[x] = jx[o.n] /\ jx[o.n].commands = ix[o.n].commands /\ o.n \in DOMAIN ix
    BY <1>2, <2>1, <2>2 DEF Indexed
  <2> DEFINE q == [n |-> x, m |-> o.m, c |-> o.c, key |-> jx[o.n].key, creates |-> jx[o.n].creates]
  <2>4. q \in Owning
    BY <1>3, <1>4, <2>1, <2>2, <2>3 DEF Owning
  <2>5. Indexed(iy, q)
    BY <1>2, <2>1, <2>2, <2>3 DEF Indexed
  <2>6. q \in Q
    BY <2>4, <2>5 DEF Owned
  <2> QED BY <2>6
<1>8. O \in SUBSET Owning /\ Q \in SUBSET Owning
  BY HoldersAre
<1>9. \A p, q \in Q : f[p.n] = f[q.n] => p.n = q.n
  BY <1>1, <1>6
<1> HIDE DEF O, Q
<1>10. Placed(b, k, Q) /\ \A l : IsText(Q, l) <=> IsText(O, l)
  <2>1. Placed(b, k, O)
    BY DEF O
  <2>2. \A q \in Q : \E o \in O : o.n = f[q.n] /\ o.m = q.m /\ o.c = q.c
    BY <1>6
  <2>3. Shuffles(O, Q, f)
    BY <1>7, <1>9, <2>2 DEF Shuffles
  <2> QED BY <1>8, <2>1, <2>3, Shuffled
<1>11. \A q \in Q : Closed(b, q.c)
  <2>1. \A o \in O : Closed(b, o.c)
    BY DEF O
  <2> QED BY <1>6, <2>1
<1>12. ASSUME jx = ix, Headed(b, O) PROVE Headed(b, Q)
  <2>1. \A key, creates, h, n : HeadAt(b, O, key, creates, h, n) => HeadAt(b, Q, key, creates, h, n)
    BY <1>10 DEF HeadAt
  <2>2. ASSUME NEW q \in Q PROVE \E h : HeadAt(b, Q, q.key, q.creates, h, q.c.at)
    <3>1. PICK o \in O : o.c = q.c /\ o.key = q.key /\ o.creates = q.creates
      BY <1>6, <1>12
    <3>2. PICK h : HeadAt(b, O, o.key, o.creates, h, o.c.at)
      BY <1>12 DEF Headed
    <3> QED BY <2>1, <3>1, <3>2
  <2> QED BY <2>2 DEF Headed
<1> QED BY <1>10, <1>11, <1>12 DEF O, Q

LEMMA FinalizeLines ==
    ASSUME LinesInv, ParserInv, P!Finalize
    PROVE  LinesInv'
<1>t. index \in Seq(P!Entry) /\ i \in Nat
  BY DEF ParserInv, P!TypeOK
<1>1. /\ parsing = "finalize" /\ parsing' \in {"failed", "parsed"}
      /\ bundle' = bundle /\ i' = i /\ section' = section /\ pending' = pending
      /\ index' \in P!Sortings(index)
  BY DEF P!Finalize
<1>2. /\ section = <<>> /\ pending = <<>> /\ i = Len(bundle) + 1
      /\ Holders = Owned(index, <<>>, <<>>) /\ Holders' = Owned(index', <<>>, <<>>)
  BY <1>1 DEF LinesInv, Holders
<1>3. /\ Placed(bundle, i, Holders) /\ Headed(bundle, Holders)
      /\ \A o \in Holders : Closed(bundle, o.c)
  BY <1>1, <1>2 DEF LinesInv
<1>4. /\ Placed(bundle, i, Holders') /\ Headed(bundle, Holders')
      /\ \A o \in Holders' : Closed(bundle, o.c)
  BY <1>t, <1>1, <1>2, <1>3, SortedHolders
<1> HIDE DEF Holders
<1> QED BY <1>1, <1>2, <1>4 DEF LinesInv

LEMMA RenameLines ==
    ASSUME LinesInv, ParserInv, P!Recanonicalize
    PROVE  LinesInv'
<1> DEFINE jx == P!Rekeyed(index)
<1>t. index \in Seq(P!Entry) /\ i \in Nat /\ jx \in Seq(P!Entry)
  BY RekeyedIs DEF ParserInv, P!TypeOK
<1>1. /\ parsing = "parsed" /\ parsing' = "rekeyed"
      /\ bundle' = bundle /\ i' = i /\ section' = section /\ pending' = pending
      /\ index' \in P!Sortings(jx)
  BY DEF P!Recanonicalize
<1>2. /\ section = <<>> /\ pending = <<>> /\ i = Len(bundle) + 1
      /\ Holders = Owned(index, <<>>, <<>>) /\ Holders' = Owned(index', <<>>, <<>>)
  BY <1>1 DEF LinesInv, Holders
<1>3. /\ Placed(bundle, i, Holders) /\ \A o \in Holders : Closed(bundle, o.c)
  BY <1>1, <1>2 DEF LinesInv
<1>4. DOMAIN jx = DOMAIN index /\ \A n \in DOMAIN index : jx[n].commands = index[n].commands
  <2>1. \A n \in DOMAIN index : index[n] \in P!Entry
    BY <1>t
  <2>2. \A e \in P!Entry : [e EXCEPT !.key = Real[@]].commands = e.commands
    BY DEF P!Entry
  <2> QED BY <2>1, <2>2 DEF P!Rekeyed
<1> HIDE DEF jx
<1>5. /\ Placed(bundle, i, Holders') /\ \A o \in Holders' : Closed(bundle, o.c)
  BY <1>t, <1>1, <1>2, <1>3, <1>4, SortedHolders
<1> HIDE DEF Holders
<1> QED BY <1>1, <1>2, <1>5 DEF LinesInv

LEMMA ParseLines ==
    ASSUME LinesInv, ParserInv, P!Parse
    PROVE  LinesInv'
<1>1. ASSUME parsing' = "failed", parsing = "lines" PROVE LinesInv'
  BY <1>1 DEF LinesInv
<1>2. CASE P!BadLine \/ P!Unterminated
  BY <1>1, <1>2 DEF P!BadLine, P!Unterminated, P!Fail, P!AnyLine
<1> QED BY <1>2, StartLines, InputLines, EndOfInputLines, FileHeaderLines, NewFileHeaderLines,
           SkipLines, DeleteLines, InputCommandLines, EndOfBundleLines, FinalizeLines,
           RenameLines
        DEF P!Parse

LEMMA LinesInit == PipeInit => LinesInv
<1> SUFFICES ASSUME PipeInit PROVE LinesInv
  OBVIOUS
<1>1. /\ parsing = "idle" /\ i = 1 /\ index = <<>> /\ section = <<>> /\ pending = <<>>
  BY DEF PipeInit, P!Init
<1>2. Holders = {}
  BY <1>1, NoHolders DEF Holders
<1> QED BY <1>1, <1>2, NoHolders DEF LinesInv

LEMMA LinesNext == Inv /\ LinesInv /\ [PipeNext]_<<vars, parser>> => LinesInv'
<1> SUFFICES ASSUME Inv, LinesInv, [PipeNext]_<<vars, parser>> PROVE LinesInv'
  OBVIOUS
<1>p. ASSUME UNCHANGED parser PROVE LinesInv'
  BY <1>p DEF LinesInv, Holders, parser
<1>1. CASE Deploy
  <2>1. PICK text : P!Read(text)
    BY <1>1 DEF Deploy
  <2> QED BY <2>1, ReadLines DEF Inv
<1>2. CASE P!Parse
  BY <1>2, ParseLines DEF Inv
<1> QED BY <1>p, <1>1, <1>2 DEF PipeNext

\* At every line, the commands read so far (in the index, in the open section and
\* under way) hold the lines before it, each at most once and each that counts
\* just once, as runs of neighbouring lines under the last header that is not text.
THEOREM LinesInvariant == PipeSpec => [](Inv /\ LinesInv)
<1>1. PipeInit => Inv /\ LinesInv
  BY InvInit, LinesInit
<1>2. Inv /\ LinesInv /\ [PipeNext]_<<vars, parser>> => (Inv /\ LinesInv)'
  BY InvNext, LinesNext
<1> QED BY <1>1, <1>2, PTL DEF PipeSpec

-----------------------------------------------------------------------------
(* What it means for an accepted bundle.                                   *)

LEMMA CommandIs ==
    ASSUME Inv, LinesInv, P!accepted, NEW n \in DOMAIN index,
           NEW m \in DOMAIN index[n].commands
    PROVE  LET c == index[n].commands[m]
           IN  /\ c \in P!Cmd
               /\ \E o \in Holders : /\ o.n = n /\ o.m = m /\ o.c = c
                                     /\ o.key = index[n].key /\ o.creates = index[n].creates
               /\ \A x \in DOMAIN c.input : c.input[x] = c.at + x
               /\ \A l \in Nat : l \in P!Texts(c) <=> c.at < l /\ l <= End(c)
               /\ \A l \in Nat : P!Holds(n, m, l) <=> In(l, c)
<1> DEFINE c == index[n].commands[m]
           o == [n |-> n, m |-> m, c |-> c, key |-> index[n].key, creates |-> index[n].creates]
<1>1. index[n] \in P!Entry /\ n \in Nat
  BY DEF Inv, ParserInv, P!TypeOK
<1>2. /\ index[n].key \in Key /\ index[n].creates \in BOOLEAN
      /\ index[n].commands \in Seq(P!Cmd)
  BY <1>1 DEF P!Entry
<1>3. c \in P!Cmd /\ m \in Nat
  BY <1>2
<1>4. o \in Owning /\ Indexed(index, o)
  BY <1>1, <1>2, <1>3 DEF Owning, Indexed
<1>5. o \in Holders
  BY <1>4 DEF Holders, Owned
<1>6. \E p \in Holders : /\ p.n = n /\ p.m = m /\ p.c = c
                         /\ p.key = index[n].key /\ p.creates = index[n].creates
  BY <1>5
<1>7. P!Holds(n, m, 0) \in BOOLEAN /\ \A l : P!Holds(n, m, l) <=> l = c.at \/ l \in P!Texts(c)
  BY DEF P!Holds
<1> HIDE DEF c, o
<1>8. \A x \in DOMAIN c.input : c.input[x] = c.at + x
  <2>1. Placed(bundle, i, Holders)
    BY DEF LinesInv, P!accepted
  <2> QED BY <1>6, <2>1 DEF Placed
<1>9. c.at \in Nat /\ DOMAIN c.input = 1..Len(c.input) /\ Len(c.input) \in Nat
      /\ End(c) = c.at + Len(c.input)
  BY <1>3, EndIs
<1>10. ASSUME NEW l \in Nat PROVE l \in P!Texts(c) <=> c.at < l /\ l <= End(c)
  <2>1. ASSUME l \in P!Texts(c) PROVE c.at < l /\ l <= End(c)
    <3>1. PICK x \in DOMAIN c.input : l = c.input[x]
      BY <2>1 DEF P!Texts
    <3> QED BY <1>8, <1>9, <3>1
  <2>2. ASSUME c.at < l /\ l <= End(c) PROVE l \in P!Texts(c)
    <3>1. l - c.at \in DOMAIN c.input /\ c.at + (l - c.at) = l
      BY <1>9, <2>2
    <3>2. c.input[l - c.at] = l
      BY <1>8, <3>1
    <3> QED BY <3>1, <3>2 DEF P!Texts
  <2> QED BY <2>1, <2>2
<1>11. ASSUME NEW l \in Nat PROVE P!Holds(n, m, l) <=> In(l, c)
  <2>1. In(l, c) <=> l = c.at \/ (c.at < l /\ l <= End(c))
    BY <1>9 DEF In
  <2> QED BY <1>7, <1>10, <2>1
<1> QED BY <1>3, <1>6, <1>8, <1>10, <1>11 DEF c

LEMMA HolderIs ==
    ASSUME Inv, LinesInv, P!accepted, NEW o \in Holders
    PROVE  /\ o.n \in DOMAIN index /\ o.m \in DOMAIN index[o.n].commands
           /\ o.c = index[o.n].commands[o.m]
<1>1. section = <<>>
  BY DEF LinesInv, P!accepted
<1> QED BY <1>1 DEF Holders, Owned, Indexed, Opened

\* However an accepted bundle came about, each of its commands, lines of text and
\* created files is in one command of one section, before the keys are renamed and
\* after (PatchSet::parse_ed_bundle, finalize, recanonicalize).
THEOREM NothingLostHolds == PipeSpec => []NothingLost
<1>1. Inv /\ LinesInv => NothingLost
  <2> SUFFICES ASSUME Inv, LinesInv, P!accepted, NEW l \in DOMAIN bundle,
                      bundle[l].t \in {"delete", "input", "text", "newfile"}
               PROVE  \E n \in DOMAIN index : \E m \in DOMAIN index[n].commands :
                          /\ P!Holds(n, m, l)
                          /\ \A x \in DOMAIN index : \A y \in DOMAIN index[x].commands :
                                 P!Holds(x, y, l) => x = n /\ y = m
    BY DEF NothingLost, P!NothingLost
  <2>1. l \in Nat /\ l \in 1..(i - 1) /\ Counts(bundle, l)
    <3>1. Len(bundle) \in Nat /\ l \in 1..Len(bundle)
      BY TokensAre DEF Inv, ParserInv
    <3>2. i = Len(bundle) + 1
      BY DEF LinesInv, P!accepted
    <3> QED BY <3>1, <3>2 DEF Counts
  <2>2. Placed(bundle, i, Holders)
    BY DEF LinesInv, P!accepted
  <2>3. PICK o \in Holders : In(l, o.c)
    BY <2>1, <2>2 DEF Placed
  <2>4. /\ o.n \in DOMAIN index /\ o.m \in DOMAIN index[o.n].commands
        /\ P!Holds(o.n, o.m, l)
    BY <2>1, <2>3, HolderIs, CommandIs
  <2>5. ASSUME NEW x \in DOMAIN index, NEW y \in DOMAIN index[x].commands, P!Holds(x, y, l)
        PROVE  x = o.n /\ y = o.m
    <3>1. PICK p \in Holders : p.n = x /\ p.m = y /\ p.c = index[x].commands[y]
      BY CommandIs
    <3>2. In(l, p.c)
      BY <2>1, <2>5, <3>1, CommandIs
    <3> QED BY <2>1, <2>2, <2>3, <3>1, <3>2 DEF Placed
  <2> QED BY <2>4, <2>5
<1> QED BY <1>1, LinesInvariant, PTL

LEMMA TextsAre ==
    ASSUME Inv, LinesInv, P!accepted, NEW l \in Nat
    PROVE  l \in P!texts <=> IsText(Holders, l)
<1>1. l \in P!texts <=> \E n \in DOMAIN index : \E m \in DOMAIN index[n].commands :
                           l \in P!Texts(index[n].commands[m])
  BY DEF P!texts
<1>2. ASSUME NEW n \in DOMAIN index, NEW m \in DOMAIN index[n].commands,
             l \in P!Texts(index[n].commands[m])
      PROVE  IsText(Holders, l)
  BY <1>2, CommandIs DEF IsText
<1>3. ASSUME IsText(Holders, l)
      PROVE  \E n \in DOMAIN index : \E m \in DOMAIN index[n].commands :
                 l \in P!Texts(index[n].commands[m])
  <2>1. PICK o \in Holders : o.c.at < l /\ l <= End(o.c)
    BY <1>3 DEF IsText
  <2> QED BY <2>1, HolderIs, CommandIs
<1> QED BY <1>1, <1>2, <1>3

\* In an accepted bundle a command is in the section of the header above it, and its
\* text is the lines that follow it down to a lone dot, whatever looks like a header
\* or a command inside the texts (PatchSet::parse_ed_bundle).
THEOREM OwnedByHeaderHolds == PipeSpec => []OwnedByHeader
<1>1. Inv /\ LinesInv => OwnedByHeader
  <2> SUFFICES ASSUME Inv, LinesInv, parsing = "parsed", NEW n \in DOMAIN index,
                      NEW m \in DOMAIN index[n].commands
               PROVE  LET c == index[n].commands[m]
                          headers == {l \in 1..c.at :
                                        bundle[l].t \in {"file", "newfile"} /\ l \notin P!texts}
                          last == CHOOSE l \in headers : \A h \in headers : h <= l
                      IN  /\ headers # {}
                          /\ Canonical[bundle[last].path] = index[n].key
                          /\ index[n].creates <=> bundle[last].t = "newfile"
                          /\ c.input = [x \in 1..Len(c.input) |-> c.at + x]
                          /\ bundle[c.at].t # "delete" =>
                                \E e \in DOMAIN bundle :
                                    e = c.at + Len(c.input) + 1 /\ bundle[e].t = "dot"
    BY DEF OwnedByHeader, P!OwnedByHeader
  <2> DEFINE c == index[n].commands[m]
             headers == {l \in 1..c.at :
                           bundle[l].t \in {"file", "newfile"} /\ l \notin P!texts}
             last == CHOOSE l \in headers : \A h \in headers : h <= l
  <2>1. P!accepted
    BY DEF P!accepted
  <2>2. /\ c \in P!Cmd /\ \A x \in DOMAIN c.input : c.input[x] = c.at + x
        /\ \E o \in Holders : /\ o.c = c /\ o.key = index[n].key
                              /\ o.creates = index[n].creates
    BY <2>1, CommandIs
  <2>3. \A l \in Nat : l \in P!texts <=> IsText(Holders, l)
    BY <2>1, TextsAre
  <2> HIDE DEF c
  <2>4. PICK o \in Holders : o.c = c /\ o.key = index[n].key /\ o.creates = index[n].creates
    BY <2>2
  <2>5. PICK h : HeadAt(bundle, Holders, index[n].key, index[n].creates, h, c.at)
    <3>1. Headed(bundle, Holders)
      BY DEF LinesInv
    <3> QED BY <2>4, <3>1 DEF Headed
  <2>6. c.at \in Nat /\ Len(c.input) \in Nat /\ DOMAIN c.input = 1..Len(c.input)
        /\ c.input \in Seq(Nat) /\ End(c) = c.at + Len(c.input)
    BY <2>2, EndIs
  <2>7. h \in headers /\ h \in Nat
    BY <2>3, <2>5, <2>6 DEF HeadAt, IsHeader
  <2>8. ASSUME NEW l \in headers PROVE l <= h
    <3>1. l \in 1..c.at /\ l \in Nat /\ IsHeader(bundle, l) /\ ~IsText(Holders, l)
      BY <2>3, <2>6 DEF IsHeader
    <3>2. l \notin (h + 1)..c.at
      BY <2>5, <3>1 DEF HeadAt
    <3> QED BY <2>6, <2>7, <3>1, <3>2
  <2>9. last = h
    <3>1. \A l \in headers : l \in Nat
      BY <2>6
    <3> HIDE DEF headers
    <3>2. last \in headers /\ \A l \in headers : l <= last
      BY <2>7, <2>8
    <3>3. h <= last /\ last <= h /\ last \in Nat
      BY <2>7, <2>8, <3>1, <3>2
    <3> HIDE DEF last
    <3> QED BY <2>7, <3>3
  <2>10. /\ Canonical[bundle[last].path] = index[n].key
         /\ index[n].creates <=> bundle[last].t = "newfile"
    BY <2>5, <2>9 DEF HeadAt
  <2>11. c.input = [x \in 1..Len(c.input) |-> c.at + x]
    <3>1. c.input = [x \in 1..Len(c.input) |-> c.input[x]]
      BY <2>6
    <3> QED BY <2>2, <2>6, <3>1
  <2>12. bundle[c.at].t # "delete" =>
            \E e \in DOMAIN bundle : e = c.at + Len(c.input) + 1 /\ bundle[e].t = "dot"
    <3>1. Closed(bundle, c)
      BY <2>4 DEF LinesInv
    <3> QED BY <2>6, <3>1 DEF Closed
  <2> HIDE DEF headers, last
  <2>13. headers # {}
    BY <2>7
  <2> QED BY <2>10, <2>11, <2>12, <2>13 DEF c, headers, last
<1> QED BY <1>1, LinesInvariant, PTL

-----------------------------------------------------------------------------
(* Counting the ops of a diff.                                             *)

\* How many of S come before p.
Count(S, p) == Cardinality({q \in S : q < p})

\* A count is 0 before 1, and grows at the members of the set only.
LEMMA CountIs ==
    ASSUME NEW S \in SUBSET (Nat \ {0}), IsFiniteSet(S)
    PROVE  /\ \A p \in Nat : Count(S, p) \in 0..Cardinality(S)
           /\ Cardinality(S) \in Nat
           /\ Count(S, 1) = 0
           /\ \A p \in Nat : Count(S, p + 1) = IF p \in S THEN Count(S, p) + 1 ELSE Count(S, p)
           /\ \A p \in Nat : (\A q \in S : q < p) => Count(S, p) = Cardinality(S)
<1>0. Cardinality(S) \in Nat
  BY FS_CardinalityType
<1>1. ASSUME NEW p \in Nat
      PROVE  IsFiniteSet({q \in S : q < p}) /\ Count(S, p) \in 0..Cardinality(S)
  <2>1. {q \in S : q < p} \subseteq S
    OBVIOUS
  <2>2. IsFiniteSet({q \in S : q < p}) /\ Count(S, p) <= Cardinality(S)
    BY <2>1, FS_Subset DEF Count
  <2>3. Count(S, p) \in Nat
    BY <2>2, FS_CardinalityType DEF Count
  <2> QED BY <1>0, <2>2, <2>3
<1>2. Count(S, 1) = 0
  <2>1. {q \in S : q < 1} = {}
    <3>1. \A q \in S : q \in Nat /\ ~(q < 1)
      OBVIOUS
    <3> QED BY <3>1
  <2> QED BY <2>1, FS_EmptySet DEF Count
<1>3. ASSUME NEW p \in Nat
      PROVE  Count(S, p + 1) = IF p \in S THEN Count(S, p) + 1 ELSE Count(S, p)
  <2> DEFINE B == {q \in S : q < p}
             C == {q \in S : q < p + 1}
  <2>1. C = IF p \in S THEN B \cup {p} ELSE B
    <3>1. \A q \in S : q < p + 1 <=> q < p \/ q = p
      OBVIOUS
    <3> QED BY <3>1
  <2>2. IsFiniteSet(B) /\ p \notin B
    BY <1>1
  <2>3. Cardinality(B \cup {p}) = Cardinality(B) + 1
    BY <2>2, FS_AddElement
  <2>4. Count(S, p) = Cardinality(B) /\ Count(S, p + 1) = Cardinality(C)
    BY DEF Count
  <2> HIDE DEF B, C
  <2> QED BY <2>1, <2>3, <2>4
<1>4. ASSUME NEW p \in Nat, \A q \in S : q < p PROVE Count(S, p) = Cardinality(S)
  <2>1. {q \in S : q < p} = S
    BY <1>4
  <2> QED BY <2>1 DEF Count
<1> QED BY <1>0, <1>1, <1>2, <1>3, <1>4

\* A count is monotonic, and tells two members apart.
LEMMA CountGrows ==
    ASSUME NEW S \in SUBSET (Nat \ {0}), IsFiniteSet(S)
    PROVE  /\ \A p, q \in Nat : p <= q => Count(S, p) <= Count(S, q)
           /\ \A p \in S : Count(S, p) + 1 <= Cardinality(S)
           /\ \A p, q \in S : Count(S, p) = Count(S, q) => p = q
<1>1. ASSUME NEW p \in Nat, NEW q \in Nat, p <= q PROVE Count(S, p) <= Count(S, q)
  <2>1. {x \in S : x < p} \subseteq {x \in S : x < q} /\ {x \in S : x < q} \subseteq S
    <3>1. \A x \in S : x \in Nat /\ (x < p => x < q)
      BY <1>1
    <3> QED BY <3>1
  <2>2. IsFiniteSet({x \in S : x < q})
    BY <2>1, FS_Subset
  <2> QED BY <2>1, <2>2, FS_Subset DEF Count
<1>2. ASSUME NEW p \in S PROVE Count(S, p + 1) = Count(S, p) + 1 /\ Count(S, p) \in Nat
                               /\ Count(S, p + 1) <= Cardinality(S)
  BY CountIs
<1>3. ASSUME NEW p \in S, NEW q \in S, p < q PROVE Count(S, p) < Count(S, q)
  <2>1. Count(S, p + 1) <= Count(S, q)
    BY <1>1, <1>3
  <2>2. Count(S, p) \in Nat /\ Count(S, q) \in Nat
    BY CountIs
  <2> QED BY <1>2, <2>1, <2>2
<1>4. ASSUME NEW p \in S, NEW q \in S, Count(S, p) = Count(S, q) PROVE p = q
  <2>1. Count(S, p) \in Nat /\ Count(S, q) \in Nat
    BY CountIs
  <2> QED BY <1>3, <1>4, <2>1
<1>5. ASSUME NEW p \in S PROVE Count(S, p) + 1 <= Cardinality(S)
  BY <1>2
<1> QED BY <1>1, <1>4, <1>5

\* The member of S that has so many before it.
LEMMA NthIs ==
    ASSUME NEW S \in SUBSET (Nat \ {0}), IsFiniteSet(S), NEW p \in S
    PROVE  Nth(S, Count(S, p) + 1) = p
<1>1. ASSUME NEW x \in S PROVE Cardinality({q \in S : q <= x}) = Count(S, x) + 1
  <2>1. {q \in S : q <= x} = {q \in S : q < x + 1}
    <3>1. \A q \in S : q <= x <=> q < x + 1
      OBVIOUS
    <3> QED BY <3>1
  <2>2. Count(S, x + 1) = Count(S, x) + 1
    BY CountIs
  <2> QED BY <2>1, <2>2 DEF Count
<1>2. ASSUME NEW x \in S, Cardinality({q \in S : q <= x}) = Count(S, p) + 1 PROVE x = p
  <2>1. Count(S, x) + 1 = Count(S, p) + 1
    BY <1>1, <1>2
  <2>2. Count(S, x) \in Nat /\ Count(S, p) \in Nat
    BY CountIs
  <2> QED BY <2>1, <2>2, CountGrows
<1>3. Cardinality({q \in S : q <= p}) = Count(S, p) + 1
  BY <1>1
<1> DEFINE n == Count(S, p) + 1
<1>4. Cardinality({q \in S : q <= p}) = n
      /\ \A x \in S : Cardinality({q \in S : q <= x}) = n => x = p
  BY <1>2, <1>3
<1> HIDE DEF n
<1>5. Nth(S, n) = p
  BY <1>4 DEF Nth
<1> QED BY <1>5 DEF n

-----------------------------------------------------------------------------
(* The two files of a diff.                                                *)

\* A delta of a diff that libgit2 delivers.
Fit(d) == d \in Delta /\ Possible(d) /\ \A p \in DOMAIN d.ops : LineAt(d, p) \in Line

\* The ops whose lines are in the old file, and those in the new one.
Olds(d) == OpsOf(d, {"keep", "del"})
News(d) == OpsOf(d, {"keep", "add"})

\* The ops of a diff.
LEMMA OpsAre ==
    ASSUME NEW d, Fit(d)
    PROVE  /\ d.ops \in Seq(Op) /\ Len(d.ops) \in Nat /\ DOMAIN d.ops = 1..Len(d.ops)
           /\ \A p \in 1..Len(d.ops) : d.ops[p] \in {"keep", "del", "add"}
<1>1. d.ops \in Seq(Op)
  BY DEF Fit, Delta
<1> QED BY <1>1, LenProperties, ElementOfSeq DEF Op

\* The sides of a diff are counted by their ops.
LEMMA SidesAre ==
    ASSUME NEW d, Fit(d)
    PROVE  /\ Olds(d) \in SUBSET (Nat \ {0}) /\ IsFiniteSet(Olds(d))
           /\ News(d) \in SUBSET (Nat \ {0}) /\ IsFiniteSet(News(d))
           /\ \A p \in 1..Len(d.ops) : /\ p \in Olds(d) <=> d.ops[p] # "add"
                                       /\ p \in News(d) <=> d.ops[p] # "del"
           /\ \A p \in 1..(Len(d.ops) + 1) : /\ OldBefore(d, p) = Count(Olds(d), p)
                                             /\ NewBefore(d, p) = Count(News(d), p)
           /\ OldLen(d) = Cardinality(Olds(d)) /\ NewLen(d) = Cardinality(News(d))
<1>1. Len(d.ops) \in Nat /\ DOMAIN d.ops = 1..Len(d.ops)
      /\ \A p \in 1..Len(d.ops) : d.ops[p] \in {"keep", "del", "add"}
  BY OpsAre
<1>2. IsFiniteSet(1..Len(d.ops)) /\ 1..Len(d.ops) \in SUBSET (Nat \ {0})
  <2>1. IsFiniteSet(1..Len(d.ops))
    BY <1>1, FS_Interval
  <2>2. \A p \in 1..Len(d.ops) : p \in Nat \ {0}
    BY <1>1
  <2> QED BY <2>1, <2>2
<1>3. Olds(d) \subseteq 1..Len(d.ops) /\ News(d) \subseteq 1..Len(d.ops)
  BY <1>1 DEF Olds, News, OpsOf
<1>4. IsFiniteSet(Olds(d)) /\ IsFiniteSet(News(d))
  BY <1>2, <1>3, FS_Subset
<1>5. \A p \in 1..Len(d.ops) : /\ p \in Olds(d) <=> d.ops[p] # "add"
                               /\ p \in News(d) <=> d.ops[p] # "del"
  BY <1>1 DEF Olds, News, OpsOf
<1>6. ASSUME NEW p \in 1..(Len(d.ops) + 1)
      PROVE  OldBefore(d, p) = Count(Olds(d), p) /\ NewBefore(d, p) = Count(News(d), p)
  <2>0. \A q : q \in 1..(p - 1) <=> q \in 1..Len(d.ops) /\ q < p
    BY <1>1
  <2>1. {q \in 1..(p - 1) : d.ops[q] # "add"} = {q \in Olds(d) : q < p}
    BY <2>0, <1>3, <1>5
  <2>2. {q \in 1..(p - 1) : d.ops[q] # "del"} = {q \in News(d) : q < p}
    BY <2>0, <1>3, <1>5
  <2> QED BY <2>1, <2>2 DEF OldBefore, NewBefore, Count
<1>7. \A q \in Olds(d) \cup News(d) : q < Len(d.ops) + 1
  BY <1>1, <1>3
<1>8. OldLen(d) = Cardinality(Olds(d)) /\ NewLen(d) = Cardinality(News(d))
  <2>1. Len(d.ops) + 1 \in 1..(Len(d.ops) + 1) /\ Len(d.ops) + 1 \in Nat
    BY <1>1
  <2>2. Olds(d) \in SUBSET (Nat \ {0}) /\ News(d) \in SUBSET (Nat \ {0})
    BY <1>2, <1>3
  <2>3. Count(Olds(d), Len(d.ops) + 1) = Cardinality(Olds(d))
    <3>1. \A q \in Olds(d) : q < Len(d.ops) + 1
      BY <1>7
    <3> QED BY <1>4, <2>1, <2>2, <3>1, CountIs, Zenon
  <2>4. Count(News(d), Len(d.ops) + 1) = Cardinality(News(d))
    <3>1. \A q \in News(d) : q < Len(d.ops) + 1
      BY <1>7
    <3> QED BY <1>4, <2>1, <2>2, <3>1, CountIs, Zenon
  <2> QED BY <1>6, <2>1, <2>3, <2>4 DEF OldLen, NewLen
<1> QED BY <1>2, <1>3, <1>4, <1>5, <1>6, <1>8

\* How the line numbers of the two files go on over the ops.
LEMMA BeforeIs ==
    ASSUME NEW d, Fit(d)
    PROVE  /\ OldLen(d) \in Nat /\ NewLen(d) \in Nat
           /\ OldBefore(d, 1) = 0 /\ NewBefore(d, 1) = 0
           /\ \A p \in 1..(Len(d.ops) + 1) : OldBefore(d, p) \in 0..OldLen(d)
                                             /\ NewBefore(d, p) \in 0..NewLen(d)
           /\ \A p \in 1..Len(d.ops) :
                 /\ OldBefore(d, p + 1) = OldBefore(d, p) + (IF d.ops[p] = "add" THEN 0 ELSE 1)
                 /\ NewBefore(d, p + 1) = NewBefore(d, p) + (IF d.ops[p] = "del" THEN 0 ELSE 1)
           /\ \A p, q \in 1..(Len(d.ops) + 1) : p <= q => OldBefore(d, p) <= OldBefore(d, q)
<1> DEFINE O == Olds(d)
           N == News(d)
<1>1. /\ O \in SUBSET (Nat \ {0}) /\ IsFiniteSet(O)
      /\ N \in SUBSET (Nat \ {0}) /\ IsFiniteSet(N)
      /\ \A p \in 1..Len(d.ops) : (p \in O <=> d.ops[p] # "add") /\ (p \in N <=> d.ops[p] # "del")
      /\ \A p \in 1..(Len(d.ops) + 1) :
            OldBefore(d, p) = Count(O, p) /\ NewBefore(d, p) = Count(N, p)
      /\ OldLen(d) = Cardinality(O) /\ NewLen(d) = Cardinality(N)
  BY SidesAre
<1>2. Len(d.ops) \in Nat
  BY OpsAre
<1> HIDE DEF O, N
<1>3. /\ \A p \in Nat : Count(O, p) \in 0..Cardinality(O)
      /\ Cardinality(O) \in Nat /\ Count(O, 1) = 0
      /\ \A p \in Nat : Count(O, p + 1) = IF p \in O THEN Count(O, p) + 1 ELSE Count(O, p)
  BY <1>1, CountIs
<1>4. /\ \A p \in Nat : Count(N, p) \in 0..Cardinality(N)
      /\ Cardinality(N) \in Nat /\ Count(N, 1) = 0
      /\ \A p \in Nat : Count(N, p + 1) = IF p \in N THEN Count(N, p) + 1 ELSE Count(N, p)
  BY <1>1, CountIs
<1>5. 1 \in 1..(Len(d.ops) + 1)
  BY <1>2
<1>6. OldBefore(d, 1) = 0 /\ NewBefore(d, 1) = 0
  BY <1>1, <1>3, <1>4, <1>5
<1>7. ASSUME NEW p \in 1..Len(d.ops)
      PROVE  /\ OldBefore(d, p + 1) = OldBefore(d, p) + (IF d.ops[p] = "add" THEN 0 ELSE 1)
             /\ NewBefore(d, p + 1) = NewBefore(d, p) + (IF d.ops[p] = "del" THEN 0 ELSE 1)
  <2>1. p \in Nat /\ p \in 1..(Len(d.ops) + 1) /\ p + 1 \in 1..(Len(d.ops) + 1)
    BY <1>2
  <2>2. Count(O, p) \in Nat /\ Count(N, p) \in Nat
    <3>1. Count(O, p) \in 0..Cardinality(O) /\ Count(N, p) \in 0..Cardinality(N)
      BY <1>3, <1>4, <2>1
    <3> QED BY <1>3, <1>4, <3>1
  <2>3. OldBefore(d, p + 1) = Count(O, p + 1) /\ OldBefore(d, p) = Count(O, p)
        /\ NewBefore(d, p + 1) = Count(N, p + 1) /\ NewBefore(d, p) = Count(N, p)
    BY <1>1, <2>1
  <2>4. Count(O, p + 1) = (IF p \in O THEN Count(O, p) + 1 ELSE Count(O, p))
        /\ Count(N, p + 1) = (IF p \in N THEN Count(N, p) + 1 ELSE Count(N, p))
    BY <1>3, <1>4, <2>1
  <2> QED BY <1>1, <2>2, <2>3, <2>4
<1>8. ASSUME NEW p \in 1..(Len(d.ops) + 1)
      PROVE  OldBefore(d, p) \in 0..OldLen(d) /\ NewBefore(d, p) \in 0..NewLen(d)
  <2>1. p \in Nat
    BY <1>2
  <2>2. Count(O, p) \in 0..Cardinality(O) /\ Count(N, p) \in 0..Cardinality(N)
    BY <1>3, <1>4, <2>1
  <2> QED BY <1>1, <2>2
<1>9. ASSUME NEW p \in 1..(Len(d.ops) + 1), NEW q \in 1..(Len(d.ops) + 1), p <= q
      PROVE  OldBefore(d, p) <= OldBefore(d, q)
  <2>1. p \in Nat /\ q \in Nat
    BY <1>2
  <2>2. Count(O, p) <= Count(O, q)
    BY <1>1, <1>9, <2>1, CountGrows
  <2> QED BY <1>1, <2>2
<1> QED BY <1>1, <1>3, <1>4, <1>6, <1>7, <1>8, <1>9

\* A line that one side has is there at the place that the ops before it give.
LEMMA SideIs ==
    ASSUME NEW d, Fit(d), NEW kinds, NEW p \in OpsOf(d, kinds),
           OpsOf(d, kinds) \in SUBSET (Nat \ {0}), IsFiniteSet(OpsOf(d, kinds))
    PROVE  Count(OpsOf(d, kinds), p) + 1 \in 1..Cardinality(OpsOf(d, kinds))
           /\ Side(d, kinds)[Count(OpsOf(d, kinds), p) + 1] = LineAt(d, p)
<1> DEFINE S == OpsOf(d, kinds)
           n == Count(S, p) + 1
<1>1. S \in SUBSET (Nat \ {0}) /\ IsFiniteSet(S) /\ p \in S
  OBVIOUS
<1>2. Side(d, kinds) = [m \in 1..Cardinality(S) |-> LineAt(d, Nth(S, m))]
  BY DEF Side
<1> HIDE DEF S
<1>3. n \in 1..Cardinality(S) /\ Nth(S, n) = p
  <2>1. p \in Nat /\ Cardinality(S) \in Nat
    BY <1>1, FS_CardinalityType
  <2>2. Count(S, p) \in Nat /\ Count(S, p) + 1 <= Cardinality(S)
    BY <1>1, <2>1, CountIs, CountGrows
  <2>3. Nth(S, Count(S, p) + 1) = p
    BY <1>1, NthIs
  <2> QED BY <2>1, <2>2, <2>3
<1> HIDE DEF n
<1>4. Side(d, kinds)[n] = LineAt(d, p)
  BY <1>2, <1>3
<1> QED BY <1>3, <1>4 DEF n, S

\* The line of an op is in the files that have it, at its count.
LEMMA FilesAre ==
    ASSUME NEW d, Fit(d)
    PROVE  /\ OldFile(d).lines \in Seq(Line) /\ Len(OldFile(d).lines) = OldLen(d)
           /\ NewFile(d).lines \in Seq(Line) /\ Len(NewFile(d).lines) = NewLen(d)
           /\ \A p \in 1..Len(d.ops) :
                 /\ d.ops[p] # "add" => OldBefore(d, p) < OldLen(d)
                                        /\ OldFile(d).lines[OldBefore(d, p) + 1] = LineAt(d, p)
                 /\ d.ops[p] # "del" => NewBefore(d, p) < NewLen(d)
                                        /\ NewFile(d).lines[NewBefore(d, p) + 1] = LineAt(d, p)
<1>1. /\ Olds(d) \in SUBSET (Nat \ {0}) /\ IsFiniteSet(Olds(d))
      /\ News(d) \in SUBSET (Nat \ {0}) /\ IsFiniteSet(News(d))
      /\ \A p \in 1..Len(d.ops) : /\ p \in Olds(d) <=> d.ops[p] # "add"
                                  /\ p \in News(d) <=> d.ops[p] # "del"
      /\ \A p \in 1..(Len(d.ops) + 1) : /\ OldBefore(d, p) = Count(Olds(d), p)
                                        /\ NewBefore(d, p) = Count(News(d), p)
      /\ OldLen(d) = Cardinality(Olds(d)) /\ NewLen(d) = Cardinality(News(d))
  BY SidesAre
<1>2. OldFile(d).lines = Side(d, {"keep", "del"}) /\ NewFile(d).lines = Side(d, {"keep", "add"})
  BY DEF OldFile, NewFile
<1>3. ASSUME NEW kinds, OpsOf(d, kinds) \in SUBSET (Nat \ {0}), IsFiniteSet(OpsOf(d, kinds))
      PROVE  Side(d, kinds) \in Seq(Line) /\ Len(Side(d, kinds)) = Cardinality(OpsOf(d, kinds))
  <2> DEFINE S == OpsOf(d, kinds)
             s == Side(d, kinds)
  <2>1. s = [m \in 1..Cardinality(S) |-> LineAt(d, Nth(S, m))] /\ Cardinality(S) \in Nat
    BY <1>3, FS_CardinalityType DEF Side
  <2>2. S \in SUBSET (Nat \ {0}) /\ IsFiniteSet(S) /\ \A p \in S : LineAt(d, p) \in Line
    BY <1>3 DEF Fit, OpsOf
  <2> HIDE DEF S
  <2>3. ASSUME NEW m \in 1..Cardinality(S) PROVE \E p \in S : Count(S, p) + 1 = m
    <3> DEFINE f == [p \in S |-> Count(S, p) + 1]
               N == Cardinality(S)
    <3>1. f \in [S -> 1..N]
      <4>1. ASSUME NEW p \in S PROVE Count(S, p) + 1 \in 1..N
        <5>1. p \in Nat
          BY <2>2
        <5>2. Count(S, p) \in 0..Cardinality(S) /\ Count(S, p) + 1 <= Cardinality(S)
          BY <2>2, <5>1, CountIs, CountGrows
        <5> QED BY <2>1, <5>2
      <4> QED BY <4>1
    <3>2. \A p, q \in S : f[p] = f[q] => p = q
      <4> TAKE p, q \in S
      <4>1. p \in Nat /\ q \in Nat
        BY <2>2
      <4>2. Count(S, p) \in Nat /\ Count(S, q) \in Nat
        BY <2>1, <2>2, <4>1, CountIs
      <4>3. Count(S, p) = Count(S, q) => p = q
        BY <2>2, CountGrows
      <4> QED BY <4>2, <4>3
    <3>3. f \in Injection(S, 1..N)
      BY <3>1, <3>2 DEF Injection, IsInjective
    <3>4. IsFiniteSet(1..N) /\ Cardinality(1..N) = N
      BY <2>1, FS_Interval
    <3>5. f \in Surjection(S, 1..N)
      BY <3>3, <3>4, FS_Injection
    <3> QED BY <3>5 DEF Surjection
  <2>4. ASSUME NEW m \in 1..Cardinality(S) PROVE LineAt(d, Nth(S, m)) \in Line
    <3>1. PICK p \in S : Count(S, p) + 1 = m
      BY <2>3
    <3>2. Nth(S, m) = p
      BY <2>2, <3>1, NthIs
    <3> QED BY <2>2, <3>2
  <2>5. s \in [1..Cardinality(S) -> Line]
    BY <2>1, <2>4
  <2> QED BY <2>1, <2>5, FunctionIsSeq DEF S
<1>4. /\ OldFile(d).lines \in Seq(Line) /\ Len(OldFile(d).lines) = OldLen(d)
      /\ NewFile(d).lines \in Seq(Line) /\ Len(NewFile(d).lines) = NewLen(d)
  BY <1>1, <1>2, <1>3 DEF Olds, News
<1>5. ASSUME NEW p \in 1..Len(d.ops), d.ops[p] # "add"
      PROVE  OldBefore(d, p) < OldLen(d) /\ OldFile(d).lines[OldBefore(d, p) + 1] = LineAt(d, p)
  <2>1. p \in Olds(d) /\ p \in 1..(Len(d.ops) + 1)
    BY <1>1, <1>5, OpsAre
  <2>2. Count(Olds(d), p) + 1 \in 1..Cardinality(Olds(d))
        /\ OldFile(d).lines[Count(Olds(d), p) + 1] = LineAt(d, p)
    BY <1>1, <1>2, <2>1, SideIs DEF Olds
  <2>3. OldBefore(d, p) \in 0..OldLen(d) /\ OldLen(d) \in Nat
    BY <2>1, BeforeIs
  <2> QED BY <1>1, <2>1, <2>2, <2>3
<1>6. ASSUME NEW p \in 1..Len(d.ops), d.ops[p] # "del"
      PROVE  NewBefore(d, p) < NewLen(d) /\ NewFile(d).lines[NewBefore(d, p) + 1] = LineAt(d, p)
  <2>1. p \in News(d) /\ p \in 1..(Len(d.ops) + 1)
    BY <1>1, <1>6, OpsAre
  <2>2. Count(News(d), p) + 1 \in 1..Cardinality(News(d))
        /\ NewFile(d).lines[Count(News(d), p) + 1] = LineAt(d, p)
    BY <1>1, <1>2, <2>1, SideIs DEF News
  <2>3. NewBefore(d, p) \in 0..NewLen(d) /\ NewLen(d) \in Nat
    BY <2>1, BeforeIs
  <2> QED BY <1>1, <2>1, <2>2, <2>3
<1> QED BY <1>4, <1>5, <1>6

-----------------------------------------------------------------------------
(* Groups of changed ops, and the commands for them.                       *)

\* The ops from `from` to `mid` are removed lines, those from `mid` to `to` added ones.
Group == [from : Nat, mid : Nat, to : Nat]

\* A stretch of removed lines and, after it, one of added lines.
GroupOK(d, g) ==
    /\ g \in Group
    /\ 1 <= g.from /\ g.from <= g.mid /\ g.mid <= g.to /\ g.to <= Len(d.ops) + 1
    /\ \A p \in 1..Len(d.ops) : /\ g.from <= p /\ p < g.mid => d.ops[p] = "del"
                                /\ g.mid <= p /\ p < g.to => d.ops[p] = "add"

\* The text that is written for an added line.
Written(d, p) ==
    IF d.status = "added" /\ p = Len(d.ops) /\ ~d.newNl THEN LineAt(d, p) ELSE Chomp(LineAt(d, p))

\* The text of the command for a group as the engine reads it, its kind and its addresses.
TextOf(d, g) == [x \in 1..(g.to - g.mid) |-> ReadPiece(Written(d, g.mid + x - 1))]

KindOf(g) == IF g.from = g.mid THEN "append" ELSE IF g.mid = g.to THEN "delete" ELSE "change"
StartOf(d, g) == IF g.from = g.mid THEN OldBefore(d, g.from) ELSE OldBefore(d, g.from) + 1
EndOf(d, g) == OldBefore(d, g.from) + (g.mid - g.from)

CommandOf(d, g) ==
    [kind |-> KindOf(g), start |-> StartOf(d, g), end |-> EndOf(d, g), input |-> TextOf(d, g)]

\* The groups of d from the last one up, so that all ops from the last of them on are
\* kept or in one.
Descends(r) == \A j, k \in 1..Len(r) : j < k => r[k].to <= r[j].from

\* Op p changes nothing, or is in a group.
Covered(d, r, p) == d.ops[p] = "keep" \/ \E j \in 1..Len(r) : r[j].from <= p /\ p < r[j].to

\* Groups from the last one to the first, in which every changed op is.
Plan(d, r) ==
    /\ r \in Seq(Group) /\ \A j \in 1..Len(r) : GroupOK(d, r[j])
    /\ Descends(r)
    /\ \A p \in 1..Len(d.ops) : Covered(d, r, p)

\* Where the first n commands of a plan have got to.
Reached(d, r, n) == IF n = 0 THEN Len(d.ops) + 1 ELSE r[n].from

\* What parse_ed_input_piece makes of a line is a piece.
LEMMA ReadPieceType == ASSUME NEW l \in Line PROVE ReadPiece(l) \in Piece
<1>1. CASE IsDirective(l)
  <2>1. ReadsAs[l.core] \in Ref
    BY <1>1, CoreAssumption DEF IsDirective
  <2> QED BY <1>1, <2>1 DEF ReadPiece, Reference, Piece
<1>2. CASE ~IsDirective(l)
  BY <1>2 DEF ReadPiece, Literal, Piece
<1> QED BY <1>1, <1>2

\* A line that ends in a CR is no reference, so that the CR is all that is lost of it.
LEMMA ReadWhole == ASSUME NEW l \in Line PROVE Same(ReadPiece(l), l)
<1>1. CASE Chomp(l) = l
  BY <1>1 DEF Same
<1>2. CASE Chomp(l) # l
  <2>1. l.trail # <<>> /\ l.trail[Len(l.trail)] = "cr"
    BY <1>2 DEF Chomp
  <2>2. Len(l.trail) \in DOMAIN l.trail
    <3>1. l.trail \in Seq(Blank)
      BY DEF Line
    <3> QED BY <2>1, <3>1
  <2>3. ~IsDirective(l)
    BY <2>1, <2>2 DEF IsDirective
  <2> QED BY <2>3 DEF Same, ReadPiece
<1> QED BY <1>1, <1>2

\* A line that is written is read as the line but for its carriage return, or as a
\* reference.
LEMMA WrittenIs ==
    ASSUME NEW d, Fit(d), NEW p \in 1..Len(d.ops)
    PROVE  /\ ReadPiece(Written(d, p)) \in Piece
           /\ Same(ReadPiece(Written(d, p)), LineAt(d, p))
<1>1. LineAt(d, p) \in Line /\ Chomp(LineAt(d, p)) \in Line
  BY OpsAre, ChompType DEF Fit
<1>2. Written(d, p) = LineAt(d, p) \/ Written(d, p) = Chomp(LineAt(d, p))
  BY DEF Written
<1>3. Same(ReadPiece(Chomp(LineAt(d, p))), LineAt(d, p))
  BY DEF Same
<1> QED BY <1>1, <1>2, <1>3, ReadPieceType, ReadWhole

\* The ops from a to b are of one kind, and the line numbers go on accordingly.
OfKind(d, kind, a, b) == \A p \in 1..Len(d.ops) : a <= p /\ p < b => d.ops[p] = kind

\* How the counts of the two sides go on from op a to op b.
GoesOn(d, kind, a, b) ==
    \A x \in 0..(b - a) :
       /\ OldBefore(d, a + x) = OldBefore(d, a) + (IF kind = "add" THEN 0 ELSE x)
       /\ NewBefore(d, a + x) = NewBefore(d, a) + (IF kind = "del" THEN 0 ELSE x)

\* Along ops of one kind the counts go on as OldBefore and NewBefore say.
LEMMA Stretch ==
    ASSUME NEW d, Fit(d), NEW kind \in {"keep", "del", "add"}, NEW a \in 1..(Len(d.ops) + 1),
           NEW b \in 1..(Len(d.ops) + 1), a <= b, OfKind(d, kind, a, b)
    PROVE  GoesOn(d, kind, a, b)
<1> DEFINE A(x) == /\ OldBefore(d, a + x) = OldBefore(d, a) + (IF kind = "add" THEN 0 ELSE x)
                   /\ NewBefore(d, a + x) = NewBefore(d, a) + (IF kind = "del" THEN 0 ELSE x)
           T == {x \in 0..(b - a) : A(x)}
<1>1. Len(d.ops) \in Nat /\ b - a \in Nat /\ a \in Nat /\ b \in Nat
  BY OpsAre
<1>2. /\ OldBefore(d, a) \in Nat /\ NewBefore(d, a) \in Nat
      /\ \A p \in 1..Len(d.ops) :
            /\ OldBefore(d, p + 1) = OldBefore(d, p) + (IF d.ops[p] = "add" THEN 0 ELSE 1)
            /\ NewBefore(d, p + 1) = NewBefore(d, p) + (IF d.ops[p] = "del" THEN 0 ELSE 1)
  <2>1. OldBefore(d, a) \in 0..OldLen(d) /\ NewBefore(d, a) \in 0..NewLen(d)
        /\ OldLen(d) \in Nat /\ NewLen(d) \in Nat
    BY BeforeIs
  <2> QED BY <2>1, BeforeIs
<1>3. 0 \in T
  <2>1. a + 0 = a /\ 0 \in 0..(b - a)
    BY <1>1
  <2> QED BY <1>2, <2>1
<1>4. \A x \in 0..(b - a - 1) : x \in T => x + 1 \in T
  <2> TAKE x \in 0..(b - a - 1)
  <2> HAVE x \in T
  <2>1. x \in Nat /\ a + x \in 1..Len(d.ops) /\ a <= a + x /\ a + x < b /\ x + 1 \in 0..(b - a)
        /\ a + (x + 1) = (a + x) + 1
    <3>1. x \in Nat /\ x < b - a /\ b <= Len(d.ops) + 1 /\ 1 <= a
      BY <1>1
    <3> QED BY <1>1, <3>1
  <2>2. d.ops[a + x] = kind
    BY <2>1 DEF OfKind
  <2>3. A(x)
    OBVIOUS
  <2>4. OldBefore(d, (a + x) + 1) = OldBefore(d, a + x) + (IF kind = "add" THEN 0 ELSE 1)
        /\ NewBefore(d, (a + x) + 1) = NewBefore(d, a + x) + (IF kind = "del" THEN 0 ELSE 1)
    BY <1>2, <2>1, <2>2
  <2>5. A(x + 1)
    BY <1>2, <2>1, <2>3, <2>4
  <2> QED BY <2>1, <2>5
<1> HIDE DEF T
<1>5. \A x \in 0..(b - a) : x \in T
  BY <1>1, <1>3, <1>4, UpTo
<1> QED BY <1>5 DEF T, GoesOn

\* The ops of a group, and the counts at both of its ends.
LEMMA GroupIs ==
    ASSUME NEW d, Fit(d), NEW g, GroupOK(d, g)
    PROVE  /\ g.from \in 1..(Len(d.ops) + 1) /\ g.mid \in 1..(Len(d.ops) + 1)
           /\ g.to \in 1..(Len(d.ops) + 1)
           /\ g.from \in Nat /\ g.mid \in Nat /\ g.to \in Nat
           /\ g.from <= g.mid /\ g.mid <= g.to
           /\ OldBefore(d, g.to) = EndOf(d, g)
           /\ NewBefore(d, g.to) = NewBefore(d, g.from) + (g.to - g.mid)
           /\ \A x \in 1..(g.to - g.mid) :
                 /\ g.mid + x - 1 \in 1..Len(d.ops) /\ d.ops[g.mid + x - 1] = "add"
                 /\ NewBefore(d, g.mid + x - 1) = NewBefore(d, g.from) + (x - 1)
<1>1. /\ g.from \in Nat /\ g.mid \in Nat /\ g.to \in Nat /\ Len(d.ops) \in Nat
      /\ 1 <= g.from /\ g.from <= g.mid /\ g.mid <= g.to /\ g.to <= Len(d.ops) + 1
  BY OpsAre DEF GroupOK, Group
<1>2. g.from \in 1..(Len(d.ops) + 1) /\ g.mid \in 1..(Len(d.ops) + 1)
      /\ g.to \in 1..(Len(d.ops) + 1)
  BY <1>1
<1>3. \A p \in 1..Len(d.ops) : g.from <= p /\ p < g.mid => d.ops[p] = "del"
  BY DEF GroupOK
<1>4. \A p \in 1..Len(d.ops) : g.mid <= p /\ p < g.to => d.ops[p] = "add"
  BY DEF GroupOK
<1>5. \A x \in 0..(g.mid - g.from) :
         /\ OldBefore(d, g.from + x) = OldBefore(d, g.from) + x
         /\ NewBefore(d, g.from + x) = NewBefore(d, g.from) + 0
  <2>1. OfKind(d, "del", g.from, g.mid)
    BY <1>3 DEF OfKind
  <2>2. GoesOn(d, "del", g.from, g.mid)
    BY <1>1, <1>2, <2>1, Stretch
  <2> QED BY <2>2 DEF GoesOn
<1>6. \A x \in 0..(g.to - g.mid) :
         /\ OldBefore(d, g.mid + x) = OldBefore(d, g.mid) + 0
         /\ NewBefore(d, g.mid + x) = NewBefore(d, g.mid) + x
  <2>1. OfKind(d, "add", g.mid, g.to)
    BY <1>4 DEF OfKind
  <2>2. GoesOn(d, "add", g.mid, g.to)
    BY <1>1, <1>2, <2>1, Stretch
  <2> QED BY <2>2 DEF GoesOn
<1>7. /\ OldBefore(d, g.from) \in Nat /\ NewBefore(d, g.from) \in Nat
      /\ OldBefore(d, g.mid) \in Nat /\ NewBefore(d, g.mid) \in Nat
  <2>1. /\ OldBefore(d, g.from) \in 0..OldLen(d) /\ NewBefore(d, g.from) \in 0..NewLen(d)
        /\ OldBefore(d, g.mid) \in 0..OldLen(d) /\ NewBefore(d, g.mid) \in 0..NewLen(d)
        /\ OldLen(d) \in Nat /\ NewLen(d) \in Nat
    BY <1>2, BeforeIs
  <2> QED BY <2>1
<1>8. OldBefore(d, g.mid) = OldBefore(d, g.from) + (g.mid - g.from)
      /\ NewBefore(d, g.mid) = NewBefore(d, g.from)
  <2>1. g.mid - g.from \in 0..(g.mid - g.from) /\ g.from + (g.mid - g.from) = g.mid
    BY <1>1
  <2> QED BY <1>5, <1>7, <2>1
<1>9. OldBefore(d, g.to) = OldBefore(d, g.mid)
      /\ NewBefore(d, g.to) = NewBefore(d, g.mid) + (g.to - g.mid)
  <2>1. g.to - g.mid \in 0..(g.to - g.mid) /\ g.mid + (g.to - g.mid) = g.to
    BY <1>1
  <2> QED BY <1>6, <1>7, <2>1
<1>10. ASSUME NEW x \in 1..(g.to - g.mid)
       PROVE  /\ g.mid + x - 1 \in 1..Len(d.ops) /\ d.ops[g.mid + x - 1] = "add"
              /\ NewBefore(d, g.mid + x - 1) = NewBefore(d, g.from) + (x - 1)
  <2>1. x - 1 \in 0..(g.to - g.mid) /\ g.mid + (x - 1) = g.mid + x - 1
        /\ g.mid + x - 1 \in 1..Len(d.ops) /\ g.mid <= g.mid + x - 1 /\ g.mid + x - 1 < g.to
    BY <1>1
  <2>2. NewBefore(d, g.mid + (x - 1)) = NewBefore(d, g.mid) + (x - 1)
    BY <1>6, <2>1
  <2> QED BY <1>4, <1>8, <2>1, <2>2
<1> QED BY <1>1, <1>2, <1>8, <1>9, <1>10 DEF EndOf

\* The command for a group has the lines of the old file that it removes as its range.
LEMMA CommandFits ==
    ASSUME NEW d, Fit(d), NEW g, GroupOK(d, g)
    PROVE  LET c == CommandOf(d, g)
           IN  /\ From(c) = OldBefore(d, g.from) + 1
               /\ To(c) = OldBefore(d, g.to) /\ AddressedTop(c) = OldBefore(d, g.to)
               /\ AffectedLow(c) = OldBefore(d, g.from) + 1
               /\ InRange(c, OldLen(d))
               /\ c.input = TextOf(d, g)
<1> DEFINE c == CommandOf(d, g)
           a == OldBefore(d, g.from)
<1>1. c.kind = KindOf(g) /\ c.start = StartOf(d, g) /\ c.end = EndOf(d, g)
      /\ c.input = TextOf(d, g)
  BY DEF CommandOf
<1>2. /\ g.from \in 1..(Len(d.ops) + 1) /\ g.to \in 1..(Len(d.ops) + 1)
      /\ g.from \in Nat /\ g.mid \in Nat /\ g.to \in Nat
      /\ g.from <= g.mid /\ g.mid <= g.to
      /\ OldBefore(d, g.to) = a + (g.mid - g.from)
  BY GroupIs DEF EndOf
<1>3. a \in Nat /\ OldBefore(d, g.to) <= OldLen(d) /\ OldLen(d) \in Nat
      /\ OldBefore(d, g.to) \in Nat
  <2>1. a \in 0..OldLen(d) /\ OldBefore(d, g.to) \in 0..OldLen(d) /\ OldLen(d) \in Nat
    BY <1>2, BeforeIs
  <2> QED BY <2>1
<1> HIDE DEF c, a
<1>4. CASE g.from = g.mid
  <2>1. c.kind = "append" /\ c.start = a /\ OldBefore(d, g.to) = a
    BY <1>1, <1>2, <1>3, <1>4 DEF KindOf, StartOf, a
  <2> QED BY <1>1, <1>3, <2>1 DEF From, To, AddressedTop, AffectedLow, InRange, c, a
<1>5. CASE g.from # g.mid
  <2>1. c.kind \in {"delete", "change"} /\ c.start = a + 1 /\ c.end = OldBefore(d, g.to)
    BY <1>1, <1>2, <1>5 DEF KindOf, StartOf, EndOf, a
  <2>2. c.start <= c.end
    BY <1>2, <1>3, <1>5, <2>1
  <2> QED BY <1>1, <1>3, <2>1, <2>2 DEF From, To, AddressedTop, AffectedLow, InRange, c, a
<1> QED BY <1>4, <1>5

\* The text of a command has the group's lines of the new file.
LEMMA TextIs ==
    ASSUME NEW d, Fit(d), NEW g, GroupOK(d, g)
    PROVE  /\ TextOf(d, g) \in Seq(Piece) /\ Len(TextOf(d, g)) = g.to - g.mid
           /\ g.to - g.mid \in Nat
           /\ \A x \in 1..(g.to - g.mid) :
                 Same(TextOf(d, g)[x], NewFile(d).lines[NewBefore(d, g.from) + x])
<1>1. /\ g.from \in 1..(Len(d.ops) + 1) /\ g.mid \in Nat /\ g.to \in Nat /\ g.mid <= g.to
      /\ \A x \in 1..(g.to - g.mid) :
            /\ g.mid + x - 1 \in 1..Len(d.ops) /\ d.ops[g.mid + x - 1] = "add"
            /\ NewBefore(d, g.mid + x - 1) = NewBefore(d, g.from) + (x - 1)
  BY GroupIs
<1>2. g.to - g.mid \in Nat
  BY <1>1
<1>3. TextOf(d, g) \in [1..(g.to - g.mid) -> Piece]
  BY <1>1, WrittenIs DEF TextOf
<1>4. NewBefore(d, g.from) \in Nat
  <2>1. NewBefore(d, g.from) \in 0..NewLen(d) /\ NewLen(d) \in Nat
    BY <1>1, BeforeIs
  <2> QED BY <2>1
<1>5. ASSUME NEW x \in 1..(g.to - g.mid)
      PROVE  Same(TextOf(d, g)[x], NewFile(d).lines[NewBefore(d, g.from) + x])
  <2> DEFINE p == g.mid + x - 1
  <2>1. p \in 1..Len(d.ops) /\ d.ops[p] = "add"
        /\ NewBefore(d, p) = NewBefore(d, g.from) + (x - 1)
    BY <1>1
  <2>2. TextOf(d, g)[x] = ReadPiece(Written(d, p))
    BY DEF TextOf
  <2> HIDE DEF p
  <2>3. NewFile(d).lines[NewBefore(d, p) + 1] = LineAt(d, p)
    BY <2>1, FilesAre
  <2>4. NewBefore(d, p) + 1 = NewBefore(d, g.from) + x
    BY <1>2, <1>4, <2>1
  <2> QED BY <2>1, <2>2, <2>3, <2>4, WrittenIs
<1> QED BY <1>2, <1>3, <1>5, FunctionIsSeq

-----------------------------------------------------------------------------
(* What a script makes of the old file.                                    *)

\* The lines of the old file up to op q, and then those of the new one.
Near(d, made, q) ==
    /\ made \in Seq(Piece)
    /\ Len(made) = OldBefore(d, q) + (NewLen(d) - NewBefore(d, q))
    /\ \A l \in 1..OldBefore(d, q) : made[l] = Literal(OldFile(d).lines[l])
    /\ \A l \in 1..(NewLen(d) - NewBefore(d, q)) :
          Same(made[OldBefore(d, q) + l], NewFile(d).lines[NewBefore(d, q) + l])

\* The engine's buffer begins as the lines of the file, none of them a reference.
LEMMA LiteralsAre ==
    ASSUME NEW ls \in Seq(Line)
    PROVE  /\ Literals(ls) \in Seq(Piece) /\ Len(Literals(ls)) = Len(ls)
           /\ \A l \in 1..Len(ls) : Literals(ls)[l] = Literal(ls[l])
<1>1. Len(ls) \in Nat /\ DOMAIN ls = 1..Len(ls) /\ \A l \in 1..Len(ls) : ls[l] \in Line
  OBVIOUS
<1>2. \A l \in 1..Len(ls) : Literal(ls[l]) \in Piece
  BY <1>1 DEF Literal, Piece
<1>3. Literals(ls) \in [1..Len(ls) -> Piece]
      /\ \A l \in 1..Len(ls) : Literals(ls)[l] = Literal(ls[l])
  BY <1>1, <1>2 DEF Literals
<1> QED BY <1>1, <1>3, FunctionIsSeq

\* The counts of the two sides are bounded by the files.
LEMMA BeforeAre ==
    ASSUME NEW d, Fit(d), NEW q \in 1..(Len(d.ops) + 1)
    PROVE  /\ OldBefore(d, q) \in Nat /\ NewBefore(d, q) \in Nat
           /\ OldLen(d) \in Nat /\ NewLen(d) \in Nat
           /\ OldBefore(d, q) <= OldLen(d) /\ NewBefore(d, q) <= NewLen(d)
<1>1. OldBefore(d, q) \in 0..OldLen(d) /\ NewBefore(d, q) \in 0..NewLen(d)
      /\ OldLen(d) \in Nat /\ NewLen(d) \in Nat
  BY BeforeIs
<1> QED BY <1>1

\* Over kept ops the two files are the same.
LEMMA KeptNear ==
    ASSUME NEW d, Fit(d), NEW made, NEW a \in 1..(Len(d.ops) + 1),
           NEW b \in 1..(Len(d.ops) + 1), a <= b,
           \A p \in 1..Len(d.ops) : a <= p /\ p < b => d.ops[p] = "keep",
           Near(d, made, b)
    PROVE  Near(d, made, a)
<1> DEFINE Old == OldFile(d).lines
           Wanted == NewFile(d).lines
           oa == OldBefore(d, a)
           na == NewBefore(d, a)
           ob == OldBefore(d, b)
           nb == NewBefore(d, b)
           N == NewLen(d)
<1>1. oa \in Nat /\ na \in Nat /\ ob \in Nat /\ nb \in Nat /\ N \in Nat /\ nb <= N
      /\ a \in Nat /\ b \in Nat /\ Len(d.ops) \in Nat
  BY BeforeAre, OpsAre
<1>2. \A x \in 0..(b - a) : OldBefore(d, a + x) = oa + x /\ NewBefore(d, a + x) = na + x
  <2>1. OfKind(d, "keep", a, b)
    BY DEF OfKind
  <2>2. GoesOn(d, "keep", a, b)
    BY <2>1, Stretch
  <2> QED BY <2>2 DEF GoesOn
<1>3. ob = oa + (b - a) /\ nb = na + (b - a)
  <2>1. b - a \in 0..(b - a) /\ a + (b - a) = b
    BY <1>1
  <2> QED BY <1>2, <2>1
<1>4. /\ made \in Seq(Piece) /\ Len(made) = ob + (N - nb)
      /\ \A l \in 1..ob : made[l] = Literal(Old[l])
      /\ \A l \in 1..(N - nb) : Same(made[ob + l], Wanted[nb + l])
  BY DEF Near
<1>5. ASSUME NEW x \in 1..(b - a) PROVE Old[oa + x] = Wanted[na + x]
  <2> DEFINE p == a + (x - 1)
  <2>1. x - 1 \in 0..(b - a) /\ p \in 1..Len(d.ops) /\ a <= p /\ p < b
    BY <1>1
  <2>2. OldBefore(d, p) = oa + (x - 1) /\ NewBefore(d, p) = na + (x - 1) /\ d.ops[p] = "keep"
    BY <1>2, <2>1
  <2> HIDE DEF p
  <2>3. Old[OldBefore(d, p) + 1] = LineAt(d, p) /\ Wanted[NewBefore(d, p) + 1] = LineAt(d, p)
    BY <2>1, <2>2, FilesAre
  <2>4. OldBefore(d, p) + 1 = oa + x /\ NewBefore(d, p) + 1 = na + x
    BY <1>1, <2>2
  <2> QED BY <2>3, <2>4
<1> HIDE DEF Old, Wanted, oa, na, ob, nb, N
<1>6. ASSUME NEW l \in 1..(N - na) PROVE Same(made[oa + l], Wanted[na + l])
  <2>1. CASE l <= b - a
    <3>1. l \in 1..(b - a) /\ oa + l \in 1..ob
      BY <1>1, <1>3, <2>1
    <3> QED BY <1>4, <1>5, <3>1 DEF Same
  <2>2. CASE ~(l <= b - a)
    <3>1. l - (b - a) \in 1..(N - nb) /\ ob + (l - (b - a)) = oa + l /\ nb + (l - (b - a)) = na + l
      BY <1>1, <1>3, <2>2
    <3> QED BY <1>4, <3>1
  <2> QED BY <2>1, <2>2
<1>7. Len(made) = oa + (N - na) /\ \A l \in 1..oa : made[l] = Literal(Old[l])
  <2>1. \A l \in 1..oa : l \in 1..ob
    BY <1>1, <1>3
  <2>2. ob + (N - nb) = oa + (N - na)
    BY <1>1, <1>3
  <2> QED BY <1>4, <2>1, <2>2
<1> QED BY <1>4, <1>6, <1>7 DEF Near, Old, Wanted, oa, na, N

\* A command puts the added lines of its group in place of the removed ones.
LEMMA GroupNear ==
    ASSUME NEW d, Fit(d), NEW g, GroupOK(d, g), NEW made, Near(d, made, g.to)
    PROVE  LET c == CommandOf(d, g)
           IN  Near(d, Splice(made, c, c.input), g.from)
<1> DEFINE Old == OldFile(d).lines
           Wanted == NewFile(d).lines
           c == CommandOf(d, g)
           of == OldBefore(d, g.from)
           nf == NewBefore(d, g.from)
           ot == OldBefore(d, g.to)
           nt == NewBefore(d, g.to)
           N == NewLen(d)
           m == g.to - g.mid
           text == TextOf(d, g)
           low == SubSeq(made, 1, of)
           high == SubSeq(made, ot + 1, Len(made))
           new == low \o text \o high
<1>1. /\ of \in Nat /\ nf \in Nat /\ ot \in Nat /\ nt \in Nat /\ N \in Nat /\ nt <= N
      /\ m \in Nat /\ of <= ot /\ nt = nf + m
  <2>1. /\ g.from \in 1..(Len(d.ops) + 1) /\ g.to \in 1..(Len(d.ops) + 1)
        /\ g.from \in Nat /\ g.mid \in Nat /\ g.to \in Nat /\ g.from <= g.mid /\ g.mid <= g.to
        /\ ot = of + (g.mid - g.from) /\ nt = nf + m
    BY GroupIs DEF EndOf
  <2>2. of \in Nat /\ nf \in Nat /\ ot \in Nat /\ nt \in Nat /\ N \in Nat /\ nt <= N
    BY <2>1, BeforeAre
  <2>3. m \in Nat /\ of <= ot
    <3>1. g.to - g.mid \in Nat /\ g.mid - g.from \in Nat
      BY <2>1
    <3>2. m \in Nat
      BY <3>1
    <3> DEFINE u == g.mid - g.from
    <3>3. u \in Nat /\ ot = of + u
      BY <2>1, <3>1
    <3> HIDE DEF of, ot, u, m
    <3>4. of <= ot
      BY <2>2, <3>3, SMTT(30)
    <3> QED BY <3>2, <3>4
  <2> QED BY <2>1, <2>2, <2>3, Zenon
<1>2. Splice(made, c, c.input) = new
  <2>1. From(c) = of + 1 /\ To(c) = ot /\ c.input = text
    BY CommandFits
  <2>2. From(c) - 1 = of
    BY <1>1, <2>1
  <2> QED BY <2>1, <2>2 DEF Splice
<1>3. /\ made \in Seq(Piece) /\ Len(made) = ot + (N - nt)
      /\ \A l \in 1..ot : made[l] = Literal(Old[l])
      /\ \A l \in 1..(N - nt) : Same(made[ot + l], Wanted[nt + l])
  BY DEF Near
<1>4. text \in Seq(Piece) /\ Len(text) = m /\ \A x \in 1..m : Same(text[x], Wanted[nf + x])
  BY TextIs
<1> HIDE DEF Old, Wanted, c, of, nf, ot, nt, N, m, text
<1>5. low \in Seq(Piece) /\ Len(low) = of /\ \A l \in 1..of : low[l] = made[l]
  <2>1. of \in Int /\ 1 \in Int /\ 1 >= 1 /\ of <= Len(made)
    BY <1>1, <1>3
  <2>2. low \in Seq(Piece) /\ Len(low) = (IF 1 <= of THEN of - 1 + 1 ELSE 0)
        /\ \A l \in 1..(of - 1 + 1) : low[l] = made[1 + l - 1]
    BY <1>3, <2>1, PartOfSeq
  <2> HIDE DEF low
  <2> QED BY <1>1, <2>2
<1>6. high \in Seq(Piece) /\ Len(high) = N - nt /\ \A l \in 1..(N - nt) : high[l] = made[ot + l]
  <2>1. ot + 1 \in Int /\ ot + 1 >= 1 /\ Len(made) \in Int /\ Len(made) <= Len(made)
    BY <1>1, <1>3
  <2>2. high \in Seq(Piece)
        /\ Len(high) = (IF ot + 1 <= Len(made) THEN Len(made) - (ot + 1) + 1 ELSE 0)
        /\ \A l \in 1..(Len(made) - (ot + 1) + 1) : high[l] = made[ot + 1 + l - 1]
    BY <1>3, <2>1, PartOfSeq
  <2> HIDE DEF high
  <2>3. \A l \in 1..(N - nt) : l \in 1..(Len(made) - (ot + 1) + 1) /\ ot + 1 + l - 1 = ot + l
    BY <1>1, <1>3
  <2> QED BY <1>1, <1>3, <2>2, <2>3
<1> HIDE DEF low, high
<1>7. /\ new \in Seq(Piece) /\ Len(new) = of + m + (N - nt)
      /\ \A l \in 1..of : new[l] = low[l]
      /\ \A x \in 1..m : new[of + x] = text[x]
      /\ \A x \in 1..(N - nt) : new[of + m + x] = high[x]
  <2> DEFINE lt == low \o text
  <2>1. lt \in Seq(Piece) /\ Len(lt) = of + m
        /\ \A l \in 1..(of + m) : /\ l <= of => lt[l] = low[l]
                                  /\ ~(l <= of) => lt[l] = text[l - of]
    BY <1>4, <1>5, ConcatProperties
  <2>2. N - nt \in Nat
    BY <1>1
  <2>3. new \in Seq(Piece) /\ Len(new) = Len(lt) + Len(high)
        /\ \A l \in 1..(Len(lt) + Len(high)) : /\ l <= Len(lt) => new[l] = lt[l]
                                               /\ ~(l <= Len(lt)) => new[l] = high[l - Len(lt)]
    <3> HIDE DEF lt
    <3>1. new = lt \o high
      BY DEF lt
    <3> HIDE DEF new
    <3> QED BY <1>6, <2>1, <3>1, ConcatProperties
  <2> HIDE DEF new, lt
  <2>4. ASSUME NEW l \in 1..of PROVE new[l] = low[l]
    <3>1. l \in 1..(Len(lt) + Len(high)) /\ l <= Len(lt) /\ l \in 1..(of + m) /\ l <= of
      BY <1>1, <1>6, <2>1, <2>2
    <3> QED BY <2>1, <2>3, <3>1
  <2>5. ASSUME NEW x \in 1..m PROVE new[of + x] = text[x]
    <3>1. /\ of + x \in 1..(Len(lt) + Len(high)) /\ of + x <= Len(lt) /\ of + x \in 1..(of + m)
          /\ ~(of + x <= of) /\ (of + x) - of = x
      BY <1>1, <1>6, <2>1, <2>2
    <3> DEFINE y == of + x
    <3>2. y \in 1..(Len(lt) + Len(high)) /\ y <= Len(lt) /\ y \in 1..(of + m)
          /\ ~(y <= of) /\ y - of = x
      BY <3>1
    <3> HIDE DEF y
    <3>3. new[y] = lt[y] /\ lt[y] = text[y - of]
      BY <2>1, <2>3, <3>2
    <3> QED BY <3>2, <3>3 DEF y
  <2>6. ASSUME NEW x \in 1..(N - nt) PROVE new[of + m + x] = high[x]
    <3>1. /\ of + m + x \in 1..(Len(lt) + Len(high)) /\ ~(of + m + x <= Len(lt))
          /\ (of + m + x) - Len(lt) = x
      BY <1>1, <1>6, <2>1, <2>2
    <3> DEFINE y == of + m + x
    <3>2. y \in 1..(Len(lt) + Len(high)) /\ ~(y <= Len(lt)) /\ y - Len(lt) = x
      BY <3>1
    <3> HIDE DEF y
    <3>3. new[y] = high[y - Len(lt)]
      BY <2>3, <3>2
    <3> QED BY <3>2, <3>3 DEF y
  <2> QED BY <1>6, <2>1, <2>3, <2>4, <2>5, <2>6
<1> HIDE DEF new
<1>8. Len(new) = of + (N - nf)
  BY <1>1, <1>7
<1>9. ASSUME NEW l \in 1..of PROVE new[l] = Literal(Old[l])
  <2>1. l \in 1..ot
    BY <1>1
  <2> QED BY <1>3, <1>5, <1>7, <2>1
<1>10. ASSUME NEW l \in 1..(N - nf) PROVE Same(new[of + l], Wanted[nf + l])
  <2>1. CASE l <= m
    <3>1. l \in 1..m
      BY <1>1, <2>1
    <3> QED BY <1>4, <1>7, <3>1
  <2>2. CASE ~(l <= m)
    <3>1. l - m \in 1..(N - nt) /\ of + m + (l - m) = of + l /\ nt + (l - m) = nf + l
      BY <1>1, <2>2
    <3> QED BY <1>3, <1>6, <1>7, <3>1
  <2> QED BY <2>1, <2>2
<1>11. Near(d, new, g.from)
  BY <1>7, <1>8, <1>9, <1>10 DEF Near, Old, Wanted, of, nf, N
<1> QED BY <1>2, <1>11 DEF c

-----------------------------------------------------------------------------
(* What a plan makes of the old file.                                      *)

\* The recursion of Patched defines a function.
Making(f, n, script, lines) ==
    [k \in 0..n |-> IF k = 0 THEN lines ELSE Splice(f[k - 1], script[k], script[k].input)]

\* There is a function that applies one command after the other.
LEMMA MakingExists ==
    ASSUME NEW n \in Nat, NEW script, NEW lines
    PROVE  \E f : f = Making(f, n, script, lines)
<1> DEFINE By(ls, k) == Splice(ls, script[k], script[k].input)
           T == {m \in 0..n : \E f : f = [k \in 0..m |-> IF k = 0 THEN lines ELSE By(f[k - 1], k)]}
<1> HIDE DEF By
<1>1. 0 \in T
  <2> DEFINE f == [k \in 0..0 |-> lines]
  <2>1. f = [k \in 0..0 |-> IF k = 0 THEN lines ELSE By(f[k - 1], k)]
    OBVIOUS
  <2>2. 0 \in 0..n
    OBVIOUS
  <2> HIDE DEF f
  <2> QED BY <2>1, <2>2
<1>2. ASSUME NEW m \in 0..(n - 1), m \in T PROVE m + 1 \in T
  <2>1. PICK f : f = [k \in 0..m |-> IF k = 0 THEN lines ELSE By(f[k - 1], k)]
    BY <1>2
  <2> DEFINE v(k) == IF k = m + 1 THEN By(f[k - 1], k) ELSE f[k]
             g == [k \in 0..(m + 1) |-> v(k)]
  <2>2. ASSUME NEW k \in 0..(m + 1)
        PROVE  v(k) = IF k = 0 THEN lines ELSE By(g[k - 1], k)
    <3>1. CASE k = m + 1
      <4>1. k # 0 /\ k - 1 \in 0..(m + 1) /\ k - 1 # m + 1
        BY <3>1
      <4>2. g[k - 1] = f[k - 1]
        BY <4>1
      <4> HIDE DEF g
      <4> QED BY <3>1, <4>1, <4>2
    <3>2. CASE k # m + 1
      <4>1. k \in 0..m /\ (k # 0 => k - 1 \in 0..(m + 1) /\ k - 1 # m + 1)
        BY <3>2
      <4>2. k # 0 => g[k - 1] = f[k - 1]
        BY <4>1
      <4>3. f[k] = IF k = 0 THEN lines ELSE By(f[k - 1], k)
        BY <2>1, <4>1
      <4> HIDE DEF g
      <4> QED BY <3>2, <4>2, <4>3
    <3> QED BY <3>1, <3>2
  <2>3. g = [k \in 0..(m + 1) |-> IF k = 0 THEN lines ELSE By(g[k - 1], k)]
    <3> HIDE DEF v
    <3> QED BY <2>2
  <2>4. m + 1 \in 0..n
    OBVIOUS
  <2> HIDE DEF g
  <2> QED BY <2>3, <2>4
<1>3. n \in T
  <2> HIDE DEF T
  <2> QED BY <1>1, <1>2, UpTo
<1> QED BY <1>3 DEF By, Making

\* The lines after each command of a script, the engine's buffer.
LEMMA PatchedIs ==
    ASSUME NEW script, Len(script) \in Nat, NEW lines
    PROVE  \E f : /\ f[0] = lines
                  /\ \A k \in 1..Len(script) :
                        f[k] = Splice(f[k - 1], script[k], script[k].input)
                  /\ Patched(script, lines) = f[Len(script)]
<1> DEFINE n == Len(script)
           f == CHOOSE f : f = Making(f, n, script, lines)
<1>2. f = Making(f, n, script, lines)
  <2>1. \E g : g = Making(g, n, script, lines)
    BY MakingExists
  <2> QED BY <2>1
<1>3. Patched(script, lines) = f[n]
  BY DEF Patched, Making
<1> HIDE DEF f
<1>4. f[0] = lines /\ \A k \in 1..n : f[k] = Splice(f[k - 1], script[k], script[k].input)
  BY <1>2 DEF Making
<1> HIDE DEF n
<1> QED BY <1>3, <1>4 DEF n

\* A script of the first commands of a plan.
Begins(d, r, script) ==
    /\ Len(script) \in 0..Len(r) /\ DOMAIN script = 1..Len(script)
    /\ \A k \in 1..Len(script) : script[k] = CommandOf(d, r[k])

\* The groups of a plan, the last of the file first.
LEMMA PlanIs ==
    ASSUME NEW d, Fit(d), NEW r, Plan(d, r)
    PROVE  /\ Len(r) \in Nat /\ Len(d.ops) \in Nat
           /\ \A j \in 1..Len(r) :
                 /\ GroupOK(d, r[j])
                 /\ r[j].from \in 1..(Len(d.ops) + 1) /\ r[j].to \in 1..(Len(d.ops) + 1)
                 /\ r[j].from \in Nat /\ r[j].mid \in Nat /\ r[j].to \in Nat
                 /\ r[j].from <= r[j].to
           /\ \A j, k \in 1..Len(r) : j < k => r[k].to <= r[j].from
           /\ \A j \in 0..Len(r) : Reached(d, r, j) \in 1..(Len(d.ops) + 1)
<1>1. Len(r) \in Nat /\ Len(d.ops) \in Nat
  BY LenProperties, OpsAre DEF Plan
<1>2. ASSUME NEW j \in 1..Len(r)
      PROVE  /\ GroupOK(d, r[j])
             /\ r[j].from \in 1..(Len(d.ops) + 1) /\ r[j].to \in 1..(Len(d.ops) + 1)
             /\ r[j].from \in Nat /\ r[j].mid \in Nat /\ r[j].to \in Nat
             /\ r[j].from <= r[j].to
  <2>1. GroupOK(d, r[j])
    BY DEF Plan
  <2>2. /\ r[j].from \in 1..(Len(d.ops) + 1) /\ r[j].to \in 1..(Len(d.ops) + 1)
        /\ r[j].from \in Nat /\ r[j].mid \in Nat /\ r[j].to \in Nat
        /\ r[j].from <= r[j].mid /\ r[j].mid <= r[j].to
    BY <2>1, GroupIs
  <2> QED BY <2>1, <2>2
<1>3. \A j, k \in 1..Len(r) : j < k => r[k].to <= r[j].from
  BY DEF Plan, Descends
<1>4. ASSUME NEW j \in 0..Len(r) PROVE Reached(d, r, j) \in 1..(Len(d.ops) + 1)
  <2>1. j # 0 => j \in 1..Len(r)
    BY <1>1
  <2>2. Len(d.ops) + 1 \in 1..(Len(d.ops) + 1)
    BY <1>1
  <2> QED BY <1>2, <2>1, <2>2 DEF Reached
<1> QED BY <1>1, <1>2, <1>3, <1>4

\* Between the groups all ops are kept.
LEMMA KeptBetween ==
    ASSUME NEW d, Fit(d), NEW r, Plan(d, r), NEW n \in 0..Len(r), NEW p \in 1..Len(d.ops),
           p < Reached(d, r, n), n < Len(r) => r[n + 1].to <= p
    PROVE  d.ops[p] = "keep"
<1>1. /\ Len(r) \in Nat /\ Len(d.ops) \in Nat
      /\ \A j \in 1..Len(r) : r[j].from \in Nat /\ r[j].to \in Nat /\ r[j].from <= r[j].to
      /\ \A j, k \in 1..Len(r) : j < k => r[k].to <= r[j].from
  BY PlanIs
<1>2. ASSUME NEW j \in 1..Len(r), r[j].from <= p, p < r[j].to PROVE FALSE
  <2>0. p \in Nat /\ r[j].from \in Nat /\ r[j].to \in Nat /\ j \in Nat /\ n \in Nat
    BY <1>1
  <2>1. CASE j <= n
    <3>1. n \in 1..Len(r) /\ Reached(d, r, n) = r[n].from
      BY <1>1, <2>0, <2>1 DEF Reached
    <3>2. r[n].from <= r[j].from
      <4>1. CASE j = n
        BY <1>1, <3>1, <4>1
      <4>2. CASE j < n
        <5>1. r[n].to <= r[j].from
          BY <1>1, <3>1, <4>2
        <5>2. r[n].from <= r[n].to /\ r[n].from \in Nat /\ r[n].to \in Nat
          BY <1>1, <3>1
        <5> QED BY <2>0, <5>1, <5>2
      <4> QED BY <2>0, <2>1, <4>1, <4>2
    <3>3. r[n].from \in Nat
      BY <1>1, <3>1
    <3> QED BY <1>2, <2>0, <3>1, <3>2, <3>3
  <2>2. CASE j = n + 1
    <3>1. n < Len(r)
      BY <1>1, <2>0, <2>2
    <3> QED BY <1>2, <2>0, <2>2, <3>1
  <2>3. CASE j > n + 1
    <3>1. n < Len(r) /\ n + 1 \in 1..Len(r) /\ n + 1 < j
      BY <1>1, <2>0, <2>3
    <3>2. r[j].to <= r[n + 1].from /\ r[n + 1].from <= r[n + 1].to
          /\ r[n + 1].from \in Nat /\ r[n + 1].to \in Nat
      BY <1>1, <3>1
    <3> QED BY <1>2, <2>0, <3>1, <3>2
  <2> QED BY <2>0, <2>1, <2>2, <2>3
<1>3. Covered(d, r, p)
  BY DEF Plan
<1> QED BY <1>2, <1>3 DEF Covered

\* The engine accepts any first commands of a plan, as they are.
LEMMA PlanAccepted ==
    ASSUME NEW d, Fit(d), NEW r, Plan(d, r), NEW script, Begins(d, r, script)
    PROVE  Accepted(script, OldLen(d))
<1>1. /\ Len(r) \in Nat /\ Len(d.ops) \in Nat
      /\ \A j \in 1..Len(r) :
                 /\ GroupOK(d, r[j])
                 /\ r[j].from \in 1..(Len(d.ops) + 1) /\ r[j].to \in 1..(Len(d.ops) + 1)
      /\ \A j, k \in 1..Len(r) : j < k => r[k].to <= r[j].from
  BY PlanIs
<1>2. Len(script) \in Nat /\ \A k \in DOMAIN script : k \in 1..Len(r) /\ k \in Nat
                                                   /\ script[k] = CommandOf(d, r[k])
  BY <1>1 DEF Begins
<1>3. \A j \in 1..Len(r) : /\ AffectedLow(CommandOf(d, r[j])) = OldBefore(d, r[j].from) + 1
                           /\ AddressedTop(CommandOf(d, r[j])) = OldBefore(d, r[j].to)
                           /\ InRange(CommandOf(d, r[j]), OldLen(d))
  BY <1>1, CommandFits
<1>4. ASSUME NEW m \in DOMAIN script, NEW n \in DOMAIN script, m < n
      PROVE  AddressedTop(script[n]) < AffectedLow(script[m])
  <2>1. m \in 1..Len(r) /\ n \in 1..Len(r)
    BY <1>2
  <2>2. r[n].to <= r[m].from
    BY <1>1, <1>4, <2>1
  <2>3. OldBefore(d, r[n].to) <= OldBefore(d, r[m].from)
    <3>1. r[n].to \in 1..(Len(d.ops) + 1) /\ r[m].from \in 1..(Len(d.ops) + 1)
      BY <1>1, <2>1
    <3> QED BY <2>2, <3>1, BeforeIs
  <2>4. OldBefore(d, r[n].to) \in Nat /\ OldBefore(d, r[m].from) \in Nat
    BY <1>1, <2>1, BeforeAre
  <2> QED BY <1>2, <1>3, <2>1, <2>3, <2>4
<1>5. ASSUME NEW n \in DOMAIN script PROVE InRange(script[n], OldLen(d))
  BY <1>2, <1>3
<1> QED BY <1>4, <1>5 DEF Accepted

\* They make the lines of the new file from the group they have got to on.
LEMMA PlanMakes ==
    ASSUME NEW d, Fit(d), NEW r, Plan(d, r), NEW script, Begins(d, r, script)
    PROVE  LET made == Patched(script, Literals(OldFile(d).lines))
           IN  /\ Near(d, made, Reached(d, r, Len(script)))
               /\ Len(script) = Len(r) => Near(d, made, 1)
<1> DEFINE Old == Literals(OldFile(d).lines)
           K == Len(script)
           At(k) == Reached(d, r, k)
<1>1. /\ Len(r) \in Nat /\ Len(d.ops) \in Nat
      /\ \A j \in 1..Len(r) :
            /\ GroupOK(d, r[j])
            /\ r[j].from \in 1..(Len(d.ops) + 1) /\ r[j].to \in 1..(Len(d.ops) + 1)
            /\ r[j].from \in Nat /\ r[j].to \in Nat /\ r[j].from <= r[j].to
      /\ \A j, k \in 1..Len(r) : j < k => r[k].to <= r[j].from
      /\ \A j \in 0..Len(r) : At(j) \in 1..(Len(d.ops) + 1)
  BY PlanIs
<1>2. K \in 0..Len(r) /\ K \in Nat /\ \A k \in 1..K : script[k] = CommandOf(d, r[k])
  BY <1>1 DEF Begins
<1>3. PICK f : /\ f[0] = Old
               /\ \A k \in 1..K : f[k] = Splice(f[k - 1], script[k], script[k].input)
               /\ Patched(script, Old) = f[K]
  BY <1>2, PatchedIs
<1> DEFINE T == {k \in 0..K : Near(d, f[k], At(k))}
<1>4. 0 \in T
  <2>1. At(0) = Len(d.ops) + 1 /\ Len(d.ops) + 1 \in 1..(Len(d.ops) + 1)
    BY <1>1 DEF Reached
  <2>2. /\ Old \in Seq(Piece) /\ Len(Old) = OldLen(d)
        /\ \A l \in 1..OldLen(d) : Old[l] = Literal(OldFile(d).lines[l])
    BY FilesAre, LiteralsAre
  <2>3. /\ OldBefore(d, Len(d.ops) + 1) = OldLen(d) /\ NewBefore(d, Len(d.ops) + 1) = NewLen(d)
        /\ OldLen(d) \in Nat /\ NewLen(d) \in Nat
    BY BeforeIs DEF OldLen, NewLen
  <2>4. Near(d, Old, Len(d.ops) + 1)
    <3>1. NewLen(d) - NewLen(d) = 0 /\ OldLen(d) + (NewLen(d) - NewLen(d)) = OldLen(d)
      BY <2>3
    <3> HIDE DEF Old
    <3> QED BY <2>2, <2>3, <3>1 DEF Near, Old
  <2>5. 0 \in 0..K
    BY <1>2
  <2> QED BY <1>3, <2>1, <2>4, <2>5
<1>5. \A k \in 0..(K - 1) : k \in T => k + 1 \in T
  <2> TAKE k \in 0..(K - 1)
  <2> HAVE k \in T
  <2> DEFINE g == r[k + 1]
             c == CommandOf(d, g)
  <2>1. /\ k \in Nat /\ k < Len(r) /\ k \in 0..Len(r) /\ k + 1 \in 1..Len(r) /\ k + 1 \in 1..K
        /\ (k + 1) - 1 = k /\ k + 1 \in 0..K
    BY <1>1, <1>2
  <2>2. f[k + 1] = Splice(f[k], c, c.input)
    <3>1. script[k + 1] = c
      BY <1>2, <2>1
    <3>2. f[k + 1] = Splice(f[(k + 1) - 1], script[k + 1], script[k + 1].input)
      BY <1>3, <2>1
    <3> HIDE DEF c
    <3> QED BY <2>1, <3>1, <3>2
  <2>3. GroupOK(d, g) /\ g.from \in Nat /\ g.to \in Nat /\ g.to \in 1..(Len(d.ops) + 1)
        /\ At(k + 1) = g.from
    BY <1>1, <2>1 DEF Reached
  <2>4. At(k) \in 1..(Len(d.ops) + 1) /\ g.to <= At(k)
    <3>1. CASE k = 0
      BY <1>1, <2>1, <2>3, <3>1 DEF Reached
    <3>2. CASE k # 0
      <4>1. k \in 1..Len(r) /\ k < k + 1 /\ At(k) = r[k].from
        BY <1>1, <2>1, <3>2 DEF Reached
      <4> QED BY <1>1, <2>1, <4>1
    <3> QED BY <3>1, <3>2
  <2>5. \A p \in 1..Len(d.ops) : g.to <= p /\ p < At(k) => d.ops[p] = "keep"
    <3> TAKE p \in 1..Len(d.ops)
    <3> HAVE g.to <= p /\ p < At(k)
    <3> QED BY <2>1, KeptBetween
  <2>6. Near(d, f[k], At(k))
    OBVIOUS
  <2> HIDE DEF g, At
  <2>7. Near(d, f[k], g.to)
    BY <2>3, <2>4, <2>5, <2>6, KeptNear
  <2>8. Near(d, Splice(f[k], c, c.input), g.from)
    BY <2>3, <2>7, GroupNear
  <2> HIDE DEF c
  <2> QED BY <2>1, <2>2, <2>3, <2>8
<1>6. K \in T
  <2> HIDE DEF T, K
  <2>1. \A k \in 0..K : k \in T
    BY <1>2, <1>4, <1>5, UpTo
  <2> QED BY <1>2, <2>1
<1>7. Near(d, f[K], At(K))
  BY <1>6
<1>8. ASSUME K = Len(r) PROVE Near(d, f[K], 1)
  <2>1. 1 \in 1..(Len(d.ops) + 1) /\ At(K) \in 1..(Len(d.ops) + 1) /\ 1 <= At(K)
    BY <1>1, <1>2
  <2>2. \A p \in 1..Len(d.ops) : 1 <= p /\ p < At(K) => d.ops[p] = "keep"
    <3> TAKE p \in 1..Len(d.ops)
    <3> HAVE 1 <= p /\ p < At(K)
    <3>1. ~(K < Len(r))
      BY <1>1, <1>2, <1>8
    <3> QED BY <1>2, <3>1, KeptBetween
  <2> HIDE DEF At
  <2> QED BY <1>7, <2>1, <2>2, KeptNear
<1> QED BY <1>3, <1>7, <1>8

\* All of them make the new file.
LEMMA NearNew ==
    ASSUME NEW d, Fit(d), NEW made, Near(d, made, 1)
    PROVE  /\ Len(made) = Len(NewFile(d).lines)
           /\ \A l \in DOMAIN NewFile(d).lines : Same(made[l], NewFile(d).lines[l])
<1>1. /\ OldBefore(d, 1) = 0 /\ NewBefore(d, 1) = 0 /\ NewLen(d) \in Nat
      /\ NewFile(d).lines \in Seq(Line) /\ Len(NewFile(d).lines) = NewLen(d)
  BY BeforeIs, FilesAre
<1>2. Len(made) = 0 + (NewLen(d) - 0)
      /\ \A l \in 1..(NewLen(d) - 0) : Same(made[0 + l], NewFile(d).lines[0 + l])
  BY <1>1 DEF Near
<1>3. NewLen(d) - 0 = NewLen(d) /\ 0 + (NewLen(d) - 0) = NewLen(d)
      /\ DOMAIN NewFile(d).lines = 1..NewLen(d)
  BY <1>1
<1>4. \A l \in 1..NewLen(d) : 0 + l = l
  BY <1>1
<1> QED BY <1>1, <1>2, <1>3, <1>4

\* Lines that are near the new file from op p on are the mixture of the two files.
LEMMA NearMixture ==
    ASSUME NEW d, Fit(d), NEW p \in 1..(Len(d.ops) + 1), NEW made, Near(d, made, p)
    PROVE  /\ Len(made) = Len(Mixture(d, p))
           /\ \A l \in DOMAIN made : Same(made[l], Mixture(d, p)[l])
<1> DEFINE Old == OldFile(d).lines
           Wanted == NewFile(d).lines
           o == OldBefore(d, p)
           n == NewBefore(d, p)
           N == NewLen(d)
           u == SubSeq(Old, 1, o)
           v == SubSeq(Wanted, n + 1, Len(Wanted))
           mix == u \o v
<1>1. o \in Nat /\ n \in Nat /\ N \in Nat /\ o <= OldLen(d) /\ n <= N /\ OldLen(d) \in Nat
  BY BeforeAre
<1>2. Old \in Seq(Line) /\ Len(Old) = OldLen(d) /\ Wanted \in Seq(Line) /\ Len(Wanted) = N
  BY FilesAre
<1>3. /\ made \in Seq(Piece) /\ Len(made) = o + (N - n)
      /\ \A l \in 1..o : made[l] = Literal(Old[l])
      /\ \A l \in 1..(N - n) : Same(made[o + l], Wanted[n + l])
  BY DEF Near
<1>m. Mixture(d, p) = mix
  BY DEF Mixture
<1> HIDE DEF Old, Wanted, o, n, N
<1>4. u \in Seq(Line) /\ Len(u) = o /\ \A l \in 1..o : u[l] = Old[l]
  <2>1. o \in Int /\ 1 \in Int /\ 1 >= 1 /\ o <= Len(Old)
    BY <1>1, <1>2
  <2>2. u \in Seq(Line) /\ Len(u) = (IF 1 <= o THEN o - 1 + 1 ELSE 0)
        /\ \A l \in 1..(o - 1 + 1) : u[l] = Old[1 + l - 1]
    BY <1>2, <2>1, PartOfSeq
  <2> HIDE DEF u
  <2> QED BY <1>1, <2>2
<1>5. v \in Seq(Line) /\ Len(v) = N - n /\ \A l \in 1..(N - n) : v[l] = Wanted[n + l]
  <2>1. n + 1 \in Int /\ n + 1 >= 1 /\ Len(Wanted) \in Int /\ Len(Wanted) <= Len(Wanted)
    BY <1>1, <1>2
  <2>2. v \in Seq(Line) /\ Len(v) = (IF n + 1 <= Len(Wanted) THEN Len(Wanted) - (n + 1) + 1 ELSE 0)
        /\ \A l \in 1..(Len(Wanted) - (n + 1) + 1) : v[l] = Wanted[n + 1 + l - 1]
    BY <1>2, <2>1, PartOfSeq
  <2> HIDE DEF v
  <2>3. \A l \in 1..(N - n) : l \in 1..(Len(Wanted) - (n + 1) + 1) /\ n + 1 + l - 1 = n + l
    BY <1>1, <1>2
  <2> QED BY <1>1, <1>2, <2>2, <2>3
<1> HIDE DEF u, v
<1>6. Len(mix) = o + (N - n)
      /\ \A l \in 1..(o + (N - n)) : /\ l <= o => mix[l] = u[l]
                                     /\ ~(l <= o) => mix[l] = v[l - o]
  <2>1. N - n \in Nat
    BY <1>1
  <2>2. Len(mix) = Len(u) + Len(v) /\ \A l \in 1..(Len(u) + Len(v)) :
                                        mix[l] = IF l <= Len(u) THEN u[l] ELSE v[l - Len(u)]
    BY <1>4, <1>5, ConcatProperties
  <2> HIDE DEF mix
  <2> QED BY <1>1, <1>4, <1>5, <2>1, <2>2
<1>7. DOMAIN made = 1..(o + (N - n))
  BY <1>3
<1> HIDE DEF mix
<1>8. ASSUME NEW l \in 1..(o + (N - n)) PROVE Same(made[l], mix[l])
  <2>1. CASE l <= o
    <3>1. l \in 1..o
      BY <1>1, <2>1
    <3> QED BY <1>3, <1>4, <1>6, <2>1, <3>1 DEF Same
  <2>2. CASE ~(l <= o)
    <3>1. l - o \in 1..(N - n) /\ o + (l - o) = l
      BY <1>1, <2>2
    <3>2. Same(made[o + (l - o)], Wanted[n + (l - o)]) /\ v[l - o] = Wanted[n + (l - o)]
      BY <1>3, <1>5, <3>1
    <3> QED BY <1>6, <2>2, <3>1, <3>2
  <2> QED BY <2>1, <2>2
<1> QED BY <1>3, <1>6, <1>7, <1>8, <1>m

-----------------------------------------------------------------------------
(* The callbacks of a diff.                                                *)

\* The callbacks of a diff.
AnEvent == {Event(k, n, l) : k \in {"hunk", "keep", "del", "add", "eofnl"}, n \in Nat, l \in Line}
EofEvent == Event("eofnl", 0, EmptyLine)

\* The callback for the line of op p, and the one for a hunk that begins there.
OpEvent(d, p) ==
    Event(d.ops[p], IF d.ops[p] = "add" THEN 0 ELSE OldBefore(d, p) + 1, LineAt(d, p))
HunkEvent(d, p) == Event("hunk", HunkStart(d, p), EmptyLine)

\* The callbacks of each op: none for an op outside of the hunks.
EventsOf(d) == [p \in DOMAIN d.ops |-> IF Shown(d, p) THEN EventsAt(d, p) ELSE <<>>]

\* What is to come from op p on, after op p, and from its line on.
Rest(d, p) == FlattenSeq(SubSeq(EventsOf(d), p, Len(d.ops)))

\* What comes after the line of op p, and what comes with it.
AfterOp(d, p) == (IF OldEnd(d, p) \/ NewEnd(d, p) THEN <<EofEvent>> ELSE <<>>) \o Rest(d, p + 1)
AtOp(d, p) == <<OpEvent(d, p)>> \o AfterOp(d, p)

\* The order in which four sequences are joined.
JoinsUp(a, b, c, d) == ((a \o b) \o c) \o d = a \o (b \o (c \o d))

LEMMA ConcatFour ==
    ASSUME NEW S, NEW a \in Seq(S), NEW b \in Seq(S), NEW c \in Seq(S), NEW d \in Seq(S)
    PROVE  JoinsUp(a, b, c, d)
<1>1. a \o b \in Seq(S) /\ c \o d \in Seq(S)
  BY ConcatProperties
<1>2. ((a \o b) \o c) \o d = (a \o b) \o (c \o d)
  BY <1>1, ConcatAssociative
<1>3. (a \o b) \o (c \o d) = a \o (b \o (c \o d))
  BY <1>1, ConcatAssociative
<1> QED BY <1>2, <1>3 DEF JoinsUp

\* The head and the tail of a sequence that was prepended to.
LEMMA HeadAndTail ==
    ASSUME NEW S, NEW x \in S, NEW s \in Seq(S)
    PROVE  <<x>> \o s \in Seq(S) /\ <<x>> \o s # <<>> /\ Head(<<x>> \o s) = x /\ Tail(<<x>> \o s) = s
<1>1. <<x>> \in Seq(S) /\ Len(<<x>>) = 1 /\ <<x>>[1] = x
  OBVIOUS
<1>2. /\ <<x>> \o s \in Seq(S) /\ Len(<<x>> \o s) = 1 + Len(s) /\ Len(s) \in Nat
      /\ \A l \in 1..(1 + Len(s)) : (<<x>> \o s)[l] = IF l <= 1 THEN <<x>>[l] ELSE s[l - 1]
  BY <1>1, ConcatProperties, LenProperties
<1> DEFINE t == <<x>> \o s
<1>3. t \in Seq(S) /\ Len(t) = 1 + Len(s) /\ t[1] = x /\ \A l \in 1..Len(s) : t[l + 1] = s[l]
  <2>1. t[1] = x
    BY <1>1, <1>2
  <2>2. ASSUME NEW l \in 1..Len(s) PROVE t[l + 1] = s[l]
    <3>1. l + 1 \in 1..(1 + Len(s)) /\ ~(l + 1 <= 1) /\ (l + 1) - 1 = l
      BY <1>2
    <3> QED BY <1>2, <3>1
  <2> QED BY <1>2, <2>1, <2>2
<1> HIDE DEF t
<1>4. t # <<>> /\ Head(t) = x
  BY <1>2, <1>3
<1>5. Tail(t) \in Seq(S) /\ Len(Tail(t)) = Len(s) /\ \A l \in 1..Len(s) : Tail(t)[l] = t[l + 1]
  BY <1>2, <1>3, <1>4
<1>6. Tail(t) = s
  BY <1>3, <1>5, SeqEqual
<1> QED BY <1>3, <1>4, <1>6 DEF t

\* The callbacks are events.
LEMMA EventTypes ==
    ASSUME NEW d, Fit(d)
    PROVE  /\ EofEvent \in AnEvent
           /\ \A p \in 1..Len(d.ops) : OpEvent(d, p) \in AnEvent /\ HunkEvent(d, p) \in AnEvent
<1>1. EmptyLine \in Line
  BY CoreAssumption, EmptySeq DEF EmptyLine, PlainLine, Line
<1>2. EofEvent \in AnEvent
  BY <1>1 DEF EofEvent, AnEvent
<1>3. ASSUME NEW p \in 1..Len(d.ops)
      PROVE  OpEvent(d, p) \in AnEvent /\ HunkEvent(d, p) \in AnEvent
  <2>1. p \in 1..(Len(d.ops) + 1) /\ p \in DOMAIN d.ops /\ d.ops[p] \in {"keep", "del", "add"}
    BY OpsAre
  <2>2. OldBefore(d, p) \in Nat
    BY <2>1, BeforeAre
  <2>3. LineAt(d, p) \in Line
    BY <2>1 DEF Fit
  <2>4. HunkStart(d, p) \in Nat
    BY <2>2 DEF HunkStart
  <2> DEFINE no == IF d.ops[p] = "add" THEN 0 ELSE OldBefore(d, p) + 1
  <2>5. no \in Nat /\ d.ops[p] \in {"hunk", "keep", "del", "add", "eofnl"}
    BY <2>1, <2>2
  <2>6. OpEvent(d, p) \in AnEvent
    <3>1. OpEvent(d, p) = Event(d.ops[p], no, LineAt(d, p))
      BY DEF OpEvent
    <3> HIDE DEF no
    <3> QED BY <2>3, <2>5, <3>1 DEF AnEvent
  <2>7. HunkEvent(d, p) \in AnEvent
    BY <1>1, <2>4 DEF HunkEvent, AnEvent
  <2> QED BY <2>6, <2>7
<1> QED BY <1>2, <1>3

\* The callbacks from op p on are those of op p, then those from p + 1 on.
LEMMA EventsAre ==
    ASSUME NEW d, Fit(d)
    PROVE  /\ EventsOf(d) \in Seq(Seq(AnEvent)) /\ Len(EventsOf(d)) = Len(d.ops)
           /\ \A p \in 1..(Len(d.ops) + 1) : Rest(d, p) \in Seq(AnEvent)
           /\ \A p \in 1..Len(d.ops) : Rest(d, p) = EventsOf(d)[p] \o Rest(d, p + 1)
           /\ Rest(d, Len(d.ops) + 1) = <<>> /\ Rest(d, 1) = Events(d)
<1> DEFINE E == EventsOf(d)
           N == Len(d.ops)
<1>1. N \in Nat /\ DOMAIN d.ops = 1..N
  BY OpsAre
<1>2. ASSUME NEW p \in 1..N PROVE EventsAt(d, p) \in Seq(AnEvent)
  <2>1. EofEvent \in AnEvent /\ OpEvent(d, p) \in AnEvent /\ HunkEvent(d, p) \in AnEvent
    BY EventTypes
  <2> DEFINE h == IF ~Shown(d, p - 1) THEN <<HunkEvent(d, p)>> ELSE <<>>
             o == <<OpEvent(d, p)>>
             e == IF OldEnd(d, p) \/ NewEnd(d, p) THEN <<EofEvent>> ELSE <<>>
  <2>2. h \in Seq(AnEvent) /\ o \in Seq(AnEvent) /\ e \in Seq(AnEvent)
    BY <2>1, EmptySeq
  <2>3. EventsAt(d, p) = (h \o o) \o e
    BY DEF EventsAt, HunkEvent, OpEvent, EofEvent
  <2> HIDE DEF h, o, e
  <2>4. h \o o \in Seq(AnEvent)
    BY <2>2, ConcatProperties
  <2> QED BY <2>2, <2>3, <2>4, ConcatProperties
<1>3. E \in [1..N -> Seq(AnEvent)]
  BY <1>1, <1>2, EmptySeq DEF EventsOf
<1>4. E \in Seq(Seq(AnEvent)) /\ Len(E) = N
  BY <1>1, <1>3, FunctionIsSeq
<1>5. ASSUME NEW p \in 1..(N + 1) PROVE Rest(d, p) \in Seq(AnEvent)
  <2>1. p \in Int /\ p >= 1 /\ N \in Int /\ N <= Len(E)
    BY <1>1, <1>4
  <2>2. SubSeq(E, p, N) \in Seq(Seq(AnEvent))
    BY <1>4, <2>1, PartOfSeq
  <2> QED BY <2>2, FlattenType DEF Rest
<1>6. ASSUME NEW p \in 1..N PROVE Rest(d, p) = E[p] \o Rest(d, p + 1)
  <2> HIDE DEF E, N
  <2>1. FlattenSeq(SubSeq(E, p, Len(E))) = E[p] \o FlattenSeq(SubSeq(E, p + 1, Len(E)))
    BY <1>4, FlattenNext
  <2> QED BY <1>4, <2>1 DEF Rest, E, N
<1>7. Rest(d, N + 1) = <<>>
  <2>1. N + 1 \in Int /\ N + 1 >= 1 /\ N \in Int /\ N <= Len(E) /\ ~(N + 1 <= N)
    BY <1>1, <1>4
  <2>2. SubSeq(E, N + 1, N) \in Seq(Seq(AnEvent)) /\ Len(SubSeq(E, N + 1, N)) = 0
    BY <1>4, <2>1, PartOfSeq
  <2>3. SubSeq(E, N + 1, N) = <<>>
    BY <2>2, EmptySeq
  <2> QED BY <2>3, FlattenNone DEF Rest
<1>8. Rest(d, 1) = Events(d)
  <2>1. SubSeq(E, 1, Len(E)) = E
    <3> HIDE DEF E
    <3> QED BY <1>4
  <2> QED BY <1>4, <2>1 DEF Rest, Events, EventsOf
<1> QED BY <1>4, <1>5, <1>6, <1>7, <1>8

\* Ops that are not shown bring no events.
LEMMA RestSkips ==
    ASSUME NEW d, Fit(d), NEW a \in 1..(Len(d.ops) + 1), NEW b \in 1..(Len(d.ops) + 1), a <= b,
           \A q \in 1..Len(d.ops) : a <= q /\ q < b => ~Shown(d, q)
    PROVE  Rest(d, a) = Rest(d, b)
<1> DEFINE T == {x \in 0..(b - a) : Rest(d, a + x) = Rest(d, a)}
<1>1. Len(d.ops) \in Nat /\ b - a \in Nat /\ a \in Nat /\ b \in Nat /\ DOMAIN d.ops = 1..Len(d.ops)
  BY OpsAre
<1>2. 0 \in T
  <2>1. a + 0 = a /\ 0 \in 0..(b - a)
    BY <1>1
  <2> QED BY <2>1
<1>3. \A x \in 0..(b - a - 1) : x \in T => x + 1 \in T
  <2> TAKE x \in 0..(b - a - 1)
  <2> HAVE x \in T
  <2> DEFINE p == a + x
  <2>1. p \in 1..Len(d.ops) /\ a <= p /\ p < b /\ x + 1 \in 0..(b - a) /\ a + (x + 1) = p + 1
        /\ p + 1 \in 1..(Len(d.ops) + 1)
    BY <1>1
  <2>2. Rest(d, p) = Rest(d, a)
    OBVIOUS
  <2> HIDE DEF p
  <2>3. EventsOf(d)[p] = <<>>
    BY <1>1, <2>1 DEF EventsOf
  <2>4. Rest(d, p) = <<>> \o Rest(d, p + 1) /\ Rest(d, p + 1) \in Seq(AnEvent)
    BY <2>1, <2>3, EventsAre
  <2>5. Rest(d, p) = Rest(d, p + 1)
    BY <2>4, ConcatEmptySeq
  <2> QED BY <2>1, <2>2, <2>5
<1>4. \A x \in 0..(b - a) : x \in T
  <2> HIDE DEF T
  <2> QED BY <1>1, <1>2, <1>3, UpTo
<1>5. b - a \in 0..(b - a) /\ a + (b - a) = b
  BY <1>1
<1> QED BY <1>4, <1>5

\* The next op that is shown, if there is one, and what it brings.
ShownNext(d, p, q) ==
    /\ q \in 1..Len(d.ops) /\ p <= q /\ Shown(d, q)
    /\ \A x \in 1..Len(d.ops) : p <= x /\ x < q => ~Shown(d, x)
    /\ Rest(d, p) = IF Shown(d, q - 1) THEN AtOp(d, q) ELSE <<HunkEvent(d, q)>> \o AtOp(d, q)

\* Either an op from p on is shown, or nothing is left of the diff.
LEMMA NextShown ==
    ASSUME NEW d, Fit(d), NEW p \in 1..(Len(d.ops) + 1)
    PROVE  \/ \E q : ShownNext(d, p, q)
           \/ /\ Rest(d, p) = <<>>
              /\ \A x \in 1..Len(d.ops) : p <= x => ~Shown(d, x)
<1>1. Len(d.ops) \in Nat /\ p \in Nat /\ DOMAIN d.ops = 1..Len(d.ops)
  BY OpsAre
<1> DEFINE T == {x \in 1..Len(d.ops) : p <= x /\ Shown(d, x)}
<1>2. CASE T = {}
  <2>1. \A x \in 1..Len(d.ops) : p <= x => ~Shown(d, x)
    BY <1>2
  <2>2. Len(d.ops) + 1 \in 1..(Len(d.ops) + 1) /\ p <= Len(d.ops) + 1
    BY <1>1
  <2>3. Rest(d, p) = Rest(d, Len(d.ops) + 1)
    BY <2>1, <2>2, RestSkips
  <2> QED BY <2>1, <2>3, EventsAre
<1>3. CASE T # {}
  <2>1. T \in SUBSET Nat
    BY <1>1
  <2>2. PICK q \in T : \A y \in T : q <= y
    <3> HIDE DEF T
    <3> QED BY <1>3, <2>1, Least
  <2>3. q \in 1..Len(d.ops) /\ p <= q /\ Shown(d, q) /\ q \in 1..(Len(d.ops) + 1) /\ q \in Nat
        /\ q + 1 \in 1..(Len(d.ops) + 1)
    BY <1>1, <2>2
  <2>4. ASSUME NEW x \in 1..Len(d.ops), p <= x, x < q PROVE ~Shown(d, x)
    <3> SUFFICES ASSUME Shown(d, x) PROVE FALSE
      OBVIOUS
    <3>1. x \in T
      BY <2>4
    <3>2. q <= x /\ x \in Nat
      BY <1>1, <2>2, <3>1
    <3> QED BY <2>3, <2>4, <3>2
  <2>5. Rest(d, p) = Rest(d, q)
    BY <2>3, <2>4, RestSkips
  <2> DEFINE h == IF ~Shown(d, q - 1) THEN <<HunkEvent(d, q)>> ELSE <<>>
             o == <<OpEvent(d, q)>>
             e == IF OldEnd(d, q) \/ NewEnd(d, q) THEN <<EofEvent>> ELSE <<>>
             t == Rest(d, q + 1)
  <2>6. Rest(d, q) = ((h \o o) \o e) \o t
    <3>1. EventsOf(d)[q] = EventsAt(d, q)
      BY <1>1, <2>3 DEF EventsOf
    <3>2. EventsAt(d, q) = (h \o o) \o e
      BY DEF EventsAt, HunkEvent, OpEvent, EofEvent
    <3>3. Rest(d, q) = EventsOf(d)[q] \o t
      BY <2>3, EventsAre
    <3> HIDE DEF h, o, e, t
    <3> QED BY <3>1, <3>2, <3>3
  <2>7. h \in Seq(AnEvent) /\ o \in Seq(AnEvent) /\ e \in Seq(AnEvent) /\ t \in Seq(AnEvent)
    <3>1. EofEvent \in AnEvent /\ OpEvent(d, q) \in AnEvent /\ HunkEvent(d, q) \in AnEvent
      BY <2>3, EventTypes
    <3>2. t \in Seq(AnEvent)
      BY <2>3, EventsAre
    <3> HIDE DEF t
    <3> QED BY <3>1, <3>2, EmptySeq
  <2>8. AtOp(d, q) = o \o (e \o t)
    BY DEF AtOp, AfterOp
  <2>9. h = IF Shown(d, q - 1) THEN <<>> ELSE <<HunkEvent(d, q)>>
    OBVIOUS
  <2> HIDE DEF h, o, e, t
  <2>10. Rest(d, q) = h \o (o \o (e \o t))
    <3>1. h \o o \in Seq(AnEvent) /\ e \o t \in Seq(AnEvent)
      BY <2>7, ConcatProperties
    <3>2. ((h \o o) \o e) \o t = h \o (o \o (e \o t))
      <4>1. JoinsUp(h, o, e, t)
        BY <2>7, ConcatFour, Zenon
      <4> QED BY <4>1 DEF JoinsUp
    <3> QED BY <2>6, <3>2
  <2>11. o \o (e \o t) \in Seq(AnEvent)
    <3>1. e \o t \in Seq(AnEvent)
      BY <2>7, ConcatProperties
    <3> QED BY <2>7, <3>1, ConcatProperties
  <2>12. Rest(d, q) = IF Shown(d, q - 1) THEN AtOp(d, q) ELSE <<HunkEvent(d, q)>> \o AtOp(d, q)
    <3>1. CASE Shown(d, q - 1)
      <4>1. <<>> \o (o \o (e \o t)) = o \o (e \o t)
        BY <2>11, ConcatEmptySeq
      <4> QED BY <2>8, <2>9, <2>10, <3>1, <4>1
    <3>2. CASE ~Shown(d, q - 1)
      BY <2>8, <2>9, <2>10, <3>2
    <3> QED BY <3>1, <3>2
  <2>13. ShownNext(d, p, q)
    BY <2>3, <2>4, <2>5, <2>12 DEF ShownNext
  <2> QED BY <2>13
<1> QED BY <1>2, <1>3

-----------------------------------------------------------------------------
(* The generator gathers the groups of a diff.                             *)

\* What the hunks leave out is context.
LEMMA ShownIs ==
    ASSUME NEW d, Fit(d)
    PROVE  /\ \A p \in 1..Len(d.ops) : ~Shown(d, p) => d.ops[p] = "keep"
           /\ \A p \in 2..Len(d.ops) : ~Shown(d, p - 1) => d.ops[p] = "keep"
           /\ ~Shown(d, 0) /\ ~Shown(d, Len(d.ops) + 1)
<1>1. Len(d.ops) \in Nat /\ DOMAIN d.ops = 1..Len(d.ops)
  BY OpsAre
<1>2. ContextLines \in Nat \ {0}
  BY ChangesAssumption
<1>3. ASSUME NEW p \in 1..Len(d.ops), ~Shown(d, p) PROVE d.ops[p] = "keep"
  <2> SUFFICES ASSUME d.ops[p] # "keep" PROVE FALSE
    OBVIOUS
  <2>1. p \in Changed(d) /\ p - ContextLines <= p /\ p <= p + ContextLines
    BY <1>1, <1>2 DEF Changed
  <2> QED BY <1>1, <1>3, <2>1 DEF Shown
<1>4. ASSUME NEW p \in 2..Len(d.ops), ~Shown(d, p - 1) PROVE d.ops[p] = "keep"
  <2> SUFFICES ASSUME d.ops[p] # "keep" PROVE FALSE
    OBVIOUS
  <2>1. p \in Changed(d) /\ p - ContextLines <= p - 1 /\ p - 1 <= p + ContextLines
        /\ p - 1 \in DOMAIN d.ops
    BY <1>1, <1>2 DEF Changed
  <2> QED BY <1>4, <2>1 DEF Shown
<1>5. ~Shown(d, 0) /\ ~Shown(d, Len(d.ops) + 1)
  <2>1. 0 \notin DOMAIN d.ops /\ Len(d.ops) + 1 \notin DOMAIN d.ops
    BY <1>1
  <2> QED BY <2>1 DEF Shown
<1> QED BY <1>3, <1>4, <1>5

\* After a hunk header the line number is that of the old line before the hunk.
LEMMA HunkBegins ==
    ASSUME NEW d, Fit(d), NEW p \in 1..Len(d.ops), Shown(d, p), ~Shown(d, p - 1)
    PROVE  (IF HunkStart(d, p) > 0 THEN HunkStart(d, p) - 1 ELSE 0) = OldBefore(d, p)
<1>1. Len(d.ops) \in Nat /\ p \in Nat /\ p \in 1..(Len(d.ops) + 1)
  BY OpsAre
<1>2. OldBefore(d, p) \in Nat
  BY <1>1, BeforeAre
<1>3. HunkStart(d, p) \in {OldBefore(d, p), OldBefore(d, p) + 1}
  BY DEF HunkStart
<1>4. CASE p = 1
  <2>1. OldBefore(d, p) = 0
    BY <1>4, BeforeIs
  <2> QED BY <1>3, <2>1
<1>5. CASE p # 1
  <2>1. d.ops[p] = "keep"
    <3>1. p \in 2..Len(d.ops)
      BY <1>1, <1>5
    <3> QED BY <3>1, ShownIs
  <2> DEFINE Ends(e) == (\A q \in p..e : Shown(d, q)) /\ ~Shown(d, e + 1)
             T == {e \in p..Len(d.ops) : ~Shown(d, e + 1)}
  <2>2. \E e \in p..Len(d.ops) : Ends(e)
    <3>1. Len(d.ops) \in T /\ T \in SUBSET Nat
      BY <1>1, ShownIs
    <3>2. \E x \in T : \A y \in T : x <= y
      <4> HIDE DEF T
      <4> QED BY <3>1, Least
    <3>3. PICK x \in T : \A y \in T : x <= y
      BY <3>2
    <3>4. ASSUME NEW q \in p..x PROVE Shown(d, q)
      <4> SUFFICES ASSUME ~Shown(d, q) PROVE FALSE
        OBVIOUS
      <4>0. x \in Nat /\ x <= Len(d.ops) /\ q \in Nat
        BY <1>1, <3>3
      <4>1. q # p
        OBVIOUS
      <4>2. q - 1 \in p..Len(d.ops) /\ (q - 1) + 1 = q
        BY <1>1, <4>0, <4>1
      <4>3. q - 1 \in T
        BY <4>2
      <4>4. x <= q - 1
        BY <3>3, <4>3
      <4> QED BY <4>0, <4>4
    <3> QED BY <3>3, <3>4
  <2> DEFINE last == CHOOSE e \in p..Len(d.ops) : Ends(e)
  <2>3. last \in p..Len(d.ops)
    <3> HIDE DEF Ends
    <3> QED BY <2>2
  <2>4. HunkStart(d, p) = IF \E q \in p..last : d.ops[q] # "add" THEN OldBefore(d, p) + 1
                                                                  ELSE OldBefore(d, p)
    BY DEF HunkStart
  <2> HIDE DEF last
  <2>5. p \in p..last
    BY <1>1, <2>3
  <2>6. HunkStart(d, p) = OldBefore(d, p) + 1
    BY <2>1, <2>4, <2>5
  <2> QED BY <1>2, <2>6
<1> QED BY <1>4, <1>5

\* The changed ops before p are in the groups g.
Gathered(d, g, p) ==
    /\ p \in 1..(Len(d.ops) + 1) /\ g \in Seq(Group)
    /\ \A j \in 1..Len(g) : GroupOK(d, g[j]) /\ g[j].from < g[j].to /\ g[j].to <= p
    /\ \A j, k \in 1..Len(g) : j < k => g[j].to <= g[k].from
    /\ \A q \in 1..Len(d.ops) : q < p => Covered(d, g, q)

\* At the first op nothing is gathered.
LEMMA NoneGathered ==
    ASSUME NEW d, Fit(d)
    PROVE  Gathered(d, <<>>, 1)
<1>1. Len(d.ops) \in Nat
  BY OpsAre
<1>2. <<>> \in Seq(Group) /\ 1..Len(<<>>) = {}
  OBVIOUS
<1>3. \A q \in 1..Len(d.ops) : ~(q < 1)
  BY <1>1
<1> QED BY <1>1, <1>2, <1>3 DEF Gathered

\* Lines of context gather nothing.
LEMMA GatherKept ==
    ASSUME NEW d, Fit(d), NEW g, NEW p, Gathered(d, g, p), NEW q \in 1..(Len(d.ops) + 1), p <= q,
           \A x \in 1..Len(d.ops) : p <= x /\ x < q => d.ops[x] = "keep"
    PROVE  Gathered(d, g, q)
<1>1. Len(d.ops) \in Nat /\ p \in Nat /\ q \in Nat
  BY OpsAre DEF Gathered
<1>2. Len(g) \in Nat /\ \A j \in 1..Len(g) : g[j].to \in Nat
  BY LenProperties DEF Gathered, GroupOK, Group
<1>3. \A j \in 1..Len(g) : g[j].to <= q
  BY <1>1, <1>2 DEF Gathered
<1>4. ASSUME NEW x \in 1..Len(d.ops), x < q PROVE Covered(d, g, x)
  <2>1. CASE x < p
    BY <2>1 DEF Gathered
  <2>2. CASE ~(x < p)
    <3>1. p <= x
      BY <1>1, <2>2
    <3> QED BY <1>4, <3>1 DEF Covered
  <2> QED BY <2>1, <2>2
<1> QED BY <1>3, <1>4 DEF Gathered

\* A group more, or the last one grown by op p.
LEMMA GatherGroup ==
    ASSUME NEW d, Fit(d), NEW g, NEW p, Gathered(d, g, p), p \in 1..Len(d.ops),
           NEW x, GroupOK(d, x), x.from < x.to, x.to = p + 1,
           NEW n \in Nat,
           \/ n = Len(g) /\ x.from = p
           \/ n + 1 = Len(g) /\ g[n + 1].from = x.from /\ g[n + 1].to = p
    PROVE  LET h == Append(SubSeq(g, 1, n), x)
           IN  /\ Gathered(d, h, p + 1) /\ Len(h) = n + 1 /\ h[n + 1] = x
               /\ \A j \in 1..n : h[j] = g[j]
<1> DEFINE s == SubSeq(g, 1, n)
           h == Append(s, x)
<1>1. /\ g \in Seq(Group) /\ Len(g) \in Nat /\ p \in Nat /\ Len(d.ops) \in Nat
      /\ p \in 1..(Len(d.ops) + 1) /\ p + 1 \in 1..(Len(d.ops) + 1)
  BY LenProperties, OpsAre DEF Gathered
<1>2. \A j \in 1..Len(g) : /\ GroupOK(d, g[j]) /\ g[j].from < g[j].to /\ g[j].to <= p
                           /\ g[j].from \in Nat /\ g[j].to \in Nat
  BY DEF Gathered, GroupOK, Group
<1>3. x \in Group /\ x.from \in Nat /\ x.to \in Nat
  BY DEF GroupOK, Group
<1>4. s \in Seq(Group) /\ Len(s) = n /\ \A j \in 1..n : s[j] = g[j]
  <2>1. n \in Int /\ 1 \in Int /\ 1 >= 1 /\ n <= Len(g)
    BY <1>1
  <2>2. s \in Seq(Group) /\ Len(s) = (IF 1 <= n THEN n - 1 + 1 ELSE 0)
        /\ \A j \in 1..(n - 1 + 1) : s[j] = g[1 + j - 1]
    BY <1>1, <2>1, PartOfSeq
  <2> HIDE DEF s
  <2> QED BY <2>2
<1> HIDE DEF s
<1>5. h \in Seq(Group) /\ Len(h) = n + 1 /\ h[n + 1] = x /\ \A j \in 1..n : h[j] = g[j]
  BY <1>3, <1>4
<1> HIDE DEF h
<1>6. \A j \in 1..n : j \in 1..Len(g) /\ g[j].to <= x.from
  <2> TAKE j \in 1..n
  <2>1. j \in 1..Len(g) /\ j \in Nat
    BY <1>1
  <2>2. CASE n = Len(g) /\ x.from = p
    BY <1>2, <2>1, <2>2
  <2>3. CASE n + 1 = Len(g) /\ g[n + 1].from = x.from
    <3>1. n + 1 \in 1..Len(g) /\ j < n + 1
      BY <1>1, <2>1, <2>3
    <3>2. g[j].to <= g[n + 1].from
      BY <2>1, <3>1 DEF Gathered
    <3> QED BY <2>1, <2>3, <3>2
  <2> QED BY <2>1, <2>2, <2>3
<1>7. ASSUME NEW j \in 1..(n + 1)
      PROVE  GroupOK(d, h[j]) /\ h[j].from < h[j].to /\ h[j].to <= p + 1
  <2>1. CASE j = n + 1
    BY <1>1, <1>3, <1>5, <2>1
  <2>2. CASE j # n + 1
    <3>1. j \in 1..n /\ j \in 1..Len(g)
      BY <1>6, <2>2
    <3> QED BY <1>1, <1>2, <1>5, <3>1
  <2> QED BY <2>1, <2>2
<1>8. ASSUME NEW j \in 1..(n + 1), NEW k \in 1..(n + 1), j < k
      PROVE  h[j].to <= h[k].from
  <2>1. j \in 1..n /\ h[j] = g[j] /\ j \in 1..Len(g)
    BY <1>5, <1>6, <1>8
  <2>2. CASE k = n + 1
    BY <1>5, <1>6, <2>1, <2>2
  <2>3. CASE k # n + 1
    <3>1. k \in 1..n /\ k \in 1..Len(g) /\ h[k] = g[k]
      BY <1>5, <1>6, <2>3
    <3> QED BY <1>8, <2>1, <3>1 DEF Gathered
  <2> QED BY <2>2, <2>3
<1>9. ASSUME NEW q \in 1..Len(d.ops), q < p + 1 PROVE Covered(d, h, q)
  <2>0. q \in Nat /\ n + 1 \in 1..Len(h)
    BY <1>1, <1>5
  <2>1. CASE q = p
    <3>1. x.from <= p
      BY <1>1, <1>3
    <3> QED BY <1>1, <1>5, <2>0, <2>1, <3>1 DEF Covered
  <2>2. CASE q # p
    <3>1. q < p
      BY <1>1, <1>9, <2>0, <2>2
    <3>2. Covered(d, g, q)
      BY <3>1 DEF Gathered
    <3>3. CASE d.ops[q] = "keep"
      BY <3>3 DEF Covered
    <3>4. ASSUME NEW j \in 1..Len(g), g[j].from <= q, q < g[j].to PROVE Covered(d, h, q)
      <4>1. CASE j \in 1..n
        <5>1. j \in 1..Len(h) /\ h[j] = g[j]
          BY <1>5, <4>1
        <5> QED BY <3>4, <5>1 DEF Covered
      <4>2. CASE j \notin 1..n
        <5>1. j = n + 1 /\ g[n + 1].from = x.from /\ g[n + 1].to = p
          BY <1>1, <4>2
        <5>2. x.from <= q /\ q < x.to
          BY <1>1, <1>3, <2>0, <3>1, <3>4, <5>1
        <5> QED BY <1>5, <2>0, <5>2 DEF Covered
      <4> QED BY <4>1, <4>2
    <3> QED BY <3>2, <3>3, <3>4 DEF Covered
  <2> QED BY <2>1, <2>2
<1>10. Gathered(d, h, p + 1)
  BY <1>1, <1>5, <1>7, <1>8, <1>9 DEF Gathered
<1> QED BY <1>5, <1>10 DEF h, s

-----------------------------------------------------------------------------
(* The changes for the groups.                                             *)

\* The lines that a change records for a group, and the change.
Chomped(d, g) == [x \in 1..(g.to - g.mid) |-> Chomp(LineAt(d, g.mid + x - 1))]

ChangeOf(d, g) ==
    [old_start |-> IF g.from = g.mid THEN 0 ELSE OldBefore(d, g.from) + 1,
     old_count |-> g.mid - g.from, append_after |-> OldBefore(d, g.from),
     added |-> Chomped(d, g)]

\* The group from a to c whose added lines begin at b.
Span(a, b, c) == [from |-> a, mid |-> b, to |-> c]

\* A span is a group.
LEMMA SpanIs ==
    ASSUME NEW a \in Nat, NEW b \in Nat, NEW c \in Nat
    PROVE  Span(a, b, c) \in Group /\ Span(a, b, c).from = a /\ Span(a, b, c).mid = b
           /\ Span(a, b, c).to = c
BY DEF Span, Group

LEMMA SpanNext ==
    ASSUME NEW a \in Nat, NEW b \in Nat, NEW p \in Nat
    PROVE  /\ Span(a, b, p + 1) \in Group /\ Span(a, b, p + 1).from = a
           /\ Span(a, b, p + 1).mid = b /\ Span(a, b, p + 1).to = p + 1
<1> DEFINE c == p + 1
<1>1. c \in Nat
  OBVIOUS
<1> HIDE DEF c
<1>2. Span(a, b, c) \in Group /\ Span(a, b, c).from = a /\ Span(a, b, c).mid = b /\ Span(a, b, c).to = c
  BY <1>1, SpanIs
<1> QED BY <1>2 DEF c

\* A group is the span of its ends.
LEMMA GroupSpans == ASSUME NEW g \in Group PROVE g = Span(g.from, g.mid, g.to)
  BY DEF Span, Group

\* The recorded lines are as many as the added ones of the group.
LEMMA ChompedIs ==
    ASSUME NEW d, Fit(d), NEW g, GroupOK(d, g)
    PROVE  /\ Chomped(d, g) \in Seq(Line) /\ Len(Chomped(d, g)) = g.to - g.mid
           /\ g.to - g.mid \in Nat
<1>1. /\ g.mid \in Nat /\ g.to \in Nat /\ g.mid <= g.to
      /\ \A x \in 1..(g.to - g.mid) : g.mid + x - 1 \in 1..Len(d.ops)
  BY GroupIs
<1>2. ASSUME NEW x \in 1..(g.to - g.mid) PROVE Chomp(LineAt(d, g.mid + x - 1)) \in Line
  <2> DEFINE p == g.mid + x - 1
  <2>1. p \in DOMAIN d.ops
    BY <1>1, OpsAre
  <2> HIDE DEF p
  <2>2. Chomp(LineAt(d, p)) \in Line
    BY <2>1, ChompType DEF Fit
  <2> QED BY <2>2 DEF p
<1>3. Chomped(d, g) \in [1..(g.to - g.mid) -> Line]
  BY <1>2 DEF Chomped
<1>4. g.to - g.mid \in Nat
  BY <1>1
<1> QED BY <1>3, <1>4, FunctionIsSeq

\* One more added op is one more line at the end.
LEMMA ChompedGrows ==
    ASSUME NEW d, Fit(d), NEW a \in Nat, NEW b \in Nat, NEW p \in Nat,
           GroupOK(d, Span(a, b, p)), GroupOK(d, Span(a, b, p + 1))
    PROVE  Chomped(d, Span(a, b, p + 1)) = Append(Chomped(d, Span(a, b, p)), Chomp(LineAt(d, p)))
<1> DEFINE g == Span(a, b, p)
           h == Span(a, b, p + 1)
           s == Chomped(d, g)
           t == Chomped(d, h)
           l == Chomp(LineAt(d, p))
           n == p - b
<1>g. /\ GroupOK(d, g) /\ g.mid = b /\ g.to = p
      /\ GroupOK(d, h) /\ h.mid = b /\ h.to = p + 1
  <2>1. p + 1 \in Nat
    OBVIOUS
  <2> QED BY <2>1, SpanIs
<1> HIDE DEF g, h
<1>1. s \in Seq(Line) /\ Len(s) = n /\ n \in Nat
  BY <1>g, ChompedIs
<1>2. t \in Seq(Line) /\ Len(t) = (p + 1) - b
  BY <1>g, ChompedIs
<1>3. \A x \in 1..n : s[x] = Chomp(LineAt(d, b + x - 1))
  BY <1>g DEF Chomped
<1>4. \A x \in 1..((p + 1) - b) : t[x] = Chomp(LineAt(d, b + x - 1))
  BY <1>g DEF Chomped
<1>5. n + 1 = (p + 1) - b /\ b + (n + 1) - 1 = p /\ n + 1 \in 1..((p + 1) - b)
  BY <1>1
<1> DEFINE m == n + 1
<1>6. m = (p + 1) - b /\ b + m - 1 = p /\ m \in 1..((p + 1) - b) /\ m = n + 1
  BY <1>5
<1> HIDE DEF m
<1>7. t[m] = l
  BY <1>4, <1>6
<1> HIDE DEF s, t, l, n
<1>8. l \in Line
  <2>1. t[m] \in Line
    BY <1>2, <1>6, ElementOfSeq
  <2> QED BY <1>7, <2>1
<1>9. Append(s, l) \in Seq(Line) /\ Len(Append(s, l)) = m /\ Append(s, l)[m] = l
      /\ \A x \in 1..n : Append(s, l)[x] = s[x]
  <2>1. n + 1 = m
    BY <1>6
  <2>2. Append(s, l) \in Seq(Line) /\ Len(Append(s, l)) = n + 1
    BY <1>1, <1>8, AppendProperties
  <2>3. Append(s, l)[n + 1] = l /\ \A x \in 1..n : Append(s, l)[x] = s[x]
    BY <1>1, <1>8, AppendProperties
  <2> QED BY <2>1, <2>2, <2>3
<1>10. \A x \in 1..m : t[x] = Append(s, l)[x]
  <2> TAKE x \in 1..m
  <2>1. CASE x = m
    BY <1>7, <1>9, <2>1
  <2>2. CASE x # m
    <3>1. x \in 1..n /\ x \in 1..((p + 1) - b)
      BY <1>1, <1>6, <2>2
    <3>2. t[x] = Chomp(LineAt(d, b + x - 1)) /\ s[x] = Chomp(LineAt(d, b + x - 1))
      BY <1>3, <1>4, <3>1
    <3> QED BY <1>9, <3>1, <3>2
  <2> QED BY <2>1, <2>2
<1>11. t = Append(s, l)
  BY <1>2, <1>6, <1>9, <1>10, SeqEqual
<1> QED BY <1>11 DEF s, t, l, g, h

\* The change for a span.
LEMMA ChangeSpan ==
    ASSUME NEW d, NEW a \in Nat, NEW b \in Nat, NEW c \in Nat
    PROVE  ChangeOf(d, Span(a, b, c))
           = [old_start |-> IF a = b THEN 0 ELSE OldBefore(d, a) + 1, old_count |-> b - a,
              append_after |-> OldBefore(d, a), added |-> Chomped(d, Span(a, b, c))]
<1> DEFINE g == Span(a, b, c)
<1>1. g.from = a /\ g.mid = b
  BY SpanIs
<1> HIDE DEF g
<1>2. ChangeOf(d, g)
      = [old_start |-> IF a = b THEN 0 ELSE OldBefore(d, a) + 1, old_count |-> b - a,
         append_after |-> OldBefore(d, a), added |-> Chomped(d, g)]
  BY <1>1 DEF ChangeOf
<1> QED BY <1>2 DEF g

\* A change begun, as Started has it.
Fresh(m, n) == [NoChange EXCEPT !.old_start = m, !.append_after = n]

\* A change that was begun and has no line.
LEMMA FreshIs ==
    ASSUME NEW m, NEW n
    PROVE  Fresh(m, n) = [old_start |-> m, old_count |-> 0, append_after |-> n, added |-> <<>>]
<1> DEFINE half == [NoChange EXCEPT !.old_start = m]
<1>1. half = [old_start |-> m, old_count |-> 0, append_after |-> 0, added |-> <<>>]
  BY DEF NoChange
<1>2. Fresh(m, n) = [half EXCEPT !.append_after = n]
  BY DEF NoChange, Fresh
<1> HIDE DEF half
<1> QED BY <1>1, <1>2

\* A group without added lines records none.
LEMMA NoneChomped ==
    ASSUME NEW d, NEW a \in Nat, NEW p \in Nat
    PROVE  Chomped(d, Span(a, p, p)) = <<>>
<1>1. 1..(p - p) = {}
  OBVIOUS
<1>2. Chomped(d, Span(a, p, p)) = [x \in {} |-> Chomp(LineAt(d, p + x - 1))]
  BY <1>1, SpanIs DEF Chomped
<1>3. Len(<<>>) = 0 /\ <<>> \in Seq({})
  OBVIOUS
<1> DEFINE f == [x \in {} |-> Chomp(LineAt(d, p + x - 1))]
<1>4. f \in Seq({}) /\ Len(f) = 0
  <2>1. 1..0 = {}
    OBVIOUS
  <2>2. f \in [1..0 -> {}]
    BY <2>1
  <2> HIDE DEF f
  <2> QED BY <2>2, FunctionIsSeq
<1>5. f = <<>>
  <2> HIDE DEF f
  <2> QED BY <1>4, EmptySeq
<1> QED BY <1>2, <1>5

\* The first op of a group, and one more.
LEMMA DelBegins ==
    ASSUME NEW d, Fit(d), NEW p \in 1..Len(d.ops), NEW c,
           c = Fresh(OldBefore(d, p) + 1, OldBefore(d, p))
    PROVE  [c EXCEPT !.old_count = @ + 1] = ChangeOf(d, Span(p, p + 1, p + 1))
<1>1. p \in Nat /\ p + 1 \in Nat /\ (p + 1) - p = 1 /\ p # p + 1
  BY OpsAre
<1>2. c = [old_start |-> OldBefore(d, p) + 1, old_count |-> 0,
           append_after |-> OldBefore(d, p), added |-> <<>>]
  BY FreshIs
<1>3. Chomped(d, Span(p, p + 1, p + 1)) = <<>>
  BY <1>1, NoneChomped
<1>4. ChangeOf(d, Span(p, p + 1, p + 1))
      = [old_start |-> OldBefore(d, p) + 1, old_count |-> 1,
         append_after |-> OldBefore(d, p), added |-> <<>>]
  BY <1>1, <1>3, ChangeSpan
<1> QED BY <1>2, <1>4

\* One more removed line is one more in the count (line_cb).
LEMMA DelGoesOn ==
    ASSUME NEW d, NEW a \in Nat, NEW p \in Nat, a < p, NEW c, c = ChangeOf(d, Span(a, p, p))
    PROVE  [c EXCEPT !.old_count = @ + 1] = ChangeOf(d, Span(a, p + 1, p + 1))
<1>1. p + 1 \in Nat /\ (p + 1) - a = (p - a) + 1 /\ a # p /\ a # p + 1
  OBVIOUS
<1>2. c = [old_start |-> OldBefore(d, a) + 1, old_count |-> p - a,
           append_after |-> OldBefore(d, a), added |-> <<>>]
  BY <1>1, NoneChomped, ChangeSpan
<1>3. ChangeOf(d, Span(a, p + 1, p + 1))
      = [old_start |-> OldBefore(d, a) + 1, old_count |-> (p - a) + 1,
         append_after |-> OldBefore(d, a), added |-> <<>>]
  BY <1>1, NoneChomped, ChangeSpan
<1> QED BY <1>2, <1>3

\* A change that begins with an added line (line_cb).
LEMMA AddBegins ==
    ASSUME NEW d, Fit(d), NEW p \in 1..Len(d.ops), GroupOK(d, Span(p, p, p + 1)), NEW c,
           c = Fresh(0, OldBefore(d, p)), NEW l, l = LineAt(d, p)
    PROVE  [c EXCEPT !.added = Append(@, Chomp(l))] = ChangeOf(d, Span(p, p, p + 1))
<1>1. p \in Nat /\ p + 1 \in Nat /\ p - p = 0
  BY OpsAre
<1>2. c = [old_start |-> 0, old_count |-> 0,
           append_after |-> OldBefore(d, p), added |-> <<>>]
  BY FreshIs
<1>3. GroupOK(d, Span(p, p, p))
  <2>1. p <= Len(d.ops) + 1 /\ 1 <= p /\ \A q \in 1..Len(d.ops) : ~(p <= q /\ q < p)
    BY <1>1, OpsAre
  <2> DEFINE g == Span(p, p, p)
  <2>2. g \in Group /\ g.from = p /\ g.mid = p /\ g.to = p
    BY <1>1, SpanIs
  <2> HIDE DEF g
  <2>3. GroupOK(d, g)
    BY <1>1, <2>1, <2>2 DEF GroupOK
  <2> QED BY <2>3 DEF g
<1>4. Chomped(d, Span(p, p, p + 1)) = Append(<<>>, Chomp(l))
  <2>1. Chomped(d, Span(p, p, p)) = <<>>
    BY <1>1, NoneChomped
  <2>2. Chomped(d, Span(p, p, p + 1)) = Append(Chomped(d, Span(p, p, p)), Chomp(LineAt(d, p)))
    BY <1>1, <1>3, ChompedGrows
  <2> QED BY <2>1, <2>2
<1>5. ChangeOf(d, Span(p, p, p + 1))
      = [old_start |-> 0, old_count |-> 0,
         append_after |-> OldBefore(d, p), added |-> Append(<<>>, Chomp(l))]
  BY <1>1, <1>4, ChangeSpan
<1> QED BY <1>2, <1>5

\* A change with one line more.
WithLine(c, l) == [c EXCEPT !.added = Append(@, Chomp(l))]

\* One more added line in a change that is under way (line_cb).
LEMMA AddGoesOn ==
    ASSUME NEW d, Fit(d), NEW a \in Nat, NEW b \in Nat, NEW p \in Nat,
           GroupOK(d, Span(a, b, p)), GroupOK(d, Span(a, b, p + 1))
    PROVE  WithLine(ChangeOf(d, Span(a, b, p)), LineAt(d, p)) = ChangeOf(d, Span(a, b, p + 1))
<1> DEFINE c == ChangeOf(d, Span(a, b, p))
           l == LineAt(d, p)
           s == IF a = b THEN 0 ELSE OldBefore(d, a) + 1
           n == b - a
           m == OldBefore(d, a)
           u == Chomped(d, Span(a, b, p))
           w == Append(u, Chomp(l))
<1>1. p + 1 \in Nat
  OBVIOUS
<1>2. c = [old_start |-> s, old_count |-> n, append_after |-> m, added |-> u]
  BY ChangeSpan
<1>3. Chomped(d, Span(a, b, p + 1)) = w
  BY ChompedGrows
<1>4. ChangeOf(d, Span(a, b, p + 1))
      = [old_start |-> s, old_count |-> n, append_after |-> m,
         added |-> Chomped(d, Span(a, b, p + 1))]
  BY <1>1, ChangeSpan
<1>5. Append(c.added, Chomp(l)) = w
  <2>1. c.added = u
    <3> HIDE DEF s, n, m, u
    <3> QED BY <1>2
  <2> QED BY <2>1
<1> HIDE DEF s, n, m, u, w, c
<1>6. [c EXCEPT !.added = w] = [old_start |-> s, old_count |-> n, append_after |-> m, added |-> w]
  BY <1>2
<1>7. WithLine(c, l) = [c EXCEPT !.added = Append(@, Chomp(l))]
  BY DEF WithLine
<1> QED BY <1>3, <1>4, <1>5, <1>6, <1>7 DEF c

-----------------------------------------------------------------------------
(* The state between two callbacks.                                        *)

\* The first n groups are in the list of changes.
Records(cs, d, g, n) == AnySeq(cs) /\ Len(cs) = n /\ \A j \in 1..n : cs[j] = ChangeOf(d, g[j])

\* The groups before op p: the last one may be under way, if it ends there.
Recorded(cs, open, cur, d, g, p) ==
    /\ open \in BOOLEAN
    /\ open => /\ g # <<>> /\ g[Len(g)].to = p /\ cur = ChangeOf(d, g[Len(g)])
               /\ Records(cs, d, g, Len(g) - 1)
    /\ ~open => cur = NoChange /\ Records(cs, d, g, Len(g))

\* What is to come: op p and on, perhaps after the marker of a missing newline, or,
\* with the hunk header taken, the line of op p.
Coming(es, open, old, d, p) ==
    \/ /\ es \in {Rest(d, p), <<EofEvent>> \o Rest(d, p)}
       /\ Shown(d, p - 1) => old = OldBefore(d, p)
    \/ p <= Len(d.ops) /\ es = AtOp(d, p) /\ ~open /\ old = OldBefore(d, p)

\* Between two callbacks: what is gathered up to op p, recorded, and yet to come.
Diffing ==
    \E p, g : /\ Gathered(deltas[at], g, p)
              /\ Recorded(changes, in_change, current, deltas[at], g, p)
              /\ Coming(events, in_change, last_old, deltas[at], p)

\* The first callback still to come.
HunkComes(es, d, p, q) ==
    /\ q \in 1..Len(d.ops) /\ p <= q
    /\ \A x \in 1..Len(d.ops) : p <= x /\ x < q => d.ops[x] = "keep"
    /\ Head(es) = HunkEvent(d, q) /\ Tail(es) = AtOp(d, q)
    /\ Shown(d, q) /\ ~Shown(d, q - 1)

\* The next callback is for op p, or for the end of a file without a line feed before p.
OpComes(es, old, d, p) ==
    /\ p \in 1..Len(d.ops) /\ Head(es) = OpEvent(d, p) /\ Tail(es) = AfterOp(d, p)
    /\ old = OldBefore(d, p)
EofComes(es, old, d, p) ==
    /\ Head(es) = EofEvent /\ Tail(es) = Rest(d, p)
    /\ Shown(d, p - 1) => old = OldBefore(d, p)

\* The callbacks of one op: its line, then perhaps the missing line feed.
LEMMA AtOpIs ==
    ASSUME NEW d, Fit(d), NEW p \in 1..Len(d.ops)
    PROVE  /\ AfterOp(d, p) \in {Rest(d, p + 1), <<EofEvent>> \o Rest(d, p + 1)}
           /\ AtOp(d, p) \in Seq(AnEvent) /\ AtOp(d, p) # <<>>
           /\ Head(AtOp(d, p)) = OpEvent(d, p) /\ Tail(AtOp(d, p)) = AfterOp(d, p)
<1>1. EofEvent \in AnEvent /\ OpEvent(d, p) \in AnEvent
  BY EventTypes
<1>2. Rest(d, p + 1) \in Seq(AnEvent)
  <2>1. p + 1 \in 1..(Len(d.ops) + 1)
    BY OpsAre
  <2> QED BY <2>1, EventsAre
<1>3. AfterOp(d, p) = Rest(d, p + 1) \/ AfterOp(d, p) = <<EofEvent>> \o Rest(d, p + 1)
  BY <1>2, ConcatEmptySeq DEF AfterOp
<1>4. <<EofEvent>> \o Rest(d, p + 1) \in Seq(AnEvent)
  BY <1>1, <1>2, HeadAndTail
<1>5. AfterOp(d, p) \in Seq(AnEvent)
  BY <1>2, <1>3, <1>4
<1>6. AtOp(d, p) \in Seq(AnEvent) /\ AtOp(d, p) # <<>>
      /\ Head(AtOp(d, p)) = OpEvent(d, p) /\ Tail(AtOp(d, p)) = AfterOp(d, p)
  BY <1>1, <1>5, HeadAndTail DEF AtOp
<1> QED BY <1>3, <1>6

\* The next callback is a hunk, a line or a missing line feed.
LEMMA Arrives ==
    ASSUME NEW d, Fit(d), NEW p \in 1..(Len(d.ops) + 1), NEW es, NEW open, NEW old,
           Coming(es, open, old, d, p), es # <<>>
    PROVE  \/ \E q : HunkComes(es, d, p, q)
           \/ OpComes(es, old, d, p)
           \/ EofComes(es, old, d, p)
<1>1. Len(d.ops) \in Nat /\ p \in Nat
  BY OpsAre
<1>2. CASE es = Rest(d, p) /\ (Shown(d, p - 1) => old = OldBefore(d, p))
  <2>1. PICK q : ShownNext(d, p, q)
    BY <1>2, NextShown
  <2>2. /\ q \in 1..Len(d.ops) /\ p <= q /\ Shown(d, q)
        /\ \A x \in 1..Len(d.ops) : p <= x /\ x < q => ~Shown(d, x)
        /\ Rest(d, p) = IF Shown(d, q - 1) THEN AtOp(d, q) ELSE <<HunkEvent(d, q)>> \o AtOp(d, q)
    BY <2>1 DEF ShownNext
  <2>3. CASE Shown(d, q - 1)
    <3>1. p = q
      <4> SUFFICES ASSUME p # q PROVE FALSE
        OBVIOUS
      <4>1. q - 1 \in 1..Len(d.ops) /\ p <= q - 1 /\ q - 1 < q
        BY <1>1, <2>2
      <4> QED BY <2>2, <2>3, <4>1
    <3> QED BY <1>2, <2>2, <2>3, <3>1, AtOpIs DEF OpComes
  <2>4. CASE ~Shown(d, q - 1)
    <3>1. HunkEvent(d, q) \in AnEvent /\ AtOp(d, q) \in Seq(AnEvent)
      BY <2>2, EventTypes, AtOpIs
    <3>2. Head(es) = HunkEvent(d, q) /\ Tail(es) = AtOp(d, q)
      BY <1>2, <2>2, <2>4, <3>1, HeadAndTail
    <3>3. \A x \in 1..Len(d.ops) : p <= x /\ x < q => d.ops[x] = "keep"
      BY <2>2, ShownIs
    <3>4. HunkComes(es, d, p, q)
      BY <2>2, <2>4, <3>2, <3>3 DEF HunkComes
    <3> QED BY <3>4
  <2> QED BY <2>3, <2>4
<1>3. CASE es = <<EofEvent>> \o Rest(d, p) /\ (Shown(d, p - 1) => old = OldBefore(d, p))
  <2>1. EofEvent \in AnEvent /\ Rest(d, p) \in Seq(AnEvent)
    BY EventTypes, EventsAre
  <2>2. Head(es) = EofEvent /\ Tail(es) = Rest(d, p)
    BY <1>3, <2>1, HeadAndTail
  <2> QED BY <1>3, <2>2 DEF EofComes
<1>4. CASE p <= Len(d.ops) /\ es = AtOp(d, p) /\ ~open /\ old = OldBefore(d, p)
  <2>1. p \in 1..Len(d.ops)
    BY <1>1, <1>4
  <2> QED BY <1>4, <2>1, AtOpIs DEF OpComes
<1> QED BY <1>2, <1>3, <1>4 DEF Coming

\* The kind and the number of each callback.
LEMMA KindsAre ==
    ASSUME NEW d, Fit(d)
    PROVE  /\ EofEvent.kind = "eofnl"
           /\ \A q : HunkEvent(d, q).kind = "hunk" /\ HunkEvent(d, q).no = HunkStart(d, q)
           /\ \A p \in 1..Len(d.ops) :
                 /\ OpEvent(d, p).kind = d.ops[p] /\ d.ops[p] \in {"keep", "del", "add"}
                 /\ OpEvent(d, p).line = LineAt(d, p)
                 /\ d.ops[p] # "add" => OpEvent(d, p).no = OldBefore(d, p) + 1
<1>1. ASSUME NEW p \in 1..Len(d.ops)
      PROVE  /\ OpEvent(d, p).kind = d.ops[p] /\ d.ops[p] \in {"keep", "del", "add"}
             /\ OpEvent(d, p).line = LineAt(d, p)
             /\ d.ops[p] # "add" => OpEvent(d, p).no = OldBefore(d, p) + 1
  BY OpsAre DEF OpEvent, Event
<1> QED BY <1>1 DEF EofEvent, HunkEvent, Event

\* A callback of a line is for op p.
LEMMA OpIncoming ==
    ASSUME NEW d, Fit(d), NEW p \in 1..(Len(d.ops) + 1),
           Coming(events, in_change, last_old, d, p),
           NEW kind \in {"keep", "del", "add"}, Incoming(kind)
    PROVE  OpComes(events, last_old, d, p) /\ d.ops[p] = kind
<1>1. events # <<>> /\ Head(events).kind = kind
  BY DEF Incoming
<1>2. ASSUME NEW q, HunkComes(events, d, p, q) PROVE FALSE
  BY <1>1, <1>2, KindsAre DEF HunkComes
<1>3. ~EofComes(events, last_old, d, p)
  BY <1>1, KindsAre DEF EofComes
<1>4. OpComes(events, last_old, d, p)
  BY <1>1, <1>2, <1>3, Arrives
<1> QED BY <1>1, <1>4, KindsAre DEF OpComes

\* No group is recorded by no change.
LEMMA NoneRecorded == ASSUME NEW d PROVE Records(<<>>, d, <<>>, 0)
<1>1. <<>> \in Seq({}) /\ Len(<<>>) = 0 /\ 1..0 = {}
  OBVIOUS
<1> QED BY <1>1 DEF Records, AnySeq

\* The change under way is added to the list.
LEMMA RecordsMore ==
    ASSUME NEW d, NEW g, NEW n \in Nat, NEW cs, Records(cs, d, g, n),
           NEW c, c = ChangeOf(d, g[n + 1])
    PROVE  Records(Append(cs, c), d, g, n + 1)
<1>1. PICK S : cs \in Seq(S)
  BY DEF Records, AnySeq
<1>2. cs \in Seq(S \cup {c}) /\ Len(cs) = n
  BY <1>1, SeqMonotonic DEF Records
<1> DEFINE t == Append(cs, c)
<1>3. t \in Seq(S \cup {c}) /\ Len(t) = n + 1 /\ t[n + 1] = c /\ \A j \in 1..n : t[j] = cs[j]
  BY <1>2
<1> HIDE DEF t
<1>4. ASSUME NEW j \in 1..(n + 1) PROVE t[j] = ChangeOf(d, g[j])
  <2>1. CASE j = n + 1
    BY <1>3, <2>1
  <2>2. CASE j # n + 1
    <3>1. j \in 1..n
      BY <2>2
    <3> QED BY <1>3, <3>1 DEF Records
  <2> QED BY <2>1, <2>2
<1>5. Records(t, d, g, n + 1)
  BY <1>3, <1>4 DEF Records, AnySeq
<1> QED BY <1>5 DEF t

\* The flush appends the open change, so that all groups are in the list.
LEMMA FlushRecords ==
    ASSUME NEW d, NEW g, Len(g) \in Nat, NEW p, Recorded(changes, in_change, current, d, g, p),
           g # <<>> => Len(g) # 0, flush
    PROVE  in_change' = FALSE /\ current' = NoChange /\ Records(changes', d, g, Len(g))
<1>1. CASE in_change
  <2>1. g # <<>> /\ current = ChangeOf(d, g[Len(g)]) /\ Records(changes, d, g, Len(g) - 1)
    BY <1>1 DEF Recorded
  <2>2. Len(g) - 1 \in Nat /\ (Len(g) - 1) + 1 = Len(g)
    BY <2>1
  <2>3. Records(Append(changes, current), d, g, Len(g))
    BY <2>1, <2>2, RecordsMore
  <2> QED BY <1>1, <2>3 DEF flush
<1>2. CASE ~in_change
  BY <1>2 DEF flush, Recorded
<1> QED BY <1>1, <1>2

-----------------------------------------------------------------------------
(* The callbacks keep the state between them.                              *)

\* What is gathered is a list of groups.
LEMMA GatheredIs ==
    ASSUME NEW d, NEW g, NEW p, Gathered(d, g, p)
    PROVE  /\ p \in 1..(Len(d.ops) + 1) /\ Len(g) \in Nat /\ (g # <<>> <=> Len(g) # 0)
           /\ g \in Seq(Group)
           /\ \A j \in 1..Len(g) : GroupOK(d, g[j]) /\ g[j].from < g[j].to
           /\ g # <<>> => /\ GroupOK(d, g[Len(g)]) /\ g[Len(g)].from < g[Len(g)].to
                          /\ g[Len(g)] \in Group
<1>1. g \in Seq(Group)
  BY DEF Gathered
<1>2. Len(g) \in Nat /\ (g # <<>> <=> Len(g) # 0)
  BY <1>1, LenProperties, EmptySeq
<1>3. g # <<>> => Len(g) \in 1..Len(g)
  BY <1>2
<1> QED BY <1>1, <1>2, <1>3 DEF Gathered, GroupOK

\* What a callback does to the state between two callbacks.
Step(d) == deltas' = deltas /\ at' = at /\ d = deltas[at]

\* The state after a callback, from its parts.
LEMMA DiffingNext ==
    ASSUME NEW d, Step(d), NEW g, NEW p, Gathered(d, g, p),
           Recorded(changes', in_change', current', d, g, p),
           Coming(events', in_change', last_old', d, p)
    PROVE  Diffing'
BY DEF Step, Diffing

\* hunk_cb: a hunk begins behind lines of context.
LEMMA HunkCbDiffs ==
    ASSUME Diffing, Fit(deltas[at]), HunkCb
    PROVE  Diffing'
<1> DEFINE d == deltas[at]
<1>1. PICK p, g : /\ Gathered(d, g, p) /\ Recorded(changes, in_change, current, d, g, p)
                  /\ Coming(events, in_change, last_old, d, p)
  BY DEF Diffing
<1>2. /\ Step(d) /\ events' = Tail(events) /\ events # <<>> /\ Head(events).kind = "hunk"
      /\ flush /\ last_old' = IF Head(events).no > 0 THEN Head(events).no - 1 ELSE 0
  BY DEF HunkCb, Incoming, Take, Step, diff
<1>f. Fit(d)
  OBVIOUS
<1> HIDE DEF d
<1>3. p \in 1..(Len(d.ops) + 1) /\ Len(g) \in Nat /\ (g # <<>> => Len(g) # 0)
  BY <1>1, GatheredIs
<1>4. PICK q : HunkComes(events, d, p, q)
  <2>1. ~OpComes(events, last_old, d, p)
    BY <1>2, <1>f, KindsAre DEF OpComes
  <2>2. ~EofComes(events, last_old, d, p)
    BY <1>2, <1>f, KindsAre DEF EofComes
  <2> QED BY <1>1, <1>2, <1>3, <1>f, <2>1, <2>2, Arrives
<1>5. q \in 1..Len(d.ops) /\ p <= q /\ q \in 1..(Len(d.ops) + 1) /\ q <= Len(d.ops)
  BY <1>4, <1>f, OpsAre DEF HunkComes
<1>6. Gathered(d, g, q)
  BY <1>1, <1>4, <1>5, <1>f, GatherKept DEF HunkComes
<1>7. in_change' = FALSE /\ current' = NoChange /\ Records(changes', d, g, Len(g))
  BY <1>1, <1>2, <1>3, FlushRecords
<1>8. last_old' = OldBefore(d, q)
  <2>1. Head(events).no = HunkStart(d, q) /\ Shown(d, q) /\ ~Shown(d, q - 1)
    BY <1>4, <1>f, KindsAre DEF HunkComes
  <2> QED BY <1>2, <1>5, <1>f, <2>1, HunkBegins
<1>9. Recorded(changes', in_change', current', d, g, q)
  BY <1>7 DEF Recorded
<1>10. Coming(events', in_change', last_old', d, q)
  BY <1>2, <1>4, <1>5, <1>7, <1>8 DEF Coming, HunkComes
<1> QED BY <1>2, <1>6, <1>9, <1>10, DiffingNext

\* line_cb for a missing line feed: nothing but the flush of the open change.
LEMMA EofNlDiffs ==
    ASSUME Diffing, Fit(deltas[at]), EofNl
    PROVE  Diffing'
<1> DEFINE d == deltas[at]
<1>1. PICK p, g : /\ Gathered(d, g, p) /\ Recorded(changes, in_change, current, d, g, p)
                  /\ Coming(events, in_change, last_old, d, p)
  BY DEF Diffing
<1>2. /\ Step(d) /\ events' = Tail(events) /\ events # <<>> /\ Head(events).kind = "eofnl"
      /\ changes' = changes /\ in_change' = in_change /\ current' = current
      /\ last_old' = last_old
  BY DEF EofNl, Incoming, Take, Step, diff, payload
<1>f. Fit(d)
  OBVIOUS
<1> HIDE DEF d
<1>3. p \in 1..(Len(d.ops) + 1)
  BY <1>1, GatheredIs
<1>4. EofComes(events, last_old, d, p)
  <2>1. ~OpComes(events, last_old, d, p)
    BY <1>2, <1>f, KindsAre DEF OpComes
  <2>2. ASSUME NEW q, HunkComes(events, d, p, q) PROVE FALSE
    BY <1>2, <1>f, <2>2, KindsAre DEF HunkComes
  <2> QED BY <1>1, <1>2, <1>3, <1>f, <2>1, <2>2, Arrives
<1>5. Coming(events', in_change', last_old', d, p)
  BY <1>2, <1>4 DEF Coming, EofComes
<1> QED BY <1>1, <1>2, <1>5, DiffingNext

\* After the line of op p.
LEMMA OpTaken ==
    ASSUME NEW d, Fit(d), NEW p \in 1..Len(d.ops), NEW old, old = OldBefore(d, p + 1),
           NEW es, es = AfterOp(d, p), NEW open
    PROVE  Coming(es, open, old, d, p + 1)
<1>1. AfterOp(d, p) \in {Rest(d, p + 1), <<EofEvent>> \o Rest(d, p + 1)}
  BY AtOpIs
<1> QED BY <1>1 DEF Coming

\* line_cb for a line of context.
LEMMA ContextDiffs ==
    ASSUME Diffing, Fit(deltas[at]), Context
    PROVE  Diffing'
<1> DEFINE d == deltas[at]
<1>1. PICK p, g : /\ Gathered(d, g, p) /\ Recorded(changes, in_change, current, d, g, p)
                  /\ Coming(events, in_change, last_old, d, p)
  BY DEF Diffing
<1>2. /\ Step(d) /\ events' = Tail(events) /\ Incoming("keep")
      /\ flush /\ last_old' = Head(events).no
  BY DEF Context, Take, Step, diff
<1>f. Fit(d)
  OBVIOUS
<1> HIDE DEF d
<1>3. p \in 1..(Len(d.ops) + 1) /\ Len(g) \in Nat /\ (g # <<>> => Len(g) # 0)
  BY <1>1, GatheredIs
<1>4. OpComes(events, last_old, d, p) /\ d.ops[p] = "keep"
  BY <1>1, <1>2, <1>3, <1>f, OpIncoming
<1>5. p \in 1..Len(d.ops) /\ p + 1 \in 1..(Len(d.ops) + 1) /\ p <= p + 1
  BY <1>4, <1>f, OpsAre DEF OpComes
<1>6. Gathered(d, g, p + 1)
  <2>1. \A x \in 1..Len(d.ops) : p <= x /\ x < p + 1 => x = p
    BY <1>5
  <2>2. \A x \in 1..Len(d.ops) : p <= x /\ x < p + 1 => d.ops[x] = "keep"
    BY <1>4, <2>1
  <2> QED BY <1>1, <1>5, <1>f, <2>2, GatherKept
<1>7. in_change' = FALSE /\ current' = NoChange /\ Records(changes', d, g, Len(g))
  BY <1>1, <1>2, <1>3, FlushRecords
<1>8. last_old' = OldBefore(d, p + 1)
  <2>1. last_old' = OldBefore(d, p) + 1
    BY <1>2, <1>4, <1>5, <1>f, KindsAre DEF OpComes
  <2> QED BY <1>4, <1>5, <1>f, <2>1, BeforeIs
<1>9. Recorded(changes', in_change', current', d, g, p + 1)
  BY <1>7 DEF Recorded
<1>10. Coming(events', in_change', last_old', d, p + 1)
  BY <1>2, <1>4, <1>5, <1>8, <1>f, OpTaken DEF OpComes
<1> QED BY <1>2, <1>6, <1>9, <1>10, DiffingNext

\* Where the group under way, or a new one, stands before op p.
LEMMA GroupGrows ==
    ASSUME NEW d, Fit(d), NEW g, NEW p, Gathered(d, g, p), p \in 1..Len(d.ops),
           d.ops[p] \in {"del", "add"},
           NEW a \in Nat, NEW b \in Nat,
           \/ a = p /\ b = p
           \/ g # <<>> /\ g[Len(g)] = Span(a, b, p)
    PROVE  /\ d.ops[p] = "del" => b = p /\ GroupOK(d, Span(a, p + 1, p + 1)) /\ a <= p
           /\ d.ops[p] = "add" => GroupOK(d, Span(a, b, p + 1)) /\ a <= p
<1>1. Len(d.ops) \in Nat /\ p \in Nat /\ p + 1 \in Nat
  BY OpsAre
<1>2. /\ 1 <= a /\ a <= b /\ b <= p
      /\ \A q \in 1..Len(d.ops) : /\ a <= q /\ q < b => d.ops[q] = "del"
                                  /\ b <= q /\ q < p => d.ops[q] = "add"
  <2>1. CASE a = p /\ b = p
    BY <1>1, <2>1
  <2>2. CASE g # <<>> /\ g[Len(g)] = Span(a, b, p)
    <3> DEFINE s == Span(a, b, p)
    <3>1. GroupOK(d, s) /\ s.from = a /\ s.mid = b /\ s.to = p
      BY <1>1, <2>2, GatheredIs, SpanIs
    <3> HIDE DEF s
    <3> QED BY <3>1 DEF GroupOK
  <2> QED BY <2>1, <2>2
<1>3. ASSUME d.ops[p] = "del" PROVE b = p
  <2> SUFFICES ASSUME b # p PROVE FALSE
    OBVIOUS
  <2>1. p - 1 \in 1..Len(d.ops) /\ p - 1 \in 1..(Len(d.ops) - 1) /\ (p - 1) + 1 = p
        /\ b <= p - 1 /\ p - 1 < p
    BY <1>1, <1>2
  <2>2. d.ops[p - 1] = "add"
    BY <1>2, <2>1
  <2> QED BY <1>3, <2>1, <2>2 DEF Fit, Possible
<1>4. ASSUME d.ops[p] = "del" PROVE GroupOK(d, Span(a, p + 1, p + 1))
  <2> DEFINE s == Span(a, p + 1, p + 1)
  <2>1. s \in Group /\ s.from = a /\ s.mid = p + 1 /\ s.to = p + 1
    BY <1>1, SpanIs
  <2>2. \A q \in 1..Len(d.ops) : /\ a <= q /\ q < p + 1 => d.ops[q] = "del"
                                 /\ ~(p + 1 <= q /\ q < p + 1)
    <3> TAKE q \in 1..Len(d.ops)
    <3>1. q < p + 1 <=> q < p \/ q = p
      BY <1>1
    <3> QED BY <1>1, <1>2, <1>3, <1>4, <3>1
  <2> HIDE DEF s
  <2>3. GroupOK(d, s)
    BY <1>1, <1>2, <2>1, <2>2 DEF GroupOK
  <2> QED BY <2>3 DEF s
<1>5. ASSUME d.ops[p] = "add" PROVE GroupOK(d, Span(a, b, p + 1))
  <2> DEFINE s == Span(a, b, p + 1)
  <2>1. s \in Group /\ s.from = a /\ s.mid = b /\ s.to = p + 1
    BY <1>1, SpanNext, SMTT(30)
  <2>2. \A q \in 1..Len(d.ops) : /\ a <= q /\ q < b => d.ops[q] = "del"
                                 /\ b <= q /\ q < p + 1 => d.ops[q] = "add"
    <3> TAKE q \in 1..Len(d.ops)
    <3>1. q < p + 1 <=> q < p \/ q = p
      BY <1>1
    <3> QED BY <1>2, <1>5, <3>1
  <2> HIDE DEF s
  <2>3. GroupOK(d, s)
    BY <1>1, <1>2, <2>1, <2>2 DEF GroupOK
  <2> QED BY <2>3 DEF s
<1>6. a <= p
  BY <1>1, <1>2
<1> QED BY <1>3, <1>4, <1>5, <1>6

\* Only the groups recorded matter.
LEMMA RecordsAgree ==
    ASSUME NEW d, NEW g, NEW h, NEW n, NEW cs, Records(cs, d, g, n), \A j \in 1..n : h[j] = g[j]
    PROVE  Records(cs, d, h, n)
BY DEF Records

\* Op p goes into a group, which is under way then.
LEMMA GrowDiffs ==
    ASSUME NEW d, Fit(d), Step(d), NEW g, NEW p, Gathered(d, g, p), p \in 1..Len(d.ops),
           Recorded(changes, in_change, current, d, g, p),
           NEW n \in Nat,
           NEW a \in Nat, NEW b \in Nat, GroupOK(d, Span(a, b, p + 1)), a <= p,
           \/ n = Len(g) /\ ~in_change /\ a = p
           \/ n + 1 = Len(g) /\ in_change /\ g[n + 1].from = a /\ g[n + 1].to = p,
           changes' = changes, in_change' = TRUE, current' = ChangeOf(d, Span(a, b, p + 1)),
           events' = AfterOp(d, p), last_old' = OldBefore(d, p + 1)
    PROVE  Diffing'
<1> DEFINE x == Span(a, b, p + 1)
           h == Append(SubSeq(g, 1, n), x)
<1>1. p \in Nat /\ p + 1 \in Nat /\ Len(g) \in Nat
  BY OpsAre, GatheredIs
<1>2. GroupOK(d, x) /\ x.from = a /\ x.to = p + 1 /\ x.from < x.to
  <2>1. GroupOK(d, x)
    OBVIOUS
  <2>2. x.from = a /\ x.to = p + 1
    BY <1>1, SpanNext, SMTT(30)
  <2> HIDE DEF x
  <2> QED BY <1>1, <2>1, <2>2
<1>c. current' = ChangeOf(d, x)
  OBVIOUS
<1> HIDE DEF x
<1>3. /\ Gathered(d, h, p + 1) /\ Len(h) = n + 1 /\ h[n + 1] = x
      /\ \A j \in 1..n : h[j] = g[j]
  BY <1>2, GatherGroup
<1> HIDE DEF h
<1>4. Records(changes, d, g, n)
  <2>1. n + 1 = Len(g) => n = Len(g) - 1
    BY <1>1
  <2> QED BY <2>1 DEF Recorded
<1>5. Records(changes', d, h, n)
  BY <1>3, <1>4, RecordsAgree
<1>6. h # <<>> /\ h[Len(h)] = x /\ Len(h) - 1 = n
  <2>1. h \in Seq(Group)
    BY <1>3, GatheredIs
  <2> QED BY <1>3, <2>1, EmptySeq
<1>7. Recorded(changes', in_change', current', d, h, p + 1)
  BY <1>2, <1>5, <1>6, <1>c DEF Recorded
<1>8. Coming(events', in_change', last_old', d, p + 1)
  BY OpTaken
<1> QED BY <1>3, <1>7, <1>8, DiffingNext

\* The group under way, as Started has it.
Growing(cur, d, g, p, n, a, b) ==
    /\ n + 1 = Len(g) /\ g[n + 1] = Span(a, b, p) /\ a < p
    /\ g[n + 1].from = a /\ g[n + 1].to = p
    /\ GroupOK(d, Span(a, b, p)) /\ g # <<>> /\ g[Len(g)] = Span(a, b, p)
    /\ cur = ChangeOf(d, Span(a, b, p))

\* The open change after a callback, and the list before it.
LEMMA GrowingIs ==
    ASSUME NEW d, Fit(d), NEW g, NEW p, Gathered(d, g, p), p \in 1..Len(d.ops),
           Recorded(changes, in_change, current, d, g, p), in_change
    PROVE  \E n \in Nat, a \in Nat, b \in Nat : Growing(current, d, g, p, n, a, b)
<1> DEFINE n == Len(g) - 1
           s == g[Len(g)]
<1>1. g # <<>> /\ s.to = p /\ current = ChangeOf(d, s)
  BY DEF Recorded
<1>2. Len(g) \in Nat /\ Len(g) # 0 /\ GroupOK(d, s) /\ s.from < s.to /\ s \in Group
  BY <1>1, GatheredIs
<1>3. n \in Nat /\ n + 1 = Len(g)
  BY <1>2
<1>4. s.from \in Nat /\ s.mid \in Nat /\ s = Span(s.from, s.mid, p)
  BY <1>1, <1>2, GroupSpans DEF Group
<1>5. s = g[n + 1]
  BY <1>3
<1> HIDE DEF n, s
<1>6. g[Len(g)] = s
  BY DEF s
<1> DEFINE a == s.from
           b == s.mid
<1>7. /\ n + 1 = Len(g) /\ g[n + 1] = Span(a, b, p) /\ a < p
      /\ g[n + 1].from = a /\ g[n + 1].to = p
      /\ GroupOK(d, Span(a, b, p)) /\ g # <<>> /\ g[Len(g)] = Span(a, b, p)
      /\ current = ChangeOf(d, Span(a, b, p)) /\ a \in Nat /\ b \in Nat
  BY <1>1, <1>2, <1>3, <1>4, <1>5, <1>6
<1> HIDE DEF a, b
<1>8. Growing(current, d, g, p, n, a, b)
  BY <1>7 DEF Growing
<1> QED BY <1>3, <1>7, <1>8

\* line_cb for a removed line.
LEMMA DeletionDiffs ==
    ASSUME Diffing, Fit(deltas[at]), Deletion
    PROVE  Diffing'
<1> DEFINE d == deltas[at]
           no == Head(events).no
<1>1. PICK p, g : /\ Gathered(d, g, p) /\ Recorded(changes, in_change, current, d, g, p)
                  /\ Coming(events, in_change, last_old, d, p)
  BY DEF Diffing
<1>2. /\ Step(d) /\ events' = Tail(events) /\ Incoming("del")
      /\ current' = [Started(no, no - 1) EXCEPT !.old_count = @ + 1]
      /\ last_old' = no /\ in_change' = TRUE /\ changes' = changes
  BY DEF Deletion, Take, Step, diff
<1>f. Fit(d)
  OBVIOUS
<1> HIDE DEF d
<1>3. p \in 1..(Len(d.ops) + 1) /\ Len(g) \in Nat
  BY <1>1, GatheredIs
<1>4. OpComes(events, last_old, d, p) /\ d.ops[p] = "del"
  BY <1>1, <1>2, <1>3, <1>f, OpIncoming
<1>5. p \in 1..Len(d.ops) /\ p \in Nat /\ p + 1 \in Nat /\ p <= p
  BY <1>4, <1>f, OpsAre DEF OpComes
<1>6. no = OldBefore(d, p) + 1 /\ OldBefore(d, p) \in Nat /\ no - 1 = OldBefore(d, p)
  <2>1. no = OldBefore(d, p) + 1
    BY <1>4, <1>5, <1>f, KindsAre DEF OpComes
  <2>2. OldBefore(d, p) \in Nat
    BY <1>3, <1>f, BeforeAre
  <2> HIDE DEF no
  <2> QED BY <2>1, <2>2
<1> HIDE DEF no
<1>7. last_old' = OldBefore(d, p + 1)
  <2>1. OldBefore(d, p + 1) = OldBefore(d, p) + (IF d.ops[p] = "add" THEN 0 ELSE 1)
    BY <1>5, <1>f, BeforeIs
  <2> QED BY <1>2, <1>4, <1>6, <2>1
<1>8. events' = AfterOp(d, p)
  BY <1>2, <1>4 DEF OpComes
<1>9. CASE ~in_change
  <2>1. GroupOK(d, Span(p, p + 1, p + 1))
    BY <1>1, <1>4, <1>5, <1>f, GroupGrows
  <2>2. Started(no, no - 1) = Fresh(OldBefore(d, p) + 1, OldBefore(d, p))
    BY <1>6, <1>9 DEF Started, Fresh
  <2>3. current' = ChangeOf(d, Span(p, p + 1, p + 1))
    BY <1>2, <1>5, <1>f, <2>2, DelBegins
  <2>4. Len(g) = Len(g) /\ p = p
    OBVIOUS
  <2> QED BY <1>1, <1>2, <1>3, <1>5, <1>7, <1>8, <1>9, <1>f, <2>1, <2>3, <2>4, GrowDiffs
<1>10. CASE in_change
  <2>0. PICK n \in Nat, a \in Nat, b \in Nat : Growing(current, d, g, p, n, a, b)
    BY <1>1, <1>5, <1>10, <1>f, GrowingIs
  <2>1. /\ n + 1 = Len(g) /\ g[n + 1] = Span(a, b, p) /\ a < p
        /\ g[n + 1].from = a /\ g[n + 1].to = p
        /\ GroupOK(d, Span(a, b, p)) /\ g # <<>> /\ g[Len(g)] = Span(a, b, p)
        /\ current = ChangeOf(d, Span(a, b, p))
    BY <2>0 DEF Growing
  <2>2. b = p /\ GroupOK(d, Span(a, p + 1, p + 1)) /\ a <= p
    BY <1>1, <1>4, <1>5, <1>f, <2>1, GroupGrows
  <2>3. current' = ChangeOf(d, Span(a, p + 1, p + 1))
    <3>1. Started(no, no - 1) = current
      BY <1>10 DEF Started
    <3>2. current = ChangeOf(d, Span(a, p, p))
      BY <2>1, <2>2
    <3>3. current' = [current EXCEPT !.old_count = @ + 1]
      BY <1>2, <3>1
    <3> QED BY <1>5, <2>1, <3>2, <3>3, DelGoesOn
  <2> QED BY <1>1, <1>2, <1>3, <1>5, <1>7, <1>8, <1>10, <1>f, <2>1, <2>2, <2>3, GrowDiffs
<1> QED BY <1>9, <1>10

\* line_cb for an added line.
LEMMA AdditionDiffs ==
    ASSUME Diffing, Fit(deltas[at]), Addition
    PROVE  Diffing'
<1> DEFINE d == deltas[at]
           l == Head(events).line
<1>1. PICK p, g : /\ Gathered(d, g, p) /\ Recorded(changes, in_change, current, d, g, p)
                  /\ Coming(events, in_change, last_old, d, p)
  BY DEF Diffing
<1>2. /\ Step(d) /\ events' = Tail(events) /\ Incoming("add")
      /\ current' = [Started(0, last_old) EXCEPT !.added = Append(@, Chomp(l))]
      /\ last_old' = last_old /\ in_change' = TRUE /\ changes' = changes
  BY DEF Addition, Take, Step, diff
<1>f. Fit(d)
  OBVIOUS
<1> HIDE DEF d
<1>3. p \in 1..(Len(d.ops) + 1) /\ Len(g) \in Nat
  BY <1>1, GatheredIs
<1>4. OpComes(events, last_old, d, p) /\ d.ops[p] = "add"
  BY <1>1, <1>2, <1>3, <1>f, OpIncoming
<1>5. p \in 1..Len(d.ops) /\ p \in Nat /\ p + 1 \in Nat /\ p <= p /\ last_old = OldBefore(d, p)
  BY <1>4, <1>f, OpsAre DEF OpComes
<1>6. l = LineAt(d, p)
  BY <1>4, <1>5, <1>f, KindsAre DEF OpComes
<1> HIDE DEF l
<1>7. last_old' = OldBefore(d, p + 1)
  <2>1. OldBefore(d, p + 1) = OldBefore(d, p) + (IF d.ops[p] = "add" THEN 0 ELSE 1)
    BY <1>5, <1>f, BeforeIs
  <2>2. OldBefore(d, p) \in Nat
    BY <1>3, <1>f, BeforeAre
  <2> QED BY <1>2, <1>4, <1>5, <2>1, <2>2
<1>8. events' = AfterOp(d, p)
  BY <1>2, <1>4 DEF OpComes
<1>9. CASE ~in_change
  <2>1. GroupOK(d, Span(p, p, p + 1))
    BY <1>1, <1>4, <1>5, <1>f, GroupGrows
  <2>2. Started(0, last_old) = Fresh(0, OldBefore(d, p))
    BY <1>5, <1>9 DEF Started, Fresh
  <2>3. current' = ChangeOf(d, Span(p, p, p + 1))
    <3>1. current' = [Fresh(0, OldBefore(d, p)) EXCEPT !.added = Append(@, Chomp(l))]
      BY <1>2, <2>2
    <3> QED BY <1>5, <1>6, <1>f, <2>1, <3>1, AddBegins
  <2> QED BY <1>1, <1>2, <1>3, <1>5, <1>7, <1>8, <1>9, <1>f, <2>1, <2>3, GrowDiffs
<1>10. CASE in_change
  <2>0. PICK n \in Nat, a \in Nat, b \in Nat : Growing(current, d, g, p, n, a, b)
    BY <1>1, <1>5, <1>10, <1>f, GrowingIs
  <2>1. /\ n + 1 = Len(g) /\ g[n + 1] = Span(a, b, p) /\ a < p
        /\ g[n + 1].from = a /\ g[n + 1].to = p
        /\ GroupOK(d, Span(a, b, p)) /\ g # <<>> /\ g[Len(g)] = Span(a, b, p)
        /\ current = ChangeOf(d, Span(a, b, p))
    BY <2>0 DEF Growing
  <2>2. GroupOK(d, Span(a, b, p + 1)) /\ a <= p
    BY <1>1, <1>4, <1>5, <1>f, <2>1, GroupGrows
  <2>3. current' = ChangeOf(d, Span(a, b, p + 1))
    <3>1. Started(0, last_old) = current
      BY <1>10 DEF Started
    <3>2. current' = [current EXCEPT !.added = Append(@, Chomp(l))]
      BY <1>2, <3>1
    <3>3. GroupOK(d, Span(a, b, p)) /\ current = ChangeOf(d, Span(a, b, p))
      BY <2>1
    <3>4. WithLine(ChangeOf(d, Span(a, b, p)), LineAt(d, p)) = ChangeOf(d, Span(a, b, p + 1))
      BY <1>5, <1>f, <2>0, <2>2, <3>3, AddGoesOn
    <3>5. current' = WithLine(current, l)
      BY <3>2 DEF WithLine
    <3> QED BY <1>6, <3>3, <3>4, <3>5
  <2> QED BY <1>1, <1>2, <1>3, <1>5, <1>7, <1>8, <1>10, <1>f, <2>1, <2>2, <2>3, GrowDiffs
<1> QED BY <1>9, <1>10

\* The diff of a file begins with nothing gathered.
LEMMA BeginDiffs ==
    ASSUME Fit(deltas[at]), BeginDiff
    PROVE  Diffing'
<1> DEFINE d == deltas[at]
<1>1. /\ Step(d) /\ events' = Events(d) /\ changes' = <<>> /\ in_change' = FALSE
      /\ current' = NoChange /\ last_old' = 0
  BY DEF BeginDiff, Step, diff
<1>f. Fit(d)
  OBVIOUS
<1> HIDE DEF d
<1>2. Gathered(d, <<>>, 1)
  BY <1>f, NoneGathered
<1>3. Recorded(changes', in_change', current', d, <<>>, 1)
  <2>1. Len(<<>>) = 0
    OBVIOUS
  <2> QED BY <1>1, <2>1, NoneRecorded DEF Recorded
<1>4. Coming(events', in_change', last_old', d, 1)
  <2>1. ~Shown(d, 1 - 1)
    BY <1>f, ShownIs
  <2> QED BY <1>1, <1>f, <2>1, EventsAre DEF Coming
<1> QED BY <1>1, <1>2, <1>3, <1>4, DiffingNext

\* The changes that are still to be written are the last commands of the plan.
ToWrite(cs, d, r) ==
    /\ AnySeq(cs) /\ Len(cs) \in 0..Len(r)
    /\ \A j \in 1..Len(cs) : cs[j] = ChangeOf(d, r[Len(r) + 1 - j])

\* All groups, from the last one up.
LEMMA PlanFrom ==
    ASSUME NEW d, Fit(d), NEW g, Gathered(d, g, Len(d.ops) + 1), NEW cs, Records(cs, d, g, Len(g))
    PROVE  \E r : Plan(d, r) /\ ToWrite(cs, d, r) /\ Len(r) = Len(g)
<1> DEFINE N == Len(g)
           r == [j \in 1..N |-> g[N + 1 - j]]
<1>1. N \in Nat /\ g \in Seq(Group) /\ Len(d.ops) \in Nat
  BY GatheredIs, OpsAre
<1>2. \A j \in 1..N : N + 1 - j \in 1..N /\ N + 1 - (N + 1 - j) = j
  BY <1>1
<1>3. r \in [1..N -> Group]
  BY <1>1, <1>2
<1>4. r \in Seq(Group) /\ Len(r) = N
  BY <1>1, <1>3, FunctionIsSeq
<1>5. \A j \in 1..N : r[j] = g[N + 1 - j]
  OBVIOUS
<1> HIDE DEF r
<1>6. \A j \in 1..N : GroupOK(d, r[j])
  BY <1>2, <1>5, GatheredIs
<1>7. Descends(r)
  <2> SUFFICES ASSUME NEW j \in 1..N, NEW k \in 1..N, j < k PROVE r[k].to <= r[j].from
    BY <1>4 DEF Descends
  <2>1. N + 1 - k \in 1..N /\ N + 1 - j \in 1..N /\ N + 1 - k < N + 1 - j
    BY <1>1
  <2>2. g[N + 1 - k].to <= g[N + 1 - j].from
    BY <2>1 DEF Gathered
  <2> QED BY <1>5, <2>2
<1>8. ASSUME NEW p \in 1..Len(d.ops) PROVE Covered(d, r, p)
  <2>1. Covered(d, g, p)
    <3>1. p < Len(d.ops) + 1
      BY <1>1
    <3> QED BY <3>1 DEF Gathered
  <2>2. ASSUME NEW j \in 1..N, g[j].from <= p, p < g[j].to PROVE Covered(d, r, p)
    <3>1. N + 1 - j \in 1..Len(r) /\ r[N + 1 - j] = g[j]
      <4>1. N + 1 - j \in 1..N /\ N + 1 - (N + 1 - j) = j
        BY <1>2
      <4> QED BY <1>4, <1>5, <4>1
    <3> QED BY <2>2, <3>1 DEF Covered
  <2> QED BY <2>1, <2>2 DEF Covered
<1>9. Plan(d, r)
  BY <1>4, <1>6, <1>7, <1>8 DEF Plan
<1>10. ToWrite(cs, d, r)
  <2>1. Len(cs) = N /\ AnySeq(cs) /\ \A j \in 1..N : cs[j] = ChangeOf(d, g[j])
    BY DEF Records
  <2>2. \A j \in 1..N : r[N + 1 - j] = g[j]
    <3> TAKE j \in 1..N
    <3>1. N + 1 - j \in 1..N /\ N + 1 - (N + 1 - j) = j
      BY <1>2
    <3> QED BY <1>5, <3>1
  <2> HIDE DEF N
  <2> QED BY <1>1, <1>4, <2>1, <2>2 DEF ToWrite
<1> QED BY <1>4, <1>9, <1>10

\* When no callback is left, the changes are a plan to write.
LEMMA EndsDiff ==
    ASSUME Diffing, Fit(deltas[at]), EndOfDiff
    PROVE  /\ changes' = <<>> <=> Changed(deltas[at]) = {}
           /\ \E r : Plan(deltas[at], r) /\ ToWrite(changes', deltas[at], r)
                     /\ Len(r) = Len(changes')
<1> DEFINE d == deltas[at]
<1>1. PICK p, g : /\ Gathered(d, g, p) /\ Recorded(changes, in_change, current, d, g, p)
                  /\ Coming(events, in_change, last_old, d, p)
  BY DEF Diffing
<1>2. events = <<>> /\ flush
  BY DEF EndOfDiff
<1>f. Fit(d)
  OBVIOUS
<1> HIDE DEF d
<1>3. p \in 1..(Len(d.ops) + 1) /\ Len(g) \in Nat /\ (g # <<>> <=> Len(g) # 0)
      /\ Len(d.ops) \in Nat
  BY <1>1, <1>f, GatheredIs, OpsAre
<1>4. events = Rest(d, p)
  <2>1. <<EofEvent>> \o Rest(d, p) # <<>>
    <3>1. EofEvent \in AnEvent /\ Rest(d, p) \in Seq(AnEvent)
      BY <1>3, <1>f, EventTypes, EventsAre
    <3> QED BY <3>1, HeadAndTail
  <2>2. p <= Len(d.ops) => AtOp(d, p) # <<>>
    <3>1. p <= Len(d.ops) => p \in 1..Len(d.ops)
      BY <1>3
    <3> QED BY <1>f, <3>1, AtOpIs
  <2> QED BY <1>1, <1>2, <2>1, <2>2 DEF Coming
<1>5. \A x \in 1..Len(d.ops) : p <= x => d.ops[x] = "keep"
  <2>1. ASSUME NEW q, ShownNext(d, p, q) PROVE FALSE
    <3>1. AtOp(d, q) \in Seq(AnEvent) /\ AtOp(d, q) # <<>> /\ HunkEvent(d, q) \in AnEvent
      BY <1>f, <2>1, AtOpIs, EventTypes DEF ShownNext
    <3>2. <<HunkEvent(d, q)>> \o AtOp(d, q) # <<>>
      BY <3>1, HeadAndTail
    <3> QED BY <1>2, <1>4, <2>1, <3>1, <3>2 DEF ShownNext
  <2>2. \A x \in 1..Len(d.ops) : p <= x => ~Shown(d, x)
    BY <1>3, <1>f, <2>1, NextShown
  <2> QED BY <1>f, <2>2, ShownIs
<1>6. Gathered(d, g, Len(d.ops) + 1)
  <2>1. Len(d.ops) + 1 \in 1..(Len(d.ops) + 1) /\ p <= Len(d.ops) + 1
    BY <1>3
  <2> QED BY <1>1, <1>5, <1>f, <2>1, GatherKept
<1>7. Records(changes', d, g, Len(g))
  BY <1>1, <1>2, <1>3, FlushRecords
<1>8. \E r : Plan(d, r) /\ ToWrite(changes', d, r) /\ Len(r) = Len(g)
  BY <1>6, <1>7, <1>f, PlanFrom
<1>9. Len(changes') = Len(g) /\ (changes' = <<>> <=> g = <<>>)
  <2>1. Len(changes') = Len(g) /\ \E S : changes' \in Seq(S)
    BY <1>7 DEF Records, AnySeq
  <2> QED BY <1>3, <2>1, EmptySeq
<1>10. g = <<>> <=> Changed(d) = {}
  <2>1. ASSUME g = <<>> PROVE Changed(d) = {}
    <3>1. \A q \in 1..Len(d.ops) : d.ops[q] = "keep"
      <4> TAKE q \in 1..Len(d.ops)
      <4>1. q < Len(d.ops) + 1 /\ 1..Len(g) = {}
        BY <1>3, <2>1
      <4>2. Covered(d, g, q)
        BY <1>6, <4>1 DEF Gathered
      <4> QED BY <4>1, <4>2 DEF Covered
    <3> QED BY <1>f, <3>1, OpsAre DEF Changed
  <2>2. ASSUME g # <<>> PROVE Changed(d) # {}
    <3> DEFINE s == g[1]
    <3>1. 1 \in 1..Len(g)
      BY <1>3, <2>2
    <3>2. GroupOK(d, s) /\ s.from < s.to
      BY <1>1, <3>1, GatheredIs
    <3> HIDE DEF s
    <3>3. /\ s.from \in Nat /\ s.mid \in Nat /\ s.to \in Nat
          /\ s.from \in 1..(Len(d.ops) + 1) /\ s.to \in 1..(Len(d.ops) + 1)
          /\ s.from <= s.mid
      BY <1>f, <3>2, GroupIs
    <3>4. s.from \in 1..Len(d.ops)
      BY <1>3, <3>2, <3>3
    <3>5. s.from < s.mid \/ s.mid <= s.from
      BY <3>3
    <3>6. d.ops[s.from] \in {"del", "add"}
      <4>1. s.from <= s.from
        BY <3>3
      <4> QED BY <3>2, <3>4, <3>5, <4>1 DEF GroupOK
    <3>7. s.from \in Changed(d)
      BY <1>f, <3>4, <3>6, OpsAre DEF Changed
    <3> QED BY <3>7
  <2> QED BY <2>1, <2>2
<1> QED BY <1>8, <1>9, <1>10 DEF d

-----------------------------------------------------------------------------
(* The lines of the output for a group, for a change and for a new file.   *)

Sections(ds) == {n \in 1..Len(ds) : Encodable(ds[n]) /\ (ds[n].status = "added" \/ Changed(ds[n]) # {})}

\* Where a line of the bundle is from: the delta, the command in its plan, and the
\* line of the command.
Note == [n : Nat, m : Nat, x : Nat]
NoteOf(n, m, x) == [n |-> n, m |-> m, x |-> x]

\* The parts of a note.
LEMMA NoteIs ==
    ASSUME NEW n \in Nat, NEW m \in Nat, NEW x \in Nat
    PROVE  /\ NoteOf(n, m, x) \in Note /\ NoteOf(n, m, x).n = n /\ NoteOf(n, m, x).m = m
           /\ NoteOf(n, m, x).x = x
BY DEF Note, NoteOf

LinesOf(g) == g.to - g.mid
LastOf(g) == IF KindOf(g) = "delete" THEN 0 ELSE LinesOf(g) + 1

HeadOf(d, g) ==
    IF d.status = "added" THEN Header("newfile", d.path)
    ELSE [t |-> IF KindOf(g) = "delete" THEN "delete" ELSE "input",
          cmd |-> [kind |-> KindOf(g), start |-> StartOf(d, g), end |-> EndOf(d, g)]]

\* Line x of what is written for a group: its header or command, a text line, or the
\* dot.
TokenIs(d, g, x, tok) ==
    \/ x = 0 /\ tok = HeadOf(d, g)
    \/ x \in 1..LinesOf(g) /\ tok = TextToken(Written(d, g.mid + x - 1))
    \/ x = LinesOf(g) + 1 /\ KindOf(g) # "delete" /\ tok = DotToken

\* What is written for a group, from its command to its dot.
Spelled(d, g, t) ==
    /\ AnySeq(t) /\ Len(t) = LastOf(g) + 1
    /\ \A x \in 0..LastOf(g) : TokenIs(d, g, x, t[x + 1])

\* The lines of a group's text, and its last line.
LEMMA LastIs ==
    ASSUME NEW d, Fit(d), NEW g, GroupOK(d, g)
    PROVE  /\ LinesOf(g) \in Nat /\ LastOf(g) \in Nat
           /\ KindOf(g) = "delete" => LinesOf(g) = 0
           /\ KindOf(g) # "delete" => LastOf(g) = LinesOf(g) + 1
           /\ \A x \in 1..LinesOf(g) : g.mid + x - 1 \in 1..Len(d.ops)
<1>1. g.mid \in Nat /\ g.to \in Nat /\ g.mid <= g.to
  BY GroupIs
<1> QED BY <1>1, GroupIs DEF LinesOf, LastOf, KindOf

\* A concatenation, by index.
LEMMA ConcatIs ==
    ASSUME NEW S, NEW a \in Seq(S), NEW b \in Seq(S)
    PROVE  /\ a \o b \in Seq(S) /\ Len(a \o b) = Len(a) + Len(b)
           /\ \A k \in 1..Len(a) : (a \o b)[k] = a[k]
           /\ \A k \in 1..Len(b) : (a \o b)[Len(a) + k] = b[k]
<1>1. Len(a) \in Nat /\ Len(b) \in Nat
  BY LenProperties
<1>2. ASSUME NEW k \in 1..Len(b) PROVE (a \o b)[Len(a) + k] = b[k]
  <2>1. Len(a) + k \in 1..(Len(a) + Len(b)) /\ ~(Len(a) + k <= Len(a)) /\ Len(a) + k - Len(a) = k
    BY <1>1
  <2> QED BY <2>1, ConcatProperties
<1>3. ASSUME NEW k \in 1..Len(a) PROVE (a \o b)[k] = a[k]
  <2>1. k \in 1..(Len(a) + Len(b)) /\ k <= Len(a)
    BY <1>1
  <2> QED BY <2>1, ConcatProperties
<1> QED BY <1>2, <1>3, ConcatProperties

\* A sequence that one element was put before, by index.
LEMMA Prepended ==
    ASSUME NEW S, NEW a \in Seq(S), Len(a) = 1, NEW b \in Seq(S)
    PROVE  /\ a \o b \in Seq(S) /\ Len(a \o b) = Len(b) + 1 /\ (a \o b)[1] = a[1]
           /\ \A x \in 1..Len(b) : (a \o b)[x + 1] = b[x]
<1> DEFINE t == a \o b
<1>1. /\ t \in Seq(S) /\ Len(t) = Len(a) + Len(b) /\ Len(b) \in Nat
      /\ \A k \in 1..Len(a) : t[k] = a[k]
      /\ \A k \in 1..Len(b) : t[Len(a) + k] = b[k]
  BY ConcatIs, LenProperties
<1> HIDE DEF t
<1>2. t[1] = a[1]
  BY <1>1
<1>3. ASSUME NEW x \in 1..Len(b) PROVE t[x + 1] = b[x]
  <2>1. x + 1 = Len(a) + x
    OBVIOUS
  <2> QED BY <1>1, <2>1
<1>4. t \in Seq(S) /\ Len(t) = Len(b) + 1
  BY <1>1
<1> QED BY <1>2, <1>3, <1>4 DEF t

\* A text of as many lines, between the head and the dot.
LEMMA SpelledText ==
    ASSUME NEW d, Fit(d), NEW g, GroupOK(d, g), KindOf(g) # "delete",
           NEW ls, AnySeq(ls), Len(ls) = LinesOf(g),
           \A x \in 1..LinesOf(g) : ls[x] = Written(d, g.mid + x - 1)
    PROVE  Spelled(d, g, <<HeadOf(d, g)>> \o Append(TextTokens(ls), DotToken))
<1> DEFINE L == LinesOf(g)
           h == HeadOf(d, g)
           e == DotToken
           ts == TextTokens(ls)
           b == Append(ts, e)
           t == <<h>> \o b
<1>1. L \in Nat /\ LastOf(g) = L + 1
  BY LastIs
<1>2. PICK S : ls \in Seq(S)
  BY DEF AnySeq
<1>3. ts = [n \in 1..L |-> TextToken(ls[n])]
  BY <1>1, <1>2 DEF TextTokens
<1> DEFINE R == {TextToken(ls[n]) : n \in 1..L} \cup {h, e}
<1>4. ts \in [1..L -> R]
  BY <1>3
<1>5. ts \in Seq(R) /\ Len(ts) = L
  BY <1>1, <1>4, FunctionIsSeq
<1>6. \A x \in 1..L : ts[x] = TextToken(ls[x])
  BY <1>3
<1>7. h \in R /\ e \in R
  OBVIOUS
<1> HIDE DEF ts, h, e, R
<1>8. /\ <<h>> \in Seq(R) /\ Len(<<h>>) = 1 /\ <<h>>[1] = h
      /\ Append(ts, e) \in Seq(R) /\ Len(Append(ts, e)) = L + 1
  BY <1>5, <1>7
<1>10. /\ t \in Seq(R) /\ Len(t) = L + 2 /\ t[1] = h
       /\ \A x \in 1..(L + 1) : t[x + 1] = b[x]
  <2> DEFINE a == <<h>>
  <2>1. a \in Seq(R) /\ Len(a) = 1 /\ a[1] = h /\ b \in Seq(R) /\ Len(b) = L + 1
        /\ t = a \o b
    BY <1>7, <1>8
  <2> HIDE DEF a, b, L, t
  <2>2. /\ t \in Seq(R) /\ Len(t) = Len(b) + 1 /\ t[1] = a[1]
        /\ \A x \in 1..Len(b) : t[x + 1] = b[x]
    BY <2>1, Prepended
  <2> QED BY <1>1, <2>1, <2>2
<1> HIDE DEF b, t
<1>11. ASSUME NEW x \in 0..(L + 1) PROVE TokenIs(d, g, x, t[x + 1])
  <2>1. CASE x = 0
    <3>1. t[1] = h
      BY <1>10
    <3> QED BY <2>1, <3>1 DEF TokenIs, h
  <2>2. CASE x \in 1..L
    <3>1. t[x + 1] = b[x]
      BY <1>1, <1>10, <2>2
    <3>2. b[x] = ts[x]
      BY <1>5, <1>7, <2>2 DEF b
    <3>3. t[x + 1] = TextToken(Written(d, g.mid + x - 1))
      BY <1>6, <2>2, <3>1, <3>2
    <3> QED BY <2>2, <3>3 DEF TokenIs
  <2>3. CASE x = L + 1
    <3>1. t[x + 1] = b[x]
      BY <1>1, <1>10, <2>3
    <3>2. b[x] = e
      BY <1>5, <1>7, <2>3 DEF b
    <3> QED BY <2>3, <3>1, <3>2 DEF TokenIs, e
  <2> QED BY <1>1, <2>1, <2>2, <2>3
<1>12. AnySeq(t) /\ Len(t) = LastOf(g) + 1
  BY <1>1, <1>10 DEF AnySeq
<1>13. Spelled(d, g, t)
  BY <1>1, <1>11, <1>12 DEF Spelled
<1> QED BY <1>13 DEF t, b, h, ts, e

\* emit_change writes the command of the group.
LEMMA ChangeSpelled ==
    ASSUME NEW d, Fit(d), d.status = "modified", NEW g, GroupOK(d, g)
    PROVE  Spelled(d, g, CommandTokens(ChangeOf(d, g)))
<1> DEFINE c == ChangeOf(d, g)
           L == LinesOf(g)
<1>1. /\ g.from \in Nat /\ g.mid \in Nat /\ g.to \in Nat /\ g.from <= g.mid /\ g.mid <= g.to
      /\ g.from \in 1..(Len(d.ops) + 1)
  BY GroupIs
<1>2. OldBefore(d, g.from) \in Nat
  BY <1>1, BeforeAre
<1>3. L \in Nat /\ L = g.to - g.mid
  BY LastIs DEF LinesOf
<1>4. /\ c.old_start = IF g.from = g.mid THEN 0 ELSE OldBefore(d, g.from) + 1
      /\ c.old_count = g.mid - g.from /\ c.append_after = OldBefore(d, g.from)
      /\ c.added = Chomped(d, g)
  BY DEF ChangeOf
<1>5. Chomped(d, g) \in Seq(Line) /\ Len(Chomped(d, g)) = L
  BY <1>3, ChompedIs
<1>6. \A x \in 1..L : Chomped(d, g)[x] = Written(d, g.mid + x - 1)
  BY <1>3 DEF Chomped, Written
<1> DEFINE ls == Chomped(d, g)
           head(kind, from, to) == [t |-> "input", cmd |-> [kind |-> kind, start |-> from, end |-> to]]
<1>7. CASE g.from = g.mid
  <2>1. KindOf(g) = "append" /\ StartOf(d, g) = OldBefore(d, g.from)
        /\ EndOf(d, g) = OldBefore(d, g.from)
    BY <1>1, <1>2, <1>7 DEF KindOf, StartOf, EndOf
  <2>2. HeadOf(d, g) = [t |-> "input", cmd |-> [kind |-> "append",
                        start |-> OldBefore(d, g.from), end |-> OldBefore(d, g.from)]]
    BY <2>1 DEF HeadOf
  <2>3. c.old_count = 0
    BY <1>1, <1>4, <1>7
  <2>4. CommandTokens(c) = <<HeadOf(d, g)>> \o Append(TextTokens(ls), DotToken)
    BY <1>4, <2>2, <2>3 DEF CommandTokens
  <2> HIDE DEF c, ls
  <2>5. KindOf(g) # "delete" /\ AnySeq(ls) /\ Len(ls) = LinesOf(g)
    BY <1>5, <2>1 DEF AnySeq, ls
  <2>6. \A x \in 1..LinesOf(g) : ls[x] = Written(d, g.mid + x - 1)
    BY <1>6 DEF ls
  <2> QED BY <2>4, <2>5, <2>6, SpelledText DEF c
<1>8. CASE g.from # g.mid /\ g.mid # g.to
  <2>1. KindOf(g) = "change" /\ StartOf(d, g) = OldBefore(d, g.from) + 1
        /\ EndOf(d, g) = OldBefore(d, g.from) + (g.mid - g.from)
    BY <1>1, <1>2, <1>8 DEF KindOf, StartOf, EndOf
  <2>2. HeadOf(d, g) = [t |-> "input", cmd |-> [kind |-> "change",
                        start |-> OldBefore(d, g.from) + 1,
                        end |-> OldBefore(d, g.from) + (g.mid - g.from)]]
    BY <2>1 DEF HeadOf
  <2>3. c.old_count > 0 /\ c.old_count # 0 /\ c.old_start = OldBefore(d, g.from) + 1
        /\ c.old_start + c.old_count - 1 = OldBefore(d, g.from) + (g.mid - g.from)
    BY <1>1, <1>2, <1>4, <1>8
  <2>4. ls # <<>>
    BY <1>1, <1>3, <1>5, <1>8
  <2>5. CommandTokens(c) = <<HeadOf(d, g)>> \o Append(TextTokens(ls), DotToken)
    BY <1>4, <2>2, <2>3, <2>4 DEF CommandTokens
  <2> HIDE DEF c, ls
  <2>6. KindOf(g) # "delete" /\ AnySeq(ls) /\ Len(ls) = LinesOf(g)
    BY <1>5, <2>1 DEF AnySeq, ls
  <2>7. \A x \in 1..LinesOf(g) : ls[x] = Written(d, g.mid + x - 1)
    BY <1>6 DEF ls
  <2> QED BY <2>5, <2>6, <2>7, SpelledText DEF c
<1>9. CASE g.from # g.mid /\ g.mid = g.to
  <2>1. KindOf(g) = "delete" /\ StartOf(d, g) = OldBefore(d, g.from) + 1
        /\ EndOf(d, g) = OldBefore(d, g.from) + (g.mid - g.from)
    BY <1>1, <1>2, <1>9 DEF KindOf, StartOf, EndOf
  <2>2. HeadOf(d, g) = [t |-> "delete", cmd |-> [kind |-> "delete",
                        start |-> OldBefore(d, g.from) + 1,
                        end |-> OldBefore(d, g.from) + (g.mid - g.from)]]
    BY <2>1 DEF HeadOf
  <2>3. c.old_count > 0 /\ c.old_count # 0 /\ c.old_start = OldBefore(d, g.from) + 1
        /\ c.old_start + c.old_count - 1 = OldBefore(d, g.from) + (g.mid - g.from)
    BY <1>1, <1>2, <1>4, <1>9
  <2>4. ls = <<>>
    BY <1>1, <1>3, <1>5, <1>9, EmptySeq
  <2>5. CommandTokens(c) = <<HeadOf(d, g)>>
    BY <1>4, <2>2, <2>3, <2>4 DEF CommandTokens
  <2> DEFINE h == HeadOf(d, g)
  <2>6. TokenIs(d, g, 0, h)
    BY DEF TokenIs
  <2>7. LastOf(g) = 0 /\ \A x \in 0..0 : x = 0
    BY <2>1 DEF LastOf
  <2> HIDE DEF h, c
  <2>8. <<h>> \in Seq({h}) /\ Len(<<h>>) = 1 /\ <<h>>[1] = h
    OBVIOUS
  <2>9. Spelled(d, g, <<h>>)
    <3> DEFINE t == <<h>>
    <3>1. AnySeq(t) /\ Len(t) = 1 /\ t[1] = h
      BY <2>8 DEF AnySeq
    <3> HIDE DEF t
    <3>2. \A x \in 0..LastOf(g) : TokenIs(d, g, x, t[x + 1])
      <4> TAKE x \in 0..LastOf(g)
      <4>1. x = 0 /\ x + 1 = 1
        BY <2>7
      <4> QED BY <2>6, <3>1, <4>1
    <3>3. Spelled(d, g, t)
      BY <2>7, <3>1, <3>2 DEF Spelled
    <3> QED BY <3>3 DEF t
  <2> QED BY <2>5, <2>9 DEF h, c
<1> QED BY <1>7, <1>8, <1>9

\* The one group of an added file, and its one command.
Whole(d) == Span(1, 1, Len(d.ops) + 1)

\* A new file is one group of added lines, and spelled so.
LEMMA FileSpelled ==
    ASSUME NEW d, Fit(d), d.status = "added"
    PROVE  /\ GroupOK(d, Whole(d)) /\ Plan(d, <<Whole(d)>>) /\ KindOf(Whole(d)) = "append"
           /\ Spelled(d, Whole(d), <<Header("newfile", d.path)>>
                        \o TextTokens(CorpusLines(NewFile(d))) \o <<DotToken>>)
<1> DEFINE N == Len(d.ops)
           g == Whole(d)
           ls == CorpusLines(NewFile(d))
<1>1. N \in Nat
  BY OpsAre
<1>2. g \in Group /\ g.from = 1 /\ g.mid = 1 /\ g.to = N + 1
  BY <1>1, SpanIs DEF Whole
<1>3. \A p \in 1..N : d.ops[p] = "add"
  <2>1. OldLen(d) = 0
    BY DEF Fit, Possible
  <2> TAKE p \in 1..N
  <2>2. d.ops[p] # "add" => OldBefore(d, p) < 0
    BY <2>1, FilesAre
  <2>3. OldBefore(d, p) \in Nat
    <3>1. p \in 1..(N + 1)
      BY <1>1
    <3> QED BY <3>1, BeforeAre
  <2> QED BY <2>2, <2>3
<1>4. GroupOK(d, g)
  BY <1>1, <1>2, <1>3 DEF GroupOK
<1>5. KindOf(g) = "append"
  BY <1>2 DEF KindOf
<1>6. Plan(d, <<g>>)
  <2> HIDE DEF g
  <2>1. <<g>> \in Seq(Group) /\ Len(<<g>>) = 1 /\ <<g>>[1] = g
    BY <1>2
  <2>2. Descends(<<g>>)
    BY <2>1 DEF Descends
  <2>3. ASSUME NEW p \in 1..Len(d.ops) PROVE Covered(d, <<g>>, p)
    <3>1. g.from <= p /\ p < g.to /\ 1 \in 1..1
      BY <1>1, <1>2
    <3> QED BY <2>1, <3>1 DEF Covered
  <2> QED BY <1>4, <2>1, <2>2, <2>3 DEF Plan
<1>7. \A p \in 1..N : NewBefore(d, p) = p - 1
  <2>1. OfKind(d, "add", 1, N + 1)
    BY <1>3 DEF OfKind
  <2>2. GoesOn(d, "add", 1, N + 1)
    BY <1>1, <2>1, Stretch
  <2> TAKE p \in 1..N
  <2>3. p - 1 \in 0..(N + 1 - 1) /\ 1 + (p - 1) = p
    BY <1>1
  <2>4. NewBefore(d, 1 + (p - 1)) = NewBefore(d, 1) + (p - 1)
    BY <2>2, <2>3 DEF GoesOn
  <2> QED BY <2>3, <2>4, BeforeIs, <1>1
<1>8. NewLen(d) = N
  <2>1. OfKind(d, "add", 1, N + 1)
    BY <1>3 DEF OfKind
  <2>2. GoesOn(d, "add", 1, N + 1)
    BY <1>1, <2>1, Stretch
  <2>3. N \in 0..(N + 1 - 1) /\ 1 + N = N + 1
    BY <1>1
  <2>4. NewBefore(d, 1 + N) = NewBefore(d, 1) + N
    BY <2>2, <2>3 DEF GoesOn
  <2> QED BY <2>3, <2>4, BeforeIs, <1>1 DEF NewLen
<1>9. NewFile(d).lines \in Seq(Line) /\ Len(NewFile(d).lines) = N /\ NewFile(d).nl = d.newNl
  <2>1. NewFile(d).nl = d.newNl
    BY DEF NewFile
  <2> QED BY <1>8, <2>1, FilesAre
<1>10. \A p \in 1..N : NewFile(d).lines[p] = LineAt(d, p)
  <2> TAKE p \in 1..N
  <2>1. NewFile(d).lines[NewBefore(d, p) + 1] = LineAt(d, p)
    BY <1>3, FilesAre
  <2> QED BY <1>1, <1>7, <2>1
<1>11. AnySeq(ls) /\ Len(ls) = N /\ \A p \in 1..N : ls[p] = Written(d, p)
  <2> DEFINE f == NewFile(d)
  <2>1. f.lines \in Seq(Line) /\ Len(f.lines) = N /\ f.nl = d.newNl
        /\ \A p \in 1..N : f.lines[p] = LineAt(d, p)
    BY <1>9, <1>10
  <2> HIDE DEF f
  <2>2. CorpusLines(f) = [p \in 1..N |-> IF p = N /\ ~f.nl THEN f.lines[p] ELSE Chomp(f.lines[p])]
    BY <1>1, <2>1 DEF CorpusLines
  <2>3. \A p \in 1..N : CorpusLines(f)[p] = Written(d, p)
    <3> TAKE p \in 1..N
    <3>1. CorpusLines(f)[p] = IF p = N /\ ~d.newNl THEN LineAt(d, p) ELSE Chomp(LineAt(d, p))
      BY <2>1, <2>2
    <3> QED BY <3>1 DEF Written
  <2>4. CorpusLines(f) \in [1..N -> {Written(d, p) : p \in 1..N}]
    <3>1. \A p \in 1..N : CorpusLines(f)[p] \in {Written(d, q) : q \in 1..N}
      BY <2>3
    <3>2. CorpusLines(f) = [p \in 1..N |-> CorpusLines(f)[p]]
      BY <2>2
    <3> HIDE DEF f
    <3> QED BY <3>1, <3>2
  <2>5. CorpusLines(f) \in Seq({Written(d, p) : p \in 1..N}) /\ Len(CorpusLines(f)) = N
    BY <1>1, <2>4, FunctionIsSeq
  <2> QED BY <2>3, <2>5 DEF AnySeq, f
<1>12. LinesOf(g) = N
  BY <1>1, <1>2 DEF LinesOf
<1>13. \A x \in 1..LinesOf(g) : ls[x] = Written(d, g.mid + x - 1)
  <2> HIDE DEF g, ls
  <2> TAKE x \in 1..LinesOf(g)
  <2>1. g.mid + x - 1 = x
    BY <1>1, <1>2, <1>12
  <2> QED BY <1>11, <1>12, <2>1
<1>14. HeadOf(d, g) = Header("newfile", d.path)
  BY DEF HeadOf
<1>15. <<Header("newfile", d.path)>> \o TextTokens(ls) \o <<DotToken>>
       = <<HeadOf(d, g)>> \o Append(TextTokens(ls), DotToken)
  <2> DEFINE h == Header("newfile", d.path)
             ts == TextTokens(ls)
             e == DotToken
  <2>1. Tokens(ts)
    BY <1>11, TextTokensAre
  <2> HIDE DEF h, ts, e
  <2>2. PICK S : ts \in Seq(S)
    BY <2>1 DEF Tokens, AllOf
  <2> DEFINE R == S \cup {h, e}
  <2>3. ts \in Seq(R) /\ h \in R /\ e \in R
    BY <2>2, SeqMonotonic
  <2> HIDE DEF R
  <2>4. Append(ts, e) = ts \o <<e>>
    BY <2>3, AppendProperties, ConcatProperties
  <2>5. <<h>> \in Seq(R) /\ <<e>> \in Seq(R)
    BY <2>3
  <2>6. (<<h>> \o ts) \o <<e>> = <<h>> \o (ts \o <<e>>)
    BY <2>3, <2>5, ConcatAssociative
  <2>7. <<h>> \o ts \o <<e>> = <<h>> \o Append(ts, e)
    BY <2>4, <2>6
  <2> QED BY <1>14, <2>7 DEF h, ts, e
<1>16. Spelled(d, g, <<Header("newfile", d.path)>> \o TextTokens(ls) \o <<DotToken>>)
  <2>1. KindOf(g) # "delete" /\ Len(ls) = LinesOf(g)
    BY <1>5, <1>11, <1>12
  <2> HIDE DEF ls, g
  <2>2. Spelled(d, g, <<HeadOf(d, g)>> \o Append(TextTokens(ls), DotToken))
    BY <1>4, <1>11, <1>13, <2>1, SpelledText
  <2> QED BY <1>15, <2>2
<1> QED BY <1>4, <1>5, <1>6, <1>16

-----------------------------------------------------------------------------
(* Where each line of the output is from.                                  *)

\* A line of the output is what its note says.
Told(ds, r, a, tok) ==
    \/ a = NoteOf(0, 0, 0) /\ tok.t \in {"magic", "comment"}
    \/ /\ a.n # 0 /\ a.m = 0 /\ a.x = 0 /\ ds[a.n].status = "modified"
       /\ tok = Header("file", ds[a.n].path)
    \/ a.n # 0 /\ a.m \in 1..Len(r) /\ TokenIs(ds[a.n], r[a.m], a.x, tok)

\* The command is written down to its end, and the section.
Done(r, a) == a.m = 0 \/ a.x = LastOf(r[a.m])

\* The note is the last one of a section, or in none.
Over(r, a) == a.n = 0 \/ (a.m # 0 /\ a.m = Len(r) /\ a.x = LastOf(r[a.m]))

\* Section b.n is the first one after n, and b its first line.
Opens(ds, n, b) ==
    /\ n < b.n /\ b.x = 0 /\ b.m = (IF ds[b.n].status = "added" THEN 1 ELSE 0)
    /\ \A k \in Sections(ds) : k <= n \/ b.n <= k

\* Note b may come right after note a.
Follows(ds, r, a, b) ==
    \/ a.n = 0 /\ b.n = 0
    \/ b.n = a.n /\ a.m # 0 /\ b.m = a.m /\ b.x = a.x + 1
    \/ a.n # 0 /\ b.n = a.n /\ Done(r, a) /\ b.m = a.m + 1 /\ b.x = 0
    \/ Over(r, a) /\ Opens(ds, a.n, b)

\* A plan that a section can be written from.
Fine(d, r) == Fit(d) /\ Plan(d, r) /\ Len(r) >= 1 /\ (d.status = "added" => Len(r) = 1)

\* Every line of the output has a note, and the notes follow each other.
Story(ds, N, plan, note, out) ==
    /\ N \subseteq Sections(ds) /\ \A n \in N : Fine(ds[n], plan[n])
    /\ note \in Seq(Note) /\ Len(note) = Len(out) /\ Len(note) >= 1
    /\ note[1].n = 0 /\ out[1].t = "magic"
    /\ \A k \in 1..Len(note) : /\ note[k].n = 0 \/ note[k].n \in N
                               /\ Told(ds, plan[note[k].n], note[k], out[k])
    /\ \A k \in 1..(Len(note) - 1) : Follows(ds, plan[note[k].n], note[k], note[k + 1])

\* A story that has come to note a.
Tale(ds, N, plan, out, a) ==
    \E note : Story(ds, N, plan, note, out) /\ note[Len(note)] = a

\* More lines, with notes that go on from the last one.
GoOn(ds, N, plan, a, q, t) ==
    /\ q \in Seq(Note) /\ Len(q) = Len(t) /\ Len(q) >= 1
    /\ Follows(ds, plan[a.n], a, q[1])
    /\ \A k \in 1..Len(q) : q[k].n \in N /\ Told(ds, plan[q[k].n], q[k], t[k])
    /\ \A k \in 1..(Len(q) - 1) : Follows(ds, plan[q[k].n], q[k], q[k + 1])

\* A story goes on with lines that follow.
LEMMA TaleGoesOn ==
    ASSUME NEW ds, NEW N, NEW plan, NEW out, AnySeq(out), NEW a, Tale(ds, N, plan, out, a),
           NEW t, AnySeq(t), NEW q, GoOn(ds, N, plan, a, q, t)
    PROVE  Tale(ds, N, plan, out \o t, q[Len(q)])
<1>1. PICK note : Story(ds, N, plan, note, out) /\ note[Len(note)] = a
  BY DEF Tale
<1>2. PICK S : out \in Seq(S) /\ t \in Seq(S)
  <2>1. PICK S1, S2 : out \in Seq(S1) /\ t \in Seq(S2)
    BY DEF AnySeq
  <2> DEFINE S == S1 \cup S2
  <2>2. out \in Seq(S) /\ t \in Seq(S)
    BY <2>1, SeqMonotonic
  <2> QED BY <2>2
<1> DEFINE n2 == note \o q
           o2 == out \o t
           L == Len(note)
           M == Len(q)
<1>3. /\ note \in Seq(Note) /\ q \in Seq(Note) /\ Len(out) = L /\ Len(t) = M
      /\ L \in Nat /\ M \in Nat /\ L >= 1 /\ M >= 1
  BY <1>1 DEF Story, GoOn
<1>4. /\ n2 \in Seq(Note) /\ Len(n2) = L + M
      /\ \A k \in 1..L : n2[k] = note[k]
      /\ \A k \in 1..M : n2[L + k] = q[k]
  BY <1>3, ConcatIs
<1>5. /\ o2 \in Seq(S) /\ Len(o2) = L + M
      /\ \A k \in 1..L : o2[k] = out[k]
      /\ \A k \in 1..M : o2[L + k] = t[k]
  <2>1. /\ o2 \in Seq(S) /\ Len(o2) = Len(out) + Len(t)
        /\ \A k \in 1..Len(out) : o2[k] = out[k]
        /\ \A k \in 1..Len(t) : o2[Len(out) + k] = t[k]
    BY <1>2, ConcatIs
  <2> HIDE DEF o2
  <2> QED BY <1>3, <2>1
<1>6. \A k \in 1..(L + M) : k \in 1..L \/ (k - L \in 1..M /\ k = L + (k - L))
  BY <1>3
<1> HIDE DEF n2, o2, L, M
<1>7. ASSUME NEW k \in 1..(L + M)
      PROVE  /\ n2[k].n = 0 \/ n2[k].n \in N
             /\ Told(ds, plan[n2[k].n], n2[k], o2[k])
  <2>1. CASE k \in 1..L
    <3>1. n2[k] = note[k] /\ o2[k] = out[k]
      BY <1>4, <1>5, <2>1
    <3> QED BY <1>1, <2>1, <3>1 DEF Story, L
  <2>2. CASE k - L \in 1..M /\ k = L + (k - L)
    <3>1. n2[k] = q[k - L] /\ o2[k] = t[k - L]
      BY <1>4, <1>5, <2>2
    <3> QED BY <2>2, <3>1 DEF GoOn, M
  <2> QED BY <1>6, <2>1, <2>2
<1>8. ASSUME NEW k \in 1..(L + M - 1) PROVE Follows(ds, plan[n2[k].n], n2[k], n2[k + 1])
  <2>1. CASE k \in 1..(L - 1)
    <3>1. k \in 1..L /\ k + 1 \in 1..L
      BY <1>3, <2>1
    <3>2. n2[k] = note[k] /\ n2[k + 1] = note[k + 1]
      BY <1>4, <3>1
    <3>3. Follows(ds, plan[note[k].n], note[k], note[k + 1])
      BY <1>1, <2>1 DEF Story, L
    <3> QED BY <3>2, <3>3
  <2>2. CASE k = L
    <3>1. k \in 1..L /\ 1 \in 1..M
      BY <1>3, <2>2
    <3>2. n2[k] = note[k] /\ n2[k + 1] = q[1]
      BY <1>4, <2>2, <3>1
    <3>3. note[k] = a
      BY <1>1, <2>2 DEF L
    <3> QED BY <3>2, <3>3 DEF GoOn
  <2>3. CASE k > L
    <3>1. /\ k - L \in 1..(M - 1) /\ k - L \in 1..M /\ k - L + 1 \in 1..M
          /\ L + (k - L) = k /\ L + (k - L + 1) = k + 1
      BY <1>3, <2>3
    <3>2. n2[L + (k - L)] = q[k - L] /\ n2[L + (k - L + 1)] = q[k - L + 1]
      BY <1>4, <3>1
    <3>3. Follows(ds, plan[q[k - L].n], q[k - L], q[k - L + 1])
      BY <3>1 DEF GoOn, M
    <3> QED BY <3>1, <3>2, <3>3
  <2> QED BY <1>3, <2>1, <2>2, <2>3
<1>9. n2[1] = note[1] /\ o2[1] = out[1] /\ n2[L + M] = q[M]
  <2>1. 1 \in 1..L /\ M \in 1..M
    BY <1>3
  <2> QED BY <1>4, <1>5, <2>1
<1>10. n2[1].n = 0 /\ o2[1].t = "magic" /\ N \subseteq Sections(ds)
       /\ \A n \in N : Fine(ds[n], plan[n])
  BY <1>1, <1>9 DEF Story
<1>11. Len(n2) = Len(o2) /\ Len(n2) >= 1 /\ Len(n2) = L + M /\ n2 \in Seq(Note)
  BY <1>3, <1>4, <1>5
<1>12. Story(ds, N, plan, n2, o2)
  <2>1. 1..Len(n2) = 1..(L + M) /\ 1..(Len(n2) - 1) = 1..(L + M - 1)
    BY <1>3, <1>11
  <2>2. /\ \A k \in 1..Len(n2) : /\ n2[k].n = 0 \/ n2[k].n \in N
                                 /\ Told(ds, plan[n2[k].n], n2[k], o2[k])
        /\ \A k \in 1..(Len(n2) - 1) : Follows(ds, plan[n2[k].n], n2[k], n2[k + 1])
    BY <1>7, <1>8, <2>1
  <2> QED BY <1>10, <1>11, <2>2 DEF Story
<1>13. n2[Len(n2)] = q[Len(q)]
  BY <1>9, <1>11 DEF M
<1>14. Tale(ds, N, plan, o2, q[Len(q)])
  BY <1>12, <1>13 DEF Tale
<1> QED BY <1>14 DEF o2

\* One more section to come.
Laying(ds, plan, n, r) == [k \in 0..Len(ds) |-> IF k = n THEN r ELSE plan[k]]

\* A story does not depend on the plan of a section it has not come to.
LEMMA TalePlanned ==
    ASSUME NEW ds, Len(ds) \in Nat, NEW N, NEW plan, NEW out, NEW a, Tale(ds, N, plan, out, a),
           NEW n \in Sections(ds), n \notin N, NEW r, Fine(ds[n], r)
    PROVE  /\ Tale(ds, N \cup {n}, Laying(ds, plan, n, r), out, a)
           /\ Laying(ds, plan, n, r)[n] = r
           /\ Laying(ds, plan, n, r)[a.n] = plan[a.n]
<1>1. PICK note : Story(ds, N, plan, note, out) /\ note[Len(note)] = a
  BY DEF Tale
<1> DEFINE p2 == Laying(ds, plan, n, r)
<1>2. \A k \in Sections(ds) : k \in 1..Len(ds) /\ k # 0
  BY DEF Sections
<1>3. p2[n] = r /\ \A k \in N \cup {0} : p2[k] = plan[k]
  <2>1. N \subseteq Sections(ds)
    BY <1>1 DEF Story
  <2>2. n \in 0..Len(ds) /\ \A k \in N \cup {0} : k \in 0..Len(ds) /\ k # n
    BY <1>2, <2>1
  <2> QED BY <2>2 DEF Laying
<1> HIDE DEF p2
<1>4. /\ note \in Seq(Note) /\ Len(note) \in Nat /\ Len(note) >= 1 /\ Len(note) = Len(out)
      /\ note[1].n = 0 /\ out[1].t = "magic" /\ N \subseteq Sections(ds)
      /\ \A k \in N : Fine(ds[k], plan[k])
      /\ \A k \in 1..Len(note) : note[k].n \in N \cup {0}
  BY <1>1 DEF Story
<1>5. \A k \in N \cup {n} : Fine(ds[k], p2[k])
  BY <1>3, <1>4
<1>6. ASSUME NEW k \in 1..Len(note)
      PROVE  /\ note[k].n = 0 \/ note[k].n \in N \cup {n}
             /\ Told(ds, p2[note[k].n], note[k], out[k])
  <2>1. p2[note[k].n] = plan[note[k].n]
    BY <1>3, <1>4
  <2>2. Told(ds, plan[note[k].n], note[k], out[k])
    BY <1>1 DEF Story
  <2> QED BY <1>4, <2>1, <2>2
<1>7. ASSUME NEW k \in 1..(Len(note) - 1)
      PROVE  Follows(ds, p2[note[k].n], note[k], note[k + 1])
  <2>1. k \in 1..Len(note)
    BY <1>4
  <2>2. p2[note[k].n] = plan[note[k].n]
    BY <1>3, <1>4, <2>1
  <2>3. Follows(ds, plan[note[k].n], note[k], note[k + 1])
    BY <1>1 DEF Story
  <2> QED BY <2>2, <2>3
<1>8. Story(ds, N \cup {n}, p2, note, out)
  BY <1>4, <1>5, <1>6, <1>7 DEF Story
<1>9. a.n \in N \cup {0}
  <2>1. Len(note) \in 1..Len(note)
    BY <1>4
  <2> QED BY <1>1, <1>4, <2>1
<1>10. Tale(ds, N \cup {n}, p2, out, a)
  BY <1>1, <1>8 DEF Tale
<1> QED BY <1>3, <1>9, <1>10 DEF p2

\* A header.
LEMMA TaleHeaded ==
    ASSUME NEW ds, NEW N, NEW plan, NEW out, AnySeq(out), NEW a, Tale(ds, N, plan, out, a),
           NEW n \in Nat \ {0}, n \in N, ds[n].status = "modified",
           Follows(ds, plan[a.n], a, NoteOf(n, 0, 0)), NEW h, h = Header("file", ds[n].path)
    PROVE  Tale(ds, N, plan, out \o <<h>>, NoteOf(n, 0, 0))
<1> DEFINE b == NoteOf(n, 0, 0)
           q == <<b>>
           t == <<h>>
<1>1. b \in Note /\ b.n = n /\ b.m = 0 /\ b.x = 0
  BY NoteIs
<1>2. Told(ds, plan[n], b, h)
  BY <1>1 DEF Told
<1> HIDE DEF b
<1>3. q \in Seq(Note) /\ Len(q) = 1 /\ q[1] = b /\ t \in Seq({h}) /\ Len(t) = 1 /\ t[1] = h
  BY <1>1
<1> HIDE DEF q, t
<1>4. AnySeq(t)
  BY <1>3 DEF AnySeq
<1>5. Follows(ds, plan[a.n], a, q[1])
  BY <1>3 DEF b
<1>6. GoOn(ds, N, plan, a, q, t)
  <2>1. \A k \in 1..Len(q) : k = 1
    BY <1>3
  <2>2. \A k \in 1..(Len(q) - 1) : FALSE
    BY <1>3
  <2>3. q[1].n \in N /\ Told(ds, plan[q[1].n], q[1], t[1])
    BY <1>1, <1>2, <1>3
  <2> QED BY <1>3, <1>5, <2>1, <2>2, <2>3 DEF GoOn
<1>7. Tale(ds, N, plan, out \o t, q[Len(q)])
  BY <1>4, <1>6, TaleGoesOn
<1>8. q[Len(q)] = b
  BY <1>3
<1> QED BY <1>7, <1>8 DEF b, t

\* A command.
LEMMA TaleOfCommand ==
    ASSUME NEW ds, NEW N, NEW plan, NEW out, AnySeq(out), NEW a, Tale(ds, N, plan, out, a),
           NEW n \in Nat \ {0}, n \in N, NEW m \in Nat \ {0}, m <= Len(plan[n]),
           NEW g, g = plan[n][m], LastOf(g) \in Nat, NEW t, Spelled(ds[n], g, t),
           Follows(ds, plan[a.n], a, NoteOf(n, m, 0))
    PROVE  Tale(ds, N, plan, out \o t, NoteOf(n, m, LastOf(g)))
<1> DEFINE L == LastOf(g)
           q == [k \in 1..(L + 1) |-> NoteOf(n, m, k - 1)]
<1>1. AnySeq(t) /\ Len(t) = L + 1 /\ L \in Nat
  BY DEF Spelled
<1>2. \A k \in 1..(L + 1) : /\ NoteOf(n, m, k - 1) \in Note /\ NoteOf(n, m, k - 1).n = n
                            /\ NoteOf(n, m, k - 1).m = m /\ NoteOf(n, m, k - 1).x = k - 1
  <2> TAKE k \in 1..(L + 1)
  <2>1. k - 1 \in Nat /\ n \in Nat /\ m \in Nat
    BY <1>1
  <2> DEFINE x == k - 1
  <2> HIDE DEF x
  <2>2. x \in Nat
    BY <2>1 DEF x
  <2>3. NoteOf(n, m, x) \in Note /\ NoteOf(n, m, x).n = n /\ NoteOf(n, m, x).m = m
        /\ NoteOf(n, m, x).x = x
    BY <2>1, <2>2 DEF Note, NoteOf
  <2> QED BY <2>3 DEF x
<1>3. q \in [1..(L + 1) -> Note]
  BY <1>2
<1>4. q \in Seq(Note) /\ Len(q) = L + 1
  <2> HIDE DEF q
  <2> QED BY <1>1, <1>3, FunctionIsSeq
<1>5. \A k \in 1..(L + 1) : q[k] = NoteOf(n, m, k - 1)
  OBVIOUS
<1>6. m \in 1..Len(plan[n])
  <2>1. N \subseteq Sections(ds) /\ Fine(ds[n], plan[n])
    BY DEF Tale, Story
  <2>2. Len(plan[n]) \in Nat
    BY <2>1, PlanIs DEF Fine
  <2> QED BY <2>2
<1> HIDE DEF q, L
<1>7. ASSUME NEW k \in 1..Len(q) PROVE q[k].n \in N /\ Told(ds, plan[q[k].n], q[k], t[k])
  <2>1. k \in 1..(L + 1)
    BY <1>4
  <2>2. q[k].n = n /\ q[k].m = m /\ q[k].x = k - 1
    BY <1>2, <1>5, <2>1
  <2>3. k - 1 \in 0..L /\ k - 1 + 1 = k
    BY <1>1, <2>1
  <2>4. TokenIs(ds[n], g, k - 1, t[k])
    <3>1. TokenIs(ds[n], g, k - 1, t[k - 1 + 1])
      BY <2>3 DEF Spelled, L
    <3> QED BY <2>3, <3>1
  <2> QED BY <1>6, <2>2, <2>4 DEF Told
<1>8. ASSUME NEW k \in 1..(Len(q) - 1) PROVE Follows(ds, plan[q[k].n], q[k], q[k + 1])
  <2>1. k \in 1..(L + 1) /\ k + 1 \in 1..(L + 1)
    BY <1>1, <1>4
  <2>2. q[k].n = n /\ q[k].m = m /\ q[k].x = k - 1
        /\ q[k + 1].n = n /\ q[k + 1].m = m /\ q[k + 1].x = k + 1 - 1
    BY <1>2, <1>5, <2>1
  <2>3. q[k + 1].x = q[k].x + 1
    BY <2>1, <2>2
  <2> QED BY <2>2, <2>3 DEF Follows
<1>9. Follows(ds, plan[a.n], a, q[1])
  <2>1. 1 \in 1..(L + 1) /\ 1 - 1 = 0
    BY <1>1
  <2>2. q[1] = NoteOf(n, m, 0)
    BY <1>5, <2>1
  <2> QED BY <2>2
<1>10. GoOn(ds, N, plan, a, q, t)
  <2>1. Len(q) >= 1 /\ Len(q) = Len(t)
    BY <1>1, <1>4
  <2> QED BY <1>4, <1>7, <1>8, <1>9, <2>1 DEF GoOn
<1>11. Tale(ds, N, plan, out \o t, q[Len(q)])
  BY <1>1, <1>10, TaleGoesOn
<1>12. q[Len(q)] = NoteOf(n, m, L)
  <2>1. ASSUME NEW k \in 1..(L + 1), k - 1 = L PROVE q[k] = NoteOf(n, m, L)
    BY <1>5, <2>1
  <2>2. Len(q) \in 1..(L + 1) /\ Len(q) - 1 = L
    BY <1>1, <1>4
  <2> QED BY <2>1, <2>2
<1> QED BY <1>11, <1>12 DEF L

-----------------------------------------------------------------------------
(* The generator writes the plans of the sections.                         *)

\* The deltas whose sections are written, the one at hand from its header on.
Laid == {n \in Sections(deltas) : n < at \/ (phase = "emit" /\ n = at)}

\* The last note fits the phase that the generator is in.
Stage(plan, a) ==
    /\ phase # "emit" => Over(plan[a.n], a) /\ \A k \in Laid : k <= a.n
    /\ phase = "emit" =>
          /\ at \in Laid /\ deltas[at].status = "modified" /\ a.n = at /\ Done(plan[at], a)
          /\ ToWrite(changes, deltas[at], plan[at]) /\ a.m + Len(changes) = Len(plan[at])
    /\ phase = "diff" =>
          Diffing /\ at <= Len(deltas) /\ Encodable(deltas[at]) /\ deltas[at].status = "modified"
    /\ phase \in {"done", "died"} => at > Len(deltas)

\* The output is told by some plans of its sections.
Telling == \E plan, a : Tale(deltas, Laid, plan, output, a) /\ Stage(plan, a)

\* The diffs of a bundle are possible ones.
LEMMA DeltasFit ==
    ASSUME GenInv
    PROVE  Len(deltas) \in Nat /\ at \in Nat \ {0} /\ \A n \in 1..Len(deltas) : Fit(deltas[n])
<1>1. deltas \in Seq(Delta) /\ \A n \in DOMAIN deltas :
         Possible(deltas[n]) /\ \A p \in DOMAIN deltas[n].ops : LineAt(deltas[n], p) \in Line
  BY ChangesAssumption DEF GenInv
<1> QED BY <1>1 DEF Fit, GenInv

\* Sections are diffs of the bundle.
LEMMA SectionsAre ==
    ASSUME GenInv
    PROVE  /\ \A n \in Sections(deltas) : n \in 1..Len(deltas) /\ n \in Nat \ {0} /\ Fit(deltas[n])
           /\ Laid \subseteq Sections(deltas)
BY DeltasFit DEF Sections, Laid

\* The note that a story has come to.
LEMMA TaleIs ==
    ASSUME NEW ds, NEW N, NEW plan, NEW out, NEW a, Tale(ds, N, plan, out, a)
    PROVE  /\ a \in Note /\ a.n \in Nat /\ a.m \in Nat /\ a.x \in Nat /\ (a.n = 0 \/ a.n \in N)
           /\ \A n \in N : Fine(ds[n], plan[n])
           /\ a.n = 0 => a = NoteOf(0, 0, 0)
<1>1. PICK note : Story(ds, N, plan, note, out) /\ note[Len(note)] = a
  BY DEF Tale
<1>2. Len(note) \in 1..Len(note) /\ note \in Seq(Note)
  BY <1>1 DEF Story
<1>3. a \in Note
  BY <1>1, <1>2
<1>4. (a.n = 0 \/ a.n \in N) /\ Told(ds, plan[a.n], a, out[Len(note)])
  BY <1>1, <1>2 DEF Story
<1>5. a.n = 0 => a = NoteOf(0, 0, 0)
  BY <1>4 DEF Told
<1> QED BY <1>1, <1>3, <1>4, <1>5 DEF Story, Note

\* Before the first file the output is the magic and the comment.
LEMMA TellingInit == Init => Telling
<1> SUFFICES ASSUME Init PROVE Telling
  OBVIOUS
<1>1. deltas \in Seq(Delta) /\ at = 1 /\ phase = "next"
  BY ChangesAssumption DEF Init
<1>2. Laid = {} /\ Laid \subseteq Sections(deltas)
  <2>1. \A n \in Sections(deltas) : n \in Nat \ {0}
    BY <1>1 DEF Sections
  <2> QED BY <1>1, <2>1 DEF Laid
<1> DEFINE z == NoteOf(0, 0, 0)
           u == [t |-> "magic"]
           w == [t |-> "comment"]
           note == <<z, z>>
           plan == [k \in {0} |-> <<>>]
<1>3. z \in Note /\ z.n = 0 /\ z.m = 0 /\ z.x = 0
  BY NoteIs
<1>4. u.t = "magic" /\ w.t = "comment" /\ output = <<u, w>>
  BY DEF Init
<1>5. \A r, tok : tok.t \in {"magic", "comment"} => Told(deltas, r, z, tok)
  BY DEF Told
<1> HIDE DEF z, u, w, plan
<1>6. /\ note \in Seq(Note) /\ Len(note) = 2 /\ note[1] = z /\ note[2] = z
      /\ Len(output) = 2 /\ output[1] = u /\ output[2] = w
  BY <1>3, <1>4
<1> HIDE DEF note
<1>7. \A k \in 1..2 : note[k] = z /\ Told(deltas, plan[note[k].n], note[k], output[k])
  <2> TAKE k \in 1..2
  <2>1. k = 1 \/ k = 2
    OBVIOUS
  <2>2. note[k] = z /\ output[k].t \in {"magic", "comment"}
    BY <1>4, <1>6, <2>1
  <2> QED BY <1>5, <2>2
<1>8. \A k \in 1..(2 - 1) : Follows(deltas, plan[note[k].n], note[k], note[k + 1])
  <2> TAKE k \in 1..(2 - 1)
  <2>1. note[k] = z /\ note[k + 1] = z
    BY <1>6
  <2> QED BY <1>3, <2>1 DEF Follows
<1>9. Story(deltas, Laid, plan, note, output)
  BY <1>2, <1>3, <1>4, <1>6, <1>7, <1>8 DEF Story
<1>10. note[Len(note)] = z
  BY <1>6
<1>11. Tale(deltas, Laid, plan, output, z)
  BY <1>9, <1>10 DEF Tale
<1>12. Stage(plan, z)
  BY <1>1, <1>2, <1>3 DEF Stage, Over
<1> QED BY <1>11, <1>12 DEF Telling

\* The next section opens after the last one.
LEMMA OpensHere ==
    ASSUME GenInv, NEW plan, NEW a, Tale(deltas, Laid, plan, output, a), Stage(plan, a),
           phase # "emit", at \in Sections(deltas), NEW b, b.n = at, b.x = 0,
           b.m = IF deltas[at].status = "added" THEN 1 ELSE 0
    PROVE  Follows(deltas, plan[a.n], a, b)
<1>1. Over(plan[a.n], a) /\ \A k \in Laid : k <= a.n
  BY DEF Stage
<1>2. a.n < at
  <2>1. a.n \in Nat /\ (a.n = 0 \/ a.n \in Laid) /\ at \in Nat \ {0}
    BY TaleIs DEF GenInv
  <2> QED BY <2>1 DEF Laid
<1>3. \A k \in Sections(deltas) : k <= a.n \/ at <= k
  <2> TAKE k \in Sections(deltas)
  <2>1. k \in Nat /\ at \in Nat
    BY SectionsAre DEF GenInv
  <2>2. k < at => k \in Laid
    BY DEF Laid
  <2> QED BY <1>1, <2>1, <2>2
<1> QED BY <1>1, <1>2, <1>3 DEF Follows, Opens

\* A delta without a section, or whose section is written, is passed.
LEMMA Passed ==
    ASSUME GenInv, NEW plan, NEW a, Tale(deltas, Laid, plan, output, a), Stage(plan, a),
           phase # "emit" \/ changes = <<>>, at \in Sections(deltas) => phase = "emit",
           deltas' = deltas, output' = output, at' = at + 1, phase' = "next"
    PROVE  Telling'
<1>1. Laid' = Laid
  <2>1. Laid' = {n \in Sections(deltas) : n < at + 1}
    BY DEF Laid
  <2>2. \A n \in Sections(deltas) : n < at + 1 <=> n < at \/ (phase = "emit" /\ n = at)
    <3> TAKE n \in Sections(deltas)
    <3>1. n \in Nat /\ at \in Nat
      BY SectionsAre DEF GenInv
    <3>2. n < at + 1 <=> n < at \/ n = at
      BY <3>1
    <3> QED BY <3>2
  <2> QED BY <2>1, <2>2 DEF Laid
<1>2. Over(plan[a.n], a) /\ \A k \in Laid : k <= a.n
  <2>1. CASE phase # "emit"
    BY <2>1 DEF Stage
  <2>2. CASE phase = "emit"
    <3>1. /\ at \in Laid /\ a.n = at /\ Done(plan[at], a) /\ a.m + Len(changes) = Len(plan[at])
      BY <2>2 DEF Stage
    <3>2. Len(changes) = 0
      BY <2>2
    <3>3. a.m = Len(plan[at]) /\ a.m # 0
      <4>1. Fine(deltas[at], plan[at]) /\ a.m \in Nat
        BY <3>1, TaleIs
      <4> QED BY <3>1, <3>2, <4>1 DEF Fine
    <3>4. \A k \in Laid : k <= at
      <4> TAKE k \in Laid
      <4>1. k \in Nat /\ at \in Nat /\ (k < at \/ k = at)
        BY SectionsAre DEF Laid, GenInv
      <4> QED BY <4>1, SectionsAre DEF GenInv
    <3> QED BY <3>1, <3>3, <3>4 DEF Over, Done
  <2> QED BY <2>1, <2>2
<1>3. Tale(deltas', Laid', plan, output', a)
  BY <1>1
<1>4. Stage(plan, a)'
  BY <1>1, <1>2 DEF Stage
<1> QED BY <1>3, <1>4 DEF Telling

\* A new file is written by its plan (emit_new_file).
LEMMA EmitNewFileTells ==
    ASSUME GenInv, NEW plan, NEW a, Tale(deltas, Laid, plan, output, a), Stage(plan, a),
           EmitNewFile
    PROVE  Telling'
<1> DEFINE d == deltas[at]
           g == Whole(d)
           r == <<g>>
           p2 == Laying(deltas, plan, at, r)
           N == Laid \cup {at}
           t == <<Header("newfile", d.path)>> \o TextTokens(CorpusLines(NewFile(d))) \o <<DotToken>>
           b == NoteOf(at, 1, LastOf(g))
<1>1. /\ phase = "next" /\ at <= Len(deltas) /\ Encodable(d) /\ d.status = "added"
      /\ at' = at + 1 /\ deltas' = deltas /\ phase' = "next"
      /\ output' = output \o <<Header("newfile", d.path)>>
                       \o TextTokens(CorpusLines(NewFile(d))) \o <<DotToken>>
  BY DEF EmitNewFile, AtDelta
<1>2. at \in Sections(deltas) /\ at \notin Laid /\ Fit(d) /\ at \in Nat \ {0} /\ Len(deltas) \in Nat
  <2>1. at \in 1..Len(deltas) /\ at \in Nat \ {0} /\ Len(deltas) \in Nat /\ Fit(d)
    BY <1>1, DeltasFit
  <2> QED BY <1>1, <2>1 DEF Sections, Laid
<1>3. GroupOK(d, g) /\ Plan(d, r) /\ KindOf(g) = "append" /\ Spelled(d, g, t)
  BY <1>1, <1>2, FileSpelled
<1>4. Len(r) = 1 /\ r[1] = g
  OBVIOUS
<1>5. Fine(d, r)
  <2> HIDE DEF d, r
  <2> QED BY <1>2, <1>3, <1>4 DEF Fine
<1>6. output' = output \o t
  <2> DEFINE h == <<Header("newfile", d.path)>>
             ts == TextTokens(CorpusLines(NewFile(d)))
             e == <<DotToken>>
  <2>1. Tokens(ts)
    <3>1. d \in Delta
      BY <1>2 DEF Fit
    <3> QED BY <3>1, NewFileLines, TextTokensAre
  <2>2. PICK S1, S2 : ts \in Seq(S1) /\ output \in Seq(S2)
    BY <2>1 DEF GenInv, Tokens, AllOf
  <2> DEFINE S == S1 \cup S2 \cup {Header("newfile", d.path), DotToken}
  <2>3. ts \in Seq(S) /\ output \in Seq(S)
    <3>1. S1 \subseteq S /\ S2 \subseteq S
      OBVIOUS
    <3> HIDE DEF S
    <3> QED BY <2>2, <3>1, SeqMonotonic
  <2>4. h \in Seq(S) /\ e \in Seq(S)
    OBVIOUS
  <2>5. output' = ((output \o h) \o ts) \o e /\ t = (h \o ts) \o e
    BY <1>1
  <2> HIDE DEF S, h, ts, e, t, d
  <2>7. /\ (output \o h) \o ts = output \o (h \o ts)
        /\ (output \o (h \o ts)) \o e = output \o ((h \o ts) \o e)
    <3>1. h \o ts \in Seq(S)
      BY <2>3, <2>4, ConcatProperties
    <3>2. (output \o h) \o ts = output \o (h \o ts)
      BY <2>3, <2>4, ConcatAssociative, SMTT(30)
    <3>3. (output \o (h \o ts)) \o e = output \o ((h \o ts) \o e)
      BY <2>3, <2>4, <3>1, ConcatAssociative, SMTT(30)
    <3> QED BY <3>2, <3>3
  <2> QED BY <2>5, <2>7, Zenon
<1> HIDE DEF g, r, p2, t
<1>7. /\ Tale(deltas, N, p2, output, a) /\ p2[at] = r /\ p2[a.n] = plan[a.n]
  BY <1>2, <1>5, TalePlanned DEF p2
<1>8. Follows(deltas, p2[a.n], a, NoteOf(at, 1, 0))
  <2>1. NoteOf(at, 1, 0).n = at /\ NoteOf(at, 1, 0).m = 1 /\ NoteOf(at, 1, 0).x = 0
    BY <1>2, NoteIs
  <2>2. Follows(deltas, plan[a.n], a, NoteOf(at, 1, 0))
    BY <1>1, <1>2, <2>1, OpensHere
  <2> QED BY <1>7, <2>2
<1>9. Tale(deltas, N, p2, output \o t, b)
  <2>1. LastOf(g) \in Nat /\ g = p2[at][1] /\ 1 <= Len(p2[at]) /\ 1 \in Nat \ {0} /\ at \in N
    <3>1. LastOf(g) \in Nat
      BY <1>2, <1>3, LastIs
    <3>2. p2[at][1] = r[1] /\ Len(p2[at]) = Len(r)
      BY <1>7
    <3>3. 1 <= Len(p2[at]) /\ 1 \in Nat \ {0}
      BY <1>4, <3>2
    <3> QED BY <1>4, <3>1, <3>2, <3>3
  <2>2. AnySeq(output)
    BY DEF GenInv, Tokens, AllOf, AnySeq
  <2> QED BY <1>2, <1>3, <1>7, <1>8, <2>1, <2>2, TaleOfCommand
<1>10. Laid' = N
  <2>1. Laid' = {n \in Sections(deltas) : n < at + 1}
    BY <1>1 DEF Laid
  <2>2. \A n \in Sections(deltas) : n < at + 1 <=> n < at \/ n = at
    BY <1>2, SectionsAre
  <2> QED BY <1>1, <1>2, <2>1, <2>2 DEF Laid
<1>11. b.n = at /\ b.m = 1 /\ b.x = LastOf(g)
  BY <1>2, <1>3, LastIs, NoteIs
<1>12. Over(p2[b.n], b) /\ \A k \in N : k <= b.n
  <2>1. Over(r, b)
    BY <1>4, <1>11 DEF Over
  <2>2. \A k \in N : k <= at
    BY <1>1, <1>2, SectionsAre DEF Laid
  <2> QED BY <1>7, <1>11, <2>1, <2>2
<1>13. PICK p, c : p = p2 /\ c = b
  OBVIOUS
<1> HIDE DEF b, p2
<1>14. Tale(deltas', Laid', p, output', c)
  BY <1>1, <1>6, <1>9, <1>10, <1>13
<1>15. Stage(p, c)'
  BY <1>1, <1>10, <1>12, <1>13 DEF Stage
<1> QED BY <1>14, <1>15 DEF Telling

\* When the callbacks are over the list of changes is the plan.
LEMMA EndOfDiffTells ==
    ASSUME GenInv, NEW plan, NEW a, Tale(deltas, Laid, plan, output, a), Stage(plan, a),
           EndOfDiff
    PROVE  Telling'
<1> DEFINE d == deltas[at]
<1>1. /\ phase = "diff" /\ deltas' = deltas /\ Diffing /\ at <= Len(deltas)
      /\ Encodable(d) /\ d.status = "modified"
  BY DEF EndOfDiff, Stage
<1>2. at \in 1..Len(deltas) /\ Fit(d) /\ at \in Nat \ {0} /\ Len(deltas) \in Nat
  BY <1>1, DeltasFit
<1>3. PICK r : Plan(d, r) /\ ToWrite(changes', d, r) /\ Len(r) = Len(changes')
  BY <1>1, <1>2, EndsDiff
<1>4. changes' = <<>> <=> Changed(d) = {}
  BY <1>1, <1>2, EndsDiff
<1>5. at \in Sections(deltas) <=> changes' # <<>>
  BY <1>1, <1>2, <1>4 DEF Sections
<1>6. CASE changes' = <<>>
  <2>1. phase' = "next" /\ at' = at + 1 /\ output' = output
    BY <1>6 DEF EndOfDiff
  <2> QED BY <1>1, <1>5, <1>6, <2>1, Passed
<1>7. CASE changes' # <<>>
  <2> DEFINE p2 == Laying(deltas, plan, at, r)
             N == Laid \cup {at}
             h == Header("file", d.path)
             b == NoteOf(at, 0, 0)
  <2>1. phase' = "emit" /\ at' = at /\ output' = Append(output, h)
    BY <1>7 DEF EndOfDiff
  <2>2. at \in Sections(deltas) /\ at \notin Laid
    BY <1>1, <1>2, <1>5, <1>7 DEF Laid
  <2>3. Fine(d, r)
    <3>1. Len(changes') \in Nat /\ Len(changes') # 0
      <4>1. PICK S : changes' \in Seq(S)
        BY <1>3 DEF ToWrite, AnySeq
      <4> QED BY <1>7, <4>1, EmptySeq
    <3> QED BY <1>1, <1>2, <1>3, <3>1 DEF Fine
  <2> HIDE DEF p2
  <2>4. Tale(deltas, N, p2, output, a) /\ p2[at] = r /\ p2[a.n] = plan[a.n]
    <3> HIDE DEF d
    <3>1. Len(deltas) \in Nat /\ Fine(deltas[at], r)
      BY <1>2, <2>3 DEF d
    <3> QED BY <2>2, <3>1, TalePlanned DEF p2
  <2>5. b.n = at /\ b.m = 0 /\ b.x = 0
    BY <1>2, NoteIs
  <2>6. Follows(deltas, p2[a.n], a, b)
    <3>1. Follows(deltas, plan[a.n], a, b)
      <4> HIDE DEF b
      <4> QED BY <1>1, <2>2, <2>5, OpensHere
    <3> QED BY <2>4, <3>1
  <2>7. AnySeq(output)
    BY DEF GenInv, Tokens, AllOf, AnySeq
  <2>8. Tale(deltas, N, p2, output \o <<h>>, b)
    BY <1>1, <1>2, <2>4, <2>6, <2>7, TaleHeaded
  <2>9. output' = output \o <<h>>
    <3>1. PICK S : output \in Seq(S)
      BY <2>7 DEF AnySeq
    <3> HIDE DEF h
    <3> DEFINE R == S \cup {h}
    <3>2. output \in Seq(R) /\ h \in R
      BY <3>1, SeqMonotonic
    <3> HIDE DEF R
    <3>3. Append(output, h) = output \o <<h>>
      BY <3>2, AppendProperties, ConcatProperties
    <3> QED BY <2>1, <3>3
  <2>10. Laid' = N
    BY <1>1, <2>1, <2>2 DEF Laid
  <2>p. PICK p, c : p = p2 /\ c = b
    OBVIOUS
  <2> HIDE DEF b
  <2>11. Tale(deltas', Laid', p, output', c)
    BY <1>1, <2>8, <2>9, <2>10, <2>p
  <2>12. ToWrite(changes', deltas'[at'], p[at']) /\ c.m + Len(changes') = Len(p[at'])
    <3>1. Len(changes') \in Nat
      BY <1>3 DEF ToWrite
    <3> QED BY <1>1, <1>3, <2>1, <2>4, <2>5, <2>p, <3>1
  <2>13. Stage(p, c)'
    BY <1>1, <2>1, <2>5, <2>10, <2>12, <2>p DEF Stage, Done
  <2> QED BY <2>11, <2>13 DEF Telling
<1> QED BY <1>6, <1>7

\* A change is written by the plan, the last of the file first (write_ed_hunks).
LEMMA EmitChangeTells ==
    ASSUME GenInv, NEW plan, NEW a, Tale(deltas, Laid, plan, output, a), Stage(plan, a),
           EmitChange
    PROVE  Telling'
<1> DEFINE d == deltas[at]
           r == plan[at]
           m == a.m + 1
           g == r[m]
           t == CommandTokens(changes[Len(changes)])
           b == NoteOf(at, m, LastOf(g))
<1>1. /\ phase = "emit" /\ changes # <<>> /\ output' = output \o t /\ changes' = Front(changes)
      /\ deltas' = deltas /\ at' = at /\ phase' = "emit"
  BY DEF EmitChange, diff
<1>2. /\ at \in Laid /\ d.status = "modified" /\ a.n = at /\ Done(r, a)
      /\ ToWrite(changes, d, r) /\ a.m + Len(changes) = Len(r)
  BY <1>1 DEF Stage
<1>3. at \in Nat \ {0} /\ Fit(d) /\ a.m \in Nat /\ Fine(d, r)
  BY <1>2, SectionsAre, TaleIs
<1>4. PICK S : changes \in Seq(S)
  BY <1>2 DEF ToWrite, AnySeq
<1>5. Len(changes) \in Nat \ {0} /\ Len(changes) <= Len(r) /\ Len(r) \in Nat
  <2>1. Len(r) \in Nat
    BY <1>3, PlanIs DEF Fine
  <2>2. Len(changes) \in Nat /\ Len(changes) # 0
    BY <1>1, <1>4, EmptySeq
  <2> QED BY <1>2, <2>1, <2>2 DEF ToWrite
<1>6. m \in Nat \ {0} /\ m <= Len(r) /\ m \in 1..Len(r) /\ Len(r) + 1 - Len(changes) = m
  BY <1>2, <1>3, <1>5
<1>7. GroupOK(d, g)
  BY <1>3, <1>6, PlanIs DEF Fine
<1>8. changes[Len(changes)] = ChangeOf(d, g)
  <2>1. Len(changes) \in 1..Len(changes)
    BY <1>5
  <2>2. changes[Len(changes)] = ChangeOf(d, r[Len(r) + 1 - Len(changes)])
    BY <1>2, <2>1 DEF ToWrite
  <2> QED BY <1>6, <2>2
<1>9. Spelled(d, g, t)
  BY <1>2, <1>3, <1>7, <1>8, ChangeSpelled
<1>10. LastOf(g) \in Nat
  BY <1>3, <1>7, LastIs
<1>11. Follows(deltas, plan[a.n], a, NoteOf(at, m, 0))
  <2>1. NoteOf(at, m, 0).n = at /\ NoteOf(at, m, 0).m = m /\ NoteOf(at, m, 0).x = 0
    <3>1. at \in Nat /\ m \in Nat /\ 0 \in Nat
      BY <1>3, <1>6
    <3> HIDE DEF m
    <3> QED BY <3>1, NoteIs, SMTT(30)
  <2> QED BY <1>2, <1>3, <2>1 DEF Follows
<1>12. AnySeq(output)
  BY DEF GenInv, Tokens, AllOf, AnySeq
<1>13. Tale(deltas, Laid, plan, output \o t, b)
  <2> HIDE DEF t, m
  <2> QED BY <1>2, <1>3, <1>6, <1>9, <1>10, <1>11, <1>12, TaleOfCommand
<1>14. Laid' = Laid
  BY <1>1 DEF Laid
<1>15. b.n = at /\ b.m = m /\ b.x = LastOf(g)
  BY DEF NoteOf
<1>16. /\ AnySeq(changes') /\ Len(changes') = Len(changes) - 1
       /\ \A j \in 1..Len(changes') : changes'[j] = changes[j]
  <2>1. Front(changes) = SubSeq(changes, 1, Len(changes) - 1)
    BY DEF Front
  <2>2. /\ SubSeq(changes, 1, Len(changes) - 1) \in Seq(S)
        /\ Len(SubSeq(changes, 1, Len(changes) - 1)) = Len(changes) - 1
        /\ \A j \in 1..(Len(changes) - 1) : SubSeq(changes, 1, Len(changes) - 1)[j] = changes[j]
    <3>1. Len(changes) - 1 \in Nat /\ 1 \in Int /\ Len(changes) - 1 - 1 + 1 = Len(changes) - 1
      BY <1>5
    <3>2. /\ SubSeq(changes, 1, Len(changes) - 1) \in Seq(S)
          /\ Len(SubSeq(changes, 1, Len(changes) - 1))
             = IF 1 <= Len(changes) - 1 THEN Len(changes) - 1 - 1 + 1 ELSE 0
          /\ \A x \in 1..(Len(changes) - 1 - 1 + 1) :
                SubSeq(changes, 1, Len(changes) - 1)[x] = changes[1 + x - 1]
      BY <1>4, <1>5, PartOfSeq
    <3>3. \A x \in Nat : 1 + x - 1 = x
      OBVIOUS
    <3> DEFINE f == SubSeq(changes, 1, Len(changes) - 1)
    <3> HIDE DEF f
    <3> QED BY <1>5, <3>1, <3>2, <3>3 DEF f
  <2> QED BY <1>1, <2>1, <2>2 DEF AnySeq
<1>17. ToWrite(changes', d, r)
  <2>1. Len(changes') \in 0..Len(r)
    BY <1>5, <1>16
  <2>2. ASSUME NEW j \in 1..Len(changes') PROVE changes'[j] = ChangeOf(d, r[Len(r) + 1 - j])
    <3>1. j \in 1..Len(changes)
      BY <1>5, <1>16
    <3>2. changes[j] = ChangeOf(d, r[Len(r) + 1 - j])
      BY <1>2, <3>1 DEF ToWrite
    <3> QED BY <1>16, <3>2
  <2> QED BY <1>16, <2>1, <2>2 DEF ToWrite
<1>18. b.m + Len(changes') = Len(r)
  BY <1>2, <1>3, <1>5, <1>15, <1>16
<1>19. Done(r, b)
  BY <1>15 DEF Done
<1>c. PICK c : c = b
  OBVIOUS
<1> HIDE DEF b, t, g
<1>20. Tale(deltas', Laid', plan, output', c)
  BY <1>1, <1>13, <1>14, <1>c
<1>21. Stage(plan, c)'
  BY <1>1, <1>2, <1>14, <1>15, <1>17, <1>18, <1>19, <1>c DEF Stage
<1> QED BY <1>20, <1>21 DEF Telling

-----------------------------------------------------------------------------
(* The whole output, and the bundle that is taken of it.                   *)

\* While a diff is taken nothing is written.
LEMMA DiffTells ==
    ASSUME GenInv, NEW plan, NEW a, Tale(deltas, Laid, plan, output, a), Stage(plan, a),
           phase \in {"next", "diff"}, phase' = "diff", deltas' = deltas, output' = output,
           at' = at, Diffing', at <= Len(deltas), Encodable(deltas[at]),
           deltas[at].status = "modified"
    PROVE  Telling'
<1>1. Laid' = Laid
  BY DEF Laid
<1>2. Tale(deltas', Laid', plan, output', a)
  BY <1>1
<1>3. Stage(plan, a)'
  BY <1>1 DEF Stage
<1> QED BY <1>2, <1>3 DEF Telling

\* Every step of the generator keeps the story.
LEMMA TellingNext ==
    ASSUME GenInv, Telling, Next
    PROVE  Telling'
<1>1. PICK plan, a : Tale(deltas, Laid, plan, output, a) /\ Stage(plan, a)
  BY DEF Telling
<1>2. phase = "diff" => /\ Diffing /\ at <= Len(deltas) /\ Encodable(deltas[at])
                        /\ deltas[at].status = "modified" /\ Fit(deltas[at])
  BY <1>1, DeltasFit DEF Stage
<1>3. CASE SkipDelta
  <2>1. /\ phase = "next" /\ at' = at + 1 /\ phase' = "next" /\ deltas' = deltas
        /\ output' = output /\ ~Encodable(deltas[at])
    BY <1>3 DEF SkipDelta, AtDelta
  <2>2. at \notin Sections(deltas)
    BY <2>1 DEF Sections
  <2> QED BY <1>1, <2>1, <2>2, Passed
<1>4. CASE EmitNewFile
  BY <1>1, <1>4, EmitNewFileTells
<1>5. CASE BeginDiff
  <2>1. /\ phase = "next" /\ at <= Len(deltas) /\ Encodable(deltas[at])
        /\ deltas[at].status = "modified" /\ phase' = "diff" /\ deltas' = deltas /\ at' = at
        /\ output' = output
    BY <1>5 DEF BeginDiff, AtDelta, diff
  <2>2. Diffing'
    BY <1>5, <2>1, DeltasFit, BeginDiffs
  <2> QED BY <1>1, <2>1, <2>2, DiffTells
<1>6. CASE Exit
  <2>1. /\ phase = "next" /\ at > Len(deltas) /\ phase' \in {"done", "died"} /\ deltas' = deltas
        /\ at' = at /\ output' = output
    BY <1>6 DEF Exit, diff
  <2>2. Laid' = Laid
    BY <2>1 DEF Laid
  <2>3. Tale(deltas', Laid', plan, output', a)
    BY <1>1, <2>1, <2>2
  <2>4. Stage(plan, a)'
    BY <1>1, <2>1, <2>2 DEF Stage
  <2> QED BY <2>3, <2>4 DEF Telling
<1>7. CASE HunkCb \/ Context \/ Deletion \/ Addition \/ EofNl
  <2>1. /\ phase = "diff" /\ phase' = "diff" /\ deltas' = deltas /\ at' = at /\ output' = output
    BY <1>7 DEF HunkCb, Context, Deletion, Addition, EofNl, Incoming, Take, diff
  <2>2. Diffing'
    BY <1>2, <1>7, <2>1, HunkCbDiffs, ContextDiffs, DeletionDiffs, AdditionDiffs, EofNlDiffs
  <2> QED BY <1>1, <1>2, <2>1, <2>2, DiffTells
<1>8. CASE EndOfDiff
  BY <1>1, <1>8, EndOfDiffTells
<1>9. CASE EmitChange
  BY <1>1, <1>9, EmitChangeTells
<1>10. CASE EndOfFile
  <2>1. /\ phase = "emit" /\ changes = <<>> /\ at' = at + 1 /\ phase' = "next"
        /\ deltas' = deltas /\ output' = output
    BY <1>10 DEF EndOfFile
  <2> QED BY <1>1, <2>1, Passed
<1> QED BY <1>3, <1>4, <1>5, <1>6, <1>7, <1>8, <1>9, <1>10 DEF Next

\* The whole of the output, with the notes on its lines.
Book(ds, plan, note, out) ==
    /\ Story(ds, Sections(ds), plan, note, out)
    /\ LET last == note[Len(note)]
       IN  Over(plan[last.n], last) /\ \A k \in Sections(ds) : k <= last.n

\* The generator has ended.
Ended == phase \in {"done", "died"}

\* When the generator has ended, a story tells the whole output.
LEMMA BookIs ==
    ASSUME GenInv, Telling, Ended
    PROVE  \E plan, note : Book(deltas, plan, note, output)
<1>1. PICK plan, a : Tale(deltas, Laid, plan, output, a) /\ Stage(plan, a)
  BY DEF Telling
<1>2. Laid = Sections(deltas)
  <2>1. at > Len(deltas) /\ phase # "emit"
    BY <1>1 DEF Stage, Ended
  <2> QED BY <2>1, SectionsAre, DeltasFit DEF Laid
<1>3. PICK note : Story(deltas, Sections(deltas), plan, note, output) /\ note[Len(note)] = a
  BY <1>1, <1>2 DEF Tale
<1>4. Over(plan[a.n], a) /\ \A k \in Sections(deltas) : k <= a.n
  BY <1>1, <1>2 DEF Stage, Ended
<1> QED BY <1>3, <1>4 DEF Book

-----------------------------------------------------------------------------
(* What a file may be that holds the output or a part of it.               *)

\* The bundle is the output up to some line, and of its last line perhaps a part.
Taken(b, out) ==
    \A k \in 1..Len(b) : /\ k \in 1..Len(out)
                         /\ b[k] = out[k] \/ (k = Len(b) /\ b[k] \in Remains(out[k]))

\* A cut bundle is a part of the output.
LEMMA PartTaken ==
    ASSUME GenInv, NEW part \in Parts
    PROVE  Taken(part, output)
<1>1. PICK S : output \in Seq(S)
  BY DEF GenInv, Tokens, AllOf
<1>2. Len(output) \in Nat /\ DOMAIN output = 1..Len(output)
  BY <1>1
<1>3. CASE \E n \in 0..Len(output) : part = SubSeq(output, 1, n)
  <2>1. PICK n \in 0..Len(output) : part = SubSeq(output, 1, n)
    BY <1>3
  <2>2. Len(part) = n /\ \A k \in 1..n : part[k] = output[k]
    <3>1. 1 \in Int /\ n \in Nat /\ n - 1 + 1 = n
      BY <1>2
    <3>2. /\ Len(SubSeq(output, 1, n)) = IF 1 <= n THEN n - 1 + 1 ELSE 0
          /\ \A x \in 1..(n - 1 + 1) : SubSeq(output, 1, n)[x] = output[1 + x - 1]
      BY <1>1, <1>2, <3>1, PartOfSeq
    <3>3. \A x \in Nat : 1 + x - 1 = x
      OBVIOUS
    <3> DEFINE f == SubSeq(output, 1, n)
    <3>4. part = f
      BY <2>1
    <3> HIDE DEF f
    <3> QED BY <3>1, <3>2, <3>3, <3>4 DEF f
  <2> QED BY <1>2, <2>2 DEF Taken
<1>4. CASE \E n \in DOMAIN output : \E tok \in Remains(output[n]) :
              part = Append(SubSeq(output, 1, n - 1), tok)
  <2>p. PICK n \in 1..Len(output) :
           \E tok \in Remains(output[n]) : part = Append(SubSeq(output, 1, n - 1), tok)
    BY <1>2, <1>4
  <2>1. PICK tok \in Remains(output[n]) : part = Append(SubSeq(output, 1, n - 1), tok)
    BY <2>p
  <2> DEFINE f == SubSeq(output, 1, n - 1)
  <2>2. f \in Seq(S) /\ Len(f) = n - 1 /\ \A k \in 1..(n - 1) : f[k] = output[k]
    <3>1. 1 \in Int /\ n - 1 \in Nat /\ n - 1 - 1 + 1 = n - 1 /\ n - 1 <= Len(output)
      BY <1>2
    <3>2. /\ f \in Seq(S) /\ Len(f) = IF 1 <= n - 1 THEN n - 1 - 1 + 1 ELSE 0
          /\ \A x \in 1..(n - 1 - 1 + 1) : f[x] = output[1 + x - 1]
      BY <1>1, <1>2, <3>1, PartOfSeq
    <3>3. \A x \in Nat : 1 + x - 1 = x
      OBVIOUS
    <3> HIDE DEF f
    <3> QED BY <3>1, <3>2, <3>3
  <2>3. part = Append(f, tok)
    BY <2>1
  <2> HIDE DEF f
  <2>4. f \in Seq(S \cup {tok})
    BY <2>2, SeqMonotonic
  <2>5. Len(part) = n /\ part[n] = tok /\ \A k \in 1..(n - 1) : part[k] = output[k]
    BY <2>2, <2>3, <2>4, AppendProperties
  <2>6. \A k \in 1..n : k \in 1..Len(output) /\ (k \in 1..(n - 1) \/ k = n)
    BY <1>2
  <2> QED BY <2>1, <2>5, <2>6 DEF Taken
<1> QED BY <1>3, <1>4 DEF Parts

\* The whole output is a part of it.
LEMMA OutputTaken ==
    ASSUME GenInv
    PROVE  Taken(output, output)
BY DEF Taken

-----------------------------------------------------------------------------
(* The commands as the parser reads them.                                  *)

\* Command c of the bundle is the one for the group, with x lines of text.
Reads(b, c, d, g, x) ==
    /\ c \in P!Cmd /\ x \in 0..LinesOf(g) /\ Len(c.input) = x
    /\ b[c.at] = HeadOf(d, g)
    /\ \A y \in 1..x : b[c.input[y]] = TextToken(Written(d, g.mid + y - 1))

\* A command that was read to its end is the command of the group.
LEMMA CommandRead ==
    ASSUME NEW d, Fit(d), d.status \in {"added", "modified"}, NEW g, GroupOK(d, g), NEW c,
           Reads(bundle, c, d, g, LinesOf(g))
    PROVE  ReadCommand(c) = CommandOf(d, g)
<1>1. /\ g.from \in Nat /\ g.mid \in Nat /\ g.to \in Nat /\ g.from <= g.mid /\ g.mid <= g.to
      /\ g.from \in 1..(Len(d.ops) + 1) /\ g.mid \in 1..(Len(d.ops) + 1) /\ Len(d.ops) \in Nat
  BY GroupIs, OpsAre
<1>2. /\ c.input \in Seq(Nat) /\ Len(c.input) = LinesOf(g) /\ bundle[c.at] = HeadOf(d, g)
      /\ LinesOf(g) = g.to - g.mid
      /\ \A y \in 1..LinesOf(g) : bundle[c.input[y]] = TextToken(Written(d, g.mid + y - 1))
  BY DEF Reads, P!Cmd, LinesOf
<1> DEFINE text == [n \in DOMAIN c.input |-> ReadPiece(bundle[c.input[n]].line)]
<1>3. text = TextOf(d, g)
  <2>1. DOMAIN c.input = 1..(g.to - g.mid)
    BY <1>2
  <2>t. \A l : TextToken(l).line = l
    BY DEF TextToken
  <2>2. ASSUME NEW y \in 1..(g.to - g.mid)
        PROVE  bundle[c.input[y]].line = Written(d, g.mid + y - 1)
    <3>1. bundle[c.input[y]] = TextToken(Written(d, g.mid + y - 1))
      BY <1>2
    <3> QED BY <2>t, <3>1
  <2> QED BY <2>1, <2>2 DEF TextOf
<1> HIDE DEF text
<1>4. CASE d.status = "added"
  <2>1. \A p \in 1..Len(d.ops) : d.ops[p] = "add"
    <3>1. OldLen(d) = 0
      BY <1>4 DEF Fit, Possible
    <3> TAKE p \in 1..Len(d.ops)
    <3>2. d.ops[p] # "add" => OldBefore(d, p) < 0
      BY <3>1, FilesAre
    <3>3. OldBefore(d, p) \in Nat
      <4>1. p \in 1..(Len(d.ops) + 1)
        BY <1>1
      <4> QED BY <4>1, BeforeAre
    <3> QED BY <3>2, <3>3
  <2>2. g.from = g.mid
    <3>1. ASSUME g.from < g.mid PROVE FALSE
      <4>1. g.from \in 1..Len(d.ops) /\ g.from <= g.from
        BY <1>1, <3>1
      <4>2. d.ops[g.from] = "del"
        BY <3>1, <4>1 DEF GroupOK
      <4> QED BY <2>1, <4>1, <4>2
    <3> QED BY <1>1, <3>1
  <2>3. OldBefore(d, g.from) = 0
    <3>1. OldLen(d) = 0
      BY <1>4 DEF Fit, Possible
    <3> QED BY <1>1, <3>1, BeforeAre
  <2>4. KindOf(g) = "append" /\ StartOf(d, g) = 0 /\ EndOf(d, g) = 0
    BY <1>1, <2>2, <2>3 DEF KindOf, StartOf, EndOf
  <2>5. bundle[c.at].t = "newfile"
    BY <1>2, <1>4 DEF HeadOf, Header
  <2>6. ReadCommand(c) = [kind |-> "append", start |-> 0, end |-> 0, input |-> text]
    BY <2>5 DEF ReadCommand, text
  <2> QED BY <1>3, <2>4, <2>6 DEF CommandOf
<1>5. CASE d.status = "modified"
  <2> DEFINE q == [kind |-> KindOf(g), start |-> StartOf(d, g), end |-> EndOf(d, g)]
  <2>1. bundle[c.at].t \in {"delete", "input"} /\ bundle[c.at].cmd = q
    BY <1>2, <1>5 DEF HeadOf
  <2>2. q.kind = KindOf(g) /\ q.start = StartOf(d, g) /\ q.end = EndOf(d, g)
    OBVIOUS
  <2> HIDE DEF q
  <2>3. ReadCommand(c) = [kind |-> q.kind, start |-> q.start, end |-> q.end, input |-> text]
    BY <2>1 DEF ReadCommand, text
  <2> QED BY <1>3, <2>2, <2>3 DEF CommandOf
<1> QED BY <1>4, <1>5

-----------------------------------------------------------------------------
(* What the parser has when it has read up to a note.                      *)

\* An entry of the index with the first n commands of a section.
EntryIs(b, e, ds, plan, k, n) ==
    /\ e.key = Canonical[ds[k].path] /\ (e.creates <=> ds[k].status = "added")
    /\ e.commands \in Seq(P!Cmd) /\ Len(e.commands) = n
    /\ \A m \in 1..n : Reads(b, e.commands[m], ds[k], plan[k][m], LinesOf(plan[k][m]))

\* An entry with all of its commands, and one with some.
Full(b, e, ds, plan, k) == EntryIs(b, e, ds, plan, k, Len(plan[k]))
Brief(b, e, ds, plan, k) == \E n \in 1..Len(plan[k]) : EntryIs(b, e, ds, plan, k, n)

\* The index of the sections before delta n.
IndexIs(b, ix, ds, plan, n) ==
    /\ Len(ix) = Count(Sections(ds), n)
    /\ \A k \in Sections(ds) : k < n => Full(b, ix[Count(Sections(ds), k) + 1], ds, plan, k)
    /\ \A j \in 1..Len(ix) : \E k \in Sections(ds) : k < n /\ j = Count(Sections(ds), k) + 1

\* Every entry of an index is the beginning of some section.
Kept(b, ix, ds, plan) ==
    \A j \in 1..Len(ix) : \E k \in Sections(ds) : Brief(b, ix[j], ds, plan, k)

\* Of a section the commands that are complete at line a, and the one that is not.
Complete(r, a) == IF Done(r, a) THEN a.m ELSE a.m - 1

\* The command being read, if the note is not at the end of one.
Underway(b, pend, ds, r, a) ==
    IF Done(r, a) THEN pend = <<>>
    ELSE /\ pend # <<>> /\ a.m \in 1..Len(r)
         /\ Reads(b, pend[1], ds[a.n], r[a.m], a.x)

\* The parser after line a.
Sync(b, ix, sec, pend, ds, plan, a) ==
    \/ a.n = 0 /\ ix = <<>> /\ sec = <<>> /\ pend = <<>>
    \/ /\ a.n # 0 /\ a.n \in Sections(ds) /\ sec # <<>>
       /\ IndexIs(b, ix, ds, plan, a.n)
       /\ EntryIs(b, sec[1], ds, plan, a.n, Complete(plan[a.n], a))
       /\ ds[a.n].status = "added" => a.m = 1
       /\ Underway(b, pend, ds, plan[a.n], a)

\* A line of text that was a lone dot has ended the command too early.
Lost(pend, ds, plan, a) ==
    /\ pend = <<>> /\ LoneDot
    /\ a.n \in Sections(ds) /\ a.m \in 1..Len(plan[a.n])
    /\ KindOf(plan[a.n][a.m]) # "delete" /\ a.x \in 1..LinesOf(plan[a.n][a.m])

\* The sections are finitely many.
LEMMA SetIs ==
    ASSUME NEW ds, Len(ds) \in Nat
    PROVE  /\ Sections(ds) \in SUBSET (Nat \ {0}) /\ IsFiniteSet(Sections(ds))
           /\ Sections(ds) \subseteq 1..Len(ds)
<1>1. Sections(ds) \subseteq 1..Len(ds) /\ IsFiniteSet(1..Len(ds))
  BY FS_Interval DEF Sections
<1> QED BY <1>1, FS_Subset

\* An index of whole entries has beginnings of sections.
LEMMA FullKept ==
    ASSUME NEW b, NEW ix, NEW ds, NEW plan, NEW n, IndexIs(b, ix, ds, plan, n),
           \A k \in Sections(ds) : Fine(ds[k], plan[k])
    PROVE  Kept(b, ix, ds, plan)
<1> SUFFICES ASSUME NEW j \in 1..Len(ix)
             PROVE  \E k \in Sections(ds) : Brief(b, ix[j], ds, plan, k)
  BY DEF Kept
<1>1. PICK k \in Sections(ds) : k < n /\ j = Count(Sections(ds), k) + 1
  BY DEF IndexIs
<1>2. EntryIs(b, ix[j], ds, plan, k, Len(plan[k]))
  BY <1>1 DEF IndexIs, Full
<1>3. Len(plan[k]) \in 1..Len(plan[k])
  BY PlanIs DEF Fine
<1>4. Brief(b, ix[j], ds, plan, k)
  BY <1>2, <1>3 DEF Brief
<1> QED BY <1>4

\* The index when the section at hand is done with, and all up to delta n.
LEMMA Flushes ==
    ASSUME NEW ds, Len(ds) \in Nat, NEW b, NEW ix \in Seq(P!Entry), NEW sec, NEW pend, NEW plan,
           \A k \in Sections(ds) : Fine(ds[k], plan[k]),
           NEW a, Sync(b, ix, sec, pend, ds, plan, a), sec \in Seq(P!Entry),
           Over(plan[a.n], a), NEW n \in Nat,
           a.n < n, \A k \in Sections(ds) : k <= a.n \/ n <= k
    PROVE  pend = <<>> /\ IndexIs(b, FlushOf(ix, sec), ds, plan, n)
<1> DEFINE S == Sections(ds)
<1>1. S \in SUBSET (Nat \ {0}) /\ IsFiniteSet(S)
  BY SetIs
<1>2. CASE a.n = 0
  <2>1. ix = <<>> /\ sec = <<>> /\ pend = <<>>
    BY <1>2 DEF Sync
  <2>2. FlushOf(ix, sec) = <<>>
    BY <2>1 DEF FlushOf
  <2>3. {q \in S : q < n} = {}
    <3> SUFFICES ASSUME NEW q \in S, q < n PROVE FALSE
      OBVIOUS
    <3>1. q \in Nat \ {0} /\ (q <= 0 \/ n <= q)
      BY <1>1, <1>2
    <3> QED BY <3>1
  <2>4. Count(S, n) = 0
    BY <2>3, FS_EmptySet DEF Count
  <2>5. \A k \in S : ~(k < n)
    BY <2>3
  <2>6. Len(<<>>) = 0
    OBVIOUS
  <2> QED BY <2>1, <2>2, <2>4, <2>5, <2>6 DEF IndexIs
<1>3. CASE a.n # 0
  <2> DEFINE r == plan[a.n]
  <2>1. /\ a.n \in S /\ sec # <<>> /\ IndexIs(b, ix, ds, plan, a.n)
        /\ EntryIs(b, sec[1], ds, plan, a.n, Complete(r, a)) /\ Underway(b, pend, ds, r, a)
    BY <1>3 DEF Sync
  <2>2. a.m = Len(r) /\ Done(r, a)
    BY <1>3 DEF Over, Done
  <2>3. Full(b, sec[1], ds, plan, a.n)
    BY <2>1, <2>2 DEF Full, Complete
  <2>4. pend = <<>>
    BY <2>1, <2>2 DEF Underway
  <2>5. sec[1].commands # <<>>
    <3>1. Len(sec[1].commands) = Len(r) /\ Len(r) >= 1
      BY <2>1, <2>3 DEF Full, EntryIs, Fine
    <3>2. Len(<<>>) = 0
      OBVIOUS
    <3> QED BY <3>1, <3>2
  <2> DEFINE iy == FlushOf(ix, sec)
             L == Len(ix)
  <2>6. iy = Append(ix, sec[1])
    BY <2>1, <2>5 DEF FlushOf
  <2>7. sec[1] \in P!Entry
    BY <2>1
  <2> HIDE DEF iy
  <2>8. L \in Nat /\ Len(iy) = L + 1 /\ iy[L + 1] = sec[1] /\ \A j \in 1..L : iy[j] = ix[j]
    BY <2>6, <2>7
  <2>9. a.n \in Nat /\ L = Count(S, a.n)
    BY <1>1, <2>1 DEF IndexIs
  <2>10. \A k \in S : k < n <=> (k < a.n \/ k = a.n)
    <3> TAKE k \in S
    <3>1. k \in Nat /\ (k <= a.n \/ n <= k)
      BY <1>1
    <3> QED BY <2>9, <3>1
  <2>11. Count(S, n) = L + 1
    <3>1. Count(S, a.n + 1) = Count(S, a.n) + 1
      BY <1>1, <2>1, <2>9, CountIs
    <3>2. {q \in S : q < n} = {q \in S : q < a.n + 1}
      <4> SUFFICES ASSUME NEW q \in S PROVE q < n <=> q < a.n + 1
        OBVIOUS
      <4>1. q \in Nat
        BY <1>1
      <4> QED BY <2>9, <2>10, <4>1
    <3> QED BY <2>9, <3>1, <3>2 DEF Count
  <2> HIDE DEF L
  <2>12. ASSUME NEW k \in S, k < n PROVE Full(b, iy[Count(S, k) + 1], ds, plan, k)
    <3>1. CASE k < a.n
      <4>1. Full(b, ix[Count(S, k) + 1], ds, plan, k)
        BY <2>1, <3>1 DEF IndexIs
      <4>2. Count(S, k) + 1 \in 1..L
        <5>1. k \in Nat /\ k + 1 \in Nat /\ k + 1 <= a.n /\ Count(S, k) \in Nat
          <6>1. k \in Nat
            BY <1>1
          <6>2. Count(S, k) \in 0..Cardinality(S) /\ Cardinality(S) \in Nat
            BY <1>1, <6>1, CountIs
          <6> QED BY <2>9, <3>1, <6>1, <6>2
        <5>2. Count(S, k + 1) <= Count(S, a.n) /\ Count(S, k + 1) = Count(S, k) + 1
          BY <1>1, <2>9, <5>1, CountIs, CountGrows
        <5> QED BY <2>8, <2>9, <5>1, <5>2
      <4> QED BY <2>8, <4>1, <4>2
    <3>2. CASE k = a.n
      BY <2>3, <2>8, <2>9, <3>2
    <3> QED BY <2>10, <2>12, <3>1, <3>2
  <2>13. ASSUME NEW j \in 1..Len(iy) PROVE \E k \in S : k < n /\ j = Count(S, k) + 1
    <3>1. CASE j \in 1..L
      <4>1. PICK k \in S : k < a.n /\ j = Count(S, k) + 1
        BY <2>1, <3>1 DEF IndexIs, L
      <4> QED BY <2>10, <4>1
    <3>2. CASE j = L + 1
      BY <2>1, <2>9, <2>10, <3>2
    <3> QED BY <2>8, <3>1, <3>2
  <2>14. IndexIs(b, iy, ds, plan, n)
    BY <2>8, <2>11, <2>12, <2>13 DEF IndexIs
  <2> QED BY <2>4, <2>14 DEF iy
<1> QED BY <1>2, <1>3

\* Between two commands every entry is the beginning of a section.
LEMMA FlushKept ==
    ASSUME NEW ds, Len(ds) \in Nat, NEW b, NEW ix \in Seq(P!Entry), NEW sec, NEW plan,
           \A k \in Sections(ds) : Fine(ds[k], plan[k]),
           NEW a, a.m \in Nat, Sync(b, ix, sec, <<>>, ds, plan, a), sec \in Seq(P!Entry),
           a.n # 0 => a.m \in 0..Len(plan[a.n])
    PROVE  Kept(b, FlushOf(ix, sec), ds, plan)
<1>1. CASE a.n = 0
  <2>1. FlushOf(ix, sec) = <<>>
    BY <1>1 DEF Sync, FlushOf
  <2>2. Len(<<>>) = 0
    OBVIOUS
  <2> QED BY <2>1, <2>2 DEF Kept
<1>2. CASE a.n # 0
  <2> DEFINE r == plan[a.n]
  <2>1. /\ a.n \in Sections(ds) /\ sec # <<>> /\ IndexIs(b, ix, ds, plan, a.n)
        /\ EntryIs(b, sec[1], ds, plan, a.n, Complete(r, a)) /\ Underway(b, <<>>, ds, r, a)
    BY <1>2 DEF Sync
  <2>2. Done(r, a)
    BY <2>1 DEF Underway
  <2>3. EntryIs(b, sec[1], ds, plan, a.n, a.m)
    BY <2>1, <2>2 DEF Complete
  <2>4. Kept(b, ix, ds, plan)
    BY <2>1, FullKept
  <2>5. CASE sec[1].commands = <<>>
    BY <2>4, <2>5 DEF FlushOf
  <2>6. CASE sec[1].commands # <<>>
    <3> DEFINE iy == FlushOf(ix, sec)
    <3>1. iy = Append(ix, sec[1])
      BY <2>1, <2>6 DEF FlushOf
    <3>2. sec[1] \in P!Entry
      BY <2>1
    <3> HIDE DEF iy
    <3>3. /\ Len(ix) \in Nat /\ Len(iy) = Len(ix) + 1 /\ iy[Len(ix) + 1] = sec[1]
          /\ \A j \in 1..Len(ix) : iy[j] = ix[j]
      BY <3>1, <3>2
    <3>4. a.m \in 1..Len(r)
      <4>1. a.m = Len(sec[1].commands) /\ sec[1].commands \in Seq(P!Cmd)
        BY <2>3 DEF EntryIs
      <4>2. a.m # 0
        BY <2>6, <4>1, EmptySeq
      <4> QED BY <1>2, <4>2
    <3>5. Brief(b, sec[1], ds, plan, a.n)
      BY <2>3, <3>4 DEF Brief
    <3>6. ASSUME NEW j \in 1..Len(iy) PROVE \E k \in Sections(ds) : Brief(b, iy[j], ds, plan, k)
      <4>1. CASE j \in 1..Len(ix)
        BY <2>4, <3>3, <4>1 DEF Kept
      <4>2. CASE j = Len(ix) + 1
        BY <2>1, <3>3, <3>5, <4>2
      <4> QED BY <3>3, <4>1, <4>2
    <3>7. Kept(b, iy, ds, plan)
      BY <3>6 DEF Kept
    <3> QED BY <3>7 DEF iy
  <2> QED BY <2>5, <2>6
<1> QED BY <1>1, <1>2

(* What the steps of the parser do to a command and to an entry.           *)

\* A text line goes to the command being read.
LEMMA InputIs ==
    ASSUME ParserInv, P!InputLine
    PROVE  /\ pending # <<>> /\ pending[1] \in P!Cmd
           /\ pending' # <<>> /\ pending'[1] \in P!Cmd
           /\ pending'[1].at = pending[1].at /\ pending'[1].input = Append(pending[1].input, i)
           /\ index' = index /\ section' = section
<1>1. /\ pending \in Seq(P!Cmd) /\ i \in Nat /\ pending # <<>>
      /\ index' = index /\ section' = section
      /\ pending' = [pending EXCEPT ![1].input = Append(@, i)]
  BY DEF ParserInv, P!TypeOK, P!InputLine, P!AnyLine, P!InInput, P!Advance
<1>2. 1 \in DOMAIN pending /\ pending[1] \in P!Cmd
  BY <1>1
<1> DEFINE c == [pending[1] EXCEPT !.input = Append(@, i)]
<1>3. c \in P!Cmd /\ c.at = pending[1].at /\ c.input = Append(pending[1].input, i)
  <2>1. Append(pending[1].input, i) \in Seq(Nat)
    BY <1>1, <1>2, EndIs
  <2> QED BY <1>2, <2>1 DEF P!Cmd
<1>4. pending' = [pending EXCEPT ![1] = c]
  BY <1>1
<1> HIDE DEF c
<1>5. pending' \in Seq(P!Cmd) /\ pending' # <<>> /\ pending'[1] = c
  <2>1. pending \in Seq(P!Cmd) /\ 1 \in 1..Len(pending)
    BY <1>1, <1>2
  <2>2. pending' \in Seq(P!Cmd) /\ Len(pending') = Len(pending) /\ pending'[1] = c
    BY <1>3, <1>4, <2>1, ExceptSeq
  <2>3. pending' # <<>>
    BY <2>1, <2>2
  <2> QED BY <2>2, <2>3
<1> QED BY <1>1, <1>2, <1>3, <1>5

\* A finished command goes to the open entry.
LEMMA AddedIs ==
    ASSUME ParserInv, NEW c \in P!Cmd, P!AddCommand(c), section # <<>>
    PROVE  /\ section' # <<>> /\ section'[1].key = section[1].key
           /\ section'[1].creates = section[1].creates
           /\ section'[1].commands = Append(section[1].commands, c)
<1>1. section \in Seq(P!Entry) /\ section # <<>> /\ 1 \in DOMAIN section /\ section[1] \in P!Entry
  BY DEF ParserInv, P!TypeOK
<1> DEFINE e == [section[1] EXCEPT !.commands = Append(@, c)]
<1>2. /\ e.key = section[1].key /\ e.creates = section[1].creates
      /\ e.commands = Append(section[1].commands, c)
  BY <1>1 DEF P!Entry
<1>3. e \in P!Entry
  <2>1. section[1] \in P!Entry
    BY <1>1
  <2>2. [section[1] EXCEPT !.commands = Append(@, c)] \in P!Entry
    BY <2>1, CommandAdded
  <2> QED BY <2>2
<1>4. section' = [section EXCEPT ![1] = e]
  BY DEF P!AddCommand
<1> HIDE DEF e
<1>5. section' \in Seq(P!Entry) /\ section' # <<>> /\ section'[1] = e
  BY <1>1, <1>3, <1>4, ExceptSeq
<1> QED BY <1>2, <1>5

\* A command that was begun has no text.
LEMMA ReadsNew ==
    ASSUME NEW b, NEW k \in Nat, NEW d, NEW g, b[k] = HeadOf(d, g), LinesOf(g) \in Nat
    PROVE  Reads(b, New(k), d, g, 0)
<1>1. New(k) \in P!Cmd /\ New(k).at = k /\ New(k).input = <<>>
  BY NewIs DEF New
<1>2. Len(<<>>) = 0 /\ 0 \in 0..LinesOf(g)
  OBVIOUS
<1> QED BY <1>1, <1>2 DEF Reads

\* A command with one more line of its text.
LEMMA ReadsMore ==
    ASSUME NEW b, NEW c, NEW d, NEW g, NEW x \in Nat, Reads(b, c, d, g, x),
           LinesOf(g) \in Nat, x + 1 <= LinesOf(g),
           NEW c2 \in P!Cmd, NEW k \in Nat, c2.at = c.at, c2.input = Append(c.input, k),
           b[k] = TextToken(Written(d, g.mid + (x + 1) - 1))
    PROVE  Reads(b, c2, d, g, x + 1)
<1>1. /\ c \in P!Cmd /\ c.input \in Seq(Nat) /\ Len(c.input) = x /\ b[c.at] = HeadOf(d, g)
      /\ \A y \in 1..x : b[c.input[y]] = TextToken(Written(d, g.mid + y - 1))
  BY DEF Reads, P!Cmd
<1> DEFINE T(z) == TextToken(Written(d, g.mid + z - 1))
<1>t. b[k] = T(x + 1) /\ \A y \in 1..x : b[c.input[y]] = T(y)
  BY <1>1
<1> HIDE DEF T
<1>2. Len(c2.input) = x + 1 /\ c2.input[x + 1] = k /\ \A y \in 1..x : c2.input[y] = c.input[y]
  BY <1>1, AppendProperties
<1>3. ASSUME NEW y \in 1..(x + 1)
      PROVE  b[c2.input[y]] = T(y)
  <2>1. CASE y \in 1..x
    BY <1>t, <1>2, <2>1
  <2>2. CASE y = x + 1
    <3>1. c2.input[y] = k /\ T(y) = T(x + 1)
      BY <1>2, <2>2
    <3> QED BY <1>t, <3>1, Zenon
  <2>3. y \in 1..x \/ y = x + 1
    OBVIOUS
  <2> QED BY <2>1, <2>2, <2>3, Zenon
<1>4. x + 1 \in 0..LinesOf(g)
  OBVIOUS
<1> QED BY <1>1, <1>2, <1>3, <1>4 DEF Reads, T

\* An entry with one more command of its plan.
LEMMA EntryAdds ==
    ASSUME NEW b, NEW e, NEW ds, NEW plan, NEW k, NEW n \in Nat, EntryIs(b, e, ds, plan, k, n),
           NEW c, Reads(b, c, ds[k], plan[k][n + 1], LinesOf(plan[k][n + 1])),
           NEW e2, e2.key = e.key, e2.creates = e.creates, e2.commands = Append(e.commands, c)
    PROVE  EntryIs(b, e2, ds, plan, k, n + 1)
<1>1. /\ e.commands \in Seq(P!Cmd) /\ Len(e.commands) = n /\ c \in P!Cmd
      /\ e.key = Canonical[ds[k].path] /\ (e.creates <=> ds[k].status = "added")
      /\ \A m \in 1..n : Reads(b, e.commands[m], ds[k], plan[k][m], LinesOf(plan[k][m]))
  BY DEF EntryIs, Reads
<1> DEFINE R(z, w) == Reads(b, w, ds[k], plan[k][z], LinesOf(plan[k][z]))
<1>r. R(n + 1, c) /\ \A m \in 1..n : R(m, e.commands[m])
  BY <1>1
<1> HIDE DEF R
<1>2. /\ e2.commands \in Seq(P!Cmd) /\ Len(e2.commands) = n + 1 /\ e2.commands[n + 1] = c
      /\ \A m \in 1..n : e2.commands[m] = e.commands[m]
  BY <1>1, AppendProperties
<1>3. ASSUME NEW m \in 1..(n + 1)
      PROVE  R(m, e2.commands[m])
  <2>1. CASE m \in 1..n
    BY <1>r, <1>2, <2>1
  <2>2. CASE m = n + 1
    <3> DEFINE N == n + 1
    <3>1. e2.commands[N] = c /\ R(N, c) /\ m = N
      BY <1>r, <1>2, <2>2
    <3> HIDE DEF N
    <3>2. R(N, e2.commands[N])
      BY <3>1, Zenon
    <3> QED BY <3>1, <3>2, Zenon
  <2>3. m \in 1..n \/ m = n + 1
    OBVIOUS
  <2> QED BY <2>1, <2>2, <2>3, Zenon
<1> QED BY <1>1, <1>2, <1>3 DEF EntryIs, R

\* The kinds of the lines that the generator writes.
LEMMA TokensTold ==
    /\ \A l : TextToken(l).t \in {"dot", "blank", "text"} /\ TextToken(l).line = l
    /\ \A l : TextToken(l).t = "dot" => l = PlainLine(Dot)
    /\ DotToken.t = "dot"
    /\ \A kind, p : Header(kind, p).t = kind /\ Header(kind, p).path = p
    /\ \A d, g : /\ d.status = "added" => HeadOf(d, g).t = "newfile"
                                          /\ HeadOf(d, g).path = d.path
                 /\ d.status # "added" => HeadOf(d, g).t = IF KindOf(g) = "delete" THEN "delete"
                                                           ELSE "input"
<1>1. \A l : TextToken(l).t \in {"dot", "blank", "text"} /\ TextToken(l).line = l
  BY DEF TextToken
<1>2. \A l : TextToken(l).t = "dot" => l = PlainLine(Dot)
  BY DEF TextToken
<1>3. DotToken.t = "dot"
  <2>1. TextToken(PlainLine(Dot)).t =
            CASE PlainLine(Dot) = PlainLine(Dot) -> "dot"
              [] PlainLine(Dot).core = NoCore /\ Feeds(PlainLine(Dot).trail) = {} -> "blank"
              [] OTHER -> "text"
    BY DEF TextToken
  <2>2. PlainLine(Dot).core # NoCore
    BY ChangesAssumption DEF PlainLine
  <2> QED BY <2>1, <2>2 DEF DotToken
<1>4. \A kind, p : Header(kind, p).t = kind /\ Header(kind, p).path = p
  BY DEF Header
<1>5. \A d, g : d.status = "added" => HeadOf(d, g).t = "newfile" /\ HeadOf(d, g).path = d.path
  BY <1>4 DEF HeadOf
<1>6. \A d, g : d.status # "added" => HeadOf(d, g).t = IF KindOf(g) = "delete" THEN "delete"
                                                        ELSE "input"
  BY DEF HeadOf
<1> QED BY <1>1, <1>2, <1>3, <1>4, <1>5, <1>6

\* A line of text that reads as a lone dot is what LoneDot says.
LEMMA DotInText ==
    ASSUME NEW n \in Sections(deltas), NEW d, d = deltas[n], Fit(d), NEW p \in 1..Len(d.ops),
           d.ops[p] = "add", TextToken(Written(d, p)).t = "dot"
    PROVE  LoneDot
<1>1. Written(d, p) = PlainLine(Dot)
  BY TokensTold
<1>2. Chomp(PlainLine(Dot)) = PlainLine(Dot)
  BY DEF Chomp, PlainLine
<1>3. Chomp(LineAt(d, p)) = PlainLine(Dot)
  <2>1. Written(d, p) = LineAt(d, p) \/ Written(d, p) = Chomp(LineAt(d, p))
    BY DEF Written
  <2> QED BY <1>1, <1>2, <2>1
<1>4. d \in Encoded
  <2>1. n \in 1..Len(deltas) /\ Encodable(d) /\ (d.status = "added" \/ Changed(d) # {})
    BY DEF Sections
  <2>2. n \in DOMAIN deltas \/ n \notin DOMAIN deltas
    OBVIOUS
  <2> QED BY <2>1 DEF Encoded
<1>5. p \in DOMAIN d.ops
  BY OpsAre
<1> QED BY <1>3, <1>4, <1>5 DEF LoneDot

-----------------------------------------------------------------------------
(* One line of the bundle.                                                 *)

\* A step of the parser that reads a line.
LineStep == \/ P!InputLine \/ P!EndOfInput \/ P!FileHeader \/ P!NewFileHeader \/ P!SkipLine
            \/ P!DeleteCommand \/ P!InputCommand \/ P!BadLine

\* A line leaves the parser no choice.
LEMMA StepIs ==
    ASSUME LineStep
    PROVE  /\ parsing = "lines" /\ i <= Len(bundle) /\ bundle' = bundle
           /\ parsing' \in {"lines", "failed"} /\ (parsing' = "lines" => i' = i + 1)
           /\ LET t == bundle[i].t
              IN  IF pending # <<>>
                  THEN IF t = "dot" THEN P!EndOfInput ELSE P!InputLine
                  ELSE /\ t \in {"magic", "comment", "blank"} => P!SkipLine
                       /\ t = "file" /\ bundle[i].path # NoPath => P!FileHeader
                       /\ t = "newfile" /\ bundle[i].path # NoPath => P!NewFileHeader
                       /\ t = "delete" /\ section # <<>> => P!DeleteCommand
                       /\ t = "input" /\ section # <<>> => P!InputCommand
                       /\ t \in {"dot", "text"} => P!BadLine
           /\ P!BadLine <=> parsing' = "failed"
<1> USE DEF P!Advance, P!AnyLine, P!Line, P!InInput, P!Fail
<1>1. CASE P!InputLine
  BY <1>1 DEF P!InputLine, P!BadLine
<1>2. CASE P!EndOfInput
  BY <1>2 DEF P!EndOfInput, P!BadLine
<1>3. CASE P!FileHeader
  BY <1>3 DEF P!FileHeader, P!BadLine
<1>4. CASE P!NewFileHeader
  BY <1>4 DEF P!NewFileHeader, P!BadLine
<1>5. CASE P!SkipLine
  BY <1>5 DEF P!SkipLine, P!BadLine
<1>6. CASE P!DeleteCommand
  BY <1>6 DEF P!DeleteCommand, P!BadLine
<1>7. CASE P!InputCommand
  BY <1>7 DEF P!InputCommand, P!BadLine
<1>8. CASE P!BadLine
  BY <1>8 DEF P!BadLine
<1> QED BY <1>1, <1>2, <1>3, <1>4, <1>5, <1>6, <1>7, <1>8 DEF LineStep

\* What the lines do to the index and the open section, and what they leave.
LEMMA LinesDo ==
    ASSUME ParserInv
    PROVE  /\ P!SkipLine => index' = index /\ section' = section /\ pending' = pending
           /\ P!BadLine => index' = index /\ section' = section /\ pending' = pending
           /\ P!EndOfInput => /\ P!AddCommand(pending[1]) /\ pending[1] \in P!Cmd
                              /\ section # <<>> /\ pending' = <<>> /\ index' = index
           /\ P!DeleteCommand => /\ P!AddCommand(New(i)) /\ New(i) \in P!Cmd
                                 /\ section # <<>> /\ pending' = pending /\ index' = index
           /\ P!InputCommand => /\ pending' = <<New(i)>> /\ New(i) \in P!Cmd
                                /\ index' = index /\ section' = section
           /\ P!FileHeader => /\ index' = FlushOf(index, section) /\ pending' = pending
                              /\ section' = <<P!Section(FALSE)>>
           /\ P!NewFileHeader => /\ index' = FlushOf(index, section) /\ pending' = <<New(i)>>
                                 /\ section' = <<P!Section(TRUE)>>
<1>1. /\ i \in Nat /\ pending \in Seq(P!Cmd) /\ section \in Seq(P!Entry)
      /\ Len(pending) <= Len(section)
  BY DEF ParserInv, P!TypeOK
<1>2. New(i) \in P!Cmd
  BY <1>1, NewIs
<1>3. P!SkipLine => index' = index /\ section' = section /\ pending' = pending
  BY DEF P!SkipLine
<1>4. P!BadLine => index' = index /\ section' = section /\ pending' = pending
  BY DEF P!BadLine, P!Fail
<1>5. P!EndOfInput => /\ P!AddCommand(pending[1]) /\ pending[1] \in P!Cmd
                      /\ section # <<>> /\ pending' = <<>> /\ index' = index
  <2> SUFFICES ASSUME P!EndOfInput PROVE pending[1] \in P!Cmd /\ section # <<>>
    BY DEF P!EndOfInput
  <2>1. pending # <<>>
    BY DEF P!EndOfInput, P!InInput
  <2> QED BY <1>1, <2>1
<1>6. P!DeleteCommand => /\ P!AddCommand(New(i))
                         /\ section # <<>> /\ pending' = pending /\ index' = index
  BY DEF P!DeleteCommand, New
<1>7. P!InputCommand => pending' = <<New(i)>> /\ index' = index /\ section' = section
  BY DEF P!InputCommand, New
<1>8. P!FileHeader => /\ index' = FlushOf(index, section) /\ pending' = pending
                      /\ section' = <<P!Section(FALSE)>>
  BY DEF P!FileHeader, P!Flush, FlushOf
<1>9. P!NewFileHeader => /\ index' = FlushOf(index, section) /\ pending' = <<New(i)>>
                         /\ section' = <<P!Section(TRUE)>>
  BY DEF P!NewFileHeader, P!Flush, FlushOf, New
<1> QED BY <1>2, <1>3, <1>4, <1>5, <1>6, <1>7, <1>8, <1>9

\* The first command of an added file is an append.
LEMMA AddedAppends ==
    ASSUME NEW d, Fit(d), d.status = "added", NEW g, GroupOK(d, g)
    PROVE  KindOf(g) = "append" /\ OldBefore(d, g.from) = 0
<1>1. /\ g.from \in Nat /\ g.mid \in Nat /\ g.to \in Nat /\ g.from <= g.mid /\ g.mid <= g.to
      /\ g.from \in 1..(Len(d.ops) + 1) /\ g.mid \in 1..(Len(d.ops) + 1) /\ Len(d.ops) \in Nat
  BY GroupIs, OpsAre
<1>2. \A p \in 1..Len(d.ops) : d.ops[p] = "add"
  <2>1. OldLen(d) = 0
    BY DEF Fit, Possible
  <2> TAKE p \in 1..Len(d.ops)
  <2>2. d.ops[p] # "add" => OldBefore(d, p) < 0
    BY <2>1, FilesAre
  <2>3. p \in 1..(Len(d.ops) + 1)
    BY <1>1
  <2>4. OldBefore(d, p) \in Nat
    BY <2>3, BeforeAre
  <2> QED BY <2>2, <2>4
<1>3. g.from = g.mid
  <2>1. ASSUME g.from < g.mid PROVE FALSE
    <3>1. g.from \in 1..Len(d.ops) /\ g.from <= g.from
      BY <1>1, <2>1
    <3>2. d.ops[g.from] = "del"
      BY <2>1, <3>1 DEF GroupOK
    <3> QED BY <1>2, <3>1, <3>2
  <2> QED BY <1>1, <2>1
<1>4. OldBefore(d, g.from) = 0
  <2>1. OldLen(d) = 0
    BY DEF Fit, Possible
  <2> QED BY <1>1, <2>1, BeforeAre
<1> QED BY <1>3, <1>4 DEF KindOf

-----------------------------------------------------------------------------
(* A line of the bundle, after which the parser was where it should be.    *)

\* Note b follows note a in plans that are fine.
Ahead(plan, a, b) ==
    /\ \A k \in Sections(deltas) : Fine(deltas[k], plan[k])
    /\ a \in Note /\ b \in Note /\ (a.n = 0 => a.m = 0) /\ (b.n # 0 => b.n \in Sections(deltas))
    /\ Follows(deltas, plan[a.n], a, b)

\* The parser is where note a says.
AtNote(plan, a) == Sync(bundle, index, section, pending, deltas, plan, a)

\* The parser is where note b says, or a lone dot has thrown it off there.
After(plan, b) ==
    \/ parsing' = "lines" /\ AtNote(plan, b)'
    \/ parsing' = "lines" /\ Lost(pending, deltas, plan, b)'

\* What a plan says of the command at hand.
LEMMA GroupAt ==
    ASSUME GenInv, NEW plan, NEW n \in Sections(deltas), Fine(deltas[n], plan[n]),
           NEW m \in 1..Len(plan[n]), NEW g, g = plan[n][m]
    PROVE  /\ Fit(deltas[n]) /\ deltas[n].status \in {"added", "modified"}
           /\ deltas[n].path \in Path /\ Len(plan[n]) \in Nat
           /\ GroupOK(deltas[n], g) /\ LinesOf(g) \in Nat /\ LastOf(g) \in Nat
           /\ KindOf(g) = "delete" => LinesOf(g) = 0 /\ LastOf(g) = 0
           /\ KindOf(g) # "delete" => LastOf(g) = LinesOf(g) + 1
           /\ deltas[n].status = "added" => m = 1 /\ Len(plan[n]) = 1 /\ KindOf(g) = "append"
<1>1. Fit(deltas[n]) /\ Encodable(deltas[n])
  BY SectionsAre DEF Sections
<1>2. deltas[n].status \in {"added", "modified"} /\ deltas[n].path \in Path
  BY <1>1 DEF Encodable, Fit, Delta
<1>3. GroupOK(deltas[n], g) /\ Len(plan[n]) \in Nat
  BY <1>1, PlanIs DEF Fine
<1>4. /\ LinesOf(g) \in Nat /\ LastOf(g) \in Nat
      /\ KindOf(g) = "delete" => LinesOf(g) = 0
      /\ KindOf(g) # "delete" => LastOf(g) = LinesOf(g) + 1
  BY <1>1, <1>3, LastIs
<1>5. deltas[n].status = "added" => m = 1 /\ Len(plan[n]) = 1 /\ KindOf(g) = "append"
  BY <1>1, <1>3, AddedAppends DEF Fine
<1> QED BY <1>1, <1>2, <1>3, <1>4, <1>5 DEF LastOf

\* Before the first section.
LEMMA FirstLines ==
    ASSUME GenInv, ParserInv, LineStep, NEW plan, NEW a, NEW b, Ahead(plan, a, b),
           AtNote(plan, a), bundle[i].t \in {"magic", "comment"}, b.n = 0
    PROVE  parsing' = "lines" /\ AtNote(plan, b)' /\ a.n = 0
<1>1. a.n = 0
  BY DEF Ahead, Follows, Opens, Note
<1>2. index = <<>> /\ section = <<>> /\ pending = <<>>
  BY <1>1 DEF AtNote, Sync
<1>3. P!SkipLine
  BY <1>2, StepIs
<1>4. parsing' = "lines" /\ index' = <<>> /\ section' = <<>> /\ pending' = <<>>
  BY <1>2, <1>3, LinesDo, StepIs DEF P!SkipLine, P!Advance
<1> QED BY <1>1, <1>4 DEF AtNote, Sync

\* The next line of a text, or the dot that ends it.
LEMMA TextLines ==
    ASSUME GenInv, ParserInv, LineStep, deltas' = deltas, NEW plan, NEW a, NEW b,
           Ahead(plan, a, b), AtNote(plan, a), Told(deltas, plan[b.n], b, bundle[i]),
           b.n # 0, b.n = a.n, a.m # 0, b.m = a.m, b.x = a.x + 1
    PROVE  After(plan, b)
<1> DEFINE n == b.n
           d == deltas[n]
           r == plan[n]
           g == r[b.m]
           tok == bundle[i]
<1>1. /\ n \in Sections(deltas) /\ Fine(d, r) /\ a \in Note /\ b \in Note
      /\ a.x \in Nat /\ a.m \in Nat /\ b.x \in Nat
  BY DEF Ahead, Note
<1>2. b.m \in 1..Len(r) /\ TokenIs(d, g, b.x, tok)
  BY NoteIs DEF Told
<1>3. /\ Fit(d) /\ GroupOK(d, g) /\ LinesOf(g) \in Nat /\ LastOf(g) \in Nat
      /\ KindOf(g) = "delete" => LinesOf(g) = 0
      /\ KindOf(g) # "delete" => LastOf(g) = LinesOf(g) + 1
      /\ d.status = "added" => b.m = 1
  BY <1>1, <1>2, GroupAt
<1>4. \/ b.x \in 1..LinesOf(g) /\ tok = TextToken(Written(d, g.mid + b.x - 1))
      \/ b.x = LinesOf(g) + 1 /\ tok = DotToken
  BY <1>1, <1>2 DEF TokenIs
<1>5. KindOf(g) # "delete" /\ a.x <= LinesOf(g) /\ ~Done(r, a)
  <2>1. KindOf(g) # "delete"
    BY <1>1, <1>2, <1>3 DEF TokenIs
  <2>2. a.x <= LinesOf(g)
    BY <1>1, <1>3, <1>4
  <2> QED BY <1>1, <1>3, <2>1, <2>2 DEF Done
<1>6. /\ section # <<>> /\ IndexIs(bundle, index, deltas, plan, n)
      /\ EntryIs(bundle, section[1], deltas, plan, n, a.m - 1)
      /\ d.status = "added" => a.m = 1
      /\ pending # <<>> /\ Reads(bundle, pending[1], d, g, a.x)
  BY <1>5 DEF AtNote, Sync, Underway, Complete
<1>7. bundle' = bundle /\ i \in Nat
  BY StepIs DEF ParserInv, P!TypeOK
<1>8. CASE tok.t # "dot"
  <2>1. P!InputLine
    BY <1>6, <1>8, StepIs
  <2>2. b.x \in 1..LinesOf(g) /\ tok = TextToken(Written(d, g.mid + b.x - 1))
    BY <1>4, <1>8, TokensTold
  <2>3. /\ pending' # <<>> /\ pending'[1] \in P!Cmd /\ pending'[1].at = pending[1].at
        /\ pending'[1].input = Append(pending[1].input, i)
        /\ index' = index /\ section' = section
    BY <2>1, InputIs
  <2>4. Reads(bundle, pending'[1], d, g, b.x)
    <3>1. a.x + 1 <= LinesOf(g) /\ bundle[i] = TextToken(Written(d, g.mid + (a.x + 1) - 1))
      BY <2>2
    <3> QED BY <1>1, <1>3, <1>6, <1>7, <2>3, <3>1, ReadsMore
  <2>5. ~Done(r, b)
    BY <1>1, <1>3, <1>5, <2>2 DEF Done
  <2>6. Underway(bundle, pending', deltas, r, b)
    BY <1>2, <2>3, <2>4, <2>5 DEF Underway
  <2>7. EntryIs(bundle, section'[1], deltas, plan, n, Complete(r, b))
    BY <1>6, <2>3, <2>5 DEF Complete
  <2>8. Sync(bundle, index', section', pending', deltas, plan, b)
    BY <1>1, <1>6, <2>3, <2>6, <2>7 DEF Sync
  <2>9. parsing' = "lines"
    BY <2>1 DEF P!InputLine, P!Advance, P!AnyLine
  <2> QED BY <1>7, <2>8, <2>9 DEF After, AtNote
<1>9. CASE tok.t = "dot"
  <2>1. P!EndOfInput
    BY <1>6, <1>9, StepIs
  <2>2. /\ P!AddCommand(pending[1]) /\ pending[1] \in P!Cmd /\ pending' = <<>> /\ index' = index
        /\ parsing' = "lines"
    BY <2>1, LinesDo DEF P!EndOfInput, P!Advance, P!Line
  <2>3. CASE b.x \in 1..LinesOf(g) /\ tok = TextToken(Written(d, g.mid + b.x - 1))
    <3>1. g.mid + b.x - 1 \in 1..Len(d.ops) /\ d.ops[g.mid + b.x - 1] = "add"
      <4>1. \A x \in 1..LinesOf(g) :
               g.mid + x - 1 \in 1..Len(d.ops) /\ d.ops[g.mid + x - 1] = "add"
        BY <1>3, GroupIs DEF LinesOf
      <4> QED BY <2>3, <4>1, Zenon
    <3>2. LoneDot
      BY <1>1, <1>3, <1>9, <2>3, <3>1, DotInText
    <3>3. LoneDot'
      BY <3>2 DEF LoneDot, Encoded
    <3>4. Lost(pending', deltas, plan, b)
      BY <1>1, <1>2, <1>5, <2>2, <2>3, <3>2 DEF Lost
    <3>5. Lost(pending, deltas, plan, b)'
      BY <3>3, <3>4 DEF Lost
    <3> QED BY <2>2, <3>5 DEF After
  <2>4. CASE b.x = LinesOf(g) + 1
    <3>1. a.x = LinesOf(g)
      BY <1>1, <1>3, <2>4
    <3>2. /\ section' # <<>> /\ section'[1].key = section[1].key
          /\ section'[1].creates = section[1].creates
          /\ section'[1].commands = Append(section[1].commands, pending[1])
      BY <1>6, <2>2, AddedIs
    <3>3. EntryIs(bundle, section'[1], deltas, plan, n, a.m)
      <4>1. a.m - 1 \in Nat /\ a.m - 1 + 1 = a.m
        BY <1>1
      <4> DEFINE k == a.m - 1
                 e2 == section'[1]
                 c == pending[1]
      <4>2. k \in Nat /\ k + 1 = a.m /\ EntryIs(bundle, section[1], deltas, plan, n, k)
        BY <1>6, <4>1
      <4> HIDE DEF k
      <4>3. Reads(bundle, c, deltas[n], plan[n][k + 1], LinesOf(plan[n][k + 1]))
        BY <1>6, <3>1, <4>2
      <4>4. e2.key = section[1].key /\ e2.creates = section[1].creates
            /\ e2.commands = Append(section[1].commands, c)
        BY <3>2
      <4> HIDE DEF e2, c
      <4>5. EntryIs(bundle, e2, deltas, plan, n, k + 1)
        BY <4>2, <4>3, <4>4, EntryAdds
      <4> QED BY <4>2, <4>5 DEF e2
    <3>4. Done(r, b) /\ Complete(r, b) = a.m
      BY <1>3, <1>5, <2>4 DEF Done, Complete
    <3>5. Underway(bundle, pending', deltas, r, b)
      BY <2>2, <3>4 DEF Underway
    <3>6. Sync(bundle, index', section', pending', deltas, plan, b)
      BY <1>1, <1>6, <2>2, <3>2, <3>3, <3>4, <3>5 DEF Sync
    <3> QED BY <1>7, <2>2, <3>6 DEF After, AtNote
  <2> QED BY <1>4, <2>3, <2>4
<1> QED BY <1>8, <1>9

\* The first line of the next command.
LEMMA CommandLine ==
    ASSUME GenInv, ParserInv, LineStep, deltas' = deltas, NEW plan, NEW a, NEW b,
           Ahead(plan, a, b), AtNote(plan, a), Told(deltas, plan[b.n], b, bundle[i]),
           a.n # 0, b.n = a.n, Done(plan[a.n], a), b.m = a.m + 1, b.x = 0
    PROVE  After(plan, b)
<1> DEFINE n == b.n
           d == deltas[n]
           r == plan[n]
           g == r[b.m]
           tok == bundle[i]
<1>1. /\ n \in Sections(deltas) /\ Fine(d, r) /\ a \in Note /\ b \in Note
      /\ a.x \in Nat /\ a.m \in Nat /\ b.m # 0
  BY DEF Ahead, Note
<1>2. b.m \in 1..Len(r) /\ TokenIs(d, g, b.x, tok)
  BY <1>1, NoteIs DEF Told
<1>3. /\ Fit(d) /\ GroupOK(d, g) /\ LinesOf(g) \in Nat /\ LastOf(g) \in Nat
      /\ KindOf(g) = "delete" => LinesOf(g) = 0 /\ LastOf(g) = 0
      /\ KindOf(g) # "delete" => LastOf(g) = LinesOf(g) + 1
      /\ d.status = "added" => b.m = 1
  BY <1>1, <1>2, GroupAt
<1>4. tok = HeadOf(d, g)
  BY <1>2, <1>3 DEF TokenIs
<1>5. /\ section # <<>> /\ IndexIs(bundle, index, deltas, plan, n)
      /\ EntryIs(bundle, section[1], deltas, plan, n, a.m)
      /\ d.status = "added" => a.m = 1
      /\ pending = <<>>
  BY <1>1 DEF AtNote, Sync, Underway, Complete
<1>6. d.status # "added"
  BY <1>1, <1>3, <1>5
<1>7. tok.t = IF KindOf(g) = "delete" THEN "delete" ELSE "input"
  BY <1>4, <1>6, TokensTold
<1>8. bundle' = bundle /\ i \in Nat
  BY StepIs DEF ParserInv, P!TypeOK
<1>9. Reads(bundle, New(i), d, g, 0)
  BY <1>3, <1>4, <1>8, ReadsNew
<1>10. CASE KindOf(g) = "delete"
  <2>1. P!DeleteCommand
    BY <1>5, <1>7, <1>10, StepIs
  <2>2. /\ P!AddCommand(New(i)) /\ New(i) \in P!Cmd /\ pending' = <<>> /\ index' = index
        /\ parsing' = "lines"
    BY <1>5, <2>1, LinesDo DEF P!DeleteCommand, P!Advance, P!Line
  <2>3. /\ section' # <<>> /\ section'[1].key = section[1].key
        /\ section'[1].creates = section[1].creates
        /\ section'[1].commands = Append(section[1].commands, New(i))
    BY <1>5, <2>2, AddedIs
  <2>4. EntryIs(bundle, section'[1], deltas, plan, n, a.m + 1)
    <3> DEFINE e2 == section'[1]
               c == New(i)
    <3>1. e2.key = section[1].key /\ e2.creates = section[1].creates
          /\ e2.commands = Append(section[1].commands, c)
      BY <2>3
    <3>2. Reads(bundle, c, deltas[n], plan[n][a.m + 1], LinesOf(plan[n][a.m + 1]))
      BY <1>3, <1>9, <1>10
    <3> HIDE DEF e2, c
    <3>3. EntryIs(bundle, e2, deltas, plan, n, a.m + 1)
      BY <1>1, <1>5, <3>1, <3>2, EntryAdds
    <3> QED BY <3>3 DEF e2
  <2>5. Done(r, b) /\ Complete(r, b) = a.m + 1
    BY <1>3, <1>10 DEF Done, Complete
  <2>6. Underway(bundle, pending', deltas, r, b)
    BY <2>2, <2>5 DEF Underway
  <2>7. Sync(bundle, index', section', pending', deltas, plan, b)
    BY <1>1, <1>5, <1>6, <2>2, <2>3, <2>4, <2>5, <2>6 DEF Sync
  <2> QED BY <1>8, <2>2, <2>7 DEF After, AtNote
<1>11. CASE KindOf(g) # "delete"
  <2>1. P!InputCommand
    BY <1>5, <1>7, <1>11, StepIs
  <2>2. /\ pending' = <<New(i)>> /\ index' = index /\ section' = section /\ parsing' = "lines"
    BY <2>1, LinesDo DEF P!InputCommand, P!Advance, P!Line
  <2>3. ~Done(r, b) /\ Complete(r, b) = a.m
    <3>1. ~Done(r, b)
      BY <1>1, <1>3, <1>11 DEF Done
    <3> QED BY <1>1, <3>1 DEF Complete
  <2>4. Underway(bundle, pending', deltas, r, b)
    <3>1. pending' # <<>> /\ pending'[1] = New(i)
      BY <2>2
    <3> QED BY <1>2, <1>9, <2>3, <3>1 DEF Underway
  <2>5. Sync(bundle, index', section', pending', deltas, plan, b)
    BY <1>1, <1>5, <1>6, <2>2, <2>3, <2>4 DEF Sync
  <2> QED BY <1>8, <2>2, <2>5 DEF After, AtNote
<1> QED BY <1>10, <1>11

\* An entry that was opened has no command.
LEMMA NoCommandYet ==
    ASSUME NEW b, NEW e, NEW ds, NEW plan, NEW k, e.key = Canonical[ds[k].path],
           e.creates = (ds[k].status = "added"), e.commands = <<>>
    PROVE  EntryIs(b, e, ds, plan, k, 0)
<1>1. <<>> \in Seq(P!Cmd) /\ Len(<<>>) = 0
  OBVIOUS
<1>2. \A m \in 1..0 : FALSE
  OBVIOUS
<1> QED BY <1>1, <1>2 DEF EntryIs

\* A header: the section before it is done with.
LEMMA HeaderLine ==
    ASSUME GenInv, ParserInv, LineStep, deltas' = deltas, NEW plan, NEW a, NEW b,
           Ahead(plan, a, b), AtNote(plan, a), Told(deltas, plan[b.n], b, bundle[i]),
           Over(plan[a.n], a), Opens(deltas, a.n, b)
    PROVE  After(plan, b)
<1> DEFINE n == b.n
           d == deltas[n]
           r == plan[n]
           g == r[b.m]
           tok == bundle[i]
<1>1. /\ n \in Sections(deltas) /\ Fine(d, r) /\ a \in Note /\ b \in Note /\ a.n < n
      /\ a.n \in Nat /\ n \in Nat /\ n # 0 /\ b.x = 0
      /\ b.m = (IF d.status = "added" THEN 1 ELSE 0)
  BY DEF Ahead, Note, Opens
<1>2. /\ Len(deltas) \in Nat /\ index \in Seq(P!Entry) /\ section \in Seq(P!Entry) /\ i \in Nat
      /\ bundle' = bundle
  BY DeltasFit, StepIs DEF ParserInv, P!TypeOK
<1>3. pending = <<>> /\ IndexIs(bundle, FlushOf(index, section), deltas, plan, n)
  BY <1>1, <1>2, Flushes DEF Ahead, AtNote, Opens
<1>4. d.path \in Path /\ d.path # NoPath
  BY <1>1, SectionsAre, PipelineAssumption DEF Fit, Delta
<1>6. CASE d.status # "added"
  <2>1. tok = Header("file", d.path)
    BY <1>1, <1>6, NoteIs DEF Told
  <2>2. tok.t = "file" /\ tok.path = d.path
    BY <2>1, TokensTold
  <2>3. P!FileHeader
    BY <1>3, <1>4, <2>2, StepIs
  <2>4. /\ index' = FlushOf(index, section) /\ pending' = <<>>
        /\ section' = <<P!Section(FALSE)>> /\ parsing' = "lines"
    BY <1>3, <2>3, LinesDo DEF P!FileHeader, P!Advance, P!Line
  <2>5. /\ P!Section(FALSE).key = Canonical[d.path] /\ P!Section(FALSE).creates = FALSE
        /\ P!Section(FALSE).commands = <<>>
    BY <2>2 DEF P!Section
  <2>6. section' # <<>> /\ section'[1] = P!Section(FALSE)
    BY <2>4
  <2>7. EntryIs(bundle, section'[1], deltas, plan, n, 0)
    BY <1>6, <2>5, <2>6, NoCommandYet
  <2>8. Done(r, b) /\ Complete(r, b) = 0
    BY <1>1, <1>6 DEF Done, Complete
  <2>9. Underway(bundle, pending', deltas, r, b)
    BY <2>4, <2>8 DEF Underway
  <2>10. Sync(bundle, index', section', pending', deltas, plan, b)
    BY <1>1, <1>3, <1>6, <2>4, <2>6, <2>7, <2>8, <2>9 DEF Sync
  <2> QED BY <1>2, <2>4, <2>10 DEF After, AtNote
<1>7. CASE d.status = "added"
  <2>1. b.m = 1 /\ b.m \in 1..Len(r) /\ TokenIs(d, g, 0, tok)
    BY <1>1, <1>7, NoteIs DEF Told
  <2>2. /\ LinesOf(g) \in Nat /\ LastOf(g) = LinesOf(g) + 1 /\ KindOf(g) = "append"
    BY <1>1, <1>7, <2>1, GroupAt
  <2>3. tok = HeadOf(d, g)
    BY <2>1, <2>2 DEF TokenIs
  <2>4. tok.t = "newfile" /\ tok.path = d.path
    BY <1>7, <2>3, TokensTold
  <2>5. P!NewFileHeader
    BY <1>3, <1>4, <2>4, StepIs
  <2>6. /\ index' = FlushOf(index, section) /\ pending' = <<New(i)>>
        /\ section' = <<P!Section(TRUE)>> /\ parsing' = "lines"
    BY <2>5, LinesDo DEF P!NewFileHeader, P!Advance, P!Line
  <2>7. /\ P!Section(TRUE).key = Canonical[d.path] /\ P!Section(TRUE).creates = TRUE
        /\ P!Section(TRUE).commands = <<>>
    BY <2>4 DEF P!Section
  <2>8. section' # <<>> /\ section'[1] = P!Section(TRUE) /\ pending' # <<>> /\ pending'[1] = New(i)
    BY <2>6
  <2>9. EntryIs(bundle, section'[1], deltas, plan, n, 0)
    BY <1>7, <2>7, <2>8, NoCommandYet
  <2>10. ~Done(r, b) /\ Complete(r, b) = 0
    <3>1. ~Done(r, b)
      BY <1>1, <2>1, <2>2 DEF Done
    <3> QED BY <2>1, <3>1 DEF Complete
  <2>11. Reads(bundle, New(i), d, g, 0)
    BY <1>2, <2>2, <2>3, ReadsNew
  <2>12. Underway(bundle, pending', deltas, r, b)
    BY <1>1, <2>1, <2>8, <2>10, <2>11 DEF Underway
  <2>13. Sync(bundle, index', section', pending', deltas, plan, b)
    BY <1>1, <1>3, <2>1, <2>6, <2>8, <2>9, <2>10, <2>12 DEF Sync
  <2> QED BY <1>2, <2>6, <2>13 DEF After, AtNote
<1> QED BY <1>6, <1>7

\* After a line of the generator's the parser is where it should be, or a lone dot
\* has thrown it off.
LEMMA LineRead ==
    ASSUME GenInv, ParserInv, LineStep, deltas' = deltas, NEW plan, NEW a, NEW b,
           Ahead(plan, a, b), AtNote(plan, a), Told(deltas, plan[b.n], b, bundle[i])
    PROVE  After(plan, b)
<1>1. /\ a \in Note /\ b \in Note /\ (a.n = 0 => a.m = 0)
      /\ Follows(deltas, plan[a.n], a, b)
  BY DEF Ahead
<1>2. a.n \in Nat /\ b.n \in Nat /\ a.m \in Nat
  BY <1>1 DEF Note
<1>3. CASE b.n = 0
  <2>1. bundle[i].t \in {"magic", "comment"}
    BY <1>3 DEF Told
  <2> QED BY <1>3, <2>1, FirstLines DEF After
<1>4. CASE b.n = a.n /\ a.m # 0 /\ b.m = a.m /\ b.x = a.x + 1
  <2>1. b.n # 0
    BY <1>1, <1>4
  <2> QED BY <1>4, <2>1, TextLines
<1>5. CASE a.n # 0 /\ b.n = a.n /\ Done(plan[a.n], a) /\ b.m = a.m + 1 /\ b.x = 0
  BY <1>5, CommandLine
<1>6. CASE Over(plan[a.n], a) /\ Opens(deltas, a.n, b)
  BY <1>6, HeaderLine
<1> QED BY <1>1, <1>3, <1>4, <1>5, <1>6 DEF Follows

\* Once a lone dot has ended a text too early, the rest of it is blank or a failure.
LEMMA LostLine ==
    ASSUME GenInv, ParserInv, LineStep, deltas' = deltas, NEW plan, NEW a, NEW b,
           Ahead(plan, a, b), Lost(pending, deltas, plan, a),
           Told(deltas, plan[b.n], b, bundle[i])
    PROVE  LoneDot /\ (parsing' = "failed" \/ After(plan, b))
<1> DEFINE n == a.n
           d == deltas[n]
           r == plan[n]
           g == r[a.m]
           tok == bundle[i]
<1>1. /\ pending = <<>> /\ LoneDot /\ n \in Sections(deltas) /\ a.m \in 1..Len(r)
      /\ KindOf(g) # "delete" /\ a.x \in 1..LinesOf(g)
  BY DEF Lost
<1>2. /\ a \in Note /\ b \in Note /\ n \in Nat /\ n # 0 /\ Fine(d, r)
      /\ Follows(deltas, r, a, b)
  BY <1>1, SectionsAre DEF Ahead
<1>3. /\ LinesOf(g) \in Nat /\ LastOf(g) = LinesOf(g) + 1 /\ Len(r) \in Nat
  BY <1>1, <1>2, GroupAt
<1>4. ~Done(r, a) /\ ~Over(r, a) /\ a.m # 0
  BY <1>1, <1>2, <1>3 DEF Done, Over
<1>5. b.n = n /\ b.m = a.m /\ b.x = a.x + 1 /\ b.x \in Nat /\ b.x # 0
  BY <1>1, <1>2, <1>3, <1>4 DEF Follows, Note
<1>6. TokenIs(d, g, b.x, tok)
  BY <1>1, <1>2, <1>5, NoteIs DEF Told
<1>7. \/ b.x \in 1..LinesOf(g) /\ tok = TextToken(Written(d, g.mid + b.x - 1))
      \/ tok = DotToken
  BY <1>5, <1>6 DEF TokenIs
<1>8. tok.t \in {"dot", "blank", "text"}
  BY <1>7, TokensTold
<1>9. CASE tok.t \in {"dot", "text"}
  <2>1. P!BadLine
    BY <1>1, <1>9, StepIs
  <2> QED BY <1>1, <2>1, StepIs
<1>10. CASE tok.t = "blank"
  <2>1. P!SkipLine
    BY <1>1, <1>10, StepIs
  <2>2. pending' = <<>> /\ parsing' = "lines"
    BY <1>1, <2>1, LinesDo DEF P!SkipLine, P!Advance, P!Line
  <2>3. b.x \in 1..LinesOf(g)
    BY <1>7, <1>10, TokensTold
  <2>4. LoneDot'
    BY <1>1 DEF LoneDot, Encoded
  <2>5. Lost(pending, deltas, plan, b)'
    BY <1>1, <1>5, <2>2, <2>3, <2>4 DEF Lost
  <2> QED BY <1>1, <2>2, <2>5 DEF After
<1> QED BY <1>8, <1>9, <1>10

-----------------------------------------------------------------------------
(* Lines that a lone dot threw off, and the line that a cut left.          *)

\* What may be left of a line that was cut.
LEMMA RemainsAre ==
    ASSUME NEW o, NEW tok \in Remains(o)
    PROVE  /\ tok.t \in {"comment", "file", "newfile", "text", "dot"}
           /\ tok.t = "dot" => o.t = "text" /\ o.line.lead = <<>> /\ o.line.core \in Dotted
<1>1. CASE o.t \in {"magic", "comment"}
  <2>1. Remains(o) = {[t |-> "comment"]}
    BY <1>1 DEF Remains
  <2>2. [t |-> "comment"].t = "comment"
    OBVIOUS
  <2> QED BY <2>1, <2>2
<1>2. CASE o.t \in {"file", "newfile"}
  <2>1. Remains(o) = {[t |-> "comment"]} \cup {Header(o.t, p) : p \in Path \cup {NoPath}}
    BY <1>2 DEF Remains
  <2>2. [t |-> "comment"].t = "comment" /\ \A p : Header(o.t, p).t = o.t
    BY TokensTold
  <2> QED BY <1>2, <2>1, <2>2
<1>3. CASE o.t \in {"delete", "input"}
  <2>1. Remains(o) = {[t |-> "text"]}
    BY <1>3 DEF Remains
  <2>2. [t |-> "text"].t = "text"
    OBVIOUS
  <2> QED BY <2>1, <2>2
<1>4. CASE o.t = "text"
  <2>1. Remains(o) = {o} \cup IF o.line.lead = <<>> /\ o.line.core \in Dotted
                              THEN {DotToken} ELSE {}
    BY <1>4 DEF Remains
  <2> QED BY <1>4, <2>1, TokensTold
<1>5. CASE o.t \notin {"magic", "comment", "file", "newfile", "delete", "input", "text"}
  <2>1. Remains(o) = {}
    BY <1>5 DEF Remains
  <2> QED BY <2>1
<1> QED BY <1>1, <1>2, <1>3, <1>4, <1>5

\* A line of text that begins with a dot is what StartsWithDot says.
LEMMA DotBegins ==
    ASSUME NEW n \in Sections(deltas), NEW d, d = deltas[n], Fit(d), NEW p \in 1..Len(d.ops),
           d.ops[p] = "add", Written(d, p).lead = <<>>, Written(d, p).core \in Dotted
    PROVE  StartsWithDot
<1>1. LineAt(d, p).lead = <<>> /\ LineAt(d, p).core \in Dotted
  <2>1. LineAt(d, p) \in Line /\ p \in DOMAIN d.ops
    BY OpsAre DEF Fit
  <2>2. Chomp(LineAt(d, p)).lead = LineAt(d, p).lead /\ Chomp(LineAt(d, p)).core = LineAt(d, p).core
    BY <2>1 DEF Chomp, Line
  <2>3. Written(d, p) = LineAt(d, p) \/ Written(d, p) = Chomp(LineAt(d, p))
    BY DEF Written
  <2> QED BY <2>2, <2>3
<1>2. d \in Encoded
  <2>1. n \in 1..Len(deltas) /\ Encodable(d) /\ (d.status = "added" \/ Changed(d) # {})
    BY DEF Sections
  <2>2. n \in DOMAIN deltas \/ n \notin DOMAIN deltas
    OBVIOUS
  <2> QED BY <2>1 DEF Encoded
<1>3. p \in DOMAIN d.ops
  BY OpsAre
<1> QED BY <1>1, <1>2, <1>3 DEF StartsWithDot

\* A lone dot is a line that begins with a dot.
LEMMA LoneDotBegins ==
    ASSUME GenInv, LoneDot
    PROVE  StartsWithDot
<1>1. PICK d \in Encoded : \E p \in DOMAIN d.ops :
              d.ops[p] = "add" /\ Chomp(LineAt(d, p)) = PlainLine(Dot)
  BY DEF LoneDot
<1>2. PICK p \in DOMAIN d.ops : d.ops[p] = "add" /\ Chomp(LineAt(d, p)) = PlainLine(Dot)
  BY <1>1
<1>3. LineAt(d, p) \in Line
  <2>1. PICK n \in DOMAIN deltas : d = deltas[n]
    BY DEF Encoded
  <2>2. deltas \in Diffs
    BY DEF GenInv
  <2> QED BY <2>1, <2>2, ChangesAssumption
<1>4. Chomp(LineAt(d, p)).lead = LineAt(d, p).lead /\ Chomp(LineAt(d, p)).core = LineAt(d, p).core
  BY <1>3 DEF Chomp, Line
<1>5. PlainLine(Dot).lead = <<>> /\ PlainLine(Dot).core = Dot
  BY DEF PlainLine
<1>6. LineAt(d, p).lead = <<>> /\ LineAt(d, p).core \in Dotted \cup {Dot}
  BY <1>2, <1>4, <1>5
<1> QED BY <1>2, <1>6 DEF StartsWithDot

\* The text of a token that the generator has written.
LEMMA TextTold ==
    ASSUME GenInv, NEW plan, NEW b \in Note, b.n # 0 => b.n \in Sections(deltas),
           \A k \in Sections(deltas) : Fine(deltas[k], plan[k]),
           NEW o, Told(deltas, plan[b.n], b, o), o.t = "text"
    PROVE  \E n \in Sections(deltas) : \E p \in 1..Len(deltas[n].ops) :
              deltas[n].ops[p] = "add" /\ o.line = Written(deltas[n], p)
<1> DEFINE n == b.n
           d == deltas[n]
           g == plan[n][b.m]
<1>1. n # 0 /\ b.m \in 1..Len(plan[n]) /\ TokenIs(d, g, b.x, o)
  BY TokensTold, NoteIs DEF Told
<1>2. n \in Sections(deltas) /\ Fit(d) /\ GroupOK(d, g) /\ LinesOf(g) \in Nat
      /\ d.status \in {"added", "modified"}
  BY <1>1, GroupAt
<1>3. HeadOf(d, g).t # "text" /\ DotToken.t # "text"
  BY TokensTold
<1>4. b.x \in 1..LinesOf(g) /\ o = TextToken(Written(d, g.mid + b.x - 1))
  BY <1>1, <1>3 DEF TokenIs
<1>5. \A x \in 1..LinesOf(g) :
         g.mid + x - 1 \in 1..Len(d.ops) /\ d.ops[g.mid + x - 1] = "add"
  BY <1>2, GroupIs DEF LinesOf
<1>6. g.mid + b.x - 1 \in 1..Len(d.ops) /\ d.ops[g.mid + b.x - 1] = "add"
  BY <1>4, <1>5, Zenon
<1>7. o.line = Written(d, g.mid + b.x - 1)
  BY <1>4, TokensTold
<1> QED BY <1>2, <1>6, <1>7

\* After a line that is cut the parser has failed, or reads a text that has no end, or
\* has whole commands.
Stopped(plan) ==
    \/ parsing' = "failed"
    \/ parsing' = "lines" /\ (pending' = <<>> => Kept(bundle, FlushOf(index, section), deltas, plan)')

\* A line that was cut: the text goes on with it, or the parser stops.
LEMMA RaggedLine ==
    ASSUME GenInv, ParserInv, LineStep, deltas' = deltas, NEW plan, NEW a, NEW b,
           Ahead(plan, a, b), a.n # 0 => a.m \in 0..Len(plan[a.n]), AtNote(plan, a),
           NEW o, Told(deltas, plan[b.n], b, o), bundle[i] \in Remains(o), ~StartsWithDot
    PROVE  Stopped(plan)
<1> DEFINE tok == bundle[i]
<1>1. /\ tok.t \in {"comment", "file", "newfile", "text", "dot"}
      /\ tok.t = "dot" => o.t = "text" /\ o.line.lead = <<>> /\ o.line.core \in Dotted
  BY RemainsAre
<1>2. tok.t # "dot"
  <2> SUFFICES ASSUME tok.t = "dot" PROVE FALSE
    OBVIOUS
  <2>1. PICK n \in Sections(deltas) : \E p \in 1..Len(deltas[n].ops) :
           deltas[n].ops[p] = "add" /\ o.line = Written(deltas[n], p)
    BY <1>1, TextTold DEF Ahead
  <2>2. PICK p \in 1..Len(deltas[n].ops) :
           deltas[n].ops[p] = "add" /\ o.line = Written(deltas[n], p)
    BY <2>1
  <2>3. Fit(deltas[n])
    BY SectionsAre
  <2> QED BY <1>1, <2>2, <2>3, DotBegins
<1>3. /\ Len(deltas) \in Nat /\ index \in Seq(P!Entry) /\ section \in Seq(P!Entry)
      /\ bundle' = bundle /\ parsing' \in {"lines", "failed"}
  BY DeltasFit, StepIs DEF ParserInv, P!TypeOK
<1>4. CASE pending # <<>>
  <2>1. P!InputLine
    BY <1>2, <1>4, StepIs
  <2>2. pending' # <<>> /\ parsing' = "lines"
    BY <2>1, InputIs DEF P!InputLine, P!Advance, P!AnyLine
  <2> QED BY <2>2 DEF Stopped
<1>5. CASE pending = <<>> /\ parsing' = "lines"
  <2>1. Kept(bundle, FlushOf(index, section), deltas, plan)
    BY <1>3, <1>5, FlushKept DEF Ahead, AtNote, Note
  <2>2. ~P!BadLine
    BY <1>5, StepIs
  <2>3. P!SkipLine \/ P!FileHeader \/ P!NewFileHeader
    BY <1>1, <1>2, <1>5, <2>2
    DEF LineStep, P!InputLine, P!EndOfInput, P!DeleteCommand, P!InputCommand, P!InInput, P!Line
  <2>4. CASE P!SkipLine
    <3>1. index' = index /\ section' = section
      BY <2>4, LinesDo
    <3>2. Kept(bundle, FlushOf(index', section'), deltas, plan)
      BY <2>1, <3>1
    <3> QED BY <1>3, <1>5, <3>2 DEF Stopped
  <2>5. CASE P!FileHeader
    <3>1. index' = FlushOf(index, section) /\ section' = <<P!Section(FALSE)>>
      BY <2>5, LinesDo
    <3>2. section'[1].commands = <<>>
      BY <3>1 DEF P!Section
    <3>3. FlushOf(index', section') = index'
      BY <3>2 DEF FlushOf
    <3>4. Kept(bundle, FlushOf(index', section'), deltas, plan)
      BY <2>1, <3>1, <3>3
    <3> QED BY <1>3, <1>5, <3>4 DEF Stopped
  <2>6. CASE P!NewFileHeader
    <3>1. pending' = <<New(i)>>
      BY <2>6, LinesDo
    <3>2. pending' # <<>>
      BY <3>1
    <3> QED BY <1>5, <3>2 DEF Stopped
  <2> QED BY <2>3, <2>4, <2>5, <2>6
<1> QED BY <1>3, <1>4, <1>5 DEF Stopped

-----------------------------------------------------------------------------
(* The whole bundle is read.                                               *)

\* The file is the output, or a part of it whose texts have no line that begins with a dot.
Good == Taken(bundle, output) /\ (bundle = output \/ ~StartsWithDot)

\* The line that was read before line k.
Before(note, k) == IF k = 1 THEN NoteOf(0, 0, 0) ELSE note[k - 1]

\* The lines of a cut bundle are read, and the entry under way is kept so far.
Cut(plan) == /\ i = Len(bundle) + 1 /\ bundle # output
             /\ pending = <<>> => Kept(bundle, FlushOf(index, section), deltas, plan)

\* The parser of a bundle whose lines have the notes.
Reading(plan, note) ==
    /\ parsing = "lines" => \/ AtNote(plan, Before(note, i))
                            \/ Lost(pending, deltas, plan, Before(note, i))
                            \/ Cut(plan)
    /\ parsing = "finalize" =>
          /\ Kept(bundle, index, deltas, plan)
          /\ bundle = output => IndexIs(bundle, index, deltas, plan, Len(deltas) + 1)
    /\ parsing = "parsed" =>
          /\ Kept(bundle, index, deltas, plan)
          /\ bundle = output =>
                /\ Len(index) = Cardinality(Sections(deltas))
                /\ \A k \in Sections(deltas) : \E j \in 1..Len(index) :
                       Full(bundle, index[j], deltas, plan, k)
    /\ parsing = "failed" /\ bundle = output => LoneDot \/ OneFileTwice

\* What the note before a line is.
LEMMA BeforeLine ==
    ASSUME NEW plan, NEW note, Book(deltas, plan, note, output), NEW k \in 1..(Len(output) + 1)
    PROVE  LET a == Before(note, k)
           IN  /\ a \in Note /\ (a.n = 0 => a.m = 0) /\ (a.n # 0 => a.n \in Sections(deltas))
               /\ a.n # 0 => a.m \in 0..Len(plan[a.n])
               /\ k \in 1..Len(output) =>
                     /\ Ahead(plan, a, note[k]) /\ Before(note, k + 1) = note[k]
                     /\ note[k] \in Note /\ Told(deltas, plan[note[k].n], note[k], output[k])
<1> DEFINE a == Before(note, k)
           L == Len(output)
<1>1. /\ note \in Seq(Note) /\ Len(note) = L /\ L >= 1 /\ L \in Nat /\ note[1].n = 0
      /\ \A m \in Sections(deltas) : Fine(deltas[m], plan[m])
      /\ \A m \in 1..L : /\ note[m] \in Note /\ (note[m].n = 0 \/ note[m].n \in Sections(deltas))
                         /\ Told(deltas, plan[note[m].n], note[m], output[m])
      /\ \A m \in 1..(L - 1) : Follows(deltas, plan[note[m].n], note[m], note[m + 1])
  <2>1. Story(deltas, Sections(deltas), plan, note, output)
    BY DEF Book
  <2>2. note \in Seq(Note) /\ Len(note) = L /\ L >= 1
    BY <2>1 DEF Story
  <2> QED BY <2>1, <2>2 DEF Story
<1>2. CASE k = 1
  <2>1. a = NoteOf(0, 0, 0)
    BY <1>2 DEF Before
  <2>2. a \in Note /\ a.n = 0 /\ a.m = 0
    BY <2>1, NoteIs
  <2>3. 1 \in 1..L /\ k + 1 # 1 /\ k + 1 - 1 = k
    BY <1>1, <1>2
  <2>4. Before(note, k + 1) = note[k]
    BY <2>3 DEF Before
  <2>5. Follows(deltas, plan[a.n], a, note[1])
    BY <1>1, <2>2 DEF Follows
  <2>6. Ahead(plan, a, note[1])
    BY <1>1, <2>2, <2>3, <2>5 DEF Ahead
  <2> QED BY <1>1, <1>2, <2>2, <2>3, <2>4, <2>6
<1>3. CASE k # 1
  <2>1. a = note[k - 1] /\ k - 1 \in 1..L /\ k + 1 # 1 /\ k + 1 - 1 = k
    BY <1>1, <1>3 DEF Before
  <2>2. /\ a \in Note /\ (a.n = 0 \/ a.n \in Sections(deltas))
        /\ Told(deltas, plan[a.n], a, output[k - 1])
    BY <1>1, <2>1
  <2>3. a.n = 0 => a.m = 0
    BY <2>2, NoteIs DEF Told
  <2>4. a.n # 0 => a.m \in 0..Len(plan[a.n])
    <3> SUFFICES ASSUME a.n # 0 PROVE a.m \in 0..Len(plan[a.n])
      OBVIOUS
    <3>1. a.m = 0 \/ a.m \in 1..Len(plan[a.n])
      BY <2>2, NoteIs DEF Told
    <3>2. Len(plan[a.n]) \in Nat
      BY <1>1, <2>2 DEF Fine, Plan
    <3> QED BY <3>1, <3>2
  <2>5. Before(note, k + 1) = note[k]
    BY <2>1 DEF Before
  <2>6. ASSUME k \in 1..L PROVE Ahead(plan, a, note[k])
    <3>1. k - 1 \in 1..(L - 1) /\ k - 1 + 1 = k
      BY <1>1, <1>3, <2>6
    <3>2. Follows(deltas, plan[a.n], a, note[k])
      BY <1>1, <2>1, <3>1
    <3> QED BY <1>1, <2>2, <2>3, <2>6, <3>2 DEF Ahead
  <2> QED BY <1>1, <2>2, <2>3, <2>4, <2>5, <2>6
<1> QED BY <1>2, <1>3

\* One line more is read.
LEMMA LinesRead ==
    ASSUME GenInv, ParserInv, LineStep, deltas' = deltas, output' = output, Good,
           NEW plan, NEW note, Book(deltas, plan, note, output), Reading(plan, note)
    PROVE  Reading(plan, note)'
<1>0. PICK a, b : a = Before(note, i) /\ b = note[i]
  OBVIOUS
<1>1. /\ parsing = "lines" /\ i <= Len(bundle) /\ bundle' = bundle
      /\ parsing' \in {"lines", "failed"} /\ (parsing' = "lines" => i' = i + 1)
      /\ i \in 1..Len(bundle) /\ Len(bundle) \in Nat
  BY StepIs, TokensAre DEF ParserInv, P!TypeOK
<1>2. i \in 1..Len(output) /\ (bundle[i] = output[i]
          \/ (i = Len(bundle) /\ bundle[i] \in Remains(output[i]) /\ bundle[i] # output[i]))
  BY <1>1 DEF Good, Taken
<1>3. i \in 1..(Len(output) + 1)
  BY <1>2
<1>4. /\ a \in Note /\ (a.n # 0 => a.m \in 0..Len(plan[a.n])) /\ Ahead(plan, a, b)
      /\ Before(note, i + 1) = b /\ b \in Note /\ Told(deltas, plan[b.n], b, output[i])
  BY <1>0, <1>2, <1>3, BeforeLine
<1>5. AtNote(plan, a) \/ Lost(pending, deltas, plan, a)
  BY <1>0, <1>1 DEF Reading, Cut
<1>6. ASSUME After(plan, b) PROVE Reading(plan, note)'
  <2>1. parsing' = "lines" /\ Before(note, i') = b
    BY <1>1, <1>4, <1>6 DEF After
  <2>2. AtNote(plan, Before(note, i))' \/ Lost(pending, deltas, plan, Before(note, i))'
    BY <1>6, <2>1 DEF After, AtNote, Lost
  <2> QED BY <2>1, <2>2 DEF Reading
<1>7. ASSUME parsing' = "failed", LoneDot PROVE Reading(plan, note)'
  <2>1. LoneDot'
    BY <1>7 DEF LoneDot, Encoded
  <2> QED BY <1>7, <2>1 DEF Reading
<1>8. CASE bundle[i] = output[i]
  <2>1. Told(deltas, plan[b.n], b, bundle[i])
    BY <1>4, <1>8
  <2>2. CASE AtNote(plan, a)
    BY <1>4, <1>6, <2>1, <2>2, LineRead
  <2>3. CASE Lost(pending, deltas, plan, a)
    BY <1>4, <1>6, <1>7, <2>1, <2>3, LostLine
  <2> QED BY <1>5, <2>2, <2>3
<1>9. CASE i = Len(bundle) /\ bundle[i] \in Remains(output[i]) /\ bundle[i] # output[i]
  <2>1. bundle # output /\ ~StartsWithDot
    BY <1>9 DEF Good
  <2>2. AtNote(plan, a)
    BY <1>5, <2>1, LoneDotBegins DEF Lost
  <2>3. Stopped(plan)
    BY <1>4, <1>9, <2>1, <2>2, RaggedLine
  <2>4. CASE parsing' = "failed"
    BY <1>1, <2>1, <2>4 DEF Reading
  <2>5. CASE parsing' = "lines" /\ (pending' = <<>> => Kept(bundle, FlushOf(index, section), deltas, plan)')
    <3>1. Cut(plan)'
      BY <1>1, <1>9, <2>1, <2>5 DEF Cut
    <3> QED BY <2>5, <3>1 DEF Reading
  <2> QED BY <2>3, <2>4, <2>5 DEF Stopped
<1> QED BY <1>2, <1>8, <1>9

\* The first line is the magic.
LEMMA StartReads ==
    ASSUME GenInv, ParserInv, P!Start, deltas' = deltas, output' = output, Good,
           i = 1, index = <<>>, section = <<>>, pending = <<>>,
           NEW plan, NEW note, Book(deltas, plan, note, output)
    PROVE  Reading(plan, note)'
<1>1. /\ parsing = "start" /\ bundle' = bundle /\ i' = 1 /\ index' = <<>> /\ section' = <<>>
      /\ pending' = <<>>
      /\ parsing' = IF bundle = <<>> THEN "parsed" ELSE IF P!HasMagic THEN "lines" ELSE "failed"
  BY DEF P!Start
<1>2. Len(output) >= 1 /\ output[1].t = "magic" /\ Len(<<>>) = 0
  BY DEF Book, Story
<1>3. CASE bundle = <<>>
  <2>1. parsing' = "parsed" /\ bundle' # output'
    BY <1>1, <1>2, <1>3
  <2>2. Kept(bundle', index', deltas', plan)
    BY <1>1, <1>2 DEF Kept
  <2> QED BY <2>1, <2>2 DEF Reading
<1>4. CASE bundle # <<>> /\ P!HasMagic
  <2>1. parsing' = "lines" /\ Before(note, i') = NoteOf(0, 0, 0)
    BY <1>1, <1>4 DEF Before
  <2>2. NoteOf(0, 0, 0).n = 0
    BY NoteIs
  <2>3. Sync(bundle', index', section', pending', deltas', plan, NoteOf(0, 0, 0))
    BY <1>1, <2>2 DEF Sync
  <2>4. AtNote(plan, Before(note, i))'
    BY <2>1, <2>3 DEF AtNote
  <2> QED BY <2>1, <2>4 DEF Reading
<1>5. CASE bundle # <<>> /\ ~P!HasMagic
  <2>1. parsing' = "failed"
    BY <1>1, <1>5
  <2>2. bundle # output
    <3> SUFFICES ASSUME bundle = output PROVE P!HasMagic
      BY <1>5
    <3>1. 1 \in DOMAIN bundle /\ bundle[1].t = "magic"
      <4>1. DOMAIN output = 1..Len(output) /\ Len(output) \in Nat
        BY TokensAre DEF GenInv
      <4> QED BY <1>2, <4>1
    <3>2. 1..(1 - 1) = {}
      OBVIOUS
    <3> QED BY <3>1, <3>2 DEF P!HasMagic
  <2> QED BY <1>1, <2>1, <2>2 DEF Reading
<1> QED BY <1>3, <1>4, <1>5

\* At the end of the whole bundle the last section is done with.
LEMMA WholeRead ==
    ASSUME GenInv, ParserInv, parsing = "lines", i > Len(bundle), bundle = output,
           NEW plan, NEW note, Book(deltas, plan, note, output), Reading(plan, note)
    PROVE  /\ pending = <<>>
           /\ IndexIs(bundle, FlushOf(index, section), deltas, plan, Len(deltas) + 1)
           /\ Kept(bundle, FlushOf(index, section), deltas, plan)
<1>1. /\ Len(bundle) \in Nat /\ i = Len(bundle) + 1 /\ index \in Seq(P!Entry)
      /\ section \in Seq(P!Entry) /\ Len(deltas) \in Nat
  BY TokensAre, DeltasFit DEF ParserInv, P!TypeOK
<1>2. /\ Len(note) = Len(output) /\ Len(note) >= 1 /\ note \in Seq(Note)
      /\ \A k \in Sections(deltas) : Fine(deltas[k], plan[k])
  BY DEF Book, Story
<1> DEFINE a == note[Len(note)]
<1>3. Over(plan[a.n], a) /\ \A k \in Sections(deltas) : k <= a.n
  BY DEF Book
<1>4. a \in Note /\ (a.n = 0 \/ a.n \in Sections(deltas))
  <2>1. Len(note) \in 1..Len(note)
    BY <1>2
  <2> QED BY <1>2, <2>1 DEF Book, Story
<1>5. Before(note, i) = a
  <2>1. i # 1 /\ i - 1 = Len(note)
    BY <1>1, <1>2
  <2> QED BY <2>1 DEF Before
<1>6. a.n \in Nat /\ a.n <= Len(deltas)
  <2>1. a.n # 0 => a.n \in 1..Len(deltas)
    BY <1>4 DEF Sections
  <2> QED BY <1>1, <1>4, <2>1 DEF Note
<1> HIDE DEF a
<1>7. ~Lost(pending, deltas, plan, a)
  <2> SUFFICES ASSUME Lost(pending, deltas, plan, a) PROVE FALSE
    OBVIOUS
  <2> DEFINE g == plan[a.n][a.m]
  <2>1. /\ a.n \in Sections(deltas) /\ a.m \in 1..Len(plan[a.n]) /\ KindOf(g) # "delete"
        /\ a.x \in 1..LinesOf(g)
    BY DEF Lost
  <2>2. LinesOf(g) \in Nat /\ LastOf(g) = LinesOf(g) + 1
    BY <1>2, <2>1, GroupAt
  <2>3. a.n # 0
    BY <2>1, SectionsAre
  <2>4. a.x = LastOf(g)
    BY <1>3, <2>3 DEF Over
  <2> QED BY <2>1, <2>2, <2>4
<1>8. Sync(bundle, index, section, pending, deltas, plan, a)
  BY <1>5, <1>7 DEF Reading, Cut, AtNote
<1>9. /\ Len(deltas) + 1 \in Nat /\ a.n < Len(deltas) + 1
      /\ \A k \in Sections(deltas) : k <= a.n \/ Len(deltas) + 1 <= k
  BY <1>1, <1>3, <1>6
<1>10. /\ pending = <<>>
       /\ IndexIs(bundle, FlushOf(index, section), deltas, plan, Len(deltas) + 1)
  BY <1>1, <1>2, <1>3, <1>8, <1>9, Flushes
<1>11. Kept(bundle, FlushOf(index, section), deltas, plan)
  BY <1>2, <1>10, FullKept
<1> QED BY <1>10, <1>11

\* A bundle that ends inside a text.
LEMMA UnterminatedReads ==
    ASSUME GenInv, ParserInv, P!Unterminated, deltas' = deltas, output' = output,
           NEW plan, NEW note, Book(deltas, plan, note, output), Reading(plan, note)
    PROVE  Reading(plan, note)'
<1>1. /\ parsing = "lines" /\ i > Len(bundle) /\ pending # <<>> /\ parsing' = "failed"
      /\ bundle' = bundle
  BY DEF P!Unterminated, P!InInput, P!Fail
<1>2. bundle # output
  BY <1>1, WholeRead
<1> QED BY <1>1, <1>2 DEF Reading

\* A bundle that ends between two commands.
LEMMA EndReads ==
    ASSUME GenInv, ParserInv, P!EndOfBundle, deltas' = deltas, output' = output, Good,
           NEW plan, NEW note, Book(deltas, plan, note, output), Reading(plan, note)
    PROVE  Reading(plan, note)'
<1>1. /\ parsing = "lines" /\ i > Len(bundle) /\ pending = <<>> /\ parsing' = "finalize"
      /\ bundle' = bundle /\ index' = FlushOf(index, section)
  BY DEF P!EndOfBundle, P!InInput, P!Flush, FlushOf
<1>2. /\ Len(bundle) \in Nat /\ i = Len(bundle) + 1 /\ index \in Seq(P!Entry)
      /\ section \in Seq(P!Entry) /\ Len(deltas) \in Nat /\ Len(output) \in Nat
  BY <1>1, TokensAre, DeltasFit DEF ParserInv, P!TypeOK, GenInv
<1> DEFINE iy == FlushOf(index, section)
<1>3. /\ Kept(bundle, iy, deltas, plan)
      /\ bundle = output => IndexIs(bundle, iy, deltas, plan, Len(deltas) + 1)
  <2>1. CASE bundle = output
    BY <1>1, <2>1, WholeRead
  <2>2. CASE bundle # output
    <3> DEFINE a == Before(note, i)
    <3>1. i \in 1..(Len(output) + 1)
      <4>1. Len(bundle) # 0 => Len(bundle) \in 1..Len(output)
        <5> SUFFICES ASSUME Len(bundle) # 0 PROVE Len(bundle) \in 1..Len(output)
          OBVIOUS
        <5>1. Len(bundle) \in 1..Len(bundle)
          BY <1>2
        <5> QED BY <5>1 DEF Good, Taken
      <4> QED BY <1>2, <4>1
    <3>2. a \in Note /\ (a.n # 0 => a.m \in 0..Len(plan[a.n]))
      BY <3>1, BeforeLine
    <3>3. \A k \in Sections(deltas) : Fine(deltas[k], plan[k])
      BY DEF Book, Story
    <3> HIDE DEF a
    <3>4. ~Lost(pending, deltas, plan, a)
      BY <2>2, LoneDotBegins DEF Lost, Good
    <3>5. AtNote(plan, a) \/ Cut(plan)
      BY <1>1, <3>4 DEF Reading, a
    <3>6. Kept(bundle, iy, deltas, plan)
      <4>1. CASE AtNote(plan, a)
        <5>1. Sync(bundle, index, section, <<>>, deltas, plan, a) /\ a.m \in Nat
          BY <1>1, <3>2, <4>1 DEF AtNote, Note
        <5> QED BY <1>2, <3>2, <3>3, <5>1, FlushKept
      <4>2. CASE Cut(plan)
        BY <1>1, <4>2 DEF Cut
      <4> QED BY <3>5, <4>1, <4>2
    <3> QED BY <2>2, <3>6
  <2> QED BY <2>1, <2>2
<1> HIDE DEF iy
<1> QED BY <1>1, <1>3 DEF Reading, iy

\* The entries of a whole bundle are as many as its sections, each for its own.
LEMMA IndexWhole ==
    ASSUME GenInv, NEW b, NEW ix \in Seq(P!Entry), NEW plan,
           IndexIs(b, ix, deltas, plan, Len(deltas) + 1)
    PROVE  /\ Len(ix) = Cardinality(Sections(deltas))
           /\ \A k \in Sections(deltas) : \E j \in 1..Len(ix) : Full(b, ix[j], deltas, plan, k)
           /\ \A j \in 1..Len(ix) : \E k \in Sections(deltas) :
                 j = Count(Sections(deltas), k) + 1 /\ Full(b, ix[j], deltas, plan, k)
<1> DEFINE S == Sections(deltas)
           N == Len(deltas) + 1
<1>1. /\ S \in SUBSET (Nat \ {0}) /\ IsFiniteSet(S) /\ Len(deltas) \in Nat
      /\ \A k \in S : k \in Nat \ {0} /\ k < N
  <2>1. Len(deltas) \in Nat
    BY DeltasFit
  <2>2. S \in SUBSET (Nat \ {0}) /\ IsFiniteSet(S) /\ S \subseteq 1..Len(deltas)
    BY <2>1, SetIs
  <2> QED BY <2>1, <2>2
<1>2. Len(ix) = Count(S, N)
  BY DEF IndexIs
<1>3. Count(S, N) = Cardinality(S) /\ N \in Nat
  <2>1. N \in Nat /\ \A q \in S : q < N
    BY <1>1
  <2> HIDE DEF S, N
  <2> QED BY <1>1, <2>1, CountIs
<1>4. \A k \in S : Full(b, ix[Count(S, k) + 1], deltas, plan, k)
  BY <1>1 DEF IndexIs
<1>5. ASSUME NEW k \in S PROVE Count(S, k) + 1 \in 1..Len(ix)
  <2> HIDE DEF S, N
  <2>1. k \in Nat /\ k + 1 \in Nat /\ k + 1 <= N
    BY <1>1, <1>3
  <2>2. Count(S, k) \in 0..Cardinality(S) /\ Cardinality(S) \in Nat
    BY <1>1, <2>1, CountIs
  <2>3. Count(S, k + 1) <= Count(S, N) /\ Count(S, k + 1) = Count(S, k) + 1
    BY <1>1, <1>3, <2>1, CountIs, CountGrows
  <2> QED BY <1>2, <1>3, <2>2, <2>3
<1>6. \A j \in 1..Len(ix) : \E k \in S : j = Count(S, k) + 1
  BY DEF IndexIs
<1>7. \A k \in S : \E j \in 1..Len(ix) : Full(b, ix[j], deltas, plan, k)
  BY <1>4, <1>5
<1>8. \A j \in 1..Len(ix) : \E k \in S : j = Count(S, k) + 1 /\ Full(b, ix[j], deltas, plan, k)
  BY <1>4, <1>6
<1> QED BY <1>2, <1>3, <1>7, <1>8

\* Two entries of one key are two names of one file.
LEMMA TwiceNamed ==
    ASSUME GenInv, NEW k \in Sections(deltas), NEW l \in Sections(deltas), k # l,
           Canonical[deltas[k].path] = Canonical[deltas[l].path]
    PROVE  OneFileTwice
<1>1. k \in DOMAIN deltas /\ l \in DOMAIN deltas
  <2>1. deltas \in Seq(Delta)
    BY ChangesAssumption DEF GenInv
  <2>2. DOMAIN deltas = 1..Len(deltas)
    BY <2>1
  <2> QED BY <2>2 DEF Sections
<1>2. deltas[k] \in Encoded /\ deltas[l] \in Encoded
  BY <1>1 DEF Sections, Encoded
<1>3. deltas[k].path # deltas[l].path
  BY <1>1, ChangesAssumption DEF GenInv
<1>4. deltas[k] # deltas[l]
  BY <1>3
<1> QED BY <1>2, <1>4 DEF OneFileTwice

\* The duplicates are looked for, and the index is whole.
LEMMA FinalizeReads ==
    ASSUME GenInv, ParserInv, P!Finalize, deltas' = deltas, output' = output,
           NEW plan, NEW note, Reading(plan, note)
    PROVE  Reading(plan, note)'
<1>1. PICK iy \in P!Sortings(index) : /\ index' = iy
                                      /\ IF P!Duplicates(iy) THEN parsing' = "failed"
                                                             ELSE parsing' = "parsed"
  BY DEF P!Finalize
<1>2. parsing = "finalize" /\ bundle' = bundle /\ index \in Seq(P!Entry)
  BY DEF P!Finalize, ParserInv, P!TypeOK
<1>3. PICK f \in [DOMAIN index -> DOMAIN index] :
              /\ iy = [n \in DOMAIN index |-> index[f[n]]]
              /\ \A x, y \in DOMAIN index : f[x] = f[y] => x = y
              /\ \A y \in DOMAIN index : \E x \in DOMAIN index : f[x] = y
  BY <1>1, <1>2, SortingOf
<1> DEFINE L == Len(index)
<1>4. DOMAIN index = 1..L /\ L \in Nat
  BY <1>2
<1>5. Len(iy) = L
  <2>1. DOMAIN iy = 1..L
    BY <1>3, <1>4
  <2>2. iy \in Seq(P!Entry)
    BY <1>1, <1>2, SortingIs
  <2> QED BY <1>4, <2>1, <2>2
<1>6. \A j \in 1..L : f[j] \in 1..L /\ iy[j] = index[f[j]]
  BY <1>3, <1>4
<1>7. \A y \in 1..L : \E x \in 1..L : f[x] = y
  BY <1>3, <1>4
<1>8. /\ Kept(bundle, index, deltas, plan)
      /\ bundle = output => IndexIs(bundle, index, deltas, plan, Len(deltas) + 1)
  BY <1>2 DEF Reading
<1> HIDE DEF L
<1>9. CASE P!Duplicates(iy)
  <2>1. parsing' = "failed"
    BY <1>1, <1>9
  <2>2. bundle = output => OneFileTwice
    <3> SUFFICES ASSUME bundle = output PROVE OneFileTwice
      OBVIOUS
    <3>1. PICK x \in 2..Len(iy) : iy[x].key = iy[x - 1].key
      BY <1>9 DEF P!Duplicates
    <3>2. x \in 1..L /\ x - 1 \in 1..L /\ x # x - 1
      BY <1>4, <1>5
    <3>3. f[x] # f[x - 1]
      BY <1>3, <1>4, <3>2
    <3>4. /\ f[x] \in 1..L /\ f[x - 1] \in 1..L
          /\ index[f[x]].key = index[f[x - 1]].key
      BY <1>6, <3>1, <3>2
    <3>5. \A j \in 1..L : \E k \in Sections(deltas) :
             j = Count(Sections(deltas), k) + 1 /\ Full(bundle, index[j], deltas, plan, k)
      BY <1>2, <1>8, IndexWhole DEF L
    <3>6. PICK k \in Sections(deltas) : /\ f[x] = Count(Sections(deltas), k) + 1
                                        /\ Full(bundle, index[f[x]], deltas, plan, k)
      BY <3>4, <3>5
    <3>7. PICK l \in Sections(deltas) : /\ f[x - 1] = Count(Sections(deltas), l) + 1
                                        /\ Full(bundle, index[f[x - 1]], deltas, plan, l)
      BY <3>4, <3>5
    <3>8. k # l
      BY <3>3, <3>6, <3>7
    <3>9. Canonical[deltas[k].path] = Canonical[deltas[l].path]
      BY <3>4, <3>6, <3>7 DEF Full, EntryIs
    <3> QED BY <3>8, <3>9, TwiceNamed
  <2>3. OneFileTwice => OneFileTwice'
    BY DEF OneFileTwice, Encoded
  <2> QED BY <1>2, <2>1, <2>2, <2>3 DEF Reading
<1>10. CASE ~P!Duplicates(iy)
  <2>1. parsing' = "parsed"
    BY <1>1, <1>10
  <2>2. Kept(bundle, iy, deltas, plan)
    <3> SUFFICES ASSUME NEW j \in 1..L
                 PROVE  \E k \in Sections(deltas) : Brief(bundle, iy[j], deltas, plan, k)
      BY <1>5 DEF Kept
    <3>1. f[j] \in 1..L /\ iy[j] = index[f[j]]
      BY <1>6
    <3> QED BY <1>8, <3>1 DEF Kept, L
  <2>3. bundle = output =>
           /\ Len(iy) = Cardinality(Sections(deltas))
           /\ \A k \in Sections(deltas) : \E j \in 1..Len(iy) :
                  Full(bundle, iy[j], deltas, plan, k)
    <3> SUFFICES ASSUME bundle = output
                 PROVE  /\ Len(iy) = Cardinality(Sections(deltas))
                        /\ \A k \in Sections(deltas) : \E j \in 1..Len(iy) :
                               Full(bundle, iy[j], deltas, plan, k)
      OBVIOUS
    <3>1. /\ L = Cardinality(Sections(deltas))
          /\ \A k \in Sections(deltas) : \E j \in 1..L : Full(bundle, index[j], deltas, plan, k)
      BY <1>2, <1>8, IndexWhole DEF L
    <3>2. ASSUME NEW k \in Sections(deltas)
          PROVE  \E j \in 1..Len(iy) : Full(bundle, iy[j], deltas, plan, k)
      <4>1. PICK y \in 1..L : Full(bundle, index[y], deltas, plan, k)
        BY <3>1
      <4>2. PICK j \in 1..L : f[j] = y
        BY <1>7
      <4>3. Full(bundle, iy[j], deltas, plan, k)
        BY <1>6, <4>1, <4>2
      <4> QED BY <1>5, <4>3
    <3> QED BY <1>5, <3>1, <3>2
  <2>4. /\ Kept(bundle', index', deltas', plan)
        /\ bundle' = output' =>
              /\ Len(index') = Cardinality(Sections(deltas'))
              /\ \A k \in Sections(deltas') : \E j \in 1..Len(index') :
                     Full(bundle', index'[j], deltas', plan, k)
    BY <1>1, <1>2, <2>2, <2>3
  <2> QED BY <2>1, <2>4 DEF Reading
<1> QED BY <1>9, <1>10

-----------------------------------------------------------------------------
(* The invariant of the pipeline.                                          *)

\* Every step of the parser.
LEMMA ParseReads ==
    ASSUME GenInv, ParserInv, P!Parse, deltas' = deltas, output' = output, Good,
           parsing = "start" => i = 1 /\ index = <<>> /\ section = <<>> /\ pending = <<>>,
           NEW plan, NEW note, Book(deltas, plan, note, output), Reading(plan, note)
    PROVE  Reading(plan, note)'
<1>1. CASE P!Start
  <2>1. parsing = "start"
    BY <1>1 DEF P!Start
  <2> QED BY <1>1, <2>1, StartReads
<1>2. CASE LineStep
  BY <1>2, LinesRead
<1>3. CASE P!Unterminated
  BY <1>3, UnterminatedReads
<1>4. CASE P!EndOfBundle
  BY <1>4, EndReads
<1>5. CASE P!Finalize
  BY <1>5, FinalizeReads
<1>6. CASE P!Recanonicalize
  <2>1. parsing' = "rekeyed"
    BY <1>6 DEF P!Recanonicalize
  <2> QED BY <2>1 DEF Reading
<1> QED BY <1>1, <1>2, <1>3, <1>4, <1>5, <1>6 DEF P!Parse, LineStep

-----------------------------------------------------------------------------
(* From the diff to the index.                                             *)

\* The parser has a bundle once it has begun, and it is a part of the output.
Fetched ==
    /\ parsing = "idle" => bundle = <<>>
    /\ parsing \in {"idle", "start"} => i = 1 /\ index = <<>> /\ section = <<>> /\ pending = <<>>
    /\ parsing # "idle" => Ended /\ (deltas # <<>> => Taken(bundle, output))

\* The parser reads what the generator told.
Understood == parsing # "idle" /\ Good =>
    \E plan, note : Book(deltas, plan, note, output) /\ Reading(plan, note)

\* What the pipeline keeps beside the invariants of its two halves.
PatchInv == Telling /\ Fetched /\ Understood

\* It holds at the start.
LEMMA PatchInit == PipeInit => PatchInv
<1> SUFFICES ASSUME PipeInit PROVE PatchInv
  OBVIOUS
<1>1. Telling
  BY TellingInit DEF PipeInit
<1>2. /\ parsing = "idle" /\ bundle = <<>> /\ i = 1 /\ index = <<>> /\ section = <<>>
      /\ pending = <<>>
  BY DEF PipeInit, P!Init
<1> QED BY <1>1, <1>2 DEF PatchInv, Fetched, Understood

\* The steps of the parser leave the story alone.
LEMMA TellingStays ==
    ASSUME Telling, UNCHANGED vars
    PROVE  Telling'
BY DEF Telling, Stage, Laid, Diffing, vars, diff, payload

\* The parser neither starts again nor changes its bundle.
LEMMA ParseKeeps ==
    ASSUME P!Parse
    PROVE  parsing # "idle" /\ parsing' \notin {"idle", "start"} /\ bundle' = bundle
<1> USE DEF P!Advance, P!AnyLine, P!Line, P!Fail
<1>1. CASE P!Start
  BY <1>1 DEF P!Start
<1>2. CASE LineStep
  BY <1>2, StepIs
<1>3. CASE P!Unterminated
  BY <1>3 DEF P!Unterminated
<1>4. CASE P!EndOfBundle
  BY <1>4 DEF P!EndOfBundle
<1>5. CASE P!Finalize
  BY <1>5 DEF P!Finalize
<1>6. CASE P!Recanonicalize
  BY <1>6 DEF P!Recanonicalize
<1> QED BY <1>1, <1>2, <1>3, <1>4, <1>5, <1>6 DEF P!Parse, LineStep

\* Every step of the pipeline keeps it.
LEMMA PatchNext == Inv /\ PatchInv /\ [PipeNext]_<<vars, parser>> => PatchInv'
<1> SUFFICES ASSUME Inv, PatchInv, [PipeNext]_<<vars, parser>> PROVE PatchInv'
  OBVIOUS
<1> USE DEF PatchInv
<1>0. GenInv /\ ParserInv
  BY DEF Inv
<1>1. CASE Next /\ UNCHANGED parser
  <2>1. ~Ended
    BY <1>1 DEF Next, Ended, SkipDelta, EmitNewFile, BeginDiff, Exit, AtDelta, HunkCb, Context,
                Deletion, Addition, EofNl, Incoming, EndOfDiff, EmitChange, EndOfFile
  <2>2. parsing = "idle" /\ UNCHANGED parser
    BY <1>1, <2>1 DEF Fetched
  <2>3. /\ parsing' = "idle" /\ bundle' = bundle /\ i' = i /\ index' = index
        /\ section' = section /\ pending' = pending
    BY <2>2 DEF parser
  <2>4. Telling'
    BY <1>0, <1>1, TellingNext
  <2>5. Fetched' /\ Understood'
    BY <2>2, <2>3 DEF Fetched, Understood
  <2> QED BY <2>4, <2>5
<1>2. CASE Deploy
  <2>1. /\ Ended /\ parsing = "idle" /\ UNCHANGED vars
        /\ \E text : P!Read(text) /\ (deltas # <<>> => text = output \/ text \in Parts)
    BY <1>2 DEF Deploy, Ended
  <2>2. PICK text : P!Read(text) /\ (deltas # <<>> => text = output \/ text \in Parts)
    BY <2>1
  <2>3. /\ parsing' = "start" /\ bundle' = text /\ i' = i /\ index' = index
        /\ section' = section /\ pending' = pending
    BY <2>2 DEF P!Read
  <2>4. /\ deltas' = deltas /\ output' = output /\ phase' = phase
    BY <2>1 DEF vars, diff
  <2>5. Telling'
    BY <2>1, TellingStays
  <2>6. deltas # <<>> => Taken(text, output)
    BY <1>0, <2>2, OutputTaken, PartTaken
  <2>7. Fetched'
    BY <2>1, <2>3, <2>4, <2>6 DEF Fetched, Ended
  <2>8. Understood'
    <3>1. PICK plan, note : Book(deltas, plan, note, output)
      BY <1>0, <2>1, BookIs
    <3>2. Book(deltas, plan, note, output)'
      BY <2>4, <3>1
    <3>3. Reading(plan, note)'
      BY <2>3 DEF Reading
    <3> QED BY <3>2, <3>3 DEF Understood
  <2> QED BY <2>5, <2>7, <2>8
<1>3. CASE P!Parse /\ UNCHANGED vars
  <2>1. parsing # "idle" /\ parsing' \notin {"idle", "start"} /\ bundle' = bundle
    BY <1>3, ParseKeeps
  <2>2. /\ deltas' = deltas /\ output' = output /\ phase' = phase
    BY <1>3 DEF vars, diff
  <2>3. Telling'
    BY <1>3, TellingStays
  <2>4. Fetched'
    BY <2>1, <2>2 DEF Fetched, Ended
  <2>5. Good' => Good
    BY <2>1, <2>2 DEF Good, StartsWithDot, Encoded
  <2>6. Understood'
    <3> SUFFICES ASSUME Good
                 PROVE  \E plan, note : Book(deltas, plan, note, output)' /\ Reading(plan, note)'
      BY <2>5 DEF Understood
    <3>1. PICK plan, note : Book(deltas, plan, note, output) /\ Reading(plan, note)
      BY <2>1 DEF Understood
    <3>2. Reading(plan, note)'
      BY <1>0, <1>3, <2>2, <3>1, ParseReads DEF Fetched
    <3>3. Book(deltas, plan, note, output)'
      BY <2>2, <3>1
    <3> QED BY <3>2, <3>3
  <2> QED BY <2>3, <2>4, <2>6
<1>4. CASE UNCHANGED <<vars, parser>>
  <2>1. Telling'
    BY <1>4, TellingStays
  <2>2. /\ deltas' = deltas /\ output' = output /\ phase' = phase /\ parsing' = parsing
        /\ bundle' = bundle /\ i' = i /\ index' = index /\ section' = section
        /\ pending' = pending
    BY <1>4 DEF vars, diff, parser
  <2>3. Fetched'
    BY <2>2 DEF Fetched, Ended
  <2>4. Good' => Good
    BY <2>2 DEF Good, StartsWithDot, Encoded
  <2>5. ASSUME NEW plan, NEW note, Reading(plan, note) PROVE Reading(plan, note)'
    BY <2>2, <2>5 DEF Reading, AtNote, Lost, Cut, LoneDot, OneFileTwice, Encoded
  <2>6. Understood'
    <3> SUFFICES ASSUME parsing # "idle", Good
                 PROVE  \E plan, note : Book(deltas, plan, note, output)' /\ Reading(plan, note)'
      BY <2>2, <2>4 DEF Understood
    <3>1. PICK plan, note : Book(deltas, plan, note, output) /\ Reading(plan, note)
      BY DEF Understood
    <3>2. Book(deltas, plan, note, output)' /\ Reading(plan, note)'
      BY <2>2, <2>5, <3>1
    <3> QED BY <3>2
  <2> QED BY <2>1, <2>3, <2>6
<1> QED BY <1>1, <1>2, <1>3, <1>4 DEF PipeNext

-----------------------------------------------------------------------------
(* What becomes of the files.                                              *)

\* The commands of an entry are as many of the plan for its file.
LEMMA ScriptBegins ==
    ASSUME GenInv, NEW plan, NEW k \in Sections(deltas), Fine(deltas[k], plan[k]),
           NEW j, NEW n \in 0..Len(plan[k]), EntryIs(bundle, index[j], deltas, plan, k, n)
    PROVE  Begins(deltas[k], plan[k], Script(j)) /\ Len(Script(j)) = n
<1> DEFINE d == deltas[k]
           r == plan[k]
           cs == index[j].commands
<1>1. /\ Fit(d) /\ d.status \in {"added", "modified"} /\ Len(r) \in Nat
      /\ \A m \in 1..Len(r) : GroupOK(d, r[m])
  <2>1. Fit(d) /\ Plan(d, r)
    BY SectionsAre DEF Fine
  <2>2. d.status \in {"added", "modified"}
    BY DEF Sections, Encodable
  <2> QED BY <2>1, <2>2, PlanIs
<1>2. /\ cs \in Seq(P!Cmd) /\ Len(cs) = n /\ n \in Nat
      /\ \A m \in 1..n : Reads(bundle, cs[m], d, r[m], LinesOf(r[m]))
  BY <1>1 DEF EntryIs
<1>3. \A m \in 1..n : ReadCommand(cs[m]) = CommandOf(d, r[m])
  <2> TAKE m \in 1..n
  <2>1. m \in 1..Len(r)
    BY <1>1
  <2>2. GroupOK(d, r[m])
    BY <1>1, <2>1
  <2>3. Reads(bundle, cs[m], d, r[m], LinesOf(r[m]))
    BY <1>2
  <2> HIDE DEF d, r, cs
  <2> QED BY <1>1, <2>2, <2>3, CommandRead
<1> DEFINE s == Script(j)
           C(m) == ReadCommand(cs[m])
<1>4. s = [m \in 1..n |-> C(m)]
  <2>1. DOMAIN cs = 1..n
    BY <1>2
  <2> QED BY <2>1 DEF Script
<1> HIDE DEF s, C
<1>5. s \in [1..n -> {C(m) : m \in 1..n}]
  BY <1>4
<1>6. Len(s) = n /\ DOMAIN s = 1..n
  BY <1>2, <1>4, <1>5, FunctionIsSeq
<1>7. \A m \in 1..n : s[m] = CommandOf(d, r[m])
  BY <1>3, <1>4 DEF C
<1>8. Begins(d, r, s)
  BY <1>6, <1>7 DEF Begins
<1> QED BY <1>6, <1>8 DEF s

\* The sections are those of the files that can be encoded.
LEMMA SectionsEncoded ==
    ASSUME GenInv
    PROVE  /\ \A k \in Sections(deltas) : deltas[k] \in Encoded
           /\ \A d \in Encoded : \E k \in Sections(deltas) : d = deltas[k]
           /\ Cardinality(Encoded) = Cardinality(Sections(deltas))
<1> DEFINE S == Sections(deltas)
<1>1. DOMAIN deltas = 1..Len(deltas)
  <2>1. deltas \in Seq(Delta)
    BY ChangesAssumption DEF GenInv
  <2> QED BY <2>1
<1>2. \A k \in S : deltas[k] \in Encoded
  BY <1>1 DEF Sections, Encoded
<1>3. \A d \in Encoded : \E k \in S : d = deltas[k]
  BY <1>1 DEF Sections, Encoded
<1>4. \A k, l \in S : deltas[k] = deltas[l] => k = l
  <2>1. \A m, n \in DOMAIN deltas : deltas[m].path = deltas[n].path => m = n
    BY ChangesAssumption DEF GenInv
  <2>2. \A k \in S : k \in DOMAIN deltas
    BY <1>1 DEF Sections
  <2> HIDE DEF S
  <2> QED BY <2>1, <2>2
<1>5. IsFiniteSet(S)
  BY DeltasFit, SetIs
<1> DEFINE f == [k \in S |-> deltas[k]]
<1> HIDE DEF S
<1>6. f \in [S -> Encoded] /\ \A k \in S : f[k] = deltas[k]
  BY <1>2
<1> HIDE DEF f
<1>7. f \in Injection(S, Encoded)
  BY <1>4, <1>6 DEF Injection, IsInjective
<1>8. f \in Surjection(S, Encoded)
  <2>1. \A d \in Encoded : \E k \in S : f[k] = d
    BY <1>3, <1>6
  <2> QED BY <1>6, <2>1 DEF Surjection
<1>9. Cardinality(Encoded) = Cardinality(S)
  BY <1>5, <1>7, <1>8, FS_Surjection
<1> QED BY <1>2, <1>3, <1>9 DEF S

\* The reading of a whole bundle reproduces the files.
LEMMA WholeHolds == Inv /\ PatchInv => FilesAreReproduced
<1> SUFFICES ASSUME Inv, PatchInv, bundle # <<>>, bundle = output, ~LoneDot
             PROVE  /\ parsing = "failed" => OneFileTwice
                    /\ parsing = "parsed" =>
                          /\ Len(index) = Cardinality(Encoded)
                          /\ \A d \in Encoded : \E n \in DOMAIN index :
                                /\ EntryOf(d, n) /\ Accepted(Script(n), OldLen(d))
                                /\ LET made == Patched(Script(n), Literals(OldFile(d).lines))
                                       wanted == NewFile(d).lines
                                   IN  /\ Len(made) = Len(wanted)
                                       /\ \A l \in DOMAIN wanted : Same(made[l], wanted[l])
  BY DEF FilesAreReproduced
<1>1. GenInv /\ ParserInv
  BY DEF Inv
<1>2. parsing # "idle" /\ Good
  BY <1>1, OutputTaken DEF PatchInv, Fetched, Good
<1>3. PICK plan, note : Book(deltas, plan, note, output) /\ Reading(plan, note)
  BY <1>2 DEF PatchInv, Understood
<1>4. \A k \in Sections(deltas) : Fine(deltas[k], plan[k])
  BY <1>3 DEF Book, Story
<1>5. parsing = "failed" => OneFileTwice
  BY <1>3 DEF Reading
<1>6. ASSUME parsing = "parsed"
      PROVE  /\ Len(index) = Cardinality(Encoded)
             /\ \A d \in Encoded : \E n \in DOMAIN index :
                   /\ EntryOf(d, n) /\ Accepted(Script(n), OldLen(d))
                   /\ LET made == Patched(Script(n), Literals(OldFile(d).lines))
                          wanted == NewFile(d).lines
                      IN  /\ Len(made) = Len(wanted)
                          /\ \A l \in DOMAIN wanted : Same(made[l], wanted[l])
  <2>1. /\ Len(index) = Cardinality(Sections(deltas))
        /\ \A k \in Sections(deltas) : \E j \in 1..Len(index) :
               Full(bundle, index[j], deltas, plan, k)
    BY <1>3, <1>6 DEF Reading
  <2>2. Len(index) = Cardinality(Encoded)
    BY <1>1, <2>1, SectionsEncoded
  <2>3. ASSUME NEW d \in Encoded
        PROVE  \E n \in DOMAIN index :
                   /\ EntryOf(d, n) /\ Accepted(Script(n), OldLen(d))
                   /\ LET made == Patched(Script(n), Literals(OldFile(d).lines))
                          wanted == NewFile(d).lines
                      IN  /\ Len(made) = Len(wanted)
                          /\ \A l \in DOMAIN wanted : Same(made[l], wanted[l])
    <3>1. PICK k \in Sections(deltas) : d = deltas[k]
      BY <1>1, SectionsEncoded
    <3>2. PICK n \in 1..Len(index) : Full(bundle, index[n], deltas, plan, k)
      BY <2>1
    <3>3. Fit(d) /\ Plan(d, plan[k]) /\ Len(plan[k]) \in 0..Len(plan[k])
      <4>1. Fit(d) /\ Plan(d, plan[k])
        BY <1>1, <1>4, <3>1, SectionsAre DEF Fine
      <4> QED BY <4>1, PlanIs
    <3>4. Begins(d, plan[k], Script(n)) /\ Len(Script(n)) = Len(plan[k])
      BY <1>1, <1>4, <3>1, <3>2, <3>3, ScriptBegins DEF Full
    <3>5. Accepted(Script(n), OldLen(d))
      BY <3>3, <3>4, PlanAccepted
    <3> DEFINE made == Patched(Script(n), Literals(OldFile(d).lines))
               wanted == NewFile(d).lines
    <3>6. Near(d, made, 1)
      BY <3>3, <3>4, PlanMakes
    <3> HIDE DEF made
    <3>7. Len(made) = Len(wanted) /\ \A l \in DOMAIN wanted : Same(made[l], wanted[l])
      BY <3>3, <3>6, NearNew
    <3>8. EntryOf(d, n)
      BY <3>1, <3>2 DEF Full, EntryIs, EntryOf
    <3>9. n \in DOMAIN index
      <4>1. index \in Seq(P!Entry)
        BY <1>1 DEF ParserInv, P!TypeOK
      <4> QED BY <4>1
    <3> QED BY <3>5, <3>7, <3>8, <3>9 DEF made
  <2> QED BY <2>2, <2>3
<1> QED BY <1>5, <1>6

\* The reading of a cut bundle is prefixes of the files' changes.
LEMMA CutHoldsWhole == Inv /\ PatchInv => CutIsWhole
<1> SUFFICES ASSUME Inv, PatchInv, parsing = "parsed", deltas # <<>>, ~StartsWithDot,
                    NEW n \in DOMAIN index
             PROVE  \E d \in Encoded :
                        /\ EntryOf(d, n) /\ Accepted(Script(n), OldLen(d))
                        /\ \E p \in 1..(Len(d.ops) + 1) :
                              LET made == Patched(Script(n), Literals(OldFile(d).lines))
                              IN  /\ Len(made) = Len(Mixture(d, p))
                                  /\ \A l \in DOMAIN made : Same(made[l], Mixture(d, p)[l])
  BY DEF CutIsWhole
<1>1. GenInv /\ ParserInv
  BY DEF Inv
<1>2. parsing # "idle" /\ Good
  BY DEF PatchInv, Fetched, Good
<1>3. PICK plan, note : Book(deltas, plan, note, output) /\ Reading(plan, note)
  BY <1>2 DEF PatchInv, Understood
<1>4. \A k \in Sections(deltas) : Fine(deltas[k], plan[k])
  BY <1>3 DEF Book, Story
<1>5. n \in 1..Len(index)
  <2>1. index \in Seq(P!Entry)
    BY <1>1 DEF ParserInv, P!TypeOK
  <2> QED BY <2>1
<1>6. PICK k \in Sections(deltas) : Brief(bundle, index[n], deltas, plan, k)
  BY <1>3, <1>5 DEF Reading, Kept
<1>7. PICK N \in 1..Len(plan[k]) : EntryIs(bundle, index[n], deltas, plan, k, N)
  BY <1>6 DEF Brief
<1> DEFINE d == deltas[k]
           r == plan[k]
           p == r[N].from
           made == Patched(Script(n), Literals(OldFile(d).lines))
<1>8. /\ Fit(d) /\ Plan(d, r) /\ N \in 0..Len(r) /\ N # 0
      /\ p \in 1..(Len(d.ops) + 1)
  <2>1. Fit(d) /\ Plan(d, r)
    BY <1>1, <1>4, SectionsAre DEF Fine
  <2> QED BY <2>1, PlanIs
<1>9. Begins(d, r, Script(n)) /\ Len(Script(n)) = N
  BY <1>1, <1>4, <1>7, <1>8, ScriptBegins
<1>10. Accepted(Script(n), OldLen(d))
  BY <1>8, <1>9, PlanAccepted
<1>11. Near(d, made, p)
  <2>1. Near(d, made, Reached(d, r, N))
    BY <1>8, <1>9, PlanMakes
  <2> QED BY <1>8, <2>1 DEF Reached
<1>12. EntryOf(d, n) /\ d \in Encoded
  BY <1>1, <1>7, SectionsEncoded DEF EntryIs, EntryOf
<1> HIDE DEF made, p
<1>13. Len(made) = Len(Mixture(d, p)) /\ \A l \in DOMAIN made : Same(made[l], Mixture(d, p)[l])
  BY <1>8, <1>11, NearMixture
<1> QED BY <1>8, <1>10, <1>12, <1>13 DEF made

\* The invariant of the generator, of the parser and of what lies between them.
LEMMA PatchInvariant == PipeSpec => [](Inv /\ PatchInv)
<1>1. PipeInit => Inv /\ PatchInv
  BY InvInit, PatchInit
<1>2. Inv /\ PatchInv /\ [PipeNext]_<<vars, parser>> => (Inv /\ PatchInv)'
  BY InvNext, PatchNext
<1> QED BY <1>1, <1>2, PTL DEF PipeSpec

\* A bundle that was written whole, and has no lone dot in its texts, fails to parse only
\* for two names of one file.  Parsed, it has a section for each file that can be encoded,
\* every command is in range, and patching the old file with it makes the new file line
\* for line, but for the CR of an added line and for an added line that is a complete r
\* directive, which becomes the reference (emit_change and emit_newfile of changes.cpp,
\* PatchSet::parse_ed_bundle, apply_ed_script).
THEOREM FilesHold == PipeSpec => []FilesAreReproduced
BY PatchInvariant, WholeHolds, PTL

\* A bundle whose end is missing, and whose texts have no line that begins with a dot,
\* is refused or patches each of its files with the last of its changes, whole ones:
\* what is made of a file is the old file up to an op and the new file from there on.
THEOREM CutHolds == PipeSpec => []CutIsWhole
BY PatchInvariant, CutHoldsWhole, PTL
=============================================================================
