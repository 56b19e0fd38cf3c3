--------------------------- MODULE EdScript_proofs ---------------------------
(***************************************************************************)
(* Proofs about EdScript, for every set of files, scripts and corpora.     *)
(***************************************************************************)
EXTENDS EdScript, EdLemmas

-----------------------------------------------------------------------------
(* Type correctness.                                                       *)

\* The command at hand is one of the script's.
LEMMA CmdType ==
    ASSUME IsScript(script), k \in 1..Len(script)
    PROVE  /\ Cmd \in Command /\ Len(script) \in Nat
           /\ Cmd.start < MaxLine /\ Cmd.end < MaxLine
           /\ From(Cmd) \in Nat /\ AffectedLow(Cmd) \in Nat /\ AddressedTop(Cmd) \in Nat
<1>1. Len(script) \in Nat /\ DOMAIN script = 1..Len(script) /\ script[k] \in Command
  BY LenProperties, ElementOfSeq DEF IsScript
<1>2. Cmd \in Command /\ Cmd.start < MaxLine /\ Cmd.end < MaxLine
  <2>1. \A i \in DOMAIN script : script[i].start < MaxLine /\ script[i].end < MaxLine
    BY DEF IsScript
  <2>2. k \in DOMAIN script
    BY <1>1
  <2> QED BY <1>1, <2>1, <2>2 DEF Cmd
<1>3. Cmd.start \in Nat /\ Cmd.end \in Nat
  BY <1>2 DEF Command
<1> QED BY <1>1, <1>2, <1>3 DEF From, AffectedLow, AddressedTop

\* Replacing one file's cache entry by what is known of the file keeps the types.
LEMMA FetchedType ==
    ASSUME TypeOK, NEW f \in Path
    PROVE  /\ Fetched(f) \in [ok : BOOLEAN, lines : Seq(Line), read : BOOLEAN]
           /\ Fetched(f).lines \in Seq(Line)
<1>1. corpus[f].ok \in BOOLEAN /\ corpus[f].file \in File
  BY VersionsAssumption DEF TypeOK
<1>2. CorpusLines(corpus[f].file) \in Seq(Line) /\ <<>> \in Seq(Line)
  BY <1>1, CorpusLinesType, EmptySeq
<1>3. ReadNow(corpus[f]) \in [ok : BOOLEAN, lines : Seq(Line), read : BOOLEAN]
  BY <1>1, <1>2 DEF ReadNow
<1>4. cache[f] \in [ok : BOOLEAN, lines : Seq(Line), read : BOOLEAN]
  BY DEF TypeOK
<1>5. Fetched(f) \in [ok : BOOLEAN, lines : Seq(Line), read : BOOLEAN]
  BY <1>3, <1>4 DEF Fetched
<1> QED BY <1>5

\* The initial states have the types.
LEMMA TypeInit == Init => TypeOK
<1> SUFFICES ASSUME Init PROVE TypeOK
  OBVIOUS
<1>1. <<>> \in Seq(Line) /\ <<>> \in Seq(File) /\ Len(<<>>) = 0
  BY EmptySeq
<1>2. IsScript(script) /\ Len(script) \in Nat
  BY CallsAssumption, LenProperties DEF Init, IsScript
<1>3. cache \in [Path -> [ok : BOOLEAN, lines : Seq(Line), read : BOOLEAN]]
  BY <1>1 DEF Init, Unread
<1>4. content \in File /\ resolver \in BOOLEAN
  BY CallsAssumption DEF Init
<1> QED BY <1>1, <1>2, <1>3, <1>4, CallsAssumption DEF Init, TypeOK

\* Every step keeps them.
LEMMA TypeNext == TypeOK /\ [Next]_vars => TypeOK'
<1> SUFFICES ASSUME TypeOK, [Next]_vars PROVE TypeOK'
  OBVIOUS
<1>0. IsScript(script) /\ Len(script) \in Nat
  BY LenProperties DEF TypeOK, IsScript
<1>1. CASE ValidateCommand
  <2>1. k \in 1..Len(script)
    BY <1>0, <1>1 DEF ValidateCommand, TypeOK
  <2>2. AffectedLow(Cmd) \in Nat
    BY <2>1, <1>0, CmdType
  <2> QED BY <1>0, <1>1, <2>1, <2>2 DEF ValidateCommand, TypeOK, call
<1>2. CASE RejectOrder \/ OutOfRange \/ NoResolver
  BY <1>2 DEF RejectOrder, OutOfRange, NoResolver, Fail, TypeOK, call
<1>3. CASE StartApply
  <2>1. content.lines \in Seq(Line) /\ Len(content.lines) \in Nat
    BY LenProperties DEF TypeOK, File
  <2> QED BY <1>0, <1>3, <2>1 DEF StartApply, TypeOK, call
<1>4. CASE DeleteLines
  <2>1. k \in 1..Len(script)
    BY <1>0, <1>4 DEF DeleteLines, TypeOK
  <2>2. Splice(lines, Cmd, <<>>) \in Seq(Line) /\ From(Cmd) \in Nat
    BY <2>1, <1>0, <1>4, CmdType, SpliceParts, EmptySeq DEF DeleteLines, CheckRange, TypeOK
  <2> QED BY <1>0, <1>4, <2>1, <2>2 DEF DeleteLines, Perform, TypeOK, call
<1>5. CASE BeginInput
  <2>1. k \in 1..Len(script)
    BY <1>0, <1>5 DEF BeginInput, TypeOK
  <2>2. Len(Cmd.input) \in Nat /\ <<>> \in Seq(Line)
    BY <2>1, <1>0, CmdType, LenProperties, EmptySeq DEF Command
  <2> QED BY <1>0, <1>5, <2>1, <2>2 DEF BeginInput, CheckRange, TypeOK, call, Cmd
<1>6. CASE LiteralPiece \/ ResolvePiece
  <2>1. k \in 1..Len(script) /\ p \in 1..Len(Cmd.input)
    <3>1. phase = "input" /\ p <= Len(Cmd.input) /\ k <= Len(script)
      BY <1>6 DEF LiteralPiece, ResolvePiece, NextPiece, TypeOK
    <3>2. k \in 1..Len(script)
      BY <1>0, <3>1 DEF TypeOK
    <3>3. Len(Cmd.input) \in Nat
      BY <1>0, <3>2, CmdType, LenProperties DEF Command
    <3> QED BY <3>1, <3>2, <3>3 DEF TypeOK
  <2>2. Cmd.input \in Seq(Piece) /\ Len(Cmd.input) \in Nat /\ Cmd.input[p] \in Piece
    BY <2>1, <1>0, CmdType, LenProperties, ElementOfSeq DEF Command
  <2>3. CASE LiteralPiece
    <3>1. Cmd.input[p].line \in Line
      BY <2>2, <2>3 DEF LiteralPiece, Piece
    <3>2. Append(ins, Cmd.input[p].line) \in Seq(Line)
      BY <3>1, AppendProperties DEF TypeOK
    <3>3. ins' \in Seq(Line) /\ p' = p + 1
          /\ UNCHANGED <<corpus, call, phase, k, barrier, lines, cache, out, error>>
      BY <2>3, <3>2 DEF LiteralPiece
    <3> QED BY <1>0, <2>1, <2>2, <3>3, SMTT(30) DEF TypeOK, call, Cmd
  <2>4. CASE ResolvePiece
    <3> DEFINE r == Cmd.input[p].to
               entry == Fetched(r.path)
    <3>1. r \in Ref /\ r.path \in Path
      BY <2>2, <2>4 DEF ResolvePiece, Piece, Ref
    <3>2. entry \in [ok : BOOLEAN, lines : Seq(Line), read : BOOLEAN]
          /\ entry.lines \in Seq(Line)
      BY <3>1, FetchedType
    <3> HIDE DEF entry
    <3>3. cache' \in [Path -> [ok : BOOLEAN, lines : Seq(Line), read : BOOLEAN]]
      BY <3>2, <2>4 DEF ResolvePiece, TypeOK, entry
    <3>4. CASE Resolves(entry, r)
      <4>1. Transform(Run(entry.lines, r), r) \in Seq(Line)
        BY <3>1, <3>2, <3>4, TransformType DEF Resolves
      <4>2. ins \o Transform(Run(entry.lines, r), r) \in Seq(Line)
        BY <4>1, ConcatProperties DEF TypeOK
      <4>3. ins' = ins \o Transform(Run(entry.lines, r), r) /\ p' = p + 1
            /\ UNCHANGED <<phase, error>>
        BY <2>4, <3>4 DEF ResolvePiece, entry
      <4>4. UNCHANGED <<corpus, call, k, barrier, lines, out>>
        BY <2>4 DEF ResolvePiece
      <4>5. ins' \in Seq(Line) /\ p' \in Nat \ {0} /\ p' <= Len(Cmd.input) + 1 /\ Cmd' = Cmd
        BY <2>1, <2>2, <4>2, <4>3, <4>4 DEF call, Cmd
      <4>6. phase = "input"
        BY <2>4 DEF ResolvePiece, NextPiece
      <4>7. k' <= Len(script') /\ InRange(Cmd', Len(lines'))
        BY <1>0, <4>3, <4>4, <4>5, <4>6 DEF TypeOK, call
      <4> QED BY <1>0, <3>3, <4>3, <4>4, <4>5, <4>7, SMTT(30) DEF TypeOK, call
    <3>5. CASE ~Resolves(entry, r)
      <4>1. phase' = "failed" /\ error' = "reference" /\ UNCHANGED <<ins, p>>
        BY <2>4, <3>5 DEF ResolvePiece, entry
      <4>2. UNCHANGED <<corpus, call, k, barrier, lines, out>>
        BY <2>4 DEF ResolvePiece
      <4> QED BY <1>0, <3>3, <4>1, <4>2 DEF TypeOK, call
    <3> QED BY <3>4, <3>5
  <2> QED BY <1>6, <2>3, <2>4
<1>7. CASE EndInput
  <2>1. k \in 1..Len(script)
    BY <1>0, <1>7 DEF EndInput, TypeOK
  <2>2. Splice(lines, Cmd, ins) \in Seq(Line) /\ From(Cmd) \in Nat
    BY <2>1, <1>0, <1>7, CmdType, SpliceParts DEF EndInput, TypeOK
  <2> QED BY <1>0, <1>7, <2>1, <2>2 DEF EndInput, Perform, TypeOK, call
<1>8. CASE Finish
  <2>1. endsNl \in BOOLEAN
    BY DEF endsNl, TypeOK, File
  <2>2. <<JoinLines(lines, endsNl)>> \in Seq(File) /\ Len(<<JoinLines(lines, endsNl)>>) = 1
    BY <2>1, JoinLinesType DEF TypeOK
  <2> QED BY <1>0, <1>8, <2>2 DEF Finish, TypeOK, call
<1>9. CASE \E f \in Path : EditCorpus(f)
  BY <1>0, <1>9 DEF EditCorpus, TypeOK, call, Cmd
<1>10. CASE UNCHANGED vars
  BY <1>0, <1>10 DEF vars, TypeOK, call, Cmd
<1> QED BY <1>1, <1>2, <1>3, <1>4, <1>5, <1>6, <1>7, <1>8, <1>9, <1>10 DEF Next, Step

\* The variables of a call have their types, the command and the piece at hand
\* exist, and a text is only ever spliced in where it fits the buffer.
THEOREM TypeCorrect == Spec => []TypeOK
<1> QED BY TypeInit, TypeNext, PTL DEF Spec

-----------------------------------------------------------------------------
(* The order and range checks, and the prefix of the file they protect.    *)

\* Splicing a text in leaves the lines under the command's range alone.
LEMMA SpliceKeepsPrefix ==
    ASSUME NEW ls \in Seq(Line), NEW c \in Command, NEW text \in Seq(Line),
           InRange(c, Len(ls))
    PROVE  /\ From(c) - 1 <= Len(Splice(ls, c, text))
           /\ \A x \in 1..(From(c) - 1) : Splice(ls, c, text)[x] = ls[x]
<1> DEFINE low == SubSeq(ls, 1, From(c) - 1)
           high == SubSeq(ls, To(c) + 1, Len(ls))
<1>1. low \in Seq(Line) /\ high \in Seq(Line) /\ Len(low) = From(c) - 1
      /\ From(c) \in 1..(Len(ls) + 1)
  BY SpliceParts
<1>2. \A x \in 1..(From(c) - 1) : low[x] = ls[x]
  BY <1>1, PartOfSeq, LenProperties
<1> HIDE DEF low, high
<1>5. Len(low) \in Nat /\ Len(text) \in Nat /\ Len(high) \in Nat
  BY <1>1, LenProperties
<1>3. /\ low \o text \in Seq(Line) /\ Len(low \o text) = Len(low) + Len(text)
      /\ \A x \in 1..(Len(low) + Len(text)) :
            (low \o text)[x] = IF x <= Len(low) THEN low[x] ELSE text[x - Len(low)]
  BY <1>1, ConcatProperties
<1>4. /\ Len((low \o text) \o high) = Len(low) + Len(text) + Len(high)
      /\ \A x \in 1..(Len(low \o text) + Len(high)) : ((low \o text) \o high)[x] =
            IF x <= Len(low \o text) THEN (low \o text)[x] ELSE high[x - Len(low \o text)]
  BY <1>1, <1>3, ConcatProperties, SMTT(30)
<1>6. \A x \in 1..Len(low) : ((low \o text) \o high)[x] = low[x]
  BY <1>3, <1>4, <1>5
<1>7. Splice(ls, c, text) = (low \o text) \o high
  BY DEF Splice, low, high
<1> QED BY <1>1, <1>2, <1>4, <1>5, <1>6, <1>7

\* A command about to be applied fits the buffer exactly if it fits the file, and
\* one that fits lies under everything touched so far.
LEMMA RangeAgrees ==
    ASSUME TypeOK, AppliedSoFar, PrefixIntact, applying, k \in 1..Len(script)
    PROVE  /\ CheckRange(Cmd) <=> InRange(Cmd, Len(content.lines))
           /\ CheckRange(Cmd) => To(Cmd) < barrier /\ From(Cmd) <= barrier
<1>1. Len(lines) \in Nat /\ Len(content.lines) \in Nat /\ Len(script) \in Nat
      /\ DOMAIN script = 1..Len(script)
  BY LenProperties DEF TypeOK, File, IsScript
<1>2. Cmd \in Command /\ Cmd.start \in Nat /\ Cmd.end \in Nat
  BY CmdType DEF TypeOK, Command
<1>3. CASE k = 1
  BY <1>1, <1>2, <1>3 DEF AppliedSoFar, CheckRange, InRange, To, From
<1>4. CASE k # 1
  <2>1. barrier = AffectedLow(script[k - 1])
    BY <1>4 DEF AppliedSoFar
  <2>2. AddressedTop(Cmd) < barrier
    BY <1>1, <1>4, <2>1 DEF AppliedSoFar, Descending, Cmd
  <2>3. barrier <= Len(content.lines) + 1 /\ barrier <= Len(lines) + 1 /\ barrier \in Nat
    BY DEF PrefixIntact, TypeOK
  <2> QED BY <1>1, <1>2, <2>2, <2>3 DEF CheckRange, InRange, To, From, AddressedTop
<1> QED BY <1>3, <1>4

\* The initial states satisfy the inductive invariant.
LEMMA IInvInit == Init => IInv
<1> SUFFICES ASSUME Init PROVE IInv
  OBVIOUS
<1>1. TypeOK
  BY TypeInit
<1>2. phase = "validate" /\ k = 1 /\ lines = <<>> /\ barrier = MaxLine /\ error = "none"
  BY DEF Init
<1> QED BY <1>1, <1>2 DEF IInv, ValidatedSoFar, AppliedSoFar, PrefixIntact,
                          ErrorsSoFar, OrderExact, RangeIsOriginals, applying

\* A step that validates a command keeps it.
LEMMA ValidateKeepsIInv == IInv /\ TypeOK' /\ (ValidateCommand \/ RejectOrder) => IInv'
<1> SUFFICES ASSUME IInv, TypeOK', ValidateCommand \/ RejectOrder PROVE IInv'
  OBVIOUS
<1>1. k \in 1..Len(script) /\ phase = "validate" /\ Len(script) \in Nat
      /\ DOMAIN script = 1..Len(script) /\ script' = script
  BY LenProperties DEF IInv, TypeOK, IsScript, ValidateCommand, RejectOrder, Fail, call
<1>2. /\ AffectedLow(Cmd) \in Nat /\ AddressedTop(Cmd) \in Nat /\ barrier \in Nat
      /\ AddressedTop(Cmd) < MaxLine
  BY <1>1, CmdType DEF IInv, TypeOK, AddressedTop
<1>3. \A i \in 1..(k - 1) : script[i] \in Command /\ AffectedLow(script[i]) \in Nat
  <2>1. \A i \in 1..(k - 1) : script[i] \in Command
    BY <1>1, ElementOfSeq DEF IInv, TypeOK, IsScript
  <2>2. \A c \in Command : AffectedLow(c) \in Nat
    BY DEF AffectedLow, From, Command
  <2> QED BY <2>1, <2>2
<1>4. error = "none"
  BY <1>1 DEF IInv, ErrorsSoFar
<1>5. CASE ValidateCommand
  <2>1. AddressedTop(Cmd) < barrier /\ k' = k + 1 /\ phase' = "validate"
        /\ barrier' = (IF AffectedLow(Cmd) < barrier THEN AffectedLow(Cmd) ELSE barrier)
        /\ lines' = lines /\ error' = error
    BY <1>1, <1>5 DEF ValidateCommand, InOrder
  <2>2. ValidatedSoFar'
    <3>1. \A i \in 1..(k' - 1) : barrier' <= AffectedLow(script[i])
      BY <1>1, <1>2, <1>3, <2>1 DEF IInv, ValidatedSoFar, Cmd
    <3>2. \A j \in 1..(k' - 1) : \A i \in 1..(j - 1) :
             AddressedTop(script[j]) < AffectedLow(script[i])
      BY <1>1, <1>2, <1>3, <2>1 DEF IInv, ValidatedSoFar, Cmd
    <3>3. barrier' = MaxLine \/ \E i \in 1..(k' - 1) : barrier' = AffectedLow(script[i])
      BY <1>1, <1>2, <1>3, <2>1 DEF IInv, ValidatedSoFar, Cmd
    <3> QED BY <1>1, <2>1, <3>1, <3>2, <3>3 DEF IInv, ValidatedSoFar
  <2> QED BY <1>1, <1>4, <2>1, <2>2 DEF IInv, AppliedSoFar, PrefixIntact, ErrorsSoFar,
                                        OrderExact, RangeIsOriginals, applying
<1>6. CASE RejectOrder
  <2>1. AddressedTop(Cmd) >= barrier /\ k' = k /\ phase' = "failed" /\ error' = "order"
    BY <1>1, <1>2, <1>6 DEF RejectOrder, InOrder, Fail
  <2>2. \E i \in 1..(k - 1) : barrier = AffectedLow(script[i])
    BY <1>1, <1>2, <2>1 DEF IInv, ValidatedSoFar
  <2>3. ~Descending(script)
    BY <1>1, <1>2, <1>3, <2>1, <2>2 DEF Descending, Cmd
  <2> QED BY <1>1, <2>1, <2>3 DEF IInv, ValidatedSoFar, AppliedSoFar, PrefixIntact,
                ErrorsSoFar, OrderExact, RangeIsOriginals, applying, Descending
<1> QED BY <1>5, <1>6

\* So does the step from validation to the first command.
LEMMA StartKeepsIInv == IInv /\ TypeOK' /\ StartApply => IInv'
<1> SUFFICES ASSUME IInv, TypeOK', StartApply PROVE IInv'
  OBVIOUS
<1>1. Len(script) \in Nat /\ DOMAIN script = 1..Len(script) /\ Len(content.lines) \in Nat
      /\ k = Len(script) + 1
  <2>1. Len(script) \in Nat /\ DOMAIN script = 1..Len(script)
    BY LenProperties DEF IInv, TypeOK, IsScript
  <2>2. Len(content.lines) \in Nat
    BY LenProperties DEF IInv, TypeOK, File
  <2>3. k = Len(script) + 1
    BY <2>1 DEF IInv, TypeOK, StartApply
  <2> QED BY <2>1, <2>2, <2>3
<1>2. phase' = "apply" /\ k' = 1 /\ lines' = content.lines
      /\ barrier' = Len(content.lines) + 1 /\ error' = error
      /\ script' = script /\ content' = content /\ error = "none"
  BY DEF StartApply, call, IInv, ErrorsSoFar
<1>3. Descending(script)
  BY <1>1 DEF IInv, ValidatedSoFar, StartApply, Descending
<1> QED BY <1>1, <1>2, <1>3 DEF IInv, ValidatedSoFar, AppliedSoFar, PrefixIntact,
                ErrorsSoFar, OrderExact, RangeIsOriginals, applying, Descending

\* A step that gives up keeps it: for an address, because the command does not fit
\* the file either.
LEMMA FailKeepsIInv ==
    IInv /\ TypeOK' /\ (OutOfRange \/ NoResolver \/ (ResolvePiece /\ phase' = "failed"))
    => IInv'
<1> SUFFICES ASSUME IInv, TypeOK',
                    OutOfRange \/ NoResolver \/ (ResolvePiece /\ phase' = "failed")
             PROVE  IInv'
  OBVIOUS
<1>1. /\ phase \in {"apply", "input"} /\ phase' = "failed" /\ applying
      /\ UNCHANGED <<content, script, k, barrier, lines>>
      /\ error' \in {"range", "resolver", "reference"}
      /\ error' = "range" => OutOfRange
  BY DEF OutOfRange, NoResolver, ResolvePiece, NextPiece, Fail, call, applying
<1>2. Len(script) \in Nat
  BY LenProperties DEF IInv, TypeOK, IsScript
<1>3. k \in 1..Len(script)
  <2>1. k <= Len(script)
    BY DEF OutOfRange, NoResolver, ResolvePiece, NextPiece, IInv, TypeOK
  <2>2. k \in Nat \ {0}
    BY <1>2 DEF IInv, TypeOK
  <2> QED BY <1>2, <2>1, <2>2
<1>4. error' = "range" => ~InRange(Cmd, Len(content.lines))
  BY <1>1, <1>3, RangeAgrees DEF OutOfRange, IInv
<1> QED BY <1>1, <1>2, <1>3, <1>4
        DEF IInv, ValidatedSoFar, AppliedSoFar, PrefixIntact, ErrorsSoFar, OrderExact,
            RangeIsOriginals, applying, Descending, Cmd

\* A step that builds a command's text, ends the call or changes the corpus keeps it.
LEMMA QuietKeepsIInv ==
    ASSUME IInv, TypeOK', UNCHANGED <<content, script, k, barrier, lines, error>>,
           phase' = phase \/ (phase = "apply" /\ phase' = "input")
                          \/ Finish
    PROVE  IInv'
<1>1. Len(script) \in Nat /\ DOMAIN script = 1..Len(script)
  BY LenProperties DEF IInv, TypeOK, IsScript
<1>2. CASE Finish
  <2>1. phase = "apply" /\ phase' = "done" /\ k = Len(script) + 1
    BY <1>1, <1>2 DEF Finish, IInv, TypeOK
  <2>2. error = "none"
    BY <2>1 DEF IInv, ErrorsSoFar
  <2> QED BY <1>1, <2>1, <2>2
        DEF IInv, ValidatedSoFar, AppliedSoFar, PrefixIntact, ErrorsSoFar, OrderExact,
            RangeIsOriginals, applying, Descending
<1>3. CASE phase' = phase
  BY <1>1, <1>3
     DEF IInv, ValidatedSoFar, AppliedSoFar, PrefixIntact, ErrorsSoFar, OrderExact,
         RangeIsOriginals, applying, Descending, Cmd
<1>4. CASE phase = "apply" /\ phase' = "input"
  BY <1>1, <1>4
     DEF IInv, ValidatedSoFar, AppliedSoFar, PrefixIntact, ErrorsSoFar, OrderExact,
         RangeIsOriginals, applying, Descending, Cmd
<1> QED BY <1>2, <1>3, <1>4

\* Applying a command keeps it.
LEMMA PerformKeepsIInv ==
    ASSUME IInv, TypeOK', NEW text \in Seq(Line), phase \in {"apply", "input"},
           k \in 1..Len(script), CheckRange(Cmd), Perform(Cmd, text),
           UNCHANGED <<content, script, error>>
    PROVE  IInv'
<1>1. Len(script) \in Nat /\ DOMAIN script = 1..Len(script)
  BY LenProperties DEF IInv, TypeOK, IsScript
<1>2. applying /\ Cmd \in Command
  BY CmdType DEF applying, IInv, TypeOK
<1>3. /\ InRange(Cmd, Len(content.lines))
      /\ To(Cmd) < barrier /\ From(Cmd) <= barrier
  BY <1>2, RangeAgrees DEF IInv
<1>4. /\ From(Cmd) - 1 <= Len(lines')
      /\ \A x \in 1..(From(Cmd) - 1) : lines'[x] = lines[x]
  BY <1>2, SpliceKeepsPrefix, SMTT(30) DEF Perform, CheckRange, IInv, TypeOK
<1>5. From(Cmd) \in Nat /\ barrier \in Nat /\ Len(lines') \in Nat
  BY CmdType, LenProperties DEF IInv, TypeOK
<1>6. /\ barrier' = From(Cmd) /\ k' = k + 1 /\ phase' = "apply"
      /\ script' = script /\ content' = content /\ error' = error /\ error = "none"
  BY DEF Perform, IInv, ErrorsSoFar
<1>7. PrefixIntact'
  <2>1. /\ barrier <= Len(content.lines) + 1
        /\ \A x \in 1..(barrier - 1) : lines[x] = content.lines[x]
    BY <1>2 DEF PrefixIntact, IInv
  <2>2. Len(content.lines) \in Nat
    BY LenProperties DEF IInv, TypeOK, File
  <2>3. ASSUME NEW x \in 1..(From(Cmd) - 1) PROVE lines'[x] = content.lines[x]
    <3>1. x \in 1..(barrier - 1)
      BY <1>3, <1>5
    <3> QED BY <1>4, <2>1, <3>1
  <2> QED BY <1>3, <1>4, <1>5, <1>6, <2>1, <2>2, <2>3 DEF PrefixIntact
<1>8. AppliedSoFar'
  <2>1. \A i \in 1..(k' - 1) : InRange(script[i], Len(content.lines))
    BY <1>1, <1>2, <1>3, <1>6 DEF AppliedSoFar, IInv, Cmd
  <2> QED BY <1>1, <1>2, <1>6, <2>1 DEF AppliedSoFar, IInv, Cmd, AffectedLow, Descending
<1> QED BY <1>1, <1>2, <1>6, <1>7, <1>8
        DEF IInv, ValidatedSoFar, ErrorsSoFar, OrderExact, RangeIsOriginals, AppliedSoFar

\* Every step keeps the inductive invariant.
LEMMA IInvNext == IInv /\ [Next]_vars => IInv'
<1> SUFFICES ASSUME IInv, [Next]_vars PROVE IInv'
  OBVIOUS
<1>0. TypeOK' /\ IsScript(script) /\ Len(script) \in Nat
  BY TypeNext, LenProperties DEF IInv, TypeOK, IsScript
<1>1. CASE ValidateCommand \/ RejectOrder
  BY <1>0, <1>1, ValidateKeepsIInv
<1>2. CASE StartApply
  BY <1>0, <1>2, StartKeepsIInv
<1>3. CASE OutOfRange \/ NoResolver \/ (ResolvePiece /\ phase' = "failed")
  BY <1>0, <1>3, FailKeepsIInv
<1>4. CASE DeleteLines
  <2>1. k \in 1..Len(script)
    BY <1>0, <1>4 DEF DeleteLines, IInv, TypeOK
  <2> QED BY <1>0, <1>4, <2>1, EmptySeq, PerformKeepsIInv DEF DeleteLines, call
<1>5. CASE EndInput
  <2>1. k \in 1..Len(script) /\ CheckRange(Cmd) /\ ins \in Seq(Line)
    BY <1>0, <1>5 DEF EndInput, IInv, TypeOK, CheckRange
  <2> QED BY <1>0, <1>5, <2>1, PerformKeepsIInv DEF EndInput, call
<1>6. CASE BeginInput
  BY <1>0, <1>6, QuietKeepsIInv DEF BeginInput, call
<1>7. CASE LiteralPiece
  BY <1>0, <1>7, QuietKeepsIInv DEF LiteralPiece, call
<1>8. CASE ResolvePiece /\ phase' # "failed"
  <2>1. UNCHANGED <<content, script, k, barrier, lines>>
    BY <1>8 DEF ResolvePiece, call
  <2>2. UNCHANGED <<phase, error>>
    BY <1>8 DEF ResolvePiece
  <2> QED BY <1>0, <2>1, <2>2, QuietKeepsIInv
<1>9. CASE Finish
  BY <1>0, <1>9, QuietKeepsIInv DEF Finish, call
<1>10. CASE (\E f \in Path : EditCorpus(f)) \/ UNCHANGED vars
  BY <1>0, <1>10, QuietKeepsIInv DEF EditCorpus, vars, call
<1> QED BY <1>1, <1>2, <1>3, <1>4, <1>5, <1>6, <1>7, <1>8, <1>9, <1>10 DEF Next, Step

\* Validation accepts a script when each of its commands addresses only lines under all
\* that the earlier ones touch, and rejects no such script for its order: for every
\* script and file.
THEOREM OrderCorrect == Spec => []OrderExact
<1>1. IInv => OrderExact
  BY DEF IInv
<1> QED BY <1>1, IInvInit, IInvNext, PTL DEF Spec

\* The range checks on the buffer are those on the file; and until a command touches
\* it the file's prefix is intact in the buffer: in every call, for every script and file.
THEOREM AddressingCorrect == Spec => [](RangeIsOriginals /\ PrefixIntact)
<1>1. IInv => RangeIsOriginals /\ PrefixIntact
  BY DEF IInv
<1> QED BY <1>1, IInvInit, IInvNext, PTL DEF Spec

-----------------------------------------------------------------------------
(* Sequential application implements original addressing.                  *)

\* Concatenation of lines is associative.
LEMMA LinesAssociate == \A s, t, u \in Seq(Line) : (s \o t) \o u = s \o (t \o u)
BY ConcatAssociative

\* The part of the buffer from a command's first line on, once it is applied: its
\* text, the lines the file has between its range and the barrier, and the part
\* of the buffer from the barrier on.
LEMMA SpliceTail ==
    ASSUME lines \in Seq(Line), content.lines \in Seq(Line), Cmd \in Command,
           NEW text \in Seq(Line), barrier \in Nat \ {0},
           InRange(Cmd, Len(lines)), To(Cmd) < barrier, From(Cmd) <= barrier,
           barrier <= Len(lines) + 1, barrier <= Len(content.lines) + 1,
           \A x \in 1..(barrier - 1) : lines[x] = content.lines[x],
           lines' = Splice(lines, Cmd, text)
    PROVE  LET rest == SubSeq(lines', From(Cmd), Len(lines'))
           IN  /\ rest = text \o SubSeq(content.lines, To(Cmd) + 1, barrier - 1)
                              \o SubSeq(lines, barrier, Len(lines))
               /\ SubSeq(rest, 1, Len(text)) = text
               /\ Len(text) \in 0..Len(rest)
<1> DEFINE low == SubSeq(lines, 1, From(Cmd) - 1)
           mid == SubSeq(lines, To(Cmd) + 1, barrier - 1)
           end == SubSeq(lines, barrier, Len(lines))
<1>1. low \in Seq(Line) /\ Len(low) = From(Cmd) - 1
      /\ From(Cmd) \in 1..(Len(lines) + 1) /\ To(Cmd) \in Nat
  BY SpliceParts
<1>2. Len(lines) \in Nat /\ Len(content.lines) \in Nat
  BY LenProperties
<1>3. mid \in Seq(Line) /\ end \in Seq(Line)
  BY <1>1, <1>2, PartOfSeq
<1>4. SubSeq(lines, To(Cmd) + 1, Len(lines)) = mid \o end
  <2>1. To(Cmd) + 1 \in Nat \ {0} /\ To(Cmd) + 1 <= barrier
    BY <1>1
  <2> QED BY <2>1, CutInTwo
<1>5. mid = SubSeq(content.lines, To(Cmd) + 1, barrier - 1)
  <2>1. To(Cmd) + 1 \in Nat \ {0} /\ barrier - 1 \in Nat /\ barrier - 1 <= Len(lines) /\ barrier - 1 <= Len(content.lines)
    BY <1>1, <1>2
  <2> QED BY <2>1, PartsAgree, SMTT(30)
<1>6. SubSeq(lines, To(Cmd) + 1, Len(lines)) \in Seq(Line)
  BY SpliceParts
<1>7. Len(low) + 1 = From(Cmd)
  BY <1>1
<1> HIDE DEF mid, end
<1>8. PICK high \in Seq(Line) : high = SubSeq(lines, To(Cmd) + 1, Len(lines))
  BY <1>6
<1>9. lines' = low \o text \o high
  BY <1>8, Zenon DEF Splice
<1> HIDE DEF low
<1>10. /\ SubSeq(lines', Len(low) + 1, Len(lines')) = text \o high
       /\ SubSeq(text \o high, 1, Len(text)) = text
       /\ Len(text) \in 0..Len(text \o high)
  <2>1. low \in Seq(Line)
    BY <1>1
  <2>2. \A s, t, u \in Seq(Line) : \A v : v = s \o t \o u =>
             /\ SubSeq(v, Len(s) + 1, Len(v)) = t \o u
             /\ SubSeq(t \o u, 1, Len(t)) = t
             /\ Len(t) \in 0..Len(t \o u)
    BY RestOfThree
  <2> QED BY <2>1, <2>2, <1>9, Zenon
<1>11. text \o high = text \o mid \o end
  <2>1. (text \o mid) \o end = text \o (mid \o end)
    BY <1>3, LinesAssociate, ZenonT(30)
  <2> QED BY <1>4, <1>8, <2>1, Zenon
<1> QED BY <1>5, <1>7, <1>10, <1>11, Zenon DEF end

\* Applying a command is one Replace of the abstract machine.
LEMMA PerformRefines ==
    ASSUME IInv, IInv', NEW text \in Seq(Line), phase \in {"apply", "input"},
           k \in 1..Len(script), CheckRange(Cmd), Perform(Cmd, text),
           UNCHANGED <<content, script>>
    PROVE  Original!Next
<1> DEFINE rest == SubSeq(lines, barrier, Len(lines))
<1>0. TypeOK /\ IsScript(script) /\ Len(script) \in Nat /\ k \in Nat
  <2>1. TypeOK /\ IsScript(script)
    BY DEF IInv, TypeOK
  <2>2. Len(script) \in Nat
    BY <2>1, LenProperties DEF IsScript
  <2> QED BY <2>1, <2>2
<1>1. applying /\ applying' /\ Cmd \in Command /\ Cmd = script[k - 1 + 1]
      /\ From(Cmd) \in Nat /\ Len(script) \in Nat
  <2>1. applying /\ applying'
    BY DEF applying, Perform
  <2>2. Cmd \in Command /\ From(Cmd) \in Nat
    BY <1>0, CmdType
  <2>3. Cmd = script[k - 1 + 1]
    BY <1>0 DEF Cmd
  <2>4. Len(script) \in Nat
    BY <1>0
  <2> QED BY <2>1, <2>2, <2>3, <2>4
<1>2. /\ To(Cmd) < barrier /\ From(Cmd) <= barrier
      /\ 1 <= From(Cmd) /\ From(Cmd) <= To(Cmd) + 1 /\ To(Cmd) \in Nat
  <2>1. To(Cmd) < barrier /\ From(Cmd) <= barrier
    BY <1>1, RangeAgrees DEF IInv
  <2>2. From(Cmd) \in 1..(Len(lines) + 1) /\ From(Cmd) - 1 <= To(Cmd) /\ To(Cmd) \in Nat
    BY <1>1, SpliceParts DEF IInv, TypeOK, CheckRange
  <2> QED BY <1>1, <2>1, <2>2
<1>3. /\ barrier <= Len(lines) + 1 /\ barrier <= Len(content.lines) + 1
      /\ \A x \in 1..(barrier - 1) : lines[x] = content.lines[x]
      /\ barrier \in Nat \ {0} /\ lines \in Seq(Line) /\ content.lines \in Seq(Line)
  <2>1. /\ barrier <= Len(lines) + 1 /\ barrier <= Len(content.lines) + 1
        /\ \A x \in 1..(barrier - 1) : lines[x] = content.lines[x]
    BY <1>1 DEF IInv, PrefixIntact
  <2>2. barrier \in Nat /\ lines \in Seq(Line) /\ content.lines \in Seq(Line)
    BY DEF IInv, TypeOK, File
  <2> QED BY <1>2, <2>1, <2>2
<1>4. /\ lines' = Splice(lines, Cmd, text) /\ barrier' = From(Cmd) /\ k' = k + 1
      /\ phase' = "apply"
  BY DEF Perform
<1>5. /\ rest' = text \o SubSeq(content.lines, To(Cmd) + 1, barrier - 1) \o rest
      /\ SubSeq(rest', 1, Len(text)) = text
      /\ Len(text) \in 0..Len(rest')
  <2>1. rest' = SubSeq(lines', From(Cmd), Len(lines'))
    BY <1>4
  <2>2. Cmd \in Command /\ InRange(Cmd, Len(lines))
    BY <1>1 DEF CheckRange
  <2> QED BY <2>1, <2>2, <1>2, <1>3, <1>4, SpliceTail, Zenon
<1>6. cut = barrier /\ cut' = barrier'
  BY <1>1 DEF cut
<1>7. tail = rest /\ tail' = rest'
  BY <1>6 DEF tail
<1>8. applied = k - 1 /\ applied' = k /\ status = "working" /\ status' = "working"
      /\ applied + 1 = k /\ applied < Len(script)
  BY <1>1, <1>4 DEF applied, status
<1> HIDE DEF rest
<1>9. Original!Replace(text)
  <2>1. script[applied + 1] = Cmd /\ cut' = From(Cmd) /\ applied' = applied + 1
    BY <1>4, <1>6, <1>8 DEF Cmd
  <2>2. tail' = text \o SubSeq(content.lines, To(Cmd) + 1, cut - 1) \o tail
    BY <1>5, <1>6, <1>7, Zenon
  <2>3. UNCHANGED <<content.lines, script, status>>
    BY <1>8
  <2>4. 1 <= From(Cmd) /\ From(Cmd) <= To(Cmd) + 1 /\ To(Cmd) < cut
        /\ status = "working" /\ applied < Len(script)
    BY <1>2, <1>6, <1>8, Zenon
  <2>5. Original!From(Cmd) = From(Cmd) /\ Original!To(Cmd) = To(Cmd)
    BY DEF From, To, Original!From, Original!To
  <2> HIDE DEF Cmd
  <2> QED BY <2>1, <2>2, <2>3, <2>4, <2>5, Zenon DEF Original!Replace
<1>10. SubSeq(tail', 1, Len(text)) = text /\ Len(text) \in 0..Len(tail')
  BY <1>5, <1>7, Zenon
<1> QED BY <1>9, <1>10, Zenon DEF Original!Next

\* The initial states are the abstract machine's.
LEMMA InitRefines == Init => Original!Init
<1> SUFFICES ASSUME Init PROVE Original!Init
  OBVIOUS
<1>1. ~applying /\ lines = <<>> /\ status = "working" /\ applied = 0
      /\ cut = Len(content.lines) + 1
  BY DEF Init, applying, status, applied, cut
<1>2. Len(content.lines) \in Nat
  BY CallsAssumption, LenProperties DEF Init, File
<1>3. tail = <<>>
  BY <1>1, <1>2, EmptySeq, SubSeqEmpty DEF tail
<1> QED BY <1>1, <1>3 DEF Original!Init

\* Every step is a step of the abstract machine or leaves it as it is.
LEMMA NextRefines == IInv /\ IInv' /\ [Next]_vars => [Original!Next]_(Original!vars)
<1> SUFFICES ASSUME IInv, IInv', [Next]_vars
             PROVE  Original!Next \/ UNCHANGED Original!vars
  OBVIOUS
<1>1. Len(script) \in Nat /\ Len(content.lines) \in Nat
  BY LenProperties DEF IInv, TypeOK, IsScript, File
<1>2. CASE ValidateCommand
  <2>1. ~applying /\ ~applying' /\ status' = status
        /\ UNCHANGED <<content, script, lines>>
    BY <1>2 DEF ValidateCommand, applying, status, call
  <2> QED BY <2>1 DEF Original!vars, applied, cut, tail
<1>3. CASE StartApply
  <2>1. ~applying /\ applying' /\ status' = status /\ k' = 1 /\ barrier' = Len(content.lines) + 1
        /\ UNCHANGED <<content, script>> /\ lines = <<>> /\ lines' = content.lines
    BY <1>3 DEF StartApply, applying, status, call, IInv, ValidatedSoFar
  <2>2. applied' = applied /\ cut' = cut /\ cut = Len(content.lines) + 1
    BY <2>1 DEF applied, cut
  <2>3. tail = <<>> /\ tail' = <<>>
    BY <1>1, <2>1, <2>2, EmptySeq, SubSeqEmpty DEF tail
  <2> QED BY <2>1, <2>2, <2>3 DEF Original!vars
<1>4. CASE DeleteLines
  <2>1. k \in 1..Len(script)
    BY <1>1, <1>4 DEF DeleteLines, IInv, TypeOK
  <2> QED BY <1>4, <2>1, EmptySeq, PerformRefines DEF DeleteLines, call
<1>5. CASE EndInput
  <2>1. k \in 1..Len(script) /\ CheckRange(Cmd) /\ ins \in Seq(Line)
    BY <1>1, <1>5 DEF EndInput, IInv, TypeOK, CheckRange
  <2> QED BY <1>5, <2>1, PerformRefines DEF EndInput, call
<1>6. CASE BeginInput \/ LiteralPiece \/ (ResolvePiece /\ phase' # "failed")
           \/ (\E f \in Path : EditCorpus(f)) \/ UNCHANGED vars
  <2>1. UNCHANGED <<content, script, lines, k, barrier>> /\ status' = status
        /\ applying' = applying
    BY <1>6 DEF BeginInput, LiteralPiece, ResolvePiece, NextPiece, EditCorpus, vars,
                call, status, applying
  <2> QED BY <2>1 DEF Original!vars, applied, cut, tail
<1>7. CASE RejectOrder \/ OutOfRange \/ NoResolver \/ (ResolvePiece /\ phase' = "failed")
  <2>1. UNCHANGED <<content, script, lines, k, barrier>> /\ status = "working"
        /\ status' = "refused" /\ applying' = applying
    BY <1>7 DEF RejectOrder, OutOfRange, NoResolver, ResolvePiece, NextPiece, Fail,
                call, status, applying
  <2> QED BY <2>1 DEF Original!Next, Original!Refuse, applied, cut, tail
<1>8. CASE Finish
  <2>1. UNCHANGED <<content, script, lines, k, barrier>> /\ status = "working"
        /\ status' = "patched" /\ applying /\ applying' /\ k = Len(script) + 1
    <3>1. phase = "apply" /\ phase' = "done" /\ k > Len(script)
          /\ UNCHANGED <<content, script, lines, k, barrier>>
      BY <1>8 DEF Finish, call
    <3>2. k \in 1..(Len(script) + 1)
      BY DEF IInv, TypeOK
    <3>3. status = "working" /\ status' = "patched" /\ applying /\ applying'
      BY <3>1 DEF status, applying
    <3> QED BY <1>1, <3>1, <3>2, <3>3
  <2>2. applied = Len(script)
    BY <1>1, <2>1 DEF applied
  <2> QED BY <2>1, <2>2 DEF Original!Next, Original!Patch, applied, cut, tail
<1> QED BY <1>2, <1>3, <1>4, <1>5, <1>6, <1>7, <1>8 DEF Next, Step

\* Applying the commands one after the other to the renumbering buffer implements
\* addressing the lines of the original file (validate_command_order's comment),
\* for every file, every script and every corpus.
THEOREM Refinement == Spec => ImplementsOriginal
<1> QED BY InitRefines, NextRefines, IInvInit, IInvNext, PTL
        DEF Spec, ImplementsOriginal, Original!Spec

-----------------------------------------------------------------------------
(* The output, addressed in the original.                                  *)

Item(s, n, ls, texts, x) == Gap(s, n, x - 1, texts) \o LineOrNot(s, n, ls, x)
Items(s, n, ls, texts) == [x \in 1..(Len(ls) + 1) |-> Item(s, n, ls, texts, x)]

\* The texts of one gap, each or none.
Anchored(s, n, g, texts) ==
    [i \in 1..n |-> IF From(s[n + 1 - i]) - 1 = g THEN texts[n + 1 - i] ELSE <<>>]

LEMMA AnchoredType ==
    ASSUME NEW s, NEW n \in Nat, NEW g, NEW texts, \A i \in 1..n : texts[i] \in Seq(Line)
    PROVE  /\ Anchored(s, n, g, texts) \in Seq(Seq(Line))
           /\ Len(Anchored(s, n, g, texts)) = n
           /\ Gap(s, n, g, texts) = FlattenSeq(Anchored(s, n, g, texts))
           /\ Gap(s, n, g, texts) \in Seq(Line)
<1>1. \A i \in 1..n : n + 1 - i \in 1..n
  OBVIOUS
<1>2. <<>> \in Seq(Line)
  BY EmptySeq
<1>3. Anchored(s, n, g, texts) \in [1..n -> Seq(Line)]
  BY <1>1, <1>2 DEF Anchored
<1>4. Anchored(s, n, g, texts) \in Seq(Seq(Line)) /\ Len(Anchored(s, n, g, texts)) = n
  BY <1>3, FunctionIsSeq
<1>5. Gap(s, n, g, texts) = FlattenSeq(Anchored(s, n, g, texts))
  BY DEF Gap, Anchored
<1> QED BY <1>4, <1>5, FlattenType

\* One command more puts its text before those of the commands above it.
LEMMA GapStep ==
    ASSUME NEW s, NEW n \in Nat, NEW texts, \A i \in 1..(n + 1) : texts[i] \in Seq(Line), NEW g
    PROVE  Gap(s, n + 1, g, texts) =
              (IF From(s[n + 1]) - 1 = g THEN texts[n + 1] ELSE <<>>) \o Gap(s, n, g, texts)
<1> DEFINE h == IF From(s[n + 1]) - 1 = g THEN texts[n + 1] ELSE <<>>
           u == Anchored(s, n + 1, g, texts)
           v == Anchored(s, n, g, texts)
<1>1. /\ u \in Seq(Seq(Line)) /\ Len(u) = n + 1 /\ Gap(s, n + 1, g, texts) = FlattenSeq(u)
      /\ v \in Seq(Seq(Line)) /\ Len(v) = n /\ Gap(s, n, g, texts) = FlattenSeq(v)
  BY AnchoredType
<1>2. h \in Seq(Line) /\ <<h>> \in Seq(Seq(Line)) /\ Len(<<h>>) = 1 /\ <<h>>[1] = h
  <2>1. h \in Seq(Line)
    BY EmptySeq
  <2> HIDE DEF h
  <2> QED BY <2>1
<1>3. \A i \in 1..(n + 1) : u[i] = IF i = 1 THEN h ELSE v[i - 1]
  <2> TAKE i \in 1..(n + 1)
  <2>1. u[i] = IF From(s[n + 1 + 1 - i]) - 1 = g THEN texts[n + 1 + 1 - i] ELSE <<>>
    BY DEF Anchored
  <2>2. CASE i = 1
    <3>1. n + 1 + 1 - i = n + 1
      BY <2>2
    <3> HIDE DEF u
    <3> QED BY <2>1, <2>2, <3>1
  <2>3. CASE i # 1
    <3>1. i - 1 \in 1..n /\ n + 1 + 1 - i = n + 1 - (i - 1)
      BY <2>3
    <3>2. v[i - 1] = IF From(s[n + 1 - (i - 1)]) - 1 = g THEN texts[n + 1 - (i - 1)] ELSE <<>>
      BY <3>1 DEF Anchored
    <3> HIDE DEF u, v
    <3> QED BY <2>1, <2>3, <3>1, <3>2
  <2> QED BY <2>2, <2>3
<1> HIDE DEF h, u, v
<1>4. <<h>> \o v \in Seq(Seq(Line)) /\ Len(<<h>> \o v) = n + 1
      /\ \A i \in 1..(n + 1) : (<<h>> \o v)[i] = IF i <= 1 THEN <<h>>[i] ELSE v[i - 1]
  <2>1. /\ <<h>> \o v \in Seq(Seq(Line)) /\ Len(<<h>> \o v) = Len(<<h>>) + Len(v)
        /\ \A i \in 1..(Len(<<h>>) + Len(v)) :
              (<<h>> \o v)[i] = IF i <= Len(<<h>>) THEN <<h>>[i] ELSE v[i - Len(<<h>>)]
    BY <1>1, <1>2, ConcatProperties
  <2>2. Len(<<h>>) + Len(v) = n + 1
    BY <1>1, <1>2
  <2> QED BY <1>1, <1>2, <2>1, <2>2
<1>5. \A i \in 1..Len(u) : u[i] = (<<h>> \o v)[i]
  BY <1>1, <1>2, <1>3, <1>4
<1>6. u = <<h>> \o v
  BY <1>1, <1>4, <1>5, SeqEqual
<1>7. FlattenSeq(<<h>> \o v) = h \o FlattenSeq(v)
  BY <1>1, <1>2, FlattenCons
<1> QED BY <1>1, <1>6, <1>7 DEF h

\* A gap at which no command is anchored is empty.
LEMMA GapEmpty ==
    ASSUME NEW s, NEW n \in Nat, NEW g, NEW texts, \A i \in 1..n : texts[i] \in Seq(Line),
           \A i \in 1..n : From(s[i]) - 1 # g
    PROVE  Gap(s, n, g, texts) = <<>>
<1> DEFINE u == Anchored(s, n, g, texts)
<1>1. u \in Seq(Seq(Line)) /\ Len(u) = n /\ Gap(s, n, g, texts) = FlattenSeq(u)
  BY AnchoredType
<1>2. \A i \in 1..n : u[i] = <<>>
  <2> TAKE i \in 1..n
  <2>1. n + 1 - i \in 1..n
    OBVIOUS
  <2> QED BY <2>1 DEF Anchored
<1> HIDE DEF u
<1>3. FlattenSeq(u) = <<>>
  BY <1>1, <1>2, FlattenEmpties
<1> QED BY <1>1, <1>3

\* The lines of a file, each under its gap.
LEMMA ItemsType ==
    ASSUME NEW s, NEW n \in Nat, NEW ls \in Seq(Line), NEW texts,
           \A i \in 1..n : texts[i] \in Seq(Line)
    PROVE  /\ Items(s, n, ls, texts) \in Seq(Seq(Line))
           /\ Len(Items(s, n, ls, texts)) = Len(ls) + 1
           /\ \A x \in 1..(Len(ls) + 1) : /\ Items(s, n, ls, texts)[x] = Item(s, n, ls, texts, x)
                                          /\ LineOrNot(s, n, ls, x) \in Seq(Line)
           /\ Patched(s, n, ls, texts) = FlattenSeq(Items(s, n, ls, texts))
           /\ Patched(s, n, ls, texts) \in Seq(Line)
<1>1. Len(ls) \in Nat
  BY LenProperties
<1>2. \A x \in 1..(Len(ls) + 1) : LineOrNot(s, n, ls, x) \in Seq(Line)
  <2> TAKE x \in 1..(Len(ls) + 1)
  <2>1. x <= Len(ls) => ls[x] \in Line
    BY <1>1, ElementOfSeq
  <2>2. x <= Len(ls) => <<ls[x]>> \in Seq(Line)
    BY <2>1
  <2> QED BY <2>2, EmptySeq DEF LineOrNot
<1>3. \A x \in 1..(Len(ls) + 1) : Item(s, n, ls, texts, x) \in Seq(Line)
  BY <1>2, AnchoredType, ConcatProperties DEF Item
<1>4. Items(s, n, ls, texts) \in [1..(Len(ls) + 1) -> Seq(Line)]
      /\ \A x \in 1..(Len(ls) + 1) : Items(s, n, ls, texts)[x] = Item(s, n, ls, texts, x)
  BY <1>3 DEF Items
<1>5. Items(s, n, ls, texts) \in Seq(Seq(Line)) /\ Len(Items(s, n, ls, texts)) = Len(ls) + 1
  BY <1>1, <1>4, FunctionIsSeq
<1>6. Patched(s, n, ls, texts) = FlattenSeq(Items(s, n, ls, texts))
  BY DEF Patched, Items, Item
<1> QED BY <1>2, <1>4, <1>5, <1>6, FlattenType

\* Without commands the file stays what it is.
LEMMA PatchedByNone ==
    ASSUME NEW s, NEW ls \in Seq(Line), NEW texts
    PROVE  Patched(s, 0, ls, texts) = ls
<1> DEFINE N == Len(ls) + 1
           I == Items(s, 0, ls, texts)
<1>1. Len(ls) \in Nat
  BY LenProperties
<1>2. /\ I \in Seq(Seq(Line)) /\ Len(I) = N /\ Patched(s, 0, ls, texts) = FlattenSeq(I)
      /\ \A x \in 1..N : I[x] = Item(s, 0, ls, texts, x) /\ LineOrNot(s, 0, ls, x) \in Seq(Line)
  BY ItemsType
<1>3. \A x \in 1..N : I[x] = LineOrNot(s, 0, ls, x)
  <2> TAKE x \in 1..N
  <2>1. Gap(s, 0, x - 1, texts) = <<>>
    <3>1. 0 \in Nat /\ (\A i \in 1..0 : texts[i] \in Seq(Line))
          /\ \A i \in 1..0 : From(s[i]) - 1 # x - 1
      OBVIOUS
    <3> HIDE DEF N
    <3> QED BY <3>1, GapEmpty, Zenon
  <2>2. <<>> \o LineOrNot(s, 0, ls, x) = LineOrNot(s, 0, ls, x)
    BY <1>2, ConcatEmptySeq
  <2> HIDE DEF I
  <2> QED BY <1>2, <2>1, <2>2 DEF Item
<1> HIDE DEF I
<1>4. (\A x \in 1..Len(ls) : I[x] = <<ls[x]>>) /\ I[N] = <<>>
  <2>1. \A x \in 1..Len(ls) : x \in 1..N /\ x <= Len(ls)
    BY <1>1
  <2>2. N \in 1..N /\ ~(N <= Len(ls))
    BY <1>1
  <2>3. \A x : Kept(s, 0, x)
    BY DEF Kept
  <2> HIDE DEF N
  <2> QED BY <1>3, <2>1, <2>2, <2>3, Zenon DEF LineOrNot
<1>5. FlattenSeq(I) = SubSeq(ls, 1, Len(ls)) \o FlattenSeq(SubSeq(I, Len(ls) + 1, Len(I)))
  <2>1. Leads(I, ls, Len(ls))
    BY <1>1, <1>2, <1>4 DEF Leads
  <2> QED BY <1>1, <1>2, <2>1, FlattenLead
<1>6. FlattenSeq(SubSeq(I, N, Len(I))) = I[N] \o FlattenSeq(SubSeq(I, N + 1, Len(I)))
  <2>1. N \in 1..Len(I)
    BY <1>1, <1>2
  <2> QED BY <1>2, <2>1, FlattenNext
<1>7. SubSeq(I, N + 1, Len(I)) = <<>>
  BY <1>1, <1>2, SubSeqEmpty
<1>8. SubSeq(ls, 1, Len(ls)) = ls /\ <<>> \in Seq(Line) /\ <<>> \o <<>> = <<>> /\ ls \o <<>> = ls
  BY SubSeqFull, EmptySeq, ConcatEmptySeq
<1> QED BY <1>2, <1>4, <1>5, <1>6, <1>7, <1>8, FlattenNone

\* Where a command that fits takes lines from, and up to where.
LEMMA OneRange ==
    ASSUME NEW c \in Command, NEW N \in Nat, InRange(c, N)
    PROVE  /\ From(c) \in 1..(N + 1) /\ To(c) \in (From(c) - 1)..N
           /\ To(c) <= AddressedTop(c) /\ From(c) - 1 <= AddressedTop(c)
           /\ To(c) \in Nat /\ From(c) <= To(c) + 1 /\ From(c) \in Nat
BY DEF InRange, From, To, Command, AddressedTop

\* FlattenReplace, for lines.
ReplacesLines(ls, text, s, t, f, e) ==
    /\ ls \in Seq(Line) /\ text \in Seq(Line) /\ s \in Seq(Seq(Line)) /\ t \in Seq(Seq(Line))
    /\ f \in 1..(Len(ls) + 1) /\ e \in (f - 1)..Len(ls)
    /\ Replaces(ls, text, s, t, f, e)

LEMMA LinesReplaced ==
    \A ls, text, s, t, f, e :
       ReplacesLines(ls, text, s, t, f, e) => Replaced(text, s, t, f, e)
<1>1. FlattensReplaced(Line)
  BY FlattenReplace
<1> QED BY <1>1 DEF FlattensReplaced, ReplacesLines

\* A command that fits the file and lies under all before it: its text replaces its
\* range in what they gave.
LEMMA PatchedByOneMore ==
    ASSUME NEW s, NEW n \in Nat, NEW ls \in Seq(Line), NEW texts,
           \A i \in 1..(n + 1) : s[i] \in Command,
           \A i \in 1..(n + 1) : texts[i] \in Seq(Line),
           InRange(s[n + 1], Len(ls)),
           \A i \in 1..n : AddressedTop(s[n + 1]) < AffectedLow(s[i])
    PROVE  Patched(s, n + 1, ls, texts) = Splice(Patched(s, n, ls, texts), s[n + 1], texts[n + 1])
<1> DEFINE c == s[n + 1]
           f == From(c)
           e == To(c)
           text == texts[n + 1]
           I == Items(s, n, ls, texts)
           J == Items(s, n + 1, ls, texts)
           N == Len(ls) + 1
<1>1. Len(ls) \in Nat /\ n + 1 \in Nat /\ text \in Seq(Line) /\ c \in Command
  BY LenProperties
<1>2. f \in 1..N /\ e \in (f - 1)..Len(ls) /\ e <= AddressedTop(c) /\ f - 1 <= AddressedTop(c)
      /\ e \in Nat /\ f <= e + 1 /\ f \in Nat
  BY <1>1, OneRange
<1>3. \A i \in 1..n : From(s[i]) \in Nat /\ e < From(s[i]) /\ f <= From(s[i])
  <2> TAKE i \in 1..n
  <2>1. s[i] \in Command /\ AddressedTop(c) < From(s[i])
    BY DEF AffectedLow
  <2>2. From(s[i]) \in Nat /\ AddressedTop(c) \in Nat
    BY <1>1, <2>1 DEF From, Command, AddressedTop
  <2> HIDE DEF c
  <2> QED BY <1>2, <2>1, <2>2
<1>12. (\A i \in 1..n : texts[i] \in Seq(Line)) /\ \A i \in 1..(n + 1) : texts[i] \in Seq(Line)
  OBVIOUS
<1>4. /\ I \in Seq(Seq(Line)) /\ Len(I) = N /\ Patched(s, n, ls, texts) = FlattenSeq(I)
      /\ \A x \in 1..N : I[x] = Item(s, n, ls, texts, x) /\ LineOrNot(s, n, ls, x) \in Seq(Line)
  BY <1>12, ItemsType, Zenon
<1>5. /\ J \in Seq(Seq(Line)) /\ Len(J) = N /\ Patched(s, n + 1, ls, texts) = FlattenSeq(J)
      /\ \A x \in 1..N : J[x] = Item(s, n + 1, ls, texts, x)
                         /\ LineOrNot(s, n + 1, ls, x) \in Seq(Line)
  <2>1. \A m \in Nat : (\A i \in 1..m : texts[i] \in Seq(Line)) =>
           LET K == Items(s, m, ls, texts)
           IN  /\ K \in Seq(Seq(Line)) /\ Len(K) = N /\ Patched(s, m, ls, texts) = FlattenSeq(K)
               /\ \A x \in 1..N : K[x] = Item(s, m, ls, texts, x)
                                  /\ LineOrNot(s, m, ls, x) \in Seq(Line)
    BY ItemsType, Zenon
  <2> QED BY <1>1, <1>12, <2>1, Zenon
<1> HIDE DEF I, J, f, e, text
<1>13. \A g : Gap(s, n + 1, g, texts) =
          (IF From(s[n + 1]) - 1 = g THEN texts[n + 1] ELSE <<>>) \o Gap(s, n, g, texts)
  BY <1>12, GapStep, Zenon
<1>6. \A x \in 1..N : /\ Gap(s, n, x - 1, texts) \in Seq(Line)
                      /\ Gap(s, n + 1, x - 1, texts) =
                            (IF f = x THEN text ELSE <<>>) \o Gap(s, n, x - 1, texts)
                      /\ x <= e => Gap(s, n, x - 1, texts) = <<>>
  <2> TAKE x \in 1..N
  <2>1. Gap(s, n, x - 1, texts) \in Seq(Line)
    BY AnchoredType
  <2>2. Gap(s, n + 1, x - 1, texts) =
           (IF f - 1 = x - 1 THEN text ELSE <<>>) \o Gap(s, n, x - 1, texts)
    BY <1>13, Zenon DEF f, text
  <2>3. f - 1 = x - 1 <=> f = x
    BY <1>2
  <2>4. ASSUME x <= e PROVE Gap(s, n, x - 1, texts) = <<>>
    <3>1. \A i \in 1..n : From(s[i]) - 1 # x - 1
      BY <1>2, <1>3, <2>4
    <3> QED BY <3>1, GapEmpty
  <2> QED BY <2>1, <2>2, <2>3, <2>4
<1>7. \A x \in 1..N : /\ x <= e => LineOrNot(s, n, ls, x) = <<ls[x]>>
                      /\ LineOrNot(s, n + 1, ls, x) =
                            IF f <= x /\ x <= e THEN <<>> ELSE LineOrNot(s, n, ls, x)
  <2> TAKE x \in 1..N
  <2>1. x <= e => Kept(s, n, x) /\ x <= Len(ls)
    BY <1>2, <1>3 DEF Kept
  <2>2. Kept(s, n + 1, x) <=> Kept(s, n, x) /\ ~(f <= x /\ x <= e)
    BY DEF Kept, f, e
  <2> QED BY <2>1, <2>2 DEF LineOrNot
<1>8. \A x \in 1..N : <<>> \o LineOrNot(s, n, ls, x) = LineOrNot(s, n, ls, x)
                      /\ <<>> \o Gap(s, n, x - 1, texts) = Gap(s, n, x - 1, texts)
  BY <1>4, <1>6, ConcatEmptySeq
<1>9. Replaces(ls, text, I, J, f, e)
  <2>1. \A x \in 1..e : I[x] = <<ls[x]>>
    <3> TAKE x \in 1..e
    <3>1. x \in 1..N /\ x <= e
      BY <1>1, <1>2
    <3> QED BY <1>4, <1>6, <1>7, <1>8, <3>1 DEF Item
  <2>2. ASSUME NEW x \in 1..N, x < f \/ (x > e /\ x # f) PROVE J[x] = I[x]
    <3>1. x # f /\ ~(f <= x /\ x <= e)
      BY <1>2, <2>2
    <3>2. Gap(s, n + 1, x - 1, texts) = Gap(s, n, x - 1, texts)
          /\ LineOrNot(s, n + 1, ls, x) = LineOrNot(s, n, ls, x)
      BY <1>6, <1>7, <1>8, <3>1
    <3> QED BY <1>4, <1>5, <3>2 DEF Item
  <2>3. ASSUME NEW x \in (f + 1)..e PROVE J[x] = <<>>
    <3>1. x \in 1..N /\ x # f /\ f <= x /\ x <= e
      BY <1>1, <1>2
    <3>2. Gap(s, n + 1, x - 1, texts) = <<>> \o <<>> /\ LineOrNot(s, n + 1, ls, x) = <<>>
      BY <1>6, <1>7, <3>1
    <3>3. <<>> \in Seq(Line) /\ <<>> \o <<>> = <<>>
      BY EmptySeq, ConcatEmptySeq
    <3> QED BY <1>5, <3>1, <3>2, <3>3 DEF Item
  <2>4. J[f] = IF f <= e THEN text ELSE text \o I[f]
    <3>1. J[f] = (text \o Gap(s, n, f - 1, texts)) \o LineOrNot(s, n + 1, ls, f)
      BY <1>2, <1>5, <1>6 DEF Item
    <3>2. CASE f <= e
      <4>1. Gap(s, n, f - 1, texts) = <<>> /\ LineOrNot(s, n + 1, ls, f) = <<>>
        <5>1. f \in 1..N /\ f <= f
          BY <1>2
        <5> QED BY <1>6, <1>7, <3>2, <5>1, Zenon
      <4>2. text \o <<>> = text
        BY <1>1, ConcatEmptySeq DEF text
      <4> QED BY <3>1, <3>2, <4>1, <4>2
    <3>3. CASE ~(f <= e)
      <4>1. LineOrNot(s, n + 1, ls, f) = LineOrNot(s, n, ls, f)
        BY <1>2, <1>7, <3>3
      <4>2. I[f] = Gap(s, n, f - 1, texts) \o LineOrNot(s, n, ls, f)
        BY <1>2, <1>4 DEF Item
      <4>3. Gap(s, n, f - 1, texts) \in Seq(Line) /\ LineOrNot(s, n, ls, f) \in Seq(Line)
            /\ text \in Seq(Line)
        BY <1>1, <1>2, <1>4, <1>6 DEF text
      <4>4. (text \o Gap(s, n, f - 1, texts)) \o LineOrNot(s, n, ls, f)
              = text \o (Gap(s, n, f - 1, texts) \o LineOrNot(s, n, ls, f))
        BY <4>3, LinesAssociate, Zenon
      <4> QED BY <3>1, <3>3, <4>1, <4>2, <4>4
    <3> QED BY <3>2, <3>3
  <2> QED BY <1>4, <1>5, <2>1, <2>2, <2>3, <2>4 DEF Replaces
<1>10. FlattenSeq(J) = SubSeq(FlattenSeq(I), 1, f - 1) \o text
                          \o SubSeq(FlattenSeq(I), e + 1, Len(FlattenSeq(I)))
  <2>1. text \in Seq(Line)
    BY <1>1 DEF text
  <2>2. f \in 1..(Len(ls) + 1) /\ e \in (f - 1)..Len(ls)
    BY <1>2
  <2>3. ReplacesLines(ls, text, I, J, f, e)
    BY <1>4, <1>5, <1>9, <2>1, <2>2 DEF ReplacesLines
  <2>4. Replaced(text, I, J, f, e)
    BY <2>3, LinesReplaced, Zenon
  <2> QED BY <2>4 DEF Replaced
<1> QED BY <1>4, <1>5, <1>10 DEF Splice, f, e, text

\* Only the texts of the first n commands matter.
LEMMA PatchedAgrees ==
    ASSUME NEW s, NEW n \in Nat, NEW ls, NEW t1, NEW t2, \A i \in 1..n : t1[i] = t2[i]
    PROVE  Patched(s, n, ls, t1) = Patched(s, n, ls, t2)
<1>1. \A i \in 1..n : t1[n + 1 - i] = t2[n + 1 - i]
  <2> TAKE i \in 1..n
  <2>1. n + 1 - i \in 1..n
    OBVIOUS
  <2> QED BY <2>1
<1>2. \A g : Gap(s, n, g, t1) = Gap(s, n, g, t2)
  BY <1>1 DEF Gap
<1> QED BY <1>2 DEF Patched

-----------------------------------------------------------------------------
(* The texts of the commands.                                              *)

\* A piece gives lines when its reference stands for lines.
LEMMA PieceTextType ==
    ASSUME NEW q \in Piece, NEW of, q.ref => of[q.to] \in Seq(Line)
    PROVE  PieceText(q, of) \in Seq(Line)
<1>1. q.ref => q.to \in Ref
  BY DEF Piece
<1>2. ~q.ref => q.line \in Line
  BY DEF Piece
<1>3. CASE q.ref
  BY <1>1, <1>3, TransformLines DEF PieceText
<1>4. CASE ~q.ref
  <2>1. PieceText(q, of) = <<q.line>>
    BY <1>4 DEF PieceText
  <2> QED BY <1>2, <1>4, <2>1
<1> QED BY <1>3, <1>4

\* The pieces of an input block, each with its lines.
PieceTexts(input, of) == [j \in DOMAIN input |-> PieceText(input[j], of)]

\* What an input block's references stand for is lines.
HasLines(input, of) == \A j \in DOMAIN input : input[j].ref => of[input[j].to] \in Seq(Line)

LEMMA TextOfType ==
    ASSUME NEW input \in Seq(Piece), NEW of, HasLines(input, of)
    PROVE  /\ PieceTexts(input, of) \in Seq(Seq(Line))
           /\ Len(PieceTexts(input, of)) = Len(input)
           /\ TextOf(input, of) = FlattenSeq(PieceTexts(input, of))
           /\ TextOf(input, of) \in Seq(Line)
<1>1. Len(input) \in Nat /\ DOMAIN input = 1..Len(input)
      /\ \A j \in 1..Len(input) : input[j] \in Piece
  BY LenProperties, ElementOfSeq
<1>2. ASSUME NEW j \in 1..Len(input) PROVE PieceText(input[j], of) \in Seq(Line)
  <2>1. input[j] \in Piece /\ (input[j].ref => of[input[j].to] \in Seq(Line))
    BY <1>1 DEF HasLines
  <2> QED BY <2>1, PieceTextType, Zenon
<1>3. PieceTexts(input, of) \in [1..Len(input) -> Seq(Line)]
  BY <1>1, <1>2 DEF PieceTexts
<1>4. PieceTexts(input, of) \in Seq(Seq(Line)) /\ Len(PieceTexts(input, of)) = Len(input)
  BY <1>1, <1>3, FunctionIsSeq
<1>5. TextOf(input, of) = FlattenSeq(PieceTexts(input, of))
  BY DEF TextOf, PieceTexts
<1> QED BY <1>4, <1>5, FlattenType

\* It depends on what the references in the block stand for.
LEMMA TextOfAgrees ==
    ASSUME NEW input, NEW a, NEW b,
           \A j \in DOMAIN input : input[j].ref => a[input[j].to] = b[input[j].to]
    PROVE  TextOf(input, a) = TextOf(input, b)
<1>1. \A j \in DOMAIN input : PieceText(input[j], a) = PieceText(input[j], b)
  BY DEF PieceText
<1>2. [j \in DOMAIN input |-> PieceText(input[j], a)]
        = [j \in DOMAIN input |-> PieceText(input[j], b)]
  BY <1>1, Zenon
<1> QED BY <1>2, Zenon DEF TextOf

\* No pieces, no text; one piece more adds its lines.
LEMMA TextOfNone == ASSUME NEW of PROVE TextOf(<<>>, of) = <<>>
<1>1. [j \in DOMAIN <<>> |-> PieceText(<<>>[j], of)] = <<>>
  OBVIOUS
<1> QED BY <1>1, FlattenNone DEF TextOf

LEMMA TextOfMore ==
    ASSUME NEW input \in Seq(Piece), NEW of, NEW n \in 0..(Len(input) - 1),
           HasLines(input, of)
    PROVE  /\ TextOf(SubSeq(input, 1, n + 1), of)
                = TextOf(SubSeq(input, 1, n), of) \o PieceText(input[n + 1], of)
           /\ TextOf(SubSeq(input, 1, n), of) \in Seq(Line)
<1> DEFINE a == SubSeq(input, 1, n)
           b == SubSeq(input, 1, n + 1)
<1>1. Len(input) \in Nat /\ n \in Nat /\ n + 1 \in Nat /\ n <= Len(input) /\ n + 1 <= Len(input)
  BY LenProperties
<1>2. /\ a \in Seq(Piece) /\ Len(a) = n /\ \A i \in 1..n : a[i] = input[i]
      /\ b \in Seq(Piece) /\ Len(b) = n + 1 /\ \A i \in 1..(n + 1) : b[i] = input[i]
  <2>1. ASSUME NEW m \in Nat, m <= Len(input)
        PROVE  LET c == SubSeq(input, 1, m)
               IN  c \in Seq(Piece) /\ Len(c) = m /\ \A i \in 1..m : c[i] = input[i]
    <3> DEFINE c == SubSeq(input, 1, m)
    <3>1. /\ c \in Seq(Piece) /\ Len(c) = IF 1 <= m THEN m - 1 + 1 ELSE 0
          /\ \A i \in 1..(m - 1 + 1) : c[i] = input[1 + i - 1]
      BY <2>1, PartOfSeq
    <3> HIDE DEF c
    <3>2. c \in Seq(Piece) /\ Len(c) = m /\ \A i \in 1..m : c[i] = input[i]
      BY <3>1
    <3> QED BY <3>2 DEF c
  <2> QED BY <1>1, <2>1
<1> HIDE DEF a, b
<1>3. DOMAIN a = 1..n /\ DOMAIN b = 1..(n + 1) /\ DOMAIN input = 1..Len(input)
  BY <1>2, LenProperties
<1>4. HasLines(a, of) /\ HasLines(b, of)
  BY <1>1, <1>2, <1>3 DEF HasLines
<1> DEFINE u == PieceTexts(a, of)
           v == PieceTexts(b, of)
           x == PieceText(input[n + 1], of)
<1>5. /\ u \in Seq(Seq(Line)) /\ Len(u) = n /\ TextOf(a, of) = FlattenSeq(u)
      /\ v \in Seq(Seq(Line)) /\ Len(v) = n + 1 /\ TextOf(b, of) = FlattenSeq(v)
      /\ TextOf(a, of) \in Seq(Line)
  BY <1>2, <1>3, <1>4, TextOfType
<1>6. \A i \in 1..(n + 1) : v[i] = IF i = n + 1 THEN x ELSE u[i]
  BY <1>1, <1>2, <1>3 DEF PieceTexts
<1>7. x = v[n + 1]
  BY <1>1, <1>6
<1> HIDE DEF u, v, x
<1>8. x \in Seq(Line)
  BY <1>1, <1>5, <1>7, ElementOfSeq
<1>9. /\ Append(u, x) \in Seq(Seq(Line)) /\ Len(Append(u, x)) = n + 1
      /\ \A i \in 1..(n + 1) : Append(u, x)[i] = IF i = n + 1 THEN x ELSE u[i]
  BY <1>1, <1>5, <1>8, AppendProperties
<1>10. v = Append(u, x)
  BY <1>5, <1>6, <1>9, SeqEqual
<1>11. FlattenSeq(Append(u, x)) = FlattenSeq(u) \o x
  BY <1>5, <1>8, FlattenAppend
<1> QED BY <1>5, <1>10, <1>11 DEF a, b, x

-----------------------------------------------------------------------------
(* What the cache quotes.                                                  *)

\* The references of a script are references, and those of its pieces.
LEMMA RefsOf ==
    ASSUME IsScript(script)
    PROVE  /\ Len(script) \in Nat /\ DOMAIN script = 1..Len(script)
           /\ refs \subseteq Ref
           /\ \A i \in 1..Len(script) :
                 /\ script[i] \in Command /\ script[i].input \in Seq(Piece)
                 /\ \A j \in DOMAIN script[i].input :
                       script[i].input[j].ref => script[i].input[j].to \in refs
<1>1. /\ Len(script) \in Nat /\ DOMAIN script = 1..Len(script)
      /\ \A i \in 1..Len(script) : script[i] \in Command
  BY LenProperties, ElementOfSeq DEF IsScript
<1>2. \A i \in 1..Len(script) : script[i].input \in Seq(Piece)
  BY <1>1 DEF Command
<1>3. ASSUME NEW i \in 1..Len(script), NEW j \in DOMAIN script[i].input
      PROVE  script[i].input[j] \in pieces /\ script[i].input[j] \in Piece
  <2>1. script[i].input[j] \in ToSet(script[i].input)
    BY DEF ToSet
  <2>2. script[i].input[j] \in Piece
    BY <1>2, LenProperties, ElementOfSeq
  <2> QED BY <1>1, <2>1, <2>2 DEF pieces
<1>4. \A q \in pieces : q \in Piece
  BY <1>1, <1>3 DEF pieces, ToSet
<1>5. \A q \in Piece : q.ref => q.to \in Ref
  BY DEF Piece
<1>6. refs \subseteq Ref
  BY <1>4, <1>5 DEF refs
<1>7. \A i \in 1..Len(script) : \A j \in DOMAIN script[i].input :
         script[i].input[j].ref => script[i].input[j].to \in refs
  BY <1>3 DEF refs
<1> QED BY <1>1, <1>2, <1>6, <1>7

\* A reference that resolves stands for lines.
LEMMA RunType ==
    ASSUME NEW r \in Ref, NEW entry, entry.lines \in Seq(Line), Resolves(entry, r)
    PROVE  Run(entry.lines, r) \in Seq(Line)
<1>1. r.begin \in Nat /\ r.end \in Nat
  BY DEF Ref
<1>2. 1 <= r.begin /\ r.end <= Len(entry.lines)
  BY DEF Resolves
<1> QED BY <1>1, <1>2, PartOfSeq DEF Run

\* What the cache c has for each reference.
QuotedBy(c) == [r \in refs |-> IF Resolves(c[r.path], r) THEN Run(c[r.path].lines, r) ELSE <<>>]

LEMMA QuotedByType ==
    ASSUME IsScript(script), NEW c, \A f \in Path : c[f].lines \in Seq(Line)
    PROVE  /\ \A r \in refs : QuotedBy(c)[r] \in Seq(Line) /\ r.path \in Path
           /\ \A i \in 1..Len(script) : HasLines(script[i].input, QuotedBy(c))
<1>2. ASSUME NEW r \in refs PROVE QuotedBy(c)[r] \in Seq(Line) /\ r.path \in Path
  <2>1. r \in Ref /\ r.path \in Path
    BY RefsOf DEF Ref
  <2>2. c[r.path].lines \in Seq(Line)
    BY <2>1
  <2>3. Resolves(c[r.path], r) => Run(c[r.path].lines, r) \in Seq(Line)
    BY <2>1, <2>2, RunType
  <2>4. QuotedBy(c)[r] = IF Resolves(c[r.path], r) THEN Run(c[r.path].lines, r) ELSE <<>>
    BY DEF QuotedBy
  <2>5. <<>> \in Seq(Line)
    BY EmptySeq
  <2> QED BY <2>1, <2>3, <2>4, <2>5
<1>3. ASSUME NEW i \in 1..Len(script) PROVE HasLines(script[i].input, QuotedBy(c))
  BY <1>2, RefsOf DEF HasLines
<1> QED BY <1>2, <1>3

LEMMA QuotedType ==
    ASSUME TypeOK
    PROVE  /\ \A r \in refs : quoted[r] \in Seq(Line) /\ r.path \in Path
           /\ \A i \in 1..Len(script) : HasLines(script[i].input, quoted)
<1>1. IsScript(script) /\ \A f \in Path : cache[f].lines \in Seq(Line)
  BY DEF TypeOK
<1>2. quoted = QuotedBy(cache)
  BY DEF quoted, QuotedBy
<1> QED BY <1>1, <1>2, QuotedByType

\* Nothing quoted changes with neither the script nor the cache.
LEMMA QuotesUnchanged ==
    ASSUME UNCHANGED <<script, cache>> PROVE refs' = refs /\ quoted' = quoted
<1>1. refs' = refs
  BY DEF refs, pieces
<1> QED BY <1>1 DEF quoted

\* A block is quoted when the references in it resolve in the cache.
QuotedIn(input, c) == \A j \in DOMAIN input :
    input[j].ref => Resolves(c[input[j].to.path], input[j].to)

\* Whatever resolves in the cache goes on to, to the same lines.
Requotes ==
    /\ refs' = refs
    /\ \A r \in refs : Resolves(cache[r.path], r) =>
          Resolves(cache'[r.path], r) /\ quoted'[r] = quoted[r]

\* A cache entry is made once and kept.
LEMMA FetchKeeps ==
    ASSUME TypeOK, CacheIsRead, NEW f \in Path, script' = script,
           cache' = [cache EXCEPT ![f] = Fetched(f)]
    PROVE  /\ CacheIsRead' /\ Requotes
           /\ cache'[f] = Fetched(f)
<1>1. cache'[f] = Fetched(f) /\ \A g \in Path \ {f} : cache'[g] = cache[g]
  BY DEF TypeOK
<1>2. refs' = refs
  BY DEF refs, pieces
<1>3. CASE cache[f].read
  <2>1. \A g \in Path : cache'[g] = cache[g]
    BY <1>1, <1>3 DEF Fetched
  <2>2. CacheIsRead'
    BY <2>1 DEF CacheIsRead
  <2>3. \A r \in refs : r.path \in Path
    BY QuotedType
  <2>4. \A r \in refs : cache'[r.path] = cache[r.path]
    BY <2>1, <2>3
  <2>5. Requotes
    BY <1>2, <2>4 DEF Requotes, quoted
  <2> QED BY <1>1, <2>2, <2>5
<1>4. CASE ~cache[f].read
  <2>1. cache[f] = Unread
    <3>1. \A v : ReadNow(v).read = TRUE
      BY DEF ReadNow
    <3>2. \A v : cache[f] # ReadNow(v)
      BY <1>4, <3>1
    <3> QED BY <3>2 DEF CacheIsRead
  <2>2. cache'[f] = ReadNow(corpus[f]) /\ corpus[f] \in Versions
    BY <1>1, <1>4 DEF Fetched, TypeOK
  <2>3. CacheIsRead'
    BY <1>1, <2>2 DEF CacheIsRead
  <2>4. \A r \in refs : Resolves(cache[r.path], r) => r.path \in Path \ {f}
    BY <2>1, QuotedType DEF Resolves, Unread
  <2>5. \A r \in refs : Resolves(cache[r.path], r) => cache'[r.path] = cache[r.path]
    BY <1>1, <2>4
  <2>6. Requotes
    BY <1>2, <2>5 DEF Requotes, quoted
  <2> QED BY <1>1, <2>3, <2>6
<1> QED BY <1>3, <1>4

\* Then a quoted block stays quoted, with the same text.
LEMMA QuotedStays ==
    ASSUME Requotes, NEW input, QuotedIn(input, cache),
           \A j \in DOMAIN input : input[j].ref => input[j].to \in refs
    PROVE  QuotedIn(input, cache') /\ TextOf(input, quoted') = TextOf(input, quoted)
<1>1. \A j \in DOMAIN input : input[j].ref => quoted'[input[j].to] = quoted[input[j].to]
  BY DEF Requotes, QuotedIn
<1>2. QuotedIn(input, cache')
  BY DEF Requotes, QuotedIn
<1> QED BY <1>1, <1>2, TextOfAgrees

-----------------------------------------------------------------------------
(* The buffer is the file with the quoted texts.                           *)

\* The commands before n are quoted, and the buffer is what they make of the file.
Applied(ls, n, q, c) ==
    /\ \A i \in 1..n : QuotedIn(script[i].input, c)
    /\ ls = Patched(script, n, content.lines, Texts(script, q))

\* The text of the command at hand, up to the piece at hand.
Built(text, n, q, c) ==
    LET sofar == SubSeq(Cmd.input, 1, n)
    IN  QuotedIn(sofar, c) /\ text = TextOf(sofar, q)

LEMMA QuotedSoFarIs ==
    QuotedSoFar <=>
        /\ phase \in {"apply", "input", "done"} => Applied(lines, k - 1, quoted, cache)
        /\ phase = "input" => Built(ins, p - 1, quoted, cache)
        /\ phase = "done" => out = <<JoinLines(lines, endsNl)>>
BY DEF QuotedSoFar, Applied, Built, Quoted, QuotedIn

LEMMA QuotedSoFarIsNext ==
    ASSUME UNCHANGED <<script, content>>
    PROVE  QuotedSoFar' <=>
        /\ phase' \in {"apply", "input", "done"} => Applied(lines', k' - 1, quoted', cache')
        /\ phase' = "input" =>
              LET sofar == SubSeq(script[k'].input, 1, p' - 1)
              IN  QuotedIn(sofar, cache') /\ ins' = TextOf(sofar, quoted')
        /\ phase' = "done" => out' = <<JoinLines(lines', endsNl)>>
BY DEF QuotedSoFar, Applied, Quoted, QuotedIn, Cmd, Texts, endsNl

\* The texts are lines.
LEMMA TextsType ==
    ASSUME TypeOK
    PROVE  \A i \in 1..Len(script) : /\ Texts(script, quoted)[i] = TextOf(script[i].input, quoted)
                                     /\ Texts(script, quoted)[i] \in Seq(Line)
<1>1. IsScript(script)
  BY DEF TypeOK
<1>2. \A i \in 1..Len(script) : Texts(script, quoted)[i] = TextOf(script[i].input, quoted)
  BY <1>1, RefsOf DEF Texts
<1> QED BY <1>1, <1>2, RefsOf, QuotedType, TextOfType

\* Applying a command with its whole text.
LEMMA PerformKeepsText ==
    ASSUME TextInv, phase \in {"apply", "input"}, k \in 1..Len(script),
           CheckRange(Cmd), QuotedIn(Cmd.input, cache),
           Perform(Cmd, TextOf(Cmd.input, quoted)),
           UNCHANGED <<content, script, cache, out>>
    PROVE  CacheIsRead' /\ QuotedSoFar'
<1>1. IInv /\ TypeOK /\ IsScript(script) /\ applying
  BY DEF TextInv, IInv, TypeOK, applying
<1> DEFINE texts == Texts(script, quoted)
           n == k - 1
<1>2. /\ Len(script) \in Nat /\ DOMAIN script = 1..Len(script)
      /\ \A i \in 1..Len(script) : script[i] \in Command
      /\ content.lines \in Seq(Line)
  BY <1>1, RefsOf DEF TypeOK, File
<1>3. \A i \in 1..Len(script) : texts[i] = TextOf(script[i].input, quoted) /\ texts[i] \in Seq(Line)
  BY <1>1, TextsType
<1>4. n \in Nat /\ n + 1 = k /\ 1..(n + 1) \subseteq 1..Len(script) /\ 1..n \subseteq 1..Len(script)
  BY <1>2
<1>5. InRange(Cmd, Len(content.lines)) /\ Cmd = script[n + 1]
  <2>1. InRange(Cmd, Len(content.lines))
    BY <1>1, RangeAgrees DEF IInv
  <2>2. script[k] = script[n + 1]
    BY <1>4
  <2> QED BY <2>1, <2>2 DEF Cmd
<1>6. \A i \in 1..n : AddressedTop(script[n + 1]) < AffectedLow(script[i])
  <2>1. Descending(script)
    BY <1>1 DEF IInv, AppliedSoFar
  <2>2. n + 1 \in DOMAIN script /\ n + 1 - 1 = n
    BY <1>2, <1>4
  <2> QED BY <2>1, <2>2 DEF Descending
<1>7. Applied(lines, n, quoted, cache)
  BY QuotedSoFarIs DEF TextInv
<1>8. Patched(script, n + 1, content.lines, texts)
         = Splice(Patched(script, n, content.lines, texts), script[n + 1], texts[n + 1])
  <2>1. /\ \A i \in 1..(n + 1) : script[i] \in Command
        /\ \A i \in 1..(n + 1) : texts[i] \in Seq(Line)
    BY <1>2, <1>3, <1>4
  <2>2. InRange(script[n + 1], Len(content.lines))
    BY <1>5
  <2> HIDE DEF texts, n
  <2> QED BY <1>2, <1>4, <1>6, <2>1, <2>2, PatchedByOneMore
<1>9. lines' = Patched(script, n + 1, content.lines, texts)
  <2>1. lines' = Splice(lines, script[n + 1], texts[n + 1])
    BY <1>3, <1>4, <1>5 DEF Perform
  <2>2. lines = Patched(script, n, content.lines, texts)
    BY <1>7 DEF Applied
  <2> QED BY <1>8, <2>1, <2>2
<1>10. \A i \in 1..(n + 1) : QuotedIn(script[i].input, cache)
  <2>1. \A i \in 1..n : QuotedIn(script[i].input, cache)
    BY <1>7 DEF Applied
  <2>2. \A i \in 1..(n + 1) : i \in 1..n \/ i = n + 1
    BY <1>4
  <2> QED BY <1>5, <2>1, <2>2
<1>11. quoted' = quoted /\ k' - 1 = n + 1 /\ phase' = "apply" /\ CacheIsRead'
  BY <1>4, QuotesUnchanged DEF Perform, TextInv, CacheIsRead
<1>12. Applied(lines', k' - 1, quoted', cache')
  BY <1>9, <1>10, <1>11 DEF Applied
<1> QED BY <1>11, <1>12, QuotedSoFarIsNext

\* Starting to apply the script: no command yet, and the file as it is.
LEMMA StartKeepsText == ASSUME TextInv, StartApply PROVE CacheIsRead' /\ QuotedSoFar'
<1>1. content.lines \in Seq(Line)
  BY DEF TextInv, IInv, TypeOK, File
<1>2. Patched(script, 0, content.lines, Texts(script, quoted)) = content.lines
  BY <1>1, PatchedByNone
<1>3. /\ phase' = "apply" /\ k' - 1 = 0 /\ lines' = content.lines
      /\ UNCHANGED <<content, script, cache>>
  BY DEF StartApply, call
<1>4. quoted' = quoted /\ CacheIsRead'
  BY <1>3, QuotesUnchanged DEF TextInv, CacheIsRead
<1>5. Applied(lines', k' - 1, quoted', cache')
  BY <1>2, <1>3, <1>4 DEF Applied
<1> QED BY <1>3, <1>4, <1>5, QuotedSoFarIsNext

\* Beginning a text: no pieces of it yet.
LEMMA BeginKeepsText == ASSUME TextInv, BeginInput PROVE CacheIsRead' /\ QuotedSoFar'
<1>1. /\ phase = "apply" /\ phase' = "input" /\ p' - 1 = 0 /\ ins' = <<>>
      /\ UNCHANGED <<content, script, cache, lines, k>>
  BY DEF BeginInput, call
<1>2. quoted' = quoted /\ CacheIsRead'
  BY <1>1, QuotesUnchanged DEF TextInv, CacheIsRead
<1>3. Applied(lines', k' - 1, quoted', cache')
  BY <1>1, <1>2, QuotedSoFarIs DEF TextInv
<1>4. SubSeq(script[k'].input, 1, p' - 1) = <<>>
  BY <1>1, SubSeqEmpty
<1>5. QuotedIn(<<>>, cache') /\ TextOf(<<>>, quoted') = <<>>
  BY TextOfNone DEF QuotedIn
<1> QED BY <1>1, <1>2, <1>3, <1>4, <1>5, QuotedSoFarIsNext

\* One piece of the command at hand more.
LEMMA PieceOfCmd ==
    ASSUME TypeOK, NextPiece
    PROVE  /\ k \in 1..Len(script) /\ Cmd.input \in Seq(Piece) /\ HasLines(Cmd.input, quoted)
           /\ p \in 1..Len(Cmd.input) /\ p - 1 \in 0..(Len(Cmd.input) - 1) /\ p - 1 + 1 = p
           /\ p \in DOMAIN Cmd.input /\ Cmd.input[p] \in Piece
           /\ Cmd.input[p].ref => Cmd.input[p].to \in refs
           /\ \A j \in DOMAIN Cmd.input : Cmd.input[j].ref => Cmd.input[j].to \in refs
           /\ DOMAIN SubSeq(Cmd.input, 1, p) = 1..p
           /\ DOMAIN SubSeq(Cmd.input, 1, p - 1) = 1..(p - 1)
           /\ \A j \in 1..p : SubSeq(Cmd.input, 1, p)[j] = Cmd.input[j] /\ j \in DOMAIN Cmd.input
           /\ \A j \in 1..(p - 1) : SubSeq(Cmd.input, 1, p - 1)[j] = Cmd.input[j] /\ j \in 1..p
<1>1. IsScript(script) /\ p \in Nat \ {0} /\ p <= Len(Cmd.input) /\ k \in Nat /\ k >= 1
      /\ k <= Len(script)
  <2>1. IsScript(script) /\ Len(script) \in Nat
    BY RefsOf DEF TypeOK
  <2> QED BY <2>1 DEF TypeOK, NextPiece
<1>2. k \in 1..Len(script) /\ Cmd.input \in Seq(Piece)
      /\ \A j \in DOMAIN Cmd.input : Cmd.input[j].ref => Cmd.input[j].to \in refs
  BY <1>1, RefsOf DEF Cmd
<1>3. HasLines(Cmd.input, quoted)
  BY <1>2, QuotedType DEF Cmd
<1> DEFINE input == Cmd.input
<1>4. input \in Seq(Piece) /\ p \in Nat \ {0} /\ p <= Len(input)
  BY <1>1, <1>2
<1> HIDE DEF input
<1>5. Len(input) \in Nat /\ DOMAIN input = 1..Len(input) /\ \A j \in 1..Len(input) : input[j] \in Piece
  BY <1>4, LenProperties, ElementOfSeq
<1>6. p \in 1..Len(input) /\ p - 1 \in 0..(Len(input) - 1) /\ p - 1 + 1 = p
      /\ p \in DOMAIN input /\ input[p] \in Piece
  BY <1>4, <1>5
<1>7. ASSUME NEW m \in Nat, m <= Len(input)
      PROVE  /\ DOMAIN SubSeq(input, 1, m) = 1..m
             /\ \A j \in 1..m : SubSeq(input, 1, m)[j] = input[j] /\ j \in DOMAIN input
  <2> DEFINE c == SubSeq(input, 1, m)
  <2>1. /\ c \in Seq(Piece) /\ Len(c) = IF 1 <= m THEN m - 1 + 1 ELSE 0
        /\ \A j \in 1..(m - 1 + 1) : c[j] = input[1 + j - 1]
    BY <1>4, <1>7, PartOfSeq
  <2> HIDE DEF c
  <2>2. DOMAIN c = 1..m /\ \A j \in 1..m : c[j] = input[j] /\ j \in DOMAIN input
    BY <1>5, <1>7, <2>1, LenProperties
  <2> QED BY <2>2 DEF c
<1>8. /\ DOMAIN SubSeq(input, 1, p) = 1..p
      /\ DOMAIN SubSeq(input, 1, p - 1) = 1..(p - 1)
      /\ \A j \in 1..p : SubSeq(input, 1, p)[j] = input[j] /\ j \in DOMAIN input
      /\ \A j \in 1..(p - 1) : SubSeq(input, 1, p - 1)[j] = input[j] /\ j \in 1..p
  <2>1. p \in Nat /\ p - 1 \in Nat /\ p - 1 <= Len(input) /\ \A j \in 1..(p - 1) : j \in 1..p
    BY <1>4
  <2> QED BY <1>4, <1>7, <2>1
<1> QED BY <1>2, <1>3, <1>6, <1>8 DEF input

\* A piece whose lines are added to the text.
LEMMA PieceKeepsText ==
    ASSUME TextInv, TypeOK', NextPiece, p' = p + 1, Requotes,
           UNCHANGED <<content, script, k, lines, phase>>,
           Cmd.input[p].ref => Resolves(cache'[Cmd.input[p].to.path], Cmd.input[p].to),
           ins' = ins \o PieceText(Cmd.input[p], quoted')
    PROVE  QuotedSoFar'
<1>1. TypeOK /\ phase = "input" /\ phase' = "input" /\ p' - 1 = p /\ IsScript(script)
  <2>1. p \in Nat
    BY DEF TextInv, IInv, TypeOK
  <2> QED BY <2>1 DEF TextInv, IInv, TypeOK, NextPiece
<1>2. Applied(lines, k - 1, quoted, cache) /\ Built(ins, p - 1, quoted, cache)
  BY <1>1, QuotedSoFarIs DEF TextInv
<1>3. \A i \in 1..(k - 1) : i \in 1..Len(script)
  BY <1>1, RefsOf DEF TypeOK
<1>4. ASSUME NEW i \in 1..(k - 1)
      PROVE  /\ QuotedIn(script[i].input, cache')
             /\ Texts(script, quoted)[i] = Texts(script, quoted')[i]
  <2>1. QuotedIn(script[i].input, cache) /\ i \in DOMAIN script
    BY <1>1, <1>2, <1>3, RefsOf DEF Applied
  <2>2. \A j \in DOMAIN script[i].input : script[i].input[j].ref => script[i].input[j].to \in refs
    BY <1>1, <1>3, RefsOf
  <2>3. QuotedIn(script[i].input, cache')
        /\ TextOf(script[i].input, quoted') = TextOf(script[i].input, quoted)
    BY <2>1, <2>2, QuotedStays
  <2> QED BY <2>1, <2>3 DEF Texts
<1>5. Applied(lines', k' - 1, quoted', cache')
  <2>1. k - 1 \in Nat
    BY <1>1, RefsOf DEF TypeOK
  <2>2. Patched(script, k - 1, content.lines, Texts(script, quoted))
           = Patched(script, k - 1, content.lines, Texts(script, quoted'))
    BY <1>4, <2>1, PatchedAgrees
  <2> QED BY <1>2, <1>4, <2>2 DEF Applied
<1> DEFINE input == Cmd.input
           a == SubSeq(input, 1, p - 1)
           b == SubSeq(input, 1, p)
<1>6. /\ k \in 1..Len(script) /\ input \in Seq(Piece)
      /\ p - 1 \in 0..(Len(input) - 1) /\ p - 1 + 1 = p
      /\ \A j \in DOMAIN input : input[j].ref => input[j].to \in refs
      /\ DOMAIN b = 1..p /\ DOMAIN a = 1..(p - 1)
      /\ \A j \in 1..p : b[j] = input[j] /\ j \in DOMAIN input
      /\ \A j \in 1..(p - 1) : a[j] = input[j] /\ j \in 1..p
      /\ \A j \in 1..p : j \in 1..(p - 1) \/ j = p
  <2>1. p \in Nat
    BY <1>1 DEF TypeOK
  <2> QED BY <1>1, <2>1, PieceOfCmd
<1>7. QuotedIn(a, cache) /\ ins = TextOf(a, quoted)
  BY <1>2 DEF Built
<1>8. HasLines(input, quoted')
  <2>1. quoted' = QuotedBy(cache')
    BY DEF Requotes, quoted, QuotedBy
  <2>2. \A f \in Path : cache'[f].lines \in Seq(Line)
    BY DEF TypeOK
  <2>3. \A i \in 1..Len(script) : HasLines(script[i].input, QuotedBy(cache'))
    BY <1>1, <2>2, QuotedByType
  <2> QED BY <1>6, <2>1, <2>3 DEF Cmd
<1>9. QuotedIn(a, cache') /\ TextOf(a, quoted') = TextOf(a, quoted)
  <2>1. \A j \in DOMAIN a : a[j].ref => a[j].to \in refs
    BY <1>6
  <2> HIDE DEF a
  <2> QED BY <1>7, <2>1, QuotedStays
<1>10. TextOf(b, quoted') = TextOf(a, quoted') \o PieceText(input[p], quoted')
  <2>1. /\ TextOf(SubSeq(input, 1, p - 1 + 1), quoted')
              = TextOf(SubSeq(input, 1, p - 1), quoted') \o PieceText(input[p - 1 + 1], quoted')
    <3> HIDE DEF input
    <3> QED BY <1>6, <1>8, TextOfMore
  <2> QED BY <1>6, <2>1
<1> HIDE DEF a, b
<1>11. QuotedIn(b, cache')
  <2> SUFFICES ASSUME NEW j \in 1..p, b[j].ref
               PROVE  Resolves(cache'[b[j].to.path], b[j].to)
    BY <1>6 DEF QuotedIn
  <2>1. CASE j \in 1..(p - 1)
    <3>1. a[j] = b[j] /\ j \in DOMAIN a
      BY <1>6, <2>1
    <3> QED BY <1>9, <3>1 DEF QuotedIn
  <2>2. CASE j = p
    BY <1>6, <2>2
  <2> QED BY <1>6, <2>1, <2>2
<1>12. ins' = TextOf(b, quoted')
  BY <1>7, <1>9, <1>10
<1>13. SubSeq(script[k'].input, 1, p' - 1) = b
  BY <1>1 DEF b, Cmd
<1> QED BY <1>1, <1>5, <1>11, <1>12, <1>13, QuotedSoFarIsNext

\* A literal line.
LEMMA LiteralKeepsText ==
    ASSUME TextInv, TypeOK', LiteralPiece PROVE CacheIsRead' /\ QuotedSoFar'
<1>1. /\ NextPiece /\ p' = p + 1 /\ ~Cmd.input[p].ref
      /\ UNCHANGED <<content, script, k, lines, phase, cache>>
      /\ ins' = Append(ins, Cmd.input[p].line)
  BY DEF LiteralPiece, call
<1>2. CacheIsRead' /\ Requotes
  BY <1>1, QuotesUnchanged DEF TextInv, CacheIsRead, Requotes
<1>3. PieceText(Cmd.input[p], quoted') = <<Cmd.input[p].line>>
  BY <1>1 DEF PieceText
<1>4. ins \in Seq(Line) /\ Cmd.input[p].line \in Line
  <2>1. Cmd.input[p] \in Piece
    BY <1>1, PieceOfCmd DEF TextInv, IInv
  <2>2. \A q \in Piece : ~q.ref => q.line \in Line
    BY DEF Piece
  <2> QED BY <1>1, <2>1, <2>2 DEF TextInv, IInv, TypeOK
<1>5. Append(ins, Cmd.input[p].line) = ins \o <<Cmd.input[p].line>>
  BY <1>4, AppendIsConcat
<1> QED BY <1>1, <1>2, <1>3, <1>5, PieceKeepsText

\* A reference: what it resolves to is what the cache holds from then on.
LEMMA ResolveKeepsText ==
    ASSUME TextInv, TypeOK', ResolvePiece PROVE CacheIsRead' /\ QuotedSoFar'
<1> DEFINE r == Cmd.input[p].to
<1>1. /\ NextPiece /\ Cmd.input[p].ref
      /\ UNCHANGED <<content, script, k, lines>>
      /\ cache' = [cache EXCEPT ![r.path] = Fetched(r.path)]
      /\ IF Resolves(Fetched(r.path), r)
         THEN /\ ins' = ins \o Transform(Run(Fetched(r.path).lines, r), r)
              /\ p' = p + 1 /\ phase' = phase
         ELSE phase' = "failed"
  BY DEF ResolvePiece, call
<1>2. TypeOK /\ CacheIsRead
  BY DEF TextInv, IInv
<1>3. r \in refs /\ r.path \in Path
  BY <1>1, <1>2, PieceOfCmd, QuotedType
<1>4. CacheIsRead' /\ Requotes /\ cache'[r.path] = Fetched(r.path)
  BY <1>1, <1>2, <1>3, FetchKeeps
<1>5. CASE Resolves(Fetched(r.path), r)
  <2>1. quoted'[r] = Run(Fetched(r.path).lines, r)
    BY <1>3, <1>4, <1>5 DEF quoted, Requotes
  <2>2. PieceText(Cmd.input[p], quoted') = Transform(Run(Fetched(r.path).lines, r), r)
    BY <1>1, <2>1 DEF PieceText
  <2>3. QuotedSoFar'
    BY <1>1, <1>4, <1>5, <2>2, PieceKeepsText
  <2> QED BY <1>4, <2>3
<1>6. CASE ~Resolves(Fetched(r.path), r)
  <2>1. phase' = "failed"
    BY <1>1, <1>6
  <2>2. QuotedSoFar'
    BY <1>1, <2>1, QuotedSoFarIsNext
  <2> QED BY <1>4, <2>2
<1> QED BY <1>5, <1>6

\* A step that changes neither the buffer nor the text.
LEMMA QuietKeepsText ==
    ASSUME TextInv, UNCHANGED <<content, script, cache>>,
           \/ phase' \in {"validate", "failed"}
           \/ UNCHANGED <<phase, k, p, lines, ins, out>>
           \/ Finish
    PROVE  CacheIsRead' /\ QuotedSoFar'
<1>1. quoted' = quoted /\ CacheIsRead'
  BY QuotesUnchanged DEF TextInv, CacheIsRead
<1>2. CASE phase' \in {"validate", "failed"}
  BY <1>1, <1>2, QuotedSoFarIsNext
<1>3. CASE UNCHANGED <<phase, k, p, lines, ins, out>>
  <2>1. QuotedSoFar' <=> QuotedSoFar
    BY <1>1, <1>3, QuotedSoFarIs, QuotedSoFarIsNext DEF Built, Cmd, endsNl
  <2> QED BY <1>1, <2>1 DEF TextInv
<1>4. CASE Finish
  <2>1. /\ phase = "apply" /\ phase' = "done" /\ out' = <<JoinLines(lines, endsNl)>>
        /\ UNCHANGED <<k, lines>> /\ endsNl' = endsNl
    BY <1>4 DEF Finish, endsNl
  <2>2. Applied(lines', k' - 1, quoted', cache')
    BY <1>1, <2>1, QuotedSoFarIs DEF TextInv
  <2>3. out' = <<JoinLines(lines', endsNl)>>
    BY <2>1
  <2> QED BY <1>1, <2>1, <2>2, <2>3, QuotedSoFarIsNext
<1> QED BY <1>2, <1>3, <1>4

\* The initial states satisfy the invariant, and every step keeps it.
LEMMA TextInvInit == Init => TextInv
<1> SUFFICES ASSUME Init PROVE TextInv
  OBVIOUS
<1>1. IInv /\ phase = "validate" /\ \A f \in Path : cache[f] = Unread
  BY IInvInit DEF Init
<1> QED BY <1>1 DEF TextInv, CacheIsRead, QuotedSoFar

LEMMA TextInvNext == TextInv /\ [Next]_vars => TextInv'
<1> SUFFICES ASSUME TextInv, [Next]_vars PROVE TextInv'
  OBVIOUS
<1>1. IInv' /\ TypeOK' /\ IInv /\ TypeOK
  BY IInvNext DEF TextInv, IInv
<1> SUFFICES CacheIsRead' /\ QuotedSoFar'
  BY <1>1 DEF TextInv
<1>2. CASE ValidateCommand \/ RejectOrder \/ OutOfRange \/ NoResolver
  BY <1>2, QuietKeepsText DEF ValidateCommand, RejectOrder, OutOfRange, NoResolver, Fail, call
<1>3. CASE StartApply
  BY <1>3, StartKeepsText
<1>4. CASE DeleteLines
  <2>1. k \in 1..Len(script) /\ Cmd.kind = "delete" /\ CheckRange(Cmd)
    BY <1>1, <1>4, RefsOf DEF DeleteLines, TypeOK
  <2>2. Cmd.input = <<>>
    BY <1>1, <2>1, RefsOf DEF TypeOK, IsScript, Cmd
  <2>3. QuotedIn(Cmd.input, cache) /\ TextOf(Cmd.input, quoted) = <<>>
    BY <2>2, TextOfNone DEF QuotedIn
  <2> QED BY <1>4, <2>1, <2>3, PerformKeepsText DEF DeleteLines, call
<1>5. CASE EndInput
  <2>1. k \in 1..Len(script) /\ CheckRange(Cmd) /\ p - 1 = Len(Cmd.input)
        /\ Cmd.input \in Seq(Piece)
    <3>1. k \in 1..Len(script) /\ CheckRange(Cmd)
      BY <1>1, <1>5, RefsOf DEF EndInput, TypeOK, CheckRange
    <3>2. Cmd.input \in Seq(Piece)
      BY <1>1, <3>1, RefsOf DEF TypeOK, Cmd
    <3>3. p - 1 = Len(Cmd.input)
      BY <1>1, <1>5, <3>2, LenProperties DEF EndInput, TypeOK
    <3> QED BY <3>1, <3>2, <3>3
  <2>2. SubSeq(Cmd.input, 1, p - 1) = Cmd.input
    BY <2>1, SubSeqFull
  <2>3. QuotedIn(Cmd.input, cache) /\ ins = TextOf(Cmd.input, quoted)
    BY <1>5, <2>2, QuotedSoFarIs DEF TextInv, EndInput, Built
  <2> QED BY <1>5, <2>1, <2>3, PerformKeepsText DEF EndInput, call
<1>6. CASE BeginInput
  BY <1>6, BeginKeepsText
<1>7. CASE LiteralPiece
  BY <1>1, <1>7, LiteralKeepsText
<1>8. CASE ResolvePiece
  BY <1>1, <1>8, ResolveKeepsText
<1>9. CASE Finish
  BY <1>9, QuietKeepsText DEF Finish, call
<1>10. CASE (\E f \in Path : EditCorpus(f)) \/ UNCHANGED vars
  BY <1>10, QuietKeepsText DEF EditCorpus, vars, call
<1> QED BY <1>2, <1>3, <1>4, <1>5, <1>6, <1>7, <1>8, <1>9, <1>10 DEF Next, Step

\* What the invariant says of a call that is done.
LEMMA DoneIs ==
    ASSUME TextInv, phase = "done"
    PROVE  /\ \A r \in refs : Resolves(cache[r.path], r)
           /\ out = <<Output(quoted)>>
<1>1. k - 1 = Len(script) /\ IsScript(script)
  <2>1. k = Len(script) + 1 /\ IsScript(script)
    BY DEF TextInv, IInv, AppliedSoFar, TypeOK, applying
  <2> QED BY <2>1, RefsOf
<1>2. Applied(lines, Len(script), quoted, cache) /\ out = <<JoinLines(lines, endsNl)>>
  BY <1>1, QuotedSoFarIs DEF TextInv
<1>3. out = <<Output(quoted)>>
  BY <1>2 DEF Applied, Output
<1>4. ASSUME NEW r \in refs PROVE Resolves(cache[r.path], r)
  <2>1. PICK q \in pieces : q.ref /\ r = q.to
    BY DEF refs
  <2>2. PICK i \in 1..Len(script) : q \in ToSet(script[i].input)
    BY <1>1, <2>1, RefsOf DEF pieces
  <2>3. PICK j \in DOMAIN script[i].input : q = script[i].input[j]
    BY <2>2 DEF ToSet
  <2> QED BY <1>2, <2>1, <2>3 DEF Applied, QuotedIn
<1> QED BY <1>3, <1>4

\* However the corpus is rewritten during a call, the output is what one state of it
\* gives: each file is read once (RefCache).
THEOREM SnapshotCorrect == Spec => []OneSnapshot
<1>1. TextInv => OneSnapshot
  <2> SUFFICES ASSUME TextInv, phase = "done"
               PROVE  \E snap \in [{r.path : r \in refs} -> Versions] :
                         /\ \A r \in refs : Resolves(ReadNow(snap[r.path]), r)
                         /\ out = <<Output([r \in refs |-> Run(ReadNow(snap[r.path]).lines, r)])>>
    BY DEF OneSnapshot
  <2> DEFINE snap == [f \in {r.path : r \in refs} |-> CHOOSE v \in Versions : cache[f] = ReadNow(v)]
  <2>1. \A r \in refs : Resolves(cache[r.path], r) /\ r.path \in Path
    BY DoneIs, QuotedType DEF TextInv, IInv
  <2>2. ASSUME NEW r \in refs
        PROVE  snap[r.path] \in Versions /\ cache[r.path] = ReadNow(snap[r.path])
    <3>1. cache[r.path] # Unread
      BY <2>1 DEF Resolves, Unread
    <3>2. \E v \in Versions : cache[r.path] = ReadNow(v)
      BY <2>1, <3>1 DEF TextInv, CacheIsRead
    <3> QED BY <3>2
  <2> HIDE DEF snap
  <2>3. snap \in [{r.path : r \in refs} -> Versions]
    <3>1. \A f \in {r.path : r \in refs} : snap[f] \in Versions
      BY <2>2
    <3> QED BY <3>1 DEF snap
  <2>4. quoted = [r \in refs |-> Run(ReadNow(snap[r.path]).lines, r)]
    BY <2>1, <2>2 DEF quoted
  <2>5. out = <<Output([r \in refs |-> Run(ReadNow(snap[r.path]).lines, r)])>>
    BY <2>4, DoneIs
  <2> QED BY <2>1, <2>2, <2>3, <2>5
<1> QED BY <1>1, TextInvInit, TextInvNext, PTL DEF Spec

\* A script whose references all carry a hash gives the text its author meant, or
\* fails.
THEOREM HashesCorrect == Spec => []HashedIsIntended
<1>1. TextInv => HashedIsIntended
  <2> SUFFICES ASSUME TextInv, phase = "done", \A r \in refs : r.has_hash
               PROVE  out = <<Output([r \in refs |-> r.hash])>>
    BY DEF HashedIsIntended
  <2>1. \A r \in refs : quoted[r] = r.hash
    BY DoneIs DEF quoted, Resolves
  <2>2. quoted = [r \in refs |-> r.hash]
    BY <2>1 DEF quoted
  <2> QED BY <2>2, DoneIs
<1> QED BY <1>1, TextInvInit, TextInvNext, PTL DEF Spec
==============================================================================
