-------------------------- MODULE EmitAdded_proofs --------------------------
(***************************************************************************)
(* Proofs about Factorize and EmitAdded, for any block, corpus and index.  *)
(***************************************************************************)
EXTENDS EmitAdded, EdLemmas, FiniteSetTheorems

-----------------------------------------------------------------------------
(* How far a run grows.                                                    *)

LEMMA UpIs ==
    ASSUME block \in Seq(Line), NEW i \in DOMAIN block, NEW f, NEW ln \in Nat
    PROVE  /\ Up(i, f, ln) \in 0..i
           /\ \A j \in 1..Up(i, f, ln) : Free(i - j, f, ln - j)
           /\ ~Free(i - Up(i, f, ln) - 1, f, ln - Up(i, f, ln) - 1)
           /\ \A k \in 0..i : (\A j \in 1..k : Free(i - j, f, ln - j)) => k <= Up(i, f, ln)
<1> DEFINE S == {k \in 0..i : \A j \in 1..k : Free(i - j, f, ln - j)}
           u == Up(i, f, ln)
<1>1. i \in Nat
  OBVIOUS
<1>2. 0 \in S
  BY <1>1
<1>3. u \in S /\ \A k \in S : k <= u
  <2>1. S \in SUBSET (0..i) /\ u = Max(S)
    BY DEF Up
  <2> HIDE DEF S, u
  <2> QED BY <1>1, <1>2, <2>1, Greatest
<1>4. ~Free(i - u - 1, f, ln - u - 1)
  <2> SUFFICES ASSUME Free(i - u - 1, f, ln - u - 1) PROVE FALSE
    OBVIOUS
  <2>1. u \in 0..i
    BY <1>3
  <2>2. i - u - 1 >= 1
    BY <2>1, <1>1 DEF Free
  <2>3. u + 1 \in S
    <3> HIDE DEF u
    <3>1. u + 1 \in 0..i
      BY <1>1, <2>1, <2>2
    <3>2. ASSUME NEW j \in 1..(u + 1) PROVE Free(i - j, f, ln - j)
      <4>1. CASE j \in 1..u
        BY <1>3, <4>1
      <4>2. CASE j = u + 1
        <5>1. i - j = i - u - 1 /\ ln - j = ln - u - 1
          BY <4>2, <1>1, <2>1
        <5> QED BY <5>1
      <4> QED BY <4>1, <4>2, <2>1
    <3> QED BY <3>1, <3>2
  <2> HIDE DEF S
  <2>4. u + 1 <= u
    BY <1>3, <2>3
  <2> QED BY <2>1, <2>4
<1> QED BY <1>3, <1>4

LEMMA DownIs ==
    ASSUME block \in Seq(Line), NEW i \in DOMAIN block, NEW f, NEW ln \in Nat
    PROVE  /\ Down(i, f, ln) \in 0..Len(block)
           /\ \A j \in 1..Down(i, f, ln) : Free(i + j, f, ln + j)
           /\ ~Free(i + Down(i, f, ln) + 1, f, ln + Down(i, f, ln) + 1)
           /\ \A k \in 0..Len(block) :
                 (\A j \in 1..k : Free(i + j, f, ln + j)) => k <= Down(i, f, ln)
<1> DEFINE S == {k \in 0..Len(block) : \A j \in 1..k : Free(i + j, f, ln + j)}
           d == Down(i, f, ln)
<1>1. i \in Nat /\ Len(block) \in Nat /\ DOMAIN block = 1..Len(block)
  OBVIOUS
<1>2. 0 \in S
  BY <1>1
<1>3. d \in S /\ \A k \in S : k <= d
  <2>1. S \in SUBSET (0..Len(block)) /\ d = Max(S)
    BY DEF Down
  <2> HIDE DEF S, d
  <2> QED BY <1>1, <1>2, <2>1, Greatest
<1>4. ~Free(i + d + 1, f, ln + d + 1)
  <2> SUFFICES ASSUME Free(i + d + 1, f, ln + d + 1) PROVE FALSE
    OBVIOUS
  <2>1. d \in 0..Len(block)
    BY <1>3
  <2>2. i + d + 1 <= Len(block)
    BY <2>1, <1>1 DEF Free
  <2>3. d + 1 \in S
    <3> HIDE DEF d
    <3>1. d + 1 \in 0..Len(block)
      BY <1>1, <2>1, <2>2
    <3>2. ASSUME NEW j \in 1..(d + 1) PROVE Free(i + j, f, ln + j)
      <4>1. CASE j \in 1..d
        BY <1>3, <4>1
      <4>2. CASE j = d + 1
        <5>1. i + j = i + d + 1 /\ ln + j = ln + d + 1
          BY <4>2, <1>1, <2>1
        <5> QED BY <5>1
      <4> QED BY <4>1, <4>2, <2>1
    <3> QED BY <3>1, <3>2
  <2> HIDE DEF S
  <2>4. d + 1 <= d
    BY <1>3, <2>3
  <2> QED BY <2>1, <2>4
<1> QED BY <1>3, <1>4

LEMMA Disks ==
    ASSUME corpus \in Seq(File), NEW f \in DOMAIN corpus
    PROVE  /\ Len(corpus[f].lines) \in Nat
           /\ Disk(f) = [n \in 1..Len(corpus[f].lines) |-> Disk(f)[n]]
           /\ Len(Disk(f)) = Len(corpus[f].lines)
           /\ DOMAIN Disk(f) = 1..Len(Disk(f))
<1>1. corpus[f].lines \in Seq(Line)
  <2>1. corpus[f] \in File
    OBVIOUS
  <2> QED BY <2>1 DEF File
<1>2. Len(corpus[f].lines) \in Nat /\ DOMAIN corpus[f].lines = 1..Len(corpus[f].lines)
  BY <1>1
<1>3. Disk(f) = [n \in 1..Len(corpus[f].lines) |-> Disk(f)[n]]
  BY <1>2 DEF Disk, CorpusLines
<1>4. Disk(f) \in Seq({Disk(f)[n] : n \in 1..Len(corpus[f].lines)})
  <2> DEFINE T == {Disk(f)[n] : n \in 1..Len(corpus[f].lines)}
  <2>1. Disk(f) \in [1..Len(corpus[f].lines) -> T]
    BY <1>3
  <2> QED BY <1>2, <2>1, SeqDef
<1>5. Len(Disk(f)) \in Nat /\ DOMAIN Disk(f) = 1..Len(Disk(f))
  BY <1>4, LenProperties
<1>6. DOMAIN Disk(f) = 1..Len(corpus[f].lines)
  BY <1>3
<1>7. Len(Disk(f)) = Len(corpus[f].lines)
  BY <1>2, <1>5, <1>6
<1> QED BY <1>2, <1>3, <1>5, <1>7

RunType == [block_begin : Nat, block_end : Nat, file_id : DOMAIN corpus,
            corpus_begin : Nat, corpus_end : Nat]

LEMMA RunIs ==
    ASSUME block \in Seq(Line), corpus \in Seq(File),
           NEW i \in DOMAIN block, i \notin covered,
           NEW f \in DOMAIN corpus, NEW ln \in Nat, Equal(i, f, ln),
           NEW r, r = RunAround(i, f, ln)
    PROVE  /\ r \in RunType
           /\ r.block_begin <= i /\ i < r.block_end
           /\ Length(r) = r.corpus_end - r.corpus_begin + 1
           /\ \A k \in 0..(Length(r) - 1) :
                 Free(r.block_begin + k, r.file_id, r.corpus_begin + k)
           /\ ~Free(r.block_begin - 1, r.file_id, r.corpus_begin - 1)
           /\ ~Free(r.block_end, r.file_id, r.corpus_end + 1)
           /\ r.file_id = f /\ CorpusLineOf(r, i) = ln
           /\ Length(r) = Up(i, f, ln) + Down(i, f, ln) + 1
<1> DEFINE u == Up(i, f, ln)
           d == Down(i, f, ln)
<1>1. /\ u \in Nat /\ u <= i
      /\ \A j \in 1..u : Free(i - j, f, ln - j)
      /\ ~Free(i - u - 1, f, ln - u - 1)
  <2>1. i \in Nat
    OBVIOUS
  <2> QED BY <2>1, UpIs
<1>2. /\ d \in Nat
      /\ \A j \in 1..d : Free(i + j, f, ln + j)
      /\ ~Free(i + d + 1, f, ln + d + 1)
  <2>1. Len(block) \in Nat
    OBVIOUS
  <2> QED BY <2>1, DownIs
<1>3. r = [block_begin |-> i - u, block_end |-> i + d + 1, file_id |-> f,
           corpus_begin |-> ln - u, corpus_end |-> ln + d]
  BY DEF RunAround
<1> HIDE DEF u, d
<1>4. i \in Nat /\ ln \in Nat
  OBVIOUS
<1>5. Length(r) = u + d + 1
  BY <1>1, <1>2, <1>3, <1>4 DEF Length
<1>6. Free(i, f, ln)
  BY DEF Free
<1>7. ASSUME NEW k \in 0..(u + d) PROVE Free(i - u + k, f, ln - u + k)
  <2>1. CASE k < u
    <3>1. u - k \in 1..u
      BY <1>1, <2>1
    <3>2. i - u + k = i - (u - k) /\ ln - u + k = ln - (u - k)
      BY <1>1, <1>4
    <3> QED BY <1>1, <3>1, <3>2
  <2>2. CASE k = u
    <3>1. i - u + k = i /\ ln - u + k = ln
      BY <1>1, <1>4, <2>2
    <3> QED BY <3>1, <1>6
  <2>3. CASE k > u
    <3>1. k - u \in 1..d
      BY <1>1, <1>2, <2>3
    <3>2. i - u + k = i + (k - u) /\ ln - u + k = ln + (k - u)
      BY <1>1, <1>4
    <3> QED BY <1>2, <3>1, <3>2
  <2> QED BY <2>1, <2>2, <2>3, <1>1
<1>8. ln - u \in Nat
  <2>1. Free(i - u, f, ln - u)
    <3>1. i - u + 0 = i - u /\ ln - u + 0 = ln - u
      BY <1>1, <1>4
    <3> QED BY <1>7, <3>1, <1>1, <1>2
  <2>2. ln - u \in DOMAIN Disk(f)
    BY <2>1 DEF Free, Equal
  <2> QED BY <2>2, Disks
<1>9. r \in RunType
  BY <1>1, <1>2, <1>3, <1>4, <1>8, SMTT(30) DEF RunType
<1>10. \A k \in 0..(Length(r) - 1) : Free(r.block_begin + k, r.file_id, r.corpus_begin + k)
  <2>1. Length(r) - 1 = u + d
    BY <1>5, <1>1, <1>2
  <2> QED BY <1>3, <1>7, <2>1
<1>11. ~Free(r.block_begin - 1, r.file_id, r.corpus_begin - 1)
  BY <1>1, <1>3
<1>12. ~Free(r.block_end, r.file_id, r.corpus_end + 1)
  <2>1. r.block_end = i + d + 1 /\ r.corpus_end + 1 = ln + d + 1 /\ r.file_id = f
    BY <1>3
  <2> QED BY <1>2, <2>1
<1>13. /\ r.block_begin <= i /\ i < r.block_end
       /\ Length(r) = r.corpus_end - r.corpus_begin + 1
       /\ r.file_id = f /\ CorpusLineOf(r, i) = ln
  <2>1. r.block_begin = i - u /\ r.block_end = i + d + 1
    BY <1>3
  <2>2. r.corpus_begin = ln - u /\ r.corpus_end = ln + d /\ r.file_id = f
    BY <1>3
  <2>3. i - u <= i /\ i < i + d + 1
    BY <1>1, <1>2, <1>4, SMTT(30)
  <2>4. u + d + 1 = (ln + d) - (ln - u) + 1 /\ (ln - u) + i - (i - u) = ln
    BY <1>1, <1>2, <1>4
  <2> QED BY <1>5, <2>1, <2>2, <2>3, <2>4 DEF CorpusLineOf
<1>14. Length(r) = Up(i, f, ln) + Down(i, f, ln) + 1
  BY <1>5 DEF u, d
<1> QED BY <1>9, <1>10, <1>11, <1>12, <1>13, <1>14

-----------------------------------------------------------------------------
(* The candidates of an anchor and the best of them.                       *)

IsCopy(r) ==
    /\ r \in RunType
    /\ r.block_begin < r.block_end
    /\ Length(r) = r.corpus_end - r.corpus_begin + 1
    /\ \A k \in 0..(Length(r) - 1) :
          r.block_begin + k \in DOMAIN block
             /\ Equal(r.block_begin + k, r.file_id, r.corpus_begin + k)

IsFree(r) == \A j \in r.block_begin..(r.block_end - 1) : j \notin covered

IsMaximal(r) == /\ ~Free(r.block_begin - 1, r.file_id, r.corpus_begin - 1)
                /\ ~Free(r.block_end, r.file_id, r.corpus_end + 1)

Typed == block \in Seq(Line) /\ corpus \in Seq(File)

LEMMA CopyIsInBlock ==
    ASSUME Typed, NEW r, IsCopy(r)
    PROVE  /\ Length(r) \in Nat /\ 1 <= Length(r) /\ Length(r) <= Len(block)
           /\ r.block_begin..(r.block_end - 1) \subseteq DOMAIN block
           /\ \A k \in 0..(Length(r) - 1) : r.block_begin + k \in r.block_begin..(r.block_end - 1)
           /\ \A j \in r.block_begin..(r.block_end - 1) :
                 j - r.block_begin \in 0..(Length(r) - 1) /\ j = r.block_begin + (j - r.block_begin)
<1>1. r.block_begin \in Nat /\ r.block_end \in Nat /\ r.block_begin < r.block_end
  BY DEF IsCopy, RunType
<1>2. Length(r) = r.block_end - r.block_begin
  BY DEF Length
<1>3. \A j \in r.block_begin..(r.block_end - 1) :
         j - r.block_begin \in 0..(Length(r) - 1) /\ j = r.block_begin + (j - r.block_begin)
  BY <1>1, <1>2
<1>4. r.block_begin..(r.block_end - 1) \subseteq DOMAIN block
  BY <1>3 DEF IsCopy
<1>5. Len(block) \in Nat /\ DOMAIN block = 1..Len(block)
  BY DEF Typed
<1>6. r.block_begin \in DOMAIN block /\ r.block_end - 1 \in DOMAIN block
  <2>1. /\ r.block_begin \in r.block_begin..(r.block_end - 1)
        /\ r.block_end - 1 \in r.block_begin..(r.block_end - 1)
    BY <1>1
  <2> QED BY <1>4, <2>1
<1>7. 1 <= Length(r) /\ Length(r) <= Len(block) /\ Length(r) \in Nat
  BY <1>1, <1>2, <1>5, <1>6
<1>8. \A k \in 0..(Length(r) - 1) : r.block_begin + k \in r.block_begin..(r.block_end - 1)
  BY <1>1, <1>2
<1> QED BY <1>3, <1>4, <1>7, <1>8

LEMMA CandidateIs ==
    ASSUME Typed, NEW i \in DOMAIN block, i \notin covered,
           Postings(i) \subseteq (DOMAIN corpus) \X Nat, NEW r \in Candidates(i)
    PROVE  /\ IsCopy(r) /\ IsFree(r) /\ IsMaximal(r)
           /\ i \in r.block_begin..(r.block_end - 1)
           /\ r = RunAround(i, r.file_id, CorpusLineOf(r, i))
           /\ CorpusLineOf(r, i) \in Nat
           /\ Equal(i, r.file_id, CorpusLineOf(r, i))
<1>1. PICK p \in Postings(i) : Equal(i, p[1], p[2]) /\ r = RunAround(i, p[1], p[2])
  BY DEF Candidates
<1>2. p[1] \in DOMAIN corpus /\ p[2] \in Nat
  OBVIOUS
<1>3. /\ r \in RunType
      /\ r.block_begin <= i /\ i < r.block_end
      /\ Length(r) = r.corpus_end - r.corpus_begin + 1
      /\ \A k \in 0..(Length(r) - 1) :
            Free(r.block_begin + k, r.file_id, r.corpus_begin + k)
      /\ IsMaximal(r)
      /\ r.file_id = p[1] /\ CorpusLineOf(r, i) = p[2]
  BY <1>1, <1>2, RunIs DEF Typed, IsMaximal
<1>4. r.block_begin \in Nat /\ r.block_end \in Nat /\ i \in Nat
  BY <1>3 DEF RunType, Typed
<1>5. IsCopy(r)
  BY <1>3, <1>4 DEF IsCopy, Free
<1>6. IsFree(r)
  <2>1. ASSUME NEW j \in r.block_begin..(r.block_end - 1) PROVE j \notin covered
    <3>1. j - r.block_begin \in 0..(Length(r) - 1) /\ j = r.block_begin + (j - r.block_begin)
      BY <1>5, CopyIsInBlock
    <3>2. Free(r.block_begin + (j - r.block_begin), r.file_id, r.corpus_begin + (j - r.block_begin))
      BY <1>3, <3>1
    <3> QED BY <3>1, <3>2 DEF Free
  <2> QED BY <2>1 DEF IsFree
<1> QED BY <1>1, <1>2, <1>3, <1>4, <1>5, <1>6

\* Of the longest candidates one is the first in the order of the postings.
LEMMA BestIs ==
    ASSUME Typed, NEW i \in DOMAIN block, i \notin covered,
           Postings(i) \subseteq (DOMAIN corpus) \X Nat, Candidates(i) # {}
    PROVE  /\ Best(i) \in Candidates(i)
           /\ \A r \in Candidates(i) : Length(r) <= Length(Best(i))
<1> DEFINE C == Candidates(i)
           L == Longest(C)
           Place(r) == CorpusLineOf(r, i)
<1>1. \A r \in C : /\ Length(r) \in Nat /\ Length(r) <= Len(block)
                    /\ r.file_id \in Nat /\ Place(r) \in Nat
                    /\ r = RunAround(i, r.file_id, Place(r))
  <2> SUFFICES ASSUME NEW r \in C
               PROVE  /\ Length(r) \in Nat /\ Length(r) <= Len(block)
                      /\ r.file_id \in Nat /\ Place(r) \in Nat
                      /\ r = RunAround(i, r.file_id, Place(r))
    OBVIOUS
  <2>1. IsCopy(r) /\ Place(r) \in Nat /\ r = RunAround(i, r.file_id, Place(r))
    BY CandidateIs
  <2>2. r.file_id \in Nat
    BY <2>1 DEF IsCopy, RunType, Typed
  <2> QED BY <2>1, <2>2, CopyIsInBlock
<1>2. Len(block) \in Nat
  BY DEF Typed
<1>3. PICK c \in C : TRUE
  OBVIOUS
<1> HIDE DEF C, Place
<1>4. PICK m \in C : \A r \in C : Length(r) <= Length(m)
  <2> DEFINE S == {Length(r) : r \in C}
  <2>1. S \in SUBSET (0..Len(block))
    BY <1>1, <1>2
  <2>2. Length(c) \in S
    BY <1>3
  <2> HIDE DEF S
  <2>3. Max(S) \in S /\ \A y \in S : y <= Max(S)
    BY <1>2, <2>1, <2>2, Greatest
  <2>4. \E m \in C : Length(m) = Max(S)
    BY <2>3 DEF S
  <2>5. \A r \in C : Length(r) \in S
    BY DEF S
  <2> QED BY <2>3, <2>4, <2>5
<1>5. m \in L
  BY <1>4 DEF Longest
<1>6. \A r \in L : r \in C /\ \A s \in C : Length(s) <= Length(r)
  BY DEF Longest
<1> HIDE DEF L
<1>7. PICK f \in {r.file_id : r \in L} : \A g \in {r.file_id : r \in L} : f <= g
  <2>1. {r.file_id : r \in L} \in SUBSET Nat
    BY <1>1, <1>6
  <2>2. m.file_id \in {r.file_id : r \in L}
    BY <1>5
  <2> HIDE DEF L
  <2> QED BY <2>1, <2>2, Least
<1> DEFINE F == {r \in L : r.file_id = f}
<1>8. PICK n \in {Place(r) : r \in F} : \A o \in {Place(r) : r \in F} : n <= o
  <2>1. {Place(r) : r \in F} \in SUBSET Nat
    BY <1>1, <1>6
  <2>2. PICK r \in F : TRUE
    BY <1>7
  <2>3. Place(r) \in {Place(q) : q \in F}
    BY <2>2
  <2> QED BY <2>1, <2>3, Least
<1>9. PICK e \in F : Place(e) = n
  BY <1>8
<1>10. \A s \in L \ {e} : Earlier(e, s, i)
  <2> SUFFICES ASSUME NEW s \in L, s # e PROVE Earlier(e, s, i)
    OBVIOUS
  <2>1. e \in L /\ e.file_id = f /\ Place(e) = n
    BY <1>9
  <2>2. f <= s.file_id
    BY <1>7
  <2>3. s.file_id \in Nat /\ f \in Nat /\ Place(s) \in Nat /\ n \in Nat
    BY <1>1, <1>6, <2>1
  <2>4. CASE s.file_id = f
    <3>1. n <= Place(s)
      BY <1>8, <2>4
    <3>2. Place(s) # n
      BY <1>1, <1>6, <2>1, <2>4
    <3> QED BY <2>1, <2>3, <2>4, <3>1, <3>2 DEF Earlier, Place
  <2>5. CASE s.file_id # f
    BY <2>1, <2>2, <2>3, <2>5 DEF Earlier
  <2> QED BY <2>4, <2>5
<1>11. Earliest(L, i) \in L
  <2>1. \E r \in L : \A s \in L \ {r} : Earlier(r, s, i)
    BY <1>9, <1>10
  <2> QED BY <2>1 DEF Earliest
<1>12. Best(i) \in L
  BY <1>11 DEF Best, L, C
<1> QED BY <1>6, <1>12 DEF C

-----------------------------------------------------------------------------
(* Covering more lines shortens runs, and makes none of them longer.       *)

LEMMA Shrinks ==
    ASSUME Typed, UNCHANGED input, covered \subseteq covered',
           NEW i \in DOMAIN block, i \notin covered', NEW f \in DOMAIN corpus, NEW ln \in Nat,
           Equal(i, f, ln)
    PROVE  /\ Length(RunAround(i, f, ln)) \in Nat /\ Length(RunAround(i, f, ln))' \in Nat
           /\ Length(RunAround(i, f, ln))' <= Length(RunAround(i, f, ln))
<1>1. Typed' /\ block' = block /\ corpus' = corpus
  BY DEF Typed, input
<1>2. \A j, g, n : Equal(j, g, n)' = Equal(j, g, n)
  BY DEF input, Equal, Key, Quoted, Disk
<1>3. \A j, g, n : Free(j, g, n)' => Free(j, g, n)
  BY <1>1, <1>2 DEF Free
<1>4. Up(i, f, ln)' \in Nat /\ Up(i, f, ln)' <= Up(i, f, ln) /\ Up(i, f, ln) \in Nat
  <2> DEFINE S == {k \in 0..i : \A j \in 1..k : Free(i - j, f, ln - j)}
             T == {k \in 0..i : \A j \in 1..k : Free(i - j, f, ln - j)'}
  <2>1. i \in Nat
    BY DEF Typed
  <2>2. Up(i, f, ln) = Max(S) /\ Up(i, f, ln)' = Max(T)
    BY DEF Up
  <2>3. T \subseteq S /\ 0 \in T /\ T \in SUBSET (0..i) /\ S \in SUBSET (0..i)
    BY <1>3, <2>1
  <2>4. \A k \in 0..i : k \in Nat
    BY <2>1
  <2> HIDE DEF S, T
  <2>5. Max(T) \in T
    BY <2>1, <2>3, Greatest
  <2>6. Max(S) \in S /\ \A y \in S : y <= Max(S)
    BY <2>1, <2>3, Greatest
  <2> QED BY <2>2, <2>3, <2>4, <2>5, <2>6
<1>5. Down(i, f, ln)' \in Nat /\ Down(i, f, ln)' <= Down(i, f, ln) /\ Down(i, f, ln) \in Nat
  <2> DEFINE S == {k \in 0..Len(block) : \A j \in 1..k : Free(i + j, f, ln + j)}
             T == {k \in 0..Len(block) : \A j \in 1..k : Free(i + j, f, ln + j)'}
  <2>1. Len(block) \in Nat
    BY DEF Typed
  <2>2. Down(i, f, ln) = Max(S) /\ Down(i, f, ln)' = Max(T)
    BY <1>1 DEF Down
  <2>3. T \subseteq S /\ 0 \in T /\ T \in SUBSET (0..Len(block)) /\ S \in SUBSET (0..Len(block))
    BY <1>3, <2>1
  <2>4. \A k \in 0..Len(block) : k \in Nat
    BY <2>1
  <2> HIDE DEF S, T
  <2>5. Max(T) \in T
    BY <2>1, <2>3, Greatest
  <2>6. Max(S) \in S /\ \A y \in S : y <= Max(S)
    BY <2>1, <2>3, Greatest
  <2> QED BY <2>2, <2>3, <2>4, <2>5, <2>6
<1>6. i \in Nat
  BY DEF Typed
<1>7. Length(RunAround(i, f, ln)) = Up(i, f, ln) + Down(i, f, ln) + 1
  BY <1>4, <1>5, <1>6 DEF Length, RunAround
<1>8. Length(RunAround(i, f, ln))' = Up(i, f, ln)' + Down(i, f, ln)' + 1
  BY <1>4, <1>5, <1>6 DEF Length, RunAround
<1> QED BY <1>4, <1>5, <1>7, <1>8

-----------------------------------------------------------------------------
(* The invariant of the matching.                                          *)

Short(i) == \A r \in Candidates(i) : Length(r) < min_run

MatchInv ==
    /\ Typed /\ min_run \in Nat \ {0}
    /\ index \in [IndexedKeys -> SUBSET ((DOMAIN corpus) \X Nat)]
    /\ todo \subseteq DOMAIN block /\ covered \subseteq DOMAIN block
    /\ \A r \in runs : r.block_begin..(r.block_end - 1) \subseteq covered
    /\ \A r \in runs : IsCopy(r) /\ Length(r) >= min_run /\ IsMaximal(r)
    /\ RunsAreDisjoint
    /\ \A i \in (DOMAIN block) \ (covered \cup todo) : Short(i)

LEMMA PostingsAre ==
    ASSUME index \in [IndexedKeys -> SUBSET ((DOMAIN corpus) \X Nat)], NEW i
    PROVE  Postings(i) \subseteq (DOMAIN corpus) \X Nat
BY DEF Postings

LEMMA SameInput ==
    ASSUME UNCHANGED input
    PROVE  /\ block' = block /\ corpus' = corpus /\ min_run' = min_run /\ index' = index
           /\ normalized' = normalized
           /\ \A j, g, n : Equal(j, g, n)' = Equal(j, g, n)
           /\ \A j : Postings(j)' = Postings(j)
           /\ \A r : IsCopy(r) <=> IsCopy(r)'
<1>1. /\ block' = block /\ corpus' = corpus /\ min_run' = min_run /\ index' = index
      /\ normalized' = normalized
  BY DEF input
<1>2. \A j, g, n : Equal(j, g, n)' = Equal(j, g, n)
  BY <1>1 DEF Equal, Key, Quoted, Disk
<1>3. \A j : Postings(j)' = Postings(j)
  BY <1>1 DEF Postings, Key, Quoted
<1>4. \A r : IsCopy(r) <=> IsCopy(r)'
  BY <1>1, <1>2 DEF IsCopy, RunType
<1> QED BY <1>1, <1>2, <1>3, <1>4

\* An anchor without a run, or too short a one, never gets one.
LEMMA ShortStays ==
    ASSUME MatchInv, UNCHANGED input, covered \subseteq covered',
           NEW i \in DOMAIN block, i \notin covered', Short(i)
    PROVE  Short(i)'
<1> SUFFICES ASSUME NEW r \in Candidates(i)' PROVE Length(r) < min_run'
  BY DEF Short, Length
<1>1. PICK p \in Postings(i) : Equal(i, p[1], p[2]) /\ r = RunAround(i, p[1], p[2])'
  BY SameInput DEF Candidates
<1>2. p[1] \in DOMAIN corpus /\ p[2] \in Nat
  BY PostingsAre DEF MatchInv
<1> DEFINE q == RunAround(i, p[1], p[2])
<1>3. q \in Candidates(i)
  BY <1>1 DEF Candidates
<1>4. Length(q) \in Nat /\ Length(q)' \in Nat /\ Length(q)' <= Length(q)
  BY <1>1, <1>2, Shrinks DEF MatchInv
<1>5. Length(q) < min_run
  BY <1>3 DEF Short
<1>6. Length(r) = Length(q)'
  BY <1>1 DEF Length
<1>7. min_run \in Nat
  BY DEF MatchInv
<1> QED BY <1>4, <1>5, <1>6, <1>7, SameInput

LEMMA MatchInit == Init => MatchInv
<1> SUFFICES ASSUME Init PROVE MatchInv
  OBVIOUS
<1>1. Typed
  BY FactorizeAssumption DEF Init, Typed
<1>2. min_run \in Nat \ {0}
  BY FactorizeAssumption DEF Init, AtLeastOne
<1>3. index \in [IndexedKeys -> SUBSET ((DOMAIN corpus) \X Nat)]
  <2>1. PICK built \in Corpora : Len(built) = Len(corpus) /\ index = IndexOf(built, normalized)
    BY DEF Init
  <2>2. built \in Seq(File)
    BY FactorizeAssumption
  <2>3. DOMAIN built = DOMAIN corpus
    BY <1>1, <2>1, <2>2 DEF Typed
  <2>4. \A f \in DOMAIN built : DOMAIN built[f].lines \subseteq Nat
    <3>1. \A f \in DOMAIN built : built[f] \in File
      BY <2>2
    <3>2. \A f \in DOMAIN built : built[f].lines \in Seq(Line)
      BY <3>1 DEF File
    <3> QED BY <3>2
  <2>5. Places(built) \subseteq (DOMAIN corpus) \X Nat
    BY <2>3, <2>4 DEF Places
  <2> QED BY <2>1, <2>5 DEF IndexOf
<1>4. \A i \in (DOMAIN block) \ (covered \cup todo) : Short(i)
  BY DEF Init, Short, Candidates
<1> QED BY <1>1, <1>2, <1>3, <1>4 DEF Init, MatchInv, RunsAreDisjoint

LEMMA MatchTakeRun ==
    ASSUME MatchInv, NEW i \in DOMAIN block, TakeRun(i)
    PROVE  MatchInv'
<1> DEFINE r == Best(i)
<1>1. /\ i \in todo /\ todo' = todo \ {i} /\ i \notin covered
      /\ Candidates(i) # {} /\ Length(r) >= min_run
      /\ runs' = runs \cup {r} /\ covered' = covered \cup r.block_begin..(r.block_end - 1)
      /\ UNCHANGED input
  BY DEF TakeRun, NextAnchor, HasRun
<1>2. r \in Candidates(i)
  BY <1>1, BestIs, PostingsAre DEF MatchInv
<1>3. IsCopy(r) /\ IsFree(r) /\ IsMaximal(r) /\ i \in r.block_begin..(r.block_end - 1)
  BY <1>1, <1>2, CandidateIs, PostingsAre DEF MatchInv
<1> HIDE DEF r
<1>4. Typed' /\ min_run' \in Nat \ {0}
      /\ index' \in [IndexedKeys -> SUBSET ((DOMAIN corpus') \X Nat)]
  BY <1>1, SameInput DEF MatchInv, Typed
<1>5. todo' \subseteq DOMAIN block' /\ covered' \subseteq DOMAIN block'
  BY <1>1, <1>3, SameInput, CopyIsInBlock DEF MatchInv
<1>6. \A s \in runs' : s.block_begin..(s.block_end - 1) \subseteq covered'
  BY <1>1 DEF MatchInv
<1>7. \A j, f, ln : Free(j, f, ln)' => Free(j, f, ln)
  BY <1>1, SameInput DEF Free
<1>8. \A s \in runs' : IsCopy(s)' /\ Length(s)' >= min_run' /\ IsMaximal(s)'
  <2> SUFFICES ASSUME NEW s \in runs' PROVE IsCopy(s)' /\ Length(s) >= min_run /\ IsMaximal(s)'
    BY <1>1, SameInput DEF Length
  <2>1. IsCopy(s) /\ Length(s) >= min_run /\ IsMaximal(s)
    BY <1>1, <1>3 DEF MatchInv
  <2>2. IsMaximal(s)'
    BY <1>7, <2>1 DEF IsMaximal
  <2> QED BY <1>1, <2>1, <2>2, SameInput
<1>9. RunsAreDisjoint'
  <2>1. ASSUME NEW s \in runs PROVE r.block_end <= s.block_begin \/ s.block_end <= r.block_begin
    <3>1. IsCopy(s) /\ s.block_begin..(s.block_end - 1) \subseteq covered
      BY DEF MatchInv
    <3>2. \A j \in s.block_begin..(s.block_end - 1) : j \notin r.block_begin..(r.block_end - 1)
      BY <1>3, <3>1 DEF IsFree
    <3>3. /\ s.block_begin \in Nat /\ s.block_end \in Nat /\ s.block_begin < s.block_end
          /\ r.block_begin \in Nat /\ r.block_end \in Nat /\ r.block_begin < r.block_end
      BY <1>3, <3>1 DEF IsCopy, RunType
    <3> SUFFICES ASSUME s.block_begin < r.block_end, r.block_begin < s.block_end PROVE FALSE
      BY <3>3
    <3>4. CASE s.block_begin >= r.block_begin
      BY <3>2, <3>3, <3>4
    <3>5. CASE s.block_begin < r.block_begin
      BY <3>2, <3>3, <3>5
    <3> QED BY <3>3, <3>4, <3>5
  <2> QED BY <1>1, <2>1 DEF RunsAreDisjoint, MatchInv
<1>10. \A j \in (DOMAIN block') \ (covered' \cup todo') : Short(j)'
  <2> SUFFICES ASSUME NEW j \in DOMAIN block, j \notin covered', j \notin todo' PROVE Short(j)'
    BY <1>1, SameInput
  <2>1. j # i
    BY <1>1, <1>3
  <2>2. Short(j)
    BY <1>1, <2>1 DEF MatchInv
  <2> QED BY <1>1, <2>2, ShortStays
<1> QED BY <1>4, <1>5, <1>6, <1>8, <1>9, <1>10 DEF MatchInv

LEMMA MatchPassOver ==
    ASSUME MatchInv, NEW i \in DOMAIN block, PassOver(i)
    PROVE  MatchInv'
<1>1. /\ todo' = todo \ {i} /\ UNCHANGED <<input, covered, runs>>
      /\ i \in covered \/ Candidates(i) = {} \/ ~(Length(Best(i)) >= min_run)
  BY DEF PassOver, NextAnchor, HasRun
<1>2. i \notin covered => Short(i)
  <2> SUFFICES ASSUME i \notin covered, NEW r \in Candidates(i) PROVE Length(r) < min_run
    BY DEF Short
  <2>1. Best(i) \in Candidates(i) /\ Length(r) <= Length(Best(i))
    BY BestIs, PostingsAre DEF MatchInv
  <2>2. Length(r) \in Nat /\ Length(Best(i)) \in Nat /\ min_run \in Nat
    BY <2>1, CandidateIs, CopyIsInBlock, PostingsAre DEF MatchInv
  <2> QED BY <1>1, <2>1, <2>2
<1>3. \A j \in (DOMAIN block') \ (covered' \cup todo') : Short(j)'
  <2> SUFFICES ASSUME NEW j \in DOMAIN block, j \notin covered', j \notin todo' PROVE Short(j)'
    BY <1>1, SameInput
  <2>1. Short(j)
    BY <1>1, <1>2 DEF MatchInv
  <2> QED BY <1>1, <2>1, ShortStays
<1>4. \A s : IsMaximal(s)' <=> IsMaximal(s)
  BY <1>1, SameInput DEF IsMaximal, Free
<1> QED BY <1>1, <1>3, <1>4, SameInput DEF MatchInv, Typed, RunsAreDisjoint, Length

LEMMA MatchStutter == ASSUME MatchInv, UNCHANGED <<input, matching>> PROVE MatchInv'
<1>1. UNCHANGED input /\ todo' = todo /\ covered' = covered /\ runs' = runs
  BY DEF matching
<1>2. \A j \in (DOMAIN block') \ (covered' \cup todo') : Short(j)'
  BY <1>1, SameInput, ShortStays DEF MatchInv
<1>3. \A s : IsMaximal(s)' <=> IsMaximal(s)
  BY <1>1, SameInput DEF IsMaximal, Free
<1> QED BY <1>1, <1>2, <1>3, SameInput DEF MatchInv, Typed, RunsAreDisjoint, Length

LEMMA MatchNext == MatchInv /\ [Next]_vars => MatchInv'
<1> SUFFICES ASSUME MatchInv, [Next]_vars PROVE MatchInv'
  OBVIOUS
<1>1. CASE Match
  BY <1>1, MatchTakeRun, MatchPassOver DEF Match
<1>2. CASE UNCHANGED <<input, matching>>
  BY <1>2, MatchStutter
<1>3. CASE ~Match
  BY <1>2, <1>3 DEF Next, vars, Write, WriteLiteral, WriteRun, WriteExact, WritePadded, WriteBlank
<1> QED BY <1>1, <1>3

-----------------------------------------------------------------------------
(* The runs.                                                               *)

LEMMA MatchInvariant == EmitSpec => []MatchInv
<1>1. EmitInit => MatchInv
  BY MatchInit DEF EmitInit
<1> QED BY <1>1, MatchNext, PTL DEF EmitSpec

\* Whatever the index says, a run is a copy, line by line, of the corpus as it is.
THEOREM CopiesHold == EmitSpec => []RunsAreCopies
<1>1. MatchInv => RunsAreCopies
  BY DEF MatchInv, RunsAreCopies, IsCopy
<1> QED BY <1>1, MatchInvariant, PTL

\* No line of the block is in two runs.
THEOREM DisjointHolds == EmitSpec => []RunsAreDisjoint
<1>1. MatchInv => RunsAreDisjoint
  BY DEF MatchInv
<1> QED BY <1>1, MatchInvariant, PTL

\* A run could not be longer.
THEOREM MaximalHolds == EmitSpec => []RunsAreMaximal
<1>1. MatchInv => RunsAreMaximal
  BY DEF MatchInv, RunsAreMaximal, IsMaximal
<1> QED BY <1>1, MatchInvariant, PTL

\* In the end no run is left that the index would lead to.
THEOREM NothingIsMissed == EmitSpec => []NothingMissed
<1>1. MatchInv => NothingMissed
  BY DEF MatchInv, NothingMissed, Short
<1> QED BY <1>1, MatchInvariant, PTL

-----------------------------------------------------------------------------
(* The guards.                                                             *)

OutInv ==
    /\ pos \in Nat
    /\ \E S : out \in Seq(S)
    /\ GuardsHold

LEMMA Appended ==
    ASSUME NEW S, NEW s \in Seq(S), NEW e
    PROVE  /\ Append(s, e) \in Seq(S \cup {e})
           /\ \A n \in DOMAIN Append(s, e) :
                 Append(s, e)[n] = e \/ (n \in DOMAIN s /\ Append(s, e)[n] = s[n])
<1>1. s \in Seq(S \cup {e})
  BY SeqMonotonic
<1>2. e \in S \cup {e}
  OBVIOUS
<1> QED BY <1>1, <1>2, AppendProperties

\* A reference to lines that the file has resolves against that file.
LEMMA RefResolves ==
    ASSUME corpus \in Seq(File), NEW f \in DOMAIN corpus, NEW from \in Nat, NEW to \in Nat,
           from \in DOMAIN Disk(f), to \in DOMAIN Disk(f), from <= to,
           NEW trim, NEW lpad, NEW rpad
    PROVE  /\ Reference(RefOf(f, from, to, trim, lpad, rpad)).ref
           /\ LET r == Reference(RefOf(f, from, to, trim, lpad, rpad)).to
              IN  Resolves(AsRead(r.path), r)
<1> DEFINE r == RefOf(f, from, to, trim, lpad, rpad)
<1>1. 1 <= from /\ to <= Len(Disk(f))
  BY Disks
<1>2. r.path = f /\ r.begin = from /\ r.end = to
  BY DEF RefOf
<1>3. r.bytes # NoGuard => TotalBytes(SubSeq(Disk(f), from, to)) = r.bytes
  BY DEF RefOf
<1>4. r.has_hash => SubSeq(Disk(f), from, to) = r.hash
  BY DEF RefOf
<1> HIDE DEF r
<1>5. Resolves(AsRead(f), r)
  BY <1>1, <1>2, <1>3, <1>4 DEF Resolves, AsRead, Run
<1>6. Reference(r).ref /\ Reference(r).to = r
  BY DEF Reference
<1> QED BY <1>2, <1>5, <1>6 DEF r

\* Writing a piece that is text, or resolves.
LEMMA WriteKeeps ==
    ASSUME OutInv, NEW piece, NEW n \in Nat, Write(piece, n),
           piece.ref => Resolves(AsRead(piece.to.path), piece.to)
    PROVE  OutInv'
<1>1. out' = Append(out, piece) /\ pos' = pos + n /\ UNCHANGED input
  BY DEF Write
<1>2. \A f : AsRead(f)' = AsRead(f)
  BY <1>1, SameInput DEF AsRead, Disk
<1>3. PICK S : out \in Seq(S)
  BY DEF OutInv
<1>4. out' \in Seq(S \cup {piece})
  BY <1>1, <1>3, Appended
<1>5. ASSUME NEW m \in DOMAIN out', out'[m].ref
      PROVE  Resolves(AsRead(out'[m].to.path), out'[m].to)
  <2>1. out'[m] = piece \/ (m \in DOMAIN out /\ out'[m] = out[m])
    BY <1>1, <1>3, Appended
  <2> QED BY <1>5, <2>1 DEF OutInv, GuardsHold
<1>6. GuardsHold'
  BY <1>2, <1>5 DEF GuardsHold
<1> QED BY <1>1, <1>4, <1>6 DEF OutInv

\* A run of corpus lines of a run of the block.
LEMMA RunLines ==
    ASSUME MatchInv, NEW r \in runs
    PROVE  /\ r.file_id \in DOMAIN corpus
           /\ r.block_begin \in Nat /\ r.block_end \in Nat /\ r.corpus_begin \in Nat
           /\ \A i \in Nat : r.block_begin <= i /\ i < r.block_end =>
                 CorpusLineOf(r, i) \in DOMAIN Disk(r.file_id) /\ CorpusLineOf(r, i) \in Nat
<1>1. IsCopy(r)
  BY DEF MatchInv
<1>2. /\ r.file_id \in DOMAIN corpus
      /\ r.block_begin \in Nat /\ r.block_end \in Nat /\ r.corpus_begin \in Nat
  BY <1>1 DEF IsCopy, RunType
<1>3. ASSUME NEW i \in Nat, r.block_begin <= i, i < r.block_end
      PROVE  CorpusLineOf(r, i) \in DOMAIN Disk(r.file_id) /\ CorpusLineOf(r, i) \in Nat
  <2>1. i - r.block_begin \in 0..(Length(r) - 1)
    BY <1>2, <1>3 DEF Length
  <2>2. Equal(r.block_begin + (i - r.block_begin), r.file_id,
              r.corpus_begin + (i - r.block_begin))
    BY <1>1, <2>1 DEF IsCopy
  <2>3. CorpusLineOf(r, i) = r.corpus_begin + (i - r.block_begin)
    BY <1>2 DEF CorpusLineOf
  <2> QED BY <1>2, <1>3, <2>2, <2>3 DEF Equal
<1> QED BY <1>2, <1>3

LEMMA StretchIs ==
    ASSUME MatchInv, pos \in Nat, NEW r \in runs, Within(r), Exact(r, pos)
    PROVE  /\ Stretch(r) \in Nat /\ 1 <= Stretch(r) /\ pos + Stretch(r) <= r.block_end
           /\ \A i \in pos..(pos + Stretch(r) - 1) : Exact(r, i)
<1> DEFINE S == {n \in 1..(r.block_end - pos) : \A i \in pos..(pos + n - 1) : Exact(r, i)}
<1>1. r.block_end \in Nat /\ pos < r.block_end
  BY RunLines DEF Within
<1>2. \A i \in pos..(pos + 1 - 1) : Exact(r, i)
  <2>1. \A i \in pos..(pos + 1 - 1) : i = pos
    OBVIOUS
  <2> QED BY <2>1
<1>3. 1 \in S
  BY <1>1, <1>2
<1>4. r.block_end - pos \in Nat /\ S \in SUBSET (0..(r.block_end - pos))
  BY <1>1
<1>5. Stretch(r) = Max(S) /\ S \subseteq 1..(r.block_end - pos)
      /\ \A n \in S : \A i \in pos..(pos + n - 1) : Exact(r, i)
  BY DEF Stretch
<1> HIDE DEF S
<1>6. Stretch(r) \in 1..(r.block_end - pos) /\ Stretch(r) \in S
  BY <1>3, <1>4, <1>5, Greatest
<1> QED BY <1>1, <1>5, <1>6

LEMMA OutNext == ASSUME MatchInv, OutInv, [Next]_vars PROVE OutInv'
<1>1. ASSUME WriteLiteral PROVE OutInv'
  BY <1>1, WriteKeeps DEF WriteLiteral, Literal
<1>2. ASSUME NEW r \in runs, WriteRun(r) PROVE OutInv'
  <2>1. IsCopy(r) /\ Length(r) \in Nat /\ 1 <= Length(r) /\ r.corpus_end \in Nat
    BY CopyIsInBlock DEF MatchInv, IsCopy, RunType
  <2>2. /\ CorpusLineOf(r, r.block_begin) = r.corpus_begin
        /\ CorpusLineOf(r, r.block_end - 1) = r.corpus_end
        /\ r.block_end - 1 \in Nat /\ r.block_begin <= r.block_end - 1
    BY <2>1, RunLines DEF CorpusLineOf, Length, IsCopy
  <2>3. /\ r.corpus_begin \in DOMAIN Disk(r.file_id) /\ r.corpus_end \in DOMAIN Disk(r.file_id)
        /\ r.corpus_begin <= r.corpus_end
    BY <2>1, <2>2, RunLines DEF IsCopy
  <2>4. Write(Reference(RefOf(r.file_id, r.corpus_begin, r.corpus_end, FALSE, <<>>, <<>>)), Length(r))
    BY <1>2 DEF WriteRun
  <2> QED BY <2>1, <2>3, <2>4, RunLines, RefResolves, WriteKeeps DEF MatchInv, Typed
<1>3. ASSUME NEW r \in runs, WriteExact(r) PROVE OutInv'
  <2> DEFINE c == CorpusLineOf(r, pos)
             n == Stretch(r)
  <2>1. n \in Nat /\ 1 <= n /\ pos + n <= r.block_end /\ r.block_begin <= pos /\ pos \in Nat
    BY <1>3, StretchIs DEF WriteExact, Within, OutInv
  <2>2. CorpusLineOf(r, pos + n - 1) = c + n - 1
    BY <2>1, RunLines DEF CorpusLineOf
  <2>3. /\ c \in Nat /\ c \in DOMAIN Disk(r.file_id)
        /\ c + n - 1 \in Nat /\ c + n - 1 \in DOMAIN Disk(r.file_id)
    <3>1. /\ pos < r.block_end /\ pos + n - 1 < r.block_end /\ r.block_begin <= pos + n - 1
          /\ pos + n - 1 \in Nat
      BY <2>1, RunLines
    <3> QED BY <2>1, <2>2, <3>1, RunLines
  <2>4. Write(Reference(RefOf(r.file_id, c, c + n - 1, FALSE, <<>>, <<>>)), n)
    BY <1>3 DEF WriteExact
  <2> HIDE DEF c, n
  <2>5. c <= c + n - 1
    BY <2>1, <2>3
  <2> QED BY <2>1, <2>3, <2>4, <2>5, RunLines, RefResolves, WriteKeeps DEF MatchInv, Typed
<1>4. ASSUME NEW r \in runs, WritePadded(r) PROVE OutInv'
  <2> DEFINE c == CorpusLineOf(r, pos)
  <2>1. c \in Nat /\ c \in DOMAIN Disk(r.file_id) /\ c <= c
    BY <1>4, RunLines DEF WritePadded, Within, OutInv
  <2>2. Write(Reference(RefOf(r.file_id, c, c, TRUE, block[pos].lead, block[pos].trail)), 1)
    BY <1>4 DEF WritePadded
  <2> HIDE DEF c
  <2> QED BY <2>1, <2>2, RunLines, RefResolves, WriteKeeps DEF MatchInv, Typed
<1>5. ASSUME NEW r \in runs, WriteBlank(r) PROVE OutInv'
  BY <1>5, WriteKeeps DEF WriteBlank, Literal
<1>6. ASSUME UNCHANGED <<input, pos, out>> PROVE OutInv'
  <2>1. \A f : AsRead(f)' = AsRead(f)
    BY <1>6, SameInput DEF AsRead, Disk
  <2> QED BY <1>6, <2>1 DEF OutInv, GuardsHold
<1>7. Match => UNCHANGED input
  BY DEF Match, PassOver, TakeRun
<1> QED BY <1>1, <1>2, <1>3, <1>4, <1>5, <1>6, <1>7 DEF Next, vars

LEMMA OutInit == EmitInit => OutInv
<1> SUFFICES ASSUME EmitInit PROVE OutInv
  OBVIOUS
<1>1. out = <<>> /\ pos = 1
  BY DEF EmitInit
<1>2. out \in Seq({})
  BY <1>1
<1> QED BY <1>1, <1>2 DEF OutInv, GuardsHold

LEMMA OutInvariant == EmitSpec => []OutInv
<1>1. EmitInit => OutInv
  BY OutInit
<1>2. MatchInv /\ OutInv /\ [Next]_vars => OutInv'
  BY OutNext
<1> QED BY <1>1, <1>2, MatchInvariant, PTL DEF EmitSpec

\* Every reference that is written resolves in the corpus it was written against.
THEOREM GuardsAlwaysHold == EmitSpec => []GuardsHold
<1>1. OutInv => GuardsHold
  BY DEF OutInv
<1> QED BY <1>1, OutInvariant, PTL

-----------------------------------------------------------------------------
(* What the pieces expand to.                                              *)

\* The lines of a file on disk.
LEMMA DiskLines ==
    ASSUME Typed, NEW f \in DOMAIN corpus PROVE Disk(f) \in Seq(Line)
<1>1. corpus[f] \in File
  BY ElementOfSeq, LenProperties DEF Typed
<1> QED BY <1>1, CorpusLinesType DEF Disk

\* A reference to lines of a file expands to them.
IsPlain(piece, f, from, to) ==
    /\ Expand(piece) \in Seq(Line) /\ Len(Expand(piece)) = to - from + 1
    /\ \A j \in 1..(to - from + 1) : Expand(piece)[j] = Disk(f)[from + j - 1]

LEMMA PlainRefIs ==
    ASSUME Typed, NEW f \in DOMAIN corpus, NEW from \in Nat, NEW to \in Nat,
           from \in DOMAIN Disk(f), to \in DOMAIN Disk(f), from <= to
    PROVE  IsPlain(Reference(RefOf(f, from, to, FALSE, <<>>, <<>>)), f, from, to)
<1> DEFINE piece == Reference(RefOf(f, from, to, FALSE, <<>>, <<>>))
<1>1. Expand(piece) = SubSeq(Disk(f), from, to)
  BY DEF Expand, Reference, RefOf, Transform, Run
<1>2. Disk(f) \in Seq(Line) /\ 1 <= from /\ to <= Len(Disk(f))
  BY DiskLines, LenProperties
<1>3. /\ SubSeq(Disk(f), from, to) \in Seq(Line)
      /\ Len(SubSeq(Disk(f), from, to)) = IF from <= to THEN to - from + 1 ELSE 0
      /\ \A j \in 1..(to - from + 1) : SubSeq(Disk(f), from, to)[j] = Disk(f)[from + j - 1]
  BY <1>2, PartOfSeq
<1> HIDE DEF piece
<1>4. IsPlain(piece, f, from, to)
  BY <1>1, <1>3 DEF IsPlain
<1> QED BY <1>4 DEF piece

\* A padded reference to one line expands to its code between the blanks.
IsPadded(piece, f, c, a, b) ==
    /\ Expand(piece) \in Seq(Line) /\ Len(Expand(piece)) = 1
    /\ Expand(piece)[1] = Pad(a, TrimBlanks(Disk(f)[c]), b)
    /\ Disk(f)[c] \in Line

LEMMA PaddedRefIs ==
    ASSUME Typed, NEW f \in DOMAIN corpus, NEW c \in Nat, c \in DOMAIN Disk(f),
           NEW a \in Seq(Blank), NEW b \in Seq(Blank)
    PROVE  IsPadded(Reference(RefOf(f, c, c, TRUE, a, b)), f, c, a, b)
<1> DEFINE piece == Reference(RefOf(f, c, c, TRUE, a, b))
<1> DEFINE run == SubSeq(Disk(f), c, c)
<1>1. Expand(piece) = [i \in DOMAIN run |-> Pad(a, TrimBlanks(run[i]), b)]
  BY DEF Expand, Reference, RefOf, Transform, Run
<1> HIDE DEF piece
<1>2. Disk(f) \in Seq(Line) /\ 1 <= c /\ c <= Len(Disk(f)) /\ Disk(f)[c] \in Line
  BY DiskLines, LenProperties, ElementOfSeq
<1>3. run \in Seq(Line) /\ Len(run) = 1 /\ run[1] = Disk(f)[c]
  <2>1. /\ run \in Seq(Line) /\ Len(run) = IF c <= c THEN c - c + 1 ELSE 0
        /\ \A i \in 1..(c - c + 1) : run[i] = Disk(f)[c + i - 1]
    BY <1>2, PartOfSeq
  <2>2. c - c + 1 = 1 /\ c + 1 - 1 = c /\ 1 \in 1..(c - c + 1)
    OBVIOUS
  <2> HIDE DEF run
  <2> QED BY <2>1, <2>2
<1> HIDE DEF run
<1>4. DOMAIN run = 1..1 /\ run[1] \in Line
  BY <1>2, <1>3, LenProperties
<1>5. Pad(a, TrimBlanks(run[1]), b) \in Line
  BY <1>4, PadType
<1>6. Expand(piece) \in [1..1 -> Line]
  <2>1. \A i \in 1..1 : i = 1
    OBVIOUS
  <2> QED BY <1>1, <1>4, <1>5, <2>1
<1>7. Expand(piece) \in Seq(Line) /\ Len(Expand(piece)) = 1
  BY <1>6, FunctionIsSeq
<1>8. Expand(piece)[1] = Pad(a, TrimBlanks(Disk(f)[c]), b)
  <2>1. 1 \in DOMAIN run
    BY <1>4
  <2> QED BY <1>1, <1>3, <2>1
<1>9. IsPadded(piece, f, c, a, b)
  BY <1>2, <1>7, <1>8 DEF IsPadded
<1> QED BY <1>9 DEF piece

-----------------------------------------------------------------------------
(* They expand to the block.                                               *)

Expansions == [n \in DOMAIN out |-> Expand(out[n])]

BlockInv ==
    /\ pos \in Nat \ {0}
    /\ ~TextIsRead => Expansions \in Seq(Seq(Line)) /\ Len(Expansions) = Len(out)
    /\ ExpandsToBlock
    /\ todo # {} => pos = 1
    /\ ~normalized => \A r \in runs : pos <= r.block_begin \/ r.block_end <= pos

\* Writing a piece that stands for the next n lines.
Stands(piece, n) ==
    /\ Expand(piece) \in Seq(Line) /\ Len(Expand(piece)) = n
    /\ \A j \in 1..n : Reproduces(Expand(piece)[j], block[pos + j - 1])

\* One piece more.
LEMMA WriteAppends ==
    ASSUME OutInv, NEW piece, NEW n, Write(piece, n)
    PROVE  /\ Len(out) \in Nat /\ DOMAIN out = 1..Len(out)
           /\ DOMAIN out' = 1..(Len(out) + 1) /\ Len(out') = Len(out) + 1
           /\ \A m \in 1..(Len(out) + 1) : out'[m] = IF m = Len(out) + 1 THEN piece ELSE out[m]
<1>1. PICK S : out \in Seq(S)
  BY DEF OutInv
<1>2. out \in Seq(S \cup {piece}) /\ piece \in S \cup {piece}
  BY <1>1, SeqMonotonic
<1>3. /\ Append(out, piece) \in Seq(S \cup {piece}) /\ Len(Append(out, piece)) = Len(out) + 1
      /\ \A m \in 1..(Len(out) + 1) :
            Append(out, piece)[m] = IF m = Len(out) + 1 THEN piece ELSE out[m]
  BY <1>2, AppendProperties
<1>4. out' = Append(out, piece)
  BY DEF Write
<1> QED BY <1>1, <1>3, <1>4, LenProperties

\* Nothing written so far reads as a directive if nothing does afterwards, and the
\* piece does not.
LEMMA WriteReads ==
    ASSUME OutInv, NEW piece, NEW n, Write(piece, n), ~TextIsRead'
    PROVE  ~TextIsRead /\ (~piece.ref => ~IsDirective(piece.line))
<1>1. /\ Len(out) \in Nat /\ DOMAIN out = 1..Len(out) /\ DOMAIN out' = 1..(Len(out) + 1)
      /\ \A m \in 1..(Len(out) + 1) : out'[m] = IF m = Len(out) + 1 THEN piece ELSE out[m]
  BY WriteAppends
<1>2. \A m \in DOMAIN out' : ~out'[m].ref => ~IsDirective(out'[m].line)
  BY DEF TextIsRead, IsDirective
<1>3. \A m \in DOMAIN out : m \in DOMAIN out' /\ out'[m] = out[m]
  BY <1>1
<1>4. Len(out) + 1 \in DOMAIN out' /\ out'[Len(out) + 1] = piece
  BY <1>1
<1> QED BY <1>2, <1>3, <1>4, Zenon DEF TextIsRead

LEMMA WriteExpands ==
    ASSUME OutInv, BlockInv, NEW piece, NEW n \in Nat, Write(piece, n), Stands(piece, n),
           ~TextIsRead
    PROVE  /\ Expansions' \in Seq(Seq(Line)) /\ Len(Expansions') = Len(out')
           /\ ExpandsToBlock'
<1>1. out' = Append(out, piece) /\ pos' = pos + n /\ UNCHANGED input
  BY DEF Write
<1>2. block' = block /\ normalized' = normalized /\ \A x : Expand(x)' = Expand(x)
  BY <1>1, SameInput DEF Expand, Disk, ReadPiece, IsDirective
<1>4. /\ Len(out) \in Nat /\ DOMAIN out = 1..Len(out)
      /\ DOMAIN out' = 1..(Len(out) + 1) /\ Len(out') = Len(out) + 1
      /\ \A m \in 1..(Len(out) + 1) : out'[m] = IF m = Len(out) + 1 THEN piece ELSE out[m]
  BY WriteAppends
<1> DEFINE u == Expansions
           v == Expansions'
           e == Expand(piece)
<1>5. /\ u \in Seq(Seq(Line)) /\ Len(u) = Len(out) /\ e \in Seq(Line) /\ Len(e) = n
      /\ \A j \in 1..n : Reproduces(e[j], block[pos + j - 1])
  BY DEF BlockInv, Stands
<1>6. /\ v = [m \in 1..(Len(out) + 1) |-> Expand(out'[m])]
      /\ \A m \in 1..Len(out) : u[m] = Expand(out[m])
  BY <1>2, <1>4 DEF Expansions
<1>7. \A m \in 1..(Len(out) + 1) : v[m] = IF m = Len(out) + 1 THEN e ELSE u[m]
  BY <1>4, <1>6
<1>8. Expanded = FlattenSeq(u) /\ Expanded' = FlattenSeq(v)
  BY DEF Expanded, Expansions
<1>20. v = [m \in 1..(Len(out) + 1) |-> v[m]]
  BY <1>6
<1> HIDE DEF u, v, e
<1>9. v = Append(u, e)
  <2>1. /\ Append(u, e) \in Seq(Seq(Line)) /\ Len(Append(u, e)) = Len(out) + 1
        /\ \A m \in 1..(Len(out) + 1) : Append(u, e)[m] = IF m = Len(out) + 1 THEN e ELSE u[m]
    BY <1>5, AppendProperties
  <2>2. Append(u, e) = [m \in 1..(Len(out) + 1) |-> Append(u, e)[m]]
    BY <1>4, <2>1, LenProperties
  <2>3. \A m \in 1..(Len(out) + 1) : Append(u, e)[m] = v[m]
    BY <1>7, <2>1
  <2> QED BY <1>20, <2>2, <2>3
<1>10. v \in Seq(Seq(Line)) /\ Len(v) = Len(out')
  BY <1>4, <1>5, <1>9, AppendProperties
<1>11. Expanded' = Expanded \o e /\ Expanded \in Seq(Line)
  BY <1>5, <1>8, <1>9, FlattenAppend
<1>12. Len(Expanded) = pos - 1 /\ pos \in Nat \ {0}
       /\ \A i \in DOMAIN Expanded : Reproduces(Expanded[i], block[i])
  BY DEF BlockInv, ExpandsToBlock
<1>13. Expanded' \in Seq(Line) /\ Len(Expanded') = pos - 1 + n
       /\ \A i \in 1..(pos - 1 + n) :
             Expanded'[i] = IF i <= pos - 1 THEN Expanded[i] ELSE e[i - (pos - 1)]
  <2>1. /\ Expanded \o e \in Seq(Line) /\ Len(Expanded \o e) = Len(Expanded) + Len(e)
        /\ \A i \in 1..(Len(Expanded) + Len(e)) :
              (Expanded \o e)[i] = IF i <= Len(Expanded) THEN Expanded[i] ELSE e[i - Len(Expanded)]
    BY <1>5, <1>11, ConcatProperties
  <2> HIDE DEF Expanded
  <2> QED BY <1>5, <1>11, <1>12, <2>1
<1>14. ASSUME NEW i \in 1..(pos - 1 + n) PROVE Reproduces(Expanded'[i], block[i])
  <2>1. CASE i <= pos - 1
    <3>1. i \in DOMAIN Expanded
      BY <1>11, <1>12, <2>1, LenProperties
    <3> QED BY <1>12, <1>13, <2>1, <3>1
  <2>2. CASE i > pos - 1
    <3>1. i - (pos - 1) \in 1..n /\ pos + (i - (pos - 1)) - 1 = i
      BY <1>12, <2>2
    <3>2. Reproduces(e[i - (pos - 1)], block[i])
      BY <1>5, <3>1
    <3>3. Expanded'[i] = e[i - (pos - 1)]
      <4>1. ~(i <= pos - 1)
        BY <1>12, <2>2
      <4>2. Expanded'[i] = IF i <= pos - 1 THEN Expanded[i] ELSE e[i - (pos - 1)]
        BY <1>13
      <4> QED BY <4>1, <4>2
    <3> QED BY <3>2, <3>3
  <2> QED BY <1>12, <2>1, <2>2
<1>15. ExpandsToBlock'
  <2>1. DOMAIN Expanded' = 1..(pos - 1 + n) /\ pos + n - 1 = pos - 1 + n
    BY <1>12, <1>13, LenProperties
  <2>2. ASSUME NEW i \in DOMAIN Expanded' PROVE Reproduces(Expanded[i], block[i])'
    <3>1. Reproduces(Expanded'[i], block[i])
      BY <1>14, <2>1
    <3> QED BY <1>2, <3>1 DEF Reproduces, Feeds
  <2>3. Len(Expanded') = pos' - 1
    BY <1>1, <1>12, <1>13, <2>1
  <2> QED BY <2>2, <2>3 DEF ExpandsToBlock
<1> QED BY <1>10, <1>15 DEF v

\* The keys of normalized lines decide what a padded reference may stand for.
LEMMA ChompKeepsCore ==
    ASSUME NEW l \in Line PROVE Chomp(l).core = l.core
BY DEF Chomp, Line

LEMMA ChompKeepsFeeds ==
    ASSUME NEW l \in Line, Feeds(l.trail) = {}
    PROVE  Chomp(l).lead = l.lead /\ Feeds(Chomp(l).trail) = {}
<1>1. Chomp(l).lead = l.lead
  BY DEF Chomp, Line
<1>2. l.trail \in Seq(Blank) /\ Len(l.trail) \in Nat
  BY LenProperties DEF Line
<1>3. CASE l.trail # <<>> /\ l.trail[Len(l.trail)] = "cr"
  <2> DEFINE t == SubSeq(l.trail, 1, Len(l.trail) - 1)
  <2>1. /\ t \in Seq(Blank) /\ Len(t) = (IF 1 <= Len(l.trail) - 1 THEN Len(l.trail) - 1 - 1 + 1 ELSE 0)
        /\ \A i \in 1..(Len(l.trail) - 1 - 1 + 1) : t[i] = l.trail[1 + i - 1]
    BY <1>2, PartOfSeq
  <2>2. Chomp(l).trail = t
    BY <1>3 DEF Chomp, Line
  <2> HIDE DEF t
  <2>3. DOMAIN t = 1..Len(t) /\ DOMAIN l.trail = 1..Len(l.trail)
    BY <1>2, <2>1, LenProperties
  <2>4. \A i \in DOMAIN t : i \in DOMAIN l.trail /\ t[i] = l.trail[i]
    BY <1>2, <2>1, <2>3
  <2>5. Feeds(t) = {}
    BY <2>4 DEF Feeds
  <2> QED BY <1>1, <2>2, <2>5
<1>4. CASE ~(l.trail # <<>> /\ l.trail[Len(l.trail)] = "cr")
  <2>1. Chomp(l) = l
    BY <1>4 DEF Chomp
  <2> QED BY <1>1, <2>1
<1> QED BY <1>3, <1>4

\* The feeds in a key are those of the line.
LEMMA FeedsInKey ==
    ASSUME NEW s \in Seq(Blank)
    PROVE  /\ Feeds(FeedsOf(s)) = {} => Feeds(s) = {}
           /\ Feeds(s) = {} => FeedsOf(s) = <<>>
<1>1. Len(s) \in Nat /\ Feeds(s) \subseteq 1..Len(s)
  BY LenProperties DEF Feeds
<1>2. IsFiniteSet(Feeds(s)) /\ Cardinality(Feeds(s)) \in Nat
  <2>1. IsFiniteSet(1..Len(s))
    BY <1>1, FS_Interval
  <2>2. IsFiniteSet(Feeds(s))
    BY <1>1, <2>1, FS_Subset
  <2> QED BY <2>2, FS_CardinalityType
<1>3. Cardinality(Feeds(s)) = 0 <=> Feeds(s) = {}
  BY <1>2, FS_EmptySet
<1>4. ASSUME Feeds(FeedsOf(s)) = {} PROVE Feeds(s) = {}
  <2>1. 1 \notin 1..Cardinality(Feeds(s))
    BY <1>4 DEF FeedsOf, Feeds
  <2> QED BY <1>2, <1>3, <2>1
<1>5. ASSUME Feeds(s) = {} PROVE FeedsOf(s) = <<>>
  BY <1>3, <1>5 DEF FeedsOf
<1> QED BY <1>4, <1>5

LEMMA PaddedReproduces ==
    ASSUME Typed, normalized, NEW i \in DOMAIN block, NEW d \in Line, KeyOf(d, TRUE) = Key(i),
           d.core # NoCore
    PROVE  Reproduces(Pad(block[i].lead, TrimBlanks(d), block[i].trail), block[i])
<1> DEFINE b == block[i]
<1>1. b \in Line /\ b.core \in Core /\ b.lead \in Seq(Blank) /\ b.trail \in Seq(Blank)
      /\ d.core \in Core /\ d.lead \in Seq(Blank) /\ d.trail \in Seq(Blank)
  <2>1. b \in Line
    BY LenProperties, ElementOfSeq DEF Typed
  <2> HIDE DEF b
  <2> QED BY <2>1 DEF Line
<1> DEFINE t == TrimBlanks(d)
           l == Pad(b.lead, t, b.trail)
<1>2. t.lead = StripLead(d.lead) /\ t.core = d.core /\ t.trail = StripTrail(d.trail)
  BY DEF TrimBlanks, Line
<1>3. l.lead = b.lead \o t.lead /\ l.core = d.core /\ l.trail = t.trail \o b.trail
  BY <1>2 DEF Pad, PadLine
<1> DEFINE k == KeyOf(d, TRUE)
           m == KeyOf(b, TRUE)
<1>4. /\ k.lead = FeedsOf(d.lead) /\ k.core = TokenKey[d.core] /\ k.trail = FeedsOf(d.trail)
      /\ m.lead = FeedsOf(b.lead) /\ m.core = TokenKey[b.core] /\ m.trail = FeedsOf(b.trail)
  BY DEF KeyOf
<1>5. k = Chomp(b) \/ k = m
  BY DEF Key
<1> HIDE DEF b, t, l, k, m
<1>6. TokenKey[d.core] = TokenKey[b.core]
  <2>1. CASE k = Chomp(b)
    <3>1. TokenKey[d.core] = b.core
      BY <1>1, <1>4, <2>1, ChompKeepsCore
    <3>2. TokenKey[TokenKey[d.core]] = TokenKey[d.core]
      BY <1>1, FactorizeAssumption
    <3> QED BY <3>1, <3>2
  <2>2. CASE k = m
    BY <1>4, <2>2
  <2> QED BY <1>5, <2>1, <2>2
<1>7. ASSUME Feeds(b.lead) = {}, Feeds(b.trail) = {} PROVE Feeds(d.lead) = {} /\ Feeds(d.trail) = {}
  <2>1. Feeds(<<>>) = {}
    BY DEF Feeds
  <2>2. Feeds(FeedsOf(d.lead)) = {} /\ Feeds(FeedsOf(d.trail)) = {}
    <3>1. CASE k = Chomp(b)
      BY <1>1, <1>4, <1>7, <3>1, ChompKeepsFeeds
    <3>2. CASE k = m
      <4>1. FeedsOf(b.lead) = <<>> /\ FeedsOf(b.trail) = <<>>
        BY <1>1, <1>7, FeedsInKey
      <4> QED BY <1>4, <2>1, <3>2, <4>1
    <3> QED BY <1>5, <3>1, <3>2
  <2> QED BY <1>1, <2>2, FeedsInKey
<1>8. ASSUME Feeds(b.lead) \cup Feeds(b.trail) = {} PROVE l.lead = b.lead /\ l.trail = b.trail
  <2>1. Feeds(b.lead) = {} /\ Feeds(b.trail) = {}
    BY <1>8
  <2>2. t.lead = <<>> /\ t.trail = <<>>
    BY <1>1, <1>2, <1>7, <2>1, TrimmedSides
  <2>3. b.lead \o <<>> = b.lead /\ <<>> \o b.trail = b.trail
    BY <1>1, ConcatEmptySeq
  <2> QED BY <1>3, <2>2, <2>3
<1>9. Reproduces(l, b)
  BY <1>3, <1>6, <1>8 DEF Reproduces
<1> QED BY <1>9 DEF b, t, l

\* A line that is written as it is stands for itself, unless it reads as a directive.
LEMMA LiteralStands ==
    ASSUME Typed, pos \in Nat \ {0}, Writing, ~IsDirective(block[pos])
    PROVE  Stands(Literal(block[pos]), 1)
<1>1. block[pos] \in Line
  BY ElementOfSeq DEF Typed, Writing
<1>2. Expand(Literal(block[pos])) = <<block[pos]>>
  BY DEF Expand, Literal, ReadPiece
<1>3. \A j \in 1..1 : j = 1 /\ pos + j - 1 = pos
  OBVIOUS
<1> QED BY <1>1, <1>2, <1>3 DEF Stands, Reproduces

\* So does a reference to lines that are the block's.
LEMMA CopyStands ==
    ASSUME Typed, pos \in Nat \ {0}, NEW f \in DOMAIN corpus, NEW c \in Nat, NEW n \in Nat \ {0},
           c \in DOMAIN Disk(f), c + n - 1 \in DOMAIN Disk(f),
           \A j \in 1..n : Disk(f)[c + j - 1] = block[pos + j - 1]
    PROVE  Stands(Reference(RefOf(f, c, c + n - 1, FALSE, <<>>, <<>>)), n)
<1> DEFINE piece == Reference(RefOf(f, c, c + n - 1, FALSE, <<>>, <<>>))
           to == c + n - 1
<1>1. to \in Nat /\ c <= to /\ to - c + 1 = n
  OBVIOUS
<1>2. /\ Expand(piece) \in Seq(Line) /\ Len(Expand(piece)) = to - c + 1
      /\ \A j \in 1..(to - c + 1) : Expand(piece)[j] = Disk(f)[c + j - 1]
  <2> HIDE DEF to
  <2>1. to \in DOMAIN Disk(f)
    BY DEF to
  <2>2. IsPlain(Reference(RefOf(f, c, to, FALSE, <<>>, <<>>)), f, c, to)
    BY <1>1, <2>1, PlainRefIs, Zenon
  <2> QED BY <2>2 DEF IsPlain, to
<1> HIDE DEF piece, to
<1>3. Stands(piece, n)
  BY <1>1, <1>2 DEF Stands, Reproduces
<1> QED BY <1>3 DEF piece, to

\* Where the pieces of the actions that write references stand.
LEMMA RunStands ==
    ASSUME MatchInv, BlockInv, NEW r \in runs, WriteRun(r)
    PROVE  /\ pos = r.block_begin /\ Length(r) \in Nat \ {0}
           /\ Stands(Reference(RefOf(r.file_id, r.corpus_begin, r.corpus_end, FALSE, <<>>, <<>>)),
                     Length(r))
<1>1. IsCopy(r) /\ Typed /\ ~normalized /\ Within(r)
  BY DEF MatchInv, WriteRun
<1>2. /\ r.file_id \in DOMAIN corpus /\ Length(r) \in Nat \ {0}
      /\ r.block_begin \in Nat /\ r.block_end \in Nat
      /\ r.corpus_begin \in Nat /\ r.corpus_end \in Nat
      /\ r.corpus_end = r.corpus_begin + Length(r) - 1
      /\ pos \in Nat \ {0} /\ r.block_end = r.block_begin + Length(r)
  <2>1. /\ r.file_id \in DOMAIN corpus
        /\ r.block_begin \in Nat /\ r.block_end \in Nat
        /\ r.corpus_begin \in Nat /\ r.corpus_end \in Nat
    BY <1>1 DEF IsCopy, RunType
  <2>2. r.block_begin < r.block_end /\ Length(r) = r.corpus_end - r.corpus_begin + 1
        /\ Length(r) = r.block_end - r.block_begin
    BY <1>1 DEF IsCopy, Length
  <2>3. pos \in Nat \ {0}
    BY DEF BlockInv
  <2> QED BY <2>1, <2>2, <2>3
<1>3. pos = r.block_begin
  BY <1>1, <1>2 DEF BlockInv, Within
<1>4. ASSUME NEW j \in 1..Length(r)
      PROVE  /\ r.corpus_begin + j - 1 \in DOMAIN Disk(r.file_id)
             /\ Disk(r.file_id)[r.corpus_begin + j - 1] = block[pos + j - 1]
  <2>1. /\ j - 1 \in 0..(Length(r) - 1)
        /\ r.corpus_begin + (j - 1) = r.corpus_begin + j - 1
        /\ r.block_begin + (j - 1) = pos + j - 1
    BY <1>2, <1>3
  <2>2. Equal(r.block_begin + (j - 1), r.file_id, r.corpus_begin + (j - 1))
    BY <1>1, <2>1 DEF IsCopy
  <2> QED BY <1>1, <2>1, <2>2 DEF Equal
<1>5. r.corpus_begin \in DOMAIN Disk(r.file_id)
      /\ r.corpus_begin + Length(r) - 1 \in DOMAIN Disk(r.file_id)
  <2>1. 1 \in 1..Length(r) /\ Length(r) \in 1..Length(r) /\ r.corpus_begin + 1 - 1 = r.corpus_begin
    BY <1>2
  <2> QED BY <1>4, <2>1
<1>6. Stands(Reference(RefOf(r.file_id, r.corpus_begin, r.corpus_begin + Length(r) - 1,
                             FALSE, <<>>, <<>>)), Length(r))
  BY <1>1, <1>2, <1>4, <1>5, CopyStands
<1> QED BY <1>2, <1>3, <1>6

LEMMA ExactStands ==
    ASSUME MatchInv, BlockInv, NEW r \in runs, WriteExact(r), NEW c, c = CorpusLineOf(r, pos)
    PROVE  /\ Stretch(r) \in Nat \ {0}
           /\ Stands(Reference(RefOf(r.file_id, c, c + Stretch(r) - 1, FALSE, <<>>, <<>>)),
                     Stretch(r))
<1> DEFINE n == Stretch(r)
<1>1. Typed /\ Within(r) /\ Exact(r, pos) /\ pos \in Nat \ {0}
  BY DEF MatchInv, WriteExact, BlockInv
<1>2. /\ n \in Nat \ {0} /\ pos + n <= r.block_end
      /\ \A i \in pos..(pos + n - 1) : Exact(r, i)
  BY <1>1, StretchIs
<1> HIDE DEF n
<1>3. /\ r.file_id \in DOMAIN corpus /\ r.block_begin <= pos /\ pos < r.block_end
      /\ r.block_begin \in Nat /\ r.block_end \in Nat /\ r.corpus_begin \in Nat
      /\ \A i \in Nat : r.block_begin <= i /\ i < r.block_end =>
            CorpusLineOf(r, i) \in DOMAIN Disk(r.file_id) /\ CorpusLineOf(r, i) \in Nat
  BY <1>1, RunLines DEF Within
<1>4. ASSUME NEW j \in 1..n
      PROVE  /\ c + j - 1 \in DOMAIN Disk(r.file_id)
             /\ Disk(r.file_id)[c + j - 1] = block[pos + j - 1]
  <2>1. pos + j - 1 \in pos..(pos + n - 1) /\ pos + j - 1 \in Nat
        /\ r.block_begin <= pos + j - 1 /\ pos + j - 1 < r.block_end
    BY <1>1, <1>2, <1>3
  <2>2. c + j - 1 = CorpusLineOf(r, pos + j - 1)
    BY <1>1, <1>3 DEF CorpusLineOf
  <2>3. CorpusLineOf(r, pos + j - 1) \in DOMAIN Disk(r.file_id)
    BY <1>3, <2>1
  <2>4. Exact(r, pos + j - 1)
    BY <1>2, <2>1
  <2> QED BY <2>2, <2>3, <2>4 DEF Exact
<1>5. c \in Nat /\ c \in DOMAIN Disk(r.file_id) /\ c + n - 1 \in DOMAIN Disk(r.file_id)
  <2>1. c \in Nat /\ c \in DOMAIN Disk(r.file_id)
    BY <1>1, <1>3
  <2>2. n \in 1..n
    BY <1>2
  <2> QED BY <1>4, <2>1, <2>2
<1>6. Stands(Reference(RefOf(r.file_id, c, c + n - 1, FALSE, <<>>, <<>>)), n)
  BY <1>1, <1>2, <1>3, <1>4, <1>5, CopyStands
<1> QED BY <1>2, <1>6 DEF n

LEMMA PaddedStands ==
    ASSUME MatchInv, BlockInv, NEW r \in runs, WritePadded(r), NEW c, c = CorpusLineOf(r, pos)
    PROVE  Stands(Reference(RefOf(r.file_id, c, c, TRUE, block[pos].lead, block[pos].trail)), 1)
<1> DEFINE piece == Reference(RefOf(r.file_id, c, c, TRUE, block[pos].lead, block[pos].trail))
           d == Disk(r.file_id)[c]
<1>1. Typed /\ IsCopy(r) /\ Within(r) /\ normalized /\ pos \in Nat \ {0} /\ d.core # NoCore
      /\ Writing
  BY DEF MatchInv, WritePadded, BlockInv
<1>2. /\ r.file_id \in DOMAIN corpus /\ r.block_begin <= pos /\ pos < r.block_end
      /\ r.block_begin \in Nat /\ r.block_end \in Nat /\ r.corpus_begin \in Nat
      /\ c \in DOMAIN Disk(r.file_id) /\ c \in Nat
  BY <1>1, RunLines DEF Within
<1>3. block[pos] \in Line /\ pos \in DOMAIN block
  BY <1>1, ElementOfSeq, LenProperties DEF Typed, Writing
<1>4. block[pos].lead \in Seq(Blank) /\ block[pos].trail \in Seq(Blank)
  BY <1>3 DEF Line
<1>5. /\ Expand(piece) \in Seq(Line) /\ Len(Expand(piece)) = 1 /\ d \in Line
      /\ Expand(piece)[1] = Pad(block[pos].lead, TrimBlanks(d), block[pos].trail)
  <2>1. c \in DOMAIN Disk(r.file_id) /\ Typed
    BY <1>1, <1>2
  <2>2. IsPadded(piece, r.file_id, c, block[pos].lead, block[pos].trail)
    BY <1>2, <1>4, <2>1, PaddedRefIs, Zenon
  <2> HIDE DEF piece
  <2> QED BY <2>2 DEF IsPadded
<1>6. KeyOf(d, TRUE) = Key(pos)
  <2>1. pos - r.block_begin \in 0..(Length(r) - 1) /\ r.block_begin + (pos - r.block_begin) = pos
        /\ r.corpus_begin + (pos - r.block_begin) = c
    BY <1>1, <1>2 DEF Length, CorpusLineOf
  <2>2. Equal(r.block_begin + (pos - r.block_begin), r.file_id,
              r.corpus_begin + (pos - r.block_begin))
    BY <1>1, <2>1 DEF IsCopy
  <2>3. Equal(pos, r.file_id, c)
    BY <2>1, <2>2
  <2> QED BY <1>1, <2>3 DEF Equal
<1> HIDE DEF piece, d
<1>7. Reproduces(Expand(piece)[1], block[pos])
  BY <1>1, <1>3, <1>5, <1>6, PaddedReproduces
<1>8. \A j \in 1..1 : j = 1 /\ pos + j - 1 = pos
  BY <1>1
<1>9. Stands(piece, 1)
  BY <1>5, <1>7, <1>8 DEF Stands
<1> QED BY <1>9 DEF piece

LEMMA BlockInit == EmitInit => BlockInv
<1> SUFFICES ASSUME EmitInit PROVE BlockInv
  OBVIOUS
<1>1. out = <<>> /\ pos = 1 /\ runs = {}
  BY DEF EmitInit, Init
<1>2. Expansions = <<>> /\ Expanded = <<>>
  <2>1. Expansions = <<>>
    BY <1>1 DEF Expansions
  <2>2. Expanded = FlattenSeq(Expansions)
    BY DEF Expanded, Expansions
  <2> QED BY <2>1, <2>2, FlattenNone
<1>3. <<>> \in Seq(Seq(Line)) /\ Len(<<>>) = 0 /\ DOMAIN <<>> = {}
  OBVIOUS
<1>4. ExpandsToBlock
  BY <1>1, <1>2, <1>3 DEF ExpandsToBlock
<1> QED BY <1>1, <1>2, <1>3, <1>4 DEF BlockInv

\* While the runs are being sought nothing is written.
LEMMA MatchKeepsBlock ==
    ASSUME MatchInv, MatchInv', BlockInv, Match, UNCHANGED <<hash, pos, out>> PROVE BlockInv'
<1>1. PICK i \in DOMAIN block : PassOver(i) \/ TakeRun(i)
  BY DEF Match
<1>2. i \in todo /\ UNCHANGED input
  BY <1>1 DEF PassOver, TakeRun, NextAnchor
<1>3. pos = 1 /\ pos' = pos /\ out' = out
  BY <1>2 DEF BlockInv
<1>4. normalized' = normalized /\ block' = block /\ \A x : Expand(x)' = Expand(x)
  BY <1>2, SameInput DEF Expand, Disk, ReadPiece, IsDirective
<1>5. Expansions' = Expansions /\ Expanded' = Expanded /\ TextIsRead' = TextIsRead
  BY <1>3, <1>4 DEF Expansions, Expanded, TextIsRead, IsDirective
<1>6. ExpandsToBlock'
  BY <1>3, <1>4, <1>5 DEF BlockInv, ExpandsToBlock, Reproduces, Feeds
<1>7. ASSUME NEW r \in runs' PROVE pos' <= r.block_begin
  <2>1. IsCopy(r) /\ Typed
    BY <1>2, SameInput DEF MatchInv
  <2>2. r.block_begin \in Nat /\ r.block_begin \in r.block_begin..(r.block_end - 1)
    <3>1. r.block_begin \in Nat /\ r.block_end \in Nat /\ r.block_begin < r.block_end
      BY <2>1 DEF IsCopy, RunType
    <3> QED BY <3>1
  <2>3. r.block_begin \in DOMAIN block
    BY <2>1, <2>2, CopyIsInBlock
  <2> QED BY <1>3, <2>1, <2>2, <2>3, LenProperties DEF Typed
<1> QED BY <1>3, <1>5, <1>6, <1>7 DEF BlockInv

\* Writing at a place that is in no run, or all of a run, leaves the next place in
\* no run's middle.
LEMMA WriteKeepsBlock ==
    ASSUME MatchInv, OutInv, BlockInv, Writing, NEW piece, NEW n \in Nat, Write(piece, n),
           ~piece.ref => (~IsDirective(piece.line) => Stands(piece, n)),
           piece.ref => Stands(piece, n),
           ~normalized => \A r \in runs : pos + n <= r.block_begin \/ r.block_end <= pos + n
    PROVE  BlockInv'
<1>1. ASSUME ~TextIsRead'
      PROVE  /\ Expansions' \in Seq(Seq(Line)) /\ Len(Expansions') = Len(out')
             /\ ExpandsToBlock'
  <2>1. ~TextIsRead /\ (~piece.ref => ~IsDirective(piece.line))
    BY <1>1, WriteReads
  <2>2. Stands(piece, n)
    BY <2>1
  <2> QED BY <2>1, <2>2, WriteExpands
<1>4. TextIsRead' => ExpandsToBlock'
  BY DEF ExpandsToBlock
<1>2. pos' = pos + n /\ UNCHANGED input /\ UNCHANGED matching
  BY DEF Write
<1>5. pos' \in Nat \ {0}
  BY <1>2 DEF BlockInv
<1>3. todo' = {} /\ runs' = runs /\ normalized' = normalized
  BY <1>2, SameInput DEF Writing, matching
<1> QED BY <1>1, <1>2, <1>3, <1>4, <1>5 DEF BlockInv

LEMMA BlockNext == ASSUME MatchInv, MatchInv', OutInv, BlockInv, [Next]_vars PROVE BlockInv'
<1>1. ASSUME WriteLiteral PROVE BlockInv'
  <2>1. Writing /\ Write(Literal(block[pos]), 1) /\ \A r \in runs : ~Within(r)
    BY <1>1 DEF WriteLiteral
  <2>2. ~IsDirective(block[pos]) => Stands(Literal(block[pos]), 1)
    BY <2>1, LiteralStands DEF MatchInv, BlockInv
  <2>4. ~Literal(block[pos]).ref /\ Literal(block[pos]).line = block[pos]
    BY DEF Literal
  <2>3. ASSUME NEW r \in runs, ~normalized
        PROVE  pos + 1 <= r.block_begin \/ r.block_end <= pos + 1
    <3>1. r.block_begin \in Nat /\ r.block_end \in Nat /\ pos \in Nat
      BY RunLines DEF BlockInv
    <3>2. ~(r.block_begin <= pos /\ pos < r.block_end)
      BY <2>1 DEF Within
    <3> QED BY <3>1, <3>2
  <2> QED BY <2>1, <2>2, <2>3, <2>4, WriteKeepsBlock
<1>2. ASSUME NEW r \in runs, WriteRun(r) PROVE BlockInv'
  <2> DEFINE piece ==
        Reference(RefOf(r.file_id, r.corpus_begin, r.corpus_end, FALSE, <<>>, <<>>))
  <2>1. Writing /\ Write(piece, Length(r))
    BY <1>2 DEF WriteRun
  <2>2. pos = r.block_begin /\ Length(r) \in Nat \ {0} /\ Stands(piece, Length(r))
    BY <1>2, RunStands
  <2>3. ASSUME NEW s \in runs
        PROVE  pos + Length(r) <= s.block_begin \/ s.block_end <= pos + Length(r)
    <3>1. /\ r.block_begin \in Nat /\ r.block_end \in Nat
          /\ s.block_begin \in Nat /\ s.block_end \in Nat
      BY RunLines
    <3>2. pos + Length(r) = r.block_end /\ r.block_begin <= r.block_end
      BY <2>2, <3>1 DEF Length
    <3>3. s = r \/ r.block_end <= s.block_begin \/ s.block_end <= r.block_begin
      BY DEF MatchInv, RunsAreDisjoint
    <3> QED BY <3>1, <3>2, <3>3
  <2>5. piece.ref
    BY DEF Reference
  <2> HIDE DEF piece
  <2>4. Length(r) \in Nat
    BY <2>2
  <2> QED BY <2>1, <2>2, <2>3, <2>4, <2>5, WriteKeepsBlock
<1>3. ASSUME NEW r \in runs, WriteExact(r) PROVE BlockInv'
  <2> DEFINE c == CorpusLineOf(r, pos)
             piece == Reference(RefOf(r.file_id, c, c + Stretch(r) - 1, FALSE, <<>>, <<>>))
  <2>1. Writing /\ normalized /\ Write(piece, Stretch(r))
    BY <1>3 DEF WriteExact
  <2>2. Stretch(r) \in Nat /\ Stands(piece, Stretch(r))
    BY <1>3, ExactStands
  <2>3. piece.ref
    BY DEF Reference
  <2> HIDE DEF piece
  <2> QED BY <2>1, <2>2, <2>3, WriteKeepsBlock
<1>4. ASSUME NEW r \in runs, WritePadded(r) PROVE BlockInv'
  <2> DEFINE c == CorpusLineOf(r, pos)
             piece == Reference(RefOf(r.file_id, c, c, TRUE, block[pos].lead, block[pos].trail))
  <2>1. Writing /\ normalized /\ Write(piece, 1)
    BY <1>4 DEF WritePadded
  <2>2. Stands(piece, 1)
    BY <1>4, PaddedStands
  <2>3. piece.ref
    BY DEF Reference
  <2> HIDE DEF piece
  <2> QED BY <2>1, <2>2, <2>3, WriteKeepsBlock
<1>5. ASSUME NEW r \in runs, WriteBlank(r) PROVE BlockInv'
  <2>1. Writing /\ normalized /\ Write(Literal(block[pos]), 1)
    BY <1>5 DEF WriteBlank
  <2>2. ~IsDirective(block[pos]) => Stands(Literal(block[pos]), 1)
    BY <2>1, LiteralStands DEF MatchInv, BlockInv
  <2>3. ~Literal(block[pos]).ref /\ Literal(block[pos]).line = block[pos]
    BY DEF Literal
  <2> QED BY <2>1, <2>2, <2>3, WriteKeepsBlock
<1>6. ASSUME UNCHANGED vars PROVE BlockInv'
  <2>1. UNCHANGED <<input, pos, out>> /\ todo' = todo /\ runs' = runs
    BY <1>6 DEF vars, matching
  <2>2. normalized' = normalized /\ block' = block /\ \A x : Expand(x)' = Expand(x)
    BY <2>1, SameInput DEF Expand, Disk, ReadPiece, IsDirective
  <2>3. Expansions' = Expansions /\ Expanded' = Expanded /\ TextIsRead' = TextIsRead
    BY <2>1, <2>2 DEF Expansions, Expanded, TextIsRead, IsDirective
  <2>4. ExpandsToBlock'
    BY <2>1, <2>2, <2>3 DEF BlockInv, ExpandsToBlock, Reproduces, Feeds
  <2> QED BY <2>1, <2>2, <2>3, <2>4 DEF BlockInv
<1> QED BY <1>1, <1>2, <1>3, <1>4, <1>5, <1>6, MatchKeepsBlock DEF Next

\* What is written of a block, read and expanded as the engine will, is the block so
\* far, unless a line of it reads as a directive: line by line, or for a normalized index
\* code by code, between the block's own blanks where these have no feed.
THEOREM BlockIsReproduced == EmitSpec => []ExpandsToBlock
<1>1. EmitInit => BlockInv
  BY BlockInit
<1>2. MatchInv /\ MatchInv' /\ OutInv /\ BlockInv /\ [Next]_vars => BlockInv'
  BY BlockNext
<1>3. BlockInv => ExpandsToBlock
  BY DEF BlockInv
<1> QED BY <1>1, <1>2, <1>3, MatchInvariant, OutInvariant, PTL DEF EmitSpec
=============================================================================
