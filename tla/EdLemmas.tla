------------------------------ MODULE EdLemmas -------------------------------
(***************************************************************************)
(* Lemmas about numbers, sequences and FlattenSeq, and about the operators *)
(* of EdCommands, that the proofs about the engine and the generator need. *)
(* What would be shown by induction is shown with the least                *)
(* counterexample, which exists as < is well-founded on the naturals.      *)
(***************************************************************************)
EXTENDS EdCommands, SequenceTheorems, WellFoundedInduction, TLAPS

-----------------------------------------------------------------------------
(* Numbers.                                                                *)

LEMMA Least ==
    ASSUME NEW T \in SUBSET Nat, T # {}
    PROVE  \E x \in T : \A y \in T : x <= y
<1>1. PICK x \in T : \A y \in T : <<y, x>> \notin OpToRel(<, Nat)
  BY NatLessThanWellFounded, WFMin
<1>2. \A y \in T : ~(y < x)
  BY <1>1 DEF OpToRel
<1> QED BY <1>2

\* A set of numbers with a bound has a greatest one.
LEMMA Greatest ==
    ASSUME NEW n \in Nat, NEW S \in SUBSET (0..n), S # {}
    PROVE  Max(S) \in S /\ \A y \in S : y <= Max(S)
<1> DEFINE T == {n - s : s \in S}
<1>1. PICK t \in T : \A u \in T : t <= u
  <2>1. T \in SUBSET Nat
    OBVIOUS
  <2>2. PICK s \in S : TRUE
    OBVIOUS
  <2>3. n - s \in T
    OBVIOUS
  <2> QED BY <2>1, <2>3, Least
<1>2. \A y \in S : y <= n - t
  BY <1>1
<1>3. n - t \in S
  BY <1>1
<1>4. \E x \in S : \A y \in S : x >= y
  BY <1>2, <1>3
<1>5. Max(S) \in S /\ \A y \in S : Max(S) >= y
  BY <1>4 DEF Max
<1> QED BY <1>5

\* A set of numbers that has 0, and n + 1 if it has n, has all numbers up to N.
LEMMA UpTo ==
    ASSUME NEW N \in Nat, NEW T, 0 \in T, \A n \in 0..(N - 1) : n \in T => n + 1 \in T
    PROVE  \A n \in 0..N : n \in T
<1> DEFINE Bad == {n \in 0..N : n \notin T}
<1> SUFFICES ASSUME Bad # {} PROVE FALSE
  OBVIOUS
<1>0. Bad \in SUBSET Nat
  OBVIOUS
<1>1. \E x \in Bad : \A y \in Bad : x <= y
  <2> HIDE DEF Bad
  <2> QED BY <1>0, Least
<1>2. PICK x \in Bad : \A y \in Bad : x <= y
  BY <1>1
<1>3. x # 0 /\ x - 1 \in 0..(N - 1) /\ x - 1 \in T
  BY <1>2
<1> QED BY <1>2, <1>3

-----------------------------------------------------------------------------
(* Parts of sequences.                                                     *)

\* A function on 1..m is a sequence.
LEMMA FunctionIsSeq ==
    ASSUME NEW S, NEW m \in Nat, NEW f \in [1..m -> S]
    PROVE  f \in Seq(S) /\ Len(f) = m
BY SeqDef, LenProperties

\* A part of a sequence that is within it, or empty.
LEMMA PartOfSeq ==
    ASSUME NEW S, NEW s \in Seq(S), NEW a \in Int, NEW b \in Int,
           a >= 1, b <= Len(s)
    PROVE  /\ SubSeq(s, a, b) \in Seq(S)
           /\ Len(SubSeq(s, a, b)) = IF a <= b THEN b - a + 1 ELSE 0
           /\ \A i \in 1..(b - a + 1) : SubSeq(s, a, b)[i] = s[a + i - 1]
<1>1. Len(s) \in Nat /\ \A i \in 1..Len(s) : s[i] \in S
  BY LenProperties, ElementOfSeq
<1>2. \A i \in a..b : s[i] \in S
  BY <1>1
<1> QED BY <1>2, SubSeqProperties

\* What follows, and what begins, a concatenation.
LEMMA DropAndTake ==
    ASSUME NEW S, NEW s \in Seq(S), NEW t \in Seq(S)
    PROVE  /\ SubSeq(s \o t, Len(s) + 1, Len(s) + Len(t)) = t
           /\ SubSeq(s \o t, 1, Len(s)) = s
<1>1. Len(s) \in Nat /\ Len(t) \in Nat
  BY LenProperties
<1>2. /\ s \o t \in Seq(S) /\ Len(s \o t) = Len(s) + Len(t)
      /\ \A i \in 1..(Len(s) + Len(t)) :
            (s \o t)[i] = IF i <= Len(s) THEN s[i] ELSE t[i - Len(s)]
  BY ConcatProperties
<1>3. SubSeq(s \o t, Len(s) + 1, Len(s) + Len(t)) = t
  <2> DEFINE u == SubSeq(s \o t, Len(s) + 1, Len(s) + Len(t))
  <2>1. u \in Seq(S) /\ Len(u) = Len(t)
        /\ \A i \in 1..Len(t) : u[i] = (s \o t)[Len(s) + 1 + i - 1]
    <3>1. /\ Len(s) + 1 \in Int /\ Len(s) + 1 >= 1
          /\ Len(s) + Len(t) \in Int /\ Len(s) + Len(t) <= Len(s \o t)
      BY <1>1, <1>2
    <3>2. Len(s) + Len(t) - (Len(s) + 1) + 1 = Len(t)
      BY <1>1
    <3> QED BY <1>2, <3>1, <3>2, PartOfSeq
  <2>2. ASSUME NEW i \in 1..Len(t) PROVE u[i] = t[i]
    <3>1. Len(s) + i \in 1..(Len(s) + Len(t)) /\ ~(Len(s) + i <= Len(s))
      BY <1>1
    <3>2. (s \o t)[Len(s) + i] = t[Len(s) + i - Len(s)]
      BY <1>2, <3>1
    <3>3. Len(s) + 1 + i - 1 = Len(s) + i /\ Len(s) + i - Len(s) = i
      BY <1>1
    <3> QED BY <2>1, <3>2, <3>3
  <2> QED BY <2>1, <2>2, SeqEqual
<1>4. SubSeq(s \o t, 1, Len(s)) = s
  <2> DEFINE u == SubSeq(s \o t, 1, Len(s))
  <2>1. u \in Seq(S) /\ Len(u) = Len(s)
        /\ \A i \in 1..Len(s) : u[i] = (s \o t)[1 + i - 1]
    BY <1>1, <1>2, PartOfSeq
  <2>2. \A i \in 1..Len(u) : u[i] = s[i]
    BY <1>1, <1>2, <2>1
  <2> QED BY <2>1, <2>2, SeqEqual
<1> QED BY <1>3, <1>4

\* The rest of a sequence, cut in two at b.
LEMMA CutInTwo ==
    ASSUME NEW S, NEW s \in Seq(S), NEW a \in Nat \ {0}, NEW b \in Nat,
           a <= b, b <= Len(s) + 1
    PROVE  SubSeq(s, a, b - 1) \o SubSeq(s, b, Len(s)) = SubSeq(s, a, Len(s))
<1>1. Len(s) \in Nat
  BY LenProperties
<1>2. a \in 1..(Len(s) + 1)
  BY <1>1
<1>3. \A i \in (a - 1)..Len(s) :
         SubSeq(s, a, i) \o SubSeq(s, i + 1, Len(s)) = SubSeq(s, a, Len(s))
  <2> SUFFICES ASSUME NEW i \in (a - 1)..Len(s)
               PROVE  SubSeq(s, a, i) \o SubSeq(s, i + 1, Len(s)) = SubSeq(s, a, Len(s))
    OBVIOUS
  <2>1. Len(s) \in i..Len(s)
    BY <1>1
  <2> QED BY <1>2, <2>1, ConcatAdjacentSubSeq
<1>4. b - 1 \in (a - 1)..Len(s) /\ (b - 1) + 1 = b
  BY <1>1
<1>5. SubSeq(s, a, b - 1) \o SubSeq(s, (b - 1) + 1, Len(s)) = SubSeq(s, a, Len(s))
  BY <1>3, <1>4, Zenon
<1> QED BY <1>4, <1>5, Zenon

\* Parts of two sequences are equal where the sequences agree.
LEMMA PartsAgree ==
    ASSUME NEW S, NEW s \in Seq(S), NEW t \in Seq(S), NEW a \in Nat \ {0}, NEW b \in Nat,
           b <= Len(s), b <= Len(t), \A x \in 1..b : s[x] = t[x]
    PROVE  SubSeq(s, a, b) = SubSeq(t, a, b)
<1> DEFINE u == SubSeq(s, a, b)
           v == SubSeq(t, a, b)
<1>1. Len(s) \in Nat /\ Len(t) \in Nat
  BY LenProperties
<1>2. u \in Seq(S) /\ Len(u) = (IF a <= b THEN b - a + 1 ELSE 0)
      /\ \A i \in 1..(b - a + 1) : u[i] = s[a + i - 1]
  BY <1>1, PartOfSeq
<1>3. v \in Seq(S) /\ Len(v) = (IF a <= b THEN b - a + 1 ELSE 0)
      /\ \A i \in 1..(b - a + 1) : v[i] = t[a + i - 1]
  BY <1>1, PartOfSeq
<1>4. Len(u) = Len(v) /\ \A i \in 1..Len(u) : u[i] = v[i]
  BY <1>2, <1>3
<1> QED BY <1>2, <1>3, <1>4, SeqEqual

\* What follows the first of three sequences.
LEMMA RestOfThree ==
    ASSUME NEW S, NEW low \in Seq(S), NEW text \in Seq(S), NEW high \in Seq(S),
           NEW new, new = low \o text \o high
    PROVE  /\ SubSeq(new, Len(low) + 1, Len(new)) = text \o high
           /\ SubSeq(text \o high, 1, Len(text)) = text
           /\ Len(text) \in 0..Len(text \o high)
<1>1. text \o high \in Seq(S)
  BY ConcatProperties
<1>2. (low \o text) \o high = low \o (text \o high)
  BY ConcatAssociative, SMTT(30)
<1>3. new = low \o (text \o high)
  BY <1>2, Zenon
<1>4. Len(low \o (text \o high)) = Len(low) + Len(text \o high)
  BY <1>1, ConcatProperties
<1>5. Len(text \o high) = Len(text) + Len(high) /\ Len(text) \in Nat /\ Len(high) \in Nat
  BY LenProperties, ConcatProperties
<1>6. SubSeq(low \o (text \o high), Len(low) + 1, Len(low) + Len(text \o high))
        = text \o high
  BY <1>1, DropAndTake
<1>7. SubSeq(new, Len(low) + 1, Len(new)) = text \o high
  BY <1>3, <1>4, <1>6, Zenon
<1>8. SubSeq(text \o high, 1, Len(text)) = text
  BY DropAndTake
<1>9. Len(text) \in 0..Len(text \o high)
  BY <1>5
<1> QED BY <1>7, <1>8, <1>9, Zenon

\* Appending to the second of two sequences.
LEMMA AppendAfter ==
    ASSUME NEW S, NEW s \in Seq(S), NEW t \in Seq(S), NEW x \in S
    PROVE  s \o t \in Seq(S) /\ s \o Append(t, x) = Append(s \o t, x)
<1>1. s \o t \in Seq(S) /\ <<x>> \in Seq(S)
  BY ConcatProperties
<1>2. Append(t, x) = t \o <<x>> /\ Append(s \o t, x) = (s \o t) \o <<x>>
  BY <1>1, AppendIsConcat
<1>3. (s \o t) \o <<x>> = s \o (t \o <<x>>)
  BY <1>1, ConcatAssociative
<1> QED BY <1>1, <1>2, <1>3

-----------------------------------------------------------------------------
(* FlattenSeq.                                                             *)

\* f joins the first i sequences of s, for each i.
Joins(f, s) == \A i \in 1..Len(s) : f[i] = IF i = 1 THEN s[i] ELSE f[i - 1] \o s[i]

\* The recursion of FlattenSeq defines a function.
LEMMA JoinsExists ==
    ASSUME NEW n \in Nat, NEW s
    PROVE  \E f : f = [i \in 1..n |-> IF i = 1 THEN s[i] ELSE f[i - 1] \o s[i]]
<1> DEFINE T == {m \in 0..n : \E f : f = [i \in 1..m |-> IF i = 1 THEN s[i] ELSE f[i - 1] \o s[i]]}
<1>1. 0 \in T
  <2> DEFINE f == [i \in 1..0 |-> {}]
  <2>1. f = [i \in 1..0 |-> IF i = 1 THEN s[i] ELSE f[i - 1] \o s[i]]
    OBVIOUS
  <2>2. 0 \in 0..n
    OBVIOUS
  <2> HIDE DEF f
  <2> QED BY <2>1, <2>2
<1>2. ASSUME NEW m \in 0..(n - 1), m \in T PROVE m + 1 \in T
  <2>1. PICK f : f = [i \in 1..m |-> IF i = 1 THEN s[i] ELSE f[i - 1] \o s[i]]
    BY <1>2
  <2> DEFINE at(i) == IF i = m + 1 THEN IF i = 1 THEN s[i] ELSE f[i - 1] \o s[i] ELSE f[i]
             g == [i \in 1..(m + 1) |-> at(i)]
  <2>2. ASSUME NEW i \in 1..(m + 1)
        PROVE  at(i) = IF i = 1 THEN s[i] ELSE g[i - 1] \o s[i]
    <3>1. CASE i = m + 1
      <4>1. i # 1 => i - 1 \in 1..(m + 1) /\ i - 1 # m + 1
        BY <3>1
      <4>2. i # 1 => g[i - 1] = f[i - 1]
        BY <4>1
      <4> HIDE DEF g
      <4> QED BY <3>1, <4>2
    <3>2. CASE i # m + 1
      <4>1. i \in 1..m /\ (i # 1 => i - 1 \in 1..(m + 1) /\ i - 1 # m + 1)
        BY <3>2
      <4>2. i # 1 => g[i - 1] = f[i - 1]
        BY <4>1
      <4>3. f[i] = IF i = 1 THEN s[i] ELSE f[i - 1] \o s[i]
        BY <2>1, <4>1
      <4> HIDE DEF g
      <4> QED BY <3>2, <4>2, <4>3
    <3> QED BY <3>1, <3>2
  <2>3. g = [i \in 1..(m + 1) |-> IF i = 1 THEN s[i] ELSE g[i - 1] \o s[i]]
    <3> HIDE DEF at
    <3> QED BY <2>2
  <2>4. m + 1 \in 0..n
    OBVIOUS
  <2> HIDE DEF g
  <2> QED BY <2>3, <2>4
<1>3. n \in T
  <2> HIDE DEF T
  <2> QED BY <1>1, <1>2, UpTo
<1> QED BY <1>3

LEMMA FlattenNone == FlattenSeq(<<>>) = <<>>
BY EmptySeq DEF FlattenSeq

\* What FlattenSeq computes, and that it is determined.
LEMMA FlattenIs ==
    ASSUME NEW S, NEW s \in Seq(Seq(S))
    PROVE  /\ s = <<>> => FlattenSeq(s) = <<>>
           /\ s # <<>> => \E f : Joins(f, s) /\ FlattenSeq(s) = f[Len(s)]
<1>1. Len(s) \in Nat /\ (s # <<>> => Len(s) # 0) /\ (s = <<>> => Len(s) = 0)
  BY LenProperties, EmptySeq
<1>2. s = <<>> => FlattenSeq(s) = <<>>
  BY <1>1 DEF FlattenSeq
<1>3. ASSUME s # <<>> PROVE \E f : Joins(f, s) /\ FlattenSeq(s) = f[Len(s)]
  <2> DEFINE F == CHOOSE f : f = [i \in 1..Len(s) |-> IF i = 1 THEN s[i] ELSE f[i - 1] \o s[i]]
  <2>1. F = [i \in 1..Len(s) |-> IF i = 1 THEN s[i] ELSE F[i - 1] \o s[i]]
    BY <1>1, JoinsExists
  <2>2. FlattenSeq(s) = F[Len(s)]
    BY <1>1, <1>3 DEF FlattenSeq
  <2> HIDE DEF F
  <2>3. Joins(F, s)
    BY <2>1 DEF Joins
  <2> QED BY <2>2, <2>3
<1> QED BY <1>2, <1>3

\* A function that joins s and one that joins more agree on s.
LEMMA JoinsAgree ==
    ASSUME NEW s, NEW t, Len(s) \in Nat, Len(t) \in Nat, NEW f, NEW g,
           Joins(f, s), Joins(g, t), Len(s) <= Len(t), \A i \in 1..Len(s) : s[i] = t[i]
    PROVE  \A i \in 1..Len(s) : f[i] = g[i]
<1> DEFINE m == Len(s)
           T == {i \in 0..m : i # 0 => f[i] = g[i]}
<1>1. 0 \in T
  OBVIOUS
<1>2. ASSUME NEW i \in 0..(m - 1), i \in T PROVE i + 1 \in T
  <2>1. i + 1 \in 1..m /\ i + 1 \in 1..Len(s) /\ i + 1 \in 1..Len(t)
        /\ i + 1 - 1 = i /\ (i + 1 = 1 <=> i = 0)
    OBVIOUS
  <2>2. f[i + 1] = IF i = 0 THEN s[i + 1] ELSE f[i] \o s[i + 1]
    BY <2>1 DEF Joins
  <2>3. g[i + 1] = IF i = 0 THEN t[i + 1] ELSE g[i] \o t[i + 1]
    BY <2>1 DEF Joins
  <2>4. s[i + 1] = t[i + 1] /\ (i # 0 => f[i] = g[i])
    BY <1>2, <2>1
  <2>5. f[i + 1] = g[i + 1]
    BY <2>2, <2>3, <2>4
  <2> QED BY <2>1, <2>5
<1>3. \A i \in 0..m : i \in T
  <2> HIDE DEF T
  <2> QED BY <1>1, <1>2, UpTo
<1> QED BY <1>3

\* Flattening one sequence more.
LEMMA FlattenAppend ==
    ASSUME NEW S, NEW s \in Seq(Seq(S)), NEW x \in Seq(S)
    PROVE  /\ FlattenSeq(s) \in Seq(S)
           /\ FlattenSeq(Append(s, x)) = FlattenSeq(s) \o x
<1>1. Len(s) \in Nat /\ DOMAIN s = 1..Len(s) /\ (\A i \in 1..Len(s) : s[i] \in Seq(S))
      /\ (s # <<>> => Len(s) # 0) /\ <<>> \in Seq(S)
  BY LenProperties, ElementOfSeq, EmptySeq
<1>2. FlattenSeq(s) \in Seq(S)
  <2>1. CASE s = <<>>
    BY <1>1, <2>1, FlattenIs
  <2>2. CASE s # <<>>
    <3>1. PICK f : Joins(f, s) /\ FlattenSeq(s) = f[Len(s)]
      BY <2>2, FlattenIs
    <3> DEFINE T == {i \in 0..Len(s) : i # 0 => f[i] \in Seq(S)}
    <3>2. 0 \in T
      BY <1>1
    <3>3. ASSUME NEW i \in 0..(Len(s) - 1), i \in T PROVE i + 1 \in T
      <4>1. i + 1 \in 1..Len(s) /\ i + 1 - 1 = i /\ (i + 1 = 1 <=> i = 0)
        BY <1>1
      <4>2. f[i + 1] = IF i = 0 THEN s[i + 1] ELSE f[i] \o s[i + 1]
        BY <4>1, <3>1 DEF Joins
      <4>3. s[i + 1] \in Seq(S) /\ (i # 0 => f[i] \in Seq(S))
        BY <1>1, <3>3, <4>1
      <4>4. f[i + 1] \in Seq(S)
        BY <4>2, <4>3, ConcatProperties
      <4> QED BY <4>1, <4>4
    <3>4. \A i \in 0..Len(s) : i \in T
      <4> HIDE DEF T
      <4> QED BY <1>1, <3>2, <3>3, UpTo
    <3>5. Len(s) \in 0..Len(s) /\ Len(s) # 0
      BY <1>1, <2>2
    <3> QED BY <3>1, <3>4, <3>5
  <2> QED BY <2>1, <2>2
<1> DEFINE u == Append(s, x)
<1>3. u \in Seq(Seq(S)) /\ u # <<>> /\ Len(u) = Len(s) + 1
      /\ (\A i \in 1..Len(s) : u[i] = s[i]) /\ u[Len(s) + 1] = x
  BY AppendProperties
<1> HIDE DEF u
<1>4. PICK g : Joins(g, u) /\ FlattenSeq(u) = g[Len(u)]
  BY <1>3, FlattenIs
<1>5. g[Len(s) + 1] = IF Len(s) = 0 THEN x ELSE g[Len(s)] \o x
  <2>1. Len(s) + 1 \in 1..Len(u) /\ Len(s) + 1 - 1 = Len(s) /\ (Len(s) + 1 = 1 <=> Len(s) = 0)
    BY <1>1, <1>3
  <2>2. g[Len(s) + 1] = IF Len(s) + 1 = 1 THEN u[Len(s) + 1] ELSE g[Len(s) + 1 - 1] \o u[Len(s) + 1]
    BY <1>4, <2>1 DEF Joins
  <2>3. u[Len(s) + 1] = x
    BY <1>3
  <2> QED BY <2>1, <2>2, <2>3
<1>6. CASE s = <<>>
  <2>1. FlattenSeq(s) = <<>> /\ Len(s) = 0
    BY <1>6, FlattenIs, EmptySeq
  <2>2. <<>> \o x = x
    BY ConcatEmptySeq
  <2> QED BY <1>2, <1>3, <1>4, <1>5, <2>1, <2>2 DEF u
<1>7. CASE s # <<>>
  <2>1. PICK f : Joins(f, s) /\ FlattenSeq(s) = f[Len(s)]
    BY <1>7, FlattenIs
  <2>2. f[Len(s)] = g[Len(s)]
    <3>1. Len(u) \in Nat /\ Len(s) <= Len(u) /\ \A i \in 1..Len(s) : s[i] = u[i]
      BY <1>1, <1>3
    <3>2. \A i \in 1..Len(s) : f[i] = g[i]
      BY <1>1, <1>4, <2>1, <3>1, JoinsAgree
    <3> QED BY <1>1, <1>7, <3>2
  <2> QED BY <1>1, <1>2, <1>3, <1>4, <1>5, <1>7, <2>1, <2>2 DEF u
<1> QED BY <1>6, <1>7

LEMMA FlattenType ==
    ASSUME NEW S, NEW s \in Seq(Seq(S)) PROVE FlattenSeq(s) \in Seq(S)
<1>1. <<>> \in Seq(S)
  BY EmptySeq
<1> QED BY <1>1, FlattenAppend

\* The first n elements and the next one.
LEMMA OneMore ==
    ASSUME NEW S, NEW s \in Seq(S), NEW n \in 0..(Len(s) - 1)
    PROVE  /\ n + 1 \in 1..Len(s) /\ s[n + 1] \in S
           /\ SubSeq(s, 1, n) \in Seq(S)
           /\ SubSeq(s, 1, n + 1) = Append(SubSeq(s, 1, n), s[n + 1])
<1>1. Len(s) \in Nat
  BY LenProperties
<1>2. n + 1 \in 1..Len(s) /\ n + 1 \in 1..(n + 1) /\ 1 \in 1..Len(s) /\ n + 1 \in 1..Len(s)
      /\ n + 1 - 1 = n
  BY <1>1
<1>3. s[n + 1] \in S
  BY <1>2, ElementOfSeq
<1>4. SubSeq(s, 1, n) \in Seq(S)
  BY <1>1, PartOfSeq
<1>5. SubSeq(s, 1, n + 1) = SubSeq(s, 1, n + 1 - 1) \o <<s[n + 1]>>
  BY <1>2, SubSeqRecursiveSecond
<1>6. Append(SubSeq(s, 1, n), s[n + 1]) = SubSeq(s, 1, n) \o <<s[n + 1]>>
  BY <1>3, <1>4, AppendIsConcat
<1> QED BY <1>2, <1>3, <1>4, <1>5, <1>6

\* Flattening a concatenation.
LEMMA FlattenConcat ==
    ASSUME NEW S
    PROVE  \A s, t \in Seq(Seq(S)) : FlattenSeq(s \o t) = FlattenSeq(s) \o FlattenSeq(t)
<1>1. \A b, c, d \in Seq(S) : (b \o c) \o d = b \o (c \o d)
  BY ConcatAssociative
<1>2. \A s, t \in Seq(Seq(S)) : \A x \in Seq(S) :
         s \o t \in Seq(Seq(S)) /\ s \o Append(t, x) = Append(s \o t, x)
  BY AppendAfter
<1> TAKE s, t \in Seq(Seq(S))
<1> DEFINE P(n) == SubSeq(t, 1, n)
           T == {n \in 0..Len(t) : FlattenSeq(s \o P(n)) = FlattenSeq(s) \o FlattenSeq(P(n))}
<1>3. Len(t) \in Nat /\ FlattenSeq(s) \in Seq(S)
  BY LenProperties, FlattenType
<1>4. 0 \in T
  <2>1. P(0) = <<>>
    BY SubSeqEmpty
  <2>2. FlattenSeq(<<>>) = <<>> /\ s \o <<>> = s /\ FlattenSeq(s) \o <<>> = FlattenSeq(s)
    <3>1. <<>> \in Seq(Seq(S))
      BY EmptySeq
    <3> QED BY <1>3, <3>1, ConcatEmptySeq, FlattenIs
  <2>3. 0 \in 0..Len(t)
    BY <1>3
  <2> QED BY <2>1, <2>2, <2>3
<1>5. ASSUME NEW n \in 0..(Len(t) - 1), n \in T PROVE n + 1 \in T
  <2> DEFINE x == t[n + 1]
             a == P(n)
  <2>1. n + 1 \in 1..Len(t) /\ x \in Seq(S) /\ a \in Seq(Seq(S)) /\ P(n + 1) = Append(a, x)
    BY OneMore
  <2>2. FlattenSeq(s \o a) = FlattenSeq(s) \o FlattenSeq(a)
    BY <1>5
  <2> HIDE DEF a, x
  <2>3. s \o Append(a, x) = Append(s \o a, x) /\ s \o a \in Seq(Seq(S))
    BY <1>2, <2>1, Zenon
  <2>4. FlattenSeq(a) \in Seq(S) /\ FlattenSeq(Append(a, x)) = FlattenSeq(a) \o x
    BY <2>1, FlattenAppend
  <2>5. FlattenSeq(Append(s \o a, x)) = FlattenSeq(s \o a) \o x
    BY <2>1, <2>3, FlattenAppend
  <2>6. (FlattenSeq(s) \o FlattenSeq(a)) \o x = FlattenSeq(s) \o (FlattenSeq(a) \o x)
    BY <1>1, <1>3, <2>1, <2>4, Zenon
  <2>7. FlattenSeq(s \o P(n + 1)) = FlattenSeq(s) \o FlattenSeq(P(n + 1))
    BY <2>1, <2>2, <2>3, <2>4, <2>5, <2>6
  <2>8. n + 1 \in 0..Len(t)
    BY <2>1
  <2> QED BY <2>7, <2>8
<1>6. \A n \in 0..Len(t) : n \in T
  <2> HIDE DEF T
  <2> QED BY <1>3, <1>4, <1>5, UpTo
<1>7. P(Len(t)) = t /\ Len(t) \in 0..Len(t)
  BY <1>3, SubSeqFull
<1> QED BY <1>6, <1>7

\* Flattening one sequence, and one sequence before others.
LEMMA FlattenCons ==
    ASSUME NEW S, NEW x \in Seq(S), NEW t \in Seq(Seq(S))
    PROVE  FlattenSeq(<<x>>) = x /\ FlattenSeq(<<x>> \o t) = x \o FlattenSeq(t)
<1>1. <<>> \in Seq(Seq(S)) /\ <<x>> = Append(<<>>, x) /\ <<x>> \in Seq(Seq(S))
  BY EmptySeq
<1>2. FlattenSeq(<<>>) = <<>> /\ <<>> \o x = x
  BY <1>1, FlattenIs, ConcatEmptySeq
<1>3. FlattenSeq(<<x>>) = x
  BY <1>1, <1>2, FlattenAppend
<1> QED BY <1>1, <1>3, FlattenConcat

\* Flattening empty sequences.
LEMMA FlattenEmpties ==
    ASSUME NEW S, NEW s \in Seq(Seq(S)), \A i \in 1..Len(s) : s[i] = <<>>
    PROVE  FlattenSeq(s) = <<>>
<1> DEFINE P(n) == SubSeq(s, 1, n)
           T == {n \in 0..Len(s) : FlattenSeq(P(n)) = <<>>}
<1>1. Len(s) \in Nat /\ <<>> \in Seq(Seq(S)) /\ <<>> \in Seq(S)
  BY LenProperties, EmptySeq
<1>2. 0 \in T
  <2>1. P(0) = <<>>
    BY SubSeqEmpty
  <2> HIDE DEF P
  <2> QED BY <1>1, <2>1, FlattenNone
<1>3. ASSUME NEW n \in 0..(Len(s) - 1), n \in T PROVE n + 1 \in T
  <2>1. n + 1 \in 1..Len(s) /\ s[n + 1] \in Seq(S) /\ P(n) \in Seq(Seq(S))
        /\ P(n + 1) = Append(P(n), s[n + 1])
    BY OneMore
  <2>2. FlattenSeq(P(n + 1)) = <<>> \o <<>>
    <3>1. FlattenSeq(Append(P(n), s[n + 1])) = FlattenSeq(P(n)) \o s[n + 1]
      BY <2>1, FlattenAppend
    <3>2. FlattenSeq(P(n)) = <<>> /\ s[n + 1] = <<>>
      BY <1>3, <2>1
    <3> HIDE DEF P
    <3> QED BY <2>1, <3>1, <3>2
  <2>3. <<>> \o <<>> = <<>>
    BY <1>1, ConcatEmptySeq
  <2> QED BY <2>1, <2>2, <2>3
<1>4. \A n \in 0..Len(s) : n \in T
  <2> HIDE DEF T
  <2> QED BY <1>1, <1>2, <1>3, UpTo
<1>5. P(Len(s)) = s /\ Len(s) \in 0..Len(s)
  BY <1>1, SubSeqFull
<1> QED BY <1>4, <1>5

\* Flattening one-element sequences.
LEMMA FlattenSingles ==
    ASSUME NEW S, NEW s \in Seq(Seq(S)), NEW l \in Seq(S), Len(s) = Len(l),
           \A i \in 1..Len(s) : s[i] = <<l[i]>>
    PROVE  FlattenSeq(s) = l
<1> DEFINE P(n) == SubSeq(s, 1, n)
           Q(n) == SubSeq(l, 1, n)
           T == {n \in 0..Len(s) : FlattenSeq(P(n)) = Q(n)}
<1>1. Len(s) \in Nat /\ <<>> \in Seq(Seq(S))
  BY LenProperties, EmptySeq
<1>2. 0 \in T
  <2>1. P(0) = <<>> /\ Q(0) = <<>>
    BY SubSeqEmpty
  <2> HIDE DEF P, Q
  <2> QED BY <1>1, <2>1, FlattenNone
<1>3. ASSUME NEW n \in 0..(Len(s) - 1), n \in T PROVE n + 1 \in T
  <2>1. n + 1 \in 1..Len(s) /\ s[n + 1] \in Seq(S) /\ P(n) \in Seq(Seq(S))
        /\ P(n + 1) = Append(P(n), s[n + 1])
    BY OneMore
  <2>2. l[n + 1] \in S /\ Q(n) \in Seq(S) /\ Q(n + 1) = Append(Q(n), l[n + 1])
    BY OneMore
  <2>3. FlattenSeq(P(n + 1)) = Q(n) \o <<l[n + 1]>>
    BY <1>3, <2>1, FlattenAppend
  <2>4. Append(Q(n), l[n + 1]) = Q(n) \o <<l[n + 1]>>
    BY <2>2, AppendIsConcat
  <2> QED BY <2>1, <2>2, <2>3, <2>4
<1>4. \A n \in 0..Len(s) : n \in T
  <2> HIDE DEF T
  <2> QED BY <1>1, <1>2, <1>3, UpTo
<1>5. P(Len(s)) = s /\ Q(Len(s)) = l /\ Len(s) \in 0..Len(s)
  BY <1>1, SubSeqFull
<1> QED BY <1>4, <1>5

\* Flattening the rest of s from a, cut after b.
LEMMA FlattenCut ==
    ASSUME NEW S, NEW s \in Seq(Seq(S)), NEW a \in 1..(Len(s) + 1), NEW b \in (a - 1)..Len(s)
    PROVE  /\ SubSeq(s, a, b) \in Seq(Seq(S)) /\ SubSeq(s, b + 1, Len(s)) \in Seq(Seq(S))
           /\ FlattenSeq(SubSeq(s, a, Len(s)))
                = FlattenSeq(SubSeq(s, a, b)) \o FlattenSeq(SubSeq(s, b + 1, Len(s)))
<1>1. Len(s) \in Nat /\ a \in Int /\ a >= 1 /\ b \in Int /\ b <= Len(s)
      /\ b + 1 \in Int /\ b + 1 >= 1 /\ Len(s) \in b..Len(s)
  BY LenProperties
<1>2. SubSeq(s, a, b) \in Seq(Seq(S)) /\ SubSeq(s, b + 1, Len(s)) \in Seq(Seq(S))
  <2>1. SubSeq(s, a, b) \in Seq(Seq(S))
    BY <1>1, PartOfSeq
  <2>2. Len(s) \in Int /\ Len(s) <= Len(s)
    BY <1>1
  <2>3. SubSeq(s, b + 1, Len(s)) \in Seq(Seq(S))
    BY <1>1, <2>2, PartOfSeq
  <2> QED BY <2>1, <2>3
<1>3. SubSeq(s, a, b) \o SubSeq(s, b + 1, Len(s)) = SubSeq(s, a, Len(s))
  BY <1>1, ConcatAdjacentSubSeq
<1>4. \A u, v \in Seq(Seq(S)) : FlattenSeq(u \o v) = FlattenSeq(u) \o FlattenSeq(v)
  BY FlattenConcat
<1> QED BY <1>2, <1>3, <1>4, Zenon

\* Flattening the rest of s from a on: first s[a].
LEMMA FlattenNext ==
    ASSUME NEW S, NEW s \in Seq(Seq(S)), NEW a \in 1..Len(s)
    PROVE  FlattenSeq(SubSeq(s, a, Len(s))) = s[a] \o FlattenSeq(SubSeq(s, a + 1, Len(s)))
<1>1. Len(s) \in Nat /\ s[a] \in Seq(S) /\ Len(s) \in a..Len(s) /\ a + 1 \in Int /\ a + 1 >= 1
      /\ Len(s) \in Int /\ Len(s) <= Len(s)
  BY LenProperties, ElementOfSeq
<1>2. SubSeq(s, a, Len(s)) = <<s[a]>> \o SubSeq(s, a + 1, Len(s))
  BY <1>1, SubSeqRecursiveFirst
<1>3. SubSeq(s, a + 1, Len(s)) \in Seq(Seq(S))
  BY <1>1, PartOfSeq
<1>4. \A x \in Seq(S) : \A u \in Seq(Seq(S)) : FlattenSeq(<<x>> \o u) = x \o FlattenSeq(u)
  BY FlattenCons
<1> QED BY <1>1, <1>2, <1>3, <1>4, Zenon

\* Rests of sequences are equal where the sequences agree.
LEMMA RestsAgree ==
    ASSUME NEW S, NEW s \in Seq(S), NEW t \in Seq(S), Len(s) = Len(t), NEW a \in Nat \ {0},
           \A x \in a..Len(s) : s[x] = t[x]
    PROVE  SubSeq(s, a, Len(s)) = SubSeq(t, a, Len(t))
<1> DEFINE u == SubSeq(s, a, Len(s))
           v == SubSeq(t, a, Len(t))
<1>1. Len(s) \in Nat
  BY LenProperties
<1>2. u \in Seq(S) /\ Len(u) = (IF a <= Len(s) THEN Len(s) - a + 1 ELSE 0)
      /\ \A i \in 1..(Len(s) - a + 1) : u[i] = s[a + i - 1]
  BY <1>1, PartOfSeq
<1>3. v \in Seq(S) /\ Len(v) = (IF a <= Len(s) THEN Len(s) - a + 1 ELSE 0)
      /\ \A i \in 1..(Len(s) - a + 1) : v[i] = t[a + i - 1]
  BY <1>1, PartOfSeq
<1>4. Len(u) = Len(v) /\ \A i \in 1..Len(u) : u[i] = v[i]
  BY <1>1, <1>2, <1>3
<1> QED BY <1>2, <1>3, <1>4, SeqEqual

\* The first m of s, when they are the one-element sequences of l.
LEMMA FlattenFirst ==
    ASSUME NEW S, NEW s \in Seq(Seq(S)), NEW l \in Seq(S), NEW m \in Nat,
           m <= Len(s), m <= Len(l), \A x \in 1..m : s[x] = <<l[x]>>
    PROVE  FlattenSeq(SubSeq(s, 1, m)) = SubSeq(l, 1, m)
<1> DEFINE u == SubSeq(s, 1, m)
           v == SubSeq(l, 1, m)
<1>1. u \in Seq(Seq(S)) /\ Len(u) = m /\ \A i \in 1..m : u[i] = s[i]
  <2>1. 1 \in Int /\ 1 >= 1 /\ m \in Int
    OBVIOUS
  <2>2. u \in Seq(Seq(S)) /\ Len(u) = (IF 1 <= m THEN m - 1 + 1 ELSE 0)
        /\ \A i \in 1..(m - 1 + 1) : u[i] = s[1 + i - 1]
    BY <2>1, PartOfSeq
  <2> HIDE DEF u
  <2> QED BY <2>2
<1>2. v \in Seq(S) /\ Len(v) = m /\ \A i \in 1..m : v[i] = l[i]
  <2>1. v \in Seq(S) /\ Len(v) = (IF 1 <= m THEN m - 1 + 1 ELSE 0)
        /\ \A i \in 1..(m - 1 + 1) : v[i] = l[1 + i - 1]
    BY PartOfSeq
  <2> HIDE DEF v
  <2> QED BY <2>1
<1>3. Len(u) = Len(v) /\ \A i \in 1..Len(u) : u[i] = <<v[i]>>
  BY <1>1, <1>2
<1>4. FlattenSeq(u) = v
  <2> HIDE DEF u, v
  <2>1. u \in Seq(Seq(S)) /\ v \in Seq(S)
    BY <1>1, <1>2
  <2>2. Len(u) = Len(v)
    BY <1>3
  <2>3. \A i \in 1..Len(u) : u[i] = <<v[i]>>
    BY <1>3
  <2> QED BY ONLY <2>1, <2>2, <2>3, FlattenSingles
<1> QED BY <1>4

\* The first m of s are the one-element sequences of l.
Leads(s, l, m) == m <= Len(s) /\ m <= Len(l) /\ \A x \in 1..m : s[x] = <<l[x]>>

\* The first m, and what follows.
LEMMA FlattenLead ==
    ASSUME NEW S
    PROVE  \A s \in Seq(Seq(S)) : \A l \in Seq(S) : \A m \in Nat : Leads(s, l, m) =>
              /\ SubSeq(l, 1, m) \in Seq(S)
              /\ FlattenSeq(SubSeq(s, m + 1, Len(s))) \in Seq(S)
              /\ FlattenSeq(s) = SubSeq(l, 1, m) \o FlattenSeq(SubSeq(s, m + 1, Len(s)))
<1> TAKE s \in Seq(Seq(S))
<1> TAKE l \in Seq(S)
<1> TAKE m \in Nat
<1> SUFFICES ASSUME m <= Len(s), m <= Len(l), \A x \in 1..m : s[x] = <<l[x]>>
             PROVE  /\ SubSeq(l, 1, m) \in Seq(S)
                    /\ FlattenSeq(SubSeq(s, m + 1, Len(s))) \in Seq(S)
                    /\ FlattenSeq(s) = SubSeq(l, 1, m) \o FlattenSeq(SubSeq(s, m + 1, Len(s)))
  BY DEF Leads
<1>1. FlattenSeq(SubSeq(s, 1, m)) = SubSeq(l, 1, m)
  BY FlattenFirst
<1>2. Len(s) \in Nat /\ 1 \in 1..(Len(s) + 1) /\ m \in (1 - 1)..Len(s)
  BY LenProperties
<1>3. /\ SubSeq(s, m + 1, Len(s)) \in Seq(Seq(S))
      /\ FlattenSeq(SubSeq(s, 1, Len(s)))
           = FlattenSeq(SubSeq(s, 1, m)) \o FlattenSeq(SubSeq(s, m + 1, Len(s)))
  BY <1>2, FlattenCut
<1>4. SubSeq(s, 1, Len(s)) = s
  BY SubSeqFull
<1>5. SubSeq(l, 1, m) \in Seq(S)
  BY PartOfSeq
<1>6. FlattenSeq(SubSeq(s, m + 1, Len(s))) \in Seq(S)
  BY <1>3, FlattenType
<1> QED BY <1>1, <1>3, <1>4, <1>5, <1>6

\* What begins and what follows the first e of l, before r.
LEMMA TakeLead ==
    ASSUME NEW S, NEW l \in Seq(S), NEW r \in Seq(S), NEW e \in Nat, e <= Len(l),
           NEW g \in 0..e, NEW z, z = SubSeq(l, 1, e) \o r
    PROVE  SubSeq(z, e + 1, Len(z)) = r /\ SubSeq(z, 1, g) = SubSeq(l, 1, g)
<1> DEFINE u == SubSeq(l, 1, e)
<1>1. u \in Seq(S) /\ Len(u) = e /\ Len(l) \in Nat /\ Len(r) \in Nat
  BY PartOfSeq, LenProperties
<1>2. \A x \in 1..e : u[x] = l[x]
  <2>1. \A i \in 1..(e - 1 + 1) : u[i] = l[1 + i - 1]
    BY PartOfSeq
  <2> HIDE DEF u
  <2> QED BY <2>1
<1> HIDE DEF u
<1>3. z \in Seq(S) /\ Len(z) = e + Len(r)
      /\ \A x \in 1..(e + Len(r)) : z[x] = IF x <= e THEN u[x] ELSE r[x - e]
  BY <1>1, ConcatProperties DEF u
<1>4. SubSeq(z, e + 1, Len(z)) = r
  <2>1. SubSeq(u \o r, Len(u) + 1, Len(u) + Len(r)) = r
    BY <1>1, DropAndTake
  <2> QED BY <1>1, <1>3, <2>1 DEF u
<1>5. \A x \in 1..g : z[x] = l[x]
  BY <1>1, <1>2, <1>3
<1>6. g \in Nat /\ g <= Len(z) /\ g <= Len(l) /\ 1 \in Nat \ {0}
  BY <1>1, <1>3
<1>7. SubSeq(z, 1, g) = SubSeq(l, 1, g)
  BY <1>3, <1>5, <1>6, PartsAgree
<1> QED BY <1>4, <1>7

\* Flattening the rest of s from f on: s[f], and what follows the empty ones.
LEMMA FlattenSkip ==
    ASSUME NEW S
    PROVE  \A s \in Seq(Seq(S)) : \A f \in 1..Len(s) : \A e \in f..Len(s) :
              (\A x \in (f + 1)..e : s[x] = <<>>) =>
                 FlattenSeq(SubSeq(s, f, Len(s))) = s[f] \o FlattenSeq(SubSeq(s, e + 1, Len(s)))
<1>1. \A a \in Seq(S) : <<>> \o a = a
  BY ConcatEmptySeq
<1> TAKE s \in Seq(Seq(S))
<1> TAKE f \in 1..Len(s)
<1> TAKE e \in f..Len(s)
<1> SUFFICES ASSUME \A x \in (f + 1)..e : s[x] = <<>>
             PROVE  FlattenSeq(SubSeq(s, f, Len(s))) = s[f] \o FlattenSeq(SubSeq(s, e + 1, Len(s)))
  OBVIOUS
<1> DEFINE a == f + 1
           u == SubSeq(s, a, e)
<1>2. FlattenSeq(SubSeq(s, f, Len(s))) = s[f] \o FlattenSeq(SubSeq(s, f + 1, Len(s)))
  BY FlattenNext
<1>3. Len(s) \in Nat /\ a \in 1..(Len(s) + 1) /\ e \in (a - 1)..Len(s)
      /\ a \in Int /\ a >= 1 /\ e \in Int /\ e <= Len(s)
  BY LenProperties
<1>4. /\ FlattenSeq(SubSeq(s, a, Len(s))) = FlattenSeq(u) \o FlattenSeq(SubSeq(s, e + 1, Len(s)))
      /\ SubSeq(s, e + 1, Len(s)) \in Seq(Seq(S))
  <2> HIDE DEF a
  <2> QED BY <1>3, FlattenCut
<1>5. u \in Seq(Seq(S)) /\ Len(u) = (IF f + 1 <= e THEN e - (f + 1) + 1 ELSE 0)
      /\ \A i \in 1..(e - (f + 1) + 1) : u[i] = s[f + 1 + i - 1]
  BY <1>3, PartOfSeq
<1> HIDE DEF u
<1>6. \A i \in 1..Len(u) : u[i] = <<>>
  <2> TAKE i \in 1..Len(u)
  <2>1. i \in 1..(e - (f + 1) + 1) /\ f + 1 + i - 1 \in (f + 1)..e
    BY <1>3, <1>5
  <2> QED BY <1>5, <2>1
<1>7. FlattenSeq(u) = <<>>
  BY <1>5, <1>6, FlattenEmpties
<1>8. FlattenSeq(SubSeq(s, e + 1, Len(s))) \in Seq(S)
  BY <1>4, FlattenType
<1> QED BY <1>1, <1>2, <1>4, <1>7, <1>8, Zenon

\* s begins with the lines ls, one by one.  Of its items f..e only the first is left
\* in t, and is the text; when there are none the text comes before the item f.
Replaces(ls, text, s, t, f, e) ==
    /\ Len(s) = Len(ls) + 1 /\ Len(t) = Len(ls) + 1
    /\ \A x \in 1..e : s[x] = <<ls[x]>>
    /\ \A x \in 1..Len(s) : x < f \/ (x > e /\ x # f) => t[x] = s[x]
    /\ \A x \in (f + 1)..e : t[x] = <<>>
    /\ t[f] = IF f <= e THEN text ELSE text \o s[f]

\* Then t flattens to what s does with the lines f..e replaced by the text.
Replaced(text, s, t, f, e) ==
    FlattenSeq(t) = SubSeq(FlattenSeq(s), 1, f - 1) \o text
                       \o SubSeq(FlattenSeq(s), e + 1, Len(FlattenSeq(s)))

FlattensReplaced(S) ==
    \A ls, text \in Seq(S) : \A s, t \in Seq(Seq(S)) :
    \A f \in 1..(Len(ls) + 1) : \A e \in (f - 1)..Len(ls) :
       Replaces(ls, text, s, t, f, e) => Replaced(text, s, t, f, e)

LEMMA FlattenReplace == ASSUME NEW S PROVE FlattensReplaced(S)
<1>1. \A a, b, c \in Seq(S) : (a \o b) \o c = a \o (b \o c)
  BY ConcatAssociative
<1>9. \A v \in Seq(Seq(S)) : \A l \in Seq(S) : \A m \in Nat : Leads(v, l, m) =>
            /\ SubSeq(l, 1, m) \in Seq(S)
            /\ FlattenSeq(SubSeq(v, m + 1, Len(v))) \in Seq(S)
            /\ FlattenSeq(v) = SubSeq(l, 1, m) \o FlattenSeq(SubSeq(v, m + 1, Len(v)))
  BY FlattenLead
<1>10. \A l, r \in Seq(S) : \A m \in Nat : \A g \in 0..m :
         m <= Len(l) =>
            LET z == SubSeq(l, 1, m) \o r
            IN  SubSeq(z, m + 1, Len(z)) = r /\ SubSeq(z, 1, g) = SubSeq(l, 1, g)
  BY TakeLead
<1> USE DEF FlattensReplaced
<1> TAKE ls, text \in Seq(S)
<1> TAKE s, t \in Seq(Seq(S))
<1> TAKE f \in 1..(Len(ls) + 1)
<1> TAKE e \in (f - 1)..Len(ls)
<1> HAVE Replaces(ls, text, s, t, f, e)
<1> SUFFICES FlattenSeq(t) = SubSeq(FlattenSeq(s), 1, f - 1) \o text
                                \o SubSeq(FlattenSeq(s), e + 1, Len(FlattenSeq(s)))
  BY DEF Replaced
<1> HIDE DEF FlattensReplaced
<1> DEFINE Rest == FlattenSeq(SubSeq(s, e + 1, Len(s)))
           L(m) == SubSeq(ls, 1, m)
<1>2. Len(ls) \in Nat /\ Len(s) \in Nat /\ Len(s) = Len(ls) + 1 /\ Len(t) = Len(s)
      /\ f \in 1..Len(s) /\ e \in Nat /\ e <= Len(ls) /\ e < Len(s) /\ f <= e + 1
      /\ f - 1 \in Nat /\ f - 1 <= e
  BY LenProperties DEF Replaces
<1>3. s[f] \in Seq(S)
  BY <1>2, ElementOfSeq
<1>4. /\ Rest \in Seq(S) /\ FlattenSeq(s) = L(e) \o Rest
  <2>1. \A x \in 1..e : s[x] = <<ls[x]>>
    BY DEF Replaces
  <2>2. Leads(s, ls, e)
    BY <1>2, <2>1 DEF Leads
  <2> QED BY <1>9, <1>2, <2>2, Zenon
<1>5. SubSeq(FlattenSeq(s), e + 1, Len(FlattenSeq(s))) = Rest
      /\ SubSeq(FlattenSeq(s), 1, f - 1) = L(f - 1)
  <2>1. f - 1 \in 0..e
    BY <1>2
  <2>2. LET z == SubSeq(ls, 1, e) \o Rest
        IN  SubSeq(z, e + 1, Len(z)) = Rest /\ SubSeq(z, 1, f - 1) = SubSeq(ls, 1, f - 1)
    <3>1. e \in Nat /\ e <= Len(ls) /\ Rest \in Seq(S)
      BY <1>2, <1>4
    <3> HIDE DEF Rest
    <3> QED BY <1>10, <2>1, <3>1
  <2> QED BY <1>4, <2>2
<1>6. /\ FlattenSeq(t) = L(f - 1) \o FlattenSeq(SubSeq(t, f, Len(t))) /\ L(f - 1) \in Seq(S)
  <2>1. \A x \in 1..(f - 1) : t[x] = <<ls[x]>>
    <3> TAKE x \in 1..(f - 1)
    <3>1. x \in 1..e /\ x \in 1..Len(s) /\ x < f
      BY <1>2
    <3> QED BY <3>1 DEF Replaces
  <2>2. f - 1 \in Nat /\ f - 1 <= Len(t) /\ f - 1 <= Len(ls) /\ f - 1 + 1 = f
    BY <1>2
  <2>3. FlattenSeq(t) = L(f - 1) \o FlattenSeq(SubSeq(t, f - 1 + 1, Len(t))) /\ L(f - 1) \in Seq(S)
    <3>1. Leads(t, ls, f - 1)
      BY <2>1, <2>2 DEF Leads
    <3> QED BY <1>9, <2>2, <3>1, Zenon
  <2> QED BY <2>2, <2>3
<1>7. FlattenSeq(SubSeq(t, f, Len(t))) = text \o Rest
  <2>1. CASE f <= e
    <3>1. t[f] = text /\ \A x \in (f + 1)..e : t[x] = <<>>
      BY <2>1 DEF Replaces
    <3>2. f \in 1..Len(t) /\ e \in f..Len(t) /\ e + 1 \in Nat \ {0} /\ Len(s) = Len(t)
      BY <1>2, <2>1, SMTT(30)
    <3>3. FlattenSeq(SubSeq(t, f, Len(t))) = t[f] \o FlattenSeq(SubSeq(t, e + 1, Len(t)))
      BY <3>1, <3>2, FlattenSkip
    <3>4. \A x \in (e + 1)..Len(t) : t[x] = s[x]
      <4> TAKE x \in (e + 1)..Len(t)
      <4>1. x \in 1..Len(s) /\ x > e /\ x # f
        BY <1>2, <2>1
      <4> QED BY <4>1 DEF Replaces
    <3>5. SubSeq(t, e + 1, Len(t)) = SubSeq(s, e + 1, Len(s))
      BY <3>2, <3>4, RestsAgree
    <3> QED BY <3>1, <3>3, <3>5
  <2>2. CASE f = e + 1
    <3>1. t[f] = text \o s[f]
      BY <1>2, <2>2 DEF Replaces
    <3>2. f \in 1..Len(t) /\ f \in 1..Len(s) /\ f + 1 \in Nat \ {0} /\ Len(s) = Len(t)
      BY <1>2
    <3>3. FlattenSeq(SubSeq(t, f, Len(t))) = t[f] \o FlattenSeq(SubSeq(t, f + 1, Len(t)))
      BY <3>2, FlattenNext
    <3>4. Rest = s[f] \o FlattenSeq(SubSeq(s, f + 1, Len(s)))
      BY <2>2, <3>2, FlattenNext
    <3>5. \A x \in (f + 1)..Len(t) : t[x] = s[x]
      <4> TAKE x \in (f + 1)..Len(t)
      <4>1. x \in 1..Len(s) /\ x > e /\ x # f
        BY <1>2, <2>2
      <4> QED BY <4>1 DEF Replaces
    <3>6. SubSeq(t, f + 1, Len(t)) = SubSeq(s, f + 1, Len(s))
      BY <3>2, <3>5, RestsAgree
    <3>7. FlattenSeq(SubSeq(s, f + 1, Len(s))) \in Seq(S)
      <4>1. f + 1 \in Int /\ f + 1 >= 1 /\ Len(s) \in Int /\ Len(s) <= Len(s)
        BY <1>2
      <4>2. SubSeq(s, f + 1, Len(s)) \in Seq(Seq(S))
        BY <4>1, PartOfSeq
      <4> QED BY <4>2, FlattenType
    <3>8. (text \o s[f]) \o FlattenSeq(SubSeq(s, f + 1, Len(s)))
            = text \o (s[f] \o FlattenSeq(SubSeq(s, f + 1, Len(s))))
      BY <1>1, <1>3, <3>7, Zenon
    <3> QED BY <3>1, <3>3, <3>4, <3>6, <3>8, Zenon
  <2>3. f <= e \/ f = e + 1
    BY <1>2
  <2> QED BY <2>1, <2>2, <2>3
<1>8. (L(f - 1) \o text) \o Rest = L(f - 1) \o (text \o Rest)
  BY <1>1, <1>4, <1>6, Zenon
<1> QED BY <1>5, <1>6, <1>7, <1>8, Zenon

-----------------------------------------------------------------------------
(* The operators of EdCommands return what they should.                    *)

\* Stripping a CR leaves a line a line (phpatcher_split_lines).
LEMMA ChompType == ASSUME NEW l \in Line PROVE Chomp(l) \in Line
<1>1. l.trail \in Seq(Blank) /\ Len(l.trail) \in Nat
  BY LenProperties DEF Line
<1>2. SubSeq(l.trail, 1, Len(l.trail) - 1) \in Seq(Blank)
  BY <1>1, PartOfSeq
<1> QED BY <1>1, <1>2 DEF Chomp, Line

\* Padding a core between blanks gives a line (EdRef::TrimPad).
LEMMA PadLineType ==
    ASSUME NEW a \in Seq(Blank), NEW c \in Core, NEW b \in Seq(Blank)
    PROVE  PadLine(a, c, b) \in Line
<1>1. a \o b \in Seq(Blank) /\ <<>> \in Seq(Blank)
  BY ConcatProperties, EmptySeq
<1> QED BY <1>1 DEF PadLine, Line

\* A line that is trimmed is a line (trim_blanks); without a feed nothing is left but its
\* text.
LEMMA TrimmedSides ==
    ASSUME NEW s \in Seq(Blank)
    PROVE  /\ StripLead(s) \in Seq(Blank) /\ StripTrail(s) \in Seq(Blank)
           /\ Feeds(s) = {} => StripLead(s) = <<>> /\ StripTrail(s) = <<>>
<1>1. Len(s) \in Nat /\ DOMAIN s = 1..Len(s) /\ <<>> \in Seq(Blank)
  BY LenProperties, EmptySeq
<1>2. CASE Feeds(s) = {}
  BY <1>1, <1>2 DEF StripLead, StripTrail
<1>3. CASE Feeds(s) # {}
  <2>1. Feeds(s) \in SUBSET (1..Len(s)) /\ Feeds(s) \in SUBSET (0..Len(s))
        /\ Feeds(s) \in SUBSET Nat
    BY <1>1 DEF Feeds
  <2>2. Max(Feeds(s)) \in Feeds(s)
    BY <1>1, <1>3, <2>1, Greatest
  <2>3. Min(Feeds(s)) \in Feeds(s)
    <3>1. \E x \in Feeds(s) : \A y \in Feeds(s) : x <= y
      BY <1>3, <2>1, Least
    <3> QED BY <3>1 DEF Min
  <2>4. Max(Feeds(s)) \in 1..Len(s) /\ Min(Feeds(s)) \in 1..Len(s)
    BY <2>1, <2>2, <2>3
  <2>5. SubSeq(s, Min(Feeds(s)), Len(s)) \in Seq(Blank)
    BY <1>1, <2>4, PartOfSeq
  <2>6. SubSeq(s, 1, Max(Feeds(s))) \in Seq(Blank)
    BY <1>1, <2>4, PartOfSeq
  <2> QED BY <1>3, <2>5, <2>6 DEF StripLead, StripTrail
<1> QED BY <1>2, <1>3

LEMMA TrimBlanksType ==
    ASSUME NEW l \in Line PROVE TrimBlanks(l) \in Line /\ TrimBlanks(l).core = l.core
<1>1. l.lead \in Seq(Blank) /\ l.core \in Core /\ l.trail \in Seq(Blank)
  BY DEF Line
<1>2. StripLead(l.lead) \in Seq(Blank) /\ StripTrail(l.trail) \in Seq(Blank)
  BY <1>1, TrimmedSides
<1>3. StripLead(StripTrail(l.trail)) \in Seq(Blank)
  BY <1>2, TrimmedSides
<1> QED BY <1>1, <1>2, <1>3 DEF TrimBlanks, Line

\* So is a line between two more pads (EdRef::TrimPad).
LEMMA PadType ==
    ASSUME NEW a \in Seq(Blank), NEW l \in Line, NEW b \in Seq(Blank)
    PROVE  Pad(a, TrimBlanks(l), b) \in Line
<1>1. PICK t : t = TrimBlanks(l)
  OBVIOUS
<1>2. t.lead \in Seq(Blank) /\ t.core \in Core /\ t.trail \in Seq(Blank)
  BY <1>1, TrimBlanksType DEF Line
<1>3. a \o t.lead \in Seq(Blank) /\ t.trail \o b \in Seq(Blank)
  BY <1>2, ConcatProperties
<1>4. Pad(a, t, b) \in Line
  BY <1>2, <1>3, PadLineType DEF Pad
<1> QED BY <1>1, <1>4

\* A file split for its corpus lines has lines.
LEMMA CorpusLinesType ==
    ASSUME NEW f \in File PROVE CorpusLines(f) \in Seq(Line)
<1>1. f.lines \in Seq(Line) /\ Len(f.lines) \in Nat /\ DOMAIN f.lines = 1..Len(f.lines)
  BY LenProperties DEF File
<1>2. \A i \in 1..Len(f.lines) : f.lines[i] \in Line /\ Chomp(f.lines[i]) \in Line
  BY <1>1, ElementOfSeq, ChompType
<1>3. CorpusLines(f) \in [1..Len(f.lines) -> Line]
  BY <1>1, <1>2 DEF CorpusLines
<1> QED BY <1>1, <1>3, FunctionIsSeq

\* A transform makes lines of lines.
LEMMA TransformLines ==
    ASSUME NEW run \in Seq(Line), NEW r \in Ref PROVE Transform(run, r) \in Seq(Line)
<1>1. r.lpad \in Seq(Blank) /\ r.rpad \in Seq(Blank)
  BY DEF Ref
<1>2. Len(run) \in Nat /\ DOMAIN run = 1..Len(run)
      /\ \A i \in 1..Len(run) : run[i] \in Line
  BY LenProperties, ElementOfSeq
<1>3. CASE r.trim
  <2>1. \A i \in 1..Len(run) : Pad(r.lpad, TrimBlanks(run[i]), r.rpad) \in Line
    BY <1>1, <1>2, PadType
  <2>2. Transform(run, r) \in [1..Len(run) -> Line]
    BY <2>1, <1>2, <1>3 DEF Transform
  <2> QED BY <2>2, <1>2, FunctionIsSeq
<1> QED BY <1>3 DEF Transform

\* A reference resolves to lines, whatever its transform.
LEMMA TransformType ==
    ASSUME NEW ls \in Seq(Line), NEW r \in Ref,
           1 <= r.begin, r.begin <= r.end, r.end <= Len(ls)
    PROVE  Transform(Run(ls, r), r) \in Seq(Line)
<1>1. r.begin \in Int /\ r.end \in Int
  BY DEF Ref
<1>2. Run(ls, r) \in Seq(Line)
  BY <1>1, PartOfSeq DEF Run
<1> QED BY <1>2, TransformLines

\* join_lines writes a file.
LEMMA JoinLinesType ==
    ASSUME NEW ls \in Seq(Line), NEW nl \in BOOLEAN
    PROVE  JoinLines(ls, nl) \in File
<1>1. <<>> \in Seq(Line) /\ Len(ls) \in Nat
  BY EmptySeq, LenProperties
<1>2. SubSeq(ls, 1, Len(ls) - 1) \in Seq(Line)
  BY <1>1, PartOfSeq
<1> QED BY <1>1, <1>2 DEF JoinLines, File, EmptyFile

\* A command that fits a sequence leaves a sequence of lines: the part under its
\* range, its text, and the part over its range.
LEMMA SpliceParts ==
    ASSUME NEW ls \in Seq(Line), NEW c \in Command, NEW text \in Seq(Line),
           InRange(c, Len(ls))
    PROVE  /\ From(c) \in 1..(Len(ls) + 1) /\ To(c) \in Nat
           /\ From(c) - 1 <= To(c) /\ To(c) <= Len(ls) /\ To(c) <= AddressedTop(c)
           /\ SubSeq(ls, 1, From(c) - 1) \in Seq(Line)
           /\ Len(SubSeq(ls, 1, From(c) - 1)) = From(c) - 1
           /\ SubSeq(ls, To(c) + 1, Len(ls)) \in Seq(Line)
           /\ Splice(ls, c, text) \in Seq(Line)
<1>1. Len(ls) \in Nat
  BY LenProperties
<1>2. From(c) \in 1..(Len(ls) + 1) /\ To(c) \in Nat
      /\ From(c) - 1 <= To(c) /\ To(c) <= Len(ls) /\ To(c) <= AddressedTop(c)
  BY <1>1 DEF InRange, From, To, Command, AddressedTop
<1>3. SubSeq(ls, 1, From(c) - 1) \in Seq(Line)
      /\ Len(SubSeq(ls, 1, From(c) - 1)) = From(c) - 1
  BY <1>1, <1>2, PartOfSeq
<1>4. SubSeq(ls, To(c) + 1, Len(ls)) \in Seq(Line)
  BY <1>1, <1>2, PartOfSeq
<1>5. Splice(ls, c, text) \in Seq(Line)
  BY <1>3, <1>4, ConcatProperties DEF Splice
<1> QED BY <1>2, <1>3, <1>4, <1>5
==============================================================================
