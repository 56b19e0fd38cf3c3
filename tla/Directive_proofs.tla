------------------------- MODULE Directive_proofs --------------------------
(***************************************************************************)
(* Proofs about ReadUint and Directive.  A number is read exactly, for any *)
(* width of the integers.  Whatever line emit_ref writes, the parser reads *)
(* the reference back: LineInv says what is left of the line at each step. *)
(***************************************************************************)
EXTENDS Directive, EdLemmas

-----------------------------------------------------------------------------
(* The number readers.                                                     *)

\* What is refused and accepted, as long as nothing has wrapped.
IInv ==
    /\ TypeOK
    /\ status # "refused" => value = number
    /\ reader = "uint" /\ status # "refused" => value < MAX
    /\ RefusedIsTooBig

\* The two tests leave room for the digit, and refuse nothing else.
LEMMA Room ==
    ASSUME NEW v \in Nat, NEW d \in 0..9
    PROVE  /\ v <= (MAX - 9) \div 10 => v * 10 + d < MAX
           /\ v <= (MAX - d) \div 10 => v * 10 + d <= MAX
           /\ v > (MAX - 9) \div 10 => v * 10 + d > MAX - 9
           /\ v > (MAX - d) \div 10 => v * 10 + d > MAX
BY MaxAssumption

LEMMA InvInit == Init => IInv
BY MaxAssumption DEF Init, IInv, TypeOK, RefusedIsTooBig

LEMMA InvNext == IInv /\ [Next]_vars => IInv'
<1> SUFFICES ASSUME IInv, [Next]_vars PROVE IInv'
  OBVIOUS
<1>1. CASE EndNumber
  BY <1>1 DEF EndNumber, IInv, TypeOK, RefusedIsTooBig
<1>2. ASSUME NEW d \in 0..9, TakeDigit(d) PROVE IInv'
  <2>1. value \in Nat /\ value = number /\ MAX \in Nat
    BY <1>2, MaxAssumption DEF TakeDigit, IInv, TypeOK
  <2>2. CASE TooBig(d)
    <3>1. status' = "refused" /\ value' = value /\ number' = number * 10 + d
          /\ digits' = digits + 1 /\ reader' = reader
      BY <1>2, <2>2 DEF TakeDigit
    <3>2. IF reader = "uint" THEN number' > MAX - 9 ELSE number' > MAX
      BY <2>1, <2>2, <3>1, Room DEF TooBig
    <3> QED BY <3>1, <3>2 DEF IInv, TypeOK, RefusedIsTooBig
  <2>3. CASE ~TooBig(d)
    <3>1. value' = value * 10 + d /\ number' = number * 10 + d /\ status' = "reading"
          /\ digits' = digits + 1 /\ reader' = reader
      BY <1>2, <2>3 DEF TakeDigit
    <3>2. value' <= MAX /\ (reader = "uint" => value' < MAX)
      <4>1. reader = "uint" => value <= (MAX - 9) \div 10
        BY <2>1, <2>3 DEF TooBig
      <4>2. reader # "uint" => value <= (MAX - d) \div 10
        BY <2>1, <2>3 DEF TooBig
      <4> QED BY <2>1, <3>1, <4>1, <4>2, Room
    <3> QED BY <2>1, <3>1, <3>2 DEF IInv, TypeOK, RefusedIsTooBig
  <2> QED BY <2>2, <2>3
<1>3. CASE UNCHANGED vars
  BY <1>3 DEF vars, IInv, TypeOK, RefusedIsTooBig
<1> QED BY <1>1, <1>2, <1>3 DEF Next

\* The accumulator always fits its type.
THEOREM TypeCorrect == Spec => []TypeOK
<1>1. IInv => TypeOK
  BY DEF IInv
<1> QED BY <1>1, InvInit, InvNext, PTL DEF Spec

\* A number that is accepted is read for what it is, without overflow, and an
\* address is below the largest integer.
THEOREM ReadsExactly == Spec => []Exact
<1>1. IInv => Exact
  BY MaxAssumption DEF IInv, TypeOK, Exact
<1> QED BY <1>1, InvInit, InvNext, PTL DEF Spec

\* Only what does not fit, or hardly, is refused.
THEOREM RefusesOnlyTooBig == Spec => []RefusedIsTooBig
<1>1. IInv => RefusedIsTooBig
  BY DEF IInv
<1> QED BY <1>1, InvInit, InvNext, PTL DEF Spec

-----------------------------------------------------------------------------
(* What is left of a line that the generator wrote: what belongs to the field *)
(* that is being read, and all that was written after it.                     *)

LeftAt(p) == SubSeq(text, p, Len(text))

Fresh(which) == reader = which /\ status = "reading" /\ value = 0 /\ number = 0 /\ digits = 0

InQuote(s, after) ==
    \E n \in 0..Len(s) :
        /\ got = SubSeq(s, 1, n)
        /\ LeftAt(pos) = EscapedAll(SubSeq(s, n + 1, Len(s))) \o (<<"\"">> \o after)

InNumber(which, n, after) ==
    /\ reader = which /\ got = <<>> /\ number \in Nat /\ value = number
    /\ \/ /\ status = "reading" /\ digits \in 0..Len(Decimal[n])
          /\ LeftAt(pos) = SubSeq(Decimal[n], digits + 1, Len(Decimal[n])) \o after
          /\ digits = 0 => number = 0
          /\ digits > 0 => Decimal[number] = SubSeq(Decimal[n], 1, digits)
       \/ status = "accepted" /\ number = n /\ LeftAt(pos) = after

\* The reference up to each field.
ToPath(r) == [NoRef EXCEPT !.path = r.path]
ToBegin(r) == [ToPath(r) EXCEPT !.begin = r.begin]
ToEnd(r) == [ToBegin(r) EXCEPT !.end = r.end]
ToLpad(r) == [ToEnd(r) EXCEPT !.lpad = r.lpad]
ToRpad(r) == [ToLpad(r) EXCEPT !.rpad = r.rpad, !.trim = r.trim]

AtStart(r) == /\ field = "r" /\ Fresh("uint") /\ got = <<>> /\ ref = NoRef
              /\ pos = 1 /\ LeftAt(1) = emit_ref(r)
AtPath(r) == /\ field = "quoted" /\ Fresh("uint") /\ ref = NoRef
             /\ InQuote(r.path, AfterPath(r))
AtBegin(r) == field = "begin" /\ ref = ToPath(r) /\ InNumber("uint", r.begin, AfterBegin(r))
AtEnd(r) == field = "end" /\ ref = ToBegin(r) /\ InNumber("uint", r.end, AfterEnd(r))
AtLpad(r) == /\ field = "lpad" /\ r.trim /\ Fresh("full") /\ ref = ToEnd(r)
             /\ InQuote(r.lpad, AfterLpad(r))
AtRpad(r) == /\ field = "rpad" /\ r.trim /\ Fresh("full") /\ ref = ToLpad(r)
             /\ InQuote(r.rpad, AfterRpad(r))
AtMeta(r) == /\ field = "meta" /\ Fresh("full") /\ got = <<>> /\ ref = ToRpad(r)
             /\ LeftAt(pos) = <<"#">> \o (<<" ">> \o make_guard(r))
AtGuard(r) == /\ field = "guard" /\ Fresh("full") /\ got = <<>> /\ ref = ToRpad(r)
              /\ LeftAt(pos) = make_guard(r)
AtBytes(r) == field = "bytes" /\ ~r.has_hash /\ ref = ToRpad(r) /\ InNumber("full", r.bytes, <<>>)
Guarded(r) == field = "guard" /\ ref = r /\ LeftAt(pos) = <<>>
Finished(r) == field = "ref" /\ ref = r

OnTheWay(r) == \/ AtStart(r) \/ AtPath(r) \/ AtBegin(r) \/ AtEnd(r) \/ AtLpad(r) \/ AtRpad(r)
               \/ AtMeta(r) \/ AtGuard(r) \/ AtBytes(r) \/ Guarded(r) \/ Finished(r)

LineInv ==
    written # NoRef => /\ written \in Refs /\ text \in Seq(Char) /\ pos \in 1..(Len(text) + 1)
                       /\ OnTheWay(written)

-----------------------------------------------------------------------------
(* Numbers in digits.                                                      *)

LEMMA DigitIs ==
    /\ \A d \in 0..9 : Digit[d + 1] \in Char /\ Digit[d + 1] \notin Blanks \cup {"\"", "#", "\\"}
    /\ \A d \in 0..9 : \A e \in 0..9 : Digit[d + 1] = Digit[e + 1] => d = e
<1>1. /\ Digit[1] = "0" /\ Digit[2] = "1" /\ Digit[3] = "2" /\ Digit[4] = "3" /\ Digit[5] = "4"
      /\ Digit[6] = "5" /\ Digit[7] = "6" /\ Digit[8] = "7" /\ Digit[9] = "8" /\ Digit[10] = "9"
  BY DEF Digit
<1>2. \A d \in 0..9 : d = 0 \/ d = 1 \/ d = 2 \/ d = 3 \/ d = 4 \/ d = 5 \/ d = 6 \/ d = 7 \/ d = 8 \/ d = 9
  OBVIOUS
<1>3. \A d \in 0..9 : Digit[d + 1] \in Char /\ Digit[d + 1] \notin Blanks \cup {"\"", "#", "\\"}
  <2>1. DOMAIN Digit = 1..10
    BY DEF Digit
  <2>2. \A d \in 0..9 : Digit[d + 1] \in Range(Digit)
    BY <2>1 DEF Range
  <2>3. \A d \in 0..9 : Digit[d + 1] \in Char
    BY <2>2, CharAssumption
  <2>4. ASSUME NEW d \in 0..9 PROVE Digit[d + 1] \notin Blanks \cup {"\"", "#", "\\"}
    <3>1. Digit[d + 1] \in {"0", "1", "2", "3", "4", "5", "6", "7", "8", "9"}
      BY <1>1, <1>2
    <3>2. {"0", "1", "2", "3", "4", "5", "6", "7", "8", "9"} \cap {" ", "\t", "\"", "#", "\\"} = {}
      OBVIOUS
    <3> QED BY <3>1, <3>2 DEF Blanks
  <2> QED BY <2>3, <2>4
<1>4. \A d \in 0..9 : \A e \in 0..9 : Digit[d + 1] = Digit[e + 1] => d = e
  BY <1>1, <1>2
<1> QED BY <1>3, <1>4

DigitChars == {Digit[d + 1] : d \in 0..9}

LEMMA DigitValues ==
    /\ DOMAIN DigitValue = DigitChars
    /\ DigitChars \subseteq Char /\ DigitChars \cap (Blanks \cup {"\"", "#", "\\"}) = {}
    /\ \A d \in 0..9 : DigitValue[Digit[d + 1]] = d
    /\ \A c \in DigitChars : DigitValue[c] \in 0..9
<1>1. DOMAIN Digit = 1..10
  BY DEF Digit
<1>2. Range(Digit) = DigitChars
  <2>1. \A i \in 1..10 : i - 1 \in 0..9 /\ Digit[i] = Digit[(i - 1) + 1]
    OBVIOUS
  <2>2. \A d \in 0..9 : d + 1 \in 1..10
    OBVIOUS
  <2> QED BY <1>1, <2>1, <2>2 DEF Range, DigitChars
<1>3. ASSUME NEW d \in 0..9 PROVE DigitValue[Digit[d + 1]] = d
  <2>1. Digit[d + 1] \in Range(Digit)
    BY <1>2 DEF DigitChars
  <2>2. DigitValue[Digit[d + 1]] = CHOOSE e \in 0..9 : Digit[e + 1] = Digit[d + 1]
    BY <2>1 DEF DigitValue
  <2> QED BY <2>2, DigitIs
<1>4. DOMAIN DigitValue = DigitChars
  BY <1>2 DEF DigitValue
<1>5. \A c \in DigitChars : DigitValue[c] \in 0..9
  BY <1>3 DEF DigitChars
<1>6. DigitChars \subseteq Char /\ DigitChars \cap (Blanks \cup {"\"", "#", "\\"}) = {}
  <2>1. \A c \in DigitChars : c \in Char /\ c \notin Blanks \cup {"\"", "#", "\\"}
    BY DigitIs DEF DigitChars
  <2> QED BY ONLY <2>1
<1> QED BY <1>3, <1>4, <1>5, <1>6

\* The recursion of Decimal, of which v is the value for n \div 10.
OneMoreDigit(v, n) == IF n < 10 THEN <<Digit[n + 1]>> ELSE Append(v, Digit[(n % 10) + 1])
Writes(f, S) == f = [n \in S |-> OneMoreDigit(f[n \div 10], n)]

LEMMA Tenth ==
    ASSUME NEW n \in Nat
    PROVE  /\ n \div 10 \in Nat /\ n % 10 \in 0..9 /\ n = (n \div 10) * 10 + (n % 10)
           /\ n \div 10 <= n /\ (n >= 10 => n \div 10 < n /\ n \div 10 > 0)
OBVIOUS

LEMMA WritesExists ==
    ASSUME NEW N \in Nat
    PROVE  \E f : Writes(f, 0..N)
<1> DEFINE T == {m \in 0..N : \E f : Writes(f, 0..m)}
<1>1. 0 \in T
  <2> DEFINE f == [n \in 0..0 |-> OneMoreDigit(<<>>, n)]
  <2>1. \A n \in 0..0 : OneMoreDigit(<<>>, n) = OneMoreDigit(f[n \div 10], n)
    BY DEF OneMoreDigit
  <2>2. Writes(f, 0..0)
    BY <2>1 DEF Writes
  <2> HIDE DEF f
  <2> QED BY <2>2
<1>2. ASSUME NEW m \in 0..(N - 1), m \in T PROVE m + 1 \in T
  <2>1. PICK f : Writes(f, 0..m)
    BY <1>2
  <2> DEFINE at(n) == IF n = m + 1 THEN OneMoreDigit(f[n \div 10], n) ELSE f[n]
             g == [n \in 0..(m + 1) |-> at(n)]
  <2>2. ASSUME NEW n \in 0..(m + 1) PROVE at(n) = OneMoreDigit(g[n \div 10], n)
    <3>1. CASE n < 10
      <4>1. n # m + 1 => f[n] = OneMoreDigit(f[n \div 10], n)
        BY <2>1 DEF Writes
      <4> HIDE DEF g
      <4> QED BY <3>1, <4>1 DEF OneMoreDigit
    <3>2. CASE n >= 10
      <4>1. n \div 10 \in 0..(m + 1) /\ n \div 10 # m + 1
        BY <3>2, Tenth
      <4>2. g[n \div 10] = f[n \div 10]
        BY <4>1
      <4>3. n # m + 1 => f[n] = OneMoreDigit(f[n \div 10], n)
        BY <2>1 DEF Writes
      <4> HIDE DEF g
      <4> QED BY <4>2, <4>3
    <3> QED BY <3>1, <3>2
  <2>3. Writes(g, 0..(m + 1))
    <3> HIDE DEF at
    <3> QED BY <2>2 DEF Writes
  <2>4. m + 1 \in 0..N
    OBVIOUS
  <2> HIDE DEF g
  <2> QED BY <2>3, <2>4
<1>3. N \in T
  <2> HIDE DEF T
  <2> QED BY <1>1, <1>2, UpTo
<1> QED BY <1>3

LEMMA WritesAgree ==
    ASSUME NEW a \in Nat, NEW b \in Nat, a <= b, NEW f, NEW g, Writes(f, 0..a), Writes(g, 0..b)
    PROVE  \A n \in 0..a : f[n] = g[n]
<1> DEFINE Bad == {n \in 0..a : f[n] # g[n]}
<1> SUFFICES ASSUME Bad # {} PROVE FALSE
  OBVIOUS
<1>0. Bad \in SUBSET Nat
  OBVIOUS
<1>1. \E x \in Bad : \A y \in Bad : x <= y
  <2> HIDE DEF Bad
  <2> QED BY <1>0, Least
<1>2. PICK x \in Bad : \A y \in Bad : x <= y
  BY <1>1
<1>3. x \in 0..a /\ x \in 0..b /\ x \in Nat /\ f[x] # g[x]
  OBVIOUS
<1>4. f[x] = OneMoreDigit(f[x \div 10], x) /\ g[x] = OneMoreDigit(g[x \div 10], x)
  BY <1>3 DEF Writes
<1>5. CASE x < 10
  BY <1>3, <1>4, <1>5 DEF OneMoreDigit
<1>6. CASE x >= 10
  <2>1. x \div 10 \in 0..a /\ x \div 10 < x
    BY <1>3, <1>6, Tenth
  <2>2. x \div 10 \notin Bad
    BY <1>2, <1>3, <2>1
  <2> QED BY <1>3, <1>4, <2>1, <2>2
<1> QED BY <1>3, <1>5, <1>6

LEMMA DecimalIs == \A n \in Nat : Decimal[n] = OneMoreDigit(Decimal[n \div 10], n)
<1> DEFINE G(n) == CHOOSE f : Writes(f, 0..n)
           F == [n \in Nat |-> G(n)[n]]
<1>1. ASSUME NEW n \in Nat PROVE Writes(G(n), 0..n)
  BY WritesExists
<1>2. ASSUME NEW n \in Nat PROVE G(n)[n] = OneMoreDigit(F[n \div 10], n)
  <2>1. n \div 10 \in Nat /\ n \div 10 <= n
    BY Tenth
  <2>2. Writes(G(n), 0..n) /\ Writes(G(n \div 10), 0..(n \div 10))
    BY <1>1, <2>1
  <2>3. F[n \div 10] = G(n \div 10)[n \div 10]
    BY <2>1
  <2> HIDE DEF G, F
  <2>4. n \div 10 \in 0..(n \div 10)
    BY <2>1
  <2>5. G(n \div 10)[n \div 10] = G(n)[n \div 10]
    BY <2>1, <2>2, <2>4, WritesAgree
  <2>6. n \in 0..n
    OBVIOUS
  <2>7. G(n)[n] = OneMoreDigit(G(n)[n \div 10], n)
    BY <2>2, <2>6 DEF Writes
  <2> QED BY <2>3, <2>5, <2>7
<1>3. Writes(F, Nat)
  <2> HIDE DEF G
  <2> QED BY <1>2 DEF Writes
<1>4. Writes(Decimal, Nat)
  <2> HIDE DEF F
  <2>1. Decimal = CHOOSE f : Writes(f, Nat)
    BY DEF Decimal, Writes, OneMoreDigit
  <2> QED BY <1>3, <2>1
<1> QED BY <1>4 DEF Writes

\* What Decimal writes for numbers of one digit and of more.
IsShort(n) == Decimal[n] = <<Digit[n + 1]>> /\ Len(Decimal[n]) = 1
IsLong(n) == /\ Decimal[n] = Append(Decimal[n \div 10], Digit[(n % 10) + 1])
             /\ Len(Decimal[n]) = Len(Decimal[n \div 10]) + 1 /\ Len(Decimal[n]) >= 2
IsNumeral(n) == Decimal[n] \in Seq(DigitChars) /\ Len(Decimal[n]) \in Nat /\ Len(Decimal[n]) >= 1

LEMMA ShortIs ==
    ASSUME NEW n \in Nat, n < 10
    PROVE  IsShort(n) /\ IsNumeral(n)
<1>1. Digit[n + 1] \in DigitChars
  BY DEF DigitChars
<1>2. Decimal[n] = OneMoreDigit(Decimal[n \div 10], n)
  BY DecimalIs
<1>3. Decimal[n] = <<Digit[n + 1]>>
  BY <1>2 DEF OneMoreDigit
<1> QED BY <1>1, <1>3 DEF IsShort, IsNumeral

LEMMA LongIs ==
    ASSUME NEW n \in Nat, n >= 10, IsNumeral(n \div 10)
    PROVE  IsLong(n) /\ IsNumeral(n)
<1>1. Digit[(n % 10) + 1] \in DigitChars
  BY Tenth DEF DigitChars
<1>2. Decimal[n] = OneMoreDigit(Decimal[n \div 10], n)
  BY DecimalIs
<1>3. Decimal[n] = Append(Decimal[n \div 10], Digit[(n % 10) + 1])
  BY <1>2 DEF OneMoreDigit
<1>4. Decimal[n \div 10] \in Seq(DigitChars) /\ Len(Decimal[n \div 10]) \in Nat
      /\ Len(Decimal[n \div 10]) >= 1
  BY DEF IsNumeral
<1>5. Decimal[n] \in Seq(DigitChars) /\ Len(Decimal[n]) = Len(Decimal[n \div 10]) + 1
  BY <1>1, <1>3, <1>4, AppendProperties
<1> QED BY <1>3, <1>4, <1>5 DEF IsLong, IsNumeral

LEMMA NumeralIs ==
    \A n \in Nat : IsNumeral(n) /\ (n < 10 => IsShort(n)) /\ (n >= 10 => IsLong(n))
<1> DEFINE Bad == {m \in Nat : ~IsNumeral(m)}
<1>1. Bad = {}
  <2> SUFFICES ASSUME Bad # {} PROVE FALSE
    OBVIOUS
  <2>0. Bad \in SUBSET Nat
    OBVIOUS
  <2>1. \E x \in Bad : \A y \in Bad : x <= y
    <3> HIDE DEF Bad
    <3> QED BY <2>0, Least
  <2>2. PICK x \in Bad : \A y \in Bad : x <= y
    BY <2>1
  <2>3. x \in Nat /\ ~IsNumeral(x) /\ \A m \in Nat : m < x => IsNumeral(m)
    BY <2>2
  <2>4. x >= 10
    BY <2>3, ShortIs
  <2>5. IsNumeral(x \div 10)
    BY <2>3, <2>4, Tenth
  <2> QED BY <2>3, <2>4, <2>5, LongIs
<1>2. \A n \in Nat : IsNumeral(n)
  BY <1>1
<1> QED BY <1>2, ShortIs, LongIs, Tenth

LEMMA DecimalType ==
    ASSUME NEW n \in Nat
    PROVE  /\ Decimal[n] \in Seq(DigitChars) /\ Len(Decimal[n]) \in Nat /\ Len(Decimal[n]) >= 1
           /\ n < 10 <=> Len(Decimal[n]) = 1
<1>1. IsNumeral(n) /\ (n < 10 => IsShort(n)) /\ (n >= 10 => IsLong(n))
  BY NumeralIs
<1>2. /\ Decimal[n] \in Seq(DigitChars) /\ Len(Decimal[n]) \in Nat /\ Len(Decimal[n]) >= 1
  BY <1>1 DEF IsNumeral
<1>3. n < 10 => Len(Decimal[n]) = 1
  BY <1>1 DEF IsShort
<1>4. n >= 10 => Len(Decimal[n]) >= 2
  BY <1>1 DEF IsLong
<1> QED BY <1>2, <1>3, <1>4

\* The beginning of a longer sequence, and of a beginning.
LEMMA PrefixOfAppend ==
    ASSUME NEW S, NEW s \in Seq(S), NEW a \in S, NEW i \in 1..Len(s)
    PROVE  SubSeq(Append(s, a), 1, i) = SubSeq(s, 1, i)
<1>1. Len(s) \in Nat /\ Append(s, a) \in Seq(S) /\ Len(Append(s, a)) = Len(s) + 1
      /\ \A j \in 1..Len(s) : Append(s, a)[j] = s[j]
  BY LenProperties, AppendProperties
<1>2. SubSeq(s, 1, i) \in Seq(S) /\ Len(SubSeq(s, 1, i)) = i
      /\ \A j \in 1..i : SubSeq(s, 1, i)[j] = s[j]
  BY <1>1, PartOfSeq
<1>3. SubSeq(Append(s, a), 1, i) \in Seq(S) /\ Len(SubSeq(Append(s, a), 1, i)) = i
      /\ \A j \in 1..i : SubSeq(Append(s, a), 1, i)[j] = Append(s, a)[j]
  BY <1>1, PartOfSeq
<1> QED BY <1>1, <1>2, <1>3, SeqEqual

LEMMA PrefixOfPrefix ==
    ASSUME NEW S, NEW s \in Seq(S), NEW i \in Nat, i + 1 <= Len(s)
    PROVE  SubSeq(SubSeq(s, 1, i + 1), 1, i) = SubSeq(s, 1, i)
<1> DEFINE t == SubSeq(s, 1, i + 1)
<1>1. Len(s) \in Nat
  BY LenProperties
<1>2. t \in Seq(S) /\ Len(t) = i + 1 /\ \A j \in 1..(i + 1) : t[j] = s[j]
  BY <1>1, PartOfSeq
<1>3. SubSeq(s, 1, i) \in Seq(S) /\ Len(SubSeq(s, 1, i)) = i
      /\ \A j \in 1..i : SubSeq(s, 1, i)[j] = s[j]
  BY <1>1, PartOfSeq
<1> HIDE DEF t
<1>4. SubSeq(t, 1, i) \in Seq(S) /\ Len(SubSeq(t, 1, i)) = i
      /\ \A j \in 1..i : SubSeq(t, 1, i)[j] = t[j]
  BY <1>2, PartOfSeq
<1> QED BY <1>2, <1>3, <1>4, SeqEqual DEF t

LEMMA DecimalUnique ==
    ASSUME NEW m \in Nat, NEW n \in Nat, Decimal[m] = Decimal[n]
    PROVE  m = n
<1> DEFINE Bad == {i \in Nat : \E j \in Nat : Decimal[i] = Decimal[j] /\ i # j}
<1> SUFFICES ASSUME m # n PROVE FALSE
  OBVIOUS
<1>0. Bad \in SUBSET Nat /\ Bad # {}
  OBVIOUS
<1>1. \E x \in Bad : \A y \in Bad : x <= y
  <2> HIDE DEF Bad
  <2> QED BY <1>0, Least
<1>2. PICK x \in Bad : \A y \in Bad : x <= y
  BY <1>1
<1>3. PICK j \in Nat : Decimal[x] = Decimal[j] /\ x # j
  OBVIOUS
<1>4. x \in Nat /\ \A i \in Nat : i < x => i \notin Bad
  BY <1>2
<1>5. CASE x < 10
  <2>1. Len(Decimal[x]) = 1
    BY <1>4, <1>5, DecimalType
  <2>2. j < 10
    BY <1>3, <2>1, DecimalType
  <2>3. <<Digit[x + 1]>> = <<Digit[j + 1]>>
    <3>1. IsShort(x) /\ IsShort(j)
      BY <1>4, <1>5, <2>2, NumeralIs
    <3> QED BY <1>3, <3>1 DEF IsShort
  <2>4. Digit[x + 1] = Digit[j + 1] /\ x \in 0..9 /\ j \in 0..9
    BY <1>4, <1>5, <2>2, <2>3
  <2> QED BY <1>3, <2>4, DigitIs
<1>6. CASE x >= 10
  <2>1. IsLong(x) /\ Len(Decimal[x]) # 1
    BY <1>4, <1>6, NumeralIs, DecimalType
  <2>2. j >= 10
    BY <1>3, <2>1, DecimalType
  <2>3. IsLong(j)
    BY <2>2, NumeralIs
  <2>4. /\ x \div 10 \in Nat /\ x \div 10 < x /\ j \div 10 \in Nat
        /\ Decimal[x \div 10] \in Seq(DigitChars) /\ Decimal[j \div 10] \in Seq(DigitChars)
        /\ Digit[(x % 10) + 1] \in DigitChars /\ Digit[(j % 10) + 1] \in DigitChars
    BY <1>4, <1>6, Tenth, DecimalType DEF DigitChars
  <2>5. Decimal[x \div 10] = Decimal[j \div 10] /\ Digit[(x % 10) + 1] = Digit[(j % 10) + 1]
    <3>1. Append(Decimal[x \div 10], Digit[(x % 10) + 1]) = Append(Decimal[j \div 10], Digit[(j % 10) + 1])
      BY <1>3, <2>1, <2>3 DEF IsLong
    <3> DEFINE s == Decimal[x \div 10]
               t == Decimal[j \div 10]
               a == Digit[(x % 10) + 1]
               b == Digit[(j % 10) + 1]
    <3>2. s \in Seq(DigitChars) /\ t \in Seq(DigitChars) /\ a \in DigitChars /\ b \in DigitChars
          /\ Append(s, a) = Append(t, b)
      BY <2>4, <3>1
    <3> HIDE DEF s, t, a, b
    <3>3. s = t /\ a = b
      BY <3>2, AppendInjective
    <3> QED BY <3>3 DEF s, t, a, b
  <2>6. x \div 10 = j \div 10
    BY <1>4, <2>4, <2>5
  <2>7. x % 10 = j % 10
    BY <1>4, <2>5, Tenth, DigitIs
  <2> QED BY <1>3, <1>4, <2>6, <2>7, Tenth
<1> QED BY <1>4, <1>5, <1>6

\* The first digits of a number are those of a number that is not larger.
LEMMA DecimalPrefix ==
    ASSUME NEW n \in Nat
    PROVE  \A i \in 1..Len(Decimal[n]) : \E m \in 0..n : Decimal[m] = SubSeq(Decimal[n], 1, i)
<1> DEFINE Good(k) == \A i \in 1..Len(Decimal[k]) :
                          \E m \in 0..k : Decimal[m] = SubSeq(Decimal[k], 1, i)
           Bad == {k \in Nat : ~Good(k)}
<1> SUFFICES ASSUME Bad # {} PROVE FALSE
  OBVIOUS
<1>0. Bad \in SUBSET Nat
  OBVIOUS
<1>1. \E x \in Bad : \A y \in Bad : x <= y
  <2> HIDE DEF Bad
  <2> QED BY <1>0, Least
<1>2. PICK x \in Bad : \A y \in Bad : x <= y
  BY <1>1
<1>3. x \in Nat /\ ~Good(x)
  OBVIOUS
<1>4. \A k \in Nat : k < x => Good(k)
  <2> HIDE DEF Good
  <2> QED BY <1>2, <1>3
<1>5. ASSUME NEW i \in 1..Len(Decimal[x])
      PROVE  \E m \in 0..x : Decimal[m] = SubSeq(Decimal[x], 1, i)
  <2>1. CASE i = Len(Decimal[x])
    <3>1. SubSeq(Decimal[x], 1, i) = Decimal[x]
      BY <1>3, <2>1, DecimalType, SubSeqFull
    <3>2. x \in 0..x
      BY <1>3
    <3> QED BY <3>1, <3>2
  <2>2. CASE i # Len(Decimal[x])
    <3>1. Len(Decimal[x]) \in Nat
      BY <1>3, DecimalType
    <3>2. x >= 10 /\ i < Len(Decimal[x])
      <4> DEFINE l == Len(Decimal[x])
      <4>0. l \in Nat /\ i \in 1..l /\ i # l
        BY <2>2, <3>1
      <4> HIDE DEF l
      <4>1. i < l /\ l # 1
        BY <4>0
      <4> USE DEF l
      <4> QED BY <1>3, <4>1, DecimalType
    <3> DEFINE k == x \div 10
    <3>3. k \in Nat /\ k < x
      BY <1>3, <3>2, Tenth
    <3>4. /\ Decimal[x] = Append(Decimal[k], Digit[(x % 10) + 1]) /\ Len(Decimal[x]) = Len(Decimal[k]) + 1
          /\ Decimal[k] \in Seq(DigitChars) /\ Len(Decimal[k]) \in Nat
          /\ Digit[(x % 10) + 1] \in DigitChars
      <4>1. IsLong(x) /\ Digit[(x % 10) + 1] \in DigitChars
        BY <1>3, <3>2, NumeralIs, Tenth DEF DigitChars
      <4>2. Decimal[k] \in Seq(DigitChars) /\ Len(Decimal[k]) \in Nat
        BY <3>3, DecimalType
      <4> QED BY <4>1, <4>2 DEF IsLong
    <3>5. i \in 1..Len(Decimal[k])
      BY <3>1, <3>2, <3>4
    <3>6. PICK m \in 0..k : Decimal[m] = SubSeq(Decimal[k], 1, i)
      BY <1>4, <3>3, <3>5
    <3> HIDE DEF k
    <3>7. SubSeq(Decimal[x], 1, i) = SubSeq(Decimal[k], 1, i)
      BY <3>4, <3>5, PrefixOfAppend
    <3>8. m \in 0..x
      BY <1>3, <3>3
    <3> QED BY <3>6, <3>7, <3>8
  <2> QED BY <2>1, <2>2
<1> QED BY <1>3, <1>5

\* Reading one digit more.
LEMMA DigitRead ==
    ASSUME NEW n \in Nat, NEW i \in Nat, i < Len(Decimal[n]), NEW k \in Nat,
           i = 0 => k = 0, i > 0 => Decimal[k] = SubSeq(Decimal[n], 1, i)
    PROVE  LET d == DigitValue[Decimal[n][i + 1]]
           IN  /\ Decimal[n][i + 1] \in DigitChars /\ d \in 0..9
               /\ k * 10 + d <= n /\ k * 10 + d \in Nat
               /\ Decimal[k * 10 + d] = SubSeq(Decimal[n], 1, i + 1)
<1> DEFINE c == Decimal[n][i + 1]
           s == SubSeq(Decimal[n], 1, i + 1)
<1>1. Decimal[n] \in Seq(DigitChars) /\ Len(Decimal[n]) \in Nat
  BY DecimalType
<1>2. c \in DigitChars /\ i + 1 \in 1..Len(Decimal[n])
  BY <1>1, ElementOfSeq
<1>3. PICK m \in 0..n : Decimal[m] = s
  BY <1>2, DecimalPrefix
<1>4. Len(s) = i + 1 /\ s[i + 1] = c
  BY <1>1, <1>2, SubSeqProperties
<1>5. m \in Nat
  OBVIOUS
<1> HIDE DEF s
<1> HIDE DEF c
<1>6. DigitValue[c] = m % 10 /\ k = m \div 10
  <2>1. CASE i = 0
    <3>1. m < 10
      <4>1. Len(Decimal[m]) = 1
        BY <1>3, <1>4, <2>1
      <4> QED BY <1>5, <4>1, DecimalType
    <3>2. s = <<Digit[m + 1]>>
      <4>1. IsShort(m)
        BY <1>5, <3>1, NumeralIs
      <4> QED BY <1>3, <4>1 DEF IsShort
    <3>3. c = Digit[m + 1]
      BY <1>4, <2>1, <3>2
    <3>4. DigitValue[c] = m
      <4>1. m \in 0..9
        BY <1>5, <3>1
      <4> QED BY <3>3, <4>1, DigitValues
    <3> QED BY <1>5, <2>1, <3>1, <3>4
  <2>2. CASE i # 0
    <3>1. m >= 10
      <4>1. Len(Decimal[m]) # 1
        BY <1>3, <1>4, <2>2
      <4> QED BY <1>5, <4>1, DecimalType
    <3> DEFINE q == m \div 10
    <3>2. q \in Nat /\ m % 10 \in 0..9
      BY <1>5, Tenth
    <3>3. s = Append(Decimal[q], Digit[(m % 10) + 1]) /\ Len(s) = Len(Decimal[q]) + 1
          /\ Decimal[q] \in Seq(DigitChars) /\ Len(Decimal[q]) \in Nat
          /\ Digit[(m % 10) + 1] \in DigitChars
      <4>1. IsLong(m) /\ Digit[(m % 10) + 1] \in DigitChars
        BY <1>5, <3>1, <3>2, NumeralIs DEF DigitChars
      <4>2. Decimal[q] \in Seq(DigitChars) /\ Len(Decimal[q]) \in Nat
        BY <3>2, DecimalType
      <4> QED BY <1>3, <4>1, <4>2 DEF IsLong
    <3> HIDE DEF q
    <3>4. Len(Decimal[q]) = i
      BY <1>4, <3>3
    <3>5. c = Digit[(m % 10) + 1]
      BY <1>4, <3>3, <3>4, AppendProperties
    <3>6. DigitValue[c] = m % 10
      BY <3>2, <3>5, DigitValues
    <3>7. SubSeq(s, 1, i) = Decimal[q]
      BY <2>2, <3>3, <3>4, PrefixOfAppend, SubSeqFull
    <3>8. SubSeq(s, 1, i) = SubSeq(Decimal[n], 1, i)
      BY <1>1, <1>2, <2>2, PrefixOfPrefix DEF s
    <3>9. Decimal[k] = Decimal[q]
      BY <2>2, <3>7, <3>8
    <3> QED BY <3>2, <3>6, <3>9, DecimalUnique DEF q
  <2> QED BY <2>1, <2>2
<1>7. k * 10 + DigitValue[c] = m
  BY <1>5, <1>6, Tenth
<1>8. DigitValue[c] \in 0..9
  BY <1>2, DigitValues
<1> QED BY <1>2, <1>3, <1>5, <1>7, <1>8 DEF s, c

-----------------------------------------------------------------------------
(* The line from a place on.                                               *)

LEMMA Letters ==
    /\ {" ", "\"", "\\", "r", "t", "n", "#", "s:", "h:"} \subseteq Char
    /\ End \notin Char /\ DigitChars \subseteq Char
BY CharAssumption, DigitValues

\* The character at p is c, and after it comes t.
Here(p, c, t) == At(p) = c /\ p + 1 \in 1..(Len(text) + 1) /\ LeftAt(p + 1) = t

LEMMA ConsEqual ==
    ASSUME NEW S, NEW c \in S, NEW d \in S, NEW t \in Seq(S), NEW u \in Seq(S),
           <<c>> \o t = <<d>> \o u
    PROVE  c = d /\ t = u
<1> DEFINE x == <<c>>
           y == <<d>>
<1>1. x \in Seq(S) /\ y \in Seq(S) /\ Len(x) = 1 /\ Len(y) = 1 /\ x[1] = c /\ y[1] = d
      /\ x \o t = y \o u /\ (c = d => x = y)
  OBVIOUS
<1> HIDE DEF x, y
<1>2. Len(t) \in Nat /\ Len(u) \in Nat
  BY LenProperties
<1>3. (x \o t)[1] = x[1]
  BY <1>1, <1>2, ConcatProperties
<1>4. (y \o u)[1] = y[1]
  BY <1>1, <1>2, ConcatProperties
<1>5. c = d
  BY <1>1, <1>3, <1>4
<1>6. x \o t = x \o u
  BY <1>1, <1>5
<1>7. t = u
  BY <1>1, <1>6, ConcatSimplifications, Zenon
<1> QED BY <1>5, <1>7

LEMMA Reads ==
    ASSUME text \in Seq(Char), NEW p \in 1..(Len(text) + 1), NEW c \in Char, NEW t \in Seq(Char),
           LeftAt(p) = <<c>> \o t
    PROVE  Here(p, c, t)
<1>1. Len(text) \in Nat /\ Len(t) \in Nat /\ DOMAIN text = 1..Len(text)
  BY LenProperties
<1>2. <<c>> \in Seq(Char) /\ Len(<<c>>) = 1
  OBVIOUS
<1>3. Len(<<c>> \o t) = 1 + Len(t)
  BY <1>2, ConcatProperties
<1>4. Len(LeftAt(p)) = IF p <= Len(text) THEN Len(text) - p + 1 ELSE 0
  <2>1. p \in Int /\ p >= 1 /\ Len(text) \in Int /\ Len(text) <= Len(text)
    BY <1>1
  <2> QED BY <2>1, PartOfSeq DEF LeftAt
<1>5. p \in 1..Len(text)
  BY <1>1, <1>3, <1>4
<1>6. LeftAt(p) = <<text[p]>> \o LeftAt(p + 1)
  BY <1>1, <1>5, SubSeqRecursiveFirst DEF LeftAt
<1>7. text[p] \in Char /\ LeftAt(p + 1) \in Seq(Char)
  <2>1. p + 1 \in Int /\ p + 1 >= 1 /\ Len(text) \in Int /\ Len(text) <= Len(text)
    BY <1>1
  <2> QED BY <1>5, <2>1, PartOfSeq, ElementOfSeq DEF LeftAt
<1>8. <<text[p]>> \in Seq(Char) /\ Len(<<text[p]>>) = 1
  BY <1>7
<1>9. <<c>> \o t = <<text[p]>> \o LeftAt(p + 1)
  BY <1>6
<1>10. c = text[p] /\ t = LeftAt(p + 1)
  <2> DEFINE u == LeftAt(p + 1)
             d == text[p]
  <2>1. <<c>> \o t = <<d>> \o u /\ u \in Seq(Char) /\ d \in Char
    BY <1>7, <1>9
  <2> HIDE DEF u, d
  <2>2. c = d /\ t = u
    BY <2>1, ConsEqual
  <2> QED BY <2>2 DEF u, d
<1>11. At(p) = c
  BY <1>1, <1>5, <1>10 DEF At
<1> QED BY <1>1, <1>5, <1>10, <1>11 DEF Here

LEMMA ReadsEnd ==
    ASSUME text \in Seq(Char), NEW p \in 1..(Len(text) + 1), LeftAt(p) = <<>>
    PROVE  At(p) = End
<1>1. Len(text) \in Nat /\ DOMAIN text = 1..Len(text)
  BY LenProperties
<1>2. Len(LeftAt(p)) = IF p <= Len(text) THEN Len(text) - p + 1 ELSE 0
  <2>1. p \in Int /\ p >= 1 /\ Len(text) \in Int /\ Len(text) <= Len(text)
    BY <1>1
  <2> QED BY <2>1, PartOfSeq DEF LeftAt
<1>3. Len(LeftAt(p)) = 0
  OBVIOUS
<1> QED BY <1>1, <1>2, <1>3 DEF At

LEMMA SkipNone ==
    ASSUME Len(text) \in Nat, NEW p \in 1..(Len(text) + 1), At(p) \notin Blanks
    PROVE  Skip(p) = p
<1>1. p \in p..(Len(text) + 1) /\ \A b \in p..(p - 1) : At(b) \in Blanks
  OBVIOUS
<1>2. \A q \in p..(Len(text) + 1) : q # p => p \in p..(q - 1)
  OBVIOUS
<1> QED BY <1>1, <1>2 DEF Skip

LEMMA SkipOne ==
    ASSUME Len(text) \in Nat, NEW p \in 1..(Len(text) + 1), p + 1 \in 1..(Len(text) + 1),
           At(p) \in Blanks, At(p + 1) \notin Blanks
    PROVE  Skip(p) = p + 1
<1>1. p + 1 \in p..(Len(text) + 1) /\ \A b \in p..(p + 1 - 1) : At(b) \in Blanks
  OBVIOUS
<1>2. \A q \in p..(Len(text) + 1) : q # p + 1 => q = p \/ p + 1 \in p..(q - 1)
  OBVIOUS
<1> QED BY <1>1, <1>2 DEF Skip

\* One element before a sequence.
LEMMA AfterOne ==
    ASSUME NEW S, NEW x \in S, NEW t \in Seq(S)
    PROVE  /\ <<x>> \o t \in Seq(S) /\ Len(<<x>> \o t) = 1 + Len(t)
           /\ (<<x>> \o t)[1] = x /\ \A i \in 1..Len(t) : (<<x>> \o t)[i + 1] = t[i]
<1> DEFINE v == <<x>>
<1>1. v \in Seq(S) /\ Len(v) = 1 /\ v[1] = x /\ Len(t) \in Nat
  BY LenProperties
<1> HIDE DEF v
<1>2. v \o t \in Seq(S) /\ Len(v \o t) = Len(v) + Len(t)
      /\ \A i \in 1..(Len(v) + Len(t)) : (v \o t)[i] = IF i <= Len(v) THEN v[i] ELSE t[i - Len(v)]
  BY <1>1, ConcatProperties
<1>3. Len(v \o t) = 1 + Len(t) /\ (v \o t)[1] = x
      /\ \A i \in 1..Len(t) : (v \o t)[i + 1] = t[i]
  BY <1>1, <1>2
<1> QED BY <1>2, <1>3 DEF v

LEMMA Associative == \A x, y, z \in Seq(Char) : (x \o y) \o z = x \o (y \o z)
BY ConcatAssociative

\* The rest of a sequence and what follows: its first element first.
LEMMA RestFirst ==
    ASSUME NEW s \in Seq(Char), NEW a \in 1..Len(s), NEW t \in Seq(Char)
    PROVE  /\ s[a] \in Char /\ SubSeq(s, a + 1, Len(s)) \o t \in Seq(Char)
           /\ SubSeq(s, a, Len(s)) \o t = <<s[a]>> \o (SubSeq(s, a + 1, Len(s)) \o t)
<1>1. Len(s) \in Nat /\ s[a] \in Char /\ Len(s) \in a..Len(s) /\ a + 1 \in Int /\ a + 1 >= 1
      /\ Len(s) \in Int /\ Len(s) <= Len(s)
  BY LenProperties, ElementOfSeq
<1>2. SubSeq(s, a, Len(s)) = <<s[a]>> \o SubSeq(s, a + 1, Len(s))
  BY <1>1, SubSeqRecursiveFirst
<1>3. SubSeq(s, a + 1, Len(s)) \in Seq(Char) /\ <<s[a]>> \in Seq(Char)
  BY <1>1, PartOfSeq
<1>4. SubSeq(s, a + 1, Len(s)) \o t \in Seq(Char)
  BY <1>3, ConcatProperties
<1>5. (<<s[a]>> \o SubSeq(s, a + 1, Len(s))) \o t = <<s[a]>> \o (SubSeq(s, a + 1, Len(s)) \o t)
  <2> DEFINE x == <<s[a]>>
             y == SubSeq(s, a + 1, Len(s))
  <2>1. x \in Seq(Char) /\ y \in Seq(Char)
    BY <1>3
  <2> HIDE DEF x, y
  <2>2. (x \o y) \o t = x \o (y \o t)
    BY <2>1, Associative, Zenon
  <2> QED BY <2>2 DEF x, y
<1> QED BY <1>1, <1>2, <1>4, <1>5, Zenon

-----------------------------------------------------------------------------
(* What was written between quotes.                                        *)

EscapeChars == {"\\", "\"", "\t", "\r", "\n"}

LEMMA Escapes ==
    /\ DOMAIN Escape = EscapeChars
    /\ Escape["\\"] = "\\" /\ Escape["\""] = "\"" /\ Escape["\t"] = "t"
    /\ Escape["\r"] = "r" /\ Escape["\n"] = "n"
    /\ \A c \in EscapeChars : Escape[c] \in Char
    /\ \A c \in EscapeChars : \A d \in EscapeChars : Escape[c] = Escape[d] => c = d
<1>1. DOMAIN Escape = EscapeChars
  BY DEF Escape, EscapeChars
<1>2. /\ Escape["\\"] = "\\" /\ Escape["\""] = "\"" /\ Escape["\t"] = "t"
      /\ Escape["\r"] = "r" /\ Escape["\n"] = "n"
  BY DEF Escape
<1>3. \A c \in EscapeChars : Escape[c] \in Char
  BY <1>2, CharAssumption DEF EscapeChars
<1>4. \A c \in EscapeChars : \A d \in EscapeChars : Escape[c] = Escape[d] => c = d
  BY <1>2 DEF EscapeChars
<1> QED BY <1>1, <1>2, <1>3, <1>4

LEMMA EscapedType == ASSUME NEW c \in Char PROVE Escaped(c) \in Seq(Char)
<1>1. <<c>> \in Seq(Char)
  OBVIOUS
<1>2. CASE c \in EscapeChars
  <2>1. Escape[c] \in Char /\ "\\" \in Char /\ c \in DOMAIN Escape
    BY <1>2, Escapes, Letters
  <2>2. \A d \in Char : <<"\\", d>> \in Seq(Char)
    BY <2>1
  <2> QED BY <2>1, <2>2 DEF Escaped
<1>3. CASE c \notin EscapeChars
  BY <1>1, <1>3, Escapes DEF Escaped
<1> QED BY <1>2, <1>3

\* The sequence that EscapedAll flattens.
EscapedEach(s) == [n \in DOMAIN s |-> Escaped(s[n])]

LEMMA EscapedEachType ==
    ASSUME NEW s \in Seq(Char)
    PROVE  /\ EscapedEach(s) \in Seq(Seq(Char)) /\ Len(EscapedEach(s)) = Len(s)
           /\ EscapedAll(s) = FlattenSeq(EscapedEach(s)) /\ EscapedAll(s) \in Seq(Char)
           /\ \A i \in 1..Len(s) : EscapedEach(s)[i] = Escaped(s[i])
<1>1. Len(s) \in Nat /\ DOMAIN s = 1..Len(s) /\ \A i \in 1..Len(s) : s[i] \in Char
  BY LenProperties, ElementOfSeq
<1>2. \A i \in 1..Len(s) : Escaped(s[i]) \in Seq(Char)
  BY <1>1, EscapedType
<1>3. EscapedEach(s) \in [1..Len(s) -> Seq(Char)]
  BY <1>1, <1>2 DEF EscapedEach
<1>4. EscapedEach(s) \in Seq(Seq(Char)) /\ Len(EscapedEach(s)) = Len(s)
  BY <1>1, <1>3, FunctionIsSeq
<1>5. EscapedAll(s) = FlattenSeq(EscapedEach(s))
  BY DEF EscapedAll, EscapedEach
<1>6. \A i \in 1..Len(s) : EscapedEach(s)[i] = Escaped(s[i])
  BY <1>1 DEF EscapedEach
<1> QED BY <1>4, <1>5, <1>6, FlattenType

LEMMA EscapedNone == EscapedAll(<<>>) = <<>>
<1>1. <<>> \in Seq(Char) /\ Len(<<>>) = 0
  BY EmptySeq
<1>2. EscapedEach(<<>>) = <<>>
  BY <1>1, EscapedEachType, EmptySeq
<1> QED BY <1>1, <1>2, EscapedEachType, FlattenNone

\* What is written for the rest of a text: its first character first.
LEMMA EscapedFirst ==
    ASSUME NEW s \in Seq(Char), NEW a \in 1..Len(s)
    PROVE  /\ SubSeq(s, a + 1, Len(s)) \in Seq(Char) /\ s[a] \in Char
           /\ EscapedAll(SubSeq(s, a, Len(s))) = Escaped(s[a]) \o EscapedAll(SubSeq(s, a + 1, Len(s)))
<1> DEFINE u == SubSeq(s, a, Len(s))
           t == SubSeq(s, a + 1, Len(s))
           c == s[a]
<1>1. Len(s) \in Nat /\ s[a] \in Char /\ Len(s) \in a..Len(s) /\ a + 1 \in Int /\ a + 1 >= 1
      /\ Len(s) \in Int /\ Len(s) <= Len(s) /\ a \in Int /\ a >= 1
  BY LenProperties, ElementOfSeq
<1>2. u = <<c>> \o t
  BY <1>1, SubSeqRecursiveFirst
<1>3. t \in Seq(Char) /\ c \in Char /\ u \in Seq(Char)
  BY <1>1, PartOfSeq
<1> HIDE DEF u, t, c
<1>4. Len(t) \in Nat
  BY <1>3, LenProperties
<1>5. Len(u) = 1 + Len(t) /\ u[1] = c /\ \A i \in 1..Len(t) : u[i + 1] = t[i]
  BY <1>2, <1>3, AfterOne
<1>6. Escaped(c) \in Seq(Char)
  BY <1>3, EscapedType
<1> DEFINE x == Escaped(c)
           e == EscapedEach(t)
           f == EscapedEach(u)
<1>7. x \in Seq(Char) /\ e \in Seq(Seq(Char)) /\ Len(e) = Len(t)
      /\ f \in Seq(Seq(Char)) /\ Len(f) = 1 + Len(t) /\ f[1] = x
      /\ \A i \in 1..Len(t) : f[i + 1] = e[i]
  <2>1. \A i \in 1..Len(t) : e[i] = Escaped(t[i])
    BY <1>3, EscapedEachType
  <2>2. \A i \in 1..Len(u) : f[i] = Escaped(u[i])
    BY <1>3, EscapedEachType
  <2>3. 1 \in 1..Len(u) /\ \A i \in 1..Len(t) : i + 1 \in 1..Len(u)
    BY <1>4, <1>5
  <2>4. f[1] = x /\ \A i \in 1..Len(t) : f[i + 1] = e[i]
    BY <1>5, <2>1, <2>2, <2>3
  <2> QED BY <1>3, <1>5, <1>6, <2>4, EscapedEachType
<1>8. EscapedAll(u) = FlattenSeq(f) /\ EscapedAll(t) = FlattenSeq(e)
  BY <1>3, EscapedEachType
<1> HIDE DEF x, e, f
<1>9. f = <<x>> \o e
  <2> DEFINE y == <<x>> \o e
  <2>1. y \in Seq(Seq(Char)) /\ Len(y) = 1 + Len(e) /\ y[1] = x
        /\ \A i \in 1..Len(e) : y[i + 1] = e[i]
    BY <1>7, AfterOne
  <2> HIDE DEF y
  <2>2. \A i \in 1..Len(f) : f[i] = y[i]
    <3> TAKE i \in 1..Len(f)
    <3>1. i # 1 => i - 1 \in 1..Len(t) /\ (i - 1) + 1 = i
      BY <1>4, <1>7
    <3>2. i # 1 => f[i] = e[i - 1] /\ y[i] = e[i - 1]
      BY <1>7, <2>1, <3>1
    <3> QED BY <1>7, <2>1, <3>2
  <2>3. f = y
    BY <1>7, <2>1, <2>2, SeqEqual
  <2> QED BY <2>3 DEF y
<1>10. FlattenSeq(<<x>> \o e) = x \o FlattenSeq(e)
  BY <1>7, FlattenCons
<1> QED BY <1>3, <1>8, <1>9, <1>10 DEF u, t, c, x

\* What is left of a quoted text after its first n characters.
StillQuoted(s, n, after) == EscapedAll(SubSeq(s, n + 1, Len(s))) \o (<<"\"">> \o after)

LEMMA StillQuotedIs ==
    ASSUME NEW s \in Seq(Char), NEW n \in 0..Len(s), NEW after \in Seq(Char)
    PROVE  /\ StillQuoted(s, n, after) \in Seq(Char)
           /\ n = Len(s) => StillQuoted(s, n, after) = <<"\"">> \o after
           /\ n < Len(s) => StillQuoted(s, n, after) = Escaped(s[n + 1]) \o StillQuoted(s, n + 1, after)
<1> DEFINE q == <<"\"">> \o after
           u == SubSeq(s, n + 1, Len(s))
<1>1. q \in Seq(Char)
  BY Letters, AfterOne
<1>2. Len(s) \in Nat /\ u \in Seq(Char)
  <2>1. Len(s) \in Nat /\ n + 1 \in Int /\ n + 1 >= 1 /\ Len(s) \in Int /\ Len(s) <= Len(s)
    BY LenProperties
  <2> QED BY <2>1, PartOfSeq
<1>3. EscapedAll(u) \in Seq(Char)
  BY <1>2, EscapedEachType
<1>4. StillQuoted(s, n, after) = EscapedAll(u) \o q
  BY DEF StillQuoted
<1>5. ASSUME n = Len(s) PROVE EscapedAll(u) \o q = q
  <2>1. u = <<>>
    BY <1>2, <1>5, SubSeqEmpty
  <2> HIDE DEF u, q
  <2> QED BY <1>1, <2>1, EscapedNone, ConcatEmptySeq
<1>6. ASSUME n < Len(s)
      PROVE  EscapedAll(u) \o q = Escaped(s[n + 1]) \o StillQuoted(s, n + 1, after)
  <2> DEFINE x == Escaped(s[n + 1])
             y == EscapedAll(SubSeq(s, n + 1 + 1, Len(s)))
  <2>1. n + 1 \in 1..Len(s)
    BY <1>2, <1>6
  <2>2. x \in Seq(Char) /\ y \in Seq(Char) /\ EscapedAll(u) = x \o y
    <3>1. /\ SubSeq(s, n + 1 + 1, Len(s)) \in Seq(Char) /\ s[n + 1] \in Char
          /\ EscapedAll(SubSeq(s, n + 1, Len(s))) = Escaped(s[n + 1]) \o EscapedAll(SubSeq(s, n + 1 + 1, Len(s)))
      BY <2>1, EscapedFirst
    <3> QED BY <3>1, EscapedType, EscapedEachType
  <2>3. StillQuoted(s, n + 1, after) = y \o q
    BY DEF StillQuoted
  <2> HIDE DEF x, y, q, u
  <2>4. (x \o y) \o q = x \o (y \o q)
    BY <1>1, <2>2, Associative, Zenon
  <2> QED BY <2>2, <2>3, <2>4 DEF x
<1>7. EscapedAll(u) \o q \in Seq(Char)
  <2> HIDE DEF u, q
  <2> QED BY <1>1, <1>3, ConcatProperties
<1> QED BY <1>4, <1>5, <1>6, <1>7 DEF q

LEMMA FourParts ==
    ASSUME NEW q \in Seq(Char), NEW e \in Seq(Char), NEW t \in Seq(Char)
    PROVE  ((q \o e) \o q) \o t = q \o (e \o (q \o t))
<1>1. \A x \in Seq(Char) : \A y \in Seq(Char) : x \o y \in Seq(Char)
  BY ConcatProperties
<1>2. q \o e \in Seq(Char) /\ q \o t \in Seq(Char)
  BY <1>1
<1>3. ((q \o e) \o q) \o t = (q \o e) \o (q \o t)
  <2> DEFINE r == q \o e
  <2>1. r \in Seq(Char)
    BY <1>2
  <2> HIDE DEF r
  <2>2. (r \o q) \o t = r \o (q \o t)
    BY <2>1, Associative
  <2> QED BY <2>2 DEF r
<1>4. (q \o e) \o (q \o t) = q \o (e \o (q \o t))
  <2> DEFINE r == q \o t
  <2>1. r \in Seq(Char)
    BY <1>2
  <2> HIDE DEF r
  <2>2. (q \o e) \o r = q \o (e \o r)
    BY <2>1, Associative
  <2> QED BY <2>2 DEF r
<1> QED BY <1>3, <1>4

LEMMA QuotedIs ==
    ASSUME NEW s \in Seq(Char), NEW after \in Seq(Char)
    PROVE  /\ StillQuoted(s, 0, after) \in Seq(Char)
           /\ quote_ed(s) \o after = <<"\"">> \o StillQuoted(s, 0, after)
           /\ quote_ed(s) \o after \in Seq(Char)
<1> DEFINE q == <<"\"">>
           e == EscapedAll(s)
<1>1. q \in Seq(Char) /\ e \in Seq(Char) /\ q \o after \in Seq(Char) /\ e \o q \in Seq(Char)
  <2>1. q \in Seq(Char)
    <3>1. \A c \in Char : <<c>> \in Seq(Char)
      OBVIOUS
    <3>2. "\"" \in Char
      BY Letters
    <3> QED BY <3>1, <3>2
  <2>2. e \in Seq(Char)
    BY EscapedEachType
  <2> HIDE DEF q, e
  <2> QED BY <2>1, <2>2, ConcatProperties
<1>2. quote_ed(s) = (q \o e) \o q
  BY DEF quote_ed
<1>3. StillQuoted(s, 0, after) = e \o (q \o after)
  <2>1. SubSeq(s, 0 + 1, Len(s)) = s
    BY SubSeqFull
  <2> QED BY <2>1 DEF StillQuoted
<1> HIDE DEF q, e
<1>4. ((q \o e) \o q) \o after = q \o (e \o (q \o after))
  BY <1>1, FourParts
<1>5. quote_ed(s) \o after = q \o StillQuoted(s, 0, after)
  BY <1>2, <1>3, <1>4
<1>6. StillQuoted(s, 0, after) \in Seq(Char) /\ q \o StillQuoted(s, 0, after) \in Seq(Char)
  BY <1>1, <1>3, ConcatProperties
<1> QED BY <1>5, <1>6 DEF q

\* Two elements before a sequence.
LEMMA PairFirst ==
    ASSUME NEW b \in Char, NEW e \in Char, NEW t \in Seq(Char)
    PROVE  <<b, e>> \o t = <<b>> \o (<<e>> \o t)
<1> DEFINE x == <<b>>
           y == <<e>>
<1>1. x \in Seq(Char) /\ y \in Seq(Char)
  OBVIOUS
<1>2. <<b, e>> = x \o y
  <2>1. <<b, e>> = Append(x, e)
    OBVIOUS
  <2>2. Append(x, e) = x \o <<e>>
    BY <1>1, AppendIsConcat
  <2> QED BY <2>1, <2>2
<1> HIDE DEF x, y
<1>3. (x \o y) \o t = x \o (y \o t)
  BY <1>1, Associative, Zenon
<1> QED BY <1>2, <1>3 DEF x, y

\* The next character of a quoted text.
LEMMA QuotedReads ==
    ASSUME text \in Seq(Char), NEW p \in 1..(Len(text) + 1),
           NEW s \in Seq(Char), NEW n \in 0..Len(s), NEW after \in Seq(Char),
           LeftAt(p) = StillQuoted(s, n, after)
    PROVE  /\ n = Len(s) => Here(p, "\"", after)
           /\ n < Len(s) /\ s[n + 1] \notin EscapeChars
                => Here(p, s[n + 1], StillQuoted(s, n + 1, after))
           /\ n < Len(s) /\ s[n + 1] \in EscapeChars
                => At(p) = "\\" /\ Here(p + 1, Escape[s[n + 1]], StillQuoted(s, n + 1, after))
<1>1. Len(s) \in Nat
  BY LenProperties
<1>2. ASSUME n = Len(s) PROVE Here(p, "\"", after)
  BY <1>2, StillQuotedIs, Reads, Letters
<1>4. \A b \in Char : \A e \in Char : \A t \in Seq(Char) : <<b, e>> \o t = <<b>> \o (<<e>> \o t)
  BY PairFirst
<1>3. ASSUME n < Len(s)
      PROVE  /\ s[n + 1] \notin EscapeChars => Here(p, s[n + 1], StillQuoted(s, n + 1, after))
             /\ s[n + 1] \in EscapeChars
                   => At(p) = "\\" /\ Here(p + 1, Escape[s[n + 1]], StillQuoted(s, n + 1, after))
  <2> DEFINE c == s[n + 1]
             t == StillQuoted(s, n + 1, after)
  <2>1. n + 1 \in 0..Len(s) /\ n + 1 \in 1..Len(s)
    BY <1>1, <1>3
  <2>2. c \in Char /\ t \in Seq(Char)
    BY <2>1, ElementOfSeq, StillQuotedIs
  <2>3. LeftAt(p) = Escaped(c) \o t
    BY <1>3, StillQuotedIs
  <2> HIDE DEF c, t
  <2>4. ASSUME c \notin EscapeChars PROVE Here(p, c, t)
    <3>1. LeftAt(p) = <<c>> \o t
      BY <2>3, <2>4, Escapes DEF Escaped
    <3> QED BY <2>2, <3>1, Reads
  <2>5. ASSUME c \in EscapeChars PROVE At(p) = "\\" /\ Here(p + 1, Escape[c], t)
    <3> DEFINE e == Escape[c]
               b == "\\"
    <3>1. e \in Char /\ b \in Char
      BY <2>5, Escapes, Letters
    <3>2. LeftAt(p) = <<b, e>> \o t
      BY <2>3, <2>5, Escapes DEF Escaped
    <3> HIDE DEF e, b
    <3>3. <<e>> \o t \in Seq(Char)
      BY <2>2, <3>1, AfterOne
    <3>4. <<b, e>> \o t = <<b>> \o (<<e>> \o t)
      BY <1>4, <2>2, <3>1, Zenon
    <3>5. Here(p, b, <<e>> \o t)
      BY <2>2, <3>1, <3>2, <3>3, <3>4, Reads
    <3>6. p + 1 \in 1..(Len(text) + 1) /\ LeftAt(p + 1) = <<e>> \o t /\ At(p) = b
      BY <3>5 DEF Here
    <3>7. Here(p + 1, e, t)
      BY <2>2, <3>1, <3>6, Reads
    <3> QED BY <3>6, <3>7 DEF e, b
  <2> QED BY <2>4, <2>5 DEF c, t
<1> QED BY <1>2, <1>3

\* A place on a line.
OnLine == text \in Seq(Char) /\ pos \in 1..(Len(text) + 1)

LEMMA InQuoteIs ==
    ASSUME NEW s, NEW after
    PROVE  InQuote(s, after) <=> \E n \in 0..Len(s) : /\ got = SubSeq(s, 1, n)
                                                      /\ LeftAt(pos) = StillQuoted(s, n, after)
BY DEF InQuote, StillQuoted

LEMMA QuoteStarts ==
    ASSUME NEW s \in Seq(Char), NEW after \in Seq(Char), text \in Seq(Char),
           NEW p \in 1..(Len(text) + 1), LeftAt(p) = quote_ed(s) \o after
    PROVE  Here(p, "\"", StillQuoted(s, 0, after))
BY QuotedIs, Reads, Letters

\* The character that is read next is one that quote_ed wrote.
QuoteNext(s, after) ==
    \E n \in 0..Len(s) :
       /\ got = SubSeq(s, 1, n)
       /\ \/ n = Len(s) /\ Here(pos, "\"", after)
          \/ /\ n < Len(s) /\ s[n + 1] \in Char \ EscapeChars
             /\ Here(pos, s[n + 1], StillQuoted(s, n + 1, after))
          \/ /\ n < Len(s) /\ s[n + 1] \in EscapeChars
             /\ At(pos) = "\\" /\ Here(pos + 1, Escape[s[n + 1]], StillQuoted(s, n + 1, after))

LEMMA QuoteNextIs ==
    ASSUME NEW s \in Seq(Char), NEW after \in Seq(Char), OnLine, InQuote(s, after)
    PROVE  QuoteNext(s, after)
<1>1. PICK n \in 0..Len(s) : got = SubSeq(s, 1, n) /\ LeftAt(pos) = StillQuoted(s, n, after)
  BY InQuoteIs
<1>2. Len(s) \in Nat /\ text \in Seq(Char) /\ pos \in 1..(Len(text) + 1)
  BY LenProperties DEF OnLine
<1>3. n < Len(s) => s[n + 1] \in Char
  BY <1>2, ElementOfSeq
<1>4. /\ n = Len(s) => Here(pos, "\"", after)
      /\ n < Len(s) /\ s[n + 1] \notin EscapeChars
           => Here(pos, s[n + 1], StillQuoted(s, n + 1, after))
      /\ n < Len(s) /\ s[n + 1] \in EscapeChars
           => At(pos) = "\\" /\ Here(pos + 1, Escape[s[n + 1]], StillQuoted(s, n + 1, after))
  BY <1>1, <1>2, QuotedReads
<1>5. n = Len(s) \/ n < Len(s)
  BY <1>2
<1> QED BY <1>1, <1>3, <1>4, <1>5 DEF QuoteNext

\* What an action leaves as it is.
Kept == UNCHANGED <<vars, line>>

\* One character more has been read between the quotes.
LEMMA QuoteGoesOn ==
    ASSUME NEW s \in Seq(Char), NEW after \in Seq(Char), OnLine, NEW n \in 0..(Len(s) - 1),
           got' = Append(SubSeq(s, 1, n), s[n + 1]), UNCHANGED text,
           LeftAt(pos') = StillQuoted(s, n + 1, after)
    PROVE  InQuote(s, after)'
<1>1. got' = SubSeq(s, 1, n + 1) /\ n + 1 \in 0..Len(s)
  BY OneMore, LenProperties
<1>2. LeftAt(pos)' = LeftAt(pos')
  BY DEF LeftAt
<1> QED BY <1>1, <1>2 DEF InQuote, StillQuoted

LEMMA QuoteChars ==
    ASSUME NEW s \in Seq(Char), NEW after \in Seq(Char), OnLine, InQuote(s, after),
           QuotedChar \/ EscapedChar
    PROVE  /\ InQuote(s, after)' /\ pos' \in 1..(Len(text) + 1) /\ Kept
           /\ field' = field /\ ref' = ref
<1>1. PICK n \in 0..Len(s) :
       /\ got = SubSeq(s, 1, n)
       /\ \/ n = Len(s) /\ Here(pos, "\"", after)
          \/ /\ n < Len(s) /\ s[n + 1] \in Char \ EscapeChars
             /\ Here(pos, s[n + 1], StillQuoted(s, n + 1, after))
          \/ /\ n < Len(s) /\ s[n + 1] \in EscapeChars
             /\ At(pos) = "\\" /\ Here(pos + 1, Escape[s[n + 1]], StillQuoted(s, n + 1, after))
  BY QuoteNextIs DEF QuoteNext
<1>2. Len(s) \in Nat /\ Len(text) \in Nat /\ pos \in Nat
  BY LenProperties DEF OnLine
<1>3. CASE QuotedChar
  <2>1. n < Len(s) /\ At(pos) = s[n + 1] /\ pos + 1 \in 1..(Len(text) + 1)
        /\ LeftAt(pos + 1) = StillQuoted(s, n + 1, after)
    BY <1>1, <1>3 DEF QuotedChar, Here
  <2>2. got' = Append(got, At(pos)) /\ pos' = pos + 1 /\ field' = field /\ ref' = ref /\ Kept
    BY <1>3 DEF QuotedChar, Expect, Kept
  <2>3. n \in 0..(Len(s) - 1) /\ UNCHANGED text
    BY <1>2, <2>1, <2>2 DEF Kept, line
  <2>4. got' = Append(SubSeq(s, 1, n), s[n + 1]) /\ LeftAt(pos') = StillQuoted(s, n + 1, after)
    BY <1>1, <2>1, <2>2
  <2>5. InQuote(s, after)'
    BY <2>3, <2>4, QuoteGoesOn
  <2> QED BY <2>1, <2>2, <2>5
<1>4. CASE EscapedChar
  <2>1. n < Len(s) /\ s[n + 1] \in EscapeChars /\ Here(pos + 1, Escape[s[n + 1]], StillQuoted(s, n + 1, after))
    BY <1>1, <1>4 DEF EscapedChar, Here, EscapeChars
  <2>2. PICK c \in EscapeChars : /\ Escape[c] = At(pos + 1)
                                 /\ got' = Append(got, c) /\ Expect(field, pos + 2) /\ UNCHANGED ref
    BY <1>4, <2>1, Escapes DEF EscapedChar, Here
  <2>3. c = s[n + 1]
    BY <2>1, <2>2, Escapes DEF Here
  <2>4. pos' = pos + 2 /\ field' = field /\ ref' = ref /\ Kept
    BY <1>4, <2>2 DEF EscapedChar, Expect, Kept
  <2>5. pos + 2 = pos + 1 + 1 /\ pos + 2 \in 1..(Len(text) + 1)
        /\ LeftAt(pos + 2) = StillQuoted(s, n + 1, after)
    <3>1. pos + 2 = pos + 1 + 1
      BY <1>2
    <3> QED BY <2>1, <3>1 DEF Here
  <2>6. n \in 0..(Len(s) - 1) /\ UNCHANGED text
    BY <1>2, <2>1, <2>4 DEF Kept, line
  <2>7. got' = Append(SubSeq(s, 1, n), s[n + 1]) /\ LeftAt(pos') = StillQuoted(s, n + 1, after)
    BY <1>1, <2>2, <2>3, <2>4, <2>5
  <2>8. InQuote(s, after)'
    BY <2>6, <2>7, QuoteGoesOn
  <2> QED BY <2>4, <2>5, <2>8
<1> QED BY <1>3, <1>4

LEMMA QuoteCloses ==
    ASSUME NEW s \in Seq(Char), NEW after \in Seq(Char), OnLine, InQuote(s, after),
           At(pos) \in {"\"", End}
    PROVE  At(pos) = "\"" /\ got = s /\ pos + 1 \in 1..(Len(text) + 1) /\ LeftAt(pos + 1) = after
<1>1. PICK n \in 0..Len(s) :
       /\ got = SubSeq(s, 1, n)
       /\ \/ n = Len(s) /\ Here(pos, "\"", after)
          \/ /\ n < Len(s) /\ s[n + 1] \in Char \ EscapeChars
             /\ Here(pos, s[n + 1], StillQuoted(s, n + 1, after))
          \/ /\ n < Len(s) /\ s[n + 1] \in EscapeChars
             /\ At(pos) = "\\" /\ Here(pos + 1, Escape[s[n + 1]], StillQuoted(s, n + 1, after))
  BY QuoteNextIs DEF QuoteNext
<1>2. n = Len(s) /\ Here(pos, "\"", after)
  <2>1. End # "\\" /\ End \notin Char /\ "\"" \in EscapeChars
    BY Letters DEF End, EscapeChars
  <2> QED BY <1>1, <2>1 DEF Here
<1>3. SubSeq(s, 1, Len(s)) = s
  BY SubSeqFull
<1> QED BY <1>1, <1>2, <1>3 DEF Here

\* What may follow a number: nothing, or a blank.
Ends(after) == after = <<>> \/ \E t \in Seq(Char) : after = <<" ">> \o t

LEMMA EndsAt ==
    ASSUME OnLine, NEW after \in Seq(Char), Ends(after), LeftAt(pos) = after
    PROVE  At(pos) \in {" ", End} /\ At(pos) \notin DigitChars
<1>0. text \in Seq(Char) /\ pos \in 1..(Len(text) + 1) /\ " " \in Char
  BY Letters DEF OnLine
<1>1. CASE after = <<>>
  <2>1. At(pos) = End
    BY <1>0, <1>1, ReadsEnd
  <2> QED BY <2>1, Letters
<1>2. ASSUME NEW t \in Seq(Char), after = <<" ">> \o t PROVE At(pos) = " "
  <2>1. LeftAt(pos) = <<" ">> \o t
    BY <1>2
  <2>2. Here(pos, " ", t)
    BY <1>0, <2>1, Reads
  <2> QED BY <2>2 DEF Here
<1>3. " " \notin DigitChars
  BY DigitValues DEF Blanks
<1> QED BY <1>1, <1>2, <1>3 DEF Ends

\* The digits that are left, and what follows the number.
DigitsLeft(n, i, after) == SubSeq(Decimal[n], i + 1, Len(Decimal[n])) \o after

LEMMA DigitsLeftIs ==
    ASSUME NEW n \in Nat, NEW after \in Seq(Char), NEW i \in 0..Len(Decimal[n])
    PROVE  /\ i = Len(Decimal[n]) => DigitsLeft(n, i, after) = after
           /\ i < Len(Decimal[n]) =>
                 /\ Decimal[n][i + 1] \in DigitChars
                 /\ DigitsLeft(n, i + 1, after) \in Seq(Char)
                 /\ DigitsLeft(n, i, after) = <<Decimal[n][i + 1]>> \o DigitsLeft(n, i + 1, after)
<1> DEFINE s == Decimal[n]
<1>1. s \in Seq(DigitChars) /\ Len(s) \in Nat
  BY DecimalType
<1> HIDE DEF s
<1>2. s \in Seq(Char)
  <2>1. DigitChars \subseteq Char
    BY Letters
  <2> QED BY <1>1, <2>1, SeqMonotonic
<1>3. ASSUME i = Len(s) PROVE SubSeq(s, i + 1, Len(s)) \o after = after
  <2>1. SubSeq(s, i + 1, Len(s)) = <<>>
    BY <1>1, <1>3, SubSeqEmpty
  <2> QED BY <2>1, ConcatEmptySeq
<1>4. ASSUME i < Len(s)
      PROVE  /\ s[i + 1] \in DigitChars
             /\ SubSeq(s, i + 1 + 1, Len(s)) \o after \in Seq(Char)
             /\ SubSeq(s, i + 1, Len(s)) \o after = <<s[i + 1]>> \o (SubSeq(s, i + 1 + 1, Len(s)) \o after)
  <2>1. i + 1 \in 1..Len(s)
    BY <1>1, <1>4 DEF s
  <2>2. s[i + 1] \in DigitChars
    BY <1>1, <2>1, ElementOfSeq
  <2> DEFINE a == i + 1
  <2>3. a \in 1..Len(s)
    BY <2>1
  <2> HIDE DEF a
  <2>4. /\ SubSeq(s, a + 1, Len(s)) \o after \in Seq(Char)
        /\ SubSeq(s, a, Len(s)) \o after = <<s[a]>> \o (SubSeq(s, a + 1, Len(s)) \o after)
    BY <1>2, <2>3, RestFirst
  <2> QED BY <2>2, <2>4 DEF a
<1> QED BY <1>3, <1>4 DEF s, DigitsLeft

\* What is read next in a number that Decimal wrote.
LEMMA NumberNext ==
    ASSUME NEW which, NEW n \in Nat, NEW after \in Seq(Char), Ends(after), OnLine,
           InNumber(which, n, after), status = "reading"
    PROVE  \/ /\ digits < Len(Decimal[n]) /\ Decimal[n][digits + 1] \in DigitChars
              /\ Here(pos, Decimal[n][digits + 1], DigitsLeft(n, digits + 1, after))
           \/ /\ digits = Len(Decimal[n]) /\ LeftAt(pos) = after
              /\ At(pos) \in {" ", End} /\ At(pos) \notin DigitChars
<1>1. digits \in 0..Len(Decimal[n]) /\ LeftAt(pos) = DigitsLeft(n, digits, after)
  BY DEF InNumber, DigitsLeft
<1>2. Len(Decimal[n]) \in Nat /\ text \in Seq(Char) /\ pos \in 1..(Len(text) + 1)
  BY DecimalType DEF OnLine
<1>3. CASE digits = Len(Decimal[n])
  <2>1. LeftAt(pos) = after
    BY <1>1, <1>3, DigitsLeftIs
  <2> QED BY <1>3, <2>1, EndsAt
<1>4. CASE digits < Len(Decimal[n])
  <2> DEFINE c == Decimal[n][digits + 1]
             t == DigitsLeft(n, digits + 1, after)
  <2>1. c \in DigitChars /\ t \in Seq(Char) /\ DigitsLeft(n, digits, after) = <<c>> \o t
    BY <1>1, <1>4, DigitsLeftIs
  <2>2. c \in Char /\ LeftAt(pos) = <<c>> \o t
    BY <1>1, <2>1, Letters
  <2> HIDE DEF c, t
  <2>3. Here(pos, c, t)
    BY <1>2, <2>1, <2>2, Reads
  <2> QED BY <1>4, <2>1, <2>3 DEF c, t
<1>5. digits = Len(Decimal[n]) \/ digits < Len(Decimal[n])
  BY <1>1, <1>2
<1> QED BY <1>3, <1>4, <1>5

\* The largest number that a reader takes for sure.
Largest(which) == IF which = "uint" THEN MAX - 9 ELSE MAX

\* A digit is taken, and the number can only be the one that was written.
LEMMA DigitTaken ==
    ASSUME NEW which \in {"uint", "full"}, NEW n \in Nat, n <= Largest(which),
           NEW after \in Seq(Char), Ends(after), OnLine,
           InNumber(which, n, after), NumberDigit
    PROVE  /\ InNumber(which, n, after)' /\ pos' \in 1..(Len(text) + 1)
           /\ UNCHANGED line /\ field' = field /\ ref' = ref
<1>1. status = "reading" /\ reader = which /\ got = <<>> /\ number \in Nat /\ value = number
      /\ digits \in 0..Len(Decimal[n]) /\ (digits = 0 => number = 0)
      /\ (digits > 0 => Decimal[number] = SubSeq(Decimal[n], 1, digits))
  BY DEF NumberDigit, TakeDigit, InNumber
<1>2. At(pos) \in DigitChars
  BY DigitValues DEF NumberDigit
<1>3. digits < Len(Decimal[n]) /\ Here(pos, Decimal[n][digits + 1], DigitsLeft(n, digits + 1, after))
  BY <1>1, <1>2, NumberNext
<1> DEFINE d == DigitValue[At(pos)]
           k == number * 10 + d
<1>4. d \in 0..9 /\ k \in Nat /\ k <= n /\ Decimal[k] = SubSeq(Decimal[n], 1, digits + 1)
  <2>1. At(pos) = Decimal[n][digits + 1]
    BY <1>3 DEF Here
  <2>2. digits \in Nat
    BY <1>1
  <2>3. LET e == DigitValue[Decimal[n][digits + 1]]
        IN  /\ Decimal[n][digits + 1] \in DigitChars /\ e \in 0..9
            /\ number * 10 + e <= n /\ number * 10 + e \in Nat
            /\ Decimal[number * 10 + e] = SubSeq(Decimal[n], 1, digits + 1)
    BY <1>1, <1>3, <2>2, DigitRead
  <2> QED BY <2>1, <2>3
<1> HIDE DEF d
<1>5. ~TooBig(d)
  <2>1. CASE which = "uint"
    <3>1. k <= MAX - 9
      BY <1>4, <2>1, MaxAssumption DEF Largest
    <3>2. number > (MAX - 9) \div 10 => k > MAX - 9
      BY <1>1, <1>4, Room
    <3> HIDE DEF k
    <3> QED BY <1>1, <1>4, <2>1, <3>1, <3>2, MaxAssumption DEF TooBig
  <2>2. CASE which = "full"
    <3>1. k <= MAX
      BY <1>4, <2>2, MaxAssumption DEF Largest
    <3>2. number > (MAX - d) \div 10 => k > MAX
      BY <1>1, <1>4, Room
    <3> HIDE DEF k
    <3> QED BY <1>1, <1>4, <2>2, <3>1, <3>2, MaxAssumption DEF TooBig
  <2> QED BY <2>1, <2>2
<1>6. TakeDigit(d) /\ Expect(field, pos + 1) /\ UNCHANGED <<line, read>>
  BY DEF NumberDigit, d
<1>7. /\ number' = k /\ value' = k /\ digits' = digits + 1 /\ status' = "reading" /\ reader' = which
      /\ pos' = pos + 1 /\ field' = field /\ UNCHANGED line /\ ref' = ref /\ got' = <<>>
      /\ text' = text
  BY <1>1, <1>5, <1>6 DEF TakeDigit, Expect, line, read
<1> HIDE DEF k
<1>8. digits + 1 \in 0..Len(Decimal[n]) /\ digits + 1 > 0 /\ digits + 1 # 0
  BY <1>1, <1>3, DecimalType
<1>9. pos' \in 1..(Len(text) + 1) /\ LeftAt(pos)' = DigitsLeft(n, digits + 1, after)
  BY <1>3, <1>7 DEF Here, LeftAt
<1>10. InNumber(which, n, after)'
  BY <1>4, <1>7, <1>8, <1>9 DEF InNumber, DigitsLeft
<1> QED BY <1>7, <1>9, <1>10

\* A number ends where its digits do.
LEMMA NumberOver ==
    ASSUME NEW which \in {"uint", "full"}, NEW n \in Nat,
           NEW after \in Seq(Char), Ends(after), OnLine,
           InNumber(which, n, after), NumberEnds
    PROVE  /\ InNumber(which, n, after)' /\ pos' \in 1..(Len(text) + 1)
           /\ UNCHANGED line /\ field' = field /\ ref' = ref
<1>1. status = "reading" /\ reader = which /\ got = <<>> /\ number \in Nat /\ value = number
      /\ digits \in 0..Len(Decimal[n])
      /\ (digits > 0 => Decimal[number] = SubSeq(Decimal[n], 1, digits))
  BY DEF NumberEnds, EndNumber, InNumber
<1>2. At(pos) \notin DigitChars
  BY DigitValues DEF NumberEnds
<1>3. digits = Len(Decimal[n]) /\ LeftAt(pos) = after
  BY <1>1, <1>2, NumberNext DEF Here
<1>4. digits > 0 /\ number = n
  <2>1. Len(Decimal[n]) \in Nat /\ Len(Decimal[n]) >= 1 /\ Decimal[n] \in Seq(DigitChars)
    BY DecimalType
  <2>2. Decimal[number] = Decimal[n]
    BY <1>1, <1>3, <2>1, SubSeqFull
  <2> QED BY <1>1, <1>3, <2>1, <2>2, DecimalUnique
<1>5. /\ status' = "accepted" /\ reader' = which /\ got' = <<>> /\ number' = n /\ value' = n
      /\ pos' = pos /\ field' = field /\ ref' = ref /\ UNCHANGED line /\ text' = text
  <2>1. status' = "accepted"
    <3>1. digits # 0
      BY <1>1, <1>3, <1>4, DecimalType
    <3>2. EndNumber
      BY DEF NumberEnds
    <3> QED BY <3>1, <3>2 DEF EndNumber
  <2>2. UNCHANGED <<reader, value, number, digits>> /\ UNCHANGED <<line, pos, field, read>>
    BY DEF NumberEnds, EndNumber
  <2>3. reader' = reader /\ value' = value /\ number' = number /\ pos' = pos /\ field' = field
        /\ UNCHANGED line /\ got' = got /\ ref' = ref /\ text' = text
    BY <2>2 DEF line, read
  <2> QED BY <1>1, <1>4, <2>1, <2>3
<1>6. pos' \in 1..(Len(text) + 1) /\ LeftAt(pos)' = after
  BY <1>3, <1>5 DEF OnLine, LeftAt
<1>7. InNumber(which, n, after)'
  BY <1>5, <1>6 DEF InNumber
<1> QED BY <1>5, <1>6, <1>7

\* It is never refused.
LEMMA NumberStands ==
    ASSUME NEW which, NEW n \in Nat, NEW after \in Seq(Char), Ends(after), OnLine,
           InNumber(which, n, after)
    PROVE  ~NumberRefused /\ (status = "accepted" => value = n /\ LeftAt(pos) = after)
<1>1. status = "accepted" => value = n /\ LeftAt(pos) = after
  BY DEF InNumber
<1>2. status \in {"reading", "accepted"}
  BY DEF InNumber
<1>3. status = "reading" => At(pos) \in DigitChars \cup {" ", End}
  BY NumberNext DEF Here
<1> QED BY <1>1, <1>2, <1>3, DigitValues DEF NumberRefused

-----------------------------------------------------------------------------
(* A reference and its line.                                               *)

LEMMA RefIs ==
    ASSUME NEW w \in Refs
    PROVE  /\ w.path \in Seq(Char) /\ w.lpad \in Seq(Char) /\ w.rpad \in Seq(Char)
           /\ w.begin \in Nat /\ w.end \in Nat /\ w.trim \in BOOLEAN /\ w.has_hash \in BOOLEAN
           /\ 1 <= w.begin /\ w.begin <= w.end /\ w.begin <= Largest("uint") /\ w.end <= Largest("uint")
           /\ (~w.trim => w.lpad = <<>> /\ w.rpad = <<>>)
           /\ (w.has_hash => w.bytes = -1)
           /\ (~w.has_hash => w.bytes \in Nat /\ w.bytes <= Largest("full") /\ w.bytes # -1)
<1>1. w \in [path : Seq(Char), begin : Nat, end : Nat, bytes : -1..MAX, has_hash : BOOLEAN,
             trim : BOOLEAN, lpad : Seq(Char), rpad : Seq(Char)]
  BY RefsAssumption
<1>2. /\ 1 <= w.begin /\ w.begin <= w.end /\ w.end <= MAX - 9
      /\ (~w.trim => w.lpad = <<>> /\ w.rpad = <<>>) /\ (w.has_hash <=> w.bytes = -1)
  BY RefsAssumption
<1> QED BY <1>1, <1>2, MaxAssumption DEF Largest

Fields(p, b, e, n, h, t, l, r) ==
    [path |-> p, begin |-> b, end |-> e, bytes |-> n, has_hash |-> h, trim |-> t, lpad |-> l, rpad |-> r]

\* The reference as it is read, field by field.
LEMMA RefRead ==
    ASSUME NEW w \in Refs
    PROVE  /\ [NoRef EXCEPT !.path = w.path] = ToPath(w)
           /\ [ToPath(w) EXCEPT !.begin = w.begin] = ToBegin(w) /\ ToBegin(w).begin = w.begin
           /\ [ToBegin(w) EXCEPT !.end = w.end] = ToEnd(w)
           /\ [ToEnd(w) EXCEPT !.lpad = w.lpad] = ToLpad(w)
           /\ (w.trim => [ToLpad(w) EXCEPT !.rpad = w.rpad, !.trim = TRUE] = ToRpad(w))
           /\ (~w.trim => ToEnd(w) = ToRpad(w))
           /\ (w.has_hash => [ToRpad(w) EXCEPT !.has_hash = TRUE] = w)
           /\ (~w.has_hash => [ToRpad(w) EXCEPT !.bytes = w.bytes] = w)
<1> DEFINE none == <<>>
           no == FALSE
           less == -1
           zero == 0
<1>1. w = Fields(w.path, w.begin, w.end, w.bytes, w.has_hash, w.trim, w.lpad, w.rpad)
  <2>1. w \in [path : Seq(Char), begin : Nat, end : Nat, bytes : -1..MAX, has_hash : BOOLEAN,
               trim : BOOLEAN, lpad : Seq(Char), rpad : Seq(Char)]
    BY RefsAssumption
  <2> QED BY <2>1 DEF Fields
<1>2. NoRef = Fields(none, zero, zero, less, no, no, none, none)
  BY DEF NoRef, Fields
<1> HIDE DEF none, no, less, zero
<1>3. ToPath(w) = Fields(w.path, zero, zero, less, no, no, none, none)
  BY <1>2 DEF ToPath, Fields
<1>4. ToBegin(w) = Fields(w.path, w.begin, zero, less, no, no, none, none)
  BY <1>3 DEF ToBegin, Fields
<1>5. ToEnd(w) = Fields(w.path, w.begin, w.end, less, no, no, none, none)
  BY <1>4 DEF ToEnd, Fields
<1>6. ToLpad(w) = Fields(w.path, w.begin, w.end, less, no, no, w.lpad, none)
  BY <1>5 DEF ToLpad, Fields
<1>7. ToRpad(w) = Fields(w.path, w.begin, w.end, less, no, w.trim, w.lpad, w.rpad)
  <2> DEFINE k == [ToLpad(w) EXCEPT !.rpad = w.rpad]
  <2>1. k = Fields(w.path, w.begin, w.end, less, no, no, w.lpad, w.rpad)
    BY <1>6 DEF Fields
  <2>2. ToRpad(w) = [k EXCEPT !.trim = w.trim]
    BY DEF ToRpad
  <2> HIDE DEF k
  <2>3. [k EXCEPT !.trim = w.trim] = Fields(w.path, w.begin, w.end, less, no, w.trim, w.lpad, w.rpad)
    BY <2>1 DEF Fields
  <2> QED BY <2>2, <2>3
<1>8. ToBegin(w).begin = w.begin
  BY <1>4 DEF Fields
<1>9. w.trim => [ToLpad(w) EXCEPT !.rpad = w.rpad, !.trim = TRUE] = ToRpad(w)
  <2>1. w.trim => w.trim = TRUE
    BY RefIs
  <2> QED BY <2>1 DEF ToRpad
<1>10. ~w.trim => ToEnd(w) = ToRpad(w)
  <2>1. ~w.trim => w.trim = no /\ w.lpad = none /\ w.rpad = none
    BY RefIs DEF no, none
  <2> QED BY <1>5, <1>7, <2>1
<1>11. w.has_hash => [ToRpad(w) EXCEPT !.has_hash = TRUE] = w
  <2>1. w.has_hash => w.has_hash = TRUE /\ w.bytes = less
    BY RefIs DEF less
  <2>2. [ToRpad(w) EXCEPT !.has_hash = w.has_hash]
          = Fields(w.path, w.begin, w.end, less, w.has_hash, w.trim, w.lpad, w.rpad)
    BY <1>7 DEF Fields
  <2> QED BY <1>1, <2>1, <2>2
<1>12. ~w.has_hash => [ToRpad(w) EXCEPT !.bytes = w.bytes] = w
  <2>1. ~w.has_hash => w.has_hash = no
    BY RefIs DEF no
  <2>2. [ToRpad(w) EXCEPT !.bytes = w.bytes]
          = Fields(w.path, w.begin, w.end, w.bytes, no, w.trim, w.lpad, w.rpad)
    BY <1>7 DEF Fields
  <2> QED BY <1>1, <2>1, <2>2
<1>13. /\ [NoRef EXCEPT !.path = w.path] = ToPath(w)
       /\ [ToPath(w) EXCEPT !.begin = w.begin] = ToBegin(w)
       /\ [ToBegin(w) EXCEPT !.end = w.end] = ToEnd(w)
       /\ [ToEnd(w) EXCEPT !.lpad = w.lpad] = ToLpad(w)
  BY DEF ToPath, ToBegin, ToEnd, ToLpad
<1> QED BY <1>8, <1>9, <1>10, <1>11, <1>12, <1>13

LEMMA DecimalChars == ASSUME NEW n \in Nat PROVE Decimal[n] \in Seq(Char)
<1>1. Decimal[n] \in Seq(DigitChars) /\ DigitChars \subseteq Char
  BY DecimalType, Letters
<1> QED BY <1>1, SeqMonotonic

LEMMA GuardIs ==
    ASSUME NEW w \in Refs
    PROVE  /\ make_guard(w) \in Seq(Char)
           /\ w.has_hash => make_guard(w) = <<"h:">> \o <<>>
           /\ ~w.has_hash => /\ make_guard(w) = <<"s:">> \o Decimal[w.bytes]
                             /\ Decimal[w.bytes] \in Seq(Char)
<1>1. <<>> \in Seq(Char) /\ "h:" \in Char /\ "s:" \in Char
  BY Letters, EmptySeq
<1>2. ASSUME w.has_hash PROVE make_guard(w) = <<"h:">> \o <<>> /\ <<"h:">> \o <<>> \in Seq(Char)
  <2>1. <<"h:">> \o <<>> \in Seq(Char)
    BY <1>1, AfterOne
  <2>2. <<"h:">> = <<"h:">> \o <<>>
    <3>1. \A c \in Char : <<c>> \in Seq(Char)
      OBVIOUS
    <3>2. <<"h:">> \in Seq(Char)
      BY <1>1, <3>1
    <3> QED BY <3>2, ConcatEmptySeq
  <2> QED BY <1>2, <2>1, <2>2 DEF make_guard
<1>3. ASSUME ~w.has_hash
      PROVE  /\ make_guard(w) = <<"s:">> \o Decimal[w.bytes] /\ Decimal[w.bytes] \in Seq(Char)
             /\ <<"s:">> \o Decimal[w.bytes] \in Seq(Char)
  <2>1. Decimal[w.bytes] \in Seq(Char)
    BY <1>3, RefIs, DecimalChars
  <2> DEFINE d == Decimal[w.bytes]
  <2>2. d \in Seq(Char)
    BY <2>1
  <2>3. make_guard(w) = <<"s:">> \o d
    BY <1>3 DEF make_guard
  <2> HIDE DEF d
  <2>4. <<"s:">> \o d \in Seq(Char)
    BY <1>1, <2>2, AfterOne
  <2> QED BY <2>2, <2>3, <2>4 DEF d
<1> QED BY <1>2, <1>3

\* A number or a quoted text before what follows it.
LEMMA NumberType ==
    ASSUME NEW n \in Nat, NEW after \in Seq(Char)
    PROVE  Decimal[n] \o after \in Seq(Char) /\ Decimal[n] \o after = DigitsLeft(n, 0, after)
<1> DEFINE d == Decimal[n]
<1>1. d \in Seq(Char)
  BY DecimalChars
<1>2. SubSeq(d, 0 + 1, Len(d)) = d
  BY <1>1, SubSeqFull
<1>3. DigitsLeft(n, 0, after) = d \o after
  BY <1>2 DEF DigitsLeft
<1> HIDE DEF d
<1>4. d \o after \in Seq(Char)
  BY <1>1, ConcatProperties
<1> QED BY <1>3, <1>4 DEF d

LEMMA BlankType ==
    ASSUME NEW t \in Seq(Char)
    PROVE  <<" ">> \o t \in Seq(Char)
<1>1. " " \in Char
  BY Letters
<1> QED BY <1>1, AfterOne

LEMMA SharpType ==
    ASSUME NEW t \in Seq(Char)
    PROVE  <<"#">> \o t \in Seq(Char)
<1>1. "#" \in Char
  BY Letters
<1> QED BY <1>1, AfterOne

\* What is written after the sharp, and after each field.
AfterSharp(w) == <<" ">> \o make_guard(w)

LEMMA TailTypes ==
    ASSUME NEW w \in Refs
    PROVE  /\ make_guard(w) \in Seq(Char) /\ AfterSharp(w) \in Seq(Char) /\ <<"#">> \o AfterSharp(w) \in Seq(Char)
           /\ AfterRpad(w) = <<" ">> \o (<<"#">> \o AfterSharp(w)) /\ AfterRpad(w) \in Seq(Char)
           /\ AfterLpad(w) \in Seq(Char) /\ AfterEnd(w) \in Seq(Char)
           /\ AfterBegin(w) \in Seq(Char) /\ AfterPath(w) \in Seq(Char)
           /\ quote_ed(w.path) \o AfterPath(w) \in Seq(Char)
           /\ Ends(AfterBegin(w)) /\ Ends(AfterEnd(w)) /\ Ends(<<>>) /\ <<>> \in Seq(Char)
<1>0. /\ w.path \in Seq(Char) /\ w.lpad \in Seq(Char) /\ w.rpad \in Seq(Char)
      /\ w.begin \in Nat /\ w.end \in Nat
  BY RefIs
<1>1. make_guard(w) \in Seq(Char)
  BY GuardIs
<1>2. AfterSharp(w) \in Seq(Char)
  BY <1>1, BlankType DEF AfterSharp
<1>3. <<"#">> \o AfterSharp(w) \in Seq(Char)
  BY <1>2, SharpType
<1>4. AfterRpad(w) = <<" ">> \o (<<"#">> \o AfterSharp(w))
  BY DEF AfterRpad, AfterSharp
<1>5. AfterRpad(w) \in Seq(Char)
  <2> DEFINE x == <<"#">> \o AfterSharp(w)
  <2>1. x \in Seq(Char) /\ AfterRpad(w) = <<" ">> \o x
    BY <1>3, <1>4
  <2> HIDE DEF x
  <2> QED BY <2>1, BlankType
<1>6. AfterLpad(w) \in Seq(Char)
  <2> DEFINE x == quote_ed(w.rpad) \o AfterRpad(w)
  <2>1. x \in Seq(Char) /\ AfterLpad(w) = <<" ">> \o x
    BY <1>0, <1>5, QuotedIs DEF AfterLpad
  <2> HIDE DEF x
  <2> QED BY <2>1, BlankType
<1>7. AfterEnd(w) \in Seq(Char) /\ Ends(AfterEnd(w))
  <2>1. ASSUME w.trim PROVE AfterEnd(w) \in Seq(Char) /\ Ends(AfterEnd(w))
    <3> DEFINE x == quote_ed(w.lpad) \o AfterLpad(w)
    <3>1. x \in Seq(Char) /\ AfterEnd(w) = <<" ">> \o x
      BY <1>0, <1>6, <2>1, QuotedIs DEF AfterEnd
    <3> HIDE DEF x
    <3> QED BY <3>1, BlankType DEF Ends
  <2>2. ASSUME ~w.trim PROVE AfterEnd(w) \in Seq(Char) /\ Ends(AfterEnd(w))
    <3> DEFINE x == <<"#">> \o AfterSharp(w)
    <3>1. x \in Seq(Char) /\ AfterEnd(w) = <<" ">> \o x
      BY <1>3, <1>4, <2>2 DEF AfterEnd
    <3> HIDE DEF x
    <3> QED BY <3>1, BlankType DEF Ends
  <2> QED BY <2>1, <2>2
<1>8. AfterBegin(w) \in Seq(Char) /\ Ends(AfterBegin(w))
  <2> DEFINE x == Decimal[w.end] \o AfterEnd(w)
  <2>1. x \in Seq(Char) /\ AfterBegin(w) = <<" ">> \o x
    BY <1>0, <1>7, NumberType DEF AfterBegin
  <2> HIDE DEF x
  <2> QED BY <2>1, BlankType DEF Ends
<1>9. AfterPath(w) \in Seq(Char)
  <2> DEFINE x == Decimal[w.begin] \o AfterBegin(w)
  <2>1. x \in Seq(Char) /\ AfterPath(w) = <<" ">> \o x
    BY <1>0, <1>8, NumberType DEF AfterPath
  <2> HIDE DEF x
  <2> QED BY <2>1, BlankType
<1>10. quote_ed(w.path) \o AfterPath(w) \in Seq(Char)
  BY <1>0, <1>9, QuotedIs
<1>11. <<>> \in Seq(Char) /\ Ends(<<>>)
  BY EmptySeq DEF Ends
<1> QED BY <1>1, <1>2, <1>3, <1>4, <1>5, <1>6, <1>7, <1>8, <1>9, <1>10, <1>11

\* A blank is skipped, up to what is none.
LEMMA SkipBlank ==
    ASSUME text \in Seq(Char), NEW p \in 1..(Len(text) + 1),
           NEW c \in Char, c \notin Blanks, NEW t \in Seq(Char), NEW u \in Seq(Char),
           u = <<c>> \o t, LeftAt(p) = <<" ">> \o u
    PROVE  /\ Skip(p) = p + 1 /\ p + 1 \in 1..(Len(text) + 1) /\ At(p) = " "
           /\ At(p + 1) = c /\ LeftAt(p + 1) = u /\ p + 1 + 1 \in 1..(Len(text) + 1)
           /\ LeftAt(p + 1 + 1) = t
<1>1. " " \in Char /\ " " \in Blanks /\ Len(text) \in Nat
  BY Letters, LenProperties DEF Blanks
<1>2. Here(p, " ", u)
  BY <1>1, Reads
<1>3. At(p) = " " /\ p + 1 \in 1..(Len(text) + 1) /\ LeftAt(p + 1) = u
  BY <1>2 DEF Here
<1> DEFINE q == p + 1
<1>4. q \in 1..(Len(text) + 1) /\ LeftAt(q) = <<c>> \o t
  BY <1>3
<1> HIDE DEF q
<1>5. Here(q, c, t)
  BY <1>4, Reads
<1>6. At(q) = c /\ q + 1 \in 1..(Len(text) + 1) /\ LeftAt(q + 1) = t
  BY <1>5 DEF Here
<1>7. Skip(p) = p + 1
  BY <1>1, <1>3, <1>6, SkipOne DEF q
<1> QED BY <1>3, <1>6, <1>7 DEF q

\* Up to a number.
LEMMA SkipToNumber ==
    ASSUME text \in Seq(Char), NEW p \in 1..(Len(text) + 1), NEW n \in Nat,
           NEW after \in Seq(Char), LeftAt(p) = <<" ">> \o (Decimal[n] \o after)
    PROVE  /\ Skip(p) = p + 1 /\ p + 1 \in 1..(Len(text) + 1)
           /\ LeftAt(p + 1) = DigitsLeft(n, 0, after)
<1> DEFINE u == Decimal[n] \o after
           c == Decimal[n][0 + 1]
           t == DigitsLeft(n, 0 + 1, after)
<1>1. u \in Seq(Char) /\ u = DigitsLeft(n, 0, after)
  BY NumberType
<1>2. 0 \in 0..Len(Decimal[n]) /\ 0 < Len(Decimal[n])
  <2>1. Len(Decimal[n]) \in Nat /\ Len(Decimal[n]) >= 1
    BY DecimalType
  <2> QED BY ONLY <2>1
<1>3. c \in DigitChars /\ t \in Seq(Char) /\ DigitsLeft(n, 0, after) = <<c>> \o t
  BY <1>2, DigitsLeftIs
<1>4. c \in Char /\ c \notin Blanks
  BY <1>3, DigitValues
<1>5. LeftAt(p) = <<" ">> \o u
  OBVIOUS
<1> HIDE DEF u, c, t
<1>6. Skip(p) = p + 1 /\ p + 1 \in 1..(Len(text) + 1) /\ LeftAt(p + 1) = u
  <2>1. u = <<c>> \o t /\ u \in Seq(Char) /\ t \in Seq(Char)
    BY <1>1, <1>3
  <2> QED BY <1>4, <1>5, <2>1, SkipBlank
<1> QED BY <1>1, <1>6

\* Up to a quoted text.
LEMMA SkipToQuote ==
    ASSUME text \in Seq(Char), NEW p \in 1..(Len(text) + 1), NEW s \in Seq(Char),
           NEW after \in Seq(Char), LeftAt(p) = <<" ">> \o (quote_ed(s) \o after)
    PROVE  /\ Skip(p) = p + 1 /\ At(p + 1) = "\"" /\ p + 1 + 1 \in 1..(Len(text) + 1)
           /\ LeftAt(p + 1 + 1) = StillQuoted(s, 0, after)
<1> DEFINE u == quote_ed(s) \o after
           c == "\""
           t == StillQuoted(s, 0, after)
<1>1. u \in Seq(Char) /\ t \in Seq(Char) /\ u = <<c>> \o t
  BY QuotedIs
<1>2. c \in Char /\ c \notin Blanks
  BY Letters DEF Blanks
<1>3. LeftAt(p) = <<" ">> \o u
  OBVIOUS
<1> HIDE DEF u, c, t
<1>4. Skip(p) = p + 1 /\ At(p + 1) = c /\ p + 1 + 1 \in 1..(Len(text) + 1) /\ LeftAt(p + 1 + 1) = t
  BY <1>1, <1>2, <1>3, SkipBlank
<1> QED BY <1>4 DEF c, t

\* Up to the metadata.
LEMMA SkipToMeta ==
    ASSUME text \in Seq(Char), NEW p \in 1..(Len(text) + 1), NEW w \in Refs,
           LeftAt(p) = AfterRpad(w)
    PROVE  /\ Skip(p) = p + 1 /\ At(p + 1) = "#" /\ p + 1 \in 1..(Len(text) + 1)
           /\ LeftAt(p + 1) = <<"#">> \o AfterSharp(w)
<1> DEFINE t == AfterSharp(w)
           c == "#"
           u == <<"#">> \o AfterSharp(w)
<1>1. u \in Seq(Char) /\ t \in Seq(Char) /\ u = <<c>> \o t /\ LeftAt(p) = <<" ">> \o u
  BY TailTypes
<1>2. c \in Char /\ c \notin Blanks
  BY Letters DEF Blanks
<1> HIDE DEF u, c, t
<1>3. Skip(p) = p + 1 /\ At(p + 1) = c /\ p + 1 \in 1..(Len(text) + 1) /\ LeftAt(p + 1) = u
  BY <1>1, <1>2, SkipBlank
<1> QED BY <1>3 DEF c, u

-----------------------------------------------------------------------------
(* One step from each place on the line.                                   *)

Place(w) == written = w /\ OnLine
Onward(w) == written' = w /\ text' \in Seq(Char) /\ pos' \in 1..(Len(text') + 1) /\ OnTheWay(w)'

LEMMA GoesOnward ==
    ASSUME NEW w, Place(w), UNCHANGED line, pos' \in 1..(Len(text) + 1), OnTheWay(w)'
    PROVE  Onward(w)
BY DEF Place, OnLine, line, Onward

\* The actions for each field.
LEMMA FieldActions ==
    ASSUME DirNext
    PROVE  /\ field = "r" => Start
           /\ field \in {"quoted", "lpad", "rpad"} => QuotedChar \/ EscapedChar \/ Unclosed \/ EndQuote
           /\ field \in {"begin", "end", "bytes"}
                 => NumberDigit \/ NumberEnds \/ NumberRefused \/ NumberRead
           /\ field = "meta" => Meta
           /\ field = "guard" => Guard
           /\ field # "ref"
<1>1. field = "r" => Start
  BY DEF DirNext, PathChar, EndPath, QuotedChar, EscapedChar, Unclosed, EndQuote, Quoting,
         NumberDigit, NumberEnds, NumberRefused, NumberRead, Numbering, Meta, Guard
<1>2. field \in {"quoted", "lpad", "rpad"} => QuotedChar \/ EscapedChar \/ Unclosed \/ EndQuote
  BY DEF DirNext, Start, PathChar, EndPath,
         NumberDigit, NumberEnds, NumberRefused, NumberRead, Numbering, Meta, Guard
<1>3. field \in {"begin", "end", "bytes"} => NumberDigit \/ NumberEnds \/ NumberRefused \/ NumberRead
  BY DEF DirNext, Start, PathChar, EndPath, QuotedChar, EscapedChar, Unclosed, EndQuote, Quoting,
         Meta, Guard
<1>4. field = "meta" => Meta
  BY DEF DirNext, Start, PathChar, EndPath, QuotedChar, EscapedChar, Unclosed, EndQuote, Quoting,
         NumberDigit, NumberEnds, NumberRefused, NumberRead, Numbering, Guard
<1>5. field = "guard" => Guard
  BY DEF DirNext, Start, PathChar, EndPath, QuotedChar, EscapedChar, Unclosed, EndQuote, Quoting,
         NumberDigit, NumberEnds, NumberRefused, NumberRead, Numbering, Meta
<1>6. field # "ref"
  BY DEF DirNext, Start, PathChar, EndPath, QuotedChar, EscapedChar, Unclosed, EndQuote, Quoting,
         NumberDigit, NumberEnds, NumberRefused, NumberRead, Numbering, Meta, Guard
<1> QED BY <1>1, <1>2, <1>3, <1>4, <1>5, <1>6

\* A quoted text begins, with nothing of it read.
LEMMA QuoteBegins ==
    ASSUME NEW s \in Seq(Char), NEW after \in Seq(Char), UNCHANGED text, got' = <<>>,
           LeftAt(pos') = StillQuoted(s, 0, after)
    PROVE  InQuote(s, after)'
<1>1. SubSeq(s, 1, 0) = <<>> /\ 0 \in 0..Len(s)
  BY LenProperties, SubSeqEmpty
<1>2. LeftAt(pos)' = LeftAt(pos')
  BY DEF LeftAt
<1> QED BY <1>1, <1>2 DEF InQuote, StillQuoted

\* A number begins.
LEMMA NumberBegins ==
    ASSUME NEW which, NEW n \in Nat, NEW after \in Seq(Char), UNCHANGED text, got' = <<>>,
           Fresh(which)', LeftAt(pos') = DigitsLeft(n, 0, after)
    PROVE  InNumber(which, n, after)'
<1>1. 0 \in 0..Len(Decimal[n])
  <2>1. Len(Decimal[n]) \in Nat
    BY DecimalType
  <2> QED BY ONLY <2>1
<1>2. LeftAt(pos)' = LeftAt(pos')
  BY DEF LeftAt
<1>3. reader' = which /\ status' = "reading" /\ value' = 0 /\ number' = 0 /\ digits' = 0
  BY DEF Fresh
<1>4. LeftAt(pos)' = SubSeq(Decimal[n], 0 + 1, Len(Decimal[n])) \o after
  BY <1>2 DEF DigitsLeft
<1> QED BY <1>1, <1>3, <1>4 DEF InNumber

LEMMA StepStart ==
    ASSUME NEW w \in Refs, Place(w), AtStart(w), Start
    PROVE  Onward(w)
<1> DEFINE u == quote_ed(w.path) \o AfterPath(w)
           t == StillQuoted(w.path, 0, AfterPath(w))
<1>1. w.path \in Seq(Char) /\ AfterPath(w) \in Seq(Char) /\ u \in Seq(Char) /\ t \in Seq(Char)
      /\ u = <<"\"">> \o t
  BY RefIs, TailTypes, QuotedIs
<1>2. text \in Seq(Char) /\ 1 \in 1..(Len(text) + 1) /\ "r" \in Char /\ " " \in Char
      /\ Len(text) \in Nat
  <2>1. text \in Seq(Char)
    BY DEF Place, OnLine
  <2>2. Len(text) \in Nat
    BY <2>1, LenProperties
  <2>3. 1 \in 1..(Len(text) + 1)
    BY ONLY <2>2
  <2>4. "r" \in Char /\ " " \in Char
    BY CharAssumption
  <2> QED BY <2>1, <2>2, <2>3, <2>4
<1>3. LeftAt(1) = <<"r">> \o (<<" ">> \o u)
  BY DEF AtStart, emit_ref
<1> HIDE DEF u
<1>4. At(1) = "r" /\ 2 \in 1..(Len(text) + 1) /\ LeftAt(2) = <<" ">> \o u
  <2> DEFINE v == <<" ">> \o u
  <2>1. v \in Seq(Char) /\ LeftAt(1) = <<"r">> \o v
    BY <1>1, <1>3, BlankType
  <2> HIDE DEF v
  <2>2. Here(1, "r", v)
    BY <1>2, <2>1, Reads
  <2>3. 1 + 1 = 2
    OBVIOUS
  <2> QED BY <2>2, <2>3 DEF Here, v
<1>5. At(2) = " " /\ 3 \in 1..(Len(text) + 1) /\ LeftAt(3) = u
  <2>1. Here(2, " ", u)
    BY <1>1, <1>2, <1>4, Reads
  <2>2. 2 + 1 = 3
    OBVIOUS
  <2> QED BY <2>1, <2>2 DEF Here
<1>6. At(3) = "\"" /\ 4 \in 1..(Len(text) + 1) /\ LeftAt(4) = t
  <2>1. LeftAt(3) = <<"\"">> \o t /\ "\"" \in Char
    BY <1>1, <1>5, Letters
  <2> HIDE DEF t
  <2>2. Here(3, "\"", t)
    BY <1>1, <1>2, <1>5, <2>1, Reads
  <2>3. 3 + 1 = 4
    OBVIOUS
  <2> QED BY <2>2, <2>3 DEF Here
<1>7. Skip(3) = 3
  BY <1>2, <1>5, <1>6, SkipNone DEF Blanks
<1>8. field' = "quoted" /\ pos' = 4 /\ UNCHANGED <<vars, line, read>>
  <2>1. At(1) = "r" /\ At(2) = " " /\ At(Skip(3)) = "\"" /\ Skip(3) + 1 = 4
    <3>1. Skip(3) + 1 = 4
      BY ONLY <1>7
    <3>2. At(Skip(3)) = At(3)
      BY <1>7
    <3> QED BY <1>4, <1>5, <1>6, <3>1, <3>2
  <2> QED BY <2>1 DEF Start, Expect
<1>9. UNCHANGED <<reader, value, number, digits, status>> /\ UNCHANGED text /\ UNCHANGED line
      /\ got' = <<>> /\ ref' = NoRef
  BY <1>8 DEF vars, line, read, AtStart
<1>10. Fresh("uint")'
  BY <1>9 DEF AtStart, Fresh
<1>11. InQuote(w.path, AfterPath(w))'
  BY <1>1, <1>6, <1>8, <1>9, QuoteBegins
<1>12. AtPath(w)'
  BY <1>8, <1>9, <1>10, <1>11 DEF AtPath
<1> QED BY <1>6, <1>8, <1>9, <1>12, GoesOnward DEF OnTheWay

LEMMA FreshStays == ASSUME NEW which, Fresh(which), UNCHANGED vars PROVE Fresh(which)'
BY DEF Fresh, vars

LEMMA StepPath ==
    ASSUME NEW w \in Refs, Place(w), AtPath(w), QuotedChar \/ EscapedChar \/ Unclosed \/ EndQuote
    PROVE  Onward(w)
<1>1. w.path \in Seq(Char) /\ AfterPath(w) \in Seq(Char) /\ w.begin \in Nat /\ AfterBegin(w) \in Seq(Char)
  BY RefIs, TailTypes
<1>2. OnLine /\ InQuote(w.path, AfterPath(w)) /\ field = "quoted" /\ ref = NoRef /\ Fresh("uint")
  BY DEF Place, AtPath
<1>3. CASE QuotedChar \/ EscapedChar
  <2>1. /\ InQuote(w.path, AfterPath(w))' /\ pos' \in 1..(Len(text) + 1) /\ Kept
        /\ field' = field /\ ref' = ref
    BY <1>1, <1>2, <1>3, QuoteChars
  <2>2. Fresh("uint")' /\ UNCHANGED line
    BY <1>2, <2>1, FreshStays DEF Kept
  <2>3. AtPath(w)'
    BY <1>2, <2>1, <2>2 DEF AtPath
  <2> QED BY <2>1, <2>2, <2>3, GoesOnward DEF OnTheWay
<1>4. CASE Unclosed \/ EndQuote
  <2>1. At(pos) \in {"\"", End}
    BY <1>4 DEF Unclosed, EndQuote
  <2>2. At(pos) = "\"" /\ got = w.path /\ pos + 1 \in 1..(Len(text) + 1) /\ LeftAt(pos + 1) = AfterPath(w)
    BY <1>1, <1>2, <2>1, QuoteCloses
  <2>3. EndQuote
    BY <1>4, <2>2 DEF Unclosed, End
  <2> DEFINE q == pos + 1
  <2>4. LeftAt(q) = <<" ">> \o (Decimal[w.begin] \o AfterBegin(w)) /\ q \in 1..(Len(text) + 1)
        /\ text \in Seq(Char)
    BY <1>2, <2>2 DEF AfterPath, OnLine
  <2> HIDE DEF q
  <2>5. /\ Skip(q) = q + 1 /\ q + 1 \in 1..(Len(text) + 1)
        /\ LeftAt(q + 1) = DigitsLeft(w.begin, 0, AfterBegin(w))
    BY <1>1, <2>4, SkipToNumber
  <2>6. /\ ref' = [ref EXCEPT !.path = got] /\ Expect("begin", Skip(q)) /\ got' = <<>>
        /\ UNCHANGED <<vars, line>>
    BY <1>2, <2>3 DEF EndQuote, q
  <2>7. ref' = ToPath(w) /\ field' = "begin" /\ pos' = q + 1 /\ UNCHANGED text /\ UNCHANGED line
        /\ Fresh("uint")'
    BY <1>2, <2>2, <2>5, <2>6, RefRead, FreshStays DEF Expect, line
  <2>8. InNumber("uint", w.begin, AfterBegin(w))'
    BY <1>1, <2>5, <2>6, <2>7, NumberBegins
  <2>9. AtBegin(w)'
    BY <2>7, <2>8 DEF AtBegin
  <2> QED BY <2>5, <2>7, <2>9, GoesOnward DEF OnTheWay
<1> QED BY <1>3, <1>4

LEMMA NumberGoesOn ==
    ASSUME NEW which \in {"uint", "full"}, NEW n \in Nat, n <= Largest(which),
           NEW after \in Seq(Char), Ends(after), OnLine,
           InNumber(which, n, after), NumberDigit \/ NumberEnds \/ NumberRefused
    PROVE  /\ InNumber(which, n, after)' /\ pos' \in 1..(Len(text) + 1)
           /\ UNCHANGED line /\ field' = field /\ ref' = ref
<1>1. ~NumberRefused
  BY NumberStands
<1>2. CASE NumberDigit
  BY <1>2, DigitTaken
<1>3. CASE NumberEnds
  BY <1>3, NumberOver
<1> QED BY <1>1, <1>2, <1>3

LEMMA NumberDone ==
    ASSUME NEW which, NEW n \in Nat, NEW after \in Seq(Char), Ends(after), OnLine,
           InNumber(which, n, after), status = "accepted"
    PROVE  value = n /\ LeftAt(pos) = after /\ got = <<>>
BY NumberStands DEF InNumber

LEMMA StepBegin ==
    ASSUME NEW w \in Refs, Place(w), AtBegin(w),
           NumberDigit \/ NumberEnds \/ NumberRefused \/ NumberRead
    PROVE  Onward(w)
<1>1. /\ w.begin \in Nat /\ w.begin <= Largest("uint") /\ w.end \in Nat
      /\ AfterBegin(w) \in Seq(Char) /\ Ends(AfterBegin(w)) /\ AfterEnd(w) \in Seq(Char)
  BY RefIs, TailTypes
<1>2. OnLine /\ InNumber("uint", w.begin, AfterBegin(w)) /\ field = "begin" /\ ref = ToPath(w)
  BY DEF Place, AtBegin
<1>3. CASE NumberDigit \/ NumberEnds \/ NumberRefused
  <2>1. /\ InNumber("uint", w.begin, AfterBegin(w))' /\ pos' \in 1..(Len(text) + 1)
        /\ UNCHANGED line /\ field' = field /\ ref' = ref
    BY <1>1, <1>2, <1>3, NumberGoesOn
  <2>2. AtBegin(w)'
    BY <1>2, <2>1 DEF AtBegin
  <2> QED BY <2>1, <2>2, GoesOnward DEF OnTheWay
<1>4. CASE NumberRead
  <2>1. value = w.begin /\ LeftAt(pos) = AfterBegin(w) /\ got = <<>>
    BY <1>1, <1>2, <1>4, NumberDone DEF NumberRead
  <2>2. LeftAt(pos) = <<" ">> \o (Decimal[w.end] \o AfterEnd(w)) /\ pos \in 1..(Len(text) + 1)
        /\ text \in Seq(Char)
    BY <1>2, <2>1 DEF AfterBegin, OnLine
  <2>3. /\ Skip(pos) = pos + 1 /\ pos + 1 \in 1..(Len(text) + 1)
        /\ LeftAt(pos + 1) = DigitsLeft(w.end, 0, AfterEnd(w))
    BY <1>1, <2>2, SkipToNumber
  <2>4. /\ ref' = [ref EXCEPT !.begin = value] /\ Expect("end", Skip(pos)) /\ Reading("uint")
        /\ UNCHANGED <<line, got>>
    BY <1>2, <1>4 DEF NumberRead
  <2>5. ref' = ToBegin(w) /\ field' = "end" /\ pos' = pos + 1 /\ UNCHANGED text /\ UNCHANGED line
        /\ got' = <<>> /\ Fresh("uint")'
    BY <1>2, <2>1, <2>3, <2>4, RefRead DEF Expect, line, Reading, Fresh
  <2>6. InNumber("uint", w.end, AfterEnd(w))'
    BY <1>1, <2>3, <2>5, NumberBegins
  <2>7. AtEnd(w)'
    BY <2>5, <2>6 DEF AtEnd
  <2> QED BY <2>3, <2>5, <2>7, GoesOnward DEF OnTheWay
<1> QED BY <1>3, <1>4

LEMMA StepEnd ==
    ASSUME NEW w \in Refs, Place(w), AtEnd(w),
           NumberDigit \/ NumberEnds \/ NumberRefused \/ NumberRead
    PROVE  Onward(w)
<1>1. /\ w.end \in Nat /\ w.end <= Largest("uint") /\ 1 <= w.begin /\ w.begin <= w.end
      /\ w.begin \in Nat /\ w.lpad \in Seq(Char) /\ AfterLpad(w) \in Seq(Char)
      /\ AfterEnd(w) \in Seq(Char) /\ Ends(AfterEnd(w))
  BY RefIs, TailTypes
<1>2. OnLine /\ InNumber("uint", w.end, AfterEnd(w)) /\ field = "end" /\ ref = ToBegin(w)
      /\ text \in Seq(Char) /\ pos \in 1..(Len(text) + 1)
  BY DEF Place, AtEnd, OnLine
<1>3. CASE NumberDigit \/ NumberEnds \/ NumberRefused
  <2>1. /\ InNumber("uint", w.end, AfterEnd(w))' /\ pos' \in 1..(Len(text) + 1)
        /\ UNCHANGED line /\ field' = field /\ ref' = ref
    BY <1>1, <1>2, <1>3, NumberGoesOn
  <2>2. AtEnd(w)'
    BY <1>2, <2>1 DEF AtEnd
  <2> QED BY <2>1, <2>2, GoesOnward DEF OnTheWay
<1>4. CASE NumberRead
  <2>1. value = w.end /\ LeftAt(pos) = AfterEnd(w) /\ got = <<>>
    BY <1>1, <1>2, <1>4, NumberDone DEF NumberRead
  <2>2. ref.begin = w.begin
    BY <1>2, RefRead
  <2>3. /\ ref' = [ref EXCEPT !.end = value] /\ Reading("full") /\ UNCHANGED <<line, got>>
        /\ IF At(Skip(pos)) = "\"" THEN Expect("lpad", Skip(pos) + 1) ELSE Expect("meta", Skip(pos))
    <3>1. 1 <= ref.begin /\ ref.begin <= value /\ ~(ref.begin < 1 \/ value < ref.begin)
      BY <1>1, <2>1, <2>2
    <3> QED BY <1>2, <1>4, <3>1 DEF NumberRead
  <2>4. ref' = ToEnd(w) /\ UNCHANGED text /\ UNCHANGED line /\ got' = <<>> /\ Fresh("full")'
    BY <1>2, <2>1, <2>3, RefRead DEF line, Reading, Fresh
  <2>5. CASE w.trim
    <3>1. LeftAt(pos) = <<" ">> \o (quote_ed(w.lpad) \o AfterLpad(w))
      BY <2>1, <2>5 DEF AfterEnd
    <3>2. /\ Skip(pos) = pos + 1 /\ At(pos + 1) = "\"" /\ pos + 1 + 1 \in 1..(Len(text) + 1)
          /\ LeftAt(pos + 1 + 1) = StillQuoted(w.lpad, 0, AfterLpad(w))
      BY <1>1, <1>2, <3>1, SkipToQuote
    <3>3. field' = "lpad" /\ pos' = pos + 1 + 1
      BY <2>3, <3>2 DEF Expect
    <3>4. InQuote(w.lpad, AfterLpad(w))'
      BY <1>1, <2>4, <3>2, <3>3, QuoteBegins
    <3>5. AtLpad(w)'
      BY <2>4, <2>5, <3>3, <3>4 DEF AtLpad
    <3> QED BY <2>4, <3>2, <3>3, <3>5, GoesOnward DEF OnTheWay
  <2>6. CASE ~w.trim
    <3>1. LeftAt(pos) = AfterRpad(w)
      BY <2>1, <2>6 DEF AfterEnd
    <3>2. /\ Skip(pos) = pos + 1 /\ At(pos + 1) = "#" /\ pos + 1 \in 1..(Len(text) + 1)
          /\ LeftAt(pos + 1) = <<"#">> \o AfterSharp(w)
      BY <1>2, <3>1, SkipToMeta
    <3>3. field' = "meta" /\ pos' = pos + 1
      BY <2>3, <3>2 DEF Expect
    <3>4. ref' = ToRpad(w)
      BY <2>4, <2>6, RefRead
    <3>5. LeftAt(pos)' = <<"#">> \o (<<" ">> \o make_guard(w))
      BY <2>4, <3>2, <3>3 DEF LeftAt, AfterSharp
    <3>6. AtMeta(w)'
      BY <2>4, <3>3, <3>4, <3>5 DEF AtMeta
    <3> QED BY <2>4, <3>2, <3>3, <3>6, GoesOnward DEF OnTheWay
  <2> QED BY <2>5, <2>6
<1> QED BY <1>3, <1>4

LEMMA StepLpad ==
    ASSUME NEW w \in Refs, Place(w), AtLpad(w), QuotedChar \/ EscapedChar \/ Unclosed \/ EndQuote
    PROVE  Onward(w)
<1>1. w.lpad \in Seq(Char) /\ AfterLpad(w) \in Seq(Char) /\ w.rpad \in Seq(Char) /\ AfterRpad(w) \in Seq(Char)
  BY RefIs, TailTypes
<1>2. OnLine /\ InQuote(w.lpad, AfterLpad(w)) /\ field = "lpad" /\ ref = ToEnd(w) /\ Fresh("full") /\ w.trim
  BY DEF Place, AtLpad
<1>3. CASE QuotedChar \/ EscapedChar
  <2>1. /\ InQuote(w.lpad, AfterLpad(w))' /\ pos' \in 1..(Len(text) + 1) /\ Kept
        /\ field' = field /\ ref' = ref
    BY <1>1, <1>2, <1>3, QuoteChars
  <2>2. Fresh("full")' /\ UNCHANGED line
    BY <1>2, <2>1, FreshStays DEF Kept
  <2>3. AtLpad(w)'
    BY <1>2, <2>1, <2>2 DEF AtLpad
  <2> QED BY <2>1, <2>2, <2>3, GoesOnward DEF OnTheWay
<1>4. CASE Unclosed \/ EndQuote
  <2>1. At(pos) \in {"\"", End}
    BY <1>4 DEF Unclosed, EndQuote
  <2>2. At(pos) = "\"" /\ got = w.lpad /\ pos + 1 \in 1..(Len(text) + 1) /\ LeftAt(pos + 1) = AfterLpad(w)
    BY <1>1, <1>2, <2>1, QuoteCloses
  <2>3. EndQuote
    BY <1>4, <2>2 DEF Unclosed, End
  <2> DEFINE q == pos + 1
  <2>4. LeftAt(q) = <<" ">> \o (quote_ed(w.rpad) \o AfterRpad(w)) /\ q \in 1..(Len(text) + 1)
        /\ text \in Seq(Char)
    BY <1>2, <2>2 DEF AfterLpad, OnLine
  <2> HIDE DEF q
  <2>5. /\ Skip(q) = q + 1 /\ At(q + 1) = "\"" /\ q + 1 + 1 \in 1..(Len(text) + 1)
        /\ LeftAt(q + 1 + 1) = StillQuoted(w.rpad, 0, AfterRpad(w))
    BY <1>1, <2>4, SkipToQuote
  <2>6. /\ ref' = [ref EXCEPT !.lpad = got] /\ Expect("rpad", Skip(q) + 1) /\ got' = <<>>
        /\ UNCHANGED <<vars, line>>
    <3>1. At(Skip(q)) = "\""
      BY <2>5
    <3> QED BY <1>2, <2>3, <3>1 DEF EndQuote, q
  <2>7. ref' = ToLpad(w) /\ field' = "rpad" /\ pos' = q + 1 + 1 /\ UNCHANGED text /\ UNCHANGED line
        /\ Fresh("full")'
    BY <1>2, <2>2, <2>5, <2>6, RefRead, FreshStays DEF Expect, line
  <2>8. InQuote(w.rpad, AfterRpad(w))'
    BY <1>1, <2>5, <2>6, <2>7, QuoteBegins
  <2>9. AtRpad(w)'
    BY <1>2, <2>7, <2>8 DEF AtRpad
  <2> QED BY <2>5, <2>7, <2>9, GoesOnward DEF OnTheWay
<1> QED BY <1>3, <1>4

LEMMA StepRpad ==
    ASSUME NEW w \in Refs, Place(w), AtRpad(w), QuotedChar \/ EscapedChar \/ Unclosed \/ EndQuote
    PROVE  Onward(w)
<1>1. w.rpad \in Seq(Char) /\ AfterRpad(w) \in Seq(Char)
  BY RefIs, TailTypes
<1>2. OnLine /\ InQuote(w.rpad, AfterRpad(w)) /\ field = "rpad" /\ ref = ToLpad(w) /\ Fresh("full") /\ w.trim
  BY DEF Place, AtRpad
<1>3. CASE QuotedChar \/ EscapedChar
  <2>1. /\ InQuote(w.rpad, AfterRpad(w))' /\ pos' \in 1..(Len(text) + 1) /\ Kept
        /\ field' = field /\ ref' = ref
    BY <1>1, <1>2, <1>3, QuoteChars
  <2>2. Fresh("full")' /\ UNCHANGED line
    BY <1>2, <2>1, FreshStays DEF Kept
  <2>3. AtRpad(w)'
    BY <1>2, <2>1, <2>2 DEF AtRpad
  <2> QED BY <2>1, <2>2, <2>3, GoesOnward DEF OnTheWay
<1>4. CASE Unclosed \/ EndQuote
  <2>1. At(pos) \in {"\"", End}
    BY <1>4 DEF Unclosed, EndQuote
  <2>2. At(pos) = "\"" /\ got = w.rpad /\ pos + 1 \in 1..(Len(text) + 1) /\ LeftAt(pos + 1) = AfterRpad(w)
    BY <1>1, <1>2, <2>1, QuoteCloses
  <2>3. EndQuote
    BY <1>4, <2>2 DEF Unclosed, End
  <2> DEFINE q == pos + 1
  <2>4. LeftAt(q) = AfterRpad(w) /\ q \in 1..(Len(text) + 1) /\ text \in Seq(Char)
    BY <1>2, <2>2 DEF OnLine
  <2> HIDE DEF q
  <2>5. /\ Skip(q) = q + 1 /\ q + 1 \in 1..(Len(text) + 1)
        /\ LeftAt(q + 1) = <<"#">> \o AfterSharp(w)
    BY <2>4, SkipToMeta
  <2>6. /\ ref' = [ref EXCEPT !.rpad = got, !.trim = TRUE] /\ Expect("meta", Skip(q)) /\ got' = <<>>
        /\ UNCHANGED <<vars, line>>
    BY <1>2, <2>3 DEF EndQuote, q
  <2>7. field' = "meta" /\ pos' = q + 1 /\ UNCHANGED text /\ UNCHANGED line /\ Fresh("full")'
    BY <1>2, <2>5, <2>6, FreshStays DEF Expect, line
  <2>8. ref' = ToRpad(w)
    BY <1>2, <2>2, <2>6, RefRead
  <2>9. LeftAt(pos)' = <<"#">> \o (<<" ">> \o make_guard(w))
    BY <2>5, <2>7 DEF LeftAt, AfterSharp
  <2>10. AtMeta(w)'
    BY <2>6, <2>7, <2>8, <2>9 DEF AtMeta
  <2> QED BY <2>5, <2>7, <2>10, GoesOnward DEF OnTheWay
<1> QED BY <1>3, <1>4

LEMMA StepMeta ==
    ASSUME NEW w \in Refs, Place(w), AtMeta(w), Meta
    PROVE  Onward(w)
<1>1. text \in Seq(Char) /\ pos \in 1..(Len(text) + 1) /\ field = "meta" /\ got = <<>>
      /\ ref = ToRpad(w) /\ Fresh("full") /\ LeftAt(pos) = <<"#">> \o AfterSharp(w)
      /\ AfterSharp(w) = <<" ">> \o make_guard(w)
      /\ AfterSharp(w) \in Seq(Char) /\ make_guard(w) \in Seq(Char) /\ "#" \in Char /\ " " \in Char
  BY TailTypes, Letters DEF Place, OnLine, AtMeta, AfterSharp
<1>2. Here(pos, "#", AfterSharp(w))
  <2> DEFINE t == AfterSharp(w)
  <2>1. t \in Seq(Char) /\ LeftAt(pos) = <<"#">> \o t
    BY <1>1
  <2> HIDE DEF t
  <2>2. Here(pos, "#", t)
    BY <1>1, <2>1, Reads
  <2> QED BY <2>2 DEF t
<1> DEFINE q == pos + 1
<1>3. At(pos) = "#" /\ q \in 1..(Len(text) + 1) /\ LeftAt(q) = <<" ">> \o make_guard(w)
  BY <1>1, <1>2 DEF Here
<1> HIDE DEF q
<1>4. Here(q, " ", make_guard(w))
  BY <1>1, <1>3, Reads
<1>5. At(q) = " " /\ q + 1 \in 1..(Len(text) + 1) /\ LeftAt(q + 1) = make_guard(w)
  BY <1>4 DEF Here
<1>6. Expect("guard", pos + 2) /\ UNCHANGED ref /\ UNCHANGED <<vars, line, got>>
  BY <1>3, <1>5 DEF Meta, q
<1>7. pos + 2 = q + 1
  <2>1. pos \in 1..(Len(text) + 1)
    BY <1>1
  <2>2. pos \in Int
    BY ONLY <2>1
  <2> QED BY ONLY <2>2 DEF q
<1>8. field' = "guard" /\ pos' = q + 1 /\ ref' = ToRpad(w) /\ got' = <<>> /\ UNCHANGED text
      /\ UNCHANGED line /\ Fresh("full")'
  BY <1>1, <1>6, <1>7, FreshStays DEF Expect, line
<1>9. LeftAt(pos)' = make_guard(w)
  BY <1>5, <1>8 DEF LeftAt
<1>10. AtGuard(w)'
  BY <1>8, <1>9 DEF AtGuard
<1> QED BY <1>5, <1>8, <1>10, GoesOnward DEF OnTheWay

LEMMA StepGuard ==
    ASSUME NEW w \in Refs, Place(w), AtGuard(w), Guard
    PROVE  Onward(w)
<1>1. text \in Seq(Char) /\ pos \in 1..(Len(text) + 1) /\ field = "guard" /\ got = <<>>
      /\ ref = ToRpad(w) /\ Fresh("full") /\ LeftAt(pos) = make_guard(w)
      /\ "h:" \in Char /\ "s:" \in Char /\ <<>> \in Seq(Char)
  BY Letters, EmptySeq DEF Place, OnLine, AtGuard
<1>2. CASE w.has_hash
  <2>1. Here(pos, "h:", <<>>)
    BY <1>1, <1>2, GuardIs, Reads
  <2>2. At(pos) = "h:" /\ pos + 1 \in 1..(Len(text) + 1) /\ LeftAt(pos + 1) = <<>>
    BY <2>1 DEF Here
  <2>3. At(pos + 1) = End
    BY <1>1, <2>2, ReadsEnd
  <2>4. ref' = [ref EXCEPT !.has_hash = TRUE] /\ Expect("guard", pos + 1) /\ UNCHANGED <<vars, line, got>>
    BY <2>2, <2>3 DEF Guard, End
  <2>5. field' = "guard" /\ pos' = pos + 1 /\ ref' = w /\ UNCHANGED text /\ UNCHANGED line
    BY <1>1, <1>2, <2>4, RefRead DEF Expect, line
  <2>6. LeftAt(pos)' = <<>>
    BY <2>2, <2>5 DEF LeftAt
  <2>7. Guarded(w)'
    BY <2>5, <2>6 DEF Guarded
  <2> QED BY <2>2, <2>5, <2>7, GoesOnward DEF OnTheWay
<1>3. CASE ~w.has_hash
  <2> DEFINE d == Decimal[w.bytes]
  <2>1. w.bytes \in Nat /\ w.bytes <= Largest("full") /\ d \in Seq(Char) /\ LeftAt(pos) = <<"s:">> \o d
    BY <1>1, <1>3, RefIs, GuardIs
  <2>2. DigitsLeft(w.bytes, 0, <<>>) = d
    <3>1. Decimal[w.bytes] \o <<>> = DigitsLeft(w.bytes, 0, <<>>)
      BY <1>1, <2>1, NumberType
    <3>2. d \o <<>> = d
      BY <2>1, ConcatEmptySeq
    <3> QED BY <3>1, <3>2
  <2>3. Here(pos, "s:", d)
    <3> HIDE DEF d
    <3> QED BY <1>1, <2>1, Reads
  <2>4. At(pos) = "s:" /\ pos + 1 \in 1..(Len(text) + 1) /\ LeftAt(pos + 1) = d
    BY <2>3 DEF Here
  <2>5. Expect("bytes", pos + 1) /\ UNCHANGED ref /\ UNCHANGED <<vars, line, got>>
    BY <2>4 DEF Guard, End
  <2>6. field' = "bytes" /\ pos' = pos + 1 /\ ref' = ToRpad(w) /\ got' = <<>> /\ UNCHANGED text
        /\ UNCHANGED line /\ Fresh("full")'
    BY <1>1, <2>5, FreshStays DEF Expect, line
  <2>7. InNumber("full", w.bytes, <<>>)'
    <3>1. LeftAt(pos') = DigitsLeft(w.bytes, 0, <<>>)
      BY <2>2, <2>4, <2>6
    <3> QED BY <1>1, <2>1, <2>6, <3>1, NumberBegins
  <2>8. AtBytes(w)'
    BY <1>3, <2>6, <2>7 DEF AtBytes
  <2> QED BY <2>4, <2>6, <2>8, GoesOnward DEF OnTheWay
<1> QED BY <1>2, <1>3

LEMMA StepBytes ==
    ASSUME NEW w \in Refs, Place(w), AtBytes(w),
           NumberDigit \/ NumberEnds \/ NumberRefused \/ NumberRead
    PROVE  Onward(w)
<1>1. OnLine /\ ~w.has_hash /\ InNumber("full", w.bytes, <<>>) /\ field = "bytes" /\ ref = ToRpad(w)
  BY DEF Place, AtBytes
<1>2. w.bytes \in Nat /\ w.bytes <= Largest("full") /\ <<>> \in Seq(Char) /\ Ends(<<>>)
  BY <1>1, RefIs, TailTypes
<1>3. CASE NumberDigit \/ NumberEnds \/ NumberRefused
  <2>1. /\ InNumber("full", w.bytes, <<>>)' /\ pos' \in 1..(Len(text) + 1)
        /\ UNCHANGED line /\ field' = field /\ ref' = ref
    BY <1>1, <1>2, <1>3, NumberGoesOn
  <2>2. AtBytes(w)'
    BY <1>1, <2>1 DEF AtBytes
  <2> QED BY <2>1, <2>2, GoesOnward DEF OnTheWay
<1>4. CASE NumberRead
  <2>1. value = w.bytes /\ LeftAt(pos) = <<>>
    BY <1>1, <1>2, <1>4, NumberDone DEF NumberRead
  <2>2. ref' = [ref EXCEPT !.bytes = value] /\ Expect("guard", pos) /\ UNCHANGED <<line, got>>
    BY <1>1, <1>4 DEF NumberRead
  <2>3. ref' = w /\ field' = "guard" /\ pos' = pos /\ UNCHANGED text /\ UNCHANGED line
    BY <1>1, <2>1, <2>2, RefRead DEF Expect, line
  <2>4. LeftAt(pos)' = <<>>
    BY <2>1, <2>3 DEF LeftAt
  <2>5. Guarded(w)' /\ pos' \in 1..(Len(text) + 1)
    BY <1>1, <2>3, <2>4 DEF Guarded, OnLine
  <2> QED BY <2>3, <2>5, GoesOnward DEF OnTheWay
<1> QED BY <1>3, <1>4

LEMMA StepGuarded ==
    ASSUME NEW w \in Refs, Place(w), Guarded(w), Guard
    PROVE  Onward(w)
<1>1. text \in Seq(Char) /\ pos \in 1..(Len(text) + 1) /\ ref = w /\ LeftAt(pos) = <<>>
  BY DEF Place, OnLine, Guarded
<1>2. At(pos) = End
  BY <1>1, ReadsEnd
<1>3. ref.has_hash \/ ref.bytes # -1
  BY <1>1, RefIs
<1>4. Expect("ref", pos) /\ UNCHANGED ref /\ UNCHANGED <<vars, line, got>>
  BY <1>2, <1>3 DEF Guard, End
<1>5. field' = "ref" /\ pos' = pos /\ ref' = w /\ UNCHANGED line
  BY <1>1, <1>4 DEF Expect
<1>6. Finished(w)' /\ pos' \in 1..(Len(text) + 1)
  BY <1>1, <1>5 DEF Finished
<1> QED BY <1>5, <1>6, GoesOnward DEF OnTheWay

LEMMA StepOnward ==
    ASSUME NEW w \in Refs, Place(w), OnTheWay(w), DirNext
    PROVE  Onward(w)
<1>1. CASE AtStart(w)
  BY <1>1, FieldActions, StepStart DEF AtStart
<1>2. CASE AtPath(w)
  BY <1>2, FieldActions, StepPath DEF AtPath
<1>3. CASE AtBegin(w)
  BY <1>3, FieldActions, StepBegin DEF AtBegin
<1>4. CASE AtEnd(w)
  BY <1>4, FieldActions, StepEnd DEF AtEnd
<1>5. CASE AtLpad(w)
  BY <1>5, FieldActions, StepLpad DEF AtLpad
<1>6. CASE AtRpad(w)
  BY <1>6, FieldActions, StepRpad DEF AtRpad
<1>7. CASE AtMeta(w)
  BY <1>7, FieldActions, StepMeta DEF AtMeta
<1>8. CASE AtGuard(w)
  BY <1>8, FieldActions, StepGuard DEF AtGuard
<1>9. CASE AtBytes(w)
  BY <1>9, FieldActions, StepBytes DEF AtBytes
<1>10. CASE Guarded(w)
  BY <1>10, FieldActions, StepGuarded DEF Guarded
<1>11. CASE Finished(w)
  BY <1>11, FieldActions DEF Finished
<1> QED BY <1>1, <1>2, <1>3, <1>4, <1>5, <1>6, <1>7, <1>8, <1>9, <1>10, <1>11 DEF OnTheWay

LEMMA LineInvInit == DirInit => LineInv
<1> SUFFICES ASSUME DirInit, written # NoRef PROVE LineInv
  BY DEF LineInv
<1>1. written \in Refs /\ text = emit_ref(written)
  BY DEF DirInit
<1> DEFINE w == written
           u == quote_ed(w.path) \o AfterPath(w)
           v == <<" ">> \o u
<1>2. u \in Seq(Char) /\ "r" \in Char
  BY <1>1, TailTypes, CharAssumption
<1>3. v \in Seq(Char)
  <2> HIDE DEF u
  <2> QED BY <1>2, BlankType
<1>4. text = <<"r">> \o v
  BY <1>1 DEF emit_ref
<1>5. text \in Seq(Char)
  <2> HIDE DEF v
  <2> QED BY <1>2, <1>3, <1>4, AfterOne
<1>6. LeftAt(1) = emit_ref(written) /\ pos = 1 /\ 1 \in 1..(Len(text) + 1)
  <2>1. SubSeq(text, 1, Len(text)) = text /\ Len(text) \in Nat
    BY <1>5, SubSeqFull, LenProperties
  <2>2. 1 \in 1..(Len(text) + 1)
    BY ONLY <2>1
  <2> QED BY <1>1, <2>1, <2>2 DEF LeftAt, DirInit
<1>7. AtStart(written)
  BY <1>6 DEF AtStart, DirInit, Init, Fresh
<1> QED BY <1>1, <1>5, <1>6, <1>7 DEF LineInv, OnTheWay

LEMMA LineInvNext == LineInv /\ [DirNext]_dirVars => LineInv'
<1> SUFFICES ASSUME LineInv, [DirNext]_dirVars PROVE LineInv'
  OBVIOUS
<1>1. written' = written
  BY DEF dirVars, line, DirNext, Start, PathChar, EndPath, QuotedChar, EscapedChar, Unclosed, EndQuote,
         NumberDigit, NumberEnds, NumberRefused, NumberRead, Meta, Guard
<1>2. CASE written = NoRef
  BY <1>1, <1>2 DEF LineInv
<1>3. CASE written # NoRef /\ DirNext
  <2>1. PICK w \in Refs : w = written
    BY <1>3 DEF LineInv
  <2>2. Place(w) /\ OnTheWay(w)
    BY <1>3, <2>1 DEF LineInv, Place, OnLine
  <2>3. Onward(w)
    BY <1>3, <2>2, StepOnward
  <2> QED BY <2>3 DEF Onward, LineInv
<1>4. CASE UNCHANGED dirVars
  <2>1. /\ text' = text /\ written' = written /\ pos' = pos /\ field' = field /\ got' = got /\ ref' = ref
        /\ reader' = reader /\ value' = value /\ number' = number /\ digits' = digits /\ status' = status
    BY <1>4 DEF dirVars, line, read, vars
  <2>2. ASSUME NEW w \in Refs, OnTheWay(w) PROVE OnTheWay(w)'
    <3>1. LeftAt(pos)' = LeftAt(pos) /\ LeftAt(1)' = LeftAt(1)
      BY <2>1 DEF LeftAt
    <3>2. \A which : Fresh(which)' <=> Fresh(which)
      BY <2>1 DEF Fresh
    <3>3. \A s, after : InQuote(s, after)' <=> InQuote(s, after)
      BY <2>1, <3>1 DEF InQuote
    <3>4. \A which, n, after : InNumber(which, n, after)' <=> InNumber(which, n, after)
      BY <2>1, <3>1 DEF InNumber
    <3>5. (AtStart(w) => AtStart(w)') /\ (AtPath(w) => AtPath(w)') /\ (AtLpad(w) => AtLpad(w)')
          /\ (AtRpad(w) => AtRpad(w)')
      BY <2>1, <3>1, <3>2, <3>3 DEF AtStart, AtPath, AtLpad, AtRpad
    <3>6. (AtBegin(w) => AtBegin(w)') /\ (AtEnd(w) => AtEnd(w)') /\ (AtBytes(w) => AtBytes(w)')
      BY <2>1, <3>4 DEF AtBegin, AtEnd, AtBytes
    <3>7. (AtMeta(w) => AtMeta(w)') /\ (AtGuard(w) => AtGuard(w)') /\ (Guarded(w) => Guarded(w)')
          /\ (Finished(w) => Finished(w)')
      BY <2>1, <3>1, <3>2 DEF AtMeta, AtGuard, Guarded, Finished
    <3> QED BY <2>2, <3>5, <3>6, <3>7 DEF OnTheWay
  <2>3. CASE written # NoRef
    <3>1. PICK w \in Refs : w = written
      BY <2>3 DEF LineInv
    <3>2. OnTheWay(w)
      BY <2>3, <3>1 DEF LineInv
    <3>3. OnTheWay(w)'
      BY <2>2, <3>2
    <3> QED BY <2>1, <2>3, <3>1, <3>3 DEF LineInv
  <2> QED BY <1>2, <2>3
<1> QED BY <1>2, <1>3, <1>4

\* The engine reads the reference that the generator meant.
THEOREM ReferencesComeBack == DirSpec => []RoundTrip
<1>1. LineInv => RoundTrip
  BY DEF LineInv, OnTheWay, AtStart, AtPath, AtBegin, AtEnd, AtLpad,
       AtRpad, AtMeta, AtGuard, AtBytes, Guarded, Finished, RoundTrip
<1> QED BY <1>1, LineInvInit, LineInvNext, PTL DEF DirSpec

-----------------------------------------------------------------------------
(* The numbers of a line.                                                  *)

\* Between the numbers of a line the reader starts anew.
LEMMA ReaderStarts ==
    ASSUME NEW which \in {"uint", "full"}, Reading(which)
    PROVE  IInv'
BY MaxAssumption DEF Reading, IInv, TypeOK, RefusedIsTooBig

LEMMA ReaderStep == IInv /\ [DirNext]_dirVars => IInv'
<1> SUFFICES ASSUME IInv, [DirNext]_dirVars PROVE IInv'
  OBVIOUS
<1>1. ASSUME UNCHANGED vars PROVE IInv'
  BY <1>1, InvNext
<1>2. CASE Start \/ PathChar \/ EndPath \/ QuotedChar \/ EscapedChar \/ Unclosed \/ EndQuote
           \/ NumberRefused \/ Meta \/ Guard
  <2>1. UNCHANGED vars
    BY <1>2 DEF Start, PathChar, EndPath, QuotedChar, EscapedChar, Unclosed, EndQuote,
                NumberRefused, Meta, Guard
  <2> QED BY <1>1, <2>1
<1>3. CASE NumberEnds
  BY <1>3, InvNext DEF NumberEnds, Next
<1>4. CASE NumberDigit
  <2>1. DigitValue[At(pos)] \in 0..9
    BY <1>4, DigitValues DEF NumberDigit
  <2>2. Next
    BY <1>4, <2>1 DEF NumberDigit, Next
  <2> QED BY <2>2, InvNext
<1>5. CASE NumberRead
  <2>1. UNCHANGED vars \/ Reading("uint") \/ Reading("full")
    BY <1>5 DEF NumberRead
  <2> QED BY <1>1, <2>1, ReaderStarts
<1>6. CASE UNCHANGED dirVars
  BY <1>1, <1>6 DEF dirVars
<1> QED BY <1>2, <1>3, <1>4, <1>5, <1>6 DEF DirNext

\* The numbers of a directive are read for what they are, whatever the line is,
\* and refused only when they do not fit.
THEOREM NumbersOfALine == DirSpec => [](Exact /\ RefusedIsTooBig)
<1>1. IInv => Exact /\ RefusedIsTooBig
  BY MaxAssumption DEF IInv, TypeOK, Exact
<1>2. DirInit => IInv
  BY InvInit DEF DirInit
<1> QED BY <1>1, <1>2, ReaderStep, PTL DEF DirSpec
=============================================================================
