----------------------------- MODULE Directive -----------------------------
(***************************************************************************)
(* A reference to the corpus as a line of a bundle:                        *)
(*     r "path" 3 7 "lpad" "rpad" # s:42                                   *)
(* emit_ref (tools/changes.cpp) writes it, parse_r_directive (patch.cpp)   *)
(* reads it, its numbers with the readers of ReadUint; a line that is not  *)
(* such a directive to the end is a literal line of text.                  *)
(*                                                                         *)
(* A line is a sequence of characters; "s:" stands for the two characters, *)
(* "h:" for a hash guard with its 32 digits.                               *)
(***************************************************************************)
EXTENDS ReadUint, SequencesExt

CONSTANTS
    Char,       \* characters
    Refs,       \* references that the generator writes
    Lines       \* other lines of text, by hand

Blanks == {" ", "\t"}
End == "end"    \* where a line has no more characters
Digit == <<"0", "1", "2", "3", "4", "5", "6", "7", "8", "9">>
DigitValue == [c \in Range(Digit) |-> CHOOSE d \in 0..9 : Digit[d + 1] = c]

ASSUME CharAssumption ==
    /\ Range(Digit) \cup {" ", "\t", "\r", "\n", "\"", "\\", "r", "t", "n", "#", "s:", "h:"} \subseteq Char
    /\ End \notin Char /\ Lines \subseteq Seq(Char)

\* No guard, no transform (EdRef{}).
NoRef == [path |-> <<>>, begin |-> 0, end |-> 0, bytes |-> -1, has_hash |-> FALSE,
          trim |-> FALSE, lpad |-> <<>>, rpad |-> <<>>]

\* A run of lines of a corpus file, which has less of them than read_uint can
\* take; pads only with a transform, a length only without a hash (make_guard).
ASSUME RefsAssumption ==
    /\ Refs \subseteq [path : Seq(Char), begin : Nat, end : Nat, bytes : -1..MAX, has_hash : BOOLEAN,
                     trim : BOOLEAN, lpad : Seq(Char), rpad : Seq(Char)]
    /\ \A r \in Refs :
         /\ 1 <= r.begin /\ r.begin <= r.end /\ r.end <= MAX - 9
         /\ ~r.trim => r.lpad = <<>> /\ r.rpad = <<>>
         /\ r.has_hash <=> r.bytes = -1

VARIABLES
    written,    \* the reference the generator was to write, or NoRef
    text,       \* the line
    pos,        \* the next character to read
    field,      \* what is expected there; "ref" and "literal" are the results
    got,        \* the characters of the field so far
    ref         \* what was read

line == <<written, text>>
read == <<got, ref>>
dirVars == <<vars, line, pos, field, read>>

-----------------------------------------------------------------------------
(* Writing.                                                                *)

\* What stands after a backslash for each character that has to be escaped.
Escape == [c \in {"\\", "\"", "\t", "\r", "\n"} |->
              CASE c = "\t" -> "t" [] c = "\r" -> "r" [] c = "\n" -> "n" [] OTHER -> c]

\* Mutant: backslashes are written as they are.
quote_loose(s) ==
    <<"\"">> \o FlattenSeq([n \in DOMAIN s |-> IF s[n] \in DOMAIN Escape \ {"\\"}
                                               THEN <<"\\", Escape[s[n]]>> ELSE <<s[n]>>])
             \o <<"\"">>

Escaped(c) == IF c \in DOMAIN Escape THEN <<"\\", Escape[c]>> ELSE <<c>>
EscapedAll(s) == FlattenSeq([n \in DOMAIN s |-> Escaped(s[n])])
quote_ed(s) == <<"\"">> \o EscapedAll(s) \o <<"\"">>

Decimal[n \in Nat] == IF n < 10 THEN <<Digit[n + 1]>>
                      ELSE Append(Decimal[n \div 10], Digit[(n % 10) + 1])

make_guard(r) == IF r.has_hash THEN <<"h:">> ELSE <<"s:">> \o Decimal[r.bytes]

\* What emit_ref writes after each field of the reference, from the last.
AfterRpad(r) == <<" ">> \o (<<"#">> \o (<<" ">> \o make_guard(r)))
AfterLpad(r) == <<" ">> \o (quote_ed(r.rpad) \o AfterRpad(r))
AfterEnd(r) == IF r.trim THEN <<" ">> \o (quote_ed(r.lpad) \o AfterLpad(r)) ELSE AfterRpad(r)
AfterBegin(r) == <<" ">> \o (Decimal[r.end] \o AfterEnd(r))
AfterPath(r) == <<" ">> \o (Decimal[r.begin] \o AfterBegin(r))
emit_ref(r) == <<"r">> \o (<<" ">> \o (quote_ed(r.path) \o AfterPath(r)))

DirInit ==
    /\ Init /\ reader = "uint"
    /\ \/ \E r \in Refs : written = r /\ text = emit_ref(r)
       \/ written = NoRef /\ text \in Lines
    /\ pos = 1 /\ field = "r" /\ got = <<>> /\ ref = NoRef

-----------------------------------------------------------------------------
(* Reading.                                                                *)

At(p) == IF p \in DOMAIN text THEN text[p] ELSE End

\* skip_blanks
Skip(p) == CHOOSE q \in p..(Len(text) + 1) :
              At(q) \notin Blanks /\ \A b \in p..(q - 1) : At(b) \in Blanks

Expect(f, p) == field' = f /\ pos' = p
TakenAsText == field' = "literal" /\ UNCHANGED <<pos, ref>>

Reading(which) ==
    reader' = which /\ value' = 0 /\ number' = 0 /\ digits' = 0 /\ status' = "reading"

Start ==
    /\ field = "r"
    /\ IF At(1) = "r" /\ At(2) = " "
       THEN IF At(Skip(3)) = "\"" THEN Expect("quoted", Skip(3) + 1) ELSE Expect("path", Skip(3))
       ELSE TakenAsText
    /\ UNCHANGED <<vars, line, read>>

PathChar ==
    /\ field = "path" /\ At(pos) \notin Blanks \cup {End}
    /\ got' = Append(got, At(pos)) /\ Expect(field, pos + 1)
    /\ UNCHANGED <<vars, line, ref>>

EndPath ==
    /\ field = "path" /\ At(pos) \in Blanks \cup {End}
    /\ IF got = <<>> THEN TakenAsText
       ELSE ref' = [ref EXCEPT !.path = got] /\ Expect("begin", Skip(pos))
    /\ got' = <<>>
    /\ UNCHANGED <<vars, line>>

\* parse_quoted
Quoting == field \in {"quoted", "lpad", "rpad"}

QuotedChar ==
    /\ Quoting /\ At(pos) \notin {"\"", "\\", End}
    /\ got' = Append(got, At(pos)) /\ Expect(field, pos + 1)
    /\ UNCHANGED <<vars, line, ref>>

EscapedChar ==
    /\ Quoting /\ At(pos) = "\\"
    /\ \/ \E c \in DOMAIN Escape :
             /\ Escape[c] = At(pos + 1)
             /\ got' = Append(got, c) /\ Expect(field, pos + 2) /\ UNCHANGED ref
       \/ (\A c \in DOMAIN Escape : Escape[c] # At(pos + 1)) /\ TakenAsText /\ UNCHANGED got
    /\ UNCHANGED <<vars, line>>

Unclosed ==
    /\ Quoting /\ At(pos) = End
    /\ TakenAsText
    /\ UNCHANGED <<vars, line, got>>

EndQuote ==
    /\ Quoting /\ At(pos) = "\""
    /\ LET next == Skip(pos + 1)
       IN  \/ /\ field = "quoted"
              /\ ref' = [ref EXCEPT !.path = got] /\ Expect("begin", next)
           \/ /\ field = "lpad" /\ At(next) = "\""
              /\ ref' = [ref EXCEPT !.lpad = got] /\ Expect("rpad", next + 1)
           \/ field = "lpad" /\ At(next) # "\"" /\ TakenAsText
           \/ /\ field = "rpad"
              /\ ref' = [ref EXCEPT !.rpad = got, !.trim = TRUE] /\ Expect("meta", next)
    /\ got' = <<>>
    /\ UNCHANGED <<vars, line>>

Numbering == field \in {"begin", "end", "bytes"}

NumberDigit ==
    /\ Numbering /\ At(pos) \in DOMAIN DigitValue
    /\ TakeDigit(DigitValue[At(pos)])
    /\ Expect(field, pos + 1)
    /\ UNCHANGED <<line, read>>

\* The length of a guard goes to the end of its token.
NumberEnds ==
    /\ Numbering /\ At(pos) \notin DOMAIN DigitValue
    /\ field = "bytes" => At(pos) \in {" ", End}
    /\ EndNumber
    /\ UNCHANGED <<line, pos, field, read>>

NumberRefused ==
    /\ Numbering
    /\ \/ status = "refused"
       \/ status = "reading" /\ field = "bytes" /\ At(pos) \notin DOMAIN DigitValue \cup {" ", End}
    /\ TakenAsText
    /\ UNCHANGED <<vars, line, got>>

NumberRead ==
    /\ Numbering /\ status = "accepted"
    /\ LET next == Skip(pos)
       IN  \/ /\ field = "begin"
              /\ ref' = [ref EXCEPT !.begin = value] /\ Expect("end", next)
              /\ Reading("uint")
           \/ /\ field = "end" /\ (ref.begin < 1 \/ value < ref.begin)
              /\ TakenAsText /\ UNCHANGED vars
           \/ /\ field = "end" /\ 1 <= ref.begin /\ ref.begin <= value
              /\ ref' = [ref EXCEPT !.end = value]
              /\ IF At(next) = "\"" THEN Expect("lpad", next + 1) ELSE Expect("meta", next)
              /\ Reading("full")
           \/ /\ field = "bytes"
              /\ ref' = [ref EXCEPT !.bytes = value] /\ Expect("guard", pos)
              /\ Reading("full")
    /\ UNCHANGED <<line, got>>

Meta ==
    /\ field = "meta"
    /\ IF At(pos) = "#" /\ At(pos + 1) = " " THEN Expect("guard", pos + 2) /\ UNCHANGED ref
                                             ELSE TakenAsText
    /\ UNCHANGED <<vars, line, got>>

\* parse_guard_tokens
Guard ==
    /\ field = "guard"
    /\ \/ At(pos) = " " /\ Expect("guard", pos + 1) /\ UNCHANGED ref
       \/ At(pos) = "s:" /\ Expect("bytes", pos + 1) /\ UNCHANGED ref
       \/ /\ At(pos) = "h:" /\ At(pos + 1) \in {" ", End}
          /\ ref' = [ref EXCEPT !.has_hash = TRUE] /\ Expect("guard", pos + 1)
       \/ At(pos) = "h:" /\ At(pos + 1) \notin {" ", End} /\ TakenAsText
       \/ /\ At(pos) = End /\ (ref.has_hash \/ ref.bytes # -1)
          /\ Expect("ref", pos) /\ UNCHANGED ref
       \/ At(pos) = End /\ ~ref.has_hash /\ ref.bytes = -1 /\ TakenAsText
       \/ At(pos) \notin {" ", "s:", "h:", End} /\ TakenAsText
    /\ UNCHANGED <<vars, line, got>>

DirNext == \/ Start \/ PathChar \/ EndPath \/ QuotedChar \/ EscapedChar \/ Unclosed \/ EndQuote
           \/ NumberDigit \/ NumberEnds \/ NumberRefused \/ NumberRead \/ Meta \/ Guard

DirSpec == DirInit /\ [][DirNext]_dirVars

-----------------------------------------------------------------------------

\* The engine reads the reference that the generator meant: quotes, backslashes,
\* blanks and line ends in its path and its pads come back as they were, and no
\* field runs into the next.
RoundTrip ==
    written # NoRef => field # "literal" /\ (field = "ref" => ref = written)
=============================================================================
