---------------------------- MODULE MCDirective ----------------------------
(***************************************************************************)
(* The instance of Directive for TLC: references with every path of up to  *)
(* three characters and every pad of up to two; by hand, every number of   *)
(* up to four digits as an end and as a length, and the lines that differ  *)
(* from one that the generator writes in one character.                    *)
(***************************************************************************)
EXTENDS Directive

UpTo(n, S) == UNION {[1..m -> S] : m \in 0..n}
PathChars == {"\"", "\\", "\t", "\r", "\n", " ", "r", "t", "n", "#", "1"}
MCChar == Range(Digit) \cup PathChars \cup {"x", "s:", "h:"}
Pads == UpTo(2, {" ", "\t", "\r"})

Some == [NoRef EXCEPT !.path = <<"x">>, !.begin = 1, !.end = 12, !.bytes = 105]
Padded == [Some EXCEPT !.trim = TRUE, !.lpad = <<"\t">>, !.rpad = <<" ", "\r">>]
Hash(r) == [r EXCEPT !.bytes = -1, !.has_hash = TRUE]

MCRefs == {[Some EXCEPT !.path = p] : p \in UpTo(3, PathChars)}
          \cup {[Padded EXCEPT !.lpad = l, !.rpad = r] : l \in Pads, r \in Pads}
          \cup {[Hash(Some) EXCEPT !.begin = 7, !.end = 118], Hash(Padded)}

Numerals == UpTo(4, DOMAIN DigitValue)
Head12 == <<"r", " ", "x", " ", "1", "2", " ">>

Chars == {"r", " ", "\t", "\"", "\\", "x", "0", "1", "#", "s:", "h:"}
Without(s, n) == SubSeq(s, 1, n - 1) \o SubSeq(s, n + 1, Len(s))
With(s, n, c) == SubSeq(s, 1, n - 1) \o <<c>> \o SubSeq(s, n, Len(s))
Near(s) == {Without(s, n) : n \in DOMAIN s} \cup {[s EXCEPT ![n] = c] : n \in DOMAIN s, c \in Chars}
           \cup {With(s, n, c) : n \in 1..(Len(s) + 1), c \in Chars}

MCLines == {Head12 \o d \o <<" ", "#", " ", "h:">> : d \in Numerals}
           \cup {Head12 \o <<"1", "3", " ", "#", " ", "s:">> \o d : d \in Numerals}
           \cup Near(emit_ref(Padded)) \cup Near(emit_ref(Hash(Some)))
           \cup Near(Head12 \o <<"1", "3", "#", " ", "s:", "5", " ", "h:">>)
           \cup {<<"r", " ", "\t">>}
=============================================================================
