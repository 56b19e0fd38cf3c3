---------------------------- MODULE MCEmitAdded ----------------------------
(***************************************************************************)
(* The instance of EmitAdded, and of Factorize, for TLC: blocks of up to   *)
(* three lines with and without indentation and blanks, of up to four      *)
(* plain ones, with a string of up to two lines, with a form feed and with *)
(* a line that reads as a reference, over a corpus of two files that have  *)
(* CR line ends, other spacing, feeds, or changed since they were indexed. *)
(***************************************************************************)
EXTENDS EmitAdded

\* "a " is the code of "a" in other spacing.
MCTokenKey == [c \in Core |-> IF c = "a " THEN "a" ELSE c]
MCCoreBytes == [c \in Core |-> IF c = "" THEN 0 ELSE IF c = "a " THEN 2 ELSE 1]

A == PlainLine("a")
B == PlainLine("b")
Indented(c) == [lead |-> <<"space">>, core |-> c, trail |-> <<>>]
CRLF(c) == [lead |-> <<>>, core |-> c, trail |-> <<"cr">>]
Fed(c) == [lead |-> <<>>, core |-> c, trail |-> <<"ff">>]
IndentedFed(c) == [lead |-> <<"tab">>, core |-> c, trail |-> <<"space", "ff">>]
MCIndexedKeys == {A, B, Fed("a")}
Blanks == [lead |-> <<>>, core |-> "", trail |-> <<"space">>]

\* "r" is a reference to the first line of the second file.
R == [lead |-> <<>>, core |-> "r", trail |-> <<"space">>]
MCReadsAs == "r" :> [path |-> 2, begin |-> 1, end |-> 1, bytes |-> 2, has_hash |-> FALSE,
                     hash |-> <<>>, trim |-> FALSE, lpad |-> <<>>, rpad |-> <<>>]

UpTo(n, S) == UNION {[1..m -> S] : m \in 1..n}
MCBlocks ==
    UpTo(3, {A, Indented("a"), B, EmptyLine, Blanks}) \cup UpTo(4, {A, B, EmptyLine})
    \cup {<<PlainLine("o")>> \o s \o t : s \in UpTo(2, {A, Indented("a"), PlainLine("a "), B}),
                                        t \in {<<>>, <<PlainLine("c"), A>>}}
    \cup UpTo(3, {A, Fed("a"), IndentedFed("a"), IndentedFed("")})
    \cup UpTo(3, {A, B, R, Indented("r")})

Text(ls) == [lines |-> ls, nl |-> TRUE]
MCCorpora == {
    <<Text(<<CRLF("a"), CRLF("b"), EmptyLine, CRLF("a")>>), Text(<<B, A, B>>)>>,
    <<Text(<<Indented("a"), Blanks, PlainLine("a "), B>>), Text(<<A, B, A, B>>)>>,
    <<EmptyFile, Text(<<B, B, A, EmptyLine, B>>)>>,
    <<Text(<<Fed("a"), IndentedFed("a"), Fed(""), A>>), Text(<<A, R, B>>)>>}
=============================================================================
