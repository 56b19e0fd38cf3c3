----------------------------- MODULE MCEdScript -----------------------------
(***************************************************************************)
(* The instance of EdScript for TLC: every script of up to three literal   *)
(* commands with addresses 0..3 that pass or fail validation, on files of  *)
(* up to two lines; and a few scripts, all with references, whose corpus   *)
(* changes under the call.                                                 *)
(***************************************************************************)
EXTENDS EdScript

MCCore == {"", "o1", "o2", "x", "r1", "r2", "s1", "s2"}
MCCoreBytes == [c \in MCCore |-> IF c = "" THEN 0 ELSE 2]
NoneReadsAs == <<>>

O1 == PlainLine("o1")
O2 == PlainLine("o2")
X == PlainLine("x")

Cmd4(kind, start, end, input) ==
    [kind |-> kind, start |-> start, end |-> end, input |-> input]

-----------------------------------------------------------------------------
(* Addressing.                                                             *)

LineContents ==
    {EmptyFile, [lines |-> <<O1>>, nl |-> FALSE], [lines |-> <<O1, O2>>, nl |-> TRUE]}

\* The first command of a script inserts x, the later ones two other texts, one
\* of which ends in an empty line.
Texts3 == << <<Literal(X)>>, <<Literal(PlainLine("r1")), Literal(EmptyLine)>>,
             <<Literal(PlainLine("s1"))>> >>

LineCommands(i) ==
    {Cmd4("delete", s, e, <<>>) : s \in 0..3, e \in 0..3}
    \cup {Cmd4("change", s, e, Texts3[i]) : s \in 0..3, e \in 0..3}
    \cup {Cmd4(kind, s, s, Texts3[i]) : kind \in {"append", "insert"}, s \in 0..3}

\* The later a command, the lower the lines it may still address.
Below(n, S) == {c \in S : c.start <= n /\ c.end <= n}
LineScripts ==
    {<<>>} \cup {<<a>> : a \in LineCommands(1)}
    \cup {<<a, b>> : a \in LineCommands(1), b \in LineCommands(2)}
    \cup {<<a, b, c>> : a \in LineCommands(1), b \in Below(2, LineCommands(2)),
                        c \in Below(1, LineCommands(3))}

-----------------------------------------------------------------------------
(* Corpus.  v1 has CR line ends and an indented second line; v2 is a drift  *)
(* of the same length, v3 a shorter file, v4 one that cannot be read.       *)

CRLF(c) == [lead |-> <<>>, core |-> c, trail |-> <<"cr">>]
Indented(c) == [lead |-> <<"space">>, core |-> c, trail |-> <<>>]

CorpusVersions ==
    { [ok |-> TRUE, file |-> [lines |-> <<CRLF("r1"), Indented("r2")>>, nl |-> TRUE]],
      [ok |-> TRUE, file |-> [lines |-> <<PlainLine("s1"), Indented("s2")>>, nl |-> TRUE]],
      [ok |-> TRUE, file |-> [lines |-> <<CRLF("r1")>>, nl |-> FALSE]],
      [ok |-> FALSE, file |-> EmptyFile] }

RefTo(f, b, e, bytes, trim) ==
    [path |-> f, begin |-> b, end |-> e, bytes |-> bytes, has_hash |-> FALSE,
     hash |-> <<>>, trim |-> trim,
     lpad |-> IF trim THEN <<"space", "space">> ELSE <<>>, rpad |-> <<>>]
Hashed(r, ls) == [r EXCEPT !.has_hash = TRUE, !.hash = ls]

First(f) == RefTo(f, 1, 1, 3, FALSE)
Second(f) == RefTo(f, 2, 2, 4, TRUE)

CorpusRefs ==
    UNION { {First(f), Second(f),
             Hashed(First(f), <<PlainLine("r1")>>),
             Hashed(RefTo(f, 1, 2, NoGuard, TRUE), <<PlainLine("r1"), Indented("r2")>>),
             RefTo(f, 2, 3, 6, FALSE)} : f \in Path }

\* Two references in one input block, and one in each of two commands.
CorpusScripts ==
    {<<Cmd4("change", 1, 1, <<Reference(r), Literal(X), Reference(q)>>)>> :
        r \in CorpusRefs, q \in CorpusRefs}
    \cup {<<Cmd4("append", 1, 1, <<Reference(r)>>), Cmd4("insert", 1, 1, <<Reference(q)>>)>> :
        r \in CorpusRefs, q \in CorpusRefs}

-----------------------------------------------------------------------------

Anything == CHOOSE v \in CorpusVersions : TRUE
LineCalls ==
    {[content |-> c, script |-> s, resolver |-> FALSE, corpus |-> [f \in Path |-> Anything]] :
        c \in LineContents, s \in LineScripts}
CorpusCalls ==
    {[content |-> [lines |-> <<O1>>, nl |-> TRUE], script |-> s, resolver |-> b, corpus |-> v] :
        s \in CorpusScripts, b \in BOOLEAN, v \in [Path -> CorpusVersions]}
MCCalls == LineCalls \cup CorpusCalls
=============================================================================
