----------------------------- MODULE MCPipeline -----------------------------
(***************************************************************************)
(* The instance of Pipeline for TLC.  Diffs: one file with every diff of   *)
(* up to five lines, with up to seven added lines in a row, or with two    *)
(* groups of changes around so many kept lines that the hunks just touch   *)
(* or just do not; and two or three files that are modified, added,        *)
(* deleted or not usable.  By hand: bundles of up to four lines of any     *)
(* kind and six of the kinds that build sections.                          *)
(***************************************************************************)
EXTENDS Pipeline, TLC

UpTo(n, S) == UNION {[1..m -> S] : m \in 0..n}

MCCore == 0..99
MCCoreBytes == [c \in MCCore |-> IF c = 0 THEN 0 ELSE 1]
MCDot == 90
MCDotted == {91}

CR(l) == [l EXCEPT !.trail = <<"cr">>]

\* The core 92 is a complete r directive.
MCReadsAs == 92 :> [path |-> "a", begin |-> 1, end |-> 2, bytes |-> 4, has_hash |-> FALSE,
                    hash |-> <<>>, trim |-> FALSE, lpad |-> <<>>, rpad |-> <<>>]

\* Old line l is l, with a CR when l is even.  Of the added lines the first is empty,
\* the second has a CR, the fourth begins with a dot, the fifth reads as a reference and
\* the sixth is a lone dot.
MCOld == [l \in 1..20 |-> IF l % 2 = 0 THEN CR(PlainLine(l)) ELSE PlainLine(l)]
MCAdded == [j \in 1..9 |-> CASE j = 1 -> EmptyLine
                             [] j = 2 -> CR(PlainLine(51))
                             [] j = 4 -> PlainLine(91)
                             [] j = 5 -> [PlainLine(92) EXCEPT !.trail = <<"space", "cr">>]
                             [] j = 6 -> PlainLine(MCDot)
                             [] OTHER -> PlainLine(50 + j)]

FromGit(a) == \A p \in 1..(Len(a) - 1) : a[p] = "add" => a[p + 1] # "del"
AnyOps(n) == {a \in UpTo(n, Op) : FromGit(a)}
Keeps(n) == [k \in 1..n |-> "keep"]
Adds(n) == [k \in 1..n |-> "add"]
ManyAdded == {<<op>> \o Adds(n) \o b : op \in {"keep", "del"}, n \in 5..6, b \in AnyOps(2)}
FarApart == {a \o Keeps(n) \o b : a \in AnyOps(2), b \in AnyOps(2), n \in 6..7}

Deltas(status, path, opss, usable) ==
    {d \in [status : {status}, path : {path}, usable : {usable}, ops : opss,
            oldNl : BOOLEAN, newNl : BOOLEAN] : Possible(d)}
One(status, path, ops) == [status |-> status, path |-> path, usable |-> TRUE, ops |-> ops,
                           oldNl |-> status # "added", newNl |-> status # "deleted"]
Twice == <<"del">> \o Keeps(7) \o <<"add">>
Files(path) == {One("modified", path, <<"keep", "add", "keep">>), One("modified", path, Twice),
                One("added", path, <<"add", "add">>), One("deleted", path, <<"del">>),
                [One("added", path, <<"add">>) EXCEPT !.usable = FALSE]}

MCDiffs ==
    {<<d>> : d \in Deltas("modified", "a", AnyOps(5) \cup ManyAdded \cup FarApart, TRUE)
                   \cup Deltas("added", "a", UpTo(7, {"add"}), TRUE)}
    \cup {<<c, d>> : c \in Files("a"), d \in Files("b") \cup Files("./a")}
    \cup {<<c, d, One("added", "c", <<"add">>)>> : c \in Files("b"), d \in Files("a")}
    \cup {<<>>}

K(kind) == [t |-> kind]
Kinds == {K("comment"), K("blank"), K("dot"), K("delete"), K("input"), K("text"),
          Header("file", "a"), Header("file", "b"), Header("file", NoPath),
          Header("newfile", "a"), Header("newfile", NoPath)}
Builders == {K("dot"), K("delete"), Header("file", "a"), Header("file", "./a"),
             Header("newfile", "b")}

WithMagic(lines) == <<K("magic")>> \o lines
MCForeign ==
    {WithMagic(s) : s \in UpTo(4, Kinds)} \cup {WithMagic(s) : s \in UpTo(6, Builders)}
    \cup {<<>>, <<K("blank")>>, <<K("blank"), K("magic"), Header("file", "b"), K("delete")>>,
          <<K("comment"), K("magic"), Header("file", "b"), K("delete")>>}

\* "a" and "./a" are one file; the engine sorts "b" before "a".
MCCanonical == "a" :> 1 @@ "./a" :> 1 @@ "b" :> 2 @@ "c" :> 3
Swapped == 1 :> 3 @@ 2 :> 2 @@ 3 :> 1
MCBase == [k \in Key |-> k]
=============================================================================
