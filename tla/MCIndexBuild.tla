---------------------------- MODULE MCIndexBuild ----------------------------
(***************************************************************************)
(* Instances of IndexBuild for TLC: every tree of up to three files out of *)
(* four that share keys, have none worth indexing, or cannot be read.      *)
(***************************************************************************)
EXTENDS IndexBuild

A == [name |-> "a.php", readable |-> TRUE, keys |-> <<"x", "y", "x">>]
B == [name |-> "b.php", readable |-> TRUE, keys |-> <<"short", "x">>]
Nothing == [name |-> "c.php", readable |-> TRUE, keys |-> <<"", "short">>]
Locked == [name |-> "d.php", readable |-> FALSE, keys |-> <<"y">>]

MCTrees == UNION {[1..n -> {A, B, Nothing, Locked}] : n \in 0..3}
TwoFiles == {<<A, B>>}
=============================================================================
