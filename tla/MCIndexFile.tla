----------------------------- MODULE MCIndexFile -----------------------------
(***************************************************************************)
(* The instance of IndexFile for TLC, over the trees of MCIndexBuild; an   *)
(* older indexer has left a byte index.                                    *)
(***************************************************************************)
EXTENDS MCIndexBuild, IndexFile

Old == [files |-> <<"b.php">>, lines |-> [NoLines EXCEPT !["x"] = <<<<1, 2>>>>]]
MCEarlier == {[version |-> 1, normalized |-> FALSE, index |-> Old]}
=============================================================================
