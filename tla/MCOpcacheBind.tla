--------------------------- MODULE MCOpcacheBind ---------------------------
(***************************************************************************)
(* Instances of OpcacheBind for TLC: every patch lists the file under one  *)
(* of the two base directories.                                            *)
(***************************************************************************)
EXTENDS OpcacheBind, TLC

CONSTANTS b1

MCLists == {<<p, b1, f>> : p \in Patch, f \in File}

\* Nothing tells the servers apart, nor the patches.
Interchangeable == Permutations(Server) \cup Permutations(Patch)
=============================================================================
