---------------------------- MODULE MCHookChain ----------------------------
(***************************************************************************)
(* Instances of HookChain for TLC: two other extensions, two starts.       *)
(***************************************************************************)
EXTENDS HookChain, TLC

MCConfigs == {[enabled |-> TRUE, patch |-> "good", virtual |-> v] : v \in BOOLEAN}
             \cup {[enabled |-> TRUE, patch |-> "bad", virtual |-> FALSE]}

\* No property names an extension other than ours.
Interchangeable == Permutations(Other)
=============================================================================
