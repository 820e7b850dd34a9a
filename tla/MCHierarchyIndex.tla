-------------------------- MODULE MCHierarchyIndex --------------------------
(***************************************************************************)
(* Instances of HierarchyIndex for TLC.                                    *)
(*                                                                         *)
(* Chain: top has the branches a -> c -> d and b; with b as anchor and a   *)
(* shallow depth of 0 a first build stops at a.                            *)
(* Shared: two files define m, with different children.                    *)
(***************************************************************************)
EXTENDS HierarchyIndex

ChainFiles == 1..5
ChainName == <<"top", "a", "c", "d", "b">>
ChainKids == <<{"a", "b"}, {"c"}, {"d"}, {}, {}>>

SharedFiles == 1..5
SharedName == <<"top", "m", "x", "m", "y">>
SharedKids == <<{"m"}, {"x"}, {}, {"y"}, {}>>

\* -1 is Unlimited: --full, and a build without anchors
Unbounded == {-1}
ShallowOrAll == {-1, 0}

\* the deepens are interchangeable
Workers == Permutations(Deepeners)
=============================================================================
