--------------------------- MODULE MCTrustRegistry ---------------------------
(***************************************************************************)
(* Instances of TrustRegistry for TLC.  Scores and runs have one value: no *)
(* property that TLC checks is about them, and a promotion may be refused  *)
(* whatever they are.  The processes are interchangeable.                  *)
(***************************************************************************)
EXTENDS TrustRegistry, TLC

Turns == Permutations(Procs)
=============================================================================
