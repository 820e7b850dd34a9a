--------------------------- MODULE MCVerifyGroup ---------------------------
(* Instances of VerifyGroup for TLC. *)
EXTENDS VerifyGroup, TLC

\* bodies are only compared with one another
BodySymmetry == Permutations(Bodies)
=============================================================================
