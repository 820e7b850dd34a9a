--------------------------- MODULE MCGraphSession ---------------------------
(***************************************************************************)
(* Instances of GraphSession for TLC.                                      *)
(*                                                                         *)
(* Loop*: verify_group cut down to the runner choice, its first fix loop   *)
(* and an edge that jumps over a node (evaluate -> finalize).              *)
(* Shared*: an LLM node and one whose gate may fail, for two processes.    *)
(***************************************************************************)
EXTENDS GraphSession

LoopNodes == {"setup", "select_runner", "run_gate", "evaluate", "parity_check", "finalize"}

LoopEdge ==
  {<<"setup", "select_runner">>, <<"select_runner", "run_gate">>,
   <<"run_gate", "select_runner">>, <<"run_gate", "evaluate">>,
   <<"run_gate", "finalize">>, <<"evaluate", "select_runner">>,
   <<"evaluate", "parity_check">>, <<"evaluate", "finalize">>,
   <<"parity_check", "finalize">>, <<"finalize", "END">>}

\* run_gate: verdict files and user checks; evaluate: its decision; parity_check: child steps
LoopMiss ==
  [n \in LoopNodes |->
     CASE n = "run_gate" -> SUBSET {"exit", "extra"}
       [] n = "parity_check" -> SUBSET {"child"}
       [] n = "evaluate" -> SUBSET {"exit"}
       [] OTHER -> {{}}]

SharedNodes == {"setup", "run_codegen", "parity_check"}

SharedEdge ==
  {<<"setup", "run_codegen">>, <<"run_codegen", "parity_check">>,
   <<"parity_check", "END">>}

SharedMiss ==
  [n \in SharedNodes |-> SUBSET IF n = "run_codegen" THEN {"exit"} ELSE {}]
=============================================================================
