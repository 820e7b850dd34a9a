------------------------- MODULE MCValidationLedger -------------------------
(***************************************************************************)
(* Instances of ValidationLedger for TLC: the LLM would go on past what    *)
(* fails, and no name of a group matters.                                  *)
(***************************************************************************)
EXTENDS ValidationLedger

SomeAnswers == [source : {"llm"}, action : {"partial_accept"}]

FirstOf(S) == CHOOSE x \in S : TRUE

\* groups can change their names: one run's may as well be given
FirstInit == Init /\ group[FirstOf(Runs)] = FirstOf(Groups)
FirstSpec == FirstInit /\ [][Next]_vars /\ \A r \in Runs : WF_vars(Step(r))
=============================================================================
