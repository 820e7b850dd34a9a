--------------------------- MODULE MCOrchestrator ---------------------------
(***************************************************************************)
(* Instances of Orchestrator for TLC: two projects with two groups and the *)
(* refresh that shares verify's priority, and the search of projects, are  *)
(* queues of up to seven items.  The limit is what a queue of four groups  *)
(* needs, so that some queues use all of it and the longest run out.       *)
(***************************************************************************)
EXTENDS Orchestrator

TwoProjects == {1, 2}
TwoGroups == {1, 2}
TightLimit == StepsNeeded(4)
=============================================================================
