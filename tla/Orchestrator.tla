----------------------------- MODULE Orchestrator -----------------------------
(***************************************************************************)
(* The orchestrator graph, run headless by `soc-verify run` and            *)
(* `soc-verify verify`: plan_work puts what is due into a queue, and one   *)
(* item after the other is refreshed or verified until the queue is done.  *)
(*                                                                         *)
(* What a verify_group run does inside dispatch_verify is VerifyGroup's;   *)
(* here it has an outcome.  Names are numbers in the order Python sorts    *)
(* them; a group stands for its stage and name.                            *)
(*                                                                         *)
(* A definition named ...Variant is the one after it with a mistake in it: *)
(* the mutants of PROJECT.json put it in the place of the right one.       *)
(***************************************************************************)
EXTENDS Integers, Sequences, FiniteSets

CONSTANTS
  Projects,     \* the active projects
  Groups,       \* the groups that may be due in each
  Refreshes,    \* the kinds of acquisition modelled, of RefreshKinds
  StepLimit     \* LangGraph's recursion limit: nodes one invoke may run

RefreshKinds == {"project_intake", "knowledge_collect", "state_sync", "tag_watch"}

ASSUME OrchestratorAssumption ==
  /\ Projects \subseteq Nat \ {0} /\ Groups \subseteq Nat \ {0}
  /\ Refreshes \subseteq RefreshKinds
  /\ StepLimit \in Nat

VARIABLES
  pc,         \* the node that runs next, or "end", or "raised"
  mode,       \* workspace or single_verify
  queue,      \* work_queue
  index,      \* work_index, from 0
  infoGap,    \* info_gap
  context,    \* the item whose project, stage, group and group_context are in the state
  verdict,    \* verdict: the last one written
  log,        \* acquisition_log
  results,    \* verify_results
  report,     \* workflow.json
  excluded,   \* groups excluded in meta/validation_state.yaml
  steps,      \* nodes this invoke has run
  cause,      \* why it raised
  gapped,     \* history: items that were an information gap
  barred      \* history: the groups excluded when the queue was planned

vars == <<pc, mode, queue, index, infoGap, context, verdict, log, results, report,
          excluded, steps, cause, gapped, barred>>

Search == [kind |-> "project_search", project |-> 0, group |-> 0]
Refresh == [kind : Refreshes, project : Projects, group : {0}]
Verify == [kind : {"verify"}, project : Projects, group : Groups]
Items == {Search} \cup Refresh \cup Verify
Verdicts == {"PASS", "FAIL", "INFO_GAP"}
NoItem == [kind |-> "none", project |-> 0, group |-> 0]
NoReport == [verdict |-> "unset", log |-> <<>>, results |-> <<>>]

Nodes == {"setup", "plan_work", "run_acquisition", "prepare_verify", "dispatch_verify",
          "advance_work", "finalize_reproduction_sequence", "finalize"}
Running == pc \in Nodes

current == queue[index + 1]

\* A node runs if the invoke may run one more.
Node(name) ==
  /\ pc = name
  /\ steps < StepLimit
  /\ steps' = steps + 1

Init ==
  /\ pc = "setup"
  /\ mode \in {"workspace", "single_verify"}
  /\ queue = <<>>
  /\ index = 0
  /\ infoGap = FALSE
  /\ context = NoItem
  /\ verdict = "unset"
  /\ log = <<>>
  /\ results = <<>>
  /\ report = NoReport
  /\ excluded \in SUBSET Verify
  /\ steps = 0
  /\ cause = "none"
  /\ gapped = <<>>
  /\ barred = {}
-----------------------------------------------------------------------------
(***************************************************************************)
(* plan_work: the queue.                                                   *)
(***************************************************************************)
\* tag_watch is left at the default of the table
PriorityVariant(kind) ==
  CASE kind = "project_search"    -> 0
    [] kind = "project_intake"    -> 1
    [] kind = "knowledge_collect" -> 2
    [] kind = "state_sync"        -> 3
    [] kind = "tag_watch"         -> 9
    [] kind = "verify"            -> 4

\* tag_watch and verify share a priority; no group's name comes before any
Priority(kind) ==
  CASE kind = "project_search"    -> 0
    [] kind = "project_intake"    -> 1
    [] kind = "knowledge_collect" -> 2
    [] kind = "state_sync"        -> 3
    [] kind \in {"tag_watch", "verify"} -> 4

Precedes(a, b) ==
  \/ Priority(a.kind) < Priority(b.kind)
  \/ /\ Priority(a.kind) = Priority(b.kind)
     /\ \/ a.project < b.project
        \/ a.project = b.project /\ a.group < b.group

\* the set's items in the order of sort_key
Arrangements(S) ==
  {q \in [1 .. Cardinality(S) -> S] :
     \A i, j \in 1 .. Cardinality(S) : i < j => Precedes(q[i], q[j])}

\* filter_work_queue_by_validation
Filtered(due) == due \ excluded

\* the node that takes up the item at position i of q
RouteWork(q, i) ==
  IF i >= Len(q) THEN "finalize_reproduction_sequence"
  ELSE IF q[i + 1].kind = "verify" THEN "prepare_verify" ELSE "run_acquisition"

Setup ==
  /\ Node("setup")
  /\ pc' = "plan_work"
  /\ index' = 0
  /\ infoGap' = FALSE
  /\ UNCHANGED <<mode, queue, context, verdict, log, results, report, excluded, cause, gapped, barred>>

\* workspace: whatever is due; single_verify: the group that was named, if it was
PlanWork ==
  /\ Node("plan_work")
  /\ \/ /\ mode = "workspace"
        /\ \E due \in SUBSET Items : IsFiniteSet(due) /\ queue' \in Arrangements(Filtered(due))
     \/ /\ mode = "single_verify"
        /\ queue' \in {<<>>} \cup {<<item>> : item \in Verify}
  /\ index' = 0
  /\ verdict' = IF queue' = <<>> THEN "PASS" ELSE verdict
  /\ pc' = RouteWork(queue', 0)
  /\ barred' = excluded
  /\ UNCHANGED <<mode, infoGap, context, log, results, report, excluded, cause, gapped>>
-----------------------------------------------------------------------------
(***************************************************************************)
(* The loop.                                                               *)
(***************************************************************************)
\* what a refresh raises ends in the log
RunAcquisition ==
  /\ Node("run_acquisition")
  /\ \E status \in {"ok", "error"} : log' = Append(log, [item |-> current, status |-> status])
  /\ pc' = "advance_work"
  /\ UNCHANGED <<mode, queue, index, infoGap, context, verdict, results, report, excluded, cause,
                 gapped, barred>>

\* the gap is only told to the router
PrepareGapVariant ==
  /\ Node("prepare_verify")
  /\ infoGap' = TRUE
  /\ gapped' = Append(gapped, current)
  /\ pc' = "advance_work"
  /\ UNCHANGED <<mode, queue, index, context, verdict, log, results, report, excluded, cause, barred>>

\* invalid stage, missing directory, or a milestone that is ahead
PrepareGap ==
  /\ Node("prepare_verify")
  /\ infoGap' = TRUE
  /\ verdict' = "INFO_GAP"
  /\ gapped' = Append(gapped, current)
  /\ pc' = "advance_work"
  /\ UNCHANGED <<mode, queue, index, context, log, results, report, excluded, cause, barred>>

\* the context of a group is loaded once
PrepareReadyVariant ==
  /\ Node("prepare_verify")
  /\ context' = IF context = NoItem THEN current ELSE context
  /\ infoGap' = FALSE
  /\ pc' = "dispatch_verify"
  /\ UNCHANGED <<mode, queue, index, verdict, log, results, report, excluded, cause, gapped, barred>>

PrepareReady ==
  /\ Node("prepare_verify")
  /\ context' = current
  /\ infoGap' = FALSE
  /\ pc' = "dispatch_verify"
  /\ UNCHANGED <<mode, queue, index, verdict, log, results, report, excluded, cause, gapped, barred>>

RouteAfterVerify(i, q) ==
  IF i + 1 >= Len(q) THEN "finalize_reproduction_sequence" ELSE "advance_work"

\* run_verify_group returns, with evidence missing the verdict is FAIL; its
\* judges may have excluded a group
DispatchVerify ==
  /\ Node("dispatch_verify")
  /\ \E v \in Verdicts :
       /\ verdict' = v
       /\ results' = Append(results, [item |-> context, verdict |-> v])
  /\ \E more \in {{}} \cup {{g} : g \in Verify} : excluded' = excluded \cup more
  /\ pc' = RouteAfterVerify(index, queue)
  /\ UNCHANGED <<mode, queue, index, infoGap, context, log, report, cause, gapped, barred>>

\* an information gap is tried again
AdvanceWorkVariant ==
  /\ Node("advance_work")
  /\ index' = IF infoGap THEN index ELSE index + 1
  /\ infoGap' = (infoGap /\ index' >= Len(queue))
  /\ pc' = RouteWork(queue, index')
  /\ UNCHANGED <<mode, queue, context, verdict, log, results, report, excluded, cause, gapped, barred>>

AdvanceWork ==
  /\ Node("advance_work")
  /\ index' = index + 1
  /\ infoGap' = (infoGap /\ index' >= Len(queue))
  /\ pc' = RouteWork(queue, index')
  /\ UNCHANGED <<mode, queue, context, verdict, log, results, report, excluded, cause, gapped, barred>>
-----------------------------------------------------------------------------
(***************************************************************************)
(* The end.                                                                *)
(***************************************************************************)
\* without a group's result there is nothing to write, and it is tried again
FinalizeSequenceVariant ==
  /\ Node("finalize_reproduction_sequence")
  /\ pc' = IF results = <<>> THEN "finalize_reproduction_sequence" ELSE "finalize"
  /\ UNCHANGED <<mode, queue, index, infoGap, context, verdict, log, results, report, excluded, cause,
                 gapped, barred>>

\* scripts are written for the projects with a PASS
FinalizeSequence ==
  /\ Node("finalize_reproduction_sequence")
  /\ pc' = "finalize"
  /\ UNCHANGED <<mode, queue, index, infoGap, context, verdict, log, results, report, excluded, cause,
                 gapped, barred>>

Reported == IF verdict = "unset" THEN "PASS" ELSE verdict

\* The node returns its summary.  acquisition_log and verify_results are
\* channels that add what a node returns, so both double.
Finalize ==
  /\ Node("finalize")
  /\ report' = [verdict |-> Reported, log |-> log, results |-> results]
  /\ verdict' = Reported
  /\ log' = log \o log
  /\ results' = results \o results
  /\ pc' = "end"
  /\ UNCHANGED <<mode, queue, index, infoGap, context, excluded, cause, gapped, barred>>

Raise(why) ==
  /\ pc' = "raised"
  /\ cause' = why
  /\ UNCHANGED <<mode, queue, index, infoGap, context, verdict, log, results, report, excluded, steps,
                 gapped, barred>>

\* NodeGateBlocked of a group's run
GateBlocks == pc = "dispatch_verify" /\ Raise("gate")

\* an unreadable file, a missing config.json, a script past its timeout
NodeFails == Running /\ Raise("error")

\* GraphRecursionError
OutOfSteps == Running /\ steps = StepLimit /\ Raise("steps")

NodeStep ==
  \/ Setup \/ PlanWork \/ RunAcquisition \/ PrepareGap \/ PrepareReady
  \/ DispatchVerify \/ AdvanceWork \/ FinalizeSequence \/ Finalize

Next == NodeStep \/ GateBlocks \/ NodeFails \/ OutOfSteps

\* invoke runs one node after the other until the graph is at its end
Spec == Init /\ [][Next]_vars /\ WF_vars(Next)
-----------------------------------------------------------------------------
(***************************************************************************)
(* Properties.                                                             *)
(***************************************************************************)
TypeOK ==
  /\ pc \in Nodes \cup {"end", "raised"}
  /\ mode \in {"workspace", "single_verify"}
  /\ queue \in Seq(Items)
  /\ index \in 0 .. Len(queue)
  /\ infoGap \in BOOLEAN
  /\ context \in Verify \cup {NoItem}
  /\ verdict \in Verdicts \cup {"unset"}
  /\ log \in Seq([item : Items \ Verify, status : {"ok", "error"}])
  /\ results \in Seq([item : Verify, verdict : Verdicts])
  /\ report.verdict \in Verdicts \cup {"unset"}
  /\ excluded \subseteq Verify
  /\ steps \in 0 .. StepLimit
  /\ cause \in {"none", "gate", "error", "steps"}
  /\ gapped \in Seq(Verify)
  /\ barred \subseteq Verify

\* How many items of the queue are behind the run.
Behind ==
  CASE pc \in {"setup", "plan_work"} -> 0
    [] pc \in {"run_acquisition", "prepare_verify", "dispatch_verify"} -> index
    [] pc = "advance_work" -> index + 1
    [] OTHER -> Len(queue)

\* What the run has written down; the final node doubles the channels.
Written == IF pc = "end" THEN report ELSE [verdict |-> verdict, log |-> log, results |-> results]

Has(entries, item) == \E i \in 1 .. Len(entries) : entries[i].item = item

Gapped(item) == \E i \in 1 .. Len(gapped) : gapped[i] = item

\* plan_work's queue is worked off item by item (orchestrator.py:337-345,
\* :479-520): every item behind the run left one trace, in acquisition_log, in
\* verify_results or, when it was an information gap, in neither; no item left
\* two and none was passed over.
Accounted ==
  pc # "raised" =>
    /\ Len(Written.log) + Len(Written.results) + Len(gapped) = Behind
    /\ \A k \in 1 .. Behind :
         IF queue[k] \in Verify
         THEN Has(Written.results, queue[k]) \/ Gapped(queue[k])
         ELSE Has(Written.log, queue[k])

\* dispatch_verify runs what project_id, stage, group and group_context say,
\* and prepare_verify returns early on a gap without writing them
\* (orchestrator.py:219-280): what is dispatched is the item at work_index.
ContextIsCurrent == pc = "dispatch_verify" => ~infoGap /\ context = current

\* The last group of the first n items is at k.
LastGroup(k, n) == queue[k] \in Verify /\ \A j \in k + 1 .. n : queue[j] \notin Verify

\* workflow.json's verdict (orchestrator.py:416) is the last group's of the
\* queue, a gap included; without a group it is PASS.
VerdictOfLastGroup ==
  pc = "end" =>
    /\ (\A k \in 1 .. Len(queue) : queue[k] \notin Verify) => report.verdict = "PASS"
    /\ \A k \in 1 .. Len(queue) :
         LastGroup(k, Len(queue)) =>
           IF Gapped(queue[k]) THEN report.verdict = "INFO_GAP"
           ELSE /\ report.results # <<>>
                /\ report.results[Len(report.results)] = [item |-> queue[k], verdict |-> report.verdict]

\* sort_key gives tag_watch and verify one priority (orchestrator.py:56-63,
\* :114-119): still, whatever of a project is due is refreshed before one of
\* its groups is verified.
RefreshedBeforeVerified ==
  pc = "dispatch_verify" =>
    \A k \in 1 .. Len(queue) :
      queue[k] \notin Verify /\ queue[k].project \in {0, context.project} => Has(log, queue[k])

\* meta/validation_state.yaml is applied when the queue is planned
\* (orchestrator.py:120, graph_flow_spec.yaml:37): a workspace run verifies no
\* group that was excluded by then.
ExcludedIsSkipped ==
  mode = "workspace" =>
    \A i \in 1 .. Len(results) : results[i].item \notin barred

\* A queue of n items needs at most 3n + 3 nodes, so an invoke whose limit
\* allows them does not fail on it (run_orchestrator passes none:
\* orchestrator.py:594).
StepsNeeded(n) == IF n = 0 THEN 4 ELSE 3 * n + 3
ShortQueuesFit == cause = "steps" => StepsNeeded(Len(queue)) > StepLimit

\* Nodes run one after the other: a run comes to its end unless a group's gate
\* blocks, a node fails, or the queue is too long for LangGraph's limit.
EveryQueueEnds ==
  <>(pc = "end" \/ cause \in {"gate", "error"} \/ StepsNeeded(Len(queue)) > StepLimit)
=============================================================================
