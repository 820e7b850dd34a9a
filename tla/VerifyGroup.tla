---------------------------- MODULE VerifyGroup ----------------------------
(***************************************************************************)
(* One headless run of the verify_group graph (graphs/verify_group.py):    *)
(* run_verify_group invokes one node function after the other, routes by   *)
(* the graph state, checks the node's gate and stops when a gate fails,    *)
(* the graph ends or max_steps is used up.                                 *)
(*                                                                         *)
(* A step of the model is one iteration of that loop: the node function,   *)
(* its router and its gate.  The sub-agent (an LLM behind HTTP or a        *)
(* script) acts only inside the nodes that call it.                        *)
(*                                                                         *)
(* Abstracted: a verdict is its status, the kind of failure it is          *)
(* classified as, and a body that stands for its log line and for the      *)
(* fields parity compares; FAIL also stands for BLOCKED.  Trust is counted *)
(* in steps of 0.05, percentages as integers.                              *)
(***************************************************************************)
EXTENDS LoopGuard

CONSTANTS
  Bodies,        \* what verdicts of one status may differ in
  FailKinds,     \* kinds a failing verdict or stop report is classified as
  DriftScores,   \* drift scores that occur, in hundredths
  DriftMax,      \* drift.max
  MaxBridge,     \* bridge_loop.max_bridge_rounds
  MaxCodegen,    \* runner_contract.max_codegen_rounds
  MinGates,      \* promotion.min_gates_before_promote
  MinTrustRuns,  \* promotion.min_trust_runs
  TrustMax,      \* trust 1.0, in steps of 0.05
  TrustRun,      \* trust.tau_run
  TrustPromote,  \* trust.tau_promote_min
  Profiles,      \* run profiles; "simulated": training with a failing scenario
  MaxSteps,      \* max_steps
  MaxOverrides,  \* bound on routes taken from a triage plan or the user's settings
  None

ASSUME VerifyGroupAssumption ==
  /\ FailKinds \subseteq {"env", "tool", "llm", "verification"}
  /\ \A d \in DriftScores : d \in Nat
  /\ DriftMax \in Nat
  /\ MaxBridge \in Nat /\ MaxCodegen \in Nat
  /\ MinGates \in Nat /\ MinTrustRuns \in Nat
  /\ TrustMax \in Nat /\ TrustRun \in Nat /\ TrustPromote \in Nat
  /\ Profiles \subseteq {"production", "training", "simulated"}
  /\ MaxSteps \in Nat \ {0} /\ MaxOverrides \in Nat

VARIABLES
  node,       \* pending node
  st,         \* the graph state
  guard,      \* loop_guard.yaml
  ev,         \* the event counters of the graph state
  trust,      \* the script's record in trust/registry.yaml
  files,      \* artifacts of the run, and the group's scripts
  profile,    \* run_profile
  steps,      \* iterations of run_verify_group
  outcome,    \* how the run ended, or "running"
  overrides,  \* how often a plan or the user chose another route: not in the code
  did         \* what the last step did, and the failures waved through so far:
              \* not in the code

vars == <<node, st, guard, ev, trust, files, profile, steps, outcome, overrides, did>>

END == "END"

Verdicts ==
  [status : {"PASS"}, kind : {"none"}, body : Bodies]
    \cup [status : {"FAIL"}, kind : FailKinds, body : Bodies]
    \cup [status : {"INFO_GAP"}, kind : {"info"}, body : Bodies]

Signature(verdict) == <<verdict.kind, verdict.body>>

\* where a triage plan or the user may send an outcome: the edges of the flow specification
FlowEdges ==
  [load_context |-> {"select_runner", "finalize"},
   run_gate |-> {"select_runner", "evaluate", "diagnose_env",
                 "parse_validation_items", "finalize"},
   diagnose_env |-> {"patch_bridge", "finalize"},
   evaluate |-> {"select_runner", "parity_check", "finalize"},
   parity_check |-> {"promote", "run_codegen", "finalize"}]

\* nodes with one successor
Follows ==
  [select_runner |-> "run_gate",
   parse_validation_items |-> "validation_judge",
   validation_judge |-> "apply_validation_plan",
   apply_validation_plan |-> "run_pending_repro",
   patch_bridge |-> "select_runner",
   run_codegen |-> "parity_check",
   promote |-> "finalize_reproduction",
   finalize_reproduction |-> "finalize",
   meta_collect |-> "meta_score",
   meta_score |-> "meta_propose",
   meta_propose |-> "meta_queue",
   meta_queue |-> END]

VerifyNodes ==
  DOMAIN FlowEdges \cup DOMAIN Follows \cup {"run_pending_repro", "finalize"}

-----------------------------------------------------------------------------
(* Routing: the outcome of a node, as triage classifies it from its state. *)

RouteAfterLoad(s) ==
  IF s.infoGap THEN "finalize" ELSE "select_runner"

\* env and tool come before stalemate; the pattern of a stalemate is not in the state
RouteAfterRun(s) ==
  IF s.verdict = "PASS" THEN "evaluate"
  ELSE IF s.infoGap THEN "finalize"
  ELSE IF s.kind \in {"env", "tool"} THEN "diagnose_env"
  ELSE IF s.stalemate THEN "finalize"
  ELSE "parse_validation_items"

RouteAfterDiagnose(s) ==
  IF s.error = "bridge_round_cap" THEN "finalize"
  ELSE IF s.stalemate /\ s.error # "" THEN "finalize"
  ELSE "patch_bridge"

\* mutant: a script's own PASS needs no parity and ends the run
RouteAfterEvalVariant(s) ==
  IF s.infoGap THEN "finalize"
  ELSE IF s.openIssues THEN "select_runner"
  ELSE IF s.verdict = "PASS" /\ s.cont THEN "select_runner"
  ELSE IF s.stalemate THEN "finalize"
  ELSE IF s.runner = "python" THEN "finalize" ELSE "parity_check"

RouteAfterEval(s) ==
  IF s.infoGap THEN "finalize"
  ELSE IF s.openIssues THEN "select_runner"
  ELSE IF s.verdict = "PASS" /\ s.cont THEN "select_runner"
  ELSE IF s.stalemate THEN "finalize"
  ELSE "parity_check"

RouteAfterParity(s) ==
  IF s.error = "codegen_round_cap" THEN "finalize"
  ELSE IF s.infoGap THEN "finalize"
  ELSE IF s.parity = "ok" THEN "promote"
  ELSE "run_codegen"

\* validation: only retry_gate and halt come out of apply_consensus
RouteAfterRepro(s) == IF s.action = "retry_gate" THEN "select_runner" ELSE "finalize"

-----------------------------------------------------------------------------
(* Completeness C = (1-e)(1-t)(1-l), from the event counters.              *)

Gates(e) == IF e.gates = 0 THEN 1 ELSE e.gates

\* C >= percent / 100
CompleteAtLeast(e, percent) ==
  LET g == Gates(e)
  IN  100 * (g - e.env) * (g - e.tool) * (e.fix + 1 - e.llm)
        >= percent * g * g * (e.fix + 1)

HardeningOk(e, t) == e.gates >= MinGates /\ t.runs >= MinTrustRuns

\* mutant: the minimum numbers of gates and trust runs are not asked for
PromoteAllowedVariant(e, t, verdict) ==
  /\ ~e.info
  /\ verdict = "PASS"
  /\ t.score >= TrustPromote
  /\ CompleteAtLeast(e, 85)
  /\ 100 * e.tool <= 10 * Gates(e)
  /\ 100 * e.llm <= 15 * (e.fix + 1)

PromoteAllowed(e, t, verdict) ==
  /\ ~e.info
  /\ verdict = "PASS"
  /\ HardeningOk(e, t)
  /\ t.score >= TrustPromote
  /\ CompleteAtLeast(e, 85)
  /\ 100 * e.tool <= 10 * Gates(e)
  /\ 100 * e.llm <= 15 * (e.fix + 1)

ContinueImprovement(e, t, verdict) ==
  \/ e.info
  \/ verdict # "PASS"
  \/ ~CompleteAtLeast(e, 80)
  \/ ~HardeningOk(e, t)

\* bump_events
Bump(e, kind) ==
  [e EXCEPT !.fix = @ + 1,
            !.env = IF kind = "env" THEN @ + 1 ELSE @,
            !.tool = IF kind = "tool" THEN @ + 1 ELSE @,
            !.llm = IF kind = "llm" THEN @ + 1 ELSE @,
            !.info = @ \/ kind = "info"]

\* update_trust_after_run; runs are counted up to the number that is compared
TrustAfter(passed) ==
  IF profile = "simulated" THEN trust
  ELSE [trust EXCEPT
          !.score = IF passed THEN (IF @ < TrustMax THEN @ + 1 ELSE TrustMax)
                    ELSE (IF @ > 2 THEN @ - 2 ELSE 0),
          !.runs = IF @ < MinTrustRuns THEN @ + 1 ELSE @]

-----------------------------------------------------------------------------
(***************************************************************************)
(* The end of an iteration: the node's gate, and where the run goes.       *)
(***************************************************************************)
GoOn(gateOk, to) ==
  /\ steps' = steps + 1
  /\ node' = to
  /\ outcome' = IF ~gateOk THEN "blocked"
                ELSE IF to = END THEN "ended"
                ELSE IF steps + 1 >= MaxSteps THEN "exhausted"
                ELSE "running"

Leave(gateOk) ==
  /\ GoOn(gateOk, Follows[node])
  /\ UNCHANGED overrides

\* within the flow specification the user's pass_route and fail_routes, which may
\* be edited at any time, and a plan for a failed outcome go before the platform's
LeaveByTriage(gateOk, route) ==
  \/ /\ GoOn(gateOk, route)
     /\ UNCHANGED overrides
  \/ /\ overrides < MaxOverrides
     /\ overrides' = overrides + 1
     /\ \E to \in FlowEdges[node] \ {route} : GoOn(gateOk, to)

At(n) == outcome = "running" /\ node = n

\* what the step asked of the sub-agent and heard from the script itself
Did(asked, agreed) == did' = [did EXCEPT !.asked = asked, !.agreed = agreed]
Quiet == Did(FALSE, FALSE)

Init ==
  /\ node = "load_context"
  /\ st = [runner |-> "none", verdict |-> "none", kind |-> "unset", error |-> "",
           infoGap |-> FALSE, stalemate |-> FALSE, forced |-> FALSE,
           bridge |-> 0, codegen |-> 0, openIssues |-> FALSE, cont |-> FALSE,
           complete |-> "unset", parity |-> "unset", action |-> "", rejected |-> FALSE]
  /\ guard = Clean
  /\ ev = [gates |-> 0, fix |-> 0, env |-> 0, tool |-> 0, llm |-> 0, info |-> FALSE]
  /\ trust \in [score : 0..TrustMax, runs : 0..MinTrustRuns, canonical : BOOLEAN]
  /\ \E ops, bridge \in BOOLEAN :
       files = [verdict |-> None, reference |-> None, report |-> "none",
                allowed |-> "none", subStop |-> FALSE, proposal |-> FALSE,
                ops |-> ops, bridge |-> bridge]
  /\ profile \in Profiles
  /\ steps = 0
  /\ outcome = "running"
  /\ overrides = 0
  /\ did = [asked |-> FALSE, agreed |-> FALSE, waved |-> 0]

-----------------------------------------------------------------------------
(* Choosing a runner.                                                      *)

\* load_context: the group, its milestone and its manifest are there, or not
LoadContext ==
  /\ At("load_context")
  /\ \E gap \in BOOLEAN :
       st' = IF gap THEN [st EXCEPT !.infoGap = TRUE, !.verdict = "INFO_GAP"] ELSE st
  /\ Quiet
  /\ LeaveByTriage(TRUE, RouteAfterLoad(st'))
  /\ UNCHANGED <<guard, ev, trust, files, profile>>

\* select_runner of trust_eval.py: completeness counts only once it was evaluated
TrustedScript ==
  /\ trust.score >= TrustRun
  /\ trust.canonical \/ st.complete # "low"

\* mutant: loop_guard.yaml and force_mode are not read
SelectRunnerVariant ==
  /\ At("select_runner")
  /\ st' = IF st.infoGap THEN st
           ELSE [st EXCEPT !.runner = IF TrustedScript THEN "python" ELSE "llm"]
  /\ Quiet
  /\ Leave(st'.runner # "none")
  /\ UNCHANGED <<guard, ev, trust, files, profile>>

SelectRunner ==
  /\ At("select_runner")
  /\ LET forced == guard.stalemate \/ st.forced
     IN  IF st.infoGap THEN UNCHANGED <<st, guard>>
         ELSE IF forced THEN
           /\ st' = [st EXCEPT !.runner = "llm", !.forced = TRUE]
           /\ guard' = RecordTransition(guard, <<"select_runner",
                          IF st.kind = "unset" THEN "verification" ELSE st.kind>>)
         ELSE
           /\ st' = [st EXCEPT !.runner = IF TrustedScript THEN "python" ELSE "llm"]
           /\ UNCHANGED guard
  /\ Quiet
  /\ Leave(st'.runner # "none")
  /\ UNCHANGED <<ev, trust, files, profile>>

-----------------------------------------------------------------------------
(* run_gate: what an attempt leaves in the state, by its result.           *)

RunGateGate(f) == f.verdict # None \/ f.subStop

IsInfoGap(result) == result.status = "INFO_GAP" \/ result.kind = "info"

\* mutant: the guard's file is cleared, the graph state is not
AttemptPassedVariant ==
  /\ guard' = ClearOnPass(guard)
  /\ ev' = [ev EXCEPT !.gates = @ + 1]
  /\ trust' = TrustAfter(TRUE)
  /\ st' = [st EXCEPT !.verdict = "PASS", !.kind = "none"]

AttemptPassed ==
  /\ guard' = ClearOnPass(guard)
  /\ ev' = [ev EXCEPT !.gates = @ + 1]
  /\ trust' = TrustAfter(TRUE)
  /\ st' = [st EXCEPT !.verdict = "PASS", !.kind = "none",
                      !.stalemate = FALSE, !.forced = FALSE]

AttemptFailed(result) ==
  LET g == RecordTransition(RecordFailure(guard, Signature(result)),
                            <<"run_gate", result.kind>>)
  IN  /\ guard' = g
      /\ ev' = Bump([ev EXCEPT !.gates = @ + 1], result.kind)
      /\ trust' = TrustAfter(FALSE)
      /\ st' = [st EXCEPT !.verdict = result.status, !.kind = result.kind,
                          !.stalemate = g.stalemate, !.forced = g.stalemate,
                          !.infoGap = @ \/ IsInfoGap(result)]

Attempt(result) ==
  IF result.status = "PASS" THEN AttemptPassed ELSE AttemptFailed(result)

LeaveRunGate ==
  /\ LeaveByTriage(RunGateGate(files'), RouteAfterRun(st'))
  /\ UNCHANGED profile

\* with an information gap the node does nothing
SkipGate ==
  /\ At("run_gate") /\ st.infoGap
  /\ Quiet
  /\ UNCHANGED <<st, guard, ev, trust, files>>
  /\ LeaveRunGate

\* mutant: an information gap does not keep the gate from running
AttemptWithVariant(runner) == At("run_gate") /\ st.runner = runner

AttemptWith(runner) == At("run_gate") /\ ~st.infoGap /\ st.runner = runner

\* invoke_sub_agent asks nobody while a verdict file, of whatever age, is there
AgentReachable == files.verdict = None

\* an agent at work may also leave a bridge_patch_proposal.md
Proposed(f, proposal) == [f EXCEPT !.proposal = @ \/ proposal]

\* mutant: the verdict file counts whatever its age
AgentVerdictVariant ==
  /\ AttemptWith("llm")
  /\ \E v \in Verdicts, proposal \in BOOLEAN :
       /\ AgentReachable \/ (v = files.verdict /\ ~proposal)
       /\ files' = [Proposed(files, proposal) EXCEPT !.verdict = v]
       /\ Attempt(v)
  /\ Did(AgentReachable, FALSE)
  /\ LeaveRunGate

AgentVerdict ==
  /\ AttemptWith("llm")
  /\ AgentReachable
  /\ \E v \in Verdicts, proposal \in BOOLEAN :
       /\ files' = [Proposed(files, proposal) EXCEPT !.verdict = v]
       /\ Attempt(v)
  /\ Did(TRUE, FALSE)
  /\ LeaveRunGate

\* a report that calls an environment or tool failure a PASS
WavesThrough(report) == report.status = "PASS" /\ report.kind \in {"env", "tool"}

\* a stop report's partial verdict is taken as it is; whatever it says, the
\* attempt counts as a failure of the kind the report is classified as
AgentStop ==
  /\ AttemptWith("llm")
  /\ AgentReachable
  /\ \E report \in [status : {"PASS", "FAIL", "INFO_GAP"}, kind : FailKinds \cup {"info"},
                    body : Bodies], proposal \in BOOLEAN :
       /\ files' = [Proposed(files, proposal) EXCEPT !.subStop = TRUE]
       /\ AttemptFailed(report)
       /\ did' = [did EXCEPT !.asked = TRUE, !.agreed = FALSE,
                             !.waved = IF WavesThrough(report) THEN @ + 1 ELSE @]
  /\ LeaveRunGate

\* _run_gate_llm_error_out: the agent is silent, or a stale verdict file answered
NoFreshVerdict ==
  /\ AttemptWith("llm")
  /\ \E proposal \in BOOLEAN :
       /\ proposal => AgentReachable
       /\ files' = Proposed(files, proposal)
  /\ LET g == RecordTransition(RecordFailure(guard, <<"llm", "awaiting">>),
                               <<"run_gate", "llm">>)
     IN  /\ guard' = g
         /\ st' = [st EXCEPT !.verdict = "FAIL", !.kind = "llm", !.error = "awaiting",
                             !.stalemate = g.stalemate, !.forced = g.stalemate]
  /\ ev' = Bump([ev EXCEPT !.gates = @ + 1], "llm")
  /\ Did(AgentReachable, FALSE)
  /\ UNCHANGED trust
  /\ LeaveRunGate

NoScript ==
  /\ AttemptWith("python")
  /\ ~files.ops
  /\ st' = [st EXCEPT !.infoGap = TRUE, !.verdict = "INFO_GAP", !.kind = "info"]
  /\ ev' = Bump([ev EXCEPT !.gates = @ + 1], "info")
  /\ Quiet
  /\ UNCHANGED <<guard, trust, files>>
  /\ LeaveRunGate

\* run_python_script: a verdict file that is there wins over the exit code
ScriptResult(own, wrote) ==
  IF wrote \/ files.verdict = None THEN own ELSE files.verdict

ScriptRuns ==
  /\ AttemptWith("python")
  /\ files.ops
  /\ \E own \in Verdicts, wrote \in BOOLEAN :
       /\ files' = [files EXCEPT !.verdict = ScriptResult(own, wrote)]
       /\ Attempt(ScriptResult(own, wrote))
  /\ Quiet
  /\ LeaveRunGate

-----------------------------------------------------------------------------
(* Validation: the failing items are judged, and the gate is retried or    *)
(* the run halted.                                                         *)

ParseItems ==
  /\ At("parse_validation_items")
  /\ Quiet /\ Leave(TRUE)
  /\ UNCHANGED <<st, guard, ev, trust, files, profile>>

\* apply_consensus outvotes continue_remaining and partial_accept
Judge ==
  /\ At("validation_judge")
  /\ \E action \in {"retry_gate", "halt"} : st' = [st EXCEPT !.action = action]
  /\ Quiet /\ Leave(TRUE)
  /\ UNCHANGED <<guard, ev, trust, files, profile>>

ApplyPlan ==
  /\ At("apply_validation_plan")
  /\ Quiet /\ Leave(TRUE)
  /\ UNCHANGED <<st, guard, ev, trust, files, profile>>

PendingRepro ==
  /\ At("run_pending_repro")
  /\ Quiet /\ GoOn(TRUE, RouteAfterRepro(st))
  /\ UNCHANGED <<st, guard, ev, trust, files, profile, overrides>>

-----------------------------------------------------------------------------
(* The bridge loop: an environment or tool failure is diagnosed and patched. *)

Guarded(s, g) == [s EXCEPT !.stalemate = g.stalemate, !.forced = g.stalemate]

LeaveDiagnose ==
  /\ LeaveByTriage(files'.proposal, RouteAfterDiagnose(st'))
  /\ UNCHANGED <<ev, trust, profile>>

\* nothing to do on an information gap, nothing left to try at the cap
SkipDiagnosis ==
  /\ At("diagnose_env")
  /\ st.infoGap \/ st.bridge >= MaxBridge
  /\ st' = IF st.infoGap THEN st
           ELSE [st EXCEPT !.verdict = "FAIL", !.error = "bridge_round_cap"]
  /\ Quiet
  /\ UNCHANGED <<guard, files>>
  /\ LeaveDiagnose

DiagnoseEnv ==
  /\ At("diagnose_env")
  /\ ~st.infoGap /\ st.bridge < MaxBridge
  /\ \/ /\ AgentReachable
        /\ \E v \in Verdicts \cup {None}, proposal \in BOOLEAN :
             files' = [Proposed(files, proposal) EXCEPT !.verdict = v]
     \/ ~AgentReachable /\ UNCHANGED files
  /\ guard' = RecordTransition(guard, <<"diagnose_env", st.kind>>)
  /\ st' = Guarded([st EXCEPT !.runner = "llm", !.error = ""], guard')
  /\ Did(AgentReachable, FALSE)
  /\ LeaveDiagnose

PatchBridge ==
  /\ At("patch_bridge")
  /\ guard' = RecordTransition(guard, <<"patch_bridge", st.kind>>)
  /\ \E applied \in BOOLEAN :
       /\ files' = [files EXCEPT !.bridge = @ \/ applied]
       /\ st' = Guarded([st EXCEPT !.bridge = @ + 1,
                                   !.error = IF applied THEN "" ELSE "not_applied"],
                        guard')
  /\ Quiet
  /\ Leave(files'.bridge)
  /\ UNCHANGED <<ev, trust, profile>>

-----------------------------------------------------------------------------
(* Evaluation: drift, completeness, and whether to go on improving.        *)

SkipEvaluation ==
  /\ At("evaluate") /\ st.infoGap
  /\ st' = [st EXCEPT !.verdict = "INFO_GAP"]
  /\ Quiet
  /\ UNCHANGED <<guard, ev, trust, files, profile>>
  /\ LeaveByTriage(files.allowed # "none", RouteAfterEval(st'))

\* a drift above the maximum turns a PASS into a FAIL
Evaluate ==
  /\ At("evaluate") /\ ~st.infoGap
  /\ \E score \in DriftScores :
       LET verdict == IF st.verdict = "PASS" /\ score > DriftMax THEN "FAIL"
                      ELSE st.verdict
       IN  /\ guard' = RecordDrift(guard, score)
           /\ files' = [files EXCEPT !.allowed =
                          IF PromoteAllowed(ev, trust, verdict) THEN "yes" ELSE "no"]
           /\ st' = Guarded([st EXCEPT
                       !.verdict = verdict,
                       !.openIssues = verdict # "PASS",
                       !.cont = ContinueImprovement(ev, trust, verdict),
                       !.complete = IF CompleteAtLeast(ev, 75) THEN "high" ELSE "low"],
                      guard')
           /\ Did(FALSE, FALSE)
  /\ UNCHANGED <<ev, trust, profile>>
  /\ LeaveByTriage(TRUE, RouteAfterEval(st'))

-----------------------------------------------------------------------------
(* Parity: the script must reach the verdict the LLM reached.              *)

LeaveParity ==
  /\ LeaveByTriage(files'.report # "none", RouteAfterParity(st'))
  /\ UNCHANGED <<guard, ev, trust, profile>>

\* mutant: the cap is tested as run_codegen tests it
CodegenOrCapVariant(s) ==
  IF s.codegen > MaxCodegen
    THEN [s EXCEPT !.parity = "no", !.error = "codegen_round_cap"]
    ELSE [s EXCEPT !.parity = "no", !.runner = "llm", !.codegen = @ + 1]

\* _parity_codegen_fail_out
CodegenOrCap(s) ==
  IF s.codegen >= MaxCodegen
    THEN [s EXCEPT !.parity = "no", !.error = "codegen_round_cap"]
    ELSE [s EXCEPT !.parity = "no", !.runner = "llm", !.codegen = @ + 1]

\* nothing to compare: no PASS, or the script itself reached it
SkipParity ==
  /\ At("parity_check")
  /\ st.verdict # "PASS" \/ st.runner = "python"
  /\ IF st.verdict # "PASS" THEN UNCHANGED <<st, files>>
     ELSE /\ st' = [st EXCEPT !.parity = "ok"]
          /\ files' = [files EXCEPT !.report = "ok"]
  /\ Quiet
  /\ LeaveParity

\* snapshot_llm_reference: the verdict file, the first time only
Reference == IF files.reference = None THEN files.verdict ELSE files.reference

\* compare_verdicts
Agrees(a, b) == a.status = b.status /\ a.body = b.body

\* a PASS from a stop report alone left no verdict file to take as reference
ParityRaises ==
  /\ At("parity_check")
  /\ st.verdict = "PASS" /\ st.runner # "python"
  /\ Reference = None
  /\ outcome' = "raised"
  /\ steps' = steps + 1
  /\ Quiet
  /\ UNCHANGED <<node, st, guard, ev, trust, files, profile, overrides>>

NoOpsToCompare ==
  /\ At("parity_check")
  /\ st.verdict = "PASS" /\ st.runner # "python"
  /\ Reference # None
  /\ ~files.ops
  /\ files' = [files EXCEPT !.reference = Reference]
  /\ st' = CodegenOrCap(st)
  /\ Quiet
  /\ LeaveParity

ParityCheck ==
  /\ At("parity_check")
  /\ st.verdict = "PASS" /\ st.runner # "python"
  /\ Reference # None
  /\ files.ops
  /\ \E own \in Verdicts, wrote \in BOOLEAN :
       LET read == ScriptResult(own, wrote)
           ok == Agrees(Reference, read)
       IN  /\ files' = [files EXCEPT !.reference = Reference, !.verdict = read,
                                     !.report = IF ok THEN "ok" ELSE "no"]
           /\ st' = IF ok THEN [st EXCEPT !.parity = "ok"] ELSE CodegenOrCap(st)
           /\ Did(FALSE, Agrees(Reference, own))
  /\ LeaveParity

\* the test for the cap comes too late: parity_check has stopped counting before
RunCodegen ==
  /\ At("run_codegen")
  /\ IF st.codegen > MaxCodegen
       THEN /\ st' = [st EXCEPT !.verdict = "FAIL", !.error = "codegen_round_cap"]
            /\ UNCHANGED files
            /\ Quiet
       ELSE /\ st' = [st EXCEPT !.runner = "llm", !.error = ""]
            /\ IF AgentReachable
                 THEN \E v \in Verdicts \cup {None}, wrote \in BOOLEAN :
                        files' = [files EXCEPT !.verdict = v, !.ops = @ \/ wrote]
                 ELSE UNCHANGED files
            /\ Did(AgentReachable, FALSE)
  /\ Leave(files'.ops)
  /\ UNCHANGED <<guard, ev, trust, profile>>

-----------------------------------------------------------------------------
(* Promotion and the end of a run.                                         *)

\* apply_promotion: what it takes besides the decision to approve
MayPromote(score, golden) ==
  /\ score >= TrustPromote
  /\ files.report = "ok"
  /\ golden
  /\ files.allowed # "no"

\* the registry is written before the child evidence, which needs the parity
\* report as the gate does, is looked at
Promote ==
  /\ At("promote")
  /\ IF ~files.ops THEN UNCHANGED <<st, trust>>
     ELSE \E decision \in {"approve", "defer", "reject"}, score \in 0..TrustMax,
             golden \in BOOLEAN :
       /\ trust' =
            IF decision = "reject" THEN [trust EXCEPT !.canonical = FALSE]
            ELSE IF decision = "approve" /\ MayPromote(score, golden)
              THEN [trust EXCEPT !.canonical = TRUE, !.score = score]
            ELSE trust
       /\ st' = IF files.report = "ok"
                  THEN [st EXCEPT !.rejected = decision = "reject"]
                ELSE [st EXCEPT !.verdict = "FAIL", !.error = "child_evidence"]
  /\ Quiet
  /\ Leave(files.ops /\ files.report = "ok")
  /\ UNCHANGED <<guard, ev, files, profile>>

\* reproduction_finalize.json is asked for only after a PASS nobody rejected
FinalizeReproduction ==
  /\ At("finalize_reproduction")
  /\ \E written \in BOOLEAN :
       /\ written => st.verdict = "PASS" /\ ~st.rejected
       /\ Leave(written)
  /\ Quiet
  /\ UNCHANGED <<st, guard, ev, trust, files, profile>>

Finalize ==
  /\ At("finalize")
  /\ GoOn(TRUE, IF profile = "production" THEN "meta_collect" ELSE END)
  /\ Quiet
  /\ UNCHANGED <<st, guard, ev, trust, files, profile, overrides>>

MetaStep ==
  /\ outcome = "running"
  /\ node \in {"meta_collect", "meta_score", "meta_propose", "meta_queue"}
  /\ Leave(TRUE)
  /\ Quiet
  /\ UNCHANGED <<st, guard, ev, trust, files, profile>>

Next ==
  \/ LoadContext \/ SelectRunner
  \/ SkipGate \/ AgentVerdict \/ AgentStop \/ NoFreshVerdict \/ NoScript \/ ScriptRuns
  \/ ParseItems \/ Judge \/ ApplyPlan \/ PendingRepro
  \/ SkipDiagnosis \/ DiagnoseEnv \/ PatchBridge
  \/ SkipEvaluation \/ Evaluate
  \/ SkipParity \/ ParityRaises \/ NoOpsToCompare \/ ParityCheck \/ RunCodegen
  \/ Promote \/ FinalizeReproduction \/ Finalize \/ MetaStep

Spec == Init /\ [][Next]_vars

-----------------------------------------------------------------------------
(* Properties.                                                             *)

\* Types: the graph state, the guard's windows, and trust within its scale.
TypeOK ==
  /\ node \in VerifyNodes \cup {END}
  /\ st \in [runner : {"none", "python", "llm"},
             verdict : {"none", "PASS", "FAIL", "INFO_GAP"},
             kind : FailKinds \cup {"unset", "none", "info", "llm"},
             error : {"", "awaiting", "not_applied", "bridge_round_cap",
                      "codegen_round_cap", "child_evidence"},
             infoGap : BOOLEAN, stalemate : BOOLEAN, forced : BOOLEAN,
             bridge : 0..MaxSteps, codegen : 0..MaxSteps,
             openIssues : BOOLEAN, cont : BOOLEAN,
             complete : {"unset", "low", "high"}, parity : {"unset", "ok", "no"},
             action : {"", "retry_gate", "halt"}, rejected : BOOLEAN]
  /\ DOMAIN guard = DOMAIN Clean
  /\ guard.pattern \in Patterns /\ guard.stalemate \in BOOLEAN
  /\ Len(guard.signatures) <= Threshold
  /\ Len(guard.transitions) <= 2 * LongestPeriod
  /\ Len(guard.drift) <= 3
  /\ ev \in [gates : 0..MaxSteps, fix : 0..MaxSteps, env : 0..MaxSteps,
             tool : 0..MaxSteps, llm : 0..MaxSteps, info : BOOLEAN]
  /\ trust \in [score : 0..TrustMax, runs : 0..MinTrustRuns, canonical : BOOLEAN]
  /\ files.verdict \in Verdicts \cup {None}
  /\ files.reference \in Verdicts \cup {None}
  /\ files.report \in {"none", "ok", "no"}
  /\ files.allowed \in {"none", "yes", "no"}
  /\ {files.subStop, files.proposal, files.ops, files.bridge} \subseteq BOOLEAN
  /\ profile \in Profiles
  /\ steps \in 0..MaxSteps
  /\ outcome \in {"running", "ended", "blocked", "exhausted", "raised"}
  /\ overrides \in 0..MaxOverrides

\* The stalemate and force_mode of the graph state, which routers read, agree
\* with loop_guard.yaml, which select_runner reads, after every node: no node
\* that writes the file forgets to copy it, and a PASS clears both.
StateMirrorsGuard ==
  st.stalemate = guard.stalemate /\ st.forced = guard.stalemate

\* The repair loops stop at their caps, each extra round costs one route chosen by
\* a plan or the user: codegen rounds (counted in parity_check, tested in
\* run_codegen), bridge rounds (counted in patch_bridge, tested in
\* diagnose_env), and the environment failures a run can have at all, beyond
\* those a stop report called a PASS, which cost no bridge round.
RepairsBounded ==
  /\ st.codegen <= MaxCodegen
  /\ st.bridge <= MaxBridge + overrides
  /\ ev.env + ev.tool <= MaxBridge + 1 + overrides + did.waved

\* A run that no plan and no user rerouted ends with a PASS, which the orchestrator
\* takes for the group's result, only if parity was reached, or given up at the
\* cap, or if a stop report's PASS, which keeps its kind of failure, met a
\* stalemate: then evaluate ends the run.
PassEndsWithParity ==
  outcome = "ended" /\ st.verdict = "PASS" /\ overrides = 0
    => \/ st.parity = "ok" \/ st.error = "codegen_round_cap"
       \/ st.stalemate /\ st.kind # "none"

Attempted == ev'.gates > ev.gates

\* A script becomes canonical only on a PASS with parity, enough gates and
\* trust runs, enough trust and enough completeness, whatever was rerouted:
\* the decision is taken in evaluate and used three nodes later.
PromotionEarned ==
  [][trust'.canonical /\ ~trust.canonical =>
       /\ st.verdict = "PASS" /\ files.report = "ok"
       /\ HardeningOk(ev, trust) /\ CompleteAtLeast(ev, 85)
       /\ trust'.score >= TrustPromote]_vars

\* An information gap is for the user: no later attempt, which would count an
\* event, and no promotion, and no node or plan takes the gap back.
InfoGapHardStop ==
  [][st.infoGap => /\ st'.infoGap
                   /\ ev' = ev
                   /\ trust'.canonical => trust.canonical]_vars

\* on_stalemate.force_mode: while the guard reports a stalemate every attempt is
\* the LLM's, whatever the script's trust.
StalemateForcesLlm ==
  [][guard.stalemate /\ Attempted => st.runner = "llm"]_vars

\* on_stalemate.do_not auto_pass: an LLM attempt passes only on an answer of the
\* sub-agent asked in this attempt, never on a verdict file of an earlier one.
LlmPassIsFresh ==
  [][Attempted /\ st.runner = "llm" /\ st'.verdict = "PASS" => did'.asked]_vars

-----------------------------------------------------------------------------
(* What documents, comments and tests say of the program, and it does not do. *)

\* Parity after an LLM verdict means that the script itself reaches it.
ParityComparesOps ==
  [][At("parity_check") /\ st.verdict = "PASS" /\ st.runner = "llm"
       /\ st'.parity = "ok" => did'.agreed]_vars
=============================================================================
