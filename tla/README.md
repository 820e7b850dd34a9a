# Verification of the protocol cores of CodeFromAI

TLA+ models, TLC runs and TLAPS proofs for the parts of this repository that
have protocol state:

* `soc-verify-agent`, the program that drives an LLM through verification
  graphs and refuses to advance until each node has left its evidence - seven
  modules;
* the AXI fabric of `VerifCPU` (master, two-to-one arbiter, slave) - one module;
* the hierarchy index of `hc_hierarchy`, built in batches and deepened by other
  processes over one SQLite file - one module.

Paths are relative to `src/soc-verify-agent/src/soc_verify/` unless they start
with `src/`.

Contents: [Inventory](#inventory) - [Modules](#modules) -
[GraphSession](#graphsession) - [VerifyGroup](#verifygroup) -
[YamlStore](#yamlstore-and-atomicfile) - [TrustRegistry](#trustregistry) -
[Orchestrator](#orchestrator) - [ValidationLedger](#validationledger) -
[AxiFabric](#axifabric) - [HierarchyIndex](#hierarchyindex) -
[Runs](#runs) - [Fairness](#fairness) - [Proofs](#proofs) - [Findings](#findings) -
[What is not modelled](#what-is-not-modelled) - [Plan](#plan)

## Inventory

The repository is a collection of independent tools. `soc-verify-agent` has
most of the protocol state: several graphs, a session layer that can be stopped
and resumed, an LLM or a person working on files in between, and files shared
by every run. Of the rest, `hc_hierarchy` keeps a database that processes share
and `VerifCPU` has hardware that arbitrates; the others parse, convert and
generate.

### Components of soc-verify-agent

| Component | State it keeps | Operations | What makes it correct |
|---|---|---|---|
| **graph session** `graph_session.py` | `runs/graph_sessions/<id>.yaml`: started, finished, last_completed_node, waiting_for, gate_recovery_node, llm_invoked_nodes, blocks | start_session, session_tick, session_invoke_llm, resume_session, run_until_done, session_status | no node runs past a gate that has not passed; a refused gate is remembered over restarts; record and checkpoint agree; every pending node eventually runs |
| **node gate** `node_gate.py` | `node_gates/<node>_gate_pass.json`, the user's `node_gates.yaml`, `graph_step.json` | merge_checks, validate_node, finalize_node | a pass artifact counts only for the visit it was written for |
| **node contract, child evidence** `node_contract.py`, `child_graph_runtime.py` | per-node transition log, child run records | validate_transition, audit_trace, validate_child_evidence | only edges of `graph_flow_spec.yaml` are taken |
| **checkpointer** `graph_checkpointer.py` | SQLite checkpoints of each LangGraph thread | used by LangGraph's invoke, get_state, update_state | survives a restart of the process |
| **verify_group graph** `graphs/verify_group.py`, `verify_routing.py`, `node_triage.py`, `validation_nodes.py` | `VerifyGroupState`: verdict, route, fix_round, codegen_round, bridge and continue counts | 20 node functions and their routers | terminates; a PASS is never invented; promotion only with evidence |
| **loop guard** `loop_guard.py` | `loop_guard.yaml`: signatures, transitions, drift history, stalemate, force_mode | record_failure, record_transition, record_drift_score, clear_stalemate_on_pass | the same failure three times, an oscillation or a lack of drift is noticed, and one pass lifts it |
| **orchestrator graph** `graphs/orchestrator.py` | work queue, index, acquisition and verify results | plan_work, run_acquisition, prepare_verify, dispatch_verify, advance_work, finalize | every work item gets one outcome; what is due of a project is refreshed before its groups are verified; the report says what happened |
| **setup_group, meta_innovation graphs** | files | linear chains of nodes | each node leaves its artifacts |
| **trust, parity, promotion** `trust_eval.py`, `parity_eval.py`, `registry_writer.py` | `registry.yaml`: trust score, mode, promoted scripts | update_trust, select_runner, apply_promotion, ensure_verify_handoff | trust in [0,1]; promotion only at trust >= 0.70 with golden and parity evidence; a rejected script is not canonical; a promotion does not outlive its tag |
| **YAML store, file locks** `models.py`, `file_lock.py` | every YAML file; `<file>.lock` | load_yaml, save_yaml (lock, temporary file, rename) | a reader never sees half a file; a save replaces it whole or not at all |
| **validation autonomy, consensus** `validation_autonomy.py`, `validation_consensus.py` | `meta/validation_state.yaml`, `validation_judgment.json` | judge, consensus, apply, run_pending_repro | an excluded item stays excluded; what was to be reproduced is; nobody waves a failing item through |
| **acquisition, schedules, tag watch** `acquisition.py`, `tag_watch.py`, `tag_cache.py` | last-run stamps, tag cache | due, acquire, refresh, touch, replace | a due source is acquired once; a new tag reaches every script promoted under the old one |
| **LLM runner and bridge** | queue files, responses | invoke, file handshake | an answer belongs to its question |
| **meta graph, telemetry, experiment** | proposal files, counters | queue, apply low-risk artifacts | - |
| paper factory, skills, setup wizard, CLI | documents | generate, parse | - |

### How they interact

A driver (the CLI's `run_until_done`, an LLM following the flow instruction, or
the HTTP server) calls `session_tick` repeatedly. A tick loads the session
record through the YAML store, reads the thread's pending node from the
checkpointer, asks the node gate and the contract about the node completed
before, possibly calls the LLM through the bridge, lets LangGraph invoke exactly
one node function of the selected graph, and saves the record. Between ticks an
LLM or a person writes the artifacts a gate asked for. verify_group's nodes
call the loop guard, trust evaluation and registry writer; the orchestrator's
`dispatch_verify` runs whole verify_group graphs headless, under the same node
gates. Every record, the registry, the tag cache and the validation ledger go
through `load_yaml` and `save_yaml`, from as many processes as were started.

### VerifCPU's AXI fabric and hc_hierarchy's index

| Component | State it keeps | Operations | What makes it correct |
|---|---|---|---|
| **AXI master** `verif_axi_full_master.v` | slots of outstanding reads and writes, RREADY, BREADY | bus_read/write_issue, _wait, bus_read_incr, bus_write_incr, bus_read_locked | takes a beat only for an access it waits for; every call returns |
| **arbiter** `verif_axi_arbiter_2m1s.v` | grants, write owner, locks | pick, lock, unlock | round robin leaves nobody out; a locked read excludes the other master; one write at a time |
| **slave** `verif_axi_full_slave_simple.v` | request and response queues with counters | accept, present, answer | one response per request, none lost or doubled |
| **index build** `batched_loader.py`, `parse_parallel.py`, `parse_depth.py`, `store.py` | modules, instances, parse checkpoint and meta in one SQLite file | build_index_batched (resume, --no-resume, --force), batches, checkpoint commits | what is checkpointed is stored; a resumed build shows what a first one shows |
| **deepen** `deepen.py`, served by `hch-web`, `hch-deepen`, GUI | deepened prefixes in the meta table | deepen_branch | other branches unchanged; the branch is shown below |

### Where it is hard

1. *Three stores, no transaction.* The session record, the LangGraph
   checkpoint and the gate artifacts are written at different moments of a
   tick. A process that dies in between leaves them one node apart.
2. *A rollback that moves forward.* When an exit gate fails the tick calls
   `update_state(pre_vals, as_node=pending)`. That restores the values but
   still routes on from the node: the pending node afterwards is a *successor*
   of the one whose gate failed, chosen from the old values. Only
   `gate_recovery_node` remembers that the gate is owed.
3. *Stale evidence.* Nodes are revisited in loops; pass artifacts and files of
   an earlier visit are still on disk.
4. *Several processes* may tick one session; the record is loaded at the
   start of a tick and saved at the end with no lock in between. (The HTTP
   server itself is single-threaded, so two clients means CLI and server, or
   two CLIs.)
5. *Loops with separate caps* in verify_group, read and written by several nodes.
6. *Read-modify-write of shared YAML* without a lock around it; two files that
   have to agree (tag and registry) written one after the other.
7. *Scripts of minutes between a load and a save* (`run_pending_repro`, `evaluate_script`).
8. *Registered handshakes*: what one clock edge presents, a later one takes.
9. *One writer at a time, several transactions per operation*: between two of
   them another process of the index commits its own.

The hazards, each at its line, are listed in `PROJECT.json`.

### The other tools

hierwalk (hierarchy and connectivity search), socverif-harness, i3c-simulator,
verifclaw, and a number of single-process parsers, converters, bots and
scripts: text is read and text is written. See
[What is not modelled](#what-is-not-modelled).

## Modules

| Module | Models | State |
|---|---|---|
| `GraphSession` | `graph_session.py`, with the node gate, the contract's transition check and child evidence as it uses them; LangGraph and its checkpointer as an external component | the record `meta`, the checkpoint `next`/`runner`, the gate evidence `ev`/`passed`, and each client's position and local copies |
| `LoopGuard` | `loop_guard.py` as operators on a guard record | - |
| `VerifyGroup` | one headless run of `graphs/verify_group.py` with `verify_routing.py`, `node_triage.py`, `validation_nodes.py`, and the parts of trust, parity, completeness and promotion it calls; extends `LoopGuard` | pending node, graph state, guard, event counters, the script's trust record, artifacts |
| `AtomicFile` | what callers of the YAML store rely on: abstract specification | the document, each caller's phase and copy |
| `YamlStore` | `models.load_yaml`, `models.save_yaml`, `file_lock.py`; implements `AtomicFile` | directory entries, inodes in two parts, locks, each process' place |
| `TrustRegistry` | `tag_cache.py`, `tag_watch.py`, `trust_eval.py`, `registry_writer.py` and the hand-off, for any number of processes; a load and a save are `AtomicFile`'s | tag, registry, each process' copies |
| `Orchestrator` | `graphs/orchestrator.py`, headless; a run of `VerifyGroup` is one step with an outcome | work queue and index, the item's context, log, results, report |
| `ValidationLedger` | `validation_autonomy.py`, `validation_consensus.py`, `validation_nodes.py` for several runs that share the ledger | exclusions, pending reproductions, each run's node, judgment and copy |
| `AxiFabric` | `verif_axi_full_master.v` (two), `verif_axi_arbiter_2m1s.v`, `verif_axi_full_slave_simple.v`, composed as in `tb/tb_amba_protocol.v` | the registers of all three, and where each master's task is |
| `HierarchyIndex` | hc_hierarchy's batched build, parse depth policy, deepens and their database | committed database, open transaction, write lock, memory of the builder and of each deepen |
| `MC...` | the instances the runs use: designs, graphs, symmetry, scaled constants | - |
| `..._proofs` | the theorems about the module they are named after (`VerifyGroup_proofs`: also about `LoopGuard`); eight of them | - |

The modules divide one system where its parts talk through files or outcomes:
`Orchestrator` runs groups whose inside is `VerifyGroup`; a stepwise run of the
same graphs is `GraphSession`; runs meet in `TrustRegistry` and
`ValidationLedger`, which rest on the atomic loads and saves that `YamlStore`
is shown to implement.
## GraphSession

One session of one graph, any number of client processes. The graph is a
parameter (`Nodes`, `GraphEdge`, `FlowEdge`), so the module stands for a
session of verify_group, setup_group and the orchestrator alike.

| In the model | In the code |
|---|---|
| `meta` | `GraphSessionMeta` on disk (`save_meta`, `load_meta`) |
| `m[c]` | the `meta` object of a call in progress |
| `next` | `get_state(config).next[0]`, `END` when empty, `None` before the first invoke |
| `runner` | the `runner` field of the graph state, which decides whether `run_gate` needs an LLM |
| `ev[n]` | which families of gate checks of node `n` hold on disk: `exit` (platform checks and `requires_exit`), `extra` (user's and LLM's checks), `child` (child graph evidence) |
| `passed` | the `*_gate_pass.json` artifacts that still count, i.e. are not older than `graph_step.json` |
| `pc[c]`, `pend`, `pre`, `after`, `auto` | the program counter and local variables of `session_tick` |
| `owed`, `lapses`, `ran`, `crashes` | history variables: not in the code |

A tick is one action per access to a store, so a crash (`Crash`, `DieInNode`)
or another client's step falls between any two of them:

    LoadMeta -> StartGraph -> SaveStart                        first tick
    LoadMeta -> FinishSession                                  no pending node
    LoadMeta -> TakeSnapshot -> [RecoverGate] -> CheckLast
             -> InvokeLlm -> EnterAfterAsking | EnterLlmNode | EnterDirectly
             -> RunNode -> PassExitGate -> SaveProgress
                        -> RollbackInvoke -> SaveRecovery

`BeginInvokeLlm`/`FinishInvokeLlm` are the explicit `invoke-llm` call (the
record is loaded before the LLM runs and saved after it), `SupplyEvidence` is
the LLM or a person writing a missing artifact.

What is abstracted: single checks become three families; `blocks` is the set of
reasons that occurred; trace lines and guide texts are left out. A node whose
only gate check is the trace line it writes itself cannot be helped by anybody
else (`SelfTraced`). The edge a node takes is any edge of the graph: routing by
state is the subject of `VerifyGroup` and `Orchestrator`.

Properties, all defined in the module:

| Property | Kind | What it says |
|---|---|---|
| `LapsesBoundedByCrashes` | invariant | the number of times a node ran past an unpaid gate is at most the number of crashes: without crashes, never |
| `IllegalOnlyAfterCrash` | invariant | without a crash the pending node is always a legal successor of the last completed one; rollbacks, recoveries and changes of route included |
| `FinishedWithinCrashes` | invariant | a finished session has paid every gate but at most one per crash |
| `LlmCalledBeforeRun` | action | with `auto_invoke_llm` an LLM node runs only after its LLM call |
| `CompletesOnOwnEvidence` | action | a node completes on evidence that holds now, never on the pass artifact of an earlier visit; also with two clients |
| `PendingNodeRuns` | liveness | a pending node does not stay pending |

With two clients `LapsesBoundedByCrashes` and `IllegalOnlyAfterCrash` fail even
without a crash, because `graph.invoke` runs whatever node is pending by then
and because a second process that loaded `started = False` starts the graph
again. The code does not lock a session, and no document promises that two
drivers may share one; only `CompletesOnOwnEvidence` is checked for two.

## VerifyGroup

One run of `run_verify_group` (`graphs/verify_group.py:1775`): it invokes one
node, lets the router choose the next, checks the node's gate, and stops when a
gate fails (`NodeGateBlocked`), at END, or after `max_steps`. One step of the
model is one such iteration; nothing else runs in between, because the
sub-agent and the scripts are called inside the nodes. Where `GraphSession`
abstracts the routing and keeps crashes and clients, `VerifyGroup` abstracts
those and keeps the routing.

| In the model | In the code |
|---|---|
| `node`, `steps`, `outcome` | the checkpoint's pending node, the loop's counter, how the loop ended (`ended`, `blocked` by a gate, `exhausted`, `raised`) |
| `st` | `VerifyGroupState`: runner, verdict, error_kind (`kind`), error, info_gap, stalemate, force_mode (`forced`), bridge and codegen rounds, open_issues, continue_improvement (`cont`), whether completeness is below 0.75 (`complete`), parity_ok, validation_sequence_action (`action`), a promotion the LLM rejected |
| `guard` | `loop_guard.yaml` |
| `ev` | `state["events"]` |
| `trust` | the script's record in `trust/registry.yaml`; `canonical` is its status |
| `files` | `verdict_<group>.json`, `llm_reference_verdict.json`, `parity_report.json`, `completeness_decision.json` (`allowed`), `sub_stop.json`, `bridge_patch_proposal.md`, and whether the group has an ops and a bridge script |
| `overrides`, `did` | history variables: not in the code |

| Actions | Node function |
|---|---|
| `LoadContext`, `SelectRunner` | load_context, select_runner_node with `trust_eval.select_runner` |
| `SkipGate`, `AgentVerdict`, `AgentStop`, `NoFreshVerdict`, `NoScript`, `ScriptRuns` | run_gate, by what answers: nothing to do, the sub-agent's verdict or stop report, nobody, no script, the script |
| `ParseItems`, `Judge`, `ApplyPlan`, `PendingRepro` | the validation nodes |
| `SkipDiagnosis`, `DiagnoseEnv`, `PatchBridge` | the bridge loop |
| `SkipEvaluation`, `Evaluate` | evaluate_node with the completeness policy |
| `SkipParity`, `ParityRaises`, `NoOpsToCompare`, `ParityCheck`, `RunCodegen` | parity_check_node, run_codegen_node; it raises when a PASS came from a stop report alone and there is no verdict file to copy |
| `Promote`, `FinalizeReproduction`, `Finalize`, `MetaStep` | the end of the graph |

Routing. `RouteAfter*` is what `evaluate_node_outcome` and
`node_triage_spec.yaml` make of the state; where they give no answer the
fallback of `verify_routing.py` agrees with them. Before the platform's route
go the user's `pass_route` and `fail_routes` (`meta/node_triage.yaml` or the
group's config, which may be edited at any time; `node_triage.py:393-404`) and,
for a failed outcome, an LLM's triage plan: `LeaveByTriage` takes the
platform's route or any other edge of the flow specification; `overrides`
counts the second, and `MaxOverrides` bounds it. A route to END is allowed by
the specification check, but LangGraph has no such edge for these nodes and
raises; that, like any malformed user file, is left out.

A stop report carries a `partial_verdict`, and run_gate takes whatever it says
(`verify_group.py:566`): `AgentStop` may set the verdict to PASS while it
records a failure of the reported kind. `did.waved` counts the reports that
call an environment or tool failure a PASS (`WavesThrough`).

Abstractions. A verdict is a status, the kind it is classified as, and a body
that stands for its log line and for the fields parity compares, so two
verdicts are equal exactly when the code's comparisons find them equal. `FAIL`
also stands for `BLOCKED`, which every router treats alike. Trust is counted
in steps of 0.05, drift scores in hundredths; completeness keeps its rational
form, compared without division. The guard's histories are cut to the windows
their detectors read. `setup`, which writes the initial state, is `Init`. What
a validation item is judged to be is a free choice of the outcome.

A key that a node returns and `VerifyGroupState` does not declare is dropped by
LangGraph; the model keeps exactly the declared ones. `stalemate_pattern` is
not among them; see [Findings](#findings).

| Property | Kind | What it says |
|---|---|---|
| `StateMirrorsGuard` | invariant | stalemate and force_mode in the graph state agree with `loop_guard.yaml` after every node |
| `RepairsBounded` | invariant | codegen rounds, bridge rounds and environment failures stay within their caps, plus one round per route a plan or the user chose and one failure per stop report that calls it a PASS |
| `PassEndsWithParity` | invariant | a run that neither a plan nor the user rerouted ends with a PASS only with parity, at the codegen cap, or when a stop report's PASS meets a stalemate |
| `PromotionEarned` | action | a script becomes canonical only on a PASS with parity, enough gates, trust runs, trust and completeness, whatever was rerouted |
| `InfoGapHardStop` | action | after an information gap: no attempt, no promotion, and nobody takes it back |
| `StalemateForcesLlm` | action | while the guard reports a stalemate, attempts are the LLM's |
| `LlmPassIsFresh` | action | an LLM attempt passes only on an answer given in it |
| `ParityComparesOps` | action | a parity report that says ok compares a result of the script: what `verify_group.py:1128` says and the code does not do; see [Findings](#findings) |

## YamlStore and AtomicFile

`AtomicFile` is what the callers of the store count on: a load and a save are
one step each, a caller may die, and nothing holds the file between its load
and its save. `YamlStore` is the code (`models.py:31-48`, `file_lock.py`): one
action per system call.

| In the model | In the code |
|---|---|
| `path`, `tmp`, `data` | the directory entries `<file>` and `<file>.tmp` and the inodes they name; an inode has two parts so that a reader or writer can be caught in the middle |
| `held` | the flock on `<file>.lock` |
| `LoadMissing`, `LockShared`, `OpenFile`, `ReadFirst`, `ReadSecond` | `load_yaml`; a missing file is noticed without the lock |
| `ChangeDoc` | the caller changes its document |
| `LockExclusive`, `OpenTmp`, `WriteFirst`, `WriteSecond`, `Rename` | `save_yaml`; `OpenTmp` truncates what a dead process left under the shared name |
| `Die` | the process dies; the kernel drops its lock, `<file>.tmp` stays |

A document is the set of the updates in it, one per process: what matters is
which updates survive. The kernel's flock, rename and unlinked inodes are
external and modelled by what they do.

| Property | Kind | What it says |
|---|---|---|
| `ImplementsAtomicFile` | refinement | under `content <- Content`, `phase <- Phase`, `copy <- doc` every behaviour is one of `AtomicFile`: no torn document, no half save, whoever dies |
| `SaveLosesOnlyLaterWrites` | action | what a save takes out of the file was written there after the saver's load; nothing else takes anything out |

The second says how far the unlocked read-modify-write can do damage. That
updates *are* lost is a finding.

## TrustRegistry

`cache.yaml` (tag, next refresh) and `trust/registry.yaml` for any number of
processes: verify_group runs, the CLI's tag-replace and the hand-off at the end
of setup.

| Actions | Code |
|---|---|
| `LoadContext`, `FetchNewTag`, `TouchTag`, `CliTagReplace` | `refresh_if_due` on a cache loaded by load_context, `touch_tag_refresh`, the CLI command |
| `SaveCache`, `LoadForDemotion`, `SaveDemoted` | `apply_tag_replace`: cache.yaml first, then the registry loaded, demoted and saved |
| `RunGate`, `SkipTrustUpdate`, `LoadForUpdate`, `SaveUpdate`, `NextAttempt` | `update_trust_after_run` |
| `EvaluateScript`, `LoadForPromotion`, `SavePromotion` | `evaluate_script` and `apply_promotion` |
| `LoadForHandoff`, `SaveHandoff` | `ensure_verify_handoff` |
| `Release`, `DaysPass`, `Die` | the world |

A record keeps status, whether it is tied to a tag, trust in steps and runs up
to the number that is compared. What golden cases measure, what the LLM decides
and whether parity and golden evidence is there are free choices (the inside is
`VerifyGroup`'s). The tag-replace command writes whatever tag it is given
(`cli.py:83`), and a touch of a cache without a tag writes "unknown"
(`tag_cache.py:39`), so `UnknownTag` is a tag like the releases.

`epoch`, `earned` and `decided` are history; so are the marks of the races that
the unlocked read-modify-writes leave open: a process is `overtaken` when
another changes the tag between its load and its save of the cache, it has
`missed` a script when another saved a change of that script's standing
(canonical or not, tied or not) while it held a copy of the registry, and a
script is `tainted` while it is canonical by a save that had missed such a
change, or by a promotion measured under a tag that had been replaced since.

| Property | Kind | What it says |
|---|---|---|
| `StalePromotionsNeedCrashes` | invariant | but for tainted scripts, a tied canonical script's evidence is older than the tag by at most one tag per death and per process on its way from the tag to the registry |
| `RejectedStaysOut` | invariant | but for tainted scripts, a script is canonical only if the last decision written was to approve |
| `TouchKeepsTag` | action | a touch that was not overtaken keeps the tag, or writes "unknown" for none |

All three are about several processes in any interleaving. They say that the
race named in the excuse, a save of a copy the others have outdated, is the
*only* way the promise is broken; that it is broken that way is among the
[findings](#findings).

## Orchestrator

The graph of `soc-verify run` and `soc-verify verify`, run headless. One action
per node; the items are numbered in the order Python sorts their names, so that
`Arrangements` is `sort_key`. `DispatchVerify` chooses the outcome of the
group's run; `GateBlocks`, `NodeFails` and `OutOfSteps` are the exceptions that
end the invoke (`NodeGateBlocked`, any other, `GraphRecursionError`). Project
directories, documents and the due computation are data: any set of items may
be due.

| Property | Kind | What it says |
|---|---|---|
| `Accounted` | invariant | every item behind the run left exactly one trace: in the log, in the results, or as an information gap in neither; none was passed over |
| `ContextIsCurrent` | invariant | what is dispatched is the item at the index, although `prepare_verify` leaves project, stage, group and context of an earlier item in the state on a gap |
| `VerdictOfLastGroup` | invariant | the report's verdict is the last group's of the queue, a gap included |
| `RefreshedBeforeVerified` | invariant | whatever of a project is due is refreshed before one of its groups is verified, although tag_watch and verify have one priority |
| `EveryQueueEnds` | liveness | a run ends, unless a gate blocks, a node fails or the queue needs more nodes than LangGraph's limit allows |

`ExcludedIsSkipped` (no excluded group is verified) and `ShortQueuesFit` (the
limit stops only queues that are too long) are theorems without a run: the
first is one filter, the second follows from what `EveryQueueEnds` says.

## ValidationLedger

The validation nodes of verify_group, round after round, for runs that share
`meta/validation_state.yaml`. A run parses its items (which removes the
judgment of the round before), judges, applies (load, save), and reproduces
(load, scripts, save). `Die` is also `TimeoutExpired` of a script, which raises
out of the node; `Resume` is the session taking the run up at the node it died
in.

The consensus is computed: `Uncertainty` in ten-thousandths, `NeedsConsensus`,
the votes and `_vote_sequence_action`'s order of names. Which items fail, what
the LLM answers and what scripts return are free. An item is named by its id.

| Property | Kind | What it says |
|---|---|---|
| `TypeOK` | invariant | types |
| `ExclusionsStay` | action | an excluded item stays excluded, unless a run saves a copy loaded before |
| `FinishedRunsAreThrough` | invariant | without such a race, a run that is through has tried all its judgments asked for and leaves no entry behind, timeouts, deaths and the other run's entries notwithstanding |
| `NothingIsWaved` | invariant | no judgment that would go on past failing items is ever applied as the LLM's own |
| `PendingIsWorkedOff` | liveness | every entry leaves the file, unless its run stays down or a save raced |

## AxiFabric

Two masters, the arbiter and the slave at register level: at each rising edge
every register takes a value computed from what all held before. A master's
tasks are the test bench's calls; the caller may wait between them and may call
any task of `Tasks`. `task[m].phase` is the statement of the task at which an
`@(posedge ACLK)` finds it.

| In the model | In the code |
|---|---|
| `task`, `rslot`, `wslot`, `rready`, `bready` | the tasks, `r_slot_*`, `w_slot_*` and the ready registers of `verif_axi_full_master.v` |
| `arGrant`, `awGrant`, `wMaster`, `latched`, `locked`, `lockId` | the registers of the same names of `verif_axi_arbiter_2m1s.v` |
| `rq`, `rqCount`, `presented`, `aw`, `bq`, `bqCount`, `bid` | the queues of `verif_axi_full_slave_simple.v` |
| operators `ArPick` ... `BHandshake` | the wires: `assign` statements of all three |

Blocking assignments of a task and the `always` block of the same module race
at an edge; `RReadyNext` and `BReadyNext` take both orders. Out of the model:
addresses and data, the snoop queue, AWLOCK (driven by no task),
ENABLE_R_REORDER, reset in mid-transfer. Bursts and locked reads are not called
on master 1, whose header comment says its IDs set bit 3 while those tasks
drive ID 0; and they are called when nothing of the master is outstanding, as
the test benches do, because they take any beat.

| Property | Kind | What it says |
|---|---|---|
| `NoOrphans` | invariant | whatever a master takes off R or B is what a slot or burst of it waits for |
| `ReadsAreBacked` | invariant | the slave holds exactly one request per read that is waited for |
| `CountsAreKept` | invariant | the counters equal the number of valid entries; types |
| `WritesStayTogether` | invariant | arbiter and slave agree on whose write is under way |
| `LockIsExclusive` | invariant | from the address of a locked read to its beat no address of the other master is accepted |
| `OnlyNewerOvertake` | liveness | an outstanding read is answered unless reads keep beginning for ever, a write unless writes do: only newer accesses of its kind can keep it waiting |
| `CallsReturn` | liveness | every call of a task returns |

## HierarchyIndex

One SQLite file, one builder at a time and any number of deepens.

| In the model | In the code |
|---|---|
| `db`, `tx`, `lock` | the committed tables, what the open write transaction sees, who holds it |
| `db.rows`, `db.latest` | the module table by file, and per module name the row written last, which `load_all_modules` keeps |
| `db.insts` | the instances a reader sees: rows of the instance table whose `module_id` is in the module table, on which every reader joins (`db_service.py:212`, `deepen.py:40`, `store.py:366`) |
| `db.done`, `db.complete`, `db.depth`, `db.deepened` | parse checkpoint, and the settings in the meta table |
| `StartBuild`, `EraseTables`, `MarkIncomplete`, `OpenRun`, `BatchDone`, `SkimPhaseEnds`, `ClearInstances`, `LoadInstances`, `FinishBuild` | `build_index_batched`, one action per transaction; batches finish in any order and are committed every `CommitEvery` of them |
| `StartDeepen`, `ClaimDeepen`, `ParseDeepen`, `ClearForDeepen`, `LoadDeepened` | `deepen_branch`: settings are read before the transaction that stores the prefixes |
| `Stop`, `TimeOut` | a death or an exception of the parser; "database is locked" |
| `Classified`, `FlatHops`, `Flatten`, `Merged`, `Stored`, `LoadAll`, `DeepenSources` | the parse depth policy, flattening, merging of module records, and their tables |

`INSERT OR REPLACE` (`store.py:181`) gives a module that is parsed again a new
id, and the stored rows of its instances keep the old one. `Stored` therefore
takes instances out of `insts` with every batch: those of a module all of whose
rows the batch writes again, and of a module of several rows any that happened
to be resolved to one of those (`Orphanings`). They come back when
`load_instances` has stored the next tree.

`disturbed` and `lapsed` are history. The first says that the tree may not be
what the stored depth and prefixes give: `--force` erased the tables, a build
stored another depth or flattened by another than the stored one, into a tree
that was not empty or beside a deepen, a deepen that was overlapped stored its
prefixes or its tree, or a process died with the tree emptied. `BuildIsAsFresh`
does not depend on it, the deepen properties do. The second says that a run
took the top out of the tree, by a batch or by `clear_instances`, did not come
back, and nobody has stored a tree since.

A file defines one module and the design has no cycle. Files of one module name
are told apart, since the tables keep one row per file. The primary file of a
merged record is the one listed first (`_prefer_module_file_path` also looks at
suffixes and directories). Left out: ports, parameters, generate, bind, black
boxes, `--max-depth` without anchors, the synthetic path layout.

| Property | Kind | What it says |
|---|---|---|
| `CheckpointIsBacked` | invariant | a file a resumed run skips has its edges in the committed tables; types |
| `EmptyTreeIsExcused` | invariant | an index that says it is complete shows its top, but while somebody replaces the modules or the tree (`Replacing`), or after a run that took it away did not come back |
| `BuildIsAsFresh` | action | a build that ends shows at least the tree a first build with the same options shows, whatever was cut off before it |
| `DeepenOnlyGrows` | action | a deepen that nobody overlaps, on a tree flattened with the stored depth, takes nothing out |
| `DeepenReachesNextLevel` | action | such a deepen shows every level below its branch down to the first modules the index did not know |

## Runs

| Run | Instance | Shows |
|---|---|---|
| `session_crash` | verify_group cut down to runner choice, gate, evaluate, parity and finalize (`Loop*`), one client, two crashes | the safety properties hold with every pattern of missing evidence and crashes at any point |
| `session_live` | the same graph, no crash, fair | `PendingNodeRuns` |
| `session_shared` | three nodes, two clients | `CompletesOnOwnEvidence` under every interleaving of two ticks |
| `group_run` | verify_group from every initial trust record and set of scripts, two profiles, every answer of the sub-agent, one override | the safety properties of `VerifyGroup` |
| `group_parity` | no overrides | violation: `ParityComparesOps` |
| `store_atomic` | two processes, two deaths | the store implements the atomic file; what a save can lose |
| `trust_shared` | two processes in every interleaving, one of them dies, one release and tag-replace | tag, registry and promotions agree up to deaths and the races named |
| `orch_run` | two projects with two groups, one kind of refresh and the project search; both modes | every item is accounted for, and every run ends |
| `ledger_run` | two runs of one group or of two, two rounds each, one death or timeout | exclusions, reproductions and judgments of runs that share the ledger |
| `axi_run` | two masters with two slots each, a slave of three entries without latency | the fabric's safety, that every call returns, and that an access is kept waiting by newer ones only |
| `index_run` | a chain of modules with an anchored side branch; two builds in any mode, two deepens, one death, lockouts at any time | the index' properties |
| `index_forget` | a module defined by two files, two builds | violation: `BuildIsAsFresh` |

### Bounds

`Loop*` keeps one edge of every kind the session treats differently: a
loop back to a node already visited, an edge that jumps over a node (so an
`as_node` rollback and a lagging record are told apart), a branch chosen by the
state, a node that rewrites `graph_step.json` and so outdates pass artifacts,
an LLM node that depends on the runner field, and nodes whose missing evidence
is of each family. `MaxCrashes = 2` because the properties relate a count of
lapses to the count of crashes: one crash shows the effect, the second shows
that debts do not multiply; the proof removes the bound. Two clients are enough
for a stale local copy; three would only repeat it.

`group_run`: `MaxSteps = 11` leaves room for a stalemate and the
forced attempt after it, for the bridge cap, for the codegen cap, and for a
promotion after two gates. Two bodies are needed to tell equal failures and
verdicts from different ones, and the properties compare no more than two at a
time; two kinds of failure take the two routes out of a failed gate (env stands
for tool, verification for llm, which `NoFreshVerdict` also produces).
`TrustMax = 2` with `TrustPromote = 2` and steps of one lets a record start
below the threshold, reach it and lose it again. `MaxBridge = 1` and
`MaxCodegen = 1` are reached, and passed by a waved failure or an override,
within a run. One drift score is below and one above the maximum.
`MaxOverrides = 1`: the properties exclude overrides, count them, or must
survive any; the bound limits the last kind. Runs end, so the absence of a next
step is not an error (`CHECK_DEADLOCK FALSE`); so it is in `orch_run`,
`ledger_run`. The theorems have none of these bounds.

`store_atomic`: two processes are a reader beside a writer, two writers, and a
survivor of either; three inodes are the file, the temporary file and one still
open after a rename. The first death leaves a half written temporary file, the
second may interrupt its reuse. The theorems have no such bounds.

`trust_shared`: two processes are enough for a copy that is outdated when it is
saved, for a touch beside a tag-replace, and for a promotion decided while the
tag is replaced; each may begin any operation any number of times. One tag
change of each process, one release and one death give each excuse of the
properties a cause. Trust has a single value and runs are not counted
(`MinRuns = 0`), since no property checked is about them and a promotion may be
refused whatever they are; one script, since two
meet only in a whole-file save and the copy of one shows what is overwritten.
The theorems hold for any number of all of them.

`orch_run`: two projects are needed for one's refresh between the other's
items, two groups each for a context left over within and across projects. The
limit is what four groups need: queues of up to seven items use all of it or
run out. The theorems hold for any projects, groups and limit.

`ledger_run`: one item, since items do not meet but in sets; two groups because
entries carry group and run; one of the runs may as well be about the first
group (`FirstInit`). The only answer of the LLM is `partial_accept`, the risky
one; `retry_gate` is the stub's. Two rounds let a judgment meet the ledger of
the one before; with one fault a run dies in each node or loses a script.

`axi_run`: two slots on both masters more than fill a slave of `Depth = 3`, so
requests wait both before and in the queue. Three entries without latency are
where *starvation first occurs*: the slave presents the lowest ready entry
(`verif_axi_full_slave_simple.v:224`); a freed entry is refilled too late for
the next choice but in time for the one after, so reads of both masters can
take turns in two entries and pass over the third for ever (`[]<>(rq[2] =
NoEntry)` is false of this instance; with two entries the like is true).
That every access is answered is therefore not a property of this fabric;
`OnlyNewerOvertake` says exactly how far it fails. Master 0 calls all
tasks but the plain write, master 1 plain reads and writes, so bursts and
locks of one meet accesses of the other. A latency and other sizes add nothing
the safety properties tell apart; their theorems cover any.

`index_run`: five files in batches of two make three batches, of which the
checkpoint commit falls after two, so a death finds parsed and uncommitted
files. A shallow depth of 0 leaves levels for the deepens to show, and a run
without anchors (`Unlimited`) precedes or follows one with them. The deepens
are interchangeable (symmetry). Two builds are one cut off and one resumed.

## Fairness

`GraphSession`: `FairSpec` assumes `WF(Tick(c))` - a call in progress goes on; `SF(LoadMeta(c))` -
the driver keeps ticking (`run_until_done` loops; the flow instruction tells the
LLM to tick until END), strong because explicit `invoke-llm` calls may keep
coming in between; `WF(FinishInvokeLlm(c))` - an LLM call returns or times out;
`WF(SupplyEvidence(n))` - somebody told what is missing supplies it, which is
the contract of a `blocked` answer. It assumes nothing about which edge a node
takes. Liveness is checked without crashes: a crashed process that is never
restarted makes no progress, and the findings show what a restart can do.

`Orchestrator`: `WF(Next)` - `invoke` runs node after node in one thread, and
each node returns or raises.

`ValidationLedger`: `WF(Step(r))` for each run - a run that has not died runs
its nodes; nothing is assumed about `Resume`, so a run may stay down.

`AxiFabric`: `WF(Clock)` - the clock runs. Nothing is assumed about the
masters' callers; answers are owed whatever they do.

`VerifyGroup`, `YamlStore`, `TrustRegistry` and `HierarchyIndex` state only
safety properties and assume no fairness: that a group's run ends is a matter
of its counter, and the others are sequences of calls that may stop anywhere.

## Proofs

Every safety property of the passing runs - every invariant and every action
property - is a theorem, for all values of the constants its assumptions admit;
so is the refinement of `AtomicFile`. A
module's type invariant is a theorem or a conjunct of one. Where a theorem has
hypotheses beyond the modules' own assumptions (`OneClient`,
`OneDefinition`, ...), its section says why it needs them. Before an inductive
invariant was proved TLC checked it on the instance of the component's run.

### GraphSession

`GraphSession_proofs` proves for every graph, every set of nodes and evidence
pattern, and every number of crashes:

* `TypeCorrect`: `Spec => []TypeOK`, any number of clients. The inductive
  invariant adds `PendKnown` - past the snapshot `pend[c]` is a node.
* `LapsesBounded`: `Spec => []LapsesBoundedByCrashes`, for one client
  (`OneClient`) and a setup node that always leaves its evidence
  (`SetupIsSound`). Both assumptions are needed: see above for two clients; and
  the first tick of a session ignores the result of setup's gate
  (`graph_session.py:399`), so an unsound setup node is run past for free.

`LapsesBoundedByCrashes` is not inductive: a state in which a gate is owed and
nobody knows it satisfies it and breaks it in the next `RunNode`. The
strengthening `CreditInv` counts such a state as already spent:
`lapses + (IF Covered THEN 0 ELSE 1) <= crashes`, where `Covered` means that no
gate is owed, or the record names the owed node as its recovery node, or a call
that ran it has not returned. Each action either keeps a gate covered
(`EnteringKeepsRecovery`, `AskingKeepsRecovery`, `RollbackIsRecorded`,
`BlockedKeepsCredit`), pays it (`CommitBoth`, `RecoveryCleared`), or is a crash,
which raises the right-hand side. `RecordInStep`, `NothingToRecover`,
`SnapshotInStep` and `SetupPasses` say what a client in the middle of a call
may rely on.

* `IllegalNeedsCrash`: `Spec => []IllegalOnlyAfterCrash`, under the same two
  assumptions. A tick is refused when the pending node does not follow the node
  the record names; so the strengthening `PathInv` says where record and
  checkpoint stand to each other: a call works on the record that is on disk
  (`CopyInStep`), the checkpoint has moved on from the node a call has run,
  rolled back or not (`InFlight`), and the pending node follows the recovery
  node, if there is one, or else the last node (`FollowsRecovery`,
  `FollowsLast`). Only a death between the checkpoint and the record breaks
  `FollowsLast`, and it raises `crashes`.
* `FinishedIsPaid`: `Spec => []FinishedWithinCrashes`, with the further
  assumption `LastNodesAreSound` - a node that may lead to END leaves the
  evidence its exit gate asks for, as `finalize` does. It is needed: the exit
  gate of a last node is only looked at once the checkpoint stands at END, and a
  rolled back last node is rolled forward to END by the next tick, which records
  the session as finished with the gate still owed. `EndInv` says that, given
  the assumption, no last node is rolled back or owed as recovery and that
  nothing moves in a finished session.
* `LlmIsCalledFirst`: `Spec => LlmCalledBeforeRun`, for one client that always
  sets `auto_invoke_llm` (with the flag off the code enters an LLM node without
  a call, by intent). `AskInv` carries what the tick learned at its snapshot to
  the invoke: the pending node *and the runner*, on which the need for an LLM
  depends, are still those of the snapshot, and the call's copy of the record
  names the node as asked.
* `OwnEvidenceThroughCrashes`: `Spec => CompletesOnOwnEvidence`, for one client,
  any number of deaths, and a graph in which no node that may fail to leave its
  evidence is visited twice before `graph_step.json` is rewritten, by itself or
  on the way (`RevisitsRewrite`); `node_gate.py:293` outdates artifacts by
  nothing else. The graph of `session_crash` satisfies it: evaluate is no such
  writer, and every way back to it leads over run_gate. The invariant
  `PassedInv` keeps, for each artifact that counts, the fact that the pending
  node lies on the way from its node without a rewrite (`OnWayFrom`), which that
  node itself does not; a rollback, which routes on from the node just run, and
  a recovery, which pays a gate late, stay on that way by `PathInv`. Only a
  process that dies in the middle of a node may leave an artifact without its
  evidence, and then the node is still pending and rewrites when it is run.
* `OwnEvidenceAmongClients`: the same property for any number of clients that
  overtake each other, without deaths, where every node that may miss its
  evidence rewrites `graph_step.json` itself (`FragileRewrite`), as in
  `session_shared`. With several clients a rollback or a second start moves the
  checkpoint under a call in progress, so nothing is known of the way the graph
  takes; what remains is that every artifact that counts is backed.

### VerifyGroup

Every safety property `group_run` checks is a theorem, for all values of the
constants that `VerifyGroupAssumption` and `LoopGuardAssumption` admit (natural
caps and thresholds, at least one step, periods and threshold at least 1), any
number of overriding plans and any length of a run.

* `TypeCorrect`: the invariant `TypeInv` replaces the bound `MaxSteps` of the
  counters, which is not inductive, by the steps taken so far: no step raises a
  counter by more than one. The lemmas about `LoopGuard` show that whatever is recorded
  keeps the guard's histories within the windows their detectors read.
* `MirrorHolds` (`StateMirrorsGuard`) is inductive by itself. The step that
  needs an argument is the forced `select_runner`: it writes `force_mode`
  without reading the guard back, which is right only because recording a
  transition never lifts a stalemate (`TransitionKeepsStalemate`).
* `StalemateForces` (`StalemateForcesLlm`): run_gate is entered from
  `select_runner` alone (`OnlySelectEntersGate`), so the runner chosen there is
  the one that attempts.
* `PassIsFresh` (`LlmPassIsFresh`), action by action.
* `PromotionIsEarned` (`PromotionEarned`) and `GapStops` (`InfoGapHardStop`)
  rest on `EarnedInv`: a parity report says ok only from parity_check on and
  only beside a PASS, which no later node takes back; what `evaluate` allowed
  still holds at promote, because nothing between them counts events or moves
  trust; and no information gap stands beside a PASS.
* `RepairsAreBounded` (`RepairsBounded`). The bounds alone are not inductive.
  `RepairInv` charges each environment failure that no stop report waved through
  (`EnvFailures`) either to a bridge round or to an overriding route, with one
  failure outstanding while it is being repaired
  (`Waiting`), and says when a round is bound to follow (`Owed`): at
  patch_bridge, and at diagnose_env with an information gap, which only a plan
  or the user can lead to.
* `PassMeansParity` (`PassEndsWithParity`): with no route chosen by a plan or the
  user, nothing after a failed gate makes a PASS of it, but the stop report that
  says PASS itself, whose kind of failure stays in the state; and a PASS of an
  attempt that reaches evaluate has just emptied the
  guard, so one drift score cannot report the stalemate that would lead around
  parity (`FirstDriftNoStalemate`) - the
  same fact that hides NO_DRIFT, see [Findings](#findings).

### YamlStore

For any set of processes and inodes and any number of deaths:

* `StoreTypeCorrect`: `Spec => []TypeOK`, which includes that no process holds a
  torn document. The inductive invariant `Inv` says what the locks give: a
  process in the middle of a save holds the exclusive lock and nobody else any;
  a reader holds a shared one; the file named by `path` is whole, and is not the
  one named by `tmp`.
* `StoreLosesOnlyLaterWrites` (`SaveLosesOnlyLaterWrites`): between a load and
  the save that follows, the document in the file grows out of the copy only by
  what `since` records.
* `StoreImplementsAtomicFile` (`ImplementsAtomicFile`): the refinement. The
  last read of a load maps to `Load`, the rename to `Save`, a death in the
  middle to `Drop` or to nothing, and every other system call to a stutter.

### TrustRegistry

For any number of processes, scripts, thresholds, releases and deaths, without
further hypotheses. One invariant is inductive, `SharedInv == TypeOK /\
CopyStanding /\ SeenIsTag /\ RejectedStaysOut /\ PromotionsOwed`: a copy in
flight gives every script the standing it has in the file, but for the scripts
its process `missed` (`CopyStanding`), and the tag a process has seen is the
file's unless it was overtaken (`SeenIsTag`).

* `RegistryTypeCorrect` (`TypeOK`).
* `RejectionsHold` (`RejectedStaysOut`): a save changes the standing of the
  script it decides about, and of others only where its copy was outdated; those
  are tainted by that very save (`SaveWithoutTaint`).
* `StalePromotionsBounded` (`StalePromotionsNeedCrashes`). The processes that
  are on their way to the registry are too many to count inductively: one that
  loaded a registry in which the script was not promoted will not demote it.
  `PromotionsOwed` counts only those that owe a demotion (`Owing`), and a
  death turns one of them into a crash.
* `TouchesKeepTag` (`TouchKeepsTag`), from `SeenIsTag`.

### Orchestrator

For any projects, groups, refreshes and limit. One inductive invariant, `IInv`,
carries all five theorems: the queue is ordered and free of repetitions
(`Ordered`), the index stands where the node says (`AtItem`, `ContextIsCurrent`),
the number of nodes run is bounded by the position in the queue (`StepBound`),
every trace comes from the queue and every item behind left one (`FromQueue`,
`Half`), and the verdict so far is the last group's (`VerdictSoFar`).

* `DispatchTypeCorrect` (`TypeOK`, `ContextIsCurrent`), `QueueAccounted`
  (`Accounted`), `ReportsLastGroup` (`VerdictOfLastGroup`), `OrderAndFilterHold`
  (`RefreshedBeforeVerified`, `ExcludedIsSkipped`), `QueuesFitTheLimit`
  (`ShortQueuesFit`).

### ValidationLedger

For any runs, groups, items, answers, number of rounds and deaths
(`LedgerAssumption`).

* `LedgerTypeCorrect` (`TypeOK`), for which `ConsensusType` and `ElectedType`
  show that the vote returns one of the sequences it was given.
* `NothingWaved` (`NothingIsWaved`): a risky answer always goes to the vote, and
  what is applied after a vote is no longer the LLM's own.
* `ExclusionsHold` (`ExclusionsStay`), save by save.
* `FinishedThrough` (`FinishedRunsAreThrough`). Inductive is `Books`: while no
  save raced, every entry is of the group of the run that asked (`OwnGroup`), an
  item asked for is tried, excluded or still waiting (`Remembered`), a run that
  works its entries off holds all of them in its copy (`CopyHolds`), and one that
  is through has none (`NothingLeft`). A death forgets the copy and what was
  executed, but `ran` only grows and the entries leave the file in the save
  alone, so the resumed run finds them again.

### AxiFabric

For one to eight slots of either master, any depth and latency of the slave, any
burst length and any mix of tasks that keeps bursts and locked reads off master
1 (`FabricAssumption`). One inductive invariant, `Inv`, carries five theorems;
its parts hold each other up, so they are proved together, edge by edge:

* `Shape` says what each phase of a task implies for its master's slots - a
  burst or a locked read runs alone - and `Registers` that the registers keep
  their ranges and the slave's counters are the numbers of its valid entries.
* `ReadInv`: the valid entries of the slave's read queue and the reads its
  masters wait for after acceptance (`Accepted`) correspond one to one, with the
  beats the read has left; what is presented is such an entry; and between two
  beats of a burst nothing is presented, since the master's RREADY is still up
  from the last beat.
* `WriteInv`: the master whose address the slave holds is `wMaster`, is the only
  one that sends data, and has no more beats left than the slave counts.
* `RespInv`: queued and presented responses and the writes whose data is in
  (`Answering`) correspond one to one. The write burst makes it delicate: its
  task sees BVALID at one edge and takes the response at the next, so BREADY
  has to be low until it looks and high while it takes.
* `LockInv`: `locked` holds exactly the masters between the acceptance and the
  beat of a locked read.

`NoResponseIsOrphan` (`NoOrphans`), `NoReadIsLost` (`ReadsAreBacked`),
`CountsAlwaysKept` (`CountsAreKept`), `WritesNeverMix` (`WritesStayTogether`),
`LockAlwaysHolds` (`LockIsExclusive`). The masters' edge is split by task
(`ReadTaskMoves`, ... `MasterMoves`), the slave's queues by what enters and
leaves at the edge (`ReadQueueStep`, `RespQueueStep`), so that one entry added
and one removed together keep the correspondence and the count (`CountMoves`).

### HierarchyIndex

For any files, names, edges, anchors, depth policies, batch and commit size, and
any number of builds, deepens, deaths and lock-outs (`DesignAssumption`,
`BoundsAssumption`; the files are finitely many).

* `IndexTypeCorrect` (`TypeOK`). The flattening is by recursion over the paths
  of the design, and that such a function exists needs induction. The library's
  induction rules take an operator, which the installed provers cannot
  instantiate; `SetInduction` is induction over the naturals in the form of a
  set, from the well-foundedness the library states for sets, and `Iterates`
  and `RecursionHolds` give from it the functions `Paths` and the deepens'
  closure are defined by.
* `EmptyTreeAlwaysExcused` (`EmptyTreeIsExcused`), for every design. `RunOK` and
  `JobOK` say at each place of a builder or a deepen what its memory knows of
  the tables: that the open transaction of a batch only adds names, leaves the
  flag alone and may take instances away, never bring one back (`LockOK`); that
  whoever has done so is at a place it leaves only with a tree stored or as an
  abandoned run (`Away`); that the tables hold every name the process parsed; that
  the file of the top is checkpointed or still pending, so that a tree flattened
  from what was loaded has a root; and that from its last transaction on the
  tree is there.
* `CheckpointAlwaysBacked` (`CheckpointIsBacked`). The invariant `Faithful` says
  that a row, in tables or in memory, has its file's edges if the file is in
  the checkpoint or was parsed in full. It assumes `OneDefinition` (no two files
  define one name), and needs it: a batch that parses two definitions of a
  module in full writes an alias row without edges for the second file and
  checkpoints it. TLC shows the violation on the instance of `index_forget`
  with one batch that holds both files; in batches of two, as there, the rows of
  different batches do not meet and the damage is the one `index_forget` shows.
* `BuildAlwaysAsFresh` (`BuildIsAsFresh`), `DeepenAlwaysGrows`
  (`DeepenOnlyGrows`) and `DeepenAlwaysReaches` (`DeepenReachesNextLevel`), all
  under `OneDefinition`, since the first two compare what two flattenings
  compute and a forgotten edge cuts one of them off. Three lemmas carry the
  comparison: `Paths` are the chains of children from the top (`PathsAreChains`);
  the levels left below a path do not shrink when prefixes are added, by
  induction over the length of the path (`HopsGrow`); and what is flattened from
  modules with all their children, `Named`, grows with modules and prefixes
  (`NamedGrows`). The invariant `TreeInv` then says that an undisturbed tree is
  within what the modules, the depth and the prefixes beside it would give
  (`TableTree`), that the builder has done every file it wants or has it in a
  batch to come (`RunTree`), and what a deepen knows at each place (`JobTree`):
  while nobody overlaps it, that its modules are those of the tables, that its
  prefixes hold the stored ones and its own branch (`OnBranch`), and, once it
  has parsed, every module of that branch. `BranchIsParsed` is that
  `collect_deepen_sources` finds the file of each of them.

### Only model-checked

Liveness (`PendingNodeRuns`, `EveryQueueEnds`, `PendingIsWorkedOff`,
`OnlyNewerOvertake`, `CallsReturn`): fairness and ENABLED are outside the
proof system. Outside the theorems' hypotheses the safety properties stay with
TLC too: an index with two definitions of one name (`index_forget`), and the
cases the sections above name.

## Findings

Two findings have a run that shows them and quote what the code contradicts.

1. *Parity can compare the LLM's verdict with itself* (`group_parity`;
   `runner.py:57`). A script that exits without writing its verdict file is
   answered for by the file that is there, in parity_check the very verdict the
   reference was copied from. Parity is then ok whatever the script found.
   `graphs/verify_group.py:1128`: "compare llm_reference vs Python ops -
   mandatory before promote".
2. *A resumed build forgets edges of a module with two definitions*
   (`index_forget`; `src/hc_hierarchy/src/hch/index/store.py:244`).
   Of the rows of a module that two files define, `load_all_modules` keeps the
   one written last: after a batch with the one file and a later batch with the
   other, a resumed build has only the children the second one gives.
   `src/hc_hierarchy/docs/PROGRESS.md:76`: "Module instance edges
   persisted for resume + flatten".

Met while modelling. The models behave as described here; the properties are
stated around it, and no run claims the opposite:

*Sessions.*
* A crash between the checkpoint and the record (`graph_session.py:556`;
  `save_meta` follows 77 lines after `graph.invoke`) leaves the record one node
  behind. The next tick finds no edge from it to the pending node and answers
  `illegal_transition`, as does every later one; hence
  `IllegalOnlyAfterCrash`. `graph_checkpointer.py:1` promises "survives CLI
  restart for graph resume".
* A stepwise orchestrator session stops at `advance_work`
  (`graphs/orchestrator.py:337`): the node writes no trace line and has no gate
  block, so its gate is the default `trace_contains`, which nothing can satisfy.
* The gate of the last node can be skipped (`graph_session.py:408`): its failed
  exit gate rolls forward to END, and the tick that finds no pending node
  finishes the session before it looks at `gate_recovery_node`. Hence the graph
  of `session_crash` ends in a node that leaves its evidence.
* The first tick ignores the result of setup's gate (`graph_session.py:399`).

*verify_group.*
* A stop report's PASS is taken unchecked (`verify_group.py:566`), although the
  attempt is recorded as a failure. In a stalemate evaluate then finalizes
  (`node_triage.py:233`), and the run ends PASS without parity, which the
  orchestrator takes for the group's result; `registry/policies.yaml:34` says of
  a stalemate `do_not: auto_pass`. An environment failure reported so goes back
  to `select_runner` without a bridge round and is not held by its cap. Outside a stalemate such a PASS can reach parity_check without a verdict
  file, which raises (`ParityRaises`).
* A filed verdict silences the sub-agent (`llm_runner.py:330`):
  `invoke_sub_agent` returns `verdict_exists` whenever a verdict file is there,
  and a failed attempt leaves it there. Nothing passes on the old file
  (`LlmPassIsFresh`), but no repair is asked for either.
* `stalemate_pattern` is no key of `VerifyGroupState` (`graphs/state.py:9`), so
  an oscillation is handled as spinning, whatever `node_triage_spec.yaml:30`
  and `tests/test_graph_routing.py:182` say.
* NO_DRIFT is never reported (`loop_guard.py:185`): the PASS that leads to
  evaluate clears the drift history, evaluate adds one score, the pattern needs
  three.

*Shared files.*
* Load, change and save of the registry are not under one lock
  (`models.py:42`): of two concurrent updates one is lost. So a
  write-back revives a rejected promotion (`trust_eval.py:96`), a touch reverts
  a tag replaced since it loaded the cache (`tag_watch.py:84`), and a script is
  promoted on evidence of a tag that was replaced meanwhile
  (`registry_writer.py:40` calls itself "the only writer").
* A touch of a cache without a tag makes it "unknown" (`tag_cache.py:39`), where
  its comment says the tag is not changed (`tag_cache.py:34`).
* A refused promotion leaves a record without `tied_to_tag`
  (`registry_writer.py:49`); once promoted, no tag change demotes it.
* A touch takes the path of a replacement (`tag_cache.py:49`) and demotes what
  was promoted under the unchanged tag.

*Orchestrator.*
* An information gap of one item does not stop the queue: `route_after_prepare`
  sends it to advance_work, and a later item's verdict replaces INFO_GAP. A
  report says PASS over gaps and failures before the last group, since the
  verdict is the last group's (`graphs/orchestrator.py:416`).
* A gate that blocks one group ends the whole headless run
  (`graphs/verify_group.py:1833`): no report, and the items after it are not
  tried.
* `finalize` returns the whole summary into channels that add what a node
  returns, so the log and the results in the final state are doubled; the
  report is not.

*Validation.*
* `validation_autonomy_spec.yaml:64` allows `continue_remaining` and
  `partial_accept` to the LLM alone, and the router asks for `source=llm`; but
  any such judgment needs a consensus, which votes two to one against it and
  becomes the source: it is never possible (`NothingIsWaved`). Of the "3-vote
  majority" two votes are fixed.
* A judgment that excludes an item without an id excludes its whole group
  (`validation_autonomy.py:579`).

*AXI.* `bus_read_incr`, `bus_write_incr` and `bus_read_locked` drive ID 0
whatever `ID_BASE` is (`verif_axi_full_master.v:634`): called on master 1 their
responses would go to master 0.

*Hierarchy index* (files in `src/hc_hierarchy/src/hch/`).
* Modules parsed again get new ids (`store.py:181`, `INSERT OR REPLACE`; no
  foreign keys are switched on), and the readers' joins lose their instances
  from the commit of the batch until `load_instances`. A process that dies in
  between leaves them lost, beside `indexing_complete = 1`: only `--force`
  clears that flag before it parses.
  The desktop GUI's own tree, which does not join, shows "?" for them, and the
  `COUNT(*)` of the instance table still includes them.
* Two deepens at a time: prefixes and settings are read before the transaction
  that stores them (`deepen.py:142`), so the later one stores its prefixes
  without the earlier one's and flattens from modules loaded before.
* `clear_instances` commits by itself: a reader between it and
  `load_instances`, or anyone after a death there, sees an empty tree beside
  `indexing_complete = 1`. `--force` commits erased tables before it clears
  that flag (`batched_loader.py:84`).
* A build without anchors leaves the `depth_anchor_*` settings of an earlier
  one, so a deepen flattens by the old policy. These and the next are why the
  deepen properties speak of undisturbed trees.
* Deepened prefixes are honoured only beside anchors, not with `--max-depth`
  alone; a deepen of a full subtree stops at the first module the index does not
  know, although its children would be found when that file is parsed
  (`collect_deepen_sources`).
* `elaborate_flat` limits the children of an anchor to the shallow depth
  although classification parses them in full; anchors given as module
  patterns are flattened with the shallow depth only, since
  `descendant_hops_for_node` asks without the module's name.
* A skimmed file named by the checkpoint is never parsed in full by a resumed
  run.

## What is not modelled

`PROJECT.json` lists every component with its reason.

* In soc-verify-agent: the evaluation of single gate checks and the text of
  guides (data), the LLM transports (I/O), the sandbox of a node (a path filter
  without protocol state), `session_status` and `session_sandbox` (read only),
  which sources are due and what an acquisition collects, setup_group and
  meta_innovation (linear graphs whose handlers write documents; as sessions
  they are instances of `GraphSession`), the meta proposal queue and telemetry
  (files written once), document generation, the setup wizard and the CLI.
* hierwalk: `path_walk_db.py:38` imports `find_instance_by_child_module` from
  `hierwalk.inst_scan`, which does not define it, so its path walk and its path
  walk database - the part with state - cannot be imported at this commit;
  there is no behaviour to be faithful to. The rest scans text.
* hc_hierarchy beyond the index: parsing, DQL, elaboration, pages, exports.
* VerifCPU beyond the fabric: firmware, UVM classes, campaign generation; its
  other AXI and AHB models repeat the same handshakes for one master.
* socverif-harness, i3c-simulator, verifclaw, parsers, converters, bots,
  scripts, generated data and assets: single-process text conversion or data.

The models cover the parts with protocol state, which is a small share of the
repository's lines; the bulk of the rest is text processing, about which a
state machine says nothing.

## Plan

Done: `GraphSession`, `LoopGuard`, `VerifyGroup`, `AtomicFile` and `YamlStore`,
`TrustRegistry`, `Orchestrator`, `ValidationLedger`, `AxiFabric`,
`HierarchyIndex`. Left, in this order:

1. That a headless run of `VerifyGroup` refines the session's view of its graph
   (every iteration is a step along the flow specification).
2. VerifCPU's barrier and unified memory pool.
3. `BuildIsAsFresh` and the deepens with two definitions of one name, for the
   orders of batches in which no edge is forgotten.
