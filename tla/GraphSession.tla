---------------------------- MODULE GraphSession ----------------------------
(***************************************************************************)
(* The graph session of soc-verify-agent: graph_session.py drives one      *)
(* LangGraph thread a node at a time.  Every tick loads the session record *)
(* (runs/graph_sessions/<id>.yaml), reads the thread's checkpoint, checks  *)
(* the gate of the node completed before, lets LangGraph run exactly one   *)
(* node, checks that node's own exit gate and saves the record.            *)
(*                                                                         *)
(* The record, the checkpoint and the gate artifacts are three separate    *)
(* stores, written at different moments of a tick.  A tick is therefore    *)
(* several actions here, one per store access, so that a crash of the      *)
(* process or a tick of a second process falls between them.               *)
(*                                                                         *)
(* LangGraph itself is a library and is modelled from its use: invoke runs *)
(* the pending node and commits a checkpoint, and update_state(as_node=n)  *)
(* commits one whose pending node is a successor of n.                     *)
(***************************************************************************)
EXTENDS Naturals, FiniteSets

CONSTANTS
  Nodes,        \* the nodes of the compiled graph
  Setup,        \* its entry node
  END,          \* LangGraph's END
  None,         \* no node ("" in the session record)
  GraphEdge,    \* the edges of the compiled StateGraph
  FlowEdge,     \* the edges registry/graph_flow_spec.yaml allows
  LlmNodes,     \* nodes whose actor is llm, llm_assisted or llm_executor
  RunnerNodes,  \* nodes whose actor is llm_when_runner_llm
  RunnerChoice, \* the node that decides the runner, or None
  StepWriters,  \* nodes that rewrite graph_step.json when they run
  Missing,      \* [Nodes -> SUBSET SUBSET Checks]: what a run of the node may fail to leave
  SelfTraced,   \* nodes whose gate asks only for the trace line they write themselves
  AutoModes,    \* values of auto_invoke_llm the clients use
  Clients,      \* processes that call the session API (CLI, HTTP server)
  MaxCrashes    \* bound: how many times a process dies inside a call

(***************************************************************************)
(* The families of gate checks.  "exit": the platform checks and the       *)
(* node contract's requires_exit.  "extra": checks of the user's           *)
(* node_gates.yaml and of the LLM's declaration.  "child": the evidence of *)
(* the child graph of the node.                                            *)
(***************************************************************************)
Checks == {"exit", "extra", "child"}

Reasons == {"node_gate", "child_evidence", "illegal_transition"}

PCs == {"idle", "loaded", "started", "snapped", "cleared", "asked", "ready",
        "ran", "passed", "rolled", "inviting"}

Succ(n) == {x \in Nodes \cup {END} : <<n, x>> \in GraphEdge}

ASSUME GraphAssumption ==
  /\ Setup \in Nodes
  /\ END \notin Nodes
  /\ None \notin Nodes \cup {END}
  /\ GraphEdge \subseteq Nodes \X (Nodes \cup {END})
  /\ \A n \in Nodes : Succ(n) # {}

(***************************************************************************)
(* graph_flow_spec.yaml declares itself in step with the Python routing,   *)
(* and resolve_route drops a triage route that is not one of its edges.    *)
(***************************************************************************)
ASSUME FlowAssumption ==
  \A n, x \in Nodes : <<n, x>> \in GraphEdge => <<n, x>> \in FlowEdge

ASSUME ParameterAssumption ==
  /\ LlmNodes \subseteq Nodes
  /\ RunnerNodes \subseteq Nodes
  /\ StepWriters \subseteq Nodes
  /\ Missing \in [Nodes -> SUBSET SUBSET Checks]
  /\ \A n \in Nodes : Missing[n] # {}
  /\ SelfTraced \subseteq Nodes
  /\ AutoModes \subseteq BOOLEAN
  /\ MaxCrashes \in Nat

VARIABLES
  meta,     \* the session record on disk
  next,     \* the checkpoint: the pending node, END, or None before the first invoke
  runner,   \* the checkpoint's runner field
  ev,       \* [Nodes -> SUBSET Checks]: the gate evidence that holds on disk
  passed,   \* nodes with a pass artifact newer than graph_step.json
  pc,       \* where each client is in its call
  m,        \* each client's in-memory copy of the record
  pend,     \* the pending node each client read from the checkpoint
  pre,      \* the pending node and runner of the snapshot taken before the invoke
  after,    \* the pending node and runner of the snapshot taken after the invoke
  auto,     \* the auto_invoke_llm argument of each client's call
  owed,     \* history: the node run last, until its exit gate passes; else None
  lapses,   \* history: how often a node ran while a gate was owed
  ran,      \* history: the nodes that have run
  crashes   \* history: processes that died inside a call

stores  == <<meta, next, runner, ev, passed>>
locals  == <<pc, m, pend, pre, after, auto>>
history == <<owed, lapses, ran, crashes>>
vars    == <<stores, locals, history>>

MetaType ==
  [started : BOOLEAN, finished : BOOLEAN, last : Nodes \cup {None},
   waiting : {"", "llm", "node_gate"}, recovery : Nodes \cup {None},
   llmInvoked : SUBSET Nodes, blocks : SUBSET Reasons]

NewSession ==
  [started |-> FALSE, finished |-> FALSE, last |-> None, waiting |-> "",
   recovery |-> None, llmInvoked |-> {}, blocks |-> {}]

NoSnapshot == [node |-> None, runner |-> "python"]

NeedsLlm(n, r) == n \in LlmNodes \/ (n \in RunnerNodes /\ r = "llm")

ExitGateOk(n) == n \in passed \/ {"exit", "extra"} \subseteq ev[n]

\* At entry the contract's requires_exit is left out of the merged checks.
EntryGateOk(n) == n \in passed \/ "extra" \in ev[n]

ChildOk(n) == "child" \in ev[n]

LegalTransition(from, to) ==
  from = None \/ from = to \/ <<from, to>> \in FlowEdge

Goto(c, label) == pc' = [pc EXCEPT ![c] = label]

Save(rec) == meta' = rec

(***************************************************************************)
(* The client saves rec and goes on with it.                               *)
(***************************************************************************)
Commit(c, rec) ==
  /\ Save(rec)
  /\ m' = [m EXCEPT ![c] = rec]

(***************************************************************************)
(* _blocked_response: the reason is recorded, the record saved, the call   *)
(* returns.  The list of blocks is kept as the set of reasons recorded.    *)
(***************************************************************************)
Blocked(c, rec, reason) ==
  /\ Commit(c, [rec EXCEPT !.blocks = @ \cup {reason}])
  /\ Goto(c, "idle")

PayGate(n) ==
  /\ passed' = passed \cup {n}
  /\ owed' = IF owed = n THEN None ELSE owed

(***************************************************************************)
(* Variants named ...Variant are what a plausible slip in the code would   *)
(* do; they stand before the definition they vary and nothing uses them.   *)
(***************************************************************************)
\* pass artifacts older than graph_step.json still count
ExecuteVariant(n) ==
  /\ next' \in Succ(n)
  /\ runner' \in IF n = RunnerChoice THEN {"python", "llm"} ELSE {runner}
  /\ \E missing \in Missing[n] : ev' = [ev EXCEPT ![n] = Checks \ missing]
  /\ UNCHANGED passed
  /\ owed' = n
  /\ ran' = ran \cup {n}

(***************************************************************************)
(* LangGraph runs node n and commits the checkpoint: the pending node is   *)
(* a successor of n, the node leaves part of its evidence on disk, and     *)
(* pass artifacts older than a rewritten graph_step.json stop counting.    *)
(***************************************************************************)
Execute(n) ==
  /\ next' \in Succ(n)
  /\ runner' \in IF n = RunnerChoice THEN {"python", "llm"} ELSE {runner}
  /\ \E missing \in Missing[n] : ev' = [ev EXCEPT ![n] = Checks \ missing]
  /\ passed' = IF n \in StepWriters THEN {} ELSE passed
  /\ owed' = n
  /\ ran' = ran \cup {n}

-----------------------------------------------------------------------------
Init ==
  /\ meta = NewSession
  /\ next = None
  /\ runner = "python"
  /\ ev = [n \in Nodes |-> {"extra"} \ UNION Missing[n]]
  /\ passed = {}
  /\ pc = [c \in Clients |-> "idle"]
  /\ m = [c \in Clients |-> NewSession]
  /\ pend = [c \in Clients |-> None]
  /\ pre = [c \in Clients |-> NoSnapshot]
  /\ after = [c \in Clients |-> NoSnapshot]
  /\ auto = [c \in Clients |-> TRUE]
  /\ owed = None
  /\ lapses = 0
  /\ ran = {}
  /\ crashes = 0

\* session_tick: load_meta
LoadMeta(c) ==
  /\ pc[c] = "idle"
  /\ m' = [m EXCEPT ![c] = meta]
  /\ \E a \in AutoModes : auto' = [auto EXCEPT ![c] = a]
  /\ Goto(c, "loaded")
  /\ UNCHANGED <<stores, pend, pre, after, history>>

\* session_tick: the first invoke of a session runs the setup node
StartGraph(c) ==
  /\ pc[c] = "loaded"
  /\ ~m[c].started
  /\ Execute(Setup)
  /\ Goto(c, "started")
  /\ UNCHANGED <<meta, m, pend, pre, after, auto, lapses, crashes>>

\* session_tick: setup's gate decides last_completed, the tick is ok either way
SaveStart(c) ==
  /\ pc[c] = "started"
  /\ IF next \in Nodes /\ ExitGateOk(Setup)
       THEN /\ PayGate(Setup)
            /\ Commit(c, [m[c] EXCEPT !.started = TRUE, !.last = Setup])
       ELSE /\ Commit(c, [m[c] EXCEPT !.started = TRUE])
            /\ UNCHANGED <<passed, owed>>
  /\ Goto(c, "idle")
  /\ UNCHANGED <<next, runner, ev, pend, pre, after, auto, lapses, ran, crashes>>

\* session_tick: get_state finds no pending node
FinishSession(c) ==
  /\ pc[c] = "loaded"
  /\ m[c].started
  /\ next = END
  /\ Commit(c, [m[c] EXCEPT !.finished = TRUE])
  /\ Goto(c, "idle")
  /\ UNCHANGED <<next, runner, ev, passed, pend, pre, after, auto, history>>

\* session_tick: get_state finds a pending node
TakeSnapshot(c) ==
  /\ pc[c] = "loaded"
  /\ m[c].started
  /\ next \in Nodes
  /\ pend' = [pend EXCEPT ![c] = next]
  /\ pre' = [pre EXCEPT ![c] = [node |-> next, runner |-> runner]]
  /\ Goto(c, "snapped")
  /\ UNCHANGED <<stores, m, after, auto, history>>

\* the recovery node is not cleared once its gate has passed
RecoverGateVariant(c) ==
  /\ pc[c] = "snapped"
  /\ m[c].recovery # None
  /\ IF ExitGateOk(m[c].recovery)
       THEN /\ PayGate(m[c].recovery)
            /\ Commit(c, [m[c] EXCEPT !.last = m[c].recovery])
            /\ UNCHANGED pc
       ELSE /\ Blocked(c, m[c], "node_gate")
            /\ UNCHANGED <<passed, owed>>
  /\ UNCHANGED <<next, runner, ev, pend, pre, after, auto, lapses, ran, crashes>>

\* session_tick: a node whose exit gate failed must pass it now
RecoverGate(c) ==
  /\ pc[c] = "snapped"
  /\ m[c].recovery # None
  /\ IF ExitGateOk(m[c].recovery)
       THEN /\ PayGate(m[c].recovery)
            /\ Commit(c, [m[c] EXCEPT !.recovery = None, !.last = m[c].recovery])
            /\ UNCHANGED pc
       ELSE /\ Blocked(c, m[c], "node_gate")
            /\ UNCHANGED <<passed, owed>>
  /\ UNCHANGED <<next, runner, ev, pend, pre, after, auto, lapses, ran, crashes>>

\* session_tick: the gate, the child evidence and the edge of the last node
BlockedBy(c) ==
  LET last == m[c].last
  IN  IF last = None THEN None
      ELSE IF ~ExitGateOk(last) THEN "node_gate"
      ELSE IF ~ChildOk(last) THEN "child_evidence"
      ELSE IF ~LegalTransition(last, pend[c]) THEN "illegal_transition"
      ELSE None

CheckLast(c) ==
  /\ pc[c] = "snapped"
  /\ m[c].recovery = None
  /\ IF BlockedBy(c) = None
       THEN Goto(c, "cleared") /\ UNCHANGED <<meta, m>>
       ELSE Blocked(c, m[c], BlockedBy(c))
  /\ UNCHANGED <<next, runner, ev, passed, pend, pre, after, auto, history>>

AsksLlm(c) ==
  /\ NeedsLlm(pend[c], pre[c].runner)
  /\ pend[c] \notin m[c].llmInvoked

\* session_tick: the graph calls the LLM for the pending node, once per session
InvokeLlm(c) ==
  /\ pc[c] = "cleared"
  /\ AsksLlm(c)
  /\ auto[c]
  /\ Commit(c, [m[c] EXCEPT !.llmInvoked = @ \cup {pend[c]}, !.waiting = "llm"])
  /\ Goto(c, "asked")
  /\ UNCHANGED <<next, runner, ev, passed, pend, pre, after, auto, owed, lapses, ran, crashes>>

\* session_tick: the entry gate right after the LLM call; "waiting" if it fails
EnterAfterAsking(c) ==
  /\ pc[c] = "asked"
  /\ IF EntryGateOk(pend[c])
       THEN /\ Goto(c, "ready")
            /\ m' = [m EXCEPT ![c].waiting = ""]
       ELSE Goto(c, "idle") /\ UNCHANGED m
  /\ UNCHANGED <<stores, pend, pre, after, auto, history>>

\* session_tick: the LLM was called in an earlier tick
EnterLlmNode(c) ==
  /\ pc[c] = "cleared"
  /\ NeedsLlm(pend[c], pre[c].runner)
  /\ pend[c] \in m[c].llmInvoked
  /\ IF EntryGateOk(pend[c])
       THEN /\ Goto(c, "ready")
            /\ m' = [m EXCEPT ![c].waiting = ""]
            /\ UNCHANGED meta
       ELSE Blocked(c, [m[c] EXCEPT !.waiting = "node_gate"], "node_gate")
  /\ UNCHANGED <<next, runner, ev, passed, pend, pre, after, auto, history>>

\* the actor of the pending node is not looked at
EnterDirectlyVariant(c) ==
  /\ pc[c] = "cleared"
  /\ Goto(c, "ready")
  /\ UNCHANGED <<stores, m, pend, pre, after, auto, history>>

\* session_tick: a platform node, or an LLM node with auto_invoke_llm off
EnterDirectly(c) ==
  /\ pc[c] = "cleared"
  /\ ~NeedsLlm(pend[c], pre[c].runner) \/ (AsksLlm(c) /\ ~auto[c])
  /\ Goto(c, "ready")
  /\ UNCHANGED <<stores, m, pend, pre, after, auto, history>>

(***************************************************************************)
(* session_tick: graph.invoke runs whatever node is pending by now, between *)
(* the snapshot kept for a rollback and the one the rest of the tick uses. *)
(***************************************************************************)
RunNode(c) ==
  /\ pc[c] = "ready"
  /\ pre' = [pre EXCEPT ![c] = [node |-> next, runner |-> runner]]
  /\ IF next \in Nodes
       THEN /\ Execute(next)
            /\ lapses' = IF owed # None THEN lapses + 1 ELSE lapses
       ELSE UNCHANGED <<next, runner, ev, passed, owed, ran, lapses>>
  /\ after' = [after EXCEPT ![c] = [node |-> next', runner |-> runner']]
  /\ Goto(c, "ran")
  /\ UNCHANGED <<meta, m, pend, auto, crashes>>

\* the node completes whether its exit gate passes or not
PassExitGateVariant(c) ==
  /\ pc[c] = "ran"
  /\ IF ExitGateOk(pend[c]) THEN PayGate(pend[c]) ELSE UNCHANGED <<passed, owed>>
  /\ Goto(c, "passed")
  /\ UNCHANGED <<meta, next, runner, ev, m, pend, pre, after, auto, lapses, ran, crashes>>

(***************************************************************************)
(* session_tick: the exit gate of the node.  The trace audit before it     *)
(* repeats the edge check of CheckLast on the same two nodes and           *)
(* child_evidence_blocked is not a channel of the graph state, so neither  *)
(* refuses anything here.                                                  *)
(***************************************************************************)
PassExitGate(c) ==
  /\ pc[c] = "ran"
  /\ ExitGateOk(pend[c])
  /\ PayGate(pend[c])
  /\ Goto(c, "passed")
  /\ UNCHANGED <<meta, next, runner, ev, m, pend, pre, after, auto, lapses, ran, crashes>>

(***************************************************************************)
(* _rollback_invoke: update_state(pre_vals, as_node=pending) restores the  *)
(* values and routes on from the node; the node is not run again.          *)
(***************************************************************************)
RollbackInvoke(c) ==
  /\ pc[c] = "ran"
  /\ ~ExitGateOk(pend[c])
  /\ IF pre[c].node \in Nodes
       THEN next' \in Succ(pre[c].node) /\ runner' = pre[c].runner
       ELSE UNCHANGED <<next, runner>>
  /\ Goto(c, "rolled")
  /\ UNCHANGED <<meta, ev, passed, m, pend, pre, after, auto, history>>

\* the record does not say which node was rolled back
SaveRecoveryVariant(c) ==
  /\ pc[c] = "rolled"
  /\ Blocked(c, [m[c] EXCEPT !.waiting = "node_gate"], "node_gate")
  /\ UNCHANGED <<next, runner, ev, passed, pend, pre, after, auto, history>>

SaveRecovery(c) ==
  /\ pc[c] = "rolled"
  /\ Blocked(c, [m[c] EXCEPT !.recovery = pend[c], !.waiting = "node_gate"], "node_gate")
  /\ UNCHANGED <<next, runner, ev, passed, pend, pre, after, auto, history>>

\* session_tick: the record advances to the node that completed
SaveProgress(c) ==
  /\ pc[c] = "passed"
  /\ Commit(c, [m[c] EXCEPT
       !.last = pend[c], !.recovery = None,
       !.finished = IF after[c].node = END THEN TRUE ELSE @,
       !.waiting = IF after[c].node \in Nodes /\ NeedsLlm(after[c].node, after[c].runner)
                     THEN "llm" ELSE ""])
  /\ Goto(c, "idle")
  /\ UNCHANGED <<next, runner, ev, passed, pend, pre, after, auto, history>>

-----------------------------------------------------------------------------
\* session_invoke_llm: the record is loaded before the LLM call ...
BeginInvokeLlm(c) ==
  /\ pc[c] = "idle"
  /\ next \in Nodes
  /\ m' = [m EXCEPT ![c] = meta]
  /\ pend' = [pend EXCEPT ![c] = next]
  /\ Goto(c, "inviting")
  /\ UNCHANGED <<stores, pre, after, auto, history>>

\* ... and saved after it
FinishInvokeLlm(c) ==
  /\ pc[c] = "inviting"
  /\ Commit(c, [m[c] EXCEPT !.llmInvoked = @ \cup {pend[c]}, !.waiting = "llm"])
  /\ Goto(c, "idle")
  /\ UNCHANGED <<next, runner, ev, passed, pend, pre, after, auto, owed, lapses, ran, crashes>>

\* The process dies inside a call; a later call starts from the stores.
Crash(c) ==
  /\ pc[c] # "idle"
  /\ crashes < MaxCrashes
  /\ crashes' = crashes + 1
  /\ Goto(c, "idle")
  /\ UNCHANGED <<stores, m, pend, pre, after, auto, owed, lapses, ran>>

(***************************************************************************)
(* The process dies inside graph.invoke: the node has written some of its  *)
(* files, the checkpoint still has it pending.                             *)
(***************************************************************************)
DieInNode(c) ==
  /\ pc[c] = "ready"
  /\ next \in Nodes
  /\ crashes < MaxCrashes
  /\ crashes' = crashes + 1
  /\ \E left \in {ev[next]} \cup {Checks \ missing : missing \in Missing[next]} : ev' = [ev EXCEPT ![next] = left]
  /\ passed' \in {passed, IF next \in StepWriters THEN {} ELSE passed}
  /\ Goto(c, "idle")
  /\ UNCHANGED <<meta, next, runner, m, pend, pre, after, auto, owed, lapses, ran>>

(***************************************************************************)
(* The LLM or the user writes the artifacts node n still lacks; nobody     *)
(* writes the trace line of a node for it.                                 *)
(***************************************************************************)
SupplyEvidence(n) ==
  /\ n \notin SelfTraced
  /\ n \in ran \/ next = n
  /\ ev[n] # Checks
  /\ ev' = [ev EXCEPT ![n] = Checks]
  /\ UNCHANGED <<meta, next, runner, passed, locals, history>>

Tick(c) ==
  \/ LoadMeta(c) \/ StartGraph(c) \/ SaveStart(c) \/ FinishSession(c)
  \/ TakeSnapshot(c) \/ RecoverGate(c) \/ CheckLast(c) \/ InvokeLlm(c)
  \/ EnterAfterAsking(c) \/ EnterLlmNode(c) \/ EnterDirectly(c) \/ RunNode(c)
  \/ PassExitGate(c) \/ RollbackInvoke(c) \/ SaveRecovery(c) \/ SaveProgress(c)

Next ==
  \/ \E c \in Clients : Tick(c) \/ BeginInvokeLlm(c) \/ FinishInvokeLlm(c) \/ Crash(c) \/ DieInNode(c)
  \/ \E n \in Nodes : SupplyEvidence(n)

Spec == Init /\ [][Next]_vars

(***************************************************************************)
(* The driver of a session keeps calling tick (run_until_done, the LLM's   *)
(* flow instruction) and whoever is told that evidence is missing supplies *)
(* it.  LoadMeta is strongly fair because explicit invoke-llm calls may    *)
(* come in between ticks.                                                  *)
(***************************************************************************)
Fairness ==
  /\ \A c \in Clients : /\ SF_vars(LoadMeta(c))
                        /\ WF_vars(Tick(c))
                        /\ WF_vars(FinishInvokeLlm(c))
  /\ \A n \in Nodes : WF_vars(SupplyEvidence(n))

FairSpec == Spec /\ Fairness

-----------------------------------------------------------------------------
TypeOK ==
  /\ meta \in MetaType
  /\ next \in Nodes \cup {END, None}
  /\ runner \in {"python", "llm"}
  /\ ev \in [Nodes -> SUBSET Checks]
  /\ passed \subseteq Nodes
  /\ pc \in [Clients -> PCs]
  /\ m \in [Clients -> MetaType]
  /\ pend \in [Clients -> Nodes \cup {None}]
  /\ pre \in [Clients -> [node : Nodes \cup {END, None}, runner : {"python", "llm"}]]
  /\ after \in [Clients -> [node : Nodes \cup {END, None}, runner : {"python", "llm"}]]
  /\ auto \in [Clients -> BOOLEAN]
  /\ owed \in Nodes \cup {None}
  /\ lapses \in Nat
  /\ ran \subseteq Nodes
  /\ crashes \in Nat

(***************************************************************************)
(* With one driving process, every gate that is skipped is the price of a  *)
(* crash: the record lags the checkpoint by at most the node in flight.    *)
(***************************************************************************)
LapsesBoundedByCrashes == lapses <= crashes

(***************************************************************************)
(* The pending node is always one the flow specification allows after the  *)
(* node the record says was completed, so that no tick is refused as an    *)
(* illegal transition, as long as no process died: a rollback, a recovery  *)
(* and a change of route keep record and checkpoint in step.               *)
(***************************************************************************)
IllegalOnlyAfterCrash == crashes = 0 => "illegal_transition" \notin meta.blocks

Debt == lapses + (IF owed = None THEN 0 ELSE 1)

(***************************************************************************)
(* A session recorded as finished has no node left to run, and it ran past *)
(* at most one unpaid gate, its last node's included, per process that     *)
(* died.                                                                   *)
(***************************************************************************)
FinishedWithinCrashes == meta.finished => next = END /\ Debt <= crashes

Runs(c) == pc[c] = "ready" /\ pc'[c] = "ran" /\ next \in Nodes

Completes(c) == pc[c] = "ran" /\ pc'[c] = "passed"

(***************************************************************************)
(* With auto_invoke_llm, an LLM node runs only after the session has       *)
(* called the LLM for it (graph_session.py: "graph calls LLM at llm        *)
(* nodes").                                                                *)
(***************************************************************************)
LlmCalledBeforeRun ==
  [][\A c \in Clients :
       Runs(c) /\ NeedsLlm(next, runner) => next \in m[c].llmInvoked]_vars

(***************************************************************************)
(* A node completes on evidence that holds at that moment, never on the    *)
(* pass artifact of an earlier visit ("evidence is mandatory for every     *)
(* LangGraph transition", node_gate_spec.yaml).                            *)
(***************************************************************************)
CompletesOnOwnEvidence ==
  [][\A c \in Clients : Completes(c) => {"exit", "extra"} \subseteq ev[pend[c]]]_vars

(***************************************************************************)
(* A pending node does not stay pending: the driver's ticks, the LLM call, *)
(* the recovery of a failed gate and the evidence supplied on demand       *)
(* always lead on to another node or to the end of the graph.              *)
(***************************************************************************)
PendingNodeRuns == \A n \in Nodes : next = n ~> next # n

-----------------------------------------------------------------------------
(***************************************************************************)
(* The inductive invariant behind LapsesBoundedByCrashes, for one client.  *)
(* A gate that is owed is covered while somebody remembers it: the record  *)
(* as recovery node, or a call that has run the node and not returned.     *)
(***************************************************************************)
Remembers(c) ==
  \/ pc[c] \in {"ran", "rolled"} /\ pend[c] = owed
  \/ pc[c] = "started" /\ owed = Setup

Covered == owed = None \/ meta.recovery = owed \/ \E c \in Clients : Remembers(c)

\* a call works on the recovery node that is on disk
RecordInStep(c) == pc[c] # "idle" => m[c].recovery = meta.recovery

\* past the recovery gate no gate is recorded as owed
NothingToRecover(c) ==
  pc[c] \in {"cleared", "asked", "ready", "ran", "passed", "rolled"} => meta.recovery = None

\* the node a call is about to run is the pending one
SnapshotInStep(c) ==
  pc[c] \in {"snapped", "cleared", "asked", "ready"} => next \in Nodes /\ pend[c] = next

\* the setup node, just run, passes its gate
SetupPasses(c) ==
  pc[c] = "started" =>
    owed = Setup /\ next \in Nodes /\ {"exit", "extra"} \subseteq ev[Setup]

CreditInv ==
  /\ \A c \in Clients : /\ RecordInStep(c)
                        /\ NothingToRecover(c)
                        /\ SnapshotInStep(c)
                        /\ SetupPasses(c)
  /\ lapses + (IF Covered THEN 0 ELSE 1) <= crashes
=============================================================================
