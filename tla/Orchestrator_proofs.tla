------------------------- MODULE Orchestrator_proofs -------------------------
(***************************************************************************)
(* Proofs about the orchestrator, for any projects, groups and recursion   *)
(* limit.  IInv strengthens the invariants with where the run is in its    *)
(* queue, how many nodes that took, and what the verdict means half way.   *)
(***************************************************************************)
EXTENDS Orchestrator, FiniteSetTheorems, SequenceTheorems, TLAPS

\* The queue is in the order of sort_key.
Ordered == \A i, j \in 1 .. Len(queue) : i < j => Precedes(queue[i], queue[j])

\* A node that works on an item has one, of its kind.
AtItem ==
  /\ pc \in {"setup", "plan_work"} =>
       queue = <<>> /\ index = 0 /\ log = <<>> /\ results = <<>> /\ gapped = <<>>
       /\ verdict = "unset"
  /\ pc \in {"run_acquisition", "prepare_verify", "dispatch_verify", "advance_work"} =>
       index < Len(queue)
  /\ pc = "run_acquisition" => current \notin Verify
  /\ pc \in {"prepare_verify", "dispatch_verify"} => current \in Verify

\* Three nodes per item at most, and two before the first.
StepBound ==
  /\ pc = "setup" => steps = 0
  /\ pc = "plan_work" => steps <= 1
  /\ pc \in {"run_acquisition", "prepare_verify"} => steps <= 3 * index + 2
  /\ pc = "dispatch_verify" => steps <= 3 * index + 3
  /\ pc = "advance_work" =>
       steps <= 3 * index + 4 /\ (index + 1 = Len(queue) => steps <= 3 * index + 3)
  /\ pc = "finalize_reproduction_sequence" => steps <= StepsNeeded(Len(queue)) - 2
  /\ pc = "finalize" => steps <= StepsNeeded(Len(queue)) - 1
  /\ cause # "none" => pc = "raised"

\* What was verified was in the queue, and the queue holds nothing excluded.
FromQueue ==
  /\ \A i \in 1 .. Len(results) : \E k \in 1 .. Len(queue) : results[i].item = queue[k]
  /\ mode = "workspace" => \A k \in 1 .. Len(queue) : queue[k] \notin barred
  /\ pc \in {"setup", "plan_work"} => results = <<>>

\* What was an information gap is behind the run.
GapsBehind ==
  pc # "raised" =>
    \A i \in 1 .. Len(gapped) : \E k \in 1 .. Behind : gapped[i] = queue[k]

\* The verdict is the last group's of those behind the run.
VerdictSoFar ==
  pc \in Nodes =>
    /\ (\A k \in 1 .. Behind : queue[k] \notin Verify) => verdict \in {"unset", "PASS"}
    /\ \A k \in 1 .. Behind :
         LastGroup(k, Behind) =>
           IF Gapped(queue[k]) THEN verdict = "INFO_GAP"
           ELSE /\ results # <<>>
                /\ results[Len(results)] = [item |-> queue[k], verdict |-> verdict]

Core == TypeOK /\ Ordered /\ AtItem /\ ContextIsCurrent
-----------------------------------------------------------------------------
\* The kinds of items are told apart by their kind.
LEMMA ItemKinds ==
  /\ \A a \in Items : a \in Verify <=> a.kind = "verify"
  /\ \A a \in Items : a.project \in Nat /\ a.group \in Nat
  /\ \A a \in Verify : a.kind = "verify" /\ a.project \in Nat \ {0} /\ a.group \in Nat \ {0}
  /\ \A a \in Items \ Verify : a.kind \in RefreshKinds \cup {"project_search"} /\ a.group = 0
  /\ Verify \subseteq Items
  /\ NoItem \notin Verify
<1>1. \A a \in Verify : a.kind = "verify" /\ a.project \in Nat \ {0} /\ a.group \in Nat \ {0}
  BY OrchestratorAssumption DEF Verify
<1>2. \A a \in Refresh : a.kind \in RefreshKinds /\ a.project \in Nat /\ a.group = 0
  BY OrchestratorAssumption DEF Refresh
<1>3. Search.kind = "project_search" /\ Search.project = 0 /\ Search.group = 0
  BY DEF Search
<1>4. "verify" \notin RefreshKinds /\ "none" # "verify" /\ "project_search" # "verify"
  BY DEF RefreshKinds
<1>5. NoItem \notin Verify
  BY <1>1 DEF NoItem
<1> QED BY <1>1, <1>2, <1>3, <1>4, <1>5 DEF Items

\* No item comes before itself.
LEMMA PrecedesStrict == \A a \in Items : ~Precedes(a, a)
<1> SUFFICES ASSUME NEW a \in Items PROVE ~Precedes(a, a)
  OBVIOUS
<1>1. a.project \in Nat /\ a.group \in Nat
  BY ItemKinds
<1>2. Priority(a.kind) \in Int
  <2>1. a.kind \in RefreshKinds \cup {"project_search", "verify"}
    BY ItemKinds
  <2> QED BY <2>1 DEF Priority, RefreshKinds
<1> QED BY <1>1, <1>2 DEF Precedes

\* What plan_work may put into the queue.
LEMMA PlannedQueue ==
  ASSUME NEW due \in SUBSET Items, IsFiniteSet(due), NEW q \in Arrangements(Filtered(due))
  PROVE  /\ q \in Seq(Items)
         /\ \A i, j \in 1 .. Len(q) : i < j => Precedes(q[i], q[j])
         /\ \A i \in 1 .. Len(q) : q[i] \notin excluded
<1> DEFINE S == Filtered(due)
<1>1. S \subseteq Items /\ IsFiniteSet(S) /\ \A a \in S : a \notin excluded
  BY FS_Subset DEF Filtered
<1>2. Cardinality(S) \in Nat
  BY <1>1, FS_CardinalityType
<1>3. q \in [1 .. Cardinality(S) -> S]
  BY DEF Arrangements
<1>4. \A i, j \in 1 .. Cardinality(S) : i < j => Precedes(q[i], q[j])
  BY DEF Arrangements
<1> HIDE DEF S
<1>5. q \in Seq(S) /\ Len(q) = Cardinality(S)
  BY <1>2, <1>3
<1>6. q \in Seq(Items)
  BY <1>1, <1>2, <1>3
<1>7. \A i \in 1 .. Len(q) : q[i] \in S
  BY <1>3, <1>5
<1> QED BY <1>1, <1>4, <1>5, <1>6, <1>7

\* Where RouteWork sends an item, by its kind.
LEMMA Routed ==
  ASSUME NEW q \in Seq(Items), NEW i \in 0 .. Len(q)
  PROVE  \/ i = Len(q) /\ RouteWork(q, i) = "finalize_reproduction_sequence"
         \/ i < Len(q) /\ q[i + 1] \in Verify /\ RouteWork(q, i) = "prepare_verify"
         \/ i < Len(q) /\ q[i + 1] \in Items \ Verify /\ RouteWork(q, i) = "run_acquisition"
<1>1. CASE i >= Len(q)
  BY <1>1 DEF RouteWork
<1>2. CASE ~(i >= Len(q))
  <2>1. i < Len(q) /\ i + 1 \in 1 .. Len(q)
    BY <1>2
  <2>2. q[i + 1] \in Items
    BY <2>1, ElementOfSeq
  <2> QED BY <1>2, <2>1, <2>2, ItemKinds DEF RouteWork
<1> QED BY <1>1, <1>2
-----------------------------------------------------------------------------
LEMMA InitType == Init => TypeOK
<1> SUFFICES ASSUME Init PROVE TypeOK
  OBVIOUS
<1>1. queue = <<>> /\ Len(queue) = 0 /\ queue \in Seq(Items) /\ index \in 0 .. Len(queue)
  BY DEF Init
<1>2. log \in Seq([item : Items \ Verify, status : {"ok", "error"}])
      /\ results \in Seq([item : Verify, verdict : Verdicts]) /\ gapped \in Seq(Verify)
  BY DEF Init
<1>3. steps \in 0 .. StepLimit
  BY OrchestratorAssumption DEF Init
<1> QED BY <1>1, <1>2, <1>3 DEF Init, TypeOK, Nodes, NoReport

LEMMA InitCore == Init => Core
BY InitType DEF Init, Core, Ordered, AtItem, ContextIsCurrent

\* A queue of plan_work, either way, and what it routes to.
LEMMA PlanQueue ==
  ASSUME TypeOK, PlanWork
  PROVE  /\ queue' \in Seq(Items)
         /\ \A i, j \in 1 .. Len(queue') : i < j => Precedes(queue'[i], queue'[j])
         /\ mode = "workspace" => \A i \in 1 .. Len(queue') : queue'[i] \notin excluded
<1>1. CASE mode = "workspace"
  <2>1. PICK due \in SUBSET Items : IsFiniteSet(due) /\ queue' \in Arrangements(Filtered(due))
    BY <1>1 DEF PlanWork
  <2> QED BY <2>1, PlannedQueue
<1>2. CASE mode # "workspace"
  <2>1. queue' \in {<<>>} \cup {<<item>> : item \in Verify}
    BY <1>2 DEF PlanWork
  <2>2. CASE queue' = <<>>
    <3>1. queue' \in Seq(Items) /\ Len(queue') = 0
      BY <2>2
    <3> QED BY <1>2, <3>1
  <2>3. CASE queue' # <<>>
    <3>1. PICK item \in Verify : queue' = <<item>>
      BY <2>1, <2>3
    <3>2. item \in Items
      BY <3>1, ItemKinds
    <3>3. queue' \in Seq(Items) /\ Len(queue') = 1
      BY <3>1, <3>2
    <3> QED BY <1>2, <3>3
  <2> QED BY <2>2, <2>3
<1> QED BY <1>1, <1>2

\* The item at work_index, when there is one.
LEMMA CurrentItem ==
  ASSUME TypeOK, index < Len(queue)
  PROVE  /\ current \in Items
         /\ index + 1 \in 1 .. Len(queue)
         /\ Len(queue) \in Nat /\ index \in Nat
<1>1. Len(queue) \in Nat /\ index \in Nat /\ index + 1 \in 1 .. Len(queue)
  BY DEF TypeOK
<1> QED BY <1>1, ElementOfSeq DEF TypeOK, current

\* A node runs within the limit.
LEMMA NodeSteps ==
  ASSUME TypeOK, NEW name, Node(name)
  PROVE  steps' \in 0 .. StepLimit /\ steps' = steps + 1 /\ pc = name /\ steps \in Nat
BY OrchestratorAssumption DEF TypeOK, Node

LEMMA CoreStep == Core /\ [Next]_vars => Core'
<1> SUFFICES ASSUME Core, [Next]_vars PROVE Core'
  OBVIOUS
<1> USE DEF Core
<1>1. CASE Setup
  <2>1. TypeOK'
    <3>1. steps' \in 0 .. StepLimit
      BY <1>1, NodeSteps DEF Setup
    <3>2. index' \in 0 .. Len(queue')
      BY <1>1 DEF Setup, TypeOK
    <3> QED BY <1>1, <3>1, <3>2 DEF Setup, TypeOK, Nodes
  <2>2. queue' = <<>> /\ Ordered'
    BY <1>1 DEF Setup, Node, AtItem, Ordered
  <2>3. AtItem' /\ ContextIsCurrent'
    BY <1>1 DEF Setup, Node, AtItem, ContextIsCurrent
  <2> QED BY <2>1, <2>2, <2>3
<1>2. CASE PlanWork
  <2>1. queue' \in Seq(Items) /\ Ordered'
    BY <1>2, PlanQueue DEF Ordered
  <2>2. Len(queue') \in Nat /\ index' = 0 /\ 0 \in 0 .. Len(queue')
    BY <1>2, <2>1 DEF PlanWork
  <2>3. \/ 0 = Len(queue') /\ pc' = "finalize_reproduction_sequence"
        \/ 0 < Len(queue') /\ queue'[0 + 1] \in Verify /\ pc' = "prepare_verify"
        \/ 0 < Len(queue') /\ queue'[0 + 1] \in Items \ Verify /\ pc' = "run_acquisition"
    BY <1>2, <2>1, <2>2, Routed DEF PlanWork
  <2>4. TypeOK'
    <3>1. steps' \in 0 .. StepLimit
      BY <1>2, NodeSteps DEF PlanWork
    <3>2. pc' \in Nodes
      BY <2>3 DEF Nodes
    <3>3. verdict' \in Verdicts \cup {"unset"}
      BY <1>2 DEF PlanWork, TypeOK, Verdicts
    <3>4. barred' \subseteq Verify
      BY <1>2 DEF PlanWork, TypeOK
    <3>5. index' \in 0 .. Len(queue')
      BY <2>2
    <3>6. UNCHANGED <<mode, infoGap, context, log, results, report, excluded, cause, gapped>>
      BY <1>2 DEF PlanWork
    <3> QED BY <2>1, <3>1, <3>2, <3>3, <3>4, <3>5, <3>6 DEF TypeOK
  <2>5. AtItem'
    <3>1. index' < Len(queue') \/ pc' = "finalize_reproduction_sequence"
      BY <2>2, <2>3
    <3>2. pc' = "run_acquisition" => current' \notin Verify
      BY <2>2, <2>3 DEF current
    <3>3. pc' \in {"prepare_verify", "dispatch_verify"} => current' \in Verify
      BY <2>2, <2>3 DEF current
    <3> QED BY <2>3, <3>1, <3>2, <3>3 DEF AtItem
  <2>6. ContextIsCurrent'
    BY <2>3 DEF ContextIsCurrent
  <2> QED BY <2>1, <2>4, <2>5, <2>6
<1>3. CASE RunAcquisition
  <2>1. pc = "run_acquisition" /\ pc' = "advance_work" /\ index < Len(queue) /\ current \notin Verify
    BY <1>3 DEF RunAcquisition, Node, AtItem
  <2>2. current \in Items \ Verify
    BY <2>1, CurrentItem
  <2>3. log' \in Seq([item : Items \ Verify, status : {"ok", "error"}])
    <3>1. PICK status \in {"ok", "error"} : log' = Append(log, [item |-> current, status |-> status])
      BY <1>3 DEF RunAcquisition
    <3>2. [item |-> current, status |-> status] \in [item : Items \ Verify, status : {"ok", "error"}]
      BY <2>2
    <3> QED BY <3>1, <3>2, AppendProperties DEF TypeOK
  <2>4. steps' \in 0 .. StepLimit
    BY <1>3, NodeSteps DEF RunAcquisition
  <2>5. TypeOK'
    BY <1>3, <2>3, <2>4 DEF RunAcquisition, TypeOK, Nodes
  <2>6. Ordered' /\ AtItem' /\ ContextIsCurrent'
    BY <1>3, <2>1 DEF RunAcquisition, Ordered, AtItem, ContextIsCurrent
  <2> QED BY <2>5, <2>6
<1>4. CASE PrepareGap
  <2>1. pc = "prepare_verify" /\ pc' = "advance_work" /\ index < Len(queue) /\ current \in Verify
    BY <1>4 DEF PrepareGap, Node, AtItem
  <2>2. gapped' \in Seq(Verify)
    BY <1>4, <2>1, AppendProperties DEF PrepareGap, TypeOK
  <2>3. steps' \in 0 .. StepLimit
    BY <1>4, NodeSteps DEF PrepareGap
  <2>4. TypeOK'
    BY <1>4, <2>2, <2>3 DEF PrepareGap, TypeOK, Nodes, Verdicts
  <2>5. Ordered' /\ AtItem' /\ ContextIsCurrent'
    BY <1>4, <2>1 DEF PrepareGap, Ordered, AtItem, ContextIsCurrent
  <2> QED BY <2>4, <2>5
<1>5. CASE PrepareReady
  <2>1. pc = "prepare_verify" /\ pc' = "dispatch_verify" /\ index < Len(queue) /\ current \in Verify
    BY <1>5 DEF PrepareReady, Node, AtItem
  <2>2. steps' \in 0 .. StepLimit
    BY <1>5, NodeSteps DEF PrepareReady
  <2>3. TypeOK'
    BY <1>5, <2>1, <2>2 DEF PrepareReady, TypeOK, Nodes
  <2>4. Ordered' /\ AtItem' /\ ContextIsCurrent'
    BY <1>5, <2>1 DEF PrepareReady, Ordered, AtItem, ContextIsCurrent, current
  <2> QED BY <2>3, <2>4
<1>6. CASE DispatchVerify
  <2>1. pc = "dispatch_verify" /\ index < Len(queue) /\ current \in Verify /\ context \in Verify
    BY <1>6 DEF DispatchVerify, Node, AtItem, ContextIsCurrent
  <2>2. PICK v \in Verdicts :
          verdict' = v /\ results' = Append(results, [item |-> context, verdict |-> v])
    BY <1>6 DEF DispatchVerify
  <2>3. results' \in Seq([item : Verify, verdict : Verdicts])
    <3>1. [item |-> context, verdict |-> v] \in [item : Verify, verdict : Verdicts]
      BY <2>1
    <3> QED BY <2>2, <3>1, AppendProperties DEF TypeOK
  <2>4. excluded' \subseteq Verify
    BY <1>6 DEF DispatchVerify, TypeOK
  <2>5. pc' \in {"finalize_reproduction_sequence", "advance_work"}
    BY <1>6 DEF DispatchVerify, RouteAfterVerify
  <2>6. steps' \in 0 .. StepLimit
    BY <1>6, NodeSteps DEF DispatchVerify
  <2>7. UNCHANGED <<mode, queue, index, infoGap, context, log, report, cause, gapped, barred>>
    BY <1>6 DEF DispatchVerify
  <2>8. TypeOK'
    BY <2>2, <2>3, <2>4, <2>5, <2>6, <2>7 DEF TypeOK, Nodes
  <2>9. Ordered' /\ AtItem' /\ ContextIsCurrent'
    BY <2>1, <2>5, <2>7 DEF Ordered, AtItem, ContextIsCurrent
  <2> QED BY <2>8, <2>9
<1>7. CASE AdvanceWork
  <2>1. pc = "advance_work" /\ index < Len(queue) /\ index' = index + 1 /\ pc' = RouteWork(queue, index')
    BY <1>7 DEF AdvanceWork, Node, AtItem
  <2>2. Len(queue) \in Nat /\ index' \in 0 .. Len(queue)
    BY <2>1 DEF TypeOK
  <2>3. \/ index' = Len(queue) /\ pc' = "finalize_reproduction_sequence"
        \/ index' < Len(queue) /\ queue[index' + 1] \in Verify /\ pc' = "prepare_verify"
        \/ index' < Len(queue) /\ queue[index' + 1] \in Items \ Verify /\ pc' = "run_acquisition"
    BY <2>1, <2>2, Routed DEF TypeOK
  <2>4. UNCHANGED <<mode, queue, context, verdict, log, results, report, excluded, cause, gapped, barred>>
    BY <1>7 DEF AdvanceWork
  <2>5. TypeOK'
    <3>1. steps' \in 0 .. StepLimit
      BY <1>7, NodeSteps DEF AdvanceWork
    <3>2. infoGap' \in BOOLEAN
      BY <1>7 DEF AdvanceWork, TypeOK
    <3>3. pc' \in Nodes
      BY <2>3 DEF Nodes
    <3> QED BY <2>2, <2>4, <3>1, <3>2, <3>3 DEF TypeOK
  <2>6. AtItem'
    BY <2>3, <2>4 DEF AtItem, current
  <2>7. Ordered' /\ ContextIsCurrent'
    BY <2>3, <2>4 DEF Ordered, ContextIsCurrent
  <2> QED BY <2>5, <2>6, <2>7
<1>8. CASE FinalizeSequence
  <2>1. steps' \in 0 .. StepLimit
    BY <1>8, NodeSteps DEF FinalizeSequence
  <2>2. TypeOK'
    BY <1>8, <2>1 DEF FinalizeSequence, TypeOK, Nodes
  <2>3. Ordered' /\ AtItem' /\ ContextIsCurrent'
    BY <1>8 DEF FinalizeSequence, Ordered, AtItem, ContextIsCurrent
  <2> QED BY <2>2, <2>3
<1>9. CASE Finalize
  <2>1. steps' \in 0 .. StepLimit
    BY <1>9, NodeSteps DEF Finalize
  <2>2. Reported \in Verdicts
    BY DEF TypeOK, Reported, Verdicts
  <2>3. /\ log' \in Seq([item : Items \ Verify, status : {"ok", "error"}])
        /\ results' \in Seq([item : Verify, verdict : Verdicts])
    BY <1>9, ConcatProperties DEF Finalize, TypeOK
  <2>4. report'.verdict = Reported /\ verdict' = Reported /\ pc' = "end"
        /\ UNCHANGED <<mode, queue, index, infoGap, context, excluded, cause, gapped, barred>>
    BY <1>9 DEF Finalize
  <2>5. TypeOK'
    BY <2>1, <2>2, <2>3, <2>4 DEF TypeOK
  <2>6. Ordered' /\ AtItem' /\ ContextIsCurrent'
    BY <2>4 DEF Ordered, AtItem, ContextIsCurrent
  <2> QED BY <2>5, <2>6
<1>10. ASSUME NEW why \in {"gate", "error", "steps"}, Raise(why) PROVE Core'
  <2>1. TypeOK'
    BY <1>10 DEF Raise, TypeOK
  <2>2. Ordered' /\ AtItem' /\ ContextIsCurrent'
    BY <1>10 DEF Raise, Ordered, AtItem, ContextIsCurrent
  <2> QED BY <2>1, <2>2
<1>11. CASE UNCHANGED vars
  BY <1>11 DEF vars, TypeOK, Ordered, AtItem, ContextIsCurrent, current
<1> QED
  BY <1>1, <1>2, <1>3, <1>4, <1>5, <1>6, <1>7, <1>8, <1>9, <1>10, <1>11
     DEF Next, NodeStep, GateBlocks, NodeFails, OutOfSteps
-----------------------------------------------------------------------------
\* The nodes one queue takes.
LEMMA InitSteps == Init => StepBound
BY DEF Init, StepBound

LEMMA StepsStep == Core /\ StepBound /\ [Next]_vars => StepBound'
<1> SUFFICES ASSUME Core, StepBound, [Next]_vars PROVE StepBound'
  OBVIOUS
<1>0. /\ TypeOK /\ AtItem
      /\ Len(queue) \in Nat /\ index \in Nat /\ steps \in Nat /\ index <= Len(queue)
  BY DEF Core, TypeOK
<1>1. CASE Setup
  BY <1>0, <1>1 DEF Setup, Node, StepBound
<1>2. CASE PlanWork
  <2>1. queue' \in Seq(Items) /\ Len(queue') \in Nat
    BY <1>0, <1>2, PlanQueue
  <2>2. steps' <= 2 /\ index' = 0 /\ pc' = RouteWork(queue', 0) /\ cause' = cause /\ pc = "plan_work"
    BY <1>0, <1>2 DEF PlanWork, Node, StepBound
  <2>3. pc' \in {"finalize_reproduction_sequence", "prepare_verify", "run_acquisition"}
    BY <2>1, <2>2, Routed
  <2>4. StepsNeeded(Len(queue')) >= 4
    BY <2>1 DEF StepsNeeded
  <2>5. steps' \in Nat
    BY <1>0, <1>2 DEF PlanWork, Node
  <2>6. StepsNeeded(Len(queue')) \in Nat
    BY <2>1 DEF StepsNeeded
  <2> QED BY <2>2, <2>3, <2>4, <2>5, <2>6 DEF StepBound
<1>3. CASE RunAcquisition
  BY <1>0, <1>3 DEF RunAcquisition, Node, StepBound
<1>4. CASE PrepareGap
  BY <1>0, <1>4 DEF PrepareGap, Node, StepBound
<1>5. CASE PrepareReady
  BY <1>0, <1>5 DEF PrepareReady, Node, StepBound
<1>6. CASE DispatchVerify
  <2>1. /\ index < Len(queue) /\ steps <= 3 * index + 3 /\ steps' = steps + 1
        /\ cause' = cause /\ pc = "dispatch_verify" /\ UNCHANGED <<queue, index>>
    BY <1>0, <1>6 DEF DispatchVerify, Node, StepBound, AtItem
  <2>2. CASE index + 1 >= Len(queue)
    <3>1. pc' = "finalize_reproduction_sequence" /\ Len(queue) = index + 1
      BY <1>0, <1>6, <2>1, <2>2 DEF DispatchVerify, RouteAfterVerify
    <3>2. StepsNeeded(Len(queue)) = 3 * index + 6
      BY <1>0, <3>1 DEF StepsNeeded
    <3> QED BY <1>0, <2>1, <3>1, <3>2 DEF StepBound
  <2>3. CASE ~(index + 1 >= Len(queue))
    <3>1. pc' = "advance_work"
      BY <1>6, <2>3 DEF DispatchVerify, RouteAfterVerify
    <3> QED BY <1>0, <2>1, <2>3, <3>1 DEF StepBound
  <2> QED BY <2>2, <2>3
<1>7. CASE AdvanceWork
  <2>1. /\ index < Len(queue) /\ index' = index + 1 /\ steps' = steps + 1
        /\ pc' = RouteWork(queue, index') /\ pc = "advance_work" /\ UNCHANGED <<queue, cause>>
        /\ steps <= 3 * index + 4 /\ (index + 1 = Len(queue) => steps <= 3 * index + 3)
    BY <1>0, <1>7 DEF AdvanceWork, Node, AtItem, StepBound
  <2>2. \/ index' = Len(queue) /\ pc' = "finalize_reproduction_sequence"
        \/ index' < Len(queue) /\ pc' = "prepare_verify"
        \/ index' < Len(queue) /\ pc' = "run_acquisition"
    BY <1>0, <2>1, Routed DEF TypeOK
  <2>3. CASE index' = Len(queue)
    <3>1. StepsNeeded(Len(queue)) = 3 * index + 6
      BY <1>0, <2>1, <2>3 DEF StepsNeeded
    <3> QED BY <1>0, <2>1, <2>2, <2>3, <3>1 DEF StepBound
  <2>4. CASE index' < Len(queue)
    <3>1. 3 * index' + 2 = 3 * index + 5
      BY <1>0, <2>1
    <3> QED BY <1>0, <2>1, <2>2, <2>4, <3>1 DEF StepBound
  <2> QED BY <2>2, <2>3, <2>4
<1>8. CASE FinalizeSequence
  <2>1. StepsNeeded(Len(queue)) \in Nat
    BY <1>0 DEF StepsNeeded
  <2> QED BY <1>0, <1>8, <2>1 DEF FinalizeSequence, Node, StepBound
<1>9. CASE Finalize
  BY <1>9 DEF Finalize, Node, StepBound
<1>10. ASSUME NEW why \in {"gate", "error", "steps"}, Raise(why) PROVE StepBound'
  BY <1>10 DEF Raise, StepBound
<1>11. CASE UNCHANGED vars
  BY <1>11 DEF vars, StepBound
<1> QED
  BY <1>1, <1>2, <1>3, <1>4, <1>5, <1>6, <1>7, <1>8, <1>9, <1>10, <1>11
     DEF Next, NodeStep, GateBlocks, NodeFails, OutOfSteps

\* Whoever runs out of steps has a queue that needs more.
LEMMA FitStep == Core /\ StepBound /\ ShortQueuesFit /\ [Next]_vars => ShortQueuesFit'
<1> SUFFICES ASSUME Core, StepBound, ShortQueuesFit, [Next]_vars, cause' = "steps"
             PROVE  StepsNeeded(Len(queue')) > StepLimit
  BY DEF ShortQueuesFit
<1>0. /\ TypeOK /\ AtItem
      /\ Len(queue) \in Nat /\ index \in Nat /\ steps \in Nat /\ index <= Len(queue)
      /\ StepsNeeded(Len(queue)) \in Nat
  BY DEF Core, TypeOK, StepsNeeded
<1>1. CASE cause = "steps"
  <2>1. pc = "raised"
    BY <1>1 DEF StepBound
  <2>2. UNCHANGED vars
    BY <2>1 DEF Next, NodeStep, GateBlocks, NodeFails, OutOfSteps, Running, Nodes, Node, Setup,
                PlanWork, RunAcquisition, PrepareGap, PrepareReady, DispatchVerify, AdvanceWork,
                FinalizeSequence, Finalize
  <2> QED BY <1>1, <2>2 DEF vars, ShortQueuesFit
<1>2. CASE cause # "steps"
  <2>1. OutOfSteps
    BY <1>2 DEF Next, NodeStep, GateBlocks, NodeFails, Raise, Setup, vars,
                PlanWork, RunAcquisition, PrepareGap, PrepareReady, DispatchVerify, AdvanceWork,
                FinalizeSequence, Finalize
  <2>2. steps = StepLimit /\ pc \in Nodes /\ queue' = queue
    BY <2>1 DEF OutOfSteps, Running, Raise
  <2>3. CASE pc \in {"setup", "plan_work"}
    BY <1>0, <2>2, <2>3 DEF StepBound, AtItem, StepsNeeded
  <2>4. CASE pc \in {"run_acquisition", "prepare_verify", "dispatch_verify", "advance_work"}
    <3>1. index < Len(queue) /\ StepsNeeded(Len(queue)) = 3 * Len(queue) + 3
      BY <1>0, <2>4 DEF AtItem, StepsNeeded
    <3>2. steps <= 3 * index + 4
      BY <1>0, <2>4 DEF StepBound
    <3> QED BY <1>0, <2>2, <3>1, <3>2
  <2>5. CASE pc \in {"finalize_reproduction_sequence", "finalize"}
    BY <1>0, <2>2, <2>5 DEF StepBound
  <2> QED BY <2>2, <2>3, <2>4, <2>5 DEF Nodes
<1> QED BY <1>1, <1>2
-----------------------------------------------------------------------------
\* What was verified came from the queue.
LEMMA InitFromQueue == Init => FromQueue
BY DEF Init, FromQueue

LEMMA FromQueueStep == Core /\ FromQueue /\ [Next]_vars => FromQueue'
<1> SUFFICES ASSUME Core, FromQueue, [Next]_vars PROVE FromQueue'
  OBVIOUS
<1>0. TypeOK /\ AtItem /\ ContextIsCurrent
  BY DEF Core
<1>1. CASE PlanWork
  <2>1. results = <<>> /\ results' = <<>> /\ mode' = mode /\ barred' = excluded
    BY <1>0, <1>1 DEF PlanWork, Node, AtItem
  <2>2. mode = "workspace" => \A i \in 1 .. Len(queue') : queue'[i] \notin barred'
    BY <1>0, <1>1, <2>1, PlanQueue
  <2>3. \A i \in 1 .. Len(results') : FALSE
    BY <2>1
  <2> QED BY <2>1, <2>2, <2>3 DEF FromQueue
<1>2. CASE DispatchVerify
  <2>1. pc = "dispatch_verify" /\ index < Len(queue) /\ context = current
    BY <1>0, <1>2 DEF DispatchVerify, Node, AtItem, ContextIsCurrent
  <2>2. PICK v \in Verdicts : results' = Append(results, [item |-> context, verdict |-> v])
    BY <1>2 DEF DispatchVerify
  <2>3. index + 1 \in 1 .. Len(queue) /\ context = queue[index + 1]
    BY <1>0, <2>1, CurrentItem DEF current
  <2>4. UNCHANGED <<queue, mode, barred>> /\ pc' \notin {"setup", "plan_work"}
    BY <1>2 DEF DispatchVerify, RouteAfterVerify
  <2>5. results \in Seq([item : Verify, verdict : Verdicts])
    BY <1>0 DEF TypeOK
  <2>6. ASSUME NEW i \in 1 .. Len(results') PROVE \E k \in 1 .. Len(queue) : results'[i].item = queue[k]
    <3>1. CASE i \in 1 .. Len(results)
      BY <2>2, <2>5, <3>1 DEF FromQueue
    <3>2. CASE i = Len(results) + 1
      BY <2>2, <2>3, <2>5, <3>2
    <3> QED BY <2>2, <2>5, <3>1, <3>2
  <2> QED BY <2>4, <2>6 DEF FromQueue
<1>3. CASE Finalize
  <2>1. results' = results \o results /\ UNCHANGED <<queue, mode, barred>> /\ pc' = "end"
    BY <1>3 DEF Finalize
  <2>2. results \in Seq([item : Verify, verdict : Verdicts])
    BY <1>0 DEF TypeOK
  <2>3. ASSUME NEW i \in 1 .. Len(results') PROVE \E k \in 1 .. Len(queue) : results'[i].item = queue[k]
    <3>1. \/ i \in 1 .. Len(results) /\ results'[i] = results[i]
          \/ i - Len(results) \in 1 .. Len(results) /\ results'[i] = results[i - Len(results)]
      BY <2>1, <2>2
    <3> QED BY <3>1 DEF FromQueue
  <2> QED BY <2>1, <2>3 DEF FromQueue
<1>4. CASE Setup
  BY <1>4 DEF Setup, Node, FromQueue
<1>5. CASE RunAcquisition \/ PrepareGap \/ PrepareReady \/ FinalizeSequence
  BY <1>5 DEF RunAcquisition, PrepareGap, PrepareReady, FinalizeSequence, FromQueue
<1>6. CASE AdvanceWork
  <2>1. index' \in 0 .. Len(queue) /\ pc' = RouteWork(queue, index')
    BY <1>0, <1>6, CurrentItem DEF AdvanceWork, Node, AtItem, TypeOK
  <2>2. pc' \notin {"setup", "plan_work"}
    BY <1>0, <2>1, Routed DEF TypeOK
  <2> QED BY <1>6, <2>2 DEF AdvanceWork, FromQueue
<1>7. ASSUME NEW why \in {"gate", "error", "steps"}, Raise(why) PROVE FromQueue'
  BY <1>7 DEF Raise, FromQueue
<1>8. CASE UNCHANGED vars
  BY <1>8 DEF vars, FromQueue
<1> QED
  BY <1>1, <1>2, <1>3, <1>4, <1>5, <1>6, <1>7, <1>8
     DEF Next, NodeStep, GateBlocks, NodeFails, OutOfSteps
-----------------------------------------------------------------------------
\* Appending keeps what a list has and adds the entry.
LEMMA HasAppend ==
  ASSUME NEW S, NEW s \in Seq(S), NEW e
  PROVE  /\ Len(Append(s, e)) = Len(s) + 1
         /\ \A item : Has(s, item) => Has(Append(s, e), item)
         /\ Has(Append(s, e), e.item)
<1>1. /\ Len(Append(s, e)) = Len(s) + 1 /\ Len(s) \in Nat
      /\ \A i \in 1 .. Len(s) : Append(s, e)[i] = s[i]
      /\ Append(s, e)[Len(s) + 1] = e
  OBVIOUS
<1>2. 1 .. Len(s) \subseteq 1 .. Len(Append(s, e)) /\ Len(s) + 1 \in 1 .. Len(Append(s, e))
  BY <1>1
<1> QED BY <1>1, <1>2 DEF Has

\* How many items are behind, node by node.
LEMMA BehindIs ==
  /\ pc \in {"setup", "plan_work"} => Behind = 0
  /\ pc \in {"run_acquisition", "prepare_verify", "dispatch_verify"} => Behind = index
  /\ pc = "advance_work" => Behind = index + 1
  /\ pc \in {"finalize_reproduction_sequence", "finalize", "end"} => Behind = Len(queue)
BY DEF Behind

\* The item is in the list.
In(s, item) == \E i \in 1 .. Len(s) : s[i] = item

\* What Accounted says of the lists before the last node.
Traced(n) ==
  /\ Len(log) + Len(results) + Len(gapped) = n
  /\ \A k \in 1 .. n :
       IF queue[k] \in Verify THEN Has(results, queue[k]) \/ Gapped(queue[k])
       ELSE Has(log, queue[k])

Half ==
  /\ pc \in Nodes => Traced(Behind)
  /\ Accounted
  /\ GapsBehind

LEMMA InitHalf == Init => Half
BY DEF Init, Half, Accounted, GapsBehind, Traced, Behind, Written

\* A node that leaves the lists alone, and as many items behind.
LEMMA HalfSame ==
  ASSUME Half, pc \in Nodes, pc' \in Nodes, Behind' = Behind,
         UNCHANGED <<queue, log, results, gapped>>
  PROVE  Half'
<1>1. Traced(Behind)'
  BY DEF Half, Traced, Gapped
<1>2. pc # "raised" /\ pc' # "end" /\ pc # "end"
  BY DEF Nodes
<1>3. Accounted'
  BY <1>1, <1>2 DEF Accounted, Traced, Written
<1>4. GapsBehind'
  BY <1>2 DEF Half, GapsBehind
<1> QED BY <1>1, <1>3, <1>4 DEF Half

\* A node that leaves its item behind with one trace.
LEMMA HalfMore ==
  ASSUME Core, Half, pc \in {"run_acquisition", "prepare_verify", "dispatch_verify"},
         pc' \in Nodes, Behind' = index + 1, queue' = queue, index < Len(queue),
         \/ /\ current \notin Verify
            /\ \E e : log' = Append(log, e) /\ e.item = current
            /\ UNCHANGED <<results, gapped>>
         \/ /\ current \in Verify
            /\ \E e : results' = Append(results, e) /\ e.item = current
            /\ UNCHANGED <<log, gapped>>
         \/ /\ current \in Verify
            /\ gapped' = Append(gapped, current)
            /\ UNCHANGED <<log, results>>
  PROVE  Half'
<1>0. /\ TypeOK /\ index \in Nat /\ index + 1 \in 1 .. Len(queue) /\ current = queue[index + 1]
      /\ pc \in Nodes /\ pc # "raised" /\ pc # "end" /\ pc' # "end"
  BY CurrentItem DEF Core, Nodes, current
<1>1. Traced(index) /\ Behind = index
  BY <1>0, BehindIs DEF Half
<1>2. /\ log \in Seq([item : Items \ Verify, status : {"ok", "error"}])
      /\ results \in Seq([item : Verify, verdict : Verdicts])
      /\ gapped \in Seq(Verify)
      /\ Len(log) \in Nat /\ Len(results) \in Nat /\ Len(gapped) \in Nat
  BY <1>0 DEF TypeOK
<1>3. Traced(Behind)'
  <2>1. /\ Len(log') + Len(results') + Len(gapped') = index + 1
        /\ \A item : Has(log, item) => Has(log', item)
        /\ \A item : Has(results, item) => Has(results', item)
        /\ \A item : In(gapped, item) => In(gapped', item)
        /\ IF current \in Verify THEN Has(results', current) \/ In(gapped', current)
           ELSE Has(log', current)
    <3>1. CASE current \notin Verify /\ UNCHANGED <<results, gapped>>
               /\ \E e : log' = Append(log, e) /\ e.item = current
      BY <1>1, <1>2, <3>1, HasAppend DEF Traced
    <3>2. CASE current \in Verify /\ UNCHANGED <<log, gapped>>
               /\ \E e : results' = Append(results, e) /\ e.item = current
      BY <1>1, <1>2, <3>2, HasAppend DEF Traced
    <3>3. CASE current \in Verify /\ gapped' = Append(gapped, current) /\ UNCHANGED <<log, results>>
      <4>1. /\ Len(gapped') = Len(gapped) + 1
            /\ \A i \in 1 .. Len(gapped) : gapped'[i] = gapped[i]
            /\ gapped'[Len(gapped) + 1] = current
        BY <1>2, <3>3
      <4>2. (\A item : In(gapped, item) => In(gapped', item)) /\ In(gapped', current)
        <5>1. Len(gapped) + 1 \in 1 .. Len(gapped')
              /\ \A i \in 1 .. Len(gapped) : i \in 1 .. Len(gapped')
          BY <1>2, <4>1
        <5> QED BY <4>1, <5>1 DEF In
      <4> QED BY <1>1, <1>2, <3>3, <4>1, <4>2 DEF Traced
    <3> QED BY <3>1, <3>2, <3>3
  <2>2. ASSUME NEW k \in 1 .. index + 1
        PROVE  IF queue[k] \in Verify THEN Has(results', queue[k]) \/ In(gapped', queue[k])
               ELSE Has(log', queue[k])
    <3>1. CASE k \in 1 .. index
      BY <1>1, <2>1, <3>1 DEF Traced, Gapped, In
    <3>2. CASE k = index + 1
      BY <1>0, <2>1, <3>2
    <3> QED BY <1>0, <3>1, <3>2
  <2>3. UNCHANGED queue
    OBVIOUS
  <2>4. Behind' = index + 1
    OBVIOUS
  <2> QED BY <1>0, <2>1, <2>2, <2>3, <2>4 DEF Traced, Gapped, In
<1>4. Accounted'
  BY <1>0, <1>3 DEF Accounted, Traced, Written
<1>5. GapsBehind'
  <2>1. ASSUME NEW i \in 1 .. Len(gapped') PROVE \E k \in 1 .. index + 1 : gapped'[i] = queue[k]
    <3>1. CASE i \in 1 .. Len(gapped) /\ gapped'[i] = gapped[i]
      <4>1. PICK k \in 1 .. index : gapped[i] = queue[k]
        BY <1>0, <1>1, <3>1 DEF Half, GapsBehind
      <4>2. k \in 1 .. index + 1
        BY <1>0
      <4> QED BY <3>1, <4>1, <4>2
    <3>2. CASE gapped'[i] = current
      <4>1. index + 1 \in 1 .. index + 1
        BY <1>0
      <4> QED BY <1>0, <3>2, <4>1
    <3>3. CASE gapped' = gapped
      BY <3>1, <3>3
    <3>4. CASE gapped' = Append(gapped, current)
      <4>1. /\ Len(gapped') = Len(gapped) + 1
            /\ \A j \in 1 .. Len(gapped) : gapped'[j] = gapped[j]
            /\ gapped'[Len(gapped) + 1] = current
        BY <1>2, <3>4
      <4>2. i \in 1 .. Len(gapped) \/ i = Len(gapped) + 1
        BY <1>2, <4>1
      <4> QED BY <3>1, <3>2, <4>1, <4>2
    <3> QED BY <3>3, <3>4
  <2> QED BY <2>1 DEF GapsBehind
<1> QED BY <1>0, <1>3, <1>4, <1>5 DEF Half

LEMMA HalfStep == Core /\ Half /\ [Next]_vars => Half'
<1> SUFFICES ASSUME Core, Half, [Next]_vars PROVE Half'
  OBVIOUS
<1>0. TypeOK /\ AtItem /\ ContextIsCurrent /\ Len(queue) \in Nat /\ index \in Nat
  BY DEF Core, TypeOK
<1>1. CASE Setup
  <2>1. pc = "setup" /\ pc' = "plan_work" /\ UNCHANGED <<queue, log, results, gapped>>
    BY <1>1 DEF Setup, Node
  <2>2. Behind = 0 /\ Behind' = 0
    BY <2>1 DEF Behind
  <2> QED BY <2>1, <2>2, HalfSame DEF Nodes
<1>2. CASE PlanWork
  <2>1. log' = <<>> /\ results' = <<>> /\ gapped' = <<>> /\ index' = 0 /\ pc' = RouteWork(queue', 0)
    BY <1>0, <1>2 DEF PlanWork, Node, AtItem
  <2>2. queue' \in Seq(Items) /\ Len(queue') \in Nat
    BY <1>0, <1>2, PlanQueue
  <2>3. \/ 0 = Len(queue') /\ pc' = "finalize_reproduction_sequence"
        \/ pc' = "prepare_verify" \/ pc' = "run_acquisition"
    BY <2>1, <2>2, Routed
  <2>4. Behind' = 0 /\ pc' \in Nodes /\ pc' # "end" /\ pc' # "raised"
    BY <2>1, <2>3 DEF Behind, Nodes
  <2>5. Traced(0)'
    BY <2>1 DEF Traced
  <2>6. Accounted'
    BY <2>1, <2>4 DEF Accounted, Written
  <2>7. GapsBehind'
    BY <2>1 DEF GapsBehind
  <2> QED BY <2>4, <2>5, <2>6, <2>7 DEF Half
<1>3. CASE RunAcquisition
  <2>1. pc = "run_acquisition" /\ pc' = "advance_work" /\ UNCHANGED <<queue, index, results, gapped>>
        /\ index < Len(queue) /\ current \notin Verify
    BY <1>0, <1>3 DEF RunAcquisition, Node, AtItem
  <2>2. \E e : log' = Append(log, e) /\ e.item = current
    <3>1. PICK status \in {"ok", "error"} : log' = Append(log, [item |-> current, status |-> status])
      BY <1>3 DEF RunAcquisition
    <3> QED BY <3>1
  <2>3. Behind' = index + 1
    BY <2>1 DEF Behind
  <2> QED BY <2>1, <2>2, <2>3, HalfMore DEF Nodes
<1>4. CASE PrepareGap
  <2>1. pc = "prepare_verify" /\ pc' = "advance_work" /\ UNCHANGED <<queue, index, log, results>>
        /\ index < Len(queue) /\ current \in Verify /\ gapped' = Append(gapped, current)
    BY <1>0, <1>4 DEF PrepareGap, Node, AtItem
  <2>2. Behind' = index + 1
    BY <2>1 DEF Behind
  <2> QED BY <2>1, <2>2, HalfMore DEF Nodes
<1>5. CASE PrepareReady
  <2>1. pc = "prepare_verify" /\ pc' = "dispatch_verify"
        /\ UNCHANGED <<queue, index, log, results, gapped>>
    BY <1>5 DEF PrepareReady, Node
  <2>2. Behind' = Behind
    BY <2>1 DEF Behind
  <2> QED BY <2>1, <2>2, HalfSame DEF Nodes
<1>6. CASE DispatchVerify
  <2>1. pc = "dispatch_verify" /\ UNCHANGED <<queue, index, log, gapped>>
        /\ index < Len(queue) /\ current \in Verify /\ context = current
    BY <1>0, <1>6 DEF DispatchVerify, Node, AtItem, ContextIsCurrent
  <2>2. \E e : results' = Append(results, e) /\ e.item = current
    <3>1. PICK v \in Verdicts : results' = Append(results, [item |-> context, verdict |-> v])
      BY <1>6 DEF DispatchVerify
    <3> QED BY <2>1, <3>1
  <2>3. Behind' = index + 1 /\ pc' \in Nodes
    <3>1. CASE index + 1 >= Len(queue)
      <4>1. pc' = "finalize_reproduction_sequence" /\ Len(queue) = index + 1
        BY <1>0, <1>6, <2>1, <3>1 DEF DispatchVerify, RouteAfterVerify
      <4> QED BY <2>1, <4>1 DEF Behind, Nodes
    <3>2. CASE ~(index + 1 >= Len(queue))
      <4>1. pc' = "advance_work"
        BY <1>6, <3>2 DEF DispatchVerify, RouteAfterVerify
      <4> QED BY <2>1, <4>1 DEF Behind, Nodes
    <3> QED BY <3>1, <3>2
  <2> QED BY <2>1, <2>2, <2>3, HalfMore
<1>7. CASE AdvanceWork
  <2>1. /\ pc = "advance_work" /\ index < Len(queue) /\ index' = index + 1
        /\ pc' = RouteWork(queue, index') /\ UNCHANGED <<queue, log, results, gapped>>
    BY <1>0, <1>7 DEF AdvanceWork, Node, AtItem
  <2>2. \/ index' = Len(queue) /\ pc' = "finalize_reproduction_sequence"
        \/ pc' = "prepare_verify" \/ pc' = "run_acquisition"
    BY <1>0, <2>1, Routed DEF TypeOK
  <2>3. Behind = index + 1 /\ Behind' = index + 1 /\ pc \in Nodes /\ pc' \in Nodes
    BY <2>1, <2>2 DEF Behind, Nodes
  <2> QED BY <2>1, <2>3, HalfSame
<1>8. CASE FinalizeSequence
  <2>1. pc = "finalize_reproduction_sequence" /\ pc' = "finalize"
        /\ UNCHANGED <<queue, log, results, gapped>>
    BY <1>8 DEF FinalizeSequence, Node
  <2>2. Behind' = Behind
    BY <2>1 DEF Behind
  <2> QED BY <2>1, <2>2, HalfSame DEF Nodes
<1>9. CASE Finalize
  <2>1. /\ pc = "finalize" /\ pc' = "end" /\ UNCHANGED <<queue, gapped>>
        /\ report' = [verdict |-> Reported, log |-> log, results |-> results]
    BY <1>9 DEF Finalize, Node
  <2>2. Behind = Len(queue) /\ Behind' = Len(queue) /\ pc' \notin Nodes
    BY <2>1 DEF Behind, Nodes
  <2>3. Traced(Len(queue))
    BY <2>1, <2>2 DEF Half, Nodes
  <2>4. Written' = report'
    BY <2>1 DEF Written
  <2>5. Accounted'
    BY <2>1, <2>2, <2>3, <2>4 DEF Accounted, Traced, Gapped
  <2>6. GapsBehind'
    BY <2>1, <2>2 DEF Half, GapsBehind
  <2> QED BY <2>2, <2>5, <2>6 DEF Half
<1>10. ASSUME NEW why \in {"gate", "error", "steps"}, Raise(why) PROVE Half'
  BY <1>10 DEF Raise, Half, Accounted, GapsBehind, Nodes
<1>11. CASE UNCHANGED vars
  BY <1>11 DEF vars, Half, Traced, Accounted, GapsBehind, Behind, Written, Gapped
<1> QED
  BY <1>1, <1>2, <1>3, <1>4, <1>5, <1>6, <1>7, <1>8, <1>9, <1>10, <1>11
     DEF Next, NodeStep, GateBlocks, NodeFails, OutOfSteps
-----------------------------------------------------------------------------
\* The verdict half way.
LEMMA InitVerdict == Init => VerdictSoFar
BY DEF Init, VerdictSoFar, Behind

\* A node that leaves the verdict alone, and as many items behind.
LEMMA VerdictSame ==
  ASSUME VerdictSoFar, pc \in Nodes, Behind' = Behind,
         UNCHANGED <<queue, results, gapped, verdict>>
  PROVE  VerdictSoFar'
BY DEF VerdictSoFar, LastGroup, Gapped

LEMMA VerdictStep == Core /\ Half /\ VerdictSoFar /\ [Next]_vars => VerdictSoFar'
<1> SUFFICES ASSUME Core, Half, VerdictSoFar, [Next]_vars PROVE VerdictSoFar'
  OBVIOUS
<1>0. TypeOK /\ AtItem /\ ContextIsCurrent /\ Ordered /\ Len(queue) \in Nat /\ index \in Nat
  BY DEF Core, TypeOK
<1>1. CASE Setup
  <2>1. pc = "setup" /\ pc' = "plan_work" /\ UNCHANGED <<queue, results, gapped, verdict>>
    BY <1>1 DEF Setup, Node
  <2>2. Behind = 0 /\ Behind' = 0
    BY <2>1 DEF Behind
  <2> QED BY <2>1, <2>2, VerdictSame DEF Nodes
<1>2. CASE PlanWork
  <2>1. index' = 0 /\ pc' = RouteWork(queue', 0) /\ verdict' \in {"unset", "PASS"}
    BY <1>0, <1>2 DEF PlanWork, Node, AtItem
  <2>2. queue' \in Seq(Items) /\ Len(queue') \in Nat
    BY <1>0, <1>2, PlanQueue
  <2>3. \/ 0 = Len(queue') /\ pc' = "finalize_reproduction_sequence"
        \/ pc' = "prepare_verify" \/ pc' = "run_acquisition"
    BY <2>1, <2>2, Routed
  <2>4. Behind' = 0
    BY <2>1, <2>3 DEF Behind
  <2> QED BY <2>1, <2>4 DEF VerdictSoFar
<1>3. CASE RunAcquisition
  <2>1. pc = "run_acquisition" /\ pc' = "advance_work" /\ UNCHANGED <<queue, index, results, gapped, verdict>>
        /\ index < Len(queue) /\ current \notin Verify
    BY <1>0, <1>3 DEF RunAcquisition, Node, AtItem
  <2>2. Behind = index /\ Behind' = index + 1 /\ queue[index + 1] \notin Verify
    BY <2>1 DEF Behind, current
  <2>3. (\A k \in 1 .. index + 1 : queue[k] \notin Verify) => verdict \in {"unset", "PASS"}
    BY <1>0, <2>1, <2>2 DEF VerdictSoFar, Nodes
  <2>4. ASSUME NEW k \in 1 .. index + 1, LastGroup(k, index + 1)
        PROVE  IF Gapped(queue[k]) THEN verdict = "INFO_GAP"
               ELSE results # <<>> /\ results[Len(results)] = [item |-> queue[k], verdict |-> verdict]
    <3>1. k \in 1 .. index
      BY <1>0, <2>2, <2>4 DEF LastGroup
    <3>2. LastGroup(k, index)
      BY <1>0, <2>4, <3>1 DEF LastGroup
    <3> QED BY <2>1, <2>2, <3>1, <3>2 DEF VerdictSoFar, Nodes
  <2> QED BY <2>1, <2>2, <2>3, <2>4 DEF VerdictSoFar, LastGroup, Gapped
<1>4. CASE PrepareGap
  <2>1. pc = "prepare_verify" /\ pc' = "advance_work" /\ UNCHANGED <<queue, index, results>>
        /\ index < Len(queue) /\ current \in Verify /\ gapped' = Append(gapped, current)
        /\ verdict' = "INFO_GAP"
    BY <1>0, <1>4 DEF PrepareGap, Node, AtItem
  <2>2. Behind' = index + 1 /\ queue[index + 1] \in Verify /\ index + 1 \in 1 .. index + 1
    BY <1>0, <2>1 DEF Behind, current
  <2>3. ASSUME NEW k \in 1 .. index + 1, LastGroup(k, index + 1) PROVE k = index + 1
    BY <1>0, <2>2, <2>3 DEF LastGroup
  <2>4. \E i \in 1 .. Len(gapped') : gapped'[i] = queue[index + 1]
    <3>1. gapped \in Seq(Verify) /\ Len(gapped) \in Nat
      BY <1>0 DEF TypeOK
    <3>2. Len(gapped) + 1 \in 1 .. Len(gapped') /\ gapped'[Len(gapped) + 1] = current
      BY <2>1, <3>1
    <3> QED BY <3>2 DEF current
  <2> QED BY <2>1, <2>2, <2>3, <2>4 DEF VerdictSoFar, LastGroup, Gapped
<1>5. CASE PrepareReady
  <2>1. pc = "prepare_verify" /\ pc' = "dispatch_verify"
        /\ UNCHANGED <<queue, index, results, gapped, verdict>>
    BY <1>5 DEF PrepareReady, Node
  <2>2. Behind' = Behind
    BY <2>1 DEF Behind
  <2> QED BY <2>1, <2>2, VerdictSame DEF Nodes
<1>6. CASE DispatchVerify
  <2>1. pc = "dispatch_verify" /\ UNCHANGED <<queue, index, gapped>>
        /\ index < Len(queue) /\ current \in Verify /\ context = current
    BY <1>0, <1>6 DEF DispatchVerify, Node, AtItem, ContextIsCurrent
  <2>2. results' # <<>> /\ results'[Len(results')] = [item |-> queue[index + 1], verdict |-> verdict']
    <3>1. PICK v \in Verdicts : verdict' = v /\ results' = Append(results, [item |-> context, verdict |-> v])
      BY <1>6 DEF DispatchVerify
    <3>2. results \in Seq([item : Verify, verdict : Verdicts])
      BY <1>0 DEF TypeOK
    <3> QED BY <2>1, <3>1, <3>2 DEF current
  <2>3. Behind' = index + 1
    <3>1. CASE index + 1 >= Len(queue)
      <4>1. pc' = "finalize_reproduction_sequence" /\ Len(queue) = index + 1
        BY <1>0, <1>6, <2>1, <3>1 DEF DispatchVerify, RouteAfterVerify
      <4> QED BY <2>1, <4>1 DEF Behind
    <3>2. CASE ~(index + 1 >= Len(queue))
      <4>1. pc' = "advance_work"
        BY <1>6, <3>2 DEF DispatchVerify, RouteAfterVerify
      <4> QED BY <2>1, <4>1 DEF Behind
    <3> QED BY <3>1, <3>2
  <2>4. queue[index + 1] \in Verify /\ index + 1 \in 1 .. index + 1 /\ index + 1 \in 1 .. Len(queue)
    BY <1>0, <2>1 DEF current
  <2>5. ~Gapped(queue[index + 1])
    <3> SUFFICES ASSUME NEW i \in 1 .. Len(gapped), gapped[i] = queue[index + 1] PROVE FALSE
      BY DEF Gapped
    <3>1. PICK k \in 1 .. index : gapped[i] = queue[k]
      BY <2>1 DEF Half, GapsBehind, Behind
    <3>2. k \in 1 .. Len(queue) /\ k < index + 1
      BY <1>0, <2>1
    <3>3. Precedes(queue[k], queue[index + 1])
      BY <1>0, <2>4, <3>2 DEF Ordered
    <3>4. queue[index + 1] \in Items
      BY <2>4, ItemKinds
    <3> QED BY <3>1, <3>3, <3>4, PrecedesStrict
  <2>6. ASSUME NEW k \in 1 .. index + 1, LastGroup(k, index + 1) PROVE k = index + 1
    BY <1>0, <2>4, <2>6 DEF LastGroup
  <2> QED BY <2>1, <2>2, <2>3, <2>4, <2>5, <2>6 DEF VerdictSoFar, LastGroup, Gapped
<1>7. CASE AdvanceWork
  <2>1. /\ pc = "advance_work" /\ index < Len(queue) /\ index' = index + 1
        /\ pc' = RouteWork(queue, index') /\ UNCHANGED <<queue, results, gapped, verdict>>
    BY <1>0, <1>7 DEF AdvanceWork, Node, AtItem
  <2>2. \/ index' = Len(queue) /\ pc' = "finalize_reproduction_sequence"
        \/ pc' = "prepare_verify" \/ pc' = "run_acquisition"
    BY <1>0, <2>1, Routed DEF TypeOK
  <2>3. Behind' = Behind
    BY <2>1, <2>2 DEF Behind
  <2> QED BY <2>1, <2>3, VerdictSame DEF Nodes
<1>8. CASE FinalizeSequence
  <2>1. pc = "finalize_reproduction_sequence" /\ pc' = "finalize"
        /\ UNCHANGED <<queue, results, gapped, verdict>>
    BY <1>8 DEF FinalizeSequence, Node
  <2>2. Behind' = Behind
    BY <2>1 DEF Behind
  <2> QED BY <2>1, <2>2, VerdictSame DEF Nodes
<1>9. CASE Finalize
  BY <1>9 DEF Finalize, VerdictSoFar, Nodes
<1>10. ASSUME NEW why \in {"gate", "error", "steps"}, Raise(why) PROVE VerdictSoFar'
  BY <1>10 DEF Raise, VerdictSoFar, Nodes
<1>11. CASE UNCHANGED vars
  BY <1>11 DEF vars, VerdictSoFar, Behind, LastGroup, Gapped
<1> QED
  BY <1>1, <1>2, <1>3, <1>4, <1>5, <1>6, <1>7, <1>8, <1>9, <1>10, <1>11
     DEF Next, NodeStep, GateBlocks, NodeFails, OutOfSteps

\* The last node reports what the verdict means.
LEMMA ReportStep ==
  Core /\ VerdictSoFar /\ VerdictOfLastGroup /\ [Next]_vars => VerdictOfLastGroup'
<1> SUFFICES ASSUME Core, VerdictSoFar, VerdictOfLastGroup, [Next]_vars, pc' = "end"
             PROVE  VerdictOfLastGroup'
  BY DEF VerdictOfLastGroup
<1>0. TypeOK /\ Len(queue) \in Nat
  BY DEF Core, TypeOK
<1>1. CASE Finalize
  <2>1. pc = "finalize" /\ report' = [verdict |-> Reported, log |-> log, results |-> results]
        /\ UNCHANGED <<queue, gapped>>
    BY <1>1 DEF Finalize, Node
  <2>2. Behind = Len(queue) /\ pc \in Nodes
    BY <2>1 DEF Behind, Nodes
  <2>3. (\A k \in 1 .. Len(queue) : queue[k] \notin Verify) => Reported = "PASS"
    BY <2>2 DEF VerdictSoFar, Reported
  <2>4. ASSUME NEW k \in 1 .. Len(queue), LastGroup(k, Len(queue))
        PROVE  IF Gapped(queue[k]) THEN Reported = "INFO_GAP"
               ELSE results # <<>> /\ results[Len(results)] = [item |-> queue[k], verdict |-> Reported]
    <3>1. IF Gapped(queue[k]) THEN verdict = "INFO_GAP"
          ELSE results # <<>> /\ results[Len(results)] = [item |-> queue[k], verdict |-> verdict]
      BY <2>2, <2>4 DEF VerdictSoFar
    <3>2. verdict # "unset"
      <4>1. CASE Gapped(queue[k])
        BY <3>1, <4>1
      <4>2. CASE ~Gapped(queue[k])
        <5>1. results \in Seq([item : Verify, verdict : Verdicts]) /\ results # <<>>
          BY <1>0, <3>1, <4>2 DEF TypeOK
        <5>2. results[Len(results)] \in [item : Verify, verdict : Verdicts]
          <6> DEFINE S == [item : Verify, verdict : Verdicts]
          <6>1. results \in Seq(S) /\ results # <<>>
            BY <5>1
          <6> HIDE DEF S
          <6>2. Len(results) \in 1 .. Len(results)
            BY <6>1, EmptySeq
          <6>3. results[Len(results)] \in S
            BY <6>1, <6>2, ElementOfSeq
          <6> QED BY <6>3 DEF S
        <5>3. verdict \in Verdicts
          BY <3>1, <4>2, <5>2
        <5> QED BY <5>3 DEF Verdicts
      <4> QED BY <4>1, <4>2
    <3> QED BY <3>1, <3>2 DEF Reported
  <2> QED BY <2>1, <2>3, <2>4 DEF VerdictOfLastGroup, LastGroup, Gapped
<1>2. CASE UNCHANGED vars
  BY <1>2 DEF vars, VerdictOfLastGroup, LastGroup, Gapped
<1>3. CASE Next /\ ~Finalize
  <2>1. pc' # "end"
    <3>1. CASE PlanWork \/ AdvanceWork
      <4>1. \/ pc' = RouteWork(queue', 0) \/ pc' = RouteWork(queue, index')
        BY <3>1 DEF PlanWork, AdvanceWork
      <4> QED BY <4>1 DEF RouteWork
    <3>2. CASE ~(PlanWork \/ AdvanceWork)
      BY <1>3, <3>2 DEF Next, NodeStep, Setup, RunAcquisition, PrepareGap, PrepareReady,
         DispatchVerify, FinalizeSequence, GateBlocks, NodeFails, OutOfSteps, Raise, RouteAfterVerify
    <3> QED BY <3>1, <3>2
  <2> QED BY <2>1
<1> QED BY <1>1, <1>2, <1>3
-----------------------------------------------------------------------------
IInv == Core /\ StepBound /\ ShortQueuesFit /\ FromQueue /\ Half /\ VerdictSoFar /\ VerdictOfLastGroup

LEMMA Inductive == Spec => []IInv
<1>1. Init => IInv
  <2>1. Init => ShortQueuesFit /\ VerdictOfLastGroup
    BY DEF Init, ShortQueuesFit, VerdictOfLastGroup
  <2> QED BY <2>1, InitCore, InitSteps, InitFromQueue, InitHalf, InitVerdict DEF IInv
<1>2. IInv /\ [Next]_vars => IInv'
  BY CoreStep, StepsStep, FitStep, FromQueueStep, HalfStep, VerdictStep, ReportStep DEF IInv
<1> QED BY <1>1, <1>2, PTL DEF Spec

\* A refresh of the project is behind the run when one of its groups is
\* dispatched.
LEMMA RefreshedFirst == IInv => RefreshedBeforeVerified
<1> SUFFICES ASSUME IInv, pc = "dispatch_verify", NEW k \in 1 .. Len(queue),
                    queue[k] \notin Verify, queue[k].project \in {0, context.project}
             PROVE  Has(log, queue[k])
  BY DEF RefreshedBeforeVerified
<1>0. /\ TypeOK /\ Ordered /\ index < Len(queue) /\ Len(queue) \in Nat /\ index \in Nat
      /\ context = current /\ current \in Verify /\ current = queue[index + 1]
      /\ index + 1 \in 1 .. Len(queue)
  BY DEF IInv, Core, AtItem, ContextIsCurrent, current, TypeOK
<1>1. queue[k] \in Items \ Verify
  BY <1>0, ElementOfSeq DEF TypeOK
<1>2. k <= index
  <2> SUFFICES ASSUME ~(k <= index) PROVE FALSE
    OBVIOUS
  <2>1. k # index + 1
    BY <1>0
  <2>2. Precedes(current, queue[k])
    BY <1>0, <2>1 DEF Ordered
  <2>3. /\ current.kind = "verify" /\ current.project \in Nat \ {0} /\ current.group \in Nat \ {0}
        /\ queue[k].kind \in RefreshKinds \cup {"project_search"} /\ queue[k].group = 0
    BY <1>0, <1>1, ItemKinds
  <2>4. Priority(current.kind) = 4
    BY <2>3 DEF Priority
  <2>5. Priority(queue[k].kind) \in 0 .. 4
    BY <2>3 DEF Priority, RefreshKinds
  <2>6. queue[k].project = 0 \/ queue[k].project = current.project
    BY <1>0
  <2> QED BY <2>2, <2>3, <2>4, <2>5, <2>6 DEF Precedes
<1>3. Traced(index)
  BY <1>0, BehindIs DEF IInv, Half, Nodes
<1>4. k \in 1 .. index
  BY <1>0, <1>2
<1> QED BY <1>1, <1>3, <1>4 DEF Traced

\* Nothing excluded when the queue was planned is verified in a workspace run.
LEMMA SkipsExcluded == IInv => ExcludedIsSkipped
BY DEF IInv, FromQueue, ExcludedIsSkipped

\* The state keeps its shape, and dispatch_verify finds the item at work_index
\* in project_id, stage, group and group_context (orchestrator.py:219-280).
THEOREM DispatchTypeCorrect == Spec => [](TypeOK /\ ContextIsCurrent)
BY Inductive, PTL DEF IInv, Core

\* plan_work's queue is worked off item by item, each leaving one trace
\* (orchestrator.py:337-345, :479-520).
THEOREM QueueAccounted == Spec => []Accounted
<1>1. IInv => Accounted
  BY DEF IInv, Half
<1> QED BY <1>1, Inductive, PTL

\* The verdict reported is the last group's (orchestrator.py:416).
THEOREM ReportsLastGroup == Spec => []VerdictOfLastGroup
<1>1. IInv => VerdictOfLastGroup
  BY DEF IInv
<1> QED BY <1>1, Inductive, PTL

\* sort_key puts a project's refreshes before its groups (orchestrator.py:114-119),
\* and groups that were excluded are not verified (orchestrator.py:120).
THEOREM OrderAndFilterHold == Spec => [](RefreshedBeforeVerified /\ ExcludedIsSkipped)
<1>1. IInv => RefreshedBeforeVerified /\ ExcludedIsSkipped
  BY RefreshedFirst, SkipsExcluded
<1> QED BY <1>1, Inductive, PTL

\* No invoke whose recursion limit allows three nodes an item and three more
\* runs into it (orchestrator.py:594).
THEOREM QueuesFitTheLimit == Spec => []ShortQueuesFit
<1>1. IInv => ShortQueuesFit
  BY DEF IInv
<1> QED BY <1>1, Inductive, PTL
=============================================================================
