--------------------------- MODULE ValidationLedger ---------------------------
(***************************************************************************)
(* The validation nodes of verify_group: the failing items of a gate are   *)
(* judged one by one, and meta/validation_state.yaml of the project keeps  *)
(* which items are excluded and which are still to be reproduced.  Runs    *)
(* of the project share that file; each loads it, works and saves it.      *)
(*                                                                         *)
(* VerifyGroup has the graph these nodes belong to; here a run goes        *)
(* through them round after round, may die in any of them, and may be      *)
(* resumed at the node it died in.                                         *)
(*                                                                         *)
(* A definition named ...Variant is the one after it with a mistake in it: *)
(* the mutants of PROJECT.json put it in the place of the right one.       *)
(***************************************************************************)
EXTENDS Integers, FiniteSets

CONSTANTS
  Runs,         \* run ids
  Groups,       \* groups of the project, with their stages
  Items,        \* item ids: the tiers of the CHECK.md files
  Answers,      \* the sources and sequence actions an LLM may answer with
  MaxRounds,    \* rounds of a run
  MaxFaults     \* deaths and timeouts modelled


Actions == {"note", "exclude", "reproduce"}  \* note: narrow_cause and continue_rest
Risky == {"continue_remaining", "partial_accept"}
\* in the order Python compares the names; "" is a judgment without one
Sequences == {"continue_remaining", "halt", "partial_accept", "retry_gate", ""}

ASSUME LedgerAssumption ==
  /\ Answers \subseteq [source : {"llm", "consensus"}, action : Sequences]
  /\ MaxRounds \in Nat /\ MaxFaults \in Nat

VARIABLES
  excluded,   \* excluded_items of validation_state.yaml
  pending,    \* pending_repro of validation_state.yaml
  group,      \* the group a run is about
  node,       \* the node a run is in, and how far
  judgment,   \* validation_judgment.json of a run
  copy,       \* what a run has loaded of validation_state.yaml
  executed,   \* executed_keys of run_pending_repro, as items
  rounds,     \* rounds a run has begun
  down,       \* runs whose process has died, and is not resumed
  faults,     \* deaths and timeouts so far
  requested,  \* history: items a run's judgments asked to reproduce
  ran,        \* history: items whose script a run has started or missed
  raced       \* history: a save put back an older file over a newer one

vars == <<excluded, pending, group, node, judgment, copy, executed, rounds, down, faults,
          requested, ran, raced>>

NameRank(action) ==
  CASE action = "" -> 0 [] action = "continue_remaining" -> 1 [] action = "halt" -> 2
    [] action = "partial_accept" -> 3 [] action = "retry_gate" -> 4

NoJudgment == [source |-> "none", action |-> "", items |-> [i \in Items |-> "note"]]
Ledgers == [excluded : SUBSET (Items \X Groups),
            pending : SUBSET [item : Items, group : Groups, run : Runs]]
Ledger == [excluded |-> excluded, pending |-> pending]
NoCopy == [excluded |-> {}, pending |-> {}]

Init ==
  /\ excluded = {}
  /\ pending = {}
  /\ group \in [Runs -> Groups]
  /\ node = [r \in Runs |-> "parse"]
  /\ judgment = [r \in Runs |-> NoJudgment]
  /\ copy = [r \in Runs |-> NoCopy]
  /\ executed = [r \in Runs |-> {}]
  /\ rounds = [r \in Runs |-> 0]
  /\ down = {}
  /\ faults = 0
  /\ requested = [r \in Runs |-> {}]
  /\ ran = [r \in Runs |-> {}]
  /\ raced = FALSE

At(r, n) == node[r] = n /\ r \notin down
Go(r, n) == node' = [node EXCEPT ![r] = n]
-----------------------------------------------------------------------------
(***************************************************************************)
(* The consensus on a judgment.                                            *)
(***************************************************************************)
Larger(a, b) == IF a > b THEN a ELSE b

\* compute_item_uncertainty, in ten-thousandths: f of t items fail
Uncertainty(f, t) ==
  IF f = 0 THEN 0
  ELSE Larger((10000 * f + t) \div (2 * t), IF f = 1 /\ t > 2 THEN 3500 ELSE 0)

\* only the uncertainty asks for a review
NeedsConsensusVariant(j, f, t) ==
  j.source # "consensus" /\ Uncertainty(f, t) >= 3000

NeedsConsensus(j, f, t) ==
  j.source # "consensus" /\ (j.action \in Risky \/ Uncertainty(f, t) >= 3000)

\* the votes for an action: how often each is named
Votes(primary, f, t) ==
  IF primary \in Risky THEN [a \in {primary, "retry_gate"} |-> IF a = primary THEN 1 ELSE 2]
  ELSE IF Uncertainty(f, t) >= 5000
    THEN [a \in {primary, "retry_gate"} |-> IF primary = "retry_gate" THEN 2 ELSE 1]
    ELSE [a \in {primary} |-> 2]

\* _vote_sequence_action: the most votes, and of those the last by name
Elected(votes) ==
  CHOOSE a \in DOMAIN votes :
    \A b \in DOMAIN votes :
      votes[b] < votes[a] \/ (votes[b] = votes[a] /\ NameRank(b) <= NameRank(a))

ApplyConsensus(j, f, t) ==
  IF ~NeedsConsensus(j, f, t) THEN j
  ELSE LET primary == IF j.action = "" THEN "retry_gate" ELSE j.action
       IN  [j EXCEPT !.source = "consensus", !.action = Elected(Votes(primary, f, t))]
-----------------------------------------------------------------------------
(***************************************************************************)
(* The nodes.                                                              *)
(***************************************************************************)
\* The items are found anew: a judgment of before is older and is removed.
Parse(r) ==
  /\ At(r, "parse")
  /\ rounds[r] < MaxRounds
  /\ rounds' = [rounds EXCEPT ![r] = @ + 1]
  /\ judgment' = [judgment EXCEPT ![r] = NoJudgment]
  /\ Go(r, "judge")
  /\ UNCHANGED <<excluded, pending, group, copy, executed, down, faults, requested, ran, raced>>

\* the LLM may name any action for any item; the source is llm unless it says so
LlmJudgments ==
  {[source |-> a.source, action |-> a.action, items |-> its] : a \in Answers, its \in [Items -> Actions]}

\* the stub only notes what fails
Mechanical == [NoJudgment EXCEPT !.source = "mechanical", !.action = "retry_gate"]

\* f of the items fail, of those not excluded in the group
Judge(r) ==
  /\ At(r, "judge")
  /\ \E j \in LlmJudgments \cup {Mechanical},
        f \in 0 .. Cardinality({i \in Items : <<i, group[r]>> \notin excluded}) :
       judgment' = [judgment EXCEPT ![r] =
                      IF judgment[r] = NoJudgment THEN ApplyConsensus(j, f, Cardinality(Items))
                      ELSE judgment[r]]
  /\ Go(r, "apply")
  /\ UNCHANGED <<excluded, pending, group, copy, executed, rounds, down, faults, requested, ran, raced>>

Load(r, from, to) ==
  /\ At(r, from)
  /\ copy' = [copy EXCEPT ![r] = Ledger]
  /\ executed' = [executed EXCEPT ![r] = {}]
  /\ Go(r, to)
  /\ UNCHANGED <<excluded, pending, group, judgment, rounds, down, faults, requested, ran, raced>>

ApplyLoad(r) == Load(r, "apply", "applying")

\* save_validation_state: the whole file
Save(r, ledger) ==
  /\ excluded' = ledger.excluded
  /\ pending' = ledger.pending
  /\ raced' = (raced \/ copy[r] # Ledger)

Asked(r, action) == {i \in Items : judgment[r].items[i] = action}

\* the exclusions of this judgment take the place of the earlier ones
ExcludedVariant(r) == Asked(r, "exclude") \X {group[r]}

\* excluded_items after apply_validation_judgment
Excluded(r) == copy[r].excluded \cup (Asked(r, "exclude") \X {group[r]})

\* an item that waits for another run is not added for this one
PendingAfterVariant(r) ==
  {p \in copy[r].pending : ~(p.group = group[r] /\ p.item \in Asked(r, "exclude"))}
    \cup {p \in [item : Asked(r, "reproduce"), group : {group[r]}, run : {r}] :
            \A q \in copy[r].pending : q.item # p.item}

\* pending_repro after it: an exclusion takes the item out, whichever run asked
PendingAfter(r) ==
  {p \in copy[r].pending : ~(p.group = group[r] /\ p.item \in Asked(r, "exclude"))}
    \cup [item : Asked(r, "reproduce"), group : {group[r]}, run : {r}]

ApplySave(r) ==
  /\ At(r, "applying")
  /\ Save(r, [excluded |-> Excluded(r), pending |-> PendingAfter(r)])
  /\ requested' = [requested EXCEPT ![r] = @ \cup Asked(r, "reproduce")]
  /\ Go(r, "repro")
  /\ UNCHANGED <<group, judgment, copy, executed, rounds, down, faults, ran>>

ReproLoad(r) == Load(r, "repro", "reproducing")

\* the entries run_pending_repro works on: those of this run and group
Own(r) == {p \in copy[r].pending : p.run = r /\ p.group = group[r]}
\* the entries are kept, not their items
ToDoVariant(r) == {p \in Own(r) : p \notin executed[r]}

\* those whose script has not been started or missed
ToDo(r) == {p.item : p \in Own(r)} \ executed[r]

\* a script ran, with whatever exit code, or is missing
ReproScript(r) ==
  /\ At(r, "reproducing")
  /\ \E i \in ToDo(r) :
       /\ executed' = [executed EXCEPT ![r] = @ \cup {i}]
       /\ ran' = [ran EXCEPT ![r] = @ \cup {i}]
  /\ UNCHANGED <<excluded, pending, group, node, judgment, copy, rounds, down, faults, requested, raced>>

\* route_after_apply_validation: to the gate, after which the run is back here
\* or, if it passes or gives up, through; a gate that failed is never evaluated
AfterRepro(r) ==
  IF judgment[r].action = "retry_gate" /\ rounds[r] < MaxRounds THEN {"parse", "done"} ELSE {"done"}

\* the entries of the run stay behind when their scripts have run
RemainingVariant(r) == copy[r].pending \ {p \in Own(r) : p.item \notin executed[r]}

\* what is left of pending_repro
Remaining(r) == copy[r].pending \ {p \in Own(r) : p.item \in executed[r]}

\* nothing is saved when there was nothing to do
ReproSave(r) ==
  /\ At(r, "reproducing")
  /\ ToDo(r) = {}
  /\ IF executed[r] = {} THEN UNCHANGED <<excluded, pending, raced>>
     ELSE Save(r, [excluded |-> copy[r].excluded, pending |-> Remaining(r)])
  /\ \E to \in AfterRepro(r) : Go(r, to)
  /\ UNCHANGED <<group, judgment, copy, executed, rounds, down, faults, requested, ran>>
-----------------------------------------------------------------------------
(***************************************************************************)
(* Deaths, and scripts past their timeout, whose exception ends the run.   *)
(***************************************************************************)
\* the node a resumed run begins again
Entry(n) == CASE n = "applying" -> "apply" [] n = "reproducing" -> "repro" [] OTHER -> n

Die(r) ==
  /\ r \notin down /\ node[r] # "done" /\ faults < MaxFaults
  /\ down' = down \cup {r}
  /\ faults' = faults + 1
  /\ Go(r, Entry(node[r]))
  /\ copy' = [copy EXCEPT ![r] = NoCopy]
  /\ executed' = [executed EXCEPT ![r] = {}]
  /\ UNCHANGED <<excluded, pending, group, judgment, rounds, requested, ran, raced>>

\* session_tick takes up an interrupted session
Resume(r) ==
  /\ r \in down
  /\ down' = down \ {r}
  /\ UNCHANGED <<excluded, pending, group, node, judgment, copy, executed, rounds, faults,
                 requested, ran, raced>>

Step(r) ==
  \/ Parse(r) \/ Judge(r) \/ ApplyLoad(r) \/ ApplySave(r)
  \/ ReproLoad(r) \/ ReproScript(r) \/ ReproSave(r)

Next == \E r \in Runs : Step(r) \/ Die(r) \/ Resume(r)

\* a process that has not died runs its nodes one after the other
Spec == Init /\ [][Next]_vars /\ \A r \in Runs : WF_vars(Step(r))
-----------------------------------------------------------------------------
(***************************************************************************)
(* Properties.                                                             *)
(***************************************************************************)
TypeOK ==
  /\ excluded \subseteq Items \X Groups
  /\ pending \subseteq [item : Items, group : Groups, run : Runs]
  /\ group \in [Runs -> Groups]
  /\ node \in [Runs -> {"parse", "judge", "apply", "applying", "repro", "reproducing", "done"}]
  /\ judgment \in [Runs -> [source : {"none", "llm", "mechanical", "consensus"},
                            action : Sequences, items : [Items -> Actions]]]
  /\ copy \in [Runs -> Ledgers]
  /\ executed \in [Runs -> SUBSET Items]
  /\ rounds \in [Runs -> 0 .. MaxRounds]
  /\ down \subseteq Runs
  /\ faults \in 0 .. MaxFaults
  /\ requested \in [Runs -> SUBSET Items]
  /\ ran \in [Runs -> SUBSET Items]
  /\ raced \in BOOLEAN

\* The run works on a copy of the file that is no longer what the file says.
Stale(r) == node[r] \in {"applying", "reproducing"} /\ copy[r] # Ledger

\* "exclude: writes meta/validation_state.yaml" (validation_autonomy_spec.yaml):
\* an item that was excluded stays excluded; only a run that saves a copy
\* loaded before (validation_autonomy.py:372, :486) takes an exclusion back.
ExclusionsStay ==
  [][(\E r \in Runs : Stale(r) /\ node'[r] # node[r]) \/ excluded \subseteq excluded']_vars

\* A run that is through, timeouts and deaths on the way included, has tried
\* whatever a judgment of it asked to reproduce, if it was not excluded since
\* (validation_autonomy.py:418-433), and leaves no entry in the file:
\* run_pending_repro works on the entries of its own run_id only (:487-494),
\* so nobody else would take it up.
FinishedRunsAreThrough ==
  ~raced =>
    \A r \in Runs : node[r] = "done" =>
      /\ \A i \in requested[r] : i \in ran[r] \/ <<i, group[r]>> \in excluded
      /\ \A p \in pending : p.run # r

\* Only an LLM's own judgment may go on past failing items
\* (verify_routing.py:114-118), and two of the three votes are against it
\* (validation_consensus.py:75-78): no judgment that may do so is ever applied.
NothingIsWaved ==
  \A r \in Runs : ~(judgment[r].source = "llm" /\ judgment[r].action \in Risky)

\* "run_pending_repro runs scripts/repro_*.sh" (validation_autonomy_spec.yaml):
\* every entry leaves the file, unless its run has died or a save raced.
PendingIsWorkedOff ==
  \A i \in Items, g \in Groups, r \in Runs :
    [item |-> i, group |-> g, run |-> r] \in pending
      ~> ([item |-> i, group |-> g, run |-> r] \notin pending \/ r \in down \/ raced)
=============================================================================
