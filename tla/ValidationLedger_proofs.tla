----------------------- MODULE ValidationLedger_proofs -----------------------
(***************************************************************************)
(* Theorems about ValidationLedger, for any runs, groups, items and        *)
(* answers of the LLM, and any number of rounds, deaths and timeouts.      *)
(***************************************************************************)
EXTENDS ValidationLedger, TLAPS

Judgments ==
  [source : {"none", "llm", "mechanical", "consensus"},
   action : Sequences, items : [Items -> Actions]]

\* the actions a judgment may name
Named == Sequences \ {""}

(***************************************************************************)
(* The order of the names is one: retry_gate is the last of them.          *)
(***************************************************************************)
LEMMA RankOfNames ==
  ASSUME NEW a \in Named
  PROVE  NameRank(a) <= NameRank(a) /\ NameRank(a) <= NameRank("retry_gate")
<1>1. a \in {"continue_remaining", "halt", "partial_accept", "retry_gate"}
  BY DEF Named, Sequences
<1>2. /\ NameRank("continue_remaining") = 1 /\ NameRank("halt") = 2
      /\ NameRank("partial_accept") = 3 /\ NameRank("retry_gate") = 4
  BY DEF NameRank
<1>3. 1 <= 1 /\ 2 <= 2 /\ 3 <= 3 /\ 1 <= 4 /\ 2 <= 4 /\ 3 <= 4 /\ 4 <= 4
  OBVIOUS
<1>4. QED
  BY <1>1, <1>2, <1>3, Zenon

(***************************************************************************)
(* A vote elects one of the actions voted for: the order of the names      *)
(* leaves no tie.                                                          *)
(***************************************************************************)
LEMMA ElectedType ==
  ASSUME NEW primary \in Named, NEW f, NEW t
  PROVE  Elected(Votes(primary, f, t)) \in Sequences
<1> DEFINE Beats(v, a, b) == v[b] < v[a] \/ (v[b] = v[a] /\ NameRank(b) <= NameRank(a))
<1>1. ASSUME NEW v, NEW a \in DOMAIN v, \A b \in DOMAIN v : Beats(v, a, b),
             DOMAIN v \subseteq Sequences
      PROVE  Elected(v) \in Sequences
  BY <1>1 DEF Elected
<1>2. primary \in Sequences /\ "retry_gate" \in Sequences /\ "retry_gate" \in Named
  BY DEF Named, Sequences
<1>3. CASE primary \in Risky
  <2> DEFINE v == [a \in {primary, "retry_gate"} |-> IF a = primary THEN 1 ELSE 2]
  <2>1. Votes(primary, f, t) = v
    BY <1>3 DEF Votes
  <2>2. DOMAIN v = {primary, "retry_gate"} /\ v[primary] = 1 /\ v["retry_gate"] = 2
    BY <1>3 DEF Risky
  <2>3. 1 < 2
    OBVIOUS
  <2> HIDE DEF v
  <2>4. Beats(v, "retry_gate", primary) /\ Beats(v, "retry_gate", "retry_gate")
    BY <1>2, <2>2, <2>3, RankOfNames, Zenon
  <2>5. Elected(v) \in Sequences
    BY <1>1, <1>2, <2>2, <2>4
  <2>6. QED
    BY <2>1, <2>5
<1>4. CASE primary \notin Risky
  <2> DEFINE v == [a \in {primary, "retry_gate"} |-> IF primary = "retry_gate" THEN 2 ELSE 1]
             w == [a \in {primary} |-> 2]
  <2>1. Votes(primary, f, t) = IF Uncertainty(f, t) >= 5000 THEN v ELSE w
    BY <1>4 DEF Votes
  <2>2. DOMAIN v = {primary, "retry_gate"} /\ v[primary] = v["retry_gate"]
    OBVIOUS
  <2>3. DOMAIN w = {primary}
    OBVIOUS
  <2> HIDE DEF v, w
  <2>4. /\ Beats(v, "retry_gate", primary) /\ Beats(v, "retry_gate", "retry_gate")
        /\ Beats(w, primary, primary)
    BY <1>2, <2>2, RankOfNames, Zenon
  <2>5. Elected(v) \in Sequences /\ Elected(w) \in Sequences
    BY <1>1, <1>2, <2>2, <2>3, <2>4
  <2>6. QED
    BY <2>1, <2>5
<1>5. QED
  BY <1>3, <1>4

Waves(j) == j.source = "llm" /\ j.action \in Risky

(***************************************************************************)
(* The consensus yields a judgment, and never one of an LLM that goes on   *)
(* past failing items.                                                     *)
(***************************************************************************)
LEMMA ConsensusType ==
  ASSUME NEW j \in Judgments, NEW f, NEW t
  PROVE  ApplyConsensus(j, f, t) \in Judgments /\ ~Waves(ApplyConsensus(j, f, t))
<1>1. CASE ~NeedsConsensus(j, f, t)
  BY <1>1 DEF ApplyConsensus, NeedsConsensus, Waves
<1>2. CASE NeedsConsensus(j, f, t)
  <2> DEFINE primary == IF j.action = "" THEN "retry_gate" ELSE j.action
             elected == Elected(Votes(primary, f, t))
  <2>1. primary \in Named
    BY DEF Judgments, Named, Sequences
  <2>2. elected \in Sequences
    BY <2>1, ElectedType
  <2>3. ApplyConsensus(j, f, t) = [j EXCEPT !.source = "consensus", !.action = elected]
    BY <1>2 DEF ApplyConsensus
  <2> HIDE DEF elected
  <2>4. QED
    BY <2>2, <2>3 DEF Judgments, Waves
<1>3. QED
  BY <1>1, <1>2

(***************************************************************************)
(* The judgments of the LLM and of the stub are judgments.                 *)
(***************************************************************************)
LEMMA AnswersType == LlmJudgments \cup {Mechanical} \subseteq Judgments
<1>1. LlmJudgments \subseteq Judgments
  BY LedgerAssumption DEF LlmJudgments, Judgments
<1>2. NoJudgment \in Judgments
  BY DEF NoJudgment, Judgments, Sequences, Actions
<1>3. Mechanical \in Judgments
  BY <1>2 DEF Mechanical, Judgments, Sequences
<1>4. QED
  BY <1>1, <1>3

(***************************************************************************)
(* What a node makes of its copy of the file is again such a file.         *)
(***************************************************************************)
LEMMA LedgerType ==
  ASSUME TypeOK, NEW r \in Runs
  PROVE  /\ Ledger \in Ledgers
         /\ Excluded(r) \subseteq Items \X Groups
         /\ PendingAfter(r) \subseteq [item : Items, group : Groups, run : Runs]
         /\ copy[r].excluded \subseteq Items \X Groups
         /\ Remaining(r) \subseteq [item : Items, group : Groups, run : Runs]
<1>1. copy[r].excluded \subseteq Items \X Groups
      /\ copy[r].pending \subseteq [item : Items, group : Groups, run : Runs]
  BY DEF TypeOK, Ledgers
<1>2. group[r] \in Groups
  BY DEF TypeOK
<1>3. Ledger \in Ledgers
  BY DEF TypeOK, Ledger, Ledgers
<1>4. Excluded(r) \subseteq Items \X Groups
  BY <1>1, <1>2 DEF Excluded, Asked
<1>5. PendingAfter(r) \subseteq [item : Items, group : Groups, run : Runs]
  BY <1>1, <1>2 DEF PendingAfter, Asked
<1>6. Remaining(r) \subseteq [item : Items, group : Groups, run : Runs]
  BY <1>1 DEF Remaining
<1>7. QED
  BY <1>1, <1>3, <1>4, <1>5, <1>6

(***************************************************************************)
(* The variables start well-typed ...                                      *)
(***************************************************************************)
LEMMA TypeInit ==
  ASSUME Init
  PROVE  TypeOK
<1>1. NoJudgment \in Judgments /\ NoCopy \in Ledgers
  BY DEF NoJudgment, Judgments, NoCopy, Ledgers, Sequences, Actions
<1>2. /\ judgment \in [Runs -> Judgments] /\ copy \in [Runs -> Ledgers]
      /\ rounds \in [Runs -> 0 .. MaxRounds] /\ faults \in 0 .. MaxFaults
  BY <1>1, LedgerAssumption DEF Init
<1>3. QED
  BY <1>2 DEF Init, TypeOK, Judgments

(***************************************************************************)
(* ... and every step keeps them so.                                       *)
(***************************************************************************)
LEMMA TypeStep ==
  ASSUME TypeOK, [Next]_vars
  PROVE  TypeOK'
<1>0. /\ judgment \in [Runs -> Judgments]
      /\ rounds \in [Runs -> 0 .. MaxRounds] /\ MaxRounds \in Nat
      /\ faults \in 0 .. MaxFaults /\ MaxFaults \in Nat
  BY LedgerAssumption DEF TypeOK, Judgments
<1>1. ASSUME NEW r \in Runs, Parse(r) PROVE TypeOK'
  <2>1. NoJudgment \in Judgments
    BY DEF NoJudgment, Judgments, Sequences, Actions
  <2>2. judgment' \in [Runs -> Judgments]
    BY <1>0, <1>1, <2>1 DEF Parse
  <2>3. rounds' \in [Runs -> 0 .. MaxRounds]
    BY <1>0, <1>1 DEF Parse
  <2>4. QED
    BY <1>1, <2>2, <2>3 DEF Parse, Go, TypeOK, Judgments
<1>2. ASSUME NEW r \in Runs, Judge(r) PROVE TypeOK'
  <2>1. PICK j \in LlmJudgments \cup {Mechanical},
             f \in 0 .. Cardinality({i \in Items : <<i, group[r]>> \notin excluded}) :
          judgment' = [judgment EXCEPT ![r] =
                         IF judgment[r] = NoJudgment THEN ApplyConsensus(j, f, Cardinality(Items))
                         ELSE judgment[r]]
    BY <1>2 DEF Judge
  <2>2. ApplyConsensus(j, f, Cardinality(Items)) \in Judgments
    BY AnswersType, ConsensusType
  <2>3. judgment' \in [Runs -> Judgments]
    BY <1>0, <2>1, <2>2
  <2>4. QED
    BY <1>2, <2>3 DEF Judge, Go, TypeOK, Judgments
<1>3. ASSUME NEW r \in Runs, ApplyLoad(r) \/ ReproLoad(r) PROVE TypeOK'
  <2>1. copy' \in [Runs -> Ledgers] /\ executed' \in [Runs -> SUBSET Items]
    <3>1. copy' = [copy EXCEPT ![r] = Ledger] /\ executed' = [executed EXCEPT ![r] = {}]
      BY <1>3 DEF ApplyLoad, ReproLoad, Load
    <3>2. copy \in [Runs -> Ledgers] /\ executed \in [Runs -> SUBSET Items] /\ Ledger \in Ledgers
      BY LedgerType DEF TypeOK
    <3>3. QED
      BY <3>1, <3>2
  <2>2. node' \in [Runs -> {"parse", "judge", "apply", "applying", "repro", "reproducing", "done"}]
    BY <1>3 DEF ApplyLoad, ReproLoad, Load, Go, TypeOK
  <2>3. UNCHANGED <<excluded, pending, group, judgment, rounds, down, faults, requested, ran, raced>>
    BY <1>3 DEF ApplyLoad, ReproLoad, Load
  <2>4. QED
    BY <2>1, <2>2, <2>3 DEF TypeOK
<1>4. ASSUME NEW r \in Runs, ApplySave(r) PROVE TypeOK'
  <2>1. /\ excluded' \subseteq Items \X Groups
        /\ pending' \subseteq [item : Items, group : Groups, run : Runs]
        /\ raced' \in BOOLEAN
    BY <1>4, LedgerType DEF ApplySave, Save, TypeOK
  <2>2. requested' \in [Runs -> SUBSET Items]
    BY <1>4 DEF ApplySave, Asked, TypeOK
  <2>3. QED
    BY <1>4, <2>1, <2>2 DEF ApplySave, Go, TypeOK
<1>5. ASSUME NEW r \in Runs, ReproScript(r) PROVE TypeOK'
  <2>1. PICK i \in ToDo(r) : /\ executed' = [executed EXCEPT ![r] = @ \cup {i}]
                             /\ ran' = [ran EXCEPT ![r] = @ \cup {i}]
    BY <1>5 DEF ReproScript
  <2>2. i \in Items
    BY <2>1 DEF ToDo, Own, TypeOK, Ledgers
  <2>3. QED
    BY <1>5, <2>1, <2>2 DEF ReproScript, TypeOK
<1>6. ASSUME NEW r \in Runs, ReproSave(r) PROVE TypeOK'
  <2>1. /\ excluded' \subseteq Items \X Groups
        /\ pending' \subseteq [item : Items, group : Groups, run : Runs]
        /\ raced' \in BOOLEAN
    BY <1>6, LedgerType DEF ReproSave, Save, TypeOK
  <2>2. node' \in [Runs -> {"parse", "judge", "apply", "applying", "repro", "reproducing", "done"}]
    BY <1>6 DEF ReproSave, AfterRepro, Go, TypeOK
  <2>3. QED
    BY <1>6, <2>1, <2>2 DEF ReproSave, TypeOK
<1>7. ASSUME NEW r \in Runs, Die(r) PROVE TypeOK'
  <2>1. NoCopy \in Ledgers
    BY DEF NoCopy, Ledgers
  <2>2. faults' \in 0 .. MaxFaults
    BY <1>0, <1>7 DEF Die
  <2>3. QED
    BY <1>7, <2>1, <2>2 DEF Die, Go, Entry, TypeOK
<1>8. ASSUME NEW r \in Runs, Resume(r) PROVE TypeOK'
  BY <1>8 DEF Resume, TypeOK
<1>9. CASE UNCHANGED vars
  BY <1>9 DEF vars, TypeOK
<1>10. QED
  BY <1>1, <1>2, <1>3, <1>4, <1>5, <1>6, <1>7, <1>8, <1>9 DEF Next, Step

(***************************************************************************)
(* The file, the runs' copies of it and their judgments keep their shape.  *)
(***************************************************************************)
THEOREM LedgerTypeCorrect == Spec => []TypeOK
<1>1. Init => TypeOK
  BY TypeInit
<1>2. TypeOK /\ [Next]_vars => TypeOK'
  BY TypeStep
<1>3. QED
  BY <1>1, <1>2, PTL DEF Spec

-----------------------------------------------------------------------------
(***************************************************************************)
(* No judgment of an LLM alone that would go on past failing items is ever *)
(* in force: whatever the LLM answers, the consensus takes it over.        *)
(***************************************************************************)
THEOREM NothingWaved == Spec => []NothingIsWaved
<1> DEFINE Inv == TypeOK /\ NothingIsWaved
<1>1. Init => Inv
  <2>1. Init => TypeOK
    BY TypeInit
  <2>2. Init => NothingIsWaved
    <3>1. NoJudgment.source = "none"
      BY DEF NoJudgment
    <3>2. Init => \A r \in Runs : judgment[r] = NoJudgment
      BY DEF Init
    <3>3. QED
      BY <3>1, <3>2 DEF NothingIsWaved
  <2>3. QED
    BY <2>1, <2>2
<1>2. Inv /\ [Next]_vars => Inv'
  <2> SUFFICES ASSUME Inv, [Next]_vars PROVE NothingIsWaved'
    BY TypeStep
  <2>1. ASSUME NEW r \in Runs, Parse(r) PROVE NothingIsWaved'
    BY <2>1 DEF Parse, NothingIsWaved, NoJudgment, TypeOK
  <2>2. ASSUME NEW r \in Runs, Judge(r) PROVE NothingIsWaved'
    <3>1. PICK j \in LlmJudgments \cup {Mechanical},
               f \in 0 .. Cardinality({i \in Items : <<i, group[r]>> \notin excluded}) :
            judgment' = [judgment EXCEPT ![r] =
                           IF judgment[r] = NoJudgment THEN ApplyConsensus(j, f, Cardinality(Items))
                           ELSE judgment[r]]
      BY <2>2 DEF Judge
    <3>2. ~Waves(ApplyConsensus(j, f, Cardinality(Items)))
      BY AnswersType, ConsensusType
    <3>3. \A q \in Runs : ~Waves(judgment'[q])
      BY <3>1, <3>2 DEF NothingIsWaved, Waves, TypeOK
    <3>4. QED
      BY <3>3 DEF NothingIsWaved, Waves
  <2>3. ASSUME UNCHANGED judgment PROVE NothingIsWaved'
    BY <2>3 DEF NothingIsWaved
  <2>4. QED
    BY <2>1, <2>2, <2>3 DEF Next, Step, ApplyLoad, ApplySave, ReproLoad, Load,
       ReproScript, ReproSave, Die, Resume, vars
<1>3. Inv => NothingIsWaved
  OBVIOUS
<1>4. QED
  BY <1>1, <1>2, <1>3, PTL DEF Spec

(***************************************************************************)
(* An exclusion goes only when a run saves a copy that is no longer what   *)
(* the file says, for any number of runs and deaths.                       *)
(***************************************************************************)
THEOREM ExclusionsHold == Spec => ExclusionsStay
<1> DEFINE Held == (\E r \in Runs : Stale(r) /\ node'[r] # node[r]) \/ excluded \subseteq excluded'
<1>1. TypeOK /\ [Next]_vars => [Held]_vars
  <2> SUFFICES ASSUME TypeOK, [Next]_vars PROVE Held \/ UNCHANGED vars
    OBVIOUS
  <2>1. ASSUME NEW r \in Runs, ApplySave(r) PROVE Held
    <3>1. node[r] = "applying" /\ node'[r] = "repro" /\ excluded' = Excluded(r)
      BY <2>1 DEF ApplySave, At, Go, Save, TypeOK
    <3>2. CASE copy[r] = Ledger
      BY <3>1, <3>2 DEF Excluded, Ledger
    <3>3. CASE copy[r] # Ledger
      BY <3>1, <3>3 DEF Stale
    <3>4. QED
      BY <3>2, <3>3
  <2>2. ASSUME NEW r \in Runs, ReproSave(r) PROVE Held
    <3>1. node[r] = "reproducing" /\ node'[r] \in {"parse", "done"}
      BY <2>2 DEF ReproSave, At, Go, AfterRepro, TypeOK
    <3>2. excluded' = excluded \/ excluded' = copy[r].excluded
      BY <2>2 DEF ReproSave, Save
    <3>3. CASE copy[r] = Ledger
      BY <3>2, <3>3 DEF Ledger
    <3>4. CASE copy[r] # Ledger
      BY <3>1, <3>4 DEF Stale
    <3>5. QED
      BY <3>3, <3>4
  <2>3. ASSUME UNCHANGED excluded PROVE Held
    BY <2>3
  <2>4. QED
    BY <2>1, <2>2, <2>3 DEF Next, Step, Parse, Judge, ApplyLoad, ReproLoad, Load,
       ReproScript, Die, Resume
<1>2. QED
  BY <1>1, LedgerTypeCorrect, PTL DEF Spec, ExclusionsStay

-----------------------------------------------------------------------------
(***************************************************************************)
(* What makes FinishedRunsAreThrough inductive, as long as no save raced.  *)
(* An entry is of the group of the run that asked for it ...               *)
(***************************************************************************)
OwnGroup == \A p \in pending : p.group = group[p.run]

EntryOf(i, r) == [item |-> i, group |-> group[r], run |-> r]

\* ... an item asked for is tried, excluded or still waiting ...
Remembered(r) ==
  \A i \in requested[r] :
    i \in ran[r] \/ <<i, group[r]>> \in excluded \/ EntryOf(i, r) \in pending

\* ... a run that works its entries off has all of them in its copy ...
CopyHolds(r) ==
  node[r] = "reproducing" => \A p \in pending : p.run = r => p \in copy[r].pending

\* ... and one that is through has none.
NothingLeft(r) == node[r] = "done" => \A p \in pending : p.run # r

Books ==
  /\ \A r \in Runs : executed[r] \subseteq ran[r]
  /\ ~raced => /\ OwnGroup
               /\ \A r \in Runs : Remembered(r) /\ CopyHolds(r) /\ NothingLeft(r)

(***************************************************************************)
(* A step of r that leaves the file and the histories alone, and r itself  *)
(* neither working entries off nor through, keeps the books.               *)
(***************************************************************************)
LEMMA QuietKeepsBooks ==
  ASSUME Books, NEW r \in Runs,
         UNCHANGED <<excluded, pending, group, requested, ran, raced>>,
         node'[r] \notin {"reproducing", "done"}, executed'[r] \subseteq executed[r],
         \A q \in Runs \ {r} : node'[q] = node[q] /\ copy'[q] = copy[q] /\ executed'[q] = executed[q]
  PROVE  Books'
<1>1. \A q \in Runs : executed'[q] \subseteq ran'[q]
  BY DEF Books
<1>2. ASSUME ~raced PROVE OwnGroup' /\ \A q \in Runs : Remembered(q)'
  BY <1>2 DEF Books, OwnGroup, Remembered, EntryOf
<1>3. ASSUME ~raced, NEW q \in Runs PROVE CopyHolds(q)' /\ NothingLeft(q)'
  <2>1. CASE q = r
    BY <2>1 DEF CopyHolds, NothingLeft
  <2>2. CASE q # r
    BY <1>3, <2>2 DEF Books, CopyHolds, NothingLeft
  <2>3. QED
    BY <2>1, <2>2
<1>4. QED
  BY <1>1, <1>2, <1>3 DEF Books

(***************************************************************************)
(* Every step keeps the books.                                             *)
(***************************************************************************)
LEMMA BooksStep ==
  ASSUME TypeOK, Books, [Next]_vars
  PROVE  Books'
<1>0. /\ node \in [Runs -> {"parse", "judge", "apply", "applying", "repro", "reproducing", "done"}]
      /\ copy \in [Runs -> Ledgers]
      /\ executed \in [Runs -> SUBSET Items]
      /\ requested \in [Runs -> SUBSET Items] /\ ran \in [Runs -> SUBSET Items]
      /\ pending \subseteq [item : Items, group : Groups, run : Runs]
      /\ group \in [Runs -> Groups]
      /\ \A r \in Runs : executed[r] \subseteq ran[r]
  BY DEF TypeOK, Books
<1>1. ASSUME NEW r \in Runs, Parse(r) \/ Judge(r) PROVE Books'
  <2>1. /\ UNCHANGED <<excluded, pending, group, copy, executed, requested, ran, raced>>
        /\ node'[r] \in {"judge", "apply"} /\ \A q \in Runs \ {r} : node'[q] = node[q]
    BY <1>0, <1>1 DEF Parse, Judge, Go
  <2>2. QED
    BY <2>1, QuietKeepsBooks
<1>2. ASSUME NEW r \in Runs, ApplyLoad(r) \/ Die(r) PROVE Books'
  <2>1. UNCHANGED <<excluded, pending, group, requested, ran, raced>>
    BY <1>2 DEF ApplyLoad, Load, Die
  <2>2. node'[r] \notin {"reproducing", "done"}
    BY <1>0, <1>2 DEF ApplyLoad, Load, Die, Go, Entry
  <2>3. /\ executed'[r] = {}
        /\ \A q \in Runs \ {r} :
             node'[q] = node[q] /\ copy'[q] = copy[q] /\ executed'[q] = executed[q]
    BY <1>0, <1>2 DEF ApplyLoad, Load, Die, Go
  <2>4. QED
    BY <2>1, <2>2, <2>3, QuietKeepsBooks
<1>3. ASSUME NEW r \in Runs, ReproLoad(r) PROVE Books'
  <2>1. UNCHANGED <<excluded, pending, group, requested, ran, raced>>
    BY <1>3 DEF ReproLoad, Load
  <2>2. /\ node'[r] = "reproducing" /\ copy'[r].pending = pending /\ executed'[r] = {}
        /\ \A q \in Runs \ {r} :
             node'[q] = node[q] /\ copy'[q] = copy[q] /\ executed'[q] = executed[q]
    BY <1>0, <1>3 DEF ReproLoad, Load, Go, Ledger
  <2>3. \A q \in Runs : executed'[q] \subseteq ran'[q]
    BY <1>0, <2>1, <2>2
  <2>4. ASSUME ~raced PROVE OwnGroup' /\ \A q \in Runs : Remembered(q)'
    BY <2>1, <2>4 DEF Books, OwnGroup, Remembered, EntryOf
  <2>5. ASSUME ~raced, NEW q \in Runs PROVE CopyHolds(q)' /\ NothingLeft(q)'
    BY <2>1, <2>2, <2>5 DEF Books, CopyHolds, NothingLeft
  <2>6. QED
    BY <2>1, <2>3, <2>4, <2>5 DEF Books
<1>4. ASSUME NEW r \in Runs, ApplySave(r) PROVE Books'
  <2>1. /\ node[r] = "applying" /\ node'[r] = "repro"
        /\ \A q \in Runs \ {r} : node'[q] = node[q]
        /\ UNCHANGED <<group, copy, executed, ran>>
    BY <1>0, <1>4 DEF ApplySave, At, Go
  <2>2. /\ excluded' = Excluded(r) /\ pending' = PendingAfter(r)
        /\ raced' = (raced \/ copy[r] # Ledger)
        /\ requested' = [requested EXCEPT ![r] = @ \cup Asked(r, "reproduce")]
    BY <1>4 DEF ApplySave, Save
  <2>3. \A q \in Runs : executed'[q] \subseteq ran'[q]
    BY <1>0, <2>1
  <2>4. ASSUME ~raced'
        PROVE  OwnGroup' /\ \A q \in Runs : Remembered(q)' /\ CopyHolds(q)' /\ NothingLeft(q)'
    <3>0. ~raced /\ copy[r] = Ledger
      BY <2>2, <2>4, Zenon
    <3>1. ~raced /\ copy[r].pending = pending /\ copy[r].excluded = excluded
      BY <3>0 DEF Ledger
    <3>2. \A p \in pending' :
            p \in pending \/ (p.run = r /\ p.group = group[r])
      BY <1>0, <2>2, <3>1 DEF PendingAfter
    <3>3. OwnGroup'
      BY <2>1, <3>1, <3>2 DEF Books, OwnGroup
    <3>4. ASSUME NEW q \in Runs, NEW i \in requested'[q]
          PROVE  i \in ran[q] \/ <<i, group[q]>> \in excluded' \/ EntryOf(i, q) \in pending'
      <4>1. i \in requested[q] \/ (q = r /\ i \in Asked(r, "reproduce"))
        BY <1>0, <2>2, <3>4
      <4>2. CASE q = r /\ i \in Asked(r, "reproduce")
        BY <1>0, <2>2, <4>2 DEF PendingAfter, EntryOf
      <4>3. CASE i \in requested[q]
        <5>1. i \in ran[q] \/ <<i, group[q]>> \in excluded \/ EntryOf(i, q) \in pending
          BY <3>1, <4>3 DEF Books, Remembered
        <5>2. EntryOf(i, q).group = group[q] /\ EntryOf(i, q).item = i
          BY DEF EntryOf
        <5>3. CASE EntryOf(i, q) \in pending /\ group[q] = group[r] /\ i \in Asked(r, "exclude")
          BY <2>2, <5>3 DEF Excluded
        <5>4. CASE EntryOf(i, q) \in pending /\ ~(group[q] = group[r] /\ i \in Asked(r, "exclude"))
          BY <2>2, <3>1, <5>2, <5>4 DEF PendingAfter
        <5>5. CASE <<i, group[q]>> \in excluded
          BY <2>2, <3>1, <5>5 DEF Excluded
        <5>6. QED
          BY <5>1, <5>3, <5>4, <5>5
      <4>4. QED
        BY <4>1, <4>2, <4>3
    <3>5. \A q \in Runs : Remembered(q)'
      BY <2>1, <3>4 DEF Remembered, EntryOf
    <3>6. ASSUME NEW q \in Runs PROVE CopyHolds(q)' /\ NothingLeft(q)'
      BY <2>1, <3>1, <3>2, <3>6 DEF Books, CopyHolds, NothingLeft
    <3>7. QED
      BY <3>3, <3>5, <3>6
  <2>5. QED
    BY <2>3, <2>4 DEF Books
<1>5. ASSUME NEW r \in Runs, ReproScript(r) PROVE Books'
  <2>1. PICK i \in ToDo(r) : /\ executed' = [executed EXCEPT ![r] = @ \cup {i}]
                             /\ ran' = [ran EXCEPT ![r] = @ \cup {i}]
    BY <1>5 DEF ReproScript
  <2>2. UNCHANGED <<excluded, pending, group, node, copy, requested, raced>>
    BY <1>5 DEF ReproScript
  <2>3. \A q \in Runs : executed'[q] \subseteq ran'[q] /\ ran[q] \subseteq ran'[q]
    BY <1>0, <2>1
  <2>4. ASSUME ~raced, NEW q \in Runs PROVE Remembered(q)' /\ CopyHolds(q)' /\ NothingLeft(q)'
    <3>1. Remembered(q) /\ CopyHolds(q) /\ NothingLeft(q)
      BY <2>4 DEF Books
    <3>2. Remembered(q)'
      BY <2>2, <2>3, <3>1 DEF Remembered, EntryOf
    <3>3. QED
      BY <2>2, <3>1, <3>2 DEF CopyHolds, NothingLeft
  <2>5. ~raced => OwnGroup'
    BY <2>2 DEF Books, OwnGroup
  <2>6. QED
    BY <2>2, <2>3, <2>4, <2>5 DEF Books
<1>6. ASSUME NEW r \in Runs, ReproSave(r) PROVE Books'
  <2>1. /\ node[r] = "reproducing" /\ node'[r] \in {"parse", "done"}
        /\ \A q \in Runs \ {r} : node'[q] = node[q]
        /\ ToDo(r) = {}
        /\ UNCHANGED <<group, copy, executed, requested, ran>>
    BY <1>0, <1>6 DEF ReproSave, At, Go, AfterRepro
  <2>2. \A q \in Runs : executed'[q] \subseteq ran'[q]
    BY <1>0, <2>1
  <2>3. CASE executed[r] = {}
    <3>1. UNCHANGED <<excluded, pending, raced>>
      BY <1>6, <2>3 DEF ReproSave
    <3>2. ASSUME ~raced, NEW p \in pending PROVE p.run # r
      <4>1. OwnGroup /\ CopyHolds(r)
        BY <3>2 DEF Books
      <4>2. ASSUME p.run = r PROVE p.item \in ToDo(r)
        BY <2>1, <2>3, <3>2, <4>1, <4>2 DEF OwnGroup, CopyHolds, ToDo, Own
      <4>3. QED
        BY <2>1, <4>2
    <3>3. ASSUME ~raced PROVE OwnGroup' /\ \A q \in Runs : Remembered(q)'
      BY <2>1, <3>1, <3>3 DEF Books, OwnGroup, Remembered, EntryOf
    <3>4. ASSUME ~raced, NEW q \in Runs PROVE CopyHolds(q)' /\ NothingLeft(q)'
      BY <2>1, <3>1, <3>2, <3>4 DEF Books, CopyHolds, NothingLeft
    <3>5. QED
      BY <2>2, <3>1, <3>3, <3>4 DEF Books
  <2>4. CASE executed[r] # {}
    <3>1. /\ excluded' = copy[r].excluded /\ pending' = Remaining(r)
          /\ raced' = (raced \/ copy[r] # Ledger)
      BY <1>6, <2>4 DEF ReproSave, Save
    <3>2. ASSUME ~raced'
          PROVE  OwnGroup' /\ \A q \in Runs : Remembered(q)' /\ CopyHolds(q)' /\ NothingLeft(q)'
      <4>0. ~raced /\ copy[r] = Ledger
        BY <3>1, <3>2, Zenon
      <4>1. ~raced /\ copy[r].pending = pending /\ excluded' = excluded
        BY <3>1, <4>0 DEF Ledger
      <4>2. pending' \subseteq pending
        BY <3>1, <4>1 DEF Remaining
      <4>3. OwnGroup'
        BY <2>1, <4>1, <4>2 DEF Books, OwnGroup
      <4>4. ASSUME NEW p \in pending, p \notin pending' PROVE p.run = r /\ p.item \in ran[r]
        BY <1>0, <3>1, <4>1, <4>4 DEF Remaining, Own
      <4>5. \A p \in pending' : p.run # r
        <5>1. \A p \in pending : p.run = r => p \in Own(r)
          BY <4>1 DEF Books, OwnGroup, Own
        <5>2. \A p \in Own(r) : p.item \in executed[r]
          BY <2>1 DEF ToDo
        <5>3. QED
          BY <3>1, <4>2, <5>1, <5>2 DEF Remaining
      <4>6. ASSUME NEW q \in Runs PROVE Remembered(q)'
        <5>1. ASSUME NEW i \in requested[q], EntryOf(i, q) \in pending
              PROVE  i \in ran[q] \/ EntryOf(i, q) \in pending'
          <6>1. EntryOf(i, q).run = q /\ EntryOf(i, q).item = i
            BY DEF EntryOf
          <6>2. QED
            BY <4>4, <5>1, <6>1
        <5>2. Remembered(q)
          BY <4>1 DEF Books
        <5>3. QED
          BY <2>1, <4>1, <5>1, <5>2 DEF Remembered, EntryOf
      <4>7. ASSUME NEW q \in Runs PROVE CopyHolds(q)' /\ NothingLeft(q)'
        BY <2>1, <4>1, <4>2, <4>5, <4>7 DEF Books, CopyHolds, NothingLeft
      <4>8. QED
        BY <4>3, <4>6, <4>7
    <3>3. QED
      BY <2>2, <3>2 DEF Books
  <2>5. QED
    BY <2>3, <2>4
<1>7. ASSUME UNCHANGED <<excluded, pending, group, node, copy, executed, requested, ran, raced>>
      PROVE  Books'
  BY <1>7 DEF Books, OwnGroup, Remembered, EntryOf, CopyHolds, NothingLeft
<1>8. QED
  BY <1>1, <1>2, <1>3, <1>4, <1>5, <1>6, <1>7 DEF Next, Step, Resume, vars

(***************************************************************************)
(* As long as no save raced, a run that is through has tried whatever it   *)
(* was asked to reproduce, or it was excluded since, and no entry of it    *)
(* waits in the file: for any number of runs, rounds, deaths and timeouts. *)
(***************************************************************************)
THEOREM FinishedThrough == Spec => []FinishedRunsAreThrough
<1> DEFINE Inv == TypeOK /\ Books
<1>1. Init => Inv
  <2>1. Init => Books
    BY DEF Init, Books, OwnGroup, Remembered, CopyHolds, NothingLeft
  <2>2. QED
    BY <2>1, TypeInit
<1>2. Inv /\ [Next]_vars => Inv'
  BY TypeStep, BooksStep
<1>3. Inv => FinishedRunsAreThrough
  <2> SUFFICES ASSUME Books, ~raced, NEW r \in Runs, node[r] = "done"
               PROVE  /\ \A i \in requested[r] : i \in ran[r] \/ <<i, group[r]>> \in excluded
                      /\ \A p \in pending : p.run # r
    BY DEF FinishedRunsAreThrough
  <2>1. Remembered(r) /\ NothingLeft(r)
    BY DEF Books
  <2>2. \A p \in pending : p.run # r
    BY <2>1 DEF NothingLeft
  <2>3. \A i : EntryOf(i, r).run = r
    BY DEF EntryOf
  <2>4. QED
    BY <2>1, <2>2, <2>3 DEF Remembered
<1>4. QED
  BY <1>1, <1>2, <1>3, PTL DEF Spec

=============================================================================
