------------------------ MODULE TrustRegistry_proofs ------------------------
(***************************************************************************)
(* Proofs about TrustRegistry, for any number of processes, scripts, tags, *)
(* scores and deaths: types; what a process holds of the registry and the  *)
(* tag unless others have changed it; and from that what a promotion, a    *)
(* rejection and a touch of the tag can rely on.                           *)
(***************************************************************************)
EXTENDS TrustRegistry, FiniteSetTheorems, TLAPS

LEMMA ClampInScale ==
  ASSUME NEW n \in Int
  PROVE  Clamp(n) \in 0 .. TrustMax
  BY TrustAssumption DEF Clamp

LEMMA AfterRunIsRecord ==
  ASSUME NEW rec \in Records, NEW passed \in BOOLEAN
  PROVE  AfterRun(rec, passed) \in Records
<1>1. rec.trust + (IF passed THEN PassDelta ELSE -FailDelta) \in Int
  BY TrustAssumption DEF Records
<1>2. Clamp(rec.trust + IF passed THEN PassDelta ELSE -FailDelta) \in 0 .. TrustMax
  BY <1>1, ClampInScale
<1>3. (IF rec.runs < MinRuns THEN rec.runs + 1 ELSE rec.runs) \in 0 .. MinRuns
  BY TrustAssumption DEF Records
<1>4. (IF rec.status \in {"absent", "spawned"} THEN "draft" ELSE rec.status) \in Statuses
  BY DEF Records, Statuses
<1>5. (rec.tied \/ rec.status = "absent") \in BOOLEAN
  BY DEF Records
<1> QED BY <1>2, <1>3, <1>4, <1>5 DEF AfterRun, Records

LEMMA DecideIsRecord ==
  ASSUME NEW rec \in Records, NEW trust \in 0 .. TrustMax,
         NEW branch \in {"approve", "reject", "refused"}
  PROVE  Decide(rec, branch, trust) \in Records
  BY DEF Decide, Records, Statuses

LEMMA ListedIsRecord ==
  ASSUME NEW rec \in Records
  PROVE  Listed(rec) \in Records
  BY DEF Listed, Records, Statuses

LEMMA DemotedIsRecord ==
  ASSUME NEW rec \in Records
  PROVE  Demoted(rec) \in Records /\ ~(Demoted(rec).tied /\ Demoted(rec).status = "canonical")
  BY DEF Demoted, Records, Statuses

LEMMA FirstRecords == {Unknown, Spawned} \subseteq Records
  BY TrustAssumption DEF Unknown, Spawned, Records, Statuses

(***************************************************************************)
(* Types.                                                                  *)
(***************************************************************************)
Outcomes == [passed : BOOLEAN, allowed : BOOLEAN, decision : {"approve", "defer", "reject"},
             trust : 0 .. TrustMax, epoch : Nat]
Wants == [tag : Tags, then : {"idle", "ready"}]

\* the types a step may write; what it leaves alone keeps its type
FileTypes == tag \in Tags /\ upstream \in 0 .. MaxTag /\ due \in BOOLEAN /\ registry \in [Scripts -> Records]
LocalTypes ==
  /\ pc \in [Procs -> Places] /\ seen \in [Procs -> Tags] /\ want \in [Procs -> Wants]
  /\ copy \in [Procs -> [Scripts -> Records]] /\ script \in [Procs -> Scripts]
  /\ outcome \in [Procs -> Outcomes]
DecisionTypes ==
  /\ epoch \in Nat /\ earned \in [Scripts -> Nat] /\ decided \in [Scripts -> {"approve", "defer", "reject"}]
  /\ overtaken \in [Procs -> BOOLEAN] /\ crashes \in 0 .. MaxCrashes
MissTypes == missed \in [Procs -> SUBSET Scripts] /\ tainted \in SUBSET Scripts

LEMMA TypeParts == TypeOK <=> FileTypes /\ LocalTypes /\ DecisionTypes /\ MissTypes
  BY DEF TypeOK, FileTypes, LocalTypes, DecisionTypes, MissTypes, Outcomes, Wants

LEMMA FirstValues ==
  /\ NoOutcome \in Outcomes /\ NoWant \in Wants /\ NoCopy \in [Scripts -> Records]
  /\ {NoTag, UnknownTag} \subseteq Tags /\ 0 .. MaxTag \subseteq Tags
  BY TrustAssumption, FirstRecords
  DEF NoOutcome, Outcomes, NoWant, Wants, NoCopy, NoTag, UnknownTag, Tags

LEMMA TouchedType == ASSUME NEW t \in Tags PROVE Touched(t) \in Tags
  BY FirstValues DEF Touched

LEMMA InitType == Init => TypeOK
<1> SUFFICES ASSUME Init PROVE TypeOK
  OBVIOUS
<1>1. FileTypes
  <2>1. tag \in Tags /\ upstream \in 0 .. MaxTag
    BY TrustAssumption DEF Init, Tags, NoTag, UnknownTag
  <2> QED BY <2>1, FirstRecords DEF Init, FileTypes
<1>2. LocalTypes
  <2>1. pc \in [Procs -> Places] /\ seen \in [Procs -> Tags] /\ script \in [Procs -> Scripts]
    BY FirstValues DEF Init, Places
  <2>2. want \in [Procs -> Wants] /\ outcome \in [Procs -> Outcomes] /\ copy \in [Procs -> [Scripts -> Records]]
    <3> HIDE DEF Wants, Outcomes
    <3> QED BY FirstValues DEF Init
  <2> QED BY <2>1, <2>2 DEF LocalTypes
<1>3. DecisionTypes /\ MissTypes
  BY TrustAssumption DEF Init, DecisionTypes, MissTypes
<1> QED BY <1>1, <1>2, <1>3, TypeParts

\* A save writes a registry of records and leaves the writer without its copy.
LEMMA SaveTypes ==
  ASSUME TypeOK, NEW p \in Procs, NEW new \in [Scripts -> Records], Save(p, new)
  PROVE  /\ registry' \in [Scripts -> Records]
         /\ copy' \in [Procs -> [Scripts -> Records]]
         /\ missed' \in [Procs -> SUBSET Scripts]
<1>1. copy' \in [Procs -> [Scripts -> Records]]
  BY FirstValues DEF TypeOK, Save, Drop
<1>2. missed' \in [Procs -> SUBSET Scripts]
  BY DEF TypeOK, Save
<1> QED BY <1>1, <1>2 DEF Save

LEMMA WriteBackTypes ==
  ASSUME TypeOK, NEW p \in Procs, NEW new \in [Scripts -> Records], WriteBack(p, new)
  PROVE  /\ registry' \in [Scripts -> Records]
         /\ copy' \in [Procs -> [Scripts -> Records]]
         /\ MissTypes'
<1>1. tainted' \in SUBSET Scripts
  BY DEF TypeOK, WriteBack, Outdated
<1> QED BY <1>1, SaveTypes DEF WriteBack, MissTypes

LEMMA TagStepType ==
  ASSUME TypeOK, NEW p \in Procs, TagStep(p)
  PROVE  TypeOK'
<1>0. FileTypes /\ LocalTypes /\ DecisionTypes /\ MissTypes
  BY TypeParts
<1>1. CASE FetchNewTag(p) \/ TouchTag(p) \/ CliTagReplace(p)
  <2>1. PICK t \in Tags, then \in {"idle", "ready"} :
          want' = [want EXCEPT ![p] = [tag |-> t, then |-> then]]
    BY <1>0, <1>1, FirstValues, TouchedType DEF FileTypes, LocalTypes, FetchNewTag, TouchTag, CliTagReplace
  <2>2. [tag |-> t, then |-> then] \in Wants
    BY DEF Wants
  <2>3. pc' \in [Procs -> Places]
    BY <1>0, <1>1 DEF LocalTypes, Places, Goto, FetchNewTag, TouchTag, CliTagReplace
  <2>4. UNCHANGED <<files, upstream, seen, copy, script, outcome, history>>
    BY <1>1 DEF FetchNewTag, TouchTag, CliTagReplace
  <2>5. LocalTypes'
    BY <1>0, <2>1, <2>2, <2>3, <2>4 DEF LocalTypes
  <2>6. (FileTypes /\ DecisionTypes /\ MissTypes)'
    BY <1>0, <2>4 DEF FileTypes, DecisionTypes, MissTypes, files, history, marks
  <2> QED BY <2>5, <2>6, TypeParts, PTL
<1>2. CASE SaveCache(p)
  <2>1. FileTypes'
    BY <1>0, <1>2 DEF FileTypes, LocalTypes, Wants, SaveCache
  <2>2. pc' \in [Procs -> Places] /\ seen' \in [Procs -> Tags]
    BY <1>0, <1>2, FirstValues DEF LocalTypes, Places, Goto, SaveCache
  <2>3. LocalTypes'
    BY <1>0, <1>2, <2>2 DEF LocalTypes, SaveCache
  <2>4. epoch' \in Nat /\ overtaken' \in [Procs -> BOOLEAN]
    <3>1. epoch' \in {epoch, epoch + 1} /\ epoch \in Nat
      BY <1>0, <1>2 DEF DecisionTypes, SaveCache
    <3>2. \A q \in Procs : (IF q = p THEN FALSE
            ELSE overtaken[q] \/ (want[p].tag # tag /\ pc[q] \in {"due", "fetched"})) \in BOOLEAN
      BY <1>0 DEF DecisionTypes
    <3>3. overtaken' \in [Procs -> BOOLEAN]
      BY <1>2, <3>2, Zenon DEF SaveCache
    <3> QED BY <3>1, <3>3
  <2>5. (DecisionTypes /\ MissTypes)'
    BY <1>0, <1>2, <2>4 DEF DecisionTypes, MissTypes, SaveCache
  <2> QED BY <2>1, <2>3, <2>5, TypeParts, PTL
<1>3. CASE LoadForDemotion(p)
  <2>1. pc' \in [Procs -> Places] /\ copy' \in [Procs -> [Scripts -> Records]] /\ missed' \in [Procs -> SUBSET Scripts]
    BY <1>0, <1>3 DEF FileTypes, LocalTypes, MissTypes, Places, Goto, Load, LoadForDemotion
  <2>2. UNCHANGED <<files, upstream, seen, want, script, outcome, unmissed>>
    BY <1>3 DEF LoadForDemotion
  <2>3. (FileTypes /\ LocalTypes /\ DecisionTypes /\ MissTypes)'
    BY <1>0, <2>1, <2>2 DEF FileTypes, LocalTypes, DecisionTypes, MissTypes, files, unmissed, decisions
  <2> QED BY <2>3, TypeParts, PTL
<1>4. CASE SaveDemoted(p)
  <2>1. pc' \in [Procs -> Places]
    BY <1>0, <1>4 DEF LocalTypes, Wants, Places, Goto, SaveDemoted
  <2>2. [s \in Scripts |-> Demoted(copy[p][s])] \in [Scripts -> Records]
    BY <1>0, DemotedIsRecord DEF LocalTypes
  <2>3. registry' \in [Scripts -> Records] /\ copy' \in [Procs -> [Scripts -> Records]] /\ MissTypes'
    <3>1. CASE WriteBack(p, [s \in Scripts |-> Demoted(copy[p][s])])
      BY <2>2, <3>1, WriteBackTypes
    <3>2. CASE Drop(p) /\ UNCHANGED <<registry, missed, tainted>>
      BY <1>0, <3>2, FirstValues DEF FileTypes, LocalTypes, MissTypes, Drop
    <3> QED BY <1>4, <3>1, <3>2 DEF SaveDemoted
  <2>4. want' \in [Procs -> Wants]
    BY <1>0, <1>4, FirstValues DEF LocalTypes, SaveDemoted
  <2>5. UNCHANGED <<tag, due, upstream, seen, script, outcome, decisions>>
    BY <1>4 DEF SaveDemoted
  <2>6. (FileTypes /\ LocalTypes /\ DecisionTypes)'
    BY <1>0, <2>1, <2>3, <2>4, <2>5 DEF FileTypes, LocalTypes, DecisionTypes, decisions
  <2> QED BY <2>3, <2>6, TypeParts, PTL
<1> QED BY <1>1, <1>2, <1>3, <1>4 DEF TagStep

LEMMA RunStepType ==
  ASSUME TypeOK, NEW p \in Procs, RunStep(p)
  PROVE  TypeOK'
<1>0. FileTypes /\ LocalTypes /\ DecisionTypes /\ MissTypes
  BY TypeParts
<1>1. CASE LoadContext(p)
  <2>1. pc' \in [Procs -> Places]
    BY <1>0, <1>1 DEF LocalTypes, Places, Goto, LoadContext
  <2>2. seen' \in [Procs -> Tags] /\ script' \in [Procs -> Scripts] /\ overtaken' \in [Procs -> BOOLEAN]
    BY <1>0, <1>1 DEF FileTypes, LocalTypes, DecisionTypes, LoadContext
  <2>3. UNCHANGED <<files, upstream, want, copy, outcome, epoch, earned, decided, missed, tainted, crashes>>
    BY <1>1 DEF LoadContext
  <2>4. (FileTypes /\ LocalTypes /\ DecisionTypes /\ MissTypes)'
    BY <1>0, <2>1, <2>2, <2>3 DEF FileTypes, LocalTypes, DecisionTypes, MissTypes, files
  <2> QED BY <2>4, TypeParts, PTL
<1>2. CASE RunGate(p) \/ EvaluateScript(p) \/ NextAttempt(p)
  <2>1. pc' \in [Procs -> Places]
    BY <1>0, <1>2 DEF LocalTypes, Places, Goto, RunGate, EvaluateScript, NextAttempt
  <2>2. PICK o \in Outcomes : outcome' = [outcome EXCEPT ![p] = o]
    <3>1. CASE RunGate(p)
      <4>1. PICK passed \in BOOLEAN : outcome' = [outcome EXCEPT ![p].passed = passed]
        BY <3>1 DEF RunGate
      <4>2. outcome' = [outcome EXCEPT ![p] = [outcome[p] EXCEPT !.passed = passed]]
        BY <4>1
      <4>3. [outcome[p] EXCEPT !.passed = passed] \in Outcomes
        BY <1>0 DEF LocalTypes, Outcomes
      <4> QED BY <4>2, <4>3
    <3>2. CASE EvaluateScript(p)
      <4>1. PICK trust \in 0 .. TrustMax, decision \in {"approve", "defer", "reject"} :
              outcome' = [outcome EXCEPT ![p] =
                [passed |-> TRUE, allowed |-> registry[script[p]].runs >= MinRuns,
                 decision |-> decision, trust |-> trust, epoch |-> epoch]]
        BY <3>2 DEF EvaluateScript
      <4>2. [passed |-> TRUE, allowed |-> registry[script[p]].runs >= MinRuns,
             decision |-> decision, trust |-> trust, epoch |-> epoch] \in Outcomes
        BY <1>0 DEF Outcomes, DecisionTypes
      <4> QED BY <4>1, <4>2
    <3>3. CASE NextAttempt(p)
      BY <3>3, FirstValues DEF NextAttempt, Forget
    <3> QED BY <1>2, <3>1, <3>2, <3>3
  <2>3. UNCHANGED <<files, upstream, seen, want, copy, script, history>>
    BY <1>2 DEF RunGate, EvaluateScript, NextAttempt
  <2>4. LocalTypes'
    BY <1>0, <2>1, <2>2, <2>3 DEF LocalTypes
  <2>5. (FileTypes /\ DecisionTypes /\ MissTypes)'
    BY <1>0, <2>3 DEF FileTypes, DecisionTypes, MissTypes, files, history, marks
  <2> QED BY <2>4, <2>5, TypeParts, PTL
<1>3. CASE SkipTrustUpdate(p)
  <2>1. (FileTypes /\ LocalTypes /\ DecisionTypes /\ MissTypes)'
    BY <1>0, <1>3 DEF FileTypes, LocalTypes, DecisionTypes, MissTypes, Places, Goto, files, locals,
                      history, marks, SkipTrustUpdate
  <2> QED BY <2>1, TypeParts, PTL
<1>4. CASE LoadForUpdate(p) \/ LoadForPromotion(p)
  <2>1. /\ pc' \in [Procs -> Places] /\ copy' \in [Procs -> [Scripts -> Records]]
        /\ missed' \in [Procs -> SUBSET Scripts]
    BY <1>0, <1>4 DEF FileTypes, LocalTypes, MissTypes, Places, Goto, Load, LoadForUpdate, LoadForPromotion
  <2>2. UNCHANGED <<files, upstream, seen, want, script, outcome, unmissed>>
    BY <1>4 DEF LoadForUpdate, LoadForPromotion
  <2>3. (FileTypes /\ LocalTypes /\ DecisionTypes /\ MissTypes)'
    BY <1>0, <2>1, <2>2 DEF FileTypes, LocalTypes, DecisionTypes, MissTypes, files, unmissed, decisions
  <2> QED BY <2>3, TypeParts, PTL
<1>5. CASE SaveUpdate(p)
  <2>1. [copy[p] EXCEPT ![script[p]] = AfterRun(@, outcome[p].passed)] \in [Scripts -> Records]
    BY <1>0, AfterRunIsRecord DEF LocalTypes, Outcomes
  <2>2. registry' \in [Scripts -> Records] /\ copy' \in [Procs -> [Scripts -> Records]] /\ MissTypes'
    BY <1>5, <2>1, WriteBackTypes DEF SaveUpdate
  <2>3. pc' \in [Procs -> Places]
    BY <1>0, <1>5 DEF LocalTypes, Places, Goto, SaveUpdate
  <2>4. UNCHANGED <<tag, due, upstream, seen, want, script, outcome, decisions>>
    BY <1>5 DEF SaveUpdate
  <2>5. (FileTypes /\ LocalTypes /\ DecisionTypes)'
    BY <1>0, <2>2, <2>3, <2>4 DEF FileTypes, LocalTypes, DecisionTypes, decisions
  <2> QED BY <2>2, <2>5, TypeParts, PTL
<1>6. CASE SavePromotion(p)
  <2>1. PICK branch \in PromotionBranch(p) :
          /\ Save(p, [copy[p] EXCEPT ![script[p]] = Decide(Listed(@), branch, outcome[p].trust)])
          /\ tainted' = IF branch # "approve" THEN Outdated(p, registry')
                        ELSE {r \in Outdated(p, registry') \cup {script[p]} :
                                r = script[p] => outcome[p].epoch # epoch}
          /\ decided' = [decided EXCEPT ![script[p]] = IF branch = "refused" THEN @ ELSE branch]
          /\ earned' = [earned EXCEPT ![script[p]] = IF branch = "approve" THEN outcome[p].epoch ELSE @]
    BY <1>6 DEF SavePromotion
  <2>2. branch \in {"approve", "reject", "refused"}
    BY <2>1 DEF PromotionBranch
  <2>3. [copy[p] EXCEPT ![script[p]] = Decide(Listed(@), branch, outcome[p].trust)] \in [Scripts -> Records]
    <3>1. outcome[p].trust \in 0 .. TrustMax /\ script[p] \in Scripts /\ copy[p] \in [Scripts -> Records]
      BY <1>0 DEF LocalTypes, Outcomes
    <3>2. Decide(Listed(copy[p][script[p]]), branch, outcome[p].trust) \in Records
      BY <2>2, <3>1, ListedIsRecord, DecideIsRecord
    <3> QED BY <3>1, <3>2
  <2>4. /\ registry' \in [Scripts -> Records] /\ copy' \in [Procs -> [Scripts -> Records]]
        /\ missed' \in [Procs -> SUBSET Scripts]
    BY <2>1, <2>3, SaveTypes
  <2>5. tainted' \in SUBSET Scripts
    BY <1>0, <2>1 DEF MissTypes, LocalTypes, Outdated
  <2>6. decided' \in [Scripts -> {"approve", "defer", "reject"}] /\ earned' \in [Scripts -> Nat]
    BY <1>0, <2>1, <2>2 DEF LocalTypes, DecisionTypes, Outcomes
  <2>7. pc' \in [Procs -> Places] /\ outcome' \in [Procs -> Outcomes]
    BY <1>0, <1>6, FirstValues DEF LocalTypes, Places, Goto, Forget, SavePromotion
  <2>8. UNCHANGED <<tag, due, upstream, seen, want, script, epoch, overtaken, crashes>>
    BY <1>6 DEF SavePromotion
  <2>9. (FileTypes /\ LocalTypes /\ DecisionTypes /\ MissTypes)'
    BY <1>0, <2>4, <2>5, <2>6, <2>7, <2>8 DEF FileTypes, LocalTypes, DecisionTypes, MissTypes
  <2> QED BY <2>9, TypeParts, PTL
<1> QED BY <1>1, <1>2, <1>3, <1>4, <1>5, <1>6 DEF RunStep

LEMMA TypeStep == TypeOK /\ [Next]_vars => TypeOK'
<1> SUFFICES ASSUME TypeOK, [Next]_vars PROVE TypeOK'
  OBVIOUS
<1>0. FileTypes /\ LocalTypes /\ DecisionTypes /\ MissTypes
  BY TypeParts
<1>1. ASSUME NEW p \in Procs, LoadForHandoff(p)
      PROVE  TypeOK'
  <2>1. /\ pc' \in [Procs -> Places] /\ copy' \in [Procs -> [Scripts -> Records]]
        /\ missed' \in [Procs -> SUBSET Scripts] /\ script' \in [Procs -> Scripts]
    BY <1>0, <1>1 DEF FileTypes, LocalTypes, MissTypes, Places, Goto, Load, LoadForHandoff
  <2>2. UNCHANGED <<files, upstream, seen, want, outcome, unmissed>>
    BY <1>1 DEF LoadForHandoff
  <2>3. (FileTypes /\ LocalTypes /\ DecisionTypes /\ MissTypes)'
    BY <1>0, <2>1, <2>2 DEF FileTypes, LocalTypes, DecisionTypes, MissTypes, files, unmissed, decisions
  <2> QED BY <2>3, TypeParts, PTL
<1>2. ASSUME NEW p \in Procs, SaveHandoff(p)
      PROVE  TypeOK'
  <2> DEFINE fresh == [status |-> "draft", tied |-> TRUE, trust |-> TrustHandoff,
                       runs |-> IF MinRuns = 0 THEN 0 ELSE 1]
  <2>1. fresh \in Records
    BY TrustAssumption DEF Records, Statuses
  <2>2. [copy[p] EXCEPT ![script[p]] = fresh] \in [Scripts -> Records]
    <3> HIDE DEF fresh
    <3> QED BY <1>0, <2>1 DEF LocalTypes
  <2>3. registry' \in [Scripts -> Records] /\ copy' \in [Procs -> [Scripts -> Records]] /\ MissTypes'
    BY <1>2, <2>2, WriteBackTypes DEF SaveHandoff
  <2>4. pc' \in [Procs -> Places]
    BY <1>0, <1>2 DEF LocalTypes, Places, Goto, SaveHandoff
  <2>5. UNCHANGED <<tag, due, upstream, seen, want, script, outcome, decisions>>
    BY <1>2 DEF SaveHandoff
  <2>6. (FileTypes /\ LocalTypes /\ DecisionTypes)'
    BY <1>0, <2>3, <2>4, <2>5 DEF FileTypes, LocalTypes, DecisionTypes, decisions
  <2> QED BY <2>3, <2>6, TypeParts, PTL
<1>3. ASSUME NEW p \in Procs, Die(p)
      PROVE  TypeOK'
  <2>1. LocalTypes'
    BY <1>0, <1>3, FirstValues DEF LocalTypes, Places, Drop, Forget, Die
  <2>2. crashes' \in 0 .. MaxCrashes
    BY <1>0, <1>3, TrustAssumption DEF DecisionTypes, Die
  <2>3. (FileTypes /\ DecisionTypes /\ MissTypes)'
    BY <1>0, <1>3, <2>2 DEF FileTypes, DecisionTypes, MissTypes, files, Die
  <2> QED BY <2>1, <2>3, TypeParts, PTL
<1>4. CASE Release \/ DaysPass \/ UNCHANGED vars
  <2>1. upstream' \in 0 .. MaxTag
    BY <1>0, <1>4, TrustAssumption DEF FileTypes, Release, DaysPass, vars
  <2>3. due' \in BOOLEAN
    BY <1>0, <1>4 DEF FileTypes, Release, DaysPass, vars, files
  <2>2. (FileTypes /\ LocalTypes /\ DecisionTypes /\ MissTypes)'
    BY <1>0, <1>4, <2>1, <2>3 DEF FileTypes, LocalTypes, DecisionTypes, MissTypes, Release, DaysPass, vars,
                            files, locals, history, marks
  <2> QED BY <2>2, TypeParts, PTL
<1> QED BY <1>1, <1>2, <1>3, <1>4, TagStepType, RunStepType DEF Next

\* The tag, the registry and what every process holds of them keep their
\* types: trust stays within its scale whatever is added and taken.
THEOREM RegistryTypeCorrect == Spec => []TypeOK
  BY InitType, TypeStep, PTL DEF Spec
-----------------------------------------------------------------------------
(***************************************************************************)
(* What a process holds is what is in the files, but for what others have  *)
(* changed since it read them; and a promotion of an earlier tag is owed   *)
(* to a death or to a process that is about to demote the script.          *)
(***************************************************************************)
CopyStanding ==
  \A p \in Procs : Holding(p) =>
    \A s \in Scripts \ missed[p] : Standing(registry[s]) = Standing(copy[p][s])

SeenIsTag ==
  \A p \in Procs :
    pc[p] = "due" \/ (pc[p] = "fetched" /\ want[p].then = "ready") => overtaken[p] \/ seen[p] = tag

Stale(s) == registry[s].status = "canonical" /\ registry[s].tied

\* p has changed the tag and will demote s, unless it dies: it has still to
\* load the registry, or has loaded s as the promoted script it is
Owing(p, s) ==
  \/ pc[p] = "cascade"
  \/ pc[p] = "demoting" /\ copy[p][s].status = "canonical" /\ copy[p][s].tied

Owers(s) == {p \in Procs : Owing(p, s)}

PromotionsOwed ==
  \A s \in Scripts \ tainted : Stale(s) => epoch - earned[s] <= crashes + Cardinality(Owers(s))

SharedInv == TypeOK /\ CopyStanding /\ SeenIsTag /\ RejectedStaysOut /\ PromotionsOwed

LEMMA InitShared == Init => SharedInv
<1> SUFFICES ASSUME Init PROVE SharedInv
  OBVIOUS
<1>1. CopyStanding /\ SeenIsTag
  BY DEF Init, CopyStanding, SeenIsTag, Holding
<1>2. \A s \in Scripts : registry[s].status # "canonical"
  BY DEF Init, Unknown, Spawned
<1> QED BY <1>1, <1>2, InitType DEF SharedInv, RejectedStaysOut, PromotionsOwed, Stale

\* A save keeps every other process's copy and knows what it has missed.
LEMMA SaveKeepsStanding ==
  ASSUME TypeOK, CopyStanding, NEW p \in Procs, NEW new, Save(p, new),
         ~Holding(p)', \A q \in Procs \ {p} : pc'[q] = pc[q]
  PROVE  CopyStanding'
<1> SUFFICES ASSUME NEW q \in Procs, Holding(q)', NEW s \in Scripts \ missed'[q]
             PROVE  Standing(registry'[s]) = Standing(copy'[q][s])
  BY DEF CopyStanding
<1>1. q # p /\ Holding(q)
  BY DEF Holding
<1>2. copy'[q] = copy[q]
  BY <1>1 DEF TypeOK, Save, Drop
<1>3. missed'[q] = missed[q] \cup {r \in Scripts : Standing(new[r]) # Standing(copy[q][r])}
  BY <1>1 DEF Save
<1> QED BY <1>2, <1>3 DEF Save

\* A load begins with a copy that misses nothing.
LEMMA LoadKeepsStanding ==
  ASSUME TypeOK, CopyStanding, NEW p \in Procs, Load(p), registry' = registry,
         \A q \in Procs \ {p} : pc'[q] = pc[q]
  PROVE  CopyStanding'
<1> SUFFICES ASSUME NEW q \in Procs, Holding(q)', NEW s \in Scripts \ missed'[q]
             PROVE  Standing(registry'[s]) = Standing(copy'[q][s])
  BY DEF CopyStanding
<1>1. CASE q = p
  BY <1>1 DEF TypeOK, Load
<1>2. CASE q # p
  <2>1. copy'[q] = copy[q] /\ missed'[q] = missed[q] /\ Holding(q)
    BY <1>2 DEF TypeOK, Load, Holding
  <2> QED BY <2>1 DEF CopyStanding
<1> QED BY <1>1, <1>2

LEMMA OthersStay ==
  ASSUME TypeOK, NEW p \in Procs, NEW from, NEW to, Goto(p, from, to)
  PROVE  pc[p] = from /\ pc'[p] = to /\ \A q \in Procs \ {p} : pc'[q] = pc[q]
  BY DEF TypeOK, Goto

\* What reads and writes neither the registry nor a copy of it.
NoRegistry(p) ==
  \/ FetchNewTag(p) \/ TouchTag(p) \/ CliTagReplace(p) \/ SaveCache(p) \/ LoadContext(p)
  \/ RunGate(p) \/ SkipTrustUpdate(p) \/ NextAttempt(p) \/ EvaluateScript(p)

Loading(p) == LoadForDemotion(p) \/ LoadForUpdate(p) \/ LoadForPromotion(p) \/ LoadForHandoff(p)

Saving(p) == SaveDemoted(p) \/ SaveUpdate(p) \/ SavePromotion(p) \/ SaveHandoff(p)

Idling == Release \/ DaysPass \/ UNCHANGED vars

LEMMA KindsOfStep ==
  [Next]_vars <=> Idling \/ \E p \in Procs : NoRegistry(p) \/ Loading(p) \/ Saving(p) \/ Die(p)
  BY Zenon DEF Next, TagStep, RunStep, NoRegistry, Loading, Saving, Idling

LEMMA StandingStep == SharedInv /\ [Next]_vars => CopyStanding'
<1> SUFFICES ASSUME SharedInv, [Next]_vars PROVE CopyStanding'
  OBVIOUS
<1>0. TypeOK /\ CopyStanding
  BY DEF SharedInv
<1>1. CASE Idling
  BY <1>0, <1>1 DEF CopyStanding, Holding, Idling, Release, DaysPass, vars, files, locals, history, marks
<1>2. ASSUME NEW p \in Procs, NoRegistry(p)
      PROVE  CopyStanding'
  <2>1. UNCHANGED <<registry, copy, missed>>
    BY <1>2 DEF NoRegistry, FetchNewTag, TouchTag, CliTagReplace, SaveCache, LoadContext, RunGate,
                SkipTrustUpdate, NextAttempt, EvaluateScript, files, locals, history, marks
  <2>2. \A q \in Procs : Holding(q)' => Holding(q)
    BY <1>0, <1>2 DEF TypeOK, Holding, Goto, NoRegistry, FetchNewTag, TouchTag, CliTagReplace, SaveCache,
                LoadContext, RunGate, SkipTrustUpdate, NextAttempt, EvaluateScript
  <2> QED BY <1>0, <2>1, <2>2 DEF CopyStanding
<1>3. ASSUME NEW p \in Procs, Loading(p)
      PROVE  CopyStanding'
  <2>1. Load(p) /\ registry' = registry /\ \E from, to : Goto(p, from, to)
    BY <1>3 DEF Loading, LoadForDemotion, LoadForUpdate, LoadForPromotion, LoadForHandoff, files
  <2> QED BY <1>0, <2>1, OthersStay, LoadKeepsStanding
<1>4. ASSUME NEW p \in Procs, Saving(p)
      PROVE  CopyStanding'
  <2>1. PICK from, to : Goto(p, from, to) /\ to \in {"idle", "ready", "judged"}
    BY <1>0, <1>4 DEF TypeOK, Saving, SaveDemoted, SaveUpdate, SavePromotion, SaveHandoff
  <2>2. ~Holding(p)' /\ \A q \in Procs \ {p} : pc'[q] = pc[q]
    BY <1>0, <2>1, OthersStay DEF Holding
  <2>3. CASE \E new : Save(p, new)
    BY <1>0, <2>2, <2>3, SaveKeepsStanding
  <2>4. CASE Drop(p) /\ UNCHANGED <<registry, missed, tainted>>
    <3>1. \A q \in Procs : Holding(q)' => q # p /\ Holding(q) /\ copy'[q] = copy[q]
      BY <1>0, <2>2, <2>4 DEF TypeOK, Holding, Drop
    <3> QED BY <1>0, <2>4, <3>1 DEF CopyStanding
  <2> QED BY <1>4, <2>3, <2>4 DEF Saving, SaveDemoted, SaveUpdate, SavePromotion, SaveHandoff, WriteBack
<1>5. ASSUME NEW p \in Procs, Die(p)
      PROVE  CopyStanding'
  <2>1. registry' = registry
    BY <1>5 DEF Die, files
  <2>2. \A q \in Procs : Holding(q)' => Holding(q) /\ copy'[q] = copy[q] /\ missed'[q] = missed[q]
    BY <1>0, <1>5 DEF TypeOK, Die, Drop, Holding
  <2> QED BY <1>0, <2>1, <2>2 DEF CopyStanding
<1> QED BY <1>1, <1>2, <1>3, <1>4, <1>5, KindsOfStep

LEMMA SeenStep == SharedInv /\ [Next]_vars => SeenIsTag'
<1> SUFFICES ASSUME SharedInv, [Next]_vars PROVE SeenIsTag'
  OBVIOUS
<1>0. TypeOK /\ SeenIsTag
  BY DEF SharedInv
<1>1. CASE Idling
  BY <1>0, <1>1 DEF SeenIsTag, Idling, Release, DaysPass, vars, files, locals, history, marks
<1>2. ASSUME NEW p \in Procs, LoadContext(p)
      PROVE  SeenIsTag'
  <2>1. /\ \A q \in Procs \ {p} : pc'[q] = pc[q] /\ overtaken'[q] = overtaken[q] /\ seen'[q] = seen[q]
        /\ pc'[p] = (IF due THEN "due" ELSE "ready") /\ (due => seen'[p] = tag)
        /\ tag' = tag /\ want' = want
    BY <1>0, <1>2 DEF TypeOK, LoadContext, Goto, files
  <2> QED BY <1>0, <2>1 DEF SeenIsTag
<1>3. ASSUME NEW p \in Procs, FetchNewTag(p) \/ TouchTag(p) \/ CliTagReplace(p)
      PROVE  SeenIsTag'
  <2>1. UNCHANGED <<tag, seen, overtaken>>
    BY <1>3 DEF FetchNewTag, TouchTag, CliTagReplace, files, history, marks
  <2>2. \A q \in Procs \ {p} : pc'[q] = pc[q] /\ want'[q] = want[q]
    BY <1>0, <1>3 DEF TypeOK, FetchNewTag, TouchTag, CliTagReplace, Goto
  <2>3. pc'[p] = "fetched" /\ (want'[p].then = "ready" => pc[p] = "due")
    BY <1>0, <1>3 DEF TypeOK, FetchNewTag, TouchTag, CliTagReplace, Goto
  <2> QED BY <1>0, <2>1, <2>2, <2>3 DEF SeenIsTag
<1>4. ASSUME NEW p \in Procs, SaveCache(p)
      PROVE  SeenIsTag'
  <2>1. want' = want /\ pc'[p] = "cascade" /\ \A q \in Procs \ {p} : pc'[q] = pc[q] /\ seen'[q] = seen[q]
    BY <1>0, <1>4 DEF TypeOK, SaveCache, Goto
  <2>2. \A q \in Procs \ {p} : pc[q] \in {"due", "fetched"} => overtaken'[q] \/ (tag' = tag /\ overtaken'[q] = overtaken[q])
    BY <1>0, <1>4 DEF TypeOK, SaveCache
  <2> QED BY <1>0, <2>1, <2>2 DEF SeenIsTag
<1>5. ASSUME NEW p \in Procs,
             UNCHANGED tag, \A q \in Procs \ {p} : UNCHANGED <<pc[q], want[q], seen[q], overtaken[q]>>,
             pc'[p] \notin {"due", "fetched"}
      PROVE  SeenIsTag'
  BY <1>0, <1>5 DEF SeenIsTag
<1>6. ASSUME NEW p \in Procs, RunGate(p) \/ SkipTrustUpdate(p) \/ NextAttempt(p) \/ EvaluateScript(p) \/ Loading(p)
      PROVE  SeenIsTag'
  <2>1. UNCHANGED <<tag, want, seen, overtaken>>
    BY <1>6 DEF RunGate, SkipTrustUpdate, NextAttempt, EvaluateScript, Loading, LoadForDemotion, LoadForUpdate,
                LoadForPromotion, LoadForHandoff, files, locals, history, marks, unmissed, decisions
  <2>2. pc'[p] \notin {"due", "fetched"} /\ \A q \in Procs \ {p} : pc'[q] = pc[q]
    BY <1>0, <1>6 DEF TypeOK, Goto, RunGate, SkipTrustUpdate, NextAttempt, EvaluateScript, Loading,
                LoadForDemotion, LoadForUpdate, LoadForPromotion, LoadForHandoff
  <2> QED BY <1>5, <2>1, <2>2
<1>7. ASSUME NEW p \in Procs, Saving(p)
      PROVE  SeenIsTag'
  <2>1. UNCHANGED <<tag, seen, overtaken>> /\ \A q \in Procs \ {p} : want'[q] = want[q]
    BY <1>0, <1>7 DEF TypeOK, Saving, SaveDemoted, SaveUpdate, SavePromotion, SaveHandoff, decisions
  <2>2. PICK from, to : Goto(p, from, to) /\ to \in {"idle", "ready", "judged"}
    BY <1>0, <1>7 DEF TypeOK, Saving, SaveDemoted, SaveUpdate, SavePromotion, SaveHandoff
  <2> QED BY <1>0, <1>5, <2>1, <2>2, OthersStay
<1>8. ASSUME NEW p \in Procs, Die(p)
      PROVE  SeenIsTag'
  <2>1. /\ UNCHANGED tag /\ pc'[p] = "idle"
        /\ \A q \in Procs \ {p} : UNCHANGED <<pc[q], want[q], seen[q], overtaken[q]>>
    BY <1>0, <1>8 DEF TypeOK, Die, files
  <2> QED BY <1>5, <2>1
<1> QED BY <1>1, <1>2, <1>3, <1>4, <1>6, <1>7, <1>8, KindsOfStep DEF NoRegistry

\* Whatever a save leaves canonical without taint was so before the save, as
\* the writer had loaded it, or is what the writer has just approved.
LEMMA SaveWithoutTaint ==
  ASSUME SharedInv, NEW p \in Procs, Saving(p), Save(p, registry'), NEW s \in Scripts \ tainted',
         registry'[s].status = "canonical"
  PROVE  \/ /\ s \notin tainted /\ registry[s].status = "canonical"
            /\ registry'[s].tied = registry[s].tied
            /\ decided'[s] = decided[s] /\ earned'[s] = earned[s]
         \/ decided'[s] = "approve" /\ earned'[s] = epoch
<1>0. TypeOK /\ CopyStanding /\ Holding(p)
  BY DEF SharedInv, Holding, Saving, SaveDemoted, SaveUpdate, SavePromotion, SaveHandoff, Goto
<1>a. copy[p] \in [Scripts -> Records] /\ script[p] \in Scripts
  BY <1>0 DEF TypeOK
<1>1. ASSUME s \notin Outdated(p, registry'), registry'[s].status = "canonical" => copy[p][s].status = "canonical"
      PROVE  s \notin tainted /\ registry[s].status = "canonical" /\ registry[s].tied = copy[p][s].tied
  <2>1. s \notin tainted /\ s \notin missed[p]
    BY <1>0, <1>1 DEF TypeOK, Outdated
  <2>2. Standing(registry[s]) = Standing(copy[p][s])
    BY <1>0, <2>1 DEF CopyStanding
  <2> QED BY <1>0, <1>1, <2>1, <2>2 DEF Standing, TypeOK, Records
<1>2. CASE SaveDemoted(p)
  <2>1. CASE WriteBack(p, [r \in Scripts |-> Demoted(copy[p][r])])
    <3>1. registry'[s] = Demoted(copy[p][s]) /\ tainted' = Outdated(p, registry')
      BY <2>1 DEF WriteBack, Save
    <3>2. copy[p][s].status = "canonical" /\ registry'[s].tied = copy[p][s].tied
      BY <1>a, <3>1 DEF Demoted, Records
    <3>3. UNCHANGED <<decided, earned>>
      BY <1>2 DEF SaveDemoted, decisions
    <3> QED BY <1>1, <3>1, <3>2, <3>3
  <2>2. CASE UNCHANGED <<registry, missed, tainted>>
    BY <1>2, <2>2 DEF SaveDemoted, decisions
  <2> QED BY <1>2, <2>1, <2>2 DEF SaveDemoted
<1>3. CASE SaveUpdate(p)
  <2>1. /\ registry' = [copy[p] EXCEPT ![script[p]] = AfterRun(@, outcome[p].passed)]
        /\ tainted' = Outdated(p, registry') /\ UNCHANGED <<decided, earned>>
    BY <1>3 DEF SaveUpdate, WriteBack, Save, decisions
  <2>2. copy[p][s].status = "canonical" /\ registry'[s].tied = copy[p][s].tied
    BY <1>a, <2>1 DEF AfterRun, Records
  <2> QED BY <1>1, <2>1, <2>2
<1>4. CASE SaveHandoff(p)
  <2> DEFINE fresh == [status |-> "draft", tied |-> TRUE, trust |-> TrustHandoff,
                       runs |-> IF MinRuns = 0 THEN 0 ELSE 1]
  <2>1. /\ registry' = [copy[p] EXCEPT ![script[p]] = fresh]
        /\ tainted' = Outdated(p, registry') /\ UNCHANGED <<decided, earned>>
    BY <1>4 DEF SaveHandoff, WriteBack, Save, decisions
  <2>2. copy[p][s].status = "canonical" /\ registry'[s].tied = copy[p][s].tied
    BY <1>a, <2>1
  <2> QED BY <1>1, <2>1, <2>2
<1>5. CASE SavePromotion(p)
  <2>1. PICK branch \in PromotionBranch(p) :
          /\ Save(p, [copy[p] EXCEPT ![script[p]] = Decide(Listed(@), branch, outcome[p].trust)])
          /\ tainted' = IF branch # "approve" THEN Outdated(p, registry')
                        ELSE {r \in Outdated(p, registry') \cup {script[p]} :
                                r = script[p] => outcome[p].epoch # epoch}
          /\ decided' = [decided EXCEPT ![script[p]] = IF branch = "refused" THEN @ ELSE branch]
          /\ earned' = [earned EXCEPT ![script[p]] = IF branch = "approve" THEN outcome[p].epoch ELSE @]
    BY <1>5 DEF SavePromotion
  <2>2. branch \in {"approve", "reject", "refused"}
    BY <2>1 DEF PromotionBranch
  <2>3. registry' = [copy[p] EXCEPT ![script[p]] = Decide(Listed(@), branch, outcome[p].trust)]
    BY <2>1 DEF Save
  <2>4. decided \in [Scripts -> {"approve", "defer", "reject"}] /\ earned \in [Scripts -> Nat]
    BY <1>0 DEF TypeOK
  <2>5. CASE s = script[p] /\ branch = "approve"
    <3>1. outcome[p].epoch = epoch
      BY <2>1, <2>5
    <3> QED BY <2>1, <2>4, <2>5, <3>1
  <2>6. CASE ~(s = script[p] /\ branch = "approve")
    <3>1. s \notin Outdated(p, registry')
      BY <2>1, <2>6
    <3>2. copy[p][s].status = "canonical" /\ registry'[s].tied = copy[p][s].tied
      <4>1. CASE s # script[p]
        BY <1>a, <2>3, <4>1
      <4>2. CASE s = script[p]
        <5>1. branch \in {"reject", "refused"} /\ registry'[s] = Decide(Listed(copy[p][s]), branch, outcome[p].trust)
          BY <1>a, <2>2, <2>3, <2>6, <4>2
        <5>2. Listed(copy[p][s]) \in Records /\ copy[p][s] \in Records
          BY <1>a, ListedIsRecord
        <5>3. branch # "reject"
          BY <5>1, <5>2 DEF Decide, Records
        <5>4. registry'[s] = Listed(copy[p][s])
          BY <5>1, <5>3 DEF Decide
        <5> QED BY <5>2, <5>4 DEF Listed, Records
      <4> QED BY <4>1, <4>2
    <3>3. decided'[s] = decided[s] /\ earned'[s] = earned[s]
      <4>1. CASE s # script[p]
        BY <2>1, <2>4, <4>1
      <4>2. CASE s = script[p]
        <5>1. branch = "refused"
          <6>1. registry'[s] = Decide(Listed(copy[p][s]), branch, outcome[p].trust) /\ Listed(copy[p][s]) \in Records
            BY <1>a, <2>3, <4>2, ListedIsRecord
          <6> QED BY <2>2, <2>6, <4>2, <6>1 DEF Decide, Records
        <5> QED BY <2>1, <2>4, <5>1
      <4> QED BY <4>1, <4>2
    <3> QED BY <1>1, <3>1, <3>2, <3>3
  <2> QED BY <2>5, <2>6
<1> QED BY <1>2, <1>3, <1>4, <1>5 DEF Saving

\* A save that takes the writer's copy away without writing leaves all as it was.
LEMMA SavesOrKeeps ==
  ASSUME NEW p \in Procs, Saving(p)
  PROVE  Save(p, registry') \/ UNCHANGED <<registry, tainted, decided, earned>>
<1>1. ASSUME NEW new, Save(p, new) PROVE Save(p, registry')
  <2>1. registry' = new
    BY <1>1 DEF Save
  <2> QED BY <1>1, <2>1
<1>2. (\E new : Save(p, new)) \/ UNCHANGED <<registry, tainted, decided, earned>>
  BY DEF Saving, SaveDemoted, SaveUpdate, SavePromotion, SaveHandoff, WriteBack, decisions
<1> QED BY <1>1, <1>2

\* Only saves write the registry and what is known of its scripts.
LEMMA OthersKeepScripts ==
  ASSUME NEW p \in Procs, NoRegistry(p) \/ Loading(p) \/ Die(p) \/ Idling
  PROVE  UNCHANGED <<registry, tainted, decided, earned>>
  BY DEF NoRegistry, FetchNewTag, TouchTag, CliTagReplace, SaveCache, LoadContext, RunGate,
         SkipTrustUpdate, NextAttempt, EvaluateScript, Loading, LoadForDemotion, LoadForUpdate,
         LoadForPromotion, LoadForHandoff, Die, Idling, Release, DaysPass,
         files, locals, history, marks, decisions, unmissed, vars

LEMMA RejectedStep == SharedInv /\ [Next]_vars => RejectedStaysOut'
<1> SUFFICES ASSUME SharedInv, [Next]_vars PROVE RejectedStaysOut'
  OBVIOUS
<1>1. CASE UNCHANGED <<registry, tainted, decided, earned>>
  BY <1>1 DEF SharedInv, RejectedStaysOut
<1>2. ASSUME NEW p \in Procs, Saving(p)
      PROVE  RejectedStaysOut'
  <2>1. CASE Save(p, registry')
    BY <1>2, <2>1, SaveWithoutTaint DEF SharedInv, RejectedStaysOut
  <2> QED BY <1>1, <1>2, <2>1, SavesOrKeeps
<1>3. CASE Idling
  BY <1>1, <1>3 DEF Idling, Release, DaysPass, files, locals, history, marks, vars
<1> QED BY <1>1, <1>2, <1>3, KindsOfStep, OthersKeepScripts

LEMMA OwedStep == SharedInv /\ [Next]_vars => PromotionsOwed'
<1> SUFFICES ASSUME SharedInv, [Next]_vars, NEW s \in Scripts \ tainted', Stale(s)'
             PROVE  epoch' - earned'[s] <= crashes' + Cardinality(Owers(s)')
  BY DEF PromotionsOwed, Owers, Stale, Owing
<1> DEFINE Owed == epoch' - earned'[s] <= crashes' + Cardinality(Owers(s)')
<1>0. TypeOK /\ CopyStanding /\ PromotionsOwed
  BY DEF SharedInv
<1>t. epoch \in Nat /\ crashes \in Nat /\ earned \in [Scripts -> Nat]
  BY <1>0, TrustAssumption DEF TypeOK
<1>f. /\ IsFiniteSet(Owers(s)) /\ Cardinality(Owers(s)) \in Nat
      /\ IsFiniteSet(Owers(s)') /\ Cardinality(Owers(s)') \in Nat
  <2>1. IsFiniteSet(Procs) /\ Owers(s) \subseteq Procs /\ Owers(s)' \subseteq Procs
    BY TrustAssumption DEF Owers
  <2> QED BY <2>1, FS_Subset, FS_CardinalityType
<1>o. ASSUME s \notin tainted, Stale(s)
      PROVE  epoch - earned[s] <= crashes + Cardinality(Owers(s))
  BY <1>0, <1>o DEF PromotionsOwed
\* the bound before the step, and no ower less
<1>k. ASSUME s \notin tainted, Stale(s), UNCHANGED <<epoch, crashes>>, earned'[s] = earned[s],
             Owers(s) \subseteq Owers(s)'
      PROVE  Owed
  <2>1. Cardinality(Owers(s)) <= Cardinality(Owers(s)')
    BY <1>f, <1>k, FS_Subset
  <2>2. epoch - earned[s] <= crashes + Cardinality(Owers(s)) /\ earned[s] \in Nat
    BY <1>k, <1>o, <1>t
  <2> QED BY <1>t, <1>f, <1>k, <2>1, <2>2
\* what the step leaves alone
<1>u. ASSUME UNCHANGED <<registry, tainted, epoch, earned, crashes>>, Owers(s) \subseteq Owers(s)'
      PROVE  Owed
  <2>1. s \notin tainted /\ Stale(s)
    BY <1>u DEF Stale
  <2> QED BY <1>k, <1>u, <2>1
<1>1. CASE Idling
  <2>1. UNCHANGED <<registry, tainted, epoch, earned, crashes, pc, copy>>
    BY <1>1 DEF Idling, Release, DaysPass, vars, files, locals, history, marks
  <2>2. Owers(s)' = Owers(s)
    BY <2>1 DEF Owers, Owing
  <2> QED BY <1>u, <2>1, <2>2
<1>2. ASSUME NEW p \in Procs, SaveCache(p)
      PROVE  Owed
  <2>1. UNCHANGED <<registry, tainted, earned, crashes, copy>> /\ epoch' \in {epoch, epoch + 1}
    BY <1>2 DEF SaveCache
  <2>2. p \notin Owers(s) /\ Owers(s)' = Owers(s) \cup {p}
    BY <1>0, <1>2, <2>1 DEF TypeOK, SaveCache, Goto, Owers, Owing
  <2>3. Cardinality(Owers(s)') = Cardinality(Owers(s)) + 1
    BY <1>f, <2>2, FS_AddElement
  <2>4. epoch - earned[s] <= crashes + Cardinality(Owers(s)) /\ earned[s] \in Nat
    BY <1>o, <1>t, <2>1 DEF Stale
  <2> QED BY <1>t, <1>f, <2>1, <2>3, <2>4
<1>3. ASSUME NEW p \in Procs, NoRegistry(p)
      PROVE  Owed
  <2>1. CASE SaveCache(p)
    BY <1>2, <2>1
  <2>2. CASE ~SaveCache(p)
    <3>1. UNCHANGED <<registry, tainted, epoch, earned, crashes, copy>>
      BY <1>3, <2>2 DEF NoRegistry, FetchNewTag, TouchTag, CliTagReplace, LoadContext, RunGate,
             SkipTrustUpdate, NextAttempt, EvaluateScript, files, locals, history, marks
    <3>2. pc[p] \notin {"cascade", "demoting"} /\ \A q \in Procs \ {p} : pc'[q] = pc[q]
      BY <1>0, <1>3, <2>2 DEF TypeOK, NoRegistry, FetchNewTag, TouchTag, CliTagReplace, LoadContext, RunGate,
             SkipTrustUpdate, NextAttempt, EvaluateScript, Goto
    <3>3. Owers(s) \subseteq Owers(s)'
      BY <3>1, <3>2 DEF Owers, Owing
    <3> QED BY <1>u, <3>1, <3>3
  <2> QED BY <2>1, <2>2
<1>4. ASSUME NEW p \in Procs, Loading(p)
      PROVE  Owed
  <2>1. UNCHANGED <<registry, tainted, epoch, earned, crashes>> /\ Load(p)
    BY <1>4 DEF Loading, LoadForDemotion, LoadForUpdate, LoadForPromotion, LoadForHandoff,
                files, unmissed, decisions
  <2>2. /\ \A q \in Procs \ {p} : pc'[q] = pc[q] /\ copy'[q] = copy[q]
        /\ pc[p] # "demoting" /\ (pc[p] = "cascade" => pc'[p] = "demoting") /\ copy'[p] = registry
    BY <1>0, <1>4, <2>1 DEF TypeOK, Loading, LoadForDemotion, LoadForUpdate, LoadForPromotion,
                            LoadForHandoff, Goto, Load
  <2>3. Stale(s)
    BY <2>1 DEF Stale
  <2>4. Owers(s) \subseteq Owers(s)'
    BY <2>2, <2>3 DEF Owers, Owing, Stale
  <2> QED BY <1>u, <2>1, <2>4
<1>5. ASSUME NEW p \in Procs, Saving(p)
      PROVE  Owed
  <2>1. UNCHANGED <<epoch, crashes>>
    BY <1>5 DEF Saving, SaveDemoted, SaveUpdate, SavePromotion, SaveHandoff, decisions
  <2>2. \A q \in Procs \ {p} : pc'[q] = pc[q] /\ copy'[q] = copy[q]
    BY <1>0, <1>5 DEF TypeOK, Saving, SaveDemoted, SaveUpdate, SavePromotion, SaveHandoff, Goto,
                      WriteBack, Save, Drop
  <2>3. ASSUME Owing(p, s) PROVE SaveDemoted(p) /\ Save(p, registry') /\ registry'[s] = Demoted(copy[p][s])
    <3>1. SaveDemoted(p)
      BY <1>5, <2>3 DEF Owing, Saving, SaveDemoted, SaveUpdate, SavePromotion, SaveHandoff, Goto
    <3>2. copy[p][s].status = "canonical"
      BY <2>3, <3>1 DEF Owing, SaveDemoted, Goto
    <3>3. WriteBack(p, [r \in Scripts |-> Demoted(copy[p][r])])
      BY <3>1, <3>2 DEF SaveDemoted
    <3> QED BY <3>1, <3>3 DEF WriteBack, Save
  <2>4. ~Owing(p, s)
    <3>1. copy[p][s] \in Records
      BY <1>0 DEF TypeOK
    <3> QED BY <2>3, <3>1, DemotedIsRecord DEF Stale
  <2>5. Owers(s) \subseteq Owers(s)'
    BY <2>2, <2>4 DEF Owers, Owing
  <2>6. CASE Save(p, registry')
    <3>1. CASE s \notin tainted /\ Stale(s) /\ earned'[s] = earned[s]
      BY <1>k, <2>1, <2>5, <3>1
    <3>2. CASE earned'[s] = epoch
      <4>1. epoch' - earned'[s] = 0
        BY <1>t, <2>1, <3>2
      <4> QED BY <1>t, <1>f, <2>1, <4>1
    <3>3. registry'[s].status = "canonical" /\ registry'[s].tied
      BY DEF Stale
    <3> QED BY <1>5, <2>6, <3>1, <3>2, <3>3, SaveWithoutTaint DEF Stale
  <2> QED BY <1>5, <1>u, <2>1, <2>5, <2>6, SavesOrKeeps
<1>6. ASSUME NEW p \in Procs, Die(p)
      PROVE  Owed
  <2>1. UNCHANGED <<registry, tainted, epoch, earned>> /\ crashes' = crashes + 1
    BY <1>6 DEF Die, files
  <2>2. \A q \in Procs \ {p} : pc'[q] = pc[q] /\ copy'[q] = copy[q]
    BY <1>0, <1>6 DEF TypeOK, Die, Drop
  <2>3. Owers(s) \ {p} \subseteq Owers(s)'
    BY <2>2 DEF Owers, Owing
  <2>4. IsFiniteSet(Owers(s) \ {p}) /\ Cardinality(Owers(s) \ {p}) <= Cardinality(Owers(s)')
    BY <1>f, <2>3, FS_Subset
  <2>5. Cardinality(Owers(s)) <= Cardinality(Owers(s) \ {p}) + 1 /\ Cardinality(Owers(s) \ {p}) \in Nat
    BY <1>f, <2>4, FS_RemoveElement, FS_CardinalityType
  <2>6. epoch - earned[s] <= crashes + Cardinality(Owers(s)) /\ earned[s] \in Nat
    BY <1>o, <1>t, <2>1 DEF Stale
  <2> QED BY <1>t, <1>f, <2>1, <2>4, <2>5, <2>6
<1> QED BY <1>1, <1>3, <1>4, <1>5, <1>6, KindsOfStep

LEMMA SharedHolds == Spec => []SharedInv
<1>1. SharedInv /\ [Next]_vars => SharedInv'
  <2>1. SharedInv /\ [Next]_vars => TypeOK'
    BY TypeStep DEF SharedInv
  <2> QED BY <2>1, StandingStep, SeenStep, RejectedStep, OwedStep DEF SharedInv
<1> QED BY InitShared, <1>1, PTL DEF Spec

\* However many processes load and save the registry in whatever order, and
\* wherever they die, a rejected script is not canonical until it is approved
\* again, unless a process wrote it back that had loaded the registry before
\* others changed the script's standing.
THEOREM RejectionsHold == Spec => []RejectedStaysOut
  BY SharedHolds, PTL DEF SharedInv

\* A promotion outlives at most as many tags as processes died, plus those
\* being replaced, unless it was decided or written back by a process that
\* another had overtaken: for any number of processes and scripts.
THEOREM StalePromotionsBounded == Spec => []StalePromotionsNeedCrashes
<1>1. SharedInv => StalePromotionsNeedCrashes
  <2> SUFFICES ASSUME SharedInv, NEW s \in Scripts \ tainted,
                      registry[s].status = "canonical" /\ registry[s].tied
               PROVE  epoch - earned[s] <= crashes + Cardinality({p \in Procs : Cascading(p)})
    BY DEF StalePromotionsNeedCrashes
  <2> DEFINE cascading == {p \in Procs : Cascading(p)}
  <2>1. Owers(s) \subseteq cascading /\ cascading \subseteq Procs
    BY DEF Owers, Owing, Cascading
  <2>2. IsFiniteSet(cascading)
    BY <2>1, TrustAssumption, FS_Subset
  <2>3. /\ Cardinality(Owers(s)) <= Cardinality(cascading)
        /\ Cardinality(Owers(s)) \in Nat /\ Cardinality(cascading) \in Nat
    BY <2>1, <2>2, FS_Subset, FS_CardinalityType
  <2>4. epoch - earned[s] <= crashes + Cardinality(Owers(s))
    BY DEF SharedInv, PromotionsOwed, Stale
  <2>5. epoch \in Nat /\ earned[s] \in Nat /\ crashes \in Nat
    BY TrustAssumption DEF SharedInv, TypeOK
  <2> HIDE DEF cascading
  <2>6. epoch - earned[s] <= crashes + Cardinality(cascading)
    BY <2>3, <2>4, <2>5
  <2> QED BY <2>6 DEF cascading
<1> QED BY SharedHolds, <1>1, PTL

\* A touch keeps the tag, but for the word it has for none, unless another
\* process changed the tag between the touch's load and its save.
THEOREM TouchesKeepTag == Spec => TouchKeepsTag
<1>1. ASSUME SharedInv, NEW p \in Procs, SaveCache(p), Touching(p), ~overtaken[p]
      PROVE  tag' = Touched(tag)
  <2>1. pc[p] = "fetched" /\ want[p].then = "ready" /\ want[p].tag = Touched(seen[p])
    BY <1>1 DEF SaveCache, Goto, Touching
  <2>2. seen[p] = tag
    BY <1>1, <2>1 DEF SharedInv, SeenIsTag
  <2> QED BY <1>1, <2>1, <2>2 DEF SaveCache
<1>2. SharedInv => [\A p \in Procs :
         SaveCache(p) /\ Touching(p) /\ ~overtaken[p] => tag' = Touched(tag)]_vars
  BY <1>1
<1> QED BY SharedHolds, <1>2, PTL DEF TouchKeepsTag
=============================================================================
