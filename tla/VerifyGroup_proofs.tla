------------------------- MODULE VerifyGroup_proofs -------------------------
(***************************************************************************)
(* Theorems about a headless run of verify_group, for all values of its    *)
(* caps, thresholds, profiles and verdicts, and any number of overrides.   *)
(***************************************************************************)
EXTENDS VerifyGroup, SequenceTheorems, TLAPS

-----------------------------------------------------------------------------
(* The loop guard (loop_guard.py), for histories over any sets of entries. *)

Guards(Signatures, Labels, Scores) ==
  [signatures : Seq(Signatures), transitions : Seq(Labels), drift : Seq(Scores),
   stalemate : BOOLEAN, pattern : Patterns]

InWindows(g) ==
  /\ Len(g.signatures) <= Threshold
  /\ Len(g.transitions) <= 2 * LongestPeriod
  /\ Len(g.drift) <= 3

\* The configured window lengths are numbers.
LEMMA PeriodIsNat == LongestPeriod \in Nat /\ 2 * LongestPeriod \in Nat /\ Threshold \in Nat
BY LoopGuardAssumption DEF LongestPeriod

\* Cutting a history to a window keeps its entries and bounds its length.
LEMMA WindowBounded ==
  ASSUME NEW S, NEW s \in Seq(S), NEW n \in Nat
  PROVE  Window(s, n) \in Seq(S) /\ Len(Window(s, n)) <= n
<1>1. CASE Len(s) <= n
  BY <1>1 DEF Window
<1>2. CASE ~(Len(s) <= n)
  <2>1. Len(s) \in Nat /\ Len(s) - n + 1 \in 1..Len(s) + 1
    BY <1>2, LenProperties
  <2>2. \A i \in (Len(s) - n + 1)..Len(s) : s[i] \in S
    BY <2>1, ElementOfSeq
  <2>3. SubSeq(s, Len(s) - n + 1, Len(s)) \in Seq(S)
    BY <2>1, <2>2, SubSeqProperties
  <2>4. Len(SubSeq(s, Len(s) - n + 1, Len(s))) <= n
    BY <2>1, <1>2, SubSeqProperties
  <2> QED BY <1>2, <2>3, <2>4 DEF Window
<1> QED BY <1>1, <1>2

\* Remembering an entry keeps a history within its window.
LEMMA RememberBounded ==
  ASSUME NEW S, NEW s \in Seq(S), NEW e \in S, NEW n \in Nat
  PROVE  Remember(s, e, n) \in Seq(S) /\ Len(Remember(s, e, n)) <= n
<1>1. Append(s, e) \in Seq(S)
  BY AppendProperties
<1> QED BY <1>1, WindowBounded DEF Remember

\* A guard that no run has written to is one.
LEMMA CleanIsGuard ==
  ASSUME NEW S, NEW L, NEW D
  PROVE  Clean \in Guards(S, L, D) /\ InWindows(Clean)
<1>1. <<>> \in Seq(S) /\ <<>> \in Seq(L) /\ <<>> \in Seq(D) /\ Len(<<>>) = 0
  BY EmptySeq
<1> QED BY <1>1, PeriodIsNat DEF Clean, Guards, InWindows, Patterns

\* Recognising a pattern changes the report of a guard, never its histories.
LEMMA ApplyIsGuard ==
  ASSUME NEW S, NEW L, NEW D, NEW g \in Guards(S, L, D), InWindows(g),
         NEW pattern \in Patterns
  PROVE  /\ Apply(g, pattern) \in Guards(S, L, D)
         /\ InWindows(Apply(g, pattern))
         /\ g.stalemate = TRUE \/ pattern # "" => Apply(g, pattern).stalemate = TRUE
BY DEF Apply, Guards, InWindows

LEMMA DetectIsPattern ==
  ASSUME NEW g
  PROVE  Detect(g) \in Patterns
BY DEF Detect, Patterns

\* record_failure keeps a guard a guard.
LEMMA FailureIsGuard ==
  ASSUME NEW S, NEW L, NEW D, NEW g \in Guards(S, L, D), InWindows(g), NEW e \in S
  PROVE  /\ RecordFailure(g, e) \in Guards(S, L, D)
         /\ InWindows(RecordFailure(g, e))
<1> DEFINE h == [g EXCEPT !.signatures = Remember(@, e, Threshold)]
<1>1. h \in Guards(S, L, D) /\ InWindows(h)
  <2>1. g.signatures \in Seq(S)
    BY DEF Guards
  <2>2. /\ Remember(g.signatures, e, Threshold) \in Seq(S)
        /\ Len(Remember(g.signatures, e, Threshold)) <= Threshold
    BY <2>1, RememberBounded, PeriodIsNat
  <2> QED BY <2>2 DEF Guards, InWindows
<1> HIDE DEF h
<1>5. "SPINNING" \in Patterns
  BY DEF Patterns
<1>2. CASE Spinning(h.signatures)
  <2>1. RecordFailure(g, e) = Apply(h, "SPINNING")
    BY <1>2 DEF RecordFailure, h
  <2>2. /\ Apply(h, "SPINNING") \in Guards(S, L, D)
        /\ InWindows(Apply(h, "SPINNING"))
    BY <1>1, <1>5, ApplyIsGuard
  <2> QED BY <2>1, <2>2
<1>3. CASE ~Spinning(h.signatures) /\ Len(h.signatures) >= Threshold /\ h.pattern = "SPINNING"
  <2>1. RecordFailure(g, e) = [h EXCEPT !.stalemate = FALSE, !.pattern = ""]
    BY <1>3 DEF RecordFailure, h
  <2> QED BY <2>1, <1>1 DEF Guards, InWindows, Patterns
<1>4. CASE /\ ~Spinning(h.signatures)
           /\ ~(Len(h.signatures) >= Threshold /\ h.pattern = "SPINNING")
  <2>1. RecordFailure(g, e) = h
    BY <1>4 DEF RecordFailure, h
  <2> QED BY <2>1, <1>1
<1> QED BY <1>2, <1>3, <1>4

\* record_transition may report a stalemate, it never lifts one.
LEMMA TransitionIsGuard ==
  ASSUME NEW S, NEW L, NEW D, NEW g \in Guards(S, L, D), InWindows(g), NEW e \in L
  PROVE  /\ RecordTransition(g, e) \in Guards(S, L, D)
         /\ InWindows(RecordTransition(g, e))
         /\ g.stalemate = TRUE => RecordTransition(g, e).stalemate = TRUE
<1> DEFINE h == [g EXCEPT !.transitions = Remember(@, e, 2 * LongestPeriod)]
<1>1. /\ h \in Guards(S, L, D) /\ InWindows(h)
      /\ h.stalemate = g.stalemate
  <2>1. g.transitions \in Seq(L)
    BY DEF Guards
  <2>2. /\ Remember(g.transitions, e, 2 * LongestPeriod) \in Seq(L)
        /\ Len(Remember(g.transitions, e, 2 * LongestPeriod)) <= 2 * LongestPeriod
    BY <2>1, RememberBounded, PeriodIsNat
  <2> QED BY <2>2 DEF Guards, InWindows
<1> HIDE DEF h
<1>2. RecordTransition(g, e) = Apply(h, Detect(h))
  BY DEF RecordTransition, h
<1>3. Detect(h) \in Patterns
  BY DetectIsPattern
<1>4. /\ Apply(h, Detect(h)) \in Guards(S, L, D)
      /\ InWindows(Apply(h, Detect(h)))
      /\ h.stalemate = TRUE => Apply(h, Detect(h)).stalemate = TRUE
  BY <1>1, <1>3, ApplyIsGuard
<1> QED BY <1>1, <1>2, <1>4

\* record_drift_score neither lifts a stalemate nor reports one on a short history.
LEMMA DriftIsGuard ==
  ASSUME NEW S, NEW L, NEW D, NEW g \in Guards(S, L, D), InWindows(g), NEW e \in D
  PROVE  /\ RecordDrift(g, e) \in Guards(S, L, D)
         /\ InWindows(RecordDrift(g, e))
         /\ g.stalemate = TRUE => RecordDrift(g, e).stalemate = TRUE
         /\ g.drift = <<>> => RecordDrift(g, e).stalemate = g.stalemate
<1> DEFINE h == [g EXCEPT !.drift = Remember(@, e, 3)]
<1>1. /\ h \in Guards(S, L, D) /\ InWindows(h) /\ h.stalemate = g.stalemate
      /\ h.drift = Remember(g.drift, e, 3)
  <2>1. g.drift \in Seq(D)
    BY DEF Guards
  <2>2. Remember(g.drift, e, 3) \in Seq(D) /\ Len(Remember(g.drift, e, 3)) <= 3
    BY <2>1, RememberBounded
  <2> QED BY <2>2 DEF Guards, InWindows
<1> HIDE DEF h
<1>2. g.drift = <<>> => ~NoDrift(h.drift)
  <2> SUFFICES ASSUME g.drift = <<>> PROVE ~NoDrift(h.drift)
    OBVIOUS
  <2>1. h.drift = Window(Append(<<>>, e), 3)
    BY <1>1 DEF Remember
  <2>2. Append(<<>>, e) \in Seq(D) /\ Len(Append(<<>>, e)) = 1
    BY EmptySeq, AppendProperties
  <2>3. h.drift = Append(<<>>, e)
    BY <2>1, <2>2 DEF Window
  <2>4. Len(h.drift) = 1
    BY <2>2, <2>3
  <2> QED BY <2>4 DEF NoDrift
<1>3. CASE Detect(h) = "NO_DRIFT"
  <2>1. RecordDrift(g, e) = Apply(h, "NO_DRIFT")
    BY <1>3 DEF RecordDrift, h
  <2>2. NoDrift(h.drift)
    BY <1>3 DEF Detect
  <2>3. /\ Apply(h, "NO_DRIFT") \in Guards(S, L, D)
        /\ InWindows(Apply(h, "NO_DRIFT"))
        /\ Apply(h, "NO_DRIFT").stalemate = TRUE
    BY <1>1, ApplyIsGuard DEF Patterns
  <2> QED BY <2>1, <2>2, <2>3, <1>2
<1>4. CASE Detect(h) # "NO_DRIFT"
  <2>1. RecordDrift(g, e) = h
    BY <1>4 DEF RecordDrift, h
  <2> QED BY <2>1, <1>1
<1> QED BY <1>3, <1>4

\* clear_stalemate_on_pass leaves no stalemate and no drift behind.
LEMMA ClearIsGuard ==
  ASSUME NEW S, NEW L, NEW D, NEW g \in Guards(S, L, D), InWindows(g)
  PROVE  /\ ClearOnPass(g) \in Guards(S, L, D)
         /\ InWindows(ClearOnPass(g))
         /\ ClearOnPass(g).stalemate = FALSE
         /\ ClearOnPass(g).drift = <<>>
<1>1. CASE g.stalemate \/ g.pattern # "" \/ g.signatures # <<>> \/ g.drift # <<>>
  <2>1. ClearOnPass(g) = Clean
    BY <1>1 DEF ClearOnPass
  <2>2. Clean \in Guards(S, L, D) /\ InWindows(Clean)
    BY CleanIsGuard
  <2>3. Clean.stalemate = FALSE /\ Clean.drift = <<>>
    BY DEF Clean
  <2> QED BY <2>1, <2>2, <2>3
<1>2. CASE ~(g.stalemate \/ g.pattern # "" \/ g.signatures # <<>> \/ g.drift # <<>>)
  <2>1. ClearOnPass(g) = g
    BY <1>2 DEF ClearOnPass
  <2> QED BY <2>1, <1>2 DEF Guards
<1> QED BY <1>1, <1>2

-----------------------------------------------------------------------------
(* Type correctness.  The counters of the state and of the events grow by  *)
(* at most one a step, which is what bounds them by MaxSteps.              *)

Kinds == FailKinds \cup {"unset", "none", "info", "llm"}
FailedKinds == FailKinds \cup {"info", "llm"}
Signatures == FailedKinds \X (Bodies \cup {"awaiting"})
Labels == {"select_runner", "run_gate", "diagnose_env", "patch_bridge"}
            \X (Kinds \cup {"verification"})

States ==
  [runner : {"none", "python", "llm"},
   verdict : {"none", "PASS", "FAIL", "INFO_GAP"},
   kind : Kinds,
   error : {"", "awaiting", "not_applied", "bridge_round_cap",
            "codegen_round_cap", "child_evidence"},
   infoGap : BOOLEAN, stalemate : BOOLEAN, forced : BOOLEAN,
   bridge : Nat, codegen : Nat, openIssues : BOOLEAN, cont : BOOLEAN,
   complete : {"unset", "low", "high"}, parity : {"unset", "ok", "no"},
   action : {"", "retry_gate", "halt"}, rejected : BOOLEAN]

Events == [gates : Nat, fix : Nat, env : Nat, tool : Nat, llm : Nat, info : BOOLEAN]

Records == [score : 0..TrustMax, runs : 0..MinTrustRuns, canonical : BOOLEAN]

Artifacts ==
  [verdict : Verdicts \cup {None}, reference : Verdicts \cup {None},
   report : {"none", "ok", "no"}, allowed : {"none", "yes", "no"},
   subStop : BOOLEAN, proposal : BOOLEAN, ops : BOOLEAN, bridge : BOOLEAN]

StateTyped == st \in States /\ st.bridge <= steps /\ st.codegen <= steps

GuardTyped == guard \in Guards(Signatures, Labels, DriftScores) /\ InWindows(guard)

EventsTyped ==
  /\ ev \in Events
  /\ ev.gates <= steps /\ ev.fix <= steps
  /\ ev.env <= steps /\ ev.tool <= steps /\ ev.llm <= steps

ControlTyped ==
  /\ node \in VerifyNodes \cup {END}
  /\ steps \in 0..MaxSteps
  /\ outcome \in {"running", "ended", "blocked", "exhausted", "raised"}
  /\ outcome = "running" => steps < MaxSteps
  /\ overrides \in 0..MaxOverrides

TypeInv ==
  /\ StateTyped /\ GuardTyped /\ EventsTyped /\ ControlTyped
  /\ trust \in Records
  /\ files \in Artifacts
  /\ profile \in Profiles

\* The typing implies the one that is model-checked.
LEMMA TypeInvImplies == TypeInv => TypeOK
<1> SUFFICES ASSUME TypeInv PROVE TypeOK
  OBVIOUS
<1> USE DEF TypeInv
<1>1. st.bridge \in 0..MaxSteps /\ st.codegen \in 0..MaxSteps
  <2>1. st.bridge \in Nat /\ st.codegen \in Nat
    BY DEF StateTyped, States
  <2> QED BY <2>1, VerifyGroupAssumption DEF StateTyped, ControlTyped
<1>2. st \in [runner : {"none", "python", "llm"},
             verdict : {"none", "PASS", "FAIL", "INFO_GAP"},
             kind : FailKinds \cup {"unset", "none", "info", "llm"},
             error : {"", "awaiting", "not_applied", "bridge_round_cap",
                      "codegen_round_cap", "child_evidence"},
             infoGap : BOOLEAN, stalemate : BOOLEAN, forced : BOOLEAN,
             bridge : 0..MaxSteps, codegen : 0..MaxSteps,
             openIssues : BOOLEAN, cont : BOOLEAN,
             complete : {"unset", "low", "high"}, parity : {"unset", "ok", "no"},
             action : {"", "retry_gate", "halt"}, rejected : BOOLEAN]
  BY <1>1 DEF StateTyped, States, Kinds
<1>3. /\ DOMAIN guard = DOMAIN Clean
      /\ guard.pattern \in Patterns /\ guard.stalemate \in BOOLEAN
      /\ Len(guard.signatures) <= Threshold
      /\ Len(guard.transitions) <= 2 * LongestPeriod
      /\ Len(guard.drift) <= 3
  BY DEF GuardTyped, Guards, InWindows, Clean
<1>4. ev \in [gates : 0..MaxSteps, fix : 0..MaxSteps, env : 0..MaxSteps,
             tool : 0..MaxSteps, llm : 0..MaxSteps, info : BOOLEAN]
  <2>1. /\ ev.gates \in 0..MaxSteps /\ ev.fix \in 0..MaxSteps
        /\ ev.env \in 0..MaxSteps /\ ev.tool \in 0..MaxSteps /\ ev.llm \in 0..MaxSteps
    BY VerifyGroupAssumption DEF EventsTyped, Events, ControlTyped
  <2> QED BY <2>1 DEF EventsTyped, Events
<1>5. /\ files.verdict \in Verdicts \cup {None}
      /\ files.reference \in Verdicts \cup {None}
      /\ files.report \in {"none", "ok", "no"}
      /\ files.allowed \in {"none", "yes", "no"}
      /\ {files.subStop, files.proposal, files.ops, files.bridge} \subseteq BOOLEAN
  BY DEF Artifacts
<1> QED BY <1>2, <1>3, <1>4, <1>5 DEF TypeOK, ControlTyped, Records

\* Every router and every edge names a node of the graph.
LEMMA RoutesAreNodes ==
  /\ \A n \in DOMAIN FlowEdges : FlowEdges[n] \subseteq VerifyNodes
  /\ \A n \in DOMAIN Follows : Follows[n] \in VerifyNodes \cup {END}
BY DEF FlowEdges, Follows, VerifyNodes, END

\* The routers choose among the edges of the flow specification.
LEMMA RoutersFollowEdges ==
  ASSUME NEW s
  PROVE  /\ RouteAfterLoad(s) \in FlowEdges["load_context"]
         /\ RouteAfterRun(s) \in FlowEdges["run_gate"]
         /\ RouteAfterDiagnose(s) \in FlowEdges["diagnose_env"]
         /\ RouteAfterEval(s) \in FlowEdges["evaluate"]
         /\ RouteAfterParity(s) \in FlowEdges["parity_check"]
<1> USE DEF FlowEdges
<1>1. RouteAfterLoad(s) \in FlowEdges["load_context"]
  BY DEF RouteAfterLoad
<1>2. RouteAfterRun(s) \in FlowEdges["run_gate"]
  BY DEF RouteAfterRun
<1>3. RouteAfterDiagnose(s) \in FlowEdges["diagnose_env"]
  BY DEF RouteAfterDiagnose
<1>4. RouteAfterEval(s) \in FlowEdges["evaluate"]
  BY DEF RouteAfterEval
<1>5. RouteAfterParity(s) \in FlowEdges["parity_check"]
  BY DEF RouteAfterParity
<1> QED BY <1>1, <1>2, <1>3, <1>4, <1>5

\* An iteration that ends at a node or at END keeps the control state typed.
LEMMA GoOnTyped ==
  ASSUME ControlTyped, outcome = "running", NEW ok, NEW to \in VerifyNodes \cup {END},
         GoOn(ok, to), overrides' \in 0..MaxOverrides
  PROVE  ControlTyped' /\ steps' = steps + 1
BY VerifyGroupAssumption DEF ControlTyped, GoOn

LEMMA LeaveTyped ==
  ASSUME ControlTyped, outcome = "running", node \in DOMAIN Follows, NEW ok, Leave(ok)
  PROVE  ControlTyped' /\ steps' = steps + 1
<1>1. Follows[node] \in VerifyNodes \cup {END}
  BY RoutesAreNodes
<1>2. GoOn(ok, Follows[node]) /\ overrides' \in 0..MaxOverrides
  BY DEF Leave, ControlTyped
<1> QED BY <1>1, <1>2, GoOnTyped

LEMMA LeaveByTriageTyped ==
  ASSUME ControlTyped, outcome = "running", node \in DOMAIN FlowEdges,
         NEW ok, NEW route, route \in FlowEdges[node], LeaveByTriage(ok, route)
  PROVE  ControlTyped' /\ steps' = steps + 1
<1>1. CASE GoOn(ok, route) /\ UNCHANGED overrides
  <2>1. overrides' \in 0..MaxOverrides
    BY <1>1 DEF ControlTyped
  <2>2. route \in VerifyNodes
    BY RoutesAreNodes
  <2> QED BY <1>1, <2>1, <2>2, GoOnTyped
<1>2. CASE /\ overrides < MaxOverrides /\ overrides' = overrides + 1
           /\ \E to \in FlowEdges[node] \ {route} : GoOn(ok, to)
  <2>1. PICK to \in FlowEdges[node] : GoOn(ok, to)
    BY <1>2
  <2>2. to \in VerifyNodes
    BY RoutesAreNodes
  <2>3. overrides' \in 0..MaxOverrides
    BY <1>2, VerifyGroupAssumption DEF ControlTyped
  <2> QED BY <2>1, <2>2, <2>3, GoOnTyped
<1> QED BY <1>1, <1>2 DEF LeaveByTriage

\* update_trust_after_run keeps trust within its scale.
LEMMA TrustTyped ==
  ASSUME trust \in Records, NEW passed \in BOOLEAN
  PROVE  TrustAfter(passed) \in Records
<1> USE VerifyGroupAssumption
<1>1. trust.score \in 0..TrustMax /\ trust.runs \in 0..MinTrustRuns
  BY DEF Records
<1>2. /\ (IF passed THEN (IF trust.score < TrustMax THEN trust.score + 1 ELSE TrustMax)
                    ELSE (IF trust.score > 2 THEN trust.score - 2 ELSE 0)) \in 0..TrustMax
      /\ (IF trust.runs < MinTrustRuns THEN trust.runs + 1 ELSE trust.runs)
           \in 0..MinTrustRuns
  BY <1>1
<1> QED BY <1>2 DEF TrustAfter, Records

\* bump_events counts at most one failure of each kind.
LEMMA BumpTyped ==
  ASSUME NEW e \in Events, NEW kind, NEW n \in Nat,
         e.gates <= n + 1, e.fix <= n, e.env <= n, e.tool <= n, e.llm <= n
  PROVE  /\ Bump(e, kind) \in Events
         /\ Bump(e, kind).gates <= n + 1 /\ Bump(e, kind).fix <= n + 1
         /\ Bump(e, kind).env <= n + 1 /\ Bump(e, kind).tool <= n + 1
         /\ Bump(e, kind).llm <= n + 1
<1>1. /\ e.gates \in Nat /\ e.fix \in Nat /\ e.env \in Nat /\ e.tool \in Nat
      /\ e.llm \in Nat /\ (e.info \/ kind = "info") \in BOOLEAN
  BY DEF Events
<1>2. /\ Bump(e, kind).gates = e.gates
      /\ Bump(e, kind).fix = e.fix + 1
      /\ Bump(e, kind).env = (IF kind = "env" THEN e.env + 1 ELSE e.env)
      /\ Bump(e, kind).tool = (IF kind = "tool" THEN e.tool + 1 ELSE e.tool)
      /\ Bump(e, kind).llm = (IF kind = "llm" THEN e.llm + 1 ELSE e.llm)
  BY DEF Bump, Events
<1>3. /\ (IF kind = "env" THEN e.env + 1 ELSE e.env) \in Nat
      /\ (IF kind = "tool" THEN e.tool + 1 ELSE e.tool) \in Nat
      /\ (IF kind = "llm" THEN e.llm + 1 ELSE e.llm) \in Nat
      /\ e.fix + 1 \in Nat
  BY <1>1
<1>4. Bump(e, kind) \in Events
  BY <1>1, <1>3 DEF Bump, Events
<1> QED BY <1>1, <1>2, <1>4

\* The results a failed attempt is recorded from, and all an attempt may have.
Failures == [status : {"PASS", "FAIL", "INFO_GAP"}, kind : FailKinds \cup {"info"}, body : Bodies]
Results == Failures \cup [status : {"PASS"}, kind : {"none"}, body : Bodies]

LEMMA VerdictsAreResults == Verdicts \subseteq Results
BY DEF Verdicts, Results, Failures

\* What an attempt changes, whatever its result.
AttemptTyped ==
  /\ st' \in States /\ st'.bridge = st.bridge /\ st'.codegen = st.codegen
  /\ GuardTyped'
  /\ ev' \in Events
  /\ ev'.gates <= steps + 1 /\ ev'.fix <= steps + 1
  /\ ev'.env <= steps + 1 /\ ev'.tool <= steps + 1 /\ ev'.llm <= steps + 1
  /\ trust' \in Records

LEMMA AttemptPassedTyped ==
  ASSUME TypeInv, AttemptPassed
  PROVE  AttemptTyped
<1> USE DEF TypeInv
<1>1. st' \in States /\ st'.bridge = st.bridge /\ st'.codegen = st.codegen
  BY DEF AttemptPassed, StateTyped, States, Kinds
<1>2. GuardTyped'
  BY ClearIsGuard DEF AttemptPassed, GuardTyped
<1>3. /\ ev' \in Events
      /\ ev'.gates <= steps + 1 /\ ev'.fix <= steps + 1
      /\ ev'.env <= steps + 1 /\ ev'.tool <= steps + 1 /\ ev'.llm <= steps + 1
  BY DEF AttemptPassed, EventsTyped, Events, ControlTyped
<1>4. trust' \in Records
  BY TrustTyped DEF AttemptPassed
<1> QED BY <1>1, <1>2, <1>3, <1>4 DEF AttemptTyped

\* A failure that is recorded in the guard under a signature and a kind.
LEMMA RecordedIsGuard ==
  ASSUME GuardTyped, NEW signature \in Signatures, NEW label \in Labels
  PROVE  /\ RecordTransition(RecordFailure(guard, signature), label)
              \in Guards(Signatures, Labels, DriftScores)
         /\ InWindows(RecordTransition(RecordFailure(guard, signature), label))
<1>1. /\ RecordFailure(guard, signature) \in Guards(Signatures, Labels, DriftScores)
      /\ InWindows(RecordFailure(guard, signature))
  BY FailureIsGuard DEF GuardTyped
<1> QED BY <1>1, TransitionIsGuard

LEMMA AttemptFailedTyped ==
  ASSUME TypeInv, NEW result \in Failures, AttemptFailed(result)
  PROVE  AttemptTyped
<1> USE DEF TypeInv
<1> DEFINE g == RecordTransition(RecordFailure(guard, Signature(result)),
                                 <<"run_gate", result.kind>>)
<1>1. g \in Guards(Signatures, Labels, DriftScores) /\ InWindows(g)
  <2>1. Signature(result) \in Signatures
    BY DEF Signature, Signatures, FailedKinds, Failures
  <2>2. <<"run_gate", result.kind>> \in Labels
    BY DEF Labels, Kinds, Failures
  <2> QED BY <2>1, <2>2, RecordedIsGuard
<1>2. guard' = g
  BY DEF AttemptFailed
<1> HIDE DEF g
<1>3. GuardTyped'
  BY <1>1, <1>2 DEF GuardTyped
<1>4. st' \in States /\ st'.bridge = st.bridge /\ st'.codegen = st.codegen
  <2>1. /\ result.status \in {"PASS", "FAIL", "INFO_GAP"} /\ result.kind \in Kinds
        /\ g.stalemate \in BOOLEAN /\ (st.infoGap \/ IsInfoGap(result)) \in BOOLEAN
    BY <1>1 DEF Failures, Kinds, Guards
  <2>2. st' = [st EXCEPT !.verdict = result.status, !.kind = result.kind,
                 !.stalemate = g.stalemate, !.forced = g.stalemate,
                 !.infoGap = @ \/ IsInfoGap(result)]
    BY DEF AttemptFailed, g
  <2> QED BY <2>1, <2>2 DEF StateTyped, States
<1>5. /\ ev' \in Events
      /\ ev'.gates <= steps + 1 /\ ev'.fix <= steps + 1
      /\ ev'.env <= steps + 1 /\ ev'.tool <= steps + 1 /\ ev'.llm <= steps + 1
  <2> DEFINE e == [ev EXCEPT !.gates = @ + 1]
  <2>1. e \in Events /\ e.gates <= steps + 1 /\ e.fix <= steps
        /\ e.env <= steps /\ e.tool <= steps /\ e.llm <= steps
    BY DEF EventsTyped, Events, ControlTyped
  <2>2. ev' = Bump(e, result.kind) /\ steps \in Nat
    BY DEF AttemptFailed, ControlTyped
  <2> HIDE DEF e
  <2> QED BY <2>1, <2>2, BumpTyped
<1>6. trust' \in Records
  BY TrustTyped DEF AttemptFailed
<1> QED BY <1>3, <1>4, <1>5, <1>6 DEF AttemptTyped

LEMMA AttemptResultTyped ==
  ASSUME TypeInv, NEW result \in Results, Attempt(result)
  PROVE  AttemptTyped
<1>1. CASE result.status = "PASS"
  BY <1>1, AttemptPassedTyped DEF Attempt
<1>2. CASE result.status # "PASS"
  <2>1. result \in Failures /\ AttemptFailed(result)
    BY <1>2 DEF Results, Attempt
  <2> QED BY <2>1, AttemptFailedTyped
<1> QED BY <1>1, <1>2

\* An attempt, its artifacts and its way out of run_gate keep every type.
LEMMA RunGateTyped ==
  ASSUME TypeInv, At("run_gate"), AttemptTyped, files' \in Artifacts, LeaveRunGate
  PROVE  TypeInv'
<1> USE DEF TypeInv
<1>1. RouteAfterRun(st') \in FlowEdges[node]
  BY RoutersFollowEdges DEF At
<1>2. node \in DOMAIN FlowEdges /\ outcome = "running"
  BY DEF At, FlowEdges
<1>3. ControlTyped' /\ steps' = steps + 1
  BY <1>1, <1>2, LeaveByTriageTyped DEF LeaveRunGate
<1>4. StateTyped'
  <2>1. st.bridge \in Nat /\ st.codegen \in Nat
    BY DEF StateTyped, States
  <2> QED BY <2>1, <1>3 DEF AttemptTyped, StateTyped, ControlTyped
<1>5. EventsTyped'
  BY <1>3 DEF AttemptTyped, EventsTyped
<1>6. GuardTyped' /\ trust' \in Records
  BY DEF AttemptTyped
<1>7. profile' \in Profiles
  BY DEF LeaveRunGate
<1> QED BY <1>3, <1>4, <1>5, <1>6, <1>7

\* The actions of run_gate.
LEMMA RunGateActionsTyped ==
  ASSUME TypeInv,
         SkipGate \/ AgentVerdict \/ AgentStop \/ NoFreshVerdict \/ NoScript \/ ScriptRuns
  PROVE  TypeInv'
<1> USE DEF TypeInv
<1>0. At("run_gate") /\ LeaveRunGate
  BY DEF SkipGate, AgentVerdict, AgentStop, NoFreshVerdict, NoScript, ScriptRuns, AttemptWith
<1> DEFINE Proposing == \A proposal \in BOOLEAN : Proposed(files, proposal) \in Artifacts
<1>p. Proposing
  BY DEF Proposed, Artifacts
<1> HIDE DEF Proposing
<1>c. steps \in Nat
  BY DEF ControlTyped
<1>1. CASE SkipGate
  <2>1. st' = st /\ guard' = guard /\ ev' = ev /\ trust' = trust /\ files' = files
    BY <1>1 DEF SkipGate
  <2>2. GuardTyped'
    BY <2>1 DEF GuardTyped, InWindows
  <2>3. ev' \in Events /\ ev'.gates <= steps + 1 /\ ev'.fix <= steps + 1
        /\ ev'.env <= steps + 1 /\ ev'.tool <= steps + 1 /\ ev'.llm <= steps + 1
    BY <2>1, <1>c DEF EventsTyped, Events
  <2>4. AttemptTyped
    BY <2>1, <2>2, <2>3 DEF AttemptTyped, StateTyped
  <2> QED BY <1>0, <2>1, <2>4, RunGateTyped
<1>2. CASE AgentVerdict
  <2>1. PICK v \in Verdicts, proposal \in BOOLEAN :
          /\ files' = [Proposed(files, proposal) EXCEPT !.verdict = v]
          /\ Attempt(v)
    BY <1>2 DEF AgentVerdict
  <2>2. files' \in Artifacts
    BY <2>1, <1>p DEF Proposing, Artifacts
  <2>3. AttemptTyped
    BY <2>1, VerdictsAreResults, AttemptResultTyped
  <2> QED BY <1>0, <2>2, <2>3, RunGateTyped
<1>3. CASE AgentStop
  <2>1. PICK report \in Failures, proposal \in BOOLEAN :
          /\ files' = [Proposed(files, proposal) EXCEPT !.subStop = TRUE]
          /\ AttemptFailed(report)
    BY <1>3 DEF AgentStop, Failures
  <2>2. files' \in Artifacts
    <3>1. Proposed(files, proposal) \in Artifacts
      BY <1>p DEF Proposing
    <3>2. files' = [Proposed(files, proposal) EXCEPT !.subStop = TRUE]
      BY <2>1
    <3> QED BY <3>1, <3>2 DEF Artifacts
  <2>3. AttemptTyped
    BY <2>1, AttemptFailedTyped
  <2> QED BY <1>0, <2>2, <2>3, RunGateTyped
<1>4. CASE NoFreshVerdict
  <2>1. files' \in Artifacts
    BY <1>4, <1>p DEF Proposing, NoFreshVerdict
  <2> DEFINE g == RecordTransition(RecordFailure(guard, <<"llm", "awaiting">>),
                                   <<"run_gate", "llm">>)
  <2>2. g \in Guards(Signatures, Labels, DriftScores) /\ InWindows(g)
    <3>1. <<"llm", "awaiting">> \in Signatures /\ <<"run_gate", "llm">> \in Labels
      BY DEF Signatures, FailedKinds, Labels, Kinds
    <3> QED BY <3>1, RecordedIsGuard
  <2>3. /\ guard' = g
        /\ st' = [st EXCEPT !.verdict = "FAIL", !.kind = "llm", !.error = "awaiting",
                            !.stalemate = g.stalemate, !.forced = g.stalemate]
    BY <1>4 DEF NoFreshVerdict
  <2> HIDE DEF g
  <2>4. st' \in States /\ st'.bridge = st.bridge /\ st'.codegen = st.codegen
    <3>1. g.stalemate \in BOOLEAN
      BY <2>2 DEF Guards
    <3> QED BY <2>3, <3>1 DEF StateTyped, States, Kinds
  <2>5. GuardTyped'
    BY <2>2, <2>3 DEF GuardTyped
  <2>6. /\ ev' \in Events
        /\ ev'.gates <= steps + 1 /\ ev'.fix <= steps + 1
        /\ ev'.env <= steps + 1 /\ ev'.tool <= steps + 1 /\ ev'.llm <= steps + 1
    <3> DEFINE e == [ev EXCEPT !.gates = @ + 1]
    <3>1. e \in Events /\ e.gates <= steps + 1 /\ e.fix <= steps
          /\ e.env <= steps /\ e.tool <= steps /\ e.llm <= steps
      BY <1>c DEF EventsTyped, Events
    <3>2. ev' = Bump(e, "llm")
      BY <1>4 DEF NoFreshVerdict
    <3> HIDE DEF e
    <3> QED BY <3>1, <3>2, <1>c, BumpTyped
  <2>7. trust' \in Records
    BY <1>4 DEF NoFreshVerdict
  <2>8. AttemptTyped
    BY <2>4, <2>5, <2>6, <2>7 DEF AttemptTyped
  <2> QED BY <1>0, <2>1, <2>8, RunGateTyped
<1>5. CASE NoScript
  <2>1. /\ guard' = guard /\ trust' = trust /\ files' = files
        /\ st' = [st EXCEPT !.infoGap = TRUE, !.verdict = "INFO_GAP", !.kind = "info"]
    BY <1>5 DEF NoScript
  <2>2. st' \in States /\ st'.bridge = st.bridge /\ st'.codegen = st.codegen
    BY <2>1 DEF StateTyped, States, Kinds
  <2>3. /\ ev' \in Events
        /\ ev'.gates <= steps + 1 /\ ev'.fix <= steps + 1
        /\ ev'.env <= steps + 1 /\ ev'.tool <= steps + 1 /\ ev'.llm <= steps + 1
    <3> DEFINE e == [ev EXCEPT !.gates = @ + 1]
    <3>1. e \in Events /\ e.gates <= steps + 1 /\ e.fix <= steps
          /\ e.env <= steps /\ e.tool <= steps /\ e.llm <= steps
      BY <1>c DEF EventsTyped, Events
    <3>2. ev' = Bump(e, "info")
      BY <1>5 DEF NoScript
    <3> HIDE DEF e
    <3> QED BY <3>1, <3>2, <1>c, BumpTyped
  <2>4. GuardTyped'
    BY <2>1 DEF GuardTyped, InWindows
  <2>5. AttemptTyped
    BY <2>1, <2>2, <2>3, <2>4 DEF AttemptTyped
  <2> QED BY <1>0, <2>1, <2>5, RunGateTyped
<1>6. CASE ScriptRuns
  <2>1. PICK own \in Verdicts, wrote \in BOOLEAN :
          /\ files' = [files EXCEPT !.verdict = ScriptResult(own, wrote)]
          /\ Attempt(ScriptResult(own, wrote))
    BY <1>6 DEF ScriptRuns
  <2>2. ScriptResult(own, wrote) \in Verdicts
    BY DEF ScriptResult, Artifacts
  <2>3. files' \in Artifacts
    BY <2>1, <2>2 DEF Artifacts
  <2>4. AttemptTyped
    BY <2>1, <2>2, VerdictsAreResults, AttemptResultTyped
  <2> QED BY <1>0, <2>3, <2>4, RunGateTyped
<1> QED BY <1>1, <1>2, <1>3, <1>4, <1>5, <1>6

\* An action outside run_gate: it adds at most one round and counts no event.
LEMMA OutsideGateTyped ==
  ASSUME TypeInv, ControlTyped', steps' = steps + 1,
         st' \in States, st'.bridge <= st.bridge + 1, st'.codegen <= st.codegen + 1,
         GuardTyped', ev' = ev, trust' \in Records, files' \in Artifacts,
         profile' = profile
  PROVE  TypeInv'
<1> USE DEF TypeInv
<1>1. steps \in Nat /\ st.bridge \in Nat /\ st.codegen \in Nat
  <2>1. steps \in Nat
    BY DEF ControlTyped
  <2>2. st.bridge \in Nat /\ st.codegen \in Nat
    BY DEF StateTyped, States
  <2> QED BY <2>1, <2>2
<1>2. StateTyped'
  <2>1. st'.bridge \in Nat /\ st'.codegen \in Nat
    BY DEF States
  <2> QED BY <1>1, <2>1 DEF StateTyped
<1>3. EventsTyped'
  BY <1>1 DEF EventsTyped, Events
<1> QED BY <1>2, <1>3

LEMMA SameGuardTyped == ASSUME GuardTyped, guard' = guard PROVE GuardTyped'
BY DEF GuardTyped, InWindows

LEMMA RecordedTransitionTyped ==
  ASSUME GuardTyped, NEW label \in Labels, guard' = RecordTransition(guard, label)
  PROVE  GuardTyped' /\ guard'.stalemate \in BOOLEAN
<1>1. /\ RecordTransition(guard, label) \in Guards(Signatures, Labels, DriftScores)
      /\ InWindows(RecordTransition(guard, label))
  BY TransitionIsGuard DEF GuardTyped
<1> QED BY <1>1 DEF GuardTyped, Guards

\* Choosing a runner.
LEMMA SelectionTyped ==
  ASSUME TypeInv, LoadContext \/ SelectRunner
  PROVE  TypeInv'
<1> USE DEF TypeInv
<1>1. CASE LoadContext
  <2>1. node = "load_context" /\ outcome = "running"
    BY <1>1 DEF LoadContext, At
  <2>2. ControlTyped' /\ steps' = steps + 1
    BY <1>1, <2>1, RoutersFollowEdges, LeaveByTriageTyped DEF LoadContext, FlowEdges
  <2>3. /\ st' \in States /\ st'.bridge = st.bridge /\ st'.codegen = st.codegen
    BY <1>1 DEF LoadContext, StateTyped, States
  <2>4. /\ guard' = guard /\ ev' = ev /\ trust' = trust /\ files' = files
        /\ profile' = profile
    BY <1>1 DEF LoadContext
  <2>5. st.bridge \in Nat /\ st.codegen \in Nat
    BY DEF StateTyped, States
  <2> QED BY <2>2, <2>3, <2>4, <2>5, SameGuardTyped, OutsideGateTyped
<1>2. CASE SelectRunner
  <2>1. node = "select_runner" /\ outcome = "running"
    BY <1>2 DEF SelectRunner, At
  <2>2. ControlTyped' /\ steps' = steps + 1
    BY <1>2, <2>1, LeaveTyped DEF SelectRunner, Follows
  <2>3. /\ st' \in States /\ st'.bridge = st.bridge /\ st'.codegen = st.codegen
    <3>1. st \in States
      BY DEF StateTyped
    <3>2. PICK r \in {"python", "llm"} :
            st' = st \/ st' = [st EXCEPT !.runner = r, !.forced = TRUE]
                    \/ st' = [st EXCEPT !.runner = r]
      BY <1>2 DEF SelectRunner
    <3> QED BY <3>1, <3>2 DEF States
  <2>4. ev' = ev /\ trust' = trust /\ files' = files /\ profile' = profile
    BY <1>2 DEF SelectRunner
  <2>5. GuardTyped'
    <3>1. CASE guard' = guard
      BY <3>1, SameGuardTyped
    <3>2. CASE guard' = RecordTransition(guard, <<"select_runner",
                          IF st.kind = "unset" THEN "verification" ELSE st.kind>>)
      <4>1. <<"select_runner", IF st.kind = "unset" THEN "verification" ELSE st.kind>>
              \in Labels
        BY DEF StateTyped, States, Labels
      <4> QED BY <3>2, <4>1, RecordedTransitionTyped
    <3> QED BY <1>2, <3>1, <3>2 DEF SelectRunner
  <2>6. st.bridge \in Nat /\ st.codegen \in Nat
    BY DEF StateTyped, States
  <2> QED BY <2>2, <2>3, <2>4, <2>5, <2>6, OutsideGateTyped
<1> QED BY <1>1, <1>2

\* The validation nodes.
LEMMA ValidationTyped ==
  ASSUME TypeInv, ParseItems \/ Judge \/ ApplyPlan \/ PendingRepro
  PROVE  TypeInv'
<1> USE DEF TypeInv
<1>1. /\ guard' = guard /\ ev' = ev /\ trust' = trust /\ files' = files
      /\ profile' = profile
  BY DEF ParseItems, Judge, ApplyPlan, PendingRepro
<1>2. /\ st' \in States /\ st'.bridge = st.bridge /\ st'.codegen = st.codegen
  <2>1. CASE Judge
    <3>1. st \in States
      BY DEF StateTyped
    <3>2. PICK action \in {"retry_gate", "halt"} : st' = [st EXCEPT !.action = action]
      BY <2>1 DEF Judge
    <3> QED BY <3>1, <3>2 DEF States
  <2>2. CASE ParseItems \/ ApplyPlan \/ PendingRepro
    BY <2>2 DEF ParseItems, ApplyPlan, PendingRepro, StateTyped
  <2> QED BY <2>1, <2>2
<1>3. ControlTyped' /\ steps' = steps + 1
  <2>1. CASE ParseItems \/ Judge \/ ApplyPlan
    <3>1. node \in DOMAIN Follows /\ outcome = "running" /\ Leave(TRUE)
      BY <2>1 DEF ParseItems, Judge, ApplyPlan, At, Follows
    <3> QED BY <3>1, LeaveTyped
  <2>2. CASE PendingRepro
    <3>1. /\ outcome = "running" /\ GoOn(TRUE, RouteAfterRepro(st))
          /\ overrides' \in 0..MaxOverrides
      BY <2>2 DEF PendingRepro, At, ControlTyped
    <3>2. RouteAfterRepro(st) \in VerifyNodes
      BY DEF RouteAfterRepro, VerifyNodes, FlowEdges, Follows
    <3> QED BY <3>1, <3>2, GoOnTyped
  <2> QED BY <2>1, <2>2
<1>4. st.bridge \in Nat /\ st.codegen \in Nat
  BY DEF StateTyped, States
<1> QED BY <1>1, <1>2, <1>3, <1>4, SameGuardTyped, OutsideGateTyped

\* Copying a guard into the state.
LEMMA GuardedTyped ==
  ASSUME NEW s \in States, NEW g, g.stalemate \in BOOLEAN
  PROVE  /\ Guarded(s, g) \in States
         /\ Guarded(s, g).bridge = s.bridge /\ Guarded(s, g).codegen = s.codegen
BY DEF Guarded, States

\* The bridge loop.
LEMMA BridgeTyped ==
  ASSUME TypeInv, SkipDiagnosis \/ DiagnoseEnv \/ PatchBridge
  PROVE  TypeInv'
<1> USE DEF TypeInv
<1>1. st \in States /\ st.bridge \in Nat /\ st.codegen \in Nat
  BY DEF StateTyped, States
<1>2. CASE SkipDiagnosis \/ DiagnoseEnv
  <2>1. node = "diagnose_env" /\ outcome = "running" /\ LeaveDiagnose
    BY <1>2 DEF SkipDiagnosis, DiagnoseEnv, At
  <2>2. ControlTyped' /\ steps' = steps + 1
    BY <2>1, RoutersFollowEdges, LeaveByTriageTyped DEF LeaveDiagnose, FlowEdges
  <2>3. ev' = ev /\ trust' = trust /\ profile' = profile
    BY <2>1 DEF LeaveDiagnose
  <2>4. CASE SkipDiagnosis
    <3>1. guard' = guard /\ files' = files
      BY <2>4 DEF SkipDiagnosis
    <3>2. \/ st' = st
          \/ st' = [st EXCEPT !.verdict = "FAIL", !.error = "bridge_round_cap"]
      BY <2>4 DEF SkipDiagnosis
    <3>3. st' \in States /\ st'.bridge = st.bridge /\ st'.codegen = st.codegen
      BY <1>1, <3>2 DEF States
    <3> QED BY <1>1, <2>2, <2>3, <3>1, <3>3, SameGuardTyped, OutsideGateTyped
  <2>5. CASE DiagnoseEnv
    <3>1. guard' = RecordTransition(guard, <<"diagnose_env", st.kind>>)
      BY <2>5 DEF DiagnoseEnv
    <3>2. <<"diagnose_env", st.kind>> \in Labels
      BY <1>1 DEF Labels, States
    <3>3. GuardTyped' /\ guard'.stalemate \in BOOLEAN
      BY <3>1, <3>2, RecordedTransitionTyped
    <3> DEFINE s == [st EXCEPT !.runner = "llm", !.error = ""]
    <3>4. s \in States /\ s.bridge = st.bridge /\ s.codegen = st.codegen
      BY <1>1 DEF States
    <3>5. st' = Guarded(s, guard')
      BY <2>5 DEF DiagnoseEnv
    <3> HIDE DEF s
    <3>6. st' \in States /\ st'.bridge = st.bridge /\ st'.codegen = st.codegen
      BY <3>3, <3>4, <3>5, GuardedTyped
    <3>7. files' \in Artifacts
      <4>1. CASE UNCHANGED files
        BY <4>1
      <4>2. CASE \E v \in Verdicts \cup {None}, proposal \in BOOLEAN :
                   files' = [Proposed(files, proposal) EXCEPT !.verdict = v]
        BY <4>2 DEF Proposed, Artifacts
      <4> QED BY <2>5, <4>1, <4>2 DEF DiagnoseEnv
    <3> QED BY <1>1, <2>2, <2>3, <3>3, <3>6, <3>7, OutsideGateTyped
  <2> QED BY <1>2, <2>4, <2>5
<1>3. CASE PatchBridge
  <2>0. st.bridge + 1 \in Nat
    BY <1>1
  <2>1. node = "patch_bridge" /\ outcome = "running"
    BY <1>3 DEF PatchBridge, At
  <2>2. ControlTyped' /\ steps' = steps + 1
    BY <1>3, <2>1, LeaveTyped DEF PatchBridge, Follows
  <2>3. ev' = ev /\ trust' = trust /\ profile' = profile
    BY <1>3 DEF PatchBridge
  <2>4. GuardTyped' /\ guard'.stalemate \in BOOLEAN
    <3>1. <<"patch_bridge", st.kind>> \in Labels
      BY <1>1 DEF Labels, States
    <3> QED BY <1>3, <3>1, RecordedTransitionTyped DEF PatchBridge
  <2>5. PICK applied \in BOOLEAN :
          /\ files' = [files EXCEPT !.bridge = @ \/ applied]
          /\ st' = Guarded([st EXCEPT !.bridge = @ + 1,
                                      !.error = IF applied THEN "" ELSE "not_applied"],
                           guard')
    BY <1>3 DEF PatchBridge
  <2>6. files' \in Artifacts
    BY <2>5 DEF Artifacts
  <2> DEFINE s == [st EXCEPT !.bridge = @ + 1,
                             !.error = IF applied THEN "" ELSE "not_applied"]
  <2>7. s \in States /\ s.bridge = st.bridge + 1 /\ s.codegen = st.codegen
    <3>1. PICK error \in {"", "not_applied"} :
            error = IF applied THEN "" ELSE "not_applied"
      OBVIOUS
    <3> DEFINE n == st.bridge + 1
    <3>2. n \in Nat
      BY <2>0
    <3>3. s = [st EXCEPT !.bridge = n, !.error = error]
      BY <3>1
    <3> HIDE DEF n, s
    <3>4. s \in States /\ s.bridge = n /\ s.codegen = st.codegen
      BY <1>1, <3>2, <3>3 DEF States
    <3> QED BY <3>4 DEF n
  <2>8. st' = Guarded(s, guard')
    BY <2>5
  <2> HIDE DEF s
  <2>9. st' \in States /\ st'.bridge = st.bridge + 1 /\ st'.codegen = st.codegen
    BY <2>4, <2>7, <2>8, GuardedTyped
  <2> QED BY <1>1, <2>2, <2>3, <2>4, <2>6, <2>9, OutsideGateTyped
<1> QED BY <1>2, <1>3

\* Evaluation.
LEMMA EvaluationTyped ==
  ASSUME TypeInv, SkipEvaluation \/ Evaluate
  PROVE  TypeInv'
<1> USE DEF TypeInv
<1>1. st \in States /\ st.bridge \in Nat /\ st.codegen \in Nat
  BY DEF StateTyped, States
<1>2. node = "evaluate" /\ outcome = "running"
  BY DEF SkipEvaluation, Evaluate, At
<1>3. ControlTyped' /\ steps' = steps + 1
  BY <1>2, RoutersFollowEdges, LeaveByTriageTyped DEF SkipEvaluation, Evaluate, FlowEdges
<1>4. ev' = ev /\ trust' = trust /\ profile' = profile
  BY DEF SkipEvaluation, Evaluate
<1>5. CASE SkipEvaluation
  <2>1. guard' = guard /\ files' = files /\ st' = [st EXCEPT !.verdict = "INFO_GAP"]
    BY <1>5 DEF SkipEvaluation
  <2>2. st' \in States /\ st'.bridge = st.bridge /\ st'.codegen = st.codegen
    BY <1>1, <2>1 DEF States
  <2> QED BY <1>1, <1>3, <1>4, <2>1, <2>2, SameGuardTyped, OutsideGateTyped
<1>6. CASE Evaluate
  <2>1. PICK score \in DriftScores :
          LET verdict == IF st.verdict = "PASS" /\ score > DriftMax THEN "FAIL"
                         ELSE st.verdict
          IN  /\ guard' = RecordDrift(guard, score)
              /\ files' = [files EXCEPT !.allowed =
                             IF PromoteAllowed(ev, trust, verdict) THEN "yes" ELSE "no"]
              /\ st' = Guarded([st EXCEPT
                          !.verdict = verdict,
                          !.openIssues = verdict # "PASS",
                          !.cont = ContinueImprovement(ev, trust, verdict),
                          !.complete = IF CompleteAtLeast(ev, 75) THEN "high" ELSE "low"],
                         guard')
    BY <1>6 DEF Evaluate
  <2> DEFINE verdict == IF st.verdict = "PASS" /\ score > DriftMax THEN "FAIL"
                        ELSE st.verdict
             s == [st EXCEPT
                     !.verdict = verdict,
                     !.openIssues = verdict # "PASS",
                     !.cont = ContinueImprovement(ev, trust, verdict),
                     !.complete = IF CompleteAtLeast(ev, 75) THEN "high" ELSE "low"]
  <2>2. files' \in Artifacts
    BY <2>1 DEF Artifacts
  <2>3. GuardTyped' /\ guard'.stalemate \in BOOLEAN
    <3>1. /\ RecordDrift(guard, score) \in Guards(Signatures, Labels, DriftScores)
          /\ InWindows(RecordDrift(guard, score))
      BY DriftIsGuard DEF GuardTyped
    <3> QED BY <2>1, <3>1 DEF GuardTyped, Guards
  <2>4. s \in States /\ s.bridge = st.bridge /\ s.codegen = st.codegen
    <3>1. verdict \in {"none", "PASS", "FAIL", "INFO_GAP"}
      BY <1>1 DEF States
    <3>2. ContinueImprovement(ev, trust, verdict) \in BOOLEAN
      BY DEF ContinueImprovement, EventsTyped, Events
    <3>3. PICK open \in BOOLEAN, cont \in BOOLEAN, complete \in {"high", "low"} :
            s = [st EXCEPT !.verdict = verdict, !.openIssues = open, !.cont = cont,
                           !.complete = complete]
      BY <3>2
    <3> HIDE DEF verdict, s
    <3> QED BY <1>1, <3>1, <3>3 DEF States
  <2>5. st' = Guarded(s, guard')
    BY <2>1
  <2> HIDE DEF s
  <2>6. st' \in States /\ st'.bridge = st.bridge /\ st'.codegen = st.codegen
    BY <2>3, <2>4, <2>5, GuardedTyped
  <2> QED BY <1>1, <1>3, <1>4, <2>2, <2>3, <2>6, OutsideGateTyped
<1> QED BY <1>5, <1>6

\* The cap on codegen rounds, or one round more.
LEMMA CodegenOrCapTyped ==
  ASSUME NEW s \in States
  PROVE  /\ CodegenOrCap(s) \in States /\ CodegenOrCap(s).bridge = s.bridge
         /\ CodegenOrCap(s).codegen <= s.codegen + 1
         /\ s.codegen <= MaxCodegen => CodegenOrCap(s).codegen <= MaxCodegen
         /\ CodegenOrCap(s).verdict = s.verdict /\ CodegenOrCap(s).parity = "no"
<1> USE VerifyGroupAssumption
<1>1. s.codegen \in Nat
  BY DEF States
<1>2. CASE s.codegen >= MaxCodegen
  <2>1. CodegenOrCap(s) = [s EXCEPT !.parity = "no", !.error = "codegen_round_cap"]
    BY <1>2 DEF CodegenOrCap
  <2>2. CodegenOrCap(s) \in States /\ CodegenOrCap(s).bridge = s.bridge
        /\ CodegenOrCap(s).codegen = s.codegen
        /\ CodegenOrCap(s).verdict = s.verdict /\ CodegenOrCap(s).parity = "no"
    BY <2>1 DEF States
  <2> QED BY <1>1, <2>2
<1>3. CASE ~(s.codegen >= MaxCodegen)
  <2> DEFINE n == s.codegen + 1
  <2>1. CodegenOrCap(s) = [s EXCEPT !.parity = "no", !.runner = "llm", !.codegen = n]
    BY <1>3 DEF CodegenOrCap
  <2>2. n \in Nat /\ n <= MaxCodegen
    BY <1>1, <1>3
  <2> HIDE DEF n
  <2>3. CodegenOrCap(s) \in States /\ CodegenOrCap(s).bridge = s.bridge
        /\ CodegenOrCap(s).codegen = n
        /\ CodegenOrCap(s).verdict = s.verdict /\ CodegenOrCap(s).parity = "no"
    BY <2>1, <2>2 DEF States
  <2>4. n <= s.codegen + 1
    BY <1>1 DEF n
  <2> QED BY <2>2, <2>3, <2>4
<1> QED BY <1>2, <1>3

\* Parity and codegen.
LEMMA ParityTyped ==
  ASSUME TypeInv, SkipParity \/ NoOpsToCompare \/ ParityCheck \/ RunCodegen
  PROVE  TypeInv'
<1> USE DEF TypeInv
<1>1. st \in States /\ st.bridge \in Nat /\ st.codegen \in Nat
  BY DEF StateTyped, States
<1>2. guard' = guard /\ ev' = ev /\ trust' = trust /\ profile' = profile
  BY DEF SkipParity, NoOpsToCompare, ParityCheck, RunCodegen, LeaveParity
<1>3. CASE SkipParity \/ NoOpsToCompare \/ ParityCheck
  <2>1. node = "parity_check" /\ outcome = "running" /\ LeaveParity
    BY <1>3 DEF SkipParity, NoOpsToCompare, ParityCheck, At
  <2>2. ControlTyped' /\ steps' = steps + 1
    BY <2>1, RoutersFollowEdges, LeaveByTriageTyped DEF LeaveParity, FlowEdges
  <2>3. Reference \in Verdicts \cup {None}
    BY DEF Reference, Artifacts
  <2>4. \/ st' = st \/ st' = [st EXCEPT !.parity = "ok"] \/ st' = CodegenOrCap(st)
    BY <1>3 DEF SkipParity, NoOpsToCompare, ParityCheck
  <2>5. st' \in States /\ st'.bridge = st.bridge /\ st'.codegen <= st.codegen + 1
    <3>1. CASE st' = st
      BY <1>1, <3>1
    <3>2. CASE st' = [st EXCEPT !.parity = "ok"]
      <4>1. st' \in States /\ st'.bridge = st.bridge /\ st'.codegen = st.codegen
        BY <1>1, <3>2 DEF States
      <4> QED BY <1>1, <4>1
    <3>3. CASE st' = CodegenOrCap(st)
      BY <1>1, <3>3, CodegenOrCapTyped
    <3> QED BY <2>4, <3>1, <3>2, <3>3
  <2>6. files' \in Artifacts
    <3>1. CASE SkipParity
      BY <3>1 DEF SkipParity, Artifacts
    <3>2. CASE NoOpsToCompare
      BY <2>3, <3>2 DEF NoOpsToCompare, Artifacts
    <3>3. CASE ParityCheck
      <4>1. PICK own \in Verdicts, wrote \in BOOLEAN, report \in {"ok", "no"} :
              files' = [files EXCEPT !.reference = Reference,
                                     !.verdict = ScriptResult(own, wrote),
                                     !.report = report]
        BY <3>3 DEF ParityCheck
      <4>2. ScriptResult(own, wrote) \in Verdicts
        BY DEF ScriptResult, Artifacts
      <4> QED BY <2>3, <4>1, <4>2 DEF Artifacts
    <3> QED BY <1>3, <3>1, <3>2, <3>3
  <2> QED BY <1>1, <1>2, <2>2, <2>5, <2>6, SameGuardTyped, OutsideGateTyped
<1>4. CASE RunCodegen
  <2>1. node = "run_codegen" /\ outcome = "running"
    BY <1>4 DEF RunCodegen, At
  <2>2. ControlTyped' /\ steps' = steps + 1
    BY <1>4, <2>1, LeaveTyped DEF RunCodegen, Follows
  <2>3. \/ st' = [st EXCEPT !.verdict = "FAIL", !.error = "codegen_round_cap"]
        \/ st' = [st EXCEPT !.runner = "llm", !.error = ""]
    BY <1>4 DEF RunCodegen
  <2>4. st' \in States /\ st'.bridge = st.bridge /\ st'.codegen = st.codegen
    BY <1>1, <2>3 DEF States
  <2>5. \/ files' = files
        \/ \E v \in Verdicts \cup {None}, wrote \in BOOLEAN :
             files' = [files EXCEPT !.verdict = v, !.ops = @ \/ wrote]
    BY <1>4 DEF RunCodegen
  <2>6. files' \in Artifacts
    BY <2>5 DEF Artifacts
  <2> QED BY <1>1, <1>2, <2>2, <2>4, <2>6, SameGuardTyped, OutsideGateTyped
<1> QED BY <1>3, <1>4

\* A parity check that raises changes nothing but how the run ended.
LEMMA RaiseTyped ==
  ASSUME TypeInv, ParityRaises
  PROVE  TypeInv'
<1> USE DEF TypeInv
<1>1. /\ node' = node /\ st' = st /\ guard' = guard /\ ev' = ev /\ trust' = trust
      /\ files' = files /\ profile' = profile /\ overrides' = overrides
  BY DEF ParityRaises
<1>2. ControlTyped' /\ steps' = steps + 1
  BY <1>1, VerifyGroupAssumption DEF ParityRaises, At, ControlTyped
<1>3. st \in States /\ st.bridge \in Nat /\ st.codegen \in Nat
  BY DEF StateTyped, States
<1> QED BY <1>1, <1>2, <1>3, SameGuardTyped, OutsideGateTyped

\* Promotion and the end of a run.
LEMMA EndTyped ==
  ASSUME TypeInv, Promote \/ FinalizeReproduction \/ Finalize \/ MetaStep
  PROVE  TypeInv'
<1> USE DEF TypeInv
<1>1. st \in States /\ st.bridge \in Nat /\ st.codegen \in Nat
  BY DEF StateTyped, States
<1>2. guard' = guard /\ ev' = ev /\ files' = files /\ profile' = profile
  BY DEF Promote, FinalizeReproduction, Finalize, MetaStep
<1>3. outcome = "running"
  BY DEF Promote, FinalizeReproduction, Finalize, MetaStep, At
<1>4. ControlTyped' /\ steps' = steps + 1
  <2>1. CASE Promote \/ FinalizeReproduction \/ MetaStep
    <3>1. node \in DOMAIN Follows
      BY <2>1 DEF Promote, FinalizeReproduction, MetaStep, At, Follows
    <3>2. \E ok \in BOOLEAN : Leave(ok)
      <4>1. CASE Promote
        <5>1. (files.ops /\ files.report = "ok") \in BOOLEAN
          OBVIOUS
        <5> QED BY <4>1, <5>1 DEF Promote
      <4>2. CASE FinalizeReproduction \/ MetaStep
        BY <4>2 DEF FinalizeReproduction, MetaStep
      <4> QED BY <2>1, <4>1, <4>2
    <3> QED BY <1>3, <3>1, <3>2, LeaveTyped
  <2>2. CASE Finalize
    <3>1. PICK to \in {"meta_collect", END} : GoOn(TRUE, to)
      BY <2>2 DEF Finalize
    <3>2. to \in VerifyNodes \cup {END}
      BY DEF VerifyNodes, Follows
    <3>3. overrides' \in 0..MaxOverrides
      BY <2>2 DEF Finalize, ControlTyped
    <3> QED BY <1>3, <3>1, <3>2, <3>3, GoOnTyped
  <2> QED BY <2>1, <2>2
<1>5. st' \in States /\ st'.bridge = st.bridge /\ st'.codegen = st.codegen /\ trust' \in Records
  <2>1. CASE Promote
    <3>1. \/ st' = st
          \/ \E rejected \in BOOLEAN : st' = [st EXCEPT !.rejected = rejected]
          \/ st' = [st EXCEPT !.verdict = "FAIL", !.error = "child_evidence"]
      BY <2>1 DEF Promote
    <3>2. \/ trust' = trust \/ trust' = [trust EXCEPT !.canonical = FALSE]
          \/ \E score \in 0..TrustMax :
               trust' = [trust EXCEPT !.canonical = TRUE, !.score = score]
      BY <2>1 DEF Promote
    <3>3. trust' \in Records
      BY <3>2 DEF Records
    <3>4. st' \in States /\ st'.bridge = st.bridge /\ st'.codegen = st.codegen
      BY <1>1, <3>1 DEF States
    <3> QED BY <3>3, <3>4
  <2>2. CASE FinalizeReproduction \/ Finalize \/ MetaStep
    BY <1>1, <2>2 DEF FinalizeReproduction, Finalize, MetaStep
  <2> QED BY <2>1, <2>2
<1> QED BY <1>1, <1>2, <1>4, <1>5, SameGuardTyped, OutsideGateTyped

LEMMA TypeInvInit == Init => TypeInv
<1> SUFFICES ASSUME Init PROVE TypeInv
  OBVIOUS
<1>1. StateTyped
  <2>1. st = [runner |-> "none", verdict |-> "none", kind |-> "unset", error |-> "",
              infoGap |-> FALSE, stalemate |-> FALSE, forced |-> FALSE,
              bridge |-> 0, codegen |-> 0, openIssues |-> FALSE, cont |-> FALSE,
              complete |-> "unset", parity |-> "unset", action |-> "",
              rejected |-> FALSE]
    BY DEF Init
  <2>2. st \in States
    BY <2>1 DEF States, Kinds
  <2>3. st.bridge = 0 /\ st.codegen = 0
    BY <2>1
  <2>4. steps = 0
    BY DEF Init
  <2> QED BY <2>2, <2>3, <2>4 DEF StateTyped
<1>2. GuardTyped
  BY CleanIsGuard DEF GuardTyped, Init
<1>3. EventsTyped
  <2>1. ev = [gates |-> 0, fix |-> 0, env |-> 0, tool |-> 0, llm |-> 0, info |-> FALSE]
    BY DEF Init
  <2>2. ev \in Events
    BY <2>1 DEF Events
  <2>3. /\ ev.gates = 0 /\ ev.fix = 0 /\ ev.env = 0 /\ ev.tool = 0 /\ ev.llm = 0
    BY <2>1
  <2>4. steps = 0
    BY DEF Init
  <2> QED BY <2>2, <2>3, <2>4 DEF EventsTyped
<1>4. ControlTyped
  <2>1. steps = 0 /\ overrides = 0 /\ outcome = "running" /\ node = "load_context"
    BY DEF Init
  <2>2. 0 < MaxSteps /\ 0 \in 0..MaxSteps /\ 0 \in 0..MaxOverrides
    BY VerifyGroupAssumption
  <2>3. "load_context" \in VerifyNodes
    BY DEF VerifyNodes, FlowEdges
  <2> QED BY <2>1, <2>2, <2>3 DEF ControlTyped
<1>5. trust \in Records /\ profile \in Profiles
  BY DEF Init, Records
<1>6. files \in Artifacts
  <2>1. PICK ops \in BOOLEAN, bridge \in BOOLEAN :
          files = [verdict |-> None, reference |-> None, report |-> "none",
                   allowed |-> "none", subStop |-> FALSE, proposal |-> FALSE,
                   ops |-> ops, bridge |-> bridge]
    BY DEF Init
  <2> QED BY <2>1 DEF Artifacts
<1> QED BY <1>1, <1>2, <1>3, <1>4, <1>5, <1>6 DEF TypeInv

LEMMA TypeInvStep == TypeInv /\ [Next]_vars => TypeInv'
<1> SUFFICES ASSUME TypeInv, [Next]_vars PROVE TypeInv'
  OBVIOUS
<1>1. CASE UNCHANGED vars
  BY <1>1 DEF vars, TypeInv, StateTyped, GuardTyped, InWindows, EventsTyped, ControlTyped
<1>2. CASE Next
  BY <1>2, SelectionTyped, RunGateActionsTyped, ValidationTyped, BridgeTyped,
     EvaluationTyped, ParityTyped, RaiseTyped, EndTyped DEF Next
<1> QED BY <1>1, <1>2

LEMMA TypeInvHolds == Spec => []TypeInv
BY TypeInvInit, TypeInvStep, PTL DEF Spec

\* The variables of a run keep their types, trust stays within its scale, and
\* no counter outgrows the steps of the run.
THEOREM TypeCorrect == Spec => []TypeOK
BY TypeInvHolds, TypeInvImplies, PTL

-----------------------------------------------------------------------------
(***************************************************************************)
(* The safety properties of a headless run of verify_group, as theorems:   *)
(* each from the typing above and an invariant of its own.                 *)
(***************************************************************************)
Attempting == AgentVerdict \/ AgentStop \/ NoFreshVerdict \/ NoScript \/ ScriptRuns

-----------------------------------------------------------------------------
(* What an attempt leaves behind.                                          *)

\* How the result of an attempt shows in the graph state.
Recorded ==
  /\ st'.runner = st.runner /\ st'.codegen = st.codegen /\ st'.bridge = st.bridge
  /\ st'.parity = st.parity
  /\ trust'.canonical = trust.canonical
  /\ st'.verdict = "PASS" => st'.kind # "none" \/ guard' = ClearOnPass(guard)
  /\ \/ st'.stalemate = guard'.stalemate /\ st'.forced = guard'.stalemate
     \/ st'.stalemate = st.stalemate /\ st'.forced = st.forced /\ guard' = guard

\* A file's report and permission are not written in run_gate.
Kept == files'.report = files.report /\ files'.allowed = files.allowed

LEMMA CleanHasNoStalemate ==
  ASSUME NEW S, NEW L, NEW D, NEW g \in Guards(S, L, D)
  PROVE  ClearOnPass(g).stalemate = FALSE /\ ClearOnPass(g).drift = <<>>
BY DEF ClearOnPass, Guards, Clean

LEMMA TrustKeepsCanonical ==
  ASSUME trust \in Records, NEW passed
  PROVE  TrustAfter(passed).canonical = trust.canonical
BY DEF TrustAfter, Records

LEMMA AttemptPassedRecorded ==
  ASSUME TypeInv, ~st.infoGap, AttemptPassed
  PROVE  Recorded
<1>1. st \in States /\ trust \in Records
  BY DEF TypeInv, StateTyped
<1>2. ClearOnPass(guard).stalemate = FALSE
  BY CleanHasNoStalemate DEF TypeInv, GuardTyped
<1>3. st' = [st EXCEPT !.verdict = "PASS", !.kind = "none",
                       !.stalemate = FALSE, !.forced = FALSE]
  BY DEF AttemptPassed
<1>4. /\ st'.runner = st.runner /\ st'.codegen = st.codegen /\ st'.bridge = st.bridge
      /\ st'.parity = st.parity /\ st'.infoGap = st.infoGap /\ st'.verdict = "PASS"
      /\ st'.stalemate = FALSE /\ st'.forced = FALSE
  BY <1>1, <1>3 DEF States
<1>5. guard' = ClearOnPass(guard)
  BY DEF AttemptPassed
<1>6. trust'.canonical = trust.canonical
  BY <1>1, TrustKeepsCanonical DEF AttemptPassed
<1> QED BY <1>2, <1>4, <1>5, <1>6 DEF Recorded

LEMMA AttemptFailedRecorded ==
  ASSUME TypeInv, NEW result \in Failures, AttemptFailed(result)
  PROVE  Recorded
<1>1. st \in States /\ trust \in Records
  BY DEF TypeInv, StateTyped
<1>2. PICK g : /\ guard' = g
               /\ st' = [st EXCEPT !.verdict = result.status, !.kind = result.kind,
                                   !.stalemate = g.stalemate, !.forced = g.stalemate,
                                   !.infoGap = @ \/ IsInfoGap(result)]
  BY DEF AttemptFailed
<1>3. result.kind # "none"
  BY VerifyGroupAssumption DEF Failures
<1>4. /\ st'.runner = st.runner /\ st'.codegen = st.codegen /\ st'.bridge = st.bridge
      /\ st'.parity = st.parity /\ st'.kind = result.kind
      /\ st'.stalemate = g.stalemate /\ st'.forced = g.stalemate
  BY <1>1, <1>2 DEF States
<1>5. trust'.canonical = trust.canonical
  BY <1>1, TrustKeepsCanonical DEF AttemptFailed
<1> QED BY <1>2, <1>3, <1>4, <1>5 DEF Recorded

LEMMA AttemptRecorded ==
  ASSUME TypeInv, ~st.infoGap, NEW result \in Results, Attempt(result)
  PROVE  Recorded
<1>1. CASE result.status = "PASS"
  BY <1>1, AttemptPassedRecorded DEF Attempt
<1>2. CASE result.status # "PASS"
  <2>1. result \in Failures /\ AttemptFailed(result)
    BY <1>2 DEF Results, Attempt
  <2> QED BY <2>1, AttemptFailedRecorded
<1> QED BY <1>1, <1>2

\* What an attempt leaves, whoever made it.
LEMMA AttemptingEffects ==
  ASSUME TypeInv, Attempting
  PROVE  /\ node = "run_gate" /\ outcome = "running" /\ ~st.infoGap
         /\ LeaveByTriage(RunGateGate(files'), RouteAfterRun(st'))
         /\ Recorded /\ Kept
<1>1. /\ node = "run_gate" /\ outcome = "running" /\ ~st.infoGap
      /\ LeaveByTriage(RunGateGate(files'), RouteAfterRun(st'))
  BY DEF Attempting, AgentVerdict, AgentStop, NoFreshVerdict, NoScript, ScriptRuns,
         AttemptWith, At, LeaveRunGate
<1>2. st \in States /\ trust \in Records /\ files \in Artifacts
  BY DEF TypeInv, StateTyped
<1>p. \A proposal \in BOOLEAN :
         /\ Proposed(files, proposal) \in Artifacts
         /\ Proposed(files, proposal).report = files.report
         /\ Proposed(files, proposal).allowed = files.allowed
  BY <1>2 DEF Proposed, Artifacts
<1>3. CASE AgentVerdict
  <2>1. PICK v \in Verdicts, proposal \in BOOLEAN :
          /\ files' = [Proposed(files, proposal) EXCEPT !.verdict = v]
          /\ Attempt(v)
    BY <1>3 DEF AgentVerdict
  <2>2. Kept
    BY <1>p, <2>1 DEF Kept, Artifacts
  <2>3. Recorded
    BY <1>1, <2>1, VerdictsAreResults, AttemptRecorded
  <2> QED BY <1>1, <2>2, <2>3
<1>4. CASE AgentStop
  <2>1. PICK report \in Failures, proposal \in BOOLEAN :
          /\ files' = [Proposed(files, proposal) EXCEPT !.subStop = TRUE]
          /\ AttemptFailed(report)
    BY <1>4 DEF AgentStop, Failures
  <2>2. Kept
    <3>1. files' = [Proposed(files, proposal) EXCEPT !.subStop = TRUE]
      BY <2>1
    <3> QED BY <1>p, <3>1 DEF Kept, Artifacts
  <2>3. Recorded
    BY <2>1, AttemptFailedRecorded
  <2> QED BY <1>1, <2>2, <2>3
<1>5. CASE NoFreshVerdict
  <2>1. Kept
    BY <1>5, <1>p DEF NoFreshVerdict, Kept
  <2>2. PICK g : /\ guard' = g
                 /\ st' = [st EXCEPT !.verdict = "FAIL", !.kind = "llm",
                             !.error = "awaiting",
                             !.stalemate = g.stalemate, !.forced = g.stalemate]
    BY <1>5 DEF NoFreshVerdict
  <2>3. /\ st'.runner = st.runner /\ st'.codegen = st.codegen /\ st'.bridge = st.bridge
        /\ st'.parity = st.parity /\ st'.verdict = "FAIL"
        /\ st'.stalemate = g.stalemate /\ st'.forced = g.stalemate
    BY <1>2, <2>2 DEF States
  <2>4. trust' = trust
    BY <1>5 DEF NoFreshVerdict
  <2> QED BY <1>1, <2>1, <2>2, <2>3, <2>4 DEF Recorded
<1>6. CASE NoScript
  <2>1. /\ st' = [st EXCEPT !.infoGap = TRUE, !.verdict = "INFO_GAP", !.kind = "info"]
        /\ guard' = guard /\ trust' = trust /\ files' = files
    BY <1>6 DEF NoScript
  <2>2. /\ st'.runner = st.runner /\ st'.codegen = st.codegen /\ st'.bridge = st.bridge
        /\ st'.parity = st.parity /\ st'.verdict = "INFO_GAP"
        /\ st'.stalemate = st.stalemate /\ st'.forced = st.forced
    BY <1>2, <2>1 DEF States
  <2> QED BY <1>1, <2>1, <2>2 DEF Recorded, Kept
<1>7. CASE ScriptRuns
  <2>1. PICK own \in Verdicts, wrote \in BOOLEAN :
          /\ files' = [files EXCEPT !.verdict = ScriptResult(own, wrote)]
          /\ Attempt(ScriptResult(own, wrote))
    BY <1>7 DEF ScriptRuns
  <2>2. ScriptResult(own, wrote) \in Verdicts
    BY <1>2 DEF ScriptResult, Artifacts
  <2>3. Kept
    BY <1>2, <2>1 DEF Kept, Artifacts
  <2>4. Recorded
    BY <1>1, <2>1, <2>2, VerdictsAreResults, AttemptRecorded
  <2> QED BY <1>1, <2>3, <2>4
<1> QED BY <1>3, <1>4, <1>5, <1>6, <1>7 DEF Attempting

-----------------------------------------------------------------------------
(* The stalemate of the guard and of the graph state.                      *)

\* The nodes that read or write neither the guard nor its copy in the state.
Unguarded ==
  \/ LoadContext \/ SkipGate \/ ParseItems \/ Judge \/ ApplyPlan \/ PendingRepro
  \/ SkipDiagnosis \/ SkipEvaluation
  \/ SkipParity \/ ParityRaises \/ NoOpsToCompare \/ ParityCheck \/ RunCodegen
  \/ Promote \/ FinalizeReproduction \/ Finalize \/ MetaStep

\* The nodes that record in the guard and copy it.
Recording == DiagnoseEnv \/ PatchBridge \/ Evaluate

LEMMA NextByGuard == Next => Attempting \/ SelectRunner \/ Unguarded \/ Recording
BY DEF Next, Attempting, Unguarded, Recording

LEMMA UnguardedEffects ==
  ASSUME st \in States, Unguarded
  PROVE  guard' = guard /\ st'.stalemate = st.stalemate /\ st'.forced = st.forced
<1> USE DEF States
<1>1. CASE \/ LoadContext \/ SkipGate \/ ParseItems \/ Judge \/ ApplyPlan \/ PendingRepro
  BY <1>1 DEF LoadContext, SkipGate, ParseItems, Judge, ApplyPlan, PendingRepro
<1>2. CASE SkipDiagnosis \/ SkipEvaluation
  BY <1>2 DEF SkipDiagnosis, SkipEvaluation
<1>3. CASE SkipParity \/ NoOpsToCompare \/ ParityCheck
  BY <1>3 DEF SkipParity, NoOpsToCompare, ParityCheck, LeaveParity, CodegenOrCap
<1>4. CASE RunCodegen
  BY <1>4 DEF RunCodegen
<1>5. CASE Promote
  BY <1>5 DEF Promote
<1>6. CASE ParityRaises \/ FinalizeReproduction \/ Finalize \/ MetaStep
  BY <1>6 DEF ParityRaises, FinalizeReproduction, Finalize, MetaStep
<1> QED BY <1>1, <1>2, <1>3, <1>4, <1>5, <1>6 DEF Unguarded

LEMMA RecordingEffects ==
  ASSUME st \in States, Recording
  PROVE  st'.stalemate = guard'.stalemate /\ st'.forced = guard'.stalemate
<1>1. \A s \in States : \A g : /\ Guarded(s, g).stalemate = g.stalemate
                               /\ Guarded(s, g).forced = g.stalemate
  BY DEF Guarded, States
<1>2. CASE DiagnoseEnv
  <2>1. [st EXCEPT !.runner = "llm", !.error = ""] \in States
    BY DEF States
  <2> QED BY <1>1, <1>2, <2>1 DEF DiagnoseEnv
<1>3. CASE PatchBridge
  <2>1. PICK n, error : st' = Guarded([st EXCEPT !.bridge = n, !.error = error], guard')
    BY <1>3 DEF PatchBridge
  <2> QED BY <2>1 DEF Guarded, States
<1>4. CASE Evaluate
  <2>1. PICK score \in DriftScores :
          LET verdict == IF st.verdict = "PASS" /\ score > DriftMax THEN "FAIL"
                         ELSE st.verdict
          IN  st' = Guarded([st EXCEPT
                       !.verdict = verdict,
                       !.openIssues = verdict # "PASS",
                       !.cont = ContinueImprovement(ev, trust, verdict),
                       !.complete = IF CompleteAtLeast(ev, 75) THEN "high" ELSE "low"],
                      guard')
    BY <1>4 DEF Evaluate
  <2> QED BY <2>1 DEF Guarded, States
<1> QED BY <1>2, <1>3, <1>4 DEF Recording

\* A transition reports a stalemate, it never lifts one.
LEMMA TransitionKeepsStalemate ==
  ASSUME NEW S, NEW L, NEW D, NEW g \in Guards(S, L, D), NEW label, g.stalemate = TRUE
  PROVE  RecordTransition(g, label).stalemate = TRUE
<1> DEFINE h == [g EXCEPT !.transitions = Remember(@, label, 2 * LongestPeriod)]
<1>1. h.stalemate = TRUE /\ "stalemate" \in DOMAIN h
  BY DEF Guards
<1>2. RecordTransition(g, label) = Apply(h, Detect(h))
  BY DEF RecordTransition
<1> HIDE DEF h
<1>3. Apply(h, Detect(h)).stalemate = TRUE
  BY <1>1 DEF Apply
<1> QED BY <1>2, <1>3

\* select_runner enters run_gate, and forces the LLM where the guard asks for it.
LEMMA SelectRunnerEffects ==
  ASSUME TypeInv, StateMirrorsGuard, SelectRunner
  PROVE  /\ StateMirrorsGuard'
         /\ ~st'.infoGap /\ guard'.stalemate => st'.runner = "llm"
<1>1. st \in States /\ guard \in Guards(Signatures, Labels, DriftScores)
  BY DEF TypeInv, StateTyped, GuardTyped
<1>2. st.stalemate \in BOOLEAN /\ st.forced \in BOOLEAN /\ guard.stalemate \in BOOLEAN
  BY <1>1 DEF States, Guards
<1>3. CASE st.infoGap
  BY <1>3 DEF SelectRunner, StateMirrorsGuard
<1>4. CASE ~st.infoGap /\ (guard.stalemate \/ st.forced)
  <2>1. guard.stalemate = TRUE /\ st.stalemate = TRUE
    BY <1>2, <1>4 DEF StateMirrorsGuard
  <2>2. PICK label : /\ st' = [st EXCEPT !.runner = "llm", !.forced = TRUE]
                     /\ guard' = RecordTransition(guard, label)
    BY <1>4 DEF SelectRunner
  <2>3. guard'.stalemate = TRUE
    BY <1>1, <2>1, <2>2, TransitionKeepsStalemate
  <2>4. st'.stalemate = TRUE /\ st'.forced = TRUE /\ st'.runner = "llm"
    BY <1>1, <2>1, <2>2 DEF States
  <2> QED BY <2>3, <2>4 DEF StateMirrorsGuard
<1>5. CASE ~st.infoGap /\ ~(guard.stalemate \/ st.forced)
  <2>1. guard' = guard
    BY <1>5 DEF SelectRunner
  <2>2. st'.stalemate = st.stalemate /\ st'.forced = st.forced
    BY <1>1, <1>5 DEF SelectRunner, States
  <2> QED BY <1>5, <2>1, <2>2 DEF StateMirrorsGuard
<1> QED BY <1>3, <1>4, <1>5

LEMMA MirrorStep ==
  TypeInv /\ StateMirrorsGuard /\ [Next]_vars => StateMirrorsGuard'
<1> SUFFICES ASSUME TypeInv, StateMirrorsGuard, [Next]_vars PROVE StateMirrorsGuard'
  OBVIOUS
<1>1. st \in States
  BY DEF TypeInv, StateTyped
<1>2. CASE UNCHANGED vars
  BY <1>2 DEF vars, StateMirrorsGuard
<1>3. CASE Attempting
  BY <1>3, AttemptingEffects DEF Recorded, StateMirrorsGuard
<1>4. CASE SelectRunner
  BY <1>4, SelectRunnerEffects
<1>5. CASE Unguarded
  BY <1>1, <1>5, UnguardedEffects DEF StateMirrorsGuard
<1>6. CASE Recording
  BY <1>1, <1>6, RecordingEffects DEF StateMirrorsGuard
<1> QED BY <1>2, <1>3, <1>4, <1>5, <1>6, NextByGuard

\* The graph state's stalemate and force_mode, on which the routers decide, are
\* those of loop_guard.yaml, on which select_runner decides, after every node.
THEOREM MirrorHolds == Spec => []StateMirrorsGuard
<1>1. Init => StateMirrorsGuard
  <2>1. ASSUME Init
        PROVE  guard.stalemate = FALSE /\ st.stalemate = FALSE /\ st.forced = FALSE
    <3>1. guard = Clean
      BY <2>1 DEF Init
    <3>2. st.stalemate = FALSE /\ st.forced = FALSE
      BY <2>1 DEF Init
    <3> QED BY <3>1, <3>2 DEF Clean
  <2> QED BY <2>1 DEF StateMirrorsGuard
<1> QED BY <1>1, MirrorStep, TypeInvHolds, PTL DEF Spec

\* run_gate is entered from select_runner alone, which left the LLM as the runner
\* while the guard reports a stalemate.
ForcedAtGate ==
  node = "run_gate" /\ ~st.infoGap /\ guard.stalemate => st.runner = "llm"

\* No router, no plan and no fixed edge but select_runner's leads to run_gate.
LEMMA OnlySelectEntersGate ==
  ASSUME Next, node' = "run_gate"
  PROVE  SelectRunner
<1>1. \A n \in DOMAIN FlowEdges : "run_gate" \notin FlowEdges[n]
  BY DEF FlowEdges
<1>2. \A n \in DOMAIN Follows : Follows[n] = "run_gate" => n = "select_runner"
  BY DEF Follows, END
<1>3. ASSUME NEW ok, NEW route, LeaveByTriage(ok, route), node \in DOMAIN FlowEdges,
             route \in FlowEdges[node]
      PROVE  FALSE
  BY <1>1, <1>3 DEF LeaveByTriage, GoOn
<1>4. ASSUME NEW ok, Leave(ok), node \in DOMAIN Follows, node # "select_runner"
      PROVE  FALSE
  BY <1>2, <1>4 DEF Leave, GoOn
<1>5. ~(LoadContext \/ SkipGate \/ Attempting)
  BY <1>3, RoutersFollowEdges
     DEF LoadContext, SkipGate, Attempting, AgentVerdict, AgentStop, NoFreshVerdict,
         NoScript, ScriptRuns, AttemptWith, LeaveRunGate, At, FlowEdges
<1>6. ~(SkipDiagnosis \/ DiagnoseEnv \/ SkipEvaluation \/ Evaluate)
  BY <1>3, RoutersFollowEdges
     DEF SkipDiagnosis, DiagnoseEnv, LeaveDiagnose, SkipEvaluation, Evaluate, At, FlowEdges
<1>7. ~(SkipParity \/ NoOpsToCompare \/ ParityCheck)
  BY <1>3, RoutersFollowEdges
     DEF SkipParity, NoOpsToCompare, ParityCheck, LeaveParity, At, FlowEdges
<1>8. ~(ParseItems \/ Judge \/ ApplyPlan \/ PatchBridge \/ RunCodegen \/ Promote)
  BY <1>4 DEF ParseItems, Judge, ApplyPlan, PatchBridge, RunCodegen, Promote, At, Follows
<1>9. ~(FinalizeReproduction \/ MetaStep)
  BY <1>4 DEF FinalizeReproduction, MetaStep, At, Follows
<1>10. ~(PendingRepro \/ Finalize \/ ParityRaises)
  BY DEF PendingRepro, Finalize, ParityRaises, At, GoOn, RouteAfterRepro, END
<1> QED BY <1>5, <1>6, <1>7, <1>8, <1>9, <1>10 DEF Next, Attempting

LEMMA ForcedStep ==
  TypeInv /\ StateMirrorsGuard /\ ForcedAtGate /\ [Next]_vars => ForcedAtGate'
<1> SUFFICES ASSUME TypeInv, StateMirrorsGuard, ForcedAtGate, [Next]_vars
             PROVE  ForcedAtGate'
  OBVIOUS
<1>1. CASE UNCHANGED vars
  BY <1>1 DEF vars, ForcedAtGate
<1>2. CASE Next /\ node' = "run_gate"
  BY <1>2, OnlySelectEntersGate, SelectRunnerEffects DEF ForcedAtGate
<1>3. CASE node' # "run_gate"
  BY <1>3 DEF ForcedAtGate
<1> QED BY <1>1, <1>2, <1>3

\* Events are counted by attempts alone.
LEMMA OnlyAttemptsCount ==
  ASSUME Next
  PROVE  Attempting \/ ev' = ev
BY DEF Next, Attempting, LoadContext, SelectRunner, SkipGate, ParseItems, Judge,
       ApplyPlan, PendingRepro, SkipDiagnosis, DiagnoseEnv, LeaveDiagnose, PatchBridge,
       SkipEvaluation, Evaluate, SkipParity, ParityRaises, NoOpsToCompare, ParityCheck,
       LeaveParity, RunCodegen, Promote, FinalizeReproduction, Finalize, MetaStep

LEMMA NoCountNoAttempt ==
  ASSUME TypeInv, ev' = ev
  PROVE  ~Attempted
<1>1. ev.gates \in Nat
  BY DEF TypeInv, EventsTyped, Events
<1> QED BY <1>1 DEF Attempted

\* on_stalemate.force_mode: while the guard reports a stalemate every attempt is
\* the LLM's, whatever trust the script has.
THEOREM StalemateForces == Spec => StalemateForcesLlm
<1>1. Init => ForcedAtGate
  BY DEF Init, ForcedAtGate
<1>2. Spec => []ForcedAtGate
  BY <1>1, ForcedStep, MirrorHolds, TypeInvHolds, PTL DEF Spec
<1>3. TypeInv /\ ForcedAtGate /\ [Next]_vars
        => [guard.stalemate /\ Attempted => st.runner = "llm"]_vars
  <2> SUFFICES ASSUME TypeInv, ForcedAtGate, Next, guard.stalemate, Attempted
               PROVE  st.runner = "llm"
    OBVIOUS
  <2>1. Attempting
    BY OnlyAttemptsCount, NoCountNoAttempt
  <2> QED BY <2>1, AttemptingEffects DEF ForcedAtGate
<1> QED BY <1>2, <1>3, TypeInvHolds, PTL DEF Spec, StalemateForcesLlm

\* What a step says of itself, and the failures waved through so far.
DidTyped == did \in [asked : BOOLEAN, agreed : BOOLEAN, waved : Nat]

LEMMA DidEffects ==
  ASSUME DidTyped, Next, ~AgentStop
  PROVE  DidTyped' /\ did'.waved = did.waved
<1>1. \E asked, agreed \in BOOLEAN : Did(asked, agreed)
  <2>1. CASE Evaluate \/ ParityCheck
    BY <2>1 DEF Evaluate, ParityCheck, Agrees
  <2>2. CASE AgentVerdict \/ NoFreshVerdict \/ DiagnoseEnv \/ RunCodegen
    BY <2>2 DEF AgentVerdict, NoFreshVerdict, DiagnoseEnv, RunCodegen, AgentReachable, Quiet
  <2>3. CASE \/ LoadContext \/ SelectRunner \/ SkipGate \/ NoScript \/ ScriptRuns
             \/ ParseItems \/ Judge \/ ApplyPlan \/ PendingRepro \/ SkipDiagnosis
             \/ PatchBridge \/ SkipEvaluation \/ SkipParity \/ ParityRaises
             \/ NoOpsToCompare \/ Promote \/ FinalizeReproduction \/ Finalize \/ MetaStep
    BY <2>3 DEF Quiet, LoadContext, SelectRunner, SkipGate, NoScript, ScriptRuns,
         ParseItems, Judge, ApplyPlan, PendingRepro, SkipDiagnosis, PatchBridge,
         SkipEvaluation, SkipParity, ParityRaises, NoOpsToCompare, Promote,
         FinalizeReproduction, Finalize, MetaStep
  <2> QED BY <2>1, <2>2, <2>3 DEF Next
<1>2. PICK asked \in BOOLEAN, agreed \in BOOLEAN :
        did' = [did EXCEPT !.asked = asked, !.agreed = agreed]
  BY <1>1 DEF Did
<1> QED BY <1>2 DEF DidTyped

LEMMA StopEffects ==
  ASSUME DidTyped, AgentStop
  PROVE  DidTyped' /\ did'.asked
<1>1. PICK n \in {did.waved, did.waved + 1} :
        did' = [did EXCEPT !.asked = TRUE, !.agreed = FALSE, !.waved = n]
  <2>1. PICK report : did' = [did EXCEPT !.asked = TRUE, !.agreed = FALSE,
                                !.waved = IF WavesThrough(report) THEN @ + 1 ELSE @]
    BY DEF AgentStop
  <2> QED BY <2>1
<1>2. n \in Nat
  BY <1>1 DEF DidTyped
<1> QED BY <1>1, <1>2 DEF DidTyped

LEMMA DidTypedHolds == Spec => []DidTyped
<1>1. Init => DidTyped
  <2> SUFFICES ASSUME Init PROVE DidTyped
    OBVIOUS
  <2>1. did = [asked |-> FALSE, agreed |-> FALSE, waved |-> 0]
    BY DEF Init
  <2>2. 0 \in Nat
    OBVIOUS
  <2> QED BY <2>1, <2>2 DEF DidTyped
<1>2. DidTyped /\ [Next]_vars => DidTyped'
  <2> SUFFICES ASSUME DidTyped, [Next]_vars PROVE DidTyped'
    OBVIOUS
  <2>1. CASE UNCHANGED vars
    BY <2>1 DEF vars, DidTyped
  <2> QED BY <2>1, DidEffects, StopEffects
<1> QED BY <1>1, <1>2, PTL DEF Spec

\* on_stalemate.do_not auto_pass: an LLM attempt passes only on an answer of the
\* sub-agent asked in this attempt, never on a verdict file of an earlier one.
THEOREM PassIsFresh == Spec => LlmPassIsFresh
<1>1. TypeInv /\ DidTyped /\ [Next]_vars
        => [Attempted /\ st.runner = "llm" /\ st'.verdict = "PASS" => did'.asked]_vars
  <2> SUFFICES ASSUME TypeInv, DidTyped, Next, Attempted, st.runner = "llm",
                      st'.verdict = "PASS", ~did'.asked
               PROVE  FALSE
    OBVIOUS
  <2>1. Attempting
    BY OnlyAttemptsCount, NoCountNoAttempt
  <2>2. st \in States
    BY DEF TypeInv, StateTyped
  <2>3. ~(NoScript \/ ScriptRuns)
    BY DEF NoScript, ScriptRuns, AttemptWith
  <2>4. ~NoFreshVerdict
    BY <2>2 DEF NoFreshVerdict, States
  <2>5. ~(AgentVerdict \/ AgentStop)
    BY StopEffects DEF AgentVerdict, Did, DidTyped
  <2> QED BY <2>1, <2>3, <2>4, <2>5 DEF Attempting
<1> QED BY <1>1, DidTypedHolds, TypeInvHolds, PTL DEF Spec, LlmPassIsFresh

-----------------------------------------------------------------------------
(* Information gaps, parity and promotion.                                 *)

\* The nodes from a successful parity check on.
Late == {"parity_check", "run_codegen", "promote", "finalize_reproduction", "finalize",
         "meta_collect", "meta_score", "meta_propose", "meta_queue", END}

\* Parity is never attested for anything but a PASS, and nothing after it takes
\* the PASS back or leads to another attempt.
ReportIsLate == files.report = "ok" => node \in Late /\ st.verdict = "PASS"

\* What evaluate allowed still holds when promote acts on it.
AllowedIsEarned ==
  node \in {"parity_check", "run_codegen", "promote"} /\ st.verdict = "PASS"
    => \/ files.allowed = "no"
       \/ files.allowed = "yes" /\ HardeningOk(ev, trust) /\ CompleteAtLeast(ev, 85)

\* A PASS of a stop report about missing information gets no further than evaluate.
GapFails ==
  st.infoGap /\ node \in {"parity_check", "run_codegen", "promote"} => st.verdict # "PASS"

EarnedInv ==
  /\ GapFails
  /\ st.codegen <= MaxCodegen
  /\ ReportIsLate
  /\ AllowedIsEarned

\* A node's gate and route lead to an edge of the graph.
LEMMA TriageGoes ==
  ASSUME NEW ok, NEW route, LeaveByTriage(ok, route), route \in FlowEdges[node]
  PROVE  node' \in FlowEdges[node]
BY DEF LeaveByTriage, GoOn

LEMMA LeaveGoes == ASSUME NEW ok, Leave(ok) PROVE node' = Follows[node]
BY DEF Leave, GoOn

LEMMA EarnedAttempt ==
  ASSUME TypeInv, EarnedInv, Attempting
  PROVE  EarnedInv'
<1>1. node = "run_gate" /\ ~st.infoGap /\ Recorded /\ Kept
  BY AttemptingEffects
<1>2. node' \in FlowEdges["run_gate"]
  BY AttemptingEffects, RoutersFollowEdges, TriageGoes
<1>3. node' \notin {"parity_check", "run_codegen", "promote"}
  BY <1>2 DEF FlowEdges
<1>4. files.report # "ok"
  BY <1>1 DEF EarnedInv, ReportIsLate, Late, END
<1>5. ReportIsLate'
  BY <1>1, <1>4 DEF Kept, ReportIsLate
<1>6. AllowedIsEarned' /\ GapFails'
  BY <1>3 DEF AllowedIsEarned, GapFails
<1> QED BY <1>1, <1>5, <1>6 DEF EarnedInv, Recorded

\* The nodes before parity_check other than run_gate and evaluate.
Early ==
  \/ LoadContext \/ SelectRunner \/ SkipGate \/ ParseItems \/ Judge \/ ApplyPlan
  \/ PendingRepro \/ SkipDiagnosis \/ DiagnoseEnv \/ PatchBridge

LEMMA EarlyEffects ==
  ASSUME TypeInv, Early
  PROVE  /\ node \notin Late
         /\ node' \notin {"parity_check", "run_codegen", "promote"}
         /\ files'.report = files.report
         /\ st.infoGap => st'.infoGap
         /\ st'.codegen = st.codegen
         /\ trust' = trust /\ ev' = ev
<1>1. st \in States /\ files \in Artifacts
  BY DEF TypeInv, StateTyped
<1> USE DEF At, Late, END
<1>2. CASE LoadContext
  <2>1. node = "load_context" /\ node' \in FlowEdges[node]
    BY <1>2, RoutersFollowEdges, TriageGoes DEF LoadContext
  <2>2. /\ st' = st \/ st' = [st EXCEPT !.infoGap = TRUE, !.verdict = "INFO_GAP"]
        /\ files' = files /\ trust' = trust /\ ev' = ev
    BY <1>2 DEF LoadContext
  <2>3. /\ st.infoGap => st'.infoGap
        /\ st'.codegen = st.codegen
    BY <1>1, <2>2 DEF States
  <2> QED BY <2>1, <2>2, <2>3 DEF FlowEdges
<1>3. CASE SelectRunner
  <2>1. node = "select_runner" /\ node' = "run_gate"
    BY <1>3, LeaveGoes DEF SelectRunner, Follows
  <2>2. /\ st'.infoGap = st.infoGap /\ st'.verdict = st.verdict
        /\ st'.codegen = st.codegen
    BY <1>1, <1>3 DEF SelectRunner, States
  <2>3. files' = files /\ trust' = trust /\ ev' = ev
    BY <1>3 DEF SelectRunner
  <2> QED BY <2>1, <2>2, <2>3
<1>4. CASE SkipGate
  <2>1. node = "run_gate" /\ node' \in FlowEdges[node]
    BY <1>4, RoutersFollowEdges, TriageGoes DEF SkipGate, LeaveRunGate
  <2>2. st' = st /\ files' = files /\ trust' = trust /\ ev' = ev
    BY <1>4 DEF SkipGate
  <2> QED BY <2>1, <2>2 DEF FlowEdges
<1>5. CASE ParseItems \/ Judge \/ ApplyPlan
  <2>1. /\ node \in {"parse_validation_items", "validation_judge", "apply_validation_plan"}
        /\ node' = Follows[node]
    BY <1>5, LeaveGoes DEF ParseItems, Judge, ApplyPlan
  <2>2. /\ st'.infoGap = st.infoGap /\ st'.verdict = st.verdict
        /\ st'.codegen = st.codegen
    BY <1>1, <1>5 DEF ParseItems, Judge, ApplyPlan, States
  <2>3. files' = files /\ trust' = trust /\ ev' = ev
    BY <1>5 DEF ParseItems, Judge, ApplyPlan
  <2> QED BY <2>1, <2>2, <2>3 DEF Follows
<1>6. CASE PendingRepro
  BY <1>6 DEF PendingRepro, GoOn, RouteAfterRepro
<1>7. CASE SkipDiagnosis \/ DiagnoseEnv
  <2>1. node = "diagnose_env" /\ node' \in FlowEdges[node]
    BY <1>7, RoutersFollowEdges, TriageGoes DEF SkipDiagnosis, DiagnoseEnv, LeaveDiagnose
  <2>2. trust' = trust /\ ev' = ev
    BY <1>7 DEF SkipDiagnosis, DiagnoseEnv, LeaveDiagnose
  <2>3. files'.report = files.report
    BY <1>1, <1>7 DEF SkipDiagnosis, DiagnoseEnv, Proposed, Artifacts
  <2>4. CASE SkipDiagnosis
    <3>1. \/ st' = st
          \/ st' = [st EXCEPT !.verdict = "FAIL", !.error = "bridge_round_cap"]
      BY <2>4 DEF SkipDiagnosis
    <3>2. /\ st'.infoGap = st.infoGap /\ st'.codegen = st.codegen
          /\ st'.verdict \in {st.verdict, "FAIL"}
      BY <1>1, <3>1 DEF States
    <3> QED BY <2>1, <2>2, <2>3, <3>2 DEF FlowEdges
  <2>5. CASE DiagnoseEnv
    <3>1. st' = Guarded([st EXCEPT !.runner = "llm", !.error = ""], guard')
      BY <2>5 DEF DiagnoseEnv
    <3>2. /\ st'.infoGap = st.infoGap /\ st'.codegen = st.codegen
          /\ st'.verdict = st.verdict
      BY <1>1, <3>1 DEF Guarded, States
    <3> QED BY <2>1, <2>2, <2>3, <3>2 DEF FlowEdges
  <2> QED BY <1>7, <2>4, <2>5
<1>8. CASE PatchBridge
  <2>1. node = "patch_bridge" /\ node' = "select_runner"
    BY <1>8, LeaveGoes DEF PatchBridge, Follows
  <2>2. PICK n, error : st' = Guarded([st EXCEPT !.bridge = n, !.error = error], guard')
    BY <1>8 DEF PatchBridge
  <2>3. /\ st'.infoGap = st.infoGap /\ st'.codegen = st.codegen
        /\ st'.verdict = st.verdict
    BY <1>1, <2>2 DEF Guarded, States
  <2>4. files'.report = files.report /\ trust' = trust /\ ev' = ev
    BY <1>1, <1>8 DEF PatchBridge, Artifacts
  <2> QED BY <2>1, <2>3, <2>4
<1> QED BY <1>2, <1>3, <1>4, <1>5, <1>6, <1>7, <1>8 DEF Early

LEMMA EarnedEarly ==
  ASSUME TypeInv, EarnedInv, Early
  PROVE  EarnedInv'
<1>1. files.report # "ok" /\ files'.report # "ok"
  BY EarlyEffects DEF EarnedInv, ReportIsLate
<1>2. (st.codegen <= MaxCodegen)'
  BY EarlyEffects DEF EarnedInv
<1>3. node' \notin {"parity_check", "run_codegen", "promote"}
  BY EarlyEffects
<1> QED BY <1>1, <1>2, <1>3 DEF EarnedInv, ReportIsLate, AllowedIsEarned, GapFails

LEMMA EarnedEvaluation ==
  ASSUME TypeInv, EarnedInv, SkipEvaluation \/ Evaluate
  PROVE  EarnedInv'
<1>1. st \in States /\ files \in Artifacts
  BY DEF TypeInv, StateTyped
<1>2. node = "evaluate"
  BY DEF SkipEvaluation, Evaluate, At
<1>3. files.report # "ok"
  BY <1>2 DEF EarnedInv, ReportIsLate, Late, END
<1>4. CASE SkipEvaluation
  <2>1. st' = [st EXCEPT !.verdict = "INFO_GAP"] /\ files' = files
    BY <1>4 DEF SkipEvaluation
  <2>2. st'.verdict = "INFO_GAP" /\ st'.codegen = st.codegen
    BY <1>1, <2>1 DEF States
  <2> QED BY <1>3, <2>1, <2>2 DEF EarnedInv, ReportIsLate, AllowedIsEarned, GapFails
<1>5. CASE Evaluate
  <2>1. PICK score \in DriftScores :
          LET verdict == IF st.verdict = "PASS" /\ score > DriftMax THEN "FAIL"
                         ELSE st.verdict
          IN  /\ files' = [files EXCEPT !.allowed =
                             IF PromoteAllowed(ev, trust, verdict) THEN "yes" ELSE "no"]
              /\ st' = Guarded([st EXCEPT
                          !.verdict = verdict,
                          !.openIssues = verdict # "PASS",
                          !.cont = ContinueImprovement(ev, trust, verdict),
                          !.complete = IF CompleteAtLeast(ev, 75) THEN "high" ELSE "low"],
                         guard')
    BY <1>5 DEF Evaluate
  <2> DEFINE verdict == IF st.verdict = "PASS" /\ score > DriftMax THEN "FAIL"
                        ELSE st.verdict
  <2>2. /\ st'.verdict = verdict /\ st'.codegen = st.codegen
        /\ st'.infoGap = st.infoGap
    BY <1>1, <2>1 DEF Guarded, States
  <2>3. /\ files'.report = files.report
        /\ files'.allowed = IF PromoteAllowed(ev, trust, verdict) THEN "yes" ELSE "no"
    BY <1>1, <2>1 DEF Artifacts
  <2>4. ev' = ev /\ trust' = trust
    BY <1>5 DEF Evaluate
  <2>5. AllowedIsEarned'
    BY <2>3, <2>4 DEF AllowedIsEarned, PromoteAllowed
  <2> QED BY <1>3, <1>5, <2>2, <2>3, <2>5 DEF EarnedInv, ReportIsLate, Evaluate, GapFails
<1> QED BY <1>4, <1>5

\* The parity nodes: the verdict stays, and the report is written for a PASS only.
LEMMA ParityEffects ==
  ASSUME TypeInv, EarnedInv, SkipParity \/ NoOpsToCompare \/ ParityCheck \/ RunCodegen
  PROVE  /\ node \in {"parity_check", "run_codegen"}
         /\ node' \in {"parity_check", "run_codegen", "promote", "finalize"}
         /\ st'.verdict = st.verdict /\ st'.infoGap = st.infoGap
         /\ st'.codegen <= MaxCodegen
         /\ files'.report = files.report \/ st.verdict = "PASS"
         /\ files'.allowed = files.allowed
         /\ ev' = ev /\ trust' = trust
<1>1. st \in States /\ files \in Artifacts
  BY DEF TypeInv, StateTyped
<1>2. st.codegen \in Nat /\ st.codegen <= MaxCodegen /\ MaxCodegen \in Nat
  BY <1>1, VerifyGroupAssumption DEF States, EarnedInv
<1>3. /\ CodegenOrCap(st).verdict = st.verdict /\ CodegenOrCap(st).infoGap = st.infoGap
      /\ CodegenOrCap(st).codegen <= MaxCodegen
  <2>1. CASE st.codegen >= MaxCodegen
    <3>1. CodegenOrCap(st) = [st EXCEPT !.parity = "no", !.error = "codegen_round_cap"]
      BY <2>1 DEF CodegenOrCap
    <3> QED BY <1>1, <1>2, <3>1 DEF States
  <2>2. CASE ~(st.codegen >= MaxCodegen)
    <3>1. CodegenOrCap(st) =
            [st EXCEPT !.parity = "no", !.runner = "llm", !.codegen = @ + 1]
      BY <2>2 DEF CodegenOrCap
    <3>2. st.codegen + 1 <= MaxCodegen
      BY <1>2, <2>2
    <3>3. /\ CodegenOrCap(st).verdict = st.verdict
          /\ CodegenOrCap(st).infoGap = st.infoGap
          /\ CodegenOrCap(st).codegen = st.codegen + 1
      BY <1>1, <3>1 DEF States
    <3> QED BY <3>2, <3>3
  <2> QED BY <2>1, <2>2
<1>4. ev' = ev /\ trust' = trust
  BY DEF SkipParity, NoOpsToCompare, ParityCheck, LeaveParity, RunCodegen
<1>5. CASE SkipParity \/ NoOpsToCompare \/ ParityCheck
  <2>1. node = "parity_check" /\ node' \in FlowEdges[node]
    BY <1>5, RoutersFollowEdges, TriageGoes
       DEF SkipParity, NoOpsToCompare, ParityCheck, LeaveParity, At
  <2>2. \/ st' = st
        \/ st' = [st EXCEPT !.parity = "ok"]
        \/ st' = CodegenOrCap(st)
    BY <1>5 DEF SkipParity, NoOpsToCompare, ParityCheck
  <2>3. st'.verdict = st.verdict /\ st'.infoGap = st.infoGap /\ st'.codegen <= MaxCodegen
    BY <1>1, <1>2, <1>3, <2>2 DEF States
  <2>4. /\ files'.report = files.report \/ st.verdict = "PASS"
        /\ files'.allowed = files.allowed
    BY <1>1, <1>5 DEF SkipParity, NoOpsToCompare, ParityCheck, Artifacts
  <2> QED BY <1>4, <2>1, <2>3, <2>4 DEF FlowEdges
<1>6. CASE RunCodegen
  <2>1. node = "run_codegen" /\ node' = "parity_check"
    BY <1>6, LeaveGoes DEF RunCodegen, At, Follows
  <2>2. st' = [st EXCEPT !.runner = "llm", !.error = ""]
    <3>1. ~(st.codegen > MaxCodegen)
      BY <1>2
    <3> QED BY <1>6, <3>1 DEF RunCodegen
  <2>3. st'.verdict = st.verdict /\ st'.infoGap = st.infoGap /\ st'.codegen <= MaxCodegen
    BY <1>1, <1>2, <2>2 DEF States
  <2>4. files'.report = files.report /\ files'.allowed = files.allowed
    BY <1>1, <1>6 DEF RunCodegen, Artifacts
  <2> QED BY <1>4, <2>1, <2>3, <2>4
<1> QED BY <1>5, <1>6

LEMMA EarnedParity ==
  ASSUME TypeInv, EarnedInv, SkipParity \/ NoOpsToCompare \/ ParityCheck \/ RunCodegen
  PROVE  EarnedInv'
<1>1. GapFails' /\ (st.codegen <= MaxCodegen)'
  BY ParityEffects DEF EarnedInv, GapFails
<1>2. ReportIsLate'
  BY ParityEffects DEF EarnedInv, ReportIsLate, Late
<1>3. AllowedIsEarned'
  BY ParityEffects DEF EarnedInv, AllowedIsEarned
<1> QED BY <1>1, <1>2, <1>3 DEF EarnedInv

\* promote and what follows: past the nodes that decide.
LEMMA EndEffects ==
  ASSUME TypeInv, EarnedInv, Promote \/ FinalizeReproduction \/ Finalize \/ MetaStep
  PROVE  /\ node' \in Late \ {"parity_check", "run_codegen", "promote"}
         /\ st'.infoGap = st.infoGap /\ st'.codegen = st.codegen
         /\ st'.parity = st.parity
         /\ st' = st \/ Promote
         /\ st'.verdict = st.verdict \/ (st'.verdict = "FAIL" /\ files.report # "ok")
         /\ files' = files
<1>1. st \in States
  BY DEF TypeInv, StateTyped
<1>2. CASE Promote
  <2>1. node' = "finalize_reproduction" /\ files' = files
    BY <1>2, LeaveGoes DEF Promote, At, Follows
  <2>2. \/ st' = st
        \/ files.report = "ok" /\ \E rejected : st' = [st EXCEPT !.rejected = rejected]
        \/ /\ files.report # "ok"
           /\ st' = [st EXCEPT !.verdict = "FAIL", !.error = "child_evidence"]
    BY <1>2 DEF Promote
  <2> QED BY <1>1, <1>2, <2>1, <2>2 DEF States, Late
<1>3. CASE FinalizeReproduction
  <2>1. node' = "finalize" /\ files' = files /\ st' = st
    BY <1>3, LeaveGoes DEF FinalizeReproduction, At, Follows
  <2> QED BY <2>1 DEF Late
<1>4. CASE Finalize
  BY <1>4 DEF Finalize, GoOn, Late, END
<1>5. CASE MetaStep
  <2>1. /\ node \in {"meta_collect", "meta_score", "meta_propose", "meta_queue"}
        /\ node' = Follows[node] /\ files' = files /\ st' = st
    BY <1>5, LeaveGoes DEF MetaStep
  <2>2. node' \in {"meta_score", "meta_propose", "meta_queue", END}
    BY <2>1 DEF Follows
  <2> QED BY <2>1, <2>2 DEF Late, END
<1> QED BY <1>2, <1>3, <1>4, <1>5

LEMMA EarnedEnd ==
  ASSUME TypeInv, EarnedInv, Promote \/ FinalizeReproduction \/ Finalize \/ MetaStep
  PROVE  EarnedInv'
<1>1. GapFails' /\ (st.codegen <= MaxCodegen)'
  BY EndEffects DEF EarnedInv, GapFails
<1>2. ReportIsLate'
  BY EndEffects DEF EarnedInv, ReportIsLate
<1>3. AllowedIsEarned'
  BY EndEffects DEF AllowedIsEarned
<1> QED BY <1>1, <1>2, <1>3 DEF EarnedInv

LEMMA EarnedStep == TypeInv /\ EarnedInv /\ [Next]_vars => EarnedInv'
<1> SUFFICES ASSUME TypeInv, EarnedInv, [Next]_vars PROVE EarnedInv'
  OBVIOUS
<1>1. CASE UNCHANGED vars
  BY <1>1 DEF vars, EarnedInv, ReportIsLate, AllowedIsEarned, GapFails
<1>2. CASE ParityRaises
  BY <1>2 DEF ParityRaises, EarnedInv, ReportIsLate, AllowedIsEarned, GapFails
<1>3. CASE Next /\ ~ParityRaises
  BY <1>3, EarnedAttempt, EarnedEarly, EarnedEvaluation, EarnedParity, EarnedEnd
     DEF Next, Attempting, Early
<1> QED BY <1>1, <1>2, <1>3

LEMMA EarnedInit == Init => EarnedInv
<1> SUFFICES ASSUME Init PROVE EarnedInv
  OBVIOUS
<1>1. node = "load_context" /\ files.report = "none"
  <2>1. PICK ops \in BOOLEAN, bridge \in BOOLEAN :
          files = [verdict |-> None, reference |-> None, report |-> "none",
                   allowed |-> "none", subStop |-> FALSE, proposal |-> FALSE,
                   ops |-> ops, bridge |-> bridge]
    BY DEF Init
  <2> QED BY <2>1 DEF Init
<1>2. st.infoGap = FALSE /\ st.codegen = 0
  BY DEF Init
<1>3. MaxCodegen \in Nat
  BY VerifyGroupAssumption
<1> QED BY <1>1, <1>2, <1>3 DEF EarnedInv, ReportIsLate, AllowedIsEarned, GapFails

LEMMA EarnedHolds == Spec => []EarnedInv
BY EarnedInit, EarnedStep, TypeInvHolds, PTL DEF Spec

\* Only promote makes a script canonical.
LEMMA OnlyPromoteApproves ==
  ASSUME TypeInv, Next, trust'.canonical, ~trust.canonical
  PROVE  /\ Promote
         /\ trust'.score >= TrustPromote /\ files.report = "ok" /\ files.allowed # "no"
<1>1. trust \in Records
  BY DEF TypeInv
<1>2. ~Attempting
  BY AttemptingEffects DEF Recorded
<1>3. Promote
  BY <1>2 DEF Next, Attempting, LoadContext, SelectRunner, SkipGate, ParseItems, Judge,
       ApplyPlan, PendingRepro, SkipDiagnosis, DiagnoseEnv, LeaveDiagnose, PatchBridge,
       SkipEvaluation, Evaluate, SkipParity, ParityRaises, NoOpsToCompare, ParityCheck,
       LeaveParity, RunCodegen, FinalizeReproduction, Finalize, MetaStep
<1>4. PICK score \in 0..TrustMax, golden \in BOOLEAN :
        /\ MayPromote(score, golden)
        /\ trust' = [trust EXCEPT !.canonical = TRUE, !.score = score]
  BY <1>1, <1>3 DEF Promote, Records
<1>5. trust'.score = score
  BY <1>1, <1>4 DEF Records
<1> QED BY <1>3, <1>4, <1>5 DEF MayPromote

\* A script becomes canonical only on a PASS with parity, enough gates and trust
\* runs, enough trust and enough completeness, whatever was rerouted.
THEOREM PromotionIsEarned == Spec => PromotionEarned
<1>1. TypeInv /\ EarnedInv /\ [Next]_vars
        => [trust'.canonical /\ ~trust.canonical =>
              /\ st.verdict = "PASS" /\ files.report = "ok"
              /\ HardeningOk(ev, trust) /\ CompleteAtLeast(ev, 85)
              /\ trust'.score >= TrustPromote]_vars
  <2> SUFFICES ASSUME TypeInv, EarnedInv, Next, trust'.canonical, ~trust.canonical
               PROVE  /\ st.verdict = "PASS" /\ files.report = "ok"
                      /\ HardeningOk(ev, trust) /\ CompleteAtLeast(ev, 85)
                      /\ trust'.score >= TrustPromote
    OBVIOUS
  <2>1. /\ node = "promote"
        /\ trust'.score >= TrustPromote /\ files.report = "ok" /\ files.allowed # "no"
    BY OnlyPromoteApproves DEF Promote, At
  <2> QED BY <2>1 DEF EarnedInv, ReportIsLate, AllowedIsEarned
<1> QED BY <1>1, EarnedHolds, TypeInvHolds, PTL DEF Spec, PromotionEarned

\* An information gap is for the user: no later attempt, which would count an
\* event, and no promotion, and no node or plan takes the gap back.
THEOREM GapStops == Spec => InfoGapHardStop
<1>1. TypeInv /\ EarnedInv /\ [Next]_vars
        => [st.infoGap => /\ st'.infoGap
                          /\ ev' = ev
                          /\ trust'.canonical => trust.canonical]_vars
  <2> SUFFICES ASSUME TypeInv, EarnedInv, Next, st.infoGap
               PROVE  st'.infoGap /\ ev' = ev /\ (trust'.canonical => trust.canonical)
    OBVIOUS
  <2>1. ~Attempting
    BY AttemptingEffects
  <2>2. ev' = ev
    BY <2>1, OnlyAttemptsCount
  <2>3. trust'.canonical => trust.canonical
    BY OnlyPromoteApproves DEF EarnedInv, ReportIsLate, GapFails, Promote, At
  <2>4. st'.infoGap
    <3>1. CASE Early
      BY <3>1, EarlyEffects
    <3>2. CASE SkipEvaluation \/ Evaluate
      <4>1. st \in States
        BY DEF TypeInv, StateTyped
      <4> QED BY <3>2, <4>1 DEF SkipEvaluation, Evaluate, States
    <3>3. CASE SkipParity \/ NoOpsToCompare \/ ParityCheck \/ RunCodegen
      BY <3>3, ParityEffects
    <3>4. CASE Promote \/ FinalizeReproduction \/ Finalize \/ MetaStep
      BY <3>4, EndEffects
    <3>5. CASE ParityRaises
      BY <3>5 DEF ParityRaises
    <3> QED BY <2>1, <3>1, <3>2, <3>3, <3>4, <3>5 DEF Next, Attempting, Early
  <2> QED BY <2>2, <2>3, <2>4
<1> QED BY <1>1, EarnedHolds, TypeInvHolds, PTL DEF Spec, InfoGapHardStop

-----------------------------------------------------------------------------
(* The repair loops.                                                       *)

\* The environment failures that no stop report called a PASS.
EnvEvents(e) == e.env + e.tool
EnvFailures == EnvEvents(ev) - did.waved

\* Nodes at which the last environment failure is not paid for by a bridge round.
Waiting == {"diagnose_env", "patch_bridge", "finalize",
            "meta_collect", "meta_score", "meta_propose", "meta_queue", END}

\* A round that is bound to follow although the cap may be reached.
Owed == node = "patch_bridge" \/ (node = "diagnose_env" /\ st.infoGap)

\* Every one of them is answered by a bridge round, except the last and those a
\* plan or the user routed elsewhere; so were the rounds above the cap.
RepairInv ==
  /\ st.bridge <= MaxBridge + overrides
  /\ EnvFailures <= MaxBridge + 1 + overrides
  /\ ~st.infoGap => EnvFailures <= st.bridge + 1 + overrides
  /\ ~st.infoGap /\ node \notin Waiting =>
       EnvFailures <= st.bridge + overrides /\ EnvFailures <= MaxBridge + overrides
  /\ Owed => st.bridge < MaxBridge + overrides /\ EnvFailures <= MaxBridge + overrides

LEMMA RepairNumbers ==
  ASSUME TypeInv, DidTyped
  PROVE  /\ st.bridge \in Nat /\ EnvFailures \in Int /\ overrides \in Nat
         /\ MaxBridge \in Nat
<1>1. st.bridge \in Nat
  BY DEF TypeInv, StateTyped, States
<1>2. EnvEvents(ev) \in Nat
  BY DEF TypeInv, EventsTyped, Events, EnvEvents
<1>3. overrides \in Nat
  BY VerifyGroupAssumption DEF TypeInv, ControlTyped
<1>4. did.waved \in Nat
  BY DEF DidTyped
<1> QED BY <1>1, <1>2, <1>3, <1>4, VerifyGroupAssumption DEF EnvFailures

\* Outside run_gate no environment failure is counted or waved through.
LEMMA SameFailures ==
  ASSUME DidTyped, Next, ~AgentStop, ev' = ev
  PROVE  EnvFailures' = EnvFailures
BY DidEffects DEF EnvFailures

\* A route of a plan or the user is counted when it is another than the router's.
LEMMA PlansAreCounted ==
  ASSUME NEW ok, NEW route, LeaveByTriage(ok, route)
  PROVE  \/ node' = route /\ overrides' = overrides
         \/ overrides' = overrides + 1
BY DEF LeaveByTriage, GoOn

\* One failure adds at most one to the environment failures.
LEMMA BumpCounts ==
  ASSUME NEW e \in Events, NEW kind
  PROVE  \/ EnvEvents(Bump(e, kind)) = EnvEvents(e)
         \/ /\ kind \in {"env", "tool"}
            /\ EnvEvents(Bump(e, kind)) = EnvEvents(e) + 1
<1>1. e.env \in Nat /\ e.tool \in Nat
  BY DEF Events
<1>2. /\ Bump(e, kind).env = (IF kind = "env" THEN e.env + 1 ELSE e.env)
      /\ Bump(e, kind).tool = (IF kind = "tool" THEN e.tool + 1 ELSE e.tool)
  BY DEF Bump, Events
<1> QED BY <1>1, <1>2 DEF EnvEvents

LEMMA BumpedCounts ==
  ASSUME NEW e \in Events, NEW kind \in {"env", "tool"}
  PROVE  EnvEvents(Bump(e, kind)) = EnvEvents(e) + 1
<1>1. e.env \in Nat /\ e.tool \in Nat
  BY DEF Events
<1>2. /\ Bump(e, kind).env = (IF kind = "env" THEN e.env + 1 ELSE e.env)
      /\ Bump(e, kind).tool = (IF kind = "tool" THEN e.tool + 1 ELSE e.tool)
  BY DEF Bump, Events
<1> QED BY <1>1, <1>2 DEF EnvEvents

\* How an attempt counts an environment failure.
Counted ==
  \/ EnvFailures' = EnvFailures
  \/ EnvFailures' = EnvFailures + 1 /\ st'.verdict # "PASS" /\ st'.kind \in {"env", "tool"}

\* What the counters say of an attempt, whether it was waved through or not.
EventsCount(passed) ==
  \/ EnvEvents(ev') = EnvEvents(ev)
  \/ /\ EnvEvents(ev') = EnvEvents(ev) + 1
     /\ st'.kind \in {"env", "tool"} /\ (st'.verdict = "PASS") = passed

LEMMA FailedCounts ==
  ASSUME TypeInv, NEW result \in Failures, AttemptFailed(result)
  PROVE  /\ EventsCount(result.status = "PASS")
         /\ WavesThrough(result) => EnvEvents(ev') = EnvEvents(ev) + 1
<1>1. st \in States /\ ev \in Events
  BY DEF TypeInv, StateTyped, EventsTyped
<1>2. PICK g : st' = [st EXCEPT !.verdict = result.status, !.kind = result.kind,
                        !.stalemate = g.stalemate, !.forced = g.stalemate,
                        !.infoGap = @ \/ IsInfoGap(result)]
  BY DEF AttemptFailed
<1>3. st'.verdict = result.status /\ st'.kind = result.kind
  BY <1>1, <1>2 DEF States
<1> DEFINE e == [ev EXCEPT !.gates = @ + 1]
<1>4. e \in Events /\ EnvEvents(e) = EnvEvents(ev)
  BY <1>1 DEF Events, EnvEvents
<1>5. ev' = Bump(e, result.kind)
  BY DEF AttemptFailed
<1> HIDE DEF e
<1>6. result.kind \in {"env", "tool"} => EnvEvents(ev') = EnvEvents(ev) + 1
  BY <1>4, <1>5, BumpedCounts
<1> QED BY <1>3, <1>4, <1>5, <1>6, BumpCounts DEF EventsCount, WavesThrough

LEMMA ResultCounts ==
  ASSUME TypeInv, NEW result \in Results, Attempt(result)
  PROVE  EventsCount(FALSE)
<1>1. CASE result.status = "PASS"
  <2>1. ev \in Events
    BY DEF TypeInv, EventsTyped
  <2>2. ev'.env = ev.env /\ ev'.tool = ev.tool
    BY <1>1, <2>1 DEF Attempt, AttemptPassed, Events
  <2> QED BY <2>2 DEF EventsCount, EnvEvents
<1>2. CASE result.status # "PASS"
  <2>1. result \in Failures /\ AttemptFailed(result)
    BY <1>2 DEF Results, Attempt
  <2> QED BY <1>2, <2>1, FailedCounts
<1> QED BY <1>1, <1>2

LEMMA StopCounts ==
  ASSUME TypeInv, DidTyped, AgentStop
  PROVE  Counted
<1>1. PICK report \in Failures :
        /\ AttemptFailed(report)
        /\ did' = [did EXCEPT !.asked = TRUE, !.agreed = FALSE,
                              !.waved = IF WavesThrough(report) THEN @ + 1 ELSE @]
  BY DEF AgentStop, Failures
<1>2. EnvEvents(ev) \in Nat /\ did.waved \in Nat
  BY DEF TypeInv, EventsTyped, Events, EnvEvents, DidTyped
<1>3. EventsCount(report.status = "PASS")
  BY <1>1, FailedCounts
<1>4. CASE WavesThrough(report)
  <2>1. did'.waved = did.waved + 1
    BY <1>1, <1>4 DEF DidTyped
  <2>2. EnvEvents(ev') = EnvEvents(ev) + 1
    BY <1>1, <1>4, FailedCounts
  <2> QED BY <1>2, <2>1, <2>2 DEF Counted, EnvFailures
<1>5. CASE ~WavesThrough(report)
  <2>1. did'.waved = did.waved
    BY <1>1, <1>5 DEF DidTyped
  <2>2. st'.kind \in {"env", "tool"} => st'.kind = report.kind
    <3>1. PICK g : st' = [st EXCEPT !.verdict = report.status, !.kind = report.kind,
                            !.stalemate = g.stalemate, !.forced = g.stalemate,
                            !.infoGap = @ \/ IsInfoGap(report)]
      BY <1>1 DEF AttemptFailed
    <3>2. st \in States
      BY DEF TypeInv, StateTyped
    <3> QED BY <3>1, <3>2 DEF States
  <2> QED BY <1>2, <1>3, <1>5, <2>1, <2>2 DEF Counted, EnvFailures, EventsCount, WavesThrough
<1> QED BY <1>4, <1>5

LEMMA OthersCount ==
  ASSUME TypeInv, Attempting, ~AgentStop
  PROVE  EventsCount(FALSE)
<1>1. ev \in Events /\ files \in Artifacts
  BY DEF TypeInv, EventsTyped
<1>2. CASE AgentVerdict
  BY <1>2, VerdictsAreResults, ResultCounts DEF AgentVerdict
<1>3. CASE NoFreshVerdict \/ NoScript
  <2> DEFINE e == [ev EXCEPT !.gates = @ + 1]
  <2>1. e \in Events /\ EnvEvents(e) = EnvEvents(ev)
    BY <1>1 DEF Events, EnvEvents
  <2>2. PICK kind \in {"llm", "info"} : ev' = Bump(e, kind)
    BY <1>3 DEF NoFreshVerdict, NoScript
  <2> HIDE DEF e
  <2> QED BY <2>1, <2>2, BumpCounts DEF EventsCount
<1>4. CASE ScriptRuns
  <2>1. PICK own \in Verdicts, wrote \in BOOLEAN : Attempt(ScriptResult(own, wrote))
    BY <1>4 DEF ScriptRuns
  <2>2. ScriptResult(own, wrote) \in Verdicts
    BY <1>1 DEF ScriptResult, Artifacts
  <2> QED BY <2>1, <2>2, VerdictsAreResults, ResultCounts
<1> QED BY <1>2, <1>3, <1>4 DEF Attempting

LEMMA AttemptingCounts ==
  ASSUME TypeInv, DidTyped, Attempting
  PROVE  Counted
<1>1. CASE AgentStop
  BY <1>1, StopCounts
<1>2. CASE ~AgentStop
  <2>1. did.waved \in Nat /\ EnvEvents(ev) \in Nat
    BY DEF TypeInv, EventsTyped, DidTyped, Events, EnvEvents
  <2>2. did'.waved = did.waved
    BY <1>2, DidEffects DEF Next, Attempting
  <2>3. EventsCount(FALSE)
    BY <1>2, OthersCount
  <2> QED BY <2>1, <2>2, <2>3 DEF EventsCount, Counted, EnvFailures
<1> QED BY <1>1, <1>2

LEMMA RepairAttempt ==
  ASSUME TypeInv, DidTyped, RepairInv, Attempting
  PROVE  RepairInv'
<1>1. /\ node = "run_gate" /\ ~st.infoGap /\ st'.bridge = st.bridge
      /\ LeaveByTriage(RunGateGate(files'), RouteAfterRun(st'))
  BY AttemptingEffects DEF Recorded
<1>2. EnvFailures <= st.bridge + overrides /\ EnvFailures <= MaxBridge + overrides
  BY <1>1 DEF RepairInv, Waiting, END
<1>3. node' \in FlowEdges["run_gate"]
  BY <1>1, RoutersFollowEdges, TriageGoes
<1>4. node' # "patch_bridge"
  BY <1>3 DEF FlowEdges
<1>5. \/ node' = RouteAfterRun(st') /\ overrides' = overrides
      \/ overrides' = overrides + 1
  BY <1>1, PlansAreCounted
<1>6. Counted
  BY AttemptingCounts
<1>7. st'.infoGap => RouteAfterRun(st') \in {"finalize", "evaluate"}
  BY DEF RouteAfterRun
<1>8. ~st'.infoGap /\ st'.verdict # "PASS" /\ st'.kind \in {"env", "tool"}
        => RouteAfterRun(st') = "diagnose_env"
  BY DEF RouteAfterRun
<1>9. Owed' => overrides' = overrides + 1
  BY <1>4, <1>5, <1>7 DEF Owed
<1>10. ~st'.infoGap /\ node' \notin Waiting
         => EnvFailures' = EnvFailures \/ overrides' = overrides + 1
  BY <1>5, <1>6, <1>8 DEF Counted, Waiting
<1>11. (EnvFailures' = EnvFailures \/ EnvFailures' = EnvFailures + 1)
       /\ (overrides' = overrides \/ overrides' = overrides + 1)
  BY <1>5, <1>6 DEF Counted
<1>12. st.bridge <= MaxBridge + overrides
  BY DEF RepairInv
<1>13. /\ st'.bridge <= MaxBridge + overrides'
       /\ EnvFailures' <= MaxBridge + 1 + overrides'
       /\ EnvFailures' <= st'.bridge + 1 + overrides'
  BY <1>1, <1>2, <1>11, <1>12, RepairNumbers
<1>14. ~st'.infoGap /\ node' \notin Waiting =>
         EnvFailures' <= st'.bridge + overrides' /\ EnvFailures' <= MaxBridge + overrides'
  BY <1>1, <1>2, <1>10, <1>11, RepairNumbers
<1>15. Owed' => st'.bridge < MaxBridge + overrides' /\ EnvFailures' <= MaxBridge + overrides'
  BY <1>1, <1>2, <1>9, <1>11, <1>12, RepairNumbers
<1> QED BY <1>13, <1>14, <1>15 DEF RepairInv, Waiting

LEMMA SkipGateRepair ==
  ASSUME TypeInv, DidTyped, RepairInv, SkipGate
  PROVE  RepairInv'
<1>1. /\ node = "run_gate" /\ st.infoGap /\ st' = st /\ ev' = ev
      /\ LeaveByTriage(RunGateGate(files'), RouteAfterRun(st'))
  BY DEF SkipGate, At, LeaveRunGate
<1>2. node' \in FlowEdges["run_gate"]
  BY <1>1, RoutersFollowEdges, TriageGoes
<1>3. node' # "patch_bridge"
  BY <1>2 DEF FlowEdges
<1>4. RouteAfterRun(st') \in {"finalize", "evaluate"}
  BY <1>1 DEF RouteAfterRun
<1>5. /\ overrides' = overrides \/ overrides' = overrides + 1
      /\ Owed' => overrides' = overrides + 1
  BY <1>1, <1>3, <1>4, PlansAreCounted DEF Owed
<1>6. EnvFailures' = EnvFailures /\ st'.bridge = st.bridge /\ st'.infoGap
  <2>1. ~AgentStop
    BY <1>1 DEF AgentStop, AttemptWith
  <2> QED BY <1>1, <2>1, SameFailures DEF Next
<1>7. st.bridge <= MaxBridge + overrides /\ EnvFailures <= MaxBridge + 1 + overrides
  BY DEF RepairInv
<1>8. /\ st'.bridge <= MaxBridge + overrides'
      /\ EnvFailures' <= MaxBridge + 1 + overrides'
      /\ Owed' => st'.bridge < MaxBridge + overrides' /\ EnvFailures' <= MaxBridge + overrides'
  BY <1>5, <1>6, <1>7, RepairNumbers
<1> QED BY <1>6, <1>8 DEF RepairInv

LEMMA RepairBridge ==
  ASSUME TypeInv, DidTyped, RepairInv, SkipDiagnosis \/ DiagnoseEnv \/ PatchBridge
  PROVE  RepairInv'
<1>1. st \in States
  BY DEF TypeInv, StateTyped
<1>2. EnvFailures' = EnvFailures
  <2>1. ~AgentStop
    BY DEF SkipDiagnosis, DiagnoseEnv, PatchBridge, AgentStop, AttemptWith, At
  <2>2. ev' = ev
    BY DEF SkipDiagnosis, DiagnoseEnv, LeaveDiagnose, PatchBridge
  <2> QED BY <2>1, <2>2, SameFailures DEF Next
<1>3. /\ st.bridge <= MaxBridge + overrides
      /\ EnvFailures <= MaxBridge + 1 + overrides
      /\ ~st.infoGap => EnvFailures <= st.bridge + 1 + overrides
      /\ Owed => st.bridge < MaxBridge + overrides /\ EnvFailures <= MaxBridge + overrides
  BY DEF RepairInv
<1>4. CASE SkipDiagnosis \/ DiagnoseEnv
  <2>1. /\ node = "diagnose_env"
        /\ LeaveByTriage(files'.proposal, RouteAfterDiagnose(st'))
    BY <1>4 DEF SkipDiagnosis, DiagnoseEnv, LeaveDiagnose, At
  <2>2. node' \in {"patch_bridge", "finalize"}
    BY <2>1, RoutersFollowEdges, TriageGoes DEF FlowEdges
  <2>3. overrides' = overrides \/ overrides' = overrides + 1
    BY <2>1, PlansAreCounted
  <2>4. st'.bridge = st.bridge /\ st'.infoGap = st.infoGap
    <3>1. CASE SkipDiagnosis
      <4>1. \/ st' = st
            \/ st' = [st EXCEPT !.verdict = "FAIL", !.error = "bridge_round_cap"]
        BY <3>1 DEF SkipDiagnosis
      <4> QED BY <1>1, <4>1 DEF States
    <3>2. CASE DiagnoseEnv
      <4>1. st' = Guarded([st EXCEPT !.runner = "llm", !.error = ""], guard')
        BY <3>2 DEF DiagnoseEnv
      <4> QED BY <1>1, <4>1 DEF Guarded, States
    <3> QED BY <1>4, <3>1, <3>2
  <2>5. node' = "patch_bridge" =>
          /\ st.bridge < MaxBridge + overrides'
          /\ EnvFailures <= MaxBridge + overrides'
    <3>1. CASE st.infoGap
      BY <1>3, <2>1, <2>3, <3>1, RepairNumbers DEF Owed
    <3>2. CASE ~st.infoGap /\ st.bridge < MaxBridge
      BY <1>3, <2>3, <3>2, RepairNumbers
    <3>3. CASE ~st.infoGap /\ ~(st.bridge < MaxBridge)
      <4>1. SkipDiagnosis
        BY <1>4, <3>3 DEF DiagnoseEnv
      <4>2. st'.error = "bridge_round_cap"
        BY <1>1, <3>3, <4>1 DEF SkipDiagnosis, States
      <4>3. RouteAfterDiagnose(st') = "finalize"
        BY <4>2 DEF RouteAfterDiagnose
      <4>4. node' = "patch_bridge" => overrides' = overrides + 1
        BY <2>1, <4>3, PlansAreCounted
      <4> QED BY <1>3, <4>4, RepairNumbers
    <3> QED BY <3>1, <3>2, <3>3
  <2>6. /\ st'.bridge <= MaxBridge + overrides'
        /\ EnvFailures' <= MaxBridge + 1 + overrides'
        /\ ~st'.infoGap => EnvFailures' <= st'.bridge + 1 + overrides'
    BY <1>2, <1>3, <2>3, <2>4, RepairNumbers
  <2>7. node' \in Waiting /\ (Owed' => node' = "patch_bridge")
    BY <2>2 DEF Owed, Waiting
  <2> QED BY <1>2, <2>4, <2>5, <2>6, <2>7 DEF RepairInv
<1>5. CASE PatchBridge
  <2>1. node = "patch_bridge" /\ node' = "select_runner" /\ overrides' = overrides
    BY <1>5, LeaveGoes DEF PatchBridge, At, Follows, Leave
  <2>2. PICK n, error : /\ n = st.bridge + 1
                        /\ st' = Guarded([st EXCEPT !.bridge = n, !.error = error], guard')
    BY <1>5 DEF PatchBridge
  <2>3. st'.bridge = n /\ st'.infoGap = st.infoGap
    BY <1>1, <2>2 DEF Guarded, States
  <2>4. st.bridge < MaxBridge + overrides /\ EnvFailures <= MaxBridge + overrides
    BY <1>3, <2>1 DEF Owed
  <2>5. /\ st'.bridge <= MaxBridge + overrides'
        /\ EnvFailures' <= MaxBridge + 1 + overrides'
        /\ EnvFailures' <= MaxBridge + overrides'
        /\ ~st'.infoGap => /\ EnvFailures' <= st'.bridge + overrides'
                           /\ EnvFailures' <= st'.bridge + 1 + overrides'
    BY <1>2, <1>3, <2>1, <2>2, <2>3, <2>4, RepairNumbers
  <2>6. ~Owed'
    BY <2>1 DEF Owed
  <2> QED BY <2>5, <2>6 DEF RepairInv
<1> QED BY <1>4, <1>5

\* The nodes that neither count failures nor belong to the bridge loop.
Aside ==
  \/ LoadContext \/ SelectRunner \/ ParseItems \/ Judge \/ ApplyPlan \/ PendingRepro
  \/ SkipEvaluation \/ Evaluate
  \/ SkipParity \/ ParityRaises \/ NoOpsToCompare \/ ParityCheck \/ RunCodegen
  \/ Promote \/ FinalizeReproduction \/ Finalize \/ MetaStep

LEMMA AsideGoes ==
  ASSUME Aside
  PROVE  /\ node \notin {"run_gate", "diagnose_env", "patch_bridge"}
         /\ node' \notin {"diagnose_env", "patch_bridge"}
         /\ node \in Waiting => node' \in Waiting
         /\ overrides' = overrides \/ overrides' = overrides + 1
<1> USE DEF At, Waiting, END
<1>1. CASE LoadContext
  <2>1. node = "load_context" /\ node' \in FlowEdges[node]
    BY <1>1, RoutersFollowEdges, TriageGoes DEF LoadContext, FlowEdges
  <2>2. overrides' = overrides \/ overrides' = overrides + 1
    BY <1>1, PlansAreCounted DEF LoadContext
  <2> QED BY <2>1, <2>2 DEF FlowEdges
<1>2. CASE SkipEvaluation \/ Evaluate
  <2>1. node = "evaluate" /\ node' \in FlowEdges[node]
    BY <1>2, RoutersFollowEdges, TriageGoes DEF SkipEvaluation, Evaluate, FlowEdges
  <2> QED BY <1>2, <2>1, PlansAreCounted DEF SkipEvaluation, Evaluate, FlowEdges
<1>3. CASE SkipParity \/ NoOpsToCompare \/ ParityCheck
  <2>1. node = "parity_check" /\ node' \in FlowEdges[node]
    BY <1>3, RoutersFollowEdges, TriageGoes
       DEF SkipParity, NoOpsToCompare, ParityCheck, LeaveParity, FlowEdges
  <2> QED BY <1>3, <2>1, PlansAreCounted
          DEF SkipParity, NoOpsToCompare, ParityCheck, LeaveParity, FlowEdges
<1>4. CASE \/ SelectRunner \/ ParseItems \/ Judge \/ ApplyPlan
           \/ RunCodegen \/ Promote \/ FinalizeReproduction \/ MetaStep
  <2>1. /\ node \in {"select_runner", "parse_validation_items", "validation_judge",
                     "apply_validation_plan", "run_codegen", "promote",
                     "finalize_reproduction", "meta_collect", "meta_score",
                     "meta_propose", "meta_queue"}
        /\ \E ok : Leave(ok)
    BY <1>4 DEF SelectRunner, ParseItems, Judge, ApplyPlan, RunCodegen, Promote,
                FinalizeReproduction, MetaStep
  <2>2. node' = Follows[node] /\ overrides' = overrides
    BY <2>1, LeaveGoes DEF Leave
  <2> QED BY <2>1, <2>2 DEF Follows
<1>5. CASE PendingRepro \/ Finalize
  BY <1>5 DEF PendingRepro, Finalize, GoOn, RouteAfterRepro
<1>6. CASE ParityRaises
  BY <1>6 DEF ParityRaises
<1> QED BY <1>1, <1>2, <1>3, <1>4, <1>5, <1>6 DEF Aside

LEMMA AsideKeeps ==
  ASSUME TypeInv, DidTyped, Aside
  PROVE  st'.bridge = st.bridge /\ ev' = ev /\ (st.infoGap => st'.infoGap)
<1> USE DEF States
<1>1. st \in States
  BY DEF TypeInv, StateTyped
<1>2. CASE LoadContext
  <2>1. st' = st \/ st' = [st EXCEPT !.infoGap = TRUE, !.verdict = "INFO_GAP"]
    BY <1>2 DEF LoadContext
  <2> QED BY <1>1, <1>2, <2>1 DEF LoadContext
<1>3. CASE SelectRunner \/ ParseItems \/ Judge \/ ApplyPlan \/ PendingRepro
  BY <1>1, <1>3 DEF SelectRunner, ParseItems, Judge, ApplyPlan, PendingRepro
<1>4. CASE SkipEvaluation
  BY <1>1, <1>4 DEF SkipEvaluation
<1>5. CASE Evaluate
  <2>1. PICK verdict, open, cont, complete :
          st' = Guarded([st EXCEPT !.verdict = verdict, !.openIssues = open,
                                   !.cont = cont, !.complete = complete], guard')
    <3>1. PICK score \in DriftScores :
            LET verdict == IF st.verdict = "PASS" /\ score > DriftMax THEN "FAIL"
                           ELSE st.verdict
            IN  st' = Guarded([st EXCEPT
                         !.verdict = verdict,
                         !.openIssues = verdict # "PASS",
                         !.cont = ContinueImprovement(ev, trust, verdict),
                         !.complete = IF CompleteAtLeast(ev, 75) THEN "high" ELSE "low"],
                        guard')
      BY <1>5 DEF Evaluate
    <3> QED BY <3>1
  <2>2. st'.bridge = st.bridge /\ st'.infoGap = st.infoGap
    BY <1>1, <2>1 DEF Guarded
  <2>3. ev' = ev
    BY <1>5 DEF Evaluate
  <2> QED BY <2>2, <2>3
<1>6. CASE SkipParity \/ NoOpsToCompare \/ ParityCheck
  <2>1. ev' = ev
    BY <1>6 DEF SkipParity, NoOpsToCompare, ParityCheck, LeaveParity
  <2>2. st' = st \/ st' = [st EXCEPT !.parity = "ok"] \/ st' = CodegenOrCap(st)
    BY <1>6 DEF SkipParity, NoOpsToCompare, ParityCheck
  <2> QED BY <1>1, <2>1, <2>2 DEF CodegenOrCap
<1>7. CASE RunCodegen
  <2>1. ev' = ev
    BY <1>7 DEF RunCodegen
  <2>2. \/ st' = [st EXCEPT !.verdict = "FAIL", !.error = "codegen_round_cap"]
        \/ st' = [st EXCEPT !.runner = "llm", !.error = ""]
    BY <1>7 DEF RunCodegen
  <2> QED BY <1>1, <2>1, <2>2
<1>8. CASE ParityRaises \/ Promote \/ FinalizeReproduction \/ Finalize \/ MetaStep
  BY <1>1, <1>8 DEF ParityRaises, Promote, FinalizeReproduction, Finalize, MetaStep
<1> QED BY <1>2, <1>3, <1>4, <1>5, <1>6, <1>7, <1>8 DEF Aside

LEMMA RepairAside ==
  ASSUME TypeInv, DidTyped, RepairInv, Aside
  PROVE  RepairInv'
<1>1. /\ st'.bridge = st.bridge /\ EnvFailures' = EnvFailures
      /\ ~st'.infoGap => ~st.infoGap
  <2>1. ~AgentStop
    BY AsideGoes DEF AgentStop, AttemptWith, At
  <2>2. Next
    BY DEF Aside, Next
  <2> QED BY <2>1, <2>2, AsideKeeps, SameFailures
<1>2. /\ node' \notin Waiting => node \notin Waiting
      /\ ~Owed'
      /\ overrides' = overrides \/ overrides' = overrides + 1
  BY AsideGoes DEF Owed
<1>3. /\ st.bridge <= MaxBridge + overrides
      /\ EnvFailures <= MaxBridge + 1 + overrides
      /\ ~st.infoGap => EnvFailures <= st.bridge + 1 + overrides
      /\ ~st.infoGap /\ node \notin Waiting =>
           EnvFailures <= st.bridge + overrides /\ EnvFailures <= MaxBridge + overrides
  BY DEF RepairInv
<1>4. /\ st'.bridge <= MaxBridge + overrides'
      /\ EnvFailures' <= MaxBridge + 1 + overrides'
      /\ ~st'.infoGap => EnvFailures' <= st'.bridge + 1 + overrides'
  BY <1>1, <1>2, <1>3, RepairNumbers
<1>5. ~st'.infoGap /\ node' \notin Waiting =>
        EnvFailures' <= st'.bridge + overrides' /\ EnvFailures' <= MaxBridge + overrides'
  BY <1>1, <1>2, <1>3, RepairNumbers
<1> QED BY <1>2, <1>4, <1>5 DEF RepairInv, Waiting

LEMMA RepairStep == TypeInv /\ DidTyped /\ RepairInv /\ [Next]_vars => RepairInv'
<1> SUFFICES ASSUME TypeInv, DidTyped, RepairInv, [Next]_vars PROVE RepairInv'
  OBVIOUS
<1>1. CASE UNCHANGED vars
  BY <1>1 DEF vars, RepairInv, EnvFailures, Owed, Waiting
<1>2. CASE Next
  BY <1>2, RepairAttempt, SkipGateRepair, RepairBridge, RepairAside
     DEF Next, Attempting, Aside
<1> QED BY <1>1, <1>2

\* The repair loops stop at their caps, each extra round costs one route of a plan
\* or the user: codegen rounds, counted in parity_check and tested in run_codegen;
\* bridge rounds, counted in patch_bridge and tested in diagnose_env; and the
\* environment failures a run can have at all, beyond those that a stop report
\* called a PASS, which cost no bridge round.
THEOREM RepairsAreBounded == Spec => []RepairsBounded
<1>1. Init => RepairInv
  <2> SUFFICES ASSUME Init PROVE RepairInv
    OBVIOUS
  <2>1. node = "load_context" /\ overrides = 0
    BY DEF Init
  <2>2. st.bridge = 0
    BY DEF Init
  <2>3. ev.env = 0 /\ ev.tool = 0 /\ did.waved = 0
    BY DEF Init
  <2> QED BY <2>1, <2>2, <2>3, VerifyGroupAssumption DEF RepairInv, EnvFailures, EnvEvents, Owed
<1>2. Spec => []RepairInv
  BY <1>1, RepairStep, DidTypedHolds, TypeInvHolds, PTL DEF Spec
<1>3. TypeInv /\ DidTyped /\ EarnedInv /\ RepairInv => RepairsBounded
  <2> SUFFICES ASSUME TypeInv, DidTyped, EarnedInv, RepairInv PROVE RepairsBounded
    OBVIOUS
  <2>1. EnvEvents(ev) \in Nat /\ did.waved \in Nat
    BY DEF TypeInv, EventsTyped, Events, EnvEvents, DidTyped
  <2>2. EnvEvents(ev) <= MaxBridge + 1 + overrides + did.waved
    BY <2>1, RepairNumbers DEF RepairInv, EnvFailures
  <2> QED BY <2>2 DEF EarnedInv, RepairInv, RepairsBounded, EnvEvents
<1> QED BY <1>2, <1>3, EarnedHolds, DidTypedHolds, TypeInvHolds, PTL

-----------------------------------------------------------------------------
(* A run that nobody rerouted, and what its PASS is worth.                 *)

\* What a PASS without parity ends on.
Excused ==
  \/ st.parity = "ok" \/ st.error = "codegen_round_cap"
  \/ st.stalemate /\ st.kind # "none"

\* Outside run_gate no node makes a PASS of a failure; a PASS with nothing missing
\* meets evaluate with a guard that ClearOnPass has just emptied, which cannot
\* report a stalemate, or is a stop report's and has kept its kind of failure; and
\* past parity a PASS has reached it, has used up the codegen rounds or is a stop
\* report's that came in a stalemate.
PassInv ==
  /\ outcome = "ended" => node = END
  /\ overrides = 0 =>
       /\ node \in {"load_context", "parse_validation_items", "validation_judge",
                    "apply_validation_plan", "run_pending_repro", "diagnose_env",
                    "patch_bridge"}
            => st.verdict # "PASS"
       /\ node = "evaluate" /\ st.verdict = "PASS" /\ ~st.infoGap
            => (guard.stalemate = FALSE /\ guard.drift = <<>>) \/ st.kind # "none"
       /\ node \in Late \ {"parity_check", "run_codegen"} /\ st.verdict = "PASS"
            => Excused


\* A run that is over has nowhere left to go.
LEMMA EndedAtEnd ==
  ASSUME TypeInv, Next
  PROVE  outcome' = "ended" => node' = END
<1>1. ASSUME NEW ok, NEW to, GoOn(ok, to)
      PROVE  outcome' = "ended" => node' = END
  BY <1>1 DEF GoOn
<1>2. ASSUME NEW ok, NEW route, LeaveByTriage(ok, route)
      PROVE  outcome' = "ended" => node' = END
  BY <1>1, <1>2 DEF LeaveByTriage
<1>3. ASSUME NEW ok, Leave(ok)
      PROVE  outcome' = "ended" => node' = END
  BY <1>1, <1>3 DEF Leave
<1> QED BY <1>1, <1>2, <1>3
        DEF Next, LoadContext, SelectRunner, SkipGate, AgentVerdict, AgentStop,
            NoFreshVerdict, NoScript, ScriptRuns, LeaveRunGate, ParseItems, Judge,
            ApplyPlan, PendingRepro, SkipDiagnosis, DiagnoseEnv, LeaveDiagnose,
            PatchBridge, SkipEvaluation, Evaluate, SkipParity, ParityRaises,
            NoOpsToCompare, ParityCheck, LeaveParity, RunCodegen, Promote, FinalizeReproduction,
            Finalize, MetaStep

\* Unless somebody reroutes it a run goes where the router says.
LEMMA NoPlan ==
  ASSUME TypeInv, NEW ok, NEW route, LeaveByTriage(ok, route), overrides' = 0
  PROVE  overrides = 0 /\ node' = route
<1>1. overrides \in Nat
  BY VerifyGroupAssumption DEF TypeInv, ControlTyped
<1> QED BY <1>1, PlansAreCounted

LEMMA PassAttempt ==
  ASSUME TypeInv, PassInv, Attempting
  PROVE  PassInv'
<1>1. /\ Recorded
      /\ LeaveByTriage(RunGateGate(files'), RouteAfterRun(st'))
  BY AttemptingEffects
<1>2. outcome' = "ended" => node' = END
  BY EndedAtEnd DEF Next, Attempting
<1>3. st'.verdict = "PASS" => RouteAfterRun(st') = "evaluate"
  BY DEF RouteAfterRun
<1>4. st'.verdict = "PASS" =>
        (guard'.stalemate = FALSE /\ guard'.drift = <<>>) \/ st'.kind # "none"
  BY <1>1, CleanHasNoStalemate DEF Recorded, TypeInv, GuardTyped
<1>5. overrides' = 0 /\ st'.verdict = "PASS" => node' = "evaluate"
  BY <1>1, <1>3, NoPlan
<1> QED BY <1>2, <1>4, <1>5 DEF PassInv, Late, END

LEMMA PassEarly ==
  ASSUME TypeInv, EarnedInv, PassInv, Early
  PROVE  PassInv'
<1>1. outcome' = "ended" => node' = END
  BY EndedAtEnd DEF Next, Early
<1>2. SUFFICES ASSUME st'.verdict = "PASS", overrides' = 0
               PROVE  \/ node' \in {"select_runner", "run_gate"}
                      \/ node' = "evaluate" /\ st'.infoGap
  BY <1>1 DEF PassInv, Late, END
<1>3. st \in States
  BY DEF TypeInv, StateTyped
<1>4. CASE LoadContext
  <2>1. node = "load_context" /\ overrides = 0
    BY <1>2, <1>4, NoPlan DEF LoadContext, At
  <2>2. st' = st \/ st' = [st EXCEPT !.infoGap = TRUE, !.verdict = "INFO_GAP"]
    BY <1>4 DEF LoadContext
  <2>3. st.verdict = "PASS"
    BY <1>2, <1>3, <2>2 DEF States
  <2> QED BY <2>1, <2>3 DEF PassInv
<1>5. CASE SelectRunner
  BY <1>5, LeaveGoes DEF SelectRunner, At, Follows
<1>6. CASE SkipGate
  <2>1. /\ st'.infoGap
        /\ LeaveByTriage(RunGateGate(files'), RouteAfterRun(st'))
    BY <1>6 DEF SkipGate, LeaveRunGate
  <2>2. RouteAfterRun(st') = "evaluate"
    BY <1>2 DEF RouteAfterRun
  <2> QED BY <1>2, <2>1, <2>2, NoPlan
<1>7. CASE ParseItems \/ Judge \/ ApplyPlan \/ PendingRepro
  <2>1. /\ overrides = 0 /\ st'.verdict = st.verdict
        /\ node \in {"parse_validation_items", "validation_judge",
                     "apply_validation_plan", "run_pending_repro"}
    BY <1>2, <1>3, <1>7 DEF ParseItems, Judge, ApplyPlan, PendingRepro, At, Leave, States
  <2> QED BY <1>2, <2>1 DEF PassInv
<1>8. CASE SkipDiagnosis \/ DiagnoseEnv
  <2>1. /\ node = "diagnose_env"
        /\ LeaveByTriage(files'.proposal, RouteAfterDiagnose(st'))
    BY <1>8 DEF SkipDiagnosis, DiagnoseEnv, LeaveDiagnose, At
  <2>2. overrides = 0
    BY <1>2, <2>1, NoPlan
  <2>3. st.verdict = "PASS"
    <3>1. CASE SkipDiagnosis
      <4>1. \/ st' = st
            \/ st' = [st EXCEPT !.verdict = "FAIL", !.error = "bridge_round_cap"]
        BY <3>1 DEF SkipDiagnosis
      <4> QED BY <1>2, <1>3, <4>1 DEF States
    <3>2. CASE DiagnoseEnv
      <4>1. st' = Guarded([st EXCEPT !.runner = "llm", !.error = ""], guard')
        BY <3>2 DEF DiagnoseEnv
      <4> QED BY <1>2, <1>3, <4>1 DEF Guarded, States
    <3> QED BY <1>8, <3>1, <3>2
  <2> QED BY <2>1, <2>2, <2>3 DEF PassInv
<1>9. CASE PatchBridge
  BY <1>9, LeaveGoes DEF PatchBridge, At, Follows
<1> QED BY <1>4, <1>5, <1>6, <1>7, <1>8, <1>9 DEF Early

\* One drift after a PASS is too few to lack drift.
LEMMA FirstDriftNoStalemate ==
  ASSUME NEW S, NEW L, NEW D, NEW g \in Guards(S, L, D), NEW score,
         g.drift = <<>>, g.stalemate = FALSE
  PROVE  RecordDrift(g, score).stalemate = FALSE
<1> DEFINE h == [g EXCEPT !.drift = Remember(@, score, 3)]
<1>1. Remember(g.drift, score, 3) = <<score>>
  <2>1. Append(<<>>, score) = <<score>>
    OBVIOUS
  <2>2. Len(<<score>>) = 1
    OBVIOUS
  <2>3. Len(<<score>>) <= 3
    BY <2>2
  <2> QED BY <2>1, <2>3 DEF Remember, Window
<1>2. h.drift = <<score>> /\ h.stalemate = FALSE
  BY <1>1 DEF Guards
<1>3. RecordDrift(g, score) = IF Detect(h) = "NO_DRIFT" THEN Apply(h, "NO_DRIFT") ELSE h
  BY DEF RecordDrift
<1> HIDE DEF h
<1>4. ~NoDrift(h.drift)
  <2>1. Len(h.drift) = 1
    BY <1>2
  <2>2. ~(Len(h.drift) >= 3)
    BY <2>1
  <2> QED BY <2>2 DEF NoDrift
<1>5. Detect(h) # "NO_DRIFT"
  BY <1>4 DEF Detect
<1> QED BY <1>2, <1>3, <1>5

LEMMA PassEvaluation ==
  ASSUME TypeInv, EarnedInv, PassInv, SkipEvaluation \/ Evaluate
  PROVE  PassInv'
<1>1. outcome' = "ended" => node' = END
  BY EndedAtEnd DEF Next
<1>2. SUFFICES ASSUME st'.verdict = "PASS", overrides' = 0
               PROVE  \/ node' \in {"select_runner", "parity_check"}
                      \/ node' = "finalize" /\ st'.stalemate /\ st'.kind # "none"
  BY <1>1 DEF PassInv, Excused, Late, END
<1>3. st \in States
  BY DEF TypeInv, StateTyped
<1>4. ~SkipEvaluation
  BY <1>2, <1>3 DEF SkipEvaluation, States
<1>5. /\ node = "evaluate" /\ ~st.infoGap
      /\ LeaveByTriage(TRUE, RouteAfterEval(st'))
  BY <1>4 DEF Evaluate, At
<1>6. overrides = 0 /\ node' = RouteAfterEval(st')
  BY <1>2, <1>5, NoPlan
<1>7. PICK score \in DriftScores :
        LET verdict == IF st.verdict = "PASS" /\ score > DriftMax THEN "FAIL"
                       ELSE st.verdict
        IN  /\ guard' = RecordDrift(guard, score)
            /\ st' = Guarded([st EXCEPT
                        !.verdict = verdict,
                        !.openIssues = verdict # "PASS",
                        !.cont = ContinueImprovement(ev, trust, verdict),
                        !.complete = IF CompleteAtLeast(ev, 75) THEN "high" ELSE "low"],
                       guard')
  BY <1>4 DEF Evaluate
<1> DEFINE verdict == IF st.verdict = "PASS" /\ score > DriftMax THEN "FAIL"
                      ELSE st.verdict
<1>8. /\ st'.verdict = verdict /\ st'.openIssues = (verdict # "PASS")
      /\ st'.infoGap = st.infoGap /\ st'.stalemate = guard'.stalemate
      /\ st'.kind = st.kind
  BY <1>3, <1>7 DEF Guarded, States
<1>9. st.verdict = "PASS" /\ ~st'.openIssues
  BY <1>2, <1>8
<1>10. guard'.stalemate = FALSE \/ st.kind # "none"
  BY <1>5, <1>6, <1>7, <1>9, FirstDriftNoStalemate DEF PassInv, TypeInv, GuardTyped
<1>11. ~st'.infoGap /\ (st'.stalemate => st'.kind # "none")
  BY <1>5, <1>8, <1>10
<1> QED BY <1>6, <1>9, <1>11 DEF RouteAfterEval

LEMMA PassParity ==
  ASSUME TypeInv, EarnedInv, PassInv,
         SkipParity \/ NoOpsToCompare \/ ParityCheck \/ RunCodegen
  PROVE  PassInv'
<1>1. outcome' = "ended" => node' = END
  BY EndedAtEnd DEF Next
<1>2. SUFFICES ASSUME st'.verdict = "PASS", overrides' = 0,
                      node' \notin {"parity_check", "run_codegen"}
               PROVE  st'.parity = "ok" \/ st'.error = "codegen_round_cap"
  <2>1. node' \in {"parity_check", "run_codegen", "promote", "finalize"}
    BY ParityEffects
  <2> QED BY <1>1, <1>2, <2>1 DEF PassInv, Excused
<1>3. CASE RunCodegen
  BY <1>2, <1>3, LeaveGoes DEF RunCodegen, At, Follows
<1>4. CASE SkipParity \/ NoOpsToCompare \/ ParityCheck
  <2>1. node' = RouteAfterParity(st')
    BY <1>2, <1>4, NoPlan DEF SkipParity, NoOpsToCompare, ParityCheck, LeaveParity
  <2>2. ~st'.infoGap
    <3>1. node = "parity_check"
      BY <1>4 DEF SkipParity, NoOpsToCompare, ParityCheck, At
    <3> QED BY <1>2, <3>1, ParityEffects DEF EarnedInv, GapFails
  <2> QED BY <1>2, <2>1, <2>2 DEF RouteAfterParity
<1> QED BY <1>3, <1>4

LEMMA PassEnd ==
  ASSUME TypeInv, EarnedInv, PassInv,
         Promote \/ FinalizeReproduction \/ Finalize \/ MetaStep
  PROVE  PassInv'
<1>1. outcome' = "ended" => node' = END
  BY EndedAtEnd DEF Next
<1>2. /\ node \in Late \ {"parity_check", "run_codegen"}
      /\ node' \in Late \ {"parity_check", "run_codegen"}
      /\ overrides' = overrides
  BY EndEffects DEF Promote, FinalizeReproduction, Finalize, MetaStep, At, Leave, Late
<1>3. SUFFICES ASSUME st'.verdict = "PASS", overrides' = 0
               PROVE  Excused'
  BY <1>1, <1>2 DEF PassInv, Late, END
<1>4. st \in States
  BY DEF TypeInv, StateTyped
<1>5. st.verdict = "PASS"
  BY <1>3, EndEffects
<1>6. Excused
  BY <1>2, <1>3, <1>5 DEF PassInv
<1>7. /\ st'.parity = st.parity /\ st'.error = st.error
      /\ st'.stalemate = st.stalemate /\ st'.kind = st.kind
  <2>1. CASE Promote
    <3>1. \/ st' = st
          \/ \E rejected : st' = [st EXCEPT !.rejected = rejected]
          \/ st' = [st EXCEPT !.verdict = "FAIL", !.error = "child_evidence"]
      BY <2>1 DEF Promote
    <3> QED BY <1>3, <1>4, <3>1 DEF States
  <2> QED BY <2>1, EndEffects
<1> QED BY <1>6, <1>7 DEF Excused

LEMMA PassStep == TypeInv /\ EarnedInv /\ PassInv /\ [Next]_vars => PassInv'
<1> SUFFICES ASSUME TypeInv, EarnedInv, PassInv, [Next]_vars PROVE PassInv'
  OBVIOUS
<1>1. CASE UNCHANGED vars
  BY <1>1 DEF vars, PassInv, Excused
<1>2. CASE ParityRaises
  BY <1>2 DEF ParityRaises, PassInv, Excused
<1>3. CASE Next /\ ~ParityRaises
  BY <1>3, PassAttempt, PassEarly, PassEvaluation, PassParity, PassEnd
     DEF Next, Attempting, Early
<1> QED BY <1>1, <1>2, <1>3

\* A run that no plan and no user rerouted ends with a PASS, which the orchestrator
\* takes for the group's result, only if parity was reached or given up at the cap,
\* or if a stop report's PASS, which keeps its kind of failure, met a stalemate.
THEOREM PassMeansParity == Spec => []PassEndsWithParity
<1>1. Init => PassInv
  <2> SUFFICES ASSUME Init PROVE PassInv
    OBVIOUS
  <2>1. node = "load_context" /\ outcome = "running"
    BY DEF Init
  <2>2. st.verdict = "none"
    BY DEF Init
  <2> QED BY <2>1, <2>2 DEF PassInv, Late, END
<1>2. Spec => []PassInv
  BY <1>1, PassStep, EarnedHolds, TypeInvHolds, PTL DEF Spec
<1>3. PassInv => PassEndsWithParity
  BY DEF PassInv, Excused, PassEndsWithParity, Late, END
<1> QED BY <1>2, <1>3, PTL

=============================================================================
