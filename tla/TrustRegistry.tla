---------------------------- MODULE TrustRegistry ----------------------------
(***************************************************************************)
(* trust/registry.yaml and the tag in cache.yaml, shared by every process  *)
(* that works on a project: verify_group runs (load_context refreshes the  *)
(* tag, run_gate updates the trust, promote evaluates and promotes), the   *)
(* CLI's tag-replace and the hand-off at the end of setup.                 *)
(*                                                                         *)
(* A load and a save of a file are one step each (YamlStore implements     *)
(* AtomicFile), and every update of the registry loads the whole file,     *)
(* changes one script and saves the whole file.  Trust is counted in       *)
(* steps, as in VerifyGroup.                                               *)
(*                                                                         *)
(* A definition named ...Variant is the one after it with a mistake in it: *)
(* the mutants of PROJECT.json put it in the place of the right one.       *)
(***************************************************************************)
EXTENDS Integers, FiniteSets

CONSTANTS
  Procs,          \* the processes
  Scripts,        \* the scripts in the registry
  TrustMax,       \* the score 1.0, in steps
  TrustStart,     \* the score 0.5 of a new record
  TrustHandoff,   \* the score 0.85 of a hand-off
  Tau,            \* tau_promote_min
  PassDelta,      \* what a PASS adds
  FailDelta,      \* what a FAIL takes
  MinRuns,        \* runs the completeness policy asks for; runs are counted up to it
  MaxTag,         \* bound: upstream releases, numbered from 1
  MaxEpoch,       \* bound: tag changes after which no refresh or replacement starts
  MaxCrashes      \* bound: processes that die

ASSUME TrustAssumption ==
  /\ TrustMax \in Nat
  /\ {TrustStart, TrustHandoff, Tau} \subseteq 0 .. TrustMax
  /\ {PassDelta, FailDelta, MinRuns, MaxTag, MaxEpoch, MaxCrashes} \subseteq Nat
  /\ IsFiniteSet(Procs)

VARIABLES
  tag,        \* cache.yaml: tag.value; a later release is a larger number
  due,        \* the tag's next_refresh has come
  upstream,   \* the newest release of the design's repository, 0 before the first
  registry,   \* registry.yaml: the record of every script
  pc,         \* where each process is
  seen,       \* the tag in the cache a process loaded
  want,       \* the tag it is about to write
  copy,       \* the registry it loaded
  script,     \* the script it works on
  outcome,    \* what it found out about the script
  epoch,      \* history: how often the tag has changed
  earned,     \* history: the epoch of the evidence a script was promoted on
  decided,    \* history: what the last promotion of a script decided
  overtaken,  \* history: the tag was changed since a process loaded the cache
  missed,     \* history: scripts whose standing others changed since it loaded
  tainted,    \* history: scripts canonical by a save that missed such a change
  crashes     \* history: processes that died

files == <<tag, due, registry>>
locals == <<seen, want, copy, script, outcome>>
marks == <<overtaken, missed, tainted>>
decisions == <<epoch, earned, decided, overtaken, crashes>>
unmissed == <<decisions, tainted>>
history == <<epoch, earned, decided, crashes, marks>>
vars == <<files, upstream, pc, locals, history>>

Statuses == {"absent", "none", "spawned", "draft", "evaluated", "canonical"}
Records == [status : Statuses, tied : BOOLEAN, trust : 0 .. TrustMax, runs : 0 .. MinRuns]
Unknown == [status |-> "absent", tied |-> FALSE, trust |-> TrustStart, runs |-> 0]
Spawned == [status |-> "spawned", tied |-> TRUE, trust |-> TrustStart, runs |-> 0]
NoOutcome == [passed |-> FALSE, allowed |-> FALSE, decision |-> "defer", trust |-> 0, epoch |-> 0]
NoWant == [tag |-> 0, then |-> "idle"]
NoCopy == [s \in Scripts |-> Unknown]

\* the tags of cache.yaml: none yet, a release, or what a touch makes of none
NoTag == 0
UnknownTag == MaxTag + 1
Tags == NoTag .. UnknownTag

Clamp(n) == IF n < 0 THEN 0 ELSE IF n > TrustMax THEN TrustMax ELSE n

Goto(p, from, to) ==
  /\ pc[p] = from
  /\ pc' = [pc EXCEPT ![p] = to]

\* A process between a load and a save of the registry.
Holding(p) == pc[p] \in {"demoting", "updating", "promoting", "handing"}

\* what a process holds ends with the function that held it
Drop(p) == copy' = [copy EXCEPT ![p] = NoCopy]
Forget(p) == outcome' = [outcome EXCEPT ![p] = NoOutcome]

Load(p) ==
  /\ copy' = [copy EXCEPT ![p] = registry]
  /\ missed' = [missed EXCEPT ![p] = {}]

\* Whether a script is canonical, and whether a new tag ends that.
Standing(rec) == <<rec.status = "canonical", rec.tied>>

\* p saves the whole registry; the others may be holding what it was before
Save(p, new) ==
  /\ registry' = new
  /\ Drop(p)
  /\ missed' = [q \in Procs |->
       IF q = p \/ ~Holding(q) THEN {}
       ELSE missed[q] \cup {s \in Scripts : Standing(new[s]) # Standing(copy[q][s])}]

\* what p writes as canonical although others changed that since it loaded
Outdated(p, new) == {s \in tainted \cup missed[p] : new[s].status = "canonical"}

\* any save but the one that decides a promotion
WriteBack(p, new) ==
  /\ Save(p, new)
  /\ tainted' = Outdated(p, new)

Init ==
  /\ tag \in {NoTag, 1} \cap (0 .. MaxTag)
  /\ due = FALSE
  /\ upstream = tag
  /\ registry \in [Scripts -> {Unknown, Spawned}]
  /\ pc = [p \in Procs |-> "idle"]
  /\ seen = [p \in Procs |-> NoTag]
  /\ want = [p \in Procs |-> NoWant]
  /\ copy = [p \in Procs |-> NoCopy]
  /\ script \in [Procs -> Scripts]
  /\ outcome = [p \in Procs |-> NoOutcome]
  /\ epoch = 0
  /\ earned = [s \in Scripts |-> 0]
  /\ decided = [s \in Scripts |-> "defer"]
  /\ overtaken = [p \in Procs |-> FALSE]
  /\ missed = [p \in Procs |-> {}]
  /\ tainted = {}
  /\ crashes = 0
-----------------------------------------------------------------------------
(***************************************************************************)
(* The tag: refresh_if_due, touch_tag_refresh, apply_tag_replace.          *)
(***************************************************************************)

\* cache.yaml is read once per process
LoadContextVariant(p) ==
  /\ Goto(p, "idle", IF due THEN "due" ELSE "ready")
  /\ \E s \in Scripts : script' = [script EXCEPT ![p] = s]
  /\ overtaken' = [overtaken EXCEPT ![p] = FALSE]
  /\ UNCHANGED <<files, upstream, seen, want, copy, outcome, epoch, earned, decided, missed, tainted, crashes>>

\* load_context loads cache.yaml; a tag that is not due is left alone.
LoadContext(p) ==
  /\ Goto(p, "idle", IF due THEN "due" ELSE "ready")
  /\ seen' = [seen EXCEPT ![p] = IF due THEN tag ELSE @]
  /\ \E s \in Scripts : script' = [script EXCEPT ![p] = s]
  /\ overtaken' = [overtaken EXCEPT ![p] = FALSE]
  /\ UNCHANGED <<files, upstream, want, copy, outcome, epoch, earned, decided, missed, tainted, crashes>>

\* live mode: git ls-remote answers with the newest tag, and it is another
FetchNewTag(p) ==
  /\ Goto(p, "due", "fetched")
  /\ upstream # 0 /\ upstream # seen[p]
  /\ want' = [want EXCEPT ![p] = [tag |-> upstream, then |-> "ready"]]
  /\ UNCHANGED <<files, upstream, seen, copy, script, outcome, history>>

\* touch_tag_refresh keeps a tag but has a word for none
Touched(t) == IF t = NoTag THEN UnknownTag ELSE t

\* dummy mode, no answer, or the same tag: the cache that load_context loaded is
\* touched
TouchTag(p) ==
  /\ Goto(p, "due", "fetched")
  /\ want' = [want EXCEPT ![p] = [tag |-> Touched(seen[p]), then |-> "ready"]]
  /\ UNCHANGED <<files, upstream, seen, copy, script, outcome, history>>

\* the CLI's tag-replace writes whatever it is given
CliTagReplace(p) ==
  /\ epoch < MaxEpoch
  /\ Goto(p, "idle", "fetched")
  /\ \E t \in Tags : want' = [want EXCEPT ![p] = [tag |-> t, then |-> "idle"]]
  /\ UNCHANGED <<files, upstream, seen, copy, script, outcome, history>>

\* apply_tag_replace, first file: tag, next_refresh and sanity in cache.yaml
SaveCache(p) ==
  /\ Goto(p, "fetched", "cascade")
  /\ tag' = want[p].tag
  /\ due' = FALSE
  /\ epoch' = IF want[p].tag = tag THEN epoch ELSE epoch + 1
  /\ overtaken' = [q \in Procs |->
       IF q = p THEN FALSE
       ELSE overtaken[q] \/ (want[p].tag # tag /\ pc[q] \in {"due", "fetched"})]
  /\ seen' = [seen EXCEPT ![p] = NoTag]
  /\ UNCHANGED <<registry, upstream, want, copy, script, outcome, earned, decided, missed, tainted, crashes>>

\* apply_tag_replace, second file
LoadForDemotion(p) ==
  /\ Goto(p, "cascade", "demoting")
  /\ Load(p)
  /\ UNCHANGED <<files, upstream, seen, want, script, outcome, unmissed>>

\* demotion lowers the evaluated scripts and skips the canonical ones
DemotedVariant(rec) ==
  IF rec.tied /\ rec.status = "evaluated" THEN [rec EXCEPT !.status = "draft"] ELSE rec

Demoted(rec) ==
  IF rec.tied /\ rec.status = "canonical" THEN [rec EXCEPT !.status = "evaluated"] ELSE rec

\* an empty file is not written
SaveDemoted(p) ==
  /\ Goto(p, "demoting", want[p].then)
  /\ \/ WriteBack(p, [s \in Scripts |-> Demoted(copy[p][s])])
     \/ /\ \A s \in Scripts : copy[p][s].status = "absent"
        /\ Drop(p)
        /\ UNCHANGED <<registry, missed, tainted>>
  /\ want' = [want EXCEPT ![p] = NoWant]
  /\ UNCHANGED <<tag, due, upstream, seen, script, outcome, decisions>>
-----------------------------------------------------------------------------
(***************************************************************************)
(* A run's attempt: update_trust_after_run.  A training scenario that is   *)
(* meant to fail leaves the registry alone.                                *)
(***************************************************************************)
RunGate(p) ==
  /\ Goto(p, "ready", "ran")
  /\ \E passed \in BOOLEAN : outcome' = [outcome EXCEPT ![p].passed = passed]
  /\ UNCHANGED <<files, upstream, seen, want, copy, script, history>>

SkipTrustUpdate(p) ==
  /\ Goto(p, "ran", "judged")
  /\ UNCHANGED <<files, upstream, locals, history>>

LoadForUpdate(p) ==
  /\ Goto(p, "ran", "updating")
  /\ Load(p)
  /\ UNCHANGED <<files, upstream, seen, want, script, outcome, unmissed>>

\* a missing record is TrustRecord(...): draft and tied to the tag
AfterRun(rec, passed) ==
  [status |-> IF rec.status \in {"absent", "spawned"} THEN "draft" ELSE rec.status,
   tied |-> rec.tied \/ rec.status = "absent",
   trust |-> Clamp(rec.trust + IF passed THEN PassDelta ELSE -FailDelta),
   runs |-> IF rec.runs < MinRuns THEN rec.runs + 1 ELSE rec.runs]

SaveUpdate(p) ==
  /\ Goto(p, "updating", "judged")
  /\ WriteBack(p, [copy[p] EXCEPT ![script[p]] = AfterRun(@, outcome[p].passed)])
  /\ UNCHANGED <<tag, due, upstream, seen, want, script, outcome, decisions>>

\* the graph goes round for another attempt, or the run ends
NextAttempt(p) ==
  /\ \E to \in {"ready", "idle"} : Goto(p, "judged", to)
  /\ Forget(p)
  /\ UNCHANGED <<files, upstream, seen, want, copy, script, history>>
-----------------------------------------------------------------------------
(***************************************************************************)
(* promote: evaluate_script measures the script against the golden cases   *)
(* of the tag it reads, the LLM decides, apply_promotion writes.  The      *)
(* completeness policy has counted the script's runs before.               *)
(***************************************************************************)
EvaluateScript(p) ==
  /\ Goto(p, "judged", "evaluated")
  /\ outcome[p].passed
  /\ \E trust \in 0 .. TrustMax, decision \in {"approve", "defer", "reject"} :
       outcome' = [outcome EXCEPT ![p] =
         [passed |-> TRUE, allowed |-> registry[script[p]].runs >= MinRuns,
          decision |-> decision, trust |-> trust, epoch |-> epoch]]
  /\ UNCHANGED <<files, upstream, seen, want, copy, script, history>>

LoadForPromotion(p) ==
  /\ Goto(p, "evaluated", "promoting")
  /\ Load(p)
  /\ UNCHANGED <<files, upstream, seen, want, script, outcome, unmissed>>

\* scripts.setdefault(name, {"script": name}): a record with neither status
\* nor tied_to_tag
Listed(rec) == IF rec.status = "absent" THEN [rec EXCEPT !.status = "none"] ELSE rec

\* approve and trust; parity, golden and completeness may still refuse
PromotionBranch(p) ==
  LET o == outcome[p] IN
    IF o.decision = "approve" /\ o.trust >= Tau /\ o.allowed THEN {"approve", "refused"}
    ELSE IF o.decision = "reject" THEN {"reject"} ELSE {"refused"}

\* a rejection leaves the status alone
DecideVariant(rec, branch, trust) ==
  IF branch = "approve" THEN [rec EXCEPT !.status = "canonical", !.trust = trust] ELSE rec

Decide(rec, branch, trust) ==
  CASE branch = "approve" -> [rec EXCEPT !.status = "canonical", !.trust = trust]
    [] branch = "reject"  -> [rec EXCEPT !.status = "evaluated"]
    [] branch = "refused" -> rec

SavePromotion(p) ==
  LET s == script[p] IN
  /\ Goto(p, "promoting", "idle")
  /\ \E branch \in PromotionBranch(p) :
       /\ Save(p, [copy[p] EXCEPT ![s] = Decide(Listed(@), branch, outcome[p].trust)])
       /\ tainted' = IF branch # "approve" THEN Outdated(p, registry')
                     ELSE {r \in Outdated(p, registry') \cup {s} : r = s => outcome[p].epoch # epoch}
       /\ decided' = [decided EXCEPT ![s] = IF branch = "refused" THEN @ ELSE branch]
       /\ earned' = [earned EXCEPT ![s] = IF branch = "approve" THEN outcome[p].epoch ELSE @]
  /\ Forget(p)
  /\ UNCHANGED <<tag, due, upstream, seen, want, script, epoch, overtaken, crashes>>
-----------------------------------------------------------------------------
(***************************************************************************)
(* ensure_verify_handoff: setup writes a fresh record over the old one.    *)
(***************************************************************************)
LoadForHandoff(p) ==
  /\ Goto(p, "idle", "handing")
  /\ Load(p)
  /\ \E s \in Scripts : script' = [script EXCEPT ![p] = s]
  /\ UNCHANGED <<files, upstream, seen, want, outcome, unmissed>>

SaveHandoff(p) ==
  /\ Goto(p, "handing", "idle")
  /\ WriteBack(p, [copy[p] EXCEPT ![script[p]] =
                      [status |-> "draft", tied |-> TRUE, trust |-> TrustHandoff,
                       runs |-> IF MinRuns = 0 THEN 0 ELSE 1]])
  /\ UNCHANGED <<tag, due, upstream, seen, want, script, outcome, decisions>>
-----------------------------------------------------------------------------
(***************************************************************************)
(* The world.                                                              *)
(***************************************************************************)
Release ==
  /\ upstream < MaxTag
  /\ upstream' = upstream + 1
  /\ UNCHANGED <<files, pc, locals, history>>

DaysPass ==
  /\ ~due /\ epoch < MaxEpoch
  /\ due' = TRUE
  /\ UNCHANGED <<tag, registry, upstream, pc, locals, history>>

Die(p) ==
  /\ crashes < MaxCrashes
  /\ pc[p] # "idle"
  /\ pc' = [pc EXCEPT ![p] = "idle"]
  /\ crashes' = crashes + 1
  /\ Drop(p) /\ Forget(p)
  /\ want' = [want EXCEPT ![p] = NoWant]
  /\ seen' = [seen EXCEPT ![p] = NoTag]
  /\ missed' = [missed EXCEPT ![p] = {}]
  /\ overtaken' = [overtaken EXCEPT ![p] = FALSE]
  /\ UNCHANGED <<files, upstream, script, epoch, earned, decided, tainted>>

TagStep(p) ==
  \/ FetchNewTag(p) \/ TouchTag(p) \/ CliTagReplace(p) \/ SaveCache(p)
  \/ LoadForDemotion(p) \/ SaveDemoted(p)

RunStep(p) ==
  \/ LoadContext(p) \/ RunGate(p) \/ SkipTrustUpdate(p) \/ LoadForUpdate(p)
  \/ SaveUpdate(p) \/ NextAttempt(p) \/ EvaluateScript(p)
  \/ LoadForPromotion(p) \/ SavePromotion(p)

Next ==
  \/ \E p \in Procs :
       TagStep(p) \/ RunStep(p) \/ LoadForHandoff(p) \/ SaveHandoff(p) \/ Die(p)
  \/ Release
  \/ DaysPass

Spec == Init /\ [][Next]_vars
-----------------------------------------------------------------------------
(***************************************************************************)
(* Properties.                                                             *)
(***************************************************************************)
Places == {"idle", "due", "fetched", "cascade", "demoting", "ready", "ran", "updating",
           "judged", "evaluated", "promoting", "handing"}

TypeOK ==
  /\ tag \in Tags /\ upstream \in 0 .. MaxTag
  /\ due \in BOOLEAN
  /\ registry \in [Scripts -> Records]
  /\ pc \in [Procs -> Places]
  /\ seen \in [Procs -> Tags]
  /\ want \in [Procs -> [tag : Tags, then : {"idle", "ready"}]]
  /\ copy \in [Procs -> [Scripts -> Records]]
  /\ script \in [Procs -> Scripts]
  /\ outcome \in [Procs -> [passed : BOOLEAN, allowed : BOOLEAN,
                            decision : {"approve", "defer", "reject"},
                            trust : 0 .. TrustMax, epoch : Nat]]
  /\ epoch \in Nat
  /\ earned \in [Scripts -> Nat]
  /\ decided \in [Scripts -> {"approve", "defer", "reject"}]
  /\ overtaken \in [Procs -> BOOLEAN]
  /\ missed \in [Procs -> SUBSET Scripts] /\ tainted \in SUBSET Scripts
  /\ crashes \in 0 .. MaxCrashes

\* A process that replaces the tag has not reached the registry yet.
Cascading(p) == pc[p] \in {"cascade", "demoting"}

\* The tag and the scripts promoted under it live in two files, written one
\* after the other (tag_cache.py:114, :124).  A tied script is canonical on
\* evidence of the current tag, or of as many tags ago as processes died or are
\* on their way to the registry; or it was promoted, or written back, by a
\* process that another had overtaken since it measured or loaded.
StalePromotionsNeedCrashes ==
  \A s \in Scripts \ tainted :
    registry[s].status = "canonical" /\ registry[s].tied =>
      epoch - earned[s] <= crashes + Cardinality({p \in Procs : Cascading(p)})

\* "this function is the only writer" (registry_writer.py:40), yet every update
\* of trust, tag or hand-off writes whole records back (trust_eval.py:96,
\* tag_cache.py:124).  A script is canonical only if the last decision
\* apply_promotion wrote about it was to approve, or if some process wrote it
\* back that had loaded the registry before others changed the script's
\* standing: nothing but that race revives a rejected script.
RejectedStaysOut ==
  \A s \in Scripts \ tainted :
    registry[s].status = "canonical" => decided[s] = "approve"

\* p is about to write back the tag it had read: touch_tag_refresh.
Touching(p) == want[p] = [tag |-> Touched(seen[p]), then |-> "ready"]

\* "Extend tag refresh policy without changing tag (no git fetch)"
\* (tag_cache.py:34): a touch writes the tag of the cache loaded before git was
\* asked, so it keeps the tag, but for the word it has for none, unless another
\* process changed the tag meanwhile.
TouchKeepsTag ==
  [][\A p \in Procs :
       SaveCache(p) /\ Touching(p) /\ ~overtaken[p] => tag' = Touched(tag)]_vars
=============================================================================
