------------------------------ MODULE LoopGuard ------------------------------
(***************************************************************************)
(* loop_guard.py: the memory a verify_group run keeps of its failures, in  *)
(* loop_guard.yaml, and the three patterns it recognises in it.            *)
(*                                                                         *)
(* The histories in the file grow for ever; only their ends are ever read, *)
(* so a guard keeps exactly the window its detectors look at.  force_mode  *)
(* is left out: it is a function of the pattern, and set when stalemate    *)
(* is.  Drift scores are in hundredths.                                    *)
(***************************************************************************)
EXTENDS Integers, Sequences

CONSTANTS
  Threshold,  \* same_failure_threshold
  OscMin,     \* oscillation_min_period
  OscMax      \* oscillation_max_period

ASSUME LoopGuardAssumption ==
  /\ Threshold \in Nat \ {0}
  /\ OscMin \in Nat \ {0}
  /\ OscMax \in Nat \ {0}

\* an empty loop_guard.yaml, or none
Clean ==
  [signatures |-> <<>>, transitions |-> <<>>, drift |-> <<>>,
   stalemate |-> FALSE, pattern |-> ""]

Patterns == {"", "SPINNING", "OSCILLATION", "NO_DRIFT"}

LongestPeriod == IF OscMin > OscMax THEN OscMin ELSE OscMax

Window(s, n) == IF Len(s) <= n THEN s ELSE SubSeq(s, Len(s) - n + 1, Len(s))

\* append, forgetting what lies before the last n entries
Remember(s, e, n) == Window(Append(s, e), n)

\* the last Threshold failures carry one signature
Spinning(signatures) ==
  /\ Len(signatures) >= Threshold
  /\ LET recent == Window(signatures, Threshold)
     IN  \A i \in 1..Threshold : recent[i] = recent[1]

\* _is_periodic_oscillation: one period, at least two labels long, seen twice
Periodic(transitions, period) ==
  /\ period >= 2
  /\ Len(transitions) >= 2 * period
  /\ LET recent == Window(transitions, 2 * period)
     IN  /\ \A i \in 1..period : recent[i] = recent[period + i]
         /\ \E i \in 1..period : recent[i] # recent[1]

NoDrift(drift) ==
  /\ Len(drift) >= 3
  /\ LET recent == Window(drift, 3)
     IN  \A i, j \in 1..3 : recent[i] - recent[j] < 1

\* detect_stagnation_pattern
Detect(g) ==
  IF \E period \in OscMin..LongestPeriod : Periodic(g.transitions, period)
    THEN "OSCILLATION"
    ELSE IF NoDrift(g.drift) THEN "NO_DRIFT" ELSE ""

\* _apply_stalemate
Apply(g, pattern) ==
  IF pattern = "" THEN g ELSE [g EXCEPT !.stalemate = TRUE, !.pattern = pattern]

\* a failure with another signature lifts a stalemate, but only a SPINNING one
RecordFailure(g, signature) ==
  LET h == [g EXCEPT !.signatures = Remember(@, signature, Threshold)]
  IN  IF Spinning(h.signatures) THEN Apply(h, "SPINNING")
      ELSE IF Len(h.signatures) >= Threshold /\ h.pattern = "SPINNING"
        THEN [h EXCEPT !.stalemate = FALSE, !.pattern = ""]
      ELSE h

RecordTransition(g, label) ==
  LET h == [g EXCEPT !.transitions = Remember(@, label, 2 * LongestPeriod)]
  IN  Apply(h, Detect(h))

\* an oscillation is not reported here, and hides a lack of drift
RecordDrift(g, score) ==
  LET h == [g EXCEPT !.drift = Remember(@, score, 3)]
  IN  IF Detect(h) = "NO_DRIFT" THEN Apply(h, "NO_DRIFT") ELSE h

\* clear_stalemate_on_pass: a history of transitions alone is kept
ClearOnPass(g) ==
  IF g.stalemate \/ g.pattern # "" \/ g.signatures # <<>> \/ g.drift # <<>>
    THEN Clean ELSE g
=============================================================================
