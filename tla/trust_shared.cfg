\* Two processes that work on one project at a time.
SPECIFICATION Spec
CONSTANTS
  Procs = {p1, p2}
  Scripts = {s1}
  TrustMax = 0
  TrustStart = 0
  TrustHandoff = 0
  Tau = 0
  PassDelta = 0
  FailDelta = 0
  MinRuns = 0
  MaxTag = 1
  MaxEpoch = 1
  MaxCrashes = 1
SYMMETRY Turns
INVARIANTS
  StalePromotionsNeedCrashes
  RejectedStaysOut
PROPERTIES
  TouchKeepsTag
