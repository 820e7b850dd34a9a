CONSTANTS
  Threshold = 2
  OscMin = 2
  OscMax = 3
  Bodies = {a, b}
  FailKinds = {"env", "verification"}
  DriftScores = {0, 50}
  DriftMax = 30
  MaxBridge = 1
  MaxCodegen = 1
  MinGates = 2
  MinTrustRuns = 1
  TrustMax = 2
  TrustRun = 1
  TrustPromote = 2
  Profiles = {"production", "simulated"}
  MaxSteps = 11
  MaxOverrides = 1
  None = None
SPECIFICATION Spec
SYMMETRY BodySymmetry
INVARIANT StateMirrorsGuard
INVARIANT RepairsBounded
INVARIANT PassEndsWithParity
PROPERTY PromotionEarned
PROPERTY InfoGapHardStop
PROPERTY StalemateForcesLlm
PROPERTY LlmPassIsFresh
CHECK_DEADLOCK FALSE
