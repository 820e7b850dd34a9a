CONSTANTS
  Threshold = 2
  OscMin = 2
  OscMax = 3
  Bodies = {a, b}
  FailKinds = {"env", "verification"}
  DriftScores = {0, 50}
  DriftMax = 30
  MaxBridge = 1
  MaxCodegen = 1
  MinGates = 2
  MinTrustRuns = 1
  TrustMax = 4
  TrustRun = 3
  TrustPromote = 3
  Profiles = {"production"}
  MaxSteps = 14
  MaxOverrides = 0
  None = None
SPECIFICATION Spec
SYMMETRY BodySymmetry
PROPERTY ParityComparesOps
CHECK_DEADLOCK FALSE
