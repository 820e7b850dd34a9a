SPECIFICATION Spec
CONSTANTS
  Nodes <- LoopNodes
  GraphEdge <- LoopEdge
  FlowEdge <- LoopEdge
  Missing <- LoopMiss
  Setup = "setup"
  END = "END"
  None = ""
  LlmNodes = {}
  RunnerNodes = {"run_gate"}
  RunnerChoice = "select_runner"
  StepWriters = {"run_gate"}
  SelfTraced = {}
  AutoModes = {TRUE}
  Clients = {c1}
  MaxCrashes = 2
INVARIANTS LapsesBoundedByCrashes IllegalOnlyAfterCrash FinishedWithinCrashes
PROPERTIES LlmCalledBeforeRun
