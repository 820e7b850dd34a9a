SPECIFICATION Spec
CONSTANTS
  Nodes <- SharedNodes
  GraphEdge <- SharedEdge
  FlowEdge <- SharedEdge
  Missing <- SharedMiss
  Setup = "setup"
  END = "END"
  None = ""
  LlmNodes = {"run_codegen"}
  RunnerNodes = {}
  RunnerChoice = ""
  StepWriters = {"run_codegen"}
  SelfTraced = {}
  AutoModes = {TRUE}
  Clients = {c1, c2}
  MaxCrashes = 0
PROPERTIES CompletesOnOwnEvidence
