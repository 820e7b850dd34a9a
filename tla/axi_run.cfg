SPECIFICATION Spec
CONSTANTS
  Outstanding <- TwoEach
  Depth = 3
  Latency = 0
  Beats = 2
  Tasks <- SomeTasks
INVARIANTS
  NoOrphans
  ReadsAreBacked
  CountsAreKept
  WritesStayTogether
  LockIsExclusive
PROPERTIES
  OnlyNewerOvertake
  CallsReturn
