\* A limit that queues of four groups need all of.
\* A run ends: there is nothing to do after it.
SPECIFICATION Spec
CONSTANTS
  Projects <- TwoProjects
  Groups <- TwoGroups
  Refreshes = {"tag_watch"}
  StepLimit <- TightLimit
CHECK_DEADLOCK FALSE
INVARIANTS
  Accounted
  ContextIsCurrent
  VerdictOfLastGroup
  RefreshedBeforeVerified
PROPERTIES
  EveryQueueEnds
