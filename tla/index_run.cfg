SPECIFICATION Spec
CONSTANTS
  Files <- ChainFiles
  Name <- ChainName
  Kids <- ChainKids
  Top = "top"
  Anchors = {"b"}
  Depths <- ShallowOrAll
  Modes = {"resume", "fresh", "force"}
  Hops <- Unbounded
  BatchSize = 2
  CommitEvery = 2
  Builder = builder
  Deepeners = {d1, d2}
  NoProc = nobody
  MaxBuilds = 2
  MaxDeepens = 2
  MaxStops = 1
INVARIANTS CheckpointIsBacked EmptyTreeIsExcused
PROPERTIES BuildIsAsFresh DeepenOnlyGrows DeepenReachesNextLevel
SYMMETRY Workers
