SPECIFICATION Spec
CONSTANTS
  Files <- SharedFiles
  Name <- SharedName
  Kids <- SharedKids
  Top = "top"
  Anchors = {}
  Depths <- Unbounded
  Modes = {"resume"}
  Hops <- Unbounded
  BatchSize = 2
  CommitEvery = 2
  Builder = builder
  Deepeners = {d1}
  NoProc = nobody
  MaxBuilds = 2
  MaxDeepens = 0
  MaxStops = 1
PROPERTIES BuildIsAsFresh
