\* Two runs of one group or of two, one of which may die or time out.
\* A run is through: there is nothing to do after it.
SPECIFICATION FirstSpec
CONSTANTS
  Runs = {r1, r2}
  Groups = {g1, g2}
  Items = {i1}
  Answers <- SomeAnswers
  MaxRounds = 2
  MaxFaults = 1
CHECK_DEADLOCK FALSE
INVARIANTS
  TypeOK
  FinishedRunsAreThrough
  NothingIsWaved
PROPERTIES
  ExclusionsStay
  PendingIsWorkedOff
