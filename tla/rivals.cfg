SPECIFICATION FairSpec
CONSTANTS
  w2 = w2
  b = b
  a = a
  Intent = {a}
  Cost <- OneUnit
  Capacity = 1
  w1 = w1
  Worker = {w1, w2}
  Expect <- SameHead
  MaxHead = 1
  MaxCrashes = 1
  MayStepBack = TRUE
INVARIANTS
  CommittedTells
  NotExecutedTells
  DebitsFollowEffects
PROPERTY EveryRowEnds
