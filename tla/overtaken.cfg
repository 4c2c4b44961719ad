SPECIFICATION Spec
CONSTANTS
  b = b
  a = a
  Intent = {a}
  Cost <- OneUnit
  Capacity = 1
  w1 = w1  w2 = w2
  Worker = {w1, w2}
  Expect <- SameHead
  MaxHead = 0
  MaxCrashes = 0
  MayStepBack = FALSE
INVARIANT FailedTells
