SPECIFICATION Spec
CONSTANTS
  w2 = w2
  a = a  b = b
  Intent = {a, b}
  Cost <- OneUnit
  Capacity = 2
  w1 = w1
  Worker = {w1}
  Expect <- SameHead
  MaxHead = 1
  MaxCrashes = 2
  MayStepBack = TRUE
PROPERTY KeepsPromise
