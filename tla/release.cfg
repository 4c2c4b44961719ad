SPECIFICATION FairSpec
CONSTANTS
  a = a  b = b  c = c
  Intent = {a, b}
  Cost <- OneUnit
  Capacity = 2
  Expect <- Heads
  MaxCrashes = 2
  ClocksDiffer = TRUE
INVARIANT ReleasedInPlace
PROPERTIES KeepsPromise EveryRowEnds
