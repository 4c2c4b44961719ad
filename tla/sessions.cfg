SPECIFICATION SessionsSpec
CONSTANTS
  Module = {"finite"}
  Runner = "runner"
  Other = {"paper"}
  Commit = "commit"
  MaxChanges = 4
  MaxCalls = 2
  v1 = v1
  v2 = v2
  v3 = v3
  a1 = a1
  a2 = a2
  Version <- ThreeVersions
  Shown <- ShownOfThree
  Author <- TwoAuthors
  Text = {"question", "concern"}
  MaxDamage = 2
  MaxMessages = 3
  MaxWritten = 2
SYMMETRY Alike
INVARIANTS ReleasedAsObserved FreshWhenSent AttributedIsSaid
CHECK_DEADLOCK FALSE
