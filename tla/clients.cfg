SPECIFICATION Spec
CONSTANTS
  i1 = i1  i2 = i2  k1 = k1  g1 = g1  t1 = t1  t2 = t2
  Grant = {g1}
  Key = {k1}
  KeyOf <- OneKey
  GrantOf <- OneGrant
  Thread = {t1, t2}
  Submission = {i1, i2}
  Version = {v1, v2}
  FaultSets <- Unscoping
SYMMETRY Alike
INVARIANTS TypeOK AnswersTell ScopeFirst
PROPERTY NoAnswerTurns
