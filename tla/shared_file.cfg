CONSTANTS
  Process = {p, q}
  Permit = {x}
  Key = {g, h}
  MaxRewinds = 1
SPECIFICATION Spec
SYMMETRY Alike
INVARIANTS
  TypeOK
  AnswersStand
  OneExecution
  KeysSound
PROPERTIES
  NeverUnsees
  Implements
