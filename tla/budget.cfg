SPECIFICATION Spec
CONSTANTS
  a = a  b = b  c = c  g = g  h = h  ka = ka  kb = kb  kc = kc
  fee = fee  quota = quota  s1 = s1  s2 = s2
  Intent = {a, b, c}
  Key = {ka, kb}
  KeyOf <- SharedKey
  Grant = {g}
  GrantOf <- OneGrant
  ValidFrom <- FromStart
  ValidUntil <- BeyondEnd
  Cost <- RivalCost
  Resource = {fee}
  Needs <- FeeNeeds
  Claim <- FeeClaim
  Reserving = {}
  Limit <- TwoUnits
  Window <- OneSecond
  Capacity = 3
  TTL = 1
  EffectiveFrom = 0
  ExpiresAt = 2
  Signer = {s1}
  FirstSigner = s1
  Instant = {0, 1, 2}
  MayStepBack = TRUE
  Stamp = {1}
  Skew = 1
INVARIANTS
  TypeOK
  BudgetConserved
  ReservationsCovered
  OneVerdictPerKey
  WindowHolds
PROPERTIES
  EndsForGood
  Implements
