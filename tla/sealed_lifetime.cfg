SPECIFICATION Spec
CONSTANTS
  a = a  b = b  c = c  g = g  h = h  ka = ka  kb = kb  kc = kc
  fee = fee  quota = quota  s1 = s1  s2 = s2
  Intent = {a}
  Key = {ka}
  KeyOf <- OwnKey
  Grant = {g, h}
  GrantOf <- TwoGrants
  ValidFrom <- LateStart
  ValidUntil <- EarlyEnd
  Cost <- UnitCost
  Resource = {}
  Needs <- NoNeeds
  Claim <- NoClaim
  Reserving = {}
  Limit <- NoLimit
  Window <- NoLimit
  Capacity = 2
  TTL = 2
  EffectiveFrom = 1
  ExpiresAt = 3
  Signer = {s1}
  FirstSigner = s1
  Instant = {0, 1, 2, 3}
  MayStepBack = FALSE
  Stamp = {2}
  Skew = 1
INVARIANTS
  SealedLifetime
