SPECIFICATION Spec
CONSTANTS
  a = a  b = b  c = c  g = g  h = h  ka = ka  kb = kb  kc = kc
  fee = fee  quota = quota  s1 = s1  s2 = s2
  Intent = {a, b}
  Key = {ka, kb}
  KeyOf <- OwnKey
  Grant = {g, h}
  GrantOf <- TwoGrants
  ValidFrom <- LateStart
  ValidUntil <- EarlyEnd
  Cost <- UnitCost
  Resource = {quota}
  Needs <- QuotaNeeds
  Claim <- QuotaClaim
  Reserving = {quota}
  Limit <- OneUnit
  Window <- OneSecond
  Capacity = 2
  TTL = 2
  EffectiveFrom = 1
  ExpiresAt = 4
  Signer = {s1, s2}
  FirstSigner = s1
  Instant = {0, 1, 2, 3, 4}
  MayStepBack = FALSE
  Stamp = {2}
  Skew = 1
INVARIANTS
  DebitsUnderAuthority
  RevocationReleases
  ChainTellsExecutions
  ReplayTellsLifecycle
  ReservationIsAPromise
PROPERTIES
  AllowIsUsable
