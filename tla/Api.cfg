CONSTANTS
  Part = {"tokens", "throttles", "keys"}
  Requests = {r1, r2}
  Users = {u1}
  NoUser = NoUser
  Lifetime = 2
  MaxTokens = 3
  MaxTime = 4
  burst = burst
  daily = daily
  one = one
  both = both
  other = other
  CacheKeys = {burst, daily}
  Clients = {one, both, other}
  rate <- Rates
  duration <- Durations
  throttles <- Views
  Logins = {l1, l2}
  Kids = {k1, k2}
  NoKid = NoKid
  Nobody = Nobody
  Ttl = 2
  Cooldown = 2
  UnknownTtl = 2
  MaxUnknown = 1
  Latency = 1
SPECIFICATION ApiSpec
INVARIANTS
  TypesOK
  OneHeir
  RevokedFamiliesEnd
  RateHolds
  RetryAfterIsEnough
  NewKeysAreFound
  WithdrawnKeysExpire
PROPERTY ForcedFetchesAreRare
SYMMETRY Symmetry
CHECK_DEADLOCK FALSE
