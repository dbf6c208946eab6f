CONSTANTS
  Key = {k1, k2}
  Holder = {h1, h2}
  NoHolder = NoHolder
  Orphan = Orphan
  LockMode = "redis"
  RedisFaults = TRUE
  Retries = 2
SPECIFICATION LockSpec
INVARIANTS OverlapNeedsExpiry
PROPERTIES KeysAreLeases AcquireReturns
