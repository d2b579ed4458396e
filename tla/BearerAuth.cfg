\* Cached decisions: two overlapping requests, four tokens, room for three: an entry may be
\* renewed in its place, and then outlive the younger ones.
CONSTANTS
  Request = {r1, r2}
  Token = {t1, t2, t3, t4}
  NoToken = NoToken
  CacheTtl = 2
  CacheMax = 3
  Timeout = 1
  Horizon = 3
SPECIFICATION Spec
SYMMETRY Symmetry
INVARIANTS TypeOK CachedDecisionsAge CacheBounded
PROPERTIES EvictionSparesLive ImplementsTokenGuard
