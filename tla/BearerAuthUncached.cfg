\* No cache: every request is introspected, by a service that may never answer.
CONSTANTS
  Request = {r1, r2}
  Token = {t1}
  NoToken = NoToken
  CacheTtl = 0
  CacheMax = 1
  Timeout = 2
  Horizon = 4
SPECIFICATION LiveSpec
PROPERTIES ImplementsTokenGuard EveryRequestDecided
