SPECIFICATION LiveSpec
CONSTANTS
  V4Bits = 2
  V6Bits = 3
  Request = {r1, r2}
  Asks <- MCAsks
  Setups <- MCSetups
  ApiKey = "key"
  UserEntries <- MCUserEntries
  JwtTokens <- MCJwtTokens
  BearerUrl = "auth"
  BearerTokens <- MCBearerTokens
  MetricsToken = "scrape"
  Allow <- MCAllow
  Deny <- MCDeny
  Limit = 1
  Ban = 1
  MaxWindows = 2
  MaxBreaks = 2
INVARIANT HitsAreCounted
