\* An interval of 3 and a clock that is off by at most 1, so that deliveries of a
\* lifetime of 3 (2 attempts of 1, one wait of 1) overlap; one crash.
CONSTANTS
  Level = "error"
  Throttle = 3
  Retries = 1
  WebhookTimeout = 1
  MinTimeout = 1
  MaxSkew = 1
  MaxLives = 2
  Horizon = 6
SPECIFICATION LiveSpec
INVARIANTS TypeOK DeliveriesDoNotPileUp DeliveriesAreShort AlertsAreSpaced SilenceIsExplained
PROPERTIES DeliveriesEnd
