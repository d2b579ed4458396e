\* The same instance, asked for what the throttle is documented to promise.
CONSTANTS
  Level = "error"
  Throttle = 3
  Retries = 1
  WebhookTimeout = 2
  MinTimeout = 1
  MaxSkew = 0
  MaxLives = 1
  Horizon = 9
SPECIFICATION LiveSpec
INVARIANT OneNotificationPerInterval
