\* Two connections whose requests may hang, a grace period of 2, telemetry
\* enabled. The process really stops: that is what the run is about.
CONSTANTS
  ShutdownTimeout = 2
  OtelEnabled = TRUE
  MaxConnections = 2
  Horizon = 5
SPECIFICATION LiveSpec
INVARIANTS TypeOK CleanExitDrained ExitsFlushed GraceIsNotExtended
PROPERTIES ShutdownEnds
CHECK_DEADLOCK FALSE
