CONSTANTS
  Tick = 2
  MaxRetries = 1
  RetryAfter <- Hints
  NoHeader = NoHeader
  Requests <- OnlyPings
  Durations <- Windows
  Unset = Unset
  Requested <- ByHand
  Trips <- Quick
  Supervised = TRUE
  MaxMissed = 3
  MaxAge = 6
SPECIFICATION FairSpec
INVARIANTS
  HeartbeatInv
  WindowHeld
PROPERTIES
  RateBounded
  LoopEnds
CHECK_DEADLOCK FALSE
